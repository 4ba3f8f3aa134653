------------------------------ MODULE MCPackets ------------------------------
(***************************************************************************)
(* Layer 3 packets: LtL3, which fills and reads them, and LtL2Chunks, which*)
(* moves them.  The two share no state; part says which of them a          *)
(* behaviour is about, while the other stays in one initial state.         *)
(* LtL2Chunks has the sizes of the code: every length of a command, short  *)
(* and long results, the default and a reduced L3 buffer.                  *)
(***************************************************************************)
EXTENDS LtL3, LtL2Chunks

AllCmdSizes == 1..4126
AllResSizes == (18..256) \union (4140..L3_PACKET_MAX_SIZE)

VARIABLE part

PacketsInit ==
  /\ part \in {"commands", "chunks"} /\ Init /\ ChunkInit
  /\ part = "commands" => \A n \in MaxLens : max_len <= n
  /\ part = "chunks" => buff_len = L3_PACKET_MAX_SIZE

PacketsNext ==
  \/ part = "commands" /\ Next /\ UNCHANGED <<part, chunkVars>>
  \/ part = "chunks" /\ ChunkNext /\ UNCHANGED <<part, vars>>

PacketsSpec == PacketsInit /\ [][PacketsNext]_<<part, vars, chunkVars>>
=============================================================================
