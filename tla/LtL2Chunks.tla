----------------------------- MODULE LtL2Chunks -----------------------------
(***************************************************************************)
(* An encrypted L3 packet crosses layer 2 in chunks:                       *)
(* lt_l2_send_encrypted_cmd cuts the command, lt_l2_recv_encrypted_res puts*)
(* the result together from chunks whose lengths the chip chooses.  A      *)
(* chunk is a range of the packet; what was put together is the length of  *)
(* the right prefix, or -1 once a wrong piece is in it.                    *)
(***************************************************************************)
EXTENDS Integers, LtL3Structs

CONSTANTS
  CmdSizes,     \* cmd_size of the commands
  MaxLens,      \* h->l3.buff_len, chosen at build time
  ResultSizes,     \* lengths of the result packets
  ChipChunks,   \* lengths of the chunks the chip makes
  RspLenMax,    \* largest rsp_len lt_l1_read lets through
  MaxUnseen     \* bound: damaged frames taken for good ones in one call

L2_CHUNK_MAX_DATA_SIZE == 252
MAX_LOOPS == 42

\* A chip that makes chunks of at least 99 bytes fits any packet into
\* MAX_LOOPS frames; the comment on MAX_LOOPS speaks of 128.  packet_size does
\* not wrap: lt_out__* announces at most 4112 (see CommandInBuffer in LtL3).
ASSUME ChunksAssumption ==
  /\ \A cmd_size \in CmdSizes : cmd_size \in Nat \ {0} /\ 2 + cmd_size + 16 < 65536
  /\ MaxLens \subseteq Nat
  /\ ResultSizes \subseteq 1..L3_PACKET_MAX_SIZE
  /\ ChipChunks \subseteq 99..L2_CHUNK_MAX_DATA_SIZE
  /\ RspLenMax \in L2_CHUNK_MAX_DATA_SIZE..255
  /\ MaxUnseen \in Nat

VARIABLES
  at, rv,
  max_len, size,    \* argument; packet_size of the command, length of the result
  i, offset, loops, \* loop counters of the two functions
  got,              \* sending: prefix the chip holds; receiving: prefix in buff
  ack,              \* sending: STATUS of the frame to be read
  pos,              \* receiving: what the chip has sent of the result
  top,              \* end of the highest byte copied into buff
  unseen            \* damaged frames taken for good ones

chunkVars == <<at, rv, max_len, size, i, offset, loops, got, ack, pos, top, unseen>>

ChunkInit ==
  /\ at = "idle" /\ rv = "none" /\ max_len \in MaxLens /\ size = 0
  /\ i = 0 /\ offset = 0 /\ loops = 0 /\ got = 0 /\ ack = "none" /\ pos = 0
  /\ top = 0 /\ unseen = 0

\* The functions keep nothing between calls: a behaviour is one call.
ChunkReturn(r) == at' = "returned" /\ rv' = r

\* A piece put where the right prefix ends makes it longer.
Extend(prefix, from, len) == IF prefix = from THEN from + len ELSE -1

\* Takes a damaged frame for a good one, or an undamaged one.
Accept(crc) == \/ crc /\ UNCHANGED unseen
               \/ ~crc /\ unseen < MaxUnseen /\ unseen' = unseen + 1

chunk_num == (size \div L2_CHUNK_MAX_DATA_SIZE)
             + (IF size % L2_CHUNK_MAX_DATA_SIZE = 0 THEN 0 ELSE 1)

\* A variant for mutation: a last chunk of full length counts as empty.
last_chunk_by_remainder == size % L2_CHUNK_MAX_DATA_SIZE

last_chunk_len == size - (chunk_num - 1) * L2_CHUNK_MAX_DATA_SIZE

req_len == IF i = chunk_num - 1 THEN last_chunk_len ELSE L2_CHUNK_MAX_DATA_SIZE

(***************************************************************************)
(* lt_l2_send_encrypted_cmd.                                               *)
(***************************************************************************)
lt_l2_send_encrypted_cmd ==
  /\ at = "idle"
  /\ \E cmd_size \in CmdSizes :
       /\ size' = (2 + cmd_size + 16) % 65536
       /\ i' = 0 /\ got' = 0 /\ top' = 0 /\ unseen' = 0
       /\ \/ max_len > L3_PACKET_MAX_SIZE /\ ChunkReturn("LT_PARAM_ERR")
          \/ /\ max_len <= L3_PACKET_MAX_SIZE /\ size' > max_len
             /\ ChunkReturn("LT_L3_DATA_LEN_ERROR")
          \/ /\ max_len <= L3_PACKET_MAX_SIZE /\ size' <= max_len
             /\ at' = "write" /\ UNCHANGED rv
  /\ UNCHANGED <<max_len, offset, loops, ack, pos>>

\* The chunk reaches the chip, or a damaged chunk, or the write fails.
write_chunk ==
  /\ at = "write"
  /\ \/ /\ got' = Extend(got, i * L2_CHUNK_MAX_DATA_SIZE, req_len)
        /\ ack' = IF i = chunk_num - 1 THEN "REQUEST_OK" ELSE "REQUEST_CONT"
        /\ at' = "ack" /\ UNCHANGED rv
     \/ /\ ack' \in {"CRC_ERR", "OTHER"}
        /\ at' = "ack" /\ UNCHANGED <<got, rv>>
     \/ ChunkReturn("LT_FAIL") /\ UNCHANGED <<got, ack>>
  /\ UNCHANGED <<max_len, size, i, offset, loops, pos, top, unseen>>

lt_l2_frame_check(status, crc) ==
  CASE status \in {"REQUEST_OK", "RESULT_OK"} -> IF crc THEN "LT_OK" ELSE "LT_L2_IN_CRC_ERR"
    [] status = "REQUEST_CONT" -> "LT_L2_REQ_CONT"
    [] status = "RESULT_CONT" -> "LT_L2_RES_CONT"
    [] OTHER -> "LT_L2_ERR"

\* STATUS and CRC of the frame that is read: the chip's, or damaged.
Delivered ==
  {<<ack, TRUE>>} \union
  ({"REQUEST_OK", "REQUEST_CONT", "RESULT_OK", "RESULT_CONT", "CRC_ERR", "OTHER"} \X {FALSE})

read_ack ==
  /\ at = "ack"
  /\ \/ ChunkReturn("LT_FAIL") /\ UNCHANGED <<i, unseen>>
     \/ \E f \in Delivered :
          LET r == lt_l2_frame_check(f[1], f[2]) IN
          \/ r \notin {"LT_OK", "LT_L2_REQ_CONT"} /\ ChunkReturn(r) /\ UNCHANGED <<i, unseen>>
          \/ /\ r \in {"LT_OK", "LT_L2_REQ_CONT"}
             /\ Accept(f[2])
             /\ i' = i + 1
             /\ IF i + 1 < chunk_num THEN at' = "write" /\ UNCHANGED rv
                ELSE ChunkReturn("LT_OK")
  /\ UNCHANGED <<max_len, size, offset, loops, got, ack, pos, top>>

(***************************************************************************)
(* lt_l2_recv_encrypted_res.                                               *)
(***************************************************************************)
lt_l2_recv_encrypted_res ==
  /\ at = "idle"
  /\ size' \in ResultSizes
  /\ offset' = 0 /\ loops' = 0 /\ got' = 0 /\ pos' = 0 /\ top' = 0 /\ unseen' = 0
  /\ IF max_len > L3_PACKET_MAX_SIZE
       THEN ChunkReturn("LT_PARAM_ERR")
       ELSE at' = "recv" /\ UNCHANGED rv
  /\ UNCHANGED <<max_len, i, ack>>

\* A variant for mutation: only the offset is tested.
fits_if_not_full(len) == offset <= max_len

fits(len) == offset + len <= max_len

\* A variant for mutation: the 32 rounds the comment on MAX_LOOPS computes.
loops_as_computed(n) == n < 32

more_loops(n) == n < MAX_LOOPS

\* The frames the chip may send next: <<STATUS, length>>.
chip_frame ==
  {<<"RESULT_CONT", n>> : n \in {c \in ChipChunks : c < size - pos}} \union
  (IF size - pos \in 1..L2_CHUNK_MAX_DATA_SIZE THEN {<<"RESULT_OK", size - pos>>} ELSE {})

\* The frame as it is read: <<STATUS, length, CRC>>; a damaged one has any
\* STATUS and any length that layer 1 lets through.
Arrivals(f) ==
  {<<f[1], f[2], TRUE>>} \union
  ({"RESULT_OK", "RESULT_CONT", "OTHER"} \X {0, L2_CHUNK_MAX_DATA_SIZE, RspLenMax} \X {FALSE})

\* A variant for mutation: every chunk goes to the start of the buffer.
copy_to_start(len, crc) ==
  /\ got' = IF crc /\ pos = 0 THEN len ELSE -1
  /\ top' = len

\* memcpy(buff + offset, resp->l3_chunk, resp->rsp_len)
copy(len, crc) ==
  /\ got' = IF crc /\ pos = offset THEN Extend(got, offset, len) ELSE -1
  /\ top' = offset + len

read_chunk ==
  /\ at = "recv"
  /\ \/ ChunkReturn("LT_FAIL") /\ UNCHANGED <<offset, loops, got, pos, top, unseen>>
     \/ \E c \in chip_frame : \E f \in Arrivals(c) :
          LET len == f[2]
              r == lt_l2_frame_check(f[1], f[3])
          IN
          /\ pos' = pos + c[2]
          /\ \/ /\ ~fits(len)
                /\ ChunkReturn("LT_L3_DATA_LEN_ERROR")
                /\ UNCHANGED <<offset, loops, got, top, unseen>>
             \/ /\ fits(len) /\ r \notin {"LT_OK", "LT_L2_RES_CONT"}
                /\ ChunkReturn(r)
                /\ UNCHANGED <<offset, loops, got, top, unseen>>
             \/ /\ fits(len) /\ r = "LT_L2_RES_CONT"
                /\ copy(len, f[3]) /\ Accept(f[3])
                /\ offset' = offset + len
                /\ loops' = loops + 1
                /\ IF more_loops(loops') THEN UNCHANGED <<at, rv>>
                   ELSE ChunkReturn("LT_FAIL_loops")
             \/ /\ fits(len) /\ r = "LT_OK"
                /\ copy(len, f[3]) /\ Accept(f[3])
                /\ ChunkReturn("LT_OK") /\ UNCHANGED <<offset, loops>>
  /\ UNCHANGED <<max_len, size, i, ack>>

ChunkNext == lt_l2_send_encrypted_cmd \/ write_chunk \/ read_ack
        \/ lt_l2_recv_encrypted_res \/ read_chunk

ChunkSpec == ChunkInit /\ [][ChunkNext]_chunkVars

(***************************************************************************)
(* Properties.                                                             *)
(***************************************************************************)
Codes == {"none", "LT_OK", "LT_FAIL", "LT_FAIL_loops", "LT_PARAM_ERR",
          "LT_L3_DATA_LEN_ERROR", "LT_L2_IN_CRC_ERR", "LT_L2_REQ_CONT",
          "LT_L2_RES_CONT", "LT_L2_ERR"}

\* Every variable has its type; i and loops stay below their bounds and the
\* lengths and offsets within 16 bits.
ChunkTypeOK ==
  /\ at \in {"idle", "write", "ack", "recv", "returned"} /\ rv \in Codes
  /\ max_len \in MaxLens /\ size \in Nat /\ size < 65536
  /\ i \in 0..17 /\ loops \in 0..MAX_LOOPS
  /\ offset \in Nat /\ top \in Nat /\ pos \in 0..L3_PACKET_MAX_SIZE
  /\ offset < 65536 /\ top < 65536
  /\ got \in Int /\ got >= -1 /\ got < 65536
  /\ ack \in {"none", "REQUEST_OK", "REQUEST_CONT", "CRC_ERR", "OTHER"}
  /\ unseen \in 0..MaxUnseen

\* Every chunk of a command has 1 to 252 bytes and ends inside the packet, for
\* every cmd_size: req_len never wraps and the last chunk is never empty.
ChunkFits ==
  at = "write" =>
    /\ req_len \in 1..L2_CHUNK_MAX_DATA_SIZE
    /\ i * L2_CHUNK_MAX_DATA_SIZE + req_len <= size

\* When lt_l2_send_encrypted_cmd returns LT_OK the chip holds the whole packet,
\* and when lt_l2_recv_encrypted_res does, the buffer holds the whole result:
\* each byte once and in order, for every length and every way the chip cuts
\* it - unless a damaged frame was taken for a good one.
PacketWhole == rv = "LT_OK" /\ unseen = 0 => got = size

\* No copy of lt_l2_recv_encrypted_res ends behind the L3 buffer, not even for
\* damaged lengths.
CopyInBuffer == top <= max_len

\* MAX_LOOPS never cuts off a result that arrives undamaged.
EnoughLoops == rv = "LT_FAIL_loops" => unseen > 0
=============================================================================
