------------------------------- MODULE MCFrames -------------------------------
(***************************************************************************)
(* One frame: LtL1, the SPI transactions of a transfer, and LtL2, a request*)
(* and its response with resends.  The two share no state; part says which *)
(* of them a behaviour is about, while the other stays in one initial      *)
(* state, where it has no step that must happen.                           *)
(***************************************************************************)
EXTENDS LtL1, LtL2

VARIABLE part

FramesInit ==
  /\ part \in {"L1", "L2"} /\ L1Init /\ Init
  /\ part = "L2" => chipMode = "APP"

FramesNext ==
  \/ part = "L1" /\ L1Next /\ UNCHANGED <<part, vars>>
  \/ part = "L2" /\ Next /\ UNCHANGED <<part, l1Vars>>

FramesSpec ==
  /\ FramesInit /\ [][FramesNext]_<<part, l1Vars, vars>>
  /\ WF_l1Vars(L1HostStep) /\ WF_vars(HostStep)
=============================================================================
