----------------------------- MODULE LtChannel -----------------------------
(***************************************************************************)
(* What the L3 commands of libtropic promise an application, whatever      *)
(* happens to the link, the chip and the session: commands are executed at *)
(* most once and in the order of the calls, an execution may come late or  *)
(* never, and only the call in progress is answered, once, after its own   *)
(* command was executed.                                                   *)
(***************************************************************************)
EXTENDS Naturals

VARIABLES
  calls,      \* number of commands issued; the last one may be in progress
  executed,   \* commands executed by the chip
  runs,       \* number of executions
  answered    \* commands whose result was returned

vars == <<calls, executed, runs, answered>>

Init == calls = 0 /\ executed = {} /\ runs = 0 /\ answered = {}

Issue ==
  /\ calls' = calls + 1
  /\ UNCHANGED <<executed, runs, answered>>

Execute(c) ==
  /\ \A e \in executed : e < c
  /\ executed' = executed \union {c} /\ runs' = runs + 1
  /\ UNCHANGED <<calls, answered>>

Answer ==
  /\ calls \in executed /\ calls \notin answered
  /\ answered' = answered \union {calls}
  /\ UNCHANGED <<calls, executed, runs>>

Next == Issue \/ (\E c \in 1..calls : Execute(c)) \/ Answer

Spec == Init /\ [][Next]_vars
=============================================================================
