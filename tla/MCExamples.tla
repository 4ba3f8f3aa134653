------------------------------ MODULE MCExamples ------------------------------
(***************************************************************************)
(* Two example programs: the PIN engine (LtMacAndDestroy) and provisioning *)
(* (LtHwWallet).  They share no state; part says which of them a behaviour *)
(* is about, while the other stays in one initial state.                   *)
(***************************************************************************)
EXTENDS LtMacAndDestroy, LtHwWallet

VARIABLE part

ExamplesInit ==
  /\ part \in {"pin", "wallet"} /\ Init /\ WalletInit
  /\ part = "wallet" => ex = NotRunning /\ pin = ExPin

ExamplesNext ==
  \/ part = "pin" /\ Next /\ UNCHANGED <<part, walletVars>>
  \/ part = "wallet" /\ WalletNext /\ UNCHANGED <<part, vars>>

ExamplesSpec == ExamplesInit /\ [][ExamplesNext]_<<part, vars, walletVars>>
=============================================================================
