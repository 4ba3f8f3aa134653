----------------------- MODULE LtExamples_proofs -----------------------
(***************************************************************************)
(* Proofs about the two examples with a protocol of their own.  The PIN    *)
(* engine, LtMacAndDestroy: for every number of rounds, every set of PINs  *)
(* and any number of calls, failed commands and losses of power.  The      *)
(* hardware wallet, LtHwWallet: for any number of runs, failed commands    *)
(* and losses of power.                                                    *)
(***************************************************************************)
EXTENDS LtMacAndDestroy, LtHwWallet, TLAPS

R == MACANDD_ROUNDS
SetPcs == {"set_erase", "set_u", "set_v", "set_u2", "set_write"}
CheckPcs == {"read", "erase", "write", "guess", "reinit", "erase2", "write2"}

\* What lt_PIN_set stores for secret t and PIN p, with the slots below k done.
Cipher(t, p) == Encrypt(<<u(t), v(p)>>, p, t)
Ciphers(t, p, k) ==
  [j \in Slots |-> IF j < k THEN Cipher(t, p) ELSE Encrypt(<<>>, <<>>, None)]
Partial(t, p, k) == [i |-> R, ci |-> Ciphers(t, p, k), t |-> t]
\* What R-memory may hold: the same, complete, with another counter.
Rec(i, t, p) == [i |-> i, ci |-> Ciphers(t, p, R), t |-> t]

Stored(m) == m.i \in 0..R /\ m.t \in 1..sets /\ m = Rec(m.i, m.t, set[m.t])

\* Slot j can check the PIN of secret t, or it is the last one, after a success.
SlotOk(j, t) == slot[j] = u(t) \/ (j = R - 1 /\ released)
Ready(k, t) == \A j \in 0..(k - 1) : SlotOk(j, t)
Fresh(k, t) == \A j \in 0..(k - 1) : slot[j] = u(t)

TypeOK ==
  /\ pc \in {"idle"} \union SetPcs \union CheckPcs
  /\ fn \in {"none", "set", "check"} /\ pin \in PINs
  /\ sets \in 0..MaxSets /\ DOMAIN set = 1..MaxSets /\ DOMAIN slot = Slots
  /\ secret \in Nat /\ tries \in Nat /\ faults \in Nat /\ ex \in -2..(R + 1)

\* What is stored can be used, and has been paid for.
MemInv ==
  /\ tries <= R
  /\ rmem # Empty => Stored(rmem) /\ Ready(rmem.i, rmem.t) /\ tries + rmem.i <= R

SetInv ==
  pc \in SetPcs =>
    /\ fn = "set" /\ s \in 1..sets /\ set[s] = pin
    /\ x \in 0..R /\ nvm = Partial(s, pin, x)
    /\ Fresh(x, s)
    /\ pc = "set_erase" => x = 0
    /\ pc # "set_erase" => rmem = Empty
    /\ pc \in {"set_u", "set_v", "set_u2"} => x < R
    /\ pc = "set_v" => slot[x] = u(s)
    /\ pc = "set_u2" => w = <<u(s), v(pin)>>
    /\ pc = "set_write" => x = R

CheckInv ==
  /\ pc \in CheckPcs => fn = "check" /\ secret = None
  /\ pc \in CheckPcs \ {"read"} => Stored(nvm)
  /\ pc \in {"erase", "write", "guess"} =>
       nvm.i < R /\ Ready(nvm.i + 1, nvm.t) /\ tries + nvm.i + 1 <= R
  /\ pc \in {"write", "write2"} => rmem = Empty
  /\ pc \in {"guess", "reinit", "erase2"} => rmem = nvm
  /\ pc \in {"reinit", "erase2", "write2"} => s = nvm.t /\ set[s] = pin
  /\ pc = "reinit" => x \in nvm.i..(R - 2) /\ Ready(x, s)
  /\ pc \in {"erase2", "write2"} => Ready(R - 1, s)
  /\ pc = "write2" => nvm.i = R

\* lt_ex_macandd, as long as nothing failed.
ExInv ==
  faults = 0 =>
    /\ ex # ReturnedError
    /\ ex = 1 => pc \in SetPcs \union {"idle"} /\ (pc \in SetPcs => pin = ExPin)
    /\ ex >= 2 => pc \notin SetPcs /\ pin = IF ex = R + 1 THEN ExPin ELSE ExWrong
    /\ ex >= 1 /\ pc = "idle" =>
         /\ ret = IF ex \in {1, R + 1} THEN "LT_OK" ELSE "LT_FAIL"
         /\ ex <= R => /\ rmem # Empty /\ rmem.i = R + 1 - ex
                       /\ set[rmem.t] = ExPin /\ Fresh(rmem.i, rmem.t)
    /\ ex >= 2 /\ pc = "read" =>
         /\ rmem # Empty /\ rmem.i = R + 2 - ex
         /\ set[rmem.t] = ExPin /\ Fresh(rmem.i, rmem.t)
    /\ ex >= 2 /\ pc \in {"erase", "write", "guess"} =>
         nvm.i = R + 1 - ex /\ set[nvm.t] = ExPin /\ Fresh(nvm.i + 1, nvm.t)
    /\ ex >= 2 /\ pc \in {"reinit", "erase2", "write2"} => ex = R + 1

IInv == TypeOK /\ MemInv /\ SetInv /\ CheckInv /\ CheckVerdict

-----------------------------------------------------------------------------
(***************************************************************************)
(* What is stored.                                                         *)
(***************************************************************************)

\* The ciphers before the first slot and after the last one.
LEMMA CiphersOf ==
  ASSUME NEW t, NEW p
  PROVE  /\ Ciphers(t, p, 0) = NoNvm.ci
         /\ \A j \in Slots : Ciphers(t, p, R)[j] = Cipher(t, p)
<1> USE MacAndDestroyAssumption
<1>1. \A j \in Slots : j \in Int /\ ~(j < 0) /\ j < R
  BY DEF Slots, R
<1>2. Ciphers(t, p, 0) = [j \in Slots |-> Encrypt(<<>>, <<>>, None)]
  BY <1>1 DEF Ciphers
<1>3. NoNvm.ci = [j \in Slots |-> Encrypt(<<>>, <<>>, None)]
  BY DEF NoNvm
<1>4. \A j \in Slots : Ciphers(t, p, R)[j] = Cipher(t, p)
  BY <1>1 DEF Ciphers
<1> QED BY <1>2, <1>3, <1>4

\* The fields of a complete record; it is never taken for an erased slot.
LEMMA RecFields ==
  ASSUME NEW i \in Int, NEW t, NEW p
  PROVE  /\ Rec(i, t, p).i = i /\ Rec(i, t, p).t = t
         /\ \A j \in Slots : Rec(i, t, p).ci[j] = Cipher(t, p)
         /\ \A k : [Rec(i, t, p) EXCEPT !.i = k] = Rec(k, t, p)
         /\ i >= 0 => Rec(i, t, p) # Empty
<1>1. Empty.i = -1
  BY DEF Empty, NoNvm
<1>2. /\ Rec(i, t, p).i = i /\ Rec(i, t, p).t = t
      /\ Rec(i, t, p).ci = Ciphers(t, p, R)
      /\ \A k : [Rec(i, t, p) EXCEPT !.i = k] = Rec(k, t, p)
  BY DEF Rec
<1> QED BY <1>1, <1>2, CiphersOf

\* Before the first slot nothing is encrypted, after the last one all is.
LEMMA PartialFields ==
  ASSUME NEW t, NEW p
  PROVE  /\ [NoNvm EXCEPT !.i = MACANDD_ROUNDS, !.t = t] = Partial(t, p, 0)
         /\ Partial(t, p, R) = Rec(R, t, p)
<1> DEFINE c0 == NoNvm.ci
<1>1. [NoNvm EXCEPT !.i = MACANDD_ROUNDS] = [i |-> MACANDD_ROUNDS, ci |-> c0, t |-> None]
  BY DEF NoNvm
<1>2. [NoNvm EXCEPT !.i = MACANDD_ROUNDS, !.t = t]
        = [i |-> MACANDD_ROUNDS, ci |-> c0, t |-> t]
  <2> HIDE DEF c0
  <2>1. [[i |-> MACANDD_ROUNDS, ci |-> c0, t |-> None] EXCEPT !.t = t]
          = [i |-> MACANDD_ROUNDS, ci |-> c0, t |-> t]
    OBVIOUS
  <2>2. [NoNvm EXCEPT !.i = MACANDD_ROUNDS, !.t = t]
          = [[NoNvm EXCEPT !.i = MACANDD_ROUNDS] EXCEPT !.t = t]
    OBVIOUS
  <2> QED BY <1>1, <2>1, <2>2, Zenon
<1> QED BY <1>2, CiphersOf DEF Partial, Rec, R

-----------------------------------------------------------------------------
(***************************************************************************)
(* Steps that many commands share.                                         *)
(***************************************************************************)

\* A command that leaves the chip alone keeps what is stored usable.
LEMMA MemKept ==
  ASSUME MemInv, UNCHANGED <<slot, rmem, sets, set, hist>>
  PROVE  MemInv'
BY DEF MemInv, Stored, Ready, SlotOk, hist

\* So does a command that erases the R-memory slot.
LEMMA MemErased ==
  ASSUME MemInv, UNCHANGED hist, rmem' = Empty
  PROVE  MemInv'
BY DEF MemInv, hist

\* A lower counter needs fewer slots.
LEMMA ReadyLess ==
  ASSUME NEW k \in Int, NEW t, Ready(k + 1, t)
  PROVE  Ready(k, t)
<1>1. \A j \in 0..(k - 1) : j \in 0..(k + 1 - 1)
  OBVIOUS
<1> QED BY <1>1 DEF Ready

\* A MAC-and-Destroy command replaces one slot.
LEMMA MacEffect ==
  ASSUME TypeOK, NEW j \in Slots, NEW in, MacAndDestroy(j, in)
  PROVE  /\ rmem' = rmem /\ DOMAIN slot' = Slots /\ slot'[j] = in
         /\ \A k \in Slots : k # j => slot'[k] = slot[k]
BY DEF MacAndDestroy, TypeOK

\* A function that ends without LT_OK leaves only what is stored.
LEMMA ToIdle ==
  ASSUME IInv, MemInv', pc # "idle", pc' = "idle", ret' # "LT_OK",
         secret' \in {None, secret}, UNCHANGED <<fn, pin, counts>>,
         faults' \in Nat, ex' \in -2..(R + 1), tries' \in Nat, DOMAIN slot' = Slots
  PROVE  IInv'
<1>1. TypeOK'
  BY DEF IInv, TypeOK, counts, None
<1>2. SetInv' /\ CheckInv'
  BY DEF SetInv, CheckInv, SetPcs, CheckPcs
<1>3. CheckVerdict'
  <2>1. fn = "check" => pc \in CheckPcs
    BY DEF IInv, TypeOK, SetInv, SetPcs, CheckPcs
  <2>2. fn = "check" => secret = None
    BY <2>1 DEF IInv, CheckInv
  <2> QED BY <2>2 DEF CheckVerdict
<1> QED BY <1>1, <1>2, <1>3 DEF IInv

\* A command that fails.
LEMMA CommandFails ==
  ASSUME IInv, MemInv', DOMAIN slot' = Slots, tries' \in Nat, pc # "idle",
         Fault, Return("LT_FAIL_LINK"), UNCHANGED <<locals, secret>>,
         UNCHANGED <<fn, pin, counts, ex>>
  PROVE  IInv'
<1>1. faults' \in Nat /\ ex' \in -2..(R + 1)
  BY DEF Fault, IInv, TypeOK
<1> QED BY <1>1, ToIdle DEF Return

\* The initial states satisfy the inductive invariant.
LEMMA InitInv == Init => IInv
<1> SUFFICES ASSUME Init PROVE IInv
  OBVIOUS
<1> USE MacAndDestroyAssumption
<1>1. TypeOK
  BY DEF Init, TypeOK, SetPcs, CheckPcs, None, R, NotRunning
<1>2. MemInv
  BY DEF Init, MemInv, R
<1>3. SetInv /\ CheckInv /\ CheckVerdict
  BY DEF Init, SetInv, CheckInv, SetPcs, CheckPcs, CheckVerdict
<1> QED BY <1>1, <1>2, <1>3 DEF IInv

\* lt_PIN_set up to its first command: a new secret, nothing encrypted.
LEMMA BeginSet ==
  ASSUME IInv, NEW p \in PINs, Begin_set(p), ex' \in -2..(R + 1)
  PROVE  IInv'
<1> USE MacAndDestroyAssumption
<1>1. /\ sets \in Nat /\ sets' = sets + 1 /\ sets' \in 1..MaxSets
      /\ set'[sets'] = p /\ DOMAIN set' = 1..MaxSets
      /\ \A n \in 1..sets : set'[n] = set[n]
      /\ UNCHANGED <<slot, rmem, hist, faults>>
  BY DEF IInv, TypeOK, Begin_set, chip
<1>2. TypeOK'
  BY <1>1 DEF IInv, TypeOK, Begin_set, SetPcs, None, hist
<1>3. MemInv'
  <2>1. rmem' # Empty => Stored(rmem)'
    BY <1>1 DEF IInv, MemInv, Stored
  <2> QED BY <1>1, <2>1 DEF IInv, MemInv, Ready, SlotOk, hist
<1>4. SetInv'
  <2>1. nvm' = Partial(sets', p, 0)
    BY PartialFields DEF Begin_set
  <2> QED BY <1>1, <2>1 DEF Begin_set, SetInv, SetPcs, Fresh, R
<1>5. CheckInv' /\ CheckVerdict'
  BY DEF Begin_set, CheckInv, CheckPcs, CheckVerdict
<1> QED BY <1>2, <1>3, <1>4, <1>5 DEF IInv

\* lt_PIN_check up to its first command.
LEMMA BeginCheck ==
  ASSUME IInv, NEW p \in PINs, Begin_check(p), ex' \in -2..(R + 1)
  PROVE  IInv'
<1>1. TypeOK'
  BY DEF IInv, TypeOK, Begin_check, chip, CheckPcs, None, hist
<1>2. MemInv'
  BY MemKept DEF IInv, Begin_check, chip
<1>3. SetInv' /\ CheckInv' /\ CheckVerdict'
  BY DEF Begin_check, SetInv, CheckInv, SetPcs, CheckPcs, CheckVerdict
<1> QED BY <1>1, <1>2, <1>3 DEF IInv

-----------------------------------------------------------------------------
(***************************************************************************)
(* lt_PIN_set.                                                             *)
(***************************************************************************)

\* The old record is erased first: from here on R-memory is empty.
LEMMA SetEraseStep == ASSUME IInv, set_erase PROVE IInv'
<1> USE MacAndDestroyAssumption
<1>1. pc = "set_erase" /\ UNCHANGED hist /\ tries' \in Nat
  BY DEF set_erase, Command, IInv, TypeOK, hist
<1>2. MemInv' /\ DOMAIN slot' = Slots
  BY MemKept, MemErased DEF set_erase, Command, Erase, chip, counts, IInv, TypeOK
<1>3. CASE Erase /\ Go("set_u") /\ UNCHANGED <<locals, faults>>
  <2>1. TypeOK'
    BY <1>1, <1>2, <1>3 DEF set_erase, Command, Go, counts, IInv, TypeOK, SetPcs
  <2>2. SetInv'
    BY <1>1, <1>3 DEF set_erase, Command, Erase, Go, locals, counts, IInv, SetInv, SetPcs,
                      Fresh, R
  <2>3. CheckInv' /\ CheckVerdict'
    BY <1>3 DEF Go, CheckInv, CheckPcs, CheckVerdict
  <2> QED BY <1>2, <2>1, <2>2, <2>3 DEF IInv
<1>4. CASE Fault /\ Return("LT_FAIL_LINK") /\ UNCHANGED <<locals, secret>>
  BY <1>1, <1>2, <1>4, CommandFails DEF set_erase, Command
<1> QED BY <1>3, <1>4 DEF set_erase, Command

\* A MAC-and-Destroy command of lt_PIN_set, with R-memory empty.
LEMMA SetMacStep ==
  ASSUME IInv, NEW in, MacAndDestroy(x, in) \/ UNCHANGED chip,
         pc \in {"set_u", "set_v", "set_u2"}, UNCHANGED <<hist, counts>>
  PROVE  MemInv' /\ DOMAIN slot' = Slots /\ rmem' = Empty /\ x \in Slots
<1> USE MacAndDestroyAssumption
<1>1. rmem = Empty /\ x \in Slots
  BY DEF IInv, SetInv, SetPcs, Slots, R
<1>2. rmem' = Empty /\ DOMAIN slot' = Slots
  BY <1>1, MacEffect DEF chip, IInv, TypeOK
<1> QED BY <1>1, <1>2, MemErased DEF IInv

\* First u: whatever was in the slot is gone.
LEMMA SetUStep == ASSUME IInv, set_u PROVE IInv'
<1> USE MacAndDestroyAssumption
<1>1. pc = "set_u" /\ UNCHANGED hist /\ tries' \in Nat
  BY DEF set_u, Command, IInv, TypeOK, hist
<1>2. MemInv' /\ DOMAIN slot' = Slots /\ rmem' = Empty /\ x \in Slots
  BY <1>1, SetMacStep DEF set_u, Command
<1>3. CASE MacAndDestroy(x, u(s)) /\ Go("set_v") /\ UNCHANGED <<locals, faults>>
  <2>1. TypeOK'
    BY <1>1, <1>2, <1>3 DEF set_u, Command, Go, counts, IInv, TypeOK, SetPcs
  <2>2. Fresh(x, s)' /\ slot'[x] = u(s)
    <3>1. \A j \in 0..(x - 1) : j \in Slots /\ j # x
      BY <1>2 DEF Slots
    <3> QED
      BY <1>1, <1>2, <1>3, <3>1, MacEffect DEF IInv, SetInv, SetPcs, Fresh, locals
  <2>3. SetInv'
    BY <1>1, <1>2, <1>3, <2>2 DEF set_u, Command, Go, locals, counts, IInv, SetInv, SetPcs
  <2>4. CheckInv' /\ CheckVerdict'
    BY <1>3 DEF Go, CheckInv, CheckPcs, CheckVerdict
  <2> QED BY <1>2, <2>1, <2>3, <2>4 DEF IInv
<1>4. CASE Fault /\ Return("LT_FAIL_LINK") /\ UNCHANGED <<locals, secret>>
  BY <1>1, <1>2, <1>4, CommandFails DEF set_u, Command
<1> QED BY <1>3, <1>4 DEF set_u, Command

\* v: the answer is the key of this slot.
LEMMA SetVStep == ASSUME IInv, set_v PROVE IInv'
<1> USE MacAndDestroyAssumption
<1>1. pc = "set_v" /\ UNCHANGED hist /\ tries' \in Nat
  BY DEF set_v, Command, IInv, TypeOK, hist
<1>2. MemInv' /\ DOMAIN slot' = Slots /\ rmem' = Empty /\ x \in Slots
  BY <1>1, SetMacStep DEF set_v, Command
<1>3. CASE /\ MacAndDestroy(x, v(pin)) /\ Go("set_u2") /\ w' = answer(x, v(pin))
           /\ UNCHANGED <<s, nvm, x, faults>>
  <2>1. TypeOK'
    BY <1>1, <1>2, <1>3 DEF set_v, Command, Go, counts, IInv, TypeOK, SetPcs
  <2>2. Fresh(x, s)'
    <3>1. \A j \in 0..(x - 1) : j \in Slots /\ j # x
      BY <1>2 DEF Slots
    <3> QED
      BY <1>1, <1>2, <1>3, <3>1, MacEffect DEF IInv, SetInv, SetPcs, Fresh
  <2>3. w' = <<u(s), v(pin)>>
    BY <1>1, <1>3 DEF answer, IInv, SetInv, SetPcs
  <2>4. SetInv'
    BY <1>1, <1>2, <1>3, <2>2, <2>3
       DEF set_v, Command, Go, counts, IInv, SetInv, SetPcs
  <2>5. CheckInv' /\ CheckVerdict'
    BY <1>3 DEF Go, CheckInv, CheckPcs, CheckVerdict
  <2> QED BY <1>2, <2>1, <2>4, <2>5 DEF IInv
<1>4. CASE Fault /\ Return("LT_FAIL_LINK") /\ UNCHANGED <<locals, secret>>
  BY <1>1, <1>2, <1>4, CommandFails DEF set_v, Command
<1> QED BY <1>3, <1>4 DEF set_v, Command

\* u again: the slot is ready and its cipher is in the record.
LEMMA SetU2Step == ASSUME IInv, set_u2 PROVE IInv'
<1> USE MacAndDestroyAssumption
<1>1. pc = "set_u2" /\ UNCHANGED hist /\ tries' \in Nat
  BY DEF set_u2, Command, IInv, TypeOK, hist
<1>2. MemInv' /\ DOMAIN slot' = Slots /\ rmem' = Empty /\ x \in Slots
  BY <1>1, SetMacStep DEF set_u2, Command
<1>3. CASE /\ MacAndDestroy(x, u(s)) /\ Go(IF x + 1 < nvm.i THEN "set_u" ELSE "set_write")
           /\ nvm' = [nvm EXCEPT !.ci[x] = Encrypt(w, pin, s)] /\ x' = x + 1
           /\ UNCHANGED <<s, w, faults>>
  <2>1. /\ fn = "set" /\ s \in 1..sets /\ set[s] = pin /\ nvm = Partial(s, pin, x)
        /\ w = <<u(s), v(pin)>> /\ Fresh(x, s)
    BY <1>1 DEF IInv, SetInv, SetPcs
  <2>2. TypeOK'
    BY <1>1, <1>2, <1>3 DEF set_u2, Command, Go, counts, IInv, TypeOK, SetPcs
  <2>3. Fresh(x, s)'
    <3>1. \A j \in 0..x : j \in Slots
      BY <1>2 DEF Slots
    <3>2. x' - 1 = x
      BY <1>2, <1>3 DEF Slots
    <3>3. \A j \in 0..x : slot'[j] = u(s)
      <4> TAKE j \in 0..x
      <4>1. CASE j = x
        BY <1>2, <1>3, <4>1, MacEffect DEF IInv
      <4>2. CASE j # x
        <5>1. j \in 0..(x - 1)
          BY <1>2, <4>2 DEF Slots
        <5> QED
          BY <1>2, <1>3, <2>1, <3>1, <4>2, <5>1, MacEffect DEF IInv, Fresh
      <4> QED BY <4>1, <4>2
    <3> QED BY <1>3, <3>2, <3>3 DEF Fresh
  <2>4. nvm' = Partial(s, pin, x') /\ nvm.i = R
    <3>1. /\ [Partial(s, pin, x) EXCEPT !.ci[x] = Cipher(s, pin)] = Partial(s, pin, x + 1)
          /\ Partial(s, pin, x).i = R
      <4>1. [Partial(s, pin, x) EXCEPT !.ci[x] = Cipher(s, pin)]
              = [Partial(s, pin, x) EXCEPT !.ci = [Ciphers(s, pin, x) EXCEPT ![x] = Cipher(s, pin)]]
        BY DEF Partial
      <4>2. [Ciphers(s, pin, x) EXCEPT ![x] = Cipher(s, pin)] = Ciphers(s, pin, x + 1)
        <5>1. \A j \in Slots : j < x + 1 <=> (j < x \/ j = x)
          BY <1>2 DEF Slots
        <5> QED BY <1>2, <5>1 DEF Ciphers
      <4>3. [Partial(s, pin, x) EXCEPT !.ci = Ciphers(s, pin, x + 1)] = Partial(s, pin, x + 1)
        BY DEF Partial
      <4>4. Partial(s, pin, x).i = R
        BY DEF Partial
      <4> QED BY <4>1, <4>2, <4>3, <4>4, Zenon
    <3>2. Encrypt(w, pin, s) = Cipher(s, pin)
      BY <2>1 DEF Cipher
    <3> QED BY <1>3, <2>1, <3>1, <3>2, Zenon
  <2>5. x' \in 0..R /\ (x + 1 < R => x' < R) /\ (~(x + 1 < R) => x' = R)
    BY <1>2, <1>3 DEF Slots, R
  <2>6. SetInv'
    BY <1>1, <1>2, <1>3, <2>1, <2>3, <2>4, <2>5
       DEF set_u2, Command, Go, counts, SetInv, SetPcs
  <2>7. CheckInv' /\ CheckVerdict'
    BY <1>3 DEF Go, CheckInv, CheckPcs, CheckVerdict
  <2> QED BY <1>2, <2>2, <2>6, <2>7 DEF IInv
<1>4. CASE Fault /\ Return("LT_FAIL_LINK") /\ UNCHANGED <<locals, secret>>
  BY <1>1, <1>2, <1>4, CommandFails DEF set_u2, Command
<1> QED BY <1>3, <1>4 DEF set_u2, Command

\* The record is stored, with all tries ahead; or nothing is.
LEMMA SetWriteStep == ASSUME IInv, set_write PROVE IInv'
<1> USE MacAndDestroyAssumption
<1>1. /\ pc = "set_write" /\ rmem = Empty /\ x = R /\ Fresh(R, s) /\ fn = "set"
      /\ s \in 1..sets /\ set[s] = pin /\ nvm = Rec(R, s, pin)
      /\ rmem' # rmem => tries' = 0
      /\ rmem' = rmem => UNCHANGED hist
      /\ UNCHANGED <<fn, pin, sets, checks, set, ex>>
  <2>1. nvm = Partial(s, pin, x) /\ x = R
    BY DEF set_write, Command, IInv, SetInv, SetPcs
  <2>2. nvm = Rec(R, s, pin)
    BY <2>1, PartialFields, Zenon
  <2> QED BY <2>1, <2>2 DEF set_write, Command, IInv, SetInv, SetPcs, counts
<1>2. /\ nvm.i = R /\ nvm.t = s /\ nvm # Empty /\ R \in Nat /\ R - 1 \in 0..(R - 1)
  <2>1. R \in Nat /\ R - 1 \in 0..(R - 1)
    BY DEF R
  <2> QED BY <1>1, <2>1, RecFields
<1>3. MemInv' /\ DOMAIN slot' = Slots /\ tries' \in Nat
  <2>1. CASE Write(nvm)
    <3>1. tries' = 0 /\ rmem' = nvm /\ slot' = slot
      BY <1>1, <1>2, <2>1 DEF Write
    <3>2. Stored(rmem)'
      BY <1>1, <1>2, <3>1 DEF Stored
    <3>3. Ready(rmem.i, rmem.t)'
      BY <1>1, <1>2, <3>1 DEF Ready, SlotOk, Fresh
    <3>4. tries' <= R /\ tries' + rmem'.i <= R
      BY <1>2, <3>1
    <3> QED BY <3>1, <3>2, <3>3, <3>4 DEF MemInv, IInv, TypeOK
  <2>2. CASE UNCHANGED chip
    BY <1>1, <2>2, MemKept DEF chip, IInv, TypeOK, hist
  <2> QED BY <2>1, <2>2 DEF set_write, Command
<1>4. CASE Return("LT_OK") /\ secret' = s /\ UNCHANGED faults
  <2>1. TypeOK'
    BY <1>1, <1>3, <1>4 DEF Return, IInv, TypeOK
  <2>2. SetInv' /\ CheckInv' /\ CheckVerdict'
    BY <1>1, <1>4 DEF Return, SetInv, CheckInv, CheckVerdict, SetPcs, CheckPcs
  <2> QED BY <1>3, <2>1, <2>2 DEF IInv
<1>5. CASE Fault /\ Return("LT_FAIL_LINK") /\ UNCHANGED <<locals, secret>>
  BY <1>1, <1>3, <1>5, CommandFails DEF set_write, Command
<1> QED BY <1>4, <1>5 DEF set_write, Command

-----------------------------------------------------------------------------
(***************************************************************************)
(* lt_PIN_check.                                                           *)
(***************************************************************************)

\* The read: an error, the end with the LT_OK of the read, or a record with a
\* counter that is one less.
LEMMA ReadStep == ASSUME IInv, read PROVE IInv'
<1> USE MacAndDestroyAssumption
<1>1. /\ pc = "read" /\ fn = "check" /\ secret = None
      /\ UNCHANGED <<slot, rmem, sets, set, hist, fn, pin, ex, checks>>
  BY DEF read, Command, chip, counts, IInv, CheckInv, CheckPcs
<1>2. MemInv' /\ DOMAIN slot' = Slots /\ tries' \in Nat
  BY <1>1, MemKept DEF IInv, TypeOK, hist
<1>3. CASE rmem = Empty /\ Return("LT_L3_R_MEM_DATA_READ_SLOT_EMPTY") /\ UNCHANGED <<secret, faults>>
  BY <1>1, <1>2, <1>3, ToIdle DEF Return, counts, IInv, TypeOK
<1>4. CASE rmem # Empty /\ rmem.i = 0 /\ Return("LT_OK") /\ UNCHANGED <<secret, faults>>
  <2>1. TypeOK'
    BY <1>1, <1>4 DEF Return, IInv, TypeOK, hist
  <2>2. SetInv' /\ CheckInv' /\ CheckVerdict'
    BY <1>1, <1>4 DEF Return, SetInv, CheckInv, CheckVerdict, SetPcs, CheckPcs
  <2> QED BY <1>2, <2>1, <2>2 DEF IInv
<1>5. CASE /\ rmem # Empty /\ rmem.i # 0 /\ nvm' = [rmem EXCEPT !.i = @ - 1]
           /\ pc' = "erase" /\ UNCHANGED <<secret, faults>>
  <2>1. Stored(rmem) /\ Ready(rmem.i, rmem.t) /\ tries + rmem.i <= R
    BY <1>5 DEF IInv, MemInv
  <2>2. rmem.i \in 1..R /\ rmem.t \in 1..sets
    BY <1>5, <2>1 DEF Stored, R
  <2>3. nvm' = Rec(rmem.i - 1, rmem.t, set[rmem.t])
    <3>1. PICK i, t, p : i \in Int /\ rmem = Rec(i, t, p) /\ i = rmem.i /\ t = rmem.t /\ p = set[t]
      <4>1. rmem.i \in Int /\ rmem = Rec(rmem.i, rmem.t, set[rmem.t])
        BY <2>1, <2>2 DEF Stored
      <4> QED BY <4>1, Zenon
    <3>2. [Rec(i, t, p) EXCEPT !.i = i - 1] = Rec(i - 1, t, p)
      BY <3>1 DEF Rec
    <3>3. nvm' = [rmem EXCEPT !.i = rmem.i - 1]
      BY <1>5
    <3> QED BY <3>1, <3>2, <3>3, Zenon
  <2>4. nvm'.i = rmem.i - 1 /\ nvm'.t = rmem.t
    <3>1. rmem.i - 1 \in Int
      BY <2>2
    <3> QED BY <2>3, <3>1, RecFields
  <2>5. Stored(nvm)'
    BY <1>1, <2>2, <2>3, <2>4 DEF Stored, R
  <2>6. nvm'.i < R /\ Ready(nvm.i + 1, nvm.t)' /\ tries' + nvm'.i + 1 <= R
    <3>1. nvm'.i + 1 = rmem.i
      BY <2>2, <2>4
    <3>2. nvm'.i < R /\ tries' + nvm'.i + 1 <= R
      <4>1. tries' = tries /\ tries \in Nat /\ R \in Nat
        BY <1>1 DEF IInv, TypeOK, R, hist
      <4>2. tries + rmem.i <= R /\ rmem.i \in 1..R /\ nvm'.i = rmem.i - 1
        BY <2>1, <2>2, <2>4
      <4> QED BY <4>1, <4>2
    <3> QED BY <1>1, <2>1, <2>4, <3>1, <3>2 DEF Ready, SlotOk, hist
  <2>7. TypeOK'
    BY <1>1, <1>5 DEF IInv, TypeOK, CheckPcs, hist
  <2>8. SetInv' /\ CheckInv' /\ CheckVerdict'
    BY <1>1, <1>5, <2>5, <2>6 DEF SetInv, CheckInv, CheckVerdict, SetPcs, CheckPcs
  <2> QED BY <1>2, <2>7, <2>8 DEF IInv
<1>6. CASE Fault /\ Return("LT_FAIL_LINK") /\ UNCHANGED <<locals, secret>>
  BY <1>1, <1>2, <1>6, CommandFails DEF read, Command
<1> QED BY <1>3, <1>4, <1>5, <1>6 DEF read, Command

\* The record is erased before it is written back with the new counter.
LEMMA EraseStep == ASSUME IInv, erase PROVE IInv'
<1>1. /\ pc = "erase" /\ fn = "check" /\ secret = None
      /\ Stored(nvm) /\ nvm.i < R /\ Ready(nvm.i + 1, nvm.t) /\ tries + nvm.i + 1 <= R
      /\ UNCHANGED <<slot, sets, set, hist, fn, pin, ex, checks>>
  BY DEF erase, Command, Erase, chip, counts, IInv, CheckInv, CheckPcs
<1>2. MemInv' /\ DOMAIN slot' = Slots /\ tries' \in Nat
  BY <1>1, MemKept, MemErased DEF erase, Command, Erase, chip, IInv, TypeOK, hist
<1>3. CASE Erase /\ Go("write") /\ UNCHANGED <<locals, faults>>
  <2>1. TypeOK'
    BY <1>1, <1>3 DEF Go, IInv, TypeOK, CheckPcs, hist
  <2>2. Stored(nvm)' /\ Ready(nvm.i + 1, nvm.t)'
    BY <1>1, <1>3 DEF locals, Stored, Ready, SlotOk, hist
  <2>3. SetInv' /\ CheckInv' /\ CheckVerdict'
    BY <1>1, <1>3, <2>2
       DEF Go, Erase, locals, SetInv, CheckInv, CheckVerdict, SetPcs, CheckPcs, hist
  <2> QED BY <1>2, <2>1, <2>3 DEF IInv
<1>4. CASE Fault /\ Return("LT_FAIL_LINK") /\ UNCHANGED <<locals, secret>>
  BY <1>1, <1>2, <1>4, CommandFails DEF erase, Command
<1> QED BY <1>3, <1>4 DEF erase, Command

\* The try is paid for: the stored counter does not count it any more.
LEMMA WriteStep == ASSUME IInv, write PROVE IInv'
<1> USE MacAndDestroyAssumption
<1>1. /\ pc = "write" /\ fn = "check" /\ secret = None /\ rmem = Empty
      /\ Stored(nvm) /\ nvm.i < R /\ Ready(nvm.i + 1, nvm.t) /\ tries + nvm.i + 1 <= R
      /\ UNCHANGED <<slot, sets, set, hist, fn, pin, ex, checks>>
  BY DEF write, Command, Write, chip, counts, IInv, CheckInv, CheckPcs
<1>2. nvm.i \in 0..(R - 1) /\ tries \in Nat
  BY <1>1 DEF Stored, IInv, TypeOK, R
<1>3. MemInv' /\ DOMAIN slot' = Slots /\ tries' \in Nat
  <2>1. CASE Write(nvm)
    <3>1. rmem' = nvm
      BY <2>1 DEF Write
    <3>2. Stored(rmem)'
      BY <1>1, <3>1 DEF Stored
    <3>3. Ready(rmem.i, rmem.t)'
      <4>1. Ready(nvm.i, nvm.t)
        BY <1>1, <1>2, ReadyLess
      <4> QED BY <1>1, <3>1, <4>1 DEF Ready, SlotOk, hist
    <3>4. tries' <= R /\ tries' + rmem'.i <= R
      BY <1>1, <1>2, <3>1 DEF R, hist
    <3> QED BY <1>1, <1>2, <3>2, <3>3, <3>4 DEF MemInv, IInv, TypeOK, hist
  <2>2. CASE UNCHANGED chip
    BY <1>1, <1>2, <2>2, MemKept DEF chip, IInv, TypeOK, hist
  <2> QED BY <2>1, <2>2 DEF write, Command
<1>4. CASE Write(nvm) /\ Go("guess") /\ UNCHANGED <<locals, faults>>
  <2>1. TypeOK'
    BY <1>1, <1>4 DEF Go, IInv, TypeOK, CheckPcs, hist
  <2>2. Stored(nvm)' /\ Ready(nvm.i + 1, nvm.t)'
    BY <1>1, <1>4 DEF locals, Stored, Ready, SlotOk, hist
  <2>3. SetInv' /\ CheckInv' /\ CheckVerdict'
    BY <1>1, <1>4, <2>2
       DEF Go, Write, locals, SetInv, CheckInv, CheckVerdict, SetPcs, CheckPcs, hist
  <2> QED BY <1>3, <2>1, <2>3 DEF IInv
<1>5. CASE Fault /\ Return("LT_FAIL_LINK") /\ UNCHANGED <<locals, secret>>
  BY <1>1, <1>3, <1>5, CommandFails DEF write, Command
<1> QED BY <1>4, <1>5 DEF write, Command

\* A right tag means the right PIN: what another key, or another PIN, decrypts to
\* is no secret.
LEMMA TagMeansPin ==
  ASSUME NEW m, Stored(m), m.i \in Slots, NEW key,
         Decrypt(m.ci[m.i], key, pin) = m.t
  PROVE  set[m.t] = pin
<1>1. m.ci[m.i] = Cipher(m.t, set[m.t])
  <2>1. m = Rec(m.i, m.t, set[m.t]) /\ m.i \in Int
    BY DEF Stored
  <2> QED BY <2>1, RecFields
<1>2. m.t # Garbage
  BY DEF Stored, Garbage
<1> QED BY <1>1, <1>2 DEF Decrypt, Cipher, Encrypt

\* The guess uses up the slot of the counter, which is not counted any more; with
\* the right tag the slots from there on are to be initialised.
LEMMA GuessStep == ASSUME IInv, guess PROVE IInv'
<1> USE MacAndDestroyAssumption
<1>1. /\ pc = "guess" /\ fn = "check" /\ secret = None /\ rmem = nvm
      /\ Stored(nvm) /\ nvm.i < R /\ Ready(nvm.i + 1, nvm.t) /\ tries + nvm.i + 1 <= R
      /\ tries' = tries + 1 /\ UNCHANGED released
      /\ UNCHANGED <<sets, set, fn, pin, ex, checks>>
      /\ MacAndDestroy(nvm.i, v(pin)) \/ UNCHANGED chip
  BY DEF guess, Command, counts, IInv, CheckInv, CheckPcs
<1>2. nvm.i \in Slots /\ nvm.i \in 0..(R - 1) /\ tries \in Nat /\ R - 1 \in Slots
  BY <1>1 DEF Stored, IInv, TypeOK, R, Slots
<1>3. /\ rmem' = rmem /\ DOMAIN slot' = Slots
      /\ \A k \in Slots : k # nvm.i => slot'[k] = slot[k]
      /\ slot'[nvm.i] = v(pin) \/ slot'[nvm.i] = slot[nvm.i]
  <2>1. CASE MacAndDestroy(nvm.i, v(pin))
    BY <1>2, <2>1, MacEffect DEF IInv
  <2>2. CASE UNCHANGED chip
    BY <2>2 DEF chip, IInv, TypeOK
  <2> QED BY <1>1, <2>1, <2>2
<1>5. ASSUME NEW j \in 0..(nvm.i - 1) PROVE slot'[j] = u(nvm.t)
  <2>1. j \in Slots /\ j # nvm.i /\ j # R - 1 /\ j \in 0..(nvm.i + 1 - 1)
    BY <1>2, <1>5 DEF R, Slots
  <2>2. SlotOk(j, nvm.t)
    BY <1>1, <1>2, <2>1 DEF Ready
  <2> QED BY <1>3, <2>1, <2>2 DEF SlotOk
<1>6. Ready(rmem.i, rmem.t)' /\ (nvm' = nvm => Ready(nvm.i, nvm.t)')
  BY <1>1, <1>3, <1>5 DEF Ready, SlotOk
<1>7. MemInv' /\ tries' \in Nat
  <2>1. Stored(rmem)'
    BY <1>1, <1>3 DEF Stored
  <2>2. tries' <= R /\ tries' + rmem'.i <= R
    BY <1>1, <1>2, <1>3 DEF R
  <2> QED BY <1>1, <1>2, <1>6, <2>1, <2>2 DEF MemInv
<1>8. CASE /\ MacAndDestroy(nvm.i, v(pin))
           /\ s' = Decrypt(nvm.ci[nvm.i], answer(nvm.i, v(pin)), pin)
           /\ x' = nvm.i /\ UNCHANGED <<nvm, faults>> /\ tag_compare(s')
  <2>1. CASE s' # nvm.t
    BY <1>1, <1>3, <1>7, <1>8, <2>1, ToIdle DEF tag_compare, Return, counts, IInv, TypeOK
  <2>2. CASE s' = nvm.t
    <3>1. /\ pc' = AfterTag /\ UNCHANGED <<ret, secret>>
      BY <1>8, <2>2 DEF tag_compare, Go
    <3>2. set[nvm.t] = pin
      BY <1>1, <1>2, <1>8, <2>2, TagMeansPin
    <3>3. TypeOK'
      BY <1>1, <1>3, <1>7, <1>8, <3>1 DEF AfterTag, IInv, TypeOK, CheckPcs
    <3>4. Stored(nvm)'
      BY <1>1, <1>8 DEF Stored
    <3>5. CASE pc' = "reinit"
      <4>1. nvm.i < R - 1
        BY <3>1, <3>5 DEF AfterTag, reinit_end, R
      <4>2. x' \in nvm'.i..(R - 2) /\ Ready(x, s)'
        <5>1. x' = nvm.i /\ nvm' = nvm /\ s' = nvm.t
          BY <1>8, <2>2
        <5>2. x' \in nvm'.i..(R - 2)
          BY <1>2, <4>1, <5>1 DEF R
        <5> QED BY <1>6, <5>1, <5>2 DEF Ready, SlotOk
      <4> QED
        BY <1>1, <1>3, <1>7, <1>8, <2>2, <3>1, <3>2, <3>3, <3>4, <3>5, <4>2
           DEF IInv, SetInv, CheckInv, CheckVerdict, SetPcs, CheckPcs
    <3>6. CASE pc' = "erase2"
      <4>1. nvm.i = R - 1
        BY <1>2, <3>1, <3>6 DEF AfterTag, reinit_end, R
      <4>2. Ready(R - 1, s)'
        BY <1>6, <1>8, <2>2, <4>1 DEF Ready, SlotOk
      <4> QED
        BY <1>1, <1>3, <1>7, <1>8, <2>2, <3>1, <3>2, <3>3, <3>4, <3>6, <4>2
           DEF IInv, SetInv, CheckInv, CheckVerdict, SetPcs, CheckPcs
    <3> QED BY <3>1, <3>5, <3>6 DEF AfterTag
  <2> QED BY <2>1, <2>2
<1>9. CASE Fault /\ Return("LT_FAIL_LINK") /\ UNCHANGED <<locals, secret>>
  BY <1>1, <1>3, <1>7, <1>9, CommandFails DEF guess, Command
<1> QED BY <1>8, <1>9 DEF guess, Command

\* A slot at or above the stored counter is initialised again.
LEMMA ReinitStep == ASSUME IInv, reinit PROVE IInv'
<1> USE MacAndDestroyAssumption
<1>1. /\ pc = "reinit" /\ fn = "check" /\ secret = None /\ rmem = nvm
      /\ Stored(nvm) /\ s = nvm.t /\ set[s] = pin
      /\ x \in nvm.i..(R - 2) /\ Ready(x, s)
      /\ UNCHANGED <<sets, set, hist, fn, pin, ex, checks>>
      /\ MacAndDestroy(x, u(s)) \/ UNCHANGED chip
  BY DEF reinit, Command, counts, IInv, CheckInv, CheckPcs
<1>2. /\ nvm.i \in Nat /\ x \in Slots /\ x < R - 1 /\ tries \in Nat /\ R - 1 \in Slots
  BY <1>1 DEF Stored, IInv, TypeOK, R, Slots
<1>3. /\ rmem' = rmem /\ DOMAIN slot' = Slots
      /\ \A k \in Slots : k # x => slot'[k] = slot[k]
  BY <1>1, <1>2, MacEffect DEF chip, IInv, TypeOK
<1>4. \A j \in 0..(x - 1) : j \in Slots /\ j # x /\ j # R - 1 /\ slot'[j] = u(s)
  <2>1. \A j \in 0..(x - 1) : j \in Slots /\ j # x /\ j # R - 1
    BY <1>2 DEF R, Slots
  <2> QED BY <1>1, <1>2, <1>3, <2>1 DEF Ready, SlotOk
<1>5. MemInv' /\ tries' \in Nat
  <2>1. Stored(rmem)'
    BY <1>1, <1>3 DEF Stored
  <2>2. Ready(rmem.i, rmem.t)'
    <3>1. \A j \in 0..(nvm.i - 1) : j \in 0..(x - 1)
      BY <1>1, <1>2 DEF Slots
    <3> QED BY <1>1, <1>3, <1>4, <3>1 DEF Ready, SlotOk
  <2>3. tries <= R /\ (rmem # Empty => tries + rmem.i <= R)
    BY DEF IInv, MemInv
  <2> QED BY <1>1, <1>2, <1>3, <2>1, <2>2, <2>3 DEF MemInv, hist
<1>6. CASE /\ MacAndDestroy(x, u(s)) /\ Go(IF x + 1 < reinit_end THEN "reinit" ELSE "erase2")
           /\ x' = x + 1 /\ UNCHANGED <<s, nvm, w, faults>>
  <2>1. TypeOK'
    BY <1>1, <1>2, <1>3, <1>6 DEF Go, IInv, TypeOK, CheckPcs, hist
  <2>2. Stored(nvm)'
    BY <1>1, <1>6 DEF Stored
  <2>3. \A j \in 0..(x' - 1) : slot'[j] = u(s)
    <3>1. slot'[x] = u(s)
      BY <1>2, <1>6, MacEffect DEF IInv
    <3>2. \A j \in 0..(x' - 1) : j = x \/ j \in 0..(x - 1)
      BY <1>2, <1>6 DEF Slots
    <3> QED BY <1>4, <3>1, <3>2
  <2>4. Ready(x, s)'
    BY <1>4, <1>6, <2>3 DEF Ready, SlotOk
  <2>5. /\ pc' = "reinit" => x' \in nvm'.i..(R - 2)
        /\ pc' = "erase2" => x' = R - 1
        /\ pc' \in {"reinit", "erase2"}
    BY <1>1, <1>2, <1>6 DEF Go, reinit_end, R, Slots
  <2>6. pc' = "erase2" => Ready(R - 1, s)'
    BY <2>4, <2>5 DEF Ready, SlotOk
  <2>7. CheckInv'
    BY <1>1, <1>3, <1>6, <2>2, <2>4, <2>5, <2>6 DEF Go, CheckInv, CheckPcs
  <2>8. SetInv' /\ CheckVerdict'
    BY <2>5 DEF SetInv, CheckVerdict, SetPcs
  <2> QED BY <1>5, <2>1, <2>7, <2>8 DEF IInv
<1>7. CASE Fault /\ Return("LT_FAIL_LINK") /\ UNCHANGED <<locals, secret>>
  BY <1>1, <1>3, <1>5, <1>7, CommandFails DEF reinit, Command
<1> QED BY <1>6, <1>7 DEF reinit, Command

\* The counter goes back to MACANDD_ROUNDS.
LEMMA Erase2Step == ASSUME IInv, erase2 PROVE IInv'
<1> USE MacAndDestroyAssumption
<1>1. /\ pc = "erase2" /\ fn = "check" /\ secret = None
      /\ Stored(nvm) /\ s = nvm.t /\ set[s] = pin /\ Ready(R - 1, s)
      /\ UNCHANGED <<slot, sets, set, hist, fn, pin, ex, checks>>
  BY DEF erase2, Command, Erase, chip, counts, IInv, CheckInv, CheckPcs
<1>2. MemInv' /\ DOMAIN slot' = Slots /\ tries' \in Nat
  BY <1>1, MemKept, MemErased DEF erase2, Command, Erase, chip, IInv, TypeOK, hist
<1>3. CASE /\ Erase /\ Go("write2") /\ nvm' = [nvm EXCEPT !.i = MACANDD_ROUNDS]
           /\ UNCHANGED <<s, w, x, faults>>
  <2>1. TypeOK'
    BY <1>1, <1>3 DEF Go, IInv, TypeOK, CheckPcs, hist
  <2>2. nvm' = Rec(R, s, set[s])
    <3>1. PICK i, t, p : i \in Int /\ nvm = Rec(i, t, p) /\ t = s /\ p = set[s]
      <4>1. nvm.i \in Int /\ nvm = Rec(nvm.i, nvm.t, set[nvm.t])
        BY <1>1 DEF Stored
      <4> QED BY <1>1, <4>1, Zenon
    <3>2. [Rec(i, t, p) EXCEPT !.i = MACANDD_ROUNDS] = Rec(R, t, p)
      BY DEF Rec, R
    <3> QED BY <1>3, <3>1, <3>2, Zenon
  <2>3. R \in 0..R
    BY DEF R
  <2>4. nvm'.i = R /\ nvm'.t = s
    BY <2>2, <2>3, RecFields
  <2>5. s \in 1..sets
    BY <1>1 DEF Stored
  <2>6. Stored(nvm)' /\ Ready(R - 1, s)'
    BY <1>1, <1>3, <2>2, <2>3, <2>4, <2>5 DEF Stored, Ready, SlotOk
  <2>7. SetInv' /\ CheckInv' /\ CheckVerdict'
    BY <1>1, <1>3, <2>4, <2>6
       DEF Go, Erase, SetInv, CheckInv, CheckVerdict, SetPcs, CheckPcs
  <2> QED BY <1>2, <2>1, <2>7 DEF IInv
<1>4. CASE Fault /\ Return("LT_FAIL_LINK") /\ UNCHANGED <<locals, secret>>
  BY <1>1, <1>2, <1>4, CommandFails DEF erase2, Command
<1> QED BY <1>3, <1>4 DEF erase2, Command

\* All tries are back; the secret is released to the caller with its PIN.
LEMMA Write2Step == ASSUME IInv, write2 PROVE IInv'
<1> USE MacAndDestroyAssumption
<1>1. /\ pc = "write2" /\ fn = "check" /\ secret = None /\ rmem = Empty
      /\ Stored(nvm) /\ nvm.i = R /\ s = nvm.t /\ set[s] = pin /\ Ready(R - 1, s)
      /\ rmem' # rmem => tries' = 0 /\ released'
      /\ rmem' = rmem => UNCHANGED hist
      /\ UNCHANGED <<slot, sets, set, fn, pin, ex, checks>>
  BY DEF write2, Command, Write, chip, counts, IInv, CheckInv, CheckPcs
<1>2. R \in Nat /\ R - 1 \in Nat /\ nvm # Empty /\ s \in 1..sets
  <2>1. nvm = Rec(nvm.i, nvm.t, set[nvm.t]) /\ s \in 1..sets
    BY <1>1 DEF Stored
  <2>2. R \in Nat /\ R - 1 \in Nat
    BY DEF R
  <2> QED BY <1>1, <2>1, <2>2, RecFields
<1>3. /\ MemInv' /\ DOMAIN slot' = Slots /\ tries' \in Nat
  <2>1. CASE Write(nvm)
    <3>1. rmem' = nvm /\ tries' = 0 /\ released'
      BY <1>1, <1>2, <2>1 DEF Write
    <3>2. Stored(rmem)'
      BY <1>1, <3>1 DEF Stored
    <3>3. Ready(rmem.i, rmem.t)'
      <4>1. \A j \in 0..(R - 1) : j = R - 1 \/ j \in 0..(R - 1 - 1)
        BY <1>2
      <4>2. \A j \in 0..(R - 1) : slot[j] = u(s) \/ j = R - 1
        BY <1>1, <4>1 DEF Ready, SlotOk
      <4> QED BY <1>1, <1>2, <3>1, <4>2 DEF Ready, SlotOk
    <3>4. tries' <= R /\ tries' + rmem'.i <= R
      BY <1>1, <1>2, <3>1
    <3> QED BY <1>1, <3>1, <3>2, <3>3, <3>4 DEF MemInv, IInv, TypeOK
  <2>2. CASE UNCHANGED chip
    BY <1>1, <2>2, MemKept DEF chip, IInv, TypeOK, hist
  <2> QED BY <2>1, <2>2 DEF write2, Command
<1>4. CASE Write(nvm) /\ Return("LT_OK") /\ secret' = s /\ UNCHANGED faults
  <2>1. TypeOK'
    BY <1>1, <1>2, <1>3, <1>4 DEF Return, IInv, TypeOK
  <2>2. CheckVerdict'
    BY <1>1, <1>2, <1>4 DEF Return, Write, CheckVerdict, None
  <2>3. SetInv' /\ CheckInv'
    BY <1>4 DEF Return, SetInv, CheckInv, SetPcs, CheckPcs
  <2> QED BY <1>3, <2>1, <2>2, <2>3 DEF IInv
<1>5. CASE Fault /\ Return("LT_FAIL_LINK") /\ UNCHANGED <<locals, secret>>
  BY <1>1, <1>3, <1>5, CommandFails DEF write2, Command
<1> QED BY <1>4, <1>5 DEF write2, Command

-----------------------------------------------------------------------------
(***************************************************************************)
(* All steps.                                                              *)
(***************************************************************************)

\* Power may be lost between any two commands.
LEMMA PowerLossStep == ASSUME IInv, PowerLoss PROVE IInv'
<1> USE MacAndDestroyAssumption
<1>1. MemInv'
  BY MemKept DEF PowerLoss, chip, counts, IInv
<1>2. faults' \in Nat /\ ex' \in -2..(R + 1) /\ tries' \in Nat /\ DOMAIN slot' = Slots
  BY DEF PowerLoss, Fault, chip, ReturnedError, NotRunning, R, IInv, TypeOK, hist
<1> QED BY <1>1, <1>2, ToIdle DEF PowerLoss

\* Application and example call the two functions, one at a time.
LEMMA CallerStep ==
  ASSUME IInv, Application \/ lt_ex_macandd \/ lt_ex_macandd_fails
  PROVE  IInv'
<1> USE MacAndDestroyAssumption
<1>1. ex' \in -2..(R + 1)
  BY DEF Application, lt_ex_macandd, lt_ex_macandd_fails, ReturnedError, NotRunning, R,
         IInv, TypeOK
<1>2. CASE \E p \in PINs : Begin_set(p)
  BY <1>1, <1>2, BeginSet
<1>3. CASE \E p \in PINs : Begin_check(p)
  BY <1>1, <1>3, BeginCheck
<1>4. CASE UNCHANGED <<pc, ret, fn, pin, locals, secret, chip, faults, counts, hist>>
  <2>1. MemInv'
    BY <1>4, MemKept DEF chip, counts, IInv
  <2>2. TypeOK'
    BY <1>1, <1>4 DEF chip, counts, IInv, TypeOK, hist
  <2>3. SetInv' /\ CheckInv' /\ CheckVerdict'
    BY <1>4 DEF chip, counts, locals, IInv, SetInv, CheckInv, CheckVerdict, Stored, Ready,
                SlotOk, Fresh, hist
  <2> QED BY <2>1, <2>2, <2>3 DEF IInv
<1> QED
  BY <1>2, <1>3, <1>4 DEF Application, lt_ex_macandd, lt_ex_macandd_fails

\* Every step keeps the inductive invariant.
LEMMA NextInv == IInv /\ [Next]_vars => IInv'
<1> SUFFICES ASSUME IInv, [Next]_vars PROVE IInv'
  OBVIOUS
<1>1. CASE Application \/ lt_ex_macandd \/ lt_ex_macandd_fails
  BY <1>1, CallerStep
<1>2. CASE PIN_set
  BY <1>2, SetEraseStep, SetUStep, SetVStep, SetU2Step, SetWriteStep DEF PIN_set
<1>3. CASE PIN_check
  BY <1>3, ReadStep, EraseStep, WriteStep, GuessStep, ReinitStep, Erase2Step, Write2Step
     DEF PIN_check
<1>4. CASE PowerLoss
  BY <1>4, PowerLossStep
<1>5. CASE UNCHANGED vars
  <2>1. MemInv'
    BY <1>5, MemKept DEF vars, chip, counts, IInv
  <2>2. TypeOK'
    BY <1>5 DEF vars, chip, counts, IInv, TypeOK, hist
  <2>3. SetInv' /\ CheckInv' /\ CheckVerdict'
    BY <1>5 DEF vars, chip, counts, locals, IInv, SetInv, CheckInv, CheckVerdict, Stored,
                Ready, SlotOk, Fresh, hist
  <2> QED BY <2>1, <2>2, <2>3 DEF IInv
<1> QED BY <1>1, <1>2, <1>3, <1>4, <1>5 DEF Next

\* The inductive invariant holds wherever commands fail and power is lost.
THEOREM Invariance == Spec => []IInv
BY InitInv, NextInv, PTL DEF Spec

\* lt_PIN_check never sends more than MACANDD_ROUNDS guesses between two times
\* that a PIN is set or a secret released.
THEOREM GuessesBounded == Spec => []TriesBounded
<1>1. IInv => TriesBounded
  BY DEF IInv, MemInv, TriesBounded, R
<1> QED BY Invariance, <1>1, PTL

\* What R-memory holds can be used: every slot that its counter counts can check
\* the PIN; after a success, every one but the last, which the reinitialisation
\* loop of lt_PIN_check leaves out.
THEOREM StoredIsUsable == Spec => []SlotsReady
<1>1. IInv => SlotsReady
  BY DEF IInv, MemInv, Ready, SlotOk, SlotsReady, R
<1> QED BY Invariance, <1>1, PTL

\* lt_PIN_check releases the stored secret, to its PIN only; as long as tries are
\* left, its LT_OK comes with the secret.
THEOREM VerdictIsRight == Spec => []CheckVerdict
<1>1. IInv => CheckVerdict
  BY DEF IInv
<1> QED BY Invariance, <1>1, PTL

-----------------------------------------------------------------------------
(***************************************************************************)
(* lt_ex_macandd without faults.                                           *)
(***************************************************************************)

\* The right PIN on a fresh slot gives the secret back, another PIN does not.
LEMMA TagOfPin ==
  ASSUME NEW m, Stored(m), m.i \in Slots
  PROVE  /\ \A key, p : p # set[m.t] => Decrypt(m.ci[m.i], key, p) # m.t
         /\ Decrypt(m.ci[m.i], <<u(m.t), v(set[m.t])>>, set[m.t]) = m.t
<1>1. m.ci[m.i] = Cipher(m.t, set[m.t])
  <2>1. m = Rec(m.i, m.t, set[m.t]) /\ m.i \in Int
    BY DEF Stored
  <2> QED BY <2>1, RecFields
<1>2. m.t # Garbage
  BY DEF Stored, Garbage
<1> QED BY <1>1, <1>2 DEF Decrypt, Cipher, Encrypt

\* After a fault nothing is claimed.
LEMMA ExFault == ASSUME IInv, Fault PROVE ExInv'
BY DEF IInv, TypeOK, Fault, ExInv

\* The caller's steps: each answer was the expected one.
LEMMA ExCaller ==
  ASSUME IInv, ExInv, Application \/ lt_ex_macandd \/ lt_ex_macandd_fails
  PROVE  ExInv'
<1> USE MacAndDestroyAssumption
<1> SUFFICES ASSUME faults = 0 PROVE ExInv'
  BY DEF Application, lt_ex_macandd, lt_ex_macandd_fails, Begin_set, Begin_check, ExInv
<1>0. ex \in -2..(R + 1) /\ R \in Nat /\ R >= 1
  BY DEF IInv, TypeOK, R
<1>1. CASE Application
  <2>1. ex' = -1
    BY <1>1 DEF Application, NotRunning
  <2> QED BY <2>1 DEF ExInv, ReturnedError
<1>2. CASE lt_ex_macandd_fails
  <2>1. ex >= 1 /\ ex <= R + 1 /\ ret = IF ex \in {1, R + 1} THEN "LT_OK" ELSE "LT_FAIL"
    BY <1>0, <1>2 DEF lt_ex_macandd_fails, Expected, ExInv
  <2>2. Expected
    BY <1>0, <2>1 DEF Expected, R
  <2> QED BY <1>2, <2>2 DEF lt_ex_macandd_fails
<1>3. CASE lt_ex_macandd
  <2>1. CASE ex = 0 /\ Begin_set(ExPin) /\ ex' = 1
    BY <2>1 DEF Begin_set, ExInv, ReturnedError, SetPcs
  <2>2. CASE ex = MACANDD_ROUNDS + 1 /\ ex' = NotRunning
    BY <2>2 DEF ExInv, ReturnedError, NotRunning
  <2>3. ASSUME NEW p, Begin_check(p), ex' = ex + 1, ex \in 1..R, pc = "idle",
               p = IF ex = R THEN ExPin ELSE ExWrong
        PROVE  ExInv'
    <3>1. /\ rmem # Empty /\ rmem.i = R + 1 - ex
          /\ set[rmem.t] = ExPin /\ Fresh(rmem.i, rmem.t)
      BY <1>0, <2>3 DEF ExInv
    <3>2. pc' = "read" /\ pin' = p /\ UNCHANGED <<slot, rmem, set, faults>>
      BY <2>3 DEF Begin_check, chip
    <3>3. ex' >= 2 /\ ex' <= R + 1 /\ R + 2 - ex' = R + 1 - ex /\ (ex' = R + 1 <=> ex = R)
      BY <1>0, <2>3
    <3>4. Fresh(rmem.i, rmem.t)'
      BY <3>1, <3>2 DEF Fresh
    <3> QED BY <2>3, <3>1, <3>2, <3>3, <3>4 DEF ExInv, ReturnedError, SetPcs
  <2>4. ASSUME ex \in 1..(MACANDD_ROUNDS - 1), Begin_check(ExWrong), ex' = ex + 1,
               pc = "idle"
        PROVE  ExInv'
    BY <1>0, <2>3, <2>4 DEF R
  <2>5. ASSUME ex = MACANDD_ROUNDS, Begin_check(ExPin), ex' = ex + 1, pc = "idle"
        PROVE  ExInv'
    BY <1>0, <2>3, <2>5 DEF R
  <2> QED BY <1>3, <2>1, <2>2, <2>4, <2>5 DEF lt_ex_macandd
<1> QED BY <1>1, <1>2, <1>3

\* lt_PIN_set ends with a fresh record.
LEMMA ExSet ==
  ASSUME IInv, ExInv, PIN_set
  PROVE  ExInv'
<1> USE MacAndDestroyAssumption
<1> SUFFICES ASSUME ~Fault PROVE ExInv'
  BY ExFault
<1>0. ex \in Int /\ R \in Nat /\ R >= 1
  BY DEF IInv, TypeOK, R
<1>1. pc \in SetPcs /\ UNCHANGED <<ex, pin, set, faults>>
  BY DEF PIN_set, set_erase, set_u, set_v, set_u2, set_write, Command, counts, SetPcs
<1>2. CASE set_erase \/ set_u \/ set_v \/ set_u2
  <2>1. pc' \in SetPcs
    BY <1>2 DEF set_erase, set_u, set_v, set_u2, Command, Go, SetPcs
  <2> QED BY <1>0, <1>1, <2>1 DEF ExInv, SetPcs
<1>3. CASE set_write
  <2>1. /\ pc' = "idle" /\ ret' = "LT_OK" /\ rmem' = nvm /\ slot' = slot
    BY <1>3 DEF set_write, Command, Return, Write
  <2>2. Fresh(R, s) /\ nvm = Partial(s, pin, x) /\ x = R /\ set[s] = pin
    BY <1>3 DEF set_write, Command, IInv, SetInv, SetPcs
  <2>3. nvm = Rec(R, s, pin)
    BY <2>2, PartialFields, Zenon
  <2>4. nvm.i = R /\ nvm.t = s /\ nvm # Empty
    BY <1>0, <2>3, RecFields
  <2>5. Fresh(rmem.i, rmem.t)'
    BY <2>1, <2>2, <2>4 DEF Fresh
  <2>6. SUFFICES ASSUME faults = 0, ex = 1 PROVE ExInv'
    BY <1>0, <1>1, <2>1 DEF ExInv
  <2>7. pin = ExPin /\ R + 1 - 1 = R
    BY <1>0, <1>1, <2>6 DEF ExInv
  <2> QED
    BY <1>0, <1>1, <2>1, <2>2, <2>4, <2>5, <2>6, <2>7 DEF ExInv, ReturnedError, SetPcs
<1> QED BY <1>2, <1>3 DEF PIN_set

\* lt_PIN_check refuses the wrong PINs and releases the secret to the right one.
LEMMA ExCheck ==
  ASSUME IInv, ExInv, PIN_check
  PROVE  ExInv'
<1> USE MacAndDestroyAssumption
<1> SUFFICES ASSUME ~Fault PROVE ExInv'
  BY ExFault
<1>0. ex \in -2..(R + 1) /\ R \in Nat /\ R >= 1
  BY DEF IInv, TypeOK, R
<1>1. pc \in CheckPcs /\ pc \notin SetPcs /\ UNCHANGED <<ex, pin, set, faults>>
  BY DEF PIN_check, read, erase, write, guess, reinit, erase2, write2, Command, counts,
         CheckPcs, SetPcs
<1>2. SUFFICES ASSUME faults = 0, ex >= 2 PROVE ExInv'
  <2>1. ex # 1 \/ faults # 0
    BY <1>1 DEF ExInv, CheckPcs, SetPcs
  <2> QED BY <1>0, <1>1, <1>2, <2>1 DEF ExInv
<1>3. ex \in 2..(R + 1) /\ pin = IF ex = R + 1 THEN ExPin ELSE ExWrong
  BY <1>0, <1>2 DEF ExInv
<1>4. CASE read
  <2>1. /\ rmem # Empty /\ rmem.i = R + 2 - ex
        /\ set[rmem.t] = ExPin /\ Fresh(rmem.i, rmem.t) /\ rmem' = rmem /\ slot' = slot
    BY <1>2, <1>4 DEF read, Command, chip, ExInv
  <2>2. rmem.i # 0 /\ rmem.i \in Int
    BY <1>0, <1>3, <2>1
  <2>3. pc' = "erase" /\ nvm' = [rmem EXCEPT !.i = @ - 1]
    BY <1>4, <2>1, <2>2 DEF read, Command
  <2>4. nvm'.i = rmem.i - 1 /\ nvm'.t = rmem.t
    <3>1. rmem = Rec(rmem.i, rmem.t, set[rmem.t])
      BY <2>1 DEF IInv, MemInv, Stored
    <3> DEFINE c == Ciphers(rmem.t, set[rmem.t], R)
    <3>2. rmem = [i |-> rmem.i, ci |-> c, t |-> rmem.t]
      BY <3>1 DEF Rec
    <3> HIDE DEF c
    <3> QED BY <2>3, <3>2
  <2>5. nvm'.i + 1 = rmem.i /\ nvm'.i = R + 1 - ex
    BY <1>0, <2>1, <2>2, <2>4
  <2>6. Fresh(nvm.i + 1, nvm.t)'
    BY <2>1, <2>4, <2>5 DEF Fresh
  <2> QED
    BY <1>1, <1>2, <1>3, <2>1, <2>3, <2>4, <2>5, <2>6 DEF ExInv, ReturnedError, SetPcs
<1>5. CASE erase \/ write
  <2>1. nvm.i = R + 1 - ex /\ set[nvm.t] = ExPin /\ Fresh(nvm.i + 1, nvm.t)
    BY <1>2, <1>5 DEF erase, write, Command, ExInv
  <2>2. pc' \in {"write", "guess"} /\ nvm' = nvm /\ slot' = slot
    BY <1>5 DEF erase, write, Command, Go, Erase, Write, locals
  <2>3. Fresh(nvm.i + 1, nvm.t)'
    BY <2>1, <2>2 DEF Fresh
  <2> QED
    BY <1>1, <1>2, <1>3, <2>1, <2>2, <2>3 DEF ExInv, ReturnedError, SetPcs
<1>6. CASE guess
  <2>1. nvm.i = R + 1 - ex /\ set[nvm.t] = ExPin /\ Fresh(nvm.i + 1, nvm.t)
    BY <1>2, <1>6 DEF guess, Command, ExInv
  <2>2. /\ rmem = nvm /\ Stored(nvm) /\ nvm.i \in Slots /\ rmem # Empty
    <3>1. rmem = nvm /\ Stored(nvm)
      BY <1>6 DEF guess, Command, IInv, CheckInv, CheckPcs
    <3>2. nvm.i \in Slots
      <4>1. nvm.i \in 0..R
        BY <3>1 DEF Stored
      <4>2. nvm.i < R
        BY <1>6 DEF guess, Command, IInv, CheckInv
      <4> QED BY <4>1, <4>2, MacAndDestroyAssumption DEF Slots, R
    <3>3. nvm = Rec(nvm.i, nvm.t, set[nvm.t]) /\ nvm.i \in Nat
      BY <3>1 DEF Stored
    <3> QED BY <3>1, <3>2, <3>3, RecFields
  <2>3. /\ MacAndDestroy(nvm.i, v(pin)) /\ nvm' = nvm
        /\ s' = Decrypt(nvm.ci[nvm.i], answer(nvm.i, v(pin)), pin) /\ tag_compare(s')
    BY <1>6 DEF guess, Command
  <2>4. /\ rmem' = rmem /\ \A k \in Slots : k # nvm.i => slot'[k] = slot[k]
    BY <2>2, <2>3, MacEffect DEF IInv
  <2>5. CASE ex = R + 1
    <3>1. slot[nvm.i] = u(nvm.t) /\ pin = set[nvm.t]
      BY <1>0, <1>3, <2>1, <2>5 DEF Fresh
    <3>2. s' = nvm.t
      BY <2>2, <2>3, <3>1, TagOfPin DEF answer
    <3>3. pc' \in {"reinit", "erase2"}
      BY <2>3, <3>2 DEF tag_compare, Go, AfterTag
    <3> QED
      BY <1>1, <1>2, <1>3, <2>5, <3>3 DEF ExInv, ReturnedError, SetPcs
  <2>6. CASE ex # R + 1
    <3>1. pin # set[nvm.t]
      BY <1>3, <2>1, <2>6
    <3>2. s' # nvm.t
      BY <2>2, <2>3, <3>1, TagOfPin
    <3>3. pc' = "idle" /\ ret' = "LT_FAIL"
      BY <2>3, <3>2 DEF tag_compare, Return
    <3>4. Fresh(rmem.i, rmem.t)'
      <4>1. \A j \in 0..(nvm.i - 1) : j \in Slots /\ j # nvm.i /\ j \in 0..(nvm.i + 1 - 1)
        BY <2>2 DEF Slots
      <4>2. \A j \in 0..(nvm.i - 1) : slot[j] = u(nvm.t)
        BY <2>1, <2>2, <4>1 DEF Fresh, Slots
      <4> QED BY <2>2, <2>4, <4>1, <4>2 DEF Fresh
    <3> QED
      BY <1>0, <1>1, <1>2, <1>3, <2>1, <2>2, <2>4, <2>6, <3>3, <3>4
         DEF ExInv, ReturnedError, SetPcs
  <2> QED BY <2>5, <2>6
<1>7. CASE reinit \/ erase2 \/ write2
  <2>1. ex = R + 1
    BY <1>2, <1>7 DEF reinit, erase2, write2, Command, ExInv
  <2>2. \/ pc' \in {"reinit", "erase2", "write2"}
        \/ pc' = "idle" /\ ret' = "LT_OK"
    BY <1>7 DEF reinit, erase2, write2, Command, Go, Return
  <2> QED
    BY <1>0, <1>1, <1>2, <1>3, <2>1, <2>2 DEF ExInv, ReturnedError, SetPcs
<1> QED BY <1>4, <1>5, <1>6, <1>7 DEF PIN_check

\* As long as nothing fails, lt_ex_macandd is where it expects to be.
LEMMA ExNext == IInv /\ ExInv /\ [Next]_vars => ExInv'
<1> SUFFICES ASSUME IInv, ExInv, [Next]_vars PROVE ExInv'
  OBVIOUS
<1>1. CASE PowerLoss
  BY <1>1, ExFault DEF PowerLoss
<1>2. CASE UNCHANGED vars
  BY <1>2 DEF vars, chip, locals, counts, ExInv, Fresh
<1> QED BY <1>1, <1>2, ExCaller, ExSet, ExCheck DEF Next

\* Without faults lt_ex_macandd gets every answer it expects, for every number of
\* rounds: the wrong PINs are refused and the last try releases the secret.
THEOREM ExampleIsRight == Spec => []ExampleSucceeds
<1>1. Init => ExInv
  BY DEF Init, ExInv, ReturnedError, NotRunning
<1>2. IInv /\ ExInv => ExampleSucceeds
  BY DEF IInv, TypeOK, ExInv, ExampleSucceeds
<1> QED BY Invariance, ExNext, <1>1, <1>2, PTL DEF Spec

(***************************************************************************)
(* The hardware wallet: the sequence of its calls.                         *)
(***************************************************************************)
Example == create_example_r_config(Erased)
Desc(j) == cfg_desc_table[j]
IsSeq(q, n) == q = [j \in 1..n |-> q[j]] /\ Len(q) = n

\* The table has 27 objects.
LEMMA DescFacts == IsSeq(cfg_desc_table, 27) /\ DOMAIN cfg_desc_table = 1..27
BY DEF cfg_desc_table, IsSeq

\* The calls of each session.
LEMMA Session0Calls ==
  /\ IsSeq(session0, 3)
  /\ session0[1] = Ok("init", 0)
  /\ session0[2] = Call("start", 0, "LT_L2_HSK_ERR")
  /\ session0[3] = Ok("deinit", 0)
BY DEF session0, IsSeq

LEMMA Session1Calls ==
  /\ IsSeq(session1, 10)
  /\ session1[1] = Ok("init", 0)
  /\ session1[2] = Ok("start", 1)
  /\ session1[3] = Ok("PING", 0)
  /\ session1[4] = Ok("ECC_KEY_STORE", 0)
  /\ \A j \in 1..4 : session1[j + 4] = Refused("PAIRING_KEY_WRITE", j - 1)
  /\ session1[9] = Ok("abort", 0)
  /\ session1[10] = Ok("deinit", 0)
BY DEF session1, IsSeq, Open, Close, WriteAllPairingKeys, lt_verify_chip_and_start_secure_session

LEMMA Session2Calls ==
  /\ IsSeq(session2, 13)
  /\ session2[1] = Ok("init", 0)
  /\ session2[2] = Ok("start", 2)
  /\ session2[3] = Ok("PING", 0)
  /\ session2[4] = Refused("ECC_KEY_STORE", 0)
  /\ \A j \in 1..4 : session2[j + 4] = Refused("PAIRING_KEY_WRITE", j - 1)
  /\ session2[9] = Refused("MCOUNTER_INIT", 0)
  /\ session2[10] = Refused("MCOUNTER_UPDATE", 0)
  /\ session2[11] = Refused("MCOUNTER_GET", 0)
  /\ session2[12] = Ok("abort", 0)
  /\ session2[13] = Ok("deinit", 0)
BY DEF session2, IsSeq, Open, Close, WriteAllPairingKeys, lt_verify_chip_and_start_secure_session

LEMMA Session3Calls ==
  /\ IsSeq(session3, 19)
  /\ session3[1] = Ok("init", 0)
  /\ session3[2] = Ok("start", 3)
  /\ session3[3] = Ok("PING", 0)
  /\ session3[4] = Ok("EDDSA_SIGN", 0)
  /\ session3[5] = Ok("ECC_KEY_READ", 0)
  /\ session3[6] = Ok("ECC_KEY_GENERATE", 8)
  /\ session3[7] = Ok("ECC_KEY_GENERATE", 16)
  /\ session3[8] = Ok("ECC_KEY_GENERATE", 24)
  /\ session3[9] = Ok("RANDOM_VALUE_GET", 0)
  /\ session3[10] = Ok("MCOUNTER_INIT", 0)
  /\ session3[11] = Ok("MCOUNTER_UPDATE", 0)
  /\ session3[12] = Ok("MCOUNTER_GET", 0)
  /\ session3[13] = Refused("ECC_KEY_STORE", 0)
  /\ \A j \in 1..4 : session3[j + 13] = Refused("PAIRING_KEY_WRITE", j - 1)
  /\ session3[18] = Ok("abort", 0)
  /\ session3[19] = Ok("deinit", 0)
BY DEF session3, IsSeq, Open, Close, WriteAllPairingKeys, lt_verify_chip_and_start_secure_session

LEMMA InitialCalls ==
  /\ IsSeq(session_initial, 92)
  /\ session_initial[1] = Ok("init", 0)
  /\ session_initial[2] = Ok("start", 0)
  /\ \A j \in 1..27 : session_initial[j + 2] = Ok("R_CONFIG_READ", Desc(j))
  /\ session_initial[30] = Ok("create", 0)
  /\ session_initial[31] = Ok("R_CONFIG_ERASE", 0)
  /\ \A j \in 1..27 : session_initial[j + 31] = Ok("R_CONFIG_WRITE", Desc(j))
  /\ \A j \in 1..27 : session_initial[j + 58] = Ok("R_CONFIG_READ", Desc(j))
  /\ \A j \in 1..3 : session_initial[j + 85] = Ok("PAIRING_KEY_WRITE", j)
  /\ session_initial[89] = Ok("PAIRING_KEY_INVALIDATE", 0)
  /\ session_initial[90] = Ok("abort", 0)
  /\ session_initial[91] = Ok("reboot", 0)
  /\ session_initial[92] = Ok("deinit", 0)
<1>1. DOMAIN cfg_desc_table = 1..27
  BY DescFacts
<1> QED BY <1>1 DEF session_initial, IsSeq, Open, Close, lt_write_whole_R_config,
                   lt_read_whole_R_config, Desc, lt_verify_chip_and_start_secure_session

\* The sessions follow one another.
LEMMA ProgramAt ==
  /\ Len(Program) = 137
  /\ \A j \in 1..92 : Program[j] = session_initial[j]
  /\ \A j \in 1..3 : Program[j + 92] = session0[j]
  /\ \A j \in 1..10 : Program[j + 95] = session1[j]
  /\ \A j \in 1..13 : Program[j + 105] = session2[j]
  /\ \A j \in 1..19 : Program[j + 118] = session3[j]
BY InitialCalls, Session0Calls, Session1Calls, Session2Calls, Session3Calls DEF Program, IsSeq

(***************************************************************************)
(* The configuration.                                                      *)
(***************************************************************************)
\* The objects of the table.
LEMMA ObjectNames ==
  Objects = {"START_UP", "SENSORS", "DEBUG", "GPO", "SLEEP_MODE",
    "PAIRING_KEY_WRITE", "PAIRING_KEY_READ", "PAIRING_KEY_INVALIDATE",
    "R_CONFIG_WRITE_ERASE", "R_CONFIG_READ", "I_CONFIG_WRITE", "I_CONFIG_READ",
    "PING", "R_MEM_DATA_WRITE", "R_MEM_DATA_READ", "R_MEM_DATA_ERASE", "RANDOM_VALUE_GET",
    "ECC_KEY_GENERATE", "ECC_KEY_STORE", "ECC_KEY_READ", "ECC_KEY_ERASE",
    "ECDSA_SIGN", "EDDSA_SIGN", "MCOUNTER_INIT", "MCOUNTER_GET", "MCOUNTER_UPDATE",
    "MAC_AND_DESTROY"}
<1>1. DOMAIN cfg_desc_table = 1..27
  BY DescFacts
<1>2. 1..27 = {1,2,3,4,5,6,7,8,9,10,11,12,13,14,15,16,17,18,19,20,21,22,23,24,25,26,27}
  OBVIOUS
<1> QED BY <1>1, <1>2 DEF Objects, cfg_desc_table

\* create_example_r_config object by object: what becomes of object o when it was y.
Made(o, y) ==
  CASE o = "START_UP" -> y \ Flags.START_UP
    [] o = "SENSORS" -> y \ Flags.SENSORS
    [] o = "DEBUG" -> y \ Flags.DEBUG
    [] o = "SLEEP_MODE" -> y \union Flags.SLEEP_MODE
    [] o = "PAIRING_KEY_WRITE" -> y \ AllAccess
    [] o \in {"PAIRING_KEY_READ", "ECC_KEY_READ", "MAC_AND_DESTROY"} -> y \union AllAccess
    [] o = "PAIRING_KEY_INVALIDATE" -> (y \ AllAccess) \union To({0}, {0}) \union To(1..3, {3})
    [] o \in {"PING", "RANDOM_VALUE_GET"} -> y \union To({0}, PairingKeys)
    [] o = "ECC_KEY_GENERATE" -> (y \ AllAccess) \union To(1..3, {3})
    [] o \in {"ECC_KEY_STORE", "ECC_KEY_ERASE"} ->
         (y \ AllAccess) \union To({0}, {1}) \union To(1..3, {3})
    [] o \in {"ECDSA_SIGN", "EDDSA_SIGN", "MCOUNTER_INIT", "MCOUNTER_GET", "MCOUNTER_UPDATE"} ->
         (y \ AllAccess) \union To(0..3, {3})
    [] OTHER -> y

\* A whole configuration.
Config(c) == c = [o \in Objects |-> c[o]]

\* The four parts of create_example_r_config touch different objects.
LEMMA CreateMakes ==
  ASSUME NEW c, Config(c)
  PROVE  create_example_r_config(c) = [o \in Objects |-> Made(o, c[o])]
<1> DEFINE d == create_device_config(c)
           p == create_pairing_config(d)
           e == create_ecc_config(p)
           m == create_mcounter_config(e)
           D == {"START_UP", "SENSORS", "DEBUG", "SLEEP_MODE"}
           P == {"PAIRING_KEY_WRITE", "PAIRING_KEY_READ", "PAIRING_KEY_INVALIDATE", "PING",
                 "RANDOM_VALUE_GET"}
           E == {"ECC_KEY_GENERATE", "ECC_KEY_STORE", "ECC_KEY_READ", "ECC_KEY_ERASE",
                 "ECDSA_SIGN", "EDDSA_SIGN"}
           M == {"MCOUNTER_INIT", "MCOUNTER_GET", "MCOUNTER_UPDATE", "MAC_AND_DESTROY"}
<1>1. D \union P \union E \union M \subseteq Objects
  BY ObjectNames
<1>2. d = [o \in Objects |-> IF o \in D THEN Made(o, c[o]) ELSE c[o]]
  BY <1>1 DEF create_device_config, Config, Made
<1> HIDE DEF d
<1>3. p = [o \in Objects |-> IF o \in P THEN Made(o, d[o]) ELSE d[o]]
  BY <1>1, <1>2 DEF create_pairing_config, Made
<1> HIDE DEF p
<1>4. e = [o \in Objects |-> IF o \in E THEN Made(o, p[o]) ELSE p[o]]
  BY <1>1, <1>3 DEF create_ecc_config, Made
<1> HIDE DEF e
<1>5. m = [o \in Objects |-> IF o \in M THEN Made(o, e[o]) ELSE e[o]]
  BY <1>1, <1>4 DEF create_mcounter_config, Made
<1> HIDE DEF m
<1>6. \A o \in Objects : o \notin D \union P \union E \union M => Made(o, c[o]) = c[o]
  BY DEF Made
<1>7. \A o \in Objects : m[o] = Made(o, c[o])
  BY <1>2, <1>3, <1>4, <1>5, <1>6
<1>8. m = [o \in Objects |-> Made(o, c[o])]
  BY <1>5, <1>7
<1> QED BY <1>8 DEF m, e, p, d, create_example_r_config

\* Making the configuration of what it made, or of part of it, changes nothing more.
LEMMA MadeTwice == ASSUME NEW o, NEW y PROVE Made(o, Made(o, y)) = Made(o, y)
<1>1. CASE o \in {"START_UP", "SENSORS", "DEBUG", "PAIRING_KEY_WRITE"}
  BY <1>1 DEF Made
<1>2. CASE o \in {"SLEEP_MODE", "PAIRING_KEY_READ", "ECC_KEY_READ", "MAC_AND_DESTROY", "PING",
                  "RANDOM_VALUE_GET"}
  BY <1>2 DEF Made
<1>3. CASE o \in {"PAIRING_KEY_INVALIDATE", "ECC_KEY_GENERATE", "ECC_KEY_STORE", "ECC_KEY_ERASE"}
  BY <1>3 DEF Made
<1>4. CASE o \in {"ECDSA_SIGN", "EDDSA_SIGN", "MCOUNTER_INIT", "MCOUNTER_GET", "MCOUNTER_UPDATE"}
  BY <1>4 DEF Made
<1>5. CASE Made(o, y) = y
  BY <1>5
<1> QED BY <1>1, <1>2, <1>3, <1>4, <1>5 DEF Made

\* The example configuration, object by object.
LEMMA ExampleIs == /\ Config(Erased) /\ Config(Example)
                   /\ \A o \in Objects : Example[o] = Made(o, Erased[o])
<1>1. Config(Erased)
  BY DEF Config, Erased
<1> QED BY <1>1, CreateMakes DEF Config, Example

\* Made from a configuration that was partly written, it is the same.
LEMMA CreateAgain ==
  ASSUME NEW c, Config(c), \A o \in Objects : c[o] \in {Erased[o], Example[o]}
  PROVE  create_example_r_config(c) = Example
<1>1. \A o \in Objects : Made(o, c[o]) = Example[o]
  <2> TAKE o \in Objects
  <2>1. Example[o] = Made(o, Erased[o])
    BY ExampleIs
  <2> QED BY <2>1, MadeTwice
<1> QED BY <1>1, CreateMakes, ExampleIs DEF Config

(***************************************************************************)
(* The inductive invariant of the wallet.                                  *)
(***************************************************************************)
\* R config with the first n objects written.
Prefix(n) ==
  [o \in Objects |-> IF \E j \in 1..n : Desc(j) = o THEN Example[o] ELSE Erased[o]]

WalletTypeOK ==
  /\ at \in 0..137 /\ session \in {NoSession} \union PairingKeys
  /\ keys \in [PairingKeys -> {"valid", "blank", "invalid"}]
  /\ Config(r_config)

\* Between two calls of whatever run.
DeviceInv ==
  /\ \E n \in 0..27 : stored = Prefix(n)
  /\ \E n \in 0..27 : applied = Prefix(n)
  /\ keys[0] \in {"valid", "invalid"}
  /\ keys[0] = "invalid" => (\A k \in 1..3 : keys[k] = "valid") /\ stored = Example
  /\ keys[0] = "valid" => ecc = {} /\ counters = {}

\* What has been read and written of the configuration at each place.
WrittenInv ==
  /\ at \in 3..30 => \A j \in 1..(at - 3) : r_config[Desc(j)] = stored[Desc(j)]
  /\ at \in 31..85 => r_config = Example
  /\ at \in 32..58 => stored = Prefix(at - 32)
  /\ at \in 59..137 => stored = Example

\* The pairing keys at each place.
KeysInv ==
  /\ at \in 3..89 => keys[0] = "valid"
  /\ at \in 87..89 => \A k \in 1..(at - 86) : keys[k] = "valid"
  /\ at \in 90..137 => keys[0] = "invalid"

\* What a run that may expect to succeed has at each place.
FreshInv ==
  /\ at = 0 => result = 0
  /\ at \in 1..89 => /\ keys[0] = "valid" /\ To(1..3, {0}) \subseteq applied.PAIRING_KEY_WRITE
                     /\ \A k \in 1..3 : at <= k + 85 => keys[k] = "blank"
  /\ at \in 3..89 => session = 0
  /\ at \in 92..137 => applied = Example
  /\ at \in 98..103 => session = 1
  /\ at \in 108..116 => session = 2
  /\ at \in 121..135 => session = 3
  /\ at \in 90..99 => ecc = {}
  /\ at \in 100..124 => ecc = {0}
  /\ at = 125 => ecc = {0, 8}
  /\ at = 126 => ecc = {0, 8, 16}
  /\ at \in 129..137 => 0 \in counters

WalletInv == WalletTypeOK /\ DeviceInv /\ WrittenInv /\ KeysInv /\ (fresh => FreshInv)

(***************************************************************************)
(* The calls by their places.                                              *)
(***************************************************************************)
\* session_initial.
LEMMA InitialTable ==
  ASSUME NEW p \in 1..92
  PROVE  /\ p = 1 => Program[p] = Ok("init", 0)
         /\ p = 2 => Program[p] = Ok("start", 0)
         /\ p \in 3..29 => Program[p] = Ok("R_CONFIG_READ", Desc(p - 2))
         /\ p = 30 => Program[p] = Ok("create", 0)
         /\ p = 31 => Program[p] = Ok("R_CONFIG_ERASE", 0)
         /\ p \in 32..58 => Program[p] = Ok("R_CONFIG_WRITE", Desc(p - 31))
         /\ p \in 59..85 => Program[p] = Ok("R_CONFIG_READ", Desc(p - 58))
         /\ p \in 86..88 => Program[p] = Ok("PAIRING_KEY_WRITE", p - 85)
         /\ p = 89 => Program[p] = Ok("PAIRING_KEY_INVALIDATE", 0)
         /\ p = 90 => Program[p] = Ok("abort", 0)
         /\ p = 91 => Program[p] = Ok("reboot", 0)
         /\ p = 92 => Program[p] = Ok("deinit", 0)
<1>1. Program[p] = session_initial[p]
  BY ProgramAt
<1>2. p \in 3..29 => Program[p] = Ok("R_CONFIG_READ", Desc(p - 2))
  <2> SUFFICES ASSUME p \in 3..29 PROVE Program[p] = Ok("R_CONFIG_READ", Desc(p - 2))
    OBVIOUS
  <2>1. p - 2 \in 1..27 /\ (p - 2) + 2 = p
    OBVIOUS
  <2> QED BY <1>1, <2>1, InitialCalls
<1>3. p \in 32..58 => Program[p] = Ok("R_CONFIG_WRITE", Desc(p - 31))
  <2> SUFFICES ASSUME p \in 32..58 PROVE Program[p] = Ok("R_CONFIG_WRITE", Desc(p - 31))
    OBVIOUS
  <2>1. p - 31 \in 1..27 /\ (p - 31) + 31 = p
    OBVIOUS
  <2> QED BY <1>1, <2>1, InitialCalls
<1>4. p \in 59..85 => Program[p] = Ok("R_CONFIG_READ", Desc(p - 58))
  <2> SUFFICES ASSUME p \in 59..85 PROVE Program[p] = Ok("R_CONFIG_READ", Desc(p - 58))
    OBVIOUS
  <2>1. p - 58 \in 1..27 /\ (p - 58) + 58 = p
    OBVIOUS
  <2> QED BY <1>1, <2>1, InitialCalls
<1>5. p \in 86..88 => Program[p] = Ok("PAIRING_KEY_WRITE", p - 85)
  <2> SUFFICES ASSUME p \in 86..88 PROVE Program[p] = Ok("PAIRING_KEY_WRITE", p - 85)
    OBVIOUS
  <2>1. p - 85 \in 1..3 /\ (p - 85) + 85 = p
    OBVIOUS
  <2> QED BY <1>1, <2>1, InitialCalls
<1>6. /\ p = 1 => Program[p] = Ok("init", 0)
      /\ p = 2 => Program[p] = Ok("start", 0)
      /\ p = 30 => Program[p] = Ok("create", 0)
      /\ p = 31 => Program[p] = Ok("R_CONFIG_ERASE", 0)
      /\ p = 89 => Program[p] = Ok("PAIRING_KEY_INVALIDATE", 0)
      /\ p = 90 => Program[p] = Ok("abort", 0)
      /\ p = 91 => Program[p] = Ok("reboot", 0)
      /\ p = 92 => Program[p] = Ok("deinit", 0)
  BY <1>1, InitialCalls
<1> QED BY <1>2, <1>3, <1>4, <1>5, <1>6

\* The other sessions.
LEMMA LaterTable ==
  /\ Program[93] = Ok("init", 0)
  /\ Program[94] = Call("start", 0, "LT_L2_HSK_ERR")
  /\ Program[95] = Ok("deinit", 0)
  /\ Program[96] = Ok("init", 0)
  /\ Program[97] = Ok("start", 1)
  /\ Program[98] = Ok("PING", 0)
  /\ Program[99] = Ok("ECC_KEY_STORE", 0)
  /\ \A j \in 1..4 : Program[j + 99] = Refused("PAIRING_KEY_WRITE", j - 1)
  /\ Program[104] = Ok("abort", 0)
  /\ Program[105] = Ok("deinit", 0)
  /\ Program[106] = Ok("init", 0)
  /\ Program[107] = Ok("start", 2)
  /\ Program[108] = Ok("PING", 0)
  /\ Program[109] = Refused("ECC_KEY_STORE", 0)
  /\ \A j \in 1..4 : Program[j + 109] = Refused("PAIRING_KEY_WRITE", j - 1)
  /\ Program[114] = Refused("MCOUNTER_INIT", 0)
  /\ Program[115] = Refused("MCOUNTER_UPDATE", 0)
  /\ Program[116] = Refused("MCOUNTER_GET", 0)
  /\ Program[117] = Ok("abort", 0)
  /\ Program[118] = Ok("deinit", 0)
  /\ Program[119] = Ok("init", 0)
  /\ Program[120] = Ok("start", 3)
  /\ Program[121] = Ok("PING", 0)
  /\ Program[122] = Ok("EDDSA_SIGN", 0)
  /\ Program[123] = Ok("ECC_KEY_READ", 0)
  /\ Program[124] = Ok("ECC_KEY_GENERATE", 8)
  /\ Program[125] = Ok("ECC_KEY_GENERATE", 16)
  /\ Program[126] = Ok("ECC_KEY_GENERATE", 24)
  /\ Program[127] = Ok("RANDOM_VALUE_GET", 0)
  /\ Program[128] = Ok("MCOUNTER_INIT", 0)
  /\ Program[129] = Ok("MCOUNTER_UPDATE", 0)
  /\ Program[130] = Ok("MCOUNTER_GET", 0)
  /\ Program[131] = Refused("ECC_KEY_STORE", 0)
  /\ \A j \in 1..4 : Program[j + 131] = Refused("PAIRING_KEY_WRITE", j - 1)
  /\ Program[136] = Ok("abort", 0)
  /\ Program[137] = Ok("deinit", 0)
<1>1. /\ Program[1 + 92] = session0[1] /\ Program[2 + 92] = session0[2]
      /\ Program[3 + 92] = session0[3]
  BY ProgramAt
<1>2. /\ Program[1 + 95] = session1[1] /\ Program[2 + 95] = session1[2]
      /\ Program[3 + 95] = session1[3] /\ Program[4 + 95] = session1[4]
      /\ Program[9 + 95] = session1[9] /\ Program[10 + 95] = session1[10]
      /\ \A j \in 1..4 : Program[(j + 4) + 95] = session1[j + 4]
  BY ProgramAt
<1>3. /\ Program[1 + 105] = session2[1] /\ Program[2 + 105] = session2[2]
      /\ Program[3 + 105] = session2[3] /\ Program[4 + 105] = session2[4]
      /\ Program[9 + 105] = session2[9] /\ Program[10 + 105] = session2[10]
      /\ Program[11 + 105] = session2[11] /\ Program[12 + 105] = session2[12]
      /\ Program[13 + 105] = session2[13]
      /\ \A j \in 1..4 : Program[(j + 4) + 105] = session2[j + 4]
  BY ProgramAt
<1>4. /\ Program[1 + 118] = session3[1] /\ Program[2 + 118] = session3[2]
      /\ Program[3 + 118] = session3[3] /\ Program[4 + 118] = session3[4]
      /\ Program[5 + 118] = session3[5] /\ Program[6 + 118] = session3[6]
      /\ Program[7 + 118] = session3[7] /\ Program[8 + 118] = session3[8]
      /\ Program[9 + 118] = session3[9] /\ Program[10 + 118] = session3[10]
      /\ Program[11 + 118] = session3[11] /\ Program[12 + 118] = session3[12]
      /\ Program[13 + 118] = session3[13] /\ Program[18 + 118] = session3[18]
      /\ Program[19 + 118] = session3[19]
      /\ \A j \in 1..4 : Program[(j + 13) + 118] = session3[j + 13]
  BY ProgramAt
<1>5. \A j \in 1..4 : (j + 4) + 95 = j + 99 /\ (j + 4) + 105 = j + 109 /\ (j + 13) + 118 = j + 131
  OBVIOUS
<1>6. \A j \in 1..4 : /\ Program[j + 99] = Refused("PAIRING_KEY_WRITE", j - 1)
                      /\ Program[j + 109] = Refused("PAIRING_KEY_WRITE", j - 1)
                      /\ Program[j + 131] = Refused("PAIRING_KEY_WRITE", j - 1)
  BY <1>2, <1>3, <1>4, <1>5, Session1Calls, Session2Calls, Session3Calls
<1> QED BY <1>1, <1>2, <1>3, <1>4, <1>6, Session0Calls, Session1Calls, Session2Calls, Session3Calls

(***************************************************************************)
(* What the calls do to the chip.                                          *)
(***************************************************************************)
\* A call that must succeed, and one that must be refused.
LEMMA CallFields ==
  \A op, arg : /\ Ok(op, arg).op = op /\ Ok(op, arg).arg = arg /\ Ok(op, arg).expect = "LT_OK"
               /\ Refused(op, arg).op = op /\ Refused(op, arg).arg = arg
               /\ Refused(op, arg).expect = "LT_L3_UNAUTHORIZED"
BY DEF Ok, Refused, Call

\* The first n objects, and one more.
LEMMA PrefixFacts ==
  /\ \A n \in 0..27 : Config(Prefix(n))
  /\ \A n \in 0..27 : \A o \in Objects : Prefix(n)[o] \in {Erased[o], Example[o]}
  /\ Prefix(0) = Erased /\ Prefix(27) = Example
  /\ \A n \in 0..26 : Prefix(n + 1) = [Prefix(n) EXCEPT ![Desc(n + 1)] = Example[Desc(n + 1)]]
<1>1. \A n \in 0..27 : /\ Config(Prefix(n))
                       /\ \A o \in Objects : Prefix(n)[o] \in {Erased[o], Example[o]}
  BY DEF Prefix, Config
<1>2. Prefix(0) = Erased
  BY ExampleIs DEF Prefix, Config
<1>3. Prefix(27) = Example
  <2>1. \A o \in Objects : \E j \in 1..27 : Desc(j) = o
    BY DescFacts DEF Objects, Desc
  <2> QED BY <2>1, ExampleIs DEF Prefix, Config
<1>4. ASSUME NEW n \in 0..26
      PROVE  Prefix(n + 1) = [Prefix(n) EXCEPT ![Desc(n + 1)] = Example[Desc(n + 1)]]
  <2>1. 1..(n + 1) = (1..n) \union {n + 1}
    OBVIOUS
  <2> QED BY <2>1 DEF Prefix
<1> QED BY <1>1, <1>2, <1>3, <1>4

\* A call that only asks changes nothing.
Asking == {"init", "deinit", "create", "start", "abort", "R_CONFIG_READ", "PING", "EDDSA_SIGN",
           "ECC_KEY_READ", "RANDOM_VALUE_GET", "MCOUNTER_UPDATE", "MCOUNTER_GET"}

LEMMA AskingEffect ==
  ASSUME NEW c, c.op \in Asking, Effect(c)
  PROVE  UNCHANGED <<stored, applied, keys, ecc, counters>>
BY DEF Asking, Effect

\* The calls behind session_initial: keys and configuration stay as they are, for
\* no pairing key slot is blank any more.
LaterOps == (Asking \ {"create", "R_CONFIG_READ"})
              \union {"ECC_KEY_STORE", "ECC_KEY_GENERATE", "MCOUNTER_INIT", "PAIRING_KEY_WRITE"}

LEMMA LaterCalls ==
  ASSUME NEW p \in 93..137
  PROVE  /\ Program[p].op \in LaterOps
         /\ Program[p].op = "PAIRING_KEY_WRITE" => Program[p].arg \in 0..3
         /\ Program[p].op = "start" => Program[p].arg \in 0..3
<1>1. CASE p \in 100..103
  <2>1. p - 99 \in 1..4 /\ (p - 99) + 99 = p
    BY <1>1
  <2>2. Program[p] = Refused("PAIRING_KEY_WRITE", (p - 99) - 1)
    BY <2>1, LaterTable
  <2> QED BY <2>1, <2>2, CallFields DEF LaterOps
<1>2. CASE p \in 110..113
  <2>1. p - 109 \in 1..4 /\ (p - 109) + 109 = p
    BY <1>2
  <2>2. Program[p] = Refused("PAIRING_KEY_WRITE", (p - 109) - 1)
    BY <2>1, LaterTable
  <2> QED BY <2>1, <2>2, CallFields DEF LaterOps
<1>3. CASE p \in 132..135
  <2>1. p - 131 \in 1..4 /\ (p - 131) + 131 = p
    BY <1>3
  <2>2. Program[p] = Refused("PAIRING_KEY_WRITE", (p - 131) - 1)
    BY <2>1, LaterTable
  <2> QED BY <2>1, <2>2, CallFields DEF LaterOps
<1>4. CASE p \in 93..99
  BY <1>4, LaterTable DEF LaterOps, Asking, Ok, Refused, Call
<1>5. CASE p \in 104..109
  BY <1>5, LaterTable DEF LaterOps, Asking, Ok, Refused, Call
<1>6. CASE p \in 114..120
  BY <1>6, LaterTable DEF LaterOps, Asking, Ok, Refused, Call
<1>7. CASE p \in 121..131
  BY <1>7, LaterTable DEF LaterOps, Asking, Ok, Refused, Call
<1>8. CASE p \in 136..137
  BY <1>8, LaterTable DEF LaterOps, Asking, Ok, Refused, Call
<1> QED BY <1>1, <1>2, <1>3, <1>4, <1>5, <1>6, <1>7, <1>8

LEMMA LaterEffect ==
  ASSUME WalletInv, at \in 93..137, Answer(Program[at]) = "LT_OK", Effect(Program[at])
  PROVE  UNCHANGED <<stored, applied, keys>>
<1> DEFINE c == Program[at]
<1>1. c.op \in LaterOps /\ (c.op = "PAIRING_KEY_WRITE" => c.arg \in 0..3)
  BY LaterCalls
<1> HIDE DEF c
<1>2. c.op # "PAIRING_KEY_WRITE"
  <2> SUFFICES ASSUME c.op = "PAIRING_KEY_WRITE" PROVE FALSE
    OBVIOUS
  <2>1. \A k \in 0..3 : keys[k] # "blank"
    BY DEF WalletInv, KeysInv, DeviceInv
  <2>2. ~Usable(c)
    BY <1>1, <2>1 DEF Usable
  <2>3. c.op \notin Local \union {"abort", "reboot"} /\ c.op # "start"
    BY DEF Local
  <2>4. Answer(c) # "LT_OK"
    BY <2>2, <2>3 DEF Answer
  <2> QED BY <2>4 DEF c
<1>3. Effect(c)
  BY DEF c
<1> QED BY <1>1, <1>2, <1>3 DEF Effect, LaterOps, Asking

\* What the calls of session_initial do.
LEMMA InitialEffect ==
  ASSUME WalletInv, at \in 1..92, Effect(Program[at])
  PROVE  /\ at \notin 31..58 => UNCHANGED stored
         /\ at = 31 => stored' = Erased
         /\ at \in 32..58 => stored' = Prefix(at - 31)
         /\ at # 91 => UNCHANGED applied
         /\ at = 91 => applied' = stored
         /\ at \notin 86..89 => UNCHANGED keys
         /\ at \in 86..88 => keys' = [keys EXCEPT ![at - 85] = "valid"]
         /\ at = 89 => keys' = [keys EXCEPT ![0] = "invalid"]
         /\ UNCHANGED <<ecc, counters>>
<1> DEFINE c == Program[at]
<1>1. Effect(c)
  OBVIOUS
<1>2. CASE at \in {1, 2, 30, 90, 92} \union (3..29) \union (59..85)
  <2>1. c.op \in Asking
    BY <1>2, InitialTable DEF Asking, Ok, Call
  <2> HIDE DEF c
  <2> QED BY <1>1, <1>2, <2>1, AskingEffect
<1>3. CASE at = 31
  <2>1. c.op = "R_CONFIG_ERASE"
    BY <1>3, InitialTable DEF Ok, Call
  <2> HIDE DEF c
  <2> QED BY <1>1, <1>3, <2>1 DEF Effect
<1>4. CASE at \in 32..58
  <2>1. c.op = "R_CONFIG_WRITE" /\ c.arg = Desc(at - 31)
    BY <1>4, InitialTable DEF Ok, Call
  <2> HIDE DEF c
  <2>2. stored' = [stored EXCEPT ![Desc(at - 31)] = r_config[Desc(at - 31)]]
    BY <1>1, <2>1 DEF Effect
  <2>3. stored = Prefix(at - 32) /\ r_config = Example
    BY <1>4 DEF WalletInv, WrittenInv
  <2>4. at - 32 \in 0..26 /\ (at - 32) + 1 = at - 31
    BY <1>4
  <2>5. stored' = Prefix(at - 31)
    BY <2>2, <2>3, <2>4, PrefixFacts
  <2>6. UNCHANGED <<applied, keys, ecc, counters>>
    BY <1>1, <2>1 DEF Effect
  <2> QED BY <1>4, <2>5, <2>6
<1>5. CASE at \in 86..88
  <2>1. c.op = "PAIRING_KEY_WRITE" /\ c.arg = at - 85
    BY <1>5, InitialTable DEF Ok, Call
  <2> HIDE DEF c
  <2>2. keys' = [keys EXCEPT ![c.arg] = "valid"]
    BY <1>1, <2>1 DEF Effect
  <2>3. keys' = [keys EXCEPT ![at - 85] = "valid"]
    BY <2>1, <2>2, Zenon
  <2>4. UNCHANGED <<stored, applied, ecc, counters>>
    BY <1>1, <2>1 DEF Effect
  <2> QED BY <1>5, <2>3, <2>4
<1>6. CASE at = 89
  <2>1. c.op = "PAIRING_KEY_INVALIDATE" /\ c.arg = 0
    BY <1>6, InitialTable DEF Ok, Call
  <2> HIDE DEF c
  <2>2. keys' = [keys EXCEPT ![c.arg] = "invalid"]
    BY <1>1, <2>1 DEF Effect
  <2>3. keys' = [keys EXCEPT ![0] = "invalid"]
    BY <2>1, <2>2, Zenon
  <2>4. UNCHANGED <<stored, applied, ecc, counters>>
    BY <1>1, <2>1 DEF Effect
  <2> QED BY <1>6, <2>3, <2>4
<1>7. CASE at = 91
  <2>1. c.op = "reboot"
    BY <1>7, InitialTable DEF Ok, Call
  <2> HIDE DEF c
  <2> QED BY <1>1, <1>7, <2>1 DEF Effect
<1> QED BY <1>2, <1>3, <1>4, <1>5, <1>6, <1>7

\* Whatever call is carried out, and whatever becomes of its answer, the chip stays
\* as described.
LEMMA DeviceStep ==
  ASSUME WalletInv, at > 0, Answer(Program[at]) = "LT_OK", Effect(Program[at])
  PROVE  DeviceInv' /\ keys' \in [PairingKeys -> {"valid", "blank", "invalid"}]
<1> USE DEF PairingKeys
<1>1. /\ DeviceInv /\ WrittenInv /\ KeysInv /\ at \in 1..137
      /\ keys \in [PairingKeys -> {"valid", "blank", "invalid"}]
  BY DEF WalletInv, WalletTypeOK
<1>2. CASE at \in 93..137
  <2>1. UNCHANGED <<stored, applied, keys>> /\ keys[0] = "invalid"
    BY <1>1, <1>2, LaterEffect DEF KeysInv
  <2> QED BY <1>1, <2>1 DEF DeviceInv
<1>3. CASE at \in 1..92
  <2>1. keys' \in [PairingKeys -> {"valid", "blank", "invalid"}]
    <3>1. CASE at \in 86..88
      BY <1>1, <1>3, <3>1, InitialEffect
    <3>2. CASE at = 89
      BY <1>1, <1>3, <3>2, InitialEffect
    <3>3. CASE at \notin 86..89
      BY <1>1, <1>3, <3>3, InitialEffect
    <3> QED BY <3>1, <3>2, <3>3
  <2>2. \E n \in 0..27 : stored' = Prefix(n)
    <3>1. CASE at \in 31..58
      <4>1. at - 31 \in 0..27
        BY <3>1
      <4>2. stored' = Prefix(at - 31)
        <5>1. CASE at = 31
          BY <1>3, <5>1, InitialEffect, PrefixFacts
        <5>2. CASE at \in 32..58
          BY <1>3, <5>2, InitialEffect
        <5> QED BY <3>1, <5>1, <5>2
      <4> QED BY <4>1, <4>2
    <3>2. CASE at \notin 31..58
      BY <1>1, <1>3, <3>2, InitialEffect DEF DeviceInv
    <3> QED BY <3>1, <3>2
  <2>3. \E n \in 0..27 : applied' = Prefix(n)
    BY <1>1, <1>3, InitialEffect DEF DeviceInv
  <2>4. CASE at = 89
    <3>1. keys' = [keys EXCEPT ![0] = "invalid"] /\ UNCHANGED stored
      BY <1>3, <2>4, InitialEffect
    <3>2. stored = Example /\ \A k \in 1..3 : keys[k] = "valid"
      BY <1>1, <2>4 DEF WrittenInv, KeysInv
    <3>3. keys'[0] = "invalid" /\ \A k \in 1..3 : keys'[k] = "valid"
      BY <1>1, <3>1, <3>2
    <3> QED BY <2>1, <2>2, <2>3, <3>1, <3>2, <3>3 DEF DeviceInv
  <2>5. CASE at \in 3..88
    <3>1. keys'[0] = "valid"
      <4>1. keys[0] = "valid"
        BY <1>1, <2>5 DEF KeysInv
      <4>2. CASE at \in 86..88
        BY <1>1, <1>3, <4>1, <4>2, InitialEffect
      <4>3. CASE at \notin 86..88
        BY <1>3, <2>5, <4>1, <4>3, InitialEffect
      <4> QED BY <4>2, <4>3
    <3>2. ecc' = {} /\ counters' = {}
      BY <1>1, <1>3, <2>5, InitialEffect DEF KeysInv, DeviceInv
    <3> QED BY <2>1, <2>2, <2>3, <3>1, <3>2 DEF DeviceInv
  <2>6. CASE at \in {1, 2} \union (90..92)
    <3>1. UNCHANGED <<stored, keys, ecc, counters>>
      BY <1>3, <2>6, InitialEffect
    <3> QED BY <1>1, <2>1, <2>2, <2>3, <3>1 DEF DeviceInv
  <2> QED BY <1>3, <2>4, <2>5, <2>6
<1> QED BY <1>1, <1>2, <1>3

\* A run ends early.
LEMMA GiveUpStep ==
  ASSUME WalletInv, at > 0, GiveUp, ~fresh',
         UNCHANGED device \/ (Answer(Program[at]) = "LT_OK" /\ Effect(Program[at]))
  PROVE  WalletInv'
<1>1. /\ DeviceInv /\ keys \in [PairingKeys -> {"valid", "blank", "invalid"}]
      /\ Config(r_config)
  BY DEF WalletInv, WalletTypeOK
<1>2. DeviceInv' /\ keys' \in [PairingKeys -> {"valid", "blank", "invalid"}]
  <2>1. CASE UNCHANGED device
    BY <1>1, <2>1 DEF device, DeviceInv
  <2>2. CASE Answer(Program[at]) = "LT_OK" /\ Effect(Program[at])
    BY <2>2, DeviceStep
  <2> QED BY <2>1, <2>2
<1>3. at' = 0 /\ session' = NoSession /\ UNCHANGED r_config
  BY DEF GiveUp
<1>4. WalletTypeOK'
  BY <1>1, <1>2, <1>3 DEF WalletTypeOK, Config
<1>5. WrittenInv' /\ KeysInv'
  BY <1>3 DEF WrittenInv, KeysInv
<1> QED BY <1>2, <1>4, <1>5 DEF WalletInv

(***************************************************************************)
(* A call gets the answer it must get.                                     *)
(***************************************************************************)
\* What the step means at the current place.
LEMMA ExpectedFacts ==
  ASSUME WalletInv, ExpectedAnswer
  PROVE  /\ at \in 1..137 /\ Answer(Program[at]) = Program[at].expect
         /\ Program[at].expect = "LT_OK" => Effect(Program[at])
         /\ Program[at].expect # "LT_OK" => UNCHANGED device
         /\ at < 137 => at' = at + 1
         /\ at = 137 => at' = 0 /\ result' = 0
         /\ UNCHANGED fresh
         /\ at' \in 0..137
BY ProgramAt DEF WalletInv, WalletTypeOK, ExpectedAnswer, progress

\* The chip stays as described, ...
LEMMA ExpectedDevice ==
  ASSUME WalletInv, ExpectedAnswer
  PROVE  DeviceInv' /\ keys' \in [PairingKeys -> {"valid", "blank", "invalid"}]
<1>1. CASE Program[at].expect = "LT_OK"
  BY <1>1, ExpectedFacts, DeviceStep
<1>2. CASE Program[at].expect # "LT_OK"
  BY <1>2, ExpectedFacts DEF device, WalletInv, WalletTypeOK, DeviceInv
<1> QED BY <1>1, <1>2

\* Keys and configuration behind session_initial.
LEMMA ExpectedLater ==
  ASSUME WalletInv, ExpectedAnswer, at \in 93..137
  PROVE  UNCHANGED <<stored, applied, keys>>
<1>1. CASE Program[at].expect = "LT_OK"
  BY <1>1, ExpectedFacts, LaterEffect
<1>2. CASE Program[at].expect # "LT_OK"
  BY <1>2, ExpectedFacts DEF device
<1> QED BY <1>1, <1>2

\* Every call of session_initial must succeed.
LEMMA ExpectedInitial ==
  ASSUME WalletInv, ExpectedAnswer, at \in 1..92
  PROVE  Effect(Program[at]) /\ Program[at].expect = "LT_OK"
<1>1. PICK op, arg : Program[at] = Ok(op, arg)
  <2>1. \/ at \in {1, 2, 30, 31, 89, 90, 91, 92} \/ at \in 3..29 \/ at \in 32..58
        \/ at \in 59..85 \/ at \in 86..88
    OBVIOUS
  <2> QED BY <2>1, InitialTable
<1>2. Program[at].expect = "LT_OK"
  BY <1>1, CallFields
<1> QED BY <1>2, ExpectedFacts

\* The configuration in the host's hands.
LEMMA ExpectedConfig ==
  ASSUME WalletInv, ExpectedAnswer
  PROVE  /\ Config(r_config')
         /\ at \in 3..29 => r_config' = [r_config EXCEPT ![Desc(at - 2)] = stored[Desc(at - 2)]]
         /\ at \in 30..85 => r_config' = Example
<1> DEFINE c == Program[at]
<1>1. /\ Config(r_config) /\ at \in 1..137
      /\ r_config' = CASE c.op = "R_CONFIG_READ" -> [r_config EXCEPT ![c.arg] = stored[c.arg]]
                       [] c.op = "create" -> create_example_r_config(r_config)
                       [] OTHER -> r_config
  BY ExpectedFacts DEF ExpectedAnswer, WalletInv, WalletTypeOK
<1>2. CASE at \in 3..29
  <2>1. c.op = "R_CONFIG_READ" /\ c.arg = Desc(at - 2)
    BY <1>2, InitialTable, CallFields
  <2> HIDE DEF c
  <2>2. r_config' = [r_config EXCEPT ![c.arg] = stored[c.arg]]
    BY <1>1, <2>1
  <2>3. r_config' = [r_config EXCEPT ![Desc(at - 2)] = stored[Desc(at - 2)]]
    BY <2>1, <2>2, Zenon
  <2>4. Config(r_config')
    BY <1>1, <2>3 DEF Config
  <2> QED BY <1>2, <2>3, <2>4
<1>3. CASE at = 30
  <2>1. c.op = "create"
    BY <1>3, InitialTable, CallFields
  <2> HIDE DEF c
  <2>2. \A o \in Objects : r_config[o] = stored[o]
    <3>1. \A o \in Objects : \E j \in 1..27 : Desc(j) = o
      BY DescFacts DEF Objects, Desc
    <3>2. \A j \in 1..27 : r_config[Desc(j)] = stored[Desc(j)]
      BY <1>3 DEF WalletInv, WrittenInv
    <3> QED BY <3>1, <3>2
  <2>3. \A o \in Objects : stored[o] \in {Erased[o], Example[o]}
    BY PrefixFacts DEF WalletInv, DeviceInv
  <2>4. create_example_r_config(r_config) = Example
    BY <1>1, <2>2, <2>3, CreateAgain
  <2> QED BY <1>1, <1>3, <2>1, <2>4, ExampleIs
<1>4. CASE at \in 31..58
  <2>1. c.op \notin {"R_CONFIG_READ", "create"}
    BY <1>4, InitialTable, CallFields
  <2> HIDE DEF c
  <2>2. r_config = Example
    BY <1>4 DEF WalletInv, WrittenInv
  <2> QED BY <1>1, <1>4, <2>1, <2>2
<1>5. CASE at \in 59..85
  <2>1. c.op = "R_CONFIG_READ" /\ c.arg = Desc(at - 58)
    BY <1>5, InitialTable, CallFields
  <2> HIDE DEF c
  <2>2. r_config = Example /\ stored = Example
    BY <1>5 DEF WalletInv, WrittenInv
  <2>3. r_config' = [Example EXCEPT ![c.arg] = Example[c.arg]]
    BY <1>1, <2>1, <2>2
  <2>4. r_config' = Example
    BY <2>3, ExampleIs DEF Config
  <2> QED BY <1>5, <2>4, ExampleIs
<1>6. CASE at \in {1, 2} \union (86..137)
  <2>1. c.op \notin {"R_CONFIG_READ", "create"}
    <3>1. CASE at \in {1, 2} \union (86..92)
      BY <3>1, InitialTable, CallFields
    <3>2. CASE at \in 93..137
      BY <3>2, LaterCalls DEF LaterOps, Asking
    <3> QED BY <1>6, <3>1, <3>2
  <2> HIDE DEF c
  <2> QED BY <1>1, <1>6, <2>1
<1> QED BY <1>1, <1>2, <1>3, <1>4, <1>5, <1>6

\* What has been read and written, one object further.
LEMMA ExpectedWritten == ASSUME WalletInv, ExpectedAnswer PROVE WrittenInv'
<1>1. WrittenInv /\ Config(r_config) /\ at \in 1..137
  BY ExpectedFacts DEF WalletInv, WalletTypeOK
<1>2. CASE at \in {1, 2, 137}
  <2>1. at' = 0 \/ at' = 2 \/ at' = 3
    BY <1>2, ExpectedFacts
  <2>2. at' = 3 => 1..(at' - 3) = {}
    OBVIOUS
  <2>3. at' \notin 31..85 /\ at' \notin 32..58 /\ at' \notin 59..137
    BY <2>1
  <2>4. at' \in 3..30 => at' = 3
    BY <2>1
  <2> QED BY <2>2, <2>3, <2>4 DEF WrittenInv
<1>3. CASE at \in 3..29
  <2>1. UNCHANGED stored /\ at' = at + 1
    BY <1>3, ExpectedFacts, ExpectedInitial, InitialEffect
  <2>2. r_config' = [r_config EXCEPT ![Desc(at - 2)] = stored[Desc(at - 2)]]
    BY <1>3, ExpectedConfig
  <2>3. \A j \in 1..(at - 3) : r_config[Desc(j)] = stored[Desc(j)]
    BY <1>1, <1>3 DEF WrittenInv
  <2>4. \A j \in 1..27 : Desc(j) \in Objects
    BY DescFacts DEF Desc, Objects
  <2>5. \A j \in 1..(at - 2) : r_config'[Desc(j)] = stored[Desc(j)]
    <3> TAKE j \in 1..(at - 2)
    <3>1. j \in 1..27 /\ (j = at - 2 \/ j \in 1..(at - 3))
      BY <1>3
    <3> QED BY <1>1, <2>2, <2>3, <2>4, <3>1 DEF Config
  <2>6. at' - 3 = at - 2 /\ at' \in 4..30
    BY <1>3, <2>1
  <2> QED BY <2>1, <2>5, <2>6 DEF WrittenInv
<1>4. CASE at \in 30..85
  <2>1. r_config' = Example /\ at' = at + 1
    BY <1>4, ExpectedConfig, ExpectedFacts
  <2>2. CASE at = 30
    BY <2>1, <2>2 DEF WrittenInv
  <2>3. CASE at = 31
    <3>1. stored' = Prefix(0)
      BY <2>3, ExpectedInitial, InitialEffect, PrefixFacts
    <3>2. at' = 32 /\ at' - 32 = 0
      BY <2>1, <2>3
    <3> QED BY <2>1, <3>1, <3>2 DEF WrittenInv
  <2>4. CASE at \in 32..58
    <3>1. stored' = Prefix(at - 31)
      BY <2>4, ExpectedInitial, InitialEffect
    <3>2. at' \in 33..59 /\ at' - 32 = at - 31
      BY <2>1, <2>4
    <3>3. at' = 59 => stored' = Example
      <4> SUFFICES ASSUME at' = 59 PROVE stored' = Example
        OBVIOUS
      <4>1. at - 31 = 27
        BY <3>2
      <4> QED BY <3>1, <4>1, PrefixFacts
    <3> QED BY <2>1, <3>1, <3>2, <3>3 DEF WrittenInv
  <2>5. CASE at \in 59..85
    <3>1. UNCHANGED stored
      BY <2>5, ExpectedInitial, InitialEffect
    <3> QED BY <1>1, <2>1, <2>5, <3>1 DEF WrittenInv
  <2> QED BY <1>4, <2>2, <2>3, <2>4, <2>5
<1>5. CASE at \in 86..136
  <2>1. UNCHANGED stored /\ at' = at + 1
    <3>1. CASE at \in 86..92
      BY <3>1, ExpectedFacts, ExpectedInitial, InitialEffect
    <3>2. CASE at \in 93..136
      BY <3>2, ExpectedFacts, ExpectedLater
    <3> QED BY <1>5, <3>1, <3>2
  <2> QED BY <1>1, <1>5, <2>1 DEF WrittenInv
<1> QED BY <1>1, <1>2, <1>3, <1>4, <1>5

\* The pairing keys, one place further.
LEMMA ExpectedKeys == ASSUME WalletInv, ExpectedAnswer PROVE KeysInv'
<1>1. /\ KeysInv /\ at \in 1..137
      /\ keys \in [PairingKeys -> {"valid", "blank", "invalid"}]
  BY ExpectedFacts DEF WalletInv, WalletTypeOK
<1>2. CASE at \in {1, 137}
  <2>1. at' = 0 \/ at' = 2
    BY <1>2, ExpectedFacts
  <2>2. at' \notin 3..89 /\ at' \notin 87..89 /\ at' \notin 90..137
    BY <2>1
  <2> QED BY <2>2 DEF KeysInv
<1>3. CASE at = 2
  <2>1. UNCHANGED keys /\ at' = 3
    BY <1>3, ExpectedFacts, ExpectedInitial, InitialEffect
  <2>2. Program[at] = Ok("start", 0) /\ Answer(Program[at]) = "LT_OK"
    BY <1>3, InitialTable, ExpectedFacts, CallFields
  <2>3. keys[0] = "valid"
    BY <2>2, CallFields DEF Answer, Local
  <2> QED BY <2>1, <2>3 DEF KeysInv
<1>4. CASE at \in 3..85
  <2>1. UNCHANGED keys /\ at' = at + 1
    BY <1>4, ExpectedFacts, ExpectedInitial, InitialEffect
  <2> QED BY <1>1, <1>4, <2>1 DEF KeysInv
<1>5. CASE at \in 86..88
  <2>1. keys' = [keys EXCEPT ![at - 85] = "valid"] /\ at' = at + 1
    BY <1>5, ExpectedFacts, ExpectedInitial, InitialEffect
  <2>2. keys[0] = "valid" /\ \A k \in 1..(at - 86) : keys[k] = "valid"
    BY <1>1, <1>5 DEF KeysInv
  <2>3. keys'[0] = "valid" /\ \A k \in 1..(at - 85) : keys'[k] = "valid"
    BY <1>1, <1>5, <2>1, <2>2 DEF PairingKeys
  <2>4. at' - 86 = at - 85 /\ at' \notin 90..137
    BY <1>5, <2>1
  <2>5. \A k \in 1..(at' - 86) : keys'[k] = "valid"
    BY <2>3, <2>4
  <2> QED BY <2>3, <2>4, <2>5 DEF KeysInv
<1>6. CASE at = 89
  <2>1. keys' = [keys EXCEPT ![0] = "invalid"] /\ at' = 90
    BY <1>6, ExpectedFacts, ExpectedInitial, InitialEffect
  <2>2. keys'[0] = "invalid"
    BY <1>1, <2>1 DEF PairingKeys
  <2> QED BY <2>1, <2>2 DEF KeysInv
<1>7. CASE at \in 90..136
  <2>1. UNCHANGED keys /\ at' = at + 1
    <3>1. CASE at \in 90..92
      BY <3>1, ExpectedFacts, ExpectedInitial, InitialEffect
    <3>2. CASE at \in 93..136
      BY <3>2, ExpectedFacts, ExpectedLater
    <3> QED BY <1>7, <3>1, <3>2
  <2> QED BY <1>1, <1>7, <2>1 DEF KeysInv
<1> QED BY <1>1, <1>2, <1>3, <1>4, <1>5, <1>6, <1>7

(***************************************************************************)
(* A run that may expect to succeed.                                       *)
(***************************************************************************)
\* Reading and writing the configuration, and invalidating key 0, are allowed to
\* the session of key 0 by every configuration the chip can have in force.
LEMMA PrefixAccess ==
  ASSUME NEW n \in 0..27
  PROVE  /\ <<0, 0>> \in Prefix(n)["R_CONFIG_READ"]
         /\ <<0, 0>> \in Prefix(n)["R_CONFIG_WRITE_ERASE"]
         /\ <<0, 0>> \in Prefix(n)["PAIRING_KEY_INVALIDATE"]
<1> DEFINE O == {"R_CONFIG_READ", "R_CONFIG_WRITE_ERASE", "PAIRING_KEY_INVALIDATE"}
<1>1. O \subseteq Objects
  BY ObjectNames
<1>2. \A o \in O : <<0, 0>> \in Erased[o]
  BY <1>1 DEF Erased, Flags, AllAccess, PairingKeys
<1>3. \A o \in O : <<0, 0>> \in Made(o, Erased[o])
  <2>1. <<0, 0>> \in To({0}, {0})
    BY DEF To
  <2>2. Made("R_CONFIG_READ", Erased["R_CONFIG_READ"]) = Erased["R_CONFIG_READ"]
    BY DEF Made
  <2>3. Made("R_CONFIG_WRITE_ERASE", Erased["R_CONFIG_WRITE_ERASE"])
        = Erased["R_CONFIG_WRITE_ERASE"]
    BY DEF Made
  <2>4. <<0, 0>> \in Made("PAIRING_KEY_INVALIDATE", Erased["PAIRING_KEY_INVALIDATE"])
    BY <2>1 DEF Made
  <2> QED BY <1>2, <2>2, <2>3, <2>4
<1>4. \A o \in O : Prefix(n)[o] \in {Erased[o], Made(o, Erased[o])}
  BY <1>1, PrefixFacts, ExampleIs
<1> QED BY <1>2, <1>3, <1>4

\* Who may do what under the example configuration, as far as the sessions try it.
LEMMA ExampleAccess ==
  /\ \A k \in 1..3 : <<0, k>> \in Example["PING"]
  /\ <<0, 1>> \in Example["ECC_KEY_STORE"]
  /\ \A k \in 2..3 : <<0, k>> \notin Example["ECC_KEY_STORE"]
  /\ \A f \in 0..3 : \A k \in 1..3 : <<f, k>> \notin Example["PAIRING_KEY_WRITE"]
  /\ \A o \in {"MCOUNTER_INIT", "MCOUNTER_UPDATE", "MCOUNTER_GET"} :
       <<0, 2>> \notin Example[o] /\ <<0, 3>> \in Example[o]
  /\ <<0, 3>> \in Example["EDDSA_SIGN"] /\ <<0, 3>> \in Example["ECC_KEY_READ"]
  /\ \A f \in 1..3 : <<f, 3>> \in Example["ECC_KEY_GENERATE"]
  /\ <<0, 3>> \in Example["RANDOM_VALUE_GET"]
<1>1. {"PING", "ECC_KEY_STORE", "PAIRING_KEY_WRITE", "MCOUNTER_INIT", "MCOUNTER_UPDATE",
       "MCOUNTER_GET", "EDDSA_SIGN", "ECC_KEY_READ", "ECC_KEY_GENERATE", "RANDOM_VALUE_GET"}
      \subseteq Objects
  BY ObjectNames
<1>2. \A o \in Objects : Example[o] = Made(o, Erased[o])
  BY ExampleIs
<1>3. \A o \in {"ECC_KEY_STORE", "PAIRING_KEY_WRITE", "MCOUNTER_INIT", "MCOUNTER_UPDATE",
                "MCOUNTER_GET"} : Erased[o] = AllAccess
  BY <1>1 DEF Erased, Flags
<1>4. /\ Example["PING"] = Erased["PING"] \union To({0}, PairingKeys)
      /\ Example["RANDOM_VALUE_GET"] = Erased["RANDOM_VALUE_GET"] \union To({0}, PairingKeys)
      /\ Example["ECC_KEY_READ"] = Erased["ECC_KEY_READ"] \union AllAccess
      /\ Example["PAIRING_KEY_WRITE"] = {}
  BY <1>1, <1>2, <1>3 DEF Made
<1>5. /\ Example["ECC_KEY_STORE"] = To({0}, {1}) \union To(1..3, {3})
      /\ Example["ECC_KEY_GENERATE"] = (Erased["ECC_KEY_GENERATE"] \ AllAccess) \union To(1..3, {3})
      /\ Example["EDDSA_SIGN"] = (Erased["EDDSA_SIGN"] \ AllAccess) \union To(0..3, {3})
  BY <1>1, <1>2, <1>3 DEF Made
<1>6. \A o \in {"MCOUNTER_INIT", "MCOUNTER_UPDATE", "MCOUNTER_GET"} : Example[o] = To(0..3, {3})
  BY <1>1, <1>2, <1>3 DEF Made
<1>7. /\ \A k \in 1..3 : <<0, k>> \in To({0}, PairingKeys)
      /\ <<0, 3>> \in To({0}, PairingKeys) /\ <<0, 3>> \in AllAccess
  BY DEF To, PairingKeys, AllAccess
<1>8. /\ <<0, 1>> \in To({0}, {1})
      /\ \A f \in 1..3 : <<f, 3>> \in To(1..3, {3})
      /\ <<0, 3>> \in To(0..3, {3}) /\ <<0, 2>> \notin To(0..3, {3})
      /\ \A k \in 2..3 : <<0, k>> \notin To({0}, {1}) /\ <<0, k>> \notin To(1..3, {3})
  BY DEF To
<1> QED BY <1>4, <1>5, <1>6, <1>7, <1>8

\* The answer to a command for the chip.
LEMMA CommandAnswer ==
  ASSUME NEW c, c.op \notin Local \union {"abort", "reboot", "start"}
  PROVE  /\ <<Field(c), session>> \notin applied[Uap(c.op)] => Answer(c) = "LT_L3_UNAUTHORIZED"
         /\ <<Field(c), session>> \in applied[Uap(c.op)] /\ Usable(c) => Answer(c) = "LT_OK"
<1>1. c.op \notin Local \union {"abort", "reboot"} /\ c.op # "start"
  OBVIOUS
<1>2. Answer(c) = IF <<Field(c), session>> \notin applied[Uap(c.op)] THEN "LT_L3_UNAUTHORIZED"
                  ELSE IF Usable(c) THEN "LT_OK" ELSE "LT_L3_FAIL"
  BY <1>1 DEF Answer
<1> QED BY <1>2

\* session_initial gets the answers it must get.
LEMMA InitialAnswers ==
  ASSUME WalletInv, fresh, at \in 1..92
  PROVE  Answer(Program[at]) = Program[at].expect
<1> DEFINE c == Program[at]
<1>1. /\ FreshInv /\ at \in 1..92 /\ \E n \in 0..27 : applied = Prefix(n)
  BY DEF WalletInv, DeviceInv
<1>2. CASE at \in {1, 30, 90, 91, 92}
  <2>1. c.op \in Local \union {"abort", "reboot"} /\ c.expect = "LT_OK"
    BY <1>2, InitialTable, CallFields DEF Local
  <2> HIDE DEF c
  <2>2. Answer(c) = c.expect
    BY <2>1 DEF Answer, Local
  <2> QED BY <2>2 DEF c
<1>3. CASE at = 2
  <2>1. c.op = "start" /\ c.arg = 0 /\ c.expect = "LT_OK"
    BY <1>3, InitialTable, CallFields
  <2>2. keys[0] = "valid"
    BY <1>1, <1>3 DEF FreshInv
  <2> HIDE DEF c
  <2>3. Answer(c) = c.expect
    BY <2>1, <2>2 DEF Answer, Local
  <2> QED BY <2>3 DEF c
<1>4. CASE at \in 3..29 \/ at \in 59..85
  <2>1. c.op = "R_CONFIG_READ" /\ c.expect = "LT_OK"
    BY <1>4, InitialTable, CallFields
  <2>2. session = 0
    BY <1>1, <1>4 DEF FreshInv
  <2>3. <<0, 0>> \in applied["R_CONFIG_READ"]
    BY <1>1, PrefixAccess
  <2> HIDE DEF c
  <2>4. Field(c) = 0 /\ Uap(c.op) = "R_CONFIG_READ" /\ Usable(c)
    BY <2>1 DEF Field, Uap, Usable
  <2>5. Answer(c) = c.expect
    BY <2>1, <2>2, <2>3, <2>4, CommandAnswer DEF Local
  <2> QED BY <2>5 DEF c
<1>5. CASE at \in 31..58
  <2>1. c.op \in {"R_CONFIG_ERASE", "R_CONFIG_WRITE"} /\ c.expect = "LT_OK"
    <3>1. at = 31 \/ at \in 32..58
      BY <1>5
    <3> QED BY <3>1, InitialTable, CallFields
  <2>2. session = 0
    BY <1>1, <1>5 DEF FreshInv
  <2>3. <<0, 0>> \in applied["R_CONFIG_WRITE_ERASE"]
    BY <1>1, PrefixAccess
  <2> HIDE DEF c
  <2>4. Field(c) = 0 /\ Uap(c.op) = "R_CONFIG_WRITE_ERASE" /\ Usable(c)
    BY <2>1 DEF Field, Uap, Usable
  <2>5. Answer(c) = c.expect
    BY <2>1, <2>2, <2>3, <2>4, CommandAnswer DEF Local
  <2> QED BY <2>5 DEF c
<1>6. CASE at \in 86..88
  <2>1. c.op = "PAIRING_KEY_WRITE" /\ c.arg = at - 85 /\ c.expect = "LT_OK"
    BY <1>6, InitialTable, CallFields
  <2>2. session = 0 /\ To(1..3, {0}) \subseteq applied.PAIRING_KEY_WRITE
    BY <1>1, <1>6 DEF FreshInv
  <2>3. at - 85 \in 1..3 /\ at <= (at - 85) + 85
    BY <1>6
  <2>4. keys[at - 85] = "blank"
    BY <1>1, <1>6, <2>3 DEF FreshInv
  <2>5. <<at - 85, 0>> \in applied["PAIRING_KEY_WRITE"]
    BY <2>2, <2>3 DEF To
  <2> HIDE DEF c
  <2>6. Field(c) = at - 85 /\ Uap(c.op) = "PAIRING_KEY_WRITE" /\ Usable(c)
    BY <2>1, <2>4 DEF Field, Uap, Usable
  <2>7. Answer(c) = c.expect
    BY <2>1, <2>2, <2>5, <2>6, CommandAnswer DEF Local
  <2> QED BY <2>7 DEF c
<1>7. CASE at = 89
  <2>1. c.op = "PAIRING_KEY_INVALIDATE" /\ c.arg = 0 /\ c.expect = "LT_OK"
    BY <1>7, InitialTable, CallFields
  <2>2. session = 0
    BY <1>1, <1>7 DEF FreshInv
  <2>3. <<0, 0>> \in applied["PAIRING_KEY_INVALIDATE"]
    BY <1>1, PrefixAccess
  <2> HIDE DEF c
  <2>4. Field(c) = 0 /\ Uap(c.op) = "PAIRING_KEY_INVALIDATE" /\ Usable(c)
    BY <2>1 DEF Field, Uap, Usable
  <2>5. Answer(c) = c.expect
    BY <2>1, <2>2, <2>3, <2>4, CommandAnswer DEF Local
  <2> QED BY <2>5 DEF c
<1> QED BY <1>1, <1>2, <1>3, <1>4, <1>5, <1>6, <1>7

\* Whatever is refused to a session under the example configuration, and whatever is
\* granted to it.
LEMMA RefusedAnswer ==
  ASSUME applied = Example, NEW op, NEW arg,
         op \notin Local \union {"abort", "reboot", "start"},
         <<Field(Refused(op, arg)), session>> \notin Example[Uap(op)]
  PROVE  Answer(Refused(op, arg)) = Refused(op, arg).expect
<1> DEFINE c == Refused(op, arg)
<1>1. c.op = op /\ c.expect = "LT_L3_UNAUTHORIZED"
  BY CallFields
<1> HIDE DEF c
<1>2. Answer(c) = c.expect
  BY <1>1, CommandAnswer DEF c
<1> QED BY <1>2 DEF c

LEMMA GrantedAnswer ==
  ASSUME applied = Example, NEW op, NEW arg,
         op \notin Local \union {"abort", "reboot", "start"},
         <<Field(Ok(op, arg)), session>> \in Example[Uap(op)], Usable(Ok(op, arg))
  PROVE  Answer(Ok(op, arg)) = Ok(op, arg).expect
<1> DEFINE c == Ok(op, arg)
<1>1. c.op = op /\ c.expect = "LT_OK"
  BY CallFields
<1> HIDE DEF c
<1>2. Answer(c) = c.expect
  BY <1>1, CommandAnswer DEF c
<1> QED BY <1>2 DEF c

\* The other sessions get the answers they must get.
LEMMA LaterAnswers ==
  ASSUME WalletInv, fresh, at \in 93..137
  PROVE  Answer(Program[at]) = Program[at].expect
<1> DEFINE c == Program[at]
<1>1. /\ FreshInv /\ applied = Example
      /\ keys[0] = "invalid" /\ keys[1] = "valid" /\ keys[2] = "valid" /\ keys[3] = "valid"
  BY DEF WalletInv, FreshInv, KeysInv, DeviceInv
<1>2. CASE at \in {93, 95, 96, 104, 105, 106, 117, 118, 119, 136, 137}
  <2>1. c.op \in {"init", "deinit", "abort"} /\ c.expect = "LT_OK"
    BY <1>2, LaterTable, CallFields
  <2> HIDE DEF c
  <2>2. Answer(c) = c.expect
    BY <2>1 DEF Answer, Local
  <2> QED BY <2>2 DEF c
<1>3. CASE at \in {94, 97, 107, 120}
  <2>1. /\ c.op = "start" /\ c.arg \in {0, 1, 2, 3}
        /\ c.expect = IF c.arg = 0 THEN "LT_L2_HSK_ERR" ELSE "LT_OK"
    BY <1>3, LaterTable DEF Ok, Call
  <2> HIDE DEF c
  <2>2. Answer(c) = c.expect
    BY <1>1, <2>1 DEF Answer, Local
  <2> QED BY <2>2 DEF c
<1>4. CASE at \in {98, 108, 121}
  <2>1. c = Ok("PING", 0)
    BY <1>4, LaterTable
  <2>2. session \in 1..3
    BY <1>1, <1>4 DEF FreshInv
  <2>3. Field(c) = 0 /\ Usable(c) /\ Uap("PING") = "PING"
    BY <2>1, CallFields DEF Field, Usable, Uap
  <2> HIDE DEF c
  <2>4. Answer(c) = c.expect
    BY <1>1, <2>1, <2>2, <2>3, ExampleAccess, GrantedAnswer DEF Local
  <2> QED BY <2>4 DEF c
<1>5. CASE at = 99
  <2>1. c = Ok("ECC_KEY_STORE", 0)
    BY <1>5, LaterTable
  <2>2. session = 1 /\ 0 \notin ecc
    BY <1>1, <1>5 DEF FreshInv
  <2>3. Field(c) = 0 /\ Usable(c) /\ Uap("ECC_KEY_STORE") = "ECC_KEY_STORE"
    BY <2>1, <2>2, CallFields DEF Field, Usable, Uap
  <2> HIDE DEF c
  <2>4. Answer(c) = c.expect
    BY <1>1, <2>1, <2>2, <2>3, ExampleAccess, GrantedAnswer DEF Local
  <2> QED BY <2>4 DEF c
<1>6. CASE at \in 100..103 \/ at \in 110..113 \/ at \in 132..135
  <2>1. PICK j \in 1..4 : c = Refused("PAIRING_KEY_WRITE", j - 1)
    <3>1. CASE at \in 100..103
      <4>1. at - 99 \in 1..4 /\ (at - 99) + 99 = at
        BY <3>1
      <4> QED BY <4>1, LaterTable
    <3>2. CASE at \in 110..113
      <4>1. at - 109 \in 1..4 /\ (at - 109) + 109 = at
        BY <3>2
      <4> QED BY <4>1, LaterTable
    <3>3. CASE at \in 132..135
      <4>1. at - 131 \in 1..4 /\ (at - 131) + 131 = at
        BY <3>3
      <4> QED BY <4>1, LaterTable
    <3> QED BY <1>6, <3>1, <3>2, <3>3
  <2>2. session \in 1..3
    BY <1>1, <1>6 DEF FreshInv
  <2>3. Field(c) = j - 1 /\ Uap("PAIRING_KEY_WRITE") = "PAIRING_KEY_WRITE"
    BY <2>1, CallFields DEF Field, Uap
  <2> HIDE DEF c
  <2>4. j - 1 \in 0..3
    OBVIOUS
  <2>5. <<Field(c), session>> \notin Example["PAIRING_KEY_WRITE"]
    BY <2>2, <2>3, <2>4, ExampleAccess
  <2>6. Answer(c) = c.expect
    BY <1>1, <2>1, <2>3, <2>5, RefusedAnswer DEF Local
  <2> QED BY <2>6 DEF c
<1>7. CASE at \in {109, 131}
  <2>1. c = Refused("ECC_KEY_STORE", 0)
    BY <1>7, LaterTable
  <2>2. session \in 2..3
    BY <1>1, <1>7 DEF FreshInv
  <2>3. Field(c) = 0 /\ Uap("ECC_KEY_STORE") = "ECC_KEY_STORE"
    BY <2>1, CallFields DEF Field, Uap
  <2> HIDE DEF c
  <2>4. Answer(c) = c.expect
    BY <1>1, <2>1, <2>2, <2>3, ExampleAccess, RefusedAnswer DEF Local
  <2> QED BY <2>4 DEF c
<1>8. CASE at \in 114..116
  <2>1. PICK op \in {"MCOUNTER_INIT", "MCOUNTER_UPDATE", "MCOUNTER_GET"} : c = Refused(op, 0)
    <3>1. at = 114 \/ at = 115 \/ at = 116
      BY <1>8
    <3> QED BY <3>1, LaterTable
  <2>2. session = 2
    BY <1>1, <1>8 DEF FreshInv
  <2>3. Field(c) = 0 /\ Uap(op) = op
    BY <2>1, CallFields DEF Field, Uap
  <2> HIDE DEF c
  <2>4. Answer(c) = c.expect
    BY <1>1, <2>1, <2>2, <2>3, ExampleAccess, RefusedAnswer DEF Local
  <2> QED BY <2>4 DEF c
<1>9. CASE at \in 122..123
  <2>1. PICK op \in {"EDDSA_SIGN", "ECC_KEY_READ"} : c = Ok(op, 0)
    <3>1. at = 122 \/ at = 123
      BY <1>9
    <3> QED BY <3>1, LaterTable
  <2>2. session = 3 /\ 0 \in ecc
    BY <1>1, <1>9 DEF FreshInv
  <2>3. Field(c) = 0 /\ Usable(c) /\ Uap(op) = op
    BY <2>1, <2>2, CallFields DEF Field, Usable, Uap
  <2> HIDE DEF c
  <2>4. Answer(c) = c.expect
    BY <1>1, <2>1, <2>2, <2>3, ExampleAccess, GrantedAnswer DEF Local
  <2> QED BY <2>4 DEF c
<1>10. CASE at \in 124..126
  <2>1. PICK f \in 1..3 : c = Ok("ECC_KEY_GENERATE", 8 * f) /\ 8 * f \notin ecc
    <3>1. CASE at = 124
      <4>1. ecc = {0} /\ c = Ok("ECC_KEY_GENERATE", 8)
        BY <1>1, <3>1, LaterTable DEF FreshInv
      <4> QED BY <4>1
    <3>2. CASE at = 125
      <4>1. ecc = {0, 8} /\ c = Ok("ECC_KEY_GENERATE", 16)
        BY <1>1, <3>2, LaterTable DEF FreshInv
      <4> QED BY <4>1
    <3>3. CASE at = 126
      <4>1. ecc = {0, 8, 16} /\ c = Ok("ECC_KEY_GENERATE", 24)
        BY <1>1, <3>3, LaterTable DEF FreshInv
      <4> QED BY <4>1
    <3> QED BY <1>10, <3>1, <3>2, <3>3
  <2>2. session = 3
    BY <1>1, <1>10 DEF FreshInv
  <2>3. c.op = "ECC_KEY_GENERATE" /\ c.arg = 8 * f
    BY <2>1, CallFields
  <2> HIDE DEF c
  <2>4. Field(c) = (8 * f) \div 8 /\ Usable(c) /\ Uap("ECC_KEY_GENERATE") = "ECC_KEY_GENERATE"
    BY <2>1, <2>3 DEF Field, Usable, Uap
  <2>5. (8 * f) \div 8 = f
    OBVIOUS
  <2>6. Answer(c) = c.expect
    BY <1>1, <2>1, <2>2, <2>4, <2>5, ExampleAccess, GrantedAnswer DEF Local
  <2> QED BY <2>6 DEF c
<1>11. CASE at = 127
  <2>1. c = Ok("RANDOM_VALUE_GET", 0)
    BY <1>11, LaterTable
  <2>2. session = 3
    BY <1>1, <1>11 DEF FreshInv
  <2>3. Field(c) = 0 /\ Usable(c) /\ Uap("RANDOM_VALUE_GET") = "RANDOM_VALUE_GET"
    BY <2>1, CallFields DEF Field, Usable, Uap
  <2> HIDE DEF c
  <2>4. Answer(c) = c.expect
    BY <1>1, <2>1, <2>2, <2>3, ExampleAccess, GrantedAnswer DEF Local
  <2> QED BY <2>4 DEF c
<1>12. CASE at \in 128..130
  <2>1. PICK op \in {"MCOUNTER_INIT", "MCOUNTER_UPDATE", "MCOUNTER_GET"} :
          c = Ok(op, 0) /\ (op # "MCOUNTER_INIT" => 0 \in counters)
    <3>1. at = 128 \/ at = 129 \/ at = 130
      BY <1>12
    <3> QED BY <1>1, <3>1, LaterTable DEF FreshInv
  <2>2. session = 3
    BY <1>1, <1>12 DEF FreshInv
  <2>3. Field(c) = 0 /\ Usable(c) /\ Uap(op) = op
    BY <2>1, CallFields DEF Field, Usable, Uap
  <2> HIDE DEF c
  <2>4. Answer(c) = c.expect
    BY <1>1, <2>1, <2>2, <2>3, ExampleAccess, GrantedAnswer DEF Local
  <2> QED BY <2>4 DEF c
<1>13. \/ at \in {93, 95, 96, 104, 105, 106, 117, 118, 119, 136, 137}
       \/ at \in {94, 97, 107, 120, 98, 108, 121, 99, 109, 131, 127}
       \/ at \in 100..103 \/ at \in 110..113 \/ at \in 132..135 \/ at \in 114..116
       \/ at \in 122..123 \/ at \in 124..126 \/ at \in 128..130
  OBVIOUS
<1> QED BY <1>2, <1>3, <1>4, <1>5, <1>6, <1>7, <1>8, <1>9, <1>10, <1>11, <1>12, <1>13

\* The session a call leaves behind.
LEMMA ExpectedSession ==
  ASSUME WalletInv, ExpectedAnswer
  PROVE  /\ at = 2 => session' = 0
         /\ at = 97 => session' = 1
         /\ at = 107 => session' = 2
         /\ at = 120 => session' = 3
         /\ at \in 3..88 \/ at \in 98..102 \/ at \in 108..115 \/ at \in 121..134 =>
              UNCHANGED session
         /\ session' \in {NoSession} \union PairingKeys
<1> DEFINE c == Program[at]
<1>1. /\ at \in 1..137 /\ session \in {NoSession} \union PairingKeys
      /\ session' = CASE c.op = "start" /\ c.expect = "LT_OK" -> c.arg
                      [] c.op \in {"abort", "reboot"} -> NoSession
                      [] OTHER -> session
  BY ExpectedFacts DEF ExpectedAnswer, WalletInv, WalletTypeOK
<1>2. CASE at \in {2, 97, 107, 120}
  <2>1. /\ c.op = "start" /\ c.expect = "LT_OK" /\ c.arg \in PairingKeys
        /\ at = 2 => c.arg = 0
        /\ at = 97 => c.arg = 1
        /\ at = 107 => c.arg = 2
        /\ at = 120 => c.arg = 3
    BY <1>2, InitialTable, LaterTable DEF Ok, Call, PairingKeys
  <2> HIDE DEF c
  <2> QED BY <1>1, <1>2, <2>1
<1>3. CASE at \in 3..88 \/ at \in 98..102 \/ at \in 108..115 \/ at \in 121..134
  <2>1. c.op \notin {"start", "abort", "reboot"}
    <3>1. CASE at \in 3..88
      <4>1. at \in 3..29 \/ at \in {30, 31} \/ at \in 32..58 \/ at \in 59..85 \/ at \in 86..88
        BY <3>1
      <4>2. PICK op \in {"R_CONFIG_READ", "create", "R_CONFIG_ERASE", "R_CONFIG_WRITE",
                         "PAIRING_KEY_WRITE"} : \E arg : c = Ok(op, arg)
        BY <4>1, InitialTable
      <4> QED BY <4>2, CallFields
    <3>2. CASE at \in 100..102
      <4>1. at - 99 \in 1..4 /\ (at - 99) + 99 = at
        BY <3>2
      <4>2. c = Refused("PAIRING_KEY_WRITE", (at - 99) - 1)
        BY <4>1, LaterTable
      <4> QED BY <4>2, CallFields
    <3>3. CASE at \in 110..113
      <4>1. at - 109 \in 1..4 /\ (at - 109) + 109 = at
        BY <3>3
      <4>2. c = Refused("PAIRING_KEY_WRITE", (at - 109) - 1)
        BY <4>1, LaterTable
      <4> QED BY <4>2, CallFields
    <3>4. CASE at \in 132..134
      <4>1. at - 131 \in 1..4 /\ (at - 131) + 131 = at
        BY <3>4
      <4>2. c = Refused("PAIRING_KEY_WRITE", (at - 131) - 1)
        BY <4>1, LaterTable
      <4> QED BY <4>2, CallFields
    <3>5. CASE at \in {98, 99, 108, 109, 114, 115, 121, 122, 123, 124, 125, 126, 127, 128, 129,
                       130, 131}
      BY <3>5, LaterTable DEF Ok, Refused, Call
    <3> QED BY <1>3, <3>1, <3>2, <3>3, <3>4, <3>5
  <2> HIDE DEF c
  <2>2. UNCHANGED session
    BY <1>1, <2>1
  <2> QED BY <1>1, <1>3, <2>2
<1>4. CASE ~(\/ at \in {2, 97, 107, 120} \/ at \in 3..88 \/ at \in 98..102 \/ at \in 108..115
             \/ at \in 121..134)
  <2>1. c.op = "start" => c.arg \in PairingKeys
    <3>1. CASE at \in 93..137
      BY <3>1, LaterCalls DEF PairingKeys
    <3>2. CASE at \in {1, 89, 90, 91, 92}
      BY <3>2, InitialTable, CallFields
    <3> QED BY <1>1, <1>4, <3>1, <3>2
  <2> HIDE DEF c
  <2>2. session' \in {NoSession} \union PairingKeys
    BY <1>1, <2>1
  <2> QED BY <1>1, <1>4, <2>2
<1> QED BY <1>2, <1>3, <1>4

\* The ECC slots and counters behind session_initial.
LEMMA ExpectedSlots ==
  ASSUME WalletInv, ExpectedAnswer
  PROVE  /\ at \in 89..98 \/ at \in 100..123 => UNCHANGED ecc
         /\ at = 99 => ecc' = ecc \union {0}
         /\ at = 124 => ecc' = ecc \union {8}
         /\ at = 125 => ecc' = ecc \union {16}
         /\ at = 128 => 0 \in counters'
         /\ at \in 129..137 => counters \subseteq counters'
<1> DEFINE c == Program[at]
<1>1. /\ at \in 1..137 /\ (c.expect = "LT_OK" => Effect(c))
      /\ (c.expect # "LT_OK" => UNCHANGED <<ecc, counters>>)
  BY ExpectedFacts DEF device
<1>2. CASE at \in 89..92
  BY <1>2, ExpectedInitial, InitialEffect
<1>3. CASE at \in {93, 94, 95, 96, 97, 98, 104, 105, 106, 107, 108, 109, 114, 115, 116, 117, 118,
                   119, 120, 121, 122, 123}
  <2>1. c.op \notin {"ECC_KEY_STORE", "ECC_KEY_GENERATE"} \/ c.expect # "LT_OK"
    BY <1>3, LaterTable DEF Ok, Refused, Call
  <2> HIDE DEF c
  <2>2. UNCHANGED ecc
    BY <1>1, <2>1 DEF Effect
  <2> QED BY <1>3, <2>2
<1>4. CASE at \in 100..103 \/ at \in 110..113
  <2>1. c.expect # "LT_OK"
    <3>1. CASE at \in 100..103
      <4>1. at - 99 \in 1..4 /\ (at - 99) + 99 = at
        BY <3>1
      <4>2. c = Refused("PAIRING_KEY_WRITE", (at - 99) - 1)
        BY <4>1, LaterTable
      <4> QED BY <4>2, CallFields
    <3>2. CASE at \in 110..113
      <4>1. at - 109 \in 1..4 /\ (at - 109) + 109 = at
        BY <3>2
      <4>2. c = Refused("PAIRING_KEY_WRITE", (at - 109) - 1)
        BY <4>1, LaterTable
      <4> QED BY <4>2, CallFields
    <3> QED BY <1>4, <3>1, <3>2
  <2> HIDE DEF c
  <2> QED BY <1>1, <1>4, <2>1
<1>5. CASE at \in {99, 124, 125, 128}
  <2>1. /\ c.expect = "LT_OK"
        /\ at = 99 => c.op = "ECC_KEY_STORE" /\ c.arg = 0
        /\ at = 124 => c.op = "ECC_KEY_GENERATE" /\ c.arg = 8
        /\ at = 125 => c.op = "ECC_KEY_GENERATE" /\ c.arg = 16
        /\ at = 128 => c.op = "MCOUNTER_INIT" /\ c.arg = 0
    BY <1>5, LaterTable, CallFields
  <2> HIDE DEF c
  <2> QED BY <1>1, <1>5, <2>1 DEF Effect
<1>6. at \in 129..137 => counters \subseteq counters'
  <2> HIDE DEF c
  <2> QED BY <1>1 DEF Effect
<1> QED BY <1>1, <1>2, <1>3, <1>4, <1>5, <1>6

\* A run that may expect to succeed still may.
LEMMA ExpectedFresh == ASSUME WalletInv, fresh, ExpectedAnswer PROVE FreshInv'
<1>1. /\ FreshInv /\ at \in 1..137 /\ (at < 137 => at' = at + 1)
      /\ (at = 137 => at' = 0 /\ result' = 0)
      /\ keys \in [PairingKeys -> {"valid", "blank", "invalid"}]
  BY ExpectedFacts DEF WalletInv, WalletTypeOK
<1>2. (at' = 0 => result' = 0)
  BY <1>1
<1>3. at' \in 1..89 => /\ keys'[0] = "valid" /\ To(1..3, {0}) \subseteq applied'.PAIRING_KEY_WRITE
                       /\ \A k \in 1..3 : at' <= k + 85 => keys'[k] = "blank"
  <2> SUFFICES ASSUME at' \in 1..89
               PROVE  /\ keys'[0] = "valid" /\ To(1..3, {0}) \subseteq applied'.PAIRING_KEY_WRITE
                      /\ \A k \in 1..3 : at' <= k + 85 => keys'[k] = "blank"
    OBVIOUS
  <2>1. at \in 1..88 /\ at' = at + 1
    BY <1>1
  <2>2. /\ keys[0] = "valid" /\ To(1..3, {0}) \subseteq applied.PAIRING_KEY_WRITE
        /\ \A k \in 1..3 : at <= k + 85 => keys[k] = "blank"
    BY <1>1, <2>1 DEF FreshInv
  <2>3. UNCHANGED applied
    BY <2>1, ExpectedInitial, InitialEffect
  <2>4. CASE at \in 86..88
    <3>1. keys' = [keys EXCEPT ![at - 85] = "valid"]
      BY <2>1, <2>4, ExpectedInitial, InitialEffect
    <3> QED BY <1>1, <2>1, <2>2, <2>3, <2>4, <3>1 DEF PairingKeys
  <2>5. CASE at \notin 86..88
    <3>1. UNCHANGED keys
      BY <2>1, <2>5, ExpectedInitial, InitialEffect
    <3> QED BY <2>1, <2>2, <2>3, <3>1
  <2> QED BY <2>4, <2>5
<1>4. /\ at' \in 3..89 => session' = 0
      /\ at' \in 98..103 => session' = 1
      /\ at' \in 108..116 => session' = 2
      /\ at' \in 121..135 => session' = 3
  BY <1>1, ExpectedSession DEF FreshInv
<1>5. at' \in 92..137 => applied' = Example
  <2> SUFFICES ASSUME at' \in 92..137 PROVE applied' = Example
    OBVIOUS
  <2>1. CASE at = 91
    BY <2>1, ExpectedInitial, InitialEffect DEF WalletInv, WrittenInv
  <2>2. CASE at = 92
    BY <1>1, <2>2, ExpectedInitial, InitialEffect DEF FreshInv
  <2>3. CASE at \in 93..136
    BY <1>1, <2>3, ExpectedLater DEF FreshInv
  <2> QED BY <1>1, <2>1, <2>2, <2>3
<1>6. /\ at' \in 90..99 => ecc' = {}
      /\ at' \in 100..124 => ecc' = {0}
      /\ at' = 125 => ecc' = {0, 8}
      /\ at' = 126 => ecc' = {0, 8, 16}
  <2>1. at = 89 => ecc = {}
    BY DEF WalletInv, KeysInv, DeviceInv
  <2>2. /\ at \in 90..99 => ecc = {}
        /\ at \in 100..124 => ecc = {0}
        /\ at = 125 => ecc = {0, 8}
    BY <1>1 DEF FreshInv
  <2> QED BY <1>1, <2>1, <2>2, ExpectedSlots
<1>7. at' \in 129..137 => 0 \in counters'
  BY <1>1, ExpectedSlots DEF FreshInv
<1> QED BY <1>2, <1>3, <1>4, <1>5, <1>6, <1>7 DEF FreshInv

\* All together.
LEMMA ExpectedStep == ASSUME WalletInv, ExpectedAnswer PROVE WalletInv'
<1>1. WalletTypeOK'
  BY ExpectedFacts, ExpectedDevice, ExpectedConfig, ExpectedSession DEF WalletTypeOK
<1>2. fresh' => FreshInv'
  BY ExpectedFacts, ExpectedFresh
<1> QED BY <1>1, <1>2, ExpectedDevice, ExpectedWritten, ExpectedKeys DEF WalletInv

(***************************************************************************)
(* The wallet as a whole.                                                  *)
(***************************************************************************)
\* The invariant holds at first, ...
LEMMA WalletInitInv == WalletInit => WalletInv
<1> SUFFICES ASSUME WalletInit PROVE WalletInv
  OBVIOUS
<1>1. WalletTypeOK
  BY ExampleIs DEF WalletInit, WalletTypeOK
<1>2. DeviceInv
  BY PrefixFacts DEF WalletInit, DeviceInv, PairingKeys
<1> QED BY <1>1, <1>2 DEF WalletInit, WalletInv, WrittenInv, KeysInv

\* ... and every step keeps it.
LEMMA WalletNextInv == ASSUME WalletInv, [WalletNext]_walletVars PROVE WalletInv'
<1>1. CASE lt_ex_hardware_wallet
  <2>1. /\ at' = 1 /\ fresh' = Provisionable
        /\ UNCHANGED <<result, session, r_config, stored, applied, keys, ecc, counters>>
    BY <1>1 DEF lt_ex_hardware_wallet, device
  <2>2. WalletTypeOK' /\ DeviceInv'
    BY <2>1 DEF WalletInv, WalletTypeOK, DeviceInv
  <2>3. WrittenInv' /\ KeysInv'
    BY <2>1 DEF WrittenInv, KeysInv
  <2>4. fresh' => FreshInv'
    <3> SUFFICES ASSUME Provisionable PROVE FreshInv'
      BY <2>1
    <3>1. /\ keys'[0] = "valid" /\ \A k \in 1..3 : keys'[k] = "blank"
          /\ To(1..3, {0}) \subseteq applied'.PAIRING_KEY_WRITE
      BY <2>1 DEF Provisionable, PairingKeys
    <3> QED BY <2>1, <3>1 DEF FreshInv
  <2> QED BY <2>2, <2>3, <2>4 DEF WalletInv
<1>2. CASE ExpectedAnswer
  BY <1>2, ExpectedStep
<1>3. CASE UnexpectedAnswer
  <2>1. ~fresh
    <3>1. at \in 1..92 \/ at \in 93..137
      BY <1>3 DEF UnexpectedAnswer, WalletInv, WalletTypeOK
    <3> QED BY <1>3, <3>1, InitialAnswers, LaterAnswers DEF UnexpectedAnswer
  <2>2. /\ at > 0 /\ GiveUp /\ ~fresh'
        /\ UNCHANGED device \/ (Answer(Program[at]) = "LT_OK" /\ Effect(Program[at]))
    BY <1>3, <2>1 DEF UnexpectedAnswer, progress
  <2> QED BY <2>2, GiveUpStep
<1>4. CASE CallFails
  <2>1. /\ at > 0 /\ GiveUp /\ ~fresh'
        /\ UNCHANGED device \/ (Answer(Program[at]) = "LT_OK" /\ Effect(Program[at]))
    BY <1>4 DEF CallFails
  <2> QED BY <2>1, GiveUpStep
<1>5. CASE PowerFails
  <2>1. /\ at' = 0 /\ session' = NoSession /\ UNCHANGED r_config /\ fresh' = FALSE
        /\ applied' = stored /\ UNCHANGED <<stored, keys, ecc, counters>>
    BY <1>5 DEF PowerFails, GiveUp
  <2>2. WalletTypeOK' /\ DeviceInv'
    BY <2>1 DEF WalletInv, WalletTypeOK, DeviceInv
  <2>3. WrittenInv' /\ KeysInv'
    BY <2>1 DEF WrittenInv, KeysInv
  <2> QED BY <2>1, <2>2, <2>3 DEF WalletInv
<1>6. CASE UNCHANGED walletVars
  <2>1. UNCHANGED <<at, result, session, r_config, stored, applied, keys, ecc, counters, fresh>>
    BY <1>6 DEF walletVars, device, progress
  <2>2. WalletTypeOK' /\ DeviceInv' /\ WrittenInv' /\ KeysInv' /\ (fresh' => FreshInv')
    BY <2>1 DEF WalletInv, WalletTypeOK, DeviceInv, WrittenInv, KeysInv, FreshInv
  <2> QED BY <2>2 DEF WalletInv
<1> QED BY <1>1, <1>2, <1>3, <1>4, <1>5, <1>6 DEF WalletNext

\* What is on the chip, in the host's hands and ahead of a run, at every place of
\* lt_ex_hardware_wallet.
THEOREM WalletInvariance == WalletSpec => []WalletInv
BY WalletInitInv, WalletNextInv, PTL DEF WalletSpec

\* A run on a chip that can be provisioned, without faults, gets every answer it
\* expects, after any number of earlier runs that were cut off anywhere.
THEOREM ProvisioningSucceeds == WalletSpec => []WalletSucceeds
<1>1. WalletInv => WalletSucceeds
  BY DEF WalletInv, FreshInv, WalletSucceeds
<1> QED BY <1>1, WalletInvariance, PTL

\* Pairing key 0 is given up last.
THEOREM KeyZeroKept == WalletSpec => []KeyZeroGoesLast
<1>1. WalletInv => KeyZeroGoesLast
  BY DEF WalletInv, DeviceInv, KeyZeroGoesLast, Example
<1> QED BY <1>1, WalletInvariance, PTL

\* R config is the example configuration up to some object and erased behind it.
THEOREM ConfigPrefix == WalletSpec => []ConfigIsPrefix
<1>1. Len(cfg_desc_table) = 27
  BY DescFacts DEF IsSeq
<1>2. WalletInv => ConfigIsPrefix
  BY <1>1 DEF WalletInv, DeviceInv, Prefix, Example, Desc, ConfigIsPrefix
<1> QED BY <1>2, WalletInvariance, PTL
=============================================================================
