-------------------------- MODULE LtMacAndDestroy --------------------------
(***************************************************************************)
(* The PIN engine of lt_ex_macandd.c: lt_PIN_set, lt_PIN_check and         *)
(* lt_ex_macandd, command by command.  Any command may fail before or      *)
(* after the chip carried it out, and the host may lose power between two  *)
(* commands; M&D slots and the R-memory slot survive.  Key derivation is   *)
(* symbolic: a derived value is the tuple of what it is derived from.      *)
(***************************************************************************)
EXTENDS Integers

CONSTANTS
  MACANDD_ROUNDS,
  PINs,           \* PIN and additional data, taken together
  ExPin, ExWrong, \* the two PINs of lt_ex_macandd
  MaxSets,        \* bound: calls of lt_PIN_set, hence random secrets s
  MaxChecks,      \* bound: calls of lt_PIN_check
  MaxFaults       \* bound: failed commands and losses of power

ASSUME MacAndDestroyAssumption ==
  /\ MACANDD_ROUNDS \in 1..12 /\ ExPin \in PINs /\ ExWrong \in PINs \ {ExPin}
  /\ MaxSets \in Nat /\ MaxChecks \in Nat /\ MaxFaults \in Nat

VARIABLES
  pc, ret,
  fn, pin,        \* function under way, or the last one, and its PIN
  s, nvm, w, x,   \* locals: secret, struct lt_macandd_nvm_t, w or w', loop index
  secret,         \* the caller's buffer
  slot, rmem,     \* chip: M&D slots, slot R_MEM_DATA_SLOT_MACANDD
  ex,             \* lt_ex_macandd: calls made, or one of the values below
  sets, checks, faults,
  set,            \* history: the PIN with which each secret was set
  tries,          \* history: guesses of a PIN since a secret was set or released
  released        \* history: has a check released the stored secret since it was set?

locals == <<s, nvm, w, x>>
chip == <<slot, rmem>>
counts == <<sets, checks, set>>
hist == <<tries, released>>
vars == <<pc, ret, fn, pin, locals, secret, chip, faults, counts, ex, hist>>

NotRunning == -1   \* of ex: the application calls lt_PIN_set and lt_PIN_check
ReturnedError == -2

Slots == 0..(MACANDD_ROUNDS - 1)
None == 0          \* zeroes
Garbage == -1      \* what a wrong key decrypts to

u(secretS) == <<"u", secretS>>                 \* KDF(s, "1")
v(p) == <<"v", p>>                             \* KDF(0, PIN||A)

\* c_i = KDF(w, PIN||A) xor s, and back.
Encrypt(key, p, m) == [key |-> key, pin |-> p, m |-> m]
Decrypt(c, key, p) == IF c.key = key /\ c.pin = p THEN c.m ELSE Garbage

NoNvm == [i |-> 0, ci |-> [j \in Slots |-> Encrypt(<<>>, <<>>, None)], t |-> None]
Empty == [NoNvm EXCEPT !.i = -1]              \* an erased R-memory slot

Init ==
  /\ pc = "idle" /\ ret = "none" /\ fn = "none" /\ pin \in PINs
  /\ s = None /\ nvm = NoNvm /\ w = <<>> /\ x = 0 /\ secret = None
  /\ slot = [j \in Slots |-> <<>>] /\ rmem = Empty
  /\ ex \in {NotRunning, 0}
  /\ sets = 0 /\ checks = 0 /\ faults = 0 /\ tries = 0 /\ released = FALSE
  /\ set = [n \in 1..MaxSets |-> None]

(***************************************************************************)
(* Commands.  The chip carries out the command and answers, or the call    *)
(* fails and nobody knows whether it was carried out; then the function    *)
(* goes to exit.                                                           *)
(***************************************************************************)
Return(r) == pc' = "idle" /\ ret' = r

Fault == faults < MaxFaults /\ faults' = faults + 1

\* effect: what the command does to the chip; then: the rest of the step.
Command(at, effect, then) ==
  /\ pc = at
  /\ \/ effect /\ then /\ UNCHANGED faults
     \/ /\ Fault /\ (effect \/ UNCHANGED chip)
        /\ Return("LT_FAIL_LINK") /\ UNCHANGED <<locals, secret>>
  /\ UNCHANGED <<fn, pin, counts, ex>>

Go(next) == pc' = next /\ UNCHANGED <<ret, secret>>

Erase == rmem' = Empty /\ UNCHANGED slot
Write(d) == rmem' = d /\ UNCHANGED slot
\* The answer depends on the slot and on the input, which replaces the slot.
MacAndDestroy(j, in) == slot' = [slot EXCEPT ![j] = in] /\ UNCHANGED rmem
answer(j, in) == <<slot[j], in>>

PowerLoss ==
  /\ pc # "idle" /\ Fault
  /\ pc' = "idle" /\ ret' = "none" /\ secret' = None
  /\ ex' = IF ex = NotRunning THEN ex ELSE ReturnedError
  /\ UNCHANGED <<fn, pin, locals, chip, counts, hist>>

(***************************************************************************)
(* lt_PIN_set.                                                             *)
(***************************************************************************)
\* Up to lt_random_bytes; all of nvm but ci is computed from s.
Begin_set(p) ==
  /\ sets < MaxSets /\ sets' = sets + 1
  /\ fn' = "set" /\ pin' = p /\ secret' = None
  /\ s' = sets' /\ nvm' = [NoNvm EXCEPT !.i = MACANDD_ROUNDS, !.t = sets'] /\ x' = 0
  /\ set' = [set EXCEPT ![sets'] = p]
  /\ pc' = "set_erase" /\ UNCHANGED <<ret, w, chip, faults, checks, hist>>

set_erase ==
  Command("set_erase", Erase, Go("set_u") /\ UNCHANGED locals) /\ UNCHANGED hist

\* The loop over the slots: u, v, u again, then c_i.
set_u ==
  Command("set_u", MacAndDestroy(x, u(s)), Go("set_v") /\ UNCHANGED locals) /\ UNCHANGED hist

set_v ==
  /\ Command("set_v", MacAndDestroy(x, v(pin)),
             Go("set_u2") /\ w' = answer(x, v(pin)) /\ UNCHANGED <<s, nvm, x>>)
  /\ UNCHANGED hist

\* A variant for mutation: the slot is left as the guess with v made it.
set_u2_left_out ==
  /\ Command("set_u2", UNCHANGED chip,
             /\ Go(IF x + 1 < nvm.i THEN "set_u" ELSE "set_write")
             /\ nvm' = [nvm EXCEPT !.ci[x] = Encrypt(w, pin, s)] /\ x' = x + 1
             /\ UNCHANGED <<s, w>>)
  /\ UNCHANGED hist

set_u2 ==
  /\ Command("set_u2", MacAndDestroy(x, u(s)),
             /\ Go(IF x + 1 < nvm.i THEN "set_u" ELSE "set_write")
             /\ nvm' = [nvm EXCEPT !.ci[x] = Encrypt(w, pin, s)] /\ x' = x + 1
             /\ UNCHANGED <<s, w>>)
  /\ UNCHANGED hist

\* The last command; the secret is released and local data are cleared.
set_write ==
  /\ Command("set_write", Write(nvm),
             Return("LT_OK") /\ secret' = s /\ UNCHANGED locals)
  /\ IF rmem' # rmem THEN tries' = 0 /\ released' = FALSE ELSE UNCHANGED hist

(***************************************************************************)
(* lt_PIN_check.                                                           *)
(***************************************************************************)
Begin_check(p) ==
  /\ checks < MaxChecks /\ checks' = checks + 1
  /\ fn' = "check" /\ pin' = p /\ secret' = None
  /\ s' = None /\ nvm' = NoNvm /\ w' = <<>> /\ x' = 0
  /\ pc' = "read" /\ UNCHANGED <<ret, chip, faults, sets, set, hist>>

\* An empty slot is an error; with nvm.i = 0 the function ends with the LT_OK of
\* the read and without a secret.
read ==
  /\ Command("read", UNCHANGED chip,
             /\ UNCHANGED <<secret, s, w, x>>
             /\ \/ /\ rmem = Empty
                   /\ Return("LT_L3_R_MEM_DATA_READ_SLOT_EMPTY") /\ UNCHANGED nvm
                \/ /\ rmem # Empty /\ rmem.i = 0
                   /\ Return("LT_OK") /\ nvm' = rmem
                \/ /\ rmem # Empty /\ rmem.i # 0
                   /\ nvm' = [rmem EXCEPT !.i = @ - 1]
                   /\ pc' = "erase" /\ UNCHANGED ret)
  /\ UNCHANGED hist

erase == Command("erase", Erase, Go("write") /\ UNCHANGED locals) /\ UNCHANGED hist

\* A variant for mutation: the counter is decremented after it was stored.
write_undecremented ==
  /\ Command("write", Write([nvm EXCEPT !.i = @ + 1]), Go("guess") /\ UNCHANGED locals)
  /\ UNCHANGED hist

write == Command("write", Write(nvm), Go("guess") /\ UNCHANGED locals) /\ UNCHANGED hist

\* A variant for mutation: the slots up to MACANDD_ROUNDS - 3.
reinit_end_short == MACANDD_ROUNDS - 2

\* The loop runs while x < MACANDD_ROUNDS - 1: not for the last slot.
reinit_end == MACANDD_ROUNDS - 1

AfterTag == IF nvm.i < reinit_end THEN "reinit" ELSE "erase2"

\* A variant for mutation: the tag is not compared.
tag_ignored(s_) == Go(AfterTag)

tag_compare(s_) == IF s_ = nvm.t THEN Go(AfterTag) ELSE Return("LT_FAIL") /\ UNCHANGED secret

\* w' = MACANDD(i, v'), then s' from c_i, and its tag against t.
guess ==
  /\ Command("guess", MacAndDestroy(nvm.i, v(pin)),
             LET s_ == Decrypt(nvm.ci[nvm.i], answer(nvm.i, v(pin)), pin)
             IN /\ s' = s_ /\ w' = answer(nvm.i, v(pin)) /\ x' = nvm.i /\ UNCHANGED nvm
                /\ tag_compare(s_))
  /\ tries' = tries + 1 /\ UNCHANGED released

reinit ==
  /\ Command("reinit", MacAndDestroy(x, u(s)),
             /\ Go(IF x + 1 < reinit_end THEN "reinit" ELSE "erase2")
             /\ x' = x + 1 /\ UNCHANGED <<s, nvm, w>>)
  /\ UNCHANGED hist

erase2 ==
  /\ Command("erase2", Erase,
             Go("write2") /\ nvm' = [nvm EXCEPT !.i = MACANDD_ROUNDS] /\ UNCHANGED <<s, w, x>>)
  /\ UNCHANGED hist

write2 ==
  /\ Command("write2", Write(nvm), Return("LT_OK") /\ secret' = s /\ UNCHANGED locals)
  /\ IF rmem' # rmem THEN tries' = 0 /\ released' = TRUE ELSE UNCHANGED hist

(***************************************************************************)
(* Who calls: an application, with any PIN in any order, or lt_ex_macandd, *)
(* which sets a PIN, gives a wrong one MACANDD_ROUNDS - 1 times, then the  *)
(* right one, and gives up at the first answer it does not expect.         *)
(***************************************************************************)
Application ==
  /\ pc = "idle" /\ ex = NotRunning /\ UNCHANGED ex
  /\ \E p \in PINs : Begin_set(p) \/ Begin_check(p)

Expected ==
  \/ ex = 0
  \/ ex \in {1, MACANDD_ROUNDS + 1} /\ ret = "LT_OK"
  \/ ex \in 2..MACANDD_ROUNDS /\ ret = "LT_FAIL"

lt_ex_macandd ==
  /\ pc = "idle" /\ ex >= 0 /\ Expected
  /\ \/ ex = 0 /\ Begin_set(ExPin) /\ ex' = 1
     \/ ex \in 1..(MACANDD_ROUNDS - 1) /\ Begin_check(ExWrong) /\ ex' = ex + 1
     \/ ex = MACANDD_ROUNDS /\ Begin_check(ExPin) /\ ex' = ex + 1
     \/ /\ ex = MACANDD_ROUNDS + 1 /\ ex' = NotRunning
        /\ UNCHANGED <<pc, ret, fn, pin, locals, secret, chip, faults, counts, hist>>

lt_ex_macandd_fails ==
  /\ pc = "idle" /\ ex >= 0 /\ ~Expected /\ ex' = ReturnedError
  /\ UNCHANGED <<pc, ret, fn, pin, locals, secret, chip, faults, counts, hist>>

PIN_set == set_erase \/ set_u \/ set_v \/ set_u2 \/ set_write
PIN_check == read \/ erase \/ write \/ guess \/ reinit \/ erase2 \/ write2

Next ==
  \/ Application \/ lt_ex_macandd \/ lt_ex_macandd_fails
  \/ PIN_set \/ PIN_check \/ PowerLoss

Spec == Init /\ [][Next]_vars

(***************************************************************************)
(* Properties.                                                             *)
(***************************************************************************)

\* What lt_PIN_check gives: a secret comes with LT_OK, only for the PIN it was
\* set with, and it is the one stored now; as long as tries are left, LT_OK comes
\* with the secret.
CheckVerdict ==
  pc = "idle" /\ fn = "check" =>
    /\ secret # None => ret = "LT_OK" /\ secret = rmem.t /\ set[secret] = pin
    /\ ret = "LT_OK" /\ rmem.i > 0 => secret # None

\* What the comments on lt_PIN_check promise of its return value, tries left or
\* not: LT_OK if the PIN is correct, LT_FAIL with no attempts remaining.
OkMeansCorrect ==
  pc = "idle" /\ fn = "check" /\ ret = "LT_OK" => secret # None /\ set[secret] = pin

\* From setting a PIN, or releasing the secret, to the next time either happens,
\* lt_PIN_check sends at most MACANDD_ROUNDS guesses to the chip, wherever
\* commands fail and power is lost: a guess is paid for before it is made.
TriesBounded == tries <= MACANDD_ROUNDS

\* Every slot below the stored counter is ready to check the PIN of the stored
\* secret, whatever was interrupted: all of them until a check succeeds, and those
\* below the last one ever after.
SlotsReady ==
  rmem # Empty =>
    \A j \in 0..(rmem.i - 1) :
      j < MACANDD_ROUNDS - 1 \/ ~released => slot[j] = u(rmem.t)

\* What the comments promise of a correct PIN: the slots are initialised again, so
\* that every try the stored counter counts can check the PIN.
SlotsReinitialized ==
  rmem # Empty => \A j \in 0..(rmem.i - 1) : slot[j] = u(rmem.t)

\* Without faults lt_ex_macandd gets every answer it expects: the last try, in
\* slot 0, still releases the secret.
ExampleSucceeds == ex = ReturnedError => faults > 0
=============================================================================
