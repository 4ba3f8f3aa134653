---------------------------- MODULE LtL1_proofs ----------------------------
(***************************************************************************)
(* Proofs about LtL1, for every number of tries, every size of the buffer, *)
(* every set of request lengths and every length byte the chip may send.   *)
(***************************************************************************)
EXTENDS LtL1, TLAPS

Afters == {"none", "retry", "LT_OK", "LT_FAIL", "LT_L1_CHIP_ALARM_MODE",
           "LT_L1_DATA_LEN_ERROR"}

TypeOK ==
  /\ at \in {"idle", "csn_low", "status", "header", "body", "csn_high", "delay"}
  /\ fn \in {"none", "read", "write", "update_mode"}
  /\ after \in Afters
  /\ strict \in BOOLEAN
  /\ tries \in Nat /\ polls \in Nat
  /\ span \in Nat \X Nat
  /\ csn \in {"low", "high"}
  /\ resp \in Int /\ resp >= -1

\* After a release that succeeded the line is high until the next selection.
LineInv == at \in {"idle", "delay"} /\ csn = "low" => csnFailed

\* Inside lt_l1_read every try is a selection of the chip, made or still to be
\* made, and a response once taken ends the loop; a release that could be
\* followed by another try is never followed by a return value of its own.
PollInv ==
  /\ at = "csn_low" => tries > 0
  /\ at \in {"header", "delay"} => fn = "read"
  /\ at = "csn_high" /\ after = "retry" => fn = "read" /\ strict
  /\ at # "idle" /\ fn = "read" => polls + tries = MaxTries
  /\ taken => at = "idle" \/ (at = "csn_high" /\ after = "LT_OK")

\* The part of the buffer that a transfer of a response may touch: beyond the check
\* of the length byte it takes a port that checks, or a chip that never sends the
\* one length that passes and does not fit.
Guarded == PortChecks \/ LenMax - 4 \notin RspLens

SpanInv ==
  Guarded =>
    /\ resp \in RspLens \union {-1}
    /\ at = "body" /\ fn = "read" => InBuffer \/ PortChecks
    /\ taken => InBuffer

IInv == TypeOK /\ LineInv /\ PollInv /\ SpanInv /\ BusyMeansPolled

\* The initial states satisfy the inductive invariant.
LEMMA InitInv == L1Init => IInv
BY L1Assumption DEF L1Init, IInv, TypeOK, Afters, LineInv, PollInv, SpanInv, InBuffer, BusyMeansPolled

\* A call starts with all its tries ahead of it and nothing taken.
LEMMA CallStep ==
  ASSUME IInv, NEW f \in {"read", "write", "update_mode"}, Call(f)
  PROVE  IInv'
BY L1Assumption DEF Call, env, IInv, TypeOK, Afters, LineInv, PollInv, SpanInv, InBuffer, BusyMeansPolled

\* A selection uses up a try, whether the port reports it as failed or not.
LEMMA SelectStep == ASSUME IInv, lt_l1_spi_csn_low PROVE IInv'
<1> USE L1Assumption
<1>1. TypeOK'
  BY DEF lt_l1_spi_csn_low, L1Return, env, IInv, TypeOK, Afters, PollInv
<1>2. LineInv' /\ PollInv' /\ SpanInv' /\ BusyMeansPolled'
  BY DEF lt_l1_spi_csn_low, L1Return, env, IInv, TypeOK, Afters, LineInv, PollInv, SpanInv, InBuffer,
         BusyMeansPolled
<1> QED BY <1>1, <1>2 DEF IInv

\* CHIP_STATUS: the call ends, goes on to the header or releases the chip.
LEMMA StatusStep == ASSUME IInv, read_status PROVE IInv'
<1> USE L1Assumption
<1>1. /\ at = "status" /\ at' \in {"csn_high", "header"}
      /\ at' = "header" => fn = "read" /\ after' = after /\ strict' = strict
      /\ at' = "csn_high" => /\ after' \in Afters /\ strict' \in BOOLEAN
                             /\ after' = "retry" => fn = "read" /\ strict'
      /\ span' = <<0, 1>>
      /\ UNCHANGED <<fn, tries, csn, chip, chipMode, resp, polls, taken, csnFailed>>
  BY DEF read_status, Release, check_alarm, save_mode, env, Afters
<1> QED
  BY <1>1 DEF IInv, TypeOK, LineInv, PollInv, SpanInv, InBuffer, BusyMeansPolled

\* The length byte of the chip: all that pass the check but one fit into the buffer.
LEMMA HeaderStep == ASSUME IInv, read_header PROVE IInv'
<1> USE L1Assumption
<1>1. /\ at = "header" /\ at' \in {"csn_high", "body"}
      /\ at' = "csn_high" => /\ after' \in Afters /\ strict' \in BOOLEAN
                             /\ after' = "retry" => strict'
                             /\ span' = <<1, 2>>
      /\ at' = "body" => /\ after' = after /\ strict' = strict
                         /\ resp # -1 /\ resp + 2 <= LenMax - 2
                         /\ span' = <<3, resp + 2>>
      /\ UNCHANGED <<fn, rv, tries, csn, chip, chipMode, resp, polls, taken, csnFailed>>
  BY DEF read_header, Release, env, Afters
<1>2. span' \in Nat \X Nat
  BY <1>1 DEF IInv, TypeOK
<1>3. TypeOK' /\ LineInv' /\ PollInv' /\ BusyMeansPolled'
  BY <1>1, <1>2 DEF IInv, TypeOK, LineInv, PollInv, BusyMeansPolled
<1>4. ~taken'
  BY <1>1 DEF IInv, PollInv
<1>5. ASSUME Guarded, at' = "body" PROVE InBuffer' \/ PortChecks
  <2>1. span' = <<3, resp + 2>> /\ resp \in Int /\ LenMax \in Nat
        /\ resp # -1 /\ resp + 2 <= LenMax - 2
    BY <1>1, <1>5 DEF IInv, TypeOK
  <2>2. span'[1] + span'[2] = 3 + (resp + 2)
    BY <2>1
  <2>3. resp # LenMax - 4 \/ PortChecks
    BY <1>5, <2>1 DEF IInv, SpanInv, Guarded
  <2> QED BY <2>1, <2>2, <2>3 DEF InBuffer
<1>6. Guarded => resp' \in RspLens \union {-1}
  BY <1>1 DEF IInv, SpanInv
<1> QED BY <1>3, <1>4, <1>5, <1>6 DEF IInv, SpanInv

\* The body: a response is taken if the port does not refuse the transfer.
LEMMA BodyStep == ASSUME IInv, transfer_body PROVE IInv'
<1> USE L1Assumption
<1>1. TypeOK'
  <2>1. span' \in Nat \X Nat
    <3>1. \A n \in WriteLens : n \in Nat
      OBVIOUS
    <3> QED BY <3>1 DEF transfer_body, Release, IInv, TypeOK
  <2>2. resp' \in Int /\ resp' >= -1
    BY DEF transfer_body, Release, IInv, TypeOK
  <2> QED
    BY <2>1, <2>2 DEF transfer_body, Release, IInv, TypeOK, Afters
<1>2. LineInv' /\ PollInv' /\ BusyMeansPolled'
  BY DEF transfer_body, Release, IInv, TypeOK, LineInv, PollInv, BusyMeansPolled
<1>3. SpanInv'
  BY DEF transfer_body, Release, IInv, TypeOK, PollInv, SpanInv, InBuffer
<1> QED BY <1>1, <1>2, <1>3 DEF IInv

\* The release of the chip.
LEMMA ReleaseStep == ASSUME IInv, lt_l1_spi_csn_high PROVE IInv'
<1> USE L1Assumption
<1>1. TypeOK'
  BY DEF lt_l1_spi_csn_high, L1Return, env, IInv, TypeOK, Afters
<1>2. LineInv' /\ PollInv' /\ SpanInv' /\ BusyMeansPolled'
  BY DEF lt_l1_spi_csn_high, L1Return, env, IInv, TypeOK, Afters, LineInv, PollInv, SpanInv, InBuffer,
         BusyMeansPolled
<1> QED BY <1>1, <1>2 DEF IInv

\* The delay between two tries: busy is returned when none is left.
LEMMA DelayStep == ASSUME IInv, lt_l1_delay PROVE IInv'
BY L1Assumption
   DEF lt_l1_delay, L1Return, env, IInv, TypeOK, Afters, LineInv, PollInv, SpanInv, InBuffer,
       BusyMeansPolled

\* The chip answers, reboots and raises alarms behind the host's back.
LEMMA ChipStep == ASSUME IInv, ChipAnswers \/ ChipReboots \/ ChipAlarms PROVE IInv'
<1>1. resp' \in Int /\ resp' >= -1
  <2>1. \A n \in RspLens : n \in Int /\ n >= -1
    BY L1Assumption
  <2> QED
    BY <2>1 DEF ChipAnswers, ChipReboots, ChipAlarms
<1>2. UNCHANGED l1Host
  BY DEF ChipAnswers, ChipReboots, ChipAlarms
<1>3. resp' \in RspLens \union {-1}
  BY DEF ChipAnswers, ChipReboots, ChipAlarms
<1> QED
  BY <1>1, <1>2, <1>3 DEF l1Host, IInv, TypeOK, LineInv, PollInv, SpanInv, InBuffer, BusyMeansPolled

\* Every step of host and chip keeps the inductive invariant.
LEMMA NextInv == IInv /\ [L1Next]_l1Vars => IInv'
<1> SUFFICES ASSUME IInv, [L1Next]_l1Vars PROVE IInv'
  OBVIOUS
<1>1. CASE lt_l1_read \/ lt_l1_write \/ lt_update_mode
  BY <1>1, CallStep DEF lt_l1_read, lt_l1_write, lt_update_mode
<1>2. CASE L1HostStep
  BY <1>2, SelectStep, StatusStep, HeaderStep, BodyStep, ReleaseStep, DelayStep
     DEF L1HostStep
<1>3. CASE ChipAnswers \/ ChipReboots \/ ChipAlarms
  BY <1>3, ChipStep
<1>4. CASE UNCHANGED l1Vars
  BY <1>4 DEF l1Vars, env, IInv, TypeOK, LineInv, PollInv, SpanInv, InBuffer, BusyMeansPolled
<1> QED BY <1>1, <1>2, <1>3, <1>4 DEF L1Next

\* The inductive invariant holds in every behaviour of layer 1.
THEOREM Invariance == L1Spec => []IInv
BY InitInv, NextInv, PTL DEF L1Spec

\* lt_l1_read, lt_l1_write and lt_update_mode never return with the chip
\* selected, unless the port failed on CSN itself.
THEOREM Deselects == L1Spec => []CsnReleased
<1>1. IInv => CsnReleased
  BY DEF IInv, LineInv, CsnReleased
<1> QED BY Invariance, <1>1, PTL

\* LT_L1_CHIP_BUSY means that the chip was selected MaxTries times, whatever
\* the number of tries, and that no response was lost.
THEOREM BusyIsHonest == L1Spec => []BusyMeansPolled
<1>1. IInv => BusyMeansPolled
  BY DEF IInv
<1> QED BY Invariance, <1>1, PTL

\* With a port that checks lengths itself, whatever the chip sends, and with any port,
\* if the chip never sends the length byte LenMax - 4, no response leaves the buffer.
\* Without either it does (run l1_length).
THEOREM TransferBounded ==
  PortChecks \/ LenMax - 4 \notin RspLens => (L1Spec => []TransferInBuffer)
<1> SUFFICES ASSUME Guarded PROVE L1Spec => []TransferInBuffer
  BY DEF Guarded
<1>1. IInv => TransferInBuffer
  BY DEF IInv, SpanInv, TransferInBuffer
<1> QED BY Invariance, <1>1, PTL

\* The types of layer 1.
THEOREM TypeCorrect == L1Spec => []TypeOK
<1>1. IInv => TypeOK
  BY DEF IInv
<1> QED BY Invariance, <1>1, PTL
=============================================================================
