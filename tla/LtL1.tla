------------------------------- MODULE LtL1 -------------------------------
(***************************************************************************)
(* Layer 1: lt_l1_read, lt_l1_write and lt_update_mode over a port whose   *)
(* every operation may fail, against a chip that is busy, becomes ready,   *)
(* reboots or raises an alarm at any time.  One step per port operation.   *)
(***************************************************************************)
EXTENDS Integers

CONSTANTS
  MaxTries,   \* LT_L1_READ_MAX_TRIES (50)
  LenMax,     \* LT_L1_LEN_MAX, the size of s2->buff (257)
  PortChecks, \* does lt_port_spi_transfer refuse what does not fit into s2->buff?
  WriteLens,  \* lengths of the requests the host writes
  RspLens     \* values the chip may send as the length of a response

ASSUME L1Assumption ==
  /\ MaxTries \in Nat \ {0}
  /\ LenMax \in Nat
  /\ PortChecks \in BOOLEAN
  /\ WriteLens \subseteq 1..LenMax
  /\ RspLens \subseteq 0..255

VARIABLES
  at, fn, rv,   \* next port operation, function running or last run, result
  tries,         \* max_tries of lt_l1_read
  after,         \* what follows the release of CSN: "retry" or a return value
  strict,        \* is a failure of that release returned?
  mode,          \* s2->mode
  status,        \* CHIP_STATUS bits in s2->buff[0]
  span,          \* first byte and length of the last transfer into s2->buff
  csn,           \* chip select line
  chip, chipMode, \* "busy", "ready" or "alarm"; firmware that is running
  resp,          \* length of the response the chip offers, -1: none
  polls, taken,  \* in this call: selections of the chip, response read out
  csnFailed      \* did the last operation on CSN fail?

env  == <<chip, chipMode, resp>>
l1Vars == <<at, fn, rv, tries, after, strict, mode, status, span, csn, env,
          polls, taken, csnFailed>>

L1Init ==
  /\ at = "idle" /\ fn = "none" /\ rv = "none" /\ tries = 0
  /\ after = "none" /\ strict = TRUE
  /\ mode = "APP" /\ status = {} /\ span = <<0, 0>> /\ csn = "high"
  /\ chip = "ready" /\ chipMode \in {"APP", "MAINTENANCE"} /\ resp = -1
  /\ polls = 0 /\ taken = FALSE /\ csnFailed = FALSE

L1Return(r) == at' = "idle" /\ rv' = r

\* Go on to csn_high(); then return r (or poll again).  Error paths ignore
\* what csn_high() returns.
Release(r, s) == at' = "csn_high" /\ after' = r /\ strict' = s

\* CHIP_STATUS as the chip sends it in the first byte of a selection.
ChipStatus ==
  {b \in {"READY", "ALARM", "STARTUP"} :
     \/ b = "READY" /\ chip = "ready"
     \/ b = "ALARM" /\ chip = "alarm"
     \/ b = "STARTUP" /\ chipMode = "MAINTENANCE"}

ModeOf(s) == IF "STARTUP" \in s THEN "MAINTENANCE" ELSE "APP"

(***************************************************************************)
(* The host.                                                               *)
(***************************************************************************)
Call(f) ==
  /\ at = "idle"
  /\ fn' = f
  /\ at' = "csn_low"
  /\ tries' = IF f = "read" THEN MaxTries ELSE 1
  /\ polls' = 0 /\ taken' = FALSE
  /\ UNCHANGED <<rv, after, strict, mode, status, span, csn, env, csnFailed>>

lt_l1_read == Call("read")
lt_l1_write == Call("write")
lt_update_mode == Call("update_mode")

\* A variant for mutation: a poll that is not counted.
csn_low_uncounted ==
  /\ at = "csn_low"
  /\ \/ L1Return("LT_FAIL") /\ csn' \in {csn, "low"} /\ csnFailed' = TRUE
     \/ /\ csn' = "low" /\ csnFailed' = FALSE
        /\ at' = IF fn = "write" THEN "body" ELSE "status"
        /\ UNCHANGED rv
  /\ UNCHANGED <<fn, tries, after, strict, mode, status, span, env, polls, taken>>

\* An operation of the port that fails may have moved the line or not.
lt_l1_spi_csn_low ==
  /\ at = "csn_low"
  /\ tries' = tries - 1
  /\ \/ /\ L1Return("LT_FAIL") /\ csn' \in {csn, "low"} /\ csnFailed' = TRUE
        /\ UNCHANGED polls
     \/ /\ csn' = "low" /\ csnFailed' = FALSE
        /\ polls' = polls + 1
        /\ at' = IF fn = "write" THEN "body" ELSE "status"
        /\ UNCHANGED rv
  /\ UNCHANGED <<fn, after, strict, mode, status, span, env, taken>>

\* A variant for mutation: the ALARM test returns with the chip selected.
alarm_without_release ==
  /\ "ALARM" \in ChipStatus
  /\ L1Return("LT_L1_CHIP_ALARM_MODE") /\ UNCHANGED <<mode, after, strict>>

check_alarm ==
  /\ "ALARM" \in ChipStatus
  /\ Release("LT_L1_CHIP_ALARM_MODE", FALSE) /\ UNCHANGED <<mode, rv>>

save_mode ==
  /\ "ALARM" \notin ChipStatus
  /\ mode' = ModeOf(ChipStatus)
  /\ IF "READY" \in ChipStatus
       THEN at' = "header" /\ UNCHANGED <<after, strict>>
       ELSE Release("retry", TRUE)
  /\ UNCHANGED rv

\* First byte: lt_l1_spi_transfer(s2, 0, 1, ...).
read_status ==
  /\ at = "status"
  /\ span' = <<0, 1>>
  /\ \/ Release("LT_FAIL", FALSE) /\ UNCHANGED <<mode, status, rv>>
     \/ /\ status' = ChipStatus
        /\ \/ fn = "update_mode" /\ Release("LT_OK", TRUE) /\ UNCHANGED <<mode, rv>>
           \/ fn = "read" /\ (check_alarm \/ save_mode)
  /\ UNCHANGED <<fn, tries, csn, env, polls, taken, csnFailed>>

\* A variant for mutation: the length byte of the chip is not checked.
header_unchecked ==
  /\ at = "header"
  /\ \/ span' = <<1, 2>> /\ Release("LT_FAIL", FALSE)
     \/ span' = <<1, 2>> /\ resp = -1 /\ Release("retry", TRUE)
     \/ /\ resp # -1 /\ span' = <<3, resp + 2>>
        /\ at' = "body" /\ UNCHANGED <<after, strict>>
  /\ UNCHANGED <<fn, rv, tries, mode, status, csn, env, polls, taken, csnFailed>>

\* STATUS and length: 0xff means that there is no response yet.
read_header ==
  /\ at = "header"
  /\ \/ span' = <<1, 2>> /\ Release("LT_FAIL", FALSE)
     \/ span' = <<1, 2>> /\ resp = -1 /\ Release("retry", TRUE)
     \/ /\ resp # -1 /\ resp + 2 > LenMax - 2
        /\ span' = <<1, 2>> /\ Release("LT_L1_DATA_LEN_ERROR", FALSE)
     \/ /\ resp # -1 /\ resp + 2 <= LenMax - 2
        /\ span' = <<3, resp + 2>>
        /\ at' = "body" /\ UNCHANGED <<after, strict>>
  /\ UNCHANGED <<fn, rv, tries, mode, status, csn, env, polls, taken, csnFailed>>

\* The test of the ports that have one.
InBuffer == span[1] + span[2] <= LenMax

\* The rest of a response, or a whole request (SPI shifts CHIP_STATUS into the
\* first byte of the buffer meanwhile).  The ports for STM32, TCP and the USB
\* dongle compare the end of the transfer with LT_L1_LEN_MAX, the one for Linux
\* SPI does not; each of them may fail.
transfer_body ==
  /\ at = "body"
  /\ \/ /\ Release("LT_FAIL", FALSE) /\ UNCHANGED <<status, span, chip, resp, taken>>
     \/ /\ fn = "read" /\ (PortChecks => InBuffer)
        /\ taken' = TRUE /\ resp' = -1
        /\ Release("LT_OK", TRUE) /\ UNCHANGED <<status, span, chip>>
     \/ /\ fn = "write"
        /\ \E n \in WriteLens : span' = <<0, n>>
        /\ status' = ChipStatus
        /\ chip' = IF chip = "alarm" THEN chip ELSE "busy"
        /\ resp' = -1
        /\ Release("LT_OK", TRUE) /\ UNCHANGED taken
  /\ UNCHANGED <<fn, rv, tries, mode, csn, chipMode, polls, csnFailed>>

lt_l1_spi_csn_high ==
  /\ at = "csn_high"
  /\ \/ /\ csn' = "high" /\ csnFailed' = FALSE
        /\ IF after = "retry" THEN at' = "delay" /\ UNCHANGED rv ELSE L1Return(after)
        /\ mode' = IF fn = "update_mode" /\ after = "LT_OK" THEN ModeOf(status) ELSE mode
     \/ /\ csnFailed' = TRUE /\ csn' \in {csn, "high"}
        /\ L1Return(IF strict THEN "LT_FAIL" ELSE after)
        /\ UNCHANGED mode
  /\ UNCHANGED <<fn, tries, after, strict, status, span, env, polls, taken>>

\* A variant for mutation: the loop gives up one round early.
gives_up_early ==
  /\ at = "delay"
  /\ \/ L1Return("LT_FAIL")
     \/ tries <= 1 /\ L1Return("LT_L1_CHIP_BUSY")
     \/ tries > 1 /\ at' = "csn_low" /\ UNCHANGED rv
  /\ UNCHANGED <<fn, tries, after, strict, mode, status, span, csn, env, polls,
                 taken, csnFailed>>

lt_l1_delay ==
  /\ at = "delay"
  /\ \/ L1Return("LT_FAIL")
     \/ tries = 0 /\ L1Return("LT_L1_CHIP_BUSY")
     \/ tries > 0 /\ at' = "csn_low" /\ UNCHANGED rv
  /\ UNCHANGED <<fn, tries, after, strict, mode, status, span, csn, env, polls,
                 taken, csnFailed>>

(***************************************************************************)
(* The chip, as the polling loop expects it.                               *)
(***************************************************************************)
l1Host == <<at, fn, rv, tries, after, strict, mode, status, span, csn, polls,
          taken, csnFailed>>

ChipAnswers == /\ chip = "busy" /\ chip' = "ready" /\ resp' \in RspLens \union {-1}
               /\ UNCHANGED <<l1Host, chipMode>>
ChipReboots == /\ chip' = "busy" /\ chipMode' \in {"APP", "MAINTENANCE"} /\ resp' = -1
               /\ UNCHANGED l1Host
ChipAlarms  == /\ chip' = "alarm" /\ resp' = -1
               /\ UNCHANGED <<l1Host, chipMode>>

L1HostStep ==
  \/ lt_l1_spi_csn_low \/ read_status \/ read_header \/ transfer_body
  \/ lt_l1_spi_csn_high \/ lt_l1_delay

L1Next == lt_l1_read \/ lt_l1_write \/ lt_update_mode \/ L1HostStep
        \/ ChipAnswers \/ ChipReboots \/ ChipAlarms

\* A function of the library runs until it returns; nothing makes the
\* application call it, the chip answer or the port succeed.
L1Spec == L1Init /\ [][L1Next]_l1Vars /\ WF_l1Vars(L1HostStep)

(***************************************************************************)
(* Properties.                                                             *)
(***************************************************************************)
\* Whichever way lt_l1_read, lt_l1_write or lt_update_mode leaves - success,
\* alarm, bad length, failed transfer, tries used up - the chip is deselected,
\* unless the last operation on CSN itself was reported as failed.
CsnReleased == at = "idle" /\ csn = "low" => csnFailed

\* lt_l1_read gives up with LT_L1_CHIP_BUSY only after LT_L1_READ_MAX_TRIES
\* selections of the chip, and never after it took a response out of it.
BusyMeansPolled ==
  at = "idle" /\ rv = "LT_L1_CHIP_BUSY" /\ fn = "read" => polls = MaxTries /\ ~taken

\* A response stays inside the LT_L1_LEN_MAX bytes of s2->buff: the length byte
\* of the chip, which lt_l1_read checks, makes no port move bytes behind it.  A port
\* that does not check by itself moves what it is asked for.
TransferInBuffer ==
  fn = "read" /\ (taken \/ (at = "body" /\ ~PortChecks)) => InBuffer

\* The bounded polling loop: every call of layer 1 returns, even if the chip
\* stays busy for ever.
CallReturns == at # "idle" ~> at = "idle"
=============================================================================
