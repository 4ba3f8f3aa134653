------------------------------- MODULE LtL2 -------------------------------
(***************************************************************************)
(* Layer 2, one request and its response: lt_l2_send and lt_l2_receive with*)
(* the loop of lt_l2_resend_response.  Frames are damaged in both          *)
(* directions, writes and reads of layer 1 fail before or after they took  *)
(* effect, and the chip answers, refuses or resets in between.             *)
(***************************************************************************)
EXTENDS Naturals

CONSTANTS
  MaxReqs,      \* bound: requests the upper layers send
  DropsUnread,  \* does a new request make the chip discard an unread response?
  KeepsErrors   \* is an error response, too, a "last response" to resend?

ASSUME L2Assumption ==
  MaxReqs \in Nat /\ DropsUnread \in BOOLEAN /\ KeepsErrors \in BOOLEAN

VARIABLES
  pc, ret,     \* where the host is, result of the last call
  req,         \* number of the request in progress
  i,           \* resends made by this lt_l2_receive
  buff,        \* frame in s2->buff
  inbox,       \* request in the chip, not yet handled
  out, last,   \* response to be read, last response sent
  executed, runs, answered   \* requests carried out, how often; answered with LT_OK

host == <<pc, ret, req, i, buff, answered>>
vars == <<host, inbox, out, last, executed, runs>>

Statuses == {"REQUEST_OK", "REQUEST_CONT", "CRC_ERR", "GEN_ERR", "NO_RESP"}
Codes == {"LT_OK", "LT_L2_IN_CRC_ERR", "LT_L2_REQ_CONT", "LT_L2_CRC_ERR",
          "LT_L2_GEN_ERR", "LT_L2_NO_RESP"}
\* A response: its STATUS, the request it answers, is its CRC right?
Frame   == [st : Statuses \union {"none"}, to : Nat, crc : BOOLEAN]
Request == [t : {"req", "resend", "garbled", "none"}, id : Nat]
NoFrame == [st |-> "none", to |-> 0, crc |-> TRUE]
NoReq   == [t |-> "none", id |-> 0]
Rsp(s, n) == [st |-> s, to |-> n, crc |-> TRUE]

Init ==
  /\ pc = "idle" /\ ret = "none" /\ req = 0 /\ i = 0 /\ buff = NoFrame
  /\ inbox = NoReq /\ out = NoFrame /\ last = NoFrame
  /\ executed = {} /\ runs = 0 /\ answered = {}

\* A variant for mutation: OK frames pass without a look at their CRC.
frame_check_no_crc(f) ==
  CASE f.st = "REQUEST_OK" -> "LT_OK"
    [] f.st = "REQUEST_CONT" -> "LT_L2_REQ_CONT"
    [] f.st = "CRC_ERR" -> "LT_L2_CRC_ERR"
    [] f.st = "GEN_ERR" -> "LT_L2_GEN_ERR"
    [] OTHER -> "LT_L2_NO_RESP"

\* lt_l2_frame_check(): the CRC of an OK frame is verified, the other statuses
\* are taken at their word.  NO_RESP stands for all of those left.
lt_l2_frame_check(f) ==
  CASE f.st = "REQUEST_OK" -> IF f.crc THEN "LT_OK" ELSE "LT_L2_IN_CRC_ERR"
    [] f.st = "REQUEST_CONT" -> "LT_L2_REQ_CONT"
    [] f.st = "CRC_ERR" -> "LT_L2_CRC_ERR"
    [] f.st = "GEN_ERR" -> "LT_L2_GEN_ERR"
    [] OTHER -> "LT_L2_NO_RESP"

\* lt_l1_write: the frame, or a damaged frame, reaches the chip.  A chip that
\* keeps an unread response may also ignore the frame.
Arrive(m) ==
  \/ inbox' \in {m, [m EXCEPT !.t = "garbled"]} /\ out' = NoFrame
  \/ ~DropsUnread /\ inbox' \in {m, inbox} /\ UNCHANGED out

\* lt_l1_read that hands over a frame, as sent or damaged anywhere ...
ReadFrame ==
  /\ out # NoFrame
  /\ out' = NoFrame
  /\ \/ buff' = out
     \/ \E s \in Statuses : buff' = [out EXCEPT !.st = s, !.crc = FALSE]

\* ... or fails, before or after the chip gave its response away.
ReadFails == out' \in {out, NoFrame} /\ UNCHANGED buff

Return(r) == /\ pc' = "idle" /\ ret' = r
             /\ answered' = IF r = "LT_OK" THEN answered \union {buff'.to} ELSE answered

(***************************************************************************)
(* The host.                                                               *)
(***************************************************************************)
lt_l2_request ==
  /\ pc = "idle" /\ req < MaxReqs
  /\ req' = req + 1
  /\ pc' = "send"
  /\ UNCHANGED <<ret, i, buff, answered, inbox, out, last, executed, runs>>

lt_l2_send ==
  /\ pc = "send"
  /\ \/ /\ Arrive([t |-> "req", id |-> req])
        /\ pc' = "receive" /\ UNCHANGED <<ret, answered, buff>>
     \/ /\ Arrive([t |-> "req", id |-> req]) \/ UNCHANGED <<inbox, out>>
        /\ UNCHANGED buff /\ Return("LT_FAIL")
  /\ UNCHANGED <<req, i, last, executed, runs>>

lt_l2_receive ==
  /\ pc = "receive"
  /\ i' = 0
  /\ \/ ReadFails /\ Return("LT_FAIL")
     \/ /\ ReadFrame
        /\ LET r == lt_l2_frame_check(buff')
           IN  IF r \in {"LT_L2_CRC_ERR", "LT_L2_GEN_ERR"}
                 THEN pc' = "resend" /\ ret' = r /\ UNCHANGED answered
                 ELSE Return(r)
  /\ UNCHANGED <<req, inbox, last, executed, runs>>

\* A variant for mutation: a resend that fails ends the loop, too.
resend_once(r) == i' = i + 1 /\ Return(r)

\* A variant for mutation: resends that fail are not counted.
resend_uncounted(r) ==
  /\ UNCHANGED i
  /\ IF r = "LT_OK" THEN Return(r)
     ELSE pc' = "resend" /\ ret' = r /\ UNCHANGED answered

\* End of a round of the loop in lt_l2_receive.
resend_round(r) ==
  /\ i' = i + 1
  /\ IF r = "LT_OK" \/ i + 1 = 3
       THEN Return(r)
       ELSE pc' = "resend" /\ ret' = r /\ UNCHANGED answered

\* A variant for mutation: the request itself is sent again.
request_again ==
  /\ pc = "resend"
  /\ \/ /\ Arrive([t |-> "req", id |-> req])
        /\ pc' = "reread" /\ UNCHANGED <<ret, i, answered, buff>>
     \/ UNCHANGED <<inbox, out, buff>> /\ resend_round("LT_FAIL")
  /\ UNCHANGED <<req, last, executed, runs>>

\* lt_l2_resend_response(): Resend_Req is written ...
lt_l2_resend_response ==
  /\ pc = "resend"
  /\ \/ /\ Arrive([t |-> "resend", id |-> req])
        /\ pc' = "reread" /\ UNCHANGED <<ret, i, answered, buff>>
     \/ /\ Arrive([t |-> "resend", id |-> req]) \/ UNCHANGED <<inbox, out>>
        /\ UNCHANGED buff /\ resend_round("LT_FAIL")
  /\ UNCHANGED <<req, last, executed, runs>>

\* ... and the response read and checked.
lt_l2_resend_response_read ==
  /\ pc = "reread"
  /\ \/ ReadFails /\ resend_round("LT_FAIL")
     \/ ReadFrame /\ resend_round(lt_l2_frame_check(buff'))
  /\ UNCHANGED <<req, inbox, last, executed, runs>>

(***************************************************************************)
(* The chip, as lt_l2_api_structs.h and the functional tests describe it.  *)
(***************************************************************************)
Offer(f) == /\ out' = f
            /\ last' = IF KeepsErrors \/ f.st = "REQUEST_OK" THEN f ELSE last

ChipHandles ==
  /\ inbox # NoReq /\ out = NoFrame
  /\ inbox' = NoReq
  /\ \/ /\ inbox.t = "req"
        /\ Offer(Rsp("REQUEST_OK", inbox.id))
        /\ executed' = executed \union {inbox.id} /\ runs' = runs + 1
     \/ /\ inbox.t = "req"
        /\ \E s \in {"GEN_ERR", "NO_RESP"} : Offer(Rsp(s, inbox.id))   \* refused
        /\ UNCHANGED <<executed, runs>>
     \/ /\ inbox.t = "garbled"
        /\ Offer(Rsp("CRC_ERR", inbox.id)) /\ UNCHANGED <<executed, runs>>
     \/ /\ inbox.t = "resend"
        /\ out' = (IF last = NoFrame THEN Rsp("NO_RESP", inbox.id) ELSE last)
        /\ UNCHANGED <<last, executed, runs>>
  /\ UNCHANGED host

ChipResets ==
  /\ inbox' = NoReq /\ out' = NoFrame /\ last' = NoFrame
  /\ UNCHANGED <<host, executed, runs>>

HostStep == lt_l2_send \/ lt_l2_receive \/ lt_l2_resend_response
            \/ lt_l2_resend_response_read

Next == lt_l2_request \/ HostStep \/ ChipHandles \/ ChipResets

\* The functions run to their end; the chip and the link promise nothing.
Spec == Init /\ [][Next]_vars /\ WF_vars(HostStep)

(***************************************************************************)
(* Properties.                                                             *)
(***************************************************************************)
\* Every variable has its type; a call makes at most three resends.
TypeOK ==
  /\ pc \in {"idle", "send", "receive", "resend", "reread"}
  /\ ret \in Codes \union {"none", "LT_FAIL"}
  /\ req \in 0..MaxReqs /\ i \in 0..3
  /\ buff \in Frame /\ out \in Frame /\ last \in Frame /\ inbox \in Request
  /\ executed \subseteq Nat /\ runs \in Nat /\ answered \subseteq Nat

\* lt_l2_receive returns LT_OK only with an undamaged response to the request
\* sent before it, whatever was damaged, resent, lost or late.
OwnResponse ==
  pc = "idle" /\ ret = "LT_OK" =>
    buff = Rsp("REQUEST_OK", req) /\ req \in executed

\* lt_l2_receive reports the chip's CRC_ERR or GEN_ERR only after three resends.
RetriedBeforeError ==
  pc = "idle" /\ ret \in {"LT_L2_CRC_ERR", "LT_L2_GEN_ERR"} => i = 3

\* Requests of layer 2 are a channel with at-most-once execution, too: no
\* retry of lt_l2_receive ever makes the chip carry out a request again.
Channel == INSTANCE LtChannel WITH calls <- req

\* lt_l2_send and lt_l2_receive behave as LtChannel, through every failure.
ImplementsChannel == Channel!Spec

\* lt_l2_send and lt_l2_receive return, even if the chip never answers.
ReceiveReturns == pc # "idle" ~> pc = "idle"

(***************************************************************************)
(* The inductive invariant behind OwnResponse and ImplementsChannel.       *)
(***************************************************************************)
\* A frame that can be accepted answers an executed request.
Genuine(f) == f.st = "REQUEST_OK" /\ f.crc => f.to \in executed

\* Everything the chip holds is about the current request as soon as the host
\* waits for an answer to it, and an unhandled request is not yet executed.
OrderInv ==
  /\ executed \subseteq 1..req /\ answered \subseteq 1..req
  /\ pc # "idle" => req > 0 /\ req \notin answered
  /\ Genuine(out) /\ Genuine(last)
  /\ inbox.t = "req" => inbox.id \in 1..req /\ \A e \in executed : e < inbox.id
  /\ pc = "send" => req \notin executed /\ (inbox.t = "req" => inbox.id < req)
  /\ pc \in {"receive", "resend", "reread"} =>
       /\ inbox # NoReq => inbox.id = req
       /\ out # NoFrame => out.to = req
  /\ pc \in {"resend", "reread"} /\ last # NoFrame => last.to = req
  /\ pc = "receive" => inbox.t # "resend" /\ (out # NoFrame => last.to = req)
  /\ OwnResponse
=============================================================================
