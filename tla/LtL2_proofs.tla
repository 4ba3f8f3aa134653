---------------------------- MODULE LtL2_proofs ----------------------------
(***************************************************************************)
(* Proofs about LtL2, for every number of requests.                        *)
(***************************************************************************)
EXTENDS LtL2, TLAPS

\* The resend loop is left before i passes 3.
RetryInv == pc \in {"resend", "reread"} => i < 3

\* The frames and requests that host and chip build.
LEMMA Built ==
  /\ NoFrame \in Frame /\ NoReq \in Request
  /\ NoFrame.st = "none" /\ NoReq.t = "none"
  /\ \A s \in Statuses, n \in Nat : /\ Rsp(s, n) \in Frame
                                    /\ Rsp(s, n).st = s /\ Rsp(s, n).to = n
                                    /\ Rsp(s, n).crc = TRUE
BY DEF NoFrame, NoReq, Frame, Request, Rsp, Statuses

\* lt_l2_frame_check gives one of its codes.
LEMMA FrameCheckType ==
  ASSUME NEW f \in Frame
  PROVE  lt_l2_frame_check(f) \in Codes
BY DEF lt_l2_frame_check, Codes

\* A read hands over a frame that answers what the chip's frame answers, with
\* its CRC wrong if it was changed.
LEMMA ReadFrameType ==
  ASSUME out \in Frame, ReadFrame
  PROVE  /\ buff' \in Frame /\ out' = NoFrame /\ out # NoFrame
         /\ buff' = out \/ (buff'.crc = FALSE /\ buff'.to = out.to)
BY DEF ReadFrame, Frame, Statuses

\* A write leaves a request in the chip; if the chip drops unread responses,
\* nothing of earlier requests is left.
LEMMA ArriveType ==
  ASSUME NEW m \in Request, m.t \in {"req", "resend"}, inbox \in Request,
         out \in Frame, Arrive(m)
  PROVE  /\ inbox' \in Request /\ out' \in Frame
         /\ DropsUnread => /\ out' = NoFrame /\ inbox'.id = m.id
                           /\ inbox' = m \/ inbox'.t = "garbled"
BY Built DEF Arrive, Request

\* The end of a round of the resend loop.
LEMMA RoundType ==
  ASSUME TypeOK, i < 3, NEW r \in Codes \union {"LT_FAIL"}, resend_round(r),
         buff' \in Frame
  PROVE  /\ pc' \in {"idle", "resend"} /\ ret' = r
         /\ i' \in 0..3 /\ (pc' = "resend" => i' < 3)
         /\ pc' = "idle" /\ r # "LT_OK" => i' = 3
         /\ answered' \subseteq Nat
<1>1. i' = i + 1 /\ i \in 0..2
  BY DEF resend_round, TypeOK
<1>2. buff'.to \in Nat
  BY DEF Frame
<1>3. answered' \subseteq Nat
  BY <1>2 DEF resend_round, Return, TypeOK
<1>4. /\ pc' \in {"idle", "resend"} /\ ret' = r
      /\ pc' = "resend" => i + 1 # 3
      /\ pc' = "idle" /\ r # "LT_OK" => i + 1 = 3
  BY DEF resend_round, Return
<1> QED
  BY <1>1, <1>3, <1>4

\* Every step keeps the types and the bound on the resends.
LEMMA TypeStep == TypeOK /\ RetryInv /\ [Next]_vars => TypeOK' /\ RetryInv'
<1> SUFFICES ASSUME TypeOK, RetryInv, [Next]_vars PROVE TypeOK' /\ RetryInv'
  OBVIOUS
<1> USE L2Assumption
<1> DEFINE r0 == [t |-> "req", id |-> req]
           r1 == [t |-> "resend", id |-> req]
<1>0. /\ r0 \in Request /\ r0.t = "req" /\ r1 \in Request /\ r1.t = "resend"
  BY DEF TypeOK, Request
<1>1. CASE lt_l2_request
  BY <1>1 DEF lt_l2_request, TypeOK, RetryInv
<1>2. CASE lt_l2_send
  <2>1. inbox' \in Request /\ out' \in Frame
    BY <1>0, <1>2, ArriveType DEF lt_l2_send, TypeOK
  <2> QED
    BY <1>2, <2>1 DEF lt_l2_send, Return, TypeOK, RetryInv
<1>3. CASE lt_l2_receive
  <2>1. CASE ReadFails /\ Return("LT_FAIL")
    BY <1>3, <2>1, Built DEF lt_l2_receive, ReadFails, Return, TypeOK, RetryInv
  <2>2. CASE ReadFrame
    <3>1. buff' \in Frame /\ out' = NoFrame
      BY <2>2, ReadFrameType DEF TypeOK
    <3>2. lt_l2_frame_check(buff') \in Codes /\ buff'.to \in Nat
      BY <3>1, FrameCheckType DEF Frame
    <3>3. /\ pc' \in {"idle", "resend"} /\ ret' \in Codes \union {"LT_FAIL"}
          /\ answered' \subseteq Nat /\ i' = 0
      BY <1>3, <3>2 DEF lt_l2_receive, Return, TypeOK
    <3> QED
      BY <1>3, <3>1, <3>3, Built DEF lt_l2_receive, TypeOK, RetryInv
  <2> QED BY <1>3, <2>1, <2>2 DEF lt_l2_receive
<1>4. CASE lt_l2_resend_response
  <2>1. i < 3
    BY <1>4 DEF lt_l2_resend_response, RetryInv
  <2>2. inbox' \in Request /\ out' \in Frame /\ buff' = buff
    BY <1>0, <1>4, ArriveType DEF lt_l2_resend_response, TypeOK
  <2>3. CASE pc' = "reread" /\ UNCHANGED <<ret, i, answered, buff>>
    BY <1>4, <2>1, <2>2, <2>3 DEF lt_l2_resend_response, TypeOK, RetryInv
  <2>4. CASE resend_round("LT_FAIL")
    BY <1>4, <2>1, <2>2, <2>4, RoundType DEF lt_l2_resend_response, TypeOK, RetryInv
  <2> QED BY <1>4, <2>3, <2>4 DEF lt_l2_resend_response
<1>5. CASE lt_l2_resend_response_read
  <2>1. i < 3
    BY <1>5 DEF lt_l2_resend_response_read, RetryInv
  <2>2. buff' \in Frame /\ out' \in Frame
    BY <1>5, ReadFrameType, Built DEF lt_l2_resend_response_read, ReadFails, TypeOK
  <2>3. \E r \in Codes \union {"LT_FAIL"} : resend_round(r)
    BY <1>5, <2>2, FrameCheckType DEF lt_l2_resend_response_read
  <2>4. PICK r \in Codes \union {"LT_FAIL"} : resend_round(r)
    BY <2>3
  <2> QED
    BY <1>5, <2>1, <2>2, <2>4, RoundType DEF lt_l2_resend_response_read, TypeOK, RetryInv
<1>6. CASE ChipHandles
  <2>1. inbox.id \in Nat
    BY DEF TypeOK, Request
  <2>2. out' \in Frame /\ last' \in Frame /\ inbox' \in Request
    BY <1>6, <2>1, Built DEF ChipHandles, Offer, TypeOK, Statuses
  <2>3. executed' \subseteq Nat
    BY <1>6, <2>1 DEF ChipHandles, TypeOK
  <2>4. runs' \in Nat
    BY <1>6 DEF ChipHandles, TypeOK
  <2> QED
    BY <1>6, <2>2, <2>3, <2>4 DEF ChipHandles, host, TypeOK, RetryInv
<1>7. CASE ChipResets
  BY <1>7, Built DEF ChipResets, host, TypeOK, RetryInv
<1>8. CASE UNCHANGED vars
  BY <1>8 DEF vars, host, TypeOK, RetryInv
<1> QED
  BY <1>1, <1>2, <1>3, <1>4, <1>5, <1>6, <1>7, <1>8 DEF Next, HostStep

\* TypeOK and the bound of the loop hold in every reachable state.
LEMMA TypeInvariant == Spec => [](TypeOK /\ RetryInv)
<1>1. Init => TypeOK /\ RetryInv
  BY Built, L2Assumption DEF Init, TypeOK, RetryInv
<1> QED
  BY <1>1, TypeStep, PTL DEF Spec

\* In every reachable state each variable of lt_l2_send, lt_l2_receive and the
\* chip has its type, and a call makes at most three resends.
THEOREM L2TypeCorrect == Spec => []TypeOK
BY TypeInvariant, PTL

(***************************************************************************)
(* Retries, for any chip.                                                  *)
(***************************************************************************)
\* lt_l2_receive reports CRC_ERR or GEN_ERR of the chip only after three
\* resends, whatever the chip does and however the transfers fail.
THEOREM ErrorsAreRetried == Spec => []RetriedBeforeError
<1>1. Init => RetriedBeforeError
  BY DEF Init, RetriedBeforeError
<1>2. TypeOK /\ RetryInv /\ RetriedBeforeError /\ [Next]_vars => RetriedBeforeError'
  <2> SUFFICES ASSUME TypeOK, RetryInv, RetriedBeforeError, [Next]_vars
               PROVE  RetriedBeforeError'
    OBVIOUS
  <2>1. CASE lt_l2_request
    BY <2>1 DEF lt_l2_request, RetriedBeforeError
  <2>2. CASE lt_l2_send
    BY <2>2 DEF lt_l2_send, Return, RetriedBeforeError
  <2>3. CASE lt_l2_receive
    BY <2>3 DEF lt_l2_receive, Return, RetriedBeforeError
  <2>4. CASE lt_l2_resend_response
    <3>1. buff' = buff /\ i < 3
      BY <2>4 DEF lt_l2_resend_response, RetryInv
    <3>2. pc' = "reread" \/ resend_round("LT_FAIL")
      BY <2>4 DEF lt_l2_resend_response
    <3> QED
      BY <3>1, <3>2, RoundType DEF RetriedBeforeError, TypeOK
  <2>5. CASE lt_l2_resend_response_read
    <3>1. buff' \in Frame /\ i < 3
      BY <2>5, ReadFrameType DEF lt_l2_resend_response_read, ReadFails, TypeOK, RetryInv
    <3>2. \E r \in Codes \union {"LT_FAIL"} : resend_round(r)
      BY <2>5, <3>1, FrameCheckType DEF lt_l2_resend_response_read
    <3>3. PICK r \in Codes \union {"LT_FAIL"} : resend_round(r)
      BY <3>2
    <3> QED
      BY <3>1, <3>3, RoundType DEF RetriedBeforeError
  <2>6. CASE ChipHandles \/ ChipResets \/ UNCHANGED vars
    BY <2>6 DEF ChipHandles, ChipResets, vars, host, RetriedBeforeError
  <2> QED
    BY <2>1, <2>2, <2>3, <2>4, <2>5, <2>6 DEF Next, HostStep
<1> QED
  BY <1>1, <1>2, TypeInvariant, PTL DEF Spec

(***************************************************************************)
(* Responses, for a chip that drops unread responses and resends error     *)
(* responses as well.                                                      *)
(***************************************************************************)
\* Only an undamaged OK frame gives LT_OK.
LEMMA AcceptedFrame ==
  ASSUME NEW f \in Frame, lt_l2_frame_check(f) = "LT_OK"
  PROVE  f = Rsp("REQUEST_OK", f.to)
<1>1. f.st = "REQUEST_OK" /\ f.crc = TRUE
  BY DEF lt_l2_frame_check, Frame
<1> QED
  BY <1>1 DEF Frame, Rsp

\* No step takes OrderInv away.
LEMMA OrderStep ==
  DropsUnread /\ KeepsErrors /\ TypeOK /\ RetryInv /\ OrderInv /\ [Next]_vars
    => OrderInv'
<1> SUFFICES ASSUME DropsUnread, KeepsErrors, TypeOK, RetryInv, OrderInv, [Next]_vars
             PROVE  OrderInv'
  OBVIOUS
<1> req \in Nat
  BY L2Assumption DEF TypeOK
<1> DEFINE r0 == [t |-> "req", id |-> req]
           r1 == [t |-> "resend", id |-> req]
<1>0. /\ r0 \in Request /\ r0.t = "req" /\ r0.id = req
      /\ r1 \in Request /\ r1.t = "resend" /\ r1.id = req
  BY DEF Request
<1>1. CASE lt_l2_request
  <2>1. inbox.id \in Nat
    BY DEF TypeOK, Request
  <2> QED
    BY <1>1, <2>1 DEF lt_l2_request, OrderInv, OwnResponse, Genuine
<1>2. CASE lt_l2_send
  <2>1. \/ UNCHANGED <<inbox, out>> /\ pc' = "idle" /\ ret' = "LT_FAIL"
        \/ /\ out' = NoFrame /\ inbox'.id = req /\ (inbox' = r0 \/ inbox'.t = "garbled")
           /\ pc' = "receive" \/ (pc' = "idle" /\ ret' = "LT_FAIL")
    BY <1>0, <1>2, ArriveType DEF lt_l2_send, Return, TypeOK
  <2>2. /\ pc = "send" /\ UNCHANGED <<req, last, executed, answered>>
    BY <1>2 DEF lt_l2_send, Return
  <2>3. req > 0 /\ req \notin executed /\ req \notin answered
        /\ \A e \in executed : e \in Nat /\ e < req
    BY <2>2 DEF OrderInv
  <2> QED
    BY <1>0, <2>1, <2>2, <2>3, Built DEF OrderInv, OwnResponse, Genuine
<1>3. CASE lt_l2_receive
  <2>1. UNCHANGED <<req, inbox, last, executed>> /\ pc = "receive"
    BY <1>3 DEF lt_l2_receive
  <2>2. CASE ReadFails /\ Return("LT_FAIL")
    BY <2>1, <2>2, Built DEF ReadFails, Return, OrderInv, OwnResponse, Genuine
  <2>3. CASE /\ ReadFrame
             /\ \/ pc' = "resend" /\ UNCHANGED answered
                \/ Return(lt_l2_frame_check(buff'))
    <3>1. /\ buff' \in Frame /\ out' = NoFrame /\ out # NoFrame
          /\ buff' = out \/ (buff'.crc = FALSE /\ buff'.to = out.to)
      BY <2>3, ReadFrameType DEF TypeOK
    <3>2. out.to = req /\ last.to = req /\ buff'.to = req
      BY <2>1, <3>1 DEF OrderInv
    <3>3. lt_l2_frame_check(buff') = "LT_OK" =>
            buff' = Rsp("REQUEST_OK", req) /\ req \in executed
      BY <2>1, <3>1, <3>2, AcceptedFrame DEF OrderInv, Genuine, Rsp
    <3>4. \/ pc' = "resend" /\ answered' = answered
          \/ /\ pc' = "idle" /\ ret' = lt_l2_frame_check(buff')
             /\ answered' = answered \/ answered' = answered \union {req}
      BY <2>3, <3>2 DEF Return
    <3>5. OwnResponse'
      BY <2>1, <3>3, <3>4 DEF OwnResponse
    <3>6. answered' \subseteq 1..req /\ (pc' # "idle" => req > 0 /\ req \notin answered')
      <4>1. req > 0 /\ req \notin answered /\ answered \subseteq 1..req
        BY <2>1 DEF OrderInv
      <4>2. req \in 1..req
        BY <4>1
      <4> QED
        BY <3>4, <4>1, <4>2
    <3> QED
      BY <2>1, <3>1, <3>2, <3>4, <3>5, <3>6, Built DEF OrderInv, Genuine
  <2> QED BY <1>3, <2>2, <2>3 DEF lt_l2_receive
<1>4. CASE lt_l2_resend_response
  <2>1. UNCHANGED <<req, buff, last, executed>> /\ pc = "resend"
    BY <1>4 DEF lt_l2_resend_response
  <2>2. \/ UNCHANGED <<inbox, out>> /\ pc' # "reread"
        \/ out' = NoFrame /\ inbox'.id = req /\ inbox'.t \in {"resend", "garbled"}
    BY <1>0, <1>4, ArriveType DEF lt_l2_resend_response, resend_round, Return, TypeOK
  <2>3. /\ answered' = answered
        /\ pc' \in {"resend", "reread"} \/ (pc' = "idle" /\ ret' = "LT_FAIL")
    BY <1>4 DEF lt_l2_resend_response, resend_round, Return
  <2> QED
    BY <2>1, <2>2, <2>3, Built DEF OrderInv, OwnResponse, Genuine
<1>5. CASE lt_l2_resend_response_read
  <2>1. UNCHANGED <<req, inbox, last, executed>> /\ pc = "reread"
    BY <1>5 DEF lt_l2_resend_response_read
  <2>2. CASE ReadFails /\ resend_round("LT_FAIL")
    BY <2>1, <2>2, Built DEF ReadFails, resend_round, Return, OrderInv, OwnResponse,
                             Genuine
  <2>3. CASE ReadFrame /\ resend_round(lt_l2_frame_check(buff'))
    <3>1. /\ buff' \in Frame /\ out' = NoFrame /\ out # NoFrame
          /\ buff' = out \/ (buff'.crc = FALSE /\ buff'.to = out.to)
      BY <2>3, ReadFrameType DEF TypeOK
    <3>2. out.to = req /\ buff'.to = req
      BY <2>1, <3>1 DEF OrderInv
    <3>3. lt_l2_frame_check(buff') = "LT_OK" =>
            buff' = Rsp("REQUEST_OK", req) /\ req \in executed
      BY <2>1, <3>1, <3>2, AcceptedFrame DEF OrderInv, Genuine, Rsp
    <3>4. \/ pc' = "resend" /\ answered' = answered
          \/ /\ pc' = "idle" /\ ret' = lt_l2_frame_check(buff')
             /\ answered' = answered \/ answered' = answered \union {req}
      BY <2>3, <3>2 DEF resend_round, Return
    <3>5. OwnResponse'
      BY <2>1, <3>3, <3>4 DEF OwnResponse
    <3>6. answered' \subseteq 1..req /\ (pc' # "idle" => req > 0 /\ req \notin answered')
      <4>1. req > 0 /\ req \notin answered /\ answered \subseteq 1..req
        BY <2>1 DEF OrderInv
      <4>2. req \in 1..req
        BY <4>1
      <4> QED
        BY <3>4, <4>1, <4>2
    <3> QED
      BY <2>1, <3>1, <3>2, <3>4, <3>5, <3>6, Built DEF OrderInv, Genuine
  <2> QED BY <1>5, <2>2, <2>3 DEF lt_l2_resend_response_read
<1>6. CASE ChipHandles
  <2>1. UNCHANGED <<pc, ret, req, buff, answered>> /\ inbox # NoReq /\ inbox' = NoReq
    BY <1>6 DEF ChipHandles, host
  <2>2. inbox.id \in Nat
    BY DEF TypeOK, Request
  <2>3. CASE /\ inbox.t = "req" /\ Offer(Rsp("REQUEST_OK", inbox.id))
             /\ executed' = executed \union {inbox.id}
    <3>1. /\ out' = Rsp("REQUEST_OK", inbox.id) /\ last' = out' /\ out'.to = inbox.id
          /\ out'.st = "REQUEST_OK"
      BY <2>2, <2>3, Built DEF Offer, Statuses
    <3>2. inbox.id \in 1..req /\ \A e \in executed : e < inbox.id
      BY <2>3 DEF OrderInv
    <3>3. OwnResponse'
      BY <2>1, <2>3 DEF OrderInv, OwnResponse
    <3>4. /\ executed' \subseteq 1..req
          /\ pc = "send" => req \notin executed'
      <4>1. executed \subseteq 1..req
        BY DEF OrderInv
      <4>2. pc = "send" => inbox.id < req /\ req \notin executed
        BY <2>3 DEF OrderInv
      <4>3. executed' \subseteq 1..req
        BY <2>3, <3>2, <4>1
      <4>4. pc = "send" => req # inbox.id
        BY <2>2, <4>2
      <4> QED
        BY <2>3, <4>2, <4>3, <4>4
    <3>5. Genuine(out)' /\ Genuine(last)'
      BY <2>3, <3>1 DEF Genuine
    <3> QED
      BY <2>1, <3>1, <3>3, <3>4, <3>5, Built DEF OrderInv
  <2>4. CASE \E s \in {"GEN_ERR", "NO_RESP", "CRC_ERR"} :
               Offer(Rsp(s, inbox.id)) /\ executed' = executed
    <3>1. PICK s \in {"GEN_ERR", "NO_RESP", "CRC_ERR"} : Offer(Rsp(s, inbox.id))
      BY <2>4
    <3>2. out' = Rsp(s, inbox.id) /\ last' = out' /\ out'.to = inbox.id /\ out'.st = s
      BY <2>2, <3>1, Built DEF Offer, Statuses
    <3> QED
      BY <2>1, <2>4, <3>2, Built DEF OrderInv, OwnResponse, Genuine
  <2>5. CASE /\ inbox.t = "resend" /\ UNCHANGED <<last, executed>>
             /\ out' = (IF last = NoFrame THEN Rsp("NO_RESP", inbox.id) ELSE last)
    <3>1. Rsp("NO_RESP", inbox.id).to = inbox.id /\ Rsp("NO_RESP", inbox.id).st = "NO_RESP"
      BY <2>2, Built DEF Statuses
    <3> QED
      BY <2>1, <2>5, <3>1, Built DEF OrderInv, OwnResponse, Genuine
  <2> QED
    BY <1>6, <2>3, <2>4, <2>5 DEF ChipHandles
<1>7. CASE ChipResets
  BY <1>7, Built DEF ChipResets, host, OrderInv, OwnResponse, Genuine
<1>8. CASE UNCHANGED vars
  BY <1>8 DEF vars, host, OrderInv, OwnResponse, Genuine
<1> QED
  BY <1>1, <1>2, <1>3, <1>4, <1>5, <1>6, <1>7, <1>8 DEF Next, HostStep

\* OrderInv holds in every reachable state with such a chip.
LEMMA OrderInvariant == DropsUnread /\ KeepsErrors => (Spec => []OrderInv)
<1> SUFFICES ASSUME DropsUnread, KeepsErrors PROVE Spec => []OrderInv
  OBVIOUS
<1>1. Init => OrderInv
  BY Built DEF Init, OrderInv, OwnResponse, Genuine
<1>2. TypeOK /\ RetryInv /\ OrderInv /\ [Next]_vars => OrderInv'
  BY OrderStep
<1> QED
  BY <1>1, <1>2, TypeInvariant, PTL DEF Spec

\* With a chip that drops unread responses and resends error responses as well,
\* lt_l2_receive returns LT_OK only with the response to the request that
\* lt_l2_send sent before it.
THEOREM ResponseIsOwn == DropsUnread /\ KeepsErrors => (Spec => []OwnResponse)
<1>1. OrderInv => OwnResponse
  BY DEF OrderInv
<1> QED
  BY <1>1, OrderInvariant, PTL

\* A step of layer 2 is a step of the channel or leaves it alone.
LEMMA L2ChannelStep ==
  TypeOK /\ OrderInv /\ OrderInv' /\ [Next]_vars => [Channel!Next]_Channel!vars
<1> SUFFICES ASSUME TypeOK, OrderInv, OrderInv', [Next]_vars
             PROVE  Channel!Next \/ UNCHANGED Channel!vars
  BY DEF Channel!vars
<1> req \in Nat
  BY L2Assumption DEF TypeOK
<1>1. CASE UNCHANGED <<req, executed, runs, answered>>
  BY <1>1 DEF Channel!vars
<1>2. CASE lt_l2_request
  BY <1>2 DEF lt_l2_request, Channel!Next, Channel!Issue
<1>3. CASE lt_l2_send \/ lt_l2_resend_response
  BY <1>1, <1>3 DEF lt_l2_send, lt_l2_resend_response, resend_round, Return
<1>4. CASE lt_l2_receive \/ lt_l2_resend_response_read
  <2>1. /\ UNCHANGED <<req, executed, runs>> /\ pc \in {"receive", "reread"}
        /\ \/ answered' = answered
           \/ /\ pc' = "idle" /\ ret' = "LT_OK"
              /\ answered' = answered \union {buff'.to}
    BY <1>4 DEF lt_l2_receive, lt_l2_resend_response_read, resend_round, Return
  <2>2. CASE pc' = "idle" /\ ret' = "LT_OK" /\ answered' = answered \union {buff'.to}
    <3>1. buff' = Rsp("REQUEST_OK", req) /\ req \in executed
      BY <2>1, <2>2 DEF OrderInv, OwnResponse
    <3>2. buff'.to = req /\ req \notin answered
      BY <2>1, <3>1 DEF OrderInv, Rsp
    <3> QED
      BY <2>1, <2>2, <3>1, <3>2 DEF Channel!Next, Channel!Answer
  <2> QED
    BY <1>1, <2>1, <2>2
<1>5. CASE ChipHandles
  <2>1. /\ UNCHANGED <<req, answered>>
        /\ \/ UNCHANGED <<executed, runs>>
           \/ /\ inbox.t = "req" /\ executed' = executed \union {inbox.id}
              /\ runs' = runs + 1
    BY <1>5 DEF ChipHandles, host
  <2>2. inbox.t = "req" => inbox.id \in 1..req /\ \A e \in executed : e < inbox.id
    BY DEF OrderInv
  <2> QED
    BY <1>1, <2>1, <2>2 DEF Channel!Next, Channel!Execute
<1>6. CASE ChipResets \/ UNCHANGED vars
  BY <1>1, <1>6 DEF ChipResets, vars, host
<1> QED
  BY <1>2, <1>3, <1>4, <1>5, <1>6 DEF Next, HostStep

\* Layer 2 implements LtChannel: however often lt_l2_receive asks for a resend,
\* no request is executed twice or out of order, and each is answered once.
THEOREM L2ImplementsChannel ==
  DropsUnread /\ KeepsErrors => (Spec => ImplementsChannel)
<1> SUFFICES ASSUME DropsUnread, KeepsErrors PROVE Spec => ImplementsChannel
  OBVIOUS
<1>1. Init => Channel!Init
  BY DEF Init, Channel!Init
<1>2. TypeOK /\ OrderInv /\ OrderInv' /\ [Next]_vars => [Channel!Next]_Channel!vars
  BY L2ChannelStep
<1> QED
  BY <1>1, <1>2, L2TypeCorrect, OrderInvariant, PTL
     DEF Spec, ImplementsChannel, Channel!Spec
=============================================================================
