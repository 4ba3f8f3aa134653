-------------------------- MODULE LtSession_proofs --------------------------
(***************************************************************************)
(* Proofs about LtSession, for every size of the nonce and every number of *)
(* calls and handshakes.                                                   *)
(***************************************************************************)
EXTENDS LtSession, TLAPS

(***************************************************************************)
(* Type correctness.                                                       *)
(***************************************************************************)
\* Every message that the host or the chip builds is a message.
LEMMA Messages ==
  /\ None \in Msg /\ Garbled \in Msg
  /\ \A t \in Requests \union Responses : Plain(t) \in Msg
  /\ \A t \in Requests \union Responses, k \in Nat : Hsk(t, k) \in Msg
  /\ \A k, i, c \in Nat : Cmd(k, i, c) \in Msg
  /\ \A k, i, c \in Nat, r \in {"OK", "FAIL"} : Res(k, i, c, r) \in Msg
BY DEF Msg, None, Garbled, Plain, Hsk, Cmd, Res, Requests, Responses

\* The kinds and contents of the messages that are built.
LEMMA Kinds ==
  /\ None.t = "none" /\ Garbled.t = "garbled"
  /\ \A t \in Requests \union Responses :
       Plain(t).t = t /\ \A k \in Nat : Hsk(t, k).t = t
  /\ \A k, i, c : /\ Cmd(k, i, c).t = "CMD" /\ Cmd(k, i, c).id = c
                  /\ Cmd(k, i, c).key = k /\ Cmd(k, i, c).iv = i
  /\ \A k, i, c, r : /\ Res(k, i, c, r).t = "RES" /\ Res(k, i, c, r).id = c
                     /\ Res(k, i, c, r).key = k /\ Res(k, i, c, r).iv = i
BY DEF None, Garbled, Plain, Hsk, Cmd, Res

\* The fields of a message are numbers.
LEMMA Fields ==
  ASSUME NEW m \in Msg
  PROVE  m.key \in Nat /\ m.iv \in Nat /\ m.id \in Nat
BY DEF Msg

\* The nonce never leaves the range of uint32_t.
LEMMA NonceRange ==
  ASSUME NEW n \in 0..UINT32_MAX
  PROVE  lt_l3_nonce_increase(n) \in 0..UINT32_MAX
BY ConstantsAssumption DEF lt_l3_nonce_increase

\* A write leaves messages in the chip.
LEMMA ArriveType ==
  ASSUME NEW m \in Msg, TypeOK, Arrive(m)
  PROVE  inbox' \in Msg /\ work' \in Msg /\ out' \in Msg
BY Messages DEF Arrive, TypeOK

\* Every step of the host and of the chip keeps the types.
LEMMA TypeStep == TypeOK /\ [Next]_vars => TypeOK'
<1> SUFFICES ASSUME TypeOK, [Next]_vars PROVE TypeOK'
  OBVIOUS
<1> USE ConstantsAssumption
<1>1. CASE lt_init
  BY <1>1 DEF lt_init, Return, TypeOK, chip, hist
<1>2. CASE lt_deinit
  BY <1>2, Messages DEF lt_deinit, lt_l3_invalidate_host_session_data, Return,
                        TypeOK, chip, hist
<1>3. CASE lt_session_start
  BY <1>3, Messages DEF lt_session_start, lt_out__session_start, Return,
                        TypeOK, chip, hist, Requests
<1>4. CASE lt_session_abort
  BY <1>4, Messages DEF lt_session_abort, lt_l3_invalidate_host_session_data,
                        TypeOK, chip, hist, Requests
<1>5. CASE lt_sleep \/ lt_reboot \/ lt_get_info
  BY <1>5, Messages DEF lt_sleep, lt_reboot, lt_get_info, L2Request,
                        TypeOK, handle, chip, hist, Requests
<1>6. CASE lt_l2_send
  BY <1>6, ArriveType DEF lt_l2_send, Return, TypeOK, handle, hist
<1>7. CASE lt_l2_receive
  BY <1>7, Messages DEF lt_l2_receive, ReadFrame, ReadFails, Received, Return,
                        TypeOK, handle, hist
<1>8. CASE lt_in__session_start
  BY <1>8 DEF lt_in__session_start, Return, TypeOK, chip, hist
<1>9. CASE lt_l3_command
  <2>1. CASE session # "ON"
    BY <1>9, <2>1 DEF lt_l3_command, Return, TypeOK, handle, chip, hist
  <2>2. CASE session = "ON"
    BY <1>9, <2>2, Messages, NonceRange
       DEF lt_l3_command, lt_l3_encrypt_request, Return, TypeOK, chip, hist,
           lt_l3_invalidate_host_session_data
  <2> QED BY <2>1, <2>2
<1>10. CASE lt_l2_send_encrypted_cmd
  BY <1>10, ArriveType DEF lt_l2_send_encrypted_cmd, Return, TypeOK, handle
<1>11. CASE lt_l2_send_encrypted_cmd_ack
  BY <1>11, Messages DEF lt_l2_send_encrypted_cmd_ack, ReadFrame, ReadFails,
                         Return, TypeOK, handle, hist
<1>12. CASE lt_l2_recv_encrypted_res
  BY <1>12, Messages DEF lt_l2_recv_encrypted_res, ReadFrame, ReadFails,
                         Return, TypeOK, hist
<1>13. CASE lt_l3_decrypt_response
  <2>1. buff.id \in Nat
    BY DEF TypeOK, Msg
  <2> QED
    BY <1>13, <2>1, Messages, NonceRange
       DEF lt_l3_decrypt_response, lt_l3_invalidate_host_session_data, Return,
           TypeOK, chip
<1>14. CASE ChipRequest
  <2>1. inbox.key \in Nat
    BY DEF TypeOK, Msg
  <2>2. /\ Plain("ERR") \in Msg /\ Plain("REQ_OK") \in Msg
        /\ Plain("INFO_RSP") \in Msg /\ Hsk("HSK_RSP", inbox.key) \in Msg
    BY <2>1, Messages DEF Responses
  <2>3. /\ out' \in Msg /\ inbox' \in Msg /\ work' \in Msg
        /\ chipKey' \in Nat /\ chipIV' \in Nat
    BY <1>14, <2>1, <2>2, Messages DEF ChipRequest, TypeOK
  <2> QED
    BY <1>14, <2>3 DEF ChipRequest, TypeOK, handle, hist
<1>15. CASE ChipExecute
  <2>1. work.id \in Nat
    BY DEF TypeOK, Msg
  <2>2. /\ Plain("ERR") \in Msg
        /\ \A r \in {"OK", "FAIL"} : Res(chipKey, chipIV, work.id, r) \in Msg
    BY <2>1, Messages DEF TypeOK, Responses
  <2>3. out' \in Msg /\ work' \in Msg
    BY <1>15, <2>2, Messages DEF ChipExecute
  <2>4. chipKey' \in Nat /\ chipIV' \in Nat
    BY <1>15 DEF ChipExecute, TypeOK
  <2>5. executed' \subseteq Nat
    <3>1. executed' = executed \/ executed' = executed \union {work.id}
      BY <1>15 DEF ChipExecute
    <3> QED BY <2>1, <3>1 DEF TypeOK
  <2>6. runs' \in Nat
    BY <1>15 DEF ChipExecute, TypeOK
  <2> QED
    BY <1>15, <2>3, <2>4, <2>5, <2>6 DEF ChipExecute, TypeOK, handle, hist
<1>16. CASE ChipReset
  BY <1>16, Messages DEF ChipReset, TypeOK, handle, hist
<1>17. CASE UNCHANGED vars
  BY <1>17 DEF vars, handle, chip, hist, TypeOK
<1> QED
  BY <1>1, <1>2, <1>3, <1>4, <1>5, <1>6, <1>7, <1>8, <1>9, <1>10, <1>11,
     <1>12, <1>13, <1>14, <1>15, <1>16, <1>17 DEF Next

\* In every reachable state each variable of the handle, the chip model and
\* the history has its type; the nonces of lt_l3_state_t stay in 32 bits.
THEOREM TypeCorrect == Spec => []TypeOK
<1>1. Init => TypeOK
  BY Messages, ConstantsAssumption DEF Init, TypeOK
<1> QED
  BY <1>1, TypeStep, PTL DEF Spec

(***************************************************************************)
(* Keys and nonces, for an application that does not restart a live        *)
(* session.  KeyInv is NonceUsedOnce strengthened with where the handle's  *)
(* nonce stands relative to what was written under its key.                *)
(***************************************************************************)
\* What lt_l3_invalidate_host_session_data leaves satisfies KeyInv.
LEMMA KeyInvErased ==
  ASSUME TypeOK, KeyInv, session' = "OFF", wire' = wire, starts' = starts,
         pc' \in {"idle", "l2_send"}, op' # "start" \/ pc' = "idle"
  PROVE  KeyInv'
BY DEF TypeOK, KeyInv, Starting, InCommand, NonceUsedOnce

\* A step outside lt_session_start and the L3 commands keeps KeyInv.
LEMMA KeyInvQuiet ==
  ASSUME TypeOK, KeyInv,
         UNCHANGED <<session, encrypt, decrypt, encryption_IV, wire, starts>>,
         pc' # "cmd_send", pc # "cmd_send",
         pc' = "hs_in" => op' = "start",
         InCommand' => InCommand,
         Starting' => Starting
  PROVE  KeyInv'
BY DEF TypeOK, KeyInv, Starting, InCommand, NonceUsedOnce

\* The chip does not touch the handle.
LEMMA KeyInvChip ==
  ASSUME TypeOK, KeyInv, UNCHANGED <<handle, pc, op, starts, wire>>
  PROVE  KeyInv'
BY DEF TypeOK, KeyInv, Starting, InCommand, NonceUsedOnce, handle

\* No step of host or chip takes KeyInv away, unless a live session is restarted.
LEMMA KeyInvStep == ~MayRestart /\ TypeOK /\ KeyInv /\ [Next]_vars => KeyInv'
<1> SUFFICES ASSUME ~MayRestart, TypeOK, KeyInv, [Next]_vars PROVE KeyInv'
  OBVIOUS
<1>1. CASE lt_init
  BY <1>1, KeyInvErased DEF lt_init, Return, hist
<1>2. CASE lt_deinit
  BY <1>2, KeyInvErased DEF lt_deinit, lt_l3_invalidate_host_session_data,
                            Return, hist
<1>3. CASE lt_session_start
  <2>1. session = "OFF" /\ session' = "OFF" /\ wire' = wire /\ starts' = starts + 1
    BY <1>3 DEF lt_session_start, lt_out__session_start, TypeOK, hist
  <2>2. pc' \in {"idle", "l2_send"}
    BY <1>3 DEF lt_session_start, lt_out__session_start, Return
  <2>3. starts \in Nat /\ \A p \in wire : p.key \in Nat
    BY ConstantsAssumption, Fields DEF TypeOK
  <2>4. \A p \in wire : p.key < starts + 1
    BY <2>3 DEF KeyInv
  <2> QED
    BY <2>1, <2>2, <2>3, <2>4 DEF KeyInv, Starting, InCommand, NonceUsedOnce
<1>4. CASE lt_session_abort
  BY <1>4, KeyInvErased DEF lt_session_abort, lt_l3_invalidate_host_session_data,
                            hist
<1>5. CASE lt_sleep \/ lt_reboot \/ lt_get_info
  BY <1>5, KeyInvQuiet DEF lt_sleep, lt_reboot, lt_get_info, L2Request, handle,
                           hist, Starting, InCommand
<1>6. CASE lt_l2_send
  BY <1>6, KeyInvQuiet DEF lt_l2_send, Return, handle, hist, Starting, InCommand
<1>7. CASE lt_l2_receive
  BY <1>7, KeyInvQuiet DEF lt_l2_receive, ReadFails, Received, Return, handle,
                           hist, Starting, InCommand
<1>8. CASE lt_in__session_start
  <2>1. /\ session = "OFF" /\ starts > 0 /\ \A p \in wire : p.key < starts
        /\ pc' = "idle" /\ wire' = wire /\ starts' = starts
    BY <1>8 DEF lt_in__session_start, Return, hist, KeyInv, Starting
  <2>2. starts \in Nat /\ \A p \in wire : p.key \in Nat
    BY ConstantsAssumption, Fields DEF TypeOK
  <2>3. CASE session' = "ON"
    <3>1. encrypt' = starts /\ decrypt' = starts
      BY <1>8, <2>1, <2>3 DEF lt_in__session_start
    <3> QED
      BY <2>1, <2>2, <2>3, <3>1
         DEF KeyInv, Starting, InCommand, NonceUsedOnce
  <2>4. CASE session' = "OFF"
    BY <2>1, <2>4, KeyInvErased
  <2> QED
    BY <1>8, <2>1, <2>3, <2>4 DEF lt_in__session_start
<1>9. CASE lt_l3_command
  <2>1. CASE session # "ON"
    BY <1>9, <2>1 DEF lt_l3_command, Return, handle, hist, KeyInv, Starting,
                      InCommand, NonceUsedOnce
  <2>2. CASE session = "ON" /\ session' = "OFF"
    BY <1>9, <2>2, KeyInvErased DEF lt_l3_command, lt_l3_encrypt_request,
                                    lt_l3_invalidate_host_session_data, Return, hist
  <2>3. CASE session = "ON" /\ session' = "ON"
    <3>1. /\ buff' = Cmd(encrypt, encryption_IV, calls + 1)
          /\ UNCHANGED <<session, encrypt, decrypt, wire, starts>>
          /\ \/ pc' = "idle" /\ encryption_IV' = encryption_IV
             \/ pc' = "cmd_send" /\ encryption_IV' = encryption_IV + 1
          /\ pc = "idle"
      BY <1>9, <2>3 DEF lt_l3_command, lt_l3_encrypt_request, Return, hist,
           lt_l3_invalidate_host_session_data, lt_l3_nonce_increase
    <3>2. buff'.key = encrypt /\ buff'.iv = encryption_IV
      BY <3>1 DEF Cmd
    <3> QED
      BY <2>3, <3>1, <3>2 DEF KeyInv, Starting, InCommand, NonceUsedOnce
  <2>4. session' \in {"ON", "OFF"}
    BY TypeStep DEF TypeOK
  <2> QED
    BY <2>1, <2>2, <2>3, <2>4
<1>10. CASE lt_l2_send_encrypted_cmd
  <2>1. /\ UNCHANGED <<session, encrypt, decrypt, encryption_IV, buff, starts, op>>
        /\ pc = "cmd_send" /\ pc' \in {"cmd_ack", "idle"}
        /\ wire' = wire \/ wire' = wire \union {buff}
    BY <1>10 DEF lt_l2_send_encrypted_cmd, Return, handle
  <2>2. /\ session = "ON" /\ buff.key = encrypt /\ encryption_IV = buff.iv + 1
        /\ \A p \in wire : p.key = encrypt => p.iv < buff.iv
    BY <2>1 DEF KeyInv, InCommand
  <2>3. /\ starts \in Nat /\ encrypt \in Nat /\ encrypt <= starts
        /\ buff \in Msg /\ buff.iv \in Nat /\ wire \subseteq Msg
        /\ \A p \in wire : p.iv \in Nat
    BY ConstantsAssumption, Fields DEF TypeOK
  <2>4. NonceUsedOnce'
    BY <2>1, <2>2, <2>3 DEF KeyInv, NonceUsedOnce
  <2>5. \A p \in wire' : p.key <= starts
    BY <2>1, <2>2, <2>3 DEF KeyInv
  <2>6. \A p \in wire' : p.key = encrypt => p.iv < encryption_IV
    BY <2>1, <2>2, <2>3
  <2> QED
    BY <2>1, <2>2, <2>4, <2>5, <2>6 DEF KeyInv, Starting, InCommand
<1>11. CASE lt_l2_send_encrypted_cmd_ack
  BY <1>11, KeyInvQuiet DEF lt_l2_send_encrypted_cmd_ack, ReadFails, Return,
                            handle, hist, Starting, InCommand
<1>12. CASE lt_l2_recv_encrypted_res
  BY <1>12, KeyInvQuiet DEF lt_l2_recv_encrypted_res, ReadFails, Return, hist,
                            Starting, InCommand
<1>13. CASE lt_l3_decrypt_response
  <2>1. CASE Authentic
    BY <1>13, <2>1, KeyInvQuiet DEF lt_l3_decrypt_response, Return, Starting,
                                    InCommand
  <2>2. CASE ~Authentic
    BY <1>13, <2>2, KeyInvErased DEF lt_l3_decrypt_response, Return,
                                     lt_l3_invalidate_host_session_data
  <2> QED BY <2>1, <2>2
<1>14. CASE ChipRequest \/ ChipExecute \/ ChipReset
  BY <1>14, KeyInvChip DEF ChipRequest, ChipExecute, ChipReset, hist
<1>15. CASE UNCHANGED vars
  BY <1>15, KeyInvChip DEF vars, hist
<1> QED
  BY <1>1, <1>2, <1>3, <1>4, <1>5, <1>6, <1>7, <1>8, <1>9, <1>10, <1>11,
     <1>12, <1>13, <1>14, <1>15 DEF Next

\* KeyInv holds in every reachable state of such an application.
LEMMA KeyInvariant == ~MayRestart => (Spec => []KeyInv)
<1> SUFFICES ASSUME ~MayRestart PROVE Spec => []KeyInv
  OBVIOUS
<1>1. Init => KeyInv
  BY DEF Init, KeyInv, Starting, InCommand, NonceUsedOnce
<1>2. TypeOK /\ KeyInv /\ [Next]_vars => KeyInv'
  BY KeyInvStep
<1> QED
  BY <1>1, <1>2, TypeCorrect, PTL DEF Spec

\* If the application ends a session before it starts the next one, no two
\* packets that lt_l2_send_encrypted_cmd writes share a key and a nonce.
THEOREM NoncesAreFresh == ~MayRestart => (Spec => []NonceUsedOnce)
<1>1. KeyInv => NonceUsedOnce
  BY DEF KeyInv
<1> QED
  BY <1>1, KeyInvariant, PTL

\* Under the same assumption SESSION_ON always means that both contexts hold
\* the keys of one completed handshake.
THEOREM SessionOnIsEstablished == ~MayRestart => (Spec => []OnMeansEstablished)
<1>1. KeyInv => OnMeansEstablished
  BY DEF KeyInv, OnMeansEstablished
<1> QED
  BY <1>1, KeyInvariant, PTL

(***************************************************************************)
(* Answers, for a chip that discards an unread response when a request     *)
(* arrives.  LinkInv says where packets of earlier commands can still be,  *)
(* so that none of them can be taken for the answer of the call in         *)
(* progress.                                                               *)
(***************************************************************************)
\* A host step that neither reads nor writes and leaves no command running.
LEMMA LinkInvQuiet ==
  ASSUME LinkInv, UNCHANGED <<chip, calls, accepted>>, ~InCommand'
  PROVE  LinkInv'
BY DEF LinkInv, ChipInv, CallInv, AnswerInv, InCommand, chip

\* Reading the chip or losing its response keeps ChipInv.
LEMMA ChipInvRead ==
  ASSUME ChipInv, UNCHANGED <<calls, inbox, work, executed>>, out' \in {out, None}
  PROVE  ChipInv'
BY Kinds DEF ChipInv

\* What arrives at the chip is the message, nothing or a damaged message.
LEMMA ArriveDrops ==
  ASSUME DropsUnread, NEW m, Arrive(m)
  PROVE  inbox' \in {m, Garbled} /\ work' \in {work, None} /\ out' = None
BY DEF Arrive

\* lt_l2_send never writes an encrypted command.
LEMMA PlainInvariant == Spec => []PlainInv
<1>1. Init => PlainInv
  BY Kinds DEF Init, PlainInv
<1>2. TypeOK /\ PlainInv /\ [Next]_vars => PlainInv'
  <2> SUFFICES ASSUME TypeOK, PlainInv, [Next]_vars PROVE PlainInv'
    OBVIOUS
  <2>1. CASE lt_session_start
    <3>1. starts + 1 \in Nat
      BY ConstantsAssumption DEF TypeOK
    <3>2. Hsk("HANDSHAKE", starts + 1).t = "HANDSHAKE"
      BY <3>1, Kinds DEF Requests
    <3> QED
      BY <2>1, <3>2 DEF lt_session_start, lt_out__session_start, PlainInv
  <2>2. CASE lt_session_abort \/ lt_sleep \/ lt_reboot \/ lt_get_info
    <3>1. \A t \in {"ABORT", "SLEEP", "STARTUP", "GET_INFO"} : Plain(t).t = t
      BY Kinds DEF Requests
    <3> QED
      BY <2>2, <3>1 DEF lt_session_abort, lt_sleep, lt_reboot, lt_get_info,
                        L2Request, PlainInv
  <2>3. CASE lt_l2_receive
    BY <2>3 DEF lt_l2_receive, ReadFrame, lt_l2_frame_check, PlainInv
  <2>4. CASE UNCHANGED l2buff
    BY <2>4 DEF PlainInv
  <2>5. CASE ChipRequest \/ ChipExecute \/ ChipReset
    BY <2>5, <2>4 DEF ChipRequest, ChipExecute, ChipReset
  <2> QED
    BY <2>1, <2>2, <2>3, <2>4, <2>5
       DEF Next, vars, lt_init, lt_deinit, lt_l2_send, lt_in__session_start,
           lt_l3_command, lt_l2_send_encrypted_cmd, lt_l2_send_encrypted_cmd_ack,
           lt_l2_recv_encrypted_res, lt_l3_decrypt_response
<1> QED
  BY <1>1, <1>2, TypeCorrect, PTL DEF Spec

\* No step takes LinkInv away: late packets stay behind the call in progress.
LEMMA LinkInvStep ==
  DropsUnread /\ TypeOK /\ PlainInv /\ LinkInv /\ [Next]_vars => LinkInv'
<1> SUFFICES ASSUME DropsUnread, TypeOK, PlainInv, LinkInv, [Next]_vars
             PROVE  LinkInv'
  OBVIOUS
<1> calls \in Nat
  BY ConstantsAssumption DEF TypeOK
<1>1. CASE lt_init
  BY <1>1, LinkInvQuiet DEF lt_init, Return, hist, InCommand
<1>2. CASE lt_deinit
  BY <1>2, LinkInvQuiet DEF lt_deinit, Return, hist, InCommand
<1>3. CASE lt_session_start
  BY <1>3, LinkInvQuiet DEF lt_session_start, lt_out__session_start, Return,
                            hist, InCommand
<1>4. CASE lt_session_abort
  BY <1>4, LinkInvQuiet DEF lt_session_abort, hist, InCommand
<1>5. CASE lt_sleep \/ lt_reboot \/ lt_get_info
  BY <1>5, LinkInvQuiet DEF lt_sleep, lt_reboot, lt_get_info, L2Request, hist,
                            InCommand
<1>6. CASE lt_l2_send
  <2>1. /\ UNCHANGED <<calls, executed, accepted>> /\ ~InCommand'
        /\ \/ UNCHANGED <<inbox, work, out>>
           \/ inbox' \in {l2buff, Garbled} /\ work' \in {work, None} /\ out' = None
    BY <1>6, ArriveDrops DEF lt_l2_send, Return, hist, InCommand
  <2>2. ChipInv'
    BY <2>1, Kinds DEF LinkInv, ChipInv, PlainInv
  <2> QED
    BY <2>1, <2>2 DEF LinkInv, CallInv, AnswerInv, InCommand
<1>7. CASE lt_l2_receive
  <2>1. /\ UNCHANGED <<calls, inbox, work, executed, accepted>>
        /\ out' \in {out, None} /\ ~InCommand'
    BY <1>7 DEF lt_l2_receive, ReadFrame, ReadFails, Received, Return, hist,
                InCommand
  <2>2. ChipInv'
    BY <2>1, ChipInvRead DEF LinkInv
  <2> QED
    BY <2>1, <2>2 DEF LinkInv, CallInv, AnswerInv, InCommand
<1>8. CASE lt_in__session_start
  BY <1>8, LinkInvQuiet DEF lt_in__session_start, Return, hist, InCommand
<1>9. CASE lt_l3_command
  <2>1. CASE session # "ON"
    BY <1>9, <2>1, LinkInvQuiet DEF lt_l3_command, Return, hist, InCommand
  <2>2. CASE session = "ON"
    <3>1. /\ UNCHANGED <<inbox, work, out, executed, accepted>> /\ calls' = calls + 1
          /\ \/ pc' = "idle"
             \/ pc' = "cmd_send" /\ buff' = Cmd(encrypt, encryption_IV, calls + 1)
      BY <1>9, <2>2 DEF lt_l3_command, lt_l3_encrypt_request, Return, chip, hist
    <3>2. work.id \in Nat /\ inbox.id \in Nat
      BY Fields DEF TypeOK
    <3>3. ChipInv'
      BY <3>1, <3>2 DEF LinkInv, ChipInv
    <3>4. CallInv'
      BY <3>1, <3>2, Kinds DEF LinkInv, ChipInv, CallInv
    <3>5. \A a \in accepted : a[2] \in Nat
      BY DEF TypeOK
    <3>6. AnswerInv'
      BY <3>1, <3>5 DEF LinkInv, AnswerInv, InCommand
    <3> QED
      BY <3>3, <3>4, <3>6 DEF LinkInv
  <2> QED BY <2>1, <2>2
<1>10. CASE lt_l2_send_encrypted_cmd
  <2>1. /\ UNCHANGED <<calls, executed, accepted, buff>>
        /\ pc = "cmd_send" /\ pc' \in {"cmd_ack", "idle"}
        /\ \/ pc' = "idle" /\ UNCHANGED <<inbox, work, out>>
           \/ inbox' \in {buff, Garbled} /\ work' \in {work, None} /\ out' = None
    BY <1>10, ArriveDrops DEF lt_l2_send_encrypted_cmd, Return, handle
  <2>2. buff.t = "CMD" /\ buff.id = calls /\ calls > 0 /\ calls \notin executed
    BY <2>1 DEF LinkInv, CallInv
  <2>3. \A e \in executed : e \in Nat /\ e < calls
    BY <2>2 DEF LinkInv, ChipInv
  <2>4. ChipInv'
    BY <2>1, <2>2, <2>3, Kinds DEF LinkInv, ChipInv, CallInv
  <2>5. CallInv'
    BY <2>1, <2>2, Kinds DEF LinkInv, CallInv
  <2>6. AnswerInv'
    BY <2>1 DEF LinkInv, AnswerInv, InCommand
  <2> QED
    BY <2>4, <2>5, <2>6 DEF LinkInv
<1>11. CASE lt_l2_send_encrypted_cmd_ack
  <2>1. /\ UNCHANGED <<calls, inbox, work, executed, accepted, buff>>
        /\ pc = "cmd_ack"
        /\ \/ pc' = "idle" /\ out' \in {out, None}
           \/ pc' = "cmd_recv" /\ out' = None /\ lt_l2_frame_check(out)
    BY <1>11 DEF lt_l2_send_encrypted_cmd_ack, ReadFrame, ReadFails, Return,
                 handle, hist
  <2>2. ChipInv'
    BY <2>1, ChipInvRead DEF LinkInv
  <2>3. lt_l2_frame_check(out) => out # None
    BY Kinds DEF lt_l2_frame_check
  <2>4. CallInv'
    BY <2>1, <2>3, Kinds DEF LinkInv, CallInv
  <2>5. AnswerInv'
    BY <2>1 DEF LinkInv, AnswerInv, InCommand
  <2> QED
    BY <2>2, <2>4, <2>5 DEF LinkInv
<1>12. CASE lt_l2_recv_encrypted_res
  <2>1. /\ UNCHANGED <<calls, inbox, work, executed, accepted>>
        /\ pc = "cmd_recv" /\ out' \in {out, None}
        /\ pc' = "idle" \/ (pc' = "cmd_in" /\ buff' \in {buff, out, Garbled})
    BY <1>12 DEF lt_l2_recv_encrypted_res, ReadFrame, ReadFails, Return, hist
  <2>2. ChipInv'
    BY <2>1, ChipInvRead DEF LinkInv
  <2>3. CallInv'
    BY <2>1, Kinds DEF LinkInv, ChipInv, CallInv
  <2>4. AnswerInv'
    BY <2>1 DEF LinkInv, AnswerInv, InCommand
  <2> QED
    BY <2>2, <2>3, <2>4 DEF LinkInv
<1>13. CASE lt_l3_decrypt_response
  <2>1. /\ UNCHANGED <<calls, chip>> /\ pc = "cmd_in" /\ pc' = "idle"
        /\ \/ accepted' = accepted
           \/ Authentic /\ accepted' = accepted \union {<<calls, buff.id>>}
    BY <1>13 DEF lt_l3_decrypt_response, Return
  <2>2. Authentic => buff.id = calls
    BY <2>1 DEF Authentic, LinkInv, CallInv
  <2>3. AnswerInv'
    BY <2>1, <2>2 DEF LinkInv, AnswerInv, InCommand
  <2>4. ChipInv' /\ CallInv'
    BY <2>1 DEF LinkInv, ChipInv, CallInv, chip
  <2> QED
    BY <2>3, <2>4 DEF LinkInv
<1>14. CASE ChipRequest
  <2>1. /\ UNCHANGED <<calls, executed, accepted, pc, buff>>
        /\ inbox # None /\ work = None /\ out = None /\ inbox' = None
        /\ work' = None \/ (work' = inbox /\ inbox.t = "CMD")
        /\ out'.t # "RES" /\ out'.t # "CMD"
    <3>1. /\ \A t \in {"ERR", "REQ_OK", "INFO_RSP"} : Plain(t).t = t
          /\ Hsk("HSK_RSP", inbox.key).t = "HSK_RSP"
      BY Kinds, Fields DEF TypeOK, Responses
    <3> QED
      BY <1>14, <3>1 DEF ChipRequest, handle, hist
  <2>2. ChipInv'
    BY <2>1, Kinds DEF LinkInv, ChipInv
  <2>3. CallInv'
    BY <2>1, Kinds DEF LinkInv, CallInv
  <2>4. AnswerInv'
    BY <2>1 DEF LinkInv, AnswerInv, InCommand
  <2> QED
    BY <2>2, <2>3, <2>4 DEF LinkInv
<1>15. CASE ChipExecute
  <2>1. /\ UNCHANGED <<calls, accepted, pc, buff, inbox>>
        /\ work # None /\ out = None /\ work' = None
        /\ \/ executed' = executed /\ out'.t = "ERR"
           \/ /\ executed' = executed \union {work.id}
              /\ out'.t = "RES" /\ out'.id = work.id
    <3>1. Plain("ERR").t = "ERR"
      BY Kinds DEF Responses
    <3> QED
      BY <1>15, <3>1, Kinds DEF ChipExecute, handle, hist
  <2>2. work.id \in 1..calls /\ \A e \in executed : e < work.id
    BY <2>1 DEF LinkInv, ChipInv
  <2>3. ChipInv'
    BY <2>1, <2>2, Kinds DEF LinkInv, ChipInv
  <2>4. CallInv'
    BY <2>1, <2>2, Kinds DEF LinkInv, CallInv
  <2>5. AnswerInv'
    BY <2>1 DEF LinkInv, AnswerInv, InCommand
  <2> QED
    BY <2>3, <2>4, <2>5 DEF LinkInv
<1>16. CASE ChipReset
  <2>1. /\ UNCHANGED <<calls, executed, accepted, pc, buff>>
        /\ inbox' = None /\ work' = None /\ out' = None
    BY <1>16 DEF ChipReset, handle, hist
  <2> QED
    BY <2>1, Kinds DEF LinkInv, ChipInv, CallInv, AnswerInv, InCommand
<1>17. CASE UNCHANGED vars
  BY <1>17 DEF vars, handle, chip, hist, LinkInv, ChipInv, CallInv, AnswerInv,
               InCommand
<1> QED
  BY <1>1, <1>2, <1>3, <1>4, <1>5, <1>6, <1>7, <1>8, <1>9, <1>10, <1>11,
     <1>12, <1>13, <1>14, <1>15, <1>16, <1>17 DEF Next

\* LinkInv holds in every reachable state.
LEMMA LinkInvariant == DropsUnread => (Spec => []LinkInv)
<1> SUFFICES ASSUME DropsUnread PROVE Spec => []LinkInv
  OBVIOUS
<1>1. Init => LinkInv
  BY Kinds DEF Init, LinkInv, ChipInv, CallInv, AnswerInv, InCommand
<1>2. TypeOK /\ PlainInv /\ LinkInv /\ [Next]_vars => LinkInv'
  BY LinkInvStep
<1> QED
  BY <1>1, <1>2, TypeCorrect, PlainInvariant, PTL DEF Spec

\* With a chip that discards unread responses, an accepted result always
\* answers the command of the call that accepts it, however many earlier
\* calls failed and whatever arrived late.
THEOREM AnswersMatch == DropsUnread => (Spec => []ResultAnswersCommand)
<1>1. LinkInv => ResultAnswersCommand
  BY DEF LinkInv, AnswerInv, ResultAnswersCommand
<1> QED
  BY <1>1, LinkInvariant, PTL

\* A step of the session is a step of the channel or leaves it alone.
LEMMA ChannelStep ==
  DropsUnread /\ TypeOK /\ PlainInv /\ LinkInv /\ [Next]_vars
    => [Channel!Next]_Channel!vars
<1> SUFFICES ASSUME DropsUnread, TypeOK, PlainInv, LinkInv, [Next]_vars
             PROVE  Channel!Next \/ UNCHANGED Channel!vars
  BY DEF Channel!vars
<1> calls \in Nat
  BY ConstantsAssumption DEF TypeOK
<1>1. CASE UNCHANGED <<calls, executed, runs, accepted>>
  BY <1>1 DEF Channel!vars
<1>2. CASE lt_l3_command
  <2>1. UNCHANGED <<executed, runs, accepted>> /\ calls' \in {calls, calls + 1}
    BY <1>2 DEF lt_l3_command, chip, hist
  <2> QED
    BY <2>1 DEF Channel!Next, Channel!Issue, Channel!vars
<1>3. CASE lt_l3_decrypt_response
  <2>1. /\ UNCHANGED <<calls, executed, runs>> /\ pc = "cmd_in"
        /\ \/ accepted' = accepted
           \/ Authentic /\ accepted' = accepted \union {<<calls, buff.id>>}
    BY <1>3 DEF lt_l3_decrypt_response, Return, chip
  <2>2. Authentic => /\ buff.id = calls /\ calls \in executed
                     /\ \A a \in accepted : a[2] # calls
    BY <2>1 DEF Authentic, LinkInv, CallInv, AnswerInv, InCommand
  <2>3. CASE Authentic /\ accepted' = accepted \union {<<calls, buff.id>>}
    <3>1. {a[2] : a \in accepted'} = {a[2] : a \in accepted} \union {calls}
      <4> DEFINE new == <<calls, buff.id>>
      <4>1. new[2] = calls
        BY <2>2, <2>3
      <4>2. accepted' = accepted \union {new}
        BY <2>3
      <4> HIDE DEF new
      <4> QED BY <4>1, <4>2, Zenon
    <3>2. calls \notin {a[2] : a \in accepted}
      BY <2>2, <2>3
    <3>3. Channel!Answer
      BY <2>1, <2>2, <2>3, <3>1, <3>2 DEF Channel!Answer
    <3> QED
      BY <3>3 DEF Channel!Next
  <2> QED
    BY <1>1, <2>1, <2>3
<1>4. CASE ChipExecute
  <2>1. /\ UNCHANGED <<calls, accepted>> /\ work # None
        /\ \/ UNCHANGED <<executed, runs>>
           \/ executed' = executed \union {work.id} /\ runs' = runs + 1
    BY <1>4 DEF ChipExecute, hist
  <2>2. work.id \in 1..calls /\ \A e \in executed : e < work.id
    BY <2>1 DEF LinkInv, ChipInv
  <2> QED
    BY <1>1, <2>1, <2>2 DEF Channel!Next, Channel!Execute
<1>5. CASE lt_init \/ lt_deinit \/ lt_session_start \/ lt_session_abort
           \/ lt_sleep \/ lt_reboot \/ lt_get_info \/ lt_in__session_start
  BY <1>1, <1>5 DEF lt_init, lt_deinit, lt_session_start, lt_session_abort,
     lt_sleep, lt_reboot, lt_get_info, L2Request, lt_in__session_start, chip, hist
<1>6. CASE lt_l2_send \/ lt_l2_receive \/ lt_l2_send_encrypted_cmd
           \/ lt_l2_send_encrypted_cmd_ack \/ lt_l2_recv_encrypted_res
  BY <1>1, <1>6 DEF lt_l2_send, lt_l2_receive, lt_l2_send_encrypted_cmd,
     lt_l2_send_encrypted_cmd_ack, lt_l2_recv_encrypted_res, ReadFrame,
     ReadFails, hist
<1>7. CASE ChipRequest \/ ChipReset \/ UNCHANGED vars
  BY <1>1, <1>7 DEF ChipRequest, ChipReset, vars, chip, hist
<1> QED
  BY <1>2, <1>3, <1>4, <1>5, <1>6, <1>7 DEF Next

\* The L3 commands implement LtChannel: at most one execution per call, in
\* order, and an answer only for the call in progress.
THEOREM SessionImplementsChannel == DropsUnread => (Spec => ImplementsChannel)
<1> SUFFICES ASSUME DropsUnread PROVE Spec => ImplementsChannel
  OBVIOUS
<1>1. Init => Channel!Init
  BY DEF Init, Channel!Init
<1>2. TypeOK /\ PlainInv /\ LinkInv /\ [Next]_vars => [Channel!Next]_Channel!vars
  BY ChannelStep
<1> QED
  BY <1>1, <1>2, TypeCorrect, PlainInvariant, LinkInvariant, PTL
     DEF Spec, ImplementsChannel, Channel!Spec

(***************************************************************************)
(* What lt_session_abort and lt_deinit erase.                              *)
(***************************************************************************)
\* No step brings back what lt_session_abort or lt_deinit erased.
LEMMA EraseInvStep == EraseInv /\ [Next]_vars => EraseInv'
<1> SUFFICES ASSUME EraseInv, [Next]_vars PROVE EraseInv'
  OBVIOUS
<1> USE DEF EraseInv, AbortErases, InCommand
<1>1. CASE lt_init
  BY <1>1 DEF lt_init, Return
<1>2. CASE lt_deinit
  BY <1>2 DEF lt_deinit, lt_l3_invalidate_host_session_data, Return
<1>3. CASE lt_session_start
  BY <1>3 DEF lt_session_start, lt_out__session_start, Return
<1>4. CASE lt_session_abort
  BY <1>4 DEF lt_session_abort, lt_l3_invalidate_host_session_data
<1>5. CASE lt_sleep \/ lt_reboot \/ lt_get_info
  BY <1>5 DEF lt_sleep, lt_reboot, lt_get_info, L2Request
<1>6. CASE lt_l2_send
  BY <1>6 DEF lt_l2_send, Return, handle
<1>7. CASE lt_l2_receive
  BY <1>7 DEF lt_l2_receive, ReadFails, Received, Return, handle
<1>8. CASE lt_in__session_start
  BY <1>8 DEF lt_in__session_start, Return
<1>9. CASE lt_l3_command
  BY <1>9 DEF lt_l3_command, lt_l3_encrypt_request, Return
<1>10. CASE lt_l2_send_encrypted_cmd
  BY <1>10 DEF lt_l2_send_encrypted_cmd, Return
<1>11. CASE lt_l2_send_encrypted_cmd_ack
  BY <1>11 DEF lt_l2_send_encrypted_cmd_ack, ReadFails, Return
<1>12. CASE lt_l2_recv_encrypted_res
  BY <1>12 DEF lt_l2_recv_encrypted_res, ReadFails, Return
<1>13. CASE lt_l3_decrypt_response
  BY <1>13 DEF lt_l3_decrypt_response, Return
<1>14. CASE ChipRequest \/ ChipExecute \/ ChipReset
  BY <1>14 DEF ChipRequest, ChipExecute, ChipReset, handle
<1>15. CASE UNCHANGED vars
  BY <1>15 DEF vars, handle
<1> QED
  BY <1>1, <1>2, <1>3, <1>4, <1>5, <1>6, <1>7, <1>8, <1>9, <1>10, <1>11,
     <1>12, <1>13, <1>14, <1>15 DEF Next

\* EraseInv holds in every reachable state.
LEMMA EraseInvariant == Spec => []EraseInv
<1>1. Init => EraseInv
  BY DEF Init, EraseInv, AbortErases, InCommand
<1> QED
  BY <1>1, EraseInvStep, PTL DEF Spec

\* After lt_session_abort and lt_deinit no session data is left in the handle,
\* whatever the exchange with the chip or the port returned.
THEOREM AbortIsThorough == Spec => []AbortErases
<1>1. EraseInv => AbortErases
  BY DEF EraseInv
<1> QED
  BY <1>1, EraseInvariant, PTL

(***************************************************************************)
(* The nonces at the start of a session.  KeysInv bounds every key by the  *)
(* last handshake, StartInv uses it: a key that was never given out cannot *)
(* protect a packet, so that the chip cannot have counted one.             *)
(***************************************************************************)
\* The keys of the messages that are built.
LEMMA KeysOf ==
  /\ None.key = 0 /\ Garbled.key = 0
  /\ \A t \in Requests \union Responses :
       Plain(t).key = 0 /\ \A k \in Nat : Hsk(t, k).key = k
BY DEF None, Garbled, Plain, Hsk

\* No step makes a key newer than the last handshake.
LEMMA KeysInvStep == TypeOK /\ KeysInv /\ [Next]_vars => KeysInv'
<1> SUFFICES ASSUME TypeOK, KeysInv, [Next]_vars PROVE KeysInv'
  OBVIOUS
<1> starts \in Nat /\ encrypt \in Nat /\ chipKey \in Nat /\ encrypt <= starts
  BY ConstantsAssumption DEF TypeOK
<1>f. /\ inbox.key \in Nat /\ work.key \in Nat /\ out.key \in Nat
      /\ l2buff.key \in Nat /\ buff.key \in Nat
  BY Fields DEF TypeOK
<1>n. None.key = 0 /\ Garbled.key = 0
  BY KeysOf
<1> USE <1>f, <1>n DEF KeysInv
<1>1. CASE lt_init
  BY <1>1 DEF lt_init, chip
<1>2. CASE lt_deinit
  BY <1>2 DEF lt_deinit, lt_l3_invalidate_host_session_data, chip
<1>3. CASE lt_session_start
  <2>1. starts + 1 \in Nat
    OBVIOUS
  <2>2. Hsk("HANDSHAKE", starts + 1).key = starts + 1
    BY <2>1, KeysOf DEF Requests
  <2> QED
    BY <1>3, <2>2 DEF lt_session_start, lt_out__session_start, chip
<1>4. CASE lt_session_abort \/ lt_sleep \/ lt_reboot \/ lt_get_info
  <2>1. \A t \in {"ABORT", "SLEEP", "STARTUP", "GET_INFO"} : Plain(t).key = 0
    BY KeysOf DEF Requests
  <2> QED
    BY <1>4, <2>1 DEF lt_session_abort, lt_l3_invalidate_host_session_data,
       lt_sleep, lt_reboot, lt_get_info, L2Request, handle, chip
<1>6. CASE lt_l2_send
  BY <1>6 DEF lt_l2_send, Arrive, handle
<1>7. CASE lt_l2_receive
  BY <1>7 DEF lt_l2_receive, ReadFrame, ReadFails, handle
<1>8. CASE lt_in__session_start
  BY <1>8 DEF lt_in__session_start, chip
<1>9. CASE lt_l3_command
  <2>1. Cmd(encrypt, encryption_IV, calls + 1).key = encrypt
    BY Kinds
  <2> QED
    BY <1>9, <2>1 DEF lt_l3_command, lt_l3_encrypt_request, handle, chip,
                      lt_l3_invalidate_host_session_data
<1>10. CASE lt_l2_send_encrypted_cmd
  BY <1>10 DEF lt_l2_send_encrypted_cmd, Arrive, handle
<1>11. CASE lt_l2_send_encrypted_cmd_ack
  BY <1>11 DEF lt_l2_send_encrypted_cmd_ack, ReadFrame, ReadFails, handle
<1>12. CASE lt_l2_recv_encrypted_res
  BY <1>12 DEF lt_l2_recv_encrypted_res, ReadFrame, ReadFails
<1>13. CASE lt_l3_decrypt_response
  BY <1>13 DEF lt_l3_decrypt_response, lt_l3_invalidate_host_session_data, chip
<1>14. CASE ChipRequest
  <2>1. /\ \A t \in {"ERR", "REQ_OK", "INFO_RSP"} : Plain(t).key = 0
        /\ Hsk("HSK_RSP", inbox.key).key = inbox.key
    BY KeysOf DEF Responses
  <2> QED
    BY <1>14, <2>1 DEF ChipRequest, handle
<1>15. CASE ChipExecute
  <2>1. /\ Plain("ERR").key = 0
        /\ \A r : Res(chipKey, chipIV, work.id, r).key = chipKey
    BY KeysOf, Kinds DEF Responses
  <2> QED
    BY <1>15, <2>1 DEF ChipExecute, handle
<1>16. CASE ChipReset
  BY <1>16 DEF ChipReset, handle
<1>17. CASE UNCHANGED vars
  BY <1>17 DEF vars, handle, chip
<1> QED
  BY <1>1, <1>2, <1>3, <1>4, <1>6, <1>7, <1>8, <1>9, <1>10, <1>11,
     <1>12, <1>13, <1>14, <1>15, <1>16, <1>17 DEF Next

\* No key in the handle, in the chip or on the wire is newer than the last
\* handshake.
LEMMA KeysInvariant == Spec => []KeysInv
<1>1. Init => KeysInv
  BY KeysOf DEF Init, KeysInv
<1> QED
  BY <1>1, KeysInvStep, TypeCorrect, PTL DEF Spec

\* Outside lt_session_start and its successful return StartInv says nothing.
LEMMA StartInvOther ==
  ASSUME ~Starting', ~Started'
  PROVE  StartInv'
BY DEF StartInv

\* A step of lt_session_start that leaves its nonces alone keeps StartInv if what
\* the chip holds afterwards is as old as before.
LEMMA StartInvGoesOn ==
  ASSUME StartInv, Starting \/ Started, Started' => Started,
         UNCHANGED <<starts, session, encrypt, encryption_IV, decryption_IV>>,
         inbox'.t = "CMD" => inbox'.key < starts,
         work' # None => work'.key < starts,
         chipKey' = starts => chipIV' = 0
  PROVE  StartInv'
BY DEF StartInv

\* No step lets the chip count under a key that the host has not used.
LEMMA StartInvStep ==
  TypeOK /\ PlainInv /\ EraseInv /\ KeysInv /\ StartInv /\ [Next]_vars => StartInv'
<1> SUFFICES ASSUME TypeOK, PlainInv, EraseInv, KeysInv, StartInv, [Next]_vars
             PROVE  StartInv'
  OBVIOUS
<1> starts \in Nat /\ chipKey \in Nat
  BY ConstantsAssumption DEF TypeOK
<1>f. inbox.key \in Nat /\ work.key \in Nat
  BY Fields DEF TypeOK
<1>n. None.t # "CMD" /\ Garbled.t # "CMD"
  BY Kinds
<1>1. CASE lt_init \/ lt_deinit \/ lt_session_abort
  BY <1>1, StartInvOther DEF lt_init, lt_deinit, lt_session_abort, Starting, Started
<1>2. CASE lt_sleep \/ lt_reboot \/ lt_get_info
  BY <1>2, StartInvOther DEF lt_sleep, lt_reboot, lt_get_info, L2Request,
                             Starting, Started
<1>3. CASE lt_session_start
  <2>1. /\ UNCHANGED <<chipKey, chipIV, inbox, work>>
        /\ starts' = starts + 1 /\ encryption_IV' = 0 /\ ~Started'
    BY <1>3 DEF lt_session_start, lt_out__session_start, Return, chip, Started
  <2>2. chipKey < starts + 1 /\ inbox.key < starts + 1 /\ work.key < starts + 1
    BY <1>f DEF KeysInv
  <2> QED
    BY <2>1, <2>2 DEF StartInv
<1>6. CASE lt_l2_send
  <2>1. CASE Starting'
    <3>1. /\ Starting /\ ~Started'
          /\ UNCHANGED <<starts, session, encrypt, encryption_IV, decryption_IV,
                         chipKey, chipIV>>
          /\ inbox' \in {inbox, l2buff, Garbled} /\ work' \in {work, None}
      BY <1>6, <2>1 DEF lt_l2_send, Return, Arrive, handle, Starting, Started
    <3>2. /\ inbox'.t = "CMD" => inbox'.key < starts
          /\ work' # None => work'.key < starts
          /\ chipKey' = starts => chipIV' = 0
      BY <1>n, <3>1 DEF StartInv, PlainInv
    <3> QED
      BY <3>1, <3>2, StartInvGoesOn
  <2>2. CASE ~Starting'
    BY <1>6, <2>2, StartInvOther DEF lt_l2_send, Return, Starting, Started
  <2> QED BY <2>1, <2>2
<1>7. CASE lt_l2_receive
  <2>1. CASE Starting'
    BY <1>7, <2>1, StartInvGoesOn DEF lt_l2_receive, ReadFrame, ReadFails,
       Received, Return, handle, Starting, Started, StartInv
  <2>2. CASE ~Starting'
    BY <1>7, <2>2, StartInvOther DEF lt_l2_receive, ReadFails, Received, Return,
                                     Starting, Started
  <2> QED BY <2>1, <2>2
<1>8. CASE lt_in__session_start
  <2>1. Starting
    BY <1>8 DEF lt_in__session_start, EraseInv, Starting
  <2>2. CASE Started'
    <3>1. /\ TagVerifies /\ encrypt' = starts /\ session' = "ON"
          /\ UNCHANGED <<starts, encryption_IV, decryption_IV,
                         chipKey, chipIV, inbox, work>>
      BY <1>8, <2>2 DEF lt_in__session_start, Return, Started, chip
    <3> QED
      BY <2>1, <3>1 DEF StartInv, TagVerifies
  <2>3. CASE ~Started'
    BY <1>8, <2>3, StartInvOther DEF lt_in__session_start, Return, Starting
  <2> QED BY <2>2, <2>3
<1>9. CASE lt_l3_command
  BY <1>9, StartInvOther DEF lt_l3_command, Starting, Started
<1>10. CASE lt_l2_send_encrypted_cmd \/ lt_l2_send_encrypted_cmd_ack
            \/ lt_l2_recv_encrypted_res \/ lt_l3_decrypt_response
  <2>1. op' = "cmd"
    BY <1>10 DEF lt_l2_send_encrypted_cmd, lt_l2_send_encrypted_cmd_ack,
       lt_l2_recv_encrypted_res, lt_l3_decrypt_response, EraseInv, InCommand
  <2> QED
    BY <2>1, StartInvOther DEF Starting, Started
<1>14. CASE ChipRequest
  <2>1. CASE Starting \/ Started
    <3>1. /\ Started' => Started
          /\ UNCHANGED <<starts, session, encrypt, encryption_IV, decryption_IV>>
          /\ inbox' = None /\ work = None
          /\ work' = None \/ (work' = inbox /\ inbox.t = "CMD")
          /\ \/ chipKey' = chipKey /\ chipIV' = chipIV
             \/ chipIV' = 0
             \/ chipKey' = 0
      BY <1>14 DEF ChipRequest, handle, Started
    <3>2. /\ inbox'.t = "CMD" => inbox'.key < starts
          /\ work' # None => work'.key < starts
          /\ chipKey' = starts => chipIV' = 0
      BY <1>n, <2>1, <3>1 DEF StartInv
    <3> QED
      BY <2>1, <3>1, <3>2, StartInvGoesOn
  <2>2. CASE ~Starting /\ ~Started
    BY <1>14, <2>2, StartInvOther DEF ChipRequest, Starting, Started
  <2> QED BY <2>1, <2>2
<1>15. CASE ChipExecute
  <2>1. CASE Starting \/ Started
    <3>1. /\ Started' => Started
          /\ UNCHANGED <<starts, session, encrypt, encryption_IV, decryption_IV, inbox>>
          /\ work # None /\ work' = None
          /\ \/ chipKey' = chipKey /\ work.key = chipKey
             \/ chipKey' \in {chipKey, 0} /\ chipIV' = chipIV
      BY <1>15 DEF ChipExecute, handle, Started
    <3>2. /\ inbox'.t = "CMD" => inbox'.key < starts
          /\ work' # None => work'.key < starts
          /\ chipKey' = starts => chipIV' = 0
      BY <1>f, <2>1, <3>1 DEF StartInv
    <3> QED
      BY <2>1, <3>1, <3>2, StartInvGoesOn
  <2>2. CASE ~Starting /\ ~Started
    BY <1>15, <2>2, StartInvOther DEF ChipExecute, Starting, Started
  <2> QED BY <2>1, <2>2
<1>16. CASE ChipReset
  <2>1. /\ UNCHANGED <<pc, op, ret, starts, session, encrypt, encryption_IV,
                       decryption_IV>>
        /\ inbox' = None /\ work' = None /\ chipIV' = 0
    BY <1>16 DEF ChipReset, handle
  <2> QED
    BY <1>n, <2>1 DEF StartInv, Starting, Started
<1>17. CASE UNCHANGED vars
  BY <1>17 DEF vars, handle, chip, StartInv, Starting, Started
<1> QED
  BY <1>1, <1>2, <1>3, <1>6, <1>7, <1>8, <1>9, <1>10, <1>14, <1>15, <1>16,
     <1>17 DEF Next

\* When lt_session_start returns LT_OK the handle counts from zero in both
\* directions, and so does a chip that still has the session; also when the
\* application restarts a live session and when old packets arrive late.
THEOREM SessionsStartInStep == Spec => []StartsInStep
<1>1. Init => StartInv
  BY DEF Init, StartInv, Starting, Started
<1>2. StartInv => StartsInStep
  BY DEF StartInv, Started, StartsInStep
<1> QED
  BY <1>1, <1>2, StartInvStep, TypeCorrect, PlainInvariant, EraseInvariant,
     KeysInvariant, PTL DEF Spec

(***************************************************************************)
(* The nonces after an answered command, for a chip that discards unread   *)
(* responses.  StepInv follows the key and the nonce of the command in     *)
(* progress through inbox, work, out and buff.                             *)
(***************************************************************************)
\* Outside a command and its answered return StepInv says nothing.
LEMMA StepInvOther ==
  ASSUME ~InCommand', ~Answered'
  PROVE  StepInv'
BY DEF StepInv, InCommand

\* No step puts host and chip out of step over the command in progress.
LEMMA StepInvStep ==
  DropsUnread /\ TypeOK /\ PlainInv /\ LinkInv /\ EraseInv /\ StepInv /\ [Next]_vars
    => StepInv'
<1> SUFFICES ASSUME DropsUnread, TypeOK, PlainInv, LinkInv, EraseInv, StepInv,
                    [Next]_vars
             PROVE  StepInv'
  OBVIOUS
<1> calls \in Nat /\ encryption_IV \in Nat /\ decryption_IV \in Nat
  BY ConstantsAssumption DEF TypeOK
<1>n. None.t = "none" /\ Garbled.t = "garbled"
  BY Kinds
<1>1. CASE lt_init \/ lt_deinit \/ lt_session_abort
  BY <1>1, StepInvOther DEF lt_init, lt_deinit, lt_session_abort, Return,
                            InCommand, Answered
<1>2. CASE lt_sleep \/ lt_reboot \/ lt_get_info
  BY <1>2, StepInvOther DEF lt_sleep, lt_reboot, lt_get_info, L2Request,
                            InCommand, Answered
<1>3. CASE lt_session_start
  BY <1>3, StepInvOther DEF lt_session_start, lt_out__session_start, Return,
                            InCommand, Answered
<1>4. CASE lt_l2_send \/ lt_l2_receive
  BY <1>4, StepInvOther DEF lt_l2_send, lt_l2_receive, ReadFails, Received,
                            Return, InCommand, Answered
<1>5. CASE lt_in__session_start
  BY <1>5, StepInvOther DEF lt_in__session_start, Return, EraseInv, InCommand,
                            Answered
<1>6. CASE lt_l3_command
  <2>1. CASE pc' = "idle"
    BY <1>6, <2>1, StepInvOther DEF lt_l3_command, lt_l3_encrypt_request, Return,
                                    InCommand, Answered
  <2>2. CASE pc' # "idle"
    <3>1. /\ pc' = "cmd_send" /\ buff' = Cmd(encrypt, encryption_IV, calls + 1)
          /\ encrypt' = encrypt /\ encryption_IV' = encryption_IV + 1
          /\ calls' = calls + 1
          /\ UNCHANGED <<inbox, work, out, executed>>
      BY <1>6, <2>2 DEF lt_l3_command, lt_l3_encrypt_request, Return, chip,
                        lt_l3_nonce_increase
    <3>2. OfThisCommand(buff)'
      BY <3>1, Kinds DEF OfThisCommand
    <3>3. /\ calls + 1 \notin executed
          /\ inbox.t = "CMD" => inbox.id # calls + 1
          /\ work # None => work.id # calls + 1
          /\ out.t = "RES" => out.id # calls + 1
      BY DEF LinkInv, ChipInv
    <3> QED
      BY <3>1, <3>2, <3>3 DEF StepInv, InCommand, Answered
  <2> QED BY <2>1, <2>2
<1>7. CASE lt_l2_send_encrypted_cmd
  <2>1. CASE pc' = "idle"
    BY <1>7, <2>1, StepInvOther DEF lt_l2_send_encrypted_cmd, Return,
                                    InCommand, Answered
  <2>2. CASE pc' # "idle"
    <3>1. /\ pc = "cmd_send" /\ pc' = "cmd_ack"
          /\ UNCHANGED <<encrypt, encryption_IV, calls, executed>>
          /\ inbox' \in {buff, Garbled} /\ work' \in {work, None} /\ out' = None
      BY <1>7, <2>2, ArriveDrops DEF lt_l2_send_encrypted_cmd, Return, handle
    <3>2. OfThisCommand(buff) /\ buff.t = "CMD" /\ calls \notin executed
      BY <3>1 DEF StepInv, LinkInv, CallInv
    <3>3. work # None /\ work.id = calls => OfThisCommand(work)
      BY <3>1 DEF StepInv, InCommand
    <3> QED
      BY <1>n, <3>1, <3>2, <3>3 DEF StepInv, InCommand, Answered, OfThisCommand
  <2> QED BY <2>1, <2>2
<1>8. CASE lt_l2_send_encrypted_cmd_ack
  <2>1. CASE pc' = "idle"
    BY <1>8, <2>1, StepInvOther DEF lt_l2_send_encrypted_cmd_ack, ReadFails,
                                    Return, InCommand, Answered
  <2>2. CASE pc' # "idle"
    <3>1. /\ pc = "cmd_ack" /\ pc' = "cmd_recv"
          /\ UNCHANGED <<encrypt, encryption_IV, calls, executed, inbox, work,
                         chipKey, chipIV>>
          /\ out' = None
      BY <1>8, <2>2 DEF lt_l2_send_encrypted_cmd_ack, ReadFrame, ReadFails,
                        Return, handle
    <3> QED
      BY <1>n, <3>1 DEF StepInv, InCommand, Answered, OfThisCommand
  <2> QED BY <2>1, <2>2
<1>9. CASE lt_l2_recv_encrypted_res
  <2>1. CASE pc' = "idle"
    BY <1>9, <2>1, StepInvOther DEF lt_l2_recv_encrypted_res, ReadFails, Return,
                                    InCommand, Answered
  <2>2. CASE pc' # "idle"
    <3>1. /\ pc = "cmd_recv" /\ pc' = "cmd_in"
          /\ UNCHANGED <<encrypt, encryption_IV, calls, executed, inbox, work,
                         chipKey, chipIV>>
          /\ out' = None /\ buff' \in {buff, out, Garbled}
      BY <1>9, <2>2 DEF lt_l2_recv_encrypted_res, ReadFrame, ReadFails, Return
    <3>2. /\ buff.t = "CMD"
          /\ out.t = "RES" => OfThisCommand(out)
      BY <3>1 DEF LinkInv, CallInv, StepInv, InCommand
    <3>3. buff'.t = "RES" => OfThisCommand(buff)'
      BY <1>n, <3>1, <3>2 DEF OfThisCommand
    <3> QED
      BY <1>n, <3>1, <3>3 DEF StepInv, InCommand, Answered, OfThisCommand
  <2> QED BY <2>1, <2>2
<1>10. CASE lt_l3_decrypt_response
  <2>1. CASE Answered'
    <3>1. /\ Authentic /\ pc = "cmd_in" /\ pc' = "idle"
          /\ decryption_IV' = decryption_IV + 1
          /\ UNCHANGED <<encrypt, encryption_IV, calls, executed, inbox,
                         chipKey, chipIV>>
      BY <1>10, <2>1 DEF lt_l3_decrypt_response, Return, Answered, chip,
                         lt_l3_nonce_increase
    <3>2. OfThisCommand(buff) /\ calls \in executed
      BY <3>1 DEF Authentic, StepInv, LinkInv, CallInv
    <3>3. encryption_IV = decryption_IV + 1
      BY <3>1, <3>2 DEF Authentic, OfThisCommand
    <3> QED
      BY <3>1, <3>2, <3>3 DEF StepInv, InCommand
  <2>2. CASE ~Answered'
    BY <1>10, <2>2, StepInvOther DEF lt_l3_decrypt_response, Return, InCommand
  <2> QED BY <2>1, <2>2
<1>11. CASE ChipRequest
  <2>1. CASE InCommand \/ Answered
    <3>1. /\ UNCHANGED <<pc, op, ret, calls, executed, buff, encrypt,
                         encryption_IV, decryption_IV>>
          /\ inbox' = None
          /\ work' = None \/ (work' = inbox /\ inbox.t = "CMD")
          /\ \/ chipKey' \in {chipKey, 0} /\ chipIV' = chipIV
             \/ chipKey' = 0
             \/ inbox.t = "HANDSHAKE"
      BY <1>11 DEF ChipRequest, handle
    <3>2. out'.t # "RES"
      <4>1. /\ \A t \in {"ERR", "REQ_OK", "INFO_RSP"} : Plain(t).t = t
            /\ Hsk("HSK_RSP", inbox.key).t = "HSK_RSP"
        BY Kinds, Fields DEF TypeOK, Responses
      <4> QED BY <1>11, <4>1 DEF ChipRequest
    <3>3. (Answered \/ InCommand) /\ calls \in executed => inbox.t # "HANDSHAKE"
      BY DEF StepInv, LinkInv, CallInv, InCommand
    <3>4. (Answered \/ InCommand) /\ calls \in executed =>
            encrypt # 0 /\ (chipKey' = encrypt => chipIV' = encryption_IV)
      BY <3>1, <3>3 DEF StepInv
    <3>5. InCommand /\ work' # None /\ work'.id = calls => OfThisCommand(work)'
      BY <3>1 DEF StepInv, OfThisCommand
    <3> QED
      BY <1>n, <3>1, <3>2, <3>4, <3>5 DEF StepInv, InCommand, Answered, OfThisCommand
  <2>2. CASE ~InCommand /\ ~Answered
    BY <1>11, <2>2, StepInvOther DEF ChipRequest, InCommand, Answered
  <2> QED BY <2>1, <2>2
<1>12. CASE ChipExecute
  <2>1. /\ UNCHANGED <<pc, op, ret, calls, inbox, buff, encrypt, encryption_IV,
                       decryption_IV>>
        /\ work # None /\ work' = None
    BY <1>12 DEF ChipExecute, handle
  <2>2. work.id <= calls /\ \A e \in executed : e < work.id
    BY <2>1 DEF LinkInv, ChipInv
  <2>3. work.id \in Nat /\ work.iv \in Nat
    BY Fields DEF TypeOK
  <2>4. calls \notin executed
    BY <2>2, <2>3
  <2>5. ~Answered
    BY <2>4 DEF StepInv
  <2>6. CASE ~InCommand
    BY <2>1, <2>5, <2>6, StepInvOther DEF InCommand, Answered
  <2>7. CASE InCommand
    <3>1. CASE chipKey # 0 /\ work.key = chipKey /\ work.iv = chipIV
      <4>1. /\ executed' = executed \union {work.id}
            /\ chipKey' = chipKey /\ chipIV' = chipIV + 1
            /\ \E r \in {"OK", "FAIL"} : out' = Res(chipKey, chipIV, work.id, r)
        BY <1>12, <3>1 DEF ChipExecute
      <4>2. /\ out'.t = "RES" /\ out'.id = work.id
            /\ out'.key = work.key /\ out'.iv = work.iv
        BY <3>1, <4>1, Kinds
      <4>3. work.id = calls => OfThisCommand(work)
        BY <2>1, <2>7 DEF StepInv
      <4>4. out'.id = calls => OfThisCommand(out)'
        BY <2>1, <4>2, <4>3 DEF OfThisCommand
      <4>5. calls \in executed' =>
              encrypt # 0 /\ (chipKey' = encrypt => chipIV' = encryption_IV)
        BY <2>4, <3>1, <4>1, <4>3 DEF OfThisCommand
      <4> QED
        BY <1>n, <2>1, <2>5, <2>7, <4>2, <4>4, <4>5
           DEF StepInv, InCommand, Answered, OfThisCommand
    <3>2. CASE ~(chipKey # 0 /\ work.key = chipKey /\ work.iv = chipIV)
      <4>1. executed' = executed /\ out'.t = "ERR"
        <5>1. Plain("ERR").t = "ERR"
          BY Kinds DEF Responses
        <5> QED BY <1>12, <3>2, <5>1 DEF ChipExecute
      <4> QED
        BY <1>n, <2>1, <2>4, <2>5, <2>7, <4>1
           DEF StepInv, InCommand, Answered, OfThisCommand
    <3> QED BY <3>1, <3>2
  <2> QED BY <2>6, <2>7
<1>13. CASE ChipReset
  <2>1. /\ UNCHANGED <<pc, op, ret, calls, executed, buff, encrypt, encryption_IV,
                       decryption_IV>>
        /\ inbox' = None /\ work' = None /\ out' = None /\ chipKey' = 0
    BY <1>13 DEF ChipReset, handle
  <2> QED
    BY <1>n, <2>1 DEF StepInv, InCommand, Answered, OfThisCommand
<1>14. CASE UNCHANGED vars
  BY <1>14 DEF vars, handle, chip, StepInv, InCommand, Answered, OfThisCommand
<1> QED
  BY <1>1, <1>2, <1>3, <1>4, <1>5, <1>6, <1>7, <1>8, <1>9, <1>10, <1>11,
     <1>12, <1>13, <1>14 DEF Next

\* With a chip that discards unread responses, a command that returned a result
\* leaves both nonces of the handle equal, and equal to the nonce of a chip that
\* still has the session.
THEOREM CommandsEndInStep == DropsUnread => (Spec => []AnsweredInStep)
<1> SUFFICES ASSUME DropsUnread PROVE Spec => []AnsweredInStep
  OBVIOUS
<1>1. Init => StepInv
  BY Kinds DEF Init, StepInv, InCommand, Answered
<1>2. StepInv => AnsweredInStep
  BY DEF StepInv, Answered, AnsweredInStep
<1>3. TypeOK /\ PlainInv /\ LinkInv /\ EraseInv /\ StepInv /\ [Next]_vars => StepInv'
  BY StepInvStep
<1> QED
  BY <1>1, <1>2, <1>3, TypeCorrect, PlainInvariant, LinkInvariant,
     EraseInvariant, PTL DEF Spec
=============================================================================
