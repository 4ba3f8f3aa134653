----------------------------- MODULE LtSession -----------------------------
(***************************************************************************)
(* The Secure Session between a libtropic handle and one TROPIC01 chip.    *)
(*                                                                         *)
(* The host runs one API call at a time.  A call is a chain of steps (one  *)
(* per function that talks to the chip), the chip works between them, and  *)
(* any exchange may fail.  Cryptography is ideal: a ciphertext is a        *)
(* message that carries the number of the key and the nonce it was made    *)
(* with, and it decrypts under that key and nonce only.  Session keys are  *)
(* numbered by the handshake that made them; number 0 is a zeroed context. *)
(***************************************************************************)
EXTENDS Naturals

CONSTANTS
  UINT32_MAX,   \* the largest nonce (2^32 - 1 in the code)
  MaxCalls,     \* bound: L3 commands the application issues
  MaxStarts,    \* bound: calls of lt_session_start
  MayRestart,   \* does the application start a session while one is ON?
  DropsUnread   \* does a new request make the chip discard an unread response?

ASSUME ConstantsAssumption ==
  /\ UINT32_MAX \in Nat /\ MaxCalls \in Nat /\ MaxStarts \in Nat
  /\ MayRestart \in BOOLEAN /\ DropsUnread \in BOOLEAN

VARIABLES
  \* the handle (lt_l3_state_t and the request or response in lt_l2_state_t)
  session,         \* h->l3.session
  encrypt,         \* key in the encryption context
  decrypt,         \* key in the decryption context
  encryption_IV,   \* nonce of the next command
  decryption_IV,   \* nonce of the next result
  buff,            \* h->l3.buff
  l2buff,          \* h->l2.buff
  \* the API call in progress, or the last one
  pc, op, ret,
  port,            \* "open": lt_init succeeded, lt_deinit was not called since
  calls, starts,   \* L3 commands encrypted, handshakes begun
  \* the chip
  chipKey, chipIV, \* its session key (0: none), nonce of the next command
  inbox,           \* request received and not yet looked at
  work,            \* command acknowledged and being executed
  out,             \* response waiting to be read
  \* history
  wire,            \* command ciphertexts written to the chip
  executed, runs,  \* commands the chip executed, number of executions
  accepted         \* <<command, command its accepted result answers>>

handle == <<session, encrypt, decrypt, encryption_IV, decryption_IV, buff>>
chip   == <<chipKey, chipIV, inbox, work, out, executed, runs>>
hist   == <<wire, accepted>>
vars   == <<handle, l2buff, pc, op, ret, port, calls, starts, chip, hist>>

(***************************************************************************)
(* Messages: L2 requests and responses, and the L3 packets they carry.     *)
(***************************************************************************)
Requests  == {"HANDSHAKE", "ABORT", "SLEEP", "STARTUP", "GET_INFO", "CMD"}
Responses == {"HSK_RSP",    \* answer to a handshake
              "REQ_OK",     \* acknowledgement without data
              "INFO_RSP",   \* answer to Get_Info_Req
              "RES",        \* an encrypted result
              "ERR"}        \* an error status
Msg == [t : Requests \union Responses \union {"garbled", "none"},
        key : Nat, iv : Nat, id : Nat, code : {"", "OK", "FAIL"}]

None    == [t |-> "none", key |-> 0, iv |-> 0, id |-> 0, code |-> ""]
Plain(t)  == [None EXCEPT !.t = t]
Garbled == Plain("garbled")
Hsk(t, k) == [None EXCEPT !.t = t, !.key = k]
Cmd(k, i, c) == [t |-> "CMD", key |-> k, iv |-> i, id |-> c, code |-> ""]
Res(k, i, c, r) == [t |-> "RES", key |-> k, iv |-> i, id |-> c, code |-> r]

Init ==
  /\ session = "OFF" /\ encrypt = 0 /\ decrypt = 0
  /\ encryption_IV = 0 /\ decryption_IV = 0 /\ buff = None /\ l2buff = None
  /\ pc = "idle" /\ op = "none" /\ ret = "none" /\ port = "closed"
  /\ calls = 0 /\ starts = 0
  /\ chipKey = 0 /\ chipIV = 0 /\ inbox = None /\ work = None /\ out = None
  /\ wire = {} /\ executed = {} /\ runs = 0 /\ accepted = {}

(***************************************************************************)
(* Helpers of the handlers.                                                *)
(***************************************************************************)
\* An API function returns r.
Return(r) == pc' = "idle" /\ ret' = r

\* lt_l3_nonce_increase that wraps around instead of stopping.
nonce_wraps(nonce) == (nonce + 1) % (UINT32_MAX + 1)

\* lt_l3_nonce_increase without the test for the last nonce.
nonce_unchecked(nonce) == nonce + 1

lt_l3_nonce_increase(nonce) == IF nonce = UINT32_MAX THEN nonce ELSE nonce + 1

lt_l3_invalidate_host_session_data ==
  /\ session' = "OFF"
  /\ encrypt' = 0 /\ decrypt' = 0
  /\ encryption_IV' = 0 /\ decryption_IV' = 0
  /\ buff' = None

\* What a write of m leaves in the chip: m or a damaged m arrives; the chip
\* may give up a command it still executes.  A chip that does not discard
\* what the host has not read may also keep that, or ignore m while busy.
Arrive(m) ==
  \/ /\ inbox' \in {m, Garbled}
     /\ work' \in {work, None}
     /\ out' = None
  \/ /\ ~DropsUnread
     /\ \/ inbox' \in {m, Garbled} /\ UNCHANGED <<work, out>>
        \/ UNCHANGED <<inbox, work, out>>

\* lt_l2_frame_check(): only REQUEST_OK and RESULT_OK frames give LT_OK.
lt_l2_frame_check(f) == f.t \in {"HSK_RSP", "REQ_OK", "INFO_RSP", "RES"}

\* A read that yields no usable frame: the port fails, the chip stays busy or
\* reports an alarm, or the frame is damaged or has an error status.
ReadFails ==
  /\ out' \in {out, None}
  /\ Return("LT_FAIL")
  /\ UNCHANGED <<chipKey, chipIV, inbox, work, executed, runs>>

\* A read that takes the waiting frame out of the chip.
ReadFrame ==
  /\ lt_l2_frame_check(out)
  /\ out' = None
  /\ UNCHANGED <<chipKey, chipIV, inbox, work, executed, runs>>

(***************************************************************************)
(* Opening and closing the handle.                                         *)
(***************************************************************************)
lt_init ==
  /\ pc = "idle"
  /\ session' = "OFF"
  /\ op' = "init"
  /\ \/ port' = "open" /\ Return("LT_OK")
     \/ port' = "closed" /\ Return("LT_FAIL")
  /\ UNCHANGED <<encrypt, decrypt, encryption_IV, decryption_IV, buff, l2buff,
                 calls, starts, chip, hist>>

lt_deinit ==
  /\ pc = "idle" /\ port = "open"
  /\ lt_l3_invalidate_host_session_data
  /\ op' = "deinit"
  /\ port' = "closed"
  /\ \E r \in {"LT_OK", "LT_FAIL"} : Return(r)
  /\ UNCHANGED <<l2buff, calls, starts, chip, hist>>

(***************************************************************************)
(* Plain L2 exchanges: lt_session_start, lt_session_abort, lt_sleep,       *)
(* lt_reboot and lt_get_info_* fill l2.buff, then send and receive.        *)
(***************************************************************************)
\* lt_out__session_start that relies on nonces cleared at the end of a session.
session_start_keeps_nonces ==
  /\ starts' = starts + 1
  /\ \/ Return("LT_FAIL") /\ UNCHANGED l2buff
     \/ /\ l2buff' = Hsk("HANDSHAKE", starts + 1)
        /\ pc' = "l2_send" /\ UNCHANGED ret
  /\ UNCHANGED handle

\* lt_out__session_start: the nonces are cleared before anything can fail.
lt_out__session_start ==
  /\ encryption_IV' = 0 /\ decryption_IV' = 0
  /\ starts' = starts + 1
  /\ \/ Return("LT_FAIL") /\ UNCHANGED l2buff           \* no random bytes
     \/ /\ l2buff' = Hsk("HANDSHAKE", starts + 1)
        /\ pc' = "l2_send" /\ UNCHANGED ret
  /\ UNCHANGED <<session, encrypt, decrypt, buff>>

lt_session_start ==
  /\ pc = "idle" /\ port = "open" /\ starts < MaxStarts
  /\ session = "ON" => MayRestart
  /\ op' = "start"
  /\ lt_out__session_start
  /\ UNCHANGED <<port, calls, chip, hist>>

\* lt_session_abort that leaves the session data to a successful exchange.
abort_without_invalidation ==
  /\ pc = "idle" /\ port = "open"
  /\ op' = "abort"
  /\ l2buff' = Plain("ABORT")
  /\ pc' = "l2_send"
  /\ UNCHANGED <<handle, ret, port, calls, starts, chip, hist>>

lt_session_abort ==
  /\ pc = "idle" /\ port = "open"
  /\ lt_l3_invalidate_host_session_data
  /\ op' = "abort"
  /\ l2buff' = Plain("ABORT")
  /\ pc' = "l2_send"
  /\ UNCHANGED <<ret, port, calls, starts, chip, hist>>

\* lt_sleep, lt_reboot and the lt_get_info functions do not touch h->l3.
L2Request(o, t) ==
  /\ pc = "idle" /\ port = "open"
  /\ op' = o
  /\ l2buff' = Plain(t)
  /\ pc' = "l2_send"
  /\ UNCHANGED <<handle, ret, port, calls, starts, chip, hist>>

lt_sleep == L2Request("sleep", "SLEEP")
lt_reboot == L2Request("reboot", "STARTUP")
lt_get_info == L2Request("info", "GET_INFO")

lt_l2_send ==
  /\ pc = "l2_send"
  /\ \/ Arrive(l2buff) /\ pc' = "l2_recv" /\ UNCHANGED ret
     \/ Return("LT_FAIL") /\ (Arrive(l2buff) \/ UNCHANGED <<inbox, work, out>>)
  /\ UNCHANGED <<handle, l2buff, op, port, calls, starts, chipKey, chipIV,
                 executed, runs, hist>>

\* What is left of the call once lt_l2_receive() returned LT_OK with f: the
\* handshake goes on; abort, sleep and reboot want an empty response (and
\* reboot still waits and polls the mode); the others take the data.
Received(f) ==
  \/ op = "start" /\ pc' = "hs_in" /\ UNCHANGED ret
  \/ op \in {"abort", "sleep"} /\ Return(IF f.t = "REQ_OK" THEN "LT_OK" ELSE "LT_FAIL")
  \/ op = "reboot" /\ (\/ f.t = "REQ_OK" /\ Return("LT_OK")
                       \/ Return("LT_FAIL"))
  \/ op = "info" /\ Return(IF f.t = "INFO_RSP" THEN "LT_OK" ELSE "LT_FAIL")

\* The resends of lt_l2_receive (LtL2) bring the same response, or fail.
lt_l2_receive ==
  /\ pc = "l2_recv"
  /\ \/ ReadFrame /\ l2buff' = out /\ Received(out)
     \/ ReadFails /\ UNCHANGED l2buff
  /\ UNCHANGED <<handle, op, port, calls, starts, hist>>

\* lt_in__session_start(): the tag over the transcript is checked with the
\* current decryption_IV, then both contexts get the new keys.
TagVerifies == /\ l2buff.t = "HSK_RSP"
               /\ l2buff.key = starts
               /\ decryption_IV = 0

\* lt_in__session_start that sets SESSION_ON before the tag is checked.
session_on_too_early ==
  /\ pc = "hs_in"
  /\ session' = "ON"
  /\ \/ TagVerifies /\ encrypt' = starts /\ decrypt' = starts /\ Return("LT_OK")
     \/ encrypt' = 0 /\ decrypt' = 0 /\ Return("LT_FAIL")
  /\ UNCHANGED <<encryption_IV, decryption_IV, buff, l2buff, op, port, calls,
                 starts, chip, hist>>

lt_in__session_start ==
  /\ pc = "hs_in"
  /\ \/ /\ TagVerifies
        /\ encrypt' = starts /\ decrypt' = starts
        /\ session' = "ON"
        /\ Return("LT_OK")
     \/ /\ encrypt' = 0 /\ decrypt' = 0
        /\ Return("LT_FAIL")
        /\ UNCHANGED session
  /\ UNCHANGED <<encryption_IV, decryption_IV, buff, l2buff, op, port, calls,
                 starts, chip, hist>>

(***************************************************************************)
(* L3 commands.  All of them have the shape of lt_ping: session check,     *)
(* lt_out__*, lt_l2_send_encrypted_cmd, lt_l2_recv_encrypted_res, lt_in__*.*)
(***************************************************************************)
lt_l3_encrypt_request ==
  \/ /\ lt_l3_invalidate_host_session_data              \* AES-GCM failed
     /\ Return("LT_FAIL")
  \/ /\ buff' = Cmd(encrypt, encryption_IV, calls + 1)
     /\ encryption_IV' = lt_l3_nonce_increase(encryption_IV)
     /\ IF encryption_IV = UINT32_MAX
          THEN Return("LT_NONCE_OVERFLOW")
          ELSE pc' = "cmd_send" /\ UNCHANGED ret
     /\ UNCHANGED <<session, encrypt, decrypt, decryption_IV>>

lt_l3_command ==
  /\ pc = "idle" /\ calls < MaxCalls
  /\ op' = "cmd"
  /\ \/ /\ session # "ON"
        /\ Return("LT_HOST_NO_SESSION")
        /\ UNCHANGED <<handle, calls>>
     \/ /\ session = "ON"
        /\ calls' = calls + 1
        /\ lt_l3_encrypt_request
  /\ UNCHANGED <<l2buff, port, starts, chip, hist>>

\* First half of lt_l2_send_encrypted_cmd: the packet is written.
lt_l2_send_encrypted_cmd ==
  /\ pc = "cmd_send"
  /\ \/ /\ Arrive(buff) /\ wire' = wire \union {buff}
        /\ \/ pc' = "cmd_ack" /\ UNCHANGED ret
           \/ Return("LT_FAIL")
     \/ /\ Return("LT_FAIL")
        /\ UNCHANGED <<inbox, work, out, wire>>
  /\ UNCHANGED <<handle, l2buff, op, port, calls, starts, chipKey, chipIV,
                 executed, runs, accepted>>

\* Acknowledgement whose errors are ignored.
ack_errors_ignored ==
  /\ pc = "cmd_ack"
  /\ out' \in {out, None}
  /\ pc' = "cmd_recv"
  /\ UNCHANGED <<ret, chipKey, chipIV, inbox, work, executed, runs>>
  /\ UNCHANGED <<handle, l2buff, op, port, calls, starts, hist>>

\* Second half: any frame that passes the frame check acknowledges it.  REQ_OK
\* stands for REQUEST_OK and for REQUEST_CONT, which are both taken here; that
\* lt_l2_recv_encrypted_res refuses REQUEST_CONT is a case of ReadFails.
lt_l2_send_encrypted_cmd_ack ==
  /\ pc = "cmd_ack"
  /\ \/ ReadFrame /\ pc' = "cmd_recv" /\ UNCHANGED ret
     \/ ReadFails
  /\ UNCHANGED <<handle, l2buff, op, port, calls, starts, hist>>

\* The data of the frame is copied into buff: an empty frame leaves the
\* command there, and a damaged RESULT_CONT frame is not noticed.
lt_l2_recv_encrypted_res ==
  /\ pc = "cmd_recv"
  /\ \/ /\ ReadFrame
        /\ buff' \in {IF out.t = "REQ_OK" THEN buff ELSE out, Garbled}
        /\ pc' = "cmd_in" /\ UNCHANGED ret
     \/ ReadFails /\ UNCHANGED buff
  /\ UNCHANGED <<session, encrypt, decrypt, encryption_IV, decryption_IV,
                 l2buff, op, port, calls, starts, hist>>

\* Decryption with the nonce found in the packet instead of the handle's own.
authentic_any_nonce == buff.t = "RES" /\ buff.key = decrypt /\ decrypt # 0

Authentic == /\ buff.t = "RES"
             /\ buff.key = decrypt /\ decrypt # 0
             /\ buff.iv = decryption_IV

lt_l3_decrypt_response ==
  /\ pc = "cmd_in"
  /\ \/ /\ ~Authentic
        /\ lt_l3_invalidate_host_session_data
        /\ Return("LT_FAIL")
        /\ UNCHANGED accepted
     \/ /\ Authentic
        /\ decryption_IV' = lt_l3_nonce_increase(decryption_IV)
        /\ Return(IF decryption_IV = UINT32_MAX THEN "LT_NONCE_OVERFLOW"
                  ELSE IF buff.code = "OK" THEN "LT_OK" ELSE "LT_L3_FAIL")
        /\ accepted' = IF decryption_IV = UINT32_MAX THEN accepted
                       ELSE accepted \union {<<calls, buff.id>>}
        /\ UNCHANGED <<session, encrypt, decrypt, encryption_IV, buff>>
  /\ UNCHANGED <<l2buff, op, port, calls, starts, chip, wire>>

(***************************************************************************)
(* The chip, as libtropic's functions and functional tests rely on it: one *)
(* request at a time, one response at a time.                              *)
(***************************************************************************)
ChipRequest ==
  /\ inbox # None /\ work = None /\ out = None
  /\ inbox' = None
  /\ \/ /\ out' = Plain("ERR")                           \* refused
        /\ chipKey' = chipKey \/ (inbox.t = "HANDSHAKE" /\ chipKey' = 0)
        /\ UNCHANGED <<chipIV, work>>
     \/ /\ inbox.t = "HANDSHAKE"
        /\ out' = Hsk("HSK_RSP", inbox.key)
        /\ chipKey' = inbox.key /\ chipIV' = 0
        /\ UNCHANGED work
     \/ /\ inbox.t \in {"ABORT", "SLEEP", "STARTUP"}
        /\ out' = Plain("REQ_OK")
        /\ chipKey' = 0 /\ chipIV' = 0
        /\ UNCHANGED work
     \/ /\ inbox.t = "GET_INFO"
        /\ out' = Plain("INFO_RSP")
        /\ UNCHANGED <<chipKey, chipIV, work>>
     \/ /\ inbox.t = "CMD" /\ chipKey # 0
        /\ out' = Plain("REQ_OK")
        /\ work' = inbox
        /\ UNCHANGED <<chipKey, chipIV>>
  /\ UNCHANGED <<handle, l2buff, pc, op, ret, port, calls, starts, executed, runs, hist>>

ChipExecute ==
  /\ work # None /\ out = None
  /\ work' = None
  /\ IF chipKey # 0 /\ work.key = chipKey /\ work.iv = chipIV
       THEN /\ executed' = executed \union {work.id} /\ runs' = runs + 1
            /\ \E r \in {"OK", "FAIL"} : out' = Res(chipKey, chipIV, work.id, r)
            /\ chipIV' = chipIV + 1
            /\ UNCHANGED chipKey
       ELSE /\ out' = Plain("ERR")                       \* L2 TAG_ERR
            /\ chipKey' \in {chipKey, 0}
            /\ UNCHANGED <<chipIV, executed, runs>>
  /\ UNCHANGED <<handle, l2buff, pc, op, ret, port, calls, starts, inbox, hist>>

\* Power loss or a reset of its own.
ChipReset ==
  /\ chipKey' = 0 /\ chipIV' = 0
  /\ inbox' = None /\ work' = None /\ out' = None
  /\ UNCHANGED <<handle, l2buff, pc, op, ret, port, calls, starts, executed, runs, hist>>

Next ==
  \/ lt_init \/ lt_deinit
  \/ lt_session_start \/ lt_session_abort \/ lt_sleep \/ lt_reboot \/ lt_get_info
  \/ lt_l2_send \/ lt_l2_receive \/ lt_in__session_start
  \/ lt_l3_command \/ lt_l2_send_encrypted_cmd \/ lt_l2_send_encrypted_cmd_ack
  \/ lt_l2_recv_encrypted_res \/ lt_l3_decrypt_response
  \/ ChipRequest \/ ChipExecute \/ ChipReset

Spec == Init /\ [][Next]_vars
(***************************************************************************)
(* Properties.                                                             *)
(***************************************************************************)
\* Every variable has its type; the nonces stay within 32 bits.
TypeOK ==
  /\ session \in {"ON", "OFF"}
  /\ encrypt \in 0..starts /\ decrypt \in 0..starts
  /\ encryption_IV \in 0..UINT32_MAX /\ decryption_IV \in 0..UINT32_MAX
  /\ buff \in Msg /\ l2buff \in Msg
  /\ pc \in {"idle", "l2_send", "l2_recv", "hs_in",
             "cmd_send", "cmd_ack", "cmd_recv", "cmd_in"}
  /\ op \in {"none", "init", "deinit", "start", "abort", "sleep", "reboot",
             "info", "cmd"}
  /\ ret \in {"none", "LT_OK", "LT_FAIL", "LT_L3_FAIL", "LT_HOST_NO_SESSION",
              "LT_NONCE_OVERFLOW"}
  /\ port \in {"open", "closed"}
  /\ calls \in 0..MaxCalls /\ starts \in 0..MaxStarts
  /\ chipKey \in Nat /\ chipIV \in Nat
  /\ inbox \in Msg /\ work \in Msg /\ out \in Msg
  /\ wire \subseteq Msg
  /\ executed \subseteq Nat /\ runs \in Nat
  /\ accepted \subseteq Nat \X Nat

\* A key and a nonce protect one command only: no two different packets that
\* lt_l2_send_encrypted_cmd writes carry the same pair, through failed
\* exchanges, reused handles and the end of the nonce range.
NonceUsedOnce ==
  \A p, q \in wire : p.key = q.key /\ p.iv = q.iv => p = q

\* A result that lt_l3_decrypt_response accepts answers the very command the
\* API call encrypted, never an earlier one whose answer came late.
ResultAnswersCommand == \A a \in accepted : a[1] = a[2]

\* Between calls, SESSION_ON means that both contexts hold the keys of one
\* completed handshake.
OnMeansEstablished ==
  pc = "idle" /\ session = "ON" => encrypt # 0 /\ encrypt = decrypt

\* When lt_session_start returns LT_OK the host counts from zero, and so does
\* the chip unless it has lost the session since.
StartsInStep ==
  pc = "idle" /\ op = "start" /\ ret = "LT_OK" =>
    /\ session = "ON"
    /\ encryption_IV = 0 /\ decryption_IV = 0
    /\ chipKey = encrypt => chipIV = 0

\* When a command returns a result (good or bad) both directions are in step
\* again, with each other and with a chip that still has the session.
AnsweredInStep ==
  pc = "idle" /\ op = "cmd" /\ ret \in {"LT_OK", "LT_L3_FAIL"} =>
    /\ encryption_IV = decryption_IV
    /\ chipKey = encrypt => chipIV = encryption_IV

\* lt_session_abort and lt_deinit leave no session data behind, whatever the
\* exchange with the chip or the port returns.
AbortErases ==
  op \in {"abort", "deinit"} =>
    session = "OFF" /\ encrypt = 0 /\ decrypt = 0 /\ buff = None

\* The session implements the promise of LtChannel: at-most-once, in-order
\* execution, and an answer only for the call in progress.  A command counts as
\* answered when a result made for it is accepted.
Channel == INSTANCE LtChannel WITH answered <- {a[2] : a \in accepted}

\* lt_ping and its siblings behave as LtChannel, through every failure.
ImplementsChannel == Channel!Spec

(***************************************************************************)
(* The inductive invariants behind the properties (LtSession_proofs).      *)
(***************************************************************************)
Starting  == op = "start" /\ pc \in {"l2_send", "l2_recv", "hs_in"}
InCommand == pc \in {"cmd_send", "cmd_ack", "cmd_recv", "cmd_in"}

\* Keys: a live session's nonce is beyond every nonce written under its key,
\* and no packet was ever written under a key still being negotiated.
KeyInv ==
  /\ session = "ON" => encrypt # 0 /\ encrypt = decrypt
  /\ pc = "hs_in" => op = "start"
  /\ InCommand => session = "ON"
  /\ Starting => session = "OFF" /\ starts > 0 /\ \A p \in wire : p.key < starts
  /\ \A p \in wire : p.key <= starts
  /\ session = "ON" /\ pc # "cmd_send" =>
       \A p \in wire : p.key = encrypt => p.iv < encryption_IV
  /\ pc = "cmd_send" =>
       /\ buff.key = encrypt /\ encryption_IV = buff.iv + 1
       /\ \A p \in wire : p.key = encrypt => p.iv < buff.iv
  /\ NonceUsedOnce

\* h->l2.buff carries plain requests and responses only.
PlainInv == l2buff.t # "CMD"

\* What the chip holds: commands older than the one in progress at most once,
\* never behind its acknowledgement, and results of executed commands only.
ChipInv ==
  /\ executed \subseteq 1..calls
  /\ inbox.t = "CMD" => inbox.id \in 1..calls /\ \A e \in executed : e < inbox.id
  /\ work # None =>
       /\ work.id \in 1..calls /\ \A e \in executed : e < work.id
       /\ inbox.t = "CMD" => work.id < inbox.id
  /\ out.t = "RES" => out.id \in executed

\* What the call in progress can still be given.
CallInv ==
  /\ pc \in {"cmd_send", "cmd_ack", "cmd_recv"} => buff.t = "CMD" /\ buff.id = calls
  /\ pc = "cmd_send" =>
       /\ calls > 0 /\ calls \notin executed
       /\ inbox.t = "CMD" => inbox.id < calls
       /\ work # None => work.id < calls
  /\ pc \in {"cmd_ack", "cmd_recv"} /\ inbox.t = "CMD" => inbox.id = calls
  /\ pc = "cmd_ack" /\ work # None /\ work.id # calls => out = None
  /\ pc = "cmd_ack" /\ out.t = "RES" /\ out.id # calls => work = None
  /\ pc = "cmd_recv" /\ work # None => work.id = calls
  /\ pc = "cmd_recv" /\ out.t = "RES" => out.id = calls
  /\ pc = "cmd_in" /\ buff.t = "RES" => buff.id = calls /\ calls \in executed

AnswerInv ==
  /\ \A a \in accepted : a[1] = a[2] /\ a[2] <= calls
  /\ InCommand => \A a \in accepted : a[2] # calls

LinkInv == ChipInv /\ CallInv /\ AnswerInv

\* Which call each control point belongs to; what lt_session_abort and lt_deinit
\* erased stays erased until the next call.
EraseInv ==
  /\ pc = "hs_in" => op = "start"
  /\ InCommand => op = "cmd"
  /\ AbortErases

\* No key is newer than the last handshake.
KeysInv ==
  /\ encrypt = decrypt
  /\ \A k \in {chipKey, inbox.key, work.key, out.key, l2buff.key, buff.key} : k <= starts

Started == pc = "idle" /\ op = "start" /\ ret = "LT_OK"

\* From the first step of lt_session_start on there is no command under the new
\* key, so that whoever has that key counts from zero.
StartInv ==
  Starting \/ Started =>
    /\ starts > 0 /\ encryption_IV = 0
    /\ inbox.t = "CMD" => inbox.key < starts
    /\ work # None => work.key < starts
    /\ chipKey = starts => chipIV = 0
    /\ Started => session = "ON" /\ encrypt = starts /\ decryption_IV = 0

Answered == pc = "idle" /\ op = "cmd" /\ ret \in {"LT_OK", "LT_L3_FAIL"}

\* The packet belongs to the command the handle encrypted last.
OfThisCommand(m) == m.key = encrypt /\ m.iv + 1 = encryption_IV

\* Everything on its way for the command in progress carries its key and nonce;
\* a chip that executed it and still has the key has counted it, and no
\* handshake is left that could make it count from zero again.
StepInv ==
  /\ pc = "cmd_send" => OfThisCommand(buff)
  /\ InCommand =>
       /\ inbox.t = "CMD" /\ inbox.id = calls => OfThisCommand(inbox)
       /\ work # None /\ work.id = calls => OfThisCommand(work)
       /\ out.t = "RES" /\ out.id = calls => OfThisCommand(out)
  /\ pc = "cmd_in" /\ buff.t = "RES" => OfThisCommand(buff)
  /\ Answered \/ pc \in {"cmd_ack", "cmd_recv", "cmd_in"} => inbox.t # "HANDSHAKE"
  /\ (Answered \/ InCommand) /\ calls \in executed =>
       encrypt # 0 /\ (chipKey = encrypt => chipIV = encryption_IV)
  /\ Answered => calls \in executed /\ encryption_IV = decryption_IV
=============================================================================
