------------------------------ MODULE LtL2Api ------------------------------
(***************************************************************************)
(* The requests of the L2 API with their lengths, and the firmware update  *)
(* built from them: lt_do_mutable_fw_update for both silicon revisions, as *)
(* lt_ex_fw_update uses it, request by request.  Requests and responses    *)
(* share h->l2.buff: every response overwrites the head of the request.    *)
(* Exchanges fail on the way there or back, and the chip loses power.      *)
(***************************************************************************)
EXTENDS Integers, Sequences, LtL2Structs

CONSTANTS
  Revisions,      \* builds: subset of {"ABAB", "ACAB"}
  Sizes,          \* lengths of the ABAB firmware images
  Chunkings,      \* ACAB update files: the length bytes of their chunks
  RspLens,        \* rsp_len of responses
  MaxFaults,      \* bound: failed exchanges, odd responses and power losses
  MaxCalls        \* bound: calls besides the update

ASSUME L2ApiAssumption ==
  /\ Revisions \subseteq {"ABAB", "ACAB"} /\ MaxFaults \in Nat /\ MaxCalls \in Nat
  /\ \A s \in Sizes : s \in Nat /\ s > 0
  /\ \A c \in Chunkings : c \in Seq(35..252) /\ c # <<>>
  /\ \A n \in RspLens : n \in 0..253           \* what lt_l1_read lets through

VARIABLES
  rev, size, chunks,   \* the build and its firmware files
  pc,                  \* control point
  call,                \* the request under way
  buff,                \* the frame in h->l2.buff
  out,                 \* bytes given to the caller
  i,                   \* loop index (ABAB), chunk_index (ACAB)
  mode,                \* h->l2.mode, as the name of the mode
  step,                \* progress of lt_ex_fw_update, 0: not running
  result,              \* return value of its last run
  chip,                \* chip's mode, firmware banks, ACAB update in progress
  faults, calls

vars == <<rev, size, chunks, pc, call, buff, out, i, mode, step, result, chip,
          faults, calls>>
files == <<rev, size, chunks>>

Kinds == {"CPU", "SPECT"}
Modes == {"APP", "MAINTENANCE"}
FW_BANK == [CPU |-> 1, SPECT |-> 17]       \* FW_APP_UPDATE_BANK, FW_SPECT_UPDATE_BANK
LT_MODE == [APP |-> 1, MAINTENANCE |-> 3]

LT_MUTABLE_FW_UPDATE_SIZE_MAX == IF rev = "ABAB" THEN 25600 ELSE 30720

\* The index of the length byte of each chunk in an ACAB file: behind the
\* length byte and the 0x68 bytes of the update request.
ChunkStart(c) ==
  LET start[j \in 1..(Len(c) + 1)] ==
        IF j = 1 THEN lt_l2_mutable_fw_update_acab_t.REQ_LEN + 1
        ELSE start[j - 1] + c[j - 1] + 1
  IN start

update_data_size(k) ==
  IF rev = "ABAB" THEN size[k] ELSE ChunkStart(chunks[k])[Len(chunks[k]) + 1]

(***************************************************************************)
(* The chip, as far as the code relies on it.  A bank holds the firmware   *)
(* it came with or pieces <<offset, source, len>> of the new image.        *)
(***************************************************************************)
Empty == [old |-> FALSE, at |-> {}]

\* The bank holds the new image, every byte at its place, and nothing else.
Holds(k) ==
  LET b == chip.bank[k]
      start == ChunkStart(chunks[k])
  IN /\ ~b.old
     /\ \A p \in b.at : p[1] = p[2]
     /\ UNION {p[1]..(p[1] + p[3] - 1) : p \in b.at} =
          IF rev = "ABAB" THEN 0..(size[k] - 1)
          ELSE UNION {start[j]..(start[j] + chunks[k][j] - 1) : j \in DOMAIN chunks[k]}

\* Without a whole new image the application may still start: from what the
\* bank held before, or from the bank that is not updated.
Booted(startup_id) ==
  {[chip EXCEPT !.upd = "none", !.mode = m] : m \in
     IF startup_id = LT_MODE.MAINTENANCE THEN {"MAINTENANCE"}
     ELSE IF \A k \in Kinds : Holds(k) THEN {"APP"} ELSE Modes}

\* What the chip may be after it carried out the request in frame f: nothing
\* if it refuses.  Firmware requests are for maintenance mode only.
Erased(k, f) ==
  IF f.req_id = lt_l2_mutable_fw_erase_t.id /\ f.arg = FW_BANK[k]
    THEN {[chip EXCEPT !.bank[k] = Empty]} ELSE {}

Written(k, f) ==
  IF rev = "ABAB" /\ f.req_id = lt_l2_mutable_fw_update_abab_t.id /\ f.arg = FW_BANK[k]
    THEN {[chip EXCEPT !.bank[k].at = @ \union
             {<<f.offset, f.src, f.req_len - lt_l2_mutable_fw_update_abab_t.head>>}]}
    ELSE {}

\* The type in the update file names the firmware.
UpdateBegun(k, f) ==
  IF rev = "ACAB" /\ f.req_id = lt_l2_mutable_fw_update_acab_t.id /\ f.arg = FW_BANK[k]
    THEN {[chip EXCEPT !.bank[k] = Empty, !.upd = k]} ELSE {}

\* Each chunk carries the hash of the next one: chunks are taken in order.
ChunkWritten(k, f) ==
  LET start == ChunkStart(chunks[k])
      inOrder(j) == chip.bank[k].at = {<<start[m], start[m], chunks[k][m]>> : m \in 1..(j - 1)}
  IN IF /\ rev = "ACAB" /\ f.req_id = lt_l2_mutable_fw_update_data_t.id /\ chip.upd = k
        /\ \E j \in DOMAIN chunks[k] : start[j] = f.src /\ chunks[k][j] = f.req_len /\ inOrder(j)
       THEN {[chip EXCEPT !.bank[k].at = @ \union {<<f.src, f.src, f.req_len>>}]} ELSE {}

Maintenance(f) ==
  UNION {Erased(k, f) \union Written(k, f) \union UpdateBegun(k, f) \union ChunkWritten(k, f) :
           k \in Kinds}

NoRequest == 0

ChipAfter(f) ==
  CASE f.req_id = NoRequest -> {}
    [] f.req_id = lt_l2_startup_t.id -> Booted(f.arg)
    [] f.req_id \in {lt_l2_mutable_fw_erase_t.id, lt_l2_mutable_fw_update_abab_t.id,
                     lt_l2_mutable_fw_update_acab_t.id, lt_l2_mutable_fw_update_data_t.id} ->
         IF chip.mode = "MAINTENANCE" THEN Maintenance(f) ELSE {}
    [] OTHER -> {chip}

PowerLoss ==
  /\ faults < MaxFaults /\ faults' = faults + 1
  /\ step > 0 /\ chip' \in Booted(LT_MODE.APP)
  /\ UNCHANGED <<files, pc, call, buff, out, i, mode, step, result, calls>>

(***************************************************************************)
(* Requests.  t: the structures; lens: the values of rsp_len the function  *)
(* takes; room: length of the caller's buffer; then: where the program     *)
(* goes on.                                                                *)
(***************************************************************************)
Request(t, lens, room, then) == [t |-> t, lens |-> lens, room |-> room, then |-> then]

Frame(req_id, req_len, arg, offset, src, len) ==
  [req_id |-> req_id, req_len |-> req_len, arg |-> arg, offset |-> offset, src |-> src,
   len |-> len]

\* The function has filled in the head of the request and len bytes of data.
Send(r, frame) == call' = r /\ buff' = frame /\ pc' = "sent" /\ out' = 0

\* A request without data.
SendPlain(t, lens, room, then, arg) ==
  Send(Request(t, lens, room, then), Frame(t.id, t.REQ_LEN, arg, 0, 0, 0))

\* The response lies in the same buffer: chip_status, status, rsp_len and CRC
\* over req_id, req_len, the first parameter and the offset.
Overwritten == [buff EXCEPT !.req_id = NoRequest, !.req_len = 0, !.arg = 0, !.offset = 0]

\* lt_ex_fw_update gives up (lt_deinit, -1); a call on its own just returns.
Fails == pc' = "idle" /\ step' = 0 /\ result' = IF step > 0 THEN -1 ELSE result

Unsent == UNCHANGED <<call, buff, out>>
Chipless == UNCHANGED <<chip, faults>>

\* lt_l2_send, lt_l2_receive and the test of rsp_len succeed ...
lt_l2_exchange ==
  /\ pc = "sent" /\ buff' = Overwritten
  /\ chip' \in ChipAfter(buff) /\ mode' = chip.mode
  /\ out' \in RspLens \intersect call.lens
  /\ pc' = call.then /\ UNCHANGED <<files, call, i, step, result, faults, calls>>

\* ... or one of them fails: the chip refused, or it is not known whether it
\* carried out the request.
lt_l2_exchange_fails ==
  /\ pc = "sent" /\ buff' = Overwritten
  /\ \/ ChipAfter(buff) = {} /\ Chipless
     \/ /\ faults < MaxFaults /\ faults' = faults + 1
        /\ chip' \in {chip} \union ChipAfter(buff)
  /\ mode' \in {mode, chip.mode}
  /\ Fails /\ UNCHANGED <<files, call, out, i, calls>>

(***************************************************************************)
(* Calls besides the update.                                               *)
(***************************************************************************)
Alone(t, lens, room, arg) ==
  /\ pc = "idle" /\ calls < MaxCalls /\ calls' = calls + 1
  /\ SendPlain(t, lens, room, "idle", arg)
  /\ UNCHANGED <<files, i, mode, step, result, chip, faults>>

\* A variant for mutation: the header is copied whatever its length.
fw_bank_unchecked == Alone(lt_l2_get_info_t, RspLens, 52, 176)

lt_get_info_chip_id == Alone(lt_l2_get_info_t, {128}, 128, 1)
lt_get_info_fw_bank == Alone(lt_l2_get_info_t, {20, 52, 0}, 52, 176)
lt_get_log_req == Alone(lt_l2_get_log_t, RspLens, 255, 0)
lt_session_start == Alone(lt_l2_handshake_t, {48}, 48, 0)
lt_session_abort == Alone(lt_l2_encrypted_session_abt_t, {0}, 0, 0)
lt_sleep == Alone(lt_l2_sleep_t, {0}, 0, 5)

(***************************************************************************)
(* The firmware update.                                                    *)
(***************************************************************************)
kind == IF step = 2 THEN "CPU" ELSE "SPECT"

\* lt_do_mutable_fw_update: parameter check.
lt_do_mutable_fw_update ==
  /\ pc = "example" /\ step \in {2, 3}
  /\ IF update_data_size(kind) > LT_MUTABLE_FW_UPDATE_SIZE_MAX
       THEN Fails /\ UNCHANGED i
       ELSE /\ \/ rev = "ABAB" /\ pc' = "erase" /\ i' = 0
               \/ rev = "ACAB" /\ pc' = "request" /\ i' = lt_l2_mutable_fw_update_acab_t.REQ_LEN + 1
            /\ UNCHANGED <<step, result>>
  /\ Unsent /\ Chipless /\ UNCHANGED <<files, mode, calls>>

lt_mutable_fw_erase ==
  /\ pc = "erase"
  /\ SendPlain(lt_l2_mutable_fw_erase_t, {0}, 0, "update", FW_BANK[kind])
  /\ Chipless /\ UNCHANGED <<files, i, mode, step, result, calls>>

loops == size[kind] \div 128
rest == size[kind] % 128

\* A variant for mutation: the last bytes are counted in whole words.
block_len_words == IF i < loops THEN 128 ELSE 4 * (rest \div 4)

block_len == IF i < loops THEN 128 ELSE rest

\* A variant for mutation: req_id is set for the first block only.
block_frame_once(t, n) ==
  Frame(IF i = 0 THEN t.id ELSE buff.req_id, t.REQ_LEN + n, FW_BANK[kind], i * 128, i * 128, n)

block_frame(t, n) == Frame(t.id, t.REQ_LEN + n, FW_BANK[kind], i * 128, i * 128, n)

\* ABAB: blocks of 128 bytes and the rest, which lies at loops * 128.
lt_mutable_fw_update ==
  /\ pc = "update" /\ (i < loops \/ (i = loops /\ rest # 0))
  /\ Send(Request(lt_l2_mutable_fw_update_abab_t, {0}, 0, "update"),
          block_frame(lt_l2_mutable_fw_update_abab_t, block_len))
  /\ i' = i + 1
  /\ Chipless /\ UNCHANGED <<files, mode, step, result, calls>>

\* ACAB: the update request ...
lt_mutable_fw_update_acab ==
  /\ pc = "request"
  /\ SendPlain(lt_l2_mutable_fw_update_acab_t, {0}, 0, "data", FW_BANK[kind])
  /\ Chipless /\ UNCHANGED <<files, i, mode, step, result, calls>>

\* ... and the chunks, copied with their length byte.
lt_mutable_fw_update_data ==
  /\ pc = "data"
  /\ \E j \in DOMAIN chunks[kind] :
       LET len == chunks[kind][j]
           t == lt_l2_mutable_fw_update_data_t
       IN /\ ChunkStart(chunks[kind])[j] = i
          /\ Send(Request(t, {0}, 0, IF i + len + 1 < update_data_size(kind) THEN "data" ELSE "done"),
                  Frame(t.id, len, 0, 0, i, len - t.head))
          /\ i' = i + len + 1
  /\ Chipless /\ UNCHANGED <<files, mode, step, result, calls>>

update_returns ==
  /\ \/ pc = "update" /\ ~(i < loops \/ (i = loops /\ rest # 0))
     \/ pc = "done"
  /\ pc' = "example" /\ step' = step + 1
  /\ Unsent /\ Chipless /\ UNCHANGED <<files, i, mode, result, calls>>

(***************************************************************************)
(* lt_ex_fw_update, run again until it returns 0.                          *)
(***************************************************************************)
lt_reboot(startup_id) == SendPlain(lt_l2_startup_t, {0}, 0, "rebooted", startup_id)

\* lt_init; the reboot to maintenance mode is step 1, that to the application 4.
lt_ex_fw_update ==
  /\ pc = "idle" /\ result # 0 /\ step' = 1 /\ lt_reboot(LT_MODE.MAINTENANCE)
  /\ Chipless /\ UNCHANGED <<files, i, mode, result, calls>>

reboot_app ==
  /\ pc = "example" /\ step = 4 /\ lt_reboot(LT_MODE.APP)
  /\ Chipless /\ UNCHANGED <<files, i, mode, step, result, calls>>

\* The end of lt_reboot: lt_update_mode reads CHIP_STATUS; then the test of h->l2.mode.
lt_update_mode ==
  /\ pc = "rebooted"
  /\ \/ faults < MaxFaults /\ faults' = faults + 1 /\ Fails /\ UNCHANGED mode
     \/ /\ mode' = chip.mode /\ UNCHANGED faults
        /\ IF mode' = (IF step = 1 THEN "MAINTENANCE" ELSE "APP")
             THEN pc' = "example" /\ step' = step + 1 /\ UNCHANGED result
             ELSE Fails
  /\ Unsent /\ UNCHANGED <<files, i, chip, calls>>

\* lt_get_info_riscv_fw_ver and lt_get_info_spect_fw_ver.
get_fw_ver ==
  /\ pc = "example" /\ step \in {5, 6}
  /\ step' = step + 1
  /\ SendPlain(lt_l2_get_info_t, {4}, 4, "example", IF step = 5 THEN 2 ELSE 4)
  /\ Chipless /\ UNCHANGED <<files, i, mode, result, calls>>

\* The port may fail to close; then the example returns -1 with all done.
lt_deinit ==
  /\ pc = "example" /\ step = 7
  /\ \/ pc' = "idle" /\ step' = 0 /\ result' = 0 /\ UNCHANGED faults
     \/ faults < MaxFaults /\ faults' = faults + 1 /\ Fails
  /\ Unsent /\ UNCHANGED <<files, i, mode, chip, calls>>

(***************************************************************************)
(* The specification.  Faults are bounded, and the example is run again.   *)
(***************************************************************************)
Init ==
  /\ rev \in Revisions
  /\ size \in [Kinds -> Sizes] /\ chunks \in [Kinds -> Chunkings]
  /\ rev = "ABAB" => \A k, l \in Kinds : chunks[k] = chunks[l]
  /\ rev = "ACAB" => \A k, l \in Kinds : size[k] = size[l]
  /\ pc = "idle" /\ i = 0 /\ mode = "APP" /\ step = 0 /\ result = -1 /\ out = 0
  /\ call = Request(lt_l2_startup_t, {0}, 0, "idle") /\ buff = Frame(NoRequest, 0, 0, 0, 0, 0)
  /\ chip = [mode |-> "APP", upd |-> "none", bank |-> [k \in Kinds |-> [old |-> TRUE, at |-> {}]]]
  /\ faults = 0 /\ calls = 0

Others ==
  \/ lt_get_info_chip_id \/ lt_get_info_fw_bank \/ lt_get_log_req
  \/ lt_session_start \/ lt_session_abort \/ lt_sleep

Update ==
  \/ lt_ex_fw_update \/ lt_update_mode \/ lt_do_mutable_fw_update
  \/ lt_mutable_fw_erase \/ lt_mutable_fw_update
  \/ lt_mutable_fw_update_acab \/ lt_mutable_fw_update_data \/ update_returns
  \/ reboot_app \/ get_fw_ver \/ lt_deinit
  \/ lt_l2_exchange \/ lt_l2_exchange_fails

Done == pc = "idle" /\ result = 0 /\ UNCHANGED vars

Next == Update \/ Others \/ PowerLoss \/ Done

Spec == Init /\ [][Next]_vars /\ WF_vars(Update)

(***************************************************************************)
(* Properties.                                                             *)
(***************************************************************************)

\* lt_ex_fw_update returns 0 only when both banks hold their whole image, every
\* byte at its place, and the chip runs the application, whatever exchanges
\* failed or power was lost in this run or the ones before.
SuccessMeansUpdated ==
  result = 0 => chip.mode = "APP" /\ \A k \in Kinds : Holds(k)

\* The length every request announces is that of its parameters and the data
\* that were copied; data lie inside the request structure and inside the image;
\* what a response gives the caller fits the caller's buffer.
FramesExact ==
  /\ pc = "sent" =>
       /\ buff.req_len = call.t.head + buff.len /\ buff.req_len <= 252
       /\ buff.len <= call.t.data
       /\ buff.len > 0 => buff.src + buff.req_len - call.t.head <= update_data_size(kind)
  /\ out <= call.room /\ out <= call.t.rsp_room

\* Once faults have stopped, running the example again ends with the new
\* firmware in both banks: an update that was cut off anywhere - bank erased, half
\* written, chip still in maintenance mode - never keeps the next one from working.
Recovers ==
  (\A k \in Kinds : update_data_size(k) <= LT_MUTABLE_FW_UPDATE_SIZE_MAX) => <>[](result = 0)
=============================================================================
