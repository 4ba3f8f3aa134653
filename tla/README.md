# Verification of libtropic

libtropic is the host library of the TROPIC01 secure element. An application
calls functions of `libtropic.h` on a handle; the library talks to the chip
over SPI in three layers. This directory models those layers in TLA+, checks
the models with TLC on small instances and proves the main results with TLAPS
for every size. `PROJECT.json` lists components, runs, mutants, hazards,
findings, theorems, and for every definition the source lines it models.

## 1. Inventory of the system

| Component | State it keeps | Operations | Hard behaviour |
|---|---|---|---|
| Handle and Secure Session (`libtropic.c`, `libtropic_l3.c`, `lt_l3_process.c`) | `h->l3`: session flag, two AES-GCM contexts, two nonces, packet buffer | `lt_init`, `lt_deinit`, `lt_session_start`, `lt_session_abort`, `lt_sleep`, `lt_reboot`, encrypted exchange of every L3 command | nonces of two parties drift apart when an exchange fails half way; answers come late; the chip loses the session by itself; a session is restarted |
| Layer 3 commands (`lt_out__*`, `lt_in__*`) | the packet in `h->l3.buff` | 23 commands: parameter checks, command size, result size, output | lengths at their limits, reduced buffers, results of unexpected length |
| Layer 2 requests (`libtropic_l2.c`, `lt_l2_frame_check.c`) | frame in `h->l2.buff` | `lt_l2_send`, `lt_l2_receive`, `lt_l2_resend_response` | frames damaged in both directions, retries, responses that name no request |
| Layer 2 chunks (`libtropic_l2.c`) | loop counters, `offset` | `lt_l2_send_encrypted_cmd`, `lt_l2_recv_encrypted_res` | chunk arithmetic, chip-chosen chunk lengths, continuation frames without CRC check |
| Layer 1 (`lt_l1.c`, `lt_l1_port_wrap.c`) | chip select line, `s2->mode`, `s2->buff` | `lt_l1_read`, `lt_l1_write`, `lt_update_mode` | polling a busy chip, error paths between select and release, alarms and reboots |
| Certificate store, ASN.1 (`libtropic.c`, `lt_asn1_der.c`) | output buffers, parser position | `lt_get_info_cert_store`, `lt_get_st_pub` | block reassembly, lengths from the chip |
| Firmware update (`libtropic.c`, `lt_l2_api_structs.h`, `examples/lt_ex_fw_update.c`) | none on the host; banks and mode of the chip | `lt_mutable_fw_*`, `lt_do_mutable_fw_update`, `lt_ex_fw_update`, `lt_get_info_*`, `lt_get_log_req` | failure between erase and last block, one buffer for request and response, two silicon revisions |
| Configuration helpers and provisioning (`libtropic.c`, `examples/lt_ex_hw_wallet.c`) | R config, pairing keys, slots of the chip | `lt_*_whole_*_config`, `lt_verify_chip_and_start_secure_session`, `lt_ex_hardware_wallet` | a long sequence of partly irreversible commands, cut off anywhere and run again |
| MAC-and-Destroy PIN engine (`examples/lt_ex_macandd.c`) | attempt counter and ciphertexts in R-memory, slots | `lt_PIN_set`, `lt_PIN_check` | failure between erase and write, re-initialisation of slots |
| CRC, HKDF, crypto HAL, ports, printing | - | - | pure computation or I/O |

Interaction: an API function fills `h->l2.buff` (plain requests) or
`h->l3.buff` (L3 commands, then encrypted), layer 2 adds a CRC or cuts the
packet into chunks, layer 1 moves one frame per SPI transaction. There are no
threads or callbacks in the library: concurrency is between the host, which
runs one call at a time, and the chip, which works, resets and answers on its
own. Every call can fail at each of its steps, and the next call starts from
whatever the failed one left in the handle and in the chip.

What makes it correct: a (key, nonce) pair protects one packet; a result is
given only to the call whose command it answers; a command is executed at most
once; aborting erases the keys; layer 1 always deselects the chip and returns;
packets cross in chunks whole and inside their buffers; the caller gets exactly
the data of the result, whatever surrounds it; a firmware update that reports success
left whole images, and one that was cut off can be repeated; a PIN releases its
secret only to who knows it, within a bounded number of tries; provisioning
gives up the first pairing key only when the others are in place.

## 2. Modules

| Module | Models |
|---|---|
| `LtChannel` | abstract: what the L3 API (and layer 2) promises - at-most-once, in-order execution, an answer only for the call in progress |
| `LtSession` | handle, Secure Session and the exchange of commands, against a chip with its own key and nonce |
| `LtL1` | layer 1, one step per operation of the port |
| `LtL2` | layer 2, one request and response with resends |
| `LtL2Chunks` | the chunked transfer, at the sizes of the code |
| `LtL3Structs` | layouts of the L3 commands and results (`lt_l3_api_structs.h`) |
| `LtL3` | parameters and lengths of the L3 commands |
| `LtL2Structs` | layouts of the L2 requests and responses (`lt_l2_api_structs.h`) |
| `LtL2Api`, `MCL2Api` | the requests of the L2 API, and the firmware update built from them |
| `LtMacAndDestroy` | the PIN engine on MAC-and-Destroy slots and R-memory |
| `LtHwWallet` | provisioning: whole R config, pairing keys, five sessions |
| `LtAsn1` | the search for the public key in a certificate |
| `LtCertStore` | reading the certificate store block by block |
| `MCFrames`, `MCPackets`, `MCCertificates`, `MCExamples` | for TLC, two models each: `LtL1` and `LtL2`; `LtL3` and `LtL2Chunks`; `LtCertStore` and `LtAsn1`; `LtMacAndDestroy` and `LtHwWallet` |
| `M_proofs` for `LtSession`, `LtL1`, `LtL2`, `LtL2Chunks`, `LtL2Api`, `LtL3` | theorems about `M` (section 4) |
| `LtCertificates_proofs` | theorems about `LtCertStore` and `LtAsn1` |
| `LtExamples_proofs` | theorems about `LtMacAndDestroy` and `LtHwWallet` |

### LtSession

The handle's fields keep their names (`session`, `encrypt`, `decrypt`,
`encryption_IV`, `decryption_IV`, `buff`). `pc` says which function that talks
to the chip runs next, `op` which API function is in progress, `ret` what the
last one returned (the many error codes are `LT_FAIL` unless a property needs
them). Cryptography is ideal: a packet carries the number of the key and the
nonce it was made with and decrypts under those only; key `n` is the one of
the `n`-th handshake, key 0 is a zeroed context, which authenticates nothing.
`lt_get_info` stands for the functions that ask for one object,
`lt_l3_command` for the shape that all L3 commands share; what the commands
differ in is `LtL3`.

Chip (external): one request (`inbox`), one command being executed (`work`),
one response waiting (`out`). It may refuse anything, reset at any time, and
executes a command only under its current key and nonce. `runs` counts the
executions, so that executing a command again is a step that `LtChannel` lacks. Whether a new request
makes it discard a response that was not read is the constant `DropsUnread`.

Failures: a write may arrive, arrive damaged, or not arrive, and in each case
report success or (for the first and the last) failure; a read may fail before
or after the chip gave the response away. `lt_l2_receive` here returns a frame
or fails; its resend loop, which can only bring the same answer again or fail,
is `LtL2`. The chunks of a packet are one write here; `LtL2Chunks` cuts them.
So the acknowledgement `REQ_OK` here stands for both statuses that end or
continue a command, `REQUEST_OK` and `REQUEST_CONT` (`libtropic_l2.c:148`).

### LtL1

`at` is the next port operation. A port operation fails at any time; a failing
operation on chip select may have moved the line. `strict` remembers whether
the code returns the result of `csn_high` or ignores it (error paths). The chip
is busy, ready or in alarm, and reboots into either firmware. `PortChecks`
says whether the port itself refuses a transfer that does not fit into
`s2->buff`: the two STM32 ports, the TCP port and the USB dongle port do, the
Linux SPI port (`libtropic_port_unix_spi.c:164-182`) does not. The runs take the
latter.
The waiting for the INT pin is a delay; the `LIBT_DEBUG` parameter checks are
not part of the modelled build.

### LtL2

A response has a status, the number of the request it answers (which the real
frame does not show; it is there for the properties) and a flag whether its CRC
is right. Damage changes the status to any other and clears the flag. The chip
answers, refuses, reports a damaged request with `CRC_ERR` and resends its last
response. Assumptions about the chip, as constants: `DropsUnread` (as above)
and `KeepsErrors` (an error response is a "last response" for `Resend_Req`,
too). Both are needed for `OwnResponse`: with `KeepsErrors = FALSE` a damaged
request followed by a resend brings the good response of the request BEFORE it,
and `lt_l2_receive` returns `LT_OK` with it; with `DropsUnread = FALSE` a
response left unread by a failed call answers the next one. Nothing in the
library excludes this; it rests on the chip.

### LtL2Chunks

A chunk is a range of the packet. `got` is the length of the right prefix put
together so far, -1 once a wrong piece is in it, so that the model can use the
real sizes: all command sizes up to 4126, result sizes up to the 4143 of the
buffer. The chip cuts results into chunks of the given lengths. A behaviour is
one call, hence `CHECK_DEADLOCK FALSE`.

### LtL3

Every command is a record made from its layout in `LtL3Structs`: is the parameter
check of `lt_out__*` passed, the command size it announces, the bytes it fills,
the result sizes that `lt_in__*` accepts, the bytes in front of
the data, the length of the caller's buffer. The parameter checks of the API
function itself are the first argument of `Command`. The chip answers with
authentic results of any length and code. `buff_len` is the default or the
reduced length of the build option.

### LtCertStore

`i` counts the blocks read, `off` is `cert_head` as an offset into the current
buffer, `copied` what the two `memcpy` calls of a block moved. Contents are
positions in the chip's store: `got` is the number of leading bytes of each
certificate that are in their place, and a copy from a wrong position makes it
smaller. The chip's store fits its 3840 bytes, and certificates are at least one
block long; the code states the latter ("Assumes that: a single certificate is
always larger than 128 bytes") and does not test it. The call may be repeated
after a failure, with what the failed one left in the buffers.

### LtL2Api

One frame lies in `buff`: a function fills in the head and copies data, and the
response then overwrites the head, as in `h->l2.buff` (`Overwritten`). Image
data are ranges of the firmware file, a bank is a set of pieces
`<<offset, source, length>>`, so "the image is whole" is a statement about
positions. `rev` chooses the build: ABAB erases a bank and sends blocks of 128
bytes, ACAB sends the request and the chunks of an update file, whose length
bytes are part of the file. `step` is the progress of `lt_ex_fw_update`. An
exchange fails with or without effect in the chip, and the chip loses power;
all of these, and a last `lt_deinit` that fails, count as `faults`. The chip (external) refuses firmware requests
outside maintenance mode, takes ACAB chunks in the order of their hash chain,
and starts the application for certain only if both banks hold their images.

### LtMacAndDestroy

`lt_PIN_set` and `lt_PIN_check` have one action per command to the chip. Derived
values are symbolic: `u(s)` and `v(pin)` stand for the two KDF outputs, a
MAC-and-Destroy answer is the pair of slot content and input, a ciphertext
opens under the answer and the PIN it was made with and is garbage otherwise.
`lt_PIN_set` and `lt_PIN_check` are called by an application with any PIN in any
order, or by `lt_ex_macandd` with its fixed script. A command fails with or
without effect, or the host loses power; slots and R-memory survive. `tries`
and `released` are history: the guesses sent to the chip since the last time a
secret was set or released, and whether a check has released the stored secret
since it was set. Not modelled: the parameter checks, the test for a session, failing
random numbers (they return before anything changed).

### LtHwWallet

The program is the sequence of its calls, each with the answer the example
insists on (`LT_OK`, or `LT_L3_UNAUTHORIZED` where a session must be refused).
R config is a function from the 27 objects of `cfg_desc_table` to the set of
their 1 bits; a bit of an access object is a pair (slot field, session). The
chip (external) answers a command according to the configuration it started
with; what is written counts from the next start. Runs are cut off by failing
calls or power losses (`failures`), and started again. Its `Init`, `Next` and
`Spec` carry the name of the example, since it shares modules with others; so do
those of `LtL1`, `LtL2Chunks` and `LtCertStore`.

### LtAsn1

The parser reads every byte once, so the stream is chosen while it is read; one
step is one object, with its tag, the encoding of its length and its length.
The recursion of `parse_object` is the stack `ends` of the ends of the open
sequences. `objs` is history, from which the properties compute what should
have been found.

## 3. Runs

| Run | Shows |
|---|---|
| `session` | With a chip that drops unread responses, 3 commands, 2 handshakes (a live session may be restarted) and nonces 0..2: results answer their commands (`ResultAnswersCommand`), nonces are in step after a start and after every answer (`StartsInStep`, `AnsweredInStep`), abort and deinit erase (`AbortErases`), and the whole is an `LtChannel` (`ImplementsChannel`). |
| `session_keys` | Without restarts of a live session, but with a chip that may keep unread responses or ignore requests, 4 commands: no nonce is used twice under a key, and `SESSION_ON` means that keys are there. |
| `restart_nonce` | violated: no nonce is used twice, if the application calls `lt_session_start` on a live session. |
| `frames` | `LtL1`: chip select released on all paths, `LT_L1_CHIP_BUSY` after exactly `max_tries` polls, and every call returns; over a port without a length check, no response of up to 252 or from 254 data bytes on is received past `s2->buff` (`TransferInBuffer`). `LtL2`: `LT_OK` only with the response to the request in progress; retries never execute a request again (`LtChannel` once more); `CRC_ERR` and `GEN_ERR` only after three resends; every call returns. |
| `l1_length` | violated: the same `TransferInBuffer` for a response of 253 data bytes. |
| `packets` | `LtL3`: output lengths exact and within the caller's buffer, announced command lengths cover exactly the filled fields, refused calls keep the nonce, commands fit the default buffer, the session is in step after every answer. `LtL2Chunks`: chunk lengths, whole packets in order, no copy behind the buffer, `MAX_LOOPS` enough. |
| `certificates` | `LtCertStore`: copies inside the received block and the caller's buffer; `LT_OK` only with four whole certificates; no block read behind the last one. `LtAsn1`: `LT_OK` means that the first primitive behind the first matching identifier was found, and gives its content if it has at most 255 bytes (`FoundObject`); the objects of an accepted stream follow each other without gaps and are properly nested (`WellNested`), but for identifiers shorter than three bytes and a sampled object of 256 bytes or more, part of which is parsed again. |
| `asn1_length` | violated: `LT_OK` gives the content of the object whatever its length (`FoundAnyLength`). |
| `fw_update` | 0 from `lt_ex_fw_update` means two whole images and a running application (`SuccessMeansUpdated`); every request announces what it carries and responses fit their readers (`FramesExact`); after the last fault, running the example again succeeds (`Recovers`). |
| `examples` | `LtMacAndDestroy`: a secret only for its PIN and only with `LT_OK`, and `LT_OK` only with a secret as long as tries are left (`CheckVerdict`); at most `MACANDD_ROUNDS` guesses between two releases (`TriesBounded`); slots below the stored counter are ready, all of them until a check succeeds and all but the last one after it (`SlotsReady`); the example's script works (`ExampleSucceeds`). `LtHwWallet`: the example configuration is the one its sessions need, also after interrupted runs (`WalletSucceeds`); key 0 is invalid only when the other keys are valid and the configuration is stored (`KeyZeroGoesLast`); R config is a prefix of the example configuration (`ConfigIsPrefix`). |
| `pin_verdict` | violated: `LT_OK` from `lt_PIN_check` means a correct PIN, tries left or not (`OkMeansCorrect`). |
| `pin_slots` | violated: all slots that the stored counter counts are ready, after a correct PIN too (`SlotsReinitialized`). |

Four runs explore two models that share no state. Their modules have a variable
`part` that says which of the two moves; the other stays in one initial state, so
the states add up and do not multiply.

Each property of a passing run has a mutant in `PROJECT.json`: a definition
changed the way a bug in that code would change it, for which TLC finds the
property violated. The variants stand in the modules in front of the
definition they replace.

Bounds. `UINT32_MAX = 2` makes the end of the nonce range happen within three
commands, which is the smallest number that has a command before, at and after
it; two handshakes are the smallest number with an old and a new key; three
calls have a late answer of the first meet the third. `MaxTries = 3` has a
first, a middle and a last poll; the length bytes are 0, the longest that
fits (252), the shortest that is refused (254) and the longest of all, and in
`l1_length` the one between (253). `MaxReqs = 3` as for commands. In `LtL2Chunks`
one frame per call may be damaged and taken for a good one (`MaxUnseen`), all
command sizes are covered, result sizes are all from 18 to 256 bytes and the
four longest, chunk lengths 99 (the smallest that `MAX_LOOPS` can carry), 128
(the one the comment on `MAX_LOOPS` names) and 252. In `LtL3` the parameters are
the limits of the checks and their neighbours, and the result sizes those that
some command accepts and their neighbours; `MCOUNTER_VALUE_MAX` is one of the
values below the largest. In `LtCertStore` the lengths are one block, one byte
more, the length that ends a block behind the header (246), and two that fill
the store to its last byte (3830 bytes in all); the buffers hold all of them or
none of the long ones. In `fw_update` images are shorter than a block, one
block, more than two blocks and one byte over the limit; update files have one to
three chunks with the lengths of the files in the repository; two faults let an
interruption hit the recovery from another. In `LtMacAndDestroy` three rounds have a first,
a middle and a last slot, two sets have an old and a new secret, six checks use
up a counter twice; `pin_verdict` and `pin_slots` have no faults and more checks
than rounds. In `LtHwWallet` two failures in three runs let a run start from
what two interrupted ones left. In `LtAsn1` the lengths fit into each other
(identifier and primitive fill a sequence), there is one of each encoding, one
above 255, and streams that end inside, at and behind an object; `asn1_length`
has the one stream length that holds an object of 258 bytes.

Fairness is weak fairness of the host's own steps (`L1HostStep`, `HostStep`) in
`LtL1` and `LtL2`: a C function that was called runs. Nothing is assumed of the chip, the
port or the application, so `CallReturns` and `ReceiveReturns` say that the
bounded loops end the call even if the chip never answers. `LtL2Api` assumes
weak fairness of `Update`: the functions run, and the user runs the example
again until it returns 0. Faults are bounded, so `Recovers` says what holds once
they have stopped; it assumes that the chip carries out what it accepts.

## 4. Proofs

`LtSession_proofs`, for every nonce width, number of calls and handshakes:

* `TypeCorrect`: `TypeOK`, with nonces within their width.
* `NoncesAreFresh`, `SessionOnIsEstablished` (assumption: no restart of a live
  session). `NonceUsedOnce` is not inductive: it does not say where the
  handle's nonce stands. `KeyInv` adds that the nonce of a live session is
  beyond every nonce written under its key, that the packet about to be written
  carries exactly the nonce before it, and that nothing was written yet under
  the key of a handshake in progress.
* `AnswersMatch`, `SessionImplementsChannel` (assumption: the chip drops unread
  responses). The invariant `LinkInv` says what of earlier commands can still be
  where: `ChipInv` for the chip's three places, `CallInv` for what the call in
  progress can still be given - in particular that a leftover command or result
  is used up by the acknowledgement and cannot be read as the result -, and
  `AnswerInv` for the answers so far. Each step then is a step of `LtChannel`
  or a stutter.
* `AbortIsThorough`, for any chip and application. `EraseInv` adds to
  `AbortErases` which call each control point belongs to: no step of a handshake
  or a command can run while `op` is an abort or a deinit.
* `SessionsStartInStep`, for any chip and application, restarts of live sessions
  included. `StartInv`: from the first step of `lt_session_start` on no command
  under the new key is anywhere, so whoever has that key counts from zero;
  `KeysInv` (no key is newer than the last handshake) starts the argument.
* `CommandsEndInStep` (assumption: the chip drops unread responses). `StepInv`
  follows key and nonce of the command in progress through `inbox`, `work`, `out`
  and `buff`; a chip that has executed it and still has the key has counted it,
  and no handshake is left that could reset its count.

`LtL2_proofs`, for every number of requests:

* `L2TypeCorrect`: `TypeOK`, with at most three resends.
* `ResponseIsOwn`, `L2ImplementsChannel` (assumptions: `DropsUnread` and
  `KeepsErrors`). The invariant `OrderInv` says that while the host waits,
  request, response and last response in the chip belong to the request in
  progress, and that an unhandled request is newer than all executed ones.
* `ErrorsAreRetried` for any chip: an error of the chip is reported after three
  resends only.

`LtCertificates_proofs`, about `LtCertStore`, for all lengths of certificates (from one block on) and
buffers: `StoreTypeCorrect`, `StoreCopiesFit`, `StoreCertsWhole`,
`StoreOnlyNeeded`. The invariant `StoreInv` says what holds between two blocks
(`BetweenBlocks`): the position `i * 128` in the store is offset `off` of the
current certificate, which is not complete, and everything before it is in
place. That a trailing part never completes a certificate is where the length
of at least one block is needed.

`LtL1_proofs`, for every number of tries (at least one), every length of the
buffer and every set of length bytes: `Deselects`, `BusyIsHonest`, and
`TransferBounded`, if the port checks lengths or the chip never announces
`LenMax - 4` (253) data bytes; `l1_length` shows that one of them is needed.
The invariant says where the line can be low (`LineInv`), that polls made and
tries left add up to `MaxTries` and a response once taken ends the loop
(`PollInv`), and which spans a transfer can have (`SpanInv`).

`LtL2Chunks_proofs`, for every command whose packet length fits into 16 bits,
every result that fits into a packet, and buffers of any length: `ChunksFit`,
`PacketsWhole`, `CopiesInBuffer`, `LoopsSuffice`. `SendInv` says that before
chunk `i` the chip holds the first `252 i` bytes, `RecvInv` that as long as no
damage went unseen the buffer holds the first `offset` bytes, at least 99 per
round. Assumption: the chip sends chunks of 99 bytes or more (with shorter ones
`MAX_LOOPS` would not be enough for the longest results).

`LtL3_proofs`, for every parameter, every length of results (16 bits) and every
length of the buffer: `OutputIsExact`, `CommandsCoverFields`,
`RefusalsKeepNonce`, `CommandsInBuffer` (for the default buffer),
`AnswersKeepSessions`. `GoodCmd` is proved once per command from the layouts of
`LtL3Structs`: what `lt_out__*` announces is what it fills in, and what
`lt_in__*` copies ends with the result. `PhaseInv` and `CountInv` then follow
nonces through a call.

`LtExamples_proofs`, about `LtMacAndDestroy`, for every `MACANDD_ROUNDS` from 1 to 12 (the most the
code admits) and any number of sets, checks, failing commands and power losses:
`GuessesBounded`, `StoredIsUsable`, `VerdictIsRight`, `ExampleIsRight`.
`TriesBounded` is not inductive; `MemInv` says that guesses made and tries
stored add up to at most `MACANDD_ROUNDS`, and that what R-memory counts is
ready (`Ready`, which leaves out the last slot once a check has succeeded), `SetInv` and `CheckInv` say the same of the locals of the function in
progress, where R-memory is for a moment empty. `ExInv` follows the script of
`lt_ex_macandd` as long as nothing failed.

`LtCertificates_proofs`, about `LtAsn1`, for streams, buffers and objects of every length and sequences
of any depth: `ObjectIsFound` (with the content for objects below 256 bytes),
`ObjectsNest` (with the two exceptions of `skipped`). `FlagInv` says what
`sample_next` and `found` mean in terms of the objects met, `ChainInv` that the
parser stands where the last object says. `PlaceInv` and `NestInv` say where
every object ends: behind the parser, or - a sequence - on the stack; an object
that begins in an open sequence is behind the parser or open further inside, so
when the sequence ends exactly at the parser it contains it.

`LtL2Api_proofs`, for files of every length, update files cut into any number of
chunks of 35 to 252 bytes (hash, offset and at least one byte of data; at most
what an L2 frame carries), and any number of calls, failing exchanges and power losses: `UpdateSafe`,
`FramesSafe`. `SuccessMeansUpdated` speaks of the end only; `PlaceInv` says what
the banks hold at each place of the program - after `i` blocks exactly the first
`i` blocks, while an ACAB update runs an update that goes to the right bank or
none -, and which request lies in the buffer while an exchange is under way,
`DoneInv` which images the steps of the example have left. That the pieces of a
bank together are the whole image is arithmetic for blocks of 128 bytes. For
chunks it needs where chunk `n` starts, which `ChunkStart` defines by recursion;
`StartFacts` gets it by induction for a set of numbers (`SetInduction`, from
the library's minimal elements of a well-founded relation), which needs no operator as a parameter.
`RoomInv` relates the accepted response lengths to their readers.

`LtExamples_proofs`, about `LtHwWallet`, for any number of runs and failures:
`ProvisioningSucceeds`, `KeyZeroKept`, `ConfigPrefix`. `InitialTable` and
`LaterTable` say which call stands at each of the 137 places of the program.
`WalletInv` says what the chip holds between two calls of whatever run
(`DeviceInv`), how far the configuration and the keys are at each place
(`WrittenInv`, `KeysInv`), and what a run that may expect to succeed finds there
(`FreshInv`). The configuration that a later run makes from a partly written one is
the same again because `create_example_r_config` works object by object and
doing it twice changes nothing (`CreateMakes`, `MadeTwice`).

Only model-checked: liveness (`CallReturns`, `ReceiveReturns`, `Recovers`), since
the prover does not do fairness. Every invariant of a passing run and every
refinement is proved.

The inductive invariants of `LtSession`, `LtL2` and `LtAsn1` stand at the end of those
modules, the others in the modules with the proofs; TLC finds none of them
violated on the runs' instances.

## 5. What the checks found

With a run each, as findings in `PROJECT.json`:

* `restart_nonce`: restarting a live session can reuse nonces, and, if its
  handshake tag is wrong, leaves `SESSION_ON` without keys.
* `l1_length`: the length check of `lt_l1.c:117` accepts 253, one byte more than
  fits behind offset 3 of `s2->buff`. Four of the ports refuse the transfer; the
  Linux SPI port carries it out, one byte past the buffer.
* `pin_verdict`: with no tries left `lt_PIN_check` (`lt_ex_macandd.c:275`)
  returns the `LT_OK` of its read and a zero secret; the comment above says
  "FAIL (no attempts remaining)".
* `pin_slots`: a successful check (`lt_ex_macandd.c:337`) does not initialise the
  last slot again, so the first try after it is refused even with the right PIN;
  the comments say that the slots are initialised again.
* `asn1_length`: the length of a sampled object is cut to 8 bits
  (`lt_asn1_der.c:227`), so other bytes than those `lt_asn1_der.h` documents are
  returned for an object of 256 bytes or more.

Deviations that the models contain and the properties state as exceptions, or exclude:

* `libtropic_l2.c:71`: `lt_l2_receive` asks for a resend when the chip complains
  about the request (`CRC_ERR`, `GEN_ERR`), and not when the response arrives
  damaged (`LT_L2_IN_CRC_ERR`), although the documentation (`libtropic_l2.h:36`) speaks of a problem "with the last frame received".
* `libtropic_l3.c:169`: with `LT_SIZE_OF_L3_BUFF` of 1000 a long `lt_ping` or
  `lt_ecc_eddsa_sign` overruns the buffer before any length is compared with it;
  `CommandInBuffer` holds for the default size only.
* `libtropic_l3.c:1079`: an empty message makes the `EDDSA_Sign` command one byte
  shorter than the minimum in its definition.
* `lt_ex_macandd.c`: a loss of power between erase and write of the counter
  leaves an empty slot, and every check fails until a new PIN is set.
* `libtropic.c:211`: with a first certificate shorter than 118 bytes the trailer is
  read past the received block; the code states certificates of at least one
  block as its assumption, and `LtCertStore` takes it over.
* `libtropic.c:217`: if the chip announced more than the 3840 bytes of its store,
  the loop would end after 30 blocks with `LT_OK` and an incomplete certificate;
  `LtCertStore` has no such chip.
* `lt_ex_hw_wallet.c:351`: a run cut off after the configuration is stored and
  before all pairing keys are written makes every later run fail: from the next
  start on key 0 may not write pairing keys, or a slot is no longer blank.
  `Provisionable` is the condition under which a run must succeed. After a
  success the example can not be run again (key 0 is invalid).
* `lt_asn1_der.c`: a length of 127 is refused as unsupported; `0x80` counts as
  length 0; the content of an identifier shorter than three bytes is not skipped;
  a single byte behind the last object is ignored.
* `lt_l1_write` does not update `s2->mode`, although `libtropic.h` says that every
  L1 transaction does.

## 6. Not modelled, and open

Not modelled: what L3 commands do inside the chip, beyond what the three modelled
examples rely on; CRC and HKDF arithmetic; the crypto HAL and the vendored
library; ports (any sequence of successes and failures in `LtL1`, with or without a
length check); printing;
separate L3 buffers (`LT_SEPARATE_L3_BUFF`) other than by their length; the I
config helpers; firmware images (data); tests and the remaining examples, which
only call the API.

Open: a composition of `LtSession` and `LtL2Chunks` for commands interrupted
between two chunks, once how the chip assembles chunks is known.
