---------------------------- MODULE LtCertStore ----------------------------
(***************************************************************************)
(* lt_get_info_cert_store(): the certificate store of the chip is read     *)
(* block by block, and four certificates of any length are cut out of the  *)
(* blocks into the four buffers of the caller.  A block may hold the end of*)
(* one certificate and the beginning of the next.                          *)
(***************************************************************************)
EXTENDS Integers

LT_NUM_CERTIFICATES == 4
TS_GET_INFO_BLOCK_LEN == 128
LT_L2_GET_INFO_REQ_CERT_SIZE_TOTAL == 3840
BLOCKS == LT_L2_GET_INFO_REQ_CERT_SIZE_TOTAL \div TS_GET_INFO_BLOCK_LEN
HEADER_LEN == 2 + 2 * LT_NUM_CERTIFICATES   \* version, number, the lengths
Kinds == 0..LT_NUM_CERTIFICATES - 1         \* lt_cert_kind_t

CONSTANTS
  CertLens,    \* lengths of certificates in the chip
  CertBufLens \* lengths of the caller's buffers

\* "A single certificate is always larger than 128 bytes", says the code; 128
\* bytes are enough.
ASSUME CertStoreAssumption ==
  /\ \A n \in CertLens : n \in Nat /\ n >= TS_GET_INFO_BLOCK_LEN
  /\ \A n \in CertBufLens : n \in Nat

VARIABLES
  lens, valid,     \* in the chip: the four lengths; is the header's start right?
  buf_len,         \* lengths of the buffers in store->certs
  cert_len,        \* store->cert_len
  got,             \* leading bytes of each certificate that are in its buffer
  pc, ret,         \* where the call is, its result
  i,               \* blocks read
  curr_cert, off,  \* current certificate, cert_head - store->certs[curr_cert]
  copied           \* what the memcpy calls of the last block copied

chip == <<lens, valid, buf_len>>
storeVars == <<chip, cert_len, got, pc, ret, i, curr_cert, off, copied>>

\* Where a certificate begins in the chip's store, and where the last one ends.
Start(c) == HEADER_LEN + (IF c > 0 THEN lens[0] ELSE 0)
                       + (IF c > 1 THEN lens[1] ELSE 0)
                       + (IF c > 2 THEN lens[2] ELSE 0)
End == Start(3) + lens[3]

StoreInit ==
  /\ lens \in [Kinds -> CertLens] /\ valid \in BOOLEAN
  /\ End <= LT_L2_GET_INFO_REQ_CERT_SIZE_TOTAL
  /\ buf_len \in [Kinds -> CertBufLens]
  /\ cert_len = [c \in Kinds |-> 0] /\ got = [c \in Kinds |-> 0]
  /\ pc = "idle" /\ ret = "none"
  /\ i = 0 /\ curr_cert = 0 /\ off = 0 /\ copied = {}

CallEnds(r) == pc' = "idle" /\ ret' = r

\* memcpy of n bytes from position src of the store to offset o of a buffer.
Copy(c, o, src, n) == [cert |-> c, off |-> o, src |-> src, n |-> n]

\* What a copy does to the bytes in place.
Put(g, m) ==
  [g EXCEPT ![m.cert] =
     IF m.src = Start(m.cert) + m.off
       THEN IF m.off <= @ /\ @ < m.off + m.n THEN m.off + m.n ELSE @
       ELSE IF m.n = 0 \/ @ < m.off THEN @ ELSE m.off]

\* The call begins.
lt_get_info_cert_store ==
  /\ pc = "idle"
  /\ pc' = "block" /\ ret' = "none"
  /\ i' = 0 /\ curr_cert' = 0 /\ off' = 0 /\ copied' = {}
  /\ UNCHANGED <<chip, cert_len, got>>

\* lt_l2_send or lt_l2_receive fails, or the response is no whole block.
exchange_fails ==
  /\ pc = "block"
  /\ CallEnds("LT_FAIL") /\ copied' = {}
  /\ UNCHANGED <<chip, cert_len, got, i, curr_cert, off>>

\* A variant for mutation: the lengths are taken as they come.
lengths_unchecked == Kinds

\* Certificates that the loop over the header's lengths goes through.
lengths_accepted == {c \in Kinds : \A d \in 0..c : lens[d] <= buf_len[d]}

\* The header in the first block is refused.
header_refused ==
  /\ pc = "block" /\ i = 0
  /\ \/ ~valid /\ CallEnds("LT_CERT_STORE_INVALID") /\ UNCHANGED cert_len
     \/ /\ valid /\ lengths_accepted # Kinds
        /\ cert_len' = [c \in Kinds |-> IF c \in lengths_accepted THEN lens[c] ELSE cert_len[c]]
        /\ CallEnds("LT_PARAM_ERR")
  /\ copied' = {}
  /\ UNCHANGED <<chip, got, i, curr_cert, off>>

\* A variant for mutation: a certificate that ends with its block is not over.
certificate_past_end(o, n) == o > n

\* Has the current certificate been copied?
certificate_done(o, n) == o >= n

\* A variant for mutation: the rest of a block is left out.
trailer_dropped(available, to_copy) == 0

\* Length of the part of the block that belongs to the next certificate.
trailer_len(available, to_copy) ==
  IF available > to_copy THEN TS_GET_INFO_BLOCK_LEN - to_copy ELSE 0

\* A block arrives and is cut up.
block_copied ==
  /\ pc = "block"
  /\ i = 0 => valid /\ lengths_accepted = Kinds
  /\ cert_len' = IF i = 0 THEN lens ELSE cert_len
  /\ LET head      == i * TS_GET_INFO_BLOCK_LEN + (IF i = 0 THEN HEADER_LEN ELSE 0)
         available == (i + 1) * TS_GET_INFO_BLOCK_LEN - head
         till_end  == cert_len'[curr_cert] - off
         to_copy   == IF till_end > available THEN available ELSE till_end
         chunk     == Copy(curr_cert, off, head, to_copy)
         done      == certificate_done(off + to_copy, cert_len'[curr_cert])
         next_cert == IF done THEN curr_cert + 1 ELSE curr_cert
         next_off  == IF done THEN 0 ELSE off + to_copy
         trailer   == Copy(next_cert, next_off, head + to_copy,
                           trailer_len(available, to_copy))
     IN  IF done /\ curr_cert >= LT_NUM_CERTIFICATES - 1
           THEN /\ copied' = {chunk} /\ got' = Put(got, chunk)
                /\ off' = off + to_copy /\ UNCHANGED curr_cert
                /\ CallEnds("LT_OK")
           ELSE /\ copied' = {chunk, trailer} /\ got' = Put(Put(got, chunk), trailer)
                /\ curr_cert' = next_cert /\ off' = next_off + trailer.n
                /\ IF i + 1 < BLOCKS THEN UNCHANGED <<pc, ret>> ELSE CallEnds("LT_OK")
  /\ i' = i + 1
  /\ UNCHANGED chip

StoreNext ==
  lt_get_info_cert_store \/ exchange_fails \/ header_refused \/ block_copied

StoreSpec == StoreInit /\ [][StoreNext]_storeVars

(***************************************************************************)
(* Properties.                                                             *)
(***************************************************************************)
\* Every variable has its type; no length given to memcpy is negative.
StoreTypeOK ==
  /\ lens \in [Kinds -> CertLens] /\ valid \in BOOLEAN
  /\ buf_len \in [Kinds -> CertBufLens]
  /\ cert_len \in [Kinds -> Nat] /\ got \in [Kinds -> Nat]
  /\ pc \in {"idle", "block"}
  /\ ret \in {"none", "LT_OK", "LT_FAIL", "LT_CERT_STORE_INVALID", "LT_PARAM_ERR"}
  /\ i \in 0..BLOCKS /\ curr_cert \in Kinds /\ off \in Nat
  /\ copied \subseteq [cert : Kinds, off : Nat, src : Nat, n : Nat]

\* Every memcpy of lt_get_info_cert_store reads inside the block just received
\* and writes inside the buffer of its certificate.
CopiesFit ==
  \A m \in copied :
    /\ (i - 1) * TS_GET_INFO_BLOCK_LEN <= m.src
    /\ m.src + m.n <= i * TS_GET_INFO_BLOCK_LEN
    /\ m.off + m.n <= buf_len[m.cert]

\* LT_OK means that all four certificates are complete in their buffers, in the
\* right order and with their right lengths.
CertsWhole ==
  ret = "LT_OK" => cert_len = lens /\ \A c \in Kinds : got[c] >= lens[c]

\* "Optimized ... to read out only needed part": LT_OK comes with the block that
\* holds the last byte of the last certificate.
OnlyNeededBlocks ==
  ret = "LT_OK" => /\ (i - 1) * TS_GET_INFO_BLOCK_LEN < End
                   /\ End <= i * TS_GET_INFO_BLOCK_LEN
=============================================================================
