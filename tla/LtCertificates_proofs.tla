----------------------- MODULE LtCertificates_proofs -----------------------
(***************************************************************************)
(* Proofs about the two parts that handle certificates: LtCertStore, for   *)
(* all lengths of certificates and buffers, and LtAsn1, for streams,       *)
(* buffers and objects of every length and sequences of any depth.         *)
(***************************************************************************)
EXTENDS LtCertStore, LtAsn1, SequenceTheorems, TLAPS

(***************************************************************************)
(* The certificate store.                                                  *)
(***************************************************************************)

\* Between two blocks: everything before position i * 128 of the store is where
\* it belongs, and the current certificate is not complete.
BetweenBlocks ==
  /\ cert_len = lens /\ lengths_accepted = Kinds
  /\ i * 128 = Start(curr_cert) + off
  /\ off < lens[curr_cert]
  /\ \A c \in Kinds : c < curr_cert => got[c] >= lens[c]
  /\ got[curr_cert] >= off

StoreInv ==
  /\ End <= 3840
  /\ pc = "block" => /\ ret = "none"
                     /\ i = 0 => curr_cert = 0 /\ off = 0
                     /\ i > 0 => BetweenBlocks
  /\ CopiesFit /\ CertsWhole /\ OnlyNeededBlocks

\* The sizes of the code.
LEMMA Sizes ==
  /\ Kinds = 0..3 /\ HEADER_LEN = 10 /\ BLOCKS = 30
  /\ TS_GET_INFO_BLOCK_LEN = 128 /\ LT_NUM_CERTIFICATES = 4
  /\ LT_L2_GET_INFO_REQ_CERT_SIZE_TOTAL = 3840
BY DEF Kinds, HEADER_LEN, BLOCKS, TS_GET_INFO_BLOCK_LEN, LT_NUM_CERTIFICATES,
       LT_L2_GET_INFO_REQ_CERT_SIZE_TOTAL

\* Certificates follow each other in the store without gaps.
LEMMA StartFacts ==
  ASSUME StoreTypeOK
  PROVE  /\ \A c \in Kinds : lens[c] \in Nat /\ lens[c] >= 128 /\ Start(c) \in Nat
         /\ Start(0) = 10
         /\ \A c \in 0..2 : Start(c + 1) = Start(c) + lens[c]
         /\ \A c \in Kinds : Start(c) + lens[c] <= End
         /\ Start(3) + lens[3] = End /\ End \in Nat
<1>1. \A c \in Kinds : lens[c] \in Nat /\ lens[c] >= 128
  <2>1. \A x \in CertLens : x \in Nat /\ x >= 128
    BY CertStoreAssumption, Sizes
  <2>2. \A c \in Kinds : lens[c] \in CertLens
    BY DEF StoreTypeOK
  <2> QED
    BY <2>1, <2>2
<1>2. lens[0] \in Nat /\ lens[1] \in Nat /\ lens[2] \in Nat /\ lens[3] \in Nat
  BY <1>1, Sizes
<1>3. /\ Start(0) = 10 /\ Start(1) = 10 + lens[0] /\ Start(2) = 10 + lens[0] + lens[1]
      /\ Start(3) = 10 + lens[0] + lens[1] + lens[2]
  BY <1>2, Sizes DEF Start
<1>4. \A c \in Kinds : c = 0 \/ c = 1 \/ c = 2 \/ c = 3
  BY Sizes
<1>5. \A c \in 0..2 : c = 0 \/ c = 1 \/ c = 2
  OBVIOUS
<1>6. \A c \in 0..2 : Start(c + 1) = Start(c) + lens[c]
  BY <1>2, <1>3, <1>5
<1>7. Start(3) + lens[3] = End /\ End \in Nat
  BY <1>2, <1>3 DEF End
<1>8. \A c \in Kinds : Start(c) \in Nat /\ Start(c) + lens[c] <= End
  BY <1>2, <1>3, <1>4, <1>7
<1> QED
  BY <1>1, <1>3, <1>6, <1>7, <1>8

\* A copy from the right place adds bytes in place and removes none.
LEMMA PutRight ==
  ASSUME NEW g \in [Kinds -> Nat], NEW c \in Kinds, NEW o \in Nat, NEW s \in Nat,
         NEW n \in Nat, s = Start(c) + o, o <= g[c]
  PROVE  /\ Put(g, Copy(c, o, s, n)) \in [Kinds -> Nat]
         /\ Put(g, Copy(c, o, s, n))[c] >= o + n
         /\ \A d \in Kinds : Put(g, Copy(c, o, s, n))[d] >= g[d]
<1> DEFINE m == Copy(c, o, s, n)
<1>1. m.cert = c /\ m.off = o /\ m.src = s /\ m.n = n
  BY DEF Copy
<1> HIDE DEF m
<1>2. Put(g, m) = [g EXCEPT ![c] = IF o <= @ /\ @ < o + n THEN o + n ELSE @]
  BY <1>1 DEF Put
<1>3. g[c] \in Nat
  OBVIOUS
<1> DEFINE new == IF o <= g[c] /\ g[c] < o + n THEN o + n ELSE g[c]
<1>4. new \in Nat /\ new >= o + n /\ new >= g[c]
  BY <1>3
<1>5. Put(g, m) = [g EXCEPT ![c] = new]
  BY <1>2
<1> HIDE DEF new
<1>6. Put(g, m) \in [Kinds -> Nat] /\ Put(g, m)[c] = new
  BY <1>4, <1>5
<1>7. \A d \in Kinds : d # c => Put(g, m)[d] = g[d]
  BY <1>5
<1>8. \A d \in Kinds : g[d] \in Nat
  OBVIOUS
<1>9. \A d \in Kinds : Put(g, m)[d] >= g[d]
  BY <1>4, <1>6, <1>7, <1>8
<1> QED
  BY <1>4, <1>6, <1>9 DEF m

\* StoreInit gives types and invariant.
LEMMA StoreStarts == StoreInit => StoreTypeOK /\ StoreInv
<1> SUFFICES ASSUME StoreInit PROVE StoreTypeOK /\ StoreInv
  OBVIOUS
<1>1. /\ cert_len \in [Kinds -> Nat] /\ got \in [Kinds -> Nat]
      /\ i \in 0..BLOCKS /\ curr_cert \in Kinds /\ off \in Nat
  BY Sizes DEF StoreInit
<1>2. StoreTypeOK
  BY <1>1 DEF StoreInit, StoreTypeOK
<1>3. StoreInv
  BY Sizes DEF StoreInit, StoreInv, CopiesFit, CertsWhole, OnlyNeededBlocks
<1> QED
  BY <1>2, <1>3

\* A block, in the numbers that matter: it begins where the current certificate
\* goes on, and what is copied from it is right.
LEMMA BlockStep == StoreTypeOK /\ StoreInv /\ block_copied => StoreTypeOK' /\ StoreInv'
<1> SUFFICES ASSUME StoreTypeOK, StoreInv, block_copied PROVE StoreTypeOK' /\ StoreInv'
  OBVIOUS
<1> USE Sizes
<1> DEFINE head      == i * 128 + (IF i = 0 THEN 10 ELSE 0)
           available == (i + 1) * 128 - head
           till_end  == lens[curr_cert] - off
           to_copy   == IF till_end > available THEN available ELSE till_end
           chunk     == Copy(curr_cert, off, head, to_copy)
           done      == off + to_copy >= lens[curr_cert]
           next_cert == IF done THEN curr_cert + 1 ELSE curr_cert
           next_off  == IF done THEN 0 ELSE off + to_copy
           tr        == IF available > to_copy THEN 128 - to_copy ELSE 0
           trailer   == Copy(next_cert, next_off, head + to_copy, tr)
<1>1. /\ cert_len' = lens /\ lengths_accepted = Kinds /\ i' = i + 1
      /\ UNCHANGED <<lens, valid, buf_len>> /\ pc = "block"
  BY DEF block_copied, StoreInv, BetweenBlocks, chip, StoreTypeOK
<1>2. /\ \/ /\ done /\ curr_cert >= 3
            /\ copied' = {chunk} /\ got' = Put(got, chunk)
            /\ off' = off + to_copy /\ curr_cert' = curr_cert
            /\ pc' = "idle" /\ ret' = "LT_OK"
         \/ /\ ~(done /\ curr_cert >= 3)
            /\ copied' = {chunk, trailer} /\ got' = Put(Put(got, chunk), trailer)
            /\ curr_cert' = next_cert /\ off' = next_off + trailer.n
            /\ IF i + 1 < 30 THEN UNCHANGED <<pc, ret>>
                             ELSE pc' = "idle" /\ ret' = "LT_OK"
  BY <1>1 DEF block_copied, certificate_done, trailer_len, CallEnds
<1>3. /\ i \in Nat /\ off \in Nat /\ curr_cert \in Kinds /\ got \in [Kinds -> Nat]
      /\ lens[curr_cert] \in Nat /\ lens[curr_cert] >= 128
  BY StartFacts DEF StoreTypeOK
<1>4. /\ head = Start(curr_cert) + off /\ off < lens[curr_cert]
      /\ got[curr_cert] >= off
      /\ \A c \in Kinds : c < curr_cert => got[c] >= lens[c]
  BY <1>1, <1>3, StartFacts DEF StoreInv, BetweenBlocks
<1>5. /\ head \in Nat /\ i * 128 <= head /\ head + available = (i + 1) * 128
      /\ available = (IF i = 0 THEN 118 ELSE 128)
  BY <1>3
<1>6. to_copy \in Nat /\ to_copy > 0 /\ to_copy <= available
      /\ off + to_copy <= lens[curr_cert]
  BY <1>3, <1>4, <1>5
<1>7. /\ \A c \in Kinds : buf_len[c] \in Nat /\ lens[c] <= buf_len[c]
  <2>1. \A c \in Kinds : \A d \in 0..c : lens[d] <= buf_len[d]
    BY <1>1 DEF lengths_accepted
  <2>2. \A c \in Kinds : buf_len[c] \in CertBufLens
    BY DEF StoreTypeOK
  <2>3. \A x \in CertBufLens : x \in Nat
    BY CertStoreAssumption
  <2>4. \A c \in Kinds : c \in 0..c
    OBVIOUS
  <2> QED
    BY <2>1, <2>2, <2>3, <2>4
<1> HIDE DEF head, available, to_copy
<1>8. /\ Put(got, chunk) \in [Kinds -> Nat]
      /\ Put(got, chunk)[curr_cert] >= off + to_copy
      /\ \A c \in Kinds : Put(got, chunk)[c] >= got[c]
  BY <1>3, <1>4, <1>5, <1>6, PutRight
<1>9. chunk = [cert |-> curr_cert, off |-> off, src |-> head, n |-> to_copy]
  BY DEF Copy
<1>9a. chunk \in [cert : Kinds, off : Nat, src : Nat, n : Nat]
  BY <1>3, <1>5, <1>6, <1>9
<1>10. End <= 3840 /\ End' = End /\ \A c : Start(c)' = Start(c)
  BY <1>1 DEF StoreInv, End, Start
<1>11. lengths_accepted' = Kinds
  BY <1>1 DEF lengths_accepted
<1>12. CASE done /\ curr_cert >= 3
  <2>1. /\ copied' = {chunk} /\ got' = Put(got, chunk)
        /\ off' = off + to_copy /\ curr_cert' = curr_cert
        /\ pc' = "idle" /\ ret' = "LT_OK"
    BY <1>2, <1>12
  <2>2. curr_cert = 3 /\ off + to_copy = lens[3] /\ head + to_copy = End
    BY <1>3, <1>4, <1>5, <1>6, <1>12, StartFacts
  <2>3. i < 30
    BY <1>3, <1>5, <1>6, <1>10, <2>2
  <2>4. StoreTypeOK'
    <3>1. /\ i' \in 0..BLOCKS /\ off' \in Nat /\ curr_cert' \in Kinds
          /\ got' \in [Kinds -> Nat] /\ cert_len' \in [Kinds -> Nat]
      BY <1>1, <1>3, <1>6, <1>8, <2>1, <2>3, StartFacts DEF StoreTypeOK
    <3> QED
      BY <1>1, <1>9a, <2>1, <3>1 DEF StoreTypeOK
  <2>5. CopiesFit'
    BY <1>1, <1>3, <1>5, <1>6, <1>7, <1>9, <2>1 DEF CopiesFit
  <2>6. \A c \in Kinds : got'[c] >= lens[c]
    BY <1>3, <1>4, <1>8, <2>1, <2>2, StartFacts
  <2>7. OnlyNeededBlocks'
    BY <1>1, <1>3, <1>5, <1>6, <1>10, <2>2 DEF OnlyNeededBlocks
  <2> QED
    BY <1>1, <1>10, <2>1, <2>4, <2>5, <2>6, <2>7 DEF StoreInv, CertsWhole
<1>13. CASE ~(done /\ curr_cert >= 3)
  <2>1. /\ copied' = {chunk, trailer} /\ got' = Put(Put(got, chunk), trailer)
        /\ curr_cert' = next_cert /\ off' = next_off + trailer.n
        /\ IF i + 1 < 30 THEN UNCHANGED <<pc, ret>>
                         ELSE pc' = "idle" /\ ret' = "LT_OK"
    BY <1>2, <1>13
  <2>2. trailer = [cert |-> next_cert, off |-> next_off, src |-> head + to_copy, n |-> tr]
    BY DEF Copy
  <2>3. /\ next_cert \in Kinds /\ next_off \in Nat /\ tr \in Nat
        /\ head + to_copy = Start(next_cert) + next_off
        /\ head + to_copy + tr = (i + 1) * 128
        /\ next_off + tr < lens[next_cert]
    <3>1. CASE ~done
      <4>1. to_copy = available /\ off + to_copy < lens[curr_cert]
        BY <1>3, <1>4, <1>5, <1>6, <3>1 DEF to_copy
      <4>2. tr = 0 /\ next_cert = curr_cert /\ next_off = off + to_copy
        BY <1>5, <3>1, <4>1
      <4>3. Start(curr_cert) \in Nat
        BY <1>3, StartFacts
      <4> QED
        BY <1>3, <1>4, <1>5, <1>6, <4>1, <4>2, <4>3
    <3>2. CASE done
      <4>1. curr_cert \in 0..2 /\ to_copy = lens[curr_cert] - off /\ i # 0
        BY <1>3, <1>4, <1>5, <1>6, <1>13, <3>2, StartFacts DEF StoreInv, to_copy
      <4>2. /\ Start(curr_cert + 1) = Start(curr_cert) + lens[curr_cert]
            /\ Start(curr_cert) \in Nat
            /\ lens[curr_cert + 1] \in Nat /\ lens[curr_cert + 1] >= 128
        BY <4>1, StartFacts
      <4>3. next_cert = curr_cert + 1 /\ next_off = 0 /\ next_cert \in Kinds
        BY <3>2, <4>1, Sizes
      <4>4. /\ tr \in Nat /\ tr < 128
            /\ head + to_copy + tr = (i + 1) * 128
        BY <1>3, <1>4, <1>5, <1>6, <4>1
      <4>5. head + to_copy = Start(curr_cert) + lens[curr_cert]
        BY <1>3, <1>4, <4>1, <4>2
      <4>6. head + to_copy = Start(next_cert) + next_off
        <5>1. Start(next_cert) = Start(curr_cert) + lens[curr_cert]
          BY <4>2, <4>3
        <5> QED BY <1>3, <4>2, <4>3, <4>5, <5>1
      <4>7. next_off + tr < lens[next_cert]
        <5>1. lens[next_cert] \in Nat /\ lens[next_cert] >= 128
          BY <4>2, <4>3
        <5> HIDE DEF next_cert, next_off, tr
        <5> QED BY <4>3, <4>4, <5>1
      <4> HIDE DEF next_cert, next_off, tr
      <4> QED
        BY <4>3, <4>4, <4>6, <4>7
    <3> QED
      BY <3>1, <3>2
  <2>3a. /\ next_cert = curr_cert => next_off <= off + to_copy
         /\ next_cert # curr_cert => next_cert = curr_cert + 1 /\ next_off = 0
                                    /\ off + to_copy >= lens[curr_cert]
    BY <1>3, <1>6
  <2> HIDE DEF next_cert, next_off, tr, done
  <2>4. next_off <= Put(got, chunk)[next_cert]
    BY <1>3, <1>6, <1>8, <2>3, <2>3a
  <2>5. /\ got' \in [Kinds -> Nat]
        /\ got'[next_cert] >= next_off + tr
        /\ \A c \in Kinds : got'[c] >= Put(got, chunk)[c]
    <3> DEFINE g == Put(got, chunk)
    <3>1. g \in [Kinds -> Nat] /\ head + to_copy \in Nat /\ next_off <= g[next_cert]
      BY <1>5, <1>6, <1>8, <2>4
    <3> HIDE DEF g
    <3>2. /\ Put(g, trailer) \in [Kinds -> Nat]
          /\ Put(g, trailer)[next_cert] >= next_off + tr
          /\ \A c \in Kinds : Put(g, trailer)[c] >= g[c]
      BY <2>3, <3>1, PutRight
    <3> QED
      BY <2>1, <3>2 DEF g
  <2>6. \A c \in Kinds : c < next_cert => got'[c] >= lens[c]
    BY <1>3, <1>4, <1>6, <1>8, <2>3, <2>3a, <2>5, StartFacts
  <2>7. i + 1 < 30
    BY <1>3, <1>5, <1>6, <1>10, <2>3, StartFacts
  <2>8. StoreTypeOK'
    <3>1. trailer \in [cert : Kinds, off : Nat, src : Nat, n : Nat]
      BY <1>5, <1>6, <2>2, <2>3
    <3>2. copied' \subseteq [cert : Kinds, off : Nat, src : Nat, n : Nat]
      BY <1>9a, <2>1, <3>1
    <3>3. /\ i' \in 0..BLOCKS /\ off' \in Nat /\ curr_cert' \in Kinds
          /\ cert_len' \in [Kinds -> Nat]
      BY <1>1, <1>3, <2>1, <2>2, <2>3, <2>7, StartFacts DEF StoreTypeOK
    <3> QED
      BY <1>1, <2>1, <2>5, <2>7, <3>2, <3>3 DEF StoreTypeOK
  <2>9. CopiesFit'
    BY <1>1, <1>3, <1>5, <1>6, <1>7, <1>9, <2>1, <2>2, <2>3, StartFacts DEF CopiesFit
  <2>10. BetweenBlocks'
    <3>1. curr_cert' = next_cert /\ off' = next_off + tr /\ i' = i + 1
      BY <1>1, <2>1, <2>2
    <3>2. Start(curr_cert)' = Start(next_cert)
      BY <1>1, <3>1 DEF Start
    <3>3. /\ i' * 128 = Start(curr_cert)' + off' /\ off' < lens'[curr_cert']
          /\ got'[curr_cert'] >= off'
      BY <1>1, <1>3, <1>5, <1>6, <2>3, <2>5, <3>1, <3>2, StartFacts
    <3>4. \A c \in Kinds : c < curr_cert' => got'[c] >= lens'[c]
      BY <1>1, <2>6, <3>1
    <3> QED
      BY <1>1, <1>11, <3>3, <3>4 DEF BetweenBlocks
  <2> QED
    BY <1>1, <1>3, <1>10, <2>1, <2>7, <2>8, <2>9, <2>10
       DEF StoreInv, CertsWhole, OnlyNeededBlocks
<1> QED
  BY <1>12, <1>13

\* Every step keeps types and invariant.
LEMMA StoreStep ==
  StoreTypeOK /\ StoreInv /\ [StoreNext]_storeVars => StoreTypeOK' /\ StoreInv'
<1> SUFFICES ASSUME StoreTypeOK, StoreInv, [StoreNext]_storeVars
             PROVE  StoreTypeOK' /\ StoreInv'
  OBVIOUS
<1>0. UNCHANGED lens => End' = End
  BY DEF End, Start
<1>1. CASE lt_get_info_cert_store
  <2>1. StoreTypeOK'
    BY <1>1, Sizes DEF lt_get_info_cert_store, chip, StoreTypeOK
  <2> QED
    BY <1>0, <1>1, <2>1 DEF lt_get_info_cert_store, chip, StoreInv, CopiesFit,
                            CertsWhole, OnlyNeededBlocks
<1>2. CASE exchange_fails
  <2>1. StoreTypeOK'
    BY <1>2 DEF exchange_fails, CallEnds, chip, StoreTypeOK
  <2> QED
    BY <1>0, <1>2, <2>1 DEF exchange_fails, CallEnds, chip, StoreInv, CopiesFit,
                            CertsWhole, OnlyNeededBlocks
<1>3. CASE header_refused
  <2>1. cert_len' \in [Kinds -> Nat]
    BY <1>3, StartFacts DEF header_refused, StoreTypeOK
  <2>2. StoreTypeOK'
    BY <1>3, <2>1 DEF header_refused, CallEnds, chip, StoreTypeOK
  <2> QED
    BY <1>0, <1>3, <2>2 DEF header_refused, CallEnds, chip, StoreInv, CopiesFit,
                            CertsWhole, OnlyNeededBlocks
<1>4. CASE block_copied
  BY <1>4, BlockStep
<1>5. CASE UNCHANGED storeVars
  <2>1. StoreTypeOK'
    BY <1>5 DEF storeVars, chip, StoreTypeOK
  <2>2. UNCHANGED <<lens, i, curr_cert, off, buf_len, cert_len, got, pc, ret, copied>>
    BY <1>5 DEF storeVars, chip
  <2> QED
    BY <1>0, <2>1, <2>2 DEF StoreInv, BetweenBlocks, lengths_accepted, Start,
                            CopiesFit, CertsWhole, OnlyNeededBlocks
<1> QED
  BY <1>1, <1>2, <1>3, <1>4, <1>5 DEF StoreNext

\* Types and invariant hold in every reachable state.
LEMMA StoreInvariant == StoreSpec => [](StoreTypeOK /\ StoreInv)
BY StoreStarts, StoreStep, PTL DEF StoreSpec

\* No length given to memcpy is negative and the loop makes at most 30 rounds,
\* for certificates of any length from one block on.
THEOREM StoreTypeCorrect == StoreSpec => []StoreTypeOK
BY StoreInvariant, PTL

\* Whatever the lengths of certificates and buffers, no memcpy of
\* lt_get_info_cert_store leaves the received block or the caller's buffer.
THEOREM StoreCopiesFit == StoreSpec => []CopiesFit
<1>1. StoreInv => CopiesFit
  BY DEF StoreInv
<1> QED
  BY <1>1, StoreInvariant, PTL

\* Whenever lt_get_info_cert_store returns LT_OK all four certificates are
\* complete, for every layout of the store.
THEOREM StoreCertsWhole == StoreSpec => []CertsWhole
<1>1. StoreInv => CertsWhole
  BY DEF StoreInv
<1> QED
  BY <1>1, StoreInvariant, PTL

\* lt_get_info_cert_store reads no block behind the last certificate.
THEOREM StoreOnlyNeeded == StoreSpec => []OnlyNeededBlocks
<1>1. StoreInv => OnlyNeededBlocks
  BY DEF StoreInv
<1> QED
  BY <1>1, StoreInvariant, PTL

(***************************************************************************)
(* The ASN.1 parser.                                                       *)
(***************************************************************************)

Object == [tag : Tags, head : Nat, start : Nat, len : Nat, match : BOOLEAN]

(***************************************************************************)
(* Facts about numbers and sequences.                                      *)
(***************************************************************************)
\* sample_len is the length of the object unless it has 256 bytes or more.
LEMMA SampleLen ==
  ASSUME NEW n \in Nat
  PROVE  /\ n % 256 \in Nat /\ n % 256 <= n
         /\ n < 256 => n % 256 = n
BY SMT

\* The header of an object has two to four bytes.
LEMMA HeaderSize == \A form : header(form) \in {2, 3, 4}
BY DEF header

\* Leaving a sequence takes the innermost end away.
LEMMA Popped ==
  ASSUME NEW s \in Seq(Nat), s # <<>>
  PROVE  LET t == SubSeq(s, 1, Len(s) - 1)
         IN /\ Len(s) \in Nat /\ Len(s) >= 1 /\ DOMAIN s = 1..Len(s)
            /\ t \in Seq(Nat) /\ Len(t) = Len(s) - 1
            /\ DOMAIN t = 1..(Len(s) - 1)
            /\ \A j \in 1..(Len(s) - 1) : t[j] = s[j]
<1>1. Len(s) \in Nat /\ Len(s) >= 1 /\ DOMAIN s = 1..Len(s)
  BY SMT
<1>2. \A j \in 1..(Len(s) - 1) : s[j] \in Nat
  BY <1>1, SMT
<1> DEFINE t == SubSeq(s, 1, Len(s) - 1)
<1>3. /\ t \in Seq(Nat)
      /\ Len(t) = IF 1 <= Len(s) - 1 THEN Len(s) - 1 - 1 + 1 ELSE 0
      /\ \A j \in 1..(Len(s) - 1 - 1 + 1) : t[j] = s[1 + j - 1]
  BY <1>1, <1>2, SubSeqProperties, SMT
<1> HIDE DEF t
<1>4. Len(t) = Len(s) - 1 /\ \A j \in 1..(Len(s) - 1) : t[j] = s[j]
  <2>1. Len(t) = Len(s) - 1
    <3>1. PICK n \in Nat : n = Len(s) /\ n >= 1
      BY <1>1
    <3>2. Len(t) = IF 1 <= n - 1 THEN n - 1 - 1 + 1 ELSE 0
      BY <1>3, <3>1, Zenon
    <3>3. Len(t) = n - 1
      <4> DEFINE m == Len(t)
      <4> HIDE DEF m
      <4>1. m = IF 1 <= n - 1 THEN n - 1 - 1 + 1 ELSE 0
        BY <3>2 DEF m
      <4>2. m = n - 1
        BY <3>1, <4>1, SMT
      <4> QED BY <4>2 DEF m
    <3> QED BY <3>1, <3>3, Zenon
  <2>2. ASSUME NEW j \in 1..(Len(s) - 1) PROVE t[j] = s[j]
    <3>1. 1 + j - 1 = j /\ j \in 1..(Len(s) - 1 - 1 + 1)
      BY <1>1, SMT
    <3>2. t[j] = s[1 + j - 1]
      BY <1>3, <3>1, Zenon
    <3> QED BY <3>1, <3>2, Zenon
  <2> QED BY <2>1, <2>2
<1>5. DOMAIN t = 1..(Len(s) - 1)
  BY <1>3, <1>4, SMT
<1> QED
  BY <1>1, <1>3, <1>4, <1>5 DEF t

\* The fields of an object are numbers.
LEMMA Fields ==
  ASSUME NEW o \in Object
  PROVE  /\ o.head \in Nat /\ o.start \in Nat /\ o.len \in Nat
         /\ o.tag \in Tags /\ o.match \in BOOLEAN
BY DEF Object

\* The fields of the objects that were met.
LEMMA ObjectFields ==
  ASSUME TypeOK, NEW j \in DOMAIN objs
  PROVE  /\ objs[j] \in Object
         /\ objs[j].head \in Nat /\ objs[j].start \in Nat /\ objs[j].len \in Nat
         /\ objs[j].match \in BOOLEAN /\ end(j) \in Nat
<1>1. objs \in Seq(Object)
  BY DEF TypeOK, Object
<1>2. objs[j] \in Object
  BY <1>1, SMT
<1> QED
  BY <1>2, Fields DEF end

(***************************************************************************)
(* One more object.                                                        *)
(***************************************************************************)
\* The earlier objects keep their place; what was behind the parser stays there.
LEMMA Kept ==
  ASSUME TypeOK, NEW o \in Object, objs' = Append(objs, o)
  PROVE  /\ Len(objs) \in Nat /\ DOMAIN objs = 1..Len(objs)
         /\ Len(objs)' = Len(objs) + 1
         /\ DOMAIN objs' = 1..(Len(objs) + 1)
         /\ objs'[Len(objs) + 1] = o
         /\ \A j \in DOMAIN objs :
              /\ objs'[j] = objs[j] /\ end(j)' = end(j) /\ follower(j)' = follower(j)
              /\ skipped(j)' = skipped(j)
              /\ \A m \in 1..(j - 1) : Target(m, j)' = Target(m, j)
<1>1. objs \in Seq(Object)
  BY DEF TypeOK, Object
<1>2. /\ Len(objs) \in Nat /\ DOMAIN objs = 1..Len(objs)
      /\ Len(objs)' = Len(objs) + 1
      /\ DOMAIN objs' = 1..(Len(objs) + 1)
      /\ objs'[Len(objs) + 1] = o
      /\ \A j \in DOMAIN objs : objs'[j] = objs[j]
  <2> DEFINE t == Append(objs, o)
  <2>1. /\ Len(objs) \in Nat /\ DOMAIN objs = 1..Len(objs)
        /\ Len(t) = Len(objs) + 1 /\ DOMAIN t = 1..(Len(objs) + 1)
        /\ \A j \in 1..Len(objs) : t[j] = objs[j]
        /\ t[Len(objs) + 1] = o
    BY <1>1, SMT
  <2>2. objs' = t
    OBVIOUS
  <2> HIDE DEF t
  <2> QED BY <2>1, <2>2, Zenon
<1>3. ASSUME NEW j \in DOMAIN objs
      PROVE  /\ end(j)' = end(j) /\ follower(j)' = follower(j)
             /\ skipped(j)' = skipped(j)
             /\ \A m \in 1..(j - 1) : Target(m, j)' = Target(m, j)
  <2>1. objs'[j] = objs[j] /\ j \in 1..Len(objs)
    BY <1>2, Zenon
  <2>2. \A q \in 1..(j - 1) : q \in DOMAIN objs /\ \A k \in 1..(q - 1) : k \in DOMAIN objs
    BY <1>2, <2>1
  <2>3. \A q \in 1..(j - 1) : objs'[q] = objs[q] /\ \A k \in 1..(q - 1) : objs'[k] = objs[k]
    BY <1>2, <2>2, Zenon
  <2>4. \A m \in 1..(j - 1) : Target(m, j)' = Target(m, j)
    BY <2>1, <2>3, Zenon DEF Target
  <2>5. end(j)' = end(j) /\ follower(j)' = follower(j)
    BY <2>1, Zenon DEF end, follower
  <2>6. skipped(j)' = skipped(j)
    BY <2>1, <2>4, Zenon DEF skipped
  <2> QED BY <2>4, <2>5, <2>6
<1> QED
  BY <1>2, <1>3, Zenon

\* An object that ends at place p, or an identifier that is not consumed.
Passed(o, p) ==
  \/ o.tag = "OBJECT_IDENTIFIER" /\ o.len < 3
  \/ o.tag # "SEQUENCE" /\ p = o.start + o.len

\* A step that only opens or passes the next object keeps the places.
LEMMA PlaceStep ==
  ASSUME TypeOK, rv = "parsing", PlaceInv, ChainInv, NestInv,
         NEW o \in Object, objs' = Append(objs, o), o.head = past,
         past' \in Nat, past <= past', past' <= len, len' = len, rv' = rv,
         NEW N \in Nat, N = Len(objs) + 1,
         \/ ends' = ends /\ (Passed(o, past') \/ skipped(N)')
         \/ o.tag = "SEQUENCE" /\ past' = o.start /\ ends' = Append(ends, o.start + o.len)
  PROVE  PlaceInv' /\ ChainInv' /\ NestInv'
<1>1. /\ Len(objs) \in Nat /\ DOMAIN objs = 1..Len(objs)
      /\ Len(objs') = N /\ DOMAIN objs' = 1..N
      /\ objs'[N] = o
  BY Kept
<1>2. \A j \in DOMAIN objs :
        /\ objs'[j] = objs[j] /\ end(j)' = end(j) /\ follower(j)' = follower(j)
        /\ skipped(j)' = skipped(j)
  BY Kept
<1>3. past \in Nat /\ len \in Nat /\ o.head \in Nat /\ o.start \in Nat /\ o.len \in Nat
  BY Fields DEF TypeOK
<1>4. \A j \in DOMAIN objs : end(j) \in Nat
  BY ObjectFields
<1>5. \A j \in DOMAIN objs : Behind(j) => Behind(j)'
  BY <1>2, <1>3, <1>4 DEF Behind
<1>6. /\ Len(ends) \in Nat /\ DOMAIN ends = 1..Len(ends) /\ Len(ends') \in Nat
      /\ DOMAIN ends' = 1..Len(ends') /\ Len(ends) <= Len(ends')
      /\ \A s \in DOMAIN ends : ends'[s] = ends[s]
      /\ \/ Behind(N)'
         \/ /\ o.tag = "SEQUENCE" /\ Len(ends') = Len(ends) + 1
            /\ ends'[Len(ends')] = end(N)'
  <2>1. ends \in Seq(Nat)
    BY DEF TypeOK
  <2>2. CASE ends' = ends /\ (Passed(o, past') \/ skipped(N)')
    <3>1. CASE Passed(o, past')
      <4>1. Behind(N)'
        BY <1>1, <1>3, <3>1 DEF Passed, Behind, skipped, end
      <4> QED BY <2>1, <2>2, <4>1
    <3>2. CASE skipped(N)'
      <4>1. Behind(N)'
        BY <3>2 DEF Behind
      <4> QED BY <2>1, <2>2, <4>1
    <3> QED BY <2>2, <3>1, <3>2
  <2>3. CASE o.tag = "SEQUENCE" /\ ends' = Append(ends, o.start + o.len)
    <3>1. end(N)' = o.start + o.len
      BY <1>1 DEF end
    <3>2. o.start + o.len \in Nat
      BY <1>3
    <3>3. /\ Len(ends) \in Nat /\ DOMAIN ends = 1..Len(ends)
          /\ Len(ends') = Len(ends) + 1 /\ DOMAIN ends' = 1..(Len(ends) + 1)
          /\ \A s \in 1..Len(ends) : ends'[s] = ends[s]
          /\ ends'[Len(ends) + 1] = o.start + o.len
      <4> DEFINE t == Append(ends, o.start + o.len)
      <4>1. /\ Len(ends) \in Nat /\ DOMAIN ends = 1..Len(ends)
            /\ Len(t) = Len(ends) + 1 /\ DOMAIN t = 1..(Len(ends) + 1)
            /\ \A s \in 1..Len(ends) : t[s] = ends[s]
            /\ t[Len(ends) + 1] = o.start + o.len
        BY <2>1, <3>2, SMT
      <4>2. ends' = t
        BY <2>3
      <4> HIDE DEF t
      <4> QED BY <4>1, <4>2, Zenon
    <3>4. Len(ends) <= Len(ends') /\ Len(ends') \in Nat
      BY <3>3
    <3> QED
      BY <2>3, <3>1, <3>3, <3>4, Zenon
  <2> QED BY <2>2, <2>3
<1>6a. PICK d \in Nat, e \in Nat :
         /\ d = Len(ends) /\ e = Len(ends') /\ d <= e
         /\ DOMAIN ends = 1..d /\ DOMAIN ends' = 1..e
  BY <1>6
<1>6b. \A s \in 1..d : s \in 1..e /\ ends'[s] = ends[s]
  <2>1. \A s \in 1..d : ends'[s] = ends[s]
    BY <1>6, <1>6a, Zenon
  <2>2. \A s \in 1..d : s \in 1..e
    BY <1>6a
  <2> QED BY <2>1, <2>2
<1>6c. Behind(N)' \/ (o.tag = "SEQUENCE" /\ e = d + 1 /\ ends'[e] = end(N)')
  BY <1>6, <1>6a
<1>7. ASSUME NEW j \in DOMAIN objs'
      PROVE  Behind(j)' \/ (objs'[j].tag = "SEQUENCE" /\ \E s \in DOMAIN ends' : ends'[s] = end(j)')
  <2>1. CASE j = N
    BY <1>1, <1>6a, <1>6b, <1>6c, <2>1
  <2>2. CASE j \in DOMAIN objs
    <3>1. Behind(j) \/ (objs[j].tag = "SEQUENCE" /\ \E s \in DOMAIN ends : ends[s] = end(j))
      BY <2>2 DEF PlaceInv
    <3> QED BY <1>2, <1>5, <1>6a, <1>6b, <1>6c, <2>2, <3>1
  <2> QED BY <1>1, <2>1, <2>2
<1>8. PlaceInv'
  BY <1>7 DEF PlaceInv
<1>9. ASSUME NEW j \in DOMAIN objs', NEW k \in (j + 1)..Len(objs')
      PROVE  objs'[j].tag = "SEQUENCE" =>
               \/ objs'[k].head >= end(j)' \/ skipped(k)' \/ end(k)' <= end(j)'
               \/ \E s \in DOMAIN ends' : OpenAround(j, k, s)'
  <2>1. j \in DOMAIN objs /\ j \in Nat
    BY <1>1
  <2>2. CASE k = N
    <3>1. objs'[k].head = past
      BY <1>1, <2>2
    <3>2. CASE Behind(j) /\ ~skipped(j)
      BY <1>2, <2>1, <3>1, <3>2, <1>3, <1>4 DEF Behind
    <3>3. CASE skipped(j)
      BY <1>2, <2>1, <3>3 DEF skipped, Target
    <3>4. CASE ~Behind(j)
      <4>1. PICK s \in DOMAIN ends : ends[s] = end(j)
        BY <2>1, <3>4 DEF PlaceInv
      <4>2. s \in DOMAIN ends' /\ ends'[s] = end(j)'
        BY <1>2, <1>6a, <1>6b, <1>6c, <2>1, <4>1
      <4>3. Behind(k)' \/ \E t \in (s + 1)..Len(ends') : ends'[t] = end(k)'
        BY <1>6a, <1>6b, <1>6c, <2>2, <4>1
      <4>4. OpenAround(j, k, s)'
        BY <4>2, <4>3 DEF OpenAround
      <4>5. objs'[j].tag = "SEQUENCE"
        BY <1>2, <2>1, <3>4 DEF PlaceInv
      <4> QED BY <4>2, <4>4, <4>5
    <3> QED BY <3>2, <3>3, <3>4
  <2>3. CASE k # N
    <3>1. k \in DOMAIN objs /\ k \in (j + 1)..Len(objs)
      BY <1>1, <2>1, <2>3
    <3>2. /\ objs'[k] = objs[k] /\ end(k)' = end(k) /\ skipped(k)' = skipped(k)
          /\ objs'[j] = objs[j] /\ end(j)' = end(j) /\ skipped(j)' = skipped(j)
      BY <1>2, <2>1, <3>1
    <3>3. ASSUME NEW s \in DOMAIN ends, OpenAround(j, k, s)
          PROVE  s \in DOMAIN ends' /\ OpenAround(j, k, s)'
      <4>1. ends'[s] = end(j)' /\ s \in DOMAIN ends'
        BY <1>6a, <1>6b, <1>6c, <3>2, <3>3 DEF OpenAround
      <4>2. Behind(k)' \/ \E t \in (s + 1)..Len(ends') : ends'[t] = end(k)'
        <5>1. CASE Behind(k)
          BY <1>5, <3>1, <5>1
        <5>2. CASE \E t \in (s + 1)..Len(ends) : ends[t] = end(k)
          <6>1. PICK t \in (s + 1)..Len(ends) : ends[t] = end(k)
            BY <5>2
          <6>2. t \in DOMAIN ends /\ t \in (s + 1)..Len(ends')
            BY <1>6a
          <6> QED BY <1>6a, <1>6b, <1>6c, <3>2, <6>1, <6>2
        <5> QED BY <3>3, <5>1, <5>2 DEF OpenAround
      <4> QED BY <4>1, <4>2 DEF OpenAround
    <3>4. objs[j].tag = "SEQUENCE" =>
            \/ objs[k].head >= end(j) \/ skipped(k) \/ end(k) <= end(j)
            \/ \E s \in DOMAIN ends : OpenAround(j, k, s)
      BY <2>1, <3>1 DEF NestInv
    <3> QED BY <3>2, <3>3, <3>4
  <2> QED BY <2>2, <2>3
<1>10. NestInv'
  BY <1>9 DEF NestInv
<1>11. ChainInv'
  <2>1. skipped(N)' \/ past' = follower(N)'
    BY <1>1 DEF Passed, skipped, follower, end
  <2>2. objs'[1].head = 0
    <3>1. CASE objs = <<>>
      BY <1>1, <3>1 DEF ChainInv
    <3>2. CASE objs # <<>>
      <4>1. objs \in Seq(Object)
        BY DEF TypeOK, Object
      <4>2. 1 \in DOMAIN objs
        BY <3>2, <4>1
      <4> QED BY <1>2, <3>2, <4>2 DEF ChainInv
    <3> QED BY <3>1, <3>2
  <2>3. ASSUME NEW j \in 1..(N - 1) PROVE skipped(j)' \/ objs'[j + 1].head = follower(j)'
    <3>1. j \in DOMAIN objs /\ Len(objs) = N - 1
      BY <1>1
    <3>2. CASE j = N - 1
      <4>1. skipped(j) \/ past = follower(j)
        <5>1. objs # <<>>
          BY <3>1
        <5> QED BY <3>1, <3>2, <5>1 DEF ChainInv
      <4>2. objs'[j + 1].head = past
        BY <1>1, <3>2
      <4> QED BY <1>2, <3>1, <4>1, <4>2
    <3>3. CASE j # N - 1
      <4>1. j + 1 \in DOMAIN objs /\ j \in 1..(Len(objs) - 1)
        BY <1>1, <3>1, <3>3
      <4>2. skipped(j) \/ objs[j + 1].head = follower(j)
        BY <4>1 DEF ChainInv
      <4> QED BY <1>2, <3>1, <4>1, <4>2
    <3> QED BY <3>2, <3>3
  <2>4. objs' # <<>>
    BY <1>1
  <2> QED BY <1>1, <2>1, <2>2, <2>3, <2>4 DEF ChainInv
<1> QED BY <1>8, <1>10, <1>11

\* The target, and what was given to the caller, stay when more objects are met.
LEMMA GivenKept ==
  ASSUME TypeOK, NEW o \in Object, objs' = Append(objs, o),
         UNCHANGED <<len, sbuf_len, crop_prefix, out>>,
         NEW m \in DOMAIN objs, NEW p \in DOMAIN objs, Target(m, p)
  PROVE  /\ m \in DOMAIN objs' /\ p \in DOMAIN objs' /\ Target(m, p)'
         /\ objs'[p] = objs[p] /\ (Given(p) => Given(p)')
<1>1. /\ Len(objs) \in Nat /\ DOMAIN objs = 1..Len(objs)
      /\ DOMAIN objs' = 1..(Len(objs) + 1)
      /\ \A j \in DOMAIN objs : /\ objs'[j] = objs[j]
                               /\ \A q \in 1..(j - 1) : Target(q, j)' = Target(q, j)
  BY Kept
<1>2. m \in DOMAIN objs' /\ p \in DOMAIN objs'
  BY <1>1
<1>3. objs'[p] = objs[p]
  BY <1>1, Zenon
<1>4. m \in 1..(p - 1)
  BY <1>1 DEF Target
<1>5. Target(m, p)'
  BY <1>1, <1>4, Zenon
<1>6. Given(p) => Given(p)'
  BY <1>3 DEF Given
<1> QED BY <1>2, <1>3, <1>5, <1>6

\* An object that is not sampled keeps what the flags tell.
LEMMA FlagStep ==
  ASSUME TypeOK, rv = "parsing", FlagInv,
         NEW o \in Object, objs' = Append(objs, o),
         UNCHANGED <<len, sbuf_len, crop_prefix, out, found, rv>>,
         sample_next' <=> sample_next \/ o.match,
         o.tag = "primitive" => ~o.match /\ (found \/ ~sample_next)
  PROVE  FlagInv'
<1>N. PICK N \in Nat : N = Len(objs) + 1
  BY Kept
<1>1. /\ Len(objs) \in Nat /\ DOMAIN objs = 1..(N - 1) /\ DOMAIN objs' = 1..N
      /\ objs'[N] = o
      /\ \A j \in DOMAIN objs : objs'[j] = objs[j]
  BY <1>N, Kept
<1>2. CASE found
  <2>1. PICK m \in DOMAIN objs, p \in DOMAIN objs :
          Target(m, p) /\ (objs[p].len < 256 => Given(p))
    BY <1>2 DEF FlagInv
  <2>2. /\ m \in DOMAIN objs' /\ p \in DOMAIN objs'
        /\ Target(m, p)' /\ (objs'[p].len < 256 => Given(p)')
    BY <2>1, GivenKept
  <2> QED BY <1>2, <2>2 DEF FlagInv
<1>3. CASE ~found
  <2>1. \A j \in DOMAIN objs : objs[j].tag = "primitive" =>
          \A k \in 1..(j - 1) : ~objs[k].match
    BY <1>3 DEF FlagInv
  <2>2. sample_next <=> \E m \in DOMAIN objs : objs[m].match
    BY <1>3 DEF FlagInv
  <2>3. ASSUME NEW j \in DOMAIN objs', objs'[j].tag = "primitive", NEW k \in 1..(j - 1)
        PROVE  ~objs'[k].match
    <3>1. k \in DOMAIN objs /\ objs'[k] = objs[k] /\ j \in 1..N /\ k \in 1..(N - 1)
      BY <1>1
    <3>2. CASE j = N
      <4>1. ~sample_next
        BY <1>1, <1>3, <2>3, <3>2
      <4> QED BY <2>2, <3>1, <4>1
    <3>3. CASE j # N
      <4>1. j \in DOMAIN objs /\ objs'[j] = objs[j]
        BY <1>1, <3>1, <3>3
      <4> QED BY <2>1, <2>3, <3>1, <4>1
    <3> QED BY <3>2, <3>3
  <2>4. sample_next' <=> \E m \in DOMAIN objs' : objs'[m].match
    <3>1. \A m \in DOMAIN objs' : m \in DOMAIN objs \/ m = N
      BY <1>1
    <3>2. N \in DOMAIN objs' /\ \A m \in DOMAIN objs : m \in DOMAIN objs'
      BY <1>1
    <3> QED BY <1>1, <2>2, <3>1, <3>2, Zenon
  <2> QED BY <1>3, <2>3, <2>4 DEF FlagInv
<1> QED BY <1>2, <1>3

\* The object that is sampled is the target.
LEMMA SampledIsTarget ==
  ASSUME TypeOK, FlagInv, NEW o \in Object, objs' = Append(objs, o),
         sample_next, ~found, o.tag = "primitive",
         NEW N \in Nat, N = Len(objs) + 1
  PROVE  \E m \in 1..(N - 1) : Target(m, N)'
<1>1. /\ Len(objs) \in Nat /\ DOMAIN objs = 1..(N - 1)
      /\ objs'[N] = o
      /\ \A j \in DOMAIN objs : objs'[j] = objs[j]
  BY Kept
<1>2. PICK m \in DOMAIN objs : objs[m].match
  BY DEF FlagInv
<1>3. m \in 1..(N - 1) /\ m < N
  BY <1>1, <1>2
<1>4. \A j \in 1..(N - 1) : objs'[j].tag = "primitive" =>
        \A k \in 1..(j - 1) : ~objs'[k].match
  <2>1. \A j \in DOMAIN objs : objs[j].tag = "primitive" =>
          \A k \in 1..(j - 1) : ~objs[k].match
    BY DEF FlagInv
  <2>2. \A j \in 1..(N - 1) : j \in DOMAIN objs /\ \A k \in 1..(j - 1) : k \in DOMAIN objs
    BY <1>1
  <2> QED BY <1>1, <2>1, <2>2, Zenon
<1>5. Target(m, N)'
  BY <1>1, <1>2, <1>3, <1>4 DEF Target
<1> QED BY <1>3, <1>5

\* What is copied of it is its content as far as the buffer takes it, if its length
\* is below 256.
LEMMA SampleStep ==
  ASSUME TypeOK, rv = "parsing", FlagInv,
         NEW o \in Object, objs' = Append(objs, o),
         UNCHANGED <<len, sbuf_len, crop_prefix>>,
         sample_next, ~found, found',
         o.tag = "primitive", rv' = "parsing",
         o.start + (o.len % 256) <= len,
         out' = sampled(o.start, o.len % 256)
  PROVE  FlagInv'
<1>N. PICK N \in Nat : N = Len(objs) + 1
  BY Kept
<1>1. Len(objs) \in Nat /\ DOMAIN objs' = 1..N /\ objs'[N] = o
  BY <1>N, Kept
<1>2. PICK m \in 1..(N - 1) : Target(m, N)'
  BY <1>N, SampledIsTarget
<1>3. m \in DOMAIN objs' /\ N \in DOMAIN objs'
  BY <1>N, <1>1, <1>2
<1>4. ASSUME o.len < 256 PROVE Given(N)'
  <2>1. PICK n \in Nat : n = o.len /\ n = o.len % 256
    <3>1. o.len \in Nat
      BY Fields, Zenon
    <3> QED BY <1>4, <3>1, SampleLen
  <2>2. o.start \in Nat /\ len \in Nat /\ sbuf_len \in Nat /\ o.start + n <= len
    <3>1. o.start \in Nat
      BY DEF Object
    <3>2. len \in Nat /\ sbuf_len \in Nat
      BY DEF TypeOK
    <3> QED BY <2>1, <3>1, <3>2
  <2>3. out' = IF sbuf_len >= n THEN <<o.start, n>>
               ELSE IF crop_prefix THEN <<o.start + n - sbuf_len, sbuf_len>>
               ELSE <<o.start, sbuf_len>>
    BY <2>1 DEF sampled
  <2> DEFINE sample == IF n < sbuf_len THEN n ELSE sbuf_len
  <2>4. out' = <<IF crop_prefix THEN o.start + n - sample ELSE o.start, sample>>
    <3>1. CASE sbuf_len >= n
      <4>1. sample = n /\ o.start + n - sample = o.start
        BY <2>2, <3>1
      <4> QED BY <2>3, <3>1, <4>1
    <3>2. CASE ~(sbuf_len >= n)
      <4>1. sample = sbuf_len
        BY <2>2, <3>2
      <4> QED BY <2>3, <3>2, <4>1
    <3> QED BY <3>1, <3>2
  <2>5. sample \in Nat /\ sample <= n
    BY <2>2
  <2>6. out'[1] + out'[2] <= len
    <3> HIDE DEF sample
    <3>1. out'[1] = (IF crop_prefix THEN o.start + n - sample ELSE o.start) /\ out'[2] = sample
      BY <2>4
    <3> QED BY <2>2, <2>5, <3>1
  <2> QED BY <1>1, <2>1, <2>4, <2>6 DEF Given
<1> QED
  BY <1>1, <1>2, <1>3, <1>4 DEF FlagInv

(***************************************************************************)
(* The steps.                                                              *)
(***************************************************************************)
\* What parse_object does when it reports no error.
LEMMA ParseOutcome ==
  ASSUME TypeOK, PlaceInv, NEW tag \in Tags, NEW l \in Lengths, NEW match \in BOOLEAN,
         parse_object(tag, l[1], l[2], match), Parsed',
         NEW o \in Object,
         o = [tag |-> tag, head |-> past, start |-> past + header(l[1]), len |-> l[2],
              match |-> match]
  PROVE  /\ rv = "parsing" /\ rv' = "parsing"
         /\ past' \in Nat /\ past <= past' /\ past' <= len
         /\ sample_next' \in BOOLEAN /\ found' \in BOOLEAN
         /\ \/ /\ ends' = ends
               /\ Passed(o, past') \/ (sample_next /\ ~found /\ o.tag = "primitive" /\ o.len >= 256)
            \/ o.tag = "SEQUENCE" /\ past' = o.start /\ ends' = Append(ends, o.start + o.len)
         /\ \/ /\ UNCHANGED <<found, out>>
               /\ sample_next' <=> sample_next \/ o.match
               /\ o.tag = "primitive" => ~o.match /\ (found \/ ~sample_next)
            \/ /\ sample_next /\ ~found /\ found' /\ o.tag = "primitive"
               /\ o.start + (o.len % 256) <= len
               /\ out' = sampled(o.start, o.len % 256)
<1> DEFINE n == l[2]
           start == past + header(l[1])
           Content == CASE tag = "SEQUENCE" ->
                             /\ past' = start /\ ends' = Append(ends, start + n)
                             /\ UNCHANGED <<sample_next, found, rv, out>>
                        [] tag = "OBJECT_IDENTIFIER" -> object_identifier(start, n, match)
                        [] tag = "primitive" -> primitive(start, n)
                        [] tag = "other" -> consume_bytes(start + n, Keep)
<1>1. n \in Nat /\ start \in Nat /\ past <= start
  <2>1. past \in Nat /\ l[2] \in Nat
    BY Asn1Assumption DEF TypeOK
  <2>2. header(l[1]) \in {2, 3, 4}
    BY HeaderSize
  <2> QED BY <2>1, <2>2
<1>2. /\ o.tag = tag /\ o.head = past /\ o.start = start /\ o.len = n /\ o.match = match
  OBVIOUS
<1>3. past \in Nat /\ len \in Nat /\ past <= len
  BY DEF TypeOK, PlaceInv
<1>4. rv = "parsing" /\ (match => tag = "OBJECT_IDENTIFIER" /\ n >= 3)
  BY DEF parse_object
<1>5. start <= len /\ Content
  <2>1. IF past + 2 > len THEN Return("LT_CERT_STORE_INVALID")
        ELSE IF l[1] = "unsupported" THEN Return("LT_CERT_UNSUPPORTED")
        ELSE IF start > len THEN Return("LT_CERT_STORE_INVALID")
        ELSE Content
    BY DEF parse_object
  <2> HIDE DEF Content, start
  <2> QED BY <1>1, <1>3, <2>1 DEF Return, Parsed
<1> HIDE DEF n, start
<1> USE DEF Content
<1>6. CASE tag = "SEQUENCE"
  <2>1. /\ past' = start /\ ends' = Append(ends, start + n)
        /\ UNCHANGED <<sample_next, found, rv, out>>
    BY <1>5, <1>6
  <2> QED BY <1>1, <1>2, <1>3, <1>4, <1>5, <1>6, <2>1 DEF TypeOK
<1>7. CASE tag = "OBJECT_IDENTIFIER"
  <2>1. object_identifier(start, n, match)
    BY <1>5, <1>7
  <2>2. CASE n < 3
    <3>1. past' = start /\ UNCHANGED <<ends, sample_next, found, rv, out>>
      BY <2>1, <2>2 DEF object_identifier, Keep
    <3>2. ~match
      BY <1>1, <1>4, <2>2
    <3>3. Passed(o, past')
      BY <1>2, <1>7, <2>2 DEF Passed
    <3> QED BY <1>1, <1>2, <1>3, <1>4, <1>5, <1>7, <3>1, <3>2, <3>3 DEF TypeOK
  <2>3. CASE ~(n < 3)
    <3>1. /\ start + n <= len /\ past' = start + n
          /\ sample_next' = (sample_next \/ match)
          /\ UNCHANGED <<ends, found, rv, out>>
      BY <1>1, <1>3, <2>1, <2>3 DEF object_identifier, consume_bytes, Return, Parsed
    <3>2. Passed(o, past')
      BY <1>1, <1>2, <1>7, <3>1 DEF Passed
    <3> QED BY <1>1, <1>2, <1>3, <1>4, <1>7, <3>1, <3>2 DEF TypeOK
  <2> QED BY <2>2, <2>3
<1>8. CASE tag = "primitive"
  <2>1. primitive(start, n) /\ ~match
    BY <1>4, <1>5, <1>8
  <2>2. CASE sample_next /\ ~found
    <3>1. PICK q \in Nat : q = n % 256 /\ q <= n /\ (n < 256 => q = n)
      BY <1>1, SampleLen
    <3>2. consume_bytes(start + q, /\ out' = sampled(start, q)
                                   /\ sample_next' = FALSE /\ found' = TRUE
                                   /\ UNCHANGED <<ends, rv>>)
      BY <2>1, <2>2, <3>1 DEF primitive
    <3>2a. /\ start + q <= len /\ past' = start + q
           /\ out' = sampled(start, q) /\ sample_next' = FALSE /\ found' = TRUE
           /\ UNCHANGED <<ends, rv>>
      BY <1>1, <1>3, <3>1, <3>2 DEF consume_bytes, Return, Parsed
    <3>3. Passed(o, past') \/ (sample_next /\ ~found /\ o.tag = "primitive" /\ o.len >= 256)
      BY <1>1, <1>2, <1>8, <2>2, <3>1, <3>2a DEF Passed
    <3>4. o.len % 256 = q
      BY <1>2, <3>1
    <3>5. o.start + (o.len % 256) <= len /\ out' = sampled(o.start, o.len % 256)
      BY <1>2, <3>2a, <3>4, Zenon
    <3>6. past' \in Nat /\ past <= past' /\ past' <= len
      BY <1>1, <1>3, <3>1, <3>2a
    <3>7. rv' = "parsing" /\ ends' = ends /\ o.tag = "primitive" /\ found'
          /\ sample_next' \in BOOLEAN /\ found' \in BOOLEAN
      BY <1>2, <1>4, <1>8, <3>2a
    <3> QED BY <1>4, <2>2, <3>3, <3>5, <3>6, <3>7, Zenon
  <2>3. CASE ~(sample_next /\ ~found)
    <3>1. start + n <= len /\ past' = start + n /\ UNCHANGED <<ends, sample_next, found, rv, out>>
      BY <1>1, <1>3, <2>1, <2>3 DEF primitive, consume_bytes, Return, Parsed, Keep
    <3>2. Passed(o, past')
      BY <1>1, <1>2, <1>8, <3>1 DEF Passed
    <3> QED BY <1>1, <1>2, <1>3, <1>4, <1>8, <2>1, <2>3, <3>1, <3>2 DEF TypeOK
  <2> QED BY <2>2, <2>3
<1>9. CASE tag = "other"
  <2>1. consume_bytes(start + n, Keep) /\ ~match
    BY <1>4, <1>5, <1>9
  <2>2. start + n <= len /\ past' = start + n /\ UNCHANGED <<ends, sample_next, found, rv, out>>
    BY <1>1, <1>3, <2>1 DEF consume_bytes, Return, Parsed, Keep
  <2>3. Passed(o, past')
    BY <1>1, <1>2, <1>9, <2>2 DEF Passed
  <2> QED BY <1>1, <1>2, <1>3, <1>4, <1>9, <2>1, <2>2, <2>3 DEF TypeOK
<1> QED BY <1>6, <1>7, <1>8, <1>9 DEF Tags

\* An error leaves the place, the open sequences and the flags alone.
LEMMA ParseError ==
  ASSUME NEW tag \in Tags, NEW form, NEW n, NEW match,
         parse_object(tag, form, n, match), ~Parsed'
  PROVE  UNCHANGED <<past, ends, sample_next, found>>
<1> DEFINE start == past + header(form)
           Content == CASE tag = "SEQUENCE" ->
                             /\ past' = start /\ ends' = Append(ends, start + n)
                             /\ UNCHANGED <<sample_next, found, rv, out>>
                        [] tag = "OBJECT_IDENTIFIER" -> object_identifier(start, n, match)
                        [] tag = "primitive" -> primitive(start, n)
                        [] tag = "other" -> consume_bytes(start + n, Keep)
<1>1. rv' # "parsing" /\ rv = "parsing"
  BY DEF parse_object, Parsed
<1>2. \/ UNCHANGED <<past, ends, sample_next, found>>
      \/ Content
  BY DEF parse_object, Return
<1> QED
  BY <1>1, <1>2 DEF Tags, object_identifier, primitive, consume_bytes, Keep, Return

\* parse_object keeps the types and the places.
LEMMA ParseStep ==
  ASSUME TypeOK, ParseInv, NEW tag \in Tags, NEW l \in Lengths, NEW match \in BOOLEAN,
         parse_object(tag, l[1], l[2], match)
  PROVE  TypeOK' /\ ParseInv'
<1>1. PICK o \in Object :
        o = [tag |-> tag, head |-> past, start |-> past + header(l[1]), len |-> l[2],
             match |-> match]
  <2>1. past \in Nat /\ l[2] \in Nat
    BY Asn1Assumption DEF TypeOK
  <2>2. header(l[1]) \in {2, 3, 4}
    BY HeaderSize
  <2>3. past + header(l[1]) \in Nat
    BY <2>1, <2>2
  <2> QED BY <2>1, <2>3 DEF Object
<1>2. /\ objs' = Append(objs, o) /\ UNCHANGED <<len, sbuf_len, crop_prefix>>
      /\ rv = "parsing" /\ o.head = past
  BY <1>1 DEF parse_object, params
<1>3. objs' \in Seq(Object)
  <2>1. objs \in Seq(Object)
    BY DEF TypeOK, Object
  <2> QED BY <1>2, <2>1
<1>4. FlagInv /\ PlaceInv /\ ChainInv /\ NestInv
  BY <1>2 DEF ParseInv, Parsed
<1>5. ASSUME Parsed' PROVE ParseInv'
  <2>1. /\ rv' = "parsing"
        /\ past' \in Nat /\ past <= past' /\ past' <= len
        /\ \/ /\ ends' = ends
              /\ Passed(o, past') \/ (sample_next /\ ~found /\ o.tag = "primitive" /\ o.len >= 256)
           \/ o.tag = "SEQUENCE" /\ past' = o.start /\ ends' = Append(ends, o.start + o.len)
    BY <1>1, <1>4, <1>5, ParseOutcome
  <2>2. \/ /\ UNCHANGED <<found, out>>
           /\ sample_next' <=> sample_next \/ o.match
           /\ o.tag = "primitive" => ~o.match /\ (found \/ ~sample_next)
        \/ /\ sample_next /\ ~found /\ found' /\ o.tag = "primitive"
           /\ o.start + (o.len % 256) <= len
           /\ out' = sampled(o.start, o.len % 256)
    BY <1>1, <1>4, <1>5, ParseOutcome
  <2>3. PlaceInv' /\ ChainInv' /\ NestInv'
    <3>1. PICK N \in Nat : N = Len(objs) + 1 /\ objs'[N] = o
      BY <1>2, Kept
    <3>2. ASSUME sample_next, ~found, o.tag = "primitive", o.len >= 256
          PROVE  skipped(N)'
      <4>1. \E m \in 1..(N - 1) : Target(m, N)'
        BY <1>2, <1>4, <3>1, <3>2, SampledIsTarget
      <4> QED BY <3>1, <3>2, <4>1 DEF skipped
    <3> QED BY <1>2, <1>4, <2>1, <3>1, <3>2, PlaceStep
  <2>4. FlagInv'
    BY <1>2, <1>4, <2>1, <2>2, FlagStep, SampleStep
  <2> QED
    BY <2>3, <2>4 DEF ParseInv
<1>6. ~Parsed' => ParseInv'
  BY DEF ParseInv
<1>7. TypeOK'
  <2>1. past' \in Nat /\ ends' \in Seq(Nat)
    <3>1. CASE Parsed'
      <4>1. /\ past' \in Nat
            /\ \/ ends' = ends
               \/ ends' = Append(ends, o.start + o.len)
        BY <1>1, <1>4, <3>1, ParseOutcome
      <4>2. o.start + o.len \in Nat
        BY Fields
      <4>3. ends \in Seq(Nat)
        BY DEF TypeOK
      <4> QED BY <4>1, <4>2, <4>3
    <3>2. CASE ~Parsed'
      BY <3>2, ParseError DEF TypeOK
    <3> QED BY <3>1, <3>2
  <2>2. sample_next' \in BOOLEAN /\ found' \in BOOLEAN
    <3>1. CASE Parsed'
      BY <1>1, <1>4, <3>1, ParseOutcome
    <3>2. CASE ~Parsed'
      BY <3>2, ParseError DEF TypeOK
    <3> QED BY <3>1, <3>2
  <2> QED BY <1>2, <1>3, <2>1, <2>2 DEF TypeOK, Object
<1> QED BY <1>5, <1>6, <1>7

\* A step that meets no object changes neither what was given nor where objects are.
LEMMA Unmoved ==
  ASSUME UNCHANGED <<len, sbuf_len, crop_prefix, objs, past, out>>
  PROVE  /\ \A m, p : (Target(m, p)' <=> Target(m, p)) /\ (Given(p)' <=> Given(p))
         /\ \A j : end(j)' = end(j) /\ follower(j)' = follower(j) /\ (skipped(j)' <=> skipped(j))
         /\ \A j : Behind(j)' <=> Behind(j)
<1>1. \A m, p : Target(m, p)' <=> Target(m, p)
  BY Zenon DEF Target
<1>2. \A p : Given(p)' <=> Given(p)
  BY SMT DEF Given
<1>3. \A j : end(j)' = end(j) /\ follower(j)' = follower(j)
  BY Zenon DEF end, follower
<1>4. \A j : skipped(j)' <=> skipped(j)
  BY <1>1, Zenon DEF skipped
<1>5. \A j : Behind(j)' <=> Behind(j)
  BY <1>3, <1>4, SMT DEF Behind
<1> QED BY <1>1, <1>2, <1>3, <1>4, <1>5

\* Leaving a sequence that ends exactly here puts it, and all that is in it,
\* behind the parser.
LEMMA LeaveStep ==
  ASSUME TypeOK, ParseInv, leave_sequence
  PROVE  TypeOK' /\ ParseInv'
<1>1. /\ rv = "parsing" /\ ends # <<>>
      /\ UNCHANGED <<len, sbuf_len, crop_prefix, objs, past, sample_next, found, out>>
      /\ \/ /\ past = ends[Len(ends)] /\ rv' = rv
            /\ ends' = SubSeq(ends, 1, Len(ends) - 1)
         \/ ends' = ends /\ ~Parsed'
  BY DEF leave_sequence, sequence_ends, Return, params, Parsed
<1>2. CASE ends' = ends /\ ~Parsed'
  BY <1>1, <1>2 DEF TypeOK, ParseInv
<1>3. CASE /\ past = ends[Len(ends)] /\ rv' = rv
           /\ ends' = SubSeq(ends, 1, Len(ends) - 1)
  <2>1. PICK d \in Nat :
          /\ d = Len(ends) /\ d >= 1 /\ DOMAIN ends = 1..d
          /\ ends' \in Seq(Nat) /\ Len(ends') = d - 1 /\ DOMAIN ends' = 1..(d - 1)
          /\ \A s \in 1..(d - 1) : ends'[s] = ends[s]
          /\ past = ends[d]
    <3>1. ends \in Seq(Nat)
      BY DEF TypeOK
    <3> DEFINE t == SubSeq(ends, 1, Len(ends) - 1)
    <3>2. /\ Len(ends) \in Nat /\ Len(ends) >= 1 /\ DOMAIN ends = 1..Len(ends)
          /\ t \in Seq(Nat) /\ Len(t) = Len(ends) - 1
          /\ DOMAIN t = 1..(Len(ends) - 1)
          /\ \A j \in 1..(Len(ends) - 1) : t[j] = ends[j]
      BY <1>1, <3>1, Popped
    <3>3. ends' = t
      BY <1>3
    <3> HIDE DEF t
    <3>4. /\ ends' \in Seq(Nat) /\ Len(ends') = Len(ends) - 1
          /\ DOMAIN ends' = 1..(Len(ends) - 1)
          /\ \A j \in 1..(Len(ends) - 1) : ends'[j] = ends[j]
      BY <3>2, <3>3, Zenon
    <3> QED BY <1>3, <3>2, <3>4, Zenon
  <2>2. past \in Nat /\ \A j \in DOMAIN objs : end(j) \in Nat
    BY ObjectFields DEF TypeOK
  <2>3. /\ \A m, p : (Target(m, p)' <=> Target(m, p)) /\ (Given(p)' <=> Given(p))
        /\ \A j : end(j)' = end(j) /\ follower(j)' = follower(j) /\ (skipped(j)' <=> skipped(j))
        /\ \A j : Behind(j)' <=> Behind(j)
    BY <1>1, Unmoved
  <2>5. FlagInv /\ PlaceInv /\ ChainInv /\ NestInv
    BY <1>1 DEF ParseInv, Parsed
  <2>6. FlagInv' /\ ChainInv'
    BY <1>1, <1>3, <2>3, <2>5, Zenon DEF FlagInv, ChainInv
  <2>7. ASSUME NEW j \in DOMAIN objs
        PROVE  Behind(j) \/ (objs[j].tag = "SEQUENCE" /\ \E s \in DOMAIN ends' : ends'[s] = end(j))
    <3>1. CASE Behind(j)
      BY <3>1
    <3>2. CASE ~Behind(j)
      <4>1. PICK s \in 1..d : objs[j].tag = "SEQUENCE" /\ ends[s] = end(j)
        BY <2>1, <2>5, <3>2 DEF PlaceInv
      <4>2. s # d
        BY <2>1, <2>2, <3>2, <4>1 DEF Behind
      <4>3. s \in 1..(d - 1)
        BY <4>2
      <4> QED BY <2>1, <4>1, <4>3
    <3> QED BY <3>1, <3>2
  <2>8. PlaceInv'
    <3>1. past' <= len' /\ rv' = "parsing"
      BY <1>1, <1>3, <2>5 DEF PlaceInv
    <3>2. \A j \in DOMAIN objs' :
            Behind(j)' \/ (objs'[j].tag = "SEQUENCE" /\ \E s \in DOMAIN ends' : ends'[s] = end(j)')
      BY <1>1, <2>3, <2>7, Zenon
    <3> QED BY <3>1, <3>2, Zenon DEF PlaceInv
  <2>9. ASSUME NEW j \in DOMAIN objs, NEW k \in (j + 1)..Len(objs)
        PROVE  objs[j].tag = "SEQUENCE" =>
                 \/ objs[k].head >= end(j) \/ skipped(k) \/ end(k) <= end(j)
                 \/ \E s \in DOMAIN ends' : OpenAround(j, k, s)'
    <3>1. objs[j].tag = "SEQUENCE" =>
            \/ objs[k].head >= end(j) \/ skipped(k) \/ end(k) <= end(j)
            \/ \E s \in DOMAIN ends : OpenAround(j, k, s)
      BY <2>5 DEF NestInv
    <3>2. ASSUME NEW s \in 1..d, OpenAround(j, k, s), ~skipped(k)
          PROVE  end(k) <= end(j) \/ (s \in DOMAIN ends' /\ OpenAround(j, k, s)')
      <4>0. k \in DOMAIN objs
        <5>1. objs \in Seq(Object)
          BY DEF TypeOK, Object
        <5>2. DOMAIN objs = 1..Len(objs) /\ Len(objs) \in Nat
          BY <5>1
        <5> QED BY <5>2
      <4>1. ends[s] = end(j) /\ (end(k) <= past \/ \E t \in (s + 1)..d : ends[t] = end(k))
        BY <2>1, <3>2 DEF OpenAround, Behind
      <4>2. end(k) <= past \/ \E t \in (s + 1)..(d - 1) : ends[t] = end(k)
        <5>1. CASE end(k) <= past
          BY <5>1
        <5>2. CASE \E t \in (s + 1)..d : ends[t] = end(k)
          <6>1. PICK t \in (s + 1)..d : ends[t] = end(k)
            BY <5>2
          <6>2. CASE t = d
            <7>1. end(k) = past
              BY <2>1, <6>1, <6>2
            <7> QED BY <2>2, <7>1
          <6>3. CASE t # d
            BY <6>1, <6>3
          <6> QED BY <6>2, <6>3
        <5> QED BY <4>1, <5>1, <5>2
      <4>3. CASE s = d
        <5>1. end(j) = past
          BY <2>1, <4>1, <4>3
        <5> QED BY <4>2, <4>3, <5>1
      <4>4. CASE s # d
        <5>1. s \in 1..(d - 1) /\ s \in DOMAIN ends'
          BY <2>1, <4>4
        <5>2. ends'[s] = end(j)'
          BY <2>1, <2>3, <4>1, <5>1
        <5>3. Behind(k)' \/ \E t \in (s + 1)..Len(ends') : ends'[t] = end(k)'
          <6>1. CASE end(k) <= past
            BY <2>3, <6>1 DEF Behind
          <6>2. CASE \E t \in (s + 1)..(d - 1) : ends[t] = end(k)
            <7>1. PICK t \in (s + 1)..(d - 1) : ends[t] = end(k)
              BY <6>2
            <7>2. t \in 1..(d - 1)
              OBVIOUS
            <7> QED BY <2>1, <2>3, <7>1, <7>2
          <6> QED BY <4>2, <6>1, <6>2
        <5> QED BY <5>1, <5>2, <5>3 DEF OpenAround
      <4> QED BY <4>3, <4>4
    <3> QED BY <2>1, <3>1, <3>2
  <2>10. NestInv'
    BY <1>1, <2>3, <2>9, Zenon DEF NestInv
  <2>11. TypeOK'
    BY <1>1, <2>1 DEF TypeOK
  <2> QED BY <2>6, <2>8, <2>10, <2>11 DEF ParseInv
<1> QED BY <1>1, <1>2, <1>3

\* asn1der_find_object returns what the flags say.
LEMMA ReturnStep ==
  ASSUME TypeOK, ParseInv, asn1der_find_object
  PROVE  TypeOK' /\ ParseInv'
<1>1. /\ rv = "parsing" /\ ends = <<>>
      /\ UNCHANGED <<len, sbuf_len, crop_prefix, objs, past, ends, sample_next, found, out>>
      /\ rv' = IF found THEN "LT_OK" ELSE "LT_CERT_ITEM_NOT_FOUND"
  BY DEF asn1der_find_object, Return, params
<1>2. FlagInv /\ PlaceInv /\ ChainInv /\ NestInv
  BY <1>1 DEF ParseInv, Parsed
<1>3. /\ \A m, p : (Target(m, p)' <=> Target(m, p)) /\ (Given(p)' <=> Given(p))
      /\ \A j : end(j)' = end(j) /\ follower(j)' = follower(j) /\ (skipped(j)' <=> skipped(j))
      /\ \A j : Behind(j)' <=> Behind(j)
  BY <1>1, Unmoved
<1>4. FlagInv'
  BY <1>1, <1>2, <1>3, Zenon DEF FlagInv
<1>5. PlaceInv' /\ ChainInv'
  BY <1>1, <1>2, <1>3, Zenon DEF PlaceInv, ChainInv
<1>6. NestInv'
  <2>1. \A j, k, s : OpenAround(j, k, s)' <=> OpenAround(j, k, s)
    BY <1>1, <1>3, Zenon DEF OpenAround
  <2> QED BY <1>1, <1>2, <1>3, <2>1 DEF NestInv
<1> QED BY <1>1, <1>4, <1>5, <1>6 DEF TypeOK, ParseInv

(***************************************************************************)
(* The theorems.                                                           *)
(***************************************************************************)
\* The types and ParseInv hold in every reachable state.
THEOREM Invariance == Spec => [](TypeOK /\ ParseInv)
<1>1. Init => TypeOK /\ ParseInv
  <2> SUFFICES ASSUME Init PROVE TypeOK /\ ParseInv
    OBVIOUS
  <2>1. TypeOK
    <3>1. len \in Nat /\ sbuf_len \in Nat
      <4>1. len \in StreamLens /\ sbuf_len \in BufLens
        BY DEF Init
      <4>2. ASSUME NEW n \in StreamLens PROVE n \in Nat
        BY Asn1Assumption
      <4>3. ASSUME NEW n \in BufLens PROVE n \in Nat
        <5>1. n \in 1..255
          BY Asn1Assumption, SMT
        <5> QED BY <5>1
      <4> QED BY <4>1, <4>2, <4>3, Zenon
    <3>2. ends \in Seq(Nat) /\ objs \in Seq(Object)
      BY DEF Init
    <3> QED BY <3>1, <3>2 DEF Init, TypeOK, Object
  <2>2. DOMAIN objs = {} /\ ends = <<>> /\ past <= len /\ rv = "parsing"
    BY Asn1Assumption DEF Init
  <2> QED
    BY <2>1, <2>2 DEF Init, ParseInv, FlagInv, PlaceInv, ChainInv, NestInv
<1>2. TypeOK /\ ParseInv /\ [Next]_vars => TypeOK' /\ ParseInv'
  <2> SUFFICES ASSUME TypeOK, ParseInv, [Next]_vars PROVE TypeOK' /\ ParseInv'
    OBVIOUS
  <2>1. CASE \E tag \in Tags, l \in Lengths, match \in BOOLEAN :
               parse_object(tag, l[1], l[2], match)
    BY <2>1, ParseStep
  <2>2. CASE leave_sequence
    BY <2>2, LeaveStep
  <2>3. CASE asn1der_find_object
    BY <2>3, ReturnStep
  <2>4. CASE UNCHANGED vars
    <3>1. UNCHANGED <<len, sbuf_len, crop_prefix, objs, past, ends, sample_next, found, rv, out>>
      BY <2>4 DEF vars, params, ctx
    <3>2. ParseInv'
      <4>1. /\ \A m, p : (Target(m, p)' <=> Target(m, p)) /\ (Given(p)' <=> Given(p))
            /\ \A j : end(j)' = end(j) /\ follower(j)' = follower(j) /\ (skipped(j)' <=> skipped(j))
            /\ \A j : Behind(j)' <=> Behind(j)
        BY <3>1, Unmoved
      <4>2. (FlagInv' <=> FlagInv) /\ (PlaceInv' <=> PlaceInv) /\ (ChainInv' <=> ChainInv)
        BY <3>1, <4>1, Zenon DEF FlagInv, PlaceInv, ChainInv
      <4>3. NestInv' <=> NestInv
        <5>1. \A j, k, s : OpenAround(j, k, s)' <=> OpenAround(j, k, s)
          BY <3>1, <4>1, Zenon DEF OpenAround
        <5> QED BY <3>1, <4>1, <5>1 DEF NestInv
      <4> QED BY <3>1, <4>2, <4>3 DEF ParseInv, Parsed
    <3> QED BY <3>1, <3>2 DEF TypeOK
  <2> QED BY <2>1, <2>2, <2>3, <2>4 DEF Next
<1> QED
  BY <1>1, <1>2, PTL DEF Spec

\* Whenever asn1der_find_object returns LT_OK, it met the first primitive behind the
\* first identifier that matches, for every stream and every buffer; the caller has
\* its content, cropped as it asked, if the object has at most 255 bytes.
THEOREM ObjectIsFound == Spec => []FoundObject
<1>1. ParseInv => FoundObject
  BY DEF ParseInv, Parsed, FlagInv, FoundObject
<1> QED
  BY <1>1, Invariance, PTL

\* Whenever asn1der_find_object finds no error, the objects it met follow each other
\* without gaps, are nested and lie inside the stream, for every stream; but for
\* identifiers shorter than three bytes and a sampled object of 256 bytes or more,
\* which it does not consume whole.
THEOREM ObjectsNest == Spec => []WellNested
<1>1. TypeOK /\ ParseInv => WellNested
  <2> SUFFICES ASSUME TypeOK, ParseInv, rv \in {"LT_OK", "LT_CERT_ITEM_NOT_FOUND"}
               PROVE  /\ objs # <<>> => objs[1].head = 0
                      /\ \A j \in 1..(Len(objs) - 1) : skipped(j) \/ objs[j + 1].head = follower(j)
                      /\ \A j \in DOMAIN objs : skipped(j) \/ end(j) <= len
                      /\ \A j \in DOMAIN objs : \A k \in (j + 1)..Len(objs) :
                           objs[j].tag = "SEQUENCE" /\ objs[k].head < end(j) =>
                             skipped(k) \/ end(k) <= end(j)
    BY DEF WellNested
  <2>1. PlaceInv /\ ChainInv /\ NestInv
    BY DEF ParseInv, Parsed
  <2>2. DOMAIN ends = {}
    <3>1. ends = <<>>
      BY <2>1 DEF PlaceInv
    <3> QED BY <3>1
  <2>3. past \in Nat /\ len \in Nat /\ past <= len /\ \A j \in DOMAIN objs : end(j) \in Nat
    BY <2>1, ObjectFields DEF TypeOK, PlaceInv
  <2>4. \A j \in DOMAIN objs : skipped(j) \/ end(j) <= len
    BY <2>1, <2>2, <2>3 DEF PlaceInv, Behind
  <2>5. ASSUME NEW j \in DOMAIN objs, NEW k \in (j + 1)..Len(objs),
               objs[j].tag = "SEQUENCE", objs[k].head < end(j)
        PROVE  skipped(k) \/ end(k) <= end(j)
    <3>1. k \in DOMAIN objs
      <4>1. objs \in Seq(Object)
        BY DEF TypeOK, Object
      <4>2. DOMAIN objs = 1..Len(objs) /\ Len(objs) \in Nat
        BY <4>1
      <4> QED BY <4>2
    <3>2. objs[k].head \in Nat
      BY <3>1, ObjectFields
    <3>3. objs[k].head >= end(j) \/ skipped(k) \/ end(k) <= end(j)
      BY <2>1, <2>2, <2>5 DEF NestInv
    <3> QED BY <2>3, <2>5, <3>2, <3>3
  <2> QED BY <2>1, <2>4, <2>5 DEF ChainInv
<1> QED
  BY <1>1, Invariance, PTL
=============================================================================
