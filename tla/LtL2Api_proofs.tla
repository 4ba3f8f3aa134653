-------------------------- MODULE LtL2Api_proofs --------------------------
(***************************************************************************)
(* Proofs about LtL2Api, for update files of every length and division     *)
(* into chunks, any number of failed exchanges, losses of power and other  *)
(* calls.                                                                  *)
(***************************************************************************)
EXTENDS LtL2Api, SequenceTheorems, WellFoundedInduction, TLAPS

(***************************************************************************)
(* Induction over the chunks of an update file.  The induction theorems of *)
(* the library take the induction hypothesis as an operator; here it is a  *)
(* set of naturals, from the theorem on minimal elements.                  *)
(***************************************************************************)
\* Every non-empty set of naturals has a least element.
LEMMA LeastElement ==
  ASSUME NEW S \in SUBSET Nat, S # {}
  PROVE  \E m \in S : \A n \in S : m <= n
<1> DEFINE R == OpToRel(<, Nat)
<1>1. IsWellFoundedOn(R, Nat)
  BY NatLessThanWellFounded
<1>2. \A x, y \in Nat : <<y, x>> \in R <=> y < x
  BY DEF OpToRel
<1> HIDE DEF R
<1>3. PICK m \in S : \A n \in S : ~ (<<n, m>> \in R)
  BY <1>1, WFMin
<1>4. \A n \in S : m <= n
  <2> TAKE n \in S
  <2>1. n \in Nat /\ m \in Nat
    OBVIOUS
  <2>2. ~ (n < m)
    BY <1>2, <1>3, <2>1, Zenon
  <2> QED BY <2>1, <2>2
<1> QED BY <1>4

\* Induction, for a set of naturals.
LEMMA SetInduction ==
  ASSUME NEW S \in SUBSET Nat, 0 \in S, \A n \in S : n + 1 \in S
  PROVE  S = Nat
<1> SUFFICES ASSUME Nat \ S # {} PROVE FALSE
  OBVIOUS
<1>1. PICK m \in Nat \ S : \A n \in Nat \ S : m <= n
  BY LeastElement
<1>2. m - 1 \in Nat /\ m - 1 \in S
  BY <1>1
<1>3. (m - 1) + 1 \in S
  BY <1>2
<1> QED BY <1>1, <1>3

\* The equation that defines the beginnings of the first n chunks.
IsStart(c, n, g) ==
  g = [j \in 1..n |-> IF j = 1 THEN lt_l2_mutable_fw_update_acab_t.REQ_LEN + 1
                       ELSE g[j - 1] + c[j - 1] + 1]

\* It has a solution, ...
LEMMA StartExists ==
  ASSUME NEW c, NEW N \in Nat
  PROVE  \E g : IsStart(c, N, g)
<1> DEFINE S == {n \in Nat : \E g : IsStart(c, n, g)}
<1>1. 0 \in S
  <2>1. IsStart(c, 0, [j \in 1..0 |-> 0])
    BY DEF IsStart
  <2> QED BY <2>1
<1>2. \A n \in S : n + 1 \in S
  <2> TAKE n \in S
  <2>1. n \in Nat
    OBVIOUS
  <2>2. PICK g : IsStart(c, n, g)
    OBVIOUS
  <2> DEFINE h == [j \in 1..(n + 1) |->
                     IF j \in 1..n THEN g[j] ELSE IF n = 0 THEN lt_l2_mutable_fw_update_acab_t.REQ_LEN + 1 ELSE g[n] + c[n] + 1]
  <2>3. \A j \in 1..n : g[j] = IF j = 1 THEN lt_l2_mutable_fw_update_acab_t.REQ_LEN + 1 ELSE g[j - 1] + c[j - 1] + 1
    BY <2>2 DEF IsStart
  <2>4. \A j \in 1..(n + 1) : h[j] = IF j = 1 THEN lt_l2_mutable_fw_update_acab_t.REQ_LEN + 1 ELSE h[j - 1] + c[j - 1] + 1
    <3> TAKE j \in 1..(n + 1)
    <3>1. CASE j \in 1..n
      <4>1. h[j] = g[j] /\ (j # 1 => h[j - 1] = g[j - 1])
        BY <2>1, <3>1
      <4> HIDE DEF h
      <4> QED BY <2>3, <3>1, <4>1
    <3>2. CASE j = n + 1
      <4>1. h[j] = IF n = 0 THEN lt_l2_mutable_fw_update_acab_t.REQ_LEN + 1 ELSE g[n] + c[n] + 1
        BY <2>1, <3>2
      <4>2. n # 0 => h[n] = g[n]
        BY <2>1
      <4>3. j - 1 = n
        BY <2>1, <3>2
      <4> HIDE DEF h
      <4> QED BY <2>1, <3>2, <4>1, <4>2, <4>3
    <3> QED BY <2>1, <3>1, <3>2
  <2>5. h = [j \in 1..(n + 1) |-> h[j]]
    OBVIOUS
  <2> HIDE DEF h
  <2>6. IsStart(c, n + 1, h)
    BY <2>4, <2>5 DEF IsStart
  <2> QED BY <2>1, <2>6
<1> HIDE DEF S
<1>3. S = Nat
  <2>1. S \in SUBSET Nat
    BY DEF S
  <2> QED BY <1>1, <1>2, <2>1, SetInduction
<1> QED BY <1>3 DEF S

\* ... ChunkStart.
LEMMA StartEquation ==
  ASSUME NEW c, Len(c) \in Nat
  PROVE  IsStart(c, Len(c) + 1, ChunkStart(c))
<1>1. PICK g : IsStart(c, Len(c) + 1, g)
  <2>1. Len(c) + 1 \in Nat
    OBVIOUS
  <2> QED BY <2>1, StartExists
<1> QED BY <1>1 DEF ChunkStart, IsStart

\* The first chunk follows the update request, each chunk its predecessor, and
\* the file ends behind the last one.
LEMMA StartFacts ==
  ASSUME NEW c \in Seq(35..252)
  PROVE  /\ ChunkStart(c)[1] = 105
         /\ \A j \in 1..(Len(c) + 1) : ChunkStart(c)[j] \in Nat
         /\ \A j \in 1..Len(c) :
              /\ ChunkStart(c)[j + 1] = ChunkStart(c)[j] + c[j] + 1
              /\ ChunkStart(c)[j] < ChunkStart(c)[Len(c) + 1]
<1> DEFINE start == ChunkStart(c)
           N == Len(c)
<1>0. N \in Nat /\ \A j \in 1..N : c[j] \in Nat
  <2>1. \A j \in 1..Len(c) : c[j] \in 35..252
    BY ElementOfSeq, Zenon
  <2>2. \A n \in 35..252 : n \in Nat
    OBVIOUS
  <2>3. Len(c) \in Nat
    OBVIOUS
  <2> QED BY <2>1, <2>2, <2>3
<1>1. \A j \in 1..(N + 1) : start[j] = IF j = 1 THEN 105 ELSE start[j - 1] + c[j - 1] + 1
  <2>1. IsStart(c, N + 1, start)
    BY <1>0, StartEquation
  <2>2. lt_l2_mutable_fw_update_acab_t.REQ_LEN + 1 = 105
    BY DEF lt_l2_mutable_fw_update_acab_t, L2Struct
  <2> HIDE DEF start, N
  <2> QED BY <1>0, <2>1, <2>2 DEF IsStart
<1> HIDE DEF start, N
<1>2. start[1] = 105
  BY <1>0, <1>1
<1>3. \A j \in 1..N : start[j + 1] = start[j] + c[j] + 1
  <2> TAKE j \in 1..N
  <2>1. j + 1 \in 1..(N + 1) /\ j + 1 # 1 /\ (j + 1) - 1 = j
    BY <1>0
  <2> QED BY <1>1, <2>1
<1>4. \A j \in 1..(N + 1) : start[j] \in Nat
  <2> DEFINE S == {n \in Nat : n + 1 \in 1..(N + 1) => start[n + 1] \in Nat}
  <2>1. 0 \in S
    BY <1>2
  <2>2. \A n \in S : n + 1 \in S
    <3> TAKE n \in S
    <3>1. SUFFICES ASSUME n + 2 \in 1..(N + 1) PROVE start[n + 2] \in Nat
      <4>1. (n + 1) + 1 = n + 2
        OBVIOUS
      <4> QED BY <3>1, <4>1
    <3>2. n + 1 \in 1..N /\ n + 1 \in 1..(N + 1) /\ (n + 1) + 1 = n + 2
      BY <1>0, <3>1
    <3>3. start[n + 1] \in Nat /\ c[n + 1] \in Nat
      BY <1>0, <3>2
    <3>4. start[n + 2] = start[n + 1] + c[n + 1] + 1
      BY <1>3, <3>2
    <3> QED BY <3>3, <3>4
  <2> HIDE DEF S
  <2>3. S = Nat
    <3>1. S \in SUBSET Nat
      BY DEF S
    <3> QED BY <2>1, <2>2, <3>1, SetInduction
  <2> TAKE j \in 1..(N + 1)
  <2>4. j - 1 \in S /\ (j - 1) + 1 = j
    BY <1>0, <2>3
  <2> QED BY <2>4 DEF S
<1>5. \A j \in 1..N : start[j] < start[N + 1]
  <2> DEFINE S == {n \in Nat : \A j \in 1..N : j + n <= N => start[j] < start[(j + n) + 1]}
  <2>1. 0 \in S
    <3> SUFFICES ASSUME NEW j \in 1..N PROVE start[j] < start[j + 1]
      <4>1. \A j \in 1..N : (j + 0) + 1 = j + 1
        BY <1>0
      <4> QED BY <4>1
    <3>1. j \in 1..(N + 1)
      BY <1>0
    <3>2. start[j] \in Nat /\ c[j] \in Nat
      BY <1>0, <1>4, <3>1
    <3> QED BY <1>3, <3>2
  <2>2. \A n \in S : n + 1 \in S
    <3> TAKE n \in S
    <3> SUFFICES ASSUME NEW j \in 1..N, j + (n + 1) <= N
                 PROVE  start[j] < start[(j + (n + 1)) + 1]
      OBVIOUS
    <3>1. n \in Nat /\ j \in Nat
      BY <1>0
    <3> DEFINE m == (j + n) + 1
    <3>2. m \in 1..N /\ m \in 1..(N + 1) /\ (j + (n + 1)) + 1 = m + 1 /\ j + n <= N
      BY <1>0, <3>1
    <3>3. start[j] < start[m]
      BY <3>2
    <3> HIDE DEF m
    <3>4. j \in 1..(N + 1)
      BY <1>0
    <3>5. start[j] \in Nat /\ start[m] \in Nat /\ c[m] \in Nat
      BY <1>0, <1>4, <3>2, <3>4
    <3>6. start[m + 1] = start[m] + c[m] + 1
      BY <1>3, <3>2
    <3>7. start[(j + (n + 1)) + 1] = start[m] + c[m] + 1
      BY <3>2, <3>6
    <3> QED BY <3>3, <3>5, <3>7
  <2> HIDE DEF S
  <2>3. S = Nat
    <3>1. S \in SUBSET Nat
      BY DEF S
    <3> QED BY <2>1, <2>2, <3>1, SetInduction
  <2> TAKE j \in 1..N
  <2>4. N - j \in S /\ j + (N - j) = N
    BY <1>0, <2>3
  <2> QED BY <1>0, <2>4 DEF S
<1> QED BY <1>2, <1>3, <1>4, <1>5 DEF start, N

(***************************************************************************)
(* The inductive invariants.                                               *)
(***************************************************************************)
Bank == [old : BOOLEAN, at : SUBSET (Int \X Int \X Int)]
Chip == [mode : Modes, upd : Kinds \union {"none"}, bank : [Kinds -> Bank]]

FileOK ==
  /\ rev \in {"ABAB", "ACAB"}
  /\ \A k \in Kinds : /\ size[k] \in Nat /\ size[k] > 0
                      /\ chunks[k] \in Seq(35..252) /\ chunks[k] # <<>>

TypeOK ==
  /\ FileOK /\ chip \in Chip
  /\ pc \in {"idle", "sent", "example", "erase", "update", "request", "data", "done", "rebooted"}
  /\ i \in Nat /\ step \in 0..7 /\ result \in {0, -1}
  /\ buff \in [req_id : Nat, req_len : Nat, arg : Nat, offset : Nat, src : Nat, len : Nat]

\* The blocks of an ABAB image, and the first n blocks in a bank.
BlockLen(k, j) == IF j < size[k] \div 128 THEN 128 ELSE size[k] % 128
BlockCount(k) == (size[k] \div 128) + (IF size[k] % 128 # 0 THEN 1 ELSE 0)
Blocks(k, n) == {<<j * 128, j * 128, BlockLen(k, j)>> : j \in 0..(n - 1)}

\* The first n chunks of an ACAB image in a bank.
ChunksIn(k, n) ==
  {<<ChunkStart(chunks[k])[m], ChunkStart(chunks[k])[m], chunks[k][m]>> : m \in 1..n}

\* The bank of the firmware that is being updated holds n blocks and no more.
HasBlocks(n) ==
  ~chip.bank[kind].old /\ chip.bank[kind].at = Blocks(kind, n) /\ n <= BlockCount(kind)

\* An ACAB update has begun and goes to the right bank, if to any.
Begun == ~chip.bank[kind].old /\ chip.upd \in {kind, "none"}

HasChunks == ~chip.bank[kind].old /\ chip.bank[kind].at = ChunksIn(kind, Len(chunks[kind]))

\* The request in the buffer, and what the program makes of its success.
SentAlone   == step = 0 /\ call.then = "idle" /\ buff.req_id \in {1, 2, 8, 32, 162}
SentReboot  == step \in {1, 4} /\ call.then = "rebooted" /\ buff.req_id = 179
SentVersion == step \in {6, 7} /\ call.then = "example" /\ buff.req_id = 1
SentErase   == /\ step \in {2, 3} /\ rev = "ABAB" /\ call.then = "update"
               /\ buff.req_id = 178 /\ buff.arg = FW_BANK[kind] /\ i = 0
SentBlock   == /\ step \in {2, 3} /\ rev = "ABAB" /\ call.then = "update"
               /\ buff.req_id = 177 /\ buff.arg = FW_BANK[kind]
               /\ i > 0 /\ HasBlocks(i - 1) /\ i <= BlockCount(kind)
               /\ buff.offset = (i - 1) * 128 /\ buff.src = (i - 1) * 128
               /\ buff.req_len = BlockLen(kind, i - 1) + 3
SentBegin   == /\ step \in {2, 3} /\ rev = "ACAB" /\ call.then = "data"
               /\ buff.req_id = 176 /\ buff.arg = FW_BANK[kind]
SentChunk   == /\ step \in {2, 3} /\ rev = "ACAB" /\ Begun
               /\ buff.req_id = 177 /\ i = buff.src + buff.req_len + 1
               /\ call.then = IF i < update_data_size(kind) THEN "data" ELSE "done"

\* Where the program is and what the banks hold there.
PlaceInv ==
  /\ pc = "idle" => step = 0
  /\ pc = "example" => step \in 2..7
  /\ pc = "rebooted" => step \in {1, 4}
  /\ pc \in {"erase", "update"} => rev = "ABAB" /\ step \in {2, 3}
  /\ pc \in {"request", "data", "done"} => rev = "ACAB" /\ step \in {2, 3}
  /\ pc = "erase" => i = 0
  /\ pc = "update" => HasBlocks(i)
  /\ pc = "data" => Begun
  /\ pc = "done" => HasChunks
  /\ pc = "sent" => \/ SentAlone \/ SentReboot \/ SentVersion \/ SentErase \/ SentBlock
                    \/ SentBegin \/ SentChunk

\* What the steps of lt_ex_fw_update have achieved.
DoneInv ==
  /\ step \in 3..7 => Holds("CPU")
  /\ step \in 4..7 => Holds("SPECT")
  /\ step \in 5..7 => chip.mode = "APP"
  /\ result = 0 => step = 0 /\ chip.mode = "APP" /\ Holds("CPU") /\ Holds("SPECT")

\* The lengths a request may be answered with fit the caller's buffer.
RoomInv ==
  /\ call.room \in Nat /\ call.t.rsp_room \in Nat
  /\ \A n \in RspLens \intersect call.lens : n <= call.room /\ n <= call.t.rsp_room

UpdateInv == TypeOK /\ PlaceInv /\ DoneInv
IInv == UpdateInv /\ RoomInv /\ FramesExact

(***************************************************************************)
(* Facts about structures, images and the chip.                            *)
(***************************************************************************)
\* The identifiers and lengths of the requests.
LEMMA Structs ==
  /\ lt_l2_mutable_fw_erase_t.id = 178 /\ lt_l2_mutable_fw_update_abab_t.id = 177
  /\ lt_l2_mutable_fw_update_acab_t.id = 176 /\ lt_l2_mutable_fw_update_data_t.id = 177
  /\ lt_l2_startup_t.id = 179 /\ lt_l2_get_info_t.id = 1 /\ lt_l2_handshake_t.id = 2
  /\ lt_l2_encrypted_session_abt_t.id = 8 /\ lt_l2_sleep_t.id = 32 /\ lt_l2_get_log_t.id = 162
  /\ lt_l2_mutable_fw_update_abab_t.REQ_LEN = 3 /\ lt_l2_mutable_fw_update_abab_t.head = 3
  /\ lt_l2_mutable_fw_update_data_t.head = 34
  /\ lt_l2_mutable_fw_update_acab_t.REQ_LEN = 104
BY DEF lt_l2_mutable_fw_erase_t, lt_l2_mutable_fw_update_abab_t, lt_l2_mutable_fw_update_acab_t,
       lt_l2_mutable_fw_update_data_t, lt_l2_startup_t, lt_l2_get_info_t, lt_l2_handshake_t,
       lt_l2_encrypted_session_abt_t, lt_l2_sleep_t, lt_l2_get_log_t, L2Struct

\* The two firmwares and their banks.
LEMMA KindFacts ==
  /\ Kinds = {"CPU", "SPECT"} /\ kind \in Kinds
  /\ FW_BANK["CPU"] = 1 /\ FW_BANK["SPECT"] = 17
  /\ \A k, l \in Kinds : FW_BANK[k] = FW_BANK[l] => k = l
BY DEF Kinds, kind, FW_BANK

\* Division by the length of a block.
LEMMA DivFacts ==
  ASSUME NEW s \in Nat
  PROVE  /\ s \div 128 \in Nat /\ s % 128 \in Nat /\ s % 128 < 128
         /\ s = 128 * (s \div 128) + (s % 128)
<1>1. s \div 128 \in Nat
  OBVIOUS
<1>2. s % 128 \in 0..127
  OBVIOUS
<1>3. s = 128 * (s \div 128) + (s % 128)
  OBVIOUS
<1> QED BY <1>1, <1>2, <1>3

\* One block more in the bank.
LEMMA BlockAdded ==
  ASSUME NEW k, NEW n \in Nat
  PROVE  Blocks(k, n) \union {<<n * 128, n * 128, BlockLen(k, n)>>} = Blocks(k, n + 1)
<1>1. 0..((n + 1) - 1) = (0..(n - 1)) \union {n}
  OBVIOUS
<1> QED BY <1>1 DEF Blocks

\* One chunk more in the bank.
LEMMA ChunkAdded ==
  ASSUME NEW k, NEW n \in Nat \ {0}
  PROVE  ChunksIn(k, n - 1) \union
           {<<ChunkStart(chunks[k])[n], ChunkStart(chunks[k])[n], chunks[k][n]>>}
         = ChunksIn(k, n)
<1>1. 1..n = (1..(n - 1)) \union {n}
  OBVIOUS
<1> QED BY <1>1 DEF ChunksIn

\* All blocks together are the image.
LEMMA BlocksHold ==
  ASSUME NEW k \in Kinds, FileOK, rev = "ABAB", ~chip.bank[k].old,
         chip.bank[k].at = Blocks(k, BlockCount(k))
  PROVE  Holds(k)
<1> DEFINE s == size[k]
           q == s \div 128
           r == s % 128
           n == BlockCount(k)
<1>1. s \in Nat /\ s > 0
  BY DEF FileOK
<1>2. q \in Nat /\ r \in Nat /\ r < 128 /\ s = 128 * q + r
  BY <1>1, DivFacts
<1>3. n = q + (IF r # 0 THEN 1 ELSE 0)
  BY DEF BlockCount
<1>4. \A j : BlockLen(k, j) = IF j < q THEN 128 ELSE r
  BY DEF BlockLen
<1> HIDE DEF s, q, r, n
<1>5. \A p \in chip.bank[k].at : p[1] = p[2]
  BY DEF Blocks, n
<1>6. ASSUME NEW p \in chip.bank[k].at, NEW x \in p[1]..(p[1] + p[3] - 1)
      PROVE  x \in 0..(s - 1)
  <2>1. PICK j \in 0..(n - 1) : p = <<j * 128, j * 128, BlockLen(k, j)>>
    BY <1>6 DEF Blocks, n
  <2>2. p[1] = j * 128 /\ p[3] = (IF j < q THEN 128 ELSE r)
    BY <1>4, <2>1
  <2>3. j \in Nat /\ (j < q \/ (j = q /\ r # 0))
    BY <1>2, <1>3
  <2>4. x \in Int /\ j * 128 <= x /\ x <= j * 128 + (IF j < q THEN 128 ELSE r) - 1
    BY <1>2, <1>6, <2>2, <2>3
  <2> QED BY <1>1, <1>2, <2>3, <2>4
<1>7. ASSUME NEW x \in 0..(s - 1)
      PROVE  \E p \in chip.bank[k].at : x \in p[1]..(p[1] + p[3] - 1)
  <2> DEFINE j == x \div 128
             p == <<j * 128, j * 128, BlockLen(k, j)>>
  <2>1. x \in Nat /\ x < s
    BY <1>1
  <2>2. j \in Nat /\ x >= 128 * j /\ x < 128 * j + 128
    BY <2>1
  <2> HIDE DEF j
  <2>3. j < q \/ (j = q /\ r # 0 /\ x < 128 * q + r)
    BY <1>2, <2>1, <2>2
  <2>4. j \in 0..(n - 1)
    BY <1>2, <1>3, <2>2, <2>3
  <2>5. p \in chip.bank[k].at
    BY <2>4 DEF Blocks, n
  <2>6. p[1] = j * 128 /\ p[3] = IF j < q THEN 128 ELSE r
    BY <1>4
  <2> HIDE DEF p
  <2>7. x \in p[1]..(p[1] + p[3] - 1)
    BY <1>2, <2>1, <2>2, <2>3, <2>6
  <2> QED BY <2>5, <2>7
<1>8. UNION {p[1]..(p[1] + p[3] - 1) : p \in chip.bank[k].at} = 0..(s - 1)
  BY <1>6, <1>7, Zenon
<1> QED BY <1>5, <1>8 DEF Holds, s

\* All chunks together are the image.
LEMMA ChunksHold ==
  ASSUME NEW k \in Kinds, FileOK, rev = "ACAB", ~chip.bank[k].old,
         chip.bank[k].at = ChunksIn(k, Len(chunks[k]))
  PROVE  Holds(k)
<1> DEFINE c == chunks[k]
           start == ChunkStart(chunks[k])
<1>1. DOMAIN c = 1..Len(c)
  BY DEF FileOK
<1>2. \A p \in chip.bank[k].at : p[1] = p[2]
  BY DEF ChunksIn
<1>3. \A p \in chip.bank[k].at : \E j \in DOMAIN c : p[1] = start[j] /\ p[3] = c[j]
  BY <1>1 DEF ChunksIn
<1>4. \A j \in DOMAIN c : \E p \in chip.bank[k].at : p[1] = start[j] /\ p[3] = c[j]
  <2> TAKE j \in DOMAIN c
  <2>1. <<start[j], start[j], c[j]>> \in chip.bank[k].at
    BY <1>1 DEF ChunksIn
  <2> QED BY <2>1
<1> HIDE DEF c, start
<1>5. UNION {p[1]..(p[1] + p[3] - 1) : p \in chip.bank[k].at}
      = UNION {start[j]..(start[j] + c[j] - 1) : j \in DOMAIN c}
  BY <1>3, <1>4
<1> QED BY <1>2, <1>5 DEF Holds, c, start

\* Whether a bank holds the new image depends on the bank and the files.
LEMMA HoldsKept ==
  ASSUME NEW k \in Kinds, UNCHANGED files, chip'.bank[k] = chip.bank[k]
  PROVE  Holds(k)' <=> Holds(k)
BY DEF files, Holds

(***************************************************************************)
(* What a request that succeeds has done to the chip.                      *)
(***************************************************************************)
\* Reading does nothing.
LEMMA ChipReads ==
  ASSUME NEW f, f.req_id \in {1, 2, 8, 32, 162}
  PROVE  ChipAfter(f) = {chip}
<1>1. f.req_id # 0 /\ f.req_id # 179 /\ f.req_id \notin {178, 177, 176}
  OBVIOUS
<1> QED BY <1>1, Structs DEF ChipAfter, NoRequest

\* A start, by request or after a loss of power, leaves the banks alone, and ends
\* in the application if both hold their new image.
LEMMA ChipBoots ==
  ASSUME chip \in Chip, NEW id, NEW c \in Booted(id)
  PROVE  /\ c \in Chip /\ c.bank = chip.bank /\ c.upd = "none"
         /\ id = 1 /\ Holds("CPU") /\ Holds("SPECT") => c.mode = "APP"
<1>1. PICK m \in Modes : /\ c = [chip EXCEPT !.upd = "none", !.mode = m]
                         /\ id = 1 /\ Holds("CPU") /\ Holds("SPECT") => m = "APP"
  <2>1. LT_MODE.MAINTENANCE # 1
    BY DEF LT_MODE
  <2> QED BY <2>1, KindFacts DEF Booted, Modes
<1> QED BY <1>1 DEF Chip

\* The kinds a firmware request can concern.
LEMMA ChipUpdates ==
  ASSUME NEW f, f.req_id \in {176, 177, 178}, NEW c \in ChipAfter(f)
  PROVE  \E k \in Kinds : c \in Erased(k, f) \/ c \in Written(k, f) \/ c \in UpdateBegun(k, f)
                          \/ c \in ChunkWritten(k, f)
<1>1. f.req_id # 0 /\ f.req_id # 179
  OBVIOUS
<1>2. c \in Maintenance(f)
  BY <1>1, Structs DEF ChipAfter, NoRequest
<1> QED BY <1>2 DEF Maintenance

LEMMA ChipErases ==
  ASSUME chip \in Chip, NEW f, f.req_id = 178, NEW l \in Kinds, f.arg = FW_BANK[l],
         NEW c \in ChipAfter(f)
  PROVE  c = [chip EXCEPT !.bank[l] = Empty]
<1>1. PICK k \in Kinds : c \in Erased(k, f) \/ c \in Written(k, f) \/ c \in UpdateBegun(k, f)
                         \/ c \in ChunkWritten(k, f)
  BY ChipUpdates
<1>2. c \in Erased(k, f)
  BY <1>1, Structs DEF Written, UpdateBegun, ChunkWritten
<1> QED BY <1>2, KindFacts DEF Erased

LEMMA ChipWrites ==
  ASSUME chip \in Chip, NEW f, rev = "ABAB", f.req_id = 177, NEW l \in Kinds, f.arg = FW_BANK[l],
         NEW c \in ChipAfter(f)
  PROVE  c = [chip EXCEPT !.bank[l].at = @ \union {<<f.offset, f.src, f.req_len - 3>>}]
<1>1. PICK k \in Kinds : c \in Erased(k, f) \/ c \in Written(k, f) \/ c \in UpdateBegun(k, f)
                         \/ c \in ChunkWritten(k, f)
  BY ChipUpdates
<1>2. c \in Written(k, f)
  BY <1>1, Structs DEF Erased, UpdateBegun, ChunkWritten
<1> QED BY <1>2, KindFacts, Structs DEF Written

LEMMA ChipBegins ==
  ASSUME chip \in Chip, NEW f, f.req_id = 176, NEW l \in Kinds, f.arg = FW_BANK[l],
         NEW c \in ChipAfter(f)
  PROVE  c = [chip EXCEPT !.bank[l] = Empty, !.upd = l]
<1>1. PICK k \in Kinds : c \in Erased(k, f) \/ c \in Written(k, f) \/ c \in UpdateBegun(k, f)
                         \/ c \in ChunkWritten(k, f)
  BY ChipUpdates
<1>2. c \in UpdateBegun(k, f)
  BY <1>1, Structs DEF Erased, Written, ChunkWritten
<1>3. c = [chip EXCEPT !.bank[k] = Empty, !.upd = k]
  BY <1>2, Zenon DEF UpdateBegun
<1>4. f.arg = FW_BANK[k]
  BY <1>2, Zenon DEF UpdateBegun
<1>5. k = l
  <2>1. FW_BANK[k] = FW_BANK[l]
    BY <1>4
  <2> QED BY <2>1, KindFacts
<1> QED BY <1>3, <1>5, Zenon

\* A chunk is taken in its turn only.
LEMMA ChipTakesChunk ==
  ASSUME chip \in Chip, NEW f, rev = "ACAB", f.req_id = 177, NEW l \in Kinds,
         chip.upd \in {l, "none"}, NEW c \in ChipAfter(f)
  PROVE  /\ c = [chip EXCEPT !.bank[l].at = @ \union {<<f.src, f.src, f.req_len>>}]
         /\ \E j \in DOMAIN chunks[l] :
              /\ ChunkStart(chunks[l])[j] = f.src /\ chunks[l][j] = f.req_len
              /\ chip.bank[l].at = ChunksIn(l, j - 1)
<1>1. PICK k \in Kinds : c \in Erased(k, f) \/ c \in Written(k, f) \/ c \in UpdateBegun(k, f)
                         \/ c \in ChunkWritten(k, f)
  BY ChipUpdates
<1>2. c \in ChunkWritten(k, f)
  BY <1>1, Structs DEF Erased, Written, UpdateBegun
<1>3. chip.upd = k
  BY <1>2 DEF ChunkWritten
<1>4. k = l
  BY <1>3, KindFacts
<1> DEFINE start == ChunkStart(chunks[l])
<1>5. PICK j \in DOMAIN chunks[l] :
        /\ start[j] = f.src /\ chunks[l][j] = f.req_len
        /\ chip.bank[l].at = {<<start[m], start[m], chunks[l][m]>> : m \in 1..(j - 1)}
  BY <1>2, <1>4 DEF ChunkWritten
<1>6. c = [chip EXCEPT !.bank[l].at = @ \union {<<f.src, f.src, f.req_len>>}]
  BY <1>2, <1>4 DEF ChunkWritten
<1>7. chip.bank[l].at = ChunksIn(l, j - 1)
  BY <1>5 DEF ChunksIn
<1> QED BY <1>5, <1>6, <1>7

\* Whatever the chip did, it is a chip.
LEMMA ChipStays ==
  ASSUME chip \in Chip,
         NEW f \in [req_id : Nat, req_len : Nat, arg : Nat, offset : Nat, src : Nat, len : Nat],
         NEW c \in ChipAfter(f)
  PROVE  c \in Chip
<1>1. CASE f.req_id = 0
  BY <1>1, Structs DEF ChipAfter, NoRequest
<1>2. CASE f.req_id = 179
  BY <1>2, Structs, ChipBoots DEF ChipAfter, NoRequest
<1>3. CASE f.req_id \in {176, 177, 178}
  <2>1. PICK k \in Kinds : c \in Erased(k, f) \/ c \in Written(k, f) \/ c \in UpdateBegun(k, f)
                           \/ c \in ChunkWritten(k, f)
    BY <1>3, ChipUpdates
  <2>2. Empty \in Bank
    BY DEF Empty, Bank
  <2>3. CASE c \in Erased(k, f)
    BY <2>2, <2>3 DEF Erased, Chip
  <2>4. CASE c \in UpdateBegun(k, f)
    <3>1. c = [chip EXCEPT !.bank[k] = Empty, !.upd = k]
      BY <2>4 DEF UpdateBegun
    <3>2. [chip.bank EXCEPT ![k] = Empty] \in [Kinds -> Bank]
      BY <2>2 DEF Chip
    <3>3. c = [chip EXCEPT !.bank = [chip.bank EXCEPT ![k] = Empty], !.upd = k]
      BY <3>1 DEF Chip
    <3> QED BY <3>2, <3>3 DEF Chip
  <2> DEFINE b(p) == [chip.bank[k] EXCEPT !.at = @ \union {p}]
  <2>5. \A p \in Int \X Int \X Int : b(p) \in Bank
    BY DEF Chip, Bank
  <2>6. \A p \in Int \X Int \X Int : [chip EXCEPT !.bank[k].at = @ \union {p}] \in Chip
    <3> TAKE p \in Int \X Int \X Int
    <3>1. [chip.bank EXCEPT ![k] = b(p)] \in [Kinds -> Bank]
      BY <2>5 DEF Chip
    <3>2. [chip EXCEPT !.bank[k].at = @ \union {p}]
          = [chip EXCEPT !.bank = [chip.bank EXCEPT ![k] = b(p)]]
      BY DEF Chip
    <3> HIDE DEF b
    <3> QED BY <3>1, <3>2 DEF Chip
  <2>7. CASE c \in Written(k, f)
    <3>1. <<f.offset, f.src, f.req_len - 3>> \in Int \X Int \X Int
      OBVIOUS
    <3> QED BY <2>6, <2>7, <3>1, Structs DEF Written
  <2>8. CASE c \in ChunkWritten(k, f)
    <3>1. <<f.src, f.src, f.req_len>> \in Int \X Int \X Int
      OBVIOUS
    <3>2. c = [chip EXCEPT !.bank[k].at = @ \union {<<f.src, f.src, f.req_len>>}]
      BY <2>8 DEF ChunkWritten
    <3> QED BY <2>6, <3>1, <3>2, Zenon
  <2> QED BY <2>1, <2>3, <2>4, <2>7, <2>8
<1>4. CASE f.req_id \notin {0, 176, 177, 178, 179}
  BY <1>4, Structs DEF ChipAfter, NoRequest
<1> QED BY <1>1, <1>2, <1>3, <1>4

(***************************************************************************)
(* The steps of the update.                                                *)
(***************************************************************************)
\* The initial states satisfy the invariant.
LEMMA InitUpdate == Init => UpdateInv
<1> SUFFICES ASSUME Init PROVE UpdateInv
  OBVIOUS
<1>1. FileOK
  BY L2ApiAssumption DEF Init, FileOK
<1>2. chip \in Chip
  <2>1. [k \in Kinds |-> [old |-> TRUE, at |-> {}]] \in [Kinds -> Bank]
    BY DEF Bank
  <2> QED BY <2>1 DEF Init, Chip, Modes
<1>3. TypeOK
  BY <1>1, <1>2 DEF Init, TypeOK, Frame, NoRequest
<1>4. PlaceInv /\ DoneInv
  BY DEF Init, PlaceInv, DoneInv
<1> QED BY <1>3, <1>4 DEF UpdateInv

\* The files never change.
LEMMA FilesKept == ASSUME FileOK, UNCHANGED files PROVE FileOK'
BY DEF FileOK, files

\* As long as neither chip nor progress change, what was achieved stays achieved.
LEMMA DoneKept ==
  ASSUME DoneInv, UNCHANGED <<files, chip, step, result>>
  PROVE  DoneInv'
<1>1. (Holds("CPU")' <=> Holds("CPU")) /\ (Holds("SPECT")' <=> Holds("SPECT"))
  BY HoldsKept, KindFacts
<1> QED BY <1>1 DEF DoneInv

\* The program gives up.
LEMMA FailsInv ==
  ASSUME UpdateInv, Fails, UNCHANGED files, chip' \in Chip, i' \in Nat,
         buff' \in [req_id : Nat, req_len : Nat, arg : Nat, offset : Nat, src : Nat, len : Nat],
         step = 0 => UNCHANGED chip
  PROVE  UpdateInv'
<1>1. TypeOK'
  BY FilesKept DEF UpdateInv, TypeOK, Fails
<1>2. PlaceInv'
  BY DEF PlaceInv, Fails
<1>3. DoneInv'
  <2>1. CASE step > 0
    BY <2>1 DEF Fails, DoneInv
  <2>2. CASE step = 0
    BY <2>2, DoneKept DEF Fails, UpdateInv
  <2> QED BY <2>1, <2>2 DEF UpdateInv, TypeOK
<1> QED BY <1>1, <1>2, <1>3 DEF UpdateInv

\* A loss of power keeps the banks.
LEMMA PowerStep == ASSUME UpdateInv, PowerLoss PROVE UpdateInv'
<1>1. /\ chip' \in Chip /\ chip'.bank = chip.bank /\ chip'.upd = "none"
      /\ Holds("CPU") /\ Holds("SPECT") => chip'.mode = "APP"
  <2>1. chip' \in Booted(1) /\ chip \in Chip
    BY DEF PowerLoss, LT_MODE, UpdateInv, TypeOK
  <2> QED BY <2>1, ChipBoots
<1>2. UNCHANGED <<files, pc, call, buff, i, step, result>> /\ step > 0
  BY DEF PowerLoss
<1>3. TypeOK'
  BY <1>1, <1>2, FilesKept DEF UpdateInv, TypeOK
<1>4. UNCHANGED <<rev, size, chunks, kind>>
  BY <1>2 DEF files, kind
<1>5. \A n : HasBlocks(n) => HasBlocks(n)'
  BY <1>1, <1>4 DEF HasBlocks, Blocks, BlockLen, BlockCount
<1>6. (Begun => Begun') /\ (HasChunks => HasChunks')
  BY <1>1, <1>4 DEF Begun, HasChunks, ChunksIn
<1>7. pc = "sent" => \/ SentAlone' \/ SentReboot' \/ SentVersion' \/ SentErase' \/ SentBlock'
                     \/ SentBegin' \/ SentChunk'
  <2>1. SentBlock => SentBlock'
    BY <1>2, <1>4, <1>5 DEF SentBlock, BlockCount, BlockLen, UpdateInv, TypeOK
  <2>2. SentChunk => SentChunk'
    BY <1>2, <1>4, <1>6 DEF SentChunk, update_data_size
  <2>3. /\ SentAlone => SentAlone'
        /\ SentReboot => SentReboot'
        /\ SentVersion => SentVersion'
        /\ SentErase => SentErase'
        /\ SentBegin => SentBegin'
    BY <1>2, <1>4 DEF SentAlone, SentReboot, SentVersion, SentErase, SentBegin
  <2> QED BY <2>1, <2>2, <2>3 DEF UpdateInv, PlaceInv
<1>8. PlaceInv'
  <2>1. pc = "update" => HasBlocks(i)'
    BY <1>2, <1>5 DEF UpdateInv, PlaceInv
  <2> QED BY <1>2, <1>4, <1>6, <1>7, <2>1 DEF UpdateInv, PlaceInv
<1>9. DoneInv'
  <2>1. (Holds("CPU")' <=> Holds("CPU")) /\ (Holds("SPECT")' <=> Holds("SPECT"))
    BY <1>1, <1>2, HoldsKept, KindFacts
  <2> QED BY <1>1, <1>2, <2>1 DEF UpdateInv, DoneInv
<1> QED BY <1>3, <1>8, <1>9 DEF UpdateInv

\* A request that reads something leaves with the chip and the progress as they are.
LEMMA AloneStep == ASSUME UpdateInv, Others PROVE UpdateInv'
<1>1. PICK t \in {lt_l2_get_info_t, lt_l2_get_log_t, lt_l2_handshake_t,
                  lt_l2_encrypted_session_abt_t, lt_l2_sleep_t} :
        \E lens, room : \E arg \in Nat : Alone(t, lens, room, arg)
  BY DEF Others, lt_get_info_chip_id, lt_get_info_fw_bank, lt_get_log_req, lt_session_start,
         lt_session_abort, lt_sleep
<1>2. PICK lens, room : \E arg \in Nat : Alone(t, lens, room, arg)
  BY <1>1
<1>3. PICK arg \in Nat : Alone(t, lens, room, arg)
  BY <1>2
<1>4. t.id \in {1, 2, 8, 32, 162} /\ t.REQ_LEN \in Nat
  BY <1>1, Structs DEF lt_l2_get_info_t, lt_l2_get_log_t, lt_l2_handshake_t,
     lt_l2_encrypted_session_abt_t, lt_l2_sleep_t, L2Struct
<1>5. /\ pc = "idle" /\ pc' = "sent" /\ call'.then = "idle" /\ buff'.req_id = t.id
      /\ buff' = Frame(t.id, t.REQ_LEN, arg, 0, 0, 0)
      /\ UNCHANGED <<files, i, step, result, chip>>
  BY <1>3 DEF Alone, SendPlain, Send, Request, Frame
<1>6. TypeOK'
  BY <1>4, <1>5, FilesKept DEF UpdateInv, TypeOK, Frame
<1>7. PlaceInv'
  BY <1>4, <1>5 DEF UpdateInv, PlaceInv, SentAlone
<1>8. DoneInv'
  BY <1>5, DoneKept DEF UpdateInv
<1> QED BY <1>6, <1>7, <1>8 DEF UpdateInv

\* The frame that a response leaves in the buffer.
LEMMA OverwrittenType ==
  ASSUME TypeOK
  PROVE  Overwritten \in [req_id : Nat, req_len : Nat, arg : Nat, offset : Nat, src : Nat,
                          len : Nat]
BY DEF TypeOK, Overwritten, NoRequest

\* A request fails: the chip may have carried it out all the same.
LEMMA ExchangeFailsStep == ASSUME UpdateInv, lt_l2_exchange_fails PROVE UpdateInv'
<1>1. /\ pc = "sent" /\ chip \in Chip /\ TypeOK
      /\ chip' \in {chip} \union ChipAfter(buff)
  BY DEF UpdateInv, TypeOK, lt_l2_exchange_fails, Chipless
<1>2. chip' \in Chip
  <2>1. buff \in [req_id : Nat, req_len : Nat, arg : Nat, offset : Nat, src : Nat, len : Nat]
    BY <1>1 DEF TypeOK
  <2> QED BY <1>1, <2>1, ChipStays
<1>3. step = 0 => UNCHANGED chip
  <2> SUFFICES ASSUME step = 0 PROVE UNCHANGED chip
    OBVIOUS
  <2>1. buff.req_id \in {1, 2, 8, 32, 162}
    BY <1>1 DEF UpdateInv, PlaceInv, SentAlone, SentReboot, SentVersion, SentErase, SentBlock,
                SentBegin, SentChunk
  <2>2. ChipAfter(buff) = {chip}
    BY <2>1, ChipReads
  <2> QED BY <1>1, <2>2
<1>4. Fails /\ UNCHANGED <<files, i>> /\ buff' = Overwritten
  BY DEF lt_l2_exchange_fails
<1> QED BY <1>1, <1>2, <1>3, <1>4, FailsInv, OverwrittenType DEF TypeOK

\* A request succeeds.
LEMMA ExchangeStep == ASSUME UpdateInv, lt_l2_exchange PROVE UpdateInv'
<1>1. /\ pc = "sent" /\ chip \in Chip /\ TypeOK /\ PlaceInv /\ DoneInv
      /\ chip' \in ChipAfter(buff) /\ buff' = Overwritten /\ pc' = call.then
      /\ UNCHANGED <<files, rev, size, chunks, call, i, step, result, kind>>
  BY DEF UpdateInv, TypeOK, lt_l2_exchange, files, kind
<1>2. chip' \in Chip
  <2>1. buff \in [req_id : Nat, req_len : Nat, arg : Nat, offset : Nat, src : Nat, len : Nat]
    BY <1>1 DEF TypeOK
  <2> QED BY <1>1, <2>1, ChipStays
<1>3. pc' \in {"idle", "rebooted", "example", "update", "data", "done"}
  BY <1>1 DEF PlaceInv, SentAlone, SentReboot, SentVersion, SentErase, SentBlock,
              SentBegin, SentChunk
<1>4. TypeOK'
  BY <1>1, <1>2, <1>3, FilesKept, OverwrittenType DEF TypeOK
<1>5. CASE SentAlone \/ SentVersion
  <2>1. ChipAfter(buff) = {chip}
    BY <1>5, ChipReads DEF SentAlone, SentVersion
  <2>2. UNCHANGED chip
    BY <1>1, <2>1
  <2>3. PlaceInv'
    BY <1>1, <1>5 DEF PlaceInv, SentAlone, SentVersion
  <2>4. DoneInv'
    BY <1>1, <2>2, DoneKept
  <2> QED BY <1>4, <2>3, <2>4 DEF UpdateInv
<1>6. CASE SentReboot
  <2>1. chip'.bank = chip.bank
    <3>1. ChipAfter(buff) = Booted(buff.arg)
      BY <1>6, Structs DEF SentReboot, ChipAfter, NoRequest
    <3> QED BY <1>1, <3>1, ChipBoots
  <2>2. PlaceInv'
    BY <1>1, <1>6 DEF PlaceInv, SentReboot
  <2>3. (Holds("CPU")' <=> Holds("CPU")) /\ (Holds("SPECT")' <=> Holds("SPECT"))
    BY <1>1, <2>1, HoldsKept, KindFacts
  <2>4. DoneInv'
    BY <1>1, <1>6, <2>3 DEF SentReboot, DoneInv
  <2> QED BY <1>4, <2>2, <2>4 DEF UpdateInv
\* Only the bank of the firmware that is being updated changes.
<1>7. ASSUME step \in {2, 3}, \A k \in Kinds : k # kind => chip'.bank[k] = chip.bank[k]
      PROVE  DoneInv'
  <2>1. step = 3 => (Holds("CPU")' <=> Holds("CPU"))
    BY <1>1, <1>7, HoldsKept, KindFacts DEF kind
  <2> QED BY <1>1, <1>7, <2>1 DEF DoneInv
<1>8. CASE SentErase
  <2>1. chip' = [chip EXCEPT !.bank[kind] = Empty]
    BY <1>1, <1>8, ChipErases, KindFacts DEF SentErase
  <2>2. /\ ~chip'.bank[kind].old /\ chip'.bank[kind].at = {}
        /\ \A k \in Kinds : k # kind => chip'.bank[k] = chip.bank[k]
    BY <1>1, <2>1, KindFacts DEF Chip, Empty
  <2>3. HasBlocks(i)'
    <3>1. Blocks(kind, 0) = {}
      BY DEF Blocks
    <3>2. BlockCount(kind) \in Nat
      <4>1. size[kind] \in Nat
        BY <1>1, KindFacts DEF TypeOK, FileOK
      <4> QED BY <4>1, DivFacts DEF BlockCount
    <3>3. (Blocks(kind, i)' = Blocks(kind, i)) /\ BlockCount(kind)' = BlockCount(kind)
      BY <1>1 DEF Blocks, BlockLen, BlockCount
    <3> QED BY <1>1, <1>8, <2>2, <3>1, <3>2, <3>3 DEF HasBlocks, SentErase
  <2>4. PlaceInv'
    BY <1>1, <1>8, <2>3 DEF PlaceInv, SentErase
  <2>5. DoneInv'
    BY <1>7, <1>8, <2>2 DEF SentErase
  <2> QED BY <1>4, <2>4, <2>5 DEF UpdateInv
<1>9. CASE SentBlock
  <2> DEFINE p == <<buff.offset, buff.src, buff.req_len - 3>>
  <2>1. chip' = [chip EXCEPT !.bank[kind].at = @ \union {p}]
    BY <1>1, <1>9, ChipWrites, KindFacts DEF SentBlock
  <2>2. /\ chip'.bank[kind].old = chip.bank[kind].old
        /\ chip'.bank[kind].at = chip.bank[kind].at \union {p}
        /\ \A k \in Kinds : k # kind => chip'.bank[k] = chip.bank[k]
    <3> HIDE DEF p
    <3> QED BY <1>1, <2>1, KindFacts DEF Chip, Bank
  <2>3. p = <<(i - 1) * 128, (i - 1) * 128, BlockLen(kind, i - 1)>>
    <3>1. BlockLen(kind, i - 1) \in Nat
      <4>1. size[kind] \in Nat
        BY <1>1, KindFacts DEF TypeOK, FileOK
      <4> QED BY <4>1, DivFacts DEF BlockLen
    <3>2. buff.req_len - 3 = BlockLen(kind, i - 1)
      BY <1>9, <3>1 DEF SentBlock
    <3> QED BY <1>9, <3>2 DEF SentBlock
  <2>4. i - 1 \in Nat /\ (i - 1) + 1 = i
    BY <1>1, <1>9 DEF SentBlock, TypeOK
  <2>5. chip'.bank[kind].at = Blocks(kind, i)
    <3>1. chip.bank[kind].at = Blocks(kind, i - 1)
      BY <1>9 DEF SentBlock, HasBlocks
    <3> HIDE DEF p
    <3> QED BY <2>2, <2>3, <2>4, <3>1, BlockAdded
  <2>6. HasBlocks(i)'
    <3>1. (Blocks(kind, i)' = Blocks(kind, i)) /\ BlockCount(kind)' = BlockCount(kind)
      BY <1>1 DEF Blocks, BlockLen, BlockCount
    <3> HIDE DEF p
    <3> QED BY <1>1, <1>9, <2>2, <2>5, <3>1 DEF HasBlocks, SentBlock
  <2>7. PlaceInv'
    BY <1>1, <1>9, <2>6 DEF PlaceInv, SentBlock
  <2>8. DoneInv'
    BY <1>7, <1>9, <2>2 DEF SentBlock
  <2> QED BY <1>4, <2>7, <2>8 DEF UpdateInv
<1>10. CASE SentBegin
  <2>1. chip' = [chip EXCEPT !.bank[kind] = Empty, !.upd = kind]
    <3>1. buff.req_id = 176 /\ buff.arg = FW_BANK[kind]
      BY <1>10 DEF SentBegin
    <3>2. kind \in Kinds /\ chip \in Chip /\ chip' \in ChipAfter(buff)
      BY <1>1, KindFacts
    <3> QED BY <3>1, <3>2, ChipBegins, Zenon
  <2>2. /\ ~chip'.bank[kind].old /\ chip'.upd = kind
        /\ \A k \in Kinds : k # kind => chip'.bank[k] = chip.bank[k]
    <3> DEFINE b == [chip.bank EXCEPT ![kind] = Empty]
    <3>1. chip' = [chip EXCEPT !.bank = b, !.upd = kind]
      BY <2>1, Zenon
    <3> HIDE DEF b
    <3>2. chip'.bank = b /\ chip'.upd = kind
      BY <1>1, <3>1 DEF Chip
    <3>3. ~b[kind].old /\ \A k \in Kinds : k # kind => b[k] = chip.bank[k]
      BY <1>1, KindFacts DEF Chip, Empty, b
    <3> QED BY <3>2, <3>3
  <2>3. Begun'
    BY <1>1, <2>2 DEF Begun
  <2>4. PlaceInv'
    BY <1>1, <1>10, <2>3 DEF PlaceInv, SentBegin
  <2>5. DoneInv'
    BY <1>7, <1>10, <2>2 DEF SentBegin
  <2> QED BY <1>4, <2>4, <2>5 DEF UpdateInv
<1>11. CASE SentChunk
  <2> DEFINE p == <<buff.src, buff.src, buff.req_len>>
             c == chunks[kind]
             start == ChunkStart(chunks[kind])
  <2>1. rev = "ACAB" /\ buff.req_id = 177 /\ chip.upd \in {kind, "none"} /\ step \in {2, 3}
    BY <1>11 DEF SentChunk, Begun
  <2>2. chip' = [chip EXCEPT !.bank[kind].at = @ \union {p}]
    BY <1>1, <2>1, ChipTakesChunk, KindFacts
  <2>3. PICK j \in DOMAIN c : /\ start[j] = buff.src /\ c[j] = buff.req_len
                              /\ chip.bank[kind].at = ChunksIn(kind, j - 1)
    BY <1>1, <2>1, ChipTakesChunk, KindFacts
  <2>4. /\ chip'.bank[kind].old = chip.bank[kind].old /\ chip'.upd = chip.upd
        /\ chip'.bank[kind].at = chip.bank[kind].at \union {p}
        /\ \A k \in Kinds : k # kind => chip'.bank[k] = chip.bank[k]
    <3> HIDE DEF p
    <3> QED BY <1>1, <2>2, KindFacts DEF Chip, Bank
  <2>5. c \in Seq(35..252) /\ Len(c) \in Nat /\ DOMAIN c = 1..Len(c)
    BY <1>1, KindFacts DEF TypeOK, FileOK
  <2>6. j \in 1..Len(c) /\ j \in Nat \ {0}
    BY <2>3, <2>5
  <2>7. chip'.bank[kind].at = ChunksIn(kind, j)
    <3>1. p = <<start[j], start[j], c[j]>>
      BY <2>3
    <3> HIDE DEF p
    <3> QED BY <2>3, <2>4, <2>6, <3>1, ChunkAdded
  <2>8. i = start[j] + c[j] + 1
    BY <1>11, <2>3 DEF SentChunk
  <2>9. update_data_size(kind) = start[Len(c) + 1]
    BY <2>1 DEF update_data_size
  <2> HIDE DEF c, start, p
  <2>10. start[j + 1] = start[j] + c[j] + 1
    BY <2>5, <2>6, StartFacts DEF c, start
  <2>11. ~(i < update_data_size(kind)) => j = Len(c)
    <3> SUFFICES ASSUME j # Len(c) PROVE i < update_data_size(kind)
      OBVIOUS
    <3>1. j + 1 \in 1..Len(c)
      BY <2>5, <2>6
    <3>2. start[j + 1] < start[Len(c) + 1]
      BY <2>5, <3>1, StartFacts DEF c, start
    <3> QED BY <2>8, <2>9, <2>10, <3>2
  <2>12. Begun'
    BY <1>1, <1>11, <2>4 DEF Begun, SentChunk
  <2>13. pc' = "done" => HasChunks'
    <3> SUFFICES ASSUME pc' = "done" PROVE HasChunks'
      OBVIOUS
    <3>1. ~(i < update_data_size(kind))
      BY <1>1, <1>11 DEF SentChunk
    <3>2. chip'.bank[kind].at = ChunksIn(kind, Len(chunks[kind]))
      BY <2>7, <2>11, <3>1 DEF c
    <3>3. ChunksIn(kind, Len(chunks[kind]))' = ChunksIn(kind, Len(chunks[kind]))
      BY <1>1 DEF ChunksIn
    <3> QED BY <1>1, <2>12, <3>2, <3>3 DEF HasChunks, Begun
  <2>14. PlaceInv'
    <3>1. pc' \in {"data", "done"}
      BY <1>1, <1>11 DEF SentChunk
    <3> QED BY <1>1, <2>1, <2>12, <2>13, <3>1 DEF PlaceInv
  <2>15. DoneInv'
    BY <1>7, <2>1, <2>4
  <2> QED BY <1>4, <2>14, <2>15 DEF UpdateInv
<1> QED BY <1>1, <1>5, <1>6, <1>8, <1>9, <1>10, <1>11 DEF PlaceInv

\* A request leaves: the chip has not seen it yet.
LEMMA SendInv ==
  ASSUME UpdateInv, pc' = "sent", UNCHANGED <<files, chip, result>>, i' \in Nat, step' \in 0..7,
         NEW t, NEW lens, NEW room, NEW then, NEW n \in Nat, NEW arg \in Nat, NEW offset \in Nat,
         NEW src \in Nat, NEW len \in Nat, t.id \in Nat,
         Send(Request(t, lens, room, then), Frame(t.id, n, arg, offset, src, len)),
         SentReboot' \/ SentVersion' \/ SentErase' \/ SentBlock' \/ SentBegin' \/ SentChunk',
         DoneInv'
  PROVE  UpdateInv'
<1>1. buff' \in [req_id : Nat, req_len : Nat, arg : Nat, offset : Nat, src : Nat, len : Nat]
  BY DEF Send, Frame
<1>2. TypeOK'
  BY <1>1, FilesKept DEF UpdateInv, TypeOK
<1>3. PlaceInv'
  BY DEF PlaceInv
<1> QED BY <1>2, <1>3 DEF UpdateInv

\* What the frame and the call of a request are.
LEMMA SendFacts ==
  ASSUME NEW t, NEW lens, NEW room, NEW then, NEW id, NEW n, NEW arg, NEW offset, NEW src, NEW len,
         Send(Request(t, lens, room, then), Frame(id, n, arg, offset, src, len))
  PROVE  /\ pc' = "sent" /\ out' = 0
         /\ call'.t = t /\ call'.lens = lens /\ call'.room = room /\ call'.then = then
         /\ buff'.req_id = id /\ buff'.req_len = n /\ buff'.arg = arg
         /\ buff'.offset = offset /\ buff'.src = src /\ buff'.len = len
BY DEF Send, Request, Frame

LEMMA RebootStep == ASSUME UpdateInv, lt_ex_fw_update \/ reboot_app PROVE UpdateInv'
<1> DEFINE t == lt_l2_startup_t
<1>1. PICK arg \in Nat : Send(Request(t, {0}, 0, "rebooted"), Frame(t.id, t.REQ_LEN, arg, 0, 0, 0))
  <2>1. LT_MODE.APP \in Nat /\ LT_MODE.MAINTENANCE \in Nat
    BY DEF LT_MODE
  <2> QED BY <2>1 DEF lt_ex_fw_update, reboot_app, lt_reboot, SendPlain
<1>2. t.id = 179 /\ t.REQ_LEN \in Nat
  BY Structs DEF lt_l2_startup_t, L2Struct
<1> HIDE DEF t
<1>3. /\ pc' = "sent" /\ UNCHANGED <<files, chip, result, i>> /\ step' \in {1, 4}
      /\ step' = 4 => step = 4
      /\ step' = 1 => result # 0
  <2>1. CASE lt_ex_fw_update
    BY <1>1, <2>1, SendFacts DEF lt_ex_fw_update, Chipless
  <2>2. CASE reboot_app
    BY <1>1, <2>2, SendFacts DEF reboot_app, Chipless
  <2> QED BY <2>1, <2>2
<1>4. SentReboot'
  BY <1>1, <1>2, <1>3, SendFacts DEF SentReboot
<1>5. DoneInv'
  <2>1. CASE step' = 4
    BY <1>3, <2>1, DoneKept DEF UpdateInv
  <2>2. CASE step' = 1
    BY <1>3, <2>2 DEF DoneInv
  <2> QED BY <1>3, <2>1, <2>2
<1>6. i' \in Nat /\ step' \in 0..7 /\ t.id \in Nat /\ 0 \in Nat
  BY <1>2, <1>3 DEF UpdateInv, TypeOK
<1> QED BY <1>1, <1>2, <1>3, <1>4, <1>5, <1>6, SendInv

LEMMA ModeStep == ASSUME UpdateInv, lt_update_mode PROVE UpdateInv'
<1>1. TypeOK /\ PlaceInv /\ DoneInv /\ pc = "rebooted" /\ step \in {1, 4}
      /\ UNCHANGED <<files, call, buff, i, chip>>
  BY DEF UpdateInv, PlaceInv, lt_update_mode, Unsent
<1>2. CASE Fails
  BY <1>1, <1>2, FailsInv DEF TypeOK
<1>3. CASE /\ pc' = "example" /\ step' = step + 1 /\ UNCHANGED result
           /\ chip.mode = IF step = 1 THEN "MAINTENANCE" ELSE "APP"
  <2>1. TypeOK'
    BY <1>1, <1>3, FilesKept DEF TypeOK
  <2>2. PlaceInv'
    BY <1>1, <1>3 DEF PlaceInv
  <2>3. (Holds("CPU")' <=> Holds("CPU")) /\ (Holds("SPECT")' <=> Holds("SPECT"))
    BY <1>1, HoldsKept, KindFacts
  <2>4. DoneInv'
    BY <1>1, <1>3, <2>3 DEF DoneInv
  <2> QED BY <2>1, <2>2, <2>4 DEF UpdateInv
<1> QED BY <1>1, <1>2, <1>3 DEF lt_update_mode

LEMMA BeginStep == ASSUME UpdateInv, lt_do_mutable_fw_update PROVE UpdateInv'
<1>1. TypeOK /\ PlaceInv /\ DoneInv /\ step \in {2, 3}
      /\ UNCHANGED <<files, call, buff, chip>>
  BY DEF UpdateInv, lt_do_mutable_fw_update, Unsent, Chipless
<1>2. CASE Fails /\ UNCHANGED i
  BY <1>1, <1>2, FailsInv DEF TypeOK
<1>3. CASE /\ \/ rev = "ABAB" /\ pc' = "erase" /\ i' = 0
              \/ rev = "ACAB" /\ pc' = "request" /\ i' = 105
           /\ UNCHANGED <<step, result>>
  <2>1. TypeOK'
    BY <1>1, <1>3, FilesKept DEF TypeOK
  <2>2. PlaceInv'
    BY <1>1, <1>3 DEF PlaceInv, files
  <2>3. DoneInv'
    BY <1>1, <1>3, DoneKept
  <2> QED BY <2>1, <2>2, <2>3 DEF UpdateInv
<1> QED BY <1>2, <1>3, Structs DEF lt_do_mutable_fw_update

LEMMA EraseStep ==
  ASSUME UpdateInv, lt_mutable_fw_erase \/ lt_mutable_fw_update_acab PROVE UpdateInv'
<1> DEFINE bank == FW_BANK[kind]
<1>1. bank \in Nat
  BY KindFacts DEF FW_BANK
<1>2. /\ TypeOK /\ PlaceInv /\ DoneInv /\ step \in {2, 3}
      /\ UNCHANGED <<files, rev, kind, step, result, chip, i>> /\ FW_BANK[kind]' = bank
  BY DEF UpdateInv, PlaceInv, lt_mutable_fw_erase, lt_mutable_fw_update_acab, Chipless, files, kind
<1> HIDE DEF bank
<1>3. DoneInv' /\ i' \in Nat /\ step' \in 0..7 /\ 0 \in Nat
  BY <1>2, DoneKept DEF TypeOK
<1>4. CASE lt_mutable_fw_erase
  <2> DEFINE t == lt_l2_mutable_fw_erase_t
  <2>1. Send(Request(t, {0}, 0, "update"), Frame(t.id, t.REQ_LEN, bank, 0, 0, 0))
    BY <1>4 DEF lt_mutable_fw_erase, SendPlain, bank
  <2>2. t.id = 178 /\ t.id \in Nat /\ t.REQ_LEN \in Nat
    BY Structs DEF lt_l2_mutable_fw_erase_t, L2Struct
  <2> HIDE DEF t
  <2>3. rev = "ABAB" /\ i = 0
    BY <1>2, <1>4 DEF lt_mutable_fw_erase, PlaceInv
  <2>4. SentErase'
    BY <1>2, <2>1, <2>2, <2>3, SendFacts DEF SentErase
  <2>5. pc' = "sent"
    BY <2>1, SendFacts
  <2> QED BY <1>1, <1>2, <1>3, <2>1, <2>2, <2>4, <2>5, SendInv
<1>5. CASE lt_mutable_fw_update_acab
  <2> DEFINE t == lt_l2_mutable_fw_update_acab_t
  <2>1. Send(Request(t, {0}, 0, "data"), Frame(t.id, t.REQ_LEN, bank, 0, 0, 0))
    BY <1>5 DEF lt_mutable_fw_update_acab, SendPlain, bank
  <2>2. t.id = 176 /\ t.id \in Nat /\ t.REQ_LEN \in Nat
    BY Structs
  <2> HIDE DEF t
  <2>3. rev = "ACAB"
    BY <1>2, <1>5 DEF lt_mutable_fw_update_acab, PlaceInv
  <2>4. SentBegin'
    BY <1>2, <2>1, <2>2, <2>3, SendFacts DEF SentBegin
  <2>5. pc' = "sent"
    BY <2>1, SendFacts
  <2> QED BY <1>1, <1>2, <1>3, <2>1, <2>2, <2>4, <2>5, SendInv
<1> QED BY <1>4, <1>5

\* How many blocks the loop sends, and their lengths.
LEMMA LoopFacts ==
  ASSUME TypeOK
  PROVE  /\ size[kind] \in Nat /\ loops \in Nat /\ rest \in Nat /\ rest < 128
         /\ size[kind] = 128 * loops + rest
         /\ BlockCount(kind) = loops + (IF rest # 0 THEN 1 ELSE 0)
         /\ BlockLen(kind, i) = block_len
<1>1. size[kind] \in Nat
  BY KindFacts DEF TypeOK, FileOK
<1> QED BY <1>1, DivFacts DEF loops, rest, BlockCount, BlockLen, block_len

LEMMA BlockStep == ASSUME UpdateInv, lt_mutable_fw_update PROVE UpdateInv'
<1> DEFINE t == lt_l2_mutable_fw_update_abab_t
           bank == FW_BANK[kind]
<1>1. bank \in Nat
  BY KindFacts DEF FW_BANK
<1>2. /\ TypeOK /\ PlaceInv /\ DoneInv /\ step \in {2, 3} /\ rev = "ABAB" /\ HasBlocks(i)
      /\ UNCHANGED <<files, rev, size, chunks, kind, step, result, chip>> /\ FW_BANK[kind]' = bank
      /\ i' = i + 1 /\ i \in Nat
      /\ i < loops \/ (i = loops /\ rest # 0)
  BY DEF UpdateInv, TypeOK, PlaceInv, lt_mutable_fw_update, Chipless, files, kind
<1>3. Send(Request(t, {0}, 0, "update"), Frame(t.id, t.REQ_LEN + block_len, bank, i * 128, i * 128, block_len))
  BY DEF lt_mutable_fw_update, block_frame
<1>4. t.id = 177 /\ t.id \in Nat /\ t.REQ_LEN = 3
  BY Structs
<1> HIDE DEF bank, t
<1>5. block_len \in Nat /\ i * 128 \in Nat /\ t.REQ_LEN + block_len \in Nat
  BY <1>2, <1>4, LoopFacts DEF block_len
<1>6. DoneInv' /\ i' \in Nat /\ step' \in 0..7
  BY <1>2, DoneKept DEF TypeOK
<1>7. i + 1 <= BlockCount(kind) /\ i' - 1 = i
  BY <1>2, LoopFacts
<1>8. SentBlock'
  <2>1. /\ pc' = "sent" /\ call'.then = "update" /\ buff'.req_id = 177 /\ buff'.arg = bank
        /\ buff'.offset = i * 128 /\ buff'.src = i * 128
        /\ buff'.req_len = BlockLen(kind, i) + 3
    BY <1>2, <1>3, <1>4, <1>5, SendFacts, LoopFacts
  <2>2. \A n : /\ HasBlocks(n) => HasBlocks(n)'
               /\ BlockLen(kind, n)' = BlockLen(kind, n)
    BY <1>2 DEF HasBlocks, Blocks, BlockLen, BlockCount
  <2>3. BlockCount(kind)' = BlockCount(kind)
    BY <1>2 DEF BlockCount
  <2>4. HasBlocks(i - 1)' /\ BlockLen(kind, i - 1)' = BlockLen(kind, i)
    BY <1>2, <1>7, <2>2
  <2>5. i' > 0 /\ i' <= BlockCount(kind)' /\ buff'.offset = (i' - 1) * 128
        /\ buff'.src = (i' - 1) * 128
    BY <1>2, <1>7, <2>1, <2>3
  <2> QED BY <1>2, <2>1, <2>4, <2>5 DEF SentBlock
<1>9. pc' = "sent"
  BY <1>3, SendFacts
<1> QED BY <1>1, <1>2, <1>3, <1>4, <1>5, <1>6, <1>8, <1>9, SendInv

LEMMA ChunkStep == ASSUME UpdateInv, lt_mutable_fw_update_data PROVE UpdateInv'
<1> DEFINE t == lt_l2_mutable_fw_update_data_t
           then(n) == IF i + n + 1 < update_data_size(kind) THEN "data" ELSE "done"
<1>1. /\ TypeOK /\ PlaceInv /\ DoneInv /\ step \in {2, 3} /\ rev = "ACAB" /\ Begun
      /\ UNCHANGED <<files, rev, size, chunks, kind, step, result, chip>> /\ i \in Nat
  BY DEF UpdateInv, TypeOK, PlaceInv, lt_mutable_fw_update_data, Chipless, files, kind
<1>2. PICK j \in DOMAIN chunks[kind] :
        /\ Send(Request(t, {0}, 0, then(chunks[kind][j])),
                Frame(t.id, chunks[kind][j], 0, 0, i, chunks[kind][j] - t.head))
        /\ i' = i + chunks[kind][j] + 1
  BY Zenon DEF lt_mutable_fw_update_data
<1>3. t.id = 177 /\ t.id \in Nat /\ t.head = 34
  BY Structs
<1>4. chunks[kind][j] \in 35..252
  <2>1. chunks[kind] \in Seq(35..252)
    BY <1>1, KindFacts DEF TypeOK, FileOK
  <2>2. j \in 1..Len(chunks[kind])
    BY <1>2, <2>1
  <2> QED BY <2>1, <2>2, ElementOfSeq, Zenon
<1> DEFINE n == chunks[kind][j]
<1>5. n \in Nat /\ n - t.head \in Nat /\ 0 \in Nat
  BY <1>3, <1>4
<1> HIDE DEF t, n
<1>6. DoneInv' /\ i' \in Nat /\ step' \in 0..7
  BY <1>1, <1>2, <1>5, DoneKept DEF TypeOK, n
<1>7. /\ pc' = "sent" /\ call'.then = then(n) /\ buff'.req_id = 177 /\ buff'.src = i
      /\ buff'.req_len = n /\ i' = i + n + 1
  BY <1>2, <1>3, SendFacts DEF n
<1>8. SentChunk'
  <2>1. update_data_size(kind)' = update_data_size(kind)
    BY <1>1 DEF update_data_size
  <2>2. Begun'
    BY <1>1 DEF Begun
  <2> QED BY <1>1, <1>5, <1>7, <2>1, <2>2 DEF SentChunk
<1>9. Send(Request(t, {0}, 0, then(n)), Frame(t.id, n, 0, 0, i, n - t.head))
  BY <1>2 DEF n
<1> HIDE DEF then
<1> QED BY <1>1, <1>3, <1>5, <1>6, <1>7, <1>8, <1>9, SendInv

LEMMA ReturnStep == ASSUME UpdateInv, update_returns PROVE UpdateInv'
<1>1. /\ TypeOK /\ PlaceInv /\ DoneInv /\ step \in {2, 3}
      /\ UNCHANGED <<files, call, buff, i, chip, result>> /\ pc' = "example" /\ step' = step + 1
  BY DEF UpdateInv, PlaceInv, update_returns, Unsent, Chipless
<1>2. kind \in Kinds /\ FileOK
  BY <1>1, KindFacts DEF TypeOK
<1>3. Holds(kind)
  <2>1. CASE pc = "update" /\ ~(i < loops \/ (i = loops /\ rest # 0))
    <3>1. HasBlocks(i) /\ rev = "ABAB" /\ i \in Nat
      BY <1>1, <2>1 DEF PlaceInv, TypeOK
    <3>2. i = BlockCount(kind)
      <4>1. /\ loops \in Nat /\ rest \in Nat
            /\ BlockCount(kind) = loops + (IF rest # 0 THEN 1 ELSE 0)
        BY <1>1, LoopFacts
      <4>2. i <= BlockCount(kind)
        BY <3>1 DEF HasBlocks
      <4> QED BY <2>1, <3>1, <4>1, <4>2
    <3> QED BY <1>2, <3>1, <3>2, BlocksHold DEF HasBlocks
  <2>2. CASE pc = "done"
    BY <1>1, <1>2, <2>2, ChunksHold DEF PlaceInv, HasChunks
  <2> QED BY <2>1, <2>2 DEF update_returns
<1>4. TypeOK'
  BY <1>1, FilesKept DEF TypeOK
<1>5. PlaceInv'
  BY <1>1 DEF PlaceInv
<1>6. DoneInv'
  <2>1. (Holds("CPU")' <=> Holds("CPU")) /\ (Holds("SPECT")' <=> Holds("SPECT"))
    BY <1>1, HoldsKept, KindFacts
  <2>2. CASE step = 2
    BY <1>1, <1>3, <2>1, <2>2 DEF DoneInv, kind
  <2>3. CASE step = 3
    BY <1>1, <1>3, <2>1, <2>3 DEF DoneInv, kind
  <2> QED BY <1>1, <2>2, <2>3
<1> QED BY <1>4, <1>5, <1>6 DEF UpdateInv

LEMMA VersionStep == ASSUME UpdateInv, get_fw_ver PROVE UpdateInv'
<1> DEFINE t == lt_l2_get_info_t
<1>1. /\ TypeOK /\ DoneInv /\ step \in {5, 6} /\ step' = step + 1
      /\ UNCHANGED <<files, i, result, chip>>
  BY DEF UpdateInv, get_fw_ver, Chipless
<1>2. PICK arg \in Nat : Send(Request(t, {4}, 4, "example"), Frame(t.id, t.REQ_LEN, arg, 0, 0, 0))
  BY DEF get_fw_ver, SendPlain
<1>3. t.id = 1 /\ t.id \in Nat /\ t.REQ_LEN \in Nat /\ 0 \in Nat
  BY Structs DEF lt_l2_get_info_t, L2Struct
<1> HIDE DEF t
<1>4. SentVersion' /\ pc' = "sent"
  BY <1>1, <1>2, <1>3, SendFacts DEF SentVersion
<1>5. DoneInv'
  <2>1. (Holds("CPU")' <=> Holds("CPU")) /\ (Holds("SPECT")' <=> Holds("SPECT"))
    BY <1>1, HoldsKept, KindFacts
  <2> QED BY <1>1, <2>1 DEF DoneInv
<1>6. i' \in Nat /\ step' \in 0..7
  BY <1>1 DEF TypeOK
<1> QED BY <1>1, <1>2, <1>3, <1>4, <1>5, <1>6, SendInv

LEMMA DeinitStep == ASSUME UpdateInv, lt_deinit PROVE UpdateInv'
<1>1. /\ TypeOK /\ DoneInv /\ step = 7 /\ step' = 0 /\ result' \in {-1, 0} /\ pc' = "idle"
      /\ UNCHANGED <<files, buff, i, chip>>
  BY DEF UpdateInv, lt_deinit, Unsent, Fails
<1>2. TypeOK'
  BY <1>1, FilesKept DEF TypeOK
<1>3. PlaceInv'
  BY <1>1 DEF PlaceInv
<1>4. DoneInv'
  <2>1. (Holds("CPU")' <=> Holds("CPU")) /\ (Holds("SPECT")' <=> Holds("SPECT"))
    BY <1>1, HoldsKept, KindFacts
  <2> QED BY <1>1, <2>1 DEF DoneInv
<1> QED BY <1>2, <1>3, <1>4 DEF UpdateInv

LEMMA StutterStep == ASSUME UpdateInv, UNCHANGED vars PROVE UpdateInv'
<1>1. /\ TypeOK /\ PlaceInv /\ DoneInv
      /\ UNCHANGED <<files, rev, size, chunks, kind, pc, call, buff, i, chip, step, result>>
  BY DEF UpdateInv, vars, files, kind
<1>2. TypeOK'
  BY <1>1, FilesKept DEF TypeOK
<1>3. DoneInv'
  BY <1>1, DoneKept
<1>4. PlaceInv'
  <2>1. \A n : HasBlocks(n)' <=> HasBlocks(n)
    BY <1>1 DEF HasBlocks, Blocks, BlockLen, BlockCount
  <2>2. (Begun <=> Begun') /\ (HasChunks <=> HasChunks')
    BY <1>1 DEF Begun, HasChunks, ChunksIn
  <2>3. SentBlock => SentBlock'
    BY <1>1, <2>1 DEF SentBlock, BlockCount, BlockLen, TypeOK
  <2>4. SentChunk => SentChunk'
    BY <1>1, <2>2 DEF SentChunk, update_data_size
  <2>5. /\ SentAlone => SentAlone'
        /\ SentReboot => SentReboot'
        /\ SentVersion => SentVersion'
        /\ SentErase => SentErase'
        /\ SentBegin => SentBegin'
    BY <1>1 DEF SentAlone, SentReboot, SentVersion, SentErase, SentBegin
  <2>6. pc = "update" => HasBlocks(i)'
    BY <1>1, <2>1 DEF PlaceInv
  <2> QED BY <1>1, <2>2, <2>3, <2>4, <2>5, <2>6 DEF PlaceInv
<1> QED BY <1>2, <1>3, <1>4 DEF UpdateInv

LEMMA NextUpdate == ASSUME UpdateInv, [Next]_vars PROVE UpdateInv'
BY PowerStep, AloneStep, ExchangeStep, ExchangeFailsStep, RebootStep, ModeStep, BeginStep,
   EraseStep, BlockStep, ChunkStep, ReturnStep, VersionStep, DeinitStep, StutterStep
   DEF Next, Update, Done

\* The update as a whole: lt_ex_fw_update returns 0 only with both images in their
\* banks, whatever their lengths and whatever failed.
THEOREM UpdateSafe == Spec => [](UpdateInv /\ SuccessMeansUpdated)
<1>1. UpdateInv => SuccessMeansUpdated
  BY KindFacts DEF UpdateInv, DoneInv, SuccessMeansUpdated
<1> QED BY <1>1, InitUpdate, NextUpdate, PTL DEF Spec

(***************************************************************************)
(* The frames.                                                             *)
(***************************************************************************)
\* A request without data.
LEMMA PlainFrame ==
  ASSUME NEW t, NEW lens, NEW room \in Nat, NEW then, NEW arg,
         t.REQ_LEN = t.head, t.head \in 0..252, t.data \in Nat, t.rsp_room \in Nat,
         \A n \in RspLens \intersect lens : n <= room /\ n <= t.rsp_room,
         SendPlain(t, lens, room, then, arg)
  PROVE  RoomInv' /\ FramesExact'
<1>1. /\ pc' = "sent" /\ out' = 0 /\ call'.t = t /\ call'.lens = lens /\ call'.room = room
      /\ buff'.req_len = t.head /\ buff'.len = 0
  BY SendFacts DEF SendPlain
<1>2. RoomInv'
  BY <1>1 DEF RoomInv
<1>3. FramesExact'
  BY <1>1 DEF FramesExact
<1> QED BY <1>2, <1>3

\* Nothing is sent.
LEMMA UnsentFrame ==
  ASSUME RoomInv, FramesExact, pc' # "sent", UNCHANGED <<call, out>>
  PROVE  RoomInv' /\ FramesExact'
BY DEF RoomInv, FramesExact

\* The requests besides the update: the test of rsp_len keeps every response
\* within the caller's buffer.
LEMMA AloneFrame == ASSUME Others PROVE RoomInv' /\ FramesExact'
<1>1. \A n \in RspLens : n \in 0..253
  BY L2ApiAssumption
<1>2. CASE lt_get_info_chip_id
  <2>1. SendPlain(lt_l2_get_info_t, {128}, 128, "idle", 1)
    BY <1>2 DEF lt_get_info_chip_id, Alone
  <2> QED BY <2>1, PlainFrame DEF lt_l2_get_info_t, L2Struct
<1>3. CASE lt_get_info_fw_bank
  <2>1. SendPlain(lt_l2_get_info_t, {20, 52, 0}, 52, "idle", 176)
    BY <1>3 DEF lt_get_info_fw_bank, Alone
  <2> QED BY <2>1, PlainFrame DEF lt_l2_get_info_t, L2Struct
<1>4. CASE lt_get_log_req
  <2>1. SendPlain(lt_l2_get_log_t, RspLens, 255, "idle", 0)
    BY <1>4 DEF lt_get_log_req, Alone
  <2>2. lt_l2_get_log_t.rsp_room = 255
    BY DEF lt_l2_get_log_t, L2Struct
  <2>3. \A n \in RspLens \intersect RspLens : n <= 255 /\ n <= lt_l2_get_log_t.rsp_room
    BY <1>1, <2>2
  <2>4. /\ lt_l2_get_log_t.REQ_LEN = lt_l2_get_log_t.head /\ lt_l2_get_log_t.head \in 0..252
        /\ lt_l2_get_log_t.data \in Nat /\ lt_l2_get_log_t.rsp_room \in Nat /\ 255 \in Nat
    BY DEF lt_l2_get_log_t, L2Struct
  <2> QED BY <2>1, <2>3, <2>4, PlainFrame
<1>5. CASE lt_session_start
  <2>1. SendPlain(lt_l2_handshake_t, {48}, 48, "idle", 0)
    BY <1>5 DEF lt_session_start, Alone
  <2> QED BY <2>1, PlainFrame DEF lt_l2_handshake_t, L2Struct
<1>6. CASE lt_session_abort
  <2>1. SendPlain(lt_l2_encrypted_session_abt_t, {0}, 0, "idle", 0)
    BY <1>6 DEF lt_session_abort, Alone
  <2> QED BY <2>1, PlainFrame DEF lt_l2_encrypted_session_abt_t, L2Struct
<1>7. CASE lt_sleep
  <2>1. SendPlain(lt_l2_sleep_t, {0}, 0, "idle", 5)
    BY <1>7 DEF lt_sleep, Alone
  <2> QED BY <2>1, PlainFrame DEF lt_l2_sleep_t, L2Struct
<1> QED BY <1>2, <1>3, <1>4, <1>5, <1>6, <1>7 DEF Others

\* The requests of the update that carry no data.
LEMMA UpdateFrame ==
  ASSUME \/ lt_ex_fw_update \/ reboot_app \/ lt_mutable_fw_erase \/ lt_mutable_fw_update_acab
         \/ get_fw_ver
  PROVE  RoomInv' /\ FramesExact'
<1>1. CASE lt_ex_fw_update \/ reboot_app
  <2>1. PICK arg : SendPlain(lt_l2_startup_t, {0}, 0, "rebooted", arg)
    BY <1>1 DEF lt_ex_fw_update, reboot_app, lt_reboot
  <2> QED BY <2>1, PlainFrame DEF lt_l2_startup_t, L2Struct
<1>2. CASE lt_mutable_fw_erase
  <2>1. PICK arg : SendPlain(lt_l2_mutable_fw_erase_t, {0}, 0, "update", arg)
    BY <1>2 DEF lt_mutable_fw_erase
  <2> QED BY <2>1, PlainFrame DEF lt_l2_mutable_fw_erase_t, L2Struct
<1>3. CASE lt_mutable_fw_update_acab
  <2>1. PICK arg : SendPlain(lt_l2_mutable_fw_update_acab_t, {0}, 0, "data", arg)
    BY <1>3 DEF lt_mutable_fw_update_acab
  <2> QED BY <2>1, PlainFrame DEF lt_l2_mutable_fw_update_acab_t, L2Struct
<1>4. CASE get_fw_ver
  <2>1. PICK arg : SendPlain(lt_l2_get_info_t, {4}, 4, "example", arg)
    BY <1>4 DEF get_fw_ver
  <2> QED BY <2>1, PlainFrame DEF lt_l2_get_info_t, L2Struct
<1> QED BY <1>1, <1>2, <1>3, <1>4

\* A block of an ABAB image: 131 bytes of request, fewer for the last one, which
\* ends where the image ends.
LEMMA BlockFrame == ASSUME UpdateInv, lt_mutable_fw_update PROVE RoomInv' /\ FramesExact'
<1> DEFINE t == lt_l2_mutable_fw_update_abab_t
           n == block_len
<1>1. /\ Send(Request(t, {0}, 0, "update"),
              Frame(t.id, t.REQ_LEN + n, FW_BANK[kind], i * 128, i * 128, n))
      /\ i < loops \/ (i = loops /\ rest # 0)
      /\ UNCHANGED <<rev, size, chunks, kind>>
  BY DEF lt_mutable_fw_update, block_frame, files, kind
<1>2. t.REQ_LEN = 3 /\ t.head = 3 /\ t.data = 248 /\ t.rsp_room = 0
  BY DEF lt_l2_mutable_fw_update_abab_t, L2Struct
<1>3. TypeOK /\ i \in Nat /\ rev = "ABAB"
  BY DEF UpdateInv, TypeOK, PlaceInv, lt_mutable_fw_update
<1>4. /\ loops \in Nat /\ rest \in Nat /\ rest < 128
      /\ size[kind] \in Nat /\ size[kind] = 128 * loops + rest
      /\ n = IF i < loops THEN 128 ELSE rest
  BY <1>3, LoopFacts DEF block_len
<1> HIDE DEF t, n
<1>5. n \in Nat /\ n <= 128 /\ i * 128 + n <= size[kind]
  BY <1>1, <1>3, <1>4
<1>6. /\ pc' = "sent" /\ out' = 0 /\ call'.t = t /\ call'.lens = {0} /\ call'.room = 0
      /\ buff'.req_len = 3 + n /\ buff'.len = n /\ buff'.src = i * 128
  BY <1>1, <1>2, SendFacts
<1>7. update_data_size(kind)' = size[kind]
  BY <1>1, <1>3 DEF update_data_size
<1>8. buff'.src + buff'.req_len - call'.t.head <= update_data_size(kind)'
  BY <1>2, <1>3, <1>5, <1>6, <1>7, <1>4
<1>9. RoomInv'
  BY <1>2, <1>6 DEF RoomInv
<1>10. FramesExact'
  BY <1>2, <1>5, <1>6, <1>8 DEF FramesExact
<1> QED BY <1>9, <1>10

\* A chunk of an ACAB image, with its own length byte.
LEMMA ChunkFrame == ASSUME UpdateInv, lt_mutable_fw_update_data PROVE RoomInv' /\ FramesExact'
<1> DEFINE t == lt_l2_mutable_fw_update_data_t
           c == chunks[kind]
           start == ChunkStart(chunks[kind])
           then(n) == IF i + n + 1 < update_data_size(kind) THEN "data" ELSE "done"
<1>1. PICK j \in DOMAIN c :
        /\ start[j] = i
        /\ Send(Request(t, {0}, 0, then(c[j])), Frame(t.id, c[j], 0, 0, i, c[j] - t.head))
  BY Zenon DEF lt_mutable_fw_update_data
<1>2. t.head = 34 /\ t.data = 220 /\ t.rsp_room = 0
  BY DEF lt_l2_mutable_fw_update_data_t, L2Struct
<1>3. TypeOK /\ i \in Nat /\ rev = "ACAB" /\ UNCHANGED <<rev, size, chunks, kind>>
  BY DEF UpdateInv, TypeOK, PlaceInv, lt_mutable_fw_update_data, files, kind
<1>4. c \in Seq(35..252)
  BY <1>3, KindFacts DEF TypeOK, FileOK
<1>5. j \in 1..Len(c) /\ Len(c) \in Nat
  BY <1>1, <1>4
<1>6. c[j] \in 35..252
  BY <1>4, <1>5, ElementOfSeq, Zenon
<1> HIDE DEF t, c, then
<1>7. /\ pc' = "sent" /\ out' = 0 /\ call'.t = t /\ call'.lens = {0} /\ call'.room = 0
      /\ buff'.req_len = c[j] /\ buff'.len = c[j] - 34 /\ buff'.src = i
  BY <1>1, <1>2, SendFacts
<1>8. i + c[j] - 34 <= update_data_size(kind)'
  <2>1. update_data_size(kind)' = start[Len(c) + 1]
    BY <1>3 DEF update_data_size, c
  <2>2. /\ start[j + 1] = start[j] + c[j] + 1 /\ start[j] \in Nat
        /\ start[j + 1] <= start[Len(c) + 1] /\ start[Len(c) + 1] \in Nat
    <3>1. /\ start[j + 1] = start[j] + c[j] + 1
          /\ \A m \in 1..(Len(c) + 1) : start[m] \in Nat
          /\ \A m \in 1..Len(c) : start[m] < start[Len(c) + 1]
      BY <1>4, <1>5, StartFacts DEF c
    <3> HIDE DEF start
    <3>2. CASE j = Len(c)
      <4>1. j \in 1..(Len(c) + 1) /\ j + 1 \in 1..(Len(c) + 1)
        BY <1>5
      <4> QED BY <3>1, <3>2, <4>1
    <3>3. CASE j # Len(c)
      <4>1. j + 1 \in 1..Len(c) /\ j \in 1..(Len(c) + 1) /\ j + 1 \in 1..(Len(c) + 1)
            /\ Len(c) + 1 \in 1..(Len(c) + 1)
        BY <1>5, <3>3
      <4> QED BY <3>1, <4>1
    <3> QED BY <3>2, <3>3
  <2> HIDE DEF start
  <2>3. i = start[j] /\ c[j] \in Nat
    BY <1>1, <1>6
  <2> QED BY <2>1, <2>2, <2>3
<1>9. RoomInv'
  BY <1>2, <1>7 DEF RoomInv
<1>10. FramesExact'
  BY <1>2, <1>6, <1>7, <1>8 DEF FramesExact
<1> QED BY <1>9, <1>10

\* A response.
LEMMA ExchangeFrame ==
  ASSUME UpdateInv, RoomInv, FramesExact, lt_l2_exchange PROVE RoomInv' /\ FramesExact'
<1>1. /\ pc' = call.then /\ UNCHANGED call /\ out' \in RspLens \intersect call.lens
      /\ call.then # "sent"
  BY DEF lt_l2_exchange, UpdateInv, PlaceInv, SentAlone, SentReboot, SentVersion, SentErase,
         SentBlock, SentBegin, SentChunk
<1> QED BY <1>1 DEF RoomInv, FramesExact

LEMMA NextFrames == ASSUME IInv, [Next]_vars PROVE RoomInv' /\ FramesExact'
<1>1. UpdateInv /\ RoomInv /\ FramesExact
  BY DEF IInv
<1>2. CASE PowerLoss \/ UNCHANGED vars
  <2>1. UNCHANGED <<rev, size, chunks, kind, pc, call, buff, out>>
    BY <1>2 DEF PowerLoss, vars, files, kind
  <2>2. update_data_size(kind)' = update_data_size(kind)
    BY <2>1 DEF update_data_size
  <2> QED BY <1>1, <2>1, <2>2 DEF RoomInv, FramesExact
<1>3. CASE \/ lt_l2_exchange_fails \/ lt_update_mode \/ lt_do_mutable_fw_update
           \/ update_returns \/ lt_deinit
  <2>1. pc' # "sent" /\ UNCHANGED <<call, out>>
    BY <1>3 DEF lt_l2_exchange_fails, lt_update_mode, lt_do_mutable_fw_update, update_returns,
                lt_deinit, Fails, Unsent
  <2> QED BY <1>1, <2>1, UnsentFrame
<1> QED BY <1>1, <1>2, <1>3, AloneFrame, UpdateFrame, BlockFrame, ChunkFrame, ExchangeFrame
        DEF Next, Update, Done

LEMMA InitFrames == Init => RoomInv /\ FramesExact
<1> SUFFICES ASSUME Init PROVE RoomInv /\ FramesExact
  OBVIOUS
<1>1. /\ call.room = 0 /\ call.lens = {0} /\ call.t.rsp_room = 0 /\ out = 0 /\ pc = "idle"
  BY DEF Init, Request, lt_l2_startup_t, L2Struct
<1> QED BY <1>1 DEF RoomInv, FramesExact

\* Every request announces the length it has and stays inside its structure and the
\* image; every response fits the caller's buffer.
THEOREM FramesSafe == Spec => [](IInv /\ FramesExact)
<1>1. IInv /\ [Next]_vars => IInv'
  BY NextUpdate, NextFrames DEF IInv
<1>2. Init => IInv
  BY InitUpdate, InitFrames DEF IInv
<1>3. IInv => FramesExact
  BY DEF IInv
<1> QED BY <1>1, <1>2, <1>3, PTL DEF Spec
=============================================================================
