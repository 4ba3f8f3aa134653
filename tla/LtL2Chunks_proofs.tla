------------------------- MODULE LtL2Chunks_proofs -------------------------
(***************************************************************************)
(* Proofs about LtL2Chunks, for every length of a command and of a result, *)
(* every size of the L3 buffer, every way the chip cuts the result and any *)
(* number of damaged frames.                                               *)
(***************************************************************************)
EXTENDS LtL2Chunks, TLAPS

\* Nothing was returned before the function returns.
RetInv == at # "returned" => rv = "none"

\* The chip holds the chunks before the current one; with it, once the chip
\* confirmed it.
SendInv ==
  at \in {"write", "ack"} =>
    /\ size >= 1 /\ size <= L3_PACKET_MAX_SIZE /\ i \in 0..(chunk_num - 1)
    /\ unseen = 0 =>
         /\ at = "write" => got = i * L2_CHUNK_MAX_DATA_SIZE
         /\ at = "ack" /\ ack \in {"REQUEST_OK", "REQUEST_CONT"} =>
              got = i * L2_CHUNK_MAX_DATA_SIZE + req_len

\* The buffer holds what the chip sent, which is at least 99 bytes a round.
RecvInv ==
  at = "recv" =>
    /\ size >= 1 /\ size <= L3_PACKET_MAX_SIZE /\ max_len <= L3_PACKET_MAX_SIZE
    /\ loops < MAX_LOOPS /\ pos <= size
    /\ unseen = 0 => pos = offset /\ got = offset /\ 99 * loops <= offset /\ offset < size

BoundsInv == offset <= L3_PACKET_MAX_SIZE /\ top <= L3_PACKET_MAX_SIZE

IInv == ChunkTypeOK /\ RetInv /\ SendInv /\ RecvInv /\ BoundsInv /\ PacketWhole
        /\ CopyInBuffer /\ EnoughLoops

-----------------------------------------------------------------------------
\* The numbers of lt_l2_send_encrypted_cmd: at least one chunk and at most 17,
\* and the last one begins inside the packet and ends with it.
LEMMA ChunkNumbers ==
  ASSUME size \in Nat, size >= 1, size <= L3_PACKET_MAX_SIZE
  PROVE  /\ chunk_num \in 1..17
         /\ (chunk_num - 1) * L2_CHUNK_MAX_DATA_SIZE < size
         /\ size <= chunk_num * L2_CHUNK_MAX_DATA_SIZE
BY DEF chunk_num, L3_PACKET_MAX_SIZE, L2_CHUNK_MAX_DATA_SIZE

\* The length of the current chunk.
LEMMA ReqLen ==
  ASSUME size \in Nat, size >= 1, size <= L3_PACKET_MAX_SIZE, i \in 0..(chunk_num - 1)
  PROVE  /\ req_len \in 1..L2_CHUNK_MAX_DATA_SIZE
         /\ i + 1 < chunk_num => req_len = L2_CHUNK_MAX_DATA_SIZE
         /\ ~(i + 1 < chunk_num) => i * L2_CHUNK_MAX_DATA_SIZE + req_len = size
         /\ i * L2_CHUNK_MAX_DATA_SIZE + req_len <= size
<1> DEFINE n == chunk_num
<1>1. /\ n \in 1..17 /\ (n - 1) * 252 < size /\ size <= n * 252 /\ i \in 0..(n - 1)
      /\ size \in Nat
  BY ChunkNumbers DEF L2_CHUNK_MAX_DATA_SIZE, L3_PACKET_MAX_SIZE
<1>2. req_len = IF i = n - 1 THEN size - (n - 1) * 252 ELSE 252
  BY DEF req_len, last_chunk_len, L2_CHUNK_MAX_DATA_SIZE
<1> HIDE DEF n
<1>3. /\ req_len \in 1..252
      /\ i + 1 < n => req_len = 252
      /\ ~(i + 1 < n) => i * 252 + req_len = size
      /\ i * 252 + req_len <= size
  BY <1>1, <1>2
<1> QED BY <1>3 DEF n, L2_CHUNK_MAX_DATA_SIZE

\* The codes of a frame; LT_OK is never given to a damaged one.
LEMMA FrameCheck ==
  ASSUME NEW st, NEW crc \in BOOLEAN
  PROVE  /\ lt_l2_frame_check(st, crc)
              \in {"LT_OK", "LT_L2_IN_CRC_ERR", "LT_L2_REQ_CONT", "LT_L2_RES_CONT", "LT_L2_ERR"}
         /\ lt_l2_frame_check(st, crc) = "LT_OK" => crc /\ st \in {"REQUEST_OK", "RESULT_OK"}
         /\ lt_l2_frame_check(st, crc) = "LT_L2_REQ_CONT" => st = "REQUEST_CONT"
         /\ lt_l2_frame_check(st, crc) = "LT_L2_RES_CONT" => st = "RESULT_CONT"
BY DEF lt_l2_frame_check

\* A frame read after a chunk is the chip's own or damaged.
LEMMA DeliveredFrame ==
  ASSUME NEW f \in Delivered
  PROVE  f[2] \in BOOLEAN /\ (f[2] => f[1] = ack)
<1> DEFINE S == {"REQUEST_OK", "REQUEST_CONT", "RESULT_OK", "RESULT_CONT", "CRC_ERR", "OTHER"}
<1>1. f = <<ack, TRUE>> \/ f \in S \X {FALSE}
  BY Zenon DEF Delivered
<1>2. CASE f = <<ack, TRUE>>
  BY <1>2
<1>3. CASE f \in S \X {FALSE}
  <2> HIDE DEF S
  <2>1. f[2] = FALSE
    BY <1>3, Zenon
  <2> QED BY <2>1, Zenon
<1> QED BY <1>1, <1>2, <1>3, Zenon

\* Only a damaged frame that is taken for a good one is counted.
LEMMA Accepted ==
  ASSUME NEW crc \in BOOLEAN, Accept(crc), unseen \in 0..MaxUnseen
  PROVE  unseen' \in 0..MaxUnseen /\ (unseen' = 0 => unseen = 0 /\ crc)
<1>1. MaxUnseen \in Nat
  BY ChunksAssumption
<1>2. CASE crc /\ unseen' = unseen
  BY <1>2
<1>3. CASE ~crc /\ unseen < MaxUnseen /\ unseen' = unseen + 1
  <2>1. unseen' \in 0..MaxUnseen /\ unseen' # 0
    BY <1>1, <1>3
  <2> QED BY <2>1
<1> QED BY <1>2, <1>3 DEF Accept

-----------------------------------------------------------------------------
\* The ranges of the constants.
LEMMA Ranges ==
  /\ \A c \in CmdSizes : c \in Nat /\ c >= 1 /\ 18 + c < 65536
  /\ \A m \in MaxLens : m \in Nat
  /\ \A n \in ResultSizes : n \in Nat /\ n >= 1 /\ n <= L3_PACKET_MAX_SIZE
  /\ \A c \in ChipChunks : c \in Nat /\ c >= 99 /\ c <= L2_CHUNK_MAX_DATA_SIZE
  /\ RspLenMax \in Nat /\ MaxUnseen \in Nat
<1>1. \A c \in ChipChunks : c \in Int /\ c >= 99 /\ c <= L2_CHUNK_MAX_DATA_SIZE
  BY ChunksAssumption
<1>2. RspLenMax \in Int /\ RspLenMax >= L2_CHUNK_MAX_DATA_SIZE
  BY ChunksAssumption
<1>3. RspLenMax \in Nat
  BY <1>2 DEF L2_CHUNK_MAX_DATA_SIZE
<1>4. \A c \in CmdSizes : c \in Nat /\ c >= 1 /\ 18 + c < 65536
  BY ChunksAssumption
<1> QED BY ChunksAssumption, <1>1, <1>3, <1>4

\* The initial states satisfy the inductive invariant.
LEMMA InitInv == ChunkInit => IInv
<1> SUFFICES ASSUME ChunkInit PROVE IInv
  OBVIOUS
<1>1. max_len \in Nat /\ MaxUnseen \in Nat
  BY Ranges DEF ChunkInit
<1>2. 0 \in 0..L3_PACKET_MAX_SIZE /\ 0 \in 0..MAX_LOOPS /\ 0 <= L3_PACKET_MAX_SIZE
  BY DEF L3_PACKET_MAX_SIZE, MAX_LOOPS
<1>3. ChunkTypeOK
  BY <1>1, <1>2 DEF ChunkInit, ChunkTypeOK, Codes
<1> QED
  BY <1>1, <1>2, <1>3 DEF ChunkInit, IInv, RetInv, SendInv, RecvInv, BoundsInv, PacketWhole,
                          CopyInBuffer, EnoughLoops

\* A function that returns anything but LT_OK and the end of the loop leaves no
\* claim but the bounds.
LEMMA ReturnError ==
  ASSUME IInv, NEW r \in Codes \ {"LT_OK", "LT_FAIL_loops"}, ChunkReturn(r),
         UNCHANGED <<max_len, size, i, loops, offset, got, top, unseen>>,
         pos' \in 0..L3_PACKET_MAX_SIZE,
         ack' \in {"none", "REQUEST_OK", "REQUEST_CONT", "CRC_ERR", "OTHER"}
  PROVE  IInv'
<1>1. ChunkTypeOK'
  BY DEF ChunkReturn, IInv, ChunkTypeOK
<1> QED
  BY <1>1 DEF ChunkReturn, IInv, RetInv, SendInv, RecvInv, BoundsInv, PacketWhole, CopyInBuffer,
              EnoughLoops

\* The start of lt_l2_send_encrypted_cmd.
LEMMA SendCallStep == ASSUME IInv, lt_l2_send_encrypted_cmd PROVE IInv'
<1>1. /\ at = "idle" /\ size' \in Nat /\ size' >= 1 /\ size' < 65536 /\ rv = "none"
      /\ i' = 0 /\ got' = 0 /\ top' = 0 /\ unseen' = 0
      /\ UNCHANGED <<max_len, offset, loops, ack, pos>>
      /\ max_len \in MaxLens /\ max_len \in Nat
  <2>1. \A c \in CmdSizes : c \in Nat /\ c >= 1 /\ 18 + c < 65536
    BY ChunksAssumption
  <2>2. ASSUME NEW c \in Nat, 18 + c < 65536 PROVE (2 + c + 16) % 65536 = 18 + c
    BY <2>2
  <2>3. PICK c \in CmdSizes : size' = (2 + c + 16) % 65536
    BY DEF lt_l2_send_encrypted_cmd
  <2>4. size' \in Nat /\ size' >= 1 /\ size' < 65536
    BY <2>1, <2>2, <2>3
  <2>5. max_len \in MaxLens /\ max_len \in Nat
    BY Ranges DEF IInv, ChunkTypeOK
  <2> QED BY <2>4, <2>5 DEF lt_l2_send_encrypted_cmd, IInv, RetInv
<1>2. 0 <= L3_PACKET_MAX_SIZE /\ 0 \in 0..MaxUnseen
  BY Ranges DEF L3_PACKET_MAX_SIZE
<1>3. CASE at' = "returned"
  <2>1. rv' \in {"LT_PARAM_ERR", "LT_L3_DATA_LEN_ERROR"}
    BY <1>3 DEF lt_l2_send_encrypted_cmd, ChunkReturn
  <2>2. ChunkTypeOK'
    BY <1>1, <1>2, <1>3, <2>1 DEF IInv, ChunkTypeOK, Codes
  <2> QED
    BY <1>1, <1>2, <1>3, <2>1, <2>2
       DEF IInv, RetInv, SendInv, RecvInv, BoundsInv, PacketWhole, CopyInBuffer, EnoughLoops
<1>4. CASE at' # "returned"
  <2>1. at' = "write" /\ rv' = rv /\ max_len <= L3_PACKET_MAX_SIZE /\ size' <= max_len
    BY <1>4 DEF lt_l2_send_encrypted_cmd, ChunkReturn
  <2>2. ChunkTypeOK'
    BY <1>1, <1>2, <2>1 DEF IInv, ChunkTypeOK, Codes
  <2>3. size' <= L3_PACKET_MAX_SIZE
    BY <1>1, <2>1 DEF L3_PACKET_MAX_SIZE
  <2>4. chunk_num' \in 1..17
    <3>1. PICK s \in Nat : s = size' /\ s >= 1 /\ s <= 4143
      BY <1>1, <2>3 DEF L3_PACKET_MAX_SIZE
    <3>2. chunk_num' = (s \div 252) + (IF s % 252 = 0 THEN 0 ELSE 1)
      BY <3>1 DEF chunk_num, L2_CHUNK_MAX_DATA_SIZE
    <3>3. s >= 1 /\ s <= 4143
      BY <3>1
    <3>4. (s \div 252) + (IF s % 252 = 0 THEN 0 ELSE 1) \in 1..17
      BY <3>3
    <3> QED BY <3>2, <3>4
  <2>5. 0 * L2_CHUNK_MAX_DATA_SIZE = 0 /\ 0 \in 0..(chunk_num' - 1)
    <3> DEFINE n == chunk_num'
    <3> HIDE DEF n
    <3>1. n \in 1..17
      BY <2>4 DEF n
    <3>2. 0 \in 0..(n - 1)
      BY <3>1
    <3>3. 0 * L2_CHUNK_MAX_DATA_SIZE = 0
      BY DEF L2_CHUNK_MAX_DATA_SIZE
    <3> QED BY <3>2, <3>3 DEF n
  <2>6. SendInv'
    BY <1>1, <2>1, <2>3, <2>5 DEF SendInv
  <2> QED
    BY <1>1, <1>2, <2>1, <2>2, <2>6
       DEF IInv, RetInv, RecvInv, BoundsInv, PacketWhole, CopyInBuffer, EnoughLoops
<1> QED BY <1>3, <1>4

\* A chunk is written where the one before ended.
LEMMA WriteStep == ASSUME IInv, write_chunk PROVE IInv'
<1>1. /\ at = "write" /\ size \in Nat /\ size >= 1 /\ size <= L3_PACKET_MAX_SIZE /\ i \in 0..(chunk_num - 1)
      /\ rv = "none"
      /\ unseen = 0 => got = i * L2_CHUNK_MAX_DATA_SIZE
      /\ UNCHANGED <<max_len, size, i, offset, loops, pos, top, unseen>>
  BY DEF write_chunk, IInv, ChunkTypeOK, SendInv, RetInv
<1>2. CASE ChunkReturn("LT_FAIL") /\ UNCHANGED <<got, ack>>
  BY <1>1, <1>2, ReturnError DEF Codes, IInv, ChunkTypeOK
<1>3. CASE at' = "ack" /\ UNCHANGED rv
  <2>1. /\ req_len \in 1..L2_CHUNK_MAX_DATA_SIZE
        /\ i * L2_CHUNK_MAX_DATA_SIZE + req_len <= size
        /\ i * L2_CHUNK_MAX_DATA_SIZE \in Nat
    BY <1>1, ReqLen DEF L2_CHUNK_MAX_DATA_SIZE, IInv, ChunkTypeOK
  <2>2. /\ \/ got' = Extend(got, i * L2_CHUNK_MAX_DATA_SIZE, req_len)
           \/ got' = got /\ ack' \in {"CRC_ERR", "OTHER"}
        /\ ack' \in {"REQUEST_OK", "REQUEST_CONT", "CRC_ERR", "OTHER"}
    BY <1>3 DEF write_chunk, ChunkReturn
  <2>3. got' \in Int /\ got' >= -1 /\ got' < 65536
    BY <1>1, <2>1, <2>2 DEF Extend, IInv, ChunkTypeOK, L3_PACKET_MAX_SIZE, L2_CHUNK_MAX_DATA_SIZE
  <2>4. ChunkTypeOK'
    BY <1>1, <1>3, <2>2, <2>3 DEF IInv, ChunkTypeOK
  <2>5. chunk_num' = chunk_num /\ req_len' = req_len
    BY <1>1 DEF req_len, last_chunk_len, chunk_num
  <2>6. SendInv'
    BY <1>1, <1>3, <2>1, <2>2, <2>5 DEF SendInv, Extend
  <2> QED
    BY <1>1, <1>3, <2>4, <2>6
       DEF IInv, RetInv, RecvInv, BoundsInv, PacketWhole, CopyInBuffer, EnoughLoops
<1> QED BY <1>2, <1>3 DEF write_chunk

\* A confirmed chunk is part of the packet, the last one completes it.
LEMMA AckStep == ASSUME IInv, read_ack PROVE IInv'
<1>1. /\ at = "ack" /\ size \in Nat /\ size >= 1 /\ size <= L3_PACKET_MAX_SIZE /\ i \in 0..(chunk_num - 1)
      /\ rv = "none"
      /\ unseen = 0 /\ ack \in {"REQUEST_OK", "REQUEST_CONT"} =>
           got = i * L2_CHUNK_MAX_DATA_SIZE + req_len
      /\ UNCHANGED <<max_len, size, offset, loops, got, ack, pos, top>>
  BY DEF read_ack, IInv, ChunkTypeOK, SendInv, RetInv
<1>2. CASE ChunkReturn("LT_FAIL") /\ UNCHANGED <<i, unseen>>
  BY <1>1, <1>2, ReturnError DEF Codes, IInv, ChunkTypeOK
<1>3. ASSUME NEW f \in Delivered,
             lt_l2_frame_check(f[1], f[2]) \notin {"LT_OK", "LT_L2_REQ_CONT"},
             ChunkReturn(lt_l2_frame_check(f[1], f[2])), UNCHANGED <<i, unseen>>
      PROVE  IInv'
  <2>1. f[2] \in BOOLEAN
    BY DeliveredFrame
  <2>2. PICK r : r = lt_l2_frame_check(f[1], f[2])
    OBVIOUS
  <2>3. r \in Codes \ {"LT_OK", "LT_FAIL_loops"}
    BY <1>3, <2>1, <2>2, FrameCheck DEF Codes
  <2>4. ChunkReturn(r)
    BY <1>3, <2>2 DEF ChunkReturn
  <2>5. /\ pos' \in 0..L3_PACKET_MAX_SIZE
        /\ ack' \in {"none", "REQUEST_OK", "REQUEST_CONT", "CRC_ERR", "OTHER"}
    BY <1>1 DEF IInv, ChunkTypeOK
  <2>6. UNCHANGED <<max_len, size, i, loops, offset, got, top, unseen>>
    BY <1>1, <1>3
  <2> QED BY <2>3, <2>4, <2>5, <2>6, ReturnError
<1>4. ASSUME NEW f \in Delivered,
             lt_l2_frame_check(f[1], f[2]) \in {"LT_OK", "LT_L2_REQ_CONT"},
             Accept(f[2]), i' = i + 1,
             IF i + 1 < chunk_num THEN at' = "write" /\ UNCHANGED rv ELSE ChunkReturn("LT_OK")
      PROVE  IInv'
  <2>1. f[2] \in BOOLEAN /\ (f[2] => f[1] = ack)
    BY DeliveredFrame
  <2>2. f[1] \in {"REQUEST_OK", "REQUEST_CONT", "RESULT_OK"}
    BY <1>4, <2>1, FrameCheck
  <2>3. ack # "RESULT_OK" /\ unseen \in 0..MaxUnseen
    BY DEF IInv, ChunkTypeOK
  <2>4. unseen' \in 0..MaxUnseen /\ (unseen' = 0 => unseen = 0 /\ f[2])
    BY <1>4, <2>1, <2>3, Accepted
  <2>5. /\ req_len \in 1..L2_CHUNK_MAX_DATA_SIZE
        /\ i + 1 < chunk_num => req_len = L2_CHUNK_MAX_DATA_SIZE
        /\ ~(i + 1 < chunk_num) => i * L2_CHUNK_MAX_DATA_SIZE + req_len = size
        /\ chunk_num \in 1..17 /\ i \in Nat
    BY <1>1, ReqLen, ChunkNumbers DEF IInv, ChunkTypeOK
  <2>6. unseen' = 0 => got = i * L2_CHUNK_MAX_DATA_SIZE + req_len
    BY <1>1, <2>1, <2>2, <2>3, <2>4
  <2>7. i' \in 0..17 /\ (i + 1 < chunk_num => i' \in 0..(chunk_num - 1))
    BY <1>1, <1>4, <2>5
  <2>8. chunk_num' = chunk_num
    BY <1>1 DEF chunk_num
  <2>9. CASE i + 1 < chunk_num
    <3>1. at' = "write" /\ rv' = rv
      BY <1>4, <2>9
    <3>2. ChunkTypeOK'
      BY <1>1, <2>4, <2>7, <3>1 DEF IInv, ChunkTypeOK
    <3>3. unseen' = 0 => got' = i' * L2_CHUNK_MAX_DATA_SIZE
      BY <1>1, <1>4, <2>5, <2>6, <2>9 DEF L2_CHUNK_MAX_DATA_SIZE
    <3>4. SendInv'
      BY <1>1, <2>7, <2>8, <2>9, <3>1, <3>3 DEF SendInv
    <3> QED
      BY <1>1, <3>1, <3>2, <3>4
         DEF IInv, RetInv, RecvInv, BoundsInv, PacketWhole, CopyInBuffer, EnoughLoops
  <2>10. CASE ~(i + 1 < chunk_num)
    <3>1. at' = "returned" /\ rv' = "LT_OK"
      BY <1>4, <2>10 DEF ChunkReturn
    <3>2. ChunkTypeOK'
      BY <1>1, <2>4, <2>7, <3>1 DEF IInv, ChunkTypeOK, Codes
    <3>3. PacketWhole'
      BY <1>1, <2>5, <2>6, <2>10 DEF PacketWhole
    <3> QED
      BY <1>1, <3>1, <3>2, <3>3
         DEF IInv, RetInv, SendInv, RecvInv, BoundsInv, CopyInBuffer, EnoughLoops
  <2> QED BY <2>9, <2>10
<1> QED BY <1>2, <1>3, <1>4 DEF read_ack

-----------------------------------------------------------------------------
\* What the chip sends next lies inside the result; a last chunk ends it.
LEMMA ChipFrame ==
  ASSUME NEW c \in chip_frame, size \in Nat, pos \in Nat
  PROVE  /\ c[2] \in Nat /\ pos + c[2] <= size
         /\ \/ c[1] = "RESULT_CONT" /\ c[2] >= 99 /\ pos + c[2] < size
            \/ c[1] = "RESULT_OK" /\ pos + c[2] = size
<1>1. \/ \E n \in ChipChunks : n < size - pos /\ c = <<"RESULT_CONT", n>>
      \/ size - pos \in 1..L2_CHUNK_MAX_DATA_SIZE /\ c = <<"RESULT_OK", size - pos>>
  BY Zenon DEF chip_frame
<1>2. ASSUME NEW n \in ChipChunks, n < size - pos, c = <<"RESULT_CONT", n>>
      PROVE  c[1] = "RESULT_CONT" /\ c[2] \in Nat /\ c[2] >= 99 /\ pos + c[2] < size
  <2>1. n \in Nat /\ n >= 99
    BY Ranges
  <2>2. c[1] = "RESULT_CONT" /\ c[2] = n
    BY <1>2
  <2> QED BY <1>2, <2>1, <2>2
<1>3. ASSUME size - pos \in 1..L2_CHUNK_MAX_DATA_SIZE, c = <<"RESULT_OK", size - pos>>
      PROVE  c[1] = "RESULT_OK" /\ c[2] \in Nat /\ pos + c[2] = size
  <2>1. c[1] = "RESULT_OK" /\ c[2] = size - pos
    BY <1>3
  <2>2. size - pos \in Int /\ size - pos >= 1
    BY <1>3
  <2> QED BY <2>1, <2>2
<1> QED BY <1>1, <1>2, <1>3

\* The frame as it is read is the chip's own or damaged.
LEMMA ArrivedFrame ==
  ASSUME NEW c, NEW f \in Arrivals(c)
  PROVE  /\ f[3] \in BOOLEAN /\ (f[3] => f[1] = c[1] /\ f[2] = c[2])
         /\ ~f[3] => f[2] \in {0, L2_CHUNK_MAX_DATA_SIZE, RspLenMax}
<1> DEFINE S == {"RESULT_OK", "RESULT_CONT", "OTHER"}
           L == {0, L2_CHUNK_MAX_DATA_SIZE, RspLenMax}
<1>1. f = <<c[1], c[2], TRUE>> \/ f \in S \X L \X {FALSE}
  BY Zenon DEF Arrivals
<1>2. CASE f = <<c[1], c[2], TRUE>>
  BY <1>2
<1>3. CASE f \in S \X L \X {FALSE}
  <2> HIDE DEF S, L
  <2>1. f[3] = FALSE /\ f[2] \in L
    BY <1>3, Zenon
  <2> QED BY <2>1, Zenon DEF L
<1> QED BY <1>1, <1>2, <1>3, Zenon

\* The start of lt_l2_recv_encrypted_res.
LEMMA RecvCallStep == ASSUME IInv, lt_l2_recv_encrypted_res PROVE IInv'
<1>1. /\ at = "idle" /\ size' \in ResultSizes /\ rv = "none"
      /\ offset' = 0 /\ loops' = 0 /\ got' = 0 /\ pos' = 0 /\ top' = 0 /\ unseen' = 0
      /\ UNCHANGED <<max_len, i, ack>> /\ max_len \in MaxLens
  BY DEF lt_l2_recv_encrypted_res, IInv, RetInv, ChunkTypeOK
<1>2. /\ size' \in Nat /\ size' >= 1 /\ size' <= L3_PACKET_MAX_SIZE /\ max_len \in Nat
      /\ MaxUnseen \in Nat
  BY <1>1, Ranges
<1>3. /\ size' < 65536 /\ 0 \in 0..L3_PACKET_MAX_SIZE /\ 0 \in 0..MAX_LOOPS /\ 0 < MAX_LOOPS
      /\ 0 <= L3_PACKET_MAX_SIZE
  BY <1>2 DEF L3_PACKET_MAX_SIZE, MAX_LOOPS
<1>4. CASE max_len > L3_PACKET_MAX_SIZE
  <2>1. at' = "returned" /\ rv' = "LT_PARAM_ERR"
    BY <1>4 DEF lt_l2_recv_encrypted_res, ChunkReturn
  <2>2. ChunkTypeOK'
    BY <1>1, <1>2, <1>3, <2>1 DEF IInv, ChunkTypeOK, Codes
  <2> QED
    BY <1>1, <1>2, <1>3, <2>1, <2>2
       DEF IInv, RetInv, SendInv, RecvInv, BoundsInv, PacketWhole, CopyInBuffer, EnoughLoops
<1>5. CASE ~(max_len > L3_PACKET_MAX_SIZE)
  <2>1. at' = "recv" /\ rv' = rv
    BY <1>5 DEF lt_l2_recv_encrypted_res
  <2>2. max_len <= L3_PACKET_MAX_SIZE
    BY <1>2, <1>5 DEF L3_PACKET_MAX_SIZE
  <2>3. ChunkTypeOK'
    BY <1>1, <1>2, <1>3, <2>1 DEF IInv, ChunkTypeOK
  <2>4. RecvInv'
    BY <1>1, <1>2, <1>3, <2>1, <2>2 DEF RecvInv
  <2> QED
    BY <1>1, <1>2, <1>3, <2>1, <2>3, <2>4
       DEF IInv, RetInv, SendInv, BoundsInv, PacketWhole, CopyInBuffer, EnoughLoops
<1> QED BY <1>4, <1>5

\* What a chunk that is copied does to the numbers of lt_l2_recv_encrypted_res.
LEMMA CopyStep ==
  ASSUME IInv, at = "recv", NEW len \in Nat, fits(len), top' = offset + len,
         got' = offset + len \/ got' = -1, UNCHANGED max_len
  PROVE  /\ offset + len \in Nat /\ offset + len <= max_len /\ offset + len <= L3_PACKET_MAX_SIZE
         /\ offset + len < 65536
         /\ top' \in Nat /\ top' <= L3_PACKET_MAX_SIZE /\ top' < 65536 /\ top' <= max_len'
         /\ got' \in Int /\ got' >= -1 /\ got' < 65536
<1>1. offset \in Nat /\ max_len \in Nat /\ max_len <= 4143
  BY Ranges DEF IInv, ChunkTypeOK, RecvInv, L3_PACKET_MAX_SIZE
<1>2. /\ offset + len \in Nat /\ offset + len <= max_len /\ offset + len <= 4143
      /\ offset + len < 65536
  BY <1>1 DEF fits
<1> QED BY <1>1, <1>2 DEF L3_PACKET_MAX_SIZE

\* A chunk with more to follow goes behind the ones before it; forty-two
\* undamaged ones are longer than any result.
LEMMA MoreStep ==
  ASSUME IInv, at = "recv", UNCHANGED <<max_len, size, i, ack>>,
         NEW len \in Nat, NEW crc \in BOOLEAN, fits(len), copy(len, crc), Accept(crc),
         offset' = offset + len, loops' = loops + 1,
         IF more_loops(loops') THEN UNCHANGED <<at, rv>> ELSE ChunkReturn("LT_FAIL_loops"),
         pos' \in Nat, pos' <= size, pos' <= L3_PACKET_MAX_SIZE,
         crc => len >= 99 /\ pos' = pos + len /\ pos' < size
  PROVE  IInv'
<1>1. /\ rv = "none" /\ size \in Nat /\ size >= 1 /\ size <= 4143 /\ offset \in Nat
      /\ loops \in 0..42 /\ loops < 42 /\ pos \in 0..L3_PACKET_MAX_SIZE /\ size < 65536
      /\ max_len \in MaxLens /\ max_len <= L3_PACKET_MAX_SIZE /\ unseen \in 0..MaxUnseen
      /\ unseen = 0 => pos = offset /\ got = offset /\ 99 * loops <= offset /\ offset < size
  BY DEF IInv, ChunkTypeOK, RetInv, RecvInv, L3_PACKET_MAX_SIZE, MAX_LOOPS
<1>2. unseen' \in 0..MaxUnseen /\ (unseen' = 0 => unseen = 0 /\ crc)
  BY <1>1, Accepted
<1>3. /\ offset' \in Nat /\ offset' <= L3_PACKET_MAX_SIZE /\ offset' < 65536
      /\ top' \in Nat /\ top' <= L3_PACKET_MAX_SIZE /\ top' < 65536 /\ top' <= max_len'
      /\ got' \in Int /\ got' >= -1 /\ got' < 65536
      /\ crc /\ pos = offset /\ got = offset => got' = offset'
  <2>1. /\ top' = offset + len /\ (got' = offset + len \/ got' = -1)
        /\ crc /\ pos = offset /\ got = offset => got' = offset + len
    BY DEF copy, Extend
  <2> QED BY <2>1, CopyStep
<1>4. unseen' = 0 =>
        pos' = offset' /\ got' = offset' /\ 99 * loops' <= offset' /\ offset' < size'
  <2> SUFFICES ASSUME unseen' = 0
               PROVE  pos' = offset' /\ got' = offset' /\ 99 * loops' <= offset' /\ offset' < size'
    OBVIOUS
  <2>1. crc /\ pos = offset /\ got = offset /\ 99 * loops <= offset
    BY <1>1, <1>2
  <2>2. got' = offset' /\ len >= 99 /\ pos' = offset + len /\ pos' < size /\ pos' = offset'
    BY <1>3, <2>1
  <2>3. 99 * (loops + 1) <= offset + len
    BY <1>1, <2>1, <2>2
  <2> QED BY <2>2, <2>3
<1>5. loops' \in 0..MAX_LOOPS /\ pos' \in 0..L3_PACKET_MAX_SIZE
  BY <1>1 DEF MAX_LOOPS, L3_PACKET_MAX_SIZE
<1>6. CASE more_loops(loops')
  <2>1. at' = "recv" /\ rv' = "none" /\ loops' < MAX_LOOPS
    BY <1>1, <1>6 DEF more_loops
  <2>2. ChunkTypeOK'
    BY <1>1, <1>2, <1>3, <1>5, <2>1 DEF IInv, ChunkTypeOK
  <2>3. RecvInv'
    BY <1>1, <1>4, <2>1 DEF RecvInv, L3_PACKET_MAX_SIZE
  <2> QED
    BY <1>3, <2>1, <2>2, <2>3
       DEF IInv, RetInv, SendInv, BoundsInv, PacketWhole, CopyInBuffer, EnoughLoops
<1>7. CASE ~more_loops(loops')
  <2>1. at' = "returned" /\ rv' = "LT_FAIL_loops"
    BY <1>7 DEF ChunkReturn
  <2>2. ChunkTypeOK'
    BY <1>1, <1>2, <1>3, <1>5, <2>1 DEF IInv, ChunkTypeOK, Codes
  <2>3. loops' >= 42 /\ loops' \in Nat
    BY <1>1, <1>7 DEF more_loops, MAX_LOOPS
  <2>4. unseen' # 0
    <3> SUFFICES ASSUME unseen' = 0 PROVE FALSE
      OBVIOUS
    <3>1. 99 * loops' <= offset' /\ offset' < size
      BY <1>4
    <3> QED BY <1>1, <1>3, <2>3, <3>1
  <2>5. unseen' > 0
    BY <1>2, <2>4, Ranges
  <2> QED
    BY <1>3, <2>1, <2>2, <2>5
       DEF IInv, RetInv, SendInv, RecvInv, BoundsInv, PacketWhole, CopyInBuffer, EnoughLoops
<1> QED BY <1>6, <1>7

\* The last chunk completes the result.
LEMMA LastStep ==
  ASSUME IInv, at = "recv", UNCHANGED <<max_len, size, i, ack, offset, loops, unseen>>,
         NEW len \in Nat, fits(len), top' = offset + len,
         got' = IF pos = offset THEN Extend(got, offset, len) ELSE -1, ChunkReturn("LT_OK"),
         pos' = size, pos + len = size
  PROVE  IInv'
<1>1. /\ size \in Nat /\ size <= L3_PACKET_MAX_SIZE /\ size < 65536
      /\ unseen = 0 => pos = offset /\ got = offset
  BY DEF IInv, ChunkTypeOK, RecvInv
<1>2. /\ top' \in Nat /\ top' <= L3_PACKET_MAX_SIZE /\ top' < 65536 /\ top' <= max_len'
      /\ got' \in Int /\ got' >= -1 /\ got' < 65536
      /\ pos = offset /\ got = offset => got' = offset + len
  <2>1. /\ got' = offset + len \/ got' = -1
        /\ pos = offset /\ got = offset => got' = offset + len
    BY DEF Extend
  <2> QED BY <2>1, CopyStep
<1>3. pos' \in 0..L3_PACKET_MAX_SIZE
  <2>1. L3_PACKET_MAX_SIZE \in Nat
    BY DEF L3_PACKET_MAX_SIZE
  <2> QED BY <1>1, <2>1
<1>4. at' = "returned" /\ rv' = "LT_OK"
  BY DEF ChunkReturn
<1>5. ChunkTypeOK'
  BY <1>1, <1>2, <1>3, <1>4 DEF IInv, ChunkTypeOK, Codes
<1>6. unseen' = 0 => got' = size'
  BY <1>1, <1>2
<1> QED
  BY <1>2, <1>4, <1>5, <1>6
     DEF IInv, RetInv, SendInv, RecvInv, BoundsInv, PacketWhole, CopyInBuffer, EnoughLoops

\* A round of lt_l2_recv_encrypted_res.
LEMMA ReadStep == ASSUME IInv, read_chunk PROVE IInv'
<1>1. /\ at = "recv" /\ size \in Nat /\ size <= L3_PACKET_MAX_SIZE /\ pos \in Nat
      /\ UNCHANGED <<max_len, size, i, ack>>
      /\ pos \in 0..L3_PACKET_MAX_SIZE
      /\ ack \in {"none", "REQUEST_OK", "REQUEST_CONT", "CRC_ERR", "OTHER"}
  BY DEF read_chunk, IInv, ChunkTypeOK, RecvInv
<1>2. CASE ChunkReturn("LT_FAIL") /\ UNCHANGED <<offset, loops, got, pos, top, unseen>>
  BY <1>1, <1>2, ReturnError DEF Codes
<1>3. ASSUME NEW c \in chip_frame, NEW f \in Arrivals(c), pos' = pos + c[2],
             \/ /\ ~fits(f[2])
                /\ ChunkReturn("LT_L3_DATA_LEN_ERROR")
                /\ UNCHANGED <<offset, loops, got, top, unseen>>
             \/ /\ lt_l2_frame_check(f[1], f[3]) \notin {"LT_OK", "LT_L2_RES_CONT"}
                /\ ChunkReturn(lt_l2_frame_check(f[1], f[3]))
                /\ UNCHANGED <<offset, loops, got, top, unseen>>
             \/ /\ fits(f[2]) /\ lt_l2_frame_check(f[1], f[3]) = "LT_L2_RES_CONT"
                /\ copy(f[2], f[3]) /\ Accept(f[3])
                /\ offset' = offset + f[2]
                /\ loops' = loops + 1
                /\ IF more_loops(loops') THEN UNCHANGED <<at, rv>>
                   ELSE ChunkReturn("LT_FAIL_loops")
             \/ /\ fits(f[2]) /\ lt_l2_frame_check(f[1], f[3]) = "LT_OK"
                /\ copy(f[2], f[3]) /\ Accept(f[3])
                /\ ChunkReturn("LT_OK") /\ UNCHANGED <<offset, loops>>
      PROVE  IInv'
  <2>1. PICK st, len, crc, r : st = f[1] /\ len = f[2] /\ crc = f[3]
                               /\ r = lt_l2_frame_check(f[1], f[3])
    BY Zenon
  <2>2. /\ c[2] \in Nat /\ pos + c[2] <= size
        /\ \/ c[1] = "RESULT_CONT" /\ c[2] >= 99 /\ pos + c[2] < size
           \/ c[1] = "RESULT_OK" /\ pos + c[2] = size
    BY <1>1, ChipFrame
  <2>3. /\ crc \in BOOLEAN /\ (crc => st = c[1] /\ len = c[2])
        /\ ~crc => len \in {0, L2_CHUNK_MAX_DATA_SIZE, RspLenMax}
    <3>1. /\ f[3] \in BOOLEAN /\ (f[3] => f[1] = c[1] /\ f[2] = c[2])
          /\ ~f[3] => f[2] \in {0, L2_CHUNK_MAX_DATA_SIZE, RspLenMax}
      BY ArrivedFrame
    <3> QED BY <2>1, <3>1
  <2>4. len \in Nat
    <3>1. 0 \in Nat /\ L2_CHUNK_MAX_DATA_SIZE \in Nat /\ RspLenMax \in Nat
      BY Ranges DEF L2_CHUNK_MAX_DATA_SIZE
    <3> QED BY <2>2, <2>3, <3>1, Zenon
  <2>5. /\ r \in {"LT_OK", "LT_L2_IN_CRC_ERR", "LT_L2_REQ_CONT", "LT_L2_RES_CONT", "LT_L2_ERR"}
        /\ r = "LT_OK" => crc /\ st \in {"REQUEST_OK", "RESULT_OK"}
        /\ r = "LT_L2_RES_CONT" => st = "RESULT_CONT"
    <3>1. r = lt_l2_frame_check(st, crc)
      BY <2>1, Zenon
    <3> QED BY <2>3, <3>1, FrameCheck, Zenon
  <2>6. /\ pos' \in Nat /\ pos' <= size /\ pos' \in 0..L3_PACKET_MAX_SIZE
        /\ pos' <= L3_PACKET_MAX_SIZE
    <3>1. L3_PACKET_MAX_SIZE \in Nat
      BY DEF L3_PACKET_MAX_SIZE
    <3> QED BY <1>1, <1>3, <2>2, <3>1
  <2>7. CASE ChunkReturn("LT_L3_DATA_LEN_ERROR") /\ UNCHANGED <<offset, loops, got, top, unseen>>
    BY <1>1, <2>6, <2>7, ReturnError DEF Codes
  <2>8. CASE /\ r \notin {"LT_OK", "LT_L2_RES_CONT"} /\ ChunkReturn(r)
             /\ UNCHANGED <<offset, loops, got, top, unseen>>
    <3>1. r \in Codes \ {"LT_OK", "LT_FAIL_loops"}
      BY <2>5, <2>8 DEF Codes
    <3> QED BY <1>1, <2>6, <2>8, <3>1, ReturnError
  <2>9. CASE /\ fits(len) /\ r = "LT_L2_RES_CONT" /\ copy(len, crc) /\ Accept(crc)
             /\ offset' = offset + len /\ loops' = loops + 1
             /\ IF more_loops(loops') THEN UNCHANGED <<at, rv>> ELSE ChunkReturn("LT_FAIL_loops")
    <3>1. crc => c[1] = "RESULT_CONT" /\ len = c[2]
      BY <2>3, <2>5, <2>9
    <3>2. crc => len >= 99 /\ pos' = pos + len /\ pos' < size
      BY <1>3, <2>2, <3>1
    <3> QED BY <1>1, <2>3, <2>4, <2>6, <2>9, <3>2, MoreStep
  <2>10. CASE /\ fits(len) /\ r = "LT_OK" /\ copy(len, crc) /\ Accept(crc)
              /\ ChunkReturn("LT_OK") /\ UNCHANGED <<offset, loops>>
    <3>1. crc = TRUE /\ c[1] = "RESULT_OK" /\ len = c[2]
      BY <2>2, <2>3, <2>5, <2>10
    <3>2. pos' = size /\ pos + len = size
      BY <1>3, <2>2, <3>1
    <3>3. UNCHANGED unseen
      BY <2>10, <3>1 DEF Accept
    <3>4. top' = offset + len /\ got' = IF pos = offset THEN Extend(got, offset, len) ELSE -1
      BY <2>10, <3>1 DEF copy
    <3> QED BY <1>1, <2>4, <2>10, <3>2, <3>3, <3>4, LastStep
  <2> QED BY <1>3, <2>1, <2>7, <2>8, <2>9, <2>10, Zenon
<1> QED BY <1>2, <1>3, Zenon DEF read_chunk

-----------------------------------------------------------------------------
\* Every step of the two functions keeps the inductive invariant.
LEMMA NextInv == ASSUME IInv, [ChunkNext]_chunkVars PROVE IInv'
<1>1. CASE ChunkNext
  BY <1>1, SendCallStep, WriteStep, AckStep, RecvCallStep, ReadStep DEF ChunkNext
<1>2. CASE UNCHANGED chunkVars
  <2>1. chunk_num' = chunk_num /\ req_len' = req_len
    BY <1>2 DEF chunkVars, req_len, last_chunk_len, chunk_num
  <2>2. ChunkTypeOK'
    BY <1>2 DEF chunkVars, IInv, ChunkTypeOK
  <2>3. SendInv'
    BY <1>2, <2>1 DEF chunkVars, IInv, SendInv
  <2> QED
    BY <1>2, <2>2, <2>3
       DEF chunkVars, IInv, RetInv, RecvInv, BoundsInv, PacketWhole, CopyInBuffer, EnoughLoops
<1> QED BY <1>1, <1>2

\* The inductive invariant holds in every reachable state.
THEOREM Invariance == ChunkSpec => []IInv
<1> QED BY InitInv, NextInv, PTL DEF ChunkSpec

\* Every chunk lt_l2_send_encrypted_cmd writes has 1 to 252 bytes and ends
\* inside the packet, for every cmd_size.
THEOREM ChunksFit == ChunkSpec => []ChunkFits
<1>1. IInv => ChunkFits
  <2> SUFFICES ASSUME IInv, at = "write"
               PROVE  /\ req_len \in 1..L2_CHUNK_MAX_DATA_SIZE
                      /\ i * L2_CHUNK_MAX_DATA_SIZE + req_len <= size
    BY DEF ChunkFits
  <2>1. size \in Nat /\ size >= 1 /\ size <= L3_PACKET_MAX_SIZE /\ i \in 0..(chunk_num - 1)
    BY DEF IInv, ChunkTypeOK, SendInv
  <2> QED BY <2>1, ReqLen
<1> QED BY <1>1, Invariance, PTL

\* LT_OK means that the whole packet crossed, each byte once and in order,
\* however the chip cuts the result: lt_l2_send_encrypted_cmd and
\* lt_l2_recv_encrypted_res.
THEOREM PacketsWhole == ChunkSpec => []PacketWhole
<1>1. IInv => PacketWhole
  BY DEF IInv
<1> QED BY <1>1, Invariance, PTL

\* memcpy of lt_l2_recv_encrypted_res stays inside an L3 buffer of any size,
\* for damaged lengths too.
THEOREM CopiesInBuffer == ChunkSpec => []CopyInBuffer
<1>1. IInv => CopyInBuffer
  BY DEF IInv
<1> QED BY <1>1, Invariance, PTL

\* The 42 rounds of lt_l2_recv_encrypted_res are enough for every result that
\* a chip cuts into chunks of 99 bytes or more.
THEOREM LoopsSuffice == ChunkSpec => []EnoughLoops
<1>1. IInv => EnoughLoops
  BY DEF IInv
<1> QED BY <1>1, Invariance, PTL

\* Type correctness: the indices, offsets and lengths of the two functions stay
\* within their integer types.
THEOREM TypeCorrect == ChunkSpec => []ChunkTypeOK
<1>1. IInv => ChunkTypeOK
  BY DEF IInv
<1> QED BY <1>1, Invariance, PTL
=============================================================================
