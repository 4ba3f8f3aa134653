---------------------------- MODULE LtL3_proofs ----------------------------
(***************************************************************************)
(* Proofs about LtL3, for every number of calls, every slot, address,      *)
(* length and value, every size of the L3 buffer and every length of the   *)
(* results.                                                                *)
(***************************************************************************)
EXTENDS LtL3, TLAPS

\* What lt_out__* announces is what it filled in, and fits into a packet.
SizeGood(c) ==
  c.legal => c.size \in Nat /\ c.size = c.used /\ 2 + c.size + 16 <= L3_PACKET_MAX_SIZE

\* What lt_in__* copies from a result of length n that it takes.
Given(c, curve, n) == IF c.id = 65 THEN n - c.from ELSE c.copy[curve]

\* lt_in__* copies the result from the data on to its end.
CopyGood(c) ==
  c.legal => \A curve \in Curves : \A n \in c.sizes[curve] :
    /\ Given(c, curve, n) \in Nat /\ Given(c, curve, n) <= c.room
    /\ c.from + Given(c, curve, n) = n

GoodCmd(c) == c.legal \in BOOLEAN /\ c.room \in Nat /\ SizeGood(c) /\ CopyGood(c)

\* The command of the call; beyond the API it is a legal one.
CmdInv == GoodCmd(cmd) /\ (pc # "idle" => cmd.legal)

BufferInv == filled <= L3_PACKET_MAX_SIZE

\* Every nonce counts calls of this session.
CountInv == encryption_IV <= calls /\ decryption_IV <= calls /\ chipIV <= calls /\ iv0 <= calls

\* A command on its way: the session is on, the caller got nothing yet, and a
\* result carries the nonce before the chip's current one.
PhaseInv ==
  /\ pc # "idle" => session = "ON" /\ out = 0
  /\ pc = "in" => chipIV = encryption_IV /\ res.iv + 1 = encryption_IV /\ res.iv \in Nat
                  /\ res.curve \in Curves

IInv == TypeOK /\ CmdInv /\ BufferInv /\ CountInv /\ PhaseInv /\ OutputExact
        /\ RefusedKeepsNonce /\ AnswersKeepSession

-----------------------------------------------------------------------------
\* The commands whose layout alone decides: every legal one fits and its result
\* is copied to its end.
LEMMA SlotCommandsGood ==
  ASSUME NEW slot \in Nat
  PROVE  /\ GoodCmd(l3_pairing_key_write(slot))
         /\ GoodCmd(l3_pairing_key_read(slot))
         /\ GoodCmd(l3_pairing_key_invalidate(slot))
         /\ GoodCmd(l3_r_config_write(slot))
         /\ GoodCmd(l3_r_config_read(slot))
         /\ GoodCmd(l3_i_config_read(slot))
         /\ GoodCmd(l3_r_mem_data_erase(slot))
         /\ GoodCmd(l3_ecc_key_erase(slot))
         /\ GoodCmd(l3_ecc_ecdsa_sign(slot))
         /\ GoodCmd(l3_mcounter_init(slot))
         /\ GoodCmd(l3_mcounter_update(slot))
         /\ GoodCmd(l3_mcounter_get(slot))
         /\ GoodCmd(l3_mac_and_destroy(slot))
<1> USE DEF GoodCmd, SizeGood, CopyGood, Given, Curves, L3_PACKET_MAX_SIZE, Struct, L3
<1>1. GoodCmd(l3_pairing_key_write(slot))
  BY DEF l3_pairing_key_write, Plain, lt_l3_pairing_key_write_t
<1>2. GoodCmd(l3_pairing_key_read(slot))
  BY DEF l3_pairing_key_read, lt_l3_pairing_key_read_t
<1>3. GoodCmd(l3_pairing_key_invalidate(slot))
  BY DEF l3_pairing_key_invalidate, Plain, lt_l3_pairing_key_invalidate_t
<1>4. GoodCmd(l3_r_config_write(slot))
  BY DEF l3_r_config_write, Plain, conf_addr_valid, lt_l3_r_config_write_t
<1>5. GoodCmd(l3_r_config_read(slot))
  BY DEF l3_r_config_read, conf_addr_valid, lt_l3_r_config_read_t
<1>6. GoodCmd(l3_i_config_read(slot))
  BY DEF l3_i_config_read, conf_addr_valid, lt_l3_i_config_read_t
<1>7. GoodCmd(l3_r_mem_data_erase(slot))
  BY DEF l3_r_mem_data_erase, Plain, lt_l3_r_mem_data_erase_t
<1>8. GoodCmd(l3_ecc_key_erase(slot))
  BY DEF l3_ecc_key_erase, Plain, lt_l3_ecc_key_erase_t
<1>9. GoodCmd(l3_ecc_ecdsa_sign(slot))
  BY DEF l3_ecc_ecdsa_sign, lt_l3_ecdsa_sign_t
<1>10. GoodCmd(l3_mcounter_init(slot))
  BY DEF l3_mcounter_init, Plain, lt_l3_mcounter_init_t
<1>11. GoodCmd(l3_mcounter_update(slot))
  BY DEF l3_mcounter_update, Plain, lt_l3_mcounter_update_t
<1>12. GoodCmd(l3_mcounter_get(slot))
  BY DEF l3_mcounter_get, lt_l3_mcounter_get_t
<1>13. GoodCmd(l3_mac_and_destroy(slot))
  BY DEF l3_mac_and_destroy, lt_l3_mac_and_destroy_t
<1> HIDE DEF GoodCmd, SizeGood, CopyGood, Given, Curves, L3_PACKET_MAX_SIZE, Struct, L3
<1> QED BY <1>1, <1>2, <1>3, <1>4, <1>5, <1>6, <1>7, <1>8, <1>9, <1>10, <1>11, <1>12,
           <1>13, Zenon

\* The same for the commands with further parameters.
LEMMA LenCommandsGood ==
  ASSUME NEW slot \in Nat, NEW len \in Nat
  PROVE  /\ GoodCmd(l3_i_config_write(slot, len))
         /\ GoodCmd(l3_random_value_get(len))
<1> USE DEF GoodCmd, SizeGood, CopyGood, Given, Curves, L3_PACKET_MAX_SIZE, Struct, L3
<1>1. GoodCmd(l3_i_config_write(slot, len))
  BY DEF l3_i_config_write, Plain, conf_addr_valid, lt_l3_i_config_write_t
<1>2. GoodCmd(l3_random_value_get(len))
  BY DEF l3_random_value_get, lt_l3_random_value_get_t
<1> HIDE DEF GoodCmd, SizeGood, CopyGood, Given, Curves, L3_PACKET_MAX_SIZE, Struct, L3
<1> QED BY <1>1, <1>2, Zenon

\* The same for the commands that name a curve.
LEMMA CurveCommandsGood ==
  ASSUME NEW slot \in Nat, NEW curve \in Curves
  PROVE  /\ GoodCmd(l3_ecc_key_generate(slot, curve))
         /\ GoodCmd(l3_ecc_key_store(slot, curve))
<1> USE DEF GoodCmd, SizeGood, CopyGood, Given, Curves, L3_PACKET_MAX_SIZE, Struct, L3
<1>1. GoodCmd(l3_ecc_key_generate(slot, curve))
  BY DEF l3_ecc_key_generate, Plain, lt_l3_ecc_key_generate_t
<1>2. GoodCmd(l3_ecc_key_store(slot, curve))
  BY DEF l3_ecc_key_store, Plain, lt_l3_ecc_key_store_t
<1> HIDE DEF GoodCmd, SizeGood, CopyGood, Given, Curves, L3_PACKET_MAX_SIZE, Struct, L3
<1> QED BY <1>1, <1>2, Zenon

\* The same for the erasure of the whole R-Config, which takes no parameter.
LEMMA EraseGood == GoodCmd(l3_r_config_erase(TRUE))
BY DEF GoodCmd, SizeGood, CopyGood, Given, Curves, L3_PACKET_MAX_SIZE, Struct, L3, Plain, l3_r_config_erase,
       lt_l3_r_config_erase_t

\* lt_ping announces the bytes it fills in and takes them back.
LEMMA PingGood == ASSUME NEW len \in Nat PROVE GoodCmd(l3_ping(len))
<1> DEFINE c == l3_ping(len)
           t == lt_l3_ping_t
           g == len <= 4096
           r == L3(t, g, len)
           s == [k \in Curves |-> {t.CMD_SIZE + len}]
<1>1. c = [r EXCEPT !.size = len + t.CMD_SIZE, !.used = t.cmd_head + len, !.sizes = s]
  BY DEF l3_ping
<1>2. t.id = 1 /\ t.CMD_SIZE = 1 /\ t.cmd_head = 1 /\ t.RES_SIZE = 1 /\ t.res_head = 1
  BY DEF lt_l3_ping_t, Struct
<1>3. g \in BOOLEAN /\ (g => len <= 4096)
  OBVIOUS
<1> HIDE DEF t, g
<1>4. /\ DOMAIN r = {"id", "legal", "size", "used", "sizes", "from", "copy", "room"}
      /\ r.id = 1 /\ r.from = 1 /\ r.room = len
      /\ r.legal = g
      /\ r.copy = [k \in Curves |-> len]
  BY <1>2 DEF L3
<1> HIDE DEF c, r, s
<1>5. /\ c.id = 1 /\ c.from = 1 /\ c.room = len /\ c.legal = g
      /\ c.copy = r.copy
      /\ c.size = len + t.CMD_SIZE /\ c.used = t.cmd_head + len /\ c.sizes = s
  BY <1>1, <1>4
<1>6. GoodCmd(c)
  BY <1>3, <1>2, <1>4, <1>5 DEF s, GoodCmd, SizeGood, CopyGood, Given, L3_PACKET_MAX_SIZE
<1> QED BY <1>6 DEF c

\* lt_r_mem_data_write announces the bytes it fills in.
LEMMA MemWriteGood ==
  ASSUME NEW slot \in Nat, NEW len \in Nat PROVE GoodCmd(l3_r_mem_data_write(slot, len))
<1> DEFINE c == l3_r_mem_data_write(slot, len)
           t == lt_l3_r_mem_data_write_t
           g == slot <= 511 /\ len \in 1..444
           r == Plain(t, g)
<1>1. c = [r EXCEPT !.size = len + 4, !.used = t.cmd_head + len]
  BY DEF l3_r_mem_data_write
<1>2. t.id = 64 /\ t.cmd_head = 4 /\ t.RES_SIZE = 1 /\ t.res_head = 1
  BY DEF lt_l3_r_mem_data_write_t, Struct
<1>3. g \in BOOLEAN /\ (g => len \in 1..444)
  OBVIOUS
<1> HIDE DEF t, g
<1>4. /\ DOMAIN r = {"id", "legal", "size", "used", "sizes", "from", "copy", "room"}
      /\ r.id = 64 /\ r.from = 1 /\ r.room = 0
      /\ r.legal = g
      /\ r.sizes = [k \in Curves |-> {1}] /\ r.copy = [k \in Curves |-> 0]
  BY <1>2 DEF Plain, L3
<1> HIDE DEF c, r
<1>5. /\ c.id = 64 /\ c.from = 1 /\ c.room = 0 /\ c.legal = g
      /\ c.sizes = [k \in Curves |-> {1}] /\ c.copy = [k \in Curves |-> 0]
      /\ c.size = len + 4 /\ c.used = 4 + len
  BY <1>1, <1>2, <1>4
<1>6. g => len <= 444
  BY <1>3
<1>7. GoodCmd(c)
  BY <1>3, <1>5, <1>6 DEF GoodCmd, SizeGood, CopyGood, Given, L3_PACKET_MAX_SIZE
<1> QED BY <1>7 DEF c

\* lt_ecc_eddsa_sign announces the bytes it fills in; its messages make the
\* longest commands.
LEMMA EddsaGood ==
  ASSUME NEW slot \in Nat, NEW len \in Nat PROVE GoodCmd(l3_ecc_eddsa_sign(slot, len))
<1> DEFINE c == l3_ecc_eddsa_sign(slot, len)
           t == lt_l3_eddsa_sign_t
           g == slot <= 31 /\ len <= 4096
           r == L3(t, g, 64)
<1>1. c = [r EXCEPT !.size = t.CMD_SIZE + len - 1, !.used = t.cmd_head + len]
  BY DEF l3_ecc_eddsa_sign
<1>2. t.id = 113 /\ t.CMD_SIZE = 17 /\ t.cmd_head = 16 /\ t.RES_SIZE = 80 /\ t.res_head = 16
  BY DEF lt_l3_eddsa_sign_t, Struct
<1>3. g \in BOOLEAN /\ (g => len <= 4096)
  OBVIOUS
<1> HIDE DEF t, g
<1>4. /\ DOMAIN r = {"id", "legal", "size", "used", "sizes", "from", "copy", "room"}
      /\ r.id = 113 /\ r.from = 16 /\ r.room = 64
      /\ r.legal = g
      /\ r.sizes = [k \in Curves |-> {80}] /\ r.copy = [k \in Curves |-> 64]
  BY <1>2 DEF L3
<1> HIDE DEF c, r
<1>5. /\ c.id = 113 /\ c.from = 16 /\ c.room = 64 /\ c.legal = g
      /\ c.sizes = [k \in Curves |-> {80}] /\ c.copy = [k \in Curves |-> 64]
      /\ c.size = 17 + len - 1 /\ c.used = 16 + len
  BY <1>1, <1>2, <1>4
<1>6. GoodCmd(c)
  BY <1>3, <1>5 DEF GoodCmd, SizeGood, CopyGood, Given, L3_PACKET_MAX_SIZE
<1> QED BY <1>6 DEF c

\* The result of lt_r_mem_data_read may have any length from 4 to 448.
LEMMA MemReadGood == ASSUME NEW slot \in Nat PROVE GoodCmd(l3_r_mem_data_read(slot))
<1> DEFINE c == l3_r_mem_data_read(slot)
<1>1. /\ c.id = 65 /\ c.legal = (slot <= 511) /\ c.size = 3 /\ c.used = 3
      /\ c.from = 4 /\ c.room = 444
  BY DEF l3_r_mem_data_read, L3, lt_l3_r_mem_data_read_t, Struct
<1>2. c.sizes = [k \in Curves |-> 4..448]
  BY DEF l3_r_mem_data_read, L3, lt_l3_r_mem_data_read_t, Struct, LT_L3_R_MEM_DATA_READ_RES_SIZE_MAX
<1> HIDE DEF c
<1>3. \A k \in Curves : \A n \in c.sizes[k] : n \in Int /\ n >= 4 /\ n <= 448
  BY <1>2
<1>4. GoodCmd(c)
  BY <1>1, <1>3 DEF GoodCmd, SizeGood, CopyGood, Given, L3_PACKET_MAX_SIZE
<1> QED BY <1>4 DEF c

\* The result of lt_ecc_key_read depends on the curve it names.
LEMMA KeyReadGood == ASSUME NEW slot \in Nat PROVE GoodCmd(l3_ecc_key_read(slot))
<1> DEFINE c == l3_ecc_key_read(slot)
<1>1. /\ c.id = 98 /\ c.legal = (slot <= 31) /\ c.size = 3 /\ c.used = 3
      /\ c.from = 16 /\ c.room = 64
  BY DEF l3_ecc_key_read, L3, lt_l3_ecc_key_read_t, Struct
<1>2. /\ c.sizes = [P256 |-> {64 + 16}, ED25519 |-> {32 + 16}, unknown |-> {}]
      /\ c.copy = [P256 |-> 64, ED25519 |-> 32, unknown |-> 0]
  BY DEF l3_ecc_key_read, L3, lt_l3_ecc_key_read_t, Struct
<1> HIDE DEF c
<1>3. /\ c.sizes["P256"] = {80} /\ c.sizes["ED25519"] = {48} /\ c.sizes["unknown"] = {}
      /\ c.copy["P256"] = 64 /\ c.copy["ED25519"] = 32
  BY <1>2
<1>4. GoodCmd(c)
  BY <1>1, <1>3 DEF GoodCmd, SizeGood, CopyGood, Given, L3_PACKET_MAX_SIZE, Curves
<1> QED BY <1>4 DEF c

-----------------------------------------------------------------------------
\* What an API function does with its command, whatever it checks first.
Called(c) ==
  /\ pc = "idle" /\ calls < MaxCalls
  /\ calls' = calls + 1 /\ cmd' = c /\ out' = 0 /\ iv0' = encryption_IV
  /\ \/ /\ pc' = "idle" /\ ret' \in {"LT_PARAM_ERR", "LT_HOST_NO_SESSION"}
        /\ encryption_IV' = encryption_IV /\ filled' = filled
     \/ /\ session = "ON" /\ c.legal
        /\ filled' = 2 + c.size + 16
        /\ encryption_IV' = encryption_IV + 1
        /\ pc' = "send" /\ ret' = ret
  /\ UNCHANGED <<session, buff_len, decryption_IV, chipIV, res>>

\* Each API function calls lt_out__* with a good command.
LEMMA Calls ==
  ASSUME \/ lt_ping \/ lt_pairing_key \/ lt_r_config \/ lt_i_config
         \/ lt_r_mem_data \/ lt_random_value_get \/ lt_ecc_key \/ lt_ecc_ecdsa_sign
         \/ lt_ecc_eddsa_sign \/ lt_mcounter \/ lt_mac_and_destroy
  PROVE  \E c : GoodCmd(c) /\ Called(c)
<1>0. /\ \A s \in Args : s \in Nat
      /\ \A n \in Lens : n \in Nat
  BY L3Assumption
<1>1. CASE lt_ping
  <2>1. PICK n \in Lens : Command(n <= 4096, l3_ping(n))
    BY <1>1 DEF lt_ping
  <2>2. Called(l3_ping(n))
    BY <2>1 DEF Command, Called, Return
  <2>3. GoodCmd(l3_ping(n))
    BY <1>0, PingGood
  <2> QED BY <2>2, <2>3
<1>2. CASE lt_pairing_key
  <2>1. PICK s \in Args : \/ Command(s <= 3, l3_pairing_key_write(s))
                          \/ Command(s <= 3, l3_pairing_key_read(s))
                          \/ Command(s <= 3, l3_pairing_key_invalidate(s))
    BY <1>2 DEF lt_pairing_key
  <2>2. \/ Called(l3_pairing_key_write(s))
        \/ Called(l3_pairing_key_read(s))
        \/ Called(l3_pairing_key_invalidate(s))
    BY <2>1 DEF Command, Called, Return
  <2>3. /\ GoodCmd(l3_pairing_key_write(s))
        /\ GoodCmd(l3_pairing_key_read(s))
        /\ GoodCmd(l3_pairing_key_invalidate(s))
    BY <1>0, SlotCommandsGood
  <2> QED BY <2>2, <2>3
<1>3. CASE lt_r_config
  <2>1. ASSUME NEW s \in Args,
               \/ Command(TRUE, l3_r_config_write(s))
               \/ Command(TRUE, l3_r_config_read(s))
        PROVE  \E c : GoodCmd(c) /\ Called(c)
    <3>1. \/ Called(l3_r_config_write(s))
          \/ Called(l3_r_config_read(s))
      BY <2>1 DEF Command, Called, Return
    <3>2. /\ GoodCmd(l3_r_config_write(s))
          /\ GoodCmd(l3_r_config_read(s))
      BY <1>0, SlotCommandsGood
    <3> QED BY <3>1, <3>2
  <2>2. ASSUME Command(TRUE, l3_r_config_erase(TRUE))
        PROVE  \E c : GoodCmd(c) /\ Called(c)
    <3>1. Called(l3_r_config_erase(TRUE))
      BY <2>2, Zenon DEF Command, Called, Return
    <3>2. GoodCmd(l3_r_config_erase(TRUE))
      BY EraseGood, Zenon
    <3> QED BY <3>1, <3>2, Zenon
  <2> QED BY <1>3, <2>1, <2>2, Zenon DEF lt_r_config
<1>4. CASE lt_i_config
  <2>1. ASSUME NEW s \in Args, NEW n \in Lens,
               Command(n <= 31, l3_i_config_write(s, n))
        PROVE  \E c : GoodCmd(c) /\ Called(c)
    <3>1. Called(l3_i_config_write(s, n))
      BY <2>1 DEF Command, Called, Return
    <3>2. GoodCmd(l3_i_config_write(s, n))
      BY <1>0, LenCommandsGood
    <3> QED BY <3>1, <3>2
  <2>2. ASSUME NEW s \in Args,
               Command(TRUE, l3_i_config_read(s))
        PROVE  \E c : GoodCmd(c) /\ Called(c)
    <3>1. Called(l3_i_config_read(s))
      BY <2>2 DEF Command, Called, Return
    <3>2. GoodCmd(l3_i_config_read(s))
      BY <1>0, SlotCommandsGood
    <3> QED BY <3>1, <3>2
  <2> QED BY <1>4, <2>1, <2>2, Zenon DEF lt_i_config
<1>5. CASE lt_r_mem_data
  <2>1. ASSUME NEW s \in Args, NEW n \in Lens,
               Command(n \in 1..444 /\ s <= 511, l3_r_mem_data_write(s, n))
        PROVE  \E c : GoodCmd(c) /\ Called(c)
    <3>1. Called(l3_r_mem_data_write(s, n))
      BY <2>1 DEF Command, Called, Return
    <3>2. GoodCmd(l3_r_mem_data_write(s, n))
      BY <1>0, MemWriteGood
    <3> QED BY <3>1, <3>2
  <2>2. ASSUME NEW s \in Args,
               \/ Command(s <= 511, l3_r_mem_data_read(s))
               \/ Command(s <= 511, l3_r_mem_data_erase(s))
        PROVE  \E c : GoodCmd(c) /\ Called(c)
    <3>1. \/ Called(l3_r_mem_data_read(s))
          \/ Called(l3_r_mem_data_erase(s))
      BY <2>2 DEF Command, Called, Return
    <3>2. /\ GoodCmd(l3_r_mem_data_read(s))
          /\ GoodCmd(l3_r_mem_data_erase(s))
      BY <1>0, MemReadGood, SlotCommandsGood
    <3> QED BY <3>1, <3>2
  <2> QED BY <1>5, <2>1, <2>2 DEF lt_r_mem_data
<1>6. CASE lt_random_value_get
  <2>1. PICK n \in Lens : Command(n <= 255, l3_random_value_get(n))
    BY <1>6 DEF lt_random_value_get
  <2>2. Called(l3_random_value_get(n))
    BY <2>1 DEF Command, Called, Return
  <2>3. GoodCmd(l3_random_value_get(n))
    BY <1>0, LenCommandsGood
  <2> QED BY <2>2, <2>3
<1>7. CASE lt_ecc_key
  <2>1. ASSUME NEW s \in Args, NEW k \in Curves,
               \/ Command(s <= 31 /\ k # "unknown", l3_ecc_key_generate(s, k))
               \/ Command(s <= 31 /\ k # "unknown", l3_ecc_key_store(s, k))
        PROVE  \E c : GoodCmd(c) /\ Called(c)
    <3>1. \/ Called(l3_ecc_key_generate(s, k))
          \/ Called(l3_ecc_key_store(s, k))
      BY <2>1 DEF Command, Called, Return
    <3>2. /\ GoodCmd(l3_ecc_key_generate(s, k))
          /\ GoodCmd(l3_ecc_key_store(s, k))
      BY <1>0, CurveCommandsGood
    <3> QED BY <3>1, <3>2
  <2>2. ASSUME NEW s \in Args,
               \/ Command(s <= 31, l3_ecc_key_read(s))
               \/ Command(s <= 31, l3_ecc_key_erase(s))
        PROVE  \E c : GoodCmd(c) /\ Called(c)
    <3>1. \/ Called(l3_ecc_key_read(s))
          \/ Called(l3_ecc_key_erase(s))
      BY <2>2 DEF Command, Called, Return
    <3>2. /\ GoodCmd(l3_ecc_key_read(s))
          /\ GoodCmd(l3_ecc_key_erase(s))
      BY <1>0, KeyReadGood, SlotCommandsGood
    <3> QED BY <3>1, <3>2
  <2> QED BY <1>7, <2>1, <2>2 DEF lt_ecc_key
<1>8. CASE lt_ecc_ecdsa_sign
  <2>1. PICK s \in Args : Command(s <= 31, l3_ecc_ecdsa_sign(s))
    BY <1>8 DEF lt_ecc_ecdsa_sign
  <2>2. Called(l3_ecc_ecdsa_sign(s))
    BY <2>1 DEF Command, Called, Return
  <2>3. GoodCmd(l3_ecc_ecdsa_sign(s))
    BY <1>0, SlotCommandsGood
  <2> QED BY <2>2, <2>3
<1>9. CASE lt_ecc_eddsa_sign
  <2>1. PICK s \in Args, n \in Lens : Command(n <= 4096 /\ s <= 31, l3_ecc_eddsa_sign(s, n))
    BY <1>9 DEF lt_ecc_eddsa_sign
  <2>2. Called(l3_ecc_eddsa_sign(s, n))
    BY <2>1 DEF Command, Called, Return
  <2>3. GoodCmd(l3_ecc_eddsa_sign(s, n))
    BY <1>0, EddsaGood
  <2> QED BY <2>2, <2>3
<1>10. CASE lt_mcounter
  <2>1. ASSUME NEW x \in Args, NEW v \in Lens,
               Command(x <= 15 /\ v <= MCOUNTER_VALUE_MAX, l3_mcounter_init(x))
        PROVE  \E c : GoodCmd(c) /\ Called(c)
    <3>1. Called(l3_mcounter_init(x))
      BY <2>1 DEF Command, Called, Return
    <3>2. GoodCmd(l3_mcounter_init(x))
      BY <1>0, SlotCommandsGood
    <3> QED BY <3>1, <3>2
  <2>2. ASSUME NEW x \in Args,
               \/ Command(x <= 15, l3_mcounter_update(x))
               \/ Command(x <= 15, l3_mcounter_get(x))
        PROVE  \E c : GoodCmd(c) /\ Called(c)
    <3>1. \/ Called(l3_mcounter_update(x))
          \/ Called(l3_mcounter_get(x))
      BY <2>2 DEF Command, Called, Return
    <3>2. /\ GoodCmd(l3_mcounter_update(x))
          /\ GoodCmd(l3_mcounter_get(x))
      BY <1>0, SlotCommandsGood
    <3> QED BY <3>1, <3>2
  <2> QED BY <1>10, <2>1, <2>2 DEF lt_mcounter
<1>11. CASE lt_mac_and_destroy
  <2>1. PICK s \in Args : Command(s <= 127, l3_mac_and_destroy(s))
    BY <1>11 DEF lt_mac_and_destroy
  <2>2. Called(l3_mac_and_destroy(s))
    BY <2>1 DEF Command, Called, Return
  <2>3. GoodCmd(l3_mac_and_destroy(s))
    BY <1>0, SlotCommandsGood
  <2> QED BY <2>2, <2>3
<1> QED BY <1>1, <1>2, <1>3, <1>4, <1>5, <1>6, <1>7, <1>8, <1>9, <1>10, <1>11

-----------------------------------------------------------------------------
\* The initial states satisfy the inductive invariant.
LEMMA InitInv == Init => IInv
<1> SUFFICES ASSUME Init PROVE IInv
  OBVIOUS
<1>1. /\ pc = "idle" /\ ret = "none" /\ calls = 0 /\ session = "OFF"
      /\ encryption_IV = 0 /\ decryption_IV = 0 /\ chipIV = 0 /\ iv0 = 0
      /\ filled = 0 /\ out = 0
  BY DEF Init
<1>2. res.size = 0
  BY DEF Init, NoRes
<1>3. GoodCmd(cmd)
  BY EraseGood, Zenon DEF Init
<1>4. buff_len \in Nat
  <2>1. PICK b \in BuffSizes : buff_len = LT_SIZE_OF_L3_BUFF(b)
    BY DEF Init
  <2> QED BY <2>1, L3Assumption DEF LT_SIZE_OF_L3_BUFF, L3_PACKET_MAX_SIZE
<1>5. MaxCalls \in Nat /\ 0 <= L3_PACKET_MAX_SIZE
  BY L3Assumption DEF L3_PACKET_MAX_SIZE
<1>6. TypeOK
  BY <1>1, <1>2, <1>3, <1>4, <1>5 DEF TypeOK, GoodCmd
<1>7. OutputExact
  BY <1>1, <1>3 DEF OutputExact, GoodCmd
<1> QED
  BY <1>1, <1>3, <1>5, <1>6, <1>7
     DEF IInv, CmdInv, BufferInv, CountInv, PhaseInv, RefusedKeepsNonce, AnswersKeepSession

\* A new session starts all nonces from zero.
LEMMA StartStep == ASSUME IInv, lt_session_start PROVE IInv'
<1>1. /\ pc = "idle" /\ pc' = "idle" /\ ret' = "none" /\ calls' = calls + 1 /\ calls < MaxCalls
      /\ session' = "ON" /\ encryption_IV' = 0 /\ decryption_IV' = 0 /\ chipIV' = 0
      /\ iv0' = 0 /\ out' = 0 /\ UNCHANGED <<cmd, buff_len, filled, res>>
      /\ MaxCalls \in Nat /\ calls \in Nat
  BY L3Assumption DEF lt_session_start, Return, IInv, TypeOK
<1>2. GoodCmd(cmd) /\ GoodCmd(cmd)' /\ cmd.room \in Nat
  BY <1>1, Zenon DEF IInv, CmdInv, GoodCmd, SizeGood, CopyGood, Given
<1>3. TypeOK'
  BY <1>1 DEF IInv, TypeOK
<1>4. OutputExact'
  BY <1>1, <1>2 DEF OutputExact
<1> QED
  BY <1>1, <1>2, <1>3, <1>4
     DEF IInv, CmdInv, BufferInv, CountInv, PhaseInv, RefusedKeepsNonce, AnswersKeepSession

\* A call of an API function: a refused one uses no nonce, an accepted one
\* leaves a packet that fits.
LEMMA CalledStep == ASSUME IInv, NEW c, GoodCmd(c), Called(c) PROVE IInv'
<1>1. /\ pc = "idle" /\ calls' = calls + 1 /\ calls < MaxCalls
      /\ cmd' = c /\ out' = 0 /\ iv0' = encryption_IV
      /\ UNCHANGED <<session, buff_len, decryption_IV, chipIV, res>>
      /\ MaxCalls \in Nat /\ calls \in Nat /\ encryption_IV \in Nat /\ encryption_IV <= calls
      /\ decryption_IV \in Nat /\ decryption_IV <= calls /\ chipIV \in Nat /\ chipIV <= calls
  BY L3Assumption DEF Called, IInv, TypeOK, CountInv
<1>2. GoodCmd(cmd)' /\ c.room \in Nat /\ c.legal \in BOOLEAN
  BY <1>1, Zenon DEF GoodCmd, SizeGood, CopyGood, Given
<1>3. CASE /\ pc' = "idle" /\ ret' \in {"LT_PARAM_ERR", "LT_HOST_NO_SESSION"}
           /\ encryption_IV' = encryption_IV /\ filled' = filled
  <2>1. TypeOK'
    BY <1>1, <1>2, <1>3 DEF IInv, TypeOK
  <2>2. OutputExact'
    BY <1>1, <1>2, <1>3 DEF OutputExact
  <2> QED
    BY <1>1, <1>2, <1>3, <2>1, <2>2
       DEF IInv, CmdInv, BufferInv, CountInv, PhaseInv, RefusedKeepsNonce, AnswersKeepSession
<1>4. CASE /\ session = "ON" /\ c.legal /\ filled' = 2 + c.size + 16
           /\ encryption_IV' = encryption_IV + 1 /\ pc' = "send" /\ ret' = ret
  <2>1. c.size \in Nat /\ 2 + c.size + 16 <= L3_PACKET_MAX_SIZE
    BY <1>4 DEF GoodCmd, SizeGood
  <2>2. c.size < 65536 /\ filled' \in Nat /\ filled' <= L3_PACKET_MAX_SIZE
    BY <1>4, <2>1 DEF L3_PACKET_MAX_SIZE
  <2>3. TypeOK'
    BY <1>1, <1>2, <1>4, <2>1, <2>2 DEF IInv, TypeOK
  <2> QED
    BY <1>1, <1>2, <1>4, <2>2, <2>3
       DEF IInv, CmdInv, BufferInv, CountInv, PhaseInv, OutputExact, RefusedKeepsNonce,
           AnswersKeepSession
<1> QED BY <1>3, <1>4 DEF Called

\* The chip takes the packet and answers with the nonce it has just used, or
\* nothing comes back.
LEMMA SendStep == ASSUME IInv, send_encrypted_cmd PROVE IInv'
<1>0. cmd.legal /\ (cmd.legal \in BOOLEAN)'
  <2>1. cmd.legal /\ cmd.legal \in BOOLEAN /\ cmd' = cmd
    BY DEF send_encrypted_cmd, IInv, TypeOK, CmdInv
  <2> QED BY <2>1, Zenon
<1>1. /\ pc = "send" /\ session = "ON" /\ out = 0
      /\ UNCHANGED <<calls, cmd, session, buff_len, encryption_IV, decryption_IV, iv0, filled, out>>
      /\ encryption_IV \in Nat /\ encryption_IV <= calls /\ chipIV \in Nat /\ calls \in Nat
      /\ calls <= MaxCalls /\ MaxCalls \in Nat
  BY L3Assumption DEF send_encrypted_cmd, IInv, TypeOK, PhaseInv, CountInv
<1>2. GoodCmd(cmd) /\ GoodCmd(cmd)' /\ cmd.room \in Nat
  BY <1>1, Zenon DEF IInv, CmdInv, GoodCmd, SizeGood, CopyGood, Given
<1>3. ASSUME pc' = "idle", ret' \in {"LT_FAIL", "LT_L3_DATA_LEN_ERROR"}, res' = res,
             chipIV' = chipIV \/ (chipIV = encryption_IV - 1 /\ chipIV' = chipIV + 1)
      PROVE  IInv'
  <2>1. chipIV' \in Nat /\ chipIV' <= calls
    BY <1>1, <1>3 DEF IInv, CountInv
  <2>2. TypeOK'
    BY <1>0, <1>1, <1>3, <2>1 DEF IInv, TypeOK
  <2>3. OutputExact'
    BY <1>1, <1>2, <1>3 DEF OutputExact
  <2> QED
    BY <1>1, <1>2, <1>3, <2>1, <2>2, <2>3
       DEF IInv, CmdInv, BufferInv, CountInv, PhaseInv, RefusedKeepsNonce, AnswersKeepSession
<1>4. ASSUME NEW r \in [code : {"OK", "ERR"}, size : ResSizes, curve : Curves, iv : {chipIV}],
             chipIV = encryption_IV - 1, chipIV' = chipIV + 1,
             res' = r, pc' = "in", ret' = ret
      PROVE  IInv'
  <2>1. res'.size \in ResSizes /\ res'.curve \in Curves /\ res'.iv = chipIV
    BY <1>4
  <2>2. chipIV' \in Nat /\ chipIV' = encryption_IV
    BY <1>1, <1>4
  <2>3. TypeOK'
    BY <1>0, <1>1, <1>4, <2>1, <2>2 DEF IInv, TypeOK
  <2>4. PhaseInv'
    BY <1>1, <1>4, <2>1, <2>2 DEF PhaseInv
  <2> QED
    BY <1>0, <1>1, <1>2, <1>4, <2>2, <2>3, <2>4
       DEF IInv, CmdInv, BufferInv, CountInv, OutputExact, RefusedKeepsNonce, AnswersKeepSession
<1> QED BY <1>3, <1>4 DEF send_encrypted_cmd, Return

\* What the caller gets is what Given says.
LEMMA CopiedGiven ==
  Copied(cmd, res) = Given(cmd, res.curve, res.size)
<1>1. lt_l3_r_mem_data_read_t.id = 65
  BY DEF lt_l3_r_mem_data_read_t, Struct
<1> QED BY <1>1 DEF Copied, Given

\* A result: the data go to the caller, or nothing does.
LEMMA InStep == ASSUME IInv, lt_in PROVE IInv'
<1>0. cmd.legal /\ (cmd.legal \in BOOLEAN)'
  <2>1. cmd.legal /\ cmd.legal \in BOOLEAN /\ cmd' = cmd
    BY DEF lt_in, IInv, TypeOK, CmdInv
  <2> QED BY <2>1, Zenon
<1>1. /\ pc = "in" /\ pc' = "idle" /\ session = "ON" /\ out = 0
      /\ UNCHANGED <<calls, cmd, buff_len, chipIV, iv0, filled, res>>
      /\ encryption_IV \in Nat /\ encryption_IV <= calls /\ chipIV = encryption_IV
      /\ res.iv + 1 = encryption_IV /\ res.iv \in Nat /\ res.curve \in Curves
      /\ calls \in Nat /\ calls <= MaxCalls /\ MaxCalls \in Nat
      /\ decryption_IV \in Nat /\ decryption_IV <= calls
  BY L3Assumption DEF lt_in, Return, IInv, TypeOK, PhaseInv, CountInv
<1>2. GoodCmd(cmd) /\ GoodCmd(cmd)' /\ cmd.room \in Nat
  BY <1>1, Zenon DEF IInv, CmdInv, GoodCmd, SizeGood, CopyGood, Given
<1>3. CASE /\ session' = "OFF" /\ encryption_IV' = 0 /\ decryption_IV' = 0
           /\ ret' = "LT_FAIL" /\ out' = out
  <2>1. TypeOK'
    BY <1>0, <1>1, <1>3 DEF IInv, TypeOK
  <2>2. OutputExact'
    BY <1>1, <1>2, <1>3 DEF OutputExact
  <2> QED
    BY <1>1, <1>2, <1>3, <2>1, <2>2
       DEF IInv, CmdInv, BufferInv, CountInv, PhaseInv, RefusedKeepsNonce, AnswersKeepSession
<1>4. ASSUME res.iv = decryption_IV, decryption_IV' = decryption_IV + 1,
             session' = session, encryption_IV' = encryption_IV,
             out' \in Nat, out' <= cmd.room,
             ret' \in {"LT_L3_FAIL", "LT_FAIL", "LT_L3_R_MEM_DATA_READ_SLOT_EMPTY", "LT_OK"},
             ret' = "LT_OK" => cmd.from + out' = res.size,
             ret' # "LT_OK" => out' = 0
      PROVE  IInv'
  <2>1. decryption_IV' = encryption_IV /\ encryption_IV' = encryption_IV
    BY <1>1, <1>4
  <2>2. TypeOK'
    BY <1>0, <1>1, <1>4, <2>1 DEF IInv, TypeOK
  <2>3. OutputExact'
    BY <1>1, <1>4 DEF OutputExact
  <2>4. AnswersKeepSession'
    BY <1>1, <1>4, <2>1 DEF AnswersKeepSession
  <2> QED
    BY <1>1, <1>2, <1>4, <2>1, <2>2, <2>3, <2>4
       DEF IInv, CmdInv, BufferInv, CountInv, PhaseInv, RefusedKeepsNonce
<1>5. CASE /\ res.iv = decryption_IV /\ decryption_IV' = decryption_IV + 1
           /\ session' = session /\ encryption_IV' = encryption_IV
           /\ ret' \in {"LT_L3_FAIL", "LT_FAIL"} /\ out' = out
  <2>1. 0 <= cmd.room
    BY <1>2
  <2> QED BY <1>1, <1>4, <1>5, <2>1
<1>6. CASE /\ res.iv = decryption_IV /\ decryption_IV' = decryption_IV + 1
           /\ session' = session /\ encryption_IV' = encryption_IV
           /\ res.size \in cmd.sizes[res.curve] /\ out' = Copied(cmd, res)
           /\ ret' = IF out' = 0 /\ cmd.id = lt_l3_r_mem_data_read_t.id
                       THEN "LT_L3_R_MEM_DATA_READ_SLOT_EMPTY" ELSE "LT_OK"
  <2>1. /\ Given(cmd, res.curve, res.size) \in Nat /\ Given(cmd, res.curve, res.size) <= cmd.room
        /\ cmd.from + Given(cmd, res.curve, res.size) = res.size
    BY <1>0, <1>1, <1>2, <1>6 DEF GoodCmd, CopyGood
  <2>2. out' = Given(cmd, res.curve, res.size)
    BY <1>6, CopiedGiven
  <2>3. /\ ret' \in {"LT_L3_R_MEM_DATA_READ_SLOT_EMPTY", "LT_OK"}
        /\ ret' # "LT_OK" => out' = 0
    BY <1>6
  <2> QED BY <1>4, <1>6, <2>1, <2>2, <2>3
<1> QED BY <1>3, <1>5, <1>6 DEF lt_in, Return, nonce_after_result

\* Every step keeps the inductive invariant.
LEMMA NextInv == ASSUME IInv, [Next]_vars PROVE IInv'
<1>1. CASE lt_session_start
  BY <1>1, StartStep
<1>2. CASE \/ lt_ping \/ lt_pairing_key \/ lt_r_config \/ lt_i_config
           \/ lt_r_mem_data \/ lt_random_value_get \/ lt_ecc_key \/ lt_ecc_ecdsa_sign
           \/ lt_ecc_eddsa_sign \/ lt_mcounter \/ lt_mac_and_destroy
  <2>1. PICK c : GoodCmd(c) /\ Called(c)
    BY <1>2, Calls
  <2> QED BY <2>1, CalledStep
<1>3. CASE send_encrypted_cmd
  BY <1>3, SendStep
<1>4. CASE lt_in
  BY <1>4, InStep
<1>5. CASE UNCHANGED vars
  <2>1. GoodCmd(cmd)'
    BY <1>5, Zenon DEF vars, IInv, CmdInv, GoodCmd, SizeGood, CopyGood, Given
  <2>2. TypeOK'
    BY <1>5 DEF vars, IInv, TypeOK
  <2> QED
    BY <1>5, <2>1, <2>2
       DEF vars, IInv, CmdInv, BufferInv, CountInv, PhaseInv, OutputExact, RefusedKeepsNonce,
           AnswersKeepSession
<1> QED BY <1>1, <1>2, <1>3, <1>4, <1>5 DEF Next

\* The inductive invariant holds in every reachable state.
THEOREM Invariance == Spec => []IInv
<1> QED BY InitInv, NextInv, PTL DEF Spec

\* For every length of an authentic result the caller gets all of its data and
\* nothing behind them, within the buffer it gave, and nothing from a call that
\* fails: all of lt_in__*.
THEOREM OutputIsExact == Spec => []OutputExact
<1>1. IInv => OutputExact
  BY DEF IInv
<1> QED BY <1>1, Invariance, PTL

\* What lt_out__* announces to the chip is what it filled in, for every length
\* the API accepts.
THEOREM CommandsCoverFields == Spec => []CommandCoversFields
<1>1. IInv => CommandCoversFields
  <2> SUFFICES ASSUME IInv, pc = "send" PROVE cmd.size = cmd.used
    BY DEF CommandCoversFields
  <2>1. cmd.legal /\ GoodCmd(cmd)
    BY DEF IInv, CmdInv
  <2> QED BY <2>1 DEF GoodCmd, SizeGood
<1> QED BY <1>1, Invariance, PTL

\* A call that libtropic refuses uses up no nonce.
THEOREM RefusalsKeepNonce == Spec => []RefusedKeepsNonce
<1>1. IInv => RefusedKeepsNonce
  BY DEF IInv
<1> QED BY <1>1, Invariance, PTL

\* Every packet the API accepts fits into an L3 buffer of the default size.
THEOREM CommandsInBuffer == Spec => []CommandInBuffer
<1>1. IInv => CommandInBuffer
  <2> SUFFICES ASSUME IInv, buff_len >= L3_PACKET_MAX_SIZE PROVE filled <= buff_len
    BY DEF CommandInBuffer
  <2>1. filled \in Nat /\ buff_len \in Nat /\ filled <= L3_PACKET_MAX_SIZE
    BY DEF IInv, TypeOK, BufferInv
  <2> QED BY <2>1 DEF L3_PACKET_MAX_SIZE
<1> QED BY <1>1, Invariance, PTL

\* After every answer of the chip the session goes on with both directions in
\* step, whatever was refused, lost or restarted before.
THEOREM AnswersKeepSessions == Spec => []AnswersKeepSession
<1>1. IInv => AnswersKeepSession
  BY DEF IInv
<1> QED BY <1>1, Invariance, PTL

\* Type correctness, with every announced cmd_size within its 16 bits.
THEOREM TypeCorrect == Spec => []TypeOK
<1>1. IInv => TypeOK
  BY DEF IInv
<1> QED BY <1>1, Invariance, PTL
=============================================================================
