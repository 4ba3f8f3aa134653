------------------------------- MODULE LtL3 -------------------------------
(***************************************************************************)
(* The L3 commands of the API with their parameters and lengths: what      *)
(* lt_ping ... lt_mac_and_destroy refuse, what lt_out__* puts into the L3  *)
(* buffer, which results lt_in__* takes and how many bytes the caller gets.*)
(* The session is reduced to its nonces (LtSession has the rest): results  *)
(* are authentic, but of any length the chip's firmware may choose.        *)
(***************************************************************************)
EXTENDS Integers, LtL3Structs

CONSTANTS
  MaxCalls,             \* bound: API calls
  Args,                 \* slots, indexes and addresses
  Lens,                 \* lengths and values
  ResSizes,             \* res_size of the results
  ConfAddrs,            \* the addresses conf_addr_valid() knows
  MCOUNTER_VALUE_MAX,   \* 0xfffffffe
  BuffSizes             \* values of the option LT_SIZE_OF_L3_BUFF, 0: not defined

ASSUME L3Assumption ==
  /\ MaxCalls \in Nat /\ Args \subseteq Nat /\ Lens \subseteq Nat
  /\ \A n \in ResSizes : n \in Nat \ {0} /\ n < 65536
  /\ ConfAddrs \subseteq Args
  /\ MCOUNTER_VALUE_MAX \in Nat /\ BuffSizes \subseteq Nat

VARIABLES
  pc, ret, calls,
  cmd,             \* the command of the call in progress or of the last one
  session,         \* h->l3.session
  buff_len,        \* h->l3.buff_len
  encryption_IV, decryption_IV, chipIV,
  iv0,             \* encryption_IV at the time of the call
  filled,          \* bytes of h->l3.buff written by lt_out__*
  res,             \* result packet in h->l3.buff
  out              \* bytes given to the caller

vars == <<pc, ret, calls, cmd, session, buff_len, encryption_IV, decryption_IV,
          chipIV, iv0, filled, res, out>>

LT_SIZE_OF_L3_BUFF(b) == IF b = 0 THEN L3_PACKET_MAX_SIZE ELSE b

Curves == {"P256", "ED25519", "unknown"}

(***************************************************************************)
(* lt_out__* and lt_in__*.  id: the command; legal: parameter check of     *)
(* lt_out__*; size: the cmd_size it announces; used: the bytes it fills,   *)
(* padding included; sizes: the results lt_in__* takes, for each curve     *)
(* named in the result; from: offset of the data in the result; copy:      *)
(* bytes of it that are copied; room: length of the caller's buffer.       *)
(***************************************************************************)
L3(t, legal, n) ==
  [id |-> t.id, legal |-> legal, size |-> t.CMD_SIZE, used |-> t.cmd_head + t.cmd_data,
   sizes |-> [c \in Curves |-> {t.RES_SIZE}],
   from |-> t.res_head, copy |-> [c \in Curves |-> n], room |-> n]

\* A command whose result is a result code only.
Plain(t, legal) == L3(t, legal, 0)

l3_ping(len) ==
  LET t == lt_l3_ping_t
  IN [L3(t, len <= 4096, len) EXCEPT !.size = len + t.CMD_SIZE, !.used = t.cmd_head + len,
        !.sizes = [c \in Curves |-> {t.CMD_SIZE + len}]]

l3_pairing_key_write(slot) == Plain(lt_l3_pairing_key_write_t, slot <= 3)
l3_pairing_key_read(slot) == L3(lt_l3_pairing_key_read_t, slot <= 3, 32)
l3_pairing_key_invalidate(slot) == Plain(lt_l3_pairing_key_invalidate_t, slot <= 3)

conf_addr_valid(addr) == addr \in ConfAddrs

l3_r_config_write(addr) == Plain(lt_l3_r_config_write_t, conf_addr_valid(addr))
l3_r_config_erase(legal) == Plain(lt_l3_r_config_erase_t, legal)
l3_r_config_read(addr) == L3(lt_l3_r_config_read_t, conf_addr_valid(addr), 4)
l3_i_config_write(addr, bit) ==
  Plain(lt_l3_i_config_write_t, conf_addr_valid(addr) /\ bit <= 31)
l3_i_config_read(addr) == L3(lt_l3_i_config_read_t, conf_addr_valid(addr), 4)

\* A variant for mutation: the minimum length, which counts one byte of data,
\* instead of the four bytes in front of the data.
r_mem_data_write_size_min(slot, size) ==
  LET t == lt_l3_r_mem_data_write_t
  IN [Plain(t, slot <= 511 /\ size \in 1..444)
        EXCEPT !.size = size + t.CMD_SIZE, !.used = t.cmd_head + size]

l3_r_mem_data_write(slot, size) ==
  LET t == lt_l3_r_mem_data_write_t
  IN [Plain(t, slot <= 511 /\ size \in 1..444)
        EXCEPT !.size = size + 4, !.used = t.cmd_head + size]

\* A variant for mutation: the size of the result is not tested.
r_mem_data_read_unchecked(slot) ==
  [L3(lt_l3_r_mem_data_read_t, slot <= 511, 444)
     EXCEPT !.sizes = [c \in Curves |-> 1..65535]]

l3_r_mem_data_read(slot) ==
  LET t == lt_l3_r_mem_data_read_t
  IN [L3(t, slot <= 511, 444) EXCEPT
        !.sizes = [c \in Curves |-> t.RES_SIZE..LT_L3_R_MEM_DATA_READ_RES_SIZE_MAX]]

l3_r_mem_data_erase(slot) == Plain(lt_l3_r_mem_data_erase_t, slot <= 511)

l3_random_value_get(len) ==
  LET t == lt_l3_random_value_get_t
  IN [L3(t, len <= 255, len) EXCEPT !.sizes = [c \in Curves |-> {t.RES_SIZE + len}]]

l3_ecc_key_generate(slot, curve) ==
  Plain(lt_l3_ecc_key_generate_t, slot <= 31 /\ curve # "unknown")
l3_ecc_key_store(slot, curve) ==
  Plain(lt_l3_ecc_key_store_t, slot <= 31 /\ curve # "unknown")
l3_ecc_key_read(slot) ==
  [L3(lt_l3_ecc_key_read_t, slot <= 31, 64) EXCEPT
     !.sizes = [P256 |-> {64 + 16}, ED25519 |-> {32 + 16}, unknown |-> {}],
     !.copy = [P256 |-> 64, ED25519 |-> 32, unknown |-> 0]]
l3_ecc_key_erase(slot) == Plain(lt_l3_ecc_key_erase_t, slot <= 31)

l3_ecc_ecdsa_sign(slot) == L3(lt_l3_ecdsa_sign_t, slot <= 31, 64)
l3_ecc_eddsa_sign(slot, len) ==
  LET t == lt_l3_eddsa_sign_t
  IN [L3(t, slot <= 31 /\ len <= 4096, 64)
        EXCEPT !.size = t.CMD_SIZE + len - 1, !.used = t.cmd_head + len]

l3_mcounter_init(index) == Plain(lt_l3_mcounter_init_t, index <= 15)
l3_mcounter_update(index) == Plain(lt_l3_mcounter_update_t, index <= 15)
l3_mcounter_get(index) == L3(lt_l3_mcounter_get_t, index <= 15, 4)

l3_mac_and_destroy(slot) == L3(lt_l3_mac_and_destroy_t, slot <= 127, 32)

\* The bytes lt_in__* copies out of the result r: a number written in the code,
\* or for lt_r_mem_data_read computed from the length of the result.
Copied(c, r) ==
  IF c.id = lt_l3_r_mem_data_read_t.id THEN r.size - c.from ELSE c.copy[r.curve]

(***************************************************************************)
(* The API.                                                                *)
(***************************************************************************)
NoRes == [code |-> "none", size |-> 0, curve |-> "unknown", iv |-> 0]

Init ==
  /\ pc = "idle" /\ ret = "none" /\ calls = 0 /\ cmd = l3_r_config_erase(TRUE)
  /\ session = "OFF" /\ buff_len \in {LT_SIZE_OF_L3_BUFF(b) : b \in BuffSizes}
  /\ encryption_IV = 0 /\ decryption_IV = 0 /\ chipIV = 0
  /\ iv0 = 0 /\ filled = 0 /\ res = NoRes /\ out = 0

Return(r) == pc' = "idle" /\ ret' = r

\* A new session: the nonces start from zero on both sides.
lt_session_start ==
  /\ pc = "idle" /\ calls < MaxCalls
  /\ calls' = calls + 1
  /\ session' = "ON" /\ encryption_IV' = 0 /\ decryption_IV' = 0 /\ chipIV' = 0
  /\ iv0' = 0 /\ out' = 0 /\ Return("none")
  /\ UNCHANGED <<cmd, buff_len, filled, res>>

\* A variant for mutation: the nonce is taken before lt_out__* looks at its
\* parameters.
nonce_before_check(api, c) ==
  /\ pc = "idle" /\ calls < MaxCalls
  /\ calls' = calls + 1 /\ cmd' = c /\ out' = 0 /\ iv0' = encryption_IV
  /\ \/ /\ ~api \/ session # "ON"
        /\ Return("LT_PARAM_ERR") /\ UNCHANGED <<encryption_IV, filled>>
     \/ /\ api /\ session = "ON"
        /\ encryption_IV' = encryption_IV + 1
        /\ IF c.legal THEN filled' = 2 + c.size + 16 /\ pc' = "send" /\ UNCHANGED ret
           ELSE Return("LT_PARAM_ERR") /\ UNCHANGED filled
  /\ UNCHANGED <<session, buff_len, decryption_IV, chipIV, res>>

\* The shape of all the API functions: their own parameter check, the session,
\* then lt_out__*, which checks again, fills the buffer and encrypts.
Command(api, c) ==
  /\ pc = "idle" /\ calls < MaxCalls
  /\ calls' = calls + 1 /\ cmd' = c /\ out' = 0 /\ iv0' = encryption_IV
  /\ \/ ~api /\ Return("LT_PARAM_ERR") /\ UNCHANGED <<encryption_IV, filled>>
     \/ /\ api /\ session # "ON"
        /\ Return("LT_HOST_NO_SESSION") /\ UNCHANGED <<encryption_IV, filled>>
     \/ /\ api /\ session = "ON" /\ ~c.legal
        /\ Return("LT_PARAM_ERR") /\ UNCHANGED <<encryption_IV, filled>>
     \/ /\ api /\ session = "ON" /\ c.legal
        /\ filled' = 2 + c.size + 16
        /\ encryption_IV' = encryption_IV + 1
        /\ pc' = "send" /\ UNCHANGED ret
  /\ UNCHANGED <<session, buff_len, decryption_IV, chipIV, res>>

lt_ping == \E n \in Lens : Command(n <= 4096, l3_ping(n))

lt_pairing_key == \E s \in Args :
  \/ Command(s <= 3, l3_pairing_key_write(s))
  \/ Command(s <= 3, l3_pairing_key_read(s))
  \/ Command(s <= 3, l3_pairing_key_invalidate(s))

lt_r_config ==
  \/ \E a \in Args : \/ Command(TRUE, l3_r_config_write(a))
                     \/ Command(TRUE, l3_r_config_read(a))
  \/ Command(TRUE, l3_r_config_erase(TRUE))

lt_i_config == \E a \in Args :
  \/ \E b \in Lens : Command(b <= 31, l3_i_config_write(a, b))
  \/ Command(TRUE, l3_i_config_read(a))

lt_r_mem_data == \E s \in Args :
  \/ \E n \in Lens : Command(n \in 1..444 /\ s <= 511, l3_r_mem_data_write(s, n))
  \/ Command(s <= 511, l3_r_mem_data_read(s))
  \/ Command(s <= 511, l3_r_mem_data_erase(s))

lt_random_value_get == \E n \in Lens : Command(n <= 255, l3_random_value_get(n))

lt_ecc_key == \E s \in Args :
  \/ \E c \in Curves : \/ Command(s <= 31 /\ c # "unknown", l3_ecc_key_generate(s, c))
                       \/ Command(s <= 31 /\ c # "unknown", l3_ecc_key_store(s, c))
  \/ Command(s <= 31, l3_ecc_key_read(s))
  \/ Command(s <= 31, l3_ecc_key_erase(s))

lt_ecc_ecdsa_sign == \E s \in Args : Command(s <= 31, l3_ecc_ecdsa_sign(s))

lt_ecc_eddsa_sign == \E s \in Args, n \in Lens :
  Command(n <= 4096 /\ s <= 31, l3_ecc_eddsa_sign(s, n))

lt_mcounter == \E x \in Args :
  \/ \E v \in Lens : Command(x <= 15 /\ v <= MCOUNTER_VALUE_MAX, l3_mcounter_init(x))
  \/ Command(x <= 15, l3_mcounter_update(x))
  \/ Command(x <= 15, l3_mcounter_get(x))

lt_mac_and_destroy == \E s \in Args : Command(s <= 127, l3_mac_and_destroy(s))

\* The packet goes to the chip, which executes it if its nonce is the next one.
send_encrypted_cmd ==
  /\ pc = "send"
  /\ \/ /\ filled > buff_len
        /\ Return("LT_L3_DATA_LEN_ERROR") /\ UNCHANGED <<chipIV, res>>
     \/ Return("LT_FAIL") /\ UNCHANGED <<chipIV, res>>
     \/ /\ filled <= buff_len /\ chipIV = encryption_IV - 1
        /\ chipIV' = chipIV + 1
        /\ \/ \E r \in [code : {"OK", "ERR"}, size : ResSizes, curve : Curves,
                        iv : {chipIV}] :
                (r.code = "ERR" => r.size = 1) /\ res' = r /\ pc' = "in" /\ UNCHANGED ret
           \/ Return("LT_FAIL") /\ UNCHANGED res       \* the result is lost
  /\ UNCHANGED <<calls, cmd, session, buff_len, encryption_IV, decryption_IV, iv0,
                 filled, out>>

\* A variant for mutation: error results leave the nonce alone.
nonce_if_ok == IF res.code = "OK" THEN decryption_IV + 1 ELSE decryption_IV

\* lt_l3_decrypt_response() advances the nonce before it looks at the result code.
nonce_after_result == decryption_IV + 1

\* lt_in__*: the curve and the origin of lt_ecc_key_read are written before the
\* length is tested; the data only after it.
lt_in ==
  /\ pc = "in"
  /\ \/ /\ res.iv # decryption_IV                       \* tag mismatch
        /\ session' = "OFF" /\ encryption_IV' = 0 /\ decryption_IV' = 0
        /\ Return("LT_FAIL") /\ UNCHANGED out
     \/ /\ res.iv = decryption_IV
        /\ decryption_IV' = nonce_after_result
        /\ \/ res.code # "OK" /\ Return("LT_L3_FAIL") /\ UNCHANGED out
           \/ /\ res.code = "OK" /\ res.size \notin cmd.sizes[res.curve]
              /\ Return("LT_FAIL") /\ UNCHANGED out
           \/ /\ res.code = "OK" /\ res.size \in cmd.sizes[res.curve]
              /\ out' = Copied(cmd, res)
              /\ Return(IF out' = 0 /\ cmd.id = lt_l3_r_mem_data_read_t.id
                          THEN "LT_L3_R_MEM_DATA_READ_SLOT_EMPTY" ELSE "LT_OK")
        /\ UNCHANGED <<session, encryption_IV>>
  /\ UNCHANGED <<calls, cmd, buff_len, chipIV, iv0, filled, res>>

Next ==
  \/ lt_session_start \/ lt_ping \/ lt_pairing_key \/ lt_r_config \/ lt_i_config
  \/ lt_r_mem_data \/ lt_random_value_get \/ lt_ecc_key \/ lt_ecc_ecdsa_sign
  \/ lt_ecc_eddsa_sign \/ lt_mcounter \/ lt_mac_and_destroy
  \/ send_encrypted_cmd \/ lt_in

Spec == Init /\ [][Next]_vars

(***************************************************************************)
(* Properties.                                                             *)
(***************************************************************************)
\* Every variable has its type; cmd_size fits into its 16 bits.
TypeOK ==
  /\ pc \in {"idle", "send", "in"}
  /\ ret \in {"none", "LT_OK", "LT_FAIL", "LT_PARAM_ERR", "LT_HOST_NO_SESSION",
              "LT_L3_FAIL", "LT_L3_DATA_LEN_ERROR", "LT_L3_R_MEM_DATA_READ_SLOT_EMPTY"}
  /\ calls \in 0..MaxCalls /\ session \in {"ON", "OFF"} /\ buff_len \in Nat
  /\ encryption_IV \in 0..MaxCalls /\ decryption_IV \in 0..MaxCalls
  /\ chipIV \in 0..MaxCalls /\ iv0 \in 0..MaxCalls
  /\ cmd.legal \in BOOLEAN /\ (pc = "send" => cmd.size \in Nat /\ cmd.size < 65536)
  /\ filled \in Nat /\ res.size \in ResSizes \union {0} /\ out \in Nat

\* For every length of an authentic result: the bytes the caller gets end where
\* the result ends, so it gets all of the data and nothing behind it, they fit
\* into the caller's buffer, and a call that fails gives no data at all.
OutputExact ==
  pc = "idle" =>
    /\ out <= cmd.room
    /\ ret = "LT_OK" => cmd.from + out = res.size
    /\ ret # "LT_OK" => out = 0

\* The length that lt_out__* announces to the chip is the length of what it
\* filled in: no field is cut off, and no byte that an earlier packet left in
\* the buffer is sent behind the last field.
CommandCoversFields == pc = "send" => cmd.size = cmd.used

\* A call that libtropic refuses for its parameters does not use up a nonce, so
\* the next call finds host and chip in step.
RefusedKeepsNonce ==
  pc = "idle" /\ ret \in {"LT_PARAM_ERR", "LT_HOST_NO_SESSION"} => encryption_IV = iv0

\* Whatever the API accepts fits into an L3 buffer of the default size, with
\* size field and tag.
CommandInBuffer == buff_len >= L3_PACKET_MAX_SIZE => filled <= buff_len

\* After every answer of the chip, good or bad, the session goes on with both
\* directions in step, whatever was refused, lost or restarted before.
AnswersKeepSession ==
  pc = "idle" /\ ret \in {"LT_OK", "LT_L3_FAIL"} =>
    session = "ON" /\ encryption_IV = decryption_IV /\ chipIV = encryption_IV
=============================================================================
