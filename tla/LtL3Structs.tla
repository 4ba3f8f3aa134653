---------------------------- MODULE LtL3Structs ----------------------------
(***************************************************************************)
(* The layouts of the L3 commands and results: for every command its       *)
(* identifier, the command and result length the header announces          *)
(* (CMD_SIZE, RES_SIZE; the _MIN of commands of variable length), and of   *)
(* both packed structures the bytes in front of the payload (identifier or *)
(* result code, parameters, padding) and the room of the payload.  Size    *)
(* field and tag are the same for all of them and left out.                *)
(***************************************************************************)
EXTENDS Naturals

\* A variant for mutation: the size the comment on MAX_LOOPS gives.
packet_as_commented == 2 + 4096 + 16

\* RES_SIZE, CMD_ID, 4111 bytes of data, padding of EDDSA_Sign, TAG.
L3_PACKET_MAX_SIZE == 2 + (1 + 4111) + 13 + 16

Struct(id, CMD_SIZE, cmd_head, cmd_data, RES_SIZE, res_head, res_data) ==
  [id |-> id, CMD_SIZE |-> CMD_SIZE, cmd_head |-> cmd_head, cmd_data |-> cmd_data,
   RES_SIZE |-> RES_SIZE, res_head |-> res_head, res_data |-> res_data]

\* cmd_id | data_in;  result | data_out
lt_l3_ping_t == Struct(1, 1, 1, 4096, 1, 1, 4096)

\* cmd_id, slot, padding | s_hipub;  result
lt_l3_pairing_key_write_t == Struct(16, 36, 1 + 2 + 1, 32, 1, 1, 0)
\* cmd_id | slot;  result, padding | s_hipub
lt_l3_pairing_key_read_t == Struct(17, 3, 1, 2, 36, 1 + 3, 32)
lt_l3_pairing_key_invalidate_t == Struct(18, 3, 1, 2, 1, 1, 0)

\* cmd_id, address, padding | value;  result
lt_l3_r_config_write_t == Struct(32, 8, 1 + 2 + 1, 4, 1, 1, 0)
\* cmd_id | address;  result, padding | value
lt_l3_r_config_read_t == Struct(33, 3, 1, 2, 8, 1 + 3, 4)
lt_l3_r_config_erase_t == Struct(34, 1, 1, 0, 1, 1, 0)
\* cmd_id, address | bit_index;  result
lt_l3_i_config_write_t == Struct(48, 4, 1 + 2, 1, 1, 1, 0)
lt_l3_i_config_read_t == Struct(49, 3, 1, 2, 8, 1 + 3, 4)

\* cmd_id, udata_slot, padding | data;  result
lt_l3_r_mem_data_write_t == Struct(64, 5, 1 + 2 + 1, 444, 1, 1, 0)
\* cmd_id | udata_slot;  result, padding | data.  RES_SIZE_MAX is 448.
lt_l3_r_mem_data_read_t == Struct(65, 3, 1, 2, 4, 1 + 3, 444)
LT_L3_R_MEM_DATA_READ_RES_SIZE_MAX == 448
lt_l3_r_mem_data_erase_t == Struct(66, 3, 1, 2, 1, 1, 0)

\* cmd_id | n_bytes;  result, padding | random_data
lt_l3_random_value_get_t == Struct(80, 2, 1, 1, 4, 1 + 3, 255)

\* cmd_id, slot | curve;  result
lt_l3_ecc_key_generate_t == Struct(96, 4, 1 + 2, 1, 1, 1, 0)
\* cmd_id, slot, curve, padding | k;  result
lt_l3_ecc_key_store_t == Struct(97, 48, 1 + 2 + 1 + 12, 32, 1, 1, 0)
\* cmd_id | slot;  result, curve, origin, padding | pub_key
lt_l3_ecc_key_read_t == Struct(98, 3, 1, 2, 48, 1 + 1 + 1 + 13, 64)
lt_l3_ecc_key_erase_t == Struct(99, 3, 1, 2, 1, 1, 0)

\* cmd_id, slot, padding | msg_hash or msg;  result, padding | r, s
lt_l3_ecdsa_sign_t == Struct(112, 48, 1 + 2 + 13, 32, 80, 1 + 15, 32 + 32)
lt_l3_eddsa_sign_t == Struct(113, 17, 1 + 2 + 13, 4096, 80, 1 + 15, 32 + 32)

\* cmd_id, mcounter_index, padding | mcounter_val;  result
lt_l3_mcounter_init_t == Struct(128, 8, 1 + 2 + 1, 4, 1, 1, 0)
lt_l3_mcounter_update_t == Struct(129, 3, 1, 2, 1, 1, 0)
\* cmd_id | mcounter_index;  result, padding | mcounter_val
lt_l3_mcounter_get_t == Struct(130, 3, 1, 2, 8, 1 + 3, 4)

\* cmd_id, slot, padding | data_in;  result, padding | data_out
lt_l3_mac_and_destroy_t == Struct(144, 36, 1 + 2 + 1, 32, 36, 1 + 3, 32)
=============================================================================
