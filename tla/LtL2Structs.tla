---------------------------- MODULE LtL2Structs ----------------------------
(***************************************************************************)
(* The layouts of the L2 requests and responses: identifier, the request   *)
(* length the header announces (REQ_LEN, or REQ_LEN_MIN where data follow),*)
(* the bytes of the parameters and the room for data behind the length     *)
(* byte of the request; the response length that is announced and the room *)
(* behind the length byte of the response.                                 *)
(***************************************************************************)
EXTENDS Naturals

L2Struct(id, REQ_LEN, head, data, RSP_LEN, rsp_room) ==
  [id |-> id, REQ_LEN |-> REQ_LEN, head |-> head, data |-> data,
   RSP_LEN |-> RSP_LEN, rsp_room |-> rsp_room]

\* object_id, block_index;  object
lt_l2_get_info_t == L2Struct(1, 2, 1 + 1, 0, 1, 128)
\* e_hpub, pkey_index;  e_tpub, t_tauth
lt_l2_handshake_t == L2Struct(2, 33, 32 + 1, 0, 48, 32 + 16)
lt_l2_encrypted_session_abt_t == L2Struct(8, 0, 0, 0, 0, 0)
\* sleep_kind
lt_l2_sleep_t == L2Struct(32, 1, 1, 0, 0, 0)
\* startup_id
lt_l2_startup_t == L2Struct(179, 1, 1, 0, 0, 0)
\* Silicon revision ABAB.  bank_id, offset | data
lt_l2_mutable_fw_update_abab_t == L2Struct(177, 3, 1 + 2, 248, 0, 0)
\* Silicon revision ACAB.  signature, hash, type, padding, header_version, version
lt_l2_mutable_fw_update_acab_t == L2Struct(176, 104, 64 + 32 + 2 + 1 + 1 + 4, 0, 0, 0)
\* hash, offset | data; the length byte comes from the update file.
lt_l2_mutable_fw_update_data_t == L2Struct(177, 32 + 2, 32 + 2, 220, 0, 0)
\* bank_id
lt_l2_mutable_fw_erase_t == L2Struct(178, 1, 1, 0, 0, 0)
\* log_msg
lt_l2_get_log_t == L2Struct(162, 0, 0, 0, 0, 255)
=============================================================================
