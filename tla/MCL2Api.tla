------------------------------ MODULE MCL2Api ------------------------------
(***************************************************************************)
(* LtL2Api with short update files, their chunks as long as those of the   *)
(* files in TROPIC01_fw_update_files.                                      *)
(***************************************************************************)
EXTENDS LtL2Api

FileChunks == {<<74>>, <<250, 46>>, <<250, 250, 46>>}
=============================================================================
