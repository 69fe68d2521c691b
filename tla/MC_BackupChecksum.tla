------------------------- MODULE MC_BackupChecksum -------------------------
(***************************************************************************)
(* A test with two backups: one may be created while the other's thread    *)
(* still runs, with writes before and between them.                        *)
(***************************************************************************)
EXTENDS BackupChecksum

CONSTANTS b0, b1

MCBackups == {b0, b1}
=============================================================================
