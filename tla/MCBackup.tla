------------------------------ MODULE MCBackup ------------------------------
(* Small instances of Backup: two records that may be restored, or one and the settings. *)
EXTENDS Backup, TLC

MCKindOf(i) == CASE i = "e" -> "expense" [] i = "r" -> "recurring" [] i = "s" -> "settings"

Symmetry == Permutations(Passphrases)
=============================================================================
