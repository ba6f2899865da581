---------------------------- MODULE MCVaultKeys ----------------------------
(* Small instances of VaultKeys: record "e" is an expense, "s" a setting. *)
EXTENDS VaultKeys, TLC

MCIds == {"e", "s"}
MCKinds == {"expense", "settings"}
MCKindOf(i) == IF i = "e" THEN "expense" ELSE "settings"

Symmetry == Permutations(Clients) \cup Permutations(Passphrases)
=============================================================================
