----------------------------- MODULE MCWorkspace ----------------------------
(* A small instance of Workspace: an expense, a recurring expense, the settings. *)
EXTENDS Workspace

MCKindOf == [i \in Ids |-> CASE i = "e" -> "expense" [] i = "r" -> "recurring"
                             [] i = "s" -> "settings"]
=============================================================================
