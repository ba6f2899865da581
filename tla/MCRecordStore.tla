--------------------------- MODULE MCRecordStore ---------------------------
(* Small instances of RecordStore.  Id "a" is one that ann's browser drew, *)
(* and "settings" the fixed id every browser saves its settings under.     *)
EXTENDS RecordStore

MCUsers == {"ann", "bob"}
MCSessions == {"ann1", "ann2", "bob1"}
OneEach == {"ann1", "bob1"}
MCUserOf(s) == IF s = "bob1" THEN "bob" ELSE "ann"

MCIds == {"a", "settings"}
FixedIds == {"settings"}
MCMayUse(u, i) == i = "a" => u = "ann"
=============================================================================
