------------------------------ MODULE MCSignIn ------------------------------
(* Small instances of SignIn. Users, codes and handlers are interchangeable. *)
EXTENDS SignIn, TLC

Symmetry == Permutations(Users) \cup Permutations(Codes) \cup Permutations(Handlers)
=============================================================================
