------------------------------ MODULE MCSession ------------------------------
(* A small instance of Session: the hub and two more views. *)
EXTENDS Session

MCViews == {"/home", "/expenses", "/recurring"}
=============================================================================
