--------------------------- MODULE MCKissReceive ---------------------------
(* Three waits, which may nest and overlap in every order, and three frames. *)
EXTENDS KissReceive
=============================================================================
