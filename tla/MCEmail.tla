------------------------------- MODULE MCEmail ------------------------------
(***************************************************************************)
(* A mail that may come in twice.                                          *)
(***************************************************************************)
EXTENDS Email

MCMessageID == [m \in Raw |-> m]
=============================================================================
