------------------------------ MODULE MCNotify ------------------------------
(***************************************************************************)
(* Three mails over two invocations: two with one Message-ID, as sent to *)
(* two recipients, and one without any.                                    *)
(***************************************************************************)
EXTENDS Notify, TLC

MCRaw == {"toAlice", "toBob", "anonymous"}
MCMessageID == [m \in MCRaw |-> IF m = "anonymous" THEN "none" ELSE "id"]
Symmetry == Permutations(Invocation)
=============================================================================
