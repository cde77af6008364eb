----------------------------- MODULE MCBrowser ------------------------------
(***************************************************************************)
(* Two pages of mails, one page of results for the query "q".              *)
(***************************************************************************)
EXTENDS Browser

MCQuery == {"", "q"}
MCPages == [query \in MCQuery |-> IF query = "" THEN 2 ELSE 1]
=============================================================================
