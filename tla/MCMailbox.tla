----------------------------- MODULE MCMailbox -----------------------------
(***************************************************************************)
(* Three mails: one to alice and bob with an attachment, one to bob, and   *)
(* one to alice that cannot be parsed.  The apostrophe stands for an       *)
(* accent.  With an int that ends at 7, page 5 of 2 has a negative offset, *)
(* and page 5 of 7, capped at 4, wraps around to the first.                *)
(***************************************************************************)
EXTENDS Mailbox, TLC

MCCanonical == ("Alice" :> "alice") @@ ("ALIC'E" :> "alic'e") @@ ("bob" :> "bob") @@ (" " :> "")
MCWeight    == ("alice" :> "alice") @@ ("alic'e" :> "alice") @@ ("bob" :> "bob") @@ ("" :> "")
MCSpelling  == DOMAIN MCCanonical
MCHeader == <<{"ALIC'E", "bob", " "}, {"bob"}, {"Alice"}>>
MCFiles  == <<<<"f">>, <<>>, <<>>>>
MCMatching == [q \in {"", "x"} |-> {1, 3}]
MCCredential ==
    {[psk |-> "admin", name |-> " "], [psk |-> "normal", name |-> "Alice"],
     [psk |-> "normal", name |-> " "], [psk |-> "other", name |-> "bob"]}

List(p, s, q) == [route |-> "list", id |-> 0, idx |-> 0, page |-> p, size |-> s, q |-> q]
Fetch(route, m, i) == [route |-> route, id |-> m, idx |-> i, page |-> 0, size |-> 0, q |-> ""]
MCJob ==
    {List(1, 1, ""), List(2, 1, ""), List(0, 0, "x"), List(5, 2, ""), List(5, 7, ""),
     Fetch("message", 1, 0), Fetch("raw", 2, 0), Fetch("raw", 0, 0),
     Fetch("attachment", 1, 0), Fetch("attachment", 1, 1)}
Symmetry == Permutations(Token)
=============================================================================
