------------------------------ MODULE MCIngest ------------------------------
(***************************************************************************)
(* Two requests and five mails: "ab" and "ba" carry the same two           *)
(* attachments in opposite orders, "broken" cannot be parsed, "long" has a *)
(* header that no column holds, and "huge" is refused for its size.        *)
(***************************************************************************)
EXTENDS Ingest, TLC

MCRaw == {"ab", "ba", "broken", "long", "huge"}
MCBlob == {"a", "b"}
MCAddress == {"alice", "bob"}
MCAttachments ==
    [m \in MCRaw |-> CASE m = "ab" -> <<"a", "b">> [] m = "ba" -> <<"b", "a">> [] OTHER -> <<>>]
MCRecipients ==
    [m \in MCRaw |-> IF m = "ab" THEN {"alice", "bob"} ELSE {"bob"}]
MCMalformed == {"broken"}
MCOversize == {"huge"}
MCOverlong == {"long"}
Symmetry == Permutations(Request)
=============================================================================
