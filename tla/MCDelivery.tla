----------------------------- MODULE MCDelivery -----------------------------
(***************************************************************************)
(* A mail with two attachments that may come in twice, over two requests.  *)
(***************************************************************************)
EXTENDS Delivery

MCRaw == {"ab"}
MCBlob == {"a", "b"}
MCAddress == {"alice", "bob"}
MCAttachments == [m \in MCRaw |-> <<"a", "b">>]
MCRecipients == [m \in MCRaw |-> {"alice", "bob"}]
MCMessageID == [m \in MCRaw |-> "id"]
=============================================================================
