------------------------------- MODULE Archive ------------------------------
(***************************************************************************)
(* The mailbox as its readers know it: a mail appears in the tables with   *)
(* everything that belongs to it, under an id that no mail had before, and *)
(* stays as it is.  It is what internal/ingest promises and internal/api   *)
(* relies on, for neither of them reads what the other keeps besides.      *)
(***************************************************************************)
EXTENDS Naturals, Sequences

CONSTANT Parsed      \* what the parser can yield: emails and files of a mail

VARIABLES
    ids,             \* messages.id of the rows in table messages
    recipients,      \* table message_recipients
    attachments      \* table attachments

vars == <<ids, recipients, attachments>>

Init == ids = {} /\ recipients = {} /\ attachments = {}

\* persist, as it is seen from outside its transaction.
Add(id, mail) ==
    /\ id \notin ids
    /\ ids' = ids \cup {id}
    /\ recipients' = recipients \cup {[message |-> id, email |-> e] : e \in mail.emails}
    /\ attachments' = attachments \cup
         {[message |-> id, pos |-> i, key |-> mail.files[i]] : i \in 1..Len(mail.files)}

Next == \E mail \in Parsed : \E id \in ids' \ ids : Add(id, mail)

Spec == Init /\ [][Next]_vars
=============================================================================
