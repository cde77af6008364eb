------------------------------ MODULE Delivery ------------------------------
(***************************************************************************)
(* A mail's way from the Worker into the tables: email() of                *)
(* worker/src/index.ts, as in Email, with the Go handler of Ingest at the  *)
(* other end of the connection, in place of the contract that Email knows  *)
(* of it.  A POST of the Worker is a call of ServeHTTP; everything else is *)
(* a step of one side alone.                                               *)
(***************************************************************************)
EXTENDS Ingest

CONSTANTS
    Invocation, Configured,                                        \* IngestClient
    NoID, MessageID, Chats, TelegramOn, TTL, MaxTime, MaxTrouble   \* Notify

VARIABLES
    mail, ipc, slot,                                          \* IngestClient
    npc, chat, anyOk, preview, marker, clock, told, trouble,  \* Notify
    outcome                                                   \* Email

telegram == <<npc, chat, anyOk, preview, marker, clock, told, trouble>>
worker   == <<mail, ipc, slot, telegram, outcome>>
system   == <<vars, worker>>

\* The Worker sees of the handler what a client can tell (Stored, Stage).
Worker == INSTANCE Email WITH stored <- Stored, job <- msg, stage <- Stage

DeliveryInit ==
    /\ Init
    /\ mail \in [Invocation -> Raw]
    /\ ipc = [i \in Invocation |-> "new"]
    /\ slot \in [Invocation -> Request]
    /\ Worker!N!Init
    /\ outcome = [i \in Invocation |-> "none"]

\* fetch() reaches the handler, which admits the mail or turns it away.
Post(i, r, status) ==
    /\ ipc[i] \in {"send1", "send2"}
    /\ \A j \in Invocation : ipc[j] \in {"wait1", "wait2"} => slot[j] # r
    /\ ServeHTTP(r, mail[i], status)
    /\ slot' = [slot EXCEPT ![i] = r]
    /\ ipc' = [ipc EXCEPT ![i] = IF ipc[i] = "send1" THEN "wait1" ELSE "wait2"]
    /\ UNCHANGED <<mail, telegram, outcome>>

\* The handler goes on, fails or dies, whoever waits for it.
GoAlone ==
    /\ \/ Crash
       \/ \E r \in Request : Step(r) \/ CommitLost(r) \/ Fail(r)
    /\ UNCHANGED worker

\* deliverToGo without a POST that arrives.
ClientAlone(i) ==
    /\ Worker!I!PostFails(i) \/ Worker!I!Receive(i) \/ Worker!I!Abort(i)
    /\ UNCHANGED <<telegram, outcome>>

WorkerAlone ==
    /\ UNCHANGED vars
    /\ \/ Worker!Tick
       \/ \E i \in Invocation :
            \/ Worker!Receive(i) \/ Worker!Unreadable(i) \/ Worker!Join(i) \/ Worker!Evict(i)
            \/ ClientAlone(i) \/ Worker!NotifyStep(i) \/ Worker!TelegramStep(i)

DeliveryNext ==
    \/ GoAlone
    \/ WorkerAlone
    \/ \E i \in Invocation, r \in Request : \E status \in Admission(mail[i]) : Post(i, r, status)

DeliverySpec == DeliveryInit /\ [][DeliveryNext]_system

-----------------------------------------------------------------------------
\* A mail that email() returns from without a bounce is in the mailbox: it has
\* one row, with every recipient and every attachment that the parser found,
\* and each attachment has its file.  No retry, time-out, eviction, failing
\* call or death of the server, on either side, makes an exception.
DeliveredWhole ==
    \A i \in Invocation : outcome[i] = "delivered" =>
        \E x \in messages :
            /\ x.hash = mail[i]
            /\ \A y \in messages : y.hash = mail[i] => y = x
            /\ {row.email : row \in {rr \in recipients : rr.message = x.id}} = SentTo(mail[i])
            /\ {<<row.pos, row.key>> : row \in {aa \in attachments : aa.message = x.id}}
                 = {<<k, Keys(mail[i])[k]>> : k \in 1..Len(Keys(mail[i]))}
            /\ \A k \in 1..Len(Keys(mail[i])) : <<x.id, Keys(mail[i])[k]>> \in blobs

\* The Worker over the real handler behaves as the Worker over the contract.
WorkerSpec == Worker!SafetySpec
\* The handler under the Worker's requests behaves as under any requests.
HandlerSpec == Spec
=============================================================================
