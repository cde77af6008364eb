---------------------------- MODULE IngestClient ----------------------------
(***************************************************************************)
(* The Worker's durable path: deliverToGo, postToIngestWithStatus and      *)
(* attemptIngest of worker/src/index.ts, talking to a Go server of which   *)
(* only IngestContract is known.  The POST has a 30 s timer per attempt, a *)
(* single second attempt after a 5xx, and everything else that is not a    *)
(* success is a reason to setReject the mail.                              *)
(*                                                                         *)
(* An invocation of the Worker handles one mail and is used once.  A Go    *)
(* request outlives the invocation that gave up on it.                     *)
(***************************************************************************)
CONSTANTS
    Invocation,    \* runs of email()
    Request,       \* requests the Go server can have open
    Raw,           \* raw mails
    Configured     \* are INGEST_URL and WORKER_INGEST_PSK set?

ASSUME ConfiguredAssumption == Configured \in BOOLEAN

VARIABLES
    stored, job, stage, reply,   \* the Go server, see IngestContract
    mail,          \* the mail each invocation is called with
    ipc,           \* where deliverToGo is
    slot           \* the request each invocation waits for, while it waits

Go == INSTANCE IngestContract
server == <<stored, job, stage, reply>>
client == <<mail, ipc, slot>>
vars == <<stored, job, stage, reply, mail, ipc, slot>>

Waiting == {"wait1", "wait2"}
Settled == {"ok", "failed"}
IPC == Waiting \cup Settled \cup {"new", "send1", "send2"}

Init ==
    /\ Go!Init
    /\ mail \in [Invocation -> Raw]
    /\ ipc = [i \in Invocation |-> "new"]
    /\ slot \in [Invocation -> Request]      \* meaningless until Post

Goto(i, there) == ipc' = [ipc EXCEPT ![i] = there]

\* deliverToGo: without its configuration the Worker does not even try.
Start(i) ==
    /\ ipc[i] = "new"
    /\ Goto(i, IF Configured THEN "send1" ELSE "failed")
    /\ UNCHANGED <<server, mail, slot>>

\* Mutant: the second attempt listens to the first one's response.
PostMutant(i, r) ==
    /\ ipc[i] \in {"send1", "send2"}
    /\ \A j \in Invocation : ipc[j] \in Waiting => slot[j] # r
    /\ \/ Go!Submit(r, mail[i])
       \/ \E status \in {"400", "401", "413", "429"} : Go!Refuse(r, status)
    /\ slot' = IF ipc[i] = "send1" THEN [slot EXCEPT ![i] = r] ELSE slot
    /\ Goto(i, IF ipc[i] = "send1" THEN "wait1" ELSE "wait2")
    /\ UNCHANGED mail

\* fetch() opens a request; Go admits it or turns it away.
Post(i, r) ==
    /\ ipc[i] \in {"send1", "send2"}
    /\ \A j \in Invocation : ipc[j] \in Waiting => slot[j] # r
    /\ \/ Go!Submit(r, mail[i])
       \/ \E status \in {"400", "401", "413", "429"} : Go!Refuse(r, status)
    /\ slot' = [slot EXCEPT ![i] = r]
    /\ Goto(i, IF ipc[i] = "send1" THEN "wait1" ELSE "wait2")
    /\ UNCHANGED mail

\* fetch() throws before Go sees the request: not retried.
PostFails(i) ==
    /\ ipc[i] \in {"send1", "send2"}
    /\ Goto(i, "failed")
    /\ UNCHANGED <<server, mail, slot>>

\* Mutants: a third attempt; a second 5xx that is not reported.
ServerErrorAgain(i) == Goto(i, IF ipc[i] = "wait1" THEN "send2" ELSE "send3")
ServerErrorSwallowed(i) == Goto(i, IF ipc[i] = "wait1" THEN "send2" ELSE "ok")

\* The answer to a 5xx: once more, then give up.
ServerError(i) == Goto(i, IF ipc[i] = "wait1" THEN "send2" ELSE "failed")

\* attemptIngest reads the answer.  A 200 whose body cannot be read counts as
\* success; a dead connection is an exception, or a 502 of a proxy in between.
Receive(i) ==
    /\ ipc[i] \in Waiting
    /\ stage[slot[i]] = "idle"
    /\ \/ reply[slot[i]] \in {"accepted", "duplicate"} /\ Goto(i, "ok")
       \/ reply[slot[i]] \in {"400", "401", "413", "429", "lost"} /\ Goto(i, "failed")
       \/ reply[slot[i]] \in {"500", "lost"} /\ ServerError(i)
    /\ UNCHANGED <<server, mail, slot>>

\* Mutant: the second attempt has no timer of its own.
AbortMutant(i) ==
    /\ ipc[i] = "wait1"
    /\ Goto(i, "failed")
    /\ UNCHANGED <<server, mail, slot>>

\* The AbortController's timer: the Go request is left to itself.
Abort(i) ==
    /\ ipc[i] \in Waiting
    /\ Goto(i, "failed")
    /\ UNCHANGED <<server, mail, slot>>

ClientStep(i) ==
    \/ \E r \in Request : Post(i, r)
    \/ PostFails(i) \/ Receive(i) \/ Abort(i)

\* The Go server goes on by itself; it may also hang or die at any point.
ServerStep ==
    /\ \/ Go!Crash
       \/ \E r \in Request : \/ Go!Store(r) \/ Go!StoreUnnoticed(r)
                             \/ Go!Accept(r) \/ Go!Duplicate(r) \/ Go!Error(r)
    /\ UNCHANGED client

Next ==
    \/ ServerStep
    \/ \E i \in Invocation : Start(i) \/ ClientStep(i)

\* JavaScript runs what is ready, and the 30 s timer fires.  Nothing is
\* assumed of the Go server.
Fairness == \A i \in Invocation : WF_vars(ClientStep(i))

Spec == Init /\ [][Next]_vars /\ Fairness

-----------------------------------------------------------------------------
\* Every variable of the client has its type.
TypeOK ==
    /\ mail \in [Invocation -> Raw]
    /\ ipc \in [Invocation -> IPC]
    /\ slot \in [Invocation -> Request]

\* A mail that the Worker does not bounce is in the Go server's store: retries,
\* give-ups and orphaned requests of other invocations do not matter.
NoSilentLoss == \A i \in Invocation : ipc[i] = "ok" => mail[i] \in stored

\* An invocation never takes another mail's answer for its own: it waits for a
\* request that carries its mail or that was refused.
OwnAnswer ==
    \A i \in Invocation : ipc[i] \in Waiting =>
        \/ job[slot[i]] = mail[i]
        \/ stage[slot[i]] = "idle" /\ reply[slot[i]] \in {"400", "401", "413", "429"}

\* deliverToGo settles however the Go server behaves: silent, slow or dead.
IngestSettles ==
    \A i \in Invocation : ipc[i] # "new" ~> ipc[i] \in Settled
=============================================================================
