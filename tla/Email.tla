------------------------------- MODULE Email --------------------------------
(***************************************************************************)
(* email() of worker/src/index.ts: one invocation starts the durable path  *)
(* (IngestClient) and the preview and Telegram path (Notify) together,     *)
(* waits for both (Promise.all) and bounces the mail if and only if the    *)
(* durable path failed.  The sender transmits a bounced mail again.        *)
(***************************************************************************)
EXTENDS Integers

CONSTANTS
    Invocation, Raw,                                      \* both paths
    Request, Configured,                                  \* IngestClient
    NoID, MessageID, Chats, TelegramOn, TTL, MaxTime, MaxTrouble   \* Notify

ASSUME EmailAssumption ==
    /\ Configured \in BOOLEAN /\ TelegramOn \in BOOLEAN
    /\ Chats \in Nat /\ TTL \in Nat \ {0} /\ MaxTime \in Nat /\ MaxTrouble \in Nat

VARIABLES
    stored, job, stage, reply, mail, ipc, slot,
    npc, chat, anyOk, preview, marker, clock, told, trouble,
    outcome        \* what became of the invocation, as the sender sees it

I == INSTANCE IngestClient
N == INSTANCE Notify

ingest == <<stored, job, stage, reply, ipc, slot>>
notify == <<npc, chat, anyOk, preview, marker, clock, told, trouble>>
vars == <<ingest, notify, mail, outcome>>

Init == I!Init /\ N!Init /\ outcome = [i \in Invocation |-> "none"]

Ends(i, how) == outcome' = [outcome EXCEPT ![i] = how]

\* A mail comes in again only after the sender was told that it failed.
Arrives(i) ==
    /\ outcome[i] = "none"
    /\ \A j \in Invocation :
         mail[j] = mail[i] => outcome[j] \in {"none", "rejected", "evicted"}

\* The raw stream is collected and parsed; both paths start.
Receive(i) ==
    /\ Arrives(i)
    /\ Ends(i, "running")
    /\ I!Start(i) /\ N!Start(i)

\* Mutant: the early return forgets setReject.
UnreadableMutant(i) ==
    /\ Arrives(i)
    /\ Ends(i, "delivered")
    /\ UNCHANGED <<ingest, notify, mail>>

\* "Failed to read email content": neither path can run.
Unreadable(i) ==
    /\ Arrives(i)
    /\ Ends(i, "rejected")
    /\ UNCHANGED <<ingest, notify, mail>>

\* Mutant: the bounce does not wait for the Telegram path.
JoinMutant(i) ==
    /\ outcome[i] = "running"
    /\ ipc[i] \in I!Settled
    /\ Ends(i, IF ipc[i] = "failed" THEN "rejected" ELSE "delivered")
    /\ UNCHANGED <<ingest, notify, mail>>

\* Promise.all, then setReject or return.
Join(i) ==
    /\ outcome[i] = "running"
    /\ ipc[i] \in I!Settled
    /\ npc[i] = "done"
    /\ Ends(i, IF ipc[i] = "failed" THEN "rejected" ELSE "delivered")
    /\ UNCHANGED <<ingest, notify, mail>>

\* The runtime drops the invocation; Go and Telegram keep what they got.
Evict(i) ==
    /\ outcome[i] = "running"
    /\ N!Trouble
    /\ Ends(i, "evicted")
    /\ ipc' = [ipc EXCEPT ![i] = "failed"]
    /\ npc' = [npc EXCEPT ![i] = "done"]
    /\ UNCHANGED <<stored, job, stage, reply, mail, slot,
                   chat, anyOk, preview, marker, clock, told>>

\* Mutants: the paths run one after the other, Telegram first; Telegram is
\* told of stored mails only.
IngestStepMutant(i) == npc[i] = "done" /\ I!ClientStep(i) /\ UNCHANGED <<notify, outcome>>
NotifyStepMutant(i) == ipc[i] = "ok" /\ N!WorkerStep(i) /\ UNCHANGED <<ingest, outcome>>

IngestStep(i)   == I!ClientStep(i) /\ UNCHANGED <<notify, outcome>>
NotifyStep(i)   == N!WorkerStep(i) /\ UNCHANGED <<ingest, outcome>>
TelegramStep(i) == N!TelegramStep(i) /\ UNCHANGED <<ingest, outcome>>
GoStep          == I!ServerStep /\ UNCHANGED <<notify, outcome>>
Tick            == N!Tick /\ UNCHANGED <<ingest, outcome>>

Next ==
    \/ GoStep
    \/ Tick
    \/ \E i \in Invocation :
         \/ Receive(i) \/ Unreadable(i) \/ Join(i) \/ Evict(i)
         \/ IngestStep(i) \/ NotifyStep(i) \/ TelegramStep(i)

\* The Worker's own code runs, KV calls return and timers fire.
WorkerFairness ==
    \A i \in Invocation :
        /\ WF_vars(IngestStep(i))
        /\ WF_vars(NotifyStep(i))
        /\ WF_vars(Join(i))

\* The Telegram client has no timeout: whether it returns is up to Telegram,
\* and the specification does not assume it.
TelegramFairness == \A i \in Invocation : WF_vars(TelegramStep(i))

SafetySpec == Init /\ [][Next]_vars
Spec == SafetySpec /\ WorkerFairness

-----------------------------------------------------------------------------
\* email() returns without a bounce only when Go has stored the mail, whatever
\* happens to the preview and to Telegram.
DeliveredIsStored ==
    \A i \in Invocation : outcome[i] = "delivered" => mail[i] \in stored

\* Promise.all makes the bounce wait for the tg-sent: marker: the mail that
\* comes back does not tell a chat a second time while the first preview can
\* be read, unless a KV or Telegram call went wrong.
RetryTellsNobodyTwice ==
    trouble = 0 =>
        \A i, j \in Invocation, c \in 1..Chats :
            /\ i # j /\ mail[i] = mail[j]
            /\ <<i, c>> \in told /\ <<j, c>> \in told
            => ~N!Live(preview[i]) \/ ~N!Live(preview[j])

\* Go does not wait for Telegram: the durable path settles although Telegram
\* may never answer.
IngestIndependent ==
    \A i \in Invocation : outcome[i] = "running" ~> ipc[i] \in I!Settled

\* With a Telegram that answers, email() returns, Go reachable or not.
EveryInvocationEnds ==
    TelegramFairness =>
        \A i \in Invocation : outcome[i] = "running" ~> outcome[i] # "running"

\* "Both paths start immediately. Ingest failure still setRejects so
\* Cloudflare retries durable storage; Telegram does not wait for Go and Go
\* does not wait for Telegram" (index.ts:334-336).
IngestFailureBounces ==
    \A i \in Invocation : ipc[i] = "failed" ~> outcome[i] \in {"rejected", "evicted"}
=============================================================================
