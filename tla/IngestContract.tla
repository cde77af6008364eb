--------------------------- MODULE IngestContract ---------------------------
(***************************************************************************)
(* What POST /api/ingest promises to the Cloudflare Worker, without any    *)
(* table, file or transaction: a set of stored mails that only grows, and  *)
(* an answer per request.  "accepted" goes to the one request that stored  *)
(* the mail, "duplicate" only after some request stored it, and an error   *)
(* promises nothing: the mail may or may not have been stored.             *)
(***************************************************************************)
CONSTANTS Request,   \* concurrent HTTP requests
          Raw        \* raw MIME mails, one per content hash

VARIABLES stored,    \* mails that are durably stored
          job,       \* the mail each request carries, or last carried
          stage,     \* "idle", "pending" or "won" (stored, not yet answered)
          reply      \* last answer of each request

vars == <<stored, job, stage, reply>>

Init ==
    /\ stored = {}
    /\ job \in [Request -> Raw]
    /\ stage = [r \in Request |-> "idle"]
    /\ reply = [r \in Request |-> "none"]

\* A request is admitted.
Submit(r, m) ==
    /\ stage[r] = "idle"
    /\ job' = [job EXCEPT ![r] = m]
    /\ stage' = [stage EXCEPT ![r] = "pending"]
    /\ reply' = [reply EXCEPT ![r] = "none"]
    /\ UNCHANGED stored

\* A request is turned away before the mail is looked at.
Refuse(r, status) ==
    /\ stage[r] = "idle"
    /\ reply' = [reply EXCEPT ![r] = status]
    /\ UNCHANGED <<stored, job, stage>>

Answer(r, status) ==
    /\ stage' = [stage EXCEPT ![r] = "idle"]
    /\ reply' = [reply EXCEPT ![r] = status]
    /\ UNCHANGED job

\* A mail is stored once: by a request that finds it missing.
Store(r) ==
    /\ stage[r] = "pending"
    /\ job[r] \notin stored
    /\ stored' = stored \cup {job[r]}
    /\ stage' = [stage EXCEPT ![r] = "won"]
    /\ UNCHANGED <<job, reply>>

\* Stored, but the server itself could not learn that it was.
StoreUnnoticed(r) ==
    /\ stage[r] = "pending"
    /\ job[r] \notin stored
    /\ stored' = stored \cup {job[r]}
    /\ Answer(r, "500")

Accept(r) == stage[r] = "won" /\ Answer(r, "accepted") /\ UNCHANGED stored

Duplicate(r) ==
    /\ stage[r] = "pending"
    /\ job[r] \in stored
    /\ Answer(r, "duplicate")
    /\ UNCHANGED stored

Error(r) == stage[r] = "pending" /\ Answer(r, "500") /\ UNCHANGED stored

\* The server dies: nothing stored is lost, open requests get no answer.
Crash ==
    /\ stage' = [r \in Request |-> "idle"]
    /\ reply' = [r \in Request |-> IF stage[r] = "idle" THEN reply[r] ELSE "lost"]
    /\ UNCHANGED <<stored, job>>

Next ==
    \/ Crash
    \/ \E r \in Request :
         \/ Store(r) \/ StoreUnnoticed(r)
         \/ Accept(r) \/ Duplicate(r) \/ Error(r)
         \/ \E m \in Raw : Submit(r, m)
         \/ \E status \in {"400", "401", "413", "429"} : Refuse(r, status)

Spec == Init /\ [][Next]_vars
=============================================================================
