------------------------- MODULE IngestClientProofs -------------------------
(***************************************************************************)
(* No silent loss on the Worker's durable path, for any number of          *)
(* invocations, requests and mails, against any server that keeps          *)
(* IngestContract (which IngestProofs shows the Go handler to do).         *)
(***************************************************************************)
EXTENDS IngestClient, TLAPS

ServerTypeOK ==
    /\ stored \subseteq Raw
    /\ job \in [Request -> Raw]
    /\ stage \in [Request -> {"idle", "pending", "won"}]
    /\ reply \in [Request -> {"none", "lost", "400", "401", "413", "429", "500",
                              "duplicate", "accepted"}]

\* The contract's own promise: no acknowledgement without a stored mail.
AckImpliesStored ==
    \A r \in Request :
        /\ stage[r] = "won" => job[r] \in stored
        /\ reply[r] \in {"accepted", "duplicate"} => job[r] \in stored

\* Two invocations never wait for one request.
OneWaiter ==
    \A i, j \in Invocation :
        ipc[i] \in Waiting /\ ipc[j] \in Waiting /\ slot[i] = slot[j] => i = j

IInv == TypeOK /\ ServerTypeOK /\ AckImpliesStored /\ OneWaiter /\ OwnAnswer /\ NoSilentLoss

-----------------------------------------------------------------------------
LEMMA InitIInv == Init => IInv
<1> SUFFICES ASSUME Init PROVE IInv
  OBVIOUS
<1> USE DEF Init, Go!Init
<1>1. TypeOK /\ ServerTypeOK
  BY DEF TypeOK, ServerTypeOK, IPC, Waiting
<1>2. AckImpliesStored /\ OneWaiter /\ OwnAnswer /\ NoSilentLoss
  BY DEF AckImpliesStored, OneWaiter, OwnAnswer, NoSilentLoss, Waiting
<1> QED
  BY <1>1, <1>2 DEF IInv

\* The Go server's steps: the store only grows, and no request that somebody
\* waits for changes its mail.
LEMMA ServerStepIInv == IInv /\ ServerStep => IInv'
<1> SUFFICES ASSUME IInv, ServerStep PROVE IInv'
  OBVIOUS
<1>1. CASE Go!Crash
  BY <1>1 DEF Go!Crash, ServerStep, client, IInv, TypeOK, ServerTypeOK, AckImpliesStored,
              OneWaiter, OwnAnswer, NoSilentLoss, Waiting
<1>2. ASSUME NEW r \in Request,
             \/ Go!Store(r) \/ Go!StoreUnnoticed(r)
             \/ Go!Accept(r) \/ Go!Duplicate(r) \/ Go!Error(r)
      PROVE  IInv'
  <2>1. UNCHANGED <<job, mail, ipc, slot>> /\ stored \subseteq stored'
    BY <1>2 DEF ServerStep, client, Go!Store, Go!StoreUnnoticed, Go!Accept, Go!Duplicate,
                Go!Error, Go!Answer
  <2>2. stage[r] # "idle" /\ \A q \in Request \ {r} : stage'[q] = stage[q] /\ reply'[q] = reply[q]
    BY <1>2 DEF IInv, ServerTypeOK, Go!Store, Go!StoreUnnoticed, Go!Accept, Go!Duplicate,
                Go!Error, Go!Answer
  <2>3. ServerTypeOK'
    BY <1>2 DEF IInv, ServerTypeOK, Go!Store, Go!StoreUnnoticed, Go!Accept, Go!Duplicate,
                Go!Error, Go!Answer
  <2>4. AckImpliesStored'
    BY <1>2 DEF IInv, ServerTypeOK, AckImpliesStored, Go!Store, Go!StoreUnnoticed, Go!Accept,
                Go!Duplicate, Go!Error, Go!Answer
  <2>5. OwnAnswer'
    BY <2>1, <2>2 DEF IInv, TypeOK, OwnAnswer
  <2> QED
    BY <2>1, <2>3, <2>4, <2>5 DEF IInv, TypeOK, OneWaiter, NoSilentLoss
<1> QED
  BY <1>1, <1>2 DEF ServerStep

\* An invocation opens a request that nobody waits for.
LEMMA PostIInv ==
    ASSUME IInv, NEW i \in Invocation, NEW r \in Request, Post(i, r)
    PROVE  IInv'
<1>1. /\ ipc'[i] \in Waiting /\ slot'[i] = r /\ UNCHANGED <<mail, stored>>
      /\ \A j \in Invocation \ {i} : ipc'[j] = ipc[j] /\ slot'[j] = slot[j]
      /\ \A j \in Invocation \ {i} : ipc'[j] \in Waiting => slot'[j] # r
  BY DEF Post, Goto, Go!Submit, Go!Refuse, IInv, TypeOK, Waiting
<1>2. TypeOK'
  BY DEF Post, Goto, IInv, TypeOK, IPC, Waiting
<1>3. CASE Go!Submit(r, mail[i])
  <2>1. /\ job'[r] = mail[i] /\ stage'[r] = "pending" /\ reply'[r] = "none"
        /\ \A q \in Request \ {r} : job'[q] = job[q] /\ stage'[q] = stage[q] /\ reply'[q] = reply[q]
    BY <1>3 DEF Go!Submit, IInv, ServerTypeOK
  <2>2. ServerTypeOK'
    BY <1>3 DEF Go!Submit, IInv, TypeOK, ServerTypeOK
  <2>3. AckImpliesStored'
    BY <1>1, <2>1 DEF IInv, AckImpliesStored
  <2>4. OneWaiter' /\ OwnAnswer'
    BY <1>1, <2>1 DEF IInv, TypeOK, OneWaiter, OwnAnswer
  <2>5. NoSilentLoss'
    BY <1>1 DEF IInv, NoSilentLoss, Waiting
  <2> QED
    BY <1>2, <2>2, <2>3, <2>4, <2>5 DEF IInv
<1>4. ASSUME NEW status \in {"400", "401", "413", "429"}, Go!Refuse(r, status)
      PROVE  IInv'
  <2>1. /\ stage[r] = "idle" /\ reply'[r] = status /\ UNCHANGED <<job, stage>>
        /\ \A q \in Request \ {r} : reply'[q] = reply[q]
    BY <1>4 DEF Go!Refuse, IInv, ServerTypeOK
  <2>2. ServerTypeOK'
    BY <1>4 DEF Go!Refuse, IInv, ServerTypeOK
  <2>3. AckImpliesStored'
    BY <1>1, <2>1 DEF IInv, AckImpliesStored
  <2>4. OneWaiter' /\ OwnAnswer'
    BY <1>1, <2>1 DEF IInv, TypeOK, OneWaiter, OwnAnswer
  <2>5. NoSilentLoss'
    BY <1>1 DEF IInv, NoSilentLoss, Waiting
  <2> QED
    BY <1>2, <2>2, <2>3, <2>4, <2>5 DEF IInv
<1> QED
  BY <1>3, <1>4 DEF Post

LEMMA ClientStepIInv ==
    ASSUME IInv, NEW i \in Invocation, Start(i) \/ ClientStep(i)
    PROVE  IInv'
<1>1. CASE \E r \in Request : Post(i, r)
  BY <1>1, PostIInv
<1>2. CASE Start(i) \/ PostFails(i) \/ Abort(i)
  BY <1>2, ConfiguredAssumption DEF Start, PostFails, Abort, Goto, server, IInv, TypeOK, ServerTypeOK,
              AckImpliesStored, OneWaiter, OwnAnswer, NoSilentLoss, IPC, Waiting, Settled
<1>3. CASE Receive(i)
  <2>1. UNCHANGED <<stored, job, stage, reply, mail, slot>>
    BY <1>3 DEF Receive, server
  <2>2. /\ ipc'[i] \in {"ok", "failed", "send2"}
        /\ \A j \in Invocation \ {i} : ipc'[j] = ipc[j]
        /\ ipc'[i] = "ok" => reply[slot[i]] \in {"accepted", "duplicate"}
    BY <1>3 DEF Receive, ServerError, Goto, IInv, TypeOK
  <2>3. TypeOK'
    BY <1>3 DEF Receive, ServerError, Goto, IInv, TypeOK, IPC, Settled
  <2>4. ipc'[i] = "ok" => mail[i] \in stored
    BY <1>3, <2>2 DEF Receive, IInv, TypeOK, OwnAnswer, AckImpliesStored
  <2>5. NoSilentLoss'
    BY <2>1, <2>2, <2>4 DEF IInv, NoSilentLoss
  <2>6. OneWaiter' /\ OwnAnswer'
    BY <2>1, <2>2 DEF IInv, OneWaiter, OwnAnswer, Waiting
  <2> QED
    BY <2>1, <2>3, <2>5, <2>6 DEF IInv, ServerTypeOK, AckImpliesStored
<1> QED
  BY <1>1, <1>2, <1>3 DEF ClientStep

\* Every step of the client and of the server keeps the invariant.
LEMMA StepIInv == IInv /\ [Next]_vars => IInv'
<1> SUFFICES ASSUME IInv, [Next]_vars PROVE IInv'
  OBVIOUS
<1>1. CASE UNCHANGED vars
  BY <1>1 DEF vars, IInv, TypeOK, ServerTypeOK, AckImpliesStored, OneWaiter, OwnAnswer, NoSilentLoss
<1>2. CASE Next
  BY <1>2, ServerStepIInv, ClientStepIInv DEF Next
<1> QED
  BY <1>1, <1>2

\* The invariant holds in every reachable state.
THEOREM Invariance == Spec => []IInv
  BY InitIInv, StepIInv, PTL DEF Spec

\* Type correctness of the Worker's ingest client.
THEOREM TypeCorrect == Spec => []TypeOK
<1>1. IInv => TypeOK
  BY DEF IInv
<1> QED
  BY Invariance, <1>1, PTL

\* A mail that the Worker does not bounce is stored by the Go server.
THEOREM UnbouncedIsStored == Spec => []NoSilentLoss
<1>1. IInv => NoSilentLoss
  BY DEF IInv
<1> QED
  BY Invariance, <1>1, PTL

\* No invocation takes the answer to another mail for its own.
THEOREM AnswersAreNotMixedUp == Spec => []OwnAnswer
<1>1. IInv => OwnAnswer
  BY DEF IInv
<1> QED
  BY Invariance, <1>1, PTL
=============================================================================
