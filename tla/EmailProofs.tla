---------------------------- MODULE EmailProofs -----------------------------
(***************************************************************************)
(* The two paths of email() together, for every number of invocations,     *)
(* mails and requests.  The proofs of IngestClient and of Notify are used  *)
(* as they are: a step of email() is a step of the one, of the other or of *)
(* both, but for an eviction.                                              *)
(***************************************************************************)
EXTENDS Email, TLAPS

IP == INSTANCE IngestClientProofs
NP == INSTANCE NotifyProofs

\* email() returns without a bounce after deliverToGo has succeeded.
Returned == \A i \in Invocation : outcome[i] = "delivered" => ipc[i] = "ok"

\* A mail is transmitted again only after its bounce: no two invocations that
\* carry it run at the same time.
Solo ==
    \A i, j \in Invocation :
        mail[i] = mail[j] /\ outcome[i] = "running" /\ outcome[j] = "running" => i = j

\* deliverPreviewAndTelegram runs only between the start and the end of email().
Inside ==
    \A i \in Invocation :
        /\ outcome[i] = "none" => npc[i] = "new"
        /\ npc[i] \notin {"new", "done"} => outcome[i] = "running"

\* Of two invocations with the same mail, one of which has told a chat and the
\* other is past the lookup of the marker, one has a preview that has expired.
Dead(i) == clock >= preview[i]
ApartAt(i, j) ==
    /\ mail[i] = mail[j] /\ NP!Told(i)
    /\ npc[j] \in {"send", "mark"} \/ NP!Told(j)
    => Dead(i) \/ Dead(j)
Apart == \A i, j \in Invocation : i # j => ApartAt(i, j)

Outcome == {"none", "running", "delivered", "rejected", "evicted"}

EInv ==
    /\ IP!IInv /\ Returned
    /\ mail \in [Invocation -> Raw] /\ outcome \in [Invocation -> Outcome]
    /\ Solo
    /\ NP!IInv /\ Inside
    /\ trouble = 0 => Apart

-----------------------------------------------------------------------------
\* A step of Notify as Email names it is one as NotifyProofs names it.
LEMMA NotifySteps ==
    /\ [N!Next]_(N!vars) => [NP!Next]_(NP!vars)
    /\ N!Init => NP!Init
    /\ NP!NotifyAssumption
  <1>1. [N!Next]_(N!vars) => [NP!Next]_(NP!vars)
    BY DEF N!Next, N!vars, N!Tick, N!Start, N!WorkerStep, N!TelegramStep, N!Evict, N!SavePreview,
           N!SavePreviewFails, N!LookUpMarker, N!LookUpMisses, N!EndOfLoop, N!WriteMarker,
           N!WriteMarkerFails, N!Sent, N!NotSent, N!SentUnseen, N!SendMessage, N!AfterSave, N!Goto,
           N!Marked, N!Live, N!SentKey, N!Expiry, N!Trouble, N!kv,
           NP!Next, NP!vars, NP!Tick, NP!Start, NP!WorkerStep, NP!TelegramStep, NP!Evict, NP!SavePreview,
           NP!SavePreviewFails, NP!LookUpMarker, NP!LookUpMisses, NP!EndOfLoop, NP!WriteMarker,
           NP!WriteMarkerFails, NP!Sent, NP!NotSent, NP!SentUnseen, NP!SendMessage, NP!AfterSave, NP!Goto,
           NP!Marked, NP!Live, NP!SentKey, NP!Expiry, NP!Trouble, NP!kv
  <1>2. N!Init => NP!Init
    BY DEF N!Init, NP!Init, N!SentKey, NP!SentKey, N!Keys, NP!Keys
  <1>3. NP!NotifyAssumption
    BY EmailAssumption DEF NP!NotifyAssumption
  <1> QED  BY <1>1, <1>2, <1>3

\* So its invariant is kept.
LEMMA NotifyKeeps == NP!IInv /\ [N!Next]_(N!vars) => NP!IInv'
  BY NotifySteps, NP!StepIInv

\* The same for IngestClient.
LEMMA IngestSteps ==
    /\ [I!Next]_(I!vars) => [IP!Next]_(IP!vars)
    /\ I!Init => IP!Init
    /\ IP!ConfiguredAssumption
  <1>1. [I!Next]_(I!vars) => [IP!Next]_(IP!vars)
    BY DEF I!Next, I!vars, I!ServerStep, I!Start, I!ClientStep, I!Post, I!PostFails,
           I!Receive, I!Abort, I!ServerError, I!Goto, I!server, I!client, I!Waiting,
           I!Go!Crash, I!Go!Store, I!Go!StoreUnnoticed, I!Go!Accept, I!Go!Duplicate,
           I!Go!Error, I!Go!Submit, I!Go!Refuse, I!Go!Answer, IP!Next, IP!vars,
           IP!ServerStep, IP!Start, IP!ClientStep, IP!Post, IP!PostFails, IP!Receive,
           IP!Abort, IP!ServerError, IP!Goto, IP!server, IP!client, IP!Waiting,
           IP!Go!Crash, IP!Go!Store, IP!Go!StoreUnnoticed, IP!Go!Accept,
           IP!Go!Duplicate, IP!Go!Error, IP!Go!Submit, IP!Go!Refuse, IP!Go!Answer
  <1>2. I!Init => IP!Init
    BY DEF I!Init, I!Go!Init, IP!Init, IP!Go!Init
  <1>3. IP!ConfiguredAssumption
    BY EmailAssumption DEF IP!ConfiguredAssumption
  <1> QED  BY <1>1, <1>2, <1>3

\* So its invariant is kept, too.
LEMMA IngestKeeps == IP!IInv /\ [I!Next]_(I!vars) => IP!IInv'
  BY IngestSteps, IP!StepIInv

\* An evicted invocation waits for no answer, whatever it was about to do.
LEMMA EvictKeeps ==
    ASSUME IP!IInv, NEW i \in Invocation, Evict(i)
    PROVE  IP!IInv'
  <1>1. /\ UNCHANGED <<stored, job, stage, reply, mail, slot>>
        /\ ipc' = [ipc EXCEPT ![i] = "failed"]
    BY DEF Evict
  <1>2. IP!TypeOK'
    BY <1>1 DEF IP!IInv, IP!TypeOK, IP!IPC, IP!Settled, IP!Waiting
  <1>3. IP!ServerTypeOK' /\ IP!AckImpliesStored'
    BY <1>1 DEF IP!IInv, IP!ServerTypeOK, IP!AckImpliesStored
  <1>4. IP!OneWaiter' /\ IP!OwnAnswer' /\ IP!NoSilentLoss'
    BY <1>1 DEF IP!IInv, IP!TypeOK, IP!OneWaiter, IP!OwnAnswer, IP!NoSilentLoss, IP!Waiting
  <1> QED  BY <1>2, <1>3, <1>4 DEF IP!IInv

\* Nothing has arrived.
LEMMA InitEInv == Init => EInv
  <1> SUFFICES ASSUME Init PROVE EInv
    OBVIOUS
  <1>1. IP!IInv
    BY IngestSteps, IP!InitIInv DEF Init
  <1>2. NP!IInv
    BY NotifySteps, NP!InitIInv DEF Init
  <1>3. /\ outcome = [i \in Invocation |-> "none"] /\ npc = [i \in Invocation |-> "new"]
        /\ mail \in [Invocation -> Raw] /\ trouble = 0 /\ told = {}
    BY DEF Init, N!Init
  <1>4. Returned /\ Solo /\ Inside /\ Apart
    BY <1>3 DEF Returned, Solo, Inside, Apart, ApartAt, NP!Told
  <1> QED  BY <1>1, <1>2, <1>3, <1>4 DEF EInv, Outcome

\* The durable path, whatever the other one does.
LEMMA IngestPart ==
    ASSUME EInv, Next
    PROVE  IP!IInv' /\ Returned' /\ UNCHANGED mail
  <1> USE DEF EInv
  <1>1. CASE GoStep
    <2>1. [I!Next]_(I!vars)
      BY <1>1 DEF GoStep, I!Next
    <2> QED  BY <1>1, <2>1, IngestKeeps DEF GoStep, I!ServerStep, I!client, Returned
  <1>2. CASE Tick \/ \E i \in Invocation : NotifyStep(i) \/ TelegramStep(i)
    <2>1. UNCHANGED <<ingest, outcome, mail>>
      BY <1>2 DEF Tick, NotifyStep, TelegramStep, N!Tick, N!WorkerStep, N!TelegramStep, N!SavePreview,
                  N!SavePreviewFails, N!LookUpMarker, N!LookUpMisses, N!EndOfLoop, N!WriteMarker,
                  N!WriteMarkerFails, N!Sent, N!NotSent, N!SentUnseen, N!SendMessage
    <2> QED  BY <2>1, IngestKeeps DEF ingest, I!vars, Returned
  <1>3. ASSUME NEW i \in Invocation, Unreadable(i) \/ Join(i) PROVE IP!IInv' /\ Returned' /\ UNCHANGED mail
    <2>1. UNCHANGED <<ingest, mail>>
      BY <1>3 DEF Unreadable, Join
    <2>2. Returned'
      BY <1>3, <2>1 DEF Unreadable, Join, Ends, Returned, ingest, I!Settled
    <2> QED  BY <2>1, <2>2, IngestKeeps DEF ingest, I!vars
  <1>4. ASSUME NEW i \in Invocation, Receive(i) \/ IngestStep(i) PROVE IP!IInv' /\ Returned' /\ UNCHANGED mail
    <2>1. [I!Next]_(I!vars)
      BY <1>4 DEF Receive, IngestStep, I!Next
    <2>2. /\ ipc[i] # "ok" /\ UNCHANGED mail
          /\ \A j \in Invocation \ {i} : ipc'[j] = ipc[j]
      BY <1>4 DEF Receive, IngestStep, I!Start, I!ClientStep, I!Post, I!PostFails, I!Receive, I!Abort,
                  I!ServerError, I!Goto, I!Waiting, IP!IInv, IP!TypeOK
    <2>3. \A j \in Invocation : outcome'[j] = outcome[j] \/ outcome'[j] = "running"
      BY <1>4 DEF Receive, IngestStep, Ends
    <2> QED  BY <2>1, <2>2, <2>3, IngestKeeps DEF Returned
  <1>5. ASSUME NEW i \in Invocation, Evict(i) PROVE IP!IInv' /\ Returned' /\ UNCHANGED mail
    <2>1. Returned'
      BY <1>5 DEF Evict, Ends, Returned, IP!IInv, IP!TypeOK
    <2> QED  BY <1>5, <2>1, EvictKeeps DEF Evict
  <1> QED  BY <1>1, <1>2, <1>3, <1>4, <1>5 DEF Next
\* An invocation starts only when no other with its mail is running.
LEMMA SoloPart ==
    ASSUME EInv, Next
    PROVE  Solo' /\ outcome' \in [Invocation -> Outcome] /\ (trouble' = 0 => trouble = 0)
  <1> USE DEF EInv
  <1>0. UNCHANGED mail
    BY IngestPart
  <1>1. outcome' \in [Invocation -> Outcome]
    BY DEF Next, GoStep, Tick, Receive, Unreadable, Join, Evict, IngestStep, NotifyStep, TelegramStep, Ends,
           Outcome
  <1>2. trouble \in Nat
    BY EmailAssumption DEF NP!IInv, NP!TypeOK
  <1>3. trouble' = trouble \/ trouble' = trouble + 1
    BY DEF Next, GoStep, Tick, Receive, Unreadable, Join, Evict, IngestStep, NotifyStep, TelegramStep,
           notify, N!Start, N!Tick, N!WorkerStep, N!TelegramStep, N!SavePreview, N!SavePreviewFails,
           N!LookUpMarker, N!LookUpMisses, N!EndOfLoop, N!WriteMarker, N!WriteMarkerFails, N!Sent,
           N!NotSent, N!SentUnseen, N!Trouble
  <1>4. Solo'
    <2> USE DEF Outcome
    <2>1. ASSUME NEW i \in Invocation, Receive(i) PROVE Solo'
      <3>1. /\ \A j \in Invocation \ {i} : outcome'[j] = outcome[j]
            /\ \A j \in Invocation : mail[j] = mail[i] => outcome[j] # "running"
        BY <2>1 DEF Receive, Arrives, Ends
      <3> QED  BY <1>0, <3>1 DEF Solo
    <2>2. ASSUME NEW i \in Invocation, Unreadable(i) \/ Join(i) \/ Evict(i) PROVE Solo'
      <3>1. \A j \in Invocation : outcome'[j] = "running" => outcome[j] = "running"
        BY <2>2 DEF Unreadable, Join, Evict, Ends
      <3> QED  BY <1>0, <3>1 DEF Solo
    <2>3. CASE UNCHANGED outcome
      BY <1>0, <2>3 DEF Solo
    <2> QED  BY <2>1, <2>2, <2>3 DEF Next, GoStep, Tick, IngestStep, NotifyStep, TelegramStep
  <1> QED  BY <1>1, <1>2, <1>3, <1>4

\* What is said of two invocations survives a step that moves the clock at
\* most, takes nobody past the lookup and tells nobody.
LEMMA ApartStutter ==
    ASSUME Apart, UNCHANGED <<mail, told, preview>>, clock \in Nat, clock' \in Nat, clock' >= clock,
           \A i \in Invocation : preview[i] \in Nat,
           \A i \in Invocation : npc'[i] \in {"send", "mark"} => npc[i] \in {"send", "mark"}
    PROVE  Apart'
  <1> SUFFICES ASSUME NEW i \in Invocation, NEW j \in Invocation, i # j PROVE ApartAt(i, j)'
    BY DEF Apart
  <1>1. ApartAt(i, j)
    BY DEF Apart
  <1>2. (NP!Told(i)' <=> NP!Told(i)) /\ (NP!Told(j)' <=> NP!Told(j))
    BY DEF NP!Told
  <1>3. (Dead(i) => Dead(i)') /\ (Dead(j) => Dead(j)')
    BY DEF Dead
  <1> QED  BY <1>1, <1>2, <1>3 DEF ApartAt

\* A running invocation passes the lookup only if every other that told a chat
\* of the same mail has a preview that has expired: the marker covers it.
LEMMA LookUpApart ==
    ASSUME EInv, trouble = 0, NEW i \in Invocation, N!LookUpMarker(i), UNCHANGED outcome
    PROVE  Apart'
  <1> USE DEF EInv
  <1>1. /\ npc[i] = "lookup" /\ UNCHANGED <<mail, clock, told, preview>> /\ outcome[i] = "running"
        /\ \A j \in Invocation \ {i} : npc'[j] = npc[j]
    BY DEF N!LookUpMarker, N!Goto, N!kv, Inside, NP!IInv, NP!TypeOK
  <1>2. \A j \in Invocation : NP!Told(j)' <=> NP!Told(j)
    BY <1>1 DEF NP!Told
  <1>3. \A j \in Invocation : Dead(j)' <=> Dead(j)
    BY <1>1 DEF Dead
  <1>4. ~NP!Told(i)
    BY <1>1 DEF NP!IInv, NP!Clean, NP!CleanAt
  <1> SUFFICES ASSUME NEW j \in Invocation, NEW k \in Invocation, j # k PROVE ApartAt(j, k)'
    BY DEF Apart
  <1>5. ApartAt(j, k)
    BY DEF Apart
  <1>6. CASE k # i
    BY <1>1, <1>2, <1>3, <1>5, <1>6 DEF ApartAt
  <1>7. CASE k = i /\ npc'[i] = "send" /\ mail[j] = mail[i] /\ NP!Told(j)
    <2>1. NP!CleanAt(j) /\ anyOk[j] /\ npc[j] \in {"send", "mark", "done"}
      BY <1>7 DEF NP!IInv, NP!Clean, NP!CleanAt
    <2>2. outcome[j] # "running"
      BY <1>1, <1>7 DEF Solo
    <2>3. npc[j] = "done"
      BY <2>1, <2>2 DEF Inside
    <2>4. marker[NP!SentKey(mail[j])] >= preview[j]
      BY <2>1, <2>3 DEF NP!CleanAt
    <2>5. ~(clock < marker[NP!SentKey(mail[j])])
      BY <1>7 DEF N!LookUpMarker, N!Goto, N!Marked, N!Live, N!SentKey, NP!SentKey, NP!IInv, NP!TypeOK
    <2>6. marker[NP!SentKey(mail[j])] \in Nat /\ preview[j] \in Nat /\ clock \in Nat
      <3>1. NP!TypeOK /\ NP!SentKey(mail[j]) \in NP!Keys
        BY DEF NP!IInv, NP!TypeOK, NP!Keys
      <3> QED  BY <3>1 DEF NP!TypeOK
    <2> QED  BY <1>3, <2>4, <2>5, <2>6 DEF ApartAt, Dead
  <1>8. CASE k = i /\ npc'[i] # "send"
    <2>1. npc'[i] = "done"
      BY <1>8 DEF N!LookUpMarker, N!Goto, NP!IInv, NP!TypeOK
    <2> QED  BY <1>2, <1>4, <1>8, <2>1 DEF ApartAt
  <1>9. CASE k = i /\ npc'[i] = "send" /\ ~(mail[j] = mail[i] /\ NP!Told(j))
    BY <1>1, <1>2, <1>9 DEF ApartAt
  <1> QED  BY <1>6, <1>7, <1>8, <1>9

\* Nobody else with the same mail is between the lookup and the marker while
\* a chat is told of it.
LEMMA TelegramApart ==
    ASSUME EInv, trouble = 0, NEW i \in Invocation, N!TelegramStep(i)
    PROVE  Apart'
  <1> USE DEF EInv
  <1>1. /\ npc[i] = "send" /\ UNCHANGED <<mail, npc, clock, preview>> /\ outcome[i] = "running"
    BY DEF N!TelegramStep, N!Sent, N!NotSent, N!SentUnseen, N!SendMessage, N!kv, Inside
  <1>2. told \subseteq told' /\ told' \subseteq told \cup {<<i, chat[i]>>}
    BY DEF N!TelegramStep, N!Sent, N!NotSent, N!SentUnseen, N!SendMessage
  <1>3. \A j \in Invocation \ {i} : NP!Told(j)' <=> NP!Told(j)
    BY <1>2 DEF NP!Told
  <1>4. \A j \in Invocation : Dead(j)' <=> Dead(j)
    BY <1>1 DEF Dead
  <1> SUFFICES ASSUME NEW j \in Invocation, NEW k \in Invocation, j # k PROVE ApartAt(j, k)'
    BY DEF Apart
  <1>5. ApartAt(j, k) /\ ApartAt(k, j)
    BY DEF Apart
  <1>6. CASE j # i
    BY <1>1, <1>3, <1>4, <1>5, <1>6 DEF ApartAt
  <1>7. CASE j = i
    <2>1. mail[k] = mail[i] => npc[k] \notin {"send", "mark"}
      BY <1>1, <1>7 DEF Solo, Inside
    <2> QED  BY <1>1, <1>3, <1>4, <1>5, <1>7, <2>1 DEF ApartAt
  <1> QED  BY <1>6, <1>7

\* The preview is written before anybody is told and before the lookup.
LEMMA SavePreviewApart ==
    ASSUME EInv, trouble = 0, NEW i \in Invocation, N!SavePreview(i)
    PROVE  Apart'
  <1> USE DEF EInv
  <1>1. /\ npc[i] = "save" /\ UNCHANGED <<mail, clock, told>> /\ npc'[i] \in {"lookup", "done"}
        /\ \A j \in Invocation \ {i} : npc'[j] = npc[j] /\ preview'[j] = preview[j]
    BY DEF N!SavePreview, N!AfterSave, N!Goto, NP!IInv, NP!TypeOK
  <1>2. ~NP!Told(i)
    BY <1>1 DEF NP!IInv, NP!Clean, NP!CleanAt
  <1>3. \A j \in Invocation : NP!Told(j)' <=> NP!Told(j)
    BY <1>1 DEF NP!Told
  <1> SUFFICES ASSUME NEW j \in Invocation, NEW k \in Invocation, j # k PROVE ApartAt(j, k)'
    BY DEF Apart
  <1>4. CASE j = i \/ k = i
    BY <1>1, <1>2, <1>3, <1>4 DEF ApartAt
  <1>5. CASE j # i /\ k # i
    <2>1. (Dead(j)' <=> Dead(j)) /\ (Dead(k)' <=> Dead(k))
      BY <1>1, <1>5 DEF Dead
    <2> QED  BY <1>1, <1>3, <1>5, <2>1 DEF ApartAt, Apart
  <1> QED  BY <1>4, <1>5

\* The preview and Telegram path keeps its invariant, whatever the other one
\* does and wherever an invocation is dropped.
LEMMA NotifyPart ==
    ASSUME EInv, Next
    PROVE  NP!IInv' /\ Inside'
  <1> USE DEF EInv
  <1>0. UNCHANGED mail /\ NP!TypeOK
    BY IngestPart DEF NP!IInv
  <1>1. CASE UNCHANGED notify
    <2>1. NP!IInv'
      <3>1. UNCHANGED N!vars
        BY <1>0, <1>1 DEF notify, N!vars
      <3> QED  BY <3>1, NotifyKeeps
    <2>2. ASSUME NEW i \in Invocation, Unreadable(i) \/ Join(i) PROVE Inside'
      BY <1>1, <2>2 DEF Unreadable, Join, Arrives, Ends, Inside, notify
    <2>3. CASE UNCHANGED outcome
      BY <1>1, <2>1, <2>3 DEF Inside, notify
    <2>4. ASSUME NEW i \in Invocation, Receive(i) PROVE FALSE
      BY <1>0, <1>1, <2>4 DEF Receive, N!Start, N!Goto, notify, NP!TypeOK
    <2>5. ASSUME NEW i \in Invocation, Evict(i) PROVE FALSE
      BY <1>0, <1>1, <2>5 DEF Evict, N!Trouble, notify, NP!TypeOK
    <2> QED
      BY <2>1, <2>2, <2>3, <2>4, <2>5 DEF Next, GoStep, Tick, IngestStep, NotifyStep, TelegramStep
  <1>2. CASE Tick
    <2>1. NP!IInv'
      BY <1>2, NotifyKeeps DEF Tick, N!Next
    <2>2. Inside'
      BY <1>2 DEF Tick, N!Tick, Inside
    <2> QED  BY <2>1, <2>2
  <1>3. ASSUME NEW i \in Invocation, Receive(i) PROVE NP!IInv' /\ Inside'
    <2>1. N!Start(i) /\ Ends(i, "running")
      BY <1>3 DEF Receive
    <2>2. NP!IInv'
      BY <2>1, NotifyKeeps DEF N!Next
    <2>3. Inside'
      BY <1>0, <2>1 DEF N!Start, N!Goto, Ends, NP!TypeOK, Inside
    <2> QED  BY <2>2, <2>3
  <1>4. ASSUME NEW i \in Invocation, NotifyStep(i) \/ TelegramStep(i) PROVE NP!IInv' /\ Inside'
    <2>1. (N!WorkerStep(i) \/ N!TelegramStep(i)) /\ UNCHANGED outcome
      BY <1>4 DEF NotifyStep, TelegramStep
    <2>2. NP!IInv'
      BY <2>1, NotifyKeeps DEF N!Next
    <2>3. /\ npc[i] \notin {"new", "done"}
          /\ \A j \in Invocation \ {i} : npc'[j] = npc[j]
      BY <1>0, <2>1 DEF N!WorkerStep, N!SavePreview, N!SavePreviewFails, N!LookUpMarker, N!LookUpMisses,
                        N!TelegramStep, N!EndOfLoop, N!WriteMarker, N!WriteMarkerFails,
                        N!Sent, N!NotSent, N!SentUnseen, N!SendMessage, N!AfterSave, N!Goto, NP!TypeOK
    <2>4. Inside'
      BY <2>1, <2>3 DEF Inside
    <2> QED  BY <2>2, <2>4
  <1>5. ASSUME NEW i \in Invocation, Evict(i) PROVE NP!IInv' /\ Inside'
    <2>1. /\ UNCHANGED <<mail, chat, anyOk, preview, marker, clock, told>>
          /\ npc' = [npc EXCEPT ![i] = "done"] /\ trouble < MaxTrouble /\ trouble' = trouble + 1
      BY <1>5 DEF Evict, N!Trouble
    <2>2. trouble' \in 0..MaxTrouble /\ trouble' # 0
      BY <1>0, <2>1, EmailAssumption DEF NP!TypeOK
    <2>3. /\ npc' \in [Invocation -> NP!NPC] /\ clock' \in Nat /\ clock' >= clock
          /\ \A j \in Invocation : npc'[j] = "mark" => anyOk[j]
      BY <1>0, <2>1 DEF NP!TypeOK, NP!NPC, NP!IInv, NP!Honest
    <2>4. NP!IInv'
      BY <2>1, <2>2, <2>3, NotifySteps, NP!QuietStep DEF NP!kv
    <2>5. Inside'
      BY <1>0, <1>5, <2>1 DEF Evict, Ends, Inside, NP!TypeOK
    <2> QED  BY <2>4, <2>5
  <1> QED
    BY <1>1, <1>2, <1>3, <1>4, <1>5 DEF Next, GoStep, IngestStep, Unreadable, Join

\* What the marker keeps apart, while nothing goes wrong.
LEMMA ApartPart ==
    ASSUME EInv, Next, trouble' = 0
    PROVE  Apart'
  <1> USE DEF EInv
  <1>0. /\ trouble = 0 /\ UNCHANGED mail /\ NP!TypeOK /\ clock \in Nat
        /\ \A i \in Invocation : preview[i] \in Nat
    BY SoloPart, IngestPart DEF NP!IInv, NP!TypeOK
  <1>1. ~N!Trouble
    BY <1>0 DEF N!Trouble
  <1>2. CASE UNCHANGED notify
    BY <1>0, <1>2, ApartStutter DEF notify
  <1>3. CASE Tick
    BY <1>0, <1>3, ApartStutter DEF Tick, N!Tick, N!kv
  <1>4. ASSUME NEW i \in Invocation, Receive(i) PROVE Apart'
    <2>1. /\ UNCHANGED <<told, preview, clock>> /\ npc'[i] = "save"
          /\ \A j \in Invocation \ {i} : npc'[j] = npc[j]
      BY <1>0, <1>4 DEF Receive, N!Start, N!Goto, N!kv, NP!TypeOK
    <2> QED  BY <1>0, <2>1, ApartStutter
  <1>5. ASSUME NEW i \in Invocation, NotifyStep(i) \/ TelegramStep(i) PROVE Apart'
    <2>1. (N!WorkerStep(i) \/ N!TelegramStep(i)) /\ UNCHANGED outcome
      BY <1>5 DEF NotifyStep, TelegramStep
    <2>2. \/ N!SavePreview(i) \/ N!LookUpMarker(i) \/ N!TelegramStep(i)
          \/ N!EndOfLoop(i) \/ N!WriteMarker(i)
      BY <1>1, <2>1 DEF N!WorkerStep, N!SavePreviewFails, N!LookUpMisses, N!WriteMarkerFails
    <2>3. CASE N!EndOfLoop(i) \/ N!WriteMarker(i)
      <3>1. /\ UNCHANGED <<told, preview, clock>> /\ npc[i] \in {"send", "mark"}
            /\ \A j \in Invocation \ {i} : npc'[j] = npc[j]
        BY <1>0, <2>3 DEF N!EndOfLoop, N!WriteMarker, N!Goto, N!kv, NP!TypeOK
      <3> QED  BY <1>0, <3>1, ApartStutter
    <2> QED
      BY <1>0, <2>1, <2>2, <2>3, SavePreviewApart, LookUpApart, TelegramApart
  <1>6. ASSUME NEW i \in Invocation, Evict(i) PROVE FALSE
    BY <1>1, <1>6 DEF Evict
  <1> QED
    BY <1>2, <1>3, <1>4, <1>5, <1>6 DEF Next, GoStep, IngestStep, Unreadable, Join

\* The invariant is inductive.
LEMMA StepEInv == EInv /\ [Next]_vars => EInv'
  <1> SUFFICES ASSUME EInv, [Next]_vars PROVE EInv'
    OBVIOUS
  <1>1. CASE Next
    BY <1>1, IngestPart, SoloPart, NotifyPart, ApartPart DEF EInv
  <1>2. CASE UNCHANGED vars
    <2>1. UNCHANGED <<ingest, notify, mail, outcome>>
      BY <1>2 DEF vars
    <2>2. IP!IInv' /\ Returned' /\ Solo'
      BY <2>1, IngestKeeps DEF EInv, Returned, Solo, ingest, I!vars
    <2>3. NP!IInv'
      BY <2>1, NotifyKeeps DEF EInv, notify, N!vars
    <2>4. Inside'
      BY <2>1 DEF EInv, Inside, notify
    <2>5. ASSUME trouble = 0 PROVE Apart'
      BY <2>1, <2>5, ApartStutter DEF EInv, notify, NP!IInv, NP!TypeOK
    <2> QED  BY <2>1, <2>2, <2>3, <2>4, <2>5 DEF EInv, notify
  <1> QED  BY <1>1, <1>2

\* Both paths of email(), with a sender that retries what is bounced.
THEOREM Invariance == Spec => []EInv
  BY InitEInv, StepEInv, PTL DEF Spec, SafetySpec

\* A mail for which email() returns without a bounce is stored by Go, whatever
\* becomes of the preview and of Telegram.
THEOREM DeliveredMailIsStored == Spec => []DeliveredIsStored
  <1>1. EInv => DeliveredIsStored
    BY DEF EInv, Returned, IP!IInv, IP!NoSilentLoss, DeliveredIsStored
  <1> QED  BY <1>1, Invariance, PTL

\* A bounced mail that comes back tells no chat a second time while a preview
\* of the first announcement can be read, unless a call went wrong.
THEOREM RetriesAreSilent == Spec => []RetryTellsNobodyTwice
  <1>1. EInv => RetryTellsNobodyTwice
    <2> SUFFICES ASSUME EInv, trouble = 0, NEW i \in Invocation, NEW j \in Invocation,
                        NEW c \in 1..Chats, i # j, mail[i] = mail[j],
                        <<i, c>> \in told, <<j, c>> \in told
                 PROVE  ~N!Live(preview[i]) \/ ~N!Live(preview[j])
      BY DEF RetryTellsNobodyTwice
    <2>1. NP!Told(i) /\ NP!Told(j)
      BY DEF NP!Told
    <2>2. Dead(i) \/ Dead(j)
      BY <2>1 DEF EInv, Apart, ApartAt
    <2>3. clock \in Nat /\ preview[i] \in Nat /\ preview[j] \in Nat
      BY DEF EInv, NP!IInv, NP!TypeOK
    <2> QED  BY <2>2, <2>3 DEF Dead, N!Live
  <1> QED  BY <1>1, Invariance, PTL

\* What either path promises by itself (see IngestClient and Notify).
Parts == I!OwnAnswer /\ I!NoSilentLoss /\ N!MarkerMeansTold /\ N!AnnouncedPreviewExists

\* It holds under email() as well: the answers of Go are not mixed up, a marker
\* silences no mail that Telegram has not shown, and an announcement follows
\* its preview, even though the runtime may drop both paths at any point
\* between their start and the bounce.
THEOREM PartsKeepTheirPromises == Spec => []Parts
  <1>1. EInv => I!OwnAnswer /\ I!NoSilentLoss
    BY DEF EInv, IP!IInv, IP!OwnAnswer, IP!NoSilentLoss, IP!Waiting, I!OwnAnswer, I!NoSilentLoss, I!Waiting
  <1>2. EInv => N!MarkerMeansTold
    BY DEF EInv, NP!IInv, NP!MarkerMeansTold, NP!Keys, NP!SentKey, NP!Told,
           N!MarkerMeansTold, N!Keys, N!SentKey, N!Told
  <1>3. EInv => N!AnnouncedPreviewExists
    <2> SUFFICES ASSUME EInv, trouble = 0, NEW i \in Invocation, N!Told(i)
                 PROVE  /\ preview[i] # 0
                        /\ npc[i] = "done" /\ anyOk[i] => marker[N!SentKey(mail[i])] >= preview[i]
      BY DEF N!AnnouncedPreviewExists
    <2>1. NP!Told(i) /\ N!SentKey(mail[i]) = NP!SentKey(mail[i])
      BY DEF N!Told, NP!Told, N!SentKey, NP!SentKey
    <2>2. NP!CleanAt(i)
      BY DEF EInv, NP!IInv, NP!Clean
    <2> QED  BY <2>1, <2>2 DEF NP!CleanAt
  <1> QED  BY <1>1, <1>2, <1>3, Invariance, PTL DEF Parts

-----------------------------------------------------------------------------
\* How many steps an invocation can still take.  deliverToGo: a POST, its
\* answer, a second POST and its answer.
IngestLeft(c) ==
    CASE c \in {"ok", "failed"} -> 0
      [] c = "wait2" -> 1
      [] c = "send2" -> 2
      [] c = "wait1" -> 3
      [] c = "send1" -> 4
      [] c = "new"   -> 5
\* deliverPreviewAndTelegram: one call per chat, and those around the loop.
NotifyLeft(c, k) ==
    CASE c = "done"   -> 0
      [] c = "mark"   -> 1
      [] c = "send"   -> 3 + Chats - k
      [] c = "lookup" -> 3 + Chats
      [] c = "save"   -> 4 + Chats
      [] c = "new"    -> 5 + Chats
EmailLeft(c) ==
    CASE c = "none"    -> 2
      [] c = "running" -> 1
      [] c \in {"delivered", "rejected", "evicted"} -> 0
Left(i) == EmailLeft(outcome[i]) + IngestLeft(ipc[i]) + NotifyLeft(npc[i], chat[i])

Moves(i) ==
    \/ Receive(i) \/ Unreadable(i) \/ Join(i) \/ Evict(i)
    \/ IngestStep(i) \/ NotifyStep(i) \/ TelegramStep(i)

\* Every step of an invocation brings it closer to its end, and no step of the
\* server, of time or of another invocation sets it back: there is one retry,
\* one pass over the chats and no way back.  What is left of
\* EveryInvocationEnds is that what can run does.
WindsDown ==
    [][\A i \in Invocation :
         /\ Moves(i) => Left(i)' < Left(i)
         /\ Left(i)' <= Left(i)]_vars
LeftBounded == \A i \in Invocation : Left(i) \in 0..12 + Chats

\* The number of steps from each place.
LEMMA IngestCounts ==
    ASSUME NEW c \in IP!IPC
    PROVE  /\ c \in {"ok", "failed"} => IngestLeft(c) = 0
           /\ c = "wait2" => IngestLeft(c) = 1
           /\ c = "send2" => IngestLeft(c) = 2
           /\ c = "wait1" => IngestLeft(c) = 3
           /\ c = "send1" => IngestLeft(c) = 4
           /\ c = "new" => IngestLeft(c) = 5
           /\ IngestLeft(c) \in 0..5
  <1>1. /\ c \in {"ok", "failed"} => IngestLeft(c) = 0
        /\ c = "wait2" => IngestLeft(c) = 1
        /\ c = "send2" => IngestLeft(c) = 2
        /\ c = "wait1" => IngestLeft(c) = 3
        /\ c = "send1" => IngestLeft(c) = 4
        /\ c = "new" => IngestLeft(c) = 5
    BY DEF IngestLeft
  <1> QED  BY <1>1 DEF IP!IPC, IP!Waiting, IP!Settled

LEMMA NotifyCounts ==
    ASSUME NEW c \in NP!NPC, NEW k \in 1..Chats + 1
    PROVE  /\ c = "done" => NotifyLeft(c, k) = 0
           /\ c = "mark" => NotifyLeft(c, k) = 1
           /\ c = "send" => NotifyLeft(c, k) = 3 + Chats - k
           /\ c = "lookup" => NotifyLeft(c, k) = 3 + Chats
           /\ c = "save" => NotifyLeft(c, k) = 4 + Chats
           /\ c = "new" => NotifyLeft(c, k) = 5 + Chats
           /\ NotifyLeft(c, k) \in 0..5 + Chats
           /\ c \in {"send", "lookup", "save", "new"} => NotifyLeft(c, k) > 1
  <1>1. /\ c = "done" => NotifyLeft(c, k) = 0
        /\ c = "mark" => NotifyLeft(c, k) = 1
        /\ c = "send" => NotifyLeft(c, k) = 3 + Chats - k
        /\ c = "lookup" => NotifyLeft(c, k) = 3 + Chats
        /\ c = "save" => NotifyLeft(c, k) = 4 + Chats
        /\ c = "new" => NotifyLeft(c, k) = 5 + Chats
    BY DEF NotifyLeft
  <1> PICK x : x = NotifyLeft(c, k)
    OBVIOUS
  <1>2. /\ x \in {0, 1, 3 + Chats - k, 3 + Chats, 4 + Chats, 5 + Chats}
        /\ c \in {"send", "lookup", "save", "new"} =>
             x \in {3 + Chats - k, 3 + Chats, 4 + Chats, 5 + Chats}
    BY <1>1 DEF NP!NPC
  <1>3. x \in 0..5 + Chats /\ (c \in {"send", "lookup", "save", "new"} => x > 1)
    BY <1>2, EmailAssumption
  <1> QED  BY <1>1, <1>3

LEMMA EmailCounts ==
    ASSUME NEW c \in Outcome
    PROVE  /\ c = "none" => EmailLeft(c) = 2
           /\ c = "running" => EmailLeft(c) = 1
           /\ c \in {"delivered", "rejected", "evicted"} => EmailLeft(c) = 0
           /\ EmailLeft(c) \in 0..2
  <1>1. /\ c = "none" => EmailLeft(c) = 2
        /\ c = "running" => EmailLeft(c) = 1
        /\ c \in {"delivered", "rejected", "evicted"} => EmailLeft(c) = 0
    BY DEF EmailLeft
  <1> QED  BY <1>1 DEF Outcome

\* The three numbers of an invocation, and their sum.
LEMMA Counts ==
    ASSUME EInv, NEW i \in Invocation
    PROVE  /\ ipc[i] \in IP!IPC /\ npc[i] \in NP!NPC /\ chat[i] \in 1..Chats + 1 /\ outcome[i] \in Outcome
           /\ EmailLeft(outcome[i]) \in 0..2 /\ IngestLeft(ipc[i]) \in 0..5
           /\ NotifyLeft(npc[i], chat[i]) \in 0..5 + Chats
  <1>1. ipc[i] \in IP!IPC /\ npc[i] \in NP!NPC /\ chat[i] \in 1..Chats + 1 /\ outcome[i] \in Outcome
    BY DEF EInv, IP!IInv, IP!TypeOK, NP!IInv, NP!TypeOK
  <1> QED  BY <1>1, EmailCounts, IngestCounts, NotifyCounts

\* What a step leaves alone.
LEMMA OthersWait ==
    ASSUME EInv, NEW i \in Invocation, Moves(i), NEW j \in Invocation \ {i}
    PROVE  ipc'[j] = ipc[j] /\ npc'[j] = npc[j] /\ chat'[j] = chat[j] /\ outcome'[j] = outcome[j]
  <1> USE DEF EInv, IP!IInv, IP!TypeOK, NP!IInv, NP!TypeOK
  <1>1. CASE Receive(i) \/ Unreadable(i) \/ Join(i) \/ Evict(i)
    BY <1>1 DEF Receive, Unreadable, Join, Evict, Ends, I!Start, I!Goto, N!Start, N!Goto, ingest, notify
  <1>2. CASE IngestStep(i)
    BY <1>2 DEF IngestStep, notify, I!ClientStep, I!Post, I!PostFails, I!Receive, I!Abort, I!ServerError, I!Goto
  <1>3. CASE NotifyStep(i) \/ TelegramStep(i)
    BY <1>3 DEF NotifyStep, TelegramStep, ingest, N!WorkerStep, N!SavePreview, N!SavePreviewFails,
                N!LookUpMarker, N!LookUpMisses, N!TelegramStep, N!EndOfLoop, N!WriteMarker,
                N!WriteMarkerFails, N!Sent, N!NotSent, N!SentUnseen, N!SendMessage, N!AfterSave, N!Goto
  <1> QED  BY <1>1, <1>2, <1>3 DEF Moves

\* One path comes closer to its end while the other stands still.
LEMMA IngestLowers ==
    ASSUME EInv, NEW i \in Invocation, IngestStep(i), ipc'[i] \in IP!IPC
    PROVE  /\ IngestLeft(ipc'[i]) < IngestLeft(ipc[i])
           /\ npc'[i] = npc[i] /\ chat'[i] = chat[i] /\ outcome'[i] = outcome[i]
  <1>1. UNCHANGED <<npc, chat, outcome>>
    BY DEF IngestStep, notify
  <1>2. <<ipc[i], ipc'[i]>> \in
          {<<"send1", "wait1">>, <<"send2", "wait2">>, <<"send1", "failed">>, <<"send2", "failed">>,
           <<"wait1", "ok">>, <<"wait2", "ok">>, <<"wait1", "failed">>, <<"wait2", "failed">>,
           <<"wait1", "send2">>}
    BY DEF EInv, IP!IInv, IP!TypeOK, IngestStep, I!ClientStep, I!Post, I!PostFails, I!Receive, I!Abort,
           I!ServerError, I!Goto, I!Waiting
  <1> PICK c \in IP!IPC, d \in IP!IPC : c = ipc[i] /\ d = ipc'[i]
    BY Counts
  <1>3. IngestLeft(d) < IngestLeft(c)
    BY <1>2, IngestCounts
  <1> QED  BY <1>1, <1>3

LEMMA NotifyLowers ==
    ASSUME EInv, NEW i \in Invocation, NotifyStep(i) \/ TelegramStep(i),
           npc'[i] \in NP!NPC, chat'[i] \in 1..Chats + 1
    PROVE  /\ NotifyLeft(npc'[i], chat'[i]) < NotifyLeft(npc[i], chat[i])
           /\ ipc'[i] = ipc[i] /\ outcome'[i] = outcome[i]
  <1>1. UNCHANGED <<ipc, outcome>>
    BY DEF NotifyStep, TelegramStep, ingest
  <1>2. \/ npc[i] = "save" /\ npc'[i] \in {"lookup", "done"}
        \/ npc[i] = "lookup" /\ npc'[i] \in {"send", "done"}
        \/ npc[i] = "send" /\ npc'[i] \in {"mark", "done"}
        \/ npc[i] = "mark" /\ npc'[i] = "done"
        \/ npc[i] = "send" /\ npc'[i] = "send" /\ chat'[i] = chat[i] + 1
    BY DEF EInv, NP!IInv, NP!TypeOK, NotifyStep, TelegramStep, N!WorkerStep, N!SavePreview,
           N!SavePreviewFails, N!LookUpMarker, N!LookUpMisses, N!TelegramStep, N!EndOfLoop, N!WriteMarker,
           N!WriteMarkerFails, N!Sent, N!NotSent, N!SentUnseen, N!SendMessage, N!AfterSave, N!Goto
  <1> PICK c \in NP!NPC, d \in NP!NPC, k \in 1..Chats + 1, l \in 1..Chats + 1 :
         c = npc[i] /\ d = npc'[i] /\ k = chat[i] /\ l = chat'[i]
    BY Counts
  <1>3. NotifyLeft(d, l) < NotifyLeft(c, k)
    <2> PICK x, y : x = NotifyLeft(c, k) /\ y = NotifyLeft(d, l)
      OBVIOUS
    <2>1. \/ x = 4 + Chats /\ y \in {3 + Chats, 0}
          \/ x = 3 + Chats /\ y \in {3 + Chats - l, 0}
          \/ x > 1 /\ x \in 0..5 + Chats /\ y \in {1, 0}
          \/ x = 1 /\ y = 0
          \/ x = 3 + Chats - k /\ y = 3 + Chats - l /\ l = k + 1
      BY <1>2, NotifyCounts
    <2>2. y < x
      BY <2>1, EmailAssumption
    <2> QED  BY <2>2
  <1> QED  BY <1>1, <1>3

\* email() itself: both paths start, or the invocation ends.
LEMMA EmailLowers ==
    ASSUME EInv, EInv', NEW i \in Invocation, Receive(i) \/ Unreadable(i) \/ Join(i) \/ Evict(i)
    PROVE  /\ EmailLeft(outcome'[i]) < EmailLeft(outcome[i])
           /\ IngestLeft(ipc'[i]) <= IngestLeft(ipc[i])
           /\ NotifyLeft(npc'[i], chat'[i]) <= NotifyLeft(npc[i], chat[i])
  <1> USE DEF EInv, IP!IInv, IP!TypeOK, NP!IInv, NP!TypeOK
  <1>1. <<outcome[i], outcome'[i]>> \in
          {<<"none", "running">>, <<"none", "rejected">>, <<"running", "rejected">>,
           <<"running", "delivered">>, <<"running", "evicted">>}
    BY DEF Receive, Unreadable, Join, Evict, Arrives, Ends
  <1>2. \/ ipc'[i] = ipc[i] /\ npc'[i] = npc[i] /\ chat'[i] = chat[i]
        \/ ipc[i] = "new" /\ ipc'[i] \in {"send1", "failed"} /\ npc[i] = "new" /\ npc'[i] = "save"
        \/ ipc'[i] = "failed" /\ npc'[i] = "done"
    BY DEF Receive, Unreadable, Join, Evict, ingest, notify, I!Start, I!Goto, N!Start, N!Goto
  <1>3. /\ outcome[i] \in Outcome /\ outcome'[i] \in Outcome /\ ipc[i] \in IP!IPC /\ ipc'[i] \in IP!IPC
        /\ npc[i] \in NP!NPC /\ npc'[i] \in NP!NPC /\ chat[i] \in 1..Chats + 1 /\ chat'[i] \in 1..Chats + 1
    OBVIOUS
  <1> HIDE DEF EInv
  <1> PICK c \in IP!IPC, d \in IP!IPC, e \in Outcome, f \in Outcome :
         c = ipc[i] /\ d = ipc'[i] /\ e = outcome[i] /\ f = outcome'[i]
    BY <1>3
  <1> PICK n \in NP!NPC, m \in NP!NPC, k \in 1..Chats + 1, l \in 1..Chats + 1 :
         n = npc[i] /\ m = npc'[i] /\ k = chat[i] /\ l = chat'[i]
    BY <1>3
  <1>4. EmailLeft(f) < EmailLeft(e)
    BY <1>1, EmailCounts
  <1>5. IngestLeft(d) <= IngestLeft(c)
    <2>1. c = d \/ d = "failed" \/ (c = "new" /\ d = "send1")
      BY <1>2
    <2> QED  BY <2>1, IngestCounts
  <1>6. NotifyLeft(m, l) <= NotifyLeft(n, k)
    <2>1. (n = m /\ k = l) \/ m = "done" \/ (n = "new" /\ m = "save")
      BY <1>2
    <2> PICK x, y : x = NotifyLeft(n, k) /\ y = NotifyLeft(m, l)
      OBVIOUS
    <2>2. x \in 0..5 + Chats /\ (x = y \/ y = 0 \/ (x = 5 + Chats /\ y = 4 + Chats))
      BY <2>1, NotifyCounts
    <2>3. y <= x
      BY <2>2, EmailAssumption
    <2> QED  BY <2>3
  <1> QED  BY <1>4, <1>5, <1>6

\* Every step of an invocation brings it closer to its end.
LEMMA MoveLowers ==
    ASSUME EInv, EInv', NEW i \in Invocation, Moves(i)
    PROVE  Left(i)' < Left(i) /\ Left(i)' <= Left(i)
  <1> PICK a, b, c, x, y, z :
         /\ a = EmailLeft(outcome[i]) /\ b = IngestLeft(ipc[i]) /\ c = NotifyLeft(npc[i], chat[i])
         /\ x = EmailLeft(outcome'[i]) /\ y = IngestLeft(ipc'[i]) /\ z = NotifyLeft(npc'[i], chat'[i])
    OBVIOUS
  <1>1. a \in 0..2 /\ b \in 0..5 /\ c \in 0..5 + Chats
    BY Counts
  <1>2. /\ ipc'[i] \in IP!IPC /\ npc'[i] \in NP!NPC /\ chat'[i] \in 1..Chats + 1 /\ outcome'[i] \in Outcome
    BY DEF EInv, IP!IInv, IP!TypeOK, NP!IInv, NP!TypeOK
  <1>3. x \in 0..2 /\ y \in 0..5 /\ z \in 0..5 + Chats
    BY <1>2, EmailCounts, IngestCounts, NotifyCounts
  <1>4. \/ x < a /\ y <= b /\ z <= c
        \/ x = a /\ y < b /\ z = c
        \/ x = a /\ y = b /\ z < c
    <2>1. CASE IngestStep(i)
      BY <1>2, <2>1, IngestLowers
    <2>2. CASE NotifyStep(i) \/ TelegramStep(i)
      BY <1>2, <2>2, NotifyLowers
    <2>3. CASE Receive(i) \/ Unreadable(i) \/ Join(i) \/ Evict(i)
      BY <2>3, EmailLowers
    <2> QED  BY <2>1, <2>2, <2>3 DEF Moves
  <1>5. x + y + z < a + b + c /\ x + y + z <= a + b + c
    BY <1>1, <1>3, <1>4, EmailAssumption
  <1>6. Left(i) = a + b + c /\ Left(i)' = x + y + z
    BY DEF Left
  <1> QED  BY <1>5, <1>6

LEMMA LeftType == EInv => LeftBounded
  <1> SUFFICES ASSUME EInv, NEW i \in Invocation PROVE Left(i) \in 0..12 + Chats
    BY DEF LeftBounded
  <1> PICK a, b, c : a = EmailLeft(outcome[i]) /\ b = IngestLeft(ipc[i]) /\ c = NotifyLeft(npc[i], chat[i])
    OBVIOUS
  <1>1. a \in 0..2 /\ b \in 0..5 /\ c \in 0..5 + Chats
    BY Counts
  <1>2. a + b + c \in 0..12 + Chats
    BY <1>1, EmailAssumption
  <1> QED  BY <1>2 DEF Left

\* Every invocation winds down, in at most 12 steps and one for each chat,
\* whatever Go, Telegram, KV and the runtime do.
THEOREM InvocationsWindDown == Spec => []LeftBounded /\ WindsDown
  <1> DEFINE Down == \A i \in Invocation :
                       /\ Moves(i) => Left(i)' < Left(i)
                       /\ Left(i)' <= Left(i)
  <1>1. ASSUME EInv, EInv', [Next]_vars PROVE [Down]_vars
    <2> SUFFICES ASSUME NEW i \in Invocation, ~Moves(i) PROVE Left(i)' <= Left(i)
      BY <1>1, MoveLowers
    <2>1. ipc'[i] = ipc[i] /\ npc'[i] = npc[i] /\ chat'[i] = chat[i] /\ outcome'[i] = outcome[i]
      <3>1. CASE UNCHANGED vars
        BY <3>1 DEF vars, ingest, notify
      <3>2. CASE GoStep \/ Tick
        BY <3>2 DEF GoStep, Tick, I!ServerStep, I!client, N!Tick, ingest, notify
      <3>3. ASSUME NEW j \in Invocation, Moves(j)
            PROVE  ipc'[i] = ipc[i] /\ npc'[i] = npc[i] /\ chat'[i] = chat[i] /\ outcome'[i] = outcome[i]
        BY <1>1, <3>3, OthersWait
      <3> QED  BY <1>1, <3>1, <3>2, <3>3 DEF Next, Moves
    <2>2. Left(i)' = Left(i)
      BY <2>1 DEF Left
    <2>3. Left(i) \in Nat
      BY <1>1, LeftType, EmailAssumption DEF LeftBounded
    <2> QED  BY <2>2, <2>3
  <1> QED  BY <1>1, LeftType, Invariance, PTL DEF Spec, SafetySpec, WindsDown
=============================================================================
