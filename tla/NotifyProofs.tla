---------------------------- MODULE NotifyProofs ----------------------------
(***************************************************************************)
(* Proofs about Notify for every number of invocations, mails and chats,   *)
(* every assignment of Message-IDs and every TTL.                          *)
(*                                                                         *)
(* The three properties need the order in which one invocation writes:     *)
(* preview, announcement, marker.  Clean puts it down for the runs without *)
(* trouble, Honest for all of them.                                        *)
(***************************************************************************)
EXTENDS Notify, TLAPS

\* An invocation that counts a success has told a chat, and only such an
\* invocation writes a marker.
Honest ==
    \A i \in Invocation :
        /\ anyOk[i] => Told(i)
        /\ npc[i] = "mark" => anyOk[i]

\* No entry of KV outlives one that is written now.
Fresh ==
    /\ \A i \in Invocation : preview[i] <= Expiry
    /\ \A k \in Keys : marker[k] <= Expiry

\* While nothing has gone wrong: no announcement before the preview, every
\* announcement is counted, and the marker of a finished one covers it.
CleanAt(i) ==
    /\ npc[i] \in {"lookup", "send", "mark", "done"} => preview[i] # 0
    /\ Told(i) => anyOk[i] /\ npc[i] \in {"send", "mark", "done"}
    /\ npc[i] = "done" /\ anyOk[i] => marker[SentKey(mail[i])] >= preview[i]
Clean == trouble = 0 => \A i \in Invocation : CleanAt(i)

IInv == TypeOK /\ Honest /\ Fresh /\ MarkerMeansTold /\ Clean

-----------------------------------------------------------------------------
\* Before the first mail nothing is cached, announced or marked.
LEMMA InitIInv == Init => IInv
  <1> SUFFICES ASSUME Init PROVE IInv
    OBVIOUS
  <1>1. TypeOK
    BY NotifyAssumption DEF Init, TypeOK, NPC
  <1>2. Honest /\ Fresh /\ MarkerMeansTold /\ Clean
    BY NotifyAssumption DEF Init, Honest, Fresh, Expiry, MarkerMeansTold, Clean, CleanAt, Told
  <1> QED  BY <1>1, <1>2 DEF IInv

\* The key of every invocation's mail is one of Keys.
LEMMA KeyType ==
    ASSUME TypeOK, NEW i \in Invocation
    PROVE  SentKey(mail[i]) \in Keys
  BY DEF TypeOK, Keys

\* A step that changes only where invocations are, and perhaps counts some
\* trouble, keeps what is said of KV and of Telegram.
LEMMA QuietStep ==
    ASSUME IInv, UNCHANGED <<mail, chat, anyOk, kv, told>>, clock' \in Nat, clock' >= clock,
           npc' \in [Invocation -> NPC], trouble' \in 0..MaxTrouble,
           \A i \in Invocation : npc'[i] = "mark" => anyOk[i],
           trouble' = 0 => trouble = 0 /\ \A i \in Invocation :
               \/ npc'[i] = npc[i]
               \/ npc[i] = "new" /\ npc'[i] = "save"
               \/ npc[i] = "lookup" /\ npc'[i] \in {"send", "done"}
               \/ npc[i] = "send" /\ npc'[i] = IF anyOk[i] THEN "mark" ELSE "done"
    PROVE  IInv'
  <1> USE DEF IInv, kv
  <1>1. TypeOK'
    BY DEF TypeOK
  <1>2. Honest'
    BY DEF Honest, Told
  <1>3. Fresh'
    BY NotifyAssumption DEF Fresh, Expiry, TypeOK
  <1>4. MarkerMeansTold'
    BY DEF MarkerMeansTold, Told
  <1>5. Clean'
    <2> SUFFICES ASSUME trouble' = 0, NEW i \in Invocation PROVE CleanAt(i)'
      BY DEF Clean
    <2>1. CleanAt(i)
      BY DEF Clean
    <2>2. npc[i] = "lookup" => ~anyOk[i]
      BY <2>1 DEF CleanAt, Honest
    <2>3. Told(i)' <=> Told(i)
      BY DEF Told
    <2> QED  BY <2>1, <2>2, <2>3 DEF CleanAt
  <1> QED  BY <1>1, <1>2, <1>3, <1>4, <1>5

\* The preview is written with the longest expiry there is, and before the
\* invocation has told anybody.
LEMMA SavePreviewIInv ==
    ASSUME IInv, NEW i \in Invocation, SavePreview(i)
    PROVE  IInv'
  <1> USE DEF IInv
  <1>1. TypeOK' /\ Expiry \in Nat \ {0}
    BY NotifyAssumption DEF SavePreview, AfterSave, Goto, TypeOK, NPC, Expiry
  <1>2. Honest' /\ MarkerMeansTold'
    BY DEF SavePreview, AfterSave, Goto, TypeOK, Honest, MarkerMeansTold, Told
  <1>3. Fresh'
    BY <1>1 DEF SavePreview, Fresh, Expiry, TypeOK
  <1>4. Clean'
    <2> SUFFICES ASSUME trouble = 0, NEW j \in Invocation PROVE CleanAt(j)'
      BY DEF Clean, SavePreview
    <2>1. CleanAt(j) /\ (Told(j)' <=> Told(j))
      BY DEF Clean, SavePreview, Told
    <2>2. CASE j # i
      BY <2>1, <2>2 DEF CleanAt, SavePreview, AfterSave, Goto, TypeOK
    <2>3. CASE j = i
      <3>1. ~Told(i) /\ ~anyOk[i]
        BY <2>1, <2>3 DEF CleanAt, SavePreview, Honest
      <3> QED  BY <1>1, <2>1, <2>3, <3>1 DEF CleanAt, SavePreview, AfterSave, Goto, TypeOK
    <2> QED  BY <2>2, <2>3
  <1> QED  BY <1>1, <1>2, <1>3, <1>4

\* A turn of the loop tells at most the chat it is at, and counts it if the
\* answer arrives.
LEMMA SendMessageIInv ==
    ASSUME IInv, NEW i \in Invocation, TelegramStep(i)
    PROVE  IInv'
  <1> USE DEF IInv
  <1> PICK shown \in BOOLEAN, ok \in BOOLEAN :
        /\ SendMessage(i, shown, ok)
        /\ ok => shown
        /\ trouble' \in 0..MaxTrouble /\ (trouble' = 0 => trouble = 0 /\ shown = ok)
    <2>1. CASE Sent(i) \/ NotSent(i)
      BY <2>1 DEF Sent, NotSent, TypeOK
    <2>2. CASE SentUnseen(i)
      <3>1. trouble' \in 0..MaxTrouble /\ trouble' # 0
        BY <2>2, NotifyAssumption DEF SentUnseen, Trouble, TypeOK
      <3> QED  BY <2>2, <3>1 DEF SentUnseen
    <2> QED  BY <2>1, <2>2 DEF TelegramStep
  <1>1. chat[i] \in 1..Chats
    BY NotifyAssumption DEF SendMessage, TypeOK
  <1>2. /\ anyOk' \in [Invocation -> BOOLEAN]
        /\ anyOk'[i] = (anyOk[i] \/ ok)
        /\ \A j \in Invocation \ {i} : anyOk'[j] = anyOk[j]
    BY DEF SendMessage, TypeOK
  <1>3. told \subseteq told' /\ told' \subseteq told \cup {<<i, chat[i]>>}
    BY DEF SendMessage
  <1>4. /\ \A j \in Invocation : Told(j) => Told(j)'
        /\ \A j \in Invocation \ {i} : Told(j)' => Told(j)
    BY <1>3 DEF Told
  <1>5. /\ shown => Told(i)'
        /\ ~shown => (Told(i)' => Told(i))
    BY <1>1 DEF SendMessage, Told
  <1>6. TypeOK'
    <2>1. told' \subseteq Invocation \X (1..Chats)
      BY <1>1, <1>3 DEF TypeOK
    <2>2. chat' \in [Invocation -> 1..Chats + 1]
      BY <1>1, NotifyAssumption DEF SendMessage, TypeOK
    <2> QED  BY <1>2, <2>1, <2>2 DEF TypeOK, SendMessage, kv
  <1>7. Honest'
    BY <1>2, <1>4, <1>5 DEF Honest, SendMessage
  <1>8. Fresh' /\ MarkerMeansTold'
    BY <1>4 DEF Fresh, Expiry, MarkerMeansTold, SendMessage, kv, TypeOK
  <1>9. Clean'
    <2> SUFFICES ASSUME trouble' = 0, NEW j \in Invocation PROVE CleanAt(j)'
      BY DEF Clean
    <2>1. CleanAt(j)
      BY DEF Clean
    <2>2. CASE j # i
      BY <1>2, <1>4, <2>1, <2>2 DEF CleanAt, SendMessage, kv
    <2>3. CASE j = i
      BY <1>2, <1>5, <2>1, <2>3 DEF CleanAt, SendMessage, kv
    <2> QED  BY <2>2, <2>3
  <1> QED  BY <1>6, <1>7, <1>8, <1>9

\* The marker is written by an invocation that has told a chat, and no entry
\* of KV outlives it.
LEMMA WriteMarkerIInv ==
    ASSUME IInv, NEW i \in Invocation, WriteMarker(i)
    PROVE  IInv'
  <1> USE DEF IInv
  <1> DEFINE key == SentKey(mail[i])
  <1>1. key \in Keys
    BY KeyType
  <1> HIDE DEF key
  <1>2. /\ marker' = [marker EXCEPT ![key] = Expiry] /\ npc[i] = "mark"
        /\ npc' = [npc EXCEPT ![i] = "done"]
        /\ UNCHANGED <<mail, chat, anyOk, preview, clock, told, trouble>>
    BY DEF WriteMarker, Goto, key
  <1>3. Expiry \in Nat
    BY NotifyAssumption DEF Expiry, TypeOK
  <1>4. \A k \in Keys : marker'[k] = IF k = key THEN Expiry ELSE marker[k]
    BY <1>1, <1>2 DEF TypeOK
  <1>5. TypeOK'
    BY <1>1, <1>2, <1>3 DEF TypeOK, NPC
  <1>6. Fresh'
    BY <1>2, <1>3, <1>4 DEF Fresh, Expiry
  <1>7. Honest'
    BY <1>2 DEF Honest, Told, TypeOK
  <1>8. MarkerMeansTold'
    BY <1>2, <1>4 DEF MarkerMeansTold, Honest, Told, key
  <1>9. Clean'
    <2> SUFFICES ASSUME trouble = 0, NEW j \in Invocation PROVE CleanAt(j)'
      BY <1>2 DEF Clean
    <2>1. CleanAt(j) /\ (Told(j)' <=> Told(j))
      BY <1>2 DEF Clean, Told
    <2>2. SentKey(mail[j]) \in Keys
      BY KeyType
    <2>3. marker'[SentKey(mail[j])] >= marker[SentKey(mail[j])]
      BY <1>3, <1>4, <2>2 DEF Fresh, TypeOK
    <2>4. CASE j # i
      <3>1. /\ marker[SentKey(mail[j])] \in Nat /\ marker'[SentKey(mail[j])] \in Nat
            /\ preview[j] \in Nat
        BY <1>5, <2>2 DEF TypeOK
      <3> QED  BY <1>2, <2>1, <2>3, <2>4, <3>1 DEF CleanAt, TypeOK
    <2>5. CASE j = i
      <3>1. marker'[SentKey(mail[i])] = Expiry
        BY <1>1, <1>4 DEF key
      <3>2. Expiry >= preview[i]
        BY <1>3 DEF Fresh, TypeOK
      <3> QED  BY <1>2, <2>1, <2>5, <3>1, <3>2 DEF CleanAt, TypeOK
    <2> QED  BY <2>4, <2>5
  <1> QED  BY <1>5, <1>6, <1>7, <1>8, <1>9

\* Every step keeps the order preview, announcement, marker.
LEMMA StepIInv == IInv /\ [Next]_vars => IInv'
  <1> SUFFICES ASSUME IInv, [Next]_vars PROVE IInv'
    OBVIOUS
  <1> USE DEF IInv
  <1>1. CASE UNCHANGED vars \/ Tick
    BY <1>1, QuietStep DEF vars, Tick, kv, TypeOK, Honest
  <1>2. ASSUME NEW i \in Invocation, SavePreview(i) PROVE IInv'
    BY <1>2, SavePreviewIInv
  <1>3. ASSUME NEW i \in Invocation, TelegramStep(i) PROVE IInv'
    BY <1>3, SendMessageIInv
  <1>4. ASSUME NEW i \in Invocation, WriteMarker(i) PROVE IInv'
    BY <1>4, WriteMarkerIInv
  <1>5. ASSUME NEW i \in Invocation, Start(i) \/ LookUpMarker(i) \/ EndOfLoop(i) PROVE IInv'
    <2>1. /\ UNCHANGED <<mail, chat, anyOk, kv, clock, told, trouble>>
          /\ npc' \in [Invocation -> NPC]
      BY <1>5 DEF Start, LookUpMarker, EndOfLoop, Goto, TypeOK, NPC
    <2>2. \A j \in Invocation : npc'[j] = "mark" => anyOk[j]
      BY <1>5 DEF Start, LookUpMarker, EndOfLoop, Goto, TypeOK, Honest
    <2>3. \A j \in Invocation :
             \/ npc'[j] = npc[j]
             \/ npc[j] = "new" /\ npc'[j] = "save"
             \/ npc[j] = "lookup" /\ npc'[j] \in {"send", "done"}
             \/ npc[j] = "send" /\ npc'[j] = IF anyOk[j] THEN "mark" ELSE "done"
      BY <1>5 DEF Start, LookUpMarker, EndOfLoop, Goto, TypeOK
    <2> QED  BY <2>1, <2>2, <2>3, QuietStep DEF TypeOK
  <1>6. ASSUME NEW i \in Invocation,
               SavePreviewFails(i) \/ LookUpMisses(i) \/ WriteMarkerFails(i) \/ Evict(i)
        PROVE  IInv'
    <2>1. /\ UNCHANGED <<mail, chat, anyOk, kv, clock, told>> /\ Trouble
          /\ npc' \in [Invocation -> NPC]
          /\ \A j \in Invocation : npc'[j] = "mark" => npc[j] = "mark"
      BY <1>6 DEF SavePreviewFails, LookUpMisses, WriteMarkerFails, Evict, AfterSave, Goto,
                  TypeOK, NPC
    <2>2. trouble' \in 0..MaxTrouble /\ trouble' # 0
      BY <2>1, NotifyAssumption DEF Trouble, TypeOK
    <2>3. \A j \in Invocation : npc'[j] = "mark" => anyOk[j]
      BY <2>1 DEF Honest
    <2> QED  BY <2>1, <2>2, <2>3, QuietStep DEF TypeOK
  <1> QED  BY <1>1, <1>2, <1>3, <1>4, <1>5, <1>6 DEF Next, WorkerStep

\* The order preview, announcement, marker holds in every reachable state.
THEOREM Invariance == Spec => []IInv
  BY InitIInv, StepIInv, PTL DEF Spec

\* Type correctness of the preview and Telegram path.
THEOREM TypeCorrect == Spec => []TypeOK
  <1>1. IInv => TypeOK
    BY DEF IInv
  <1> QED  BY <1>1, Invariance, PTL

\* A tg-sent marker silences no mail that Telegram has not shown, whatever
\* fails or is dropped, and although mails may share a Message-ID.
THEOREM MarkersAreEarned == Spec => []MarkerMeansTold
  <1>1. IInv => MarkerMeansTold
    BY DEF IInv
  <1> QED  BY <1>1, Invariance, PTL

\* Without trouble an announcement leads to a preview that was saved before,
\* and its marker lives at least as long.
THEOREM PreviewsComeFirst == Spec => []AnnouncedPreviewExists
  <1>1. IInv => AnnouncedPreviewExists
    BY DEF IInv, Clean, CleanAt, AnnouncedPreviewExists
  <1> QED  BY <1>1, Invariance, PTL

\* Without trouble no mail is announced again while its preview can be read.
THEOREM AnnouncedOnce == Spec => NoRepeatWhilePreviewLives
  <1> DEFINE A == \A i, j \in Invocation :
         /\ npc[i] = "lookup" /\ npc'[i] = "send"
         /\ SameKey(i, j) /\ npc[j] = "done" /\ Told(j)
         /\ trouble' = 0
         => FetchStatus(j, "text") = "404"
  <1>1. IInv /\ [Next]_vars => [A]_vars
    <2> SUFFICES ASSUME IInv, Next, NEW i \in Invocation, NEW j \in Invocation,
                        npc[i] = "lookup", npc'[i] = "send",
                        SameKey(i, j), npc[j] = "done", Told(j), trouble' = 0
                 PROVE  FetchStatus(j, "text") = "404"
      BY DEF A
    <2> USE DEF IInv
    <2>1. trouble \in Nat
      BY NotifyAssumption DEF TypeOK
    <2>2. ~Trouble
      BY <2>1 DEF Trouble
    <2>3. LookUpMarker(i)
      <3>1. ~Tick
        BY DEF Tick
      <3>2. \A g \in Invocation : ~TelegramStep(g)
        BY DEF TelegramStep, Sent, NotSent, SentUnseen, SendMessage
      <3>3. ASSUME NEW g \in Invocation, Goto(g, npc'[g]) PROVE g = i
        BY <3>3 DEF Goto, TypeOK
      <3>4. ASSUME NEW g \in Invocation, Start(g) \/ WorkerStep(g) \/ Evict(g) PROVE g = i
        BY <3>3, <3>4 DEF Start, Evict, WorkerStep, SavePreview, SavePreviewFails, LookUpMarker,
                          LookUpMisses, EndOfLoop, WriteMarker, WriteMarkerFails, AfterSave, Goto,
                          TypeOK
      <3>5. WorkerStep(i) => LookUpMarker(i)
        BY <2>2 DEF WorkerStep, SavePreview, SavePreviewFails, LookUpMisses, EndOfLoop, WriteMarker,
                    WriteMarkerFails
      <3>6. ~Start(i) /\ ~Evict(i)
        BY <2>2 DEF Start, Evict
      <3> QED  BY <3>1, <3>2, <3>4, <3>5, <3>6 DEF Next
    <2>4. ~Live(marker[SentKey(mail[j])])
      BY <2>3 DEF LookUpMarker, Goto, Marked, SameKey, TypeOK
    <2>5. marker[SentKey(mail[j])] >= preview[j]
      BY <2>3 DEF LookUpMarker, Clean, CleanAt
    <2>6. /\ marker[SentKey(mail[j])] \in Nat /\ preview[j] \in Nat /\ clock \in Nat
      BY KeyType DEF TypeOK
    <2>7. ~Live(preview[j])
      BY <2>4, <2>5, <2>6 DEF Live
    <2> QED  BY <2>7 DEF FetchStatus
  <1> QED  BY <1>1, Invariance, PTL DEF Spec, NoRepeatWhilePreviewLives
=============================================================================
