---------------------------- MODULE IngestProofs ----------------------------
(***************************************************************************)
(* Safety of the ingest handler for any number of requests, mails and      *)
(* attachments, any number of faults, and any table of attachments.        *)
(***************************************************************************)
EXTENDS Delivery, TLAPS

EP == INSTANCE EmailProofs WITH stored <- Stored, job <- msg, stage <- Stage

\* ingest_events and messages are committed together.
EventsMatch == events = Stored

\* Past InsertEvent a request holds the lock of its ingest_events row: nobody
\* else stored its mail and nobody else is about to.
EventLock ==
    \A r \in Request : pc[r] = "commit" =>
        /\ msg[r] \notin events
        /\ \A q \in Request : pc[q] = "commit" /\ msg[q] = msg[r] => q = r

\* "accepted" and "duplicate" are justified, also while on their way.
Justified ==
    /\ \A r \in Request : pc[r] = "done" => msg[r] \in events
    /\ \A r \in Request : reply[r] \in {"accepted", "duplicate"} => msg[r] \in events

\* AUTO_INCREMENT never hands out an id twice, not even to a transaction that
\* is rolled back.
IdsFresh ==
    /\ \A x \in messages : x.id < nextID
    /\ \A r \in Request : pc[r] \in InTx =>
         /\ mid[r] # 0 /\ mid[r] < nextID
         /\ \A x \in messages : x.id # mid[r]
         /\ \A q \in Request : pc[q] \in InTx /\ mid[q] = mid[r] => q = r
    /\ \A row \in attachments : \E x \in messages : x.id = row.message
    /\ \A row \in recipients : \E x \in messages : x.id = row.message

\* How far the loop over the attachments is.
LoopIndex ==
    \A r \in Request :
        /\ pc[r] \in InTx => idx[r] <= Len(Keys(msg[r]))
        /\ pc[r] \in {"attach", "row"} => idx[r] < Len(Keys(msg[r]))
        /\ pc[r] \in {"event", "commit"} => idx[r] = Len(Keys(msg[r]))
        /\ pc[r] \notin InTx \cup {"done"} => idx[r] = 0

\* A file is written before its row, in the same transaction or earlier.
FilesFirst ==
    /\ AttachmentsRetrievable
    /\ \A r \in Request : pc[r] \in InTx =>
         \A i \in 1..idx[r] : <<mid[r], Keys(msg[r])[i]>> \in blobs
    /\ \A r \in Request : pc[r] = "row" => <<mid[r], NextKey(r)>> \in blobs

IInv ==
    /\ TypeOK
    /\ EventsMatch /\ EventLock /\ Justified
    /\ StoredOnce /\ IdsFresh /\ LoopIndex /\ FilesFirst /\ StoredWhole

-----------------------------------------------------------------------------
\* What the parser or its fallback yields: a list of attachment keys and a
\* set of addresses.
LEMMA ParsedType ==
    ASSUME NEW m \in Raw
    PROVE  /\ Keys(m) \in Seq(Blob)
           /\ SentTo(m) \subseteq Address
           /\ Status(m) \in {"success", "failed"}
BY RawAssumption DEF Keys, SentTo, Status

\* A key the loop is at, or has passed, is one of the mail's attachments.
LEMMA KeyType ==
    ASSUME TypeOK, LoopIndex, NEW r \in Request, pc[r] \in InTx
    PROVE  /\ \A i \in 1..idx[r] : Keys(msg[r])[i] \in Blob
           /\ pc[r] \in {"attach", "row"} => NextKey(r) \in Blob
<1>1. Keys(msg[r]) \in Seq(Blob)
  BY ParsedType DEF TypeOK
<1>2. \A i \in 1..Len(Keys(msg[r])) : Keys(msg[r])[i] \in Blob
  BY <1>1
<1>3. idx[r] \in Nat /\ Len(Keys(msg[r])) \in Nat
  BY <1>1 DEF TypeOK
<1> QED
  BY <1>2, <1>3 DEF LoopIndex, NextKey

\* A server with empty tables and an empty data directory.
LEMMA InitIInv == Init => IInv
<1> SUFFICES ASSUME Init PROVE IInv
  OBVIOUS
<1>1. TypeOK
  BY RawAssumption DEF Init, TypeOK, PC, InTx, Answers, Refusal
<1>2. EventsMatch /\ EventLock /\ Justified /\ StoredOnce
  BY DEF Init, EventsMatch, EventLock, Justified, StoredOnce, Stored
<1>3. IdsFresh /\ LoopIndex /\ FilesFirst /\ StoredWhole
  BY DEF Init, IdsFresh, LoopIndex, FilesFirst, StoredWhole, AttachmentsRetrievable, InTx
<1> QED
  BY <1>1, <1>2, <1>3 DEF IInv

\* The rows a transaction adds are well typed.
TablesTyped ==
    /\ messages' \subseteq [id : Nat \ {0}, hash : Raw, status : {"success", "failed"}]
    /\ recipients' \subseteq [message : Nat \ {0}, email : Address]
    /\ attachments' \subseteq [message : Nat \ {0}, pos : Nat, key : Blob]
    /\ events' \subseteq Raw

LEMMA CommitTables ==
    ASSUME IInv, NEW r \in Request, pc[r] = "commit", Durable(r)
    PROVE  TablesTyped
<1>1. mid[r] \in Nat \ {0} /\ msg[r] \in Raw /\ idx[r] \in Nat
  BY DEF IInv, TypeOK, IdsFresh, InTx
<1>2. SentTo(msg[r]) \subseteq Address /\ Status(msg[r]) \in {"success", "failed"}
  BY <1>1, ParsedType
<1>3. \A i \in 1..idx[r] : Keys(msg[r])[i] \in Blob
  BY KeyType DEF IInv, InTx
<1>4. MessageRow(r) \in [id : Nat \ {0}, hash : Raw, status : {"success", "failed"}]
  BY <1>1, <1>2 DEF MessageRow
<1>5. RecipientRows(r) \subseteq [message : Nat \ {0}, email : Address]
  BY <1>1, <1>2 DEF RecipientRows
<1>6. AttachmentRows(r) \subseteq [message : Nat \ {0}, pos : Nat, key : Blob]
  BY <1>1, <1>3 DEF AttachmentRows
<1> QED
  BY <1>1, <1>4, <1>5, <1>6 DEF Durable, TablesTyped, IInv, TypeOK

\* Every step keeps every variable in its type.
LEMMA TypeStep == IInv /\ [Next]_vars => TypeOK'
<1> SUFFICES ASSUME IInv, [Next]_vars PROVE TypeOK'
  OBVIOUS
<1>1. CASE UNCHANGED vars
  BY <1>1 DEF IInv, TypeOK, vars
<1>2. CASE Crash
  BY <1>2 DEF IInv, TypeOK, Crash, Fault, db, files, PC, Answers
<1>3. ASSUME NEW r \in Request, NEW m \in Raw, NEW status \in Admission(m),
             ServeHTTP(r, m, status)
      PROVE  TypeOK'
  BY <1>3 DEF IInv, TypeOK, ServeHTTP, Admission, Goto, db, files, PC, Answers, Refusal
<1>4. ASSUME NEW r \in Request, Step(r) PROVE TypeOK'
  <2>1. CASE IsDuplicate(r)
    BY <2>1 DEF IInv, TypeOK, IsDuplicate, Answer, Goto, db, files, PC, Answers
  <2>2. CASE StatRaw(r) \/ OpenRaw(r) \/ WriteRaw(r)
    BY <2>2 DEF IInv, TypeOK, StatRaw, OpenRaw, WriteRaw, Goto, db, files, PC
  <2>3. CASE Insert(r)
    BY <2>3 DEF IInv, TypeOK, Insert, Goto, db, files, PC, InTx
  <2>4. CASE InsertTooLong(r) \/ AttachmentConflict(r) \/ EventConflict(r) \/ LockTimeout(r) \/ Respond(r)
    BY <2>4 DEF IInv, TypeOK, InsertTooLong, AttachmentConflict, EventConflict, LockTimeout, Respond,
                Answer, db, files, PC, Answers
  <2>5. CASE SaveAttachment(r)
    <3>1. mid[r] \in Nat \ {0} /\ NextKey(r) \in Blob
      BY <2>5, KeyType DEF IInv, TypeOK, SaveAttachment, IdsFresh, InTx
    <3> QED
      BY <2>5, <3>1 DEF IInv, TypeOK, SaveAttachment, Goto, db, files, PC, InTx
  <2>6. CASE InsertAttachment(r)
    <3>1. idx' \in [Request -> Nat]
      BY <2>6 DEF IInv, TypeOK, InsertAttachment
    <3>2. pc' \in [Request -> PC]
      BY <2>6 DEF IInv, TypeOK, InsertAttachment, Goto, PC, InTx
    <3> QED
      BY <2>6, <3>1, <3>2 DEF IInv, TypeOK, InsertAttachment, db, files
  <2>8. CASE InsertEvent(r)
    BY <2>8 DEF IInv, TypeOK, InsertEvent, Goto, db, files, PC, InTx
  <2>7. CASE Commit(r)
    <3>1. TablesTyped
      BY <2>7, CommitTables DEF Commit
    <3> QED
      BY <2>7, <3>1 DEF IInv, TypeOK, TablesTyped, Commit, Goto, files, PC
  <2> QED
    BY <1>4, <2>1, <2>2, <2>3, <2>4, <2>5, <2>6, <2>7, <2>8 DEF Step
<1>5. ASSUME NEW r \in Request, CommitLost(r) PROVE TypeOK'
  <2>1. TablesTyped
    BY <1>5, CommitTables DEF CommitLost
  <2> QED
    BY <1>5, <2>1 DEF IInv, TypeOK, TablesTyped, CommitLost, Fault, Answer, files, PC, Answers
<1>6. ASSUME NEW r \in Request, Fail(r) PROVE TypeOK'
  BY <1>6 DEF IInv, TypeOK, Fail, Fault, Answer, db, files, PC, Answers
<1> QED
  BY <1>1, <1>2, <1>3, <1>4, <1>5, <1>6 DEF Next
-----------------------------------------------------------------------------
\* Deduplication: the tables agree, the row lock on ingest_events excludes a
\* second writer, and no answer runs ahead of its commit.
Dedup == EventsMatch /\ EventLock /\ Justified /\ StoredOnce

LEMMA DedupCommit ==
    ASSUME IInv, NEW r \in Request, pc[r] = "commit", Durable(r)
    PROVE  EventsMatch' /\ StoredOnce'
<1>1. MessageRow(r).hash = msg[r]
  BY DEF MessageRow
<1>2. Stored' = Stored \cup {msg[r]}
  BY <1>1 DEF Durable, Stored
<1>3. EventsMatch'
  BY <1>2 DEF Durable, IInv, EventsMatch
<1>4. msg[r] \notin Stored
  BY DEF IInv, EventsMatch, EventLock
<1>5. StoredOnce'
  BY <1>1, <1>4 DEF Durable, StoredOnce, IInv, Stored
<1> QED
  BY <1>3, <1>5

LEMMA DedupStep == IInv /\ [Next]_vars => Dedup'
<1> SUFFICES ASSUME IInv, [Next]_vars PROVE Dedup'
  OBVIOUS
<1> USE DEF Dedup
<1>1. CASE UNCHANGED vars
  BY <1>1 DEF vars, IInv, EventsMatch, EventLock, Justified, StoredOnce, Stored
<1>2. CASE Crash
  BY <1>2 DEF Crash, db, IInv, TypeOK, EventsMatch, EventLock, Justified, StoredOnce, Stored
<1>3. ASSUME NEW r \in Request, NEW m \in Raw, NEW status \in Admission(m),
             ServeHTTP(r, m, status)
      PROVE  Dedup'
  <2>1. status \notin {"accepted", "duplicate"}
    BY DEF Admission
  <2> QED
    BY <1>3, <2>1 DEF ServeHTTP, Goto, db, IInv, TypeOK, EventsMatch, EventLock, Justified, StoredOnce, Stored
<1>4. ASSUME NEW r \in Request, Step(r) PROVE Dedup'
  <2>1. CASE IsDuplicate(r)
    <3>1. EventsMatch' /\ StoredOnce'
      BY <2>1 DEF IsDuplicate, db, IInv, EventsMatch, StoredOnce, Stored
    <3>2. EventLock'
      BY <2>1 DEF IsDuplicate, Answer, Goto, db, IInv, TypeOK, EventLock
    <3>3. Justified'
      BY <2>1 DEF IsDuplicate, EventTaken, Answer, Goto, db, IInv, TypeOK, Justified
    <3> QED
      BY <3>1, <3>2, <3>3
  <2>2. CASE StatRaw(r) \/ OpenRaw(r) \/ WriteRaw(r)
    BY <2>2 DEF StatRaw, OpenRaw, WriteRaw, Goto, db, IInv, TypeOK,
                EventsMatch, EventLock, Justified, StoredOnce, Stored
  <2>3. CASE Insert(r) \/ SaveAttachment(r) \/ InsertAttachment(r)
    <3>1. EventsMatch' /\ StoredOnce'
      BY <2>3 DEF Insert, SaveAttachment, InsertAttachment, db, IInv, EventsMatch, StoredOnce, Stored
    <3>2. pc'[r] \in {"attach", "row", "event"} /\ \A q \in Request \ {r} : pc'[q] = pc[q]
      BY <2>3 DEF Insert, SaveAttachment, InsertAttachment, Goto, IInv, TypeOK
    <3>3. EventLock' /\ Justified'
      BY <2>3, <3>2 DEF Insert, SaveAttachment, InsertAttachment, db, IInv, EventLock, Justified
    <3> QED
      BY <3>1, <3>3
  <2>4. CASE InsertTooLong(r) \/ AttachmentConflict(r) \/ EventConflict(r) \/ LockTimeout(r)
    BY <2>4 DEF InsertTooLong, AttachmentConflict, EventConflict, LockTimeout, Answer, db,
                IInv, TypeOK, EventsMatch, EventLock, Justified, StoredOnce, Stored
  <2>5. CASE InsertEvent(r)
    BY <2>5 DEF InsertEvent, EventTaken, EventHeld, Goto, db, IInv, TypeOK,
                EventsMatch, EventLock, Justified, StoredOnce, Stored
  <2>6. CASE Commit(r)
    <3>1. EventsMatch' /\ StoredOnce'
      BY <2>6, DedupCommit DEF Commit
    <3>2. EventLock'
      BY <2>6 DEF Commit, Durable, Goto, IInv, TypeOK, EventLock
    <3>3. Justified'
      BY <2>6 DEF Commit, Durable, Goto, IInv, TypeOK, Justified
    <3> QED
      BY <3>1, <3>2, <3>3
  <2>7. CASE Respond(r)
    BY <2>7 DEF Respond, Answer, db, IInv, TypeOK, EventsMatch, EventLock, Justified, StoredOnce, Stored
  <2> QED
    BY <1>4, <2>1, <2>2, <2>3, <2>4, <2>5, <2>6, <2>7 DEF Step
<1>5. ASSUME NEW r \in Request, CommitLost(r) PROVE Dedup'
  <2>1. EventsMatch' /\ StoredOnce'
    BY <1>5, DedupCommit DEF CommitLost
  <2>2. EventLock'
    BY <1>5 DEF CommitLost, Durable, Answer, IInv, TypeOK, EventLock
  <2>3. Justified'
    BY <1>5 DEF CommitLost, Durable, Answer, IInv, TypeOK, Justified
  <2> QED
    BY <2>1, <2>2, <2>3
<1>6. ASSUME NEW r \in Request, Fail(r) PROVE Dedup'
  BY <1>6 DEF Fail, Answer, db, IInv, TypeOK, EventsMatch, EventLock, Justified, StoredOnce, Stored
<1> QED
  BY <1>1, <1>2, <1>3, <1>4, <1>5, <1>6 DEF Next
-----------------------------------------------------------------------------
\* The loop index follows the program counter.
LEMMA LoopStep == IInv /\ [Next]_vars => LoopIndex'
<1> SUFFICES ASSUME IInv, [Next]_vars PROVE LoopIndex'
  OBVIOUS
<1>0. \A q \in Request : Keys(msg[q]) \in Seq(Blob) /\ Len(Keys(msg[q])) \in Nat
  BY ParsedType DEF IInv, TypeOK
<1>1. CASE UNCHANGED vars
  BY <1>1 DEF vars, IInv, LoopIndex
<1>2. CASE Crash
  BY <1>2 DEF Crash, IInv, LoopIndex, InTx
<1>3. ASSUME NEW r \in Request, NEW m \in Raw, NEW status \in Admission(m),
             ServeHTTP(r, m, status)
      PROVE  LoopIndex'
  BY <1>3 DEF ServeHTTP, Goto, IInv, TypeOK, LoopIndex, InTx
<1>4. ASSUME NEW r \in Request, Step(r) PROVE LoopIndex'
  <2>1. CASE IsDuplicate(r)
    BY <2>1 DEF IsDuplicate, Answer, Goto, IInv, TypeOK, LoopIndex, InTx
  <2>2. CASE StatRaw(r) \/ OpenRaw(r) \/ WriteRaw(r)
    BY <2>2 DEF StatRaw, OpenRaw, WriteRaw, Goto, IInv, TypeOK, LoopIndex, InTx
  <2>3. CASE Insert(r)
    <3>1. Keys(msg[r]) = <<>> <=> Len(Keys(msg[r])) = 0
      BY <1>0
    <3>2. idx[r] = 0
      BY <2>3 DEF Insert, IInv, LoopIndex, InTx
    <3> QED
      BY <1>0, <2>3, <3>1, <3>2 DEF Insert, Goto, IInv, TypeOK, LoopIndex, InTx
  <2>4. CASE InsertTooLong(r) \/ AttachmentConflict(r) \/ EventConflict(r) \/ LockTimeout(r) \/ Respond(r)
    BY <2>4 DEF InsertTooLong, AttachmentConflict, EventConflict, LockTimeout, Respond, Answer,
                IInv, TypeOK, LoopIndex, InTx
  <2>5. CASE SaveAttachment(r) \/ InsertEvent(r)
    BY <2>5 DEF SaveAttachment, InsertEvent, Goto, IInv, TypeOK, LoopIndex, InTx
  <2>6. CASE InsertAttachment(r)
    <3>1. idx[r] \in Nat /\ idx[r] < Len(Keys(msg[r]))
      BY <2>6 DEF InsertAttachment, IInv, TypeOK, LoopIndex
    <3> QED
      BY <1>0, <2>6, <3>1 DEF InsertAttachment, Goto, IInv, TypeOK, LoopIndex, InTx
  <2>7. CASE Commit(r)
    BY <2>7 DEF Commit, Goto, IInv, TypeOK, LoopIndex, InTx
  <2> QED
    BY <1>4, <2>1, <2>2, <2>3, <2>4, <2>5, <2>6, <2>7 DEF Step
<1>5. ASSUME NEW r \in Request, CommitLost(r) \/ Fail(r) PROVE LoopIndex'
  BY <1>5 DEF CommitLost, Fail, Answer, IInv, TypeOK, LoopIndex, InTx
<1> QED
  BY <1>1, <1>2, <1>3, <1>4, <1>5 DEF Next

\* No message id is used twice.
LEMMA IdsCommit ==
    ASSUME IInv, NEW r \in Request, pc[r] = "commit", Durable(r)
    PROVE  /\ \A row \in attachments' : \E x \in messages' : x.id = row.message
           /\ \A row \in recipients' : \E x \in messages' : x.id = row.message
           /\ \A x \in messages' : x \in messages \/ x.id = mid[r]
<1>1. MessageRow(r).id = mid[r] /\ MessageRow(r) \in messages'
  BY DEF MessageRow, Durable
<1>2. \A row \in attachments' : row \in attachments \/ row.message = mid[r]
  BY DEF Durable, AttachmentRows
<1>3. \A row \in recipients' : row \in recipients \/ row.message = mid[r]
  BY DEF Durable, RecipientRows
<1> QED
  BY <1>1, <1>2, <1>3 DEF Durable, IInv, IdsFresh

LEMMA IdsStep == IInv /\ [Next]_vars => IdsFresh'
<1> SUFFICES ASSUME IInv, [Next]_vars PROVE IdsFresh'
  OBVIOUS
<1>1. CASE UNCHANGED vars
  BY <1>1 DEF vars, IInv, IdsFresh
<1>2. CASE Crash
  BY <1>2 DEF Crash, db, IInv, IdsFresh, InTx
<1>3. ASSUME NEW r \in Request, NEW m \in Raw, NEW status \in Admission(m),
             ServeHTTP(r, m, status)
      PROVE  IdsFresh'
  BY <1>3 DEF ServeHTTP, Goto, db, IInv, TypeOK, IdsFresh, InTx
<1>4. ASSUME NEW r \in Request, Step(r) PROVE IdsFresh'
  <2>1. CASE IsDuplicate(r) \/ StatRaw(r) \/ OpenRaw(r) \/ WriteRaw(r)
    BY <2>1 DEF IsDuplicate, StatRaw, OpenRaw, WriteRaw, Answer, Goto, db,
                IInv, TypeOK, IdsFresh, InTx
  <2>2. CASE Insert(r)
    <3>1. /\ nextID \in Nat \ {0} /\ nextID' = nextID + 1
          /\ pc'[r] \in InTx /\ mid'[r] = nextID
          /\ \A q \in Request \ {r} : pc'[q] = pc[q] /\ mid'[q] = mid[q]
          /\ UNCHANGED <<messages, recipients, attachments>>
      BY <2>2 DEF Insert, Goto, db, IInv, TypeOK, InTx
    <3>2. \A x \in messages : x.id \in Nat /\ x.id < nextID
      BY DEF IInv, TypeOK, IdsFresh
    <3>3. \A q \in Request : mid[q] \in Nat /\ (pc[q] \in InTx => mid[q] < nextID)
      BY DEF IInv, TypeOK, IdsFresh
    <3> QED
      BY <3>1, <3>2, <3>3 DEF IInv, IdsFresh
  <2>3. CASE InsertTooLong(r) \/ AttachmentConflict(r) \/ EventConflict(r) \/ LockTimeout(r) \/ Respond(r)
    BY <2>3 DEF InsertTooLong, AttachmentConflict, EventConflict, LockTimeout, Respond, Answer, db,
                IInv, TypeOK, IdsFresh, InTx
  <2>4. CASE SaveAttachment(r) \/ InsertAttachment(r) \/ InsertEvent(r)
    BY <2>4 DEF SaveAttachment, InsertAttachment, InsertEvent, Goto, db,
                IInv, TypeOK, IdsFresh, InTx
  <2>5. CASE Commit(r)
    BY <2>5, IdsCommit DEF Commit, Goto, IInv, TypeOK, IdsFresh, InTx
  <2> QED
    BY <1>4, <2>1, <2>2, <2>3, <2>4, <2>5 DEF Step
<1>5. ASSUME NEW r \in Request, CommitLost(r) PROVE IdsFresh'
  BY <1>5, IdsCommit DEF CommitLost, Answer, IInv, TypeOK, IdsFresh, InTx
<1>6. ASSUME NEW r \in Request, Fail(r) PROVE IdsFresh'
  BY <1>6 DEF Fail, Answer, db, IInv, TypeOK, IdsFresh, InTx
<1> QED
  BY <1>1, <1>2, <1>3, <1>4, <1>5, <1>6 DEF Next
-----------------------------------------------------------------------------
\* Only the request that owns a message id writes below attachments/<id>, and
\* it writes before it inserts.
LEMMA FilesCommit ==
    ASSUME IInv, NEW r \in Request, pc[r] = "commit", Durable(r), UNCHANGED blobs
    PROVE  AttachmentsRetrievable'
<1>1. \A row \in AttachmentRows(r) : <<row.message, row.key>> \in blobs
  BY DEF AttachmentRows, IInv, FilesFirst, InTx
<1> QED
  BY <1>1 DEF Durable, IInv, FilesFirst, AttachmentsRetrievable

LEMMA FilesStep == IInv /\ [Next]_vars => FilesFirst'
<1> SUFFICES ASSUME IInv, [Next]_vars PROVE FilesFirst'
  OBVIOUS
<1>1. CASE UNCHANGED vars
  BY <1>1 DEF vars, IInv, FilesFirst, AttachmentsRetrievable, NextKey
<1>2. CASE Crash
  BY <1>2 DEF Crash, db, files, IInv, FilesFirst, AttachmentsRetrievable, InTx
<1>3. ASSUME NEW r \in Request, NEW m \in Raw, NEW status \in Admission(m),
             ServeHTTP(r, m, status)
      PROVE  FilesFirst'
  BY <1>3 DEF ServeHTTP, Goto, db, files, IInv, TypeOK, FilesFirst,
              AttachmentsRetrievable, NextKey, InTx
<1>4. ASSUME NEW r \in Request, Step(r) PROVE FilesFirst'
  <2>1. CASE IsDuplicate(r) \/ StatRaw(r) \/ OpenRaw(r) \/ WriteRaw(r)
    BY <2>1 DEF IsDuplicate, StatRaw, OpenRaw, WriteRaw, Answer, Goto, db, files,
                IInv, TypeOK, FilesFirst, AttachmentsRetrievable, NextKey, InTx
  <2>2. CASE Insert(r)
    <3>1. idx[r] = 0
      BY <2>2 DEF Insert, IInv, LoopIndex, InTx
    <3> QED
      BY <2>2, <3>1 DEF Insert, Goto, db, files, IInv, TypeOK, FilesFirst,
                  AttachmentsRetrievable, NextKey, InTx
  <2>3. CASE InsertTooLong(r) \/ AttachmentConflict(r) \/ EventConflict(r) \/ LockTimeout(r) \/ Respond(r)
    BY <2>3 DEF InsertTooLong, AttachmentConflict, EventConflict, LockTimeout, Respond, Answer, db, files,
                IInv, TypeOK, FilesFirst, AttachmentsRetrievable, NextKey, InTx
  <2>4. CASE SaveAttachment(r)
    BY <2>4 DEF SaveAttachment, Goto, db, IInv, TypeOK, FilesFirst,
                AttachmentsRetrievable, NextKey, InTx
  <2>5. CASE InsertAttachment(r)
    BY <2>5 DEF InsertAttachment, Goto, db, files, IInv, TypeOK, FilesFirst,
                AttachmentsRetrievable, NextKey, InTx
  <2>6. CASE InsertEvent(r)
    BY <2>6 DEF InsertEvent, Goto, db, files, IInv, TypeOK, FilesFirst,
                AttachmentsRetrievable, NextKey, InTx
  <2>7. CASE Commit(r)
    <3>1. AttachmentsRetrievable'
      BY <2>7, FilesCommit DEF Commit, files
    <3> QED
      BY <2>7, <3>1 DEF Commit, Goto, files, IInv, TypeOK, FilesFirst, NextKey, InTx
  <2> QED
    BY <1>4, <2>1, <2>2, <2>3, <2>4, <2>5, <2>6, <2>7 DEF Step
<1>5. ASSUME NEW r \in Request, CommitLost(r) PROVE FilesFirst'
  <2>1. AttachmentsRetrievable'
    BY <1>5, FilesCommit DEF CommitLost, files
  <2> QED
    BY <1>5, <2>1 DEF CommitLost, Answer, files, IInv, TypeOK, FilesFirst, NextKey, InTx
<1>6. ASSUME NEW r \in Request, Fail(r) PROVE FilesFirst'
  <2>1. CASE pc[r] # "attach"
    BY <1>6, <2>1 DEF Fail, Answer, db, IInv, TypeOK, FilesFirst,
                AttachmentsRetrievable, NextKey, InTx
  <2>2. CASE pc[r] = "attach"
    \* The partial file lies below an id that no row and no other request has.
    <3>1. \A row \in attachments : row.message # mid[r]
      BY <2>2 DEF IInv, IdsFresh, InTx
    <3>2. \A q \in Request : pc[q] \in InTx /\ mid[q] = mid[r] => q = r
      BY <2>2 DEF IInv, IdsFresh, InTx
    <3>3. AttachmentsRetrievable'
      BY <1>6, <2>2, <3>1 DEF Fail, db, IInv, FilesFirst, AttachmentsRetrievable
    <3>4. pc'[r] = "idle" /\ \A q \in Request \ {r} : pc'[q] = pc[q] /\ mid'[q] = mid[q] /\ idx'[q] = idx[q]
      BY <1>6 DEF Fail, Answer, IInv, TypeOK
    <3> QED
      BY <1>6, <2>2, <3>2, <3>3, <3>4 DEF Fail, IInv, FilesFirst, NextKey, InTx
  <2> QED
    BY <2>1, <2>2
<1> QED
  BY <1>1, <1>2, <1>3, <1>4, <1>5, <1>6 DEF Next
-----------------------------------------------------------------------------
\* A commit adds a message together with everything that belongs to it, and
\* nothing to any other message.
LEMMA WholeCommit ==
    ASSUME IInv, NEW r \in Request, pc[r] = "commit", Durable(r)
    PROVE  StoredWhole'
<1> DEFINE ToOf(i)   == {row.email : row \in {rr \in recipients' : rr.message = i}}
           FilesOf(i) == {<<row.pos, row.key>> : row \in {aa \in attachments' : aa.message = i}}
<1> SUFFICES ASSUME NEW x \in messages'
             PROVE  /\ ToOf(x.id) = SentTo(x.hash)
                    /\ FilesOf(x.id) = {<<i, Keys(x.hash)[i]>> : i \in 1..Len(Keys(x.hash))}
  BY DEF StoredWhole
<1>1. CASE x \in messages
  <2>1. x.id # mid[r]
    BY <1>1 DEF IInv, IdsFresh, InTx
  <2>2. {rr \in recipients' : rr.message = x.id} = {rr \in recipients : rr.message = x.id}
    BY <2>1 DEF Durable, RecipientRows
  <2>3. {aa \in attachments' : aa.message = x.id} = {aa \in attachments : aa.message = x.id}
    BY <2>1 DEF Durable, AttachmentRows
  <2> QED
    BY <1>1, <2>2, <2>3 DEF IInv, StoredWhole
<1>2. CASE x = MessageRow(r)
  <2>1. x.id = mid[r] /\ x.hash = msg[r]
    BY <1>2 DEF MessageRow
  <2>2. \A y \in messages : y.id # mid[r]
    BY DEF IInv, IdsFresh, InTx
  <2>3. {rr \in recipients' : rr.message = mid[r]} = RecipientRows(r)
    BY <2>2 DEF IInv, IdsFresh, Durable, RecipientRows
  <2>4. {aa \in attachments' : aa.message = mid[r]} = AttachmentRows(r)
    BY <2>2 DEF IInv, IdsFresh, Durable, AttachmentRows
  <2>5. {row.email : row \in RecipientRows(r)} = SentTo(msg[r])
    <3>1. \A a \in SentTo(msg[r]) : [message |-> mid[r], email |-> a] \in RecipientRows(r)
      BY DEF RecipientRows
    <3>2. \A row \in RecipientRows(r) : row.email \in SentTo(msg[r])
      BY DEF RecipientRows
    <3>3. \A a \in SentTo(msg[r]) : \E row \in RecipientRows(r) : row.email = a
      BY <3>1
    <3> QED
      BY <3>2, <3>3
  <2>6. {<<row.pos, row.key>> : row \in AttachmentRows(r)}
          = {<<i, Keys(msg[r])[i]>> : i \in 1..idx[r]}
    <3>1. \A i \in 1..idx[r] :
             [message |-> mid[r], pos |-> i, key |-> Keys(msg[r])[i]] \in AttachmentRows(r)
      BY DEF AttachmentRows
    <3>2. \A row \in AttachmentRows(r) : row.pos \in 1..idx[r] /\ row.key = Keys(msg[r])[row.pos]
      BY DEF AttachmentRows
    <3> QED
      BY <3>1, <3>2
  <2>7. idx[r] = Len(Keys(msg[r]))
    BY DEF IInv, LoopIndex
  <2> QED
    BY <2>1, <2>3, <2>4, <2>5, <2>6, <2>7
<1> QED
  BY <1>1, <1>2 DEF Durable

LEMMA WholeStep == IInv /\ [Next]_vars => StoredWhole'
<1> SUFFICES ASSUME IInv, [Next]_vars PROVE StoredWhole'
  OBVIOUS
<1>1. CASE UNCHANGED db
  BY <1>1 DEF db, IInv, StoredWhole
<1>2. ASSUME NEW r \in Request, Commit(r) \/ CommitLost(r) PROVE StoredWhole'
  BY <1>2, WholeCommit DEF Commit, CommitLost
<1>3. UNCHANGED db \/ \E r \in Request : Commit(r) \/ CommitLost(r)
  BY DEF Next, vars, db, Crash, ServeHTTP, Step, IsDuplicate, StatRaw, OpenRaw, WriteRaw,
         Insert, InsertTooLong, SaveAttachment, InsertAttachment, AttachmentConflict,
         InsertEvent, EventConflict, LockTimeout, Respond, Fail
<1> QED
  BY <1>1, <1>2, <1>3

-----------------------------------------------------------------------------
\* The invariant is inductive.
LEMMA IInvStep == IInv /\ [Next]_vars => IInv'
BY TypeStep, DedupStep, LoopStep, IdsStep, FilesStep, WholeStep DEF IInv, Dedup

\* The invariant holds in every reachable state of the handler.
THEOREM Invariance == Spec => []IInv
BY InitIInv, IInvStep, PTL DEF Spec

\* Every variable of the handler, the file store and the tables keeps its type.
THEOREM TypeCorrect == Spec => []TypeOK
<1>1. IInv => TypeOK
  BY DEF IInv
<1> QED
  BY Invariance, <1>1, PTL

\* However many requests carry a mail, messages has one row for it.
THEOREM MailStoredOnce == Spec => []StoredOnce
<1>1. IInv => StoredOnce
  BY DEF IInv
<1> QED
  BY Invariance, <1>1, PTL

\* "accepted" and "duplicate" are said only of a committed message.
THEOREM AcknowledgedIsStored == Spec => []AckImpliesStored
<1>1. IInv => AckImpliesStored
  BY DEF IInv, Justified, EventsMatch, AckImpliesStored
<1> QED
  BY Invariance, <1>1, PTL

\* A committed message has all its recipients and attachment rows.
THEOREM MailStoredWhole == Spec => []StoredWhole
<1>1. IInv => StoredWhole
  BY DEF IInv
<1> QED
  BY Invariance, <1>1, PTL

\* Every committed attachment row has a complete file.
THEOREM AttachmentFilesExist == Spec => []AttachmentsRetrievable
<1>1. IInv => AttachmentsRetrievable
  BY DEF IInv, FilesFirst
<1> QED
  BY Invariance, <1>1, PTL

\* No committed row is changed or removed by any step.
THEOREM CommittedRowsAreFinal == Spec => RowsAreFinal
<1> DEFINE Grow == /\ messages \subseteq messages'
                   /\ recipients \subseteq recipients'
                   /\ attachments \subseteq attachments'
                   /\ events \subseteq events'
<1>1. [Next]_vars => [Grow]_vars
  <2> SUFFICES ASSUME [Next]_vars PROVE Grow
    OBVIOUS
  <2>1. UNCHANGED db \/ \E r \in Request : Durable(r)
    BY DEF Next, vars, db, Crash, ServeHTTP, Step, IsDuplicate, StatRaw, OpenRaw, WriteRaw,
           Insert, InsertTooLong, SaveAttachment, InsertAttachment, AttachmentConflict,
           InsertEvent, EventConflict, LockTimeout, Respond, Fail, Commit, CommitLost
  <2> QED
    BY <2>1 DEF db, Durable
<1> QED
  BY <1>1, PTL DEF Spec, RowsAreFinal

-----------------------------------------------------------------------------
\* The raw file is created before the transaction begins and never removed.
RawFirst ==
    /\ \A x \in messages : raw[x.hash] # "absent"
    /\ \A r \in Request : pc[r] \in InTx \cup {"begin"} => raw[msg[r]] # "absent"

\* As long as nothing failed, somebody is busy with a file that is not whole.
TornIsOpen == faults = 0 => \A m \in Raw : raw[m] = "torn" => BeingWritten(m)

RawInv == RawFirst /\ TornIsOpen

\* A step of r that leaves the files alone and does not take r out of "write".
LEMMA RawUntouched ==
    ASSUME IInv, RawInv, NEW r \in Request, UNCHANGED <<raw, msg, messages>>,
           \A q \in Request \ {r} : pc'[q] = pc[q],
           pc'[r] \in InTx \cup {"begin"} => raw[msg[r]] # "absent",
           faults' = 0 => faults = 0 /\ pc[r] # "write"
    PROVE  RawInv'
<1>1. RawFirst'
  BY DEF RawInv, RawFirst
<1>2. TornIsOpen'
  BY DEF RawInv, TornIsOpen, BeingWritten
<1> QED
  BY <1>1, <1>2 DEF RawInv

\* The raw files, step by step.
LEMMA RawStep == IInv /\ RawInv /\ [Next]_vars => RawInv'
<1> SUFFICES ASSUME IInv, RawInv, [Next]_vars PROVE RawInv'
  OBVIOUS
<1>0. faults \in Nat /\ TypeOK
  BY DEF IInv, TypeOK
<1>1. CASE UNCHANGED vars
  BY <1>1 DEF vars, RawInv, RawFirst, TornIsOpen, BeingWritten
<1>2. CASE Crash
  BY <1>0, <1>2 DEF Crash, Fault, db, files, RawInv, RawFirst, TornIsOpen, InTx
<1>3. ASSUME NEW r \in Request, NEW m \in Raw, NEW status \in Admission(m),
             ServeHTTP(r, m, status)
      PROVE  RawInv'
  <2>1. /\ pc[r] = "idle" /\ pc'[r] \in {"idle", "check"} /\ UNCHANGED <<raw, messages, faults>>
        /\ \A q \in Request \ {r} : pc'[q] = pc[q] /\ msg'[q] = msg[q]
    BY <1>0, <1>3 DEF ServeHTTP, Goto, db, files, TypeOK
  <2>2. RawFirst'
    BY <2>1 DEF RawInv, RawFirst, InTx
  <2>3. TornIsOpen'
    BY <2>1 DEF RawInv, TornIsOpen, BeingWritten
  <2> QED
    BY <2>2, <2>3 DEF RawInv
<1>4. ASSUME NEW r \in Request, Step(r) PROVE RawInv'
  <2>1. CASE IsDuplicate(r) \/ StatRaw(r)
    BY <1>0, <2>1, RawUntouched DEF IsDuplicate, StatRaw, Answer, Goto, db, files, TypeOK, InTx
  <2>2. CASE OpenRaw(r) \/ WriteRaw(r)
    <3>1. /\ UNCHANGED <<messages, msg, faults>> /\ raw' \in [Raw -> {"absent", "torn", "complete"}]
          /\ raw'[msg[r]] # "absent"
          /\ \A m \in Raw \ {msg[r]} : raw'[m] = raw[m]
          /\ \A q \in Request \ {r} : pc'[q] = pc[q]
      BY <1>0, <2>2 DEF OpenRaw, WriteRaw, Goto, db, TypeOK
    <3>2. RawFirst'
      BY <1>0, <3>1 DEF RawInv, RawFirst, TypeOK
    <3>3. TornIsOpen'
      <4>1. CASE OpenRaw(r)
        <5>1. pc'[r] = "write" /\ pc[r] = "open"
          BY <1>0, <4>1 DEF OpenRaw, Goto, TypeOK
        <5> QED
          BY <3>1, <5>1 DEF RawInv, TornIsOpen, BeingWritten
      <4>2. CASE WriteRaw(r)
        <5>1. raw'[msg[r]] = "complete"
          BY <1>0, <4>2 DEF WriteRaw, TypeOK
        <5> QED
          BY <3>1, <5>1 DEF RawInv, TornIsOpen, BeingWritten
      <4> QED
        BY <2>2, <4>1, <4>2
    <3> QED
      BY <3>2, <3>3 DEF RawInv
  <2>3. CASE Insert(r) \/ SaveAttachment(r) \/ InsertAttachment(r) \/ InsertEvent(r)
    <3>1. pc[r] \in InTx \cup {"begin"} /\ pc[r] # "write" /\ UNCHANGED <<raw, msg, messages, faults>>
      BY <2>3 DEF Insert, SaveAttachment, InsertAttachment, InsertEvent, db, files, InTx
    <3>2. \A q \in Request \ {r} : pc'[q] = pc[q]
      BY <1>0, <2>3 DEF Insert, SaveAttachment, InsertAttachment, InsertEvent, Goto, TypeOK
    <3> QED
      BY <3>1, <3>2, RawUntouched DEF RawInv, RawFirst
  <2>4. CASE InsertTooLong(r) \/ AttachmentConflict(r) \/ EventConflict(r) \/ LockTimeout(r) \/ Respond(r)
    BY <1>0, <2>4, RawUntouched DEF InsertTooLong, AttachmentConflict, EventConflict, LockTimeout, Blocked,
                Respond, Answer, db, files, TypeOK, InTx
  <2>5. CASE Commit(r)
    <3>1. /\ pc[r] = "commit" /\ pc'[r] = "done" /\ UNCHANGED <<raw, msg, faults>>
          /\ \A q \in Request \ {r} : pc'[q] = pc[q]
          /\ messages' = messages \cup {MessageRow(r)} /\ MessageRow(r).hash = msg[r]
      BY <1>0, <2>5 DEF Commit, Durable, Goto, files, MessageRow, TypeOK
    <3>2. raw[msg[r]] # "absent"
      BY <3>1 DEF RawInv, RawFirst, InTx
    <3>3. RawFirst'
      BY <3>1, <3>2 DEF RawInv, RawFirst, InTx
    <3>4. TornIsOpen'
      BY <3>1 DEF RawInv, TornIsOpen, BeingWritten
    <3> QED
      BY <3>3, <3>4 DEF RawInv
  <2> QED
    BY <1>4, <2>1, <2>2, <2>3, <2>4, <2>5 DEF Step
<1>5. ASSUME NEW r \in Request, CommitLost(r) PROVE RawInv'
  <2>1. /\ pc[r] = "commit" /\ pc'[r] = "idle" /\ UNCHANGED <<raw, msg>> /\ faults' # 0
        /\ \A q \in Request \ {r} : pc'[q] = pc[q]
        /\ messages' = messages \cup {MessageRow(r)} /\ MessageRow(r).hash = msg[r]
    BY <1>0, <1>5 DEF CommitLost, Fault, Durable, Answer, files, MessageRow, TypeOK
  <2>2. raw[msg[r]] # "absent"
    BY <2>1 DEF RawInv, RawFirst, InTx
  <2> QED
    BY <2>1, <2>2 DEF RawInv, RawFirst, TornIsOpen, InTx
<1>6. ASSUME NEW r \in Request, Fail(r) PROVE RawInv'
  BY <1>0, <1>6, RawUntouched DEF Fail, Fault, Answer, db, TypeOK, InTx
<1> QED
  BY <1>1, <1>2, <1>3, <1>4, <1>5, <1>6 DEF Next

\* The raw file of a stored mail is whole, or a request that raced past os.Stat
\* is rewriting it, as long as no call failed and the server did not crash.
THEOREM RawIsWhole == Spec => []RawWholeUnlessRewritten
<1>1. Init => RawInv
  BY RawAssumption DEF Init, RawInv, RawFirst, TornIsOpen, InTx
<1>2. IInv /\ RawInv => RawWholeUnlessRewritten
  BY DEF IInv, TypeOK, RawInv, RawFirst, TornIsOpen, RawWholeUnlessRewritten
<1>3. Spec => []RawInv
  BY <1>1, RawStep, Invariance, PTL DEF Spec
<1> QED
  BY <1>2, <1>3, Invariance, PTL

-----------------------------------------------------------------------------
\* Refinement: a step of the handler is a step of the contract or a stutter.
LEMMA ContractInit == Init => Contract!Init
BY RawAssumption DEF Init, Contract!Init, Stored, Stage, StageOf

\* What a move of one program counter means to the contract.
LEMMA StageMoves ==
    ASSUME TypeOK, NEW r \in Request, NEW there, Goto(r, there)
    PROVE  /\ Stage' = [Stage EXCEPT ![r] = StageOf(there)]
           /\ StageOf(there) = StageOf(pc[r]) => Stage' = Stage
BY DEF TypeOK, Goto, Stage, StageOf

LEMMA ContractAnswers ==
    ASSUME TypeOK, NEW r \in Request, NEW status, Answer(r, status), UNCHANGED msg
    PROVE  Contract!Answer(r, status)
BY StageMoves DEF Answer, Goto, Contract!Answer, StageOf

\* The commit is the step at which a mail becomes stored.
LEMMA ContractStores ==
    ASSUME IInv, NEW r \in Request, pc[r] = "commit", Durable(r)
    PROVE  msg[r] \notin Stored /\ Stored' = Stored \cup {msg[r]}
<1>1. MessageRow(r).hash = msg[r]
  BY DEF MessageRow
<1> QED
  BY <1>1 DEF IInv, EventsMatch, EventLock, Durable, Stored

\* A request that comes in is submitted or refused.
LEMMA ContractServes ==
    ASSUME IInv, NEW r \in Request, NEW m \in Raw, NEW status \in Admission(m),
           ServeHTTP(r, m, status)
    PROVE  \/ Contract!Submit(r, m)
           \/ \E s \in {"400", "401", "413", "429"} : Contract!Refuse(r, s)
<1>0. TypeOK /\ \A q \in Request : Stage[q] = StageOf(pc[q])
  BY DEF IInv, Stage
<1>1. status \in {"none", "400", "401", "413", "429"}
  BY DEF Admission
<1>2. CASE status = "none"
  <2>1. Contract!Submit(r, m)
    BY <1>0, <1>2, StageMoves DEF ServeHTTP, db, Contract!Submit, Stored, StageOf
  <2> QED
    BY <2>1
<1>3. CASE status # "none"
  <2>1. Contract!Refuse(r, status)
    BY <1>0, <1>3 DEF ServeHTTP, db, Contract!Refuse, Stored, Stage, StageOf
  <2> QED
    BY <1>1, <1>3, <2>1
<1> QED
  BY <1>2, <1>3

\* What the server does by itself, as the contract and as the handler have it.
ContractAlone ==
    \/ Contract!Crash
    \/ \E r \in Request : \/ Contract!Store(r) \/ Contract!StoreUnnoticed(r)
                          \/ Contract!Accept(r) \/ Contract!Duplicate(r) \/ Contract!Error(r)
HandlerAlone == Crash \/ \E r \in Request : Step(r) \/ CommitLost(r) \/ Fail(r)

LEMMA ContractGoesOn ==
    ASSUME IInv, HandlerAlone
    PROVE  ContractAlone \/ UNCHANGED Contract!vars
<1>0. TypeOK /\ \A r \in Request : Stage[r] = StageOf(pc[r])
  BY DEF IInv, Stage
<1>1. CASE Crash
  <2>1. Contract!Crash
    BY <1>0, <1>1 DEF Crash, db, Contract!Crash, Stored, Stage, StageOf
  <2> QED
    BY <2>1 DEF ContractAlone
<1>2. ASSUME NEW r \in Request, Step(r) PROVE ContractAlone \/ UNCHANGED Contract!vars
  <2>1. CASE IsDuplicate(r)
    <3>1. CASE EventTaken(r)
      <4>1. Contract!Duplicate(r)
        BY <1>0, <2>1, <3>1, ContractAnswers
        DEF IsDuplicate, EventTaken, db, IInv, EventsMatch, Contract!Duplicate, Stored, StageOf
      <4> QED
        BY <4>1 DEF ContractAlone
    <3>2. CASE ~EventTaken(r)
      BY <1>0, <2>1, <3>2, StageMoves DEF IsDuplicate, db, Contract!vars, Stored, StageOf
    <3> QED
      BY <3>1, <3>2
  <2>2. CASE \/ StatRaw(r) \/ OpenRaw(r) \/ WriteRaw(r) \/ Insert(r)
             \/ SaveAttachment(r) \/ InsertAttachment(r) \/ InsertEvent(r)
    <3>1. PICK there \in PC \ {"idle", "done"} : Goto(r, there)
      BY <2>2 DEF StatRaw, OpenRaw, WriteRaw, Insert, SaveAttachment, InsertAttachment,
                  InsertEvent, PC, InTx
    <3>2. pc[r] \notin {"idle", "done"} /\ UNCHANGED <<messages, msg, reply>>
      BY <2>2 DEF StatRaw, OpenRaw, WriteRaw, Insert, SaveAttachment, InsertAttachment,
                  InsertEvent, db
    <3> QED
      BY <1>0, <3>1, <3>2, StageMoves DEF Contract!vars, Stored, StageOf
  <2>3. CASE InsertTooLong(r) \/ AttachmentConflict(r) \/ EventConflict(r) \/ LockTimeout(r)
    <3>1. pc[r] \in {"begin", "row", "event"} /\ Answer(r, "500") /\ UNCHANGED <<messages, msg>>
      BY <2>3 DEF InsertTooLong, AttachmentConflict, EventConflict, LockTimeout, Blocked, db
    <3>2. Contract!Error(r)
      BY <1>0, <3>1, ContractAnswers DEF Contract!Error, Stored, StageOf
    <3> QED
      BY <3>2 DEF ContractAlone
  <2>4. CASE Commit(r)
    <3>1. Contract!Store(r)
      BY <1>0, <2>4, ContractStores, StageMoves DEF Commit, Contract!Store, StageOf
    <3> QED
      BY <3>1 DEF ContractAlone
  <2>5. CASE Respond(r)
    <3>1. Contract!Accept(r)
      BY <1>0, <2>5, ContractAnswers DEF Respond, db, Contract!Accept, Stored, StageOf
    <3> QED
      BY <3>1 DEF ContractAlone
  <2> QED
    BY <1>2, <2>1, <2>2, <2>3, <2>4, <2>5 DEF Step
<1>3. ASSUME NEW r \in Request, CommitLost(r) PROVE ContractAlone
  <2>1. Contract!StoreUnnoticed(r)
    BY <1>0, <1>3, ContractStores, ContractAnswers DEF CommitLost, Contract!StoreUnnoticed, StageOf
  <2> QED
    BY <2>1 DEF ContractAlone
<1>4. ASSUME NEW r \in Request, Fail(r) PROVE ContractAlone
  <2>1. Contract!Error(r)
    BY <1>0, <1>4, ContractAnswers DEF Fail, db, Contract!Error, Stored, StageOf
  <2> QED
    BY <2>1 DEF ContractAlone
<1> QED
  BY <1>1, <1>2, <1>3, <1>4 DEF HandlerAlone

\* A step of the handler is a step of the contract or changes nothing of it.
LEMMA ContractStep == IInv /\ [Next]_vars => [Contract!Next]_(Contract!vars)
<1> SUFFICES ASSUME IInv, [Next]_vars
             PROVE  Contract!Next \/ UNCHANGED Contract!vars
  OBVIOUS
<1>1. CASE UNCHANGED vars
  BY <1>1 DEF vars, Contract!vars, Stored, Stage
<1>2. CASE HandlerAlone
  BY <1>2, ContractGoesOn DEF ContractAlone, Contract!Next
<1>3. ASSUME NEW r \in Request, NEW m \in Raw, NEW status \in Admission(m),
             ServeHTTP(r, m, status)
      PROVE  Contract!Next
  BY <1>3, ContractServes DEF Contract!Next
<1> QED
  BY <1>1, <1>2, <1>3 DEF Next, HandlerAlone

\* The handler implements what IngestContract promises to the Worker.
THEOREM Refinement == Spec => ContractSpec
BY ContractInit, ContractStep, Invariance, PTL DEF Spec, ContractSpec, Contract!Spec

-----------------------------------------------------------------------------
\* A commit is the appearance of one mail, whole and under a new id.
LEMMA CommitAdds ==
    ASSUME IInv, NEW r \in Request, pc[r] = "commit", Durable(r)
    PROVE  Tables!Next
<1> DEFINE Ids(M) == {x.id : x \in M}
           Parsed == {[emails |-> SentTo(m), files |-> Keys(m)] : m \in Raw}
<1> PICK id \in Nat : id = mid[r]
  BY DEF IInv, TypeOK
<1>1. msg[r] \in Raw /\ idx[r] = Len(Keys(msg[r])) /\ \A x \in messages : x.id # id
  BY DEF IInv, TypeOK, LoopIndex, IdsFresh, InTx
<1> PICK p \in Parsed : p = [emails |-> SentTo(msg[r]), files |-> Keys(msg[r])]
  BY <1>1
<1>2. messages' = messages \cup {MessageRow(r)} /\ MessageRow(r).id = id
  BY DEF Durable, MessageRow
<1>3. Ids(messages') = Ids(messages) \cup {id} /\ id \notin Ids(messages)
  BY <1>1, <1>2
<1>4. recipients' = recipients \cup {[message |-> id, email |-> e] : e \in p.emails}
  BY DEF Durable, RecipientRows
<1>5. attachments' = attachments \cup
        {[message |-> id, pos |-> i, key |-> p.files[i]] : i \in 1..Len(p.files)}
  BY <1>1 DEF Durable, AttachmentRows
<1>6. Tables!Add(id, p)
  BY <1>3, <1>4, <1>5 DEF Tables!Add
<1> QED
  BY <1>3, <1>6 DEF Tables!Next

\* Of all that the handler does, the readers of the tables see whole mails
\* appear under new ids.
THEOREM IngestIsArchive == Spec => ArchiveSpec
<1>1. Init => Tables!Init
  BY DEF Init, Tables!Init
<1>2. IInv /\ [Next]_vars => [Tables!Next]_(Tables!vars)
  <2> SUFFICES ASSUME IInv, [Next]_vars PROVE [Tables!Next]_(Tables!vars)
    OBVIOUS
  <2>1. CASE UNCHANGED db
    BY <2>1 DEF db, Tables!vars
  <2>2. ASSUME NEW r \in Request, Commit(r) \/ CommitLost(r) PROVE Tables!Next
    BY <2>2, CommitAdds DEF Commit, CommitLost
  <2>3. UNCHANGED db \/ \E r \in Request : Commit(r) \/ CommitLost(r)
    BY DEF Next, vars, db, Crash, ServeHTTP, Step, IsDuplicate, StatRaw, OpenRaw, WriteRaw,
           Insert, InsertTooLong, SaveAttachment, InsertAttachment, AttachmentConflict,
           InsertEvent, EventConflict, LockTimeout, Respond, Fail
  <2> QED
    BY <2>1, <2>2, <2>3
<1> QED
  BY <1>1, <1>2, Invariance, PTL DEF Spec, ArchiveSpec, Tables!Spec

-----------------------------------------------------------------------------
\* How many steps a request can still take: two for each attachment that is
\* left, and those before and after the loop.
StepsFrom(c, n, k) ==
    CASE c = "idle"   -> 0
      [] c = "done"   -> 1
      [] c = "commit" -> 2
      [] c = "event"  -> 3
      [] c = "row"    -> 2 + 2 * (n - k)
      [] c = "attach" -> 3 + 2 * (n - k)
      [] c = "begin"  -> 4 + 2 * n
      [] c = "write"  -> 5 + 2 * n
      [] c = "open"   -> 6 + 2 * n
      [] c = "stat"   -> 7 + 2 * n
      [] c = "check"  -> 8 + 2 * n
Left(r) == StepsFrom(pc[r], Len(Keys(msg[r])), idx[r])

\* A request that has been admitted only ever comes closer to its answer:
\* conflicts, lock waits and faults end it and are not repeated, and nobody
\* else's step sets it back.  What is left of EveryRequestAnswered is that a
\* goroutine which can run does.
WindsDown ==
    [][\A r \in Request :
         /\ Step(r) => Left(r)' < Left(r)
         /\ pc[r] # "idle" => Left(r)' <= Left(r)]_vars
LeftBounded == \A r \in Request : Left(r) \in 0..8 + 2 * Len(Keys(msg[r]))

\* The numbers that a request's place in the loop is made of.
LEMMA LoopNumbers ==
    ASSUME IInv, NEW r \in Request
    PROVE  /\ pc[r] \in PC /\ Len(Keys(msg[r])) \in Nat /\ idx[r] \in Nat
           /\ pc[r] \in {"attach", "row"} => idx[r] < Len(Keys(msg[r]))
           /\ pc[r] = "begin" => idx[r] = 0
<1>1. Keys(msg[r]) \in Seq(Blob)
  BY ParsedType DEF IInv, TypeOK
<1> QED
  BY <1>1 DEF IInv, TypeOK, LoopIndex, InTx

\* The number of steps from each place, and its bounds.
LEMMA StepCounts ==
    ASSUME NEW n \in Nat, NEW k \in Nat, NEW c \in PC
    PROVE  /\ c = "idle" => StepsFrom(c, n, k) = 0
           /\ c = "done" => StepsFrom(c, n, k) = 1
           /\ c = "commit" => StepsFrom(c, n, k) = 2
           /\ c = "event" => StepsFrom(c, n, k) = 3
           /\ c = "row" => StepsFrom(c, n, k) = 2 + 2 * (n - k)
           /\ c = "attach" => StepsFrom(c, n, k) = 3 + 2 * (n - k)
           /\ c = "begin" => StepsFrom(c, n, k) = 4 + 2 * n
           /\ c = "write" => StepsFrom(c, n, k) = 5 + 2 * n
           /\ c = "open" => StepsFrom(c, n, k) = 6 + 2 * n
           /\ c = "stat" => StepsFrom(c, n, k) = 7 + 2 * n
           /\ c = "check" => StepsFrom(c, n, k) = 8 + 2 * n
BY DEF StepsFrom

LEMMA CountsBounded ==
    ASSUME NEW n \in Nat, NEW k \in Nat, NEW c \in PC, c \in {"attach", "row"} => k < n
    PROVE  StepsFrom(c, n, k) \in 0..8 + 2 * n /\ (c # "idle" => StepsFrom(c, n, k) > 0)
<1> DEFINE x == StepsFrom(c, n, k)
<1>1. \/ c = "idle" /\ x = 0
      \/ c # "idle" /\ x \in {1, 2, 3, 4 + 2 * n, 5 + 2 * n, 6 + 2 * n, 7 + 2 * n, 8 + 2 * n}
      \/ c # "idle" /\ k < n /\ x \in {2 + 2 * (n - k), 3 + 2 * (n - k)}
  BY StepCounts DEF PC, InTx
<1> HIDE DEF x
<1>2. x \in 0..8 + 2 * n /\ (c # "idle" => x > 0)
  BY <1>1
<1> QED
  BY <1>2 DEF x

\* The places that follow each other are one step apart, or more.
LEMMA CountsFall ==
    ASSUME NEW n \in Nat, NEW k \in Nat, NEW c \in PC, NEW d \in PC, NEW j \in Nat,
           c \in {"attach", "row"} => k < n,
           \/ c # "idle" /\ d = "idle"
           \/ j = k /\ <<c, d>> \in {<<"check", "stat">>, <<"stat", "open">>, <<"stat", "begin">>,
                   <<"open", "write">>, <<"write", "begin">>, <<"begin", "event">>,
                   <<"attach", "row">>, <<"event", "commit">>, <<"commit", "done">>}
           \/ k = 0 /\ j = 0 /\ c = "begin" /\ d = "attach"
           \/ c = "row" /\ d \in {"attach", "event"} /\ j = k + 1
    PROVE  StepsFrom(d, n, j) < StepsFrom(c, n, k) /\ StepsFrom(d, n, j) <= StepsFrom(c, n, k)
<1> DEFINE x == StepsFrom(c, n, k)
           y == StepsFrom(d, n, j)
<1>1. CASE c # "idle" /\ d = "idle"
  <2>1. x \in 0..8 + 2 * n /\ x > 0 /\ y = 0
    BY <1>1, CountsBounded, StepCounts
  <2> HIDE DEF x, y
  <2>2. y < x /\ y <= x
    BY <2>1
  <2> QED
    BY <2>2 DEF x, y
<1>2. CASE c = "row" /\ d \in {"attach", "event"} /\ j = k + 1
  <2>1. k < n /\ x = 2 + 2 * (n - k) /\ (y = 3 \/ y = 3 + 2 * (n - (k + 1)))
    BY <1>2, StepCounts
  <2> HIDE DEF x, y
  <2>2. y < x /\ y <= x
    BY <2>1
  <2> QED
    BY <2>2 DEF x, y
<1>3. CASE /\ d # "idle" /\ c # "row"
  <2>1. \/ x \in {3, 2} /\ y = x - 1
        \/ x = 4 + 2 * n /\ (y = 3 \/ y = 3 + 2 * n)
        \/ x = 3 + 2 * (n - k) /\ y = 2 + 2 * (n - k)
        \/ x \in {5 + 2 * n, 6 + 2 * n, 7 + 2 * n, 8 + 2 * n} /\ (y = x - 1 \/ y = 4 + 2 * n)
    <3>1. c = "check" /\ d = "stat" => x = 8 + 2 * n /\ y = 7 + 2 * n
      BY StepCounts
    <3>2. c = "stat" /\ d = "open" => x = 7 + 2 * n /\ y = 6 + 2 * n
      BY StepCounts
    <3>3. c = "stat" /\ d = "begin" => x = 7 + 2 * n /\ y = 4 + 2 * n
      BY StepCounts
    <3>4. c = "open" /\ d = "write" => x = 6 + 2 * n /\ y = 5 + 2 * n
      BY StepCounts
    <3>5. c = "write" /\ d = "begin" => x = 5 + 2 * n /\ y = 4 + 2 * n
      BY StepCounts
    <3>6. c = "begin" /\ d = "event" => x = 4 + 2 * n /\ y = 3
      BY StepCounts
    <3>7. c = "begin" /\ d = "attach" /\ j = 0 => x = 4 + 2 * n /\ y = 3 + 2 * n
      BY StepCounts
    <3>8. c = "attach" /\ d = "row" /\ j = k => x = 3 + 2 * (n - k) /\ y = 2 + 2 * (n - k)
      BY StepCounts
    <3>9. c = "event" /\ d = "commit" => x = 3 /\ y = 2
      BY StepCounts
    <3>10. c = "commit" /\ d = "done" => x = 2 /\ y = 1
      BY StepCounts
    <3> HIDE DEF x, y
    <3> QED
      BY <1>3, <3>1, <3>2, <3>3, <3>4, <3>5, <3>6, <3>7, <3>8, <3>9, <3>10
  <2> HIDE DEF x, y
  <2>2. y < x /\ y <= x
    BY <2>1
  <2> QED
    BY <2>2 DEF x, y
<1> QED
  BY <1>1, <1>2, <1>3

LEMMA LeftType == IInv => LeftBounded
BY LoopNumbers, CountsBounded DEF LeftBounded, Left

\* Where a step can lead.
LEMMA StepMoves ==
    ASSUME IInv, NEW r \in Request, Step(r)
    PROVE  /\ pc[r] # "idle" /\ UNCHANGED msg
           /\ \A q \in Request \ {r} : pc'[q] = pc[q] /\ idx'[q] = idx[q]
           /\ \/ pc'[r] = "idle"
              \/ <<pc[r], pc'[r]>> \in {<<"check", "stat">>, <<"stat", "open">>, <<"stat", "begin">>,
                   <<"open", "write">>, <<"write", "begin">>, <<"begin", "event">>,
                   <<"begin", "attach">>, <<"attach", "row">>, <<"event", "commit">>,
                   <<"commit", "done">>} /\ idx'[r] = idx[r]
              \/ pc[r] = "row" /\ pc'[r] \in {"attach", "event"} /\ idx'[r] = idx[r] + 1
<1> USE DEF IInv, TypeOK, Goto, Answer
<1>1. CASE IsDuplicate(r) \/ StatRaw(r) \/ OpenRaw(r) \/ WriteRaw(r)
  BY <1>1 DEF IsDuplicate, StatRaw, OpenRaw, WriteRaw
<1>2. CASE Insert(r) \/ InsertTooLong(r) \/ SaveAttachment(r)
  BY <1>2 DEF Insert, InsertTooLong, SaveAttachment
<1>3. CASE InsertAttachment(r)
  BY <1>3 DEF InsertAttachment
<1>4. CASE AttachmentConflict(r) \/ EventConflict(r) \/ LockTimeout(r) \/ Respond(r)
  BY <1>4 DEF AttachmentConflict, EventConflict, LockTimeout, Blocked, Respond
<1>5. CASE InsertEvent(r) \/ Commit(r)
  BY <1>5 DEF InsertEvent, Commit
<1> QED
  BY <1>1, <1>2, <1>3, <1>4, <1>5 DEF Step

\* Its own step brings a request closer to its answer.
LEMMA StepLowers ==
    ASSUME IInv, NEW r \in Request, Step(r)
    PROVE  Left(r)' < Left(r) /\ Left(r)' <= Left(r)
<1>1. /\ pc[r] \in PC /\ Len(Keys(msg[r])) \in Nat /\ idx[r] \in Nat
      /\ pc[r] \in {"attach", "row"} => idx[r] < Len(Keys(msg[r]))
      /\ pc[r] = "begin" => idx[r] = 0
  BY LoopNumbers
<1>2. pc'[r] \in PC /\ idx'[r] \in Nat
  BY TypeStep DEF TypeOK, Next
<1> PICK n \in Nat, k \in Nat, j \in Nat, c \in PC, d \in PC :
      /\ n = Len(Keys(msg[r])) /\ k = idx[r] /\ j = idx'[r] /\ c = pc[r] /\ d = pc'[r]
  BY <1>1, <1>2
<1>3. Left(r) = StepsFrom(c, n, k) /\ Left(r)' = StepsFrom(d, n, j)
  BY StepMoves DEF Left
<1>4. StepsFrom(d, n, j) < StepsFrom(c, n, k) /\ StepsFrom(d, n, j) <= StepsFrom(c, n, k)
  BY <1>1, StepMoves, CountsFall
<1> QED
  BY <1>3, <1>4

\* Every admitted request winds down, in at most 8 steps and 2 for each of its
\* attachments.
THEOREM RequestsWindDown == Spec => []LeftBounded /\ WindsDown
<1> DEFINE Down == \A r \in Request :
                     /\ Step(r) => Left(r)' < Left(r)
                     /\ pc[r] # "idle" => Left(r)' <= Left(r)
<1>1. ASSUME IInv, [Next]_vars PROVE [Down]_vars
  <2> SUFFICES ASSUME NEW r \in Request, pc[r] # "idle", ~Step(r) PROVE Left(r)' <= Left(r)
    BY <1>1, StepLowers
  <2>1. Left(r) \in Nat
    <3>1. LeftBounded /\ Len(Keys(msg[r])) \in Nat
      BY <1>1, LeftType, LoopNumbers
    <3> QED
      BY <3>1 DEF LeftBounded
  <2>2. pc'[r] = "idle" => Left(r)' <= Left(r)
    <3>1. pc'[r] = "idle" => Left(r)' = 0
      BY DEF Left, StepsFrom
    <3> QED
      BY <2>1, <3>1
  <2>3. pc'[r] = pc[r] /\ idx'[r] = idx[r] /\ msg'[r] = msg[r] => Left(r)' <= Left(r)
    <3>1. pc'[r] = pc[r] /\ idx'[r] = idx[r] /\ msg'[r] = msg[r] => Left(r)' = Left(r)
      BY DEF Left
    <3> QED
      BY <2>1, <3>1
  <2>4. CASE UNCHANGED vars
    BY <2>3, <2>4 DEF vars
  <2>5. CASE Crash
    BY <2>2, <2>5 DEF Crash
  <2>6. ASSUME NEW q \in Request, Step(q) PROVE Left(r)' <= Left(r)
    BY <1>1, <2>3, <2>6, StepMoves
  <2>7. ASSUME NEW q \in Request, CommitLost(q) \/ Fail(q) PROVE Left(r)' <= Left(r)
    BY <1>1, <2>2, <2>3, <2>7 DEF CommitLost, Fail, Answer, IInv, TypeOK
  <2>8. ASSUME NEW q \in Request, NEW m \in Raw, NEW status \in Admission(m),
               ServeHTTP(q, m, status)
        PROVE  Left(r)' <= Left(r)
    BY <1>1, <2>3, <2>8 DEF ServeHTTP, Goto, IInv, TypeOK
  <2> QED
    BY <1>1, <2>4, <2>5, <2>6, <2>7, <2>8 DEF Next
<1> QED
  BY <1>1, LeftType, Invariance, PTL DEF Spec, WindsDown

-----------------------------------------------------------------------------
\* The composition with the Worker.  The handler keeps its invariant, since a
\* POST is nothing but a request.
LEMMA DeliveryKeeps ==
    ASSUME IInv, mail \in [Invocation -> Raw], [DeliveryNext]_system
    PROVE  [Next]_vars /\ IInv' /\ UNCHANGED mail
<1>1. CASE UNCHANGED system
  BY <1>1, IInvStep DEF system, worker
<1>2. CASE GoAlone
  BY <1>2, IInvStep DEF GoAlone, worker, Next
<1>3. CASE WorkerAlone
  <2>1. UNCHANGED vars
    BY <1>3 DEF WorkerAlone
  <2>2. UNCHANGED mail
    BY <1>3 DEF WorkerAlone, ClientAlone, Worker!Tick, Worker!Receive, Worker!Unreadable, Worker!Join,
                Worker!Evict, Worker!NotifyStep, Worker!TelegramStep, Worker!I!PostFails,
                Worker!I!Receive, Worker!I!Abort, Worker!I!Start, Worker!N!Tick, Worker!N!WorkerStep,
                Worker!N!TelegramStep, Worker!N!SavePreview, Worker!N!SavePreviewFails,
                Worker!N!LookUpMarker, Worker!N!LookUpMisses, Worker!N!EndOfLoop,
                Worker!N!WriteMarker, Worker!N!WriteMarkerFails, Worker!N!Sent, Worker!N!NotSent,
                Worker!N!SentUnseen, Worker!N!SendMessage
  <2> QED
    BY <2>1, <2>2, IInvStep
<1>4. ASSUME NEW i \in Invocation, NEW r \in Request, NEW status \in Admission(mail[i]),
             Post(i, r, status)
      PROVE  [Next]_vars /\ IInv' /\ UNCHANGED mail
  <2>1. Next
    BY <1>4 DEF Post, Next
  <2> QED
    BY <1>4, <2>1, IInvStep DEF Post
<1> QED
  BY <1>1, <1>2, <1>3, <1>4 DEF DeliveryNext

\* What the Worker's specification says of the server is what IngestContract
\* says of it.
LEMMA SameContract ==
    /\ ContractAlone /\ UNCHANGED worker => Worker!GoStep
    /\ Contract!Init => Worker!I!Go!Init
<1>1. ContractAlone /\ UNCHANGED worker => Worker!GoStep
  BY DEF ContractAlone, worker, telegram, Worker!GoStep, Worker!notify, Worker!I!ServerStep, Worker!I!client,
         Contract!Crash, Contract!Store, Contract!StoreUnnoticed, Contract!Accept,
         Contract!Duplicate, Contract!Error, Contract!Answer,
         Worker!I!Go!Crash, Worker!I!Go!Store, Worker!I!Go!StoreUnnoticed, Worker!I!Go!Accept,
         Worker!I!Go!Duplicate, Worker!I!Go!Error, Worker!I!Go!Answer
<1>2. Contract!Init => Worker!I!Go!Init
  BY DEF Contract!Init, Worker!I!Go!Init
<1> QED
  BY <1>1, <1>2

\* The POST of the composition is the Post of IngestClient.
LEMMA PostIsPost ==
    ASSUME IInv, mail \in [Invocation -> Raw],
           NEW i \in Invocation, NEW r \in Request, NEW status \in Admission(mail[i]),
           Post(i, r, status)
    PROVE  Worker!IngestStep(i)
<1>1. \/ Contract!Submit(r, mail[i])
      \/ \E s \in {"400", "401", "413", "429"} : Contract!Refuse(r, s)
  BY ContractServes DEF Post
<1>2. \/ Worker!I!Go!Submit(r, mail[i])
      \/ \E s \in {"400", "401", "413", "429"} : Worker!I!Go!Refuse(r, s)
  BY <1>1 DEF Contract!Submit, Contract!Refuse, Worker!I!Go!Submit, Worker!I!Go!Refuse
<1>3. Worker!I!Post(i, r)
  BY <1>2 DEF Post, Worker!I!Post, Worker!I!Goto, Worker!I!Waiting
<1> QED
  BY <1>3 DEF Post, telegram, Worker!IngestStep, Worker!I!ClientStep, Worker!notify

\* Every step of the composition is one of the Worker over the contract.
LEMMA WorkerStep ==
    ASSUME IInv, mail \in [Invocation -> Raw], [DeliveryNext]_system
    PROVE  [Worker!Next]_(Worker!vars)
<1>0. UNCHANGED vars => UNCHANGED <<Stored, msg, Stage, reply>>
  BY DEF vars, Stored, Stage
<1>1. CASE UNCHANGED system
  BY <1>0, <1>1 DEF system, worker, telegram, Worker!vars, Worker!ingest, Worker!notify
<1>2. CASE GoAlone
  <2>1. CASE ContractAlone
    BY <1>2, <2>1, SameContract DEF GoAlone, Worker!Next
  <2>2. CASE UNCHANGED Contract!vars
    BY <1>2, <2>2 DEF GoAlone, worker, telegram, Contract!vars, Worker!vars, Worker!ingest, Worker!notify
  <2> QED
    BY <1>2, <2>1, <2>2, ContractGoesOn DEF GoAlone, HandlerAlone
<1>3. CASE WorkerAlone
  <2>1. ASSUME NEW i \in Invocation, ClientAlone(i) PROVE Worker!IngestStep(i)
    BY <2>1 DEF ClientAlone, telegram, Worker!IngestStep, Worker!I!ClientStep, Worker!notify
  <2> QED
    BY <1>3, <2>1 DEF WorkerAlone, Worker!Next
<1>4. ASSUME NEW i \in Invocation, NEW r \in Request, NEW status \in Admission(mail[i]),
             Post(i, r, status)
      PROVE  Worker!Next
  BY <1>4, PostIsPost DEF Worker!Next
<1> QED
  BY <1>1, <1>2, <1>3, <1>4 DEF DeliveryNext

LEMMA WorkerInit == DeliveryInit => Worker!Init /\ IInv /\ mail \in [Invocation -> Raw]
<1> SUFFICES ASSUME DeliveryInit PROVE Worker!Init /\ IInv /\ mail \in [Invocation -> Raw]
  OBVIOUS
<1>1. IInv /\ Contract!Init
  BY InitIInv, ContractInit DEF DeliveryInit
<1>2. Worker!I!Init
  BY <1>1, SameContract DEF DeliveryInit, Worker!I!Init
<1> QED
  BY <1>1, <1>2 DEF DeliveryInit, Worker!Init

\* Both invariants together: the handler's, and that the Worker keeps its mail.
THEOREM DeliveryInvariance == DeliverySpec => [](IInv /\ mail \in [Invocation -> Raw])
<1>1. IInv /\ mail \in [Invocation -> Raw] /\ [DeliveryNext]_system
        => (IInv /\ mail \in [Invocation -> Raw])'
  BY DeliveryKeeps
<1> QED
  BY <1>1, WorkerInit, PTL DEF DeliverySpec

\* The handler under the Worker's requests is the handler of Ingest: all that
\* is shown of it holds in the composition.
THEOREM DeliveryIsIngest == DeliverySpec => HandlerSpec
<1>1. DeliveryInit => Init
  BY DEF DeliveryInit
<1>2. IInv /\ mail \in [Invocation -> Raw] /\ [DeliveryNext]_system => [Next]_vars
  BY DeliveryKeeps
<1> QED
  BY <1>1, <1>2, DeliveryInvariance, PTL DEF DeliverySpec, HandlerSpec, Spec

\* The Worker over the Go handler implements the Worker over the contract.
THEOREM DeliveryIsEmail == DeliverySpec => WorkerSpec
<1>1. IInv /\ mail \in [Invocation -> Raw] /\ [DeliveryNext]_system => [Worker!Next]_(Worker!vars)
  BY WorkerStep
<1> QED
  BY <1>1, WorkerInit, DeliveryInvariance, PTL DEF DeliverySpec, WorkerSpec, Worker!SafetySpec

\* A step of the Worker as Delivery names it is one as EmailProofs names it.
LEMMA EmailSteps ==
    /\ [Worker!Next]_(Worker!vars) => [EP!Next]_(EP!vars)
    /\ Worker!Init => EP!Init
<1>1. [Worker!Next]_(Worker!vars) => [EP!Next]_(EP!vars)
  BY DEF Worker!Next, Worker!vars, Worker!ingest, Worker!notify, Worker!GoStep, Worker!Tick,
         Worker!Receive, Worker!Unreadable, Worker!Join, Worker!Evict, Worker!IngestStep,
         Worker!NotifyStep, Worker!TelegramStep, Worker!Arrives, Worker!Ends, Worker!I!ServerStep,
         Worker!I!Start, Worker!I!ClientStep, Worker!I!Post, Worker!I!PostFails, Worker!I!Receive,
         Worker!I!Abort, Worker!I!ServerError, Worker!I!Goto, Worker!I!server, Worker!I!client,
         Worker!I!Waiting, Worker!I!Settled, Worker!I!Go!Crash, Worker!I!Go!Store,
         Worker!I!Go!StoreUnnoticed, Worker!I!Go!Accept, Worker!I!Go!Duplicate, Worker!I!Go!Error,
         Worker!I!Go!Submit, Worker!I!Go!Refuse, Worker!I!Go!Answer, Worker!N!Tick, Worker!N!Start,
         Worker!N!WorkerStep, Worker!N!TelegramStep, Worker!N!SavePreview,
         Worker!N!SavePreviewFails, Worker!N!LookUpMarker, Worker!N!LookUpMisses,
         Worker!N!EndOfLoop, Worker!N!WriteMarker, Worker!N!WriteMarkerFails, Worker!N!Sent,
         Worker!N!NotSent, Worker!N!SentUnseen, Worker!N!SendMessage, Worker!N!AfterSave,
         Worker!N!Goto, Worker!N!Marked, Worker!N!Live, Worker!N!SentKey, Worker!N!Expiry,
         Worker!N!Trouble, Worker!N!kv, EP!Next, EP!vars, EP!ingest, EP!notify, EP!GoStep, EP!Tick,
         EP!Receive, EP!Unreadable, EP!Join, EP!Evict, EP!IngestStep, EP!NotifyStep,
         EP!TelegramStep, EP!Arrives, EP!Ends, EP!I!ServerStep, EP!I!Start, EP!I!ClientStep,
         EP!I!Post, EP!I!PostFails, EP!I!Receive, EP!I!Abort, EP!I!ServerError, EP!I!Goto,
         EP!I!server, EP!I!client, EP!I!Waiting, EP!I!Settled, EP!I!Go!Crash, EP!I!Go!Store,
         EP!I!Go!StoreUnnoticed, EP!I!Go!Accept, EP!I!Go!Duplicate, EP!I!Go!Error, EP!I!Go!Submit,
         EP!I!Go!Refuse, EP!I!Go!Answer, EP!N!Tick, EP!N!Start, EP!N!WorkerStep, EP!N!TelegramStep,
         EP!N!SavePreview, EP!N!SavePreviewFails, EP!N!LookUpMarker, EP!N!LookUpMisses,
         EP!N!EndOfLoop, EP!N!WriteMarker, EP!N!WriteMarkerFails, EP!N!Sent, EP!N!NotSent,
         EP!N!SentUnseen, EP!N!SendMessage, EP!N!AfterSave, EP!N!Goto, EP!N!Marked, EP!N!Live,
         EP!N!SentKey, EP!N!Expiry, EP!N!Trouble, EP!N!kv
<1>2. Worker!Init => EP!Init
  BY DEF Worker!Init, Worker!I!Init, Worker!I!Go!Init, Worker!N!Init, Worker!N!SentKey, Worker!N!Keys,
         EP!Init, EP!I!Init, EP!I!Go!Init, EP!N!Init, EP!N!SentKey, EP!N!Keys
<1> QED
  BY <1>1, <1>2

\* A mail for which email() returns without a bounce is in the tables, once,
\* with every recipient, every attachment and every file, for every number of
\* invocations, requests, attachments and faults on either side.
THEOREM DeliveredMailIsWhole ==
    ASSUME EP!EmailAssumption
    PROVE  DeliverySpec => []DeliveredWhole
<1>1. EP!EInv /\ [Worker!Next]_(Worker!vars) => EP!EInv'
  BY EmailSteps, EP!StepEInv
<1>2. Worker!Init => EP!EInv
  BY EmailSteps, EP!InitEInv
<1>3. DeliverySpec => []EP!EInv
  BY <1>1, <1>2, DeliveryIsEmail, PTL DEF WorkerSpec, Worker!SafetySpec
<1>4. IInv /\ mail \in [Invocation -> Raw] /\ EP!EInv => DeliveredWhole
  <2> SUFFICES ASSUME IInv, mail \in [Invocation -> Raw], EP!EInv,
                      NEW i \in Invocation, outcome[i] = "delivered"
               PROVE  \E x \in messages :
                        /\ x.hash = mail[i]
                        /\ \A y \in messages : y.hash = mail[i] => y = x
                        /\ {row.email : row \in {rr \in recipients : rr.message = x.id}} = SentTo(mail[i])
                        /\ {<<row.pos, row.key>> : row \in {aa \in attachments : aa.message = x.id}}
                             = {<<k, Keys(mail[i])[k]>> : k \in 1..Len(Keys(mail[i]))}
                        /\ \A k \in 1..Len(Keys(mail[i])) : <<x.id, Keys(mail[i])[k]>> \in blobs
    BY DEF DeliveredWhole
  <2>1. mail[i] \in Stored
    BY DEF EP!EInv, EP!Returned, EP!IP!IInv, EP!IP!NoSilentLoss
  <2>2. PICK x \in messages : x.hash = mail[i]
    BY <2>1 DEF Stored
  <2>3. \A y \in messages : y.hash = mail[i] => y = x
    BY <2>2 DEF IInv, StoredOnce
  <2>4. /\ {row.email : row \in {rr \in recipients : rr.message = x.id}} = SentTo(mail[i])
        /\ {<<row.pos, row.key>> : row \in {aa \in attachments : aa.message = x.id}}
             = {<<k, Keys(mail[i])[k]>> : k \in 1..Len(Keys(mail[i]))}
    BY <2>2 DEF IInv, StoredWhole
  <2>5. ASSUME NEW k \in 1..Len(Keys(mail[i])) PROVE <<x.id, Keys(mail[i])[k]>> \in blobs
    <3>1. <<k, Keys(mail[i])[k]>> \in
             {<<row.pos, row.key>> : row \in {aa \in attachments : aa.message = x.id}}
      BY <2>4
    <3>2. PICK row \in attachments : row.message = x.id /\ <<row.pos, row.key>> = <<k, Keys(mail[i])[k]>>
      BY <3>1
    <3>3. row.key = Keys(mail[i])[k]
      BY <3>2
    <3> QED
      BY <3>2, <3>3 DEF IInv, FilesFirst, AttachmentsRetrievable
  <2> QED
    BY <2>2, <2>3, <2>4, <2>5
<1> QED
  BY <1>3, <1>4, DeliveryInvariance, PTL
=============================================================================
