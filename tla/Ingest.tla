------------------------------- MODULE Ingest -------------------------------
(***************************************************************************)
(* POST /api/ingest of the Go server: the handler of internal/ingest, the  *)
(* file store of internal/storage and the tables and unique indexes of     *)
(* migration 001, under concurrent requests, failing calls and crashes.    *)
(*                                                                         *)
(* A mail is identified with its bytes, hence with its SHA-256 hash.  One  *)
(* request goroutine is a program counter; between two of its values lies  *)
(* one file-system call or one SQL statement.  The rows of an open         *)
(* transaction are a function of pc, msg, mid and idx and are therefore    *)
(* not stored twice; Commit moves them into the tables.                    *)
(***************************************************************************)
EXTENDS Integers, Sequences, FiniteSets

CONSTANTS
    Request,       \* concurrent HTTP requests
    Raw,           \* raw MIME mails, one per content hash
    Blob,          \* attachment contents, one per content hash
    Address,       \* recipient addresses
    Attachments,   \* the attachments ParseMIME finds in a mail, in order
    Recipients,    \* the recipients ParseMIME finds in a mail
    Malformed,     \* mails that ParseMIME refuses
    Oversize,      \* mails longer than MAX_MESSAGE_BYTES
    Overlong,      \* mails with a header longer than its column
    MaxMessageID,  \* bound: AUTO_INCREMENT values handed out
    MaxFaults      \* bound: crashes and failing calls

ASSUME RawAssumption ==
    /\ Raw # {}
    /\ Attachments \in [Raw -> Seq(Blob)]
    /\ Recipients \in [Raw -> SUBSET Address]
    /\ Malformed \subseteq Raw /\ Oversize \subseteq Raw /\ Overlong \subseteq Raw

ASSUME BoundAssumption == MaxMessageID \in Nat /\ MaxFaults \in Nat

VARIABLES
    messages,      \* committed rows of table messages
    recipients,    \* committed rows of table message_recipients
    attachments,   \* committed rows of table attachments
    events,        \* content hashes in table ingest_events
    nextID,        \* next AUTO_INCREMENT value of messages.id
    raw,           \* DATA_DIR/raw/<hash>: "absent", "torn" or "complete"
    blobs,         \* completely written DATA_DIR/attachments/<id>/<key>
    pc,            \* where each request is
    msg,           \* the mail each request carries, or last carried
    mid,           \* id its transaction gave the message, 0 outside one
    idx,           \* attachment rows inserted by its transaction
    reply,         \* its last answer; "lost" if the server died first
    faults         \* crashes and failing calls so far

db    == <<messages, recipients, attachments, events>>
files == <<raw, blobs>>
vars  == <<messages, recipients, attachments, events, nextID, raw, blobs,
           pc, msg, mid, idx, reply, faults>>

InTx == {"attach", "row", "event", "commit"}     \* BeginTx .. Commit
PC   == InTx \cup {"idle", "check", "stat", "open", "write", "begin", "done"}
Refusal == {"429", "413", "401", "400"}
Answers == Refusal \cup {"none", "lost", "500", "duplicate", "accepted"}

-----------------------------------------------------------------------------
\* A mail that ParseMIME refuses is stored by fallbackParsedMessageWithError,
\* with neither attachments nor recipients.
Keys(m)   == IF m \in Malformed THEN <<>> ELSE Attachments[m]
SentTo(m) == IF m \in Malformed THEN {} ELSE Recipients[m]
\* Mutant: a status that parse_status ENUM does not have.
StatusMutant(m) == IF m \in Malformed THEN "error" ELSE "success"
Status(m) == IF m \in Malformed THEN "failed" ELSE "success"

NextKey(r) == Keys(msg[r])[idx[r] + 1]

\* The rows that r's transaction adds to the tables.
MessageRow(r)     == [id |-> mid[r], hash |-> msg[r], status |-> Status(msg[r])]
RecipientRows(r)  == {[message |-> mid[r], email |-> a] : a \in SentTo(msg[r])}
AttachmentRows(r) ==
    {[message |-> mid[r], pos |-> i, key |-> Keys(msg[r])[i]] : i \in 1..idx[r]}

\* Unique index idx_attachments_storage_key: a key is taken by a committed
\* row or by r itself; r has to wait for another transaction that inserted it.
KeyTaken(r, k) ==
    \/ \E row \in attachments : row.key = k
    \/ \E row \in AttachmentRows(r) : row.key = k
KeyHeld(r, k) ==
    \E q \in Request \ {r} : pc[q] \in InTx /\ \E row \in AttachmentRows(q) : row.key = k

\* Unique index idx_ingest_dedupe; cloudflare_message_id is the hash as well.
EventTaken(r) == msg[r] \in events
EventHeld(r)  == \E q \in Request \ {r} : pc[q] = "commit" /\ msg[q] = msg[r]

-----------------------------------------------------------------------------
Init ==
    /\ messages = {} /\ recipients = {} /\ attachments = {} /\ events = {}
    /\ nextID = 1
    /\ raw = [m \in Raw |-> "absent"]
    /\ blobs = {}
    /\ pc = [r \in Request |-> "idle"]
    /\ msg = [r \in Request |-> CHOOSE m \in Raw : TRUE]   \* until ServeHTTP
    /\ mid = [r \in Request |-> 0]
    /\ idx = [r \in Request |-> 0]
    /\ reply = [r \in Request |-> "none"]
    /\ faults = 0

Goto(r, there) == pc' = [pc EXCEPT ![r] = there]

\* The handler returns; an open transaction is rolled back by the defer.
Answer(r, status) ==
    /\ pc' = [pc EXCEPT ![r] = "idle"]
    /\ reply' = [reply EXCEPT ![r] = status]
    /\ mid' = [mid EXCEPT ![r] = 0]
    /\ idx' = [idx EXCEPT ![r] = 0]

Fault == faults < MaxFaults /\ faults' = faults + 1

\* What RateLimit, MaxBodySize and the handler's own checks may say, in that
\* order: the address has no token left; the body is declared too long; the
\* PSK is wrong; the body is longer than it declares, which MaxBytesReader
\* turns into a read error; or nothing, and the mail is admitted.
Admission(m) ==
    {"429", "401"} \cup (IF m \in Oversize THEN {"413", "400"} ELSE {"none"})

\* Bound: every admitted request may consume an AUTO_INCREMENT value.
RoomForOne == nextID + Cardinality({r \in Request : pc[r] # "idle"}) <= MaxMessageID

ServeHTTP(r, m, status) ==
    /\ pc[r] = "idle"
    /\ status \in Admission(m)
    /\ reply' = [reply EXCEPT ![r] = status]
    /\ \/ /\ status = "none"
          /\ RoomForOne
          /\ msg' = [msg EXCEPT ![r] = m]
          /\ Goto(r, "check")
       \/ /\ status # "none"
          /\ UNCHANGED <<msg, pc>>
    /\ UNCHANGED <<db, nextID, files, mid, idx, faults>>

\* Mutant: the raw file is taken as the sign that the mail was ingested.
IsDuplicateMutant(r) ==
    /\ pc[r] = "check"
    /\ \/ raw[msg[r]] # "absent" /\ Answer(r, "duplicate")
       \/ raw[msg[r]] = "absent" /\ Goto(r, "stat") /\ UNCHANGED <<reply, mid, idx>>
    /\ UNCHANGED <<db, nextID, files, msg, faults>>

\* isDuplicate reads ingest_events outside the transaction that inserts.
IsDuplicate(r) ==
    /\ pc[r] = "check"
    /\ \/ EventTaken(r) /\ Answer(r, "duplicate")
       \/ ~EventTaken(r) /\ Goto(r, "stat") /\ UNCHANGED <<reply, mid, idx>>
    /\ UNCHANGED <<db, nextID, files, msg, faults>>

\* SaveRawMIME: an existing file, whole or not, is taken for the mail.
StatRaw(r) ==
    /\ pc[r] = "stat"
    /\ Goto(r, IF raw[msg[r]] = "absent" THEN "open" ELSE "begin")
    /\ UNCHANGED <<db, nextID, files, msg, mid, idx, reply, faults>>

\* os.WriteFile creates or truncates the file ...
OpenRaw(r) ==
    /\ pc[r] = "open"
    /\ raw' = [raw EXCEPT ![msg[r]] = "torn"]
    /\ Goto(r, "write")
    /\ UNCHANGED <<db, nextID, blobs, msg, mid, idx, reply, faults>>

\* Mutant: a short write goes unnoticed.
WriteRawMutant(r) ==
    /\ pc[r] = "write"
    /\ Goto(r, "begin")
    /\ UNCHANGED <<db, nextID, files, msg, mid, idx, reply, faults>>

\* ... and then writes it.
WriteRaw(r) ==
    /\ pc[r] = "write"
    /\ raw' = [raw EXCEPT ![msg[r]] = "complete"]
    /\ Goto(r, "begin")
    /\ UNCHANGED <<db, nextID, blobs, msg, mid, idx, reply, faults>>

-----------------------------------------------------------------------------
\* persist: BeginTx, INSERT INTO messages, INSERT INTO message_recipients.
\* A value longer than its column is an error of the statement; the
\* AUTO_INCREMENT value it may have drawn is not modelled as lost.
Insert(r) ==
    /\ pc[r] = "begin"
    /\ msg[r] \notin Overlong
    /\ mid' = [mid EXCEPT ![r] = nextID]
    /\ nextID' = nextID + 1
    /\ Goto(r, IF Keys(msg[r]) = <<>> THEN "event" ELSE "attach")
    /\ UNCHANGED <<db, files, msg, idx, reply, faults>>

InsertTooLong(r) ==
    /\ pc[r] = "begin"
    /\ msg[r] \in Overlong
    /\ Answer(r, "500")
    /\ UNCHANGED <<db, nextID, files, msg, faults>>

\* Mutant: the error of os.WriteFile is dropped.
SaveAttachmentMutant(r) ==
    /\ pc[r] = "attach"
    /\ blobs' \in {blobs, blobs \cup {<<mid[r], NextKey(r)>>}}
    /\ Goto(r, "row")
    /\ UNCHANGED <<db, nextID, raw, msg, mid, idx, reply, faults>>

SaveAttachment(r) ==
    /\ pc[r] = "attach"
    /\ blobs' = blobs \cup {<<mid[r], NextKey(r)>>}
    /\ Goto(r, "row")
    /\ UNCHANGED <<db, nextID, raw, msg, mid, idx, reply, faults>>

\* Mutant: the loop stops one attachment early.
InsertAttachmentMutant(r) ==
    /\ pc[r] = "row"
    /\ ~KeyHeld(r, NextKey(r))
    /\ ~KeyTaken(r, NextKey(r))
    /\ idx' = [idx EXCEPT ![r] = @ + 1]
    /\ Goto(r, IF idx[r] + 2 < Len(Keys(msg[r])) THEN "attach" ELSE "event")
    /\ UNCHANGED <<db, nextID, files, msg, mid, reply, faults>>

InsertAttachment(r) ==
    /\ pc[r] = "row"
    /\ ~KeyHeld(r, NextKey(r))
    /\ ~KeyTaken(r, NextKey(r))
    /\ idx' = [idx EXCEPT ![r] = @ + 1]
    /\ Goto(r, IF idx[r] + 1 < Len(Keys(msg[r])) THEN "attach" ELSE "event")
    /\ UNCHANGED <<db, nextID, files, msg, mid, reply, faults>>

\* Mutant: the statement is repeated instead of given up.
AttachmentConflictMutant(r) ==
    /\ pc[r] = "row"
    /\ ~KeyHeld(r, NextKey(r))
    /\ KeyTaken(r, NextKey(r))
    /\ Goto(r, "attach")
    /\ UNCHANGED <<db, nextID, files, msg, mid, idx, reply, faults>>

\* Duplicate key on idx_attachments_storage_key: the transaction is undone.
AttachmentConflict(r) ==
    /\ pc[r] = "row"
    /\ ~KeyHeld(r, NextKey(r))
    /\ KeyTaken(r, NextKey(r))
    /\ Answer(r, "500")
    /\ UNCHANGED <<db, nextID, files, msg, faults>>

\* Mutant: idx_ingest_dedupe is not unique.
InsertEventMutant(r) ==
    /\ pc[r] = "event"
    /\ Goto(r, "commit")
    /\ UNCHANGED <<db, nextID, files, msg, mid, idx, reply, faults>>

InsertEvent(r) ==
    /\ pc[r] = "event"
    /\ ~EventHeld(r)
    /\ ~EventTaken(r)
    /\ Goto(r, "commit")
    /\ UNCHANGED <<db, nextID, files, msg, mid, idx, reply, faults>>

\* Mutants: the loser clears the mail away before it gives up; the loser says
\* "accepted" because the mail is there after all.
EventConflictPurges(r) ==
    /\ pc[r] = "event"
    /\ ~EventHeld(r)
    /\ EventTaken(r)
    /\ Answer(r, "500")
    /\ events' = events \ {msg[r]}
    /\ UNCHANGED <<messages, recipients, attachments, nextID, files, msg, faults>>
EventConflictAccepts(r) ==
    /\ pc[r] = "event"
    /\ ~EventHeld(r)
    /\ EventTaken(r)
    /\ Answer(r, "accepted")
    /\ UNCHANGED <<db, nextID, files, msg, faults>>

\* Duplicate key on idx_ingest_dedupe: another request stored the mail since
\* IsDuplicate; the loser answers with an error, not with "duplicate".
EventConflict(r) ==
    /\ pc[r] = "event"
    /\ ~EventHeld(r)
    /\ EventTaken(r)
    /\ Answer(r, "500")
    /\ UNCHANGED <<db, nextID, files, msg, faults>>

\* InnoDB ends a wait for another transaction's lock, as a deadlock victim or
\* after innodb_lock_wait_timeout.
Blocked(r) ==
    \/ pc[r] = "row" /\ KeyHeld(r, NextKey(r))
    \/ pc[r] = "event" /\ EventHeld(r)

LockTimeout(r) ==
    /\ Blocked(r)
    /\ Answer(r, "500")
    /\ UNCHANGED <<db, nextID, files, msg, faults>>

Durable(r) ==
    /\ messages' = messages \cup {MessageRow(r)}
    /\ recipients' = recipients \cup RecipientRows(r)
    /\ attachments' = attachments \cup AttachmentRows(r)
    /\ events' = events \cup {msg[r]}

Commit(r) ==
    /\ pc[r] = "commit"
    /\ Durable(r)
    /\ Goto(r, "done")
    /\ UNCHANGED <<nextID, files, msg, mid, idx, reply, faults>>

Respond(r) ==
    /\ pc[r] = "done"
    /\ Answer(r, "accepted")
    /\ UNCHANGED <<db, nextID, files, msg, faults>>

-----------------------------------------------------------------------------
\* The connection breaks during COMMIT: the rows are there, the handler
\* reports that they are not.
CommitLost(r) ==
    /\ pc[r] = "commit"
    /\ Fault
    /\ Durable(r)
    /\ Answer(r, "500")
    /\ UNCHANGED <<nextID, files, msg>>

\* A file or SQL call returns an error, or the client hung up and cancelled
\* the context.  A failed attachment write leaves a partial file.
Fail(r) ==
    /\ pc[r] \notin {"idle", "done"}
    /\ Fault
    /\ Answer(r, "500")
    /\ blobs' = IF pc[r] = "attach" THEN blobs \ {<<mid[r], NextKey(r)>>} ELSE blobs
    /\ UNCHANGED <<db, nextID, raw, msg>>

\* The process dies: files stay as they are, MySQL rolls back what is open.
Crash ==
    /\ \E r \in Request : pc[r] # "idle"
    /\ Fault
    /\ pc' = [r \in Request |-> "idle"]
    /\ reply' = [r \in Request |-> IF pc[r] = "idle" THEN reply[r] ELSE "lost"]
    /\ mid' = [r \in Request |-> 0]
    /\ idx' = [r \in Request |-> 0]
    /\ UNCHANGED <<db, nextID, files, msg>>

Step(r) ==
    \/ IsDuplicate(r) \/ StatRaw(r) \/ OpenRaw(r) \/ WriteRaw(r)
    \/ Insert(r) \/ InsertTooLong(r)
    \/ SaveAttachment(r) \/ InsertAttachment(r) \/ AttachmentConflict(r)
    \/ InsertEvent(r) \/ EventConflict(r) \/ LockTimeout(r)
    \/ Commit(r) \/ Respond(r)

Next ==
    \/ Crash
    \/ \E r \in Request :
         \/ Step(r) \/ CommitLost(r) \/ Fail(r)
         \/ \E m \in Raw : \E status \in Admission(m) : ServeHTTP(r, m, status)

Spec == Init /\ [][Next]_vars

\* A goroutine that can run does; database and disk calls return in the end.
Fairness == \A r \in Request : WF_vars(Step(r))

FairSpec == Spec /\ Fairness

-----------------------------------------------------------------------------
\* Every variable ranges over what its Go type, column or file can hold.
TypeOK ==
    /\ messages \subseteq [id : Nat \ {0}, hash : Raw, status : {"success", "failed"}]
    /\ recipients \subseteq [message : Nat \ {0}, email : Address]
    /\ attachments \subseteq [message : Nat \ {0}, pos : Nat, key : Blob]
    /\ events \subseteq Raw
    /\ nextID \in Nat \ {0}
    /\ raw \in [Raw -> {"absent", "torn", "complete"}]
    /\ blobs \subseteq (Nat \ {0}) \X Blob
    /\ pc \in [Request -> PC]
    /\ msg \in [Request -> Raw]
    /\ mid \in [Request -> Nat]
    /\ idx \in [Request -> Nat]
    /\ reply \in [Request -> Answers]
    /\ faults \in Nat

Stored == {x.hash : x \in messages}

\* A mail has at most one row in messages, however many requests carry it and
\* although isDuplicate runs outside the transaction and messages.content_hash
\* has no unique index: idx_ingest_dedupe alone keeps the rows apart.
StoredOnce == \A x, y \in messages : x.hash = y.hash => x = y

\* An "accepted" or "duplicate" answer is the Worker's licence to drop the
\* mail: ServeHTTP gives it only when the message is committed.
AckImpliesStored ==
    \A r \in Request : reply[r] \in {"accepted", "duplicate"} => msg[r] \in Stored

\* A message is visible to the API with all of its recipients and attachments
\* or not at all, whatever failed in the middle of persist.
StoredWhole ==
    \A x \in messages :
        /\ {row.email : row \in {rr \in recipients : rr.message = x.id}} = SentTo(x.hash)
        /\ {<<row.pos, row.key>> : row \in {aa \in attachments : aa.message = x.id}}
             = {<<i, Keys(x.hash)[i]>> : i \in 1..Len(Keys(x.hash))}

\* GetAttachment finds a whole file behind every committed attachment row:
\* SaveAttachment is not part of the transaction, so a rollback leaves files
\* without rows, never rows without files.
AttachmentsRetrievable ==
    \A row \in attachments : <<row.message, row.key>> \in blobs

BeingWritten(m) == \E r \in Request : pc[r] = "write" /\ msg[r] = m

\* While no call failed and the server did not crash, the raw file of a stored
\* mail is whole, or a second request that raced past os.Stat is rewriting it.
RawWholeUnlessRewritten ==
    faults = 0 =>
        \A x \in messages : raw[x.hash] = "complete" \/ BeingWritten(x.hash)

\* No row, once committed, is changed or removed: ids, hashes and attachment
\* keys that an API client was given stay valid.
RowsAreFinal ==
    [][/\ messages \subseteq messages'
       /\ recipients \subseteq recipients'
       /\ attachments \subseteq attachments'
       /\ events \subseteq events']_vars

\* Requests that wait for each other's index locks do not wait for ever: each
\* admitted request is answered, or its connection dies with the server.
EveryRequestAnswered == \A r \in Request : pc[r] # "idle" ~> pc[r] = "idle"

\* The message view says of an unparsed mail: "Raw MIME content is available"
\* (app.js:606).  Here with an allowance for a file that is being rewritten.
RawAvailable ==
    \A x \in messages :
        x.status = "failed" => raw[x.hash] = "complete" \/ BeingWritten(x.hash)

\* The schema tracks duplicates by message id and content hash
\* (001_create_mailbox_tables.up.sql:52): a unique-index conflict is met only
\* by a mail that is already stored.
ConflictMeansDuplicate ==
    [][\A r \in Request : AttachmentConflict(r) => msg[r] \in events]_vars

-----------------------------------------------------------------------------
\* A request is past its commit when it only has its answer left to send.
StageOf(c) == IF c = "idle" THEN "idle" ELSE IF c = "done" THEN "won" ELSE "pending"
Stage == [r \in Request |-> StageOf(pc[r])]

Contract == INSTANCE IngestContract WITH stored <- Stored, job <- msg, stage <- Stage

\* The handler, with its tables, files and locks, keeps the promise that
\* IngestContract makes to the Worker.
ContractSpec == Contract!Spec

Tables == INSTANCE Archive WITH
    ids    <- {x.id : x \in messages},
    Parsed <- {[emails |-> SentTo(m), files |-> Keys(m)] : m \in Raw}

\* Whatever fails or runs at the same time, the tables change by whole mails
\* under new ids only: the readers of the mailbox need to know no more of
\* persist, its transaction and its unique indexes.
ArchiveSpec == Tables!Spec
=============================================================================
