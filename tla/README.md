# Lite Mail in TLA+

Lite Mail receives e-mail through a Cloudflare Worker and stores it in a Go
server (MySQL and files), which also serves a small web mailbox. This directory
models the parts of it in which something can go wrong between two steps,
model-checks them with TLC and proves the central claims with TLAPS.

## The system

| Part | State | Operations | Hard parts | What makes it correct |
|---|---|---|---|---|
| Go ingest endpoint (`internal/ingest`) | tables `messages`, `message_recipients`, `attachments`, `ingest_events` | `POST /api/ingest` | concurrent requests, transaction against files, crashes, index locks | a mail is stored at most once, whole, and acknowledged only when stored |
| File store (`internal/storage`) | `raw/<hash>`, `attachments/<id>/<key>` | save, read | check-then-write, partial writes | every row finds its file |
| Worker durable path (`worker/src/index.ts`, `deliverToGo`) | none that persists | POST, timer, one retry, bounce | late and lost answers, retries of what was done | no mail is lost silently, every attempt ends |
| Worker preview and Telegram path (`deliverPreviewAndTelegram`) | KV: previews, `tg-sent:` markers | save, look up, send, mark | eventually consistent KV, expiry, evictions, lost answers | a mail is announced, and not again while its preview lives |
| Worker `email()` | none | starts and joins both paths | two paths, one outcome, retransmissions | a bounce if and only if ingest failed |
| Rate limiter (`internal/middleware/ratelimit.go`) | one token bucket per address | `Allow`, `cleanup` | time read before the lock, entries deleted while held | an address stays within its rate |
| Migrations (`internal/db`) | the schema, `schema_migrations` | `RunMigrations`, `RollbackMigration` | implicit commits, several servers, kills | who serves has the schema; versions and schema agree |
| Sessions and login (`internal/auth`) | session map, in memory | login, logout, `RequireAuth` | map and clock read in two steps, logout against a running request, expiry, restarts | a session is served until it ends, and not after |
| Mailbox API (`internal/api`) | none of its own | list, get, raw, attachment | several queries per answer against concurrent ingest, paging by offset | a user sees his own mails, whole, and all of them |
| Single-page application (`internal/server/static/js`) | view, page, query, request token | navigation, search, logout | responses out of order, debounce timer | the view shown is the one last asked for |
| Configuration, routing, headers, logging | none after start | | | |
| Worker parsing and rendering | none | pure functions | | |

The Worker calls the Go server over HTTP and knows of it only the status codes.
The paths of one `email()` invocation share nothing but the KV namespace with
other invocations. Within the Go server, requests meet in MySQL (row and index
locks), in the file system and in the rate limiter; migrations run before the
server accepts requests. The mailbox API reads the tables that the ingest
endpoint writes, behind `RequireAuth`; requests of the API meet only in the
session map.

## Modules

| Module | Models | Variables to code |
|---|---|---|
| `IngestContract` | what the endpoint promises: a request is submitted, refused, stored, answered, or lost with the server | `stored`: mails with a committed row; `stage`, `job`, `reply`: a request as a client can see it |
| `Ingest` | handler, file store and schema | one program counter per request; between two of its values lies one SQL statement or file call. The rows of an open transaction are derived from `pc`, `mid` and `idx`; `Commit` moves them into the tables |
| `IngestClient` | `deliverToGo`, `postToIngestWithStatus`, `attemptIngest` over `IngestContract` | `ipc`: where the invocation is, `slot`: the request it waits for |
| `Notify` | `deliverPreviewAndTelegram`, `sendTelegramForCache`, `Dao`, the Telegram client, the preview route | `preview`, `marker`: expiry of KV entries; `told`: what Telegram showed |
| `Email` | `email()`: instances of `IngestClient` and `Notify` joined by `Promise.all`, with a sender that transmits a bounced mail again | `outcome` |
| `Delivery` | the Worker of `Email` with the endpoint of `Ingest` at the other end of its POSTs | those of the two; the Worker sees of the endpoint its stored mails, stages and replies |
| `Archive` | the mailbox tables as their readers know them: a mail appears with all its rows under a new id, and stays | `ids`, `recipients`, `attachments`: the committed rows |
| `RateLimit` | `Allow` and `cleanup` | `entries`, `tokens`, `lastUpdate`, `now`, `held`; `admitted`, `strays` and `lag` are history variables |
| `Migrations` | `RunMigrations`, `RollbackMigration`, the start of `main` | `tables`, `fulltext`, `applied`; per process the version and the statement it is at |
| `Browser` | `app.js` and `api.js`: navigation, search, paging, logout | `view`; the fields of `state` under their names; `requests`: fetches under way, each with the answer the server has given so far; `epoch` is a history variable |
| `Mailbox` | `CookieSessionStore`, login, logout and `RequireAuth`; `ListMessages`, `GetMessage`, `GetRawMIME`, `GetAttachment` | `received`, `recipients`, `attachments`: the committed rows; `sessions`; per request `pc`, the URL, the cookie, `ctx` (the session in its context), `body` and `status`. Between two values of `pc` lies one access to the session map, one query or one file read. `login`, `until`, `late` and `walk` are history variables |
| `IngestProofs`, `IngestClientProofs`, `NotifyProofs`, `EmailProofs`, `RateLimitProofs`, `MigrationsProofs`, `BrowserProofs`, `MailboxProofs` | theorems and proofs | |
| `MC*` | the instances for TLC | |

`Ingest` implements `IngestContract`, and `IngestClient` is built on
`IngestContract` alone: what is shown of the Worker holds for any server that
keeps the contract, and the Go server does. `Delivery` puts the two together and
implements both. `Mailbox` stores a mail in one step, with all its rows and for
good; that `Ingest` does so is not taken for granted: both implement `Archive`.

In `Mailbox`, the order of rows with the same `received_at` (a `DATETIME`, in
seconds) is left open, as `ORDER BY received_at DESC` leaves it, and the product
of page and page size wraps around at the end of `int`. A row may be older than
one that was committed before it, since the time is taken before the commit.
Addresses are lower-cased and trimmed at the login and by the MIME parser, and
compared as the column's collation does, without accents (`Weight`).

A mail is identified with its bytes and thus with its hash; collisions of
SHA-256 are not considered. MIME parsing is abstracted to what the handler uses
of it: the attachments in order, the recipients, or a refusal. The definitions
whose name ends in `Mutant` (and `EventConflictPurges`, `EventConflictAccepts`,
`ServerErrorAgain`, `ServerErrorSwallowed`, `RecordEarly`, `RecordForgotten`,
`ListArrivesAnyway`, `ListArrivesSilently`)
are faulty variants of their neighbours; each property is known to fail when
one of them is put in.

## Runs

Passing runs:

| Run | Instance and bounds | Shows |
|---|---|---|
| `ingest` | 2 requests, 5 mails (two with the same attachments in opposite orders, one malformed, one with an overlong header, one oversize), 2 message ids, 1 fault, fairness | `StoredOnce`, `AckImpliesStored`, `StoredWhole`, `AttachmentsRetrievable`, `RawWholeUnlessRewritten`, `RowsAreFinal`, `ContractSpec`; `EveryRequestAnswered`: lock waits end |
| `client` | 2 invocations, 2 requests | `NoSilentLoss`, `OwnAnswer`, `IngestSettles` |
| `notify` | 2 invocations, 3 mails (two share a Message-ID, one has none), 2 chats, TTL 2, 2 calls that go wrong | `MarkerMeansTold`, `AnnouncedPreviewExists`, `NoRepeatWhilePreviewLives` |
| `email` | one mail that may come in twice, one open request at a time, fairness | `DeliveredIsStored`, `RetryTellsNobodyTwice`, `IngestIndependent`, and `EveryInvocationEnds` for a Telegram that answers |
| `browser` | 3 requests in the life of a page, 2 messages (one missing), 2 pages of mails and 1 page of search results, fairness | `SignOutForgets`, `ListMatchesQuery`, `LatestListWins`, `LoadingEnds`, `LogoutSettles` |
| `mailbox` | 1 client, 2 tokens, 3 mails (one unparsable), 10 URLs on the four routes, administrator and user, TTL 1 and 3 instants, pages of 1 to 4 rows, `int` up to 7 | `RefusedExactlyWhenEnded`: a request is turned away exactly when its session had ended; `OnlyOwnMail`; `AnswerIsWhole`; `ShortPageIsLast`: count and page agree; `NothingSkipped`: turning pages misses no mail |
| `ratelimit` | 2 goroutines, limit 2, window 3 ticks, 6 ticks | `RateBound` |
| `migrate` | 2 servers and a roll-back process on an empty database, 1 kill, 2 roll-backs, fairness | `MailboxReady`, `VersionsInOrder`, `SchemaFollowsVersion` (while no two processes have overlapped), `ConcurrentStartupCompletes` (without kills and roll-backs) |

Two actors are enough for every race listed in `PROJECT.json`: each of them is
between one actor's check and its act and one other actor. One fault is enough
to separate any two steps; two ids let a mail be tried again after a failure,
or two mails be stored beside each other. In `ratelimit`, two windows are needed for the
cleanup to drop an entry. In `browser`, three requests are needed for the page
of an old result to meet a new query; two are enough for one answer to overtake
another. In `mailbox`, two tokens let a session of one client end while another
one begins; requests of two clients meet only in the session map, which login,
logout and restart change at any step anyway, and the theorems hold for any
number. Three mails are needed for one to arrive between two pages. The small
`int` makes one URL's offset negative and another's wrap around to a page that
exists. Every safety property is proved without these bounds.

`MCDelivery` (`tlc -config MCDelivery.cfg MCDelivery`) is an instance of
`Delivery` besides these runs: one mail with two attachments that may come in
twice, two requests, one fault and one eviction, without Telegram. TLC finds
`DeliveredWhole`, `WorkerSpec` and `HandlerSpec` to hold in its 290658 states;
all three are theorems.

Runs that show the code disagreeing with what the repository says:

| Run | What the code does |
|---|---|
| `raw_available` | a raw file cut short by a failure is taken for the mail by the retry; the message is stored and its raw content is gone |
| `conflict_duplicate` | a new mail with an attachment known from another mail is refused with 500 for ever, because the attachment's key is its content hash under a unique index |
| `email_bounce` | while Telegram hangs, a failed ingest is not bounced |
| `migrate_killed` | a server killed between `ALTER TABLE` and the record of migration 001 leaves a database on which no server starts |

More behaviours are listed as hazards and have no run of their own:

- of two requests with the same new mail, the later one truncates and rewrites
  the raw file that the earlier one completed, although `storage.go:31` says
  "Existing files are left untouched." (`RawWholeUnlessRewritten` makes an
  allowance for it);
- a marker that is missed, not written or expired lets a retransmission
  announce a mail again;
- a slow server may re-create the tables of migration 002 after a fast one has
  dropped them with 003;
- in the page, an answer to `showMessageView` carries no token and replaces
  whatever is shown by then;
- mails of the same second have no order, so that two pages may both leave one
  out; a page number that overflows is answered with 500 or with the rows of
  another page;
- a mail that cannot be parsed is stored without recipients and seen by the
  administrator only;
- an expired session stays in the map until its cookie is presented.

## Fairness

- `Ingest!Fairness`: a runnable goroutine runs, and database and disk calls
  return in the end; MySQL ends every lock wait (deadlock detection,
  `innodb_lock_wait_timeout`). New requests are not fair.
- `IngestClient!Fairness`: JavaScript runs what is ready and timers fire. The
  Go server may hang: no fairness for it.
- `Email!WorkerFairness`: the same for both paths; KV calls return. Telegram is
  fair only as the hypothesis `TelegramFairness` of `EveryInvocationEnds`, since
  its client has no timeout.
- `Browser!Fairness`: every fetch comes back, with an answer or an error.
- `Migrations!FairSpec`: statements return, and a server that has failed is
  started again (`Restart=on-failure` in `contrib/systemd`).

`RateLimit` and `Mailbox` state no fairness: the handlers of the mailbox API are
straight-line code, and that each of its queries returns is all there would be
to assume and to show.

Symmetry is used in runs without liveness only.

## Theorems

All are proved for every value of the constants, from the assumptions that the
modules state about them (types of the constants, positive window and limit; in
`Browser`, that a mail is not called like one of the page's other views).

`IngestProofs`: `TypeCorrect`, `MailStoredOnce`, `AcknowledgedIsStored`,
`MailStoredWhole`, `AttachmentFilesExist`, `CommittedRowsAreFinal`,
`RawIsWhole` (`RawWholeUnlessRewritten`) and `Refinement`
(`Spec => ContractSpec`). None of the invariants is inductive. The
invariant `IInv` adds:

- the hashes in `ingest_events` are those of the stored mails, and a request at
  `commit` is alone with its hash: that is the lock on `idx_ingest_dedupe`, and
  the only reason for `StoredOnce`;
- a request that has passed its commit, or answered with success, carries a
  stored mail;
- ids of open transactions are fresh and differ from each other and from those
  of committed rows, so that a commit does not touch another message's rows;
- the loop index stays within the mail's attachments, and is at their number
  when the event is inserted; the file of each row exists before the row.

The refinement proof maps a request's program counter to the stage a client can
tell and shows that each step is a step of the contract or a stutter.
`RawIsWhole` has an invariant of its own, `RawInv`: a request has created the
raw file before its transaction begins, and without faults a file that is not
whole has a request at `write`.

`IngestClientProofs`: `TypeCorrect`, `UnbouncedIsStored` (`NoSilentLoss`) and
`AnswersAreNotMixedUp` (`OwnAnswer`). The invariant ties the request an
invocation waits for to its mail, and the positive answer of any request to a
stored mail.

`NotifyProofs`: `TypeCorrect`, `MarkersAreEarned` (`MarkerMeansTold`),
`PreviewsComeFirst` (`AnnouncedPreviewExists`) and `AnnouncedOnce`
(`NoRepeatWhilePreviewLives`). The invariant is the order in which one invocation
writes: `Honest` (a success that is counted was a message shown, and only then
is there a marker), `Fresh` (no entry of KV outlives one written now, so that a
marker never moves back) and, while nothing has gone wrong, `Clean` (preview
before announcement, every announcement counted, the marker of a finished one
as long as its preview).

Beyond the properties of the runs, `IngestProofs` shows:

- `IngestIsArchive` (`Spec => ArchiveSpec`): what the tables show from outside the
  transactions is `Archive`. A commit adds the rows of one mail, all of them
  (`CommitAdds`), and nothing else touches them.
- `DeliveryIsIngest` and `DeliveryIsEmail`: the composition implements both its
  parts, the endpoint under the Worker's requests and the Worker over the
  contract. The second rests on `Refinement`: where the Worker posts, the
  endpoint's admission is the contract's `Submit` or `Refuse`; everywhere else
  one side moves alone.
- `DeliveredMailIsWhole`: from both invariants together, a mail that is not
  bounced is in the tables once and whole, with its files. Neither side alone
  can state this: `Email` knows no tables and `Ingest` no bounce.
- `RequestsWindDown`: `Left` counts the steps a request can still take, at most
  8 and 2 per attachment. Each step of the request lowers it, and no step of
  anybody else, no fault and no crash raises it before the answer.

`EmailProofs`: `DeliveredMailIsStored` (`DeliveredIsStored`) and
`RetriesAreSilent` (`RetryTellsNobodyTwice`). The inductive invariants of
`IngestClientProofs` and `NotifyProofs` are instantiated: each step of `email()`
is a step or a stutter of either part, but for an eviction, which keeps the
invariants all the same. To them come `Solo`
(no two invocations with the same mail run together, since the sender waits for
the bounce), `Inside` (the Telegram path runs within its invocation, which is
`Promise.all`) and `Apart`: an invocation passes the lookup only when the
previews of those that told before it have expired, because their markers have.
From the same invariant, `PartsKeepTheirPromises`: `OwnAnswer`, `NoSilentLoss`,
`MarkerMeansTold` and `AnnouncedPreviewExists` survive the composition.
`InvocationsWindDown` counts the steps of an invocation, of both paths together:
at most 12 and one per chat, lowered by each step of its own and raised by none.
There is one retry and one pass over the chats, whatever is answered.

`MigrationsProofs`: `TypeCorrect`, `NoVersionSkipped` (`VersionsInOrder`),
`ServingIsReady` (`MailboxReady`) and `VersionIsSchema`
(`SchemaFollowsVersion`), for any number of servers, operators, kills and
rollbacks. For the first three, `Forward`: while nobody has rolled back, a
server has its predecessors recorded (by itself or by another), what it has of
001 behind it is in the schema, and no Up statement takes that away
(`UpKeeps`). For the last, `Sequential`: with one process at a time and no
kill, the schema before each statement of each migration is the one listed in
`BeforeUp` and `BeforeDown`, so that MySQL accepts every statement.
`StartLosesNothing` (`MailboxIsKept`) needs no such restriction: in whatever order
servers start, repeat each other's statements and are killed, only the `Down`
statement of 001 takes a table or the index of the mailbox away, and only a
rollback deletes a version.

`RateLimitProofs`: `TypeCorrect`, `RateIsBoundedSince` and, as its case from the
start on, `RateIsBounded` (`RateBound`). A bound that counts from the start only
would let an address save up an idle hour and spend it at once; `Since` holds
from any moment to any later one. The invariant `Covered` adds the tokens that
are left to the admissions made since, and measures time by the entry's
`lastUpdate`. Without an entry the address must be entitled to a full bucket,
because the next request gets one; an entry that has not been used since the
moment may hold any number of tokens, but nobody has passed.

`BrowserProofs`: `TypeCorrect`, `ListsForgotten` (`SignOutForgets`),
`ListIsTheSearched` (`ListMatchesQuery`) and `OvertakenAnswersDropped`
(`LatestListWins`). The invariant says that no two requests bear the same token,
that none bears the token of the list that is kept, and that the fall back to
the login uses up a token that no request has. `NothingAwaitedInVain` (`Awaited`)
adds that a page that shows it is loading, or waits for a logout, has a request
under way that will end this: a list with the current token, a message, a
logout.

`MailboxProofs`: `MailboxIsArchive` (a delivery is exactly an `Add` of `Archive`),
`TypeCorrect`, `SessionsHold` (`RefusedExactlyWhenEnded`),
`MailIsOwn` (`OnlyOwnMail`), `MailIsWhole` (`AnswerIsWhole`), `TotalIsKept`
(`ShortPageIsLast`) and `WalkIsComplete` (`NothingSkipped`), for any number of
clients, tokens, mails and URLs, any page size and any `int` that can count the
mails. The invariant `Inv` has a part per concern:

- `TablesMatch`: the tables hold the rows of the committed mails and no others;
- `SessionsMatch`: an entry of the session map carries what its credentials
  entitle to and ends when the history says, and what is not in the map is over;
- `AdmittedAt`: the copy that a request has taken never ends before the session
  itself, and one that came too late meets an expiry that has passed;
- `BodyAt`: what a handler has put together at each of its queries;
- `WalkAt`: every mail that was there and has not been seen yet has as many
  newer ones before it as rows have been turned. `PrefixByRank` and
  `PagePassesNothing` say what `LIMIT` and `OFFSET` make of this number; mails
  that arrive only increase it. If the offset has wrapped around, the number
  would exceed the mails there can be.

`Grows` and `Same` separate the requests: whatever step is taken, the parts
about the requests that it does not move are kept, because rows, credentials
and time only grow (`AdmittedKept`, `BodyKept`, `WalkKept`).

Every invariant and every safety property that a run checks is proved. Only
model-checked are the liveness properties, since the prover handles neither
fairness nor `ENABLED`. The part of them that is not about fairness is proved:

| Liveness property, checked by TLC | What is proved of it | What is left to TLC |
|---|---|---|
| `EveryRequestAnswered` | `RequestsWindDown` | some step of an open request is enabled |
| `IngestSettles`, `IngestIndependent`, `EveryInvocationEnds` | `InvocationsWindDown` | some step of a running invocation is enabled, of the durable path without Telegram |
| `LoadingEnds`, `LogoutSettles` | `NothingAwaitedInVain` | the request that is awaited comes back |
| `ConcurrentStartupCompletes` | `StartLosesNothing`, `NoVersionSkipped`: restarts do not undo each other | a server is restarted only finitely often |

## Not modelled

- Power loss: files are written without `fsync`; a crash here is the death of
  the process, after which the page cache survives.
- The contents of a mail beyond what the handler uses, and the texts of
  previews and announcements: pure functions without state.
- A proxy between the Worker and Go that answers with a success of its own.
- Configuration, security headers, CORS, request ids, logging: no state after
  start.
- `RequireAdmin`, `CanAccessEmail` and `internal/api/errors.go`: nothing calls
  them. File names and content types of downloads: pure functions.
- Finding and splitting the embedded migration files: pure functions.
- The cookie jar of a browser: `Mailbox` lets any client present any cookie that
  a login has set, at any time.
- The address of the page in `Browser`: the user may change its hash at any
  time. A page that is loaded afresh begins in `Init`, so a login and a reload
  are not steps.

## Plan

Every part of the system that keeps state is modelled. What could be proved in
addition is a bound on the restarts of servers that start together. What could
be added is `Browser` over `Mailbox` in place of a server that answers anything, with the
cookie jar: a late 401 that clears the cookie of a newer login.
