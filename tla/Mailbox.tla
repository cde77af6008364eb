------------------------------ MODULE Mailbox ------------------------------
(***************************************************************************)
(* The mailbox API of the Go server: the sessions of internal/auth and the *)
(* four GET routes of internal/api behind RequireAuth, while mails arrive, *)
(* users log in and out, sessions expire and the server restarts.          *)
(*                                                                         *)
(* A request goroutine is a program counter; between two of its values     *)
(* lies one access to the session map, one SQL query or one file read.     *)
(* No handler opens a transaction: each query sees what is committed when  *)
(* it runs.  The rows come from persist, which commits those of a message  *)
(* together and never changes them (Ingest!StoredWhole, RowsAreFinal).     *)
(*                                                                         *)
(* login, until, late and walk are history: who was given a token and for  *)
(* how long, whether this was over when the request came, and the pages    *)
(* that a reader has turned one after the other from the first.            *)
(***************************************************************************)
EXTENDS Integers, Sequences, FiniteSets

CONSTANTS
    Request,         \* clients, each with one request at a time
    Token,           \* what GenerateToken can return
    Spelling,        \* e-mail addresses as people write them
    Canonical,       \* the address in lower case without blanks; "" if blank
    Weight,          \* what utf8mb4_unicode_ci compares of an address: no accents
    Message,         \* the mails that will come, by messages.id
    Header,          \* the addresses in To, Cc and Bcc that can be read
    Files,           \* its attachments, in order
    Malformed,       \* mails that ParseMIME refuses
    Query,           \* values of the parameter q
    Usable,          \* those with a letter or a digit
    Matching,        \* the mails that MATCH ... AGAINST finds for a query
    Job,             \* the URLs that are asked for
    PSK,             \* the configured keys: "admin", "normal"
    Credential,      \* what is typed at the login: a key and an address
    TTL,             \* SESSION_TTL_HOURS
    DefaultPerPage,  \* 50
    MaxPerPage,      \* 100
    IntMax,          \* the largest int
    MaxTime          \* bound: the clock

Address == {Canonical[a] : a \in Spelling}
Key     == UNION {{Files[m][i] : i \in DOMAIN Files[m]} : m \in Message}
Route   == {"list", "message", "raw", "attachment"}

\* A path or query parameter that is no number in canonical form is 0, or -1
\* for idx; each route looks at its own parameters only.
URL == [route : Route, id : Int, idx : Int, page : Int, size : Int, q : Query]

ASSUME MailAssumption ==
    /\ Message \subseteq Nat \ {0} /\ IsFiniteSet(Message)
    /\ Canonical \in [Spelling -> Address]
    /\ DOMAIN Weight = Address
    /\ Header \in [Message -> SUBSET Spelling]
    /\ Files \in [Message -> Seq(Key)]
    /\ Malformed \subseteq Message
    /\ Usable \subseteq Query
    /\ Matching \in [Query -> SUBSET Message]
    /\ Job # {} /\ Job \subseteq URL
    /\ PSK \subseteq {"admin", "normal"}
    /\ Credential \subseteq [psk : {"admin", "normal", "other"}, name : Spelling]
    /\ Spelling # {}
    /\ "" \notin Token

ASSUME NumberAssumption ==
    /\ TTL \in Nat /\ MaxTime \in Nat
    /\ DefaultPerPage \in Nat \ {0} /\ MaxPerPage \in Nat \ {0}
    /\ IntMax \in Nat /\ Cardinality(Message) <= IntMax
    /\ \A j \in Job : j.page <= IntMax /\ j.size <= IntMax

VARIABLES
    received,     \* table messages: received_at of each committed id
    recipients,   \* table message_recipients
    attachments,  \* table attachments; pos is the rank of its id in the message
    sessions,     \* CookieSessionStore.sessions
    now,          \* time.Now(), in the seconds of a DATETIME column
    pc,           \* where each request is
    job,          \* the URL it asks for
    token,        \* its cookie
    ctx,          \* the session that RequireAuth put into its context
    body,         \* what the handler has put together so far
    status,       \* its answer; "lost" if the server died first
    login,        \* history: the credentials each token was given for
    until,        \* history: when its session ends; -1 once it has been ended
    late,         \* history: the session had ended before the request came
    walk          \* history: pages read in a row from the first

tables  == <<received, recipients, attachments>>
request == <<job, token, late>>
history == <<login, until>>
vars == <<received, recipients, attachments, sessions, now, pc, job, token, ctx,
          body, status, login, until, late, walk>>

NoCookie == ""
Nobody  == [psk |-> "none", name |-> CHOOSE a \in Spelling : TRUE]
Guest   == [email |-> "", admin |-> FALSE, expires |-> 0]
Blank   == [total |-> 0, rows |-> {}, emails |-> {}, files |-> {}]
NoWalk  == [page |-> 0, size |-> 1, login |-> Nobody, q |-> CHOOSE q \in Query : TRUE,
            start |-> {}, seen |-> {}]
Session == [email : Address \cup {"", "admin"}, admin : BOOLEAN, expires : Nat]
Body    == [total : Nat, rows : SUBSET Message, emails : SUBSET Address,
            files : SUBSET ((Nat \ {0}) \X Key)]
Walk    == [page : Nat, size : Nat \ {0}, login : Credential \cup {Nobody}, q : Query,
            start : SUBSET Message, seen : SUBSET Message]
Handler == {"serve", "page", "recipients", "attachments", "read"}
PC      == Handler \cup {"idle", "lookup", "expiry"}
Status  == {"none", "lost", "401", "404", "500", "200"}

-----------------------------------------------------------------------------
\* What persist stores of a mail.  fallbackParsedMessageWithError, used when
\* ParseMIME fails, yields neither recipients nor attachments.
Recipients(m)  == IF m \in Malformed THEN {} ELSE {Canonical[a] : a \in Header[m]} \ {""}
Attachments(m) == IF m \in Malformed THEN <<>> ELSE Files[m]

RecipientRows(m)  == {[message |-> m, email |-> e] : e \in Recipients(m)}
AttachmentRows(m) ==
    {[message |-> m, pos |-> i, key |-> Attachments(m)[i]] : i \in DOMAIN Attachments(m)}

\* Without a letter or a digit the search is dropped.
Search(q) == IF q \in Usable THEN Matching[q] ELSE Message

\* Mutant: the clause is left out.
MayReadMutant(s, m) == TRUE

\* The EXISTS clause of every query, which an admin's queries do not have.
MayRead(s, m) ==
    \/ s.admin
    \/ \E row \in recipients : row.message = m /\ Weight[row.email] = Weight[s.email]
Visible(s, q) == {m \in DOMAIN received \cap Search(q) : MayRead(s, m)}

PageNo(j)  == IF j.page > 0 THEN j.page ELSE 1
PerPage(j) ==
    LET size == IF j.size > 0 THEN j.size ELSE DefaultPerPage
    IN  IF size > MaxPerPage THEN MaxPerPage ELSE size

\* The product of two ints, which wraps around when it does not fit.
Wrap(n) == IF n <= IntMax THEN n ELSE ((n + IntMax + 1) % (2 * (IntMax + 1))) - (IntMax + 1)

Offset(j) == Wrap((PageNo(j) - 1) * PerPage(j))

\* Mutant: the rows are not sorted.
NewestMutant(V, n) ==
    {P \in SUBSET V : Cardinality(P) = IF n < Cardinality(V) THEN n ELSE Cardinality(V)}

\* ORDER BY received_at DESC leaves the order within a second to the server:
\* the first n rows are any set that no later row should precede.
Newest(V, n) ==
    {P \in SUBSET V : /\ Cardinality(P) = IF n < Cardinality(V) THEN n ELSE Cardinality(V)
                      /\ \A x \in P, y \in V \ P : received[y] <= received[x]}
Pages(V, offset, limit) ==
    UNION {{Q \ P : P \in Newest(V, offset) \cap SUBSET Q} : Q \in Newest(V, offset + limit)}

AttachmentAt(j) == {row \in attachments : row.message = j.id /\ row.pos = j.idx + 1}

-----------------------------------------------------------------------------
\* The session map is made anew by server.New; the tables are those of a new
\* mailbox.
Init ==
    /\ received = [m \in {} |-> 0] /\ recipients = {} /\ attachments = {}
    /\ sessions = [t \in {} |-> Guest]
    /\ now = 0
    /\ pc = [r \in Request |-> "idle"]
    /\ job = [r \in Request |-> CHOOSE j \in Job : TRUE]
    /\ token = [r \in Request |-> NoCookie]
    /\ ctx = [r \in Request |-> Guest]
    /\ body = [r \in Request |-> Blank]
    /\ status = [r \in Request |-> "none"]
    /\ login = [t \in Token |-> Nobody]
    /\ until = [t \in Token |-> -1]
    /\ late = [r \in Request |-> FALSE]
    /\ walk = [r \in Request |-> NoWalk]

Goto(r, there) == pc' = [pc EXCEPT ![r] = there]

\* The handler returns and its context is gone.
Answer(r, code) ==
    /\ Goto(r, "idle")
    /\ status' = [status EXCEPT ![r] = code]
    /\ ctx' = [ctx EXCEPT ![r] = Guest]
Continue(r, there) == Goto(r, there) /\ UNCHANGED <<status, ctx>>

Tick == now < MaxTime /\ now' = now + 1
        /\ UNCHANGED <<tables, sessions, pc, request, ctx, body, status, history, walk>>

\* Mutant: persist runs without a transaction, the attachments come later.
DeliverMutant(m, at) ==
    /\ \/ /\ m \notin DOMAIN received /\ at \in 0..now
          /\ received' = [x \in DOMAIN received \cup {m} |-> IF x = m THEN at ELSE received[x]]
          /\ recipients' = recipients \cup RecipientRows(m)
          /\ UNCHANGED attachments
       \/ /\ m \in DOMAIN received
          /\ attachments' = attachments \cup AttachmentRows(m)
          /\ UNCHANGED <<received, recipients>>
    /\ UNCHANGED <<sessions, now, pc, request, ctx, body, status, history, walk>>

\* persist commits; the INSERT took received_at some time before.
Deliver(m, at) ==
    /\ m \notin DOMAIN received /\ at \in 0..now
    /\ received' = [x \in DOMAIN received \cup {m} |-> IF x = m THEN at ELSE received[x]]
    /\ recipients' = recipients \cup RecipientRows(m)
    /\ attachments' = attachments \cup AttachmentRows(m)
    /\ UNCHANGED <<sessions, now, pc, request, ctx, body, status, history, walk>>

-----------------------------------------------------------------------------
\* The credentials that LoginHandler turns into a session; it answers the
\* others with 401.
Accepted(c) == c.psk \in PSK /\ (c.psk = "normal" => Canonical[c.name] # "")

\* Mutant: the address is taken as it was typed.
SessionOfMutant(c) ==
    [email |-> IF c.psk = "admin" THEN "admin" ELSE c.name,
     admin |-> c.psk = "admin", expires |-> now + TTL]

SessionOf(c) ==
    [email |-> IF c.psk = "admin" THEN "admin" ELSE Canonical[c.name],
     admin |-> c.psk = "admin", expires |-> now + TTL]

Create(t, s) ==
    sessions' = [x \in DOMAIN sessions \cup {t} |-> IF x = t THEN s ELSE sessions[x]]
Delete(t) == sessions' = [x \in DOMAIN sessions \ {t} |-> sessions[x]]

\* LoginHandler; 32 random bytes do not come twice.
Login(t, c) ==
    /\ login[t] = Nobody
    /\ Accepted(c)
    /\ Create(t, SessionOf(c))
    /\ login' = [login EXCEPT ![t] = c]
    /\ until' = [until EXCEPT ![t] = now + TTL]
    /\ UNCHANGED <<tables, now, pc, request, ctx, body, status, walk>>

\* Mutant: the cookie is cleared and the session is kept.
LogoutMutant(t) ==
    /\ login[t] # Nobody
    /\ until' = [until EXCEPT ![t] = -1]
    /\ UNCHANGED <<tables, sessions, now, pc, request, ctx, body, status, login, walk>>

\* LogoutHandler, for whoever presents the cookie.
Logout(t) ==
    /\ login[t] # Nobody
    /\ Delete(t)
    /\ until' = [until EXCEPT ![t] = -1]
    /\ UNCHANGED <<tables, now, pc, request, ctx, body, status, login, walk>>

\* The process ends and a new one starts: sessions are kept in memory only.
Restart ==
    /\ sessions' = [t \in {} |-> Guest]
    /\ until' = [t \in Token |-> -1]
    /\ pc' = [r \in Request |-> "idle"]
    /\ status' = [r \in Request |-> IF pc[r] = "idle" THEN status[r] ELSE "lost"]
    /\ ctx' = [r \in Request |-> Guest]
    /\ UNCHANGED <<tables, now, request, body, login, walk>>

Ended(t) == t = NoCookie \/ now > until[t]

-----------------------------------------------------------------------------
\* The request turns to the page after the last one of r's walk.
TurnsPage(r, t, j) ==
    LET w == walk[r]
    IN  /\ w # NoWalk /\ t # NoCookie /\ j.route = "list"
        /\ <<PageNo(j), PerPage(j), j.q, login[t]>> = <<w.page + 1, w.size, w.q, w.login>>

\* A request comes, without a cookie or with one that a login has set.
Arrive(r, t, j) ==
    /\ pc[r] = "idle"
    /\ t # NoCookie => login[t] # Nobody
    /\ Goto(r, "lookup")
    /\ job' = [job EXCEPT ![r] = j]
    /\ token' = [token EXCEPT ![r] = t]
    /\ late' = [late EXCEPT ![r] = Ended(t)]
    /\ body' = [body EXCEPT ![r] = Blank]
    /\ status' = [status EXCEPT ![r] = "none"]
    /\ walk' = [walk EXCEPT ![r] = IF TurnsPage(r, t, j) THEN @ ELSE NoWalk]
    /\ UNCHANGED <<tables, sessions, now, ctx, history>>

\* RequireAuth copies the session under the read lock ...
Lookup(r) ==
    /\ pc[r] = "lookup"
    /\ \/ /\ token[r] \in DOMAIN sessions
          /\ ctx' = [ctx EXCEPT ![r] = sessions[token[r]]]
          /\ Goto(r, "expiry")
          /\ UNCHANGED status
       \/ /\ token[r] \notin DOMAIN sessions
          /\ Answer(r, "401")
    /\ UNCHANGED <<tables, sessions, now, request, body, history, walk>>

\* ... and looks at the copy's expiry after it has released the lock.
CheckExpiry(r) ==
    /\ pc[r] = "expiry"
    /\ \/ /\ now > ctx[r].expires
          /\ Delete(token[r])
          /\ Answer(r, "401")
       \/ /\ now <= ctx[r].expires
          /\ Continue(r, "serve")
          /\ UNCHANGED sessions
    /\ UNCHANGED <<tables, now, request, body, history, walk>>

\* What a step of a handler leaves alone.
Elsewhere == UNCHANGED <<tables, sessions, now, request, history>>

\* numericURLParam for {id}, numericURLParamAllowZero for {idx}.
NumericID(j)  == j.route # "list" => j.id > 0
NumericIdx(j) == j.route = "attachment" => j.idx >= 0
WellFormed(j) == NumericID(j) /\ NumericIdx(j)

\* The message is not there for this reader, or has no such attachment.
Absent(r) ==
    LET j == job[r]
    IN  \/ j.id \notin DOMAIN received
        \/ ~MayRead(ctx[r], j.id)
        \/ j.route = "attachment" /\ AttachmentAt(j) = {}

NotFound(r) ==
    /\ pc[r] = "serve"
    /\ job[r].route # "list"
    /\ ~WellFormed(job[r]) \/ Absent(r)
    /\ Answer(r, "404")
    /\ UNCHANGED <<body, walk>> /\ Elsewhere

\* Mutant: the total counts everybody's mail.
CountMutant(r) ==
    /\ pc[r] = "serve"
    /\ job[r].route = "list"
    /\ body' = [body EXCEPT ![r].total = Cardinality(DOMAIN received)]
    /\ Continue(r, "page")
    /\ UNCHANGED walk /\ Elsewhere

\* ListMessages: SELECT COUNT(DISTINCT m.id) ...
Count(r) ==
    /\ pc[r] = "serve"
    /\ job[r].route = "list"
    /\ body' = [body EXCEPT ![r].total = Cardinality(Visible(ctx[r], job[r].q))]
    /\ Continue(r, "page")
    /\ UNCHANGED walk /\ Elsewhere

\* The mails of whoever logged in, by what stands in their headers.
MailOf(c) ==
    {m \in DOMAIN received :
        \/ c.psk = "admin"
        \/ c.psk = "normal" /\ \E e \in Recipients(m) : Weight[e] = Weight[Canonical[c.name]]}

Walked(r, rows) ==
    LET w == walk[r]
        j == job[r]
        c == login[token[r]]
    IN  IF w # NoWalk
        THEN [w EXCEPT !.page = @ + 1, !.seen = @ \cup rows]
        ELSE IF PageNo(j) = 1
        THEN [page |-> 1, size |-> PerPage(j), login |-> c, q |-> j.q,
              start |-> MailOf(c) \cap Search(j.q), seen |-> rows]
        ELSE NoWalk

\* ... and then, in a query of its own, the rows of the page.
ReadPage(r) ==
    /\ pc[r] = "page"
    /\ Offset(job[r]) >= 0
    /\ \E rows \in Pages(Visible(ctx[r], job[r].q), Offset(job[r]), PerPage(job[r])) :
         /\ body' = [body EXCEPT ![r].rows = rows]
         /\ walk' = [walk EXCEPT ![r] = Walked(r, rows)]
    /\ Answer(r, "200") /\ Elsewhere

\* getMessage: the row of the message, for those who may read it ...
ReadMessage(r) ==
    /\ pc[r] = "serve"
    /\ job[r].route = "message" /\ WellFormed(job[r]) /\ ~Absent(r)
    /\ body' = [body EXCEPT ![r].rows = {job[r].id}]
    /\ Continue(r, "recipients")
    /\ UNCHANGED walk /\ Elsewhere

\* ... its recipients ...
ReadRecipients(r) ==
    /\ pc[r] = "recipients"
    /\ body' = [body EXCEPT ![r].emails =
                  {row.email : row \in {x \in recipients : x.message = job[r].id}}]
    /\ Continue(r, "attachments")
    /\ UNCHANGED walk /\ Elsewhere

\* ... and its attachments, in three queries.
ReadAttachments(r) ==
    /\ pc[r] = "attachments"
    /\ body' = [body EXCEPT ![r].files =
                  {<<row.pos, row.key>> : row \in {x \in attachments : x.message = job[r].id}}]
    /\ UNCHANGED walk
    /\ Answer(r, "200") /\ Elsewhere

\* GetRawMIME and GetAttachment: the row that names the file ...
FindFile(r) ==
    /\ pc[r] = "serve"
    /\ job[r].route \in {"raw", "attachment"} /\ WellFormed(job[r]) /\ ~Absent(r)
    /\ body' = [body EXCEPT ![r].rows = {job[r].id},
                            ![r].files = IF job[r].route = "raw" THEN {}
                                         ELSE {<<x.pos, x.key>> : x \in AttachmentAt(job[r])}]
    /\ Continue(r, "read")
    /\ UNCHANGED walk /\ Elsewhere

\* ... and the file, found or not.
ReadFile(r) ==
    /\ pc[r] = "read"
    /\ \/ Answer(r, "200") /\ UNCHANGED body
       \/ Answer(r, "404") /\ body' = [body EXCEPT ![r] = Blank]
    /\ UNCHANGED walk /\ Elsewhere

\* A query returns an error; one with a negative OFFSET always does.
QueryFails(r) ==
    /\ pc[r] \in Handler \ {"read"}
    /\ pc[r] = "serve" => WellFormed(job[r])
    /\ Answer(r, "500")
    /\ body' = [body EXCEPT ![r] = Blank]
    /\ UNCHANGED walk /\ Elsewhere

-----------------------------------------------------------------------------
Step(r) ==
    \/ Lookup(r) \/ CheckExpiry(r) \/ NotFound(r) \/ Count(r) \/ ReadPage(r)
    \/ ReadMessage(r) \/ ReadRecipients(r) \/ ReadAttachments(r)
    \/ FindFile(r) \/ ReadFile(r) \/ QueryFails(r)

Next ==
    \/ Tick \/ Restart
    \/ \E m \in Message, at \in 0..MaxTime : Deliver(m, at)
    \/ \E t \in Token : Logout(t) \/ \E c \in Credential : Login(t, c)
    \/ \E r \in Request : Step(r) \/ \E t \in Token \cup {NoCookie}, j \in Job : Arrive(r, t, j)

Spec == Init /\ [][Next]_vars

-----------------------------------------------------------------------------
\* Every variable ranges over what its Go type or column can hold; addresses
\* are in canonical form wherever they are stored.
TypeOK ==
    /\ DOMAIN received \subseteq Message
    /\ \A m \in DOMAIN received : received[m] \in Nat
    /\ recipients \subseteq [message : Message, email : Address]
    /\ attachments \subseteq [message : Message, pos : Nat \ {0}, key : Key]
    /\ DOMAIN sessions \subseteq Token
    /\ \A t \in DOMAIN sessions : sessions[t] \in Session
    /\ now \in Nat
    /\ pc \in [Request -> PC]
    /\ job \in [Request -> Job]
    /\ token \in [Request -> Token \cup {NoCookie}]
    /\ ctx \in [Request -> Session]
    /\ body \in [Request -> Body]
    /\ status \in [Request -> Status]
    /\ login \in [Token -> Credential \cup {Nobody}]
    /\ until \in [Token -> Nat \cup {-1}]
    /\ late \in [Request -> BOOLEAN]
    /\ walk \in [Request -> Walk]

\* A session that ended by logout, expiry or restart is never served again,
\* and only such a session is turned away: RequireAuth reads the session map
\* and the clock in two steps, while others log in, log out and delete.
RefusedExactlyWhenEnded ==
    \A r \in Request :
        /\ late[r] => status[r] \in {"none", "lost", "401"}
        /\ status[r] = "401" => Ended(token[r])

\* Whatever is answered on the four routes is mail of the person who logged
\* in, told by the addresses in the mail's header and the one typed at the
\* login, however each is spelled, which two components normalise and the
\* column's collation compares; the session has been read long before.
OnlyOwnMail ==
    \A r \in Request :
        status[r] = "200" =>
            /\ body[r].rows \subseteq MailOf(login[token[r]])
            /\ job[r].route = "list" => body[r].rows \subseteq Search(job[r].q)

\* getMessage runs three queries outside a transaction while mails arrive; its
\* answer is one mail, with all its recipients and attachments, and index idx
\* of the attachment route is the one that this answer lists.
AnswerIsWhole ==
    \A r \in Request :
        LET id == job[r].id
        IN  /\ status[r] = "200" /\ job[r].route = "message" =>
                 /\ body[r].emails = Recipients(id)
                 /\ body[r].files = {<<i, Attachments(id)[i]>> : i \in DOMAIN Attachments(id)}
            /\ status[r] = "200" /\ job[r].route = "attachment" =>
                 /\ job[r].idx + 1 \in DOMAIN Attachments(id)
                 /\ body[r].files = {<<job[r].idx + 1, Attachments(id)[job[r].idx + 1]>>}

\* The pager stops at the total, which ListMessages counts in a query of its
\* own: a page that is not full is the last one that this total promises, also
\* when a mail arrives between the two queries or the offset wraps around.
ShortPageIsLast ==
    \A r \in Request :
        LET j == job[r]
            n == Cardinality(body[r].rows)
        IN  status[r] = "200" /\ j.route = "list" /\ n < PerPage(j) =>
                (PageNo(j) - 1) * PerPage(j) + n >= body[r].total

\* A reader who turns the pages one by one passes over no mail that was there
\* when he read the first, although mails arrive, some with an earlier
\* received_at than others: it has been on a page or lies behind the pages
\* read so far.  Two mails of the same second have no order and are left out.
NothingSkipped ==
    \A r \in Request :
        LET w == walk[r]
            V == MailOf(w.login) \cap Search(w.q)
        IN  \A x \in w.start \ w.seen :
                (\A y \in V \ {x} : received[y] # received[x]) =>
                    Cardinality({y \in V : received[y] > received[x]}) >= w.page * w.size

-----------------------------------------------------------------------------
Tables == INSTANCE Archive WITH
    ids    <- DOMAIN received,
    Parsed <- {[emails |-> Recipients(m), files |-> Attachments(m)] : m \in Message}

\* The mail that comes in while the API serves is what Archive allows, and
\* Ingest keeps to it; no handler of the API writes a row.
ArchiveSpec == Tables!Spec
=============================================================================
