--------------------------- MODULE MailboxProofs ---------------------------
(***************************************************************************)
(* Safety of the sessions and of the mailbox API for any number of         *)
(* clients, tokens, mails and URLs, and every size of a page and an int.   *)
(***************************************************************************)
EXTENDS Mailbox, FiniteSetTheorems, TLAPS

\* The session s is the one that the credentials c entitle to.
Granted(s, c) ==
    /\ s.admin = (c.psk = "admin")
    /\ s.email = IF c.psk = "admin" THEN "admin" ELSE Canonical[c.name]

\* The tables hold the rows of the committed messages and no others.
TablesMatch ==
    /\ recipients =
         {row \in [message : Message, email : Address] :
            row.message \in DOMAIN received /\ row.email \in Recipients(row.message)}
    /\ attachments =
         {row \in [message : Message, pos : Nat \ {0}, key : Key] :
            /\ row.message \in DOMAIN received
            /\ row.pos \in DOMAIN Attachments(row.message)
            /\ row.key = Attachments(row.message)[row.pos]}

\* The session map agrees with the history, and what is not in it is over.
SessionsMatch ==
    /\ \A t \in Token : login[t] # Nobody => login[t] \in Credential /\ Accepted(login[t])
    /\ \A t \in DOMAIN sessions :
         /\ login[t] # Nobody
         /\ Granted(sessions[t], login[t])
         /\ sessions[t].expires = until[t]
    /\ \A t \in Token \ DOMAIN sessions : now > until[t]

\* What RequireAuth knows of a request at each of its steps.
AdmittedAt(r) ==
    /\ token[r] # NoCookie => login[token[r]] # Nobody
    /\ late[r] => Ended(token[r])
    /\ status[r] = "401" => Ended(token[r])
    /\ pc[r] # "idle" => status[r] = "none"
    /\ pc[r] \in Handler \cup {"expiry"} =>
         /\ token[r] # NoCookie
         /\ Granted(ctx[r], login[token[r]])
         /\ until[token[r]] <= ctx[r].expires
    /\ pc[r] = "expiry" /\ late[r] => now > ctx[r].expires
    /\ pc[r] \in Handler => ~late[r]
    /\ status[r] \in {"200", "404", "500"} => ~late[r] /\ token[r] # NoCookie

\* The attachments of a message as an answer lists them.
Listed(m) == {<<i, Attachments(m)[i]>> : i \in DOMAIN Attachments(m)}

\* What a handler has put together at each of its steps, and its answer.
BodyAt(r) ==
    LET j == job[r]
        b == body[r]
        mail == MailOf(login[token[r]])
    IN  /\ pc[r] = "page" =>
             j.route = "list" /\ b.total <= Cardinality(mail \cap Search(j.q))
        /\ pc[r] \in {"recipients", "attachments"} => j.route = "message"
        /\ pc[r] = "attachments" => b.emails = Recipients(j.id)
        /\ pc[r] = "read" => j.route \in {"raw", "attachment"}
        /\ pc[r] \in {"recipients", "attachments", "read"} => b.rows = {j.id} /\ j.id \in mail
        /\ (pc[r] = "read" \/ status[r] = "200") /\ j.route = "attachment" =>
             /\ j.idx + 1 \in DOMAIN Attachments(j.id)
             /\ b.files = {<<j.idx + 1, Attachments(j.id)[j.idx + 1]>>}
        /\ status[r] = "200" => b.rows \subseteq mail
        /\ status[r] = "200" /\ j.route = "list" =>
             /\ b.rows \subseteq Search(j.q)
             /\ Cardinality(b.rows) < PerPage(j) =>
                  (PageNo(j) - 1) * PerPage(j) + Cardinality(b.rows) >= b.total
        /\ status[r] = "200" /\ j.route = "message" =>
             b.emails = Recipients(j.id) /\ b.files = Listed(j.id)

\* The rows that stand before x in the list, when x shares its second with
\* nobody.
Newer(V, x)  == {y \in V : received[y] > received[x]}
Untied(V, x) == \A y \in V \ {x} : received[y] # received[x]

\* A walk began with the mail of that time, and the request under way, if any,
\* reads its next page.
WalkAt(r) ==
    LET w == walk[r]
        j == job[r]
        V == MailOf(w.login) \cap Search(w.q)
    IN  w # NoWalk =>
          /\ w.page > 0 /\ w.login \in Credential /\ w.start \subseteq V
          /\ pc[r] # "idle" =>
               /\ j.route = "list" /\ token[r] # NoCookie
               /\ PageNo(j) = w.page + 1 /\ PerPage(j) = w.size
               /\ j.q = w.q /\ login[token[r]] = w.login
          /\ \A x \in w.start \ w.seen :
               Untied(V, x) => Cardinality(Newer(V, x)) >= w.page * w.size

\* The inductive invariant.
Inv ==
    /\ TypeOK /\ TablesMatch /\ SessionsMatch
    /\ \A r \in Request : AdmittedAt(r) /\ BodyAt(r) /\ WalkAt(r)

-----------------------------------------------------------------------------
\* What LoginHandler is given: a key and an address, and nobody is not one of
\* them.
LEMMA CredentialType ==
    /\ Nobody \notin Credential
    /\ \A c \in Credential : c.psk \in {"admin", "normal", "other"} /\ c.name \in Spelling
    /\ \A c \in Credential : Canonical[c.name] \in Address
  BY MailAssumption DEF Nobody

\* ListMessages always asks for a page from 1 on, of at least one row.
LEMMA PerPageType ==
    ASSUME NEW j \in Job
    PROVE  /\ PageNo(j) \in Nat \ {0}
           /\ PerPage(j) \in Nat \ {0}
           /\ (PageNo(j) - 1) * PerPage(j) \in Nat
  <1>1. j.page \in Int /\ j.size \in Int
    BY MailAssumption DEF URL
  <1>2. PageNo(j) \in Nat \ {0} /\ PerPage(j) \in Nat \ {0}
    BY <1>1, NumberAssumption DEF PageNo, PerPage
  <1>3. PageNo(j) - 1 \in Nat
    BY <1>2
  <1> QED
    BY <1>2, <1>3

\* The offset of ListMessages is the product that it computes, if that fits
\* into an int.
LEMMA OffsetType ==
    ASSUME NEW j \in Job
    PROVE  /\ Offset(j) \in Int
           /\ (PageNo(j) - 1) * PerPage(j) <= IntMax =>
                Offset(j) = (PageNo(j) - 1) * PerPage(j)
  <1> DEFINE n == (PageNo(j) - 1) * PerPage(j)
  <1>1. n \in Nat
    BY PerPageType
  <1>2. IntMax \in Nat
    BY NumberAssumption
  <1> HIDE DEF n
  <1>3. Wrap(n) \in Int /\ (n <= IntMax => Wrap(n) = n)
    <2>1. 2 * (IntMax + 1) \in Nat \ {0} /\ n + IntMax + 1 \in Nat
      BY <1>1, <1>2
    <2>2. \A a \in Nat, b \in Nat \ {0} : a % b \in Int
      OBVIOUS
    <2>3. (n + IntMax + 1) % (2 * (IntMax + 1)) \in Int
      BY <2>1, <2>2
    <2> QED
      BY <1>1, <1>2, <2>3 DEF Wrap
  <1> QED
    BY <1>3 DEF Offset, n

\* persist stores canonical addresses, and the attachments in order.
LEMMA MailType ==
    ASSUME NEW m \in Message
    PROVE  /\ Recipients(m) \subseteq Address
           /\ Attachments(m) \in Seq(Key)
           /\ \A i \in DOMAIN Attachments(m) : i \in Nat \ {0} /\ Attachments(m)[i] \in Key
  <1>1. Recipients(m) \subseteq Address
    BY MailAssumption DEF Recipients, Address
  <1>2. CASE m \in Malformed
    <2>1. Attachments(m) = <<>>
      BY <1>2 DEF Attachments
    <2> QED
      BY <1>1, <2>1
  <1>3. CASE m \notin Malformed
    <2>1. Attachments(m) = Files[m]
      BY <1>3 DEF Attachments
    <2>2. Files[m] \in Seq(Key)
      BY MailAssumption
    <2> QED
      BY <1>1, <2>1, <2>2
  <1> QED
    BY <1>2, <1>3

\* A search in ListMessages finds mails.
LEMMA SearchType ==
    ASSUME NEW q \in Query
    PROVE  Search(q) \subseteq Message
  BY MailAssumption DEF Search

\* The constants that Init and NoWalk pick exist.
LEMMA Picked ==
    /\ (CHOOSE j \in Job : TRUE) \in Job
    /\ (CHOOSE q \in Query : TRUE) \in Query
    /\ (CHOOSE a \in Spelling : TRUE) \in Spelling
  <1>1. PICK j \in Job : TRUE
    BY MailAssumption
  <1>2. j.q \in Query
    BY MailAssumption DEF URL
  <1> QED
    BY <1>1, <1>2, MailAssumption

-----------------------------------------------------------------------------
(* Pages of a finite set of messages, ordered by received_at. *)

\* How many rows a page has.
LEMMA PageSize ==
    ASSUME NEW V, IsFiniteSet(V), NEW o \in Nat, NEW l \in Nat, NEW rows \in Pages(V, o, l)
    PROVE  /\ rows \subseteq V /\ IsFiniteSet(rows) /\ Cardinality(rows) \in Nat
           /\ Cardinality(rows) < l => o + Cardinality(rows) >= Cardinality(V)
  <1>1. PICK Q \in Newest(V, o + l), P \in Newest(V, o) : P \subseteq Q /\ rows = Q \ P
    BY DEF Pages
  <1>2. Q \subseteq V /\ P \subseteq V
    BY DEF Newest
  <1>3. IsFiniteSet(Q) /\ IsFiniteSet(P) /\ IsFiniteSet(rows)
    BY <1>1, <1>2, FS_Subset, FS_Difference
  <1>4. Cardinality(V) \in Nat /\ Cardinality(Q) \in Nat /\ Cardinality(P) \in Nat
    BY <1>3, FS_CardinalityType
  <1>5. Q \cap P = P
    BY <1>1
  <1>6. Cardinality(rows) = Cardinality(Q) - Cardinality(P)
    BY <1>1, <1>3, <1>5, FS_Difference
  <1>7. Cardinality(rows) \in Nat
    BY <1>3, FS_CardinalityType
  <1>8. /\ Cardinality(Q) = IF o + l < Cardinality(V) THEN o + l ELSE Cardinality(V)
        /\ Cardinality(P) = IF o < Cardinality(V) THEN o ELSE Cardinality(V)
    BY DEF Newest
  <1>9. rows \subseteq V
    BY <1>1, <1>2
  <1> HIDE DEF Pages
  <1> QED
    BY <1>3, <1>4, <1>6, <1>7, <1>8, <1>9

\* Whether a row is among the first n is decided by the rows before it.
LEMMA PrefixByRank ==
    ASSUME NEW V, IsFiniteSet(V), NEW n \in Nat, NEW P \in Newest(V, n),
           \A y \in V : received[y] \in Nat,
           NEW x \in V, Untied(V, x)
    PROVE  /\ Cardinality(Newer(V, x)) \in Nat
           /\ x \in P => Cardinality(Newer(V, x)) < n
           /\ x \notin P => Cardinality(Newer(V, x)) >= n
  <1> DEFINE N == Newer(V, x)
  <1>1. N \subseteq V /\ P \subseteq V
    BY DEF Newer, Newest
  <1>2. IsFiniteSet(N) /\ IsFiniteSet(P)
    BY <1>1, FS_Subset
  <1>3. Cardinality(N) \in Nat /\ Cardinality(P) \in Nat /\ Cardinality(V) \in Nat
    BY <1>2, FS_CardinalityType
  <1>4. Cardinality(P) = IF n < Cardinality(V) THEN n ELSE Cardinality(V)
    BY DEF Newest
  <1>5. ASSUME x \in P PROVE Cardinality(N) < n
    <2>1. N \subseteq P \ {x}
      BY <1>5, <1>1 DEF Newer, Newest
    <2>2. IsFiniteSet(P \ {x}) /\ Cardinality(P \ {x}) = Cardinality(P) - 1
      BY <1>2, <1>5, FS_RemoveElement
    <2>3. Cardinality(N) <= Cardinality(P \ {x})
      BY <2>1, <2>2, FS_Subset
    <2> QED
      BY <1>3, <1>4, <2>2, <2>3
  <1>6. ASSUME x \notin P PROVE Cardinality(N) >= n
    <2>1. P \subseteq N
      BY <1>6, <1>1 DEF Newer, Newest, Untied
    <2>2. Cardinality(P) <= Cardinality(N)
      BY <2>1, <1>2, FS_Subset
    <2>3. P # V
      BY <1>6
    <2>4. Cardinality(P) # Cardinality(V)
      BY <2>3, <1>1, FS_Subset
    <2> QED
      BY <1>3, <1>4, <2>2, <2>4
  <1> QED
    BY <1>3, <1>5, <1>6

\* A row that does not stand before a page is on it or stands behind it.
LEMMA PagePassesNothing ==
    ASSUME NEW V, IsFiniteSet(V), NEW o \in Nat, NEW l \in Nat, NEW rows \in Pages(V, o, l),
           \A y \in V : received[y] \in Nat,
           NEW x \in V, Untied(V, x),
           Cardinality(Newer(V, x)) >= o, x \notin rows
    PROVE  Cardinality(Newer(V, x)) >= o + l
  <1>1. PICK Q \in Newest(V, o + l), P \in Newest(V, o) : P \subseteq Q /\ rows = Q \ P
    BY DEF Pages
  <1>2. Cardinality(Newer(V, x)) \in Nat /\ x \notin P
    BY PrefixByRank
  <1>3. x \notin Q
    BY <1>1, <1>2
  <1>4. o + l \in Nat
    OBVIOUS
  <1> QED
    BY <1>3, <1>4, PrefixByRank

-----------------------------------------------------------------------------
(* What the queries see is the mail of whoever logged in. *)

\* The EXISTS clauses of the mailbox API select the mail whose header names the
\* address of the login.
LEMMA QueryMatchesHeader ==
    ASSUME TypeOK, TablesMatch,
           NEW s, NEW c \in Credential, Accepted(c), Granted(s, c)
    PROVE  /\ \A m \in DOMAIN received : MayRead(s, m) <=> m \in MailOf(c)
           /\ \A q : Visible(s, q) = MailOf(c) \cap Search(q)
  <1>1. c.psk \in {"admin", "normal"} /\ Canonical[c.name] \in Address
    BY CredentialType, MailAssumption DEF Accepted
  <1>2. ASSUME NEW m \in DOMAIN received
        PROVE  MayRead(s, m) <=> m \in MailOf(c)
    <2>1. m \in Message
      BY DEF TypeOK
    <2>2. CASE c.psk = "admin"
      BY <2>2 DEF MayRead, MailOf, Granted
    <2>3. CASE c.psk = "normal"
      <3>1. ~s.admin /\ s.email = Canonical[c.name]
        BY <2>3 DEF Granted
      <3>2. \A e \in Recipients(m) : [message |-> m, email |-> e] \in recipients
        BY <2>1, MailType DEF TablesMatch
      <3>3. \A row \in recipients : row.message = m => row.email \in Recipients(m)
        BY DEF TablesMatch
      <3>4. (\E row \in recipients : row.message = m /\ Weight[row.email] = Weight[s.email])
               <=> \E e \in Recipients(m) : Weight[e] = Weight[Canonical[c.name]]
        <4>1. ASSUME NEW e \in Recipients(m), Weight[e] = Weight[Canonical[c.name]]
              PROVE  \E row \in recipients : row.message = m /\ Weight[row.email] = Weight[s.email]
          <5>1. PICK row : row = [message |-> m, email |-> e]
            OBVIOUS
          <5>2. row \in recipients /\ row.message = m /\ row.email = e
            BY <3>2, <5>1
          <5> QED
            BY <3>1, <4>1, <5>2
        <4> QED
          BY <3>1, <3>3, <4>1
      <3> QED
        BY <2>3, <3>1, <3>4 DEF MayRead, MailOf
    <2> QED
      BY <1>1, <2>2, <2>3
  <1>3. ASSUME NEW q PROVE Visible(s, q) = MailOf(c) \cap Search(q)
    BY <1>2 DEF Visible, MailOf
  <1> QED
    BY <1>2, <1>3

\* A reader has finitely many mails, fewer than an int can count.
LEMMA MailOfFinite ==
    ASSUME TypeOK, NEW c, NEW q
    PROVE  /\ MailOf(c) \subseteq Message
           /\ IsFiniteSet(MailOf(c) \cap Search(q))
           /\ Cardinality(MailOf(c) \cap Search(q)) \in Nat
           /\ \A m \in MailOf(c) : received[m] \in Nat
           /\ \A T \in SUBSET (MailOf(c) \cap Search(q)) :
                IsFiniteSet(T) /\ Cardinality(T) \in Nat /\ Cardinality(T) <= IntMax
  <1>1. MailOf(c) \subseteq Message /\ \A m \in MailOf(c) : received[m] \in Nat
    BY DEF TypeOK, MailOf
  <1>2. \A T \in SUBSET Message :
          IsFiniteSet(T) /\ Cardinality(T) \in Nat /\ Cardinality(T) <= Cardinality(Message)
    BY MailAssumption, FS_Subset, FS_CardinalityType
  <1>3. Cardinality(Message) \in Nat /\ Cardinality(Message) <= IntMax /\ IntMax \in Nat
    BY MailAssumption, NumberAssumption, FS_CardinalityType
  <1>4. MailOf(c) \cap Search(q) \in SUBSET Message
    BY <1>1
  <1> QED
    BY <1>1, <1>2, <1>3, <1>4

-----------------------------------------------------------------------------
(* The requests that a step does not touch. *)

\* The step leaves the request o where it is.
Same(o) ==
    /\ pc'[o] = pc[o] /\ job'[o] = job[o] /\ token'[o] = token[o] /\ ctx'[o] = ctx[o]
    /\ body'[o] = body[o] /\ status'[o] = status[o] /\ late'[o] = late[o] /\ walk'[o] = walk[o]

\* Rows stay as they are committed, a token stays with its credentials, and
\* time and the ends of sessions only go one way.
Grows ==
    /\ DOMAIN received \subseteq DOMAIN received'
    /\ \A m \in DOMAIN received : received'[m] = received[m]
    /\ \A t \in Token : login[t] # Nobody => login'[t] = login[t] /\ until'[t] <= until[t]
    /\ now' >= now

\* What a reader's mail was, it still is: messages are only added.
LEMMA MailGrows ==
    ASSUME TypeOK, TypeOK', Grows, NEW c, NEW q
    PROVE  /\ MailOf(c) \subseteq MailOf(c)'
           /\ Cardinality(MailOf(c) \cap Search(q)) <= Cardinality((MailOf(c) \cap Search(q))')
           /\ \A x \in MailOf(c) \cap Search(q) :
                /\ Untied(MailOf(c) \cap Search(q), x)' => Untied(MailOf(c) \cap Search(q), x)
                /\ Cardinality(Newer(MailOf(c) \cap Search(q), x))
                     <= Cardinality(Newer(MailOf(c) \cap Search(q), x)')
  <1> DEFINE V == MailOf(c) \cap Search(q)
             W == MailOf(c)' \cap Search(q)
  <1>1. MailOf(c) \subseteq MailOf(c)'
    BY DEF Grows, MailOf
  <1>2. V \subseteq W /\ W = V'
    BY <1>1 DEF Search
  <1>3. IsFiniteSet(W) /\ \A T \in SUBSET W : IsFiniteSet(T)
    <2>1. W \subseteq Message
      BY DEF TypeOK, MailOf
    <2> QED
      BY <2>1, MailAssumption, FS_Subset
  <1>4. \A y \in V : received'[y] = received[y]
    BY DEF Grows, MailOf
  <1>5. ASSUME NEW x \in V
        PROVE  /\ Untied(V, x)' => Untied(V, x)
               /\ Newer(V, x) \subseteq Newer(V, x)' /\ Newer(V, x)' \subseteq W
    <2>1. Untied(V, x)' => Untied(V, x)
      BY <1>2, <1>4 DEF Untied
    <2>2. Newer(V, x) \subseteq Newer(V, x)'
      BY <1>2, <1>4 DEF Newer
    <2>3. Newer(V, x)' \subseteq W
      BY <1>2 DEF Newer
    <2> QED
      BY <2>1, <2>2, <2>3
  <1>6. Cardinality(V) <= Cardinality(V')
    BY <1>2, <1>3, FS_Subset
  <1>7. ASSUME NEW x \in V PROVE Cardinality(Newer(V, x)) <= Cardinality(Newer(V, x)')
    BY <1>3, <1>5, FS_Subset
  <1> QED
    BY <1>1, <1>5, <1>6, <1>7

\* What one request holds.
LEMMA RequestType ==
    ASSUME TypeOK, NEW o \in Request
    PROVE  /\ token[o] \in Token \cup {NoCookie} /\ job[o] \in Job /\ pc[o] \in PC
           /\ status[o] \in Status /\ late[o] \in BOOLEAN /\ now \in Nat
           /\ ctx[o] \in Session
           /\ ctx[o].expires \in Nat
           /\ \A t \in Token : until[t] \in Nat \cup {-1} /\ login[t] \in Credential \cup {Nobody}
           /\ body[o] \in Body
           /\ walk[o] \in Walk
  <1>1. ctx[o] \in Session
    BY DEF TypeOK
  <1>2. ctx[o].expires \in Nat
    BY <1>1 DEF Session
  <1> QED
    BY <1>1, <1>2 DEF TypeOK

\* RequireAuth's part of the invariant depends on nobody else's steps.
LEMMA AdmittedKept ==
    ASSUME TypeOK, TypeOK', Grows, NEW o \in Request, Same(o), AdmittedAt(o)
    PROVE  AdmittedAt(o)'
  <1>0. /\ now \in Nat /\ ctx[o].expires \in Nat /\ token[o] \in Token \cup {NoCookie}
        /\ \A t \in Token : until[t] \in Nat \cup {-1}
    BY RequestType
  <1>1. now' \in Nat /\ (\A t \in Token : until'[t] \in Nat \cup {-1})
    BY DEF TypeOK
  <1>2. token[o] # NoCookie =>
          /\ token[o] \in Token /\ until[token[o]] \in Int /\ until'[token[o]] \in Int
          /\ login'[token[o]] = login[token[o]] /\ login[token[o]] # Nobody
          /\ until'[token[o]] <= until[token[o]]
    BY <1>0, <1>1 DEF Grows, AdmittedAt
  <1>3. Ended(token[o]) => Ended(token[o])'
    BY <1>0, <1>1, <1>2 DEF Grows, Ended, Same
  <1>4. pc[o] \in Handler \cup {"expiry"} =>
             /\ token[o] # NoCookie
             /\ Granted(ctx[o], login[token[o]])'
             /\ until'[token[o]] <= ctx[o].expires
    BY <1>0, <1>2 DEF AdmittedAt, Granted, Same
  <1> QED
    BY <1>0, <1>1, <1>2, <1>3, <1>4 DEF AdmittedAt, Same, Grows, Granted

\* An answer, finished or not, stays right when mails arrive behind its back.
LEMMA BodyKept ==
    ASSUME TypeOK, TypeOK', Grows, NEW o \in Request, Same(o), AdmittedAt(o), BodyAt(o)
    PROVE  BodyAt(o)'
  <1>1. CASE ~(pc[o] \in Handler \/ status[o] = "200")
    BY <1>1 DEF BodyAt, Same, Handler
  <1>2. CASE pc[o] \in Handler \/ status[o] = "200"
    <2>1. token[o] \in Token /\ login'[token[o]] = login[token[o]]
      BY <1>2, RequestType DEF AdmittedAt, Grows
    <2>2. PICK c, q : c = login[token[o]] /\ q = job[o].q
      OBVIOUS
    <2>3. MailOf(c) = MailOf(login[token[o]]) /\ MailOf(c)' = MailOf(login[token[o]])'
      BY <2>1, <2>2 DEF Same, MailOf
    <2>4. MailOf(login[token[o]]) \subseteq MailOf(login[token[o]])'
      BY <2>3, MailGrows
    <2>5. /\ MailOf(login[token[o]]) \cap Search(job[o].q) = MailOf(c) \cap Search(q)
          /\ (MailOf(login[token[o]]) \cap Search(job[o].q))' = (MailOf(c) \cap Search(q))'
      BY <2>2, <2>3 DEF Same, Search
    <2>6. /\ Cardinality(MailOf(login[token[o]]) \cap Search(job[o].q)) \in Nat
          /\ Cardinality((MailOf(login[token[o]]) \cap Search(job[o].q))') \in Nat
          /\ Cardinality(MailOf(login[token[o]]) \cap Search(job[o].q))
               <= Cardinality((MailOf(login[token[o]]) \cap Search(job[o].q))')
      BY <2>5, MailGrows, MailOfFinite
    <2>7. body[o].total \in Nat
      BY RequestType DEF Body
    <2>8. (Search(job[o].q))' = Search(job[o].q) /\ PerPage(job[o])' = PerPage(job[o])
          /\ PageNo(job[o])' = PageNo(job[o])
      BY DEF Same, Search, PerPage, PageNo
    <2>9. pc[o] = "page" =>
            body[o].total <= Cardinality((MailOf(login[token[o]]) \cap Search(job[o].q))')
      BY <2>6, <2>7 DEF BodyAt
    <2>10. (Recipients(job[o].id))' = Recipients(job[o].id) /\ Listed(job[o].id)' = Listed(job[o].id)
           /\ Attachments(job[o].id)' = Attachments(job[o].id)
      BY DEF Same, Recipients, Listed, Attachments
    <2> QED
      BY <2>4, <2>8, <2>9, <2>10 DEF BodyAt, Same
  <1> QED
    BY <1>1, <1>2

\* The pages that a reader has turned stay in front of what he has not seen.
LEMMA WalkKept ==
    ASSUME TypeOK, TypeOK', Grows, NEW o \in Request, Same(o), AdmittedAt(o), WalkAt(o)
    PROVE  WalkAt(o)'
  <1>1. CASE walk[o] = NoWalk
    BY <1>1 DEF WalkAt, Same, NoWalk, Nobody
  <1>2. CASE walk[o] # NoWalk
    <2>1. PICK w : w = walk[o] /\ w = walk'[o]
      BY DEF Same
    <2> DEFINE V == MailOf(w.login) \cap Search(w.q)
    <2>2. /\ w # NoWalk /\ w.page > 0 /\ w.login \in Credential /\ w.start \subseteq V
          /\ w.page \in Nat /\ w.size \in Nat
          /\ pc[o] # "idle" =>
               /\ job[o].route = "list" /\ token[o] # NoCookie
               /\ PageNo(job[o]) = w.page + 1 /\ PerPage(job[o]) = w.size
               /\ job[o].q = w.q /\ login[token[o]] = w.login
          /\ \A x \in w.start \ w.seen :
               Untied(V, x) => Cardinality(Newer(V, x)) >= w.page * w.size
      BY <1>2, <2>1, RequestType DEF WalkAt, Walk
    <2>3. V \subseteq V'
      BY MailGrows DEF Search
    <2>4. ASSUME NEW x \in w.start \ w.seen, Untied(V, x)'
          PROVE  Cardinality(Newer(V, x)') >= w.page * w.size
      <3>1. x \in V
        BY <2>2
      <3>2. Untied(V, x) /\ Cardinality(Newer(V, x)) <= Cardinality(Newer(V, x)')
        BY <2>4, <3>1, MailGrows
      <3>3. Cardinality(Newer(V, x)) \in Nat
        BY MailOfFinite DEF Newer
      <3>4. Cardinality(Newer(V, x)') \in Nat
        <4>1. Newer(V, x)' \subseteq V'
          BY DEF Newer
        <4>2. V' \subseteq Message
          BY DEF MailOf, TypeOK
        <4> QED
          BY <4>1, <4>2, MailAssumption, FS_Subset, FS_CardinalityType
      <3>5. w.page * w.size \in Nat
        BY <2>2
      <3> QED
        BY <2>2, <3>2, <3>3, <3>4, <3>5
    <2>5. pc[o] # "idle" =>
            /\ job'[o].route = "list" /\ token'[o] # NoCookie
            /\ PageNo(job[o])' = w.page + 1 /\ PerPage(job[o])' = w.size
            /\ job'[o].q = w.q /\ login'[token'[o]] = w.login
      <3>1. token[o] # NoCookie => login'[token[o]] = login[token[o]]
        BY RequestType DEF AdmittedAt, Grows
      <3> QED
        BY <2>2, <3>1 DEF Same, PageNo, PerPage
    <2>6. w.start \subseteq V'
      BY <2>2, <2>3
    <2> HIDE DEF V
    <2>7. V' = (MailOf(walk[o].login) \cap Search(walk[o].q))'
      BY <2>1 DEF V, MailOf, Search
    <2> QED
      BY <2>1, <2>2, <2>4, <2>5, <2>6, <2>7 DEF WalkAt, Same, Untied, Newer
  <1> QED
    BY <1>1, <1>2

-----------------------------------------------------------------------------
(* The steps of a handler. *)

\* The steps of a handler, after RequireAuth has let the request through.
HandlerStep(r) ==
    \/ NotFound(r) \/ Count(r) \/ ReadPage(r) \/ ReadMessage(r) \/ ReadRecipients(r)
    \/ ReadAttachments(r) \/ FindFile(r) \/ ReadFile(r) \/ QueryFails(r)

\* A handler of the mailbox API goes on or answers, and touches neither the
\* tables nor the session map; only the list route turns a page.
LEMMA HandlerShape ==
    ASSUME NEW r \in Request, HandlerStep(r)
    PROVE  /\ pc[r] \in Handler
           /\ Elsewhere
           /\ \/ \E there \in Handler : Continue(r, there)
              \/ \E code \in {"200", "404", "500"} : Answer(r, code)
           /\ ReadPage(r) \/ walk' = walk
  <1>1. CASE NotFound(r)
    BY <1>1 DEF NotFound, Handler
  <1>2. CASE Count(r)
    BY <1>2 DEF Count, Handler
  <1>3. CASE ReadPage(r)
    BY <1>3 DEF ReadPage, Handler
  <1>4. CASE ReadMessage(r)
    BY <1>4 DEF ReadMessage, Handler
  <1>5. CASE ReadRecipients(r)
    BY <1>5 DEF ReadRecipients, Handler
  <1>6. CASE ReadAttachments(r)
    BY <1>6 DEF ReadAttachments, Handler
  <1>7. CASE FindFile(r)
    BY <1>7 DEF FindFile, Handler
  <1>8. CASE ReadFile(r)
    BY <1>8 DEF ReadFile, Handler
  <1>9. CASE QueryFails(r)
    BY <1>9 DEF QueryFails, Handler
  <1> QED
    BY <1>1, <1>2, <1>3, <1>4, <1>5, <1>6, <1>7, <1>8, <1>9 DEF HandlerStep

-----------------------------------------------------------------------------
(* Types. *)

\* The part of the type invariant that is about the stored mail, the sessions
\* and the history, and the part that is about the requests.
StoreOK ==
    /\ DOMAIN received \subseteq Message
    /\ \A m \in DOMAIN received : received[m] \in Nat
    /\ recipients \subseteq [message : Message, email : Address]
    /\ attachments \subseteq [message : Message, pos : Nat \ {0}, key : Key]
    /\ DOMAIN sessions \subseteq Token
    /\ \A t \in DOMAIN sessions :
         sessions[t] \in Session
    /\ now \in Nat
    /\ login \in [Token -> Credential \cup {Nobody}]
    /\ until \in [Token -> Nat \cup {-1}]
RequestsOK ==
    /\ pc \in [Request -> PC]
    /\ job \in [Request -> Job]
    /\ token \in [Request -> Token \cup {NoCookie}]
    /\ ctx \in [Request -> Session]
    /\ body \in [Request -> Body]
    /\ status \in [Request -> Status]
    /\ late \in [Request -> BOOLEAN]
    /\ walk \in [Request -> Walk]

\* The type invariant in two parts.
LEMMA TypeParts == (TypeOK <=> StoreOK /\ RequestsOK) /\ (TypeOK' <=> StoreOK' /\ RequestsOK')
  BY DEF TypeOK, StoreOK, RequestsOK

\* A session is made of the credentials' canonical address.
LEMMA SessionType ==
    ASSUME TypeOK, NEW c \in Credential
    PROVE  /\ SessionOf(c) \in Session
           /\ Granted(SessionOf(c), c) /\ SessionOf(c).expires = now + TTL
  <1>0. now \in Nat
    BY DEF TypeOK
  <1>1. now + TTL \in Nat
    BY <1>0, NumberAssumption
  <1>2. Canonical[c.name] \in Address
    BY CredentialType
  <1> QED
    BY <1>1, <1>2 DEF SessionOf, Granted, Session

\* Blank values have their types.
LEMMA BlankType ==
    /\ Guest \in Session
    /\ Blank \in Body
    /\ NoWalk \in Walk
  BY Picked DEF Guest, Blank, NoWalk, Session, Body, Walk

\* Deliveries, logins, logouts, restarts and the clock keep the stored types.
LEMMA StoreType ==
    ASSUME TypeOK, [Next]_vars
    PROVE  StoreOK'
  <1>0. StoreOK
    BY TypeParts
  <1>1. CASE UNCHANGED vars
    BY <1>0, <1>1 DEF vars, StoreOK
  <1>2. CASE Tick
    BY <1>0, <1>2 DEF Tick, StoreOK, tables, history
  <1>3. CASE Restart
    BY <1>0, <1>3 DEF Restart, StoreOK, tables
  <1>4. ASSUME NEW m \in Message, NEW at \in 0..MaxTime, Deliver(m, at)
        PROVE  StoreOK'
    <2>1. RecipientRows(m) \subseteq [message : Message, email : Address]
      BY MailType DEF RecipientRows
    <2>2. AttachmentRows(m) \subseteq [message : Message, pos : Nat \ {0}, key : Key]
      BY MailType DEF AttachmentRows
    <2>3. at \in Nat
      BY NumberAssumption
    <2> QED
      BY <1>0, <1>4, <2>1, <2>2, <2>3 DEF Deliver, StoreOK, history
  <1>5. ASSUME NEW t \in Token, Logout(t)
        PROVE  StoreOK'
    BY <1>0, <1>5 DEF Logout, Delete, StoreOK, tables
  <1>6. ASSUME NEW t \in Token, NEW c \in Credential, Login(t, c)
        PROVE  StoreOK'
    BY <1>0, <1>6, SessionType, NumberAssumption DEF Login, Create, StoreOK, tables
  <1>7. ASSUME NEW r \in Request, Step(r)
        PROVE  StoreOK'
    <2>1. CASE UNCHANGED <<tables, sessions, now, history>>
      BY <1>0, <2>1 DEF StoreOK, tables, history
    <2>2. CASE CheckExpiry(r)
      BY <1>0, <2>2 DEF CheckExpiry, Delete, StoreOK, tables, history
    <2> QED
      BY <1>7, <2>1, <2>2 DEF Step, Lookup, NotFound, Count, ReadPage, ReadMessage,
         ReadRecipients, ReadAttachments, FindFile, ReadFile, QueryFails, Elsewhere
  <1>8. ASSUME NEW r \in Request, NEW t \in Token \cup {NoCookie}, NEW j \in Job, Arrive(r, t, j)
        PROVE  StoreOK'
    BY <1>0, <1>8 DEF Arrive, StoreOK, tables, history
  <1> QED
    BY <1>1, <1>2, <1>3, <1>4, <1>5, <1>6, <1>7, <1>8 DEF Next

\* What each query returns has the types of the columns.
LEMMA QueryType ==
    ASSUME TypeOK, NEW r \in Request
    PROVE  /\ {row.email : row \in {x \in recipients : x.message = job[r].id}} \subseteq Address
           /\ {<<row.pos, row.key>> : row \in {x \in attachments : x.message = job[r].id}}
                \subseteq (Nat \ {0}) \X Key
           /\ {<<x.pos, x.key>> : x \in AttachmentAt(job[r])} \subseteq (Nat \ {0}) \X Key
           /\ \A s, q : Visible(s, q) \subseteq Message /\ IsFiniteSet(Visible(s, q))
                          /\ Cardinality(Visible(s, q)) \in Nat
  <1>1. recipients \subseteq [message : Message, email : Address]
    BY DEF TypeOK
  <1>2. attachments \subseteq [message : Message, pos : Nat \ {0}, key : Key]
    BY DEF TypeOK
  <1>3. {row.email : row \in {x \in recipients : x.message = job[r].id}} \subseteq Address
    BY <1>1
  <1>4. {<<row.pos, row.key>> : row \in {x \in attachments : x.message = job[r].id}}
                \subseteq (Nat \ {0}) \X Key
    BY <1>2
  <1>5. {<<x.pos, x.key>> : x \in AttachmentAt(job[r])} \subseteq (Nat \ {0}) \X Key
    BY <1>2 DEF AttachmentAt
  <1>6. ASSUME NEW s, NEW q
        PROVE  /\ Visible(s, q) \subseteq Message /\ IsFiniteSet(Visible(s, q))
               /\ Cardinality(Visible(s, q)) \in Nat
    <2>1. Visible(s, q) \subseteq Message
      BY DEF TypeOK, Visible
    <2> QED
      BY <2>1, MailAssumption, FS_Subset, FS_CardinalityType
  <1> QED
    BY <1>3, <1>4, <1>5, <1>6

\* The history of a walk has its type, whichever page is read.
LEMMA WalkedType ==
    ASSUME TypeOK, NEW r \in Request, token[r] # NoCookie, NEW rows \in SUBSET Message
    PROVE  Walked(r, rows) \in Walk
  <1>1. /\ walk[r] \in Walk
        /\ login[token[r]] \in Credential \cup {Nobody} /\ job[r] \in Job
    BY RequestType
  <1>2. job[r].q \in Query
    BY <1>1, MailAssumption DEF URL
  <1>3. PerPage(job[r]) \in Nat \ {0}
    BY <1>1, PerPageType
  <1>4. MailOf(login[token[r]]) \subseteq Message
    BY DEF MailOf, TypeOK
  <1>5. CASE walk[r] # NoWalk
    <2>1. Walked(r, rows) = [walk[r] EXCEPT !.page = @ + 1, !.seen = @ \cup rows]
      BY <1>5 DEF Walked
    <2>2. walk[r].page \in Nat /\ walk[r].seen \subseteq Message
      BY <1>1 DEF Walk
    <2>3. Walked(r, rows) =
            [page |-> walk[r].page + 1, size |-> walk[r].size, login |-> walk[r].login,
             q |-> walk[r].q, start |-> walk[r].start, seen |-> walk[r].seen \cup rows]
      BY <1>1, <2>1 DEF Walk
    <2> QED
      BY <1>1, <2>2, <2>3 DEF Walk
  <1>6. CASE walk[r] = NoWalk /\ PageNo(job[r]) = 1
    <2>1. Walked(r, rows) =
            [page |-> 1, size |-> PerPage(job[r]), login |-> login[token[r]], q |-> job[r].q,
             start |-> MailOf(login[token[r]]) \cap Search(job[r].q), seen |-> rows]
      BY <1>6 DEF Walked
    <2> QED
      BY <1>1, <1>2, <1>3, <1>4, <2>1 DEF Walk
  <1>7. CASE walk[r] = NoWalk /\ PageNo(job[r]) # 1
    <2>1. Walked(r, rows) = NoWalk
      BY <1>7 DEF Walked
    <2> QED
      BY <2>1, BlankType
  <1> QED
    BY <1>5, <1>6, <1>7

\* Going on and answering keep the types of the control state.
LEMMA ControlType ==
    ASSUME RequestsOK, NEW r \in Request,
           \/ \E there \in Handler : Continue(r, there)
           \/ \E code \in {"401", "404", "500", "200"} : Answer(r, code)
    PROVE  /\ pc' \in [Request -> PC]
           /\ status' \in [Request -> Status]
           /\ ctx' \in [Request -> Session]
  <1>1. ASSUME NEW there \in Handler, Continue(r, there)
        PROVE  pc' \in [Request -> PC] /\ status' = status /\ ctx' = ctx
    BY <1>1 DEF Continue, Goto, RequestsOK, PC
  <1>2. ASSUME NEW code \in {"401", "404", "500", "200"}, Answer(r, code)
        PROVE  /\ pc' \in [Request -> PC]
               /\ status' \in [Request -> Status]
               /\ ctx' \in [Request -> Session]
    <2>1. Guest \in Session /\ code \in Status /\ "idle" \in PC
      BY BlankType DEF Status, PC
    <2> QED
      BY <1>2, <2>1 DEF Answer, Goto, RequestsOK
  <1> QED
    BY <1>1, <1>2 DEF RequestsOK

\* Handlers fill in the answer with what the queries return.
LEMMA BodyType ==
    ASSUME TypeOK, NEW r \in Request, HandlerStep(r), token[r] # NoCookie
    PROVE  body' \in [Request -> Body] /\ walk' \in [Request -> Walk]
  <1>0. body \in [Request -> Body] /\ body[r] \in Body /\ walk \in [Request -> Walk]
    BY DEF TypeOK
  <1>1. CASE NotFound(r)
    BY <1>0, <1>1 DEF NotFound
  <1>2. CASE Count(r)
    <2>1. Cardinality(Visible(ctx[r], job[r].q)) \in Nat
      BY QueryType
    <2> QED
      BY <1>0, <1>2, <2>1 DEF Count, Body
  <1>3. CASE ReadPage(r)
    <2>1. PICK rows \in Pages(Visible(ctx[r], job[r].q), Offset(job[r]), PerPage(job[r])) :
            /\ body' = [body EXCEPT ![r].rows = rows]
            /\ walk' = [walk EXCEPT ![r] = Walked(r, rows)]
      BY <1>3 DEF ReadPage
    <2>2. Offset(job[r]) \in Nat /\ PerPage(job[r]) \in Nat
      <3>1. Offset(job[r]) \in Int /\ PerPage(job[r]) \in Nat
        BY RequestType, OffsetType, PerPageType
      <3> QED
        BY <1>3, <3>1 DEF ReadPage
    <2>3. rows \in SUBSET Message
      BY <2>2, QueryType, PageSize
    <2>4. Walked(r, rows) \in Walk
      BY <2>3, WalkedType
    <2>5. body' \in [Request -> Body]
      BY <1>0, <2>1, <2>3 DEF Body
    <2> QED
      BY <1>0, <2>1, <2>4, <2>5
  <1>4. CASE ReadMessage(r)
    <2>1. {job[r].id} \subseteq Message
      BY <1>4 DEF ReadMessage, Absent, TypeOK
    <2> QED
      BY <1>0, <1>4, <2>1 DEF ReadMessage, Body
  <1>5. CASE ReadRecipients(r)
    BY <1>0, <1>5, QueryType DEF ReadRecipients, Body
  <1>6. CASE ReadAttachments(r)
    BY <1>0, <1>6, QueryType DEF ReadAttachments, Body
  <1>7. CASE FindFile(r)
    <2>1. {job[r].id} \subseteq Message
      BY <1>7 DEF FindFile, Absent, TypeOK
    <2>2. PICK f \in SUBSET ((Nat \ {0}) \X Key) :
            body' = [body EXCEPT ![r].rows = {job[r].id}, ![r].files = f]
      BY <1>7, QueryType DEF FindFile
    <2>3. PICK b : b = [body[r] EXCEPT !.rows = {job[r].id}, !.files = f]
      OBVIOUS
    <2>4. b \in Body
      BY <1>0, <2>1, <2>3 DEF Body
    <2>5. body' = [body EXCEPT ![r] = b]
      BY <1>0, <2>2, <2>3
    <2> QED
      BY <1>0, <1>7, <2>4, <2>5 DEF FindFile
  <1>8. CASE ReadFile(r)
    BY <1>0, <1>8, BlankType DEF ReadFile
  <1>9. CASE QueryFails(r)
    BY <1>0, <1>9, BlankType DEF QueryFails
  <1> QED
    BY <1>1, <1>2, <1>3, <1>4, <1>5, <1>6, <1>7, <1>8, <1>9 DEF HandlerStep

\* Arrivals, RequireAuth and the handlers keep the types of a request.
LEMMA RequestsType ==
    ASSUME TypeOK, [Next]_vars, \A r \in Request : pc[r] \in Handler => token[r] # NoCookie
    PROVE  RequestsOK'
  <1>0. RequestsOK
    BY TypeParts
  <1>1. CASE UNCHANGED <<pc, request, ctx, body, status, walk>>
    BY <1>0, <1>1 DEF request, RequestsOK
  <1>2. CASE Restart
    BY <1>0, <1>2, BlankType DEF Restart, RequestsOK, request, PC, Status
  <1>3. ASSUME NEW r \in Request, Lookup(r)
        PROVE  RequestsOK'
    <2>1. CASE token[r] \in DOMAIN sessions
      <3>1. sessions[token[r]] \in Session
        BY <2>1 DEF TypeOK
      <3> QED
        BY <1>0, <1>3, <2>1, <3>1 DEF Lookup, Goto, RequestsOK, request, PC, Status
    <2>2. CASE token[r] \notin DOMAIN sessions
      <3>1. Answer(r, "401") /\ UNCHANGED <<request, body, walk>>
        BY <1>3, <2>2 DEF Lookup
      <3> QED
        BY <1>0, <3>1, ControlType DEF RequestsOK, request
    <2> QED
      BY <2>1, <2>2
  <1>4. ASSUME NEW r \in Request, CheckExpiry(r)
        PROVE  RequestsOK'
    <2>1. /\ Answer(r, "401") \/ Continue(r, "serve")
          /\ "serve" \in Handler
          /\ UNCHANGED <<request, body, walk>>
      BY <1>4 DEF CheckExpiry, Handler
    <2> QED
      BY <1>0, <2>1, ControlType DEF RequestsOK, request
  <1>5. ASSUME NEW r \in Request, NEW t \in Token \cup {NoCookie}, NEW j \in Job, Arrive(r, t, j)
        PROVE  RequestsOK'
    <2>1. Ended(t) \in BOOLEAN
      BY DEF Ended
    <2> QED
      BY <1>0, <1>5, <2>1, BlankType DEF Arrive, Goto, RequestsOK, PC, Status
  <1>6. ASSUME NEW r \in Request, HandlerStep(r)
        PROVE  RequestsOK'
    <2>1. body' \in [Request -> Body] /\ walk' \in [Request -> Walk]
      BY <1>6, BodyType, HandlerShape
    <2>2. UNCHANGED <<job, token, late>>
      BY <1>6, HandlerShape DEF Elsewhere, request
    <2>3. pc' \in [Request -> PC] /\ status' \in [Request -> Status] /\ ctx' \in [Request -> Session]
      BY <1>0, <1>6, HandlerShape, ControlType
    <2> QED
      BY <1>0, <2>1, <2>2, <2>3 DEF RequestsOK
  <1>7. ASSUME NEW m, NEW at, Deliver(m, at) PROVE RequestsOK'
    BY <1>1, <1>7 DEF Deliver
  <1>8. ASSUME NEW t, Logout(t) \/ (\E c \in Credential : Login(t, c)) PROVE RequestsOK'
    BY <1>1, <1>8 DEF Logout, Login
  <1>9. CASE Tick \/ UNCHANGED vars
    BY <1>1, <1>9 DEF Tick, vars, request
  <1> QED
    BY <1>2, <1>3, <1>4, <1>5, <1>6, <1>7, <1>8, <1>9 DEF Next, Step, HandlerStep

-----------------------------------------------------------------------------
(* The tables, the session map and the history. *)

\* Every step of the server lets the history grow.
LEMMA StepGrows ==
    ASSUME TypeOK, [Next]_vars
    PROVE  Grows
  <1>0. now \in Nat /\ \A t \in Token : until[t] \in Nat \cup {-1}
    BY DEF TypeOK
  <1>1. CASE UNCHANGED <<received, now, login, until>>
    BY <1>0, <1>1 DEF Grows
  <1>2. CASE Tick
    BY <1>0, <1>2 DEF Tick, Grows, tables, history
  <1>3. CASE Restart
    BY <1>0, <1>3 DEF Restart, Grows, tables
  <1>4. ASSUME NEW m \in Message, NEW at \in 0..MaxTime, Deliver(m, at) PROVE Grows
    BY <1>0, <1>4 DEF Deliver, Grows, history
  <1>5. ASSUME NEW t \in Token, Logout(t) PROVE Grows
    BY <1>0, <1>5 DEF Logout, Grows, tables, TypeOK
  <1>6. ASSUME NEW t \in Token, NEW c \in Credential, Login(t, c) PROVE Grows
    <2>1. login \in [Token -> Credential \cup {Nobody}] /\ until \in [Token -> Nat \cup {-1}]
      BY DEF TypeOK
    <2> QED
      BY <1>0, <1>6, <2>1 DEF Login, Grows, tables
  <1>7. ASSUME NEW r \in Request, Step(r) PROVE Grows
    BY <1>1, <1>7 DEF Step, Lookup, CheckExpiry, NotFound, Count, ReadPage, ReadMessage,
       ReadRecipients, ReadAttachments, FindFile, ReadFile, QueryFails, Elsewhere, tables, history
  <1>8. ASSUME NEW r \in Request, NEW t, NEW j, Arrive(r, t, j) PROVE Grows
    BY <1>1, <1>8 DEF Arrive, tables, history
  <1>9. CASE UNCHANGED vars
    BY <1>1, <1>9 DEF vars
  <1> QED
    BY <1>2, <1>3, <1>4, <1>5, <1>6, <1>7, <1>8, <1>9 DEF Next

\* persist adds the rows of one message together, and nobody else writes.
LEMMA TablesStep ==
    ASSUME TypeOK, TablesMatch, [Next]_vars
    PROVE  TablesMatch'
  <1>1. CASE UNCHANGED <<received, recipients, attachments>>
    BY <1>1 DEF TablesMatch
  <1>2. ASSUME NEW m \in Message, NEW at \in 0..MaxTime, Deliver(m, at) PROVE TablesMatch'
    <2>1. DOMAIN received' = DOMAIN received \cup {m}
      BY <1>2 DEF Deliver
    <2>2. recipients' =
         {row \in [message : Message, email : Address] :
            row.message \in DOMAIN received' /\ row.email \in Recipients(row.message)}
      <3>1. RecipientRows(m) = {row \in [message : Message, email : Address] :
                                  row.message = m /\ row.email \in Recipients(m)}
        BY MailType DEF RecipientRows
      <3> QED
        BY <1>2, <2>1, <3>1 DEF Deliver, TablesMatch
    <2>3. attachments' =
         {row \in [message : Message, pos : Nat \ {0}, key : Key] :
            /\ row.message \in DOMAIN received'
            /\ row.pos \in DOMAIN Attachments(row.message)
            /\ row.key = Attachments(row.message)[row.pos]}
      <3>1. AttachmentRows(m) = {row \in [message : Message, pos : Nat \ {0}, key : Key] :
                                  /\ row.message = m
                                  /\ row.pos \in DOMAIN Attachments(m)
                                  /\ row.key = Attachments(m)[row.pos]}
        BY MailType DEF AttachmentRows
      <3> QED
        BY <1>2, <2>1, <3>1 DEF Deliver, TablesMatch
    <2> QED
      BY <2>2, <2>3 DEF TablesMatch
  <1>3. CASE Tick \/ Restart \/ UNCHANGED vars
    BY <1>1, <1>3 DEF Tick, Restart, tables, vars
  <1>4. ASSUME NEW t, Logout(t) \/ (\E c \in Credential : Login(t, c)) PROVE TablesMatch'
    BY <1>1, <1>4 DEF Logout, Login, tables
  <1>5. ASSUME NEW r \in Request, Step(r) \/ (\E t, j : Arrive(r, t, j)) PROVE TablesMatch'
    BY <1>1, <1>5 DEF Arrive, Step, Lookup, CheckExpiry, NotFound, Count, ReadPage, ReadMessage,
       ReadRecipients, ReadAttachments, FindFile, ReadFile, QueryFails, Elsewhere, tables
  <1> QED
    BY <1>2, <1>3, <1>4, <1>5 DEF Next

\* Logins, logouts, expiry and restarts keep the session map in step with who
\* was given a token and for how long.
LEMMA SessionsStep ==
    ASSUME TypeOK, SessionsMatch, \A r \in Request : AdmittedAt(r), [Next]_vars
    PROVE  SessionsMatch'
  <1>0. /\ now \in Nat /\ TTL \in Nat
        /\ login \in [Token -> Credential \cup {Nobody}] /\ until \in [Token -> Nat \cup {-1}]
        /\ DOMAIN sessions \subseteq Token
    BY NumberAssumption DEF TypeOK
  <1>1. CASE UNCHANGED <<sessions, now, login, until>>
    BY <1>1 DEF SessionsMatch, Granted
  <1>e. ASSUME login' = login,
               \A t \in DOMAIN sessions' :
                 t \in DOMAIN sessions /\ sessions'[t] = sessions[t] /\ until'[t] = until[t],
               \A t \in Token \ DOMAIN sessions' : now' > until'[t]
        PROVE  SessionsMatch'
    <2>1. \A t \in Token : login'[t] # Nobody => login'[t] \in Credential /\ Accepted(login'[t])
      BY <1>e DEF SessionsMatch
    <2>2. \A t \in DOMAIN sessions' :
            /\ login'[t] # Nobody
            /\ Granted(sessions'[t], login'[t])
            /\ sessions'[t].expires = until'[t]
      BY <1>e DEF SessionsMatch
    <2> QED
      BY <1>e, <2>1, <2>2 DEF SessionsMatch, Granted, Accepted
  <1>2. CASE Tick
    <2>1. now' = now + 1 /\ UNCHANGED <<sessions, login, until>>
      BY <1>2 DEF Tick, history
    <2>2. \A t \in Token \ DOMAIN sessions' : now' > until'[t]
      BY <1>0, <2>1 DEF SessionsMatch
    <2> QED
      BY <1>e, <2>1, <2>2
  <1>3. CASE Restart
    <2>1. now' = now /\ login' = login /\ DOMAIN sessions' = {} /\ \A t \in Token : until'[t] = -1
      BY <1>3 DEF Restart
    <2> QED
      BY <1>0, <1>e, <2>1
  <1>4. ASSUME NEW t \in Token, Logout(t) PROVE SessionsMatch'
    <2>1. /\ DOMAIN sessions' = DOMAIN sessions \ {t} /\ now' = now /\ login' = login
          /\ until'[t] = -1 /\ \A x \in Token \ {t} : until'[x] = until[x]
          /\ \A x \in DOMAIN sessions \ {t} : sessions'[x] = sessions[x]
      BY <1>0, <1>4 DEF Logout, Delete
    <2>2. \A x \in Token \ DOMAIN sessions' : now' > until'[x]
      BY <1>0, <2>1 DEF SessionsMatch
    <2> QED
      BY <1>0, <1>e, <2>1, <2>2
  <1>5. ASSUME NEW t \in Token, NEW c \in Credential, Login(t, c) PROVE SessionsMatch'
    <2>1. /\ DOMAIN sessions' = DOMAIN sessions \cup {t} /\ now' = now
          /\ login'[t] = c /\ until'[t] = now + TTL
          /\ \A x \in Token \ {t} : until'[x] = until[x] /\ login'[x] = login[x]
          /\ sessions'[t] = SessionOf(c)
          /\ \A x \in DOMAIN sessions \ {t} : sessions'[x] = sessions[x]
          /\ Accepted(c)
      BY <1>0, <1>5 DEF Login, Create
    <2>2. Granted(SessionOf(c), c) /\ SessionOf(c).expires = now + TTL /\ c # Nobody
      BY SessionType, CredentialType
    <2>3. \A x \in Token : login'[x] # Nobody => login'[x] \in Credential /\ Accepted(login'[x])
      BY <2>1 DEF SessionsMatch
    <2>4. \A x \in DOMAIN sessions' :
            /\ login'[x] # Nobody
            /\ Granted(sessions'[x], login'[x])
            /\ sessions'[x].expires = until'[x]
      BY <1>0, <2>1, <2>2 DEF SessionsMatch
    <2>5. \A x \in Token \ DOMAIN sessions' : now' > until'[x]
      BY <2>1 DEF SessionsMatch
    <2> QED
      BY <2>3, <2>4, <2>5 DEF SessionsMatch, Granted, Accepted
  <1>6. ASSUME NEW r \in Request, CheckExpiry(r) PROVE SessionsMatch'
    <2>1. CASE now <= ctx[r].expires
      BY <1>0, <1>1, <1>6, <2>1, RequestType DEF CheckExpiry, history
    <2>2. CASE now > ctx[r].expires
      <3>1. token[r] \in Token /\ now > until[token[r]]
        BY <1>0, <1>6, <2>2, RequestType DEF CheckExpiry, AdmittedAt
      <3>2. /\ DOMAIN sessions' = DOMAIN sessions \ {token[r]}
            /\ now' = now /\ login' = login /\ until' = until
            /\ \A x \in DOMAIN sessions \ {token[r]} : sessions'[x] = sessions[x]
        BY <1>0, <1>6, <2>2, RequestType DEF CheckExpiry, Delete, history
      <3>3. \A x \in Token \ DOMAIN sessions' : now' > until'[x]
        BY <3>1, <3>2 DEF SessionsMatch
      <3> QED
        BY <1>e, <3>2, <3>3
    <2> QED
      BY <1>0, <2>1, <2>2, RequestType
  <1>7. ASSUME NEW r \in Request, Step(r) PROVE SessionsMatch'
    BY <1>1, <1>6, <1>7 DEF Step, Lookup, NotFound, Count, ReadPage, ReadMessage,
       ReadRecipients, ReadAttachments, FindFile, ReadFile, QueryFails, Elsewhere, history
  <1>8. ASSUME NEW r \in Request, NEW t, NEW j, Arrive(r, t, j) PROVE SessionsMatch'
    BY <1>1, <1>8 DEF Arrive, history
  <1>9. ASSUME NEW m, NEW at, Deliver(m, at) PROVE SessionsMatch'
    BY <1>1, <1>9 DEF Deliver, history
  <1>10. CASE UNCHANGED vars
    BY <1>1, <1>10 DEF vars
  <1> QED
    BY <1>2, <1>3, <1>4, <1>5, <1>7, <1>8, <1>9, <1>10 DEF Next

-----------------------------------------------------------------------------
(* The requests that a step moves. *)

\* The step leaves every request but r where it is.
Others(r) == \A o \in Request \ {r} : Same(o)

\* Handlers, RequireAuth and arrivals concern one request.
LEMMA OneRequest ==
    ASSUME TypeOK, NEW r \in Request,
           Step(r) \/ \E t \in Token \cup {NoCookie}, j \in Job : Arrive(r, t, j)
    PROVE  Others(r)
  <1>0. /\ pc \in [Request -> PC] /\ status \in [Request -> Status]
        /\ ctx \in [Request -> Session] /\ body \in [Request -> Body]
        /\ walk \in [Request -> Walk] /\ job \in [Request -> Job]
        /\ token \in [Request -> Token \cup {NoCookie}] /\ late \in [Request -> BOOLEAN]
    BY DEF TypeOK
  <1>1. CASE Lookup(r) \/ CheckExpiry(r)
    BY <1>0, <1>1 DEF Lookup, CheckExpiry, Answer, Continue, Goto, Others, Same, request
  <1>2. CASE \E t \in Token \cup {NoCookie}, j \in Job : Arrive(r, t, j)
    BY <1>0, <1>2 DEF Arrive, Goto, Others, Same
  <1>3. CASE HandlerStep(r)
    <2>1. UNCHANGED <<job, token, late>>
      BY <1>3, HandlerShape DEF Elsewhere, request
    <2>2. \A o \in Request \ {r} : pc'[o] = pc[o] /\ status'[o] = status[o] /\ ctx'[o] = ctx[o]
      BY <1>0, <1>3, HandlerShape DEF Continue, Answer, Goto
    <2>3. \A o \in Request \ {r} : body'[o] = body[o] /\ walk'[o] = walk[o]
      BY <1>0, <1>3 DEF HandlerStep, NotFound, Count, ReadPage, ReadMessage,
         ReadRecipients, ReadAttachments, FindFile, ReadFile, QueryFails
    <2> QED
      BY <2>1, <2>2, <2>3 DEF Others, Same
  <1> QED
    BY <1>1, <1>2, <1>3 DEF Step, HandlerStep

\* A request that comes has not been answered.
LEMMA ArriveStep ==
    ASSUME TypeOK, NEW r \in Request, NEW t \in Token \cup {NoCookie}, NEW j \in Job,
           Arrive(r, t, j)
    PROVE  AdmittedAt(r)' /\ BodyAt(r)'
  <1>1. /\ pc'[r] = "lookup" /\ job'[r] = j /\ token'[r] = t /\ status'[r] = "none"
        /\ late'[r] = Ended(t) /\ UNCHANGED <<now, login, until>>
        /\ t # NoCookie => login[t] # Nobody
    BY DEF Arrive, Goto, TypeOK, history
  <1>2. AdmittedAt(r)'
    BY <1>1 DEF AdmittedAt, Ended, Handler
  <1>3. BodyAt(r)'
    BY <1>1 DEF BodyAt
  <1> QED
    BY <1>2, <1>3

\* RequireAuth finds a session and copies it, or turns the request away.
LEMMA LookupStep ==
    ASSUME TypeOK, SessionsMatch, NEW r \in Request, AdmittedAt(r), Lookup(r)
    PROVE  AdmittedAt(r)' /\ BodyAt(r)'
  <1>0. /\ pc[r] = "lookup" /\ status[r] = "none"
        /\ token[r] \in Token \cup {NoCookie} /\ now \in Nat /\ NoCookie \notin Token
        /\ DOMAIN sessions \subseteq Token /\ \A t \in Token : until[t] \in Nat \cup {-1}
    BY RequestType, MailAssumption DEF Lookup, AdmittedAt, TypeOK, NoCookie
  <1>1. UNCHANGED <<job, token, late, now, login, until>>
    BY DEF Lookup, request, history
  <1>2. CASE token[r] \in DOMAIN sessions
    <2>1. pc'[r] = "expiry" /\ ctx'[r] = sessions[token[r]] /\ status'[r] = "none"
      BY <1>0, <1>2 DEF Lookup, Goto, TypeOK
    <2>2. /\ login[token[r]] # Nobody /\ Granted(sessions[token[r]], login[token[r]])
          /\ sessions[token[r]].expires = until[token[r]] /\ token[r] # NoCookie
      BY <1>0, <1>2 DEF SessionsMatch
    <2>3. late[r] => now > until[token[r]]
      BY <2>2 DEF AdmittedAt, Ended
    <2>4. until[token[r]] <= sessions[token[r]].expires
      BY <1>0, <1>2, <2>2
    <2>5. AdmittedAt(r)'
      BY <1>1, <2>1, <2>2, <2>3, <2>4 DEF AdmittedAt, Handler, Granted, Ended
    <2>6. BodyAt(r)'
      BY <2>1 DEF BodyAt
    <2> QED
      BY <2>5, <2>6
  <1>3. CASE token[r] \notin DOMAIN sessions
    <2>1. pc'[r] = "idle" /\ status'[r] = "401"
      BY <1>0, <1>3 DEF Lookup, Answer, Goto, TypeOK
    <2>2. Ended(token[r])
      BY <1>0, <1>3 DEF SessionsMatch, Ended
    <2>3. AdmittedAt(r)'
      BY <1>1, <2>1, <2>2 DEF AdmittedAt, Handler, Ended
    <2>4. BodyAt(r)'
      BY <2>1 DEF BodyAt
    <2> QED
      BY <2>3, <2>4
  <1> QED
    BY <1>2, <1>3

\* The copy's expiry decides: it ends when the session of the token does, or
\* later if that was logged out since.
LEMMA ExpiryStep ==
    ASSUME TypeOK, NEW r \in Request, AdmittedAt(r), CheckExpiry(r)
    PROVE  AdmittedAt(r)' /\ BodyAt(r)'
  <1>0. /\ pc[r] = "expiry" /\ status[r] = "none" /\ token[r] # NoCookie
        /\ token[r] \in Token /\ now \in Nat /\ ctx[r].expires \in Nat
        /\ until[token[r]] \in Nat \cup {-1}
        /\ until[token[r]] <= ctx[r].expires
    BY RequestType DEF CheckExpiry, AdmittedAt
  <1>1. UNCHANGED <<job, token, late, now, login, until>>
    BY DEF CheckExpiry, request, history
  <1>2. CASE now > ctx[r].expires
    <2>1. pc'[r] = "idle" /\ status'[r] = "401"
      BY <1>0, <1>2 DEF CheckExpiry, Answer, Goto, TypeOK
    <2>2. Ended(token[r])
      BY <1>0, <1>2 DEF Ended
    <2>3. AdmittedAt(r)'
      BY <1>0, <1>1, <2>1, <2>2 DEF AdmittedAt, Handler, Ended
    <2>4. BodyAt(r)'
      BY <2>1 DEF BodyAt
    <2> QED
      BY <2>3, <2>4
  <1>3. CASE now <= ctx[r].expires
    <2>1. pc'[r] = "serve" /\ status' = status /\ ctx' = ctx
      BY <1>0, <1>3 DEF CheckExpiry, Continue, Goto, TypeOK
    <2>2. ~late[r]
      BY <1>0, <1>3 DEF AdmittedAt
    <2>3. AdmittedAt(r)'
      BY <1>0, <1>1, <2>1, <2>2 DEF AdmittedAt, Handler, Granted
    <2>4. BodyAt(r)'
      BY <1>0, <2>1 DEF BodyAt
    <2> QED
      BY <2>3, <2>4
  <1> QED
    BY <1>0, <1>2, <1>3

\* A handler keeps the session that it was given, and answers in its name.
LEMMA HandlerAdmitted ==
    ASSUME TypeOK, NEW r \in Request, AdmittedAt(r), HandlerStep(r)
    PROVE  /\ AdmittedAt(r)'
           /\ token[r] \in Token /\ login[token[r]] # Nobody /\ ~late[r] /\ status[r] = "none"
           /\ Granted(ctx[r], login[token[r]])
  <1>0. /\ pc[r] \in Handler /\ status[r] = "none" /\ token[r] # NoCookie /\ token[r] \in Token
        /\ ~late[r] /\ login[token[r]] # Nobody /\ Granted(ctx[r], login[token[r]])
    BY RequestType, HandlerShape DEF AdmittedAt, Handler
  <1>1. UNCHANGED <<job, token, late, now, login, until>>
    BY HandlerShape DEF Elsewhere, request, history
  <1>2. \/ pc'[r] \in Handler /\ status' = status /\ ctx' = ctx
        \/ pc'[r] = "idle" /\ status'[r] \in {"200", "404", "500"}
    BY HandlerShape DEF Continue, Answer, Goto, TypeOK
  <1>3. AdmittedAt(r)'
    BY <1>0, <1>1, <1>2 DEF AdmittedAt, Handler, Granted
  <1> QED
    BY <1>0, <1>3

\* What the handlers of the mailbox API have in common when they read: they
\* see the mail of whoever logged in.
LEMMA HandlerReads ==
    ASSUME TypeOK, TablesMatch, SessionsMatch, NEW r \in Request, AdmittedAt(r), HandlerStep(r)
    PROVE  /\ login[token[r]] \in Credential
           /\ \A m \in DOMAIN received : MayRead(ctx[r], m) <=> m \in MailOf(login[token[r]])
           /\ \A q : Visible(ctx[r], q) = MailOf(login[token[r]]) \cap Search(q)
           /\ MailOf(login[token[r]]) \subseteq Message
           /\ UNCHANGED <<job, token, login>>
           /\ (MailOf(login[token[r]]))' = MailOf(login[token[r]])
  <1>1. token[r] \in Token /\ login[token[r]] # Nobody /\ Granted(ctx[r], login[token[r]])
    BY HandlerAdmitted
  <1>2. login[token[r]] \in Credential /\ Accepted(login[token[r]])
    BY <1>1 DEF SessionsMatch
  <1>3. UNCHANGED <<job, token, login, received>>
    BY HandlerShape DEF Elsewhere, request, history, tables
  <1>4. (MailOf(login[token[r]]))' = MailOf(login[token[r]])
    BY <1>3 DEF MailOf
  <1> QED
    BY <1>1, <1>2, <1>3, <1>4, QueryMatchesHeader, MailOfFinite

\* The rows of one message, as getMessage and the attachment route see them.
LEMMA RowsOfMessage ==
    ASSUME TypeOK, TablesMatch, NEW m \in DOMAIN received
    PROVE  /\ {row.email : row \in {x \in recipients : x.message = m}} = Recipients(m)
           /\ {<<row.pos, row.key>> : row \in {x \in attachments : x.message = m}} = Listed(m)
           /\ \A j : j.id = m /\ AttachmentAt(j) # {} /\ j.idx \in Int =>
                /\ j.idx + 1 \in DOMAIN Attachments(m)
                /\ {<<x.pos, x.key>> : x \in AttachmentAt(j)}
                     = {<<j.idx + 1, Attachments(m)[j.idx + 1]>>}
  <1>0. m \in Message
    BY DEF TypeOK
  <1>1. {row.email : row \in {x \in recipients : x.message = m}} = Recipients(m)
    <2>1. ASSUME NEW e \in Recipients(m) PROVE [message |-> m, email |-> e] \in recipients
      BY <1>0, <2>1, MailType DEF TablesMatch
    <2>2. ASSUME NEW row \in recipients, row.message = m PROVE row.email \in Recipients(m)
      BY <2>2 DEF TablesMatch
    <2>3. Recipients(m) \subseteq {row.email : row \in {x \in recipients : x.message = m}}
      <3>1. ASSUME NEW e \in Recipients(m)
            PROVE  \E row \in recipients : row.message = m /\ row.email = e
        <4>1. PICK row : row = [message |-> m, email |-> e]
          OBVIOUS
        <4>2. row \in recipients /\ row.message = m /\ row.email = e
          BY <2>1, <4>1
        <4> QED
          BY <4>2
      <3> QED
        BY <3>1
    <2> QED
      BY <2>2, <2>3
  <1>2. ASSUME NEW row \in attachments, row.message = m
        PROVE  row.pos \in DOMAIN Attachments(m) /\ row.key = Attachments(m)[row.pos]
    BY <1>2 DEF TablesMatch
  <1>3. {<<row.pos, row.key>> : row \in {x \in attachments : x.message = m}} = Listed(m)
    <2>1. ASSUME NEW i \in DOMAIN Attachments(m)
          PROVE  [message |-> m, pos |-> i, key |-> Attachments(m)[i]] \in attachments
      BY <1>0, <2>1, MailType DEF TablesMatch
    <2> QED
      BY <1>2, <2>1 DEF Listed
  <1>4. ASSUME NEW j, j.id = m, AttachmentAt(j) # {}, j.idx \in Int
        PROVE  /\ j.idx + 1 \in DOMAIN Attachments(m)
               /\ {<<x.pos, x.key>> : x \in AttachmentAt(j)}
                     = {<<j.idx + 1, Attachments(m)[j.idx + 1]>>}
    <2>1. PICK row \in AttachmentAt(j) : TRUE
      BY <1>4
    <2>2. \A x \in AttachmentAt(j) : x.pos = j.idx + 1 /\ x.key = Attachments(m)[j.idx + 1]
      BY <1>2, <1>4 DEF AttachmentAt
    <2>3. j.idx + 1 \in DOMAIN Attachments(m)
      BY <1>2, <1>4, <2>1 DEF AttachmentAt
    <2> QED
      BY <2>1, <2>2, <2>3
  <1> QED
    BY <1>1, <1>3, <1>4

\* The three queries of getMessage and the row of a file.
LEMMA MessageStep ==
    ASSUME TypeOK, TablesMatch, SessionsMatch, NEW r \in Request, AdmittedAt(r), BodyAt(r),
           HandlerStep(r), ~Count(r), ~ReadPage(r)
    PROVE  BodyAt(r)'
  <1>0. /\ body \in [Request -> Body] /\ body[r] \in Body
        /\ pc \in [Request -> PC] /\ status \in [Request -> Status]
        /\ DOMAIN received \subseteq Message
    BY DEF TypeOK
  <1>1. /\ status[r] = "none" /\ UNCHANGED <<job, token, login>>
        /\ (MailOf(login[token[r]]))' = MailOf(login[token[r]])
        /\ \A m \in DOMAIN received : MayRead(ctx[r], m) <=> m \in MailOf(login[token[r]])
        /\ MailOf(login[token[r]]) \subseteq DOMAIN received
    BY HandlerReads, HandlerAdmitted DEF MailOf
  <1>2. ASSUME pc'[r] = "idle", status'[r] # "200" PROVE BodyAt(r)'
    BY <1>2 DEF BodyAt
  <1>3. CASE NotFound(r) \/ QueryFails(r)
    <2>1. pc'[r] = "idle" /\ status'[r] # "200"
      BY <1>0, <1>3 DEF NotFound, QueryFails, Answer, Goto
    <2> QED
      BY <1>2, <2>1
  <1>4. CASE ReadMessage(r)
    <2>1. /\ pc'[r] = "recipients" /\ status'[r] = "none" /\ job[r].route = "message"
          /\ body'[r].rows = {job[r].id} /\ job[r].id \in MailOf(login[token[r]])
      BY <1>0, <1>1, <1>4 DEF ReadMessage, Continue, Goto, Absent, Body
    <2> QED
      BY <1>1, <2>1 DEF BodyAt
  <1>5. CASE ReadRecipients(r)
    <2>1. job[r].route = "message" /\ body[r].rows = {job[r].id}
          /\ job[r].id \in MailOf(login[token[r]]) /\ pc[r] = "recipients"
      BY <1>5 DEF ReadRecipients, BodyAt
    <2>2. /\ pc'[r] = "attachments" /\ status'[r] = "none"
          /\ body'[r].rows = body[r].rows
          /\ body'[r].emails = {row.email : row \in {x \in recipients : x.message = job[r].id}}
      BY <1>0, <1>1, <1>5 DEF ReadRecipients, Continue, Goto, Body
    <2>3. body'[r].emails = Recipients(job[r].id)
      BY <1>1, <2>1, <2>2, RowsOfMessage
    <2> QED
      BY <1>1, <2>1, <2>2, <2>3 DEF BodyAt, Recipients
  <1>6. CASE ReadAttachments(r)
    <2>1. /\ job[r].route = "message" /\ body[r].rows = {job[r].id}
          /\ job[r].id \in MailOf(login[token[r]]) /\ body[r].emails = Recipients(job[r].id)
      BY <1>6 DEF ReadAttachments, BodyAt
    <2>2. /\ pc'[r] = "idle" /\ status'[r] = "200"
          /\ body'[r].rows = body[r].rows /\ body'[r].emails = body[r].emails
          /\ body'[r].files =
               {<<row.pos, row.key>> : row \in {x \in attachments : x.message = job[r].id}}
      BY <1>0, <1>6 DEF ReadAttachments, Answer, Goto, Body
    <2>3. body'[r].files = Listed(job[r].id)
      BY <1>1, <2>1, <2>2, RowsOfMessage
    <2> QED
      BY <1>1, <2>1, <2>2, <2>3 DEF BodyAt, Recipients, Listed, Attachments
  <1>7. CASE FindFile(r)
    <2>0. job[r].idx \in Int
      BY RequestType, MailAssumption DEF URL
    <2>1. /\ pc'[r] = "read" /\ status'[r] = "none" /\ job[r].route \in {"raw", "attachment"}
          /\ job[r].id \in DOMAIN received /\ MayRead(ctx[r], job[r].id)
          /\ job[r].route = "attachment" => AttachmentAt(job[r]) # {}
      BY <1>0, <1>1, <1>7 DEF FindFile, Continue, Goto, Absent
    <2>2. /\ body'[r].rows = {job[r].id}
          /\ job[r].route = "attachment" =>
               body'[r].files = {<<x.pos, x.key>> : x \in AttachmentAt(job[r])}
      <3>1. PICK f : /\ body' = [body EXCEPT ![r].rows = {job[r].id}, ![r].files = f]
                     /\ job[r].route = "attachment" =>
                          f = {<<x.pos, x.key>> : x \in AttachmentAt(job[r])}
        BY <1>7 DEF FindFile
      <3>2. body'[r] = [body[r] EXCEPT !.rows = {job[r].id}, !.files = f]
        BY <1>0, <3>1
      <3> QED
        BY <1>0, <3>1, <3>2 DEF Body
    <2>3. job[r].route = "attachment" =>
            /\ job[r].idx + 1 \in DOMAIN Attachments(job[r].id)
            /\ body'[r].files = {<<job[r].idx + 1, Attachments(job[r].id)[job[r].idx + 1]>>}
      BY <2>0, <2>1, <2>2, RowsOfMessage
    <2> QED
      BY <1>1, <2>1, <2>2, <2>3 DEF BodyAt, Attachments
  <1>8. CASE ReadFile(r)
    <2>1. CASE body' = body /\ Answer(r, "200")
      <3>1. pc'[r] = "idle" /\ status'[r] = "200" /\ pc[r] = "read"
        BY <1>0, <1>8, <2>1 DEF ReadFile, Answer, Goto
      <3> QED
        BY <1>1, <2>1, <3>1 DEF BodyAt, Attachments
    <2>2. CASE Answer(r, "404")
      BY <1>0, <1>2, <2>2 DEF Answer, Goto
    <2> QED
      BY <1>8, <2>1, <2>2 DEF ReadFile
  <1> QED
    BY <1>3, <1>4, <1>5, <1>6, <1>7, <1>8 DEF HandlerStep

\* The list route: the count and the page, two queries with mails arriving in
\* between and an offset that may have wrapped around.
LEMMA ListStep ==
    ASSUME TypeOK, TablesMatch, SessionsMatch, NEW r \in Request, AdmittedAt(r), BodyAt(r),
           Count(r) \/ ReadPage(r)
    PROVE  BodyAt(r)'
  <1> DEFINE j == job[r]
             V == MailOf(login[token[r]]) \cap Search(job[r].q)
             n == (PageNo(job[r]) - 1) * PerPage(job[r])
  <1>h. HandlerStep(r)
    BY DEF HandlerStep
  <1>0. /\ body \in [Request -> Body] /\ body[r] \in Body /\ job[r] \in Job
        /\ pc \in [Request -> PC] /\ status \in [Request -> Status]
    BY DEF TypeOK
  <1>1. /\ status[r] = "none" /\ UNCHANGED <<job, token, login>>
        /\ (MailOf(login[token[r]]))' = MailOf(login[token[r]])
        /\ Visible(ctx[r], job[r].q) = V
    BY <1>h, HandlerReads, HandlerAdmitted
  <1>2. IsFiniteSet(V) /\ Cardinality(V) \in Nat /\ Cardinality(V) <= IntMax
    <2>1. V \in SUBSET V
      OBVIOUS
    <2> QED
      BY <2>1, MailOfFinite
  <1>3. V' = V
    BY <1>1 DEF Search
  <1> HIDE DEF V
  <1>4. CASE Count(r)
    <2>1. /\ pc'[r] = "page" /\ status'[r] = "none" /\ job[r].route = "list"
          /\ body'[r].total = Cardinality(V)
      BY <1>0, <1>1, <1>4 DEF Count, Continue, Goto, Body
    <2>2. body'[r].total <= Cardinality(V)
      BY <1>2, <2>1
    <2>3. V' = (MailOf(login[token[r]]) \cap Search(job[r].q))'
      BY DEF V
    <2> QED
      BY <1>1, <1>3, <2>1, <2>2, <2>3 DEF BodyAt
  <1>5. CASE ReadPage(r)
    <2>1. PICK rows \in Pages(V, Offset(job[r]), PerPage(job[r])) :
            body' = [body EXCEPT ![r].rows = rows]
      BY <1>1, <1>5 DEF ReadPage
    <2>2. /\ pc'[r] = "idle" /\ status'[r] = "200" /\ pc[r] = "page"
          /\ body'[r].rows = rows /\ body'[r].total = body[r].total
      BY <1>0, <1>5, <2>1 DEF ReadPage, Answer, Goto, Body
    <2>3. job[r].route = "list" /\ body[r].total <= Cardinality(V) /\ body[r].total \in Nat
      BY <1>0, <2>2 DEF BodyAt, V, Body
    <2>4. /\ n \in Nat /\ PerPage(job[r]) \in Nat /\ Offset(job[r]) \in Int
          /\ n <= IntMax => Offset(job[r]) = n
      BY <1>0, PerPageType, OffsetType
    <2>5. Offset(job[r]) \in Nat
      BY <1>5, <2>4 DEF ReadPage
    <2>6. /\ rows \subseteq V /\ Cardinality(rows) \in Nat
          /\ Cardinality(rows) < PerPage(job[r]) =>
               Offset(job[r]) + Cardinality(rows) >= Cardinality(V)
      BY <1>2, <2>4, <2>5, PageSize
    <2>7. IntMax \in Nat
      BY NumberAssumption
    <2> HIDE DEF n
    <2>8. Cardinality(rows) < PerPage(job[r]) => n + Cardinality(rows) >= body[r].total
      BY <1>2, <2>3, <2>4, <2>6, <2>7
    <2>9. /\ PerPage(job[r])' = PerPage(job[r]) /\ PageNo(job[r])' = PageNo(job[r])
          /\ (Search(job[r].q))' = Search(job[r].q)
      BY <1>1 DEF PerPage, PageNo, Search
    <2>10. rows \subseteq MailOf(login[token[r]]) /\ rows \subseteq Search(job[r].q)
      BY <2>6 DEF V
    <2> QED
      BY <1>1, <2>2, <2>3, <2>8, <2>9, <2>10 DEF BodyAt, n
  <1> QED
    BY <1>4, <1>5

\* A page that the reader turns to continues his walk; page 1 begins one.
LEMMA PageTurned ==
    ASSUME TypeOK, TablesMatch, SessionsMatch, NEW r \in Request, AdmittedAt(r), BodyAt(r),
           WalkAt(r), ReadPage(r)
    PROVE  WalkAt(r)'
  <1> DEFINE c == login[token[r]]
             V == MailOf(login[token[r]]) \cap Search(job[r].q)
             n == (PageNo(job[r]) - 1) * PerPage(job[r])
  <1>h. HandlerStep(r)
    BY DEF HandlerStep
  <1>0. /\ walk \in [Request -> Walk] /\ walk[r] \in Walk /\ job[r] \in Job
        /\ pc \in [Request -> PC] /\ UNCHANGED received
    BY DEF TypeOK, ReadPage, Elsewhere, tables
  <1>1. /\ UNCHANGED <<job, token, login>> /\ login[token[r]] \in Credential
        /\ (MailOf(login[token[r]]))' = MailOf(login[token[r]])
        /\ Visible(ctx[r], job[r].q) = V
    BY <1>h, HandlerReads
  <1>2. PICK rows \in Pages(V, Offset(job[r]), PerPage(job[r])) :
          walk' = [walk EXCEPT ![r] = Walked(r, rows)]
    BY <1>1 DEF ReadPage
  <1>3. pc'[r] = "idle" /\ pc[r] = "page"
    BY <1>0 DEF ReadPage, Answer, Goto
  <1>4. /\ n \in Nat /\ PerPage(job[r]) \in Nat \ {0} /\ Offset(job[r]) \in Nat
        /\ n <= IntMax => Offset(job[r]) = n
    <2>1. /\ n \in Nat /\ PerPage(job[r]) \in Nat \ {0} /\ Offset(job[r]) \in Int
          /\ n <= IntMax => Offset(job[r]) = n
      BY <1>0, PerPageType, OffsetType
    <2> QED
      BY <2>1 DEF ReadPage
  <1>5. /\ IsFiniteSet(V) /\ \A y \in V : received[y] \in Nat
        /\ \A x : Cardinality(Newer(V, x)) \in Nat /\ Cardinality(Newer(V, x)) <= IntMax
    <2>1. \A x : Newer(V, x) \in SUBSET V
      BY DEF Newer
    <2> QED
      BY <2>1, MailOfFinite
  <1>6. ASSUME NEW x \in V, x \notin rows, Untied(V, x), Cardinality(Newer(V, x)) >= n
        PROVE  Cardinality(Newer(V, x)) >= n + PerPage(job[r])
    <2> HIDE DEF n, V
    <2>0. IntMax \in Nat
      BY NumberAssumption
    <2>1. n <= IntMax
      BY <1>4, <1>5, <1>6, <2>0
    <2>2. Offset(job[r]) = n /\ PerPage(job[r]) \in Nat
      BY <1>4, <2>1
    <2> QED
      BY <1>4, <1>5, <1>6, <2>2, PagePassesNothing
  <1>7. V' = V /\ walk'[r] = Walked(r, rows)
    BY <1>0, <1>1, <1>2 DEF Search
  <1>8. CASE walk[r] # NoWalk
    <2>1. PICK w : w = walk[r]
      OBVIOUS
    <2>a. w \in Walk /\ w # NoWalk
      BY <1>0, <1>8, <2>1
    <2>b. w.page \in Nat /\ w.size \in Nat
      BY <2>a DEF Walk
    <2>c. /\ w.page > 0 /\ w.login = login[token[r]] /\ w.q = job[r].q
          /\ PageNo(job[r]) = w.page + 1 /\ PerPage(job[r]) = w.size
          /\ w.start \subseteq MailOf(w.login) \cap Search(w.q)
          /\ \A x \in w.start \ w.seen :
               Untied(MailOf(w.login) \cap Search(w.q), x) =>
                 Cardinality(Newer(MailOf(w.login) \cap Search(w.q), x)) >= w.page * w.size
      BY <1>3, <1>8, <2>1 DEF WalkAt
    <2>2. /\ w.page \in Nat \ {0} /\ w.size \in Nat /\ w.login = login[token[r]] /\ w.q = job[r].q
          /\ PageNo(job[r]) = w.page + 1 /\ PerPage(job[r]) = w.size /\ w.start \subseteq V
          /\ \A x \in w.start \ w.seen :
               Untied(V, x) => Cardinality(Newer(V, x)) >= w.page * w.size
      <3>1. V = MailOf(w.login) \cap Search(w.q)
        BY <2>c
      <3>2. w.page \in Nat \ {0}
        BY <2>b, <2>c
      <3> HIDE DEF V
      <3> QED
        BY <2>b, <2>c, <3>1, <3>2
    <2>3. n = w.page * w.size /\ (w.page + 1) * w.size = n + PerPage(job[r])
      <3>1. \A p \in Nat, k \in Nat : ((p + 1) - 1) * k = p * k /\ (p + 1) * k = p * k + k
        OBVIOUS
      <3>2. n = ((w.page + 1) - 1) * w.size
        BY <2>2
      <3> HIDE DEF n
      <3> QED
        BY <2>2, <3>1, <3>2
    <2>4. walk'[r] = [w EXCEPT !.page = @ + 1, !.seen = @ \cup rows]
      BY <1>7, <1>8, <2>1 DEF Walked
    <2>5. /\ walk'[r].page = w.page + 1 /\ walk'[r].seen = w.seen \cup rows
          /\ walk'[r].size = w.size /\ walk'[r].login = w.login /\ walk'[r].q = w.q
          /\ walk'[r].start = w.start
      BY <1>0, <2>1, <2>4 DEF Walk
    <2> HIDE DEF n
    <2>6. ASSUME NEW x \in w.start \ (w.seen \cup rows), Untied(V, x)
          PROVE  Cardinality(Newer(V, x)) >= (w.page + 1) * w.size
      BY <1>6, <2>2, <2>3, <2>6
    <2>7. V = (MailOf(walk[r].login) \cap Search(walk[r].q))'
      BY <1>0, <1>7, <2>2, <2>5 DEF MailOf, Search
    <2> HIDE DEF V
    <2>8. \A x : Untied(V, x)' = Untied(V, x) /\ Newer(V, x)' = Newer(V, x)
      BY <1>0, <1>7 DEF Untied, Newer
    <2>9. w.page + 1 > 0
      BY <2>2
    <2> QED
      BY <1>0, <1>1, <1>3, <2>2, <2>5, <2>6, <2>7, <2>9 DEF WalkAt, Untied, Newer
  <1>9. CASE walk[r] = NoWalk /\ PageNo(job[r]) = 1
    <2>1. walk'[r] = [page |-> 1, size |-> PerPage(job[r]), login |-> login[token[r]],
                      q |-> job[r].q, start |-> V, seen |-> rows]
      BY <1>7, <1>9 DEF Walked
    <2>2. n = 0 /\ 1 * PerPage(job[r]) = n + PerPage(job[r])
      BY <1>4, <1>9
    <2> HIDE DEF n
    <2>3. ASSUME NEW x \in V \ rows, Untied(V, x)
          PROVE  Cardinality(Newer(V, x)) >= 1 * PerPage(job[r])
      <3>0. Cardinality(Newer(V, x)) \in Nat
        BY <1>5
      <3>1. Cardinality(Newer(V, x)) >= n
        BY <2>2, <3>0
      <3> QED
        BY <1>6, <2>2, <2>3, <3>1
    <2>4. V = (MailOf(walk[r].login) \cap Search(walk[r].q))'
      BY <1>0, <1>1, <2>1 DEF MailOf, Search
    <2> HIDE DEF V
    <2> QED
      BY <1>0, <1>1, <1>3, <2>1, <2>3, <2>4 DEF WalkAt, Untied, Newer
  <1>10. CASE walk[r] = NoWalk /\ PageNo(job[r]) # 1
    <2>1. walk'[r] = NoWalk
      BY <1>7, <1>10 DEF Walked
    <2> QED
      BY <2>1 DEF WalkAt, NoWalk, Nobody
  <1> QED
    BY <1>8, <1>9, <1>10

\* The other steps of a request neither add to its walk nor store mail.
LEMMA WalkStays ==
    ASSUME NEW r \in Request, WalkAt(r), received' = received, walk'[r] = walk[r],
           pc'[r] # "idle" =>
             pc[r] # "idle" /\ job'[r] = job[r] /\ token'[r] = token[r] /\ login' = login
    PROVE  WalkAt(r)'
  <1>1. PICK w : w = walk[r]
    OBVIOUS
  <1>2. CASE w = NoWalk
    BY <1>1, <1>2 DEF WalkAt, NoWalk, Nobody
  <1>3. CASE w # NoWalk
    <2> DEFINE V == MailOf(w.login) \cap Search(w.q)
    <2>1. V' = V
      BY DEF MailOf, Search
    <2>2. /\ w.page > 0 /\ w.login \in Credential /\ w.start \subseteq V
          /\ pc[r] # "idle" =>
               /\ job[r].route = "list" /\ token[r] # NoCookie
               /\ PageNo(job[r]) = w.page + 1 /\ PerPage(job[r]) = w.size
               /\ job[r].q = w.q /\ login[token[r]] = w.login
          /\ \A x \in w.start \ w.seen :
               Untied(V, x) => Cardinality(Newer(V, x)) >= w.page * w.size
      BY <1>1, <1>3 DEF WalkAt
    <2>3. V' = (MailOf(walk[r].login) \cap Search(walk[r].q))'
      BY <1>1 DEF MailOf, Search
    <2>4. pc'[r] # "idle" => PageNo(job[r])' = PageNo(job[r]) /\ PerPage(job[r])' = PerPage(job[r])
      BY DEF PageNo, PerPage
    <2> HIDE DEF V
    <2> QED
      BY <1>1, <2>1, <2>2, <2>3, <2>4 DEF WalkAt, Untied, Newer
  <1> QED
    BY <1>2, <1>3

\* A request that asks for the next page of the walk continues it, any other
\* ends it.
LEMMA ArriveWalk ==
    ASSUME TypeOK, NEW r \in Request, WalkAt(r), NEW t \in Token \cup {NoCookie}, NEW j \in Job,
           Arrive(r, t, j)
    PROVE  WalkAt(r)'
  <1>1. /\ job'[r] = j /\ token'[r] = t /\ UNCHANGED <<received, login>>
        /\ walk'[r] = IF TurnsPage(r, t, j) THEN walk[r] ELSE NoWalk
    BY DEF Arrive, TypeOK, tables, history
  <1>2. CASE ~TurnsPage(r, t, j)
    BY <1>1, <1>2 DEF WalkAt, NoWalk, Nobody
  <1>3. CASE TurnsPage(r, t, j)
    <2>1. PICK w : w = walk[r]
      OBVIOUS
    <2> DEFINE V == MailOf(w.login) \cap Search(w.q)
    <2>2. /\ w # NoWalk /\ t # NoCookie /\ j.route = "list"
          /\ PageNo(j) = w.page + 1 /\ PerPage(j) = w.size /\ j.q = w.q /\ login[t] = w.login
      BY <1>3, <2>1 DEF TurnsPage
    <2>3. /\ w.page > 0 /\ w.login \in Credential /\ w.start \subseteq V
          /\ \A x \in w.start \ w.seen :
               Untied(V, x) => Cardinality(Newer(V, x)) >= w.page * w.size
      BY <2>1, <2>2 DEF WalkAt
    <2>4. V' = V
      BY <1>1 DEF MailOf, Search
    <2>5. V' = (MailOf(walk[r].login) \cap Search(walk[r].q))'
      BY <1>1, <1>3, <2>1 DEF MailOf, Search
    <2>6. PageNo(job[r])' = PageNo(j) /\ PerPage(job[r])' = PerPage(j)
      BY <1>1 DEF PageNo, PerPage
    <2> HIDE DEF V
    <2> QED
      BY <1>1, <1>3, <2>1, <2>2, <2>3, <2>4, <2>5, <2>6 DEF WalkAt, Untied, Newer
  <1> QED
    BY <1>2, <1>3

\* A restart cuts every request off, and no answer changes by it.
LEMMA RestartStep ==
    ASSUME TypeOK, TypeOK', Restart, NEW o \in Request, AdmittedAt(o), BodyAt(o), WalkAt(o)
    PROVE  AdmittedAt(o)' /\ BodyAt(o)' /\ WalkAt(o)'
  <1>1. /\ pc'[o] = "idle" /\ UNCHANGED <<job, token, late, body, walk, login, now, received>>
        /\ (status'[o] = status[o] /\ pc[o] = "idle") \/ status'[o] = "lost"
        /\ \A t \in Token : until'[t] = -1
    BY DEF Restart, request, tables
  <1>2. now \in Nat /\ token[o] \in Token \cup {NoCookie}
    BY RequestType
  <1>3. Ended(token[o])'
    BY <1>1, <1>2 DEF Ended
  <1>4. AdmittedAt(o)'
    BY <1>1, <1>3 DEF AdmittedAt, Handler
  <1>5. BodyAt(o)'
    BY <1>1 DEF BodyAt, MailOf, Search, PageNo, PerPage, Recipients, Attachments, Listed
  <1>6. WalkAt(o)'
    BY <1>1, WalkStays
  <1> QED
    BY <1>4, <1>5, <1>6

-----------------------------------------------------------------------------
(* The invariant. *)

\* A new server has no sessions and no requests, a new mailbox has no mail.
LEMMA InvInit == Init => Inv
  <1> SUFFICES ASSUME Init PROVE Inv
    OBVIOUS
  <1>1. TypeOK
    BY Picked, BlankType DEF Init, TypeOK, PC, Status
  <1>2. TablesMatch
    BY DEF Init, TablesMatch
  <1>3. SessionsMatch
    BY DEF Init, SessionsMatch
  <1>4. ASSUME NEW r \in Request PROVE AdmittedAt(r) /\ BodyAt(r) /\ WalkAt(r)
    BY DEF Init, AdmittedAt, BodyAt, WalkAt, Handler
  <1> QED
    BY <1>1, <1>2, <1>3, <1>4 DEF Inv

\* Every step of the server, the clock, the senders and the readers keeps it.
LEMMA InvStep == Inv /\ [Next]_vars => Inv'
  <1> SUFFICES ASSUME Inv, [Next]_vars PROVE Inv'
    OBVIOUS
  <1>0. /\ TypeOK /\ TablesMatch /\ SessionsMatch
        /\ \A r \in Request : AdmittedAt(r) /\ BodyAt(r) /\ WalkAt(r)
    BY DEF Inv
  <1>1. TypeOK'
    <2>1. \A r \in Request : pc[r] \in Handler => token[r] # NoCookie
      BY <1>0 DEF AdmittedAt
    <2> QED
      BY <1>0, <2>1, StoreType, RequestsType, TypeParts
  <1>2. TablesMatch' /\ SessionsMatch' /\ Grows
    BY <1>0, TablesStep, SessionsStep, StepGrows
  <1>3. ASSUME NEW o \in Request, Same(o) PROVE AdmittedAt(o)' /\ BodyAt(o)' /\ WalkAt(o)'
    BY <1>0, <1>1, <1>2, <1>3, AdmittedKept, BodyKept, WalkKept
  <1>4. ASSUME UNCHANGED <<pc, request, ctx, body, status, walk>> PROVE Inv'
    BY <1>1, <1>2, <1>3, <1>4 DEF request, Same, Inv
  <1>5. CASE Restart
    BY <1>0, <1>1, <1>2, <1>5, RestartStep DEF Inv
  <1>6. ASSUME NEW r \in Request, Others(r), AdmittedAt(r)' /\ BodyAt(r)' /\ WalkAt(r)'
        PROVE  Inv'
    BY <1>1, <1>2, <1>3, <1>6 DEF Others, Inv
  <1>7. ASSUME NEW r \in Request, NEW t \in Token \cup {NoCookie}, NEW j \in Job, Arrive(r, t, j)
        PROVE  Inv'
    BY <1>0, <1>6, <1>7, OneRequest, ArriveStep, ArriveWalk
  <1>8. ASSUME NEW r \in Request, Lookup(r) PROVE Inv'
    <2>1. /\ UNCHANGED <<received, walk, job, token, login>> /\ pc[r] # "idle"
      BY <1>8 DEF Lookup, tables, request, history
    <2>2. WalkAt(r)'
      BY <1>0, <2>1, WalkStays
    <2> QED
      BY <1>0, <1>6, <1>8, <2>2, OneRequest, LookupStep DEF Step
  <1>9. ASSUME NEW r \in Request, CheckExpiry(r) PROVE Inv'
    <2>1. /\ UNCHANGED <<received, walk, job, token, login>> /\ pc[r] # "idle"
      BY <1>9 DEF CheckExpiry, tables, request, history
    <2>2. WalkAt(r)'
      BY <1>0, <2>1, WalkStays
    <2> QED
      BY <1>0, <1>6, <1>9, <2>2, OneRequest, ExpiryStep DEF Step
  <1>10. ASSUME NEW r \in Request, HandlerStep(r) PROVE Inv'
    <2>1. Step(r)
      BY <1>10 DEF HandlerStep, Step
    <2>2. WalkAt(r)'
      <3>1. CASE ReadPage(r)
        BY <1>0, <3>1, PageTurned
      <3>2. CASE ~ReadPage(r)
        <4>1. /\ UNCHANGED <<received, walk, job, token, login>> /\ pc[r] # "idle"
          BY <1>10, <3>2, HandlerShape DEF Elsewhere, tables, request, history, Handler
        <4> QED
          BY <1>0, <4>1, WalkStays
      <3> QED
        BY <3>1, <3>2
    <2>3. BodyAt(r)'
      BY <1>0, <1>10, MessageStep, ListStep
    <2>4. AdmittedAt(r)'
      BY <1>0, <1>10, HandlerAdmitted
    <2> QED
      BY <1>0, <1>6, <2>1, <2>2, <2>3, <2>4, OneRequest
  <1>11. ASSUME NEW m, NEW at, Deliver(m, at) PROVE Inv'
    BY <1>4, <1>11 DEF Deliver
  <1>12. ASSUME NEW t, Logout(t) \/ (\E c \in Credential : Login(t, c)) PROVE Inv'
    BY <1>4, <1>12 DEF Logout, Login
  <1>13. CASE Tick \/ UNCHANGED vars
    BY <1>4, <1>13 DEF Tick, vars, request
  <1> QED
    BY <1>5, <1>7, <1>8, <1>9, <1>10, <1>11, <1>12, <1>13 DEF Next, Step, HandlerStep

\* The inductive invariant holds in every state of the server.
THEOREM Invariance == Spec => []Inv
  BY InvInit, InvStep, PTL DEF Spec

\* Sessions, requests and stored rows have their types, and addresses are in
\* canonical form wherever LoginHandler and persist store them.
THEOREM TypeCorrect == Spec => []TypeOK
  <1>1. Inv => TypeOK
    BY DEF Inv
  <1> QED
    BY <1>1, Invariance, PTL

\* RequireAuth turns a request away exactly when the session of its cookie was
\* logged out, had expired or died with the server, for any number of
\* requests, logins and logouts at once.
THEOREM SessionsHold == Spec => []RefusedExactlyWhenEnded
  <1>1. Inv => RefusedExactlyWhenEnded
    <2> SUFFICES ASSUME Inv, NEW r \in Request
                 PROVE  /\ late[r] => status[r] \in {"none", "lost", "401"}
                        /\ status[r] = "401" => Ended(token[r])
      BY DEF RefusedExactlyWhenEnded
    <2>1. AdmittedAt(r) /\ status[r] \in Status
      BY RequestType DEF Inv
    <2> QED
      BY <2>1 DEF AdmittedAt, Status
  <1> QED
    BY <1>1, Invariance, PTL

\* What the four routes of the mailbox API answer is mail of whoever logged in.
THEOREM MailIsOwn == Spec => []OnlyOwnMail
  <1>1. Inv => OnlyOwnMail
    BY DEF Inv, BodyAt, OnlyOwnMail
  <1> QED
    BY <1>1, Invariance, PTL

\* getMessage answers with a whole mail although it reads in three queries.
THEOREM MailIsWhole == Spec => []AnswerIsWhole
  <1>1. Inv => AnswerIsWhole
    BY DEF Inv, BodyAt, AnswerIsWhole, Listed
  <1> QED
    BY <1>1, Invariance, PTL

\* The total of ListMessages never promises a page after a short one, for every
\* size of the mailbox, of a page and of an int.
THEOREM TotalIsKept == Spec => []ShortPageIsLast
  <1>1. Inv => ShortPageIsLast
    BY DEF Inv, BodyAt, ShortPageIsLast
  <1> QED
    BY <1>1, Invariance, PTL

\* Turning the pages of ListMessages one by one misses no mail that was there
\* at the start and shares its second with no other.
THEOREM WalkIsComplete == Spec => []NothingSkipped
  <1>1. Inv => NothingSkipped
    <2> SUFFICES ASSUME Inv, NEW r \in Request,
                        NEW x \in walk[r].start \ walk[r].seen,
                        Untied(MailOf(walk[r].login) \cap Search(walk[r].q), x)
                 PROVE  Cardinality(Newer(MailOf(walk[r].login) \cap Search(walk[r].q), x))
                          >= walk[r].page * walk[r].size
      BY DEF NothingSkipped, Untied, Newer
    <2>1. WalkAt(r)
      BY DEF Inv
    <2>2. walk[r] # NoWalk
      BY DEF NoWalk
    <2> QED
      BY <2>1, <2>2 DEF WalkAt
  <1> QED
    BY <1>1, Invariance, PTL

-----------------------------------------------------------------------------
\* A mail that comes in is the step of Archive that adds it, and conversely:
\* the API is shown correct for every mail that Archive may add.
LEMMA DeliverIsAdd ==
    ASSUME NEW m \in Message, NEW at \in 0..now,
           received' = [x \in DOMAIN received \cup {m} |-> IF x = m THEN at ELSE received[x]],
           UNCHANGED <<sessions, now, pc, request, ctx, body, status, history, walk>>
    PROVE  Deliver(m, at) <=>
             Tables!Add(m, [emails |-> Recipients(m), files |-> Attachments(m)])
  <1>1. DOMAIN received' = DOMAIN received \cup {m}
    OBVIOUS
  <1>2. DOMAIN Attachments(m) = 1..Len(Attachments(m))
    BY MailType
  <1> QED  BY <1>1, <1>2 DEF Deliver, Tables!Add, RecipientRows, AttachmentRows

\* No handler of the API writes a row, and the mails that come in are those
\* that Ingest adds.
THEOREM MailboxIsArchive == Spec => ArchiveSpec
  <1>1. Init => Tables!Init
    BY DEF Init, Tables!Init
  <1>2. [Next]_vars => [Tables!Next]_(Tables!vars)
    <2> SUFFICES ASSUME [Next]_vars PROVE [Tables!Next]_(Tables!vars)
      OBVIOUS
    <2>1. CASE UNCHANGED tables
      BY <2>1 DEF tables, Tables!vars
    <2>2. ASSUME NEW m \in Message, NEW at \in 0..MaxTime, Deliver(m, at) PROVE Tables!Next
      <3>1. at \in 0..now /\ m \notin DOMAIN received /\ m \in DOMAIN received'
        BY <2>2 DEF Deliver
      <3>2. Tables!Add(m, [emails |-> Recipients(m), files |-> Attachments(m)])
        BY <2>2, <3>1, DeliverIsAdd DEF Deliver
      <3> QED  BY <3>1, <3>2 DEF Tables!Next
    <2>3. UNCHANGED tables \/ \E m \in Message, at \in 0..MaxTime : Deliver(m, at)
      BY DEF Next, vars, tables, Tick, Restart, Logout, Login, Arrive, Step, Lookup, CheckExpiry,
         NotFound, Count, ReadPage, ReadMessage, ReadRecipients, ReadAttachments, FindFile,
         ReadFile, QueryFails, Elsewhere
    <2> QED  BY <2>1, <2>2, <2>3
  <1> QED  BY <1>1, <1>2, PTL DEF Spec, ArchiveSpec, Tables!Spec
=============================================================================
