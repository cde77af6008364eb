------------------------------ MODULE Browser -------------------------------
(***************************************************************************)
(* The single-page application, static/js/app.js with api.js: what it      *)
(* shows while the user navigates, searches, turns pages and signs out,    *)
(* and while the answers of the server come back in any order.             *)
(*                                                                         *)
(* JavaScript runs one callback at a time: an action is what happens       *)
(* between two awaits.  The server is reduced to a session that is live or *)
(* not, and to mails that do not change.  The address is left out: the     *)
(* user may change its hash to any route at any time, and the code reads   *)
(* it only then.  A behaviour is the life of one page: a login that        *)
(* succeeds, or a reload, ends it and begins another one in Init.          *)
(***************************************************************************)
EXTENDS Integers, FiniteSets

CONSTANTS
    Message,       \* ids in the addresses the user can open
    Missing,       \* those the server answers with 404
    Query,         \* what the user types into the search field
    Empty,         \* the empty search
    Pages,         \* number of pages of results, for each query
    MaxRequests,   \* bound: requests the user causes
    NoTimer, NoMailbox

\* What the page can show besides a message, which stands for its own view.
Screen == {"login", "loading list", "list", "loading message", "not found", "error"}

ASSUME BrowserAssumption ==
    /\ Missing \subseteq Message /\ Message \cap Screen = {}
    /\ Empty \in Query
    /\ Pages \in [Query -> Nat]
    /\ MaxRequests \in Nat \ {0}
    /\ NoTimer \notin Query

VARIABLES
    view,          \* what the page shows
    mailbox,       \* state.mailbox: the page of the query it was fetched for
    currentPage, totalPages, currentQuery,
    timer,         \* state.searchDebounceTimer: the query it will search for
    token,         \* state.mailboxRequestToken
    logoutPending, logoutError,
    requests,      \* fetches that have not come back
    sent,          \* number of fetches so far
    session,       \* is the session in the cookie live on the server?
    epoch          \* history: token when the page last fell back to the login

mailboxState == <<mailbox, currentPage, totalPages, currentQuery, timer, token,
                  logoutPending, logoutError>>
vars == <<view, mailboxState, requests, sent, session, epoch>>

Route == {"list", "other"} \cup Message
View == Screen \cup Message

Listing == [page : Nat \ {0}, query : Query, token : Nat]
Answer == {"none", "ok", "missing", "unauthorized", "failed"}
ListRequest == [id : Nat, kind : {"list"}, answer : Answer, get : Listing]
MessageRequest == [id : Nat, kind : {"message", "raw"}, answer : Answer, get : Message]
LogoutRequest == [id : Nat, kind : {"logout"}, answer : Answer, get : {"session"}]
Request == ListRequest \cup MessageRequest \cup LogoutRequest

TypeOK ==
    /\ view \in View
    /\ mailbox \in Listing \cup {NoMailbox}
    /\ totalPages \in Nat /\ currentPage \in 1..totalPages
    /\ currentQuery \in Query
    /\ timer \in Query \cup {NoTimer}
    /\ token \in Nat /\ epoch \in Nat
    /\ logoutPending \in BOOLEAN /\ logoutError \in BOOLEAN
    /\ requests \subseteq Request
    /\ sent \in 0..MaxRequests
    /\ session \in BOOLEAN

Largest(a, b) == IF a > b THEN a ELSE b
Smallest(a, b) == IF a < b THEN a ELSE b

\* The renderers replace everything on the page.
RenderLogin == view' = "login"
RenderMessageList == view' = "list"
RenderMessageView(m) == view' = m
RenderMessageNotFound == view' = "not found"
RenderErrorState == view' = "error"

-----------------------------------------------------------------------------
\* fetch: one more request is under way.
Send(kind, get) ==
    /\ sent < MaxRequests
    /\ sent' = sent + 1
    /\ requests' = requests \cup {[id |-> sent, kind |-> kind, answer |-> "none", get |-> get]}

\* loadMailboxPage up to its await.
LoadMailboxPage(page, query) ==
    /\ token' = token + 1
    /\ Send("list", [page |-> Largest(1, page), query |-> query, token |-> token + 1])

ShowMailboxList ==
    /\ timer' = NoTimer
    /\ LoadMailboxPage(currentPage, currentQuery)
    /\ view' = "loading list"
    /\ UNCHANGED <<mailbox, currentPage, totalPages, currentQuery, logoutPending, logoutError>>

ShowMessageView(m) ==
    /\ Send("message", m)
    /\ view' = "loading message"
    /\ UNCHANGED mailboxState

HandleNavigation(route) ==
    \/ route = "list" /\ ShowMailboxList
    \/ route \in Message /\ ShowMessageView(route)
    \/ route = "other" /\ RenderMessageNotFound /\ UNCHANGED <<mailboxState, requests, sent>>

\* boot, at any address and with a session or without.
Init ==
    /\ session \in BOOLEAN /\ epoch = 0
    /\ mailbox = NoMailbox /\ currentPage = 1 /\ totalPages = 1 /\ currentQuery = Empty
    /\ timer = NoTimer /\ logoutPending = FALSE /\ logoutError = FALSE
    /\ \/ /\ view = "loading list" /\ token = 1 /\ sent = 1
          /\ requests = {[id |-> 0, kind |-> "list", answer |-> "none",
                          get |-> [page |-> 1, query |-> Empty, token |-> 1]]}
       \/ /\ view = "loading message" /\ token = 0 /\ sent = 1
          /\ \E m \in Message :
               requests = {[id |-> 0, kind |-> "message", answer |-> "none", get |-> m]}
       \/ /\ view = "not found" /\ token = 0 /\ sent = 0
          /\ requests = {}

\* Mutant: the requests under way are not overtaken.
RedirectToLoginMutant(times) ==
    /\ mailbox' = NoMailbox /\ currentPage' = 1 /\ totalPages' = 1 /\ currentQuery' = Empty
    /\ timer' = NoTimer /\ logoutPending' = FALSE /\ logoutError' = FALSE
    /\ token' = token /\ epoch' = token
    /\ RenderLogin

\* resetMailboxState, pushState and renderLogin; times is how often the code
\* calls it in one go.
RedirectToLogin(times) ==
    /\ mailbox' = NoMailbox /\ currentPage' = 1 /\ totalPages' = 1 /\ currentQuery' = Empty
    /\ timer' = NoTimer /\ logoutPending' = FALSE /\ logoutError' = FALSE
    /\ token' = token + times /\ epoch' = token + times
    /\ RenderLogin

-----------------------------------------------------------------------------
\* hashchange, after a link, a button or a step in the browser's history.
Navigate(route) ==
    /\ HandleNavigation(route)
    /\ UNCHANGED <<session, epoch>>

\* Mutant: no search is started for an empty field.
TypeMutant(query) ==
    /\ view = "list"
    /\ query # currentQuery
    /\ currentQuery' = query
    /\ timer' = IF query = Empty THEN NoTimer ELSE query
    /\ UNCHANGED <<view, mailbox, currentPage, totalPages, token, logoutPending,
                   logoutError, requests, sent, session, epoch>>

\* Input into the search field.
Type(query) ==
    /\ view = "list"
    /\ query # currentQuery
    /\ currentQuery' = query
    /\ timer' = query
    /\ UNCHANGED <<view, mailbox, currentPage, totalPages, token, logoutPending,
                   logoutError, requests, sent, session, epoch>>

TimerFires ==
    /\ timer # NoTimer
    /\ timer' = NoTimer
    /\ LoadMailboxPage(1, timer)
    /\ UNCHANGED <<view, mailbox, currentPage, totalPages, currentQuery,
                   logoutPending, logoutError, session, epoch>>

ClearSearch ==
    /\ view = "list"
    /\ currentQuery # Empty
    /\ currentQuery' = Empty
    /\ timer' = NoTimer
    /\ LoadMailboxPage(1, Empty)
    /\ UNCHANGED <<view, mailbox, currentPage, totalPages, logoutPending,
                   logoutError, session, epoch>>

\* The buttons Previous and Next.
TurnPage(page) ==
    /\ view = "list"
    /\ page \in {currentPage - 1, currentPage + 1} \cap 1..totalPages
    /\ LoadMailboxPage(page, currentQuery)
    /\ UNCHANGED <<view, mailbox, currentPage, totalPages, currentQuery, timer,
                   logoutPending, logoutError, session, epoch>>

\* handleMailboxLogout up to its await.
Logout ==
    /\ view = "list"
    /\ ~logoutPending
    /\ logoutPending' = TRUE /\ logoutError' = FALSE
    /\ RenderMessageList
    /\ Send("logout", "session")
    /\ UNCHANGED <<mailbox, currentPage, totalPages, currentQuery, timer,
                   token, session, epoch>>

-----------------------------------------------------------------------------
\* The server answers, or the network fails before or after it has.  Logout
\* needs no session and deletes the one it is given.
Serve(r) ==
    /\ r.answer = "none"
    /\ \E answer \in Answer \ {"none"} :
         /\ answer = "ok" => r.kind = "logout" \/ (session /\ r.get \notin Missing)
         /\ answer = "missing" =>
               session /\ (r.kind = "raw" \/ (r.kind = "message" /\ r.get \in Missing))
         /\ answer = "unauthorized" => r.kind # "logout" /\ ~session
         /\ requests' = (requests \ {r}) \cup {[r EXCEPT !.answer = answer]}
         /\ \/ r.kind = "logout" /\ session' = FALSE
            \/ (r.kind = "logout" => answer = "failed") /\ UNCHANGED session
    /\ UNCHANGED <<view, mailboxState, sent, epoch>>

\* RequireAuth finds the session expired.
Expire ==
    /\ session
    /\ session' = FALSE
    /\ UNCHANGED <<view, mailboxState, requests, sent, epoch>>

Done(r) == requests' = requests \ {r}

\* 401: api.js and apiFetch fall back to the login before anything else; the
\* handler of a message does so once more.
Unauthorized(r) ==
    /\ r.answer = "unauthorized"
    /\ RedirectToLogin(IF r.kind = "message" THEN 2 ELSE 1)
    /\ Done(r)
    /\ UNCHANGED <<sent, session>>

\* Mutant: the page is taken from the answer as it stands.
ShowListMutant(listing) ==
    /\ mailbox' = listing
    /\ totalPages' = Largest(1, Pages[listing.query])
    /\ currentPage' = listing.page
    /\ currentQuery' = listing.query
    /\ RenderMessageList
    /\ UNCHANGED <<timer, token, logoutPending, logoutError>>

\* syncMailboxState and renderMessageList.
ShowList(listing) ==
    /\ mailbox' = listing
    /\ totalPages' = Largest(1, Pages[listing.query])
    /\ currentPage' = Smallest(listing.page, Largest(1, Pages[listing.query]))
    /\ currentQuery' = listing.query
    /\ RenderMessageList
    /\ UNCHANGED <<timer, token, logoutPending, logoutError>>

\* Mutants: the token is not compared; an error is dropped.
ListArrivesAnyway(r) ==
    /\ r.kind = "list" /\ r.answer \in {"ok", "failed"}
    /\ \/ r.answer = "ok" /\ ShowList(r.get)
       \/ r.answer = "failed" /\ RenderErrorState /\ UNCHANGED mailboxState
    /\ Done(r)
    /\ UNCHANGED <<sent, session, epoch>>
ListArrivesSilently(r) ==
    /\ r.kind = "list" /\ r.answer \in {"ok", "failed"}
    /\ \/ r.get.token = token /\ r.answer = "ok" /\ ShowList(r.get)
       \/ (r.get.token # token \/ r.answer = "failed") /\ UNCHANGED <<view, mailboxState>>
    /\ Done(r)
    /\ UNCHANGED <<sent, session, epoch>>

\* loadMailboxPage after its await: a request that another one has overtaken
\* changes nothing.
ListArrives(r) ==
    /\ r.kind = "list" /\ r.answer \in {"ok", "failed"}
    /\ \/ r.get.token # token /\ UNCHANGED <<view, mailboxState>>
       \/ r.get.token = token /\ r.answer = "ok" /\ ShowList(r.get)
       \/ r.get.token = token /\ r.answer = "failed" /\ RenderErrorState /\ UNCHANGED mailboxState
    /\ Done(r)
    /\ UNCHANGED <<sent, session, epoch>>

\* showMessageView after its await; the tab with the raw source is fetched next.
MessageArrives(r) ==
    /\ r.kind = "message" /\ r.answer \in {"ok", "missing", "failed"}
    /\ \/ /\ r.answer = "ok" /\ RenderMessageView(r.get)
          /\ requests' = (requests \ {r}) \cup {[r EXCEPT !.kind = "raw", !.answer = "none"]}
       \/ r.answer = "missing" /\ RenderMessageNotFound /\ Done(r)
       \/ r.answer = "failed" /\ RenderErrorState /\ Done(r)
    /\ UNCHANGED <<mailboxState, sent, session, epoch>>

\* The raw source goes into a part of the page that may no longer be shown.
RawArrives(r) ==
    /\ r.kind = "raw" /\ r.answer \in {"ok", "missing", "failed"}
    /\ Done(r)
    /\ UNCHANGED <<view, mailboxState, sent, session, epoch>>

\* Mutant: the flag stays when the logout fails.
LogoutArrivesMutant(r) ==
    /\ r.kind = "logout" /\ r.answer \in {"ok", "failed"}
    /\ \/ r.answer = "ok" /\ RedirectToLogin(1)
       \/ /\ r.answer = "failed"
          /\ logoutError' = TRUE
          /\ RenderMessageList
          /\ UNCHANGED <<mailbox, currentPage, totalPages, currentQuery, timer, token,
                         logoutPending, epoch>>
    /\ Done(r)
    /\ UNCHANGED <<sent, session>>

\* handleMailboxLogout after its await.
LogoutArrives(r) ==
    /\ r.kind = "logout" /\ r.answer \in {"ok", "failed"}
    /\ \/ r.answer = "ok" /\ RedirectToLogin(1)
       \/ /\ r.answer = "failed"
          /\ logoutPending' = FALSE /\ logoutError' = TRUE
          /\ RenderMessageList
          /\ UNCHANGED <<mailbox, currentPage, totalPages, currentQuery, timer, token,
                         epoch>>
    /\ Done(r)
    /\ UNCHANGED <<sent, session>>

Arrives(r) ==
    Unauthorized(r) \/ ListArrives(r) \/ MessageArrives(r) \/ RawArrives(r) \/ LogoutArrives(r)

-----------------------------------------------------------------------------
Next ==
    \/ \E route \in Route : Navigate(route)
    \/ Expire
    \/ \E query \in Query : Type(query)
    \/ TimerFires \/ ClearSearch \/ Logout
    \/ \E page \in 1..totalPages : TurnPage(page)
    \/ \E r \in requests : Serve(r) \/ Arrives(r)

\* A fetch comes back with an answer or an error, and its callback runs.
Fairness ==
    \A id \in 0..(MaxRequests - 1) :
        WF_vars(\E r \in requests : r.id = id /\ (Serve(r) \/ Arrives(r)))

Spec == Init /\ [][Next]_vars
FairSpec == Spec /\ Fairness

-----------------------------------------------------------------------------
\* mailboxRequestToken: the answer to an earlier request never replaces the
\* answer to a later one, in whatever order they come back.
LatestListWins ==
    [][mailbox # NoMailbox /\ mailbox' # NoMailbox /\ mailbox' # mailbox
         => mailbox'.token > mailbox.token]_vars

\* resetMailboxState: once the page has fallen back to the login, no list that
\* was asked for before is kept or comes back.
SignOutForgets == mailbox # NoMailbox => mailbox.token > epoch

\* Once the timer has fired and the latest request is answered, the list is the
\* result of the query in the search field, although both an answer and the
\* user's typing set currentQuery.
ListMatchesQuery ==
    mailbox # NoMailbox /\ mailbox.token = token /\ timer = NoTimer
        => mailbox.query = currentQuery

\* A page that says it is loading is replaced by something else, although
\* overtaken answers are dropped.
LoadingEnds ==
    /\ view = "loading list" ~> view # "loading list"
    /\ view = "loading message" ~> view # "loading message"

\* "Switching mailbox" does not keep its button disabled for ever.
LogoutSettles == logoutPending ~> ~logoutPending
=============================================================================
