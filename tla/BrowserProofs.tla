---------------------------- MODULE BrowserProofs ---------------------------
(***************************************************************************)
(* The request token of the single-page application does what it is for,   *)
(* for any number of requests, messages and queries.                       *)
(***************************************************************************)
EXTENDS Browser, TLAPS

\* The list that is kept was asked for after the last fall back to the login.
Ordered ==
    /\ epoch <= token
    /\ mailbox # NoMailbox => epoch < mailbox.token /\ mailbox.token <= token

\* What is under way bears neither the token of the list that is kept, nor the
\* one that the fall back to the login has used up.
Fresh ==
    \A r \in requests : r.kind = "list" =>
        /\ r.get.token <= token
        /\ r.get.token # epoch
        /\ mailbox # NoMailbox => r.get.token # mailbox.token

\* No two requests for a list bear the same token.
Distinct ==
    \A r, s \in requests :
        r.kind = "list" /\ s.kind = "list" /\ r.get.token = s.get.token => r = s

IInv == TypeOK /\ Ordered /\ Fresh /\ Distinct /\ ListMatchesQuery

-----------------------------------------------------------------------------
\* What the kind of a request says of it.
LEMMA RequestKinds ==
    ASSUME NEW r \in Request
    PROVE  /\ r.id \in Nat /\ r.answer \in Answer
           /\ r.kind \in {"list", "message", "raw", "logout"}
           /\ r.kind = "list" => r.get \in Listing
           /\ r.kind \in {"message", "raw"} => r.get \in Message
  BY DEF Request, ListRequest, MessageRequest, LogoutRequest

\* An answer leaves a request what it is.
LEMMA AnsweredRequest ==
    ASSUME NEW r \in Request, NEW answer \in Answer
    PROVE  LET q == [r EXCEPT !.answer = answer]
           IN  q \in Request /\ q.kind = r.kind /\ q.get = r.get
  <1>1. CASE r \in ListRequest
    BY <1>1 DEF Request, ListRequest
  <1>2. CASE r \in MessageRequest
    BY <1>2 DEF Request, MessageRequest
  <1>3. CASE r \in LogoutRequest
    BY <1>3 DEF Request, LogoutRequest
  <1> QED BY <1>1, <1>2, <1>3 DEF Request

\* A message that has arrived is followed by a request for its raw source.
LEMMA RawRequest ==
    ASSUME NEW r \in Request, r.kind = "message"
    PROVE  LET q == [r EXCEPT !.kind = "raw", !.answer = "none"]
           IN  q \in Request /\ q.kind = "raw"
  <1>1. r \in MessageRequest
    BY DEF Request, ListRequest, MessageRequest, LogoutRequest
  <1> QED BY <1>1 DEF Request, MessageRequest, Answer

\* A request for a list takes a token that nobody has.
LEMMA LoadKeepsTokens ==
    ASSUME IInv, NEW page \in Nat, NEW query \in Query, LoadMailboxPage(page, query),
           mailbox' = mailbox, epoch' = epoch
    PROVE  /\ requests' \subseteq Request /\ sent' \in 0..MaxRequests /\ token' \in Nat
           /\ Ordered' /\ Fresh' /\ Distinct'
           /\ mailbox # NoMailbox => mailbox.token # token'
  <1> DEFINE listing == [page |-> Largest(1, page), query |-> query, token |-> token + 1]
             new == [id |-> sent, kind |-> "list", answer |-> "none", get |-> listing]
  <1>1. token \in Nat /\ epoch \in Nat /\ sent \in Nat /\ MaxRequests \in Nat
    BY BrowserAssumption DEF IInv, TypeOK
  <1>2. /\ token' = token + 1 /\ sent' = sent + 1 /\ sent < MaxRequests
        /\ requests' = requests \cup {new}
    BY DEF LoadMailboxPage, Send
  <1>3. listing \in Listing
    BY <1>1 DEF Listing, Largest
  <1>4. new \in Request /\ new.kind = "list" /\ new.get.token = token + 1
    BY <1>1, <1>3 DEF Request, ListRequest, Answer
  <1>5. mailbox # NoMailbox => mailbox.token \in Nat
    BY DEF IInv, TypeOK, Listing
  <1>6. \A r \in requests : r.kind = "list" => r.get.token \in Nat /\ r.get.token <= token
    BY RequestKinds DEF IInv, TypeOK, Fresh, Listing
  <1> HIDE DEF new, listing
  <1>7. requests' \subseteq Request /\ sent' \in 0..MaxRequests /\ token' \in Nat
    BY <1>1, <1>2, <1>4 DEF IInv, TypeOK
  <1>8. Ordered'
    BY <1>1, <1>2, <1>5 DEF IInv, Ordered
  <1>9. Fresh'
    BY <1>1, <1>2, <1>4, <1>5, <1>6 DEF IInv, Ordered, Fresh
  <1>10. Distinct'
    BY <1>1, <1>2, <1>4, <1>6 DEF IInv, Distinct
  <1>11. mailbox # NoMailbox => mailbox.token # token'
    BY <1>1, <1>2, <1>5 DEF IInv, Ordered
  <1> QED BY <1>7, <1>8, <1>9, <1>10, <1>11

\* The fall back to the login overtakes every request.
LEMMA LoginKeepsInvariant ==
    ASSUME IInv, NEW times \in {1, 2}, RedirectToLogin(times),
           NEW r \in requests, Done(r), UNCHANGED sent, session' \in BOOLEAN
    PROVE  IInv'
  <1>1. token \in Nat /\ epoch \in Nat /\ requests \subseteq Request
    BY DEF IInv, TypeOK
  <1>2. /\ token' = token + times /\ epoch' = token + times /\ mailbox' = NoMailbox
        /\ requests' \subseteq requests
    BY DEF RedirectToLogin, Done
  <1>3. TypeOK'
    <2>1. /\ (view \in View)' /\ (mailbox \in Listing \cup {NoMailbox})'
          /\ (currentQuery \in Query)' /\ (timer \in Query \cup {NoTimer})'
      BY BrowserAssumption DEF RedirectToLogin, RenderLogin, View, Screen
    <2>2. /\ (logoutPending \in BOOLEAN)' /\ (logoutError \in BOOLEAN)'
          /\ (session \in BOOLEAN)'
      BY DEF RedirectToLogin
    <2>3. /\ (totalPages \in Nat)' /\ (currentPage \in 1..totalPages)'
          /\ (token \in Nat)' /\ (epoch \in Nat)'
      BY <1>1, <1>2 DEF RedirectToLogin
    <2>4. (requests \subseteq Request)' /\ (sent \in 0..MaxRequests)'
      BY <1>1, <1>2 DEF IInv, TypeOK
    <2> QED BY <2>1, <2>2, <2>3, <2>4 DEF TypeOK
  <1>4. Ordered' /\ ListMatchesQuery'
    BY <1>1, <1>2 DEF Ordered, ListMatchesQuery
  <1>5. \A q \in requests : q.kind = "list" => q.get.token \in Nat /\ q.get.token <= token
    BY RequestKinds DEF IInv, TypeOK, Fresh, Listing
  <1>6. Fresh'
    BY <1>1, <1>2, <1>5 DEF Fresh
  <1>7. Distinct'
    BY <1>2 DEF IInv, Distinct
  <1> QED BY <1>3, <1>4, <1>6, <1>7 DEF IInv

\* Requests that come back, or that were never for a list, disturb no token.
LEMMA OthersKeepTokens ==
    ASSUME IInv, UNCHANGED <<token, epoch, mailbox>>,
           \A r \in requests' : r \in requests \/ r.kind # "list"
    PROVE  Ordered' /\ Fresh' /\ Distinct'
  BY DEF IInv, Ordered, Fresh, Distinct

-----------------------------------------------------------------------------
\* Every action keeps the invariant.
LEMMA InitInvariant == Init => IInv
  <1> SUFFICES ASSUME Init PROVE IInv
    OBVIOUS
  <1> USE BrowserAssumption
  <1> DEFINE first == [page |-> 1, query |-> Empty, token |-> 1]
             load == [id |-> 0, kind |-> "list", answer |-> "none", get |-> first]
             open(m) == [id |-> 0, kind |-> "message", answer |-> "none", get |-> m]
  <1>1. first \in Listing /\ load \in Request
    BY DEF Listing, Request, ListRequest, Answer
  <1>2. \A m \in Message : open(m) \in Request
    BY DEF Request, MessageRequest, Answer
  <1>3. /\ view \in View /\ token \in {0, 1} /\ sent \in {0, 1}
        /\ \/ requests = {load} /\ token = 1
           \/ \E m \in Message : requests = {open(m)}
           \/ requests = {}
    BY DEF Init, View, Screen
  <1>4. mailbox = NoMailbox /\ epoch = 0
    BY DEF Init
  <1>5. TypeOK
    <2>1. requests \subseteq Request
      BY <1>1, <1>2, <1>3
    <2>2. logoutPending \in BOOLEAN /\ logoutError \in BOOLEAN /\ session \in BOOLEAN
      BY DEF Init
    <2>3. /\ totalPages \in Nat /\ currentPage \in 1..totalPages
          /\ token \in Nat /\ epoch \in Nat /\ sent \in 0..MaxRequests
      <3>1. totalPages = 1 /\ currentPage = 1 /\ MaxRequests \in Nat \ {0}
        BY DEF Init
      <3> QED BY <1>3, <1>4, <3>1
    <2>4. /\ mailbox \in Listing \cup {NoMailbox} /\ currentQuery \in Query
          /\ timer \in Query \cup {NoTimer}
      BY DEF Init
    <2> QED BY <1>3, <2>1, <2>2, <2>3, <2>4 DEF TypeOK
  <1>6. Ordered /\ ListMatchesQuery
    BY <1>3, <1>4 DEF Ordered, ListMatchesQuery
  <1>7. Fresh /\ Distinct
    BY <1>3, <1>4 DEF Fresh, Distinct
  <1> QED BY <1>5, <1>6, <1>7 DEF IInv

LEMMA NextInvariant == IInv /\ [Next]_vars => IInv'
  <1> SUFFICES ASSUME IInv, [Next]_vars PROVE IInv'
    OBVIOUS
  <1>0. /\ token \in Nat /\ epoch \in Nat /\ currentPage \in Nat /\ totalPages \in Nat
        /\ sent \in Nat /\ MaxRequests \in Nat /\ requests \subseteq Request
        /\ mailbox # NoMailbox => mailbox \in Listing /\ mailbox.token \in Nat
    BY BrowserAssumption DEF IInv, TypeOK, Listing
  <1>1. ASSUME NEW route \in Route, Navigate(route) PROVE IInv'
    <2>1. CASE ShowMailboxList
      <3>1. LoadMailboxPage(currentPage, currentQuery)
        BY <2>1 DEF ShowMailboxList
      <3>2. UNCHANGED <<mailbox, currentPage, totalPages, currentQuery, logoutPending,
                        logoutError, session, epoch>>
        BY <1>1, <2>1 DEF ShowMailboxList, Navigate
      <3>3. view' = "loading list" /\ timer' = NoTimer
        BY <2>1 DEF ShowMailboxList
      <3>4. /\ requests' \subseteq Request /\ sent' \in 0..MaxRequests /\ token' \in Nat
            /\ Ordered' /\ Fresh' /\ Distinct'
            /\ mailbox # NoMailbox => mailbox.token # token'
        BY <1>0, <3>1, <3>2, LoadKeepsTokens DEF IInv, TypeOK
      <3>5. TypeOK'
        BY <3>2, <3>3, <3>4 DEF IInv, TypeOK, View, Screen
      <3>6. ListMatchesQuery'
        BY <3>2, <3>4 DEF ListMatchesQuery
      <3> QED BY <3>4, <3>5, <3>6 DEF IInv
    <2>2. ASSUME NEW m \in Message, ShowMessageView(m) PROVE IInv'
      <3> DEFINE new == [id |-> sent, kind |-> "message", answer |-> "none", get |-> m]
      <3>1. /\ requests' = requests \cup {new} /\ sent < MaxRequests /\ sent' = sent + 1
            /\ view' = "loading message" /\ UNCHANGED <<mailboxState, session, epoch>>
        BY <1>1, <2>2 DEF ShowMessageView, Send, Navigate
      <3>2. new \in Request /\ new.kind # "list"
        BY <1>0 DEF Request, MessageRequest, Answer
      <3> HIDE DEF new
      <3>3. Ordered' /\ Fresh' /\ Distinct'
        BY <3>1, <3>2, OthersKeepTokens DEF mailboxState
      <3>4. TypeOK'
        <4>1. requests' \subseteq Request
          BY <1>0, <3>1, <3>2
        <4>2. sent' \in 0..MaxRequests
          <5>1. sent < MaxRequests /\ sent' = sent + 1
            BY <3>1
          <5> QED BY <1>0, <5>1
        <4>3. view' \in View
          BY <3>1 DEF View, Screen
        <4> QED BY <3>1, <4>1, <4>2, <4>3 DEF IInv, TypeOK, mailboxState
      <3>5. ListMatchesQuery'
        BY <3>1 DEF IInv, ListMatchesQuery, mailboxState
      <3> QED BY <3>3, <3>4, <3>5 DEF IInv
    <2>3. CASE RenderMessageNotFound /\ UNCHANGED <<mailboxState, requests, sent>>
      <3>1. UNCHANGED <<mailboxState, requests, sent, session, epoch>>
        BY <1>1, <2>3 DEF Navigate
      <3>2. TypeOK'
        BY <2>3, <3>1 DEF IInv, TypeOK, View, Screen, mailboxState, RenderMessageNotFound
      <3>3. Ordered' /\ Fresh' /\ Distinct'
        BY <3>1, OthersKeepTokens DEF mailboxState
      <3>4. ListMatchesQuery'
        BY <3>1 DEF IInv, ListMatchesQuery, mailboxState
      <3> QED BY <3>2, <3>3, <3>4 DEF IInv
    <2> QED BY <1>1, <2>1, <2>2, <2>3 DEF Navigate, HandleNavigation
  <1>2. CASE Expire
    <2>1. UNCHANGED <<view, mailboxState, requests, sent, epoch>> /\ session' = FALSE
      BY <1>2 DEF Expire
    <2>2. TypeOK'
      BY <2>1 DEF IInv, TypeOK, mailboxState
    <2>3. Ordered' /\ Fresh' /\ Distinct'
      BY <2>1, OthersKeepTokens DEF mailboxState
    <2>4. ListMatchesQuery'
      BY <2>1 DEF IInv, ListMatchesQuery, mailboxState
    <2> QED BY <2>2, <2>3, <2>4 DEF IInv
  <1>3. ASSUME NEW query \in Query, Type(query) PROVE IInv'
    <2>1. TypeOK'
      BY <1>3 DEF IInv, TypeOK, Type
    <2>2. Ordered' /\ Fresh' /\ Distinct'
      BY <1>3, OthersKeepTokens DEF Type
    <2>3. ListMatchesQuery'
      BY <1>3, BrowserAssumption DEF ListMatchesQuery, Type
    <2> QED BY <2>1, <2>2, <2>3 DEF IInv
  <1>4. CASE TimerFires
    <2>1. /\ timer \in Query /\ timer' = NoTimer /\ LoadMailboxPage(1, timer)
          /\ UNCHANGED <<view, mailbox, currentPage, totalPages, currentQuery,
                         logoutPending, logoutError, session, epoch>>
      BY <1>4 DEF TimerFires, IInv, TypeOK
    <2>2. /\ requests' \subseteq Request /\ sent' \in 0..MaxRequests /\ token' \in Nat
          /\ Ordered' /\ Fresh' /\ Distinct'
          /\ mailbox # NoMailbox => mailbox.token # token'
      BY <2>1, LoadKeepsTokens
    <2>3. TypeOK'
      BY <2>1, <2>2 DEF IInv, TypeOK
    <2>4. ListMatchesQuery'
      BY <2>1, <2>2 DEF ListMatchesQuery
    <2> QED BY <2>2, <2>3, <2>4 DEF IInv
  <1>5. CASE ClearSearch
    <2>1. /\ currentQuery' = Empty /\ timer' = NoTimer /\ LoadMailboxPage(1, Empty)
          /\ UNCHANGED <<view, mailbox, currentPage, totalPages,
                         logoutPending, logoutError, session, epoch>>
      BY <1>5 DEF ClearSearch
    <2>2. /\ requests' \subseteq Request /\ sent' \in 0..MaxRequests /\ token' \in Nat
          /\ Ordered' /\ Fresh' /\ Distinct'
          /\ mailbox # NoMailbox => mailbox.token # token'
      BY <2>1, LoadKeepsTokens, BrowserAssumption
    <2>3. TypeOK'
      BY <2>1, <2>2, BrowserAssumption DEF IInv, TypeOK
    <2>4. ListMatchesQuery'
      BY <2>1, <2>2 DEF ListMatchesQuery
    <2> QED BY <2>2, <2>3, <2>4 DEF IInv
  <1>6. ASSUME NEW page \in 1..totalPages, TurnPage(page) PROVE IInv'
    <2>1. /\ page \in Nat /\ currentQuery \in Query
          /\ LoadMailboxPage(page, currentQuery)
          /\ UNCHANGED <<view, mailbox, currentPage, totalPages, currentQuery, timer,
                         logoutPending, logoutError, session, epoch>>
      BY <1>6 DEF TurnPage, IInv, TypeOK
    <2>2. /\ requests' \subseteq Request /\ sent' \in 0..MaxRequests /\ token' \in Nat
          /\ Ordered' /\ Fresh' /\ Distinct'
          /\ mailbox # NoMailbox => mailbox.token # token'
      BY <2>1, LoadKeepsTokens
    <2>3. TypeOK'
      BY <2>1, <2>2 DEF IInv, TypeOK
    <2>4. ListMatchesQuery'
      BY <2>1, <2>2 DEF ListMatchesQuery
    <2> QED BY <2>2, <2>3, <2>4 DEF IInv
  <1>7. CASE Logout
    <2> DEFINE new == [id |-> sent, kind |-> "logout", answer |-> "none", get |-> "session"]
    <2>1. /\ requests' = requests \cup {new} /\ sent < MaxRequests /\ sent' = sent + 1
          /\ logoutPending' = TRUE /\ logoutError' = FALSE
          /\ UNCHANGED <<mailbox, currentPage, totalPages, currentQuery, timer, token,
                         session, epoch>>
          /\ view' = "list"
      BY <1>7 DEF Logout, Send, RenderMessageList
    <2>2. new \in Request /\ new.kind # "list"
      BY <1>0 DEF Request, LogoutRequest, Answer
    <2> HIDE DEF new
    <2>3. Ordered' /\ Fresh' /\ Distinct'
      BY <2>1, <2>2, OthersKeepTokens
    <2>4. TypeOK'
      <3>1. requests' \subseteq Request /\ sent' \in 0..MaxRequests
        BY <1>0, <2>1, <2>2
      <3>2. logoutPending' \in BOOLEAN /\ logoutError' \in BOOLEAN
        BY <2>1
      <3> QED BY <2>1, <3>1, <3>2 DEF IInv, TypeOK, View, Screen
    <2>5. ListMatchesQuery'
      BY <2>1 DEF IInv, ListMatchesQuery
    <2> QED BY <2>3, <2>4, <2>5 DEF IInv
  <1>8. ASSUME NEW r \in requests, Serve(r) PROVE IInv'
    <2>1. PICK answer \in Answer : requests' = (requests \ {r}) \cup {[r EXCEPT !.answer = answer]}
      BY <1>8 DEF Serve
    <2> DEFINE q == [r EXCEPT !.answer = answer]
    <2>2. q \in Request /\ q.kind = r.kind /\ q.get = r.get
      BY <1>0, AnsweredRequest
    <2>3. requests' = (requests \ {r}) \cup {q}
      BY <2>1
    <2> HIDE DEF q
    <2>4. UNCHANGED <<view, mailboxState, sent, epoch>> /\ session' \in BOOLEAN
      BY <1>8 DEF Serve, IInv, TypeOK
    <2>5. TypeOK'
      BY <1>0, <2>2, <2>3, <2>4 DEF IInv, TypeOK, mailboxState
    <2>6. Ordered' /\ ListMatchesQuery'
      BY <2>4 DEF IInv, Ordered, ListMatchesQuery, mailboxState
    <2>7. Fresh'
      BY <2>2, <2>3, <2>4 DEF IInv, Fresh, mailboxState
    <2>8. Distinct'
      BY <2>2, <2>3 DEF IInv, Distinct
    <2> QED BY <2>5, <2>6, <2>7, <2>8 DEF IInv
  <1>9. ASSUME NEW r \in requests, Arrives(r) PROVE IInv'
    <2>0. r \in Request
      BY <1>0
    <2>1. CASE Unauthorized(r)
      BY <2>1, LoginKeepsInvariant DEF Unauthorized, IInv, TypeOK
    <2>2. CASE ListArrives(r)
      <3>1. requests' = requests \ {r} /\ UNCHANGED <<sent, session, epoch>> /\ r.kind = "list"
        BY <2>2 DEF ListArrives, Done
      <3>2. CASE UNCHANGED <<view, mailboxState>>
        <4>1. TypeOK' /\ ListMatchesQuery'
          BY <3>1, <3>2 DEF IInv, TypeOK, ListMatchesQuery, mailboxState
        <4>2. Ordered' /\ Fresh' /\ Distinct'
          BY <3>1, <3>2, OthersKeepTokens DEF mailboxState
        <4> QED BY <4>1, <4>2 DEF IInv
      <3>3. CASE r.get.token = token /\ ShowList(r.get)
        <4> DEFINE listing == r.get
        <4>1. listing \in Listing /\ listing.token \in Nat /\ listing.page \in Nat \ {0}
              /\ listing.query \in Query
          BY <2>0, <3>1, RequestKinds DEF Listing
        <4>2. listing.token = token /\ listing.token # epoch
          BY <3>1, <3>3 DEF IInv, Fresh
        <4>3. \A q \in requests \ {r} : q.kind = "list" => q.get.token # listing.token
          BY <3>1 DEF IInv, Distinct
        <4>4. /\ mailbox' = listing /\ currentQuery' = listing.query /\ view' = "list"
              /\ totalPages' = Largest(1, Pages[listing.query])
              /\ currentPage' = Smallest(listing.page, Largest(1, Pages[listing.query]))
              /\ UNCHANGED <<timer, token, logoutPending, logoutError>>
          BY <3>3 DEF ShowList, RenderMessageList
        <4> HIDE DEF listing
        <4>5. totalPages' \in Nat /\ currentPage' \in 1..totalPages'
          <5>1. Pages[listing.query] \in Nat
            BY <4>1, BrowserAssumption
          <5> QED BY <4>1, <4>4, <5>1 DEF Largest, Smallest
        <4>6. TypeOK'
          BY <3>1, <4>1, <4>4, <4>5 DEF IInv, TypeOK, View, Screen
        <4>7. Ordered' /\ ListMatchesQuery'
          BY <1>0, <3>1, <4>1, <4>2, <4>4 DEF IInv, Ordered, ListMatchesQuery
        <4>8. Fresh' /\ Distinct'
          BY <3>1, <4>3, <4>4 DEF IInv, Fresh, Distinct
        <4> QED BY <4>6, <4>7, <4>8 DEF IInv
      <3>4. CASE RenderErrorState /\ UNCHANGED mailboxState
        <4>1. TypeOK' /\ ListMatchesQuery'
          BY <3>1, <3>4 DEF IInv, TypeOK, View, Screen, ListMatchesQuery, mailboxState,
                             RenderErrorState
        <4>2. Ordered' /\ Fresh' /\ Distinct'
          BY <3>1, <3>4, OthersKeepTokens DEF mailboxState
        <4> QED BY <4>1, <4>2 DEF IInv
      <3> QED BY <2>2, <3>2, <3>3, <3>4 DEF ListArrives
    <2>3. CASE MessageArrives(r)
      <3> DEFINE q == [r EXCEPT !.kind = "raw", !.answer = "none"]
      <3>1. /\ UNCHANGED <<mailboxState, sent, session, epoch>>
            /\ requests' = (requests \ {r}) \cup {q} \/ requests' = requests \ {r}
            /\ view' \in {r.get, "not found", "error"}
        BY <2>3 DEF MessageArrives, Done, RenderMessageView, RenderMessageNotFound,
                    RenderErrorState
      <3>2. q \in Request /\ q.kind = "raw" /\ r.get \in Message
        BY <2>0, <2>3, RequestKinds, RawRequest DEF MessageArrives
      <3> HIDE DEF q
      <3>3. TypeOK'
        BY <1>0, <3>1, <3>2 DEF IInv, TypeOK, View, Screen, mailboxState
      <3>4. Ordered' /\ Fresh' /\ Distinct'
        BY <3>1, <3>2, OthersKeepTokens DEF mailboxState
      <3>5. ListMatchesQuery'
        BY <3>1 DEF IInv, ListMatchesQuery, mailboxState
      <3> QED BY <3>3, <3>4, <3>5 DEF IInv
    <2>4. CASE RawArrives(r)
      <3>1. /\ UNCHANGED <<view, mailboxState, sent, session, epoch>>
            /\ requests' = requests \ {r}
        BY <2>4 DEF RawArrives, Done
      <3>2. TypeOK' /\ ListMatchesQuery'
        BY <3>1 DEF IInv, TypeOK, ListMatchesQuery, mailboxState
      <3>3. Ordered' /\ Fresh' /\ Distinct'
        BY <3>1, OthersKeepTokens DEF mailboxState
      <3> QED BY <3>2, <3>3 DEF IInv
    <2>5. CASE LogoutArrives(r)
      <3>1. CASE RedirectToLogin(1)
        BY <2>5, <3>1, LoginKeepsInvariant DEF LogoutArrives, IInv, TypeOK
      <3>2. CASE /\ logoutPending' = FALSE /\ logoutError' = TRUE /\ view' = "list"
                 /\ UNCHANGED <<mailbox, currentPage, totalPages, currentQuery, timer, token,
                                epoch>>
        <4>1. requests' = requests \ {r} /\ UNCHANGED <<sent, session>>
          BY <2>5 DEF LogoutArrives, Done
        <4>2. TypeOK'
          <5>1. logoutPending' \in BOOLEAN /\ logoutError' \in BOOLEAN
            BY <3>2
          <5> QED BY <3>2, <4>1, <5>1 DEF IInv, TypeOK, View, Screen
        <4>3. Ordered' /\ Fresh' /\ Distinct'
          BY <3>2, <4>1, OthersKeepTokens
        <4>4. ListMatchesQuery'
          BY <3>2 DEF IInv, ListMatchesQuery
        <4> QED BY <4>2, <4>3, <4>4 DEF IInv
      <3> QED BY <2>5, <3>1, <3>2 DEF LogoutArrives, RenderMessageList
    <2> QED BY <1>9, <2>1, <2>2, <2>3, <2>4, <2>5 DEF Arrives
  <1>10. CASE UNCHANGED vars
    BY <1>10 DEF vars, mailboxState, IInv, TypeOK, Ordered, Fresh, Distinct, ListMatchesQuery
  <1> QED BY <1>1, <1>2, <1>3, <1>4, <1>5, <1>6, <1>7, <1>8, <1>9, <1>10 DEF Next

-----------------------------------------------------------------------------
\* The invariant of the application, on which the theorems below rest.
THEOREM Invariance == Spec => []IInv
  BY InitInvariant, NextInvariant, PTL DEF Spec

\* Every variable keeps its type; the page indicator stays within its range.
THEOREM TypeCorrect == Spec => []TypeOK
  <1>1. IInv => TypeOK
    BY DEF IInv
  <1> QED BY <1>1, Invariance, PTL

\* After the fall back to the login, no list asked for before is kept or shown.
THEOREM ListsForgotten == Spec => []SignOutForgets
  <1>1. IInv => SignOutForgets
    BY DEF IInv, TypeOK, Ordered, SignOutForgets, Listing
  <1> QED BY <1>1, Invariance, PTL

\* The list that answers the latest request is that of the search field.
THEOREM ListIsTheSearched == Spec => []ListMatchesQuery
  <1>1. IInv => ListMatchesQuery
    BY DEF IInv
  <1> QED BY <1>1, Invariance, PTL

\* An overtaken answer never replaces a later one.
THEOREM OvertakenAnswersDropped == Spec => LatestListWins
  <1> DEFINE Keeps == mailbox # NoMailbox /\ mailbox' # NoMailbox /\ mailbox' # mailbox
                        => mailbox'.token > mailbox.token
  <1>1. ASSUME IInv, [Next]_vars PROVE [Keeps]_vars
    <2>1. ASSUME NEW r \in requests, ListArrives(r), mailbox' # mailbox, mailbox # NoMailbox
          PROVE  mailbox'.token > mailbox.token
      <3>1. r.kind = "list" /\ r.get.token = token /\ mailbox' = r.get
        BY <2>1 DEF ListArrives, ShowList, mailboxState
      <3>2. mailbox.token \in Nat /\ token \in Nat /\ mailbox.token <= token
        BY <1>1, <2>1 DEF IInv, TypeOK, Ordered, Listing
      <3>3. token # mailbox.token
        BY <1>1, <2>1, <3>1 DEF IInv, Fresh
      <3> QED BY <3>1, <3>2, <3>3
    <2>2. ASSUME NEW r \in requests, Arrives(r) PROVE Keeps
      BY <2>1, <2>2 DEF Arrives, Unauthorized, MessageArrives, RawArrives, LogoutArrives,
                        RedirectToLogin, mailboxState
    <2>3. ASSUME NEW route \in Route, Navigate(route) PROVE mailbox' = mailbox
      BY <2>3 DEF Navigate, HandleNavigation, ShowMailboxList, ShowMessageView, mailboxState
    <2>4. ASSUME NEW r \in requests, Serve(r) PROVE mailbox' = mailbox
      BY <2>4 DEF Serve, mailboxState
    <2>5. CASE \/ Expire \/ TimerFires \/ ClearSearch \/ Logout
               \/ \E query \in Query : Type(query)
               \/ \E page \in 1..totalPages : TurnPage(page)
      BY <2>5 DEF Expire, TimerFires, ClearSearch, Logout, Type, TurnPage, mailboxState
    <2> QED BY <1>1, <2>2, <2>3, <2>4, <2>5 DEF Next
  <1> QED BY <1>1, Invariance, PTL DEF Spec, LatestListWins

-----------------------------------------------------------------------------
\* The page does not wait in vain: while it says that it is loading, the
\* request whose answer will say otherwise is under way and has not been
\* overtaken, and so is the logout that keeps its button disabled.  What is
\* left of LoadingEnds and LogoutSettles is that fetches come back.
AwaitsList ==
    view = "loading list" => \E r \in requests : r.kind = "list" /\ r.get.token = token
AwaitsMessage == view = "loading message" => \E r \in requests : r.kind = "message"
AwaitsLogout == logoutPending => \E r \in requests : r.kind = "logout"
Awaited == AwaitsList /\ AwaitsMessage /\ AwaitsLogout

\* Nothing is lost when requests are only added.
LEMMA SendKeepsAwaited ==
    ASSUME Awaited, requests \subseteq requests', UNCHANGED <<token, logoutPending>>,
           view' = view \/ view' \notin {"loading list", "loading message"}
    PROVE  Awaited'
  BY DEF Awaited, AwaitsList, AwaitsMessage, AwaitsLogout

\* A new request for a list is the one that is waited for.
LEMMA LoadKeepsAwaited ==
    ASSUME Awaited, NEW page, NEW query, LoadMailboxPage(page, query), UNCHANGED logoutPending,
           view' = view \/ view' = "loading list"
    PROVE  Awaited'
  <1> DEFINE listing == [page |-> Largest(1, page), query |-> query, token |-> token + 1]
             new == [id |-> sent, kind |-> "list", answer |-> "none", get |-> listing]
  <1>1. requests' = requests \cup {new} /\ token' = token + 1
    BY DEF LoadMailboxPage, Send
  <1>2. new \in requests' /\ new.kind = "list" /\ new.get.token = token'
    BY <1>1
  <1> HIDE DEF new
  <1> QED  BY <1>1, <1>2 DEF Awaited, AwaitsList, AwaitsMessage, AwaitsLogout

\* The server's answer does not end a request.
LEMMA ServeKeepsAwaited ==
    ASSUME IInv, Awaited, NEW r \in requests, Serve(r)
    PROVE  Awaited'
  <1>1. PICK answer \in Answer : requests' = (requests \ {r}) \cup {[r EXCEPT !.answer = answer]}
    BY DEF Serve
  <1> DEFINE q == [r EXCEPT !.answer = answer]
  <1>2. q \in requests' /\ q.kind = r.kind /\ q.get = r.get
    <2>1. r \in Request
      BY DEF IInv, TypeOK
    <2> QED  BY <1>1, <2>1, AnsweredRequest
  <1> HIDE DEF q
  <1>3. \A p \in requests : \E o \in requests' : o.kind = p.kind /\ o.get = p.get
    BY <1>1, <1>2 DEF q
  <1>4. UNCHANGED <<view, token, logoutPending>>
    BY DEF Serve, mailboxState
  <1> QED  BY <1>3, <1>4 DEF Awaited, AwaitsList, AwaitsMessage, AwaitsLogout

\* An answer that is taken, or dropped, was not the one that is waited for, or
\* ends the wait.
LEMMA ArrivesKeepsAwaited ==
    ASSUME IInv, Awaited, NEW r \in requests, Arrives(r)
    PROVE  Awaited'
  <1> USE DEF Awaited, AwaitsList, AwaitsMessage, AwaitsLogout
  <1>1. \A p \in requests : p # r => p \in requests'
    BY DEF Arrives, Unauthorized, ListArrives, MessageArrives, RawArrives, LogoutArrives, Done
  <1>2. CASE Unauthorized(r)
    BY <1>2 DEF Unauthorized, RedirectToLogin, RenderLogin
  <1>3. CASE ListArrives(r)
    <2>1. r.kind = "list" /\ UNCHANGED <<token, logoutPending>>
      BY <1>3 DEF ListArrives, ShowList, mailboxState
    <2>2. \/ view' \in {"list", "error"}
          \/ view' = view /\ r.get.token # token
      BY <1>3 DEF ListArrives, ShowList, RenderMessageList, RenderErrorState
    <2> QED  BY <1>1, <2>1, <2>2
  <1>4. CASE MessageArrives(r)
    <2>1. r.kind = "message" /\ UNCHANGED <<token, logoutPending>>
      BY <1>4 DEF MessageArrives, mailboxState
    <2>2. view' \in {"not found", "error"} \/ (view' = r.get /\ r.get \in Message)
      BY <1>4, RequestKinds DEF MessageArrives, RenderMessageView, RenderMessageNotFound,
         RenderErrorState, IInv, TypeOK
    <2> QED  BY <1>1, <2>1, <2>2, BrowserAssumption DEF Screen
  <1>5. CASE RawArrives(r)
    BY <1>1, <1>5 DEF RawArrives, mailboxState
  <1>6. CASE LogoutArrives(r)
    BY <1>1, <1>6 DEF LogoutArrives, RedirectToLogin, RenderLogin, RenderMessageList
  <1> QED  BY <1>2, <1>3, <1>4, <1>5, <1>6 DEF Arrives

\* Whatever order the answers come in, the page never waits for one that no
\* request will bring.
THEOREM NothingAwaitedInVain == Spec => []Awaited
  <1>1. Init => Awaited
    <2> SUFFICES ASSUME Init PROVE Awaited
      OBVIOUS
    <2>1. ~logoutPending
      BY DEF Init
    <2>2. CASE view = "loading list"
      <3> DEFINE first == [page |-> 1, query |-> Empty, token |-> 1]
                 load == [id |-> 0, kind |-> "list", answer |-> "none", get |-> first]
      <3>1. requests = {load} /\ token = 1
        BY <2>2 DEF Init
      <3>2. load \in requests /\ load.kind = "list" /\ load.get.token = token
        BY <3>1
      <3> HIDE DEF load
      <3> QED  BY <2>1, <2>2, <3>2 DEF Awaited, AwaitsList, AwaitsMessage, AwaitsLogout
    <2>3. CASE view = "loading message"
      <3>1. PICK m : requests = {[id |-> 0, kind |-> "message", answer |-> "none", get |-> m]}
        BY <2>3 DEF Init
      <3>2. \E r \in requests : r.kind = "message"
        BY <3>1
      <3> QED  BY <2>1, <2>3, <3>2 DEF Awaited, AwaitsList, AwaitsMessage, AwaitsLogout
    <2> QED  BY <2>1, <2>2, <2>3 DEF Awaited, AwaitsList, AwaitsMessage, AwaitsLogout
  <1>2. IInv /\ Awaited /\ [Next]_vars => Awaited'
    <2> SUFFICES ASSUME IInv, Awaited, [Next]_vars PROVE Awaited'
      OBVIOUS
    <2>1. ASSUME NEW route \in Route, Navigate(route) PROVE Awaited'
      <3>1. CASE ShowMailboxList
        BY <3>1, LoadKeepsAwaited DEF ShowMailboxList
      <3>2. ASSUME NEW m \in Message, ShowMessageView(m) PROVE Awaited'
        <4> DEFINE new == [id |-> sent, kind |-> "message", answer |-> "none", get |-> m]
        <4>1. requests' = requests \cup {new} /\ view' = "loading message" /\ UNCHANGED logoutPending
          BY <3>2 DEF ShowMessageView, Send, mailboxState
        <4>2. new \in requests' /\ new.kind = "message"
          BY <4>1
        <4> HIDE DEF new
        <4> QED  BY <4>1, <4>2 DEF Awaited, AwaitsList, AwaitsMessage, AwaitsLogout
      <3>3. CASE RenderMessageNotFound /\ UNCHANGED <<mailboxState, requests, sent>>
        BY <3>3, SendKeepsAwaited DEF RenderMessageNotFound, mailboxState
      <3> QED  BY <2>1, <3>1, <3>2, <3>3 DEF Navigate, HandleNavigation
    <2>2. CASE TimerFires \/ ClearSearch \/ \E page \in 1..totalPages : TurnPage(page)
      BY <2>2, LoadKeepsAwaited DEF TimerFires, ClearSearch, TurnPage
    <2>3. CASE Expire \/ (\E query \in Query : Type(query)) \/ UNCHANGED vars
      BY <2>3, SendKeepsAwaited DEF Expire, Type, vars, mailboxState
    <2>4. CASE Logout
      <3> DEFINE new == [id |-> sent, kind |-> "logout", answer |-> "none", get |-> "session"]
      <3>1. requests' = requests \cup {new} /\ view' = "list"
        BY <2>4 DEF Logout, Send, RenderMessageList
      <3>2. new \in requests' /\ new.kind = "logout"
        BY <3>1
      <3> HIDE DEF new
      <3> QED  BY <3>1, <3>2 DEF Awaited, AwaitsList, AwaitsMessage, AwaitsLogout
    <2>5. ASSUME NEW r \in requests, Serve(r) \/ Arrives(r) PROVE Awaited'
      BY <2>5, ServeKeepsAwaited, ArrivesKeepsAwaited
    <2> QED  BY <2>1, <2>2, <2>3, <2>4, <2>5 DEF Next
  <1> QED  BY <1>1, <1>2, Invariance, PTL DEF Spec
=============================================================================
