------------------------------ MODULE RateLimit -----------------------------
(***************************************************************************)
(* The rate limiter of internal/middleware: Allow, which any number of     *)
(* request goroutines run at once, and the cleanup goroutine.  Entries of  *)
(* different addresses never meet, so the module follows one address.      *)
(*                                                                         *)
(* A goroutine takes the time before it looks its entry up, and looks the  *)
(* entry up before it locks it: what it holds may be stale twice.          *)
(***************************************************************************)
EXTENDS Integers

CONSTANTS
    Goroutine,     \* concurrent requests of the address
    Entry,         \* rateLimitEntry objects
    None,          \* no entry, or no time
    Limit,         \* requestsPerMinute
    Window,        \* ticks in a minute
    MaxTime        \* bound: ticks of the clock

ASSUME RateLimitAssumption ==
    /\ Limit \in Nat \ {0} /\ Window \in Nat \ {0} /\ MaxTime \in Nat
    /\ None \notin Entry \cup Nat

VARIABLES
    clock,         \* time
    entries,       \* rl.entries: the entry of the address, or None
    tokens,        \* tokens of each entry
    lastUpdate,    \* lastUpdate of each entry
    pc,            \* where each goroutine is in Allow
    now,           \* the time it took at the beginning
    held,          \* the entry it loaded
    sweep,         \* the time that cleanup took, None while it sleeps
    due,           \* when the ticker fires next
    admitted,      \* history: requests admitted
    strays,        \* history: those admitted by an entry no longer in the map
    lag            \* history: time by which stamps were behind, see below

entry == <<tokens, lastUpdate>>
history == <<admitted, strays, lag>>
vars == <<clock, entries, tokens, lastUpdate, pc, now, held, sweep, due,
          admitted, strays, lag>>

Init ==
    /\ clock = 0
    /\ entries = None
    /\ tokens = [e \in Entry |-> Limit]
    /\ lastUpdate = [e \in Entry |-> 0]
    /\ pc = [g \in Goroutine |-> "idle"]
    /\ now = [g \in Goroutine |-> 0]
    /\ held = [g \in Goroutine |-> None]
    /\ sweep = None
    /\ due = Window
    /\ admitted = 0 /\ strays = 0 /\ lag = 0

Goto(g, there) == pc' = [pc EXCEPT ![g] = there]

\* time.Now() at the top of Allow.
Stamp(g) ==
    /\ pc[g] = "idle"
    /\ now' = [now EXCEPT ![g] = clock]
    /\ Goto(g, "stamped")
    /\ UNCHANGED <<clock, entries, entry, held, sweep, due, history>>

\* LoadOrStore finds an entry ...
Load(g) ==
    /\ pc[g] = "stamped"
    /\ entries # None
    /\ held' = [held EXCEPT ![g] = entries]
    /\ Goto(g, "loaded")
    /\ UNCHANGED <<clock, entries, entry, now, sweep, due, history>>

\* ... or stores a new one, full as of the goroutine's own time.
Store(g, e) ==
    /\ pc[g] = "stamped"
    /\ entries = None
    /\ \A q \in Goroutine : held[q] # e
    /\ entries' = e
    /\ tokens' = [tokens EXCEPT ![e] = Limit]
    /\ lastUpdate' = [lastUpdate EXCEPT ![e] = now[g]]
    /\ held' = [held EXCEPT ![g] = e]
    /\ lag' = lag + (clock - now[g])
    /\ Goto(g, "loaded")
    /\ UNCHANGED <<clock, now, sweep, due, admitted, strays>>

\* int() rounds towards zero, and a negative number of tokens is not taken off.
Recovered(g) ==
    IF now[g] <= lastUpdate[held[g]] THEN 0
    ELSE ((now[g] - lastUpdate[held[g]]) * Limit) \div Window

\* Mutant: the bucket is not capped.
RefilledMutant(g) == tokens[held[g]] + Recovered(g)

Refilled(g) ==
    IF tokens[held[g]] + Recovered(g) > Limit THEN Limit
    ELSE tokens[held[g]] + Recovered(g)

\* The critical section of Allow.  A stamp older than lastUpdate turns
\* lastUpdate back: the time in between is credited a second time.
Take(g) ==
    /\ pc[g] = "loaded"
    /\ LET e == held[g]
           ok == Refilled(g) > 0
       IN  /\ tokens' = [tokens EXCEPT ![e] = IF ok THEN Refilled(g) - 1 ELSE Refilled(g)]
           /\ lastUpdate' = [lastUpdate EXCEPT ![e] = now[g]]
           /\ admitted' = IF ok THEN admitted + 1 ELSE admitted
           /\ strays' = IF ok /\ entries # e THEN strays + 1 ELSE strays
           /\ lag' = IF now[g] < lastUpdate[e] THEN lag + (clock - now[g]) ELSE lag
    /\ held' = [held EXCEPT ![g] = None]
    /\ now' = [now EXCEPT ![g] = 0]                        \* out of scope
    /\ Goto(g, "idle")
    /\ UNCHANGED <<clock, entries, sweep, due>>

\* The ticker fires; cleanup takes the time.
CleanupStart ==
    /\ sweep = None
    /\ clock >= due
    /\ sweep' = clock
    /\ due' = Window * (clock \div Window + 1)
    /\ UNCHANGED <<clock, entries, entry, pc, now, held, history>>

\* Mutant: an entry goes as soon as its window is half over.
StaleMutant(e) == 2 * (sweep - lastUpdate[e]) > Window
Stale(e) == sweep - lastUpdate[e] > Window

\* Range locks the entry; goroutines that have loaded it keep it.
Cleanup ==
    /\ sweep # None
    /\ entries' = IF entries # None /\ Stale(entries) THEN None ELSE entries
    /\ sweep' = None
    /\ UNCHANGED <<clock, entry, pc, now, held, due, history>>

Tick ==
    /\ clock < MaxTime
    /\ clock' = clock + 1
    /\ UNCHANGED <<entries, entry, pc, now, held, sweep, due, history>>

Next ==
    \/ Tick \/ CleanupStart \/ Cleanup
    \/ \E g \in Goroutine :
         \/ Stamp(g) \/ Load(g) \/ Take(g)
         \/ \E e \in Entry : Store(g, e)

Spec == Init /\ [][Next]_vars

-----------------------------------------------------------------------------
\* Every variable of the limiter has its type; a bucket is never overdrawn nor
\* filled above the limit.
TypeOK ==
    /\ clock \in Nat
    /\ entries \in Entry \cup {None}
    /\ tokens \in [Entry -> 0..Limit]
    /\ lastUpdate \in [Entry -> Nat]
    /\ pc \in [Goroutine -> {"idle", "stamped", "loaded"}]
    /\ now \in [Goroutine -> Nat]
    /\ held \in [Goroutine -> Entry \cup {None}]
    /\ sweep \in Nat \cup {None}
    /\ due \in Nat
    /\ admitted \in Nat /\ strays \in Nat /\ lag \in Nat

\* An address is admitted at most Limit times at once and Limit times per
\* minute after that.  Two races of Allow raise the bound, by no more than
\* this: a request that holds an entry while cleanup drops it counts extra,
\* and a request that is overtaken, or stores its entry late, has the time by
\* which its stamp is behind the clock credited once more.
RateBound == (admitted - strays) * Window <= Limit * (Window + clock + lag)
=============================================================================
