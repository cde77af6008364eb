--------------------------- MODULE RateLimitProofs --------------------------
(***************************************************************************)
(* The rate that an address gets, for every limit, window and number of    *)
(* goroutines, and over every stretch of time: a bound that counts from    *)
(* the start alone would let an address save up an idle hour and spend it  *)
(* at once.                                                                *)
(*                                                                         *)
(* The bound is not inductive: it does not say how many admissions are     *)
(* still to come.  Covered adds the tokens left in the entry of the map to *)
(* the admissions and takes lastUpdate for the clock, which is how far the *)
(* entry has been credited; without an entry, an address must be entitled  *)
(* to a full bucket at once, because Store gives it one.                   *)
(***************************************************************************)
EXTENDS RateLimit, TLAPS

Passed == admitted - strays

\* No stamp is from the future.
Past ==
    /\ \A g \in Goroutine : now[g] <= clock
    /\ \A e \in Entry : lastUpdate[e] <= clock
    /\ sweep # None => sweep <= clock

\* A goroutine inside Allow's last part holds an entry.
Holding == \A g \in Goroutine : pc[g] = "loaded" => held[g] \in Entry

IInv == TypeOK /\ Past /\ Holding

\* A moment at which p requests have passed and the lag is l, and before which
\* no request that is still under way was stamped: s is the time on the
\* clock, or that of the oldest such stamp.
Moment(p, s, l) ==
    /\ Passed = p /\ lag = l /\ s <= clock
    /\ \A g \in Goroutine : pc[g] # "idle" => s <= now[g]

\* Since then the address has been admitted at most Limit times at once and
\* Limit times per minute, but for the same two races as in RateBound.
Since(p, s, l) == (Passed - p) * Window <= Limit * (Window + (clock - s) + (lag - l))

\* The same with what is left in the bucket.  An entry that has not been used
\* since then may hold any number of tokens, but nobody has passed.
Covered(p, s, l) ==
    IF entries = None
    THEN (Passed - p) * Window <= Limit * ((clock - s) + (lag - l))
    ELSE IF lastUpdate[entries] < s
    THEN Passed = p
    ELSE ((Passed - p) + tokens[entries]) * Window
           <= Limit * (Window + ((lastUpdate[entries] - s) + (lag - l)))

SinceInv(p, s, l) ==
    /\ s <= clock /\ l <= lag
    /\ \A g \in Goroutine : pc[g] # "idle" => s <= now[g]
    /\ Covered(p, s, l)

-----------------------------------------------------------------------------
\* Integer division rounds down.
LEMMA DivBound ==
    ASSUME NEW n \in Nat, NEW d \in Nat \ {0}
    PROVE  n \div d \in Nat /\ (n \div d) * d <= n
  OBVIOUS

\* Multiplication with a natural number is monotonic.
LEMMA Monotone ==
    ASSUME NEW a \in Int, NEW b \in Int, NEW c \in Nat, a <= b
    PROVE  c * a <= c * b /\ a * c <= b * c
  OBVIOUS

\* Multiplication distributes over addition.
LEMMA Distributes ==
    ASSUME NEW a \in Int, NEW b \in Int, NEW c \in Int
    PROVE  c * (a + b) = c * a + c * b /\ (a + b) * c = a * c + b * c
  OBVIOUS

\* An idle stretch earns no more tokens than the rate allows.
LEMMA RecoveredBound ==
    ASSUME TypeOK, NEW g \in Goroutine, held[g] \in Entry
    PROVE  /\ Recovered(g) \in Nat
           /\ now[g] <= lastUpdate[held[g]] => Recovered(g) = 0
           /\ now[g] > lastUpdate[held[g]] =>
                Recovered(g) * Window <= (now[g] - lastUpdate[held[g]]) * Limit
  <1> DEFINE d == now[g] - lastUpdate[held[g]]
  <1>1. now[g] \in Nat /\ lastUpdate[held[g]] \in Nat
    BY DEF TypeOK
  <1>2. CASE now[g] <= lastUpdate[held[g]]
    BY <1>1, <1>2 DEF Recovered
  <1>3. CASE now[g] > lastUpdate[held[g]]
    <2>1. d \in Nat /\ d * Limit \in Nat
      BY <1>1, <1>3, RateLimitAssumption
    <2>2. Recovered(g) = (d * Limit) \div Window
      BY <1>1, <1>3 DEF Recovered
    <2> HIDE DEF d
    <2>3. Recovered(g) \in Nat /\ Recovered(g) * Window <= d * Limit
      BY <2>1, <2>2, DivBound, RateLimitAssumption
    <2> QED  BY <1>1, <1>3, <2>3 DEF d
  <1> QED  BY <1>1, <1>2, <1>3

\* The refilled bucket is between what it was and what it earned.
LEMMA RefilledBound ==
    ASSUME TypeOK, NEW g \in Goroutine, held[g] \in Entry
    PROVE  /\ Refilled(g) \in 0..Limit
           /\ Refilled(g) <= tokens[held[g]] + Recovered(g)
  BY RecoveredBound, RateLimitAssumption DEF Refilled, TypeOK

-----------------------------------------------------------------------------
\* The limiter starts without an entry and without admissions.
LEMMA InitIInv == Init => IInv
  BY RateLimitAssumption DEF Init, IInv, TypeOK, Past, Holding

\* Allow's critical section keeps the types.
LEMMA TakeIInv ==
    ASSUME IInv, NEW g \in Goroutine, Take(g)
    PROVE  IInv'
  <1> USE DEF IInv
  <1> DEFINE e == held[g]
             ok == Refilled(g) > 0
  <1>1. e \in Entry
    BY DEF Take, Holding
  <1>2. Refilled(g) \in 0..Limit
    BY <1>1, RefilledBound
  <1>3. (IF ok THEN Refilled(g) - 1 ELSE Refilled(g)) \in 0..Limit
    BY <1>2, RateLimitAssumption
  <1>4. tokens' \in [Entry -> 0..Limit]
    BY <1>1, <1>3 DEF Take, TypeOK
  <1>5. lastUpdate' \in [Entry -> Nat] /\ lag' \in Nat
    BY <1>1 DEF Take, TypeOK, Past
  <1>6. TypeOK'
    BY <1>4, <1>5 DEF Take, TypeOK, Goto
  <1>7. Past' /\ Holding'
    BY <1>1 DEF Take, TypeOK, Past, Holding, Goto
  <1> QED  BY <1>6, <1>7

\* No stamp runs ahead of the clock, and every variable keeps its type.
LEMMA StepIInv == IInv /\ [Next]_vars => IInv'
  <1> SUFFICES ASSUME IInv, [Next]_vars PROVE IInv'
    OBVIOUS
  <1> USE DEF IInv
  <1>1. CASE Tick \/ Cleanup \/ UNCHANGED vars
    BY <1>1 DEF Tick, Cleanup, vars, TypeOK, Past, Holding, entry, history
  <1>2. CASE CleanupStart
    <2>1. clock \div Window \in Nat
      <3>1. clock \in Nat
        BY DEF TypeOK
      <3> QED  BY <3>1, DivBound, RateLimitAssumption
    <2>2. TypeOK'
      BY <1>2, <2>1, RateLimitAssumption DEF CleanupStart, TypeOK, entry, history
    <2>3. Past' /\ Holding'
      BY <1>2 DEF CleanupStart, TypeOK, Past, Holding, entry, history
    <2> QED  BY <2>2, <2>3
  <1>3. ASSUME NEW g \in Goroutine, Stamp(g) \/ Load(g) PROVE IInv'
    <2>1. TypeOK'
      BY <1>3 DEF Stamp, Load, TypeOK, Goto, entry, history
    <2>2. Past' /\ Holding'
      BY <1>3 DEF Stamp, Load, TypeOK, Past, Holding, Goto, entry, history
    <2> QED  BY <2>1, <2>2
  <1>4. ASSUME NEW g \in Goroutine, NEW e \in Entry, Store(g, e) PROVE IInv'
    <2>1. TypeOK'
      BY <1>4, RateLimitAssumption DEF TypeOK, Past, Store, Goto
    <2>2. Past' /\ Holding'
      BY <1>4 DEF TypeOK, Past, Holding, Store, Goto
    <2> QED  BY <2>1, <2>2
  <1>5. ASSUME NEW g \in Goroutine, Take(g) PROVE IInv'
    BY <1>5, TakeIInv
  <1> QED  BY <1>1, <1>2, <1>3, <1>4, <1>5 DEF Next

-----------------------------------------------------------------------------
\* A bound that holds of two numbers holds of their sums.
LEMMA AddBounds ==
    ASSUME NEW a \in Int, NEW b \in Int, NEW x \in Int, NEW y \in Int,
           a * Window <= Limit * x, b * Window <= Limit * y
    PROVE  (a + b) * Window <= Limit * (x + y)
  <1>1. Window \in Nat /\ Limit \in Nat
    BY RateLimitAssumption
  <1>2. (a + b) * Window = a * Window + b * Window /\ Limit * (x + y) = Limit * x + Limit * y
    BY <1>1, Distributes
  <1> DEFINE p == a * Window
             q == b * Window
             u == Limit * x
             v == Limit * y
  <1>3. p \in Int /\ q \in Int /\ u \in Int /\ v \in Int /\ p <= u /\ q <= v
    BY <1>1
  <1>4. p + q <= u + v
    <2> HIDE DEF p, q, u, v
    <2> QED  BY <1>3
  <1> QED  BY <1>2, <1>4

\* A bound may be given up on either side.
LEMMA RelaxBound ==
    ASSUME NEW a \in Int, NEW b \in Int, NEW x \in Int, NEW y \in Int,
           a <= b, x <= y, b * Window <= Limit * x
    PROVE  a * Window <= Limit * y
  <1>1. Window \in Nat /\ Limit \in Nat
    BY RateLimitAssumption
  <1>2. a * Window <= b * Window /\ Limit * x <= Limit * y
    BY <1>1, Monotone
  <1> DEFINE p == a * Window
             q == b * Window
             u == Limit * x
             v == Limit * y
  <1>3. p \in Int /\ q \in Int /\ u \in Int /\ v \in Int
    BY <1>1
  <1>4. p <= v
    <2> HIDE DEF p, q, u, v
    <2>1. p <= q /\ q <= u /\ u <= v
      BY <1>2 DEF p, q, u, v
    <2> QED  BY <1>3, <2>1
  <1> QED  BY <1>4

\* A full bucket is worth a window.
LEMMA FullBucket ==
    ASSUME NEW n \in Int, n <= Limit, NEW x \in Nat
    PROVE  n * Window <= Limit * (Window + x)
  <1>1. Limit * Window <= Limit * Window /\ 0 * Window <= Limit * x /\ n * Window <= Limit * Window
    BY Monotone, RateLimitAssumption
  <1>2. (n + 0) * Window <= Limit * (Window + x)
    BY <1>1, AddBounds, RateLimitAssumption
  <1> QED  BY <1>2

\* What the step lemmas need to know of the numbers.
LEMMA Numbers ==
    ASSUME IInv
    PROVE  /\ Passed \in Int /\ clock \in Nat /\ lag \in Nat
           /\ \A g \in Goroutine : now[g] \in Nat /\ now[g] <= clock
           /\ \A e \in Entry : /\ tokens[e] \in Nat /\ tokens[e] <= Limit
                              /\ lastUpdate[e] \in Nat /\ lastUpdate[e] <= clock
           /\ entries # None => entries \in Entry
           /\ Limit \in Nat \ {0} /\ Window \in Nat \ {0}
  BY RateLimitAssumption DEF IInv, TypeOK, Past, Passed

\* At the moment itself nobody has passed, and no bucket is overfull.
LEMMA MomentCovers ==
    ASSUME NEW p \in Int, NEW s \in Nat, NEW l \in Nat, IInv, Moment(p, s, l)
    PROVE  SinceInv(p, s, l)
  <1> USE Numbers DEF Moment
  <1>1. Passed - p = 0 /\ lag - l = 0 /\ clock - s \in Nat
    OBVIOUS
  <1>2. CASE entries = None
    <2>1. 0 * Window <= Limit * ((clock - s) + 0)
      BY <1>1, Monotone
    <2> QED  BY <1>1, <1>2, <2>1 DEF SinceInv, Covered
  <1>3. CASE entries # None /\ lastUpdate[entries] < s
    BY <1>3 DEF SinceInv, Covered
  <1>4. CASE entries # None /\ ~(lastUpdate[entries] < s)
    <2>1. (lastUpdate[entries] - s) + (lag - l) \in Nat /\ (Passed - p) + tokens[entries] = tokens[entries]
      BY <1>1, <1>4
    <2>2. tokens[entries] * Window <= Limit * (Window + ((lastUpdate[entries] - s) + (lag - l)))
      BY <1>4, <2>1, FullBucket
    <2> QED  BY <1>4, <2>1, <2>2 DEF SinceInv, Covered
  <1> QED  BY <1>2, <1>3, <1>4

\* The stamps of requests under way do not go back behind s.
LEMMA StampsStay ==
    ASSUME NEW p \in Int, NEW s \in Nat, NEW l \in Nat, IInv, SinceInv(p, s, l), [Next]_vars
    PROVE  /\ s <= clock' /\ l <= lag' /\ lag <= lag'
           /\ \A g \in Goroutine : pc'[g] # "idle" => s <= now'[g]
  <1> USE Numbers DEF SinceInv
  <1>1. CASE Tick \/ Cleanup \/ CleanupStart \/ UNCHANGED vars
    BY <1>1 DEF Tick, Cleanup, CleanupStart, vars, entry, history
  <1>2. ASSUME NEW g \in Goroutine, Stamp(g) \/ Load(g) \/ Take(g) \/ \E e \in Entry : Store(g, e)
        PROVE  /\ s <= clock' /\ l <= lag' /\ lag <= lag'
               /\ \A q \in Goroutine : pc'[q] # "idle" => s <= now'[q]
    <2>1. s <= clock' /\ l <= lag' /\ lag <= lag'
      BY <1>2 DEF Stamp, Load, Take, Store, entry, history
    <2>2. \A q \in Goroutine \ {g} : pc'[q] = pc[q] /\ now'[q] = now[q]
      BY <1>2 DEF Stamp, Load, Take, Store, Goto, IInv, TypeOK
    <2>3. pc'[g] # "idle" => s <= now'[g]
      BY <1>2 DEF Stamp, Load, Take, Store, Goto, IInv, TypeOK
    <2> QED  BY <2>1, <2>2, <2>3
  <1> QED  BY <1>1, <1>2 DEF Next

\* Storing an entry hands out a full bucket, for which the time since the
\* stamp is put down as lag.
LEMMA StoreCovers ==
    ASSUME NEW p \in Int, NEW s \in Nat, NEW l \in Nat, IInv, SinceInv(p, s, l),
           NEW g \in Goroutine, NEW e \in Entry, Store(g, e)
    PROVE  Covered(p, s, l)'
  <1> USE Numbers
  <1>1. /\ Passed' = Passed /\ entries' = e /\ entries = None /\ e # None /\ s <= now[g]
        /\ tokens'[e] = Limit /\ lastUpdate'[e] = now[g] /\ lag' = lag + (clock - now[g])
    BY RateLimitAssumption DEF IInv, TypeOK, SinceInv, Store, Passed
  <1>2. (Passed - p) * Window <= Limit * ((clock - s) + (lag - l))
    BY <1>1 DEF SinceInv, Covered
  <1>3. Limit * Window <= Limit * Window
    OBVIOUS
  <1>4. ((Passed - p) + Limit) * Window <= Limit * (((clock - s) + (lag - l)) + Window)
    BY <1>2, <1>3, AddBounds
  <1>5. ((clock - s) + (lag - l)) + Window = Window + ((now[g] - s) + (lag' - l))
    BY <1>1
  <1> QED  BY <1>1, <1>4, <1>5 DEF Covered

\* A request admitted by the entry of the map is paid for by a token of that
\* entry; one admitted by any other entry is a stray.
LEMMA TakeCovers ==
    ASSUME NEW p \in Int, NEW s \in Nat, NEW l \in Nat, IInv, SinceInv(p, s, l),
           NEW g \in Goroutine, Take(g)
    PROVE  Covered(p, s, l)'
  <1> USE Numbers
  <1> DEFINE e == held[g]
             ok == Refilled(g) > 0
  <1>1. e \in Entry /\ e # None
    BY RateLimitAssumption DEF Take, IInv, Holding
  <1>2. /\ Refilled(g) \in 0..Limit
        /\ Refilled(g) <= tokens[e] + Recovered(g)
    BY <1>1, RefilledBound DEF IInv
  <1>3. /\ Recovered(g) \in Nat
        /\ now[g] <= lastUpdate[e] => Recovered(g) = 0
        /\ now[g] > lastUpdate[e] => Recovered(g) * Window <= (now[g] - lastUpdate[e]) * Limit
    BY <1>1, RecoveredBound DEF IInv
  <1>4. /\ lag' \in Nat /\ lag <= lag' /\ s <= now[g] /\ l <= lag
        /\ now[g] < lastUpdate[e] => lag' = lag + (clock - now[g])
    BY <1>1 DEF Take, SinceInv, IInv, TypeOK
  <1>5. entries' = entries /\ clock' = clock
    BY DEF Take
  <1>6. CASE entries = e
    <2>1. /\ (Passed' - p) + tokens'[e] = (Passed - p) + Refilled(g)
          /\ lastUpdate'[e] = now[g]
      BY <1>1, <1>2, <1>6 DEF Take, Passed, IInv, TypeOK
    <2>2. SUFFICES ((Passed - p) + Refilled(g)) * Window
                     <= Limit * (Window + ((now[g] - s) + (lag' - l)))
      BY <1>1, <1>4, <1>5, <1>6, <2>1 DEF Covered
    <2>3. CASE lastUpdate[e] < s
      <3>1. (Passed - p) + Refilled(g) = Refilled(g) /\ (now[g] - s) + (lag' - l) \in Nat
        BY <1>1, <1>2, <1>4, <1>6, <2>3 DEF SinceInv, Covered
      <3> QED  BY <1>2, <3>1, FullBucket
    <2>4. CASE ~(lastUpdate[e] < s)
      <3>1. ((Passed - p) + tokens[e]) * Window <= Limit * (Window + ((lastUpdate[e] - s) + (lag - l)))
        BY <1>1, <1>6, <2>4 DEF SinceInv, Covered
      <3>2. CASE now[g] <= lastUpdate[e]
        <4>1. (Passed - p) + Refilled(g) <= (Passed - p) + tokens[e]
          BY <1>1, <1>2, <1>3, <3>2
        <4>2. Window + ((lastUpdate[e] - s) + (lag - l)) <= Window + ((now[g] - s) + (lag' - l))
          BY <1>1, <1>4, <3>2
        <4> QED  BY <1>1, <1>2, <1>4, <3>1, <4>1, <4>2, RelaxBound
      <3>3. CASE now[g] > lastUpdate[e]
        <4>1. Recovered(g) * Window <= Limit * (now[g] - lastUpdate[e])
          BY <1>1, <1>3, <3>3
        <4>2. (((Passed - p) + tokens[e]) + Recovered(g)) * Window
                <= Limit * ((Window + ((lastUpdate[e] - s) + (lag - l))) + (now[g] - lastUpdate[e]))
          BY <1>1, <1>3, <3>1, <4>1, AddBounds
        <4>3. (Passed - p) + Refilled(g) <= ((Passed - p) + tokens[e]) + Recovered(g)
          BY <1>1, <1>2, <1>3
        <4>4. (Window + ((lastUpdate[e] - s) + (lag - l))) + (now[g] - lastUpdate[e])
                <= Window + ((now[g] - s) + (lag' - l))
          BY <1>1, <1>4
        <4> QED  BY <1>1, <1>2, <1>3, <1>4, <4>2, <4>3, <4>4, RelaxBound
      <3> QED  BY <1>1, <3>2, <3>3
    <2> QED  BY <2>3, <2>4
  <1>7. CASE entries # e
    <2>1. Passed' = Passed
      BY <1>7 DEF Take, Passed, IInv, TypeOK
    <2>2. CASE entries = None
      <3>1. (Passed - p) * Window <= Limit * ((clock - s) + (lag - l))
        BY <2>2 DEF SinceInv, Covered
      <3>2. (Passed - p) * Window <= Limit * ((clock - s) + (lag' - l))
        BY <1>4, <3>1, RelaxBound
      <3> QED  BY <1>5, <2>1, <2>2, <3>2 DEF Covered
    <2>3. CASE entries # None
      <3>1. /\ entries \in Entry /\ tokens'[entries] = tokens[entries]
            /\ lastUpdate'[entries] = lastUpdate[entries]
        BY <1>7, <2>3 DEF Take, IInv, TypeOK
      <3>2. CASE lastUpdate[entries] < s
        BY <1>5, <2>1, <2>3, <3>1, <3>2 DEF SinceInv, Covered
      <3>3. CASE ~(lastUpdate[entries] < s)
        <4>1. ((Passed - p) + tokens[entries]) * Window
                <= Limit * (Window + ((lastUpdate[entries] - s) + (lag - l)))
          BY <2>3, <3>3 DEF SinceInv, Covered
        <4>2. ((Passed - p) + tokens[entries]) * Window
                <= Limit * (Window + ((lastUpdate[entries] - s) + (lag' - l)))
          BY <1>4, <3>1, <4>1, RelaxBound
        <4> QED  BY <1>5, <2>1, <2>3, <3>1, <3>3, <4>2 DEF Covered
      <3> QED  BY <3>2, <3>3
    <2> QED  BY <2>2, <2>3
  <1> QED  BY <1>6, <1>7

\* An entry that is dropped has been idle for a window, in which it would have
\* filled up.
LEMMA CleanupCovers ==
    ASSUME NEW p \in Int, NEW s \in Nat, NEW l \in Nat, IInv, SinceInv(p, s, l), Cleanup
    PROVE  Covered(p, s, l)'
  <1> USE Numbers DEF SinceInv
  <1>1. UNCHANGED <<clock, tokens, lastUpdate, lag, Passed>>
    BY DEF Cleanup, entry, history, Passed
  <1>2. CASE entries' = entries
    BY <1>1, <1>2 DEF Covered
  <1>3. CASE entries' # entries
    <2>1. entries # None /\ Stale(entries) /\ entries' = None /\ sweep # None
      BY <1>3 DEF Cleanup
    <2>2. sweep \in Nat /\ sweep <= clock
      BY <2>1 DEF IInv, TypeOK, Past
    <2>3. SUFFICES (Passed - p) * Window <= Limit * ((clock - s) + (lag - l))
      BY <1>1, <2>1 DEF Covered
    <2>4. CASE lastUpdate[entries] < s
      <3>1. Passed - p = 0 /\ (clock - s) + (lag - l) \in Nat
        BY <2>1, <2>4 DEF Covered
      <3>2. 0 * Window <= Limit * ((clock - s) + (lag - l))
        BY <3>1, Monotone
      <3> QED  BY <3>1, <3>2
    <2>5. CASE ~(lastUpdate[entries] < s)
      <3>1. ((Passed - p) + tokens[entries]) * Window
              <= Limit * (Window + ((lastUpdate[entries] - s) + (lag - l)))
        BY <2>1, <2>5 DEF Covered
      <3>2. Window + ((lastUpdate[entries] - s) + (lag - l)) <= (clock - s) + (lag - l)
        BY <2>1, <2>2 DEF Stale
      <3>3. Passed - p <= (Passed - p) + tokens[entries]
        BY <2>1
      <3> QED  BY <2>1, <3>1, <3>2, <3>3, RelaxBound
    <2> QED  BY <2>4, <2>5
  <1> QED  BY <1>2, <1>3

\* Time only helps.
LEMMA TickCovers ==
    ASSUME NEW p \in Int, NEW s \in Nat, NEW l \in Nat, IInv, SinceInv(p, s, l), Tick
    PROVE  Covered(p, s, l)'
  <1> USE Numbers DEF SinceInv
  <1>1. UNCHANGED <<entries, tokens, lastUpdate, lag, Passed>> /\ clock' = clock + 1
    BY DEF Tick, entry, history, Passed
  <1>2. CASE entries # None
    BY <1>1, <1>2 DEF Covered
  <1>3. CASE entries = None
    <2>1. (Passed - p) * Window <= Limit * ((clock - s) + (lag - l))
      BY <1>3 DEF Covered
    <2>2. (Passed - p) * Window <= Limit * ((clock' - s) + (lag - l))
      BY <1>1, <2>1, RelaxBound
    <2> QED  BY <1>1, <1>3, <2>2 DEF Covered
  <1> QED  BY <1>2, <1>3

\* Whatever was covered stays so.
LEMMA SinceStep ==
    ASSUME NEW p \in Int, NEW s \in Nat, NEW l \in Nat
    PROVE  IInv /\ SinceInv(p, s, l) /\ [Next]_vars => SinceInv(p, s, l)'
  <1> SUFFICES ASSUME IInv, SinceInv(p, s, l), [Next]_vars PROVE SinceInv(p, s, l)'
    OBVIOUS
  <1>0. /\ s <= clock' /\ l <= lag'
        /\ \A g \in Goroutine : pc'[g] # "idle" => s <= now'[g]
    BY StampsStay
  <1> SUFFICES Covered(p, s, l)'
    BY <1>0 DEF SinceInv
  <1>1. CASE (\E g \in Goroutine : Stamp(g) \/ Load(g)) \/ CleanupStart \/ UNCHANGED vars
    <2>1. UNCHANGED <<clock, entries, tokens, lastUpdate, lag, Passed>>
      BY <1>1 DEF Stamp, Load, CleanupStart, vars, entry, history, Passed
    <2> QED  BY <2>1 DEF SinceInv, Covered
  <1>2. CASE Tick
    BY <1>2, TickCovers
  <1>3. CASE Cleanup
    BY <1>3, CleanupCovers
  <1>4. ASSUME NEW g \in Goroutine, Take(g) PROVE Covered(p, s, l)'
    BY <1>4, TakeCovers
  <1>5. ASSUME NEW g \in Goroutine, NEW e \in Entry, Store(g, e) PROVE Covered(p, s, l)'
    BY <1>5, StoreCovers
  <1> QED  BY <1>1, <1>2, <1>3, <1>4, <1>5 DEF Next

\* The bucket's tokens only tighten the bound.
LEMMA CoveredBounds ==
    ASSUME NEW p \in Int, NEW s \in Nat, NEW l \in Nat, IInv, SinceInv(p, s, l)
    PROVE  Since(p, s, l)
  <1> USE Numbers DEF SinceInv
  <1>1. CASE entries = None
    <2>1. (Passed - p) * Window <= Limit * ((clock - s) + (lag - l))
      BY <1>1 DEF Covered
    <2> QED  BY <2>1, RelaxBound DEF Since
  <1>2. CASE entries # None /\ lastUpdate[entries] < s
    <2>1. Passed - p = 0 /\ (clock - s) + (lag - l) \in Nat
      BY <1>2 DEF Covered
    <2>2. 0 * Window <= Limit * (Window + ((clock - s) + (lag - l)))
      BY <2>1, FullBucket
    <2> QED  BY <2>1, <2>2 DEF Since
  <1>3. CASE entries # None /\ ~(lastUpdate[entries] < s)
    <2>1. ((Passed - p) + tokens[entries]) * Window
            <= Limit * (Window + ((lastUpdate[entries] - s) + (lag - l)))
      BY <1>3 DEF Covered
    <2>2. Window + ((lastUpdate[entries] - s) + (lag - l)) <= Window + (clock - s) + (lag - l)
      BY <1>3
    <2>3. Passed - p <= (Passed - p) + tokens[entries]
      BY <1>3
    <2> QED  BY <1>3, <2>1, <2>2, <2>3, RelaxBound DEF Since
  <1> QED  BY <1>1, <1>2, <1>3

-----------------------------------------------------------------------------
\* The limiter's own invariant.
THEOREM Invariance == Spec => []IInv
  BY InitIInv, StepIInv, PTL DEF Spec

\* Type correctness of the limiter, for every limit, window and number of
\* goroutines; no bucket ever holds more than Limit tokens or fewer than none.
THEOREM TypeCorrect == Spec => []TypeOK
  <1>1. IInv => TypeOK
    BY DEF IInv
  <1> QED  BY <1>1, Invariance, PTL

\* From any moment on, and up to any later one, an address gets Limit requests
\* at once and Limit per minute, but for what the two races of Allow add.  An
\* address that was idle has not saved anything up.
THEOREM RateIsBoundedSince ==
    ASSUME NEW p \in Int, NEW s \in Nat, NEW l \in Nat
    PROVE  Spec => [](Moment(p, s, l) => []Since(p, s, l))
  <1>1. IInv /\ Moment(p, s, l) => SinceInv(p, s, l)
    BY MomentCovers
  <1>2. IInv /\ SinceInv(p, s, l) /\ [Next]_vars => SinceInv(p, s, l)'
    BY SinceStep
  <1>3. IInv /\ SinceInv(p, s, l) => Since(p, s, l)
    BY CoveredBounds
  <1> QED  BY <1>1, <1>2, <1>3, Invariance, PTL DEF Spec

\* In particular from the start on, whatever the limit, the window, the number
\* of goroutines and the moments at which cleanup runs.
THEOREM RateIsBounded == Spec => []RateBound
  <1>1. Init => Moment(0, 0, 0)
    BY DEF Init, Moment, Passed
  <1>2. IInv /\ Since(0, 0, 0) => RateBound
    <2> SUFFICES ASSUME IInv, Since(0, 0, 0) PROVE RateBound
      OBVIOUS
    <2>1. Passed - 0 = admitted - strays /\ Window + (clock - 0) + (lag - 0) = Window + clock + lag
      BY Numbers DEF Passed
    <2> QED  BY <2>1 DEF Since, RateBound
  <1>3. IInv /\ Moment(0, 0, 0) => SinceInv(0, 0, 0)
    BY MomentCovers
  <1>4. IInv /\ SinceInv(0, 0, 0) /\ [Next]_vars => SinceInv(0, 0, 0)'
    BY SinceStep
  <1>5. IInv /\ SinceInv(0, 0, 0) => Since(0, 0, 0)
    BY CoveredBounds
  <1> QED  BY <1>1, <1>2, <1>3, <1>4, <1>5, Invariance, PTL DEF Spec
=============================================================================
