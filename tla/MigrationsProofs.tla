-------------------------- MODULE MigrationsProofs --------------------------
(***************************************************************************)
(* Proofs about Migrations for every number of servers and operators and   *)
(* any number of kills and rollbacks.                                      *)
(***************************************************************************)
EXTENDS Migrations, TLAPS

\* Only a migration of the list is executed.
Listed == \A p \in Process : pc[p] = "exec" => version[p] \in Versions

\* What no statement of an Up migration takes away.
Ready == Mailbox \subseteq tables /\ fulltext
Indexed == fulltext => "messages" \in tables

\* The statements of 001 that a server has behind it have had their effect.
Behind(p) ==
    pc[p] = "exec" /\ version[p] = 1 =>
        /\ stmt[p] > 1 => "messages" \in tables
        /\ stmt[p] > 2 => "message_recipients" \in tables
        /\ stmt[p] > 3 => "attachments" \in tables
        /\ stmt[p] > 4 => "ingest_events" \in tables
        /\ stmt[p] > 5 => fulltext

\* A server has the migrations before its own recorded, by itself or another.
Climbs(p) ==
    /\ pc[p] \in {"check", "exec"} =>
          version[p] >= 1 /\ \A u \in Versions : u < version[p] => u \in applied
    /\ pc[p] = "serving" => 1 \in applied

\* As long as nobody has rolled back.
Forward ==
    rollbacks = 0 =>
        /\ \A p \in Operator : pc[p] = "down"
        /\ \A p \in Server : Climbs(p) /\ Behind(p)
        /\ \A u, v \in Versions : v \in applied /\ u <= v => u \in applied
        /\ 1 \in applied => Ready
        /\ Indexed

IInv == TypeOK /\ Listed /\ Forward

-----------------------------------------------------------------------------
\* The statements of the migrations, one by one.
LEMMA Statements ==
    /\ Len(Up(1)) = 5 /\ Len(Up(2)) = 2 /\ Len(Up(3)) = 2
    /\ Len(Down(1)) = 5 /\ Len(Down(2)) = 2 /\ Len(Down(3)) = 2
    /\ Up(1)[1] = Create("messages") /\ Up(1)[2] = Create("message_recipients")
    /\ Up(1)[3] = Create("attachments") /\ Up(1)[4] = Create("ingest_events")
    /\ Up(1)[5] = AddIndex
    /\ Up(2)[1] = Create("share_tokens") /\ Up(2)[2] = Create("telegram_deliveries")
    /\ Up(3)[1] = Drop("telegram_deliveries") /\ Up(3)[2] = Drop("share_tokens")
    /\ Down(1)[1] = DropIndex /\ Down(1)[2] = Drop("ingest_events")
    /\ Down(1)[3] = Drop("attachments") /\ Down(1)[4] = Drop("message_recipients")
    /\ Down(1)[5] = Drop("messages")
    /\ Down(2)[1] = Drop("telegram_deliveries") /\ Down(2)[2] = Drop("share_tokens")
    /\ Down(3)[1] = Create("share_tokens") /\ Down(3)[2] = Create("telegram_deliveries")
  BY DEF Up, Down

\* What each kind of statement does to the schema.
LEMMA Effects ==
    ASSUME NEW t
    PROVE  /\ Effect(Create(t)) => tables' = tables \cup {t} /\ fulltext' = (fulltext /\ "messages" \in tables')
           /\ Effect(Drop(t)) => tables' = tables \ {t} /\ fulltext' = (fulltext /\ "messages" \in tables')
           /\ Effect(AddIndex) => tables' = tables /\ fulltext' = TRUE
           /\ Effect(DropIndex) => tables' = tables /\ fulltext' = FALSE
           /\ Accepted(Create(t)) <=> (t \in Children => "messages" \in tables)
           /\ Accepted(Drop(t)) <=> (t = "messages" => tables \cap Children = {})
           /\ Accepted(AddIndex) <=> "messages" \in tables /\ ~fulltext
           /\ Accepted(DropIndex) <=> fulltext
  BY DEF Effect, Accepted, Create, Drop, AddIndex, DropIndex

\* A statement of an Up migration creates a table, adds the index or drops a
\* table of 002; one of a Down migration drops, or creates a table of 002.
LEMMA Kinds ==
    ASSUME NEW v \in Versions, NEW s \in Nat \ {0}
    PROVE  /\ s <= Len(Up(v)) => s <= 5 /\
                \/ Up(v)[s] = AddIndex
                \/ \E t \in Mailbox \cup Share : Up(v)[s] = Create(t)
                \/ \E t \in Share : Up(v)[s] = Drop(t)
           /\ s <= Len(Down(v)) => s <= 5 /\
                \/ Down(v)[s] = DropIndex
                \/ \E t \in Mailbox \cup Share : Down(v)[s] = Drop(t)
                \/ \E t \in Share : Down(v)[s] = Create(t)
  <1>1. CASE v = 1
    <2>1. s <= 5 => s = 1 \/ s = 2 \/ s = 3 \/ s = 4 \/ s = 5
      OBVIOUS
    <2> QED  BY <1>1, <2>1, Statements DEF Mailbox, Share
  <1>2. CASE v = 2 \/ v = 3
    <2>1. s <= 2 => s = 1 \/ s = 2
      OBVIOUS
    <2>2. Len(Up(v)) = 2 /\ Len(Down(v)) = 2
      BY <1>2, Statements
    <2> QED  BY <1>2, <2>1, <2>2, Statements DEF Mailbox, Share
  <1> QED  BY <1>1, <1>2 DEF Versions

\* Every statement leaves the schema's variables in their types.
LEMMA EffectType ==
    ASSUME TypeOK, NEW v \in Versions, NEW s \in Nat \ {0},
           \/ s <= Len(Up(v)) /\ Effect(Up(v)[s])
           \/ s <= Len(Down(v)) /\ Effect(Down(v)[s])
    PROVE  tables' \subseteq Mailbox \cup Share /\ fulltext' \in BOOLEAN /\ s + 1 \in 1..6
  <1>1. s + 1 \in 1..6
    BY Kinds
  <1>2. CASE Effect(AddIndex) \/ Effect(DropIndex)
    BY <1>1, <1>2, Effects DEF TypeOK
  <1>3. ASSUME NEW t \in Mailbox \cup Share, Effect(Create(t)) \/ Effect(Drop(t))
        PROVE  tables' \subseteq Mailbox \cup Share /\ fulltext' \in BOOLEAN
    <2>1. tables' = tables \cup {t} \/ tables' = tables \ {t}
      BY <1>3, Effects
    <2>2. fulltext' = (fulltext /\ "messages" \in tables')
      BY <1>3, Effects
    <2>3. fulltext' \in BOOLEAN
      BY <2>2
    <2> QED  BY <2>1, <2>3 DEF TypeOK
  <1> QED  BY <1>1, <1>2, <1>3, Kinds

\* A statement of an Up migration keeps the tables and the index of ingest.
LEMMA UpKeeps ==
    ASSUME TypeOK, Indexed, NEW v \in Versions, NEW s \in Nat \ {0}, s <= Len(Up(v)),
           Accepted(Up(v)[s]), Effect(Up(v)[s])
    PROVE  /\ \A t \in Mailbox : t \in tables => t \in tables'
           /\ fulltext => fulltext'
           /\ Indexed'
  <1>1. "messages" \in Mailbox /\ Mailbox \cap Share = {}
    BY DEF Mailbox, Share
  <1>2. CASE Up(v)[s] = AddIndex
    <2>1. tables' = tables /\ fulltext' = TRUE /\ "messages" \in tables
      BY <1>2, Effects
    <2> QED  BY <2>1 DEF Indexed
  <1>3. ASSUME NEW t \in Mailbox \cup Share, Up(v)[s] = Create(t)
        PROVE  tables \subseteq tables' /\ fulltext' = (fulltext /\ "messages" \in tables')
    BY <1>3, Effects
  <1>4. ASSUME NEW t \in Share, Up(v)[s] = Drop(t)
        PROVE  tables' = tables \ {t} /\ fulltext' = (fulltext /\ "messages" \in tables')
    BY <1>4, Effects
  <1>5. CASE \/ \E t \in Mailbox \cup Share : Up(v)[s] = Create(t)
             \/ \E t \in Share : Up(v)[s] = Drop(t)
    <2>1. \A t \in Mailbox : t \in tables => t \in tables'
      BY <1>1, <1>3, <1>4, <1>5
    <2>2. fulltext' = (fulltext /\ "messages" \in tables')
      BY <1>3, <1>4, <1>5
    <2> QED  BY <1>1, <2>1, <2>2 DEF Indexed
  <1> QED  BY <1>2, <1>5, Effects, Kinds

-----------------------------------------------------------------------------
\* An empty database and no process.
LEMMA InitIInv == Init => IInv
  <1> SUFFICES ASSUME Init PROVE IInv
    OBVIOUS
  <1>1. TypeOK
    <2>1. tables \subseteq Mailbox \cup Share /\ fulltext \in BOOLEAN /\ applied \subseteq Versions
      BY DEF Init
    <2>2. kills \in 0..MaxKills /\ rollbacks \in 0..MaxRollbacks
      <3>1. kills = 0 /\ rollbacks = 0
        BY DEF Init
      <3> QED  BY <3>1, MigrationsAssumption
    <2>3. overlap \in BOOLEAN
      BY DEF Init
    <2>4. pc \in [Process -> PC] /\ version \in [Process -> 0..4] /\ stmt \in [Process -> 1..6]
      BY DEF Init, PC
    <2> QED  BY <2>1, <2>2, <2>3, <2>4 DEF TypeOK
  <1>2. Listed
    BY DEF Init, Listed
  <1>3. \A p \in Server : Climbs(p) /\ Behind(p)
    BY DEF Init, Climbs, Behind, Process
  <1>4. Forward
    BY <1>3 DEF Init, Forward, Indexed, Process
  <1> QED  BY <1>1, <1>2, <1>4 DEF IInv

\* Where p goes by Goto, and that nobody else moves.
LEMMA GotoMoves ==
    ASSUME TypeOK, NEW p \in Process, NEW there, NEW v, NEW s, Goto(p, there, v, s)
    PROVE  /\ pc'[p] = there /\ version'[p] = v /\ stmt'[p] = s
           /\ \A q \in Process \ {p} :
                pc'[q] = pc[q] /\ version'[q] = version[q] /\ stmt'[q] = stmt[q]
           /\ there \in PC => pc' \in [Process -> PC]
           /\ v \in 0..4 => version' \in [Process -> 0..4]
           /\ s \in 1..6 => stmt' \in [Process -> 1..6]
  BY DEF Goto, TypeOK

\* A step that moves one process and leaves the database alone.
LEMMA MoveStep ==
    ASSUME IInv, NEW p \in Process, NEW there \in PC, NEW v \in 0..4,
           Goto(p, there, v, 1), UNCHANGED <<schema, applied>>,
           kills' \in 0..MaxKills, rollbacks' \in 0..MaxRollbacks, overlap' \in BOOLEAN,
           there = "exec" => v \in Versions,
           rollbacks' = 0 =>
             /\ rollbacks = 0
             /\ p \in Operator => there = "down"
             /\ p \in Server =>
                  /\ there \in {"check", "exec"} =>
                       v >= 1 /\ \A u \in Versions : u < v => u \in applied
                  /\ there = "serving" => 1 \in applied
    PROVE  IInv'
  <1> USE DEF IInv
  <1>1. /\ pc'[p] = there /\ version'[p] = v /\ stmt'[p] = 1
        /\ \A q \in Process \ {p} :
             pc'[q] = pc[q] /\ version'[q] = version[q] /\ stmt'[q] = stmt[q]
    BY GotoMoves
  <1>2. TypeOK'
    <2>1. 1 \in 1..6
      OBVIOUS
    <2>2. pc' \in [Process -> PC] /\ version' \in [Process -> 0..4] /\ stmt' \in [Process -> 1..6]
      BY <2>1, GotoMoves
    <2> QED  BY <2>2 DEF TypeOK, schema
  <1>3. Listed'
    BY <1>1 DEF Listed
  <1>4. Forward'
    <2> SUFFICES ASSUME rollbacks' = 0 PROVE Forward'
      BY DEF Forward
    <2>1. \A q \in Operator : pc'[q] = "down"
      BY <1>1 DEF Forward, Process
    <2>2. \A q \in Server : Climbs(q)'
      BY <1>1 DEF Forward, Climbs, Process
    <2>3. \A q \in Server : Behind(q)'
      <3> SUFFICES ASSUME NEW q \in Server PROVE Behind(q)'
        OBVIOUS
      <3>1. CASE q = p
        BY <1>1, <3>1 DEF Behind
      <3>2. CASE q # p
        BY <1>1, <3>2 DEF Forward, Behind, Process, schema
      <3> QED  BY <3>1, <3>2
    <2> QED  BY <2>1, <2>2, <2>3 DEF Forward, Ready, Indexed, schema
  <1> QED  BY <1>2, <1>3, <1>4

\* A server's statement takes nothing away and adds what it stands for.
LEMMA ExecIInv ==
    ASSUME IInv, NEW p \in Server, Exec(p), pc'[p] # "down"
    PROVE  IInv'
  <1> USE DEF IInv
  <1> DEFINE v == version[p]
             s == stmt[p]
  <1>1. p \in Process /\ v \in Versions /\ s \in Nat \ {0} /\ s <= Len(Up(v))
    BY DEF Exec, Listed, TypeOK, Process
  <1>2. /\ Accepted(Up(v)[s]) /\ Effect(Up(v)[s]) /\ Goto(p, "exec", v, s + 1)
        /\ UNCHANGED <<applied, kills, rollbacks, overlap>>
    BY <1>1, GotoMoves DEF Exec, Exit
  <1>3. /\ pc[p] = "exec" /\ pc'[p] = "exec" /\ version'[p] = v /\ stmt'[p] = s + 1
        /\ \A q \in Process \ {p} :
             pc'[q] = pc[q] /\ version'[q] = version[q] /\ stmt'[q] = stmt[q]
    BY <1>1, <1>2, GotoMoves DEF Exec
  <1>4. tables' \subseteq Mailbox \cup Share /\ fulltext' \in BOOLEAN /\ s + 1 \in 1..6
    BY <1>1, <1>2, EffectType
  <1> HIDE DEF v, s
  <1>5. TypeOK'
    <2>1. v \in 0..4 /\ "exec" \in PC
      BY <1>1 DEF Versions, PC
    <2>2. pc' \in [Process -> PC] /\ version' \in [Process -> 0..4] /\ stmt' \in [Process -> 1..6]
      BY <1>1, <1>2, <1>4, <2>1, GotoMoves
    <2> QED  BY <1>2, <1>4, <2>2 DEF TypeOK
  <1>6. Listed'
    BY <1>1, <1>3 DEF Listed
  <1>7. Forward'
    <2> SUFFICES ASSUME rollbacks = 0 PROVE Forward'
      BY <1>2 DEF Forward
    <2>1. /\ \A t \in Mailbox : t \in tables => t \in tables'
          /\ fulltext => fulltext'
          /\ Indexed'
      BY <1>1, <1>2, UpKeeps DEF Forward
    <2>2. \A q \in Operator : pc'[q] = "down"
      BY <1>1, <1>3, MigrationsAssumption DEF Forward, Process
    <2>3. \A q \in Server : Climbs(q)'
      BY <1>1, <1>2, <1>3 DEF Forward, Climbs, Process, v
    <2>4. \A q \in Server : Behind(q)'
      <3> SUFFICES ASSUME NEW q \in Server PROVE Behind(q)'
        OBVIOUS
      <3>1. "messages" \in Mailbox /\ "message_recipients" \in Mailbox
            /\ "attachments" \in Mailbox /\ "ingest_events" \in Mailbox
        BY DEF Mailbox
      <3>2. CASE q # p
        BY <1>3, <2>1, <3>1, <3>2 DEF Forward, Behind, Process
      <3>3. CASE q = p /\ v = 1
        <4>1. Behind(p)
          BY DEF Forward
        <4>2. /\ s = 1 => "messages" \in tables'
              /\ s = 2 => "message_recipients" \in tables'
              /\ s = 3 => "attachments" \in tables'
              /\ s = 4 => "ingest_events" \in tables'
              /\ s = 5 => fulltext'
          BY <1>2, <3>3, Statements, Effects
        <4>3. s \in 1..5
          <5>1. Len(Up(v)) = 5
            BY <3>3, Statements
          <5> QED  BY <1>1, <5>1
        <4>4. /\ s > 1 => "messages" \in tables
              /\ s > 2 => "message_recipients" \in tables
              /\ s > 3 => "attachments" \in tables
              /\ s > 4 => "ingest_events" \in tables
          BY <1>3, <3>3, <4>1 DEF Behind, v, s
        <4>5. /\ s + 1 > 1 => "messages" \in tables'
              /\ s + 1 > 2 => "message_recipients" \in tables'
              /\ s + 1 > 3 => "attachments" \in tables'
              /\ s + 1 > 4 => "ingest_events" \in tables'
          BY <2>1, <3>1, <4>2, <4>3, <4>4
        <4>6. s + 1 > 5 => fulltext'
          BY <4>2, <4>3
        <4> QED  BY <1>3, <3>3, <4>5, <4>6 DEF Behind
      <3>4. CASE q = p /\ v # 1
        BY <1>3, <3>4 DEF Behind
      <3> QED  BY <3>2, <3>3, <3>4
    <2> QED  BY <1>2, <2>1, <2>2, <2>3, <2>4 DEF Forward, Ready
  <1> QED  BY <1>5, <1>6, <1>7

\* A server records a migration whose statements it has behind it.
LEMMA RecordIInv ==
    ASSUME IInv, NEW p \in Server, Record(p), pc'[p] # "down"
    PROVE  IInv'
  <1> USE DEF IInv
  <1> DEFINE v == version[p]
  <1>1. p \in Process /\ v \in Versions /\ pc[p] = "exec" /\ stmt[p] > Len(Up(v)) /\ stmt[p] \in 1..6
    BY DEF Record, Listed, TypeOK, Process
  <1>2. /\ applied' = applied \cup {v} /\ Goto(p, "check", v + 1, 1)
        /\ UNCHANGED <<schema, kills, rollbacks, overlap>>
    BY <1>1, GotoMoves DEF Record, Exit
  <1> HIDE DEF v
  <1>3. /\ pc'[p] = "check" /\ version'[p] = v + 1
        /\ \A q \in Process \ {p} :
             pc'[q] = pc[q] /\ version'[q] = version[q] /\ stmt'[q] = stmt[q]
    BY <1>1, <1>2, GotoMoves
  <1>4. TypeOK'
    <2>1. v + 1 \in 0..4 /\ "check" \in PC /\ 1 \in 1..6
      BY <1>1 DEF Versions, PC
    <2>2. pc' \in [Process -> PC] /\ version' \in [Process -> 0..4] /\ stmt' \in [Process -> 1..6]
      BY <1>1, <1>2, <2>1, GotoMoves
    <2> QED  BY <1>1, <1>2, <2>2 DEF TypeOK, schema
  <1>5. Listed'
    BY <1>3 DEF Listed
  <1>6. Forward'
    <2> SUFFICES ASSUME rollbacks = 0 PROVE Forward'
      BY <1>2 DEF Forward
    <2>1. v >= 1 /\ \A u \in Versions : u < v => u \in applied
      BY <1>1 DEF Forward, Climbs, v
    <2>2. \A q \in Operator : pc'[q] = "down"
      BY <1>1, <1>3, MigrationsAssumption DEF Forward, Process
    <2>3. \A q \in Server : Climbs(q)'
      <3> SUFFICES ASSUME NEW q \in Server PROVE Climbs(q)'
        OBVIOUS
      <3>1. CASE q # p
        BY <1>2, <1>3, <3>1 DEF Forward, Climbs, Process
      <3>2. CASE q = p
        BY <1>1, <1>2, <1>3, <2>1, <3>2 DEF Climbs, Versions
      <3> QED  BY <3>1, <3>2
    <2>4. \A q \in Server : Behind(q)'
      BY <1>1, <1>2, <1>3 DEF Forward, Behind, Process, schema
    <2>5. \A u, w \in Versions : w \in applied' /\ u <= w => u \in applied'
      BY <1>1, <1>2, <2>1 DEF Forward, Versions
    <2>6. 1 \in applied' => Ready'
      <3>1. CASE v = 1
        <4>1. stmt[p] = 6
          BY <1>1, <3>1, Statements
        <4>2. Behind(p)
          BY DEF Forward
        <4> QED  BY <1>1, <1>2, <3>1, <4>1, <4>2 DEF Behind, Ready, Mailbox, schema, v
      <3>2. CASE v # 1
        BY <1>2, <3>2 DEF Forward, Ready, schema
      <3> QED  BY <3>1, <3>2
    <2> QED  BY <1>2, <2>2, <2>3, <2>4, <2>5, <2>6 DEF Forward, Indexed, schema
  <1> QED  BY <1>4, <1>5, <1>6

\* The versions grow in order, and 001 stands behind every recorded version.
THEOREM Invariance == Spec => []IInv
  <1>1. IInv /\ [Next]_vars => IInv'
    <2> SUFFICES ASSUME IInv, [Next]_vars PROVE IInv'
      OBVIOUS
    <2> USE DEF IInv
    <2>0. /\ kills \in 0..MaxKills /\ rollbacks \in 0..MaxRollbacks /\ overlap \in BOOLEAN
          /\ Server \subseteq Process /\ Operator \subseteq Process
          /\ {"down", "check", "exec", "serving"} \subseteq PC /\ 1 \in 0..4
      BY DEF TypeOK, Process, PC
    <2>1. CASE UNCHANGED vars
      BY <2>1 DEF vars, TypeOK, Listed, Forward, Climbs, Behind, Ready, Indexed
    <2>2. ASSUME NEW p \in Process, Exit(p), UNCHANGED <<schema, applied, rollbacks, overlap>>,
                 kills' \in 0..MaxKills
          PROVE  IInv'
      BY <2>0, <2>2, MoveStep DEF Exit
    <2>3. ASSUME NEW p \in Server, Start(p) PROVE IInv'
      <3>1. /\ Goto(p, "check", 1, 1) /\ UNCHANGED <<schema, applied, kills, rollbacks>>
            /\ overlap' \in BOOLEAN
        BY <2>0, <2>3 DEF Start, Begin
      <3>2. \A u \in Versions : ~(u < 1)
        BY DEF Versions
      <3> QED  BY <2>0, <3>1, <3>2, MoveStep, MigrationsAssumption
    <2>4. ASSUME NEW p \in Server, Check(p) PROVE IInv'
      <3> DEFINE v == version[p]
      <3>1. v \in 0..4 /\ pc[p] = "check" /\ UNCHANGED <<schema, applied, kills, rollbacks, overlap>>
        BY <2>0, <2>4 DEF Check, TypeOK
      <3>2. rollbacks = 0 => v >= 1 /\ \A u \in Versions : u < v => u \in applied
        BY <3>1 DEF Forward, Climbs
      <3> HIDE DEF v
      <3>3. CASE v \notin Versions /\ Goto(p, "serving", 1, 1)
        <4>1. rollbacks = 0 => 1 \in applied
          BY <3>1, <3>2, <3>3 DEF Versions
        <4> QED  BY <2>0, <3>1, <3>3, <4>1, MoveStep, MigrationsAssumption
      <3>4. CASE v \in Versions /\ v \in applied /\ Goto(p, "check", v + 1, 1)
        <4>1. v + 1 \in 0..4
          BY <3>4 DEF Versions
        <4>2. rollbacks = 0 => v + 1 >= 1 /\ \A u \in Versions : u < v + 1 => u \in applied
          BY <3>1, <3>2, <3>4 DEF Versions
        <4> QED  BY <2>0, <3>1, <3>4, <4>1, <4>2, MoveStep, MigrationsAssumption
      <3>5. CASE v \in Versions /\ Goto(p, "exec", v, 1)
        BY <2>0, <3>1, <3>2, <3>5, MoveStep, MigrationsAssumption
      <3> QED  BY <2>4, <3>3, <3>4, <3>5 DEF Check, v
    <2>5. ASSUME NEW p \in Server, Exec(p) PROVE IInv'
      <3>1. CASE pc'[p] # "down"
        BY <2>5, <3>1, ExecIInv
      <3>2. CASE pc'[p] = "down"
        BY <2>0, <2>2, <2>5, <3>2, GotoMoves DEF Exec
      <3> QED  BY <3>1, <3>2
    <2>6. ASSUME NEW p \in Server, Record(p) PROVE IInv'
      <3>1. CASE pc'[p] # "down"
        BY <2>6, <3>1, RecordIInv
      <3>2. CASE pc'[p] = "down"
        BY <2>0, <2>2, <2>6, <3>2, GotoMoves DEF Record
      <3> QED  BY <3>1, <3>2
    <2>7. ASSUME NEW p \in Process, Stop(p) \/ Kill(p) PROVE IInv'
      <3>1. kills' \in 0..MaxKills
        BY <2>0, <2>7, MigrationsAssumption DEF Stop, Kill
      <3> QED  BY <2>2, <2>7, <3>1 DEF Stop, Kill
    <2>8. ASSUME NEW p \in Operator, RollbackStart(p) PROVE IInv'
      <3>1. /\ Goto(p, "check", 3, 1) /\ UNCHANGED <<schema, applied, kills>>
            /\ overlap' \in BOOLEAN
        BY <2>0, <2>8 DEF RollbackStart, Begin
      <3>2. rollbacks' \in 0..MaxRollbacks /\ rollbacks' # 0 /\ 3 \in 0..4
        BY <2>0, <2>8, MigrationsAssumption DEF RollbackStart
      <3> QED  BY <2>0, <3>1, <3>2, MoveStep
    <2>9. ASSUME NEW p \in Operator, RollbackCheck(p) PROVE IInv'
      <3> DEFINE v == version[p]
      <3>1. v \in 0..4 /\ rollbacks # 0 /\ UNCHANGED <<schema, applied, kills, rollbacks, overlap>>
        BY <2>0, <2>9 DEF RollbackCheck, TypeOK, Forward
      <3> HIDE DEF v
      <3>2. CASE Exit(p)
        BY <2>0, <2>2, <3>1, <3>2
      <3>3. CASE v \in Versions /\ Goto(p, "check", v - 1, 1)
        <4>1. v - 1 \in 0..4
          BY <3>3 DEF Versions
        <4> QED  BY <2>0, <3>1, <3>3, <4>1, MoveStep
      <3>4. CASE v \in Versions /\ Goto(p, "exec", v, 1)
        BY <2>0, <3>1, <3>4, MoveStep
      <3> QED  BY <2>9, <3>2, <3>3, <3>4 DEF RollbackCheck, v
    <2>10. ASSUME NEW p \in Operator, RollbackExec(p) \/ RollbackRecord(p) PROVE IInv'
      <3> DEFINE v == version[p]
                 s == stmt[p]
      <3>1. /\ v \in Versions /\ s \in Nat \ {0} /\ rollbacks # 0
            /\ UNCHANGED <<kills, rollbacks, overlap>>
        BY <2>0, <2>10 DEF RollbackExec, RollbackRecord, TypeOK, Forward, Listed
      <3>2. CASE RollbackExec(p) /\ ~Exit(p)
        <4>1. /\ s <= Len(Down(v)) /\ Effect(Down(v)[s]) /\ Goto(p, "exec", v, s + 1)
              /\ UNCHANGED applied
          BY <3>2 DEF RollbackExec
        <4>2. tables' \subseteq Mailbox \cup Share /\ fulltext' \in BOOLEAN /\ s + 1 \in 1..6
          BY <3>1, <4>1, EffectType
        <4> HIDE DEF v, s
        <4>3. v \in 0..4 /\ "exec" \in PC
          BY <3>1 DEF Versions, PC
        <4>4. /\ pc' \in [Process -> PC] /\ version' \in [Process -> 0..4]
              /\ stmt' \in [Process -> 1..6] /\ version'[p] = v
              /\ \A q \in Process \ {p} : pc'[q] = pc[q] /\ version'[q] = version[q]
          BY <2>0, <4>1, <4>2, <4>3, GotoMoves
        <4>5. TypeOK'
          BY <3>1, <4>1, <4>2, <4>4 DEF TypeOK
        <4>6. Listed'
          BY <3>1, <4>4 DEF Listed
        <4> QED  BY <3>1, <4>5, <4>6 DEF Forward
      <3>3. CASE RollbackExec(p) /\ Exit(p) /\ UNCHANGED schema
        BY <2>0, <2>2, <3>1, <3>3 DEF RollbackExec
      <3>4. CASE RollbackRecord(p)
        <4>1. Goto(p, "down", 1, 1) /\ UNCHANGED schema /\ applied' \subseteq applied
          BY <3>4 DEF RollbackRecord, Exit
        <4>2. 1 \in 1..6
          OBVIOUS
        <4>3. /\ pc' \in [Process -> PC] /\ version' \in [Process -> 0..4]
              /\ stmt' \in [Process -> 1..6] /\ pc'[p] = "down"
              /\ \A q \in Process \ {p} : pc'[q] = pc[q] /\ version'[q] = version[q]
          BY <2>0, <4>1, <4>2, GotoMoves
        <4>4. TypeOK'
          BY <3>1, <4>1, <4>3 DEF TypeOK, schema
        <4>5. Listed'
          BY <4>3 DEF Listed
        <4> QED  BY <3>1, <4>4, <4>5 DEF Forward
      <3>5. ~(Exit(p) /\ Goto(p, "exec", v, s + 1))
        BY <2>0, GotoMoves DEF Exit
      <3> QED  BY <2>10, <3>2, <3>3, <3>4, <3>5 DEF RollbackExec
    <2> QED
      BY <2>0, <2>1, <2>3, <2>4, <2>5, <2>6, <2>7, <2>8, <2>9, <2>10 DEF Next, ServerStep, OperatorStep
  <1> QED  BY <1>1, InitIInv, PTL DEF Spec

\* Type correctness of the migration runner, up and down.
THEOREM TypeCorrect == Spec => []TypeOK
  <1>1. IInv => TypeOK
    BY DEF IInv
  <1> QED  BY <1>1, Invariance, PTL

\* schema_migrations has no gap however many servers start at once and however
\* often one is killed in the middle.
THEOREM NoVersionSkipped == Spec => []VersionsInOrder
  <1>1. IInv => VersionsInOrder
    BY DEF IInv, TypeOK, Forward, VersionsInOrder, Versions
  <1> QED  BY <1>1, Invariance, PTL

\* A server that serves has the tables and the index that it queries.
THEOREM ServingIsReady == Spec => []MailboxReady
  <1>1. IInv => MailboxReady
    BY DEF IInv, Forward, Climbs, Ready, MailboxReady
  <1> QED  BY <1>1, Invariance, PTL

-----------------------------------------------------------------------------
(* Up and down, one process at a time and none killed.                     *)

\* The database between two migrations, the last recorded one being n.
Stands(n) ==
    /\ \A u \in Versions : u \in applied <=> u <= n
    /\ \A t \in Mailbox : t \in tables <=> n > 0
    /\ \A t \in Share : t \in tables <=> n = 2
    /\ fulltext <=> n > 0
Consistent == \E n \in 0..3 : Stands(n)

\* Which tables there are, the two of 002 last, and whether the index is.
Has(m, r, a, e, f, st, td) ==
    /\ "messages" \in tables <=> m
    /\ "message_recipients" \in tables <=> r
    /\ "attachments" \in tables <=> a
    /\ "ingest_events" \in tables <=> e
    /\ fulltext <=> f
    /\ "share_tokens" \in tables <=> st
    /\ "telegram_deliveries" \in tables <=> td

\* The database before statement s of Up(v), and of Down(v).
BeforeUp(v, s) ==
    /\ \A u \in Versions : u \in applied <=> u < v
    /\ v = 1 => Has(s > 1, s > 2, s > 3, s > 4, s > 5, FALSE, FALSE)
    /\ v = 2 => Has(TRUE, TRUE, TRUE, TRUE, TRUE, s > 1, s > 2)
    /\ v = 3 => Has(TRUE, TRUE, TRUE, TRUE, TRUE, s <= 2, s <= 1)
BeforeDown(v, s) ==
    /\ \A u \in Versions : u \in applied <=> u <= v
    /\ v = 1 => Has(s <= 5, s <= 4, s <= 3, s <= 2, s <= 1, FALSE, FALSE)
    /\ v = 2 => Has(TRUE, TRUE, TRUE, TRUE, TRUE, s <= 2, s <= 1)
    /\ v = 3 => Has(TRUE, TRUE, TRUE, TRUE, TRUE, s > 1, s > 2)

\* What holds while p is at it.
Midway(p) ==
    /\ pc[p] = "check" =>
         /\ Consistent
         /\ p \in Server =>
              version[p] >= 1 /\ \A u \in Versions : u < version[p] => u \in applied
         /\ p \in Operator => \A u \in Versions : u \in applied => u <= version[p]
    /\ pc[p] = "exec" =>
         /\ p \in Server => BeforeUp(version[p], stmt[p])
         /\ p \in Operator => BeforeDown(version[p], stmt[p])

Alone == \A p, q \in Process : p # q => Quiet(p) \/ Quiet(q)
AtRest == (\A p \in Process : Quiet(p)) => Consistent
Orderly == Alone /\ AtRest /\ \A p \in Process : Midway(p)
Sequential == kills = 0 /\ ~overlap => Orderly

\* When MySQL accepts a statement.
LEMMA Acceptable ==
    /\ \A t \in Mailbox \cup Share : "messages" \in tables => Accepted(Create(t))
    /\ Accepted(Create("messages"))
    /\ \A t \in (Mailbox \cup Share) \ {"messages"} : Accepted(Drop(t))
    /\ /\ "message_recipients" \notin tables /\ "attachments" \notin tables
       /\ "share_tokens" \notin tables /\ "telegram_deliveries" \notin tables
       => Accepted(Drop("messages"))
    /\ "messages" \in tables /\ ~fulltext => Accepted(AddIndex)
    /\ fulltext => Accepted(DropIndex)
  <1>1. "messages" \notin Children
    BY DEF Children
  <1>2. /\ "message_recipients" \notin tables /\ "attachments" \notin tables
        /\ "share_tokens" \notin tables /\ "telegram_deliveries" \notin tables
        => tables \cap Children = {}
    BY DEF Children
  <1> QED  BY <1>1, <1>2, Effects

\* What a statement changes, and that it changes nothing else.
LEMMA Changes ==
    /\ \A t : Effect(Create(t)) /\ (fulltext => "messages" \in tables) =>
         /\ t \in tables' /\ \A u : u # t => (u \in tables' <=> u \in tables)
         /\ fulltext' <=> fulltext
    /\ \A t : Effect(Drop(t)) /\ (fulltext => "messages" \in tables /\ t # "messages") =>
         /\ t \notin tables' /\ \A u : u # t => (u \in tables' <=> u \in tables)
         /\ fulltext' <=> fulltext
    /\ Effect(AddIndex) => tables' = tables /\ fulltext'
    /\ Effect(DropIndex) => tables' = tables /\ ~fulltext'
  <1>1. ASSUME NEW t, Effect(Create(t)), fulltext => "messages" \in tables
        PROVE  /\ t \in tables' /\ \A u : u # t => (u \in tables' <=> u \in tables)
               /\ fulltext' <=> fulltext
    <2>1. tables' = tables \cup {t}
      BY <1>1, Effects
    <2>2. fulltext' = (fulltext /\ "messages" \in tables')
      BY <1>1, Effects
    <2> QED  BY <1>1, <2>1, <2>2
  <1>2. ASSUME NEW t, Effect(Drop(t)), fulltext => "messages" \in tables /\ t # "messages"
        PROVE  /\ t \notin tables' /\ \A u : u # t => (u \in tables' <=> u \in tables)
               /\ fulltext' <=> fulltext
    <2>1. tables' = tables \ {t}
      BY <1>2, Effects
    <2>2. fulltext' = (fulltext /\ "messages" \in tables')
      BY <1>2, Effects
    <2> QED  BY <1>2, <2>1, <2>2
  <1>3. /\ Effect(AddIndex) => tables' = tables /\ fulltext'
        /\ Effect(DropIndex) => tables' = tables /\ ~fulltext'
    BY Effects
  <1> QED  BY <1>1, <1>2, <1>3

\* Run by one server alone, a migration is accepted, statement by statement.
LEMMA UpStatement ==
    ASSUME TypeOK, NEW v \in Versions, NEW s \in Nat \ {0}, s <= Len(Up(v)), BeforeUp(v, s)
    PROVE  /\ Accepted(Up(v)[s])
           /\ Effect(Up(v)[s]) /\ UNCHANGED applied => BeforeUp(v, s + 1)'
  <1>1. CASE v = 1
    <2>1. s = 1 \/ s = 2 \/ s = 3 \/ s = 4 \/ s = 5
      <3>1. Len(Up(v)) = 5
        BY <1>1, Statements
      <3> QED  BY <3>1
    <2>2. Has(s > 1, s > 2, s > 3, s > 4, s > 5, FALSE, FALSE)
      BY <1>1 DEF BeforeUp
    <2>3. CASE s = 1
      <3>1. Has(FALSE, FALSE, FALSE, FALSE, FALSE, FALSE, FALSE)
        BY <2>2, <2>3 DEF Has
      <3>2. Up(v)[s] = Create("messages")
        BY <1>1, <2>3, Statements
      <3>3. Accepted(Create("messages"))
        BY <3>1, Acceptable DEF Has, Mailbox, Share
      <3>4. Effect(Create("messages")) => Has(TRUE, FALSE, FALSE, FALSE, FALSE, FALSE, FALSE)'
        BY <3>1, Changes DEF Has
      <3>5. Has(TRUE, FALSE, FALSE, FALSE, FALSE, FALSE, FALSE)' /\ UNCHANGED applied => BeforeUp(v, s + 1)'
        BY <1>1, <2>3 DEF BeforeUp, Has
      <3> QED  BY <3>2, <3>3, <3>4, <3>5
    <2>4. CASE s = 2
      <3>1. Has(TRUE, FALSE, FALSE, FALSE, FALSE, FALSE, FALSE)
        BY <2>2, <2>4 DEF Has
      <3>2. Up(v)[s] = Create("message_recipients")
        BY <1>1, <2>4, Statements
      <3>3. Accepted(Create("message_recipients"))
        BY <3>1, Acceptable DEF Has, Mailbox, Share
      <3>4. Effect(Create("message_recipients")) => Has(TRUE, TRUE, FALSE, FALSE, FALSE, FALSE, FALSE)'
        BY <3>1, Changes DEF Has
      <3>5. Has(TRUE, TRUE, FALSE, FALSE, FALSE, FALSE, FALSE)' /\ UNCHANGED applied => BeforeUp(v, s + 1)'
        BY <1>1, <2>4 DEF BeforeUp, Has
      <3> QED  BY <3>2, <3>3, <3>4, <3>5
    <2>5. CASE s = 3
      <3>1. Has(TRUE, TRUE, FALSE, FALSE, FALSE, FALSE, FALSE)
        BY <2>2, <2>5 DEF Has
      <3>2. Up(v)[s] = Create("attachments")
        BY <1>1, <2>5, Statements
      <3>3. Accepted(Create("attachments"))
        BY <3>1, Acceptable DEF Has, Mailbox, Share
      <3>4. Effect(Create("attachments")) => Has(TRUE, TRUE, TRUE, FALSE, FALSE, FALSE, FALSE)'
        BY <3>1, Changes DEF Has
      <3>5. Has(TRUE, TRUE, TRUE, FALSE, FALSE, FALSE, FALSE)' /\ UNCHANGED applied => BeforeUp(v, s + 1)'
        BY <1>1, <2>5 DEF BeforeUp, Has
      <3> QED  BY <3>2, <3>3, <3>4, <3>5
    <2>6. CASE s = 4
      <3>1. Has(TRUE, TRUE, TRUE, FALSE, FALSE, FALSE, FALSE)
        BY <2>2, <2>6 DEF Has
      <3>2. Up(v)[s] = Create("ingest_events")
        BY <1>1, <2>6, Statements
      <3>3. Accepted(Create("ingest_events"))
        BY <3>1, Acceptable DEF Has, Mailbox, Share
      <3>4. Effect(Create("ingest_events")) => Has(TRUE, TRUE, TRUE, TRUE, FALSE, FALSE, FALSE)'
        BY <3>1, Changes DEF Has
      <3>5. Has(TRUE, TRUE, TRUE, TRUE, FALSE, FALSE, FALSE)' /\ UNCHANGED applied => BeforeUp(v, s + 1)'
        BY <1>1, <2>6 DEF BeforeUp, Has
      <3> QED  BY <3>2, <3>3, <3>4, <3>5
    <2>7. CASE s = 5
      <3>1. Has(TRUE, TRUE, TRUE, TRUE, FALSE, FALSE, FALSE)
        BY <2>2, <2>7 DEF Has
      <3>2. Up(v)[s] = AddIndex
        BY <1>1, <2>7, Statements
      <3>3. Accepted(AddIndex)
        BY <3>1, Acceptable DEF Has, Mailbox, Share
      <3>4. Effect(AddIndex) => Has(TRUE, TRUE, TRUE, TRUE, TRUE, FALSE, FALSE)'
        BY <3>1, Changes DEF Has
      <3>5. Has(TRUE, TRUE, TRUE, TRUE, TRUE, FALSE, FALSE)' /\ UNCHANGED applied => BeforeUp(v, s + 1)'
        BY <1>1, <2>7 DEF BeforeUp, Has
      <3> QED  BY <3>2, <3>3, <3>4, <3>5
    <2> QED  BY <2>1, <2>3, <2>4, <2>5, <2>6, <2>7
  <1>2. CASE v = 2
    <2>1. s = 1 \/ s = 2
      <3>1. Len(Up(v)) = 2
        BY <1>2, Statements
      <3> QED  BY <3>1
    <2>2. Has(TRUE, TRUE, TRUE, TRUE, TRUE, s > 1, s > 2)
      BY <1>2 DEF BeforeUp
    <2>3. CASE s = 1
      <3>1. Has(TRUE, TRUE, TRUE, TRUE, TRUE, FALSE, FALSE)
        BY <2>2, <2>3 DEF Has
      <3>2. Up(v)[s] = Create("share_tokens")
        BY <1>2, <2>3, Statements
      <3>3. Accepted(Create("share_tokens"))
        BY <3>1, Acceptable DEF Has, Mailbox, Share
      <3>4. Effect(Create("share_tokens")) => Has(TRUE, TRUE, TRUE, TRUE, TRUE, TRUE, FALSE)'
        BY <3>1, Changes DEF Has
      <3>5. Has(TRUE, TRUE, TRUE, TRUE, TRUE, TRUE, FALSE)' /\ UNCHANGED applied => BeforeUp(v, s + 1)'
        BY <1>2, <2>3 DEF BeforeUp, Has
      <3> QED  BY <3>2, <3>3, <3>4, <3>5
    <2>4. CASE s = 2
      <3>1. Has(TRUE, TRUE, TRUE, TRUE, TRUE, TRUE, FALSE)
        BY <2>2, <2>4 DEF Has
      <3>2. Up(v)[s] = Create("telegram_deliveries")
        BY <1>2, <2>4, Statements
      <3>3. Accepted(Create("telegram_deliveries"))
        BY <3>1, Acceptable DEF Has, Mailbox, Share
      <3>4. Effect(Create("telegram_deliveries")) => Has(TRUE, TRUE, TRUE, TRUE, TRUE, TRUE, TRUE)'
        BY <3>1, Changes DEF Has
      <3>5. Has(TRUE, TRUE, TRUE, TRUE, TRUE, TRUE, TRUE)' /\ UNCHANGED applied => BeforeUp(v, s + 1)'
        BY <1>2, <2>4 DEF BeforeUp, Has
      <3> QED  BY <3>2, <3>3, <3>4, <3>5
    <2> QED  BY <2>1, <2>3, <2>4
  <1>3. CASE v = 3
    <2>1. s = 1 \/ s = 2
      <3>1. Len(Up(v)) = 2
        BY <1>3, Statements
      <3> QED  BY <3>1
    <2>2. Has(TRUE, TRUE, TRUE, TRUE, TRUE, s <= 2, s <= 1)
      BY <1>3 DEF BeforeUp
    <2>3. CASE s = 1
      <3>1. Has(TRUE, TRUE, TRUE, TRUE, TRUE, TRUE, TRUE)
        BY <2>2, <2>3 DEF Has
      <3>2. Up(v)[s] = Drop("telegram_deliveries")
        BY <1>3, <2>3, Statements
      <3>3. Accepted(Drop("telegram_deliveries"))
        BY <3>1, Acceptable DEF Has, Mailbox, Share
      <3>4. Effect(Drop("telegram_deliveries")) => Has(TRUE, TRUE, TRUE, TRUE, TRUE, TRUE, FALSE)'
        BY <3>1, Changes DEF Has
      <3>5. Has(TRUE, TRUE, TRUE, TRUE, TRUE, TRUE, FALSE)' /\ UNCHANGED applied => BeforeUp(v, s + 1)'
        BY <1>3, <2>3 DEF BeforeUp, Has
      <3> QED  BY <3>2, <3>3, <3>4, <3>5
    <2>4. CASE s = 2
      <3>1. Has(TRUE, TRUE, TRUE, TRUE, TRUE, TRUE, FALSE)
        BY <2>2, <2>4 DEF Has
      <3>2. Up(v)[s] = Drop("share_tokens")
        BY <1>3, <2>4, Statements
      <3>3. Accepted(Drop("share_tokens"))
        BY <3>1, Acceptable DEF Has, Mailbox, Share
      <3>4. Effect(Drop("share_tokens")) => Has(TRUE, TRUE, TRUE, TRUE, TRUE, FALSE, FALSE)'
        BY <3>1, Changes DEF Has
      <3>5. Has(TRUE, TRUE, TRUE, TRUE, TRUE, FALSE, FALSE)' /\ UNCHANGED applied => BeforeUp(v, s + 1)'
        BY <1>3, <2>4 DEF BeforeUp, Has
      <3> QED  BY <3>2, <3>3, <3>4, <3>5
    <2> QED  BY <2>1, <2>3, <2>4
  <1> QED  BY <1>1, <1>2, <1>3 DEF Versions

\* Rolled back by one operator alone, so is its inverse.
LEMMA DownStatement ==
    ASSUME TypeOK, NEW v \in Versions, NEW s \in Nat \ {0}, s <= Len(Down(v)), BeforeDown(v, s)
    PROVE  /\ Accepted(Down(v)[s])
           /\ Effect(Down(v)[s]) /\ UNCHANGED applied => BeforeDown(v, s + 1)'
  <1>1. CASE v = 1
    <2>1. s = 1 \/ s = 2 \/ s = 3 \/ s = 4 \/ s = 5
      <3>1. Len(Down(v)) = 5
        BY <1>1, Statements
      <3> QED  BY <3>1
    <2>2. Has(s <= 5, s <= 4, s <= 3, s <= 2, s <= 1, FALSE, FALSE)
      BY <1>1 DEF BeforeDown
    <2>3. CASE s = 1
      <3>1. Has(TRUE, TRUE, TRUE, TRUE, TRUE, FALSE, FALSE)
        BY <2>2, <2>3 DEF Has
      <3>2. Down(v)[s] = DropIndex
        BY <1>1, <2>3, Statements
      <3>3. Accepted(DropIndex)
        BY <3>1, Acceptable DEF Has, Mailbox, Share
      <3>4. Effect(DropIndex) => Has(TRUE, TRUE, TRUE, TRUE, FALSE, FALSE, FALSE)'
        BY <3>1, Changes DEF Has
      <3>5. Has(TRUE, TRUE, TRUE, TRUE, FALSE, FALSE, FALSE)' /\ UNCHANGED applied => BeforeDown(v, s + 1)'
        BY <1>1, <2>3 DEF BeforeDown, Has
      <3> QED  BY <3>2, <3>3, <3>4, <3>5
    <2>4. CASE s = 2
      <3>1. Has(TRUE, TRUE, TRUE, TRUE, FALSE, FALSE, FALSE)
        BY <2>2, <2>4 DEF Has
      <3>2. Down(v)[s] = Drop("ingest_events")
        BY <1>1, <2>4, Statements
      <3>3. Accepted(Drop("ingest_events"))
        BY <3>1, Acceptable DEF Has, Mailbox, Share
      <3>4. Effect(Drop("ingest_events")) => Has(TRUE, TRUE, TRUE, FALSE, FALSE, FALSE, FALSE)'
        BY <3>1, Changes DEF Has
      <3>5. Has(TRUE, TRUE, TRUE, FALSE, FALSE, FALSE, FALSE)' /\ UNCHANGED applied => BeforeDown(v, s + 1)'
        BY <1>1, <2>4 DEF BeforeDown, Has
      <3> QED  BY <3>2, <3>3, <3>4, <3>5
    <2>5. CASE s = 3
      <3>1. Has(TRUE, TRUE, TRUE, FALSE, FALSE, FALSE, FALSE)
        BY <2>2, <2>5 DEF Has
      <3>2. Down(v)[s] = Drop("attachments")
        BY <1>1, <2>5, Statements
      <3>3. Accepted(Drop("attachments"))
        BY <3>1, Acceptable DEF Has, Mailbox, Share
      <3>4. Effect(Drop("attachments")) => Has(TRUE, TRUE, FALSE, FALSE, FALSE, FALSE, FALSE)'
        BY <3>1, Changes DEF Has
      <3>5. Has(TRUE, TRUE, FALSE, FALSE, FALSE, FALSE, FALSE)' /\ UNCHANGED applied => BeforeDown(v, s + 1)'
        BY <1>1, <2>5 DEF BeforeDown, Has
      <3> QED  BY <3>2, <3>3, <3>4, <3>5
    <2>6. CASE s = 4
      <3>1. Has(TRUE, TRUE, FALSE, FALSE, FALSE, FALSE, FALSE)
        BY <2>2, <2>6 DEF Has
      <3>2. Down(v)[s] = Drop("message_recipients")
        BY <1>1, <2>6, Statements
      <3>3. Accepted(Drop("message_recipients"))
        BY <3>1, Acceptable DEF Has, Mailbox, Share
      <3>4. Effect(Drop("message_recipients")) => Has(TRUE, FALSE, FALSE, FALSE, FALSE, FALSE, FALSE)'
        BY <3>1, Changes DEF Has
      <3>5. Has(TRUE, FALSE, FALSE, FALSE, FALSE, FALSE, FALSE)' /\ UNCHANGED applied => BeforeDown(v, s + 1)'
        BY <1>1, <2>6 DEF BeforeDown, Has
      <3> QED  BY <3>2, <3>3, <3>4, <3>5
    <2>7. CASE s = 5
      <3>1. Has(TRUE, FALSE, FALSE, FALSE, FALSE, FALSE, FALSE)
        BY <2>2, <2>7 DEF Has
      <3>2. Down(v)[s] = Drop("messages")
        BY <1>1, <2>7, Statements
      <3>3. Accepted(Drop("messages"))
        BY <3>1, Acceptable DEF Has, Mailbox, Share
      <3>4. Effect(Drop("messages")) => Has(FALSE, FALSE, FALSE, FALSE, FALSE, FALSE, FALSE)'
        BY <3>1, Changes DEF Has
      <3>5. Has(FALSE, FALSE, FALSE, FALSE, FALSE, FALSE, FALSE)' /\ UNCHANGED applied => BeforeDown(v, s + 1)'
        BY <1>1, <2>7 DEF BeforeDown, Has
      <3> QED  BY <3>2, <3>3, <3>4, <3>5
    <2> QED  BY <2>1, <2>3, <2>4, <2>5, <2>6, <2>7
  <1>2. CASE v = 2
    <2>1. s = 1 \/ s = 2
      <3>1. Len(Down(v)) = 2
        BY <1>2, Statements
      <3> QED  BY <3>1
    <2>2. Has(TRUE, TRUE, TRUE, TRUE, TRUE, s <= 2, s <= 1)
      BY <1>2 DEF BeforeDown
    <2>3. CASE s = 1
      <3>1. Has(TRUE, TRUE, TRUE, TRUE, TRUE, TRUE, TRUE)
        BY <2>2, <2>3 DEF Has
      <3>2. Down(v)[s] = Drop("telegram_deliveries")
        BY <1>2, <2>3, Statements
      <3>3. Accepted(Drop("telegram_deliveries"))
        BY <3>1, Acceptable DEF Has, Mailbox, Share
      <3>4. Effect(Drop("telegram_deliveries")) => Has(TRUE, TRUE, TRUE, TRUE, TRUE, TRUE, FALSE)'
        BY <3>1, Changes DEF Has
      <3>5. Has(TRUE, TRUE, TRUE, TRUE, TRUE, TRUE, FALSE)' /\ UNCHANGED applied => BeforeDown(v, s + 1)'
        BY <1>2, <2>3 DEF BeforeDown, Has
      <3> QED  BY <3>2, <3>3, <3>4, <3>5
    <2>4. CASE s = 2
      <3>1. Has(TRUE, TRUE, TRUE, TRUE, TRUE, TRUE, FALSE)
        BY <2>2, <2>4 DEF Has
      <3>2. Down(v)[s] = Drop("share_tokens")
        BY <1>2, <2>4, Statements
      <3>3. Accepted(Drop("share_tokens"))
        BY <3>1, Acceptable DEF Has, Mailbox, Share
      <3>4. Effect(Drop("share_tokens")) => Has(TRUE, TRUE, TRUE, TRUE, TRUE, FALSE, FALSE)'
        BY <3>1, Changes DEF Has
      <3>5. Has(TRUE, TRUE, TRUE, TRUE, TRUE, FALSE, FALSE)' /\ UNCHANGED applied => BeforeDown(v, s + 1)'
        BY <1>2, <2>4 DEF BeforeDown, Has
      <3> QED  BY <3>2, <3>3, <3>4, <3>5
    <2> QED  BY <2>1, <2>3, <2>4
  <1>3. CASE v = 3
    <2>1. s = 1 \/ s = 2
      <3>1. Len(Down(v)) = 2
        BY <1>3, Statements
      <3> QED  BY <3>1
    <2>2. Has(TRUE, TRUE, TRUE, TRUE, TRUE, s > 1, s > 2)
      BY <1>3 DEF BeforeDown
    <2>3. CASE s = 1
      <3>1. Has(TRUE, TRUE, TRUE, TRUE, TRUE, FALSE, FALSE)
        BY <2>2, <2>3 DEF Has
      <3>2. Down(v)[s] = Create("share_tokens")
        BY <1>3, <2>3, Statements
      <3>3. Accepted(Create("share_tokens"))
        BY <3>1, Acceptable DEF Has, Mailbox, Share
      <3>4. Effect(Create("share_tokens")) => Has(TRUE, TRUE, TRUE, TRUE, TRUE, TRUE, FALSE)'
        BY <3>1, Changes DEF Has
      <3>5. Has(TRUE, TRUE, TRUE, TRUE, TRUE, TRUE, FALSE)' /\ UNCHANGED applied => BeforeDown(v, s + 1)'
        BY <1>3, <2>3 DEF BeforeDown, Has
      <3> QED  BY <3>2, <3>3, <3>4, <3>5
    <2>4. CASE s = 2
      <3>1. Has(TRUE, TRUE, TRUE, TRUE, TRUE, TRUE, FALSE)
        BY <2>2, <2>4 DEF Has
      <3>2. Down(v)[s] = Create("telegram_deliveries")
        BY <1>3, <2>4, Statements
      <3>3. Accepted(Create("telegram_deliveries"))
        BY <3>1, Acceptable DEF Has, Mailbox, Share
      <3>4. Effect(Create("telegram_deliveries")) => Has(TRUE, TRUE, TRUE, TRUE, TRUE, TRUE, TRUE)'
        BY <3>1, Changes DEF Has
      <3>5. Has(TRUE, TRUE, TRUE, TRUE, TRUE, TRUE, TRUE)' /\ UNCHANGED applied => BeforeDown(v, s + 1)'
        BY <1>3, <2>4 DEF BeforeDown, Has
      <3> QED  BY <3>2, <3>3, <3>4, <3>5
    <2> QED  BY <2>1, <2>3, <2>4
  <1> QED  BY <1>1, <1>2, <1>3 DEF Versions

\* A migration that is begun, and one that is finished.
LEMMA Borders ==
    ASSUME TypeOK, NEW v \in Versions
    PROVE  /\ Stands(v - 1) => BeforeUp(v, 1)
           /\ Stands(v) => BeforeDown(v, 1)
           /\ \A s \in Nat : s > Len(Up(v)) /\ BeforeUp(v, s) /\ applied' = applied \cup {v}
                 /\ UNCHANGED schema => Stands(v)'
           /\ \A s \in Nat : s > Len(Down(v)) /\ BeforeDown(v, s) /\ applied' = applied \ {v}
                 /\ UNCHANGED schema => Stands(v - 1)'
  <1>1. v = 1 \/ v = 2 \/ v = 3
    BY DEF Versions
  <1>2. Stands(v - 1) => BeforeUp(v, 1)
    BY <1>1 DEF Stands, BeforeUp, Has, Mailbox, Share, Versions
  <1>3. Stands(v) => BeforeDown(v, 1)
    BY <1>1 DEF Stands, BeforeDown, Has, Mailbox, Share, Versions
  <1>4. ASSUME NEW s \in Nat, s > Len(Up(v)), BeforeUp(v, s), applied' = applied \cup {v},
               UNCHANGED schema
        PROVE  Stands(v)'
    <2>1. \A u \in Versions : u \in applied' <=> u <= v
      BY <1>1, <1>4 DEF BeforeUp, Versions
    <2>2. (v = 1 => s > 5) /\ (v # 1 => s > 2)
      BY <1>1, <1>4, Statements
    <2> QED  BY <1>1, <1>4, <2>1, <2>2 DEF Stands, BeforeUp, Has, Mailbox, Share, schema
  <1>5. ASSUME NEW s \in Nat, s > Len(Down(v)), BeforeDown(v, s), applied' = applied \ {v},
               UNCHANGED schema
        PROVE  Stands(v - 1)'
    <2>1. \A u \in Versions : u \in applied' <=> u <= v - 1
      BY <1>1, <1>5 DEF BeforeDown, Versions
    <2>2. (v = 1 => s > 5) /\ (v # 1 => s > 2)
      BY <1>1, <1>5, Statements
    <2> QED  BY <1>1, <1>5, <2>1, <2>2 DEF Stands, BeforeDown, Has, Mailbox, Share, schema
  <1> QED  BY <1>2, <1>3, <1>4, <1>5

\* The version that a consistent database stands at.
LEMMA StandsAt ==
    ASSUME Consistent, NEW v \in Versions
    PROVE  /\ v \notin applied /\ (\A u \in Versions : u < v => u \in applied) => Stands(v - 1)
           /\ v \in applied /\ (\A u \in Versions : u \in applied => u <= v) => Stands(v)
  <1> PICK n \in 0..3 : Stands(n)
    BY DEF Consistent
  <1>1. \A u \in Versions : u \in applied <=> u <= n
    BY DEF Stands
  <1>2. v \notin applied /\ (\A u \in Versions : u < v => u \in applied) => n = v - 1
    <2> SUFFICES ASSUME v \notin applied, \A u \in Versions : u < v => u \in applied
                 PROVE  n = v - 1
      OBVIOUS
    <2>1. n < v
      BY <1>1 DEF Versions
    <2>2. CASE v = 1
      BY <2>1, <2>2
    <2>3. CASE v # 1
      <3>1. v - 1 \in Versions /\ v - 1 < v
        BY <2>3 DEF Versions
      <3>2. v - 1 <= n
        BY <1>1, <3>1
      <3> QED  BY <2>1, <3>1, <3>2 DEF Versions
    <2> QED  BY <2>2, <2>3
  <1>3. v \in applied /\ (\A u \in Versions : u \in applied => u <= v) => n = v
    <2> SUFFICES ASSUME v \in applied, \A u \in Versions : u \in applied => u <= v
                 PROVE  n = v
      OBVIOUS
    <2>1. v <= n
      BY <1>1
    <2>2. n \in Versions
      BY <2>1 DEF Versions
    <2>3. n <= v
      BY <1>1, <2>2
    <2> QED  BY <2>1, <2>2, <2>3 DEF Versions
  <1> QED  BY <1>2, <1>3

\* While the others are quiet, only what p does matters.
LEMMA OrderlyStep ==
    ASSUME NEW p \in Process, \A q \in Process \ {p} : Quiet(q) /\ pc'[q] = pc[q],
           Midway(p)', Quiet(p)' => Consistent'
    PROVE  Orderly'
  <1>1. \A q \in Process \ {p} : Quiet(q)'
    BY DEF Quiet
  <1>2. \A q \in Process : Midway(q)'
    BY <1>1 DEF Midway, Quiet
  <1> QED  BY <1>1, <1>2 DEF Orderly, Alone, AtRest

\* One step of a process that is alone.
LEMMA SequentialStep ==
    ASSUME IInv, Orderly, NEW p \in Process, \A q \in Process \ {p} : Quiet(q),
           \/ p \in Server /\ (ServerStep(p) \/ Stop(p))
           \/ p \in Operator /\ OperatorStep(p)
    PROVE  Orderly'
  <1> USE DEF IInv
  <1> PICK v \in 0..4, s \in 1..6 : v = version[p] /\ s = stmt[p]
    BY DEF TypeOK
  <1>0. /\ s \in Nat \ {0} /\ Midway(p)
        /\ p \in Server => p \notin Operator
    BY MigrationsAssumption DEF Orderly
  <1>1. ASSUME NEW there, NEW w, NEW k, Goto(p, there, w, k), Quiet(p) => Consistent,
               there \in {"down", "serving"} => Consistent',
               there = "check" => /\ Consistent'
                                  /\ p \in Server => w >= 1 /\ \A u \in Versions : u < w => u \in applied'
                                  /\ p \in Operator => \A u \in Versions : u \in applied' => u <= w,
               there = "exec" => /\ p \in Server => BeforeUp(w, k)'
                                 /\ p \in Operator => BeforeDown(w, k)'
        PROVE  Orderly'
    <2>1. /\ pc'[p] = there /\ version'[p] = w /\ stmt'[p] = k
          /\ \A q \in Process \ {p} : pc'[q] = pc[q]
      BY <1>1, GotoMoves
    <2>2. Midway(p)'
      BY <1>1, <2>1 DEF Midway, BeforeUp, BeforeDown, Has
    <2>3. Quiet(p)' => Consistent'
      BY <1>1, <2>1 DEF Quiet
    <2> QED  BY <2>1, <2>2, <2>3, OrderlyStep
  <1>2. Quiet(p) => Consistent
    BY DEF Orderly, AtRest
  <1>3. UNCHANGED <<schema, applied>> => (Consistent <=> Consistent')
    BY DEF Consistent, Stands, schema
  <1>4. CASE p \in Server /\ Start(p)
    <2>1. \A u \in Versions : ~(u < 1)
      BY DEF Versions
    <2> QED  BY <1>0, <1>1, <1>2, <1>3, <1>4, <2>1 DEF Start, Begin, Quiet
  <1>5. CASE p \in Operator /\ RollbackStart(p)
    <2>1. \A u \in Versions : u <= 3
      BY DEF Versions
    <2> QED  BY <1>0, <1>1, <1>2, <1>3, <1>5, <2>1 DEF RollbackStart, Begin, Quiet
  <1>6. CASE p \in Server /\ Stop(p)
    BY <1>1, <1>2, <1>3, <1>6 DEF Stop, Exit, Quiet
  <1>7. CASE p \in Server /\ Check(p)
    <2>1. /\ pc[p] = "check" /\ UNCHANGED <<schema, applied>> /\ Consistent /\ Consistent'
          /\ v >= 1 /\ \A u \in Versions : u < v => u \in applied
      BY <1>0, <1>3, <1>7 DEF Check, Midway
    <2>2. CASE Goto(p, "serving", 1, 1)
      BY <1>1, <2>1, <2>2
    <2>3. CASE v \in applied /\ v \in Versions /\ Goto(p, "check", v + 1, 1)
      <3>1. v + 1 >= 1 /\ \A u \in Versions : u < v + 1 => u \in applied
        BY <2>1, <2>3 DEF Versions
      <3> QED  BY <1>0, <1>1, <1>7, <2>1, <2>3, <3>1
    <2>4. CASE v \notin applied /\ v \in Versions /\ Goto(p, "exec", v, 1)
      <3>1. BeforeUp(v, 1)
        BY <2>1, <2>4, StandsAt, Borders
      <3>2. BeforeUp(v, 1)'
        BY <2>1, <3>1 DEF BeforeUp, Has, schema
      <3> QED  BY <1>0, <1>1, <1>2, <1>7, <2>1, <2>4, <3>2
    <2> QED  BY <1>7, <2>2, <2>3, <2>4 DEF Check
  <1>8. CASE p \in Operator /\ RollbackCheck(p)
    <2>1. /\ pc[p] = "check" /\ UNCHANGED <<schema, applied>> /\ Consistent /\ Consistent'
          /\ \A u \in Versions : u \in applied => u <= v
      BY <1>0, <1>3, <1>8 DEF RollbackCheck, Midway
    <2>2. CASE Exit(p)
      BY <1>1, <2>1, <2>2 DEF Exit
    <2>3. CASE v \notin applied /\ v \in Versions /\ Goto(p, "check", v - 1, 1)
      <3>1. \A u \in Versions : u \in applied => u <= v - 1
        BY <2>1, <2>3 DEF Versions
      <3> QED  BY <1>0, <1>1, <1>8, <2>1, <2>3, <3>1
    <2>4. CASE v \in applied /\ v \in Versions /\ Goto(p, "exec", v, 1)
      <3>1. BeforeDown(v, 1)
        BY <2>1, <2>4, StandsAt, Borders
      <3>2. BeforeDown(v, 1)'
        BY <2>1, <3>1 DEF BeforeDown, Has, schema
      <3> QED  BY <1>0, <1>1, <1>2, <1>8, <2>1, <2>4, <3>2
    <2> QED  BY <1>8, <2>2, <2>3, <2>4 DEF RollbackCheck
  <1>9. CASE p \in Server /\ Exec(p)
    <2>1. /\ v \in Versions /\ s <= Len(Up(v)) /\ BeforeUp(v, s) /\ UNCHANGED applied
          /\ ~Quiet(p)
      BY <1>0, <1>9 DEF Exec, Listed, Midway, Quiet
    <2>2. Effect(Up(v)[s]) /\ Goto(p, "exec", v, s + 1)
      BY <1>0, <1>9, <2>1, UpStatement DEF Exec
    <2>3. BeforeUp(v, s + 1)'
      BY <1>0, <2>1, <2>2, UpStatement
    <2> QED  BY <1>0, <1>1, <1>9, <2>1, <2>2, <2>3
  <1>10. CASE p \in Operator /\ RollbackExec(p)
    <2>1. /\ v \in Versions /\ s <= Len(Down(v)) /\ BeforeDown(v, s) /\ UNCHANGED applied
          /\ ~Quiet(p)
      BY <1>0, <1>10 DEF RollbackExec, Listed, Midway, Quiet
    <2>2. Effect(Down(v)[s]) /\ Goto(p, "exec", v, s + 1)
      BY <1>0, <1>10, <2>1, DownStatement DEF RollbackExec
    <2>3. BeforeDown(v, s + 1)'
      BY <1>0, <2>1, <2>2, DownStatement
    <2> QED  BY <1>0, <1>1, <1>10, <2>1, <2>2, <2>3
  <1>11. CASE p \in Server /\ Record(p)
    <2>1. /\ v \in Versions /\ s > Len(Up(v)) /\ BeforeUp(v, s) /\ UNCHANGED schema
          /\ ~Quiet(p)
      BY <1>0, <1>11 DEF Record, Listed, Midway, Quiet
    <2>2. v \notin applied
      BY <2>1 DEF BeforeUp, Versions
    <2>3. applied' = applied \cup {v} /\ Goto(p, "check", v + 1, 1)
      BY <1>11, <2>2 DEF Record
    <2>4. Stands(v)'
      BY <1>0, <2>1, <2>3, Borders
    <2>5. Consistent'
      <3>1. v \in 0..3
        BY <2>1 DEF Versions
      <3> QED  BY <2>4, <3>1 DEF Consistent
    <2>6. v + 1 >= 1 /\ \A u \in Versions : u < v + 1 => u \in applied'
      BY <2>4 DEF Stands, Versions
    <2> QED  BY <1>0, <1>1, <1>11, <2>1, <2>3, <2>5, <2>6
  <1>12. CASE p \in Operator /\ RollbackRecord(p)
    <2>1. /\ v \in Versions /\ s > Len(Down(v)) /\ BeforeDown(v, s) /\ UNCHANGED schema
          /\ ~Quiet(p) /\ applied' = applied \ {v} /\ Goto(p, "down", 1, 1)
      BY <1>0, <1>12 DEF RollbackRecord, Listed, Midway, Quiet, Exit
    <2>2. Stands(v - 1)'
      BY <1>0, <2>1, Borders
    <2>3. Consistent'
      <3>1. v - 1 \in 0..3
        BY <2>1 DEF Versions
      <3> QED  BY <2>2, <3>1 DEF Consistent
    <2> QED  BY <1>1, <2>1, <2>3
  <1> QED
    BY <1>4, <1>5, <1>6, <1>7, <1>8, <1>9, <1>10, <1>11, <1>12 DEF ServerStep, OperatorStep

\* Without a kill and without an overlap, the database follows the list of
\* migrations statement by statement, up and down.
THEOREM SequentialInvariance == Spec => []Sequential
  <1>1. Init => Sequential
    <2> SUFFICES ASSUME Init PROVE Orderly
      BY DEF Sequential
    <2>1. Stands(0)
      BY DEF Init, Stands, Versions
    <2>2. Consistent
      <3>1. 0 \in 0..3
        OBVIOUS
      <3> QED  BY <2>1, <3>1 DEF Consistent
    <2>3. \A p \in Process : pc[p] = "down"
      BY DEF Init
    <2> QED  BY <2>2, <2>3 DEF Orderly, Alone, AtRest, Midway, Quiet
  <1>2. IInv /\ Sequential /\ [Next]_vars => Sequential'
    <2> SUFFICES ASSUME IInv, Sequential, [Next]_vars, kills' = 0, ~overlap' PROVE Orderly'
      BY DEF Sequential
    <2>1. CASE UNCHANGED vars
      <3>1. Orderly
        BY <2>1 DEF vars, Sequential
      <3> QED
        BY <2>1, <3>1 DEF vars, Orderly, Alone, AtRest, Quiet, Midway, Consistent, Stands,
                          BeforeUp, BeforeDown, Has
    <2>2. ~\E p \in Process : Kill(p)
      BY DEF Kill, IInv, TypeOK
    <2>3. ASSUME NEW p \in Process,
                 \/ p \in Server /\ (ServerStep(p) \/ Stop(p))
                 \/ p \in Operator /\ OperatorStep(p)
          PROVE  Orderly'
      <3>1. UNCHANGED kills
        BY <2>3 DEF ServerStep, OperatorStep, Start, Check, Exec, Record, Stop, RollbackStart,
                    RollbackCheck, RollbackExec, RollbackRecord
      <3>2. ~overlap /\ (Quiet(p) /\ pc[p] # "serving" => \A q \in Process \ {p} : Quiet(q))
        <4>1. CASE Start(p) \/ RollbackStart(p)
          <5>1. overlap' = (overlap \/ \E q \in Process \ {p} : ~Quiet(q))
            BY <4>1 DEF Start, RollbackStart, Begin
          <5> QED  BY <5>1
        <4>2. CASE ~Start(p) /\ ~RollbackStart(p)
          <5>1. overlap' = overlap /\ pc[p] # "down"
            BY <2>3, <4>2 DEF ServerStep, OperatorStep, Check, Exec, Record, Stop, RollbackCheck,
                              RollbackExec, RollbackRecord
          <5> QED  BY <5>1 DEF Quiet
        <4> QED  BY <4>1, <4>2
      <3>3. Orderly
        BY <3>1, <3>2 DEF Sequential
      <3>4. CASE \A q \in Process \ {p} : Quiet(q)
        BY <2>3, <3>3, <3>4, SequentialStep
      <3>5. CASE \E q \in Process \ {p} : ~Quiet(q)
        <4>1. Quiet(p) /\ pc[p] = "serving"
          BY <3>2, <3>3, <3>5 DEF Orderly, Alone
        <4>2. Stop(p)
          BY <2>3, <4>1 DEF ServerStep, OperatorStep, Start, Check, Exec, Record, RollbackStart,
                            RollbackCheck, RollbackExec, RollbackRecord, Begin
        <4>3. /\ UNCHANGED <<schema, applied>> /\ pc'[p] = "down"
              /\ \A q \in Process \ {p} :
                   pc'[q] = pc[q] /\ version'[q] = version[q] /\ stmt'[q] = stmt[q]
          BY <4>2, GotoMoves DEF Stop, Exit, IInv
        <4>4. \A q \in Process : Quiet(q)' <=> Quiet(q)
          BY <4>1, <4>3 DEF Quiet
        <4>5. Consistent' <=> Consistent
          BY <4>3 DEF Consistent, Stands, schema
        <4>6. \A q \in Process : Midway(q)'
          <5> SUFFICES ASSUME NEW q \in Process PROVE Midway(q)'
            OBVIOUS
          <5>1. CASE q = p
            BY <4>3, <5>1 DEF Midway
          <5>2. CASE q # p
            BY <3>3, <4>3, <4>5, <5>2 DEF Orderly, Midway, BeforeUp, BeforeDown, Has, schema
          <5> QED  BY <5>1, <5>2
        <4> QED  BY <3>3, <4>4, <4>5, <4>6 DEF Orderly, Alone, AtRest
      <3> QED  BY <3>4, <3>5
    <2> QED  BY <2>1, <2>2, <2>3 DEF Next, Process
  <1> QED  BY <1>1, <1>2, Invariance, PTL DEF Spec

\* Migrations that are run one at a time and not interrupted leave the schema
\* that schema_migrations stands for.
THEOREM VersionIsSchema == Spec => []SchemaFollowsVersion
  <1>1. IInv /\ Sequential => SchemaFollowsVersion
    <2> SUFFICES ASSUME IInv, Sequential, kills = 0, ~overlap, \A p \in Process : Quiet(p)
                 PROVE  \E n \in 0..3 : applied = 1..n /\ tables = After(n) /\ fulltext = (n > 0)
      BY DEF SchemaFollowsVersion
    <2> PICK n \in 0..3 : Stands(n)
      BY DEF Sequential, Orderly, AtRest, Consistent
    <2>1. applied = 1..n
      <3>1. \A u \in 1..3 : u \in applied <=> u <= n
        BY DEF Stands, Versions
      <3>2. applied \subseteq 1..3
        <4>1. applied \subseteq Versions
          BY DEF IInv, TypeOK
        <4> QED  BY <4>1 DEF Versions
      <3>3. \A u : u \in 1..n => u \in 1..3 /\ u <= n
        OBVIOUS
      <3>4. \A u \in 1..3 : u <= n => u \in 1..n
        OBVIOUS
      <3> QED  BY <3>1, <3>2, <3>3, <3>4
    <2>2. tables = After(n)
      BY DEF Stands, IInv, TypeOK, After
    <2>3. fulltext = (n > 0)
      BY DEF Stands, IInv, TypeOK
    <2> QED  BY <2>1, <2>2, <2>3
  <1> QED  BY <1>1, Invariance, SequentialInvariance, PTL

-----------------------------------------------------------------------------
\* A step that takes a mailbox table or its index away, or a recorded version.
Loses ==
    \/ ~(Mailbox \cap tables \subseteq tables')
    \/ fulltext /\ ~fulltext'
Unrecords == ~(applied \subseteq applied')

\* Whatever runs at the same time and wherever it is killed, a server that
\* starts takes nothing away from the mailbox: only the statements of 001's
\* Down do, in a call of RollbackMigration, and only such a call deletes a row
\* of schema_migrations.
MailboxIsKept ==
    [][/\ Loses => \E p \in Operator : RollbackExec(p) /\ version[p] = 1
       /\ Unrecords => \E p \in Operator : RollbackRecord(p)]_vars

\* Without the first statement of 001 there is nothing to index.
LEMMA IndexedStep == IInv /\ Indexed /\ [Next]_vars => Indexed'
  <1> SUFFICES ASSUME IInv, Indexed, [Next]_vars PROVE Indexed'
    OBVIOUS
  <1>1. UNCHANGED schema => Indexed'
    BY DEF Indexed, schema
  <1>2. ASSUME NEW p \in Server, Exec(p) PROVE Indexed'
    <2>1. p \in Process /\ version[p] \in Versions /\ stmt[p] \in Nat \ {0}
      BY <1>2 DEF Exec, IInv, Listed, TypeOK, Process
    <2> QED  BY <1>1, <1>2, <2>1, UpKeeps DEF Exec, IInv
  <1>3. ASSUME NEW p \in Operator, RollbackExec(p) PROVE Indexed'
    <2>1. p \in Process /\ version[p] \in Versions /\ stmt[p] \in Nat \ {0}
      BY <1>3 DEF RollbackExec, IInv, Listed, TypeOK, Process
    <2>2. ASSUME NEW t, Effect(Create(t)) \/ Effect(Drop(t)) \/ Effect(DropIndex)
          PROVE  Indexed'
      BY <2>2, Effects DEF Indexed
    <2> QED  BY <1>1, <1>3, <2>1, <2>2, Kinds DEF RollbackExec
  <1> QED
    BY <1>1, <1>2, <1>3 DEF Next, ServerStep, OperatorStep, Start, Check, Record, Stop, Kill,
       RollbackStart, RollbackCheck, RollbackRecord, vars, schema

\* The migrations after 001 undo nothing of it.
LEMMA DownKeeps ==
    ASSUME TypeOK, Indexed, NEW v \in Versions, v # 1, NEW s \in Nat \ {0}, s <= Len(Down(v)),
           Effect(Down(v)[s])
    PROVE  ~Loses
  <1>1. (v = 2 \/ v = 3) /\ (s = 1 \/ s = 2)
    <2>1. v = 2 \/ v = 3
      BY DEF Versions
    <2> QED  BY <2>1, Statements
  <1>2. \E t \in Share : Effect(Create(t)) \/ Effect(Drop(t))
    BY <1>1, Statements DEF Share
  <1>3. "messages" \in Mailbox /\ Mailbox \cap Share = {}
    BY DEF Mailbox, Share
  <1>4. PICK t \in Share : /\ tables' = tables \cup {t} \/ tables' = tables \ {t}
                           /\ fulltext' = (fulltext /\ "messages" \in tables')
    BY <1>2, Effects
  <1>5. Mailbox \cap tables \subseteq tables'
    BY <1>3, <1>4
  <1> QED  BY <1>3, <1>4, <1>5 DEF Loses, Indexed

\* No start of a server, and no rollback of 003 or 002, loses mail.
THEOREM StartLosesNothing == Spec => MailboxIsKept
  <1>1. Init => Indexed
    BY DEF Init, Indexed
  <1>2. ASSUME IInv, Indexed, [Next]_vars, Loses
        PROVE  \E p \in Operator : RollbackExec(p) /\ version[p] = 1
    <2>1. ~UNCHANGED schema
      BY <1>2 DEF Loses, schema
    <2>2. ASSUME NEW p \in Server, Exec(p) PROVE FALSE
      <3>1. p \in Process /\ version[p] \in Versions /\ stmt[p] \in Nat \ {0}
        BY <1>2, <2>2 DEF Exec, IInv, Listed, TypeOK, Process
      <3> QED  BY <1>2, <2>1, <2>2, <3>1, UpKeeps DEF Exec, IInv, Loses
    <2>3. ASSUME NEW p \in Operator, RollbackExec(p), version[p] # 1 PROVE FALSE
      <3>1. p \in Process /\ version[p] \in Versions /\ stmt[p] \in Nat \ {0}
        BY <1>2, <2>3 DEF RollbackExec, IInv, Listed, TypeOK, Process
      <3> QED  BY <1>2, <2>1, <2>3, <3>1, DownKeeps DEF RollbackExec, IInv
    <2> QED
      BY <1>2, <2>1, <2>2, <2>3 DEF Next, ServerStep, OperatorStep, Start, Check, Record, Stop,
         Kill, RollbackStart, RollbackCheck, RollbackRecord, vars, schema
  <1>3. ASSUME [Next]_vars, Unrecords PROVE \E p \in Operator : RollbackRecord(p)
    BY <1>3 DEF Unrecords, Next, ServerStep, OperatorStep, Start, Check, Exec, Record, Stop,
       Kill, RollbackStart, RollbackCheck, RollbackExec, vars
  <1>4. IInv /\ Indexed /\ [Next]_vars =>
          [/\ Loses => \E p \in Operator : RollbackExec(p) /\ version[p] = 1
           /\ Unrecords => \E p \in Operator : RollbackRecord(p)]_vars
    BY <1>2, <1>3
  <1> QED  BY <1>1, <1>4, IndexedStep, Invariance, PTL DEF Spec, MailboxIsKept
=============================================================================
