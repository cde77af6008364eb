----------------------------- MODULE Migrations -----------------------------
(***************************************************************************)
(* Schema migrations: RunMigrations, which every server runs before it     *)
(* serves, and RollbackMigration, over the three embedded migrations.      *)
(*                                                                         *)
(* Every statement of a migration is DDL.  MySQL commits before and after  *)
(* DDL, so the transaction around a migration neither undoes its           *)
(* statements nor hides them, and the row in schema_migrations is          *)
(* inserted (or deleted) in autocommit mode: each statement is a step of   *)
(* its own.                                                                *)
(***************************************************************************)
EXTENDS Integers, Sequences

CONSTANTS
    Server,        \* server processes on the same database
    Operator,      \* processes that roll back one migration
    MaxKills,      \* bound: processes killed in the middle of a migration
    MaxRollbacks   \* bound: calls of RollbackMigration

ASSUME MigrationsAssumption ==
    /\ MaxKills \in Nat /\ MaxRollbacks \in Nat
    /\ Server \cap Operator = {}

VARIABLES
    tables,        \* tables that exist, schema_migrations apart
    fulltext,      \* does index ft_messages_search exist?
    applied,       \* versions in schema_migrations
    pc,            \* where each process is
    version,       \* the migration it is at
    stmt,          \* the statement of that migration it is at
    kills,         \* processes killed so far
    rollbacks,     \* calls of RollbackMigration so far
    overlap        \* history: has a process begun while another was at it?

schema == <<tables, fulltext>>
vars == <<tables, fulltext, applied, pc, version, stmt, kills, rollbacks,
          overlap>>

Process == Server \cup Operator
PC == {"down", "check", "exec", "serving"}

-----------------------------------------------------------------------------
Children == {"message_recipients", "attachments", "share_tokens", "telegram_deliveries"}
Mailbox  == {"messages", "message_recipients", "attachments", "ingest_events"}
Share    == {"share_tokens", "telegram_deliveries"}

Create(t) == [op |-> "create", table |-> t]       \* CREATE TABLE IF NOT EXISTS
Drop(t)   == [op |-> "drop", table |-> t]         \* DROP TABLE IF EXISTS
AddIndex  == [op |-> "add index", table |-> "messages"]
DropIndex == [op |-> "drop index", table |-> "messages"]

Versions == 1..3

Up(v) ==
    CASE v = 1 -> <<Create("messages"), Create("message_recipients"),
                    Create("attachments"), Create("ingest_events"), AddIndex>>
      [] v = 2 -> <<Create("share_tokens"), Create("telegram_deliveries")>>
      [] v = 3 -> <<Drop("telegram_deliveries"), Drop("share_tokens")>>

\* Mutant: the inverse of 003 brings back one of the two tables.
DownMutant(v) ==
    CASE v = 1 -> <<DropIndex, Drop("ingest_events"), Drop("attachments"),
                    Drop("message_recipients"), Drop("messages")>>
      [] v = 2 -> <<Drop("telegram_deliveries"), Drop("share_tokens")>>
      [] v = 3 -> <<Create("share_tokens")>>

Down(v) ==
    CASE v = 1 -> <<DropIndex, Drop("ingest_events"), Drop("attachments"),
                    Drop("message_recipients"), Drop("messages")>>
      [] v = 2 -> <<Drop("telegram_deliveries"), Drop("share_tokens")>>
      [] v = 3 -> <<Create("share_tokens"), Create("telegram_deliveries")>>

\* What MySQL accepts: a foreign key needs its parent, a parent is not dropped
\* under its children, an index is neither added nor dropped twice.
Accepted(s) ==
    CASE s.op = "create"     -> s.table \in Children => "messages" \in tables
      [] s.op = "drop"       -> s.table = "messages" => tables \cap Children = {}
      [] s.op = "add index"  -> "messages" \in tables /\ ~fulltext
      [] s.op = "drop index" -> fulltext

Effect(s) ==
    /\ tables' = CASE s.op = "create" -> tables \cup {s.table}
                   [] s.op = "drop"   -> tables \ {s.table}
                   [] OTHER           -> tables
    /\ fulltext' = CASE s.op = "add index"  -> TRUE
                     [] s.op = "drop index" -> FALSE
                     [] OTHER               -> fulltext /\ "messages" \in tables'

-----------------------------------------------------------------------------
Init ==
    /\ tables = {} /\ fulltext = FALSE /\ applied = {}
    /\ pc = [p \in Process |-> "down"]
    /\ version = [p \in Process |-> 1]
    /\ stmt = [p \in Process |-> 1]
    /\ kills = 0 /\ rollbacks = 0 /\ overlap = FALSE

Goto(p, there, v, s) ==
    /\ pc' = [pc EXCEPT ![p] = there]
    /\ version' = [version EXCEPT ![p] = v]
    /\ stmt' = [stmt EXCEPT ![p] = s]

Exit(p) == Goto(p, "down", 1, 1)

Quiet(p) == pc[p] \in {"down", "serving"}
Begin(p, v) ==
    /\ pc[p] = "down"
    /\ Goto(p, "check", v, 1)
    /\ overlap' = (overlap \/ \E q \in Process \ {p} : ~Quiet(q))

\* main: connect, then RunMigrations from the first version on.
Start(p) ==
    /\ Begin(p, 1)
    /\ UNCHANGED <<schema, applied, kills, rollbacks>>

\* Mutant: the loop does not end.
CheckMutant(p) ==
    /\ pc[p] = "check"
    /\ IF version[p] \in applied \/ version[p] \notin Versions
       THEN Goto(p, "check", version[p] + 1, 1)
       ELSE Goto(p, "exec", version[p], 1)
    /\ UNCHANGED <<schema, applied, kills, rollbacks, overlap>>

\* isMigrationApplied, for one migration of the loop, or the end of the loop.
Check(p) ==
    /\ pc[p] = "check"
    /\ IF version[p] \notin Versions THEN Goto(p, "serving", 1, 1)
       ELSE IF version[p] \in applied THEN Goto(p, "check", version[p] + 1, 1)
       ELSE Goto(p, "exec", version[p], 1)
    /\ UNCHANGED <<schema, applied, kills, rollbacks, overlap>>

\* Mutant: a migration that fails is skipped.
ExecMutant(p) ==
    /\ pc[p] = "exec" /\ stmt[p] <= Len(Up(version[p]))
    /\ \/ /\ Accepted(Up(version[p])[stmt[p]])
          /\ Effect(Up(version[p])[stmt[p]])
          /\ Goto(p, "exec", version[p], stmt[p] + 1)
       \/ /\ ~Accepted(Up(version[p])[stmt[p]])
          /\ Goto(p, "check", version[p] + 1, 1)
          /\ UNCHANGED schema
    /\ UNCHANGED <<applied, kills, rollbacks, overlap>>

\* One statement of splitSQL(m.UpSQL).  An error ends the process.
Exec(p) ==
    /\ pc[p] = "exec" /\ stmt[p] <= Len(Up(version[p]))
    /\ \/ /\ Accepted(Up(version[p])[stmt[p]])
          /\ Effect(Up(version[p])[stmt[p]])
          /\ Goto(p, "exec", version[p], stmt[p] + 1)
       \/ /\ ~Accepted(Up(version[p])[stmt[p]])
          /\ Exit(p)
          /\ UNCHANGED schema
    /\ UNCHANGED <<applied, kills, rollbacks, overlap>>

\* Mutants: the migration is recorded before its statements have run; the
\* record is forgotten.
RecordEarly(p) ==
    /\ pc[p] = "exec"
    /\ applied' = applied \cup {version[p]}
    /\ Goto(p, "check", version[p] + 1, 1)
    /\ UNCHANGED <<schema, kills, rollbacks, overlap>>
RecordForgotten(p) ==
    /\ pc[p] = "exec" /\ stmt[p] > Len(Up(version[p]))
    /\ Goto(p, "check", version[p] + 1, 1)
    /\ UNCHANGED <<schema, applied, kills, rollbacks, overlap>>

\* INSERT INTO schema_migrations; version is the primary key.
Record(p) ==
    /\ pc[p] = "exec" /\ stmt[p] > Len(Up(version[p]))
    /\ \/ /\ version[p] \notin applied
          /\ applied' = applied \cup {version[p]}
          /\ Goto(p, "check", version[p] + 1, 1)
       \/ /\ version[p] \in applied
          /\ Exit(p)
          /\ UNCHANGED applied
    /\ UNCHANGED <<schema, kills, rollbacks, overlap>>

\* A serving process is stopped or redeployed.
Stop(p) ==
    /\ pc[p] = "serving"
    /\ Exit(p)
    /\ UNCHANGED <<schema, applied, kills, rollbacks, overlap>>

\* No signal handler is installed before RunMigrations returns.
Kill(p) ==
    /\ ~Quiet(p)
    /\ kills < MaxKills
    /\ kills' = kills + 1
    /\ Exit(p)
    /\ UNCHANGED <<schema, applied, rollbacks, overlap>>

-----------------------------------------------------------------------------
\* RollbackMigration looks for the last applied migration and undoes that one.
RollbackStart(p) ==
    /\ rollbacks < MaxRollbacks
    /\ rollbacks' = rollbacks + 1
    /\ Begin(p, 3)
    /\ UNCHANGED <<schema, applied, kills>>

RollbackCheck(p) ==
    /\ pc[p] = "check"
    /\ IF version[p] \notin Versions THEN Exit(p)
       ELSE IF version[p] \notin applied THEN Goto(p, "check", version[p] - 1, 1)
       ELSE Goto(p, "exec", version[p], 1)
    /\ UNCHANGED <<schema, applied, kills, rollbacks, overlap>>

RollbackExec(p) ==
    /\ pc[p] = "exec" /\ stmt[p] <= Len(Down(version[p]))
    /\ \/ /\ Accepted(Down(version[p])[stmt[p]])
          /\ Effect(Down(version[p])[stmt[p]])
          /\ Goto(p, "exec", version[p], stmt[p] + 1)
       \/ /\ ~Accepted(Down(version[p])[stmt[p]])
          /\ Exit(p)
          /\ UNCHANGED schema
    /\ UNCHANGED <<applied, kills, rollbacks, overlap>>

RollbackRecord(p) ==
    /\ pc[p] = "exec" /\ stmt[p] > Len(Down(version[p]))
    /\ applied' = applied \ {version[p]}
    /\ Exit(p)
    /\ UNCHANGED <<schema, kills, rollbacks, overlap>>

ServerStep(p) == Start(p) \/ Check(p) \/ Exec(p) \/ Record(p)
OperatorStep(p) ==
    RollbackStart(p) \/ RollbackCheck(p) \/ RollbackExec(p) \/ RollbackRecord(p)

Next ==
    \/ \E p \in Server : ServerStep(p) \/ Stop(p)
    \/ \E p \in Operator : OperatorStep(p)
    \/ \E p \in Process : Kill(p)

Spec == Init /\ [][Next]_vars

\* systemd restarts a server that failed; statements return.
FairSpec == Spec /\ \A p \in Server : WF_vars(ServerStep(p))

-----------------------------------------------------------------------------
\* Every variable of the migration runner has its type.
TypeOK ==
    /\ tables \subseteq Mailbox \cup Share
    /\ fulltext \in BOOLEAN
    /\ applied \subseteq Versions
    /\ pc \in [Process -> PC]
    /\ version \in [Process -> 0..4]
    /\ stmt \in [Process -> 1..6]
    /\ kills \in 0..MaxKills /\ rollbacks \in 0..MaxRollbacks /\ overlap \in BOOLEAN

\* A server that serves finds the tables and the search index that ingest and
\* the mailbox API use, however many servers start at once or are killed in
\* the middle, unless somebody has rolled back.
MailboxReady ==
    rollbacks = 0 /\ (\E p \in Server : pc[p] = "serving") =>
        Mailbox \subseteq tables /\ fulltext

\* schema_migrations has no gap, although each server decides by itself what
\* is left to do: an applied migration had its predecessors applied.
VersionsInOrder ==
    rollbacks = 0 => \A v \in applied : 1..v \subseteq applied

\* The schema that the recorded version stands for.
After(n) == (IF n = 0 THEN {} ELSE Mailbox) \cup (IF n = 2 THEN Share ELSE {})

\* Between two migrations the schema is the one that schema_migrations stands
\* for, up and down and up again, as long as migrations were run one at a time
\* and none was interrupted.
SchemaFollowsVersion ==
    kills = 0 /\ ~overlap /\ (\A p \in Process : Quiet(p)) =>
        \E n \in 0..3 : applied = 1..n /\ tables = After(n) /\ fulltext = (n > 0)

\* docs/deployment.md:48: "The Go server auto-runs database migrations on
\* startup."  A server that is started, again and again if need be, serves.
StartupCompletes == \A p \in Server : pc[p] # "serving" ~> pc[p] = "serving"

\* Servers that trip over each other's migrations all come up in the end, if
\* nobody kills one half-way or rolls back.
ConcurrentStartupCompletes ==
    [](kills = 0 /\ rollbacks = 0) => StartupCompletes
=============================================================================
