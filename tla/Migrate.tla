------------------------------ MODULE Migrate ------------------------------
(***************************************************************************)
(* Opening the store (store.Open, Migrate): every kete process sets the    *)
(* pragmas, creates schema_migrations if need be, reads the versions       *)
(* applied so far, and applies the others in order, each in a transaction  *)
(* of its own that also records the version.  Several processes may do so  *)
(* at a time, and any of them may be killed anywhere.                      *)
(*                                                                         *)
(* SQLite is modelled from how the code uses it: one transaction at a time *)
(* may write, from its first writing statement on, a statement that finds  *)
(* another writer waits or fails, and a transaction that does not commit   *)
(* leaves nothing.  A file becomes one with a write-ahead log under a lock *)
(* that excludes every reader, and stays one.                              *)
(***************************************************************************)
EXTENDS Integers, FiniteSetsExt

CONSTANTS
  Processes,
  Latest,    \* the version of the last migration file
  Markers    \* migrations that write nothing (0005_subsec_timestamps)

Nobody == "nobody"

ASSUME ProcessesAssumption == Processes # {} /\ Nobody \notin Processes
ASSUME LatestAssumption == Latest \in Nat
ASSUME MarkersAssumption == Markers \subseteq 1..Latest

VARIABLES
  pc,         \* where each process is in Open
  applied,    \* per process: what loadApplied returned
  at,         \* per process: the migration it is about to apply
  wal,        \* whether the file has journal_mode=WAL
  lock,       \* the process whose transaction writes
  created,    \* whether schema_migrations exists
  objects,    \* the migrations whose tables are there
  recorded,   \* the rows of schema_migrations
  crashed     \* history: processes killed while they were opening the store

dbVars == <<wal, lock, created, objects, recorded>>
vars == <<pc, applied, at, dbVars, crashed>>

Versions == 1..Latest

Opening == {"pragma", "shared", "busy", "create", "load", "exec", "record", "commit"}

TypeOK ==
  /\ pc \in [Processes -> Opening \cup {"open", "failed"}]
  /\ applied \in [Processes -> SUBSET Versions]
  /\ at \in [Processes -> 1..Latest + 1]
  /\ wal \in BOOLEAN
  /\ lock \in Processes \cup {Nobody}
  /\ created \in BOOLEAN
  /\ objects \subseteq Versions
  /\ recorded \subseteq Versions
  /\ crashed \subseteq Processes

Init ==
  /\ pc = [p \in Processes |-> "pragma"]
  /\ applied = [p \in Processes |-> {}]
  /\ at = [p \in Processes |-> 1]
  /\ wal = FALSE
  /\ lock = Nobody
  /\ created = FALSE
  /\ objects = {}
  /\ recorded = {}
  /\ crashed = {}

-----------------------------------------------------------------------------

\* Mutants of NextFrom: the migrations just applied are not counted, ...
NextFromFirst(done, v) == Min({w \in Versions : w \notin done} \cup {Latest + 1})

\* ... or it counts one too many.
NextFromBeyond(done, v) == Min({w \in v..Latest : w \notin done} \cup {Latest + 2})

\* The first migration from v on that the process believes is not applied.
NextFrom(done, v) == Min({w \in v..Latest : w \notin done} \cup {Latest + 1})

\* The process goes on with migration v, or is done.
Proceed(p, v) ==
  /\ at' = [at EXCEPT ![p] = v]
  /\ pc' = [pc EXCEPT ![p] = IF v > Latest THEN "open" ELSE "exec"]

\* applyPragmas: journal_mode=WAL takes a reader's lock; it has nothing to do
\* on a file that is in that mode.
Pragma(p) ==
  /\ pc[p] = "pragma"
  /\ pc' = [pc EXCEPT ![p] = IF wal THEN "create" ELSE "shared"]
  /\ UNCHANGED <<applied, at, dbVars, crashed>>

\* Who else has the reader's lock, about to switch the file or to report that
\* it could not.
Readers(p) == {q \in Processes \ {p} : pc[q] \in {"shared", "busy"}}

\* The file is switched by its only reader.  The other pragmas are about the
\* connection, and wal_checkpoint answers "busy" in a row, not with an error.
SwitchToWAL(p) ==
  /\ pc[p] = "shared"
  /\ Readers(p) = {}
  /\ wal' = TRUE
  /\ pc' = [pc EXCEPT ![p] = "create"]
  /\ UNCHANGED <<applied, at, lock, created, objects, recorded, crashed>>

\* Of several readers none can switch: each is told so, and keeps its lock until
\* its statement is over.
Refused(p) ==
  /\ pc[p] = "shared"
  /\ Readers(p) # {}
  /\ pc' = [pc EXCEPT ![p] = "busy"]
  /\ UNCHANGED <<applied, at, dbVars, crashed>>

\* CREATE TABLE IF NOT EXISTS.
CreateVersions(p) ==
  /\ pc[p] = "create"
  /\ created' = TRUE
  /\ pc' = [pc EXCEPT ![p] = "load"]
  /\ UNCHANGED <<wal, applied, at, lock, objects, recorded, crashed>>

\* loadApplied.
LoadApplied(p) ==
  /\ pc[p] = "load"
  /\ applied' = [applied EXCEPT ![p] = recorded]
  /\ Proceed(p, NextFrom(recorded, 1))
  /\ UNCHANGED <<dbVars, crashed>>

\* Mutant of Exec: the statements run outside the transaction.
ExecCommits(p) ==
  /\ pc[p] = "exec"
  /\ pc' = [pc EXCEPT ![p] = "record"]
  /\ lock = Nobody
  /\ at[p] \in Markers \/ at[p] \notin objects
  /\ objects' = objects \cup {at[p]}
  /\ UNCHANGED <<wal, lock, applied, at, created, recorded, crashed>>

\* applyOne: the migration's statements, the first of a new transaction.
Exec(p) ==
  /\ pc[p] = "exec"
  /\ pc' = [pc EXCEPT ![p] = "record"]
  /\ \/ at[p] \in Markers /\ UNCHANGED lock
     \/ /\ at[p] \notin Markers
        /\ lock = Nobody
        /\ at[p] \notin objects
        /\ lock' = p
  /\ UNCHANGED <<wal, applied, at, created, objects, recorded, crashed>>

\* applyOne: the version is inserted.
Record(p) ==
  /\ pc[p] = "record"
  /\ lock \in {p, Nobody}
  /\ at[p] \notin recorded
  /\ lock' = p
  /\ pc' = [pc EXCEPT ![p] = "commit"]
  /\ UNCHANGED <<wal, applied, at, created, objects, recorded, crashed>>

Commit(p) ==
  /\ pc[p] = "commit"
  /\ objects' = objects \cup {at[p]}
  /\ recorded' = recorded \cup {at[p]}
  /\ lock' = Nobody
  /\ Proceed(p, NextFrom(applied[p], at[p] + 1))
  /\ UNCHANGED <<wal, applied, created, crashed>>

\* The process ends or is killed, and its transaction is rolled back.
Rollback(p) ==
  /\ lock' = IF lock = p THEN Nobody ELSE lock
  /\ UNCHANGED <<wal, created, objects, recorded>>

\* A statement fails: another process is about to switch the file, writes, has
\* created the tables or has recorded the version.
StatementFails(p) ==
  \/ pc[p] = "pragma" /\ ~wal /\ \E q \in Processes \ {p} : pc[q] = "shared"
  \/ pc[p] = "busy"
  \/ pc[p] = "create" /\ ~created /\ \E q \in Processes \ {p} : pc[q] = "create"
  \/ /\ pc[p] = "exec"
     /\ at[p] \notin Markers
     /\ lock # Nobody \/ at[p] \in objects
  \/ /\ pc[p] = "record"
     /\ lock \notin {p, Nobody} \/ at[p] \in recorded

\* Mutant of Fail: the error is skipped, ...
FailOpens(p) ==
  /\ StatementFails(p)
  /\ pc' = [pc EXCEPT ![p] = "open"]
  /\ Rollback(p)
  /\ UNCHANGED <<applied, at, crashed>>

\* ... or the migration tried again.
FailTriesAgain(p) ==
  /\ StatementFails(p)
  /\ pc' = [pc EXCEPT ![p] = CASE @ = "create" -> "create"
                                [] @ \in {"pragma", "busy"} -> "pragma"
                                [] OTHER -> "exec"]
  /\ Rollback(p)
  /\ UNCHANGED <<applied, at, crashed>>

\* Open returns the error.
Fail(p) ==
  /\ StatementFails(p)
  /\ pc' = [pc EXCEPT ![p] = "failed"]
  /\ Rollback(p)
  /\ UNCHANGED <<applied, at, crashed>>

\* The process is killed while it opens the store, or Open returns an error that
\* no other process causes: the disk is full, the file is none of SQLite's.
Crash(p) ==
  /\ pc[p] \in Opening
  /\ pc' = [pc EXCEPT ![p] = "failed"]
  /\ crashed' = crashed \cup {p}
  /\ Rollback(p)
  /\ UNCHANGED <<applied, at>>

\* The command is run again.
Retry(p) ==
  /\ pc[p] \in {"failed", "open"}
  /\ pc' = [pc EXCEPT ![p] = "pragma"]
  /\ crashed' = crashed \ {p}
  /\ UNCHANGED <<applied, at, dbVars>>

-----------------------------------------------------------------------------

Step(p) ==
  \/ Pragma(p) \/ SwitchToWAL(p) \/ Refused(p)
  \/ CreateVersions(p) \/ LoadApplied(p) \/ Exec(p) \/ Record(p) \/ Commit(p)
  \/ Fail(p)

Next == \E p \in Processes : Step(p) \/ Crash(p) \/ Retry(p)

\* A process that runs takes its steps: a statement that waits for a lock gets
\* it or gives up.
Fairness == \A p \in Processes : WF_vars(Step(p))

Spec == Init /\ [][Next]_vars /\ Fairness

-----------------------------------------------------------------------------

\* A version is recorded exactly if its tables are there, and the versions
\* form a prefix, whoever was killed and whatever the processes believed.
SchemaRecorded ==
  /\ objects = recorded
  /\ \A v \in recorded : 1..v \subseteq recorded

\* A process that opened the store found, or made, the whole schema.
OpenIsMigrated == \A p \in Processes : pc[p] = "open" => recorded = Versions

\* Processes that open the store at the same time may make each other fail, but
\* never all of them unless one was killed or they met at the first switch of a
\* new file to its write-ahead log: from then on one of them gets through.
SomeoneOpens ==
  wal /\ (\A p \in Processes : pc[p] = "failed") => crashed # {}

\* Where a process is, as its caller sees it.
stateOf == [p \in Processes |-> IF pc[p] \in Opening THEN "opening" ELSE pc[p]]

Upgraded == INSTANCE SchemaUpgrade WITH schema <- objects, state <- stateOf

\* Transactions, locks, stale versions and kills come to no more than this: the
\* schema grows by the next version, whole, and nobody opens the store before
\* the last.
ImplementsUpgrade == Upgraded!Spec

\* Nobody waits for ever: a process that opens the store opens it or fails.
OpenReturns ==
  \A p \in Processes : pc[p] = "pragma" ~> pc[p] \in {"open", "failed"}

=============================================================================
