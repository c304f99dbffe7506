--------------------------- MODULE MigrateProofs ---------------------------
(***************************************************************************)
(* Proofs about Migrate, for every set of processes and migrations.        *)
(***************************************************************************)
EXTENDS Migrate, OrderLemmas

\* A set of natural numbers that is not empty has its minimum in it.
LEMMA MinNat ==
  ASSUME NEW S, S \subseteq Nat, S # {}
  PROVE  Min(S) \in S /\ \A y \in S : Min(S) <= y
<1>1. \E x \in S : \A y \in S : x <= y
  BY Smallest
<1> QED
  BY <1>1 DEF Min

\* Where the loop of Migrate goes on: everything it skips is known as applied.
LEMMA NextFromSkips ==
  ASSUME NEW done, NEW v \in 1..Latest + 1
  PROVE  /\ NextFrom(done, v) \in v..Latest + 1
         /\ \A w \in v..NextFrom(done, v) - 1 : w \in done
         /\ NextFrom(done, v) <= Latest => NextFrom(done, v) \notin done
<1> DEFINE S == {w \in v..Latest : w \notin done} \cup {Latest + 1}
<1>1. S \subseteq Nat /\ S # {}
  BY LatestAssumption
<1>2. Min(S) \in S /\ \A y \in S : Min(S) <= y
  <2> HIDE DEF S
  <2> QED
    BY <1>1, MinNat
<1>3. NextFrom(done, v) = Min(S)
  BY DEF NextFrom
<1>4. \A w \in v..Min(S) - 1 : w \in done
  BY <1>2, LatestAssumption
<1> QED
  BY <1>2, <1>3, <1>4, LatestAssumption

\* Where a process goes on is a version, or the end.
LEMMA ProceedTyped ==
  ASSUME TypeOK, NEW p \in Processes, NEW done, NEW v \in 1..Latest + 1,
         Proceed(p, NextFrom(done, v))
  PROVE  /\ at' \in [Processes -> 1..Latest + 1]
         /\ pc' \in [Processes -> Opening \cup {"open", "failed"}]
<1>1. NextFrom(done, v) \in 1..Latest + 1
  BY NextFromSkips, LatestAssumption
<1> QED
  BY <1>1 DEF Proceed, TypeOK, Opening

-----------------------------------------------------------------------------

\* A process that applies a migration has one to apply, and knows or has
\* recorded all before it.
AtInv ==
  \A p \in Processes :
    pc[p] \in {"exec", "record", "commit"}
      => at[p] \in Versions /\ \A v \in 1..at[p] - 1 : v \in recorded

\* A process that holds the write lock has executed a migration nobody has
\* recorded; nobody commits without the lock.
LockInv ==
  \A p \in Processes :
    /\ lock = p => pc[p] \in {"record", "commit"} /\ at[p] \notin recorded
    /\ pc[p] = "commit" => lock = p

\* What SchemaRecorded and OpenIsMigrated say, with what a process has loaded.
SchemaInv ==
  /\ SchemaRecorded
  /\ OpenIsMigrated
  /\ \A p \in Processes : applied[p] \subseteq recorded

IInv == TypeOK /\ AtInv /\ LockInv /\ SchemaInv

\* A process goes on where everything before is recorded, and has opened the
\* store only if that is everything.
LEMMA ProceedKnown ==
  ASSUME IInv, NEW p \in Processes, NEW done, NEW v \in 1..Latest + 1,
         Proceed(p, NextFrom(done, v)),
         done \subseteq recorded', \A w \in 1..v - 1 : w \in recorded'
  PROVE  /\ pc'[p] = "exec" => at'[p] \in Versions /\ \A w \in 1..at'[p] - 1 : w \in recorded'
         /\ pc'[p] = "open" => Versions \subseteq recorded'
         /\ pc'[p] \in {"exec", "open"}
<1> DEFINE n == NextFrom(done, v)
<1>1. n \in v..Latest + 1 /\ \A w \in v..n - 1 : w \in done
  BY NextFromSkips
<1>2. \A w \in 1..n - 1 : w \in recorded'
  BY <1>1, LatestAssumption
<1>3. at'[p] = n /\ pc'[p] = IF n > Latest THEN "open" ELSE "exec"
  BY DEF Proceed, IInv, TypeOK
<1> HIDE DEF n
<1> QED
  BY <1>1, <1>2, <1>3, LatestAssumption DEF Versions

\* Every step keeps the state well typed.
LEMMA TypeStep ==
  ASSUME TypeOK, AtInv, [Next]_vars
  PROVE  TypeOK'
<1>1. ASSUME NEW p \in Processes, CreateVersions(p) \/ Exec(p) \/ Record(p)
      PROVE  TypeOK'
  BY <1>1 DEF TypeOK, CreateVersions, Exec, Record, Opening
<1>2. ASSUME NEW p \in Processes, Pragma(p) \/ SwitchToWAL(p) \/ Refused(p)
      PROVE  TypeOK'
  BY <1>2 DEF TypeOK, Pragma, SwitchToWAL, Refused, Opening, dbVars
<1>3. ASSUME NEW p \in Processes, LoadApplied(p)
      PROVE  TypeOK'
  <2>1. 1 \in 1..Latest + 1
    BY LatestAssumption
  <2>2. /\ at' \in [Processes -> 1..Latest + 1]
        /\ pc' \in [Processes -> Opening \cup {"open", "failed"}]
    BY <1>3, <2>1, ProceedTyped DEF LoadApplied
  <2> QED
    BY <1>3, <2>2 DEF TypeOK, LoadApplied, dbVars
<1>4. ASSUME NEW p \in Processes, Commit(p)
      PROVE  TypeOK'
  <2>1. at[p] \in Versions /\ at[p] + 1 \in 1..Latest + 1
    BY <1>4, LatestAssumption DEF Versions, Commit, AtInv
  <2>2. /\ at' \in [Processes -> 1..Latest + 1]
        /\ pc' \in [Processes -> Opening \cup {"open", "failed"}]
    BY <1>4, <2>1, ProceedTyped DEF Commit
  <2> QED
    BY <1>4, <2>1, <2>2 DEF TypeOK, Commit
<1>5. ASSUME NEW p \in Processes, Fail(p) \/ Crash(p) \/ Retry(p)
      PROVE  TypeOK'
  BY <1>5 DEF TypeOK, Fail, Crash, Retry, Rollback, Opening, dbVars
<1>6. CASE UNCHANGED vars
  BY <1>6 DEF TypeOK, vars, dbVars
<1> QED
  BY <1>1, <1>2, <1>3, <1>4, <1>5, <1>6 DEF Next, Step

\* A process's step keeps what is said of it; the others' are disturbed only by
\* what is recorded, and that only grows.
LEMMA RecordedGrows ==
  ASSUME TypeOK, [Next]_vars
  PROVE  recorded \subseteq recorded'
<1>1. ASSUME NEW p \in Processes, Step(p) \/ Crash(p) \/ Retry(p)
      PROVE  recorded \subseteq recorded'
  BY <1>1 DEF Step, Pragma, SwitchToWAL, Refused, CreateVersions, LoadApplied, Exec, Record, Commit, Fail, Crash, Retry,
              Rollback, dbVars
<1> QED
  BY <1>1 DEF Next, vars, dbVars

\* A process stays in front of a migration all of whose predecessors are recorded.
LEMMA AtStep ==
  ASSUME IInv, [Next]_vars
  PROVE  AtInv'
<1> USE DEF IInv
<1>1. recorded \subseteq recorded'
  BY RecordedGrows
<1>2. ASSUME NEW p \in Processes, Exec(p) \/ Record(p)
      PROVE  AtInv'
  BY <1>1, <1>2 DEF AtInv, TypeOK, Exec, Record
<1>3. ASSUME NEW p \in Processes, CreateVersions(p) \/ Fail(p) \/ Crash(p) \/ Retry(p)
      PROVE  AtInv'
  BY <1>1, <1>3 DEF AtInv, TypeOK, CreateVersions, Fail, Crash, Retry
<1>4. ASSUME NEW p \in Processes, Pragma(p) \/ SwitchToWAL(p) \/ Refused(p)
      PROVE  AtInv'
  BY <1>1, <1>4 DEF AtInv, TypeOK, Pragma, SwitchToWAL, Refused
<1>5. ASSUME NEW p \in Processes, NEW done, NEW v \in 1..Latest + 1,
             Proceed(p, NextFrom(done, v)),
             done \subseteq recorded', \A w \in 1..v - 1 : w \in recorded'
      PROVE  AtInv'
  <2>1. /\ pc'[p] = "exec" => at'[p] \in Versions /\ \A w \in 1..at'[p] - 1 : w \in recorded'
        /\ pc'[p] \in {"exec", "open"}
    BY <1>5, ProceedKnown
  <2>2. \A q \in Processes \ {p} : pc'[q] = pc[q] /\ at'[q] = at[q]
    BY <1>5 DEF Proceed, TypeOK
  <2> QED
    BY <1>1, <2>1, <2>2 DEF AtInv
<1>6. ASSUME NEW p \in Processes, LoadApplied(p)
      PROVE  AtInv'
  <2>1. 1 \in 1..Latest + 1 /\ \A w \in 1..1 - 1 : w \in recorded'
    BY LatestAssumption
  <2>2. Proceed(p, NextFrom(recorded, 1))
    BY <1>6 DEF LoadApplied
  <2> QED
    BY <1>1, <1>5, <2>1, <2>2
<1>7. ASSUME NEW p \in Processes, Commit(p)
      PROVE  AtInv'
  <2>1. at[p] + 1 \in 1..Latest + 1 /\ \A w \in 1..(at[p] + 1) - 1 : w \in recorded'
    BY <1>1, <1>7, LatestAssumption DEF Commit, AtInv, Versions
  <2>2. Proceed(p, NextFrom(applied[p], at[p] + 1)) /\ applied[p] \subseteq recorded'
    BY <1>1, <1>7 DEF Commit, SchemaInv
  <2> QED
    BY <1>5, <2>1, <2>2
<1>8. CASE UNCHANGED vars
  BY <1>8 DEF vars, dbVars, AtInv
<1> QED
  BY <1>2, <1>3, <1>4, <1>6, <1>7, <1>8 DEF Next, Step

\* The lock is held from the execution of an unrecorded migration to its commit.
LEMMA LockStep ==
  ASSUME IInv, [Next]_vars
  PROVE  LockInv'
<1> USE ProcessesAssumption DEF IInv, LockInv, TypeOK
<1>1. ASSUME NEW p \in Processes, CreateVersions(p) \/ Exec(p) \/ Record(p)
      PROVE  LockInv'
  BY <1>1 DEF CreateVersions, Exec, Record, SchemaInv, SchemaRecorded
<1>2. ASSUME NEW p \in Processes, Pragma(p) \/ SwitchToWAL(p) \/ Refused(p)
      PROVE  LockInv'
  BY <1>2 DEF Pragma, SwitchToWAL, Refused, dbVars
<1>3. ASSUME NEW p \in Processes, LoadApplied(p)
      PROVE  LockInv'
  <2>1. \A q \in Processes \ {p} : pc'[q] = pc[q] /\ at'[q] = at[q]
    BY <1>3 DEF LoadApplied, Proceed
  <2>2. lock # p /\ pc'[p] # "commit" /\ lock' = lock /\ recorded' = recorded
    BY <1>3 DEF LoadApplied, Proceed, dbVars
  <2> QED
    BY <2>1, <2>2
<1>4. ASSUME NEW p \in Processes, Commit(p)
      PROVE  LockInv'
  <2>1. lock = p /\ lock' = Nobody /\ pc'[p] # "commit"
    BY <1>4 DEF Commit, Proceed
  <2>2. \A q \in Processes \ {p} : pc'[q] = pc[q]
    BY <1>4 DEF Commit, Proceed
  <2> QED
    BY <2>1, <2>2
<1>5. ASSUME NEW p \in Processes, Fail(p) \/ Crash(p) \/ Retry(p)
      PROVE  LockInv'
  BY <1>5 DEF Fail, Crash, Retry, Rollback, dbVars
<1>6. CASE UNCHANGED vars
  BY <1>6 DEF vars, dbVars
<1> QED
  BY <1>1, <1>2, <1>3, <1>4, <1>5, <1>6 DEF Next, Step

\* Schema and recorded versions move together.
LEMMA SchemaStep ==
  ASSUME IInv, [Next]_vars
  PROVE  SchemaInv'
<1> USE DEF IInv
<1>1. recorded \subseteq recorded'
  BY RecordedGrows
<1>2. SchemaRecorded'
  <2>1. ASSUME NEW p \in Processes, Commit(p)
        PROVE  SchemaRecorded'
    BY <1>1, <2>1, LatestAssumption
    DEF Commit, AtInv, SchemaInv, SchemaRecorded, Versions, TypeOK
  <2>2. CASE UNCHANGED <<objects, recorded>>
    BY <2>2 DEF SchemaInv, SchemaRecorded
  <2> QED
    BY <2>1, <2>2 DEF Next, Step, Pragma, SwitchToWAL, Refused, CreateVersions, LoadApplied, Exec,
                      Record, Fail, Crash, Retry, Rollback, dbVars, vars
<1>3. \A p \in Processes : applied'[p] \subseteq recorded'
  <2>1. ASSUME NEW p \in Processes, LoadApplied(p)
        PROVE  \A q \in Processes : applied'[q] \subseteq recorded'
    BY <2>1 DEF LoadApplied, dbVars, TypeOK, SchemaInv
  <2>2. CASE UNCHANGED applied
    BY <1>1, <2>2 DEF SchemaInv
  <2> QED
    BY <2>1, <2>2 DEF Next, Step, Pragma, SwitchToWAL, Refused, CreateVersions, Exec, Record,
                      Commit, Fail, Crash, Retry, vars
<1>4. OpenIsMigrated'
  <2>1. TypeOK'
    BY TypeStep
  <2>2. recorded' \subseteq Versions
    BY <2>1 DEF TypeOK
  <2>3. ASSUME NEW p \in Processes, NEW done, NEW v \in 1..Latest + 1,
               Proceed(p, NextFrom(done, v)),
               done \subseteq recorded', \A w \in 1..v - 1 : w \in recorded'
        PROVE  OpenIsMigrated'
    <3>1. pc'[p] = "open" => Versions \subseteq recorded'
      BY <2>3, ProceedKnown
    <3>2. \A q \in Processes \ {p} : pc'[q] = pc[q]
      BY <2>3 DEF Proceed, TypeOK
    <3> QED
      BY <1>1, <2>2, <3>1, <3>2 DEF OpenIsMigrated, SchemaInv
  <2>4. ASSUME NEW p \in Processes, LoadApplied(p)
        PROVE  OpenIsMigrated'
    <3>1. 1 \in 1..Latest + 1 /\ \A w \in 1..1 - 1 : w \in recorded'
      BY LatestAssumption
    <3>2. Proceed(p, NextFrom(recorded, 1))
      BY <2>4 DEF LoadApplied
    <3> QED
      BY <1>1, <2>3, <3>1, <3>2
  <2>5. ASSUME NEW p \in Processes, Commit(p)
        PROVE  OpenIsMigrated'
    <3>1. at[p] + 1 \in 1..Latest + 1 /\ \A w \in 1..(at[p] + 1) - 1 : w \in recorded'
      BY <1>1, <2>5, LatestAssumption DEF Commit, AtInv, Versions
    <3>2. Proceed(p, NextFrom(applied[p], at[p] + 1)) /\ applied[p] \subseteq recorded'
      BY <1>1, <2>5 DEF Commit, SchemaInv
    <3> QED
      BY <2>3, <3>1, <3>2
  <2>6. ASSUME NEW p \in Processes,
               CreateVersions(p) \/ Exec(p) \/ Record(p) \/ Fail(p) \/ Crash(p) \/ Retry(p)
        PROVE  OpenIsMigrated'
    BY <1>1, <2>2, <2>6
    DEF CreateVersions, Exec, Record, Fail, Crash, Retry, TypeOK, OpenIsMigrated, SchemaInv
  <2>7. ASSUME NEW p \in Processes, Pragma(p) \/ SwitchToWAL(p) \/ Refused(p)
        PROVE  OpenIsMigrated'
    BY <1>1, <2>2, <2>7
    DEF Pragma, SwitchToWAL, Refused, TypeOK, OpenIsMigrated, SchemaInv
  <2>8. CASE UNCHANGED vars
    BY <2>8 DEF vars, dbVars, OpenIsMigrated, SchemaInv
  <2> QED
    BY <2>4, <2>5, <2>6, <2>7, <2>8 DEF Next, Step
<1> QED
  BY <1>2, <1>3, <1>4 DEF SchemaInv

\* The conjunction of types, positions, lock and schema holds in every reachable
\* state.
THEOREM Invariant == Spec => []IInv
<1>1. Init => TypeOK
  <2> SUFFICES ASSUME Init PROVE TypeOK
    OBVIOUS
  <2>1. at \in [Processes -> 1..Latest + 1]
    BY LatestAssumption DEF Init
  <2>2. created \in BOOLEAN /\ wal \in BOOLEAN
    BY Zenon DEF Init
  <2>3. /\ pc \in [Processes -> Opening \cup {"open", "failed"}]
        /\ applied \in [Processes -> SUBSET Versions]
    BY DEF Init, Opening
  <2> QED
    BY <2>1, <2>2, <2>3 DEF Init, TypeOK
<1>2. Init => AtInv /\ LockInv
  BY ProcessesAssumption DEF Init, AtInv, LockInv
<1>3. Init => SchemaInv
  BY DEF Init, SchemaInv, SchemaRecorded, OpenIsMigrated
<1>4. IInv /\ [Next]_vars => IInv'
  BY TypeStep, AtStep, LockStep, SchemaStep DEF IInv
<1> QED
  BY <1>1, <1>2, <1>3, <1>4, PTL DEF Spec, IInv

-----------------------------------------------------------------------------

\* Every reachable state of the migrations is well typed.
THEOREM TypeCorrect == Spec => []TypeOK
BY Invariant, PTL DEF IInv

\* The record never parts from the schema, whoever is killed wherever.
THEOREM SchemaRecordedThm == Spec => []SchemaRecorded
BY Invariant, PTL DEF IInv, SchemaInv

\* No process opens a store that is not migrated, whatever it had loaded.
THEOREM OpenIsMigratedThm == Spec => []OpenIsMigrated
BY Invariant, PTL DEF IInv, SchemaInv

-----------------------------------------------------------------------------

\* Before the file has its write-ahead log nobody gets past the pragmas, and
\* after that nobody is at the switch.
WalInv ==
  \A p \in Processes : pc[p] \in IF wal THEN (Opening \ {"shared", "busy"}) \cup {"open", "failed"}
                                       ELSE {"pragma", "shared", "busy", "failed"}

\* That is kept by every step.
LEMMA WalStep ==
  ASSUME TypeOK, WalInv, [Next]_vars
  PROVE  WalInv'
<1> USE DEF TypeOK, WalInv, Opening
<1>1. ASSUME NEW p \in Processes, Pragma(p) \/ SwitchToWAL(p) \/ Refused(p)
      PROVE  WalInv'
  BY <1>1 DEF Pragma, SwitchToWAL, Refused, Readers, dbVars
<1>2. ASSUME NEW p \in Processes, CreateVersions(p) \/ Exec(p) \/ Record(p)
      PROVE  WalInv'
  BY <1>2 DEF CreateVersions, Exec, Record
<1>3. ASSUME NEW p \in Processes, LoadApplied(p) \/ Commit(p)
      PROVE  WalInv'
  BY <1>3 DEF LoadApplied, Commit, Proceed, dbVars
<1>4. ASSUME NEW p \in Processes, Fail(p) \/ Crash(p) \/ Retry(p)
      PROVE  WalInv'
  BY <1>4 DEF Fail, Crash, Retry, Rollback, dbVars
<1>5. CASE UNCHANGED vars
  BY <1>5 DEF vars, dbVars
<1> QED
  BY <1>1, <1>2, <1>3, <1>4, <1>5 DEF Next, Step

\* A process leads if it has not begun, has succeeded, or is at the first
\* migration that is not recorded: nothing but a lock can make it fail.
Leads(p) ==
  \/ pc[p] \in {"pragma", "create", "load", "open"}
  \/ /\ pc[p] \in {"exec", "record", "commit"}
     /\ \A v \in recorded : v < at[p]

LeaderInv == ~wal \/ crashed # {} \/ \E p \in Processes : Leads(p)

\* What is recorded lies below any version that is not.
LEMMA BelowUnrecorded ==
  ASSUME IInv, NEW n \in Versions, n \notin recorded
  PROVE  \A v \in recorded : v < n
BY LatestAssumption DEF IInv, TypeOK, SchemaInv, SchemaRecorded, Versions

\* The process that holds the lock leads.
LEMMA HolderLeads ==
  ASSUME IInv, NEW p \in Processes, lock = p
  PROVE  Leads(p)
<1>1. pc[p] \in {"record", "commit"} /\ at[p] \notin recorded /\ at[p] \in Versions
  BY DEF IInv, LockInv, AtInv
<1> QED
  BY <1>1, BelowUnrecorded DEF Leads

\* A process that has loaded or committed leads: it goes on at the first
\* version that is not recorded, or has opened the store.
LEMMA LoadLeads ==
  ASSUME IInv, NEW p \in Processes, LoadApplied(p)
  PROVE  Leads(p)'
<1> DEFINE n == NextFrom(recorded, 1)
<1>1. n \in 1..Latest + 1 /\ (n <= Latest => n \notin recorded)
  BY NextFromSkips, LatestAssumption
<1>2. at'[p] = n /\ pc'[p] = (IF n > Latest THEN "open" ELSE "exec") /\ recorded' = recorded
  BY DEF LoadApplied, Proceed, dbVars, IInv, TypeOK
<1> HIDE DEF n
<1>3. n <= Latest => \A v \in recorded : v < n
  BY <1>1, BelowUnrecorded, LatestAssumption DEF Versions
<1> QED
  BY <1>1, <1>2, <1>3, LatestAssumption DEF Leads

\* A process that commits is in front of everybody else.
LEMMA CommitLeads ==
  ASSUME IInv, NEW p \in Processes, Commit(p)
  PROVE  Leads(p)'
<1> DEFINE n == NextFrom(applied[p], at[p] + 1)
<1>1. at[p] \in Versions /\ at[p] \notin recorded /\ applied[p] \subseteq recorded
  BY DEF Commit, IInv, LockInv, AtInv, SchemaInv
<1>2. at[p] + 1 \in 1..Latest + 1
  BY <1>1, LatestAssumption DEF Versions
<1>3. n \in at[p] + 1..Latest + 1
  BY <1>2, NextFromSkips
<1>4. at'[p] = n /\ pc'[p] = (IF n > Latest THEN "open" ELSE "exec")
  BY DEF Commit, Proceed, IInv, TypeOK
<1>5. recorded' = recorded \cup {at[p]}
  BY DEF Commit
<1>6. \A v \in recorded : v \in Nat /\ v < at[p]
  BY <1>1, BelowUnrecorded DEF IInv, TypeOK, Versions
<1> HIDE DEF n
<1>7. \A v \in recorded' : v < n
  BY <1>1, <1>3, <1>5, <1>6, LatestAssumption DEF Versions
<1> QED
  BY <1>4, <1>7 DEF Leads

\* A leader that fails does so because another process leads.
LEMMA FailLeaves ==
  ASSUME IInv, WalInv, wal, NEW p \in Processes, Fail(p), Leads(p)
  PROVE  \E q \in Processes \ {p} : Leads(q)'
<1>1. \A q \in Processes \ {p} : Leads(q) => Leads(q)'
  BY DEF Fail, Rollback, Leads, IInv, TypeOK
<1>2. CASE pc[p] = "create"
  <2>1. \E q \in Processes \ {p} : pc[q] = "create"
    BY <1>2 DEF Fail, StatementFails
  <2> QED
    BY <1>1, <2>1 DEF Leads
<1>3. CASE pc[p] \in {"exec", "record"}
  <2>1. at[p] \in Versions /\ at[p] \notin recorded /\ at[p] \notin objects
    BY <1>3, LatestAssumption DEF Leads, IInv, AtInv, SchemaInv, SchemaRecorded, Versions
  <2>2. lock # Nobody /\ lock # p
    BY <1>3, <2>1 DEF Fail, StatementFails, IInv, LockInv
  <2>3. lock \in Processes
    BY <2>2 DEF IInv, TypeOK
  <2> QED
    BY <1>1, <2>2, <2>3, HolderLeads
<1> QED
  BY <1>2, <1>3 DEF Fail, StatementFails, WalInv, Opening

\* Some process stays in front unless one crashes.
LEMMA LeaderStep ==
  ASSUME IInv, WalInv, LeaderInv, [Next]_vars
  PROVE  LeaderInv'
<1> USE DEF IInv, TypeOK
<1>1. ASSUME NEW p \in Processes, Pragma(p) \/ SwitchToWAL(p) \/ Refused(p)
      PROVE  LeaderInv'
  <2>1. CASE wal'
    <3>1. SwitchToWAL(p) => Leads(p)'
      BY DEF SwitchToWAL, Leads
    <3>2. Pragma(p) \/ Refused(p) => wal /\ crashed' = crashed /\ \A q \in Processes : Leads(q) => Leads(q)'
      BY <2>1 DEF Pragma, Refused, WalInv, Leads, dbVars
    <3> QED
      BY <1>1, <3>1, <3>2 DEF LeaderInv
  <2> QED
    BY <2>1 DEF LeaderInv
<1>2. ASSUME NEW p \in Processes, CreateVersions(p) \/ Exec(p) \/ Record(p)
      PROVE  LeaderInv'
  <2>1. wal' = wal /\ crashed' = crashed /\ \A q \in Processes : Leads(q) => Leads(q)'
    BY <1>2 DEF CreateVersions, Exec, Record, Leads
  <2> QED
    BY <2>1 DEF LeaderInv
<1>3. ASSUME NEW p \in Processes, LoadApplied(p) \/ Commit(p)
      PROVE  LeaderInv'
  BY <1>3, LoadLeads, CommitLeads DEF LeaderInv
<1>4. ASSUME NEW p \in Processes, Fail(p)
      PROVE  LeaderInv'
  <2>1. wal' = wal /\ crashed' = crashed /\ \A q \in Processes \ {p} : Leads(q) => Leads(q)'
    BY <1>4 DEF Fail, Rollback, Leads
  <2>2. CASE wal /\ Leads(p)
    BY <1>4, <2>2, FailLeaves DEF LeaderInv
  <2>3. CASE ~Leads(p)
    BY <2>1, <2>3 DEF LeaderInv
  <2> QED
    BY <2>1, <2>2, <2>3 DEF LeaderInv
<1>5. ASSUME NEW p \in Processes, Crash(p)
      PROVE  LeaderInv'
  BY <1>5 DEF Crash, LeaderInv
<1>6. ASSUME NEW p \in Processes, Retry(p)
      PROVE  LeaderInv'
  <2>1. Leads(p)'
    BY <1>6 DEF Retry, Leads
  <2> QED
    BY <2>1 DEF LeaderInv
<1>7. CASE UNCHANGED vars
  BY <1>7 DEF vars, dbVars, LeaderInv, Leads
<1> QED
  BY <1>1, <1>2, <1>3, <1>4, <1>5, <1>6, <1>7 DEF Next, Step

\* Of the processes that open a store with a write-ahead log one leads at any
\* time, so unless one was killed they never all fail; who switches a new file
\* leads from then on (applyPragmas, Migrate).
THEOREM SomeoneOpensThm == Spec => []SomeoneOpens
<1>1. Init => LeaderInv
  BY DEF Init, LeaderInv
<1>2. LeaderInv => SomeoneOpens
  BY DEF LeaderInv, Leads, SomeoneOpens
<1>3. IInv /\ WalInv /\ LeaderInv /\ [Next]_vars => LeaderInv'
  BY LeaderStep
<1>4. Init => WalInv
  BY DEF Init, WalInv
<1>5. IInv /\ WalInv /\ [Next]_vars => WalInv'
  BY WalStep DEF IInv
<1> QED
  BY <1>1, <1>2, <1>3, <1>4, <1>5, Invariant, PTL DEF Spec

-----------------------------------------------------------------------------

\* A step of one process moves its state as its caller sees it, and no other's.
LEMMA StateMoves ==
  ASSUME TypeOK, NEW p \in Processes, NEW s,
         pc' \in [Processes -> Opening \cup {"open", "failed"}],
         \A q \in Processes \ {p} : pc'[q] = pc[q],
         s = IF pc'[p] \in Opening THEN "opening" ELSE pc'[p]
  PROVE  stateOf' = [stateOf EXCEPT ![p] = s]
BY DEF stateOf, TypeOK

\* The migration that is committed is the next one of the schema.
LEMMA CommitsNext ==
  ASSUME IInv, NEW p \in Processes, Commit(p)
  PROVE  \E v \in 1..Latest : objects = 1..v - 1 /\ objects' = 1..v
<1> DEFINE v == at[p]
<1>1. v \in Versions /\ v \notin recorded /\ \A w \in 1..v - 1 : w \in recorded
  BY DEF Commit, IInv, LockInv, AtInv
<1>2. objects = recorded /\ objects \subseteq Versions /\ objects' = objects \cup {v}
  BY DEF Commit, IInv, TypeOK, SchemaInv, SchemaRecorded
<1>3. \A w \in objects : w < v
  BY <1>1, <1>2, BelowUnrecorded
<1> HIDE DEF v
<1>4. v \in Nat /\ v # 0 /\ 1..v = (1..v - 1) \cup {v} /\ \A w \in objects : w \in Nat /\ w # 0
  BY <1>1, <1>2, LatestAssumption DEF Versions
<1>5. \A w \in objects : w \in 1..v - 1
  BY <1>3, <1>4
<1>6. \A w \in 1..v - 1 : w \in objects
  BY <1>1, <1>2
<1>7. objects = 1..v - 1
  BY <1>5, <1>6
<1> QED
  BY <1>1, <1>2, <1>4, <1>7 DEF Versions

\* A process that goes on is still opening the store, or has it open with the
\* whole schema.
LEMMA ProceedOpens ==
  ASSUME IInv, IInv', NEW p \in Processes, NEW v, Proceed(p, v)
  PROVE  \/ stateOf' = [stateOf EXCEPT ![p] = "opening"]
         \/ stateOf' = [stateOf EXCEPT ![p] = "open"] /\ objects' = 1..Latest
<1>1. /\ pc'[p] \in {"exec", "open"} /\ \A q \in Processes \ {p} : pc'[q] = pc[q]
      /\ pc' \in [Processes -> Opening \cup {"open", "failed"}]
  BY DEF Proceed, IInv, TypeOK
<1>2. CASE pc'[p] = "exec"
  BY <1>1, <1>2, StateMoves DEF IInv, Opening
<1>3. CASE pc'[p] = "open"
  <2>1. stateOf' = [stateOf EXCEPT ![p] = "open"]
    BY <1>1, <1>3, StateMoves DEF IInv, Opening
  <2>2. objects' = 1..Latest
    BY <1>3 DEF IInv, SchemaInv, SchemaRecorded, OpenIsMigrated, Versions
  <2> QED
    BY <2>1, <2>2
<1> QED
  BY <1>1, <1>2, <1>3

\* Every step of the migrations is a step of the upgrade, or a stutter.
LEMMA UpgradeStep ==
  ASSUME IInv, IInv', [Next]_vars
  PROVE  [Upgraded!Next]_(Upgraded!upgradeVars)
<1> USE DEF Upgraded!Next, Upgraded!Becomes, Upgraded!upgradeVars
<1>1. \A p \in Processes : pc[p] \in Opening => stateOf[p] = "opening"
  BY DEF stateOf
<1>2. \A p \in Processes : pc[p] \in Opening => [stateOf EXCEPT ![p] = "opening"] = stateOf
  BY DEF stateOf
<1>3. ASSUME NEW p \in Processes, CreateVersions(p) \/ Exec(p) \/ Record(p)
      PROVE  [Upgraded!Next]_(Upgraded!upgradeVars)
  <2>1. /\ pc[p] \in Opening /\ pc'[p] \in Opening /\ objects' = objects
        /\ \A q \in Processes \ {p} : pc'[q] = pc[q]
    BY <1>3 DEF CreateVersions, Exec, Record, Opening, IInv, TypeOK
  <2>2. stateOf' = [stateOf EXCEPT ![p] = "opening"]
    BY <2>1, StateMoves DEF IInv, TypeOK
  <2> QED
    BY <1>2, <2>1, <2>2
<1>4. ASSUME NEW p \in Processes, Pragma(p) \/ SwitchToWAL(p) \/ Refused(p)
      PROVE  [Upgraded!Next]_(Upgraded!upgradeVars)
  <2>1. /\ pc[p] \in Opening /\ pc'[p] \in Opening /\ objects' = objects
        /\ \A q \in Processes \ {p} : pc'[q] = pc[q]
    BY <1>4 DEF Pragma, SwitchToWAL, Refused, Opening, IInv, TypeOK, dbVars
  <2>2. stateOf' = [stateOf EXCEPT ![p] = "opening"]
    BY <2>1, StateMoves DEF IInv, TypeOK
  <2> QED
    BY <1>2, <2>1, <2>2
<1>5. ASSUME NEW p \in Processes, LoadApplied(p)
      PROVE  [Upgraded!Next]_(Upgraded!upgradeVars)
  <2>1. pc[p] \in Opening /\ objects' = objects /\ Proceed(p, NextFrom(recorded, 1))
    BY <1>5 DEF LoadApplied, Opening, dbVars
  <2>2. \/ stateOf' = [stateOf EXCEPT ![p] = "opening"]
        \/ stateOf' = [stateOf EXCEPT ![p] = "open"] /\ objects' = 1..Latest
    BY <2>1, ProceedOpens
  <2> QED
    BY <1>1, <1>2, <2>1, <2>2 DEF Upgraded!Open
<1>6. ASSUME NEW p \in Processes, Commit(p)
      PROVE  [Upgraded!Next]_(Upgraded!upgradeVars)
  <2>1. pc[p] \in Opening /\ Proceed(p, NextFrom(applied[p], at[p] + 1))
    BY <1>6 DEF Commit, Opening
  <2>2. \/ stateOf' = [stateOf EXCEPT ![p] = "opening"]
        \/ stateOf' = [stateOf EXCEPT ![p] = "open"] /\ objects' = 1..Latest
    BY <2>1, ProceedOpens
  <2>3. \E v \in 1..Latest : objects = 1..v - 1 /\ objects' = 1..v
    BY <1>6, CommitsNext
  <2> QED
    BY <1>1, <1>2, <2>1, <2>2, <2>3 DEF Upgraded!Upgrade
<1>7. ASSUME NEW p \in Processes, Fail(p) \/ Crash(p)
      PROVE  [Upgraded!Next]_(Upgraded!upgradeVars)
  <2>1. /\ pc[p] \in Opening /\ pc'[p] = "failed" /\ objects' = objects
        /\ \A q \in Processes \ {p} : pc'[q] = pc[q]
    BY <1>7 DEF Fail, Crash, StatementFails, Rollback, Opening, IInv, TypeOK
  <2>2. stateOf' = [stateOf EXCEPT ![p] = "failed"]
    BY <2>1, StateMoves DEF IInv, TypeOK, Opening
  <2> QED
    BY <1>1, <2>1, <2>2 DEF Upgraded!Fail
<1>8. ASSUME NEW p \in Processes, Retry(p)
      PROVE  [Upgraded!Next]_(Upgraded!upgradeVars)
  <2>1. /\ pc[p] \in {"open", "failed"} /\ pc'[p] = "pragma" /\ objects' = objects
        /\ \A q \in Processes \ {p} : pc'[q] = pc[q]
    BY <1>8 DEF Retry, IInv, TypeOK, dbVars
  <2>2. stateOf' = [stateOf EXCEPT ![p] = "opening"] /\ stateOf[p] # "opening"
    BY <2>1, StateMoves DEF IInv, TypeOK, Opening, stateOf
  <2> QED
    BY <2>1, <2>2 DEF Upgraded!Retry
<1>9. CASE UNCHANGED vars
  BY <1>9 DEF vars, dbVars, stateOf
<1> QED
  BY <1>3, <1>4, <1>5, <1>6, <1>7, <1>8, <1>9 DEF Next, Step

\* However many processes migrate the store and are killed, its schema grows one
\* version at a time, whole, and who opens it finds the last (store.go, Open).
THEOREM UpgradeImplemented == Spec => ImplementsUpgrade
<1>1. Init => Upgraded!Init
  BY DEF Init, Upgraded!Init, stateOf, Opening
<1> QED
  BY <1>1, UpgradeStep, Invariant, PTL DEF Spec, ImplementsUpgrade, Upgraded!Spec

=============================================================================
