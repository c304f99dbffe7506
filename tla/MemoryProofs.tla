---------------------------- MODULE MemoryProofs ----------------------------
(***************************************************************************)
(* Proofs about Memory, for every set of rows, short ids, projects and     *)
(* requests, and for every window and limit.                               *)
(***************************************************************************)
EXTENDS Memory, OrderLemmas, FiniteSetTheorems

-----------------------------------------------------------------------------

\* The queries.

\* What is newest among rows is among them.
LEMMA NewestSubset ==
  ASSUME NEW S, NEW n
  PROVE  Newest(S, n) \subseteq S
BY DEF Newest

\* An insert keeps the rows and adds one.
LEMMA RowsGrow ==
  ASSUME TypeOK, NEW t \in Tasks, tasks' = Append(tasks, t)
  PROVE  Rows' = Rows \cup {t}
<1>1. tasks \in Seq(Tasks)
  BY DEF TypeOK
<1> QED
  BY <1>1 DEF Rows

\* Among any rows there is one that none of them is newer than.
LEMMA SomeNewest ==
  ASSUME TypeOK, NEW S, S \subseteq Rows, S # {}
  PROVE  \E t \in S : \A u \in S : ~Newer(u, t)
<1> DEFINE I == {i \in DOMAIN tasks : tasks[i] \in S}
<1>1. Len(tasks) \in Nat /\ I \subseteq 0..Len(tasks) /\ I # {}
  BY DEF TypeOK, Rows
<1>2. PICK i \in I : \A j \in I : j <= i
  <2> HIDE DEF I
  <2> QED
    BY <1>1, Greatest
<1>3. \A u \in S : ~Newer(u, tasks[i])
  <2> SUFFICES ASSUME NEW u \in S, Newer(u, tasks[i])
               PROVE  FALSE
    OBVIOUS
  <2>1. PICK j, k \in DOMAIN tasks : tasks[j] = u /\ tasks[k] = tasks[i] /\ j > k
    BY DEF Newer
  <2>2. k = i
    BY <2>1 DEF TypeOK
  <2> QED
    BY <1>1, <1>2, <2>1, <2>2
<1> QED
  BY <1>3

\* The table is finite.
LEMMA RowsFinite ==
  ASSUME TypeOK
  PROVE  IsFiniteSet(Rows)
<1>1. tasks \in Seq(Tasks) /\ DOMAIN tasks = 1..Len(tasks) /\ Len(tasks) \in Nat
  BY DEF TypeOK
<1>2. IsFiniteSet(DOMAIN tasks)
  BY <1>1, FS_Interval
<1>3. tasks \in Surjection(DOMAIN tasks, Rows)
  BY <1>1 DEF Surjection, Rows
<1> QED
  BY <1>2, <1>3, FS_Surjection

\* Rows are ordered by their place in the table.
LEMMA NewerTransitive ==
  ASSUME TypeOK, NEW t, NEW u, NEW v, Newer(t, u), Newer(u, v)
  PROVE  Newer(t, v)
<1>1. PICK i, j \in DOMAIN tasks : tasks[i] = t /\ tasks[j] = u /\ i > j
  BY DEF Newer
<1>2. PICK k, l \in DOMAIN tasks : tasks[k] = u /\ tasks[l] = v /\ k > l
  BY DEF Newer
<1>3. j = k /\ DOMAIN tasks \subseteq Nat
  BY <1>1, <1>2 DEF TypeOK
<1>4. i > l
  BY <1>1, <1>2, <1>3
<1> QED
  BY <1>1, <1>2, <1>4 DEF Newer

\* A row newer than one of the newest is one of them, too.
LEMMA NewestUpward ==
  ASSUME TypeOK, NEW n \in Nat, NEW t \in Newest(Rows, n), NEW u \in Rows, Newer(u, t)
  PROVE  u \in Newest(Rows, n)
<1> DEFINE A == {w \in Rows : Newer(w, u)}
           B == {w \in Rows : Newer(w, t)}
<1>1. A \subseteq B
  BY NewerTransitive
<1>2. IsFiniteSet(A) /\ IsFiniteSet(B) /\ Cardinality(A) <= Cardinality(B)
  <2>1. IsFiniteSet(B)
    BY RowsFinite, FS_Subset
  <2> HIDE DEF A, B
  <2> QED
    BY <1>1, <2>1, FS_Subset
<1>3. Cardinality(B) < n
  BY DEF Newest
<1>4. Cardinality(A) \in Nat /\ Cardinality(B) \in Nat
  BY <1>2, FS_CardinalityType
<1>5. Cardinality(A) < n
  BY <1>2, <1>3, <1>4
<1> QED
  BY <1>5 DEF Newest

\* FindByShortID returns the newest row with the id that was asked for, or none.
LEMMA FoundIsRow ==
  ASSUME TypeOK, NEW d, FindByShortID(d) # NotFound
  PROVE  /\ FindByShortID(d) \in Rows
         /\ ShortID[FindByShortID(d)] = d
         /\ \A u \in Rows : ShortID[u] = d => ~Newer(u, FindByShortID(d))
<1> DEFINE f == FindByShortID(d)
<1>1. Matches(d) # {} /\ Matches(d) \subseteq Rows
  BY NewestSubset DEF FindByShortID, Matches
<1>2. PICK t \in Matches(d) : \A u \in Matches(d) : ~Newer(u, t)
  BY <1>1, SomeNewest
<1>3. {u \in Matches(d) : Newer(u, t)} = {}
  BY <1>2
<1>4. t \in Newest(Matches(d), 1)
  BY <1>3, FS_EmptySet DEF Newest
<1>5. f \in Newest(Matches(d), 1)
  BY <1>1, <1>4 DEF FindByShortID
<1> HIDE DEF f
<1>6. f \in Matches(d)
  BY <1>5, NewestSubset
<1>7. \A u \in Matches(d) : ~Newer(u, f)
  <2> DEFINE newer == {u \in Matches(d) : Newer(u, f)}
  <2>1. IsFiniteSet(newer)
    BY <1>1, RowsFinite, FS_Subset
  <2>2. Cardinality(newer) < 1
    BY <1>5 DEF Newest
  <2> HIDE DEF newer
  <2>3. newer = {}
    BY <2>1, <2>2, FS_CardinalityType, FS_EmptySet
  <2> QED
    BY <2>3 DEF newer
<1>8. ASSUME NEW u \in Rows, ShortID[u] = d, Newer(u, f)
      PROVE  FALSE
  <2>1. f \in Newest(Rows, Window) /\ Window \in Nat
    BY <1>6, LimitsAssumption DEF Matches
  <2>2. u \in Matches(d)
    BY <1>8, <2>1, NewestUpward DEF Matches
  <2> QED
    BY <1>7, <1>8, <2>2
<1> QED
  BY <1>1, <1>6, <1>8 DEF Matches, f

-----------------------------------------------------------------------------

\* The cache holds rows under their own ids; what was previewed has its id in
\* it.
CacheInv ==
  /\ \A d \in DOMAIN cache : ShortID[cache[d]] = d
  /\ \A t \in previewed : ShortID[t] \in DOMAIN cache

\* Registering rows keeps the cache right and adds their ids.
LEMMA RegisterKeeps ==
  ASSUME TypeOK, \A d \in DOMAIN cache : ShortID[cache[d]] = d,
         NEW S, S \subseteq Rows, Register(S)
  PROVE  /\ cache' \in [DOMAIN cache' -> Rows] /\ DOMAIN cache' \subseteq Displays
         /\ \A d \in DOMAIN cache' : ShortID[cache'[d]] = d
         /\ DOMAIN cache' = DOMAIN cache \cup {ShortID[t] : t \in S}
<1> DEFINE ids == {ShortID[t] : t \in S}
<1>1. cache' \in [DOMAIN cache \cup ids -> Rows] /\ DOMAIN cache' = DOMAIN cache \cup ids
  BY DEF Register
<1>2. \A d \in DOMAIN cache' :
        IF d \in ids THEN ShortID[cache'[d]] = d ELSE cache'[d] = cache[d]
  BY <1>1 DEF Register
<1>3. \A d \in DOMAIN cache' : d \notin ids => d \in DOMAIN cache
  BY <1>1
<1>4. Rows \subseteq Tasks
  BY DEF TypeOK, Rows
<1>5. ids \subseteq Displays
  BY <1>4, FunctionsAssumption
<1> HIDE DEF ids
<1>6. \A d \in DOMAIN cache' : ShortID[cache'[d]] = d
  BY <1>2, <1>3
<1>7. DOMAIN cache' \subseteq Displays
  BY <1>1, <1>5 DEF TypeOK
<1> QED
  BY <1>1, <1>6, <1>7 DEF ids

\* Every step keeps the state well typed and the cache right.
LEMMA StoreStep ==
  ASSUME TypeOK, CacheInv, NEW t \in Tasks, CreateTask(t) \/ UpdateTask(t)
  PROVE  TypeOK' /\ CacheInv'
<1>1. CacheInv'
  BY DEF CreateTask, UpdateTask, mcpVars, CacheInv
<1>2. CASE CreateTask(t)
  <2>1. Rows' = Rows \cup {t} /\ tasks' \in Seq(Tasks)
    BY <1>2, RowsGrow DEF CreateTask, TypeOK
  <2>2. \A i, j \in DOMAIN tasks' : tasks'[i] = tasks'[j] => i = j
    BY <1>2 DEF CreateTask, TypeOK, Rows
  <2>3. UNCHANGED <<enriched, cache, previewed, injected, loop, cycles, forwards>>
    BY <1>2 DEF CreateTask, mcpVars, loopVars
  <2>4. cache' \in [DOMAIN cache' -> Rows']
    BY <2>1, <2>3 DEF TypeOK
  <2>5. injected' \in [Requests -> SUBSET Rows']
    BY <2>1, <2>3 DEF TypeOK
  <2> QED
    BY <1>1, <2>1, <2>2, <2>3, <2>4, <2>5 DEF TypeOK
<1>3. CASE UpdateTask(t)
  <2>1. Rows' = Rows
    BY <1>3 DEF UpdateTask, Rows
  <2> QED
    BY <1>1, <1>3, <2>1 DEF UpdateTask, TypeOK, mcpVars, loopVars
<1> QED
  BY <1>2, <1>3

\* Steps of the expand loop leave the cache alone and the state typed.
LEMMA LoopStep ==
  ASSUME TypeOK, CacheInv, NEW h \in Requests, Inject(h) \/ Finish(h) \/ Continue(h) \/ CapHit(h)
  PROVE  TypeOK' /\ CacheInv'
<1>1. Rows' = Rows /\ UNCHANGED <<tasks, enriched, cache, previewed>>
  BY DEF Inject, Finish, Continue, CapHit, storeVars, mcpVars, Rows
<1>2. Newest(Memories(RequestProject[h]), PreviewLimit) \subseteq Rows
  BY DEF Newest, Memories
<1>3. injected' \in [Requests -> SUBSET Rows]
  <2>1. injected \in [Requests -> SUBSET Rows]
    BY DEF TypeOK
  <2>2. CASE Inject(h)
    <3> DEFINE memories == Newest(Memories(RequestProject[h]), PreviewLimit)
    <3>1. injected' = [injected EXCEPT ![h] = memories] \/ injected' = injected
      BY <2>2 DEF Inject
    <3>2. memories \in SUBSET Rows
      BY <1>2
    <3> HIDE DEF memories
    <3> QED
      BY <2>1, <3>1, <3>2
  <2> QED
    BY <2>1, <2>2 DEF Finish, Continue, CapHit
<1>4. /\ loop' \in [Requests -> {"idle", "forward", "done"}]
      /\ forwards' \in [Requests -> Nat]
  <2>1. loop \in [Requests -> {"idle", "forward", "done"}] /\ forwards \in [Requests -> Nat]
    BY DEF TypeOK
  <2>2. CASE Inject(h)
    BY <2>1, <2>2 DEF Inject
  <2>3. CASE Finish(h) \/ CapHit(h)
    BY <2>1, <2>3 DEF Finish, CapHit
  <2>4. CASE Continue(h)
    BY <2>1, <2>4 DEF Continue
  <2> QED
    BY <2>2, <2>3, <2>4
<1>5. cycles' \in [Requests -> 0..MaxExpandCycles]
  <2>1. cycles \in [Requests -> 0..MaxExpandCycles] /\ MaxExpandCycles \in Nat
    BY LimitsAssumption DEF TypeOK
  <2>2. CASE Continue(h)
    <3>1. cycles[h] < MaxExpandCycles /\ cycles' = [cycles EXCEPT ![h] = @ + 1]
      BY <2>2 DEF Continue, Allow
    <3>2. cycles[h] + 1 \in 0..MaxExpandCycles
      BY <2>1, <3>1
    <3> QED
      BY <2>1, <3>1, <3>2
  <2>3. CASE Inject(h) \/ Finish(h) \/ CapHit(h)
    BY <2>1, <2>3 DEF Inject, Finish, CapHit
  <2> QED
    BY <2>2, <2>3
<1> QED
  BY <1>1, <1>3, <1>4, <1>5 DEF TypeOK, CacheInv

\* Steps of the MCP server keep the state typed and the cache right: every entry
\* is under its own short id, and every previewed row has one.
LEMMA McpStep ==
  ASSUME TypeOK, CacheInv,
         \/ \E ps \in {{p} : p \in Projects} \cup {Projects}, S \in SUBSET Rows : Preview(ps, S)
         \/ \E d \in Displays : Expand(d)
         \/ Restart
  PROVE  TypeOK' /\ CacheInv'
<1>1. Rows' = Rows /\ UNCHANGED <<tasks, enriched, injected, loop, cycles, forwards>>
  BY DEF Preview, Expand, Restart, storeVars, loopVars, Rows
<1>2. ASSUME NEW S, S \subseteq Rows, Register(S), previewed' \in {previewed, previewed \cup S}
      PROVE  TypeOK' /\ CacheInv'
  <2>1. /\ cache' \in [DOMAIN cache' -> Rows] /\ DOMAIN cache' \subseteq Displays
        /\ \A d \in DOMAIN cache' : ShortID[cache'[d]] = d
        /\ DOMAIN cache' = DOMAIN cache \cup {ShortID[t] : t \in S}
    BY <1>2, RegisterKeeps DEF CacheInv
  <2>2. previewed' \subseteq Rows /\ \A t \in previewed' : ShortID[t] \in DOMAIN cache'
    BY <1>2, <2>1 DEF TypeOK, CacheInv
  <2> QED
    BY <1>1, <2>1, <2>2 DEF TypeOK, CacheInv
<1>3. ASSUME NEW ps, NEW S \in SUBSET Rows, Preview(ps, S)
      PROVE  TypeOK' /\ CacheInv'
  <2> DEFINE shown == Newest(UNION {Memories(p) : p \in ps} \cap S, PreviewLimit)
  <2>1. shown \subseteq Rows
    BY DEF Newest, Memories
  <2>2. Register(shown) /\ previewed' = previewed \cup shown
    BY <1>3 DEF Preview
  <2> QED
    BY <1>2, <2>1, <2>2
<1>4. ASSUME NEW d \in Displays, Expand(d)
      PROVE  TypeOK' /\ CacheInv'
  <2>1. CASE d \notin DOMAIN cache /\ FindByShortID(d) # NotFound
    <3>1. Register({FindByShortID(d)}) /\ previewed' = previewed
      BY <1>4, <2>1 DEF Expand
    <3>2. {FindByShortID(d)} \subseteq Rows
      BY <2>1, FoundIsRow
    <3> QED
      BY <1>2, <3>1, <3>2
  <2>2. CASE ~(d \notin DOMAIN cache /\ FindByShortID(d) # NotFound)
    BY <1>1, <1>4, <2>2 DEF Expand, TypeOK, CacheInv
  <2> QED
    BY <2>1, <2>2
<1>5. CASE Restart
  BY <1>1, <1>5 DEF Restart, TypeOK, CacheInv
<1> QED
  BY <1>3, <1>4, <1>5

\* Types and the cache invariant hold in every reachable state.
THEOREM Invariant == Spec => [](TypeOK /\ CacheInv)
<1>1. Init => TypeOK
  BY LimitsAssumption DEF Init, TypeOK, Rows
<1>2. Init => CacheInv
  BY DEF Init, CacheInv
<1>3. TypeOK /\ CacheInv /\ [Next]_vars => TypeOK' /\ CacheInv'
  <2> SUFFICES ASSUME TypeOK, CacheInv, [Next]_vars
               PROVE  TypeOK' /\ CacheInv'
    OBVIOUS
  <2>1. CASE UNCHANGED vars
    BY <2>1 DEF vars, storeVars, mcpVars, loopVars, TypeOK, CacheInv, Rows
  <2> QED
    BY <2>1, StoreStep, LoopStep, McpStep DEF Next
<1> QED
  BY <1>1, <1>2, <1>3, PTL DEF Spec

-----------------------------------------------------------------------------

\* Every reachable state of the memories is well typed.
THEOREM TypeCorrect == Spec => []TypeOK
BY Invariant, PTL

\* A previewed id leads to a row with that id for as long as the server runs.
THEOREM PreviewedExpandsThm == Spec => []PreviewedExpands
<1>1. TypeOK /\ CacheInv => PreviewedExpands
  BY DEF TypeOK, CacheInv, PreviewedExpands, Resolve
<1> QED
  BY <1>1, Invariant, PTL

\* Where the proxy finds a row, the MCP server leads to that row or to an older
\* one with the same short id (resolveTask, FindByShortID).
THEOREM ProcessesAgreeThm == Spec => []ProcessesAgree
<1>1. TypeOK /\ CacheInv => ProcessesAgree
  <2> SUFFICES ASSUME TypeOK, CacheInv, NEW d \in Displays, FindByShortID(d) # NotFound
               PROVE  /\ Resolve(d) \in Rows /\ ShortID[Resolve(d)] = d
                      /\ ~Newer(Resolve(d), FindByShortID(d))
    BY DEF ProcessesAgree
  <2>1. Resolve(d) \in Rows /\ ShortID[Resolve(d)] = d
    <3>1. CASE d \in DOMAIN cache
      BY <3>1 DEF Resolve, TypeOK, CacheInv
    <3>2. CASE d \notin DOMAIN cache
      BY <3>2, FoundIsRow DEF Resolve
    <3> QED
      BY <3>1, <3>2
  <2> QED
    BY <2>1, FoundIsRow
<1> QED
  BY <1>1, Invariant, PTL

\* Forwards are one more than cycles once the loop has begun.
CyclesInv ==
  \A h \in Requests :
    forwards[h] = IF loop[h] = "idle" THEN 0 ELSE cycles[h] + 1

\* However often a model asks, a request is forwarded MaxExpandCycles + 1 times
\* at most.
THEOREM LoopBoundedThm == Spec => []LoopBounded
<1> DEFINE Inv == CyclesInv /\ \A h \in Requests : loop[h] = "idle" => cycles[h] = 0
<1>1. Init => Inv
  BY DEF Init, CyclesInv
<1>2. TypeOK /\ Inv /\ [Next]_vars => Inv'
  <2> SUFFICES ASSUME TypeOK, Inv, [Next]_vars
               PROVE  Inv'
    OBVIOUS
  <2>1. ASSUME NEW h \in Requests, Inject(h) \/ Finish(h) \/ Continue(h) \/ CapHit(h)
        PROVE  Inv'
    <3>1. /\ forwards \in [Requests -> Nat] /\ loop \in [Requests -> {"idle", "forward", "done"}]
          /\ cycles \in [Requests -> 0..MaxExpandCycles]
      BY DEF TypeOK
    <3>2. CASE Inject(h)
      BY <3>1, <3>2 DEF CyclesInv, Inject
    <3>3. CASE Continue(h)
      BY <3>1, <3>3, LimitsAssumption DEF CyclesInv, Continue, Allow
    <3>4. CASE Finish(h) \/ CapHit(h)
      BY <3>1, <3>4 DEF CyclesInv, Finish, CapHit
    <3> QED
      BY <2>1, <3>2, <3>3, <3>4
  <2>2. CASE UNCHANGED loopVars
    BY <2>2 DEF loopVars, CyclesInv
  <2> QED
    BY <2>1, <2>2 DEF Next, CreateTask, UpdateTask, Preview, Expand, Restart, vars
<1>3. TypeOK /\ Inv => LoopBounded
  BY LimitsAssumption DEF TypeOK, CyclesInv, LoopBounded
<1> QED
  BY <1>1, <1>2, <1>3, TypeCorrect, PTL DEF Spec

=============================================================================
