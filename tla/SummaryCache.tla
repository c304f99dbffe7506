---------------------------- MODULE SummaryCache ----------------------------
(***************************************************************************)
(* The cache of pre-computed conversation summaries (internal/compact,     *)
(* type Cache): a map from session id to summary, a map of the             *)
(* computations in flight, and the goroutines that run them.  The proxy    *)
(* uses the project as the session id.                                     *)
(*                                                                         *)
(* A conversation is abstracted to the set of messages it contains, and a  *)
(* summary to the set of messages it stands for: the best summary the      *)
(* model can return covers exactly the conversation it was given.          *)
(***************************************************************************)
EXTENDS Naturals

CONSTANTS
  Projects,       \* session ids: the projects clients name
  Conversations,  \* the clients' conversations
  MaxTurns,       \* bound: messages a client adds to one conversation
  MaxFailures     \* bound: failed computations per project

ASSUME MaxTurnsAssumption == MaxTurns \in Nat
ASSUME MaxFailuresAssumption == MaxFailures \in Nat

VARIABLES
  summaries,  \* Cache.summaries: a map, so a function on the projects cached
  pending,    \* Cache.pending: the projects whose computation is in flight
  jobs,       \* the running goroutines, each with its captured arguments
  failures    \* history: how many computations of a project have failed

cacheVars == <<summaries, pending, jobs, failures>>

\* The n-th message of a conversation.
Messages == Conversations \X (1..MaxTurns)

Job == [proj : Projects, convo : SUBSET Messages]

Cached(p) == p \in DOMAIN summaries

JobsOf(p) == {j \in jobs : j.proj = p}

CacheTypeOK ==
  /\ DOMAIN summaries \subseteq Projects
  /\ summaries \in [DOMAIN summaries -> SUBSET Messages]
  /\ pending \subseteq Projects
  /\ jobs \subseteq Job
  /\ failures \in [Projects -> 0..MaxFailures]

CacheInit ==
  /\ summaries = [p \in {} |-> {}]
  /\ pending = {}
  /\ jobs = {}
  /\ failures = [p \in Projects |-> 0]

-----------------------------------------------------------------------------

\* Mutant of StartComputeFor: starts a second goroutine for a pending project.
StartComputeIfUncached(p, convo) ==
  IF Cached(p)
    THEN UNCHANGED cacheVars
    ELSE /\ pending' = pending \cup {p}
         /\ jobs' = jobs \cup {[proj |-> p, convo |-> convo]}
         /\ UNCHANGED <<summaries, failures>>

\* Mutant of StartComputeFor: recomputes a summary that is already there.
StartComputeIfNotPending(p, convo) ==
  IF p \in pending
    THEN UNCHANGED cacheVars
    ELSE /\ pending' = pending \cup {p}
         /\ jobs' = jobs \cup {[proj |-> p, convo |-> convo]}
         /\ UNCHANGED <<summaries, failures>>

\* Mutant of StartComputeFor: registers the computation, starts no goroutine.
RegisterOnly(p, convo) ==
  /\ pending' = pending \cup {p}
  /\ UNCHANGED <<summaries, jobs, failures>>

\* Cache.StartCompute: a no-op when the summary is cached or in flight;
\* otherwise register the computation and start its goroutine.
StartComputeFor(p, convo) ==
  IF Cached(p) \/ p \in pending
    THEN UNCHANGED cacheVars
    ELSE /\ pending' = pending \cup {p}
         /\ jobs' = jobs \cup {[proj |-> p, convo |-> convo]}
         /\ UNCHANGED <<summaries, failures>>

\* Mutant of ComputeSucceeds: the result is not stored.
ComputeDropsResult(j) ==
  /\ j \in jobs
  /\ jobs' = jobs \ {j}
  /\ pending' = pending \ {j.proj}
  /\ UNCHANGED <<summaries, failures>>

\* The goroutine's last critical section after Compute returned a summary.
ComputeSucceeds(j) ==
  /\ j \in jobs
  /\ jobs' = jobs \ {j}
  /\ pending' = pending \ {j.proj}
  /\ summaries' = [p \in DOMAIN summaries \cup {j.proj} |->
                     IF p = j.proj THEN j.convo ELSE summaries[p]]
  /\ UNCHANGED failures

\* The same critical section after Compute returned an error: the entry in
\* flight goes, nothing is stored.
ComputeFails(j) ==
  /\ j \in jobs
  /\ failures[j.proj] < MaxFailures
  /\ jobs' = jobs \ {j}
  /\ pending' = pending \ {j.proj}
  /\ failures' = [failures EXCEPT ![j.proj] = @ + 1]
  /\ UNCHANGED summaries

=============================================================================
