------------------------------ MODULE Keepalive ------------------------------
(***************************************************************************)
(* The extended-cache keep-alive (internal/keepalive, type Manager) and    *)
(* the steps of handleMessages that feed it.                               *)
(*                                                                         *)
(* When a forward to Anthropic ends, its handler stashes the body under    *)
(* the project.  A ticker goroutine drops the sessions that were idle too  *)
(* long and starts, for those idle long enough, a goroutine that sends the *)
(* stashed body once more so that the provider keeps its cache warm.       *)
(*                                                                         *)
(* Time is a counter.  Requests take time, up to a timeout; what is local  *)
(* takes none, and the ticker is punctual: delays the program causes are   *)
(* modelled, delays of the machine are not.  A body is the number of its   *)
(* request.                                                                *)
(***************************************************************************)
EXTENDS Integers

CONSTANTS
  Projects,          \* session ids
  IdleThreshold,     \* idleThreshold
  MaxIdleTotal,      \* maxIdleTotal
  TickInterval,      \* tickInterval
  MaxPerIdlePeriod,  \* maxPerIdlePeriod
  KeepaliveTimeout,  \* the Timeout of the client that sends keep-alives
  MaxLatency,        \* bound: the time a forward may take
  MaxForwards,       \* bound: requests in all
  Horizon,           \* bound: the time modelled
  Unreliable         \* whether forwards and keep-alives may fail

ASSUME TimesAssumption ==
  /\ {IdleThreshold, MaxIdleTotal, KeepaliveTimeout, MaxLatency, Horizon} \subseteq Nat
  /\ TickInterval \in Nat \ {0}
ASSUME BoundsAssumption == MaxPerIdlePeriod \in Nat /\ MaxForwards \in Nat
ASSUME UnreliableAssumption == Unreliable \in BOOLEAN

VARIABLES
  clock,
  sessions,  \* Manager.sessions: a map, so a function on the projects stashed
  nextTick,  \* when the ticker is due
  firing,    \* keep-alive goroutines under way: body, time of their tick
  stop,      \* whether Manager.stop is closed
  loop,      \* whether the ticker goroutine runs
  inflight,  \* handlers whose forward has not ended: body, project, start
  arrived,   \* history: number of requests so far
  seen,      \* history: when the provider last saw each body
  took,      \* history: how long each body's forward took
  fires,     \* history: keep-alives started for each body
  failed     \* history: bodies of which a forward or a keep-alive failed

managerVars == <<sessions, nextTick, firing, stop, loop>>
handlerVars == <<inflight, arrived>>
historyVars == <<seen, took, fires, failed>>
vars == <<clock, managerVars, handlerVars, historyVars>>

Bodies == 1..MaxForwards

Session == [body : Bodies, lastForward : Nat, keepalives : Nat]

Keepalives == [body : Bodies, since : Nat]

Request == [body : Bodies, proj : Projects, since : Nat]

TypeOK ==
  /\ clock \in Nat
  /\ DOMAIN sessions \subseteq Projects
  /\ sessions \in [DOMAIN sessions -> Session]
  /\ nextTick \in Nat
  /\ firing \subseteq Keepalives
  /\ stop \in BOOLEAN
  /\ loop \in {"running", "stopped"}
  /\ inflight \subseteq Request
  /\ arrived \in 0..MaxForwards
  /\ seen \in [Bodies -> Nat]
  /\ took \in [Bodies -> Int]
  /\ fires \in [Bodies -> Nat]
  /\ failed \subseteq Bodies

Init ==
  /\ clock = 0
  /\ sessions = [p \in {} |-> 0]
  /\ nextTick = TickInterval
  /\ firing = {}
  /\ stop = FALSE
  /\ loop = "running"
  /\ inflight = {}
  /\ arrived = 0
  /\ seen = [b \in Bodies |-> 0]
  /\ took = [b \in Bodies |-> 0]
  /\ fires = [b \in Bodies |-> 0]
  /\ failed = {}

-----------------------------------------------------------------------------

\* A request arrives and its body goes to the provider, which has seen it now
\* unless the forward fails.
Forward(p) ==
  LET b == arrived + 1
  IN  /\ ~stop
      /\ b <= MaxForwards
      /\ arrived' = b
      /\ inflight' = inflight \cup {[body |-> b, proj |-> p, since |-> clock]}
      /\ seen' = [seen EXCEPT ![b] = clock]
      /\ UNCHANGED <<clock, managerVars, took, fires, failed>>

\* Mutant of Stash: stashes the body before the one given.
StashPrevious(p, b) ==
  sessions' = [q \in DOMAIN sessions \cup {p} |->
                 IF q = p THEN [body |-> b - 1, lastForward |-> clock, keepalives |-> 0]
                          ELSE sessions[q]]

\* Manager.Stash: a new session replaces the project's old one.
Stash(p, b) ==
  sessions' = [q \in DOMAIN sessions \cup {p} |->
                 IF q = p THEN [body |-> b, lastForward |-> clock, keepalives |-> 0]
                          ELSE sessions[q]]

\* The end of the handler: it stashes the body, whatever came of the forward.
Ends(r) ==
  /\ r \in inflight
  /\ inflight' = inflight \ {r}
  /\ Stash(r.proj, r.body)
  /\ took' = [took EXCEPT ![r.body] = clock - r.since]
  /\ UNCHANGED <<clock, nextTick, firing, stop, loop, arrived, seen, fires>>

\* The forward ends well ...
Finish(r) ==
  /\ Ends(r)
  /\ UNCHANGED failed

\* ... or with an error, from the provider or before it was reached.
FinishFails(r) ==
  /\ Unreliable
  /\ Ends(r)
  /\ failed' = failed \cup {r.body}

-----------------------------------------------------------------------------

IdleFor(p) == clock - sessions[p].lastForward

\* Mutant of Expired: the cap is looked at before the age.
ExpiredBelowCap(p) ==
  /\ IdleFor(p) > MaxIdleTotal
  /\ sessions[p].keepalives < MaxPerIdlePeriod

Expired(p) == IdleFor(p) > MaxIdleTotal

\* Mutants of Due: the cap is off by one, either way.
DueOnceMore(p) ==
  /\ ~Expired(p)
  /\ IdleFor(p) >= IdleThreshold
  /\ sessions[p].keepalives <= MaxPerIdlePeriod

DueOnceLess(p) ==
  /\ ~Expired(p)
  /\ IdleFor(p) >= IdleThreshold
  /\ sessions[p].keepalives + 1 < MaxPerIdlePeriod

Due(p) ==
  /\ ~Expired(p)
  /\ IdleFor(p) >= IdleThreshold
  /\ sessions[p].keepalives < MaxPerIdlePeriod

\* Manager.tickAt, one critical section: expired sessions go, every session
\* due is counted and gets a goroutine.
Tick ==
  LET kept == {p \in DOMAIN sessions : ~Expired(p)}
      due == {p \in DOMAIN sessions : Due(p)}
      bodies == {sessions[p].body : p \in due}
  IN  /\ loop = "running"
      /\ clock >= nextTick
      /\ nextTick' = nextTick + TickInterval
      /\ sessions' = [p \in kept |->
                        IF p \in due THEN [sessions[p] EXCEPT !.keepalives = @ + 1]
                                     ELSE sessions[p]]
      /\ firing' = firing \cup {[body |-> b, since |-> clock] : b \in bodies}
      /\ fires' = [b \in Bodies |-> IF b \in bodies THEN fires[b] + 1 ELSE fires[b]]
      /\ UNCHANGED <<clock, stop, loop, handlerVars, seen, took, failed>>

\* Manager.fire: the provider answers the body the goroutine was started with,
\* which it has seen by then ...
Fire(f) ==
  /\ f \in firing
  /\ firing' = firing \ {f}
  /\ seen' = [seen EXCEPT ![f.body] = clock]
  /\ UNCHANGED <<clock, sessions, nextTick, stop, loop, handlerVars, took, fires, failed>>

\* ... or the goroutine gives up, silently, on an error or at the timeout.
FireFails(f) ==
  /\ Unreliable
  /\ f \in firing
  /\ firing' = firing \ {f}
  /\ failed' = failed \cup {f.body}
  /\ UNCHANGED <<clock, sessions, nextTick, stop, loop, handlerVars, seen, took, fires>>

\* Server.shutdown calls Manager.Close, once.
Close ==
  /\ ~stop
  /\ stop' = TRUE
  /\ UNCHANGED <<clock, sessions, nextTick, firing, loop, handlerVars, historyVars>>

\* Mutant of LoopExits: the channel is looked at when a tick is due only.
LoopExitsOnTick ==
  /\ loop = "running"
  /\ stop
  /\ clock >= nextTick
  /\ loop' = "stopped"
  /\ UNCHANGED <<clock, sessions, nextTick, firing, stop, handlerVars, historyVars>>

\* The ticker goroutine sees the closed channel; when a tick is due as well,
\* its select may take either.
LoopExits ==
  /\ loop = "running"
  /\ stop
  /\ loop' = "stopped"
  /\ UNCHANGED <<clock, sessions, nextTick, firing, stop, handlerVars, historyVars>>

\* Time passes when nothing is ready to run and no request is at its timeout.
Advance ==
  /\ clock < Horizon
  /\ loop = "running" => clock < nextTick /\ ~stop
  /\ \A f \in firing : clock - f.since < KeepaliveTimeout
  /\ \A r \in inflight : clock - r.since < MaxLatency
  /\ clock' = clock + 1
  /\ UNCHANGED <<managerVars, handlerVars, historyVars>>

-----------------------------------------------------------------------------

Next ==
  \/ \E p \in Projects : Forward(p)
  \/ \E r \in inflight : Finish(r) \/ FinishFails(r)
  \/ Tick
  \/ \E f \in firing : Fire(f) \/ FireFails(f)
  \/ Close
  \/ LoopExits
  \/ Advance

\* A keep-alive of the body ends.
KeepaliveEnds(b) == \E f \in firing : f.body = b /\ (Fire(f) \/ FireFails(f))

\* Goroutines run: the ticker's select, and every keep-alive to its timeout.
Fairness ==
  /\ WF_vars(LoopExits)
  /\ \A b \in Bodies : WF_vars(KeepaliveEnds(b))

Spec == Init /\ [][Next]_vars /\ Fairness

-----------------------------------------------------------------------------

\* While the ticker runs, no session outlives the idle limit by more than one
\* tick: the cap and the threshold never keep an expired session in the map.
SessionsExpire ==
  loop = "running" =>
    \A p \in DOMAIN sessions : IdleFor(p) <= MaxIdleTotal + TickInterval

\* A request costs at most MaxPerIdlePeriod keep-alives, however its session
\* is counted, replaced, dropped or raced by later requests.
KeepalivesCapped == \A b \in Bodies : fires[b] <= MaxPerIdlePeriod

\* The provider goes without the body of a session for less than this: from the
\* start of its forward to the end of a keep-alive that the first tick past the
\* threshold starts and that takes up to its timeout.
LongestGap(b) == took[b] + IdleThreshold + TickInterval + KeepaliveTimeout

\* The project's prefix is refreshed (tickAt, fire): while a session is within
\* two thresholds and ticks, and no request with its body failed, the provider
\* has seen the body within LongestGap, whatever else is stashed or under way.
CacheRefreshed ==
  \A p \in DOMAIN sessions :
    LET b == sessions[p].body
    IN  /\ loop = "running"
        /\ b \notin failed
        /\ IdleFor(p) < 2 * (IdleThreshold + TickInterval)
        => clock - seen[b] < LongestGap(b)

\* After Close the ticker goroutine and every keep-alive end.
CloseEndsAll == stop ~> loop = "stopped" /\ firing = {}

=============================================================================
