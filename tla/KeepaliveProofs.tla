--------------------------- MODULE KeepaliveProofs ---------------------------
(***************************************************************************)
(* Proofs that the keep-alive's sessions expire, that its cost is capped   *)
(* and that it refreshes the provider's cache in time, for every           *)
(* threshold, period, cap, timeout and number of requests.                 *)
(***************************************************************************)
EXTENDS Keepalive, TLAPS

\* The new session map of Stash and of Tick.
LEMMA StashTyped ==
  ASSUME TypeOK, NEW p \in Projects, NEW b \in Bodies, Stash(p, b)
  PROVE  /\ DOMAIN sessions' \subseteq Projects
         /\ sessions' \in [DOMAIN sessions' -> Session]
BY DEF TypeOK, Stash, Session

\* A tick leaves well-formed sessions.
LEMMA TickTyped ==
  ASSUME TypeOK, Tick
  PROVE  /\ DOMAIN sessions' \subseteq Projects
         /\ sessions' \in [DOMAIN sessions' -> Session]
<1> DEFINE kept == {p \in DOMAIN sessions : ~Expired(p)}
           due == {p \in DOMAIN sessions : Due(p)}
<1>1. sessions' = [p \in kept |->
                     IF p \in due THEN [sessions[p] EXCEPT !.keepalives = @ + 1]
                                  ELSE sessions[p]]
  BY DEF Tick
<1>2. \A p \in kept : /\ sessions[p] \in Session
                      /\ [sessions[p] EXCEPT !.keepalives = @ + 1] \in Session
  BY DEF TypeOK, Session
<1>3. QED BY <1>1, <1>2 DEF TypeOK

\* Type correctness (the sessions map, the ticker and the goroutines).
THEOREM TypeCorrect == Spec => []TypeOK
<1>1. ASSUME Init
      PROVE  TypeOK
  <2>1. DOMAIN sessions = {} /\ sessions \in [DOMAIN sessions -> Session]
    BY <1>1 DEF Init
  <2>2. /\ seen \in [Bodies -> Nat]
        /\ took \in [Bodies -> Int]
        /\ fires \in [Bodies -> Nat]
    BY <1>1, BoundsAssumption DEF Init
  <2>3. clock \in Nat /\ nextTick \in Nat /\ arrived \in 0..MaxForwards
    BY <1>1, TimesAssumption, BoundsAssumption DEF Init
  <2>4. QED BY <1>1, <2>1, <2>2, <2>3 DEF Init, TypeOK
<1>2. ASSUME TypeOK, [Next]_vars
      PROVE  TypeOK'
  <2>1. ASSUME NEW p \in Projects, Forward(p)
        PROVE  TypeOK'
    <3>1. arrived + 1 \in Bodies /\ arrived + 1 \in 0..MaxForwards
      BY <1>2, <2>1, BoundsAssumption DEF Forward, TypeOK, Bodies
    <3>2. inflight' \subseteq Request
      BY <1>2, <2>1, <3>1 DEF Forward, TypeOK, Request
    <3>3. seen' \in [Bodies -> Nat]
      BY <1>2, <2>1, <3>1 DEF Forward, TypeOK
    <3>4. QED BY <1>2, <2>1, <3>1, <3>2, <3>3 DEF Forward, TypeOK, managerVars
  <2>2. ASSUME NEW r \in inflight, Finish(r) \/ FinishFails(r)
        PROVE  TypeOK'
    <3> USE DEF Finish, FinishFails, Ends
    <3>1. r.proj \in Projects /\ r.body \in Bodies
      BY <1>2 DEF TypeOK, Request
    <3>2. /\ DOMAIN sessions' \subseteq Projects
          /\ sessions' \in [DOMAIN sessions' -> Session]
      BY <1>2, <2>2, <3>1, StashTyped
    <3>3. took' \in [Bodies -> Int]
      BY <1>2, <2>2 DEF TypeOK, Request
    <3>4. QED BY <1>2, <2>2, <3>1, <3>2, <3>3 DEF TypeOK
  <2>3. CASE Tick
    <3>1. firing' \subseteq Keepalives
      <4>1. \A p \in DOMAIN sessions : sessions[p].body \in Bodies
        BY <1>2 DEF TypeOK, Session
      <4>2. QED BY <1>2, <2>3, <4>1 DEF Tick, TypeOK, Keepalives
    <3>2. fires' \in [Bodies -> Nat]
      BY <1>2, <2>3 DEF Tick, TypeOK
    <3>3. nextTick' \in Nat
      BY <1>2, <2>3, TimesAssumption DEF Tick, TypeOK
    <3>4. QED
      BY <1>2, <2>3, <3>1, <3>2, <3>3, TickTyped DEF Tick, TypeOK, handlerVars
  <2>4. ASSUME NEW f \in firing, Fire(f) \/ FireFails(f)
        PROVE  TypeOK'
    <3>1. f.body \in Bodies
      BY <1>2 DEF TypeOK, Keepalives
    <3>2. QED
      BY <1>2, <2>4, <3>1 DEF Fire, FireFails, TypeOK, handlerVars, historyVars
  <2>5. CASE Close \/ LoopExits
    BY <1>2, <2>5 DEF Close, LoopExits, TypeOK, handlerVars, historyVars
  <2>6. CASE Advance
    BY <1>2, <2>6 DEF Advance, TypeOK, managerVars, handlerVars, historyVars
  <2>7. CASE UNCHANGED vars
    BY <1>2, <2>7 DEF vars, TypeOK, managerVars, handlerVars, historyVars
  <2>8. QED
    BY <1>2, <2>1, <2>2, <2>3, <2>4, <2>5, <2>6, <2>7 DEF Next
<1>3. QED BY <1>1, <1>2, PTL DEF Spec

-----------------------------------------------------------------------------

\* The ticker is never late, and at its next tick no session is older than the
\* limit by more than the tick it survived.
TickerPunctual ==
  /\ loop = "running" => clock <= nextTick
  /\ nextTick <= clock + TickInterval
  /\ \A p \in DOMAIN sessions :
       /\ sessions[p].lastForward <= clock
       /\ loop = "running" =>
            nextTick <= sessions[p].lastForward + MaxIdleTotal + TickInterval

\* That holds in every reachable state.
LEMMA PunctualInv == Spec => []TickerPunctual
<1>1. Init => TickerPunctual
  BY TimesAssumption DEF Init, TickerPunctual
<1>2. ASSUME TypeOK, TickerPunctual, [Next]_vars
      PROVE  TickerPunctual'
  <2> USE TimesAssumption
  <2>1. ASSUME NEW r \in inflight, Ends(r)
        PROVE  TickerPunctual'
    <3>1. UNCHANGED <<clock, nextTick, loop>>
      BY <2>1 DEF Ends
    <3>2. \A p \in DOMAIN sessions' :
            \/ sessions'[p].lastForward = clock
            \/ p \in DOMAIN sessions /\ sessions'[p] = sessions[p]
      BY <2>1 DEF Ends, Stash
    <3>3. clock \in Nat /\ nextTick \in Nat
      BY <1>2 DEF TypeOK
    <3>4. QED BY <1>2, <3>1, <3>2, <3>3 DEF TickerPunctual
  <2>2. CASE Tick
    <3>1. clock \in Nat /\ nextTick = clock
      <4>1. clock \in Nat /\ nextTick \in Nat
        BY <1>2 DEF TypeOK
      <4>2. loop = "running" /\ clock >= nextTick
        BY <2>2 DEF Tick
      <4>3. clock <= nextTick
        BY <1>2, <4>2 DEF TickerPunctual
      <4>4. QED BY <4>1, <4>2, <4>3
    <3>2. clock' = clock /\ nextTick' = clock + TickInterval /\ loop' = loop
      BY <2>2, <3>1 DEF Tick
    <3>3. \A p \in DOMAIN sessions' :
            /\ p \in DOMAIN sessions /\ ~Expired(p)
            /\ sessions'[p].lastForward = sessions[p].lastForward
      <4>1. \A p \in DOMAIN sessions : sessions[p] \in Session
        BY <1>2 DEF TypeOK
      <4>2. QED BY <2>2, <4>1 DEF Tick, Session
    <3>4. \A p \in DOMAIN sessions' :
            /\ sessions[p].lastForward \in Nat
            /\ sessions[p].lastForward <= clock
            /\ clock - sessions[p].lastForward <= MaxIdleTotal
      BY <1>2, <3>1, <3>3 DEF TypeOK, Session, TickerPunctual, Expired, IdleFor
    <3>5. QED BY <3>1, <3>2, <3>3, <3>4 DEF TickerPunctual
  <2>3. CASE Advance
    <3>1. clock \in Nat /\ nextTick \in Nat /\ clock' = clock + 1
      BY <1>2, <2>3 DEF Advance, TypeOK
    <3>2. UNCHANGED <<sessions, nextTick, loop>> /\ (loop = "running" => clock < nextTick)
      BY <2>3 DEF Advance, managerVars
    <3>3. \A p \in DOMAIN sessions : sessions[p].lastForward \in Nat
      BY <1>2 DEF TypeOK, Session
    <3>4. QED BY <1>2, <3>1, <3>2, <3>3 DEF TickerPunctual
  <2>4. CASE LoopExits
    BY <1>2, <2>4 DEF LoopExits, TickerPunctual
  <2>5. ASSUME UNCHANGED <<clock, sessions, nextTick, loop>>
        PROVE  TickerPunctual'
    BY <1>2, <2>5 DEF TickerPunctual
  <2>6. QED
    BY <1>2, <2>1, <2>2, <2>3, <2>4, <2>5
    DEF Next, Forward, Finish, FinishFails, Fire, FireFails, Close, vars, managerVars
<1>3. QED BY <1>1, <1>2, TypeCorrect, PTL DEF Spec

\* No session outlives the idle limit by more than one tick (tickAt drops the
\* expired ones before it looks at the threshold or the cap).
THEOREM SessionsExpireThm == Spec => []SessionsExpire
<1>1. TypeOK /\ TickerPunctual => SessionsExpire
  <2>1. SUFFICES ASSUME TypeOK, TickerPunctual, loop = "running",
                        NEW p \in DOMAIN sessions
                 PROVE  IdleFor(p) <= MaxIdleTotal + TickInterval
    BY DEF SessionsExpire
  <2>2. sessions[p].lastForward \in Nat /\ clock \in Nat /\ nextTick \in Nat
    BY <2>1 DEF TypeOK, Session
  <2>3. /\ clock <= nextTick
        /\ nextTick <= sessions[p].lastForward + MaxIdleTotal + TickInterval
    BY <2>1 DEF TickerPunctual
  <2>4. QED BY <2>2, <2>3, TimesAssumption DEF IdleFor
<1>2. QED BY <1>1, TypeCorrect, PunctualInv, PTL

-----------------------------------------------------------------------------

\* A request is in flight, or its body was stashed, or it never arrived: no
\* body is stashed twice, so a session's count is its body's count.
CountsAgree ==
  /\ \A r \in inflight : r.body <= arrived /\ fires[r.body] = 0
  /\ \A r, s \in inflight : r.body = s.body => r = s
  /\ \A p \in DOMAIN sessions :
       /\ sessions[p].body <= arrived
       /\ sessions[p].keepalives = fires[sessions[p].body]
       /\ \A r \in inflight : r.body # sessions[p].body
  /\ \A p, q \in DOMAIN sessions : sessions[p].body = sessions[q].body => p = q
  /\ \A b \in Bodies : b > arrived => fires[b] = 0

CapInv == CountsAgree /\ KeepalivesCapped

\* A forward starts a stash of its own, with no keep-alive sent for it.
LEMMA ForwardCap ==
  ASSUME TypeOK, CapInv, NEW p \in Projects, Forward(p)
  PROVE  CapInv'
<1> DEFINE req == [body |-> arrived + 1, proj |-> p, since |-> clock]
<1>1. /\ arrived \in Nat /\ arrived + 1 \in Bodies
      /\ arrived' = arrived + 1
      /\ inflight' = inflight \cup {req}
      /\ UNCHANGED <<sessions, fires>>
  BY BoundsAssumption DEF Forward, TypeOK, Bodies, managerVars
<1>2. fires[arrived + 1] = 0
  BY <1>1 DEF CapInv, CountsAgree
<1>3. \A r \in inflight : r.body \in Nat /\ r.body <= arrived /\ r.body # arrived + 1
  BY <1>1 DEF CapInv, CountsAgree, TypeOK, Request, Bodies
<1>4. \A q \in DOMAIN sessions :
        /\ sessions[q].body \in Nat
        /\ sessions[q].body <= arrived
        /\ sessions[q].body # arrived + 1
  BY <1>1 DEF CapInv, CountsAgree, TypeOK, Session, Bodies
<1>5. \A r \in inflight' : r.body <= arrived' /\ fires'[r.body] = 0
  BY <1>1, <1>2, <1>3 DEF CapInv, CountsAgree
<1>6. \A r, s \in inflight' : r.body = s.body => r = s
  BY <1>1, <1>3 DEF CapInv, CountsAgree
<1>7. \A q \in DOMAIN sessions' :
        /\ sessions'[q].body <= arrived'
        /\ sessions'[q].keepalives = fires'[sessions'[q].body]
        /\ \A r \in inflight' : r.body # sessions'[q].body
  BY <1>1, <1>4 DEF CapInv, CountsAgree
<1>8. \A b \in Bodies : b > arrived' => fires'[b] = 0
  BY <1>1 DEF CapInv, CountsAgree, Bodies
<1>9. QED
  BY <1>1, <1>5, <1>6, <1>7, <1>8 DEF CapInv, CountsAgree, KeepalivesCapped

\* The end of a request keeps the counts, whichever stash it comes back to.
LEMMA EndsCap ==
  ASSUME TypeOK, CapInv, NEW r \in inflight, Ends(r)
  PROVE  CapInv'
<1>1. /\ inflight' = inflight \ {r}
      /\ UNCHANGED <<arrived, fires>>
      /\ \A q \in DOMAIN sessions' :
           \/ q = r.proj /\ sessions'[q].body = r.body /\ sessions'[q].keepalives = 0
           \/ q \in DOMAIN sessions /\ q # r.proj /\ sessions'[q] = sessions[q]
  BY DEF Ends, Stash
<1>2. /\ r.body <= arrived /\ fires[r.body] = 0
      /\ \A s \in inflight' : s.body # r.body
      /\ \A q \in DOMAIN sessions : sessions[q].body # r.body
  BY <1>1 DEF CapInv, CountsAgree
<1>3. \A q \in DOMAIN sessions' :
        /\ sessions'[q].body <= arrived'
        /\ sessions'[q].keepalives = fires'[sessions'[q].body]
        /\ \A s \in inflight' : s.body # sessions'[q].body
  BY <1>1, <1>2 DEF CapInv, CountsAgree
<1>4. \A p, q \in DOMAIN sessions' : sessions'[p].body = sessions'[q].body => p = q
  BY <1>1, <1>2 DEF CapInv, CountsAgree
<1>5. QED BY <1>1, <1>3, <1>4 DEF CapInv, CountsAgree, KeepalivesCapped

\* A tick fires for due stashes only, and counts each of them.
LEMMA TickCap ==
  ASSUME TypeOK, CapInv, Tick
  PROVE  CapInv'
<1> DEFINE due == {p \in DOMAIN sessions : Due(p)}
           bodies == {sessions[p].body : p \in due}
<1>1. /\ UNCHANGED <<inflight, arrived>>
      /\ fires' = [b \in Bodies |-> IF b \in bodies THEN fires[b] + 1 ELSE fires[b]]
  BY DEF Tick, handlerVars
<1>2. \A p \in DOMAIN sessions' :
        /\ p \in DOMAIN sessions
        /\ sessions'[p].body = sessions[p].body
        /\ sessions'[p].keepalives = IF p \in due THEN sessions[p].keepalives + 1
                                                  ELSE sessions[p].keepalives
  <2>1. \A p \in DOMAIN sessions : sessions[p] \in Session
    BY DEF TypeOK
  <2>2. QED BY <2>1 DEF Tick, Session
<1>3. \A p \in DOMAIN sessions : sessions[p].body \in Bodies
  BY DEF TypeOK, Session
<1>4. \A p \in DOMAIN sessions : sessions[p].body \in bodies <=> p \in due
  BY DEF CapInv, CountsAgree
<1>5. \A p \in DOMAIN sessions' :
        /\ sessions'[p].body <= arrived'
        /\ sessions'[p].keepalives = fires'[sessions'[p].body]
        /\ \A r \in inflight' : r.body # sessions'[p].body
  BY <1>1, <1>2, <1>3, <1>4 DEF CapInv, CountsAgree
<1>6. \A p, q \in DOMAIN sessions' : sessions'[p].body = sessions'[q].body => p = q
  BY <1>2 DEF CapInv, CountsAgree
<1>7. \A r \in inflight' : r.body <= arrived' /\ fires'[r.body] = 0
  <2>1. \A r \in inflight : r.body \in Bodies /\ r.body \notin bodies
    BY DEF TypeOK, Request, CapInv, CountsAgree
  <2>2. QED BY <1>1, <2>1 DEF CapInv, CountsAgree
<1>8. \A b \in Bodies : b > arrived' => fires'[b] = 0
  <2>1. arrived \in Nat /\ \A p \in DOMAIN sessions : sessions[p].body <= arrived
    BY BoundsAssumption DEF TypeOK, CapInv, CountsAgree
  <2>2. \A b \in Bodies : b > arrived => b \notin bodies
    BY <1>3, <2>1 DEF Bodies
  <2>3. QED BY <1>1, <2>2 DEF CapInv, CountsAgree
<1>9. KeepalivesCapped'
  <2>1. ASSUME NEW b \in bodies
        PROVE  fires[b] \in Nat /\ fires[b] < MaxPerIdlePeriod
    BY <1>3, <2>1 DEF CapInv, CountsAgree, Due, TypeOK
  <2>2. \A b \in Bodies : fires'[b] <= MaxPerIdlePeriod
    BY <1>1, <2>1, BoundsAssumption DEF CapInv, KeepalivesCapped
  <2>3. QED BY <2>2 DEF KeepalivesCapped
<1>10. QED
  BY <1>1, <1>5, <1>6, <1>7, <1>8, <1>9 DEF CapInv, CountsAgree

\* That holds in every reachable state.
LEMMA CapInvariant == Spec => []CapInv
<1>1. ASSUME Init
      PROVE  CapInv
  <2>1. inflight = {} /\ DOMAIN sessions = {} /\ \A b \in Bodies : fires[b] = 0
    BY <1>1 DEF Init
  <2>2. QED BY <2>1, BoundsAssumption DEF CapInv, CountsAgree, KeepalivesCapped
<1>2. ASSUME TypeOK, CapInv, [Next]_vars
      PROVE  CapInv'
  <2>1. ASSUME UNCHANGED <<sessions, inflight, arrived, fires>>
        PROVE  CapInv'
    BY <1>2, <2>1 DEF CapInv, CountsAgree, KeepalivesCapped
  <2>2. QED
    BY <1>2, <2>1, ForwardCap, EndsCap, TickCap
    DEF Next, Finish, FinishFails, Fire, FireFails, Close, LoopExits, Advance, vars,
        managerVars, handlerVars, historyVars
<1>3. QED BY <1>1, <1>2, TypeCorrect, PTL DEF Spec

\* A request costs at most MaxPerIdlePeriod keep-alives: the count kept in the
\* session is the count of its body, because a body is stashed once.
THEOREM KeepalivesCappedThm == Spec => []KeepalivesCapped
BY CapInvariant, PTL DEF CapInv

-----------------------------------------------------------------------------

\* The provider has seen the body with its forward only, and the keep-alive of
\* the first tick past the threshold is under way.
FirstUnderWay(p) ==
  LET b == sessions[p].body
      last == sessions[p].lastForward
  IN  /\ seen[b] + took[b] = last
      /\ \E f \in firing :
           f.body = b /\ f.since < last + IdleThreshold + TickInterval

\* When the provider saw a session's body last: with its own forward until the
\* first keep-alive ends, which comes with the first tick past the threshold;
\* then at that tick or later; and from the second keep-alive on late enough, or
\* not long before one that is still under way.
SessionFresh(p) ==
  LET b == sessions[p].body
      n == sessions[p].keepalives
      last == sessions[p].lastForward
  IN  /\ took[b] >= 0
      /\ n = 0 => /\ \A f \in firing : f.body # b
                  /\ seen[b] + took[b] = last
                  /\ nextTick < last + IdleThreshold + TickInterval
      /\ n = 1 => /\ nextTick >= last + IdleThreshold + TickInterval
                  /\ FirstUnderWay(p) \/ seen[b] >= nextTick - TickInterval
      /\ n >= 2 => /\ clock >= last + IdleThreshold + TickInterval
                   /\ \/ FirstUnderWay(p)
                      \/ seen[b] >= last + IdleThreshold + TickInterval
                      \/ \E g \in firing : g.body = b /\ seen[b] >= g.since - TickInterval

\* No keep-alive is for a request in flight, and none outlives its timeout.
FreshInv ==
  /\ loop = "running" =>
       \A p \in DOMAIN sessions : sessions[p].body \notin failed => SessionFresh(p)
  /\ \A r \in inflight :
       /\ \A f \in firing : f.body # r.body
       /\ seen[r.body] = r.since
       /\ r.since <= clock
  /\ \A f \in firing : /\ f.body <= arrived
                       /\ f.since <= clock
                       /\ clock <= f.since + KeepaliveTimeout
  /\ \A b \in Bodies : seen[b] <= clock

\* A request may have two keep-alives, and is not sent again at once.
CapsFit == MaxPerIdlePeriod >= 2 /\ IdleThreshold > 0

\* A new request is in no session and has no keep-alive.
LEMMA ForwardFresh ==
  ASSUME TypeOK, CapInv, FreshInv, NEW p \in Projects, Forward(p)
  PROVE  FreshInv'
<1> DEFINE b == arrived + 1
           req == [body |-> b, proj |-> p, since |-> clock]
<1>1. /\ arrived \in Nat /\ clock \in Nat /\ b \in Bodies
      /\ arrived' = b /\ inflight' = inflight \cup {req}
      /\ seen' = [seen EXCEPT ![b] = clock]
      /\ UNCHANGED <<clock, sessions, nextTick, firing, loop, took, failed>>
  BY BoundsAssumption DEF Forward, TypeOK, Bodies, managerVars
<1>2. seen'[b] = clock /\ \A x \in Bodies \ {b} : seen'[x] = seen[x]
  BY <1>1 DEF TypeOK
<1>3. /\ \A r \in inflight : r.body \in Bodies \ {b}
      /\ \A q \in DOMAIN sessions : sessions[q].body \in Bodies \ {b}
      /\ \A f \in firing : f.body \in Nat /\ f.body <= arrived /\ f.body # b
  BY <1>1 DEF CapInv, CountsAgree, TypeOK, Request, Session, Keepalives, Bodies, FreshInv
<1>4. \A q \in DOMAIN sessions : SessionFresh(q) => SessionFresh(q)'
  BY <1>1, <1>2, <1>3 DEF SessionFresh, FirstUnderWay
<1>5. req.body = b /\ req.since = clock
  OBVIOUS
<1> HIDE DEF req, b
<1>6. \A r \in inflight' : /\ \A f \in firing' : f.body # r.body
                           /\ seen'[r.body] = r.since
                           /\ r.since <= clock'
  BY <1>1, <1>2, <1>3, <1>5 DEF FreshInv
<1>7. \A f \in firing' : f.body <= arrived'
  BY <1>1, <1>3 DEF b
<1>8. \A x \in Bodies : seen'[x] <= clock'
  BY <1>1, <1>2 DEF FreshInv
<1>9. QED BY <1>1, <1>4, <1>6, <1>7, <1>8 DEF FreshInv

\* A stash begins with what the forward left: seen when it began.
LEMMA EndsFresh ==
  ASSUME CapsFit, TypeOK, TickerPunctual, CapInv, FreshInv,
         NEW r \in inflight, Finish(r) \/ FinishFails(r)
  PROVE  FreshInv'
<1>1. /\ r \in Request /\ r.body \in Bodies /\ inflight' = inflight \ {r}
      /\ took' = [took EXCEPT ![r.body] = clock - r.since]
      /\ failed \subseteq failed'
      /\ UNCHANGED <<clock, nextTick, firing, loop, arrived, seen>>
      /\ \A q \in DOMAIN sessions' :
           \/ sessions'[q] = [body |-> r.body, lastForward |-> clock, keepalives |-> 0]
           \/ q \in DOMAIN sessions /\ sessions'[q] = sessions[q]
  <2>1. r \in Request /\ r.body \in Bodies
    BY DEF TypeOK, Request
  <2>2. QED BY <2>1 DEF Finish, FinishFails, Ends, Stash
<1>2. took'[r.body] = clock - r.since /\ \A x \in Bodies \ {r.body} : took'[x] = took[x]
  BY <1>1 DEF TypeOK
<1>3. \A q \in DOMAIN sessions : sessions[q].body \in Bodies \ {r.body}
  BY DEF CapInv, CountsAgree, TypeOK, Session
<1>4. ASSUME NEW q \in DOMAIN sessions', loop = "running", sessions'[q].body \notin failed'
      PROVE  SessionFresh(q)'
  <2>1. CASE q \in DOMAIN sessions /\ sessions'[q] = sessions[q]
    <3>1. SessionFresh(q)
      BY <1>1, <1>4, <2>1 DEF FreshInv
    <3>2. QED BY <1>1, <1>2, <1>3, <2>1, <3>1 DEF SessionFresh, FirstUnderWay
  <2>2. CASE sessions'[q] = [body |-> r.body, lastForward |-> clock, keepalives |-> 0]
    <3>1. /\ sessions'[q].body = r.body /\ sessions'[q].lastForward = clock
          /\ sessions'[q].keepalives = 0
      BY <2>2
    <3>2. /\ \A f \in firing : f.body # r.body
          /\ seen[r.body] = r.since /\ r.since <= clock
      BY DEF FreshInv
    <3>3. clock \in Nat /\ r.since \in Nat /\ nextTick \in Nat
      BY <1>1 DEF TypeOK, Request
    <3>4. nextTick < clock + IdleThreshold + TickInterval
      BY <3>3, TimesAssumption DEF TickerPunctual, CapsFit
    <3>5. QED BY <1>1, <1>2, <3>1, <3>2, <3>3, <3>4 DEF SessionFresh
  <2>3. QED BY <1>1, <2>1, <2>2
<1>5. QED BY <1>1, <1>4 DEF FreshInv

\* A tick starts the keep-alives that are due, and with room for two none is
\* missed.
LEMMA TickFresh ==
  ASSUME CapsFit, TypeOK, TickerPunctual, CapInv, FreshInv, Tick
  PROVE  FreshInv'
<1> USE TimesAssumption
<1> DEFINE due == {p \in DOMAIN sessions : Due(p)}
           bodies == {sessions[p].body : p \in due}
           started == {[body |-> b, since |-> clock] : b \in bodies}
<1>1. clock \in Nat /\ nextTick = clock /\ nextTick' = clock + TickInterval
  <2>1. clock \in Nat /\ nextTick \in Nat /\ clock >= nextTick /\ loop = "running"
    BY DEF Tick, TypeOK
  <2>2. clock <= nextTick
    BY <2>1 DEF TickerPunctual
  <2>3. nextTick' = nextTick + TickInterval
    BY DEF Tick
  <2>4. QED BY <2>1, <2>2, <2>3
<1>2. firing' = firing \cup started
  BY DEF Tick
<1>3. loop = "running" /\ UNCHANGED <<clock, loop, inflight, arrived, seen, took, failed>>
  BY DEF Tick, handlerVars
<1>4. \A p \in DOMAIN sessions' :
        /\ p \in DOMAIN sessions /\ ~Expired(p)
        /\ sessions'[p].body = sessions[p].body
        /\ sessions'[p].lastForward = sessions[p].lastForward
        /\ sessions'[p].keepalives = IF p \in due THEN sessions[p].keepalives + 1
                                                  ELSE sessions[p].keepalives
  <2>1. \A p \in DOMAIN sessions : sessions[p] \in Session
    BY DEF TypeOK
  <2>2. QED BY <2>1 DEF Tick, Session
<1>5. /\ \A f \in started : f.body \in bodies /\ f.since = clock
      /\ \A p \in due : \E f \in started : f.body = sessions[p].body
      /\ \A p \in DOMAIN sessions : sessions[p].body \in bodies <=> p \in due
  <2>1. \A b \in bodies : [body |-> b, since |-> clock] \in started
    OBVIOUS
  <2>2. \A p \in due : sessions[p].body \in bodies
    OBVIOUS
  <2>3. \A p \in DOMAIN sessions : sessions[p].body \in bodies <=> p \in due
    BY DEF CapInv, CountsAgree
  <2>4. \A f \in started : f.body \in bodies /\ f.since = clock
    OBVIOUS
  <2>5. QED BY <2>1, <2>2, <2>3, <2>4
<1> HIDE DEF started, bodies
<1>6. ASSUME NEW p \in DOMAIN sessions', sessions'[p].body \notin failed
      PROVE  SessionFresh(p)'
  <2> DEFINE b == sessions[p].body
             n == sessions[p].keepalives
             last == sessions[p].lastForward
  <2>1. /\ p \in DOMAIN sessions /\ SessionFresh(p) /\ b \in Bodies
        /\ n \in Nat /\ last \in Nat /\ seen[b] \in Nat /\ took[b] \in Int
        /\ last <= clock
    BY <1>3, <1>4, <1>6 DEF FreshInv, TypeOK, Session, TickerPunctual
  <2>2. Due(p) <=> clock - last >= IdleThreshold /\ n < MaxPerIdlePeriod
    BY <1>4 DEF Due, IdleFor
  <2>3. /\ sessions'[p].body = b /\ sessions'[p].lastForward = last
        /\ sessions'[p].keepalives = IF Due(p) THEN n + 1 ELSE n
    BY <1>4, <2>1
  <2>4. /\ Due(p) => \E f \in firing' : f.body = b /\ f.since = clock
        /\ ~Due(p) => \A f \in started : f.body # b
    BY <1>2, <1>5, <2>1
  <2>5. FirstUnderWay(p) => FirstUnderWay(p)'
    BY <1>2, <1>3, <2>3 DEF FirstUnderWay
  <2> HIDE DEF b, n, last, due
  <2>6. /\ took[b] >= 0
        /\ n = 0 => /\ \A f \in firing : f.body # b
                    /\ seen[b] + took[b] = last
                    /\ clock < last + IdleThreshold + TickInterval
        /\ n = 1 => /\ clock >= last + IdleThreshold + TickInterval
                    /\ FirstUnderWay(p) \/ seen[b] >= clock - TickInterval
        /\ n >= 2 => /\ clock >= last + IdleThreshold + TickInterval
                     /\ \/ FirstUnderWay(p)
                        \/ seen[b] >= last + IdleThreshold + TickInterval
                        \/ \E g \in firing : g.body = b /\ seen[b] >= g.since - TickInterval
    BY <1>1, <2>1 DEF SessionFresh, b, n, last
  <2>7. CASE n = 0 /\ ~Due(p)
    <3>1. clock - last < IdleThreshold
      BY <1>1, <2>1, <2>2, <2>7, BoundsAssumption DEF CapsFit
    <3>2. nextTick' < last + IdleThreshold + TickInterval
      BY <1>1, <2>1, <3>1
    <3>3. \A f \in firing' : f.body # b
      BY <1>2, <2>4, <2>6, <2>7
    <3>4. QED BY <1>3, <2>1, <2>3, <2>6, <2>7, <3>2, <3>3 DEF SessionFresh
  <2>8. CASE n = 0 /\ Due(p)
    <3>1. FirstUnderWay(p)'
      BY <1>3, <2>3, <2>4, <2>6, <2>8 DEF FirstUnderWay
    <3>2. nextTick' >= last + IdleThreshold + TickInterval
      BY <1>1, <2>1, <2>2, <2>8
    <3>3. QED BY <1>3, <2>3, <2>6, <2>8, <3>1, <3>2 DEF SessionFresh
  <2>9. CASE n = 1
    <3>1. Due(p)
      BY <1>1, <2>1, <2>2, <2>6, <2>9, BoundsAssumption DEF CapsFit
    <3>2. PICK g \in firing' : g.body = b /\ g.since = clock
      BY <2>4, <3>1
    <3>3. FirstUnderWay(p)' \/ seen[b] >= g.since - TickInterval
      BY <2>5, <2>6, <2>9, <3>2
    <3>4. QED BY <1>1, <1>3, <2>3, <2>6, <2>9, <3>1, <3>2, <3>3 DEF SessionFresh
  <2>10. CASE n >= 2
    <3>1. \/ FirstUnderWay(p)'
          \/ seen[b] >= last + IdleThreshold + TickInterval
          \/ \E g \in firing' : g.body = b /\ seen[b] >= g.since - TickInterval
      BY <1>2, <2>5, <2>6, <2>10
    <3>2. sessions'[p].keepalives >= 2
      BY <2>1, <2>3, <2>10
    <3>3. QED BY <1>3, <2>1, <2>3, <2>6, <3>1, <3>2 DEF SessionFresh
  <2>11. QED BY <2>1, <2>7, <2>8, <2>9, <2>10
<1>7. ASSUME NEW r \in inflight'
      PROVE  \A f \in firing' : f.body # r.body
  <2>1. r.body \notin bodies
    BY <1>3, <1>7 DEF CapInv, CountsAgree, bodies
  <2>2. QED BY <1>2, <1>3, <1>5, <1>7, <2>1 DEF FreshInv
<1>8. ASSUME NEW f \in firing'
      PROVE  /\ f.body <= arrived'
             /\ f.since <= clock'
             /\ clock' <= f.since + KeepaliveTimeout
  <2>1. CASE f \in started
    <3>1. f.body \in bodies /\ f.since = clock
      BY <1>5, <2>1
    <3>2. f.body <= arrived
      BY <3>1 DEF CapInv, CountsAgree, bodies
    <3>3. QED BY <1>1, <1>3, <3>1, <3>2
  <2>2. CASE f \in firing
    BY <1>3, <2>2 DEF FreshInv
  <2>3. QED BY <1>2, <1>8, <2>1, <2>2
<1>9. QED BY <1>1, <1>3, <1>6, <1>7, <1>8 DEF FreshInv

\* A keep-alive that succeeds is seen at the time of its tick or later.
LEMMA FireFresh ==
  ASSUME TypeOK, TickerPunctual, CapInv, FreshInv, NEW f \in firing, Fire(f)
  PROVE  FreshInv'
<1> USE TimesAssumption
<1>1. /\ firing' = firing \ {f} /\ f.body \in Bodies
      /\ seen' = [seen EXCEPT ![f.body] = clock]
      /\ UNCHANGED <<clock, sessions, nextTick, loop, inflight, arrived, took, failed>>
  BY DEF Fire, handlerVars, TypeOK, Keepalives
<1>2. seen'[f.body] = clock /\ \A x \in Bodies \ {f.body} : seen'[x] = seen[x]
  BY <1>1 DEF TypeOK
<1>3. ASSUME NEW p \in DOMAIN sessions, loop = "running", sessions[p].body \notin failed
      PROVE  SessionFresh(p)'
  <2>1. /\ SessionFresh(p) /\ sessions[p] \in Session /\ sessions[p].body \in Bodies
        /\ clock \in Nat /\ nextTick \in Nat /\ nextTick <= clock + TickInterval
    BY <1>3 DEF FreshInv, TypeOK, TickerPunctual, Session
  <2>2. CASE sessions[p].body = f.body
    <3>1. sessions[p].keepalives \in Nat /\ sessions[p].keepalives # 0
      BY <2>1, <2>2 DEF SessionFresh, Session
    <3>2. /\ sessions'[p] = sessions[p] /\ took' = took /\ nextTick' = nextTick
          /\ clock' = clock /\ seen'[sessions[p].body] = clock
      BY <1>1, <1>2, <2>2
    <3>3. CASE sessions[p].keepalives = 1
      <4>1. clock >= nextTick - TickInterval
        BY <2>1
      <4>2. QED BY <2>1, <3>2, <3>3, <4>1 DEF SessionFresh
    <3>4. CASE sessions[p].keepalives >= 2
      BY <2>1, <3>2, <3>4 DEF SessionFresh
    <3>5. QED BY <3>1, <3>3, <3>4
  <2>3. CASE sessions[p].body # f.body
    <3>1. /\ sessions'[p] = sessions[p] /\ took' = took /\ nextTick' = nextTick
          /\ clock' = clock /\ seen'[sessions[p].body] = seen[sessions[p].body]
      BY <1>1, <1>2, <2>1, <2>3
    <3>2. \A g \in firing : g.body = sessions[p].body => g \in firing'
      BY <1>1, <2>3
    <3>3. FirstUnderWay(p) => FirstUnderWay(p)'
      BY <3>1, <3>2 DEF FirstUnderWay
    <3>4. firing' \subseteq firing
      BY <1>1
    <3>5. QED BY <2>1, <3>1, <3>2, <3>3, <3>4 DEF SessionFresh
  <2>4. QED BY <2>2, <2>3
<1>4. \A r \in inflight : r.body \in Bodies \ {f.body}
  BY DEF FreshInv, TypeOK, Request
<1>5. \A x \in Bodies : seen'[x] <= clock'
  <2>1. clock \in Nat
    BY DEF TypeOK
  <2>2. QED BY <1>1, <1>2, <2>1 DEF FreshInv
<1>6. QED BY <1>1, <1>2, <1>3, <1>4, <1>5 DEF FreshInv

\* A keep-alive that fails is one of a body that failed.
LEMMA FireFailsFresh ==
  ASSUME TypeOK, FreshInv, NEW f \in firing, FireFails(f)
  PROVE  FreshInv'
<1>1. /\ firing' = firing \ {f} /\ failed' = failed \cup {f.body}
      /\ UNCHANGED <<clock, sessions, nextTick, loop, inflight, arrived, seen, took>>
  BY DEF FireFails, handlerVars
<1>2. ASSUME NEW p \in DOMAIN sessions, loop = "running", sessions[p].body \notin failed'
      PROVE  SessionFresh(p)'
  <2>1. SessionFresh(p) /\ \A g \in firing : g.body = sessions[p].body => g \in firing'
    BY <1>1, <1>2 DEF FreshInv
  <2>2. FirstUnderWay(p) => FirstUnderWay(p)'
    BY <1>1, <2>1 DEF FirstUnderWay
  <2>3. firing' \subseteq firing
    BY <1>1
  <2>4. QED BY <1>1, <2>1, <2>2, <2>3 DEF SessionFresh
<1>3. QED BY <1>1, <1>2 DEF FreshInv

\* Time stops at the timeout of a keep-alive.
LEMMA AdvanceFresh ==
  ASSUME TypeOK, FreshInv, Advance
  PROVE  FreshInv'
<1> USE TimesAssumption
<1>1. /\ clock \in Nat /\ clock' = clock + 1
      /\ \A f \in firing : f.since \in Nat /\ clock - f.since < KeepaliveTimeout
      /\ UNCHANGED <<sessions, nextTick, firing, loop, inflight, arrived, seen, took, failed>>
  BY DEF Advance, TypeOK, Keepalives, managerVars, handlerVars, historyVars
<1>2. \A r \in inflight : r.since <= clock => r.since <= clock'
  BY <1>1 DEF TypeOK, Request
<1>3. ASSUME NEW p \in DOMAIN sessions, SessionFresh(p)
      PROVE  SessionFresh(p)'
  <2>1. FirstUnderWay(p) => FirstUnderWay(p)'
    BY <1>1 DEF FirstUnderWay
  <2>2. sessions[p].lastForward \in Nat
    BY <1>3 DEF TypeOK, Session
  <2>3. QED BY <1>1, <1>3, <2>1, <2>2 DEF SessionFresh
<1>4. \A x \in Bodies : seen'[x] <= clock'
  BY <1>1 DEF FreshInv, TypeOK
<1>5. \A f \in firing' : f.since <= clock' /\ clock' <= f.since + KeepaliveTimeout
  BY <1>1 DEF FreshInv
<1>6. QED BY <1>1, <1>2, <1>3, <1>4, <1>5 DEF FreshInv

LEMMA FreshStep ==
  ASSUME CapsFit, TypeOK, TickerPunctual, CapInv, FreshInv, [Next]_vars
  PROVE  FreshInv'
<1>1. ASSUME UNCHANGED <<clock, sessions, nextTick, firing, loop, inflight, arrived, seen, took, failed>>
      PROVE  FreshInv'
  BY <1>1 DEF FreshInv, SessionFresh, FirstUnderWay
<1>2. CASE LoopExits
  BY <1>2 DEF LoopExits, FreshInv, handlerVars, historyVars
<1>3. QED
  BY <1>1, <1>2, ForwardFresh, EndsFresh, TickFresh, FireFresh, FireFailsFresh, AdvanceFresh
  DEF Next, Close, vars, managerVars, handlerVars, historyVars

\* tickAt and fire refresh the provider's cache within LongestGap, responses and
\* keep-alives of any length included, if the cap allows two keep-alives.
THEOREM CacheRefreshedThm ==
  ASSUME CapsFit
  PROVE  Spec => []CacheRefreshed
<1> USE TimesAssumption
<1>1. Init => FreshInv
  BY DEF Init, FreshInv
<1>2. TypeOK /\ TickerPunctual /\ CapInv /\ FreshInv /\ [Next]_vars => FreshInv'
  BY FreshStep
<1>3. ASSUME TypeOK, TickerPunctual, FreshInv
      PROVE  CacheRefreshed
  <2> SUFFICES ASSUME NEW p \in DOMAIN sessions, loop = "running",
                      sessions[p].body \notin failed,
                      IdleFor(p) < 2 * (IdleThreshold + TickInterval)
               PROVE  clock - seen[sessions[p].body] < LongestGap(sessions[p].body)
    BY DEF CacheRefreshed
  <2> DEFINE b == sessions[p].body
             n == sessions[p].keepalives
             last == sessions[p].lastForward
  <2>1. /\ SessionFresh(p) /\ b \in Bodies /\ n \in Nat /\ last \in Nat
        /\ clock \in Nat /\ nextTick \in Nat /\ seen[b] \in Nat /\ took[b] \in Int
        /\ clock <= nextTick
        /\ \A f \in firing : f.since \in Nat /\ clock <= f.since + KeepaliveTimeout
    BY <1>3 DEF FreshInv, TickerPunctual, TypeOK, Session, Keepalives
  <2>2. clock - last < 2 * (IdleThreshold + TickInterval) /\ IdleThreshold > 0
    BY DEF IdleFor, CapsFit
  <2>3. FirstUnderWay(p) => clock - seen[b] < LongestGap(b)
    BY <2>1 DEF FirstUnderWay, LongestGap
  <2>4. took[b] >= 0
    BY <2>1 DEF SessionFresh
  <2>5. CASE n = 0
    BY <2>1, <2>2, <2>4, <2>5 DEF SessionFresh, LongestGap
  <2>6. CASE n = 1
    BY <2>1, <2>2, <2>3, <2>4, <2>6 DEF SessionFresh, LongestGap
  <2>7. CASE n >= 2
    BY <2>1, <2>2, <2>3, <2>4, <2>7 DEF SessionFresh, LongestGap
  <2>8. QED BY <2>1, <2>5, <2>6, <2>7
<1>4. QED BY <1>1, <1>2, <1>3, TypeCorrect, PunctualInv, CapInvariant, PTL DEF Spec

=============================================================================
