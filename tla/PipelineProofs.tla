--------------------------- MODULE PipelineProofs ---------------------------
(***************************************************************************)
(* Proofs about Pipeline, for every set of clients, projects, adapters and *)
(* environments, whatever the clients send.                                *)
(***************************************************************************)
EXTENDS Pipeline, FiniteSetTheorems, TLAPS

\* Bodies the proxy rewrote, and what it made of them.
RewrittenBodies == Seq(RewrittenKinds)

Prefix(s, t) == Len(s) <= Len(t) /\ SubSeq(t, 1, Len(s)) = s

Request == [in : Input, body : RewrittenBodies, sent : Seq(Kinds),
            at : {"forward", "answered", "done"}]

Call == [at : {"send", "answered", "over"}, attempt : 1..MaxAttempts]

\* The inductive invariant.  A request that reached the proxy is a client's, or
\* an attempt of a call; only a client's that names a project and no bypass is
\* still handled, and what was sent of it begins with the body.
ServedInv ==
  \A q \in DOMAIN served :
    /\ served[q] \in Request
    /\ Prefix(served[q].body, served[q].sent)
    /\ q \in Clients \/ q \in AttemptsOf(CallsFor(Clients))
    /\ served[q].at # "done" => q \in Clients /\ ProjectOf(q) \in Projects

\* A call is made for a client's request that names a project.
CallsInv ==
  \A c \in DOMAIN calls :
    /\ c \in CallsFor(Clients)
    /\ c.for \in DOMAIN served /\ ProjectOf(c.for) \in Projects
    /\ calls[c] \in Call

ComponentsInv ==
  /\ env \in Environments
  /\ remembered \cup corrections \cup warned \cup armed \cup ready \subseteq Projects

\* What is handed on is the body of a request.
HandedInv ==
  \A h \in handed : h.request \in DOMAIN served /\ h.body = served[h.request].body

PipelineInv == ServedInv /\ CallsInv /\ ComponentsInv /\ HandedInv

-----------------------------------------------------------------------------

LEMMA PrefixOfAppended ==
  ASSUME NEW s \in RewrittenBodies, NEW t \in Seq(Kinds)
  PROVE  s \in Seq(Kinds) /\ s \o t \in Seq(Kinds) /\ Prefix(s, s \o t)
<1>1. s \in Seq(Kinds)
  BY DEF RewrittenBodies, Kinds
<1>2. s \o t \in Seq(Kinds) /\ Len(s \o t) = Len(s) + Len(t)
  BY <1>1
<1>3. SubSeq(s \o t, 1, Len(s)) = s
  BY <1>1
<1>4. QED BY <1>1, <1>2, <1>3 DEF Prefix

\* Truncation makes a body of the kinds a rewritten one has.
LEMMA TruncatedTyped ==
  ASSUME NEW in \in Input
  PROVE  Truncated(in) \in RewrittenBodies
<1>1. in.body \in RewrittenBodies
  BY DEF Input, RewrittenBodies
<1>2. TruncateLargeBody(in.body) \in RewrittenBodies
  <2> DEFINE b == in.body
             n == Len(b)
  <2>1. CASE n > KeepLast + 1
    <3>1. n \in Nat /\ n - KeepLast + 1 \in 1..n
      BY <1>1, <2>1, NumbersAssumption DEF RewrittenBodies
    <3>2. SubSeq(b, n - KeepLast + 1, n) \in RewrittenBodies
      BY <1>1, <3>1 DEF RewrittenBodies
    <3>3. <<"marker">> \in RewrittenBodies
      BY DEF RewrittenBodies, RewrittenKinds
    <3>4. <<"marker">> \o SubSeq(b, n - KeepLast + 1, n) \in RewrittenBodies
      BY <3>2, <3>3 DEF RewrittenBodies
    <3>5. QED BY <1>1, <2>1, <3>1, <3>4, NumbersAssumption DEF TruncateLargeBody
  <2>2. CASE ~(n > KeepLast + 1)
    BY <1>1, <2>2, NumbersAssumption DEF TruncateLargeBody, RewrittenBodies
  <2>3. QED BY <2>1, <2>2
<1>3. QED BY <1>1, <1>2 DEF Truncated

LEMMA RewrittenTyped ==
  ASSUME NEW in \in Input, NEW p
  PROVE  Rewritten(p, in) \subseteq RewrittenBodies
<1>1. <<"summary", "prompt">> \in RewrittenBodies
  BY DEF RewrittenBodies, RewrittenKinds
<1>2. QED BY <1>1, TruncatedTyped DEF Rewritten

LEMMA InjectionsTyped ==
  ASSUME NEW p, NEW i \in Injections(p)
  PROVE  i \in Seq(Kinds)
<1>1. << >> \in Seq(Kinds) /\ <<"memory">> \in Seq(Kinds) /\ <<"correction">> \in Seq(Kinds)
  BY DEF Kinds
<1>2. QED BY <1>1 DEF Injections

-----------------------------------------------------------------------------

\* A request that is served joins the others, which stay as they are.
LEMMA ServeStep ==
  ASSUME PipelineInv, UNCHANGED env, NEW q, q \notin DOMAIN served, NEW in \in Input,
         q \in Clients \/ q \in AttemptsOf(CallsFor(Clients)),
         NEW body \in RewrittenBodies, NEW sent \in Seq(Kinds), Prefix(body, sent),
         NEW at \in {"forward", "answered", "done"},
         at # "done" => q \in Clients /\ ProjectPath(in) \in Projects,
         Serve(q, in, body, sent, at)
  PROVE  /\ ServedInv'
         /\ DOMAIN served' = DOMAIN served \cup {q}
         /\ \A x \in DOMAIN served : served'[x] = served[x]
<1> DEFINE new == [in |-> in, body |-> body, sent |-> sent, at |-> at]
<1>1. /\ DOMAIN served' = DOMAIN served \cup {q}
      /\ served'[q] = new
      /\ \A x \in DOMAIN served : served'[x] = served[x]
  <2>1. served' = Put(served, {q}, new)
    BY DEF Serve
  <2> HIDE DEF new
  <2>2. QED BY <2>1 DEF Put
<1>2. /\ new.in = in /\ new.body = body /\ new.sent = sent /\ new.at = at
      /\ new \in Request
  BY DEF Request
<1> HIDE DEF new
<1>4. ASSUME NEW x \in DOMAIN served
      PROVE  /\ served'[x] \in Request
             /\ Prefix(served'[x].body, served'[x].sent)
             /\ x \in Clients \/ x \in AttemptsOf(CallsFor(Clients))
             /\ served'[x].at # "done" => x \in Clients /\ ProjectOf(x)' \in Projects
  BY <1>1 DEF PipelineInv, ServedInv, ProjectOf, ProjectPath
<1>5. served'[q].at # "done" => q \in Clients /\ ProjectOf(q)' \in Projects
  BY <1>1, <1>2 DEF ProjectOf, ProjectPath
<1>6. ServedInv'
  BY <1>1, <1>2, <1>4, <1>5 DEF ServedInv
<1>7. QED BY <1>1, <1>6

\* What the handler does with a request up to its forward.
LEMMA HandleStep ==
  ASSUME PipelineInv, UNCHANGED env, NEW q, NEW in \in Input,
         \/ q \in Clients
         \/ q \in AttemptsOf(CallsFor(Clients)) /\ in.bypass,
         HandleMessages(q, in)
  PROVE  /\ ServedInv'
         /\ DOMAIN served' = DOMAIN served \cup {q}
         /\ \A x \in DOMAIN served : served'[x] = served[x]
         /\ UNCHANGED <<remembered, ready, handed>>
         /\ armed' \subseteq armed /\ warned' \subseteq warned /\ corrections' \subseteq corrections
<1>1. q \notin DOMAIN served
  BY DEF HandleMessages
<1>2. << >> \in RewrittenBodies /\ in.body \in RewrittenBodies /\ Truncated(in) \in RewrittenBodies
      /\ \A p : Rewritten(p, in) \subseteq RewrittenBodies
  BY TruncatedTyped, RewrittenTyped DEF RewrittenBodies, Input
<1>3. ASSUME NEW b \in RewrittenBodies PROVE b \in Seq(Kinds) /\ Prefix(b, b)
  <2>1. << >> \in Seq(Kinds) /\ b \o << >> = b
    BY DEF RewrittenBodies
  <2>2. QED BY <2>1, PrefixOfAppended
<1>4. CASE Refuse(q, in)
  BY <1>1, <1>2, <1>3, <1>4, ServeStep DEF Refuse, componentVars
<1>5. CASE Bypass(q, in)
  BY <1>1, <1>2, <1>3, <1>5, ServeStep DEF Bypass, componentVars
<1>6. CASE PassThrough(q, in)
  BY <1>1, <1>2, <1>3, <1>6, ServeStep DEF PassThrough, componentVars
<1>7. CASE ~in.bypass /\ Forward(q, in)
  <2> DEFINE p == ProjectPath(in)
  <2>1. PICK body \in Rewritten(p, in), injected \in Injections(p) :
          Serve(q, in, body, body \o injected, "forward")
    BY <1>7 DEF Forward
  <2>2. injected \in Seq(Kinds)
    BY InjectionsTyped
  <2>3. body \in RewrittenBodies /\ body \o injected \in Seq(Kinds) /\ Prefix(body, body \o injected)
    BY <1>2, <2>2, PrefixOfAppended
  <2>4. q \in Clients
    BY <1>7
  <2>5. p \in Projects
    BY <1>7, EnvironmentsAssumption DEF Forward, ProjectPath, Input, Environment, PipelineInv, ComponentsInv
  <2>6. UNCHANGED <<remembered, ready, handed>>
        /\ armed' \subseteq armed /\ warned' \subseteq warned /\ corrections' \subseteq corrections
    BY <1>7 DEF Forward
  <2> HIDE DEF p
  <2>7. /\ ServedInv'
        /\ DOMAIN served' = DOMAIN served \cup {q}
        /\ \A x \in DOMAIN served : served'[x] = served[x]
    BY <1>1, <2>1, <2>3, <2>4, <2>5, ServeStep DEF p
  <2>8. QED BY <2>6, <2>7
<1>8. QED BY <1>4, <1>5, <1>6, <1>7 DEF HandleMessages

-----------------------------------------------------------------------------

\* Calls and bodies handed on refer to requests that stay what they are.
LEMMA ReferencesKept ==
  ASSUME PipelineInv, UNCHANGED env, DOMAIN served \subseteq DOMAIN served',
         \A q \in DOMAIN served : served'[q].in = served[q].in /\ served'[q].body = served[q].body
  PROVE  /\ \A c \in DOMAIN calls : /\ c \in CallsFor(Clients)
                                    /\ c.for \in DOMAIN served' /\ ProjectOf(c.for)' \in Projects
                                    /\ calls[c] \in Call
         /\ \A h \in handed : h.request \in DOMAIN served' /\ h.body = served'[h.request].body
BY DEF PipelineInv, CallsInv, HandedInv, ProjectOf, ProjectPath

LEMMA ClientSendsStep ==
  ASSUME PipelineInv, NEW r \in Clients, ClientSends(r)
  PROVE  PipelineInv'
<1>1. PICK in \in Inputs : HandleMessages(r, in)
  BY DEF ClientSends
<1>2. in \in Input /\ UNCHANGED <<env, calls>>
  BY InputsAssumption DEF ClientSends
<1>3. /\ ServedInv'
      /\ DOMAIN served' = DOMAIN served \cup {r}
      /\ \A x \in DOMAIN served : served'[x] = served[x]
      /\ UNCHANGED <<remembered, ready, handed>>
      /\ armed' \subseteq armed /\ warned' \subseteq warned /\ corrections' \subseteq corrections
  BY <1>1, <1>2, HandleStep
<1>4. CallsInv' /\ HandedInv'
  BY <1>2, <1>3, ReferencesKept DEF CallsInv, HandedInv
<1>5. ComponentsInv'
  BY <1>2, <1>3 DEF PipelineInv, ComponentsInv
<1>6. QED BY <1>3, <1>4, <1>5 DEF PipelineInv

\* A request of the handler moves on, and is otherwise as it was.
LEMMA MoveStep ==
  ASSUME PipelineInv, UNCHANGED env, NEW q \in DOMAIN served, served[q].at # "done",
         NEW at \in {"answered", "done"}, Move(q, at)
  PROVE  /\ ServedInv'
         /\ DOMAIN served' = DOMAIN served
         /\ \A x \in DOMAIN served : /\ served'[x].in = served[x].in
                                     /\ served'[x].body = served[x].body
                                     /\ served'[x].sent = served[x].sent
         /\ q \in Clients /\ ProjectOf(q) \in Projects
<1>1. /\ q \in Clients /\ ProjectOf(q) \in Projects
      /\ \A x \in DOMAIN served : served[x] \in Request
  BY DEF PipelineInv, ServedInv
<1>2. /\ DOMAIN served' = DOMAIN served
      /\ \A x \in DOMAIN served : x # q => served'[x] = served[x]
      /\ served'[q] = [served[q] EXCEPT !.at = at]
  BY DEF Move
<1>3. /\ served'[q] \in Request /\ served'[q].in = served[q].in
      /\ served'[q].body = served[q].body /\ served'[q].sent = served[q].sent
  BY <1>1, <1>2 DEF Request
<1>4. /\ \A x \in DOMAIN served : /\ served'[x] \in Request /\ served'[x].in = served[x].in
                                  /\ served'[x].body = served[x].body
                                  /\ served'[x].sent = served[x].sent
                                  /\ ProjectOf(x)' = ProjectOf(x)
  BY <1>1, <1>2, <1>3 DEF ProjectOf, ProjectPath
<1>5. ServedInv'
  <2> SUFFICES ASSUME NEW x \in DOMAIN served
               PROVE  /\ Prefix(served'[x].body, served'[x].sent)
                      /\ x \in Clients \/ x \in AttemptsOf(CallsFor(Clients))
                      /\ served'[x].at # "done" => x \in Clients /\ ProjectOf(x)' \in Projects
    BY <1>2, <1>4 DEF ServedInv
  <2>1. CASE x = q
    BY <2>1, <1>1, <1>4 DEF PipelineInv, ServedInv
  <2>2. CASE x # q
    BY <2>2, <1>2, <1>4 DEF PipelineInv, ServedInv
  <2>3. QED BY <2>1, <2>2
<1>6. QED BY <1>1, <1>2, <1>4, <1>5

\* The calls that are started are for a request of a client's, which is handed
\* on whole.
LEMMA CallsStarted ==
  ASSUME PipelineInv, UNCHANGED env, DOMAIN served \subseteq DOMAIN served',
         \A x \in DOMAIN served : served'[x].in = served[x].in /\ served'[x].body = served[x].body,
         NEW q \in DOMAIN served, q \in Clients, ProjectOf(q) \in Projects,
         NEW purposes \in SUBSET {"task", "score", "correct", "summary"},
         StartCalls(q, purposes) \/ UNCHANGED calls,
         Hand(q) \/ UNCHANGED handed
  PROVE  CallsInv' /\ HandedInv'
<1> DEFINE started == {[purpose |-> u, for |-> q] : u \in purposes}
<1>1. First \in Call
  BY NumbersAssumption DEF First, Call
<1>2. \A c \in started : c \in CallsFor(Clients) /\ c.for = q
  BY DEF CallsFor
<1>3. ProjectOf(q)' = ProjectOf(q)
  BY DEF ProjectOf, ProjectPath
<1>4. CallsInv'
  <2>1. CASE UNCHANGED calls
    BY <2>1, ReferencesKept DEF CallsInv
  <2>2. CASE StartCalls(q, purposes)
    <3> DEFINE map == Put(calls, started, First)
    <3>1. calls' = map
      BY <2>2 DEF StartCalls
    <3> HIDE DEF started
    <3>2. DOMAIN map = DOMAIN calls \cup started
      BY DEF Put
    <3>3. \A c \in DOMAIN map : map[c] = IF c \in started THEN First ELSE calls[c]
      BY DEF Put
    <3> HIDE DEF map
    <3>4. QED BY <1>1, <1>2, <1>3, <3>1, <3>2, <3>3, ReferencesKept DEF CallsInv
  <2>3. QED BY <2>1, <2>2
<1>5. HandedInv'
  <2>1. CASE UNCHANGED handed
    BY <2>1, ReferencesKept DEF HandedInv
  <2>2. CASE Hand(q)
    <3>1. handed' = handed \cup {[request |-> q, body |-> served[q].body]}
      BY <2>2 DEF Hand
    <3>2. QED BY <3>1, ReferencesKept DEF HandedInv
  <2>3. QED BY <2>1, <2>2
<1>6. QED BY <1>4, <1>5

LEMMA AnswerStep ==
  ASSUME PipelineInv, NEW q \in DOMAIN served, Answer(q)
  PROVE  PipelineInv'
<1>1. /\ served[q].at # "done" /\ Move(q, "answered") /\ UNCHANGED env
      /\ StartCalls(q, {"summary"}) \/ UNCHANGED calls
      /\ Hand(q) \/ UNCHANGED handed
      /\ UNCHANGED <<remembered, corrections, ready>>
      /\ warned' \subseteq warned \cup {ProjectOf(q)} /\ armed' \subseteq armed \cup {ProjectOf(q)}
  BY DEF Answer
<1>2. /\ ServedInv'
      /\ DOMAIN served' = DOMAIN served
      /\ \A x \in DOMAIN served : served'[x].in = served[x].in /\ served'[x].body = served[x].body
      /\ q \in Clients /\ ProjectOf(q) \in Projects
  BY <1>1, MoveStep
<1>3. CallsInv' /\ HandedInv'
  BY <1>1, <1>2, CallsStarted
<1>4. ComponentsInv'
  BY <1>1, <1>2 DEF PipelineInv, ComponentsInv
<1>5. QED BY <1>2, <1>3, <1>4 DEF PipelineInv

LEMMA FinishStep ==
  ASSUME PipelineInv, NEW q \in DOMAIN served, Finish(q)
  PROVE  PipelineInv'
<1>1. /\ served[q].at # "done" /\ Move(q, "done") /\ UNCHANGED <<env, componentVars>>
      /\ Hand(q) \/ UNCHANGED handed
  BY DEF Finish
<1>2. PICK purposes \in SUBSET {"task", "score", "correct", "summary"} : StartCalls(q, purposes)
  BY DEF Finish, Captured
<1>3. /\ ServedInv'
      /\ DOMAIN served' = DOMAIN served
      /\ \A x \in DOMAIN served : served'[x].in = served[x].in /\ served'[x].body = served[x].body
      /\ q \in Clients /\ ProjectOf(q) \in Projects
  BY <1>1, MoveStep
<1>4. CallsInv' /\ HandedInv'
  BY <1>1, <1>2, <1>3, CallsStarted
<1>5. ComponentsInv'
  BY <1>1 DEF PipelineInv, ComponentsInv, componentVars
<1>6. QED BY <1>3, <1>4, <1>5 DEF PipelineInv

-----------------------------------------------------------------------------

LEMMA ExtractionTyped == Extraction \in Input /\ Extraction.bypass
BY DEF Extraction, Input, Upstreams, RewrittenKinds

\* An attempt at the provider, or back at this proxy, which lets it through.
LEMMA SendStep ==
  ASSUME PipelineInv, UNCHANGED env, NEW c \in DOMAIN calls,
         Send(c) \/ UNCHANGED <<served, componentVars, handed>>,
         DOMAIN calls' = DOMAIN calls, \A x \in DOMAIN calls : calls'[x] \in Call
  PROVE  PipelineInv'
<1> DEFINE q == [call |-> c, attempt |-> calls[c].attempt]
<1>1. q \in AttemptsOf(CallsFor(Clients))
  BY DEF AttemptsOf, PipelineInv, CallsInv, Call
<1> HIDE DEF q
<1>2. /\ ServedInv'
      /\ DOMAIN served \subseteq DOMAIN served'
      /\ \A x \in DOMAIN served : served'[x].in = served[x].in /\ served'[x].body = served[x].body
      /\ UNCHANGED <<remembered, ready, handed>>
      /\ armed' \subseteq armed /\ warned' \subseteq warned /\ corrections' \subseteq corrections
  <2>1. CASE HandleMessages(q, Extraction)
    BY <1>1, <2>1, ExtractionTyped, HandleStep
  <2>2. CASE UNCHANGED <<served, componentVars, handed>>
    BY <2>2 DEF PipelineInv, ServedInv, componentVars, ProjectOf, ProjectPath
  <2>3. QED BY <2>1, <2>2 DEF Send, q
<1>3. CallsInv' /\ HandedInv'
  BY <1>2, ReferencesKept DEF CallsInv, HandedInv
<1>4. ComponentsInv'
  BY <1>2 DEF PipelineInv, ComponentsInv
<1>5. QED BY <1>2, <1>3, <1>4 DEF PipelineInv

LEMMA SendsStep ==
  ASSUME PipelineInv, NEW c \in DOMAIN calls, SendAgain(c) \/ SendSucceeds(c) \/ SendEnds(c)
  PROVE  PipelineInv'
<1>1. \A x \in DOMAIN calls : calls[x] \in Call
  BY DEF PipelineInv, CallsInv
<1>2. Answered \in Call /\ Over \in Call
  BY NumbersAssumption DEF Answered, Over, Call
<1>3. CASE SendAgain(c)
  <2>1. [calls[c] EXCEPT !.attempt = @ + 1] \in Call
    BY <1>1, <1>3, NumbersAssumption DEF SendAgain, Call
  <2>2. calls' = [calls EXCEPT ![c] = [calls[c] EXCEPT !.attempt = @ + 1]]
    BY <1>3 DEF SendAgain
  <2>3. DOMAIN calls' = DOMAIN calls /\ \A x \in DOMAIN calls : calls'[x] \in Call
    BY <1>1, <2>1, <2>2
  <2>4. QED BY <1>3, <2>3, SendStep DEF SendAgain
<1>4. CASE SendSucceeds(c)
  <2>1. DOMAIN calls' = DOMAIN calls /\ \A x \in DOMAIN calls : calls'[x] \in Call
    BY <1>1, <1>2, <1>4 DEF SendSucceeds
  <2>2. QED BY <1>4, <2>1, SendStep DEF SendSucceeds
<1>5. CASE SendEnds(c)
  <2>1. DOMAIN calls' = DOMAIN calls /\ \A x \in DOMAIN calls : calls'[x] \in Call
    BY <1>1, <1>2, <1>5 DEF SendEnds
  <2>2. QED BY <1>5, <2>1, SendStep DEF SendEnds
<1>6. QED BY <1>3, <1>4, <1>5

LEMMA UseStep ==
  ASSUME PipelineInv, NEW c \in DOMAIN calls, Use(c)
  PROVE  PipelineInv'
<1> DEFINE correct == [c EXCEPT !.purpose = "correct"]
           over == [calls EXCEPT ![c] = Over]
<1>1. /\ UNCHANGED <<env, served, warned, armed, handed>>
      /\ calls' = over \/ calls' = Put(over, {correct}, First)
      /\ remembered' \subseteq remembered \cup {ProjectOf(c.for)}
      /\ corrections' \subseteq corrections \cup {ProjectOf(c.for)}
      /\ ready' \subseteq ready \cup {ProjectOf(c.for)}
  BY DEF Use
<1>2. First \in Call /\ Over \in Call
  BY NumbersAssumption DEF First, Over, Call
<1>3. /\ c \in CallsFor(Clients) /\ c.for \in DOMAIN served /\ ProjectOf(c.for) \in Projects
      /\ \A x \in DOMAIN calls : calls[x] \in Call
  BY DEF PipelineInv, CallsInv
<1>4. correct \in CallsFor(Clients) /\ correct.for = c.for
  BY <1>3 DEF CallsFor
<1>5. DOMAIN over = DOMAIN calls /\ \A x \in DOMAIN calls : over[x] \in Call
  BY <1>2, <1>3
<1> HIDE DEF correct, over
<1>6. ServedInv' /\ HandedInv'
  BY <1>1 DEF PipelineInv, ServedInv, HandedInv, ProjectOf, ProjectPath
<1>7. /\ DOMAIN calls' \subseteq DOMAIN calls \cup {correct}
      /\ \A x \in DOMAIN calls' : calls'[x] \in Call
  <2>1. CASE calls' = over
    BY <2>1, <1>5
  <2>2. CASE calls' = Put(over, {correct}, First)
    BY <2>2, <1>2, <1>5 DEF Put
  <2>3. QED BY <1>1, <2>1, <2>2
<1>8. CallsInv'
  BY <1>1, <1>3, <1>4, <1>7 DEF PipelineInv, CallsInv, ProjectOf, ProjectPath
<1>9. ComponentsInv'
  BY <1>1, <1>3 DEF PipelineInv, ComponentsInv
<1>10. QED BY <1>6, <1>8, <1>9 DEF PipelineInv

-----------------------------------------------------------------------------

LEMMA PipelineInductive ==
  ASSUME PipelineInv, [Next]_vars
  PROVE  PipelineInv'
<1>1. CASE \E r \in Clients : ClientSends(r)
  BY <1>1, ClientSendsStep
<1>2. CASE \E q \in DOMAIN served : Answer(q) \/ Finish(q)
  BY <1>2, AnswerStep, FinishStep
<1>3. CASE \E c \in DOMAIN calls : SendAgain(c) \/ SendSucceeds(c) \/ SendEnds(c) \/ Use(c)
  BY <1>3, SendsStep, UseStep
<1>4. CASE UNCHANGED vars
  BY <1>4 DEF vars, componentVars, PipelineInv, ServedInv, CallsInv, ComponentsInv, HandedInv,
              ProjectOf, ProjectPath
<1>5. QED BY <1>1, <1>2, <1>3, <1>4 DEF Next

LEMMA PipelineInvariant == Spec => []PipelineInv
<1>1. Init => PipelineInv
  BY DEF Init, PipelineInv, ServedInv, CallsInv, ComponentsInv, HandedInv
<1>2. QED BY <1>1, PipelineInductive, PTL DEF Spec

\* What HandleMessages, the tap and the end of the handler keep of a request, and
\* the extractor's calls, are always what they are taken for.
THEOREM TypeCorrect == Spec => []TypeOK
<1>1. PipelineInv => TypeOK
  BY DEF PipelineInv, ServedInv, CallsInv, ComponentsInv, HandedInv, TypeOK, Request, Call,
         RewrittenBodies, Kinds
<1>2. QED BY <1>1, PipelineInvariant, PTL

\* Capture, scoring, summary and keep-alive get what the provider saw of a
\* request, but for what the proxy spliced in, whatever failed on its way.
THEOREM HandedSent == Spec => []HandedIsSent
<1>1. PipelineInv => HandedIsSent
  BY DEF PipelineInv, ServedInv, HandedInv, HandedIsSent, Prefix, Request, RewrittenBodies
<1>2. QED BY <1>1, PipelineInvariant, PTL

\* The attempts of the calls for a request are as many as four calls have.
LEMMA AttemptsCounted ==
  ASSUME NEW r, NEW S \in SUBSET AttemptsOf(CallsFor({r}))
  PROVE  Cardinality(S) <= 4 * MaxAttempts
<1> DEFINE P == {"task", "score", "correct", "summary"}
           M == 1..MaxAttempts
           A == AttemptsOf(CallsFor({r}))
           f == [x \in P \X M |-> [call |-> [purpose |-> x[1], for |-> r], attempt |-> x[2]]]
<1>1. IsFiniteSet(P) /\ Cardinality(P) = 4
  <2>1. IsFiniteSet({"task"}) /\ Cardinality({"task"}) = 1
    BY FS_Singleton
  <2>2. IsFiniteSet({"task", "score"}) /\ Cardinality({"task", "score"}) = 2
    <3>1. {"task", "score"} = {"task"} \cup {"score"} /\ "score" \notin {"task"}
      OBVIOUS
    <3>2. QED BY <2>1, <3>1, FS_AddElement
  <2>3. IsFiniteSet({"task", "score", "correct"}) /\ Cardinality({"task", "score", "correct"}) = 3
    <3>1. /\ {"task", "score", "correct"} = {"task", "score"} \cup {"correct"}
          /\ "correct" \notin {"task", "score"}
      OBVIOUS
    <3>2. QED BY <2>2, <3>1, FS_AddElement
  <2>4. /\ P = {"task", "score", "correct"} \cup {"summary"}
        /\ "summary" \notin {"task", "score", "correct"}
    OBVIOUS
  <2>5. QED BY <2>3, <2>4, FS_AddElement
<1>2. IsFiniteSet(M) /\ Cardinality(M) = MaxAttempts
  BY FS_Interval, NumbersAssumption
<1> HIDE DEF P, M
<1>3. IsFiniteSet(P \X M) /\ Cardinality(P \X M) = 4 * MaxAttempts
  BY <1>1, <1>2, FS_Product
<1>4. f \in Surjection(P \X M, A)
  <2>1. \A x \in P \X M : f[x] \in A
    BY DEF AttemptsOf, CallsFor, P, M
  <2>2. ASSUME NEW a \in A
        PROVE  \E x \in P \X M : f[x] = a
    <3>1. /\ a.call.purpose \in P /\ a.attempt \in M
          /\ a = [call |-> [purpose |-> a.call.purpose, for |-> r], attempt |-> a.attempt]
      BY DEF AttemptsOf, CallsFor, P, M
    <3>2. <<a.call.purpose, a.attempt>> \in P \X M
      BY <3>1
    <3>3. f[<<a.call.purpose, a.attempt>>] = a
      BY <3>1, <3>2
    <3>4. QED BY <3>2, <3>3
  <2>3. QED BY <2>1, <2>2 DEF Surjection
<1>5. IsFiniteSet(A) /\ Cardinality(A) <= 4 * MaxAttempts
  BY <1>3, <1>4, FS_Surjection
<1>6. QED
  <2>1. IsFiniteSet(S) /\ Cardinality(S) <= Cardinality(A)
    BY <1>5, FS_Subset
  <2>2. Cardinality(S) \in Nat /\ Cardinality(A) \in Nat
    BY <2>1, <1>5, FS_CardinalityType
  <2>3. QED BY <2>1, <2>2, <1>5, NumbersAssumption

\* Wherever KETE_ANTHROPIC_URL points and whatever is answered, a client's request
\* brings the proxy no more requests than its calls have attempts.
THEOREM ExtractionEnds == Spec => []ExtractionStops
<1>1. ASSUME PipelineInv PROVE ExtractionStops
  <2>1. /\ \A q \in DOMAIN served \ Clients : q \in AttemptsOf(CallsFor(Clients))
        /\ \A c \in DOMAIN calls : c \in CallsFor(Clients)
    BY <1>1 DEF PipelineInv, ServedInv, CallsInv
  <2>2. ASSUME NEW r \in Clients
        PROVE  Cardinality({q \in DOMAIN served \ Clients : q.call.for = r}) <= 4 * MaxAttempts
    <3> DEFINE S == {q \in DOMAIN served \ Clients : q.call.for = r}
    <3>1. S \subseteq AttemptsOf(CallsFor({r}))
      BY <2>1 DEF AttemptsOf, CallsFor
    <3>2. QED BY <3>1, AttemptsCounted
  <2>3. \A c \in DOMAIN calls : c.for \in Clients
    BY <2>1 DEF CallsFor
  <2>4. QED BY <2>1, <2>2, <2>3 DEF ExtractionStops
<1>2. QED BY <1>1, PipelineInvariant, PTL

-----------------------------------------------------------------------------

\* No result without its use before it.
Follows(b) == \A i \in DOMAIN b : b[i] = "result" => i > 1 /\ b[i - 1] = "use"

\* User and assistant take turns, the user first and last: results are at odd
\* places, each after its use.
Alternates(b) ==
  /\ Follows(b)
  /\ Len(b) % 2 = 1
  /\ \A i \in DOMAIN b : b[i] = "result" => i % 2 = 1

LEMMA Prepended ==
  ASSUME NEW S, NEW a \in S, NEW u \in Seq(S)
  PROVE  /\ <<a>> \o u \in Seq(S) /\ Len(<<a>> \o u) = Len(u) + 1
         /\ (<<a>> \o u)[1] = a
         /\ \A i \in 2..(Len(u) + 1) : (<<a>> \o u)[i] = u[i - 1]
OBVIOUS

\* An even number of messages begins with the assistant's.
LEMMA TruncatedFollows ==
  ASSUME KeepLast % 2 = 0, NEW in \in Input, Alternates(in.body)
  PROVE  Follows(Truncated(in))
<1> DEFINE b == in.body
           n == Len(b)
           from == n - KeepLast + 1
           t == TruncateLargeBody(b)
<1>1. b \in Seq(RewrittenKinds) /\ Follows(b)
  BY DEF Input, Alternates
<1>2. CASE n > KeepLast + 1
  <2>1. from \in 2..n /\ from % 2 = 0 /\ n \in Nat /\ KeepLast \in Nat
    <3>1. n \in Nat /\ n % 2 = 1 /\ KeepLast \in Nat \ {0}
      <4>1. n \in Nat
        BY <1>1
      <4>2. n % 2 = 1
        BY DEF Alternates
      <4>3. QED BY <4>1, <4>2, NumbersAssumption
    <3> HIDE DEF n
    <3>2. QED BY <1>2, <3>1
  <2>2. t = <<"marker">> \o SubSeq(b, from, n)
    BY <1>1, <1>2, <2>1 DEF TruncateLargeBody
  <2>3. SubSeq(b, from, n) \in Seq(RewrittenKinds) /\ Len(SubSeq(b, from, n)) = KeepLast
    BY <1>1, <2>1
  <2>4. "marker" \in RewrittenKinds
    BY DEF RewrittenKinds
  <2>5. /\ t \in Seq(RewrittenKinds) /\ Len(t) = KeepLast + 1 /\ t[1] = "marker"
        /\ \A i \in 2..(KeepLast + 1) : t[i] = SubSeq(b, from, n)[i - 1]
    <3> DEFINE u == SubSeq(b, from, n)
    <3>1. u \in Seq(RewrittenKinds) /\ Len(u) = KeepLast /\ t = <<"marker">> \o u
      BY <2>2, <2>3
    <3> HIDE DEF u, t
    <3>2. /\ <<"marker">> \o u \in Seq(RewrittenKinds) /\ Len(<<"marker">> \o u) = Len(u) + 1
          /\ (<<"marker">> \o u)[1] = "marker"
          /\ \A i \in 2..(Len(u) + 1) : (<<"marker">> \o u)[i] = u[i - 1]
      BY <3>1, <2>4, Prepended
    <3>3. /\ t \in Seq(RewrittenKinds) /\ Len(t) = KeepLast + 1 /\ t[1] = "marker"
          /\ \A i \in 2..(KeepLast + 1) : t[i] = u[i - 1]
      BY <3>1, <3>2
    <3>4. QED BY <3>3 DEF u
  <2>6. ASSUME NEW i \in 2..(KeepLast + 1)
        PROVE  /\ t[i] = b[from + i - 2] /\ from + i - 2 \in 1..n
    <3>1. i - 1 \in 1..KeepLast /\ i > 1
      BY <2>1
    <3>2. t[i] = SubSeq(b, from, n)[i - 1]
      BY <2>5
    <3>3. SubSeq(b, from, n)[i - 1] = b[from + (i - 1) - 1]
      BY <1>1, <2>1, <2>3, <3>1
    <3>4. QED BY <2>1, <3>1, <3>2, <3>3
  <2> HIDE DEF t, from
  <2>7. ASSUME NEW i \in 1..(KeepLast + 1), t[i] = "result"
        PROVE  i > 1 /\ t[i - 1] = "use"
    <3>1. i \in 2..(KeepLast + 1)
      BY <2>1, <2>5, <2>7
    <3>2. t[i] = b[from + i - 2] /\ from + i - 2 \in 1..n
      BY <2>6, <3>1
    <3>3. (from + i - 2) % 2 = 1 /\ b[from + i - 3] = "use"
      <4>1. (from + i - 2) % 2 = 1 /\ b[(from + i - 2) - 1] = "use"
        BY <1>1, <2>7, <3>2 DEF Alternates, Follows
      <4>2. (from + i - 2) - 1 = from + i - 3
        BY <2>1, <3>1
      <4>3. QED BY <4>1, <4>2
    <3>4. i # 2
      BY <2>1, <3>1, <3>3
    <3>5. i - 1 \in 2..(KeepLast + 1) /\ from + (i - 1) - 2 = from + i - 3
      BY <2>1, <3>1, <3>4
    <3>6. t[i - 1] = b[from + i - 3]
      BY <2>6, <3>5
    <3>7. QED BY <3>1, <3>3, <3>6
  <2>8. DOMAIN t = 1..(KeepLast + 1)
    BY <2>1, <2>5
  <2>9. QED BY <1>1, <2>7, <2>8 DEF Truncated, Follows, t
<1>3. CASE ~(n > KeepLast + 1)
  <2>1. t = b
    BY <1>1, <1>3, NumbersAssumption DEF TruncateLargeBody
  <2>2. QED BY <1>1, <2>1 DEF Truncated
<1>4. QED BY <1>2, <1>3

\* What is spliced in holds no results.
LEMMA AppendedFollows ==
  ASSUME NEW b \in RewrittenBodies, Follows(b), NEW p, NEW i \in Injections(p)
  PROVE  Follows(b \o i)
<1>1. i \in Seq(Kinds) /\ \A k \in DOMAIN i : i[k] # "result"
  <2> DEFINE S == {"memory", "correction"}
  <2>1. PICK m \in {<< >>, <<"memory">>}, c \in {<< >>, <<"correction">>} : i = m \o c
    <3> DEFINE M == {<< >>} \cup (IF "inject" \in env.features /\ p \in remembered
                                    THEN {<<"memory">>} ELSE {})
               C == {<< >>} \cup (IF "drift" \in env.features /\ p \in corrections
                                    THEN {<<"correction">>} ELSE {})
    <3>1. Injections(p) = {m \o c : m \in M, c \in C}
      BY DEF Injections
    <3>2. M \subseteq {<< >>, <<"memory">>} /\ C \subseteq {<< >>, <<"correction">>}
      OBVIOUS
    <3> HIDE DEF M, C
    <3>3. PICK m \in M, c \in C : i = m \o c
      BY <3>1
    <3>4. m \in {<< >>, <<"memory">>} /\ c \in {<< >>, <<"correction">>}
      BY <3>2
    <3>5. QED BY <3>3, <3>4
  <2>2. i \in Seq(S)
    <3>1. << >> \in Seq(S) /\ <<"memory">> \in Seq(S) /\ <<"correction">> \in Seq(S)
      OBVIOUS
    <3>2. m \in Seq(S) /\ c \in Seq(S)
      BY <2>1, <3>1
    <3> HIDE DEF S
    <3>3. QED BY <2>1, <3>2
  <2>3. QED BY <2>2, InjectionsTyped
<1>2. b \in Seq(Kinds)
  BY DEF RewrittenBodies, Kinds
<1>3. ASSUME NEW k \in DOMAIN (b \o i), (b \o i)[k] = "result"
      PROVE  k > 1 /\ (b \o i)[k - 1] = "use"
  <2>1. k \in 1..(Len(b) + Len(i)) /\ Len(b) \in Nat /\ Len(i) \in Nat
    BY <1>1, <1>2
  <2>2. CASE k <= Len(b)
    <3>1. (b \o i)[k] = b[k] /\ k \in DOMAIN b
      BY <1>1, <1>2, <2>1, <2>2
    <3>2. k > 1 /\ b[k - 1] = "use"
      BY <1>3, <3>1 DEF Follows
    <3>3. (b \o i)[k - 1] = b[k - 1]
      BY <1>1, <1>2, <2>1, <2>2, <3>2
    <3>4. QED BY <3>2, <3>3
  <2>3. CASE k > Len(b)
    <3>1. (b \o i)[k] = i[k - Len(b)] /\ k - Len(b) \in DOMAIN i
      BY <1>1, <1>2, <2>1, <2>3
    <3>2. QED BY <1>1, <1>3, <3>1
  <2>4. QED BY <2>1, <2>2, <2>3
<1>4. QED BY <1>3 DEF Follows

\* Whatever becomes of a request, what is sent of it keeps results with uses.
LEMMA HandleFollows ==
  ASSUME KeepLast % 2 = 0, PipelineInv, ResultsFollowUses, UNCHANGED env, NEW q,
         NEW in \in Input, Alternates(in.body),
         \/ q \in Clients
         \/ q \in AttemptsOf(CallsFor(Clients)) /\ in.bypass,
         HandleMessages(q, in)
  PROVE  ResultsFollowUses'
<1>1. /\ DOMAIN served' = DOMAIN served \cup {q}
      /\ \A x \in DOMAIN served : served'[x] = served[x]
      /\ q \notin DOMAIN served
  BY HandleStep DEF HandleMessages
<1>2. ASSUME NEW body, NEW sent, NEW at, Serve(q, in, body, sent, at)
      PROVE  served'[q].sent = sent
  <2> DEFINE new == [in |-> in, body |-> body, sent |-> sent, at |-> at]
  <2>1. served' = Put(served, {q}, new) /\ new.sent = sent
    BY <1>2 DEF Serve
  <2> HIDE DEF new
  <2>2. QED BY <2>1 DEF Put
<1>3. Follows(<< >>) /\ Follows(in.body) /\ Follows(Truncated(in))
  <2>1. Follows(<< >>)
    BY DEF Follows
  <2>2. Follows(in.body)
    BY DEF Alternates
  <2>3. QED BY <2>1, <2>2, TruncatedFollows
<1>4. Follows(served'[q].sent)
  <2>1. CASE Refuse(q, in)
    BY <1>2, <1>3, <2>1 DEF Refuse
  <2>2. CASE Bypass(q, in)
    BY <1>2, <1>3, <2>2 DEF Bypass
  <2>3. CASE PassThrough(q, in)
    BY <1>2, <1>3, <2>3 DEF PassThrough
  <2>4. CASE Forward(q, in)
    <3> DEFINE p == ProjectPath(in)
    <3>1. PICK body \in Rewritten(p, in), injected \in Injections(p) :
            Serve(q, in, body, body \o injected, "forward")
      BY <2>4 DEF Forward
    <3>2. body \in RewrittenBodies
      BY RewrittenTyped
    <3>3. Follows(body)
      <4>1. Follows(<<"summary", "prompt">>)
        BY DEF Follows
      <4>2. QED BY <1>3, <4>1 DEF Rewritten
    <3> HIDE DEF p
    <3>4. Follows(body \o injected)
      BY <3>2, <3>3, AppendedFollows
    <3>5. QED BY <1>2, <3>1, <3>4
  <2>5. QED BY <2>1, <2>2, <2>3, <2>4 DEF HandleMessages
<1>5. QED BY <1>1, <1>4 DEF ResultsFollowUses, Follows

LEMMA FollowStep ==
  ASSUME KeepLast % 2 = 0, \A in \in Inputs : Alternates(in.body),
         PipelineInv, ResultsFollowUses, [Next]_vars
  PROVE  ResultsFollowUses'
<1>1. ASSUME NEW r \in Clients, ClientSends(r)
      PROVE  ResultsFollowUses'
  <2>1. PICK in \in Inputs : HandleMessages(r, in)
    BY <1>1 DEF ClientSends
  <2>2. in \in Input /\ Alternates(in.body) /\ UNCHANGED env
    BY <1>1, InputsAssumption DEF ClientSends
  <2>3. QED BY <2>1, <2>2, HandleFollows
<1>2. ASSUME NEW q \in DOMAIN served, Answer(q) \/ Finish(q)
      PROVE  ResultsFollowUses'
  <2>1. /\ served[q].at # "done" /\ UNCHANGED env
        /\ \E at \in {"answered", "done"} : Move(q, at)
    BY <1>2 DEF Answer, Finish
  <2>2. DOMAIN served' = DOMAIN served /\ \A x \in DOMAIN served : served'[x].sent = served[x].sent
    BY <2>1, MoveStep
  <2>3. QED BY <2>2 DEF ResultsFollowUses
<1>3. ASSUME UNCHANGED served
      PROVE  ResultsFollowUses'
  BY <1>3 DEF ResultsFollowUses
<1>4. ASSUME NEW c \in DOMAIN calls, Send(c), UNCHANGED env
      PROVE  ResultsFollowUses'
  <2> DEFINE q == [call |-> c, attempt |-> calls[c].attempt]
  <2>1. q \in AttemptsOf(CallsFor(Clients))
    BY DEF AttemptsOf, PipelineInv, CallsInv, Call
  <2>2. Alternates(Extraction.body)
    <3>1. Extraction.body = <<"text">>
      BY DEF Extraction
    <3>2. Len(<<"text">>) = 1 /\ <<"text">>[1] = "text" /\ DOMAIN <<"text">> = {1}
      OBVIOUS
    <3>3. QED BY <3>1, <3>2 DEF Alternates, Follows
  <2> HIDE DEF q
  <2>3. CASE HandleMessages(q, Extraction)
    BY <1>4, <2>1, <2>2, <2>3, ExtractionTyped, HandleFollows
  <2>4. QED BY <1>3, <1>4, <2>3 DEF Send, q
<1>5. QED
  BY <1>1, <1>2, <1>3, <1>4
  DEF Next, SendAgain, SendSucceeds, SendEnds, Use, vars

\* With an even KETE_HARD_TRUNCATE_KEEP, TruncateLargeBody parts no result from
\* its use, in conversations of any length whose two sides take turns.
THEOREM ResultsFollow ==
  ASSUME KeepLast % 2 = 0, \A in \in Inputs : Alternates(in.body)
  PROVE  Spec => []ResultsFollowUses
<1>1. Init => ResultsFollowUses
  BY DEF Init, ResultsFollowUses
<1>2. PipelineInv /\ ResultsFollowUses /\ [Next]_vars => ResultsFollowUses'
  BY FollowStep
<1>3. QED BY <1>1, <1>2, PipelineInvariant, PTL DEF Spec

=============================================================================
