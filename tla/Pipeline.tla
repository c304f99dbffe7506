------------------------------ MODULE Pipeline ------------------------------
(***************************************************************************)
(* A request's way through the proxy (handleMessages): its upstream, the   *)
(* bypass header, the project, truncation, compaction, injection, the      *)
(* forward, and what is handed to capture, scoring and keep-alive in the   *)
(* end.  Those start goroutines that call the extractor (SendWithRetry),   *)
(* and KETE_ANTHROPIC_URL may point the extractor back at this proxy.      *)
(*                                                                         *)
(* The parts a handler meets on its way are taken at what they promise: a  *)
(* compaction is armed, a summary computed once (CompactionPhases), a      *)
(* correction queued and taken (Drift), rows become memories (Memory).     *)
(* What the handler does to them before its forward is one action here,    *)
(* whose interleavings those modules have.                                 *)
(***************************************************************************)
EXTENDS Naturals, Sequences, FiniteSets

CONSTANTS
  Clients,       \* the clients' requests
  Projects,
  Adapters,      \* the upstreams an adapter is configured for
  KeepLast,      \* KETE_HARD_TRUNCATE_KEEP
  MaxAttempts,   \* maxAttempts
  Environments,  \* the environments the daemon may have been started in
  Inputs         \* bound: what clients may send

NoProject == "no project"

None == "none"

Upstreams == {"anthropic", "cc-proxy", "bedrock"}

\* Messages of clients and of truncation and compaction, ...
RewrittenKinds == {"text", "assistant", "use", "result", "marker", "summary", "prompt"}

\* ... and those the proxy splices in.
Kinds == RewrittenKinds \cup {"memory", "correction"}

\* KETE_UPSTREAM, KETE_PROJECT, whether KETE_ANTHROPIC_URL is this proxy, and
\* what KETE_INJECT_MEMORY, KETE_DRIFT_ENABLED and --extended-cache switch on.
Environment == [upstream : Upstreams \cup {None, "invalid"}, project : Projects \cup {NoProject},
                loopback : BOOLEAN, features : SUBSET {"inject", "drift", "keepalive"}]

\* A request: its headers, its size, its messages, and the last threshold of the
\* compaction hook that the usage of its answer passes.
Input == [header : Upstreams \cup {None, "invalid"}, model : {"claude", "bedrock"},
          project : Projects \cup {NoProject}, bypass : BOOLEAN,
          size : {"small", "capturable", "huge", "oversized"}, body : Seq(RewrittenKinds),
          usage : {None, "warn", "clear"}]

ASSUME AdaptersAssumption == Adapters \subseteq Upstreams
ASSUME NumbersAssumption == KeepLast \in Nat \ {0} /\ MaxAttempts \in Nat \ {0}
ASSUME EnvironmentsAssumption == Environments \subseteq Environment
ASSUME InputsAssumption == \A in \in Inputs : in \in Input

VARIABLES
  env,          \* the daemon's environment
  served,       \* a map: requests that reached the proxy, and where each is
  calls,        \* a map: calls of the extractor, and where each is
  remembered,   \* projects with a row to inject
  corrections,  \* projects with a correction queued
  warned,       \* projects whose pre-computation was triggered
  armed,        \* projects with a compaction pending
  ready,        \* projects with a summary
  handed        \* history: requests with a body handed on to a component

componentVars == <<remembered, corrections, warned, armed, ready>>
vars == <<env, served, calls, componentVars, handed>>

\* A call is known by its purpose and the request it is made for, a request of
\* the extractor by its call and the attempt.
CallsFor(R) == [purpose : {"task", "score", "correct", "summary"}, for : R]

AttemptsOf(C) == [call : C, attempt : 1..MaxAttempts]

TypeOK ==
  /\ env \in Environments
  /\ \A q \in DOMAIN served :
       /\ served[q].in \in Input
       /\ {served[q].body, served[q].sent} \subseteq Seq(Kinds)
       /\ served[q].at \in {"forward", "answered", "done"}
  /\ \A c \in DOMAIN calls :
       /\ calls[c].at \in {"send", "answered", "over"}
       /\ calls[c].attempt \in 1..MaxAttempts
  /\ remembered \cup corrections \cup warned \cup armed \cup ready \subseteq Projects
  /\ \A h \in handed : h.request \in DOMAIN served /\ h.body \in Seq(Kinds)

Init ==
  /\ env \in Environments
  /\ served = << >>
  /\ calls = << >>
  /\ remembered = {}
  /\ corrections = {}
  /\ warned = {}
  /\ armed = {}
  /\ ready = {}
  /\ handed = {}

-----------------------------------------------------------------------------

\* SelectUpstream: header, then model id, then environment.
SelectUpstream(in) ==
  CASE in.header # None       -> in.header
    [] in.model = "bedrock"   -> "bedrock"
    [] env.upstream # None    -> env.upstream
    [] OTHER                  -> "anthropic"

\* projectPath.
ProjectPath(in) == IF in.project # NoProject THEN in.project ELSE env.project

\* Mutant of TruncateLargeBody: one message fewer is kept.
TruncateOneMore(body) ==
  IF Len(body) <= KeepLast + 1 THEN body
  ELSE <<"marker">> \o SubSeq(body, Len(body) - KeepLast + 2, Len(body))

\* TruncateLargeBody.
TruncateLargeBody(body) ==
  IF Len(body) <= KeepLast + 1 THEN body
  ELSE <<"marker">> \o SubSeq(body, Len(body) - KeepLast + 1, Len(body))

\* A body of KETE_HARD_TRUNCATE_BYTES.
Truncated(in) == IF in.size = "huge" THEN TruncateLargeBody(in.body) ELSE in.body

\* A map with v at the keys given.
Put(map, keys, v) ==
  [k \in DOMAIN map \cup keys |-> IF k \in keys THEN v ELSE map[k]]

Serve(q, in, body, sent, at) ==
  served' = Put(served, {q}, [in |-> in, body |-> body, sent |-> sent, at |-> at])

\* The proxy itself answers 413, 400, for an upstream that is none, or 501.
Refused(in) == in.size = "oversized" \/ SelectUpstream(in) \notin Adapters

Refuse(q, in) ==
  /\ Refused(in)
  /\ Serve(q, in, << >>, << >>, "done")
  /\ UNCHANGED <<componentVars, handed>>

\* A request without a project is forwarded, though truncated, and leaves no
\* trace.
PassThrough(q, in) ==
  /\ ~Refused(in)
  /\ ~in.bypass
  /\ ProjectPath(in) = NoProject
  /\ Serve(q, in, Truncated(in), Truncated(in), "done")
  /\ UNCHANGED <<componentVars, handed>>

\* What the proxy may rewrite the body of a project's request to; an error of
\* Apply leaves it as it is.
Rewritten(p, in) ==
  {Truncated(in)} \cup (IF p \in armed \cap ready THEN {<<"summary", "prompt">>} ELSE {})

\* What is spliced in after it, unless the splice fails.
Injections(p) ==
  LET Splice(feature, S, kind) ==
        {<< >>} \cup (IF feature \in env.features /\ p \in S THEN {<<kind>>} ELSE {})
  IN  {m \o c : m \in Splice("inject", remembered, "memory"),
                c \in Splice("drift", corrections, "correction")}

\* A pending compaction and a queued correction are taken; memory and
\* correction are spliced into the copy that is sent.
Forward(q, in) ==
  LET p == ProjectPath(in)
  IN  /\ ~Refused(in)
      /\ p # NoProject
      /\ \E body \in Rewritten(p, in), injected \in Injections(p) :
           Serve(q, in, body, body \o injected, "forward")
      /\ armed' = armed \ {p}
      /\ warned' = warned \ (armed \cap {p})
      /\ corrections' = IF "drift" \in env.features THEN corrections \ {p} ELSE corrections
      /\ UNCHANGED <<remembered, ready, handed>>

\* Mutant of Bypass: the header is not looked at.
BypassIgnored(q, in) == in.bypass /\ Forward(q, in)

\* A request of the extractor is forwarded as it is and leaves no trace.
Bypass(q, in) ==
  /\ ~Refused(in)
  /\ in.bypass
  /\ Serve(q, in, in.body, in.body, "done")
  /\ UNCHANGED <<componentVars, handed>>

HandleMessages(q, in) ==
  /\ q \notin DOMAIN served
  /\ Refuse(q, in) \/ Bypass(q, in) \/ PassThrough(q, in) \/ (~in.bypass /\ Forward(q, in))

ClientSends(r) ==
  /\ \E in \in Inputs : HandleMessages(r, in)
  /\ UNCHANGED <<env, calls>>

-----------------------------------------------------------------------------

First == [at |-> "send", attempt |-> 1]

Answered == [at |-> "answered", attempt |-> 1]

Over == [at |-> "over", attempt |-> 1]

\* The calls of the purposes given are started for a request.
StartCalls(q, purposes) ==
  calls' = Put(calls, {[purpose |-> u, for |-> q] : u \in purposes}, First)

Move(q, at) == served' = [served EXCEPT ![q].at = at]

ProjectOf(q) == ProjectPath(served[q].in)

\* The project has a summary or a computation of one.
Summarised(p) ==
  \/ p \in ready
  \/ \E c \in DOMAIN calls : c.purpose = "summary" /\ ProjectOf(c.for) = p /\ calls[c] # Over

\* Mutant of Hand: the body as it was sent.
HandSent(q) == handed' = handed \cup {[request |-> q, body |-> served[q].sent]}

\* The body handed to capture, scoring, summary and keep-alive.
Hand(q) == handed' = handed \cup {[request |-> q, body |-> served[q].body]}

\* The response goes through the usage tap, or the forward fails.  Past warn a
\* summary is started, once, past clear a compaction is pending.
Answer(q) ==
  LET p == ProjectOf(q)
  IN  /\ served[q].at = "forward"
      /\ Move(q, "answered")
      /\ \E usage \in {None, served[q].in.usage} :
           /\ warned' = IF usage = None THEN warned ELSE warned \cup {p}
           /\ IF warned' # warned /\ ~Summarised(p)
                THEN StartCalls(q, {"summary"}) /\ Hand(q)
                ELSE UNCHANGED <<calls, handed>>
           /\ armed' = IF usage = "clear" THEN armed \cup {p} ELSE armed
      /\ UNCHANGED <<env, remembered, corrections, ready>>

\* Whether a body is captured depends on its size, which a rewriting changes.
Captured(q) ==
  LET size == IF served[q].body = served[q].in.body THEN {served[q].in.size}
              ELSE {"small", "capturable"}
  IN  {IF s = "small" THEN {} ELSE {"task"} : s \in size}

\* The end of the handler: a large enough body is captured, every Nth scored,
\* and an anthropic one stashed.
Finish(q) ==
  LET stashed == "keepalive" \in env.features /\ SelectUpstream(served[q].in) = "anthropic"
  IN  /\ served[q].at = "answered"
      /\ Move(q, "done")
      /\ \E captured \in Captured(q),
            scored \in {{}} \cup (IF "drift" \in env.features THEN {{"score"}} ELSE {}) :
           /\ StartCalls(q, captured \cup scored)
           /\ IF captured \cup scored # {} \/ stashed THEN Hand(q) ELSE UNCHANGED handed
      /\ UNCHANGED <<env, componentVars>>

-----------------------------------------------------------------------------

\* A request of the extractor.
Extraction == [header |-> None, model |-> "claude", project |-> NoProject, bypass |-> TRUE,
               size |-> "capturable", body |-> <<"text">>, usage |-> None]

\* Send: the request goes to the provider, or comes back to this proxy.  Scoring
\* needs the goal of an enriched row.
Send(c) ==
  /\ calls[c].at = "send"
  /\ c.purpose = "score" => ProjectOf(c.for) \in remembered
  /\ IF env.loopback
       THEN HandleMessages([call |-> c, attempt |-> calls[c].attempt], Extraction)
       ELSE UNCHANGED <<served, componentVars, handed>>

\* Mutant of SendAgain: one attempt more.
SendOnceMore(c) ==
  /\ calls[c].attempt <= MaxAttempts
  /\ Send(c)
  /\ calls' = [calls EXCEPT ![c].attempt = @ + 1]
  /\ UNCHANGED env

\* SendWithRetry: a 5xx, a 429, and an error of the transport or of decoding are
\* tried again.
SendAgain(c) ==
  /\ calls[c].attempt < MaxAttempts
  /\ Send(c)
  /\ calls' = [calls EXCEPT ![c].attempt = @ + 1]
  /\ UNCHANGED env

\* The provider answers 200.
SendSucceeds(c) ==
  /\ env.loopback => ~Refused(Extraction)
  /\ Send(c)
  /\ calls' = [calls EXCEPT ![c] = Answered]
  /\ UNCHANGED env

\* Any other error ends the call, the last attempt's, an answer with nothing
\* worth keeping, the caller's deadline during the back-off, and the want of a
\* goal.
SendEnds(c) ==
  /\ \/ Send(c)
     \/ /\ calls[c].at = "send"
        /\ calls[c].attempt > 1 \/ c.purpose = "score"
        /\ UNCHANGED <<served, componentVars, handed>>
  /\ calls' = [calls EXCEPT ![c] = Over]
  /\ UNCHANGED env

\* The call's goroutine uses the answer: the row is filled in, a correction is
\* asked for, or queued, or the summary stored.
Use(c) ==
  LET p == ProjectOf(c.for)
      correct == [c EXCEPT !.purpose = "correct"]
      over == [calls EXCEPT ![c] = Over]
  IN  /\ calls[c].at = "answered"
      /\ calls' = IF c.purpose = "score" THEN Put(over, {correct}, First) ELSE over
      /\ remembered' = IF c.purpose = "task" THEN remembered \cup {p} ELSE remembered
      /\ corrections' = IF c.purpose = "correct" THEN corrections \cup {p} ELSE corrections
      /\ ready' = IF c.purpose = "summary" THEN ready \cup {p} ELSE ready
      /\ UNCHANGED <<env, served, warned, armed, handed>>

-----------------------------------------------------------------------------

Next ==
  \/ \E r \in Clients : ClientSends(r)
  \/ \E q \in DOMAIN served : Answer(q) \/ Finish(q)
  \/ \E c \in DOMAIN calls : SendAgain(c) \/ SendSucceeds(c) \/ SendEnds(c) \/ Use(c)

Spec == Init /\ [][Next]_vars

-----------------------------------------------------------------------------

\* Extraction never feeds on itself, wherever it is sent: calls are made for
\* clients' requests only, and one of those brings the proxy no more requests
\* than its four calls have attempts.
ExtractionStops ==
  /\ \A c \in DOMAIN calls : c.for \in Clients
  /\ \A q \in DOMAIN served \ Clients : q \in AttemptsOf(CallsFor(Clients))
  /\ \A r \in Clients :
       Cardinality({q \in DOMAIN served \ Clients : q.call.for = r}) <= 4 * MaxAttempts

\* What is captured, scored, summarised and kept warm of a request is what the
\* provider saw of it but for kete's own memories and corrections: the rewritten
\* body, which begins the one that was sent.
HandedIsSent ==
  \A h \in handed :
    LET sent == served[h.request].sent
    IN  /\ Len(h.body) <= Len(sent) /\ SubSeq(sent, 1, Len(h.body)) = h.body
        /\ h.body \in Seq(RewrittenKinds)

\* With an even KeepLast, as is the default, truncation never parts a tool
\* result from its tool use, whatever is rewritten and injected around it: the
\* provider rejects the orphan, and with it every later request of the session.
ResultsFollowUses ==
  \A q \in DOMAIN served :
    LET sent == served[q].sent
    IN  \A i \in DOMAIN sent : sent[i] = "result" => i > 1 /\ sent[i - 1] = "use"

=============================================================================
