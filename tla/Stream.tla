------------------------------- MODULE Stream -------------------------------
(***************************************************************************)
(* A response on its way to the client: the adapter's Forward, which hands *)
(* on what it reads from the upstream, and the usage tap it writes to,     *)
(* which looks for usage numbers in what passes (internal/adapter, proxy   *)
(* usage_tap.go).  The network cuts the bytes of a stream where it likes,  *)
(* and the stream may end anywhere.                                        *)
(***************************************************************************)
EXTENDS Integers, Sequences, FiniteSets

CONSTANTS
  Inputs,    \* input tokens an upstream may count
  Outputs,   \* output tokens it may count
  MaxEvents  \* bound: events of a stream

ASSUME StreamAssumption ==
  Inputs \subseteq Nat /\ Outputs \subseteq Nat \ {0} /\ MaxEvents \in Nat

VARIABLES
  reply,   \* what the upstream replies with, and where Forward is with it
  events,  \* history: the events, or the document, the upstream has sent
  flow,    \* bytes sent and not yet read by Forward
  passed,  \* the number of bytes that reached the client
  tap      \* usageTap; history: the totals it passed to onUsage

streamVars == <<reply, events, flow, passed, tap>>

\* An event and its usage, 0 where it has none.  A ping stands for every event
\* the tap takes no usage from, whatever its name and its data.
Event == [name : {"message_start", "message_delta", "ping", "error", "document"},
          in : Inputs \cup {0}, out : Outputs \cup {0}]

Silent(name) == [name |-> name, in |-> 0, out |-> 0]

\* Bytes matter where a line or a document is complete; what stands here for
\* one of them is its last byte.
Byte(what, event) == [what |-> what, event |-> event]

NewLine == Byte("newline", Silent("ping"))

\* An event in a stream, and the document that is the whole of a response.
Frame(e) == <<Byte("event", e), NewLine, Byte("data", e), NewLine, NewLine>>

Document(e) == <<Byte("half", e), Byte("data", e)>>

Streamed == reply.kind \in {"anthropic", "bedrock"}

StreamTypeOK ==
  /\ reply \in [kind : {"none", "document", "anthropic", "bedrock"},
                at : {"pending", "open", "closed", "done"}]
  /\ events \in Seq(Event)
  /\ passed \in Nat
  /\ {tap.in, tap.out} \subseteq Nat /\ tap.seen \in BOOLEAN
  /\ tap.reports \in Seq(Nat) /\ Len(tap.reports) <= Len(events) + 1

StreamInit ==
  /\ reply = [kind |-> "none", at |-> "pending"]
  /\ events = << >>
  /\ flow = << >>
  /\ passed = 0
  /\ tap = [buf |-> << >>, in |-> 0, out |-> 0, seen |-> FALSE, reports |-> << >>]

-----------------------------------------------------------------------------

\* onUsage.
Report(t) == [t EXCEPT !.reports = Append(@, t.in + t.out)]

\* Mutant of Counts: what has no usage counts as none.
CountsAlways(e) == e.out >= 0

\* A delta is looked at if it has usage.
Counts(e) == e.out > 0

Lines(frame, what) == {frame[i] : i \in {j \in DOMAIN frame : frame[j].what = what}}

\* The usage in a frame or a document, which has one line of data.
Usage(frame) == (CHOOSE line \in Lines(frame, "data") : TRUE).event

Named(frame, name) == \E line \in Lines(frame, "event") : line.event.name = name

\* processFrameLocked.
ProcessFrame(t, frame) ==
  LET e == Usage(frame)
  IN  CASE Lines(frame, "data") = {} -> t
        [] Lines(frame, "data") # {} /\ Named(frame, "message_start") ->
             Report([t EXCEPT !.in = e.in, !.out = e.out, !.seen = TRUE])
        [] Lines(frame, "data") # {} /\ Named(frame, "message_delta") /\ Counts(e) ->
             Report([t EXCEPT !.out = e.out, !.seen = TRUE])
        [] OTHER -> t

\* consumeFramesLocked, one byte at a time: an empty line ends a frame.
ConsumeFrames(t, byte) ==
  LET buf == Append(t.buf, byte)
      n == Len(buf)
  IN  IF n > 1 /\ buf[n] = NewLine /\ buf[n - 1] = NewLine
        THEN ProcessFrame([t EXCEPT !.buf = << >>], SubSeq(buf, 1, n - 2))
        ELSE [t EXCEPT !.buf = buf]

\* What that leaves of the tap when it was given all of some bytes.
Consumed(t, bytes) ==
  LET after[i \in 0..Len(bytes)] ==
        IF i = 0 THEN t ELSE ConsumeFrames(after[i - 1], bytes[i])
  IN  after[Len(bytes)]

\* usageTap.Write, of the bytes the client took.
Write(bytes) ==
  /\ passed' = passed + Len(bytes)
  /\ tap' = IF Streamed THEN Consumed(tap, bytes)
            ELSE [tap EXCEPT !.buf = @ \o bytes]

-----------------------------------------------------------------------------

\* The upstream answers, and WriteHeader tells the tap what to expect; ...
Opens ==
  /\ reply.at = "pending"
  /\ \E kind \in {"document", "anthropic", "bedrock"} :
       reply' = [kind |-> kind, at |-> "open"]
  /\ UNCHANGED <<events, flow, passed, tap>>

\* ... or it cannot be reached.
Unreachable ==
  /\ reply.at = "pending"
  /\ reply' = [reply EXCEPT !.at = "closed"]
  /\ UNCHANGED <<events, flow, passed, tap>>

\* The upstream sends a document, or another event: message_start comes first,
\* unless its data is not to be parsed, and what the deltas have of output tokens
\* is cumulative.
Sends(e) ==
  /\ reply.at = "open"
  /\ Len(events) < MaxEvents
  /\ e.name = "document" <=> ~Streamed
  /\ e.name \in {"document", "message_start"} => events = << >>
  /\ e.name = "message_delta" => events # << >>
  /\ e.name = "message_delta" => e.in = 0
  /\ e.out > 0 => \A i \in DOMAIN events : events[i].out <= e.out
  /\ e.name # "error"
  /\ e.name = "ping" => e = Silent("ping")
  /\ events' = Append(events, e)
  /\ flow' = flow \o IF Streamed THEN Frame(e) ELSE Document(e)
  /\ UNCHANGED <<reply, passed, tap>>

\* Forward reads: of Bedrock an event, which it frames, of the others as many
\* bytes as there are.  The client takes them, or fails and takes fewer.
Passes ==
  /\ reply.at = "open"
  /\ \E n \in DOMAIN flow, taken \in 0..Len(flow) :
       /\ reply.kind = "bedrock" => n = Len(Frame(Silent("ping")))
       /\ taken <= n
       /\ Write(SubSeq(flow, 1, taken))
       /\ flow' = SubSeq(flow, n + 1, Len(flow))
       /\ reply' = IF taken < n THEN [reply EXCEPT !.at = "closed"] ELSE reply
  /\ UNCHANGED events

\* The response ends, or breaks off, or the request is cancelled.
Closes ==
  /\ reply.at = "open"
  /\ reply' = [reply EXCEPT !.at = "closed"]
  /\ flow' = << >>
  /\ UNCHANGED <<events, passed, tap>>

\* A stream of Bedrock's that breaks off is given an event that says so, if the
\* client still takes it.
Breaks ==
  LET frame == Frame(Silent("error"))
  IN  /\ reply = [kind |-> "bedrock", at |-> "open"]
      /\ flow = << >>
      /\ reply' = [reply EXCEPT !.at = "closed"]
      /\ events' = Append(events, Silent("error"))
      /\ \E taken \in 0..Len(frame) : Write(SubSeq(frame, 1, taken))
      /\ UNCHANGED flow

\* usageTap.Done: a document is parsed, if it is whole; the totals are reported
\* unless a stream had none.
Done ==
  /\ reply.at = "closed"
  /\ reply' = [reply EXCEPT !.at = "done"]
  /\ LET e == Usage(tap.buf)
         parsed == IF Streamed \/ Lines(tap.buf, "data") = {} THEN tap
                   ELSE [tap EXCEPT !.in = e.in, !.out = e.out]
     IN  tap' = IF Streamed /\ ~tap.seen THEN tap ELSE Report(parsed)
  /\ UNCHANGED <<events, flow, passed>>

ForwardStep ==
  \/ Opens
  \/ Unreachable
  \/ \E e \in Event : Sends(e)
  \/ Passes
  \/ Closes
  \/ Breaks
  \/ Done

-----------------------------------------------------------------------------

\* The events that reached the client and count.
Told ==
  {i \in 1..passed \div Len(Frame(Silent("ping"))) :
     events[i].name = "message_start" \/ events[i].out > 0}

\* The totals that compaction's thresholds are compared with never shrink while
\* a response lasts, whatever deltas come without a usage and in whatever
\* pieces.
TotalsGrow ==
  \A i, j \in DOMAIN tap.reports : i <= j => tap.reports[i] <= tap.reports[j]

\* What reached the client of the events is what the tap has reported, each
\* usage once and in order, wherever the network cut the stream and wherever it
\* broke off, and the last once more in the end; a document is reported in the
\* end if all of it passed, and as nothing if not.  The totals never shrink.
ReportsWhatPassed ==
  LET n == Cardinality(Told)
      ended == reply.at = "done"
      whole == passed = Len(Document(Silent("ping")))
  IN  /\ Streamed =>
           /\ Len(tap.reports) = IF ended /\ n > 0 THEN n + 1 ELSE n
           /\ \A i \in Told :
                tap.reports[Cardinality({j \in Told : j <= i})] = events[1].in + events[i].out
           /\ ended /\ n > 0 => tap.reports[n + 1] = tap.reports[n]
      /\ ~Streamed =>
           tap.reports = IF ~ended THEN << >>
                         ELSE IF whole THEN <<events[1].in + events[1].out>> ELSE <<0>>
      /\ TotalsGrow

=============================================================================
