------------------------------ MODULE Scanner ------------------------------
(***************************************************************************)
(* The places where kete reads JSON byte by byte instead of parsing it:    *)
(* AtMessages (internal/inject), which looks for the bracket that closes   *)
(* a request's "messages" array in order to splice memory and corrections  *)
(* in before it, and matchingBrace (internal/extract), which looks for the *)
(* brace that closes the object in a model's answer.                       *)
(*                                                                         *)
(* Both read from left to right, so the text need not be kept: a writer    *)
(* that knows JSON writes the next byte and both scanners read it.  The    *)
(* writer knows what it has opened, the scanners only count.               *)
(***************************************************************************)
EXTENDS Naturals, Sequences, FiniteSets

CONSTANT MaxDepth  \* bound: how deep the writer nests

ASSUME MaxDepthAssumption == MaxDepth \in Nat

VARIABLES
  open,     \* the containers the writer is in, the innermost last
  at,       \* where it is in the innermost one
  str,      \* whether it is in a string, or after a backslash in one
  messages, \* how far it is with the root's "messages" array
  scan,     \* findClosingBracket and arrayIsEmpty, with their locals
  brace     \* matchingBrace and its locals

writerVars == <<open, at, str, messages>>
scanVars == <<writerVars, scan, brace>>

\* The bytes that open a container, and all bytes as the scanners tell them apart.
Opening == {"lbrace", "lbracket"}

Closing == {"rbrace", "rbracket"}

Bytes == Opening \cup Closing \cup {"quote", "backslash", "space", "other"}

\* The locals of a scanner that counts.
Counter == [depth : Nat, inString : BOOLEAN, escape : BOOLEAN]

\* They begin outside of strings, at a depth.
From(d) == [depth |-> d, inString |-> FALSE, escape |-> FALSE]

ScanTypeOK ==
  /\ open \in Seq(Opening)
  /\ at \in {"first", "item", "colon", "value", "after"}
  /\ str \in {"out", "in", "escaped"}
  /\ messages \in {"absent", "named", "open", "empty", "filled"}
  /\ scan \in [phase : {"key", "bracket", "array", "found"}, count : Counter,
               last : Bytes, comma : BOOLEAN]
  /\ brace \in [found : BOOLEAN, count : Counter]

ScanInit ==
  /\ open = << >>
  /\ at = "value"
  /\ str = "out"
  /\ messages = "absent"
  /\ scan = [phase |-> "key", count |-> From(0), last |-> "space", comma |-> FALSE]
  /\ brace = [found |-> FALSE, count |-> From(0)]

-----------------------------------------------------------------------------

\* The scanners.

\* Mutant of Escapes: a backslash is a byte like any other.
EscapesNothing(k, c) == FALSE

\* Inside of a string, a backslash escapes the next byte.
Escapes(k, c) == c = "backslash" /\ k.inString /\ ~k.escape

\* The switch all scanners share: an escaped byte is skipped, a quote begins or
\* ends a string, and outside of strings the bytes of up and down are counted.
Read(k, c, up, down) ==
  LET counted == ~k.escape /\ ~k.inString
  IN  [depth    |-> IF counted /\ c \in up THEN k.depth + 1
                    ELSE IF counted /\ c \in down THEN k.depth - 1 ELSE k.depth,
       inString |-> IF c = "quote" /\ ~k.escape THEN ~k.inString ELSE k.inString,
       escape   |-> Escapes(k, c)]

\* Mutant of LastByte: spaces are not skipped.
LastByteOfAll(last, c) == c

\* The byte arrayIsEmpty would stop at, walking back from the next one.
LastByte(last, c) == IF c = "space" THEN last ELSE c

\* indexAtTopLevel, where the key does not begin.
ReadForKey(s, c) == [s EXCEPT !.count = Read(@, c, Opening, Closing)]

\* From the key on the next bracket is taken, ...
ReadForBracket(s, c) ==
  IF c = "lbracket" THEN [s EXCEPT !.phase = "array", !.count = From(1)]
  ELSE s

\* ... and from there the one that closes it.  AtMessages splices before it,
\* after a comma unless the array is empty.
ReadForEnd(s, c) ==
  LET k == Read(s.count, c, {"lbracket"}, {"rbracket"})
  IN  IF k.depth = 0
        THEN [s EXCEPT !.count = k, !.phase = "found", !.comma = s.last # "lbracket"]
        ELSE [s EXCEPT !.count = k]

\* findClosingBracket reads one more byte.
FindClosingBracket(s, c) ==
  LET read == CASE s.phase = "key"     -> ReadForKey(s, c)
                [] s.phase = "bracket" -> ReadForBracket(s, c)
                [] s.phase = "array"   -> ReadForEnd(s, c)
                [] s.phase = "found"   -> s
  IN  [read EXCEPT !.last = LastByte(@, c)]

\* Mutant of AtTopLevel: the key is taken at any depth.
AtAnyLevel(k) == ~k.escape /\ ~k.inString

\* The test indexAtTopLevel makes at a quote.
AtTopLevel(k) == ~k.escape /\ ~k.inString /\ k.depth = 1

\* findClosingBracket reads the string "messages", quotes included.
FindMessages(s) ==
  LET begun == FindClosingBracket(s, "quote")
      read == FindClosingBracket(begun, "other")
  IN  IF s.phase = "key" /\ AtTopLevel(s.count)
        THEN [s EXCEPT !.phase = "bracket", !.last = "quote"]
        ELSE FindClosingBracket(read, "quote")

\* matchingBrace, which begins at the first brace, reads one more byte.
MatchingBrace(b, c) ==
  LET k == Read(b.count, c, {"lbrace"}, {"rbrace"})
  IN  IF b.found \/ (b.count.depth = 0 /\ c # "lbrace") THEN b
      ELSE [found |-> k.depth = 0, count |-> k]

MatchMessages(b) ==
  MatchingBrace(MatchingBrace(MatchingBrace(b, "quote"), "other"), "quote")

-----------------------------------------------------------------------------

\* The writer.

\* The next byte is written and read.
Emit(c) ==
  /\ scan' = FindClosingBracket(scan, c)
  /\ brace' = MatchingBrace(brace, c)

\* The innermost container.
In(c) == open # << >> /\ open[Len(open)] = c

\* What JSON has next: the key of a member, or a value.
KeyIsNext == str = "out" /\ In("lbrace") /\ at \in {"first", "item"}

ValueIsNext == str = "out" /\ (at = "value" \/ (In("lbracket") /\ at \in {"first", "item"}))

\* The root is an object, and its "messages" is an array.
AnyValueIsNext == ValueIsNext /\ open # << >> /\ messages # "named"

BeginString ==
  /\ KeyIsNext \/ AnyValueIsNext
  /\ str' = "in"
  /\ Emit("quote")
  /\ UNCHANGED <<open, at, messages>>

\* Whatever bytes.
InString ==
  /\ str # "out"
  /\ \E c \in Bytes :
       /\ str = "in" => c # "quote"
       /\ str' = IF str = "in" /\ c = "backslash" THEN "escaped" ELSE "in"
       /\ Emit(c)
  /\ UNCHANGED <<open, at, messages>>

EndString ==
  /\ str = "in"
  /\ str' = "out"
  /\ at' = IF In("lbrace") /\ at # "value" THEN "colon" ELSE "after"
  /\ Emit("quote")
  /\ UNCHANGED <<open, messages>>

\* The string "messages": as the root's key, once, or as a key or a value
\* anywhere below.
Messages ==
  /\ \/ KeyIsNext /\ (Len(open) = 1 => messages = "absent")
     \/ AnyValueIsNext /\ Len(open) > 1
  /\ at' = IF KeyIsNext THEN "colon" ELSE "after"
  /\ messages' = IF KeyIsNext /\ Len(open) = 1 THEN "named" ELSE messages
  /\ scan' = FindMessages(scan)
  /\ brace' = MatchMessages(brace)
  /\ UNCHANGED <<open, str>>

\* A number, true, false or null.
Scalar ==
  /\ AnyValueIsNext
  /\ at' = "after"
  /\ Emit("other")
  /\ UNCHANGED <<open, str, messages>>

Begin ==
  /\ ValueIsNext
  /\ Len(open) < MaxDepth
  /\ \E c \in Opening :
       /\ open = << >> => c = "lbrace"
       /\ messages = "named" => c = "lbracket"
       /\ open' = Append(open, c)
       /\ Emit(c)
  /\ at' = "first"
  /\ messages' = IF messages = "named" THEN "open" ELSE messages
  /\ UNCHANGED str

End ==
  /\ str = "out"
  /\ open # << >>
  /\ at \in {"first", "after"}
  /\ open' = SubSeq(open, 1, Len(open) - 1)
  /\ at' = "after"
  /\ messages' = IF messages # "open" \/ Len(open) # 2 THEN messages
                 ELSE IF at = "first" THEN "empty" ELSE "filled"
  /\ Emit(IF In("lbrace") THEN "rbrace" ELSE "rbracket")
  /\ UNCHANGED str

\* A colon or a comma.
Separator ==
  /\ str = "out"
  /\ open # << >>
  /\ at \in {"colon", "after"}
  /\ at' = IF at = "colon" THEN "value" ELSE "item"
  /\ Emit("other")
  /\ UNCHANGED <<open, str, messages>>

Space ==
  /\ str = "out"
  /\ Emit("space")
  /\ UNCHANGED writerVars

WriterStep ==
  \/ BeginString
  \/ InString
  \/ EndString
  \/ Messages
  \/ Scalar
  \/ Begin
  \/ End
  \/ Separator
  \/ Space

ScanSpec == ScanInit /\ [][WriterStep]_scanVars

-----------------------------------------------------------------------------

\* The text is complete.
Written == open = << >> /\ at = "after"

\* At the very byte that closes the root's "messages" array, and at no other,
\* AtMessages has its splice point, whatever keys, brackets, quotes and
\* backslashes strings and nested values hold.
SplicePoint ==
  /\ scan.phase = "found" <=> messages \in {"empty", "filled"}
  /\ scan.phase = "bracket" <=> messages = "named"

\* What is spliced in is separated from an element before it, and from nothing
\* in an array that is empty but for spaces: the result is JSON.
CommaSeparates == scan.phase = "found" => (scan.comma <=> messages = "filled")

\* matchingBrace returns the brace that closes the answer's object: no earlier
\* one, which would cut the object off, and never none.
ObjectMatched == brace.found <=> Written

=============================================================================
