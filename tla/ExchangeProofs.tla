--------------------------- MODULE ExchangeProofs ---------------------------
(***************************************************************************)
(* Proofs about Exchange.  However long the request is and however deep it *)
(* nests, the scanners, which only count, find the bytes that close what   *)
(* they look for; however long the response is and wherever the network    *)
(* cuts it and ends it, the usage tap reports what passed.                 *)
(***************************************************************************)
EXTENDS Exchange, OrderLemmas, FiniteSetTheorems, SequenceTheorems

(***************************************************************************)
(* The request: Scanner.                                                   *)
(***************************************************************************)

\* The open containers of one kind.
Places(s, c) == {i \in 1..Len(s) : s[i] = c}

Count(s, c) == Cardinality(Places(s, c))

\* A counting scanner's locals, when it counts d where the writer is.
Locals(d) == [depth |-> d, inString |-> str # "out", escape |-> str = "escaped"]

\* The inductive invariant.  What the writer has opened, ...
Opened ==
  /\ open \in Seq(Opening)
  /\ open # << >> => open[1] = "lbrace"
  /\ open = << >> => str = "out" /\ at \in {"value", "after"} /\ messages # "named"
  /\ messages = "named" => str = "out" /\ open = <<"lbrace">> /\ at \in {"colon", "value"}
  /\ messages = "open" => Len(open) > 1 /\ open[2] = "lbracket"

\* ... where that leaves findClosingBracket, which counts both kinds of
\* containers up to the key and arrays from there, ...
Finding ==
  /\ scan.phase = CASE messages = "absent"             -> "key"
                    [] messages = "named"              -> "bracket"
                    [] messages = "open"               -> "array"
                    [] messages \in {"empty", "filled"} -> "found"
  /\ messages = "absent" => scan.count = Locals(Len(open))
  /\ messages = "open" => scan.count = Locals(Count(open, "lbracket"))
  /\ messages = "open" /\ str = "out" => (scan.last = "lbracket" <=> In("lbracket") /\ at = "first")
  /\ scan.comma <=> messages = "filled"

\* ... and matchingBrace, which counts objects.
Matching ==
  /\ brace.found <=> Written
  /\ ~brace.found => brace.count = Locals(Count(open, "lbrace"))

Lockstep == ScanTypeOK /\ Opened /\ Finding /\ Matching

-----------------------------------------------------------------------------

LEMMA PlacesFinite ==
  ASSUME NEW s \in Seq(Opening), NEW c
  PROVE  IsFiniteSet(Places(s, c)) /\ Count(s, c) \in Nat
<1>1. IsFiniteSet(1..Len(s))
  <2>1. 1 \in Int /\ Len(s) \in Int
    OBVIOUS
  <2>2. QED BY <2>1, FS_Interval
<1>2. Places(s, c) \in SUBSET (1..Len(s))
  BY DEF Places
<1>3. IsFiniteSet(Places(s, c))
  BY <1>1, <1>2, FS_Subset
<1>4. QED BY <1>3, FS_CardinalityType DEF Count

\* One more container is open, ...
LEMMA CountPush ==
  ASSUME NEW s \in Seq(Opening), NEW b \in Opening, NEW c
  PROVE  Count(Append(s, b), c) = IF b = c THEN Count(s, c) + 1 ELSE Count(s, c)
<1> DEFINE n == Len(s)
           t == Append(s, b)
<1>1. n \in Nat /\ Len(t) = n + 1 /\ t[n + 1] = b /\ \A i \in 1..n : t[i] = s[i]
  OBVIOUS
<1>2. 1..(n + 1) = (1..n) \cup {n + 1} /\ n + 1 \notin 1..n
  BY <1>1
<1> HIDE DEF n, t
<1>3. \A i \in 1..(n + 1) : i \in 1..n \/ i = n + 1
  BY <1>2
<1>4. CASE b = c
  <2>1. Places(t, c) = Places(s, c) \cup {n + 1} /\ n + 1 \notin Places(s, c)
    BY <1>1, <1>2, <1>3, <1>4 DEF Places, n
  <2>2. QED BY <1>4, <2>1, PlacesFinite, FS_AddElement DEF Count, t
<1>5. CASE b # c
  <2>1. Places(t, c) = Places(s, c)
    BY <1>1, <1>2, <1>3, <1>5 DEF Places, n
  <2>2. QED BY <1>5, <2>1 DEF Count, t
<1>6. QED BY <1>4, <1>5

\* ... or one less.
LEMMA CountPop ==
  ASSUME NEW s \in Seq(Opening), s # << >>, NEW c
  PROVE  LET f == SubSeq(s, 1, Len(s) - 1)
         IN  /\ f \in Seq(Opening) /\ Len(f) = Len(s) - 1
             /\ \A i \in 1..Len(f) : f[i] = s[i]
             /\ Count(f, c) \in Nat
             /\ Count(s, c) = IF s[Len(s)] = c THEN Count(f, c) + 1 ELSE Count(f, c)
<1> DEFINE f == SubSeq(s, 1, Len(s) - 1)
           n == Len(s)
<1>1. n \in Nat \ {0} /\ s[n] \in Opening
  OBVIOUS
<1>2. f \in Seq(Opening) /\ Len(f) = n - 1 /\ \A i \in 1..(n - 1) : f[i] = s[i]
  <2>1. 1..(n - 1) \subseteq 1..Len(s) /\ n - 1 \in Nat
    BY <1>1
  <2>2. f \in Seq(Opening)
    BY <2>1
  <2>3. Len(f) = n - 1 /\ \A i \in 1..(n - 1) : f[i] = s[i]
    <3>1. 1 \in Int /\ n - 1 \in Int /\ \A i \in 1..(n - 1) : s[i] \in Opening
      BY <2>1
    <3> HIDE DEF n
    <3>2. /\ Len(SubSeq(s, 1, n - 1)) = IF 1 <= n - 1 THEN n - 1 - 1 + 1 ELSE 0
          /\ \A i \in 1..(n - 1 - 1 + 1) : SubSeq(s, 1, n - 1)[i] = s[1 + i - 1]
      BY <3>1, SubSeqProperties
    <3>3. n - 1 - 1 + 1 = n - 1 /\ \A i \in 1..(n - 1) : 1 + i - 1 = i
      BY <3>1
    <3>4. QED BY <1>1, <3>2, <3>3 DEF n
  <2>4. QED BY <2>2, <2>3
<1>3. Append(f, s[n]) = s
  <2>1. Append(f, s[n]) \in Seq(Opening) /\ Len(Append(f, s[n])) = n
    BY <1>1, <1>2
  <2>2. \A i \in 1..n : Append(f, s[n])[i] = s[i]
    BY <1>1, <1>2
  <2>3. QED BY <2>1, <2>2
<1>4. Count(f, c) \in Nat
  BY <1>2, PlacesFinite
<1>5. Count(s, c) = IF s[n] = c THEN Count(f, c) + 1 ELSE Count(f, c)
  <2> HIDE DEF f, n
  <2>1. Count(Append(f, s[n]), c) = IF s[n] = c THEN Count(f, c) + 1 ELSE Count(f, c)
    BY <1>1, <1>2, CountPush
  <2>2. QED BY <1>3, <2>1
<1>6. QED BY <1>2, <1>4, <1>5

\* A container that is open is counted.
LEMMA CountPositive ==
  ASSUME NEW s \in Seq(Opening), NEW c, NEW i \in 1..Len(s), s[i] = c
  PROVE  Count(s, c) \in Nat \ {0}
<1>1. i \in Places(s, c)
  BY DEF Places
<1>2. QED BY <1>1, PlacesFinite, FS_EmptySet DEF Count

LEMMA CountNone ==
  ASSUME NEW c
  PROVE  Count(<< >>, c) = 0
<1>1. Places(<< >>, c) = {}
  BY DEF Places
<1>2. QED BY <1>1, FS_EmptySet DEF Count

-----------------------------------------------------------------------------

\* What the scanners' switch does to the locals, outside of strings, ...
LEMMA ReadOutside ==
  ASSUME NEW d, NEW c, NEW up, NEW down, "quote" \notin up \cup down
  PROVE  LET k == [depth |-> d, inString |-> FALSE, escape |-> FALSE]
         IN  Read(k, c, up, down) =
               [depth |-> IF c \in up THEN d + 1 ELSE IF c \in down THEN d - 1 ELSE d,
                inString |-> c = "quote", escape |-> FALSE]
BY DEF Read, Escapes

\* ... inside of one, ...
LEMMA ReadInside ==
  ASSUME NEW d, NEW c, NEW up, NEW down
  PROVE  LET k == [depth |-> d, inString |-> TRUE, escape |-> FALSE]
         IN  Read(k, c, up, down) =
               [depth |-> d, inString |-> c # "quote", escape |-> c = "backslash"]
BY DEF Read, Escapes

\* ... and after a backslash in one.
LEMMA ReadEscaped ==
  ASSUME NEW d, NEW c, NEW up, NEW down
  PROVE  LET k == [depth |-> d, inString |-> TRUE, escape |-> TRUE]
         IN  Read(k, c, up, down) = [depth |-> d, inString |-> TRUE, escape |-> FALSE]
BY DEF Read, Escapes

-----------------------------------------------------------------------------

\* The string's state after a byte.
StrAfter(c) ==
  /\ str' \in {"out", "in", "escaped"}
  /\ str' # "out" <=> (str = "out" /\ c = "quote") \/ (str = "in" /\ c # "quote") \/ str = "escaped"
  /\ str' = "escaped" <=> str = "in" /\ c = "backslash"

\* In lockstep, depths are natural numbers.
LEMMA Depths ==
  ASSUME Lockstep
  PROVE  /\ Len(open) \in Nat
         /\ Count(open, "lbrace") \in Nat /\ Count(open, "lbracket") \in Nat
         /\ Count(open, "lbrace") = 0 <=> open = << >>
         /\ messages = "open" => Count(open, "lbracket") # 0
<1>1. Len(open) \in Nat /\ Count(open, "lbrace") \in Nat /\ Count(open, "lbracket") \in Nat
  BY PlacesFinite DEF Lockstep, Opened
<1>2. open # << >> => Count(open, "lbrace") # 0
  <2>1. open # << >> => 1 \in 1..Len(open) /\ open[1] = "lbrace"
    BY DEF Lockstep, Opened
  <2>2. QED BY <2>1, CountPositive DEF Lockstep, Opened
<1>3. open = << >> => Count(open, "lbrace") = 0
  BY CountNone
<1>4. messages = "open" => Count(open, "lbracket") # 0
  <2>1. messages = "open" => 2 \in 1..Len(open) /\ open[2] = "lbracket"
    BY DEF Lockstep, Opened
  <2>2. QED BY <2>1, CountPositive DEF Lockstep, Opened
<1>5. QED BY <1>1, <1>2, <1>3, <1>4

\* A byte that opens and closes no container leaves the scanners in lockstep,
\* strings included.
LEMMA EmitText ==
  ASSUME Lockstep, NEW c \in Bytes, Emit(c), StrAfter(c), UNCHANGED <<open, messages>>,
         str = "out" => c \notin Opening \cup Closing,
         open = << >> => c = "space"
  PROVE  /\ ScanTypeOK' <=> at' \in {"first", "item", "colon", "value", "after"}
         /\ scan'.phase = scan.phase /\ scan'.comma = scan.comma
         /\ scan'.last = LastByte(scan.last, c)
         /\ messages = "absent" => scan'.count = Locals(Len(open))'
         /\ messages = "open" => scan'.count = Locals(Count(open, "lbracket"))'
         /\ brace'.found = brace.found
         /\ ~brace.found => brace'.count = Locals(Count(open, "lbrace"))'
<1> DEFINE Text(d) == [depth |-> d, inString |-> str' # "out", escape |-> str' = "escaped"]
<1>1. \A d \in Nat, up, down \in SUBSET (Opening \cup Closing) :
        Read(Locals(d), c, up, down) = Text(d)
  <2> SUFFICES ASSUME NEW d \in Nat, NEW up \in SUBSET (Opening \cup Closing),
                      NEW down \in SUBSET (Opening \cup Closing)
               PROVE  Read(Locals(d), c, up, down) = Text(d)
    OBVIOUS
  <2>1. "quote" \notin up \cup down
    BY DEF Opening, Closing
  <2>2. CASE str = "out"
    <3>1. Locals(d) = [depth |-> d, inString |-> FALSE, escape |-> FALSE]
      BY <2>2 DEF Locals
    <3>2. Read(Locals(d), c, up, down) =
            [depth |-> IF c \in up THEN d + 1 ELSE IF c \in down THEN d - 1 ELSE d,
             inString |-> c = "quote", escape |-> FALSE]
      BY <2>1, <3>1, ReadOutside
    <3>3. c \notin up /\ c \notin down
      BY <2>2
    <3>4. (str' # "out" <=> c = "quote") /\ (str' = "escaped" <=> FALSE)
      BY <2>2 DEF StrAfter
    <3>5. QED BY <3>2, <3>3, <3>4
  <2>3. CASE str # "out"
    <3>1. CASE str = "escaped"
      <4>1. Locals(d) = [depth |-> d, inString |-> TRUE, escape |-> TRUE]
        BY <3>1 DEF Locals
      <4>2. Read(Locals(d), c, up, down) = [depth |-> d, inString |-> TRUE, escape |-> FALSE]
        BY <4>1, ReadEscaped
      <4>3. str' # "out" /\ str' # "escaped"
        BY <3>1 DEF StrAfter
      <4>4. QED BY <4>2, <4>3
    <3>2. CASE str # "escaped"
      <4>1. Locals(d) = [depth |-> d, inString |-> TRUE, escape |-> FALSE]
        BY <2>3, <3>2 DEF Locals
      <4>2. Read(Locals(d), c, up, down) =
              [depth |-> d, inString |-> c # "quote", escape |-> c = "backslash"]
        BY <4>1, ReadInside
      <4>3. (str' # "out" <=> c # "quote") /\ (str' = "escaped" <=> c = "backslash")
        BY <2>3, <3>2 DEF StrAfter, Lockstep, ScanTypeOK
      <4>4. QED BY <4>2, <4>3
    <3>3. QED BY <3>1, <3>2
  <2>4. QED BY <2>2, <2>3
<1>2. Opening \subseteq Opening \cup Closing /\ Closing \subseteq Opening \cup Closing
      /\ {"lbrace"} \subseteq Opening \cup Closing /\ {"rbrace"} \subseteq Opening \cup Closing
      /\ {"lbracket"} \subseteq Opening \cup Closing /\ {"rbracket"} \subseteq Opening \cup Closing
  BY DEF Opening, Closing
<1>3. \A d \in Nat : Text(d) \in Counter
  BY DEF Counter
<1>4. /\ scan' = [scan EXCEPT !.last = LastByte(scan.last, c),
                              !.count = IF messages = "absent" THEN Text(Len(open))
                                        ELSE IF messages = "open" THEN Text(Count(open, "lbracket"))
                                        ELSE scan.count]
  <2>1. scan' = FindClosingBracket(scan, c)
    BY DEF Emit
  <2>2. CASE messages = "absent"
    <3>1. scan.phase = "key" /\ Read(scan.count, c, Opening, Closing) = Text(Len(open))
      BY <1>1, <1>2, <2>2, Depths DEF Lockstep, Finding
    <3>2. QED BY <2>1, <2>2, <3>1 DEF FindClosingBracket, ReadForKey, Lockstep, ScanTypeOK
  <2>3. CASE messages = "named"
    <3>1. scan.phase = "bracket" /\ c # "lbracket"
      BY <2>3 DEF Lockstep, Finding, Opened, Opening
    <3>2. QED BY <2>1, <2>3, <3>1 DEF FindClosingBracket, ReadForBracket, Lockstep, ScanTypeOK
  <2>4. CASE messages = "open"
    <3>1. /\ scan.phase = "array"
          /\ Read(scan.count, c, {"lbracket"}, {"rbracket"}) = Text(Count(open, "lbracket"))
      BY <1>1, <1>2, <2>4, Depths DEF Lockstep, Finding
    <3>2. Text(Count(open, "lbracket")).depth # 0
      BY <2>4, Depths
    <3>3. scan.comma = FALSE
      BY <2>4 DEF Lockstep, Finding
    <3>4. QED BY <2>1, <2>4, <3>1, <3>2, <3>3
              DEF FindClosingBracket, ReadForEnd, Lockstep, ScanTypeOK
  <2>5. CASE messages \in {"empty", "filled"}
    <3>1. scan.phase = "found"
      BY <2>5 DEF Lockstep, Finding
    <3>2. QED BY <2>1, <2>5, <3>1 DEF FindClosingBracket, Lockstep, ScanTypeOK
  <2>6. QED BY <2>2, <2>3, <2>4, <2>5 DEF Lockstep, ScanTypeOK
<1>5. /\ brace.found => brace' = brace
      /\ ~brace.found => brace' = [found |-> FALSE, count |-> Text(Count(open, "lbrace"))]
  <2>1. brace' = MatchingBrace(brace, c)
    BY DEF Emit
  <2>2. CASE brace.found
    BY <2>1, <2>2 DEF MatchingBrace
  <2>3. CASE ~brace.found /\ open = << >>
    <3>1. brace.count = Locals(0) /\ str = "out" /\ c = "space" /\ Count(open, "lbrace") = 0
      BY <2>3, Depths DEF Lockstep, Matching, Opened
    <3>2. brace' = brace /\ Locals(0) = Text(0)
      BY <2>1, <2>3, <3>1 DEF MatchingBrace, Locals, StrAfter
    <3>3. brace = [found |-> FALSE, count |-> brace.count]
      BY <2>3 DEF Lockstep, ScanTypeOK
    <3>4. QED BY <2>3, <3>1, <3>2, <3>3
  <2>4. CASE ~brace.found /\ open # << >>
    <3>1. /\ brace.count = Locals(Count(open, "lbrace")) /\ Count(open, "lbrace") # 0
          /\ Read(brace.count, c, {"lbrace"}, {"rbrace"}) = Text(Count(open, "lbrace"))
      BY <1>1, <1>2, <2>4, Depths DEF Lockstep, Matching
    <3>2. brace.count.depth # 0 /\ Text(Count(open, "lbrace")).depth # 0
      BY <3>1 DEF Locals
    <3>3. QED BY <2>1, <2>4, <3>1, <3>2 DEF MatchingBrace
  <2>5. QED BY <2>2, <2>3, <2>4
<1>6. LastByte(scan.last, c) \in Bytes
  BY DEF LastByte, Lockstep, ScanTypeOK
<1>7. scan' \in [phase : {"key", "bracket", "array", "found"}, count : Counter,
                 last : Bytes, comma : BOOLEAN]
  BY <1>3, <1>4, <1>6, Depths DEF Lockstep, ScanTypeOK
<1>8. brace' \in [found : BOOLEAN, count : Counter]
  <2>1. brace.found => brace' \in [found : BOOLEAN, count : Counter]
    BY <1>5 DEF Lockstep, ScanTypeOK
  <2>2. PICK k \in Counter : k = Text(Count(open, "lbrace"))
    BY <1>3, Depths
  <2>3. ~brace.found => brace' = [found |-> FALSE, count |-> k]
    BY <1>5, <2>2
  <2>4. [found |-> FALSE, count |-> k] \in [found : BOOLEAN, count : Counter]
    OBVIOUS
  <2>5. brace.found \in BOOLEAN
    BY DEF Lockstep, ScanTypeOK
  <2> HIDE DEF Text
  <2>6. QED BY <2>1, <2>3, <2>4, <2>5
<1>9. ScanTypeOK' <=> at' \in {"first", "item", "colon", "value", "after"}
  BY <1>7, <1>8 DEF Lockstep, ScanTypeOK, StrAfter
<1>10. /\ scan'.phase = scan.phase /\ scan'.comma = scan.comma
       /\ scan'.last = LastByte(scan.last, c)
       /\ messages = "absent" => scan'.count = Text(Len(open))
       /\ messages = "open" => scan'.count = Text(Count(open, "lbracket"))
  BY <1>4 DEF Lockstep, ScanTypeOK
<1>11. \A d : Text(d) = [depth |-> d, inString |-> str' # "out", escape |-> str' = "escaped"]
  OBVIOUS
<1>12. brace'.found = brace.found /\ (~brace.found => brace'.count = Text(Count(open, "lbrace")))
  <2>1. brace.found \in BOOLEAN
    BY DEF Lockstep, ScanTypeOK
  <2>2. brace.found => brace'.found = brace.found
    BY <1>5
  <2> HIDE DEF Text
  <2>3. ~brace.found => brace'.found = FALSE /\ brace'.count = Text(Count(open, "lbrace"))
    BY <1>5
  <2>4. QED BY <2>1, <2>2, <2>3
<1>13. /\ Locals(Len(open))' = Text(Len(open))
       /\ Locals(Count(open, "lbracket"))' = Text(Count(open, "lbracket"))
       /\ Locals(Count(open, "lbrace"))' = Text(Count(open, "lbrace"))
  <2>1. /\ Len(open)' = Len(open)
        /\ Count(open, "lbracket")' = Count(open, "lbracket")
        /\ Count(open, "lbrace")' = Count(open, "lbrace")
    BY DEF Count, Places
  <2>2. /\ Locals(Len(open))' = Text(Len(open)')
        /\ Locals(Count(open, "lbracket"))' = Text(Count(open, "lbracket")')
        /\ Locals(Count(open, "lbrace"))' = Text(Count(open, "lbrace")')
    BY DEF Locals
  <2> HIDE DEF Text
  <2>3. QED BY <2>1, <2>2
<1> HIDE DEF Text
<1>14. QED BY <1>9, <1>10, <1>12, <1>13

\* Where such a byte leaves the writer decides whether the lockstep is kept.
LEMMA TextStep ==
  ASSUME Lockstep, NEW c \in Bytes, Emit(c), StrAfter(c), UNCHANGED <<open, messages>>,
         str = "out" => c \notin Opening \cup Closing,
         open = << >> => c = "space" /\ at' = at,
         messages = "named" => c # "quote" /\ at' \in {"colon", "value"},
         \/ str' # "out" /\ at' = at
         \/ c = "space" /\ str = "out" /\ at' = at
         \/ c \in {"quote", "other"} /\ at' \in {"item", "colon", "value", "after"}
  PROVE  Lockstep'
<1>1. /\ ScanTypeOK' <=> at' \in {"first", "item", "colon", "value", "after"}
      /\ scan'.phase = scan.phase /\ scan'.comma = scan.comma
      /\ scan'.last = LastByte(scan.last, c)
      /\ messages = "absent" => scan'.count = Locals(Len(open))'
      /\ messages = "open" => scan'.count = Locals(Count(open, "lbracket"))'
      /\ brace'.found = brace.found
      /\ ~brace.found => brace'.count = Locals(Count(open, "lbrace"))'
  BY EmitText
<1>2. ScanTypeOK'
  BY <1>1 DEF Lockstep, ScanTypeOK
<1>3. Opened'
  <2>1. str = "out" /\ c # "quote" => str' = "out"
    BY DEF StrAfter
  <2>2. QED BY <2>1 DEF Lockstep, Opened
<1>4. Finding'
  <2>1. ASSUME messages = "open", str' = "out"
        PROVE  scan'.last = "lbracket" <=> In("lbracket")' /\ at' = "first"
    <3>1. CASE c = "space" /\ str = "out" /\ at' = at
      BY <1>1, <2>1, <3>1 DEF LastByte, In, Lockstep, Finding
    <3>2. CASE c \in {"quote", "other"} /\ at' \in {"item", "colon", "value", "after"}
      BY <1>1, <3>2 DEF LastByte
    <3>3. QED BY <2>1, <3>1, <3>2
  <2>2. (scan.phase = CASE messages = "absent"             -> "key"
                        [] messages = "named"              -> "bracket"
                        [] messages = "open"               -> "array"
                        [] messages \in {"empty", "filled"} -> "found")'
    BY <1>1 DEF Lockstep, Finding
  <2>3. scan'.comma <=> messages' = "filled"
    BY <1>1 DEF Lockstep, Finding
  <2>4. /\ messages' = "absent" => scan'.count = Locals(Len(open))'
        /\ messages' = "open" => scan'.count = Locals(Count(open, "lbracket"))'
    BY <1>1
  <2>5. QED BY <2>1, <2>2, <2>3, <2>4 DEF Finding
<1>5. Matching'
  <2>1. Written' <=> Written
    BY DEF Written
  <2>2. brace'.found <=> Written'
    BY <1>1, <2>1 DEF Lockstep, Matching
  <2>3. ~brace'.found => brace'.count = Locals(Count(open, "lbrace"))'
    BY <1>1
  <2>4. QED BY <2>2, <2>3 DEF Matching
<1>6. QED BY <1>2, <1>3, <1>4, <1>5 DEF Lockstep

-----------------------------------------------------------------------------

LEMMA InitLockstep == ScanInit => Lockstep
<1> SUFFICES ASSUME ScanInit PROVE Lockstep
  OBVIOUS
<1> USE DEF ScanInit
<1>1. From(0) \in Counter
  BY DEF From, Counter
<1>2. ScanTypeOK
  BY <1>1 DEF ScanTypeOK, Bytes
<1>3. Opened
  BY DEF Opened
<1>4. Locals(0) = From(0)
  BY DEF Locals, From
<1>5. Finding
  BY <1>4 DEF Finding
<1>6. Matching
  BY <1>4, CountNone DEF Matching, Written
<1>7. QED BY <1>2, <1>3, <1>5, <1>6 DEF Lockstep

\* What the scanners' locals become as they read a whole string: nothing but
\* the quotes matters.
LEMMA ReadString ==
  ASSUME NEW d, NEW up, NEW down, {"quote", "other"} \cap (up \cup down) = {}
  PROVE  LET k == [depth |-> d, inString |-> FALSE, escape |-> FALSE]
             in == [depth |-> d, inString |-> TRUE, escape |-> FALSE]
         IN  /\ Read(k, "quote", up, down) = in
             /\ Read(in, "other", up, down) = in
             /\ Read(in, "quote", up, down) = k
BY DEF Read, Escapes

\* matchingBrace while it counts, ...
LEMMA MatchReads ==
  ASSUME NEW k, NEW c, k.depth # 0 \/ c = "lbrace", NEW next,
         next = Read(k, c, {"lbrace"}, {"rbrace"}), next.depth # 0
  PROVE  MatchingBrace([found |-> FALSE, count |-> k], c) = [found |-> FALSE, count |-> next]
<1>1. (next.depth = 0) = FALSE
  OBVIOUS
<1>2. MatchingBrace([found |-> FALSE, count |-> k], c) =
        [found |-> next.depth = 0, count |-> next]
  BY DEF MatchingBrace
<1>3. QED BY <1>1, <1>2, Zenon

\* ... and findClosingBracket in the array.
LEMMA ArrayReads ==
  ASSUME NEW s \in [phase : {"key", "bracket", "array", "found"}, count : Counter,
                    last : Bytes, comma : BOOLEAN],
         s.phase = "array", NEW c, NEW next,
         next = Read(s.count, c, {"lbracket"}, {"rbracket"}), next.depth # 0
  PROVE  FindClosingBracket(s, c) = [s EXCEPT !.count = next, !.last = LastByte(s.last, c)]
<1>1. ReadForEnd(s, c) = [s EXCEPT !.count = next]
  BY DEF ReadForEnd
<1>2. FindClosingBracket(s, c) = [ReadForEnd(s, c) EXCEPT !.last = LastByte(@, c)]
  BY DEF FindClosingBracket
<1>3. [s EXCEPT !.count = next].last = s.last
  OBVIOUS
<1>4. QED BY <1>1, <1>2, <1>3

LEMMA MessagesStep == Lockstep /\ Messages => Lockstep'
<1> SUFFICES ASSUME Lockstep, Messages PROVE Lockstep'
  OBVIOUS
<1> DEFINE K(d) == [depth |-> d, inString |-> FALSE, escape |-> FALSE]
           I(d) == [depth |-> d, inString |-> TRUE, escape |-> FALSE]
<1>1. str = "out" /\ open # << >> /\ messages # "named" /\ Len(open) \in Nat
  BY Depths DEF Messages, KeyIsNext, AnyValueIsNext, ValueIsNext, In, Lockstep, Opened
<1>2. \A d : Locals(d) = K(d)
  BY <1>1 DEF Locals
<1>3. UNCHANGED <<open, str>> /\ at' \in {"colon", "after"}
  BY DEF Messages
<1>4. /\ \A d : Read(K(d), "quote", Opening, Closing) = I(d)
      /\ \A d : Read(I(d), "other", Opening, Closing) = I(d)
      /\ \A d : Read(I(d), "quote", Opening, Closing) = K(d)
  <2>1. {"quote", "other"} \cap (Opening \cup Closing) = {}
    BY DEF Opening, Closing
  <2>2. QED BY <2>1, ReadString
<1>5. /\ \A d : Read(K(d), "quote", {"lbracket"}, {"rbracket"}) = I(d)
      /\ \A d : Read(I(d), "other", {"lbracket"}, {"rbracket"}) = I(d)
      /\ \A d : Read(I(d), "quote", {"lbracket"}, {"rbracket"}) = K(d)
  BY ReadString
<1>6. /\ \A d : Read(K(d), "quote", {"lbrace"}, {"rbrace"}) = I(d)
      /\ \A d : Read(I(d), "other", {"lbrace"}, {"rbrace"}) = I(d)
      /\ \A d : Read(I(d), "quote", {"lbrace"}, {"rbrace"}) = K(d)
  BY ReadString
<1>7. brace' = brace /\ ~brace.found
  <2>1. ~brace.found
    BY <1>1 DEF Lockstep, Matching, Written
  <2>2. PICK n \in Nat \ {0} : n = Count(open, "lbrace")
    BY <1>1, Depths
  <2>3. brace = [found |-> FALSE, count |-> K(n)]
    BY <1>2, <2>1, <2>2 DEF Lockstep, Matching, ScanTypeOK
  <2>4. MatchingBrace([found |-> FALSE, count |-> K(n)], "quote") = [found |-> FALSE, count |-> I(n)]
    BY <1>6, <2>2, MatchReads
  <2>5. MatchingBrace([found |-> FALSE, count |-> I(n)], "other") = [found |-> FALSE, count |-> I(n)]
    BY <1>6, <2>2, MatchReads
  <2>6. MatchingBrace([found |-> FALSE, count |-> I(n)], "quote") = [found |-> FALSE, count |-> K(n)]
    BY <1>6, <2>2, MatchReads
  <2>7. brace' = MatchMessages(brace)
    BY DEF Messages
  <2>8. QED BY <2>1, <2>3, <2>4, <2>5, <2>6, <2>7 DEF MatchMessages
<1>8. CASE messages = "absent" /\ Len(open) = 1
  <2>1. KeyIsNext /\ messages' = "named" /\ at' = "colon"
    BY <1>8 DEF Messages
  <2>2. scan' = [scan EXCEPT !.phase = "bracket", !.last = "quote"]
    <3>1. scan.phase = "key" /\ scan.count = K(1)
      BY <1>2, <1>8 DEF Lockstep, Finding
    <3>2. AtTopLevel(scan.count)
      BY <3>1 DEF AtTopLevel
    <3>3. QED BY <3>1, <3>2 DEF Messages, FindMessages
  <2>3. open = <<"lbrace">>
    BY <1>8 DEF Lockstep, Opened
  <2>4. ScanTypeOK'
    BY <1>3, <1>7, <2>1, <2>2 DEF Lockstep, ScanTypeOK, Bytes
  <2>5. Opened'
    BY <1>1, <1>3, <2>1, <2>3 DEF Lockstep, Opened
  <2>6. Finding'
    BY <1>8, <2>1, <2>2 DEF Lockstep, Finding, ScanTypeOK
  <2>7. Matching'
    BY <1>1, <1>3, <1>7 DEF Lockstep, Matching, Written, Locals, Count, Places
  <2>8. QED BY <2>4, <2>5, <2>6, <2>7 DEF Lockstep
<1>9. CASE messages # "absent" \/ Len(open) # 1
  <2>0. ~(KeyIsNext /\ Len(open) = 1)
    <3>1. AnyValueIsNext /\ Len(open) > 1 => Len(open) # 1
      BY <1>1
    <3>2. QED BY <1>9, <3>1 DEF Messages
  <2>1. messages' = messages
    BY <2>0 DEF Messages
  <2>2. scan' = [scan EXCEPT !.last = "quote"]
    <3>1. scan' = FindMessages(scan)
      BY DEF Messages
    <3>2. CASE messages = "absent"
      <4>1. Len(open) # 1 /\ scan.phase = "key" /\ scan.count = K(Len(open))
        BY <1>2, <1>9, <3>2 DEF Lockstep, Finding
      <4>2. ~AtTopLevel(scan.count)
        BY <4>1 DEF AtTopLevel
      <4> DEFINE s1 == [scan EXCEPT !.count = I(Len(open)), !.last = "quote"]
                 s2 == [scan EXCEPT !.count = I(Len(open)), !.last = "other"]
      <4>3. FindClosingBracket(scan, "quote") = s1
        BY <1>4, <4>1 DEF FindClosingBracket, ReadForKey, LastByte, Lockstep, ScanTypeOK
      <4>4. FindClosingBracket(s1, "other") = s2
        BY <1>4, <4>1 DEF FindClosingBracket, ReadForKey, LastByte, Lockstep, ScanTypeOK
      <4>5. FindClosingBracket(s2, "quote") = [scan EXCEPT !.last = "quote"]
        BY <1>4, <4>1 DEF FindClosingBracket, ReadForKey, LastByte, Lockstep, ScanTypeOK
      <4> HIDE DEF s1, s2
      <4>6. QED BY <3>1, <4>2, <4>3, <4>4, <4>5 DEF FindMessages
    <3>3. CASE messages = "open"
      <4>1. PICK n \in Nat \ {0} : n = Count(open, "lbracket")
        BY <3>3, Depths
      <4>2. scan.phase = "array" /\ scan.count = K(n) /\ scan.comma = FALSE
        BY <1>2, <3>3, <4>1 DEF Lockstep, Finding, ScanTypeOK
      <4> DEFINE s1 == [scan EXCEPT !.count = I(n), !.last = "quote"]
                 s2 == [scan EXCEPT !.count = I(n), !.last = "other"]
                 s3 == [scan EXCEPT !.last = "quote"]
      <4>3. I(n) \in Counter /\ "quote" \in Bytes /\ "other" \in Bytes
        BY DEF Counter, Bytes
      <4>4. /\ s1 \in [phase : {"key", "bracket", "array", "found"}, count : Counter,
                       last : Bytes, comma : BOOLEAN]
            /\ s1.phase = "array" /\ s1.count = I(n)
        BY <4>3, <4>2 DEF Lockstep, ScanTypeOK
      <4>5. /\ s2 \in [phase : {"key", "bracket", "array", "found"}, count : Counter,
                       last : Bytes, comma : BOOLEAN]
            /\ s2.phase = "array" /\ s2.count = I(n)
        BY <4>3, <4>2 DEF Lockstep, ScanTypeOK
      <4>6. FindClosingBracket(scan, "quote") = s1
        <5>1. LastByte(scan.last, "quote") = "quote"
          BY DEF LastByte
        <5>2. I(n).depth # 0 /\ I(n) = Read(scan.count, "quote", {"lbracket"}, {"rbracket"})
          BY <1>5, <4>1, <4>2
        <5>3. scan \in [phase : {"key", "bracket", "array", "found"}, count : Counter,
                       last : Bytes, comma : BOOLEAN]
          BY DEF Lockstep, ScanTypeOK
        <5>4. [scan EXCEPT !.count = I(n), !.last = "quote"] = s1 /\ scan.phase = "array"
          BY <4>2
        <5> HIDE DEF s1, s2, I
        <5>5. QED BY <5>1, <5>2, <5>3, <5>4, ArrayReads
      <4>7. FindClosingBracket(s1, "other") = s2
        <5>1. LastByte(s1.last, "other") = "other"
          BY DEF LastByte
        <5>2. I(n).depth # 0 /\ I(n) = Read(s1.count, "other", {"lbracket"}, {"rbracket"})
          BY <1>5, <4>1, <4>4
        <5>3. [s1 EXCEPT !.count = I(n), !.last = "other"] = s2
          BY <4>2 DEF Lockstep, ScanTypeOK
        <5> HIDE DEF s1, s2, I
        <5>4. QED BY <4>4, <5>1, <5>2, <5>3, ArrayReads
      <4>8. FindClosingBracket(s2, "quote") = s3
        <5>1. LastByte(s2.last, "quote") = "quote"
          BY DEF LastByte
        <5>2. K(n).depth # 0 /\ K(n) = Read(s2.count, "quote", {"lbracket"}, {"rbracket"})
          BY <1>5, <4>1, <4>5
        <5>3. [s2 EXCEPT !.count = K(n), !.last = "quote"] = s3
          BY <4>2 DEF Lockstep, ScanTypeOK
        <5> HIDE DEF s1, s2, s3, I, K
        <5>4. QED BY <4>5, <5>1, <5>2, <5>3, ArrayReads
      <4> HIDE DEF s1, s2
      <4>9. QED BY <3>1, <4>2, <4>6, <4>7, <4>8 DEF FindMessages
    <3>4. CASE messages \in {"empty", "filled"}
      <4>1. scan.phase = "found"
        BY <3>4 DEF Lockstep, Finding
      <4>2. \A c \in {"quote", "other"}, s \in {scan, [scan EXCEPT !.last = "quote"], [scan EXCEPT !.last = "other"]} :
              FindClosingBracket(s, c) = [scan EXCEPT !.last = c]
        BY <4>1 DEF FindClosingBracket, LastByte, Lockstep, ScanTypeOK
      <4>3. QED BY <3>1, <4>1, <4>2 DEF FindMessages
    <3>5. QED BY <1>1, <3>2, <3>3, <3>4 DEF Lockstep, ScanTypeOK
  <2>3. ScanTypeOK'
    BY <1>3, <1>7, <2>1, <2>2 DEF Lockstep, ScanTypeOK, Bytes
  <2>4. Opened'
    BY <1>1, <1>3, <2>1 DEF Lockstep, Opened
  <2>5. Finding'
    BY <1>3, <2>1, <2>2 DEF Lockstep, Finding, ScanTypeOK, Locals, Count, Places
  <2>6. Matching'
    BY <1>1, <1>3, <1>7 DEF Lockstep, Matching, Written, Locals, Count, Places
  <2>7. QED BY <2>3, <2>4, <2>5, <2>6 DEF Lockstep
<1>10. QED BY <1>8, <1>9

LEMMA BeginStep == Lockstep /\ Begin => Lockstep'
<1> SUFFICES ASSUME Lockstep, Begin PROVE Lockstep'
  OBVIOUS
<1> DEFINE K(d) == [depth |-> d, inString |-> FALSE, escape |-> FALSE]
<1>1. PICK c \in Opening : /\ open = << >> => c = "lbrace"
                           /\ messages = "named" => c = "lbracket"
                           /\ open' = Append(open, c)
                           /\ Emit(c)
  BY DEF Begin
<1>2. /\ str = "out" /\ str' = "out" /\ at' = "first"
      /\ messages' = IF messages = "named" THEN "open" ELSE messages
  BY DEF Begin, ValueIsNext
<1>3. \A d : Locals(d) = K(d) /\ Locals(d)' = K(d')
  BY <1>2 DEF Locals
<1>4. /\ open \in Seq(Opening) /\ open' \in Seq(Opening)
      /\ Len(open') = Len(open) + 1 /\ open'[Len(open')] = c
      /\ \A i \in 1..Len(open) : open'[i] = open[i]
  BY <1>1 DEF Lockstep, Opened
<1>5. \A b : Count(open, b) \in Nat /\ Count(open', b) = IF b = c THEN Count(open, b) + 1 ELSE Count(open, b)
  BY <1>1, <1>4, PlacesFinite, CountPush
<1>6. c = "lbrace" \/ c = "lbracket"
  BY DEF Opening
<1>7. c \in Bytes /\ c # "space" /\ c \notin Closing
  BY <1>6 DEF Bytes, Opening, Closing
<1>8. PICK n \in Nat, m \in Nat, l \in Nat :
        /\ n = Count(open, "lbrace") /\ m = Count(open, "lbracket") /\ l = Len(open)
        /\ n = 0 <=> open = << >>
        /\ messages = "open" => m # 0
  BY Depths
<1>9. PICK n1 \in Nat, m1 \in Nat :
        /\ n1 = Count(open', "lbrace") /\ m1 = Count(open', "lbracket")
        /\ n1 = IF c = "lbrace" THEN n + 1 ELSE n
        /\ m1 = IF c = "lbracket" THEN m + 1 ELSE m
  BY <1>5, <1>8
<1>10. /\ Locals(Len(open))' = K(l + 1)
       /\ Locals(Count(open, "lbrace"))' = K(n1)
       /\ Locals(Count(open, "lbracket"))' = K(m1)
  BY <1>2, <1>4, <1>8, <1>9 DEF Locals, Count, Places
<1>11. n1 # 0 /\ open' # << >> /\ (messages' = "open" => m1 # 0)
  BY <1>1, <1>2, <1>4, <1>6, <1>8, <1>9
<1>12. \A k \in Nat : K(k) \in Counter
  BY DEF Counter
<1>13. brace' = [found |-> FALSE, count |-> K(n1)]
  <2>1. ~brace.found
    BY <1>2 DEF Begin, ValueIsNext, In, Lockstep, Matching, Written
  <2>2. Locals(Count(open, "lbrace")) = K(n)
    BY <1>3, <1>8
  <2>3. brace = [found |-> FALSE, count |-> K(n)]
    BY <2>1, <2>2 DEF Lockstep, Matching, ScanTypeOK
  <2>4. Read(K(n), c, {"lbrace"}, {"rbrace"}) = K(n1)
    BY <1>6, <1>9 DEF Read, Escapes
  <2>5. K(n).depth # 0 \/ c = "lbrace"
    BY <1>1, <1>8
  <2>6. K(n1).depth # 0
    BY <1>11
  <2>7. brace' = MatchingBrace(brace, c)
    BY <1>1 DEF Emit
  <2> HIDE DEF K
  <2>8. QED BY <2>3, <2>4, <2>5, <2>6, <2>7, MatchReads
<1>14. Matching'
  <2>1. ~Written'
    BY <1>11 DEF Written
  <2>2. brace'.found = FALSE /\ brace'.count = K(n1)
    BY <1>13
  <2> HIDE DEF K
  <2>3. QED BY <1>10, <2>1, <2>2 DEF Matching
<1>15. Opened'
  <2>1. open'[1] = "lbrace"
    BY <1>1, <1>4, <1>8 DEF Lockstep, Opened
  <2>2. messages' = "open" => Len(open') > 1 /\ open'[2] = "lbracket"
    <3>1. CASE messages = "named"
      <4>1. Len(open) = 1
        BY <3>1 DEF Lockstep, Opened
      <4>2. QED BY <1>1, <1>4, <3>1, <4>1
    <3>2. CASE messages = "open"
      BY <1>4, <3>2 DEF Lockstep, Opened
    <3>3. QED BY <1>2, <3>1, <3>2
  <2>3. QED BY <1>2, <1>4, <1>11, <2>1, <2>2 DEF Opened
<1>16. brace' \in [found : BOOLEAN, count : Counter]
  <2>1. PICK k \in Counter : k = K(n1)
    BY <1>12
  <2> HIDE DEF K
  <2>2. brace' = [found |-> FALSE, count |-> k]
    BY <1>13, <2>1
  <2>3. QED BY <2>2
<1>17. CASE messages = "named"
  <2>1. scan.phase = "bracket" /\ scan.comma = FALSE /\ c = "lbracket" /\ messages' = "open"
    BY <1>1, <1>2, <1>17 DEF Lockstep, Finding, ScanTypeOK
  <2>2. m1 = 1
    <3>1. open = Append(<< >>, "lbrace") /\ << >> \in Seq(Opening) /\ "lbrace" \in Opening
      BY <1>17 DEF Lockstep, Opened, Opening
    <3>2. Count(Append(<< >>, "lbrace"), "lbracket") = Count(<< >>, "lbracket")
      BY <3>1, CountPush
    <3>3. m = 0
      BY <1>8, <3>1, <3>2, CountNone
    <3>4. QED BY <1>9, <2>1, <3>3
  <2>3. scan' = [scan EXCEPT !.phase = "array", !.count = K(1), !.last = "lbracket"]
    BY <1>1, <2>1 DEF Emit, FindClosingBracket, ReadForBracket, LastByte, From, Lockstep, ScanTypeOK
  <2>4. ScanTypeOK'
    BY <1>2, <1>4, <1>12, <1>16, <2>1, <2>3 DEF Lockstep, ScanTypeOK, Bytes
  <2>5. Finding'
    BY <1>2, <1>4, <1>10, <1>11, <2>1, <2>2, <2>3 DEF Finding, In, Lockstep, ScanTypeOK
  <2>6. QED BY <1>14, <1>15, <2>4, <2>5 DEF Lockstep
<1>18. CASE messages # "named"
  <2>1. messages' = messages /\ LastByte(scan.last, c) = c
    BY <1>2, <1>7, <1>18 DEF LastByte
  <2>2. scan' = [scan EXCEPT !.last = c,
                             !.count = IF messages = "absent" THEN K(l + 1)
                                       ELSE IF messages = "open" THEN K(m1) ELSE scan.count]
    <3>1. scan' = FindClosingBracket(scan, c)
      BY <1>1 DEF Emit
    <3>2. CASE messages = "absent"
      <4>1. scan.phase = "key" /\ scan.count = K(l)
        BY <1>3, <1>8, <3>2 DEF Lockstep, Finding
      <4>2. Read(K(l), c, Opening, Closing) = K(l + 1)
        BY <1>6 DEF Read, Escapes, Opening
      <4>3. QED BY <2>1, <3>1, <3>2, <4>1, <4>2
                DEF FindClosingBracket, ReadForKey, Lockstep, ScanTypeOK
    <3>3. CASE messages = "open"
      <4>1. scan.phase = "array" /\ scan.count = K(m)
        BY <1>3, <1>8, <3>3 DEF Lockstep, Finding
      <4>2. K(m1) = Read(scan.count, c, {"lbracket"}, {"rbracket"})
        <5>1. Read(K(m), c, {"lbracket"}, {"rbracket"}) = K(m1)
          BY <1>6, <1>9 DEF Read, Escapes
        <5> HIDE DEF K
        <5>2. QED BY <4>1, <5>1
      <4>5. K(m1).depth # 0
        BY <1>11, <2>1, <3>3
      <4>3. scan \in [phase : {"key", "bracket", "array", "found"}, count : Counter,
                      last : Bytes, comma : BOOLEAN]
        BY DEF Lockstep, ScanTypeOK
      <4> HIDE DEF K
      <4> DEFINE s1 == [scan EXCEPT !.count = K(m1), !.last = c]
      <4>4. s1 = [scan EXCEPT !.count = K(m1), !.last = LastByte(scan.last, c)]
        BY <2>1
      <4> HIDE DEF s1
      <4>6. FindClosingBracket(scan, c) = s1
        BY <4>1, <4>2, <4>3, <4>4, <4>5, ArrayReads
      <4>7. QED BY <3>1, <3>3, <4>6 DEF s1
    <3>4. CASE messages \in {"empty", "filled"}
      <4>1. scan.phase = "found"
        BY <3>4 DEF Lockstep, Finding
      <4>2. QED BY <2>1, <3>1, <3>4, <4>1 DEF FindClosingBracket, Lockstep, ScanTypeOK
    <3>5. QED BY <1>18, <3>2, <3>3, <3>4 DEF Lockstep, ScanTypeOK
  <2>3. K(l + 1) \in Counter /\ K(m1) \in Counter
    BY <1>12
  <2>4. ScanTypeOK'
    BY <1>2, <1>4, <1>7, <1>16, <2>1, <2>2, <2>3 DEF Lockstep, ScanTypeOK
  <2>5. Finding'
    BY <1>2, <1>4, <1>10, <1>11, <2>1, <2>2, <1>18 DEF Finding, In, Lockstep, ScanTypeOK
  <2>6. QED BY <1>14, <1>15, <2>4, <2>5 DEF Lockstep
<1>19. QED BY <1>17, <1>18

\* What a closing byte does to the locals.
LEMMA ReadClosing ==
  ASSUME NEW d, NEW e, NEW c, c # "quote", NEW up, NEW down, c \notin up,
         e = IF c \in down THEN d - 1 ELSE d
  PROVE  Read([depth |-> d, inString |-> FALSE, escape |-> FALSE], c, up, down) =
           [depth |-> e, inString |-> FALSE, escape |-> FALSE]
BY DEF Read, Escapes

LEMMA EndStep == Lockstep /\ End => Lockstep'
<1> SUFFICES ASSUME Lockstep, End PROVE Lockstep'
  OBVIOUS
<1> DEFINE K(d) == [depth |-> d, inString |-> FALSE, escape |-> FALSE]
           top == open[Len(open)]
           c == IF top = "lbrace" THEN "rbrace" ELSE "rbracket"
<1>1. /\ str = "out" /\ str' = "out" /\ open # << >> /\ open \in Seq(Opening)
      /\ at \in {"first", "after"} /\ at' = "after" /\ messages # "named"
      /\ open' = SubSeq(open, 1, Len(open) - 1)
      /\ messages' = IF messages # "open" \/ Len(open) # 2 THEN messages
                     ELSE IF at = "first" THEN "empty" ELSE "filled"
  BY DEF End, Lockstep, Opened
<1>2. Emit(c)
  BY <1>1 DEF End, In
<1>3. Len(open) \in Nat \ {0} /\ (top = "lbrace" \/ top = "lbracket")
  <2>1. Len(open) \in 1..Len(open)
    BY <1>1
  <2>2. top \in Opening
    BY <1>1, <2>1
  <2>3. QED BY <1>1, <2>2 DEF Opening
<1>4. /\ open' \in Seq(Opening) /\ Len(open') = Len(open) - 1
      /\ \A i \in 1..Len(open') : open'[i] = open[i]
      /\ \A b : /\ Count(open', b) \in Nat
                /\ Count(open, b) = IF top = b THEN Count(open', b) + 1 ELSE Count(open', b)
  BY <1>1, CountPop
<1> HIDE DEF top
<1>5. PICK n \in Nat, m \in Nat, l \in Nat :
        /\ n = Count(open, "lbrace") /\ m = Count(open, "lbracket") /\ l = Len(open)
        /\ n # 0 /\ l # 0
  BY <1>1, <1>3, Depths
<1>6. PICK n1 \in Nat, m1 \in Nat :
        /\ n1 = Count(open', "lbrace") /\ m1 = Count(open', "lbracket")
        /\ n = IF top = "lbrace" THEN n1 + 1 ELSE n1
        /\ m = IF top = "lbracket" THEN m1 + 1 ELSE m1
  BY <1>4, <1>5
<1>7. \A d : Locals(d) = K(d)
  BY <1>1 DEF Locals
<1>8. /\ Locals(Len(open))' = K(l - 1)
      /\ Locals(Count(open, "lbrace"))' = K(n1)
      /\ Locals(Count(open, "lbracket"))' = K(m1)
  <2>1. Len(open') = l - 1
    BY <1>4, <1>5
  <2>2. QED BY <1>1, <1>6, <2>1 DEF Locals, Count, Places
<1>9. open' # << >> => open'[1] = "lbrace"
  <2>1. open' # << >> => 1 \in 1..Len(open')
    BY <1>4
  <2>2. QED BY <1>1, <1>4, <2>1 DEF Lockstep, Opened
<1>10. n1 = 0 <=> open' = << >>
  <2>1. CASE open' = << >>
    BY <1>6, <2>1, CountNone
  <2>2. CASE open' # << >>
    <3>1. 1 \in 1..Len(open')
      BY <1>4, <2>2
    <3>2. QED BY <1>4, <1>6, <1>9, <2>2, <3>1, CountPositive
  <2>3. QED BY <2>1, <2>2
<1>11. ASSUME messages = "open"
       PROVE  /\ l = 2 => m1 = 0 /\ top = "lbracket"
              /\ l # 2 => m1 # 0 /\ l > 2 /\ open'[2] = "lbracket"
  <2>1. l > 1 /\ open[2] = "lbracket"
    BY <1>5, <1>11 DEF Lockstep, Opened
  <2>2. CASE l = 2
    <3>1. Len(open') = 1 /\ open'[1] = "lbrace" /\ top = "lbracket"
      <4>1. Len(open') = 1 /\ open'[1] = "lbrace"
        <5>1. Len(open') = 1
          BY <1>4, <1>5, <2>2
        <5>2. open' # << >>
          BY <5>1
        <5>3. QED BY <5>1, <5>2, <1>9
      <4>2. top = "lbracket"
        BY <1>5, <2>1, <2>2 DEF top
      <4>3. QED BY <4>1, <4>2
    <3>2. Places(open', "lbracket") = {}
      BY <3>1 DEF Places
    <3>3. QED BY <1>6, <2>2, <3>1, <3>2, FS_EmptySet DEF Count
  <2>3. CASE l # 2
    <3>1. 2 \in 1..Len(open') /\ l > 2
      BY <1>4, <1>5, <2>1, <2>3
    <3>2. open'[2] = "lbracket"
      BY <1>4, <2>1, <3>1
    <3>3. QED BY <1>4, <1>6, <2>3, <3>1, <3>2, CountPositive
  <2>4. QED BY <2>2, <2>3
<1>12. Opened'
  <2>1. messages' = "open" => Len(open') > 1 /\ open'[2] = "lbracket"
    BY <1>1, <1>4, <1>5, <1>11
  <2>2. QED BY <1>1, <1>4, <1>9, <2>1 DEF Opened, Lockstep, ScanTypeOK
<1>13. c \in Closing /\ c \in Bytes /\ c # "lbrace" /\ c # "lbracket" /\ LastByte(scan.last, c) = c
  BY DEF Closing, Bytes, LastByte
<1>14. \A k \in Nat : K(k) \in Counter
  BY DEF Counter
<1>15. brace' = [found |-> n1 = 0, count |-> K(n1)]
  <2>1. ~brace.found
    BY <1>1 DEF Lockstep, Matching, Written
  <2>2. brace.count = K(n)
    BY <1>5, <1>7, <2>1 DEF Lockstep, Matching
  <2>3. Read(K(n), c, {"lbrace"}, {"rbrace"}) = K(n1)
    <3>1. n1 = IF c \in {"rbrace"} THEN n - 1 ELSE n
      BY <1>3, <1>6
    <3>2. c # "quote" /\ c \notin {"lbrace"}
      BY <1>13
    <3> HIDE DEF c
    <3>3. QED BY <3>1, <3>2, ReadClosing
  <2>4. brace.count.depth # 0
    BY <1>5, <2>2
  <2>5. brace' = MatchingBrace(brace, c)
    BY <1>2 DEF Emit
  <2>6. PICK k : k = K(n1) /\ k = Read(brace.count, c, {"lbrace"}, {"rbrace"}) /\ k.depth = n1
    <3>1. K(n1).depth = n1
      OBVIOUS
    <3> HIDE DEF K
    <3>2. QED BY <2>2, <2>3, <3>1
  <2> HIDE DEF K, c
  <2>7. brace' = [found |-> k.depth = 0, count |-> k]
    BY <2>1, <2>4, <2>5, <2>6 DEF MatchingBrace
  <2>8. QED BY <2>6, <2>7
<1>16. Matching' /\ brace' \in [found : BOOLEAN, count : Counter]
  <2>1. Written' <=> n1 = 0
    BY <1>1, <1>10 DEF Written
  <2>2. PICK k \in Counter, f \in BOOLEAN : k = K(n1) /\ (f <=> n1 = 0) /\ f = (n1 = 0)
    BY <1>14
  <2> HIDE DEF K
  <2>3. brace' = [found |-> f, count |-> k]
    BY <1>15, <2>2
  <2>4. brace'.found = f /\ brace'.count = k /\ brace' \in [found : BOOLEAN, count : Counter]
    BY <2>3
  <2>5. QED BY <1>8, <2>1, <2>2, <2>4 DEF Matching
<1>17. scan' \in [phase : {"key", "bracket", "array", "found"}, count : Counter,
                  last : Bytes, comma : BOOLEAN] /\ Finding'
  <2>1. scan' = FindClosingBracket(scan, c)
    BY <1>2 DEF Emit
  <2>2. CASE messages = "open"
    <3>1. scan.phase = "array" /\ scan.count = K(m) /\ scan.comma = FALSE
      BY <1>5, <1>7, <2>2 DEF Lockstep, Finding, ScanTypeOK
    <3>2. Read(K(m), c, {"lbracket"}, {"rbracket"}) = K(m1)
      <4>1. m1 = IF c \in {"rbracket"} THEN m - 1 ELSE m
        BY <1>3, <1>6
      <4>2. c # "quote" /\ c \notin {"lbracket"}
        BY <1>13
      <4> HIDE DEF c
      <4>3. QED BY <4>1, <4>2, ReadClosing
    <3>3. PICK k \in Counter : k = K(m1) /\ k = Read(scan.count, c, {"lbracket"}, {"rbracket"})
                               /\ k.depth = m1
      <4>1. K(m1).depth = m1
        OBVIOUS
      <4> HIDE DEF K
      <4>2. QED BY <1>14, <3>1, <3>2, <4>1
    <3>4. CASE l = 2
      <4>1. m1 = 0 /\ top = "lbracket" /\ In("lbracket")
        BY <1>1, <1>11, <2>2, <3>4 DEF In, top
      <4>2. /\ messages' = IF at = "first" THEN "empty" ELSE "filled"
            /\ scan.last = "lbracket" <=> at = "first"
        BY <1>1, <1>5, <2>2, <3>4, <4>1 DEF Lockstep, Finding
      <4> HIDE DEF c, K
      <4>3. scan' = [scan EXCEPT !.count = k, !.phase = "found",
                                 !.comma = scan.last # "lbracket", !.last = c]
        BY <1>13, <2>1, <3>1, <3>3, <4>1
           DEF FindClosingBracket, ReadForEnd, Lockstep, ScanTypeOK
      <4>4. QED BY <1>13, <4>2, <4>3 DEF Finding, Lockstep, ScanTypeOK
    <3>5. CASE l # 2
      <4>1. messages' = "open"
        BY <1>1, <1>5, <2>2, <3>5
      <4>2. scan \in [phase : {"key", "bracket", "array", "found"}, count : Counter,
                      last : Bytes, comma : BOOLEAN]
        BY DEF Lockstep, ScanTypeOK
      <4>3. k.depth # 0
        BY <1>11, <2>2, <3>3, <3>5
      <4> HIDE DEF c, K
      <4> DEFINE s1 == [scan EXCEPT !.count = k, !.last = c]
      <4>4. s1 = [scan EXCEPT !.count = k, !.last = LastByte(scan.last, c)]
        BY <1>13
      <4> HIDE DEF s1
      <4>5. FindClosingBracket(scan, c) = s1
        BY <3>1, <3>3, <4>2, <4>3, <4>4, ArrayReads
      <4>6. scan' = [scan EXCEPT !.count = k, !.last = c]
        BY <2>1, <4>5 DEF s1
      <4>7. QED BY <1>1, <1>8, <1>13, <3>1, <3>3, <4>1, <4>2, <4>6 DEF Finding
    <3>6. QED BY <3>4, <3>5
  <2>3. CASE messages # "open"
    <3>1. messages' = messages
      BY <1>1, <2>3
    <3>2. CASE messages = "absent"
      <4>1. scan.phase = "key" /\ scan.count = K(l) /\ scan.comma = FALSE
        BY <1>5, <1>7, <3>2 DEF Lockstep, Finding, ScanTypeOK
      <4>2. Read(K(l), c, Opening, Closing) = K(l - 1)
        <5>1. c \notin Opening /\ c # "quote" /\ c \in Closing
          BY <1>13 DEF Opening
        <5> HIDE DEF c
        <5>2. QED BY <5>1, ReadClosing
      <4>3. l - 1 \in Nat
        BY <1>5
      <4>4. PICK k \in Counter : k = K(l - 1) /\ k = Read(scan.count, c, Opening, Closing)
        <5> HIDE DEF c, K
        <5>1. QED BY <1>14, <4>1, <4>2, <4>3
      <4> HIDE DEF c, K
      <4>5. scan' = [scan EXCEPT !.count = k, !.last = c]
        BY <1>13, <2>1, <4>1, <4>4 DEF FindClosingBracket, ReadForKey, Lockstep, ScanTypeOK
      <4>6. QED BY <1>8, <1>13, <3>1, <3>2, <4>1, <4>4, <4>5 DEF Finding, Lockstep, ScanTypeOK
    <3>3. CASE messages \in {"empty", "filled"}
      <4>1. scan.phase = "found"
        BY <3>3 DEF Lockstep, Finding
      <4> HIDE DEF c
      <4>2. scan' = [scan EXCEPT !.last = c]
        BY <1>13, <2>1, <4>1 DEF FindClosingBracket, Lockstep, ScanTypeOK
      <4>3. QED BY <1>13, <3>1, <3>3, <4>1, <4>2 DEF Finding, Lockstep, ScanTypeOK
    <3>4. QED BY <1>1, <2>3, <3>2, <3>3 DEF Lockstep, ScanTypeOK
  <2>4. QED BY <2>2, <2>3
<1>18. QED BY <1>1, <1>12, <1>16, <1>17 DEF Lockstep, ScanTypeOK, Opened

-----------------------------------------------------------------------------

LEMMA NextLockstep == Lockstep /\ [WriterStep]_scanVars => Lockstep'
<1> SUFFICES ASSUME Lockstep, [WriterStep]_scanVars PROVE Lockstep'
  OBVIOUS
<1>1. {"quote", "other", "space"} \subseteq Bytes \ (Opening \cup Closing)
  BY DEF Bytes, Opening, Closing
<1>2. /\ str \in {"out", "in", "escaped"}
      /\ open = << >> => str = "out" /\ at \in {"value", "after"} /\ messages # "named"
      /\ messages = "named" => str = "out" /\ open # << >> /\ at \in {"colon", "value"}
      /\ messages = "named" => ~In("lbracket")
  BY DEF Lockstep, ScanTypeOK, Opened, In
<1>3. CASE BeginString
  <2>1. str = "out" /\ open # << >> /\ messages # "named" /\ str' = "in" /\ at' = at
        /\ Emit("quote") /\ UNCHANGED <<open, messages>>
    BY <1>2, <1>3 DEF BeginString, KeyIsNext, AnyValueIsNext, ValueIsNext, In
  <2>2. StrAfter("quote")
    BY <2>1 DEF StrAfter
  <2>3. QED BY <1>1, <2>1, <2>2, TextStep
<1>4. CASE InString
  <2>1. PICK c \in Bytes : /\ str = "in" => c # "quote"
                           /\ str' = IF str = "in" /\ c = "backslash" THEN "escaped" ELSE "in"
                           /\ Emit(c)
    BY <1>4 DEF InString
  <2>2. str # "out" /\ open # << >> /\ messages # "named" /\ UNCHANGED <<open, at, messages>>
    BY <1>2, <1>4 DEF InString
  <2>3. StrAfter(c)
    BY <1>2, <2>1, <2>2 DEF StrAfter
  <2>4. str' # "out"
    BY <2>1
  <2>5. QED BY <2>1, <2>2, <2>3, <2>4, TextStep
<1>5. CASE EndString
  <2>1. str = "in" /\ str' = "out" /\ at' \in {"colon", "after"} /\ Emit("quote")
        /\ UNCHANGED <<open, messages>> /\ open # << >> /\ messages # "named"
    BY <1>2, <1>5 DEF EndString
  <2>2. StrAfter("quote")
    BY <2>1 DEF StrAfter
  <2>3. QED BY <1>1, <2>1, <2>2, TextStep
<1>6. CASE Messages
  BY <1>6, MessagesStep
<1>7. CASE Scalar
  <2>1. str = "out" /\ str' = "out" /\ at' = "after" /\ Emit("other")
        /\ UNCHANGED <<open, messages>> /\ open # << >> /\ messages # "named"
    BY <1>7 DEF Scalar, AnyValueIsNext, ValueIsNext
  <2>2. StrAfter("other")
    BY <2>1 DEF StrAfter
  <2>3. QED BY <1>1, <2>1, <2>2, TextStep
<1>8. CASE Begin
  BY <1>8, BeginStep
<1>9. CASE End
  BY <1>9, EndStep
<1>10. CASE Separator
  <2>1. str = "out" /\ str' = "out" /\ at' \in {"value", "item"} /\ Emit("other")
        /\ UNCHANGED <<open, messages>> /\ open # << >>
        /\ (messages = "named" => at' = "value")
    BY <1>2, <1>10 DEF Separator
  <2>2. StrAfter("other")
    BY <2>1 DEF StrAfter
  <2>3. QED BY <1>1, <2>1, <2>2, TextStep
<1>11. CASE Space
  <2>1. str = "out" /\ str' = "out" /\ at' = at /\ Emit("space") /\ UNCHANGED <<open, messages>>
    BY <1>11 DEF Space, writerVars
  <2>2. StrAfter("space")
    BY <2>1 DEF StrAfter
  <2>3. QED BY <1>1, <1>2, <2>1, <2>2, TextStep
<1>12. CASE UNCHANGED scanVars
  <2> USE <1>12 DEF scanVars, writerVars
  <2>1. ScanTypeOK'
    BY DEF Lockstep, ScanTypeOK
  <2>2. Opened'
    BY DEF Lockstep, Opened
  <2>3. Finding'
    BY DEF Lockstep, Finding, Locals, Count, Places, In
  <2>4. Matching'
    BY DEF Lockstep, Matching, Written, Locals, Count, Places
  <2>5. QED BY <2>1, <2>2, <2>3, <2>4 DEF Lockstep
<1>13. QED BY <1>3, <1>4, <1>5, <1>6, <1>7, <1>8, <1>9, <1>10, <1>11, <1>12 DEF WriterStep

(***************************************************************************)
(* The response: Stream.                                                   *)
(***************************************************************************)

\* Bytes as they pass, and the tap.
Line == [what : {"event", "newline", "data", "half"}, event : Event]

Tap == [buf : Seq(Line), in : Nat, out : Nat, seen : BOOLEAN, reports : Seq(Nat)]

\* The first r lines of an event's frame.
Part(e, r) ==
  CASE r = 0 -> << >>
    [] r = 1 -> <<Byte("event", e)>>
    [] r = 2 -> <<Byte("event", e), NewLine>>
    [] r = 3 -> <<Byte("event", e), NewLine, Byte("data", e)>>
    [] r = 4 -> <<Byte("event", e), NewLine, Byte("data", e), NewLine>>

\* The events that count, of the first n.
Counted(ev, n) ==
  {i \in 1..n : ev[i].name = "message_start" \/ ev[i].out > 0}

\* A counted event's place among those.
Place(ev, n, i) == Cardinality({j \in Counted(ev, n) : j <= i})

Grow(reports) == \A i, j \in DOMAIN reports : i <= j => reports[i] <= reports[j]

\* A tap's totals and reports when it has seen the first n events.
Totals(ev, n, t) ==
  /\ Len(t.reports) = Cardinality(Counted(ev, n))
  /\ \A i \in Counted(ev, n) : t.reports[Place(ev, n, i)] = ev[1].in + ev[i].out
  /\ t.seen <=> Counted(ev, n) # {}
  /\ Counted(ev, n) = {} => t.in = 0
  /\ Counted(ev, n) # {} =>
       /\ t.in = ev[1].in
       /\ t.reports[Len(t.reports)] = t.in + t.out
       /\ \E i \in Counted(ev, n) : t.out = ev[i].out
  /\ Grow(t.reports)

\* The tap after n events and r lines of the next.
TapAt(ev, n, r, t) ==
  /\ t \in Tap
  /\ t.buf = Part(ev[n + 1], r)
  /\ Totals(ev, n, t)

\* The events of a stream, the last of which may say that it broke off.
Events(ev) ==
  /\ ev \in Seq(Event)
  /\ \A i \in 1..Len(ev) :
       /\ ev[i].name \in {"message_start", "message_delta", "ping", "error"}
       /\ ev[i].name = "message_start" => i = 1
       /\ ev[i].name = "message_delta" => i # 1
       /\ ev[i].name # "message_start" => ev[i].in = 0
       /\ ev[i].name \in {"ping", "error"} => ev[i].out = 0
  /\ \A i, j \in 1..Len(ev) : i < j /\ ev[j].out > 0 => ev[i].out <= ev[j].out

-----------------------------------------------------------------------------

LEMMA EventType ==
  /\ \A e \in Event : e.in \in Nat /\ e.out \in Nat
  /\ Silent("ping") \in Event /\ Silent("error") \in Event
  /\ NewLine \in Line
  /\ \A e \in Event : Byte("event", e) \in Line /\ Byte("data", e) \in Line /\ Byte("half", e) \in Line
<1>1. \A e \in Event : e.in \in Nat /\ e.out \in Nat
  <2> SUFFICES ASSUME NEW e \in Event PROVE e.in \in Nat /\ e.out \in Nat
    OBVIOUS
  <2>1. e.in \in Inputs \cup {0} /\ e.out \in Outputs \cup {0}
    BY DEF Event
  <2>2. Inputs \cup {0} \subseteq Nat /\ Outputs \cup {0} \subseteq Nat
    BY StreamAssumption
  <2> QED BY <2>1, <2>2
<1>2. Silent("ping") \in Event /\ Silent("error") \in Event
  BY DEF Event, Silent
<1>3. \A e \in Event, what \in {"event", "newline", "data", "half"} : Byte(what, e) \in Line
  BY DEF Byte, Line
<1> QED BY <1>1, <1>2, <1>3 DEF NewLine

LEMMA UsageType ==
  ASSUME NEW frame \in Seq(Line), Lines(frame, "data") # {}
  PROVE  Usage(frame) \in Event
<1>1. PICK line \in Lines(frame, "data") : Usage(frame) = line.event
  BY DEF Usage
<1>2. line \in Line
  BY DEF Lines
<1> QED BY <1>1, <1>2 DEF Line

LEMMA ReportType ==
  ASSUME NEW t \in Tap
  PROVE  /\ Report(t) \in Tap
         /\ Report(t).buf = t.buf /\ Report(t).in = t.in /\ Report(t).out = t.out
         /\ Report(t).seen = t.seen /\ Report(t).reports = Append(t.reports, t.in + t.out)
<1>1. t.in + t.out \in Nat
  BY DEF Tap
<1>2. Append(t.reports, t.in + t.out) \in Seq(Nat)
  BY <1>1 DEF Tap
<1> QED BY <1>2 DEF Tap, Report

LEMMA ProcessType ==
  ASSUME NEW t \in Tap, NEW frame \in Seq(Line)
  PROVE  ProcessFrame(t, frame) \in Tap /\ ProcessFrame(t, frame).buf = t.buf
<1> DEFINE e == Usage(frame)
           u == [t EXCEPT !.in = e.in, !.out = e.out, !.seen = TRUE]
           v == [t EXCEPT !.out = e.out, !.seen = TRUE]
<1>1. CASE Lines(frame, "data") = {}
  BY <1>1 DEF ProcessFrame
<1>2. CASE Lines(frame, "data") # {}
  <2>1. e.in \in Nat /\ e.out \in Nat
    BY <1>2, UsageType, EventType
  <2>2. u \in Tap /\ v \in Tap /\ u.buf = t.buf /\ v.buf = t.buf
    BY <2>1 DEF Tap
  <2>3. ProcessFrame(t, frame) \in {t, Report(u), Report(v)}
    BY <1>2 DEF ProcessFrame
  <2> HIDE DEF u, v
  <2> QED BY <2>2, <2>3, ReportType
<1> QED BY <1>1, <1>2

LEMMA ConsumeType ==
  ASSUME NEW t \in Tap, NEW byte \in Line
  PROVE  ConsumeFrames(t, byte) \in Tap
<1> DEFINE buf == Append(t.buf, byte)
           n == Len(buf)
           frame == SubSeq(buf, 1, n - 2)
           u == [t EXCEPT !.buf = << >>]
<1>1. buf \in Seq(Line) /\ n \in Nat
  BY DEF Tap
<1>2. u \in Tap /\ [t EXCEPT !.buf = buf] \in Tap
  <2>1. << >> \in Seq(Line)
    OBVIOUS
  <2> HIDE DEF buf
  <2> QED BY <1>1, <2>1 DEF Tap
<1>3. ConsumeFrames(t, byte) \in {ProcessFrame(u, frame), [t EXCEPT !.buf = buf]}
  BY DEF ConsumeFrames
<1>4. frame \in Seq(Line) \/ ConsumeFrames(t, byte) = [t EXCEPT !.buf = buf]
  <2>1. CASE n > 1
    <3>1. \A i \in 1..n - 2 : buf[i] \in Line
      BY <1>1
    <3> QED BY <1>1, <2>1, <3>1, SubSeqProperties
  <2>2. CASE ~(n > 1)
    BY <2>2 DEF ConsumeFrames
  <2> QED BY <2>1, <2>2
<1> HIDE DEF u, frame, buf
<1> QED BY <1>2, <1>3, <1>4, ProcessType

\* Consumed gives the tap one byte after another.
LEMMA ConsumedRun ==
  ASSUME NEW t \in Tap, NEW bytes \in Seq(Line)
  PROVE  \E run \in [0..Len(bytes) -> Tap] :
           /\ run[0] = t
           /\ \A i \in 1..Len(bytes) : run[i] = ConsumeFrames(run[i - 1], bytes[i])
           /\ Consumed(t, bytes) = run[Len(bytes)]
<1> DEFINE step == [x \in Tap |-> [e \in Line |-> ConsumeFrames(x, e)]]
           n == Len(bytes)
           Is(g) == g = [i \in 0..n |-> IF i = 0 THEN t ELSE ConsumeFrames(g[i - 1], bytes[i])]
<1>0. n \in Nat
  OBVIOUS
<1>1. \A x \in Tap : \A e \in Line : step[x][e] \in Tap
  BY ConsumeType
<1>2. PICK g \in [0..n -> Tap] :
        /\ g[0] = t
        /\ \A i \in 1..n : g[i] = step[g[i - 1]][bytes[i]]
  <2> HIDE DEF step, n, Is
  <2>1. RunsOf(Tap, step, t, bytes) # {}
    BY <1>1, Recursion
  <2> QED BY <2>1 DEF RunsOf, n
<1>3. ASSUME NEW i \in 1..n
      PROVE  step[g[i - 1]][bytes[i]] = ConsumeFrames(g[i - 1], bytes[i])
  <2>1. g[i - 1] \in Tap /\ bytes[i] \in Line
    BY <1>0
  <2> QED BY <2>1
<1>4. \A i \in 1..n : g[i] = ConsumeFrames(g[i - 1], bytes[i])
  <2> HIDE DEF step
  <2> QED BY <1>2, <1>3
<1>5. Is(g)
  <2>1. ASSUME NEW i \in 0..n
        PROVE  g[i] = IF i = 0 THEN t ELSE ConsumeFrames(g[i - 1], bytes[i])
    <3>1. CASE i = 0
      <4>1. g[0] = t
        BY <1>2
      <4> QED BY <3>1, <4>1
    <3>2. CASE i # 0
      <4>1. i \in 1..n
        BY <1>0, <3>2
      <4> QED BY <1>4, <3>2, <4>1
    <3> QED BY <3>1, <3>2
  <2>2. g = [i \in 0..n |-> g[i]]
    BY <1>2
  <2> QED BY <2>1, <2>2
<1>6. PICK run : Is(run) /\ Consumed(t, bytes) = run[n]
  <2>1. Consumed(t, bytes) = (CHOOSE h : Is(h))[n]
    BY DEF Consumed
  <2> HIDE DEF Is
  <2> QED BY <1>5, <2>1
<1>7. \A i \in 0..n : run[i] = IF i = 0 THEN t ELSE ConsumeFrames(run[i - 1], bytes[i])
  BY <1>6
<1>8. \A i \in 0..n : run[i] = g[i]
  <2> DEFINE Differ == {i \in 0..n : run[i] # g[i]}
  <2> SUFFICES ASSUME Differ # {} PROVE FALSE
    OBVIOUS
  <2>1. PICK m \in Differ : \A i \in Differ : m <= i
    <3>1. Differ \subseteq Nat
      OBVIOUS
    <3> HIDE DEF Differ
    <3> QED BY <3>1, Smallest
  <2>2. m \in 0..n /\ run[m] # g[m]
    OBVIOUS
  <2>3. m # 0
    BY <1>0, <1>2, <1>7, <2>2
  <2>4. m - 1 \in 0..n /\ m - 1 \notin Differ
    <3> HIDE DEF Differ
    <3>1. m - 1 \in 0..n /\ ~(m <= m - 1)
      BY <1>0, <2>2, <2>3
    <3> QED BY <2>1, <3>1
  <2>5. run[m - 1] = g[m - 1]
    BY <2>4
  <2> QED BY <1>0, <1>4, <1>7, <2>2, <2>3, <2>5
<1>9. run = g
  <2>1. run = [i \in 0..n |-> run[i]]
    <3>1. run = [i \in 0..n |-> IF i = 0 THEN t ELSE ConsumeFrames(run[i - 1], bytes[i])]
      BY <1>6
    <3> QED BY <1>7, <3>1
  <2> QED BY <1>2, <1>8, <2>1
<1> QED BY <1>2, <1>4, <1>6, <1>9

-----------------------------------------------------------------------------

LEMMA CountedFinite ==
  ASSUME NEW ev, NEW n \in Nat
  PROVE  /\ IsFiniteSet(Counted(ev, n)) /\ Counted(ev, n) \subseteq 1..n
         /\ Cardinality(Counted(ev, n)) \in 0..n
         /\ \A i \in Counted(ev, n) : Place(ev, n, i) \in 1..Cardinality(Counted(ev, n))
<1>1. IsFiniteSet(1..n) /\ Cardinality(1..n) = n
  <2>1. 1 \in Int /\ n \in Int
    OBVIOUS
  <2> QED BY <2>1, FS_Interval
<1>2. Counted(ev, n) \subseteq 1..n
  BY DEF Counted
<1>3. IsFiniteSet(Counted(ev, n)) /\ Cardinality(Counted(ev, n)) <= n
  BY <1>1, <1>2, FS_Subset
<1>4. Cardinality(Counted(ev, n)) \in Nat
  BY <1>3, FS_CardinalityType
<1>5. ASSUME NEW i \in Counted(ev, n)
      PROVE  Place(ev, n, i) \in 1..Cardinality(Counted(ev, n))
  <2> DEFINE upTo == {j \in Counted(ev, n) : j <= i}
  <2>1. upTo \subseteq Counted(ev, n) /\ i \in upTo
    BY <1>2
  <2>2. IsFiniteSet(upTo) /\ Cardinality(upTo) <= Cardinality(Counted(ev, n))
    BY <1>3, <2>1, FS_Subset
  <2>3. Cardinality(upTo) \in Nat /\ Cardinality(upTo) # 0
    <3> HIDE DEF upTo
    <3> QED BY <2>1, <2>2, FS_CardinalityType, FS_EmptySet
  <2> QED BY <1>4, <2>2, <2>3 DEF Place
<1> QED BY <1>2, <1>3, <1>4, <1>5

\* One more event, which counts or not.
LEMMA CountedNext ==
  ASSUME NEW ev, NEW n \in Nat
  PROVE  LET counts == ev[n + 1].name = "message_start" \/ ev[n + 1].out > 0
             m == Cardinality(Counted(ev, n))
         IN  /\ ~counts => Counted(ev, n + 1) = Counted(ev, n)
             /\ counts => /\ Counted(ev, n + 1) = Counted(ev, n) \cup {n + 1}
                          /\ Cardinality(Counted(ev, n + 1)) = m + 1
                          /\ Place(ev, n + 1, n + 1) = m + 1
             /\ n + 1 \notin Counted(ev, n)
             /\ \A i \in Counted(ev, n) : Place(ev, n + 1, i) = Place(ev, n, i)
<1> DEFINE counts == ev[n + 1].name = "message_start" \/ ev[n + 1].out > 0
           m == Cardinality(Counted(ev, n))
<1>1. 1..n + 1 = (1..n) \cup {n + 1} /\ n + 1 \notin 1..n
  OBVIOUS
<1>2. ~counts => Counted(ev, n + 1) = Counted(ev, n)
  BY <1>1 DEF Counted
<1>3. counts => Counted(ev, n + 1) = Counted(ev, n) \cup {n + 1}
  BY <1>1 DEF Counted
<1>4. n + 1 \notin Counted(ev, n)
  BY <1>1 DEF Counted
<1>5. counts => Cardinality(Counted(ev, n + 1)) = m + 1
  BY <1>3, <1>4, CountedFinite, FS_AddElement
<1>6. counts => Place(ev, n + 1, n + 1) = m + 1
  <2> SUFFICES ASSUME counts PROVE Place(ev, n + 1, n + 1) = m + 1
    OBVIOUS
  <2>1. Counted(ev, n + 1) \subseteq 1..n + 1
    BY CountedFinite
  <2>2. \A j \in Counted(ev, n + 1) : j <= n + 1
    BY <2>1
  <2>3. {j \in Counted(ev, n + 1) : j <= n + 1} = Counted(ev, n + 1)
    BY <2>2
  <2> QED BY <1>5, <2>3 DEF Place
<1>7. ASSUME NEW i \in Counted(ev, n)
      PROVE  Place(ev, n + 1, i) = Place(ev, n, i)
  <2>1. i \in 1..n
    BY CountedFinite
  <2>2. ~(n + 1 <= i)
    BY <2>1
  <2>3. {j \in Counted(ev, n + 1) : j <= i} = {j \in Counted(ev, n) : j <= i}
    BY <1>2, <1>3, <2>2
  <2> QED BY <2>3 DEF Place
<1> QED BY <1>2, <1>3, <1>4, <1>5, <1>6, <1>7

LEMMA TotalsSame ==
  ASSUME NEW ev, NEW n \in Nat, NEW t, Totals(ev, n, t),
         ~(ev[n + 1].name = "message_start" \/ ev[n + 1].out > 0)
  PROVE  Totals(ev, n + 1, t)
<1>1. Counted(ev, n + 1) = Counted(ev, n)
      /\ \A i \in Counted(ev, n) : Place(ev, n + 1, i) = Place(ev, n, i)
  BY CountedNext
<1> QED BY <1>1 DEF Totals

LEMMA TotalsNext ==
  ASSUME NEW ev, NEW n \in Nat, NEW t \in Tap, Totals(ev, n, t), NEW u \in Tap,
         ev[n + 1].name = "message_start" \/ ev[n + 1].out > 0,
         u.seen, u.in = ev[1].in, u.out = ev[n + 1].out,
         u.reports = Append(t.reports, u.in + u.out),
         Counted(ev, n) # {} => t.in + t.out <= u.in + u.out
  PROVE  Totals(ev, n + 1, u)
<1> DEFINE C == Counted(ev, n)
           m == Cardinality(C)
           total == u.in + u.out
<1>1. Counted(ev, n + 1) = C \cup {n + 1} /\ Cardinality(Counted(ev, n + 1)) = m + 1
      /\ Place(ev, n + 1, n + 1) = m + 1 /\ n + 1 \notin C
      /\ \A i \in C : Place(ev, n + 1, i) = Place(ev, n, i)
  BY CountedNext
<1>2. m \in Nat /\ \A i \in C : Place(ev, n, i) \in 1..m
  BY CountedFinite
<1>3. t.reports \in Seq(Nat) /\ Len(t.reports) = m /\ total \in Nat
  BY DEF Tap, Totals
<1>4. /\ Len(u.reports) = m + 1 /\ u.reports[m + 1] = total
      /\ \A k \in 1..m : u.reports[k] = t.reports[k]
  BY <1>3
<1>5. \A i \in C : u.reports[Place(ev, n + 1, i)] = ev[1].in + ev[i].out
  BY <1>1, <1>2, <1>4 DEF Totals
<1>6. u.reports[Place(ev, n + 1, n + 1)] = ev[1].in + ev[n + 1].out
  BY <1>1, <1>4
<1>7. Grow(u.reports)
  <2>1. \A k \in 1..m : t.reports[k] <= total
    <3> SUFFICES ASSUME NEW k \in 1..m PROVE t.reports[k] <= total
      OBVIOUS
    <3>1. C # {}
      <4>1. m # 0
        BY <1>2
      <4> QED BY <4>1, FS_EmptySet
    <3>2. t.reports[m] = t.in + t.out /\ t.in + t.out <= total
      BY <1>3, <3>1 DEF Totals
    <3>3. k <= m /\ m \in 1..m
      BY <1>2
    <3>4. t.reports[k] <= t.reports[m]
      BY <1>3, <3>3 DEF Totals, Grow
    <3>5. t.reports[k] \in Nat /\ t.reports[m] \in Nat
      BY <1>3, <3>3
    <3> QED BY <1>3, <3>2, <3>4, <3>5
  <2> SUFFICES ASSUME NEW i \in DOMAIN u.reports, NEW j \in DOMAIN u.reports, i <= j
               PROVE  u.reports[i] <= u.reports[j]
    BY DEF Grow
  <2>2. i \in 1..m + 1 /\ j \in 1..m + 1 /\ i \in Nat /\ j \in Nat
    <3>1. DOMAIN u.reports = 1..m + 1
      BY <1>2, <1>4 DEF Tap
    <3> QED BY <1>2, <3>1
  <2>3. CASE j = m + 1
    <3>1. i = m + 1 \/ i \in 1..m
      BY <1>2, <2>2
    <3>2. u.reports[j] = total
      BY <1>4, <2>3
    <3>3. CASE i = m + 1
      BY <1>3, <1>4, <3>2, <3>3
    <3>4. CASE i \in 1..m
      BY <1>4, <2>1, <3>2, <3>4
    <3> QED BY <3>1, <3>3, <3>4
  <2>4. CASE j # m + 1
    <3>1. i \in 1..m /\ j \in 1..m
      BY <1>2, <2>2, <2>4
    <3>2. i \in DOMAIN t.reports /\ j \in DOMAIN t.reports
      BY <1>3, <3>1
    <3>3. t.reports[i] <= t.reports[j]
      BY <3>2 DEF Totals, Grow
    <3> QED BY <1>4, <3>1, <3>3
  <2> QED BY <2>3, <2>4
<1>8. u.reports[Len(u.reports)] = u.in + u.out
  BY <1>4
<1>9. n + 1 \in Counted(ev, n + 1)
  BY <1>1
<1> QED BY <1>1, <1>4, <1>5, <1>6, <1>7, <1>8, <1>9 DEF Totals

-----------------------------------------------------------------------------

\* What processFrameLocked makes of an event's frame.
LEMMA ProcessEvent ==
  ASSUME NEW t \in Tap, NEW e \in Event
  PROVE  LET f == <<Byte("event", e), NewLine, Byte("data", e)>>
         IN  /\ e.name = "message_start" =>
                  ProcessFrame(t, f) = Report([t EXCEPT !.in = e.in, !.out = e.out, !.seen = TRUE])
             /\ e.name = "message_delta" /\ e.out > 0 =>
                  ProcessFrame(t, f) = Report([t EXCEPT !.out = e.out, !.seen = TRUE])
             /\ e.name # "message_start" /\ ~(e.name = "message_delta" /\ e.out > 0) =>
                  ProcessFrame(t, f) = t
<1> DEFINE f == <<Byte("event", e), NewLine, Byte("data", e)>>
<1>1. DOMAIN f = {1, 2, 3} /\ f[1] = Byte("event", e) /\ f[2] = NewLine /\ f[3] = Byte("data", e)
  <2>1. DOMAIN f = 1..3
    OBVIOUS
  <2> QED BY <2>1
<1>2. /\ f[1].what = "event" /\ f[1].event = e
      /\ f[2].what = "newline"
      /\ f[3].what = "data" /\ f[3].event = e
  BY <1>1 DEF Byte, NewLine
<1> HIDE DEF f
<1>3. {j \in DOMAIN f : f[j].what = "data"} = {3} /\ {j \in DOMAIN f : f[j].what = "event"} = {1}
  BY <1>1, <1>2
<1>4. Lines(f, "data") = {f[3]} /\ Lines(f, "event") = {f[1]}
  BY <1>3 DEF Lines
<1>5. Usage(f) = e
  <2>1. (CHOOSE line \in Lines(f, "data") : TRUE) = f[3]
    BY <1>4
  <2> QED BY <1>2, <2>1 DEF Usage
<1>6. \A name : Named(f, name) <=> e.name = name
  BY <1>2, <1>4 DEF Named
<1>7. Lines(f, "data") # {}
  BY <1>4
<1> QED BY <1>5, <1>6, <1>7 DEF ProcessFrame, Counts, f

\* A frame that is whole is counted if it counts.
LEMMA FrameEnds ==
  ASSUME NEW ev, Events(ev), NEW n \in Nat, n < Len(ev), NEW t \in Tap, Totals(ev, n, t)
  PROVE  LET e == ev[n + 1]
             f == <<Byte("event", e), NewLine, Byte("data", e)>>
         IN  Totals(ev, n + 1, ProcessFrame(t, f)) /\ ProcessFrame(t, f) \in Tap
<1> DEFINE e == ev[n + 1]
           f == <<Byte("event", e), NewLine, Byte("data", e)>>
           u == [t EXCEPT !.in = e.in, !.out = e.out, !.seen = TRUE]
           v == [t EXCEPT !.out = e.out, !.seen = TRUE]
<1> SUFFICES Totals(ev, n + 1, ProcessFrame(t, f)) /\ ProcessFrame(t, f) \in Tap
  OBVIOUS
<1>1. n + 1 \in 1..Len(ev) /\ 1 \in 1..Len(ev) /\ e \in Event /\ ev[1] \in Event
  BY DEF Events
<1>2. /\ e.name \in {"message_start", "message_delta", "ping", "error"}
      /\ e.name = "message_start" => n + 1 = 1
      /\ e.name = "message_delta" => n + 1 # 1
      /\ e.name \in {"ping", "error"} => e.out = 0
  BY <1>1 DEF Events
<1>3. e.in \in Nat /\ e.out \in Nat
  BY <1>1, EventType
<1>4. u \in Tap /\ v \in Tap
  BY <1>3 DEF Tap
<1>5. /\ u.in = e.in /\ u.out = e.out /\ u.seen = TRUE /\ u.reports = t.reports
      /\ v.in = t.in /\ v.out = e.out /\ v.seen = TRUE /\ v.reports = t.reports
  BY DEF Tap
<1>6. Counted(ev, 0) = {}
  <2>1. 1..0 = {}
    OBVIOUS
  <2> QED BY <2>1 DEF Counted
<1>7. CASE e.name = "message_start"
  <2>1. n = 0
    BY <1>2, <1>7
  <2>2. ProcessFrame(t, f) = Report(u)
    BY <1>1, <1>7, ProcessEvent
  <2> HIDE DEF u, v, f
  <2>3. Report(u) \in Tap /\ Report(u).seen /\ Report(u).in = ev[1].in
        /\ Report(u).out = e.out /\ Report(u).reports = Append(t.reports, u.in + u.out)
    BY <1>4, <1>5, <2>1, ReportType
  <2>4. Counted(ev, n) = {}
    BY <1>6, <2>1
  <2>5. Report(u).in + Report(u).out = u.in + u.out
    BY <1>4, ReportType
  <2>6. Totals(ev, n + 1, Report(u))
    BY <1>7, <2>3, <2>4, <2>5, TotalsNext
  <2> QED BY <2>2, <2>3, <2>6
<1>8. CASE e.name = "message_delta" /\ e.out > 0
  <2>1. ProcessFrame(t, f) = Report(v)
    BY <1>1, <1>8, ProcessEvent
  <2>2. Counted(ev, n) = {} => ev[1].in = 0
    <3>1. 1 \in 1..n
      BY <1>2, <1>8
    <3>2. Counted(ev, n) = {} => ev[1].name # "message_start"
      BY <3>1 DEF Counted
    <3> QED BY <1>1, <3>2 DEF Events
  <2>3. t.in = ev[1].in
    BY <2>2 DEF Totals
  <2>4. Counted(ev, n) # {} => t.out <= e.out
    <3> SUFFICES ASSUME Counted(ev, n) # {} PROVE t.out <= e.out
      OBVIOUS
    <3>1. PICK i \in Counted(ev, n) : t.out = ev[i].out
      BY DEF Totals
    <3>2. i \in 1..n
      BY CountedFinite
    <3>3. i \in 1..Len(ev) /\ i < n + 1
      BY <1>1, <3>2 DEF Events
    <3>4. ev[i].out <= e.out
      BY <1>1, <1>8, <3>3 DEF Events
    <3> QED BY <3>1, <3>4
  <2> HIDE DEF u, v, f
  <2>5. Report(v) \in Tap /\ Report(v).seen /\ Report(v).in = ev[1].in
        /\ Report(v).out = e.out /\ Report(v).reports = Append(t.reports, v.in + v.out)
    BY <1>4, <1>5, <2>3, ReportType
  <2>6. Report(v).in + Report(v).out = v.in + v.out
    BY <1>4, ReportType
  <2>7. Counted(ev, n) # {} => t.in + t.out <= Report(v).in + Report(v).out
    <3>1. t.in \in Nat /\ t.out \in Nat
      BY DEF Tap
    <3> QED BY <1>3, <2>3, <2>4, <2>5, <3>1
  <2>8. Totals(ev, n + 1, Report(v))
    BY <1>8, <2>5, <2>6, <2>7, TotalsNext
  <2> QED BY <2>1, <2>5, <2>8
<1>9. CASE e.name # "message_start" /\ ~(e.name = "message_delta" /\ e.out > 0)
  <2>1. ProcessFrame(t, f) = t
    BY <1>1, <1>9, ProcessEvent
  <2>2. ~(e.name = "message_start" \/ e.out > 0)
    BY <1>2, <1>3, <1>9
  <2> HIDE DEF e
  <2>3. Totals(ev, n + 1, t)
    BY <2>2, TotalsSame DEF e
  <2> QED BY <2>1, <2>3
<1> QED BY <1>7, <1>8, <1>9

-----------------------------------------------------------------------------

\* One line more, which may end a frame.
LEMMA Appends ==
  ASSUME NEW S, NEW a \in S, NEW b \in S, NEW c \in S, NEW d \in S, NEW x \in S
  PROVE  /\ Append(<< >>, a) = <<a>>
         /\ Append(<<a>>, b) = <<a, b>>
         /\ Append(<<a, b>>, c) = <<a, b, c>>
         /\ Append(<<a, b, c>>, d) = <<a, b, c, d>>
         /\ Append(<<a, b, c, d>>, x) = <<a, b, c, d, x>>
         /\ SubSeq(<<a, b, c, d, x>>, 1, 3) = <<a, b, c>>
<1>1. Append(<< >>, a) = <<a>>
  OBVIOUS
<1>2. Append(<<a>>, b) = <<a, b>>
  <2> DEFINE p == Append(<<a>>, b)
             q == <<a, b>>
  <2>1. p \in Seq(S) /\ q \in Seq(S) /\ Len(p) = 2 /\ Len(q) = 2
    OBVIOUS
  <2>2. p[1] = a /\ q[1] = a /\ p[2] = b /\ q[2] = b
    OBVIOUS
  <2> HIDE DEF p, q
  <2>3. \A i \in 1..Len(p) : p[i] = q[i]
    BY <2>1, <2>2
  <2>4. p = q
    BY <2>1, <2>3, SeqEqual
  <2> QED BY <2>4 DEF p, q
<1>3. Append(<<a, b>>, c) = <<a, b, c>>
  <2> DEFINE p == Append(<<a, b>>, c)
             q == <<a, b, c>>
  <2>1. p \in Seq(S) /\ q \in Seq(S) /\ Len(p) = 3 /\ Len(q) = 3
    OBVIOUS
  <2>2. p[1] = a /\ q[1] = a /\ p[2] = b /\ q[2] = b /\ p[3] = c /\ q[3] = c
    OBVIOUS
  <2> HIDE DEF p, q
  <2>3. \A i \in 1..Len(p) : p[i] = q[i]
    BY <2>1, <2>2
  <2>4. p = q
    BY <2>1, <2>3, SeqEqual
  <2> QED BY <2>4 DEF p, q
<1>4. Append(<<a, b, c>>, d) = <<a, b, c, d>>
  <2> DEFINE p == Append(<<a, b, c>>, d)
             q == <<a, b, c, d>>
  <2>1. p \in Seq(S) /\ q \in Seq(S) /\ Len(p) = 4 /\ Len(q) = 4
    OBVIOUS
  <2>2. p[1] = a /\ q[1] = a /\ p[2] = b /\ q[2] = b /\ p[3] = c /\ q[3] = c /\ p[4] = d /\ q[4] = d
    OBVIOUS
  <2> HIDE DEF p, q
  <2>3. \A i \in 1..Len(p) : p[i] = q[i]
    BY <2>1, <2>2
  <2>4. p = q
    BY <2>1, <2>3, SeqEqual
  <2> QED BY <2>4 DEF p, q
<1>5. Append(<<a, b, c, d>>, x) = <<a, b, c, d, x>>
  <2> DEFINE p == Append(<<a, b, c, d>>, x)
             q == <<a, b, c, d, x>>
  <2>1. p \in Seq(S) /\ q \in Seq(S) /\ Len(p) = 5 /\ Len(q) = 5
    OBVIOUS
  <2>2. p[1] = a /\ q[1] = a /\ p[2] = b /\ q[2] = b /\ p[3] = c /\ q[3] = c /\ p[4] = d /\ q[4] = d /\ p[5] = x /\ q[5] = x
    OBVIOUS
  <2> HIDE DEF p, q
  <2>3. \A i \in 1..Len(p) : p[i] = q[i]
    BY <2>1, <2>2
  <2>4. p = q
    BY <2>1, <2>3, SeqEqual
  <2> QED BY <2>4 DEF p, q
<1>6. SubSeq(<<a, b, c, d, x>>, 1, 3) = <<a, b, c>>
  <2> DEFINE s == <<a, b, c, d, x>>
             p == SubSeq(s, 1, 3)
             q == <<a, b, c>>
  <2>1. s \in Seq(S) /\ Len(s) = 5 /\ s[1] = a /\ s[2] = b /\ s[3] = c
    OBVIOUS
  <2>2. q \in Seq(S) /\ Len(q) = 3 /\ q[1] = a /\ q[2] = b /\ q[3] = c
    OBVIOUS
  <2> HIDE DEF s, q
  <2>3. p \in Seq(S) /\ Len(p) = 3 /\ p[1] = s[1] /\ p[2] = s[2] /\ p[3] = s[3]
    BY <2>1
  <2> HIDE DEF p
  <2>4. \A i \in 1..Len(p) : p[i] = q[i]
    BY <2>1, <2>2, <2>3
  <2>5. p = q
    BY <2>2, <2>3, <2>4, SeqEqual
  <2> QED BY <2>5 DEF p, q, s
<1> QED BY <1>1, <1>2, <1>3, <1>4, <1>5, <1>6

LEMMA LineTaken ==
  ASSUME NEW ev, Events(ev), NEW n \in Nat, n < Len(ev), NEW r \in 0..4,
         NEW t, TapAt(ev, n, r, t)
  PROVE  LET u == ConsumeFrames(t, Frame(ev[n + 1])[r + 1])
         IN  IF r = 4 THEN TapAt(ev, n + 1, 0, u) ELSE TapAt(ev, n, r + 1, u)
<1> DEFINE e == ev[n + 1]
           b1 == Byte("event", e)
           b3 == Byte("data", e)
           frame == <<b1, NewLine, b3, NewLine, NewLine>>
           u == ConsumeFrames(t, frame[r + 1])
           buf == Append(t.buf, frame[r + 1])
<1> SUFFICES IF r = 4 THEN TapAt(ev, n + 1, 0, u) ELSE TapAt(ev, n, r + 1, u)
  BY DEF Frame
<1>1. e \in Event
  BY DEF Events
<1>2. b1 # NewLine /\ b3 # NewLine
  BY DEF Byte, NewLine
<1>3. t \in Tap /\ Totals(ev, n, t) /\ t.buf = Part(e, r)
  BY DEF TapAt
<1>4. b1 \in Line /\ b3 \in Line /\ NewLine \in Line
  BY <1>1, EventType
<1>5. frame[1] = b1 /\ frame[2] = NewLine /\ frame[3] = b3 /\ frame[4] = NewLine /\ frame[5] = NewLine
  OBVIOUS
<1> HIDE DEF e, b1, b3
<1>6. /\ Append(<< >>, b1) = <<b1>>
       /\ Append(<<b1>>, NewLine) = <<b1, NewLine>>
       /\ Append(<<b1, NewLine>>, b3) = <<b1, NewLine, b3>>
       /\ Append(<<b1, NewLine, b3>>, NewLine) = <<b1, NewLine, b3, NewLine>>
       /\ Append(<<b1, NewLine, b3, NewLine>>, NewLine) = <<b1, NewLine, b3, NewLine, NewLine>>
       /\ SubSeq(<<b1, NewLine, b3, NewLine, NewLine>>, 1, 3) = <<b1, NewLine, b3>>
  <2> HIDE DEF frame
  <2> QED BY <1>4, Appends
<1> HIDE DEF frame
<1>7. Part(e, 0) = << >> /\ Part(e, 1) = <<b1>> /\ Part(e, 2) = <<b1, NewLine>>
       /\ Part(e, 3) = <<b1, NewLine, b3>> /\ Part(e, 4) = <<b1, NewLine, b3, NewLine>>
  BY DEF Part, b1, b3
<1>8. ASSUME NEW b \in Seq(Line)
      PROVE  [t EXCEPT !.buf = b] \in Tap /\ [t EXCEPT !.buf = b].buf = b
             /\ Totals(ev, n, [t EXCEPT !.buf = b])
  <2>1. LET v == [t EXCEPT !.buf = b]
        IN  v \in Tap /\ v.buf = b /\ v.in = t.in /\ v.out = t.out /\ v.seen = t.seen /\ v.reports = t.reports
    BY <1>3 DEF Tap
  <2> QED BY <1>3, <2>1 DEF Totals
<1>9. ASSUME NEW b \in Seq(Line), buf = b, r # 4, b = Part(e, r + 1),
             ~(Len(b) > 1 /\ b[Len(b)] = NewLine /\ b[Len(b) - 1] = NewLine)
      PROVE  TapAt(ev, n, r + 1, u)
  <2>1. u = [t EXCEPT !.buf = b]
    BY <1>9 DEF ConsumeFrames
  <2> HIDE DEF u, buf
  <2> QED BY <1>8, <1>9, <2>1 DEF TapAt, e
<1>10. CASE r = 0
  <2>1. buf = <<b1>>
    <3>1. r + 1 = 1
      BY <1>10
    <3>2. t.buf = << >> /\ frame[r + 1] = b1
      BY <1>3, <1>5, <1>7, <1>10, <3>1
    <3> QED BY <1>6, <3>2
  <2>2. <<b1>> = Part(e, r + 1) /\ ~(Len(<<b1>>) > 1) /\ <<b1>> \in Seq(Line)
    BY <1>4, <1>7, <1>10
  <2>3. r # 4
    BY <1>10
  <2> HIDE DEF u, buf
  <2> QED BY <1>9, <2>1, <2>2, <2>3
<1>11. CASE r = 1
  <2> DEFINE b == <<b1, NewLine>>
  <2>1. buf = b
    <3>1. r + 1 = 2
      BY <1>11
    <3>2. t.buf = <<b1>> /\ frame[r + 1] = NewLine
      BY <1>3, <1>5, <1>7, <1>11, <3>1
    <3> QED BY <1>6, <3>2
  <2>2. b = Part(e, r + 1) /\ Len(b) = 2 /\ b[1] = b1 /\ b \in Seq(Line)
    BY <1>4, <1>7, <1>11
  <2> HIDE DEF u, buf, b
  <2> QED BY <1>2, <1>9, <1>11, <2>1, <2>2
<1>12. CASE r = 2
  <2> DEFINE b == <<b1, NewLine, b3>>
  <2>1. buf = b
    <3>1. r + 1 = 3
      BY <1>12
    <3>2. t.buf = <<b1, NewLine>> /\ frame[r + 1] = b3
      BY <1>3, <1>5, <1>7, <1>12, <3>1
    <3> QED BY <1>6, <3>2
  <2>2. b = Part(e, r + 1) /\ Len(b) = 3 /\ b[3] = b3 /\ b \in Seq(Line)
    BY <1>4, <1>7, <1>12
  <2> HIDE DEF u, buf, b
  <2> QED BY <1>2, <1>9, <1>12, <2>1, <2>2
<1>13. CASE r = 3
  <2> DEFINE b == <<b1, NewLine, b3, NewLine>>
  <2>1. buf = b
    <3>1. r + 1 = 4
      BY <1>13
    <3>2. t.buf = <<b1, NewLine, b3>> /\ frame[r + 1] = NewLine
      BY <1>3, <1>5, <1>7, <1>13, <3>1
    <3> QED BY <1>6, <3>2
  <2>2. b = Part(e, r + 1) /\ Len(b) = 4 /\ b[3] = b3 /\ b \in Seq(Line)
    BY <1>4, <1>7, <1>13
  <2> HIDE DEF u, buf, b
  <2> QED BY <1>2, <1>9, <1>13, <2>1, <2>2
<1>14. CASE r = 4
  <2> DEFINE b == <<b1, NewLine, b3, NewLine, NewLine>>
             f == <<b1, NewLine, b3>>
             v == [t EXCEPT !.buf = << >>]
  <2>1. buf = b
    <3>1. r + 1 = 5
      BY <1>14
    <3>2. t.buf = <<b1, NewLine, b3, NewLine>> /\ frame[r + 1] = NewLine
      BY <1>3, <1>5, <1>7, <1>14, <3>1
    <3> QED BY <1>6, <3>2
  <2>2. Len(b) = 5 /\ b[5] = NewLine /\ b[4] = NewLine /\ SubSeq(b, 1, 3) = f
    BY <1>6
  <2>3. u = ProcessFrame(v, f)
    <3>1. u = IF Len(buf) > 1 /\ buf[Len(buf)] = NewLine /\ buf[Len(buf) - 1] = NewLine
                THEN ProcessFrame(v, SubSeq(buf, 1, Len(buf) - 2))
                ELSE [t EXCEPT !.buf = buf]
      BY DEF ConsumeFrames
    <3> HIDE DEF b, f, v, buf, u
    <3>2. Len(buf) = 5 /\ Len(buf) - 1 = 4 /\ Len(buf) - 2 = 3
      BY <2>1, <2>2
    <3>3. Len(buf) > 1 /\ buf[Len(buf)] = NewLine /\ buf[Len(buf) - 1] = NewLine
      BY <2>1, <2>2, <3>2
    <3>4. SubSeq(buf, 1, Len(buf) - 2) = f
      BY <2>1, <2>2, <3>2
    <3> QED BY <3>1, <3>3, <3>4
  <2>4. v \in Tap /\ v.buf = << >> /\ Totals(ev, n, v)
    <3>1. << >> \in Seq(Line)
      OBVIOUS
    <3> HIDE DEF u, buf
    <3> QED BY <1>8, <3>1
  <2> HIDE DEF u, buf, v, f, b
  <2>5. Totals(ev, n + 1, u) /\ u \in Tap
    BY <2>3, <2>4, FrameEnds DEF f, b1, b3, e
  <2>6. u.buf = << >>
    <3>1. f \in Seq(Line)
      BY <1>4 DEF f
    <3> QED BY <2>3, <2>4, <3>1, ProcessType
  <2>7. TapAt(ev, n + 1, 0, u)
    BY <2>5, <2>6 DEF TapAt, Part
  <2> QED BY <1>14, <2>7
<1> QED BY <1>10, <1>11, <1>12, <1>13, <1>14

\* The tap when k bytes of a stream have passed, and the k-th byte.
At(ev, k, t) == TapAt(ev, k \div 5, k % 5, t)

Sent(ev, k) == Frame(ev[((k - 1) \div 5) + 1])[((k - 1) % 5) + 1]

LEMMA Fifths ==
  ASSUME NEW k \in Nat
  PROVE  /\ k \div 5 \in Nat /\ k % 5 \in 0..4 /\ k = 5 * (k \div 5) + (k % 5)
         /\ IF k % 5 = 4 THEN (k + 1) \div 5 = (k \div 5) + 1 /\ (k + 1) % 5 = 0
                         ELSE (k + 1) \div 5 = k \div 5 /\ (k + 1) % 5 = (k % 5) + 1
OBVIOUS

LEMMA ByteTaken ==
  ASSUME NEW ev, Events(ev), NEW k \in Nat, k < 5 * Len(ev), NEW t, At(ev, k, t)
  PROVE  At(ev, k + 1, ConsumeFrames(t, Sent(ev, k + 1)))
<1> DEFINE n == k \div 5
           r == k % 5
           u == ConsumeFrames(t, Frame(ev[n + 1])[r + 1])
<1>1. n \in Nat /\ r \in 0..4 /\ k = 5 * n + r
      /\ IF r = 4 THEN (k + 1) \div 5 = n + 1 /\ (k + 1) % 5 = 0
                  ELSE (k + 1) \div 5 = n /\ (k + 1) % 5 = r + 1
  BY Fifths
<1>2. Len(ev) \in Nat
  BY DEF Events
<1> HIDE DEF n, r
<1>3. n < Len(ev)
  BY <1>1, <1>2
<1>4. TapAt(ev, n, r, t)
  BY DEF At, n, r
<1>5. IF r = 4 THEN TapAt(ev, n + 1, 0, u) ELSE TapAt(ev, n, r + 1, u)
  BY <1>1, <1>3, <1>4, LineTaken
<1>6. Sent(ev, k + 1) = Frame(ev[n + 1])[r + 1]
  <2>1. k + 1 - 1 = k
    OBVIOUS
  <2> QED BY <2>1 DEF Sent, n, r
<1> HIDE DEF u
<1>7. At(ev, k + 1, u)
  BY <1>1, <1>5 DEF At
<1> QED BY <1>6, <1>7 DEF u

\* Any bytes more, in one write.
LEMMA BytesTaken ==
  ASSUME NEW ev, Events(ev), NEW k \in Nat, NEW t, At(ev, k, t),
         NEW bytes \in Seq(Line), k + Len(bytes) <= 5 * Len(ev),
         \A i \in 1..Len(bytes) : bytes[i] = Sent(ev, k + i)
  PROVE  At(ev, k + Len(bytes), Consumed(t, bytes))
<1> DEFINE n == Len(bytes)
<1>1. n \in Nat /\ Len(ev) \in Nat
  BY DEF Events
<1>2. t \in Tap
  BY DEF At, TapAt
<1>3. PICK run \in [0..n -> Tap] :
        /\ run[0] = t
        /\ \A i \in 1..n : run[i] = ConsumeFrames(run[i - 1], bytes[i])
        /\ Consumed(t, bytes) = run[n]
  BY <1>2, ConsumedRun
<1> HIDE DEF n
<1> DEFINE Off == {i \in 0..n : ~At(ev, k + i, run[i])}
<1>4. Off = {}
  <2> SUFFICES ASSUME Off # {} PROVE FALSE
    OBVIOUS
  <2>1. PICK m \in Off : \A i \in Off : m <= i
    <3>1. Off \subseteq Nat
      OBVIOUS
    <3> HIDE DEF Off
    <3> QED BY <3>1, Smallest
  <2>2. m \in 0..n /\ ~At(ev, k + m, run[m])
    OBVIOUS
  <2>3. m # 0
    <3>1. k + 0 = k
      OBVIOUS
    <3> QED BY <1>3, <2>2, <3>1
  <2>4. m - 1 \in 0..n /\ ~(m <= m - 1) /\ m \in 1..n
    BY <1>1, <2>2, <2>3
  <2>5. m - 1 \notin Off
    <3> HIDE DEF Off
    <3> QED BY <2>1, <2>4
  <2>6. At(ev, k + (m - 1), run[m - 1])
    BY <2>4, <2>5
  <2>7. k + (m - 1) \in Nat /\ k + (m - 1) < 5 * Len(ev) /\ k + (m - 1) + 1 = k + m
    BY <1>1, <2>4 DEF n
  <2>8. At(ev, k + m, ConsumeFrames(run[m - 1], Sent(ev, k + m)))
    BY <2>6, <2>7, ByteTaken
  <2>9. run[m] = ConsumeFrames(run[m - 1], Sent(ev, k + m))
    BY <1>3, <2>4 DEF n
  <2> QED BY <2>2, <2>8, <2>9
<1>5. n \in 0..n
  BY <1>1
<1>6. At(ev, k + n, run[n])
  BY <1>4, <1>5
<1> QED BY <1>3, <1>6 DEF n

-----------------------------------------------------------------------------

Fresh == [buf |-> << >>, in |-> 0, out |-> 0, seen |-> FALSE, reports |-> << >>]

\* The inductive invariant of a streamed response, ...
StreamedInv ==
  /\ Events(events)
  /\ passed <= 5 * Len(events)
  /\ reply.at # "done" => At(events, passed, tap)
  /\ reply.at = "done" =>
       \E t : At(events, passed, t) /\ tap = IF t.seen THEN Report(t) ELSE t
  /\ reply.at = "open" =>
       /\ passed + Len(flow) = 5 * Len(events)
       /\ \A i \in 1..Len(flow) : flow[i] = Sent(events, passed + i)

\* ... of one that is not, or that there never was, ...
PlainInv ==
  /\ Len(events) <= 1 /\ passed <= 2 * Len(events)
  /\ reply.kind = "none" => reply.at # "open" /\ events = << >>
  /\ reply.at # "done" =>
       /\ Len(tap.buf) = passed
       /\ \A i \in 1..passed : tap.buf[i] = Document(events[1])[i]
       /\ tap.in = 0 /\ tap.out = 0 /\ tap.reports = << >>
  /\ reply.at = "done" =>
       tap.reports = IF passed = 2 THEN <<events[1].in + events[1].out>> ELSE <<0>>
  /\ reply.at = "open" =>
       /\ passed + Len(flow) = 2 * Len(events)
       /\ \A i \in 1..Len(flow) : flow[i] = Document(events[1])[passed + i]

\* ... and of both.
StreamInv ==
  /\ reply \in [kind : {"none", "document", "anthropic", "bedrock"},
                at : {"pending", "open", "closed", "done"}]
  /\ events \in Seq(Event)
  /\ passed \in Nat
  /\ flow \in Seq(Line)
  /\ tap \in Tap
  /\ reply.at = "pending" => reply.kind = "none" /\ flow = << >> /\ tap = Fresh
  /\ Streamed => StreamedInv
  /\ ~Streamed => PlainInv

-----------------------------------------------------------------------------

\* More events change nothing of what has passed.
LEMMA AtExtends ==
  ASSUME NEW ev, Events(ev), NEW w \in Seq(Event), Len(ev) <= Len(w),
         \A i \in 1..Len(ev) : w[i] = ev[i],
         NEW k \in Nat, k <= 5 * Len(ev), NEW t, At(ev, k, t)
  PROVE  At(w, k, t)
<1> DEFINE n == k \div 5
           r == k % 5
<1>1. n \in Nat /\ r \in 0..4 /\ k = 5 * n + r
  BY Fifths
<1>2. Len(ev) \in Nat
  BY DEF Events
<1>3. TapAt(ev, n, r, t)
  BY DEF At
<1> SUFFICES TapAt(w, n, r, t)
  BY DEF At
<1> HIDE DEF n, r
<1>4. n <= Len(ev) /\ (r # 0 => n + 1 <= Len(ev))
  BY <1>1, <1>2
<1>5. \A i \in 1..n : w[i] = ev[i]
  BY <1>1, <1>2, <1>4
<1>6. Counted(w, n) = Counted(ev, n)
  BY <1>5 DEF Counted
<1>7. \A i : Place(w, n, i) = Place(ev, n, i)
  BY <1>6 DEF Place
<1>8. Counted(ev, n) # {} => w[1] = ev[1]
  BY <1>1, <1>5 DEF Counted
<1>9. \A i \in Counted(ev, n) : w[i] = ev[i]
  BY <1>5 DEF Counted
<1>10. Totals(w, n, t)
  BY <1>3, <1>6, <1>7, <1>8, <1>9 DEF TapAt, Totals
<1>11. t.buf = Part(w[n + 1], r)
  <2>1. CASE r = 0
    BY <1>3, <2>1 DEF TapAt, Part
  <2>2. CASE r # 0
    <3>1. n + 1 \in 1..Len(ev)
      BY <1>1, <1>2, <1>4, <2>2
    <3> QED BY <1>3, <3>1 DEF TapAt
  <2> QED BY <2>1, <2>2
<1> QED BY <1>3, <1>10, <1>11 DEF TapAt

LEMMA SentNext ==
  ASSUME NEW ev \in Seq(Event), NEW e \in Event
  PROVE  /\ \A k \in 1..5 * Len(ev) : Sent(Append(ev, e), k) = Sent(ev, k)
         /\ \A j \in 1..5 : Sent(Append(ev, e), 5 * Len(ev) + j) = Frame(e)[j]
<1> DEFINE w == Append(ev, e)
           n == Len(ev)
<1>1. n \in Nat /\ w[n + 1] = e /\ \A i \in 1..n : w[i] = ev[i]
  OBVIOUS
<1> HIDE DEF w, n
<1>2. ASSUME NEW k \in 1..5 * n
      PROVE  Sent(w, k) = Sent(ev, k)
  <2>1. k - 1 \in Nat /\ k - 1 < 5 * n
    BY <1>1
  <2> DEFINE q == (k - 1) \div 5
             r == (k - 1) % 5
  <2>2. q \in Nat /\ k - 1 = 5 * q + r /\ r \in 0..4
    BY <2>1, Fifths
  <2> HIDE DEF q, r
  <2>3. q + 1 \in 1..n
    BY <1>1, <2>1, <2>2
  <2>4. ((k - 1) \div 5) + 1 \in 1..n
    BY <2>3 DEF q
  <2> QED BY <1>1, <2>4 DEF Sent
<1>3. ASSUME NEW j \in 1..5
      PROVE  Sent(w, 5 * n + j) = Frame(e)[j]
  <2>1. (5 * n + j) - 1 \in Nat /\ j - 1 \in 0..4
    BY <1>1
  <2>2. ((5 * n + j) - 1) \div 5 = n /\ ((5 * n + j) - 1) % 5 = j - 1
    BY <1>1, <2>1
  <2>3. j - 1 + 1 = j
    OBVIOUS
  <2> QED BY <1>1, <2>2, <2>3 DEF Sent
<1> QED BY <1>2, <1>3 DEF w, n

LEMMA FrameLines ==
  ASSUME NEW e \in Event
  PROVE  /\ Frame(e) \in Seq(Line) /\ Len(Frame(e)) = 5
         /\ Document(e) \in Seq(Line) /\ Len(Document(e)) = 2
BY EventType DEF Frame, Document

\* The events with one more.
LEMMA EventsNext ==
  ASSUME NEW ev, Events(ev), NEW e \in Event,
         e.name \in {"message_start", "message_delta", "ping", "error"},
         e.name = "message_start" => ev = << >>,
         e.name = "message_delta" => ev # << >>,
         e.name # "message_start" => e.in = 0,
         e.name \in {"ping", "error"} => e.out = 0,
         e.out > 0 => \A i \in DOMAIN ev : ev[i].out <= e.out
  PROVE  Events(Append(ev, e))
<1> DEFINE w == Append(ev, e)
           n == Len(ev)
<1>1. ev \in Seq(Event) /\ n \in Nat
  BY DEF Events
<1>2. w \in Seq(Event) /\ Len(w) = n + 1 /\ w[n + 1] = e /\ \A i \in 1..n : w[i] = ev[i]
  BY <1>1
<1>3. DOMAIN ev = 1..n /\ (ev = << >> <=> n = 0)
  BY <1>1
<1> HIDE DEF w, n
<1>4. ASSUME NEW i \in 1..Len(w)
      PROVE  /\ w[i].name \in {"message_start", "message_delta", "ping", "error"}
             /\ w[i].name = "message_start" => i = 1
             /\ w[i].name = "message_delta" => i # 1
             /\ w[i].name # "message_start" => w[i].in = 0
             /\ w[i].name \in {"ping", "error"} => w[i].out = 0
  <2>1. i \in 1..n \/ i = n + 1
    BY <1>1, <1>2
  <2>2. CASE i \in 1..n
    <3>1. w[i] = ev[i] /\ w[1] = ev[1]
      BY <1>1, <1>2, <2>2
    <3> QED BY <2>2, <3>1 DEF Events, n
  <2>3. CASE i = n + 1
    <3>1. w[i] = e
      BY <1>2, <2>3
    <3>2. e.name = "message_delta" => n # 0
      BY <1>3
    <3>3. e.name = "message_start" => i = 1
      BY <1>1, <1>3, <2>3
    <3>4. n # 0 => i # 1
      BY <1>1, <2>3
    <3> QED BY <3>1, <3>2, <3>3, <3>4
  <2> QED BY <2>1, <2>2, <2>3
<1>5. ASSUME NEW i \in 1..Len(w), NEW j \in 1..Len(w), i < j, w[j].out > 0
      PROVE  w[i].out <= w[j].out
  <2>1. i \in 1..n
    BY <1>1, <1>2, <1>5
  <2>2. CASE j = n + 1
    BY <1>2, <1>3, <1>5, <2>1, <2>2
  <2>3. CASE j # n + 1
    <3>1. j \in 1..n
      BY <1>1, <1>2, <2>3
    <3> QED BY <1>2, <1>5, <2>1, <3>1 DEF Events, n
  <2> QED BY <2>2, <2>3
<1>6. Events(w)
  BY <1>2, <1>4, <1>5 DEF Events
<1> QED BY <1>6 DEF w

-----------------------------------------------------------------------------

LEMMA FreshTap == Fresh \in Tap
<1>1. << >> \in Seq(Line) /\ << >> \in Seq(Nat)
  OBVIOUS
<1> QED BY <1>1 DEF Fresh, Tap

LEMMA StreamBegins == StreamInit => StreamInv
<1> SUFFICES ASSUME StreamInit PROVE StreamInv
  OBVIOUS
<1>1. reply = [kind |-> "none", at |-> "pending"] /\ events = << >> /\ flow = << >>
      /\ passed = 0 /\ tap = Fresh
  BY DEF StreamInit, Fresh
<1>2. reply \in [kind : {"none", "document", "anthropic", "bedrock"},
                 at : {"pending", "open", "closed", "done"}]
      /\ reply.kind = "none" /\ reply.at = "pending"
  BY <1>1
<1>3. events \in Seq(Event) /\ flow \in Seq(Line) /\ Len(events) = 0 /\ 1..0 = {}
  BY <1>1
<1>4. PlainInv
  BY <1>1, <1>2, <1>3 DEF PlainInv, Fresh
<1>5. ~Streamed
  BY <1>2 DEF Streamed
<1> QED BY <1>1, <1>2, <1>3, <1>4, <1>5, FreshTap DEF StreamInv

LEMMA OpensStep == StreamInv /\ Opens => StreamInv'
<1> SUFFICES ASSUME StreamInv, Opens PROVE StreamInv'
  OBVIOUS
<1>1. reply.at = "pending" /\ UNCHANGED <<events, flow, passed, tap>>
  BY DEF Opens
<1>2. PICK kind \in {"document", "anthropic", "bedrock"} : reply' = [kind |-> kind, at |-> "open"]
  BY DEF Opens
<1>3. reply.kind = "none" /\ flow = << >> /\ tap = Fresh /\ PlainInv /\ tap \in Tap
  BY <1>1 DEF StreamInv, Streamed
<1>4. events = << >> /\ Len(events) = 0 /\ passed = 0 /\ Len(flow) = 0 /\ 1..0 = {}
  BY <1>3 DEF PlainInv, StreamInv
<1>5. reply'.at = "open" /\ reply'.kind = kind
  BY <1>2
<1>6. CASE Streamed'
  <2>1. Events(events')
    BY <1>1, <1>4 DEF Events
  <2>2. At(events, 0, tap)
    <3>1. 0 \div 5 = 0 /\ 0 % 5 = 0
      OBVIOUS
    <3>2. Counted(events, 0) = {}
      BY <1>4 DEF Counted
    <3>3. Cardinality({}) = 0
      BY FS_EmptySet
    <3>4. Totals(events, 0, tap)
      <4>1. tap.reports = << >> /\ tap.seen = FALSE /\ tap.in = 0
        BY <1>3 DEF Fresh
      <4>2. Len(tap.reports) = 0 /\ DOMAIN tap.reports = {}
        BY <4>1
      <4> QED BY <3>2, <3>3, <4>1, <4>2 DEF Totals, Grow
    <3> QED BY <1>3, <3>1, <3>4 DEF At, TapAt, Part, Fresh
  <2>3. StreamedInv'
    BY <1>1, <1>4, <1>5, <2>1, <2>2 DEF StreamedInv
  <2> QED BY <1>1, <1>2, <1>5, <1>6, <2>3 DEF StreamInv
<1>7. CASE ~Streamed'
  <2>1. PlainInv'
    BY <1>1, <1>3, <1>4, <1>5 DEF PlainInv, Fresh
  <2> QED BY <1>1, <1>2, <1>5, <1>7, <2>1 DEF StreamInv
<1> QED BY <1>6, <1>7

LEMMA UnreachableStep == StreamInv /\ Unreachable => StreamInv'
<1> SUFFICES ASSUME StreamInv, Unreachable PROVE StreamInv'
  OBVIOUS
<1>1. reply.at = "pending" /\ UNCHANGED <<events, flow, passed, tap>>
      /\ reply.kind = "none" /\ ~Streamed /\ PlainInv
  BY DEF Unreachable, StreamInv, Streamed
<1>2. reply' \in [kind : {"none", "document", "anthropic", "bedrock"},
                  at : {"pending", "open", "closed", "done"}]
      /\ reply'.kind = "none" /\ reply'.at = "closed"
  BY <1>1 DEF Unreachable, StreamInv
<1>3. PlainInv'
  BY <1>1, <1>2 DEF PlainInv, Document, Byte
<1>4. ~Streamed'
  BY <1>2 DEF Streamed
<1> QED BY <1>1, <1>2, <1>3, <1>4 DEF StreamInv

LEMMA ClosesStep == StreamInv /\ Closes => StreamInv'
<1> SUFFICES ASSUME StreamInv, Closes PROVE StreamInv'
  OBVIOUS
<1>1. reply.at = "open" /\ UNCHANGED <<events, passed, tap>> /\ flow' = << >>
  BY DEF Closes
<1>2. reply' \in [kind : {"none", "document", "anthropic", "bedrock"},
                  at : {"pending", "open", "closed", "done"}]
      /\ reply'.kind = reply.kind /\ reply'.at = "closed"
  BY DEF Closes, StreamInv
<1>3. Streamed' = Streamed
  BY <1>2 DEF Streamed
<1>4. Streamed => StreamedInv'
  BY <1>1, <1>2 DEF StreamedInv, StreamInv
<1>5. ~Streamed => PlainInv'
  BY <1>1, <1>2 DEF PlainInv, StreamInv
<1>6. flow' \in Seq(Line)
  BY <1>1
<1> QED BY <1>1, <1>2, <1>3, <1>4, <1>5, <1>6 DEF StreamInv

LEMMA SendsStep == StreamInv /\ (\E e \in Event : Sends(e)) => StreamInv'
<1> SUFFICES ASSUME StreamInv, NEW e \in Event, Sends(e) PROVE StreamInv'
  OBVIOUS
<1> DEFINE n == Len(events)
<1>1. /\ reply.at = "open" /\ UNCHANGED <<reply, passed, tap>>
      /\ e.name = "document" <=> ~Streamed
      /\ e.name \in {"document", "message_start"} => events = << >>
      /\ e.name = "message_delta" => events # << >> /\ e.in = 0
      /\ e.out > 0 => \A i \in DOMAIN events : events[i].out <= e.out
      /\ e.name # "error"
      /\ e.name = "ping" => e = Silent("ping")
      /\ events' = Append(events, e)
      /\ flow' = flow \o IF Streamed THEN Frame(e) ELSE Document(e)
  BY DEF Sends
<1>2. events \in Seq(Event) /\ n \in Nat /\ flow \in Seq(Line) /\ passed \in Nat /\ Len(flow) \in Nat
  BY DEF StreamInv
<1>3. events' \in Seq(Event) /\ Len(events') = n + 1 /\ events'[n + 1] = e
      /\ \A i \in 1..n : events'[i] = events[i]
  BY <1>1, <1>2
<1>4. Streamed' = Streamed
  BY <1>1 DEF Streamed
<1>5. flow' \in Seq(Line)
  BY <1>1, <1>2, FrameLines
<1>6. CASE Streamed
  <2>1. StreamedInv
    BY <1>6 DEF StreamInv
  <2>2. flow' = flow \o Frame(e)
    BY <1>1, <1>6
  <2>3. Frame(e) \in Seq(Line) /\ Len(Frame(e)) = 5
    BY FrameLines
  <2> DEFINE f == Frame(e)
  <2>4. /\ Len(flow') = Len(flow) + 5
        /\ \A i \in 1..Len(flow) + 5 : flow'[i] = IF i <= Len(flow) THEN flow[i]
                                                 ELSE f[i - Len(flow)]
    <3>1. f \in Seq(Line) /\ Len(f) = 5 /\ flow' = flow \o f
      BY <2>2, <2>3
    <3> HIDE DEF f
    <3>2. /\ Len(flow \o f) = Len(flow) + Len(f)
          /\ \A i \in 1..Len(flow) + Len(f) :
               (flow \o f)[i] = IF i <= Len(flow) THEN flow[i] ELSE f[i - Len(flow)]
      <4>1. flow \in Seq(Line) /\ f \in Seq(Line)
        BY <1>2, <3>1
      <4> QED BY <4>1, ConcatProperties, Zenon
    <3>3. flow' = flow \o f /\ Len(f) = 5
      BY <3>1
    <3> QED BY <3>2, <3>3
  <2>5. Events(events)
    BY <2>1 DEF StreamedInv
  <2>6. e.name \in {"message_start", "message_delta", "ping"}
        /\ (e.name = "message_start" => events = << >>)
        /\ (e.name = "message_delta" => events # << >>)
    BY <1>1, <1>6 DEF Event
  <2>7. (e.name = "ping" => e.out = 0) /\ (e.name # "message_start" => e.in = 0)
    BY <1>1, <2>6 DEF Silent
  <2>8. Events(events')
    BY <1>1, <2>5, <2>6, <2>7, EventsNext
  <2>9. passed <= 5 * n /\ At(events, passed, tap) /\ passed + Len(flow) = 5 * n
    BY <1>1, <2>1 DEF StreamedInv
  <2>10. At(events', passed, tap)
    BY <1>2, <1>3, <2>5, <2>9, AtExtends
  <2>11. passed' + Len(flow') = 5 * Len(events') /\ passed' <= 5 * Len(events')
    <3>1. passed' = passed /\ Len(events') = n + 1 /\ passed + Len(flow) = 5 * n /\ passed <= 5 * n
      BY <1>1, <1>3, <2>9
    <3> HIDE DEF n
    <3> QED BY <1>2, <2>4, <3>1
  <2>12. ASSUME NEW i \in 1..Len(flow')
         PROVE  flow'[i] = Sent(events', passed' + i)
    <3>1. CASE i <= Len(flow)
      <4>3. i \in 1..Len(flow) /\ flow'[i] = flow[i]
        BY <1>2, <2>4, <3>1
      <4>4. passed + i \in 1..5 * n
        <5> HIDE DEF n
        <5> QED BY <1>2, <2>9, <4>3
      <4>1. i \in 1..Len(flow) /\ flow'[i] = flow[i] /\ passed + i \in 1..5 * n
        BY <4>3, <4>4
      <4>2. flow[i] = Sent(events, passed + i)
        BY <1>1, <2>1, <4>1 DEF StreamedInv
      <4> QED BY <1>1, <1>2, <4>1, <4>2, SentNext
    <3>2. CASE ~(i <= Len(flow))
      <4> DEFINE j == i - Len(flow)
      <4>3. j \in 1..5 /\ flow'[i] = Frame(e)[j]
        BY <1>2, <2>4, <3>2
      <4>4. passed + i = 5 * n + j
        <5> HIDE DEF n
        <5> QED BY <1>2, <2>9
      <4>1. j \in 1..5 /\ flow'[i] = Frame(e)[j] /\ passed + i = 5 * n + j
        BY <4>3, <4>4
      <4> HIDE DEF j
      <4>2. Sent(events', 5 * n + j) = Frame(e)[j]
        BY <1>1, <1>2, <4>1, SentNext
      <4> QED BY <1>1, <4>1, <4>2
    <3> QED BY <3>1, <3>2
  <2>13. StreamedInv'
    BY <1>1, <2>8, <2>10, <2>11, <2>12 DEF StreamedInv
  <2> QED BY <1>1, <1>3, <1>4, <1>5, <1>6, <2>13 DEF StreamInv
<1>7. CASE ~Streamed
  <2>1. PlainInv
    BY <1>7 DEF StreamInv
  <2>2. events = << >> /\ n = 0 /\ flow' = flow \o Document(e)
    BY <1>1, <1>7
  <2>3. passed = 0 /\ Len(flow) = 0
    BY <1>1, <1>2, <2>1, <2>2 DEF PlainInv
  <2>4. events'[1] = e /\ Len(events') = 1
    BY <1>3, <2>2
  <2>5. flow = << >>
    BY <1>2, <2>3
  <2>6. flow' = Document(e) /\ Len(flow') = 2
    BY <2>2, <2>5, FrameLines
  <2>7. \A i \in 1..Len(flow') : flow'[i] = Document(events'[1])[passed' + i]
    BY <1>1, <2>3, <2>4, <2>6
  <2>8. reply.kind # "none"
    BY <1>1, <2>1 DEF PlainInv
  <2>9. PlainInv'
    BY <1>1, <2>1, <2>3, <2>4, <2>6, <2>7, <2>8 DEF PlainInv
  <2> QED BY <1>1, <1>3, <1>4, <1>5, <1>7, <2>9 DEF StreamInv
<1> QED BY <1>6, <1>7

\* What is read of a flow, and what is left of it.
LEMMA Cut ==
  ASSUME NEW s \in Seq(Line), NEW a \in 0..Len(s), NEW n \in 0..Len(s)
  PROVE  /\ SubSeq(s, 1, a) \in Seq(Line) /\ Len(SubSeq(s, 1, a)) = a
         /\ \A i \in 1..a : SubSeq(s, 1, a)[i] = s[i]
         /\ SubSeq(s, n + 1, Len(s)) \in Seq(Line) /\ Len(SubSeq(s, n + 1, Len(s))) = Len(s) - n
         /\ \A i \in 1..Len(s) - n : SubSeq(s, n + 1, Len(s))[i] = s[n + i]
<1> DEFINE l == Len(s)
<1>1. l \in Nat /\ a \in Int /\ a >= 0 /\ a <= l /\ n \in Int /\ n >= 0 /\ n <= l
  OBVIOUS
<1>2. \A i \in 1..l : s[i] \in Line
  OBVIOUS
<1> HIDE DEF l
<1>3. \A i \in 1..a : s[i] \in Line
  BY <1>1, <1>2
<1>4. \A i \in (n + 1)..l : s[i] \in Line
  BY <1>1, <1>2
<1>5. 1 \in Int /\ n + 1 \in Int /\ l \in Int
  BY <1>1
<1>6. /\ SubSeq(s, 1, a) \in Seq(Line)
      /\ Len(SubSeq(s, 1, a)) = IF 1 <= a THEN a - 1 + 1 ELSE 0
      /\ \A i \in 1..a - 1 + 1 : SubSeq(s, 1, a)[i] = s[1 + i - 1]
  BY <1>1, <1>3, <1>5, SubSeqProperties
<1>7. /\ SubSeq(s, n + 1, l) \in Seq(Line)
      /\ Len(SubSeq(s, n + 1, l)) = IF n + 1 <= l THEN l - (n + 1) + 1 ELSE 0
      /\ \A i \in 1..l - (n + 1) + 1 : SubSeq(s, n + 1, l)[i] = s[n + 1 + i - 1]
  BY <1>4, <1>5, SubSeqProperties
<1>8. Len(SubSeq(s, 1, a)) = a /\ \A i \in 1..a : SubSeq(s, 1, a)[i] = s[i]
  <2>1. a - 1 + 1 = a /\ \A i \in 1..a : 1 + i - 1 = i
    BY <1>1
  <2> QED BY <1>1, <1>6, <2>1
<1>9. Len(SubSeq(s, n + 1, l)) = l - n /\ \A i \in 1..l - n : SubSeq(s, n + 1, l)[i] = s[n + i]
  <2>1. l - (n + 1) + 1 = l - n /\ \A i \in 1..l - n : n + 1 + i - 1 = n + i
    BY <1>1
  <2> QED BY <1>1, <1>7, <2>1
<1> QED BY <1>6, <1>7, <1>8, <1>9 DEF l

LEMMA PassesStep == StreamInv /\ Passes => StreamInv'
<1> SUFFICES ASSUME StreamInv, Passes PROVE StreamInv'
  OBVIOUS
<1>1. reply.at = "open" /\ events' = events
  BY DEF Passes
<1>2. PICK n \in DOMAIN flow, taken \in 0..Len(flow) :
        /\ taken <= n
        /\ Write(SubSeq(flow, 1, taken))
        /\ flow' = SubSeq(flow, n + 1, Len(flow))
        /\ reply' = IF taken < n THEN [reply EXCEPT !.at = "closed"] ELSE reply
  BY DEF Passes
<1> DEFINE bytes == SubSeq(flow, 1, taken)
           l == Len(flow)
           k == Len(events)
<1>3. /\ events \in Seq(Event) /\ passed \in Nat /\ flow \in Seq(Line) /\ tap \in Tap
      /\ l \in Nat /\ k \in Nat /\ n \in 1..l /\ taken \in Nat /\ taken <= l
  BY <1>2 DEF StreamInv
<1>4. /\ bytes \in Seq(Line) /\ Len(bytes) = taken /\ \A i \in 1..taken : bytes[i] = flow[i]
      /\ flow' \in Seq(Line) /\ Len(flow') = l - n /\ \A i \in 1..l - n : flow'[i] = flow[n + i]
  <2>1. n \in 0..Len(flow)
    BY <1>3
  <2> QED BY <1>2, <1>3, <2>1, Cut
<1>5. /\ passed' = passed + taken
      /\ tap' = IF Streamed THEN Consumed(tap, bytes) ELSE [tap EXCEPT !.buf = @ \o bytes]
  BY <1>2, <1>4 DEF Write
<1>6. /\ reply' \in [kind : {"none", "document", "anthropic", "bedrock"},
                     at : {"pending", "open", "closed", "done"}]
      /\ reply'.kind = reply.kind /\ reply'.at \in {"open", "closed"}
      /\ reply'.at = "open" => taken = n
  <2>1. reply \in [kind : {"none", "document", "anthropic", "bedrock"},
                   at : {"pending", "open", "closed", "done"}]
    BY DEF StreamInv
  <2>2. CASE taken < n
    BY <1>2, <2>1, <2>2
  <2>3. CASE ~(taken < n)
    <3>1. taken = n /\ reply' = reply
      BY <1>2, <1>3, <2>3
    <3> QED BY <1>1, <2>1, <3>1
  <2> QED BY <2>2, <2>3
<1>7. Streamed' = Streamed
  BY <1>6 DEF Streamed
<1> HIDE DEF bytes
<1>8. CASE Streamed
  <2>1. /\ Events(events) /\ At(events, passed, tap) /\ passed + l = 5 * k
        /\ \A i \in 1..l : flow[i] = Sent(events, passed + i)
    BY <1>1, <1>8 DEF StreamInv, StreamedInv
  <2> HIDE DEF l, k
  <2>2. passed + taken <= 5 * k
    BY <1>3, <2>1
  <2>3. ASSUME NEW i \in 1..taken PROVE bytes[i] = Sent(events, passed + i)
    <3>1. i \in 1..l
      BY <1>3
    <3> QED BY <1>4, <2>1, <3>1
  <2>4. At(events, passed + taken, Consumed(tap, bytes))
    <3>1. k = Len(events)
      BY DEF k
    <3> QED BY <1>3, <1>4, <2>1, <2>2, <2>3, <3>1, BytesTaken
  <2>5. tap' \in Tap /\ At(events', passed', tap')
    <3>1. At(events', passed', tap')
      BY <1>1, <1>5, <1>8, <2>4
    <3> QED BY <3>1 DEF At, TapAt
  <2>6. ASSUME reply'.at = "open"
        PROVE  /\ passed' + Len(flow') = 5 * k
               /\ \A i \in 1..Len(flow') : flow'[i] = Sent(events', passed' + i)
    <3>1. taken = n
      BY <1>6, <2>6
    <3>2. passed' + Len(flow') = 5 * k
      BY <1>3, <1>4, <1>5, <2>1, <3>1
    <3>3. ASSUME NEW i \in 1..Len(flow') PROVE flow'[i] = Sent(events', passed' + i)
      <4>1. i \in 1..l - n /\ n + i \in 1..l /\ passed' + i = passed + (n + i)
        BY <1>3, <1>4, <1>5, <3>1
      <4>2. flow'[i] = flow[n + i] /\ flow[n + i] = Sent(events, passed + (n + i))
        BY <1>4, <2>1, <4>1
      <4> QED BY <1>1, <4>1, <4>2
    <3> QED BY <3>2, <3>3
  <2>7. passed' \in Nat /\ passed' <= 5 * k
    BY <1>3, <1>5, <2>2
  <2>8. Len(events') = k
    BY <1>1 DEF k
  <2>9. StreamedInv'
    BY <1>1, <1>6, <2>1, <2>5, <2>6, <2>7, <2>8 DEF StreamedInv
  <2> QED BY <1>1, <1>3, <1>4, <1>6, <1>7, <1>8, <2>5, <2>7, <2>9 DEF StreamInv
<1>9. CASE ~Streamed
  <2> DEFINE d == Document(events[1])
             buf == tap.buf \o bytes
  <2>1. /\ k <= 1 /\ passed <= 2 * k /\ reply.kind # "none"
        /\ Len(tap.buf) = passed /\ \A i \in 1..passed : tap.buf[i] = d[i]
        /\ tap.in = 0 /\ tap.out = 0 /\ tap.reports = << >>
        /\ passed + l = 2 * k
        /\ \A i \in 1..l : flow[i] = d[passed + i]
    BY <1>1, <1>9 DEF StreamInv, PlainInv
  <2>2. tap' = [tap EXCEPT !.buf = buf]
    BY <1>5, <1>9
  <2>3. tap.buf \in Seq(Line)
    BY <1>3 DEF Tap
  <2>4. /\ buf \in Seq(Line) /\ Len(buf) = passed + taken
        /\ \A i \in 1..passed + taken : buf[i] = IF i <= passed THEN tap.buf[i] ELSE bytes[i - passed]
    <3>1. /\ buf \in Seq(Line) /\ Len(buf) = Len(tap.buf) + Len(bytes)
          /\ \A i \in 1..Len(tap.buf) + Len(bytes) :
               buf[i] = IF i <= Len(tap.buf) THEN tap.buf[i] ELSE bytes[i - Len(tap.buf)]
      BY <1>4, <2>3, ConcatProperties, Zenon
    <3> HIDE DEF buf
    <3> QED BY <1>4, <2>1, <3>1
  <2> HIDE DEF d, buf, l, k
  <2>5. tap' \in Tap /\ tap'.buf = buf /\ tap'.in = 0 /\ tap'.out = 0 /\ tap'.reports = << >>
    BY <1>3, <2>1, <2>2, <2>4 DEF Tap
  <2>6. ASSUME NEW i \in 1..passed' PROVE buf[i] = d[i]
    <3>1. i \in 1..passed + taken
      BY <1>5
    <3>2. CASE i <= passed
      <4>1. i \in 1..passed
        BY <1>3, <3>1, <3>2
      <4> QED BY <2>1, <2>4, <3>1, <3>2, <4>1
    <3>3. CASE ~(i <= passed)
      <4>1. i - passed \in 1..taken /\ i - passed \in 1..l /\ passed + (i - passed) = i
        BY <1>3, <3>1, <3>3
      <4>2. bytes[i - passed] = flow[i - passed] /\ flow[i - passed] = d[passed + (i - passed)]
        BY <1>4, <2>1, <4>1
      <4> QED BY <2>4, <3>1, <3>3, <4>1, <4>2
    <3> QED BY <3>2, <3>3
  <2>7. ASSUME reply'.at = "open"
        PROVE  /\ passed' + Len(flow') = 2 * k
               /\ \A i \in 1..Len(flow') : flow'[i] = d[passed' + i]
    <3>1. taken = n
      BY <1>6, <2>7
    <3>2. passed' + Len(flow') = 2 * k
      BY <1>3, <1>4, <1>5, <2>1, <3>1
    <3>3. ASSUME NEW i \in 1..Len(flow') PROVE flow'[i] = d[passed' + i]
      <4>1. i \in 1..l - n /\ n + i \in 1..l /\ passed' + i = passed + (n + i)
        BY <1>3, <1>4, <1>5, <3>1
      <4> QED BY <1>4, <2>1, <4>1
    <3> QED BY <3>2, <3>3
  <2>8. passed' \in Nat /\ passed' <= 2 * k
    BY <1>3, <1>5, <2>1
  <2>9. Len(events') = k /\ Document(events'[1]) = d /\ reply'.kind # "none" /\ Len(buf) = passed'
    BY <1>1, <1>5, <1>6, <2>1, <2>4 DEF k, d
  <2>10. PlainInv'
    BY <1>6, <2>1, <2>5, <2>6, <2>7, <2>8, <2>9 DEF PlainInv
  <2> QED BY <1>1, <1>3, <1>4, <1>6, <1>7, <1>9, <2>5, <2>8, <2>10 DEF StreamInv
<1> QED BY <1>8, <1>9

LEMMA BreaksStep == StreamInv /\ Breaks => StreamInv'
<1> SUFFICES ASSUME StreamInv, Breaks PROVE StreamInv'
  OBVIOUS
<1> DEFINE e == Silent("error")
           f == Frame(e)
           n == Len(events)
<1>1. /\ reply = [kind |-> "bedrock", at |-> "open"] /\ flow = << >> /\ flow' = << >>
      /\ reply' = [reply EXCEPT !.at = "closed"]
      /\ events' = Append(events, e)
      /\ \E taken \in 0..Len(f) : Write(SubSeq(f, 1, taken))
  BY DEF Breaks
<1>2. reply.kind = "bedrock" /\ reply.at = "open" /\ Streamed
  BY <1>1 DEF Streamed
<1>3. /\ reply' \in [kind : {"none", "document", "anthropic", "bedrock"},
                     at : {"pending", "open", "closed", "done"}]
      /\ reply'.kind = "bedrock" /\ reply'.at = "closed" /\ Streamed'
  BY <1>1 DEF Streamed
<1>4. events \in Seq(Event) /\ n \in Nat /\ passed \in Nat /\ tap \in Tap /\ StreamedInv
  BY <1>2 DEF StreamInv
<1>5. e \in Event /\ e.name = "error" /\ e.out = 0 /\ e.in = 0 /\ f \in Seq(Line) /\ Len(f) = 5
  <2>1. e \in Event
    BY EventType
  <2> QED BY <2>1, FrameLines DEF Silent
<1>6. passed = 5 * n
  <2>1. Len(flow) = 0 /\ passed + Len(flow) = 5 * n
    BY <1>1, <1>2, <1>4 DEF StreamedInv
  <2> HIDE DEF n
  <2> QED BY <1>4, <2>1
<1>7. Events(events) /\ At(events, passed, tap)
  BY <1>2, <1>4 DEF StreamedInv
<1> HIDE DEF e, f
<1>8. /\ events' \in Seq(Event) /\ Len(events') = n + 1
      /\ \A i \in 1..n : events'[i] = events[i]
  BY <1>1, <1>4, <1>5
<1>9. Events(events')
  BY <1>1, <1>5, <1>7, EventsNext
<1>10. At(events', passed, tap)
  <2>1. passed <= 5 * n /\ n <= n + 1
    <3> HIDE DEF n
    <3> QED BY <1>4, <1>6
  <2> QED BY <1>4, <1>7, <1>8, <2>1, AtExtends
<1>11. \A j \in 1..5 : f[j] = Sent(events', passed + j)
  BY <1>1, <1>4, <1>5, <1>6, SentNext DEF f
<1>12. PICK taken \in 0..Len(f) : Write(SubSeq(f, 1, taken))
  BY <1>1
<1> DEFINE bytes == SubSeq(f, 1, taken)
<1>13. taken \in 0..5 /\ bytes \in Seq(Line) /\ Len(bytes) = taken
       /\ \A i \in 1..taken : bytes[i] = f[i]
  BY <1>5, <1>12, Cut
<1>14. passed' = passed + taken /\ tap' = Consumed(tap, bytes)
  BY <1>1, <1>2, <1>12, <1>13 DEF Write
<1> HIDE DEF bytes
<1>15. passed + taken <= 5 * Len(events') /\ passed + taken \in Nat
  <2> HIDE DEF n
  <2> QED BY <1>4, <1>6, <1>8, <1>13
<1>16. \A i \in 1..Len(bytes) : bytes[i] = Sent(events', passed + i)
  BY <1>11, <1>13
<1>17. At(events', passed + taken, Consumed(tap, bytes))
  BY <1>4, <1>9, <1>10, <1>13, <1>15, <1>16, BytesTaken
<1>18. At(events', passed', tap') /\ tap' \in Tap
  <2>1. At(events', passed', tap')
    BY <1>14, <1>17
  <2> QED BY <2>1 DEF At, TapAt
<1>19. StreamedInv'
  BY <1>3, <1>9, <1>14, <1>15, <1>18 DEF StreamedInv
<1>20. flow' \in Seq(Line)
  BY <1>1
<1> QED BY <1>3, <1>8, <1>14, <1>15, <1>18, <1>19, <1>20 DEF StreamInv

\* A document's usage, which is in its last line.
LEMMA DocumentUsage ==
  ASSUME NEW buf \in Seq(Line), NEW e \in Event, Len(buf) <= 2,
         \A i \in 1..Len(buf) : buf[i] = Document(e)[i]
  PROVE  /\ Len(buf) = 2 => Lines(buf, "data") # {} /\ Usage(buf) = e
         /\ Len(buf) # 2 => Lines(buf, "data") = {}
<1> DEFINE a == Byte("half", e)
           b == Byte("data", e)
<1>1. a.what = "half" /\ b.what = "data" /\ b.event = e
  BY DEF Byte
<1>2. Document(e)[1] = a /\ Document(e)[2] = b
  BY DEF Document
<1> HIDE DEF a, b
<1>3. DOMAIN buf = 1..Len(buf) /\ Len(buf) \in Nat
  OBVIOUS
<1>4. CASE Len(buf) = 2
  <2>1. DOMAIN buf = {1, 2}
    <3>1. DOMAIN buf = 1..2
      BY <1>3, <1>4
    <3> QED BY <3>1
  <2>2. buf[1] = a /\ buf[2] = b
    BY <1>2, <1>4
  <2>3. {j \in DOMAIN buf : buf[j].what = "data"} = {2}
    BY <1>1, <2>1, <2>2
  <2>4. Lines(buf, "data") = {b}
    BY <2>2, <2>3 DEF Lines
  <2>5. (CHOOSE line \in Lines(buf, "data") : TRUE) = b
    BY <2>4
  <2> QED BY <1>1, <1>4, <2>4, <2>5 DEF Usage
<1>5. CASE Len(buf) # 2
  <2>1. \A j \in DOMAIN buf : j = 1 /\ buf[j] = a
    <3>1. Len(buf) \in {0, 1}
      BY <1>3, <1>5
    <3>2. \A j \in DOMAIN buf : j = 1 /\ j \in 1..Len(buf)
      BY <1>3, <3>1
    <3> QED BY <1>2, <3>2
  <2>2. {j \in DOMAIN buf : buf[j].what = "data"} = {}
    BY <1>1, <2>1
  <2> QED BY <1>5, <2>2 DEF Lines
<1> QED BY <1>4, <1>5

LEMMA DoneStep == StreamInv /\ Done => StreamInv'
<1> SUFFICES ASSUME StreamInv, Done PROVE StreamInv'
  OBVIOUS
<1> DEFINE e == Usage(tap.buf)
           u == [tap EXCEPT !.in = e.in, !.out = e.out]
           parsed == IF Streamed \/ Lines(tap.buf, "data") = {} THEN tap ELSE u
<1>1. reply.at = "closed" /\ UNCHANGED <<events, flow, passed>>
      /\ tap' = IF Streamed /\ ~tap.seen THEN tap ELSE Report(parsed)
  BY DEF Done
<1>2. /\ reply' \in [kind : {"none", "document", "anthropic", "bedrock"},
                     at : {"pending", "open", "closed", "done"}]
      /\ reply'.kind = reply.kind /\ reply'.at = "done"
  BY DEF Done, StreamInv
<1>3. Streamed' = Streamed
  BY <1>2 DEF Streamed
<1>4. events \in Seq(Event) /\ passed \in Nat /\ tap \in Tap /\ tap.buf \in Seq(Line)
  BY DEF StreamInv, Tap
<1>5. CASE Streamed
  <2>1. tap' = IF tap.seen THEN Report(tap) ELSE tap
    BY <1>1, <1>5
  <2>2. tap' \in Tap
    BY <1>4, <2>1, ReportType
  <2>3. At(events', passed', tap)
    BY <1>1, <1>5 DEF StreamInv, StreamedInv
  <2>4. Events(events) /\ passed <= 5 * Len(events)
    BY <1>5 DEF StreamInv, StreamedInv
  <2>5. StreamedInv'
    BY <1>1, <1>2, <2>1, <2>3, <2>4 DEF StreamedInv
  <2> QED BY <1>1, <1>2, <1>3, <1>5, <2>2, <2>5 DEF StreamInv
<1>6. CASE ~Streamed
  <2> DEFINE d == events[1]
  <2>1. /\ Len(events) <= 1 /\ passed <= 2 * Len(events)
        /\ reply.kind = "none" => events = << >>
        /\ Len(tap.buf) = passed /\ \A i \in 1..passed : tap.buf[i] = Document(d)[i]
        /\ tap.in = 0 /\ tap.out = 0 /\ tap.reports = << >>
    BY <1>1, <1>6 DEF StreamInv, PlainInv
  <2>2. tap' = Report(parsed)
    BY <1>1, <1>6
  <2>3. CASE passed = 0
    <3>1. DOMAIN tap.buf = {}
      BY <1>4, <2>1, <2>3
    <3>2. Lines(tap.buf, "data") = {}
      BY <3>1 DEF Lines
    <3>3. parsed = tap
      BY <3>2
    <3>4. tap' \in Tap /\ tap'.reports = Append(<< >>, 0 + 0)
      BY <1>4, <2>1, <2>2, <3>3, ReportType
    <3>5. tap'.reports = <<0>>
      BY <3>4
    <3>6. PlainInv'
      BY <1>1, <1>2, <2>1, <2>3, <3>5 DEF PlainInv
    <3> QED BY <1>1, <1>2, <1>3, <1>6, <3>4, <3>6 DEF StreamInv
  <2>4. CASE passed # 0
    <3>1. Len(events) = 1 /\ d \in Event /\ passed \in {1, 2}
      <4> DEFINE k == Len(events)
      <4>1. k \in Nat /\ (k = 1 => d \in Event)
        BY <1>4
      <4>2. k <= 1 /\ passed <= 2 * k
        BY <2>1
      <4> HIDE DEF d, k
      <4>3. k = 1
        BY <1>4, <2>4, <4>1, <4>2
      <4> QED BY <1>4, <2>4, <4>1, <4>2, <4>3 DEF k
    <3>2. /\ passed = 2 => Lines(tap.buf, "data") # {} /\ e = d
          /\ passed # 2 => Lines(tap.buf, "data") = {}
      <4> DEFINE buf == tap.buf
      <4>1. buf \in Seq(Line) /\ Len(buf) <= 2 /\ Len(buf) = passed
            /\ \A i \in 1..Len(buf) : buf[i] = Document(d)[i]
        BY <1>4, <2>1, <3>1
      <4> HIDE DEF buf, d
      <4>2. /\ Len(buf) = 2 => Lines(buf, "data") # {} /\ Usage(buf) = d
            /\ Len(buf) # 2 => Lines(buf, "data") = {}
        BY <3>1, <4>1, DocumentUsage
      <4> QED BY <4>1, <4>2 DEF buf
    <3>3. d.in \in Nat /\ d.out \in Nat
      BY <3>1, EventType
    <3>4. CASE passed = 2
      <4>1. parsed = u /\ e = d
        BY <1>6, <3>2, <3>4
      <4>2. u \in Tap /\ u.in = d.in /\ u.out = d.out /\ u.reports = << >>
        <5>1. e.in \in Nat /\ e.out \in Nat
          BY <3>3, <4>1
        <5>2. u = [tap EXCEPT !.in = d.in, !.out = d.out]
          BY <4>1
        <5> HIDE DEF e, d, u
        <5> QED BY <1>4, <2>1, <3>3, <5>2 DEF Tap
      <4>3. tap' \in Tap /\ tap'.reports = Append(<< >>, d.in + d.out)
        <5> HIDE DEF e, d, u
        <5> QED BY <2>2, <4>1, <4>2, ReportType
      <4>4. tap'.reports = <<d.in + d.out>>
        BY <4>3
      <4>5. PlainInv'
        BY <1>1, <1>2, <2>1, <3>4, <4>4 DEF PlainInv
      <4> QED BY <1>1, <1>2, <1>3, <1>6, <4>3, <4>5 DEF StreamInv
    <3>5. CASE passed # 2
      <4>1. parsed = tap
        BY <3>2, <3>5
      <4>2. tap' \in Tap /\ tap'.reports = Append(<< >>, 0 + 0)
        BY <1>4, <2>1, <2>2, <4>1, ReportType
      <4>3. tap'.reports = <<0>>
        BY <4>2
      <4>4. PlainInv'
        BY <1>1, <1>2, <2>1, <3>5, <4>3 DEF PlainInv
      <4> QED BY <1>1, <1>2, <1>3, <1>6, <4>2, <4>4 DEF StreamInv
    <3> QED BY <3>4, <3>5
  <2> QED BY <2>3, <2>4
<1> QED BY <1>5, <1>6

LEMMA StreamStep == StreamInv /\ [ForwardStep]_streamVars => StreamInv'
<1> SUFFICES ASSUME StreamInv, [ForwardStep]_streamVars PROVE StreamInv'
  OBVIOUS
<1>1. CASE ForwardStep
  BY <1>1, OpensStep, UnreachableStep, SendsStep, PassesStep, ClosesStep, BreaksStep, DoneStep
     DEF ForwardStep
<1>2. CASE UNCHANGED streamVars
  <2>1. UNCHANGED <<reply, events, flow, passed, tap>>
    BY <1>2 DEF streamVars
  <2>2. Streamed' = Streamed
    BY <2>1 DEF Streamed
  <2>3. Streamed => StreamedInv'
    <3> SUFFICES ASSUME StreamedInv PROVE StreamedInv'
      BY DEF StreamInv
    <3> QED BY <2>1 DEF StreamedInv
  <2>4. ~Streamed => PlainInv'
    <3> SUFFICES ASSUME PlainInv PROVE PlainInv'
      BY DEF StreamInv
    <3> QED BY <2>1 DEF PlainInv
  <2> QED BY <2>1, <2>2, <2>3, <2>4 DEF StreamInv
<1> QED BY <1>1, <1>2

LEMMA ToldCounted == Told = Counted(events, passed \div 5)
<1>1. Len(Frame(Silent("ping"))) = 5
  BY DEF Frame
<1> QED BY <1>1 DEF Told, Counted

\* What the invariant says of a stream's reports.
LEMMA StreamReports ==
  ASSUME StreamInv, Streamed
  PROVE  LET n == Cardinality(Told)
         IN  /\ n \in 0..Len(events)
             /\ tap.reports \in Seq(Nat)
             /\ Len(tap.reports) = IF reply.at = "done" /\ n > 0 THEN n + 1 ELSE n
             /\ \A i \in Told :
                  tap.reports[Cardinality({j \in Told : j <= i})] = events[1].in + events[i].out
             /\ reply.at = "done" /\ n > 0 => tap.reports[n + 1] = tap.reports[n]
             /\ Grow(tap.reports)
<1> DEFINE q == passed \div 5
           n == Cardinality(Told)
           ended == reply.at = "done"
           C == Counted(events, q)
<1>1. /\ passed \in Nat /\ Len(events) \in Nat /\ passed <= 5 * Len(events) /\ q \in Nat
      /\ passed % 5 \in 0..4 /\ passed = 5 * q + (passed % 5)
  <2>1. passed \in Nat /\ events \in Seq(Event) /\ passed <= 5 * Len(events)
    BY DEF StreamInv, StreamedInv
  <2> QED BY <2>1, Fifths
<1>2. q <= Len(events)
  <2> DEFINE r == passed % 5
             k == Len(events)
  <2>1. r \in 0..4 /\ passed = 5 * q + r /\ k \in Nat /\ passed <= 5 * k
    BY <1>1
  <2> HIDE DEF q, r, k
  <2>2. q <= k
    BY <1>1, <2>1
  <2> QED BY <2>2 DEF k
<1>3. Told = C
  BY ToldCounted
<1> HIDE DEF q
<1>4. n \in 0..q /\ \A i \in C : Place(events, q, i) \in 1..n
  BY <1>1, <1>3, CountedFinite
<1>5. n > 0 => C # {}
  BY <1>3, FS_EmptySet
<1>6. PICK t \in Tap : /\ Totals(events, q, t)
                       /\ tap = IF ended /\ t.seen THEN Report(t) ELSE t
  <2>1. \E t : At(events, passed, t) /\ tap = IF ended /\ t.seen THEN Report(t) ELSE t
    BY DEF StreamInv, StreamedInv
  <2> QED BY <2>1 DEF At, TapAt, q
<1>7. t.reports \in Seq(Nat) /\ Len(t.reports) = n /\ t.in + t.out \in Nat /\ n \in Nat
  BY <1>3, <1>4, <1>6 DEF Totals, Tap
<1>8. ASSUME NEW i \in Told
      PROVE  /\ t.reports[Cardinality({j \in Told : j <= i})] = events[1].in + events[i].out
             /\ Cardinality({j \in Told : j <= i}) \in 1..n
  <2>1. Cardinality({j \in Told : j <= i}) = Place(events, q, i) /\ i \in C
    BY <1>3 DEF Place
  <2> QED BY <1>4, <1>6, <2>1 DEF Totals
<1>9. t.seen <=> n > 0
  <2>1. C # {} => n # 0
    BY <1>1, <1>3, CountedFinite, FS_EmptySet
  <2>2. C # {} <=> n > 0
    BY <1>5, <1>7, <2>1
  <2>3. t.seen <=> C # {}
    BY <1>6 DEF Totals
  <2> QED BY <2>2, <2>3, Zenon
<1>10. Grow(t.reports) /\ (n > 0 => t.reports[n] = t.in + t.out)
  BY <1>3, <1>5, <1>6, <1>7 DEF Totals
<1>11. n \in 0..Len(events)
  BY <1>1, <1>2, <1>4
<1>12. CASE ended /\ n > 0
  <2>1. tap.reports = Append(t.reports, t.in + t.out)
    BY <1>6, <1>9, <1>12, ReportType
  <2>2. /\ tap.reports \in Seq(Nat) /\ Len(tap.reports) = n + 1
        /\ tap.reports[n + 1] = t.in + t.out
        /\ \A k \in 1..n : tap.reports[k] = t.reports[k]
    BY <1>7, <2>1
  <2>3. tap.reports[n + 1] = tap.reports[n]
    <3>1. n \in 1..n
      BY <1>7, <1>12
    <3> QED BY <1>10, <1>12, <2>2, <3>1
  <2>4. Grow(tap.reports)
    <3>1. DOMAIN tap.reports = 1..n + 1 /\ DOMAIN t.reports = 1..n
      BY <1>7, <2>2
    <3>2. \A k \in 1..n : t.reports[k] \in Nat /\ t.reports[k] <= t.reports[n]
      <4>1. \A k \in 1..n : k <= n /\ n \in 1..n /\ t.reports[k] \in Nat
        BY <1>7
      <4> QED BY <1>10, <3>1, <4>1 DEF Grow
    <3> SUFFICES ASSUME NEW i \in 1..n + 1, NEW j \in 1..n + 1, i <= j
                 PROVE  tap.reports[i] <= tap.reports[j]
      BY <3>1 DEF Grow
    <3>3. CASE j = n + 1
      <4>1. tap.reports[j] = t.reports[n]
        BY <1>10, <1>12, <2>2, <3>3
      <4>2. i = n + 1 \/ i \in 1..n
        BY <1>7
      <4>3. n \in 1..n
        BY <1>7, <1>12
      <4>4. t.reports[n] \in Nat
        BY <3>2, <4>3
      <4>5. CASE i = n + 1
        BY <3>3, <4>1, <4>4, <4>5
      <4>6. CASE i \in 1..n
        BY <2>2, <3>2, <4>1, <4>6
      <4> QED BY <4>2, <4>5, <4>6
    <3>4. CASE j # n + 1
      <4>1. i \in 1..n /\ j \in 1..n
        BY <1>7, <3>4
      <4> QED BY <1>10, <2>2, <3>1, <4>1 DEF Grow
    <3> QED BY <3>3, <3>4
  <2> QED BY <1>8, <1>11, <1>12, <2>2, <2>3, <2>4
<1>13. CASE ~(ended /\ n > 0)
  <2>1. tap = t
    BY <1>6, <1>9, <1>13
  <2> QED BY <1>7, <1>8, <1>10, <1>11, <1>13, <2>1
<1> QED BY <1>12, <1>13

LEMMA StreamHolds == StreamInv => StreamTypeOK /\ ReportsWhatPassed
<1> SUFFICES ASSUME StreamInv PROVE StreamTypeOK /\ ReportsWhatPassed
  OBVIOUS
<1>1. Len(Document(Silent("ping"))) = 2
  BY DEF Document
<1>2. tap \in Tap /\ events \in Seq(Event) /\ Len(events) \in Nat
  BY DEF StreamInv
<1>3. CASE Streamed
  <2> DEFINE n == Cardinality(Told)
  <2>1. /\ n \in 0..Len(events)
        /\ Len(tap.reports) = IF reply.at = "done" /\ n > 0 THEN n + 1 ELSE n
        /\ \A i \in Told :
             tap.reports[Cardinality({j \in Told : j <= i})] = events[1].in + events[i].out
        /\ reply.at = "done" /\ n > 0 => tap.reports[n + 1] = tap.reports[n]
        /\ Grow(tap.reports)
    BY <1>3, StreamReports
  <2>2. Len(tap.reports) <= Len(events) + 1
    <3> HIDE DEF n
    <3> QED BY <1>2, <2>1
  <2>3. StreamTypeOK
    BY <1>2, <2>2 DEF StreamTypeOK, StreamInv, Tap
  <2>4. TotalsGrow
    BY <2>1 DEF TotalsGrow, Grow
  <2>5. ReportsWhatPassed
    BY <1>3, <2>1, <2>4 DEF ReportsWhatPassed
  <2> QED BY <2>3, <2>5
<1>4. CASE ~Streamed
  <2>1. /\ reply.at # "done" => tap.reports = << >>
        /\ reply.at = "done" =>
             tap.reports = IF passed = 2 THEN <<events[1].in + events[1].out>> ELSE <<0>>
    BY <1>4 DEF StreamInv, PlainInv
  <2>2. Len(tap.reports) <= 1
    <3>1. \A x : Len(<<x>>) = 1
      OBVIOUS
    <3>2. Len(<< >>) = 0
      OBVIOUS
    <3>3. tap.reports = << >> \/ (\E x : tap.reports = <<x>>)
      BY <2>1
    <3> QED BY <3>1, <3>2, <3>3
  <2>3. StreamTypeOK
    BY <1>2, <2>2 DEF StreamTypeOK, StreamInv, Tap
  <2>4. TotalsGrow
    <3>1. \A i, j \in DOMAIN tap.reports : i = j
      <4>1. DOMAIN tap.reports = 1..Len(tap.reports) /\ Len(tap.reports) \in Nat
        BY <1>2 DEF Tap
      <4> QED BY <2>2, <4>1
    <3>2. \A i \in DOMAIN tap.reports : tap.reports[i] \in Nat
      BY <1>2 DEF Tap
    <3> QED BY <3>1, <3>2 DEF TotalsGrow
  <2>5. ReportsWhatPassed
    BY <1>1, <1>4, <2>1, <2>4 DEF ReportsWhatPassed
  <2> QED BY <2>3, <2>5
<1> QED BY <1>3, <1>4

(***************************************************************************)
(* Both: Exchange.                                                         *)
(***************************************************************************)

\* The scanners keep in step with the writer, whatever it writes: with the
\* locals of findClosingBracket and matchingBrace as their code has them, a
\* count of brackets or braces is all that is needed.
THEOREM InLockstep == ScanSpec => []Lockstep
BY InitLockstep, NextLockstep, PTL DEF ScanSpec

\* What Exchange's steps are to the request and to the response.
LEMMA ExchangeSteps ==
  [Next]_vars => [WriterStep]_scanVars /\ [ForwardStep]_streamVars
BY DEF Next, Scan, Forward, vars

\* A request's body is scanned as it is without a response (server.go: the
\* body is read whole and rewritten before anything is forwarded).
THEOREM ScanImplemented == Spec => ScanSpec
<1>1. Init => ScanInit
  BY DEF Init
<1> QED BY <1>1, ExchangeSteps, PTL DEF Spec, ScanSpec

\* The tap's buffer is the part of an event's frame that has passed and its
\* totals are those of the events before, after every write.
THEOREM InStep == Spec => []StreamInv
<1>1. Init => StreamInv
  BY StreamBegins DEF Init
<1> QED BY <1>1, ExchangeSteps, StreamStep, PTL DEF Spec

\* The scanners' locals stay what the code declares, the depths never below
\* zero (inject/inject.go, findClosingBracket; extract/client.go,
\* matchingBrace), and the tap never reports more often than once for an event
\* and once in the end (proxy/usage_tap.go).
THEOREM TypeCorrect == Spec => []TypeOK
<1>1. Lockstep /\ StreamInv => TypeOK
  BY StreamHolds DEF Lockstep, TypeOK
<1> QED BY <1>1, ScanImplemented, InLockstep, InStep, PTL

\* AtMessages splices before the byte that closes the root's "messages" array
\* and nowhere else, in bodies of any length and depth.
THEOREM SpliceCorrect == Spec => []SplicePoint
<1>1. Lockstep => SplicePoint
  BY DEF Lockstep, ScanTypeOK, Finding, SplicePoint
<1> QED BY <1>1, ScanImplemented, InLockstep, PTL

\* What AtMessages splices in follows a comma exactly when an element is before it.
THEOREM CommaCorrect == Spec => []CommaSeparates
<1>1. Lockstep => CommaSeparates
  BY DEF Lockstep, Finding, CommaSeparates
<1> QED BY <1>1, ScanImplemented, InLockstep, PTL

\* matchingBrace finds the brace that closes the answer's object, in answers of
\* any length and depth.
THEOREM MatchCorrect == Spec => []ObjectMatched
<1>1. Lockstep => ObjectMatched
  BY DEF Lockstep, Matching, ObjectMatched
<1> QED BY <1>1, ScanImplemented, InLockstep, PTL

\* usageTap reports the usage of what passed, each once and in order, of
\* streams of any length, cut anywhere and broken off anywhere, and its totals
\* never shrink.
THEOREM ReportsCorrect == Spec => []ReportsWhatPassed
BY StreamHolds, InStep, PTL


=============================================================================
