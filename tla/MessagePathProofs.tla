------------------------- MODULE MessagePathProofs --------------------------
(***************************************************************************)
(* Proofs about Codec and MessagePath, for every envelope and whatever its *)
(* texts contain:                                                          *)
(*   - UnescapeField undoes EscapeField, and SplitEscaped finds the fields *)
(*     again that were joined, as no escaped field ends in an open run of  *)
(*     backslashes or shows a bare separator (Absorbed);                   *)
(*   - so a text of either format decodes to what it was made from, and so *)
(*     does one with a header and a frame around it, in any mode of the    *)
(*     receiver (RoundTrip);                                               *)
(*   - what is on the wire is such a text, and what was received is what   *)
(*     its mode keeps of the envelope (PathInv).                           *)
(* A loop over a text is a recursive function, which TLA+ defines as a     *)
(* choice: its lemma shows that there is a function to be chosen.          *)
(***************************************************************************)
EXTENDS MessagePath, DataProofs

-----------------------------------------------------------------------------
(* Escaping and its inverse.                                               *)

\* Everything that may occur in a text, and texts of them.
Symbols ==
  STRING \cup Numerals \cup Modes \cup
  {Separator, Backslash, HeaderSep, "control", "telemetry", "event",
   "best_effort", "at_least_once", "pm=", "pv=", "PBV2", "CBV2",
   "selfcheck", "protocol.selfcheck", "ping"}
Words == Seq(Symbols)

\* The texts of an application are among them.
LEMMA TextsAreWords == Texts \subseteq Words
BY DEF Texts, Words, Symbols

\* So are the symbols that the formats treat specially.
LEMMA SpecialSymbols == {Separator, Backslash, HeaderSep} \subseteq Symbols
BY DEF Symbols

\* Texts of at most two characters.
LEMMA ShortWords ==
  /\ <<>> \in Words
  /\ \A a \in Symbols : <<a>> \in Words
  /\ \A a, b \in Symbols : <<a, b>> \in Words
BY DEF Words

\* What EscapeField adds for a character.
Escaping(ch) ==
  IF ch \in {Backslash, Separator} THEN <<Backslash, ch>> ELSE <<ch>>

\* That is a text.
LEMMA EscapingTyped ==
  ASSUME NEW ch \in Symbols
  PROVE  Escaping(ch) \in Words
BY SpecialSymbols, ShortWords DEF Escaping

\* The function that EscapeField defines, and the runs of its loop.
IsEscapeLoop(out, input) ==
  out = [n \in 0..Len(input) |->
           IF n = 0 THEN <<>>
           ELSE out[n - 1] \o (IF input[n] \in {Backslash, Separator}
                               THEN <<Backslash, input[n]>> ELSE <<input[n]>>)]

EscapeRuns(input) ==
  Runs(Len(input), Words, <<>>,
       [n \in 1 .. Len(input) |-> [t \in Words |-> t \o Escaping(input[n])]])

\* EscapeField returns the end of such a run.
LEMMA EscapeFieldRuns ==
  ASSUME NEW x \in Words
  PROVE  \E out \in EscapeRuns(x) : EscapeField(x) = out[Len(x)]
<1> DEFINE N == Len(x)
           step == [n \in 1 .. N |-> [t \in Words |-> t \o Escaping(x[n])]]
           c == CHOOSE out : IsEscapeLoop(out, x)
<1>1. N \in Nat /\ <<>> \in Words
  BY DEF Words
<1>2. ASSUME NEW n \in 1 .. N PROVE Escaping(x[n]) \in Words
  <2>1. x[n] \in Symbols
    BY DEF Words
  <2>2. QED BY <2>1, EscapingTyped
<1>3. step \in [1 .. N -> [Words -> Words]]
  BY <1>2 DEF Words
<1>4. EscapeRuns(x) # {}
  <2> HIDE DEF step
  <2>1. Runs(N, Words, <<>>, step) # {}
    BY <1>1, <1>3, RecursionOnPositions
  <2>2. QED BY <2>1 DEF EscapeRuns, step
<1>5. PICK f : f \in EscapeRuns(x)
  BY <1>4
<1>6. /\ f \in [0 .. N -> Words] /\ f[0] = <<>>
      /\ \A n \in 1 .. N : f[n] = step[n][f[n - 1]]
  BY <1>5 DEF EscapeRuns, Runs
<1>7. IsEscapeLoop(f, x)
  <2>1. f = [n \in 0 .. N |-> f[n]]
    BY <1>6
  <2>2. ASSUME NEW n \in 0 .. N, n # 0 PROVE f[n] = f[n - 1] \o Escaping(x[n])
    <3>1. n \in 1 .. N /\ f[n - 1] \in Words
      BY <2>2, <1>6
    <3>2. QED BY <1>6, <3>1
  <2>3. QED BY <1>6, <2>1, <2>2 DEF IsEscapeLoop, Escaping
<1>8. IsEscapeLoop(c, x)
  BY <1>7
<1>9. EscapeField(x) = c[Len(x)]
  BY Zenon DEF EscapeField, IsEscapeLoop
<1>10. c \in EscapeRuns(x)
  <2> HIDE DEF c
  <2>1. c = [n \in 0 .. N |-> c[n]]
    BY <1>8 DEF IsEscapeLoop
  <2>2. c[0] = <<>> /\ \A n \in 1 .. N : c[n] = c[n - 1] \o Escaping(x[n])
    BY <1>1, <1>8 DEF IsEscapeLoop, Escaping
  <2>3. \A n \in 1 .. N : c[n - 1] \in Words => c[n] = step[n][c[n - 1]]
    BY <2>2
  <2>4. c \in Runs(N, Words, <<>>, step)
    <3> HIDE DEF step, N
    <3>1. QED BY <1>1, <1>3, <2>1, <2>2, <2>3, LoopIsRun
  <2>5. QED BY <2>4 DEF EscapeRuns
<1>11. QED BY <1>9, <1>10

\* The function that UnescapeLoop defines, what it holds after each
\* character, and its runs.
IsUnescapeLoop(after, input) ==
  after = [n \in 0..Len(input) |->
             IF n = 0 THEN [out |-> <<>>, escaped |-> FALSE]
             ELSE UnescapeStep(after[n - 1], input[n])]

Unescaping == [out : Words, escaped : BOOLEAN]
UnescapeSteps(input) ==
  [n \in 1 .. Len(input) |-> [s \in Unescaping |-> UnescapeStep(s, input[n])]]
UnescapeRuns(input) ==
  Runs(Len(input), Unescaping, [out |-> <<>>, escaped |-> FALSE], UnescapeSteps(input))

\* A step of that loop keeps the type.
LEMMA UnescapeStepTyped ==
  ASSUME NEW s \in Unescaping, NEW ch \in Symbols
  PROVE  UnescapeStep(s, ch) \in Unescaping
<1>1. [s EXCEPT !.escaped = TRUE] \in Unescaping
  BY DEF Unescaping
<1>2. s.out \in Words
  BY DEF Unescaping
<1>3. Append(s.out, ch) \in Words
  BY <1>2 DEF Words
<1>4. [out |-> Append(s.out, ch), escaped |-> FALSE] \in Unescaping
  BY <1>3 DEF Unescaping
<1>5. QED BY <1>1, <1>4 DEF UnescapeStep

\* UnescapeLoop returns the end of such a run.
LEMMA UnescapeLoopRuns ==
  ASSUME NEW x \in Words
  PROVE  \E after \in UnescapeRuns(x) : UnescapeLoop(x) = after[Len(x)]
<1> DEFINE N == Len(x)
           base == [out |-> <<>>, escaped |-> FALSE]
           step == UnescapeSteps(x)
           c == CHOOSE after : IsUnescapeLoop(after, x)
<1>1. N \in Nat /\ base \in Unescaping
  BY DEF Words, Unescaping
<1>2. ASSUME NEW n \in 1 .. N, NEW s \in Unescaping
      PROVE  UnescapeStep(s, x[n]) \in Unescaping
  <2>1. x[n] \in Symbols
    BY DEF Words
  <2>2. QED BY <2>1, UnescapeStepTyped
<1>3. step \in [1 .. N -> [Unescaping -> Unescaping]]
  BY <1>2 DEF UnescapeSteps
<1>4. UnescapeRuns(x) # {}
  <2> HIDE DEF step, base, N
  <2>1. Runs(N, Unescaping, base, step) # {}
    BY <1>1, <1>3, RecursionOnPositions
  <2>2. QED BY <2>1 DEF UnescapeRuns, step, base, N
<1>5. PICK f : f \in UnescapeRuns(x)
  BY <1>4
<1>6. /\ f \in [0 .. N -> Unescaping] /\ f[0] = base
      /\ \A n \in 1 .. N : f[n] = step[n][f[n - 1]]
  BY <1>5 DEF UnescapeRuns, Runs
<1>7. IsUnescapeLoop(f, x)
  <2>1. f = [n \in 0 .. N |-> f[n]]
    BY <1>6
  <2>2. ASSUME NEW n \in 0 .. N, n # 0 PROVE f[n] = UnescapeStep(f[n - 1], x[n])
    <3>1. n \in 1 .. N /\ f[n - 1] \in Unescaping
      BY <2>2, <1>6
    <3>2. QED BY <1>6, <3>1 DEF UnescapeSteps
  <2>3. QED BY <1>6, <2>1, <2>2 DEF IsUnescapeLoop
<1>8. IsUnescapeLoop(c, x)
  BY <1>7
<1>9. UnescapeLoop(x) = c[Len(x)]
  BY Zenon DEF UnescapeLoop, IsUnescapeLoop
<1>10. c \in UnescapeRuns(x)
  <2> HIDE DEF c
  <2>1. c = [n \in 0 .. N |-> c[n]]
    BY <1>8 DEF IsUnescapeLoop
  <2>2. c[0] = base /\ \A n \in 1 .. N : c[n] = UnescapeStep(c[n - 1], x[n])
    <3>1. 0 \in 0 .. N /\ \A n \in 1 .. N : n \in 0 .. N /\ n # 0
      BY <1>1
    <3>2. \A n \in 0 .. N : c[n] = IF n = 0 THEN base ELSE UnescapeStep(c[n - 1], x[n])
      BY <1>8 DEF IsUnescapeLoop
    <3> HIDE DEF base, N
    <3>3. QED BY <3>1, <3>2
  <2>3. \A n \in 1 .. N : c[n - 1] \in Unescaping => c[n] = step[n][c[n - 1]]
    BY <2>2 DEF UnescapeSteps
  <2>4. c \in Runs(N, Unescaping, base, step)
    <3> HIDE DEF step, N, base
    <3>1. QED BY <1>1, <1>3, <2>1, <2>2, <2>3, LoopIsRun
  <2>5. QED BY <2>4 DEF UnescapeRuns
<1>11. QED BY <1>9, <1>10

\* To read one character more is to take one step more.
LEMMA UnescapeOneMore ==
  ASSUME NEW x \in Words, NEW a \in Symbols
  PROVE  /\ UnescapeLoop(x) \in Unescaping
         /\ UnescapeLoop(Append(x, a)) = UnescapeStep(UnescapeLoop(x), a)
<1> DEFINE y == Append(x, a)
           N == Len(x)
           base == [out |-> <<>>, escaped |-> FALSE]
<1>1. y \in Words /\ N \in Nat /\ Len(y) = N + 1 /\ y[N + 1] = a
  BY DEF Words
<1>2. PICK c \in UnescapeRuns(y) : UnescapeLoop(y) = c[Len(y)]
  BY <1>1, UnescapeLoopRuns
<1>3. PICK d \in UnescapeRuns(x) : UnescapeLoop(x) = d[N]
  BY UnescapeLoopRuns
<1>4. \A n \in 1 .. N : UnescapeSteps(y)[n] = UnescapeSteps(x)[n]
  <2>1. ASSUME NEW n \in 1 .. N PROVE y[n] = x[n] /\ n \in 1 .. Len(y)
    BY <1>1 DEF Words
  <2>2. QED BY <1>1, <2>1 DEF UnescapeSteps
<1>5. c[N] = d[N]
  <2>1. N + 1 \in Nat /\ N \in 0 .. N + 1 /\ N \in 0 .. N
    BY <1>1
  <2>2. c \in Runs(N + 1, Unescaping, base, UnescapeSteps(y))
    BY <1>1, <1>2 DEF UnescapeRuns
  <2>3. d \in Runs(N, Unescaping, base, UnescapeSteps(x))
    BY <1>3 DEF UnescapeRuns
  <2>4. \A n \in 0 .. N : c[n] = d[n]
    <3> HIDE DEF base, N, y
    <3>1. QED BY <2>1, <2>2, <2>3, <1>1, <1>4, RunsAgree
  <2>5. QED BY <2>1, <2>4
<1>6. d[N] \in Unescaping
  BY <1>1, <1>3 DEF UnescapeRuns, Runs
<1>7. c[N + 1] = UnescapeStep(c[N], a)
  <2>1. PICK m \in 1 .. Len(y) : m = N + 1
    BY <1>1
  <2>2. c[m] = UnescapeSteps(y)[m][c[m - 1]]
    BY <1>2 DEF UnescapeRuns, Runs
  <2>3. m - 1 = N /\ c[m - 1] \in Unescaping /\ y[m] = a
    BY <1>1, <1>5, <1>6, <2>1
  <2>4. QED BY <2>1, <2>2, <2>3 DEF UnescapeSteps
<1>8. QED BY <1>1, <1>2, <1>3, <1>5, <1>6, <1>7

\* The empty text.
LEMMA UnescapeNothing == UnescapeLoop(<<>>) = [out |-> <<>>, escaped |-> FALSE]
<1>1. <<>> \in Words /\ Len(<<>>) = 0
  BY DEF Words
<1>2. PICK d \in UnescapeRuns(<<>>) : UnescapeLoop(<<>>) = d[Len(<<>>)]
  BY <1>1, UnescapeLoopRuns
<1>3. QED BY <1>1, <1>2 DEF UnescapeRuns, Runs

\* A prefix of a text, and the next character.
LEMMA PrefixOneMore ==
  ASSUME NEW S, NEW x \in Seq(S), NEW n \in 0 .. Len(x) - 1
  PROVE  /\ SubSeq(x, 1, n) \in Seq(S)
         /\ x[n + 1] \in S
         /\ SubSeq(x, 1, n + 1) = Append(SubSeq(x, 1, n), x[n + 1])
OBVIOUS

\* UnescapeField undoes what EscapeField does, for every text.
LEMMA UnescapeEscaped ==
  ASSUME NEW x \in Words
  PROVE  EscapeField(x) \in Words /\ UnescapeField(EscapeField(x)) = x
<1> DEFINE N == Len(x)
           Clean(t) == [out |-> t, escaped |-> FALSE]
<1>1. PICK e \in EscapeRuns(x) : EscapeField(x) = e[N]
  BY EscapeFieldRuns
<1>2. /\ N \in Nat /\ N \in 0 .. N /\ e \in [0 .. N -> Words] /\ e[0] = <<>>
      /\ \A n \in 1 .. N : e[n] = e[n - 1] \o Escaping(x[n])
  <2>1. N \in Nat /\ e \in [0 .. N -> Words] /\ e[0] = <<>>
    BY DEF EscapeRuns, Runs, Words
  <2>2. ASSUME NEW n \in 1 .. N PROVE e[n] = e[n - 1] \o Escaping(x[n])
    <3>1. e[n - 1] \in Words
      BY <2>1
    <3>2. QED BY <3>1 DEF EscapeRuns, Runs
  <2>3. N \in 0 .. N
    BY <2>1
  <2>4. QED BY <2>1, <2>2, <2>3
<1> DEFINE T == {n \in 0 .. N : UnescapeLoop(e[n]) = Clean(SubSeq(x, 1, n))}
<1>3. 0 \in T
  <2>1. SubSeq(x, 1, 0) = <<>>
    BY DEF Words
  <2>2. UnescapeLoop(e[0]) = Clean(SubSeq(x, 1, 0)) /\ 0 \in 0 .. N
    BY <1>2, <2>1, UnescapeNothing
  <2>3. QED BY <2>2
<1>4. ASSUME NEW n \in 0 .. N - 1, n \in T PROVE n + 1 \in T
  <2> DEFINE p == SubSeq(x, 1, n)
             ch == x[n + 1]
             q == e[n]
  <2>1. p \in Words /\ ch \in Symbols /\ SubSeq(x, 1, n + 1) = Append(p, ch)
    BY PrefixOneMore DEF Words
  <2>2. q \in Words /\ n + 1 \in 0 .. N /\ e[n + 1] = q \o Escaping(ch)
    <3>1. PICK m \in 1 .. N : m = n + 1
      OBVIOUS
    <3>2. m - 1 = n /\ n \in 0 .. N
      BY <3>1
    <3>3. e[m] = e[n] \o Escaping(x[m]) /\ e[n] \in Words
      BY <1>2, <3>2
    <3>4. QED BY <3>1, <3>3
  <2>3. UnescapeLoop(q) = Clean(p)
    BY <1>4
  <2> HIDE DEF p, ch, q
  <2>4. CASE ch \notin {Backslash, Separator}
    <3>1. e[n + 1] = Append(q, ch)
      BY <2>2, <2>4 DEF Escaping, Words
    <3>2. UnescapeLoop(Append(q, ch)) = UnescapeStep(Clean(p), ch)
      BY <2>1, <2>2, <2>3, UnescapeOneMore
    <3>3. UnescapeStep(Clean(p), ch) = Clean(Append(p, ch))
      BY <2>4 DEF UnescapeStep
    <3>4. QED BY <2>1, <2>2, <3>1, <3>2, <3>3
  <2>5. CASE ch \in {Backslash, Separator}
    <3>1. e[n + 1] = Append(Append(q, Backslash), ch)
      BY <2>2, <2>5 DEF Escaping, Words
    <3>2. Backslash \in Symbols /\ Append(q, Backslash) \in Words
      BY <2>2, SpecialSymbols DEF Words
    <3>3. UnescapeLoop(Append(q, Backslash)) = UnescapeStep(Clean(p), Backslash)
      BY <2>2, <2>3, <3>2, UnescapeOneMore
    <3>4. UnescapeStep(Clean(p), Backslash) = [out |-> p, escaped |-> TRUE]
      BY DEF UnescapeStep
    <3>5. UnescapeLoop(Append(Append(q, Backslash), ch))
            = UnescapeStep([out |-> p, escaped |-> TRUE], ch)
      BY <2>1, <3>2, <3>3, <3>4, UnescapeOneMore
    <3>6. UnescapeStep([out |-> p, escaped |-> TRUE], ch) = Clean(Append(p, ch))
      BY DEF UnescapeStep
    <3>7. QED BY <2>1, <2>2, <3>1, <3>5, <3>6
  <2>6. QED BY <2>4, <2>5
<1>5. UnescapeLoop(e[N]) = Clean(SubSeq(x, 1, N))
  <2> HIDE DEF T
  <2>1. \A n \in 0 .. N : n \in T
    BY <1>2, <1>3, <1>4, IntervalInduction
  <2>2. QED BY <1>2, <2>1 DEF T
<1>6. SubSeq(x, 1, N) = x
  BY DEF Words
<1>7. QED BY <1>1, <1>2, <1>5, <1>6 DEF UnescapeField

-----------------------------------------------------------------------------
(* Joining and splitting.                                                  *)

\* The function that SplitLoop defines, what it holds after each character,
\* and its runs.
IsSplitLoop(after, input) ==
  after = [n \in 0..Len(input) |->
             IF n = 0 THEN [fields |-> <<>>, current |-> <<>>, run |-> 0]
             ELSE SplitStep(after[n - 1], input[n])]

Splitting == [fields : Seq(Words), current : Words, run : Nat]
SplitSteps(input) ==
  [n \in 1 .. Len(input) |-> [s \in Splitting |-> SplitStep(s, input[n])]]
SplitRuns(input) ==
  Runs(Len(input), Splitting,
       [fields |-> <<>>, current |-> <<>>, run |-> 0], SplitSteps(input))

\* A step of that loop keeps the type.
LEMMA SplitStepTyped ==
  ASSUME NEW s \in Splitting, NEW ch \in Symbols
  PROVE  SplitStep(s, ch) \in Splitting
<1>1. s.fields \in Seq(Words) /\ s.current \in Words /\ s.run \in Nat
  BY DEF Splitting
<1>2. Append(s.current, ch) \in Words /\ <<>> \in Words
  BY <1>1 DEF Words
<1>3. Append(s.fields, s.current) \in Seq(Words)
  BY <1>1
<1>4. [fields |-> Append(s.fields, s.current), current |-> <<>>, run |-> 0] \in Splitting
  BY <1>2, <1>3 DEF Splitting
<1>5. ASSUME NEW r \in Nat
      PROVE  [s EXCEPT !.current = Append(@, ch), !.run = r] \in Splitting
  BY <1>2 DEF Splitting
<1>6. (IF ch = Backslash THEN s.run + 1 ELSE 0) \in Nat
  BY <1>1
<1>7. QED BY <1>4, <1>5, <1>6 DEF SplitStep

\* SplitLoop returns the end of such a run.
LEMMA SplitLoopRuns ==
  ASSUME NEW x \in Words
  PROVE  \E after \in SplitRuns(x) : SplitLoop(x) = after[Len(x)]
<1> DEFINE N == Len(x)
           base == [fields |-> <<>>, current |-> <<>>, run |-> 0]
           step == SplitSteps(x)
           c == CHOOSE after : IsSplitLoop(after, x)
<1>1. N \in Nat /\ base \in Splitting
  BY DEF Words, Splitting
<1>2. ASSUME NEW n \in 1 .. N, NEW s \in Splitting
      PROVE  SplitStep(s, x[n]) \in Splitting
  <2>1. x[n] \in Symbols
    BY DEF Words
  <2>2. QED BY <2>1, SplitStepTyped
<1>3. step \in [1 .. N -> [Splitting -> Splitting]]
  BY <1>2 DEF SplitSteps
<1>4. SplitRuns(x) # {}
  <2> HIDE DEF step, base, N
  <2>1. Runs(N, Splitting, base, step) # {}
    BY <1>1, <1>3, RecursionOnPositions
  <2>2. QED BY <2>1 DEF SplitRuns, step, base, N
<1>5. PICK f : f \in SplitRuns(x)
  BY <1>4
<1>6. /\ f \in [0 .. N -> Splitting] /\ f[0] = base
      /\ \A n \in 1 .. N : f[n] = step[n][f[n - 1]]
  BY <1>5 DEF SplitRuns, Runs
<1>7. IsSplitLoop(f, x)
  <2>1. f = [n \in 0 .. N |-> f[n]]
    BY <1>6
  <2>2. ASSUME NEW n \in 0 .. N, n # 0 PROVE f[n] = SplitStep(f[n - 1], x[n])
    <3>1. n \in 1 .. N /\ f[n - 1] \in Splitting
      BY <2>2, <1>6
    <3>2. QED BY <1>6, <3>1 DEF SplitSteps
  <2>3. QED BY <1>6, <2>1, <2>2 DEF IsSplitLoop
<1>8. IsSplitLoop(c, x)
  BY <1>7
<1>9. SplitLoop(x) = c[Len(x)]
  BY Zenon DEF SplitLoop, IsSplitLoop
<1>10. c \in SplitRuns(x)
  <2> HIDE DEF c
  <2>1. c = [n \in 0 .. N |-> c[n]]
    BY <1>8 DEF IsSplitLoop
  <2>2. c[0] = base /\ \A n \in 1 .. N : c[n] = SplitStep(c[n - 1], x[n])
    <3>1. 0 \in 0 .. N /\ \A n \in 1 .. N : n \in 0 .. N /\ n # 0
      BY <1>1
    <3>2. \A n \in 0 .. N : c[n] = IF n = 0 THEN base ELSE SplitStep(c[n - 1], x[n])
      BY <1>8 DEF IsSplitLoop
    <3> HIDE DEF base, N
    <3>3. QED BY <3>1, <3>2
  <2>3. \A n \in 1 .. N : c[n - 1] \in Splitting => c[n] = step[n][c[n - 1]]
    BY <2>2 DEF SplitSteps
  <2>4. c \in Runs(N, Splitting, base, step)
    <3> HIDE DEF step, N, base
    <3>1. QED BY <1>1, <1>3, <2>1, <2>2, <2>3, LoopIsRun
  <2>5. QED BY <2>4 DEF SplitRuns
<1>11. QED BY <1>9, <1>10

\* To read one character more is to take one step more.
LEMMA SplitOneMore ==
  ASSUME NEW x \in Words, NEW a \in Symbols
  PROVE  /\ SplitLoop(x) \in Splitting
         /\ SplitLoop(Append(x, a)) = SplitStep(SplitLoop(x), a)
<1> DEFINE y == Append(x, a)
           N == Len(x)
           base == [fields |-> <<>>, current |-> <<>>, run |-> 0]
<1>1. y \in Words /\ N \in Nat /\ Len(y) = N + 1 /\ y[N + 1] = a
  BY DEF Words
<1>2. PICK c \in SplitRuns(y) : SplitLoop(y) = c[Len(y)]
  BY <1>1, SplitLoopRuns
<1>3. PICK d \in SplitRuns(x) : SplitLoop(x) = d[N]
  BY SplitLoopRuns
<1>4. \A n \in 1 .. N : SplitSteps(y)[n] = SplitSteps(x)[n]
  <2>1. ASSUME NEW n \in 1 .. N PROVE y[n] = x[n] /\ n \in 1 .. Len(y)
    BY <1>1 DEF Words
  <2>2. QED BY <1>1, <2>1 DEF SplitSteps
<1>5. c[N] = d[N]
  <2>1. N + 1 \in Nat /\ N \in 0 .. N + 1 /\ N \in 0 .. N
    BY <1>1
  <2>2. c \in Runs(N + 1, Splitting, base, SplitSteps(y))
    BY <1>1, <1>2 DEF SplitRuns
  <2>3. d \in Runs(N, Splitting, base, SplitSteps(x))
    BY <1>3 DEF SplitRuns
  <2>4. \A n \in 0 .. N : c[n] = d[n]
    <3> HIDE DEF base, N, y
    <3>1. QED BY <2>1, <2>2, <2>3, <1>1, <1>4, RunsAgree
  <2>5. QED BY <2>1, <2>4
<1>6. d[N] \in Splitting
  BY <1>1, <1>3 DEF SplitRuns, Runs
<1>7. c[N + 1] = SplitStep(c[N], a)
  <2>1. PICK m \in 1 .. Len(y) : m = N + 1
    BY <1>1
  <2>2. c[m] = SplitSteps(y)[m][c[m - 1]]
    BY <1>2 DEF SplitRuns, Runs
  <2>3. m - 1 = N /\ c[m - 1] \in Splitting /\ y[m] = a
    BY <1>1, <1>5, <1>6, <2>1
  <2>4. QED BY <2>1, <2>2, <2>3 DEF SplitSteps
<1>8. QED BY <1>1, <1>2, <1>3, <1>5, <1>6, <1>7

\* The empty text.
LEMMA SplitNothing == SplitLoop(<<>>) = [fields |-> <<>>, current |-> <<>>, run |-> 0]
<1>1. <<>> \in Words /\ Len(<<>>) = 0
  BY DEF Words
<1>2. PICK d \in SplitRuns(<<>>) : SplitLoop(<<>>) = d[Len(<<>>)]
  BY <1>1, SplitLoopRuns
<1>3. QED BY <1>1, <1>2 DEF SplitRuns, Runs

\* A text that a field is made of: reading it after t, where no run of
\* backslashes is open, adds it to the field at hand.
Absorbed(f) ==
  /\ f \in Words
  /\ \A t \in Words :
       SplitLoop(t).run % 2 = 0 =>
         /\ SplitLoop(t \o f).fields = SplitLoop(t).fields
         /\ SplitLoop(t \o f).current = SplitLoop(t).current \o f
         /\ SplitLoop(t \o f).run % 2 = 0

\* Two texts of one character.
LEMMA TwoCharacters ==
  ASSUME NEW S, NEW a \in S, NEW b \in S
  PROVE  <<a>> \o <<b>> = <<a, b>>
<1> DEFINE x == Append(<<a>>, b)
           y == <<a, b>>
<1>1. <<a>> \in Seq(S)
  OBVIOUS
<1>2. x \in Seq(S) /\ Len(x) = 2 /\ x[1] = a /\ x[2] = b
  BY <1>1, AppendProperties
<1>3. y \in Seq(S) /\ Len(y) = 2 /\ y[1] = a /\ y[2] = b
  OBVIOUS
<1>4. x = <<a>> \o <<b>>
  BY <1>1, AppendIsConcat
<1> HIDE DEF x, y
<1>5. \A i \in 1 .. 2 : x[i] = y[i]
  BY <1>2, <1>3
<1>6. x = y
  BY <1>2, <1>3, <1>5, SeqEqual
<1>7. QED BY <1>4, <1>6 DEF y

\* A character behind two texts.
LEMMA AppendBehind ==
  ASSUME NEW S, NEW p \in Seq(S), NEW q \in Seq(S), NEW a \in S
  PROVE  Append(p \o q, a) = p \o (q \o <<a>>)
<1>1. p \o q \in Seq(S) /\ <<a>> \in Seq(S)
  OBVIOUS
<1>2. Append(p \o q, a) = (p \o q) \o <<a>>
  BY <1>1, AppendIsConcat
<1>3. QED BY <1>1, <1>2, ConcatAssociative

\* Two characters behind two texts.
LEMMA AppendTwoBehind ==
  ASSUME NEW p \in Words, NEW q \in Words, NEW a \in Symbols, NEW b \in Symbols
  PROVE  Append(Append(p \o q, a), b) = p \o (q \o <<a, b>>)
<1> DEFINE S == Symbols
<1>1. /\ p \in Seq(S) /\ q \in Seq(S) /\ <<a>> \in Seq(S) /\ <<b>> \in Seq(S)
      /\ q \o <<a>> \in Seq(S)
  BY DEF Words
<1> HIDE DEF S
<1>2. Append(p \o q, a) = p \o (q \o <<a>>)
  BY <1>1, AppendBehind DEF S
<1>3. Append(p \o (q \o <<a>>), b) = p \o ((q \o <<a>>) \o <<b>>)
  BY <1>1, AppendBehind DEF S
<1>4. (q \o <<a>>) \o <<b>> = q \o (<<a>> \o <<b>>)
  BY <1>1, ConcatAssociative
<1>5. <<a>> \o <<b>> = <<a, b>>
  BY TwoCharacters
<1>6. QED BY <1>2, <1>3, <1>4, <1>5

\* A character that is not a separator in force.
LEMMA StepAdds ==
  ASSUME NEW s \in Splitting, NEW ch, ~(ch = Separator /\ s.run % 2 = 0)
  PROVE  SplitStep(s, ch) = [fields |-> s.fields, current |-> Append(s.current, ch),
                             run |-> IF ch = Backslash THEN s.run + 1 ELSE 0]
BY DEF SplitStep, Splitting

\* One more character of a field.
LEMMA AbsorbedMore ==
  ASSUME NEW f, Absorbed(f), NEW ch \in Symbols
  PROVE  Absorbed(f \o Escaping(ch))
<1>1. f \in Words
  BY DEF Absorbed
<1>2. f \o Escaping(ch) \in Words
  BY <1>1, EscapingTyped DEF Words
<1>3. ASSUME NEW t \in Words, SplitLoop(t).run % 2 = 0
      PROVE  /\ SplitLoop(t \o (f \o Escaping(ch))).fields = SplitLoop(t).fields
             /\ SplitLoop(t \o (f \o Escaping(ch))).current
                  = SplitLoop(t).current \o (f \o Escaping(ch))
             /\ SplitLoop(t \o (f \o Escaping(ch))).run % 2 = 0
  <2> DEFINE u == t \o f
             s == SplitLoop(u)
             c == SplitLoop(t).current
  <2>1. /\ u \in Words /\ s \in Splitting /\ c \in Words
        /\ s.fields = SplitLoop(t).fields /\ s.current = c \o f /\ s.run % 2 = 0
    <3>1. u \in Words
      BY <1>1 DEF Words
    <3>2. s \in Splitting /\ SplitLoop(t) \in Splitting
      BY <3>1, SpecialSymbols, SplitOneMore
    <3>3. c \in Words
      BY <3>2 DEF Splitting
    <3>4. QED BY <1>3, <3>1, <3>2, <3>3 DEF Absorbed
  <2>2. s.run \in Nat
    BY <2>1 DEF Splitting
  <2>3. CASE ch \notin {Backslash, Separator}
    <3>1. Escaping(ch) = <<ch>>
      BY <2>3 DEF Escaping
    <3>2. t \o (f \o <<ch>>) = Append(u, ch)
      BY <1>1, AppendBehind DEF Words
    <3>3. SplitLoop(Append(u, ch)) = SplitStep(s, ch)
      BY <2>1, SplitOneMore
    <3>4. SplitStep(s, ch) = [fields |-> s.fields, current |-> Append(s.current, ch),
                              run |-> 0]
      BY <2>1, <2>3, StepAdds
    <3>5. Append(c \o f, ch) = c \o (f \o <<ch>>)
      <4>1. c \in Seq(Symbols) /\ f \in Seq(Symbols)
        BY <1>1, <2>1 DEF Words
      <4> HIDE DEF c
      <4>2. QED BY <4>1, AppendBehind
    <3>6. SplitLoop(t \o (f \o Escaping(ch)))
            = [fields |-> s.fields, current |-> Append(s.current, ch), run |-> 0]
      <4> HIDE DEF s
      <4>1. QED BY <3>1, <3>2, <3>3, <3>4
    <3>7. s.fields = SplitLoop(t).fields /\ Append(s.current, ch) = c \o (f \o Escaping(ch))
      BY <2>1, <3>1, <3>5
    <3>8. 0 % 2 = 0
      OBVIOUS
    <3> DEFINE z == SplitLoop(t \o (f \o Escaping(ch)))
    <3>9. z.fields = s.fields /\ z.current = Append(s.current, ch) /\ z.run = 0
      <4> HIDE DEF z, s
      <4>1. z = [fields |-> s.fields, current |-> Append(s.current, ch), run |-> 0]
        BY <3>6 DEF z
      <4>2. QED BY <4>1
    <3>10. z.run % 2 = 0
      BY <3>8, <3>9
    <3>11. QED BY <3>7, <3>9, <3>10, Zenon
  <2>4. CASE ch \in {Backslash, Separator}
    <3> DEFINE v == Append(u, Backslash)
               w == [fields |-> s.fields, current |-> Append(s.current, Backslash),
                     run |-> s.run + 1]
               r == IF ch = Backslash THEN s.run + 2 ELSE 0
    <3>1. Escaping(ch) = <<Backslash, ch>>
      BY <2>4 DEF Escaping
    <3>2. t \o (f \o <<Backslash, ch>>) = Append(v, ch) /\ v \in Words
      BY <1>1, SpecialSymbols, SMTT(30) DEF Words
    <3>3. SplitLoop(v) = SplitStep(s, Backslash) /\ SplitLoop(v) \in Splitting
      BY <2>1, <3>2, SpecialSymbols, SplitOneMore
    <3>4. SplitStep(s, Backslash) = w
      BY <2>1, StepAdds DEF Backslash, Separator
    <3>5. SplitLoop(Append(v, ch)) = SplitStep(SplitLoop(v), ch)
      BY <3>2, SplitOneMore
    <3>6. (s.run + 1) % 2 = 1 /\ (s.run + 2) % 2 = 0 /\ s.run + 1 \in Nat
      BY <2>1, <2>2, SMTT(30)
    <3>7. SplitStep(w, ch) = [fields |-> s.fields,
                              current |-> Append(Append(s.current, Backslash), ch), run |-> r]
      <4>1. w \in Splitting
        BY <3>3, <3>4
      <4>2. SplitStep(w, ch) = [fields |-> w.fields, current |-> Append(w.current, ch),
                                run |-> IF ch = Backslash THEN w.run + 1 ELSE 0]
        <5>1. w.run % 2 = 1
          BY <3>6
        <5> HIDE DEF w
        <5>2. QED BY <4>1, <5>1, StepAdds
      <4>3. (s.run + 1) + 1 = s.run + 2
        BY <2>2
      <4>4. QED BY <4>2, <4>3
    <3>8. r % 2 = 0
      BY <3>6
    <3>9. Append(Append(c \o f, Backslash), ch) = c \o (f \o <<Backslash, ch>>)
      <4>1. c \in Words
        BY <2>1
      <4>2. Backslash \in Symbols
        BY SpecialSymbols
      <4> HIDE DEF c
      <4>3. QED BY <1>1, <4>1, <4>2, AppendTwoBehind, Zenon
    <3>10. SplitLoop(t \o (f \o Escaping(ch))) = [fields |-> s.fields,
                              current |-> Append(Append(s.current, Backslash), ch), run |-> r]
      <4> HIDE DEF s, v, r, w
      <4>1. QED BY <3>1, <3>2, <3>3, <3>4, <3>5, <3>7
    <3>11. /\ s.fields = SplitLoop(t).fields
           /\ Append(Append(s.current, Backslash), ch) = c \o (f \o Escaping(ch))
      BY <2>1, <3>1, <3>9
    <3> DEFINE z == SplitLoop(t \o (f \o Escaping(ch)))
    <3>12. /\ z.fields = s.fields /\ z.run = r
           /\ z.current = Append(Append(s.current, Backslash), ch)
      <4> HIDE DEF z, s, r
      <4>1. z = [fields |-> s.fields,
                 current |-> Append(Append(s.current, Backslash), ch), run |-> r]
        BY <3>10 DEF z
      <4>2. QED BY <4>1
    <3>13. z.run % 2 = 0
      BY <3>8, <3>12, Zenon
    <3>14. QED BY <3>11, <3>12, <3>13, Zenon
  <2>5. QED BY <2>3, <2>4
<1>4. QED BY <1>2, <1>3 DEF Absorbed

\* The empty text is an empty field.
LEMMA NothingAbsorbed == Absorbed(<<>>)
<1>1. <<>> \in Words /\ \A t \in Words : t \o <<>> = t
  BY DEF Words
<1>2. ASSUME NEW t \in Words PROVE SplitLoop(t).current \in Words
  <2>1. SplitLoop(t) \in Splitting
    BY SpecialSymbols, SplitOneMore
  <2>2. QED BY <2>1 DEF Splitting
<1>3. QED BY <1>1, <1>2 DEF Absorbed

\* A character that needs no escape is a field.
LEMMA PlainAbsorbed ==
  ASSUME NEW ch \in Symbols, ch \notin {Backslash, Separator}
  PROVE  Absorbed(<<ch>>)
<1>1. Absorbed(<<>> \o Escaping(ch))
  BY NothingAbsorbed, AbsorbedMore
<1>2. <<>> \o Escaping(ch) = <<ch>>
  BY DEF Escaping
<1>3. QED BY <1>1, <1>2

\* What EscapeField returns is part of a field, whatever it was given.
LEMMA EscapedAbsorbed ==
  ASSUME NEW x \in Words
  PROVE  Absorbed(EscapeField(x))
<1> DEFINE N == Len(x)
<1>1. PICK e \in EscapeRuns(x) : EscapeField(x) = e[N]
  BY EscapeFieldRuns
<1> DEFINE T == {n \in 0 .. N : Absorbed(e[n])}
<1>2. N \in Nat /\ N \in 0 .. N /\ 0 \in 0 .. N
  BY DEF Words
<1>3. 0 \in T
  BY <1>2, NothingAbsorbed DEF EscapeRuns, Runs
<1>4. ASSUME NEW n \in 0 .. N - 1, n \in T PROVE n + 1 \in T
  <2>1. PICK m \in 1 .. N : m = n + 1
    OBVIOUS
  <2>2. m - 1 = n /\ x[m] \in Symbols
    BY <2>1 DEF Words
  <2>3. Absorbed(e[n]) /\ e[n] \in Words
    BY <1>4 DEF Absorbed
  <2>4. e[m] = e[n] \o Escaping(x[m])
    BY <2>2, <2>3 DEF EscapeRuns, Runs
  <2>5. Absorbed(e[n] \o Escaping(x[m]))
    BY <2>2, <2>3, AbsorbedMore
  <2>6. Absorbed(e[m]) /\ m \in 0 .. N
    BY <2>1, <2>4, <2>5
  <2>7. m \in T
    BY <2>6
  <2>8. QED BY <2>1, <2>7
<1>5. QED
  <2> HIDE DEF T
  <2>1. \A n \in 0 .. N : n \in T
    BY <1>2, <1>3, <1>4, IntervalInduction
  <2>2. QED BY <1>1, <1>2, <2>1 DEF T

\* The function that Joined defines, and the runs of its loop.
IsJoinLoop(text, fields) ==
  text = [n \in 0..Len(fields) |->
            IF n = 0 THEN <<>>
            ELSE text[n - 1] \o (IF n = 1 THEN <<>> ELSE <<Separator>>) \o fields[n]]
JoinSteps(fields) ==
  [n \in 1 .. Len(fields) |->
     [t \in Words |-> t \o (IF n = 1 THEN <<>> ELSE <<Separator>>) \o fields[n]]]
JoinRuns(fields) == Runs(Len(fields), Words, <<>>, JoinSteps(fields))

\* Joined returns the end of such a run.
LEMMA JoinedRuns ==
  ASSUME NEW x \in Seq(Words)
  PROVE  \E text \in JoinRuns(x) : Joined(x) = text[Len(x)]
<1> DEFINE N == Len(x)
           J(t, n) == t \o (IF n = 1 THEN <<>> ELSE <<Separator>>) \o x[n]
           step == JoinSteps(x)
           c == CHOOSE text : IsJoinLoop(text, x)
<1>1. N \in Nat /\ <<>> \in Words
  BY DEF Words
<1>2. ASSUME NEW n \in 1 .. N, NEW t \in Words PROVE J(t, n) \in Words
  <2>1. x[n] \in Words /\ (IF n = 1 THEN <<>> ELSE <<Separator>>) \in Words
    BY ShortWords, SpecialSymbols
  <2> DEFINE sep == IF n = 1 THEN <<>> ELSE <<Separator>>
  <2>2. sep \in Words
    BY <2>1
  <2> HIDE DEF sep
  <2>3. t \o sep \o x[n] \in Words
    BY <2>1, <2>2 DEF Words
  <2>4. QED BY <2>3 DEF sep
<1>3. step \in [1 .. N -> [Words -> Words]]
  <2> DEFINE g(n) == [t \in Words |-> J(t, n)]
  <2>1. step = [n \in 1 .. N |-> g(n)]
    BY DEF JoinSteps
  <2>2. \A n \in 1 .. N : g(n) \in [Words -> Words]
    <3> HIDE DEF J
    <3>1. QED BY <1>2
  <2> HIDE DEF g
  <2>3. QED BY <2>1, <2>2
<1>4. ASSUME NEW n \in 1 .. N, NEW t \in Words PROVE step[n][t] = J(t, n)
  BY <1>4 DEF JoinSteps
<1>5. JoinRuns(x) # {}
  <2> HIDE DEF step, N
  <2>1. Runs(N, Words, <<>>, step) # {}
    BY <1>1, <1>3, RecursionOnPositions
  <2>2. QED BY <2>1 DEF JoinRuns, step, N
<1>6. PICK f : f \in JoinRuns(x)
  BY <1>5
<1>7. /\ f \in [0 .. N -> Words] /\ f[0] = <<>>
      /\ \A n \in 1 .. N : f[n] = step[n][f[n - 1]]
  BY <1>6 DEF JoinRuns, Runs
<1>8. IsJoinLoop(f, x)
  <2>1. f = [n \in 0 .. N |-> f[n]]
    BY <1>7
  <2>2. ASSUME NEW n \in 0 .. N, n # 0 PROVE f[n] = J(f[n - 1], n)
    <3>1. n \in 1 .. N /\ f[n - 1] \in Words
      BY <2>2, <1>7
    <3> HIDE DEF J, step
    <3>2. QED BY <1>4, <1>7, <3>1
  <2>3. \A n \in 0 .. N : f[n] = IF n = 0 THEN <<>> ELSE J(f[n - 1], n)
    <3> HIDE DEF J
    <3>1. QED BY <1>7, <2>2
  <2>4. QED BY <2>1, <2>3, Zenon DEF IsJoinLoop
<1>9. IsJoinLoop(c, x)
  BY <1>8
<1>10. Joined(x) = c[Len(x)]
  BY Zenon DEF Joined, IsJoinLoop
<1>11. c \in JoinRuns(x)
  <2> HIDE DEF c
  <2>1. c = [n \in 0 .. N |-> c[n]]
    BY <1>9 DEF IsJoinLoop
  <2>2. c[0] = <<>> /\ \A n \in 1 .. N : c[n] = J(c[n - 1], n)
    <3>1. 0 \in 0 .. N /\ \A n \in 1 .. N : n \in 0 .. N /\ n # 0
      BY <1>1
    <3>2. \A n \in 0 .. N : c[n] = IF n = 0 THEN <<>> ELSE J(c[n - 1], n)
      BY <1>9, Zenon DEF IsJoinLoop
    <3> HIDE DEF J, N
    <3>3. QED BY <3>1, <3>2
  <2>3. \A n \in 1 .. N : c[n - 1] \in Words => c[n] = step[n][c[n - 1]]
    <3> HIDE DEF J, step
    <3>1. QED BY <1>4, <2>2
  <2>4. c \in Runs(N, Words, <<>>, step)
    <3> HIDE DEF step, N
    <3>1. QED BY <1>1, <1>3, <2>1, <2>2, <2>3, LoopIsRun
  <2>5. QED BY <2>4 DEF JoinRuns
<1>12. QED BY <1>10, <1>11

\* SplitEscaped finds the fields that were joined, separators and backslashes
\* inside them included.
LEMMA SplitJoined ==
  ASSUME NEW fs \in Seq(Words), fs # <<>>, \A i \in 1 .. Len(fs) : Absorbed(fs[i])
  PROVE  Joined(fs) \in Words /\ SplitEscaped(Joined(fs)) = fs
<1> DEFINE N == Len(fs)
<1>1. N \in Nat /\ N >= 1
  OBVIOUS
<1>2. PICK j \in JoinRuns(fs) : Joined(fs) = j[N]
  BY JoinedRuns
<1>3. /\ j \in [0 .. N -> Words] /\ j[0] = <<>>
      /\ \A n \in 1 .. N :
           j[n] = j[n - 1] \o (IF n = 1 THEN <<>> ELSE <<Separator>>) \o fs[n]
  <2>1. j \in [0 .. N -> Words] /\ j[0] = <<>>
    BY DEF JoinRuns, Runs
  <2>2. ASSUME NEW n \in 1 .. N
        PROVE  j[n] = j[n - 1] \o (IF n = 1 THEN <<>> ELSE <<Separator>>) \o fs[n]
    <3>1. j[n - 1] \in Words
      BY <2>1
    <3>2. j[n] = JoinSteps(fs)[n][j[n - 1]]
      BY DEF JoinRuns, Runs
    <3>3. QED BY <3>1, <3>2, Zenon DEF JoinSteps
  <2>3. QED BY <2>1, <2>2
<1> DEFINE Read(n) == /\ SplitLoop(j[n]).fields = SubSeq(fs, 1, n - 1)
                      /\ SplitLoop(j[n]).current = fs[n]
                      /\ SplitLoop(j[n]).run % 2 = 0
           T == {n \in 0 .. N : n # 0 => Read(n)}
<1>4. 0 \in T
  BY <1>1
<1>5. ASSUME NEW n \in 0 .. N - 1, n \in T PROVE n + 1 \in T
  <2>1. PICK m \in 1 .. N : m = n + 1
    BY <1>1
  <2>2. m - 1 = n /\ n \in 0 .. N /\ fs[m] \in Words /\ Absorbed(fs[m])
    BY <2>1
  <2>3. CASE n = 0
    <3>1. j[m] = <<>> \o fs[m]
      <4>1. j[m] = j[0] \o (IF m = 1 THEN <<>> ELSE <<Separator>>) \o fs[m]
        BY <1>3, <2>2, <2>3
      <4>2. j[m] = <<>> \o <<>> \o fs[m]
        BY <1>3, <2>1, <2>3, <4>1
      <4>3. QED BY <4>2, <2>2 DEF Words
    <3>2. SplitLoop(<<>>) = [fields |-> <<>>, current |-> <<>>, run |-> 0] /\ <<>> \in Words
      BY SplitNothing, ShortWords
    <3>3. /\ SplitLoop(<<>>).fields = <<>> /\ SplitLoop(<<>>).current = <<>>
          /\ SplitLoop(<<>>).run % 2 = 0
      BY <3>2
    <3>4. /\ SplitLoop(<<>> \o fs[m]).fields = <<>>
          /\ SplitLoop(<<>> \o fs[m]).current = <<>> \o fs[m]
          /\ SplitLoop(<<>> \o fs[m]).run % 2 = 0
      BY <2>2, <3>2, <3>3, Zenon DEF Absorbed
    <3>5. <<>> \o fs[m] = fs[m] /\ SubSeq(fs, 1, m - 1) = <<>>
      BY <2>1, <2>2, <2>3 DEF Words
    <3>6. Read(m)
      BY <3>1, <3>4, <3>5, Zenon
    <3>7. QED BY <2>1, <3>6
  <2>4. CASE n # 0
    <3> DEFINE u == Append(j[n], Separator)
               s == SplitLoop(j[n])
    <3>1. n \in 1 .. N /\ n \in 0 .. N - 1 /\ m # 1 /\ Read(n) /\ j[n] \in Words
      BY <1>3, <1>5, <2>1, <2>2, <2>4
    <3>2. j[m] = u \o fs[m] /\ u \in Words
      <4>1. j[m] = j[n] \o <<Separator>> \o fs[m]
        BY <1>3, <2>2, <3>1
      <4>2. j[n] \o <<Separator>> = u
        BY <3>1, SpecialSymbols, AppendIsConcat DEF Words
      <4>3. u \in Words
        BY <3>1, SpecialSymbols DEF Words
      <4>4. QED BY <4>1, <4>2, <4>3, Zenon
    <3>3. SplitLoop(u) = SplitStep(s, Separator)
      BY <3>1, SpecialSymbols, SplitOneMore
    <3>4. SplitStep(s, Separator)
            = [fields |-> Append(s.fields, s.current), current |-> <<>>, run |-> 0]
      BY <3>1 DEF SplitStep
    <3>5. SubSeq(fs, 1, m - 1) = Append(SubSeq(fs, 1, n - 1), fs[n])
      <4>1. PICK k \in 0 .. N - 1 : n = k + 1
        BY <3>1
      <4>2. SubSeq(fs, 1, k + 1) = Append(SubSeq(fs, 1, k), fs[k + 1])
        BY <4>1, PrefixOneMore
      <4>3. m - 1 = k + 1 /\ n - 1 = k
        BY <2>2, <4>1
      <4>4. QED BY <4>1, <4>2, <4>3
    <3>6. /\ SplitLoop(u).fields = SubSeq(fs, 1, m - 1)
          /\ SplitLoop(u).current = <<>> /\ SplitLoop(u).run % 2 = 0
      <4>1. SplitLoop(u) = [fields |-> SubSeq(fs, 1, m - 1), current |-> <<>>, run |-> 0]
        BY <3>1, <3>3, <3>4, <3>5, Zenon
      <4>2. 0 % 2 = 0
        OBVIOUS
      <4> DEFINE z == SplitLoop(u)
      <4>3. z.fields = SubSeq(fs, 1, m - 1) /\ z.current = <<>> /\ z.run = 0
        <5>1. z = [fields |-> SubSeq(fs, 1, m - 1), current |-> <<>>, run |-> 0]
          BY <4>1
        <5> HIDE DEF z
        <5>2. QED BY <5>1
      <4> HIDE DEF z
      <4>4. z.run % 2 = 0
        BY <4>2, <4>3
      <4>5. QED BY <4>3, <4>4 DEF z
    <3>7. /\ SplitLoop(u \o fs[m]).fields = SubSeq(fs, 1, m - 1)
          /\ SplitLoop(u \o fs[m]).current = <<>> \o fs[m]
          /\ SplitLoop(u \o fs[m]).run % 2 = 0
      BY <2>2, <3>2, <3>6, Zenon DEF Absorbed
    <3>8. <<>> \o fs[m] = fs[m]
      BY <2>2 DEF Words
    <3>9. Read(m)
      BY <3>2, <3>7, <3>8, Zenon
    <3>10. QED BY <2>1, <3>9
  <2>5. QED BY <2>3, <2>4
<1>6. Read(N)
  <2> HIDE DEF T, Read, N
  <2>1. \A n \in 0 .. N : n \in T
    BY <1>1, <1>4, <1>5, IntervalInduction
  <2>2. N \in 0 .. N /\ N # 0
    BY <1>1
  <2>3. QED BY <2>1, <2>2 DEF T
<1>7. SplitEscaped(j[N]) = Append(SubSeq(fs, 1, N - 1), fs[N])
  BY <1>6, Zenon DEF SplitEscaped
<1>8. Append(SubSeq(fs, 1, N - 1), fs[N]) = fs
  <2>1. PICK k \in 0 .. N - 1 : N = k + 1
    BY <1>1
  <2>2. SubSeq(fs, 1, k + 1) = Append(SubSeq(fs, 1, k), fs[k + 1])
    BY <2>1, PrefixOneMore
  <2>3. k = N - 1 /\ SubSeq(fs, 1, N) = fs
    BY <2>1
  <2>4. QED BY <2>1, <2>2, <2>3
<1>9. j[N] \in Words
  BY <1>1, <1>3
<1>10. QED BY <1>2, <1>7, <1>8, <1>9

-----------------------------------------------------------------------------
(* Both text formats.                                                      *)

\* An envelope of such texts.
WordEnvelope ==
  [schema : 1..MaxNumber, channel : DOMAIN ChannelToString,
   qos : DOMAIN QoSToString, sequence : 0..MaxNumber, timestamp : 0..MaxNumber,
   ttl : 0..MaxNumber, source : Words, target : Words, topic : Words,
   trace : Words, key : Words, payload : Words]

\* A field that is a numeral.
LEMMA NumeralRead ==
  ASSUME NEW n \in 0..MaxNumber
  PROVE  /\ Numeral(n) \in Numerals /\ Numeral(n) \in Symbols
         /\ Numeral(n) \notin {Separator, Backslash, HeaderSep}
         /\ IsNumber(<<Numeral(n)>>) /\ NumberIn(<<Numeral(n)>>) = n
<1>1. Numeral(n) \in Numerals
  BY DEF Numerals
<1>2. Numeral(n) \notin {Separator, Backslash, HeaderSep}
  <2>1. Numerals \cap {Separator, Backslash, HeaderSep} = {}
    BY NumeralAssumption
  <2>2. QED BY <1>1, <2>1
<1>3. <<Numeral(n)>> # <<>> /\ Head(<<Numeral(n)>>) = Numeral(n)
  OBVIOUS
<1>4. \A m \in 0..MaxNumber : Numeral(m) = Numeral(n) => m = n
  BY NumeralAssumption
<1>5. NumberIn(<<Numeral(n)>>) = n
  BY <1>3, <1>4, Zenon DEF NumberIn
<1>6. QED
  BY <1>1, <1>2, <1>3, <1>5 DEF IsNumber, Symbols

\* A field that is a channel.
LEMMA ChannelRead ==
  ASSUME NEW c \in DOMAIN ChannelToString
  PROVE  /\ ChannelToString[c] \in Symbols \ {Separator, Backslash}
         /\ Parses(<<ChannelToString[c]>>, ChannelToString)
         /\ FromString(<<ChannelToString[c]>>, ChannelToString) = c
<1>1. ChannelToString[c] \in Symbols \ {Separator, Backslash}
  BY DEF ChannelToString, Symbols, Separator, Backslash
<1>2. \A k \in DOMAIN ChannelToString : ChannelToString[k] = ChannelToString[c] => k = c
  BY DEF ChannelToString
<1>3. \A k \in DOMAIN ChannelToString :
        <<ChannelToString[c]>> = <<ChannelToString[k]>> => k = c
  BY <1>2
<1>4. QED BY <1>1, <1>3, Zenon DEF Parses, FromString

\* A field that is a quality of service.
LEMMA QoSRead ==
  ASSUME NEW c \in DOMAIN QoSToString
  PROVE  /\ QoSToString[c] \in Symbols \ {Separator, Backslash}
         /\ Parses(<<QoSToString[c]>>, QoSToString)
         /\ FromString(<<QoSToString[c]>>, QoSToString) = c
<1>1. QoSToString[c] \in Symbols \ {Separator, Backslash}
  BY DEF QoSToString, Symbols, Separator, Backslash
<1>2. \A k \in DOMAIN QoSToString : QoSToString[k] = QoSToString[c] => k = c
  BY DEF QoSToString
<1>3. \A k \in DOMAIN QoSToString :
        <<QoSToString[c]>> = <<QoSToString[k]>> => k = c
  BY <1>2
<1>4. QED BY <1>1, <1>3, Zenon DEF Parses, FromString

\* The six fields in front.
LEMMA PreludeFields ==
  ASSUME NEW e \in WordEnvelope
  PROVE  /\ Prelude(e) \in Seq(Words) /\ Len(Prelude(e)) = 6
         /\ \A i \in 1 .. 6 : Absorbed(Prelude(e)[i])
<1>1. /\ e.schema \in 0..MaxNumber /\ e.sequence \in 0..MaxNumber
      /\ e.timestamp \in 0..MaxNumber /\ e.ttl \in 0..MaxNumber
      /\ e.channel \in DOMAIN ChannelToString /\ e.qos \in DOMAIN QoSToString
  <2>1. 1..MaxNumber \subseteq 0..MaxNumber
    BY NumeralAssumption
  <2>2. QED BY <2>1 DEF WordEnvelope
<1>2. \A n \in 0..MaxNumber : Absorbed(<<Numeral(n)>>)
  BY NumeralRead, PlainAbsorbed
<1>3. /\ Absorbed(<<ChannelToString[e.channel]>>) /\ Absorbed(<<QoSToString[e.qos]>>)
  BY <1>1, ChannelRead, QoSRead, PlainAbsorbed
<1>4. \A i \in 1 .. 6 : Absorbed(Prelude(e)[i])
  <2> DEFINE a == <<Numeral(e.schema)>> 
             b == <<ChannelToString[e.channel]>> 
             c == <<QoSToString[e.qos]>>
             d == <<Numeral(e.sequence)>>
             t == <<Numeral(e.timestamp)>>
             l == <<Numeral(e.ttl)>>
  <2>1. Absorbed(a) /\ Absorbed(b) /\ Absorbed(c) /\ Absorbed(d) /\ Absorbed(t) /\ Absorbed(l)
    BY <1>1, <1>2, <1>3
  <2>2. Prelude(e) = <<a, b, c, d, t, l>>
    BY Zenon DEF Prelude
  <2> HIDE DEF a, b, c, d, t, l
  <2>3. QED BY <2>1, <2>2
<1>5. \A i \in 1 .. 6 : Prelude(e)[i] \in Words
  BY <1>4 DEF Absorbed
<1>6. Len(Prelude(e)) = 6 /\ Prelude(e) = [i \in 1 .. 6 |-> Prelude(e)[i]]
  BY DEF Prelude
<1>7. Prelude(e) \in Seq(Words)
  <2> DEFINE p == Prelude(e)
  <2> HIDE DEF p
  <2>1. QED BY <1>5, <1>6 DEF p
<1>8. QED BY <1>4, <1>6, <1>7

\* What SplitEscaped finds in an encoded envelope.
LEMMA EncodedFields ==
  ASSUME NEW e \in WordEnvelope, NEW q \in Seq(Words), Len(q) \in {2, 5},
         \A i \in 1 .. Len(q) : Absorbed(q[i]),
         NEW text, text = Joined(Prelude(e) \o q)
  PROVE  /\ text \in Words /\ text # <<>>
         /\ Len(SplitEscaped(text)) = 6 + Len(q)
         /\ SplitEscaped(text)[1] = <<Numeral(e.schema)>>
         /\ SplitEscaped(text)[2] = <<ChannelToString[e.channel]>>
         /\ SplitEscaped(text)[3] = <<QoSToString[e.qos]>>
         /\ SplitEscaped(text)[4] = <<Numeral(e.sequence)>>
         /\ SplitEscaped(text)[5] = <<Numeral(e.timestamp)>>
         /\ SplitEscaped(text)[6] = <<Numeral(e.ttl)>>
         /\ \A i \in 1 .. Len(q) : SplitEscaped(text)[6 + i] = q[i]
<1> DEFINE p == Prelude(e)
           fs == p \o q
<1>1. p \in Seq(Words) /\ Len(p) = 6 /\ \A i \in 1 .. 6 : Absorbed(p[i])
  BY PreludeFields
<1>2. /\ fs \in Seq(Words) /\ Len(fs) = 6 + Len(q)
      /\ \A i \in 1 .. 6 + Len(q) : fs[i] = IF i <= 6 THEN p[i] ELSE q[i - 6]
  <2> HIDE DEF p
  <2>1. /\ fs \in Seq(Words) /\ Len(fs) = Len(p) + Len(q)
        /\ \A i \in 1 .. Len(p) + Len(q) : fs[i] = IF i <= Len(p) THEN p[i] ELSE q[i - Len(p)]
    BY <1>1, ConcatProperties, Zenon
  <2> HIDE DEF fs
  <2>2. QED BY <1>1, <2>1
<1>3. \A i \in 1 .. Len(fs) : Absorbed(fs[i])
  <2> HIDE DEF p, fs
  <2>1. ASSUME NEW i \in 1 .. 6 + Len(q) PROVE Absorbed(fs[i])
    <3>1. CASE i <= 6
      BY <1>1, <1>2, <3>1
    <3>2. CASE ~(i <= 6)
      <4>1. i - 6 \in 1 .. Len(q)
        BY <3>2
      <4>2. QED BY <1>2, <3>2, <4>1
    <3>3. QED BY <3>1, <3>2
  <2>2. QED BY <1>2, <2>1
<1>4. fs # <<>>
  BY <1>2
<1>5. text \in Words /\ SplitEscaped(text) = fs
  <2> HIDE DEF fs
  <2>1. QED BY <1>2, <1>3, <1>4, SplitJoined DEF fs
<1>6. text # <<>>
  <2>1. SplitEscaped(<<>>) = Append(<<>>, <<>>)
    <3> DEFINE z == SplitLoop(<<>>)
    <3>1. SplitEscaped(<<>>) = Append(z.fields, z.current)
      BY DEF SplitEscaped
    <3>2. z = [fields |-> <<>>, current |-> <<>>, run |-> 0]
      BY SplitNothing
    <3> HIDE DEF z
    <3>3. z.fields = <<>> /\ z.current = <<>>
      BY <3>2
    <3>4. QED BY <3>1, <3>3
  <2>2. Len(SplitEscaped(<<>>)) = 1
    BY <2>1
  <2>3. QED BY <1>2, <1>5, <2>2
<1>7. \A i \in 1 .. 6 : fs[i] = p[i]
  <2> HIDE DEF p, fs
  <2>1. QED BY <1>2
<1>8. \A i \in 1 .. Len(q) : fs[6 + i] = q[i]
  <2> HIDE DEF p, fs
  <2>1. QED BY <1>2
<1>9. /\ p[1] = <<Numeral(e.schema)>> /\ p[2] = <<ChannelToString[e.channel]>>
      /\ p[3] = <<QoSToString[e.qos]>> /\ p[4] = <<Numeral(e.sequence)>>
      /\ p[5] = <<Numeral(e.timestamp)>> /\ p[6] = <<Numeral(e.ttl)>>
  BY DEF Prelude
<1>10. QED
  <2> HIDE DEF p, fs
  <2>1. QED BY <1>2, <1>5, <1>6, <1>7, <1>8, <1>9

\* What the text formats keep of an envelope: neither keeps the
\* deduplication key, and the compact one only topic and payload.
InLegacy(e) == [e EXCEPT !.key = NoText]
InCompact(e) ==
  [e EXCEPT !.key = NoText, !.source = NoText, !.target = NoText, !.trace = NoText]

\* An envelope by its fields.
LEMMA EnvelopeIs ==
  ASSUME NEW e \in WordEnvelope
  PROVE  e = [schema |-> e.schema, channel |-> e.channel, qos |-> e.qos,
              sequence |-> e.sequence, timestamp |-> e.timestamp, ttl |-> e.ttl,
              source |-> e.source, target |-> e.target, topic |-> e.topic,
              trace |-> e.trace, key |-> e.key, payload |-> e.payload]
BY DEF WordEnvelope

\* Escaped fields can be read back.
LEMMA EscapedRead ==
  ASSUME NEW x \in Words
  PROVE  Absorbed(EscapeField(x)) /\ UnescapeField(EscapeField(x)) = x
BY EscapedAbsorbed, UnescapeEscaped

\* The numbers and names of an encoded envelope are read back.
LEMMA PreludeRead ==
  ASSUME NEW e \in WordEnvelope
  PROVE  /\ IsNumber(<<Numeral(e.schema)>>) /\ NumberIn(<<Numeral(e.schema)>>) = e.schema
         /\ IsNumber(<<Numeral(e.sequence)>>)
         /\ NumberIn(<<Numeral(e.sequence)>>) = e.sequence
         /\ IsNumber(<<Numeral(e.timestamp)>>)
         /\ NumberIn(<<Numeral(e.timestamp)>>) = e.timestamp
         /\ IsNumber(<<Numeral(e.ttl)>>) /\ NumberIn(<<Numeral(e.ttl)>>) = e.ttl
         /\ Parses(<<ChannelToString[e.channel]>>, ChannelToString)
         /\ FromString(<<ChannelToString[e.channel]>>, ChannelToString) = e.channel
         /\ Parses(<<QoSToString[e.qos]>>, QoSToString)
         /\ FromString(<<QoSToString[e.qos]>>, QoSToString) = e.qos
         /\ e.schema >= 1
<1>1. /\ e.schema \in 0..MaxNumber /\ e.sequence \in 0..MaxNumber
      /\ e.timestamp \in 0..MaxNumber /\ e.ttl \in 0..MaxNumber
      /\ e.channel \in DOMAIN ChannelToString /\ e.qos \in DOMAIN QoSToString
      /\ e.schema >= 1
  <2>1. 1..MaxNumber \subseteq 0..MaxNumber /\ \A n \in 1..MaxNumber : n >= 1
    BY NumeralAssumption
  <2>2. QED BY <2>1 DEF WordEnvelope
<1>2. QED BY <1>1, NumeralRead, ChannelRead, QoSRead

\* The default envelope with the numbers and names filled in, and with the
\* texts of either format filled in after them.
WithPrelude(sc, ch, qs, sq, ts, tl) ==
  [FactoryEnvelope EXCEPT !.schema = sc, !.sequence = sq, !.timestamp = ts,
                          !.ttl = tl, !.channel = ch, !.qos = qs]
WithTexts(P, so, ta, to, tr, pl) ==
  [P EXCEPT !.source = so, !.target = ta, !.topic = to, !.trace = tr, !.payload = pl]
WithTwoTexts(P, to, pl) == [P EXCEPT !.topic = to, !.payload = pl]

\* WithPrelude field by field.
LEMMA FilledIn ==
  ASSUME NEW sc, NEW ch, NEW qs, NEW sq, NEW ts, NEW tl
  PROVE  WithPrelude(sc, ch, qs, sq, ts, tl)
           = [schema |-> sc, channel |-> ch, qos |-> qs, sequence |-> sq,
              timestamp |-> ts, ttl |-> tl, source |-> NoText, target |-> NoText,
              topic |-> NoText, trace |-> NoText, key |-> NoText, payload |-> NoText]
<1> DEFINE z1 == [FactoryEnvelope EXCEPT !.schema = sc]
           z2 == [z1 EXCEPT !.sequence = sq]
           z3 == [z2 EXCEPT !.timestamp = ts]
           z4 == [z3 EXCEPT !.ttl = tl]
           z5 == [z4 EXCEPT !.channel = ch]
           z6 == [z5 EXCEPT !.qos = qs]
<1>1. z1 = [schema |-> sc, channel |-> "kEvent", qos |-> "kBestEffort",
            sequence |-> 0, timestamp |-> 0, ttl |-> 1000, source |-> NoText,
            target |-> NoText, topic |-> NoText, trace |-> NoText, key |-> NoText,
            payload |-> NoText]
  BY DEF FactoryEnvelope
<1>2. z2 = [schema |-> sc, channel |-> "kEvent", qos |-> "kBestEffort",
            sequence |-> sq, timestamp |-> 0, ttl |-> 1000, source |-> NoText,
            target |-> NoText, topic |-> NoText, trace |-> NoText, key |-> NoText,
            payload |-> NoText]
  <2> HIDE DEF z1
  <2>1. QED BY <1>1
<1>3. z3 = [schema |-> sc, channel |-> "kEvent", qos |-> "kBestEffort",
            sequence |-> sq, timestamp |-> ts, ttl |-> 1000, source |-> NoText,
            target |-> NoText, topic |-> NoText, trace |-> NoText, key |-> NoText,
            payload |-> NoText]
  <2> HIDE DEF z2
  <2>1. QED BY <1>2
<1>4. z4 = [schema |-> sc, channel |-> "kEvent", qos |-> "kBestEffort",
            sequence |-> sq, timestamp |-> ts, ttl |-> tl, source |-> NoText,
            target |-> NoText, topic |-> NoText, trace |-> NoText, key |-> NoText,
            payload |-> NoText]
  <2> HIDE DEF z3
  <2>1. QED BY <1>3
<1>5. z5 = [schema |-> sc, channel |-> ch, qos |-> "kBestEffort", sequence |-> sq,
            timestamp |-> ts, ttl |-> tl, source |-> NoText, target |-> NoText,
            topic |-> NoText, trace |-> NoText, key |-> NoText, payload |-> NoText]
  <2> HIDE DEF z4
  <2>1. QED BY <1>4
<1>6. z6 = [schema |-> sc, channel |-> ch, qos |-> qs, sequence |-> sq,
            timestamp |-> ts, ttl |-> tl, source |-> NoText, target |-> NoText,
            topic |-> NoText, trace |-> NoText, key |-> NoText, payload |-> NoText]
  <2> HIDE DEF z5
  <2>1. QED BY <1>5
<1>7. z6 = WithPrelude(sc, ch, qs, sq, ts, tl)
  BY DEF WithPrelude
<1>8. QED
  <2> HIDE DEF z1, z2, z3, z4, z5, z6
  <2>1. QED BY <1>6, <1>7

\* WithTexts field by field.
LEMMA LegacyFilledIn ==
  ASSUME NEW sc, NEW ch, NEW qs, NEW sq, NEW ts, NEW tl,
         NEW so, NEW ta, NEW to, NEW tr, NEW pl,
         NEW P, P = [schema |-> sc, channel |-> ch, qos |-> qs, sequence |-> sq,
              timestamp |-> ts, ttl |-> tl, source |-> NoText, target |-> NoText,
              topic |-> NoText, trace |-> NoText, key |-> NoText, payload |-> NoText]
  PROVE  WithTexts(P, so, ta, to, tr, pl)
           = [schema |-> sc, channel |-> ch, qos |-> qs, sequence |-> sq,
              timestamp |-> ts, ttl |-> tl, source |-> so, target |-> ta,
              topic |-> to, trace |-> tr, key |-> NoText, payload |-> pl]
<1> DEFINE z1 == [P EXCEPT !.source = so]
           z2 == [z1 EXCEPT !.target = ta]
           z3 == [z2 EXCEPT !.topic = to]
           z4 == [z3 EXCEPT !.trace = tr]
           z5 == [z4 EXCEPT !.payload = pl]
<1>1. z1 = [schema |-> sc, channel |-> ch, qos |-> qs, sequence |-> sq,
            timestamp |-> ts, ttl |-> tl, source |-> so, target |-> NoText,
            topic |-> NoText, trace |-> NoText, key |-> NoText, payload |-> NoText]
  OBVIOUS
<1>2. z2 = [schema |-> sc, channel |-> ch, qos |-> qs, sequence |-> sq,
            timestamp |-> ts, ttl |-> tl, source |-> so, target |-> ta,
            topic |-> NoText, trace |-> NoText, key |-> NoText, payload |-> NoText]
  <2> HIDE DEF z1
  <2>1. QED BY <1>1
<1>3. z3 = [schema |-> sc, channel |-> ch, qos |-> qs, sequence |-> sq,
            timestamp |-> ts, ttl |-> tl, source |-> so, target |-> ta,
            topic |-> to, trace |-> NoText, key |-> NoText, payload |-> NoText]
  <2> HIDE DEF z2
  <2>1. QED BY <1>2
<1>4. z4 = [schema |-> sc, channel |-> ch, qos |-> qs, sequence |-> sq,
            timestamp |-> ts, ttl |-> tl, source |-> so, target |-> ta,
            topic |-> to, trace |-> tr, key |-> NoText, payload |-> NoText]
  <2> HIDE DEF z3
  <2>1. QED BY <1>3
<1>5. z5 = [schema |-> sc, channel |-> ch, qos |-> qs, sequence |-> sq,
            timestamp |-> ts, ttl |-> tl, source |-> so, target |-> ta,
            topic |-> to, trace |-> tr, key |-> NoText, payload |-> pl]
  <2> HIDE DEF z4
  <2>1. QED BY <1>4
<1>6. z5 = WithTexts(P, so, ta, to, tr, pl)
  BY DEF WithTexts
<1>7. QED
  <2> HIDE DEF z1, z2, z3, z4, z5
  <2>1. QED BY <1>5, <1>6

\* WithTwoTexts field by field.
LEMMA CompactFilledIn ==
  ASSUME NEW sc, NEW ch, NEW qs, NEW sq, NEW ts, NEW tl, NEW to, NEW pl,
         NEW P, P = [schema |-> sc, channel |-> ch, qos |-> qs, sequence |-> sq,
              timestamp |-> ts, ttl |-> tl, source |-> NoText, target |-> NoText,
              topic |-> NoText, trace |-> NoText, key |-> NoText, payload |-> NoText]
  PROVE  WithTwoTexts(P, to, pl)
           = [schema |-> sc, channel |-> ch, qos |-> qs, sequence |-> sq,
              timestamp |-> ts, ttl |-> tl, source |-> NoText, target |-> NoText,
              topic |-> to, trace |-> NoText, key |-> NoText, payload |-> pl]
<1> DEFINE z1 == [P EXCEPT !.topic = to]
           z2 == [z1 EXCEPT !.payload = pl]
<1>1. z1 = [schema |-> sc, channel |-> ch, qos |-> qs, sequence |-> sq,
            timestamp |-> ts, ttl |-> tl, source |-> NoText, target |-> NoText,
            topic |-> to, trace |-> NoText, key |-> NoText, payload |-> NoText]
  OBVIOUS
<1>2. z2 = [schema |-> sc, channel |-> ch, qos |-> qs, sequence |-> sq,
            timestamp |-> ts, ttl |-> tl, source |-> NoText, target |-> NoText,
            topic |-> to, trace |-> NoText, key |-> NoText, payload |-> pl]
  <2> HIDE DEF z1
  <2>1. QED BY <1>1
<1>3. z2 = WithTwoTexts(P, to, pl)
  BY DEF WithTwoTexts
<1>4. QED
  <2> HIDE DEF z1, z2
  <2>1. QED BY <1>2, <1>3

\* Decode undoes Encode.
LEMMA DecodeEncode ==
  ASSUME NEW e \in WordEnvelope
  PROVE  /\ Encode(e) \in Words
         /\ Decode(Encode(e)) = [ok |-> TRUE, envelope |-> InLegacy(e)]
<1> DEFINE text == Encode(e)
           f == SplitEscaped(text)
           E(x) == EscapeField(x)
           q == <<E(e.source), E(e.target), E(e.topic), E(e.trace), E(e.payload)>>
<1>1. /\ e.source \in Words /\ e.target \in Words /\ e.topic \in Words
      /\ e.trace \in Words /\ e.payload \in Words
  BY DEF WordEnvelope
<1>2. /\ Absorbed(q[1]) /\ Absorbed(q[2]) /\ Absorbed(q[3]) /\ Absorbed(q[4])
      /\ Absorbed(q[5]) /\ Len(q) = 5
      /\ UnescapeField(q[1]) = e.source /\ UnescapeField(q[2]) = e.target
      /\ UnescapeField(q[3]) = e.topic /\ UnescapeField(q[4]) = e.trace
      /\ UnescapeField(q[5]) = e.payload
  BY <1>1, EscapedRead
<1>3. q \in Seq(Words) /\ \A i \in 1 .. Len(q) : Absorbed(q[i])
  <2>1. \A i \in 1 .. 5 : Absorbed(q[i]) /\ q[i] \in Words
    <3> HIDE DEF q
    <3>1. \A i \in 1 .. 5 : i = 1 \/ i = 2 \/ i = 3 \/ i = 4 \/ i = 5
      OBVIOUS
    <3>2. \A i \in 1 .. 5 : Absorbed(q[i])
      BY <1>2, <3>1
    <3>3. QED BY <3>2 DEF Absorbed
  <2>2. q = [i \in 1 .. 5 |-> q[i]] /\ Len(q) = 5
    OBVIOUS
  <2> HIDE DEF q
  <2>3. QED BY <2>1, <2>2
<1>4. text = Joined(Prelude(e) \o q)
  BY Zenon DEF Encode
<1>5. /\ text \in Words /\ text # <<>> /\ Len(f) = 11
      /\ f[1] = <<Numeral(e.schema)>> /\ f[2] = <<ChannelToString[e.channel]>>
      /\ f[3] = <<QoSToString[e.qos]>> /\ f[4] = <<Numeral(e.sequence)>>
      /\ f[5] = <<Numeral(e.timestamp)>> /\ f[6] = <<Numeral(e.ttl)>>
      /\ f[7] = q[1] /\ f[8] = q[2] /\ f[9] = q[3] /\ f[10] = q[4] /\ f[11] = q[5]
  <2> HIDE DEF text, q
  <2>1. /\ text \in Words /\ text # <<>> /\ Len(f) = 6 + Len(q)
        /\ f[1] = <<Numeral(e.schema)>> /\ f[2] = <<ChannelToString[e.channel]>>
        /\ f[3] = <<QoSToString[e.qos]>> /\ f[4] = <<Numeral(e.sequence)>>
        /\ f[5] = <<Numeral(e.timestamp)>> /\ f[6] = <<Numeral(e.ttl)>>
        /\ \A i \in 1 .. Len(q) : f[6 + i] = q[i]
    <3>1. Len(q) \in {2, 5}
      BY <1>2
    <3>2. QED BY <1>3, <1>4, <3>1, EncodedFields
  <2> HIDE DEF f
  <2>2. Len(q) = 5
    BY <1>2
  <2>3. QED BY <2>1, <2>2
<1> DEFINE got == [schema |-> e.schema, channel |-> e.channel, qos |-> e.qos,
              sequence |-> e.sequence, timestamp |-> e.timestamp, ttl |-> e.ttl,
              source |-> e.source, target |-> e.target, topic |-> e.topic,
              trace |-> e.trace, key |-> NoText, payload |-> e.payload]
<1>6. Decode(text) = [ok |-> TRUE, envelope |-> got]
  <2>1. /\ UnescapeField(f[7]) = e.source /\ UnescapeField(f[8]) = e.target
        /\ UnescapeField(f[9]) = e.topic /\ UnescapeField(f[10]) = e.trace
        /\ UnescapeField(f[11]) = e.payload
    <3> HIDE DEF f, q
    <3>1. QED BY <1>2, <1>5
  <2>2. /\ IsNumber(f[1]) /\ IsNumber(f[4]) /\ IsNumber(f[5]) /\ IsNumber(f[6])
        /\ NumberIn(f[1]) = e.schema /\ NumberIn(f[4]) = e.sequence
        /\ NumberIn(f[5]) = e.timestamp /\ NumberIn(f[6]) = e.ttl /\ e.schema >= 1
        /\ Parses(f[2], ChannelToString) /\ Parses(f[3], QoSToString)
        /\ FromString(f[2], ChannelToString) = e.channel
        /\ FromString(f[3], QoSToString) = e.qos
    <3> HIDE DEF f, q
    <3>1. QED BY <1>5, PreludeRead
  <2>3. Len(f) = 11 /\ text # <<>>
    BY <1>5
  <2> HIDE DEF q, text, f
  <2> DEFINE P == [FactoryEnvelope EXCEPT
                     !.schema = NumberIn(f[1]), !.sequence = NumberIn(f[4]),
                     !.timestamp = NumberIn(f[5]), !.ttl = NumberIn(f[6]),
                     !.channel = FromString(f[2], ChannelToString),
                     !.qos = FromString(f[3], QoSToString)]
             U(i) == UnescapeField(f[i])
  <2>4. Len(f) \in {8, 11} /\ NumberIn(f[1]) >= 1 /\ Len(f) # 8
    BY <2>2, <2>3
  <2>5. Decode(text) = [ok |-> TRUE, envelope |->
                          [P EXCEPT !.source = U(7), !.target = U(8), !.topic = U(9),
                                    !.trace = U(10), !.payload = U(11)]]
    BY <2>2, <2>3, <2>4, Zenon DEF Decode, f
  <2>6. P = [schema |-> e.schema, channel |-> e.channel, qos |-> e.qos,
             sequence |-> e.sequence, timestamp |-> e.timestamp, ttl |-> e.ttl,
             source |-> NoText, target |-> NoText, topic |-> NoText,
             trace |-> NoText, key |-> NoText, payload |-> NoText]
    <3>1. P = WithPrelude(e.schema, e.channel, e.qos, e.sequence, e.timestamp, e.ttl)
      BY <2>2 DEF WithPrelude
    <3> HIDE DEF P
    <3>2. QED BY <3>1, FilledIn
  <2> HIDE DEF P
  <2>7. [P EXCEPT !.source = U(7), !.target = U(8), !.topic = U(9),
                  !.trace = U(10), !.payload = U(11)] = got
    <3>1. WithTexts(P, e.source, e.target, e.topic, e.trace, e.payload) = got
      BY <2>6, LegacyFilledIn
    <3> HIDE DEF got
    <3>2. QED BY <2>1, <3>1 DEF WithTexts
  <2>8. QED BY <2>5, <2>7
<1>7. got = InLegacy(e)
  BY EnvelopeIs DEF InLegacy
<1>8. QED BY <1>5, <1>6, <1>7

\* What the compact format keeps, field by field.
LEMMA InCompactIs ==
  ASSUME NEW e \in WordEnvelope
  PROVE  InCompact(e)
           = [schema |-> e.schema, channel |-> e.channel, qos |-> e.qos,
              sequence |-> e.sequence, timestamp |-> e.timestamp, ttl |-> e.ttl,
              source |-> NoText, target |-> NoText, topic |-> e.topic,
              trace |-> NoText, key |-> NoText, payload |-> e.payload]
<1> DEFINE z1 == [e EXCEPT !.key = NoText]
           z2 == [z1 EXCEPT !.source = NoText]
           z3 == [z2 EXCEPT !.target = NoText]
           z4 == [z3 EXCEPT !.trace = NoText]
<1>1. z1 = [schema |-> e.schema, channel |-> e.channel, qos |-> e.qos,
            sequence |-> e.sequence, timestamp |-> e.timestamp, ttl |-> e.ttl,
            source |-> e.source, target |-> e.target, topic |-> e.topic,
            trace |-> e.trace, key |-> NoText, payload |-> e.payload]
  BY EnvelopeIs
<1>2. z2 = [schema |-> e.schema, channel |-> e.channel, qos |-> e.qos,
            sequence |-> e.sequence, timestamp |-> e.timestamp, ttl |-> e.ttl,
            source |-> NoText, target |-> e.target, topic |-> e.topic,
            trace |-> e.trace, key |-> NoText, payload |-> e.payload]
  <2> HIDE DEF z1
  <2>1. QED BY <1>1
<1>3. z3 = [schema |-> e.schema, channel |-> e.channel, qos |-> e.qos,
            sequence |-> e.sequence, timestamp |-> e.timestamp, ttl |-> e.ttl,
            source |-> NoText, target |-> NoText, topic |-> e.topic,
            trace |-> e.trace, key |-> NoText, payload |-> e.payload]
  <2> HIDE DEF z2
  <2>1. QED BY <1>2
<1>4. z4 = [schema |-> e.schema, channel |-> e.channel, qos |-> e.qos,
            sequence |-> e.sequence, timestamp |-> e.timestamp, ttl |-> e.ttl,
            source |-> NoText, target |-> NoText, topic |-> e.topic,
            trace |-> NoText, key |-> NoText, payload |-> e.payload]
  <2> HIDE DEF z3
  <2>1. QED BY <1>3
<1>5. InCompact(e) = z4
  BY DEF InCompact
<1>6. QED BY <1>4, <1>5

\* Decode undoes EncodeCompact, as far as the compact format goes.
LEMMA DecodeEncodeCompact ==
  ASSUME NEW e \in WordEnvelope
  PROVE  /\ EncodeCompact(e) \in Words
         /\ Decode(EncodeCompact(e)) = [ok |-> TRUE, envelope |-> InCompact(e)]
<1> DEFINE text == EncodeCompact(e)
           f == SplitEscaped(text)
           E(x) == EscapeField(x)
           q == <<E(e.topic), E(e.payload)>>
<1>1. e.topic \in Words /\ e.payload \in Words
  BY DEF WordEnvelope
<1>2. /\ Absorbed(q[1]) /\ Absorbed(q[2]) /\ Len(q) = 2
      /\ UnescapeField(q[1]) = e.topic /\ UnescapeField(q[2]) = e.payload
  BY <1>1, EscapedRead
<1>3. q \in Seq(Words) /\ \A i \in 1 .. Len(q) : Absorbed(q[i])
  <2>1. \A i \in 1 .. 2 : Absorbed(q[i]) /\ q[i] \in Words
    <3> HIDE DEF q
    <3>1. \A i \in 1 .. 2 : i = 1 \/ i = 2
      OBVIOUS
    <3>2. \A i \in 1 .. 2 : Absorbed(q[i])
      BY <1>2, <3>1
    <3>3. QED BY <3>2 DEF Absorbed
  <2>2. q = [i \in 1 .. 2 |-> q[i]] /\ Len(q) = 2
    OBVIOUS
  <2> HIDE DEF q
  <2>3. QED BY <2>1, <2>2
<1>4. text = Joined(Prelude(e) \o q)
  BY Zenon DEF EncodeCompact
<1>5. /\ text \in Words /\ text # <<>> /\ Len(f) = 8
      /\ f[1] = <<Numeral(e.schema)>> /\ f[2] = <<ChannelToString[e.channel]>>
      /\ f[3] = <<QoSToString[e.qos]>> /\ f[4] = <<Numeral(e.sequence)>>
      /\ f[5] = <<Numeral(e.timestamp)>> /\ f[6] = <<Numeral(e.ttl)>>
      /\ f[7] = q[1] /\ f[8] = q[2]
  <2> HIDE DEF text, q
  <2>1. /\ text \in Words /\ text # <<>> /\ Len(f) = 6 + Len(q)
        /\ f[1] = <<Numeral(e.schema)>> /\ f[2] = <<ChannelToString[e.channel]>>
        /\ f[3] = <<QoSToString[e.qos]>> /\ f[4] = <<Numeral(e.sequence)>>
        /\ f[5] = <<Numeral(e.timestamp)>> /\ f[6] = <<Numeral(e.ttl)>>
        /\ \A i \in 1 .. Len(q) : f[6 + i] = q[i]
    <3>1. Len(q) \in {2, 5}
      BY <1>2
    <3>2. QED BY <1>3, <1>4, <3>1, EncodedFields
  <2> HIDE DEF f
  <2>2. Len(q) = 2
    BY <1>2
  <2>3. QED BY <2>1, <2>2
<1> DEFINE got == [schema |-> e.schema, channel |-> e.channel, qos |-> e.qos,
              sequence |-> e.sequence, timestamp |-> e.timestamp, ttl |-> e.ttl,
              source |-> NoText, target |-> NoText, topic |-> e.topic,
              trace |-> NoText, key |-> NoText, payload |-> e.payload]
<1>6. Decode(text) = [ok |-> TRUE, envelope |-> got]
  <2>1. UnescapeField(f[7]) = e.topic /\ UnescapeField(f[8]) = e.payload
    <3> HIDE DEF f, q
    <3>1. QED BY <1>2, <1>5
  <2>2. /\ IsNumber(f[1]) /\ IsNumber(f[4]) /\ IsNumber(f[5]) /\ IsNumber(f[6])
        /\ NumberIn(f[1]) = e.schema /\ NumberIn(f[4]) = e.sequence
        /\ NumberIn(f[5]) = e.timestamp /\ NumberIn(f[6]) = e.ttl /\ e.schema >= 1
        /\ Parses(f[2], ChannelToString) /\ Parses(f[3], QoSToString)
        /\ FromString(f[2], ChannelToString) = e.channel
        /\ FromString(f[3], QoSToString) = e.qos
    <3> HIDE DEF f, q
    <3>1. QED BY <1>5, PreludeRead
  <2>3. Len(f) = 8 /\ text # <<>>
    BY <1>5
  <2> HIDE DEF q, text, f
  <2> DEFINE P == [FactoryEnvelope EXCEPT
                     !.schema = NumberIn(f[1]), !.sequence = NumberIn(f[4]),
                     !.timestamp = NumberIn(f[5]), !.ttl = NumberIn(f[6]),
                     !.channel = FromString(f[2], ChannelToString),
                     !.qos = FromString(f[3], QoSToString)]
             U(i) == UnescapeField(f[i])
  <2>4. Len(f) \in {8, 11} /\ NumberIn(f[1]) >= 1
    BY <2>2, <2>3
  <2>5. Decode(text) = [ok |-> TRUE, envelope |->
                          [P EXCEPT !.topic = U(7), !.payload = U(8)]]
    BY <2>2, <2>3, <2>4, Zenon DEF Decode, f
  <2>6. P = [schema |-> e.schema, channel |-> e.channel, qos |-> e.qos,
             sequence |-> e.sequence, timestamp |-> e.timestamp, ttl |-> e.ttl,
             source |-> NoText, target |-> NoText, topic |-> NoText,
             trace |-> NoText, key |-> NoText, payload |-> NoText]
    <3>1. P = WithPrelude(e.schema, e.channel, e.qos, e.sequence, e.timestamp, e.ttl)
      BY <2>2 DEF WithPrelude
    <3> HIDE DEF P
    <3>2. QED BY <3>1, FilledIn
  <2> HIDE DEF P
  <2>7. [P EXCEPT !.topic = U(7), !.payload = U(8)] = got
    <3>1. WithTwoTexts(P, e.topic, e.payload) = got
      BY <2>6, CompactFilledIn
    <3> HIDE DEF got
    <3>2. QED BY <2>1, <3>1 DEF WithTwoTexts
  <2>8. QED BY <2>5, <2>7
<1>7. got = InCompact(e)
  BY InCompactIs
<1>8. QED BY <1>5, <1>6, <1>7
-----------------------------------------------------------------------------
(* Header and wire frames.                                                 *)

\* The first separator from position n on.
LEMMA FindFirst ==
  ASSUME NEW S, NEW text \in Seq(S), NEW n \in Nat, n >= 1, NEW k \in n .. Len(text),
         text[k] = HeaderSep, \A i \in n .. k - 1 : text[i] # HeaderSep
  PROVE  Find(text, n) = k
<1> DEFINE at == {i \in n .. Len(text) : text[i] = HeaderSep}
<1>1. k \in at /\ k \in Nat
  OBVIOUS
<1>2. \A i \in at : k <= i /\ i \in Nat
  OBVIOUS
<1>3. Min(at) = k
  <2> HIDE DEF at
  <2>1. \A x \in at : (\A y \in at : x =< y) => x = k
    BY <1>1, <1>2
  <2>2. QED BY <1>1, <1>2, <2>1 DEF Min
<1>4. QED BY <1>1, <1>3 DEF Find

\* A text behind another one.
LEMMA Behind ==
  ASSUME NEW h \in Words, NEW p \in Words
  PROVE  /\ h \o p \in Words /\ Len(h \o p) = Len(h) + Len(p)
         /\ Len(h) \in Nat /\ Len(p) \in Nat
         /\ \A i \in 1 .. Len(h) : (h \o p)[i] = h[i]
         /\ SubSeq(h \o p, Len(h) + 1, Len(h \o p)) = p
<1>0. PICK text : text = h \o p
  OBVIOUS
<1>1. /\ text \in Words /\ Len(text) = Len(h) + Len(p)
      /\ Len(h) \in Nat /\ Len(p) \in Nat
  BY <1>0 DEF Words
<1>2. \A i \in 1 .. Len(h) : text[i] = h[i]
  BY <1>0 DEF Words
<1>3. \A i \in 1 .. Len(p) : text[Len(h) + i] = p[i]
  BY <1>0 DEF Words
<1> DEFINE s == SubSeq(text, Len(h) + 1, Len(text))
<1>4. s \in Words /\ Len(s) = Len(p) /\ \A i \in 1 .. Len(s) : s[i] = text[Len(h) + i]
  <2>1. text \in Seq(Symbols)
    BY <1>1 DEF Words
  <2> HIDE DEF s
  <2> SUFFICES /\ s \in Seq(Symbols) /\ Len(s) = Len(p)
               /\ \A i \in 1 .. Len(s) : s[i] = text[Len(h) + i]
    BY DEF Words
  <2>2. QED BY <1>1, <2>1 DEF s
<1>5. s = p
  <2> HIDE DEF s
  <2>1. QED BY <1>3, <1>4, SeqEqual DEF Words
<1>6. QED BY <1>0, <1>1, <1>2, <1>5, Zenon

\* What SplitEnvelopeHeader makes of a text with a header.
LEMMA HeaderRead ==
  ASSUME NEW mode \in Modes, NEW p \in Words
  PROVE  SplitEnvelopeHeader(WrapEnvelopeHeader(mode, p))
           = [ok |-> TRUE, mode |-> mode, body |-> p]
<1> DEFINE v == Numeral(ProtocolWireVersion[mode])
           h == <<"pm=", mode, HeaderSep, "pv=", v, HeaderSep>>
           text == WrapEnvelopeHeader(mode, p)
<1>1. v \in Symbols /\ v # HeaderSep
  <2>1. ProtocolWireVersion[mode] \in 0..MaxNumber
    BY NumeralAssumption DEF ProtocolWireVersion, Modes
  <2>2. QED BY <2>1, NumeralRead
<1> HIDE DEF v
<1>2. h \in Words /\ Len(h) = 6
  <2>1. "pm=" \in Symbols /\ mode \in Symbols /\ HeaderSep \in Symbols /\ "pv=" \in Symbols
    BY DEF Symbols
  <2>2. QED BY <1>1, <2>1 DEF Words
<1>3. /\ h[1] = "pm=" /\ h[2] = mode /\ h[3] = HeaderSep
      /\ h[4] = "pv=" /\ h[5] = v /\ h[6] = HeaderSep
  OBVIOUS
<1>4. text = h \o p
  BY DEF WrapEnvelopeHeader, v
<1> HIDE DEF h, text
<1>5. /\ text \in Words /\ Len(text) >= 6 /\ Len(text) \in Nat
      /\ text[1] = "pm=" /\ text[2] = mode /\ text[3] = HeaderSep
      /\ text[4] = "pv=" /\ text[5] = v /\ text[6] = HeaderSep
      /\ SubSeq(text, 7, Len(text)) = p
  <2>1. /\ text \in Words /\ Len(text) = Len(h) + Len(p) /\ Len(p) \in Nat
        /\ \A i \in 1 .. Len(h) : text[i] = h[i]
        /\ SubSeq(text, Len(h) + 1, Len(text)) = p
    BY <1>2, <1>4, Behind
  <2>2. QED BY <1>2, <1>3, <2>1
<1>6. "pm=" # HeaderSep /\ mode # HeaderSep /\ "pv=" # HeaderSep
  BY DEF HeaderSep, Modes
<1>7. Find(text, 1) = 3
  <2>1. \A i \in 1 .. 3 - 1 : text[i] # HeaderSep
    <3>1. \A i \in 1 .. 3 - 1 : i = 1 \/ i = 2
      OBVIOUS
    <3>2. QED BY <1>5, <1>6, <3>1
  <2>2. 3 \in 1 .. Len(text)
    BY <1>5
  <2>3. QED BY <1>5, <2>1, <2>2, FindFirst DEF Words
<1>8. Find(text, 4) = 6
  <2>1. \A i \in 4 .. 6 - 1 : text[i] # HeaderSep
    <3>1. \A i \in 4 .. 6 - 1 : i = 4 \/ i = 5
      OBVIOUS
    <3>2. QED BY <1>1, <1>5, <1>6, <3>1
  <2>2. 6 \in 4 .. Len(text)
    BY <1>5
  <2>3. QED BY <1>5, <2>1, <2>2, FindFirst DEF Words
<1>9. ParseProtocolTag(SubSeq(text, 2, 2)) = mode
  <2>1. Len(SubSeq(text, 2, 2)) = 1 /\ SubSeq(text, 2, 2)[1] = text[2]
    BY <1>5 DEF Words
  <2>2. QED BY <1>5, <2>1 DEF ParseProtocolTag
<1>10. text # <<>> /\ Head(text) = "pm="
  BY <1>5 DEF Words
<1>11. 3 - 1 = 2 /\ 3 + 1 = 4 /\ 6 + 1 = 7 /\ ~(3 <= 2) /\ 3 > 2 /\ 6 # 0 /\ 6 > 3 + 1
  OBVIOUS
<1>12. SplitEnvelopeHeader(text) = [ok |-> TRUE, mode |-> mode, body |-> p]
  BY <1>5, <1>7, <1>8, <1>9, <1>10, <1>11 DEF SplitEnvelopeHeader
<1>13. QED BY <1>12 DEF text

\* What ParseWireFrame makes of a frame, if its length is a number.
LEMMA FrameRead ==
  ASSUME NEW mode \in {"protobuf", "cbor"}, NEW p \in Words, Len(p) <= MaxNumber
  PROVE  ParseWireFrame(WirePrefix[mode], BuildWireFrame(WirePrefix[mode], p))
           = [ok |-> TRUE, payload |-> p]
<1> DEFINE n == Numeral(Len(p))
           x == WirePrefix[mode]
           h == x \o <<n, HeaderSep>>
           body == BuildWireFrame(x, p)
<1>1. /\ Len(p) \in 0..MaxNumber /\ n \in Symbols /\ n # HeaderSep /\ n \in Numerals
      /\ NumberIn(<<n>>) = Len(p)
  <2>1. Len(p) \in 0..MaxNumber
    BY NumeralAssumption DEF Words
  <2>2. QED BY <2>1, NumeralRead
<1>2. PICK a \in Symbols : x = <<a, HeaderSep>>
  BY DEF WirePrefix, Symbols
<1> HIDE DEF n
<1>3. x \in Words /\ Len(x) = 2
  BY <1>2, ShortWords, SpecialSymbols
<1>4. /\ h \in Words /\ Len(h) = 4
      /\ h[1] = x[1] /\ h[2] = x[2] /\ h[3] = n /\ h[4] = HeaderSep
  <2> DEFINE y == <<n, HeaderSep>>
  <2>1. y \in Words /\ Len(y) = 2 /\ y[1] = n /\ y[2] = HeaderSep
    BY <1>1, ShortWords, SpecialSymbols
  <2>2. h = x \o y
    OBVIOUS
  <2> HIDE DEF y, h, x
  <2>3. /\ h \in Seq(Symbols) /\ Len(h) = Len(x) + Len(y)
        /\ \A i \in 1 .. Len(x) + Len(y) : h[i] = IF i <= Len(x) THEN x[i] ELSE y[i - Len(x)]
    BY <1>3, <2>1, <2>2, ConcatProperties DEF Words
  <2>4. QED BY <1>3, <2>1, <2>3 DEF Words
<1>5. body = h \o p
  BY DEF BuildWireFrame, n
<1> HIDE DEF h, body, x
<1>6. /\ body \in Words /\ Len(body) = 4 + Len(p) /\ Len(p) \in Nat
      /\ body[1] = x[1] /\ body[2] = x[2] /\ body[3] = n /\ body[4] = HeaderSep
      /\ SubSeq(body, 5, Len(body)) = p
  <2>1. /\ body \in Words /\ Len(body) = Len(h) + Len(p) /\ Len(p) \in Nat
        /\ \A i \in 1 .. Len(h) : body[i] = h[i]
        /\ SubSeq(body, Len(h) + 1, Len(body)) = p
    BY <1>4, <1>5, Behind
  <2>2. QED BY <1>4, <2>1
<1>7. Find(body, 3) = 4
  <2>1. \A i \in 3 .. 4 - 1 : body[i] # HeaderSep
    <3>1. \A i \in 3 .. 4 - 1 : i = 3
      OBVIOUS
    <3>2. QED BY <1>1, <1>6, <3>1
  <2>2. 4 \in 3 .. Len(body)
    BY <1>6
  <2>3. QED BY <1>6, <2>1, <2>2, FindFirst DEF Words
<1>8. IsPrefix(x, body)
  <2>1. SubSeq(x, 1, 2) = SubSeq(body, 1, 2)
    BY <1>3, <1>6 DEF Words
  <2>2. QED BY <1>3, <1>6, <2>1 DEF IsPrefix
<1>9. SubSeq(body, 3, 3) = <<n>>
  <2> DEFINE s == SubSeq(body, 3, 3)
  <2>1. s \in Seq(Symbols) /\ Len(s) = 1 /\ s[1] = n
    BY <1>6 DEF Words
  <2> HIDE DEF s
  <2>2. s = <<n>>
    BY <2>1
  <2>3. QED BY <2>2 DEF s
<1>10. <<n>> # <<>> /\ \A i \in DOMAIN <<n>> : <<n>>[i] \in Numerals
  BY <1>1
<1>11. 2 + 1 = 3 /\ 4 - 1 = 3 /\ 4 + 1 = 5 /\ 4 # 0
  OBVIOUS
<1>12. ParseWireFrame(x, body) = [ok |-> TRUE, payload |-> p]
  BY <1>1, <1>3, <1>6, <1>7, <1>8, <1>9, <1>10, <1>11, Zenon DEF ParseWireFrame
<1>13. QED BY <1>12 DEF x, body

-----------------------------------------------------------------------------
(* All modes.                                                              *)

\* What arrives of an envelope that is sent in a mode.
InMode(mode, e) == IF mode = "legacy" THEN InLegacy(e) ELSE InCompact(e)
Whole(d) == [ok |-> TRUE, envelope |-> d]

\* Encoded in any mode, an envelope is decoded by a receiver in any mode to
\* what the sender's mode keeps of it.
LEMMA RoundTrip ==
  ASSUME NEW e \in WordEnvelope, Len(EncodeCompact(e)) <= MaxNumber,
         NEW mode \in Modes, NEW m \in Modes
  PROVE  DecodeByProtocol(m, EncodeByProtocol(mode, e)) = Whole(InMode(mode, e))
<1> DEFINE body == CASE mode = "legacy" -> Encode(e)
                     [] mode = "compact" -> EncodeCompact(e)
                     [] mode \in {"protobuf", "cbor"} ->
                          BuildWireFrame(WirePrefix[mode], EncodeCompact(e))
<1>1. body \in Words /\ DecodeOnce(mode, body) = Whole(InMode(mode, e))
  <2>1. CASE mode = "legacy"
    <3>1. body = Encode(e)
      BY <2>1
    <3>2. QED BY <2>1, <3>1, DecodeEncode DEF DecodeOnce, InMode, Whole
  <2>2. CASE mode = "compact"
    <3>1. body = EncodeCompact(e)
      BY <2>2
    <3>2. QED BY <2>2, <3>1, DecodeEncodeCompact DEF DecodeOnce, InMode, Whole
  <2>3. CASE mode \in {"protobuf", "cbor"}
    <3> DEFINE p == EncodeCompact(e)
    <3>1. body = BuildWireFrame(WirePrefix[mode], p)
      BY <2>3
    <3>2. p \in Words /\ Decode(p) = Whole(InCompact(e))
      BY DecodeEncodeCompact DEF Whole
    <3> HIDE DEF body, p
    <3>3. ParseWireFrame(WirePrefix[mode], body) = [ok |-> TRUE, payload |-> p]
      BY <2>3, <3>1, <3>2, FrameRead DEF p
    <3>4. body \in Words
      <4>1. Len(p) \in 0..MaxNumber
        BY <3>2, NumeralAssumption DEF Words, p
      <4>2. <<Numeral(Len(p)), HeaderSep>> \in Words
        BY <4>1, NumeralRead, ShortWords, SpecialSymbols
      <4>3. WirePrefix[mode] \in Words
        <5>1. PICK a \in Symbols : WirePrefix[mode] = <<a, HeaderSep>>
          BY <2>3 DEF WirePrefix, Symbols
        <5>2. QED BY <5>1, ShortWords, SpecialSymbols
      <4>4. WirePrefix[mode] \o <<Numeral(Len(p)), HeaderSep>> \in Words
        BY <4>2, <4>3, ConcatProperties DEF Words
      <4>5. QED BY <3>1, <3>2, <4>4, ConcatProperties DEF Words, BuildWireFrame
    <3>5. mode \notin {"legacy", "compact"}
      BY <2>3
    <3>6. DecodeOnce(mode, body) = Whole(InCompact(e))
      BY <3>2, <3>3, <3>5 DEF DecodeOnce
    <3>7. QED BY <3>4, <3>5, <3>6 DEF InMode
  <2>4. QED BY <2>1, <2>2, <2>3 DEF Modes
<1>2. EncodeByProtocol(mode, e) = WrapEnvelopeHeader(mode, body)
  BY Zenon DEF EncodeByProtocol
<1> HIDE DEF body
<1>3. SplitEnvelopeHeader(EncodeByProtocol(mode, e))
        = [ok |-> TRUE, mode |-> mode, body |-> body]
  BY <1>1, <1>2, HeaderRead
<1>4. Whole(InMode(mode, e)).ok
  BY DEF Whole
<1>5. QED BY <1>1, <1>3, <1>4 DEF DecodeByProtocol

\* The escape of one character.
LEMMA EscapedOne ==
  ASSUME NEW ch \in Symbols
  PROVE  EscapeField(<<ch>>) \in Words /\ Len(EscapeField(<<ch>>)) <= 2
<1> DEFINE x == <<ch>>
<1>1. x \in Words /\ Len(x) = 1 /\ x[1] = ch
  BY ShortWords
<1> HIDE DEF x
<1>2. PICK e \in EscapeRuns(x) : EscapeField(x) = e[Len(x)]
  BY <1>1, EscapeFieldRuns
<1>3. e[0] = <<>> /\ e[1] = e[0] \o Escaping(ch)
  BY <1>1 DEF EscapeRuns, Runs, Words
<1>4. e[1] = Escaping(ch)
  BY <1>3, EscapingTyped DEF Words
<1>5. Len(Escaping(ch)) <= 2
  BY DEF Escaping
<1>6. QED BY <1>1, <1>2, <1>4, <1>5, EscapingTyped DEF x

\* The length of a text that is joined of short fields.
LEMMA JoinedShort ==
  ASSUME NEW fs \in Seq(Words), \A i \in 1 .. Len(fs) : Len(fs[i]) <= 2
  PROVE  Len(Joined(fs)) <= 3 * Len(fs)
<1> DEFINE N == Len(fs)
<1>1. N \in Nat /\ N \in 0 .. N /\ 0 \in 0 .. N
  OBVIOUS
<1>2. PICK j \in JoinRuns(fs) : Joined(fs) = j[N]
  BY JoinedRuns
<1>3. j \in [0 .. N -> Words] /\ j[0] = <<>>
  BY DEF JoinRuns, Runs
<1> DEFINE T == {n \in 0 .. N : Len(j[n]) <= 3 * n}
<1>4. 0 \in T
  BY <1>1, <1>3
<1>5. ASSUME NEW n \in 0 .. N - 1, n \in T PROVE n + 1 \in T
  <2>1. PICK m \in 1 .. N : m = n + 1
    OBVIOUS
  <2> DEFINE sep == IF m = 1 THEN <<>> ELSE <<Separator>>
  <2>2. m - 1 = n /\ j[n] \in Words /\ fs[m] \in Words /\ Len(fs[m]) <= 2
    BY <1>3, <2>1, SMTT(30)
  <2>3. sep \in Words /\ Len(sep) <= 1
    BY ShortWords, SpecialSymbols
  <2>4. j[m] = JoinSteps(fs)[m][j[m - 1]]
    BY DEF JoinRuns, Runs
  <2>5. j[m] = j[n] \o sep \o fs[m]
    BY <2>2, <2>4, Zenon DEF JoinSteps
  <2> HIDE DEF sep
  <2>6. Len(j[n] \o sep \o fs[m]) = Len(j[n]) + Len(sep) + Len(fs[m])
    BY <2>2, <2>3 DEF Words
  <2>7. Len(j[n]) \in Nat /\ Len(sep) \in Nat /\ Len(fs[m]) \in Nat
    BY <2>2, <2>3 DEF Words
  <2>8. Len(j[m]) <= 3 * m
    <3>1. Len(j[m]) = Len(j[n]) + Len(sep) + Len(fs[m])
      BY <2>5, <2>6
    <3>2. Len(j[n]) <= 3 * n /\ n \in Nat /\ m = n + 1
      BY <1>1, <1>5, <2>1
    <3>3. \A a, b, c \in Nat :
            a <= 3 * n /\ b <= 1 /\ c <= 2 => a + b + c <= 3 * (n + 1)
      BY <3>2
    <3>4. Len(j[n]) + Len(sep) + Len(fs[m]) <= 3 * (n + 1)
      BY <2>2, <2>3, <2>7, <3>2, <3>3, Zenon
    <3>5. QED BY <3>1, <3>2, <3>4, Zenon
  <2>9. m \in T
    BY <2>8
  <2>10. QED BY <2>1, <2>9
<1>6. QED
  <2> HIDE DEF T
  <2>1. \A n \in 0 .. N : n \in T
    BY <1>1, <1>4, <1>5, IntervalInduction
  <2>2. QED BY <1>1, <1>2, <2>1 DEF T

-----------------------------------------------------------------------------
(* The self check.                                                         *)

\* What SelfCheckProtocolCapability encodes.
SelfCheckEnvelope ==
  [FactoryEnvelope EXCEPT !.source = <<"selfcheck">>, !.target = <<"selfcheck">>,
     !.topic = <<"protocol.selfcheck">>, !.payload = <<"ping">>]

\* That envelope is one of those above.
LEMMA SelfCheckTyped ==
  /\ SelfCheckEnvelope \in WordEnvelope
  /\ SelfCheckEnvelope.topic = <<"protocol.selfcheck">>
  /\ SelfCheckEnvelope.payload = <<"ping">>
<1> DEFINE r == [schema |-> 1, channel |-> "kEvent", qos |-> "kBestEffort",
                 sequence |-> 0, timestamp |-> 0, ttl |-> 1000,
                 source |-> <<"selfcheck">>, target |-> <<"selfcheck">>,
                 topic |-> <<"protocol.selfcheck">>, trace |-> <<>>, key |-> <<>>,
                 payload |-> <<"ping">>]
<1> DEFINE z1 == [FactoryEnvelope EXCEPT !.source = <<"selfcheck">>]
           z2 == [z1 EXCEPT !.target = <<"selfcheck">>]
           z3 == [z2 EXCEPT !.topic = <<"protocol.selfcheck">>]
           z4 == [z3 EXCEPT !.payload = <<"ping">>]
<1>1. SelfCheckEnvelope = r
  <2>1. z1 = [schema |-> 1, channel |-> "kEvent", qos |-> "kBestEffort",
              sequence |-> 0, timestamp |-> 0, ttl |-> 1000,
              source |-> <<"selfcheck">>, target |-> <<>>, topic |-> <<>>,
              trace |-> <<>>, key |-> <<>>, payload |-> <<>>]
    BY DEF FactoryEnvelope, NoText
  <2>2. z2 = [schema |-> 1, channel |-> "kEvent", qos |-> "kBestEffort",
              sequence |-> 0, timestamp |-> 0, ttl |-> 1000,
              source |-> <<"selfcheck">>, target |-> <<"selfcheck">>, topic |-> <<>>,
              trace |-> <<>>, key |-> <<>>, payload |-> <<>>]
    <3> HIDE DEF z1
    <3>1. QED BY <2>1
  <2>3. z3 = [schema |-> 1, channel |-> "kEvent", qos |-> "kBestEffort",
              sequence |-> 0, timestamp |-> 0, ttl |-> 1000,
              source |-> <<"selfcheck">>, target |-> <<"selfcheck">>,
              topic |-> <<"protocol.selfcheck">>,
              trace |-> <<>>, key |-> <<>>, payload |-> <<>>]
    <3> HIDE DEF z2
    <3>1. QED BY <2>2
  <2>4. z4 = r
    <3> HIDE DEF z3
    <3>1. QED BY <2>3
  <2>5. SelfCheckEnvelope = z4
    BY DEF SelfCheckEnvelope
  <2>6. QED BY <2>4, <2>5
<1> HIDE DEF z1, z2, z3, z4
<1>2. <<"selfcheck">> \in Words /\ <<"protocol.selfcheck">> \in Words
      /\ <<"ping">> \in Words /\ <<>> \in Words
  BY ShortWords DEF Symbols
<1>3. 1 \in 1..MaxNumber /\ 0 \in 0..MaxNumber /\ 1000 \in 0..MaxNumber
  BY NumeralAssumption
<1>4. "kEvent" \in DOMAIN ChannelToString /\ "kBestEffort" \in DOMAIN QoSToString
  BY DEF ChannelToString, QoSToString
<1>5. r \in WordEnvelope
  BY <1>2, <1>3, <1>4, ZenonT(120) DEF WordEnvelope
<1>6. r.topic = <<"protocol.selfcheck">> /\ r.payload = <<"ping">>
  OBVIOUS
<1>7. QED BY <1>1, <1>5, <1>6

\* Its text is short enough for every frame.
LEMMA SelfCheckShort == Len(EncodeCompact(SelfCheckEnvelope)) <= MaxNumber
<1> DEFINE e == SelfCheckEnvelope
           fs == Prelude(e) \o <<EscapeField(e.topic), EscapeField(e.payload)>>
<1>1. e \in WordEnvelope /\ e.topic = <<"protocol.selfcheck">> /\ e.payload = <<"ping">>
  BY SelfCheckTyped
<1>2. /\ EscapeField(e.topic) \in Words /\ Len(EscapeField(e.topic)) <= 2
      /\ EscapeField(e.payload) \in Words /\ Len(EscapeField(e.payload)) <= 2
  <2>1. "protocol.selfcheck" \in Symbols /\ "ping" \in Symbols
    BY DEF Symbols
  <2>2. QED BY <1>1, <2>1, EscapedOne
<1>3. /\ Prelude(e) \in Seq(Words) /\ Len(Prelude(e)) = 6
      /\ \A i \in 1 .. 6 : Len(Prelude(e)[i]) = 1
  <2> DEFINE a == <<Numeral(e.schema)>>
             b == <<ChannelToString[e.channel]>>
             c == <<QoSToString[e.qos]>>
             d == <<Numeral(e.sequence)>>
             f == <<Numeral(e.timestamp)>>
             g == <<Numeral(e.ttl)>>
  <2>1. /\ e.schema \in 0..MaxNumber /\ e.sequence \in 0..MaxNumber
        /\ e.timestamp \in 0..MaxNumber /\ e.ttl \in 0..MaxNumber
        /\ e.channel \in DOMAIN ChannelToString /\ e.qos \in DOMAIN QoSToString
    BY <1>1, NumeralAssumption DEF WordEnvelope
  <2>2. /\ a \in Words /\ b \in Words /\ c \in Words
        /\ d \in Words /\ f \in Words /\ g \in Words
    BY <2>1, NumeralRead, ChannelRead, QoSRead, ShortWords
  <2>3. Len(a) = 1 /\ Len(b) = 1 /\ Len(c) = 1 /\ Len(d) = 1 /\ Len(f) = 1 /\ Len(g) = 1
    OBVIOUS
  <2>4. Prelude(e) = <<a, b, c, d, f, g>>
    BY DEF Prelude
  <2> HIDE DEF a, b, c, d, f, g
  <2>5. QED BY <2>2, <2>3, <2>4
<1>4. /\ fs \in Seq(Words) /\ Len(fs) = 8
      /\ \A i \in 1 .. 8 : Len(fs[i]) <= 2
  <2> DEFINE p == Prelude(e)
             x == EscapeField(e.topic)
             y == EscapeField(e.payload)
             z == <<x, y>>
  <2>1. z \in Seq(Words) /\ Len(z) = 2 /\ z[1] = x /\ z[2] = y
    BY <1>2
  <2>2. fs = p \o z
    OBVIOUS
  <2>3. x \in Words /\ Len(x) <= 2 /\ y \in Words /\ Len(y) <= 2
    BY <1>2
  <2>4. p \in Seq(Words) /\ Len(p) = 6 /\ \A i \in 1 .. 6 : Len(p[i]) = 1
    BY <1>3
  <2> HIDE DEF p, x, y, z, fs
  <2>5. /\ fs \in Seq(Words) /\ Len(fs) = 8
        /\ \A i \in 1 .. 8 : fs[i] = IF i <= 6 THEN p[i] ELSE z[i - 6]
    <3>1. /\ p \o z \in Seq(Words) /\ Len(p \o z) = Len(p) + Len(z)
          /\ \A i \in 1 .. Len(p) + Len(z) :
               (p \o z)[i] = IF i <= Len(p) THEN p[i] ELSE z[i - Len(p)]
      BY <2>1, <2>4, ConcatProperties, Zenon
    <3>2. QED BY <2>1, <2>2, <2>4, <3>1, SMTT(60)
  <2>6. ASSUME NEW i \in 1 .. 8 PROVE Len(fs[i]) <= 2
    <3>1. CASE i <= 6
      <4>1. i \in 1 .. 6 /\ fs[i] = p[i]
        BY <2>5, <3>1
      <4>2. Len(p[i]) = 1
        BY <2>4, <4>1
      <4>3. QED BY <4>1, <4>2
    <3>2. CASE i = 7
      BY <2>1, <2>3, <2>5, <3>2
    <3>3. CASE i = 8
      BY <2>1, <2>3, <2>5, <3>3
    <3>4. QED BY <3>1, <3>2, <3>3
  <2>7. QED BY <2>5, <2>6
<1>5. Len(Joined(fs)) <= 3 * Len(fs)
  BY <1>4, JoinedShort
<1>6. EncodeCompact(e) = Joined(fs)
  BY DEF EncodeCompact
<1> HIDE DEF fs
<1>7. Len(Joined(fs)) <= 24
  BY <1>4, <1>5
<1>8. Len(Joined(fs)) \in Nat
  BY <1>1, <1>6, DecodeEncodeCompact DEF Words
<1>9. QED BY <1>6, <1>7, <1>8, NumeralAssumption

\* The self check succeeds in every mode.
LEMMA SelfCheckSucceeds ==
  ASSUME NEW mode \in Modes
  PROVE  SelfCheckProtocolCapability(mode)
<1> DEFINE e == SelfCheckEnvelope
           d == DecodeByProtocol(mode, EncodeByProtocol(mode, e))
<1>1. e \in WordEnvelope
  BY SelfCheckTyped
<1>2. d = Whole(InMode(mode, e))
  BY <1>1, SelfCheckShort, RoundTrip
<1>3. InMode(mode, e).topic = e.topic /\ InMode(mode, e).payload = e.payload
  BY <1>1, EnvelopeIs DEF InMode, InLegacy, InCompact
<1>4. d.ok /\ d.envelope = InMode(mode, e)
  BY <1>2 DEF Whole
<1> HIDE DEF d
<1>5. d.ok /\ d.envelope.topic = e.topic /\ d.envelope.payload = e.payload
  BY <1>3, <1>4
<1>6. QED BY <1>5, Zenon DEF SelfCheckProtocolCapability, SelfCheckEnvelope, d

-----------------------------------------------------------------------------
(* The way of a message.                                                   *)

\* Where a message stands that ProcessInbound has accepted.
Accepted == {"decoded", "handled", "handlerError", "noHandler", "expired"}

\* The inductive invariant: what is on the wire is the text of the published
\* envelope, and what was received is what that text keeps of it.
PathTyped ==
  /\ envelope \in Envelopes /\ sender \in Senders /\ latency \in Latencies
  /\ now \in Nat
  /\ outcome \in {"none", "refused", "sent", "invalid"} \cup Accepted
PathWire ==
  outcome \notin {"none", "refused"} =>
    /\ IsEnvelopeValidForPublish(envelope)
    /\ \E m \in Modes : wire = [mode |-> m, text |-> EncodeByProtocol(m, envelope)]
PathReceived ==
  outcome \notin {"none", "refused", "sent"} =>
    received = InMode(wire.mode, envelope)
PathAccepted ==
  /\ outcome \in Accepted => wire.mode = "legacy"
  /\ outcome = "invalid" => wire.mode # "legacy"
PathInv == PathTyped /\ PathWire /\ PathReceived /\ PathAccepted

\* An envelope that is published can be encoded and read back.
LEMMA PublishedReadBack ==
  ASSUME NEW e \in Envelopes, NEW mode \in Modes, NEW m \in Modes
  PROVE  /\ DecodeByProtocol(m, EncodeByProtocol(mode, e)) = Whole(InMode(mode, e))
         /\ e \in WordEnvelope
<1>1. e \in WordEnvelope
  <2>1. e \in MessageEnvelope
    BY MessagePathAssumption
  <2>2. QED BY <2>1, TextsAreWords DEF MessageEnvelope, WordEnvelope
<1>2. Len(EncodeCompact(e)) <= MaxNumber
  BY MessagePathAssumption
<1>3. QED BY <1>1, <1>2, RoundTrip

\* Only the legacy mode keeps what the receiver's test asks for.
LEMMA KeptInMode ==
  ASSUME NEW e \in WordEnvelope, IsEnvelopeValidForPublish(e), NEW mode \in Modes
  PROVE  IsEnvelopeValidForPublish(InMode(mode, e)) <=> mode = "legacy"
<1>1. CASE mode = "legacy"
  <2>1. /\ InMode(mode, e).source = e.source /\ InMode(mode, e).target = e.target
        /\ InMode(mode, e).topic = e.topic
    BY <1>1, EnvelopeIs DEF InMode, InLegacy
  <2>2. QED BY <1>1, <2>1 DEF IsEnvelopeValidForPublish
<1>2. CASE mode # "legacy"
  <2>1. InMode(mode, e).source = NoText
    BY <1>2, EnvelopeIs DEF InMode, InCompact
  <2>2. QED BY <1>2, <2>1 DEF IsEnvelopeValidForPublish
<1>3. QED BY <1>1, <1>2

\* A sender resolves to one of the modes.
LEMMA ResolvedMode ==
  ASSUME NEW s \in Senders, NEW e
  PROVE  ResolveMode(s, e) \in Modes
BY MessagePathAssumption DEF ResolveMode, Modes

\* The invariant is inductive.
LEMMA PathInvariant == Spec => []PathInv
<1>1. Init => PathInv
  BY DEF Init, PathInv, PathTyped, PathWire, PathReceived, PathAccepted, Accepted
<1>2. PathInv /\ [Next]_vars => PathInv'
  <2> SUFFICES ASSUME PathInv, [Next]_vars PROVE PathInv'
    OBVIOUS
  <2> USE DEF PathInv
  <2>1. CASE Tick
    BY <2>1 DEF Tick, case, PathTyped, PathWire, PathReceived, PathAccepted,
                IsEnvelopeValidForPublish
  <2>2. ASSUME NEW t \in Topics, NEW h \in {"returns", "throws"}, Register(t, h)
        PROVE  PathInv'
    BY <2>2 DEF Register, case, PathTyped, PathWire, PathReceived, PathAccepted,
                IsEnvelopeValidForPublish
  <2>3. CASE Publish
    <3>1. outcome = "none" /\ UNCHANGED <<case, now, received>>
      BY <2>3 DEF Publish
    <3>2. CASE IsEnvelopeValidForPublish(envelope)
      <4> DEFINE m == ResolveMode(sender, envelope)
      <4>1. /\ wire' = [mode |-> m, text |-> EncodeByProtocol(m, envelope)]
            /\ outcome' = "sent"
        BY <2>3, <3>2 DEF Publish
      <4>2. m \in Modes
        BY ResolvedMode DEF PathTyped
      <4> HIDE DEF m
      <4>3. QED
        BY <3>1, <3>2, <4>1, <4>2
           DEF case, PathTyped, PathWire, PathReceived, PathAccepted, Accepted,
               IsEnvelopeValidForPublish
    <3>3. CASE ~IsEnvelopeValidForPublish(envelope)
      <4>1. outcome' = "refused"
        BY <2>3, <3>3 DEF Publish
      <4>2. QED
        BY <3>1, <4>1 DEF case, PathTyped, PathWire, PathReceived, PathAccepted, Accepted
    <3>4. QED BY <3>2, <3>3
  <2>4. ASSUME NEW mode \in Modes, Receive(mode) PROVE PathInv'
    <3> DEFINE d == DecodeByProtocol(mode, wire.text)
    <3>1. outcome = "sent" /\ UNCHANGED <<case, now, wire>>
      BY <2>4 DEF Receive
    <3>2. PICK m \in Modes :
            wire = [mode |-> m, text |-> EncodeByProtocol(m, envelope)]
      BY <3>1 DEF PathWire
    <3>3. IsEnvelopeValidForPublish(envelope)
      BY <3>1 DEF PathWire
    <3>4. wire.mode = m /\ wire.text = EncodeByProtocol(m, envelope)
      BY <3>2
    <3>5. d = Whole(InMode(m, envelope)) /\ envelope \in WordEnvelope
      BY <3>4, PublishedReadBack DEF PathTyped
    <3>6. d.ok /\ d.envelope = InMode(m, envelope)
      BY <3>5 DEF Whole
    <3>7. IsEnvelopeValidForPublish(InMode(m, envelope)) <=> m = "legacy"
      BY <3>3, <3>5, KeptInMode
    <3>8. /\ received' = d.envelope
          /\ outcome' = IF IsEnvelopeValidForPublish(d.envelope)
                        THEN "decoded" ELSE "invalid"
      BY <2>4, <3>6, Zenon DEF Receive
    <3> HIDE DEF d
    <3>9. outcome' = IF m = "legacy" THEN "decoded" ELSE "invalid"
      BY <3>6, <3>7, <3>8
    <3>10. PathTyped'
      BY <3>1, <3>9 DEF case, PathTyped, Accepted
    <3>11. PathWire'
      BY <3>1, <3>2, <3>3 DEF case, PathWire, IsEnvelopeValidForPublish
    <3>12. PathReceived'
      BY <3>1, <3>4, <3>6, <3>8 DEF case, PathReceived
    <3>13. PathAccepted'
      BY <3>1, <3>4, <3>9 DEF PathAccepted, Accepted
    <3>14. QED BY <3>10, <3>11, <3>12, <3>13
  <2>5. CASE Deliver
    <3>1. /\ outcome = "decoded" /\ UNCHANGED <<case, now, wire, received>>
          /\ outcome' \in {"expired", "noHandler", "handlerError", "handled"}
      BY <2>5 DEF Deliver
    <3>2. QED
      BY <3>1 DEF case, PathTyped, PathWire, PathReceived, PathAccepted, Accepted,
                  IsEnvelopeValidForPublish
  <2>6. CASE UNCHANGED vars
    BY <2>6 DEF vars, case, PathTyped, PathWire, PathReceived, PathAccepted,
                IsEnvelopeValidForPublish
  <2>7. QED BY <2>1, <2>2, <2>3, <2>4, <2>5, <2>6 DEF Next
<1>3. QED BY <1>1, <1>2, PTL DEF Spec

\* What the invariant says of the wire once a message was sent.
LEMMA SentInMode ==
  ASSUME PathInv, outcome \notin {"none", "refused"}
  PROVE  /\ wire.mode \in Modes /\ wire.text = EncodeByProtocol(wire.mode, envelope)
         /\ envelope \in Envelopes
<1>1. PICK m \in Modes : wire = [mode |-> m, text |-> EncodeByProtocol(m, envelope)]
  BY DEF PathInv, PathWire
<1>2. wire.mode = m /\ wire.text = EncodeByProtocol(m, envelope)
  BY <1>1
<1>3. QED BY <1>2 DEF PathInv, PathTyped

\* What a receiver accepts, and so what a handler gets, is the envelope that
\* was published but for its deduplication key, and a valid envelope sent in
\* the legacy mode is accepted.
THEOREM PathDeliveredIntact == Spec => []DeliveredIntact
<1>1. PathInv => DeliveredIntact
  <2> SUFFICES ASSUME PathInv PROVE DeliveredIntact
    OBVIOUS
  <2>1. ASSUME outcome \in Accepted
        PROVE  wire.mode = "legacy" /\ received = InLegacy(envelope)
    BY <2>1 DEF PathInv, PathReceived, PathAccepted, Accepted, InMode
  <2>2. QED BY <2>1 DEF PathInv, PathAccepted, DeliveredIntact, InLegacy, Accepted
<1>2. QED BY <1>1, PathInvariant, PTL

\* No text of a published envelope fails to decode, the self check succeeds
\* in the mode it was sent in, and topic, payload and numbers arrive.
THEOREM PathSelfCheckRepresentative == Spec => []SelfCheckRepresentative
<1>1. PathInv => SelfCheckRepresentative
  <2> SUFFICES ASSUME PathInv PROVE SelfCheckRepresentative
    OBVIOUS
  <2>1. outcome # "decodeFailed"
    BY DEF PathInv, PathTyped, Accepted
  <2>2. ASSUME outcome \notin {"none", "refused", "sent"}
        PROVE  /\ SelfCheckProtocolCapability(wire.mode)
               /\ \A f \in {"topic", "payload", "schema", "channel", "qos",
                            "sequence", "timestamp", "ttl"} : received[f] = envelope[f]
    <3>1. wire.mode \in Modes /\ envelope \in WordEnvelope
      BY <2>2, SentInMode, PublishedReadBack
    <3>2. received = InMode(wire.mode, envelope)
      BY <2>2 DEF PathInv, PathReceived
    <3>3. received = InLegacy(envelope) \/ received = InCompact(envelope)
      BY <3>2 DEF InMode
    <3>4. \A f \in {"topic", "payload", "schema", "channel", "qos",
                    "sequence", "timestamp", "ttl"} : received[f] = envelope[f]
      BY <3>1, <3>3, EnvelopeIs DEF InLegacy, InCompact
    <3>5. QED BY <3>1, <3>4, SelfCheckSucceeds
  <2>3. QED BY <2>1, <2>2 DEF SelfCheckRepresentative
<1>2. QED BY <1>1, PathInvariant, PTL

\* What the text of a published envelope decodes to does not depend on the
\* mode of the receiver.
THEOREM PathReceiverModeIrrelevant == Spec => []ReceiverModeIrrelevant
<1>1. PathInv => ReceiverModeIrrelevant
  <2> SUFFICES ASSUME PathInv, outcome = "sent", NEW m \in Modes
               PROVE  DecodeByProtocol(m, wire.text) = DecodeByProtocol(wire.mode, wire.text)
    BY DEF ReceiverModeIrrelevant
  <2>1. /\ wire.mode \in Modes /\ wire.text = EncodeByProtocol(wire.mode, envelope)
        /\ envelope \in Envelopes
    BY SentInMode
  <2>2. QED BY <2>1, PublishedReadBack
<1>2. QED BY <1>1, PathInvariant, PTL

\* The smaller of two numbers.
LEMMA SmallerOfTwo ==
  ASSUME NEW a \in Nat, NEW b \in Nat
  PROVE  Min({a, b}) = IF a <= b THEN a ELSE b
<1> DEFINE c == IF a <= b THEN a ELSE b
<1>1. c \in {a, b} /\ \A y \in {a, b} : c <= y
  OBVIOUS
<1>2. \A x \in {a, b} : (\A y \in {a, b} : x <= y) => x = c
  OBVIOUS
<1> HIDE DEF c
<1>3. Min({a, b}) = c
  BY <1>1, <1>2, Zenon DEF Min
<1>4. QED BY <1>3 DEF c

\* No handler runs on a message that is older than its own time to live or
\* than the policy allows.
THEOREM PathHandledFresh == Spec => HandledFresh
<1> DEFINE Fresh ==
      outcome' \in {"handled", "handlerError"} /\ outcome = "decoded" /\ latency > 0 =>
        /\ now - envelope.timestamp <= latency
        /\ envelope.ttl > 0 => now - envelope.timestamp <= envelope.ttl
<1>1. PathInv /\ [Next]_vars => [Fresh]_vars
  <2> SUFFICES ASSUME PathInv, Next, outcome' \in {"handled", "handlerError"},
                      outcome = "decoded", latency > 0
               PROVE  /\ now - envelope.timestamp <= latency
                      /\ envelope.ttl > 0 => now - envelope.timestamp <= envelope.ttl
    OBVIOUS
  <2>1. Deliver
    BY DEF Next, Tick, Publish, Receive, Register
  <2>2. ~IsExpired(received, now, latency)
    BY <2>1 DEF Deliver
  <2>3. envelope \in WordEnvelope
    <3>1. envelope \in Envelopes
      BY DEF PathInv, PathTyped
    <3>2. QED BY <3>1, PublishedReadBack DEF Modes
  <2>4. /\ now \in Nat /\ latency \in Nat
        /\ envelope.timestamp \in Nat /\ envelope.ttl \in Nat
    BY <2>3, MessagePathAssumption, NumeralAssumption DEF PathInv, PathTyped, WordEnvelope
  <2>5. received = InLegacy(envelope)
    BY DEF PathInv, PathReceived, PathAccepted, Accepted, InMode
  <2>6. received.ttl = envelope.ttl /\ received.timestamp = envelope.timestamp
    BY <2>3, <2>5, EnvelopeIs DEF InLegacy
  <2> DEFINE t == envelope.timestamp
             l == envelope.ttl
             limit == IF l = 0 THEN latency ELSE Min({l, latency})
  <2>7. ~(limit # 0 /\ now >= t /\ now - t > limit)
    BY <2>2, <2>6, Zenon DEF IsExpired
  <2>8. Min({l, latency}) = IF l <= latency THEN l ELSE latency
    BY <2>4, SmallerOfTwo
  <2>9. QED BY <2>4, <2>7, <2>8
<1>2. QED BY <1>1, PathInvariant, PTL DEF Spec, HandledFresh
=============================================================================
