----------------------------- MODULE DataProofs -----------------------------
(***************************************************************************)
(* Facts about data that the proofs of several components rest on.         *)
(*                                                                         *)
(* The first part is induction without operator parameters: from the       *)
(* well-founded order of the finite sets follows that a set of naturals    *)
(* has a least element, from that induction over an interval, and from     *)
(* that that a loop over positions, as a recursive function, exists and    *)
(* depends on the positions behind it only.                                *)
(*                                                                         *)
(* The second part is what inserting a message into a priority queue does: *)
(* nothing is lost, nothing is added besides the message, and an ordered   *)
(* queue stays ordered.                                                    *)
(***************************************************************************)
EXTENDS PriorityOrder, FiniteSetTheorems, FunctionTheorems,
        SequenceTheorems, TLAPS

\* A set of naturals that is not empty has a least element.
LEMMA LeastNatural ==
  ASSUME NEW T \in SUBSET Nat, T # {}
  PROVE  \E n \in T : \A m \in T : n <= m
<1> DEFINE U == {0 .. n : n \in T}
           R == StrictSubsetOrdering(Nat)
<1>1. U \subseteq FiniteSubsetsOf(Nat)
  <2>1. ASSUME NEW n \in T PROVE IsFiniteSet(0 .. n) /\ 0 .. n \in SUBSET Nat
    BY FS_Interval
  <2>2. QED BY <2>1 DEF FiniteSubsetsOf
<1>2. IsWellFoundedOn(R, FiniteSubsetsOf(Nat))
  BY FS_StrictSubsetOrderingWellFounded
<1>3. U # {}
  OBVIOUS
<1> HIDE DEF U, R
<1>4. PICK x \in U : \A y \in U : <<y, x>> \notin R
  BY <1>1, <1>2, <1>3, WFMin
<1> USE DEF U, R
<1>5. PICK n \in T : x = 0 .. n
  OBVIOUS
<1>6. ASSUME NEW m \in T, m < n PROVE FALSE
  <2>1. 0 .. m \in U
    OBVIOUS
  <2>2. 0 .. m \subseteq 0 .. n /\ 0 .. m # 0 .. n
    <3>1. n \in 0 .. n /\ n \notin 0 .. m
      BY <1>6
    <3>2. QED BY <3>1, <1>6
  <2>3. <<0 .. m, 0 .. n>> \in StrictSubsetOrdering(Nat)
    BY <2>2 DEF StrictSubsetOrdering
  <2>4. QED BY <2>1, <2>3, <1>4, <1>5
<1>7. QED BY <1>6

\* Induction over the positions 0 .. N, the property given as the set T of
\* those that have it.
LEMMA IntervalInduction ==
  ASSUME NEW N \in Nat, NEW T, 0 \in T,
         \A n \in 0 .. N - 1 : n \in T => n + 1 \in T
  PROVE  \A n \in 0 .. N : n \in T
<1> DEFINE B == {n \in 0 .. N : n \notin T}
<1>1. SUFFICES ASSUME B # {} PROVE FALSE
  OBVIOUS
<1>2. B \in SUBSET Nat
  OBVIOUS
<1>3. PICK n \in B : \A m \in B : n <= m
  BY <1>1, <1>2, LeastNatural
<1>4. n # 0 /\ n - 1 \in 0 .. N - 1
  OBVIOUS
<1>5. n - 1 \in T
  BY <1>3, <1>4
<1>6. QED BY <1>4, <1>5

\* A value carried through positions 1 .. N, one step after the other: what it
\* is after each of them.
Runs(N, S, base, step) ==
  {f \in [0 .. N -> S] : f[0] = base /\ \A n \in 1 .. N : f[n] = step[n][f[n - 1]]}

\* There is such a run.
LEMMA RecursionOnPositions ==
  ASSUME NEW N \in Nat, NEW S, NEW base \in S, NEW step \in [1 .. N -> [S -> S]]
  PROVE  Runs(N, S, base, step) # {}
<1> DEFINE Upto(k) == {f \in [0 .. k -> S] :
              f[0] = base /\ \A n \in 1 .. k : f[n] = step[n][f[n - 1]]}
           T == {k \in 0 .. N : Upto(k) # {}}
<1>1. 0 \in T
  <2>1. [i \in 0 .. 0 |-> base] \in Upto(0)
    OBVIOUS
  <2>2. QED BY <2>1
<1>2. ASSUME NEW k \in 0 .. N - 1, k \in T PROVE k + 1 \in T
  <2>1. PICK f \in Upto(k) : TRUE
    BY <1>2
  <2> DEFINE g == [i \in 0 .. k + 1 |-> IF i = k + 1 THEN step[k + 1][f[k]] ELSE f[i]]
  <2>2. f[k] \in S /\ k + 1 \in 1 .. N
    OBVIOUS
  <2>3. step[k + 1] \in [S -> S]
    BY <2>2
  <2>4. g \in [0 .. k + 1 -> S]
    BY <2>2, <2>3
  <2>5. g[0] = base
    OBVIOUS
  <2>6. ASSUME NEW n \in 1 .. k + 1 PROVE g[n] = step[n][g[n - 1]]
    <3>1. CASE n = k + 1
      BY <3>1
    <3>2. CASE n # k + 1
      <4>1. n \in 1 .. k /\ n - 1 \in 0 .. k
        BY <3>2
      <4>2. g[n] = f[n] /\ g[n - 1] = f[n - 1]
        BY <4>1
      <4>3. f[n] = step[n][f[n - 1]]
        BY <4>1
      <4>4. QED BY <4>2, <4>3
    <3>3. QED BY <3>1, <3>2
  <2>7. g \in Upto(k + 1)
    BY <2>4, <2>5, <2>6
  <2>8. QED BY <2>2, <2>7
<1> HIDE DEF Upto
<1>3. N \in T
  <2> HIDE DEF T
  <2>1. \A n \in 0 .. N : n \in T
    BY <1>1, <1>2, IntervalInduction
  <2>2. QED BY <2>1
<1>4. PICK f : f \in Upto(N)
  BY <1>3
<1>5. QED BY <1>4 DEF Upto, Runs

\* A function that follows the steps as long as it stays in S is a run.
LEMMA LoopIsRun ==
  ASSUME NEW N \in Nat, NEW S, NEW base \in S, NEW step \in [1 .. N -> [S -> S]],
         NEW c, c = [n \in 0 .. N |-> c[n]], c[0] = base,
         \A n \in 1 .. N : c[n - 1] \in S => c[n] = step[n][c[n - 1]]
  PROVE  c \in Runs(N, S, base, step)
<1> DEFINE T == {n \in 0 .. N : c[n] \in S}
<1>1. 0 \in T
  OBVIOUS
<1>2. ASSUME NEW n \in 0 .. N - 1, n \in T PROVE n + 1 \in T
  <2>1. n + 1 \in 1 .. N /\ (n + 1) - 1 = n /\ c[n] \in S
    BY <1>2
  <2>2. PICK m \in 1 .. N : m = n + 1
    BY <2>1
  <2>3. m - 1 = n
    BY <2>2
  <2>4. c[m] = step[m][c[n]] /\ step[m] \in [S -> S]
    BY <2>1, <2>3
  <2>5. c[m] \in S
    BY <2>1, <2>4
  <2>6. QED BY <2>2, <2>5
<1>3. \A n \in 0 .. N : n \in T
  <2> HIDE DEF T
  <2>1. QED BY <1>1, <1>2, IntervalInduction
<1>4. c \in [0 .. N -> S]
  BY <1>3
<1>5. \A n \in 1 .. N : n - 1 \in 0 .. N
  OBVIOUS
<1>6. \A n \in 1 .. N : c[n] = step[n][c[n - 1]]
  BY <1>3, <1>5
<1>7. QED BY <1>4, <1>6 DEF Runs

\* Two runs with the same steps agree as far as the shorter one goes.
LEMMA RunsAgree ==
  ASSUME NEW M \in Nat, NEW N \in 0 .. M, NEW S, NEW base, NEW s1, NEW s2,
         NEW c \in Runs(M, S, base, s1), NEW d \in Runs(N, S, base, s2),
         \A n \in 1 .. N : s1[n] = s2[n]
  PROVE  \A n \in 0 .. N : c[n] = d[n]
<1> DEFINE T == {n \in 0 .. N : c[n] = d[n]}
<1>1. 0 \in T
  BY DEF Runs
<1>2. ASSUME NEW n \in 0 .. N - 1, n \in T PROVE n + 1 \in T
  <2>1. PICK m \in 1 .. N : m = n + 1
    OBVIOUS
  <2>2. m \in 1 .. M /\ m - 1 = n
    BY <2>1
  <2>3. c[m] = s1[m][c[m - 1]] /\ d[m] = s2[m][d[m - 1]]
    BY <2>1, <2>2 DEF Runs
  <2>4. c[m] = d[m]
    BY <2>2, <2>3, <1>2
  <2>5. QED BY <2>1, <2>4
<1>3. QED
  <2> HIDE DEF T
  <2>1. \A n \in 0 .. N : n \in T
    BY <1>1, <1>2, IntervalInduction
  <2>2. QED BY <2>1 DEF T
-----------------------------------------------------------------------------
(* Priority queues.                                                        *)

\* The interval 1 .. n has n elements.
LEMMA UpTo ==
  ASSUME NEW n \in Nat
  PROVE  IsFiniteSet(1 .. n) /\ Cardinality(1 .. n) = n
<1>1. 1 \in Int /\ n \in Int
  OBVIOUS
<1>2. IsFiniteSet(1 .. n) /\ Cardinality(1 .. n) = IF 1 > n THEN 0 ELSE n - 1 + 1
  BY <1>1, FS_Interval, Zenon
<1>3. QED
  BY <1>2

\* The elements of q that m may not overtake.
Ahead(q, m, priority) == {i \in DOMAIN q : priority[q[i]] >= priority[m]}

\* m is put behind 0 .. Len(q) elements.
LEMMA AheadBounded ==
  ASSUME NEW S, NEW q \in Seq(S), NEW m, NEW priority
  PROVE  /\ IsFiniteSet(Ahead(q, m, priority))
         /\ Cardinality(Ahead(q, m, priority)) \in 0 .. Len(q)
<1>1. IsFiniteSet(1 .. Len(q)) /\ Cardinality(1 .. Len(q)) = Len(q)
  BY UpTo, LenProperties
<1>2. Ahead(q, m, priority) \subseteq 1 .. Len(q)
  BY DEF Ahead
<1>3. QED
  BY <1>1, <1>2, FS_Subset, FS_CardinalityType

\* The result is a queue that is one longer: m stands at position n + 1, what
\* was in front of it keeps its position and the rest moves up by one.
LEMMA InsertBehindProperties ==
  ASSUME NEW S, NEW q \in Seq(S), NEW n \in 0 .. Len(q), NEW m \in S
  PROVE  LET r == InsertBehind(q, n, m)
         IN  /\ r \in Seq(S) /\ Len(r) = Len(q) + 1
             /\ r[n + 1] = m
             /\ \A i \in 1 .. Len(q) : r[IF i <= n THEN i ELSE i + 1] = q[i]
             /\ \A i \in 1 .. Len(q) + 1 : i # n + 1 =>
                  /\ (IF i <= n THEN i ELSE i - 1) \in 1 .. Len(q)
                  /\ r[i] = q[IF i <= n THEN i ELSE i - 1]
BY DEF InsertBehind

\* Insert is InsertBehind for some position.
LEMMA InsertIsInsertBehind ==
  ASSUME NEW S, NEW q \in Seq(S), NEW m \in S, NEW priority
  PROVE  \E n \in 0 .. Len(q) : Insert(q, m, priority) = InsertBehind(q, n, m)
BY AheadBounded DEF Insert, Ahead

\* Inserting makes the queue one longer and adds nothing but m.
LEMMA InsertProperties ==
  ASSUME NEW S, NEW q \in Seq(S), NEW m \in S, NEW priority
  PROVE  LET r == Insert(q, m, priority)
         IN  /\ r \in Seq(S) /\ Len(r) = Len(q) + 1
             /\ \A i \in DOMAIN r : r[i] = m \/ \E k \in DOMAIN q : r[i] = q[k]
<1>1. PICK n \in 0 .. Len(q) : Insert(q, m, priority) = InsertBehind(q, n, m)
  BY InsertIsInsertBehind
<1> DEFINE r == InsertBehind(q, n, m)
<1>2. r \in Seq(S) /\ Len(r) = Len(q) + 1 /\ r[n + 1] = m
  BY InsertBehindProperties
<1>3. ASSUME NEW i \in 1 .. Len(q) + 1
      PROVE  r[i] = m \/ \E k \in 1 .. Len(q) : r[i] = q[k]
  <2>1. CASE i <= n
    <3>1. i \in 1 .. Len(q) /\ r[i] = q[i]
      BY <2>1 DEF InsertBehind
    <3> HIDE DEF r
    <3>2. QED
      BY <3>1
  <2>2. CASE i = n + 1
    BY <1>2, <2>2
  <2>3. CASE i > n + 1
    <3>1. i - 1 \in 1 .. Len(q) /\ r[i] = q[i - 1]
      BY <2>3 DEF InsertBehind
    <3> HIDE DEF r
    <3>2. QED
      BY <3>1
  <2>4. QED
    BY <2>1, <2>2, <2>3
<1> HIDE DEF r
<1>4. DOMAIN r = 1 .. Len(q) + 1 /\ DOMAIN q = 1 .. Len(q)
  BY <1>2
<1>5. QED
  BY <1>1, <1>2, <1>3, <1>4 DEF r

\* Taking the head moves every other element one position forward.
LEMMA TailProperties ==
  ASSUME NEW S, NEW q \in Seq(S), q # <<>>
  PROVE  /\ Head(q) \in S /\ Head(q) = q[1] /\ 1 \in DOMAIN q
         /\ Tail(q) \in Seq(S) /\ Len(Tail(q)) = Len(q) - 1 /\ Len(q) > 0
         /\ \A i \in DOMAIN Tail(q) : /\ i \in Nat /\ i + 1 \in DOMAIN q
                                      /\ Tail(q)[i] = q[i + 1]
<1>1. Len(q) \in Nat \ {0} /\ DOMAIN q = 1 .. Len(q)
  OBVIOUS
<1>2. /\ Tail(q) \in Seq(S) /\ Len(Tail(q)) = Len(q) - 1
      /\ DOMAIN Tail(q) = 1 .. Len(q) - 1
  BY <1>1
<1>3. ASSUME NEW i \in 1 .. Len(q) - 1
      PROVE  i + 1 \in 1 .. Len(q) /\ Tail(q)[i] = q[i + 1]
  BY <1>1
<1>4. Head(q) \in S /\ Head(q) = q[1]
  BY <1>1
<1>5. QED
  BY <1>1, <1>2, <1>3, <1>4

\* In a queue that is ordered by priority, those that m may not overtake are
\* the first ones: their number is the position of the last of them.
LEMMA AheadIsPrefix ==
  ASSUME NEW S, NEW q \in Seq(S), NEW m \in S, NEW priority \in [S -> Nat],
         \A i, j \in DOMAIN q : i < j => priority[q[i]] >= priority[q[j]],
         NEW i \in DOMAIN q
  PROVE  priority[q[i]] >= priority[m] <=> i <= Cardinality(Ahead(q, m, priority))
<1> DEFINE A == Ahead(q, m, priority)
<1>0. /\ IsFiniteSet(A) /\ Cardinality(A) \in Nat
      /\ i \in 1 .. Len(q) /\ \A k \in DOMAIN q : q[k] \in S
  BY AheadBounded
<1>1. CASE i \in A
  <2>1. 1 .. i \subseteq A
    BY <1>0, <1>1, SMTT(60) DEF Ahead
  <2>2. Cardinality(1 .. i) = i
    BY <1>0, UpTo
  <2>3. i <= Cardinality(A)
    BY <1>0, <2>1, <2>2, FS_Subset, SMTT(60)
  <2>4. QED
    BY <1>1, <2>3 DEF Ahead
<1>2. CASE i \notin A
  <2>1. A \subseteq 1 .. (i - 1)
    <3>1. SUFFICES ASSUME NEW k \in A PROVE k \in 1 .. (i - 1)
      OBVIOUS
    <3>2. k \in 1 .. Len(q) /\ priority[q[k]] >= priority[m]
      BY DEF Ahead
    <3>3. ~(priority[q[i]] >= priority[m])
      BY <1>2 DEF Ahead
    <3>4. /\ priority[q[i]] \in Nat /\ priority[q[k]] \in Nat /\ priority[m] \in Nat
          /\ k \in DOMAIN q
      BY <1>0, <3>2
    <3>5. ~(i < k) /\ i # k
      BY <3>2, <3>3, <3>4
    <3>6. QED
      BY <1>0, <3>2, <3>5
  <2>2. IsFiniteSet(1 .. (i - 1)) /\ Cardinality(1 .. (i - 1)) = i - 1
    BY <1>0, UpTo
  <2>3. Cardinality(A) <= i - 1
    BY <1>0, <2>1, <2>2, FS_Subset
  <2>4. QED
    BY <1>0, <1>2, <2>3 DEF Ahead
<1>3. QED
  BY <1>1, <1>2

\* x is received before y: it is more urgent, or as urgent and older.
Before(x, y, priority, stamp) ==
  priority[x] > priority[y] \/ (priority[x] = priority[y] /\ stamp[x] < stamp[y])

\* A queue in the order of priority and of sending keeps that order when a
\* message younger than all in it is inserted.
LEMMA InsertOrdered ==
  ASSUME NEW S, NEW q \in Seq(S), NEW m \in S, NEW priority \in [S -> Nat],
         NEW stamp \in [S -> Nat], NEW newer \in [S -> Nat],
         \A i, j \in DOMAIN q : i < j => Before(q[i], q[j], priority, stamp),
         \A i \in DOMAIN q : newer[q[i]] = stamp[q[i]] /\ stamp[q[i]] < newer[m]
  PROVE  \A i, j \in DOMAIN Insert(q, m, priority) :
           i < j => Before(Insert(q, m, priority)[i], Insert(q, m, priority)[j],
                           priority, newer)
<1> DEFINE n == Cardinality(Ahead(q, m, priority))
           r == InsertBehind(q, n, m)
           Old(i) == IF i <= n THEN i ELSE i - 1
<1>0. Len(q) \in Nat /\ DOMAIN q = 1 .. Len(q)
  OBVIOUS
<1>1. n \in 0 .. Len(q)
  BY AheadBounded
<1>2. Insert(q, m, priority) = r
  BY DEF Insert, Ahead
<1>3. /\ r \in Seq(S) /\ Len(r) = Len(q) + 1 /\ r[n + 1] = m
      /\ \A i \in 1 .. Len(q) + 1 : i # n + 1 =>
           Old(i) \in 1 .. Len(q) /\ r[i] = q[Old(i)]
  <2> HIDE DEF n
  <2>1. QED
    BY <1>1, InsertBehindProperties
<1>4. \A i \in DOMAIN q : q[i] \in S /\ priority[q[i]] \in Nat
  OBVIOUS
<1>5. \A i, j \in DOMAIN q : i < j => priority[q[i]] >= priority[q[j]]
  <2>1. SUFFICES ASSUME NEW i \in DOMAIN q, NEW j \in DOMAIN q, i < j
                 PROVE  priority[q[i]] >= priority[q[j]]
    OBVIOUS
  <2>2. Before(q[i], q[j], priority, stamp)
    BY <2>1
  <2>3. QED
    BY <1>4, <2>2, SMTT(60) DEF Before
<1>6. \A i \in DOMAIN q : priority[q[i]] >= priority[m] <=> i <= n
  BY <1>5, AheadIsPrefix
<1> HIDE DEF n, r
<1>7. SUFFICES ASSUME NEW i \in 1 .. Len(q) + 1, NEW j \in 1 .. Len(q) + 1, i < j
               PROVE  Before(r[i], r[j], priority, newer)
  BY <1>2, <1>3
<1>8. CASE i # n + 1 /\ j # n + 1
  <2>0. Old(i) < Old(j)
    BY <1>0, <1>1, <1>7, <1>8, SMTT(60)
  <2>1. /\ Old(i) \in DOMAIN q /\ Old(j) \in DOMAIN q /\ Old(i) < Old(j)
        /\ r[i] = q[Old(i)] /\ r[j] = q[Old(j)]
    <3> HIDE DEF Old
    <3>1. QED
      BY <1>0, <1>3, <1>8, <2>0
  <2>2. Before(q[Old(i)], q[Old(j)], priority, stamp)
    BY <2>1
  <2>3. QED
    BY <2>1, <2>2, ZenonT(60) DEF Before
<1>9. CASE j = n + 1
  <2>0. i # n + 1 /\ Old(i) <= n
    BY <1>0, <1>1, <1>7, <1>9
  <2>1. Old(i) \in DOMAIN q /\ r[i] = q[Old(i)] /\ Old(i) <= n /\ r[j] = m
    <3> HIDE DEF Old
    <3>1. QED
      BY <1>0, <1>3, <1>9, <2>0
  <2>2. priority[r[i]] >= priority[m] /\ newer[r[i]] < newer[m]
    BY <1>6, <2>1
  <2>3. QED
    BY <1>4, <2>1, <2>2, SMTT(60) DEF Before
<1>10. CASE i = n + 1
  <2>0. j # n + 1 /\ ~(Old(j) <= n)
    <3>1. n \in Nat /\ i \in Nat /\ j \in Nat
      BY <1>0, <1>1
    <3>2. j > n + 1
      BY <1>7, <1>10, <3>1
    <3>3. Old(j) = j - 1
      BY <3>1, <3>2
    <3> HIDE DEF Old
    <3>4. QED
      BY <3>1, <3>2, <3>3
  <2>1. Old(j) \in DOMAIN q /\ r[j] = q[Old(j)] /\ ~(Old(j) <= n) /\ r[i] = m
    <3> HIDE DEF Old
    <3>1. QED
      BY <1>0, <1>3, <1>10, <2>0
  <2>2. ~(priority[r[j]] >= priority[m])
    BY <1>6, <2>1
  <2>3. QED
    BY <1>4, <2>1, <2>2 DEF Before
<1>11. QED
  BY <1>8, <1>9, <1>10

-----------------------------------------------------------------------------
(* What is in a queue.                                                     *)

Elements(q) == {q[i] : i \in DOMAIN q}
Distinct(q) == \A i, j \in DOMAIN q : q[i] = q[j] => i = j

\* Insert adds m to what is in the queue, and a new m keeps all distinct.
LEMMA InsertElements ==
  ASSUME NEW S, NEW q \in Seq(S), NEW m \in S, NEW priority
  PROVE  /\ Elements(Insert(q, m, priority)) = Elements(q) \cup {m}
         /\ Distinct(q) /\ m \notin Elements(q) => Distinct(Insert(q, m, priority))
<1>1. PICK n \in 0 .. Len(q) : Insert(q, m, priority) = InsertBehind(q, n, m)
  BY InsertIsInsertBehind
<1> DEFINE r == InsertBehind(q, n, m)
           Old(i) == IF i <= n THEN i ELSE i - 1
           New(i) == IF i <= n THEN i ELSE i + 1
<1>2. /\ r \in Seq(S) /\ Len(r) = Len(q) + 1 /\ r[n + 1] = m
      /\ \A i \in 1 .. Len(q) : r[New(i)] = q[i]
      /\ \A i \in 1 .. Len(q) + 1 : i # n + 1 =>
           Old(i) \in 1 .. Len(q) /\ r[i] = q[Old(i)]
  <2>1. n \in 0 .. Len(q) /\ q \in Seq(S) /\ m \in S
    OBVIOUS
  <2>2. /\ r \in Seq(S) /\ Len(r) = Len(q) + 1 /\ r[n + 1] = m
        /\ \A i \in 1 .. Len(q) : r[New(i)] = q[i]
    BY <2>1, InsertBehindProperties
  <2>3. ASSUME NEW i \in 1 .. Len(q) + 1, i # n + 1
        PROVE  Old(i) \in 1 .. Len(q) /\ r[i] = q[Old(i)]
    BY <2>1, <2>3 DEF InsertBehind
  <2>4. QED
    BY <2>2, <2>3
<1> HIDE DEF r
<1>3. /\ Len(q) \in Nat /\ DOMAIN q = 1 .. Len(q) /\ DOMAIN r = 1 .. Len(q) + 1
      /\ n + 1 \in 1 .. Len(q) + 1
      /\ \A i \in 1 .. Len(q) : New(i) \in 1 .. Len(q) + 1
  BY <1>2
<1>4. \A i, j \in 1 .. Len(q) + 1 : i # n + 1 /\ j # n + 1 /\ Old(i) = Old(j) => i = j
  BY <1>3
<1> HIDE DEF Old, New
<1>5. Elements(r) \subseteq Elements(q) \cup {m}
  BY <1>2, <1>3 DEF Elements
<1>6. Elements(q) \cup {m} \subseteq Elements(r)
  BY <1>2, <1>3, SMTT(30) DEF Elements
<1>7. ASSUME Distinct(q), m \notin Elements(q), NEW i \in DOMAIN r, NEW j \in DOMAIN r,
             r[i] = r[j]
      PROVE  i = j
  <2>1. i # n + 1 => Old(i) \in DOMAIN q /\ r[i] = q[Old(i)] /\ r[i] # m
    BY <1>2, <1>3, <1>7 DEF Elements
  <2>2. j # n + 1 => Old(j) \in DOMAIN q /\ r[j] = q[Old(j)] /\ r[j] # m
    BY <1>2, <1>3, <1>7 DEF Elements
  <2>3. CASE i # n + 1 /\ j # n + 1
    BY <1>3, <1>4, <1>7, <2>1, <2>2, <2>3 DEF Distinct
  <2>4. CASE i = n + 1 \/ j = n + 1
    BY <1>2, <1>7, <2>1, <2>2, <2>4
  <2>5. QED
    BY <2>3, <2>4
<1>8. QED
  BY <1>1, <1>5, <1>6, <1>7 DEF r, Distinct

\* Taking the head removes it from what is in the queue.
LEMMA TailElements ==
  ASSUME NEW S, NEW q \in Seq(S), q # <<>>
  PROVE  /\ Head(q) \in Elements(q)
         /\ Elements(q) = Elements(Tail(q)) \cup {Head(q)}
         /\ Distinct(q) => Distinct(Tail(q)) /\ Head(q) \notin Elements(Tail(q))
<1>1. /\ Head(q) = q[1] /\ 1 \in DOMAIN q /\ Tail(q) \in Seq(S)
      /\ \A i \in DOMAIN Tail(q) : /\ i \in Nat /\ i + 1 \in DOMAIN q
                                   /\ Tail(q)[i] = q[i + 1]
  BY TailProperties
<1>2. ASSUME NEW i \in DOMAIN q, i # 1
      PROVE  i - 1 \in DOMAIN Tail(q) /\ Tail(q)[i - 1] = q[i]
  BY <1>2
<1>3. \A i \in DOMAIN Tail(q) : i \in 1 .. Len(Tail(q)) /\ Len(Tail(q)) \in Nat
  BY <1>1
<1>4. Elements(q) \subseteq Elements(Tail(q)) \cup {Head(q)}
  BY <1>1, <1>2 DEF Elements
<1>5. Elements(Tail(q)) \cup {Head(q)} \subseteq Elements(q)
  BY <1>1 DEF Elements
<1>6. ASSUME Distinct(q) PROVE Distinct(Tail(q)) /\ Head(q) \notin Elements(Tail(q))
  <2>1. ASSUME NEW i \in DOMAIN Tail(q), NEW j \in DOMAIN Tail(q), Tail(q)[i] = Tail(q)[j]
        PROVE  i = j
    <3>1. i + 1 = j + 1
      BY <1>1, <1>6, <2>1 DEF Distinct
    <3>2. QED
      BY <1>1, <3>1
  <2>2. ASSUME NEW i \in DOMAIN Tail(q) PROVE Tail(q)[i] # Head(q)
    <3>1. i + 1 # 1
      BY <1>3
    <3>2. QED
      BY <1>1, <1>6, <3>1 DEF Distinct
  <2>3. QED
    BY <2>1, <2>2 DEF Distinct, Elements
<1>7. QED
  BY <1>1, <1>4, <1>5, <1>6 DEF Elements

\* A queue of distinct messages holds as many as it is long.
LEMMA ElementsCount ==
  ASSUME NEW S, NEW q \in Seq(S), Distinct(q)
  PROVE  IsFiniteSet(Elements(q)) /\ Cardinality(Elements(q)) = Len(q)
<1> DEFINE n == Len(q)
<1>1. n \in Nat /\ DOMAIN q = 1 .. n
  OBVIOUS
<1>2. q \in [1 .. n -> Elements(q)]
  BY <1>1 DEF Elements
<1>3. \A i, j \in 1 .. n : q[i] = q[j] => i = j
  BY <1>1 DEF Distinct
<1>4. \A x \in Elements(q) : \E i \in 1 .. n : q[i] = x
  BY <1>1 DEF Elements
<1> HIDE DEF n
<1>5. q \in Bijection(1 .. n, Elements(q))
  BY <1>2, <1>3, <1>4, Fun_IsBij
<1>6. ExistsBijection(1 .. n, Elements(q))
  BY <1>5, Fun_ExistsBij
<1>7. IsFiniteSet(Elements(q)) /\ Cardinality(Elements(q)) = n
  BY <1>1, <1>6, UpTo, FS_Bijection
<1>8. QED
  BY <1>7 DEF n
=============================================================================
