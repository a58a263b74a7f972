--------------------------- MODULE PriorityOrder ---------------------------
(* The order in which a POSIX message queue hands out its messages: the    *)
(* highest priority first, and among equal priorities the oldest first.    *)
(* Positions 1, 2, ... of the sequence are the order of receipt.           *)
EXTENDS Naturals, Sequences, FiniteSets

\* q with m behind its first n elements.
InsertBehind(q, n, m) ==
  [i \in 1 .. Len(q) + 1 |->
     IF i <= n THEN q[i] ELSE IF i = n + 1 THEN m ELSE q[i - 1]]

InsertAmongEquals(q, m, priority) ==
  InsertBehind(q, Cardinality({i \in DOMAIN q : priority[q[i]] > priority[m]}), m)
\* A message goes behind all those of at least its priority.
Insert(q, m, priority) ==
  InsertBehind(q, Cardinality({i \in DOMAIN q : priority[q[i]] >= priority[m]}), m)
=============================================================================
