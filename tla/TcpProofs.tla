----------------------------- MODULE TcpProofs ------------------------------
(***************************************************************************)
(* Proofs that frames arrive intact and that a receiver only ends after    *)
(* one was cut (TcpTransport), for any number of publishers, any sizes of  *)
(* header, messages and buffers and any number of connections.             *)
(*                                                                         *)
(* The inductive invariant places the two ends in the stream of frames: a  *)
(* position is <<i, k>>, the k-th byte of the i-th frame of a connection.  *)
(* The bytes on their way are those from the reader's position up to the   *)
(* writer's, without a gap (Stream); what the reader holds are the bytes   *)
(* of one frame before its position (Held); one call at most is inside a   *)
(* frame, the last one begun (Writer).  All of this only where no frame    *)
(* was cut and the receiver has not closed: there, a header is a header.   *)
(***************************************************************************)
EXTENDS TcpTransport, SequenceTheorems, TLAPS

Bytes == Nat \X Nat

-----------------------------------------------------------------------------
(* Positions in a stream of frames.                                        *)

Within(sent, len, x) ==
  x[1] \in 1 .. Len(sent) /\ x[2] \in 1 .. Header + len[sent[x[1]]]
After(sent, len, x) ==
  IF x[2] < Header + len[sent[x[1]]] THEN <<x[1], x[2] + 1>> ELSE <<x[1] + 1, 1>>

\* The bytes b are those of the frames of sent from position x up to y.
Run(b, sent, len, x, y) ==
  \E q \in [1 .. Len(b) + 1 -> Nat \X Nat] :
    /\ q[1] = x /\ q[Len(b) + 1] = y
    /\ \A i \in 1 .. Len(b) :
         /\ Within(sent, len, q[i]) /\ q[i + 1] = After(sent, len, q[i])
         /\ b[i] = <<sent[q[i][1]], q[i][2]>>

-----------------------------------------------------------------------------
(* The invariant.                                                          *)

Logs == [sent : Seq(Nat), received : Seq(Seq(Bytes)), cut : BOOLEAN]
Calls == [pc : {"wait", "send"}, send : Nat, total : Nat, conn : Nat]

EndsTyped ==
  /\ pipe \in Seq(Seq(Bytes)) /\ sock \in 0 .. Len(pipe) /\ peer \in 0 .. Len(pipe)
  /\ gone = 1 .. peer - 1 \/ (gone = 1 .. peer /\ reader # Idle)
LogTyped ==
  /\ length \in Seq(Nat) /\ log \in Seq(Logs) /\ Len(log) = Len(pipe)
  /\ \A c \in 1 .. Len(pipe) :
       /\ log[c].cut => log[c] = Cut
       /\ \A i \in 1 .. Len(log[c].sent) : log[c].sent[i] \in 1 .. Len(length)
PubTyped ==
  /\ pub \in [Publishers -> {Idle} \cup Calls]
  /\ \A p \in Publishers : pub[p] # Idle =>
       /\ pub[p].send \in 1 .. Len(length) /\ pub[p].total < Header + length[pub[p].send]
       /\ pub[p].conn \in 0 .. Len(pipe)
       /\ pub[p].total > 0 \/ pub[p].pc = "send" => pub[p].conn # 0
ReaderTyped ==
  reader # Idle =>
    /\ peer # 0 /\ reader = [pc |-> reader.pc, need |-> reader.need, got |-> reader.got]
    /\ reader.pc \in {"header", "body"} /\ reader.got \in Seq(Bytes)
    /\ reader.pc = "header" => reader.need = Header /\ Len(reader.got) < Header
Typed == EndsTyped /\ LogTyped /\ PubTyped /\ ReaderTyped

\* p is inside a frame that it writes to c.
Writes(p, c) == pub[p] # Idle /\ pub[p].total > 0 /\ pub[p].conn = c
Writer(c) ==
  /\ \A p, q \in Publishers : Writes(p, c) /\ Writes(q, c) => p = q
  /\ \A p \in Publishers : Writes(p, c) =>
       Len(log[c].sent) # 0 /\ pub[p].send = log[c].sent[Len(log[c].sent)]

\* How much of the frame it is in the reader has read.
Skipped == IF reader.pc = "header" THEN 0 ELSE Header
ReadTo(c) ==
  IF c = peer /\ reader # Idle THEN Skipped + Len(reader.got) + 1 ELSE 1
Held(c) ==
  c = peer /\ reader # Idle /\ (reader.pc = "body" \/ reader.got # <<>>) =>
    LET i == Len(log[c].received) + 1
        s == log[c].sent[i]
    IN /\ i <= Len(log[c].sent)
       /\ \A k \in 1 .. Len(reader.got) : reader.got[k] = <<s, Skipped + k>>
       /\ reader.pc = "body" => reader.need = length[s] /\ Len(reader.got) < length[s]

Stream(c) ==
  \E y \in Nat \X Nat :
    /\ Run(pipe[c], log[c].sent, length, <<Len(log[c].received) + 1, ReadTo(c)>>, y)
    /\ \A p \in Publishers : Writes(p, c) => y = <<Len(log[c].sent), pub[p].total + 1>>
    /\ (\A p \in Publishers : ~Writes(p, c)) => y = <<Len(log[c].sent) + 1, 1>>

Whole(c) ==
  /\ Len(log[c].received) <= Len(log[c].sent)
  /\ \A i \in 1 .. Len(log[c].received) : log[c].received[i] = Body(log[c].sent[i])

Flow(c) == Writer(c) /\ Held(c) /\ Stream(c)
Intact ==
  \A c \in 1 .. Len(pipe) : Whole(c) /\ (~log[c].cut /\ c \notin gone => Flow(c))

-----------------------------------------------------------------------------
(* Lemmas about positions.                                                 *)

\* No bytes are those from a position up to itself.
LEMMA RunEmpty ==
  ASSUME NEW sent, NEW len, NEW x \in Nat \X Nat
  PROVE  Run(<<>>, sent, len, x, x)
<1>1. Len(<<>>) = 0
  BY EmptySeq
<1>2. PICK q : q = [i \in 1 .. 1 |-> x]
  OBVIOUS
<1>3. q \in [1 .. 0 + 1 -> Nat \X Nat] /\ q[1] = x /\ q[0 + 1] = x
  BY <1>2
<1>4. QED
  BY <1>1, <1>3 DEF Run

\* A position inside a frame has a position after it.
LEMMA AfterTyped ==
  ASSUME NEW sent, NEW len, NEW x \in Nat \X Nat
  PROVE  After(sent, len, x) \in Nat \X Nat
BY DEF After

\* The writer adds the byte at its position.
LEMMA RunAppend ==
  ASSUME NEW b \in Seq(Bytes), NEW e \in Bytes, NEW sent, NEW len, NEW x, NEW y \in Nat \X Nat,
         Run(b, sent, len, x, y), Within(sent, len, y), e = <<sent[y[1]], y[2]>>
  PROVE  Run(Append(b, e), sent, len, x, After(sent, len, y))
<1>1. PICK n \in Nat : n = Len(b)
  BY LenProperties
<1>2. PICK q \in [1 .. n + 1 -> Nat \X Nat] :
        /\ q[1] = x /\ q[n + 1] = y
        /\ \A i \in 1 .. n :
             /\ Within(sent, len, q[i]) /\ q[i + 1] = After(sent, len, q[i])
             /\ b[i] = <<sent[q[i][1]], q[i][2]>>
  BY <1>1 DEF Run
<1>3. PICK b2 : /\ b2 = Append(b, e) /\ Len(b2) = n + 1 /\ b2[n + 1] = e
                /\ \A i \in 1 .. n : b2[i] = b[i]
  <2>1. /\ Len(Append(b, e)) = Len(b) + 1 /\ Append(b, e)[Len(b) + 1] = e
        /\ \A i \in 1 .. Len(b) : Append(b, e)[i] = b[i]
    BY AppendProperties
  <2>2. QED
    BY <1>1, <2>1
<1>4. PICK z \in Nat \X Nat : z = After(sent, len, y)
  BY AfterTyped
<1>5. PICK q2 : q2 = [i \in 1 .. n + 2 |-> IF i = n + 2 THEN z ELSE q[i]]
  OBVIOUS
<1>6. /\ q2 \in [1 .. (n + 1) + 1 -> Nat \X Nat] /\ q2[1] = x /\ q2[n + 1] = y
      /\ q2[(n + 1) + 1] = z
  BY <1>2, <1>5
<1>7. ASSUME NEW i \in 1 .. n PROVE q2[i] = q[i] /\ q2[i + 1] = q[i + 1]
  BY <1>5, SMTT(30)
<1>8. ASSUME NEW i \in 1 .. n + 1
      PROVE  /\ Within(sent, len, q2[i]) /\ q2[i + 1] = After(sent, len, q2[i])
             /\ b2[i] = <<sent[q2[i][1]], q2[i][2]>>
  <2>1. CASE i = n + 1
    BY <1>3, <1>4, <1>6, <2>1
  <2>2. CASE i \in 1 .. n
    BY <1>2, <1>3, <1>7, <2>2
  <2>3. i = n + 1 \/ i \in 1 .. n
    BY <1>1
  <2>4. QED
    BY <2>1, <2>2, <2>3
<1>9. Run(b2, sent, len, x, z)
  <2>1. \A i \in 1 .. n + 1 :
          /\ Within(sent, len, q2[i]) /\ q2[i + 1] = After(sent, len, q2[i])
          /\ b2[i] = <<sent[q2[i][1]], q2[i][2]>>
    BY <1>8
  <2>2. PICK m : m = n + 1
    OBVIOUS
  <2>3. /\ Len(b2) = m /\ q2 \in [1 .. m + 1 -> Nat \X Nat] /\ q2[1] = x /\ q2[m + 1] = z
        /\ \A i \in 1 .. m :
             /\ Within(sent, len, q2[i]) /\ q2[i + 1] = After(sent, len, q2[i])
             /\ b2[i] = <<sent[q2[i][1]], q2[i][2]>>
    BY <1>3, <1>6, <2>1, <2>2, Zenon
  <2>4. QED
    BY <2>3, Zenon DEF Run
<1>10. QED
  BY <1>3, <1>4, <1>9

\* The reader takes the byte at its position.
LEMMA RunTail ==
  ASSUME NEW b \in Seq(Bytes), b # <<>>, NEW sent, NEW len, NEW x, NEW y,
         Run(b, sent, len, x, y)
  PROVE  /\ Within(sent, len, x) /\ Head(b) = <<sent[x[1]], x[2]>>
         /\ Run(Tail(b), sent, len, After(sent, len, x), y)
<1>1. PICK n \in Nat : n = Len(b) /\ n # 0
  BY EmptySeq
<1>2. PICK q \in [1 .. n + 1 -> Nat \X Nat] :
        /\ q[1] = x /\ q[n + 1] = y
        /\ \A i \in 1 .. n :
             /\ Within(sent, len, q[i]) /\ q[i + 1] = After(sent, len, q[i])
             /\ b[i] = <<sent[q[i][1]], q[i][2]>>
  BY <1>1 DEF Run
<1>3. PICK b2 : /\ b2 = Tail(b) /\ Len(b2) = n - 1 /\ \A i \in 1 .. n - 1 : b2[i] = b[i + 1]
  <2>1. Len(Tail(b)) = Len(b) - 1 /\ \A i \in 1 .. Len(Tail(b)) : Tail(b)[i] = b[i + 1]
    BY HeadTailProperties
  <2>2. Len(Tail(b)) = n - 1
    BY <1>1, <2>1
  <2>3. \A i \in 1 .. n - 1 : Tail(b)[i] = b[i + 1]
    BY <2>1, <2>2
  <2>4. QED
    BY <2>2, <2>3
<1>4. 1 \in 1 .. n /\ Head(b) = b[1] /\ 1 + 1 = 2
  BY <1>1
<1>5. PICK q2 : q2 = [i \in 1 .. n |-> q[i + 1]]
  OBVIOUS
<1>6. ASSUME NEW i \in 1 .. n PROVE q[i + 1] \in Nat \X Nat /\ q2[i] = q[i + 1]
  BY <1>2, <1>5
<1>7. q2 \in [1 .. (n - 1) + 1 -> Nat \X Nat] /\ q2[1] = q[2] /\ q2[(n - 1) + 1] = y
  <2>1. (n - 1) + 1 = n /\ n \in 1 .. n
    BY <1>1
  <2>2. q2 \in [1 .. n -> Nat \X Nat]
    BY <1>5, <1>6
  <2>3. QED
    BY <1>2, <1>4, <1>6, <2>1, <2>2
<1>8. ASSUME NEW i \in 1 .. n - 1
      PROVE  /\ Within(sent, len, q2[i]) /\ q2[i + 1] = After(sent, len, q2[i])
             /\ b2[i] = <<sent[q2[i][1]], q2[i][2]>>
  <2>1. i \in 1 .. n /\ i + 1 \in 1 .. n /\ n - 1 \in Int
    BY <1>1
  <2>2. q2[i] = q[i + 1] /\ q2[i + 1] = q[(i + 1) + 1]
    BY <1>6, <2>1
  <2>3. b2[i] = b[i + 1]
    BY <1>3
  <2>4. QED
    BY <1>2, <2>1, <2>2, <2>3
<1>9. Run(b2, sent, len, q[2], y)
  <2>1. \A i \in 1 .. n - 1 :
          /\ Within(sent, len, q2[i]) /\ q2[i + 1] = After(sent, len, q2[i])
          /\ b2[i] = <<sent[q2[i][1]], q2[i][2]>>
    BY <1>8
  <2>2. PICK m : m = n - 1
    OBVIOUS
  <2>3. /\ Len(b2) = m /\ q2 \in [1 .. m + 1 -> Nat \X Nat] /\ q2[1] = q[2] /\ q2[m + 1] = y
        /\ \A i \in 1 .. m :
             /\ Within(sent, len, q2[i]) /\ q2[i + 1] = After(sent, len, q2[i])
             /\ b2[i] = <<sent[q2[i][1]], q2[i][2]>>
    BY <1>3, <1>7, <2>1, <2>2, Zenon
  <2>4. QED
    BY <2>3, Zenon DEF Run
<1>10. QED
  BY <1>2, <1>3, <1>4, <1>9

\* More frames and more messages leave positions where they are.
LEMMA RunGrown ==
  ASSUME NEW b, NEW sent, NEW len, NEW sent2, NEW len2, NEW x, NEW y,
         Run(b, sent, len, x, y), Len(sent) \in Nat, Len(sent2) \in Nat,
         Len(sent) <= Len(sent2),
         \A i \in 1 .. Len(sent) : sent2[i] = sent[i] /\ len2[sent[i]] = len[sent[i]]
  PROVE  Run(b, sent2, len2, x, y)
<1>1. PICK q \in [1 .. Len(b) + 1 -> Nat \X Nat] :
        /\ q[1] = x /\ q[Len(b) + 1] = y
        /\ \A i \in 1 .. Len(b) :
             /\ Within(sent, len, q[i]) /\ q[i + 1] = After(sent, len, q[i])
             /\ b[i] = <<sent[q[i][1]], q[i][2]>>
  BY DEF Run
<1>2. ASSUME NEW p, Within(sent, len, p)
      PROVE  /\ Within(sent2, len2, p) /\ After(sent2, len2, p) = After(sent, len, p)
             /\ sent2[p[1]] = sent[p[1]]
  <2>1. p[1] \in 1 .. Len(sent) /\ p[1] \in 1 .. Len(sent2)
    BY <1>2 DEF Within
  <2>2. sent2[p[1]] = sent[p[1]] /\ len2[sent2[p[1]]] = len[sent[p[1]]]
    BY <2>1
  <2>3. QED
    BY <1>2, <2>1, <2>2 DEF Within, After
<1>3. QED
  BY <1>1, <1>2, SMTT(60) DEF Run

-----------------------------------------------------------------------------
(* Types.                                                                  *)

\* Messages are added to length and nothing else happens to it.
LengthGrown ==
  /\ length' \in Seq(Nat) /\ Len(length') >= Len(length)
  /\ \A s \in 1 .. Len(length) : length'[s] = length[s]

\* What the locals of a call inside SendWithTimeout may be.
CallOk(x) ==
  /\ x \in Calls /\ x.send \in 1 .. Len(length) /\ x.total < Header + length[x.send]
  /\ x.conn \in 0 .. Len(pipe) /\ (x.total > 0 \/ x.pc = "send" => x.conn # 0)

\* Idle is no call.
LEMMA IdleFacts == Idle.pc = "idle" /\ Idle \notin Calls
BY DEF Idle, Calls

\* PubTyped, publisher by publisher.
LEMMA PubByCall ==
  PubTyped <=> /\ pub \in [Publishers -> {Idle} \cup Calls]
               /\ \A p \in Publishers : pub[p] = Idle \/ CallOk(pub[p])
<1>1. PubTyped => \A p \in Publishers : pub[p] = Idle \/ CallOk(pub[p])
  BY DEF PubTyped, CallOk
<1>2. ASSUME \A p \in Publishers : pub[p] = Idle \/ CallOk(pub[p]),
             pub \in [Publishers -> {Idle} \cup Calls]
      PROVE  PubTyped
  BY <1>2 DEF PubTyped, CallOk
<1>3. QED
  BY <1>1, <1>2 DEF PubTyped

\* A step that gives one publisher new locals.
LEMMA PubUpdate ==
  ASSUME PubTyped, NEW p \in Publishers, NEW x, pub' = [pub EXCEPT ![p] = x],
         x = Idle \/ CallOk(x)', length \in Seq(Nat), LengthGrown,
         Len(pipe) \in Nat, Len(pipe') \in Nat, Len(pipe) <= Len(pipe')
  PROVE  /\ PubTyped' /\ pub'[p] = x
         /\ \A q \in Publishers \ {p} : pub'[q] = pub[q]
<1>1. pub \in [Publishers -> {Idle} \cup Calls] /\ x \in {Idle} \cup Calls
  BY DEF PubTyped, CallOk
<1>2. /\ pub' \in [Publishers -> {Idle} \cup Calls] /\ pub'[p] = x
      /\ \A q \in Publishers \ {p} : pub'[q] = pub[q]
  BY <1>1
<1>3. ASSUME NEW q \in Publishers, q # p, pub[q] # Idle PROVE CallOk(pub[q])'
  <2>1. CallOk(pub[q])
    BY <1>3, PubByCall
  <2>2. 1 .. Len(length) \subseteq 1 .. Len(length') /\ 0 .. Len(pipe) \subseteq 0 .. Len(pipe')
    BY DEF LengthGrown
  <2>3. length'[pub[q].send] = length[pub[q].send]
    BY <2>1 DEF CallOk, LengthGrown
  <2>4. pub'[q] = pub[q]
    BY <1>2, <1>3
  <2>5. QED
    BY <2>1, <2>2, <2>3, <2>4 DEF CallOk
<1>4. \A q \in Publishers : pub'[q] = Idle \/ CallOk(pub[q])'
  <2>1. CallOk(x)' => CallOk(pub[p])'
    BY <1>2 DEF CallOk
  <2>2. QED
    BY <1>2, <1>3, <2>1
<1>5. PubTyped'
  BY <1>2, <1>4 DEF PubTyped, CallOk
<1>6. QED
  BY <1>2, <1>5

\* Cutting connections off.
LEMMA CutTyped ==
  ASSUME LogTyped, NEW S, CutOff(S), UNCHANGED length, Len(pipe') = Len(pipe)
  PROVE  /\ LogTyped'
         /\ \A c \in 1 .. Len(pipe) : IF c \in S THEN log'[c] = Cut ELSE log'[c] = log[c]
<1>1. PICK n \in Nat : n = Len(log) /\ n = Len(pipe) /\ DOMAIN log = 1 .. n
  BY LenProperties DEF LogTyped
<1>2. Cut \in Logs /\ Len(Cut.sent) = 0 /\ Cut.cut = TRUE
  BY EmptySeq DEF Cut, Logs
<1>3. \A c \in 1 .. n : log[c] \in Logs
  BY <1>1 DEF LogTyped
<1>4. log' = [c \in 1 .. n |-> IF c \in S THEN Cut ELSE log[c]]
  BY <1>1 DEF CutOff
<1>5. log' \in Seq(Logs) /\ Len(log') = n
  BY <1>2, <1>3, <1>4
<1>6. \A c \in 1 .. n : IF c \in S THEN log'[c] = Cut ELSE log'[c] = log[c]
  BY <1>4
<1>7. ASSUME NEW c \in 1 .. n
      PROVE  /\ log'[c].cut => log'[c] = Cut
             /\ \A i \in 1 .. Len(log'[c].sent) : log'[c].sent[i] \in 1 .. Len(length)
  <2>1. CASE c \in S
    BY <1>2, <1>6, <2>1
  <2>2. CASE c \notin S
    BY <1>1, <1>6, <2>2 DEF LogTyped
  <2>3. QED
    BY <2>1, <2>2
<1>8. QED
  BY <1>1, <1>5, <1>6, <1>7 DEF LogTyped

\* The locals of a call after SendInterrupted.
LEMMA CallStep ==
  ASSUME PubTyped, NEW p \in Publishers, pub[p] # Idle, NEW a
  PROVE  [pub EXCEPT ![p].pc = a] = [pub EXCEPT ![p] =
           [pc |-> a, send |-> pub[p].send, total |-> pub[p].total, conn |-> pub[p].conn]]
<1>1. pub[p] \in Calls /\ pub \in [Publishers -> {Idle} \cup Calls]
  BY DEF PubTyped
<1>2. PICK x : /\ x = pub[p]
               /\ x = [pc |-> x.pc, send |-> x.send, total |-> x.total, conn |-> x.conn]
  BY <1>1 DEF Calls
<1>3. [x EXCEPT !.pc = a] = [pc |-> a, send |-> x.send, total |-> x.total, conn |-> x.conn]
  BY <1>2
<1>4. QED
  BY <1>2, <1>3

\* A call begins to write.
LEMMA SentTyped ==
  ASSUME LogTyped, NEW c \in 1 .. Len(pipe), ~log[c].cut, NEW s \in 1 .. Len(length),
         log' = [log EXCEPT ![c].sent = Append(@, s)], UNCHANGED length, Len(pipe') = Len(pipe)
  PROVE  /\ LogTyped' /\ \A d \in 1 .. Len(pipe) : d # c => log'[d] = log[d]
         /\ log'[c].sent = Append(log[c].sent, s) /\ log'[c].received = log[c].received
         /\ ~log'[c].cut
<1>1. PICK n \in Nat : n = Len(log) /\ n = Len(pipe) /\ DOMAIN log = 1 .. n
  BY LenProperties DEF LogTyped
<1>2. PICK x \in Logs : x = log[c] /\ x.cut = FALSE
  <2>1. log[c] \in Logs
    BY <1>1, ElementOfSeq DEF LogTyped
  <2>2. log[c].cut \in BOOLEAN
    BY <2>1 DEF Logs
  <2>3. QED
    BY <2>1, <2>2
<1>3. x.sent \in Seq(Nat) /\ Append(x.sent, s) \in Seq(Nat)
  <2>1. s \in Nat
    BY DEF LogTyped
  <2>2. QED
    BY <1>2, <2>1, AppendProperties DEF Logs
<1>4. PICK z : z = [x EXCEPT !.sent = Append(x.sent, s)]
  OBVIOUS
<1>5. z = [sent |-> Append(x.sent, s), received |-> x.received, cut |-> FALSE]
  BY <1>2, <1>4 DEF Logs
<1>6. z \in Logs /\ z.sent = Append(x.sent, s) /\ z.received = x.received /\ z.cut = FALSE
  BY <1>2, <1>3, <1>5 DEF Logs
<1>7. log' = [log EXCEPT ![c] = z]
  BY <1>2, <1>4
<1>8. /\ log' \in Seq(Logs) /\ Len(log') = n /\ log'[c] = z
      /\ \A d \in 1 .. n : d # c => log'[d] = log[d]
  <2>1. log \in Seq(Logs) /\ c \in 1 .. Len(log)
    BY <1>1 DEF LogTyped
  <2>2. /\ [log EXCEPT ![c] = z] \in Seq(Logs) /\ Len([log EXCEPT ![c] = z]) = Len(log)
        /\ \A d \in 1 .. Len(log) : [log EXCEPT ![c] = z][d] = IF d = c THEN z ELSE log[d]
    BY <1>6, <2>1, ExceptSeq
  <2>3. QED
    BY <1>1, <1>7, <2>1, <2>2
<1>9. ASSUME NEW i \in 1 .. Len(z.sent) PROVE z.sent[i] \in 1 .. Len(length)
  <2>1. PICK m \in Nat : m = Len(x.sent)
    BY <1>3, SMTT(60)
  <2>2. \A j \in 1 .. m : x.sent[j] \in 1 .. Len(length)
    BY <1>1, <1>2, <2>1 DEF LogTyped
  <2>3. i \in 1 .. m + 1 /\ (i \in 1 .. m => z.sent[i] = x.sent[i]) /\ z.sent[m + 1] = s
    BY <1>3, <1>6, <2>1
  <2>4. i \in 1 .. m \/ i = m + 1
    BY <2>3
  <2>5. QED
    BY <2>2, <2>3, <2>4
<1>10. ASSUME NEW d \in 1 .. n
       PROVE  /\ log'[d].cut => log'[d] = Cut
              /\ \A i \in 1 .. Len(log'[d].sent) : log'[d].sent[i] \in 1 .. Len(length)
  <2>1. CASE d = c
    BY <1>6, <1>8, <1>9, <2>1
  <2>2. CASE d # c
    BY <1>1, <1>8, <2>2 DEF LogTyped
  <2>3. QED
    BY <2>1, <2>2
<1>11. LogTyped'
  BY <1>1, <1>8, <1>10 DEF LogTyped
<1>12. QED
  BY <1>1, <1>2, <1>6, <1>8, <1>11

\* A call of the receiver returns a message.
LEMMA ReceivedTyped ==
  ASSUME LogTyped, NEW c \in 1 .. Len(pipe), ~log[c].cut, NEW m \in Seq(Bytes),
         log' = [log EXCEPT ![c].received = Append(@, m)], UNCHANGED length,
         Len(pipe') = Len(pipe)
  PROVE  /\ LogTyped' /\ \A d \in 1 .. Len(pipe) : d # c => log'[d] = log[d]
         /\ log'[c].received = Append(log[c].received, m) /\ log'[c].sent = log[c].sent
         /\ ~log'[c].cut
<1>1. PICK n \in Nat : n = Len(log) /\ n = Len(pipe) /\ DOMAIN log = 1 .. n
  BY LenProperties DEF LogTyped
<1>2. PICK x \in Logs : x = log[c] /\ x.cut = FALSE
  <2>1. log[c] \in Logs
    BY <1>1, ElementOfSeq DEF LogTyped
  <2>2. log[c].cut \in BOOLEAN
    BY <2>1 DEF Logs
  <2>3. QED
    BY <2>1, <2>2
<1>3. x.received \in Seq(Seq(Bytes)) /\ Append(x.received, m) \in Seq(Seq(Bytes))
  BY <1>2, AppendProperties DEF Logs
<1>4. PICK z : z = [x EXCEPT !.received = Append(x.received, m)]
  OBVIOUS
<1>5. z = [sent |-> x.sent, received |-> Append(x.received, m), cut |-> FALSE]
  BY <1>2, <1>4 DEF Logs
<1>6. z \in Logs /\ z.sent = x.sent /\ z.received = Append(x.received, m) /\ z.cut = FALSE
  BY <1>2, <1>3, <1>5 DEF Logs
<1>7. log' = [log EXCEPT ![c] = z]
  BY <1>2, <1>4
<1>8. /\ log' \in Seq(Logs) /\ Len(log') = n /\ log'[c] = z
      /\ \A d \in 1 .. n : d # c => log'[d] = log[d]
  <2>1. log \in Seq(Logs) /\ c \in 1 .. Len(log)
    BY <1>1 DEF LogTyped
  <2>2. /\ [log EXCEPT ![c] = z] \in Seq(Logs) /\ Len([log EXCEPT ![c] = z]) = Len(log)
        /\ \A d \in 1 .. Len(log) : [log EXCEPT ![c] = z][d] = IF d = c THEN z ELSE log[d]
    BY <1>6, <2>1, ExceptSeq
  <2>3. QED
    BY <1>1, <1>7, <2>1, <2>2
<1>10. ASSUME NEW d \in 1 .. n
       PROVE  /\ log'[d].cut => log'[d] = Cut
              /\ \A i \in 1 .. Len(log'[d].sent) : log'[d].sent[i] \in 1 .. Len(length)
  <2>1. CASE d = c
    BY <1>1, <1>2, <1>6, <1>8, <2>1 DEF LogTyped
  <2>2. CASE d # c
    BY <1>1, <1>8, <2>2 DEF LogTyped
  <2>3. QED
    BY <2>1, <2>2
<1>11. LogTyped'
  BY <1>1, <1>8, <1>10 DEF LogTyped
<1>12. QED
  BY <1>1, <1>2, <1>6, <1>8, <1>11

\* A receiver that has not ended has closed the connections before its own.
LEMMA GoneBefore ==
  ASSUME EndsTyped, reader = Idle \/ ~ReceiverEnded
  PROVE  gone = 1 .. peer - 1
<1>1. peer \in Nat
  BY DEF EndsTyped
<1>2. CASE peer = 0
  <2>1. 1 .. peer = 1 .. peer - 1
    BY <1>2
  <2>2. QED
    BY <2>1 DEF EndsTyped
<1>3. CASE peer # 0 /\ reader # Idle
  <2>1. peer \in 1 .. peer
    BY <1>1, <1>3
  <2>2. QED
    BY <1>3, <2>1 DEF EndsTyped, ReceiverEnded
<1>4. QED
  BY <1>2, <1>3 DEF EndsTyped

\* One pipe changes.
LEMMA PipeUpdate ==
  ASSUME EndsTyped, NEW c \in 1 .. Len(pipe), NEW b \in Seq(Bytes), UNCHANGED ends,
         gone = 1 .. peer - 1 \/ UNCHANGED reader, pipe' = [pipe EXCEPT ![c] = b]
  PROVE  /\ EndsTyped' /\ Len(pipe') = Len(pipe) /\ pipe'[c] = b
         /\ \A d \in 1 .. Len(pipe) : d # c => pipe'[d] = pipe[d]
<1>1. pipe \in Seq(Seq(Bytes)) /\ UNCHANGED <<sock, peer, gone>>
  BY DEF EndsTyped, ends
<1>2. /\ pipe' \in Seq(Seq(Bytes)) /\ Len(pipe') = Len(pipe)
      /\ \A d \in 1 .. Len(pipe) : pipe'[d] = IF d = c THEN b ELSE pipe[d]
  BY <1>1, ExceptSeq
<1>3. QED
  BY <1>1, <1>2 DEF EndsTyped

\* What a byte that is written does to the log.
PutLog(p) ==
  LET c == pub[p].conn
      alone == \A q \in Publishers \ {p} :
                 pub[q] = Idle \/ pub[q].total = 0 \/ pub[q].conn # c
  IN \/ (pub[p].total > 0 \/ log[c].cut) /\ UNCHANGED log
     \/ /\ pub[p].total = 0 /\ ~log[c].cut /\ alone
        /\ log' = [log EXCEPT ![c].sent = Append(@, pub[p].send)]
     \/ pub[p].total = 0 /\ ~log[c].cut /\ CutOff({c})

\* What it does to the call.
PutCall(p) ==
  LET total == pub[p].total + 1
      all == Header + length[pub[p].send]
  IN \/ total = all /\ pub' = [pub EXCEPT ![p] = Idle]
     \/ /\ total < all
        /\ \E pc \in {"wait", "send"} : pub' = [pub EXCEPT ![p] =
             [pc |-> pc, send |-> pub[p].send, total |-> total, conn |-> pub[p].conn]]

\* SendPut in these words.
LEMMA PutParts ==
  ASSUME Typed, NEW p \in Publishers, SendPut(p)
  PROVE  /\ CallOk(pub[p]) /\ pub[p] # Idle /\ pub[p].conn \in 1 .. Len(pipe)
         /\ pub[p].conn \notin gone /\ UNCHANGED <<ends, reader, length>>
         /\ pipe' = [pipe EXCEPT ![pub[p].conn] =
                       Append(pipe[pub[p].conn], <<pub[p].send, pub[p].total + 1>>)]
         /\ PutLog(p) /\ PutCall(p)
<1>1. /\ pub[p].pc = "send" /\ pub[p] # Idle /\ pub[p].conn \notin gone
      /\ UNCHANGED <<ends, reader, length>>
  BY IdleFacts DEF SendPut
<1>2. CallOk(pub[p])
  BY <1>1, PubByCall DEF Typed
<1>3. Len(pipe) \in Nat
  BY DEF Typed, EndsTyped
<1>4. pub[p].conn \in 1 .. Len(pipe) /\ pub[p].total \in Nat /\ pub[p].send \in 1 .. Len(length)
  BY <1>1, <1>2, <1>3 DEF CallOk, Calls
<1>5. pipe' = [pipe EXCEPT ![pub[p].conn] =
                 Append(pipe[pub[p].conn], <<pub[p].send, pub[p].total + 1>>)]
  BY DEF SendPut
<1>6. PutLog(p)
  <2>1. pub[p].total + 1 > 1 <=> pub[p].total > 0
    BY <1>4
  <2>2. ~(pub[p].total > 0) => pub[p].total = 0
    BY <1>4
  <2>3. QED
    BY <2>1, <2>2 DEF SendPut, PutLog
<1>7. PutCall(p)
  <2>1. CASE pub[p].total + 1 = Header + length[pub[p].send]
    BY <2>1 DEF SendPut, PutCall
  <2>2. CASE pub[p].total + 1 # Header + length[pub[p].send]
    <3>2. \E pc \in {"wait", "send"} : pub' = [pub EXCEPT ![p] =
            [pc |-> pc, send |-> pub[p].send, total |-> pub[p].total + 1, conn |-> pub[p].conn]]
      BY <2>2, Zenon DEF SendPut
    <3>3. pub[p].total + 1 < Header + length[pub[p].send]
      <4>1. Header \in Nat /\ length[pub[p].send] \in Nat /\ pub[p].total < Header + length[pub[p].send]
        BY <1>2, <1>4, TcpAssumption, SMTT(30) DEF CallOk, Typed, LogTyped
      <4>2. QED
        BY <1>4, <2>2, <4>1, SMTT(60)
    <3>4. QED
      BY <3>2, <3>3 DEF PutCall
  <2>3. QED
    BY <2>1, <2>2
<1>8. QED
  BY <1>1, <1>2, <1>4, <1>5, <1>6, <1>7

\* The steps of SendWithTimeout.
LEMMA TypedSend ==
  ASSUME Typed, NEW p \in Publishers, SendStep(p) \/ \E n \in Lengths : SendBegin(p, n)
  PROVE  Typed'
<1> USE DEF ends, sending
<1>0. EndsTyped /\ LogTyped /\ PubTyped /\ ReaderTyped /\ length \in Seq(Nat) /\ Len(pipe) \in Nat
  BY DEF Typed, EndsTyped, LogTyped
<1>1. ReaderTyped'
  <2>1. UNCHANGED <<peer, reader>>
    BY DEF SendStep, SendReady, SendGivesUp, SendPut, SendInterrupted, SendBroken, SendKilled,
           SendBegin
  <2>2. QED
    BY <1>0, <2>1 DEF ReaderTyped
<1>2. ASSUME UNCHANGED length PROVE LengthGrown
  BY <1>0, <1>2 DEF LengthGrown
<1>3. ASSUME UNCHANGED <<ends, pipe>> PROVE EndsTyped'
  <2>1. UNCHANGED reader
    BY DEF SendStep, SendReady, SendGivesUp, SendPut, SendInterrupted, SendBroken, SendKilled,
           SendBegin
  <2>2. QED
    BY <1>0, <1>3, <2>1 DEF EndsTyped
<1>4. ASSUME NEW S, CutOff(S), UNCHANGED <<length, ends, pipe>>,
             NEW x, pub' = [pub EXCEPT ![p] = x], x = Idle \/ CallOk(x)
      PROVE  Typed'
  <2>1. x = Idle \/ CallOk(x)'
    BY <1>4 DEF CallOk
  <2>2. PubTyped'
    <3>1. LengthGrown /\ Len(pipe') \in Nat /\ Len(pipe) <= Len(pipe')
      BY <1>0, <1>2, <1>4
    <3>2. QED
      BY <1>0, <1>4, <2>1, <3>1, PubUpdate
  <2>3. LogTyped'
    BY <1>0, <1>4, CutTyped
  <2>4. QED
    BY <1>1, <1>3, <1>4, <2>2, <2>3 DEF Typed
<1>5. ASSUME NEW n \in Lengths, SendBegin(p, n) PROVE Typed'
  <2>1. /\ length' = Append(length, n) /\ UNCHANGED <<ends, pipe, log>>
        /\ pub' = [pub EXCEPT ![p] =
               [pc |-> "wait", send |-> Len(length) + 1, total |-> 0, conn |-> 0]]
    BY <1>5 DEF SendBegin
  <2>2. PICK k \in Nat : k = Len(length)
    BY <1>0
  <2>3. n \in Nat
    BY TcpAssumption
  <2>4. length' \in Seq(Nat) /\ Len(length') = k + 1 /\ \A s \in 1 .. k : length'[s] = length[s]
    BY <1>0, <2>1, <2>2, <2>3, AppendProperties
  <2>5. LengthGrown /\ k + 1 \in 1 .. Len(length') /\ length'[k + 1] \in Nat
    BY <2>2, <2>4 DEF LengthGrown
  <2>6. PICK x : x = [pc |-> "wait", send |-> k + 1, total |-> 0, conn |-> 0]
    OBVIOUS
  <2>7. x \in Calls /\ x.pc = "wait" /\ x.send = k + 1 /\ x.total = 0 /\ x.conn = 0
    BY <2>6 DEF Calls
  <2>8. CallOk(x)'
    <3>1. 0 < Header + length'[k + 1] /\ 0 \in 0 .. Len(pipe)
      BY <1>0, <2>5, TcpAssumption
    <3>2. QED
      BY <2>1, <2>5, <2>7, <3>1 DEF CallOk
  <2>9. PubTyped'
    <3>1. LengthGrown /\ Len(pipe') \in Nat /\ Len(pipe) <= Len(pipe')
      BY <1>0, <2>1, <2>5
    <3>2. pub' = [pub EXCEPT ![p] = x]
      BY <2>1, <2>2, <2>6
    <3>3. QED
      BY <1>0, <2>8, <3>1, <3>2, PubUpdate
  <2>10. LogTyped'
    <3>1. 1 .. Len(length) \subseteq 1 .. Len(length')
      BY <2>2, <2>4
    <3>2. QED
      BY <1>0, <2>1, <2>4, <3>1 DEF LogTyped
  <2>11. QED
    BY <1>1, <1>3, <2>1, <2>9, <2>10 DEF Typed
<1>6. ASSUME SendReady(p) PROVE Typed'
  <2>1. /\ pub[p].pc = "wait" /\ pub[p] # Idle /\ sock # 0 /\ UNCHANGED <<length, ends, pipe>>
    BY <1>6, IdleFacts DEF SendReady
  <2>2. PICK S : CutOff(S)
    BY <1>6 DEF SendReady
  <2>3. PICK x : x = [pc |-> "send", send |-> pub[p].send, total |-> pub[p].total, conn |-> sock]
    OBVIOUS
  <2>4. pub' = [pub EXCEPT ![p] = x]
    BY <1>6, <2>3 DEF SendReady
  <2>5. CallOk(pub[p])
    BY <1>0, <2>1, PubByCall
  <2>6. CallOk(x)
    <3>1. sock \in 0 .. Len(pipe) /\ sock \in Nat
      BY <1>0 DEF EndsTyped
    <3>2. x \in Calls /\ x.send = pub[p].send /\ x.total = pub[p].total /\ x.conn = sock
      BY <2>3, <2>5, <3>1 DEF CallOk, Calls
    <3>3. QED
      BY <2>1, <2>5, <3>1, <3>2 DEF CallOk
  <2>7. QED
    BY <1>4, <2>1, <2>2, <2>4, <2>6
<1>7. ASSUME SendGivesUp(p) \/ SendBroken(p) PROVE Typed'
  <2>1. UNCHANGED <<length, ends, pipe>> /\ pub' = [pub EXCEPT ![p] = Idle] /\ \E S : CutOff(S)
    BY <1>7 DEF SendGivesUp, SendBroken, SendFails
  <2>2. QED
    BY <1>4, <2>1
<1>8. ASSUME SendInterrupted(p) PROVE Typed'
  <2>1. /\ pub[p].pc = "send" /\ pub[p] # Idle /\ UNCHANGED <<length, ends, pipe, log>>
        /\ pub' = [pub EXCEPT ![p].pc = "wait"]
    BY <1>8, IdleFacts DEF SendInterrupted
  <2>2. PICK x : x = [pc |-> "wait", send |-> pub[p].send, total |-> pub[p].total, conn |-> pub[p].conn]
    OBVIOUS
  <2>3. pub' = [pub EXCEPT ![p] = x]
    BY <1>0, <2>1, <2>2, CallStep
  <2>4. CallOk(pub[p])
    BY <1>0, <2>1, PubByCall
  <2>5. CallOk(x)
    <3>1. /\ x \in Calls /\ x.pc = "wait" /\ x.send = pub[p].send /\ x.total = pub[p].total
          /\ x.conn = pub[p].conn
      BY <2>2, <2>4 DEF CallOk, Calls
    <3>2. QED
      BY <2>1, <2>4, <3>1 DEF CallOk
  <2>6. CutOff({})
    BY <1>0, <2>1, LenProperties DEF CutOff, LogTyped
  <2>7. QED
    BY <1>4, <2>1, <2>3, <2>5, <2>6
<1>9. ASSUME SendPut(p) PROVE Typed'
  <2>1. /\ CallOk(pub[p]) /\ pub[p] # Idle /\ pub[p].conn \in 1 .. Len(pipe)
        /\ UNCHANGED <<ends, reader, length>>
        /\ pipe' = [pipe EXCEPT ![pub[p].conn] =
                      Append(pipe[pub[p].conn], <<pub[p].send, pub[p].total + 1>>)]
        /\ PutLog(p) /\ PutCall(p)
    BY <1>9, PutParts
  <2>2. PICK c \in 1 .. Len(pipe) : c = pub[p].conn
    BY <2>1
  <2>3. PICK s \in 1 .. Len(length) : s = pub[p].send
    BY <2>1 DEF CallOk
  <2>4. PICK t \in Nat : t = pub[p].total
    BY <2>1 DEF CallOk, Calls
  <2>5. Append(pipe[c], <<s, t + 1>>) \in Seq(Bytes)
    <3>1. pipe[c] \in Seq(Bytes)
      BY <1>0, ElementOfSeq, Zenon DEF EndsTyped
    <3>2. <<s, t + 1>> \in Bytes
      BY <1>0 DEF Bytes
    <3>3. QED
      BY <3>1, <3>2, AppendProperties
  <2>6. EndsTyped' /\ Len(pipe') = Len(pipe)
    BY <1>0, <2>1, <2>2, <2>3, <2>4, <2>5, PipeUpdate
  <2>7. LogTyped'
    <3>1. CASE UNCHANGED log
      BY <1>0, <2>1, <2>6, <3>1 DEF LogTyped
    <3>2. CASE ~log[c].cut /\ log' = [log EXCEPT ![c].sent = Append(@, s)]
      BY <1>0, <2>1, <2>6, <3>2, SentTyped
    <3>3. CASE CutOff({c})
      BY <1>0, <2>1, <2>6, <3>3, CutTyped
    <3>4. QED
      BY <2>1, <2>2, <2>3, <3>1, <3>2, <3>3 DEF PutLog
  <2>8. PubTyped'
    <3>1. PICK x : pub' = [pub EXCEPT ![p] = x] /\ (x = Idle \/ CallOk(x))
      <4>1. CASE pub' = [pub EXCEPT ![p] = Idle]
        BY <4>1
      <4>2. CASE t + 1 < Header + length[s] /\ \E pc \in {"wait", "send"} :
                   pub' = [pub EXCEPT ![p] = [pc |-> pc, send |-> s, total |-> t + 1, conn |-> c]]
        <5>1. PICK pc \in {"wait", "send"} :
                   pub' = [pub EXCEPT ![p] = [pc |-> pc, send |-> s, total |-> t + 1, conn |-> c]]
          BY <4>2
        <5>2. PICK x : x = [pc |-> pc, send |-> s, total |-> t + 1, conn |-> c]
          OBVIOUS
        <5>3. x.send = s /\ x.total = t + 1 /\ x.conn = c
          BY <5>2
        <5>4. s \in Nat /\ c \in Nat /\ t + 1 \in Nat
          BY <1>0
        <5>5. x \in Calls
          BY <5>2, <5>4 DEF Calls
        <5>6. c # 0 /\ c \in 0 .. Len(pipe)
          BY <1>0
        <5>7. CallOk(x)
          BY <4>2, <5>3, <5>5, <5>6 DEF CallOk
        <5>8. QED
          BY <5>1, <5>2, <5>7
      <4>3. QED
        BY <2>1, <2>2, <2>3, <2>4, <4>1, <4>2 DEF PutCall
    <3>2. x = Idle \/ CallOk(x)'
      BY <2>1, <2>6, <3>1 DEF CallOk
    <3>3. LengthGrown /\ Len(pipe') \in Nat /\ Len(pipe) <= Len(pipe')
      BY <1>0, <1>2, <2>1, <2>6
    <3>4. QED
      BY <1>0, <3>1, <3>2, <3>3, PubUpdate
  <2>9. QED
    BY <1>1, <2>6, <2>7, <2>8 DEF Typed
<1>10. ASSUME SendKilled(p) PROVE Typed'
  <2>1. UNCHANGED <<peer, gone, pipe, pub, length, reader, log>> /\ sock' = 0
    BY <1>10 DEF SendKilled
  <2>2. EndsTyped'
    BY <1>0, <2>1 DEF EndsTyped
  <2>3. LogTyped' /\ PubTyped'
    BY <1>0, <2>1 DEF LogTyped, PubTyped
  <2>4. QED
    BY <1>1, <2>2, <2>3 DEF Typed
<1>11. QED
  BY <1>5, <1>6, <1>7, <1>8, <1>9, <1>10 DEF SendStep

\* What a call of the receiver does with the bytes it has.
Outcome(bytes) ==
  \/ /\ Len(bytes) < reader.need /\ UNCHANGED log
     /\ reader' = [pc |-> reader.pc, need |-> reader.need, got |-> bytes]
  \/ /\ ~(Len(bytes) < reader.need) /\ reader.pc = "header" /\ UNCHANGED log
     /\ \E n \in LengthsIn(bytes) :
          n # 0 /\ reader' = [pc |-> "body", need |-> n, got |-> <<>>]
  \/ ~(Len(bytes) < reader.need) /\ reader.pc = "header" /\ 0 \in LengthsIn(bytes) /\ Deliver(<<>>)
  \/ ~(Len(bytes) < reader.need) /\ reader.pc = "body" /\ Deliver(bytes)

\* RecvSome in these words.
LEMMA RecvParts ==
  ASSUME Typed, ~ReceiverEnded, RecvSome
  PROVE  /\ reader # Idle /\ peer \in 1 .. Len(pipe) /\ peer \notin gone
         /\ pipe[peer] \in Seq(Bytes) /\ pipe[peer] # <<>>
         /\ pipe' = [pipe EXCEPT ![peer] = Tail(pipe[peer])]
         /\ UNCHANGED <<ends, pub, length>>
         /\ Append(reader.got, Head(pipe[peer])) \in Seq(Bytes)
         /\ Outcome(Append(reader.got, Head(pipe[peer])))
<1>1. /\ reader # Idle /\ pipe[peer] # <<>> /\ UNCHANGED <<ends, pub, length>>
      /\ pipe' = [pipe EXCEPT ![peer] = Tail(pipe[peer])]
      /\ Read(Append(reader.got, Head(pipe[peer])))
  BY DEF RecvSome, sending
<1>2. /\ peer # 0 /\ reader = [pc |-> reader.pc, need |-> reader.need, got |-> reader.got]
      /\ reader.pc \in {"header", "body"} /\ reader.got \in Seq(Bytes)
  BY <1>1 DEF Typed, ReaderTyped
<1>3. Len(pipe) \in Nat /\ peer \in 0 .. Len(pipe) /\ gone = 1 .. peer - 1 /\ pipe \in Seq(Seq(Bytes))
  BY GoneBefore DEF Typed, EndsTyped
<1>4. peer \in 1 .. Len(pipe) /\ peer \notin gone
  BY <1>2, <1>3
<1>5. pipe[peer] \in Seq(Bytes)
  BY <1>3, <1>4, ElementOfSeq
<1>6. PICK bytes : bytes = Append(reader.got, Head(pipe[peer])) /\ bytes \in Seq(Bytes)
  <2>1. Head(pipe[peer]) \in Bytes
    BY <1>1, <1>5, HeadTailProperties
  <2>2. QED
    BY <1>2, <2>1, AppendProperties, ZenonT(30)
<1>7. Outcome(bytes)
  <2>1. CASE Len(bytes) < reader.need
    <3>1. reader' = [reader EXCEPT !.got = bytes] /\ UNCHANGED log
      BY <1>1, <1>6, <2>1 DEF Read
    <3>2. [reader EXCEPT !.got = bytes] = [pc |-> reader.pc, need |-> reader.need, got |-> bytes]
      BY <1>2
    <3>3. QED
      BY <2>1, <3>1, <3>2 DEF Outcome
  <2>2. CASE ~(Len(bytes) < reader.need) /\ reader.pc = "header"
    BY <1>1, <1>6, <2>2, Zenon DEF Read, Outcome
  <2>3. CASE ~(Len(bytes) < reader.need) /\ reader.pc = "body"
    <3>1. reader.pc # "header"
      BY <2>3
    <3>2. QED
      BY <1>1, <1>6, <2>3, <3>1, Zenon DEF Read, Outcome
  <2>4. QED
    BY <1>2, <2>1, <2>2, <2>3
<1>8. QED
  BY <1>1, <1>4, <1>5, <1>6, <1>7

\* The steps of the two owners and of ReceiveWithTimeout.
LEMMA TypedOthers ==
  ASSUME Typed,
         ConnectBegin \/ ConnectEnd \/ Close \/ PeerConnect \/ RecvBegin \/ RecvStep
  PROVE  Typed'
<1> USE DEF ends, sending
<1>0. EndsTyped /\ LogTyped /\ PubTyped /\ ReaderTyped /\ length \in Seq(Nat) /\ Len(pipe) \in Nat
  BY DEF Typed, EndsTyped, LogTyped
<1>1. UNCHANGED <<pub, length>>
  BY DEF ConnectBegin, ConnectEnd, Close, PeerConnect, RecvBegin, RecvStep, RecvSome, RecvKilled,
         RecvTimeout, RecvClosed, RecvInterrupted, RecvFails
<1>2. ASSUME Len(pipe') \in Nat, Len(pipe) <= Len(pipe') PROVE PubTyped'
  <2>1. 0 .. Len(pipe) \subseteq 0 .. Len(pipe')
    BY <1>0, <1>2
  <2>2. QED
    BY <1>0, <1>1, <2>1 DEF PubTyped
<1>3. CASE ConnectBegin \/ Close
  <2>1. UNCHANGED <<peer, gone, pipe, reader, log>> /\ sock' = 0
    BY <1>3 DEF ConnectBegin, Close
  <2>2. EndsTyped'
    BY <1>0, <2>1 DEF EndsTyped
  <2>3. LogTyped' /\ ReaderTyped'
    BY <1>0, <1>1, <2>1 DEF LogTyped, ReaderTyped
  <2>4. QED
    BY <1>0, <1>2, <2>1, <2>2, <2>3 DEF Typed
<1>4. CASE ConnectEnd
  <2>1. UNCHANGED <<peer, gone, reader>>
    BY <1>4 DEF ConnectEnd
  <2>2. ReaderTyped'
    BY <1>0, <2>1 DEF ReaderTyped
  <2>3. CASE UNCHANGED <<sock, pipe, log>>
    <3>1. EndsTyped' /\ LogTyped'
      BY <1>0, <1>1, <2>1, <2>3 DEF EndsTyped, LogTyped
    <3>2. QED
      BY <1>0, <1>2, <2>2, <2>3, <3>1 DEF Typed
  <2>4. CASE pipe' = Append(pipe, <<>>) /\ log' = Append(log, Fresh) /\ sock' = Len(pipe) + 1
    <3>1. PICK n \in Nat : n = Len(pipe) /\ n = Len(log)
      BY <1>0 DEF LogTyped
    <3>2. Fresh \in Logs /\ <<>> \in Seq(Bytes) /\ Len(Fresh.sent) = 0 /\ Fresh.cut = FALSE
      BY EmptySeq DEF Fresh, Logs
    <3>3. pipe' \in Seq(Seq(Bytes)) /\ Len(pipe') = n + 1
      <4>1. pipe \in Seq(Seq(Bytes))
        BY <1>0 DEF EndsTyped
      <4>2. /\ Append(pipe, <<>>) \in Seq(Seq(Bytes))
            /\ Len(Append(pipe, <<>>)) = Len(pipe) + 1
        BY <3>2, <4>1, AppendProperties
      <4>3. QED
        BY <2>4, <3>1, <4>2
    <3>4. /\ log' \in Seq(Logs) /\ Len(log') = n + 1 /\ log'[n + 1] = Fresh
          /\ \A c \in 1 .. n : log'[c] = log[c]
      BY <1>0, <2>4, <3>1, <3>2, AppendProperties DEF LogTyped
    <3>5. EndsTyped'
      BY <1>0, <2>1, <2>4, <3>1, <3>3 DEF EndsTyped
    <3>6. ASSUME NEW c \in 1 .. n + 1
          PROVE  /\ log'[c].cut => log'[c] = Cut
                 /\ \A i \in 1 .. Len(log'[c].sent) : log'[c].sent[i] \in 1 .. Len(length)
      <4>1. CASE c = n + 1
        BY <3>2, <3>4, <4>1
      <4>2. CASE c \in 1 .. n
        BY <1>0, <3>1, <3>4, <4>2 DEF LogTyped
      <4>3. QED
        BY <3>1, <4>1, <4>2
    <3>7. LogTyped'
      BY <1>0, <1>1, <3>3, <3>4, <3>6 DEF LogTyped
    <3>8. PubTyped'
      BY <1>2, <3>1, <3>3
    <3>9. QED
      BY <2>2, <3>5, <3>7, <3>8 DEF Typed
  <2>5. QED
    BY <1>4, <2>3, <2>4 DEF ConnectEnd
<1>5. CASE PeerConnect
  <2>1. /\ UNCHANGED <<sock, reader, log>> /\ reader = Idle /\ peer' = Len(pipe)
        /\ gone' = gone \cup 1 .. Len(pipe) - 1
        /\ pipe' = [c \in DOMAIN pipe |-> IF c = Len(pipe) THEN pipe[c] ELSE <<>>]
    BY <1>5 DEF PeerConnect
  <2>2. PICK n \in Nat : n = Len(pipe) /\ DOMAIN pipe = 1 .. n
    BY <1>0 DEF EndsTyped
  <2>3. \A c \in 1 .. n : pipe[c] \in Seq(Bytes) /\ <<>> \in Seq(Bytes)
    BY <1>0, <2>2, EmptySeq DEF EndsTyped
  <2>4. pipe' \in Seq(Seq(Bytes)) /\ Len(pipe') = n
    BY <2>1, <2>2, <2>3
  <2>5. gone' = 1 .. n - 1
    <3>1. gone = 1 .. peer - 1
      BY <1>0, <2>1, GoneBefore
    <3>2. QED
      BY <1>0, <2>1, <2>2, <3>1 DEF EndsTyped
  <2>6. EndsTyped'
    BY <1>0, <2>1, <2>2, <2>4, <2>5 DEF EndsTyped
  <2>7. LogTyped' /\ ReaderTyped'
    BY <1>0, <1>1, <2>1, <2>2, <2>4 DEF LogTyped, ReaderTyped
  <2>8. QED
    BY <1>2, <2>2, <2>4, <2>6, <2>7 DEF Typed
<1>6. CASE RecvBegin
  <2>1. /\ UNCHANGED <<ends, pipe, log>> /\ peer # 0 /\ gone = 1 .. peer - 1
        /\ reader' = [pc |-> "header", need |-> Header, got |-> <<>>]
    BY <1>0, <1>6, GoneBefore DEF RecvBegin
  <2>2. ReaderTyped'
    <3>1. <<>> \in Seq(Bytes) /\ Len(<<>>) = 0 /\ 0 < Header
      BY EmptySeq, TcpAssumption
    <3>2. QED
      BY <2>1, <3>1 DEF ReaderTyped
  <2>3. EndsTyped' /\ LogTyped' /\ PubTyped'
    BY <1>0, <1>1, <1>2, <2>1 DEF EndsTyped, LogTyped
  <2>4. QED
    BY <2>2, <2>3 DEF Typed
<1>7. CASE ~ReceiverEnded /\ (RecvTimeout \/ RecvClosed \/ RecvInterrupted)
  <2>1. /\ UNCHANGED <<ends, pipe>> /\ reader' = Idle /\ gone = 1 .. peer - 1
        /\ \E S : CutOff(S)
    BY <1>0, <1>7, GoneBefore DEF RecvTimeout, RecvClosed, RecvInterrupted, RecvFails
  <2>2. EndsTyped' /\ PubTyped' /\ ReaderTyped'
    BY <1>0, <1>2, <2>1 DEF EndsTyped, ReaderTyped
  <2>3. LogTyped'
    BY <1>0, <1>1, <2>1, CutTyped
  <2>4. QED
    BY <2>2, <2>3 DEF Typed
<1>8. CASE ~ReceiverEnded /\ RecvSome
  <2>1. /\ reader # Idle /\ peer \in 1 .. Len(pipe)
        /\ pipe[peer] \in Seq(Bytes) /\ pipe[peer] # <<>>
        /\ pipe' = [pipe EXCEPT ![peer] = Tail(pipe[peer])] /\ UNCHANGED ends
    BY <1>8, RecvParts
  <2>2. PICK bytes \in Seq(Bytes) : bytes = Append(reader.got, Head(pipe[peer])) /\ Outcome(bytes)
    BY <1>8, RecvParts
  <2>3. Tail(pipe[peer]) \in Seq(Bytes)
    BY <2>1, HeadTailProperties
  <2>4. EndsTyped' /\ Len(pipe') = Len(pipe)
    <3>1. gone = 1 .. peer - 1
      BY <1>0, <1>8, GoneBefore
    <3>2. QED
      BY <1>0, <2>1, <2>3, <3>1, PipeUpdate
  <2>5. ASSUME NEW m \in Seq(Bytes), Deliver(m) PROVE LogTyped' /\ ReaderTyped'
    <3>1. \/ UNCHANGED log
          \/ ~log[peer].cut /\ log' = [log EXCEPT ![peer].received = Append(@, m)]
      <4>1. CASE log[peer].cut
        BY <2>5, <4>1 DEF Deliver
      <4>2. CASE ~log[peer].cut
        BY <2>5, <4>2 DEF Deliver
      <4>3. QED
        BY <4>1, <4>2
    <3>2. LogTyped'
      BY <1>0, <1>1, <2>1, <2>4, <3>1, ReceivedTyped DEF LogTyped
    <3>3. reader' = Idle
      BY <2>5 DEF Deliver
    <3>4. QED
      BY <3>2, <3>3 DEF ReaderTyped
  <2>6. ASSUME UNCHANGED log PROVE LogTyped'
    BY <1>0, <1>1, <2>4, <2>6 DEF LogTyped
  <2>7. <<>> \in Seq(Bytes)
    BY EmptySeq
  <2>8. LogTyped' /\ ReaderTyped'
    <3>1. CASE /\ Len(bytes) < reader.need /\ UNCHANGED log
               /\ reader' = [pc |-> reader.pc, need |-> reader.need, got |-> bytes]
      <4>1. ReaderTyped'
        BY <1>0, <2>1, <3>1 DEF ReaderTyped
      <4>2. QED
        BY <2>6, <3>1, <4>1
    <3>2. CASE /\ UNCHANGED log
               /\ \E n : reader' = [pc |-> "body", need |-> n, got |-> <<>>]
      <4>1. ReaderTyped'
        BY <1>0, <2>1, <2>7, <3>2 DEF ReaderTyped
      <4>2. QED
        BY <2>6, <3>2, <4>1
    <3>3. CASE Deliver(<<>>) \/ Deliver(bytes)
      BY <2>5, <2>7, <3>3
    <3>4. QED
      BY <2>2, <3>1, <3>2, <3>3 DEF Outcome
  <2>9. PubTyped'
    BY <1>0, <1>2, <2>4
  <2>10. QED
    BY <2>4, <2>8, <2>9 DEF Typed
<1>9. CASE ~ReceiverEnded /\ RecvKilled
  <2>1. /\ UNCHANGED <<sock, peer, reader, log>> /\ reader # Idle
        /\ gone' = gone \cup {peer} /\ pipe' = [pipe EXCEPT ![peer] = <<>>]
    BY <1>9 DEF RecvKilled
  <2>2. peer \in 1 .. Len(pipe) /\ gone = 1 .. peer - 1
    BY <1>0, <1>9, <2>1, GoneBefore DEF EndsTyped, ReaderTyped
  <2>3. gone' = 1 .. peer
    BY <1>0, <2>1, <2>2
  <2>4. pipe' \in Seq(Seq(Bytes)) /\ Len(pipe') = Len(pipe)
    <3>1. pipe \in Seq(Seq(Bytes)) /\ <<>> \in Seq(Bytes)
      BY <1>0, EmptySeq DEF EndsTyped
    <3>2. QED
      BY <2>1, <2>2, <3>1, ExceptSeq
  <2>5. EndsTyped'
    BY <1>0, <2>1, <2>3, <2>4 DEF EndsTyped
  <2>6. LogTyped' /\ ReaderTyped'
    BY <1>0, <1>1, <2>1, <2>4 DEF LogTyped, ReaderTyped
  <2>7. QED
    BY <1>0, <1>2, <2>4, <2>5, <2>6 DEF Typed
<1>10. QED
  BY <1>3, <1>4, <1>5, <1>6, <1>7, <1>8, <1>9 DEF RecvStep

\* Every step.
LEMMA TypedNext ==
  ASSUME Typed, [Next]_vars
  PROVE  Typed'
<1>1. CASE UNCHANGED vars
  BY <1>1 DEF vars, Typed, EndsTyped, LogTyped, PubTyped, ReaderTyped
<1>2. CASE Next
  BY <1>2, TypedSend, TypedOthers DEF Next
<1>3. QED
  BY <1>1, <1>2

-----------------------------------------------------------------------------
(* The stream of a connection.                                             *)

\* What a message is depends on its size only.
LEMMA BodyKept ==
  ASSUME LengthGrown, NEW s \in 1 .. Len(length)
  PROVE  Body(s)' = Body(s)
<1>1. length'[s] = length[s]
  BY DEF LengthGrown
<1>2. Frame(s)' = Frame(s)
  BY <1>1 DEF Frame
<1>3. QED
  BY <1>1, <1>2 DEF Body

\* Nothing happens to the log of a connection, or it is cut.
LEMMA WholeKept ==
  ASSUME Typed, LengthGrown, NEW c \in 1 .. Len(pipe), Whole(c),
         log'[c] = log[c] \/ log'[c] = Cut
  PROVE  Whole(c)'
<1>1. CASE log'[c] = Cut
  <2>1. Len(log'[c].received) = 0 /\ Len(log'[c].sent) = 0
    BY <1>1, EmptySeq DEF Cut
  <2>2. QED
    BY <2>1 DEF Whole
<1>2. CASE log'[c] = log[c]
  <2>1. PICK r \in Nat, n \in Nat : r = Len(log[c].received) /\ n = Len(log[c].sent)
    <3>1. log[c] \in Logs
      BY ElementOfSeq DEF Typed, LogTyped
    <3>2. log[c].sent \in Seq(Nat) /\ log[c].received \in Seq(Seq(Bytes))
      BY <3>1 DEF Logs
    <3>3. QED
      BY <3>2
  <2>2. ASSUME NEW i \in 1 .. r PROVE log'[c].received[i] = Body(log[c].sent[i])'
    <3>1. i \in 1 .. n /\ log[c].received[i] = Body(log[c].sent[i])
      BY <2>1 DEF Whole
    <3>2. log[c].sent[i] \in 1 .. Len(length)
      BY <2>1, <3>1 DEF Typed, LogTyped
    <3>3. PICK s \in 1 .. Len(length) : s = log[c].sent[i]
      BY <3>2
    <3>4. Body(s)' = Body(s)
      BY BodyKept
    <3>5. Body(log[c].sent[i])' = Body(s)'
      BY <1>2, <3>3 DEF Body, Frame
    <3>6. QED
      BY <1>2, <3>1, <3>3, <3>4, <3>5
  <2>3. QED
    BY <1>2, <2>1, <2>2 DEF Whole
<1>3. QED
  BY <1>1, <1>2

\* The receiver does nothing.
LEMMA HeldKept ==
  ASSUME Typed, LengthGrown, NEW c \in 1 .. Len(pipe), Held(c), log'[c] = log[c],
         UNCHANGED <<peer, reader>>
  PROVE  Held(c)' /\ ReadTo(c)' = ReadTo(c)
<1>1. ReadTo(c)' = ReadTo(c) /\ Skipped' = Skipped
  BY DEF ReadTo, Skipped
<1>2. ASSUME c = peer, reader # Idle, reader.pc = "body" \/ reader.got # <<>>
      PROVE  LET i == Len(log[c].received) + 1
             IN  i <= Len(log[c].sent) /\ length'[log[c].sent[i]] = length[log[c].sent[i]]
  <2>1. PICK i \in Nat, n \in Nat : i = Len(log[c].received) + 1 /\ n = Len(log[c].sent) /\ i >= 1
    <3>1. log[c] \in Logs
      BY ElementOfSeq DEF Typed, LogTyped
    <3>2. log[c].sent \in Seq(Nat) /\ log[c].received \in Seq(Seq(Bytes))
      BY <3>1 DEF Logs
    <3>3. QED
      BY <3>2
  <2>2. i <= n
    BY <1>2, <2>1 DEF Held
  <2>3. log[c].sent[i] \in 1 .. Len(length)
    BY <2>1, <2>2 DEF Typed, LogTyped
  <2>4. QED
    BY <2>1, <2>2, <2>3 DEF LengthGrown
<1>3. Held(c)'
  BY <1>1, <1>2 DEF Held
<1>4. QED
  BY <1>1, <1>3

\* Neither the connection nor the calls inside its frames change.
WritersKept(c) ==
  \A p \in Publishers :
    /\ Writes(p, c)' <=> Writes(p, c)
    /\ Writes(p, c) => pub'[p].total = pub[p].total /\ pub'[p].send = pub[p].send

\* A step that leaves a connection, the reader's place in it and the calls
\* inside its frames alone keeps what Flow says of it.
LEMMA FlowKept ==
  ASSUME Typed, LengthGrown, NEW c \in 1 .. Len(pipe), Flow(c), log'[c] = log[c],
         pipe'[c] = pipe[c], ReadTo(c)' = ReadTo(c), Held(c)', WritersKept(c)
  PROVE  Flow(c)'
<1>1. PICK y \in Nat \X Nat :
        /\ Run(pipe[c], log[c].sent, length, <<Len(log[c].received) + 1, ReadTo(c)>>, y)
        /\ \A p \in Publishers : Writes(p, c) => y = <<Len(log[c].sent), pub[p].total + 1>>
        /\ (\A p \in Publishers : ~Writes(p, c)) => y = <<Len(log[c].sent) + 1, 1>>
  BY DEF Flow, Stream
<1>2. PICK sent \in Seq(Nat) : sent = log[c].sent /\ Len(sent) \in Nat
  <2>1. log[c] \in Logs
    BY ElementOfSeq DEF Typed, LogTyped
  <2>2. QED
    BY <2>1 DEF Logs
<1>3. \A i \in 1 .. Len(sent) : length'[sent[i]] = length[sent[i]]
  BY <1>2 DEF Typed, LogTyped, LengthGrown
<1>4. PICK x : x = <<Len(log[c].received) + 1, ReadTo(c)>>
  OBVIOUS
<1>5. Run(pipe[c], sent, length, x, y)
  BY <1>1, <1>2, <1>4
<1>6. Run(pipe[c], sent, length', x, y)
  BY <1>2, <1>3, <1>5, RunGrown, SMTT(60)
<1>7. Stream(c)'
  <2>1. Run(pipe'[c], log'[c].sent, length', <<Len(log'[c].received) + 1, ReadTo(c)'>>, y)
    BY <1>2, <1>4, <1>6
  <2>2. \A p \in Publishers : Writes(p, c)' => y = <<Len(log'[c].sent), pub'[p].total + 1>>
    BY <1>1 DEF WritersKept
  <2>3. (\A p \in Publishers : ~Writes(p, c)') => y = <<Len(log'[c].sent) + 1, 1>>
    BY <1>1 DEF WritersKept
  <2>4. QED
    BY <2>1, <2>2, <2>3 DEF Stream
<1>8. Writer(c)'
  BY DEF Flow, Writer, WritersKept
<1>9. QED
  BY <1>7, <1>8 DEF Flow

\* A step that moves no byte, cuts connections at most, and leaves the calls
\* inside frames of the others as they are.
LEMMA IntactQuiet ==
  ASSUME Typed, Intact, LengthGrown, UNCHANGED <<peer, gone, reader, pipe>>,
         \A c \in 1 .. Len(pipe) :
           /\ log'[c] = log[c] \/ log'[c] = Cut
           /\ log'[c] = log[c] => WritersKept(c) \/ log[c].cut
  PROVE  Intact'
<1>1. Cut.cut = TRUE
  BY DEF Cut
<1>2. ASSUME NEW c \in 1 .. Len(pipe) PROVE Whole(c)'
  BY WholeKept DEF Intact
<1>3. ASSUME NEW c \in 1 .. Len(pipe), ~log'[c].cut, c \notin gone PROVE Flow(c)'
  <2>1. log'[c] = log[c] /\ ~log[c].cut
    BY <1>1, <1>3
  <2>2. Flow(c) /\ WritersKept(c)
    BY <1>3, <2>1 DEF Intact
  <2>3. Held(c)' /\ ReadTo(c)' = ReadTo(c)
    BY <2>1, <2>2, HeldKept DEF Flow
  <2>4. QED
    BY <2>1, <2>2, <2>3, FlowKept
<1>4. QED
  BY <1>2, <1>3 DEF Intact

\* The steps of SendWithTimeout that write nothing.
LEMMA IntactSend ==
  ASSUME Typed, Intact, NEW p \in Publishers,
         \/ SendReady(p) \/ SendGivesUp(p) \/ SendInterrupted(p) \/ SendBroken(p)
         \/ SendKilled(p) \/ \E n \in Lengths : SendBegin(p, n)
  PROVE  Intact'
<1> USE DEF ends, sending
<1>0. LogTyped /\ PubTyped /\ length \in Seq(Nat) /\ pub \in [Publishers -> {Idle} \cup Calls]
  BY DEF Typed, LogTyped, PubTyped
<1>1. UNCHANGED <<peer, gone, reader, pipe>>
  BY DEF SendReady, SendGivesUp, SendInterrupted, SendBroken, SendKilled, SendBegin
<1>2. ASSUME UNCHANGED length PROVE LengthGrown
  BY <1>0, <1>2 DEF LengthGrown
<1>3. ASSUME NEW x, pub' = [pub EXCEPT ![p] = x]
      PROVE  pub'[p] = x /\ \A q \in Publishers \ {p} : pub'[q] = pub[q]
  BY <1>0, <1>3
<1>4. ASSUME NEW c, \A q \in Publishers \ {p} : pub'[q] = pub[q], ~Writes(p, c), ~Writes(p, c)'
      PROVE  WritersKept(c)
  BY <1>4 DEF WritersKept, Writes
<1>5. ASSUME NEW n \in Lengths, SendBegin(p, n) PROVE Intact'
  <2>1. /\ length' = Append(length, n) /\ UNCHANGED log /\ pub[p] = Idle
        /\ pub' = [pub EXCEPT ![p] =
               [pc |-> "wait", send |-> Len(length) + 1, total |-> 0, conn |-> 0]]
    BY <1>5 DEF SendBegin
  <2>2. LengthGrown
    <3>1. n \in Nat
      BY TcpAssumption
    <3>2. /\ Append(length, n) \in Seq(Nat) /\ Len(Append(length, n)) = Len(length) + 1
          /\ \A s \in 1 .. Len(length) : Append(length, n)[s] = length[s]
      BY <1>0, <3>1, AppendProperties
    <3>3. Len(length) \in Nat
      BY <1>0
    <3>4. QED
      BY <2>1, <3>2, <3>3 DEF LengthGrown
  <2>3. pub'[p].total = 0 /\ \A q \in Publishers \ {p} : pub'[q] = pub[q]
    BY <1>3, <2>1
  <2>4. \A c : ~Writes(p, c) /\ ~Writes(p, c)'
    BY <2>1, <2>3 DEF Writes
  <2>5. QED
    BY <1>1, <1>4, <2>1, <2>2, <2>3, <2>4, IntactQuiet
<1>6. ASSUME SendReady(p) PROVE Intact'
  <2>1. pub[p] # Idle /\ UNCHANGED length
    BY <1>6, IdleFacts DEF SendReady
  <2>2. PICK t, s : t = pub[p].total /\ s = pub[p].send
    OBVIOUS
  <2>3. PICK x : x = [pc |-> "send", send |-> s, total |-> t, conn |-> sock]
    OBVIOUS
  <2>4. x.send = s /\ x.total = t /\ x.conn = sock
    BY <2>3
  <2>5. pub'[p] = x /\ \A q \in Publishers \ {p} : pub'[q] = pub[q]
    BY <1>3, <1>6, <2>2, <2>3 DEF SendReady
  <2>6. x # Idle
    <3>1. x.pc = "send"
      BY <2>3
    <3>2. QED
      BY <3>1, IdleFacts
  <2>7. PICK S : CutOff(S) /\ S = IF t > 0 /\ pub[p].conn # sock THEN {pub[p].conn, sock} ELSE {}
    BY <1>6, <2>2 DEF SendReady
  <2>8. ASSUME NEW c \in 1 .. Len(pipe), c \notin S PROVE WritersKept(c)
    <3>1. Writes(p, c)' <=> Writes(p, c)
      BY <2>1, <2>2, <2>4, <2>5, <2>6, <2>7, <2>8 DEF Writes
    <3>2. pub'[p].total = pub[p].total /\ pub'[p].send = pub[p].send
      BY <2>2, <2>4, <2>5
    <3>3. ASSUME NEW q \in Publishers
          PROVE  /\ Writes(q, c)' <=> Writes(q, c)
                 /\ Writes(q, c) => pub'[q].total = pub[q].total /\ pub'[q].send = pub[q].send
      <4>1. CASE q = p
        BY <3>1, <3>2, <4>1
      <4>2. CASE q # p
        BY <2>5, <4>2 DEF Writes
      <4>3. QED
        BY <4>1, <4>2
    <3>4. QED
      BY <3>3 DEF WritersKept
  <2>9. \A c \in 1 .. Len(pipe) : IF c \in S THEN log'[c] = Cut ELSE log'[c] = log[c]
    BY <1>0, <1>1, <2>1, <2>7, CutTyped
  <2>10. ASSUME NEW c \in 1 .. Len(pipe)
         PROVE  /\ log'[c] = log[c] \/ log'[c] = Cut
                /\ log'[c] = log[c] => WritersKept(c) \/ log[c].cut
    <3>1. CASE c \in S
      <4>1. log'[c] = Cut /\ Cut.cut
        BY <2>9, <3>1 DEF Cut
      <4>2. QED
        BY <4>1
    <3>2. CASE c \notin S
      BY <2>8, <2>9, <3>2
    <3>3. QED
      BY <3>1, <3>2
  <2>11. QED
    BY <1>1, <1>2, <2>1, <2>10, IntactQuiet
<1>7. ASSUME SendGivesUp(p) \/ SendBroken(p) PROVE Intact'
  <2>1. UNCHANGED length /\ SendFails(p) /\ pub[p] # Idle
    BY <1>7, IdleFacts DEF SendGivesUp, SendBroken
  <2>2. pub'[p] = Idle /\ \A q \in Publishers \ {p} : pub'[q] = pub[q]
    BY <1>3, <2>1 DEF SendFails
  <2>3. PICK S : CutOff(S) /\ S = IF pub[p].total > 0 THEN {pub[p].conn} ELSE {}
    BY <2>1 DEF SendFails
  <2>4. ASSUME NEW c \in 1 .. Len(pipe), c \notin S PROVE WritersKept(c)
    <3>1. ~Writes(p, c) /\ ~Writes(p, c)'
      BY <2>2, <2>3, <2>4 DEF Writes
    <3>2. QED
      BY <1>4, <2>2, <3>1
  <2>5. \A c \in 1 .. Len(pipe) : IF c \in S THEN log'[c] = Cut ELSE log'[c] = log[c]
    BY <1>0, <1>1, <2>1, <2>3, CutTyped
  <2>6. ASSUME NEW c \in 1 .. Len(pipe)
         PROVE  /\ log'[c] = log[c] \/ log'[c] = Cut
                /\ log'[c] = log[c] => WritersKept(c) \/ log[c].cut
    <3>1. CASE c \in S
      <4>1. log'[c] = Cut /\ Cut.cut
        BY <2>5, <3>1 DEF Cut
      <4>2. QED
        BY <4>1
    <3>2. CASE c \notin S
      BY <2>4, <2>5, <3>2
    <3>3. QED
      BY <3>1, <3>2
  <2>7. QED
    BY <1>1, <1>2, <2>1, <2>6, IntactQuiet
<1>8. ASSUME SendInterrupted(p) PROVE Intact'
  <2>1. /\ pub[p] # Idle /\ UNCHANGED <<length, log>>
        /\ pub' = [pub EXCEPT ![p].pc = "wait"]
    BY <1>8, IdleFacts DEF SendInterrupted
  <2>2. PICK x : x = [pc |-> "wait", send |-> pub[p].send, total |-> pub[p].total, conn |-> pub[p].conn]
    OBVIOUS
  <2>3. x.send = pub[p].send /\ x.total = pub[p].total /\ x.conn = pub[p].conn /\ x # Idle
    <3>1. x.pc = "wait"
      BY <2>2
    <3>2. QED
      BY <2>2, <3>1, IdleFacts
  <2>4. pub' = [pub EXCEPT ![p] = x]
    BY <1>0, <2>1, <2>2, CallStep
  <2>5. pub'[p] = x /\ \A q \in Publishers \ {p} : pub'[q] = pub[q]
    BY <1>3, <2>4
  <2>6. ASSUME NEW c, NEW q \in Publishers
        PROVE  /\ Writes(q, c)' <=> Writes(q, c)
               /\ Writes(q, c) => pub'[q].total = pub[q].total /\ pub'[q].send = pub[q].send
    <3>1. CASE q = p
      BY <2>1, <2>3, <2>5, <3>1 DEF Writes
    <3>2. CASE q # p
      BY <2>5, <3>2 DEF Writes
    <3>3. QED
      BY <3>1, <3>2
  <2>7. \A c : WritersKept(c)
    BY <2>6 DEF WritersKept
  <2>8. QED
    BY <1>1, <1>2, <2>1, <2>7, IntactQuiet
<1>9. ASSUME SendKilled(p) PROVE Intact'
  <2>1. UNCHANGED <<pub, length, log>>
    BY <1>9 DEF SendKilled
  <2>2. \A c : WritersKept(c)
    BY <2>1 DEF WritersKept, Writes
  <2>3. QED
    BY <1>1, <1>2, <2>1, <2>2, IntactQuiet
<1>10. QED
  BY <1>5, <1>6, <1>7, <1>8, <1>9

\* The owners of the two ends, and a receive that begins, gives up or is killed.
LEMMA IntactOwner ==
  ASSUME Typed, Intact,
         \/ ConnectBegin \/ ConnectEnd \/ Close \/ PeerConnect \/ RecvBegin
         \/ RecvTimeout \/ RecvClosed \/ RecvInterrupted \/ (~ReceiverEnded /\ RecvKilled)
  PROVE  Intact'
<1> USE DEF ends, sending
<1>0. EndsTyped /\ LogTyped /\ PubTyped /\ ReaderTyped /\ length \in Seq(Nat)
  BY DEF Typed, LogTyped
<1>1. UNCHANGED <<pub, length>>
  BY DEF ConnectBegin, ConnectEnd, Close, PeerConnect, RecvBegin,
         RecvTimeout, RecvClosed, RecvInterrupted, RecvKilled, RecvFails
<1>2. LengthGrown
  BY <1>0, <1>1 DEF LengthGrown
<1>3. \A c : WritersKept(c)
  BY <1>1 DEF WritersKept, Writes
<1>4. PICK n \in Nat : n = Len(pipe) /\ n = Len(log) /\ DOMAIN pipe = 1 .. n
  BY <1>0 DEF EndsTyped, LogTyped
<1>5. CASE ConnectBegin \/ Close
  <2>1. UNCHANGED <<peer, gone, reader, pipe, log>>
    BY <1>5 DEF ConnectBegin, Close
  <2>2. QED
    BY <1>2, <1>3, <2>1, IntactQuiet
<1>6. CASE ConnectEnd
  <2>1. UNCHANGED <<peer, gone, reader>>
    BY <1>6 DEF ConnectEnd
  <2>2. CASE UNCHANGED <<pipe, log>>
    BY <1>2, <1>3, <2>1, <2>2, IntactQuiet
  <2>3. CASE pipe' = Append(pipe, <<>>) /\ log' = Append(log, Fresh)
    <3>1. Len(pipe') = n + 1 /\ pipe'[n + 1] = <<>> /\ \A c \in 1 .. n : pipe'[c] = pipe[c]
      BY <1>0, <1>4, <2>3 DEF EndsTyped
    <3>2. log'[n + 1] = Fresh /\ \A c \in 1 .. n : log'[c] = log[c]
      BY <1>0, <1>4, <2>3 DEF LogTyped
    <3>3. Len(Fresh.sent) = 0 /\ Len(Fresh.received) = 0 /\ Fresh.sent = <<>>
      BY EmptySeq DEF Fresh
    <3>4. ASSUME NEW c \in 1 .. n PROVE Whole(c)' /\ (~log'[c].cut /\ c \notin gone' => Flow(c)')
      <4>1. Whole(c)'
        BY <1>2, <1>4, <3>2, WholeKept DEF Intact
      <4>2. ASSUME ~log'[c].cut, c \notin gone' PROVE Flow(c)'
        <5>1. Flow(c) /\ log'[c] = log[c] /\ pipe'[c] = pipe[c]
          BY <1>4, <2>1, <3>1, <3>2, <4>2 DEF Intact
        <5>2. Held(c)' /\ ReadTo(c)' = ReadTo(c)
          BY <1>2, <1>4, <2>1, <5>1, HeldKept DEF Flow
        <5>3. QED
          BY <1>2, <1>3, <1>4, <5>1, <5>2, FlowKept
      <4>3. QED
        BY <4>1, <4>2
    <3>5. Whole(n + 1)'
      BY <3>2, <3>3 DEF Whole
    <3>6. Flow(n + 1)'
      <4>1. peer \in 0 .. n /\ n + 1 # peer
        BY <1>0, <1>4 DEF EndsTyped
      <4>2. ReadTo(n + 1)' = 1
        BY <2>1, <4>1 DEF ReadTo
      <4>3. Held(n + 1)'
        BY <2>1, <4>1 DEF Held
      <4>4. ASSUME NEW p \in Publishers PROVE ~Writes(p, n + 1)'
        BY <1>0, <1>1, <1>4 DEF PubTyped, Writes
      <4>5. Writer(n + 1)'
        BY <4>4 DEF Writer
      <4>6. <<0 + 1, 1>> \in Nat \X Nat
        OBVIOUS
      <4>7. Run(<<>>, <<>>, length', <<0 + 1, 1>>, <<0 + 1, 1>>)
        BY <4>6, RunEmpty
      <4>8. Stream(n + 1)'
        BY <3>1, <3>2, <3>3, <4>2, <4>4, <4>6, <4>7 DEF Stream
      <4>9. QED
        BY <4>3, <4>5, <4>8 DEF Flow
    <3>7. QED
      <4>1. \A c \in 1 .. n + 1 : c \in 1 .. n \/ c = n + 1
        BY <1>4
      <4>2. QED
        BY <3>1, <3>4, <3>5, <3>6, <4>1 DEF Intact
  <2>4. QED
    BY <1>6, <2>2, <2>3 DEF ConnectEnd
<1>7. CASE PeerConnect
  <2>1. /\ UNCHANGED <<reader, log>> /\ reader = Idle /\ peer' = n
        /\ gone' = gone \cup 1 .. n - 1
        /\ pipe' = [c \in 1 .. n |-> IF c = n THEN pipe[c] ELSE <<>>]
    BY <1>4, <1>7 DEF PeerConnect
  <2>2. Len(pipe') = n
    BY <2>1
  <2>3. ASSUME NEW c \in 1 .. n PROVE Whole(c)'
    BY <1>2, <1>4, <2>1, WholeKept DEF Intact
  <2>4. ASSUME NEW c \in 1 .. n, ~log'[c].cut, c \notin gone' PROVE Flow(c)'
    <3>1. c = n /\ c \notin gone
      BY <1>4, <2>1, <2>4
    <3>2. Flow(c) /\ pipe'[c] = pipe[c]
      BY <1>4, <2>1, <2>4, <3>1 DEF Intact
    <3>3. ReadTo(c)' = ReadTo(c) /\ Held(c)'
      BY <2>1 DEF ReadTo, Held
    <3>4. QED
      BY <1>2, <1>3, <1>4, <2>1, <3>2, <3>3, FlowKept
  <2>5. QED
    BY <2>2, <2>3, <2>4 DEF Intact
<1>8. ASSUME UNCHANGED <<peer, gone, pipe>>, NEW S,
             \A c \in 1 .. n : IF c \in S THEN log'[c] = Cut ELSE log'[c] = log[c],
             \A c \in 1 .. n : c \notin S => ReadTo(c)' = ReadTo(c) /\ Held(c)'
      PROVE  Intact'
  <2>1. Cut.cut = TRUE
    BY DEF Cut
  <2>2. ASSUME NEW c \in 1 .. n PROVE Whole(c)'
    BY <1>2, <1>4, <1>8, WholeKept DEF Intact
  <2>3. ASSUME NEW c \in 1 .. n, ~log'[c].cut, c \notin gone PROVE Flow(c)'
    <3>1. c \notin S
      BY <1>8, <2>1, <2>3
    <3>2. log'[c] = log[c] /\ ReadTo(c)' = ReadTo(c) /\ Held(c)'
      BY <1>8, <3>1
    <3>3. Flow(c)
      BY <1>4, <2>3, <3>2 DEF Intact
    <3>4. QED
      BY <1>2, <1>3, <1>4, <1>8, <3>2, <3>3, FlowKept
  <2>4. QED
    BY <1>4, <1>8, <2>2, <2>3 DEF Intact
<1>9. CASE RecvBegin
  <2>1. /\ UNCHANGED <<peer, gone, pipe, log>> /\ reader = Idle
        /\ reader' = [pc |-> "header", need |-> Header, got |-> <<>>]
    BY <1>9 DEF RecvBegin
  <2>2. reader'.pc = "header" /\ reader'.got = <<>> /\ Len(reader'.got) = 0
    BY <2>1, EmptySeq
  <2>3. \A c \in 1 .. n : ReadTo(c)' = ReadTo(c) /\ Held(c)'
    BY <2>1, <2>2 DEF ReadTo, Held, Skipped
  <2>4. PICK S : S = {}
    OBVIOUS
  <2>5. \A c \in 1 .. n : IF c \in S THEN log'[c] = Cut ELSE log'[c] = log[c]
    BY <2>1, <2>4
  <2>6. QED
    BY <1>8, <2>1, <2>3, <2>5, SMTT(30)
<1>10. CASE RecvTimeout \/ RecvClosed \/ RecvInterrupted
  <2>1. UNCHANGED <<peer, gone, pipe>> /\ reader' = Idle /\ reader # Idle
    BY <1>10 DEF RecvTimeout, RecvClosed, RecvInterrupted, RecvFails
  <2>2. PICK S : CutOff(S) /\ S = IF reader.pc = "body" \/ reader.got # <<>> THEN {peer} ELSE {}
    BY <1>10 DEF RecvTimeout, RecvClosed, RecvInterrupted, RecvFails
  <2>3. \A c \in 1 .. n : IF c \in S THEN log'[c] = Cut ELSE log'[c] = log[c]
    BY <1>0, <1>1, <1>4, <2>1, <2>2, CutTyped
  <2>4. reader.pc \in {"header", "body"} /\ Len(<<>>) = 0
    BY <1>0, <2>1, EmptySeq DEF ReaderTyped
  <2>5. ASSUME NEW c \in 1 .. n, c \notin S PROVE ReadTo(c)' = ReadTo(c) /\ Held(c)'
    <3>1. c # peer \/ (reader.pc = "header" /\ Len(reader.got) = 0)
      BY <2>2, <2>4, <2>5
    <3>2. ReadTo(c) = 1
      BY <2>1, <3>1 DEF ReadTo, Skipped
    <3>3. QED
      BY <2>1, <3>2 DEF ReadTo, Held
  <2>6. QED
    BY <1>8, <2>1, <2>3, <2>5
<1>11. CASE ~ReceiverEnded /\ RecvKilled
  <2>1. /\ UNCHANGED <<peer, reader, log>> /\ gone' = gone \cup {peer}
        /\ pipe' = [pipe EXCEPT ![peer] = <<>>]
    BY <1>11 DEF RecvKilled
  <2>2. Len(pipe') = n /\ \A c \in 1 .. n : c # peer => pipe'[c] = pipe[c]
    BY <1>0, <1>4, <2>1 DEF EndsTyped
  <2>3. ASSUME NEW c \in 1 .. n PROVE Whole(c)'
    BY <1>2, <1>4, <2>1, WholeKept DEF Intact
  <2>4. ASSUME NEW c \in 1 .. n, ~log'[c].cut, c \notin gone' PROVE Flow(c)'
    <3>1. c # peer /\ c \notin gone
      BY <2>1, <2>4
    <3>2. Flow(c) /\ log'[c] = log[c] /\ pipe'[c] = pipe[c]
      BY <1>4, <2>1, <2>2, <2>4, <3>1 DEF Intact
    <3>3. ReadTo(c)' = ReadTo(c) /\ Held(c)'
      BY <2>1, <3>1 DEF ReadTo, Held
    <3>4. QED
      BY <1>2, <1>3, <1>4, <3>2, <3>3, FlowKept
  <2>5. QED
    BY <2>2, <2>3, <2>4 DEF Intact
<1>12. QED
  BY <1>5, <1>6, <1>7, <1>9, <1>10, <1>11

\* The frame that p writes to is the last one of the connection, the bytes on
\* their way end where it goes on, and nobody else is inside a frame.
PutPosition(p, c, s, t) ==
  /\ Len(log'[c].sent) \in Nat \ {0} /\ log'[c].sent[Len(log'[c].sent)] = s
  /\ Len(log[c].sent) \in Nat /\ Len(log[c].sent) <= Len(log'[c].sent)
  /\ \A i \in 1 .. Len(log[c].sent) : log'[c].sent[i] = log[c].sent[i]
  /\ log'[c].received = log[c].received
  /\ \A q \in Publishers \ {p} : ~Writes(q, c)
  /\ Run(pipe[c], log'[c].sent, length, <<Len(log[c].received) + 1, ReadTo(c)>>,
         <<Len(log'[c].sent), t + 1>>)

\* Where a call stands when send() takes its bytes.
LEMMA PutHere ==
  ASSUME Typed, NEW p \in Publishers, pub[p] # Idle, PutLog(p), NEW c \in 1 .. Len(pipe),
         c = pub[p].conn, NEW s \in 1 .. Len(length), s = pub[p].send,
         NEW t \in Nat, t = pub[p].total, Flow(c), ~log[c].cut, ~log'[c].cut,
         UNCHANGED length, Len(pipe') = Len(pipe)
  PROVE  PutPosition(p, c, s, t)
<1>1. log[c] \in Logs /\ LogTyped
  BY ElementOfSeq DEF Typed, LogTyped
<1>2. PICK sent \in Seq(Nat), n \in Nat : sent = log[c].sent /\ n = Len(sent)
  <2>1. log[c].sent \in Seq(Nat)
    BY <1>1 DEF Logs
  <2>2. Len(log[c].sent) \in Nat
    BY <2>1, SMTT(30)
  <2>3. QED
    BY <2>1, <2>2
<1>3. PICK x : x = <<Len(log[c].received) + 1, ReadTo(c)>>
  OBVIOUS
<1>4. PICK y \in Nat \X Nat :
        /\ Run(pipe[c], sent, length, x, y)
        /\ \A q \in Publishers : Writes(q, c) => y = <<n, pub[q].total + 1>>
        /\ (\A q \in Publishers : ~Writes(q, c)) => y = <<n + 1, 1>>
  BY <1>2, <1>3, ZenonT(30) DEF Flow, Stream
<1>5. CASE t > 0 /\ UNCHANGED log
  <2>1. Writes(p, c)
    BY <1>5 DEF Writes
  <2>2. \A q \in Publishers \ {p} : ~Writes(q, c)
    BY <2>1 DEF Flow, Writer
  <2>3. n # 0 /\ s = sent[n]
    BY <1>2, <2>1, SMTT(30) DEF Flow, Writer
  <2>4. y = <<n, t + 1>>
    BY <1>4, <2>1, SMTT(30)
  <2>5. QED
    BY <1>2, <1>3, <1>4, <1>5, <2>2, <2>3, <2>4 DEF PutPosition
<1>6. CASE /\ t = 0 /\ log' = [log EXCEPT ![c].sent = Append(@, s)]
           /\ \A q \in Publishers \ {p} : pub[q] = Idle \/ pub[q].total = 0 \/ pub[q].conn # c
  <2>1. log'[c].sent = Append(sent, s) /\ log'[c].received = log[c].received
    BY <1>1, <1>2, <1>6, SentTyped, ZenonT(60)
  <2>2. \A q \in Publishers \ {p} : ~Writes(q, c)
    BY <1>6 DEF Writes
  <2>3. ~Writes(p, c)
    BY <1>6 DEF Writes
  <2>4. y = <<n + 1, 1>>
    BY <1>4, <2>2, <2>3
  <2>5. PICK sent2 : /\ sent2 = Append(sent, s) /\ Len(sent2) = n + 1 /\ sent2[n + 1] = s
                     /\ \A i \in 1 .. n : sent2[i] = sent[i]
    <3>1. s \in Nat
      BY <1>1, SMTT(30) DEF LogTyped
    <3>2. /\ Len(Append(sent, s)) = Len(sent) + 1 /\ Append(sent, s)[Len(sent) + 1] = s
          /\ \A i \in 1 .. Len(sent) : Append(sent, s)[i] = sent[i]
      BY <3>1, AppendProperties
    <3>3. QED
      BY <1>2, <3>2, ZenonT(60)
  <2>6. Run(pipe[c], sent2, length, x, y)
    <3>1. Len(sent) \in Nat /\ Len(sent2) \in Nat /\ Len(sent) <= Len(sent2)
      <4>1. n + 1 \in Nat /\ n <= n + 1
        BY SMTT(30)
      <4>2. QED
        BY <1>2, <2>5, <4>1, Zenon
    <3>2. \A i \in 1 .. Len(sent) : sent2[i] = sent[i] /\ length[sent[i]] = length[sent[i]]
      BY <1>2, <2>5, SMTT(30)
    <3>3. QED
      BY <1>4, <3>1, <3>2, RunGrown
  <2>7. n + 1 \in Nat \ {0} /\ n <= n + 1 /\ y = <<n + 1, t + 1>>
    BY <1>6, <2>4
  <2>8. QED
    BY <1>2, <1>3, <2>1, <2>2, <2>5, <2>6, <2>7, ZenonT(60) DEF PutPosition
<1>7. CASE CutOff({c})
  <2>1. log'[c] = Cut /\ Cut.cut
    BY <1>1, <1>7, CutTyped DEF Cut
  <2>2. QED
    BY <2>1
<1>8. QED
  BY <1>5, <1>6, <1>7 DEF PutLog

\* A byte is written.
LEMMA IntactPut ==
  ASSUME Typed, Intact, NEW p \in Publishers, ~SenderEnded, SendPut(p)
  PROVE  Intact'
<1>1. /\ CallOk(pub[p]) /\ pub[p] # Idle /\ pub[p].conn \in 1 .. Len(pipe)
      /\ pub[p].conn \notin gone /\ UNCHANGED <<peer, gone, reader, length>>
      /\ pipe' = [pipe EXCEPT ![pub[p].conn] =
                    Append(pipe[pub[p].conn], <<pub[p].send, pub[p].total + 1>>)]
      /\ PutLog(p) /\ PutCall(p) /\ UNCHANGED ends
  BY PutParts DEF ends
<1>2. PICK c \in 1 .. Len(pipe) : c = pub[p].conn
  BY <1>1
<1>3. PICK s \in 1 .. Len(length) : s = pub[p].send
  BY <1>1 DEF CallOk
<1>4. PICK t \in Nat : t = pub[p].total
  BY <1>1 DEF CallOk, Calls
<1>5. EndsTyped /\ LogTyped /\ PubTyped /\ length \in Seq(Nat)
  BY Zenon DEF Typed, LogTyped
<1>6. pipe[c] \in Seq(Bytes) /\ <<s, t + 1>> \in Bytes
  BY <1>5, ElementOfSeq, SMTT(60) DEF Bytes, EndsTyped
<1>7. /\ Len(pipe') = Len(pipe) /\ pipe'[c] = Append(pipe[c], <<s, t + 1>>)
      /\ \A d \in 1 .. Len(pipe) : d # c => pipe'[d] = pipe[d]
  <2>1. Append(pipe[c], <<s, t + 1>>) \in Seq(Bytes)
    BY <1>6, AppendProperties
  <2>2. pipe' = [pipe EXCEPT ![c] = Append(pipe[c], <<s, t + 1>>)]
    BY <1>1, <1>2, <1>3, <1>4
  <2>3. QED
    BY <1>1, <1>5, <2>1, <2>2, PipeUpdate, Zenon
<1>8. LengthGrown
  BY <1>1, <1>5 DEF LengthGrown
<1>9. pub \in [Publishers -> {Idle} \cup Calls] /\ Idle # pub[p]
  BY <1>1, <1>5 DEF PubTyped
<1>10. /\ \A q \in Publishers \ {p} : pub'[q] = pub[q]
       /\ \/ t + 1 = Header + length[s] /\ pub'[p] = Idle
          \/ /\ t + 1 < Header + length[s] /\ pub'[p] # Idle
             /\ pub'[p].send = s /\ pub'[p].total = t + 1 /\ pub'[p].conn = c
  <2>1. CASE t + 1 = Header + length[s] /\ pub' = [pub EXCEPT ![p] = Idle]
    BY <1>9, <2>1
  <2>2. CASE t + 1 < Header + length[s] /\ \E pc \in {"wait", "send"} :
               pub' = [pub EXCEPT ![p] = [pc |-> pc, send |-> s, total |-> t + 1, conn |-> c]]
    <3>1. PICK pc \in {"wait", "send"} :
               pub' = [pub EXCEPT ![p] = [pc |-> pc, send |-> s, total |-> t + 1, conn |-> c]]
      BY <2>2
    <3>2. PICK z : z = [pc |-> pc, send |-> s, total |-> t + 1, conn |-> c]
      OBVIOUS
    <3>3. z.pc = pc /\ z.send = s /\ z.total = t + 1 /\ z.conn = c
      BY <3>2
    <3>4. z # Idle
      BY <3>3, IdleFacts
    <3>5. pub'[p] = z /\ \A q \in Publishers \ {p} : pub'[q] = pub[q]
      BY <1>9, <3>1, <3>2
    <3>6. QED
      BY <2>2, <3>3, <3>4, <3>5
  <2>3. QED
    BY <1>1, <1>2, <1>3, <1>4, <2>1, <2>2 DEF PutCall
<1>11. \A d \in 1 .. Len(pipe) : d # c => log'[d] = log[d]
  <2>1. CASE UNCHANGED log
    BY <2>1, SMTT(30)
  <2>2. CASE ~log[c].cut /\ log' = [log EXCEPT ![c].sent = Append(@, s)]
    BY <1>1, <1>5, <1>7, <2>2, SentTyped, ZenonT(30)
  <2>3. CASE CutOff({c})
    BY <1>1, <1>5, <1>7, <2>3, CutTyped
  <2>4. QED
    BY <1>1, <1>2, <1>3, <2>1, <2>2, <2>3, Zenon DEF PutLog
<1>12. ASSUME NEW d \in 1 .. Len(pipe), d # c
       PROVE  Whole(d)' /\ (~log'[d].cut /\ d \notin gone' => Flow(d)')
  <2>1. Whole(d)'
    BY <1>8, <1>11, <1>12, WholeKept DEF Intact
  <2>2. ASSUME ~log'[d].cut, d \notin gone' PROVE Flow(d)'
    <3>1. Flow(d) /\ log'[d] = log[d] /\ pipe'[d] = pipe[d]
      BY <1>1, <1>7, <1>11, <1>12, <2>2 DEF Intact
    <3>2. Held(d)' /\ ReadTo(d)' = ReadTo(d)
      BY <1>1, <1>8, <3>1, HeldKept DEF Flow
    <3>3. ~Writes(p, d) /\ ~Writes(p, d)'
      BY <1>2, <1>10, <1>12 DEF Writes
    <3>4. WritersKept(d)
      BY <1>10, <3>3 DEF WritersKept, Writes
    <3>5. QED
      BY <1>8, <3>1, <3>2, <3>4, FlowKept, SMTT(30)
  <2>3. QED
    BY <2>1, <2>2
<1>13. CASE log'[c].cut
  <2>1. log'[c] = Cut \/ log'[c] = log[c]
    <3>1. Typed'
      BY TypedSend DEF SendStep
    <3>2. QED
      BY <1>7, <1>13, <3>1 DEF Typed, LogTyped
  <2>2. Whole(c)'
    BY <1>8, <2>1, WholeKept DEF Intact
  <2>3. QED
    BY <1>7, <1>12, <1>13, <2>2 DEF Intact
<1>14. CASE ~log'[c].cut
  <2>1. ~log[c].cut
    <3>1. log[c].cut => UNCHANGED log
      BY <1>1, <1>2 DEF PutLog
    <3>2. QED
      BY <1>14, <3>1
  <2>2. Flow(c) /\ Whole(c)
    BY <1>1, <1>2, <2>1, ZenonT(30) DEF Intact
  <2>3. PutPosition(p, c, s, t)
    BY <1>1, <1>2, <1>3, <1>4, <1>7, <1>14, <2>1, <2>2, PutHere
  <2>new. PICK sent : sent = log'[c].sent
    OBVIOUS
  <2>4. PICK n \in Nat \ {0} : sent = log'[c].sent /\ n = Len(sent) /\ sent[n] = s
    BY <2>new, <2>3 DEF PutPosition
  <2>5. PICK x : /\ x = <<Len(log'[c].received) + 1, ReadTo(c)'>>
                 /\ Run(pipe[c], sent, length, x, <<n, t + 1>>)
    <3>1. ReadTo(c)' = ReadTo(c)
      BY <1>1 DEF ReadTo, Skipped
    <3>2. QED
      BY <2>3, <2>4, <3>1 DEF PutPosition
  <2>6. PICK m \in Nat \ {0} : m = Header + length[s] /\ t + 1 <= m
    BY <1>5, <1>10, TcpAssumption, SMTT(30)
  <2>7. Run(pipe'[c], sent, length, x, After(sent, length, <<n, t + 1>>))
    <3>1. Within(sent, length, <<n, t + 1>>)
      BY <2>4, <2>6 DEF Within
    <3>2. PICK y \in Nat \X Nat : y = <<n, t + 1>> /\ y[1] = n /\ y[2] = t + 1
      <4>1. <<n, t + 1>> \in Nat \X Nat
        OBVIOUS
      <4>2. <<n, t + 1>>[1] = n /\ <<n, t + 1>>[2] = t + 1
        OBVIOUS
      <4>3. QED
        BY <4>1, <4>2
    <3>3. Run(pipe[c], sent, length, x, y) /\ Within(sent, length, y) /\ <<s, t + 1>> = <<sent[y[1]], y[2]>>
      BY <2>4, <2>5, <3>1, <3>2
    <3>4. Run(Append(pipe[c], <<s, t + 1>>), sent, length, x, After(sent, length, y))
      BY <1>6, <3>3, RunAppend
    <3>5. QED
      BY <1>7, <3>2, <3>4
  <2>8. After(sent, length, <<n, t + 1>>) = IF t + 1 < m THEN <<n, (t + 1) + 1>> ELSE <<n + 1, 1>>
    BY <2>4, <2>6 DEF After
  <2>9. \A q \in Publishers \ {p} : ~Writes(q, c)'
    BY <1>10, <2>3 DEF PutPosition, Writes
  <2>10. Writes(p, c)' <=> t + 1 < m
    BY <1>10, <2>6 DEF Writes
  <2>11. Stream(c)'
    <3>1. PICK y \in Nat \X Nat : /\ y = IF t + 1 < m THEN <<n, (t + 1) + 1>> ELSE <<n + 1, 1>>
                                  /\ Run(pipe'[c], sent, length, x, y)
      <4>1. (IF t + 1 < m THEN <<n, (t + 1) + 1>> ELSE <<n + 1, 1>>) \in Nat \X Nat
        OBVIOUS
      <4>2. QED
        BY <2>7, <2>8, <4>1
    <3>2. Run(pipe'[c], log'[c].sent, length', <<Len(log'[c].received) + 1, ReadTo(c)'>>, y)
      BY <1>1, <2>4, <2>5, <3>1
    <3>3. ASSUME NEW q \in Publishers, Writes(q, c)' PROVE y = <<Len(log'[c].sent), pub'[q].total + 1>>
      <4>1. q = p /\ t + 1 < m
        BY <2>9, <2>10, <3>3
      <4>2. pub'[p].total = t + 1
        BY <1>10, <2>6, <4>1
      <4>3. QED
        BY <2>4, <3>1, <4>1, <4>2
    <3>4. (\A q \in Publishers : ~Writes(q, c)') => y = <<Len(log'[c].sent) + 1, 1>>
      BY <2>4, <2>10, <3>1
    <3>5. QED
      BY <3>1, <3>2, <3>3, <3>4 DEF Stream
  <2>12. Writer(c)'
    <3>1. Writes(p, c)' => pub'[p].send = s
      BY <1>10, <2>6, <2>10
    <3>2. QED
      BY <2>4, <2>9, <3>1 DEF Writer
  <2>old. PICK old : old = log[c].sent
    OBVIOUS
  <2>13. PICK k \in Nat : /\ old = log[c].sent /\ k = Len(old) /\ k <= n
                          /\ \A i \in 1 .. k : sent[i] = old[i]
                          /\ log'[c].received = log[c].received
    BY <2>3, <2>4, <2>old DEF PutPosition
  <2>14. PICK r \in Nat : r = Len(log[c].received)
    <3>1. log[c] \in Logs
      BY <1>5, ElementOfSeq DEF LogTyped
    <3>2. log[c].received \in Seq(Seq(Bytes))
      BY <3>1 DEF Logs
    <3>3. QED
      BY <3>2
  <2>15. Held(c)'
    <3>1. r + 1 <= k => r + 1 <= n /\ sent[r + 1] = old[r + 1]
      BY <2>13
    <3>2. QED
      BY <1>1, <2>2, <2>4, <2>13, <2>14, <3>1, ZenonT(60) DEF Flow, Held, Skipped
  <2>16. Whole(c)'
    <3>0. Len(log[c].received) <= Len(log[c].sent)
      BY <2>2 DEF Whole
    <3>1. r <= k /\ r <= n
      <4>1. r <= k
        BY <2>13, <2>14, <3>0, Zenon
      <4>2. k <= n
        BY <2>13
      <4>3. QED
        BY <4>1, <4>2
    <3>2. ASSUME NEW i \in 1 .. r PROVE log'[c].received[i] = Body(log[c].sent[i])'
      <4>0. log[c].received[i] = Body(log[c].sent[i])
        BY <2>2, <2>14 DEF Whole
      <4>1. log[c].received[i] = Body(old[i]) /\ i \in 1 .. k
        <5>1. i \in 1 .. k
          BY <3>1
        <5>2. QED
          BY <2>13, <4>0, <5>1, Zenon
      <4>2. PICK e : e = old[i] /\ e = sent[i]
        BY <2>13, <4>1
      <4>3. Body(e)' = Body(e)
        BY <1>1 DEF Body, Frame
      <4>4. Body(log[c].sent[i])' = Body(e)'
        BY <2>4, <4>2 DEF Body, Frame
      <4>5. QED
        BY <2>13, <4>1, <4>2, <4>3, <4>4
    <3>3. QED
      BY <2>4, <2>13, <2>14, <3>1, <3>2 DEF Whole
  <2>17. QED
    BY <1>7, <1>12, <2>11, <2>12, <2>15, <2>16 DEF Intact, Flow
<1>15. QED
  BY <1>13, <1>14

\* The bytes of a frame: its length, and its message.
LEMMA FrameParts ==
  ASSUME NEW s \in Nat, length[s] \in Nat, NEW b \in Seq(Bytes)
  PROVE  /\ Len(b) = Header /\ (\A k \in 1 .. Header : b[k] = <<s, k>>) =>
              b = SubSeq(Frame(s), 1, Header)
         /\ Len(b) = length[s] /\ (\A k \in 1 .. length[s] : b[k] = <<s, Header + k>>) =>
              b = Body(s)
<1>1. PICK h \in Nat \ {0}, l \in Nat : h = Header /\ l = length[s]
  BY TcpAssumption
<1>2. PICK f : f = [k \in 1 .. h + l |-> <<s, k>>]
  OBVIOUS
<1>3. f = Frame(s)
  BY <1>1, <1>2 DEF Frame
<1>4. \A k \in 1 .. h + l : f[k] = <<s, k>> /\ f[k] \in Bytes
  BY <1>2 DEF Bytes
<1>5. ASSUME Len(b) = h, \A k \in 1 .. h : b[k] = <<s, k>>
      PROVE  b = SubSeq(f, 1, h)
  <2>1. \A k \in 1 .. h : f[k] \in Bytes /\ f[k] = <<s, k>>
    BY <1>4
  <2>2. PICK g : g = SubSeq(f, 1, h)
    OBVIOUS
  <2>3. /\ g \in Seq(Bytes) /\ Len(g) = IF 1 <= h THEN h - 1 + 1 ELSE 0
        /\ \A k \in 1 .. h - 1 + 1 : g[k] = f[1 + k - 1]
    BY <2>1, <2>2, SubSeqProperties
  <2>4. Len(g) = h /\ \A k \in 1 .. h : g[k] = f[k]
    BY <2>3
  <2>5. \A k \in 1 .. h : g[k] = b[k]
    BY <1>5, <2>1, <2>4
  <2>6. QED
    BY <1>5, <2>2, <2>3, <2>4, <2>5, SeqEqual
<1>6. ASSUME Len(b) = l, \A k \in 1 .. l : b[k] = <<s, h + k>>
      PROVE  b = SubSeq(f, h + 1, h + l)
  <2>1. \A k \in h + 1 .. h + l : f[k] \in Bytes
    BY <1>4
  <2>2. PICK g : g = SubSeq(f, h + 1, h + l)
    OBVIOUS
  <2>3. /\ g \in Seq(Bytes) /\ Len(g) = IF h + 1 <= h + l THEN (h + l) - (h + 1) + 1 ELSE 0
        /\ \A k \in 1 .. (h + l) - (h + 1) + 1 : g[k] = f[(h + 1) + k - 1]
    <3>1. h + 1 \in Int /\ h + l \in Int
      OBVIOUS
    <3>2. QED
      BY <2>1, <2>2, <3>1, SubSeqProperties
  <2>4. Len(g) = l
    BY <2>3
  <2>5. ASSUME NEW k \in 1 .. l PROVE g[k] = <<s, h + k>>
    <3>1. k \in 1 .. (h + l) - (h + 1) + 1 /\ (h + 1) + k - 1 = h + k /\ h + k \in 1 .. h + l
      OBVIOUS
    <3>2. g[k] = f[h + k]
      BY <2>3, <3>1
    <3>3. QED
      BY <1>4, <3>1, <3>2
  <2>6. \A k \in 1 .. l : g[k] = b[k]
    BY <1>6, <2>5
  <2>7. QED
    BY <1>6, <2>2, <2>3, <2>4, <2>6, SeqEqual
<1>7. Body(s) = SubSeq(f, h + 1, h + l)
  BY <1>1, <1>3 DEF Body
<1>8. QED
  BY <1>1, <1>3, <1>5, <1>6, <1>7

\* The length that the header of a whole frame gives.
LEMMA HeaderLength ==
  ASSUME NEW s \in Nat, length[s] \in Nat, NEW b \in Seq(Bytes), Len(b) = Header,
         \A k \in 1 .. Header : b[k] = <<s, k>>
  PROVE  LengthsIn(b) = {length[s]}
<1>1. b = SubSeq(Frame(s), 1, Header)
  BY FrameParts
<1>2. b[1][1] = s
  BY TcpAssumption
<1>3. QED
  BY <1>1, <1>2 DEF LengthsIn

\* A byte is read.
LEMMA IntactRecv ==
  ASSUME Typed, Intact, ~ReceiverEnded, RecvSome
  PROVE  Intact'
<1>1. /\ reader # Idle /\ peer \in 1 .. Len(pipe) /\ peer \notin gone
      /\ pipe[peer] \in Seq(Bytes) /\ pipe[peer] # <<>>
      /\ pipe' = [pipe EXCEPT ![peer] = Tail(pipe[peer])]
      /\ UNCHANGED <<ends, pub, length>>
  BY RecvParts
<1>2. PICK c \in 1 .. Len(pipe) : c = peer
  BY <1>1
<1>3. PICK bytes \in Seq(Bytes) : bytes = Append(reader.got, Head(pipe[c])) /\ Outcome(bytes)
  BY <1>2, RecvParts
<1>4. UNCHANGED <<peer, gone>>
  BY <1>1 DEF ends
<1>5. EndsTyped /\ LogTyped /\ ReaderTyped /\ length \in Seq(Nat)
  BY DEF Typed, LogTyped
<1>6. /\ Len(pipe') = Len(pipe) /\ pipe'[c] = Tail(pipe[c])
      /\ \A d \in 1 .. Len(pipe) : d # c => pipe'[d] = pipe[d]
  <2>1. Tail(pipe[c]) \in Seq(Bytes)
    BY <1>1, <1>2, HeadTailProperties
  <2>2. gone = 1 .. peer - 1
    BY <1>5, GoneBefore
  <2>3. QED
    BY <1>1, <1>2, <1>5, <2>1, <2>2, PipeUpdate
<1>7. LengthGrown /\ \A d : WritersKept(d)
  BY <1>1, <1>5 DEF LengthGrown, WritersKept, Writes
<1>8. <<>> \in Seq(Bytes) /\ Len(<<>>) = 0
  BY EmptySeq
<1>9. ASSUME NEW m \in Seq(Bytes), Deliver(m)
      PROVE  \/ log[c].cut /\ UNCHANGED log
             \/ /\ ~log[c].cut /\ ~log'[c].cut /\ log'[c].sent = log[c].sent
                /\ log'[c].received = Append(log[c].received, m)
                /\ \A d \in 1 .. Len(pipe) : d # c => log'[d] = log[d]
  <2>1. CASE log[c].cut
    BY <1>2, <1>9, <2>1 DEF Deliver
  <2>2. CASE ~log[c].cut
    <3>1. log' = [log EXCEPT ![c].received = Append(@, m)]
      BY <1>2, <1>9, <2>2 DEF Deliver
    <3>2. QED
      BY <1>1, <1>5, <1>6, <2>2, <3>1, ReceivedTyped
  <2>3. QED
    BY <2>1, <2>2
<1>10. /\ \A d \in 1 .. Len(pipe) : d # c => log'[d] = log[d]
       /\ log[c].cut => UNCHANGED log
  BY <1>3, <1>8, <1>9 DEF Outcome
<1>11. ASSUME NEW d \in 1 .. Len(pipe), d # c
       PROVE  Whole(d)' /\ (~log'[d].cut /\ d \notin gone' => Flow(d)')
  <2>1. Whole(d)'
    BY <1>7, <1>10, <1>11, WholeKept DEF Intact
  <2>2. ASSUME ~log'[d].cut, d \notin gone' PROVE Flow(d)'
    <3>1. Flow(d) /\ log'[d] = log[d] /\ pipe'[d] = pipe[d]
      BY <1>4, <1>6, <1>10, <1>11, <2>2 DEF Intact
    <3>2. Held(d)' /\ ReadTo(d)' = ReadTo(d)
      BY <1>2, <1>4, <1>11 DEF Held, ReadTo
    <3>3. QED
      BY <1>7, <3>1, <3>2, FlowKept
  <2>3. QED
    BY <2>1, <2>2
<1>12. CASE log[c].cut
  <2>1. log'[c] = log[c]
    BY <1>10, <1>12
  <2>2. Whole(c)'
    BY <1>7, <2>1, WholeKept DEF Intact
  <2>3. QED
    BY <1>6, <1>11, <1>12, <2>1, <2>2 DEF Intact
<1>13. CASE ~log[c].cut
  <2>1. Flow(c) /\ Whole(c)
    BY <1>1, <1>2, <1>13 DEF Intact
  <2>2. PICK sent \in Seq(Nat), rec \in Seq(Seq(Bytes)) : sent = log[c].sent /\ rec = log[c].received
    <3>1. log[c] \in Logs
      BY <1>5, ElementOfSeq DEF LogTyped
    <3>2. QED
      BY <3>1 DEF Logs
  <2>3. PICK n \in Nat, r \in Nat : n = Len(sent) /\ r = Len(rec)
    BY <2>2
  <2>4. PICK got \in Seq(Bytes), g \in Nat : got = reader.got /\ g = Len(got)
    <3>1. reader.got \in Seq(Bytes)
      BY <1>1, <1>5 DEF ReaderTyped
    <3>2. QED
      BY <3>1
  <2>5. PICK h \in Nat \ {0} : h = Header
    BY TcpAssumption
  <2>6. PICK k0 \in Nat : k0 = Skipped /\ k0 = IF reader.pc = "header" THEN 0 ELSE h
    BY <2>5 DEF Skipped
  <2>7. PICK x \in Nat \X Nat : x = <<r + 1, k0 + g + 1>>
    <3>1. r + 1 \in Nat /\ k0 + g + 1 \in Nat
      OBVIOUS
    <3>2. QED
      BY <3>1
  <2>8. ReadTo(c) = k0 + g + 1
    BY <1>1, <1>2, <2>4, <2>6 DEF ReadTo
  <2>9. PICK y \in Nat \X Nat :
          /\ Run(pipe[c], sent, length, x, y)
          /\ \A p \in Publishers : Writes(p, c) => y = <<n, pub[p].total + 1>>
          /\ (\A p \in Publishers : ~Writes(p, c)) => y = <<n + 1, 1>>
    BY <2>1, <2>2, <2>3, <2>7, <2>8 DEF Flow, Stream
  <2>10. /\ Within(sent, length, x) /\ Head(pipe[c]) = <<sent[x[1]], x[2]>>
         /\ Run(Tail(pipe[c]), sent, length, After(sent, length, x), y)
    BY <1>1, <1>2, <2>9, RunTail
  <2>11. r + 1 <= n
    BY <2>3, <2>7, <2>10 DEF Within
  <2>12. PICK s \in 1 .. Len(length) : s = sent[r + 1]
    <3>1. r + 1 \in 1 .. n
      BY <2>11
    <3>2. QED
      BY <1>5, <2>2, <2>3, <3>1 DEF LogTyped
  <2>13. PICK l \in Nat : l = length[s]
    BY <1>5, SMTT(30)
  <2>14. s \in Nat
    BY <1>5
  <2>15. Head(pipe[c]) = <<s, k0 + g + 1>>
    BY <2>7, <2>10, <2>12
  <2>16. Len(bytes) = g + 1 /\ bytes[g + 1] = <<s, k0 + g + 1>> /\ \A k \in 1 .. g : bytes[k] = got[k]
    <3>1. Head(pipe[c]) \in Bytes
      BY <1>1, <1>2, HeadTailProperties
    <3>2. PICK e \in Bytes : e = Head(pipe[c])
      BY <3>1
    <3>3. bytes = Append(got, e)
      BY <1>3, <2>4, <3>2
    <3>4. Len(bytes) = g + 1 /\ bytes[g + 1] = e /\ \A k \in 1 .. g : bytes[k] = got[k]
      BY <2>4, <3>3, AppendProperties, SMTT(30)
    <3>5. QED
      BY <2>15, <3>2, <3>4
  <2>17. reader.pc = "body" \/ g # 0 =>
           /\ \A k \in 1 .. g : got[k] = <<s, k0 + k>>
           /\ reader.pc = "body" => reader.need = l /\ g < l
    <3>1. g # 0 => got # <<>>
      BY <1>8, <2>4
    <3>2. QED
      BY <1>1, <1>2, <2>1, <2>2, <2>3, <2>4, <2>6, <2>12, <2>13, <3>1 DEF Flow, Held
  <2>18. ASSUME NEW k \in 1 .. g + 1 PROVE bytes[k] = <<s, k0 + k>>
    <3>1. CASE k = g + 1
      BY <2>16, <3>1
    <3>2. CASE k # g + 1
      <4>1. k \in 1 .. g /\ g # 0
        BY <3>2
      <4>2. QED
        BY <2>16, <2>17, <4>1
    <3>3. QED
      BY <3>1, <3>2
  <2>19. reader.pc \in {"header", "body"} /\ (reader.pc = "header" => reader.need = h /\ g < h)
    BY <1>1, <1>5, <2>4, <2>5 DEF ReaderTyped
  <2>20. After(sent, length, x) = IF k0 + g + 1 < h + l THEN <<r + 1, k0 + g + 2>> ELSE <<r + 2, 1>>
    BY <2>5, <2>7, <2>12, <2>13 DEF After
  \* What is left to show: where the reader is now.
  <2>21. ASSUME NEW z, Run(pipe'[c], sent, length, z, y), log'[c].sent = sent,
                z = <<Len(log'[c].received) + 1, ReadTo(c)'>>
         PROVE  Stream(c)' /\ Writer(c)'
    <3>1. \A p \in Publishers : Writes(p, c)' <=> Writes(p, c)
      BY <1>7 DEF WritersKept
    <3>2. Stream(c)'
      BY <1>1, <2>2, <2>3, <2>9, <2>21, <3>1 DEF Stream
    <3>3. Writer(c)'
      BY <1>1, <2>1, <2>2, <2>21, <3>1 DEF Flow, Writer
    <3>4. QED
      BY <3>2, <3>3
  <2>22. ASSUME NEW m \in Seq(Bytes), m = Body(s), Deliver(m), After(sent, length, x) = <<r + 2, 1>>
         PROVE  Intact'
    <3>1. /\ ~log'[c].cut /\ log'[c].sent = sent /\ log'[c].received = Append(rec, m)
          /\ reader' = Idle
      BY <1>9, <1>13, <2>2, <2>22 DEF Deliver
    <3>2. PICK rec2 : /\ rec2 = Append(rec, m) /\ Len(rec2) = r + 1 /\ rec2[r + 1] = m
                      /\ \A k \in 1 .. r : rec2[k] = rec[k]
      <4>1. /\ Len(Append(rec, m)) = Len(rec) + 1 /\ Append(rec, m)[Len(rec) + 1] = m
            /\ \A k \in 1 .. Len(rec) : Append(rec, m)[k] = rec[k]
        BY AppendProperties
      <4>2. QED
        BY <2>3, <4>1
    <3>3. ReadTo(c)' = 1 /\ Held(c)'
      BY <3>1 DEF ReadTo, Held
    <3>4. Stream(c)' /\ Writer(c)'
      <4>1. <<Len(log'[c].received) + 1, ReadTo(c)'>> = <<r + 2, 1>>
        BY <3>1, <3>2, <3>3, SMTT(30)
      <4>2. Run(pipe'[c], sent, length, <<r + 2, 1>>, y)
        BY <1>6, <2>10, <2>22
      <4>3. QED
        BY <2>21, <3>1, <4>1, <4>2
    <3>5. Whole(c)'
      <4>1. ASSUME NEW k \in 1 .. r + 1 PROVE rec2[k] = Body(sent[k])'
        <5>1. PICK e : e = sent[k]
          OBVIOUS
        <5>2. Body(e)' = Body(e) /\ Body(sent[k])' = Body(e)'
          BY <1>1, <5>1 DEF Body, Frame
        <5>3. rec2[k] = Body(e)
          <6>1. CASE k = r + 1
            BY <2>12, <2>22, <3>2, <5>1, <6>1
          <6>2. CASE k # r + 1
            <7>1. k \in 1 .. r
              BY <6>2
            <7>2. rec[k] = Body(sent[k])
              BY <2>1, <2>2, <2>3, <7>1 DEF Whole
            <7>3. QED
              BY <3>2, <5>1, <7>1, <7>2
          <6>3. QED
            BY <6>1, <6>2
        <5>4. QED
          BY <5>2, <5>3
      <4>2. Len(log'[c].received) = r + 1 /\ Len(log'[c].sent) = n
        BY <2>3, <3>1, <3>2
      <4>3. ASSUME NEW k \in 1 .. r + 1 PROVE log'[c].received[k] = Body(log[c].sent[k])'
        <5>1. Body(log[c].sent[k])' = Body(sent[k])'
          BY <3>1 DEF Body, Frame
        <5>2. QED
          BY <3>1, <3>2, <4>1, <5>1
      <4>4. QED
        BY <2>11, <4>2, <4>3 DEF Whole
    <3>6. QED
      BY <1>6, <1>11, <3>3, <3>4, <3>5 DEF Intact, Flow
  <2>23. CASE /\ Len(bytes) < reader.need /\ UNCHANGED log
              /\ reader' = [pc |-> reader.pc, need |-> reader.need, got |-> bytes]
    <3>1. reader'.pc = reader.pc /\ reader'.need = reader.need /\ reader'.got = bytes
      BY <2>23
    <3>2. reader' # Idle
      BY <2>19, <3>1, IdleFacts
    <3>3. Skipped' = k0 /\ ReadTo(c)' = k0 + g + 2
      <4>1. Skipped' = k0
        BY <2>5, <2>6, <3>1 DEF Skipped
      <4>2. ReadTo(c)' = k0 + (g + 1) + 1
        BY <1>2, <1>4, <2>16, <3>1, <3>2, <4>1 DEF ReadTo
      <4>3. QED
        BY <4>1, <4>2
    <3>4. k0 + g + 1 < h + l
      <4>1. CASE reader.pc = "header"
        BY <2>6, <2>16, <2>19, <2>23, <4>1, SMTT(30)
      <4>2. CASE reader.pc = "body"
        BY <2>6, <2>16, <2>17, <2>23, <4>2, SMTT(30)
      <4>3. QED
        BY <2>19, <4>1, <4>2
    <3>5. Stream(c)' /\ Writer(c)'
      BY <1>6, <2>2, <2>3, <2>10, <2>20, <2>21, <2>23, <3>3, <3>4
    <3>6. Held(c)'
      <4>1. \A k \in 1 .. Len(reader'.got) : reader'.got[k] = <<s, Skipped' + k>>
        BY <2>16, <2>18, <3>1, <3>3
      <4>2. reader'.pc = "body" => reader'.need = l /\ Len(reader'.got) < l
        BY <2>16, <2>17, <2>23, <3>1
      <4>3. QED
        BY <1>1, <2>2, <2>3, <2>11, <2>12, <2>13, <2>23, <4>1, <4>2 DEF Held
    <3>7. Whole(c)'
      BY <1>7, <2>1, <2>23, WholeKept
    <3>8. QED
      BY <1>6, <1>11, <3>5, <3>6, <3>7 DEF Intact, Flow
  <2>24. CASE ~(Len(bytes) < reader.need) /\ reader.pc = "header"
    <3>1. k0 = 0 /\ Len(bytes) = h /\ g + 1 = h
      BY <2>6, <2>16, <2>19, <2>24, SMTT(30)
    <3>2. LengthsIn(bytes) = {l}
      <4>1. \A k \in 1 .. Header : bytes[k] = <<s, k>>
        BY <2>5, <2>18, <3>1, SMTT(30)
      <4>2. QED
        BY <2>5, <2>13, <2>14, <3>1, <4>1, HeaderLength
    <3>3. CASE /\ UNCHANGED log
               /\ \E m \in LengthsIn(bytes) :
                    m # 0 /\ reader' = [pc |-> "body", need |-> m, got |-> <<>>]
      <4>1. l # 0 /\ reader' = [pc |-> "body", need |-> l, got |-> <<>>]
        BY <3>2, <3>3
      <4>2. reader'.pc = "body" /\ reader'.need = l /\ reader'.got = <<>>
        BY <4>1
      <4>3. reader' # Idle
        BY <4>2, IdleFacts
      <4>4. Skipped' = h /\ ReadTo(c)' = h + 1
        <5>1. Skipped' = h
          BY <2>5, <4>2 DEF Skipped
        <5>2. ReadTo(c)' = h + 0 + 1
          BY <1>2, <1>4, <1>8, <4>2, <4>3, <5>1 DEF ReadTo
        <5>3. QED
          BY <5>1, <5>2
      <4>5. After(sent, length, x) = <<r + 1, h + 1>>
        BY <2>20, <3>1, <4>1, SMTT(60)
      <4>6. Stream(c)' /\ Writer(c)'
        BY <1>6, <2>2, <2>3, <2>10, <2>21, <3>3, <4>4, <4>5
      <4>7. Held(c)'
        <5>1. \A k \in 1 .. Len(reader'.got) : reader'.got[k] = <<s, Skipped' + k>>
          BY <1>8, <4>2
        <5>2. reader'.need = l /\ Len(reader'.got) < l
          BY <1>8, <4>1, <4>2
        <5>3. QED
          BY <1>1, <2>2, <2>3, <2>11, <2>12, <2>13, <3>3, <5>1, <5>2 DEF Held
      <4>8. Whole(c)'
        BY <1>7, <2>1, <3>3, WholeKept
      <4>9. QED
        BY <1>6, <1>11, <4>6, <4>7, <4>8 DEF Intact, Flow
    <3>4. CASE 0 \in LengthsIn(bytes) /\ Deliver(<<>>)
      <4>1. l = 0
        BY <3>2, <3>4
      <4>2. <<>> = Body(s)
        <5>1. length[s] = 0 /\ length[s] \in Nat /\ 1 .. 0 = {}
          BY <2>13, <4>1
        <5>2. Len(<<>>) = length[s] /\ \A k \in 1 .. length[s] : <<>>[k] = <<s, Header + k>>
          BY <1>8, <5>1
        <5>3. QED
          BY <1>8, <2>14, <5>1, <5>2, FrameParts
      <4>3. After(sent, length, x) = <<r + 2, 1>>
        BY <2>20, <3>1, <4>1
      <4>4. QED
        BY <1>8, <2>22, <3>4, <4>2, <4>3
    <3>5. QED
      BY <1>3, <2>24, <3>3, <3>4 DEF Outcome
  <2>25. CASE ~(Len(bytes) < reader.need) /\ reader.pc = "body" /\ Deliver(bytes)
    <3>1. k0 = h /\ reader.need = l /\ g < l
      BY <2>6, <2>17, <2>25
    <3>2. g + 1 = l
      BY <2>16, <2>25, <3>1, SMTT(30)
    <3>3. bytes = Body(s)
      <4>1. Len(bytes) = length[s] /\ \A k \in 1 .. length[s] : bytes[k] = <<s, Header + k>>
        BY <2>5, <2>13, <2>16, <2>18, <3>1, <3>2
      <4>2. QED
        BY <2>13, <2>14, <4>1, FrameParts
    <3>4. After(sent, length, x) = <<r + 2, 1>>
      BY <2>20, <3>1, <3>2
    <3>5. QED
      BY <2>22, <2>25, <3>3, <3>4
  <2>26. QED
    BY <1>3, <2>23, <2>24, <2>25 DEF Outcome
<1>14. QED
  BY <1>12, <1>13

\* The two parts of the invariant hold in every state.
LEMMA TcpInvariant == Spec => [](Typed /\ Intact)
<1>1. Init => Typed /\ Intact
  <2> SUFFICES ASSUME Init PROVE Typed /\ Intact
    OBVIOUS
  <2>1. <<>> \in Seq(Seq(Bytes)) /\ <<>> \in Seq(Logs) /\ <<>> \in Seq(Nat) /\ Len(<<>>) = 0
    BY EmptySeq
  <2>2. EndsTyped
    BY <2>1 DEF Init, EndsTyped
  <2>3. LogTyped
    BY <2>1 DEF Init, LogTyped
  <2>4. PubTyped /\ ReaderTyped
    BY DEF Init, PubTyped, ReaderTyped
  <2>5. Intact
    BY <2>1 DEF Init, Intact
  <2>6. QED
    BY <2>2, <2>3, <2>4, <2>5 DEF Typed
<1>2. Typed /\ Intact /\ [Next]_vars => Typed' /\ Intact'
  <2> SUFFICES ASSUME Typed, Intact, [Next]_vars PROVE Typed' /\ Intact'
    OBVIOUS
  <2>1. Typed'
    BY TypedNext
  <2>2. CASE UNCHANGED vars
    <3>1. UNCHANGED <<peer, gone, reader, pipe, pub, log, length>>
      BY <2>2 DEF vars
    <3>2. LengthGrown
      BY <3>1 DEF LengthGrown, Typed, LogTyped
    <3>3. \A c : WritersKept(c)
      BY <3>1 DEF WritersKept, Writes
    <3>4. Intact'
      BY <3>1, <3>2, <3>3, IntactQuiet
    <3>5. QED
      BY <2>1, <3>4
  <2>3. CASE \E p \in Publishers : SendStep(p) \/ \E n \in Lengths : SendBegin(p, n)
    BY <2>1, <2>3, IntactSend, IntactPut DEF SendStep
  <2>4. CASE \/ ConnectBegin \/ ConnectEnd \/ Close \/ PeerConnect \/ RecvBegin \/ RecvStep
    BY <2>1, <2>4, IntactOwner, IntactRecv DEF RecvStep
  <2>5. QED
    BY <2>2, <2>3, <2>4 DEF Next
<1>3. QED
  BY <1>1, <1>2, PTL DEF Spec

\* Whatever is lost, delayed, interrupted or cut off, what ReceiveWithTimeout
\* returns on a connection are the messages of its first sends, whole, once
\* and in order, until a frame of that connection is cut: for any number of
\* publishers and connections and any sizes of header, messages and buffers.
THEOREM TcpFramesIntact == Spec => []FramesIntact
<1>1. Typed /\ Intact => FramesIntact
  <2> SUFFICES ASSUME Typed, Intact PROVE FramesIntact
    OBVIOUS
  <2>1. DOMAIN log = 1 .. Len(pipe)
    BY LenProperties DEF Typed, LogTyped
  <2>2. QED
    BY <2>1 DEF FramesIntact, Intact, Whole
<1>2. QED
  BY <1>1, TcpInvariant, PTL

-----------------------------------------------------------------------------
(* When the receiver's process ends.                                       *)

\* Every size is one that a message has.
LengthsKnown == \A s \in 1 .. Len(length) : length[s] \in Lengths

\* On a connection without a cut frame, a whole header gives the size of a
\* message.
LEMMA HeaderTrue ==
  ASSUME Typed, Intact, ~ReceiverEnded, reader # Idle, reader.pc = "header",
         pipe[peer] # <<>>, ~log[peer].cut, NEW bytes,
         bytes = Append(reader.got, Head(pipe[peer])), Len(bytes) = Header
  PROVE  \E s \in 1 .. Len(length) : LengthsIn(bytes) = {length[s]}
<1>1. PICK c \in 1 .. Len(pipe) : c = peer /\ c \notin gone
  <2>1. peer # 0 /\ peer \in 0 .. Len(pipe) /\ Len(pipe) \in Nat /\ peer \notin gone
    BY DEF Typed, ReaderTyped, EndsTyped, ReceiverEnded
  <2>2. QED
    BY <2>1
<1>2. Flow(c) /\ LogTyped /\ length \in Seq(Nat)
  BY <1>1 DEF Intact, Typed, LogTyped
<1>3. pipe[c] \in Seq(Bytes) /\ pipe[c] # <<>>
  <2>1. pipe \in Seq(Seq(Bytes))
    BY DEF Typed, EndsTyped
  <2>2. QED
    BY <1>1, <2>1, ElementOfSeq
<1>4. PICK sent \in Seq(Nat), rec \in Seq(Seq(Bytes)) : sent = log[c].sent /\ rec = log[c].received
  <2>1. log[c] \in Logs
    BY <1>2, ElementOfSeq DEF LogTyped
  <2>2. QED
    BY <2>1 DEF Logs
<1>5. PICK n \in Nat, r \in Nat : n = Len(sent) /\ r = Len(rec)
  BY <1>4
<1>6. PICK got \in Seq(Bytes), g \in Nat : got = reader.got /\ g = Len(got)
  <2>1. reader.got \in Seq(Bytes)
    BY DEF Typed, ReaderTyped
  <2>2. QED
    BY <2>1
<1>7. PICK x \in Nat \X Nat : x = <<r + 1, g + 1>>
  <2>1. r + 1 \in Nat /\ g + 1 \in Nat
    OBVIOUS
  <2>2. QED
    BY <2>1
<1>8. ReadTo(c) = g + 1 /\ Skipped = 0
  BY <1>1, <1>6 DEF ReadTo, Skipped
<1>9. PICK y \in Nat \X Nat : Run(pipe[c], sent, length, x, y)
  BY <1>2, <1>4, <1>5, <1>7, <1>8 DEF Flow, Stream
<1>10. Within(sent, length, x) /\ Head(pipe[c]) = <<sent[x[1]], x[2]>>
  BY <1>3, <1>9, RunTail
<1>11. r + 1 \in 1 .. n
  BY <1>5, <1>7, <1>10 DEF Within
<1>12. PICK s \in 1 .. Len(length) : s = sent[r + 1]
  BY <1>2, <1>4, <1>5, <1>11 DEF LogTyped
<1>13. s \in Nat /\ length[s] \in Nat
  BY <1>2, SMTT(30)
<1>14. Head(pipe[c]) = <<s, g + 1>>
  BY <1>7, <1>10, <1>12
<1>15. /\ Len(bytes) = g + 1 /\ bytes[g + 1] = <<s, g + 1>> /\ bytes \in Seq(Bytes)
       /\ \A k \in 1 .. g : bytes[k] = got[k]
  <2>1. PICK e \in Bytes : e = Head(pipe[c])
    BY <1>3, HeadTailProperties
  <2>2. bytes = Append(got, e)
    BY <1>1, <1>6, <2>1
  <2>3. /\ Len(bytes) = g + 1 /\ bytes[g + 1] = e /\ bytes \in Seq(Bytes)
        /\ \A k \in 1 .. g : bytes[k] = got[k]
    BY <1>6, <2>2, AppendProperties, SMTT(30)
  <2>4. QED
    BY <1>14, <2>1, <2>3
<1>16. g # 0 => \A k \in 1 .. g : got[k] = <<s, k>>
  <2>1. g # 0 => got # <<>>
    BY <1>6, EmptySeq
  <2>2. g # 0 => \A k \in 1 .. g : got[k] = <<s, 0 + k>>
    BY <1>1, <1>2, <1>4, <1>5, <1>6, <1>8, <1>12, <2>1 DEF Flow, Held
  <2>3. QED
    BY <2>2
<1>17. ASSUME NEW k \in 1 .. Header PROVE bytes[k] = <<s, k>>
  <2>1. CASE k = g + 1
    BY <1>15, <2>1
  <2>2. CASE k # g + 1
    <3>1. k \in 1 .. g /\ g # 0
      BY <1>15, <2>2
    <3>2. QED
      BY <1>15, <1>16, <3>1
  <2>3. QED
    BY <2>1, <2>2
<1>18. LengthsIn(bytes) = {length[s]}
  BY <1>13, <1>15, <1>17, HeaderLength
<1>19. QED
  BY <1>18

\* A cut connection stays cut.
LEMMA CutStays ==
  ASSUME Typed, ReceiverEnded, log[peer].cut, Next
  PROVE  log'[peer].cut /\ UNCHANGED peer
<1>1. EndsTyped /\ LogTyped /\ Len(pipe) \in Nat
  BY DEF Typed, EndsTyped
<1>2. PICK c \in 1 .. Len(pipe) : c = peer
  <2>1. peer # 0 /\ peer \in 0 .. Len(pipe)
    <3>1. gone = 1 .. peer - 1 \/ gone = 1 .. peer
      BY <1>1 DEF EndsTyped
    <3>2. QED
      BY <1>1, <3>1 DEF ReceiverEnded, EndsTyped
  <2>2. QED
    BY <1>1, <2>1
<1>3. reader # Idle
  <2>1. peer \notin 1 .. peer - 1
    BY <1>2
  <2>2. QED
    BY <1>1, <2>1 DEF EndsTyped, ReceiverEnded
<1>4. log[c] = Cut /\ Cut.cut = TRUE
  BY <1>1, <1>2 DEF LogTyped, Cut
<1>5. ASSUME NEW S, CutOff(S) PROVE log'[c] = Cut
  <2>1. c \in DOMAIN log
    BY <1>1, LenProperties DEF LogTyped
  <2>2. QED
    BY <1>4, <1>5, <2>1 DEF CutOff
<1>6. CASE ConnectBegin \/ ConnectEnd \/ Close
  <2>1. UNCHANGED peer
    BY <1>6 DEF ConnectBegin, ConnectEnd, Close, ends
  <2>2. log' = log \/ log' = Append(log, Fresh)
    BY <1>6 DEF ConnectBegin, ConnectEnd, Close
  <2>3. log'[c] = log[c]
    <3>1. log \in Seq(Logs) /\ c \in 1 .. Len(log)
      BY <1>1 DEF LogTyped
    <3>2. QED
      BY <2>2, <3>1, SMTT(30)
  <2>4. QED
    BY <1>2, <1>4, <2>1, <2>3
<1>7. ASSUME NEW p \in Publishers, SendStep(p) \/ \E n \in Lengths : SendBegin(p, n)
      PROVE  log'[peer].cut /\ UNCHANGED peer
  <2>1. UNCHANGED peer
    BY <1>7 DEF SendStep, SendReady, SendGivesUp, SendPut, SendInterrupted, SendBroken,
                SendKilled, SendBegin, ends
  <2>2. CASE SendReady(p) \/ SendGivesUp(p) \/ SendBroken(p)
    <3>1. \E S : CutOff(S)
      BY <2>2 DEF SendReady, SendGivesUp, SendBroken, SendFails
    <3>2. QED
      BY <1>2, <1>4, <1>5, <2>1, <3>1
  <2>3. CASE SendInterrupted(p) \/ SendKilled(p) \/ \E n \in Lengths : SendBegin(p, n)
    <3>1. UNCHANGED log
      BY <2>3 DEF SendInterrupted, SendKilled, SendBegin
    <3>2. QED
      BY <1>2, <1>4, <2>1, <3>1
  <2>4. CASE SendPut(p)
    <3>1. PutLog(p) /\ pub[p].conn \in 1 .. Len(pipe)
      BY <2>4, PutParts
    <3>2. CASE UNCHANGED log
      BY <1>2, <1>4, <2>1, <3>2
    <3>3. CASE \E S : CutOff(S)
      BY <1>2, <1>4, <1>5, <2>1, <3>3
    <3>4. CASE /\ ~log[pub[p].conn].cut
               /\ log' = [log EXCEPT ![pub[p].conn].sent = Append(@, pub[p].send)]
      <4>1. c # pub[p].conn
        BY <1>4, <3>4
      <4>2. log'[c] = log[c]
        BY <3>4, <4>1, <1>1, LenProperties DEF LogTyped
      <4>3. QED
        BY <1>2, <1>4, <2>1, <4>2
    <3>5. QED
      BY <3>1, <3>2, <3>3, <3>4 DEF PutLog
  <2>5. QED
    BY <1>7, <2>2, <2>3, <2>4 DEF SendStep
<1>8. ~PeerConnect /\ ~RecvBegin /\ ~RecvStep
  BY <1>3 DEF PeerConnect, RecvBegin, RecvStep
<1>9. QED
  BY <1>6, <1>7, <1>8 DEF Next

\* The process of the receiver does not end over the length of a message: what
\* ReceiveWithTimeout makes room for is the size of one, until a frame of the
\* connection has been cut.  For any header, sizes and numbers of publishers,
\* connections and signals.
THEOREM TcpEndsAfterCut == Spec => []EndsAfterCut
<1>1. Init => LengthsKnown /\ EndsAfterCut
  BY EmptySeq DEF Init, LengthsKnown, EndsAfterCut, ReceiverEnded
<1>2. Typed /\ LengthsKnown /\ [Next]_vars => LengthsKnown'
  <2> SUFFICES ASSUME Typed, LengthsKnown, [Next]_vars PROVE LengthsKnown'
    OBVIOUS
  <2>1. CASE UNCHANGED length
    BY <2>1 DEF LengthsKnown
  <2>2. ASSUME NEW p \in Publishers, NEW n \in Lengths, SendBegin(p, n) PROVE LengthsKnown'
    <3>1. length \in Seq(Nat) /\ n \in Nat /\ length' = Append(length, n)
      BY <2>2, TcpAssumption DEF Typed, LogTyped, SendBegin
    <3>2. QED
      BY <3>1, AppendProperties DEF LengthsKnown
  <2>3. ASSUME NEW p \in Publishers, SendStep(p) PROVE UNCHANGED length
    BY <2>3 DEF SendStep, SendReady, SendGivesUp, SendPut, SendInterrupted, SendBroken,
                SendKilled, sending
  <2>4. ASSUME ConnectBegin \/ ConnectEnd \/ Close \/ PeerConnect \/ RecvBegin \/ RecvStep
        PROVE  UNCHANGED length
    BY <2>4 DEF ConnectBegin, ConnectEnd, Close, PeerConnect, RecvBegin, RecvStep, RecvSome,
                RecvKilled, RecvTimeout, RecvClosed, RecvInterrupted, RecvFails, sending
  <2>5. QED
    BY <2>1, <2>2, <2>3, <2>4 DEF Next, vars
<1>3. Typed /\ Intact /\ LengthsKnown /\ EndsAfterCut /\ [Next]_vars => EndsAfterCut'
  <2> SUFFICES ASSUME Typed, Intact, LengthsKnown, EndsAfterCut, [Next]_vars, ReceiverEnded'
               PROVE  log'[peer'].cut
    BY DEF EndsAfterCut
  <2>1. CASE UNCHANGED vars
    BY <2>1 DEF vars, EndsAfterCut, ReceiverEnded
  <2>2. CASE Next /\ ReceiverEnded
    BY <2>2, CutStays DEF EndsAfterCut
  <2>3. CASE RecvKilled /\ ~ReceiverEnded
    <3>1. PICK bytes : /\ bytes = Append(reader.got, Head(pipe[peer]))
                       /\ Len(bytes) = Header /\ Huge \in LengthsIn(bytes)
      BY <2>3 DEF RecvKilled
    <3>2. /\ reader # Idle /\ reader.pc = "header" /\ pipe[peer] # <<>>
          /\ UNCHANGED <<peer, log>>
      BY <2>3 DEF RecvKilled
    <3>3. CASE ~log[peer].cut
      <4>1. PICK s \in 1 .. Len(length) : LengthsIn(bytes) = {length[s]}
        BY <2>3, <3>1, <3>2, <3>3, HeaderTrue
      <4>2. QED
        BY <3>1, <4>1, TcpAssumption DEF LengthsKnown
    <3>4. QED
      BY <3>2, <3>3
  <2>4. CASE Next /\ ~ReceiverEnded /\ ~RecvKilled
    <3>1. CASE PeerConnect
      <4>1. reader = Idle /\ UNCHANGED reader
        BY <3>1 DEF PeerConnect
      <4>2. EndsTyped'
        BY <2>4, TypedNext DEF Typed
      <4>3. peer' \in 0 .. Len(pipe') /\ gone' = 1 .. peer' - 1 /\ Len(pipe') \in Nat
        BY <4>1, <4>2 DEF EndsTyped
      <4>4. PICK q \in Nat : q = peer' /\ gone' = 1 .. q - 1
        BY <4>3
      <4>5. q \notin 1 .. q - 1
        OBVIOUS
      <4>6. QED
        BY <4>4, <4>5 DEF ReceiverEnded
    <3>2. CASE UNCHANGED <<peer, gone>>
      BY <2>4, <3>2 DEF ReceiverEnded
    <3>3. ASSUME NEW p \in Publishers, SendStep(p) \/ \E n \in Lengths : SendBegin(p, n)
          PROVE  UNCHANGED <<peer, gone>>
      BY <3>3 DEF SendStep, SendReady, SendGivesUp, SendPut, SendInterrupted, SendBroken,
                  SendKilled, SendBegin, ends
    <3>4. ASSUME ConnectBegin \/ ConnectEnd \/ Close \/ RecvBegin \/ RecvStep
          PROVE  UNCHANGED <<peer, gone>>
      BY <2>4, <3>4 DEF ConnectBegin, ConnectEnd, Close, RecvBegin, RecvStep, RecvSome,
                        RecvTimeout, RecvClosed, RecvInterrupted, RecvFails, ends
    <3>5. QED
      BY <2>4, <3>1, <3>2, <3>3, <3>4 DEF Next
  <2>5. QED
    BY <2>1, <2>2, <2>3, <2>4
<1>4. QED
  BY <1>1, <1>2, <1>3, TcpInvariant, PTL DEF Spec
=============================================================================
