------------------------- MODULE WriteCoalescerProofs -------------------------
(***************************************************************************)
(* Proofs about WriteCoalescer for every number of coalescers, workers and *)
(* frames: nothing that is accepted is lost or reordered on its way from   *)
(* the queue over the buffer to the connection.                            *)
(***************************************************************************)
EXTENDS WriteCoalescer, SequenceTheorems, TLAPS

-----------------------------------------------------------------------------
(* Sequences. *)

\* A queue is its head followed by its tail.
LEMMA HeadThenTail ==
  ASSUME NEW S, NEW q \in Seq(S), q # <<>>
  PROVE  <<Head(q)>> \o Tail(q) = q
<1> DEFINE h == <<Head(q)>>
           t == Tail(q)
<1>1. /\ t \in Seq(S) /\ Len(t) = Len(q) - 1
      /\ \A i \in 1..Len(t) : t[i] = q[i+1]
  BY HeadTailProperties
<1>2. Len(q) \in Nat \ {0}
  BY EmptySeq
<1>3. h \in Seq(S) /\ Len(h) = 1 /\ h[1] = q[1]
  BY <1>2, HeadTailProperties
<1> HIDE DEF h, t
<1>a. h \in Seq(S) /\ t \in Seq(S)
  BY <1>1, <1>3
<1>4. /\ h \o t \in Seq(S) /\ Len(h \o t) = Len(h) + Len(t)
      /\ \A i \in 1..Len(h) + Len(t) : (h \o t)[i] = IF i <= Len(h) THEN h[i] ELSE t[i - Len(h)]
  BY ONLY <1>a, ConcatProperties
<1>5. Len(h \o t) = Len(q)
  BY <1>1, <1>2, <1>3, <1>4
<1>6. \A i \in 1..Len(q) : (h \o t)[i] = q[i]
  BY <1>1, <1>2, <1>3, <1>4
<1>7. h \o t = q
  BY <1>4, <1>5, <1>6, SeqEqual
<1> QED BY <1>7 DEF h, t

\* A sequence is a prefix of its concatenation with another.
LEMMA PrefixOfConcat ==
  ASSUME NEW S, NEW w \in Seq(S), NEW t \in Seq(S)
  PROVE  /\ Len(w) <= Len(w \o t)
         /\ w = SubSeq(w \o t, 1, Len(w))
<1>1. /\ w \o t \in Seq(S) /\ Len(w \o t) = Len(w) + Len(t)
      /\ \A i \in 1..Len(w) + Len(t) : (w \o t)[i] = IF i <= Len(w) THEN w[i] ELSE t[i - Len(w)]
  BY ConcatProperties
<1>2. Len(w) \in Nat /\ Len(t) \in Nat
  OBVIOUS
<1>3. \A i \in 1..Len(w) : (w \o t)[i] \in S
  BY <1>1, <1>2
<1>4. /\ SubSeq(w \o t, 1, Len(w)) \in Seq(S)
      /\ Len(SubSeq(w \o t, 1, Len(w))) = IF 1 <= Len(w) THEN Len(w) - 1 + 1 ELSE 0
      /\ \A i \in 1..Len(w) - 1 + 1 : SubSeq(w \o t, 1, Len(w))[i] = (w \o t)[1 + i - 1]
  BY <1>2, <1>3, SubSeqProperties
<1>5. Len(SubSeq(w \o t, 1, Len(w))) = Len(w)
  BY <1>2, <1>4
<1>6. \A i \in 1..Len(w) : SubSeq(w \o t, 1, Len(w))[i] = w[i]
  BY <1>1, <1>2, <1>4
<1>7. w = SubSeq(w \o t, 1, Len(w))
  BY <1>4, <1>5, <1>6, SeqEqual
<1> QED BY <1>1, <1>2, <1>7

\* A prefix of a sequence remains one when an element is appended.
LEMMA PrefixOfAppend ==
  ASSUME NEW S, NEW w \in Seq(S), NEW a \in Seq(S), NEW e \in S,
         Len(w) <= Len(a), w = SubSeq(a, 1, Len(w))
  PROVE  /\ Len(w) <= Len(Append(a, e))
         /\ w = SubSeq(Append(a, e), 1, Len(w))
<1>1. /\ Append(a, e) \in Seq(S) /\ Len(Append(a, e)) = Len(a) + 1
      /\ \A i \in 1..Len(a) : Append(a, e)[i] = a[i]
  BY AppendProperties
<1>2. Len(w) \in Nat /\ Len(a) \in Nat
  OBVIOUS
<1>3. \A i \in 1..Len(w) : a[i] \in S /\ Append(a, e)[i] = a[i]
  BY <1>1, <1>2
<1>4. /\ SubSeq(Append(a, e), 1, Len(w)) \in Seq(S)
      /\ Len(SubSeq(Append(a, e), 1, Len(w))) = IF 1 <= Len(w) THEN Len(w) - 1 + 1 ELSE 0
      /\ \A i \in 1..Len(w) - 1 + 1 : SubSeq(Append(a, e), 1, Len(w))[i] = Append(a, e)[1 + i - 1]
  BY <1>2, <1>3, SubSeqProperties
<1>5. \A i \in 1..Len(w) - 1 + 1 : SubSeq(a, 1, Len(w))[i] = a[1 + i - 1]
  BY <1>2, <1>3, SubSeqProperties
<1>6. \A i \in 1..Len(w) : SubSeq(Append(a, e), 1, Len(w))[i] = w[i]
  BY <1>2, <1>3, <1>4, <1>5
<1>7. Len(SubSeq(Append(a, e), 1, Len(w))) = Len(w)
  BY <1>2, <1>4
<1>8. w = SubSeq(Append(a, e), 1, Len(w))
  BY <1>4, <1>6, <1>7, SeqEqual
<1> QED BY <1>1, <1>2, <1>8
\* A sequence is its first n elements followed by the others.
LEMMA SplitSeq ==
  ASSUME NEW S, NEW b \in Seq(S), NEW n \in 0..Len(b)
  PROVE  SubSeq(b, 1, n) \o SubSeq(b, n + 1, Len(b)) = b
<1>1. 1 \in 1..Len(b) + 1 /\ n \in 1 - 1..Len(b) /\ Len(b) \in n..Len(b)
  OBVIOUS
<1>2. SubSeq(b, 1, n) \o SubSeq(b, n + 1, Len(b)) = SubSeq(b, 1, Len(b))
  BY ONLY <1>1, b \in Seq(S), ConcatAdjacentSubSeq
<1> QED BY <1>2, SubSeqFull

\* Appending to a concatenation appends to its second part.
LEMMA AppendToConcat ==
  ASSUME NEW S, NEW s \in Seq(S), NEW t \in Seq(S), NEW e \in S
  PROVE  Append(s \o t, e) = s \o Append(t, e)
<1>1. s \o t \in Seq(S)
  BY ConcatProperties
<1>2. Append(s \o t, e) = (s \o t) \o <<e>> /\ Append(t, e) = t \o <<e>>
  BY <1>1, AppendIsConcat
<1>3. <<e>> \in Seq(S)
  OBVIOUS
<1> DEFINE u == <<e>>
<1> HIDE DEF u
<1>4. (s \o t) \o u = s \o (t \o u)
  BY ONLY s \in Seq(S), t \in Seq(S), <1>3, ConcatAssociative DEF u
<1> QED BY <1>2, <1>4 DEF u

\* Concatenation and Append behind names of their own, so that a proof can use
\* the four facts below about them and nothing else.
Cat(s, t) == s \o t
Snoc(s, e) == Append(s, e)

\* Cat gives a sequence.
LEMMA CatType == \A S : \A s, t \in Seq(S) : Cat(s, t) \in Seq(S)
BY ConcatProperties DEF Cat

\* Cat is associative.
LEMMA CatAssociative ==
  \A S : \A s, t, u \in Seq(S) : Cat(Cat(s, t), u) = Cat(s, Cat(t, u))
BY ConcatAssociative DEF Cat

\* The empty sequence is neutral for Cat.
LEMMA CatEmpty == \A S : \A s \in Seq(S) : Cat(s, <<>>) = s /\ Cat(<<>>, s) = s
BY ConcatEmptySeq DEF Cat

\* Snoc gives a sequence.
LEMMA SnocType == \A S : \A s \in Seq(S), e \in S : Snoc(s, e) \in Seq(S)
BY AppendProperties DEF Snoc

\* Snoc of a Cat is the Snoc of its second part.
LEMMA SnocCat ==
  \A S : \A s, t \in Seq(S), e \in S : Snoc(Cat(s, t), e) = Cat(s, Snoc(t, e))
BY AppendToConcat DEF Cat, Snoc

\* A frame moves from the front of the rest to the end of the buffer.
LEMMA MoveToBuffer ==
  ASSUME NEW S, NEW b \in Seq(S), NEW q \in Seq(S), NEW e \in S
  PROVE  Cat(Snoc(b, e), q) = Cat(b, Cat(<<e>>, q))
<1> DEFINE u == <<e>>
<1>1. u \in Seq(S) /\ Snoc(b, e) = Cat(b, u)
  BY AppendIsConcat DEF Snoc, Cat
<1> HIDE DEF u
<1>2. Cat(Cat(b, u), q) = Cat(b, Cat(u, q))
  BY <1>1, CatAssociative
<1> QED BY <1>1, <1>2 DEF u

\* HeadThenTail for Cat.
LEMMA UncatHead ==
  ASSUME NEW S, NEW q \in Seq(S), q # <<>>
  PROVE  Cat(<<Head(q)>>, Tail(q)) = q
BY HeadThenTail DEF Cat

-----------------------------------------------------------------------------
(* The inductive invariant. *)

\* Where the accepted frames of a coalescer are, in order.
Flow(r) == Cat(r.written, Cat(r.buffer, Cat(r.first, r.queue)))

\* Until the connection fails every accepted frame is somewhere on its way;
\* what has been written is a prefix of it, also afterwards.
Good(r) ==
    /\ ~r.draining => r.accepted = Flow(r)
    /\ Len(r.written) <= Len(r.accepted)
    /\ r.written = SubSeq(r.accepted, 1, Len(r.written))
    /\ IF r.loop \in {"schedule", "scheduled", "first"} THEN Len(r.first) = 1 ELSE r.first = <<>>
    /\ r.loop \in {"read", "schedule", "scheduled", "first", "done"} /\ ~r.draining
          => r.buffer = <<>>
    /\ r.loop = "coalesce" /\ ~r.draining => r.size < BufferSize
    /\ ~r.draining => IF r.buffer = <<>> THEN r.size = 0
                      ELSE r.size < BufferSize + FrameSize[r.buffer[Len(r.buffer)]]
    /\ r.loop = "done" => r.closed /\ r.queue = <<>>

\* The tasks that wait for a worker are those of the loops that wait for them.
TasksWait ==
    /\ \A i \in DOMAIN tasks : co[tasks[i]].loop = "scheduled"
    /\ \A i, j \in DOMAIN tasks : tasks[i] = tasks[j] => i = j

IInv == TypeOK /\ TasksWait /\ \A c \in Coalescers : Good(co[c])

-----------------------------------------------------------------------------
(* What the steps do to the state of one coalescer. *)

\* The types of the frames of a coalescer, and of what it has yet to write.
LEMMA FieldTypes ==
  ASSUME NEW r \in States
  PROVE  /\ r.accepted \in Seq(Frames) /\ r.written \in Seq(Frames) /\ r.buffer \in Seq(Frames)
         /\ r.first \in Seq(Frames) /\ r.queue \in Seq(Frames)
         /\ Cat(r.first, r.queue) \in Seq(Frames)
         /\ Cat(r.buffer, Cat(r.first, r.queue)) \in Seq(Frames)
BY CatType DEF States

\* Accept: the frame is the last one of the queue and of what was accepted.
LEMMA AcceptKeepsGood ==
  ASSUME NEW r \in States, Good(r), ~r.closed, NEW f \in Frames, NEW n \in 0..MaxFrames,
         NEW r2, r2 = [r EXCEPT !.offered = n, !.accepted = Append(@, f), !.queue = Append(@, f)]
  PROVE  r2 \in States /\ Good(r2)
<1>1. /\ r2.accepted = Snoc(r.accepted, f) /\ r2.queue = Snoc(r.queue, f)
      /\ r2.written = r.written /\ r2.buffer = r.buffer /\ r2.size = r.size /\ r2.first = r.first
      /\ r2.loop = r.loop /\ r2.draining = r.draining /\ r2.closed = r.closed
  BY DEF States, Snoc
<1>2. r2 \in States
  <2>1. Append(r.accepted, f) \in Seq(Frames) /\ Append(r.queue, f) \in Seq(Frames)
    BY FieldTypes, AppendProperties
  <2> QED BY <2>1 DEF States
<1>3. r.loop # "done"
  BY DEF Good
<1>4. Flow(r2) = Snoc(Flow(r), f)
  <2> DEFINE x == Cat(r.first, r.queue)
             y == Cat(r.buffer, x)
  <2>1. /\ r.first \in Seq(Frames) /\ r.queue \in Seq(Frames) /\ r.buffer \in Seq(Frames)
        /\ r.written \in Seq(Frames) /\ x \in Seq(Frames) /\ y \in Seq(Frames)
    BY FieldTypes
  <2>2. Snoc(x, f) = Cat(r.first, Snoc(r.queue, f))
    BY <2>1, SnocCat
  <2> HIDE DEF x
  <2>3. Snoc(y, f) = Cat(r.buffer, Snoc(x, f))
    BY <2>1, SnocCat
  <2> HIDE DEF y
  <2>4. Snoc(Cat(r.written, y), f) = Cat(r.written, Snoc(y, f))
    BY <2>1, SnocCat
  <2> QED BY <1>1, <2>2, <2>3, <2>4 DEF Flow, x, y
<1>5. Len(r2.written) <= Len(r2.accepted) /\ r2.written = SubSeq(r2.accepted, 1, Len(r2.written))
  <2>1. r.written \in Seq(Frames) /\ r.accepted \in Seq(Frames)
    BY FieldTypes
  <2>2. Len(r.written) <= Len(r.accepted) /\ r.written = SubSeq(r.accepted, 1, Len(r.written))
    BY DEF Good
  <2> QED BY ONLY <1>1, <2>1, <2>2, f \in Frames, PrefixOfAppend DEF Snoc
<1> QED BY <1>1, <1>2, <1>3, <1>4, <1>5 DEF Good

\* ReadFirstFrame: the first frame of an iteration leaves the queue.
LEMMA ReadKeepsGood ==
  ASSUME NEW r \in States, Good(r), r.loop = "read", r.queue # <<>>,
         NEW r2, r2 = [r EXCEPT !.first = <<Head(r.queue)>>, !.queue = Tail(@), !.loop = "schedule"]
  PROVE  r2 \in States /\ Good(r2)
<1>1. /\ r2.accepted = r.accepted /\ r2.queue = Tail(r.queue) /\ r2.written = r.written
      /\ r2.buffer = r.buffer /\ r2.size = r.size /\ r2.first = <<Head(r.queue)>>
      /\ r2.loop = "schedule" /\ r2.draining = r.draining
  BY DEF States
<1>2. /\ Head(r.queue) \in Frames /\ Tail(r.queue) \in Seq(Frames)
      /\ <<Head(r.queue)>> \in Seq(Frames) /\ Len(<<Head(r.queue)>>) = 1
  BY FieldTypes, HeadTailProperties
<1>3. r2 \in States
  BY <1>2 DEF States
<1>4. r.first = <<>>
  BY DEF Good
<1>5. Cat(r2.first, r2.queue) = Cat(r.first, r.queue)
  BY <1>1, <1>4, FieldTypes, CatEmpty, UncatHead
<1>6. Flow(r2) = Flow(r)
  BY <1>1, <1>5 DEF Flow
<1> QED BY <1>1, <1>2, <1>3, <1>6 DEF Good

\* EncodeFrame, for a frame f in front of the rest of what is on its way.
LEMMA EncodeKeepsGood ==
  ASSUME NEW r \in States, NEW f \in Frames, NEW ok \in BOOLEAN, NEW r1 \in States, Good(r1),
         r1.written = r.written, r1.accepted = r.accepted, r1.buffer = r.buffer, r1.size = r.size,
         r1.draining = r.draining, r1.loop \in {"first", "coalesce"}, r.first = <<>>,
         Cat(r1.first, r1.queue) = Cat(<<f>>, r.queue),
         r1.loop = "coalesce" => ~r.draining
  PROVE  EncodeFrame(r, f, ok) \in States /\ Good(EncodeFrame(r, f, ok))
<1> DEFINE r2 == EncodeFrame(r, f, ok)
<1>0. BufferSize \in Nat \ {0} /\ r.size \in Nat /\ FrameSize[f] \in Nat \ {0}
  BY ConstantsAssumption DEF States
<1>1. /\ Append(r.buffer, f) \in Seq(Frames)
      /\ Append(r.buffer, f)[Len(Append(r.buffer, f))] = f /\ Append(r.buffer, f) # <<>>
  <2>1. r.buffer \in Seq(Frames)
    BY FieldTypes
  <2>2. /\ Append(r.buffer, f) \in Seq(Frames) /\ Append(r.buffer, f) # <<>>
        /\ Len(Append(r.buffer, f)) = Len(r.buffer) + 1
        /\ Append(r.buffer, f)[Len(r.buffer) + 1] = f
    BY <2>1, AppendProperties
  <2> QED BY <2>2
<1>2. CASE ~ok
  <2>1. r2 = [r EXCEPT !.draining = TRUE, !.loop = "coalesce"]
    BY <1>2 DEF EncodeFrame
  <2> HIDE DEF r2
  <2>2. /\ r2 \in States /\ r2.draining = TRUE /\ r2.loop = "coalesce" /\ r2.first = r.first
        /\ r2.written = r.written /\ r2.accepted = r.accepted
    BY <2>1 DEF States
  <2>3. Good(r2)
    BY <2>2 DEF Good
  <2> QED BY <2>2, <2>3 DEF r2
<1>3. CASE ok
  <2> DEFINE n == r.size + FrameSize[f]
             l == IF n >= BufferSize THEN "write" ELSE "coalesce"
  <2>1. r2 = [r EXCEPT !.buffer = Append(r.buffer, f), !.size = n, !.loop = l]
    BY <1>3 DEF EncodeFrame
  <2>2. l \in {"write", "coalesce"} /\ n \in Nat
    BY <1>0
  <2> HIDE DEF r2, l, n
  <2>3. /\ r2 \in States /\ r2.draining = r.draining /\ r2.loop = l /\ r2.first = r.first
        /\ r2.written = r.written /\ r2.accepted = r.accepted /\ r2.queue = r.queue
        /\ r2.buffer = Append(r.buffer, f) /\ r2.size = n
    BY <1>1, <2>1, <2>2 DEF States
  <2>4. Flow(r2) = Flow(r1)
    <3>1. Cat(r2.first, r2.queue) = r.queue
      BY <2>3, FieldTypes, CatEmpty
    <3>2. Cat(r2.buffer, r.queue) = Cat(r1.buffer, Cat(r1.first, r1.queue))
      BY <2>3, FieldTypes, MoveToBuffer DEF Snoc
    <3> QED BY <2>3, <3>1, <3>2 DEF Flow
  <2>5. ~r.draining => r.size < BufferSize
    <3>1. CASE r1.loop = "first"
      <4>1. ~r.draining => r.size = 0
        BY <3>1 DEF Good
      <4> QED BY <1>0, <4>1
    <3>2. CASE r1.loop = "coalesce"
      BY <3>2 DEF Good
    <3> QED BY <3>1, <3>2
  <2>6. ~r2.draining => /\ r2.size < BufferSize + FrameSize[r2.buffer[Len(r2.buffer)]]
                        /\ r2.loop = "coalesce" => r2.size < BufferSize
    BY <1>0, <1>1, <2>3, <2>5 DEF l, n
  <2>7. /\ r2.first = <<>> /\ r2.loop \notin {"read", "schedule", "scheduled", "first", "done"}
        /\ r2.loop # "done"
    BY <2>2, <2>3
  <2>a. r2.buffer # <<>>
    BY <1>1, <2>3
  <2>8. ~r2.draining => r2.accepted = Flow(r2)
    BY <2>3, <2>4 DEF Good
  <2>9. Len(r2.written) <= Len(r2.accepted) /\ r2.written = SubSeq(r2.accepted, 1, Len(r2.written))
    BY <2>3 DEF Good
  <2>10. Good(r2)
    BY <2>6, <2>7, <2>a, <2>8, <2>9 DEF Good
  <2> QED BY <2>3, <2>10 DEF r2
<1> QED BY <1>2, <1>3

\* Write: a part of the buffer, or all of it, is written.
LEMMA WrittenIsPrefix ==
  ASSUME NEW r \in States, Good(r), ~r.draining, NEW n \in 0..Len(r.buffer),
         NEW w, w = r.written \o SubSeq(r.buffer, 1, n)
  PROVE  /\ w \in Seq(Frames)
         /\ Len(r.written) <= Len(w) /\ Len(w) <= Len(r.accepted)
         /\ w = SubSeq(r.accepted, 1, Len(w))
<1> DEFINE b1 == SubSeq(r.buffer, 1, n)
           b2 == SubSeq(r.buffer, n + 1, Len(r.buffer))
           t == Cat(r.first, r.queue)
<1>1. b1 \in Seq(Frames) /\ b2 \in Seq(Frames) /\ Cat(b1, b2) = r.buffer
  <2>1. r.buffer \in Seq(Frames) /\ Len(r.buffer) \in Nat
    BY FieldTypes
  <2>a. \A i \in 1..Len(r.buffer) : r.buffer[i] \in Frames
    BY <2>1, ElementOfSeq
  <2>2. b1 \in Seq(Frames)
    <3>1. \A i \in 1..n : r.buffer[i] \in Frames
      BY <2>1, <2>a
    <3> QED BY <2>1, <3>1, SubSeqProperties
  <2>3. b2 \in Seq(Frames)
    <3>1. \A i \in n + 1..Len(r.buffer) : r.buffer[i] \in Frames
      BY <2>1, <2>a
    <3> QED BY <2>1, <3>1, SubSeqProperties
  <2>4. b1 \o b2 = r.buffer
    BY <2>1, SplitSeq
  <2> QED BY <2>2, <2>3, <2>4 DEF Cat
<1>2. r.written \in Seq(Frames) /\ t \in Seq(Frames) /\ w = Cat(r.written, b1)
  BY FieldTypes DEF Cat
<1>3. r.accepted = Cat(r.written, Cat(r.buffer, t))
  BY DEF Good, Flow
<1> HIDE DEF b1, b2, t
<1>a. Cat(b2, t) \in Seq(Frames) /\ w \in Seq(Frames)
  BY <1>1, <1>2, CatType
<1>b. Cat(Cat(b1, b2), t) = Cat(b1, Cat(b2, t))
  BY <1>1, <1>2, CatAssociative
<1>4. Cat(r.buffer, t) = Cat(b1, Cat(b2, t)) /\ Cat(b2, t) \in Seq(Frames)
  BY <1>1, <1>a, <1>b
<1>c. Cat(Cat(r.written, b1), Cat(b2, t)) = Cat(r.written, Cat(b1, Cat(b2, t)))
  BY <1>1, <1>2, <1>a, CatAssociative
<1>5. r.accepted = Cat(w, Cat(b2, t)) /\ w \in Seq(Frames)
  BY <1>2, <1>3, <1>4, <1>a, <1>c
<1>6. Len(w) <= Len(w \o Cat(b2, t)) /\ w = SubSeq(w \o Cat(b2, t), 1, Len(w))
  BY <1>4, <1>5, PrefixOfConcat
<1>7. Len(r.written) <= Len(r.written \o b1)
  BY <1>1, <1>2, PrefixOfConcat
<1> QED BY <1>2, <1>5, <1>6, <1>7 DEF Cat

\* A write of the whole buffer: its frames are the next of those accepted.
LEMMA WriteKeepsGood ==
  ASSUME NEW r \in States, Good(r), r.loop = "write", ~r.draining,
         NEW r2, r2 = [r EXCEPT !.written = @ \o r.buffer, !.buffer = <<>>, !.size = 0, !.loop = "read"]
  PROVE  r2 \in States /\ Good(r2)
<1>1. /\ r2.accepted = r.accepted /\ r2.queue = r.queue /\ r2.written = Cat(r.written, r.buffer)
      /\ r2.buffer = <<>> /\ r2.size = 0 /\ r2.first = r.first /\ r2.loop = "read" /\ r2.draining = r.draining
  BY DEF States, Cat
<1>2. /\ Cat(r.written, r.buffer) \in Seq(Frames)
      /\ Len(r2.written) <= Len(r2.accepted)
      /\ r2.written = SubSeq(r2.accepted, 1, Len(r2.written))
  <2>1. r.buffer \in Seq(Frames) /\ Len(r.buffer) \in 0..Len(r.buffer)
        /\ SubSeq(r.buffer, 1, Len(r.buffer)) = r.buffer
    BY FieldTypes, SubSeqFull
  <2>2. r2.written = r.written \o SubSeq(r.buffer, 1, Len(r.buffer))
    BY <1>1, <2>1 DEF Cat
  <2>3. /\ r2.written \in Seq(Frames) /\ Len(r2.written) <= Len(r.accepted)
        /\ r2.written = SubSeq(r.accepted, 1, Len(r2.written))
    BY <2>1, <2>2, WrittenIsPrefix
  <2> QED BY <1>1, <2>3
<1>3. r2 \in States
  <2>1. <<>> \in Seq(Frames) /\ r.written \o r.buffer \in Seq(Frames)
    BY <1>2 DEF Cat
  <2> QED BY <2>1 DEF States
<1>4. Flow(r2) = Flow(r)
  <2> DEFINE t == Cat(r.first, r.queue)
  <2>1. t \in Seq(Frames) /\ r.written \in Seq(Frames) /\ r.buffer \in Seq(Frames)
    BY FieldTypes
  <2>2. Flow(r2) = Cat(Cat(r.written, r.buffer), Cat(<<>>, t))
    BY <1>1 DEF Flow
  <2>3. Flow(r) = Cat(r.written, Cat(r.buffer, t))
    BY DEF Flow
  <2> HIDE DEF t
  <2>4. Cat(<<>>, t) = t
    BY <2>1, CatEmpty
  <2>5. Cat(Cat(r.written, r.buffer), t) = Cat(r.written, Cat(r.buffer, t))
    BY <2>1, CatAssociative
  <2> QED BY <2>2, <2>3, <2>4, <2>5
<1>5. r2.first = <<>> /\ r2.accepted = Flow(r2)
  BY <1>1, <1>4 DEF Good
<1>6. Good(r2)
  <2>1. /\ r2.loop \notin {"schedule", "scheduled", "first"} /\ r2.loop # "coalesce"
        /\ r2.loop # "done"
    BY <1>1
  <2> QED BY <1>1, <1>2, <1>5, <2>1 DEF Good
<1> QED BY <1>3, <1>6

-----------------------------------------------------------------------------
(* The invariant is inductive. *)

\* A step of one coalescer that leaves it in a good state and does not touch the
\* tasks preserves the invariant.
LEMMA StepOfOne ==
  ASSUME IInv, NEW c \in Coalescers, NEW r2 \in States, Good(r2),
         co' = [co EXCEPT ![c] = r2], UNCHANGED tasks, co[c].loop # "scheduled" \/ r2.loop = "scheduled"
  PROVE  IInv'
<1>1. co' \in [Coalescers -> States] /\ co'[c] = r2 /\ \A d \in Coalescers : d # c => co'[d] = co[d]
  BY DEF IInv, TypeOK
<1>2. TypeOK'
  BY <1>1 DEF IInv, TypeOK
<1>3. TasksWait'
  <2>1. \A i \in DOMAIN tasks : tasks[i] \in Coalescers
    BY DEF IInv, TypeOK
  <2>2. \A i \in DOMAIN tasks : co[tasks[i]].loop = "scheduled"
    BY DEF IInv, TasksWait
  <2>3. \A i \in DOMAIN tasks : co'[tasks[i]].loop = "scheduled"
    BY <1>1, <2>1, <2>2
  <2> QED BY <2>3 DEF IInv, TasksWait
<1>4. \A d \in Coalescers : Good(co'[d])
  BY <1>1 DEF IInv
<1> QED BY <1>2, <1>3, <1>4 DEF IInv, Good, Flow

\* The coalescers start in a good state.
LEMMA InitIInv == Init => IInv
<1> SUFFICES ASSUME Init PROVE IInv
  OBVIOUS
<1>1. <<>> \in Seq(Frames) /\ 0 \in 0..MaxFrames /\ <<>> \in Seq(Coalescers) /\ BufferSize \in Nat \ {0}
  BY ConstantsAssumption
<1>2. TypeOK
  BY <1>1 DEF Init, TypeOK, States
<1>3. TasksWait
  BY DEF Init, TasksWait
<1>4. ASSUME NEW c \in Coalescers PROVE Good(co[c])
  <2>1. Flow(co[c]) = <<>>
    <3>1. Cat(<<>>, <<>>) = <<>>
      BY <1>1, CatEmpty
    <3> QED BY <3>1 DEF Flow, Init
  <2>2. SubSeq(<<>>, 1, 0) = <<>> /\ Len(<<>>) = 0
    BY SubSeqEmpty
  <2>3. /\ co[c].accepted = <<>> /\ co[c].written = <<>> /\ co[c].buffer = <<>> /\ co[c].size = 0
        /\ co[c].first = <<>>
        /\ co[c].queue = <<>> /\ co[c].loop = "read" /\ ~co[c].draining
    BY DEF Init
  <2> QED BY ONLY <2>1, <2>2, <2>3 DEF Good
<1> QED BY <1>2, <1>3, <1>4 DEF IInv

\* A frame is accepted or refused, or the queue is closed.
LEMMA EnqueueStep ==
  ASSUME IInv, NEW c \in Coalescers, Enqueue(c) \/ EnqueueAsync(c) \/ Close(c)
  PROVE  IInv'
<1> DEFINE r == co[c]
<1>1. r \in States /\ Good(r) /\ co \in [Coalescers -> States] /\ MaxFrames \in Nat
  BY ConstantsAssumption DEF IInv, TypeOK
<1>2. CASE Offer(c) /\ Accept(c) /\ UNCHANGED tasks
  <2> DEFINE n == r.offered + 1
             r2 == [r EXCEPT !.offered = n, !.accepted = Append(@, n), !.queue = Append(@, n)]
  <2>1. n \in Frames /\ n \in 0..MaxFrames /\ ~r.closed
    BY <1>1, <1>2 DEF Offer, States, Frames
  <2>2. co' = [co EXCEPT ![c] = r2] /\ r2.loop = r.loop
    BY <1>1, <1>2 DEF Accept, States
  <2>3. r2 \in States /\ Good(r2)
    BY <1>1, <2>1, AcceptKeepsGood
  <2> HIDE DEF r2
  <2> QED BY <1>2, <2>2, <2>3, StepOfOne
<1>3. CASE Offer(c) /\ co' = [co EXCEPT ![c].offered = @ + 1] /\ UNCHANGED tasks
  <2> DEFINE r2 == [r EXCEPT !.offered = @ + 1]
  <2>1. co' = [co EXCEPT ![c] = r2]
    BY <1>1, <1>3
  <2>2. r2 \in States
    <3>1. r.offered + 1 \in 0..MaxFrames
      BY <1>1, <1>3 DEF Offer, States
    <3> QED BY <1>1, <3>1 DEF States
  <2>3. /\ r2.accepted = r.accepted /\ r2.written = r.written /\ r2.buffer = r.buffer /\ r2.size = r.size
        /\ r2.first = r.first /\ r2.queue = r.queue /\ r2.loop = r.loop
        /\ r2.draining = r.draining /\ r2.closed = r.closed
    BY <1>1 DEF States
  <2> HIDE DEF r2
  <2>4. Good(r2)
    BY <1>1, <2>3 DEF Good, Flow
  <2> QED BY <1>3, <2>1, <2>2, <2>3, <2>4, StepOfOne
<1>4. CASE Close(c)
  <2> DEFINE r2 == [r EXCEPT !.closed = TRUE]
  <2>1. co' = [co EXCEPT ![c] = r2] /\ UNCHANGED tasks
    BY <1>1, <1>4 DEF Close
  <2>2. r2 \in States
    BY <1>1 DEF States
  <2>3. /\ r2.accepted = r.accepted /\ r2.written = r.written /\ r2.buffer = r.buffer /\ r2.size = r.size
        /\ r2.first = r.first /\ r2.queue = r.queue /\ r2.loop = r.loop
        /\ r2.draining = r.draining /\ r2.closed = TRUE
    BY <1>1 DEF States
  <2> HIDE DEF r2
  <2>4. Good(r2)
    BY <1>1, <2>3 DEF Good, Flow
  <2> QED BY <2>1, <2>2, <2>3, <2>4, StepOfOne
<1> QED BY <1>2, <1>3, <1>4 DEF Enqueue, EnqueueAsync

\* The loop takes a frame, or ends when the queue is closed and empty.
LEMMA ReadStep ==
  ASSUME IInv, NEW c \in Coalescers, ReadFirstFrame(c)
  PROVE  IInv'
<1> DEFINE r == co[c]
<1>1. r \in States /\ Good(r) /\ co \in [Coalescers -> States] /\ r.loop = "read" /\ UNCHANGED tasks
  BY DEF IInv, TypeOK, ReadFirstFrame
<1>2. CASE /\ r.queue # <<>>
           /\ co' = [co EXCEPT ![c].first = <<Head(co[c].queue)>>,
                              ![c].queue = Tail(@), ![c].loop = "schedule"]
  <2> DEFINE r2 == [r EXCEPT !.first = <<Head(r.queue)>>, !.queue = Tail(@), !.loop = "schedule"]
  <2>1. co' = [co EXCEPT ![c] = r2]
    BY <1>2, Zenon
  <2>2. r2 \in States /\ Good(r2)
    BY <1>1, <1>2, ReadKeepsGood
  <2> HIDE DEF r2
  <2> QED BY <1>1, <2>1, <2>2, StepOfOne
<1>3. CASE r.queue = <<>> /\ r.closed /\ co' = [co EXCEPT ![c].loop = "done"]
  <2> DEFINE r2 == [r EXCEPT !.loop = "done"]
  <2>1. co' = [co EXCEPT ![c] = r2]
    BY <1>1, <1>3
  <2>2. r2 \in States
    BY <1>1 DEF States
  <2>3. /\ r2.accepted = r.accepted /\ r2.written = r.written /\ r2.buffer = r.buffer /\ r2.size = r.size
        /\ r2.first = r.first /\ r2.queue = r.queue /\ r2.loop = "done"
        /\ r2.draining = r.draining /\ r2.closed = r.closed
    BY <1>1 DEF States
  <2> HIDE DEF r2
  <2>4. Good(r2)
    BY <1>1, <1>3, <2>3 DEF Good, Flow
  <2> QED BY <1>1, <2>1, <2>2, <2>4, StepOfOne
<1> QED BY <1>1, <1>2, <1>3 DEF ReadFirstFrame

\* A coalescer is added to the tasks when its loop begins to wait.
LEMMA ScheduleStep ==
  ASSUME IInv, NEW c \in Coalescers, Schedule(c)
  PROVE  IInv'
<1> DEFINE r == co[c]
           r2 == [r EXCEPT !.loop = "scheduled"]
<1>1. /\ r \in States /\ Good(r) /\ co \in [Coalescers -> States] /\ r.loop = "schedule"
      /\ tasks \in Seq(Coalescers) /\ tasks' = Append(tasks, c) /\ co' = [co EXCEPT ![c] = r2]
  BY DEF IInv, TypeOK, Schedule
<1>2. r2 \in States
  BY <1>1 DEF States
<1>3. /\ r2.accepted = r.accepted /\ r2.written = r.written /\ r2.buffer = r.buffer /\ r2.size = r.size
      /\ r2.first = r.first /\ r2.queue = r.queue /\ r2.loop = "scheduled"
      /\ r2.draining = r.draining /\ r2.closed = r.closed
  BY <1>1 DEF States
<1> HIDE DEF r2
<1>4. Good(r2)
  BY <1>1, <1>3 DEF Good, Flow
<1>5. co' \in [Coalescers -> States] /\ co'[c] = r2 /\ \A d \in Coalescers : d # c => co'[d] = co[d]
  BY <1>1, <1>2
<1>6. /\ tasks' \in Seq(Coalescers) /\ DOMAIN tasks' = 1..Len(tasks) + 1
      /\ \A i \in 1..Len(tasks) : tasks'[i] = tasks[i]
      /\ tasks'[Len(tasks) + 1] = c /\ DOMAIN tasks = 1..Len(tasks) /\ Len(tasks) \in Nat
      /\ \A i \in 1..Len(tasks) : tasks[i] \in Coalescers
  BY <1>1
<1>7. TypeOK'
  BY <1>5, <1>6 DEF TypeOK
<1>8. \A i \in 1..Len(tasks) : tasks[i] # c
  BY <1>1, <1>6 DEF IInv, TasksWait
<1>9. TasksWait'
  <2>1. \A i \in 1..Len(tasks) : co'[tasks'[i]].loop = "scheduled"
    BY <1>5, <1>6, <1>8 DEF IInv, TasksWait
  <2>2. co'[tasks'[Len(tasks) + 1]].loop = "scheduled"
    BY <1>3, <1>5, <1>6
  <2>3. \A i \in DOMAIN tasks' : i \in 1..Len(tasks) \/ i = Len(tasks) + 1
    BY <1>6
  <2>4. \A i, j \in 1..Len(tasks) : tasks[i] = tasks[j] => i = j
    BY <1>6 DEF IInv, TasksWait
  <2>5. \A i, j \in DOMAIN tasks' : tasks'[i] = tasks'[j] => i = j
    BY <2>3, <2>4, <1>6, <1>8
  <2> QED BY <2>1, <2>2, <2>3, <2>5 DEF TasksWait
<1>10. \A d \in Coalescers : Good(co'[d])
  BY <1>4, <1>5 DEF IInv
<1> QED BY <1>7, <1>9, <1>10 DEF IInv, Good, Flow

\* A worker takes the first of the tasks, and no other task is of this coalescer.
LEMMA StartStep ==
  ASSUME IInv, StartTask
  PROVE  IInv'
<1> DEFINE c == Head(tasks)
           r == co[c]
           r2 == [r EXCEPT !.loop = "first"]
<1>1. /\ tasks \in Seq(Coalescers) /\ tasks # <<>> /\ tasks' = Tail(tasks)
      /\ co \in [Coalescers -> States]
  BY DEF IInv, TypeOK, StartTask
<1>2. /\ c \in Coalescers /\ c = tasks[1] /\ 1 \in DOMAIN tasks
      /\ DOMAIN tasks = 1..Len(tasks) /\ Len(tasks) \in Nat \ {0}
      /\ tasks' \in Seq(Coalescers) /\ DOMAIN tasks' = 1..Len(tasks) - 1
      /\ \A i \in 1..Len(tasks) - 1 : tasks'[i] = tasks[i + 1]
  BY <1>1, HeadTailProperties
<1>3. r \in States /\ Good(r) /\ r.loop = "scheduled"
  BY <1>1, <1>2 DEF IInv, TypeOK, TasksWait
<1>4. co' = [co EXCEPT ![c] = r2]
  BY <1>1, <1>2 DEF StartTask
<1>5. r2 \in States
  BY <1>3 DEF States
<1>6. /\ r2.accepted = r.accepted /\ r2.written = r.written /\ r2.buffer = r.buffer /\ r2.size = r.size
      /\ r2.first = r.first /\ r2.queue = r.queue /\ r2.loop = "first"
      /\ r2.draining = r.draining /\ r2.closed = r.closed
  BY <1>3 DEF States
<1> HIDE DEF r2, c
<1>7. Good(r2)
  BY <1>3, <1>6 DEF Good, Flow
<1>8. co' \in [Coalescers -> States] /\ co'[c] = r2 /\ \A d \in Coalescers : d # c => co'[d] = co[d]
  BY <1>1, <1>2, <1>4, <1>5
<1>9. TypeOK'
  BY <1>2, <1>8 DEF TypeOK
<1>10. TasksWait'
  <2>1. \A i \in DOMAIN tasks' : i + 1 \in DOMAIN tasks /\ i + 1 # 1 /\ tasks'[i] = tasks[i + 1]
    BY <1>2
  <2>2. \A i \in DOMAIN tasks : tasks[i] \in Coalescers /\ co[tasks[i]].loop = "scheduled"
    BY <1>1 DEF IInv, TasksWait
  <2>3. \A i, j \in DOMAIN tasks : tasks[i] = tasks[j] => i = j
    BY DEF IInv, TasksWait
  <2>4. \A i \in DOMAIN tasks' : tasks'[i] # c
    BY <1>2, <2>1, <2>3
  <2>5. \A i \in DOMAIN tasks' : co'[tasks'[i]].loop = "scheduled"
    BY <1>8, <2>1, <2>2, <2>4
  <2>6. \A i, j \in DOMAIN tasks' : i + 1 = j + 1 => i = j
    BY <1>2
  <2>7. \A i, j \in DOMAIN tasks' : tasks'[i] = tasks'[j] => i = j
    BY <2>1, <2>3, <2>6
  <2> QED BY <2>5, <2>7 DEF TasksWait
<1>11. \A d \in Coalescers : Good(co'[d])
  BY <1>7, <1>8 DEF IInv
<1> QED BY <1>9, <1>10, <1>11 DEF IInv, Good, Flow

\* The task encodes the frame that the loop took.
LEMMA EncodeFirstStep ==
  ASSUME IInv, NEW c \in Coalescers, NEW ok \in BOOLEAN, EncodeFirstFrame(c, ok)
  PROVE  IInv'
<1> DEFINE r1 == co[c]
           f == r1.first[1]
           r == [r1 EXCEPT !.first = <<>>]
           r2 == EncodeFrame(r, f, ok)
<1>1. /\ r1 \in States /\ Good(r1) /\ co \in [Coalescers -> States] /\ r1.loop = "first"
      /\ UNCHANGED tasks
  BY DEF IInv, TypeOK, EncodeFirstFrame
<1>2. r1.first \in Seq(Frames) /\ Len(r1.first) = 1
  BY <1>1 DEF States, Good
<1>3. f \in Frames /\ r1.first = <<f>>
  BY <1>2
<1>4. /\ r \in States /\ r.first = <<>> /\ r.queue = r1.queue
      /\ r1.written = r.written /\ r1.accepted = r.accepted /\ r1.buffer = r.buffer
      /\ r1.size = r.size
      /\ r1.draining = r.draining
  <2>1. <<>> \in Seq(Frames)
    OBVIOUS
  <2> QED BY <1>1, <2>1 DEF States
<1>5. co' = [co EXCEPT ![c] = r2]
  <2>1. [EncodeFrame(r1, f, ok) EXCEPT !.first = <<>>] = r2
    BY <1>1 DEF EncodeFrame, States
  <2> QED BY <2>1 DEF EncodeFirstFrame
<1> HIDE DEF r, f
<1>6. r2 \in States /\ Good(r2)
  BY <1>1, <1>3, <1>4, EncodeKeepsGood
<1> HIDE DEF r2
<1> QED BY <1>1, <1>5, <1>6, StepOfOne

\* The task encodes, or while draining discards, the next frame, or ends.
LEMMA EncodeNextStep ==
  ASSUME IInv, NEW c \in Coalescers, NEW ok \in BOOLEAN, EncodeNextFrame(c, ok)
  PROVE  IInv'
<1> DEFINE r1 == co[c]
           r == [r1 EXCEPT !.queue = Tail(@)]
<1>1. /\ r1 \in States /\ Good(r1) /\ co \in [Coalescers -> States] /\ r1.loop = "coalesce"
      /\ UNCHANGED tasks
  BY DEF IInv, TypeOK, EncodeNextFrame
<1>2. CASE r1.queue = <<>>
  <2> DEFINE r2 == [r1 EXCEPT !.loop = "write"]
  <2>1. co' = [co EXCEPT ![c] = r2]
    BY <1>1, <1>2 DEF EncodeNextFrame
  <2>2. r2 \in States
    BY <1>1 DEF States
  <2>3. /\ r2.accepted = r1.accepted /\ r2.written = r1.written /\ r2.buffer = r1.buffer /\ r2.size = r1.size
        /\ r2.first = r1.first /\ r2.queue = r1.queue /\ r2.loop = "write"
        /\ r2.draining = r1.draining /\ r2.closed = r1.closed
    BY <1>1 DEF States
  <2> HIDE DEF r2
  <2>4. Good(r2)
    BY <1>1, <2>3 DEF Good, Flow
  <2> QED BY <1>1, <2>1, <2>2, <2>4, StepOfOne
<1>3. CASE r1.queue # <<>>
  <2>1. /\ r1.queue \in Seq(Frames) /\ r1.first = <<>> /\ Head(r1.queue) \in Frames
        /\ Tail(r1.queue) \in Seq(Frames)
    BY <1>1, <1>3, HeadTailProperties DEF States, Good
  <2>2. /\ r \in States /\ r.first = <<>> /\ r.queue = Tail(r1.queue)
        /\ r1.written = r.written /\ r1.accepted = r.accepted /\ r1.buffer = r.buffer
      /\ r1.size = r.size
        /\ r1.draining = r.draining /\ r1.closed = r.closed /\ r.loop = "coalesce"
    BY <1>1, <2>1 DEF States
  <2>3. CASE r.draining
    <3>1. co' = [co EXCEPT ![c] = r]
      BY <1>1, <1>3, <2>3 DEF EncodeNextFrame
    <3> HIDE DEF r
    <3>2. Good(r)
      BY <1>1, <2>1, <2>2, <2>3 DEF Good
    <3> QED BY <1>1, <2>2, <3>1, <3>2, StepOfOne
  <2>4. CASE ~r.draining
    <3> DEFINE f == Head(r1.queue)
               r2 == EncodeFrame(r, f, ok)
    <3>1. co' = [co EXCEPT ![c] = r2]
      BY <1>1, <1>3, <2>4 DEF EncodeNextFrame
    <3> HIDE DEF r
    <3>2. Cat(r1.first, r1.queue) = Cat(<<f>>, r.queue)
      <4>1. Cat(r1.first, r1.queue) = r1.queue
        BY <2>1, CatEmpty
      <4>2. Cat(<<f>>, r.queue) = r1.queue
        BY <1>3, <2>1, <2>2, UncatHead
      <4> QED BY <4>1, <4>2
    <3>3. f \in Frames
      BY <2>1
    <3> HIDE DEF f
    <3>4. r2 \in States /\ Good(r2)
      BY <1>1, <2>2, <2>4, <3>2, <3>3, EncodeKeepsGood
    <3> HIDE DEF r2
    <3> QED BY <1>1, <3>1, <3>4, StepOfOne
  <2> QED BY <2>3, <2>4
<1> QED BY <1>2, <1>3

\* The loop writes the buffer, or a part of it.
LEMMA WriteStep ==
  ASSUME IInv, NEW c \in Coalescers, Write(c)
  PROVE  IInv'
<1> DEFINE r == co[c]
<1>1. /\ r \in States /\ Good(r) /\ co \in [Coalescers -> States] /\ r.loop = "write"
      /\ UNCHANGED tasks
  BY DEF IInv, TypeOK, Write
<1>2. CASE r.buffer = <<>> \/ r.draining
  <2> DEFINE r2 == [r EXCEPT !.loop = "read"]
  <2>1. co' = [co EXCEPT ![c] = r2]
    BY <1>1, <1>2 DEF Write
  <2>2. r2 \in States
    BY <1>1 DEF States
  <2>3. /\ r2.accepted = r.accepted /\ r2.written = r.written /\ r2.buffer = r.buffer /\ r2.size = r.size
        /\ r2.first = r.first /\ r2.queue = r.queue /\ r2.loop = "read"
        /\ r2.draining = r.draining /\ r2.closed = r.closed
    BY <1>1 DEF States
  <2> HIDE DEF r2
  <2>4. Good(r2)
    BY <1>1, <1>2, <2>3 DEF Good, Flow
  <2> QED BY <1>1, <2>1, <2>2, <2>4, StepOfOne
<1>3. CASE ~r.draining /\ co' = [co EXCEPT ![c].written = @ \o co[c].buffer, ![c].buffer = <<>>, ![c].size = 0,
                                          ![c].loop = "read"]
  <2> DEFINE r2 == [r EXCEPT !.written = @ \o r.buffer, !.buffer = <<>>, !.size = 0, !.loop = "read"]
  <2>1. co' = [co EXCEPT ![c] = r2]
    BY <1>1, <1>3
  <2>2. r2 \in States /\ Good(r2)
    BY <1>1, <1>3, WriteKeepsGood
  <2> HIDE DEF r2
  <2> QED BY <1>1, <2>1, <2>2, StepOfOne
<1>4. ASSUME ~r.draining, NEW n \in 0..Len(r.buffer) - 1,
             co' = [co EXCEPT ![c].written = @ \o SubSeq(co[c].buffer, 1, n),
                              ![c].buffer = <<>>, ![c].size = 0, ![c].draining = TRUE, ![c].loop = "read"]
      PROVE  IInv'
  <2> DEFINE w == r.written \o SubSeq(r.buffer, 1, n)
             r2 == [r EXCEPT !.written = w, !.buffer = <<>>, !.size = 0, !.draining = TRUE, !.loop = "read"]
  <2>1. co' = [co EXCEPT ![c] = r2]
    BY <1>1, <1>4
  <2>2. n \in 0..Len(r.buffer)
    <3>1. Len(r.buffer) \in Nat
      BY <1>1 DEF States
    <3> QED BY <3>1
  <2>3. w \in Seq(Frames) /\ Len(w) <= Len(r.accepted) /\ w = SubSeq(r.accepted, 1, Len(w))
    BY <1>1, <1>4, <2>2, WrittenIsPrefix
  <2> HIDE DEF w
  <2>4. r2 \in States
    <3>1. <<>> \in Seq(Frames)
      OBVIOUS
    <3> QED BY <1>1, <2>3, <3>1 DEF States
  <2>5. /\ r2.accepted = r.accepted /\ r2.written = w /\ r2.first = r.first
        /\ r2.loop = "read" /\ r2.draining = TRUE
    BY <1>1 DEF States
  <2> HIDE DEF r2
  <2>6. Good(r2)
    BY <1>1, <2>3, <2>5 DEF Good
  <2> QED BY <1>1, <2>1, <2>4, <2>6, StepOfOne
<1> QED BY <1>1, <1>2, <1>3, <1>4 DEF Write

\* IInv holds in every state of the coalescers.
THEOREM Invariant == Spec => []IInv
<1>1. ASSUME IInv, [Next]_vars PROVE IInv'
  <2>1. CASE UNCHANGED vars
    BY <1>1, <2>1 DEF vars, IInv, TypeOK, TasksWait, Good, Flow
  <2>2. CASE \E c \in Coalescers : Enqueue(c) \/ EnqueueAsync(c) \/ Close(c)
    BY <1>1, <2>2, EnqueueStep
  <2>3. ASSUME NEW c \in Coalescers, LoopStep(c) PROVE IInv'
    <3>1. EncodeResults \subseteq BOOLEAN
      BY DEF EncodeResults
    <3> QED BY <1>1, <2>3, <3>1, ReadStep, ScheduleStep, EncodeFirstStep, EncodeNextStep DEF LoopStep
  <2>4. ASSUME NEW c \in Coalescers, Write(c) PROVE IInv'
    BY <1>1, <2>4, WriteStep
  <2>5. CASE StartTask
    BY <1>1, <2>5, StartStep
  <2>6. CASE Terminated
    BY <2>1, <2>6 DEF Terminated
  <2> QED BY <1>1, <2>1, <2>2, <2>3, <2>4, <2>5, <2>6 DEF Next
<1> QED BY <1>1, InitIInv, PTL DEF Spec

\* Every variable of the coalescers keeps its range.
THEOREM TypeCorrect == Spec => []TypeOK
<1>1. IInv => TypeOK
  BY DEF IInv
<1> QED BY <1>1, Invariant, PTL

\* The buffer that is handed from task to task exceeds its configured size by
\* less than its last frame while the connection works.
THEOREM BufferIsBounded == Spec => []BufferBounded
<1>1. IInv => BufferBounded
  BY DEF IInv, Good, BufferBounded
<1> QED BY <1>1, Invariant, PTL

\* Every frame that was accepted before Close is written when the loop of a
\* coalescer whose connection works has ended.
THEOREM CloseLosesNothing == Spec => []NothingLost
<1>1. IInv => NothingLost
  <2> SUFFICES ASSUME IInv, NEW c \in Coalescers, co[c].loop = "done", ~co[c].draining
               PROVE  co[c].written = co[c].accepted
    BY DEF NothingLost
  <2> DEFINE r == co[c]
  <2>1. r \in States /\ Good(r)
    BY DEF IInv, TypeOK
  <2>2. r.queue = <<>> /\ r.first = <<>> /\ r.buffer = <<>> /\ r.accepted = Flow(r)
    BY <2>1 DEF Good
  <2>3. r.written \in Seq(Frames) /\ <<>> \in Seq(Frames)
    BY <2>1, FieldTypes
  <2>4. Flow(r) = r.written
    BY <2>2, <2>3, CatEmpty DEF Flow
  <2> QED BY <2>2, <2>4
<1> QED BY <1>1, Invariant, PTL

-----------------------------------------------------------------------------
(* The coalescers implement FrameStream. *)

\* A step of one coalescer that changes neither what was accepted nor what was
\* written, nor fails, is no step of the streams.
LEMMA MapsToStutter ==
  ASSUME co \in [Coalescers -> States], NEW c \in Coalescers, NEW r2, co' = [co EXCEPT ![c] = r2],
         r2.accepted = co[c].accepted, r2.written = co[c].written, r2.draining = co[c].draining
  PROVE  UNCHANGED Stream!vars
<1>1. \A d \in Coalescers : /\ co'[d].accepted = co[d].accepted /\ co'[d].written = co[d].written
                            /\ co'[d].draining = co[d].draining
  OBVIOUS
<1> QED BY <1>1 DEF Stream!vars

\* Accept is Accept of the stream.
LEMMA MapsToAccept ==
  ASSUME co \in [Coalescers -> States], NEW c \in Coalescers, NEW r2, co' = [co EXCEPT ![c] = r2],
         NEW f \in Frames, r2.accepted = Append(co[c].accepted, f),
         r2.written = co[c].written, r2.draining = co[c].draining
  PROVE  Stream!Accept(c)
<1> DEFINE a == [d \in Coalescers |-> co[d].accepted]
<1>1. /\ \A d \in Coalescers : co'[d].written = co[d].written /\ co'[d].draining = co[d].draining
      /\ \A d \in Coalescers : d # c => co'[d].accepted = co[d].accepted
      /\ co'[c].accepted = Append(co[c].accepted, f)
  OBVIOUS
<1>2. a' = [a EXCEPT ![c] = Append(@, f)]
  BY <1>1
<1>3. UNCHANGED <<[d \in Coalescers |-> co[d].written], [d \in Coalescers |-> co[d].draining]>>
  BY <1>1
<1> QED BY <1>2, <1>3 DEF Stream!Accept

\* A step that extends what was written, or fails, is Write of the stream.
LEMMA MapsToWrite ==
  ASSUME co \in [Coalescers -> States], NEW c \in Coalescers, NEW r2, co' = [co EXCEPT ![c] = r2],
         NEW n \in Len(co[c].written)..Len(co[c].accepted), ~co[c].draining,
         r2.accepted = co[c].accepted, r2.written = SubSeq(co[c].accepted, 1, n),
         r2.draining \in BOOLEAN
  PROVE  Stream!Write(c)
<1> DEFINE a == [d \in Coalescers |-> co[d].accepted]
           w == [d \in Coalescers |-> co[d].written]
           g == [d \in Coalescers |-> co[d].draining]
<1>1. /\ \A d \in Coalescers : co'[d].accepted = co[d].accepted
      /\ \A d \in Coalescers : d # c => co'[d].written = co[d].written /\ co'[d].draining = co[d].draining
      /\ co'[c].written = SubSeq(co[c].accepted, 1, n) /\ co'[c].draining = r2.draining
  OBVIOUS
<1>2. w' = [w EXCEPT ![c] = SubSeq(a[c], 1, n)]
  BY <1>1
<1>3. g' = [g EXCEPT ![c] = r2.draining]
  BY <1>1
<1>4. UNCHANGED a
  BY <1>1
<1>5. n \in Len(w[c])..Len(a[c]) /\ ~g[c]
  OBVIOUS
<1> HIDE DEF a, w, g
<1>6. \E m \in Len(w[c])..Len(a[c]) : w' = [w EXCEPT ![c] = SubSeq(a[c], 1, m)]
  BY <1>2, <1>5
<1>7. \E b \in BOOLEAN : g' = [g EXCEPT ![c] = b]
  BY <1>3
<1> QED BY <1>4, <1>5, <1>6, <1>7 DEF Stream!Write, a, w, g

\* Encoding a frame stutters, or fails as a Write that writes nothing.
LEMMA EncodeMaps ==
  ASSUME IInv, NEW c \in Coalescers, NEW r \in States, NEW r2, NEW f, NEW ok \in BOOLEAN,
         co' = [co EXCEPT ![c] = r2], r.accepted = co[c].accepted, r.written = co[c].written,
         r.draining = co[c].draining, r2 = EncodeFrame(r, f, ok)
  PROVE  Stream!Next \/ UNCHANGED Stream!vars
<1>1. co \in [Coalescers -> States] /\ co[c] \in States /\ Good(co[c])
  BY DEF IInv, TypeOK
<1>2. r2.accepted = co[c].accepted /\ r2.written = co[c].written
      /\ r2.draining = IF ok THEN co[c].draining ELSE TRUE
  BY DEF EncodeFrame, States
<1>3. CASE r2.draining = co[c].draining
  BY <1>1, <1>2, <1>3, MapsToStutter
<1>4. CASE r2.draining # co[c].draining
  <2> DEFINE n == Len(co[c].written)
  <2>1. ~co[c].draining /\ r2.draining = TRUE
    BY <1>1, <1>2, <1>4 DEF States
  <2>2. n \in n..Len(co[c].accepted)
    <3>1. n \in Nat /\ Len(co[c].accepted) \in Nat /\ n <= Len(co[c].accepted)
      BY <1>1, FieldTypes DEF Good
    <3> QED BY <3>1
  <2>3. r2.written = SubSeq(co[c].accepted, 1, n)
    BY <1>1, <1>2 DEF Good
  <2>4. Stream!Write(c)
    BY <1>1, <1>2, <2>1, <2>2, <2>3, MapsToWrite
  <2> QED BY <2>4 DEF Stream!Next
<1> QED BY <1>3, <1>4

\* Write is Write of the stream, or stutters.
LEMMA WriteMaps ==
  ASSUME IInv, NEW c \in Coalescers, Write(c)
  PROVE  Stream!Next \/ UNCHANGED Stream!vars
<1> DEFINE r == co[c]
<1>1. co \in [Coalescers -> States] /\ r \in States /\ Good(r)
  BY DEF IInv, TypeOK
<1>2. CASE r.buffer = <<>> \/ r.draining
  <2> DEFINE r2 == [r EXCEPT !.loop = "read"]
  <2>1. co' = [co EXCEPT ![c] = r2]
    BY <1>1, <1>2 DEF Write
  <2>2. r2.accepted = r.accepted /\ r2.written = r.written /\ r2.draining = r.draining
    BY <1>1 DEF States
  <2> HIDE DEF r2
  <2> QED BY <1>1, <2>1, <2>2, MapsToStutter
<1>3. ASSUME ~r.draining, NEW n \in 0..Len(r.buffer), NEW b \in BOOLEAN,
             co' = [co EXCEPT ![c] = [r EXCEPT !.written = @ \o SubSeq(r.buffer, 1, n),
                                      !.buffer = <<>>, !.size = 0, !.draining = b, !.loop = "read"]]
      PROVE  Stream!Next
  <2> DEFINE w == r.written \o SubSeq(r.buffer, 1, n)
             r2 == [r EXCEPT !.written = w, !.buffer = <<>>, !.size = 0, !.draining = b, !.loop = "read"]
  <2>1. co' = [co EXCEPT ![c] = r2]
    BY <1>3
  <2>2. /\ w \in Seq(Frames) /\ Len(r.written) <= Len(w) /\ Len(w) <= Len(r.accepted)
        /\ w = SubSeq(r.accepted, 1, Len(w))
    BY <1>1, <1>3, WrittenIsPrefix
  <2> HIDE DEF w
  <2>3. r2.accepted = r.accepted /\ r2.written = w /\ r2.draining = b
    BY <1>1 DEF States
  <2> HIDE DEF r2
  <2>4. Len(w) \in Len(r.written)..Len(r.accepted)
    <3>1. Len(w) \in Nat /\ Len(r.written) \in Nat /\ Len(r.accepted) \in Nat
      BY <1>1, <2>2, FieldTypes
    <3> QED BY <2>2, <3>1
  <2>5. Stream!Write(c)
    BY <1>1, <1>3, <2>1, <2>2, <2>3, <2>4, MapsToWrite
  <2> QED BY <2>5 DEF Stream!Next
<1>4. CASE ~r.draining /\ co' = [co EXCEPT ![c].written = @ \o co[c].buffer, ![c].buffer = <<>>, ![c].size = 0,
                                          ![c].loop = "read"]
  <2> DEFINE n == Len(r.buffer)
  <2>1. r.buffer \in Seq(Frames) /\ n \in 0..n
    BY <1>1, FieldTypes
  <2>2. SubSeq(r.buffer, 1, n) = r.buffer
    BY <2>1, SubSeqFull
  <2>3. [r EXCEPT !.written = @ \o r.buffer, !.buffer = <<>>, !.size = 0, !.loop = "read"]
          = [r EXCEPT !.written = @ \o SubSeq(r.buffer, 1, n), !.buffer = <<>>, !.size = 0, !.draining = FALSE,
                      !.loop = "read"]
    BY <1>1, <1>4, <2>2 DEF States
  <2>4. co' = [co EXCEPT ![c] = [r EXCEPT !.written = @ \o r.buffer, !.buffer = <<>>, !.size = 0,
                                          !.loop = "read"]]
    BY <1>4, Zenon
  <2>5. co' = [co EXCEPT ![c] = [r EXCEPT !.written = @ \o SubSeq(r.buffer, 1, n), !.buffer = <<>>, !.size = 0,
                                          !.draining = FALSE, !.loop = "read"]]
    BY <2>3, <2>4, Zenon
  <2>6. ~r.draining /\ n \in 0..Len(r.buffer) /\ FALSE \in BOOLEAN
    BY <1>4, <2>1
  <2> HIDE DEF n
  <2> QED BY <1>3, <2>5, <2>6, Zenon
<1>5. ASSUME ~r.draining, NEW n \in 0..Len(r.buffer) - 1,
             co' = [co EXCEPT ![c].written = @ \o SubSeq(co[c].buffer, 1, n),
                              ![c].buffer = <<>>, ![c].size = 0, ![c].draining = TRUE, ![c].loop = "read"]
      PROVE  Stream!Next
  <2>1. n \in 0..Len(r.buffer)
    <3>1. Len(r.buffer) \in Nat
      BY <1>1, FieldTypes
    <3> QED BY <3>1
  <2> QED BY <1>1, <1>3, <1>5, <2>1
<1> QED BY <1>1, <1>2, <1>4, <1>5 DEF Write

\* Every step of the loop and of its task stutters, or fails as Write.
LEMMA LoopMaps ==
  ASSUME IInv, NEW c \in Coalescers, LoopStep(c)
  PROVE  Stream!Next \/ UNCHANGED Stream!vars
<1> DEFINE r == co[c]
<1>1. co \in [Coalescers -> States] /\ r \in States /\ EncodeResults \subseteq BOOLEAN
  BY DEF IInv, TypeOK, EncodeResults
<1>2. ASSUME NEW r2, co' = [co EXCEPT ![c] = r2],
             r2.accepted = r.accepted, r2.written = r.written, r2.draining = r.draining
      PROVE  UNCHANGED Stream!vars
  BY <1>1, <1>2, MapsToStutter
<1>3. CASE ReadFirstFrame(c)
  <2> DEFINE r2 == [r EXCEPT !.first = <<Head(r.queue)>>, !.queue = Tail(@), !.loop = "schedule"]
             r3 == [r EXCEPT !.loop = "done"]
  <2>1. co' = [co EXCEPT ![c] = r2] \/ co' = [co EXCEPT ![c] = r3]
    BY <1>1, <1>3 DEF ReadFirstFrame
  <2>2. /\ r2.accepted = r.accepted /\ r2.written = r.written /\ r2.draining = r.draining
        /\ r3.accepted = r.accepted /\ r3.written = r.written /\ r3.draining = r.draining
    BY <1>1 DEF States
  <2> HIDE DEF r2, r3
  <2> QED BY <1>2, <2>1, <2>2
<1>4. CASE Schedule(c)
  <2> DEFINE r2 == [r EXCEPT !.loop = "scheduled"]
  <2>1. co' = [co EXCEPT ![c] = r2]
    BY <1>1, <1>4 DEF Schedule
  <2>2. r2.accepted = r.accepted /\ r2.written = r.written /\ r2.draining = r.draining
    BY <1>1 DEF States
  <2> HIDE DEF r2
  <2> QED BY <1>2, <2>1, <2>2
<1>5. ASSUME NEW ok \in BOOLEAN, EncodeFirstFrame(c, ok)
      PROVE  Stream!Next \/ UNCHANGED Stream!vars
  <2> DEFINE r0 == [r EXCEPT !.first = <<>>]
             r2 == EncodeFrame(r0, r.first[1], ok)
  <2>1. [EncodeFrame(r, r.first[1], ok) EXCEPT !.first = <<>>] = r2
    BY <1>1 DEF EncodeFrame, States
  <2>2. co' = [co EXCEPT ![c] = r2]
    BY <1>5, <2>1 DEF EncodeFirstFrame
  <2>3. <<>> \in Seq(Frames)
    OBVIOUS
  <2>4. r0 \in States /\ r0.accepted = r.accepted /\ r0.written = r.written /\ r0.draining = r.draining
    BY <1>1, <2>3 DEF States
  <2> HIDE DEF r0
  <2> QED BY <2>2, <2>4, EncodeMaps
<1>6. ASSUME NEW ok \in BOOLEAN, EncodeNextFrame(c, ok)
      PROVE  Stream!Next \/ UNCHANGED Stream!vars
  <2> DEFINE r0 == [r EXCEPT !.queue = Tail(@)]
             r2 == [r EXCEPT !.loop = "write"]
             r3 == EncodeFrame(r0, Head(r.queue), ok)
  <2>1. \/ r.queue = <<>> /\ co' = [co EXCEPT ![c] = r2]
        \/ r.queue # <<>> /\ (co' = [co EXCEPT ![c] = r0] \/ co' = [co EXCEPT ![c] = r3])
    BY <1>1, <1>6 DEF EncodeNextFrame
  <2>2. /\ r2.accepted = r.accepted /\ r2.written = r.written /\ r2.draining = r.draining
        /\ r0.accepted = r.accepted /\ r0.written = r.written /\ r0.draining = r.draining
    BY <1>1 DEF States
  <2>3. r.queue # <<>> => r0 \in States
    <3>1. r.queue # <<>> => Tail(r.queue) \in Seq(Frames)
      BY <1>1, HeadTailProperties DEF States
    <3> QED BY <1>1, <3>1 DEF States
  <2> HIDE DEF r0, r2
  <2>4. r.queue # <<>> /\ co' = [co EXCEPT ![c] = r3] => Stream!Next \/ UNCHANGED Stream!vars
    BY <2>2, <2>3, EncodeMaps
  <2> HIDE DEF r3
  <2> QED BY <1>2, <2>1, <2>2, <2>4
<1> QED BY <1>1, <1>3, <1>4, <1>5, <1>6 DEF LoopStep

\* Enqueue and EnqueueAsync are Accept of the stream, or stutter; Close stutters.
LEMMA EnqueueMaps ==
  ASSUME IInv, NEW c \in Coalescers, Enqueue(c) \/ EnqueueAsync(c) \/ Close(c)
  PROVE  Stream!Next \/ UNCHANGED Stream!vars
<1> DEFINE r == co[c]
           n == r.offered + 1
           r2 == [r EXCEPT !.offered = n, !.accepted = Append(@, n), !.queue = Append(@, n)]
           r3 == [r EXCEPT !.offered = @ + 1]
           r4 == [r EXCEPT !.closed = TRUE]
<1>1. co \in [Coalescers -> States] /\ r \in States /\ MaxFrames \in Nat
  BY ConstantsAssumption DEF IInv, TypeOK
<1>2. \/ Offer(c) /\ co' = [co EXCEPT ![c] = r2]
      \/ co' = [co EXCEPT ![c] = r3] \/ co' = [co EXCEPT ![c] = r4]
  BY <1>1 DEF Enqueue, EnqueueAsync, Close, Accept
<1>3. Offer(c) => n \in Frames
  BY <1>1 DEF Offer, Frames, States
<1>4. /\ r2.accepted = Append(r.accepted, n) /\ r2.written = r.written /\ r2.draining = r.draining
      /\ r3.accepted = r.accepted /\ r3.written = r.written /\ r3.draining = r.draining
      /\ r4.accepted = r.accepted /\ r4.written = r.written /\ r4.draining = r.draining
  BY <1>1 DEF States
<1> HIDE DEF n, r2, r3, r4
<1>5. CASE Offer(c) /\ co' = [co EXCEPT ![c] = r2]
  <2>1. Stream!Accept(c)
    BY <1>1, <1>3, <1>4, <1>5, MapsToAccept
  <2> QED BY <2>1 DEF Stream!Next
<1>6. CASE co' = [co EXCEPT ![c] = r3] \/ co' = [co EXCEPT ![c] = r4]
  BY <1>1, <1>4, <1>6, MapsToStutter
<1> QED BY <1>2, <1>5, <1>6

\* A worker that takes a task changes no stream.
LEMMA StartMaps ==
  ASSUME IInv, StartTask
  PROVE  UNCHANGED Stream!vars
<1> DEFINE c == Head(tasks)
           r2 == [co[c] EXCEPT !.loop = "first"]
<1>1. co \in [Coalescers -> States] /\ c \in Coalescers
  BY HeadTailProperties DEF IInv, TypeOK, StartTask
<1>2. co' = [co EXCEPT ![c] = r2]
  BY <1>1 DEF StartTask
<1>3. r2.accepted = co[c].accepted /\ r2.written = co[c].written /\ r2.draining = co[c].draining
  BY <1>1 DEF States
<1> HIDE DEF r2, c
<1> QED BY <1>1, <1>2, <1>3, MapsToStutter

\* The coalescers and their pool of workers implement FrameStream: a connection
\* receives the frames that were accepted for it in order and without gaps, and
\* nothing after a failed write.
THEOREM CoalescersImplementStreams == Spec => InOrder
<1>1. Init => Stream!Init
  BY DEF Init, Stream!Init
<1>2. ASSUME IInv, [Next]_vars PROVE [Stream!Next]_(Stream!vars)
  <2>1. CASE UNCHANGED vars
    BY <2>1 DEF vars, Stream!vars
  <2>2. CASE \E c \in Coalescers : Enqueue(c) \/ EnqueueAsync(c) \/ Close(c)
    BY <1>2, <2>2, EnqueueMaps
  <2>3. CASE \E c \in Coalescers : LoopStep(c) \/ Write(c)
    BY <1>2, <2>3, LoopMaps, WriteMaps
  <2>4. CASE StartTask
    BY <1>2, <2>4, StartMaps
  <2>5. CASE Terminated
    BY <2>1, <2>5 DEF Terminated
  <2> QED BY <1>2, <2>1, <2>2, <2>3, <2>4, <2>5 DEF Next
<1> QED BY <1>1, <1>2, Invariant, PTL DEF Spec, InOrder, Stream!Spec
=============================================================================
