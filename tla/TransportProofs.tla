--------------------------- MODULE TransportProofs ---------------------------
(***************************************************************************)
(* The order and the accounting of Transport, for any number of CPUs and   *)
(* any capacities; and that each of its steps is one of the bounded queue  *)
(* of LossyFifo, or leaves it alone.  That the queue is also drained is    *)
(* liveness, and checked on the instance of Transport.cfg.                 *)
(***************************************************************************)
EXTENDS Transport, SequenceTheorems, FiniteSetTheorems, TLAPS

(* Sequences.                                                              *)

LEMMA ConsTail ==
  ASSUME NEW S, NEW s \in Seq(S), s # <<>>
  PROVE  /\ Head(s) \in S /\ Tail(s) \in Seq(S)
         /\ Len(s) \in Nat /\ Len(s) > 0 /\ Len(Tail(s)) = Len(s) - 1
         /\ <<Head(s)>> \o Tail(s) = s
<1>1. /\ Head(s) \in S /\ Tail(s) \in Seq(S) /\ Len(Tail(s)) = Len(s) - 1
      /\ \A i \in 1..Len(Tail(s)) : Tail(s)[i] = s[i + 1]
  BY HeadTailProperties
<1>2. Len(s) \in Nat /\ Len(s) > 0 /\ Head(s) = s[1]
  BY EmptySeq
<1>3. <<Head(s)>> \in Seq(S) /\ Len(<<Head(s)>>) = 1 /\ <<Head(s)>>[1] = Head(s)
  BY <1>1
<1>4. /\ <<Head(s)>> \o Tail(s) \in Seq(S)
      /\ Len(<<Head(s)>> \o Tail(s)) = Len(s)
      /\ \A i \in 1..Len(s) :
           (<<Head(s)>> \o Tail(s))[i]
             = IF i <= 1 THEN <<Head(s)>>[i] ELSE Tail(s)[i - 1]
  BY <1>1, <1>2, <1>3, ConcatProperties
<1>5. ASSUME NEW i \in 1..Len(s)
      PROVE  (<<Head(s)>> \o Tail(s))[i] = s[i]
  <2>1. CASE i = 1
    BY <2>1, <1>2, <1>3, <1>4
  <2>2. CASE i > 1
    <3>1. i - 1 \in 1..Len(Tail(s))
      BY <2>2, <1>1, <1>2
    <3> QED
      BY <2>2, <3>1, <1>1, <1>4
  <2> QED
    BY <2>1, <2>2
<1> QED
  BY <1>1, <1>2, <1>4, <1>5, SeqEqual

LEMMA Associative ==
  ASSUME NEW s \in Seq(Records), NEW t \in Seq(Records), NEW u \in Seq(Records)
  PROVE  (s \o t) \o u = s \o (t \o u)
  BY ConcatAssociative

\* A record enters at the end of three queues.
LEMMA PushBack ==
  ASSUME NEW s \in Seq(Records), NEW t \in Seq(Records), NEW p \in Seq(Records), NEW x \in Records
  PROVE  s \o t \o Append(p, x) = Append(s \o t \o p, x)
<1>1. Append(p, x) = p \o <<x>> /\ <<x>> \in Seq(Records)
  BY AppendIsConcat
<1>2. s \o t \in Seq(Records) /\ s \o t \o p \in Seq(Records)
  BY ConcatProperties
<1>3. s \o t \o (p \o <<x>>) = (s \o t \o p) \o <<x>>
  BY <1>1, <1>2, Associative
<1> QED
  BY <1>1, <1>2, <1>3, AppendIsConcat

\* A record moves from a queue to the one before it.
LEMMA MoveAcross ==
  ASSUME NEW t \in Seq(Records), NEW p \in Seq(Records), p # <<>>
  PROVE  Append(t, Head(p)) \o Tail(p) = t \o p
<1> DEFINE h == Head(p)
           u == Tail(p)
<1>1. h \in Records /\ u \in Seq(Records) /\ <<h>> \o u = p
  BY ConsTail
<1> HIDE DEF h, u
<1>2. <<h>> \in Seq(Records) /\ Append(t, h) = t \o <<h>>
  BY <1>1, AppendIsConcat
<1>3. (t \o <<h>>) \o u = t \o (<<h>> \o u)
  BY <1>1, <1>2, Associative
<1> QED
  BY <1>1, <1>2, <1>3 DEF h, u

LEMMA MoveToMiddle ==
  ASSUME NEW s \in Seq(Records), NEW t \in Seq(Records), NEW p \in Seq(Records), p # <<>>
  PROVE  s \o Append(t, Head(p)) \o Tail(p) = s \o t \o p
<1> DEFINE x == Append(t, Head(p))
           v == Tail(p)
<1>1. x \in Seq(Records) /\ v \in Seq(Records)
  BY ConsTail, AppendProperties
<1>2. x \o v = t \o p
  BY MoveAcross
<1> HIDE DEF x, v
<1>3. (s \o x) \o v = s \o (x \o v)
  BY <1>1, Associative
<1>4. (s \o t) \o p = s \o (t \o p)
  BY Associative
<1>5. (s \o x) \o v = (s \o t) \o p
  BY <1>2, <1>3, <1>4
<1> QED
  BY <1>5 DEF x, v

\* A record moves from the middle queue to the first one.
LEMMA MoveToFront ==
  ASSUME NEW s \in Seq(Records), NEW t \in Seq(Records), NEW p \in Seq(Records), t # <<>>
  PROVE  Append(s, Head(t)) \o Tail(t) \o p = s \o t \o p
<1> DEFINE h == <<Head(t)>>
<1>1. Head(t) \in Records /\ Tail(t) \in Seq(Records) /\ h \o Tail(t) = t
  BY ConsTail
<1>2. h \in Seq(Records) /\ Append(s, Head(t)) = s \o h
  BY <1>1, AppendIsConcat
<1> HIDE DEF h
<1>3. (s \o h) \o Tail(t) = s \o (h \o Tail(t))
  BY <1>1, <1>2, Associative
<1> QED
  BY <1>1, <1>2, <1>3

\* The middle queue is a contiguous part of the whole.
LEMMA Middle ==
  ASSUME NEW S, NEW s \in Seq(S), NEW t \in Seq(S), NEW p \in Seq(S)
  PROVE  /\ Len(s) \in Nat /\ Len(t) \in Nat /\ Len(p) \in Nat
         /\ Len(s \o t \o p) = Len(s) + Len(t) + Len(p)
         /\ SubSeq(s \o t \o p, Len(s) + 1, Len(s) + Len(t)) = t
<1> DEFINE w == s \o t \o p
           a == Len(s)
           b == Len(s) + Len(t)
<1>1. Len(s) \in Nat /\ Len(t) \in Nat /\ Len(p) \in Nat
  BY LenProperties
<1>2. /\ s \o t \in Seq(S) /\ Len(s \o t) = b
      /\ \A i \in 1..b : (s \o t)[i] = IF i <= Len(s) THEN s[i] ELSE t[i - Len(s)]
  BY ConcatProperties
<1>3. /\ w \in Seq(S) /\ Len(w) = b + Len(p)
      /\ \A i \in 1..(b + Len(p)) : w[i] = IF i <= b THEN (s \o t)[i] ELSE p[i - b]
  BY <1>2, ConcatProperties
<1>4. \A i \in 1..Len(w) : w[i] \in S
  BY <1>3, ElementOfSeq
<1>5. \A i \in (a + 1)..b : w[i] \in S
  BY <1>1, <1>3, <1>4
<1>6. /\ SubSeq(w, a + 1, b) \in Seq(S)
      /\ Len(SubSeq(w, a + 1, b)) = IF a + 1 <= b THEN b - (a + 1) + 1 ELSE 0
      /\ \A i \in 1..(b - (a + 1) + 1) : SubSeq(w, a + 1, b)[i] = w[(a + 1) + i - 1]
  BY <1>1, <1>5, SubSeqProperties
<1> HIDE DEF w
<1>7. Len(SubSeq(w, a + 1, b)) = Len(t)
  BY <1>1, <1>6
<1>8. ASSUME NEW i \in 1..Len(t)
      PROVE  SubSeq(w, a + 1, b)[i] = t[i]
  <2>1. i \in 1..(b - (a + 1) + 1) /\ (a + 1) + i - 1 = a + i
    BY <1>1
  <2>2. a + i \in 1..b /\ a + i \in 1..(b + Len(p)) /\ ~ (a + i <= Len(s)) /\ a + i - Len(s) = i
    BY <1>1
  <2>3. SubSeq(w, a + 1, b)[i] = w[a + i]
    BY <2>1, <1>6
  <2>4. w[a + i] = (s \o t)[a + i] /\ (s \o t)[a + i] = t[i]
    BY <2>2, <1>2, <1>3
  <2> QED
    BY <2>3, <2>4
<1>9. SubSeq(w, a + 1, b) = t
  BY <1>6, <1>7, <1>8, SeqEqual
<1> QED
  BY <1>1, <1>3, <1>9 DEF w

LEMMA MiddleIsSubSeq ==
  ASSUME NEW S, NEW s \in Seq(S), NEW t \in Seq(S), NEW p \in Seq(S)
  PROVE  t \in SubSeqs(s \o t \o p)
<1> DEFINE w == s \o t \o p
<1>1. /\ Len(s) \in Nat /\ Len(t) \in Nat /\ Len(p) \in Nat
      /\ Len(w) = Len(s) + Len(t) + Len(p)
      /\ SubSeq(w, Len(s) + 1, Len(s) + Len(t)) = t
  BY Middle
<1> HIDE DEF w
<1>2. Len(s) \in 0..Len(w) /\ Len(s) + Len(t) \in 0..Len(w)
  BY <1>1
<1>3. \E i, j \in 0..Len(w) : t = SubSeq(w, i + 1, j)
  BY <1>1, <1>2
<1>4. t \in SubSeqs(w)
  BY <1>3 DEF SubSeqs
<1> QED
  BY <1>4 DEF w

LEMMA SubSeqsType ==
  ASSUME NEW S, NEW w \in Seq(S), NEW g \in SubSeqs(w)
  PROVE  g \in Seq(S)
<1>1. PICK i \in 0..Len(w), j \in 0..Len(w) : g = SubSeq(w, i + 1, j)
  BY DEF SubSeqs
<1>2. Len(w) \in Nat /\ \A k \in 1..Len(w) : w[k] \in S
  BY LenProperties, ElementOfSeq
<1>3. i + 1 \in Int /\ j \in Int /\ \A k \in (i + 1)..j : w[k] \in S
  BY <1>2
<1> QED
  BY <1>1, <1>3, SubSeqProperties

\* A new element at the end of a sequence without repetitions.
LEMMA AppendNew ==
  ASSUME NEW S, NEW s \in Seq(S), NEW x \in S
  PROVE  /\ ToSet(Append(s, x)) = ToSet(s) \union {x}
         /\ IsInjective(s) /\ x \notin ToSet(s) => IsInjective(Append(s, x))
<1> DEFINE s2 == Append(s, x)
<1>1. /\ Len(s) \in Nat /\ DOMAIN s = 1..Len(s) /\ DOMAIN s2 = 1..(Len(s) + 1)
      /\ \A i \in 1..Len(s) : s2[i] = s[i]
      /\ s2[Len(s) + 1] = x
  BY AppendProperties, LenProperties
<1> HIDE DEF s2
<1>2. \A i : i \in 1..(Len(s) + 1) <=> i \in 1..Len(s) \/ i = Len(s) + 1
  BY <1>1
<1>3. ToSet(s2) = ToSet(s) \union {x}
  <2>1. ASSUME NEW y \in ToSet(s2) PROVE y \in ToSet(s) \union {x}
    BY <1>1, <1>2 DEF ToSet
  <2>2. ASSUME NEW y \in ToSet(s) PROVE y \in ToSet(s2)
    BY <1>1, <1>2 DEF ToSet
  <2>3. x \in ToSet(s2)
    BY <1>1, <1>2 DEF ToSet
  <2> QED
    BY <2>1, <2>2, <2>3
<1>4. ASSUME IsInjective(s), x \notin ToSet(s)
      PROVE  IsInjective(s2)
  <2>1. \A i \in 1..Len(s) : s[i] # x
    BY <1>1, <1>4 DEF ToSet
  <2>2. \A i, j \in 1..Len(s) : s[i] = s[j] => i = j
    BY <1>1, <1>4 DEF IsInjective
  <2>3. ASSUME NEW i \in 1..(Len(s) + 1), NEW j \in 1..(Len(s) + 1), s2[i] = s2[j]
        PROVE  i = j
    BY <1>1, <1>2, <2>1, <2>2, <2>3
  <2> QED
    BY <1>1, <2>3 DEF IsInjective
<1> QED
  BY <1>3, <1>4 DEF s2

-----------------------------------------------------------------------------
(* The order of the records.                                               *)

\* What was received, the channel and the rest of the ring make up what was
\* written; once main is gone, a block is missing between the two ends.
InOrder(open, d, c, p, w) ==
  IF open THEN w = d \o c \o p ELSE \E gone \in SubSeqs(w) : w = d \o gone \o p

LEMMA OrderForm ==
  /\ AcceptedInOrder <=> (sameLayout => InOrder(rxOpen, delivered, channel, Pending, written))
  /\ AcceptedInOrder' <=>
       (sameLayout' => InOrder(rxOpen', delivered', channel', Pending', written'))
  BY DEF AcceptedInOrder, InOrder

\* A block that is missing is a sequence of records, and any will do.
LEMMA MissingBlock ==
  ASSUME NEW d \in Seq(Records), NEW p \in Seq(Records), NEW w \in Seq(Records),
         NEW c
  PROVE  InOrder(FALSE, d, c, p, w) <=> \E gone \in Seq(Records) : w = d \o gone \o p
<1>1. ASSUME NEW gone \in SubSeqs(w), w = d \o gone \o p
      PROVE  \E g \in Seq(Records) : w = d \o g \o p
  BY <1>1, SubSeqsType
<1>2. ASSUME NEW gone \in Seq(Records), w = d \o gone \o p
      PROVE  \E g \in SubSeqs(w) : w = d \o g \o p
  BY <1>2, MiddleIsSubSeq
<1> QED
  BY <1>1, <1>2 DEF InOrder

LEMMA OrderPush ==
  ASSUME NEW open \in BOOLEAN,
         NEW d \in Seq(Records), NEW c \in Seq(Records), NEW p \in Seq(Records),
         NEW w \in Seq(Records), NEW x \in Records,
         InOrder(open, d, c, p, w)
  PROVE  InOrder(open, d, c, Append(p, x), Append(w, x))
<1> DEFINE p2 == Append(p, x)
           w2 == Append(w, x)
<1>0. ASSUME NEW g \in Seq(Records), w = d \o g \o p
      PROVE  w2 = d \o g \o p2
  <2>1. d \o g \o Append(p, x) = Append(d \o g \o p, x)
    BY PushBack
  <2> QED
    BY <1>0, <2>1
<1>1. CASE open
  BY <1>0, <1>1 DEF InOrder
<1>2. CASE ~ open
  <2>1. p2 \in Seq(Records) /\ w2 \in Seq(Records)
    BY AppendProperties
  <2>2. PICK gone \in Seq(Records) : w = d \o gone \o p
    BY <1>2, MissingBlock DEF InOrder
  <2>3. w2 = d \o gone \o p2
    BY <1>0, <2>2
  <2> HIDE DEF p2, w2
  <2>4. \E g \in Seq(Records) : w2 = d \o g \o p2
    BY <2>3
  <2>5. InOrder(FALSE, d, c, p2, w2)
    BY <2>1, <2>4, MissingBlock
  <2> QED
    BY <1>2, <2>5 DEF InOrder, p2, w2
<1> QED
  BY <1>1, <1>2

LEMMA OrderLoseFront ==
  ASSUME NEW d \in Seq(Records), NEW c, NEW p \in Seq(Records),
         NEW w \in Seq(Records), p # <<>>, InOrder(FALSE, d, c, p, w)
  PROVE  InOrder(FALSE, d, c, Tail(p), w)
<1>1. PICK gone \in Seq(Records) : w = d \o gone \o p
  BY MissingBlock
<1>2. Head(p) \in Records /\ Tail(p) \in Seq(Records)
  BY ConsTail
<1>3. Append(gone, Head(p)) \in Seq(Records)
  BY <1>2, AppendProperties
<1>4. d \o Append(gone, Head(p)) \o Tail(p) = d \o gone \o p
  BY MoveToMiddle
<1>5. \E g \in Seq(Records) : w = d \o g \o Tail(p)
  BY <1>1, <1>3, <1>4
<1> QED
  BY <1>2, <1>5, MissingBlock

-----------------------------------------------------------------------------
(* The accounting of the records.                                          *)

\* Of n timestamps each is in the hand f of one CPU, written or turned away.
Accounting(n, f, w, d) ==
  /\ \A x : x \in 1..n <=> \/ x \in ToSet(w) \/ x \in d
                           \/ x # NoRecord /\ \E c \in Cpus : f[c] = x
  /\ IsInjective(w)
  /\ \A x \in d : x \notin ToSet(w)
  /\ \A c \in Cpus : f[c] # NoRecord => f[c] \notin ToSet(w) /\ f[c] \notin d
  /\ \A c, e \in Cpus : c # e /\ f[c] # NoRecord => f[c] # f[e]

HeldBy(f) == UNION {IF f[c] = NoRecord THEN {} ELSE {f[c]} : c \in Cpus}

LEMMA Held ==
  ASSUME NEW f, NEW x
  PROVE  x \in HeldBy(f) <=> x # NoRecord /\ \E c \in Cpus : f[c] = x
  BY DEF HeldBy

LEMMA AccountingForm ==
  ASSUME NEW n, NEW f, NEW w, NEW d
  PROVE  Accounting(n, f, w, d) <=>
           /\ 1..n = ToSet(w) \union d \union HeldBy(f)
           /\ IsInjective(w)
           /\ ToSet(w) \intersect d = {}
           /\ \A c \in Cpus : (IF f[c] = NoRecord THEN {} ELSE {f[c]})
                               \intersect (ToSet(w) \union d) = {}
           /\ \A c, e \in Cpus : c # e /\ f[c] # NoRecord => f[c] # f[e]
  BY Held DEF Accounting

LEMMA AccountingOfState ==
  /\ EveryRecordAccounted /\ ScratchDistinct <=> Accounting(now, scratch, written, dropped)
  /\ EveryRecordAccounted' /\ ScratchDistinct'
       <=> Accounting(now', scratch', written', dropped')
<1>1. EveryRecordAccounted /\ ScratchDistinct <=> Accounting(now, scratch, written, dropped)
  BY AccountingForm DEF EveryRecordAccounted, ScratchDistinct, InFlight, HeldBy
<1>2. EveryRecordAccounted' /\ ScratchDistinct'
        <=> Accounting(now', scratch', written', dropped')
  BY AccountingForm DEF EveryRecordAccounted, ScratchDistinct, InFlight, HeldBy
<1> QED
  BY <1>1, <1>2

LEMMA AccountStamp ==
  ASSUME NEW n \in Nat, NEW f \in [Cpus -> Nat], NEW w, NEW d,
         NEW cpu \in Cpus, f[cpu] = NoRecord, Accounting(n, f, w, d)
  PROVE  Accounting(n + 1, [f EXCEPT ![cpu] = n + 1], w, d)
<1> DEFINE f2 == [f EXCEPT ![cpu] = n + 1]
<1>1. \A c \in Cpus : f2[c] = IF c = cpu THEN n + 1 ELSE f[c]
  OBVIOUS
<1>2. \A x : x \in 1..(n + 1) <=> x \in 1..n \/ x = n + 1
  OBVIOUS
<1>3. n + 1 \notin 1..n /\ n + 1 # NoRecord
  BY DEF NoRecord
<1>4. /\ n + 1 \notin ToSet(w) /\ n + 1 \notin d
      /\ \A c \in Cpus : f[c] # n + 1
  BY <1>3 DEF Accounting
<1> HIDE DEF f2
<1>5. \A x : x \in 1..(n + 1) <=>
               x \in ToSet(w) \/ x \in d \/ (x # NoRecord /\ \E c \in Cpus : f2[c] = x)
  <2>1. ASSUME NEW x, x \in 1..(n + 1)
        PROVE  x \in ToSet(w) \/ x \in d \/ (x # NoRecord /\ \E c \in Cpus : f2[c] = x)
    <3>1. CASE x = n + 1
      BY <3>1, <1>1, <1>3
    <3>2. CASE x \in 1..n
      <4>1. x \in ToSet(w) \/ x \in d \/ (x # NoRecord /\ \E c \in Cpus : f[c] = x)
        BY <3>2 DEF Accounting
      <4>2. ASSUME NEW c \in Cpus, f[c] = x, x # NoRecord
            PROVE  f2[c] = x
        BY <4>2, <1>1
      <4> QED
        BY <4>1, <4>2
    <3> QED
      BY <2>1, <3>1, <3>2, <1>2
  <2>2. ASSUME NEW x,
               x \in ToSet(w) \/ x \in d \/ (x # NoRecord /\ \E c \in Cpus : f2[c] = x)
        PROVE  x \in 1..(n + 1)
    <3>1. CASE x \in ToSet(w) \/ x \in d
      BY <3>1, <1>2 DEF Accounting
    <3>2. ASSUME NEW c \in Cpus, f2[c] = x, x # NoRecord
          PROVE  x \in 1..(n + 1)
      BY <3>2, <1>1, <1>2 DEF Accounting
    <3> QED
      BY <2>2, <3>1, <3>2
  <2> QED
    BY <2>1, <2>2
<1>6. \A c \in Cpus : f2[c] # NoRecord => f2[c] \notin ToSet(w) /\ f2[c] \notin d
  BY <1>1, <1>4 DEF Accounting
<1>7. \A c, e \in Cpus : c # e /\ f2[c] # NoRecord => f2[c] # f2[e]
  BY <1>1, <1>4 DEF Accounting
<1>8. Accounting(n + 1, f2, w, d)
  BY <1>5, <1>6, <1>7 DEF Accounting
<1> QED
  BY <1>8 DEF f2

\* The record a CPU has in hand is written, or turned away.
LEMMA AccountOutput ==
  ASSUME NEW n \in Nat, NEW f \in [Cpus -> Nat], NEW w \in Seq(Records), NEW d,
         NEW cpu \in Cpus, f[cpu] # NoRecord, Accounting(n, f, w, d)
  PROVE  /\ Accounting(n, [f EXCEPT ![cpu] = NoRecord], Append(w, f[cpu]), d)
         /\ Accounting(n, [f EXCEPT ![cpu] = NoRecord], w, d \union {f[cpu]})
<1> DEFINE f2 == [f EXCEPT ![cpu] = NoRecord]
           y == f[cpu]
           w2 == Append(w, y)
<1>1. /\ \A c \in Cpus : f2[c] = IF c = cpu THEN NoRecord ELSE f[c]
      /\ y # NoRecord /\ y \notin ToSet(w) /\ y \notin d
      /\ \A c \in Cpus : c # cpu => f[c] # y
  BY DEF Accounting, NoRecord
<1>2. y \in Records
  BY DEF Records
<1>3. ToSet(w2) = ToSet(w) \union {y} /\ IsInjective(w2)
  BY <1>1, <1>2, AppendNew DEF Accounting
<1> HIDE DEF f2, w2
<1>4. \A x : (x # NoRecord /\ \E c \in Cpus : f[c] = x)
              <=> (x # NoRecord /\ \E c \in Cpus : f2[c] = x) \/ x = y
  BY <1>1
<1> HIDE DEF y
<1>5. \A c, e \in Cpus : c # e /\ f2[c] # NoRecord => f2[c] # f2[e]
  BY <1>1 DEF Accounting
<1>6. \A c \in Cpus : f2[c] # NoRecord =>
        /\ f2[c] \notin ToSet(w) /\ f2[c] \notin d /\ f2[c] # y
  BY <1>1 DEF Accounting
<1>7. Accounting(n, f2, w2, d)
  BY <1>1, <1>3, <1>4, <1>5, <1>6 DEF Accounting
<1>8. Accounting(n, f2, w, d \union {y})
  BY <1>1, <1>4, <1>5, <1>6 DEF Accounting
<1> QED
  BY <1>7, <1>8 DEF f2, w2, y
-----------------------------------------------------------------------------
(* The steps.                                                              *)

LEMMA PendingType ==
  ASSUME TypeOK, Capacities
  PROVE  Pending \in Seq(Records)
<1>1. CASE consumer = "sent"
  BY <1>1, ConsTail DEF TypeOK, Capacities, Pending
<1>2. CASE consumer # "sent"
  BY <1>2 DEF TypeOK, Pending
<1> QED
  BY <1>1, <1>2

\* An output appends to the part of the ring that is not in the channel.
LEMMA PendingPush ==
  ASSUME TypeOK, Capacities, NEW x \in Records,
         ring' = Append(ring, x), consumer' = consumer
  PROVE  Pending' = Append(Pending, x)
<1>1. CASE consumer = "sent"
  <2>1. ring \in Seq(Records) /\ ring # <<>>
    BY <1>1 DEF TypeOK, Capacities
  <2>2. Tail(Append(ring, x)) = Append(Tail(ring), x)
    BY <2>1, HeadTailAppend
  <2> QED
    BY <1>1, <2>2 DEF Pending
<1>2. CASE consumer # "sent"
  BY <1>2 DEF Pending
<1> QED
  BY <1>1, <1>2

LEMMA TypeStep ==
  ASSUME TypeOK, Capacities, [Next]_vars
  PROVE  TypeOK'
<1> USE DEF TypeOK
<1>1. ASSUME NEW cpu \in Cpus, Stamp(cpu) PROVE TypeOK'
  BY <1>1 DEF Stamp
<1>2. ASSUME NEW cpu \in Cpus, Output(cpu) PROVE TypeOK'
  <2>1. scratch[cpu] \in Records /\ scratch' \in [Cpus -> Nat]
    BY <1>2 DEF Output, Records, NoRecord
  <2>2. /\ Append(ring, scratch[cpu]) \in Seq(Records)
        /\ Append(written, scratch[cpu]) \in Seq(Records)
    BY <2>1, AppendProperties
  <2> QED
    BY <1>2, <2>1, <2>2 DEF Output
<1>3. ASSUME Start \/ Parse \/ Sleep \/ Wake PROVE TypeOK'
  BY <1>3 DEF Start, Parse, Sleep, Wake, ConsumerFrame, ConsumerStates
<1>4. ASSUME Reject \/ SendFails \/ Release PROVE TypeOK'
  <2>1. ring # <<>>
    BY <1>4 DEF Reject, SendFails, Release, Capacities
  <2>2. Tail(ring) \in Seq(Records)
    BY <2>1, ConsTail
  <2>3. CASE Reject
    BY <2>2, <2>3 DEF Reject, ConsumerFrame
  <2>4. CASE SendFails
    BY <2>2, <2>4 DEF SendFails, ConsumerFrame, ConsumerStates
  <2>5. CASE Release
    BY <2>2, <2>5 DEF Release, ConsumerFrame, ConsumerStates
  <2> QED
    BY <1>4, <2>3, <2>4, <2>5
<1>5. ASSUME Send PROVE TypeOK'
  <2>1. ring # <<>>
    BY <1>5 DEF Send, Capacities
  <2>2. Append(channel, Head(ring)) \in Seq(Records)
    BY <2>1, ConsTail, AppendProperties
  <2> QED
    BY <1>5, <2>2 DEF Send, ConsumerFrame, ConsumerStates
<1>6. ASSUME Recv PROVE TypeOK'
  <2>1. /\ Tail(channel) \in Seq(Records)
        /\ Append(delivered, Head(channel)) \in Seq(Records)
    BY <1>6, ConsTail, AppendProperties DEF Recv
  <2> QED
    BY <1>6, <2>1 DEF Recv
<1>7. ASSUME CloseRx \/ Detach PROVE TypeOK'
  <2>1. <<>> \in Seq(Records)
    BY EmptySeq
  <2> QED
    BY <1>7, <2>1 DEF CloseRx, Detach
<1>8. ASSUME UNCHANGED vars PROVE TypeOK'
  BY <1>8 DEF vars
<1> QED
  BY <1>1, <1>2, <1>3, <1>4, <1>5, <1>6, <1>7, <1>8 DEF Next, Consume

LEMMA CapacitiesStep ==
  ASSUME TypeOK, Capacities, [Next]_vars
  PROVE  Capacities'
<1>0. /\ RingCap \in Nat \ {0} /\ ChannelCap \in Nat \ {0}
      /\ ring \in Seq(Records) /\ channel \in Seq(Records)
      /\ Len(ring) \in Nat /\ Len(channel) \in Nat
  BY CapacityAssumption, LenProperties DEF TypeOK
<1>1. ASSUME NEW cpu \in Cpus, Stamp(cpu) PROVE Capacities'
  BY <1>1 DEF Stamp, Capacities
<1>2. ASSUME NEW cpu \in Cpus, Output(cpu) PROVE Capacities'
  <2>1. CASE UNCHANGED ring
    BY <1>2, <2>1 DEF Output, Capacities
  <2>2. CASE Len(ring) < RingCap /\ ring' = Append(ring, scratch[cpu])
    <3>1. scratch[cpu] \in Records
      BY <1>2 DEF TypeOK, Output, Records, NoRecord
    <3>2. Len(ring') = Len(ring) + 1 /\ ring' # <<>>
      BY <2>2, <3>1, <1>0, AppendProperties
    <3> QED
      BY <1>0, <1>2, <2>2, <3>2 DEF Output, Capacities
  <2> QED
    BY <1>2, <2>1, <2>2 DEF Output
<1>3. ASSUME Start \/ Parse \/ Sleep \/ Wake PROVE Capacities'
  BY <1>3 DEF Start, Parse, Sleep, Wake, ConsumerFrame, Capacities
<1>4. ASSUME Reject \/ SendFails \/ Release PROVE Capacities'
  <2>1. ring # <<>>
    BY <1>4 DEF Reject, SendFails, Release, Capacities
  <2>2. Len(Tail(ring)) = Len(ring) - 1
    BY <1>0, <2>1, ConsTail
  <2> QED
    BY <1>0, <1>4, <2>2 DEF Reject, SendFails, Release, ConsumerFrame, Capacities
<1>5. ASSUME Send PROVE Capacities'
  <2>1. ring # <<>>
    BY <1>5 DEF Send, Capacities
  <2>2. Len(Append(channel, Head(ring))) = Len(channel) + 1
    BY <1>0, <2>1, ConsTail, AppendProperties
  <2> QED
    BY <1>0, <1>5, <2>1, <2>2 DEF Send, ConsumerFrame, Capacities
<1>6. ASSUME Recv PROVE Capacities'
  <2>1. Len(Tail(channel)) = Len(channel) - 1
    BY <1>0, <1>6, ConsTail DEF Recv
  <2> QED
    BY <1>0, <1>6, <2>1 DEF Recv, Capacities
<1>7. ASSUME CloseRx \/ Detach PROVE Capacities'
  <2>1. Len(<<>>) = 0
    OBVIOUS
  <2> QED
    BY <1>0, <1>7, <2>1 DEF CloseRx, Detach, Capacities
<1>8. ASSUME UNCHANGED vars PROVE Capacities'
  BY <1>8 DEF vars, Capacities
<1> QED
  BY <1>1, <1>2, <1>3, <1>4, <1>5, <1>6, <1>7, <1>8 DEF Next, Consume

\* Only an output changes what is written and in hand, only a stamp the clock.
LEMMA Kernel ==
  ASSUME [Next]_vars
  PROVE  \/ \E cpu \in Cpus : Stamp(cpu) \/ Output(cpu)
         \/ UNCHANGED kernelVars
<1>1. ASSUME Consume PROVE UNCHANGED kernelVars
  BY <1>1 DEF Consume, Start, Parse, Reject, Send, SendFails, Release, Sleep, Wake,
              ConsumerFrame, kernelVars
<1>2. ASSUME Recv \/ CloseRx \/ Detach PROVE UNCHANGED kernelVars
  BY <1>2 DEF Recv, CloseRx, Detach, kernelVars
<1> QED
  BY <1>1, <1>2 DEF Next, vars, kernelVars

LEMMA AccountedStep ==
  ASSUME TypeOK, Accounting(now, scratch, written, dropped), [Next]_vars
  PROVE  Accounting(now', scratch', written', dropped')
<1>0. now \in Nat /\ scratch \in [Cpus -> Nat] /\ written \in Seq(Records)
  BY DEF TypeOK
<1>1. ASSUME NEW cpu \in Cpus, Stamp(cpu)
      PROVE  Accounting(now', scratch', written', dropped')
  <2>1. /\ now' = now + 1 /\ scratch' = [scratch EXCEPT ![cpu] = now + 1]
        /\ written' = written /\ dropped' = dropped /\ scratch[cpu] = NoRecord
    BY <1>1 DEF Stamp
  <2> QED
    BY <1>0, <2>1, AccountStamp
<1>2. ASSUME NEW cpu \in Cpus, Output(cpu)
      PROVE  Accounting(now', scratch', written', dropped')
  <2>1. /\ scratch[cpu] # NoRecord
        /\ now' = now /\ scratch' = [scratch EXCEPT ![cpu] = NoRecord]
        /\ \/ written' = Append(written, scratch[cpu]) /\ dropped' = dropped
           \/ written' = written /\ dropped' = dropped \union {scratch[cpu]}
    BY <1>2 DEF Output
  <2>2. /\ Accounting(now, [scratch EXCEPT ![cpu] = NoRecord],
                      Append(written, scratch[cpu]), dropped)
        /\ Accounting(now, [scratch EXCEPT ![cpu] = NoRecord],
                      written, dropped \union {scratch[cpu]})
    BY <1>0, <2>1, AccountOutput
  <2> QED
    BY <2>1, <2>2
<1>3. ASSUME UNCHANGED kernelVars
      PROVE  Accounting(now', scratch', written', dropped')
  BY <1>3 DEF kernelVars
<1> QED
  BY <1>1, <1>2, <1>3, Kernel

LEMMA OrderStep ==
  ASSUME TypeOK, Capacities, AcceptedInOrder, [Next]_vars
  PROVE  AcceptedInOrder'
<1>0. /\ written \in Seq(Records) /\ delivered \in Seq(Records)
      /\ channel \in Seq(Records) /\ ring \in Seq(Records)
      /\ Pending \in Seq(Records)
      /\ rxOpen \in BOOLEAN /\ sameLayout \in BOOLEAN
  BY PendingType DEF TypeOK
<1> SUFFICES ASSUME sameLayout, sameLayout'
             PROVE  InOrder(rxOpen', delivered', channel', Pending', written')
  <2>1. sameLayout' = sameLayout
    BY DEF Next, Stamp, Output, Consume, Start, Parse, Reject, Send, SendFails, Release,
           Sleep, Wake, ConsumerFrame, Recv, CloseRx, Detach, vars
  <2> QED
    BY <2>1, OrderForm
<1> DEFINE Goal == InOrder(rxOpen', delivered', channel', Pending', written')
<1>1. InOrder(rxOpen, delivered, channel, Pending, written)
  BY OrderForm
<1>2. ASSUME NEW cpu \in Cpus, Output(cpu), ring' = Append(ring, scratch[cpu]),
             written' = Append(written, scratch[cpu])
      PROVE  Goal
  <2>1. scratch[cpu] \in Records
    BY <1>2 DEF TypeOK, Output, Records, NoRecord
  <2>2. /\ rxOpen' = rxOpen /\ delivered' = delivered /\ channel' = channel
        /\ consumer' = consumer
    BY <1>2 DEF Output
  <2>3. Pending' = Append(Pending, scratch[cpu])
    BY <1>2, <2>1, <2>2, PendingPush
  <2> QED
    BY <1>0, <1>1, <1>2, <2>1, <2>2, <2>3, OrderPush
<1>3. ASSUME UNCHANGED <<rxOpen, delivered, channel, Pending, written>>
      PROVE  Goal
  BY <1>1, <1>3
<1>4. ASSUME Send PROVE Goal
  <2>1. /\ Pending = ring /\ Pending' = Tail(ring) /\ ring # <<>>
        /\ rxOpen /\ rxOpen' = rxOpen /\ channel' = Append(channel, Head(ring))
        /\ delivered' = delivered /\ written' = written
    BY <1>4 DEF Send, ConsumerFrame, Pending, Capacities
  <2>2. delivered \o Append(channel, Head(ring)) \o Tail(ring) = delivered \o channel \o ring
    BY <1>0, <2>1, MoveToMiddle
  <2> QED
    BY <1>1, <2>1, <2>2 DEF InOrder
<1>5. ASSUME SendFails PROVE Goal
  <2>1. /\ Pending = ring /\ Pending' = Tail(ring) /\ ring # <<>>
        /\ rxOpen = FALSE /\ rxOpen' = rxOpen
        /\ delivered' = delivered /\ written' = written
    BY <1>0, <1>5 DEF SendFails, ConsumerFrame, Pending, Capacities
  <2>2. InOrder(FALSE, delivered, channel, Tail(ring), written)
    BY <1>0, <1>1, <2>1, OrderLoseFront
  <2> QED
    BY <2>1, <2>2 DEF InOrder
<1>6. ASSUME Recv PROVE Goal
  <2>1. /\ rxOpen /\ rxOpen' = rxOpen /\ channel # <<>>
        /\ delivered' = Append(delivered, Head(channel)) /\ channel' = Tail(channel)
        /\ written' = written /\ Pending' = Pending
    BY <1>6 DEF Recv, Pending
  <2>2. Append(delivered, Head(channel)) \o Tail(channel) \o Pending
          = delivered \o channel \o Pending
    BY <1>0, <2>1, MoveToFront
  <2> QED
    BY <1>1, <2>1, <2>2 DEF InOrder
<1>7. ASSUME CloseRx PROVE Goal
  <2>1. /\ rxOpen /\ rxOpen' = FALSE /\ delivered' = delivered
        /\ written' = written /\ Pending' = Pending
    BY <1>7 DEF CloseRx, Pending
  <2>2. \E gone \in Seq(Records) : written = delivered \o gone \o Pending
    BY <1>0, <1>1, <2>1 DEF InOrder
  <2>3. InOrder(FALSE, delivered, channel', Pending, written)
    BY <1>0, <2>2, MissingBlock
  <2> QED
    BY <2>1, <2>3
<1> HIDE DEF Goal
<1>8. ASSUME NEW cpu \in Cpus, Stamp(cpu) \/ Output(cpu) PROVE Goal
  <2>1. \/ UNCHANGED <<rxOpen, delivered, channel, Pending, written>>
        \/ ring' = Append(ring, scratch[cpu]) /\ written' = Append(written, scratch[cpu])
    BY <1>8 DEF Stamp, Output, Pending
  <2> QED
    BY <1>2, <1>3, <1>8, <2>1 DEF Stamp
<1>9. ASSUME Start \/ Parse \/ Release \/ Sleep \/ Wake PROVE Goal
  <2>1. UNCHANGED <<rxOpen, delivered, channel, Pending, written>>
    BY <1>9 DEF Start, Parse, Release, Sleep, Wake, ConsumerFrame, Pending
  <2> QED
    BY <1>3, <2>1
<1>10. ASSUME Reject PROVE Goal
  BY <1>10 DEF Reject
<1>11. ASSUME Detach \/ UNCHANGED vars PROVE Goal
  <2>1. UNCHANGED <<rxOpen, delivered, channel, Pending, written>>
    BY <1>11 DEF Detach, vars, Pending
  <2> QED
    BY <1>3, <2>1
<1>12. Goal
  BY <1>4, <1>5, <1>6, <1>7, <1>8, <1>9, <1>10, <1>11 DEF Next, Consume
<1> QED
  BY <1>12 DEF Goal

LEMMA UnreadableStep ==
  ASSUME TypeOK, Capacities, UnreadableCounted, ReadableInHand, [Next]_vars
  PROVE  UnreadableCounted' /\ ReadableInHand'
<1>1. sameLayout' = sameLayout
  BY DEF Next, Stamp, Output, Consume, Start, Parse, Reject, Send, SendFails, Release,
         Sleep, Wake, ConsumerFrame, Recv, CloseRx, Detach, vars
<1> SUFFICES ASSUME ~ sameLayout
             PROVE  /\ delivered' = <<>> /\ channel' = <<>>
                    /\ Len(written') = parseErrors' + Len(ring')
                    /\ consumer' \notin {"sending", "sent"}
  BY <1>1 DEF UnreadableCounted, ReadableInHand
<1> DEFINE Goal == /\ delivered' = <<>> /\ channel' = <<>>
                   /\ Len(written') = parseErrors' + Len(ring')
                   /\ consumer' \notin {"sending", "sent"}
<1>2. /\ delivered = <<>> /\ channel = <<>>
      /\ Len(written) = parseErrors + Len(ring)
      /\ consumer \notin {"sending", "sent"}
      /\ ring \in Seq(Records) /\ written \in Seq(Records)
      /\ Len(ring) \in Nat /\ Len(written) \in Nat /\ parseErrors \in Nat
  BY LenProperties DEF UnreadableCounted, ReadableInHand, TypeOK
<1>3. ASSUME NEW cpu \in Cpus, Output(cpu), ring' = Append(ring, scratch[cpu]),
             written' = Append(written, scratch[cpu])
      PROVE  Goal
  <2>1. scratch[cpu] \in Records
    BY <1>3 DEF TypeOK, Output, Records, NoRecord
  <2>2. Len(ring') = Len(ring) + 1 /\ Len(written') = Len(written) + 1
    BY <1>2, <1>3, <2>1, AppendProperties
  <2> QED
    BY <1>2, <1>3, <2>2 DEF Output
<1>4. ASSUME NEW cpu \in Cpus, Stamp(cpu) \/ Output(cpu) PROVE Goal
  <2>1. \/ UNCHANGED <<delivered, channel, written, parseErrors, ring, consumer>>
        \/ ring' = Append(ring, scratch[cpu]) /\ written' = Append(written, scratch[cpu])
    BY <1>4 DEF Stamp, Output
  <2>2. CASE UNCHANGED <<delivered, channel, written, parseErrors, ring, consumer>>
    BY <1>2, <2>2
  <2>3. CASE ring' = Append(ring, scratch[cpu]) /\ written' = Append(written, scratch[cpu])
    <3>1. CASE Output(cpu)
      BY <1>3, <2>3, <3>1
    <3>2. CASE Stamp(cpu)
      BY <1>2, <3>2 DEF Stamp
    <3> QED
      BY <1>4, <3>1, <3>2
  <2> QED
    BY <2>1, <2>2, <2>3
<1>5. ASSUME Reject PROVE Goal
  <2>1. ring # <<>> /\ ring' = Tail(ring) /\ parseErrors' = parseErrors + 1
    BY <1>5 DEF Reject
  <2>2. Len(Tail(ring)) = Len(ring) - 1
    BY <1>2, <2>1, ConsTail
  <2> QED
    BY <1>2, <1>5, <2>1, <2>2 DEF Reject, ConsumerFrame
<1>6. ASSUME Start \/ Sleep \/ Wake PROVE Goal
  BY <1>2, <1>6 DEF Start, Sleep, Wake, ConsumerFrame
<1>7. ~ (Parse \/ Send \/ SendFails \/ Release \/ Recv)
  BY <1>2 DEF Parse, Send, SendFails, Release, Recv
<1>8. ASSUME CloseRx \/ Detach \/ UNCHANGED vars PROVE Goal
  BY <1>2, <1>8 DEF CloseRx, Detach, vars
<1> HIDE DEF Goal
<1>9. Goal
  BY <1>4, <1>5, <1>6, <1>7, <1>8 DEF Next, Consume
<1> QED
  BY <1>9 DEF Goal

LEMMA ClosedStep ==
  ASSUME ClosedIsEmpty, [Next]_vars
  PROVE  ClosedIsEmpty'
<1>1. ASSUME \E cpu \in Cpus : Stamp(cpu) \/ Output(cpu) PROVE ClosedIsEmpty'
  BY <1>1 DEF Stamp, Output, ClosedIsEmpty
<1>2. ASSUME Consume PROVE ClosedIsEmpty'
  BY <1>2 DEF Consume, Start, Parse, Reject, Send, SendFails, Release, Sleep, Wake,
              ConsumerFrame, ClosedIsEmpty
<1>3. ASSUME Recv \/ CloseRx \/ Detach \/ UNCHANGED vars PROVE ClosedIsEmpty'
  BY <1>3 DEF Recv, CloseRx, Detach, vars, ClosedIsEmpty
<1> QED
  BY <1>1, <1>2, <1>3 DEF Next

LEMMA NowStep ==
  ASSUME TypeOK, now <= MaxEvents, [Next]_vars
  PROVE  now' <= MaxEvents
<1>1. ASSUME NEW cpu \in Cpus, Stamp(cpu) PROVE now' <= MaxEvents
  BY <1>1, CapacityAssumption DEF Stamp, TypeOK
<1>2. ASSUME NEW cpu \in Cpus, Output(cpu) PROVE now' <= MaxEvents
  BY <1>2 DEF Output
<1>3. ASSUME UNCHANGED kernelVars PROVE now' <= MaxEvents
  BY <1>3 DEF kernelVars
<1> QED
  BY <1>1, <1>2, <1>3, Kernel

LEMMA InitInv ==
  ASSUME Init
  PROVE  IInv
<1>1. <<>> \in Seq(Records) /\ Len(<<>>) = 0
  BY EmptySeq
<1>2. TypeOK
  BY <1>1 DEF Init, TypeOK, ConsumerStates, NoRecord
<1>3. Capacities
  BY <1>1, CapacityAssumption DEF Init, Capacities
<1>4. AcceptedInOrder
  <2>1. <<>> \o <<>> \o <<>> = <<>>
    BY <1>1, ConcatEmptySeq
  <2> QED
    BY <2>1 DEF Init, AcceptedInOrder, Pending
<1>5. Accounting(now, scratch, written, dropped)
  <2>1. /\ now = 0 /\ written = <<>> /\ dropped = {}
        /\ \A c \in Cpus : scratch[c] = NoRecord
    BY DEF Init
  <2>2. ToSet(<<>>) = {} /\ IsInjective(<<>>)
    BY DEF ToSet, IsInjective
  <2>3. \A x : x \notin 1..0
    OBVIOUS
  <2> QED
    BY <2>1, <2>2, <2>3 DEF Accounting
<1>6. UnreadableCounted /\ ReadableInHand
  BY <1>1 DEF Init, UnreadableCounted, ReadableInHand
<1>7. ClosedIsEmpty /\ now <= MaxEvents
  BY CapacityAssumption DEF Init, ClosedIsEmpty
<1> QED
  BY <1>2, <1>3, <1>4, <1>5, <1>6, <1>7, AccountingOfState DEF IInv

LEMMA StepInv ==
  ASSUME IInv, [Next]_vars
  PROVE  IInv'
<1>1. Accounting(now', scratch', written', dropped')
  BY AccountingOfState, AccountedStep DEF IInv
<1>2. TypeOK' /\ Capacities' /\ AcceptedInOrder' /\ UnreadableCounted' /\ ReadableInHand'
  BY TypeStep, CapacitiesStep, OrderStep, UnreadableStep DEF IInv
<1>3. ClosedIsEmpty' /\ now' <= MaxEvents
  BY ClosedStep, NowStep DEF IInv
<1> QED
  BY <1>1, <1>2, <1>3, AccountingOfState DEF IInv

\* The inductive invariant: order and accounting, with what they rest on.
THEOREM TransportInvariant == Spec => []IInv
<1> QED
  BY InitInv, StepInv, PTL DEF Spec

\* The ring and the channel stay within the sizes the code gives them,
\* and the consumer thread has a record in hand whenever it sends or releases one.
THEOREM TransportCapacities == Spec => []Capacities
<1>1. IInv => Capacities
  BY DEF IInv
<1> QED
  BY <1>1, TransportInvariant, PTL

\* Whatever the CPUs and the consumer thread do, the main loop receives what
\* the ring took in the order it was written, with nothing lost or repeated.
THEOREM ReceivedInOrder == Spec => []AcceptedInOrder
<1>1. IInv => AcceptedInOrder
  BY DEF IInv
<1> QED
  BY <1>1, TransportInvariant, PTL

\* Every record a probe stamped is in its CPU's scratch area, was turned away by
\* a full ring, or was written once.
THEOREM RecordsAccounted == Spec => []EveryRecordAccounted
<1>1. IInv => EveryRecordAccounted
  BY DEF IInv
<1> QED
  BY <1>1, TransportInvariant, PTL

\* A record of another layout never reaches the main loop; the consumer thread
\* counts each one.
THEOREM UnreadableNeverDelivered == Spec => []UnreadableCounted
<1>1. IInv => UnreadableCounted
  BY DEF IInv
<1> QED
  BY <1>1, TransportInvariant, PTL

-----------------------------------------------------------------------------
(* Queues made of two.                                                     *)

LEMMA PartsOfCons ==
  ASSUME NEW h \in Records, NEW u \in Seq(Records), NEW w, w = <<h>> \o u
  PROVE  w # <<>> /\ Head(w) = h /\ Tail(w) = u
<1>1. <<h>> \in Seq(Records) /\ Len(<<h>>) = 1 /\ <<h>>[1] = h
  OBVIOUS
<1>2. w \in Seq(Records) /\ Len(w) = 1 + Len(u) /\ w[1] = <<h>>[1] /\ Len(u) \in Nat
  BY <1>1, ConcatProperties, LenProperties
<1>3. w # <<>>
  BY <1>2, EmptySeq
<1>4. Head(w) = h
  BY <1>1, <1>2, <1>3
<1>5. <<h>> \o Tail(w) = w /\ Tail(w) \in Seq(Records)
  BY <1>2, <1>3, <1>4, ConsTail
<1>6. \A S : \A s, t, v \in Seq(S) : s \o t = s \o v => t = v
  BY ConcatSimplifications
<1>7. Tail(w) = u
  <2>1. <<h>> \o Tail(w) = <<h>> \o u
    BY <1>5
  <2> QED
    BY <1>1, <1>5, <1>6, <2>1
<1> QED
  BY <1>3, <1>4, <1>7

LEMMA HeadOfTwo ==
  ASSUME NEW t \in Seq(Records), NEW p \in Seq(Records), t # <<>>
  PROVE  /\ t \o p # <<>>
         /\ Head(t \o p) = Head(t)
         /\ Tail(t \o p) = Tail(t) \o p
<1> DEFINE h == Head(t)
           u == Tail(t) \o p
<1>1. h \in Records /\ Tail(t) \in Seq(Records) /\ <<h>> \o Tail(t) = t
  BY ConsTail
<1>2. u \in Seq(Records) /\ <<h>> \in Seq(Records)
  BY <1>1, ConcatProperties
<1>3. t \o p = <<h>> \o u
  BY <1>1, <1>2, Associative
<1> DEFINE w == t \o p
<1> HIDE DEF h, u, w
<1>4. w = <<h>> \o u
  BY <1>3 DEF w
<1>5. w # <<>> /\ Head(w) = h /\ Tail(w) = u
  BY <1>1, <1>2, <1>4, PartsOfCons
<1> QED
  BY <1>5 DEF h, u, w

LEMMA AppendToTwo ==
  ASSUME NEW t \in Seq(Records), NEW p \in Seq(Records), NEW x \in Records
  PROVE  t \o Append(p, x) = Append(t \o p, x)
<1>1. Append(p, x) = p \o <<x>> /\ <<x>> \in Seq(Records) /\ t \o p \in Seq(Records)
  BY AppendIsConcat, ConcatProperties
<1>2. t \o (p \o <<x>>) = (t \o p) \o <<x>>
  BY <1>1, Associative
<1> QED
  BY <1>1, <1>2, AppendIsConcat

LEMMA SecondOfTwo ==
  ASSUME NEW t \in Seq(Records), NEW p \in Seq(Records)
  PROVE  \E n \in 0..Len(t \o p) : p = SubSeq(t \o p, n + 1, Len(t \o p))
<1> DEFINE w == t \o p
<1>1. w \in Seq(Records) /\ <<>> \in Seq(Records) /\ Len(<<>>) = 0
  BY ConcatProperties, EmptySeq
<1>2. PICK v : v = w \o <<>>
  OBVIOUS
<1>3. /\ Len(t) \in Nat /\ Len(p) \in Nat /\ Len(v) = Len(t) + Len(p) + 0
      /\ SubSeq(v, Len(t) + 1, Len(t) + Len(p)) = p
  BY <1>1, <1>2, Middle
<1> HIDE DEF w
<1>4. v = w
  BY <1>1, <1>2, ConcatEmptySeq
<1>5. Len(t) \in 0..Len(w) /\ Len(w) = Len(t) + Len(p)
  BY <1>3, <1>4
<1>6. \E n \in 0..Len(w) : p = SubSeq(w, n + 1, Len(w))
  BY <1>3, <1>4, <1>5
<1> QED
  BY <1>6 DEF w

-----------------------------------------------------------------------------
(* The steps of the transport, as the queue sees them.                     *)

Queue == channel \o Pending

LEMMA QueueFacts ==
  ASSUME IInv
  PROVE  /\ Pending \in Seq(Records) /\ channel \in Seq(Records) /\ ring \in Seq(Records)
         /\ Queue \in Seq(Records)
         /\ Len(ring) \in Nat /\ Len(channel) \in Nat /\ Len(Pending) \in Nat
         /\ Len(Queue) = Len(channel) + Len(Pending)
         /\ Len(Pending) <= Len(ring) /\ Len(ring) <= Len(Pending) + 1
<1>1. /\ Pending \in Seq(Records) /\ channel \in Seq(Records) /\ ring \in Seq(Records)
  BY PendingType DEF IInv, TypeOK
<1>2. Queue \in Seq(Records) /\ Len(Queue) = Len(channel) + Len(Pending)
  BY <1>1, ConcatProperties DEF Queue
<1>3. Len(ring) \in Nat /\ Len(channel) \in Nat /\ Len(Pending) \in Nat
  BY <1>1, LenProperties
<1>4. Len(Pending) <= Len(ring) /\ Len(ring) <= Len(Pending) + 1
  <2>1. CASE consumer = "sent"
    <3>1. ring # <<>> /\ Pending = Tail(ring)
      BY <2>1 DEF IInv, Capacities, Pending
    <3>2. Len(Tail(ring)) = Len(ring) - 1
      BY <1>1, <3>1, ConsTail
    <3> QED
      BY <1>3, <3>1, <3>2
  <2>2. CASE consumer # "sent"
    BY <1>3, <2>2 DEF Pending
  <2> QED
    BY <2>1, <2>2
<1> QED
  BY <1>1, <1>2, <1>3, <1>4

\* What a CPU has in hand is a new record.
LEMMA InHand ==
  ASSUME IInv, NEW cpu \in Cpus, scratch[cpu] # NoRecord
  PROVE  /\ scratch[cpu] \in Records /\ scratch[cpu] \in 1..MaxEvents
         /\ IsFiniteSet(dropped) /\ scratch[cpu] \notin dropped
<1>1. /\ now \in Nat /\ now <= MaxEvents /\ MaxEvents \in Nat
      /\ scratch[cpu] \in Nat
  BY CapacityAssumption DEF IInv, TypeOK
<1>2. Accounting(now, scratch, written, dropped)
  BY AccountingOfState DEF IInv
<1>3. scratch[cpu] \in 1..now /\ scratch[cpu] \notin dropped
  BY <1>2 DEF Accounting
<1>4. dropped \subseteq 1..now
  BY <1>2 DEF Accounting
<1>5. IsFiniteSet(1..now)
  BY <1>1, FS_Interval
<1>6. IsFiniteSet(dropped)
  BY <1>4, <1>5, FS_Subset
<1> QED
  BY <1>1, <1>3, <1>6 DEF Records, NoRecord

LEMMA RefineOutput ==
  ASSUME IInv, NEW cpu \in Cpus, Output(cpu)
  PROVE  [Fifo!Next]_(Fifo!vars)
<1> DEFINE x == scratch[cpu]
<1>1. /\ x # NoRecord
      /\ channel' = channel /\ consumer' = consumer /\ rxOpen' = rxOpen
      /\ sameLayout' = sameLayout /\ delivered' = delivered
      /\ \/ Len(ring) < RingCap /\ ring' = Append(ring, x) /\ dropped' = dropped
         \/ Len(ring) >= RingCap /\ ring' = ring /\ dropped' = dropped \union {x}
  BY DEF Output
<1>2. /\ x \in Records /\ x \in 1..MaxEvents
      /\ IsFiniteSet(dropped) /\ x \notin dropped
  BY <1>1, InHand
<1>3. /\ RingCap \in Nat /\ ChannelCap \in Nat /\ Len(channel) <= ChannelCap
      /\ TypeOK /\ Capacities
  BY CapacityAssumption DEF IInv, Capacities
<1> HIDE DEF x
<1>4. CASE Len(ring) < RingCap /\ ring' = Append(ring, x) /\ dropped' = dropped
  <2>1. Pending' = Append(Pending, x)
    BY <1>1, <1>2, <1>3, <1>4, PendingPush
  <2>2. channel \o Append(Pending, x) = Append(Queue, x)
    BY <1>2, QueueFacts, AppendToTwo DEF Queue
  <2>3. Len(Queue) < RingCap + ChannelCap
    BY <1>3, <1>4, QueueFacts
  <2>4. Fifo!Accept(x)
    BY <1>1, <1>4, <2>1, <2>2, <2>3 DEF Fifo!Accept, Queue
  <2> QED
    BY <1>2, <2>4 DEF Fifo!Next
<1>5. CASE Len(ring) >= RingCap /\ ring' = ring /\ dropped' = dropped \union {x}
  <2>1. Cardinality(dropped \union {x}) = Cardinality(dropped) + 1
    BY <1>2, FS_AddElement
  <2>2. Len(Queue) >= RingCap - 1
    BY <1>3, <1>5, QueueFacts
  <2>3. Pending' = Pending
    BY <1>1, <1>5 DEF Pending
  <2>4. Fifo!Lose
    BY <1>1, <1>5, <2>1, <2>2, <2>3 DEF Fifo!Lose, Queue
  <2> QED
    BY <2>4 DEF Fifo!Next
<1> QED
  BY <1>1, <1>4, <1>5

LEMMA RefineConsumer ==
  ASSUME IInv, Consume
  PROVE  [Fifo!Next]_(Fifo!vars)
<1>1. rxOpen' = rxOpen /\ sameLayout' = sameLayout /\ delivered' = delivered /\ dropped' = dropped
  BY DEF Consume, Start, Parse, Reject, Send, SendFails, Release, Sleep, Wake, ConsumerFrame
<1>2. ASSUME channel' \o Pending' = channel \o Pending
      PROVE  UNCHANGED Fifo!vars
  BY <1>1, <1>2 DEF Fifo!vars
<1>3. ASSUME ~ (rxOpen /\ sameLayout), channel = <<>>, channel' = <<>>,
             Pending = ring, Pending' = Tail(ring), ring # <<>>
      PROVE  Fifo!Next
  <2>1. channel \o Pending = ring /\ channel' \o Pending' = Tail(ring)
    <3>1. ring \in Seq(Records) /\ Tail(ring) \in Seq(Records)
      BY <1>3, QueueFacts, ConsTail
    <3>2. <<>> \o ring = ring /\ <<>> \o Tail(ring) = Tail(ring)
      BY <3>1, ConcatEmptySeq
    <3> QED
      BY <1>3, <3>2
  <2>2. Fifo!Discard
    BY <1>1, <1>3, <2>1 DEF Fifo!Discard
  <2> QED
    BY <2>2 DEF Fifo!Next
<1>4. CASE Start \/ Parse \/ Release \/ Sleep \/ Wake
  <2>1. channel' = channel /\ Pending' = Pending
    BY <1>4 DEF Start, Parse, Release, Sleep, Wake, ConsumerFrame, Pending
  <2> QED
    BY <1>2, <2>1
<1>5. CASE Reject
  BY <1>3, <1>5 DEF Reject, ConsumerFrame, Pending, IInv, UnreadableCounted
<1>6. CASE Send
  <2>1. /\ Pending = ring /\ Pending' = Tail(ring) /\ ring # <<>>
        /\ channel' = Append(channel, Head(ring))
    BY <1>6 DEF Send, ConsumerFrame, Pending, IInv, Capacities
  <2>2. Append(channel, Head(ring)) \o Tail(ring) = channel \o ring
    BY <2>1, QueueFacts, MoveAcross
  <2> QED
    BY <1>2, <2>1, <2>2
<1>7. CASE SendFails
  BY <1>3, <1>7 DEF SendFails, ConsumerFrame, Pending, IInv, ClosedIsEmpty, Capacities
<1> QED
  BY <1>4, <1>5, <1>6, <1>7 DEF Consume

LEMMA RefineRecv ==
  ASSUME IInv, Recv
  PROVE  Fifo!Next
<1>1. /\ rxOpen /\ channel # <<>> /\ sameLayout \in BOOLEAN
      /\ delivered' = Append(delivered, Head(channel)) /\ channel' = Tail(channel)
      /\ Pending' = Pending
      /\ rxOpen' = rxOpen /\ sameLayout' = sameLayout /\ dropped' = dropped
  BY DEF Recv, Pending, IInv, TypeOK
<1>2. sameLayout
  BY <1>1 DEF IInv, UnreadableCounted
<1>3. /\ channel \o Pending # <<>>
      /\ Head(channel \o Pending) = Head(channel)
      /\ Tail(channel \o Pending) = Tail(channel) \o Pending
  BY <1>1, QueueFacts, HeadOfTwo
<1>4. Fifo!Deliver
  BY <1>1, <1>2, <1>3 DEF Fifo!Deliver
<1> QED
  BY <1>4 DEF Fifo!Next

LEMMA RefineCloseRx ==
  ASSUME IInv, CloseRx
  PROVE  Fifo!Next
<1>1. /\ rxOpen /\ rxOpen' = FALSE /\ channel' = <<>> /\ Pending' = Pending
      /\ sameLayout' = sameLayout /\ delivered' = delivered /\ dropped' = dropped
  BY DEF CloseRx, Pending
<1>2. Pending \in Seq(Records) /\ channel \in Seq(Records)
  BY QueueFacts
<1>3. channel' \o Pending' = Pending
  BY <1>1, <1>2, ConcatEmptySeq
<1>4. \E n \in 0..Len(channel \o Pending) :
        Pending = SubSeq(channel \o Pending, n + 1, Len(channel \o Pending))
  BY <1>2, SecondOfTwo
<1>5. Fifo!Close
  BY <1>1, <1>3, <1>4 DEF Fifo!Close
<1> QED
  BY <1>5 DEF Fifo!Next

LEMMA RefineStep ==
  ASSUME IInv, [Next]_vars
  PROVE  [Fifo!Next]_(Fifo!vars)
<1>1. ASSUME NEW cpu \in Cpus, Stamp(cpu) PROVE UNCHANGED Fifo!vars
  BY <1>1 DEF Stamp, Pending, Fifo!vars
<1>2. ASSUME Detach \/ UNCHANGED vars PROVE UNCHANGED Fifo!vars
  BY <1>2 DEF Detach, vars, Pending, Fifo!vars
<1> QED
  BY <1>1, <1>2, RefineOutput, RefineConsumer, RefineRecv, RefineCloseRx DEF Next

LEMMA RefineInit ==
  ASSUME Init
  PROVE  Fifo!Init
<1>1. <<>> \in Seq(Records)
  BY EmptySeq
<1>2. <<>> \o <<>> = <<>>
  BY <1>1, ConcatEmptySeq
<1>3. Cardinality({}) = 0
  BY FS_EmptySet
<1> QED
  BY <1>2, <1>3 DEF Init, Pending, Fifo!Init

\* Whatever the number of CPUs and the two capacities, the ring buffer, the
\* consumer thread and the channel together behave as one bounded queue that
\* loses a record only when nearly a ring full of records waits.
THEOREM TransportIsLossyFifo == Spec => Fifo!Init /\ [][Fifo!Next]_(Fifo!vars)
<1>1. Init => Fifo!Init
  BY RefineInit
<1>2. IInv /\ [Next]_vars => [Fifo!Next]_(Fifo!vars)
  BY RefineStep
<1> QED
  BY <1>1, <1>2, TransportInvariant, PTL DEF Spec
=============================================================================
