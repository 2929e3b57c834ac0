------------------------ MODULE RemoteOutbound_proofs ------------------------
(***************************************************************************)
(* Proofs about RemoteOutbound, for any streams, messages, segments, queue *)
(* size and number of connections that break.                              *)
(***************************************************************************)
EXTENDS RemoteOutbound, FiniteSetTheorems, WellFoundedInduction, TLAPS

----------------------------------------------------------------------------
(* Induction over the natural numbers, for sets: the least element of a    *)
(* set of numbers is found through the strict subsets of an interval.      *)

(* A set of numbers that is not empty has a least one.                     *)
LEMMA LeastNumber ==
  ASSUME NEW T \in SUBSET Nat, T # {}
  PROVE  \E m \in T : \A n \in T : m <= n
<1>1. PICK b \in T : TRUE
  OBVIOUS
<1> DEFINE I(n) == 1 .. n
           Below == {I(n) : n \in {m \in T : m <= b}}
<1>2. IsFiniteSet(1 .. b)
  BY <1>1, FS_Interval
<1>3. IsWellFoundedOn(StrictSubsetOrdering(1 .. b), SUBSET (1 .. b))
  BY <1>2, FS_StrictSubsetOrderingWellFounded, FS_FiniteSubsetsOfFinite
<1>4. Below \subseteq SUBSET (1 .. b) /\ Below # {}
  BY <1>1
<1>5. \E X \in Below : \A Y \in Below : ~ (<<Y, X>> \in StrictSubsetOrdering(1 .. b))
  <2> HIDE DEF Below
  <2> QED
    BY <1>3, <1>4, WFMin
<1>6. PICK m \in T : m <= b /\ \A Y \in Below : ~ (<<Y, I(m)>> \in StrictSubsetOrdering(1 .. b))
  BY <1>5
<1>7. ASSUME NEW n \in T, n < m PROVE FALSE
  <2>1. I(n) \in Below /\ I(n) \subseteq I(m) /\ I(m) \subseteq 1 .. b
    BY <1>1, <1>6, <1>7
  <2>2. m \in I(m) /\ m \notin I(n)
    BY <1>7
  <2> QED
    BY <1>6, <2>1, <2>2 DEF StrictSubsetOrdering
<1> QED
  BY <1>7

(* A set that holds 0 and the successor of each of its members holds every *)
(* number.                                                                 *)
LEMMA Induction ==
  ASSUME NEW T, 0 \in T, \A n \in Nat : n \in T => n + 1 \in T
  PROVE  \A n \in Nat : n \in T
<1> SUFFICES ASSUME Nat \ T # {} PROVE FALSE
  OBVIOUS
<1>1. PICK m \in Nat \ T : \A n \in Nat \ T : m <= n
  BY LeastNumber
<1>2. m # 0
  OBVIOUS
<1>3. m - 1 \in Nat /\ m - 1 \notin Nat \ T
  BY <1>1, <1>2
<1> QED
  BY <1>1, <1>3

----------------------------------------------------------------------------
(* FlattenSeq, which concatenates the buffers.                             *)

(* g[n] is the concatenation of the first n sequences.                     *)
Concatenates(g, ss) ==
  g = [i \in 1 .. Len(ss) |-> IF i = 1 THEN ss[i] ELSE g[i - 1] \o ss[i]]

(* There is a function that Concatenates describes.                        *)
LEMMA ConcatenationExists ==
  ASSUME NEW S, NEW ss \in Seq(Seq(S))
  PROVE  \E g : Concatenates(g, ss)
<1> DEFINE Upto(n, g) == \A i \in 1 .. n : g[i] = IF i = 1 THEN ss[i] ELSE g[i - 1] \o ss[i]
           T == {n \in Nat : \E g : g = [i \in 1 .. n |-> g[i]] /\ Upto(n, g)}
<1>1. 0 \in T
  <2>1. \E g : g = [i \in 1 .. 0 |-> g[i]] /\ Upto(0, g)
    <3> DEFINE e == [i \in 1 .. 0 |-> i]
    <3>1. e = [i \in 1 .. 0 |-> e[i]] /\ Upto(0, e)
      OBVIOUS
    <3> QED
      BY <3>1
  <2> QED
    BY <2>1
<1>2. ASSUME NEW n \in Nat, n \in T PROVE n + 1 \in T
  <2>1. PICK g : g = [i \in 1 .. n |-> g[i]] /\ Upto(n, g)
    BY <1>2
  <2> DEFINE h == [i \in 1 .. n + 1 |->
                     IF i <= n THEN g[i] ELSE IF i = 1 THEN ss[i] ELSE g[i - 1] \o ss[i]]
  <2>2. h = [i \in 1 .. n + 1 |-> h[i]]
    OBVIOUS
  <2>3. \A i \in 1 .. n : h[i] = g[i]
    OBVIOUS
  <2>4. h[n + 1] = IF n + 1 = 1 THEN ss[n + 1] ELSE g[n] \o ss[n + 1]
    OBVIOUS
  <2> HIDE DEF h
  <2>5. Upto(n + 1, h)
    <3> SUFFICES ASSUME NEW i \in 1 .. n + 1
                 PROVE  h[i] = IF i = 1 THEN ss[i] ELSE h[i - 1] \o ss[i]
      OBVIOUS
    <3>1. CASE i \in 1 .. n
      <4>1. h[i] = g[i] /\ (i # 1 => h[i - 1] = g[i - 1])
        BY <2>3, <3>1
      <4> QED
        BY <2>1, <3>1, <4>1
    <3>2. CASE i = n + 1
      <4>1. (n + 1) - 1 = n /\ (n # 0 => h[n] = g[n])
        BY <2>3
      <4>2. n + 1 = 1 <=> n = 0
        OBVIOUS
      <4> QED
        BY <2>4, <3>2, <4>1, <4>2, Zenon
    <3> QED
      BY <3>1, <3>2
  <2>6. \E k : k = [i \in 1 .. n + 1 |-> k[i]] /\ Upto(n + 1, k)
    BY <2>2, <2>5
  <2>7. n + 1 \in Nat
    OBVIOUS
  <2> QED
    BY <2>6, <2>7, Zenon
<1>3. Len(ss) \in T
  <2> HIDE DEF T
  <2>1. \A n \in Nat : n \in T
    BY <1>1, <1>2, Induction
  <2> QED
    BY <2>1
<1>4. PICK g : g = [i \in 1 .. Len(ss) |-> g[i]] /\ Upto(Len(ss), g)
  BY <1>3
<1>5. Concatenates(g, ss)
  BY <1>4, Zenon DEF Concatenates
<1> QED
  BY <1>5

(* Whatever two places of q hold comes from the first n sequences, in the  *)
(* order of the sequences and, within one of them, in its order.           *)
Gathers(q, ss, n) ==
  /\ \A k \in 1 .. n : \A i \in DOMAIN ss[k] : \E p \in DOMAIN q : q[p] = ss[k][i]
  /\ \A p1, p2 \in DOMAIN q : p1 <= p2 =>
       \E k1, k2 \in 1 .. n :
         /\ k1 <= k2
         /\ \E i1 \in DOMAIN ss[k1], i2 \in DOMAIN ss[k2] :
              /\ q[p1] = ss[k1][i1] /\ q[p2] = ss[k2][i2]
              /\ k1 = k2 /\ p1 < p2 => i1 < i2

(* The first of the sequences, after nothing.                              *)
LEMMA GathersOne ==
  ASSUME NEW S, NEW ss \in Seq(Seq(S)), Len(ss) # 0
  PROVE  Gathers(ss[1], ss, 1)
BY DEF Gathers

(* One more sequence, after those that are gathered.                       *)
LEMMA GathersMore ==
  ASSUME NEW S, NEW ss \in Seq(Seq(S)), NEW n \in Nat \ {0}, n + 1 <= Len(ss),
         NEW q \in Seq(S), Gathers(q, ss, n)
  PROVE  Gathers(q \o ss[n + 1], ss, n + 1)
<1> DEFINE t == ss[n + 1]
           w == q \o t
<1>1. t \in Seq(S)
  OBVIOUS
<1>2. /\ DOMAIN q = 1 .. Len(q) /\ DOMAIN t = 1 .. Len(t) /\ Len(q) \in Nat /\ Len(t) \in Nat
      /\ DOMAIN w = 1 .. Len(q) + Len(t)
  BY <1>1
<1>3. /\ \A p \in 1 .. Len(q) : w[p] = q[p]
      /\ \A i \in 1 .. Len(t) : w[Len(q) + i] = t[i]
      /\ \A p \in DOMAIN w : p \in 1 .. Len(q) \/ (p - Len(q) \in 1 .. Len(t) /\ w[p] = t[p - Len(q)])
  BY <1>1, SMTT(30)
<1> HIDE DEF w
<1>4. ASSUME NEW k \in 1 .. n + 1, NEW i \in DOMAIN ss[k]
      PROVE  \E p \in DOMAIN w : w[p] = ss[k][i]
  <2>1. CASE k = n + 1
    <3>1. i \in 1 .. Len(t)
      BY <1>2, <1>4, <2>1
    <3>2. w[Len(q) + i] = t[i]
      BY <1>3, <3>1
    <3>3. Len(q) + i \in DOMAIN w /\ w[Len(q) + i] = ss[k][i]
      <4> HIDE DEF t
      <4> QED
        BY <1>2, <2>1, <3>1, <3>2 DEF t
    <3> QED
      BY <3>3
  <2>2. CASE k \in 1 .. n
    <3>1. PICK p \in DOMAIN q : q[p] = ss[k][i]
      BY <1>4, <2>2 DEF Gathers
    <3>2. p \in 1 .. Len(q)
      BY <1>2
    <3>3. p \in DOMAIN w /\ w[p] = q[p]
      <4> HIDE DEF t
      <4> QED
        BY <1>2, <1>3, <3>2
    <3> QED
      BY <3>1, <3>3
  <2> QED
    BY <2>1, <2>2
<1>5. ASSUME NEW p1 \in DOMAIN w, NEW p2 \in DOMAIN w, p1 <= p2
      PROVE  \E k1, k2 \in 1 .. n + 1 :
               /\ k1 <= k2
               /\ \E i1 \in DOMAIN ss[k1], i2 \in DOMAIN ss[k2] :
                    /\ w[p1] = ss[k1][i1] /\ w[p2] = ss[k2][i2]
                    /\ k1 = k2 /\ p1 < p2 => i1 < i2
  <2>1. CASE p2 \in 1 .. Len(q)
    <3>1. p1 \in DOMAIN q /\ p2 \in DOMAIN q /\ w[p1] = q[p1] /\ w[p2] = q[p2]
      BY <1>2, <1>3, <1>5, <2>1
    <3>2. PICK k1 \in 1 .. n, k2 \in 1 .. n :
            /\ k1 <= k2
            /\ \E i1 \in DOMAIN ss[k1], i2 \in DOMAIN ss[k2] :
                 /\ q[p1] = ss[k1][i1] /\ q[p2] = ss[k2][i2]
                 /\ k1 = k2 /\ p1 < p2 => i1 < i2
      BY <1>5, <3>1, ZenonT(40) DEF Gathers
    <3>3. k1 \in 1 .. n + 1 /\ k2 \in 1 .. n + 1
      OBVIOUS
    <3> QED
      BY <3>1, <3>2, <3>3
  <2>2. CASE p2 \notin 1 .. Len(q) /\ p1 \in 1 .. Len(q)
    <3>1. p1 \in DOMAIN q /\ w[p1] = q[p1]
      BY <1>2, <1>3, <2>2
    <3>2. PICK k1 \in 1 .. n : \E i1 \in DOMAIN ss[k1] : q[p1] = ss[k1][i1]
      BY <3>1 DEF Gathers
    <3>3. p2 - Len(q) \in DOMAIN t /\ w[p2] = ss[n + 1][p2 - Len(q)]
      BY <1>2, <1>3, <2>2
    <3>4. k1 \in 1 .. n + 1 /\ n + 1 \in 1 .. n + 1 /\ k1 <= n + 1 /\ k1 # n + 1
      OBVIOUS
    <3> QED
      BY <3>1, <3>2, <3>3, <3>4
  <2>3. CASE p2 \notin 1 .. Len(q) /\ p1 \notin 1 .. Len(q)
    <3>1. /\ p1 - Len(q) \in DOMAIN t /\ w[p1] = ss[n + 1][p1 - Len(q)]
          /\ p2 - Len(q) \in DOMAIN t /\ w[p2] = ss[n + 1][p2 - Len(q)]
          /\ p1 < p2 => p1 - Len(q) < p2 - Len(q)
      BY <1>2, <1>3, <2>3, SMTT(30)
    <3>2. n + 1 \in 1 .. n + 1 /\ n + 1 <= n + 1
      OBVIOUS
    <3> QED
      BY <3>1, <3>2
  <2> QED
    BY <2>1, <2>2, <2>3
<1>6. Gathers(w, ss, n + 1)
  BY <1>4, <1>5 DEF Gathers
<1> QED
  BY <1>6 DEF w

(* What FlattenSeq returns, for every sequence of sequences.               *)
LEMMA FlattenGathers ==
  ASSUME NEW S, NEW ss \in Seq(Seq(S))
  PROVE  FlattenSeq(ss) \in Seq(S) /\ Gathers(FlattenSeq(ss), ss, Len(ss))
<1>1. CASE Len(ss) = 0
  <2>1. FlattenSeq(ss) = ss
    BY <1>1 DEF FlattenSeq
  <2>2. ss = <<>>
    BY <1>1
  <2>3. <<>> \in Seq(S) /\ DOMAIN <<>> = {}
    OBVIOUS
  <2>4. Gathers(<<>>, ss, 0)
    BY <2>3 DEF Gathers
  <2> QED
    BY <1>1, <2>1, <2>2, <2>3, <2>4
<1>2. CASE Len(ss) # 0
  <2> DEFINE g == CHOOSE f : Concatenates(f, ss)
  <2>1. FlattenSeq(ss) = g[Len(ss)]
    BY <1>2 DEF FlattenSeq, Concatenates
  <2>2. Concatenates(g, ss)
    BY ConcatenationExists
  <2> HIDE DEF g
  <2>3. \A i \in 1 .. Len(ss) : g[i] = IF i = 1 THEN ss[i] ELSE g[i - 1] \o ss[i]
    BY <2>2 DEF Concatenates
  <2> DEFINE T == {n \in Nat : n = 0 \/ n > Len(ss) \/ (g[n] \in Seq(S) /\ Gathers(g[n], ss, n))}
  <2>4. 0 \in T
    OBVIOUS
  <2>5. ASSUME NEW n \in Nat, n \in T PROVE n + 1 \in T
    <3>1. CASE n >= Len(ss)
      BY <3>1
    <3>2. CASE n = 0 /\ Len(ss) > 0
      <4>1. g[1] = ss[1] /\ ss[1] \in Seq(S)
        BY <1>2, <2>3
      <4> QED
        BY <1>2, <3>2, <4>1, GathersOne
    <3>3. CASE n # 0 /\ n < Len(ss)
      <4>1. g[n] \in Seq(S) /\ Gathers(g[n], ss, n)
        BY <2>5, <3>3
      <4>2. g[n + 1] = g[n] \o ss[n + 1] /\ ss[n + 1] \in Seq(S)
        <5>1. n + 1 \in 1 .. Len(ss) /\ n + 1 # 1 /\ (n + 1) - 1 = n
          BY <3>3
        <5>2. g[n + 1] = IF n + 1 = 1 THEN ss[n + 1] ELSE g[(n + 1) - 1] \o ss[n + 1]
          BY <2>3, <5>1, Zenon
        <5>3. ss[n + 1] \in Seq(S)
          BY <5>1
        <5> QED
          BY <5>1, <5>2, <5>3, Zenon
      <4>3. Gathers(g[n + 1], ss, n + 1)
        <5>1. n \in Nat \ {0} /\ n + 1 <= Len(ss)
          BY <3>3
        <5>2. Gathers(g[n] \o ss[n + 1], ss, n + 1)
          BY <4>1, <5>1, GathersMore
        <5> QED
          BY <4>2, <5>2
      <4>4. g[n + 1] \in Seq(S)
        BY <4>1, <4>2
      <4> QED
        BY <4>3, <4>4
    <3> QED
      BY <3>1, <3>2, <3>3
  <2>6. Len(ss) \in T
    <3>1. \A n \in Nat : n \in T
      <4> HIDE DEF T
      <4> QED
        BY <2>4, <2>5, Induction
    <3> QED
      BY <3>1
  <2> QED
    BY <1>2, <2>1, <2>6
<1> QED
  BY <1>1, <1>2

----------------------------------------------------------------------------
(* The inductive invariant.                                                *)

(* What is on the wire and what the writer still has to write.             *)
Flight == wire \o pending

(* The frames of one stream come in the order of their cursors.            *)
Sorted(q) ==
  \A i, j \in DOMAIN q :
    i < j /\ q[i].stream = q[j].stream => After(q[j], q[i])

(* The messages of stream s that wait in serverEvents.                     *)
Waiting(s) == {i \in DOMAIN queue : queue[i].stream = s}

(* Every message offered waits or was given the next number.               *)
Counted == \A s \in Streams : nextSeq[s] + Cardinality(Waiting(s)) = offered[s] + 1

(* What was sent on a stream carries its name and the numbers given out,   *)
(* in order.                                                               *)
Numbered ==
  \A s \in Streams :
    /\ Sorted(sent[s])
    /\ \A i \in DOMAIN sent[s] : sent[s][i].stream = s /\ sent[s][i].seq < nextSeq[s]

(* Acknowledgements remove from the front of a buffer, and only what the   *)
(* peer has taken.                                                         *)
Gone(s) == Len(sent[s]) - Len(buffer[s])
BufferIsTail ==
  \A s \in Streams :
    /\ Gone(s) \in 0 .. Len(taken[s])
    /\ \A i \in DOMAIN buffer[s] : buffer[s][i] = sent[s][Gone(s) + i]

(* The peer has taken the first frames of what was sent.                   *)
TakenIsPrefix ==
  \A s \in Streams :
    /\ Len(taken[s]) <= Len(sent[s])
    /\ \A i \in DOMAIN taken[s] : taken[s][i] = sent[s][i]

(* Nothing is in flight but on a connection that has a running writer.     *)
Quiet ==
  /\ ~linked \/ writer # "running" => wire = <<>>
  /\ writer # "running" => pending = <<>>
  /\ linked => writer # "off"

(* On a live connection a stream's frames fly in order, and were all sent. *)
FlightKnown ==
  linked =>
    /\ Sorted(Flight)
    /\ \A p \in DOMAIN Flight : Flight[p] \in Range(sent[Flight[p].stream])

IInv ==
  /\ TypeOK /\ Counted /\ Numbered /\ BufferIsTail /\ TakenIsPrefix
  /\ Quiet /\ FlightKnown /\ MissingIsUnderWay

----------------------------------------------------------------------------
(* Sequences.                                                              *)

(* The elements of a concatenation.                                        *)
LEMMA ConcatIndexed ==
  ASSUME NEW S, NEW q \in Seq(S), NEW t \in Seq(S)
  PROVE  /\ q \o t \in Seq(S) /\ Len(q) \in Nat /\ Len(t) \in Nat
         /\ Len(q \o t) = Len(q) + Len(t)
         /\ DOMAIN (q \o t) = 1 .. Len(q) + Len(t)
         /\ DOMAIN q = 1 .. Len(q) /\ DOMAIN t = 1 .. Len(t)
         /\ \A i \in 1 .. Len(q) : (q \o t)[i] = q[i]
         /\ \A i \in 1 .. Len(t) : (q \o t)[Len(q) + i] = t[i]
         /\ \A i \in 1 .. Len(q) + Len(t) :
              i \in 1 .. Len(q) \/ (i - Len(q) \in 1 .. Len(t) /\ (q \o t)[i] = t[i - Len(q)])
OBVIOUS

(* The head of the second sequence may move to the end of the first.       *)
LEMMA HeadTailConcat ==
  ASSUME NEW S, NEW q \in Seq(S), NEW t \in Seq(S), t # <<>>
  PROVE  Append(q, Head(t)) \o Tail(t) = q \o t
OBVIOUS

(* What a concatenation holds.                                             *)
LEMMA RangeOfConcat ==
  ASSUME NEW S, NEW q \in Seq(S), NEW t \in Seq(S)
  PROVE  Range(q \o t) = Range(q) \cup Range(t)
<1> DEFINE w == q \o t
<1>1. /\ DOMAIN w = 1 .. Len(q) + Len(t) /\ Len(q) \in Nat /\ Len(t) \in Nat
      /\ DOMAIN q = 1 .. Len(q) /\ DOMAIN t = 1 .. Len(t)
      /\ \A i \in 1 .. Len(q) : w[i] = q[i]
      /\ \A i \in 1 .. Len(t) : w[Len(q) + i] = t[i]
      /\ \A i \in 1 .. Len(q) + Len(t) :
           i \in 1 .. Len(q) \/ (i - Len(q) \in 1 .. Len(t) /\ w[i] = t[i - Len(q)])
  BY ConcatIndexed
<1> HIDE DEF w
<1>2. ASSUME NEW x \in Range(q) PROVE x \in Range(w)
  BY <1>1, <1>2 DEF Range
<1>3. ASSUME NEW x \in Range(t) PROVE x \in Range(w)
  <2>1. PICK i \in 1 .. Len(t) : x = t[i]
    BY <1>1, <1>3 DEF Range
  <2>2. Len(q) + i \in DOMAIN w /\ w[Len(q) + i] = x
    BY <1>1, <2>1
  <2> QED
    BY <2>2 DEF Range
<1>4. ASSUME NEW x \in Range(w) PROVE x \in Range(q) \cup Range(t)
  BY <1>1, <1>4 DEF Range
<1>5. Range(w) = Range(q) \cup Range(t)
  BY <1>2, <1>3, <1>4
<1> QED
  BY <1>5 DEF w

(* The elements of a tail.                                                 *)
LEMMA TailIndexed ==
  ASSUME NEW S, NEW q \in Seq(S), q # <<>>
  PROVE  /\ Tail(q) \in Seq(S) /\ Head(q) \in S /\ Head(q) = q[1] /\ Len(q) \in Nat \ {0}
         /\ Len(Tail(q)) = Len(q) - 1 /\ DOMAIN q = 1 .. Len(q)
         /\ DOMAIN Tail(q) = 1 .. Len(q) - 1
         /\ \A i \in 1 .. Len(q) - 1 : Tail(q)[i] = q[i + 1]
OBVIOUS

(* Cursors are ordered: the prover's view of Frame.                        *)
LEMMA FrameFields ==
  ASSUME NEW f \in Frame
  PROVE  f.stream \in Streams /\ f.seq \in Nat /\ f.seg \in Nat
BY OutboundAssumption DEF Frame, Whole

(* After is a strict order.                                                *)
LEMMA AfterOrder ==
  ASSUME NEW f \in Frame, NEW g \in Frame, NEW h \in Frame
  PROVE  /\ After(f, g) /\ After(g, h) => After(f, h)
         /\ ~ (After(f, g) /\ After(g, f))
         /\ ~After(f, f)
BY FrameFields DEF After

----------------------------------------------------------------------------
(* What the code's helpers return.                                         *)

(* SplitServerEnvelopeForTransport numbers the segments of one message.    *)
LEMMA SplitSorted ==
  ASSUME NEW s \in Streams, NEW seq \in 1 .. MaxMessages, NEW cut \in 0 .. MaxSegments
  PROVE  /\ Split(s, seq, cut) \in Seq(Frame)
         /\ \A i \in DOMAIN Split(s, seq, cut) :
              Split(s, seq, cut)[i].stream = s /\ Split(s, seq, cut)[i].seq = seq
         /\ Sorted(Split(s, seq, cut))
<1>1. CASE cut = 1
  <2> DEFINE f == [stream |-> s, seq |-> seq, seg |-> Whole]
  <2>1. f \in Frame /\ f.stream = s /\ f.seq = seq
    BY OutboundAssumption DEF Frame, Whole
  <2>2. Split(s, seq, cut) = <<f>>
    BY <1>1 DEF Split
  <2> HIDE DEF f
  <2>3. <<f>> \in Seq(Frame) /\ DOMAIN <<f>> = {1} /\ <<f>>[1] = f
    BY <2>1
  <2>4. Sorted(<<f>>)
    BY <2>3 DEF Sorted
  <2> QED
    BY <2>1, <2>2, <2>3, <2>4
<1>2. CASE cut # 1
  <2> DEFINE q == [i \in 1 .. cut |-> [stream |-> s, seq |-> seq, seg |-> i - 1]]
  <2>1. Split(s, seq, cut) = q
    BY <1>2 DEF Split
  <2>2. DOMAIN q = 1 .. cut
        /\ \A i \in 1 .. cut : q[i].stream = s /\ q[i].seq = seq /\ q[i].seg = i - 1
    OBVIOUS
  <2>3. \A i \in 1 .. cut : q[i] \in Frame
    BY OutboundAssumption DEF Frame, Whole
  <2>4. q \in Seq(Frame)
    BY <2>3, OutboundAssumption
  <2> HIDE DEF q
  <2>5. Sorted(q)
    BY <2>2, OutboundAssumption DEF Sorted, After
  <2> QED
    BY <2>1, <2>2, <2>4, <2>5
<1> QED
  BY <1>1, <1>2

(* ServerEnvelopeBuffer.Ack drops exactly the first frames, up to the      *)
(* acknowledged one, of a buffer that is in order.                         *)
LEMMA UnackedIsTail ==
  ASSUME NEW q \in Seq(Frame), NEW f \in Frame,
         \A i, j \in DOMAIN q : i < j => After(q[j], q[i])
  PROVE  \E k \in 0 .. Len(q) :
           /\ Unacked(q, f) \in Seq(Frame)
           /\ Len(Unacked(q, f)) = Len(q) - k
           /\ \A i \in 1 .. Len(q) - k : Unacked(q, f)[i] = q[k + i]
           /\ \A i \in 1 .. k : ~After(q[i], f)
<1> DEFINE kept == {i \in DOMAIN q : After(q[i], f)}
           nth(n) == CHOOSE i \in kept : Cardinality({j \in kept : j <= i}) = n
<1>1. /\ DOMAIN q = 1 .. Len(q) /\ Len(q) \in Nat
      /\ \A i \in 1 .. Len(q) : q[i] \in Frame
  OBVIOUS
<1>2. PICK k \in 0 .. Len(q) : kept = k + 1 .. Len(q)
  <2>1. CASE kept = {}
    <3>1. kept = Len(q) + 1 .. Len(q)
      BY <1>1, <2>1
    <3> QED
      BY <1>1, <3>1
  <2>2. CASE kept # {}
    <3>1. kept \in SUBSET Nat
      BY <1>1
    <3>2. PICK m \in kept : \A n \in kept : m <= n
      BY <2>2, <3>1, LeastNumber
    <3>3. ASSUME NEW i \in m .. Len(q) PROVE i \in kept
      <4>1. i \in DOMAIN q /\ m \in DOMAIN q /\ (i = m \/ m < i)
        BY <1>1, <3>2
      <4>2. After(q[m], f) /\ (m < i => After(q[i], q[m]))
        BY <3>2, <4>1
      <4> QED
        BY <1>1, <4>1, <4>2, AfterOrder
    <3>4. kept = m .. Len(q) /\ m \in 1 .. Len(q)
      BY <1>1, <3>2, <3>3
    <3>5. (m - 1) + 1 = m /\ m - 1 \in 0 .. Len(q)
      BY <3>4
    <3> QED
      BY <3>4, <3>5
  <2> QED
    BY <2>1, <2>2
<1> HIDE DEF kept
<1>3. Cardinality(kept) = Len(q) - k
  <2>1. k + 1 \in Int /\ Len(q) \in Int
    BY <1>1
  <2>2. Cardinality(k + 1 .. Len(q)) = IF k + 1 > Len(q) THEN 0 ELSE Len(q) - (k + 1) + 1
    BY <2>1, FS_Interval
  <2> QED
    BY <1>1, <1>2, <2>2
<1>4. ASSUME NEW i \in kept PROVE Cardinality({j \in kept : j <= i}) = i - k
  <2>1. {j \in kept : j <= i} = k + 1 .. i
    BY <1>1, <1>2, <1>4
  <2>2. i \in Int /\ k + 1 \in Int /\ i >= k + 1
    BY <1>1, <1>2, <1>4
  <2>3. Cardinality(k + 1 .. i) = IF k + 1 > i THEN 0 ELSE i - (k + 1) + 1
    BY <2>2, FS_Interval
  <2>4. k \in Int
    BY <1>1
  <2>5. Cardinality(k + 1 .. i) = i - k
    BY <2>2, <2>3, <2>4
  <2> QED
    BY <2>1, <2>5, Zenon
<1>5. ASSUME NEW n \in 1 .. Len(q) - k PROVE nth(n) = k + n
  <2>1. k + n \in kept /\ (k + n) - k = n
    BY <1>1, <1>2
  <2>2. \E i \in kept : Cardinality({j \in kept : j <= i}) = n
    BY <1>4, <2>1
  <2>3. nth(n) \in kept /\ Cardinality({j \in kept : j <= nth(n)}) = n
    BY <2>2
  <2> HIDE DEF nth
  <2>4. nth(n) - k = n
    BY <1>4, <2>3
  <2>5. nth(n) \in Int /\ k \in Int /\ n \in Int
    BY <1>1, <1>2, <2>3
  <2> QED
    BY <2>4, <2>5
<1>6. Unacked(q, f) = [n \in 1 .. Len(q) - k |-> q[nth(n)]]
  BY <1>3 DEF Unacked, kept
<1> HIDE DEF nth
<1>7. Unacked(q, f) = [n \in 1 .. Len(q) - k |-> q[k + n]]
  BY <1>5, <1>6
<1>8. /\ Len(q) - k \in Nat
      /\ \A n \in 1 .. Len(q) - k : q[k + n] \in Frame
  BY <1>1
<1>9. /\ Unacked(q, f) \in Seq(Frame) /\ Len(Unacked(q, f)) = Len(q) - k
      /\ \A i \in 1 .. Len(q) - k : Unacked(q, f)[i] = q[k + i]
  BY <1>7, <1>8
<1>10. \A i \in 1 .. k : ~After(q[i], f)
  BY <1>1, <1>2 DEF kept
<1> QED
  BY <1>9, <1>10

(* ServerEnvelopeBuffer.Envelopes: every buffered frame, and the frames of *)
(* each stream in the order of its buffer.                                 *)
LEMMA EnvelopesGather ==
  ASSUME buffer \in [Streams -> Seq(Frame)],
         \A s \in Streams : Sorted(buffer[s]) /\ \A i \in DOMAIN buffer[s] : buffer[s][i].stream = s
  PROVE  /\ Envelopes \in Seq(Frame) /\ Sorted(Envelopes)
         /\ \A s \in Streams : Range(buffer[s]) \subseteq Range(Envelopes)
         /\ \A p \in DOMAIN Envelopes : Envelopes[p] \in Range(buffer[Envelopes[p].stream])
<1> DEFINE ss == [i \in DOMAIN StreamOrder |-> buffer[StreamOrder[i]]]
           N == Len(StreamOrder)
<1>1. /\ DOMAIN StreamOrder = 1 .. N /\ N \in Nat
      /\ \A i \in 1 .. N : StreamOrder[i] \in Streams
  BY OutboundAssumption
<1>2. \A s \in Streams : \E i \in 1 .. N : StreamOrder[i] = s
  BY <1>1, OutboundAssumption DEF Range
<1>3. \A i, j \in 1 .. N : StreamOrder[i] = StreamOrder[j] => i = j
  BY <1>1, OutboundAssumption DEF IsInjective
<1>4. \A i \in 1 .. N : ss[i] = buffer[StreamOrder[i]] /\ ss[i] \in Seq(Frame)
  BY <1>1
<1>5. ss \in Seq(Seq(Frame)) /\ Len(ss) = N
  <2>1. ss = [i \in 1 .. N |-> buffer[StreamOrder[i]]]
    BY <1>1
  <2> QED
    BY <1>1, <2>1
<1>6. Envelopes = FlattenSeq(ss)
  BY DEF Envelopes
<1> HIDE DEF ss, N
<1>7. Envelopes \in Seq(Frame) /\ Gathers(Envelopes, ss, N)
  BY <1>5, <1>6, FlattenGathers
<1>8. DOMAIN Envelopes = 1 .. Len(Envelopes) /\ Len(Envelopes) \in Nat
  BY <1>7
<1>9. ASSUME NEW k \in 1 .. N, NEW i \in DOMAIN ss[k]
      PROVE  /\ StreamOrder[k] \in Streams /\ ss[k][i].stream = StreamOrder[k]
             /\ ss[k] = buffer[StreamOrder[k]]
  <2>1. StreamOrder[k] \in Streams
    BY <1>1
  <2>2. ss[k] = buffer[StreamOrder[k]]
    BY <1>4
  <2>3. \A j \in DOMAIN buffer[StreamOrder[k]] :
          buffer[StreamOrder[k]][j].stream = StreamOrder[k]
    BY <2>1
  <2> QED
    BY <1>9, <2>1, <2>2, <2>3
<1>10. ASSUME NEW p1 \in DOMAIN Envelopes, NEW p2 \in DOMAIN Envelopes, p1 < p2,
              Envelopes[p1].stream = Envelopes[p2].stream
       PROVE  After(Envelopes[p2], Envelopes[p1])
  <2>1. PICK k1 \in 1 .. N, k2 \in 1 .. N :
           /\ k1 <= k2
           /\ \E i1 \in DOMAIN ss[k1], i2 \in DOMAIN ss[k2] :
                /\ Envelopes[p1] = ss[k1][i1] /\ Envelopes[p2] = ss[k2][i2]
                /\ k1 = k2 /\ p1 < p2 => i1 < i2
    BY <1>7, <1>8, <1>10, SMTT(30) DEF Gathers
  <2>2. PICK i1 \in DOMAIN ss[k1], i2 \in DOMAIN ss[k2] :
                /\ Envelopes[p1] = ss[k1][i1] /\ Envelopes[p2] = ss[k2][i2]
                /\ k1 = k2 /\ p1 < p2 => i1 < i2
    BY <2>1
  <2>3. k1 = k2
    <3>1. StreamOrder[k1] = StreamOrder[k2]
      BY <1>9, <1>10, <2>2
    <3> QED
      BY <1>3, <3>1
  <2>4. Sorted(ss[k1]) /\ i1 < i2
    BY <1>9, <1>10, <2>2, <2>3
  <2>5. ss[k1][i1].stream = ss[k1][i2].stream
    BY <1>10, <2>2, <2>3
  <2> QED
    BY <2>2, <2>3, <2>4, <2>5 DEF Sorted
<1>11. ASSUME NEW s \in Streams, NEW x \in Range(buffer[s]) PROVE x \in Range(Envelopes)
  <2>1. PICK k \in 1 .. N : StreamOrder[k] = s
    BY <1>2
  <2>2. PICK i \in DOMAIN ss[k] : x = ss[k][i]
    BY <1>4, <1>11, <2>1 DEF Range
  <2>3. \E p \in DOMAIN Envelopes : Envelopes[p] = x
    BY <1>7, <2>2 DEF Gathers
  <2> QED
    BY <2>3 DEF Range
<1>12. ASSUME NEW p \in DOMAIN Envelopes
       PROVE  Envelopes[p] \in Range(buffer[Envelopes[p].stream])
  <2>1. p <= p
    BY <1>8
  <2>2. PICK k \in 1 .. N : \E i \in DOMAIN ss[k] : Envelopes[p] = ss[k][i]
    BY <1>7, <1>12, <2>1 DEF Gathers
  <2> QED
    BY <1>9, <2>2 DEF Range
<1> QED
  BY <1>7, <1>10, <1>11, <1>12 DEF Sorted

----------------------------------------------------------------------------
(* The steps.                                                              *)

(* The sequences of the state.                                             *)
LEMMA Typed ==
  ASSUME TypeOK
  PROVE  /\ wire \in Seq(Frame) /\ pending \in Seq(Frame) /\ Flight \in Seq(Frame)
         /\ \A s \in Streams :
              /\ sent[s] \in Seq(Frame) /\ buffer[s] \in Seq(Frame) /\ taken[s] \in Seq(Frame)
              /\ DOMAIN sent[s] = 1 .. Len(sent[s]) /\ Len(sent[s]) \in Nat
              /\ DOMAIN buffer[s] = 1 .. Len(buffer[s]) /\ Len(buffer[s]) \in Nat
              /\ DOMAIN taken[s] = 1 .. Len(taken[s]) /\ Len(taken[s]) \in Nat
BY DEF TypeOK, Flight

(* What a buffer holds: sent frames of its stream in order, among them     *)
(* every one the peer has not taken.                                       *)
LEMMA BufferKnown ==
  ASSUME IInv, NEW s \in Streams
  PROVE  /\ Sorted(buffer[s]) /\ \A i \in DOMAIN buffer[s] : buffer[s][i].stream = s
         /\ Range(buffer[s]) \subseteq Range(sent[s])
         /\ \A i \in Len(taken[s]) + 1 .. Len(sent[s]) : sent[s][i] \in Range(buffer[s])
<1>2. /\ DOMAIN sent[s] = 1 .. Len(sent[s]) /\ Len(sent[s]) \in Nat
      /\ DOMAIN buffer[s] = 1 .. Len(buffer[s]) /\ Len(buffer[s]) \in Nat /\ Len(taken[s]) \in Nat
  <2>1. TypeOK
    BY DEF IInv
  <2> QED
    BY <2>1, Typed
<1>1. PICK g \in Nat :
        /\ g <= Len(taken[s]) /\ Len(sent[s]) = g + Len(buffer[s])
        /\ \A i \in DOMAIN buffer[s] : buffer[s][i] = sent[s][g + i]
  <2>1. PICK d : d = Gone(s)
    OBVIOUS
  <2>2. /\ d \in 0 .. Len(taken[s]) /\ d = Len(sent[s]) - Len(buffer[s])
        /\ \A i \in DOMAIN buffer[s] : buffer[s][i] = sent[s][d + i]
    BY <2>1 DEF IInv, BufferIsTail, Gone
  <2>3. d \in Nat /\ d <= Len(taken[s]) /\ Len(sent[s]) = d + Len(buffer[s])
    <3>1. /\ sent \in [Streams -> Seq(Frame)] /\ buffer \in [Streams -> Seq(Frame)]
          /\ taken \in [Streams -> Seq(Frame)]
      BY DEF IInv, TypeOK
    <3>2. d \in 0 .. Len(taken[s]) /\ d = Len(sent[s]) - Len(buffer[s])
      BY <2>2
    <3> QED
      BY <3>1, <3>2
  <2> QED
    BY <2>2, <2>3
<1>3. /\ Sorted(sent[s])
      /\ \A i \in DOMAIN sent[s] : sent[s][i].stream = s
  BY DEF IInv, Numbered
<1>4. \A i \in DOMAIN buffer[s] : g + i \in DOMAIN sent[s] /\ g \in Nat
  BY <1>1, <1>2
<1>5. Sorted(buffer[s])
  <2> SUFFICES ASSUME NEW i \in DOMAIN buffer[s], NEW j \in DOMAIN buffer[s], i < j
               PROVE  After(buffer[s][j], buffer[s][i])
    BY DEF Sorted
  <2>1. g + i \in DOMAIN sent[s] /\ g + j \in DOMAIN sent[s] /\ g + i < g + j
    BY <1>2, <1>4
  <2>2. After(sent[s][g + j], sent[s][g + i])
    BY <1>3, <2>1 DEF Sorted
  <2> QED
    BY <1>1, <2>2
<1>6. \A i \in Len(taken[s]) + 1 .. Len(sent[s]) :
        i - g \in DOMAIN buffer[s] /\ g + (i - g) = i
  BY <1>1, <1>2
<1>7. Range(buffer[s]) \subseteq Range(sent[s])
  BY <1>1, <1>4 DEF Range
<1>8. \A i \in DOMAIN buffer[s] : buffer[s][i].stream = s
  BY <1>1, <1>3, <1>4
<1>9. ASSUME NEW i \in Len(taken[s]) + 1 .. Len(sent[s])
      PROVE  sent[s][i] \in Range(buffer[s])
  <2>1. i - g \in DOMAIN buffer[s] /\ buffer[s][i - g] = sent[s][i]
    BY <1>1, <1>6
  <2> QED
    BY <2>1 DEF Range
<1> QED
  BY <1>5, <1>7, <1>8, <1>9

(* Nothing was offered, sent or taken.                                     *)
LEMMA InitIInv == Init => IInv
<1> SUFFICES ASSUME Init PROVE IInv
  OBVIOUS
<1> USE DEF Init
<1>1. TypeOK
  <2>1. /\ \A S : <<>> \in Seq(S)
        /\ Len(queue) = 0
    OBVIOUS
  <2>2. 0 \in 0 .. MaxMessages /\ 1 \in 1 .. MaxMessages + 1 /\ 0 \in 0 .. MaxBreaks
        /\ 0 <= QueueSize
    BY OutboundAssumption
  <2>3. /\ offered \in [Streams -> 0 .. MaxMessages]
        /\ nextSeq \in [Streams -> 1 .. MaxMessages + 1]
    BY <2>2
  <2>4. /\ buffer \in [Streams -> Seq(Frame)] /\ sent \in [Streams -> Seq(Frame)]
        /\ taken \in [Streams -> Seq(Frame)]
    BY <2>1
  <2> QED
    BY <2>1, <2>2, <2>3, <2>4 DEF TypeOK
<1>2. Counted
  <2>1. \A s \in Streams : Waiting(s) = {}
    BY DEF Waiting
  <2> QED
    BY <2>1, FS_EmptySet DEF Counted
<1>3. Numbered /\ TakenIsPrefix /\ BufferIsTail
  BY DEF Numbered, Sorted, TakenIsPrefix, BufferIsTail, Gone
<1>4. Quiet /\ FlightKnown /\ MissingIsUnderWay
  BY DEF Quiet, FlightKnown, MissingIsUnderWay
<1> QED
  BY <1>1, <1>2, <1>3, <1>4 DEF IInv

(* A step that leaves the streams and the queue alone.                     *)
LEMMA StreamsKept ==
  ASSUME IInv, UNCHANGED <<queue, offered, nextSeq, buffer, sent, taken>>
  PROVE  Counted' /\ Numbered' /\ BufferIsTail' /\ TakenIsPrefix'
BY DEF IInv, Counted, Waiting, Numbered, Sorted, BufferIsTail, Gone, TakenIsPrefix

(* A message offered waits in serverEvents.                                *)
LEMMA SendStep ==
  ASSUME IInv, NEW s \in Streams, SendServerEnvelope(s)
  PROVE  IInv'
<1>1. PICK cut \in 0 .. MaxSegments : queue' = Append(queue, [stream |-> s, cut |-> cut])
  BY DEF SendServerEnvelope
<1> DEFINE m == [stream |-> s, cut |-> cut]
<1>2. /\ UNCHANGED <<nextSeq, buffer, sent, writer, pending, linked, wire, breaks, taken>>
      /\ offered' = [offered EXCEPT ![s] = @ + 1]
      /\ offered[s] < MaxMessages /\ Len(queue) < QueueSize
  BY DEF SendServerEnvelope, state
<1>3. /\ queue \in Seq([stream : Streams, cut : 0 .. MaxSegments])
      /\ m \in [stream : Streams, cut : 0 .. MaxSegments]
      /\ Len(queue) \in Nat /\ DOMAIN queue = 1 .. Len(queue)
  BY DEF IInv, TypeOK
<1>4. TypeOK'
  <2>1. /\ queue' \in Seq([stream : Streams, cut : 0 .. MaxSegments])
        /\ Len(queue') = Len(queue) + 1
    BY <1>1, <1>3
  <2>2. Len(queue') <= QueueSize
    BY <1>2, <1>3, <2>1, OutboundAssumption
  <2>3. offered' \in [Streams -> 0 .. MaxMessages]
    BY <1>2, OutboundAssumption DEF IInv, TypeOK
  <2> QED
    BY <1>2, <2>1, <2>2, <2>3 DEF IInv, TypeOK
<1>5. Counted'
  <2>1. ASSUME NEW r \in Streams PROVE nextSeq'[r] + Cardinality(Waiting(r)') = offered'[r] + 1
    <3>1. IsFiniteSet(Waiting(r)) /\ Len(queue) + 1 \notin Waiting(r)
      <4>1. IsFiniteSet(1 .. Len(queue)) /\ Waiting(r) \subseteq 1 .. Len(queue)
        BY <1>3, FS_Interval DEF Waiting
      <4> QED
        BY <1>3, <4>1, FS_Subset
    <3>2. /\ DOMAIN queue' = 1 .. Len(queue) + 1
          /\ queue'[Len(queue) + 1] = m
          /\ \A i \in 1 .. Len(queue) : queue'[i] = queue[i]
      BY <1>1, <1>3
    <3>3. nextSeq[r] + Cardinality(Waiting(r)) = offered[r] + 1 /\ nextSeq[r] \in Nat
          /\ offered[r] \in Nat
      BY DEF IInv, Counted, TypeOK
    <3>4. CASE r = s
      <4>1. Waiting(r)' = Waiting(r) \cup {Len(queue) + 1}
        BY <1>3, <3>2, <3>4 DEF Waiting
      <4>2. Cardinality(Waiting(r)') = Cardinality(Waiting(r)) + 1
        BY <3>1, <4>1, FS_AddElement
      <4>3. offered'[r] = offered[r] + 1
        BY <1>2, <3>4 DEF IInv, TypeOK
      <4>4. Cardinality(Waiting(r)) \in Nat
        BY <3>1, FS_CardinalityType
      <4> QED
        BY <1>2, <3>3, <4>2, <4>3, <4>4
    <3>5. CASE r # s
      <4>1. Waiting(r)' = Waiting(r)
        BY <1>3, <3>2, <3>5 DEF Waiting
      <4>2. offered'[r] = offered[r]
        BY <1>2, <3>5 DEF IInv, TypeOK
      <4> QED
        BY <1>2, <3>3, <4>1, <4>2
    <3> QED
      BY <3>4, <3>5
  <2> QED
    BY <2>1 DEF Counted
<1>6. /\ Numbered' /\ BufferIsTail' /\ TakenIsPrefix' /\ Quiet' /\ FlightKnown'
      /\ MissingIsUnderWay'
  BY <1>2, ZenonT(40) DEF IInv, Numbered, Sorted, BufferIsTail, Gone, TakenIsPrefix, Quiet, FlightKnown,
              Flight, MissingIsUnderWay
<1> QED
  BY <1>4, <1>5, <1>6 DEF IInv

(* Steps of the connection and of the writer's life.                       *)
LEMMA ConnectionStep ==
  ASSUME IInv, Connect \/ WriterReturns \/ Break \/ UNCHANGED vars
  PROVE  IInv'
<1>1. UNCHANGED <<queue, offered, nextSeq, buffer, sent, taken>>
  BY DEF Connect, WriterReturns, Break, vars, state
<1>2. TypeOK'
  <2>1. <<>> \in Seq(Frame)
    OBVIOUS
  <2>2. CASE Connect BY <1>1, <2>2 DEF IInv, TypeOK, Connect
  <2>3. CASE WriterReturns BY <1>1, <2>1, <2>3 DEF IInv, TypeOK, WriterReturns
  <2>4. CASE Break
    <3>1. breaks' \in 0 .. MaxBreaks /\ linked' \in BOOLEAN
      <4>1. breaks' = breaks + 1 /\ breaks < MaxBreaks /\ linked' = FALSE
        BY <2>4 DEF Break
      <4>2. breaks \in 0 .. MaxBreaks
        BY DEF IInv, TypeOK
      <4>3. breaks' \in 0 .. MaxBreaks
        BY <4>1, <4>2, OutboundAssumption
      <4> QED
        BY <4>1, <4>3
    <3> QED
      BY <1>1, <2>1, <2>4, <3>1 DEF IInv, TypeOK, Break
  <2>5. CASE UNCHANGED vars BY <2>5 DEF IInv, TypeOK, vars
  <2> QED BY <2>2, <2>3, <2>4, <2>5
<1>3. Quiet' /\ FlightKnown' /\ MissingIsUnderWay'
  <2>1. CASE Connect
    <3>1. wire' = <<>> /\ pending' = <<>> /\ writer' = "starting" /\ linked' = TRUE
      BY <2>1 DEF Connect, IInv, Quiet
    <3>2. Flight' = <<>> /\ DOMAIN Flight' = {}
      BY <3>1 DEF Flight
    <3> QED
      BY <3>1, <3>2 DEF Quiet, FlightKnown, Sorted, MissingIsUnderWay
  <2>2. CASE WriterReturns
    BY <2>2 DEF WriterReturns, IInv, Quiet, FlightKnown, MissingIsUnderWay
  <2>3. CASE Break
    BY <2>3 DEF Break, IInv, Quiet, FlightKnown, MissingIsUnderWay
  <2>4. CASE UNCHANGED vars
    BY <2>4 DEF vars, IInv, Quiet, FlightKnown, MissingIsUnderWay, Flight, Sorted
  <2> QED
    BY <2>1, <2>2, <2>3, <2>4
<1> QED
  BY <1>1, <1>2, <1>3, StreamsKept DEF IInv

(* The replay holds everything the peer may miss.                          *)
LEMMA SnapshotStep ==
  ASSUME IInv, Snapshot
  PROVE  IInv'
<1>1. /\ UNCHANGED <<queue, offered, nextSeq, buffer, sent, taken, linked, wire, breaks>>
      /\ pending' = Envelopes /\ writer' = "running" /\ writer = "starting"
  BY DEF Snapshot, state
<1>2. /\ Envelopes \in Seq(Frame) /\ Sorted(Envelopes)
      /\ \A s \in Streams : Range(buffer[s]) \subseteq Range(Envelopes)
      /\ \A p \in DOMAIN Envelopes : Envelopes[p] \in Range(buffer[Envelopes[p].stream])
  <2>1. buffer \in [Streams -> Seq(Frame)]
    BY DEF IInv, TypeOK
  <2> QED
    BY <2>1, BufferKnown, EnvelopesGather
<1>3. wire = <<>> /\ wire' = <<>>
  BY <1>1 DEF IInv, Quiet
<1>4. Flight' = Envelopes
  BY <1>1, <1>2, <1>3 DEF Flight
<1>5. \A p \in DOMAIN Envelopes : Envelopes[p].stream \in Streams
  BY <1>2, FrameFields
<1>6. FlightKnown'
  <2>1. \A p \in DOMAIN Envelopes : Envelopes[p] \in Range(sent[Envelopes[p].stream])
    BY <1>2, <1>5, BufferKnown
  <2> QED
    BY <1>1, <1>2, <1>4, <2>1 DEF FlightKnown, Sorted
<1>7. MissingIsUnderWay'
  <2>1. wire' \o pending' = Envelopes
    BY <1>4 DEF Flight
  <2>2. \A s \in Streams : \A i \in Len(taken[s]) + 1 .. Len(sent[s]) :
          sent[s][i] \in Range(Envelopes)
    BY <1>2, BufferKnown
  <2> QED
    BY <1>1, <2>1, <2>2 DEF MissingIsUnderWay
<1>8. TypeOK' /\ Quiet'
  BY <1>1, <1>2, <1>3 DEF IInv, TypeOK, Quiet
<1> QED
  BY <1>1, <1>6, <1>7, <1>8, StreamsKept DEF IInv

(* A written frame moves from the writer to the wire.                      *)
LEMMA WriteStep ==
  ASSUME IInv, Write
  PROVE  IInv'
<1>1. /\ UNCHANGED <<queue, offered, nextSeq, buffer, sent, taken, linked, writer, breaks>>
      /\ pending' = Tail(pending) /\ pending # <<>> /\ writer = "running"
      /\ wire' = IF linked THEN Append(wire, Head(pending)) ELSE wire
  BY DEF Write, state
<1>2. wire \in Seq(Frame) /\ pending \in Seq(Frame)
  BY Typed DEF IInv
<1>3. /\ Head(pending) \in Frame /\ Tail(pending) \in Seq(Frame)
      /\ Append(wire, Head(pending)) \in Seq(Frame)
  BY <1>1, <1>2
<1>4. Append(wire, Head(pending)) \o Tail(pending) = wire \o pending
  BY <1>1, <1>2, HeadTailConcat
<1>5. TypeOK' /\ Quiet'
  BY <1>1, <1>3 DEF IInv, TypeOK, Quiet
<1>6. FlightKnown' /\ MissingIsUnderWay'
  <2>1. linked => Flight' = Flight /\ wire' \o pending' = wire \o pending
    BY <1>1, <1>4 DEF Flight
  <2> QED
    BY <1>1, <2>1 DEF IInv, FlightKnown, MissingIsUnderWay, Sorted
<1> QED
  BY <1>1, <1>5, <1>6, StreamsKept DEF IInv

(* An acknowledgement removes from the front of the buffer, and no frame   *)
(* beyond the acknowledged one, which the peer has taken.                  *)
LEMMA AckStep ==
  ASSUME IInv, NEW s \in Streams, Ack(s)
  PROVE  IInv'
<1>1. PICK f \in Range(taken[s]) : buffer' = [buffer EXCEPT ![s] = Unacked(@, f)]
  BY DEF Ack
<1>2. UNCHANGED <<queue, offered, nextSeq, writer, pending, linked, wire, breaks, sent, taken>>
  BY DEF Ack
<1>3. /\ buffer \in [Streams -> Seq(Frame)] /\ sent \in [Streams -> Seq(Frame)]
      /\ taken \in [Streams -> Seq(Frame)]
  BY DEF IInv, TypeOK
<1>4. PICK j \in 1 .. Len(taken[s]) : f = taken[s][j]
  <2>1. f \in {taken[s][x] : x \in DOMAIN taken[s]}
    BY <1>1, Zenon DEF Range
  <2>2. DOMAIN taken[s] = 1 .. Len(taken[s])
    BY <1>3
  <2> QED
    BY <2>1, <2>2
<1>5. f \in Frame /\ j \in DOMAIN sent[s] /\ f = sent[s][j] /\ j \in Nat
  <2>1. /\ Len(taken[s]) <= Len(sent[s])
        /\ \A i \in DOMAIN taken[s] : taken[s][i] = sent[s][i]
    BY DEF IInv, TakenIsPrefix
  <2> QED
    BY <1>3, <1>4, <2>1
<1>6. PICK d : d = Gone(s)
  OBVIOUS
<1>7. /\ d \in 0 .. Len(taken[s]) /\ d = Len(sent[s]) - Len(buffer[s])
      /\ \A i \in DOMAIN buffer[s] : buffer[s][i] = sent[s][d + i]
  BY <1>6 DEF IInv, BufferIsTail, Gone
<1>8. d \in Nat /\ d <= Len(taken[s]) /\ Len(sent[s]) = d + Len(buffer[s])
  <2>1. d \in 0 .. Len(taken[s]) /\ d = Len(sent[s]) - Len(buffer[s])
    BY <1>7
  <2> QED
    BY <1>3, <2>1
<1>9. Sorted(buffer[s]) /\ \A i \in DOMAIN buffer[s] : buffer[s][i].stream = s
  BY BufferKnown
<1>10. PICK k \in 0 .. Len(buffer[s]) :
         /\ Unacked(buffer[s], f) \in Seq(Frame)
         /\ Len(Unacked(buffer[s], f)) = Len(buffer[s]) - k
         /\ \A i \in 1 .. Len(buffer[s]) - k : Unacked(buffer[s], f)[i] = buffer[s][k + i]
         /\ \A i \in 1 .. k : ~After(buffer[s][i], f)
  <2>1. \A i1, i2 \in DOMAIN buffer[s] : i1 < i2 => After(buffer[s][i2], buffer[s][i1])
    BY <1>9 DEF Sorted
  <2>2. buffer[s] \in Seq(Frame)
    BY <1>3
  <2> QED
    BY <1>5, <2>1, <2>2, UnackedIsTail, ZenonT(40)
<1>11. buffer'[s] = Unacked(buffer[s], f)
       /\ \A r \in Streams \ {s} : buffer'[r] = buffer[r]
  BY <1>1, <1>3
<1>12. buffer' \in [Streams -> Seq(Frame)]
  BY <1>1, <1>3, <1>10
<1>13. d + k <= Len(taken[s])
  <2>1. CASE k = 0
    BY <1>3, <1>8, <2>1
  <2>2. CASE k # 0
    <3>1. k \in 1 .. Len(buffer[s]) /\ k \in DOMAIN buffer[s] /\ k \in Nat
      BY <1>3, <2>2
    <3>2. ~After(sent[s][d + k], sent[s][j])
      <4>1. k \in 1 .. k
        BY <3>1
      <4>2. ~After(buffer[s][k], f)
        BY <1>10, <4>1
      <4>3. buffer[s][k] = sent[s][d + k] /\ f = sent[s][j]
        BY <1>5, <1>7, <3>1
      <4> QED
        BY <4>2, <4>3, Zenon
    <3>3. d + k \in DOMAIN sent[s]
      BY <1>3, <1>8, <3>1
    <3>4. ~ (j < d + k)
      BY <1>5, <3>2, <3>3 DEF IInv, Numbered, Sorted
    <3>5. d + k <= j
      BY <1>5, <1>8, <3>1, <3>4
    <3> QED
      BY <1>3, <1>4, <1>8, <3>1, <3>5
  <2> QED
    BY <2>1, <2>2
<1>14. TypeOK'
  BY <1>2, <1>12 DEF IInv, TypeOK
<1>15. BufferIsTail'
  <2>1. ASSUME NEW r \in Streams, r # s
        PROVE  /\ Gone(r)' \in 0 .. Len(taken'[r])
               /\ \A i \in DOMAIN buffer'[r] : buffer'[r][i] = sent'[r][Gone(r)' + i]
    <3>1. Gone(r)' = Gone(r) /\ buffer'[r] = buffer[r]
      BY <1>2, <1>11, <2>1 DEF Gone
    <3> QED
      BY <1>2, <3>1 DEF IInv, BufferIsTail
  <2>2. k \in Nat /\ k <= Len(buffer[s])
    BY <1>3
  <2>3. Len(buffer'[s]) = Len(buffer[s]) - k
    BY <1>10, <1>11
  <2>4. Gone(s)' = d + k
    <3>1. Gone(s)' = Len(sent[s]) - (Len(buffer[s]) - k)
      BY <1>2, <2>3 DEF Gone
    <3> QED
      BY <1>3, <1>8, <2>2, <3>1
  <2>5. d + k \in 0 .. Len(taken'[s])
    BY <1>2, <1>3, <1>8, <1>13, <2>2
  <2>6. ASSUME NEW i \in DOMAIN buffer'[s] PROVE buffer'[s][i] = sent'[s][(d + k) + i]
    <3>1. i \in 1 .. Len(buffer[s]) - k
      BY <1>12, <2>3
    <3>2. buffer'[s][i] = buffer[s][k + i] /\ k + i \in DOMAIN buffer[s] /\ i \in Nat
      BY <1>3, <1>10, <1>11, <2>2, <3>1, SMTT(30)
    <3>3. (d + k) + i = d + (k + i)
      BY <1>8, <2>2, <3>2
    <3> QED
      BY <1>2, <1>7, <3>2, <3>3
  <2> QED
    BY <2>1, <2>4, <2>5, <2>6 DEF BufferIsTail
<1>16. Counted' /\ Numbered' /\ TakenIsPrefix' /\ Quiet' /\ FlightKnown' /\ MissingIsUnderWay'
  BY <1>2 DEF IInv, Counted, Waiting, Numbered, Sorted, TakenIsPrefix, Quiet, FlightKnown,
              Flight, MissingIsUnderWay
<1> QED
  BY <1>14, <1>15, <1>16 DEF IInv

(* The peer takes the frame it misses first, and nothing else.             *)
LEMMA ReceivedIsNext ==
  ASSUME IInv, wire # <<>>, NEW f, f = Head(wire)
  PROVE  /\ f \in Frame /\ linked /\ writer = "running" /\ f = Flight[1]
         /\ Len(Flight) \in Nat \ {0}
         /\ (taken[f.stream] = <<>> \/ After(f, Last(taken[f.stream]))) =>
              /\ Len(taken[f.stream]) < Len(sent[f.stream])
              /\ f = sent[f.stream][Len(taken[f.stream]) + 1]
         /\ ~ (taken[f.stream] = <<>> \/ After(f, Last(taken[f.stream]))) =>
              \A i \in Len(taken[f.stream]) + 1 .. Len(sent[f.stream]) : f # sent[f.stream][i]
<1> DEFINE s == f.stream
<1>1. linked /\ writer = "running"
  BY DEF IInv, Quiet
<1>2. /\ sent \in [Streams -> Seq(Frame)] /\ taken \in [Streams -> Seq(Frame)]
      /\ wire \in Seq(Frame) /\ pending \in Seq(Frame)
  BY DEF IInv, TypeOK
<1>3. f \in Frame /\ f = Flight[1] /\ Len(Flight) \in Nat \ {0} /\ DOMAIN Flight = 1 .. Len(Flight)
  BY <1>2 DEF Flight
<1>4. s \in Streams
  BY <1>3, FrameFields
<1>5. /\ Sorted(sent[s])
      /\ \A i \in DOMAIN sent[s] : sent[s][i].stream = s
  BY <1>4 DEF IInv, Numbered
<1>6. /\ Len(taken[s]) <= Len(sent[s])
      /\ \A i \in DOMAIN taken[s] : taken[s][i] = sent[s][i]
  BY <1>4 DEF IInv, TakenIsPrefix
<1>7. PICK i \in DOMAIN sent[s] : f = sent[s][i]
  BY <1>1, <1>3 DEF IInv, FlightKnown, Range
<1>8. /\ i \in Nat \ {0} /\ i <= Len(sent[s]) /\ Len(taken[s]) \in Nat /\ Len(sent[s]) \in Nat
      /\ DOMAIN sent[s] = 1 .. Len(sent[s]) /\ DOMAIN taken[s] = 1 .. Len(taken[s])
  BY <1>2, <1>4
<1>9. i <= Len(taken[s]) + 1
  <2> SUFFICES ASSUME Len(taken[s]) + 1 < i PROVE FALSE
    BY <1>8
  <2>1. Len(taken[s]) + 1 \in Len(taken[s]) + 1 .. Len(sent[s])
    BY <1>8
  <2>2. PICK p \in DOMAIN Flight : sent[s][Len(taken[s]) + 1] = Flight[p]
    BY <1>1, <1>4, <2>1 DEF IInv, MissingIsUnderWay, Flight, Range
  <2>3. After(f, Flight[p])
    BY <1>5, <1>7, <1>8, <2>1, <2>2, SMTT(30) DEF Sorted
  <2>4. Flight[p].stream = s /\ Flight[p] \in Frame
    <3>1. Len(taken[s]) + 1 \in DOMAIN sent[s] /\ sent[s] \in Seq(Frame)
      BY <1>2, <1>4, <1>8, <2>1
    <3>2. sent[s][Len(taken[s]) + 1].stream = s /\ sent[s][Len(taken[s]) + 1] \in Frame
      BY <1>5, <3>1
    <3> QED
      BY <2>2, <3>2
  <2>5. p # 1
    BY <1>3, <2>3, AfterOrder
  <2>6. After(Flight[p], Flight[1])
    BY <1>1, <1>3, <2>4, <2>5 DEF IInv, FlightKnown, Sorted
  <2> QED
    BY <1>3, <2>3, <2>4, <2>6, AfterOrder
<1>10. taken[s] = <<>> \/ After(f, Last(taken[s])) <=> i = Len(taken[s]) + 1
  <2>1. CASE taken[s] = <<>>
    BY <1>8, <1>9, <2>1
  <2>2. CASE taken[s] # <<>>
    <3>1. Len(taken[s]) \in DOMAIN taken[s] /\ Len(taken[s]) \in DOMAIN sent[s]
      BY <1>2, <1>4, <1>6, <1>8, <2>2
    <3>2. Last(taken[s]) = sent[s][Len(taken[s])]
      BY <1>6, <3>1 DEF Last
    <3>3. i = Len(taken[s]) + 1 => After(f, Last(taken[s]))
      BY <1>5, <1>7, <1>8, <3>1, <3>2 DEF Sorted
    <3>4. i = Len(taken[s]) => ~After(f, Last(taken[s]))
      BY <1>3, <1>7, <3>2, AfterOrder
    <3>5. i < Len(taken[s]) => After(Last(taken[s]), f)
      BY <1>5, <1>7, <3>1, <3>2 DEF Sorted
    <3>6. i < Len(taken[s]) => ~After(f, Last(taken[s]))
      <4>1. Last(taken[s]) \in Frame
        BY <1>2, <1>4, <1>8, <3>1, <3>2
      <4> QED
        BY <1>3, <3>5, <4>1, AfterOrder
    <3>7. i = Len(taken[s]) + 1 \/ i = Len(taken[s]) \/ i < Len(taken[s])
      BY <1>8, <1>9
    <3>8. ~ (i < Len(taken[s]) /\ i = Len(taken[s]) + 1)
          /\ ~ (i = Len(taken[s]) /\ i = Len(taken[s]) + 1)
      BY <1>8
    <3> QED
      BY <2>2, <3>3, <3>4, <3>6, <3>7, <3>8
  <2> QED
    BY <2>1, <2>2
<1>11. ASSUME i # Len(taken[s]) + 1, NEW j \in Len(taken[s]) + 1 .. Len(sent[s])
       PROVE  f # sent[s][j]
  <2>1. i < j /\ j \in DOMAIN sent[s]
    BY <1>8, <1>9, <1>11
  <2>2. After(sent[s][j], f)
    BY <1>5, <1>7, <2>1 DEF Sorted
  <2> QED
    BY <1>3, <2>2, AfterOrder
<1> QED
  BY <1>1, <1>3, <1>7, <1>8, <1>10, <1>11

(* The peer's stream grows by the frame it misses first, or the frame is   *)
(* one it has already taken.                                               *)
LEMMA ReceiveStep ==
  ASSUME IInv, Receive
  PROVE  IInv'
<1> DEFINE f == Head(wire)
           s == f.stream
<1>1. /\ wire # <<>> /\ wire' = Tail(wire)
      /\ taken' = IF taken[s] = <<>> \/ After(f, Last(taken[s]))
                  THEN [taken EXCEPT ![s] = Append(@, f)] ELSE taken
      /\ UNCHANGED <<queue, offered, nextSeq, buffer, sent, writer, pending, linked, breaks>>
  BY DEF Receive, state
<1>2. /\ sent \in [Streams -> Seq(Frame)] /\ taken \in [Streams -> Seq(Frame)]
      /\ wire \in Seq(Frame) /\ pending \in Seq(Frame)
  BY DEF IInv, TypeOK
<1>3. /\ f \in Frame /\ linked /\ writer = "running" /\ f = Flight[1]
      /\ Len(Flight) \in Nat \ {0}
      /\ (taken[s] = <<>> \/ After(f, Last(taken[s]))) =>
            /\ Len(taken[s]) < Len(sent[s])
            /\ f = sent[s][Len(taken[s]) + 1]
      /\ ~ (taken[s] = <<>> \/ After(f, Last(taken[s]))) =>
           \A i \in Len(taken[s]) + 1 .. Len(sent[s]) : f # sent[s][i]
  BY <1>1, ReceivedIsNext
<1> HIDE DEF f
<1>4. s \in Streams
  BY <1>3, FrameFields
<1> HIDE DEF s
<1>5. /\ wire' \in Seq(Frame) /\ Flight \in Seq(Frame)
      /\ Flight' = Tail(Flight) /\ Flight # <<>>
  BY <1>1, <1>2 DEF Flight
<1>6. /\ DOMAIN Flight = 1 .. Len(Flight) /\ DOMAIN Flight' = 1 .. Len(Flight) - 1
      /\ \A p \in 1 .. Len(Flight) - 1 : Flight'[p] = Flight[p + 1]
  BY <1>5, TailIndexed
<1>7. FlightKnown'
  <2>1. Sorted(Flight')
    <3> SUFFICES ASSUME NEW p \in DOMAIN Flight', NEW q \in DOMAIN Flight', p < q,
                        Flight'[p].stream = Flight'[q].stream
                 PROVE  After(Flight'[q], Flight'[p])
      BY DEF Sorted
    <3>1. p + 1 \in DOMAIN Flight /\ q + 1 \in DOMAIN Flight /\ p + 1 < q + 1
      BY <1>3, <1>6
    <3>2. Flight'[p] = Flight[p + 1] /\ Flight'[q] = Flight[q + 1]
      BY <1>6
    <3> QED
      BY <1>3, <3>1, <3>2 DEF IInv, FlightKnown, Sorted
  <2>2. \A p \in DOMAIN Flight' : Flight'[p] \in Range(sent[Flight'[p].stream])
    <3> SUFFICES ASSUME NEW p \in DOMAIN Flight'
                 PROVE  Flight'[p] \in Range(sent[Flight'[p].stream])
      OBVIOUS
    <3>1. p + 1 \in DOMAIN Flight /\ Flight'[p] = Flight[p + 1]
      BY <1>3, <1>6
    <3> QED
      BY <1>3, <3>1 DEF IInv, FlightKnown
  <2> QED
    BY <1>1, <2>1, <2>2 DEF FlightKnown, Sorted
<1>8. /\ taken' \in [Streams -> Seq(Frame)]
      /\ \A r \in Streams \ {s} : taken'[r] = taken[r]
      /\ (taken[s] = <<>> \/ After(f, Last(taken[s]))) => taken'[s] = Append(taken[s], f)
      /\ ~ (taken[s] = <<>> \/ After(f, Last(taken[s]))) => taken'[s] = taken[s]
  BY <1>1, <1>2, <1>3, <1>4
<1>9. ASSUME NEW r \in Streams
      PROVE  /\ Len(taken[r]) <= Len(taken'[r]) /\ Len(taken'[r]) <= Len(sent[r])
             /\ \A i \in DOMAIN taken'[r] : taken'[r][i] = sent[r][i]
             /\ \A i \in Len(taken'[r]) + 1 .. Len(sent[r]) :
                  i \in Len(taken[r]) + 1 .. Len(sent[r]) /\ f # sent[r][i]
  <2>1. /\ Len(taken[r]) <= Len(sent[r])
        /\ \A i \in DOMAIN taken[r] : taken[r][i] = sent[r][i]
    BY <1>9 DEF IInv, TakenIsPrefix
  <2>2. /\ Len(taken[r]) \in Nat /\ Len(sent[r]) \in Nat
        /\ taken[r] \in Seq(Frame) /\ sent[r] \in Seq(Frame)
        /\ DOMAIN sent[r] = 1 .. Len(sent[r])
    BY <1>2, <1>9
  <2>3. \A i \in DOMAIN sent[r] : sent[r][i].stream = r
    BY <1>9 DEF IInv, Numbered
  <2>4. CASE r # s
    <3>1. taken'[r] = taken[r]
      BY <1>8, <1>9, <2>4
    <3>2. \A i \in Len(taken[r]) + 1 .. Len(sent[r]) : i \in DOMAIN sent[r]
      BY <2>2
    <3>3. \A i \in DOMAIN sent[r] : f # sent[r][i]
      BY <2>3, <2>4 DEF s
    <3> QED
      BY <2>1, <2>2, <3>1, <3>2, <3>3
  <2>5. CASE r = s /\ (taken[s] = <<>> \/ After(f, Last(taken[s])))
    <3>1. taken'[r] = Append(taken[r], f) /\ Len(taken[r]) < Len(sent[r])
          /\ f = sent[r][Len(taken[r]) + 1]
      BY <1>3, <1>8, <2>5
    <3>2. /\ Len(taken'[r]) = Len(taken[r]) + 1
          /\ DOMAIN taken'[r] = 1 .. Len(taken[r]) + 1
          /\ taken'[r][Len(taken[r]) + 1] = f
          /\ \A i \in 1 .. Len(taken[r]) : taken'[r][i] = taken[r][i] /\ i \in DOMAIN taken[r]
      BY <1>3, <2>2, <3>1
    <3>3. \A i \in DOMAIN taken'[r] : taken'[r][i] = sent[r][i]
      BY <2>1, <2>2, <3>1, <3>2
    <3>4. ASSUME NEW i \in Len(taken'[r]) + 1 .. Len(sent[r]) PROVE f # sent[r][i]
      <4>1. /\ i \in DOMAIN sent[r] /\ Len(taken[r]) + 1 \in DOMAIN sent[r]
            /\ Len(taken[r]) + 1 < i
        BY <2>2, <3>1, <3>2, <3>4
      <4>2. After(sent[r][i], sent[r][Len(taken[r]) + 1])
        BY <1>9, <2>3, <4>1 DEF IInv, Numbered, Sorted
      <4> QED
        BY <1>3, <3>1, <4>2, AfterOrder
    <3>5. \A i \in Len(taken'[r]) + 1 .. Len(sent[r]) : i \in Len(taken[r]) + 1 .. Len(sent[r])
      BY <2>2, <3>2
    <3>6. Len(taken[r]) <= Len(taken'[r]) /\ Len(taken'[r]) <= Len(sent[r])
      BY <2>2, <3>1, <3>2
    <3> QED
      BY <3>3, <3>4, <3>5, <3>6
  <2>6. CASE r = s /\ ~ (taken[s] = <<>> \/ After(f, Last(taken[s])))
    <3>1. taken'[r] = taken[r] /\ \A i \in Len(taken[r]) + 1 .. Len(sent[r]) : f # sent[r][i]
      BY <1>3, <1>8, <2>6
    <3> QED
      BY <2>1, <2>2, <3>1
  <2> QED
    BY <2>4, <2>5, <2>6
<1>10. TypeOK' /\ Quiet'
  <2>1. wire' = Tail(wire) /\ linked' = linked /\ writer' = writer
    BY <1>1
  <2> QED
    BY <1>1, <1>3, <1>5, <1>8 DEF IInv, TypeOK, Quiet
<1>11. TakenIsPrefix'
  BY <1>1, <1>9 DEF TakenIsPrefix
<1>12. BufferIsTail'
  <2>1. ASSUME NEW r \in Streams
        PROVE  /\ Gone(r)' \in 0 .. Len(taken'[r])
               /\ \A i \in DOMAIN buffer'[r] : buffer'[r][i] = sent'[r][Gone(r)' + i]
    <3>1. PICK d : d = Gone(r)
      OBVIOUS
    <3>2. Gone(r)' = d
      BY <1>1, <3>1 DEF Gone
    <3>3. d \in 0 .. Len(taken[r]) /\ \A i \in DOMAIN buffer[r] : buffer[r][i] = sent[r][d + i]
      BY <2>1, <3>1 DEF IInv, BufferIsTail
    <3>4. d \in 0 .. Len(taken'[r])
      <4>1. Len(taken[r]) <= Len(taken'[r])
        BY <1>9, <2>1
      <4>2. d \in 0 .. Len(taken[r])
        BY <3>3
      <4> QED
        BY <1>2, <1>8, <4>1, <4>2
    <3> QED
      BY <1>1, <3>2, <3>3, <3>4
  <2> QED
    BY <2>1 DEF BufferIsTail
<1>13. MissingIsUnderWay'
  <2> SUFFICES ASSUME NEW r \in Streams, NEW i \in Len(taken'[r]) + 1 .. Len(sent[r])
               PROVE  sent[r][i] \in Range(Flight')
    BY <1>1 DEF MissingIsUnderWay, Flight
  <2>1. i \in Len(taken[r]) + 1 .. Len(sent[r]) /\ f # sent[r][i]
    BY <1>9
  <2>2. PICK p \in DOMAIN Flight : sent[r][i] = Flight[p]
    BY <1>3, <2>1 DEF IInv, MissingIsUnderWay, Flight, Range
  <2>3. p # 1
    BY <1>3, <2>1, <2>2
  <2>4. p - 1 \in DOMAIN Flight' /\ Flight'[p - 1] = Flight[p]
    BY <1>3, <1>6, <2>3
  <2> QED
    BY <2>2, <2>4 DEF Range
<1>14. Counted' /\ Numbered'
  BY <1>1 DEF IInv, Counted, Waiting, Numbered, Sorted
<1> QED
  BY <1>7, <1>10, <1>11, <1>12, <1>13, <1>14 DEF IInv

(* The places of a sequence in a set, once the sequence lost its head.     *)
LEMMA CountAfterTail ==
  ASSUME NEW n \in Nat, NEW A \in SUBSET (1 .. n + 1)
  PROVE  LET B == {i \in 1 .. n : i + 1 \in A}
         IN  /\ Cardinality(A) \in Nat /\ Cardinality(B) \in Nat
             /\ 1 \in A => Cardinality(A) = Cardinality(B) + 1
             /\ 1 \notin A => Cardinality(A) = Cardinality(B)
<1> DEFINE B == {i \in 1 .. n : i + 1 \in A}
           up == [i \in B |-> i + 1]
<1>1. IsFiniteSet(1 .. n + 1) /\ IsFiniteSet(1 .. n)
  BY FS_Interval
<1>2. IsFiniteSet(A) /\ IsFiniteSet(B)
  BY <1>1, FS_Subset
<1>3. up \in Bijection(B, A \ {1})
  <2>1. /\ B \subseteq Nat /\ \A i \in B : i + 1 \in A \ {1}
        /\ \A a \in A \ {1} : a - 1 \in B /\ (a - 1) + 1 = a
    OBVIOUS
  <2> HIDE DEF B
  <2>2. up \in [B -> A \ {1}]
    BY <2>1
  <2>3. DOMAIN up = B /\ \A i \in B : up[i] = i + 1
    OBVIOUS
  <2> HIDE DEF up
  <2>4. \A a, b \in B : up[a] = up[b] => a = b
    BY <2>1, <2>3
  <2>5. \A a \in A \ {1} : up[a - 1] = a
    BY <2>1, <2>3
  <2> QED
    BY <2>1, <2>2, <2>3, <2>4, <2>5 DEF Bijection, Injection, IsInjective, Surjection
<1>4. ExistsBijection(B, A \ {1})
  BY <1>3 DEF ExistsBijection
<1>5. Cardinality(A \ {1}) = Cardinality(B)
  BY <1>2, <1>4, FS_Bijection
<1>6. Cardinality(A) \in Nat /\ Cardinality(B) \in Nat
  BY <1>2, FS_CardinalityType
<1>7. Cardinality(A \ {1}) = IF 1 \in A THEN Cardinality(A) - 1 ELSE Cardinality(A)
  BY <1>2, FS_RemoveElement
<1> QED
  BY <1>5, <1>6, <1>7

(* What the writer's critical section does, for the message m it takes.    *)
LEMMA Prepared ==
  ASSUME IInv, Prepare, NEW s, s = Head(queue).stream,
         NEW F, F = Split(s, nextSeq[s], Head(queue).cut)
  PROVE  /\ s \in Streams /\ nextSeq[s] \in 1 .. MaxMessages
         /\ F \in Seq(Frame) /\ Sorted(F)
         /\ \A i \in DOMAIN F : F[i].stream = s /\ F[i].seq = nextSeq[s]
         /\ nextSeq' = [nextSeq EXCEPT ![s] = @ + 1]
         /\ buffer' = [buffer EXCEPT ![s] = @ \o F]
         /\ sent' = [sent EXCEPT ![s] = @ \o F]
         /\ pending' = F /\ pending = <<>> /\ queue' = Tail(queue) /\ writer = "running"
         /\ UNCHANGED <<offered, writer, linked, wire, breaks, taken>>
         /\ Counted'
<1>1. /\ nextSeq' = [nextSeq EXCEPT ![s] = @ + 1]
      /\ buffer' = [buffer EXCEPT ![s] = @ \o F]
      /\ sent' = [sent EXCEPT ![s] = @ \o F]
      /\ pending' = F /\ pending = <<>> /\ queue' = Tail(queue) /\ writer = "running"
      /\ queue # <<>>
      /\ UNCHANGED <<offered, writer, linked, wire, breaks, taken>>
  BY DEF Prepare
<1>2. /\ queue \in Seq([stream : Streams, cut : 0 .. MaxSegments])
      /\ nextSeq \in [Streams -> 1 .. MaxMessages + 1]
      /\ offered \in [Streams -> 0 .. MaxMessages]
  BY DEF IInv, TypeOK
<1>3. /\ Head(queue) \in [stream : Streams, cut : 0 .. MaxSegments] /\ Head(queue) = queue[1]
      /\ Len(queue) \in Nat \ {0} /\ Len(Tail(queue)) = Len(queue) - 1
      /\ DOMAIN queue = 1 .. Len(queue) /\ DOMAIN Tail(queue) = 1 .. Len(queue) - 1
      /\ \A i \in 1 .. Len(queue) - 1 : Tail(queue)[i] = queue[i + 1]
  BY <1>1, <1>2, TailIndexed
<1>4. s \in Streams /\ Head(queue).cut \in 0 .. MaxSegments
  BY <1>3
<1>5. PICK n \in Nat : Len(queue) = n + 1
  <2>1. Len(queue) - 1 \in Nat /\ Len(queue) = (Len(queue) - 1) + 1
    BY <1>3
  <2> QED
    BY <2>1
<1>6. ASSUME NEW r \in Streams
      PROVE  /\ Cardinality(Waiting(r)) \in Nat /\ Cardinality(Waiting(r)') \in Nat
             /\ r = s => Cardinality(Waiting(r)) = Cardinality(Waiting(r)') + 1
             /\ r # s => Cardinality(Waiting(r)) = Cardinality(Waiting(r)')
  <2>1. Waiting(r) \in SUBSET (1 .. n + 1)
    BY <1>3, <1>5 DEF Waiting
  <2>2. Waiting(r)' = {i \in 1 .. n : i + 1 \in Waiting(r)}
    <3>1. DOMAIN queue' = 1 .. n
      <4>1. Len(queue) - 1 = n /\ queue' = Tail(queue)
        BY <1>1, <1>3, <1>5
      <4> QED
        BY ONLY <1>3, <4>1
    <3>2. \A i \in 1 .. n : queue'[i] = queue[i + 1] /\ i + 1 \in DOMAIN queue
      <4>1. Len(queue) - 1 = n /\ queue' = Tail(queue)
        BY <1>1, <1>3, <1>5
      <4>2. \A i \in 1 .. n : queue'[i] = queue[i + 1]
        BY ONLY <1>3, <4>1
      <4>3. \A i \in 1 .. n : i + 1 \in DOMAIN queue
        BY ONLY <1>3, <1>5
      <4> QED
        BY ONLY <4>2, <4>3
    <3>3. Waiting(r)' = {i \in DOMAIN queue' : queue'[i].stream = r}
      BY DEF Waiting
    <3> QED
      BY <3>1, <3>2, <3>3 DEF Waiting
  <2>3. 1 \in Waiting(r) <=> r = s
    BY <1>3 DEF Waiting
  <2> QED
    BY <2>1, <2>2, <2>3, CountAfterTail
<1>7. ASSUME NEW r \in Streams
      PROVE  nextSeq[r] + Cardinality(Waiting(r)) = offered[r] + 1
  BY <1>7 DEF IInv, Counted
<1>8. nextSeq[s] \in 1 .. MaxMessages
  <2>1. PICK c \in Nat : Cardinality(Waiting(s)) = c + 1
    BY <1>4, <1>6
  <2>2. nextSeq[s] + (c + 1) = offered[s] + 1
    BY <1>4, <1>7, <2>1
  <2> QED
    BY <1>2, <1>4, <2>2, OutboundAssumption
<1>9. Counted'
  <2> SUFFICES ASSUME NEW r \in Streams
               PROVE  nextSeq'[r] + Cardinality(Waiting(r)') = offered'[r] + 1
    BY DEF Counted
  <2>1. CASE r = s
    <3>1. nextSeq'[r] = nextSeq[r] + 1 /\ offered'[r] = offered[r]
      BY <1>1, <1>2, <1>4, <2>1
    <3>2. nextSeq[r] \in Nat /\ offered[r] \in Nat
      BY <1>2
    <3> QED
      BY <1>6, <1>7, <2>1, <3>1, <3>2
  <2>2. CASE r # s
    <3>1. nextSeq'[r] = nextSeq[r] /\ offered'[r] = offered[r]
      BY <1>1, <1>2, <2>2
    <3> QED
      BY <1>6, <1>7, <2>2, <3>1
  <2> QED
    BY <2>1, <2>2
<1>10. /\ F \in Seq(Frame) /\ Sorted(F)
       /\ \A i \in DOMAIN F : F[i].stream = s /\ F[i].seq = nextSeq[s]
  BY <1>4, <1>8, SplitSorted
<1> QED
  BY <1>1, <1>4, <1>8, <1>9, <1>10

(* Frames in order, followed by frames beyond them.                        *)
LEMMA SortedConcat ==
  ASSUME NEW q \in Seq(Frame), NEW t \in Seq(Frame), Sorted(q), Sorted(t),
         \A i \in DOMAIN q, j \in DOMAIN t : q[i].stream = t[j].stream => After(t[j], q[i])
  PROVE  Sorted(q \o t)
<1> DEFINE w == q \o t
           n == Len(q)
<1>1. /\ n \in Nat /\ Len(t) \in Nat /\ DOMAIN w = 1 .. n + Len(t)
      /\ DOMAIN q = 1 .. n /\ DOMAIN t = 1 .. Len(t)
      /\ \A i \in 1 .. n : w[i] = q[i]
      /\ \A i \in 1 .. n + Len(t) :
           i \in 1 .. n \/ (i - n \in 1 .. Len(t) /\ w[i] = t[i - n])
  BY ConcatIndexed
<1> HIDE DEF w, n
<1>2. SUFFICES ASSUME NEW i \in DOMAIN w, NEW j \in DOMAIN w, i < j, w[i].stream = w[j].stream
               PROVE  After(w[j], w[i])
  BY DEF Sorted, w
<1>3. CASE j \in 1 .. n
  <2>1. i \in 1 .. n
    BY <1>1, <1>2, <1>3
  <2> QED
    BY <1>1, <1>2, <1>3, <2>1 DEF Sorted
<1>4. CASE j \notin 1 .. n /\ i \in 1 .. n
  <2>1. j - n \in DOMAIN t /\ w[j] = t[j - n] /\ i \in DOMAIN q /\ w[i] = q[i]
    BY <1>1, <1>2, <1>4
  <2> QED
    BY <1>2, <2>1
<1>5. CASE j \notin 1 .. n /\ i \notin 1 .. n
  <2>1. j - n \in DOMAIN t /\ w[j] = t[j - n] /\ i - n \in DOMAIN t /\ w[i] = t[i - n]
    BY <1>1, <1>2, <1>5
  <2>2. i - n < j - n
    BY <1>1, <1>2
  <2> QED
    BY <1>2, <2>1, <2>2 DEF Sorted
<1> QED
  BY <1>3, <1>4, <1>5

(* A message is numbered, cut and buffered before its first frame flies.   *)
LEMMA PrepareStep ==
  ASSUME IInv, Prepare
  PROVE  IInv'
<1>0. SUFFICES ASSUME NEW s, s = Head(queue).stream,
                      NEW F, F = Split(s, nextSeq[s], Head(queue).cut)
               PROVE  IInv'
  OBVIOUS
<1>1. /\ s \in Streams /\ nextSeq[s] \in 1 .. MaxMessages
      /\ F \in Seq(Frame) /\ Sorted(F)
      /\ \A i \in DOMAIN F : F[i].stream = s /\ F[i].seq = nextSeq[s]
      /\ nextSeq' = [nextSeq EXCEPT ![s] = @ + 1]
      /\ buffer' = [buffer EXCEPT ![s] = @ \o F]
      /\ sent' = [sent EXCEPT ![s] = @ \o F]
      /\ pending' = F /\ pending = <<>> /\ queue' = Tail(queue) /\ writer = "running"
      /\ UNCHANGED <<offered, writer, linked, wire, breaks, taken>>
      /\ Counted'
  <2>1. s \in Streams /\ nextSeq[s] \in 1 .. MaxMessages
    BY <1>0, Prepared
  <2>2. /\ F \in Seq(Frame) /\ Sorted(F)
        /\ \A i \in DOMAIN F : F[i].stream = s /\ F[i].seq = nextSeq[s]
    BY <1>0, Prepared
  <2>3. nextSeq' = [nextSeq EXCEPT ![s] = @ + 1]
    BY <1>0, Prepared
  <2>4. /\ buffer' = [buffer EXCEPT ![s] = @ \o F]
        /\ sent' = [sent EXCEPT ![s] = @ \o F]
    BY <1>0, Prepared
  <2>5. /\ pending' = F /\ pending = <<>> /\ queue' = Tail(queue) /\ writer = "running"
        /\ UNCHANGED <<offered, writer, linked, wire, breaks, taken>>
    BY <1>0, Prepared
  <2>6. Counted'
    BY <1>0, Prepared
  <2> QED
    BY <2>1, <2>2, <2>3, <2>4, <2>5, <2>6, Zenon
<1>2. queue # <<>>
  BY DEF Prepare
<1>3. /\ sent \in [Streams -> Seq(Frame)] /\ taken \in [Streams -> Seq(Frame)]
      /\ buffer \in [Streams -> Seq(Frame)]
      /\ nextSeq \in [Streams -> 1 .. MaxMessages + 1]
      /\ wire \in Seq(Frame)
  BY DEF IInv, TypeOK
<1>4. /\ sent' \in [Streams -> Seq(Frame)] /\ buffer' \in [Streams -> Seq(Frame)]
      /\ sent'[s] = sent[s] \o F /\ buffer'[s] = buffer[s] \o F
      /\ \A r \in Streams \ {s} : sent'[r] = sent[r] /\ buffer'[r] = buffer[r]
  BY <1>1, <1>3
<1>5. /\ nextSeq' \in [Streams -> 1 .. MaxMessages + 1]
      /\ nextSeq'[s] = nextSeq[s] + 1
      /\ \A r \in Streams \ {s} : nextSeq'[r] = nextSeq[r]
  BY <1>1, <1>3, OutboundAssumption
<1>6. /\ sent[s] \in Seq(Frame) /\ buffer[s] \in Seq(Frame) /\ nextSeq[s] \in Nat
      /\ DOMAIN F = 1 .. Len(F) /\ Len(F) \in Nat
  BY <1>1, <1>3
<1> DEFINE L == Len(sent[s])
<1>7. /\ L \in Nat /\ Len(sent'[s]) = L + Len(F) /\ DOMAIN sent[s] = 1 .. L
      /\ DOMAIN sent'[s] = 1 .. L + Len(F)
      /\ \A i \in 1 .. L : sent'[s][i] = sent[s][i]
      /\ \A i \in 1 .. Len(F) : sent'[s][L + i] = F[i]
      /\ \A i \in 1 .. L + Len(F) :
           i \in 1 .. L \/ (i - L \in 1 .. Len(F) /\ sent'[s][i] = F[i - L])
  BY <1>1, <1>4, <1>6, ConcatIndexed
<1> HIDE DEF L
<1>8. ASSUME NEW r \in Streams
      PROVE  /\ Sorted(sent[r])
             /\ \A i \in DOMAIN sent[r] : sent[r][i].stream = r /\ sent[r][i].seq < nextSeq[r]
  BY <1>8 DEF IInv, Numbered
<1>9. ASSUME NEW g \in Frame, g.stream = s, g.seq < nextSeq[s], NEW i \in DOMAIN F
      PROVE  After(F[i], g)
  BY <1>1, <1>6, <1>9, FrameFields DEF After
<1>10. TypeOK'
  <2>1. /\ queue' \in Seq([stream : Streams, cut : 0 .. MaxSegments])
        /\ Len(queue') <= QueueSize
    <3>1. /\ queue \in Seq([stream : Streams, cut : 0 .. MaxSegments])
          /\ Len(queue) <= QueueSize
      BY DEF IInv, TypeOK
    <3>2. /\ Tail(queue) \in Seq([stream : Streams, cut : 0 .. MaxSegments])
          /\ Len(Tail(queue)) = Len(queue) - 1 /\ Len(queue) \in Nat
      BY <1>2, <3>1
    <3> QED
      BY <1>1, <3>1, <3>2, OutboundAssumption
  <2> QED
    BY <1>1, <1>4, <1>5, <2>1 DEF IInv, TypeOK
<1>11. Numbered'
  <2>1. Sorted(sent'[s])
    <3>1. \A i \in DOMAIN sent[s], j \in DOMAIN F : After(F[j], sent[s][i])
      <4>1. \A i \in DOMAIN sent[s] : sent[s][i] \in Frame
        BY <1>6
      <4> QED
        BY <1>1, <1>8, <1>9, <4>1
    <3> QED
      BY <1>1, <1>4, <1>6, <1>8, <3>1, SortedConcat
  <2>2. ASSUME NEW i \in DOMAIN sent'[s]
        PROVE  sent'[s][i].stream = s /\ sent'[s][i].seq < nextSeq'[s]
    <3>1. CASE i \in 1 .. L
      <4>1. sent[s][i] \in Frame
        BY <1>6, <1>7, <3>1
      <4>2. sent[s][i].seq \in Nat /\ sent[s][i].seq < nextSeq[s] /\ sent[s][i].stream = s
        BY <1>1, <1>7, <1>8, <3>1, <4>1, FrameFields
      <4> QED
        BY <1>5, <1>6, <1>7, <3>1, <4>2, SMTT(30)
    <3>2. CASE i - L \in 1 .. Len(F) /\ sent'[s][i] = F[i - L]
      BY <1>1, <1>5, <1>6, <3>2, SMTT(30)
    <3> QED
      BY <1>7, <2>2, <3>1, <3>2
  <2>3. ASSUME NEW r \in Streams, r # s
        PROVE  /\ Sorted(sent'[r])
               /\ \A i \in DOMAIN sent'[r] : sent'[r][i].stream = r /\ sent'[r][i].seq < nextSeq'[r]
    <3>1. sent'[r] = sent[r] /\ nextSeq'[r] = nextSeq[r]
      BY <1>4, <1>5, <2>3
    <3> QED
      BY <1>8, <3>1
  <2>4. \A r \in Streams :
          /\ Sorted(sent'[r])
          /\ \A i \in DOMAIN sent'[r] : sent'[r][i].stream = r /\ sent'[r][i].seq < nextSeq'[r]
    BY <2>1, <2>2, <2>3
  <2> QED
    BY <2>4 DEF Numbered, Sorted
<1>12. BufferIsTail'
  <2>1. ASSUME NEW r \in Streams, r # s
        PROVE  /\ Gone(r)' \in 0 .. Len(taken'[r])
               /\ \A i \in DOMAIN buffer'[r] : buffer'[r][i] = sent'[r][Gone(r)' + i]
    <3>1. Gone(r)' = Gone(r) /\ buffer'[r] = buffer[r] /\ sent'[r] = sent[r]
      BY <1>4, <2>1 DEF Gone
    <3> QED
      BY <1>1, <3>1 DEF IInv, BufferIsTail
  <2>2. PICK d : d = Gone(s)
    OBVIOUS
  <2>3. /\ d \in 0 .. Len(taken[s]) /\ d = L - Len(buffer[s])
        /\ \A i \in DOMAIN buffer[s] : buffer[s][i] = sent[s][d + i]
    BY <1>1, <2>2 DEF IInv, BufferIsTail, Gone, L
  <2> DEFINE B == Len(buffer[s])
  <2>4. /\ B \in Nat /\ Len(buffer'[s]) = B + Len(F) /\ DOMAIN buffer[s] = 1 .. B
        /\ DOMAIN buffer'[s] = 1 .. B + Len(F)
        /\ \A i \in 1 .. B : buffer'[s][i] = buffer[s][i]
        /\ \A i \in 1 .. B + Len(F) :
             i \in 1 .. B \/ (i - B \in 1 .. Len(F) /\ buffer'[s][i] = F[i - B])
    BY <1>1, <1>4, <1>6, ConcatIndexed
  <2>5. d \in Int /\ d = L - B
    BY <2>3, <2>4, <1>7
  <2>6. d \in Nat
    <3>1. Len(taken[s]) \in Nat
      BY <1>1, <1>3
    <3> QED
      BY <2>3, <3>1
  <2> HIDE DEF B
  <2>7. Gone(s)' = d
    <3>1. Gone(s)' = (L + Len(F)) - (B + Len(F))
      BY <1>7, <2>4 DEF Gone
    <3> QED
      BY <1>6, <1>7, <2>4, <2>5, <3>1
  <2>8. ASSUME NEW i \in DOMAIN buffer'[s] PROVE buffer'[s][i] = sent'[s][d + i]
    <3>1. CASE i \in 1 .. B
      <4>1. d + i \in 1 .. L
        BY <1>7, <2>4, <2>5, <2>6, <3>1
      <4> QED
        BY <1>7, <2>3, <2>4, <3>1, <4>1
    <3>2. CASE i - B \in 1 .. Len(F) /\ buffer'[s][i] = F[i - B]
      <4>1. d + i = L + (i - B) /\ d + i \in 1 .. L + Len(F)
        BY <1>6, <1>7, <2>4, <2>5, <3>2, SMTT(30)
      <4> QED
        BY <1>7, <3>2, <4>1
    <3> QED
      BY <2>4, <2>8, <3>1, <3>2
  <2>9. Gone(s)' \in 0 .. Len(taken'[s])
    BY <1>1, <2>3, <2>7
  <2>10. \A i \in DOMAIN buffer'[s] : buffer'[s][i] = sent'[s][Gone(s)' + i]
    BY <2>7, <2>8
  <2> QED
    BY <2>1, <2>9, <2>10 DEF BufferIsTail
<1>13. TakenIsPrefix'
  <2> SUFFICES ASSUME NEW r \in Streams
               PROVE  /\ Len(taken[r]) <= Len(sent'[r])
                      /\ \A i \in DOMAIN taken[r] : taken[r][i] = sent'[r][i]
    BY <1>1 DEF TakenIsPrefix
  <2>1. /\ Len(taken[r]) <= Len(sent[r])
        /\ \A i \in DOMAIN taken[r] : taken[r][i] = sent[r][i]
    BY DEF IInv, TakenIsPrefix
  <2>2. CASE r # s
    BY <1>4, <2>1, <2>2
  <2>3. CASE r = s
    <3>1. Len(taken[s]) \in Nat /\ DOMAIN taken[s] = 1 .. Len(taken[s])
      BY <1>1, <1>3
    <3>2. Len(taken[s]) <= L
      BY <2>1, <2>3 DEF L
    <3>3. \A i \in DOMAIN taken[s] : i \in 1 .. L
      BY <1>7, <3>1, <3>2
    <3>4. Len(taken[s]) <= Len(sent'[s])
      BY <1>6, <1>7, <3>1, <3>2
    <3> QED
      BY <1>7, <2>1, <2>3, <3>3, <3>4
  <2> QED
    BY <2>2, <2>3
<1>14. Flight = wire /\ Flight' = wire \o F
  BY <1>1, <1>3 DEF Flight
<1>15. /\ Len(wire) \in Nat /\ DOMAIN (wire \o F) = 1 .. Len(wire) + Len(F)
       /\ DOMAIN wire = 1 .. Len(wire)
       /\ \A p \in 1 .. Len(wire) : (wire \o F)[p] = wire[p]
       /\ \A p \in 1 .. Len(wire) + Len(F) :
            \/ p \in 1 .. Len(wire)
            \/ p - Len(wire) \in 1 .. Len(F) /\ (wire \o F)[p] = F[p - Len(wire)]
  BY <1>1, <1>3, ConcatIndexed
<1>16. /\ \A r \in Streams : Range(sent[r]) \subseteq Range(sent'[r])
       /\ \A i \in DOMAIN F : F[i] \in Range(sent'[s])
  <2>1. Range(sent'[s]) = Range(sent[s]) \cup Range(F)
    BY <1>1, <1>4, <1>6, RangeOfConcat
  <2>2. \A i \in DOMAIN F : F[i] \in Range(F)
    BY DEF Range
  <2> QED
    BY <1>1, <1>4, <2>1, <2>2
<1>17. FlightKnown'
  <2> SUFFICES ASSUME linked PROVE Sorted(wire \o F) /\ \A p \in DOMAIN (wire \o F) :
                                     (wire \o F)[p] \in Range(sent'[(wire \o F)[p].stream])
    BY <1>1, <1>14 DEF FlightKnown, Sorted
  <2>1. /\ Sorted(wire)
        /\ \A p \in DOMAIN wire : wire[p] \in Range(sent[wire[p].stream])
    BY <1>14 DEF IInv, FlightKnown
  <2>2. \A p \in DOMAIN wire : wire[p] \in Frame /\ wire[p].stream \in Streams
    BY <1>3, FrameFields
  <2>3. ASSUME NEW p \in DOMAIN wire, NEW i \in DOMAIN F, wire[p].stream = F[i].stream
        PROVE  After(F[i], wire[p])
    <3>1. wire[p].stream = s
      BY <1>1, <2>3
    <3>2. PICK j \in DOMAIN sent[s] : wire[p] = sent[s][j]
      BY <2>1, <3>1 DEF Range
    <3>3. wire[p].seq < nextSeq[s]
      BY <1>1, <1>8, <3>2
    <3> QED
      BY <1>9, <2>2, <3>1, <3>3
  <2>4. Sorted(wire \o F)
    BY <1>1, <1>3, <2>1, <2>3, SortedConcat
  <2>5. ASSUME NEW p \in DOMAIN (wire \o F)
        PROVE  (wire \o F)[p] \in Range(sent'[(wire \o F)[p].stream])
    <3>1. CASE p \in 1 .. Len(wire)
      <4>1. p \in DOMAIN wire /\ (wire \o F)[p] = wire[p]
        BY <1>15, <3>1
      <4>2. wire[p] \in Range(sent'[wire[p].stream])
        BY <1>16, <2>1, <2>2, <4>1
      <4> QED
        BY <4>1, <4>2
    <3>2. CASE p - Len(wire) \in 1 .. Len(F) /\ (wire \o F)[p] = F[p - Len(wire)]
      BY <1>1, <1>6, <1>16, <3>2
    <3> QED
      BY <1>15, <2>5, <3>1, <3>2
  <2> QED
    BY <2>4, <2>5
<1>18. MissingIsUnderWay'
  <2> SUFFICES ASSUME linked, NEW r \in Streams,
                      NEW i \in Len(taken[r]) + 1 .. Len(sent'[r])
               PROVE  sent'[r][i] \in Range(wire \o F)
    BY <1>1 DEF MissingIsUnderWay
  <2>1. Range(wire \o F) = Range(wire) \cup Range(F)
    BY <1>1, <1>3, RangeOfConcat
  <2>2. ASSUME NEW j \in Len(taken[r]) + 1 .. Len(sent[r]) PROVE sent[r][j] \in Range(wire)
    BY <1>1, <1>14, <2>2 DEF IInv, MissingIsUnderWay, Flight
  <2>3. CASE r # s
    <3>1. sent'[r] = sent[r]
      BY <1>4, <2>3
    <3> QED
      BY <2>1, <2>2, <3>1
  <2>4. CASE r = s
    <3>1. Len(taken[s]) \in Nat
      BY <1>1, <1>3
    <3>2. i \in 1 .. L + Len(F)
      BY <1>6, <1>7, <2>4, <3>1
    <3>3. CASE i \in 1 .. L
      <4>1. i \in Len(taken[r]) + 1 .. Len(sent[r])
        BY <1>7, <2>4, <3>1, <3>3 DEF L
      <4> QED
        BY <1>7, <2>1, <2>2, <2>4, <3>3, <4>1
    <3>4. CASE i - L \in 1 .. Len(F) /\ sent'[s][i] = F[i - L]
      <4>1. F[i - L] \in Range(F)
        BY <1>6, <3>4 DEF Range
      <4> QED
        BY <2>1, <2>4, <3>4, <4>1
    <3> QED
      BY <1>7, <3>2, <3>3, <3>4
  <2> QED
    BY <2>3, <2>4
<1>19. Quiet'
  BY <1>1 DEF IInv, Quiet
<1> QED
  BY <1>1, <1>10, <1>11, <1>12, <1>13, <1>17, <1>18, <1>19 DEF IInv

(* Every step keeps the inductive invariant.                               *)
LEMMA NextIInv == IInv /\ [Next]_vars => IInv'
<1> SUFFICES ASSUME IInv, [Next]_vars PROVE IInv'
  OBVIOUS
<1>1. CASE Connect BY <1>1, ConnectionStep
<1>2. CASE Snapshot BY <1>2, SnapshotStep
<1>3. CASE Prepare BY <1>3, PrepareStep
<1>4. CASE Write BY <1>4, WriteStep
<1>5. CASE WriterReturns BY <1>5, ConnectionStep
<1>6. ASSUME NEW s \in Streams, SendServerEnvelope(s) PROVE IInv' BY <1>6, SendStep
<1>7. ASSUME NEW s \in Streams, Ack(s) PROVE IInv' BY <1>7, AckStep
<1>8. CASE Break BY <1>8, ConnectionStep
<1>9. CASE Receive BY <1>9, ReceiveStep
<1>10. CASE UNCHANGED vars BY <1>10, ConnectionStep
<1> QED
  BY <1>1, <1>2, <1>3, <1>4, <1>5, <1>6, <1>7, <1>8, <1>9, <1>10 DEF Next, Writer

(* The inductive invariant holds in every reachable state.                 *)
LEMMA Invariance == Spec => []IInv
<1>1. Init => IInv
  BY InitIInv
<1>2. IInv /\ [Next]_vars => IInv'
  BY NextIInv
<1> QED
  BY <1>1, <1>2, PTL DEF Spec

----------------------------------------------------------------------------
(* The properties.                                                         *)

(* RunServerWriter and the handlers of the connection keep the state's     *)
(* types, the queue's capacity and the sequence numbers' range.            *)
THEOREM TypeCorrect == Spec => []TypeOK
<1>1. IInv => TypeOK
  BY DEF IInv
<1> QED
  BY <1>1, Invariance, PTL

(* A sequence is a prefix of one that has the same first elements.         *)
LEMMA BeginsWith ==
  ASSUME NEW q \in Seq(Frame), NEW t \in Seq(Frame), Len(q) <= Len(t),
         \A i \in 1 .. Len(q) : q[i] = t[i]
  PROVE  IsPrefix(q, t)
BY DEF IsPrefix

(* A sequence that starts g places into another and ends with it.          *)
LEMMA EndsWith ==
  ASSUME NEW q \in Seq(Frame), NEW t \in Seq(Frame), NEW g \in Nat,
         Len(t) = g + Len(q), \A i \in DOMAIN q : q[i] = t[g + i]
  PROVE  IsSuffix(q, t)
<1>1. Len(q) \in Nat /\ Len(t) \in Nat /\ DOMAIN q = 1 .. Len(q) /\ DOMAIN t = 1 .. Len(t)
  OBVIOUS
<1> DEFINE rq == Reverse(q)
           rt == Reverse(t)
<1>2. /\ Len(rq) = Len(q) /\ Len(rt) = Len(t)
      /\ \A i \in 1 .. Len(q) : rq[i] = q[Len(q) - i + 1]
      /\ \A i \in 1 .. Len(t) : rt[i] = t[Len(t) - i + 1]
      /\ rq \in Seq(Frame) /\ rt \in Seq(Frame)
  BY <1>1 DEF Reverse
<1> HIDE DEF rq, rt
<1>3. ASSUME NEW i \in 1 .. Len(q) PROVE rq[i] = rt[i]
  <2>1. Len(q) - i + 1 \in DOMAIN q /\ g + (Len(q) - i + 1) = Len(t) - i + 1 /\ i \in 1 .. Len(t)
    BY <1>1, <1>3
  <2>2. \A k \in DOMAIN q : q[k] = t[g + k]
    OBVIOUS
  <2>3. q[Len(q) - i + 1] = t[Len(t) - i + 1]
    <3>1. q[Len(q) - i + 1] = t[g + (Len(q) - i + 1)]
      BY <2>1, <2>2
    <3> QED
      BY <2>1, <3>1, Zenon
  <2> QED
    BY <1>2, <1>3, <2>1, <2>3
<1>4. IsPrefix(rq, rt)
  <2>1. Len(rq) <= Len(rt)
    BY <1>1, <1>2
  <2>2. \A i \in 1 .. Len(rq) : rq[i] = rt[i]
    BY <1>2, <1>3
  <2>3. rq \in Seq(Frame) /\ rt \in Seq(Frame)
    BY <1>2
  <2> QED
    BY ONLY <2>1, <2>2, <2>3, BeginsWith
<1> QED
  BY <1>4 DEF IsSuffix, rq, rt

(* ServerEnvelopeBuffer.Ack with RunServerWriter: the buffer of a stream   *)
(* is the tail of what was sent on it and holds every frame the peer has   *)
(* not taken, whatever the order of acknowledgements and breaks.           *)
THEOREM BufferCovers == Spec => []BufferCoversUntaken
<1>1. IInv => BufferCoversUntaken
  <2> SUFFICES ASSUME IInv, NEW s \in Streams
               PROVE  /\ IsSuffix(buffer[s], sent[s])
                      /\ Len(sent[s]) - Len(buffer[s]) <= Len(taken[s])
    BY DEF BufferCoversUntaken
  <2>1. PICK d : d = Gone(s)
    OBVIOUS
  <2>2. /\ d \in 0 .. Len(taken[s]) /\ d = Len(sent[s]) - Len(buffer[s])
        /\ \A i \in DOMAIN buffer[s] : buffer[s][i] = sent[s][d + i]
    BY <2>1 DEF IInv, BufferIsTail, Gone
  <2>3. /\ sent[s] \in Seq(Frame) /\ buffer[s] \in Seq(Frame)
        /\ Len(sent[s]) \in Nat /\ Len(buffer[s]) \in Nat /\ Len(taken[s]) \in Nat
    BY Typed DEF IInv
  <2>4. d \in Nat /\ Len(sent[s]) = d + Len(buffer[s]) /\ d <= Len(taken[s])
    <3>1. d \in 0 .. Len(taken[s]) /\ d = Len(sent[s]) - Len(buffer[s])
      BY <2>2
    <3>2. /\ sent \in [Streams -> Seq(Frame)] /\ buffer \in [Streams -> Seq(Frame)]
          /\ taken \in [Streams -> Seq(Frame)]
      BY DEF IInv, TypeOK
    <3> QED
      BY <3>1, <3>2
  <2>5. IsSuffix(buffer[s], sent[s])
    BY <2>2, <2>3, <2>4, EndsWith
  <2> QED
    BY <2>2, <2>4, <2>5
<1> QED
  BY <1>1, Invariance, PTL

(* RunServerWriter: on a live connection with a running writer every frame *)
(* the peer misses is in flight or about to be written.                    *)
THEOREM MissingUnderWay == Spec => []MissingIsUnderWay
<1>1. IInv => MissingIsUnderWay
  BY DEF IInv
<1> QED
  BY <1>1, Invariance, PTL

----------------------------------------------------------------------------
(* The relay implements the stream it promises.                            *)

(* A sequence that goes on starts with what it was.                        *)
LEMMA StartsWith ==
  ASSUME NEW q \in Seq(Frame), NEW t \in Seq(Frame)
  PROVE  IsPrefix(q, q \o t)
BY DEF IsPrefix

(* RunServerWriter, prepareQueuedServerEnvelope and Ack, over connections  *)
(* that break: buffering a message accepts its frames on the stream, the   *)
(* peer's taking a frame delivers the next one, and no other step touches  *)
(* the stream.  The fairness of Promised!FairSpec is left to TLC.          *)
THEOREM ImplementsStreams == Spec => Promised!Spec
<1>1. Init => Promised!Init
  BY DEF Init, Promised!Init
<1>2. ASSUME IInv, [Next]_vars PROVE [Promised!Next]_(Promised!streamVars)
  <2>1. CASE UNCHANGED <<sent, taken>>
    BY <2>1 DEF Promised!streamVars
  <2>2. CASE Prepare
    <3> SUFFICES ASSUME NEW s, s = Head(queue).stream,
                        NEW F, F = Split(s, nextSeq[s], Head(queue).cut)
                 PROVE  Promised!Next
      OBVIOUS
    <3>1. s \in Streams /\ F \in Seq(Frame)
      BY <2>2, <1>2, Prepared
    <3>2. sent' = [sent EXCEPT ![s] = @ \o F]
      BY <2>2, <1>2, Prepared
    <3>3. taken' = taken
      BY <2>2 DEF Prepare
    <3>4. sent \in [Streams -> Seq(Frame)]
      BY <1>2 DEF IInv, TypeOK
    <3>5. sent'[s] = sent[s] \o F /\ sent[s] \in Seq(Frame)
      BY <3>1, <3>2, <3>4
    <3>6. IsPrefix(sent[s], sent'[s])
      BY <3>1, <3>5, StartsWith
    <3>7. sent' = [sent EXCEPT ![s] = sent'[s]]
      BY <3>2, <3>5
    <3>8. Promised!Accept(s)
      BY <3>3, <3>6, <3>7, Zenon DEF Promised!Accept, IsPrefix, Promised!IsPrefix
    <3> QED
      BY <3>1, <3>8 DEF Promised!Next
  <2>3. CASE Receive
    <3> SUFFICES ASSUME NEW f, f = Head(wire)
                 PROVE  Promised!Next \/ UNCHANGED <<sent, taken>>
      BY DEF Promised!streamVars
    <3>1. /\ f \in Frame
          /\ (taken[f.stream] = <<>> \/ After(f, Last(taken[f.stream]))) =>
               /\ Len(taken[f.stream]) < Len(sent[f.stream])
               /\ f = sent[f.stream][Len(taken[f.stream]) + 1]
      <4>1. wire # <<>>
        BY <2>3 DEF Receive
      <4> QED
        BY <1>2, <4>1, ReceivedIsNext
    <3>2. /\ sent' = sent
          /\ taken' = IF taken[f.stream] = <<>> \/ After(f, Last(taken[f.stream]))
                      THEN [taken EXCEPT ![f.stream] = Append(@, f)] ELSE taken
      BY <2>3 DEF Receive, state
    <3>3. CASE taken[f.stream] = <<>> \/ After(f, Last(taken[f.stream]))
      <4>1. Promised!Deliver(f.stream)
        BY <3>1, <3>2, <3>3 DEF Promised!Deliver
      <4>2. f.stream \in Streams
        BY <3>1, FrameFields
      <4> QED
        BY <4>1, <4>2 DEF Promised!Next
    <3>4. CASE ~ (taken[f.stream] = <<>> \/ After(f, Last(taken[f.stream])))
      BY <3>2, <3>4
    <3> QED
      BY <3>3, <3>4
  <2>4. CASE Connect BY <2>1, <2>4 DEF Connect, state
  <2>5. CASE Snapshot BY <2>1, <2>5 DEF Snapshot, state
  <2>6. CASE Write BY <2>1, <2>6 DEF Write, state
  <2>7. CASE WriterReturns BY <2>1, <2>7 DEF WriterReturns, state
  <2>8. CASE Break BY <2>1, <2>8 DEF Break, state
  <2>9. CASE \E s \in Streams : SendServerEnvelope(s)
    BY <2>1, <2>9 DEF SendServerEnvelope, state
  <2>10. CASE \E s \in Streams : Ack(s)
    BY <2>1, <2>10 DEF Ack
  <2>11. CASE UNCHANGED vars
    BY <2>1, <2>11 DEF vars
  <2> QED
    BY <1>2, <2>2, <2>3, <2>4, <2>5, <2>6, <2>7, <2>8, <2>9, <2>10, <2>11 DEF Next, Writer
<1> QED
  BY <1>1, <1>2, Invariance, PTL DEF Spec, Promised!Spec

=============================================================================
