--------------------------- MODULE ContinuityProofs ---------------------------
(***************************************************************************)
(* Proofs about Continuity, for any number of pointers, any even number of *)
(* sequence numbers and batches of any length below half of them.  The     *)
(* invariants are the routes (RouteInv) and numbers (WindowInv) of what is *)
(* under way, the ends of the contacts (SettledInv) and, while nothing was *)
(* lost, the stream as a path of the host's active pointers (StreamInv).   *)
(* What input_batch makes of a batch goes by induction on its samples,     *)
(* from the least sample at which it would fail.                           *)
(***************************************************************************)
EXTENDS Continuity, SequenceTheorems, WellFoundedInduction, TLAPS

(***************************************************************************)
(* Induction and arithmetic                                                *)
(***************************************************************************)

\* Induction up to n, for a set instead of a predicate: a least number outside the
\* set would be neither 0 nor a successor.
LEMMA Induction ==
    ASSUME NEW n \in Nat, NEW S, 0 \in S,
           \A i \in 0..n-1 : i \in S => i + 1 \in S
    PROVE  \A i \in 0..n : i \in S
<1> SUFFICES ASSUME NEW k \in 0..n, k \notin S PROVE FALSE
  OBVIOUS
<1> DEFINE Rest == {i \in 0..n : i \notin S}
<1>1. PICK m \in Rest : \A i \in Rest : <<i, m>> \notin OpToRel(<, Nat)
  <2>1. Rest \subseteq Nat /\ Rest # {}
    OBVIOUS
  <2> HIDE DEF Rest
  <2>2. QED BY <2>1, NatLessThanWellFounded, WFMin
<1>2. ASSUME NEW i \in Rest, i < m PROVE FALSE
  <2>1. <<i, m>> \in Nat \X Nat /\ <<i, m>>[1] = i /\ <<i, m>>[2] = m
    OBVIOUS
  <2>2. <<i, m>> \in {ss \in Nat \X Nat : ss[1] < ss[2]}
    BY <1>2, <2>1
  <2>3. QED BY <1>1, <2>2 DEF OpToRel
<1>3. m # 0
  OBVIOUS
<1>4. m - 1 \in 0..n-1 /\ m - 1 \notin Rest
  BY <1>2, <1>3
<1>5. QED BY <1>4

\* W is a positive even number, and a batch is shorter than half of it.
LEMMA Widths ==
    /\ W \in Nat /\ W > 2 /\ Half \in Nat /\ Half > 0 /\ W = Half + Half
    /\ MaxSamples \in Nat /\ MaxSamples < Half
  BY ContinuityAssumption DEF Half

\* Division with remainder.
LEMMA Remainder ==
    ASSUME NEW a \in Int
    PROVE  /\ a % W \in 0..W-1 /\ a \div W \in Int
           /\ a = W * (a \div W) + (a % W)
  BY Widths

\* The remainder is the only number below W that differs by a multiple of it.
LEMMA RemainderUnique ==
    ASSUME NEW k \in Int, NEW r \in 0..W-1
    PROVE  (W * k + r) % W = r
  BY Widths

\* The wrapped difference of two numbers that are less than half of W apart tells
\* which is greater, and by how much.
LEMMA WrappedDifference ==
    ASSUME NEW a \in Nat, NEW b \in Nat, a - b < Half, b - a < Half
    PROVE  ((a % W) - (b % W)) % W = IF a >= b THEN a - b ELSE a - b + W
<1> DEFINE p == a \div W  q == b \div W  x == a % W  y == b % W
<1> DEFINE r == IF a >= b THEN a - b ELSE a - b + W
<1>1. a = W * p + x /\ x \in 0..W-1 /\ p \in Int
  BY Remainder
<1>2. b = W * q + y /\ y \in 0..W-1 /\ q \in Int
  BY Remainder
<1>3. r \in 0..W-1
  BY Widths
<1> HIDE DEF p, q, x, y
<1>4. CASE a >= b
  <2>1. x - y = W * (q - p) + r
    BY <1>1, <1>2, <1>4, Widths
  <2>2. QED BY <2>1, <1>1, <1>2, <1>3, RemainderUnique
<1>5. CASE a < b
  <2>1. x - y = W * (q - p - 1) + r
    BY <1>1, <1>2, <1>5, Widths
  <2>2. QED BY <2>1, <1>1, <1>2, <1>3, RemainderUnique
<1>6. QED BY <1>4, <1>5

\* The successor of a wrapped number is the wrapped successor.
LEMMA WrappedSuccessor ==
    ASSUME NEW a \in Nat
    PROVE  ((a % W) + 1) % W = (a + 1) % W
<1> DEFINE p == a \div W  x == a % W
<1>1. a = W * p + x /\ x \in 0..W-1 /\ p \in Int
  BY Remainder
<1> HIDE DEF p, x
<1>2. CASE x + 1 < W
  <2>1. a + 1 = W * p + (x + 1) /\ x + 1 = W * 0 + (x + 1)
    BY <1>1, Widths
  <2>2. x + 1 \in 0..W-1
    BY <1>1, <1>2, Widths
  <2>3. (W * p + (x + 1)) % W = x + 1 /\ (W * 0 + (x + 1)) % W = x + 1
    BY <1>1, <2>2, RemainderUnique
  <2>4. (a + 1) % W = x + 1 /\ (x + 1) % W = x + 1
    BY <2>1, <2>3
  <2>5. QED BY <2>4 DEF x
<1>3. CASE x + 1 = W
  <2>1. a + 1 = W * (p + 1) + 0 /\ x + 1 = W * 1 + 0
    BY <1>1, <1>3, Widths
  <2>2. QED BY <2>1, <1>1, <1>3, RemainderUnique, Widths
<1>4. QED BY <1>1, <1>2, <1>3, Widths

-----------------------------------------------------------------------------
(* One number                                                               *)

\* What observe_sequence returns.
Seen(N) == [next : N, gaps : Nat, late : Nat]

\* observe_sequence always expects a number afterwards.
LEMMA ObserveType ==
    ASSUME NEW next \in (0..W-1) \cup {None}, NEW received \in 0..W-1
    PROVE  ObserveSequence(next, received) \in Seen(0..W-1)
<1>1. (received + 1) % W \in 0..W-1
  <2>1. received + 1 \in Int
    BY Widths
  <2>2. QED BY <2>1, Remainder
<1>2. CASE next = None
  BY <1>1, <1>2 DEF ObserveSequence, Seen
<1>3. CASE next # None
  <2>1. received - next \in Int /\ next \in 0..W-1
    BY <1>3, Widths
  <2>2. (received - next) % W \in 0..W-1
    BY <2>1, Remainder
  <2>3. QED BY <1>1, <1>3, <2>1, <2>2, Widths DEF ObserveSequence, Seen
<1>4. QED BY <1>2, <1>3

\* The same without wrapping.
LEMMA ReferenceType ==
    ASSUME NEW next \in Nat \cup {None}, NEW received \in Nat
    PROVE  Reference(next, received) \in Seen(Nat)
  BY DEF Reference, Seen

\* The number a host that wraps expects for one that does not.
Wrapped(next) == IF next = None THEN None ELSE next % W

\* Less than half of W apart, both see the same.
LEMMA ObserveExact ==
    ASSUME NEW next \in Nat \cup {None}, NEW received \in Nat,
           next # None => received - next < Half /\ next - received < Half
    PROVE  /\ ObserveSequence(Wrapped(next), received % W).next = Wrapped(Reference(next, received).next)
           /\ ObserveSequence(Wrapped(next), received % W).gaps = Reference(next, received).gaps
           /\ ObserveSequence(Wrapped(next), received % W).late = Reference(next, received).late
<1>0. received + 1 # None /\ None \notin Nat
  BY ContinuityAssumption
<1>1. ((received % W) + 1) % W = (received + 1) % W
  BY WrappedSuccessor
<1>2. CASE next = None
  BY <1>0, <1>1, <1>2 DEF ObserveSequence, Reference, Wrapped
<1>3. CASE next # None
  <2>1. next \in Nat /\ next % W \in 0..W-1 /\ next % W # None
    <3>1. next \in Nat
      BY <1>3
    <3>2. next % W \in 0..W-1
      BY <3>1, Remainder
    <3>3. next % W \in Nat
      BY <3>2, Widths
    <3>4. QED BY <1>0, <3>1, <3>2, <3>3
  <2>2. ((received % W) - (next % W)) % W
           = IF received >= next THEN received - next ELSE received - next + W
    BY <1>3, <2>1, WrappedDifference
  <2>3. CASE received >= next
    <3>1. ((received % W) - (next % W)) % W = received - next /\ received - next < Half
      BY <1>3, <2>2, <2>3
    <3>2. QED BY <1>0, <1>1, <1>3, <2>1, <2>3, <3>1 DEF ObserveSequence, Reference, Wrapped
  <2>4. CASE received < next
    <3>1. ((received % W) - (next % W)) % W = received - next + W
      BY <2>1, <2>2, <2>4
    <3>2. ~(received - next + W < Half)
      BY <1>3, <2>1, <2>4, Widths
    <3>3. ~(received >= next)
      BY <2>1, <2>4
    <3>4. QED BY <1>0, <1>3, <2>1, <3>1, <3>2, <3>3 DEF ObserveSequence, Reference, Wrapped
  <2>5. QED BY <2>1, <2>3, <2>4
<1>4. QED BY <1>2, <1>3

-----------------------------------------------------------------------------
(* The samples of a batch                                                   *)

\* One sample leaves a track.
LEMMA SampleType ==
    ASSUME NEW h \in Track, NEW s \in Sample
    PROVE  ObserveSample(h, s) \in Track
<1>1. s.number \in Nat /\ s.number % W \in 0..W-1 /\ s.pointer \in Pointers
  BY ContinuityAssumption, Remainder DEF Sample
<1>2. ObserveSequence(h.next, s.number % W) \in Seen(0..W-1)
  BY <1>1, ObserveType DEF Track
<1>3. Reference(h.due, s.number) \in Seen(Nat)
  BY <1>1, ReferenceType DEF Track
<1>4. Lifecycle(h.active, s).active \in SUBSET Pointers
  BY <1>1 DEF Track, Lifecycle
<1>5. /\ Count(h.count, ObserveSequence(h.next, s.number % W)) \in Counter
      /\ Count(h.true, Reference(h.due, s.number)) \in Counter
  BY <1>2, <1>3 DEF Track, Counter, Count, Seen
<1>6. h.errors + (IF Lifecycle(h.active, s).error THEN 1 ELSE 0) \in Nat
  BY DEF Track
<1>7. /\ ObserveSequence(h.next, s.number % W).next \in 0..W-1
      /\ Reference(h.due, s.number).next \in Nat
  BY <1>2, <1>3 DEF Seen
<1>8. QED BY <1>4, <1>5, <1>6, <1>7 DEF ObserveSample, Track

\* There is a track after each sample: ObserveSamples is the last of them.
LEMMA Tracks ==
    ASSUME NEW h \in Track, NEW samples \in Seq(Sample)
    PROVE  \E f \in [0..Len(samples) -> Track] :
              /\ f[0] = h
              /\ \A i \in 1..Len(samples) : f[i] = ObserveSample(f[i-1], samples[i])
              /\ ObserveSamples(h, samples) = f[Len(samples)]
<1> DEFINE n == Len(samples)
<1> DEFINE Run(f, k) == f[0] = h /\ \A i \in 1..k : f[i] = ObserveSample(f[i-1], samples[i])
<1> DEFINE S == {k \in 0..n : \E f \in [0..k -> Track] : Run(f, k)}
<1>0. n \in Nat
  OBVIOUS
<1>1. 0 \in S
  <2>1. [i \in 0..0 |-> h] \in [0..0 -> Track] /\ Run([i \in 0..0 |-> h], 0)
    OBVIOUS
  <2>2. \E f \in [0..0 -> Track] : Run(f, 0)
    BY <2>1
  <2>3. QED BY <1>0, <2>2
<1>2. ASSUME NEW k \in 0..n-1, k \in S PROVE k + 1 \in S
  <2>1. PICK f \in [0..k -> Track] : Run(f, k)
    BY <1>2
  <2> DEFINE g == [i \in 0..k+1 |-> IF i = k + 1 THEN ObserveSample(f[k], samples[k+1]) ELSE f[i]]
  <2>2. samples[k+1] \in Sample /\ f[k] \in Track
    BY <1>0
  <2>3. ObserveSample(f[k], samples[k+1]) \in Track
    BY <2>2, SampleType
  <2>4. g \in [0..k+1 -> Track]
    BY <2>3
  <2>5. Run(g, k + 1)
    <3>1. g[0] = h
      BY <2>1
    <3>2. ASSUME NEW i \in 1..k PROVE g[i] = ObserveSample(g[i-1], samples[i])
      <4>1. g[i] = f[i] /\ g[i-1] = f[i-1]
        OBVIOUS
      <4>2. QED BY <2>1, <4>1
    <3>3. g[k+1] = ObserveSample(g[k], samples[k+1])
      OBVIOUS
    <3> HIDE DEF g
    <3>4. QED BY <3>1, <3>2, <3>3
  <2> HIDE DEF g
  <2>6. k + 1 \in 0..n
    BY <1>0
  <2>7. QED BY <2>4, <2>5, <2>6
<1>3. n \in S
  <2> HIDE DEF S
  <2>1. \A i \in 0..n : i \in S
    BY <1>0, <1>1, <1>2, Induction
  <2>2. QED BY <1>0, <2>1
<1>4. PICK f \in [0..n -> Track] : Run(f, n)
  BY <1>3
<1> DEFINE Def(g) == [i \in 0..n |-> IF i = 0 THEN h ELSE ObserveSample(g[i-1], samples[i])]
<1> DEFINE after == CHOOSE g : g = Def(g)
<1>5. f = Def(f)
  <2>1. \A i \in 0..n : f[i] = Def(f)[i]
    BY <1>0, <1>4
  <2>2. QED BY <2>1
<1>6. after = Def(after)
  <2> HIDE DEF Def
  <2>1. QED BY <1>5
<1>7. ObserveSamples(h, samples) = after[n]
  BY DEF ObserveSamples
<1> HIDE DEF after
<1>8. \A i \in 0..n : after[i] = Def(after)[i]
  BY <1>6
<1> DEFINE Same == {i \in 0..n : after[i] = f[i]}
<1>9. 0 \in Same
  BY <1>0, <1>4, <1>8
<1>10. ASSUME NEW k \in 0..n-1, k \in Same PROVE k + 1 \in Same
  <2>1. after[k+1] = ObserveSample(after[k], samples[k+1])
    BY <1>0, <1>8
  <2>2. f[k+1] = ObserveSample(f[k], samples[k+1])
    BY <1>0, <1>4
  <2>3. QED BY <1>0, <1>10, <2>1, <2>2
<1>11. n \in Same
  <2> HIDE DEF Same
  <2>1. \A i \in 0..n : i \in Same
    BY <1>0, <1>9, <1>10, Induction
  <2>2. QED BY <1>0, <2>1
<1>12. QED BY <1>4, <1>7, <1>11

(***************************************************************************)
(* Invariants                                                              *)
(***************************************************************************)

\* The pointer of a batch.
Owner(pk) == pk.samples[1].pointer
\* Its first sample number ...
First(pk) == pk.samples[1].number
\* ... and the one after its last.
After(pk) == First(pk) + Len(pk.samples)

\* A batch begins a contact, ...
Begins(pk) == pk.samples[1].action = "Down"
\* ... ends it, ...
Finishes(pk) == pk.samples[Len(pk.samples)].action \in {"Up", "Cancel"}
\* ... or is outside one.
Hovers(pk) == pk.samples[1].action = "Hover"

\* The batches of the pointer engine: consecutive numbers, one pointer, and at most
\* one beginning or end.
Shape(pk) ==
    LET n == Len(pk.samples) IN
    /\ pk \in Packet /\ n > 0
    /\ \A i \in 1..n : pk.samples[i].number = First(pk) + i - 1 /\ pk.samples[i].pointer = Owner(pk)
    /\ \/ \A i \in 1..n : pk.samples[i].action = IF i = 1 THEN "Down" ELSE "Move"
       \/ \A i \in 1..n : pk.samples[i].action = "Move"
       \/ \A i \in 1..n : pk.samples[i].action = "Hover"
       \/ \E action \in {"Up", "Cancel"} :
             \A i \in 1..n : pk.samples[i].action = IF i = n THEN action ELSE "Move"

\* A batch under way has numbers below the next ones b and s, less than half of them away,
\* and every batch after it has a sample.
Within(pk, b, s) ==
    /\ pk.batch < b
    /\ After(pk) <= s /\ s - First(pk) < Half
    /\ b - (pk.batch + 1) <= s - After(pk)

\* Nor is the host further behind.
Ahead(e, b, s) ==
    /\ e.batch = None <=> e.sample = None
    /\ e.sample # None => /\ e.batch <= b /\ e.sample <= s /\ s - e.sample < Half
                          /\ b - e.batch <= s - e.sample

\* Everything under way, and the host, is less than half of the numbers behind.
WindowInv ==
    /\ \A i \in 1..Len(page.pending) :
          Shape(page.pending[i]) /\ Within(page.pending[i], page.batch, page.sample)
    /\ \A t \in Transports : \A i \in 1..Len(wire[t]) :
          wire[t][i] # End => Shape(wire[t][i]) /\ Within(wire[t][i], page.batch, page.sample)
    /\ page.batch <= page.sample
    /\ Ahead(truth.expected, page.batch, page.sample)

\* Which transports have packets: only the one in use, and those that ended, with
\* their end last.
RouteInv ==
    /\ page.pending # <<>> => page.transport = None /\ \A t \in Transports : ~IsOpen(t)
    /\ page.transport # None => ready[page.transport] \in {"open", "closing"}
    /\ \A t \in Transports :
          /\ ready[t] = "connecting" => serving[t]
          /\ ~serving[t] => wire[t] = <<>>
          /\ ready[t] \in {"connecting", "open"} /\ t # page.transport => wire[t] = <<>>
          /\ ready[t] \in {"connecting", "open"} => \A i \in 1..Len(wire[t]) : wire[t][i] # End
          /\ ready[t] \in {"closing", "closed"} /\ serving[t] =>
                wire[t] # <<>> /\ wire[t][Len(wire[t])] = End

\* The host will see the end of a transport, and reset.
EndComes == \E t \in Transports : serving[t] /\ ready[t] \in {"closing", "closed"}

\* The host still listens to the transport in use.
Listening == page.transport # None /\ IsOpen(page.transport) /\ serving[page.transport]
\* The batches kept, or under way on the transport in use.
Stream == IF page.transport = None THEN page.pending ELSE wire[page.transport]

\* A contact that begins in stream s ends there, unless it is one of c.
Settles(s, c) ==
    \A i \in 1..Len(s) : Begins(s[i]) /\ Owner(s[i]) \notin c =>
        \E j \in i+1..Len(s) : Finishes(s[j]) /\ Owner(s[j]) = Owner(s[i])

\* The contacts A end in stream s.
Ending(s, A) == \A q \in A : \E j \in 1..Len(s) : Finishes(s[j]) /\ Owner(s[j]) = q

\* A contact the page has not any more ends in the stream, if it begins there or is
\* active at the host.
SettledInv ==
    /\ page.transport = None \/ Listening => Settles(Stream, page.contacts)
    /\ EndComes \/ state.active = {} \/ (Listening /\ Ending(Stream, state.active \ page.contacts))

\* The batches of the stream, its end left out.
Size == IF page.transport # None /\ ~IsOpen(page.transport) THEN Len(Stream) - 1 ELSE Len(Stream)

\* The host's active pointers a become b with batch pk, without an error.
Carries(a, pk, b) ==
    \/ Begins(pk) /\ Owner(pk) \notin a /\ b = a \cup {Owner(pk)}
    \/ Finishes(pk) /\ Owner(pk) \in a /\ b = a \ {Owner(pk)}
    \/ Hovers(pk) /\ b = a
    \/ ~Begins(pk) /\ ~Finishes(pk) /\ Owner(pk) \in a /\ b = a

\* The first n batches of s are consecutive up to number b, in order, not before what the
\* host expects, and take its active pointers to the contacts c.
Chain(s, n, b, e, active, c) ==
    /\ \A i \in 1..n : s[i].batch = (b - n) + (i - 1)
    /\ \A i \in 1..n, j \in 1..n : i < j => After(s[i]) <= First(s[j])
    /\ e.batch # None => e.batch = b - n /\ \A i \in 1..n : e.sample <= First(s[i])
    /\ \E path \in [0..n -> SUBSET Pointers] :
          /\ path[0] = active /\ path[n] = c
          /\ \A i \in 1..n : Carries(path[i-1], s[i], path[i])

\* While nothing was lost: everything is in the stream, in order and without gaps,
\* and takes the host's pointers to the page's contacts.
StreamInv ==
    /\ page.interrupted = {}
    /\ \A t \in Transports : serving[t]
                             /\ (t # page.transport => \A i \in 1..Len(wire[t]) : wire[t][i] = End)
    /\ Chain(Stream, Size, page.batch, truth.expected, state.active, page.contacts)
    /\ counts.batch = [gaps |-> 0, late |-> 0] /\ counts.sample.late = 0
    /\ counts.lifecycle = 0

\* A clean session has such a stream.
CleanInv == clean => StreamInv
-----------------------------------------------------------------------------
(* What input_batch makes of the samples of a batch                         *)

\* The samples of a batch of the pointer engine.
LEMMA ShapeType ==
    ASSUME NEW pk, Shape(pk)
    PROVE  /\ pk.samples \in Seq(Sample) /\ Len(pk.samples) \in Nat \ {0}
           /\ pk.batch \in Nat /\ First(pk) \in Nat /\ Owner(pk) \in Pointers
           /\ pk # End
<1>1. pk.samples \in Seq(Sample) /\ pk.batch \in 0..MaxNumber /\ Len(pk.samples) > 0
  BY DEF Shape, Packet
<1>2. Len(pk.samples) \in Nat \ {0} /\ pk.samples[1] \in Sample
  BY <1>1
<1>3. End.samples = <<>> /\ pk.samples # <<>>
  BY <1>1, <1>2 DEF End
<1>4. QED BY <1>1, <1>2, <1>3, ContinuityAssumption DEF Sample, First, Owner

\* The number expected after i samples from s on, when due was expected before.
Due(due, s, i) == IF due = None \/ due < s + i THEN s + i ELSE due

\* The numbers of a batch whose first one is less than half of W from the one
\* expected: counted as without wrapping, and none of them late unless expected.
LEMMA BatchCounted ==
    ASSUME NEW h \in Track, NEW pk, Shape(pk),
           h.count = h.true, h.next = Wrapped(h.due),
           h.due # None => First(pk) - h.due < Half /\ h.due - First(pk) < Half
    PROVE  LET end == ObserveSamples(h, pk.samples) IN
           /\ end.count = end.true /\ end.next = Wrapped(end.due)
           /\ end.due = Due(h.due, First(pk), Len(pk.samples))
           /\ h.due = None \/ h.due <= First(pk) => end.true.late = h.true.late
<1> DEFINE n == Len(pk.samples)  s == First(pk)
<1>0. /\ pk.samples \in Seq(Sample) /\ n \in Nat \ {0} /\ s \in Nat
      /\ \A i \in 1..n : pk.samples[i].number = s + i - 1
  BY ShapeType DEF Shape
<1>1. PICK f \in [0..n -> Track] :
         /\ f[0] = h
         /\ \A i \in 1..n : f[i] = ObserveSample(f[i-1], pk.samples[i])
         /\ ObserveSamples(h, pk.samples) = f[n]
  BY <1>0, Tracks
<1> DEFINE Good(g, i) ==
              /\ g.count = g.true /\ g.next = Wrapped(g.due)
              /\ g.due = IF i = 0 THEN h.due ELSE Due(h.due, s, i)
              /\ h.due = None \/ h.due <= s => g.true.late = h.true.late
<1> DEFINE S == {i \in 0..n : Good(f[i], i)}
<1>2. 0 \in S
  BY <1>0, <1>1
<1>3. ASSUME NEW k \in 0..n-1, k \in S PROVE k + 1 \in S
  <2> DEFINE g == f[k]  d == g.due  r == s + k
  <2>1. g \in Track /\ Good(g, k)
    BY <1>0, <1>3
  <2>2. f[k+1] = ObserveSample(g, pk.samples[k+1]) /\ pk.samples[k+1].number = r
    <3>1. k + 1 \in 1..n /\ k + 1 - 1 = k /\ s + (k + 1) - 1 = r
      BY <1>0
    <3>2. QED BY <1>0, <1>1, <3>1
  <2>3. d \in Nat \cup {None} /\ r \in Nat /\ h.due \in Nat \cup {None} /\ None \notin Nat
    BY <1>0, <2>1, ContinuityAssumption DEF Track
  <2>4. d # None => r - d < Half /\ d - r < Half
    BY <1>0, <2>1, <2>3, Widths DEF Due
  <2> DEFINE o == ObserveSequence(g.next, r % W)  t == Reference(d, r)
  <2>5. o.next = Wrapped(t.next) /\ o.gaps = t.gaps /\ o.late = t.late
    BY <2>1, <2>3, <2>4, ObserveExact
  <2>6. t.next = Due(h.due, s, k + 1)
    BY <1>0, <2>1, <2>3 DEF Reference, Due
  <2>7. h.due = None \/ h.due <= s => t.late = 0
    BY <1>0, <2>1, <2>3 DEF Reference, Due
  <2>8. /\ f[k+1].count = Count(g.count, o) /\ f[k+1].true = Count(g.true, t)
        /\ f[k+1].next = o.next /\ f[k+1].due = t.next
    BY <2>2 DEF ObserveSample
  <2> HIDE DEF o, t
  <2>9. f[k+1].count = f[k+1].true
    BY <2>1, <2>5, <2>8 DEF Count
  <2>10. h.due = None \/ h.due <= s => f[k+1].true.late = h.true.late
    BY <2>1, <2>7, <2>8 DEF Count, Track, Counter
  <2> HIDE DEF g, d
  <2>11. QED BY <1>0, <2>5, <2>6, <2>8, <2>9, <2>10
<1>4. n \in S
  <2> HIDE DEF S
  <2>1. \A i \in 0..n : i \in S
    BY <1>0, <1>2, <1>3, Induction
  <2>2. QED BY <1>0, <2>1
<1>5. Good(f[n], n) /\ n # 0
  BY <1>0, <1>4
<1>6. QED BY <1>1, <1>5

\* The contact of a batch: begun, ended or as before, and an error only if it was
\* not in the state its page had it in.
LEMMA BatchLifecycle ==
    ASSUME NEW h \in Track, NEW pk, Shape(pk)
    PROVE  LET end == ObserveSamples(h, pk.samples) IN
           /\ end.active = IF Begins(pk) THEN h.active \cup {Owner(pk)}
                           ELSE IF Finishes(pk) THEN h.active \ {Owner(pk)} ELSE h.active
           /\ \A b : Carries(h.active, pk, b) => end.active = b /\ end.errors = h.errors
<1> DEFINE n == Len(pk.samples)  q == Owner(pk)  a == h.active
<1>0. /\ pk.samples \in Seq(Sample) /\ n \in Nat \ {0}
      /\ \A i \in 1..n : pk.samples[i].pointer = q
  BY ShapeType DEF Shape
<1>1. PICK f \in [0..n -> Track] :
         /\ f[0] = h
         /\ \A i \in 1..n : f[i] = ObserveSample(f[i-1], pk.samples[i])
         /\ ObserveSamples(h, pk.samples) = f[n]
  BY <1>0, Tracks
<1> DEFINE Act(i) == pk.samples[i].action
<1>2. ASSUME NEW k \in 0..n-1
      PROVE  /\ k + 1 \in 1..n /\ f[k] \in Track /\ f[k].errors \in Nat
             /\ f[k+1].active = IF Act(k+1) = "Down" THEN f[k].active \cup {q}
                                ELSE IF Act(k+1) \in {"Up", "Cancel"} THEN f[k].active \ {q}
                                ELSE f[k].active
             /\ f[k+1].errors = f[k].errors +
                   (IF (IF Act(k+1) = "Down" THEN q \in f[k].active
                        ELSE Act(k+1) # "Hover" /\ q \notin f[k].active) THEN 1 ELSE 0)
  <2>1. k + 1 \in 1..n /\ k + 1 - 1 = k /\ f[k] \in Track
    BY <1>0
  <2>2. f[k+1] = ObserveSample(f[k], pk.samples[k+1]) /\ pk.samples[k+1].pointer = q
    BY <1>0, <1>1, <2>1
  <2>3. f[k].errors \in Nat
    BY <2>1 DEF Track
  <2> DEFINE life == Lifecycle(f[k].active, pk.samples[k+1])
  <2>4. /\ f[k+1].active = life.active
        /\ f[k+1].errors = f[k].errors + (IF life.error THEN 1 ELSE 0)
    BY <2>2 DEF ObserveSample
  <2>5. life.active = IF Act(k+1) = "Down" THEN f[k].active \cup {q}
                      ELSE IF Act(k+1) \in {"Up", "Cancel"} THEN f[k].active \ {q}
                      ELSE f[k].active
    BY <2>2 DEF Lifecycle
  <2>6. life.error = IF Act(k+1) = "Down" THEN q \in f[k].active
                     ELSE Act(k+1) # "Hover" /\ q \notin f[k].active
    BY <2>2, Zenon DEF Lifecycle
  <2> HIDE DEF life
  <2>7. QED BY <2>1, <2>3, <2>4, <2>5, <2>6
<1>3. ASSUME NEW S, 0 \in S, \A k \in 0..n-1 : k \in S => k + 1 \in S PROVE n \in S
  <2>1. \A i \in 0..n : i \in S
    BY <1>0, <1>3, Induction
  <2>2. QED BY <1>0, <2>1
<1> DEFINE Good(b, ok) == f[n].active = b /\ (ok => f[n].errors = h.errors)
<1>4. CASE \A i \in 1..n : Act(i) = IF i = 1 THEN "Down" ELSE "Move"
  <2> DEFINE S == {i \in 0..n : /\ f[i].active = IF i = 0 THEN a ELSE a \cup {q}
                                /\ q \notin a => f[i].errors = h.errors}
  <2>1. 0 \in S
    BY <1>0, <1>1
  <2>2. ASSUME NEW k \in 0..n-1, k \in S PROVE k + 1 \in S
    BY <1>0, <1>2, <1>4, <2>2
  <2>3. n \in S
    <3> HIDE DEF S
    <3>1. QED BY <1>3, <2>1, <2>2
  <2>4. Good(a \cup {q}, q \notin a)
    BY <1>0, <2>3
  <2>5. Begins(pk) /\ ~Finishes(pk) /\ ~Hovers(pk)
    BY <1>0, <1>4 DEF Begins, Finishes, Hovers
  <2>6. QED BY <1>1, <2>4, <2>5 DEF Carries
<1>5. CASE \A i \in 1..n : Act(i) = "Move"
  <2> DEFINE S == {i \in 0..n : f[i].active = a /\ (q \in a => f[i].errors = h.errors)}
  <2>1. 0 \in S
    BY <1>0, <1>1
  <2>2. ASSUME NEW k \in 0..n-1, k \in S PROVE k + 1 \in S
    <3>1. k + 1 \in 1..n /\ k # n /\ f[k].active = a
      BY <1>0, <1>2, <2>2
    <3>2. Act(k+1) = "Move"
      BY <1>5, <3>1
    <3>3. q \in a => f[k].errors = h.errors
      BY <2>2
    <3>4. f[k].errors \in Nat /\ f[k+1].active = a
      BY <1>2, <3>1, <3>2
    <3>5. q \in a => f[k+1].errors = f[k].errors
      <4>1. f[k+1].errors = f[k].errors +
               (IF (IF Act(k+1) = "Down" THEN q \in f[k].active
                    ELSE Act(k+1) # "Hover" /\ q \notin f[k].active) THEN 1 ELSE 0)
        BY <1>2
      <4>2. QED BY <3>1, <3>2, <3>4, <4>1
    <3>6. QED BY <1>0, <3>1, <3>3, <3>4, <3>5
  <2>3. n \in S
    <3> HIDE DEF S
    <3>1. QED BY <1>3, <2>1, <2>2
  <2>4. Good(a, q \in a)
    BY <1>0, <2>3
  <2>5. ~Begins(pk) /\ ~Finishes(pk) /\ ~Hovers(pk)
    BY <1>0, <1>5 DEF Begins, Finishes, Hovers
  <2>6. QED BY <1>1, <2>4, <2>5 DEF Carries
<1>6. CASE \A i \in 1..n : Act(i) = "Hover"
  <2> DEFINE S == {i \in 0..n : f[i].active = a /\ f[i].errors = h.errors}
  <2>1. 0 \in S
    BY <1>0, <1>1
  <2>2. ASSUME NEW k \in 0..n-1, k \in S PROVE k + 1 \in S
    <3>1. k + 1 \in 1..n /\ k # n /\ f[k].active = a
      BY <1>0, <1>2, <2>2
    <3>2. Act(k+1) = "Hover"
      BY <1>6, <3>1
    <3>3. f[k].errors = h.errors
      BY <2>2
    <3>4. f[k].errors \in Nat /\ f[k+1].active = a
      BY <1>2, <3>1, <3>2
    <3>5. f[k+1].errors = f[k].errors
      <4>1. f[k+1].errors = f[k].errors +
               (IF (IF Act(k+1) = "Down" THEN q \in f[k].active
                    ELSE Act(k+1) # "Hover" /\ q \notin f[k].active) THEN 1 ELSE 0)
        BY <1>2
      <4>2. QED BY <3>1, <3>2, <3>4, <4>1
    <3>6. QED BY <1>0, <3>1, <3>3, <3>4, <3>5
  <2>3. n \in S
    <3> HIDE DEF S
    <3>1. QED BY <1>3, <2>1, <2>2
  <2>4. Good(a, TRUE)
    BY <1>0, <2>3
  <2>5. ~Begins(pk) /\ ~Finishes(pk) /\ Hovers(pk)
    BY <1>0, <1>6 DEF Begins, Finishes, Hovers
  <2>6. QED BY <1>1, <2>4, <2>5 DEF Carries
<1>7. ASSUME NEW e \in {"Up", "Cancel"}, \A i \in 1..n : Act(i) = IF i = n THEN e ELSE "Move"
      PROVE  /\ f[n].active = IF Begins(pk) THEN a \cup {q}
                              ELSE IF Finishes(pk) THEN a \ {q} ELSE a
             /\ \A b : Carries(a, pk, b) => f[n].active = b /\ f[n].errors = h.errors
  <2> DEFINE S == {i \in 0..n : /\ f[i].active = IF i = n THEN a \ {q} ELSE a
                                /\ q \in a => f[i].errors = h.errors}
  <2>1. 0 \in S
    BY <1>0, <1>1
  <2>2. ASSUME NEW k \in 0..n-1, k \in S PROVE k + 1 \in S
    <3>1. k + 1 \in 1..n /\ k # n /\ f[k].active = a
      BY <1>0, <1>2, <2>2
    <3>2. Act(k+1) = IF k + 1 = n THEN e ELSE "Move"
      BY <1>7, <3>1
    <3>3. q \in a => f[k].errors = h.errors
      BY <2>2
    <3>4. f[k].errors \in Nat /\ f[k+1].active = IF k + 1 = n THEN a \ {q} ELSE a
      BY <1>2, <3>1, <3>2
    <3>5. q \in a => f[k+1].errors = f[k].errors
      <4>1. f[k+1].errors = f[k].errors +
               (IF (IF Act(k+1) = "Down" THEN q \in f[k].active
                    ELSE Act(k+1) # "Hover" /\ q \notin f[k].active) THEN 1 ELSE 0)
        BY <1>2
      <4>2. QED BY <3>1, <3>2, <3>4, <4>1
    <3>6. QED BY <1>0, <3>1, <3>3, <3>4, <3>5
  <2>3. n \in S
    <3> HIDE DEF S
    <3>1. QED BY <1>3, <2>1, <2>2
  <2>4. Good(a \ {q}, q \in a)
    BY <1>0, <2>3
  <2>5. ~Begins(pk) /\ Finishes(pk) /\ ~Hovers(pk)
    BY <1>0, <1>7 DEF Begins, Finishes, Hovers
  <2>6. QED BY <2>4, <2>5 DEF Carries
<1>8. QED BY <1>1, <1>4, <1>5, <1>6, <1>7 DEF Shape

-----------------------------------------------------------------------------
(* Sending a batch                                                          *)

\* The page after a batch of n samples.
Paged(t, pending, contacts, interrupted, n) ==
    [transport |-> t, pending |-> pending, contacts |-> contacts, interrupted |-> interrupted,
     batch |-> page.batch + 1, sample |-> page.sample + n]

\* Batch pk leaves the page with contacts C: all that was kept is dropped and every
\* contact abandoned, the batch is kept, lost, or goes to a host that listens.
Sends(pk, C) ==
    LET t == Chosen(page)
        n == Len(pk.samples)
    IN  /\ Shape(pk) /\ pk.batch = page.batch /\ First(pk) = page.sample
        /\ n < Half /\ Room(n)
        /\ Carries(page.contacts, pk, C) /\ C \subseteq Pointers
        /\ page.interrupted \cap C = {}
        /\ UNCHANGED <<ready, hostVars, resets>>
        /\ \/ /\ t = None /\ ~(Len(page.pending) < MaxPending)
              /\ \E I \in SUBSET Pointers : page' = Paged(page.transport, <<>>, {}, I, n)
              /\ wire' = wire /\ clean' = FALSE
           \/ /\ t = None /\ Len(page.pending) < MaxPending
              /\ page' = Paged(page.transport, Append(page.pending, pk), C, page.interrupted, n)
              /\ wire' = wire /\ clean' = clean
           \/ /\ t # None /\ ~(IsOpen(t) /\ serving[t])
              /\ page' = Paged(t, page.pending, C, page.interrupted, n)
              /\ wire' = wire /\ clean' = FALSE
           \/ /\ t # None /\ IsOpen(t) /\ serving[t]
              /\ page' = Paged(t, page.pending, C, page.interrupted, n)
              /\ wire' = [wire EXCEPT ![t] = Append(@, pk)] /\ clean' = clean

\* The fields of the page.
LEMMA PageFields ==
    ASSUME TypeOK
    PROVE  /\ page.transport \in Transports \cup {None} /\ page.pending \in Seq(Packet)
           /\ page.contacts \in SUBSET Pointers /\ page.interrupted \in SUBSET Pointers
           /\ page.batch \in Nat /\ page.batch <= MaxNumber
           /\ page.sample \in Nat /\ page.sample <= MaxNumber
           /\ page.contacts \cap page.interrupted = {}
           /\ Chosen(page) \in Transports \cup {None}
           /\ None \notin Transports
           /\ page = [transport |-> page.transport, pending |-> page.pending,
                      contacts |-> page.contacts, interrupted |-> page.interrupted,
                      batch |-> page.batch, sample |-> page.sample]
<1>1. page \in Page /\ page.contacts \cap page.interrupted = {}
  BY DEF TypeOK, BrowserType
<1>2. None \notin Transports
  BY ContinuityAssumption DEF Transports
<1>3. page = [transport |-> page.transport, pending |-> page.pending,
              contacts |-> page.contacts, interrupted |-> page.interrupted,
              batch |-> page.batch, sample |-> page.sample]
  BY <1>1 DEF Page
<1>4. /\ page.transport \in Transports \cup {None} /\ page.pending \in Seq(Packet)
      /\ page.contacts \in SUBSET Pointers /\ page.interrupted \in SUBSET Pointers
      /\ page.batch \in 0..MaxNumber /\ page.sample \in 0..MaxNumber
  BY <1>1 DEF Page
<1>5. Chosen(page) \in Transports \cup {None}
  BY <1>4 DEF Chosen, Transports
<1>6. QED BY <1>1, <1>2, <1>3, <1>4, <1>5, ContinuityAssumption

\* What the pointer engine sends has the shape of a batch.
LEMMA NumberedShape ==
    ASSUME TypeOK, NEW q \in Pointers, NEW n \in 1..MaxSamples, Room(n), NEW actions,
           \/ actions = Begun(n) \/ actions = Moved(n, "Move") \/ actions = Moved(n, "Hover")
           \/ \E action \in {"Up", "Cancel"} : actions = Ended(n, action)
    PROVE  LET pk == Numbered(page, q, actions) IN
           /\ Shape(pk) /\ pk.batch = page.batch /\ First(pk) = page.sample /\ Owner(pk) = q
           /\ Len(pk.samples) = n /\ Len(actions) = n /\ n < Half
           /\ pk.samples[1].action = actions[1] /\ pk.samples[n].action = actions[n]
<1> DEFINE pk == Numbered(page, q, actions)
<1>1. n \in Nat \ {0} /\ n < Half /\ page.sample + n <= MaxNumber
  BY Widths DEF Room
<1>2. /\ DOMAIN actions = 1..n
      /\ \A i \in 1..n : actions[i] \in {"Down", "Move", "Up", "Cancel", "Hover"}
      /\ actions \in Seq({"Down", "Move", "Up", "Cancel", "Hover"})
  BY <1>1 DEF Begun, Moved, Ended
<1>3. Len(actions) = n
  BY <1>1, <1>2
<1>4. /\ pk.batch = page.batch
      /\ pk.samples = [i \in 1..n |-> [number |-> page.sample + i - 1, action |-> actions[i],
                                       pointer |-> q]]
  BY <1>3 DEF Numbered
<1>5. ASSUME NEW i \in 1..n
      PROVE  /\ pk.samples[i] \in Sample
             /\ pk.samples[i].number = page.sample + i - 1 /\ pk.samples[i].action = actions[i]
             /\ pk.samples[i].pointer = q
  <2>1. pk.samples[i] = [number |-> page.sample + i - 1, action |-> actions[i], pointer |-> q]
    BY <1>4
  <2>2. page.sample + i - 1 \in 0..MaxNumber
    BY <1>1, PageFields, ContinuityAssumption
  <2>3. actions[i] \in {"Down", "Move", "Up", "Cancel", "Hover"}
    BY <1>2
  <2> HIDE DEF pk
  <2>4. pk.samples[i] \in Sample
    BY <2>1, <2>2, <2>3 DEF Sample
  <2>5. QED BY <2>1, <2>4
<1>6. pk.samples \in Seq(Sample) /\ Len(pk.samples) = n
  <2> DEFINE samples == pk.samples
  <2>1. DOMAIN samples = 1..n /\ samples = [i \in 1..n |-> samples[i]]
    BY <1>4
  <2>2. \A i \in 1..n : samples[i] \in Sample
    BY <1>5
  <2> HIDE DEF samples
  <2>3. samples \in Seq(Sample) /\ Len(samples) = n
    BY <1>1, <2>1, <2>2
  <2>4. QED BY <2>3 DEF samples
<1>7. pk \in Packet
  <2>1. pk = [batch |-> pk.batch, samples |-> pk.samples]
    BY DEF Numbered
  <2>2. pk.batch \in 0..MaxNumber
    BY <1>4, PageFields, ContinuityAssumption
  <2>3. QED BY <1>6, <2>1, <2>2 DEF Packet
<1> HIDE DEF pk
<1>8. First(pk) = page.sample /\ Owner(pk) = q
  BY <1>1, <1>5, PageFields DEF First, Owner
<1>9. \/ \A i \in 1..n : pk.samples[i].action = IF i = 1 THEN "Down" ELSE "Move"
      \/ \A i \in 1..n : pk.samples[i].action = "Move"
      \/ \A i \in 1..n : pk.samples[i].action = "Hover"
      \/ \E action \in {"Up", "Cancel"} :
            \A i \in 1..n : pk.samples[i].action = IF i = n THEN action ELSE "Move"
  <2>1. CASE actions = Begun(n)
    BY <1>5, <2>1 DEF Begun
  <2>2. CASE actions = Moved(n, "Move")
    BY <1>5, <2>2 DEF Moved
  <2>3. CASE actions = Moved(n, "Hover")
    BY <1>5, <2>3 DEF Moved
  <2>4. ASSUME NEW action \in {"Up", "Cancel"}, actions = Ended(n, action)
        PROVE  \A i \in 1..n : pk.samples[i].action = IF i = n THEN action ELSE "Move"
    BY <1>5, <2>4 DEF Ended
  <2>5. QED BY <2>1, <2>2, <2>3, <2>4
<1>10. Shape(pk)
  BY <1>1, <1>5, <1>6, <1>7, <1>8, <1>9 DEF Shape
<1>11. QED BY <1>1, <1>3, <1>4, <1>5, <1>6, <1>8, <1>10 DEF pk

\* A page whose contacts alone are replaced.
LEMMA Contacted ==
    ASSUME TypeOK, NEW B
    PROVE  [page EXCEPT !.contacts = B] =
              [transport |-> page.transport, pending |-> page.pending, contacts |-> B,
               interrupted |-> page.interrupted, batch |-> page.batch, sample |-> page.sample]
  BY PageFields

\* The page after sendInput, with D removed from its contacts afterwards.
LEMMA SentPage ==
    ASSUME TypeOK, NEW q \in Pointers, NEW n \in Nat, NEW actions, Len(actions) = n,
           NEW B \in SUBSET Pointers, NEW D \in SUBSET Pointers,
           page' = [Sent([page EXCEPT !.contacts = B], q, actions) EXCEPT !.contacts = @ \ D]
    PROVE  /\ Chosen(page) # None =>
                 page' = Paged(Chosen(page), page.pending, B \ D, page.interrupted, n)
           /\ Chosen(page) = None /\ Len(page.pending) < MaxPending =>
                 page' = Paged(page.transport, Append(page.pending, Numbered(page, q, actions)),
                               B \ D, page.interrupted, n)
           /\ Chosen(page) = None /\ ~(Len(page.pending) < MaxPending) =>
                 \E I \in SUBSET Pointers : page' = Paged(page.transport, <<>>, {}, I, n)
<1> DEFINE p == [page EXCEPT !.contacts = B]
<1>1. p = [transport |-> page.transport, pending |-> page.pending, contacts |-> B,
           interrupted |-> page.interrupted, batch |-> page.batch, sample |-> page.sample]
  BY PageFields
<1>0. page' = [Sent(p, q, actions) EXCEPT !.contacts = @ \ D]
  OBVIOUS
<1> HIDE DEF p
<1>2. Chosen(p) = Chosen(page) /\ Numbered(p, q, actions) = Numbered(page, q, actions)
  BY <1>1 DEF Chosen, Numbered
<1> DEFINE next == [p EXCEPT !.batch = @ + 1, !.sample = @ + Len(actions)]
<1>3. next = Paged(page.transport, page.pending, B, page.interrupted, n)
  <2>1. /\ p.batch = page.batch /\ p.sample = page.sample
        /\ DOMAIN p = {"transport", "pending", "contacts", "interrupted", "batch", "sample"}
    BY <1>1
  <2>2. next = [[p EXCEPT !.batch = page.batch + 1] EXCEPT !.sample = page.sample + n]
    BY <2>1
  <2> DEFINE r == [p EXCEPT !.batch = page.batch + 1]
  <2>3. r = [transport |-> page.transport, pending |-> page.pending, contacts |-> B,
             interrupted |-> page.interrupted, batch |-> page.batch + 1, sample |-> page.sample]
    BY <1>1
  <2>4. next = [r EXCEPT !.sample = page.sample + n]
    BY <2>2
  <2> HIDE DEF r, next
  <2>5. QED BY <2>3, <2>4 DEF Paged
<1>4. page' = [(IF Chosen(page) = None THEN Keep(next, Numbered(page, q, actions))
                ELSE [next EXCEPT !.transport = Chosen(page)]) EXCEPT !.contacts = @ \ D]
  BY <1>0, <1>2 DEF Sent
<1> HIDE DEF next
<1>5. CASE Chosen(page) # None
  <2>1. page' = [[next EXCEPT !.transport = Chosen(page)] EXCEPT !.contacts = @ \ D]
    BY <1>4, <1>5
  <2>2. QED BY <1>3, <1>5, <2>1 DEF Paged
<1>6. CASE Chosen(page) = None /\ Len(page.pending) < MaxPending
  <2>1. next.pending = page.pending
    BY <1>3 DEF Paged
  <2>2. page' = [[next EXCEPT !.pending = Append(@, Numbered(page, q, actions))]
                    EXCEPT !.contacts = @ \ D]
    BY <1>4, <1>6, <2>1 DEF Keep
  <2>3. QED BY <1>3, <1>6, <2>2 DEF Paged
<1>7. CASE Chosen(page) = None /\ ~(Len(page.pending) < MaxPending)
  <2>1. next.pending = page.pending
    BY <1>3 DEF Paged
  <2>2. page' = [AbandonAll([next EXCEPT !.pending = <<>>]) EXCEPT !.contacts = @ \ D]
    BY <1>4, <1>7, <2>1 DEF Keep
  <2>3. page' = Paged(page.transport, <<>>, {}, page.interrupted \cup B, n)
    BY <1>3, <2>2 DEF Paged, AbandonAll
  <2>4. QED BY <1>7, <2>3, PageFields
<1>8. QED BY <1>5, <1>6, <1>7

\* Every pointer event that is sent is one batch.
LEMMA Sending ==
    ASSUME TypeOK, NEW q \in Pointers, PointerDown(q) \/ PointerMove(q) \/ PointerUp(q)
    PROVE  \E pk, C : Sends(pk, C)
<1>1. ASSUME NEW n \in 1..MaxSamples, Room(n), NEW actions,
             \/ actions = Begun(n) \/ actions = Moved(n, "Move") \/ actions = Moved(n, "Hover")
             \/ \E action \in {"Up", "Cancel"} : actions = Ended(n, action),
             SendSamples(q, actions), UNCHANGED <<ready, hostVars, resets>>,
             NEW B \in SUBSET Pointers, NEW D \in SUBSET Pointers,
             page' = [Sent([page EXCEPT !.contacts = B], q, actions) EXCEPT !.contacts = @ \ D],
             Carries(page.contacts, Numbered(page, q, actions), B \ D),
             page.interrupted \cap (B \ D) = {}
      PROVE  Sends(Numbered(page, q, actions), B \ D)
  <2> DEFINE pk == Numbered(page, q, actions)  t == Chosen(page)
  <2>1. /\ Shape(pk) /\ pk.batch = page.batch /\ First(pk) = page.sample
        /\ Len(pk.samples) = n /\ Len(actions) = n /\ n < Half
    BY <1>1, NumberedShape
  <2>2. n \in Nat
    BY Widths
  <2>3. /\ t # None => page' = Paged(t, page.pending, B \ D, page.interrupted, n)
        /\ t = None /\ Len(page.pending) < MaxPending =>
              page' = Paged(page.transport, Append(page.pending, pk), B \ D, page.interrupted, n)
        /\ t = None /\ ~(Len(page.pending) < MaxPending) =>
              \E I \in SUBSET Pointers : page' = Paged(page.transport, <<>>, {}, I, n)
    BY <1>1, <2>1, <2>2, SentPage
  <2>4. /\ wire' = IF t = None THEN wire ELSE Transmit(t, <<pk>>)
        /\ clean' = (clean /\ (t # None => IsOpen(t) /\ serving[t])
                           /\ (t = None => Len(page.pending) < MaxPending))
    BY <1>1 DEF SendSamples
  <2>5. t # None /\ IsOpen(t) /\ serving[t] => wire' = [wire EXCEPT ![t] = Append(@, pk)]
    <3>1. SUFFICES ASSUME t # None, IsOpen(t), serving[t]
                   PROVE  wire' = [wire EXCEPT ![t] = Append(@, pk)]
      OBVIOUS
    <3>2. wire' = [wire EXCEPT ![t] = @ \o <<pk>>] /\ t \in Transports
      BY <2>4, <3>1, PageFields DEF Transmit
    <3>3. wire[t] \in Seq(Packet) /\ pk \in Packet
      BY <2>1, <3>2 DEF TypeOK, TransportType, Shape
    <3> HIDE DEF pk, t
    <3>4. wire[t] \o <<pk>> = Append(wire[t], pk)
      BY <3>3
    <3>5. QED BY <3>2, <3>4
  <2>6. t # None /\ ~(IsOpen(t) /\ serving[t]) => wire' = wire
    BY <2>4 DEF Transmit
  <2>7. clean \in BOOLEAN
    BY DEF TypeOK
  <2> HIDE DEF pk, t
  <2>8. /\ t = None /\ ~(Len(page.pending) < MaxPending) => wire' = wire /\ clean' = FALSE
        /\ t = None /\ Len(page.pending) < MaxPending => wire' = wire /\ clean' = clean
        /\ t # None /\ ~(IsOpen(t) /\ serving[t]) => clean' = FALSE
        /\ t # None /\ IsOpen(t) /\ serving[t] => clean' = clean
    BY <2>4, <2>7, Zenon
  <2>9. B \ D \subseteq Pointers
    OBVIOUS
  <2>10. QED BY <1>1, <2>1, <2>3, <2>5, <2>6, <2>8, <2>9 DEF Sends, pk, t
<1>2. CASE PointerDown(q)
  <2>1. PICK n \in 1..MaxSamples :
           /\ Room(n) /\ SendSamples(q, Begun(n))
           /\ page' = Sent([page EXCEPT !.contacts = @ \cup {q}], q, Begun(n))
    BY <1>2 DEF PointerDown
  <2>2. q \notin page.contacts \cup page.interrupted /\ UNCHANGED <<ready, hostVars, resets>>
    BY <1>2 DEF PointerDown
  <2> DEFINE B == page.contacts \cup {q}  pk == Numbered(page, q, Begun(n))
  <2>3. page' = [Sent([page EXCEPT !.contacts = B], q, Begun(n)) EXCEPT !.contacts = @ \ {}]
    <3> DEFINE p == [page EXCEPT !.contacts = B]
    <3>1. p = [transport |-> page.transport, pending |-> page.pending, contacts |-> B,
               interrupted |-> page.interrupted, batch |-> page.batch, sample |-> page.sample]
      <4> HIDE DEF B
      <4>1. QED BY Contacted
    <3>2. page' = Sent(p, q, Begun(n))
      BY <2>1
    <3> HIDE DEF p
    <3>3. [Sent(p, q, Begun(n)) EXCEPT !.contacts = @ \ {}] = Sent(p, q, Begun(n))
      BY <3>1 DEF Sent, Keep, AbandonAll
    <3>4. QED BY <3>2, <3>3 DEF p
  <2>4. pk.samples[1].action = "Down" /\ Owner(pk) = q
    <3>1. pk.samples[1].action = Begun(n)[1] /\ Owner(pk) = q
      BY <2>1, NumberedShape
    <3>2. QED BY <3>1, Widths DEF Begun
  <2>5. Carries(page.contacts, pk, B \ {})
    BY <2>2, <2>4 DEF Carries, Begins
  <2>6. B \in SUBSET Pointers /\ page.interrupted \cap (B \ {}) = {}
    BY <2>2, PageFields
  <2>7. Sends(pk, B \ {})
    BY <1>1, <2>1, <2>2, <2>3, <2>5, <2>6
  <2>8. QED BY <2>7
<1>3. CASE PointerMove(q)
  <2> DEFINE action == IF q \in page.contacts THEN "Move" ELSE "Hover"
  <2>1. PICK n \in 1..MaxSamples :
           /\ Room(n) /\ SendSamples(q, Moved(n, action)) /\ page' = Sent(page, q, Moved(n, action))
    BY <1>3 DEF PointerMove
  <2>2. q \notin page.interrupted /\ UNCHANGED <<ready, hostVars, resets>>
    BY <1>3 DEF PointerMove
  <2> DEFINE B == page.contacts  pk == Numbered(page, q, Moved(n, action))
  <2>3. page' = [Sent([page EXCEPT !.contacts = B], q, Moved(n, action)) EXCEPT !.contacts = @ \ {}]
    <3>1. [page EXCEPT !.contacts = B] = page
      BY PageFields
    <3>2. [Sent(page, q, Moved(n, action)) EXCEPT !.contacts = @ \ {}] = Sent(page, q, Moved(n, action))
      BY PageFields DEF Sent, Keep, AbandonAll
    <3>3. QED BY <2>1, <3>1, <3>2
  <2>4. /\ pk.samples[1].action = action /\ pk.samples[n].action = action /\ Owner(pk) = q
        /\ Len(pk.samples) = n
    <3>1. /\ pk.samples[1].action = Moved(n, action)[1] /\ pk.samples[n].action = Moved(n, action)[n]
          /\ Owner(pk) = q /\ Len(pk.samples) = n
      BY <2>1, NumberedShape
    <3>2. QED BY <3>1, Widths DEF Moved
  <2>5. Carries(page.contacts, pk, B \ {})
    BY <2>4 DEF Carries, Begins, Finishes, Hovers
  <2>6. B \in SUBSET Pointers /\ page.interrupted \cap (B \ {}) = {}
    BY PageFields
  <2>7. Sends(pk, B \ {})
    BY <1>1, <2>1, <2>2, <2>3, <2>5, <2>6
  <2>8. QED BY <2>7
<1>4. CASE PointerUp(q)
  <2>1. PICK n \in 1..MaxSamples, action \in {"Up", "Cancel"} :
           /\ Room(n) /\ SendSamples(q, Ended(n, action))
           /\ page' = [Sent(page, q, Ended(n, action)) EXCEPT !.contacts = @ \ {q}]
    BY <1>4 DEF PointerUp
  <2>2. q \in page.contacts /\ UNCHANGED <<ready, hostVars, resets>>
    BY <1>4 DEF PointerUp
  <2> DEFINE B == page.contacts  pk == Numbered(page, q, Ended(n, action))
  <2>3. page' = [Sent([page EXCEPT !.contacts = B], q, Ended(n, action)) EXCEPT !.contacts = @ \ {q}]
    <3>1. [page EXCEPT !.contacts = B] = page
      BY PageFields
    <3>2. QED BY <2>1, <3>1
  <2>4. pk.samples[n].action = action /\ Owner(pk) = q /\ Len(pk.samples) = n
    <3>1. pk.samples[n].action = Ended(n, action)[n] /\ Owner(pk) = q /\ Len(pk.samples) = n
      BY <2>1, NumberedShape
    <3>2. QED BY <3>1, Widths DEF Ended
  <2>5. Carries(page.contacts, pk, B \ {q})
    BY <2>2, <2>4 DEF Carries, Finishes
  <2>6. B \in SUBSET Pointers /\ page.interrupted \cap (B \ {q}) = {} /\ {q} \in SUBSET Pointers
    BY PageFields
  <2>7. Sends(pk, B \ {q})
    BY <1>1, <2>1, <2>2, <2>3, <2>5, <2>6
  <2>8. QED BY <2>7
<1>5. QED BY <1>2, <1>3, <1>4

-----------------------------------------------------------------------------
(* Numbers under way                                                        *)

\* A batch stays within the window while the page goes on by d batches with n samples.
LEMMA StaysWithin ==
    ASSUME NEW pk, Shape(pk), NEW b \in Nat, NEW s \in Nat, Within(pk, b, s),
           NEW d \in Nat, NEW n \in Nat, d <= n, (s + n) - First(pk) < Half
    PROVE  Within(pk, b + d, s + n)
<1>1. pk.batch \in Nat /\ First(pk) \in Nat /\ Len(pk.samples) \in Nat
  BY ShapeType
<1>2. /\ pk.batch < b /\ First(pk) + Len(pk.samples) <= s
      /\ b - (pk.batch + 1) <= s - (First(pk) + Len(pk.samples))
  BY DEF Within, After
<1>3. \A a, f, m \in Nat : a < b /\ f + m <= s /\ b - (a + 1) <= s - (f + m) =>
         a < b + d /\ f + m <= s + n /\ (b + d) - (a + 1) <= (s + n) - (f + m)
  OBVIOUS
<1>4. /\ pk.batch < b + d /\ First(pk) + Len(pk.samples) <= s + n
      /\ (b + d) - (pk.batch + 1) <= (s + n) - (First(pk) + Len(pk.samples))
  BY <1>1, <1>2, <1>3
<1>5. After(pk) = First(pk) + Len(pk.samples)
  BY DEF After
<1>6. QED BY <1>4, <1>5, Zenon DEF Within

\* So does what the host expects.
LEMMA StaysAhead ==
    ASSUME NEW e \in Expected(Nat), NEW b \in Nat, NEW s \in Nat, Ahead(e, b, s),
           NEW d \in Nat, NEW n \in Nat, d <= n,
           e.sample # None => s + n - e.sample < Half
    PROVE  Ahead(e, b + d, s + n)
<1>1. e.batch \in Nat \cup {None} /\ e.sample \in Nat \cup {None}
  BY DEF Expected
<1>2. CASE e.sample = None
  BY <1>2 DEF Ahead
<1>3. CASE e.sample # None
  <2>1. e.batch \in Nat /\ e.sample \in Nat /\ e.batch <= b /\ e.sample <= s
        /\ b - e.batch <= s - e.sample
    BY <1>1, <1>3 DEF Ahead
  <2>2. QED BY <1>3, <2>1, Widths DEF Ahead
<1>4. QED BY <1>2, <1>3

\* Room(n) keeps everything under way within the window.
LEMMA RoomKeeps ==
    ASSUME TypeOK, WindowInv, NEW n \in Nat, NEW d \in Nat, d <= n, Room(n)
    PROVE  /\ \A i \in 1..Len(page.pending) :
                 /\ Shape(page.pending[i])
                 /\ Within(page.pending[i], page.batch + d, page.sample + n)
           /\ \A t \in Transports : \A i \in 1..Len(wire[t]) : wire[t][i] # End =>
                 /\ Shape(wire[t][i])
                 /\ Within(wire[t][i], page.batch + d, page.sample + n)
           /\ Ahead(truth.expected, page.batch + d, page.sample + n)
           /\ page.batch + d <= page.sample + n /\ page.sample + n <= MaxNumber
<1>0. page.batch \in Nat /\ page.sample \in Nat
  BY PageFields
<1>1. ASSUME NEW i \in 1..Len(page.pending)
      PROVE  /\ Shape(page.pending[i])
             /\ Within(page.pending[i], page.batch + d, page.sample + n)
  <2>1. Shape(page.pending[i]) /\ Within(page.pending[i], page.batch, page.sample)
    BY DEF WindowInv
  <2>2. (page.sample + n) - First(page.pending[i]) < Half
    <3>1. First(page.pending[i]) \in InUse(page) /\ First(page.pending[i]) \in Nat
      BY <2>1, ShapeType DEF InUse, First
    <3>2. QED BY <1>0, <3>1, Widths DEF Room
  <2>3. QED BY <1>0, <2>1, <2>2, StaysWithin
<1>2. ASSUME NEW t \in Transports, NEW i \in 1..Len(wire[t]), wire[t][i] # End
      PROVE  /\ Shape(wire[t][i])
             /\ Within(wire[t][i], page.batch + d, page.sample + n)
  <2>1. Shape(wire[t][i]) /\ Within(wire[t][i], page.batch, page.sample)
    BY <1>2 DEF WindowInv
  <2>2. First(wire[t][i]) \in {wire[t][k].samples[1].number : k \in {j \in 1..Len(wire[t]) : wire[t][j] # End}}
    BY <1>2 DEF First
  <2>3. First(wire[t][i]) \in InUse(page)
    <3> DEFINE N(x) == {wire[x][k].samples[1].number : k \in {j \in 1..Len(wire[x]) : wire[x][j] # End}}
    <3>1. N(t) \in {N(x) : x \in Transports} /\ First(wire[t][i]) \in N(t)
      BY <2>2
    <3>2. First(wire[t][i]) \in UNION {N(x) : x \in Transports}
      BY <3>1
    <3>3. QED BY <3>2 DEF InUse
  <2>4. (page.sample + n) - First(wire[t][i]) < Half
    BY <1>0, <2>1, <2>3, ShapeType, Widths DEF Room
  <2>5. QED BY <1>0, <2>1, <2>4, StaysWithin
<1>3. Ahead(truth.expected, page.batch + d, page.sample + n)
  <2>1. truth.expected \in Expected(Nat) /\ Ahead(truth.expected, page.batch, page.sample)
    BY DEF TypeOK, MetricsType, WindowInv
  <2>2. truth.expected.sample # None => page.sample + n - truth.expected.sample < Half
    <3> DEFINE e == truth.expected.sample
    <3>1. SUFFICES ASSUME e # None PROVE page.sample + n - e < Half
      OBVIOUS
    <3>2. e \in {truth.expected.sample} \ {None}
      BY <3>1
    <3>3. e \in InUse(page)
      BY <3>2 DEF InUse
    <3>4. QED BY <3>3 DEF Room
  <2>3. QED BY <1>0, <2>1, <2>2, StaysAhead
<1>4. page.batch + d <= page.sample + n /\ page.sample + n <= MaxNumber
  BY <1>0 DEF WindowInv, Room
<1>5. QED BY <1>1, <1>2, <1>3, <1>4

\* Nothing is open when a batch has nowhere to go, and what it chooses is in use or open.
LEMMA ChosenRoute ==
    ASSUME TypeOK, RouteInv
    PROVE  /\ Chosen(page) = None => page.transport = None /\ \A t \in Transports : ~IsOpen(t)
           /\ Chosen(page) # None =>
                 /\ page.pending = <<>> /\ ready[Chosen(page)] \in {"open", "closing"}
                 /\ page.transport # None => Chosen(page) = page.transport
                 /\ page.transport = None => IsOpen(Chosen(page))
<1>1. page.transport \in Transports \cup {None} /\ None \notin Transports
  BY PageFields
<1>2. Chosen(page) = None => page.transport = None /\ \A t \in Transports : ~IsOpen(t)
  BY <1>1 DEF Chosen, Transports
<1>3. ASSUME Chosen(page) # None
      PROVE  /\ page.pending = <<>> /\ ready[Chosen(page)] \in {"open", "closing"}
             /\ page.transport # None => Chosen(page) = page.transport
             /\ page.transport = None => IsOpen(Chosen(page)) /\ Chosen(page) \in Transports
  <2>1. CASE page.transport # None
    BY <2>1 DEF Chosen, RouteInv
  <2>2. CASE page.transport = None
    <3>1. Chosen(page) \in Transports /\ IsOpen(Chosen(page))
      BY <1>3, <2>2 DEF Chosen, Transports
    <3>2. QED BY <2>2, <3>1 DEF RouteInv, IsOpen
  <2>3. QED BY <2>1, <2>2
<1>4. QED BY <1>2, <1>3

-----------------------------------------------------------------------------
(* Types, routes and numbers: the steps of the browser                      *)

\* What every other invariant rests on.
Base == TypeOK /\ RouteInv /\ WindowInv

\* Sending a batch.
LEMMA SendsBase ==
    ASSUME Base, NEW pk, NEW C, Sends(pk, C)
    PROVE  Base'
<1> DEFINE t == Chosen(page)  n == Len(pk.samples)
<1>0. /\ TypeOK /\ RouteInv /\ WindowInv
      /\ Shape(pk) /\ pk.batch = page.batch /\ First(pk) = page.sample /\ n < Half /\ Room(n)
      /\ C \subseteq Pointers /\ page.interrupted \cap C = {}
      /\ UNCHANGED <<ready, hostVars, resets>>
  BY DEF Base, Sends
<1>1. n \in Nat \ {0} /\ pk \in Packet /\ pk # End
  BY <1>0, ShapeType DEF Shape
<1>2. PICK u \in Transports \cup {None}, pending \in Seq(Packet),
           contacts \in SUBSET Pointers, I \in SUBSET Pointers :
         /\ page' = Paged(u, pending, contacts, I, n)
         /\ Len(pending) <= MaxPending /\ contacts \cap I = {}
         /\ u = None \/ pending = <<>>
         /\ pending # <<>> => \A x \in Transports : ~IsOpen(x)
         /\ \A i \in 1..Len(pending) :
               \/ pending[i] = pk
               \/ \E j \in 1..Len(page.pending) : pending[i] = page.pending[j]
         /\ u # None => ready[u] \in {"open", "closing"}
         /\ page.transport # None => u = page.transport
         /\ clean' \in BOOLEAN
         /\ \/ wire' = wire
            \/ /\ u # None /\ IsOpen(u) /\ serving[u]
               /\ wire' = [wire EXCEPT ![u] = Append(@, pk)]
  <2>0. /\ page.pending \in Seq(Packet) /\ Len(page.pending) <= MaxPending
        /\ t \in Transports \cup {None} /\ clean \in BOOLEAN /\ page.interrupted \in SUBSET Pointers
        /\ <<>> \in Seq(Packet) /\ Len(<<>>) = 0 /\ MaxPending \in Nat
        /\ page.transport \in Transports \cup {None} /\ C \in SUBSET Pointers
    BY <1>0, PageFields, ContinuityAssumption DEF TypeOK, BrowserType
  <2>1. /\ t = None => page.transport = None /\ \A x \in Transports : ~IsOpen(x)
        /\ t # None => /\ page.pending = <<>> /\ ready[t] \in {"open", "closing"}
                       /\ page.transport # None => t = page.transport
    BY <1>0, ChosenRoute
  <2>2. CASE t = None /\ ~(Len(page.pending) < MaxPending)
    <3>1. PICK I \in SUBSET Pointers : page' = Paged(page.transport, <<>>, {}, I, n)
      BY <2>2 DEF Sends
    <3>2. wire' = wire /\ clean' = FALSE
      BY <2>2 DEF Sends
    <3>3. {} \in SUBSET Pointers /\ {} \cap I = {}
      OBVIOUS
    <3> HIDE DEF t, n
    <3>4. Len(<<>>) <= MaxPending /\ 1..Len(<<>>) = {} /\ page.transport = None
      BY <2>0, <2>1, <2>2
    <3>5. QED BY <2>0, <2>1, <3>1, <3>2, <3>3, <3>4
  <2>3. CASE t = None /\ Len(page.pending) < MaxPending
    <3> DEFINE more == Append(page.pending, pk)
    <3>1. /\ page' = Paged(page.transport, more, C, page.interrupted, n)
          /\ wire' = wire /\ clean' = clean
      BY <2>3 DEF Sends
    <3>2. /\ more \in Seq(Packet) /\ Len(more) = Len(page.pending) + 1
          /\ \A i \in 1..Len(more) : more[i] = IF i = Len(more) THEN pk ELSE page.pending[i]
      BY <1>1, <2>0
    <3>3. Len(more) <= MaxPending
      BY <2>0, <2>3, <3>2
    <3>4. \A i \in 1..Len(more) :
             more[i] = pk \/ \E j \in 1..Len(page.pending) : more[i] = page.pending[j]
      BY <2>0, <3>2
    <3> HIDE DEF more, t, n
    <3>5. C \cap page.interrupted = {}
      BY <1>0
    <3>6. QED BY <1>0, <2>0, <2>1, <2>3, <3>1, <3>2, <3>3, <3>4, <3>5
  <2>4. CASE t # None
    <3>1. /\ page' = Paged(t, page.pending, C, page.interrupted, n)
          /\ clean' = FALSE \/ clean' = clean
          /\ \/ wire' = wire
             \/ IsOpen(t) /\ serving[t] /\ wire' = [wire EXCEPT ![t] = Append(@, pk)]
      BY <2>4 DEF Sends
    <3>2. C \cap page.interrupted = {}
      BY <1>0
    <3> HIDE DEF t, n
    <3>3. QED BY <1>0, <2>0, <2>1, <2>4, <3>1, <3>2
  <2>5. QED BY <2>2, <2>3, <2>4
<1>3. /\ page'.transport = u /\ page'.pending = pending /\ page'.contacts = contacts
      /\ page'.interrupted = I /\ page'.batch = page.batch + 1 /\ page'.sample = page.sample + n
  BY <1>2 DEF Paged
<1>4. /\ \A i \in 1..Len(page.pending) :
            /\ Shape(page.pending[i])
            /\ Within(page.pending[i], page.batch + 1, page.sample + n)
      /\ \A x \in Transports : \A i \in 1..Len(wire[x]) : wire[x][i] # End =>
            Shape(wire[x][i]) /\ Within(wire[x][i], page.batch + 1, page.sample + n)
      /\ Ahead(truth.expected, page.batch + 1, page.sample + n)
      /\ page.batch + 1 <= page.sample + n /\ page.sample + n <= MaxNumber
  BY <1>0, <1>1, RoomKeeps
<1>5. page.batch \in Nat /\ page.sample \in Nat
  BY <1>0, PageFields
<1>6. Within(pk, page.batch + 1, page.sample + n)
  BY <1>0, <1>1, <1>5, Widths DEF Within, After
<1> HIDE DEF t, n
<1>7. BrowserType'
  <2>1. page' \in Page
    BY <1>1, <1>2, <1>4, <1>5, ContinuityAssumption DEF Page, Paged
  <2>2. QED BY <1>2, <1>3, <2>1 DEF BrowserType
<1>8. wire \in [Transports -> Seq(Packet)] /\ TransportType
  BY <1>0 DEF TypeOK, TransportType
<1>9. ASSUME NEW x \in Transports
      PROVE  /\ wire'[x] \in Seq(Packet)
             /\ wire'[x] = wire[x] \/ (/\ x = u /\ IsOpen(x) /\ serving[x]
                                       /\ Len(wire'[x]) = Len(wire[x]) + 1
                                       /\ wire'[x][Len(wire[x]) + 1] = pk
                                       /\ \A i \in 1..Len(wire[x]) : wire'[x][i] = wire[x][i])
  <2>1. wire[x] \in Seq(Packet)
    BY <1>8
  <2>2. CASE wire' = wire
    BY <2>1, <2>2
  <2>3. CASE /\ u # None /\ IsOpen(u) /\ serving[u]
             /\ wire' = [wire EXCEPT ![u] = Append(@, pk)]
    <3>1. wire'[x] = IF x = u THEN Append(wire[x], pk) ELSE wire[x]
      BY <1>8, <2>3
    <3>2. /\ Append(wire[x], pk) \in Seq(Packet) /\ Len(Append(wire[x], pk)) = Len(wire[x]) + 1
          /\ Append(wire[x], pk)[Len(wire[x]) + 1] = pk
          /\ \A i \in 1..Len(wire[x]) : Append(wire[x], pk)[i] = wire[x][i]
      BY <1>1, <2>1
    <3>3. QED BY <2>1, <2>3, <3>1, <3>2
  <2>4. QED BY <1>2, <2>2, <2>3
<1>10. wire' \in [Transports -> Seq(Packet)]
  <2>1. DOMAIN wire' = Transports /\ wire' = [x \in Transports |-> wire'[x]]
    BY <1>2, <1>8
  <2>2. QED BY <1>9, <2>1
<1>11. ASSUME NEW x \in Transports, NEW i \in 1..Len(wire'[x]), wire'[x] # wire[x]
       PROVE  wire'[x][i] # End /\ (wire'[x][i] = pk \/ (i \in 1..Len(wire[x]) /\ wire'[x][i] = wire[x][i]))
  <2>1. wire[x] \in Seq(Packet) /\ IsOpen(x)
    BY <1>8, <1>9, <1>11
  <2>2. \A j \in 1..Len(wire[x]) : wire[x][j] # End
    BY <1>0, <2>1 DEF RouteInv, IsOpen
  <2>3. QED BY <1>1, <1>9, <1>11, <2>1, <2>2
<1>12. TransportType'
  <2>1. ready' = ready /\ serving' = serving
    BY <1>0 DEF hostVars
  <2>2. \A x \in Transports : \A i \in 1..Len(wire'[x]) : wire'[x][i] = End => i = Len(wire'[x])
    BY <1>8, <1>11 DEF TransportType
  <2>3. QED BY <1>8, <1>10, <2>1, <2>2 DEF TransportType
<1>13. TypeOK'
  BY <1>0, <1>2, <1>7, <1>12 DEF TypeOK, MetricsType, hostVars
<1>14. RouteInv'
  <2>1. ready' = ready /\ serving' = serving
    BY <1>0 DEF hostVars
  <2>2. /\ page'.pending # <<>> => page'.transport = None /\ \A x \in Transports : ~IsOpen(x)'
        /\ page'.transport # None => ready'[page'.transport] \in {"open", "closing"}
    BY <1>2, <1>3, <2>1 DEF IsOpen
  <2>3. ASSUME NEW x \in Transports
        PROVE  /\ ready'[x] = "connecting" => serving'[x]
               /\ ~serving'[x] => wire'[x] = <<>>
               /\ ready'[x] \in {"connecting", "open"} /\ x # page'.transport => wire'[x] = <<>>
               /\ ready'[x] \in {"connecting", "open"} => \A i \in 1..Len(wire'[x]) : wire'[x][i] # End
               /\ ready'[x] \in {"closing", "closed"} /\ serving'[x] =>
                     wire'[x] # <<>> /\ wire'[x][Len(wire'[x])] = End
    <3>1. /\ ready[x] = "connecting" => serving[x]
          /\ ~serving[x] => wire[x] = <<>>
          /\ ready[x] \in {"connecting", "open"} /\ x # page.transport => wire[x] = <<>>
          /\ ready[x] \in {"connecting", "open"} => \A i \in 1..Len(wire[x]) : wire[x][i] # End
          /\ ready[x] \in {"closing", "closed"} /\ serving[x] =>
                wire[x] # <<>> /\ wire[x][Len(wire[x])] = End
      BY <1>0 DEF RouteInv
    <3>2. CASE wire'[x] # wire[x]
      <4>1. x = u /\ serving[x] /\ ready[x] = "open"
        BY <1>9, <3>2 DEF IsOpen
      <4>2. QED BY <1>3, <1>11, <2>1, <3>2, <4>1
    <3>3. CASE wire'[x] = wire[x]
      <4>1. x # u => x # page.transport
        BY <1>2, PageFields, <1>0
      <4>2. QED BY <1>3, <2>1, <3>1, <3>3, <4>1
    <3>4. QED BY <3>2, <3>3
  <2>4. QED BY <2>2, <2>3 DEF RouteInv
<1>15. WindowInv'
  <2>1. ASSUME NEW i \in 1..Len(page'.pending)
        PROVE  Shape(page'.pending[i]) /\ Within(page'.pending[i], page'.batch, page'.sample)
    BY <1>0, <1>2, <1>3, <1>4, <1>6
  <2>2. ASSUME NEW x \in Transports, NEW i \in 1..Len(wire'[x]), wire'[x][i] # End
        PROVE  Shape(wire'[x][i]) /\ Within(wire'[x][i], page'.batch, page'.sample)
    BY <1>0, <1>3, <1>4, <1>6, <1>11, <2>2
  <2>3. truth' = truth
    BY <1>0 DEF hostVars
  <2>4. QED BY <1>3, <1>4, <2>1, <2>2, <2>3 DEF WindowInv
<1>16. QED BY <1>13, <1>14, <1>15 DEF Base


-----------------------------------------------------------------------------
(* Types, routes and numbers: the other steps                               *)

\* The fields that have to do with the transports.
LEMMA WireFields ==
    ASSUME TypeOK
    PROVE  /\ wire \in [Transports -> Seq(Packet)] /\ serving \in [Transports -> BOOLEAN]
           /\ ready \in [Transports -> {"connecting", "open", "closing", "closed"}]
           /\ \A t \in Transports : wire[t] \in Seq(Packet) /\ Len(wire[t]) \in Nat
           /\ \A t \in Transports : \A i \in 1..Len(wire[t]) : wire[t][i] = End => i = Len(wire[t])
           /\ End \in Packet /\ <<>> \in Seq(Packet)
<1>1. TransportType
  BY DEF TypeOK
<1>2. \A t \in Transports : wire[t] \in Seq(Packet) /\ Len(wire[t]) \in Nat
  BY <1>1 DEF TransportType
<1>3. End \in Packet
  BY ContinuityAssumption DEF End, Packet
<1>4. QED BY <1>1, <1>2, <1>3 DEF TransportType

\* The window does not look at where the batches are.
LEMMA WindowKept ==
    ASSUME WindowInv, page'.batch = page.batch, page'.sample = page.sample,
           \A i \in 1..Len(page'.pending) :
              \E j \in 1..Len(page.pending) : page'.pending[i] = page.pending[j],
           \A t \in Transports : \A i \in 1..Len(wire'[t]) : wire'[t][i] # End =>
              \/ \E j \in 1..Len(wire[t]) : wire'[t][i] = wire[t][j]
              \/ \E j \in 1..Len(page.pending) : wire'[t][i] = page.pending[j],
           Ahead(truth'.expected, page.batch, page.sample)
    PROVE  WindowInv'
<1>1. ASSUME NEW i \in 1..Len(page'.pending)
      PROVE  Shape(page'.pending[i]) /\ Within(page'.pending[i], page.batch, page.sample)
  BY DEF WindowInv
<1>2. ASSUME NEW t \in Transports, NEW i \in 1..Len(wire'[t]), wire'[t][i] # End
      PROVE  Shape(wire'[t][i]) /\ Within(wire'[t][i], page.batch, page.sample)
  <2>1. CASE \E j \in 1..Len(wire[t]) : wire'[t][i] = wire[t][j]
    BY <1>2, <2>1 DEF WindowInv
  <2>2. CASE \E j \in 1..Len(page.pending) : wire'[t][i] = page.pending[j]
    BY <2>2 DEF WindowInv
  <2>3. QED BY <1>2, <2>1, <2>2
<1>3. QED BY <1>1, <1>2 DEF WindowInv

\* Stray and interrupted ends change numbers and interrupted contacts only.
LEMMA StraysBase ==
    ASSUME Base, NEW q \in Pointers, InterruptedUp(q) \/ StrayUp(q)
    PROVE  Base'
<1>0. TypeOK /\ RouteInv /\ WindowInv
  BY DEF Base
<1>1. /\ page'.transport = page.transport /\ page'.pending = page.pending
      /\ page'.contacts = page.contacts /\ page'.interrupted \subseteq page.interrupted
      /\ page'.batch = page.batch /\ page' \in Page
      /\ UNCHANGED <<ready, wire, hostVars, clean>> /\ resets' \in 0..MaxResets
  <2>0. /\ page \in Page /\ resets \in 0..MaxResets /\ MaxResets \in Nat /\ MaxNumber \in Nat
        /\ page.sample \in Nat
    BY <1>0, ContinuityAssumption, PageFields DEF TypeOK, BrowserType
  <2>1. CASE InterruptedUp(q)
    BY <2>0, <2>1 DEF InterruptedUp, Page
  <2>2. CASE StrayUp(q)
    <3>1. PICK n \in 1..MaxSamples : Room(n) /\ page' = [page EXCEPT !.sample = @ + n]
      BY <2>2 DEF StrayUp
    <3>2. page.sample + n \in 0..MaxNumber
      BY <2>0, <3>1, Widths DEF Room
    <3>3. /\ UNCHANGED <<ready, wire, hostVars, clean>>
          /\ resets < MaxResets /\ resets' = resets + 1
      BY <2>2 DEF StrayUp
    <3>4. page' \in Page
      BY <2>0, <3>1, <3>2 DEF Page
    <3>5. resets' \in 0..MaxResets
      BY <2>0, <3>3
    <3>6. /\ page'.transport = page.transport /\ page'.pending = page.pending
          /\ page'.contacts = page.contacts /\ page'.interrupted = page.interrupted
          /\ page'.batch = page.batch
      BY <2>0, <3>1 DEF Page
    <3>7. QED BY <3>3, <3>4, <3>5, <3>6
  <2>3. QED BY <2>1, <2>2
<1>2. TypeOK'
  <2>1. BrowserType'
    BY <1>0, <1>1 DEF TypeOK, BrowserType
  <2>2. QED BY <1>0, <1>1, <2>1 DEF TypeOK, TransportType, MetricsType, hostVars
<1>3. RouteInv'
  BY <1>0, <1>1 DEF RouteInv, IsOpen, hostVars
<1>4. WindowInv'
  <2>0. truth' = truth /\ wire' = wire
    BY <1>1 DEF hostVars
  <2>1. CASE InterruptedUp(q)
    <3>1. page'.sample = page.sample
      BY <1>0, <2>1 DEF InterruptedUp, TypeOK, BrowserType, Page
    <3>2. QED BY <1>0, <1>1, <2>0, <3>1 DEF WindowInv
  <2>2. CASE StrayUp(q)
    <3>1. PICK n \in 1..MaxSamples : Room(n) /\ page' = [page EXCEPT !.sample = @ + n]
      BY <2>2 DEF StrayUp
    <3>2. page'.sample = page.sample + n /\ n \in Nat /\ page.batch + 0 = page.batch
      BY <1>0, <3>1, PageFields, Widths DEF TypeOK, BrowserType, Page
    <3>3. /\ \A i \in 1..Len(page.pending) :
                Shape(page.pending[i]) /\ Within(page.pending[i], page.batch + 0, page.sample + n)
          /\ \A t \in Transports : \A i \in 1..Len(wire[t]) : wire[t][i] # End =>
                Shape(wire[t][i]) /\ Within(wire[t][i], page.batch + 0, page.sample + n)
          /\ Ahead(truth.expected, page.batch + 0, page.sample + n)
          /\ page.batch + 0 <= page.sample + n
      BY <1>0, <3>1, <3>2, RoomKeeps
    <3>4. QED BY <1>1, <2>0, <3>2, <3>3 DEF WindowInv
  <2>3. QED BY <2>1, <2>2
<1>5. QED BY <1>2, <1>3, <1>4 DEF Base

\* The transport t of the packets kept has been silent before it opens, and the host
\* is there.
LEMMA OpenedStream ==
    ASSUME Base, NEW t \in Transports, Opened(t)
    PROVE  /\ ready[t] = "connecting" /\ serving[t] /\ page.transport # t /\ wire[t] = <<>>
           /\ ready' = [ready EXCEPT ![t] = "open"] /\ UNCHANGED <<hostVars, resets>>
           /\ clean' = clean
           /\ \/ /\ page.transport = None
                 /\ page' = [page EXCEPT !.transport = t, !.pending = <<>>]
                 /\ wire' = [wire EXCEPT ![t] = page.pending]
              \/ page.pending = <<>> /\ UNCHANGED <<page, wire>>
<1>0. TypeOK /\ RouteInv
  BY DEF Base
<1>1. /\ ready[t] = "connecting" /\ ready' = [ready EXCEPT ![t] = "open"]
      /\ UNCHANGED <<hostVars, resets>>
  BY DEF Opened
<1>2. serving[t]
  BY <1>0, <1>1 DEF RouteInv
<1>3. page.transport # t
  BY <1>0, <1>1, PageFields DEF RouteInv
<1>4. wire[t] = <<>> /\ page.pending \in Seq(Packet) /\ clean \in BOOLEAN
  BY <1>0, <1>1, <1>3, PageFields DEF RouteInv, TypeOK
<1>5. <<>> \o page.pending = page.pending
  BY <1>4
<1>6. CASE page.pending # <<>> /\ page.transport = None
  <2>1. /\ page' = [page EXCEPT !.transport = t, !.pending = <<>>]
        /\ wire' = [wire EXCEPT ![t] = wire[t] \o page.pending] /\ clean' = (clean /\ serving[t])
    BY <1>2, <1>6 DEF Opened
  <2>2. clean' = clean
    BY <1>2, <1>4, <2>1, Zenon
  <2>3. QED BY <1>1, <1>2, <1>3, <1>4, <1>5, <1>6, <2>1, <2>2
<1>7. CASE ~(page.pending # <<>> /\ page.transport = None)
  <2>1. UNCHANGED <<page, wire, clean>>
    BY <1>7 DEF Opened
  <2>2. page.pending = <<>>
    BY <1>0, <1>7 DEF TypeOK, BrowserType
  <2>3. QED BY <1>1, <1>2, <1>3, <1>4, <2>1, <2>2
<1>8. QED BY <1>6, <1>7

\* A transport opens.
LEMMA OpenedBase ==
    ASSUME Base, NEW t \in Transports, Opened(t)
    PROVE  Base'
<1>0. TypeOK /\ RouteInv /\ WindowInv
  BY DEF Base
<1>1. /\ ready[t] = "connecting" /\ serving[t] /\ page.transport # t /\ wire[t] = <<>>
      /\ ready' = [ready EXCEPT ![t] = "open"]
      /\ serving' = serving /\ state' = state /\ counts' = counts /\ truth' = truth
      /\ resets' = resets /\ clean' = clean
  BY OpenedStream DEF hostVars
<1>2. /\ page \in Page /\ page.pending \in Seq(Packet)
      /\ ready'[t] = "open" /\ \A x \in Transports : x # t => ready'[x] = ready[x]
      /\ ready' \in [Transports -> {"connecting", "open", "closing", "closed"}]
      /\ None \notin Transports
  BY <1>0, <1>1, WireFields, PageFields DEF TypeOK, BrowserType
<1>3. MetricsType' /\ clean' \in BOOLEAN /\ resets' \in 0..MaxResets
  BY <1>0, <1>1 DEF TypeOK, MetricsType
<1>4. Ahead(truth'.expected, page.batch, page.sample)
  BY <1>0, <1>1 DEF WindowInv
<1>5. CASE /\ page.transport = None
           /\ page' = [page EXCEPT !.transport = t, !.pending = <<>>]
           /\ wire' = [wire EXCEPT ![t] = page.pending]
  <2>1. /\ page'.transport = t /\ page'.pending = <<>> /\ page'.contacts = page.contacts
        /\ page'.interrupted = page.interrupted
        /\ page'.batch = page.batch /\ page'.sample = page.sample /\ page' \in Page
    <3> DEFINE p == [page EXCEPT !.transport = t]
    <3>1. /\ p \in Page /\ p.transport = t /\ p.contacts = page.contacts
          /\ p.interrupted = page.interrupted /\ p.batch = page.batch /\ p.sample = page.sample
      BY <1>2 DEF Page
    <3>2. page' = [p EXCEPT !.pending = <<>>] /\ <<>> \in Seq(Packet)
      BY <1>5
    <3> HIDE DEF p
    <3>3. QED BY <3>1, <3>2 DEF Page
  <2>2. /\ wire' \in [Transports -> Seq(Packet)] /\ wire'[t] = page.pending
        /\ \A x \in Transports : x # t => wire'[x] = wire[x]
    BY <1>0, <1>2, <1>5, WireFields
  <2>3. \A i \in 1..Len(page.pending) : page.pending[i] # End
    BY <1>0, ShapeType DEF WindowInv
  <2>4. BrowserType'
    BY <1>0, <2>1, ContinuityAssumption DEF TypeOK, BrowserType
  <2>5. TransportType'
    <3>1. ASSUME NEW x \in Transports, NEW i \in 1..Len(wire'[x]), wire'[x][i] = End
          PROVE  i = Len(wire'[x])
      BY <1>0, <2>2, <2>3, <3>1, WireFields
    <3>2. serving' \in [Transports -> BOOLEAN]
      BY <1>0, <1>1, WireFields
    <3>3. QED BY <1>2, <2>2, <3>1, <3>2 DEF TransportType
  <2>6. RouteInv'
    <3>1. ASSUME NEW x \in Transports
          PROVE  /\ ready'[x] = "connecting" => serving'[x]
                 /\ ~serving'[x] => wire'[x] = <<>>
                 /\ ready'[x] \in {"connecting", "open"} /\ x # page'.transport => wire'[x] = <<>>
                 /\ ready'[x] \in {"connecting", "open"} => \A i \in 1..Len(wire'[x]) : wire'[x][i] # End
                 /\ ready'[x] \in {"closing", "closed"} /\ serving'[x] =>
                       wire'[x] # <<>> /\ wire'[x][Len(wire'[x])] = End
      <4>1. CASE x = t
        BY <1>1, <1>2, <2>1, <2>2, <2>3, <4>1
      <4>2. CASE x # t
        BY <1>0, <1>1, <1>2, <1>5, <2>1, <2>2, <4>2 DEF RouteInv
      <4>3. QED BY <4>1, <4>2
    <3>2. QED BY <1>2, <2>1, <3>1 DEF RouteInv
  <2>7. WindowInv'
    <3>1. \A i \in 1..Len(page'.pending) :
             \E j \in 1..Len(page.pending) : page'.pending[i] = page.pending[j]
      BY <2>1
    <3>2. ASSUME NEW x \in Transports, NEW i \in 1..Len(wire'[x])
          PROVE  \/ \E j \in 1..Len(wire[x]) : wire'[x][i] = wire[x][j]
                 \/ \E j \in 1..Len(page.pending) : wire'[x][i] = page.pending[j]
      BY <2>2
    <3>3. QED BY <1>0, <1>4, <2>1, <3>1, <3>2, WindowKept
  <2>8. QED BY <1>3, <2>4, <2>5, <2>6, <2>7 DEF Base, TypeOK
<1>6. CASE page.pending = <<>> /\ UNCHANGED <<page, wire>>
  <2>1. BrowserType' /\ TransportType'
    BY <1>0, <1>1, <1>2, <1>6 DEF TypeOK, BrowserType, TransportType
  <2>2. RouteInv'
    <3>1. ASSUME NEW x \in Transports
          PROVE  /\ ready'[x] = "connecting" => serving[x]
                 /\ ~serving[x] => wire[x] = <<>>
                 /\ ready'[x] \in {"connecting", "open"} /\ x # page.transport => wire[x] = <<>>
                 /\ ready'[x] \in {"connecting", "open"} => \A i \in 1..Len(wire[x]) : wire[x][i] # End
                 /\ ready'[x] \in {"closing", "closed"} /\ serving[x] =>
                       wire[x] # <<>> /\ wire[x][Len(wire[x])] = End
      <4>1. CASE x = t
        BY <1>0, <1>1, <1>2, <4>1 DEF RouteInv
      <4>2. CASE x # t
        BY <1>0, <1>1, <1>2, <4>2 DEF RouteInv
      <4>3. QED BY <4>1, <4>2
    <3>2. page.transport # None => ready'[page.transport] \in {"open", "closing"}
      BY <1>0, <1>1, <1>2, PageFields DEF RouteInv
    <3>3. QED BY <1>1, <1>6, <3>1, <3>2 DEF RouteInv
  <2>3. WindowInv'
    BY <1>0, <1>1, <1>6 DEF WindowInv
  <2>4. QED BY <1>3, <2>1, <2>2, <2>3 DEF Base, TypeOK
<1>7. QED BY <1>5, <1>6, OpenedStream

\* The connection breaks.
LEMMA BreaksBase ==
    ASSUME Base, NEW t \in Transports, Breaks(t)
    PROVE  Base'
<1>0. TypeOK /\ RouteInv /\ WindowInv
  BY DEF Base
<1>1. /\ ready[t] = "open" /\ ready' = [ready EXCEPT ![t] = "closing"] /\ page' = page
      /\ serving' = serving /\ state' = state /\ counts' = counts /\ truth' = truth
      /\ resets' = resets
  BY DEF Breaks, hostVars
<1>2. /\ ready'[t] = "closing" /\ \A x \in Transports : x # t => ready'[x] = ready[x]
      /\ ready' \in [Transports -> {"connecting", "open", "closing", "closed"}]
  BY <1>0, <1>1, WireFields
<1>3. MetricsType' /\ BrowserType' /\ resets' \in 0..MaxResets
  BY <1>0, <1>1 DEF TypeOK, MetricsType, BrowserType
<1>4. clean' \in BOOLEAN
  BY <1>0 DEF Breaks, TypeOK
<1>5. page.pending = <<>>
  BY <1>0, <1>1 DEF RouteInv, IsOpen
<1>6. /\ wire' \in [Transports -> Seq(Packet)]
      /\ \A x \in Transports : x # t => wire'[x] = wire[x]
      /\ serving[t] => /\ Len(wire'[t]) \in Nat \ {0} /\ wire'[t][Len(wire'[t])] = End
                       /\ \A i \in 1..Len(wire'[t]) - 1 :
                             i \in 1..Len(wire[t]) /\ wire'[t][i] = wire[t][i]
      /\ ~serving[t] => wire'[t] = <<>>
  <2>1. CASE serving[t]
    <3>1. PICK n \in 0..Len(wire[t]) : wire' = [wire EXCEPT ![t] = Append(SubSeq(@, 1, n), End)]
      BY <2>1 DEF Breaks
    <3> DEFINE part == SubSeq(wire[t], 1, n)
    <3>2. /\ part \in Seq(Packet) /\ Len(part) = n /\ n \in Nat
          /\ \A i \in 1..n : i \in 1..Len(wire[t]) /\ part[i] = wire[t][i]
      BY <1>0, WireFields
    <3>3. wire' = [wire EXCEPT ![t] = Append(part, End)]
      BY <3>1
    <3> HIDE DEF part
    <3>4. /\ Append(part, End) \in Seq(Packet) /\ Len(Append(part, End)) = n + 1
          /\ Append(part, End)[n + 1] = End /\ \A i \in 1..n : Append(part, End)[i] = part[i]
      BY <1>0, <3>2, WireFields
    <3>5. wire' \in [Transports -> Seq(Packet)] /\ wire'[t] = Append(part, End)
          /\ \A x \in Transports : x # t => wire'[x] = wire[x]
      BY <1>0, <3>3, <3>4, WireFields
    <3>6. QED BY <2>1, <3>2, <3>4, <3>5
  <2>2. CASE ~serving[t]
    <3>1. wire' = wire
      BY <2>2 DEF Breaks
    <3>2. QED BY <1>0, <2>2, <3>1, WireFields DEF RouteInv
  <2>3. QED BY <2>1, <2>2
<1>7. \A i \in 1..Len(wire[t]) : wire[t][i] # End
  BY <1>0, <1>1 DEF RouteInv
<1>8. ASSUME NEW x \in Transports, NEW i \in 1..Len(wire'[x]), wire'[x][i] # End
      PROVE  \E j \in 1..Len(wire[x]) : wire'[x][i] = wire[x][j]
  <2>1. CASE x = t /\ serving[t]
    <3>1. i # Len(wire'[t])
      BY <1>6, <1>8, <2>1
    <3>2. i \in 1..Len(wire'[t]) - 1
      BY <1>6, <2>1, <3>1
    <3>3. QED BY <1>6, <2>1, <3>2
  <2>2. CASE ~(x = t /\ serving[t])
    BY <1>6, <2>2
  <2>3. QED BY <2>1, <2>2
<1>9. TransportType'
  <2>1. ASSUME NEW x \in Transports, NEW i \in 1..Len(wire'[x]), wire'[x][i] = End
        PROVE  i = Len(wire'[x])
    <3>1. CASE x = t /\ serving[t]
      <4>1. CASE i \in 1..Len(wire'[t]) - 1
        BY <1>6, <1>7, <2>1, <3>1, <4>1
      <4>2. CASE i \notin 1..Len(wire'[t]) - 1
        BY <1>6, <3>1, <4>2
      <4>3. QED BY <4>1, <4>2
    <3>2. CASE x = t /\ ~serving[t]
      BY <1>6, <3>2
    <3>3. CASE x # t
      BY <1>0, <1>6, <2>1, <3>3, WireFields
    <3>4. QED BY <3>1, <3>2, <3>3
  <2>2. serving' \in [Transports -> BOOLEAN]
    BY <1>0, <1>1, WireFields
  <2>3. QED BY <1>2, <1>6, <2>1, <2>2 DEF TransportType
<1>10. RouteInv'
  <2>1. ASSUME NEW x \in Transports
        PROVE  /\ ready'[x] = "connecting" => serving[x]
               /\ ~serving[x] => wire'[x] = <<>>
               /\ ready'[x] \in {"connecting", "open"} /\ x # page.transport => wire'[x] = <<>>
               /\ ready'[x] \in {"connecting", "open"} => \A i \in 1..Len(wire'[x]) : wire'[x][i] # End
               /\ ready'[x] \in {"closing", "closed"} /\ serving[x] =>
                     wire'[x] # <<>> /\ wire'[x][Len(wire'[x])] = End
    <3>1. CASE x = t
      <4>1. serving[t] => wire'[t] # <<>>
        BY <1>6
      <4>2. QED BY <1>2, <1>6, <3>1, <4>1
    <3>2. CASE x # t
      BY <1>0, <1>2, <1>6, <3>2 DEF RouteInv
    <3>3. QED BY <3>1, <3>2
  <2>2. page.transport # None => ready'[page.transport] \in {"open", "closing"}
    BY <1>0, <1>2, PageFields DEF RouteInv
  <2>3. QED BY <1>1, <1>5, <2>1, <2>2 DEF RouteInv
<1>11. WindowInv'
  <2>1. Ahead(truth'.expected, page.batch, page.sample)
    BY <1>0, <1>1 DEF WindowInv
  <2>2. QED BY <1>0, <1>1, <1>8, <2>1, WindowKept
<1>12. QED BY <1>3, <1>4, <1>9, <1>10, <1>11 DEF Base, TypeOK

\* The page after the close event of a transport.
LEMMA ClosedPage ==
    ASSUME Base, NEW t \in Transports, CloseEvent(t)
    PROVE  /\ ready[t] = "closing" /\ ready' = [ready EXCEPT ![t] = "closed"]
           /\ wire' = wire /\ UNCHANGED hostVars /\ resets' = resets
           /\ \/ /\ page.transport = t /\ clean' = FALSE
                 /\ page' \in Page
                 /\ page'.transport = None /\ page'.pending = <<>> /\ page'.contacts = {}
                 /\ page'.batch = page.batch /\ page'.sample = page.sample
              \/ page.transport # t /\ UNCHANGED <<page, clean>>
<1>0. TypeOK
  BY DEF Base
<1>1. /\ ready[t] = "closing" /\ ready' = [ready EXCEPT ![t] = "closed"]
      /\ wire' = wire /\ UNCHANGED hostVars /\ resets' = resets
  BY DEF CloseEvent
<1>2. CASE page.transport # t
  BY <1>1, <1>2 DEF CloseEvent
<1>3. CASE page.transport = t
  <2> DEFINE p == [page EXCEPT !.transport = None, !.pending = <<>>]
  <2>1. page' = AbandonAll(p) /\ clean' = FALSE
    BY <1>3 DEF CloseEvent
  <2>2. p = [transport |-> None, pending |-> <<>>, contacts |-> page.contacts,
             interrupted |-> page.interrupted, batch |-> page.batch, sample |-> page.sample]
    <3> DEFINE r == [page EXCEPT !.transport = None]
    <3>1. r = [transport |-> None, pending |-> page.pending, contacts |-> page.contacts,
               interrupted |-> page.interrupted, batch |-> page.batch, sample |-> page.sample]
      BY <1>0, PageFields
    <3>2. p = [r EXCEPT !.pending = <<>>]
      OBVIOUS
    <3> HIDE DEF r, p
    <3>3. QED BY <3>1, <3>2
  <2> HIDE DEF p
  <2>3. page' = [transport |-> None, pending |-> <<>>, contacts |-> {},
                 interrupted |-> page.interrupted \cup page.contacts,
                 batch |-> page.batch, sample |-> page.sample]
    BY <2>1, <2>2 DEF AbandonAll
  <2>4. /\ page.contacts \in SUBSET Pointers /\ page.interrupted \in SUBSET Pointers
        /\ page.batch \in 0..MaxNumber /\ page.sample \in 0..MaxNumber
    BY <1>0 DEF TypeOK, BrowserType, Page
  <2>5. page' \in Page
    BY <2>3, <2>4 DEF Page
  <2>6. QED BY <1>1, <1>3, <2>1, <2>3, <2>5
<1>4. QED BY <1>2, <1>3

\* The close event.
LEMMA CloseBase ==
    ASSUME Base, NEW t \in Transports, CloseEvent(t)
    PROVE  Base'
<1>0. TypeOK /\ RouteInv /\ WindowInv
  BY DEF Base
<1>1. /\ ready[t] = "closing" /\ ready' = [ready EXCEPT ![t] = "closed"] /\ wire' = wire
      /\ serving' = serving /\ state' = state /\ counts' = counts /\ truth' = truth
      /\ resets' = resets
  BY ClosedPage DEF hostVars
<1>2. /\ ready'[t] = "closed" /\ \A x \in Transports : x # t => ready'[x] = ready[x]
      /\ ready' \in [Transports -> {"connecting", "open", "closing", "closed"}]
      /\ None \notin Transports
  BY <1>0, <1>1, WireFields, PageFields
<1>3. MetricsType' /\ TransportType' /\ resets' \in 0..MaxResets
  BY <1>0, <1>1, <1>2 DEF TypeOK, MetricsType, TransportType
<1>4. ASSUME NEW x \in Transports
      PROVE  /\ ready'[x] = "connecting" => serving[x]
             /\ ~serving[x] => wire[x] = <<>>
             /\ ready'[x] \in {"connecting", "open"} /\ x # page.transport => wire[x] = <<>>
             /\ ready'[x] \in {"connecting", "open"} => \A i \in 1..Len(wire[x]) : wire[x][i] # End
             /\ ready'[x] \in {"closing", "closed"} /\ serving[x] =>
                   wire[x] # <<>> /\ wire[x][Len(wire[x])] = End
  <2>1. CASE x = t
    BY <1>0, <1>1, <1>2, <2>1 DEF RouteInv
  <2>2. CASE x # t
    BY <1>0, <1>2, <2>2 DEF RouteInv
  <2>3. QED BY <2>1, <2>2
<1>5. CASE /\ page.transport = t /\ clean' = FALSE
           /\ page' \in Page
           /\ page'.transport = None /\ page'.pending = <<>> /\ page'.contacts = {}
           /\ page'.batch = page.batch /\ page'.sample = page.sample
  <2>1. BrowserType'
    BY <1>5, ContinuityAssumption DEF BrowserType
  <2>2. \A x \in Transports : ready'[x] \in {"connecting", "open"} => x # t
    BY <1>2
  <2>3. RouteInv'
    BY <1>1, <1>4, <1>5, <2>2 DEF RouteInv
  <2>4. Ahead(truth'.expected, page.batch, page.sample)
    BY <1>0, <1>1 DEF WindowInv
  <2>5. WindowInv'
    BY <1>0, <1>1, <1>5, <2>4, WindowKept
  <2>6. QED BY <1>3, <1>5, <2>1, <2>3, <2>5 DEF Base, TypeOK
<1>6. CASE page.transport # t /\ UNCHANGED <<page, clean>>
  <2>1. BrowserType' /\ clean' \in BOOLEAN
    BY <1>0, <1>6 DEF TypeOK, BrowserType
  <2>2. page.transport # None => ready'[page.transport] \in {"open", "closing"}
    BY <1>0, <1>2, <1>6, PageFields DEF RouteInv
  <2>3. page.pending # <<>> => page.transport = None /\ \A x \in Transports : ready'[x] # "open"
    BY <1>0, <1>2 DEF RouteInv, IsOpen
  <2>4. RouteInv'
    BY <1>1, <1>4, <1>6, <2>2, <2>3 DEF RouteInv, IsOpen
  <2>5. WindowInv'
    BY <1>0, <1>1, <1>6 DEF WindowInv
  <2>6. QED BY <1>3, <2>1, <2>4, <2>5 DEF Base, TypeOK
<1>7. QED BY <1>5, <1>6, ClosedPage

\* What a reset leaves.
LEMMA ResetTypes ==
    ASSUME TypeOK, ResetInputContinuity
    PROVE  /\ MetricsType' /\ state'.active = {}
           /\ \A b, s : Ahead(truth'.expected, b, s)
           /\ CountsExact => CountsExact'
<1>1. MetricsType
  BY DEF TypeOK
<1> DEFINE none == [batch |-> None, sample |-> None]
<1>2. /\ state' = [expected |-> none, active |-> {}] /\ counts' = counts
      /\ truth' = [truth EXCEPT !.expected = none]
  BY DEF ResetInputContinuity
<1>3. \A N : none \in Expected(N)
  BY DEF Expected
<1>4. none.batch = None /\ none.sample = None /\ none["batch"] = None /\ none["sample"] = None
  OBVIOUS
<1> HIDE DEF none
<1>5. truth'.expected = none /\ truth'.batch = truth.batch /\ truth'.sample = truth.sample
  BY <1>1, <1>2 DEF MetricsType
<1>6. MetricsType'
  BY <1>1, <1>2, <1>3 DEF MetricsType
<1>7. state'.active = {} /\ state'.expected = none
  BY <1>2
<1>8. \A b, s : Ahead(truth'.expected, b, s)
  BY <1>4, <1>5 DEF Ahead
<1>9. CountsExact => CountsExact'
  BY <1>2, <1>4, <1>5, <1>7 DEF CountsExact
<1>10. QED BY <1>6, <1>7, <1>8, <1>9

\* The host ends a transport, or sees its end: nothing is left of it.
LEMMA EndsBase ==
    ASSUME Base, NEW t \in Transports, TransportEnds(t) \/ HostEnds(t)
    PROVE  Base'
<1>0. TypeOK /\ RouteInv /\ WindowInv
  BY DEF Base
<1>1. /\ wire' = [wire EXCEPT ![t] = <<>>] /\ serving' = [serving EXCEPT ![t] = FALSE]
      /\ clean' = FALSE /\ ResetInputContinuity /\ page' = page /\ ready' = ready
      /\ resets' = resets \/ (resets < MaxResets /\ resets' = resets + 1)
  BY DEF TransportEnds, HostEnds
<1>2. ready[t] # "connecting"
  <2>1. CASE HostEnds(t)
    BY <2>1 DEF HostEnds
  <2>2. CASE TransportEnds(t)
    <3>1. wire[t] # <<>> /\ Head(wire[t]) = End /\ wire[t] \in Seq(Packet)
      BY <1>0, <2>2, WireFields DEF TransportEnds
    <3>2. 1 \in 1..Len(wire[t]) /\ wire[t][1] = End
      BY <3>1
    <3>3. QED BY <1>0, <3>2 DEF RouteInv
  <2>3. QED BY <2>1, <2>2
<1>3. /\ wire' \in [Transports -> Seq(Packet)] /\ wire'[t] = <<>>
      /\ \A x \in Transports : x # t => wire'[x] = wire[x] /\ serving'[x] = serving[x]
      /\ serving' \in [Transports -> BOOLEAN] /\ serving'[t] = FALSE
  BY <1>0, <1>1, WireFields
<1>4. \A x \in Transports : wire'[x] = wire[x] \/ Len(wire'[x]) = 0
  BY <1>3
<1>5. TransportType'
  BY <1>0, <1>1, <1>3, <1>4 DEF TypeOK, TransportType
<1>6. BrowserType' /\ MetricsType' /\ clean' \in BOOLEAN
  BY <1>0, <1>1, ResetTypes DEF TypeOK, BrowserType
<1>7. resets' \in 0..MaxResets
  BY <1>0, <1>1, ContinuityAssumption DEF TypeOK
<1>8. RouteInv'
  <2>1. ASSUME NEW x \in Transports
        PROVE  /\ ready[x] = "connecting" => serving'[x]
               /\ ~serving'[x] => wire'[x] = <<>>
               /\ ready[x] \in {"connecting", "open"} /\ x # page.transport => wire'[x] = <<>>
               /\ ready[x] \in {"connecting", "open"} => \A i \in 1..Len(wire'[x]) : wire'[x][i] # End
               /\ ready[x] \in {"closing", "closed"} /\ serving'[x] =>
                     wire'[x] # <<>> /\ wire'[x][Len(wire'[x])] = End
    <3>1. CASE x = t
      BY <1>2, <1>3, <3>1
    <3>2. CASE x # t
      BY <1>0, <1>3, <3>2 DEF RouteInv
    <3>3. QED BY <3>1, <3>2
  <2>2. QED BY <1>0, <1>1, <2>1 DEF RouteInv, IsOpen
<1>9. WindowInv'
  <2>1. Ahead(truth'.expected, page.batch, page.sample)
    BY <1>0, <1>1, ResetTypes
  <2>2. \A x \in Transports : \A i \in 1..Len(wire'[x]) :
           \E j \in 1..Len(wire[x]) : wire'[x][i] = wire[x][j]
    BY <1>3, <1>4
  <2>3. QED BY <1>0, <1>1, <2>1, <2>2, WindowKept
<1>10. QED BY <1>5, <1>6, <1>7, <1>8, <1>9 DEF Base, TypeOK

\* The host resets the continuity.
LEMMA ResetsBase ==
    ASSUME Base, HostResets
    PROVE  Base'
<1>0. TypeOK /\ RouteInv /\ WindowInv
  BY DEF Base
<1>1. /\ clean' = FALSE /\ ResetInputContinuity /\ UNCHANGED <<page, ready, wire, serving>>
      /\ resets < MaxResets /\ resets' = resets + 1
  BY DEF HostResets
<1>2. BrowserType' /\ TransportType' /\ MetricsType' /\ clean' \in BOOLEAN
  BY <1>0, <1>1, ResetTypes DEF TypeOK, BrowserType, TransportType
<1>3. resets' \in 0..MaxResets
  BY <1>0, <1>1, ContinuityAssumption DEF TypeOK
<1>4. RouteInv'
  BY <1>0, <1>1 DEF RouteInv, IsOpen
<1>5. WindowInv'
  <2>1. Ahead(truth'.expected, page.batch, page.sample)
    BY <1>0, <1>1, ResetTypes
  <2>2. QED BY <1>0, <1>1, <2>1 DEF WindowInv
<1>6. QED BY <1>2, <1>3, <1>4, <1>5 DEF Base, TypeOK

-----------------------------------------------------------------------------
(* A batch arrives                                                          *)

\* What the host expects is less than half of W from what arrives, both for batches
\* and for samples.
LEMMA Near ==
    ASSUME TypeOK, NEW pk, Shape(pk), Within(pk, page.batch, page.sample),
           Ahead(truth.expected, page.batch, page.sample), truth.expected.sample # None
    PROVE  LET e == truth.expected IN
           /\ e.batch \in Nat /\ e.sample \in Nat
           /\ First(pk) - e.sample < Half /\ e.sample - First(pk) < Half
           /\ pk.batch - e.batch < Half /\ e.batch - pk.batch < Half
<1>1. /\ truth.expected.batch \in Nat /\ truth.expected.sample \in Nat
  BY ContinuityAssumption DEF TypeOK, MetricsType, Expected, Ahead
<1>2. \A eb, es, f, n, k, b, s, h \in Nat :
         /\ n > 0 /\ k < b /\ f + n <= s /\ s - f < h /\ b - (k + 1) <= s - (f + n)
         /\ eb <= b /\ es <= s /\ s - es < h /\ b - eb <= s - es
         => f - es < h /\ es - f < h /\ k - eb < h /\ eb - k < h
  OBVIOUS
<1>3. /\ First(pk) \in Nat /\ Len(pk.samples) \in Nat /\ Len(pk.samples) > 0 /\ pk.batch \in Nat
      /\ page.batch \in Nat /\ page.sample \in Nat /\ Half \in Nat
  BY ShapeType, PageFields, Widths
<1>4. /\ pk.batch < page.batch /\ First(pk) + Len(pk.samples) <= page.sample
      /\ page.sample - First(pk) < Half
      /\ page.batch - (pk.batch + 1) <= page.sample - (First(pk) + Len(pk.samples))
  BY DEF Within, After
<1>5. /\ truth.expected.batch <= page.batch /\ truth.expected.sample <= page.sample
      /\ page.sample - truth.expected.sample < Half
      /\ page.batch - truth.expected.batch <= page.sample - truth.expected.sample
  BY DEF Ahead
<1>6. QED BY <1>1, <1>2, <1>3, <1>4, <1>5

\* input_batch, for a batch within the window.
LEMMA BatchObserved ==
    ASSUME TypeOK, CountsExact, NEW pk, Shape(pk), Within(pk, page.batch, page.sample),
           Ahead(truth.expected, page.batch, page.sample), InputBatch(pk)
    PROVE  /\ MetricsType' /\ CountsExact'
           /\ truth'.expected.batch = Due(truth.expected.batch, pk.batch, 1)
           /\ truth'.expected.sample = Due(truth.expected.sample, First(pk), Len(pk.samples))
           /\ state'.active = IF Begins(pk) THEN state.active \cup {Owner(pk)}
                              ELSE IF Finishes(pk) THEN state.active \ {Owner(pk)}
                              ELSE state.active
           /\ \A b : Carries(state.active, pk, b) =>
                        state'.active = b /\ counts'.lifecycle = counts.lifecycle
           /\ truth.expected.batch = None \/ truth.expected.batch = pk.batch =>
                 counts'.batch = counts.batch
           /\ truth.expected.sample = None \/ truth.expected.sample <= First(pk) =>
                 counts'.sample.late = counts.sample.late
<1> DEFINE seen == ObserveSequence(state.expected.batch, pk.batch % W)
           true == Reference(truth.expected.batch, pk.batch)
           h == [next |-> state.expected.sample, count |-> counts.sample,
                 active |-> state.active, errors |-> counts.lifecycle,
                 due |-> truth.expected.sample, true |-> truth.sample]
           end == ObserveSamples(h, pk.samples)
           e == truth.expected
<1>0. /\ state' = [expected |-> [batch |-> seen.next, sample |-> end.next], active |-> end.active]
      /\ counts' = [batch |-> Count(counts.batch, seen), sample |-> end.count,
                    lifecycle |-> end.errors]
      /\ truth' = [expected |-> [batch |-> true.next, sample |-> end.due],
                   batch |-> Count(truth.batch, true), sample |-> end.true]
  BY DEF InputBatch
<1>1. /\ state.expected.batch \in (0..W-1) \cup {None}
      /\ state.expected.sample \in (0..W-1) \cup {None} /\ state.active \in SUBSET Pointers
      /\ counts.batch \in Counter /\ counts.sample \in Counter /\ counts.lifecycle \in Nat
      /\ e.batch \in Nat \cup {None} /\ e.sample \in Nat \cup {None}
      /\ truth.batch \in Counter /\ truth.sample \in Counter
  BY DEF TypeOK, MetricsType, Expected
<1>2. /\ counts.batch = truth.batch /\ counts.sample = truth.sample
      /\ state.expected.batch = Wrapped(e.batch) /\ state.expected.sample = Wrapped(e.sample)
  BY DEF CountsExact, Wrapped
<1>3. /\ pk.samples \in Seq(Sample) /\ pk.batch \in Nat /\ First(pk) \in Nat
      /\ Len(pk.samples) \in Nat \ {0} /\ pk.batch % W \in 0..W-1 /\ None \notin Nat
  <2>1. /\ pk.samples \in Seq(Sample) /\ pk.batch \in Nat /\ First(pk) \in Nat
        /\ Len(pk.samples) \in Nat \ {0}
    BY ShapeType
  <2>2. pk.batch \in Int
    BY <2>1
  <2>3. pk.batch % W \in 0..W-1
    BY <2>2, Remainder
  <2>4. QED BY <2>1, <2>3, ContinuityAssumption
<1>4. e.batch = None <=> e.sample = None
  BY DEF Ahead
<1>5. h \in Track
  BY <1>1 DEF Track
<1>6. end \in Track
  <2>1. PICK f \in [0..Len(pk.samples) -> Track] : end = f[Len(pk.samples)]
    BY <1>3, <1>5, Tracks
  <2> HIDE DEF end
  <2>2. QED BY <1>3, <2>1
<1>7. /\ seen \in Seen(0..W-1) /\ true \in Seen(Nat)
  BY <1>1, <1>3, ObserveType, ReferenceType
<1>8. seen.next = Wrapped(true.next) /\ seen.gaps = true.gaps /\ seen.late = true.late
  <2>1. e.batch # None => pk.batch - e.batch < Half /\ e.batch - pk.batch < Half
    BY <1>4, Near
  <2>2. PICK eb : eb = e.batch
    OBVIOUS
  <2>3. seen = ObserveSequence(Wrapped(eb), pk.batch % W) /\ true = Reference(eb, pk.batch)
    BY <1>2, <2>2
  <2>4. /\ eb \in Nat \cup {None} /\ pk.batch \in Nat
        /\ eb # None => pk.batch - eb < Half /\ eb - pk.batch < Half
    BY <1>1, <1>3, <2>1, <2>2
  <2> HIDE DEF seen, true
  <2>5. QED BY <2>3, <2>4, ObserveExact
<1>9. /\ end.count = end.true /\ end.next = Wrapped(end.due)
      /\ end.due = Due(e.sample, First(pk), Len(pk.samples))
      /\ e.sample = None \/ e.sample <= First(pk) => end.true.late = truth.sample.late
  <2>1. h.due # None => First(pk) - h.due < Half /\ h.due - First(pk) < Half
    BY Near
  <2>2. h.count = h.true /\ h.next = Wrapped(h.due)
    BY <1>2
  <2>3. QED BY <1>5, <2>1, <2>2, BatchCounted
<1>10. true.next = Due(e.batch, pk.batch, 1)
  BY <1>1, <1>3 DEF Reference, Due
<1>11. e.batch = None \/ e.batch = pk.batch => true.gaps = 0 /\ true.late = 0
  BY <1>1, <1>3 DEF Reference
<1>12. /\ end.active = IF Begins(pk) THEN state.active \cup {Owner(pk)}
                       ELSE IF Finishes(pk) THEN state.active \ {Owner(pk)}
                       ELSE state.active
       /\ \A b : Carries(state.active, pk, b) => end.active = b /\ end.errors = counts.lifecycle
  <2>1. h.active = state.active /\ h.errors = counts.lifecycle
    OBVIOUS
  <2> HIDE DEF h
  <2>2. /\ end.active = IF Begins(pk) THEN h.active \cup {Owner(pk)}
                        ELSE IF Finishes(pk) THEN h.active \ {Owner(pk)} ELSE h.active
        /\ \A b : Carries(h.active, pk, b) => end.active = b /\ end.errors = h.errors
    BY <1>5, BatchLifecycle
  <2> HIDE DEF end
  <2>3. QED BY <2>1, <2>2
<1> HIDE DEF seen, true, h, end
<1>13. Count(counts.batch, seen) = Count(truth.batch, true)
  BY <1>2, <1>8 DEF Count
<1>14. /\ state'.active = end.active /\ state'.expected.batch = seen.next
       /\ state'.expected.sample = end.next
       /\ counts'.batch = Count(counts.batch, seen) /\ counts'.sample = end.count
       /\ counts'.lifecycle = end.errors
       /\ truth'.expected.batch = true.next /\ truth'.expected.sample = end.due
       /\ truth'.batch = Count(truth.batch, true) /\ truth'.sample = end.true
  BY <1>0
<1>15. MetricsType'
  <2>1. /\ Count(counts.batch, seen) \in Counter /\ Count(truth.batch, true) \in Counter
        /\ seen.next \in 0..W-1 /\ true.next \in Nat
    BY <1>1, <1>7 DEF Seen, Counter, Count
  <2>2. /\ end.next \in (0..W-1) \cup {None} /\ end.count \in Counter
        /\ end.active \in SUBSET Pointers /\ end.errors \in Nat
        /\ end.due \in Nat \cup {None} /\ end.true \in Counter
    BY <1>6 DEF Track
  <2>3. /\ [batch |-> seen.next, sample |-> end.next] \in Expected(0..W-1)
        /\ [batch |-> true.next, sample |-> end.due] \in Expected(Nat)
    BY <2>1, <2>2 DEF Expected
  <2>4. QED BY <1>0, <2>1, <2>2, <2>3 DEF MetricsType
<1>16. CountsExact'
  <2>1. \A k \in {"batch", "sample"} : state'.expected[k] = Wrapped(truth'.expected[k])
    BY <1>8, <1>9, <1>14
  <2>2. QED BY <1>9, <1>13, <1>14, <2>1 DEF CountsExact, Wrapped
<1>17. e.batch = None \/ e.batch = pk.batch => counts'.batch = counts.batch
  <2>1. e.batch = None \/ e.batch = pk.batch => Count(counts.batch, seen) = counts.batch
    BY <1>1, <1>8, <1>11 DEF Count, Counter
  <2>2. QED BY <1>14, <2>1
<1>18. e.sample = None \/ e.sample <= First(pk) => counts'.sample.late = counts.sample.late
  BY <1>2, <1>9, <1>14
<1>19. QED BY <1>9, <1>10, <1>12, <1>14, <1>15, <1>16, <1>17, <1>18

\* The host does not fall behind what it has seen.
LEMMA StillAhead ==
    ASSUME TypeOK, NEW pk, Shape(pk), Within(pk, page.batch, page.sample),
           Ahead(truth.expected, page.batch, page.sample), NEW e,
           e.batch = Due(truth.expected.batch, pk.batch, 1),
           e.sample = Due(truth.expected.sample, First(pk), Len(pk.samples))
    PROVE  Ahead(e, page.batch, page.sample)
<1>1. /\ First(pk) \in Nat /\ Len(pk.samples) \in Nat /\ Len(pk.samples) > 0 /\ pk.batch \in Nat
      /\ page.batch \in Nat /\ page.sample \in Nat /\ Half \in Nat /\ None \notin Nat
  <2>1. /\ First(pk) \in Nat /\ Len(pk.samples) \in Nat \ {0} /\ pk.batch \in Nat
    BY ShapeType
  <2>2. page.batch \in Nat /\ page.sample \in Nat
    BY PageFields
  <2>3. Half \in Nat /\ None \notin Nat
    BY Widths, ContinuityAssumption
  <2>4. QED BY <2>1, <2>2, <2>3
<1>2. /\ pk.batch < page.batch /\ First(pk) + Len(pk.samples) <= page.sample
      /\ page.sample - First(pk) < Half
      /\ page.batch - (pk.batch + 1) <= page.sample - (First(pk) + Len(pk.samples))
  BY DEF Within, After
<1>3. /\ truth.expected.batch \in Nat \cup {None} /\ truth.expected.sample \in Nat \cup {None}
      /\ truth.expected.batch = None <=> truth.expected.sample = None
  BY DEF TypeOK, MetricsType, Expected, Ahead
<1>4. CASE truth.expected.sample = None
  <2>1. e.batch = pk.batch + 1 /\ e.sample = First(pk) + Len(pk.samples)
    BY <1>3, <1>4 DEF Due
  <2>2. /\ e.batch \in Nat /\ e.sample \in Nat /\ e.batch <= page.batch /\ e.sample <= page.sample
        /\ page.sample - e.sample < Half /\ page.batch - e.batch <= page.sample - e.sample
    <3> DEFINE f == First(pk)  n == Len(pk.samples)  k == pk.batch
               b == page.batch  s == page.sample  g == Half
    <3>1. /\ f \in Nat /\ n \in Nat /\ k \in Nat /\ b \in Nat /\ s \in Nat /\ g \in Nat
          /\ k < b /\ f + n <= s /\ s - f < g /\ b - (k + 1) <= s - (f + n)
          /\ e.batch = k + 1 /\ e.sample = f + n
      BY <1>1, <1>2, <2>1
    <3> HIDE DEF f, n, k, b, s, g
    <3>2. /\ e.batch \in Nat /\ e.sample \in Nat /\ e.batch <= b /\ e.sample <= s
          /\ s - e.sample < g /\ b - e.batch <= s - e.sample
      BY <3>1
    <3>3. QED BY <3>2 DEF b, s, g
  <2>3. QED BY <1>1, <2>2 DEF Ahead
<1>5. CASE truth.expected.sample # None
  <2> DEFINE eb == truth.expected.batch  es == truth.expected.sample
  <2>1. /\ eb \in Nat /\ es \in Nat /\ eb <= page.batch /\ es <= page.sample
        /\ page.sample - es < Half /\ page.batch - eb <= page.sample - es
    BY <1>3, <1>5 DEF Ahead
  <2>2. /\ e.batch = IF eb < pk.batch + 1 THEN pk.batch + 1 ELSE eb
        /\ e.sample = IF es < First(pk) + Len(pk.samples) THEN First(pk) + Len(pk.samples) ELSE es
    BY <1>1, <2>1 DEF Due
  <2> HIDE DEF eb, es
  <2>3. \A x, y, f, n, k, b, s, g \in Nat :
           /\ k < b /\ f + n <= s /\ s - f < g /\ b - (k + 1) <= s - (f + n)
           /\ x <= b /\ y <= s /\ s - y < g /\ b - x <= s - y
           => LET m == IF x < k + 1 THEN k + 1 ELSE x
                  l == IF y < f + n THEN f + n ELSE y
              IN  m \in Nat /\ l \in Nat /\ m <= b /\ l <= s /\ s - l < g /\ b - m <= s - l
    OBVIOUS
  <2>4. /\ e.batch \in Nat /\ e.sample \in Nat /\ e.batch <= page.batch /\ e.sample <= page.sample
        /\ page.sample - e.sample < Half /\ page.batch - e.batch <= page.sample - e.sample
    <3> DEFINE f == First(pk)  n == Len(pk.samples)  k == pk.batch
               b == page.batch  s == page.sample  g == Half
    <3>1. /\ eb \in Nat /\ es \in Nat /\ f \in Nat /\ n \in Nat /\ k \in Nat /\ b \in Nat
          /\ s \in Nat /\ g \in Nat
      BY <1>1, <2>1
    <3>2. /\ k < b /\ f + n <= s /\ s - f < g /\ b - (k + 1) <= s - (f + n)
          /\ eb <= b /\ es <= s /\ s - es < g /\ b - eb <= s - es
      BY <1>2, <2>1
    <3>3. /\ e.batch = IF eb < k + 1 THEN k + 1 ELSE eb
          /\ e.sample = IF es < f + n THEN f + n ELSE es
      BY <2>2
    <3> HIDE DEF f, n, k, b, s, g
    <3>4. /\ e.batch \in Nat /\ e.sample \in Nat /\ e.batch <= b /\ e.sample <= s
          /\ s - e.sample < g /\ b - e.batch <= s - e.sample
      BY <2>3, <3>1, <3>2, <3>3
    <3>5. QED BY <3>4 DEF b, s, g
  <2>5. QED BY <1>1, <2>4 DEF Ahead
<1>6. QED BY <1>4, <1>5

\* A transport whose next packet arrives.
LEMMA Received ==
    ASSUME Base, NEW t \in Transports, Receive(t)
    PROVE  LET pk == Head(wire[t]) IN
           /\ serving[t] /\ wire[t] \in Seq(Packet) /\ Len(wire[t]) \in Nat \ {0}
           /\ wire[t][1] = pk /\ pk # End
           /\ Shape(pk) /\ Within(pk, page.batch, page.sample) /\ InputBatch(pk)
           /\ UNCHANGED <<page, ready, serving, clean, resets>>
           /\ wire' \in [Transports -> Seq(Packet)] /\ wire'[t] = Tail(wire[t])
           /\ \A x \in Transports : x # t => wire'[x] = wire[x]
           /\ Len(wire'[t]) = Len(wire[t]) - 1
           /\ \A i \in 1..Len(wire'[t]) : i + 1 \in 1..Len(wire[t]) /\ wire'[t][i] = wire[t][i+1]
<1>0. TypeOK /\ WindowInv
  BY DEF Base
<1>1. /\ serving[t] /\ wire[t] # <<>> /\ Head(wire[t]) # End /\ InputBatch(Head(wire[t]))
      /\ wire' = [wire EXCEPT ![t] = Tail(@)]
      /\ UNCHANGED <<page, ready, serving, clean, resets>>
  BY DEF Receive
<1>2. wire[t] \in Seq(Packet) /\ wire \in [Transports -> Seq(Packet)]
  BY <1>0, WireFields
<1>3. Len(wire[t]) \in Nat \ {0} /\ wire[t][1] = Head(wire[t])
  BY <1>1, <1>2
<1>4. Shape(wire[t][1]) /\ Within(wire[t][1], page.batch, page.sample)
  BY <1>0, <1>1, <1>3 DEF WindowInv
<1>5. /\ Tail(wire[t]) \in Seq(Packet) /\ Len(Tail(wire[t])) = Len(wire[t]) - 1
      /\ \A i \in 1..Len(Tail(wire[t])) : i + 1 \in 1..Len(wire[t]) /\ Tail(wire[t])[i] = wire[t][i+1]
  BY <1>1, <1>2, <1>3
<1>6. /\ wire' \in [Transports -> Seq(Packet)] /\ wire'[t] = Tail(wire[t])
      /\ \A x \in Transports : x # t => wire'[x] = wire[x]
  BY <1>1, <1>2, <1>5
<1>7. QED BY <1>1, <1>2, <1>3, <1>4, <1>5, <1>6

\* process_input_packet.
LEMMA ReceiveBase ==
    ASSUME Base, CountsExact, NEW t \in Transports, Receive(t)
    PROVE  Base' /\ CountsExact'
<1>0. TypeOK /\ RouteInv /\ WindowInv
  BY DEF Base
<1> DEFINE pk == Head(wire[t])
<1>1. /\ serving[t] /\ wire[t] \in Seq(Packet) /\ Len(wire[t]) \in Nat \ {0}
      /\ wire[t][1] = pk /\ pk # End
      /\ Shape(pk) /\ Within(pk, page.batch, page.sample) /\ InputBatch(pk)
      /\ UNCHANGED <<page, ready, serving, clean, resets>>
      /\ wire' \in [Transports -> Seq(Packet)]
      /\ \A x \in Transports : x # t => wire'[x] = wire[x]
      /\ Len(wire'[t]) = Len(wire[t]) - 1
      /\ \A i \in 1..Len(wire'[t]) : i + 1 \in 1..Len(wire[t]) /\ wire'[t][i] = wire[t][i+1]
  BY Received
<1> HIDE DEF pk
<1>2. Ahead(truth.expected, page.batch, page.sample)
  BY <1>0 DEF WindowInv
<1>3. /\ MetricsType' /\ CountsExact'
      /\ truth'.expected.batch = Due(truth.expected.batch, pk.batch, 1)
      /\ truth'.expected.sample = Due(truth.expected.sample, First(pk), Len(pk.samples))
  BY <1>0, <1>1, <1>2, BatchObserved
<1>4. Ahead(truth'.expected, page.batch, page.sample)
  BY <1>0, <1>1, <1>2, <1>3, StillAhead
<1>5. TypeOK'
  <2>1. ASSUME NEW x \in Transports, NEW i \in 1..Len(wire'[x]), wire'[x][i] = End
        PROVE  i = Len(wire'[x])
    <3>1. CASE x = t
      <4>1. i + 1 \in 1..Len(wire[t]) /\ wire[t][i+1] = End
        BY <1>1, <2>1, <3>1
      <4>2. i + 1 = Len(wire[t])
        BY <1>0, <4>1, WireFields
      <4>3. QED BY <1>1, <3>1, <4>2
    <3>2. CASE x # t
      BY <1>0, <1>1, <2>1, <3>2, WireFields
    <3>3. QED BY <3>1, <3>2
  <2>2. TransportType'
    BY <1>0, <1>1, <2>1, WireFields DEF TransportType
  <2>3. BrowserType' /\ clean' \in BOOLEAN /\ resets' \in 0..MaxResets
    BY <1>0, <1>1 DEF TypeOK, BrowserType
  <2>4. QED BY <1>3, <2>2, <2>3 DEF TypeOK
<1>6. RouteInv'
  <2>1. ASSUME NEW x \in Transports
        PROVE  /\ ready[x] = "connecting" => serving[x]
               /\ ~serving[x] => wire'[x] = <<>>
               /\ ready[x] \in {"connecting", "open"} /\ x # page.transport => wire'[x] = <<>>
               /\ ready[x] \in {"connecting", "open"} => \A i \in 1..Len(wire'[x]) : wire'[x][i] # End
               /\ ready[x] \in {"closing", "closed"} /\ serving[x] =>
                     wire'[x] # <<>> /\ wire'[x][Len(wire'[x])] = End
    <3>1. CASE x = t
      <4>1. ready[t] \in {"connecting", "open"} => t = page.transport
        BY <1>0, <1>1 DEF RouteInv
      <4>2. ready[t] \in {"connecting", "open"} => \A i \in 1..Len(wire'[t]) : wire'[t][i] # End
        BY <1>0, <1>1 DEF RouteInv
      <4>3. ASSUME ready[t] \in {"closing", "closed"}
            PROVE  wire'[t] # <<>> /\ wire'[t][Len(wire'[t])] = End
        <5>1. wire[t][Len(wire[t])] = End
          BY <1>0, <1>1, <4>3 DEF RouteInv
        <5>2. Len(wire[t]) # 1
          BY <1>1, <5>1
        <5>3. Len(wire'[t]) \in 1..Len(wire'[t]) /\ Len(wire'[t]) + 1 = Len(wire[t])
          <6> DEFINE m == Len(wire[t])  n == Len(wire'[t])
          <6>1. m \in Nat /\ m # 0 /\ m # 1 /\ n = m - 1
            BY <1>1, <5>2
          <6> HIDE DEF m, n
          <6>2. n \in 1..n /\ n + 1 = m
            BY <6>1
          <6>3. QED BY <6>2 DEF m, n
        <5>4. wire'[t][Len(wire'[t])] = wire[t][Len(wire'[t]) + 1]
          BY <1>1, <5>3
        <5>5. wire'[t][Len(wire'[t])] = End
          BY <5>1, <5>3, <5>4
        <5>6. QED BY <5>3, <5>5
      <4>4. QED BY <1>0, <1>1, <3>1, <4>1, <4>2, <4>3 DEF RouteInv
    <3>2. CASE x # t
      BY <1>0, <1>1, <3>2 DEF RouteInv
    <3>3. QED BY <3>1, <3>2
  <2>2. QED BY <1>0, <1>1, <2>1 DEF RouteInv, IsOpen
<1>7. WindowInv'
  <2>1. ASSUME NEW x \in Transports, NEW i \in 1..Len(wire'[x])
        PROVE  \E j \in 1..Len(wire[x]) : wire'[x][i] = wire[x][j]
    <3>1. CASE x = t
      <4>1. wire'[t][i] = wire[t][i + 1]
        BY <1>1, <3>1
      <4>2. i + 1 \in 1..Len(wire[t])
        <5> DEFINE m == Len(wire[t])  n == Len(wire'[t])
        <5>1. m \in Nat /\ m # 0 /\ n = m - 1 /\ i \in 1..n
          BY <1>1, <3>1
        <5> HIDE DEF m, n
        <5>2. i + 1 \in 1..m
          BY <5>1
        <5>3. QED BY <5>2 DEF m
      <4>3. QED BY <3>1, <4>1, <4>2
    <3>2. CASE x # t
      BY <1>1, <3>2
    <3>3. QED BY <3>1, <3>2
  <2>2. QED BY <1>0, <1>1, <1>4, <2>1, WindowKept
<1>8. QED BY <1>3, <1>5, <1>6, <1>7 DEF Base

-----------------------------------------------------------------------------
(* Types and counts                                                         *)

\* The steps in groups: a batch is sent, an end is swallowed, a transport opens,
\* breaks or closes, a packet arrives, or the host ends a transport or resets.
LEMMA Steps ==
    ASSUME Base, [Next]_vars
    PROVE  \/ \E pk, C : Sends(pk, C)
           \/ \E q \in Pointers : InterruptedUp(q) \/ StrayUp(q)
           \/ \E t \in Transports : Opened(t) \/ Breaks(t) \/ CloseEvent(t) \/ Receive(t)
           \/ \E t \in Transports : TransportEnds(t) \/ HostEnds(t)
           \/ HostResets \/ UNCHANGED vars
  BY Sending DEF Base, Next

\* Every other step leaves what the host counts alone, or resets what it expects.
LEMMA CountsKept ==
    ASSUME TypeOK, CountsExact, UNCHANGED hostVars \/ ResetInputContinuity
    PROVE  CountsExact'
<1>1. CASE UNCHANGED hostVars
  BY <1>1 DEF hostVars, CountsExact
<1>2. CASE ResetInputContinuity
  BY <1>2, ResetTypes
<1>3. QED BY <1>1, <1>2

\* The inductive step.
LEMMA BaseStep ==
    ASSUME Base, CountsExact, [Next]_vars
    PROVE  Base' /\ CountsExact'
<1>0. TypeOK
  BY DEF Base
<1>1. ASSUME NEW pk, NEW C, Sends(pk, C) PROVE Base' /\ CountsExact'
  <2>1. UNCHANGED hostVars
    BY <1>1 DEF Sends, hostVars
  <2>2. QED BY <1>0, <1>1, <2>1, SendsBase, CountsKept
<1>2. ASSUME NEW q \in Pointers, InterruptedUp(q) \/ StrayUp(q) PROVE Base' /\ CountsExact'
  <2>1. UNCHANGED hostVars
    BY <1>2 DEF InterruptedUp, StrayUp, hostVars
  <2>2. QED BY <1>0, <1>2, <2>1, StraysBase, CountsKept
<1>3. ASSUME NEW t \in Transports, Opened(t) \/ Breaks(t) \/ CloseEvent(t)
      PROVE  Base' /\ CountsExact'
  <2>1. UNCHANGED hostVars
    BY <1>3 DEF Opened, Breaks, CloseEvent, hostVars
  <2>2. QED BY <1>0, <1>3, <2>1, OpenedBase, BreaksBase, CloseBase, CountsKept
<1>4. ASSUME NEW t \in Transports, Receive(t) PROVE Base' /\ CountsExact'
  BY <1>4, ReceiveBase
<1>5. ASSUME NEW t \in Transports, TransportEnds(t) \/ HostEnds(t) PROVE Base' /\ CountsExact'
  <2>1. ResetInputContinuity
    BY <1>5 DEF TransportEnds, HostEnds
  <2>2. QED BY <1>0, <1>5, <2>1, EndsBase, CountsKept
<1>6. ASSUME HostResets PROVE Base' /\ CountsExact'
  <2>1. ResetInputContinuity
    BY <1>6 DEF HostResets
  <2>2. QED BY <1>0, <1>6, <2>1, ResetsBase, CountsKept
<1>7. ASSUME UNCHANGED vars PROVE Base' /\ CountsExact'
  <2>1. /\ page' = page /\ ready' = ready /\ wire' = wire /\ serving' = serving /\ state' = state
        /\ counts' = counts /\ truth' = truth /\ clean' = clean /\ resets' = resets
    BY <1>7 DEF vars
  <2>2. TypeOK'
    BY <1>0, <2>1 DEF TypeOK, BrowserType, TransportType, MetricsType
  <2>3. RouteInv' /\ WindowInv'
    BY <2>1 DEF Base, RouteInv, IsOpen, WindowInv
  <2>4. QED BY <2>1, <2>2, <2>3 DEF Base, CountsExact
<1>8. QED BY <1>1, <1>2, <1>3, <1>4, <1>5, <1>6, <1>7, Steps

\* The initial states.
LEMMA BaseInit ==
    ASSUME Init
    PROVE  Base /\ CountsExact
<1>1. /\ page = [transport |-> None, pending |-> <<>>, contacts |-> {}, interrupted |-> {},
                 batch |-> 0, sample |-> 0]
      /\ ready = [t \in Transports |-> "connecting"]
      /\ wire = [t \in Transports |-> <<>>] /\ serving = [t \in Transports |-> TRUE]
      /\ clean = TRUE /\ resets = 0
  BY DEF Init
<1>2. \A t \in Transports : wire[t] = <<>> /\ Len(wire[t]) = 0 /\ serving[t]
                            /\ ready[t] = "connecting"
  BY <1>1
<1>3. BrowserType
  <2>1. page \in Page
    BY <1>1, ContinuityAssumption DEF Page
  <2>2. QED BY <1>1, <2>1, ContinuityAssumption DEF BrowserType
<1>4. TransportType
  BY <1>1, <1>2 DEF TransportType
<1>5. MetricsType /\ CountsExact /\ Ahead(truth.expected, page.batch, page.sample)
  <2> DEFINE none == [batch |-> None, sample |-> None]  zero == [gaps |-> 0, late |-> 0]
  <2>1. /\ state = [expected |-> none, active |-> {}]
        /\ counts = [batch |-> zero, sample |-> zero, lifecycle |-> 0]
        /\ truth = [expected |-> none, batch |-> zero, sample |-> zero]
    BY DEF Init
  <2>2. (\A N : none \in Expected(N)) /\ zero \in Counter
    BY DEF Expected, Counter
  <2>3. none.batch = None /\ none.sample = None /\ none["batch"] = None /\ none["sample"] = None
    OBVIOUS
  <2> HIDE DEF none, zero
  <2>4. MetricsType
    BY <2>1, <2>2 DEF MetricsType
  <2>5. CountsExact
    BY <2>1, <2>3 DEF CountsExact
  <2>6. Ahead(truth.expected, page.batch, page.sample)
    BY <2>1, <2>3 DEF Ahead
  <2>7. QED BY <2>4, <2>5, <2>6
<1>6. RouteInv
  BY <1>1, <1>2 DEF RouteInv, IsOpen
<1>7. WindowInv
  BY <1>1, <1>2, <1>5 DEF WindowInv
<1>8. TypeOK
  BY <1>1, <1>3, <1>4, <1>5, ContinuityAssumption DEF TypeOK
<1>9. QED BY <1>5, <1>6, <1>7, <1>8 DEF Base

\* Types, routes, the window and the counts are invariant.
LEMMA BaseInvariant == Spec => [](Base /\ CountsExact)
<1>1. Init => Base /\ CountsExact
  BY BaseInit
<1>2. Base /\ CountsExact /\ [Next]_vars => (Base /\ CountsExact)'
  BY BaseStep
<1>3. QED BY <1>1, <1>2, PTL DEF Spec

\* Types: the transport in use, the numbers and packets under way and the continuity state of
\* the host, for batches of any length, any number of packets kept and any width of the
\* sequence numbers; the end of a transport is the last thing on its way.
THEOREM TypeCorrect == Spec => []TypeOK
<1>1. Base => TypeOK
  BY DEF Base
<1>2. QED BY <1>1, BaseInvariant, PTL

\* Counting with numbers that wrap is counting: observe_sequence sees exactly the gaps and
\* late arrivals of the numbers that do not wrap, for every even width, as long as less than
\* half of the numbers is under way.
THEOREM CountsStayExact == Spec => []CountsExact
  BY BaseInvariant, PTL

-----------------------------------------------------------------------------
(* No pointer sticks                                                        *)

\* A batch begins, ends or hovers, at most one of them.
LEMMA OneKind ==
    ASSUME NEW pk, Shape(pk)
    PROVE  ~(Begins(pk) /\ Finishes(pk)) /\ ~(Begins(pk) /\ Hovers(pk))
           /\ ~(Finishes(pk) /\ Hovers(pk))
<1>1. Len(pk.samples) \in Nat \ {0}
  BY ShapeType
<1>2. QED BY <1>1 DEF Shape, Begins, Finishes, Hovers

\* A batch the page sends settles what it changes of the contacts.
LEMMA AppendSettles ==
    ASSUME NEW s \in Seq(Packet), NEW pk \in Packet, Shape(pk), NEW c, NEW d,
           Carries(c, pk, d), NEW active
    PROVE  /\ Settles(s, c) => Settles(Append(s, pk), d)
           /\ Ending(s, active \ c) => Ending(Append(s, pk), active \ d)
<1> DEFINE n == Len(s)  r == Append(s, pk)
<1>1. /\ n \in Nat /\ Len(r) = n + 1 /\ r[n + 1] = pk /\ \A i \in 1..n : r[i] = s[i]
  OBVIOUS
<1>2. \A q : q \in c /\ q \notin d => Finishes(pk) /\ Owner(pk) = q
  BY DEF Carries
<1>3. Begins(pk) => Owner(pk) \in d
  BY OneKind DEF Carries
<1> HIDE DEF n, r
<1>4. ASSUME Settles(s, c), NEW i \in 1..Len(r), Begins(r[i]), Owner(r[i]) \notin d
      PROVE  \E j \in i+1..Len(r) : Finishes(r[j]) /\ Owner(r[j]) = Owner(r[i])
  <2>1. i \in 1..n /\ r[i] = s[i]
    BY <1>1, <1>3, <1>4
  <2>2. CASE Owner(s[i]) \in c
    <3>1. Finishes(r[n+1]) /\ Owner(r[n+1]) = Owner(r[i])
      BY <1>1, <1>2, <1>4, <2>1, <2>2
    <3>2. n + 1 \in i+1..Len(r)
      BY <1>1, <2>1
    <3>3. QED BY <3>1, <3>2
  <2>3. CASE Owner(s[i]) \notin c
    <3>1. PICK j \in i+1..Len(s) : Finishes(s[j]) /\ Owner(s[j]) = Owner(s[i])
      BY <1>4, <2>1, <2>3 DEF Settles, n
    <3>2. j \in 1..n /\ j \in i+1..Len(r)
      BY <1>1, <2>1 DEF n
    <3>3. r[j] = s[j]
      BY <1>1, <3>2
    <3>4. QED BY <2>1, <3>1, <3>2, <3>3
  <2>4. QED BY <2>2, <2>3
<1>5. ASSUME Ending(s, active \ c), NEW q \in active \ d
      PROVE  \E j \in 1..Len(r) : Finishes(r[j]) /\ Owner(r[j]) = q
  <2>1. CASE q \in c
    <3>1. Finishes(r[n+1]) /\ Owner(r[n+1]) = q /\ n + 1 \in 1..Len(r)
      BY <1>1, <1>2, <2>1
    <3>2. QED BY <3>1
  <2>2. CASE q \notin c
    <3>1. PICK j \in 1..n : Finishes(s[j]) /\ Owner(s[j]) = q
      BY <1>5, <2>2 DEF Ending, n
    <3>2. j \in 1..Len(r) /\ r[j] = s[j]
      BY <1>1
    <3>3. QED BY <3>1, <3>2
  <2>3. QED BY <2>1, <2>2
<1>6. QED BY <1>4, <1>5 DEF Settles, Ending, r

\* A batch the host takes from the stream begins or ends the contact it says.
LEMMA TailSettles ==
    ASSUME NEW s \in Seq(Packet), s # <<>>, Shape(s[1]), NEW c, NEW active, NEW now,
           Settles(s, c), active = {} \/ Ending(s, active \ c),
           now = IF Begins(s[1]) THEN active \cup {Owner(s[1])}
                 ELSE IF Finishes(s[1]) THEN active \ {Owner(s[1])} ELSE active
    PROVE  Settles(Tail(s), c) /\ Ending(Tail(s), now \ c)
<1> DEFINE n == Len(s)  r == Tail(s)
<1>1. n \in Nat \ {0} /\ Len(r) = n - 1 /\ \A i \in 1..n-1 : r[i] = s[i+1]
  OBVIOUS
<1> HIDE DEF n, r
<1>2. ASSUME NEW i \in 1..Len(r), Begins(r[i]), Owner(r[i]) \notin c
      PROVE  \E j \in i+1..Len(r) : Finishes(r[j]) /\ Owner(r[j]) = Owner(r[i])
  <2>1. i + 1 \in 1..n /\ r[i] = s[i+1]
    BY <1>1
  <2>2. PICK j \in (i+1)+1..n : Finishes(s[j]) /\ Owner(s[j]) = Owner(s[i+1])
    BY <1>2, <2>1 DEF Settles, n
  <2>3. j - 1 \in i+1..Len(r) /\ r[j-1] = s[j]
    <3>1. j - 1 \in i+1..n-1 /\ j - 1 \in 1..n-1 /\ (j - 1) + 1 = j
      BY <1>1, <2>1
    <3>2. QED BY <1>1, <3>1
  <2>4. QED BY <2>1, <2>2, <2>3
<1>3. ASSUME NEW q \in now \ c
      PROVE  \E j \in 1..Len(r) : Finishes(r[j]) /\ Owner(r[j]) = q
  <2>1. \E j \in 2..n : Finishes(s[j]) /\ Owner(s[j]) = q
    <3>1. CASE Begins(s[1]) /\ q = Owner(s[1])
      <4>1. 1 \in 1..n
        BY <1>1
      <4>2. PICK j \in 1+1..n : Finishes(s[j]) /\ Owner(s[j]) = Owner(s[1])
        BY <1>3, <3>1, <4>1 DEF Settles, n
      <4>3. j \in 2..n
        BY <1>1
      <4>4. QED BY <3>1, <4>2, <4>3
    <3>2. CASE ~(Begins(s[1]) /\ q = Owner(s[1]))
      <4>1. q \in active /\ ~(Finishes(s[1]) /\ Owner(s[1]) = q)
        BY <1>3, <3>2, OneKind
      <4>2. PICK j \in 1..n : Finishes(s[j]) /\ Owner(s[j]) = q
        BY <1>3, <4>1 DEF Ending, n
      <4>3. j # 1
        BY <4>1, <4>2
      <4>4. j \in 2..n
        BY <1>1, <4>3
      <4>5. QED BY <4>2, <4>4
    <3>3. QED BY <3>1, <3>2
  <2>2. PICK j \in 2..n : Finishes(s[j]) /\ Owner(s[j]) = q
    BY <2>1
  <2>3. j - 1 \in 1..Len(r) /\ r[j-1] = s[j]
    <3>1. j - 1 \in 1..n-1 /\ (j - 1) + 1 = j
      BY <1>1
    <3>2. QED BY <1>1, <3>1
  <2>4. QED BY <2>2, <2>3
<1>4. QED BY <1>2, <1>3 DEF Settles, Ending, r

\* What becomes of the stream when a batch is sent: all of it is dropped, the batch is
\* lost because nobody listens, or the batch is its last.
LEMMA SentStream ==
    ASSUME Base, NEW pk, NEW C, Sends(pk, C)
    PROVE  /\ UNCHANGED <<ready, hostVars, resets>>
           /\ page'.batch = page.batch + 1
           /\ \/ /\ clean' = FALSE /\ ~Listening
                 /\ page'.transport = None /\ page'.pending = <<>>
              \/ clean' = FALSE /\ ~Listening /\ page'.transport # None /\ ~Listening'
              \/ /\ clean' = clean /\ Stream \in Seq(Packet) /\ Stream' = Append(Stream, pk)
                 /\ page'.contacts = C /\ page'.interrupted = page.interrupted
                 /\ page.transport = None \/ Listening
                 /\ (page'.transport = None /\ page.transport = None) \/ Listening'
                 /\ Size = Len(Stream) /\ Size' = Len(Stream')
                 /\ \A x \in Transports :
                       x # page'.transport => x # page.transport /\ wire'[x] = wire[x]
<1> DEFINE t == Chosen(page)  n == Len(pk.samples)
<1>0. /\ TypeOK /\ RouteInv /\ UNCHANGED <<ready, hostVars, resets>>
  BY DEF Base, Sends, hostVars
<1>1. /\ t \in Transports \cup {None} /\ None \notin Transports
      /\ page.transport \in Transports \cup {None} /\ page.pending \in Seq(Packet)
  BY <1>0, PageFields
<1>2. /\ t = None => page.transport = None /\ \A x \in Transports : ~IsOpen(x)
      /\ t # None => /\ page.pending = <<>> /\ ready[t] \in {"open", "closing"}
                     /\ page.transport # None => t = page.transport
                     /\ page.transport = None => IsOpen(t)
  BY <1>0, ChosenRoute
<1>3. ready' = ready /\ serving' = serving
  BY <1>0 DEF hostVars
<1>4. \A a, b, c, d :
         LET p == Paged(a, b, c, d, n) IN
         /\ p.transport = a /\ p.pending = b /\ p.contacts = c /\ p.interrupted = d
         /\ p.batch = page.batch + 1
  BY DEF Paged
<1> HIDE DEF t, n
<1>5. CASE t = None /\ ~(Len(page.pending) < MaxPending)
  <2>1. PICK I : page' = Paged(page.transport, <<>>, {}, I, n) /\ clean' = FALSE
    BY <1>5 DEF Sends, t, n
  <2>2. page'.transport = None /\ page'.pending = <<>> /\ page'.batch = page.batch + 1
    BY <1>2, <1>4, <1>5, <2>1
  <2>3. ~Listening
    BY <1>2, <1>5 DEF Listening
  <2>4. QED BY <1>0, <2>1, <2>2, <2>3
<1>6. CASE t = None /\ Len(page.pending) < MaxPending
  <2>1. /\ page' = Paged(page.transport, Append(page.pending, pk), C, page.interrupted, n)
        /\ wire' = wire /\ clean' = clean
    BY <1>6 DEF Sends, t, n
  <2>2. /\ page'.transport = page.transport /\ page'.pending = Append(page.pending, pk)
        /\ page'.contacts = C /\ page'.interrupted = page.interrupted
        /\ page'.batch = page.batch + 1 /\ page.transport = None
    <3>1. page.transport = None
      BY <1>2, <1>6
    <3>2. QED BY <2>1, <3>1 DEF Paged
  <2>3. Stream = page.pending /\ Stream' = page'.pending /\ Size = Len(Stream) /\ Size' = Len(Stream')
    BY <2>2 DEF Stream, Size
  <2>4. QED BY <1>0, <1>1, <2>1, <2>2, <2>3
<1>7. CASE t # None /\ ~(IsOpen(t) /\ serving[t])
  <2>1. page' = Paged(t, page.pending, C, page.interrupted, n) /\ clean' = FALSE
    BY <1>7 DEF Sends, t, n
  <2>2. page'.transport = t /\ page'.batch = page.batch + 1
    BY <1>4, <2>1
  <2>3. ~Listening /\ ~Listening'
    BY <1>2, <1>3, <1>7, <2>2 DEF Listening, IsOpen
  <2>4. QED BY <1>0, <1>7, <2>1, <2>2, <2>3
<1>8. CASE t # None /\ IsOpen(t) /\ serving[t]
  <2>1. /\ page' = Paged(t, page.pending, C, page.interrupted, n) /\ clean' = clean
        /\ wire' = [wire EXCEPT ![t] = Append(@, pk)]
    BY <1>8 DEF Sends, t, n
  <2>2. /\ page'.transport = t /\ page'.batch = page.batch + 1 /\ page'.contacts = C
        /\ page'.interrupted = page.interrupted
    BY <1>4, <2>1
  <2>3. /\ t \in Transports /\ wire \in [Transports -> Seq(Packet)]
    BY <1>0, <1>1, <1>8, WireFields
  <2>4. /\ wire'[t] = Append(wire[t], pk) /\ \A x \in Transports : x # t => wire'[x] = wire[x]
    BY <2>1, <2>3
  <2>5. Listening' /\ Stream' = wire'[t] /\ Size' = Len(Stream')
    BY <1>3, <1>8, <2>2 DEF Listening, IsOpen, Stream, Size
  <2>6. page.transport = None => wire[t] = <<>> /\ page.pending = <<>>
    BY <1>0, <1>2, <1>8, <2>3 DEF RouteInv, IsOpen
  <2>7. /\ Stream = wire[t] /\ Size = Len(Stream) /\ (page.transport = None \/ Listening)
    BY <1>2, <1>8, <2>6 DEF Stream, Size, Listening, IsOpen
  <2>8. \A x \in Transports : x # t => x # page.transport
    BY <1>1, <1>2, <1>8
  <2>9. Stream \in Seq(Packet) /\ Stream' = Append(Stream, pk)
    BY <2>3, <2>4, <2>5, <2>7
  <2>10. QED BY <1>0, <2>1, <2>2, <2>4, <2>5, <2>7, <2>8, <2>9
<1>9. QED BY <1>5, <1>6, <1>7, <1>8

\* Sending a batch.
LEMMA SendsSettled ==
    ASSUME Base, SettledInv, NEW pk, NEW C, Sends(pk, C)
    PROVE  SettledInv'
<1>0. Shape(pk) /\ pk \in Packet /\ Carries(page.contacts, pk, C)
  BY DEF Sends, Shape
<1>1. EndComes' = EndComes /\ state' = state
  BY SentStream DEF hostVars, EndComes
<1>2. CASE /\ ~Listening /\ page'.transport = None /\ page'.pending = <<>>
  <2>1. Stream' = <<>> /\ Settles(<<>>, page'.contacts)
    BY <1>2 DEF Stream, Settles
  <2>2. QED BY <1>1, <1>2, <2>1 DEF SettledInv
<1>3. CASE ~Listening /\ page'.transport # None /\ ~Listening'
  BY <1>1, <1>3 DEF SettledInv
<1>4. CASE /\ Stream \in Seq(Packet) /\ Stream' = Append(Stream, pk)
           /\ page'.contacts = C
           /\ page.transport = None \/ Listening
           /\ (page'.transport = None /\ page.transport = None) \/ Listening'
  <2>1. Settles(Stream, page.contacts)
    BY <1>4 DEF SettledInv
  <2>2. Settles(Append(Stream, pk), C)
    BY <1>0, <1>4, <2>1, AppendSettles
  <2>3. Ending(Stream, state.active \ page.contacts) => Ending(Append(Stream, pk), state.active \ C)
    BY <1>0, <1>4, AppendSettles
  <2>4. EndComes \/ state.active = {} \/ (Listening' /\ Ending(Append(Stream, pk), state.active \ C))
    <3>1. CASE EndComes \/ state.active = {}
      BY <3>1
    <3>2. CASE Listening /\ Ending(Stream, state.active \ page.contacts)
      <4>1. page.transport # None
        BY <3>2 DEF Listening
      <4>2. QED BY <1>4, <2>3, <3>2, <4>1
    <3>3. QED BY <3>1, <3>2 DEF SettledInv
  <2>5. QED BY <1>1, <1>4, <2>2, <2>4 DEF SettledInv
<1>5. QED BY <1>2, <1>3, <1>4, SentStream

\* The same stream, or another that nobody listens to, with the same contacts.
LEMMA SettledKept ==
    ASSUME SettledInv, page'.contacts = page.contacts,
           page'.transport = None \/ Listening' =>
              (page.transport = None \/ Listening) /\ Stream' = Stream,
           (state' = state /\ (EndComes => EndComes')) \/ state'.active = {} \/ EndComes',
           Listening => Listening' \/ state'.active = {} \/ EndComes'
    PROVE  SettledInv'
<1>1. page'.transport = None \/ Listening' => Settles(Stream', page'.contacts)
  BY DEF SettledInv
<1>2. EndComes' \/ state'.active = {}
      \/ (Listening' /\ Ending(Stream', state'.active \ page'.contacts))
  BY DEF SettledInv
<1>3. QED BY <1>1, <1>2 DEF SettledInv

\* The steps of the browser and of the connections that send nothing.
LEMMA BrowserSettled ==
    ASSUME Base, SettledInv,
           \/ \E q \in Pointers : InterruptedUp(q) \/ StrayUp(q)
           \/ \E t \in Transports : Opened(t) \/ Breaks(t) \/ CloseEvent(t)
    PROVE  SettledInv'
<1>0. /\ TypeOK /\ RouteInv /\ page \in Page /\ None \notin Transports
      /\ page.transport \in Transports \cup {None}
      /\ ready \in [Transports -> {"connecting", "open", "closing", "closed"}]
      /\ wire \in [Transports -> Seq(Packet)]
  BY PageFields, WireFields DEF Base, TypeOK, BrowserType
<1>1. ASSUME NEW q \in Pointers, InterruptedUp(q) \/ StrayUp(q) PROVE SettledInv'
  <2>1. /\ page'.transport = page.transport /\ page'.pending = page.pending
        /\ page'.contacts = page.contacts /\ UNCHANGED <<ready, wire, hostVars>>
    BY <1>0, <1>1 DEF InterruptedUp, StrayUp, Page
  <2>2. Listening' = Listening /\ Stream' = Stream /\ EndComes' = EndComes /\ state' = state
    BY <2>1 DEF Listening, Stream, EndComes, IsOpen, hostVars
  <2>3. QED BY <2>1, <2>2 DEF SettledInv
<1>2. ASSUME NEW t \in Transports, Opened(t) PROVE SettledInv'
  <2>1. /\ ready[t] = "connecting" /\ serving[t] /\ page.transport # t
        /\ serving' = serving /\ state' = state /\ ready' = [ready EXCEPT ![t] = "open"]
    BY <1>2, OpenedStream DEF hostVars
  <2>2. ready'[t] = "open" /\ \A x \in Transports : x # t => ready'[x] = ready[x]
    BY <1>0, <2>1
  <2>3. EndComes => EndComes'
    BY <2>1, <2>2 DEF EndComes
  <2>4. CASE /\ page.transport = None
             /\ page' = [page EXCEPT !.transport = t, !.pending = <<>>]
             /\ wire' = [wire EXCEPT ![t] = page.pending]
    <3>1. page'.transport = t /\ page'.contacts = page.contacts
      BY <1>0, <2>4 DEF Page
    <3>2. wire'[t] = page.pending
      BY <1>0, <2>4
    <3>3. Stream = page.pending /\ ~Listening
      BY <2>4 DEF Stream, Listening
    <3>4. Stream' = page.pending
      BY <1>0, <3>1, <3>2 DEF Stream
    <3>5. QED BY <2>1, <2>3, <2>4, <3>1, <3>3, <3>4, SettledKept
  <2>5. CASE page.pending = <<>> /\ UNCHANGED <<page, wire>>
    <3>1. Stream' = Stream /\ Listening' = Listening
      BY <1>0, <2>1, <2>2, <2>5 DEF Stream, Listening, IsOpen
    <3>2. QED BY <2>1, <2>3, <2>5, <3>1, SettledKept
  <2>6. QED BY <1>2, <2>4, <2>5, OpenedStream
<1>3. ASSUME NEW t \in Transports, Breaks(t) PROVE SettledInv'
  <2>1. /\ ready[t] = "open" /\ ready' = [ready EXCEPT ![t] = "closing"] /\ page' = page
        /\ serving' = serving /\ state' = state
    BY <1>3 DEF Breaks, hostVars
  <2>2. ready'[t] = "closing" /\ \A x \in Transports : x # t => ready'[x] = ready[x]
    BY <1>0, <2>1
  <2>3. \A x \in Transports : x # t => wire'[x] = wire[x]
    BY <1>0, <1>3 DEF Breaks
  <2>4. (EndComes => EndComes') /\ (serving[t] => EndComes')
    BY <2>1, <2>2 DEF EndComes
  <2>5. Listening' => Listening /\ page.transport # t
    BY <1>0, <2>1, <2>2 DEF Listening, IsOpen
  <2>6. Listening => Listening' \/ EndComes'
    BY <1>0, <2>1, <2>2, <2>4 DEF Listening, IsOpen
  <2>7. page'.transport = None \/ Listening' => Stream' = Stream
    BY <1>0, <2>1, <2>3, <2>5 DEF Stream
  <2>8. QED BY <2>1, <2>4, <2>5, <2>6, <2>7, SettledKept
<1>4. ASSUME NEW t \in Transports, CloseEvent(t) PROVE SettledInv'
  <2>1. /\ ready[t] = "closing" /\ ready' = [ready EXCEPT ![t] = "closed"]
        /\ wire' = wire /\ serving' = serving /\ state' = state
    BY <1>4, ClosedPage DEF hostVars
  <2>2. ready'[t] = "closed" /\ \A x \in Transports : x # t => ready'[x] = ready[x]
    BY <1>0, <2>1
  <2>3. EndComes => EndComes'
    BY <2>1, <2>2 DEF EndComes
  <2>4. CASE page.transport = t /\ page'.transport = None /\ page'.pending = <<>>
    <3>1. Stream' = <<>> /\ Settles(<<>>, page'.contacts)
      BY <2>4 DEF Stream, Settles
    <3>2. ~Listening
      BY <2>1, <2>4 DEF Listening, IsOpen
    <3>3. QED BY <2>1, <2>3, <3>1, <3>2 DEF SettledInv
  <2>5. CASE page.transport # t /\ page' = page
    <3>1. Stream' = Stream /\ Listening' = Listening
      BY <1>0, <2>1, <2>2, <2>5 DEF Stream, Listening, IsOpen
    <3>2. QED BY <2>1, <2>3, <2>5, <3>1, SettledKept
  <2>6. QED BY <1>4, <2>4, <2>5, ClosedPage
<1>5. QED BY <1>1, <1>2, <1>3, <1>4

\* The host resets, or ends a transport.
LEMMA HostSettled ==
    ASSUME Base, SettledInv,
           HostResets \/ \E t \in Transports : TransportEnds(t) \/ HostEnds(t)
    PROVE  SettledInv'
<1>0. TypeOK /\ wire \in [Transports -> Seq(Packet)] /\ serving \in [Transports -> BOOLEAN]
      /\ page.transport \in Transports \cup {None}
  BY PageFields, WireFields DEF Base
<1>1. page' = page /\ ready' = ready /\ ResetInputContinuity
  BY DEF HostResets, TransportEnds, HostEnds
<1>2. state'.active = {}
  BY <1>0, <1>1, ResetTypes
<1>3. Listening' => Listening /\ wire'[page.transport] = wire[page.transport]
  <2>1. CASE HostResets
    BY <1>1, <2>1 DEF HostResets, Listening, IsOpen
  <2>2. ASSUME NEW t \in Transports, TransportEnds(t) \/ HostEnds(t)
        PROVE  Listening' => Listening /\ wire'[page.transport] = wire[page.transport]
    <3>1. wire' = [wire EXCEPT ![t] = <<>>] /\ serving' = [serving EXCEPT ![t] = FALSE]
      BY <2>2 DEF TransportEnds, HostEnds
    <3>2. /\ ~serving'[t]
          /\ \A x \in Transports : x # t => wire'[x] = wire[x] /\ serving'[x] = serving[x]
      BY <1>0, <3>1
    <3>3. QED BY <1>0, <1>1, <3>2 DEF Listening, IsOpen
  <2>3. QED BY <2>1, <2>2
<1>4. page'.transport = None \/ Listening' =>
         (page.transport = None \/ Listening) /\ Stream' = Stream
  <2>1. CASE page.transport = None
    BY <1>1, <2>1 DEF Stream
  <2>2. CASE page.transport # None
    BY <1>1, <1>3, <2>2 DEF Stream
  <2>3. QED BY <2>1, <2>2
<1>5. QED BY <1>1, <1>2, <1>4, SettledKept

\* The host takes a batch.
LEMMA ReceiveSettled ==
    ASSUME Base, CountsExact, SettledInv, NEW t \in Transports, Receive(t)
    PROVE  SettledInv'
<1> DEFINE pk == Head(wire[t])
<1>0. TypeOK /\ RouteInv /\ Ahead(truth.expected, page.batch, page.sample)
      /\ ready[t] \in {"connecting", "open", "closing", "closed"} /\ None \notin Transports
      /\ page.transport \in Transports \cup {None}
  BY WireFields, PageFields DEF Base, WindowInv
<1>1. /\ serving[t] /\ wire[t] \in Seq(Packet) /\ Len(wire[t]) \in Nat \ {0}
      /\ wire[t][1] = pk /\ Shape(pk) /\ Within(pk, page.batch, page.sample) /\ InputBatch(pk)
      /\ page' = page /\ ready' = ready /\ serving' = serving
      /\ wire'[t] = Tail(wire[t])
      /\ \A x \in Transports : x # t => wire'[x] = wire[x]
  BY Received
<1>2. state'.active = IF Begins(pk) THEN state.active \cup {Owner(pk)}
                      ELSE IF Finishes(pk) THEN state.active \ {Owner(pk)} ELSE state.active
  BY <1>0, <1>1, BatchObserved
<1> HIDE DEF pk
<1>3. EndComes' = EndComes /\ Listening' = Listening
  BY <1>1 DEF EndComes, Listening, IsOpen
<1>4. CASE EndComes
  <2>1. CASE page.transport = t /\ Listening
    <3>1. Stream = wire[t] /\ Stream' = Tail(wire[t]) /\ wire[t] # <<>>
      BY <1>0, <1>1, <2>1 DEF Stream
    <3>2. Settles(wire[t], page.contacts)
      BY <2>1, <3>1 DEF SettledInv
    <3>3. {} = {} \/ Ending(wire[t], {} \ page.contacts)
      OBVIOUS
    <3>4. Settles(Tail(wire[t]), page.contacts)
      <4> DEFINE now == IF Begins(pk) THEN {} \cup {Owner(pk)}
                        ELSE IF Finishes(pk) THEN {} \ {Owner(pk)} ELSE {}
      <4>1. now = IF Begins(wire[t][1]) THEN {} \cup {Owner(wire[t][1])}
                  ELSE IF Finishes(wire[t][1]) THEN {} \ {Owner(wire[t][1])} ELSE {}
        BY <1>1
      <4> HIDE DEF now
      <4>2. QED BY <1>1, <3>1, <3>2, <4>1, TailSettles
    <3>5. QED BY <1>1, <1>3, <1>4, <3>1, <3>4 DEF SettledInv
  <2>2. CASE ~(page.transport = t /\ Listening)
    <3>1. page.transport = None \/ Listening => Stream' = Stream
      BY <1>0, <1>1, <2>2 DEF Stream
    <3>2. QED BY <1>1, <1>3, <1>4, <3>1, SettledKept
  <2>3. QED BY <2>1, <2>2
<1>5. CASE ~EndComes
  <2>1. ready[t] \in {"connecting", "open"} /\ wire[t] # <<>>
    BY <1>0, <1>1, <1>5 DEF EndComes
  <2>2. t = page.transport
    BY <1>0, <2>1 DEF RouteInv
  <2>3. Listening /\ Stream = wire[t] /\ Stream' = Tail(wire[t])
    BY <1>0, <1>1, <2>1, <2>2 DEF Listening, Stream, RouteInv, IsOpen
  <2>4. /\ Settles(wire[t], page.contacts)
        /\ state.active = {} \/ Ending(wire[t], state.active \ page.contacts)
    BY <1>5, <2>3 DEF SettledInv
  <2>5. state'.active = IF Begins(wire[t][1]) THEN state.active \cup {Owner(wire[t][1])}
                        ELSE IF Finishes(wire[t][1]) THEN state.active \ {Owner(wire[t][1])}
                        ELSE state.active
    BY <1>1, <1>2
  <2>6. PICK now : now = state'.active
    OBVIOUS
  <2>7. Settles(Tail(wire[t]), page.contacts) /\ Ending(Tail(wire[t]), now \ page.contacts)
    BY <1>1, <2>1, <2>4, <2>5, <2>6, TailSettles
  <2>8. QED BY <1>1, <1>3, <2>3, <2>6, <2>7 DEF SettledInv
<1>6. QED BY <1>4, <1>5

\* SettledInv is invariant, given types, routes and counts.
LEMMA SettledInvariant == Spec => []SettledInv
<1>1. ASSUME Init PROVE SettledInv
  <2>1. page.transport = None /\ page.pending = <<>> /\ state.active = {}
    BY <1>1 DEF Init
  <2>2. QED BY <2>1 DEF SettledInv, Stream, Settles
<1>2. ASSUME Base, CountsExact, SettledInv, [Next]_vars PROVE SettledInv'
  <2>1. CASE UNCHANGED vars
    BY <1>2, <2>1 DEF vars, SettledInv, Listening, Stream, EndComes, IsOpen
  <2>2. QED BY <1>2, <2>1, Steps, SendsSettled, BrowserSettled, HostSettled, ReceiveSettled
<1>3. QED BY <1>1, <1>2, BaseInvariant, PTL DEF Spec

\* At rest the host counts no pointer as active whose contact the browser has not, so that a
\* download that pauses for drawing goes on: whatever was lost, abandoned, dropped or reset.
THEOREM NoPointerSticks == Spec => []NoStuckPointer
<1>1. ASSUME Base, SettledInv PROVE NoStuckPointer
  <2>1. SUFFICES ASSUME Quiet, NEW q \in state.active, q \notin page.contacts PROVE FALSE
    BY DEF NoStuckPointer
  <2>2. ~EndComes
    BY <2>1 DEF Quiet, EndComes
  <2>3. Listening /\ Ending(Stream, state.active \ page.contacts)
    BY <1>1, <2>1, <2>2 DEF SettledInv
  <2>4. page.transport \in Transports
    BY <1>1, <2>3, PageFields DEF Listening, Base
  <2>5. Stream = <<>>
    BY <2>1, <2>3, <2>4 DEF Quiet, Stream, Listening
  <2>6. QED BY <2>1, <2>3, <2>5 DEF Ending
<1>2. QED BY <1>1, BaseInvariant, SettledInvariant, PTL

-----------------------------------------------------------------------------
(* A clean session                                                          *)

\* A chain looks at its first n batches only.
LEMMA ChainSame ==
    ASSUME NEW s, NEW r, NEW n \in Nat, \A i \in 1..n : r[i] = s[i],
           NEW b, NEW e, NEW a, NEW c, Chain(s, n, b, e, a, c)
    PROVE  Chain(r, n, b, e, a, c)
<1>1. /\ \A i \in 1..n : s[i].batch = (b - n) + (i - 1)
      /\ \A i \in 1..n, j \in 1..n : i < j => After(s[i]) <= First(s[j])
      /\ e.batch # None => e.batch = b - n /\ \A i \in 1..n : e.sample <= First(s[i])
  BY DEF Chain
<1>2. PICK path \in [0..n -> SUBSET Pointers] :
         path[0] = a /\ path[n] = c /\ \A i \in 1..n : Carries(path[i-1], s[i], path[i])
  BY DEF Chain
<1>3. \A i \in 1..n : Carries(path[i-1], r[i], path[i])
  BY <1>2
<1>4. /\ \A i \in 1..n : r[i].batch = (b - n) + (i - 1)
      /\ \A i \in 1..n, j \in 1..n : i < j => After(r[i]) <= First(r[j])
      /\ e.batch # None => e.batch = b - n /\ \A i \in 1..n : e.sample <= First(r[i])
  BY <1>1
<1>5. QED BY <1>2, <1>3, <1>4 DEF Chain

\* The next batch of the page makes a chain longer.
LEMMA ChainAppend ==
    ASSUME NEW s \in Seq(Packet), NEW pk \in Packet, NEW b \in Nat, NEW e, NEW a, NEW c,
           NEW d \in SUBSET Pointers, Chain(s, Len(s), b, e, a, c), pk.batch = b,
           Carries(c, pk, d), \A i \in 1..Len(s) : After(s[i]) <= First(pk),
           e.batch # None => e.sample <= First(pk)
    PROVE  Chain(Append(s, pk), Len(s) + 1, b + 1, e, a, d)
<1> DEFINE n == Len(s)  r == Append(s, pk)
<1>1. n \in Nat /\ r[n+1] = pk /\ \A i \in 1..n : r[i] = s[i]
  OBVIOUS
<1>2. /\ \A i \in 1..n : s[i].batch = (b - n) + (i - 1)
      /\ \A i \in 1..n, j \in 1..n : i < j => After(s[i]) <= First(s[j])
      /\ e.batch # None => e.batch = b - n /\ \A i \in 1..n : e.sample <= First(s[i])
  BY DEF Chain
<1>3. PICK path \in [0..n -> SUBSET Pointers] :
         path[0] = a /\ path[n] = c /\ \A i \in 1..n : Carries(path[i-1], s[i], path[i])
  BY DEF Chain
<1> HIDE DEF n, r
<1>4. (b + 1) - (n + 1) = b - n
  BY <1>1
<1>5. ASSUME NEW i \in 1..n+1 PROVE r[i].batch = ((b + 1) - (n + 1)) + (i - 1)
  <2>1. CASE i = n + 1
    <3>1. (b - n) + (i - 1) = b
      BY <1>1, <2>1
    <3>2. QED BY <1>1, <1>4, <2>1, <3>1
  <2>2. CASE i # n + 1
    <3>1. i \in 1..n
      BY <1>1, <2>2
    <3>2. QED BY <1>1, <1>2, <1>4, <3>1
  <2>3. QED BY <2>1, <2>2
<1>6. ASSUME NEW i \in 1..n+1, NEW j \in 1..n+1, i < j PROVE After(r[i]) <= First(r[j])
  <2>1. i \in 1..n
    BY <1>1, <1>6
  <2>2. CASE j = n + 1
    BY <1>1, <2>1, <2>2 DEF n
  <2>3. CASE j # n + 1
    <3>1. j \in 1..n
      BY <1>1, <2>3
    <3>2. QED BY <1>1, <1>2, <1>6, <2>1, <3>1
  <2>4. QED BY <2>2, <2>3
<1>7. e.batch # None => /\ e.batch = (b + 1) - (n + 1)
                        /\ \A i \in 1..n+1 : e.sample <= First(r[i])
  <2>1. ASSUME e.batch # None, NEW i \in 1..n+1 PROVE e.sample <= First(r[i])
    <3>1. CASE i = n + 1
      BY <1>1, <2>1, <3>1
    <3>2. CASE i # n + 1
      <4>1. i \in 1..n
        BY <1>1, <3>2
      <4>2. QED BY <1>1, <1>2, <2>1, <4>1
    <3>3. QED BY <3>1, <3>2
  <2>2. QED BY <1>2, <1>4, <2>1
<1> DEFINE more == [i \in 0..n+1 |-> IF i = n + 1 THEN d ELSE path[i]]
<1>8. more \in [0..n+1 -> SUBSET Pointers] /\ more[0] = a /\ more[n+1] = d
  BY <1>1, <1>3
<1>9. ASSUME NEW i \in 1..n+1 PROVE Carries(more[i-1], r[i], more[i])
  <2>1. CASE i = n + 1
    <3>1. i - 1 = n /\ more[i-1] = c /\ more[i] = d
      BY <1>1, <1>3, <2>1
    <3> HIDE DEF more
    <3>2. QED BY <1>1, <2>1, <3>1
  <2>2. CASE i # n + 1
    <3>1. i \in 1..n /\ more[i-1] = path[i-1] /\ more[i] = path[i]
      BY <1>1, <2>2
    <3> HIDE DEF more
    <3>2. QED BY <1>1, <1>3, <3>1
  <2>3. QED BY <2>1, <2>2
<1> HIDE DEF more
<1>10. Chain(r, n + 1, b + 1, e, a, d)
  BY <1>5, <1>6, <1>7, <1>8, <1>9 DEF Chain
<1>11. QED BY <1>10 DEF n, r

\* The first batch of a chain is what the host expects, and the rest is a chain from
\* there.
LEMMA ChainTail ==
    ASSUME NEW s \in Seq(Packet), NEW n \in Nat \ {0}, n <= Len(s), Shape(s[1]),
           NEW b \in Nat, NEW e, NEW a, NEW c, Chain(s, n, b, e, a, c),
           e.batch = None <=> e.sample = None,
           NEW f, f.batch = Due(e.batch, s[1].batch, 1),
           f.sample = Due(e.sample, First(s[1]), Len(s[1].samples)), e.sample \in Nat \cup {None},
           NEW now, \A d : Carries(a, s[1], d) => now = d
    PROVE  /\ Chain(Tail(s), n - 1, b, f, now, c)
           /\ e.batch = None \/ e.batch = s[1].batch
           /\ e.sample = None \/ e.sample <= First(s[1])
           /\ \E d : Carries(a, s[1], d)
<1> DEFINE r == Tail(s)
<1>1. \A i \in 1..n-1 : i + 1 \in 1..n /\ r[i] = s[i+1]
  <2>1. s # <<>> /\ Len(s) \in Nat /\ \A i \in 1..Len(s)-1 : Tail(s)[i] = s[i+1]
    OBVIOUS
  <2>2. QED BY <2>1
<1> HIDE DEF r
<1>2. /\ \A i \in 1..n : s[i].batch = (b - n) + (i - 1)
      /\ \A i \in 1..n, j \in 1..n : i < j => After(s[i]) <= First(s[j])
      /\ e.batch # None => e.batch = b - n /\ \A i \in 1..n : e.sample <= First(s[i])
  BY DEF Chain
<1>3. PICK path \in [0..n -> SUBSET Pointers] :
         path[0] = a /\ path[n] = c /\ \A i \in 1..n : Carries(path[i-1], s[i], path[i])
  BY DEF Chain
<1>4. 1 \in 1..n /\ s[1].batch = b - n /\ s[1].batch \in Nat /\ First(s[1]) \in Nat
      /\ Len(s[1].samples) \in Nat
  <2>1. 1 \in 1..n /\ (b - n) + (1 - 1) = b - n
    OBVIOUS
  <2>2. QED BY <1>2, <2>1, ShapeType
<1>5. /\ e.batch = None \/ e.batch = s[1].batch
      /\ e.sample = None \/ e.sample <= First(s[1])
  BY <1>2, <1>4
<1>6. f.batch = s[1].batch + 1 /\ f.batch = b - (n - 1)
  BY <1>4, <1>5 DEF Due
<1>7. f.sample = After(s[1])
  <2>1. CASE e.sample = None
    BY <2>1 DEF Due, After
  <2>2. CASE e.sample # None
    <3>1. e.sample \in Nat /\ e.sample <= First(s[1])
      BY <1>5, <2>2
    <3>2. Len(s[1].samples) # 0
      BY ShapeType
    <3>3. e.sample < First(s[1]) + Len(s[1].samples)
      BY <1>4, <3>1, <3>2
    <3>4. QED BY <3>3 DEF Due, After
  <2>3. QED BY <2>1, <2>2
<1>8. now = path[1] /\ \E d : Carries(a, s[1], d)
  <2>1. Carries(path[1-1], s[1], path[1]) /\ 1 - 1 = 0
    BY <1>3, <1>4
  <2>2. QED BY <1>3, <2>1
<1>9. ASSUME NEW i \in 1..n-1 PROVE r[i].batch = (b - (n - 1)) + (i - 1)
  <2>1. r[i].batch = (b - n) + ((i + 1) - 1)
    BY <1>1, <1>2
  <2>2. (b - n) + ((i + 1) - 1) = (b - (n - 1)) + (i - 1)
    OBVIOUS
  <2>3. QED BY <2>1, <2>2
<1>10. ASSUME NEW i \in 1..n-1, NEW j \in 1..n-1, i < j PROVE After(r[i]) <= First(r[j])
  <2>1. i + 1 < j + 1
    BY <1>10
  <2>2. QED BY <1>1, <1>2, <2>1
<1>11. ASSUME NEW i \in 1..n-1 PROVE f.sample <= First(r[i])
  <2>1. 1 < i + 1
    OBVIOUS
  <2>2. QED BY <1>1, <1>2, <1>4, <1>7, <2>1
<1> DEFINE rest == [i \in 0..n-1 |-> path[i+1]]
<1>12. rest \in [0..n-1 -> SUBSET Pointers] /\ rest[0] = now /\ rest[n-1] = c
  BY <1>3, <1>8
<1>13. ASSUME NEW i \in 1..n-1 PROVE Carries(rest[i-1], r[i], rest[i])
  <2>1. rest[i-1] = path[(i+1)-1] /\ rest[i] = path[i+1]
    OBVIOUS
  <2> HIDE DEF rest
  <2>2. QED BY <1>1, <1>3, <2>1
<1> HIDE DEF rest
<1>14. Chain(r, n - 1, b, f, now, c)
  BY <1>6, <1>9, <1>10, <1>11, <1>12, <1>13 DEF Chain
<1>15. QED BY <1>5, <1>8, <1>14 DEF r

\* The batches of the stream, while the host serves every transport.
LEMMA StreamParts ==
    ASSUME Base, \A t \in Transports : serving[t]
    PROVE  /\ Stream \in Seq(Packet) /\ Size \in Nat /\ Size <= Len(Stream)
           /\ \A i \in 1..Size :
                 Stream[i] # End /\ Shape(Stream[i]) /\ Within(Stream[i], page.batch, page.sample)
<1>0. /\ TypeOK /\ RouteInv /\ WindowInv /\ page.pending \in Seq(Packet)
      /\ page.transport \in Transports \cup {None}
  BY PageFields DEF Base
<1>1. CASE page.transport = None
  <2>1. Stream = page.pending /\ Size = Len(page.pending)
    BY <1>1 DEF Stream, Size
  <2>2. \A i \in 1..Len(page.pending) :
           /\ page.pending[i] # End /\ Shape(page.pending[i])
           /\ Within(page.pending[i], page.batch, page.sample)
    BY <1>0, ShapeType DEF WindowInv
  <2>3. QED BY <1>0, <2>1, <2>2
<1>2. CASE page.transport # None
  <2> DEFINE t == page.transport  n == Len(wire[t])
  <2>1. /\ t \in Transports /\ Stream = wire[t] /\ wire[t] \in Seq(Packet) /\ n \in Nat
        /\ serving[t] /\ ready[t] \in {"open", "closing"}
        /\ \A i \in 1..n : wire[t][i] = End => i = n
    BY <1>0, <1>2, WireFields DEF Stream, RouteInv
  <2>2. CASE IsOpen(t)
    <3>1. Size = n /\ \A i \in 1..n : wire[t][i] # End
      BY <1>0, <2>1, <2>2 DEF Size, RouteInv, IsOpen
    <3>2. QED BY <1>0, <2>1, <3>1 DEF WindowInv
  <2>3. CASE ~IsOpen(t)
    <3>1. Size = n - 1 /\ wire[t] # <<>>
      BY <1>0, <1>2, <2>1, <2>3 DEF Size, RouteInv, IsOpen
    <3>2. n # 0
      BY <2>1, <3>1
    <3>3. n - 1 \in Nat /\ n - 1 <= n /\ \A i \in 1..n-1 : i \in 1..n /\ i # n
      BY <2>1, <3>2
    <3>4. \A i \in 1..n-1 : wire[t][i] # End
      BY <2>1, <3>3
    <3>5. QED BY <1>0, <2>1, <3>1, <3>3, <3>4 DEF WindowInv
  <2>4. QED BY <2>2, <2>3
<1>3. QED BY <1>1, <1>2

\* Sending a batch.
LEMMA SendsClean ==
    ASSUME Base, CleanInv, NEW pk, NEW C, Sends(pk, C)
    PROVE  CleanInv'
<1> SUFFICES ASSUME clean' PROVE StreamInv'
  BY DEF CleanInv
<1>0. /\ pk \in Packet /\ pk.batch = page.batch /\ First(pk) = page.sample
      /\ Carries(page.contacts, pk, C) /\ C \in SUBSET Pointers
      /\ page.batch \in Nat /\ Ahead(truth.expected, page.batch, page.sample)
  BY PageFields DEF Sends, Shape, Base, WindowInv
<1>1. /\ clean' = clean /\ Stream \in Seq(Packet) /\ Stream' = Append(Stream, pk)
      /\ page'.contacts = C /\ page'.interrupted = page.interrupted
      /\ Size = Len(Stream) /\ Size' = Len(Stream') /\ page'.batch = page.batch + 1
      /\ \A x \in Transports : x # page'.transport => x # page.transport /\ wire'[x] = wire[x]
      /\ serving' = serving /\ state' = state /\ counts' = counts /\ truth' = truth
  BY SentStream DEF hostVars
<1>2. StreamInv
  BY <1>1 DEF CleanInv
<1>3. \A i \in 1..Len(Stream) : After(Stream[i]) <= First(pk)
  BY <1>0, <1>1, <1>2, StreamParts DEF StreamInv, Within
<1>4. truth.expected.batch # None => truth.expected.sample <= First(pk)
  BY <1>0 DEF Ahead
<1>5. Chain(Stream, Len(Stream), page.batch, truth.expected, state.active, page.contacts)
  BY <1>1, <1>2 DEF StreamInv
<1>6. Chain(Append(Stream, pk), Len(Stream) + 1, page.batch + 1, truth.expected, state.active, C)
  BY <1>0, <1>1, <1>3, <1>4, <1>5, ChainAppend
<1>7. Size' = Len(Stream) + 1
  BY <1>0, <1>1
<1>8. (Chain(Stream, Size, page.batch, truth.expected, state.active, page.contacts))'
  BY <1>1, <1>6, <1>7
<1>9. QED BY <1>1, <1>2, <1>8 DEF StreamInv

\* The steps of the browser and of the connections that send nothing.
LEMMA BrowserClean ==
    ASSUME Base, CleanInv,
           \/ \E q \in Pointers : InterruptedUp(q) \/ StrayUp(q)
           \/ \E t \in Transports : Opened(t) \/ Breaks(t) \/ CloseEvent(t)
    PROVE  CleanInv'
<1>0. /\ TypeOK /\ RouteInv /\ page \in Page /\ None \notin Transports
      /\ page.transport \in Transports \cup {None} /\ clean \in BOOLEAN
      /\ ready \in [Transports -> {"connecting", "open", "closing", "closed"}]
      /\ wire \in [Transports -> Seq(Packet)] /\ End \in Packet
  BY PageFields, WireFields DEF Base, TypeOK, BrowserType
<1> SUFFICES ASSUME clean' PROVE StreamInv'
  BY DEF CleanInv
<1>1. ASSUME StreamInv, page'.contacts = page.contacts, page'.interrupted = page.interrupted,
             page'.batch = page.batch, UNCHANGED hostVars, Size' = Size,
             \A i \in 1..Size : Stream'[i] = Stream[i],
             \A x \in Transports : x # page'.transport =>
                x # page.transport /\ (wire'[x] = wire[x] \/ wire'[x] = <<End>>)
      PROVE  StreamInv'
  <2>1. serving' = serving /\ state' = state /\ counts' = counts /\ truth' = truth
    BY <1>1 DEF hostVars
  <2>2. \A x \in Transports : x # page'.transport => \A i \in 1..Len(wire'[x]) : wire'[x][i] = End
    BY <1>1 DEF StreamInv
  <2>3. PICK r : r = Stream'
    OBVIOUS
  <2>4. Size \in Nat /\ Chain(Stream, Size, page.batch, truth.expected, state.active, page.contacts)
    BY <1>1, StreamParts DEF StreamInv
  <2>5. Chain(r, Size, page.batch, truth.expected, state.active, page.contacts)
    BY <1>1, <2>3, <2>4, ChainSame
  <2>6. (Chain(Stream, Size, page.batch, truth.expected, state.active, page.contacts))'
    BY <1>1, <2>1, <2>3, <2>5
  <2>7. QED BY <1>1, <2>1, <2>2, <2>6 DEF StreamInv
<1>2. ASSUME NEW q \in Pointers, InterruptedUp(q) PROVE StreamInv'
  <2>1. q \in page.interrupted /\ clean' = clean
    BY <1>2 DEF InterruptedUp
  <2>2. QED BY <2>1 DEF CleanInv, StreamInv
<1>3. ASSUME NEW q \in Pointers, StrayUp(q) PROVE StreamInv'
  <2>1. /\ page'.transport = page.transport /\ page'.pending = page.pending
        /\ page'.contacts = page.contacts /\ page'.interrupted = page.interrupted
        /\ page'.batch = page.batch /\ UNCHANGED hostVars
        /\ ready' = ready /\ wire' = wire /\ clean' = clean
    <3>1. PICK n : page' = [page EXCEPT !.sample = @ + n]
      BY <1>3 DEF StrayUp
    <3>2. ready' = ready /\ wire' = wire /\ clean' = clean /\ UNCHANGED hostVars
      BY <1>3 DEF StrayUp
    <3>3. QED BY <1>0, <3>1, <3>2 DEF Page
  <2>2. Stream' = Stream /\ Size' = Size
    BY <2>1 DEF Stream, Size, IsOpen
  <2>3. QED BY <1>1, <2>1, <2>2 DEF CleanInv
<1>4. ASSUME NEW t \in Transports, Opened(t) PROVE StreamInv'
  <2>1. /\ ready[t] = "connecting" /\ page.transport # t /\ UNCHANGED hostVars
        /\ ready' = [ready EXCEPT ![t] = "open"] /\ clean' = clean
    BY <1>4, OpenedStream
  <2>2. /\ ready'[t] = "open" /\ \A x \in Transports : x # t => ready'[x] = ready[x]
        /\ StreamInv
    BY <1>0, <2>1 DEF CleanInv
  <2>3. CASE /\ page.transport = None
             /\ page' = [page EXCEPT !.transport = t, !.pending = <<>>]
             /\ wire' = [wire EXCEPT ![t] = page.pending]
    <3>1. /\ page'.transport = t /\ page'.contacts = page.contacts
          /\ page'.interrupted = page.interrupted /\ page'.batch = page.batch
      BY <1>0, <2>3 DEF Page
    <3>2. wire'[t] = page.pending /\ \A x \in Transports : x # t => wire'[x] = wire[x]
      BY <1>0, <2>3
    <3>3. Stream = page.pending /\ Size = Len(page.pending)
      BY <2>3 DEF Stream, Size
    <3>4. Stream' = page.pending /\ Size' = Len(page.pending)
      BY <1>0, <2>2, <3>1, <3>2 DEF Stream, Size, IsOpen
    <3>5. \A x \in Transports : x # page'.transport => x # page.transport /\ wire'[x] = wire[x]
      BY <1>0, <2>3, <3>1, <3>2
    <3>6. QED BY <1>1, <2>1, <2>2, <3>1, <3>3, <3>4, <3>5
  <2>4. CASE page.pending = <<>> /\ UNCHANGED <<page, wire>>
    <3>1. Stream' = Stream /\ Size' = Size
      BY <1>0, <2>1, <2>2, <2>4 DEF Stream, Size, IsOpen
    <3>2. QED BY <1>1, <2>1, <2>2, <2>4, <3>1
  <2>5. QED BY <1>4, <2>3, <2>4, OpenedStream
<1>5. ASSUME NEW t \in Transports, Breaks(t) PROVE StreamInv'
  <2>1. /\ ready[t] = "open" /\ ready' = [ready EXCEPT ![t] = "closing"] /\ page' = page
        /\ UNCHANGED hostVars
    BY <1>5 DEF Breaks
  <2>2. clean
    BY <1>5 DEF Breaks
  <2>3. StreamInv /\ serving[t]
    BY <2>2 DEF CleanInv, StreamInv
  <2>4. PICK n \in 0..Len(wire[t]) :
           /\ wire' = [wire EXCEPT ![t] = Append(SubSeq(@, 1, n), End)]
           /\ clean' = (clean /\ n = Len(wire[t]))
    BY <1>5, <2>3 DEF Breaks
  <2>5. wire[t] \in Seq(Packet) /\ n = Len(wire[t]) /\ Len(wire[t]) \in Nat
    <3>1. n = Len(wire[t])
      BY <2>4, Zenon
    <3>2. QED BY <1>0, <3>1
  <2>6. SubSeq(wire[t], 1, Len(wire[t])) = wire[t]
    BY <2>5
  <2>7. /\ wire' = [wire EXCEPT ![t] = Append(wire[t], End)]
    BY <2>4, <2>5, <2>6
  <2>8. /\ wire'[t] = Append(wire[t], End) /\ \A x \in Transports : x # t => wire'[x] = wire[x]
        /\ ready'[t] = "closing" /\ \A x \in Transports : x # t => ready'[x] = ready[x]
    BY <1>0, <2>1, <2>7
  <2>9. /\ Len(Append(wire[t], End)) = Len(wire[t]) + 1
        /\ \A i \in 1..Len(wire[t]) : Append(wire[t], End)[i] = wire[t][i]
    BY <1>0, <2>5
  <2>10. CASE page.transport = t
    <3>1. Stream = wire[t] /\ Size = Len(wire[t])
      BY <1>0, <2>1, <2>10 DEF Stream, Size, IsOpen
    <3>2. Stream' = Append(wire[t], End) /\ Size' = Len(Append(wire[t], End)) - 1
      BY <1>0, <2>1, <2>8, <2>10 DEF Stream, Size, IsOpen
    <3>3. Size' = Size /\ \A i \in 1..Size : Stream'[i] = Stream[i]
      BY <2>5, <2>9, <3>1, <3>2
    <3>4. \A x \in Transports : x # page'.transport => x # page.transport /\ wire'[x] = wire[x]
      BY <2>1, <2>8, <2>10
    <3>5. QED BY <1>1, <2>1, <2>3, <3>3, <3>4
  <2>11. CASE page.transport # t
    <3>1. Stream' = Stream /\ Size' = Size
      BY <1>0, <2>1, <2>8, <2>11 DEF Stream, Size, IsOpen
    <3>2. wire[t] = <<>>
      BY <1>0, <2>1, <2>11 DEF RouteInv
    <3>3. wire'[t] = <<End>>
      BY <2>8, <3>2
    <3>4. \A x \in Transports : wire'[x] = wire[x] \/ wire'[x] = <<End>>
      BY <2>8, <3>3
    <3>5. QED BY <1>1, <2>1, <2>3, <3>1, <3>4
  <2>12. QED BY <2>10, <2>11
<1>6. ASSUME NEW t \in Transports, CloseEvent(t) PROVE StreamInv'
  <2>1. /\ ready' = [ready EXCEPT ![t] = "closed"] /\ wire' = wire /\ UNCHANGED hostVars
        /\ page.transport # t /\ page' = page /\ clean' = clean
    BY <1>6, ClosedPage
  <2>2. \A x \in Transports : x # t => ready'[x] = ready[x]
    BY <1>0, <2>1
  <2>3. Stream' = Stream /\ Size' = Size
    BY <1>0, <2>1, <2>2 DEF Stream, Size, IsOpen
  <2>4. QED BY <1>1, <2>1, <2>3 DEF CleanInv
<1>7. QED BY <1>2, <1>3, <1>4, <1>5, <1>6

\* The host takes a batch.
LEMMA ReceiveClean ==
    ASSUME Base, CountsExact, CleanInv, NEW t \in Transports, Receive(t)
    PROVE  CleanInv'
<1> SUFFICES ASSUME clean' PROVE StreamInv'
  BY DEF CleanInv
<1> DEFINE pk == Head(wire[t])
<1>0. /\ TypeOK /\ RouteInv /\ Ahead(truth.expected, page.batch, page.sample)
      /\ None \notin Transports /\ page.transport \in Transports \cup {None} /\ page.batch \in Nat
  BY PageFields DEF Base, WindowInv
<1>1. /\ wire[t] \in Seq(Packet) /\ Len(wire[t]) \in Nat \ {0}
      /\ wire[t][1] = pk /\ pk # End
      /\ Shape(pk) /\ Within(pk, page.batch, page.sample) /\ InputBatch(pk)
      /\ page' = page /\ ready' = ready /\ serving' = serving /\ clean' = clean
      /\ wire'[t] = Tail(wire[t]) /\ Len(wire'[t]) = Len(wire[t]) - 1
      /\ \A x \in Transports : x # t => wire'[x] = wire[x]
  BY Received
<1>2. /\ truth'.expected.batch = Due(truth.expected.batch, pk.batch, 1)
      /\ truth'.expected.sample = Due(truth.expected.sample, First(pk), Len(pk.samples))
      /\ \A b : Carries(state.active, pk, b) =>
                   state'.active = b /\ counts'.lifecycle = counts.lifecycle
      /\ truth.expected.batch = None \/ truth.expected.batch = pk.batch =>
            counts'.batch = counts.batch
      /\ truth.expected.sample = None \/ truth.expected.sample <= First(pk) =>
            counts'.sample.late = counts.sample.late
  BY <1>0, <1>1, BatchObserved
<1> HIDE DEF pk
<1>3. StreamInv
  BY <1>1 DEF CleanInv
<1>4. page.transport = t
  <2>1. 1 \in 1..Len(wire[t])
    BY <1>1
  <2>2. QED BY <1>1, <1>3, <2>1 DEF StreamInv
<1>5. Stream = wire[t] /\ Stream' = Tail(wire[t])
  BY <1>0, <1>1, <1>4 DEF Stream
<1>6. Size \in Nat \ {0} /\ Size <= Len(wire[t]) /\ Size' = Size - 1
  <2>1. Size \in Nat /\ Size <= Len(wire[t])
    BY <1>3, <1>5, StreamParts DEF StreamInv
  <2>2. CASE IsOpen(t)
    <3>1. Size = Len(wire[t]) /\ Size' = Len(wire'[t])
      BY <1>0, <1>1, <1>4, <1>5, <2>2 DEF Size, IsOpen
    <3>2. QED BY <1>1, <2>1, <3>1
  <2>3. CASE ~IsOpen(t)
    <3>1. Size = Len(wire[t]) - 1 /\ Size' = Len(wire'[t]) - 1
      BY <1>0, <1>1, <1>4, <1>5, <2>3 DEF Size, IsOpen
    <3>2. wire[t][Len(wire[t])] = End
      BY <1>0, <1>3, <1>4, <2>3 DEF RouteInv, StreamInv, IsOpen
    <3>3. Len(wire[t]) # 1
      BY <1>1, <3>2
    <3>4. QED BY <1>1, <2>1, <3>1, <3>3
  <2>4. QED BY <2>2, <2>3
<1>7. Chain(wire[t], Size, page.batch, truth.expected, state.active, page.contacts)
  BY <1>3, <1>5 DEF StreamInv
<1>8. PICK f, now : f = truth'.expected /\ now = state'.active
  OBVIOUS
<1>9. /\ Chain(Tail(wire[t]), Size - 1, page.batch, f, now, page.contacts)
      /\ truth.expected.batch = None \/ truth.expected.batch = pk.batch
      /\ truth.expected.sample = None \/ truth.expected.sample <= First(pk)
      /\ \E d : Carries(state.active, pk, d)
  <2>1. /\ truth.expected.batch = None <=> truth.expected.sample = None
        /\ truth.expected.sample \in Nat \cup {None}
    BY <1>0 DEF Ahead, TypeOK, MetricsType, Expected
  <2>2. PICK e, s, a, c, n, b :
           /\ e = truth.expected /\ s = wire[t] /\ a = state.active /\ c = page.contacts
           /\ n = Size /\ b = page.batch
    OBVIOUS
  <2>3. /\ f.batch = Due(e.batch, s[1].batch, 1)
        /\ f.sample = Due(e.sample, First(s[1]), Len(s[1].samples))
        /\ \A d : Carries(a, s[1], d) => now = d
    BY <1>1, <1>2, <1>8, <2>2
  <2>4. /\ s \in Seq(Packet) /\ n \in Nat \ {0} /\ n <= Len(s) /\ Shape(s[1]) /\ b \in Nat
        /\ Chain(s, n, b, e, a, c) /\ (e.batch = None <=> e.sample = None)
        /\ e.sample \in Nat \cup {None}
    BY <1>0, <1>1, <1>6, <1>7, <2>1, <2>2
  <2>5. /\ Chain(Tail(s), n - 1, b, f, now, c)
        /\ e.batch = None \/ e.batch = s[1].batch
        /\ e.sample = None \/ e.sample <= First(s[1])
        /\ \E d : Carries(a, s[1], d)
    BY <2>3, <2>4, ChainTail
  <2>6. QED BY <1>1, <2>2, <2>5
<1>10. /\ counts'.lifecycle = counts.lifecycle /\ counts'.batch = counts.batch
       /\ counts'.sample.late = counts.sample.late
  BY <1>2, <1>9
<1>11. (Chain(Stream, Size, page.batch, truth.expected, state.active, page.contacts))'
  BY <1>1, <1>5, <1>6, <1>8, <1>9
<1>12. \A x \in Transports : x # page'.transport => \A i \in 1..Len(wire'[x]) : wire'[x][i] = End
  BY <1>1, <1>3, <1>4 DEF StreamInv
<1>13. QED BY <1>1, <1>3, <1>10, <1>11, <1>12 DEF StreamInv

\* CleanInv is invariant, given types, routes and counts.
LEMMA CleanInvariant == Spec => []CleanInv
<1>1. ASSUME Init PROVE CleanInv
  <2>1. /\ page.transport = None /\ page.pending = <<>> /\ page.interrupted = {}
        /\ page.contacts = {} /\ page.batch = 0
        /\ \A t \in Transports : serving[t] /\ wire[t] = <<>>
        /\ state.active = {} /\ truth.expected.batch = None
        /\ counts.batch = [gaps |-> 0, late |-> 0] /\ counts.sample.late = 0
        /\ counts.lifecycle = 0
    BY <1>1 DEF Init
  <2>2. Stream = <<>> /\ Size = 0
    BY <2>1 DEF Stream, Size
  <2>3. Chain(<<>>, 0, 0, truth.expected, {}, {})
    <3> DEFINE path == [i \in 0..0 |-> {}]
    <3>1. path \in [0..0 -> SUBSET Pointers] /\ path[0] = {} /\ 1..0 = {}
      OBVIOUS
    <3> HIDE DEF path
    <3>2. QED BY <2>1, <3>1 DEF Chain
  <2>4. QED BY <2>1, <2>2, <2>3 DEF CleanInv, StreamInv
<1>2. ASSUME Base, CountsExact, CleanInv, [Next]_vars PROVE CleanInv'
  <2>1. CASE UNCHANGED vars
    BY <1>2, <2>1 DEF vars, CleanInv, StreamInv, Stream, Size, IsOpen
  <2>2. CASE HostResets \/ \E t \in Transports : TransportEnds(t) \/ HostEnds(t)
    <3>1. clean' = FALSE
      BY <2>2 DEF HostResets, TransportEnds, HostEnds
    <3>2. QED BY <3>1 DEF CleanInv
  <2>3. QED BY <1>2, <2>1, <2>2, Steps, SendsClean, BrowserClean, ReceiveClean
<1>3. QED BY <1>1, <1>2, BaseInvariant, PTL DEF Spec

\* While nothing is lost and nothing reset, the host counts no batch as missing or late, no
\* sample as late and no contact out of order, whichever transport opens first, whatever was
\* kept before it and however long the batches are.
THEOREM CleanSessionsCountNothing == Spec => []CleanSession
<1>1. CleanInv => CleanSession
  BY DEF CleanInv, StreamInv, CleanSession
<1>2. QED BY <1>1, CleanInvariant, PTL
===============================================================================
