----------------------------- MODULE FramesProofs -----------------------------
(***************************************************************************)
(* Proofs about Frames, for every value of its constants.                  *)
(***************************************************************************)
EXTENDS Frames, FiniteSetTheorems, WellFoundedInduction, TLAPS

(* Surfaces                                                                 *)

\* A set of surfaces that is not empty has a least one.
LEMMA LeastIn == ASSUME NEW S \in SUBSET Nat, S # {} PROVE Least(S) \in S
<1>1. PICK x \in S : \A y \in S : ~(<<y, x>> \in OpToRel(<, Nat))
  BY NatLessThanWellFounded, WFMin
<1>2. ASSUME NEW y \in S PROVE x <= y
  <2>1. x \in Nat /\ y \in Nat /\ <<y, x>> \notin {ss \in Nat \X Nat : ss[1] < ss[2]}
    BY <1>1 DEF OpToRel
  <2>2. QED BY <2>1
<1>3. QED BY <1>2 DEF Least

\* Surfaces and sets of them are finite.
LEMMA FiniteSurfaces ==
    /\ IsFiniteSet(Surfaces) /\ Cardinality(Surfaces) = 2 * MaxInFlight + 5
    /\ Surfaces \subseteq Nat /\ None \notin Surfaces
    /\ \A S \in SUBSET Surfaces : IsFiniteSet(S) /\ Cardinality(S) \in Nat
<1>1. 1 \in Int /\ 2 * MaxInFlight + 5 \in Nat /\ 2 * MaxInFlight + 5 > 1
  BY ConstantsAssumption
<1>2. IsFiniteSet(Surfaces) /\ Cardinality(Surfaces) = 2 * MaxInFlight + 5
  BY <1>1, FS_Interval DEF Surfaces
<1>3. \A S \in SUBSET Surfaces : IsFiniteSet(S) /\ Cardinality(S) \in Nat
  BY <1>2, FS_Subset, FS_CardinalityType
<1>4. Surfaces \subseteq Nat /\ None \notin Surfaces
  BY ConstantsAssumption DEF Surfaces
<1>5. QED BY <1>2, <1>3, <1>4

\* What two sets hold together is no more than what they hold.
LEMMA UnionBound ==
    ASSUME NEW S \in SUBSET Surfaces, NEW T \in SUBSET Surfaces
    PROVE  Cardinality(S \cup T) <= Cardinality(S) + Cardinality(T)
<1>1. IsFiniteSet(S) /\ IsFiniteSet(T) /\ S \cap T \in SUBSET Surfaces
  BY FiniteSurfaces
<1>2. /\ Cardinality(S) \in Nat /\ Cardinality(T) \in Nat /\ Cardinality(S \cap T) \in Nat
  BY <1>1, FiniteSurfaces
<1>3. Cardinality(S \cup T) = Cardinality(S) + Cardinality(T) - Cardinality(S \cap T)
  BY <1>1, FS_Union
<1>4. QED BY <1>2, <1>3

\* One more surface adds at most one to a pool.
LEMMA AddBound ==
    ASSUME NEW S \in SUBSET Surfaces, NEW x \in Surfaces
    PROVE  Cardinality(S \cup {x}) <= Cardinality(S) + 1
<1>1. IsFiniteSet(S) /\ Cardinality(S) \in Nat
  BY FiniteSurfaces
<1>2. QED BY <1>1, FS_AddElement

\* A frame's surface.
LEMMA SurfaceOfFrame ==
    ASSUME NEW f \in Frame \cup {None}
    PROVE  SurfaceOf(f) \in Surfaces \cup {None}
  BY DEF SurfaceOf, Frame

\* What one frame holds.
HeldBy(f) == {SurfaceOf(f)} \ {None}

\* A frame holds at most one surface.
LEMMA HeldByFrame ==
    ASSUME NEW f \in Frame \cup {None}
    PROVE  HeldBy(f) \in SUBSET Surfaces /\ Cardinality(HeldBy(f)) <= 1
<1>1. HeldBy(f) \in SUBSET Surfaces
  BY SurfaceOfFrame DEF HeldBy
<1>2. IsFiniteSet({SurfaceOf(f)}) /\ Cardinality({SurfaceOf(f)}) = 1
  BY FS_Singleton
<1>3. HeldBy(f) \in SUBSET {SurfaceOf(f)}
  BY DEF HeldBy
<1>4. Cardinality(HeldBy(f)) <= 1
  BY <1>2, <1>3, FS_Subset
<1>5. QED BY <1>1, <1>4

\* The frames on their way and the pools keep fewer surfaces alive than there are.
LEMMA RoomForOne ==
    ASSUME TypeOK
    PROVE  /\ Held \in SUBSET Surfaces /\ Held \subseteq Alive
           /\ Surfaces \ Alive # {}
<1> USE ConstantsAssumption
<1> DEFINE A == HeldBy(slot.frame)     B == HeldBy(prep.frame)
           C == HeldBy(prepared.frame) D == HeldBy(coder.frame)
           P == IF processor = None THEN {} ELSE processor.pool.surfaces
           Q == captures.surfaces
<1>1. /\ slot.frame \in Frame \cup {None} /\ prepared.frame \in Frame \cup {None}
      /\ prep.frame \in Frame \cup {None} /\ coder.frame \in Frame \cup {None}
  BY DEF TypeOK, SlotType, PrepType, CoderType, Slot, Thread
<1>2. Held = (A \cup B) \cup (C \cup D)
  BY DEF Held, HeldBy
<1>3. /\ A \in SUBSET Surfaces /\ B \in SUBSET Surfaces
      /\ C \in SUBSET Surfaces /\ D \in SUBSET Surfaces
      /\ Cardinality(A) <= 1 /\ Cardinality(B) <= 1
      /\ Cardinality(C) <= 1 /\ Cardinality(D) <= 1
  BY <1>1, HeldByFrame
<1>4. Q \in SUBSET Surfaces /\ Cardinality(Q) <= MaxInFlight
  BY DEF TypeOK, CaptureType, Pool
<1>5. P \in SUBSET Surfaces /\ Cardinality(P) <= MaxInFlight
  BY FS_EmptySet DEF TypeOK, PrepType, Processors, Pool
<1>6. A \cup B \in SUBSET Surfaces /\ Cardinality(A \cup B) <= Cardinality(A) + Cardinality(B)
  BY <1>3, UnionBound
<1>7. C \cup D \in SUBSET Surfaces /\ Cardinality(C \cup D) <= Cardinality(C) + Cardinality(D)
  BY <1>3, UnionBound
<1>8. /\ Held \in SUBSET Surfaces
      /\ Cardinality(Held) <= Cardinality(A \cup B) + Cardinality(C \cup D)
  BY <1>2, <1>6, <1>7, UnionBound
<1>9. /\ Held \cup Q \in SUBSET Surfaces
      /\ Cardinality(Held \cup Q) <= Cardinality(Held) + Cardinality(Q)
  BY <1>4, <1>8, UnionBound
<1>10. /\ (Held \cup Q) \cup P \in SUBSET Surfaces
       /\ Cardinality((Held \cup Q) \cup P) <= Cardinality(Held \cup Q) + Cardinality(P)
  BY <1>5, <1>9, UnionBound
<1>11. Alive = (Held \cup Q) \cup P
  BY DEF Alive
<1>12. Cardinality(Alive) <= 2 * MaxInFlight + 4
  <2>1. /\ Cardinality(A) \in Nat /\ Cardinality(B) \in Nat /\ Cardinality(C) \in Nat
        /\ Cardinality(D) \in Nat /\ Cardinality(A \cup B) \in Nat
        /\ Cardinality(C \cup D) \in Nat /\ Cardinality(Held) \in Nat
        /\ Cardinality(Held \cup Q) \in Nat /\ Cardinality(P) \in Nat /\ Cardinality(Q) \in Nat
        /\ Cardinality((Held \cup Q) \cup P) \in Nat
    BY <1>3, <1>4, <1>5, <1>6, <1>7, <1>8, <1>9, <1>10, FiniteSurfaces
  <2>2. Cardinality(Held) <= 4
    BY <1>3, <1>6, <1>7, <1>8, <2>1
  <2>3. Cardinality((Held \cup Q) \cup P) <= 4 + MaxInFlight + MaxInFlight
    BY <1>4, <1>5, <1>9, <1>10, <2>1, <2>2
  <2>4. QED BY <1>11, <2>3
<1>13. Alive # Surfaces
  BY <1>12, FiniteSurfaces
<1>14. QED BY <1>8, <1>10, <1>11, <1>13

\* GpuSurfacePool::acquire of the pool of a stage returns a surface nobody holds, if
\* it returns one, and keeps the pool within MAX_IN_FLIGHT_SURFACES.
LEMMA Acquiring ==
    ASSUME TypeOK, NEW pool \in Pool, Cardinality(pool.surfaces) <= MaxInFlight,
           NEW size \in Sizes
    PROVE  LET got == Acquire(pool, size) IN
           /\ got.pool \in Pool /\ Cardinality(got.pool.surfaces) <= MaxInFlight
           /\ got.surface \in (Surfaces \cup {None}) \ Held
<1> USE ConstantsAssumption
<1> DEFINE own  == IF pool.key = size THEN pool.surfaces ELSE {}
           free == own \ Held
           new  == Least(Surfaces \ Alive)
           got  == Acquire(pool, size)
<1>1. own \in SUBSET Surfaces /\ Cardinality(own) <= MaxInFlight /\ Cardinality(own) \in Nat
  BY FS_EmptySet, FiniteSurfaces DEF Pool
<1>2. new \in Surfaces \ Alive /\ new \notin Held
  BY RoomForOne, LeastIn, FiniteSurfaces
<1>3. None \notin Held
  BY DEF Held
<1>4. CASE free # {}
  <2>1. Least(free) \in free
    BY <1>1, <1>4, LeastIn, FiniteSurfaces
  <2>2. got = [pool |-> [key |-> size, surfaces |-> own], surface |-> Least(free)]
    BY <1>4 DEF Acquire
  <2>3. QED BY <1>1, <2>1, <2>2 DEF Pool
<1>5. CASE free = {} /\ Cardinality(own) >= MaxInFlight
  <2>1. got = [pool |-> [key |-> size, surfaces |-> own], surface |-> None]
    BY <1>5 DEF Acquire
  <2>2. QED BY <1>1, <1>3, <2>1 DEF Pool
<1>6. CASE free = {} /\ ~(Cardinality(own) >= MaxInFlight)
  <2>1. got = [pool |-> [key |-> size, surfaces |-> own \cup {new}], surface |-> new]
    BY <1>6 DEF Acquire
  <2>2. own \cup {new} \in SUBSET Surfaces /\ Cardinality(own \cup {new}) <= Cardinality(own) + 1
    BY <1>1, <1>2, AddBound
  <2>3. Cardinality(own \cup {new}) \in Nat
    BY <2>2, FiniteSurfaces
  <2> HIDE DEF own, new, got
  <2>4. Cardinality(own \cup {new}) <= MaxInFlight
    BY <1>1, <1>6, <2>2, <2>3
  <2>5. got.pool \in Pool /\ got.pool.surfaces = own \cup {new} /\ got.surface = new
    BY <2>1, <2>2 DEF Pool
  <2>6. QED BY <1>2, <2>4, <2>5 DEF got
<1>7. QED BY <1>4, <1>5, <1>6

-----------------------------------------------------------------------------
(* VideoEncoder::encode                                                     *)

\* What an encode call returns: the encoder there is afterwards and the calls that
\* failed.
Results == [enc : Encoder \cup {None}, failures : Nat]
\* d begins anew, or goes on as e did.
Anew(d) == d.fresh /\ ~d.force
Continued(e, d) == d.fresh = e.fresh /\ d.force = e.force
\* An instance that is in use was built for the size of its configuration.
Fits(e) == ~e.disabled => e.size = e.config

\* The fields of an encoder and of a result.
LEMMA EncoderFields ==
    ASSUME NEW e \in Encoder
    PROVE  /\ e.mode \in Modes /\ e.fresh \in BOOLEAN /\ e.force \in BOOLEAN
           /\ e.d3d \in BOOLEAN /\ e.disabled \in BOOLEAN
           /\ e.config \in Sizes /\ e.size \in Sizes /\ e # None
  BY ConstantsAssumption DEF Encoder

\* A result has the encoder and the failures it was made of.
LEMMA ResultType ==
    ASSUME NEW e \in Encoder \cup {None}, NEW n \in Nat
    PROVE  Result(e, n) \in Results /\ Result(e, n).enc = e /\ Result(e, n).failures = n
  BY DEF Result, Results

\* An instance built anew.
LEMMA RebuiltEncoder ==
    ASSUME NEW e \in Encoder, NEW f \in Frame, NEW d3d \in BOOLEAN
    PROVE  LET d == Rebuilt(e, f, d3d) IN
           /\ d \in Encoder /\ d.mode = e.mode /\ Anew(d) /\ d.disabled = e.disabled
           /\ d.size = d.config /\ d.config = f.size /\ d.d3d = d3d
<1>1. f.size \in Sizes
  BY DEF Frame
<1>2. QED BY <1>1 DEF Rebuilt, Encoder, Anew

\* A failed call before changes only the count.
LEMMA AfterResults ==
    ASSUME NEW X \in SUBSET Results, NEW r \in After(1, X)
    PROVE  r \in Results /\ \E x \in X : r.enc = x.enc
<1>1. PICK x \in X : r = [x EXCEPT !.failures = x.failures + 1]
  BY DEF After
<1>2. x \in Results
  BY <1>1
<1>3. r \in Results /\ r.enc = x.enc
  BY <1>1, <1>2 DEF Results
<1>4. QED BY <1>1, <1>3

\* GPU-assisted encoding, and the encoding of a frame in system memory, which
\* rebuild for a keyframe, a new size or another memory path.
LEMMA AssistedResults ==
    ASSUME NEW e \in Encoder, NEW f \in Frame, NEW r \in Assisted(e, f) \cup EncodeI420(e, f)
    PROVE  /\ r \in Results
           /\ r.enc # None =>
                \/ r.enc = e /\ ~e.force
                \/ /\ Anew(r.enc) /\ r.enc.mode = e.mode /\ r.enc.size = r.enc.config
                   /\ r.enc.disabled = e.disabled
<1> DEFINE d == Rebuilt(e, f, FALSE)
<1>1. /\ d \in Encoder /\ d.mode = e.mode /\ Anew(d) /\ d.disabled = e.disabled
      /\ d.size = d.config
  BY RebuiltEncoder
<1>2. \/ r = Result(None, 1) \/ r = Result(d, 0) \/ (r = Result(e, 0) /\ ~e.force)
  BY DEF Assisted, EncodeI420, Readback, EncodeSample, Rebuild
<1>3. CASE r = Result(None, 1)
  BY <1>3, ResultType
<1>4. CASE r = Result(d, 0)
  <2>1. r \in Results /\ r.enc = d
    BY <1>1, <1>4, ResultType
  <2>2. QED BY <1>1, <2>1
<1>5. CASE r = Result(e, 0) /\ ~e.force
  BY <1>5, ResultType
<1>6. QED BY <1>2, <1>3, <1>4, <1>5

\* The encoder after an encode() that made a packet has the same mode and, unless
\* it began anew, has not been asked for a keyframe that it ignored; while direct
\* input is on it was built for the size it is configured for.
Outcome(e, r) ==
    /\ r \in Results
    /\ r.enc # None =>
         /\ r.enc \in Encoder /\ r.enc.mode = e.mode /\ (Fits(e) => Fits(r.enc))
         /\ \/ e.mode # "H264Software" /\ Anew(r.enc)
            \/ Continued(e, r.enc) /\ (e.mode # "H264Software" => ~e.force)

\* The readback path of a hardware encoder has these outcomes.
LEMMA OutcomeI420 ==
    ASSUME NEW e \in Encoder, e.mode # "H264Software", NEW f \in Frame,
           NEW r \in Assisted(e, f) \cup EncodeI420(e, f)
    PROVE  Outcome(e, r)
<1>1. r \in Results
  BY AssistedResults
<1>2. r.enc # None => r.enc \in Encoder
  BY <1>1 DEF Results
<1>3. CASE r.enc = e /\ ~e.force
  BY <1>1, <1>2, <1>3 DEF Outcome, Continued
<1>4. CASE /\ Anew(r.enc) /\ r.enc.mode = e.mode /\ r.enc.size = r.enc.config
  BY <1>1, <1>2, <1>4 DEF Outcome, Fits
<1>5. CASE r.enc = None
  BY <1>1, <1>5 DEF Outcome
<1>6. QED BY <1>3, <1>4, <1>5, AssistedResults

\* ... after direct input was given up on the way, d being what it was tried with.
LEMMA OutcomeGivenUp ==
    ASSUME NEW e \in Encoder, e.mode # "H264Software", NEW f \in Frame,
           NEW d \in Encoder, d.mode = e.mode, d.disabled = TRUE,
           Anew(d) \/ Continued(e, d),
           NEW r \in After(1, Assisted(d, f))
    PROVE  Outcome(e, r)
<1>0. Assisted(d, f) \in SUBSET Results
  BY AssistedResults
<1>1. r \in Results /\ \E x \in Assisted(d, f) : r.enc = x.enc
  BY <1>0, AfterResults
<1>2. PICK x \in Assisted(d, f) : r.enc = x.enc
  BY <1>1
<1>3. r.enc # None => r.enc \in Encoder
  BY <1>1 DEF Results
<1>4. CASE r.enc = d /\ ~d.force
  <2>1. ~Fits(d) => FALSE
    BY <1>4 DEF Fits
  <2>2. d.force = e.force \/ Anew(d)
    BY DEF Continued
  <2>3. QED BY <1>1, <1>3, <1>4, <2>1, <2>2 DEF Outcome, Continued
<1>5. CASE /\ Anew(r.enc) /\ r.enc.mode = d.mode /\ r.enc.size = r.enc.config
  BY <1>1, <1>3, <1>5 DEF Outcome, Fits
<1>6. CASE r.enc = None
  BY <1>1, <1>6 DEF Outcome
<1>7. QED BY <1>2, <1>4, <1>5, <1>6, AssistedResults

\* The Direct3D path has the same outcomes, its fallback to the readback path included.
LEMMA OutcomeGpu ==
    ASSUME NEW e \in Encoder, e.mode # "H264Software", NEW f \in Frame,
           NEW r \in EncodeGpu(e, f)
    PROVE  Outcome(e, r)
<1> DEFINE off == [e EXCEPT !.disabled = TRUE, !.config = f.size]
           d == Rebuilt(e, f, TRUE)
           dOff == [d EXCEPT !.disabled = TRUE]
           eOff == [e EXCEPT !.disabled = TRUE]
<1>0. f.size \in Sizes
  BY DEF Frame
<1>1. CASE e.disabled
  BY <1>1, OutcomeI420 DEF EncodeGpu
<1>2. /\ off \in Encoder /\ off.mode = e.mode /\ off.disabled = TRUE /\ Continued(e, off)
      /\ eOff \in Encoder /\ eOff.mode = e.mode /\ eOff.disabled = TRUE /\ Continued(e, eOff)
  BY <1>0 DEF Encoder, Continued
<1>3. d \in Encoder /\ d.mode = e.mode /\ Anew(d) /\ d.size = d.config
  BY RebuiltEncoder
<1>4. dOff \in Encoder /\ dOff.mode = e.mode /\ dOff.disabled = TRUE /\ Anew(dOff)
  BY <1>3 DEF Encoder, Anew
<1>5. CASE ~e.disabled /\ (e.force \/ f.size # e.config \/ ~e.d3d)
  <2>1. \/ r = Result(d, 0) \/ r \in After(1, Assisted(dOff, f))
        \/ r \in After(1, Assisted(off, f))
    BY <1>5 DEF EncodeGpu
  <2>2. CASE r = Result(d, 0)
    <3>1. r \in Results /\ r.enc = d
      BY <1>3, <2>2, ResultType
    <3>2. QED BY <1>3, <3>1 DEF Outcome, Fits
  <2>3. CASE r \in After(1, Assisted(dOff, f))
    BY <1>4, <2>3, OutcomeGivenUp
  <2>4. CASE r \in After(1, Assisted(off, f))
    BY <1>2, <2>4, OutcomeGivenUp
  <2>5. QED BY <2>1, <2>2, <2>3, <2>4
<1>6. CASE ~e.disabled /\ ~(e.force \/ f.size # e.config \/ ~e.d3d)
  <2>1. r = Result(e, 0) \/ r \in After(1, Assisted(eOff, f))
    BY <1>6 DEF EncodeGpu
  <2>2. CASE r = Result(e, 0)
    <3>1. r \in Results /\ r.enc = e
      BY <2>2, ResultType
    <3>2. QED BY <1>6, <3>1 DEF Outcome, Continued
  <2>3. CASE r \in After(1, Assisted(eOff, f))
    BY <1>2, <2>3, OutcomeGivenUp
  <2>4. QED BY <2>1, <2>2, <2>3
<1>7. QED BY <1>1, <1>5, <1>6

\* What encode() leaves of any encoder that is given any frame.
LEMMA EncodeOutcome ==
    ASSUME NEW e \in Encoder, NEW f \in Frame, NEW r \in Encode(e, f)
    PROVE  Outcome(e, r)
<1>1. CASE e.mode # "H264Software" /\ f.gpu
  BY <1>1, OutcomeGpu DEF Encode
<1>2. CASE e.mode # "H264Software" /\ ~f.gpu
  BY <1>2, OutcomeI420 DEF Encode
<1>3. CASE e.mode = "H264Software"
  <2> DEFINE d == [e EXCEPT !.config = f.size, !.size = f.size]
  <2>1. f.size \in Sizes
    BY DEF Frame
  <2>2. d \in Encoder /\ d.mode = e.mode /\ Continued(e, d) /\ d.size = d.config
    BY <2>1 DEF Encoder, Continued
  <2>3. r = Result(None, 1) \/ r = Result(None, 0) \/ r = Result(d, 0)
    BY <1>3 DEF Encode, EncodeOpenH264
  <2>4. CASE r = Result(None, 1) \/ r = Result(None, 0)
    <3>1. r \in Results /\ r.enc = None
      BY <2>4, ResultType
    <3>2. QED BY <3>1 DEF Outcome
  <2>5. CASE r = Result(d, 0)
    <3>1. r \in Results /\ r.enc = d
      BY <2>2, <2>5, ResultType
    <3>2. QED BY <1>3, <2>2, <3>1 DEF Outcome, Fits
  <2>6. QED BY <2>3, <2>4, <2>5
<1>4. QED BY <1>1, <1>2, <1>3

-----------------------------------------------------------------------------
(* Types                                                                    *)

\* Frames, slots and threads that the steps make.
LEMMA FrameTypes ==
    /\ \A size \in Sizes : CpuFrame(size) \in Frame
    /\ \A size \in Sizes, s \in Surfaces : GpuFrame(size, s) \in Frame
    /\ \A s \in Slot, f \in Frame : Submit(s, f) \in Slot
    /\ \A s \in Slot : /\ [s EXCEPT !.frame = None] \in Slot
                       /\ [s EXCEPT !.stopped = TRUE] \in Slot
                       /\ s.frame \in Frame \cup {None}
    /\ Empty \in Slot
    /\ NoPool \in Pool /\ NoPool.surfaces = {} /\ Cardinality(NoPool.surfaces) <= MaxInFlight
<1> USE ConstantsAssumption
<1>1. /\ \A size \in Sizes : CpuFrame(size) \in Frame
      /\ \A size \in Sizes, s \in Surfaces : GpuFrame(size, s) \in Frame
  BY DEF CpuFrame, GpuFrame, Frame
<1>2. \A s \in Slot, f \in Frame : Submit(s, f) \in Slot
  BY DEF Submit, Slot
<1>3. /\ \A s \in Slot : /\ [s EXCEPT !.frame = None] \in Slot
                         /\ [s EXCEPT !.stopped = TRUE] \in Slot
                         /\ s.frame \in Frame \cup {None}
      /\ Empty \in Slot
  BY DEF Slot, Empty
<1>4. NoPool \in Pool /\ NoPool.surfaces = {} /\ Cardinality(NoPool.surfaces) <= MaxInFlight
  BY FS_EmptySet DEF NoPool, Pool
<1>5. QED BY <1>1, <1>2, <1>3, <1>4

\* A thread with nothing in its hands.
Empties(t) == t.frame = None /\ t.sel = None /\ t.intact = TRUE

\* A thread that starts, waits or ends has empty hands.
LEMMA IdleThread ==
    /\ Idle \in Thread /\ Idle.at = "none" /\ Empties(Idle)
    /\ \A a \in {"none", "take", "work", "make", "encode", "join", "done"} :
          LET t == [Idle EXCEPT !.at = a] IN t \in Thread /\ t.at = a /\ Empties(t)
  BY DEF Idle, Thread, Empties

\* A thread whose surface may be overwritten has the same frame.
LEMMA OverwriteType ==
    ASSUME NEW t \in Thread, NEW s
    PROVE  /\ Overwrite(t, s) \in Thread /\ Overwrite(t, s).at = t.at
           /\ Overwrite(t, s).frame = t.frame /\ Overwrite(t, s).sel = t.sel
           /\ t.intact /\ SurfaceOf(t.frame) # s => Overwrite(t, s).intact
  BY DEF Overwrite, Thread

\* The fields of a thread, a selection and a processor.
LEMMA ThreadFields ==
    ASSUME NEW t \in Thread
    PROVE  /\ t.at \in {"none", "take", "work", "make", "encode", "join", "done"}
           /\ t.frame \in Frame \cup {None} /\ t.sel \in Selection \cup {None}
           /\ t.intact \in BOOLEAN
  BY DEF Thread

\* The fields of a selection and of a frame.
LEMMA SelectionFields ==
    /\ \A s \in Selection : s.mode \in Modes /\ s.generation \in 0..MaxGeneration /\ s # None
    /\ \A f \in Frame : f.size \in Sizes /\ f # None /\ f.gpu \in BOOLEAN
  BY ConstantsAssumption DEF Selection, Frame

\* A failure that happens is counted.
LEMMA UpsetType == ASSUME upsets \in 0..MaxUpsets, Upset PROVE upsets' \in 0..MaxUpsets
  BY ConstantsAssumption DEF Upset

\* Several failures that happen are counted.
LEMMA SpendType ==
    ASSUME upsets \in 0..MaxUpsets, NEW n \in Nat, Spend(n) PROVE upsets' \in 0..MaxUpsets
  BY ConstantsAssumption DEF Spend

\* The size that leaves the preprocessing thread, and its processor.
LEMMA OutputType ==
    ASSUME TypeOK, NEW f \in Frame
    PROVE  /\ OutputSize(f.size) \in Sizes
           /\ Processor(f) \in Processors
           /\ Cardinality(Processor(f).pool.surfaces) <= MaxInFlight
<1>1. f.size \in Sizes /\ live.width \in Sizes
  BY SelectionFields DEF TypeOK, SharedType
<1>2. OutputSize(f.size) \in Sizes
  BY <1>1 DEF OutputSize
<1>3. CASE processor # None /\ processor.in = f.size /\ processor.out = OutputSize(f.size)
  BY <1>2, <1>3 DEF Processor, TypeOK, PrepType
<1>4. CASE ~(processor # None /\ processor.in = f.size /\ processor.out = OutputSize(f.size))
  <2> DEFINE x == [in |-> f.size, out |-> OutputSize(f.size), pool |-> NoPool]
  <2>1. x \in Processors /\ x.pool = NoPool
    BY <1>1, <1>2, FrameTypes DEF Processors
  <2>2. Processor(f) = x
    BY <1>4 DEF Processor
  <2>3. QED BY <1>2, <2>1, <2>2, FrameTypes
<1>5. QED BY <1>3, <1>4

\* The surface that the capture callback or the preprocessing thread acquires.
LEMMA ArrivedGot ==
    ASSUME TypeOK
    PROVE  LET got == Acquire(captures, display) IN
           /\ got.pool \in Pool /\ Cardinality(got.pool.surfaces) <= MaxInFlight
           /\ got.surface \in (Surfaces \cup {None}) \ Held
<1>1. captures \in Pool /\ Cardinality(captures.surfaces) <= MaxInFlight /\ display \in Sizes
  BY DEF TypeOK, CaptureType, SharedType
<1>2. QED BY <1>1, Acquiring

\* The surface that the preprocessing thread gets is nobody else's.
LEMMA PreparedGot ==
    ASSUME TypeOK, NEW f \in Frame
    PROVE  LET got == Acquire(Processor(f).pool, OutputSize(f.size)) IN
           /\ got.pool \in Pool /\ Cardinality(got.pool.surfaces) <= MaxInFlight
           /\ got.surface \in (Surfaces \cup {None}) \ Held
<1>1. Processor(f).pool \in Pool
  BY OutputType DEF Processors
<1>2. QED BY <1>1, OutputType, Acquiring

\* The sources keep the types.
LEMMA SourceTypes ==
    ASSUME TypeOK, Source \/ CaptureClosed \/ CaptureFails \/ DisplayChanges
    PROVE  TypeOK'
<1> USE DEF TypeOK
<1>1. CASE FrameArrivedGpu
  <2> DEFINE got == Acquire(captures, display)
  <2>1. /\ got.pool \in Pool /\ Cardinality(got.pool.surfaces) <= MaxInFlight
        /\ got.surface \in Surfaces \cup {None}
    BY ArrivedGot
  <2> HIDE DEF got
  <2>2. /\ captures' = got.pool
        /\ UNCHANGED <<sharedVars, asked, manager, source, gpuOff, prepared, processor,
                       failedAt, coderVars, upsets>>
        /\ \/ /\ got.surface # None
              /\ slot' = Submit(slot, GpuFrame(display, got.surface))
              /\ prep' = Overwrite(prep, got.surface)
           \/ got.surface = None /\ UNCHANGED <<slot, prep>>
    BY <1>1 DEF FrameArrivedGpu, got
  <2>3. SlotType'
    BY <2>1, <2>2, FrameTypes DEF SlotType, SharedType
  <2>4. PrepType'
    <3>1. prep \in Thread
      BY DEF PrepType
    <3>2. prep' \in Thread /\ prep'.at = prep.at /\ prep'.frame = prep.frame /\ prep'.sel = prep.sel
      BY <2>2, <3>1, OverwriteType
    <3>3. QED BY <2>2, <3>2 DEF PrepType
  <2>5. QED BY <2>1, <2>2, <2>3, <2>4
        DEF SharedType, sharedVars, CaptureType, CoderType, coderVars
<1>2. CASE FrameArrivedCpu
  <2>1. slot' \in Slot
    BY <1>2, FrameTypes DEF FrameArrivedCpu, SlotType, SharedType
  <2>2. upsets' \in 0..MaxUpsets /\ gpuOff' \in BOOLEAN
    BY <1>2, UpsetType DEF FrameArrivedCpu, SharedType, CaptureType
  <2>3. QED BY <1>2, <2>1, <2>2 DEF FrameArrivedCpu, SharedType, sharedVars, CaptureType,
        SlotType, PrepType, prepVars, CoderType, coderVars
<1>3. CASE CaptureClosed
  <2>1. slot' \in Slot
    BY <1>3, FrameTypes DEF CaptureClosed, SlotType
  <2>2. upsets' \in 0..MaxUpsets
    BY <1>3, UpsetType DEF CaptureClosed, SharedType
  <2>3. QED BY <1>3, <2>1, <2>2 DEF CaptureClosed, SharedType, sharedVars, CaptureType,
        SlotType, PrepType, prepVars, CoderType, coderVars
<1>4. CASE CaptureFails
  <2>1. upsets' \in 0..MaxUpsets
    BY <1>4, UpsetType DEF CaptureFails, SharedType
  <2>2. QED BY <1>4, <2>1 DEF CaptureFails, SharedType, sharedVars, CaptureType,
        SlotType, PrepType, prepVars, CoderType, coderVars
<1>5. CASE DisplayChanges
  <2>1. upsets' \in 0..MaxUpsets /\ display' \in Sizes
    BY <1>5, UpsetType DEF DisplayChanges, SharedType
  <2>2. QED BY <1>5, <2>1 DEF DisplayChanges, SharedType, CaptureType, captureVars,
        SlotType, PrepType, prepVars, CoderType, coderVars
<1>6. CASE PatternCheck
  BY <1>6 DEF PatternCheck, SharedType, sharedVars, CaptureType,
        SlotType, PrepType, prepVars, CoderType, coderVars
<1>7. CASE PatternSubmit
  <2>1. slot' \in Slot
    BY <1>7, FrameTypes DEF PatternSubmit, SlotType, SharedType
  <2>2. QED BY <1>7, <2>1 DEF PatternSubmit, SharedType, sharedVars, CaptureType,
        SlotType, PrepType, prepVars, CoderType, coderVars
<1>8. QED BY <1>1, <1>2, <1>3, <1>4, <1>5, <1>6, <1>7 DEF Source

\* The preprocessing thread keeps the types.
LEMMA PrepTypes == ASSUME TypeOK, Prep PROVE TypeOK'
<1> USE DEF TypeOK
<1>0. prep \in Thread /\ slot \in Slot /\ prepared \in Slot /\ pipeline \in Selection
  BY DEF PrepType, SlotType, SharedType
<1>1. CASE PrepTake
  <2>1. /\ slot.frame \in Frame /\ slot' \in Slot /\ pipeline # None /\ slot.frame # None
    BY <1>0, <1>1, FrameTypes, SelectionFields DEF PrepTake
  <2>2. prep' \in Thread /\ prep'.frame = slot.frame /\ prep'.sel = pipeline
    BY <1>0, <1>1, <2>1 DEF PrepTake, Thread
  <2>3. QED BY <1>1, <2>1, <2>2 DEF PrepTake, SharedType, sharedVars, CaptureType,
        captureVars, SlotType, PrepType, CoderType, coderVars
<1>2. CASE PrepEnd
  <2>1. prep' \in Thread /\ prep'.at = "done" /\ prepared' \in Slot
    BY <1>0, <1>2, IdleThread, FrameTypes DEF PrepEnd
  <2>2. QED BY <1>2, <2>1 DEF PrepEnd, SharedType, sharedVars, CaptureType,
        captureVars, SlotType, PrepType, CoderType, coderVars
<1>3. ASSUME PrepGpu \/ PrepCpu \/ PrepFails
      PROVE  /\ prep.frame \in Frame /\ OutputSize(prep.frame.size) \in Sizes
             /\ prep.sel \in Selection /\ prep.sel.generation \in 0..MaxGeneration
             /\ prep' \in Thread /\ prep'.at = "take"
  <2>1. prep.at = "work" /\ prep' = [Idle EXCEPT !.at = "take"]
    BY <1>3 DEF PrepGpu, PrepCpu, PrepFails
  <2>2. prep.frame \in Frame /\ prep.sel \in Selection
    BY <1>0, <2>1, ThreadFields DEF PrepType
  <2>3. QED BY <2>1, <2>2, OutputType, SelectionFields, IdleThread
<1>4. CASE PrepGpu
  <2> DEFINE f   == prep.frame
             got == Acquire(Processor(f).pool, OutputSize(f.size))
  <2>1. /\ got.pool \in Pool /\ Cardinality(got.pool.surfaces) <= MaxInFlight
        /\ got.surface \in Surfaces \cup {None}
    BY <1>3, <1>4, PreparedGot
  <2> HIDE DEF got
  <2>2. /\ processor' = [Processor(f) EXCEPT !.pool = got.pool]
        /\ UNCHANGED <<sharedVars, asked, captureVars, slot, failedAt, generation, enc, upsets>>
        /\ \/ /\ got.surface # None
              /\ prepared' = Submit(prepared, GpuFrame(OutputSize(f.size), got.surface))
              /\ coder' = Overwrite(coder, got.surface)
           \/ got.surface = None /\ UNCHANGED <<prepared, coder>>
    BY <1>4 DEF PrepGpu, got
  <2>3. SlotType'
    BY <1>0, <1>3, <1>4, <2>1, <2>2, FrameTypes DEF SlotType
  <2>4. CoderType'
    <3>1. coder \in Thread
      BY DEF CoderType
    <3>2. /\ coder' \in Thread /\ coder'.at = coder.at /\ coder'.frame = coder.frame
          /\ coder'.sel = coder.sel
      BY <2>2, <3>1, OverwriteType
    <3>3. QED BY <2>2, <3>2 DEF CoderType
  <2>5. PrepType'
    <3>1. Processor(f) \in Processors
      BY <1>3, <1>4, OutputType
    <3>2. processor' \in Processors /\ processor'.pool = got.pool
      BY <2>1, <2>2, <3>1 DEF Processors
    <3>3. QED BY <1>3, <1>4, <2>1, <2>2, <3>2 DEF PrepType
  <2>6. QED BY <2>2, <2>3, <2>4, <2>5
        DEF SharedType, sharedVars, CaptureType, captureVars
<1>5. CASE PrepCpu
  <2>1. prepared' \in Slot
    BY <1>0, <1>3, <1>5, FrameTypes DEF PrepCpu
  <2>2. /\ upsets' \in 0..MaxUpsets /\ failedAt' \in 0..MaxGeneration \cup {None}
        /\ processor' \in {processor, None}
    BY <1>3, <1>5, UpsetType DEF PrepCpu, SharedType, PrepType
  <2>3. QED BY <1>3, <1>5, <2>1, <2>2 DEF PrepCpu, SharedType, sharedVars, CaptureType,
        captureVars, SlotType, PrepType, CoderType, coderVars
<1>6. CASE PrepFails
  <2>1. /\ upsets' \in 0..MaxUpsets /\ failedAt' \in 0..MaxGeneration \cup {None}
        /\ processor' \in {processor, None}
    BY <1>3, <1>6, UpsetType DEF PrepFails, SharedType, PrepType
  <2>2. QED BY <1>3, <1>6, <2>1 DEF PrepFails, SharedType, sharedVars, CaptureType,
        captureVars, SlotType, PrepType, CoderType, coderVars
<1>7. QED BY <1>1, <1>2, <1>4, <1>5, <1>6 DEF Prep

\* What a step that sends a packet leaves of the encoder.
SendsWith(d, key) ==
    /\ d \in Encoder /\ key \in BOOLEAN /\ (d.fresh \/ d.force => key)
    /\ enc' = [d EXCEPT !.fresh = FALSE, !.force = @ /\ ~key]
    /\ enc' \in Encoder /\ enc'.mode = enc.mode /\ enc'.fresh = FALSE
    /\ enc'.force = (d.force /\ ~key) /\ (Fits(enc) => Fits(enc'))
    /\ \/ enc.mode # "H264Software" /\ Anew(d)
       \/ Continued(enc, d) /\ (enc.mode # "H264Software" => ~enc.force)

\* An encode call that yields a packet is one of SendsWith.
LEMMA CoderSendsWith ==
    ASSUME TypeOK, CoderSends
    PROVE  enc \in Encoder /\ upsets' \in 0..MaxUpsets /\ \E d, key : SendsWith(d, key)
<1>0. enc \in Encoder /\ coder.frame \in Frame
  BY ThreadFields DEF CoderSends, TypeOK, CoderType
<1>1. PICK r \in Encode(enc, coder.frame), key \in BOOLEAN :
          /\ r.enc # None /\ Spend(r.failures)
          /\ (r.enc.fresh \/ r.enc.force) => key
          /\ enc' = [r.enc EXCEPT !.fresh = FALSE, !.force = @ /\ ~key]
  BY DEF CoderSends
<1>2. Outcome(enc, r)
  BY <1>0, EncodeOutcome
<1>3. r.failures \in Nat
  BY <1>2 DEF Outcome, Results
<1>4. upsets' \in 0..MaxUpsets
  BY <1>1, <1>3, SpendType DEF TypeOK, SharedType
<1> DEFINE d == r.enc
<1>5. /\ d \in Encoder /\ d.mode = enc.mode /\ (Fits(enc) => Fits(d))
      /\ \/ enc.mode # "H264Software" /\ Anew(d)
         \/ Continued(enc, d) /\ (enc.mode # "H264Software" => ~enc.force)
  BY <1>1, <1>2 DEF Outcome
<1>6. d.force \in BOOLEAN /\ (d.fresh \/ d.force => key)
  BY <1>1, <1>5, EncoderFields
<1> HIDE DEF d
<1>7. enc' = [d EXCEPT !.fresh = FALSE, !.force = @ /\ ~key]
  BY <1>1 DEF d
<1>8. /\ enc' \in Encoder /\ enc'.mode = d.mode /\ enc'.fresh = FALSE
      /\ enc'.force = (d.force /\ ~key)
      /\ enc'.disabled = d.disabled /\ enc'.size = d.size /\ enc'.config = d.config
  BY <1>5, <1>6, <1>7 DEF Encoder
<1>9. Fits(enc) => Fits(enc')
  BY <1>5, <1>8 DEF Fits
<1>10. SendsWith(d, key)
  BY <1>5, <1>6, <1>7, <1>8, <1>9 DEF SendsWith
<1>11. QED BY <1>0, <1>4, <1>10

\* The encoder that a step of the thread goes on with: the one there is, or one
\* made for the selection and the size of the frame.
MakesWith(e, due) ==
    /\ e \in Encoder /\ due \in BOOLEAN /\ e = (IF enc = None THEN Created ELSE enc)
    /\ enc = None => e.mode = coder.sel.mode /\ Anew(e) /\ Fits(e)
    /\ (due => e.mode = "H264Software" /\ ~e.fresh)
    /\ enc' \in Encoder /\ enc'.mode = e.mode /\ enc'.fresh = e.fresh
    /\ enc'.force = (e.force \/ asked \/ due) /\ (Fits(e) => Fits(enc'))

\* An encoder that is made or kept is one of MakesWith.
LEMMA CoderMakesWith ==
    ASSUME TypeOK, CoderMake
    PROVE  coder.sel \in Selection /\ \E e, due : MakesWith(e, due)
<1>0. coder.frame \in Frame /\ coder.sel \in Selection /\ asked \in BOOLEAN
  BY ThreadFields DEF CoderMake, TypeOK, CoderType, SharedType
<1> DEFINE e == IF enc = None THEN Created ELSE enc
<1>1. PICK due \in BOOLEAN : /\ due => e.mode = "H264Software" /\ ~e.fresh
                             /\ enc' = [e EXCEPT !.force = @ \/ asked \/ due]
  BY DEF CoderMake
<1>2. Created \in Encoder /\ Created.mode = coder.sel.mode /\ Anew(Created) /\ Fits(Created)
  BY <1>0, SelectionFields DEF Created, Encoder, Anew, Fits
<1>3. e \in Encoder /\ (enc = None => e.mode = coder.sel.mode /\ Anew(e) /\ Fits(e))
  BY <1>2 DEF TypeOK, CoderType
<1>4. e = (IF enc = None THEN Created ELSE enc)
  OBVIOUS
<1> HIDE DEF e
<1>5. e.force \in BOOLEAN
  BY <1>3, EncoderFields
<1>6. /\ enc' \in Encoder /\ enc'.mode = e.mode /\ enc'.fresh = e.fresh
      /\ enc'.force = (e.force \/ asked \/ due)
      /\ enc'.disabled = e.disabled /\ enc'.size = e.size /\ enc'.config = e.config
  BY <1>0, <1>1, <1>3, <1>5 DEF Encoder
<1>7. MakesWith(e, due)
  BY <1>1, <1>3, <1>4, <1>6 DEF MakesWith, Fits
<1>8. QED BY <1>0, <1>7

\* The encoder thread keeps the types.
LEMMA CoderTypes == ASSUME TypeOK, Coder PROVE TypeOK'
<1> USE DEF TypeOK
<1>0. /\ coder \in Thread /\ prepared \in Slot /\ pipeline \in Selection
      /\ pipeline.generation \in 0..MaxGeneration
  BY SelectionFields DEF CoderType, SlotType, SharedType
<1>1. CASE CoderTake
  <2>1. /\ prepared.frame \in Frame /\ prepared' \in Slot
        /\ pipeline # None /\ prepared.frame # None
    BY <1>0, <1>1, FrameTypes, SelectionFields DEF CoderTake
  <2>2. /\ coder' \in Thread /\ coder'.at = "make" /\ coder'.frame = prepared.frame
        /\ coder'.sel = pipeline
    BY <1>0, <1>1, <2>1 DEF CoderTake, Thread
  <2>3. CoderType'
    BY <1>0, <1>1, <2>1, <2>2 DEF CoderTake, CoderType
  <2>4. QED BY <1>1, <2>1, <2>3 DEF CoderTake, SharedType, sharedVars, CaptureType,
        captureVars, SlotType, PrepType, prepVars
<1>2. CASE CoderMake
  <2>1. enc' \in Encoder /\ enc' # None
    BY <1>2, CoderMakesWith, EncoderFields DEF MakesWith
  <2>2. /\ coder' \in Thread /\ coder'.frame = coder.frame /\ coder'.sel = coder.sel
        /\ coder.at = "make"
    BY <1>0, <1>2 DEF CoderMake, Thread
  <2>3. CoderType'
    BY <1>2, <2>1, <2>2 DEF CoderMake, CoderType
  <2>4. /\ UNCHANGED <<sharedVars, captureVars, slot, prepared, prepVars, generation, upsets>>
        /\ asked' = FALSE
    BY <1>2 DEF CoderMake
  <2>5. SharedType' /\ SlotType'
    BY <2>4 DEF SharedType, sharedVars, SlotType
  <2>6. CaptureType'
    BY <2>4 DEF CaptureType, captureVars
  <2>7. PrepType'
    BY <2>4 DEF PrepType, prepVars
  <2>8. QED BY <2>3, <2>5, <2>6, <2>7
<1>3. ASSUME \/ CoderMakeFails \/ CoderSends \/ CoderSkips \/ CoderFails \/ CoderEnd
             \/ CoderJoin
      PROVE  coder' \in Thread /\ coder'.at \in {"take", "join", "done"}
  BY <1>3, IdleThread DEF CoderMakeFails, CoderSends, CoderSkips, CoderFails, CoderEnd,
     CoderJoin
<1>4. CASE CoderMakeFails
  <2>1. upsets' \in 0..MaxUpsets
    BY <1>4, UpsetType DEF CoderMakeFails, SharedType
  <2>2. QED BY <1>3, <1>4, <2>1 DEF CoderMakeFails, SharedType, sharedVars, CaptureType,
        captureVars, SlotType, PrepType, prepVars, CoderType
<1>5. CASE CoderSends
  <2>1. enc' \in Encoder /\ upsets' \in 0..MaxUpsets
    BY <1>5, CoderSendsWith DEF SendsWith
  <2>2. UNCHANGED <<sharedVars, asked, captureVars, slot, prepared, prepVars, generation>>
    BY <1>5 DEF CoderSends
  <2>3. QED BY <1>3, <1>5, <2>1, <2>2 DEF SharedType, sharedVars, CaptureType,
        captureVars, SlotType, PrepType, prepVars, CoderType
<1>6. CASE CoderSkips
  <2>1. enc \in Encoder /\ coder.frame \in Frame
    BY <1>0, <1>6, ThreadFields DEF CoderSkips, CoderType
  <2>2. coder.frame.size \in Sizes
    BY <2>1, SelectionFields
  <2>3. enc' \in Encoder
    BY <1>6, <2>1, <2>2 DEF CoderSkips, Encoder
  <2>4. upsets' \in 0..MaxUpsets
    BY <1>6, UpsetType DEF CoderSkips, SharedType
  <2>5. QED BY <1>3, <1>6, <2>3, <2>4 DEF CoderSkips, SharedType, sharedVars, CaptureType,
        captureVars, SlotType, PrepType, prepVars, CoderType
<1>7. CASE CoderFails
  <2>1. enc \in Encoder /\ coder.frame \in Frame
    BY <1>0, <1>7, ThreadFields DEF CoderFails, CoderType
  <2>2. PICK r \in Encode(enc, coder.frame) : Spend(r.failures)
    BY <1>7 DEF CoderFails
  <2>3. r.failures \in Nat
    BY <2>1, EncodeOutcome DEF Outcome, Results
  <2>4. upsets' \in 0..MaxUpsets
    BY <2>2, <2>3, SpendType DEF SharedType
  <2>5. QED BY <1>3, <1>7, <2>4 DEF CoderFails, SharedType, sharedVars, CaptureType,
        captureVars, SlotType, PrepType, prepVars, CoderType
<1>8. CASE CoderEnd
  BY <1>3, <1>8 DEF CoderEnd, SharedType, sharedVars, CaptureType,
        captureVars, SlotType, PrepType, prepVars, CoderType
<1>9. CASE CoderJoin
  BY <1>3, <1>9 DEF CoderJoin, SharedType, sharedVars, CaptureType,
        captureVars, SlotType, PrepType, prepVars, CoderType
<1>10. QED BY <1>1, <1>2, <1>4, <1>5, <1>6, <1>7, <1>8, <1>9 DEF Coder

\* So do the calls of the capture manager, ...
LEMMA ManagerTypes ==
    ASSUME TypeOK,
           \/ \E b \in BOOLEAN : Spawn(b)
           \/ StartSource \/ StartFails \/ StopControl \/ Stopping
    PROVE  TypeOK'
<1> USE DEF TypeOK
<1>1. ASSUME NEW b \in BOOLEAN, Spawn(b) PROVE TypeOK'
  <2>1. upsets' \in 0..MaxUpsets
    BY <1>1, UpsetType DEF Spawn, SharedType
  <2>2. /\ prep' \in Thread /\ prep'.at \in {"take", "none"}
        /\ coder' \in Thread /\ coder'.at \in {"take", "done"}
    BY <1>1, IdleThread DEF Spawn
  <2>3. slot' \in Slot /\ prepared' \in Slot
    BY <1>1, FrameTypes DEF Spawn
  <2>4. QED BY <1>1, <2>1, <2>2, <2>3 DEF Spawn, SharedType, sharedVars, CaptureType,
        SlotType, PrepType, CoderType
<1>2. CASE StartSource
  BY <1>2 DEF StartSource, SharedType, sharedVars, CaptureType,
        SlotType, PrepType, prepVars, CoderType, coderVars
<1>3. CASE StartFails
  <2>1. slot' \in Slot
    BY <1>3, FrameTypes DEF StartFails, SlotType
  <2>2. upsets' \in 0..MaxUpsets
    BY <1>3, UpsetType DEF StartFails, SharedType
  <2>3. QED BY <1>3, <2>1, <2>2 DEF StartFails, SharedType, sharedVars, CaptureType,
        SlotType, PrepType, prepVars, CoderType, coderVars
<1>4. CASE StopControl
  BY <1>4, FrameTypes DEF StopControl, SharedType, sharedVars, CaptureType,
        SlotType, PrepType, prepVars, CoderType, coderVars
<1>5. CASE StopSlot
  <2>1. slot' \in Slot
    BY <1>5, FrameTypes DEF StopSlot, SlotType
  <2>2. QED BY <1>5, <2>1 DEF StopSlot, SharedType, sharedVars, CaptureType,
        SlotType, PrepType, prepVars, CoderType, coderVars
<1>6. CASE JoinProducer
  BY <1>6 DEF JoinProducer, SharedType, sharedVars, CaptureType,
        SlotType, PrepType, prepVars, CoderType, coderVars
<1>7. CASE JoinEncoder
  <2>1. prep' \in Thread /\ prep'.at = "none" /\ coder' \in Thread /\ coder'.at = "none"
    BY <1>7, IdleThread DEF JoinEncoder
  <2>2. QED BY <1>7, <2>1 DEF JoinEncoder, SharedType, sharedVars, CaptureType,
        SlotType, PrepType, CoderType
<1>8. QED BY <1>1, <1>2, <1>3, <1>4, <1>5, <1>6, <1>7 DEF Stopping

\* ... the settings and the requests.
LEMMA SettingsTypes ==
    ASSUME TypeOK, applying # None => pipeline.generation < MaxGeneration,
           \/ \E m \in Modes, w \in Sizes : ApplyLive(m, w)
           \/ ApplyPipeline \/ RequestKeyframe
    PROVE  TypeOK'
<1> USE DEF TypeOK
<1>1. ASSUME NEW m \in Modes, NEW w \in Sizes, ApplyLive(m, w) PROVE TypeOK'
  <2>1. live' \in [hardware : BOOLEAN, width : Sizes]
    BY <1>1 DEF ApplyLive, RequiresHardware
  <2>2. QED BY <1>1, <2>1 DEF ApplyLive, SharedType, CaptureType, captureVars,
        SlotType, PrepType, prepVars, CoderType, coderVars
<1>2. CASE ApplyPipeline
  <2>1. pipeline \in Selection /\ pipeline.generation \in 0..MaxGeneration /\ applying \in Modes
    BY <1>2, SelectionFields DEF ApplyPipeline, SharedType
  <2>2. pipeline' \in Selection
    BY <1>2, <2>1, ConstantsAssumption DEF ApplyPipeline, Selection
  <2>3. QED BY <1>2, <2>2 DEF ApplyPipeline, SharedType, CaptureType, captureVars,
        SlotType, PrepType, prepVars, CoderType, coderVars
<1>3. CASE RequestKeyframe
  BY <1>3 DEF RequestKeyframe, SharedType, sharedVars, CaptureType, captureVars,
        SlotType, PrepType, prepVars, CoderType, coderVars
<1>4. QED BY <1>1, <1>2, <1>3

\* What the types rest on besides: a selection is about to be published only if
\* there is a generation for it; the encoder thread has a selection only while it
\* works on a frame, and there is no such thread before start and after stop.
ThreadInv ==
    /\ applying # None => pipeline.generation < MaxGeneration
    /\ coder.at \notin {"make", "encode"} => coder.sel = None
    /\ manager = "idle" => coder.at = "none"

\* The program starts with the types and with idle threads.
LEMMA Initial == Init => TypeOK /\ ThreadInv
<1> SUFFICES ASSUME Init PROVE TypeOK /\ ThreadInv
  OBVIOUS
<1> USE ConstantsAssumption
<1>1. SharedType
  <2>1. PICK m \in Modes : /\ pipeline = [generation |-> 0, mode |-> m]
                          /\ live = [hardware |-> RequiresHardware(m), width |-> StartWidth]
    BY DEF Init
  <2>2. pipeline \in Selection
    BY <2>1 DEF Selection
  <2>3. live \in [hardware : BOOLEAN, width : Sizes]
    BY <2>1 DEF RequiresHardware
  <2>4. display \in Sizes /\ applying = None /\ asked = FALSE /\ upsets = 0
    BY DEF Init
  <2>5. 0 \in 0..MaxUpsets
    OBVIOUS
  <2>6. QED BY <2>2, <2>3, <2>4, <2>5 DEF SharedType
<1>2. CaptureType /\ SlotType
  BY FrameTypes DEF Init, CaptureType, SlotType
<1>3. PrepType /\ CoderType
  BY IdleThread DEF Init, PrepType, CoderType
<1>4. ThreadInv
  BY IdleThread DEF Init, ThreadInv, Empties
<1>5. QED BY <1>1, <1>2, <1>3, <1>4 DEF TypeOK

\* Every step keeps what the threads hold at each place.
LEMMA ThreadStep == TypeOK /\ ThreadInv /\ [Next]_vars => ThreadInv'
<1> SUFFICES ASSUME TypeOK, ThreadInv, [Next]_vars PROVE ThreadInv'
  OBVIOUS
<1> USE ConstantsAssumption
<1>0. coder \in Thread
  BY DEF TypeOK, CoderType
<1>1. CASE /\ UNCHANGED <<applying, pipeline, manager>>
           /\ \/ coder' = coder
              \/ \E s : coder' = Overwrite(coder, s)
              \/ coder.at # "none" /\ coder'.at \in {"make", "encode"}
              \/ coder.at # "none" /\ coder'.sel = None
  <2>1. CASE \/ coder' = coder
             \/ \E s : coder' = Overwrite(coder, s)
    BY <1>0, <1>1, <2>1, OverwriteType DEF ThreadInv
  <2>2. QED BY <1>1, <2>1 DEF ThreadInv
<1>2. CASE Source \/ CaptureClosed \/ CaptureFails \/ DisplayChanges
  BY <1>1, <1>2 DEF Source, FrameArrivedGpu, FrameArrivedCpu, PatternCheck, PatternSubmit,
     CaptureClosed, CaptureFails, DisplayChanges, sharedVars, captureVars, coderVars
<1>3. CASE PrepTake \/ PrepEnd \/ PrepCpu \/ PrepFails \/ RequestKeyframe \/ UNCHANGED vars
  BY <1>1, <1>3 DEF PrepTake, PrepEnd, PrepCpu, PrepFails, RequestKeyframe, vars,
     sharedVars, captureVars, coderVars
<1>4. CASE PrepGpu
  BY <1>1, <1>4 DEF PrepGpu, sharedVars, captureVars
<1>5. CASE CoderTake \/ CoderMake
  <2>1. coder.at # "none" /\ coder'.at \in {"make", "encode"}
    BY <1>0, <1>5 DEF CoderTake, CoderMake, Thread
  <2>2. UNCHANGED <<applying, pipeline, manager>>
    BY <1>5 DEF CoderTake, CoderMake, sharedVars, captureVars
  <2>3. QED BY <1>1, <2>1, <2>2
<1>6. CASE \/ CoderMakeFails \/ CoderSends \/ CoderSkips \/ CoderFails \/ CoderEnd
           \/ CoderJoin
  <2>1. coder.at # "none" /\ \E a \in {"take", "join", "done"} : coder' = [Idle EXCEPT !.at = a]
    BY <1>6 DEF CoderMakeFails, CoderSends, CoderSkips, CoderFails, CoderEnd, CoderJoin
  <2>2. coder'.sel = None
    BY <2>1, IdleThread DEF Empties
  <2>3. UNCHANGED <<applying, pipeline, manager>>
    BY <1>6 DEF CoderMakeFails, CoderSends, CoderSkips, CoderFails, CoderEnd, CoderJoin,
       sharedVars, captureVars
  <2>4. QED BY <1>1, <2>1, <2>2, <2>3
<1>7. ASSUME NEW b \in BOOLEAN, Spawn(b) PROVE ThreadInv'
  <2>1. coder'.sel = None
    BY <1>7, IdleThread DEF Spawn, Empties
  <2>2. QED BY <1>7, <2>1 DEF Spawn, ThreadInv, sharedVars
<1>8. CASE StartSource \/ StartFails \/ StopControl \/ StopSlot \/ JoinProducer
  BY <1>8 DEF StartSource, StartFails, StopControl, StopSlot, JoinProducer, ThreadInv,
     sharedVars, coderVars
<1>9. CASE JoinEncoder
  BY <1>9, IdleThread DEF JoinEncoder, ThreadInv, Empties, sharedVars
<1>10. ASSUME NEW m \in Modes, NEW w \in Sizes, ApplyLive(m, w) PROVE ThreadInv'
  BY <1>10 DEF ApplyLive, ThreadInv, captureVars, coderVars
<1>11. CASE ApplyPipeline
  BY <1>11 DEF ApplyPipeline, ThreadInv, captureVars, coderVars
<1>12. QED BY <1>2, <1>3, <1>4, <1>5, <1>6, <1>7, <1>8, <1>9, <1>10, <1>11
       DEF Next, Prep, Coder, Stopping

\* Every step keeps the types, the bound on the surfaces of a pool included.
LEMMA TypeStep == TypeOK /\ ThreadInv /\ [Next]_vars => TypeOK'
<1> SUFFICES ASSUME TypeOK, ThreadInv, [Next]_vars PROVE TypeOK'
  OBVIOUS
<1>1. CASE UNCHANGED vars
  BY <1>1 DEF TypeOK, SharedType, CaptureType, SlotType, PrepType, CoderType, vars,
     sharedVars, captureVars, prepVars, coderVars
<1>2. CASE Next
  BY <1>2, SourceTypes, PrepTypes, CoderTypes, ManagerTypes, SettingsTypes
  DEF Next, ThreadInv
<1>3. QED BY <1>1, <1>2

\* The threads of the frame pipeline keep their types: neither pool ever has more
\* surfaces than MAX_IN_FLIGHT_SURFACES, and no thread works without the frame,
\* the selection and the encoder that its step needs.
THEOREM TypeCorrect == Spec => [](TypeOK /\ ThreadInv)
  BY Initial, ThreadStep, TypeStep, PTL DEF Spec

-----------------------------------------------------------------------------
(* No frame is overwritten while it is read                                 *)

\* No step overwrites a surface that another thread reads.
LEMMA IntactStep == TypeOK /\ Intact /\ [Next]_vars => Intact'
<1> SUFFICES ASSUME TypeOK, Intact, [Next]_vars PROVE Intact'
  OBVIOUS
<1>0. /\ prep \in Thread /\ coder \in Thread
      /\ SurfaceOf(prep.frame) \in Held \cup {None}
      /\ SurfaceOf(coder.frame) \in Held \cup {None}
  BY DEF TypeOK, PrepType, CoderType, Held
<1>1. ASSUME NEW s \in (Surfaces \cup {None}) \ Held, s # None
      PROVE  Overwrite(prep, s).intact /\ Overwrite(coder, s).intact
  BY <1>0, <1>1, OverwriteType DEF Intact
<1>2. CASE FrameArrivedGpu
  <2> DEFINE s == Acquire(captures, display).surface
  <2>1. s \in (Surfaces \cup {None}) \ Held
    BY ArrivedGot
  <2> HIDE DEF s
  <2>2. \/ s # None /\ prep' = Overwrite(prep, s)
        \/ prep' = prep
    BY <1>2 DEF FrameArrivedGpu, s
  <2>3. QED BY <1>1, <1>2, <2>1, <2>2 DEF FrameArrivedGpu, Intact, coderVars
<1>3. CASE PrepGpu
  <2> DEFINE s == Acquire(Processor(prep.frame).pool, OutputSize(prep.frame.size)).surface
  <2>0. prep.frame \in Frame
    BY <1>0, <1>3, ThreadFields DEF PrepGpu, TypeOK, PrepType
  <2>1. s \in (Surfaces \cup {None}) \ Held
    BY <2>0, PreparedGot
  <2> HIDE DEF s
  <2>2. /\ \/ s # None /\ coder' = Overwrite(coder, s)
           \/ coder' = coder
        /\ prep' = [Idle EXCEPT !.at = "take"]
    BY <1>3 DEF PrepGpu, s
  <2>3. QED BY <1>1, <2>1, <2>2, IdleThread DEF Intact, Empties
<1>4. CASE \/ FrameArrivedCpu \/ PatternCheck \/ PatternSubmit \/ CaptureClosed
           \/ CaptureFails \/ DisplayChanges \/ StartSource \/ StartFails \/ StopControl
           \/ StopSlot \/ JoinProducer \/ ApplyPipeline \/ RequestKeyframe \/ UNCHANGED vars
           \/ \E m \in Modes, w \in Sizes : ApplyLive(m, w)
  <2>1. UNCHANGED <<prep, coder>>
    BY <1>4 DEF FrameArrivedCpu, PatternCheck, PatternSubmit, CaptureClosed, CaptureFails,
       DisplayChanges, StartSource, StartFails, StopControl, StopSlot, JoinProducer,
       ApplyPipeline, RequestKeyframe, ApplyLive, vars, prepVars, coderVars
  <2>2. QED BY <2>1 DEF Intact
<1>5. CASE PrepTake \/ PrepEnd \/ PrepCpu \/ PrepFails
  <2>1. UNCHANGED coder
    BY <1>5 DEF PrepTake, PrepEnd, PrepCpu, PrepFails, coderVars
  <2>2. prep'.intact
    <3>1. CASE PrepTake
      BY <3>1 DEF PrepTake
    <3>2. CASE PrepEnd \/ PrepCpu \/ PrepFails
      <4>1. \E a \in {"take", "done"} : prep' = [Idle EXCEPT !.at = a]
        BY <3>2 DEF PrepEnd, PrepCpu, PrepFails
      <4>2. QED BY <4>1, IdleThread DEF Empties
    <3>3. QED BY <1>5, <3>1, <3>2
  <2>3. QED BY <2>1, <2>2 DEF Intact
<1>6. CASE CoderTake \/ CoderMake
  <2>1. UNCHANGED prep
    BY <1>6 DEF CoderTake, CoderMake, prepVars
  <2>2. coder'.intact
    BY <1>0, <1>6 DEF CoderTake, CoderMake, Intact, Thread
  <2>3. QED BY <2>1, <2>2 DEF Intact
<1>7. CASE \/ CoderMakeFails \/ CoderSends \/ CoderSkips \/ CoderFails \/ CoderEnd
           \/ CoderJoin
  <2>1. UNCHANGED prep /\ \E a \in {"take", "join", "done"} : coder' = [Idle EXCEPT !.at = a]
    BY <1>7 DEF CoderMakeFails, CoderSends, CoderSkips, CoderFails, CoderEnd, CoderJoin,
       prepVars
  <2>2. QED BY <2>1, IdleThread DEF Intact, Empties
<1>8. ASSUME NEW b \in BOOLEAN, Spawn(b) PROVE Intact'
  BY <1>8, IdleThread DEF Spawn, Intact, Empties
<1>9. CASE JoinEncoder
  BY <1>9, IdleThread DEF JoinEncoder, Intact, Empties
<1>10. QED BY <1>2, <1>3, <1>4, <1>5, <1>6, <1>7, <1>8, <1>9
       DEF Next, Source, Prep, Coder, Stopping

\* A pool never hands out a surface that a frame on its way still lives in, so no
\* stage has what it reads overwritten, however pools are emptied, refilled and
\* replaced.
THEOREM FramesIntact == Spec => []Intact
<1>1. Init => Intact
  BY IdleThread DEF Init, Intact, Empties
<1>2. QED BY <1>1, IntactStep, TypeCorrect, PTL DEF Spec

-----------------------------------------------------------------------------
(* The encoder and the size it was built for                                *)

\* The steps that leave the encoder alone.
LEMMA EncoderKept ==
    ASSUME [Next]_vars, ~Coder
    PROVE  UNCHANGED <<generation, enc>>
<1>1. CASE Source \/ CaptureClosed \/ CaptureFails \/ DisplayChanges
  BY <1>1 DEF Source, FrameArrivedGpu, FrameArrivedCpu, PatternCheck, PatternSubmit,
     CaptureClosed, CaptureFails, DisplayChanges, coderVars
<1>2. CASE Prep
  BY <1>2 DEF Prep, PrepTake, PrepEnd, PrepGpu, PrepCpu, PrepFails, coderVars
<1>3. CASE \/ \E b \in BOOLEAN : Spawn(b)
           \/ StartSource \/ StartFails \/ StopControl \/ Stopping
  BY <1>3 DEF Spawn, StartSource, StartFails, StopControl, Stopping, StopSlot, JoinProducer,
     JoinEncoder, coderVars
<1>4. CASE \/ \E m \in Modes, w \in Sizes : ApplyLive(m, w)
           \/ ApplyPipeline \/ RequestKeyframe \/ UNCHANGED vars
  BY <1>4 DEF ApplyLive, ApplyPipeline, RequestKeyframe, vars, coderVars
<1>5. QED BY <1>1, <1>2, <1>3, <1>4 DEF Next

\* Every rebuild, fallback and failure leaves an instance in use that fits its
\* configuration.
LEMMA BuiltStep == TypeOK /\ BuiltForSize /\ [Next]_vars => BuiltForSize'
<1> SUFFICES ASSUME TypeOK, BuiltForSize, [Next]_vars PROVE BuiltForSize'
  OBVIOUS
<1>0. enc # None => enc \in Encoder /\ Fits(enc)
  BY DEF BuiltForSize, Fits, TypeOK, CoderType
<1>1. CASE enc' = None \/ enc' = enc
  BY <1>1 DEF BuiltForSize
<1>2. CASE CoderMake
  <2>1. PICK e, due : MakesWith(e, due)
    BY <1>2, CoderMakesWith
  <2>2. Fits(e)
    BY <1>0, <2>1 DEF MakesWith
  <2>3. Fits(enc')
    BY <2>1, <2>2 DEF MakesWith
  <2>4. QED BY <2>3 DEF BuiltForSize, Fits
<1>3. CASE CoderSends
  <2>1. enc \in Encoder /\ enc # None
    BY <1>3, CoderSendsWith, EncoderFields
  <2>2. Fits(enc')
    BY <1>0, <1>3, <2>1, CoderSendsWith DEF SendsWith
  <2>3. QED BY <2>2 DEF BuiltForSize, Fits
<1>4. CASE CoderSkips
  <2>1. enc \in Encoder
    BY <1>0, <1>4 DEF CoderSkips, TypeOK, CoderType
  <2>2. enc'.size = enc'.config
    BY <1>4, <2>1 DEF CoderSkips, Encoder
  <2>3. QED BY <2>2 DEF BuiltForSize
<1>5. CASE CoderTake \/ CoderMakeFails \/ CoderFails \/ CoderEnd \/ CoderJoin
  BY <1>1, <1>5 DEF CoderTake, CoderMakeFails, CoderFails, CoderEnd, CoderJoin
<1>6. CASE ~Coder
  BY <1>1, <1>6, EncoderKept
<1>7. QED BY <1>2, <1>3, <1>4, <1>5, <1>6 DEF Coder

\* Through every rebuild, failed rebuild, fallback and change of the picture, an
\* encoder that may be given surfaces directly was built for its configured size.
THEOREM EncoderBuiltForSize == Spec => []BuiltForSize
<1>1. Init => BuiltForSize
  BY DEF Init, BuiltForSize
<1>2. QED BY <1>1, BuiltStep, TypeCorrect, PTL DEF Spec

-----------------------------------------------------------------------------
(* The encoder thread implements the one of Playout                         *)

\* What Playout sees of the encoder thread.
Stage == IF coder.at \in {"make", "encode"} THEN coder.at ELSE "take"
View(e) == IF e = None THEN None
           ELSE [mode |-> e.mode, instance |-> 0, fresh |-> e.fresh, force |-> e.force]

\* What Playout sees of an encoder is an encoder of Playout.
LEMMA ViewType ==
    ASSUME NEW e \in Encoder
    PROVE  View(e) \in EncoderThread!Encoder /\ View(e) # None
<1>1. /\ e # None /\ e.mode \in Modes /\ e.fresh \in BOOLEAN /\ e.force \in BOOLEAN
      /\ 0 \in EncoderThread!Identities
  BY EncoderFields DEF EncoderThread!Identities
<1>2. View(e) \in EncoderThread!Encoder
  BY <1>1 DEF View, EncoderThread!Encoder
<1>3. QED BY <1>2, RefinementAssumption

\* The initial states are Playout's.
LEMMA RefinesInit == Init => EncoderThread!Init
<1> SUFFICES ASSUME Init PROVE EncoderThread!Init
  OBVIOUS
<1>1. pipeline \in [generation : {0}, mode : Modes]
  BY DEF Init
<1>2. coder.at = "none" /\ coder.sel = None
  BY IdleThread DEF Init, Empties
<1>3. QED BY <1>1, <1>2 DEF Init, EncoderThread!Init

\* The steps of the encoder thread, one by one.
LEMMA RefinesTake == ASSUME TypeOK, ThreadInv, CoderTake PROVE EncoderThread!Take
<1>1. coder'.at = "make" /\ coder'.sel = pipeline
  BY DEF CoderTake
<1>2. QED BY <1>1 DEF CoderTake, sharedVars, EncoderThread!Take

\* Making or keeping an encoder is the step of that name.
LEMMA RefinesMake == ASSUME TypeOK, CoderMake PROVE EncoderThread!Make
<1>0. coder \in Thread /\ coder.at = "make"
  BY DEF CoderMake, TypeOK, CoderType
<1>1. coder'.at = "encode" /\ coder'.sel = coder.sel
  BY <1>0 DEF CoderMake, Thread
<1>2. PICK e, due : MakesWith(e, due)
  BY CoderMakesWith
<1> DEFINE v == [mode |-> e.mode, instance |-> 0, fresh |-> e.fresh, force |-> e.force]
<1>3. v \in IF View(enc) # None THEN {View(enc)}
            ELSE [mode : {coder.sel.mode}, instance : EncoderThread!Identities,
                  fresh : {TRUE}, force : {FALSE}]
  <2>1. CASE enc # None
    <3>1. e = enc /\ View(enc) = v
      BY <1>2, <2>1 DEF MakesWith, View
    <3>2. View(enc) # None
      BY <1>2, <2>1, <3>1, ViewType DEF MakesWith
    <3>3. QED BY <3>1, <3>2
  <2>2. CASE enc = None
    <3>1. e.mode = coder.sel.mode /\ e.fresh = TRUE /\ e.force = FALSE
      BY <1>2, <2>2, EncoderFields DEF MakesWith, Anew
    <3>2. 0 \in EncoderThread!Identities
      BY DEF EncoderThread!Identities
    <3>3. QED BY <2>2, <3>1, <3>2 DEF View
  <2>3. QED BY <2>1, <2>2
<1>4. View(enc') = [v EXCEPT !.force = @ \/ asked \/ due]
  <2>1. enc' # None
    BY <1>2, EncoderFields DEF MakesWith
  <2>2. QED BY <1>2, <2>1 DEF MakesWith, View
<1>5. due \in {FALSE} \cup {v.mode = "H264Software" /\ ~v.fresh}
  BY <1>2 DEF MakesWith
<1>6. asked' = FALSE /\ UNCHANGED <<pipeline, generation>>
  BY DEF CoderMake, sharedVars
<1>7. EncoderThread!Make
  <2> HIDE DEF v
  <2>1. \E x \in IF View(enc) # None THEN {View(enc)}
                 ELSE [mode : {coder.sel.mode}, instance : EncoderThread!Identities,
                       fresh : {TRUE}, force : {FALSE}] :
           \E y \in {FALSE} \cup {x.mode = "H264Software" /\ ~x.fresh} :
              View(enc') = [x EXCEPT !.force = @ \/ asked \/ y]
    BY <1>3, <1>4, <1>5
  <2>2. QED BY <1>0, <1>1, <1>6, <2>1 DEF View, EncoderThread!Make
<1>8. QED BY <1>7

\* An encoder that cannot be made is the step of that name.
LEMMA RefinesMakeFails ==
    ASSUME TypeOK, CoderMakeFails PROVE EncoderThread!MakeFails
<1>1. coder'.at = "take" /\ coder'.sel = None
  BY IdleThread DEF CoderMakeFails, Empties
<1>2. QED BY <1>1 DEF CoderMakeFails, sharedVars, EncoderThread!MakeFails

\* An encode call that yields a packet sends it in Playout.
LEMMA RefinesSends == ASSUME TypeOK, CoderSends PROVE EncoderThread!Sends
<1>0. coder.at = "encode" /\ coder'.at = "take" /\ coder'.sel = None
  BY IdleThread DEF CoderSends, Empties
<1>1. enc \in Encoder /\ enc # None
  BY CoderSendsWith, EncoderFields
<1>2. PICK d, key : SendsWith(d, key)
  BY CoderSendsWith
<1>3. d \in Encoder /\ d # None /\ key \in BOOLEAN
  BY <1>2, EncoderFields DEF SendsWith
<1>4. View(d) \in EncoderThread!Encoding(View(enc))
  <2>1. d.mode = enc.mode
    <3>1. enc'.mode = d.mode
      BY <1>2, <1>3 DEF SendsWith, Encoder
    <3>2. QED BY <1>2, <3>1 DEF SendsWith
  <2>2. CASE enc.mode # "H264Software" /\ Anew(d)
    <3>1. d.fresh = TRUE /\ d.force = FALSE
      BY <1>3, <2>2, EncoderFields DEF Anew
    <3>2. 0 \in EncoderThread!Identities
      BY DEF EncoderThread!Identities
    <3>3. QED BY <1>1, <1>3, <2>1, <2>2, <3>1, <3>2 DEF View, EncoderThread!Encoding
  <2>3. CASE Continued(enc, d) /\ (enc.mode # "H264Software" => ~enc.force)
    <3>1. View(d) = View(enc)
      BY <1>1, <1>3, <2>1, <2>3 DEF View, Continued
    <3>2. View(enc).mode = enc.mode /\ View(enc).force = enc.force
      BY <1>1 DEF View
    <3>3. QED BY <2>3, <3>1, <3>2 DEF EncoderThread!Encoding
  <2>4. QED BY <1>2, <2>2, <2>3 DEF SendsWith
<1>5. (View(d).fresh \/ View(d).force) => key
  BY <1>2, <1>3 DEF SendsWith, View
<1>6. View(enc') = [View(d) EXCEPT !.fresh = FALSE, !.force = @ /\ ~key]
  <2>1. enc' # None /\ enc'.mode = d.mode
    BY <1>2, <1>3, EncoderFields DEF SendsWith, Encoder
  <2> DEFINE x == View(enc')
             y == [View(d) EXCEPT !.fresh = FALSE, !.force = @ /\ ~key]
  <2>2. /\ x \in EncoderThread!Encoder /\ x.mode = enc'.mode /\ x.instance = 0
        /\ x.fresh = FALSE /\ x.force = (d.force /\ ~key)
    BY <1>2, <2>1, ViewType DEF SendsWith, View
  <2>3. /\ View(d) \in EncoderThread!Encoder /\ View(d).mode = d.mode
        /\ View(d).instance = 0 /\ View(d).force = d.force
    BY <1>3, ViewType DEF View
  <2>4. /\ y \in EncoderThread!Encoder /\ y.mode = View(d).mode
        /\ y.instance = View(d).instance /\ y.fresh = FALSE /\ y.force = (View(d).force /\ ~key)
    BY <1>3, <2>3 DEF EncoderThread!Encoder
  <2> HIDE DEF x, y
  <2>5. x = y
    BY <2>1, <2>2, <2>3, <2>4 DEF EncoderThread!Encoder
  <2>6. QED BY <2>5 DEF x, y
<1>7. UNCHANGED <<pipeline, asked, generation>>
  BY DEF CoderSends, sharedVars
<1>8. QED BY <1>0, <1>3, <1>4, <1>5, <1>6, <1>7 DEF View, EncoderThread!Sends

\* An encode call that yields nothing skips the frame in Playout.
LEMMA RefinesSkips == ASSUME TypeOK, CoderSkips PROVE EncoderThread!Skips
<1>0. coder.at = "encode" /\ coder'.at = "take" /\ coder'.sel = None
  BY IdleThread DEF CoderSkips, Empties
<1>1. enc \in Encoder /\ enc # None /\ coder.frame \in Frame
  BY <1>0, ThreadFields, EncoderFields DEF TypeOK, CoderType
<1>2. coder.frame.size \in Sizes
  BY <1>1, SelectionFields
<1>3. /\ enc' \in Encoder /\ enc'.mode = enc.mode /\ enc'.fresh = enc.fresh
      /\ enc'.force = enc.force
  BY <1>1, <1>2 DEF CoderSkips, Encoder
<1>4. View(enc') = View(enc) /\ enc' # None
  BY <1>1, <1>3, EncoderFields DEF View
<1>5. enc.mode = "H264Software" /\ UNCHANGED <<pipeline, asked, generation>>
  BY DEF CoderSkips, sharedVars
<1>6. QED BY <1>0, <1>1, <1>4, <1>5 DEF View, EncoderThread!Skips

\* An encode call that fails drops the encoder in Playout.
LEMMA RefinesFails == ASSUME TypeOK, CoderFails PROVE EncoderThread!Fails
<1>1. coder.at = "encode" /\ coder'.at = "take" /\ coder'.sel = None
  BY IdleThread DEF CoderFails, Empties
<1>2. enc' = None /\ UNCHANGED <<pipeline, asked, generation>>
  BY DEF CoderFails, sharedVars
<1>3. QED BY <1>1, <1>2 DEF EncoderThread!Fails

\* The end of the encoder thread is a restart in Playout.
LEMMA RefinesEnd == ASSUME TypeOK, ThreadInv, CoderEnd PROVE EncoderThread!Restart
<1>1. coder.at = "take" /\ coder.sel = None /\ coder'.at = "join" /\ coder'.sel = None
  BY IdleThread DEF CoderEnd, ThreadInv, Empties
<1>2. QED BY <1>1 DEF CoderEnd, sharedVars, EncoderThread!Restart

\* A change of the pipeline is one in Playout.
LEMMA RefinesApply == ASSUME TypeOK, ThreadInv, ApplyPipeline PROVE EncoderThread!Apply(applying)
  BY DEF ApplyPipeline, ThreadInv, coderVars, EncoderThread!Apply, EncoderThread!coderVars

\* Everything else is no step of Playout's.
LEMMA RefinesStutter ==
    ASSUME TypeOK, UNCHANGED <<pipeline, asked, generation, enc>>, Stage' = Stage,
           coder'.sel = coder.sel
    PROVE  UNCHANGED EncoderThread!vars
  BY DEF EncoderThread!vars, EncoderThread!coderVars, Stage

\* The other threads and the manager are not seen in Playout.
LEMMA OthersStutter ==
    ASSUME TypeOK, ThreadInv, [Next]_vars, ~Coder \/ CoderJoin, ~ApplyPipeline, ~RequestKeyframe
    PROVE  UNCHANGED EncoderThread!vars
<1>0. coder \in Thread
  BY DEF TypeOK, CoderType
<1>1. UNCHANGED <<pipeline, asked, generation, enc>>
  <2>1. UNCHANGED <<generation, enc>>
    BY EncoderKept DEF CoderJoin
  <2>2. UNCHANGED <<pipeline, asked>>
    BY DEF Next, Source, FrameArrivedGpu, FrameArrivedCpu, PatternCheck, PatternSubmit,
       CaptureClosed, CaptureFails, DisplayChanges, Prep, PrepTake, PrepEnd, PrepGpu, PrepCpu,
       PrepFails, CoderJoin, Spawn, StartSource, StartFails, StopControl, Stopping, StopSlot,
       JoinProducer, JoinEncoder, ApplyLive, vars, sharedVars
  <2>3. QED BY <2>1, <2>2
<1>2. Stage' = Stage /\ coder'.sel = coder.sel
  <2>1. CASE UNCHANGED coder
    BY <2>1 DEF Stage
  <2>2. CASE PrepGpu
    <3>1. coder' = coder \/ \E s : coder' = Overwrite(coder, s)
      BY <2>2 DEF PrepGpu
    <3>2. coder'.at = coder.at /\ coder'.sel = coder.sel
      BY <1>0, <3>1, OverwriteType
    <3>3. QED BY <3>2 DEF Stage
  <2>3. ASSUME NEW b \in BOOLEAN, Spawn(b) PROVE Stage' = Stage /\ coder'.sel = coder.sel
    <3>1. coder.at = "none" /\ coder.sel = None
      BY <2>3 DEF Spawn, ThreadInv
    <3>2. coder'.at \in {"take", "done"} /\ coder'.sel = None
      BY <2>3, IdleThread DEF Spawn, Empties
    <3>3. QED BY <3>1, <3>2 DEF Stage
  <2>4. CASE CoderJoin \/ JoinEncoder
    <3>1. coder.at \in {"join", "done"} /\ coder.sel = None
      BY <2>4 DEF CoderJoin, JoinEncoder, ThreadInv
    <3>2. coder'.at \in {"none", "done"} /\ coder'.sel = None
      BY <2>4, IdleThread DEF CoderJoin, JoinEncoder, Empties
    <3>3. QED BY <3>1, <3>2 DEF Stage
  <2>5. QED
    BY <2>1, <2>2, <2>3, <2>4 DEF Next, Source, FrameArrivedGpu, FrameArrivedCpu, PatternCheck,
       PatternSubmit, CaptureClosed, CaptureFails, DisplayChanges, Prep, PrepTake, PrepEnd,
       PrepCpu, PrepFails, StartSource, StartFails, StopControl, Stopping, StopSlot,
       JoinProducer, ApplyLive, vars, coderVars
<1>3. QED BY <1>1, <1>2, RefinesStutter

\* Every step is a step of the encoder thread of Playout, or a stutter.
LEMMA RefinesNext ==
    TypeOK /\ ThreadInv /\ [Next]_vars => [EncoderThread!Next]_(EncoderThread!vars)
<1> SUFFICES ASSUME TypeOK, ThreadInv, [Next]_vars
             PROVE  [EncoderThread!Next]_(EncoderThread!vars)
  OBVIOUS
<1>1. CASE CoderTake \/ CoderMake \/ CoderMakeFails \/ CoderSends \/ CoderSkips \/ CoderFails
  BY <1>1, RefinesTake, RefinesMake, RefinesMakeFails, RefinesSends, RefinesSkips, RefinesFails
  DEF EncoderThread!Next, EncoderThread!Coder
<1>2. CASE CoderEnd
  BY <1>2, RefinesEnd DEF EncoderThread!Next
<1>3. CASE ApplyPipeline
  <2>1. applying \in Modes
    BY <1>3 DEF ApplyPipeline, TypeOK, SharedType
  <2>2. QED BY <1>3, <2>1, RefinesApply DEF EncoderThread!Next
<1>4. CASE RequestKeyframe
  <2>1. EncoderThread!RequestKeyframe
    BY <1>4 DEF RequestKeyframe, sharedVars, coderVars, EncoderThread!RequestKeyframe,
       EncoderThread!coderVars
  <2>2. QED BY <2>1 DEF EncoderThread!Next
<1>5. CASE (~Coder \/ CoderJoin) /\ ~ApplyPipeline /\ ~RequestKeyframe
  BY <1>5, OthersStutter
<1>6. QED BY <1>1, <1>2, <1>3, <1>4, <1>5 DEF Coder

\* The encoder thread of the pipeline, with its frames, surfaces and rebuilt
\* instances, is the encoder thread that Playout describes.
THEOREM ImplementsPlayout == Spec => EncodesAsPlayout
  BY RefinesInit, RefinesNext, TypeCorrect, PTL DEF Spec, EncodesAsPlayout, EncoderThread!Spec
=============================================================================
