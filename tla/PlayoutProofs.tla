---------------------------- MODULE PlayoutProofs ----------------------------
(***************************************************************************)
(* Proofs about Playout, for every value of its constants.                 *)
(***************************************************************************)
EXTENDS Playout, SequenceTheorems, TLAPS

\* Encoders and packets are what their fields are.
LEMMA Fields ==
    /\ \A e \in Encoder : /\ e.mode \in Modes /\ e.instance \in Identities
                          /\ e.fresh \in BOOLEAN /\ e.force \in BOOLEAN
    /\ \A s \in Selection : s.mode \in Modes /\ s.generation \in 0..MaxGeneration
    /\ \A m \in Modes : Codec(m) \in Codecs
    /\ Broken \notin Identities \cup {None}
<1> USE PlayoutAssumption
<1>1. \A e \in Encoder : /\ e.mode \in Modes /\ e.instance \in Identities
                         /\ e.fresh \in BOOLEAN /\ e.force \in BOOLEAN
  BY DEF Encoder
<1>2. \A s \in Selection : s.mode \in Modes /\ s.generation \in 0..MaxGeneration
  BY DEF Selection
<1>3. \A m \in Modes : Codec(m) \in Codecs
  BY DEF Codecs
<1>4. Broken \notin Identities \cup {None}
  BY DEF Broken, Identities
<1>5. QED BY <1>1, <1>2, <1>3, <1>4

\* A peer whose fields have their types.
LEMMA PeerFields ==
    ASSUME NEW q \in Peer
    PROVE  /\ q.codec \in Codecs /\ q.state \in {"Waiting", "Connected", "Terminal"}
           /\ q.task \in {"none", "wait", "resubscribe", "request", "run", "done"}
           /\ q.awaiting \in BOOLEAN /\ q.queue \in Seq(Packet) /\ q.lag \in BOOLEAN
           /\ q.lagged \in BOOLEAN /\ q.decodes \in Identities \cup {None, Broken}
  BY DEF Peer

\* The peer that is no peer yet.
LEMMA NoPeerType ==
    NoPeer \in Peer /\ NoPeer.queue = <<>> /\ Len(NoPeer.queue) = 0
<1>1. Codec(CHOOSE m \in Modes : TRUE) \in Codecs
  BY Fields, PlayoutAssumption
<1>2. <<>> \in Seq(Packet) /\ Len(<<>>) = 0
  BY EmptySeq
<1>3. QED BY <1>1, <1>2 DEF NoPeer, Peer

\* What a receiver makes of a packet that is sent: it is the last one, those before
\* it are the earlier ones without the d oldest, and d is 0 unless packets are lost.
SentBy(q, k, r, d) ==
    /\ d \in {0, 1} /\ (d = 1 => r.lagged) /\ (d = 0 => r.lagged = q.lagged)
    /\ r.codec = q.codec /\ r.state = q.state /\ r.task = q.task
    /\ r.awaiting = q.awaiting /\ r.decodes = q.decodes
    /\ Len(r.queue) = Len(q.queue) + 1 - d /\ r.queue # <<>>
    /\ r.queue[Len(r.queue)] = k
    /\ \A i \in 1..Len(r.queue) - 1 : r.queue[i] = q.queue[i + d]

\* A packet that is sent to one receiver.
LEMMA Sending ==
    ASSUME NEW q \in Peer, Len(q.queue) <= Capacity, NEW k \in Packet
    PROVE  /\ Sent(q, k) \in Peer /\ Len(Sent(q, k).queue) <= Capacity
           /\ q.task \in {"none", "done"} => Sent(q, k) = q
           /\ q.task \notin {"none", "done"} => \E d \in {0, 1} : SentBy(q, k, Sent(q, k), d)
<1> USE PlayoutAssumption
<1> DEFINE r == Sent(q, k)
<1>0. q.queue \in Seq(Packet) /\ Len(q.queue) \in Nat
  BY PeerFields, LenProperties
<1>1. CASE q.task \in {"none", "done"}
  BY <1>1 DEF Sent
<1>2. CASE q.task \notin {"none", "done"} /\ Len(q.queue) < Capacity
  <2>1. r = [q EXCEPT !.queue = Append(q.queue, k)]
    BY <1>2 DEF Sent
  <2>2. /\ Append(q.queue, k) \in Seq(Packet) /\ Append(q.queue, k) # <<>>
        /\ Len(Append(q.queue, k)) = Len(q.queue) + 1
        /\ \A i \in 1..Len(q.queue) : Append(q.queue, k)[i] = q.queue[i]
        /\ Append(q.queue, k)[Len(q.queue) + 1] = k
    BY <1>0, AppendProperties
  <2>3. /\ r \in Peer /\ r.queue = Append(q.queue, k) /\ r.lagged = q.lagged
        /\ r.codec = q.codec /\ r.state = q.state /\ r.task = q.task
        /\ r.awaiting = q.awaiting /\ r.decodes = q.decodes
    BY <2>1, <2>2 DEF Peer
  <2>4. SentBy(q, k, r, 0)
    BY <1>0, <2>2, <2>3 DEF SentBy
  <2>5. QED BY <1>0, <1>2, <2>2, <2>3, <2>4
<1>3. CASE q.task \notin {"none", "done"} /\ ~(Len(q.queue) < Capacity)
  <2> DEFINE t == Tail(q.queue)
  <2>1. r = [q EXCEPT !.queue = Append(t, k), !.lag = TRUE, !.lagged = TRUE]
    BY <1>3 DEF Sent
  <2>2. Len(q.queue) = Capacity /\ q.queue # <<>>
    BY <1>0, <1>3, EmptySeq
  <2>3. /\ t \in Seq(Packet) /\ Len(t) = Len(q.queue) - 1
        /\ \A i \in 1..Len(t) : t[i] = q.queue[i + 1]
    BY <1>0, <2>2, HeadTailProperties
  <2>4. /\ Append(t, k) \in Seq(Packet) /\ Append(t, k) # <<>>
        /\ Len(Append(t, k)) = Len(t) + 1
        /\ \A i \in 1..Len(t) : Append(t, k)[i] = t[i]
        /\ Append(t, k)[Len(t) + 1] = k
    BY <2>3, AppendProperties
  <2>5. /\ r \in Peer /\ r.queue = Append(t, k) /\ r.lagged = TRUE
        /\ r.codec = q.codec /\ r.state = q.state /\ r.task = q.task
        /\ r.awaiting = q.awaiting /\ r.decodes = q.decodes
    BY <2>1, <2>4 DEF Peer
  <2>6. SentBy(q, k, r, 1)
    BY <1>0, <2>2, <2>3, <2>4, <2>5 DEF SentBy
  <2>7. QED BY <1>0, <1>3, <2>2, <2>3, <2>4, <2>5, <2>6
<1>4. QED BY <1>1, <1>2, <1>3

\* What is left after a packet was received.
LEMMA Receiving ==
    ASSUME NEW q \in Peer, Len(q.queue) <= Capacity, q.queue # <<>>
    PROVE  /\ Head(q.queue) = q.queue[1] /\ Head(q.queue) \in Packet
           /\ Tail(q.queue) \in Seq(Packet) /\ Len(Tail(q.queue)) = Len(q.queue) - 1
           /\ Len(q.queue) \in Nat \ {0}
           /\ \A i \in 1..Len(Tail(q.queue)) : Tail(q.queue)[i] = q.queue[i + 1]
<1>1. q.queue \in Seq(Packet)
  BY PeerFields
<1>2. QED BY <1>1, EmptySeq, HeadTailProperties

\* The packet of a step that sends, the encoder it comes from and what is left of it.
SendsPacket(e, key, k) ==
    /\ e \in Encoder /\ e.mode = enc.mode /\ (e = enc \/ e.fresh)
    /\ key \in BOOLEAN /\ (e.fresh \/ e.force \/ enc.fresh \/ enc.force => key)
    /\ k = [codec |-> Codec(sel.mode), by |-> Codec(e.mode), key |-> key,
            instance |-> e.instance]
    /\ k \in Packet
    /\ enc' \in Encoder /\ enc'.mode = enc.mode /\ enc'.instance = e.instance /\ ~enc'.fresh
    /\ peer' = [p \in Peers |-> Sent(peer[p], k)]

\* Sending puts one packet, with the fields SendsPacket names, into every open queue.
LEMMA SendsOne ==
    ASSUME CoderType, Sends
    PROVE  \E e, key, k : SendsPacket(e, key, k)
<1> USE PlayoutAssumption
<1>0. enc \in Encoder /\ sel \in Selection
  BY DEF CoderType, Sends
<1>1. PICK e \in Encoding(enc), key \in BOOLEAN :
          /\ (e.fresh \/ e.force) => key
          /\ enc' = [e EXCEPT !.fresh = FALSE, !.force = @ /\ ~key]
          /\ peer' = [p \in Peers |->
                        Sent(peer[p], [codec |-> Codec(sel.mode), by |-> Codec(e.mode),
                                       key |-> key, instance |-> e.instance])]
  BY DEF Sends
<1> DEFINE k == [codec |-> Codec(sel.mode), by |-> Codec(e.mode), key |-> key,
                 instance |-> e.instance]
<1>2. /\ e \in Encoder /\ e.mode = enc.mode /\ (e = enc \/ e.fresh)
      /\ enc.fresh => e.fresh
      /\ enc.force => e.fresh \/ e.force
  <2>1. CASE enc.mode = "H264Software"
    BY <1>0, <1>1, <2>1 DEF Encoding
  <2>2. CASE enc.mode # "H264Software" /\ e # enc
    BY <1>0, <1>1, <2>2, Fields DEF Encoding, Encoder
  <2>3. CASE enc.mode # "H264Software" /\ e = enc
    BY <1>0, <1>1, <2>3
  <2>4. QED BY <2>1, <2>2, <2>3
<1>3. k \in Packet
  BY <1>0, <1>2, Fields DEF Packet
<1>4. enc' \in Encoder /\ enc'.mode = enc.mode /\ enc'.instance = e.instance /\ ~enc'.fresh
  <2>1. [e EXCEPT !.fresh = FALSE, !.force = @ /\ ~key].mode = e.mode
    BY <1>2 DEF Encoder
  <2>2. QED BY <1>1, <1>2, <2>1 DEF Encoder
<1>5. SendsPacket(e, key, k)
  BY <1>1, <1>2, <1>3, <1>4 DEF SendsPacket
<1>6. QED BY <1>5

\* The steps of the encoder thread and of apply_video_settings keep the types.
LEMMA CoderTypes ==
    ASSUME CoderType,
           \/ Coder \/ Restart \/ RequestKeyframe \/ \E m \in Modes : Apply(m)
    PROVE  CoderType'
<1> USE PlayoutAssumption
<1>1. CASE Take
  <2>1. pipeline # None /\ pipeline.generation \in 0..MaxGeneration
    BY Fields DEF CoderType
  <2>2. QED BY <1>1, <2>1 DEF Take, CoderType
<1>2. CASE Make
  <2>1. sel \in Selection
    BY <1>2 DEF Make, CoderType
  <2>2. PICK e \in IF enc # None THEN {enc}
                   ELSE [mode : {sel.mode}, instance : Identities, fresh : {TRUE}, force : {FALSE}] :
        \E due \in {FALSE} \cup {e.mode = "H264Software" /\ ~e.fresh} :
           enc' = [e EXCEPT !.force = @ \/ asked \/ due]
    BY <1>2 DEF Make
  <2>3. e \in Encoder
    BY <2>1, <2>2, Fields DEF CoderType, Encoder
  <2>4. enc' \in Encoder
    BY <2>2, <2>3 DEF Encoder
  <2>5. enc' # None
    BY <2>4
  <2>6. QED BY <1>2, <2>1, <2>4, <2>5 DEF Make, CoderType
<1>3. CASE MakeFails
  BY <1>3 DEF MakeFails, CoderType
<1>4. CASE Sends
  <2>1. enc' \in Encoder
    BY <1>4, SendsOne DEF SendsPacket
  <2>2. QED BY <1>4, <2>1 DEF Sends, CoderType
<1>5. CASE Skips \/ Fails \/ Restart
  BY <1>5 DEF Skips, Fails, Restart, CoderType
<1>6. CASE RequestKeyframe
  BY <1>6 DEF RequestKeyframe, CoderType, coderVars
<1>7. ASSUME NEW m \in Modes, Apply(m) PROVE CoderType'
  <2>1. pipeline' \in Selection
    BY <1>7, Fields DEF Apply, CoderType, Selection
  <2>2. QED BY <1>7, <2>1 DEF Apply, CoderType, coderVars
<1>8. QED BY <1>1, <1>2, <1>3, <1>4, <1>5, <1>6, <1>7 DEF Coder

\* A step of one peer: r replaces it.
LEMMA PeerMoves ==
    ASSUME PeerType, NEW p \in Peers, NEW r \in Peer, Len(r.queue) <= Capacity, Update(p, r)
    PROVE  PeerType' /\ peer'[p] = r /\ \A x \in Peers \ {p} : peer'[x] = peer[x]
  BY DEF PeerType, Update

\* What a step of a peer's tasks and callbacks makes of it, where a decoder can
\* tell: a new subscription, a change of the task, the resubscription, a packet
\* received, the end.
Keeps(q, r) == r.codec = q.codec /\ r.awaiting = q.awaiting /\ r.decodes = q.decodes
Renewed(q, r) ==
    /\ q.task \in {"none", "done"} /\ r.task = "wait"
    /\ r.awaiting /\ r.queue = <<>> /\ ~r.lagged /\ r.decodes = None
Advanced(q, r) ==
    /\ Keeps(q, r) /\ r.queue = q.queue /\ r.lagged = q.lagged
    /\ \/ r.task = q.task
       \/ q.task = "wait" /\ r.task \in {"resubscribe", "done"}
       \/ q.task = "request" /\ r.task = "run" /\ asked'
Resubscribed(q, r) ==
    /\ Keeps(q, r) /\ q.task = "resubscribe" /\ r.task = "request"
    /\ r.queue = <<>> /\ ~r.lagged
Received(q, r) ==
    /\ q.task = "run" /\ r.task = "run" /\ r.codec = q.codec /\ r.lagged = q.lagged
    /\ q.queue # <<>> /\ r.queue = Tail(q.queue)
    /\ \/ /\ Head(q.queue).codec = q.codec /\ Admit(q, Head(q.queue))
          /\ ~r.awaiting /\ r.decodes = Decoded(q, Head(q.queue))
       \/ /\ ~(Head(q.queue).codec = q.codec /\ Admit(q, Head(q.queue)))
          /\ r.awaiting = q.awaiting /\ r.decodes = q.decodes
Ended(q, r) ==
    Keeps(q, r) /\ q.task = "run" /\ r.task = "done" /\ r.queue = <<>> /\ r.lagged = q.lagged
Moved(q, r) ==
    Renewed(q, r) \/ Advanced(q, r) \/ Resubscribed(q, r) \/ Received(q, r) \/ Ended(q, r)

\* The steps of one peer: its callbacks and its video task.
PeerSteps(p) == AcceptOffer(p) \/ PeerConnected(p) \/ PeerTerminal(p) \/ Task(p)

\* Every step of a peer is one of these, and forgets no keyframe request.
LEMMA PeerBecomes ==
    ASSUME TypeOK, NEW p \in Peers, PeerSteps(p)
    PROVE  /\ UNCHANGED <<pipeline, coderVars>> /\ asked' \in BOOLEAN /\ (asked => asked')
           /\ \E r \in Peer : Update(p, r) /\ Len(r.queue) <= Capacity /\ Moved(peer[p], r)
<1> USE PlayoutAssumption
<1> DEFINE q == peer[p]
<1>0. /\ q \in Peer /\ Len(q.queue) <= Capacity /\ asked \in BOOLEAN
      /\ <<>> \in Seq(Packet) /\ Len(<<>>) = 0
      /\ Codec(pipeline.mode) \in Codecs
  BY EmptySeq, Fields DEF TypeOK, PeerType, CoderType
<1>1. CASE AcceptOffer(p)
  <2> DEFINE r == [NoPeer EXCEPT !.codec = Codec(pipeline.mode), !.task = "wait"]
  <2>1. r \in Peer
    BY <1>0, NoPeerType DEF Peer
  <2>2. r.queue = <<>> /\ r.task = "wait" /\ r.awaiting /\ ~r.lagged /\ r.decodes = None
    BY DEF NoPeer
  <2>3. q.task \in {"none", "done"} /\ Update(p, r) /\ UNCHANGED <<pipeline, asked, coderVars>>
    BY <1>1 DEF AcceptOffer
  <2>4. Moved(q, r) /\ Len(r.queue) <= Capacity
    BY <1>0, <2>2, <2>3 DEF Moved, Renewed
  <2>5. QED BY <1>0, <2>1, <2>3, <2>4
<1>2. CASE PeerConnected(p)
  <2> DEFINE r == [q EXCEPT !.state = "Connected"]
  <2>1. r \in Peer /\ r.queue = q.queue /\ Advanced(q, r)
    BY <1>0 DEF Peer, Advanced, Keeps
  <2>2. QED BY <1>0, <1>2, <2>1 DEF PeerConnected, Moved
<1>3. CASE PeerTerminal(p)
  <2> DEFINE r == [q EXCEPT !.state = "Terminal"]
  <2>1. r \in Peer /\ r.queue = q.queue /\ Advanced(q, r)
    BY <1>0 DEF Peer, Advanced, Keeps
  <2>2. QED BY <1>0, <1>3, <2>1 DEF PeerTerminal, Moved
<1>4. CASE TaskWakes(p)
  <2> DEFINE t == IF q.state = "Connected" THEN "resubscribe" ELSE "done"
             r == [q EXCEPT !.task = t]
  <2>1. r \in Peer /\ r.queue = q.queue /\ Keeps(q, r) /\ r.lagged = q.lagged
    BY <1>0 DEF Peer, Keeps
  <2>2. q.task = "wait" /\ r.task \in {"resubscribe", "done"}
    BY <1>0, <1>4 DEF TaskWakes, Peer
  <2>3. Moved(q, r)
    BY <2>1, <2>2 DEF Moved, Advanced
  <2>4. QED BY <1>0, <1>4, <2>1, <2>3 DEF TaskWakes
<1>5. CASE TaskResubscribes(p)
  <2> DEFINE r == [q EXCEPT !.task = "request", !.queue = <<>>, !.lag = FALSE, !.lagged = FALSE]
  <2>1. r \in Peer /\ r.queue = <<>> /\ Keeps(q, r) /\ ~r.lagged /\ r.task = "request"
    BY <1>0 DEF Peer, Keeps
  <2>2. q.task = "resubscribe" /\ Update(p, r) /\ UNCHANGED <<pipeline, asked, coderVars>>
    BY <1>5 DEF TaskResubscribes
  <2>3. Moved(q, r) /\ Len(r.queue) <= Capacity
    BY <1>0, <2>1, <2>2 DEF Moved, Resubscribed
  <2>4. QED BY <1>0, <2>1, <2>2, <2>3
<1>6. CASE TaskRequests(p)
  <2> DEFINE r == [q EXCEPT !.task = "run"]
  <2>1. r \in Peer /\ r.queue = q.queue /\ Keeps(q, r) /\ r.lagged = q.lagged /\ r.task = "run"
    BY <1>0 DEF Peer, Keeps
  <2>2. q.task = "request" /\ asked' = TRUE
    BY <1>6 DEF TaskRequests
  <2>3. Moved(q, r)
    BY <2>1, <2>2 DEF Moved, Advanced
  <2>4. QED BY <1>0, <1>6, <2>1, <2>2, <2>3 DEF TaskRequests
<1>7. CASE TaskReceives(p)
  <2> DEFINE packet == Head(q.queue)
             rest == [q EXCEPT !.queue = Tail(q.queue)]
             open == packet.codec = q.codec /\ Admit(q, packet)
             next == [rest EXCEPT !.awaiting = FALSE, !.decodes = Decoded(q, packet)]
             r == IF open THEN next ELSE rest
  <2>0. q.task = "run" /\ q.queue # <<>> /\ Update(p, r) /\ UNCHANGED <<pipeline, asked, coderVars>>
    BY <1>7 DEF TaskReceives
  <2>1. /\ Tail(q.queue) \in Seq(Packet) /\ Len(Tail(q.queue)) <= Capacity
        /\ packet \in Packet
    BY <1>0, <2>0, Receiving
  <2>2. packet.instance \in Identities /\ q.decodes \in Identities \cup {None, Broken}
    BY <1>0, <2>1, PeerFields DEF Packet
  <2>3. Decoded(q, packet) \in Identities \cup {None, Broken}
    BY <2>2 DEF Decoded
  <2>4. /\ rest \in Peer /\ rest.queue = Tail(q.queue) /\ Keeps(q, rest)
        /\ rest.lagged = q.lagged /\ rest.task = q.task
    BY <1>0, <2>1 DEF Peer, Keeps
  <2>5. /\ next \in Peer /\ next.queue = Tail(q.queue) /\ next.codec = q.codec
        /\ next.lagged = q.lagged /\ next.task = q.task
        /\ ~next.awaiting /\ next.decodes = Decoded(q, packet)
    BY <2>3, <2>4 DEF Peer, Keeps
  <2>6. r \in Peer /\ Len(r.queue) <= Capacity
    BY <2>1, <2>4, <2>5
  <2>7. CASE open
    <3>1. Received(q, next)
      BY <2>0, <2>5, <2>7 DEF Received
    <3>2. QED BY <1>0, <2>0, <2>6, <2>7, <3>1 DEF Moved
  <2>8. CASE ~open
    <3>1. Received(q, rest)
      BY <2>0, <2>4, <2>8 DEF Received, Keeps
    <3>2. QED BY <1>0, <2>0, <2>6, <2>8, <3>1 DEF Moved
  <2>9. QED BY <2>7, <2>8
<1>8. CASE TaskLagged(p)
  <2> DEFINE r == [q EXCEPT !.lag = FALSE]
  <2>1. r \in Peer /\ r.queue = q.queue /\ Advanced(q, r)
    BY <1>0 DEF Peer, Advanced, Keeps
  <2>2. QED BY <1>0, <1>8, <2>1 DEF TaskLagged, Moved
<1>9. CASE TaskEnds(p)
  <2> DEFINE r == [q EXCEPT !.task = "done", !.queue = <<>>]
  <2>1. r \in Peer /\ r.queue = <<>> /\ Keeps(q, r) /\ r.lagged = q.lagged /\ r.task = "done"
    BY <1>0 DEF Peer, Keeps
  <2>2. q.task = "run" /\ Update(p, r) /\ UNCHANGED <<pipeline, asked, coderVars>>
    BY <1>9 DEF TaskEnds
  <2>3. Moved(q, r) /\ Len(r.queue) <= Capacity
    BY <1>0, <2>1, <2>2 DEF Moved, Ended
  <2>4. QED BY <1>0, <2>1, <2>2, <2>3
<1>10. QED
  BY <1>1, <1>2, <1>3, <1>4, <1>5, <1>6, <1>7, <1>8, <1>9 DEF PeerSteps, Task

\* The types hold at the start.
LEMMA Initial == Init => TypeOK
<1> SUFFICES ASSUME Init PROVE TypeOK
  OBVIOUS
<1> USE PlayoutAssumption
<1>1. CoderType
  <2>1. pipeline \in Selection
    BY DEF Init, Selection
  <2>2. QED BY <2>1 DEF Init, CoderType
<1>2. PeerType
  BY NoPeerType DEF Init, PeerType
<1>3. QED BY <1>1, <1>2 DEF TypeOK

\* ... and every step keeps them.
LEMMA Typed == TypeOK /\ [Next]_vars => TypeOK'
<1> SUFFICES ASSUME TypeOK, [Next]_vars PROVE TypeOK'
  OBVIOUS
<1> USE PlayoutAssumption DEF TypeOK
<1>1. CASE Sends
  <2>1. CoderType'
    BY <1>1, CoderTypes DEF Coder
  <2>2. PICK e, key, k : SendsPacket(e, key, k)
    BY <1>1, SendsOne
  <2>3. k \in Packet /\ peer' = [p \in Peers |-> Sent(peer[p], k)]
    BY <2>2 DEF SendsPacket
  <2>4. ASSUME NEW p \in Peers PROVE peer'[p] \in Peer /\ Len(peer'[p].queue) <= Capacity
    BY <2>3, Sending DEF PeerType
  <2>5. PeerType'
    BY <2>3, <2>4 DEF PeerType
  <2>6. QED BY <2>1, <2>5
<1>2. CASE \/ Take \/ Make \/ MakeFails \/ Skips \/ Fails
           \/ Restart \/ RequestKeyframe \/ \E m \in Modes : Apply(m)
  <2>1. CoderType'
    BY <1>2, CoderTypes DEF Coder
  <2>2. peer' = peer
    BY <1>2 DEF Take, Make, MakeFails, Skips, Fails, Restart, RequestKeyframe, Apply
  <2>3. QED BY <2>1, <2>2 DEF PeerType
<1>3. ASSUME NEW p \in Peers, PeerSteps(p) PROVE TypeOK'
  <2>1. PICK r \in Peer : Update(p, r) /\ Len(r.queue) <= Capacity
    BY <1>3, PeerBecomes
  <2>2. PeerType'
    BY <2>1, PeerMoves
  <2>3. CoderType'
    BY <1>3, PeerBecomes DEF CoderType, coderVars
  <2>4. QED BY <2>2, <2>3
<1>4. CASE UNCHANGED vars
  BY <1>4 DEF vars, coderVars, CoderType, PeerType
<1>5. QED BY <1>1, <1>2, <1>3, <1>4 DEF Next, Coder, PeerSteps

\* The encoder thread, the channel and every video task keep their types: no
\* receiver has more packets than the channel retains, and the thread encodes
\* only with a selection and an encoder.
THEOREM TypeCorrect == Spec => []TypeOK
  BY Initial, Typed, PTL DEF Spec

-----------------------------------------------------------------------------
(* The encoder and the selection                                            *)

\* An encoder was made for the selection of its generation, and generations are
\* not older than what they are compared with.
CoderInv ==
    /\ generation # None => generation <= pipeline.generation
    /\ enc # None => generation # None
    /\ stage # "take" => sel.generation = generation /\ (enc # None => enc.mode = sel.mode)
    /\ stage # "take" /\ generation = pipeline.generation => sel.mode = pipeline.mode
    /\ enc # None /\ generation = pipeline.generation => enc.mode = pipeline.mode

\* Every step keeps the encoder in line with the selection it was made for.
LEMMA CoderInvStep == TypeOK /\ CoderInv /\ [Next]_vars => CoderInv'
<1> SUFFICES ASSUME TypeOK, CoderInv, [Next]_vars PROVE CoderInv'
  OBVIOUS
<1> USE PlayoutAssumption
<1>0. /\ CoderType /\ pipeline \in Selection /\ pipeline.generation \in Nat
      /\ pipeline.generation # None
      /\ generation \in Nat \cup {None}
  BY Fields DEF TypeOK, CoderType
<1>1. CASE Take
  BY <1>0, <1>1 DEF Take, CoderInv, CoderType
<1>2. CASE Make
  <2>1. PICK e \in IF enc # None THEN {enc}
                   ELSE [mode : {sel.mode}, instance : Identities, fresh : {TRUE}, force : {FALSE}] :
        \E due \in {FALSE} \cup {e.mode = "H264Software" /\ ~e.fresh} :
           enc' = [e EXCEPT !.force = @ \/ asked \/ due]
    BY <1>2 DEF Make
  <2>2. e.mode = sel.mode /\ enc'.mode = e.mode /\ sel \in Selection
    BY <1>0, <1>2, <2>1 DEF Make, CoderType, CoderInv, Encoder
  <2>3. generation # None
    BY <1>0, <1>2, <2>2, Fields DEF Make, CoderInv
  <2>4. QED BY <1>0, <1>2, <2>2, <2>3 DEF Make, CoderInv
<1>3. CASE MakeFails \/ Skips \/ Fails \/ Restart
  BY <1>0, <1>3 DEF MakeFails, Skips, Fails, Restart, CoderInv, CoderType
<1>4. CASE Sends
  <2>1. enc'.mode = enc.mode /\ enc # None
    BY <1>0, <1>4, SendsOne DEF SendsPacket, Sends, CoderType
  <2>2. QED BY <1>0, <1>4, <2>1 DEF Sends, CoderInv
<1>5. ASSUME NEW m \in Modes, Apply(m) PROVE CoderInv'
  <2>1. pipeline'.generation = pipeline.generation + 1
    BY <1>5 DEF Apply
  <2>2. QED BY <1>0, <1>5, <2>1 DEF Apply, CoderInv, coderVars
<1>6. ASSUME NEW p \in Peers, PeerSteps(p) PROVE CoderInv'
  BY <1>6, PeerBecomes DEF CoderInv, coderVars
<1>7. CASE RequestKeyframe \/ UNCHANGED vars
  BY <1>7 DEF RequestKeyframe, vars, coderVars, CoderInv
<1>8. QED BY <1>1, <1>2, <1>3, <1>4, <1>5, <1>6, <1>7 DEF Next, Coder, PeerSteps

\* However changes of the pipeline fall between the steps of the encoder thread,
\* the encoder it uses was made for the selection it read.
THEOREM EncoderFollowsSelection == Spec => []CoderInv
<1>1. Init => CoderInv
  BY DEF Init, CoderInv
<1>2. QED BY <1>1, CoderInvStep, TypeCorrect, PTL DEF Spec

-----------------------------------------------------------------------------
(* The packets of a receiver                                                *)

\* What a step that sends does to one peer.
LEMMA SentToPeer ==
    ASSUME TypeOK, Sends, NEW p \in Peers
    PROVE  \E e, key, k : /\ SendsPacket(e, key, k) /\ peer'[p] = Sent(peer[p], k)
                          /\ \/ /\ peer[p].task \in {"none", "done"} /\ peer'[p] = peer[p]
                             \/ /\ peer[p].task \notin {"none", "done"}
                                /\ \E d \in {0, 1} : SentBy(peer[p], k, peer'[p], d)
<1>1. PICK e, key, k : SendsPacket(e, key, k)
  BY SendsOne DEF TypeOK
<1>2. k \in Packet /\ peer'[p] = Sent(peer[p], k)
  BY <1>1 DEF SendsPacket
<1>3. peer[p] \in Peer /\ Len(peer[p].queue) <= Capacity
  BY DEF TypeOK, PeerType
<1>4. QED BY <1>1, <1>2, <1>3, Sending

\* What any other step does to it, and to the encoder.
LEMMA NotSent ==
    ASSUME TypeOK, [Next]_vars, ~Sends, NEW p \in Peers
    PROVE  \/ peer'[p] = peer[p]
           \/ /\ UNCHANGED <<pipeline, generation, enc>> /\ (asked => asked')
              /\ Moved(peer[p], peer'[p])
<1>1. CASE \/ Take \/ Make \/ MakeFails \/ Skips \/ Fails
           \/ Restart \/ RequestKeyframe \/ UNCHANGED vars \/ \E m \in Modes : Apply(m)
  BY <1>1 DEF Take, Make, MakeFails, Skips, Fails, Restart, RequestKeyframe, Apply, vars
<1>2. ASSUME NEW x \in Peers, PeerSteps(x) PROVE
           \/ peer'[p] = peer[p]
           \/ /\ UNCHANGED <<pipeline, generation, enc>> /\ (asked => asked')
              /\ Moved(peer[p], peer'[p])
  <2>1. PICK r \in Peer : Update(x, r) /\ Len(r.queue) <= Capacity /\ Moved(peer[x], r)
    BY <1>2, PeerBecomes
  <2>2. peer'[x] = r /\ \A y \in Peers \ {x} : peer'[y] = peer[y]
    BY <2>1, PeerMoves DEF TypeOK
  <2>3. UNCHANGED <<pipeline, generation, enc>> /\ (asked => asked')
    BY <1>2, PeerBecomes DEF coderVars
  <2>4. QED BY <2>1, <2>2, <2>3
<1>3. QED BY <1>1, <1>2 DEF Next, Coder, PeerSteps

\* What every step but a sending one does to the encoder.
LEMMA EncoderStep ==
    ASSUME TypeOK, [Next]_vars, ~Sends
    PROVE  \/ enc' = None \/ enc'.fresh
           \/ /\ enc # None /\ enc'.mode = enc.mode /\ enc'.instance = enc.instance
              /\ enc'.fresh = enc.fresh
<1>0. CoderType /\ (enc = None \/ enc \in Encoder)
  BY DEF TypeOK, CoderType
<1>1. CASE Take \/ MakeFails \/ Skips \/ Fails \/ Restart
  BY <1>0, <1>1 DEF Take, MakeFails, Skips, Fails, Restart
<1>2. CASE Make
  <2>1. PICK e \in IF enc # None THEN {enc}
                   ELSE [mode : {sel.mode}, instance : Identities, fresh : {TRUE}, force : {FALSE}] :
        \E due \in {FALSE} \cup {e.mode = "H264Software" /\ ~e.fresh} :
           enc' = [e EXCEPT !.force = @ \/ asked \/ due]
    BY <1>2 DEF Make
  <2>2. CASE enc # None
    BY <1>0, <2>1, <2>2 DEF Encoder
  <2>3. CASE enc = None
    BY <1>0, <2>1, <2>3
  <2>4. QED BY <2>2, <2>3
<1>3. CASE \/ RequestKeyframe \/ UNCHANGED vars \/ \E m \in Modes : Apply(m)
  BY <1>0, <1>3 DEF RequestKeyframe, vars, Apply, coderVars
<1>4. ASSUME NEW x \in Peers, PeerSteps(x) PROVE enc' = enc
  BY <1>4, PeerBecomes DEF coderVars
<1>5. QED BY <1>0, <1>1, <1>2, <1>3, <1>4 DEF Next, Coder, PeerSteps

-----------------------------------------------------------------------------
(* The label of a packet                                                    *)

\* The codec of every packet on its way is that of the encoder that made it.
Labelled(q) == \A i \in 1..Len(q.queue) : q.queue[i].codec = q.queue[i].by

\* A step of the peer keeps the labels: it adds no packet.
LEMMA LabelledMoved ==
    ASSUME NEW q \in Peer, Len(q.queue) <= Capacity, Labelled(q), NEW r, Moved(q, r)
    PROVE  Labelled(r)
<1>1. CASE r.queue = <<>>
  BY <1>1, EmptySeq DEF Labelled
<1>2. CASE Advanced(q, r)
  BY <1>2 DEF Labelled, Advanced
<1>3. CASE Received(q, r)
  <2>1. q.queue # <<>> /\ r.queue = Tail(q.queue)
    BY <1>3 DEF Received
  <2>2. QED BY <2>1, Receiving DEF Labelled
<1>4. QED BY <1>1, <1>2, <1>3 DEF Moved, Renewed, Resubscribed, Ended

\* No packet gets the label of another encoder.
LEMMA LabelledStep == TypeOK /\ CoderInv /\ CodecLabelled /\ [Next]_vars => CodecLabelled'
<1> SUFFICES ASSUME TypeOK, CoderInv, CodecLabelled, [Next]_vars, NEW p \in Peers
             PROVE  Labelled(peer'[p])
  BY DEF CodecLabelled, Labelled
<1>0. Labelled(peer[p]) /\ peer[p] \in Peer /\ Len(peer[p].queue) <= Capacity
  BY DEF CodecLabelled, Labelled, TypeOK, PeerType
<1>1. CASE Sends
  <2>1. PICK e, key, k : /\ SendsPacket(e, key, k)
                         /\ \/ peer'[p] = peer[p]
                            \/ \E d \in {0, 1} : SentBy(peer[p], k, peer'[p], d)
    BY <1>1, SentToPeer
  <2>2. k.codec = k.by
    BY <1>1, <2>1 DEF SendsPacket, Sends, CoderInv, TypeOK, CoderType
  <2>3. ASSUME NEW d \in {0, 1}, SentBy(peer[p], k, peer'[p], d) PROVE Labelled(peer'[p])
    <3>1. Len(peer[p].queue) \in Nat
      BY <1>0, PeerFields, LenProperties
    <3>2. ASSUME NEW i \in 1..Len(peer'[p].queue), i # Len(peer'[p].queue)
          PROVE  /\ peer'[p].queue[i] = peer[p].queue[i+d]
                 /\ i+d \in 1..Len(peer[p].queue)
      <4>1. Len(peer'[p].queue) = Len(peer[p].queue) + 1 - d
        BY <2>3 DEF SentBy
      <4>2. CASE d = 0
        BY <2>3, <3>1, <3>2, <4>1, <4>2 DEF SentBy
      <4>3. CASE d = 1
        BY <2>3, <3>1, <3>2, <4>1, <4>3 DEF SentBy
      <4>4. QED BY <4>2, <4>3
    <3>3. peer'[p].queue[Len(peer'[p].queue)] = k
      BY <2>3 DEF SentBy
    <3>4. QED BY <1>0, <2>2, <3>2, <3>3 DEF Labelled
  <2>4. QED BY <1>0, <2>1, <2>3
<1>2. CASE ~Sends
  <2>1. peer'[p] = peer[p] \/ Moved(peer[p], peer'[p])
    BY <1>2, NotSent
  <2>2. QED BY <1>0, <2>1, LabelledMoved
<1>3. QED BY <1>1, <1>2

\* Every packet a receiver holds is labelled with the codec that encoded it.
THEOREM PacketsLabelled == Spec => []CodecLabelled
<1>1. Init => CodecLabelled
  BY NoPeerType DEF Init, CodecLabelled
<1>2. QED BY <1>1, LabelledStep, TypeCorrect, EncoderFollowsSelection, PTL DEF Spec

-----------------------------------------------------------------------------
(* What a decoder is given                                                  *)

\* Every packet but a keyframe continues the one before it, the last one was made
\* by the encoder there is, and the first one continues what the decoder has.
Continues(q) ==
    \A i \in 2..Len(q.queue) :
        \/ q.queue[i].key
        \/ q.queue[i].instance = q.queue[i-1].instance /\ q.queue[i].codec = q.queue[i-1].codec
LastMade(q, e) ==
    q.queue # <<>> /\ e # None /\ ~e.fresh =>
        LET last == q.queue[Len(q.queue)]
        IN  last.instance = e.instance /\ last.codec = Codec(e.mode)
FirstFits(q, e) ==
    ~q.awaiting /\ ~q.lagged =>
        /\ q.queue # <<>> => \/ q.queue[1].key \/ q.queue[1].codec # q.codec
                             \/ q.queue[1].instance = q.decodes
        /\ q.queue = <<>> /\ e # None /\ ~e.fresh /\ Codec(e.mode) = q.codec
              => q.decodes = e.instance
Gated(q) ==
    /\ q.awaiting => q.decodes = None
    /\ ~q.awaiting => q.task \in {"run", "done"}
    /\ q.decodes = Broken => q.lagged
Stream(q, e) ==
    /\ Gated(q)
    /\ q.task \notin {"none", "done"} => Continues(q) /\ LastMade(q, e) /\ FirstFits(q, e)
StreamInv == \A p \in Peers : Stream(peer[p], enc)

\* A packet is sent to a peer.
LEMMA StreamSent ==
    ASSUME TypeOK, CoderInv, stage = "encode", NEW q \in Peer, Stream(q, enc),
           NEW e, NEW key, NEW k, SendsPacket(e, key, k),
           q.task \notin {"none", "done"},
           NEW r, NEW d \in {0, 1}, SentBy(q, k, r, d)
    PROVE  Stream(r, enc')
<1> DEFINE n == Len(q.queue)
           m == Len(r.queue)
<1>0. /\ n \in Nat /\ m = n + 1 - d /\ enc \in Encoder /\ enc # None /\ enc' # None
      /\ (n = 0 <=> q.queue = <<>>)
  BY PeerFields, LenProperties, EmptySeq, PlayoutAssumption
  DEF SentBy, TypeOK, CoderType, SendsPacket
<1>d. d \in Int /\ m \in Nat /\ (d = 0 \/ d = 1)
  BY <1>0
<1>1. /\ k.instance = e.instance /\ k.codec = Codec(enc.mode)
      /\ k.key \/ (e = enc /\ ~enc.fresh)
      /\ enc'.instance = e.instance /\ enc'.mode = enc.mode
  BY <1>0 DEF SendsPacket, CoderInv
<1>2. Gated(r)
  BY DEF SentBy, Stream, Gated
<1>3. Continues(q) /\ LastMade(q, enc) /\ FirstFits(q, enc)
  BY DEF Stream
<1>4. /\ \A i \in 1..m-1 : r.queue[i] = q.queue[i+d]
      /\ r.queue[m] = k /\ r.queue # <<>>
  BY DEF SentBy
<1>5. Continues(r)
  <2> SUFFICES ASSUME NEW i \in 2..m
               PROVE  \/ r.queue[i].key
                      \/ /\ r.queue[i].instance = r.queue[i-1].instance
                         /\ r.queue[i].codec = r.queue[i-1].codec
    BY DEF Continues
  <2>1. CASE i < m
    <3>1. r.queue[i] = q.queue[i+d] /\ r.queue[i-1] = q.queue[(i+d)-1] /\ i+d \in 2..n
      <4>1. i \in 1..m-1 /\ i-1 \in 1..m-1 /\ (i-1)+d = (i+d)-1 /\ i+d \in 2..n
        BY <1>0, <1>d, <2>1
      <4>2. QED BY <1>4, <4>1
    <3>2. QED BY <1>3, <3>1 DEF Continues
  <2>2. CASE i = m
    <3>1. r.queue[i] = k /\ r.queue[i-1] = q.queue[n] /\ n # 0
      <4>1. i-1 \in 1..m-1 /\ (i-1)+d = n /\ n # 0
        BY <1>0, <1>d, <2>2
      <4>2. QED BY <1>4, <2>2, <4>1
    <3>2. q.queue # <<>> /\ (k.key \/ (~enc.fresh /\ k.instance = enc.instance))
      BY <1>0, <1>1, <3>1
    <3>3. CASE ~k.key
      <4>1. q.queue[n].instance = enc.instance /\ q.queue[n].codec = Codec(enc.mode)
        BY <1>0, <1>3, <3>2, <3>3 DEF LastMade
      <4>2. QED BY <1>1, <3>1, <3>2, <3>3, <4>1
    <3>4. QED BY <3>1, <3>3
  <2>3. QED BY <1>d, <2>1, <2>2
<1>6. LastMade(r, enc')
  BY <1>1, <1>4 DEF LastMade
<1>7. FirstFits(r, enc')
  <2> SUFFICES ASSUME ~r.awaiting, ~r.lagged
               PROVE  \/ r.queue[1].key \/ r.queue[1].codec # r.codec
                      \/ r.queue[1].instance = r.decodes
    BY <1>4 DEF FirstFits
  <2>1. d = 0 /\ ~q.awaiting /\ ~q.lagged /\ r.codec = q.codec /\ r.decodes = q.decodes
    BY DEF SentBy
  <2>2. CASE n = 0
    <3>1. r.queue[1] = k
      BY <1>0, <1>4, <2>1, <2>2
    <3>2. QED BY <1>0, <1>1, <1>3, <2>1, <2>2, <3>1 DEF FirstFits
  <2>3. CASE n # 0
    <3>1. r.queue[1] = q.queue[1]
      BY <1>0, <1>4, <2>1, <2>3
    <3>2. QED BY <1>0, <1>3, <2>1, <2>3, <3>1 DEF FirstFits
  <2>4. QED BY <2>2, <2>3
<1>8. QED BY <1>2, <1>5, <1>6, <1>7 DEF Stream

\* A step of the peer itself.
LEMMA StreamMoved ==
    ASSUME NEW q \in Peer, Len(q.queue) <= Capacity, NEW r, NEW e, Stream(q, e), Moved(q, r)
    PROVE  Stream(r, e)
<1>0. /\ Broken \notin Identities \cup {None} /\ q.awaiting \in BOOLEAN
      /\ Len(<<>>) = 0
  BY Fields, PeerFields, EmptySeq
<1>1. CASE Renewed(q, r)
  BY <1>0, <1>1 DEF Renewed, Stream, Gated, Continues, LastMade, FirstFits
<1>2. CASE Advanced(q, r)
  <2>1. Gated(r)
    BY <1>2 DEF Advanced, Keeps, Stream, Gated
  <2>2. r.task \notin {"none", "done"} => q.task \notin {"none", "done"}
    BY <1>2 DEF Advanced
  <2>3. QED BY <1>2, <2>1, <2>2
        DEF Advanced, Keeps, Stream, Continues, LastMade, FirstFits
<1>3. CASE Resubscribed(q, r)
  <2>1. q.awaiting /\ r.awaiting /\ r.decodes = None
    BY <1>0, <1>3 DEF Resubscribed, Keeps, Stream, Gated
  <2>2. QED BY <1>0, <1>3, <2>1 DEF Resubscribed, Stream, Gated, Continues, LastMade, FirstFits
<1>4. CASE Ended(q, r)
  BY <1>4 DEF Ended, Keeps, Stream, Gated
<1>5. CASE Received(q, r)
  <2> DEFINE n == Len(q.queue)
             h == q.queue[1]
  <2>1. /\ q.task = "run" /\ r.task = "run" /\ r.codec = q.codec /\ r.lagged = q.lagged
        /\ q.queue # <<>> /\ r.queue = Tail(q.queue)
        /\ Continues(q) /\ LastMade(q, e) /\ FirstFits(q, e) /\ Gated(q)
    BY <1>5 DEF Received, Stream
  <2>2. /\ Head(q.queue) = h /\ n \in Nat \ {0} /\ Len(r.queue) = n - 1
        /\ \A i \in 1..n-1 : r.queue[i] = q.queue[i+1]
        /\ r.queue \in Seq(Packet) /\ (n = 1 <=> r.queue = <<>>)
        /\ h.instance \in Identities
    <3>1. /\ Head(q.queue) = h /\ n \in Nat \ {0} /\ Len(r.queue) = n - 1
          /\ \A i \in 1..n-1 : r.queue[i] = q.queue[i+1]
          /\ r.queue \in Seq(Packet) /\ h \in Packet
      BY <2>1, Receiving
    <3>2. n = 1 <=> r.queue = <<>>
      <4>1. Len(r.queue) = 0 <=> r.queue = <<>>
        BY <3>1, EmptySeq
      <4>2. QED BY <3>1, <4>1
    <3>3. h.instance \in Identities
      BY <3>1 DEF Packet
    <3>4. QED BY <3>1, <3>2, <3>3
  <2>3. Continues(r)
    <3> SUFFICES ASSUME NEW i \in 2..n-1
                 PROVE  \/ r.queue[i].key
                        \/ /\ r.queue[i].instance = r.queue[i-1].instance
                           /\ r.queue[i].codec = r.queue[i-1].codec
      BY <2>2 DEF Continues
    <3>1. r.queue[i] = q.queue[i+1] /\ r.queue[i-1] = q.queue[(i+1)-1] /\ i+1 \in 2..n
      BY <2>2
    <3>2. QED BY <2>1, <3>1 DEF Continues
  <2>4. LastMade(r, e)
    <3> SUFFICES ASSUME n # 1, e # None, ~e.fresh
                 PROVE  /\ r.queue[n-1].instance = e.instance
                        /\ r.queue[n-1].codec = Codec(e.mode)
      BY <2>2 DEF LastMade
    <3>1. r.queue[n-1] = q.queue[n]
      BY <2>2
    <3>2. QED BY <2>1, <3>1 DEF LastMade
  <2>5. n # 1 => /\ r.queue[1] = q.queue[2]
                 /\ \/ r.queue[1].key
                    \/ r.queue[1].instance = h.instance /\ r.queue[1].codec = h.codec
    BY <2>1, <2>2 DEF Continues
  <2>6. n = 1 /\ e # None /\ ~e.fresh => h.instance = e.instance /\ h.codec = Codec(e.mode)
    BY <2>1, <2>2 DEF LastMade
  <2>7. CASE h.codec = q.codec /\ Admit(q, h)
    <3>1. ~r.awaiting /\ r.decodes = Decoded(q, h)
      BY <1>5, <2>2, <2>7 DEF Received
    <3>2. ~q.lagged => r.decodes = h.instance
      BY <2>1, <2>7, <3>1 DEF Decoded, Admit, FirstFits
    <3>3. Gated(r)
      BY <1>0, <2>1, <2>2, <3>1, <3>2 DEF Gated
    <3>4. FirstFits(r, e)
      BY <2>1, <2>2, <2>5, <2>6, <3>2 DEF FirstFits
    <3>5. QED BY <2>3, <2>4, <3>3, <3>4 DEF Stream
  <2>8. CASE ~(h.codec = q.codec /\ Admit(q, h))
    <3>1. r.awaiting = q.awaiting /\ r.decodes = q.decodes
      BY <1>5, <2>2, <2>8 DEF Received
    <3>2. Gated(r)
      BY <2>1, <3>1 DEF Gated
    <3>3. ~r.awaiting => h.codec # q.codec
      BY <2>8, <3>1 DEF Admit
    <3>4. FirstFits(r, e)
      BY <2>1, <2>2, <2>5, <2>6, <3>3 DEF FirstFits
    <3>5. QED BY <2>3, <2>4, <3>2, <3>4 DEF Stream
  <2>9. QED BY <2>7, <2>8
<1>6. QED BY <1>1, <1>2, <1>3, <1>4, <1>5 DEF Moved

\* Every step of the encoder, the channel and the peers keeps the streams decodable.
LEMMA StreamStep == TypeOK /\ CoderInv /\ StreamInv /\ [Next]_vars => StreamInv'
<1> SUFFICES ASSUME TypeOK, CoderInv, StreamInv, [Next]_vars, NEW p \in Peers
             PROVE  Stream(peer'[p], enc')
  BY DEF StreamInv
<1>0. Stream(peer[p], enc) /\ peer[p] \in Peer /\ Len(peer[p].queue) <= Capacity
  BY DEF StreamInv, TypeOK, PeerType
<1>1. CASE Sends
  <2>1. PICK e, key, k : /\ SendsPacket(e, key, k)
                         /\ \/ peer[p].task \in {"none", "done"} /\ peer'[p] = peer[p]
                            \/ /\ peer[p].task \notin {"none", "done"}
                               /\ \E d \in {0, 1} : SentBy(peer[p], k, peer'[p], d)
    BY <1>1, SentToPeer
  <2>2. CASE peer[p].task \in {"none", "done"} /\ peer'[p] = peer[p]
    BY <1>0, <2>2 DEF Stream
  <2>3. ASSUME peer[p].task \notin {"none", "done"},
               NEW d \in {0, 1}, SentBy(peer[p], k, peer'[p], d)
        PROVE  Stream(peer'[p], enc')
    <3>1. stage = "encode"
      BY <1>1 DEF Sends
    <3>2. QED BY <1>0, <2>1, <2>3, <3>1, StreamSent
  <2>4. QED BY <2>1, <2>2, <2>3
<1>2. CASE ~Sends
  <2>1. CASE peer'[p] = peer[p]
    BY <1>0, <1>2, <2>1, EncoderStep DEF Stream, LastMade, FirstFits
  <2>2. CASE enc' = enc /\ Moved(peer[p], peer'[p])
    BY <1>0, <2>2, StreamMoved
  <2>3. QED BY <1>2, <2>1, <2>2, NotSent
<1>3. QED BY <1>1, <1>2

\* From the first sample on a decoder is given what it can decode, unless the
\* channel made its receiver lose packets.
THEOREM SamplesDecodable == Spec => []Decodable
<1>1. Init => StreamInv
  <2> SUFFICES ASSUME Init, NEW p \in Peers PROVE Stream(peer[p], enc)
    BY DEF StreamInv
  <2>1. peer[p] = NoPeer
    BY DEF Init
  <2>2. /\ NoPeer.awaiting /\ NoPeer.decodes = None /\ NoPeer.task = "none"
        /\ Broken # None
    BY Fields DEF NoPeer
  <2>3. QED BY <2>1, <2>2 DEF Stream, Gated
<1>2. StreamInv => Decodable
  BY DEF StreamInv, Stream, Gated, Decodable
<1>3. QED BY <1>1, <1>2, StreamStep, TypeCorrect, EncoderFollowsSelection, PTL DEF Spec

-----------------------------------------------------------------------------
(* The keyframe a peer waits for                                            *)

\* A packet that is sent either is the keyframe a peer waits for or leaves it owed.
LEMMA OwedSent ==
    ASSUME TypeOK, CoderInv, Sends, KeyframeOwed, NEW p \in Peers,
           peer'[p].task = "run", peer'[p].awaiting, ~peer'[p].lagged
    PROVE  Owed(peer[p])' 
<1> DEFINE q == peer[p]
           r == peer'[p]
<1>1. PICK e, key, k : /\ SendsPacket(e, key, k)
                       /\ \/ q.task \in {"none", "done"} /\ r = q
                          \/ \E d \in {0, 1} : SentBy(q, k, r, d)
  BY SentToPeer
<1>2. SentBy(q, k, r, 0)
  BY <1>1 DEF SentBy
<1>3. /\ q.task = "run" /\ q.awaiting /\ ~q.lagged /\ r.codec = q.codec
      /\ Len(r.queue) = Len(q.queue) + 1
      /\ r.queue[Len(r.queue)] = k
      /\ \A i \in 1..Len(r.queue) - 1 : r.queue[i] = q.queue[i + 0]
  BY <1>2 DEF SentBy
<1>4. Len(q.queue) \in Nat
  BY PeerFields, LenProperties DEF TypeOK, PeerType
<1>5. Owed(q)
  BY <1>3 DEF KeyframeOwed
<1>6. /\ enc # None /\ enc' # None /\ enc'.mode = enc.mode
      /\ k.codec = Codec(enc.mode) /\ (enc.fresh \/ enc.force => k.key)
      /\ UNCHANGED <<asked, generation, pipeline>>
  BY <1>1, PlayoutAssumption DEF Sends, SendsPacket, CoderInv, TypeOK, CoderType
<1>7. CASE asked \/ generation # pipeline.generation \/ Codec(enc.mode) # q.codec
  BY <1>3, <1>6, <1>7 DEF Owed
<1>8. CASE (enc.fresh \/ enc.force) /\ Codec(enc.mode) = q.codec
  <2>1. Len(r.queue) \in 1..Len(r.queue)
    BY <1>3, <1>4
  <2>2. QED BY <1>3, <1>6, <1>8, <2>1 DEF Owed
<1>9. ASSUME NEW i \in 1..Len(q.queue), q.queue[i].key, q.queue[i].codec = q.codec
      PROVE  Owed(peer[p])'
  <2>1. i \in 1..Len(r.queue) /\ r.queue[i] = q.queue[i]
    BY <1>3, <1>4
  <2>2. QED BY <1>3, <1>9, <2>1 DEF Owed
<1>10. QED BY <1>5, <1>6, <1>7, <1>8, <1>9 DEF Owed

\* A step of the peer's own.
LEMMA OwedMoved ==
    ASSUME TypeOK, KeyframeOwed, NEW p \in Peers, Moved(peer[p], peer'[p]),
           UNCHANGED <<pipeline, generation, enc>>, asked => asked',
           peer'[p].task = "run", peer'[p].awaiting, ~peer'[p].lagged
    PROVE  Owed(peer[p])'
<1> DEFINE q == peer[p]
           r == peer'[p]
<1>0. q \in Peer /\ Len(q.queue) <= Capacity
  BY DEF TypeOK, PeerType
<1>1. CASE asked'
  BY <1>1 DEF Owed
<1>2. CASE ~asked' /\ Advanced(q, r)
  BY <1>2 DEF Advanced, Keeps, KeyframeOwed, Owed
<1>3. CASE Received(q, r)
  <2>1. /\ q.task = "run" /\ q.awaiting /\ ~q.lagged /\ r.codec = q.codec
        /\ q.queue # <<>> /\ r.queue = Tail(q.queue)
        /\ ~(Head(q.queue).codec = q.codec /\ Head(q.queue).key)
    BY <1>3 DEF Received, Admit
  <2>2. Owed(q)
    BY <2>1 DEF KeyframeOwed
  <2>3. /\ Head(q.queue) = q.queue[1] /\ Len(q.queue) \in Nat \ {0}
        /\ Len(r.queue) = Len(q.queue) - 1
        /\ \A i \in 1..Len(r.queue) : r.queue[i] = q.queue[i + 1]
    BY <1>0, <2>1, Receiving
  <2>4. ASSUME NEW i \in 1..Len(q.queue), q.queue[i].key, q.queue[i].codec = q.codec
        PROVE  Owed(peer[p])'
    <3>1. i # 1
      BY <2>1, <2>3, <2>4
    <3>2. i-1 \in 1..Len(r.queue) /\ r.queue[i-1] = q.queue[i]
      BY <2>3, <3>1
    <3>3. QED BY <2>1, <2>4, <3>2 DEF Owed
  <2>5. QED BY <2>1, <2>2, <2>4 DEF Owed
<1>4. QED BY <1>1, <1>2, <1>3 DEF Moved, Renewed, Resubscribed, Ended

\* A step of the encoder thread or of the pipeline that sends nothing.
LEMMA OwedKept ==
    ASSUME TypeOK, CoderInv, NEW p \in Peers, Owed(peer[p]), peer'[p] = peer[p],
           [Next]_vars, ~Sends
    PROVE  Owed(peer[p])'
<1>0. /\ CoderType /\ pipeline.generation # None
      /\ enc = None \/ enc \in Encoder
  BY Fields, PlayoutAssumption DEF TypeOK, CoderType
<1>1. CASE Take
  BY <1>0, <1>1 DEF Take, Owed
<1>2. CASE Make
  <2>1. PICK e \in IF enc # None THEN {enc}
                   ELSE [mode : {sel.mode}, instance : Identities, fresh : {TRUE}, force : {FALSE}] :
        \E due \in {FALSE} \cup {e.mode = "H264Software" /\ ~e.fresh} :
           enc' = [e EXCEPT !.force = @ \/ asked \/ due]
    BY <1>2 DEF Make
  <2>2. CASE enc = None
    BY <2>1, <2>2 DEF Owed
  <2>3. CASE enc # None
    <3>1. /\ enc'.mode = enc.mode /\ enc'.fresh = enc.fresh
          /\ enc.force \/ asked => enc'.force
      BY <1>0, <2>1, <2>3 DEF Encoder
    <3>2. UNCHANGED <<pipeline, generation>>
      BY <1>2 DEF Make
    <3>3. QED BY <2>3, <3>1, <3>2 DEF Owed
  <2>4. QED BY <2>2, <2>3
<1>3. CASE MakeFails \/ Skips
  BY <1>3 DEF MakeFails, Skips, Owed
<1>4. CASE Fails \/ Restart
  BY <1>4 DEF Fails, Restart, Owed
<1>5. CASE RequestKeyframe \/ \E m \in Modes : Apply(m)
  BY <1>5 DEF RequestKeyframe, Apply, Owed
<1>6. ASSUME NEW x \in Peers, PeerSteps(x) PROVE Owed(peer[p])'
  <2>1. UNCHANGED <<pipeline, generation, enc>> /\ (asked => asked')
    BY <1>6, PeerBecomes DEF coderVars
  <2>2. QED BY <2>1 DEF Owed
<1>7. CASE UNCHANGED vars
  BY <1>7 DEF vars, coderVars, Owed
<1>8. QED BY <1>1, <1>2, <1>3, <1>4, <1>5, <1>6, <1>7 DEF Next, Coder, PeerSteps

\* Every step keeps the keyframe a peer waits for owed.
LEMMA OwedStep == TypeOK /\ CoderInv /\ KeyframeOwed /\ [Next]_vars => KeyframeOwed'
<1> SUFFICES ASSUME TypeOK, CoderInv, KeyframeOwed, [Next]_vars, NEW p \in Peers,
                    peer'[p].task = "run", peer'[p].awaiting, ~peer'[p].lagged
             PROVE  Owed(peer[p])'
  BY DEF KeyframeOwed, Owed
<1>1. CASE Sends
  BY <1>1, OwedSent
<1>2. CASE ~Sends /\ peer'[p] = peer[p]
  BY <1>2, OwedKept DEF KeyframeOwed
<1>3. CASE ~Sends /\ peer'[p] # peer[p]
  BY <1>3, NotSent, OwedMoved
<1>4. QED BY <1>1, <1>2, <1>3

\* No keyframe request gets lost between the peers, the pipeline's changes and the
\* encoder thread: a peer that waits for its first keyframe is owed one.
THEOREM KeyframesOwed == Spec => []KeyframeOwed
<1>1. Init => KeyframeOwed
  <2>1. NoPeer.task = "none"
    BY DEF NoPeer
  <2>2. QED BY <2>1 DEF Init, KeyframeOwed
<1>2. QED BY <1>1, OwedStep, TypeCorrect, EncoderFollowsSelection, PTL DEF Spec
=============================================================================
