------------------------------- MODULE Playout -------------------------------
(***************************************************************************)
(* How a peer gets pictures it can decode: the encoder thread seen from    *)
(* its packets (encode_video_loop of crates/host-windows/src/capture.rs),  *)
(* the shared keyframe request (core/src/lib.rs), the broadcast channel    *)
(* and the video task of every peer (crates/transport/src/                 *)
(* webrtc_session.rs).                                                     *)
(*                                                                         *)
(* Here the encoder thread always finds a frame, and its encoder is what a *)
(* decoder can tell: the mode, the instance that encodes, whether the next *)
(* packet must be a keyframe.  Frames describes the threads in full and    *)
(* implements this module's encoder thread.                                *)
(***************************************************************************)
EXTENDS Integers, Sequences

CONSTANTS
    Peers,
    Modes,          \* encoder modes in use
    Capacity,       \* packets the broadcast channel retains
    Instances,      \* identities of encoder instances, reused cyclically
    MaxGeneration,  \* bound: changes of the pipeline
    None

VARIABLES
    pipeline,    \* PipelineSelection: generation and active_mode
    asked,       \* KeyframeRequest.pending
    stage, sel,  \* encoder thread: next step and the selection it read
    generation,  \* ... its generation
    enc,         \* ... its encoder
    peer         \* video task and receiver of every peer

coderVars == <<stage, sel, generation, enc>>
vars == <<pipeline, asked, coderVars, peer>>

Codec(m) == IF m = "HevcHardware" THEN "hevc" ELSE "h264"
Codecs == {Codec(m) : m \in Modes}
Identities == 0..Instances-1
\* The decoder was given a delta frame it does not have the references of.
Broken == Instances

Selection == [generation : 0..MaxGeneration, mode : Modes]
\* fresh until the first packet of the instance, force after request_keyframe.
Encoder == [mode : Modes, instance : Identities, fresh : BOOLEAN, force : BOOLEAN]
\* codec is the label of the packet, by the codec of the encoder that made it.
Packet == [codec : Codecs, by : Codecs, key : BOOLEAN, instance : Identities]
\* A peer: its codec, what its state callback last sent, the next step of its
\* video task, the gate, the packets it has not received, whether the next
\* receive reports a lag; and, as history, whether it lost packets since it
\* subscribed and the instance its decoder has the references of.
Peer == [codec : Codecs, state : {"Waiting", "Connected", "Terminal"},
         task : {"none", "wait", "resubscribe", "request", "run", "done"},
         awaiting : BOOLEAN, queue : Seq(Packet), lag : BOOLEAN, lagged : BOOLEAN,
         decodes : Identities \cup {None, Broken}]

ASSUME PlayoutAssumption ==
    /\ Modes \subseteq {"H264Hardware", "HevcHardware", "H264Software"} /\ Modes # {}
    /\ Capacity \in Nat \ {0} /\ Instances \in Nat \ {0} /\ MaxGeneration \in Nat
    /\ None \notin Nat \cup Selection \cup Encoder

NoPeer == [codec |-> Codec(CHOOSE m \in Modes : TRUE), state |-> "Waiting", task |-> "none",
           awaiting |-> TRUE, queue |-> <<>>, lag |-> FALSE, lagged |-> FALSE,
           decodes |-> None]

CoderType ==
    /\ pipeline \in Selection /\ asked \in BOOLEAN
    /\ stage \in {"take", "make", "encode"} /\ sel \in Selection \cup {None}
    /\ generation \in 0..MaxGeneration \cup {None} /\ enc \in Encoder \cup {None}
    /\ stage = "take" <=> sel = None
    /\ stage = "encode" => enc # None
PeerType ==
    /\ peer \in [Peers -> Peer]
    /\ \A p \in Peers : Len(peer[p].queue) <= Capacity
TypeOK == CoderType /\ PeerType

-----------------------------------------------------------------------------
(* encode_video_loop                                                        *)

\* Mutation: the encoder of the previous generation is kept.
MutantKeepEncoder ==
    /\ stage = "take" /\ stage' = "make"
    /\ sel' = pipeline /\ generation' = pipeline.generation
    /\ UNCHANGED <<pipeline, asked, enc, peer>>

\* A frame is taken and the selection read; the encoder of another generation is
\* shut down.
Take ==
    /\ stage = "take" /\ stage' = "make"
    /\ sel' = pipeline /\ generation' = pipeline.generation
    /\ enc' = IF generation = pipeline.generation THEN enc ELSE None
    /\ UNCHANGED <<pipeline, asked, peer>>

\* The encoder there is, or one created for the selected mode; then
\* keyframe_request.take(), or a software encoder whose last keyframe is old.
Make ==
    /\ stage = "make" /\ stage' = "encode"
    /\ \E e \in IF enc # None THEN {enc}
                ELSE [mode : {sel.mode}, instance : Identities, fresh : {TRUE}, force : {FALSE}] :
       \E due \in {FALSE} \cup {e.mode = "H264Software" /\ ~e.fresh} :
          enc' = [e EXCEPT !.force = @ \/ asked \/ due]
    /\ asked' = FALSE
    /\ UNCHANGED <<pipeline, sel, generation, peer>>

\* create_video_encoder fails: on to the next frame, the request stays pending.
MakeFails ==
    /\ stage = "make" /\ enc = None
    /\ stage' = "take" /\ sel' = None
    /\ UNCHANGED <<pipeline, asked, generation, enc, peer>>

\* video_tx.send: a receiver that is full loses its oldest packet.
Sent(q, packet) ==
    IF q.task \in {"none", "done"} THEN q
    ELSE IF Len(q.queue) < Capacity THEN [q EXCEPT !.queue = Append(@, packet)]
    ELSE [q EXCEPT !.queue = Append(Tail(@), packet), !.lag = TRUE, !.lagged = TRUE]

\* The encoders that may encode a frame handed to e: e itself, or the instance a
\* hardware encoder rebuilds, for a keyframe, a new size or another memory path.
Encoding(e) ==
    IF e.mode = "H264Software" THEN {e}
    ELSE [mode : {e.mode}, instance : Identities, fresh : {TRUE}, force : {FALSE}]
         \cup (IF e.force THEN {} ELSE {e})

\* A packet is sent with the codec of the selection.  The first packet of an
\* instance is a keyframe, and so is the next one after force_intra_frame.
Sends ==
    /\ stage = "encode" /\ stage' = "take" /\ sel' = None
    /\ \E e \in Encoding(enc), key \in BOOLEAN :
          /\ (e.fresh \/ e.force) => key
          /\ enc' = [e EXCEPT !.fresh = FALSE, !.force = @ /\ ~key]
          /\ peer' = [p \in Peers |->
                        Sent(peer[p], [codec |-> Codec(sel.mode), by |-> Codec(e.mode),
                                       key |-> key, instance |-> e.instance])]
    /\ UNCHANGED <<pipeline, asked, generation>>

\* OpenH264 skips the frame: Ok(None).
Skips ==
    /\ stage = "encode" /\ stage' = "take" /\ sel' = None
    /\ enc.mode = "H264Software"
    /\ UNCHANGED <<pipeline, asked, generation, enc, peer>>

\* encode fails: the encoder is shut down and dropped.
Fails ==
    /\ stage = "encode" /\ stage' = "take" /\ sel' = None
    /\ enc' = None
    /\ UNCHANGED <<pipeline, asked, generation, peer>>

\* The capture is stopped and started: another encoder thread.
Restart ==
    /\ stage = "take" /\ enc' = None /\ generation' = None
    /\ UNCHANGED <<pipeline, asked, stage, sel, peer>>

\* apply_video_settings publishes a new selection; a keyframe is asked for.
Apply(mode) ==
    /\ pipeline.generation < MaxGeneration
    /\ pipeline' = [generation |-> pipeline.generation + 1, mode |-> mode]
    /\ asked' = TRUE
    /\ UNCHANGED <<coderVars, peer>>

-----------------------------------------------------------------------------
(* Peers                                                                    *)

Update(p, q) == peer' = [peer EXCEPT ![p] = q]

\* accept_offer: the receiver subscribes and the video task waits.
AcceptOffer(p) ==
    /\ peer[p].task \in {"none", "done"}
    /\ Update(p, [NoPeer EXCEPT !.codec = Codec(pipeline.mode), !.task = "wait"])
    /\ UNCHANGED <<pipeline, asked, coderVars>>

\* The peer's state callback: Connected asks for a keyframe.
PeerConnected(p) ==
    /\ peer[p].task # "none" /\ peer[p].state # "Connected"
    /\ asked' = TRUE
    /\ Update(p, [peer[p] EXCEPT !.state = "Connected"])
    /\ UNCHANGED <<pipeline, coderVars>>

PeerTerminal(p) ==
    /\ peer[p].task # "none" /\ peer[p].state # "Terminal"
    /\ Update(p, [peer[p] EXCEPT !.state = "Terminal"])
    /\ UNCHANGED <<pipeline, asked, coderVars>>

\* A request-keyframe message over the DataChannel or the WebSocket, or
\* request_video_keyframe.
RequestKeyframe ==
    /\ ~asked /\ asked' = TRUE
    /\ UNCHANGED <<pipeline, coderVars, peer>>

\* The task leaves its wait; it ends if the peer is lost by then.
TaskWakes(p) ==
    /\ peer[p].task = "wait" /\ peer[p].state # "Waiting"
    /\ Update(p, [peer[p] EXCEPT
                    !.task = IF peer[p].state = "Connected" THEN "resubscribe" ELSE "done"])
    /\ UNCHANGED <<pipeline, asked, coderVars>>

\* video_rx.resubscribe(): what piled up during the negotiation is dropped.
TaskResubscribes(p) ==
    /\ peer[p].task = "resubscribe"
    /\ Update(p, [peer[p] EXCEPT !.task = "request", !.queue = <<>>, !.lag = FALSE,
                                 !.lagged = FALSE])
    /\ UNCHANGED <<pipeline, asked, coderVars>>

\* Mutation: the request of the state callback is taken to be enough.
MutantNoSecondRequest(p) ==
    /\ peer[p].task = "request"
    /\ Update(p, [peer[p] EXCEPT !.task = "run"])
    /\ UNCHANGED <<pipeline, asked, coderVars>>

TaskRequests(p) ==
    /\ peer[p].task = "request"
    /\ asked' = TRUE
    /\ Update(p, [peer[p] EXCEPT !.task = "run"])
    /\ UNCHANGED <<pipeline, coderVars>>

\* Mutation: every packet passes.
MutantNoGate(q, packet) == TRUE

\* StartupKeyframeGate::admit
Admit(q, packet) == q.awaiting => packet.key

\* What the peer's decoder has the references of after a packet.
Decoded(q, packet) ==
    IF packet.key THEN packet.instance
    ELSE IF q.decodes = packet.instance THEN q.decodes ELSE Broken

\* recv() returns the oldest packet: another codec, or a delta frame before the
\* first keyframe, is skipped; everything else is written.
TaskReceives(p) ==
    LET q == peer[p]
        packet == Head(q.queue)
        rest == [q EXCEPT !.queue = Tail(@)]
    IN  /\ q.task = "run" /\ ~q.lag /\ q.queue # <<>>
        /\ Update(p, IF packet.codec = q.codec /\ Admit(q, packet)
                     THEN [rest EXCEPT !.awaiting = FALSE, !.decodes = Decoded(q, packet)]
                     ELSE rest)
        /\ UNCHANGED <<pipeline, asked, coderVars>>

\* recv() returns Lagged: the loss is counted, the next receive goes on.
TaskLagged(p) ==
    /\ peer[p].task = "run" /\ peer[p].lag
    /\ Update(p, [peer[p] EXCEPT !.lag = FALSE])
    /\ UNCHANGED <<pipeline, asked, coderVars>>

\* write_sample fails on a track whose peer is gone: the task ends.
TaskEnds(p) ==
    LET q == peer[p] IN
    /\ q.task = "run" /\ ~q.lag /\ q.queue # <<>> /\ q.state = "Terminal"
    /\ Head(q.queue).codec = q.codec /\ Admit(q, Head(q.queue))
    /\ Update(p, [q EXCEPT !.task = "done", !.queue = <<>>])
    /\ UNCHANGED <<pipeline, asked, coderVars>>

-----------------------------------------------------------------------------

Init ==
    /\ pipeline \in [generation : {0}, mode : Modes]
    /\ asked = FALSE /\ stage = "take" /\ sel = None /\ generation = None /\ enc = None
    /\ peer = [p \in Peers |-> NoPeer]

Coder   == Take \/ Make \/ MakeFails \/ Sends \/ Skips \/ Fails
Task(p) == TaskWakes(p) \/ TaskResubscribes(p) \/ TaskRequests(p) \/ TaskReceives(p)
           \/ TaskLagged(p) \/ TaskEnds(p)

Next ==
    \/ Coder \/ Restart \/ RequestKeyframe
    \/ \E m \in Modes : Apply(m)
    \/ \E p \in Peers : AcceptOffer(p) \/ PeerConnected(p) \/ PeerTerminal(p) \/ Task(p)

Spec == Init /\ [][Next]_vars

\* The threads and tasks run, and an encoder that is tried again and again is
\* created and encodes at last.
Fairness ==
    /\ WF_vars(Coder) /\ SF_vars(Make) /\ SF_vars(Sends)
    /\ \A p \in Peers : WF_vars(Task(p))

FairSpec == Spec /\ Fairness

-----------------------------------------------------------------------------
(* Properties                                                               *)

\* What a peer's decoder is given it can decode, from the first sample on: the
\* gate of webrtc_session.rs, the codec filter and the encoders that begin anew
\* see to it.  Only a receiver that the channel made lose packets may be given
\* a delta frame without its references.
Decodable == \A p \in Peers : peer[p].decodes = Broken => peer[p].lagged

\* Every packet carries the codec it was encoded with, whatever changes of the
\* pipeline come between the selection and the encoder.
CodecLabelled ==
    \A p \in Peers : \A i \in 1..Len(peer[p].queue) :
        peer[p].queue[i].codec = peer[p].queue[i].by

\* A keyframe for this peer is queued, or was asked for and the encoder has not
\* answered, or the next encoder will begin with it.
Owed(q) ==
    \/ asked \/ enc = None \/ enc.fresh \/ enc.force
    \/ generation # pipeline.generation \/ Codec(enc.mode) # q.codec
    \/ \E i \in 1..Len(q.queue) : q.queue[i].key /\ q.queue[i].codec = q.codec

\* A peer that waits for its first keyframe is owed one: no request gets lost
\* between the peers, apply_video_settings and the encoder thread, unless the
\* channel lost the keyframe itself.
KeyframeOwed ==
    \A p \in Peers :
        peer[p].task = "run" /\ peer[p].awaiting /\ ~peer[p].lagged => Owed(peer[p])

\* A connected peer of the pipeline's codec gets its first picture without any
\* request of its browser, unless the channel loses packets.
Starts ==
    \A p \in Peers :
        (peer[p].task = "run" /\ peer[p].awaiting) ~>
            \/ ~peer[p].awaiting \/ peer[p].task # "run" \/ peer[p].lagged
            \/ Codec(pipeline.mode) # peer[p].codec
=============================================================================
