------------------------------ MODULE Continuity ------------------------------
(***************************************************************************)
(* Pointer batches from the browser to the continuity metrics of the host: *)
(* the browser's sticky input transport with its packets kept while none   *)
(* is open (apps/ipad-web/src/app.ts), the pointer engine that numbers     *)
(* batches and samples (pointer-engine.ts), the two ordered transports,    *)
(* and the host's sequence and lifecycle tracking (crates/core/src/        *)
(* metrics.rs), which downloads look at before every chunk they send.      *)
(*                                                                         *)
(* Sequence numbers are 32 bits wide in the code and W values wide here.   *)
(* Packets carry their true numbers, of which the host sees the remainder: *)
(* the true ones serve the history variable truth only.                    *)
(***************************************************************************)
EXTENDS Integers, Sequences

CONSTANTS
    Pointers,
    W,             \* number of sequence numbers, 2^32 in the code
    MaxPending,    \* packets kept while no transport is open
    MaxSamples,    \* MAX_SAMPLES_PER_BATCH
    MaxNumber,     \* bound: samples numbered
    MaxResets,     \* bound: resets by the host, and stray ends of contacts
    None

ASSUME ContinuityAssumption ==
    /\ W \in Nat /\ W % 2 = 0 /\ W > 2
    /\ MaxPending \in Nat \ {0} /\ MaxSamples \in Nat \ {0} /\ MaxSamples < W \div 2
    /\ MaxNumber \in Nat /\ MaxResets \in Nat
    /\ None \notin Nat /\ None \notin {"datachannel", "websocket"}

VARIABLES
    page,     \* browser: input transport, packets kept, contacts, numbers
    ready,    \* readyState of the DataChannel and the WebSocket
    wire,     \* packets on the way, then the end of the transport
    serving,  \* the host's side of a transport is open
    state,    \* Metrics.input_continuity
    counts,   \* gaps, out of order and lifecycle counters
    truth,    \* history: numbers expected and counted without wrapping
    clean,    \* history: nothing was lost and nothing reset
    resets

vars == <<page, ready, wire, serving, state, counts, truth, clean, resets>>

Transports == {"datachannel", "websocket"}
\* The end of a transport, after its packets.
End == [batch |-> 0, samples |-> <<>>]
Half == W \div 2

Sample == [number : 0..MaxNumber, action : {"Down", "Move", "Up", "Cancel", "Hover"},
           pointer : Pointers]
Packet == [batch : 0..MaxNumber, samples : Seq(Sample)]
\* contacts are PointerEngine.activePointers, interrupted the abandoned ones whose
\* end has not come; batch and sample are the next numbers.
Page   == [transport : Transports \cup {None}, pending : Seq(Packet),
           contacts : SUBSET Pointers, interrupted : SUBSET Pointers,
           batch : 0..MaxNumber, sample : 0..MaxNumber]
Expected(N) == [batch : N \cup {None}, sample : N \cup {None}]
Counter == [gaps : Nat, late : Nat]

BrowserType ==
    /\ page \in Page /\ Len(page.pending) <= MaxPending
    /\ page.contacts \cap page.interrupted = {}
    /\ page.transport = None \/ page.pending = <<>>
TransportType ==
    /\ ready \in [Transports -> {"connecting", "open", "closing", "closed"}]
    /\ wire \in [Transports -> Seq(Packet)]
    /\ \A t \in Transports : \A i \in 1..Len(wire[t]) : wire[t][i] = End => i = Len(wire[t])
    /\ serving \in [Transports -> BOOLEAN]
MetricsType ==
    /\ state \in [expected : Expected(0..W-1), active : SUBSET Pointers]
    /\ counts \in [batch : Counter, sample : Counter, lifecycle : Nat]
    /\ truth \in [expected : Expected(Nat), batch : Counter, sample : Counter]
TypeOK ==
    /\ BrowserType /\ TransportType /\ MetricsType
    /\ clean \in BOOLEAN /\ resets \in 0..MaxResets

-----------------------------------------------------------------------------
(* Browser                                                                  *)

IsOpen(t) == ready[t] = "open"

\* Mutation: the DataChannel is used as soon as it is open.
MutantPreferChannel(p) ==
    IF IsOpen("datachannel") THEN "datachannel"
    ELSE IF p.transport # None THEN p.transport
    ELSE IF IsOpen("websocket") THEN "websocket"
    ELSE None

\* The transport sendInput uses: the one in use as long as it is not closed, else
\* an open DataChannel before an open WebSocket.
Chosen(p) ==
    IF p.transport # None THEN p.transport
    ELSE IF IsOpen("datachannel") THEN "datachannel"
    ELSE IF IsOpen("websocket") THEN "websocket"
    ELSE None

\* Mutation: the abandoned contacts stay active.
MutantAbandonKeeps(p) == [p EXCEPT !.interrupted = @ \cup p.contacts]

\* PointerEngine.abandonAll
AbandonAll(p) == [p EXCEPT !.interrupted = @ \cup p.contacts, !.contacts = {}]

\* sendInput with no transport: the packet is kept, or all that was kept is
\* dropped and the contacts are abandoned.
Keep(p, packet) ==
    IF Len(p.pending) < MaxPending THEN [p EXCEPT !.pending = Append(@, packet)]
    ELSE AbandonAll([p EXCEPT !.pending = <<>>])

\* Packets the host does not serve any more, or sent on a transport that is not
\* open, are lost.
Transmit(t, packets) ==
    IF IsOpen(t) /\ serving[t] THEN [wire EXCEPT ![t] = @ \o packets] ELSE wire

\* The batch of the given actions of pointer q, with the next numbers.
Numbered(p, q, actions) ==
    [batch   |-> p.batch,
     samples |-> [i \in 1..Len(actions) |->
                    [number |-> p.sample + i - 1, action |-> actions[i], pointer |-> q]]]

\* The page after sendInput of that batch.
Sent(p, q, actions) ==
    LET next == [p EXCEPT !.batch = @ + 1, !.sample = @ + Len(actions)]
    IN  IF Chosen(p) = None THEN Keep(next, Numbered(p, q, actions))
        ELSE [next EXCEPT !.transport = Chosen(p)]

\* sendSamples of a batch of pointer q: it goes to the chosen transport or is kept.
SendSamples(q, actions) ==
    LET t == Chosen(page) IN
    /\ wire' = IF t = None THEN wire ELSE Transmit(t, <<Numbered(page, q, actions)>>)
    /\ clean' = (clean /\ (t # None => IsOpen(t) /\ serving[t])
                       /\ (t = None => Len(page.pending) < MaxPending))

\* Numbers still in use: those under way and those the host counts from.
InUse(p) ==
    {p.pending[i].samples[1].number : i \in 1..Len(p.pending)}
    \cup (UNION {{wire[t][i].samples[1].number :
                     i \in {j \in 1..Len(wire[t]) : wire[t][j] # End}} : t \in Transports})
    \cup ({truth.expected.sample} \ {None})

\* Bound: n more samples are numbered, fewer than half the numbers being in use.
Room(n) ==
    /\ page.sample + n <= MaxNumber
    /\ \A k \in InUse(page) : page.sample + n - k < Half

hostVars == <<serving, state, counts, truth>>

\* The actions of n coalesced events: of the beginning of a contact, ...
Begun(n) == [i \in 1..n |-> IF i = 1 THEN "Down" ELSE "Move"]
\* ... of a move, ...
Moved(n, action) == [i \in 1..n |-> action]
\* ... and of an end.
Ended(n, action) == [i \in 1..n |-> IF i = n THEN action ELSE "Move"]

\* handlePointer: a pointerdown, or a move in contact, of a pointer that was not
\* down, with the coalesced samples of the event; ...
PointerDown(q) ==
    /\ q \notin page.contacts \cup page.interrupted
    /\ \E n \in 1..MaxSamples :
          /\ Room(n)
          /\ SendSamples(q, Begun(n))
          /\ page' = Sent([page EXCEPT !.contacts = @ \cup {q}], q, Begun(n))
    /\ UNCHANGED <<ready, hostVars, resets>>

\* ... a pointermove, in contact or hovering; ...
PointerMove(q) ==
    /\ q \notin page.interrupted
    /\ \E n \in 1..MaxSamples :
          LET actions == Moved(n, IF q \in page.contacts THEN "Move" ELSE "Hover") IN
          /\ Room(n)
          /\ SendSamples(q, actions)
          /\ page' = Sent(page, q, actions)
    /\ UNCHANGED <<ready, hostVars, resets>>

\* ... the end of a contact (cancelAll ends them one by one), which is removed
\* after its samples are sent, ...
PointerUp(q) ==
    /\ q \in page.contacts
    /\ \E n \in 1..MaxSamples, action \in {"Up", "Cancel"} :
          /\ Room(n)
          /\ SendSamples(q, Ended(n, action))
          /\ page' = [Sent(page, q, Ended(n, action)) EXCEPT !.contacts = @ \ {q}]
    /\ UNCHANGED <<ready, hostVars, resets>>

\* ... of an interrupted one, ...
InterruptedUp(q) ==
    /\ q \in page.interrupted
    /\ page' = [page EXCEPT !.interrupted = @ \ {q}]
    /\ UNCHANGED <<ready, wire, hostVars, clean, resets>>

\* ... or of a pointer that was never down inside the picture: its samples are
\* numbered and not sent.
StrayUp(q) ==
    /\ q \notin page.contacts \cup page.interrupted
    /\ resets < MaxResets /\ resets' = resets + 1
    /\ \E n \in 1..MaxSamples : Room(n) /\ page' = [page EXCEPT !.sample = @ + n]
    /\ UNCHANGED <<ready, wire, hostVars, clean>>

\* The open event of a transport: drainPendingInput.
Opened(t) ==
    /\ ready[t] = "connecting"
    /\ ready' = [ready EXCEPT ![t] = "open"]
    /\ IF page.pending # <<>> /\ page.transport = None
       THEN /\ page' = [page EXCEPT !.transport = t, !.pending = <<>>]
            /\ wire' = IF serving[t] THEN [wire EXCEPT ![t] = @ \o page.pending] ELSE wire
            /\ clean' = (clean /\ serving[t])
       ELSE UNCHANGED <<page, wire, clean>>
    /\ UNCHANGED <<hostVars, resets>>

\* The connection breaks: some of the last packets never arrive, and the host
\* will see the end of the transport.
Breaks(t) ==
    /\ ready[t] = "open"
    /\ ready' = [ready EXCEPT ![t] = "closing"]
    /\ IF serving[t]
       THEN \E n \in 0..Len(wire[t]) :
               /\ wire' = [wire EXCEPT ![t] = Append(SubSeq(@, 1, n), End)]
               /\ clean' = (clean /\ n = Len(wire[t]))
       ELSE UNCHANGED <<wire, clean>>
    /\ UNCHANGED <<page, hostVars, resets>>

\* The close event: handleInputTransportClose.
CloseEvent(t) ==
    /\ ready[t] = "closing"
    /\ ready' = [ready EXCEPT ![t] = "closed"]
    /\ IF page.transport = t
       THEN /\ page' = AbandonAll([page EXCEPT !.transport = None, !.pending = <<>>])
            /\ clean' = FALSE
       ELSE UNCHANGED <<page, clean>>
    /\ UNCHANGED <<wire, hostVars, resets>>

-----------------------------------------------------------------------------
(* Host                                                                     *)

\* Mutation: a number is later than the one expected if it is greater.
MutantCompare(next, received) ==
    IF next = None \/ received = next THEN [next |-> (received + 1) % W, gaps |-> 0, late |-> 0]
    ELSE IF received > next
    THEN [next |-> (received + 1) % W, gaps |-> received - next, late |-> 0]
    ELSE [next |-> next, gaps |-> 0, late |-> 1]

\* observe_sequence: what is expected next, and what is counted.
ObserveSequence(next, received) ==
    LET forward == (received - next) % W IN
    IF next = None THEN [next |-> (received + 1) % W, gaps |-> 0, late |-> 0]
    ELSE IF forward < Half
    THEN [next |-> (received + 1) % W, gaps |-> forward, late |-> 0]
    ELSE [next |-> next, gaps |-> 0, late |-> 1]

\* History: the same with numbers that do not wrap.
Reference(next, received) ==
    IF next = None THEN [next |-> received + 1, gaps |-> 0, late |-> 0]
    ELSE IF received >= next THEN [next |-> received + 1, gaps |-> received - next, late |-> 0]
    ELSE [next |-> next, gaps |-> 0, late |-> 1]

Count(c, seen) == [gaps |-> c.gaps + seen.gaps, late |-> c.late + seen.late]

\* The lifecycle of one sample: the active pointers after it, and whether it is
\* an error.
Lifecycle(active, s) ==
    [active |-> IF s.action = "Down" THEN active \cup {s.pointer}
                ELSE IF s.action \in {"Up", "Cancel"} THEN active \ {s.pointer}
                ELSE active,
     error  |-> IF s.action = "Down" THEN s.pointer \in active
                ELSE s.action # "Hover" /\ s.pointer \notin active]

\* What input_batch keeps from sample to sample; due and true are the history.
Track == [next : (0..W-1) \cup {None}, count : Counter, active : SUBSET Pointers, errors : Nat,
          due : Nat \cup {None}, true : Counter]

\* One sample of input_batch.
ObserveSample(h, s) ==
    LET seen == ObserveSequence(h.next, s.number % W)
        true == Reference(h.due, s.number)
        life == Lifecycle(h.active, s)
    IN  [next |-> seen.next, count |-> Count(h.count, seen), active |-> life.active,
         errors |-> h.errors + (IF life.error THEN 1 ELSE 0),
         due |-> true.next, true |-> Count(h.true, true)]

\* The samples of a batch in order.
ObserveSamples(h, samples) ==
    LET after[i \in 0..Len(samples)] ==
            IF i = 0 THEN h ELSE ObserveSample(after[i - 1], samples[i])
    IN  after[Len(samples)]

\* input_batch: the number of the batch, then its samples.
InputBatch(packet) ==
    LET seen == ObserveSequence(state.expected.batch, packet.batch % W)
        true == Reference(truth.expected.batch, packet.batch)
        end  == ObserveSamples([next |-> state.expected.sample, count |-> counts.sample,
                                active |-> state.active, errors |-> counts.lifecycle,
                                due |-> truth.expected.sample, true |-> truth.sample],
                               packet.samples)
    IN  /\ state' = [expected |-> [batch |-> seen.next, sample |-> end.next], active |-> end.active]
        /\ counts' = [batch |-> Count(counts.batch, seen), sample |-> end.count,
                      lifecycle |-> end.errors]
        /\ truth' = [expected |-> [batch |-> true.next, sample |-> end.due],
                     batch |-> Count(truth.batch, true), sample |-> end.true]

\* reset_input_continuity
ResetInputContinuity ==
    /\ state' = [expected |-> [batch |-> None, sample |-> None], active |-> {}]
    /\ truth' = [truth EXCEPT !.expected = [batch |-> None, sample |-> None]]
    /\ UNCHANGED counts

\* process_input_packet of the next packet of a transport.
Receive(t) ==
    /\ serving[t] /\ wire[t] # <<>> /\ Head(wire[t]) # End
    /\ InputBatch(Head(wire[t]))
    /\ wire' = [wire EXCEPT ![t] = Tail(@)]
    /\ UNCHANGED <<page, ready, serving, clean, resets>>

\* Mutation: the end of a transport does not reset the continuity.
MutantNoReset(t) ==
    /\ serving[t] /\ wire[t] # <<>> /\ Head(wire[t]) = End
    /\ wire' = [wire EXCEPT ![t] = <<>>]
    /\ serving' = [serving EXCEPT ![t] = FALSE]
    /\ UNCHANGED <<page, ready, state, counts, truth, clean, resets>>

\* The host sees the end: on_close, or the end of websocket_loop.
TransportEnds(t) ==
    /\ serving[t] /\ wire[t] # <<>> /\ Head(wire[t]) = End
    /\ wire' = [wire EXCEPT ![t] = <<>>]
    /\ serving' = [serving EXCEPT ![t] = FALSE]
    /\ clean' = FALSE
    /\ ResetInputContinuity
    /\ UNCHANGED <<page, ready, resets>>

\* The host ends the transport: the peer is replaced or closed, or the loop sees
\* another session.  What is on the way is not looked at.
HostEnds(t) ==
    /\ serving[t] /\ ready[t] = "open" /\ resets < MaxResets /\ resets' = resets + 1
    /\ wire' = [wire EXCEPT ![t] = <<>>]
    /\ serving' = [serving EXCEPT ![t] = FALSE]
    /\ clean' = FALSE
    /\ ResetInputContinuity
    /\ UNCHANGED <<page, ready>>

\* A settings or session handler resets the continuity while transports go on.
HostResets ==
    /\ resets < MaxResets /\ resets' = resets + 1
    /\ clean' = FALSE
    /\ ResetInputContinuity
    /\ UNCHANGED <<page, ready, wire, serving>>

-----------------------------------------------------------------------------

Init ==
    /\ page = [transport |-> None, pending |-> <<>>, contacts |-> {}, interrupted |-> {},
               batch |-> 0, sample |-> 0]
    /\ ready = [t \in Transports |-> "connecting"]
    /\ wire = [t \in Transports |-> <<>>] /\ serving = [t \in Transports |-> TRUE]
    /\ state = [expected |-> [batch |-> None, sample |-> None], active |-> {}]
    /\ counts = [batch |-> [gaps |-> 0, late |-> 0], sample |-> [gaps |-> 0, late |-> 0],
                 lifecycle |-> 0]
    /\ truth = [expected |-> [batch |-> None, sample |-> None],
                batch |-> [gaps |-> 0, late |-> 0], sample |-> [gaps |-> 0, late |-> 0]]
    /\ clean = TRUE /\ resets = 0

Next ==
    \/ \E q \in Pointers : PointerDown(q) \/ PointerMove(q) \/ PointerUp(q)
                           \/ InterruptedUp(q) \/ StrayUp(q)
    \/ \E t \in Transports : Opened(t) \/ Breaks(t) \/ CloseEvent(t)
                              \/ Receive(t) \/ TransportEnds(t) \/ HostEnds(t)
    \/ HostResets

Spec == Init /\ [][Next]_vars

-----------------------------------------------------------------------------
(* Properties                                                               *)

\* Counting with numbers that wrap is counting: with two transports that overtake
\* each other, lost batches and resets, gaps and late arrivals are those of the
\* numbers that do not wrap, as long as less than half of them is under way.
CountsExact ==
    /\ counts.batch = truth.batch /\ counts.sample = truth.sample
    /\ \A k \in {"batch", "sample"} :
          state.expected[k] = IF truth.expected[k] = None THEN None
                              ELSE truth.expected[k] % W

\* While nothing is lost and nothing reset, no batch is counted as missing or late
\* and no contact begins, goes on or ends out of order, whichever transport opens
\* first, whatever was kept before and although both are open.
CleanSession ==
    clean => counts.batch = [gaps |-> 0, late |-> 0] /\ counts.sample.late = 0
             /\ counts.lifecycle = 0

\* Nothing is on the way and both sides agree on which transports there are.
Quiet ==
    \A t \in Transports :
        wire[t] = <<>> /\ (serving[t] <=> ready[t] \in {"connecting", "open"})

\* At rest the host counts no pointer as active whose contact the browser has not,
\* so that downloads that pause for drawing go on: whatever was lost, abandoned or
\* overtaken on the way.
NoStuckPointer == Quiet => state.active \subseteq page.contacts
==============================================================================
