------------------------------ MODULE Session --------------------------------
(***************************************************************************)
(* One paired browser session from pairing to its end: SessionManager      *)
(* (crates/core/src/session.rs), the handlers and the WebSocket loop of    *)
(* crates/transport/src/server.rs, and the peer that webrtc_session.rs     *)
(* negotiates and ActivePeer retains.  Secrets are abstracted: a token is  *)
(* the number of the pairing that issued it, and any token a browser was   *)
(* ever given may be presented again.  InputSink is what it promises: the  *)
(* set of transports that hold a contact, emptied by reset_all.            *)
(***************************************************************************)
EXTENDS Integers, FiniteSets

CONSTANTS
    Peers,       \* peer connections, each created by one offer
    Sockets,     \* WebSockets, each upgraded once
    MaxSession,  \* bound: sessions ever started
    MaxTokens,   \* bound: pairings
    None

Transports == Peers \cup Sockets
Sids   == 1..MaxSession
Tokens == 1..MaxTokens
Closers == Peers \cup {"command", "disconnect"}

ASSUME ConstantsAssumption ==
    /\ MaxSession \in Nat \ {0} /\ MaxTokens \in Nat
    /\ Peers \cap Sockets = {} /\ {"command", "disconnect"} \cap Transports = {}
    /\ None \notin Transports /\ None \notin Nat

VARIABLES
    sid, token, age,  \* SessionState: session_id, access_token_hash, created_at
    issued,           \* how many tokens were issued
    ui,               \* host UI thread: between rotate and close_active_peer
    commands,         \* ClosePeer commands in the channel
    active,           \* ActivePeer
    waiting,          \* closer -> the peer whose close() it awaits
    offer,            \* peer -> where its accept_offer is
    conn, chan,       \* peer -> RTCPeerConnectionState, its data channel
    ws,               \* socket -> where its handler is
    wsid,             \* socket -> session_id captured by websocket_loop
    dc,               \* disconnect handler: the token it authorized, or None
    connected,        \* Metrics.connected
    held,             \* transports whose contacts are held down
    from,             \* history: transport -> session that authorized it
    raced,            \* history: a session end met a negotiation
    crossed           \* history: two offers were under way at once

sessionVars == <<sid, token, age, issued>>
hostVars    == <<ui, commands, dc>>
peerVars    == <<active, waiting, offer, conn, chan>>
socketVars  == <<ws, wsid>>
inputVars   == <<connected, held>>
authVars    == <<from, raced, crossed>>
vars == <<sessionVars, hostVars, peerVars, socketVars, inputVars, authVars>>

TypeOK ==
    /\ sid \in Sids /\ token \in Tokens \cup {None} /\ issued \in 0..MaxTokens
    /\ age \in {"fresh", "due", "expired"}
    /\ ui \in {"idle", "close"} /\ commands \in Nat /\ dc \in Tokens \cup {None}
    /\ active \in Peers \cup {None}
    /\ waiting \in [Closers -> Peers \cup {None}]
    /\ offer \in [Peers -> {"none", "negotiating", "replaced", "done", "failed"}]
    /\ conn \in [Peers -> {"new", "connected", "lost", "closed"}]
    /\ chan \in [Peers -> {"none", "open", "closed"}]
    /\ ws \in [Sockets -> {"none", "upgrading", "open", "closed"}]
    /\ wsid \in [Sockets -> Sids]
    /\ connected \in BOOLEAN /\ held \subseteq Transports
    /\ from \in [Transports -> Sids] /\ raced \in BOOLEAN /\ crossed \in BOOLEAN

Paired == token # None

\* Offers and upgrades between their authorization and their last step.
Offering == {k \in Peers : offer[k] \in {"negotiating", "replaced"}}
Negotiating ==
    \/ Offering # {}
    \/ \E w \in Sockets : ws[w] = "upgrading"

\* Session ends and peer closes that are under way.
Ending ==
    \/ ui # "idle" \/ commands > 0 \/ dc # None
    \/ \E x \in Closers : waiting[x] # None

\* The history variables: an end starts during a negotiation or a negotiation
\* during an end; an offer starts during another one.
EndStarts == raced' = (raced \/ Negotiating) /\ UNCHANGED <<from, crossed>>
StartsIn(t) ==
    /\ raced' = (raced \/ Ending)
    /\ crossed' = (crossed \/ (t \in Peers /\ Offering # {}))
    /\ from' = [from EXCEPT ![t] = sid]

\* ActivePeer::replace and ActivePeer::close: swap the option, then await the
\* close of what was in it.
Take(x, k) ==
    /\ waiting' = [waiting EXCEPT ![x] = active]
    /\ active' = k

\* on_peer_connection_state_change for Disconnected, Failed and Closed.
Terminal == connected' = FALSE /\ held' = {}

-----------------------------------------------------------------------------
(* SessionManager and the host's UI thread                                  *)

\* pair: a known PIN or QR secret; an unpaired session must not be expired.
Pair ==
    /\ Paired \/ age # "expired"
    /\ issued < MaxTokens
    /\ issued' = issued + 1
    /\ token' = issued + 1
    /\ UNCHANGED <<sid, age, hostVars, peerVars, socketVars, inputVars, authVars>>

\* created_at.elapsed() reaches UNPAIRED_TTL, then passes it.
Age ==
    /\ age' = CASE age = "fresh" -> "due" [] OTHER -> "expired"
    /\ UNCHANGED <<sid, token, issued, hostVars, peerVars, socketVars, inputVars, authVars>>

\* rotate and rotate_if_expired install a new session state.
NewSession ==
    /\ sid < MaxSession
    /\ sid' = sid + 1 /\ token' = None /\ age' = "fresh"
    /\ UNCHANGED issued

Rotate ==
    /\ ui = "idle"
    /\ NewSession
    /\ ui' = "close"
    /\ EndStarts
    /\ UNCHANGED <<commands, dc, peerVars, socketVars, inputVars>>

RotateIfExpired ==
    /\ ui = "idle"
    /\ ~Paired /\ age # "fresh"
    /\ NewSession
    /\ ui' = "close"
    /\ EndStarts
    /\ UNCHANGED <<commands, dc, peerVars, socketVars, inputVars>>

\* Mutation: the command that closes the peer is not sent.
MutantNoClosePeer ==
    /\ ui = "close"
    /\ ui' = "idle"
    /\ connected' = FALSE /\ held' = {}
    /\ UNCHANGED <<sessionVars, commands, dc, peerVars, socketVars, authVars>>

CloseActivePeer ==
    /\ ui = "close"
    /\ ui' = "idle"
    /\ connected' = FALSE /\ held' = {}
    /\ commands' = commands + 1
    /\ UNCHANGED <<sessionVars, dc, peerVars, socketVars, authVars>>

\* The command task: one ClosePeer at a time.
CommandClose ==
    /\ commands > 0
    /\ waiting["command"] = None
    /\ commands' = commands - 1
    /\ Take("command", None)
    /\ UNCHANGED <<sessionVars, ui, dc, offer, conn, chan, socketVars, inputVars, authVars>>

-----------------------------------------------------------------------------
(* disconnect                                                               *)

DisconnectStart(t) ==
    /\ dc = None
    /\ t = token
    /\ dc' = t
    /\ Take("disconnect", None)
    /\ EndStarts
    /\ UNCHANGED <<sessionVars, ui, commands, offer, conn, chan, socketVars, inputVars>>

\* After the await: reset_all, set_connected(false), SessionManager::disconnect.
DisconnectFinish ==
    /\ dc # None
    /\ waiting["disconnect"] = None
    /\ dc' = None
    /\ token' = None
    /\ connected' = FALSE /\ held' = {}
    /\ UNCHANGED <<sid, age, issued, ui, commands, peerVars, socketVars, authVars>>

-----------------------------------------------------------------------------
(* webrtc_offer, accept_offer and the callbacks of the peer                 *)

Offer(k, t) ==
    /\ offer[k] = "none"
    /\ t = token
    /\ offer' = [offer EXCEPT ![k] = "negotiating"]
    /\ StartsIn(k)
    /\ UNCHANGED <<sessionVars, hostVars, active, waiting, conn, chan, socketVars, inputVars>>

\* A description is refused: the peer is dropped before it was active.
OfferFails(k) ==
    /\ offer[k] = "negotiating"
    /\ offer' = [offer EXCEPT ![k] = "failed"]
    /\ UNCHANGED <<sessionVars, hostVars, active, waiting, conn, chan, socketVars,
                   inputVars, authVars>>

\* Mutation: the previous peer is dropped without being closed.
MutantKeepPrevious(k) ==
    /\ offer[k] = "negotiating"
    /\ offer' = [offer EXCEPT ![k] = "replaced"]
    /\ active' = k
    /\ UNCHANGED <<sessionVars, hostVars, waiting, conn, chan, socketVars, inputVars, authVars>>

OfferReplace(k) ==
    /\ offer[k] = "negotiating"
    /\ offer' = [offer EXCEPT ![k] = "replaced"]
    /\ Take(k, k)
    /\ UNCHANGED <<sessionVars, hostVars, conn, chan, socketVars, inputVars, authVars>>

OfferAnswer(k) ==
    /\ offer[k] = "replaced"
    /\ waiting[k] = None
    /\ offer' = [offer EXCEPT ![k] = "done"]
    /\ UNCHANGED <<sessionVars, hostVars, active, waiting, conn, chan, socketVars,
                   inputVars, authVars>>

\* close() of a peer finishes; its Closed callback has run.
PeerClosed(x) ==
    /\ waiting[x] # None
    /\ conn' = [conn EXCEPT ![waiting[x]] = "closed"]
    /\ waiting' = [waiting EXCEPT ![x] = None]
    /\ Terminal
    /\ UNCHANGED <<sessionVars, hostVars, active, offer, chan, socketVars, authVars>>

\* The browser has the answer, or comes back: Connected.
PeerConnected(k) ==
    /\ offer[k] = "done"
    /\ conn[k] \in {"new", "lost"}
    /\ conn' = [conn EXCEPT ![k] = "connected"]
    /\ chan' = [chan EXCEPT ![k] = IF @ = "none" THEN "open" ELSE @]
    /\ connected' = TRUE
    /\ UNCHANGED <<sessionVars, hostVars, active, waiting, offer, socketVars, held, authVars>>

\* Mutation: only Closed is treated as terminal.
MutantLostKeepsConnected(k) ==
    /\ conn[k] = "connected"
    /\ conn' = [conn EXCEPT ![k] = "lost"]
    /\ UNCHANGED <<sessionVars, hostVars, active, waiting, offer, chan, socketVars,
                   inputVars, authVars>>

\* Disconnected or Failed.
PeerLost(k) ==
    /\ conn[k] = "connected"
    /\ conn' = [conn EXCEPT ![k] = "lost"]
    /\ Terminal
    /\ UNCHANGED <<sessionVars, hostVars, active, waiting, offer, chan, socketVars, authVars>>

\* process_input_packet: the read loop of an open channel still delivers what
\* was queued when the peer closes.
ChannelInput(k) ==
    /\ chan[k] = "open"
    /\ held' = held \cup {k}
    /\ UNCHANGED <<sessionVars, hostVars, peerVars, socketVars, connected, authVars>>

\* Mutation: the channel's on_close does not reset the input.
MutantNoResetOnClose(k) ==
    /\ chan[k] = "open"
    /\ chan' = [chan EXCEPT ![k] = "closed"]
    /\ UNCHANGED <<sessionVars, hostVars, active, waiting, offer, conn, socketVars,
                   inputVars, authVars>>

\* The read loop ends, because the peer closed or the browser did: on_close.
ChannelClose(k) ==
    /\ chan[k] = "open"
    /\ chan' = [chan EXCEPT ![k] = "closed"]
    /\ held' = {}
    /\ UNCHANGED <<sessionVars, hostVars, active, waiting, offer, conn, socketVars,
                   connected, authVars>>

-----------------------------------------------------------------------------
(* websocket and websocket_loop                                             *)

Websocket(w, t) ==
    /\ ws[w] = "none"
    /\ t = token
    /\ ws' = [ws EXCEPT ![w] = "upgrading"]
    /\ StartsIn(w)
    /\ UNCHANGED <<sessionVars, hostVars, peerVars, wsid, inputVars>>

\* on_upgrade runs the loop, which reads the session id now.
WebsocketStart(w) ==
    /\ ws[w] = "upgrading"
    /\ ws' = [ws EXCEPT ![w] = "open"]
    /\ wsid' = [wsid EXCEPT ![w] = sid]
    /\ UNCHANGED <<sessionVars, hostVars, peerVars, inputVars, authVars>>

WebsocketInput(w) ==
    /\ ws[w] = "open"
    /\ held' = held \cup {w}
    /\ UNCHANGED <<sessionVars, hostVars, peerVars, socketVars, connected, authVars>>

WebsocketExit(w) ==
    /\ ws[w] = "open"
    /\ ws' = [ws EXCEPT ![w] = "closed"]
    /\ held' = {}
    /\ UNCHANGED <<sessionVars, hostVars, peerVars, wsid, connected, authVars>>

\* The one-second tick finds another session id.
WebsocketTick(w) == wsid[w] # sid /\ WebsocketExit(w)

-----------------------------------------------------------------------------
Init ==
    /\ sid = 1 /\ token = None /\ age = "fresh" /\ issued = 0
    /\ ui = "idle" /\ commands = 0 /\ dc = None
    /\ active = None /\ waiting = [x \in Closers |-> None]
    /\ offer = [k \in Peers |-> "none"]
    /\ conn = [k \in Peers |-> "new"]
    /\ chan = [k \in Peers |-> "none"]
    /\ ws = [w \in Sockets |-> "none"]
    /\ wsid = [w \in Sockets |-> 1]
    /\ connected = FALSE /\ held = {}
    /\ from = [t \in Transports |-> 1] /\ raced = FALSE /\ crossed = FALSE

\* What the host does by itself once it is due.
HostStep ==
    \/ CloseActivePeer \/ CommandClose \/ DisconnectFinish
    \/ \E k \in Peers : OfferReplace(k) \/ OfferAnswer(k)
    \/ \E x \in Closers : PeerClosed(x)
    \/ \E k \in Peers : conn[k] = "closed" /\ ChannelClose(k)
    \/ \E w \in Sockets : WebsocketStart(w) \/ WebsocketTick(w)

\* What the user, the browsers and the network do.
EnvStep ==
    \/ Pair \/ Age \/ Rotate \/ RotateIfExpired
    \/ \E t \in Tokens : DisconnectStart(t)
    \/ \E k \in Peers, t \in Tokens : Offer(k, t)
    \/ \E k \in Peers : \/ OfferFails(k) \/ PeerConnected(k) \/ PeerLost(k)
                        \/ ChannelInput(k)
                        \/ conn[k] # "closed" /\ ChannelClose(k)
    \/ \E w \in Sockets, t \in Tokens : Websocket(w, t)
    \/ \E w \in Sockets : WebsocketInput(w) \/ WebsocketExit(w)

Next == HostStep \/ EnvStep

Spec == Init /\ [][Next]_vars

\* tokio runs every task that can run; the interval of websocket_loop keeps
\* firing next to incoming messages (select! polls its branches fairly).
FairSpec ==
    /\ Spec
    /\ WF_vars(CloseActivePeer) /\ WF_vars(CommandClose) /\ WF_vars(DisconnectFinish)
    /\ \A k \in Peers : WF_vars(OfferReplace(k)) /\ WF_vars(OfferAnswer(k))
    /\ \A x \in Closers : WF_vars(PeerClosed(x))
    /\ \A k \in Peers : WF_vars(conn[k] = "closed" /\ ChannelClose(k))
    /\ \A w \in Sockets : WF_vars(WebsocketStart(w)) /\ WF_vars(WebsocketTick(w))

-----------------------------------------------------------------------------
(* Properties                                                               *)

Quiet == ~Negotiating /\ ~Ending

Open(t) ==
    \/ t \in Peers /\ (conn[t] \in {"connected", "lost"} \/ chan[t] = "open")
    \/ t \in Sockets /\ ws[t] = "open"

\* A contact is held only by a transport that is still open: whatever closes,
\* fails or is replaced, in any order, the contacts it left are released.
HeldByOpenTransport == \A t \in held : Open(t)

\* When no negotiation or close is under way every live peer is the retained
\* one (ActivePeer::replace closes what it replaces).
OnePeerRetained ==
    Quiet => \A k \in Peers : conn[k] \in {"connected", "lost"} => k = active

\* The inductive form of OnePeerRetained: a peer whose offer got as far as
\* ActivePeer::replace is retained, being closed by the one who took it out, or
\* closed; a closer waits only while its handler is at that await.
PeerAccounted ==
    /\ \A k \in Peers :
          /\ offer[k] \in {"replaced", "done"} =>
                k = active \/ conn[k] = "closed" \/ \E x \in Closers : waiting[x] = k
          /\ conn[k] \in {"connected", "lost"} => offer[k] = "done"
          /\ offer[k] # "replaced" => waiting[k] = None
    /\ dc = None => waiting["disconnect"] = None

\* As long as no end met a negotiation and offers came one at a time: when
\* nothing is under way, Metrics.connected says whether the retained peer is
\* connected, although the callbacks of every peer write it, those of a replaced
\* one that is being closed too.
ConnectedShown ==
    Quiet /\ ~raced /\ ~crossed => connected = (active # None /\ conn[active] = "connected")

\* As long as no end met a negotiation: a reset of the PIN/QR closes the peer
\* and the WebSockets of the session.
EndedTransportsClose ==
    \A t \in Transports :
        (Open(t) /\ from[t] # sid /\ ~raced) ~> (~Open(t) \/ raced)

\* A reset of the PIN/QR closes the peer and the WebSockets of the session,
\* whatever is under way.
ResetClosesTransports ==
    \A t \in Transports : (Open(t) /\ from[t] # sid) ~> ~Open(t)
==============================================================================
