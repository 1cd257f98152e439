---------------------------- MODULE SessionProofs ----------------------------
(***************************************************************************)
(* Proofs about Session, for every value of its constants.                 *)
(***************************************************************************)
EXTENDS Session, TLAPS

\* Every variable of the session, its peers and its sockets keeps its type.
THEOREM TypeCorrect == Spec => []TypeOK
<1>1. Init => TypeOK
  <2> SUFFICES ASSUME Init PROVE TypeOK
    OBVIOUS
  <2>1. 1 \in Sids /\ 0 \in 0..MaxTokens
    BY ConstantsAssumption DEF Sids
  <2>2. QED BY <2>1 DEF Init, TypeOK
<1>2. TypeOK /\ [Next]_vars => TypeOK'
  <2> SUFFICES ASSUME TypeOK, [Next]_vars PROVE TypeOK'
    OBVIOUS
  <2> USE ConstantsAssumption DEF TypeOK, sessionVars, hostVars, peerVars, socketVars,
          inputVars, authVars, Closers, Transports
  <2>1. CASE Pair
    BY <2>1 DEF Pair, Tokens
  <2>2. CASE Age
    BY <2>2 DEF Age
  <2>3. CASE Rotate
    <3>1. sid' \in Sids
      BY <2>3 DEF Rotate, NewSession, Sids
    <3>2. raced' \in BOOLEAN
      BY <2>3, Zenon DEF Rotate, EndStarts
    <3>3. QED BY <2>3, <3>1, <3>2 DEF Rotate, NewSession, EndStarts
  <2>4. CASE RotateIfExpired
    <3>1. sid' \in Sids
      BY <2>4 DEF RotateIfExpired, NewSession, Sids
    <3>2. raced' \in BOOLEAN
      BY <2>4, Zenon DEF RotateIfExpired, EndStarts
    <3>3. QED BY <2>4, <3>1, <3>2 DEF RotateIfExpired, NewSession, EndStarts
  <2>5. CASE CloseActivePeer
    <3>1. commands' \in Nat
      BY <2>5 DEF CloseActivePeer
    <3>2. connected' \in BOOLEAN
      BY <2>5, Zenon DEF CloseActivePeer
    <3>3. QED BY <2>5, <3>1, <3>2 DEF CloseActivePeer
  <2>6. CASE CommandClose
    BY <2>6 DEF CommandClose, Take
  <2>7. ASSUME NEW t \in Tokens, DisconnectStart(t) PROVE TypeOK'
    <3>1. raced' \in BOOLEAN
      BY <2>7, Zenon DEF DisconnectStart, EndStarts
    <3>2. QED BY <2>7, <3>1 DEF DisconnectStart, Take, EndStarts
  <2>8. CASE DisconnectFinish
    BY <2>8 DEF DisconnectFinish
  <2>9. ASSUME NEW k \in Peers, NEW t \in Tokens, Offer(k, t) PROVE TypeOK'
    <3>1. raced' \in BOOLEAN /\ crossed' \in BOOLEAN
      BY <2>9, Zenon DEF Offer, StartsIn
    <3>2. QED BY <2>9, <3>1 DEF Offer, StartsIn
  <2>10. ASSUME NEW k \in Peers, OfferFails(k) PROVE TypeOK'
    BY <2>10 DEF OfferFails
  <2>11. ASSUME NEW k \in Peers, OfferReplace(k) PROVE TypeOK'
    BY <2>11 DEF OfferReplace, Take
  <2>12. ASSUME NEW k \in Peers, OfferAnswer(k) PROVE TypeOK'
    BY <2>12 DEF OfferAnswer
  <2>13. ASSUME NEW x \in Closers, PeerClosed(x) PROVE TypeOK'
    BY <2>13 DEF PeerClosed, Terminal
  <2>14. ASSUME NEW k \in Peers, PeerConnected(k) PROVE TypeOK'
    BY <2>14 DEF PeerConnected
  <2>15. ASSUME NEW k \in Peers, PeerLost(k) PROVE TypeOK'
    BY <2>15 DEF PeerLost, Terminal
  <2>16. ASSUME NEW k \in Peers, ChannelInput(k) PROVE TypeOK'
    BY <2>16 DEF ChannelInput
  <2>17. ASSUME NEW k \in Peers, ChannelClose(k) PROVE TypeOK'
    BY <2>17 DEF ChannelClose
  <2>18. ASSUME NEW w \in Sockets, NEW t \in Tokens, Websocket(w, t) PROVE TypeOK'
    <3>1. raced' \in BOOLEAN /\ crossed' \in BOOLEAN
      BY <2>18, Zenon DEF Websocket, StartsIn
    <3>2. QED BY <2>18, <3>1 DEF Websocket, StartsIn
  <2>19. ASSUME NEW w \in Sockets, WebsocketStart(w) PROVE TypeOK'
    BY <2>19 DEF WebsocketStart
  <2>20. ASSUME NEW w \in Sockets, WebsocketInput(w) PROVE TypeOK'
    BY <2>20 DEF WebsocketInput
  <2>21. ASSUME NEW w \in Sockets, WebsocketExit(w) PROVE TypeOK'
    BY <2>21 DEF WebsocketExit
  <2>22. CASE UNCHANGED vars
    BY <2>22 DEF vars
  <2>23. QED
    BY <2>1, <2>2, <2>3, <2>4, <2>5, <2>6, <2>7, <2>8, <2>9, <2>10, <2>11, <2>12, <2>13,
       <2>14, <2>15, <2>16, <2>17, <2>18, <2>19, <2>20, <2>21, <2>22
    DEF Next, HostStep, EnvStep, WebsocketTick
<1>3. QED BY <1>1, <1>2, PTL DEF Spec

-----------------------------------------------------------------------------
\* The contacts that are held belong to open channels and open sockets.
HeldInv ==
    \A t \in held : (t \in Peers => chan[t] = "open") /\ (t \in Sockets => ws[t] = "open")

\* Whatever closes, fails or is replaced, in whatever order, the contacts it
\* left behind are released: reset_all runs on every path that ends a transport.
THEOREM HeldOnlyByOpenTransport == Spec => []HeldByOpenTransport
<1>1. Init => HeldInv
  BY DEF Init, HeldInv
<1>2. TypeOK /\ HeldInv /\ [Next]_vars => HeldInv'
  <2> SUFFICES ASSUME TypeOK, HeldInv, [Next]_vars PROVE HeldInv'
    OBVIOUS
  <2> USE ConstantsAssumption DEF TypeOK, HeldInv, sessionVars, hostVars, peerVars,
          socketVars, inputVars, authVars
  <2>1. CASE held' = {}
    BY <2>1
  <2>2. CASE UNCHANGED <<chan, ws, held>>
    BY <2>2
  <2>3. ASSUME NEW k \in Peers, PeerConnected(k) PROVE HeldInv'
    BY <2>3 DEF PeerConnected
  <2>4. ASSUME NEW k \in Peers, ChannelInput(k) PROVE HeldInv'
    BY <2>4 DEF ChannelInput, Transports
  <2>5. ASSUME NEW w \in Sockets, NEW t \in Tokens, Websocket(w, t) PROVE HeldInv'
    BY <2>5 DEF Websocket
  <2>6. ASSUME NEW w \in Sockets, WebsocketStart(w) PROVE HeldInv'
    BY <2>6 DEF WebsocketStart
  <2>7. ASSUME NEW w \in Sockets, WebsocketInput(w) PROVE HeldInv'
    BY <2>7 DEF WebsocketInput, Transports
  <2>8. ASSUME Pair \/ Age \/ Rotate \/ RotateIfExpired \/ CommandClose
               \/ (\E t \in Tokens : DisconnectStart(t))
               \/ (\E k \in Peers, t \in Tokens : Offer(k, t))
               \/ (\E k \in Peers : OfferFails(k) \/ OfferReplace(k) \/ OfferAnswer(k))
        PROVE  UNCHANGED <<chan, ws, held>>
    BY <2>8 DEF Pair, Age, Rotate, RotateIfExpired, CommandClose, DisconnectStart, Offer,
       OfferFails, OfferReplace, OfferAnswer
  <2>9. ASSUME CloseActivePeer \/ DisconnectFinish
               \/ (\E x \in Closers : PeerClosed(x))
               \/ (\E k \in Peers : PeerLost(k) \/ ChannelClose(k))
               \/ (\E w \in Sockets : WebsocketExit(w))
        PROVE  held' = {}
    BY <2>9 DEF CloseActivePeer, DisconnectFinish, PeerClosed, PeerLost, ChannelClose,
       WebsocketExit, Terminal
  <2>10. CASE UNCHANGED vars
    BY <2>10 DEF vars
  <2>11. QED
    BY <2>1, <2>2, <2>3, <2>4, <2>5, <2>6, <2>7, <2>8, <2>9, <2>10
    DEF Next, HostStep, EnvStep, WebsocketTick
<1>3. TypeOK /\ HeldInv => HeldByOpenTransport
  BY DEF TypeOK, HeldInv, HeldByOpenTransport, Open, Transports
<1>4. QED BY <1>1, <1>2, <1>3, TypeCorrect, PTL DEF Spec

-----------------------------------------------------------------------------
\* A peer that got as far as ActivePeer::replace is retained, closed, or about
\* to be closed by the one task that took it out of ActivePeer.
THEOREM PeersAccounted == Spec => []PeerAccounted
<1>1. Init => PeerAccounted
  BY DEF Init, PeerAccounted, Closers
<1>2. TypeOK /\ PeerAccounted /\ [Next]_vars => PeerAccounted'
  <2> SUFFICES ASSUME TypeOK, PeerAccounted, [Next]_vars PROVE PeerAccounted'
    OBVIOUS
  <2> USE ConstantsAssumption DEF TypeOK, PeerAccounted, sessionVars, hostVars, peerVars,
          socketVars, inputVars, authVars, Closers, Transports
  <2>1. CASE UNCHANGED <<active, waiting, offer, conn, dc>>
    BY <2>1
  <2>2. CASE CommandClose
    BY <2>2 DEF CommandClose, Take
  <2>3. ASSUME NEW t \in Tokens, DisconnectStart(t) PROVE PeerAccounted'
    BY <2>3 DEF DisconnectStart, Take, Tokens
  <2>4. CASE DisconnectFinish
    BY <2>4 DEF DisconnectFinish
  <2>5. ASSUME NEW k \in Peers, NEW t \in Tokens, Offer(k, t) PROVE PeerAccounted'
    BY <2>5 DEF Offer
  <2>6. ASSUME NEW k \in Peers, OfferFails(k) PROVE PeerAccounted'
    BY <2>6 DEF OfferFails
  <2>7. ASSUME NEW k \in Peers, OfferReplace(k) PROVE PeerAccounted'
    BY <2>7 DEF OfferReplace, Take
  <2>8. ASSUME NEW k \in Peers, OfferAnswer(k) PROVE PeerAccounted'
    BY <2>8 DEF OfferAnswer
  <2>9. ASSUME NEW x \in Closers, PeerClosed(x) PROVE PeerAccounted'
    BY <2>9 DEF PeerClosed
  <2>10. ASSUME NEW k \in Peers, PeerConnected(k) PROVE PeerAccounted'
    BY <2>10 DEF PeerConnected
  <2>11. ASSUME NEW k \in Peers, PeerLost(k) PROVE PeerAccounted'
    BY <2>11 DEF PeerLost
  <2>12. ASSUME Pair \/ Age \/ Rotate \/ RotateIfExpired \/ CloseActivePeer
                \/ (\E k \in Peers : ChannelInput(k) \/ ChannelClose(k))
                \/ (\E w \in Sockets, t \in Tokens : Websocket(w, t))
                \/ (\E w \in Sockets : WebsocketStart(w) \/ WebsocketInput(w)
                                       \/ WebsocketExit(w))
         PROVE  UNCHANGED <<active, waiting, offer, conn, dc>>
    BY <2>12 DEF Pair, Age, Rotate, RotateIfExpired, CloseActivePeer, ChannelInput,
       ChannelClose, Websocket, WebsocketStart, WebsocketInput, WebsocketExit
  <2>13. CASE UNCHANGED vars
    BY <2>13 DEF vars
  <2>14. QED
    BY <2>1, <2>2, <2>3, <2>4, <2>5, <2>6, <2>7, <2>8, <2>9, <2>10, <2>11, <2>12, <2>13
    DEF Next, HostStep, EnvStep, WebsocketTick
<1>3. QED BY <1>1, <1>2, TypeCorrect, PTL DEF Spec

\* Only one live peer is retained, for any number of concurrent offers, resets
\* and disconnects.
THEOREM OnlyOnePeerRetained == Spec => []OnePeerRetained
<1>1. TypeOK /\ PeerAccounted => OnePeerRetained
  <2> SUFFICES ASSUME TypeOK, PeerAccounted, ~Ending, NEW k \in Peers,
                      conn[k] \in {"connected", "lost"}
               PROVE  k = active
    BY DEF OnePeerRetained, Quiet
  <2>1. \A x \in Closers : waiting[x] # k
    BY ConstantsAssumption DEF Ending, Transports
  <2>2. QED BY <2>1 DEF PeerAccounted
<1>2. QED BY <1>1, PeersAccounted, TypeCorrect, PTL
-----------------------------------------------------------------------------
(* While no end met a negotiation and offers come one at a time, the peer    *)
(* whose callbacks write Metrics.connected is the retained one or one that a *)
(* task at its close() is still to turn to FALSE.                            *)

\* The one offer under way has no end and no other closer beside it, and who it
\* has put in ActivePeer is still there.
OffersAlone ==
    \A k \in Offering :
        /\ \A j \in Offering : j = k
        /\ ui = "idle" /\ commands = 0 /\ dc = None
        /\ \A x \in Closers \ {k} : waiting[x] = None
        /\ offer[k] = "replaced" => active = k

\* An end that has taken the peer out of ActivePeer leaves it empty.
EndsEmpty ==
    dc # None \/ waiting["command"] # None \/ waiting["disconnect"] # None => active = None

\* connected is what the retained peer says, or is about to become so: the
\* command that closes the peer is in the channel, or somebody awaits its close().
ConnectedPending ==
    /\ active # None /\ conn[active] = "connected" /\ ~connected => commands > 0
    /\ connected => \/ active # None /\ conn[active] = "connected"
                    \/ \E x \in Closers : waiting[x] # None /\ conn[waiting[x]] = "connected"

ShownInv == ~raced /\ ~crossed => OffersAlone /\ EndsEmpty /\ ConnectedPending

\* A callback that turns connected to FALSE never speaks for the retained peer
\* while that one is connected: a peer that is live and not retained is being
\* closed, and then ActivePeer is empty or holds a peer still to be answered.
LEMMA OldPeerBesideNoLivePeer ==
    ASSUME TypeOK, PeerAccounted, OffersAlone, EndsEmpty,
           NEW x \in Closers, waiting[x] # None
    PROVE  active = None \/ (offer[active] = "replaced" /\ conn[active] # "connected")
<1>1. CASE x \in {"command", "disconnect"}
  BY <1>1 DEF EndsEmpty
<1>2. CASE x \in Peers
  <2>1. offer[x] = "replaced"
    BY <1>2 DEF PeerAccounted
  <2>2. active = x
    BY <1>2, <2>1 DEF OffersAlone, Offering
  <2>3. QED BY <1>2, <2>1, <2>2 DEF PeerAccounted
<1>3. QED BY <1>1, <1>2 DEF Closers

\* The inductive step of ShownInv.
LEMMA ShownStep ==
    ASSUME TypeOK, PeerAccounted, ShownInv, [Next]_vars
    PROVE  ShownInv'
<1> USE DEF sessionVars, hostVars, peerVars, socketVars, inputVars, authVars
<1> SUFFICES ASSUME ~raced', ~crossed'
             PROVE  OffersAlone' /\ EndsEmpty' /\ ConnectedPending'
  BY DEF ShownInv
<1> DEFINE Good == OffersAlone' /\ EndsEmpty' /\ ConnectedPending'
<1>1. ~raced /\ ~crossed
  <2>1. CASE UNCHANGED authVars
    BY <2>1
  <2>2. CASE Rotate \/ RotateIfExpired \/ \E t \in Tokens : DisconnectStart(t)
    <3>1. raced' = (raced \/ Negotiating) /\ UNCHANGED crossed
      BY <2>2 DEF Rotate, RotateIfExpired, DisconnectStart, EndStarts
    <3>2. QED BY <3>1, Zenon
  <2>3. CASE \E k \in Peers, t \in Tokens : Offer(k, t)
    BY <2>3 DEF Offer, StartsIn
  <2>4. CASE \E w \in Sockets, t \in Tokens : Websocket(w, t)
    BY <2>4 DEF Websocket, StartsIn
  <2>5. ASSUME Age PROVE UNCHANGED authVars
    BY <2>5, Zenon DEF Age
  <2>6. QED
    BY <2>1, <2>2, <2>3, <2>4, <2>5 DEF Next, HostStep, EnvStep, WebsocketTick, vars, Pair,
       CloseActivePeer, CommandClose, DisconnectFinish, OfferFails, OfferReplace, OfferAnswer,
       PeerClosed, PeerConnected, PeerLost, ChannelInput, ChannelClose, WebsocketStart,
       WebsocketInput, WebsocketExit
<1>2. OffersAlone /\ EndsEmpty /\ ConnectedPending
  BY <1>1 DEF ShownInv
<1> USE ConstantsAssumption DEF TypeOK, Transports
<1>3. ASSUME UNCHANGED <<ui, commands, dc, active, waiting, offer, conn, connected>> PROVE Good
  BY <1>2, <1>3 DEF OffersAlone, EndsEmpty, ConnectedPending, Offering
<1>4. ASSUME Pair \/ Age
             \/ (\E k \in Peers : ChannelInput(k) \/ ChannelClose(k))
             \/ (\E w \in Sockets, t \in Tokens : Websocket(w, t))
             \/ (\E w \in Sockets : WebsocketStart(w) \/ WebsocketInput(w) \/ WebsocketExit(w))
      PROVE  Good
  <2>1. UNCHANGED <<ui, commands, dc, active, waiting, offer, conn, connected>>
    BY <1>4 DEF Pair, Age, ChannelInput, ChannelClose, Websocket, WebsocketStart,
       WebsocketInput, WebsocketExit
  <2>2. QED BY <1>3, <2>1
\* An end that starts, starts beside no offer.
<1>5. ASSUME Rotate \/ RotateIfExpired PROVE Good
  <2>1. /\ UNCHANGED <<commands, dc, active, waiting, offer, conn, connected>> /\ ~Negotiating
    BY <1>5 DEF Rotate, RotateIfExpired, EndStarts
  <2>2. QED BY <1>2, <2>1 DEF OffersAlone, EndsEmpty, ConnectedPending, Offering, Negotiating
<1>6. ASSUME CloseActivePeer PROVE Good
  <2>1. /\ UNCHANGED <<dc, active, waiting, offer, conn>> /\ commands' = commands + 1
        /\ ~connected' /\ ui = "close"
    BY <1>6 DEF CloseActivePeer
  <2>2. Offering = {}
    BY <1>2, <2>1 DEF OffersAlone
  <2>3. QED BY <1>2, <2>1, <2>2 DEF OffersAlone, EndsEmpty, ConnectedPending, Offering
<1>7. ASSUME CommandClose PROVE Good
  <2>1. /\ UNCHANGED <<ui, dc, offer, conn, connected>> /\ commands > 0 /\ active' = None
        /\ waiting["command"] = None /\ waiting' = [waiting EXCEPT !["command"] = active]
    BY <1>7 DEF CommandClose, Take
  <2>2. Offering = {}
    BY <1>2, <2>1 DEF OffersAlone
  <2>3. OffersAlone' /\ EndsEmpty'
    BY <2>1, <2>2 DEF OffersAlone, EndsEmpty, Offering
  <2>4. /\ waiting'["command"] = active
        /\ \A x \in Closers : waiting[x] # None => waiting'[x] = waiting[x]
    BY <2>1 DEF Closers
  <2>5. ConnectedPending'
    BY <1>2, <2>1, <2>4 DEF ConnectedPending, Closers
  <2>6. QED BY <2>3, <2>5
<1>8. ASSUME NEW t \in Tokens, DisconnectStart(t) PROVE Good
  <2>1. /\ UNCHANGED <<ui, commands, offer, conn, connected>> /\ active' = None /\ dc = None
        /\ waiting' = [waiting EXCEPT !["disconnect"] = active] /\ ~Negotiating
    BY <1>8 DEF DisconnectStart, Take, EndStarts
  <2>2. Offering = {} /\ waiting["disconnect"] = None
    BY <2>1 DEF Negotiating, PeerAccounted
  <2>3. OffersAlone' /\ EndsEmpty'
    BY <2>1, <2>2 DEF OffersAlone, EndsEmpty, Offering
  <2>4. /\ waiting'["disconnect"] = active
        /\ \A x \in Closers : waiting[x] # None => waiting'[x] = waiting[x]
    BY <2>1, <2>2 DEF Closers
  <2>5. ConnectedPending'
    BY <1>2, <2>1, <2>4 DEF ConnectedPending, Closers
  <2>6. QED BY <2>3, <2>5
<1>9. ASSUME DisconnectFinish PROVE Good
  <2>1. /\ UNCHANGED <<ui, commands, active, waiting, offer, conn>> /\ dc # None /\ dc' = None
        /\ ~connected'
    BY <1>9 DEF DisconnectFinish
  <2>2. active = None /\ Offering = {}
    BY <1>2, <2>1 DEF EndsEmpty, OffersAlone
  <2>3. QED BY <1>2, <2>1, <2>2 DEF OffersAlone, EndsEmpty, ConnectedPending, Offering
<1>10. ASSUME NEW k \in Peers, NEW t \in Tokens, Offer(k, t) PROVE Good
  <2>1. /\ UNCHANGED <<ui, commands, dc, active, waiting, conn, connected>>
        /\ offer' = [offer EXCEPT ![k] = "negotiating"] /\ ~Ending /\ Offering = {}
    BY <1>10 DEF Offer, StartsIn
  <2>2. Offering' = {k}
    BY <2>1 DEF Offering
  <2>3. ui = "idle" /\ commands = 0 /\ dc = None /\ \A x \in Closers : waiting[x] = None
    BY <2>1 DEF Ending
  <2>4. QED BY <1>2, <2>1, <2>2, <2>3 DEF OffersAlone, EndsEmpty, ConnectedPending
<1>11. ASSUME NEW k \in Peers, OfferFails(k) \/ OfferAnswer(k) PROVE Good
  <2>1. /\ UNCHANGED <<ui, commands, dc, active, waiting, conn, connected>> /\ k \in Offering
        /\ offer'[k] \in {"failed", "done"} /\ \A j \in Peers \ {k} : offer'[j] = offer[j]
    BY <1>11 DEF OfferFails, OfferAnswer, Offering
  <2>2. Offering' = {}
    BY <1>2, <2>1 DEF OffersAlone, Offering
  <2>3. QED BY <1>2, <2>1, <2>2 DEF OffersAlone, EndsEmpty, ConnectedPending
<1>12. ASSUME NEW k \in Peers, OfferReplace(k) PROVE Good
  <2>1. /\ UNCHANGED <<ui, commands, dc, conn, connected>> /\ offer[k] = "negotiating"
        /\ offer' = [offer EXCEPT ![k] = "replaced"] /\ active' = k
        /\ waiting' = [waiting EXCEPT ![k] = active]
    BY <1>12 DEF OfferReplace, Take
  <2>2. /\ \A j \in Offering : j = k
        /\ ui = "idle" /\ commands = 0 /\ dc = None
        /\ \A x \in Closers \ {k} : waiting[x] = None
    BY <1>2, <2>1 DEF OffersAlone, Offering
  <2>3. /\ waiting[k] = None /\ conn[k] # "connected"
        /\ waiting'[k] = active /\ \A x \in Closers \ {k} : waiting'[x] = None
    BY <2>1, <2>2 DEF PeerAccounted, Closers
  <2>4. OffersAlone'
    BY <2>1, <2>2, <2>3 DEF OffersAlone, Offering
  <2>5. EndsEmpty'
    BY <2>1, <2>2, <2>3 DEF EndsEmpty, Closers
  <2>6. ConnectedPending'
    BY <1>2, <2>1, <2>2, <2>3 DEF ConnectedPending, Closers
  <2>7. QED BY <2>4, <2>5, <2>6
<1>13. ASSUME NEW x \in Closers, PeerClosed(x) PROVE Good
  <2>1. /\ UNCHANGED <<ui, commands, dc, active, offer>> /\ ~connected' /\ waiting[x] # None
        /\ conn' = [conn EXCEPT ![waiting[x]] = "closed"]
        /\ waiting' = [waiting EXCEPT ![x] = None]
    BY <1>13 DEF PeerClosed, Terminal
  <2>2. active = None \/ conn[active] # "connected"
    BY <1>2, <2>1, OldPeerBesideNoLivePeer
  <2>3. OffersAlone' /\ EndsEmpty'
    BY <1>2, <2>1 DEF OffersAlone, EndsEmpty, Offering, Closers
  <2>4. ConnectedPending'
    BY <2>1, <2>2 DEF ConnectedPending
  <2>5. QED BY <2>3, <2>4
<1>14. ASSUME NEW k \in Peers, PeerConnected(k) PROVE Good
  <2>1. /\ UNCHANGED <<ui, commands, dc, active, waiting, offer>> /\ offer[k] = "done"
        /\ conn[k] # "closed" /\ conn' = [conn EXCEPT ![k] = "connected"] /\ connected'
    BY <1>14 DEF PeerConnected
  <2>2. k = active \/ \E x \in Closers : waiting[x] = k
    BY <2>1 DEF PeerAccounted
  <2>3. QED BY <1>2, <2>1, <2>2 DEF OffersAlone, EndsEmpty, ConnectedPending, Offering
<1>15. ASSUME NEW k \in Peers, PeerLost(k) PROVE Good
  <2>1. /\ UNCHANGED <<ui, commands, dc, active, waiting, offer>> /\ conn[k] = "connected"
        /\ conn' = [conn EXCEPT ![k] = "lost"] /\ ~connected'
    BY <1>15 DEF PeerLost, Terminal
  <2>2. k = active \/ \E x \in Closers : waiting[x] = k
    BY <2>1 DEF PeerAccounted
  <2>3. k = active \/ active = None \/ conn[active] # "connected"
    BY <1>2, <2>2, OldPeerBesideNoLivePeer
  <2>4. QED BY <1>2, <2>1, <2>3 DEF OffersAlone, EndsEmpty, ConnectedPending, Offering
<1>16. ASSUME UNCHANGED vars PROVE Good
  BY <1>3, <1>16 DEF vars
<1>17. QED
  BY <1>4, <1>5, <1>6, <1>7, <1>8, <1>9, <1>10, <1>11, <1>12, <1>13, <1>14, <1>15, <1>16
  DEF Next, HostStep, EnvStep, WebsocketTick

\* Metrics.connected is right whenever nothing is under way, for any number of
\* peers, resets and disconnects, as long as no end met a negotiation and offers
\* came one at a time: the callbacks of the peer that ActivePeer::replace or
\* ActivePeer::close takes out are over before those of the next one begin.
THEOREM ConnectedStaysShown == Spec => []ConnectedShown
<1>1. Init => ShownInv
  BY DEF Init, ShownInv, OffersAlone, EndsEmpty, ConnectedPending, Offering, Closers
<1>2. TypeOK /\ PeerAccounted /\ ShownInv /\ [Next]_vars => ShownInv'
  BY ShownStep
<1>3. TypeOK /\ ShownInv => ConnectedShown
  <2> SUFFICES ASSUME TypeOK, ShownInv, ~Ending, ~raced, ~crossed
               PROVE  connected = (active # None /\ conn[active] = "connected")
    BY DEF ConnectedShown, Quiet
  <2>1. commands = 0 /\ \A x \in Closers : waiting[x] = None
    BY DEF Ending, TypeOK
  <2>2. connected \in BOOLEAN
    BY DEF TypeOK
  <2>3. ConnectedPending
    BY DEF ShownInv
  <2>4. connected <=> (active # None /\ conn[active] = "connected")
    BY <2>1, <2>3 DEF ConnectedPending
  <2>5. QED BY <2>2, <2>4, Zenon
<1>4. QED BY <1>1, <1>2, <1>3, PeersAccounted, TypeCorrect, PTL DEF Spec
==============================================================================
