--------------------------- MODULE TransportProofs ---------------------------
(***************************************************************************)
(* What carries the library's data: the connections (Connection, for every *)
(* finite set of clients and every number of connections) and the bits of  *)
(* a packet (BitStream, for every size of bytes and words and every mix of *)
(* writes and reads).  The two are proved about one after the other.       *)
(***************************************************************************)
EXTENDS ConnectionInv, BitStreamInv, SequenceTheorems, FiniteSetTheorems, CommonProofs

------------------------------------------------------------------------------
(***************************************************************************)
(* Connections: type correctness, and the inductive invariant.             *)
(***************************************************************************)
LEMMA QueueProps ==
  ASSUME NEW q \in [Client -> Seq(Events)], NEW c \in Client, NEW e \in Events
  PROVE  /\ Push(q, c, e) \in [Client -> Seq(Events)]
         /\ q[c] # << >> => Pop(q, c) \in [Client -> Seq(Events)]
BY DEF Push, Pop

LEMMA TypeInit ==
  ASSUME Init
  PROVE  TypeOK
<1>1. << >> \in Seq(Events)
  OBVIOUS
<1>2. "unused" \in Links /\ "None" \in Callbacks
  BY DEF Links, Callbacks
<1> QED
  BY <1>1, <1>2 DEF Init, TypeOK

LEMMA TypeStep ==
  ASSUME TypeOK, [Next]_vars
  PROVE  TypeOK'
<1> USE DEF TypeOK
<1>1. ASSUME NEW c \in Client, EnetStep(c)
      PROVE  TypeOK'
  <2>1. CASE StartConnecting(c)
    BY <2>1 DEF StartConnecting, serverVars, clientVars, Links
  <2>2. CASE Handshake(c)
    BY <2>2, QueueProps DEF Handshake, serverVars, clientVars, Links, Events
  <2>3. CASE ConnectTimesOut(c)
    BY <2>3, QueueProps DEF ConnectTimesOut, serverVars, clientVars, Links, Events
  <2>4. CASE ConnectionEnds(c)
    BY <2>4, QueueProps DEF ConnectionEnds, serverVars, clientVars, Links, Events
  <2> QED
    BY <1>1, <2>1, <2>2, <2>3, <2>4 DEF EnetStep
<1>2. ASSUME NEW c \in Client, ServerConnect(c)
      PROVE  TypeOK'
  <2>1. /\ serverEvents' \in [Client -> Seq(Events)]
        /\ UNCHANGED <<clientVars, link, clientEvents>>
    BY <1>2, QueueProps DEF ServerConnect, Events
  <2>2. CASE Fault
    BY <2>1, <2>2 DEF Fault, clientVars
  <2>3. ASSUME NEW id \in Ids, m_Transmitters' =
                 [m_Transmitters EXCEPT ![id] = [m_Peer |-> c, m_Disconnected |-> FALSE]],
               peerData' = [peerData EXCEPT ![c] = id],
               GotNewConnection(id, c), UNCHANGED misrouted
        PROVE  TypeOK'
    <3>1. m_Transmitters' \in [Ids -> Transmitter \cup {None}] /\ peerData' \in [Client -> Ids \cup {None}]
      BY <2>3 DEF Transmitter
    <3>2. m_Clients' \in [Ids -> Client \cup {None}]
      BY <2>3 DEF GotNewConnection
    <3>3. fault' \in BOOLEAN /\ misrouted' \in BOOLEAN
      BY <2>3 DEF GotNewConnection
    <3> QED
      BY <2>1, <3>1, <3>2, <3>3 DEF clientVars
  <2> QED
    BY <1>2, <2>2, <2>3 DEF ServerConnect
<1>3. ASSUME NEW c \in Client, ServerReceive(c)
      PROVE  TypeOK'
  BY <1>3, QueueProps DEF ServerReceive, GotMessage, Fault, Events, clientVars
<1>4. ASSUME NEW c \in Client, ServerDisconnect(c)
      PROVE  TypeOK'
  BY <1>4, QueueProps DEF ServerDisconnect, ConnectionLost, Fault, Events, clientVars
<1>5. ASSUME NEW id \in Ids, DisconnectClient(id)
      PROVE  TypeOK'
  <2>1. CASE m_Transmitters[id] = None
    BY <1>5, <2>1 DEF DisconnectClient, ForceDisconnect, Fault, clientVars
  <2>2. CASE m_Transmitters[id] # None
    <3>1. m_Transmitters[id] \in Transmitter /\ m_Transmitters[id].m_Peer \in Client
      BY <2>2 DEF Transmitter
    <3>2. [m_Transmitters[id] EXCEPT !.m_Disconnected = TRUE] \in Transmitter
      BY <3>1 DEF Transmitter
    <3>3. m_Transmitters' \in [Ids -> Transmitter \cup {None}]
      BY <1>5, <2>2, <3>2 DEF DisconnectClient, ForceDisconnect
    <3>4. link' \in [Client -> Links]
      <4>1. PICK c \in Client : link' = [link EXCEPT ![c] = IF @ = "up" THEN "closing" ELSE @]
        BY <1>5, <2>2, <3>1 DEF DisconnectClient, ForceDisconnect, Closed
      <4> QED
        BY <4>1 DEF Links
    <3> QED
      BY <1>5, <2>2, <3>3, <3>4 DEF DisconnectClient, ForceDisconnect, clientVars
  <2> QED
    BY <2>1, <2>2
<1>6. ASSUME NEW id \in Ids, ServerSends(id)
      PROVE  TypeOK'
  <2>1. CASE m_Transmitters[id] = None
    BY <1>6, <2>1 DEF ServerSends, Fault, clientVars
  <2>2. CASE m_Transmitters[id] # None
    <3>1. m_Transmitters[id].m_Peer \in Client
      BY <2>2 DEF Transmitter
    <3> QED
      BY <1>6, <2>2, <3>1, QueueProps DEF ServerSends, clientVars, Events
  <2> QED
    BY <2>1, <2>2
<1>7. ASSUME NEW c \in Client, ClientUpdate(c)
      PROVE  TypeOK'
  <2>1. CASE ClientConnect(c)
    BY <2>1, QueueProps DEF ClientConnect, GotConnection, serverVars, Callbacks, Events
  <2>2. CASE ClientReceive(c)
    BY <2>2, QueueProps DEF ClientReceive, serverVars, clientVars, Events
  <2>3. CASE ClientDisconnect(c)
    BY <2>3, QueueProps DEF ClientDisconnect, serverVars, Callbacks, Events
  <2> QED
    BY <1>7, <2>1, <2>2, <2>3 DEF ClientUpdate
<1>8. ASSUME NEW c \in Client, Disconnect(c)
      PROVE  TypeOK'
  BY <1>8 DEF Disconnect, Closed, Links, serverVars
<1>9. ASSUME NEW c \in Client, ClientSends(c)
      PROVE  TypeOK'
  BY <1>9, QueueProps DEF ClientSends, serverVars, clientVars, Events
<1>10. CASE UNCHANGED vars
  BY <1>10 DEF vars, serverVars, clientVars, enetVars
<1> HIDE DEF TypeOK
<1> QED
  BY <1>1, <1>2, <1>3, <1>4, <1>5, <1>6, <1>7, <1>8, <1>9, <1>10 DEF Next, ServerUpdate

------------------------------------------------------------------------------
(***************************************************************************)
(* How the queue of one end develops.                                      *)
(***************************************************************************)
AppendShape(q, e) ==
  /\ Append(q, e) # << >>
  /\ Len(q) \in Nat
  /\ Len(Append(q, e)) = Len(q) + 1
  /\ Append(q, e)[Len(q) + 1] = e
  /\ \A i \in 1 .. Len(q) : Append(q, e)[i] = q[i]
  /\ q = << >> <=> Len(q) = 0

LEMMA AppendProps ==
  ASSUME NEW q \in Seq(Events), NEW e \in Events
  PROVE  AppendShape(q, e)
BY DEF AppendShape

\* t is q without its first element, which is e.
TailShape(q, e, t) ==
  /\ t \in Seq(Events)
  /\ Len(q) \in Nat /\ Len(q) >= 1 /\ q # << >>
  /\ q[1] = e
  /\ Len(t) = Len(q) - 1
  /\ \A i \in 1 .. Len(q) - 1 : t[i] = q[i + 1]
  /\ Len(q) = 1 => t = << >>
  /\ Len(q) > 1 => t # << >>

LEMMA TailProps ==
  ASSUME NEW q \in Seq(Events), q # << >>
  PROVE  TailShape(q, Head(q), Tail(q))
<1>1. Len(q) \in Nat /\ Len(q) >= 1 /\ q[1] = Head(q)
  OBVIOUS
<1>2. /\ Tail(q) \in Seq(Events)
      /\ Len(Tail(q)) = Len(q) - 1
      /\ \A i \in 1 .. Len(q) - 1 : Tail(q)[i] = q[i + 1]
  OBVIOUS
<1> DEFINE t == Tail(q)
<1> HIDE DEF t
<1>3. t \in Seq(Events) /\ Len(t) = Len(q) - 1
  BY <1>2 DEF t
<1>4. (Len(t) = 0 => t = << >>) /\ (Len(t) # 0 => t # << >>)
  BY <1>3
<1>5. (Len(q) = 1 => Tail(q) = << >>) /\ (Len(q) > 1 => Tail(q) # << >>)
  BY <1>1, <1>3, <1>4 DEF t
<1> QED
  BY <1>1, <1>2, <1>5 DEF TailShape

LEMMA ShapeReceive ==
  ASSUME NEW q \in Seq(Events), NEW data, ServerShape(q, data, "up")
  PROVE  ServerShape(Append(q, "RECEIVE"), data, "up")
<1>1. AppendShape(q, "RECEIVE")
  BY AppendProps DEF Events
<1> QED
  BY <1>1 DEF AppendShape, ServerShape

LEMMA ShapeEnd ==
  ASSUME NEW q \in Seq(Events), NEW data, NEW l \in {"up", "closing"}, ServerShape(q, data, l)
  PROVE  ServerShape(Append(q, "DISCONNECT"), data, "down")
<1>1. AppendShape(q, "DISCONNECT")
  BY AppendProps DEF Events
<1> QED
  BY <1>1 DEF AppendShape, ServerShape

LEMMA ShapeClosed ==
  ASSUME NEW q \in Seq(Events), NEW data, ServerShape(q, data, "up")
  PROVE  ServerShape(q, data, "closing")
BY DEF ServerShape

LEMMA ShapePopConnect ==
  ASSUME NEW q \in Seq(Events), NEW data, NEW l \in Links, ServerShape(q, data, l),
         NEW t, TailShape(q, "CONNECT", t), NEW id \in Nat
  PROVE  ServerShape(t, id, l) /\ data = None
<1>1. Len(q) \in Nat /\ Len(t) \in Nat
  BY DEF TailShape
<1>2. q[1] = "CONNECT" /\ data = None /\ l \notin {"unused", "connecting"}
  BY <1>1 DEF ServerShape, TailShape
<1>3. l = "down" => Len(q) > 1
  BY <1>1, <1>2 DEF ServerShape, TailShape
<1>4. id # None
  BY NoneAssumption
<1>5. \A i \in 1 .. Len(q) - 1 : t[i] # "CONNECT"
  BY <1>1, <1>2 DEF ServerShape, TailShape
<1>6. \A i \in 1 .. Len(q) - 1 : t[i] = "DISCONNECT" => i = Len(q) - 1 /\ l = "down"
  BY <1>1 DEF ServerShape, TailShape
<1>7. l = "down" => t[Len(q) - 1] = "DISCONNECT"
  BY <1>1, <1>3 DEF ServerShape, TailShape
<1> QED
  BY <1>1, <1>2, <1>3, <1>4, <1>5, <1>6, <1>7 DEF ServerShape, TailShape

LEMMA ShapePopReceive ==
  ASSUME NEW q \in Seq(Events), NEW data, NEW l \in Links, ServerShape(q, data, l),
         NEW t, TailShape(q, "RECEIVE", t)
  PROVE  ServerShape(t, data, l) /\ data # None
<1>1. Len(q) \in Nat /\ Len(t) \in Nat
  BY DEF TailShape
<1>2. q[1] = "RECEIVE" /\ data # None /\ l \notin {"unused", "connecting"}
  BY <1>1 DEF ServerShape, TailShape
<1>3. l = "down" => Len(q) > 1
  BY <1>1, <1>2 DEF ServerShape, TailShape
<1>5. \A i \in 1 .. Len(q) - 1 : t[i] # "CONNECT"
  BY <1>1, <1>2 DEF ServerShape, TailShape
<1>6. \A i \in 1 .. Len(q) - 1 : t[i] = "DISCONNECT" => i = Len(q) - 1 /\ l = "down"
  BY <1>1 DEF ServerShape, TailShape
<1>7. l = "down" => t[Len(q) - 1] = "DISCONNECT"
  BY <1>1, <1>3 DEF ServerShape, TailShape
<1> QED
  BY <1>1, <1>2, <1>3, <1>5, <1>6, <1>7 DEF ServerShape, TailShape

LEMMA ShapePopDisconnect ==
  ASSUME NEW q \in Seq(Events), NEW data, NEW l \in Links, ServerShape(q, data, l),
         NEW t, TailShape(q, "DISCONNECT", t)
  PROVE  ServerShape(t, None, l) /\ data # None
<1>1. Len(q) \in Nat /\ Len(t) \in Nat
  BY DEF TailShape
<1>2. q[1] = "DISCONNECT" /\ Len(q) = 1 /\ l = "down" /\ data # None
  BY <1>1 DEF ServerShape, TailShape
<1>3. t = << >> /\ Len(t) = 0
  BY <1>1, <1>2 DEF TailShape
<1> QED
  BY <1>2, <1>3 DEF ServerShape

LEMMA ClientAppend ==
  ASSUME NEW q \in Seq(Events), NEW r \in BOOLEAN, NEW l \in Links, NEW e \in Events,
         ClientShape(q, r, l), e # "CONNECT" \/ q = << >>,
         e = "RECEIVE" => l = "up", NEW k \in Links \ {"unused", "connecting"},
         k = "up" => l = "up" \/ e = "CONNECT"
  PROVE  ClientShape(Append(q, e), r, k)
<1>1. AppendShape(q, e)
  BY AppendProps
<1>2. \A i \in 1 .. Len(q) + 1 : i = Len(q) + 1 \/ i \in 1 .. Len(q)
  BY <1>1 DEF AppendShape
<1> QED
  BY <1>1, <1>2 DEF AppendShape, ClientShape

LEMMA ClientPop ==
  ASSUME NEW q \in Seq(Events), NEW r \in BOOLEAN, NEW l \in Links, ClientShape(q, r, l),
         NEW e, NEW t, TailShape(q, e, t), NEW s \in BOOLEAN, r \/ e = "CONNECT" => s
  PROVE  ClientShape(t, s, l) /\ (e = "RECEIVE" => r)
<1>1. l \notin {"unused", "connecting"}
  BY DEF ClientShape, TailShape
<1>2. \A i \in 1 .. Len(q) - 1 : i + 1 \in 1 .. Len(q) /\ i + 1 # 1 /\ 1 \in 1 .. Len(q)
  BY DEF TailShape
<1>3. \A i \in 1 .. Len(t) : t[i] # "CONNECT" /\ (t[i] = "RECEIVE" => s)
  BY <1>2 DEF ClientShape, TailShape
<1>4. l = "up" => s
  BY DEF ClientShape, TailShape
<1>5. e = "RECEIVE" => r
  BY DEF ClientShape, TailShape
<1> QED
  BY <1>1, <1>3, <1>4, <1>5 DEF ClientShape

------------------------------------------------------------------------------
(***************************************************************************)
(* The peers ENet has in use.                                              *)
(***************************************************************************)
LEMMA OccupiedFinite ==
  IsFiniteSet(OccupiedPeers) /\ Cardinality(OccupiedPeers) \in Nat
BY ClientAssumption, FS_Subset, FS_CardinalityType DEF OccupiedPeers

LEMMA OccupiedShrinks ==
  ASSUME PeersBounded, OccupiedPeers' \subseteq OccupiedPeers
  PROVE  PeersBounded'
<1>1. IsFiniteSet(OccupiedPeers') /\ Cardinality(OccupiedPeers') <= Cardinality(OccupiedPeers)
  BY OccupiedFinite, FS_Subset
<1>2. Cardinality(OccupiedPeers') \in Nat
  BY <1>1, FS_CardinalityType
<1> QED
  BY <1>1, <1>2, OccupiedFinite, ConnectionsAssumption DEF PeersBounded

\* While a CONNECT waits to be handled there is a transmitter left for it.
LEMMA TransmitterLeft ==
  ASSUME TypeOK, ConnectionSafe, NEW c \in Client, serverEvents[c] # << >>, peerData[c] = None
  PROVE  \E id \in Ids : m_Transmitters[id] = None
<1> SUFFICES ASSUME \A id \in Ids : m_Transmitters[id] # None
             PROVE  FALSE
  OBVIOUS
<1> DEFINE O == OccupiedPeers \ {c}
           f == [id \in Ids |-> m_Transmitters[id].m_Peer]
<1>1. ASSUME NEW id \in Ids
      PROVE  /\ m_Transmitters[id].m_Peer \in Client
             /\ peerData[m_Transmitters[id].m_Peer] = id
             /\ peerData[m_Transmitters[id].m_Peer] # None
  <2>1. m_Transmitters[id] \in Transmitter
    BY DEF TypeOK
  <2>2. id # None
    BY NoneAssumption, ConnectionsAssumption DEF Ids
  <2> QED
    BY <2>1, <2>2 DEF Transmitter, ConnectionSafe, SlotsAgree
<1>2. ASSUME NEW d \in Client, peerData[d] # None
      PROVE  d \in O
  <2>1. ServerShape(serverEvents[d], peerData[d], link[d]) /\ link[d] \in Links
    BY DEF ConnectionSafe, ServerQueueShape, TypeOK
  <2> QED
    BY <1>2, <2>1 DEF ServerShape, OccupiedPeers, Links
<1>3. f \in [Ids -> O]
  BY <1>1, <1>2
<1>4. \A i, j \in Ids : f[i] = f[j] => i = j
  BY <1>1
<1>5. c \in OccupiedPeers
  BY DEF OccupiedPeers
<1>6. IsFiniteSet(O) /\ Cardinality(O) = Cardinality(OccupiedPeers) - 1
  BY <1>5, OccupiedFinite, FS_RemoveElement
<1> HIDE DEF O, f
<1>7. f \in Injection(Ids, O)
  BY <1>3, <1>4 DEF Injection, IsInjective
<1>8. Cardinality(Ids) <= Cardinality(O)
  BY <1>6, <1>7, FS_Injection
<1>9. Cardinality(Ids) = MaxConnections
  BY ConnectionsAssumption, FS_Interval DEF Ids
<1> QED
  BY <1>6, <1>8, <1>9, OccupiedFinite, ConnectionsAssumption DEF ConnectionSafe, PeersBounded

------------------------------------------------------------------------------
(***************************************************************************)
(* The steps.  Those that leave the server's tables alone come first.      *)
(***************************************************************************)
LEMMA TablesUnchanged ==
  ASSUME SlotsAgree, UNCHANGED serverVars
  PROVE  SlotsAgree'
BY DEF SlotsAgree, serverVars

LEMMA SafeEnet ==
  ASSUME TypeOK, ConnectionSafe, NEW c \in Client, EnetStep(c)
  PROVE  ConnectionSafe'
<1> DEFINE ready(d) == m_Disconnected[d] \/ m_Protocol[d]
<1>1. /\ UNCHANGED <<serverVars, clientVars, fault, misrouted>>
      /\ serverEvents \in [Client -> Seq(Events)] /\ clientEvents \in [Client -> Seq(Events)]
      /\ link \in [Client -> Links]
      /\ \A d \in Client : ready(d) \in BOOLEAN
      /\ \A d \in Client : ServerShape(serverEvents[d], peerData[d], link[d])
      /\ \A d \in Client : ClientShape(clientEvents[d], ready(d), link[d])
  BY DEF EnetStep, StartConnecting, Handshake, ConnectTimesOut, ConnectionEnds, TypeOK,
         ConnectionSafe, ServerQueueShape, ClientQueueShape
<1>2. SlotsAgree' /\ NothingMisrouted' /\ NoFault'
  BY <1>1, TablesUnchanged DEF ConnectionSafe, NothingMisrouted, NoFault
<1> HIDE DEF ready
<1>3. /\ ServerShape(serverEvents'[c], peerData[c], link'[c])
      /\ ClientShape(clientEvents'[c], ready(c), link'[c])
  <2>1. CASE StartConnecting(c)
    BY <1>1, <2>1 DEF StartConnecting, ServerShape, ClientShape
  <2>2. CASE Handshake(c)
    <3>1. serverEvents[c] = << >> /\ clientEvents[c] = << >> /\ peerData[c] = None
      BY <1>1, <2>2 DEF Handshake, ServerShape, ClientShape
    <3>2. serverEvents'[c] = <<"CONNECT">> /\ clientEvents'[c] = <<"CONNECT">> /\ link'[c] = "up"
      BY <1>1, <2>2, <3>1 DEF Handshake, Push
    <3> QED
      BY <3>1, <3>2 DEF ServerShape, ClientShape
  <2>3. CASE ConnectTimesOut(c)
    <3>1. clientEvents[c] = << >>
      BY <1>1, <2>3 DEF ConnectTimesOut, ClientShape
    <3>2. /\ serverEvents'[c] = serverEvents[c]
          /\ clientEvents'[c] = <<"DISCONNECT">>
          /\ link'[c] = "down" /\ link[c] = "connecting"
      BY <1>1, <2>3, <3>1 DEF ConnectTimesOut, Push
    <3> QED
      BY <1>1, <3>1, <3>2 DEF ServerShape, ClientShape
  <2>4. CASE ConnectionEnds(c)
    <3>1. link[c] \in {"up", "closing"} /\ link'[c] = "down"
      BY <1>1, <2>4 DEF ConnectionEnds
    <3>2. serverEvents'[c] = Append(serverEvents[c], "DISCONNECT")
      BY <1>1, <2>4 DEF ConnectionEnds, Push
    <3>3. clientEvents'[c] \in {Append(clientEvents[c], "DISCONNECT"), clientEvents[c]}
      BY <1>1, <2>4 DEF ConnectionEnds, Push
    <3>4. ServerShape(serverEvents'[c], peerData[c], link'[c])
      BY <1>1, <3>1, <3>2, ShapeEnd
    <3>5. ClientShape(Append(clientEvents[c], "DISCONNECT"), ready(c), "down")
      BY <1>1, <3>1, ClientAppend DEF Links, Events
    <3>6. ClientShape(clientEvents[c], ready(c), "down")
      BY <1>1, <3>1 DEF ClientShape
    <3> QED
      BY <3>1, <3>3, <3>4, <3>5, <3>6
  <2> QED
    BY <2>1, <2>2, <2>3, <2>4 DEF EnetStep
<1>4. ASSUME NEW d \in Client, d # c
      PROVE  /\ serverEvents'[d] = serverEvents[d]
             /\ clientEvents'[d] = clientEvents[d]
             /\ link'[d] = link[d]
  BY <1>1, <1>4 DEF EnetStep, StartConnecting, Handshake, ConnectTimesOut, ConnectionEnds, Push
<1>5. ServerQueueShape'
  BY <1>1, <1>3, <1>4 DEF ServerQueueShape, serverVars
<1>6. ClientQueueShape'
  BY <1>1, <1>3, <1>4 DEF ClientQueueShape, clientVars, ready
<1>7. PeersBounded'
  <2>1. CASE Handshake(c)
    <3>1. OccupiedPeers' \subseteq OccupiedPeers \cup {c}
      BY <1>4 DEF OccupiedPeers
    <3>2. /\ IsFiniteSet(OccupiedPeers \cup {c})
          /\ Cardinality(OccupiedPeers \cup {c}) \in Nat
          /\ Cardinality(OccupiedPeers \cup {c}) <= Cardinality(OccupiedPeers) + 1
      <4>1. IsFiniteSet(OccupiedPeers \cup {c})
        BY OccupiedFinite, FS_AddElement
      <4>2. \/ Cardinality(OccupiedPeers \cup {c}) = Cardinality(OccupiedPeers)
            \/ Cardinality(OccupiedPeers \cup {c}) = Cardinality(OccupiedPeers) + 1
        BY OccupiedFinite, FS_AddElement
      <4> QED
        BY <4>1, <4>2, OccupiedFinite
    <3>3. Cardinality(OccupiedPeers') <= Cardinality(OccupiedPeers \cup {c})
          /\ Cardinality(OccupiedPeers') \in Nat
      BY <3>1, <3>2, FS_Subset, FS_CardinalityType
    <3>4. Cardinality(OccupiedPeers) < MaxConnections
      BY <2>1 DEF Handshake
    <3> QED
      BY <3>2, <3>3, <3>4, OccupiedFinite, ConnectionsAssumption DEF PeersBounded
  <2>2. CASE ~Handshake(c)
    <3>1. c \in OccupiedPeers' => c \in OccupiedPeers
      BY <1>1, <2>2 DEF EnetStep, StartConnecting, ConnectTimesOut, ConnectionEnds, OccupiedPeers
    <3>2. OccupiedPeers' \subseteq OccupiedPeers
      BY <1>4, <3>1 DEF OccupiedPeers
    <3> QED
      BY <3>2, OccupiedShrinks DEF ConnectionSafe
  <2> QED
    BY <2>1, <2>2
<1> QED
  BY <1>2, <1>5, <1>6, <1>7 DEF ConnectionSafe

\* A step that takes one event off the server's queue for c.
LEMMA PopKeepsPeers ==
  ASSUME TypeOK, ConnectionSafe, NEW c \in Client, serverEvents[c] # << >>,
         serverEvents' = Pop(serverEvents, c), UNCHANGED link
  PROVE  /\ PeersBounded'
         /\ TailShape(serverEvents[c], Head(serverEvents[c]), serverEvents'[c])
         /\ \A d \in Client : d # c => serverEvents'[d] = serverEvents[d]
         /\ ServerShape(serverEvents[c], peerData[c], link[c])
         /\ serverEvents[c] \in Seq(Events) /\ link[c] \in Links
<1>1. serverEvents[c] \in Seq(Events) /\ link[c] \in Links
  BY DEF TypeOK
<1>2. /\ serverEvents'[c] = Tail(serverEvents[c])
      /\ \A d \in Client : d # c => serverEvents'[d] = serverEvents[d]
  BY DEF Pop, TypeOK
<1>3. OccupiedPeers' \subseteq OccupiedPeers
  BY <1>2 DEF OccupiedPeers
<1>4. PeersBounded'
  BY <1>3, OccupiedShrinks DEF ConnectionSafe
<1> QED
  BY <1>1, <1>2, <1>4, TailProps DEF ConnectionSafe, ServerQueueShape

LEMMA SafeServerConnect ==
  ASSUME TypeOK, ConnectionSafe, NEW c \in Client, ServerConnect(c)
  PROVE  ConnectionSafe'
<1>1. /\ serverEvents[c] # << >> /\ Head(serverEvents[c]) = "CONNECT"
      /\ serverEvents' = Pop(serverEvents, c)
      /\ UNCHANGED <<clientVars, link, clientEvents>>
  BY DEF ServerConnect
<1>2. /\ PeersBounded'
      /\ TailShape(serverEvents[c], "CONNECT", serverEvents'[c])
      /\ \A d \in Client : d # c => serverEvents'[d] = serverEvents[d]
      /\ ServerShape(serverEvents[c], peerData[c], link[c])
      /\ serverEvents[c] \in Seq(Events) /\ link[c] \in Links
  BY <1>1, PopKeepsPeers
<1>3. peerData[c] = None
  <2>1. 1 \in 1 .. Len(serverEvents[c]) /\ serverEvents[c][1] = "CONNECT"
    BY <1>2 DEF TailShape
  <2> QED
    BY <1>2, <2>1 DEF ServerShape
<1>4. PICK id \in Ids :
        /\ m_Transmitters[id] = None
        /\ m_Transmitters' =
             [m_Transmitters EXCEPT ![id] = [m_Peer |-> c, m_Disconnected |-> FALSE]]
        /\ peerData' = [peerData EXCEPT ![c] = id]
        /\ GotNewConnection(id, c)
        /\ UNCHANGED misrouted
  BY <1>1, <1>3, TransmitterLeft DEF ServerConnect
<1>5. id \in Nat /\ id # None
  BY NoneAssumption, ConnectionsAssumption DEF Ids
<1>6. ServerQueueShape'
  <2>1. ServerShape(serverEvents'[c], id, link[c])
    BY <1>2, <1>5, ShapePopConnect
  <2> QED
    BY <1>1, <1>2, <1>4, <2>1 DEF ServerQueueShape, ConnectionSafe, TypeOK
<1>7. ClientQueueShape' /\ NothingMisrouted'
  BY <1>1, <1>4 DEF ClientQueueShape, NothingMisrouted, ConnectionSafe, clientVars
<1>8. m_Clients[id] = None
  BY <1>4 DEF ConnectionSafe, SlotsAgree
<1>9. NoFault'
  BY <1>4, <1>8 DEF GotNewConnection, NoFault, ConnectionSafe
<1>10. SlotsAgree'
  <2>1. /\ m_Transmitters'[id] = [m_Peer |-> c, m_Disconnected |-> FALSE]
        /\ m_Transmitters'[id] # None
        /\ \A i \in Ids : i # id => m_Transmitters'[i] = m_Transmitters[i]
    <3>1. [m_Peer |-> c, m_Disconnected |-> FALSE] # None
      <4>1. [m_Peer |-> c, m_Disconnected |-> FALSE] \in Transmitter
        BY DEF Transmitter
      <4> QED
        BY <4>1, NoneAssumption
    <3> QED
      BY <1>4, <3>1 DEF TypeOK
  <2>2. peerData'[c] = id /\ \A d \in Client : d # c => peerData'[d] = peerData[d]
    BY <1>4 DEF TypeOK
  <2>3. \A i \in Ids : m_Clients'[i] = m_Clients[i] \/ (i = id /\ m_Clients'[i] = c)
    BY <1>4 DEF GotNewConnection, TypeOK
  <2>4. \A i \in Ids : m_Transmitters[i] # None =>
          i # id /\ m_Transmitters[i].m_Peer \in Client /\ m_Transmitters[i].m_Peer # c
    <3>1. \A i \in Ids : m_Transmitters[i] # None => m_Transmitters[i].m_Peer \in Client
      <4>1. \A i \in Ids : m_Transmitters[i] # None => m_Transmitters[i] \in Transmitter
        BY DEF TypeOK
      <4> QED
        BY <4>1 DEF Transmitter
    <3>2. \A i \in Ids : i # None
      BY NoneAssumption, ConnectionsAssumption DEF Ids
    <3> QED
      BY <1>3, <1>4, <3>1, <3>2 DEF ConnectionSafe, SlotsAgree
  <2> QED
    BY <1>3, <1>4, <1>8, <2>1, <2>2, <2>3, <2>4 DEF SlotsAgree, ConnectionSafe
<1> QED
  BY <1>2, <1>6, <1>7, <1>9, <1>10 DEF ConnectionSafe

LEMMA SafeServerReceive ==
  ASSUME TypeOK, ConnectionSafe, NEW c \in Client, ServerReceive(c)
  PROVE  ConnectionSafe'
<1>1. /\ serverEvents[c] # << >> /\ Head(serverEvents[c]) = "RECEIVE"
      /\ serverEvents' = Pop(serverEvents, c)
      /\ UNCHANGED <<clientVars, link, clientEvents>>
  BY DEF ServerReceive, GotMessage
<1>2. /\ PeersBounded'
      /\ TailShape(serverEvents[c], "RECEIVE", serverEvents'[c])
      /\ \A d \in Client : d # c => serverEvents'[d] = serverEvents[d]
      /\ ServerShape(serverEvents[c], peerData[c], link[c])
      /\ serverEvents[c] \in Seq(Events) /\ link[c] \in Links
  BY <1>1, PopKeepsPeers
<1>3. peerData[c] # None /\ ServerShape(serverEvents'[c], peerData[c], link[c])
  BY <1>2, ShapePopReceive
<1>4. /\ peerData[c] \in Ids
      /\ m_Transmitters[peerData[c]] # None
      /\ m_Transmitters[peerData[c]].m_Peer = c
  BY <1>3 DEF ConnectionSafe, SlotsAgree, TypeOK
<1>5. m_Clients[peerData[c]] \in {c, None}
  BY <1>4 DEF ConnectionSafe, SlotsAgree
<1>6. UNCHANGED <<m_Transmitters, peerData, m_Clients, fault, misrouted>>
  <2>1. misrouted \in BOOLEAN /\ misrouted = FALSE
    BY DEF ConnectionSafe, NothingMisrouted, TypeOK
  <2>2. misrouted' = FALSE /\ UNCHANGED <<m_Transmitters, peerData, m_Clients, fault>>
    BY <1>3, <1>4, <1>5, <2>1 DEF ServerReceive, GotMessage
  <2> QED
    BY <2>1, <2>2
<1>7. SlotsAgree' /\ NothingMisrouted' /\ NoFault'
  BY <1>6, TablesUnchanged DEF ConnectionSafe, NothingMisrouted, NoFault, serverVars
<1>8. ServerQueueShape' /\ ClientQueueShape'
  BY <1>1, <1>2, <1>3, <1>6 DEF ServerQueueShape, ClientQueueShape, ConnectionSafe, clientVars
<1> QED
  BY <1>2, <1>7, <1>8 DEF ConnectionSafe

LEMMA SafeServerDisconnect ==
  ASSUME TypeOK, ConnectionSafe, NEW c \in Client, ServerDisconnect(c)
  PROVE  ConnectionSafe'
<1>1. /\ serverEvents[c] # << >> /\ Head(serverEvents[c]) = "DISCONNECT"
      /\ serverEvents' = Pop(serverEvents, c)
      /\ UNCHANGED <<clientVars, link, clientEvents>>
  BY DEF ServerDisconnect, ConnectionLost
<1>2. /\ PeersBounded'
      /\ TailShape(serverEvents[c], "DISCONNECT", serverEvents'[c])
      /\ \A d \in Client : d # c => serverEvents'[d] = serverEvents[d]
      /\ ServerShape(serverEvents[c], peerData[c], link[c])
      /\ serverEvents[c] \in Seq(Events) /\ link[c] \in Links
  BY <1>1, PopKeepsPeers
<1>3. peerData[c] # None /\ ServerShape(serverEvents'[c], None, link[c])
  BY <1>2, ShapePopDisconnect
<1> DEFINE id == peerData[c]
<1>4. id \in Ids /\ m_Transmitters[id] # None /\ m_Transmitters[id].m_Peer = c
  BY <1>3 DEF ConnectionSafe, SlotsAgree, TypeOK
<1>5. /\ m_Clients' = [m_Clients EXCEPT ![id] = None]
      /\ peerData' = [peerData EXCEPT ![c] = None]
      /\ m_Transmitters' = [m_Transmitters EXCEPT ![id] = None]
      /\ UNCHANGED <<fault, misrouted>>
  BY <1>3, <1>4 DEF ServerDisconnect, ConnectionLost
<1>6. /\ m_Clients'[id] = None /\ peerData'[c] = None /\ m_Transmitters'[id] = None
      /\ \A i \in Ids : i # id => m_Clients'[i] = m_Clients[i] /\ m_Transmitters'[i] = m_Transmitters[i]
      /\ \A d \in Client : d # c => peerData'[d] = peerData[d]
  BY <1>4, <1>5 DEF TypeOK
<1>7. SlotsAgree'
  <2>1. \A i \in Ids : m_Transmitters[i] # None /\ i # id => m_Transmitters[i].m_Peer # c
    BY DEF ConnectionSafe, SlotsAgree
  <2>2. \A d \in Client : peerData[d] # None /\ d # c => peerData[d] \in Ids /\ peerData[d] # id
    BY <1>4 DEF ConnectionSafe, SlotsAgree, TypeOK
  <2>3. \A i \in Ids : m_Transmitters[i] # None => m_Transmitters[i].m_Peer \in Client
    <3>1. \A i \in Ids : m_Transmitters[i] # None => m_Transmitters[i] \in Transmitter
      BY DEF TypeOK
    <3> QED
      BY <3>1 DEF Transmitter
  <2> HIDE DEF id
  <2> QED
    BY <1>6, <2>1, <2>2, <2>3 DEF ConnectionSafe, SlotsAgree
<1>8. ServerQueueShape' /\ ClientQueueShape'
  BY <1>1, <1>2, <1>3, <1>6 DEF ServerQueueShape, ClientQueueShape, ConnectionSafe, clientVars
<1>9. NothingMisrouted' /\ NoFault'
  BY <1>5 DEF ConnectionSafe, NothingMisrouted, NoFault
<1> QED
  BY <1>2, <1>7, <1>8, <1>9 DEF ConnectionSafe

\* Closing a connection keeps the shape of its queues and its peer.
LEMMA CloseKeepsShape ==
  ASSUME TypeOK, ConnectionSafe, NEW c \in Client, link' = Closed(c), UNCHANGED <<serverEvents, peerData>>
  PROVE  /\ ServerQueueShape'
         /\ PeersBounded'
         /\ \A d \in Client : \A q, r : ClientShape(q, r, link[d]) => ClientShape(q, r, link'[d])
<1>1. \A d \in Client : link'[d] = link[d] \/ (link[d] = "up" /\ link'[d] = "closing")
  BY DEF Closed, TypeOK
<1>2. OccupiedPeers' \subseteq OccupiedPeers
  BY <1>1 DEF OccupiedPeers
<1>3. PeersBounded'
  BY <1>2, OccupiedShrinks DEF ConnectionSafe
<1>4. \A d \in Client : \A q, r : ClientShape(q, r, link[d]) => ClientShape(q, r, link'[d])
  BY <1>1 DEF ClientShape
<1>5. \A d \in Client : ServerShape(serverEvents[d], peerData[d], link'[d])
  BY <1>1, ShapeClosed DEF ConnectionSafe, ServerQueueShape, TypeOK
<1> QED
  BY <1>3, <1>4, <1>5 DEF ServerQueueShape

LEMMA SafeDisconnectClient ==
  ASSUME TypeOK, ConnectionSafe, NEW id \in Ids, DisconnectClient(id)
  PROVE  ConnectionSafe'
<1>1. m_Transmitters[id] # None
  BY DEF DisconnectClient, ForceDisconnect, ConnectionSafe, SlotsAgree
<1>2. m_Transmitters[id] \in Transmitter /\ m_Transmitters[id].m_Peer \in Client
  BY <1>1 DEF TypeOK, Transmitter
<1> DEFINE t == [m_Transmitters[id] EXCEPT !.m_Disconnected = TRUE]
<1>3. t # None /\ t.m_Peer = m_Transmitters[id].m_Peer
  BY <1>2, NoneAssumption DEF Transmitter
<1>4. /\ m_Transmitters'[id] = t
      /\ \A i \in Ids : i # id => m_Transmitters'[i] = m_Transmitters[i]
      /\ link' = Closed(m_Transmitters[id].m_Peer)
      /\ UNCHANGED <<peerData, m_Clients, fault, misrouted, clientVars, serverEvents, clientEvents>>
  BY <1>1 DEF DisconnectClient, ForceDisconnect, TypeOK
<1> HIDE DEF t
<1>5. SlotsAgree'
  <2>1. \A i \in Ids : /\ m_Transmitters'[i] # None <=> m_Transmitters[i] # None
                       /\ m_Transmitters'[i].m_Peer = m_Transmitters[i].m_Peer
    BY <1>1, <1>3, <1>4
  <2>2. \A d \in Client : peerData[d] # None => peerData[d] \in Ids
    BY DEF TypeOK
  <2> QED
    BY <1>4, <2>1, <2>2 DEF ConnectionSafe, SlotsAgree
<1>6. /\ ServerQueueShape'
      /\ PeersBounded'
      /\ \A d \in Client : \A q, r : ClientShape(q, r, link[d]) => ClientShape(q, r, link'[d])
  BY <1>2, <1>4, CloseKeepsShape
<1>7. ClientQueueShape'
  BY <1>4, <1>6 DEF ConnectionSafe, ClientQueueShape, clientVars
<1>8. NothingMisrouted' /\ NoFault'
  BY <1>4 DEF ConnectionSafe, NothingMisrouted, NoFault
<1> QED
  BY <1>5, <1>6, <1>7, <1>8 DEF ConnectionSafe

LEMMA SafeServerSends ==
  ASSUME TypeOK, ConnectionSafe, NEW id \in Ids, ServerSends(id)
  PROVE  ConnectionSafe'
<1>1. m_Transmitters[id] # None /\ m_Transmitters[id].m_Peer = m_Clients[id]
  BY DEF ServerSends, ConnectionSafe, SlotsAgree
<1> DEFINE c == m_Transmitters[id].m_Peer
<1>2. c \in Client
  BY <1>1 DEF TypeOK, Transmitter
<1>3. /\ link[c] = "up"
      /\ clientEvents' = Push(clientEvents, c, "RECEIVE")
      /\ misrouted' = (misrouted \/ c # m_Clients[id])
      /\ UNCHANGED <<m_Transmitters, peerData, m_Clients, fault, clientVars, link, serverEvents>>
  BY <1>1 DEF ServerSends
<1> HIDE DEF c
<1>4. SlotsAgree' /\ NoFault'
  BY <1>3, TablesUnchanged DEF ConnectionSafe, NoFault, serverVars
<1>5. NothingMisrouted'
  BY <1>1, <1>3 DEF ConnectionSafe, NothingMisrouted, c
<1>6. ServerQueueShape' /\ OccupiedPeers' = OccupiedPeers
  BY <1>3 DEF ConnectionSafe, ServerQueueShape, OccupiedPeers
<1>7. PeersBounded'
  BY <1>6 DEF ConnectionSafe, PeersBounded
<1>8. ClientQueueShape'
  <2>1. ClientShape(clientEvents[c], m_Disconnected[c] \/ m_Protocol[c], "up")
    BY <1>2, <1>3 DEF ConnectionSafe, ClientQueueShape
  <2>2. clientEvents[c] \in Seq(Events) /\ (m_Disconnected[c] \/ m_Protocol[c]) \in BOOLEAN
    BY <1>2 DEF TypeOK
  <2>3. ClientShape(Append(clientEvents[c], "RECEIVE"), m_Disconnected[c] \/ m_Protocol[c], "up")
    BY <2>1, <2>2, ClientAppend DEF Links, Events
  <2>4. /\ clientEvents'[c] = Append(clientEvents[c], "RECEIVE")
        /\ \A d \in Client : d # c => clientEvents'[d] = clientEvents[d]
    BY <1>2, <1>3 DEF Push, TypeOK
  <2> QED
    BY <1>3, <2>3, <2>4 DEF ConnectionSafe, ClientQueueShape, clientVars
<1> QED
  BY <1>4, <1>5, <1>6, <1>7, <1>8 DEF ConnectionSafe

LEMMA SafeClientUpdate ==
  ASSUME TypeOK, ConnectionSafe, NEW c \in Client, ClientUpdate(c)
  PROVE  ConnectionSafe'
<1> DEFINE ready == m_Disconnected[c] \/ m_Protocol[c]
           e == Head(clientEvents[c])
<1>1. /\ clientEvents[c] # << >>
      /\ clientEvents' = Pop(clientEvents, c)
      /\ UNCHANGED <<serverVars, m_Disconnected, link, serverEvents, misrouted>>
      /\ e \in {"RECEIVE", "DISCONNECT"} => UNCHANGED m_Protocol
      /\ e = "CONNECT" => m_Protocol' = [m_Protocol EXCEPT ![c] = TRUE]
      /\ e \in {"CONNECT", "RECEIVE", "DISCONNECT"}
      /\ e # "RECEIVE" => UNCHANGED fault
      /\ e = "RECEIVE" => fault' = (fault \/ (~m_Disconnected[c] /\ ~m_Protocol[c]))
  BY DEF ClientUpdate, ClientConnect, GotConnection, ClientReceive, ClientDisconnect, clientVars
<1>2. /\ clientEvents'[c] = Tail(clientEvents[c])
      /\ \A d \in Client : d # c => clientEvents'[d] = clientEvents[d]
      /\ clientEvents[c] \in Seq(Events) /\ link[c] \in Links
      /\ ready \in BOOLEAN
  BY <1>1 DEF Pop, TypeOK
<1>3. TailShape(clientEvents[c], e, clientEvents'[c]) /\ ClientShape(clientEvents[c], ready, link[c])
  BY <1>1, <1>2, TailProps DEF ConnectionSafe, ClientQueueShape
<1>4. /\ (m_Disconnected'[c] \/ m_Protocol'[c]) \in BOOLEAN
      /\ ready \/ e = "CONNECT" => m_Disconnected'[c] \/ m_Protocol'[c]
      /\ \A d \in Client : d # c => m_Protocol'[d] = m_Protocol[d]
  BY <1>1 DEF TypeOK
<1>5. /\ ClientShape(clientEvents'[c], m_Disconnected'[c] \/ m_Protocol'[c], link[c])
      /\ e = "RECEIVE" => ready
  <2> HIDE DEF ready, e
  <2> DEFINE r2 == m_Disconnected'[c] \/ m_Protocol'[c]
  <2>1. r2 \in BOOLEAN /\ (ready \/ e = "CONNECT" => r2)
    BY <1>4
  <2> HIDE DEF r2
  <2>2. ClientShape(clientEvents'[c], r2, link[c]) /\ (e = "RECEIVE" => ready)
    BY <1>2, <1>3, <2>1, ClientPop
  <2> QED
    BY <2>2 DEF r2
<1>6. ClientQueueShape'
  BY <1>1, <1>2, <1>4, <1>5 DEF ConnectionSafe, ClientQueueShape
<1>7. NoFault'
  BY <1>1, <1>5 DEF ConnectionSafe, NoFault
<1>8. SlotsAgree' /\ NothingMisrouted' /\ ServerQueueShape' /\ OccupiedPeers' = OccupiedPeers
  BY <1>1, TablesUnchanged
  DEF ConnectionSafe, NothingMisrouted, ServerQueueShape, OccupiedPeers, serverVars
<1>9. PeersBounded'
  BY <1>8 DEF ConnectionSafe, PeersBounded
<1> QED
  BY <1>6, <1>7, <1>8, <1>9 DEF ConnectionSafe

LEMMA SafeDisconnect ==
  ASSUME TypeOK, ConnectionSafe, NEW c \in Client, Disconnect(c)
  PROVE  ConnectionSafe'
<1>1. /\ link[c] # "unused"
      /\ m_Disconnected' = [m_Disconnected EXCEPT ![c] = TRUE]
      /\ UNCHANGED <<serverVars, m_Protocol, serverEvents, fault, misrouted>>
      /\ \A d \in Client : d # c => clientEvents'[d] = clientEvents[d] /\ m_Disconnected'[d] = m_Disconnected[d]
      /\ clientEvents'[c] \in {clientEvents[c], << >>}
      /\ m_Disconnected'[c] = TRUE
  BY DEF Disconnect, TypeOK
<1>2. SlotsAgree' /\ NothingMisrouted' /\ NoFault'
  BY <1>1, TablesUnchanged DEF ConnectionSafe, NothingMisrouted, NoFault
<1>3. /\ ServerQueueShape'
      /\ PeersBounded'
      /\ \A d \in Client : \A q, r : d # c /\ ClientShape(q, r, link[d]) => ClientShape(q, r, link'[d])
      /\ link'[c] \in {link[c], "closing", "down"} /\ (link'[c] = link[c] => link[c] # "connecting")
  <2>1. CASE link[c] = "connecting"
    <3>1. link'[c] = "down" /\ \A d \in Client : d # c => link'[d] = link[d]
      BY <2>1 DEF Disconnect, TypeOK
    <3>2. OccupiedPeers' \subseteq OccupiedPeers
      BY <1>1, <3>1 DEF OccupiedPeers
    <3>3. PeersBounded'
      BY <3>2, OccupiedShrinks DEF ConnectionSafe
    <3>4. ServerShape(serverEvents[c], peerData[c], "down")
      BY <2>1 DEF ConnectionSafe, ServerQueueShape, ServerShape
    <3>5. ServerQueueShape'
      BY <1>1, <3>1, <3>4 DEF ConnectionSafe, ServerQueueShape, serverVars
    <3> QED
      BY <2>1, <3>1, <3>3, <3>5
  <2>2. CASE link[c] # "connecting"
    <3>1. link' = Closed(c)
      BY <2>2 DEF Disconnect
    <3>2. link'[c] \in {link[c], "closing"}
      BY <3>1 DEF Closed, TypeOK
    <3> QED
      BY <1>1, <2>2, <3>1, <3>2, CloseKeepsShape DEF serverVars
  <2> QED
    BY <2>1, <2>2
<1>4. ClientShape(clientEvents'[c], TRUE, link'[c])
  <2>1. ClientShape(clientEvents[c], m_Disconnected[c] \/ m_Protocol[c], link[c]) /\ link[c] \in Links
    BY DEF ConnectionSafe, ClientQueueShape, TypeOK
  <2> QED
    BY <1>1, <1>3, <2>1 DEF ClientShape
<1>5. ClientQueueShape'
  <2>1. ClientShape(clientEvents'[c], m_Disconnected'[c] \/ m_Protocol'[c], link'[c])
    BY <1>1, <1>4
  <2> QED
    BY <1>1, <1>3, <2>1 DEF ConnectionSafe, ClientQueueShape
<1> QED
  BY <1>2, <1>3, <1>5 DEF ConnectionSafe

LEMMA SafeClientSends ==
  ASSUME TypeOK, ConnectionSafe, NEW c \in Client, ClientSends(c)
  PROVE  ConnectionSafe'
<1>1. /\ link[c] = "up"
      /\ UNCHANGED <<serverVars, clientVars, link, clientEvents, fault, misrouted>>
      /\ serverEvents'[c] = Append(serverEvents[c], "RECEIVE")
      /\ \A d \in Client : d # c => serverEvents'[d] = serverEvents[d]
      /\ serverEvents[c] \in Seq(Events)
  BY DEF ClientSends, Push, TypeOK
<1>2. ServerShape(serverEvents'[c], peerData[c], link[c])
  BY <1>1, ShapeReceive DEF ConnectionSafe, ServerQueueShape
<1>3. ServerQueueShape'
  BY <1>1, <1>2 DEF ConnectionSafe, ServerQueueShape, serverVars
<1>4. OccupiedPeers' \subseteq OccupiedPeers
  BY <1>1 DEF OccupiedPeers
<1>5. PeersBounded'
  BY <1>4, OccupiedShrinks DEF ConnectionSafe
<1>6. ClientQueueShape' /\ NothingMisrouted' /\ NoFault'
  BY <1>1 DEF ConnectionSafe, ClientQueueShape, NothingMisrouted, NoFault, clientVars
<1> QED
  BY <1>1, <1>3, <1>5, <1>6, TablesUnchanged DEF ConnectionSafe

LEMMA SafeStep ==
  ASSUME TypeOK, ConnectionSafe, [Next]_vars
  PROVE  ConnectionSafe'
<1>1. CASE UNCHANGED vars
  BY <1>1 DEF vars, serverVars, clientVars, enetVars, ConnectionSafe, SlotsAgree, ServerQueueShape,
              PeersBounded, OccupiedPeers, ClientQueueShape, NothingMisrouted, NoFault
<1> QED
  BY <1>1, SafeEnet, SafeServerConnect, SafeServerReceive, SafeServerDisconnect,
     SafeDisconnectClient, SafeServerSends, SafeClientUpdate, SafeDisconnect, SafeClientSends
  DEF Next, ServerUpdate

LEMMA SafeInit ==
  ASSUME Init
  PROVE  ConnectionSafe
<1>1. OccupiedPeers = {}
  BY DEF Init, OccupiedPeers
<1>2. PeersBounded
  BY <1>1, FS_EmptySet, ConnectionsAssumption DEF PeersBounded
<1>3. SlotsAgree /\ NothingMisrouted /\ NoFault
  BY DEF Init, SlotsAgree, NothingMisrouted, NoFault
<1>4. ServerQueueShape
  BY DEF Init, ServerQueueShape, ServerShape
<1>5. ClientQueueShape
  BY DEF Init, ClientQueueShape, ClientShape
<1> QED
  BY <1>2, <1>3, <1>4, <1>5 DEF ConnectionSafe

------------------------------------------------------------------------------
(***************************************************************************)
(* Connection ids, transmitters, peers and events keep their types, for    *)
(* every number of clients and connections.                                *)
(***************************************************************************)
THEOREM ConnectionTypeCorrect == Spec => []TypeOK
<1>1. Init => TypeOK
  BY TypeInit
<1>2. TypeOK /\ [Next]_vars => TypeOK'
  BY TypeStep
<1> QED
  BY <1>1, <1>2, PTL DEF Spec

(***************************************************************************)
(* The invariant of the connection tables and event queues holds in every  *)
(* reachable state.                                                        *)
(***************************************************************************)
THEOREM ConnectionInvariant == Spec => []ConnectionSafe
<1>1. Init => TypeOK /\ ConnectionSafe
  BY TypeInit, SafeInit
<1>2. TypeOK /\ ConnectionSafe /\ [Next]_vars => (TypeOK /\ ConnectionSafe)'
  BY TypeStep, SafeStep
<1> QED
  BY <1>1, <1>2, PTL DEF Spec

(***************************************************************************)
(* m_Transmitters, peer->data and m_Clients always agree.                  *)
(***************************************************************************)
THEOREM TablesAgree == Spec => []SlotsAgree
<1>1. ConnectionSafe => SlotsAgree
  BY DEF ConnectionSafe
<1> QED
  BY <1>1, ConnectionInvariant, PTL

(***************************************************************************)
(* No packet is ever handed to the client of another connection, although  *)
(* connection ids are reused.                                              *)
(***************************************************************************)
THEOREM PacketsReachTheirOwner == Spec => []NothingMisrouted
<1>1. ConnectionSafe => NothingMisrouted
  BY DEF ConnectionSafe
<1> QED
  BY <1>1, ConnectionInvariant, PTL

(***************************************************************************)
(* No event handler of either end follows a null pointer, and there is     *)
(* always a transmitter for a new connection: the server never has more    *)
(* transmitters in use than ENet has peers in use.                         *)
(***************************************************************************)
THEOREM HandlersFindTheirEntries == Spec => []NoFault
<1>1. ConnectionSafe => NoFault
  BY DEF ConnectionSafe
<1> QED
  BY <1>1, ConnectionInvariant, PTL

------------------------------------------------------------------------------
(***************************************************************************)
(* Bits and bytes.                                                         *)
(***************************************************************************)
LEMMA SizesKnown ==
  /\ ByteBits \in Nat /\ ByteBits > 0 /\ WordBytes \in Nat /\ WordBytes > 0
  /\ MemcpyBytes \in Nat /\ MemcpyBytes > 0
  /\ MaxCursors \in Nat /\ MaxBits \in Nat
BY SizeAssumption

LEMMA SmallerProps ==
  ASSUME NEW a \in Int, NEW b \in Int
  PROVE  /\ SmallerOf(a, b) \in {a, b} /\ SmallerOf(a, b) \in Int
         /\ SmallerOf(a, b) <= a /\ SmallerOf(a, b) <= b
<1>1. \E x \in {a, b} : \A y \in {a, b} : x <= y
  OBVIOUS
<1> QED
  BY <1>1 DEF SmallerOf, Sets!Min

LEMMA BaseProps ==
  /\ \A b \in Int : Base(b) \in Int /\ Base(b + 1) = Base(b) + ByteBits
  /\ Base(1) = 0 /\ Base(0) = -ByteBits
  /\ \A b, c \in Int : b <= c => Base(b) <= Base(c)
  /\ \A b, c \in Int : b < c => Base(b) + ByteBits <= Base(c)
  /\ \A b, n \in Int : Base(b + n) = Base(b) + n * ByteBits /\ Base(n + 1) = n * ByteBits
  /\ WordBits = Base(WordBytes + 1)
<1>1. PICK B \in Nat : B = ByteBits /\ B > 0
  BY SizesKnown
<1>2. \A b \in Int : b * B \in Int /\ (b - 1) * B = b * B - B
  OBVIOUS
<1>3. \A b, n \in Int : (b + n) * B = b * B + n * B
  OBVIOUS
<1>4. \A n \in Int : n > 0 => n * B >= B
  <2>1. \A n \in Int : n > 0 => n - 1 >= 0 /\ n * B = (n - 1) * B + B
    OBVIOUS
  <2>2. \A n \in Nat : n * B >= 0
    BY <1>1
  <2> QED
    BY <2>1, <2>2, <1>2
<1>5. \A b, c \in Int : b < c => b * B + B <= c * B
  <2> TAKE b, c \in Int
  <2> HAVE b < c
  <2>1. PICK n \in Int : n > 0 /\ c = b + n
    <3>1. c - b \in Int /\ c - b > 0 /\ c = b + (c - b)
      OBVIOUS
    <3> QED
      BY <3>1
  <2>2. c * B = b * B + n * B /\ n * B >= B
    BY <1>3, <1>4, <2>1
  <2> QED
    BY <1>2, <2>2
<1>6. \A b \in Int : Base(b) = b * B - B
  BY <1>1, <1>2 DEF Base
<1>7. \A b \in Int : Base(b) \in Int /\ Base(b + 1) = Base(b) + B
  <2> TAKE b \in Int
  <2>1. (b + 1) * B = b * B + B /\ b + 1 \in Int
    BY <1>1
  <2> QED
    BY <1>2, <1>6, <2>1, <1>1
<1>8. Base(1) = 0 /\ Base(0) = -B
  BY <1>6, <1>1
<1>9. \A b, c \in Int : b < c => Base(b) + B <= Base(c)
  <2> TAKE b, c \in Int
  <2> HAVE b < c
  <2>1. b * B \in Int /\ c * B \in Int /\ b * B + B <= c * B
    BY <1>2, <1>5
  <2> QED
    BY <1>1, <1>6, <2>1
<1>10. \A b, c \in Int : b <= c => Base(b) <= Base(c)
  BY <1>1, <1>7, <1>9
<1>11. \A b, n \in Int : Base(b + n) = Base(b) + n * B /\ Base(n + 1) = n * B
  <2> TAKE b, n \in Int
  <2>1. b + n \in Int /\ (b + n) * B = b * B + n * B /\ b * B \in Int /\ n * B \in Int
    BY <1>2, <1>3
  <2>2. n + 1 \in Int /\ (n + 1) * B = n * B + B
    BY <1>1
  <2> QED
    BY <1>1, <1>6, <2>1, <2>2
<1>12. WordBits = Base(WordBytes + 1)
  <2>1. B * WordBytes = WordBytes * B /\ WordBytes \in Int
    BY <1>1, SizesKnown
  <2> QED
    BY <1>1, <1>11, <2>1 DEF WordBits
<1> QED
  BY <1>1, <1>7, <1>8, <1>9, <1>10, <1>11, <1>12

LEMMA BaseTimes ==
  ASSUME NEW n \in Int
  PROVE  /\ Base(n) \in Int /\ Base(n + 1) \in Int
         /\ Base(n + 1) = Base(n) + ByteBits /\ Base(n + 1) = n * ByteBits
<1>1. n + 1 \in Int
  OBVIOUS
<1>2. Base(n) \in Int /\ Base(n + 1) \in Int /\ Base(n + 1) = Base(n) + ByteBits
  BY <1>1, BaseProps
<1>3. Base(n + 1) = n * ByteBits
  BY BaseProps, Zenon
<1> QED
  BY <1>2, <1>3

LEMMA BaseOrder ==
  ASSUME NEW b \in Int, NEW c \in Int
  PROVE  /\ b <= c => Base(b) <= Base(c)
         /\ b < c => Base(b) + ByteBits <= Base(c)
BY BaseProps, Zenon

LEMMA Shifts ==
  ASSUME NEW x \in SUBSET Int, NEW k \in Int
  PROVE  /\ \A i \in Int : i \in ShiftLeft(x, k) <=> i - k \in x
         /\ \A i \in Int : i \in ShiftRight(x, k) <=> i >= 0 /\ i + k \in x
         /\ \A i : i \in Low(x, k) <=> i \in x /\ i < k
         /\ ShiftLeft(x, k) \subseteq Int /\ ShiftRight(x, k) \subseteq Nat /\ Low(x, k) \subseteq x
<1>1. \A i \in Int : i \in ShiftLeft(x, k) <=> i - k \in x
  <2> TAKE i \in Int
  <2>1. i - k \in x => i \in ShiftLeft(x, k)
    <3> HAVE i - k \in x
    <3>1. i = (i - k) + k
      OBVIOUS
    <3> QED
      BY <3>1 DEF ShiftLeft
  <2>2. i \in ShiftLeft(x, k) => i - k \in x
    BY DEF ShiftLeft
  <2> QED
    BY <2>1, <2>2
<1>2. \A i \in Int : i \in ShiftRight(x, k) <=> i >= 0 /\ i + k \in x
  <2> TAKE i \in Int
  <2>1. i >= 0 /\ i + k \in x => i \in ShiftRight(x, k)
    <3> HAVE i >= 0 /\ i + k \in x
    <3>1. i = (i + k) - k /\ i + k \in {j \in x : j >= k}
      OBVIOUS
    <3> QED
      BY <3>1 DEF ShiftRight
  <2>2. i \in ShiftRight(x, k) => i >= 0 /\ i + k \in x
    BY DEF ShiftRight
  <2> QED
    BY <2>1, <2>2
<1>3. ShiftLeft(x, k) \subseteq Int /\ ShiftRight(x, k) \subseteq Nat
  BY DEF ShiftLeft, ShiftRight
<1>4. (\A i : i \in Low(x, k) <=> i \in x /\ i < k) /\ Low(x, k) \subseteq x
  BY DEF Low
<1> QED
  BY <1>1, <1>2, <1>3, <1>4

LEMMA LowBits ==
  ASSUME NEW x, NEW k
  PROVE  Low(x, k) \subseteq x /\ \A i : i \in Low(x, k) <=> i \in x /\ i < k
BY DEF Low

LEMMA LeftBits ==
  ASSUME NEW x \in SUBSET Int, NEW k \in Int
  PROVE  ShiftLeft(x, k) \subseteq Int /\ \A i \in Int : i \in ShiftLeft(x, k) <=> i - k \in x
BY Shifts

LEMMA RightBits ==
  ASSUME NEW x \in SUBSET Int, NEW k \in Int
  PROVE  /\ ShiftRight(x, k) \subseteq Nat
         /\ \A i \in Nat : i \in ShiftRight(x, k) <=> i + k \in x
BY Shifts

\* The bits of a buffer, by byte and by place in the stream.
LEMMA StreamBits ==
  ASSUME NEW m_Buffer \in Seq(Byte)
  PROVE  /\ BytesValue(m_Buffer) \subseteq Nat
         /\ \A b \in 1 .. Len(m_Buffer) : \A i \in 0 .. ByteBits - 1 :
              Base(b) + i \in BytesValue(m_Buffer) <=> i \in m_Buffer[b]
         /\ \A p \in BytesValue(m_Buffer) : p < Base(Len(m_Buffer) + 1)
<1>1. /\ Len(m_Buffer) \in Nat /\ DOMAIN m_Buffer = 1 .. Len(m_Buffer)
      /\ \A b \in 1 .. Len(m_Buffer) : m_Buffer[b] \subseteq 0 .. ByteBits - 1
      /\ ByteBits \in Nat /\ ByteBits > 0
  BY SizesKnown DEF Byte
<1>2. \A b \in 1 .. Len(m_Buffer) : \A p : p \in ShiftLeft(m_Buffer[b], (b - 1) * ByteBits)
                                        <=> \E i \in m_Buffer[b] : p = Base(b) + i
  <2> TAKE b \in 1 .. Len(m_Buffer)
  <2> TAKE p
  <2>1. PICK z \in Int : z = (b - 1) * ByteBits /\ z = Base(b)
    BY <1>1, BaseProps DEF Base
  <2>2. \A i \in m_Buffer[b] : i + z = z + i
    BY <1>1, <2>1
  <2> QED
    BY <2>1, <2>2 DEF ShiftLeft
<1>3. \A p : p \in BytesValue(m_Buffer)
               <=> \E b \in 1 .. Len(m_Buffer) : \E i \in m_Buffer[b] : p = Base(b) + i
  <2> TAKE p
  <2>1. p \in BytesValue(m_Buffer)
          <=> \E b \in 1 .. Len(m_Buffer) : p \in ShiftLeft(m_Buffer[b], (b - 1) * ByteBits)
    BY <1>1 DEF BytesValue
  <2> QED
    BY <1>2, <2>1
<1>4. \A b \in 1 .. Len(m_Buffer) : Base(b) \in Nat /\ Base(b) + ByteBits <= Base(Len(m_Buffer) + 1)
  <2> TAKE b \in 1 .. Len(m_Buffer)
  <2>1. b \in Int /\ 1 \in Int /\ 1 <= b /\ b < Len(m_Buffer) + 1 /\ Len(m_Buffer) + 1 \in Int
    BY <1>1
  <2>2. Base(1) = 0 /\ Base(1) <= Base(b) /\ Base(b) \in Int
    BY <2>1, BaseProps
  <2>3. Base(b) + ByteBits <= Base(Len(m_Buffer) + 1)
    BY <2>1, BaseProps
  <2> QED
    BY <2>2, <2>3
<1>5. \A p \in BytesValue(m_Buffer) : p \in Nat /\ p < Base(Len(m_Buffer) + 1)
  <2> TAKE p \in BytesValue(m_Buffer)
  <2>1. PICK b, i : b \in 1 .. Len(m_Buffer) /\ i \in m_Buffer[b] /\ p = Base(b) + i
    BY <1>3
  <2>2. i \in 0 .. ByteBits - 1
    BY <1>1, <2>1
  <2>3. Base(b) \in Nat /\ Base(b) + ByteBits <= Base(Len(m_Buffer) + 1) /\ Base(Len(m_Buffer) + 1) \in Int
    <3>1. Len(m_Buffer) \in Int
      BY <1>1
    <3> QED
      BY <1>4, <2>1, <3>1, BaseTimes
  <2> QED
    BY <1>1, <2>1, <2>2, <2>3
<1>6. ASSUME NEW b \in 1 .. Len(m_Buffer), NEW i \in 0 .. ByteBits - 1,
             Base(b) + i \in BytesValue(m_Buffer)
      PROVE  i \in m_Buffer[b]
  <2>1. PICK c, j : c \in 1 .. Len(m_Buffer) /\ j \in m_Buffer[c] /\ Base(b) + i = Base(c) + j
    BY <1>3, <1>6
  <2>2. j \in 0 .. ByteBits - 1
    BY <1>1, <2>1
  <2>3. /\ b \in Int /\ c \in Int /\ Base(b) \in Int /\ Base(c) \in Int
        /\ (b < c => Base(b) + ByteBits <= Base(c))
        /\ (c < b => Base(c) + ByteBits <= Base(b))
    <3>1. b \in Int /\ c \in Int
      BY <1>1, <2>1
    <3> QED
      BY <3>1, BaseTimes, BaseOrder
  <2>4. b = c
    BY <1>1, <2>1, <2>2, <2>3
  <2>5. i = j
    BY <1>1, <2>1, <2>2, <2>3, <2>4
  <2> QED
    BY <2>1, <2>4, <2>5
<1> QED
  BY <1>3, <1>5, <1>6

\* Every place of the stream of a buffer is a bit of one of its bytes.
LEMMA PlaceOfBit ==
  ASSUME NEW n \in Nat, NEW p \in Nat, p < Base(n + 1)
  PROVE  \E b \in 1 .. n : \E i \in 0 .. ByteBits - 1 : p = Base(b) + i
<1>1. PICK q \in Nat : \E i \in 0 .. ByteBits - 1 : p = q * ByteBits + i
  <2>1. ByteBits \in Nat \ {0}
    BY SizesKnown
  <2> QED
    BY <2>1, Quotient
<1>2. PICK i \in 0 .. ByteBits - 1 : p = q * ByteBits + i
  BY <1>1
<1>3. q * ByteBits = Base(q + 1) /\ q + 1 \in Int /\ n + 1 \in Int /\ Base(q + 1) \in Int /\ Base(n + 1) \in Int
  <2>1. q \in Int /\ n \in Int /\ q + 1 \in Int /\ n + 1 \in Int
    OBVIOUS
  <2> QED
    BY <2>1, BaseTimes
<1>4. ~(n + 1 <= q + 1)
  <2>1. n + 1 <= q + 1 => Base(n + 1) <= Base(q + 1)
    BY <1>3, BaseOrder
  <2> QED
    BY <1>2, <1>3, <2>1
<1>5. q + 1 \in 1 .. n
  BY <1>4
<1> QED
  BY <1>2, <1>3, <1>5

\* Agreement by bytes is agreement of the streams.
LEMMA AgreesStream ==
  ASSUME NEW m_Buffer \in Seq(Byte), NEW n \in Int, n <= Base(Len(m_Buffer) + 1),
         NEW ones \in SUBSET Nat
  PROVE  Agrees(m_Buffer, n, ones)
           <=> \A p \in Nat : p < n => (p \in BytesValue(m_Buffer) <=> p \in ones)
<1>1. Len(m_Buffer) \in Nat /\ ByteBits \in Nat
  BY SizesKnown
<1>2. ASSUME Agrees(m_Buffer, n, ones), NEW p \in Nat, p < n
      PROVE  p \in BytesValue(m_Buffer) <=> p \in ones
  <2>1. p < Base(Len(m_Buffer) + 1)
    <3>1. Len(m_Buffer) + 1 \in Int
      BY <1>1
    <3>2. Base(Len(m_Buffer) + 1) \in Int
      BY <3>1, BaseProps
    <3> QED
      BY <1>2, <3>2
  <2>2. PICK b \in 1 .. Len(m_Buffer), i \in 0 .. ByteBits - 1 : p = Base(b) + i
    BY <1>1, <2>1, PlaceOfBit
  <2> QED
    BY <1>2, <2>2, StreamBits DEF Agrees
<1>3. ASSUME \A p \in Nat : p < n => (p \in BytesValue(m_Buffer) <=> p \in ones)
      PROVE  Agrees(m_Buffer, n, ones)
  <2> SUFFICES ASSUME NEW b \in 1 .. Len(m_Buffer), NEW i \in 0 .. ByteBits - 1, Base(b) + i < n
               PROVE  i \in m_Buffer[b] <=> Base(b) + i \in ones
    BY DEF Agrees
  <2>1. Base(b) + i \in Nat
    <3>1. b \in Int /\ 1 <= b
      BY <1>1
    <3>2. Base(b) \in Int /\ 0 <= Base(b)
      BY <3>1, BaseProps
    <3> QED
      BY <1>1, <3>2
  <2> QED
    BY <1>3, <2>1, StreamBits
<1> QED
  BY <1>2, <1>3

------------------------------------------------------------------------------
(***************************************************************************)
(* The writer.  "ones" are the bits the stream is to have: what has been   *)
(* written agrees with them, and so does what is left of the value.        *)
(***************************************************************************)
Good(w, ones) == w \in WriterType /\ Place(w) \in Nat /\ Agrees(w.m_Buffer, Place(w), ones)

Ahead(w, val, num_bits, end, ones) ==
  IF num_bits > 0
  THEN /\ Place(w) + num_bits = end
       /\ \A i \in 0 .. num_bits - 1 : i \in val <=> Place(w) + i \in ones
  ELSE Place(w) = end

\* m_Buffer with its byte at a place replaced.
LEMMA ByteReplaced ==
  ASSUME NEW buf \in Seq(Byte), NEW at \in 1 .. Len(buf), NEW x \in Byte
  PROVE  /\ [buf EXCEPT ![at] = x] \in Seq(Byte)
         /\ Len([buf EXCEPT ![at] = x]) = Len(buf)
         /\ [buf EXCEPT ![at] = x][at] = x
         /\ \A b \in 1 .. Len(buf) : b # at => [buf EXCEPT ![at] = x][b] = buf[b]
<1>1. buf \in [1 .. Len(buf) -> Byte] /\ Len(buf) \in Nat
  OBVIOUS
<1>2. [buf EXCEPT ![at] = x] \in [1 .. Len(buf) -> Byte]
  BY <1>1, Zenon
<1>3. [buf EXCEPT ![at] = x] \in Seq(Byte) /\ Len([buf EXCEPT ![at] = x]) = Len(buf)
  <2>1. PICK f \in [1 .. Len(buf) -> Byte] : f = [buf EXCEPT ![at] = x]
    BY <1>2, Zenon
  <2>2. f \in Seq(Byte) /\ Len(f) = Len(buf)
    BY <1>1
  <2> QED
    BY <2>1, <2>2, Zenon
<1>4. \A b \in 1 .. Len(buf) : [buf EXCEPT ![at] = x][b] = (IF b = at THEN x ELSE buf[b])
  BY <1>1, Zenon
<1> QED
  BY <1>3, <1>4, Zenon

LEMMA WriteRoundProps ==
  ASSUME NEW ones, NEW w, Good(w, ones), NEW val \in SUBSET Nat, NEW k \in Int, NEW end,
         Ahead(w, val, k, end, ones), k > 0
  PROVE  \E v, rest, left :
           /\ WriteRound([writer |-> w, val |-> val, num_bits |-> k])
                = [writer |-> v, val |-> rest, num_bits |-> left]
           /\ Good(v, ones) /\ v.m_TotalBits = w.m_TotalBits
           /\ rest \in SUBSET Nat /\ left \in Int /\ left < k
           /\ Ahead(v, rest, left, end, ones)
<1>1. PICK B, buf, L, bit, P : B = ByteBits /\ buf = w.m_Buffer /\ L = Len(buf) /\ bit = w.m_Bit /\ P = Place(w)
  OBVIOUS
<1>2. /\ B \in Nat /\ B > 0 /\ buf \in Seq(Byte) /\ L \in Nat /\ bit \in 1 .. B /\ P \in Nat
      /\ w.m_TotalBits \in Nat
      /\ Byte = SUBSET (0 .. B - 1)
  BY <1>1, SizesKnown DEF Good, WriterType, Byte
<1>3. /\ Base(L) \in Int /\ P = Base(L) + bit /\ Base(L + 1) = Base(L) + B
      /\ \A b \in 1 .. L : Base(b) \in Int /\ (b < L => Base(b) + B <= Base(L))
  <2>1. L \in Int /\ \A b \in 1 .. L : b \in Int
    BY <1>2
  <2> QED
    BY <1>1, <2>1, BaseTimes, BaseOrder DEF Place
<1>4. \A b \in 1 .. L : \A i \in 0 .. B - 1 : Base(b) + i < P => (i \in buf[b] <=> Base(b) + i \in ones)
  BY <1>1 DEF Good, Agrees
<1>5. P + k = end /\ \A i \in 0 .. k - 1 : i \in val <=> P + i \in ones
  BY <1>1 DEF Ahead
<1>6. val \subseteq Int /\ val \subseteq Nat
  OBVIOUS
<1>7. CASE bit = B
  <2>1. PICK low, rest, m, left, v :
          /\ low = Low(val, B) /\ rest = ShiftRight(val, B) /\ m = SmallerOf(B, k) /\ left = k - B
          /\ v = [m_Buffer |-> Append(buf, low), m_Bit |-> m, m_TotalBits |-> w.m_TotalBits]
    OBVIOUS
  <2>2. /\ low \in Byte /\ (\A i \in 0 .. B - 1 : i \in low <=> i \in val)
        /\ rest \in SUBSET Nat /\ (\A i \in Nat : i \in rest <=> i + B \in val)
    <3>1. low \subseteq val /\ \A i : i \in low <=> i \in val /\ i < B
      BY <2>1, LowBits, Zenon
    <3>2. rest \subseteq Nat /\ \A i \in Nat : i \in rest <=> i + B \in val
      <4>1. B \in Int
        BY <1>2
      <4> QED
        BY <1>6, <2>1, <4>1, RightBits, Zenon
    <3>3. low \in Byte
      BY <1>2, <1>6, <3>1
    <3>4. \A i \in 0 .. B - 1 : i \in low <=> i \in val
      BY <1>2, <3>1
    <3> QED
      BY <3>2, <3>3, <3>4
  <2>3. m \in 1 .. B /\ m <= k /\ (m = B \/ m = k)
    <3>1. B \in Int
      BY <1>2
    <3>2. m \in Int /\ m \in {B, k} /\ m <= B /\ m <= k
      BY <2>1, <3>1, SmallerProps
    <3> QED
      BY <1>2, <3>2
  <2>4. WriteRound([writer |-> w, val |-> val, num_bits |-> k]) = [writer |-> v, val |-> rest, num_bits |-> left]
    <3>1. ~(k <= 0) /\ B - bit = 0
      BY <1>2, <1>7
    <3> QED
      BY <1>1, <2>1, <3>1 DEF WriteRound
  <2>5. /\ v \in WriterType /\ v.m_TotalBits = w.m_TotalBits /\ v.m_Bit = m /\ v.m_Buffer = Append(buf, low)
        /\ Len(v.m_Buffer) = L + 1 /\ v.m_Buffer[L + 1] = low
        /\ \A b \in 1 .. L : v.m_Buffer[b] = buf[b]
    <3>1. low \in Byte /\ m \in 1 .. B
      BY <2>2, <2>3
    <3>2. /\ v.m_TotalBits = w.m_TotalBits /\ v.m_Bit = m /\ v.m_Buffer = Append(buf, low)
          /\ v = [m_Buffer |-> Append(buf, low), m_Bit |-> m, m_TotalBits |-> w.m_TotalBits]
      BY <2>1
    <3>3. Append(buf, low) \in Seq(Byte)
      BY <1>2, <3>1
    <3>4. Len(Append(buf, low)) = L + 1 /\ Append(buf, low)[L + 1] = low
          /\ \A b \in 1 .. L : Append(buf, low)[b] = buf[b]
      BY <1>1, <1>2, <3>1
    <3>5. v \in WriterType
      BY <1>1, <1>2, <3>1, <3>2, <3>3 DEF WriterType
    <3> QED
      BY <3>2, <3>4, <3>5
  <2>6. Place(v) = P + m
    BY <1>2, <1>3, <1>7, <2>3, <2>5 DEF Place
  <2>7. Agrees(v.m_Buffer, Place(v), ones)
    <3>1. ASSUME NEW b \in 1 .. L + 1, NEW i \in 0 .. B - 1, Base(b) + i < P + m
          PROVE  i \in v.m_Buffer[b] <=> Base(b) + i \in ones
      <4>1. CASE b = L + 1
        <5>1. Base(b) = P
          BY <1>3, <1>7, <4>1
        <5>2. i < m /\ i \in 0 .. k - 1
          BY <1>2, <2>3, <3>1, <5>1
        <5> QED
          BY <1>5, <2>2, <2>5, <4>1, <5>1, <5>2
      <4>2. CASE b # L + 1
        <5>1. b \in 1 .. L /\ Base(b) \in Int /\ (b = L \/ Base(b) + B <= Base(L))
          BY <1>2, <1>3, <4>2
        <5>2. Base(b) + i < P
          BY <1>2, <1>3, <1>7, <5>1
        <5> QED
          BY <1>4, <2>5, <5>1, <5>2
      <4> QED
        BY <4>1, <4>2
    <3> QED
      BY <1>1, <2>5, <2>6, <3>1 DEF Agrees
  <2>8. Good(v, ones)
    BY <1>2, <2>3, <2>5, <2>6, <2>7 DEF Good
  <2>9. Ahead(v, rest, left, end, ones)
    <3>1. CASE left > 0
      <4>1. m = B /\ P + m + left = end
        <5>1. left = k - B /\ m \in Int /\ end = P + k
          BY <1>2, <1>5, <2>1, <2>3
        <5>2. m = B
          BY <1>2, <2>3, <3>1, <5>1
        <5> QED
          BY <1>2, <5>1, <5>2
      <4>2. ASSUME NEW i \in 0 .. left - 1
            PROVE  i \in rest <=> P + m + i \in ones
        <5>1. i \in Nat /\ i + B \in 0 .. k - 1 /\ P + (i + B) = P + m + i
          BY <1>2, <2>1, <4>1
        <5> QED
          BY <1>5, <2>2, <5>1
      <4> QED
        BY <2>6, <3>1, <4>1, <4>2 DEF Ahead
    <3>2. CASE ~(left > 0)
      <4>1. m = k
        BY <1>2, <2>1, <2>3, <3>2
      <4> QED
        BY <1>5, <2>6, <3>2, <4>1 DEF Ahead
    <3> QED
      BY <3>1, <3>2
  <2>10. left \in Int /\ left < k
    BY <1>2, <2>1
  <2> QED
    BY <2>2, <2>4, <2>5, <2>8, <2>9, <2>10
<1>8. CASE bit # B
  <2>1. PICK free, low, old, byte, rest, m, left, v :
          /\ free = B - bit /\ low = ShiftLeft(Low(val, free), bit) /\ old = Low(buf[L], bit)
          /\ byte = old \cup low /\ rest = ShiftRight(val, free)
          /\ m = SmallerOf(B, bit + k) /\ left = k - SmallerOf(k, free)
          /\ v = [m_Buffer |-> [buf EXCEPT ![L] = byte], m_Bit |-> m, m_TotalBits |-> w.m_TotalBits]
    OBVIOUS
  <2>2. L \in 1 .. L /\ free \in 1 .. B - 1 /\ buf[L] \in Byte /\ buf[L] \subseteq Int
    <3>1. L # 0
      <4>1. Base(0) = -B
        BY <1>1, BaseProps
      <4> QED
        BY <1>2, <1>3, <1>8, <4>1
    <3>2. L \in 1 .. L /\ free \in 1 .. B - 1
      BY <1>2, <1>8, <2>1, <3>1
    <3>3. buf[L] \in Byte
      BY <1>1, <1>2, <3>2
    <3> QED
      BY <1>2, <3>2, <3>3
  <2>3. /\ rest \in SUBSET Nat
        /\ \A i \in Nat : i \in rest <=> i + free \in val
    BY <1>6, <2>1, <2>2, Shifts
  <2>4. /\ byte \in Byte
        /\ \A i \in 0 .. bit - 1 : i \in byte <=> i \in buf[L]
        /\ \A i \in bit .. B - 1 : i \in byte <=> i - bit \in val
    <3>1. PICK x : x = Low(val, free)
      OBVIOUS
    <3>2. (\A i : i \in x <=> i \in val /\ i < free) /\ x \subseteq Int
      BY <1>6, <3>1, LowBits, Zenon
    <3>3. (\A i \in Int : i \in low <=> i - bit \in x) /\ low \subseteq Int
      <4>1. bit \in Int
        BY <1>2
      <4> QED
        BY <2>1, <3>1, <3>2, <4>1, LeftBits, Zenon
    <3>4. (\A i : i \in old <=> i \in buf[L] /\ i < bit)
      BY <2>1, LowBits, Zenon
    <3>5. \A i \in low : i \in bit .. B - 1
      <4>1. \A j \in x : j \in Nat /\ j < B - bit
        BY <2>1, <3>2
      <4>2. \A i \in low : i \in Int /\ i - bit \in x
        BY <3>3
      <4> QED
        BY <1>2, <4>1, <4>2
    <3>6. \A i \in bit .. B - 1 : i \in low <=> i - bit \in val
      <4>1. \A i \in bit .. B - 1 : i \in Int /\ (i - bit < free)
        BY <1>2, <2>1
      <4> QED
        BY <3>2, <3>3, <4>1
    <3>7. byte \in Byte
      BY <1>2, <2>1, <2>2, <3>4, <3>5
    <3>8. \A i \in 0 .. bit - 1 : i \in byte <=> i \in buf[L]
      BY <1>2, <2>1, <3>4, <3>5
    <3>9. \A i \in bit .. B - 1 : i \in byte <=> i - bit \in val
      BY <1>2, <2>1, <3>4, <3>6
    <3> QED
      BY <3>7, <3>8, <3>9
  <2>5. m \in bit + 1 .. B /\ m <= bit + k /\ (m = B \/ m = bit + k)
    <3>1. PICK x, y : x = SmallerOf(B, y) /\ y = bit + k
      OBVIOUS
    <3>2. y \in Int /\ B \in Int /\ y = bit + k
      BY <1>2, <3>1
    <3>3. x \in Int /\ x \in {B, y} /\ x <= B /\ x <= y
      BY <3>1, <3>2, SmallerProps
    <3>4. x = m
      BY <2>1, <3>1
    <3> QED
      BY <1>2, <1>8, <3>2, <3>3, <3>4
  <2>6. left \in Int /\ left < k /\ left >= 0 /\ (left = 0 \/ left = k - free) /\ left >= k - free
    <3>1. PICK x : x = SmallerOf(k, free)
      OBVIOUS
    <3>2. free \in Int /\ free >= 1
      BY <1>2, <2>2
    <3>3. x \in Int /\ x \in {k, free} /\ x <= k /\ x <= free
      BY <3>1, <3>2, SmallerProps
    <3> QED
      BY <2>1, <3>1, <3>2, <3>3
  <2>7. WriteRound([writer |-> w, val |-> val, num_bits |-> k]) = [writer |-> v, val |-> rest, num_bits |-> left]
    <3>1. ~(k <= 0) /\ B - bit # 0
      BY <1>2, <1>8
    <3>2. [w.m_Buffer EXCEPT ![Len(w.m_Buffer)] = Low(@, w.m_Bit) \cup ShiftLeft(Low(val, B - bit), w.m_Bit)]
            = [buf EXCEPT ![L] = byte]
      BY <1>1, <2>1
    <3> QED
      BY <1>1, <2>1, <3>1, <3>2 DEF WriteRound
  <2>8. /\ v \in WriterType /\ v.m_TotalBits = w.m_TotalBits /\ v.m_Bit = m
        /\ Len(v.m_Buffer) = L /\ v.m_Buffer[L] = byte
        /\ \A b \in 1 .. L : b # L => v.m_Buffer[b] = buf[b]
    <3>1. m \in 1 .. B /\ buf \in Seq(Byte) /\ byte \in Byte /\ L \in 1 .. Len(buf)
      BY <1>1, <1>2, <2>2, <2>4, <2>5
    <3>2. PICK next : /\ next = [buf EXCEPT ![L] = byte] /\ next \in Seq(Byte) /\ Len(next) = Len(buf)
                      /\ next[L] = byte /\ \A b \in 1 .. Len(buf) : b # L => next[b] = buf[b]
      <4>1. PICK next : next = [buf EXCEPT ![L] = byte]
        OBVIOUS
      <4>2. /\ next \in Seq(Byte) /\ Len(next) = Len(buf) /\ next[L] = byte
            /\ \A b \in 1 .. Len(buf) : b # L => next[b] = buf[b]
        BY <3>1, <4>1, ByteReplaced
      <4> QED
        BY <4>1, <4>2, Zenon
    <3>3. v = [m_Buffer |-> next, m_Bit |-> m, m_TotalBits |-> w.m_TotalBits]
      BY <2>1, <3>2
    <3>4. v \in WriterType
      <4>1. m \in 1 .. ByteBits /\ w.m_TotalBits \in Nat /\ next \in Seq(Byte)
        BY <1>1, <1>2, <3>1, <3>2
      <4> QED
        BY <3>3, <4>1 DEF WriterType
    <3> QED
      BY <1>1, <3>2, <3>3, <3>4
  <2>9. Place(v) = Base(L) + m
    BY <2>8 DEF Place
  <2>10. Agrees(v.m_Buffer, Place(v), ones)
    <3>1. ASSUME NEW b \in 1 .. L, NEW i \in 0 .. B - 1, Base(b) + i < Base(L) + m
          PROVE  i \in v.m_Buffer[b] <=> Base(b) + i \in ones
      <4>1. CASE b # L
        <5>1. Base(b) \in Int /\ Base(b) + B <= Base(L)
          BY <1>2, <1>3, <4>1
        <5>2. Base(b) + i < P
          BY <1>2, <1>3, <5>1
        <5> QED
          BY <1>4, <2>8, <4>1, <5>2
      <4>2. CASE b = L /\ i < bit
        <5>1. i \in 0 .. bit - 1 /\ Base(b) + i < P
          BY <1>2, <1>3, <4>2
        <5> QED
          BY <1>4, <2>4, <2>8, <4>2, <5>1
      <4>3. CASE b = L /\ ~(i < bit)
        <5>1. i \in bit .. B - 1 /\ i - bit \in 0 .. k - 1 /\ P + (i - bit) = Base(b) + i
          <6>1. m <= bit + k /\ i < m
            BY <1>2, <1>3, <2>5, <3>1, <4>3
          <6>2. i \in bit .. B - 1 /\ i - bit \in 0 .. k - 1
            <7>1. i \in Int /\ i >= bit /\ i <= B - 1 /\ m \in Int /\ i < bit + k
              BY <1>2, <2>5, <4>3, <6>1
            <7> QED
              BY <1>2, <7>1
          <6>3. P + (i - bit) = Base(b) + i
            BY <1>2, <1>3, <4>3
          <6> QED
            BY <6>2, <6>3
        <5> QED
          BY <1>5, <2>4, <2>8, <4>3, <5>1
      <4> QED
        BY <4>1, <4>2, <4>3
    <3> QED
      BY <1>1, <2>8, <2>9, <3>1 DEF Agrees
  <2>11. Good(v, ones)
    BY <1>2, <1>3, <2>5, <2>8, <2>9, <2>10 DEF Good
  <2>12. Ahead(v, rest, left, end, ones)
    <3>1. CASE left > 0
      <4>1. left = k - free /\ m = B /\ Base(L) + m + left = end
        <5>1. left = k - free
          BY <2>6, <3>1
        <5>2. m = B
          BY <1>2, <2>1, <2>5, <3>1, <5>1
        <5> QED
          <6>1. free = B - bit /\ end = P + k
            BY <1>5, <2>1
          <6> QED
            BY <1>2, <1>3, <5>1, <5>2, <6>1
      <4>2. ASSUME NEW i \in 0 .. left - 1
            PROVE  i \in rest <=> Base(L) + m + i \in ones
        <5>1. i \in Nat /\ i + free \in 0 .. k - 1 /\ P + (i + free) = Base(L) + m + i
          <6>1. free = B - bit /\ B = m /\ left = k - free
            BY <2>1, <4>1
          <6>2. i \in Nat /\ i + free \in 0 .. k - 1
            BY <1>2, <2>2, <6>1
          <6>3. P + (i + free) = Base(L) + m + i
            BY <1>2, <1>3, <6>1
          <6> QED
            BY <6>2, <6>3
        <5> QED
          BY <1>5, <2>3, <5>1
      <4> QED
        BY <2>9, <3>1, <4>1, <4>2 DEF Ahead
    <3>2. CASE ~(left > 0)
      <4>1. m = bit + k
        BY <1>2, <2>1, <2>2, <2>5, <2>6, <3>2
      <4> QED
        BY <1>2, <1>3, <1>5, <2>9, <3>2, <4>1 DEF Ahead
    <3> QED
      BY <3>1, <3>2
  <2> QED
    BY <2>3, <2>6, <2>7, <2>8, <2>11, <2>12
<1> QED
  BY <1>7, <1>8

\* What WriteBits writes: the writer goes on by k bits, and they are val's.
LEMMA WriteBitsProps ==
  ASSUME NEW ones, NEW w, Good(w, ones), NEW val \in SUBSET Nat, NEW k \in Nat,
         \A i \in 0 .. k - 1 : i \in val <=> Place(w) + i \in ones
  PROVE  \E v : /\ v = WriteBits(w, val, k) /\ Good(v, ones)
                /\ Place(v) = Place(w) + k /\ v.m_TotalBits = w.m_TotalBits + k
<1> DEFINE u == [w EXCEPT !.m_TotalBits = @ + k]
           end == Place(w) + k
           total == w.m_TotalBits + k
           A == {s \in [writer : WriterType, val : SUBSET Nat, num_bits : Int] :
                   /\ Good(s.writer, ones) /\ s.writer.m_TotalBits = total
                   /\ Ahead(s.writer, s.val, s.num_bits, end, ones)}
           base == [writer |-> u, val |-> val, num_bits |-> k]
           next == [s \in A |-> WriteRound(s)]
           size == [s \in A |-> IF s.num_bits > 0 THEN s.num_bits ELSE 0]
           Rounds(f) == f = [n \in 0 .. k |-> IF n = 0 THEN base ELSE WriteRound(f[n - 1])]
<1>1. /\ w \in WriterType /\ u \in WriterType /\ u.m_Buffer = w.m_Buffer /\ u.m_Bit = w.m_Bit
      /\ u.m_TotalBits = total /\ Place(w) \in Nat
  BY DEF Good, WriterType
<1>2. Place(u) = Place(w) /\ Good(u, ones)
  BY <1>1 DEF Place, Good
<1>3. base \in A
  <2>1. Ahead(u, val, k, end, ones)
    BY <1>1, <1>2 DEF Ahead
  <2> HIDE DEF u, end, total
  <2>2. base \in [writer : WriterType, val : SUBSET Nat, num_bits : Int]
    BY <1>1
  <2>3. base.writer = u /\ base.val = val /\ base.num_bits = k
    OBVIOUS
  <2> HIDE DEF base
  <2> QED
    BY <1>1, <1>2, <2>1, <2>2, <2>3
<1>4. ASSUME NEW s \in A
      PROVE  /\ WriteRound(s) \in A
             /\ s.num_bits > 0 => WriteRound(s).num_bits < s.num_bits
             /\ ~(s.num_bits > 0) => WriteRound(s) = s
  <2>1. CASE s.num_bits > 0
    <3>1. PICK v, rest, left :
            /\ WriteRound([writer |-> s.writer, val |-> s.val, num_bits |-> s.num_bits])
                 = [writer |-> v, val |-> rest, num_bits |-> left]
            /\ Good(v, ones) /\ v.m_TotalBits = s.writer.m_TotalBits
            /\ rest \in SUBSET Nat /\ left \in Int /\ left < s.num_bits
            /\ Ahead(v, rest, left, end, ones)
      BY <2>1, WriteRoundProps
    <3>2. s = [writer |-> s.writer, val |-> s.val, num_bits |-> s.num_bits]
      OBVIOUS
    <3>3. v \in WriterType
      BY <3>1 DEF Good
    <3>4. PICK t : t = [writer |-> v, val |-> rest, num_bits |-> left]
      OBVIOUS
    <3>5. WriteRound(s) = t
      BY <3>1, <3>2, <3>4
    <3>6. t \in A
      BY <3>1, <3>3, <3>4
    <3>7. t.num_bits < s.num_bits
      BY <3>1, <3>4
    <3> QED
      BY <2>1, <3>5, <3>6, <3>7
  <2>2. CASE ~(s.num_bits > 0)
    <3>1. s.num_bits <= 0
      BY <2>2
    <3>2. WriteRound(s) = s
      BY <3>1 DEF WriteRound
    <3> QED
      BY <2>2, <3>2
  <2> QED
    BY <2>1, <2>2
<1>5. next \in [A -> A]
  BY <1>4
<1>6. size \in [A -> Nat]
  OBVIOUS
<1> HIDE DEF A
<1>7. PICK f : RoundsOf(f, A, base, k, next)
  <2> HIDE DEF base, next
  <2> QED
    BY <1>3, <1>5, RoundsExist
<1>8. 0 \in 0 .. k /\ (\A i \in 0 .. k : i # 0 => i - 1 \in 0 .. k) /\ \A i \in 1 .. k : i \in 0 .. k /\ i # 0
  OBVIOUS
<1>9. Rounds(f)
  BY <1>7, <1>8 DEF RoundsOf
<1>10. PICK g : Rounds(g) /\ WriteBitsInternal(u, val, k) = g[k].writer
  <2>1. WriteBitsInternal(u, val, k) = (CHOOSE g : Rounds(g))[k].writer
    BY DEF WriteBitsInternal
  <2>2. Rounds(CHOOSE g : Rounds(g))
    <3> HIDE DEF Rounds
    <3> QED
      BY <1>9
  <2> QED
    BY <2>1, <2>2
<1>11. /\ g[0] = base
       /\ \A i \in 1 .. k : g[i] = WriteRound(g[i - 1])
  BY <1>8, <1>10
<1>12. g[k] \in A /\ size[g[k]] = 0
  <2>1. g[0] \in A /\ size[g[0]] <= k
    BY <1>3, <1>11
  <2>2. RoundsShrink(g, A, k, size)
    <3> SUFFICES ASSUME NEW i \in 1 .. k, g[i - 1] \in A
                 PROVE  g[i] \in A /\ (size[g[i - 1]] # 0 => size[g[i]] < size[g[i - 1]])
                                   /\ (size[g[i - 1]] = 0 => size[g[i]] = 0)
      BY DEF RoundsShrink
    <3>1. PICK s, t : s = g[i - 1] /\ t = g[i] /\ t = WriteRound(s)
      BY <1>11
    <3>2. s \in A /\ t \in A /\ (s.num_bits > 0 => t.num_bits < s.num_bits) /\ (~(s.num_bits > 0) => t = s)
      BY <1>4, <3>1
    <3>3. s.num_bits \in Int /\ t.num_bits \in Int
      BY <3>2 DEF A
    <3> QED
      BY <3>1, <3>2, <3>3
  <2> HIDE DEF size
  <2> QED
    BY <1>6, <2>1, <2>2, RoundsEnd
<1>13. PICK s : s = g[k] /\ s \in A /\ ~(s.num_bits > 0)
  BY <1>12 DEF A
<1>14. Good(s.writer, ones) /\ s.writer.m_TotalBits = total /\ Place(s.writer) = end
  BY <1>13 DEF A, Ahead
<1>15. WriteBits(w, val, k) = s.writer
  BY <1>10, <1>13 DEF WriteBits
<1> QED
  BY <1>14, <1>15

Follows(f, A, base, n, next) ==
  f[0] = base /\ \A i \in 1 .. n : f[i - 1] \in A => f[i] = next[f[i - 1]]

Shrinks(A, next, size) ==
  \A s \in A : (size[s] # 0 => size[next[s]] < size[s]) /\ (size[s] = 0 => size[next[s]] = 0)

RoundsLead(f, A, base, n, next, size) ==
  /\ base \in A /\ n \in Nat /\ next \in [A -> A] /\ size \in [A -> Nat] /\ size[base] <= n
  /\ Shrinks(A, next, size) /\ Follows(f, A, base, n, next)

LEMMA RoundsDone ==
  ASSUME NEW A, NEW base, NEW n, NEW next, NEW size, NEW f, RoundsLead(f, A, base, n, next, size)
  PROVE  f[n] \in A /\ size[f[n]] = 0
<1> USE DEF RoundsLead
<1>1. f[0] \in A /\ size[f[0]] <= n
  BY DEF Follows
<1>2. RoundsShrink(f, A, n, size)
  <2> SUFFICES ASSUME NEW i \in 1 .. n, f[i - 1] \in A
               PROVE  f[i] \in A /\ (size[f[i - 1]] # 0 => size[f[i]] < size[f[i - 1]])
                                 /\ (size[f[i - 1]] = 0 => size[f[i]] = 0)
    BY DEF RoundsShrink
  <2>1. PICK s \in A : s = f[i - 1]
    OBVIOUS
  <2>2. f[i] = next[s] /\ next[s] \in A
    BY <2>1 DEF Follows
  <2>3. (size[s] # 0 => size[next[s]] < size[s]) /\ (size[s] = 0 => size[next[s]] = 0)
    BY DEF Shrinks
  <2> QED
    BY <2>1, <2>2, <2>3
<1> QED
  BY <1>1, <1>2, RoundsEnd

------------------------------------------------------------------------------
(***************************************************************************)
(* Whole bytes.                                                            *)
(***************************************************************************)
LEMMA PartBits ==
  ASSUME NEW data \in Seq(Byte), NEW m \in Nat, NEW n \in Nat, m <= n, n <= Len(data)
  PROVE  /\ SubSeq(data, m + 1, n) \in Seq(Byte) /\ Len(SubSeq(data, m + 1, n)) = n - m
         /\ BytesValue(SubSeq(data, m + 1, n)) \in SUBSET Nat
         /\ \A p \in Nat : p < Base(n - m + 1) =>
              (p \in BytesValue(SubSeq(data, m + 1, n)) <=> Base(m + 1) + p \in BytesValue(data))
<1>1. PICK part, B, L : part = SubSeq(data, m + 1, n) /\ B = ByteBits /\ L = Len(data)
  OBVIOUS
<1>2. /\ part \in Seq(Byte) /\ Len(part) = n - m
      /\ \A b \in 1 .. n - m : part[b] = data[m + b]
  <2>1. \A x \in m + 1 .. n : data[x] \in Byte
    <3>1. \A x \in m + 1 .. n : x \in 1 .. Len(data)
      OBVIOUS
    <3> QED
      BY <3>1
  <2>2. /\ Len(SubSeq(data, m + 1, n)) = n - m
        /\ \A b \in 1 .. n - m : SubSeq(data, m + 1, n)[b] = data[m + b]
    <3>1. m + 1 \in Int /\ n \in Int /\ Len(data) \in Nat
      OBVIOUS
    <3>2. \A b \in 1 .. n - m : m + 1 + b - 1 = m + b
      OBVIOUS
    <3> QED
      BY <3>1, <3>2
  <2>3. SubSeq(data, m + 1, n) \in Seq(Byte)
    BY <2>1, SubSeqProperties
  <2> QED
    BY <1>1, <2>2, <2>3
<1>3. BytesValue(part) \in SUBSET Nat
  BY <1>2, StreamBits
<1>4. ASSUME NEW p \in Nat, p < Base(n - m + 1)
      PROVE  p \in BytesValue(part) <=> Base(m + 1) + p \in BytesValue(data)
  <2>1. PICK b \in 1 .. n - m, i \in 0 .. B - 1 : p = Base(b) + i
    <3>1. n - m \in Nat
      OBVIOUS
    <3> QED
      BY <1>1, <1>4, <3>1, PlaceOfBit
  <2>2. p \in BytesValue(part) <=> i \in part[b]
    BY <1>1, <1>2, <2>1, StreamBits
  <2>3. m + b \in 1 .. Len(data) /\ b \in Int
    OBVIOUS
  <2>4. Base(m + b) + i \in BytesValue(data) <=> i \in data[m + b]
    BY <1>1, <2>3, StreamBits
  <2>5. Base(m + b) = Base(b) + Base(m + 1) /\ Base(b) \in Int /\ Base(m + 1) \in Int
    <3>1. b + m = m + b /\ m \in Int /\ b \in Int
      OBVIOUS
    <3>2. Base(b + m) = Base(b) + m * ByteBits
      BY <3>1, BaseProps
    <3>3. Base(m + 1) = m * ByteBits /\ Base(m + 1) \in Int /\ Base(b) \in Int
      BY <3>1, BaseTimes
    <3> QED
      BY <3>1, <3>2, <3>3
  <2>6. Base(m + 1) + p = Base(m + b) + i
    <3>1. i \in Int
      BY <1>1, SizesKnown
    <3> QED
      BY <2>1, <2>5, <3>1
  <2> QED
    BY <1>2, <2>2, <2>4, <2>6
<1> QED
  BY <1>1, <1>2, <1>3, <1>4

\* The bits of data are those that "ones" has from place p.
Comes(data, p, ones) ==
  \A i \in Nat : i < Base(Len(data) + 1) => (i \in BytesValue(data) <=> p + i \in ones)

LEMMA ComesPart ==
  ASSUME NEW data \in Seq(Byte), NEW p \in Nat, NEW ones, Comes(data, p, ones),
         NEW n \in Nat, n <= Len(data)
  PROVE  /\ Base(n + 1) \in Nat
         /\ SubSeq(data, 1, n) \in Seq(Byte) /\ BytesValue(SubSeq(data, 1, n)) \in SUBSET Nat
         /\ \A i \in 0 .. Base(n + 1) - 1 : i \in BytesValue(SubSeq(data, 1, n)) <=> p + i \in ones
         /\ SubSeq(data, n + 1, Len(data)) \in Seq(Byte) /\ Len(SubSeq(data, n + 1, Len(data))) = Len(data) - n
         /\ Comes(SubSeq(data, n + 1, Len(data)), p + Base(n + 1), ones)
         /\ Base(Len(data) + 1) = Base(n + 1) + Base(Len(data) - n + 1)
<1>1. PICK L \in Nat : L = Len(data)
  OBVIOUS
<1>2. /\ Base(n + 1) \in Nat /\ Base(L + 1) \in Int /\ Base(n + 1) <= Base(L + 1)
      /\ Base(L - n + 1) \in Int
  <2>1. 1 \in Int /\ n + 1 \in Int /\ L + 1 \in Int /\ 1 <= n + 1 /\ n + 1 <= L + 1 /\ L - n + 1 \in Int
    BY <1>1
  <2>2. Base(1) = 0 /\ Base(1) <= Base(n + 1) /\ Base(n + 1) <= Base(L + 1)
    BY <2>1, BaseOrder, BaseProps
  <2>3. Base(n + 1) \in Int /\ Base(L + 1) \in Int /\ Base(L - n + 1) \in Int
    BY <2>1, BaseProps
  <2> QED
    BY <2>2, <2>3
<1>3. Base(L + 1) = Base(n + 1) + Base(L - n + 1)
  <2>1. L - n + 1 \in Int /\ n \in Int /\ (L - n + 1) + n = L + 1
    BY <1>1
  <2>2. Base((L - n + 1) + n) = Base(L - n + 1) + n * ByteBits
    BY <2>1, BaseProps
  <2>3. Base(n + 1) = n * ByteBits
    BY <2>1, BaseTimes
  <2> QED
    BY <1>2, <2>1, <2>2, <2>3
<1>4. /\ SubSeq(data, 1, n) \in Seq(Byte) /\ BytesValue(SubSeq(data, 1, n)) \in SUBSET Nat
      /\ \A i \in 0 .. Base(n + 1) - 1 : i \in BytesValue(SubSeq(data, 1, n)) <=> p + i \in ones
  <2>1. 0 \in Nat /\ 0 <= n /\ n - 0 = n /\ 0 + 1 = 1
    OBVIOUS
  <2>2. /\ SubSeq(data, 0 + 1, n) \in Seq(Byte) /\ BytesValue(SubSeq(data, 0 + 1, n)) \in SUBSET Nat
        /\ \A i \in Nat : i < Base(n - 0 + 1) =>
             (i \in BytesValue(SubSeq(data, 0 + 1, n)) <=> Base(0 + 1) + i \in BytesValue(data))
    BY <2>1, PartBits
  <2>3. Base(1) = 0
    BY BaseProps
  <2>4. /\ SubSeq(data, 1, n) \in Seq(Byte) /\ BytesValue(SubSeq(data, 1, n)) \in SUBSET Nat
        /\ \A i \in Nat : i < Base(n + 1) =>
             (i \in BytesValue(SubSeq(data, 1, n)) <=> 0 + i \in BytesValue(data))
    BY <2>1, <2>2, <2>3
  <2>5. \A i \in 0 .. Base(n + 1) - 1 : i \in Nat /\ i < Base(n + 1) /\ i < Base(L + 1) /\ 0 + i = i
    BY <1>2
  <2> QED
    BY <1>1, <2>4, <2>5 DEF Comes
<1>5. /\ SubSeq(data, n + 1, L) \in Seq(Byte) /\ Len(SubSeq(data, n + 1, L)) = L - n
      /\ \A i \in Nat : i < Base(L - n + 1) =>
           (i \in BytesValue(SubSeq(data, n + 1, L)) <=> Base(n + 1) + i \in BytesValue(data))
  BY <1>1, PartBits
<1>6. Comes(SubSeq(data, n + 1, L), p + Base(n + 1), ones)
  <2> SUFFICES ASSUME NEW i \in Nat, i < Base(L - n + 1)
               PROVE  i \in BytesValue(SubSeq(data, n + 1, L)) <=> p + Base(n + 1) + i \in ones
    BY <1>5 DEF Comes
  <2>1. /\ Base(n + 1) + i \in Nat /\ Base(n + 1) + i < Base(L + 1)
        /\ p + (Base(n + 1) + i) = p + Base(n + 1) + i
    BY <1>2, <1>3
  <2> QED
    BY <1>1, <1>5, <2>1 DEF Comes
<1> QED
  BY <1>1, <1>2, <1>3, <1>4, <1>5, <1>6

LEMMA WriteBytesRoundProps ==
  ASSUME NEW ones, NEW w, Good(w, ones), NEW data \in Seq(Byte), Comes(data, Place(w), ones),
         data # << >>
  PROVE  \E v, rest :
           /\ WriteBytesRound([writer |-> w, data |-> data]) = [writer |-> v, data |-> rest]
           /\ Good(v, ones) /\ rest \in Seq(Byte) /\ Len(rest) < Len(data)
           /\ Place(v) + Base(Len(rest) + 1) = Place(w) + Base(Len(data) + 1)
           /\ v.m_TotalBits + Base(Len(rest) + 1) = w.m_TotalBits + Base(Len(data) + 1)
           /\ Comes(rest, Place(v), ones)
<1>1. PICK n, part, rest, L :
        /\ n = (IF Len(data) >= WordBytes THEN WordBytes ELSE 1)
        /\ part = SubSeq(data, 1, n) /\ rest = SubSeq(data, n + 1, Len(data)) /\ L = Len(data)
  OBVIOUS
<1>2. n \in Nat /\ n > 0 /\ n <= L /\ L \in Nat
  BY <1>1, SizesKnown
<1>3. Place(w) \in Nat /\ w.m_TotalBits \in Nat
  BY DEF Good, WriterType
<1>4. /\ Base(n + 1) \in Nat /\ BytesValue(part) \in SUBSET Nat
      /\ \A i \in 0 .. Base(n + 1) - 1 : i \in BytesValue(part) <=> Place(w) + i \in ones
      /\ rest \in Seq(Byte) /\ Len(rest) = L - n
      /\ Comes(rest, Place(w) + Base(n + 1), ones)
      /\ Base(L + 1) = Base(n + 1) + Base(L - n + 1)
  BY <1>1, <1>2, <1>3, ComesPart
<1>5. PICK v : /\ v = WriteBits(w, BytesValue(part), Base(n + 1)) /\ Good(v, ones)
               /\ Place(v) = Place(w) + Base(n + 1) /\ v.m_TotalBits = w.m_TotalBits + Base(n + 1)
  BY <1>4, WriteBitsProps
<1>6. WriteBytesRound([writer |-> w, data |-> data]) = [writer |-> v, data |-> rest]
  <2>1. Base(n + 1) = n * ByteBits
    <3>1. n \in Int
      BY <1>2
    <3> QED
      BY <3>1, BaseTimes
  <2> QED
    BY <1>1, <1>5, <2>1 DEF WriteBytesRound
<1>7. /\ Len(rest) < Len(data)
      /\ Place(v) + Base(Len(rest) + 1) = Place(w) + Base(Len(data) + 1)
      /\ v.m_TotalBits + Base(Len(rest) + 1) = w.m_TotalBits + Base(Len(data) + 1)
      /\ Comes(rest, Place(v), ones)
  <2>1. Base(L - n + 1) \in Int
    <3>1. L - n + 1 \in Int
      BY <1>2
    <3> QED
      BY <3>1, BaseProps
  <2> QED
    <3>1. PICK x, y : x = Base(n + 1) /\ y = Base(L - n + 1)
      OBVIOUS
    <3>2. x \in Int /\ y \in Int /\ Base(L + 1) = x + y /\ Base(Len(rest) + 1) = y
      BY <1>4, <2>1, <3>1
    <3>3. Place(v) = Place(w) + x /\ v.m_TotalBits = w.m_TotalBits + x
      BY <1>5, <3>1
    <3>4. Comes(rest, Place(v), ones) /\ Len(rest) < L
      BY <1>2, <1>4, <1>5
    <3>5. Place(v) + y = Place(w) + (x + y) /\ v.m_TotalBits + y = w.m_TotalBits + (x + y)
      BY <1>3, <3>2, <3>3
    <3> QED
      BY <1>1, <3>2, <3>4, <3>5
<1> QED
  BY <1>4, <1>5, <1>6, <1>7

LEMMA WriteBytesProps ==
  ASSUME NEW ones, NEW w, Good(w, ones), NEW data \in Seq(Byte), Comes(data, Place(w), ones)
  PROVE  \E v : /\ v = WriteBytes(w, data) /\ Good(v, ones)
                /\ Place(v) = Place(w) + Base(Len(data) + 1)
                /\ v.m_TotalBits = w.m_TotalBits + Base(Len(data) + 1)
<1> DEFINE k == Len(data)
           end == Place(w) + Base(k + 1)
           total == w.m_TotalBits + Base(k + 1)
           A == {s \in [writer : WriterType, data : Seq(Byte)] :
                   /\ Good(s.writer, ones) /\ Comes(s.data, Place(s.writer), ones)
                   /\ Place(s.writer) + Base(Len(s.data) + 1) = end
                   /\ s.writer.m_TotalBits + Base(Len(s.data) + 1) = total}
           base == [writer |-> w, data |-> data]
           next == [s \in A |-> WriteBytesRound(s)]
           size == [s \in A |-> Len(s.data)]
           Rounds(f) == f = [n \in 0 .. k |-> IF n = 0 THEN base ELSE WriteBytesRound(f[n - 1])]
<1>1. k \in Nat /\ w \in WriterType
  BY DEF Good
<1>2. base \in A
  BY <1>1
<1>3. ASSUME NEW s \in A
      PROVE  /\ WriteBytesRound(s) \in A
             /\ s.data # << >> => Len(WriteBytesRound(s).data) < Len(s.data)
             /\ s.data = << >> => WriteBytesRound(s) = s
  <2>1. CASE s.data # << >>
    <3>1. PICK v, rest :
            /\ WriteBytesRound([writer |-> s.writer, data |-> s.data]) = [writer |-> v, data |-> rest]
            /\ Good(v, ones) /\ rest \in Seq(Byte) /\ Len(rest) < Len(s.data)
            /\ Place(v) + Base(Len(rest) + 1) = Place(s.writer) + Base(Len(s.data) + 1)
            /\ v.m_TotalBits + Base(Len(rest) + 1) = s.writer.m_TotalBits + Base(Len(s.data) + 1)
            /\ Comes(rest, Place(v), ones)
      BY <2>1, WriteBytesRoundProps
    <3>2. s = [writer |-> s.writer, data |-> s.data]
      OBVIOUS
    <3>3. v \in WriterType
      BY <3>1 DEF Good
    <3>4. PICK t : t = [writer |-> v, data |-> rest]
      OBVIOUS
    <3>5. WriteBytesRound(s) = t
      BY <3>1, <3>2, <3>4
    <3>6. t \in A
      BY <3>1, <3>3, <3>4
    <3>7. Len(t.data) < Len(s.data)
      BY <3>1, <3>4
    <3> QED
      BY <2>1, <3>5, <3>6, <3>7
  <2>2. CASE s.data = << >>
    <3>1. WriteBytesRound(s) = s
      BY <2>2 DEF WriteBytesRound
    <3> QED
      BY <2>2, <3>1
  <2> QED
    BY <2>1, <2>2
<1>4. next \in [A -> A]
  BY <1>3
<1>5. size \in [A -> Nat]
  OBVIOUS
<1>6. \A s \in A : s.data \in Seq(Byte) /\ size[s] = Len(s.data) /\ next[s] = WriteBytesRound(s)
  OBVIOUS
<1>7. Shrinks(A, next, size)
  <2> SUFFICES ASSUME NEW s \in A
               PROVE  /\ size[s] # 0 => size[next[s]] < size[s]
                      /\ size[s] = 0 => size[next[s]] = 0
    BY DEF Shrinks
  <2>1. PICK t \in A : t = next[s] /\ t = WriteBytesRound(s)
    BY <1>3
  <2>2. size[t] = Len(t.data) /\ size[s] = Len(s.data) /\ (Len(s.data) # 0 <=> s.data # << >>)
    <3>1. s.data \in Seq(Byte)
      BY <1>6
    <3> QED
      BY <1>6, <2>1, <3>1, EmptySeq
  <2> HIDE DEF A, size, next
  <2> QED
    BY <1>3, <2>1, <2>2
<1> HIDE DEF A
<1>8. PICK f : RoundsOf(f, A, base, k, next)
  <2> HIDE DEF base, next, k
  <2> QED
    BY <1>1, <1>2, <1>4, RoundsExist
<1>9. 0 \in 0 .. k /\ (\A i \in 0 .. k : i # 0 => i - 1 \in 0 .. k) /\ \A i \in 1 .. k : i \in 0 .. k /\ i # 0
  BY <1>1
<1>10. Rounds(f)
  <2> HIDE DEF k
  <2> QED
    BY <1>8, <1>9 DEF RoundsOf
<1>11. PICK g : Rounds(g) /\ WriteBytes(w, data) = g[k].writer
  <2>1. WriteBytes(w, data) = (CHOOSE g : Rounds(g))[k].writer
    BY DEF WriteBytes
  <2>2. Rounds(CHOOSE g : Rounds(g))
    <3> HIDE DEF Rounds
    <3> QED
      BY <1>10
  <2> QED
    BY <2>1, <2>2
<1>12. Follows(g, A, base, k, next)
  <2> HIDE DEF k
  <2> QED
    BY <1>9, <1>11 DEF Follows
<1>13. g[k] \in A /\ size[g[k]] = 0
  <2>1. size[base] <= k
    BY <1>1, <1>2
  <2> HIDE DEF base, next, size, k
  <2> QED
    BY <1>1, <1>2, <1>4, <1>5, <1>7, <1>12, <2>1, RoundsDone DEF RoundsLead
<1>14. PICK s : s = g[k] /\ s \in A /\ Len(s.data) = 0
  BY <1>13 DEF A
<1>15. Base(0 + 1) = 0 /\ Place(s.writer) \in Nat /\ s.writer.m_TotalBits \in Nat
  <2>1. 0 + 1 = 1
    OBVIOUS
  <2>2. Good(s.writer, ones)
    BY <1>14 DEF A
  <2> QED
    BY <2>1, <2>2, BaseProps DEF Good, WriterType
<1>16. Good(s.writer, ones) /\ s.writer.m_TotalBits = total /\ Place(s.writer) = end
  <2>1. /\ Good(s.writer, ones) /\ Place(s.writer) + Base(0 + 1) = end
        /\ s.writer.m_TotalBits + Base(0 + 1) = total
    BY <1>14 DEF A
  <2> QED
    BY <1>15, <2>1
<1> QED
  BY <1>11, <1>14, <1>16

\* Bytes appended at the end of a full byte.
LEMMA AppendedBytes ==
  ASSUME NEW ones, NEW w, Good(w, ones), NEW data \in Seq(Byte), Comes(data, Place(w), ones),
         w.m_Bit = ByteBits
  PROVE  \E v : /\ v = [w EXCEPT !.m_Buffer = @ \o data] /\ Good(v, ones)
                /\ Place(v) = Place(w) + Base(Len(data) + 1)
<1>1. PICK B, buf, K, L, P, v :
        /\ B = ByteBits /\ buf = w.m_Buffer /\ K = Len(buf) /\ L = Len(data) /\ P = Place(w)
        /\ v = [w EXCEPT !.m_Buffer = buf \o data]
  OBVIOUS
<1>2. /\ B \in Nat /\ B > 0 /\ buf \in Seq(Byte) /\ K \in Nat /\ L \in Nat /\ P \in Nat
      /\ w \in WriterType
  BY <1>1, SizesKnown DEF Good, WriterType
<1>3. /\ P = Base(K + 1) /\ Base(K + 1) \in Int /\ Base(L + 1) \in Int
      /\ \A c \in Int : Base(c) \in Int /\ Base(c + K) = Base(c) + P
  <2>1. K \in Int /\ L + 1 \in Int
    BY <1>2
  <2>2. Base(K + 1) = Base(K) + B /\ Base(K + 1) = K * B /\ Base(K + 1) \in Int /\ Base(L + 1) \in Int
    BY <1>1, <2>1, BaseTimes, BaseProps
  <2>3. P = Base(K + 1)
    BY <1>1, <2>2 DEF Place
  <2>4. \A c \in Int : Base(c) \in Int /\ Base(c + K) = Base(c) + K * B
    BY <1>1, <2>1, BaseProps
  <2> QED
    BY <2>2, <2>3, <2>4
<1>4. /\ buf \o data \in Seq(Byte) /\ Len(buf \o data) = K + L
      /\ \A b \in 1 .. K : (buf \o data)[b] = buf[b]
      /\ \A c \in 1 .. L : (buf \o data)[c + K] = data[c]
  <2>1. buf \o data \in Seq(Byte) /\ Len(buf \o data) = K + L
    BY <1>1, <1>2
  <2>2. \A b \in 1 .. K : (buf \o data)[b] = buf[b]
    BY <1>1, <1>2
  <2>3. \A c \in 1 .. L : (buf \o data)[c + K] = data[c]
    <3> TAKE c \in 1 .. L
    <3>1. PICK x : x = c + K /\ x \in 1 .. K + L /\ ~(x <= K) /\ x - K = c
      BY <1>2
    <3> QED
      BY <1>1, <1>2, <3>1
  <2> QED
    BY <2>1, <2>2, <2>3
<1>5. /\ v \in WriterType /\ v.m_Buffer = buf \o data /\ v.m_Bit = B
  BY <1>1, <1>2, <1>4 DEF WriterType
<1>6. Place(v) = P + Base(L + 1)
  <2>1. K + L \in Int /\ (K + L) + 1 = (L + 1) + K /\ L + 1 \in Int
    BY <1>2
  <2>2. Base(K + L) + B = Base((K + L) + 1)
    BY <1>1, <2>1, BaseTimes
  <2>3. Base((L + 1) + K) = Base(L + 1) + P
    BY <1>3, <2>1
  <2>4. Place(v) = Base(K + L) + B
    BY <1>4, <1>5 DEF Place
  <2> QED
    BY <1>2, <1>3, <2>1, <2>2, <2>3, <2>4
<1>7. /\ \A b \in 1 .. K : \A i \in 0 .. B - 1 : Base(b) + i < P => (i \in buf[b] <=> Base(b) + i \in ones)
      /\ \A i \in Nat : i < Base(L + 1) => (i \in BytesValue(data) <=> P + i \in ones)
  BY <1>1 DEF Good, Agrees, Comes
<1>8. Agrees(v.m_Buffer, Place(v), ones)
  <2> SUFFICES ASSUME NEW b \in 1 .. K + L, NEW i \in 0 .. B - 1
               PROVE  i \in (buf \o data)[b] <=> Base(b) + i \in ones
    BY <1>1, <1>4, <1>5 DEF Agrees
  <2>1. CASE b <= K
    <3>1. b \in 1 .. K /\ b \in Int /\ K + 1 \in Int /\ b < K + 1 /\ i \in Int /\ i < B
      BY <1>2, <2>1
    <3>2. Base(b) \in Int /\ Base(b) + B <= Base(K + 1)
      BY <1>1, <1>3, <3>1, BaseOrder
    <3>3. Base(b) + i < P
      <4>1. PICK x : x = Base(b) /\ x \in Int /\ x + B <= P
        BY <1>3, <3>2
      <4>2. x + i < P
        BY <1>2, <3>1, <4>1
      <4> QED
        BY <4>1, <4>2
    <3> QED
      BY <1>4, <1>7, <3>1, <3>3
  <2>2. CASE ~(b <= K)
    <3>1. PICK c \in 1 .. L : b = c + K
      <4>1. b - K \in 1 .. L /\ b = (b - K) + K
        BY <1>2, <2>2
      <4> QED
        BY <4>1
    <3>2. /\ c \in Int /\ L + 1 \in Int /\ 1 \in Int /\ 1 <= c /\ c < L + 1 /\ i \in Int /\ 0 <= i /\ i < B
      BY <1>2, <3>1
    <3>3. /\ Base(c) \in Int /\ 0 <= Base(c) /\ Base(c) + B <= Base(L + 1) /\ Base(b) = Base(c) + P
      <4>1. Base(1) = 0 /\ Base(1) <= Base(c) /\ Base(c) + B <= Base(L + 1)
        BY <1>1, <3>2, BaseOrder, BaseProps
      <4> QED
        BY <1>3, <3>1, <3>2, <4>1
    <3>4. Base(c) + i \in Nat /\ Base(c) + i < Base(L + 1) /\ Base(b) + i = P + (Base(c) + i)
      <4>1. PICK x, y : x = Base(c) /\ y = Base(L + 1)
        OBVIOUS
      <4>2. x \in Int /\ 0 <= x /\ x + B <= y /\ y \in Int /\ Base(b) = x + P
        BY <1>3, <3>3, <4>1
      <4>3. x + i \in Nat /\ x + i < y /\ (x + P) + i = P + (x + i)
        BY <1>2, <3>2, <4>2
      <4> QED
        BY <4>1, <4>2, <4>3
    <3>5. Base(c) + i \in BytesValue(data) <=> i \in data[c]
      BY <1>1, <3>1, StreamBits
    <3> QED
      BY <1>4, <1>7, <3>1, <3>4, <3>5
  <2> QED
    BY <2>1, <2>2
<1>9. Base(L + 1) \in Nat
  <2>1. 1 \in Int /\ L + 1 \in Int /\ 1 <= L + 1
    BY <1>2
  <2>2. Base(1) = 0 /\ Base(1) <= Base(L + 1)
    BY <2>1, BaseProps, BaseOrder
  <2> QED
    BY <1>3, <2>2
<1>10. Good(v, ones)
  BY <1>2, <1>5, <1>6, <1>8, <1>9 DEF Good
<1> QED
  BY <1>1, <1>6, <1>10

\* What WriteBuffer writes; the copied bytes are not counted.
LEMMA WriteBufferProps ==
  ASSUME NEW ones, NEW w, Good(w, ones), NEW data \in Seq(Byte), Comes(data, Place(w), ones)
  PROVE  \E v : /\ v = WriteBuffer(w, data) /\ Good(v, ones)
                /\ Place(v) = Place(w) + Base(Len(data) + 1)
                /\ ~CopiesBytes(w, data) => v.m_TotalBits = w.m_TotalBits + Base(Len(data) + 1)
<1>1. CASE CopiesBytes(w, data)
  <2>1. w.m_Bit = ByteBits
    BY <1>1 DEF CopiesBytes
  <2>2. WriteBuffer(w, data) = [w EXCEPT !.m_Buffer = @ \o data]
    BY <1>1 DEF WriteBuffer
  <2> QED
    BY <1>1, <2>1, <2>2, AppendedBytes
<1>2. CASE ~CopiesBytes(w, data)
  <2>1. WriteBuffer(w, data) = WriteBytes(w, data)
    BY <1>2 DEF WriteBuffer
  <2> QED
    BY <2>1, WriteBytesProps
<1> QED
  BY <1>1, <1>2

------------------------------------------------------------------------------
(***************************************************************************)
(* Cursors.  Outside what is left to write the buffer is right already.    *)
(***************************************************************************)
CursorPlace(c) == Base(c.m_Byte) + c.m_Bit

FillingType ==
  [buffer : Seq(Byte), cursor : CursorType, val : SUBSET Nat, num_bits : Nat, threw : {FALSE}]

Filling(s, n, stop, ones) ==
  /\ s \in FillingType /\ CursorPlace(s.cursor) \in Nat
  /\ CursorPlace(s.cursor) + s.num_bits = stop /\ n <= Base(Len(s.buffer) + 1)
  /\ \A b \in 1 .. Len(s.buffer) : \A i \in 0 .. ByteBits - 1 :
       Base(b) + i < n /\ (Base(b) + i < CursorPlace(s.cursor) \/ Base(b) + i >= stop) =>
         (i \in s.buffer[b] <=> Base(b) + i \in ones)
  /\ \A i \in 0 .. s.num_bits - 1 : i \in s.val <=> CursorPlace(s.cursor) + i \in ones

\* What a cursor's write leaves alone.
SameCursor(c, d) ==
  c.m_TotalBits = d.m_TotalBits /\ c.start = d.start /\ c.next = d.next /\ c.end = d.end

LEMMA SpliceBits ==
  ASSUME NEW x \in Byte, NEW at \in Nat, NEW m \in Nat, at + m <= ByteBits, NEW val \in SUBSET Nat
  PROVE  /\ Splice(x, at, m, val) \in Byte
         /\ \A i \in 0 .. ByteBits - 1 :
              /\ at <= i /\ i < at + m => (i \in Splice(x, at, m, val) <=> i - at \in val)
              /\ i < at \/ i >= at + m => (i \in Splice(x, at, m, val) <=> i \in x)
<1>1. PICK B, low, in, r :
        /\ B = ByteBits /\ low = Low(val, m) /\ in = ShiftLeft(low, at) /\ r = Splice(x, at, m, val)
  OBVIOUS
<1>2. B \in Nat /\ x \subseteq 0 .. B - 1 /\ Byte = SUBSET (0 .. B - 1)
  BY <1>1, SizesKnown DEF Byte
<1>3. (\A i : i \in low <=> i \in val /\ i < m) /\ low \subseteq Int
  <2>1. (\A i : i \in low <=> i \in val /\ i < m)
    BY <1>1, LowBits, Zenon
  <2>2. low \subseteq val
    BY <1>1, LowBits, Zenon
  <2>3. val \subseteq Int
    OBVIOUS
  <2> QED
    BY <2>1, <2>2, <2>3
<1>4. (\A i \in Int : i \in in <=> i - at \in low) /\ in \subseteq Int
  <2>1. at \in Int
    OBVIOUS
  <2> QED
    BY <1>1, <1>3, <2>1, LeftBits, Zenon
<1>5. \A i : i \in r <=> (i \in x /\ (i < at \/ i >= at + m)) \/ i \in in
  BY <1>1 DEF Splice
<1>6. \A i \in in : i \in Int /\ at <= i /\ i < at + m /\ i - at \in val
  <2> TAKE i \in in
  <2>1. i \in Int /\ i - at \in val /\ i - at < m
    BY <1>3, <1>4
  <2>2. i - at \in Nat
    BY <2>1
  <2> QED
    BY <2>1, <2>2
<1>7. r \in Byte
  <2>1. \A i \in in : i \in 0 .. B - 1
    BY <1>1, <1>2, <1>6
  <2> QED
    BY <1>2, <1>5, <2>1
<1>8. ASSUME NEW i \in 0 .. B - 1
      PROVE  /\ at <= i /\ i < at + m => (i \in r <=> i - at \in val)
             /\ i < at \/ i >= at + m => (i \in r <=> i \in x)
  <2>1. i \in Int /\ (i \in in <=> i - at \in val /\ i - at < m)
    BY <1>2, <1>3, <1>4
  <2>2. CASE at <= i /\ i < at + m
    <3>1. i - at < m /\ ~(i < at \/ i >= at + m)
      BY <2>1, <2>2
    <3> QED
      BY <1>5, <2>1, <2>2, <3>1
  <2>3. CASE i < at \/ i >= at + m
    <3>1. i \notin in
      BY <1>6, <2>1, <2>3
    <3>2. ~(at <= i /\ i < at + m)
      BY <2>1, <2>3
    <3> QED
      BY <1>5, <2>3, <3>1, <3>2
  <2> QED
    BY <2>1, <2>2, <2>3
<1> QED
  BY <1>1, <1>7, <1>8

LEMMA CursorRoundProps ==
  ASSUME NEW n \in Int, NEW stop \in Int, stop <= n, NEW ones, NEW s, Filling(s, n, stop, ones),
         s.num_bits > 0, s.num_bits <= s.cursor.m_Size
  PROVE  \E t : /\ t = CursorRound(s) /\ Filling(t, n, stop, ones)
                /\ t.num_bits < s.num_bits /\ Len(t.buffer) = Len(s.buffer)
                /\ s.cursor.m_Size - s.num_bits <= t.cursor.m_Size - t.num_bits
                /\ t.cursor.m_Wrote /\ SameCursor(t.cursor, s.cursor)
<1>1. PICK B, buf, L, c, k, p :
        B = ByteBits /\ buf = s.buffer /\ L = Len(buf) /\ c = s.cursor /\ k = s.num_bits /\ p = CursorPlace(c)
  OBVIOUS
<1>2. PICK byte, at, bit, m :
        /\ byte = (IF c.m_Bit = B THEN c.m_Byte + 1 ELSE c.m_Byte)
        /\ at = (IF c.m_Bit = B THEN 0 ELSE c.m_Bit)
        /\ bit = SmallerOf(B, at + k) /\ m = bit - at
  OBVIOUS
<1>3. PICK cell, rest, d, t :
        /\ cell = Splice(buf[byte], at, m, s.val) /\ rest = ShiftRight(s.val, m)
        /\ d = [c EXCEPT !.m_Byte = byte, !.m_Bit = bit, !.m_Wrote = TRUE, !.m_Size = @ - (bit - c.m_Bit)]
        /\ t = [buffer |-> [buf EXCEPT ![byte] = cell], cursor |-> d, val |-> rest,
                num_bits |-> k - m, threw |-> FALSE]
  OBVIOUS
<1>4. /\ B \in Nat /\ B > 0 /\ buf \in Seq(Byte) /\ L \in Nat /\ c \in CursorType
      /\ c.m_Bit \in 1 .. B /\ c.m_Byte \in Nat /\ c.m_Size \in Int
      /\ k \in Nat /\ k > 0 /\ k <= c.m_Size /\ p \in Nat /\ s.val \in SUBSET Nat /\ s.threw = FALSE
  <2>1. s \in FillingType /\ p \in Nat
    BY <1>1 DEF Filling
  <2>2. buf \in Seq(Byte) /\ c \in CursorType /\ s.val \in SUBSET Nat /\ k \in Nat /\ s.threw = FALSE
    BY <1>1, <2>1 DEF FillingType
  <2>3. c.m_Bit \in 1 .. B /\ c.m_Byte \in Nat /\ c.m_Size \in Int
    BY <1>1, <2>2 DEF CursorType
  <2>4. B \in Nat /\ B > 0 /\ L \in Nat /\ k > 0 /\ k <= c.m_Size
    BY <1>1, <2>2, SizesKnown
  <2> QED
    BY <2>1, <2>2, <2>3, <2>4
<1>5. /\ p + k = stop /\ n <= Base(L + 1)
      /\ \A b \in 1 .. L : \A i \in 0 .. B - 1 :
           Base(b) + i < n /\ (Base(b) + i < p \/ Base(b) + i >= stop) => (i \in buf[b] <=> Base(b) + i \in ones)
      /\ \A i \in 0 .. k - 1 : i \in s.val <=> p + i \in ones
  BY <1>1 DEF Filling
<1>6. /\ byte \in Nat /\ at \in 0 .. B - 1 /\ Base(byte) \in Int /\ p = Base(byte) + at
  <2>1. c.m_Byte \in Int /\ Base(c.m_Byte) \in Int /\ Base(c.m_Byte + 1) \in Int
        /\ Base(c.m_Byte + 1) = Base(c.m_Byte) + B
    <3>1. c.m_Byte \in Int
      BY <1>4
    <3> QED
      BY <1>1, <3>1, BaseTimes
  <2>2. p = Base(c.m_Byte) + c.m_Bit
    BY <1>1 DEF CursorPlace
  <2>3. CASE c.m_Bit = B
    <3>1. byte = c.m_Byte + 1 /\ at = 0
      BY <1>2, <2>3
    <3> QED
      BY <1>4, <2>1, <2>2, <2>3, <3>1
  <2>4. CASE c.m_Bit # B
    <3>1. byte = c.m_Byte /\ at = c.m_Bit
      BY <1>2, <2>4
    <3> QED
      BY <1>4, <2>1, <2>2, <2>4, <3>1
  <2> QED
    BY <2>3, <2>4
<1>7. byte \in 1 .. L /\ Base(L + 1) \in Int
  <2>1. L + 1 \in Int /\ 0 \in Int /\ byte \in Int
    BY <1>4, <1>6
  <2>2. Base(L + 1) \in Int /\ Base(0) = -B
    BY <1>1, <2>1, BaseProps
  <2>3. ~(L + 1 <= byte)
    <3>1. L + 1 <= byte => Base(L + 1) <= Base(byte)
      BY <1>6, <2>1, BaseOrder
    <3> QED
      BY <1>4, <1>5, <1>6, <2>2, <3>1
  <2>4. byte # 0
    BY <1>4, <1>6, <2>2
  <2> QED
    BY <1>4, <1>6, <2>2, <2>3, <2>4
<1>8. bit \in 1 .. B /\ m \in 1 .. k /\ at + m = bit /\ (bit = B \/ m = k)
  <2>1. PICK y : y = at + k
    OBVIOUS
  <2>2. y \in Int /\ B \in Int
    BY <1>4, <1>6, <2>1
  <2>3. bit \in {B, y} /\ bit \in Int /\ bit <= B /\ bit <= y
    BY <1>2, <2>1, <2>2, SmallerProps
  <2> QED
    <3>1. PICK x \in Int : x = bit /\ (x = B \/ x = at + k) /\ x <= B /\ x <= at + k
      BY <2>1, <2>3
    <3>2. at \in Int /\ 0 <= at /\ at < B /\ B \in Int /\ k \in Int /\ k > 0
      BY <1>4, <1>6
    <3>3. x \in 1 .. B /\ x - at \in 1 .. k /\ at + (x - at) = x /\ (x = B \/ x - at = k)
      BY <3>1, <3>2
    <3> QED
      BY <1>2, <3>1, <3>3
<1>9. buf[byte] \in Byte
  BY <1>1, <1>4, <1>7
<1>10. /\ cell \in Byte
       /\ \A i \in 0 .. B - 1 :
            /\ at <= i /\ i < bit => (i \in cell <=> i - at \in s.val)
            /\ i < at \/ i >= bit => (i \in cell <=> i \in buf[byte])
  <2>1. at \in Nat /\ m \in Nat /\ at + m <= ByteBits
    BY <1>1, <1>4, <1>6, <1>8
  <2>2. PICK x, val : x = buf[byte] /\ val = s.val /\ x \in Byte /\ val \in SUBSET Nat
    BY <1>4, <1>9
  <2>3. /\ Splice(x, at, m, val) \in Byte
        /\ \A i \in 0 .. ByteBits - 1 :
             /\ at <= i /\ i < at + m => (i \in Splice(x, at, m, val) <=> i - at \in val)
             /\ i < at \/ i >= at + m => (i \in Splice(x, at, m, val) <=> i \in x)
    BY <2>1, <2>2, SpliceBits, Zenon
  <2> QED
    BY <1>1, <1>3, <1>8, <2>2, <2>3
<1>11. rest \in SUBSET Nat /\ \A i \in Nat : i \in rest <=> i + m \in s.val
  <2>1. s.val \in SUBSET Int /\ m \in Int
    BY <1>4, <1>8
  <2> QED
    BY <1>3, <2>1, RightBits
<1>12. /\ d \in CursorType /\ d.m_Byte = byte /\ d.m_Bit = bit /\ d.m_Wrote
       /\ d.m_Size = c.m_Size - (bit - c.m_Bit) /\ SameCursor(d, c)
  <2>1. d = [c EXCEPT !.m_Byte = byte, !.m_Bit = bit, !.m_Wrote = TRUE, !.m_Size = @ - (bit - c.m_Bit)]
    BY <1>3
  <2>2. c.m_Size - (bit - c.m_Bit) \in Int /\ bit \in 1 .. ByteBits /\ byte \in Nat
    <3>1. B = ByteBits /\ c.m_Size \in Int /\ c.m_Bit \in Int /\ bit \in 1 .. B /\ byte \in Nat
      BY <1>1, <1>4, <1>6, <1>8
    <3> QED
      BY <1>4, <3>1
  <2>3. c \in CursorType
    BY <1>4
  <2>4. d \in CursorType
    BY <2>1, <2>2, <2>3 DEF CursorType
  <2>5. /\ d.m_Byte = byte /\ d.m_Bit = bit /\ d.m_Wrote = TRUE
        /\ d.m_Size = c.m_Size - (bit - c.m_Bit)
    BY <2>1, <2>3 DEF CursorType
  <2>6. d.m_TotalBits = c.m_TotalBits /\ d.start = c.start /\ d.next = c.next /\ d.end = c.end
    BY <2>1, <2>3 DEF CursorType
  <2> QED
    BY <2>4, <2>5, <2>6 DEF SameCursor
<1>13. /\ t.buffer \in Seq(Byte) /\ Len(t.buffer) = L /\ t.buffer[byte] = cell
       /\ \A b \in 1 .. L : b # byte => t.buffer[b] = buf[b]
  BY <1>1, <1>3, <1>4, <1>7, <1>10
<1>14. t.cursor = d /\ t.val = rest /\ t.num_bits = k - m /\ t.threw = FALSE
  BY <1>3
<1>15. t \in FillingType
  <2>1. k - m \in Nat
    BY <1>4, <1>8
  <2>2. t = [buffer |-> t.buffer, cursor |-> d, val |-> rest, num_bits |-> k - m, threw |-> FALSE]
    BY <1>3
  <2> QED
    <3>1. PICK x, y : x = t.buffer /\ y = k - m
      OBVIOUS
    <3>2. x \in Seq(Byte) /\ d \in CursorType /\ rest \in SUBSET Nat /\ y \in Nat
      BY <1>11, <1>12, <1>13, <2>1, <3>1
    <3>3. t = [buffer |-> x, cursor |-> d, val |-> rest, num_bits |-> y, threw |-> FALSE]
      BY <2>2, <3>1
    <3> QED
      BY <3>2, <3>3 DEF FillingType
<1>16. CursorPlace(d) = p + m
  <2>1. PICK x \in Int : x = Base(byte) /\ p = x + at
    BY <1>6
  <2>2. CursorPlace(d) = x + bit
    BY <1>12, <2>1 DEF CursorPlace
  <2>3. x + bit = (x + at) + m
    BY <1>6, <1>8, <2>1
  <2> QED
    BY <2>1, <2>2, <2>3
<1>17. ASSUME NEW b \in 1 .. L, NEW i \in 0 .. B - 1,
              Base(b) + i < n /\ (Base(b) + i < p + m \/ Base(b) + i >= stop)
       PROVE  i \in t.buffer[b] <=> Base(b) + i \in ones
  <2>0. i \in Int /\ b \in Int /\ byte \in Int
    BY <1>4, <1>6
  <2>1. /\ Base(b) \in Int /\ (b < byte => Base(b) + B <= Base(byte))
        /\ (byte < b => Base(byte) + B <= Base(b))
    BY <1>1, <2>0, BaseTimes, BaseOrder
  <2>2. CASE b # byte
    <3>1. Base(b) + i < p \/ Base(b) + i >= stop
      <4>1. PICK x, y : x = Base(b) /\ y = Base(byte)
        OBVIOUS
      <4>2. x \in Int /\ y \in Int /\ (x + B <= y \/ y + B <= x) /\ p = y + at
        BY <1>6, <2>0, <2>1, <2>2, <4>1
      <4>3. CASE x + B <= y
        BY <1>4, <1>6, <4>1, <4>2, <4>3
      <4>4. CASE y + B <= x
        <5>1. x + i >= p + m
          BY <1>4, <1>6, <1>8, <4>2, <4>4
        <5> QED
          BY <1>4, <1>8, <1>17, <4>1, <4>2, <5>1
      <4> QED
        BY <4>2, <4>3, <4>4
    <3> QED
      BY <1>5, <1>13, <1>17, <2>2, <3>1
  <2>3. CASE b = byte /\ at <= i /\ i < bit
    <3>1. i - at \in 0 .. k - 1 /\ p + (i - at) = Base(b) + i
      BY <1>4, <1>6, <1>8, <2>0, <2>3
    <3> QED
      BY <1>5, <1>10, <1>13, <2>3, <3>1
  <2>4. CASE b = byte /\ ~(at <= i /\ i < bit)
    <3>1. i < at \/ i >= bit
      BY <1>6, <1>8, <2>0, <2>4
    <3>2. Base(b) + i < p \/ Base(b) + i >= stop
      BY <1>4, <1>6, <1>8, <1>17, <2>0, <2>4, <3>1
    <3> QED
      BY <1>5, <1>10, <1>13, <1>17, <2>4, <3>1, <3>2
  <2> QED
    BY <2>2, <2>3, <2>4
<1>18. \A i \in 0 .. (k - m) - 1 : i \in rest <=> p + m + i \in ones
  <2> TAKE i \in 0 .. (k - m) - 1
  <2>1. i \in Nat /\ i + m \in 0 .. k - 1 /\ p + (i + m) = p + m + i
    BY <1>4, <1>8
  <2> QED
    BY <1>5, <1>11, <2>1
<1>19. Filling(t, n, stop, ones)
  <2>1. p + m \in Nat /\ p + m + (k - m) = stop
    BY <1>4, <1>5, <1>8
  <2> QED
    BY <1>1, <1>5, <1>13, <1>14, <1>15, <1>16, <1>17, <1>18, <2>1 DEF Filling
<1>20. c.m_Size - k <= d.m_Size - (k - m) /\ k - m < k
  <2>1. bit - c.m_Bit <= m
    <3>1. at <= c.m_Bit
      BY <1>2, <1>4, <1>6
    <3> QED
      BY <1>4, <1>6, <1>8, <3>1
  <2>2. m \in Int /\ m > 0 /\ k \in Int
    BY <1>4, <1>8
  <2>3. PICK x, y : x = c.m_Size /\ y = bit - c.m_Bit
    OBVIOUS
  <2>4. x \in Int /\ y \in Int
    <3>1. c.m_Size \in Int /\ c.m_Bit \in Int /\ bit \in Int
      BY <1>4, <1>8
    <3> QED
      BY <2>3, <3>1
  <2>5. d.m_Size = x - y
    BY <1>12, <2>3, Zenon
  <2> QED
    BY <2>1, <2>2, <2>3, <2>4, <2>5
<1>21. CursorRound(s) = t
  <2>1. ~(k <= 0 \/ s.threw) /\ ~(k > c.m_Size)
    BY <1>4
  <2>2. [buf EXCEPT ![byte] = Splice(@, at, m, s.val)] = [buf EXCEPT ![byte] = cell]
    BY <1>3
  <2> QED
    BY <1>1, <1>2, <1>3, <2>1, <2>2 DEF CursorRound
<1> QED
  BY <1>1, <1>12, <1>13, <1>14, <1>19, <1>20, <1>21

ToFill(buf, c, val, k, n, stop, ones) ==
  /\ n \in Int /\ stop \in Int /\ stop <= n /\ k \in Nat /\ k > 0 /\ k <= c.m_Size
  /\ Filling([buffer |-> buf, cursor |-> c, val |-> val, num_bits |-> k, threw |-> FALSE], n, stop, ones)

Filled(t, buf, c, k, n, stop, ones) ==
  /\ Filling(t, n, stop, ones) /\ t.num_bits = 0 /\ t.threw = FALSE /\ Len(t.buffer) = Len(buf)
  /\ c.m_Size - k <= t.cursor.m_Size /\ t.cursor.m_Wrote /\ SameCursor(t.cursor, c)

LEMMA CursorWriteBitsProps ==
  ASSUME NEW buf, NEW c, NEW val, NEW k, NEW n, NEW stop, NEW ones,
         ToFill(buf, c, val, k, n, stop, ones)
  PROVE  Filled(CursorWriteBits(buf, c, val, k), buf, c, k, n, stop, ones)
<1> DEFINE base == [buffer |-> buf, cursor |-> c, val |-> val, num_bits |-> k, threw |-> FALSE]
           A == {s \in FillingType :
                   /\ Filling(s, n, stop, ones) /\ Len(s.buffer) = Len(buf)
                   /\ c.m_Size - k <= s.cursor.m_Size - s.num_bits
                   /\ s.cursor.m_Wrote \/ s.num_bits > 0
                   /\ SameCursor(s.cursor, c)}
           next == [s \in A |-> CursorRound(s)]
           size == [s \in A |-> s.num_bits]
           Rounds(f) == f = [i \in 0 .. k |-> IF i = 0 THEN base ELSE CursorRound(f[i - 1])]
<1>0. /\ n \in Int /\ stop \in Int /\ stop <= n /\ k \in Nat /\ k > 0 /\ k <= c.m_Size
      /\ Filling(base, n, stop, ones)
  BY DEF ToFill
<1> USE <1>0
<1>1. base \in FillingType /\ c \in CursorType /\ c.m_Size \in Int
  <2>1. base \in FillingType
    BY DEF Filling
  <2>2. base.cursor = c
    OBVIOUS
  <2>3. c \in CursorType
    BY <2>1, <2>2 DEF FillingType
  <2> QED
    BY <2>1, <2>3 DEF CursorType
<1>2. base \in A
  <2>1. base.buffer = buf /\ base.cursor = c /\ base.num_bits = k /\ SameCursor(c, c)
    BY DEF SameCursor
  <2>2. Filling(base, n, stop, ones) /\ c.m_Size - k <= c.m_Size - k
    BY <1>1
  <2> HIDE DEF base
  <2> QED
    BY <1>1, <2>1, <2>2
<1>3. ASSUME NEW s \in A
      PROVE  /\ CursorRound(s) \in A
             /\ s.num_bits > 0 => CursorRound(s).num_bits < s.num_bits
             /\ ~(s.num_bits > 0) => CursorRound(s) = s
  <2>1. /\ s \in FillingType /\ Filling(s, n, stop, ones) /\ Len(s.buffer) = Len(buf)
        /\ c.m_Size - k <= s.cursor.m_Size - s.num_bits /\ SameCursor(s.cursor, c)
    OBVIOUS
  <2>2. s.num_bits \in Nat /\ s.cursor.m_Size \in Int
    BY <2>1 DEF FillingType, CursorType
  <2> HIDE DEF A
  <2>3. CASE s.num_bits > 0
    <3>1. s.num_bits <= s.cursor.m_Size
      BY <1>1, <2>1, <2>2
    <3>2. PICK t : /\ t = CursorRound(s) /\ Filling(t, n, stop, ones)
                   /\ t.num_bits < s.num_bits /\ Len(t.buffer) = Len(s.buffer)
                   /\ s.cursor.m_Size - s.num_bits <= t.cursor.m_Size - t.num_bits
                   /\ t.cursor.m_Wrote /\ SameCursor(t.cursor, s.cursor)
      BY <2>1, <2>3, <3>1, CursorRoundProps
    <3>3. t \in FillingType
      BY <3>2 DEF Filling
    <3>4. t.num_bits \in Nat /\ t.cursor.m_Size \in Int
      BY <3>3 DEF FillingType, CursorType
    <3>5. c.m_Size - k <= t.cursor.m_Size - t.num_bits
      BY <1>1, <2>1, <2>2, <3>2, <3>4
    <3>6. SameCursor(t.cursor, c)
      BY <2>1, <3>2 DEF SameCursor
    <3>7. t \in A
      BY <2>1, <3>2, <3>3, <3>5, <3>6 DEF A
    <3> QED
      BY <2>3, <3>2, <3>7
  <2>4. CASE ~(s.num_bits > 0)
    <3>1. s.num_bits <= 0
      BY <2>2, <2>4
    <3>2. CursorRound(s) = s
      BY <3>1 DEF CursorRound
    <3> QED
      BY <1>3, <2>4, <3>2
  <2> QED
    BY <2>3, <2>4
<1>4. next \in [A -> A]
  BY <1>3
<1>5. size \in [A -> Nat]
  BY DEF FillingType
<1>6. \A s \in A : s.num_bits \in Nat /\ size[s] = s.num_bits /\ next[s] = CursorRound(s)
  BY DEF FillingType
<1>7. Shrinks(A, next, size)
  <2> SUFFICES ASSUME NEW s \in A
               PROVE  /\ size[s] # 0 => size[next[s]] < size[s]
                      /\ size[s] = 0 => size[next[s]] = 0
    BY DEF Shrinks
  <2>1. PICK t \in A : t = next[s] /\ t = CursorRound(s)
    BY <1>3
  <2> HIDE DEF A, size, next
  <2>2. size[t] = t.num_bits /\ size[s] = s.num_bits /\ (s.num_bits # 0 <=> s.num_bits > 0)
    <3>1. s.num_bits \in Nat
      BY <1>6
    <3> QED
      BY <1>6, <2>1, <3>1
  <2> QED
    BY <1>3, <2>1, <2>2
<1> HIDE DEF A
<1>8. PICK f : RoundsOf(f, A, base, k, next)
  <2> HIDE DEF base, next
  <2> QED
    BY <1>2, <1>4, RoundsExist
<1>9. 0 \in 0 .. k /\ (\A i \in 0 .. k : i # 0 => i - 1 \in 0 .. k) /\ \A i \in 1 .. k : i \in 0 .. k /\ i # 0
  OBVIOUS
<1>10. Rounds(f)
  BY <1>8, <1>9 DEF RoundsOf
<1>11. PICK g : Rounds(g) /\ CursorWriteBits(buf, c, val, k) = g[k]
  <2>1. CursorWriteBits(buf, c, val, k) = (CHOOSE g : Rounds(g))[k]
    BY DEF CursorWriteBits
  <2>2. Rounds(CHOOSE g : Rounds(g))
    <3> HIDE DEF Rounds
    <3> QED
      BY <1>10
  <2> QED
    BY <2>1, <2>2
<1>12. Follows(g, A, base, k, next)
  BY <1>9, <1>11 DEF Follows
<1>13. g[k] \in A /\ size[g[k]] = 0
  <2>1. size[base] <= k
    BY <1>2
  <2> HIDE DEF base, next, size
  <2> QED
    BY <1>2, <1>4, <1>5, <1>7, <1>12, <2>1, RoundsDone DEF RoundsLead
<1>14. PICK t : t = g[k] /\ t \in A /\ t.num_bits = 0
  BY <1>6, <1>13
<1>15. /\ t \in FillingType /\ Filling(t, n, stop, ones) /\ Len(t.buffer) = Len(buf)
       /\ c.m_Size - k <= t.cursor.m_Size - t.num_bits
       /\ t.cursor.m_Wrote \/ t.num_bits > 0
       /\ SameCursor(t.cursor, c)
  BY <1>14 DEF A
<1>16. t.threw = FALSE /\ t.cursor.m_Size \in Int
  BY <1>15 DEF FillingType, CursorType
<1>17. c.m_Size - k <= t.cursor.m_Size /\ t.cursor.m_Wrote
  BY <1>1, <1>14, <1>15, <1>16
<1>18. Filled(t, buf, c, k, n, stop, ones)
  BY <1>14, <1>15, <1>16, <1>17 DEF Filled
<1> QED
  BY <1>11, <1>14, <1>18

------------------------------------------------------------------------------
(***************************************************************************)
(* The reader.  Behind the last byte the stream goes on with zeros.        *)
(***************************************************************************)
LEMMA ReaderParts ==
  ASSUME NEW r, Reader(r)
  PROVE  /\ r \in ReaderType /\ r.m_Buffer \in Seq(Byte) /\ Len(r.m_Buffer) \in Nat
         /\ r.m_Offset \in Nat /\ r.m_NumBytes \in Nat /\ r.m_Offset + r.m_NumBytes = Len(r.m_Buffer)
         /\ r.m_Bit \in 0 .. ByteBits - 1 /\ Base(r.m_Offset + 1) \in Nat
         /\ Taken(r) = Base(r.m_Offset + 1) + r.m_Bit /\ Taken(r) \in Nat
<1>1. /\ r \in ReaderType /\ r.m_Buffer \in Seq(Byte) /\ Len(r.m_Buffer) \in Nat
      /\ r.m_Offset \in Nat /\ r.m_NumBytes \in Nat /\ r.m_Offset + r.m_NumBytes = Len(r.m_Buffer)
      /\ r.m_Bit \in 0 .. ByteBits - 1
  BY DEF Reader, ReaderType
<1>2. Base(r.m_Offset + 1) \in Nat
  <2>1. r.m_Offset + 1 \in Int /\ 1 \in Int /\ 1 <= r.m_Offset + 1
    BY <1>1
  <2>2. Base(r.m_Offset + 1) \in Int /\ Base(1) = 0 /\ Base(1) <= Base(r.m_Offset + 1)
    BY <2>1, BaseProps, BaseOrder
  <2> QED
    BY <2>2
<1>3. r.m_Bit \in Nat
  BY <1>1, SizesKnown
<1> QED
  BY <1>1, <1>2, <1>3 DEF Taken

LEMMA ByteAtBits ==
  ASSUME NEW r, Reader(r), NEW j \in Nat, j >= 1
  PROVE  /\ ByteAt(r, j) \in Byte
         /\ \A i \in 0 .. ByteBits - 1 :
              i \in ByteAt(r, j) <=> Base(r.m_Offset + j) + i \in BytesValue(r.m_Buffer)
<1>1. PICK buf, L, x : buf = r.m_Buffer /\ L = Len(buf) /\ x = r.m_Offset + j
  OBVIOUS
<1>2. buf \in Seq(Byte) /\ L \in Nat /\ x \in Nat /\ x >= 1 /\ DOMAIN buf = 1 .. L
  BY <1>1, ReaderParts
<1>3. CASE x \in 1 .. L
  <2>1. ByteAt(r, j) = buf[x]
    BY <1>1, <1>2, <1>3 DEF ByteAt
  <2> QED
    BY <1>1, <1>2, <1>3, <2>1, StreamBits
<1>4. CASE x \notin 1 .. L
  <2>1. ByteAt(r, j) = {}
    BY <1>1, <1>2, <1>4 DEF ByteAt
  <2>2. ASSUME NEW i \in 0 .. ByteBits - 1, Base(x) + i \in BytesValue(buf)
        PROVE  FALSE
    <3>1. L + 1 \in Int /\ x \in Int /\ L + 1 <= x
      BY <1>2, <1>4
    <3>2. Base(L + 1) \in Int /\ Base(x) \in Int /\ Base(L + 1) <= Base(x)
      BY <3>1, BaseProps, BaseOrder
    <3>3. Base(x) + i < Base(L + 1)
      BY <1>1, <1>2, <2>2, StreamBits
    <3>4. i \in Int /\ i >= 0
      BY SizesKnown
    <3> QED
      BY <3>2, <3>3, <3>4
  <2>3. {} \in Byte
    BY DEF Byte
  <2> QED
    BY <1>1, <2>1, <2>2, <2>3
<1> QED
  BY <1>3, <1>4

LEMMA BytesAtBits ==
  ASSUME NEW r, Reader(r), NEW n \in Nat
  PROVE  /\ BytesAt(r, n) \in SUBSET Nat
         /\ \A q \in Nat :
              q \in BytesAt(r, n) <=> q < Base(n + 1) /\ Base(r.m_Offset + 1) + q \in BytesValue(r.m_Buffer)
<1>1. PICK bytes : bytes = [i \in 1 .. n |-> ByteAt(r, i)]
  OBVIOUS
<1>2. /\ bytes \in Seq(Byte) /\ Len(bytes) = n
      /\ \A b \in 1 .. n : bytes[b] = ByteAt(r, b)
  <2>1. \A b \in 1 .. n : b \in Nat /\ b >= 1
    OBVIOUS
  <2>2. \A b \in 1 .. n : ByteAt(r, b) \in Byte
    BY <2>1, ByteAtBits
  <2> QED
    BY <1>1, <2>2
<1>3. BytesAt(r, n) = BytesValue(bytes)
  BY <1>1 DEF BytesAt
<1>4. /\ BytesValue(bytes) \subseteq Nat
      /\ \A p \in BytesValue(bytes) : p < Base(n + 1)
      /\ \A b \in 1 .. n : \A i \in 0 .. ByteBits - 1 : Base(b) + i \in BytesValue(bytes) <=> i \in bytes[b]
  BY <1>2, StreamBits
<1>5. ASSUME NEW q \in Nat, q < Base(n + 1)
      PROVE  q \in BytesValue(bytes) <=> Base(r.m_Offset + 1) + q \in BytesValue(r.m_Buffer)
  <2>1. PICK b \in 1 .. n, i \in 0 .. ByteBits - 1 : q = Base(b) + i
    BY <1>5, PlaceOfBit
  <2>2. i \in ByteAt(r, b) <=> Base(r.m_Offset + b) + i \in BytesValue(r.m_Buffer)
    <3>1. b \in Nat /\ b >= 1
      OBVIOUS
    <3> QED
      BY <3>1, ByteAtBits
  <2>3. Base(r.m_Offset + b) + i = Base(r.m_Offset + 1) + q
    <3>1. r.m_Offset \in Int /\ b \in Int /\ b + r.m_Offset = r.m_Offset + b
      BY ReaderParts
    <3>2. Base(b + r.m_Offset) = Base(b) + r.m_Offset * ByteBits
      BY <3>1, BaseProps
    <3>3. Base(r.m_Offset + 1) = r.m_Offset * ByteBits /\ Base(r.m_Offset + 1) \in Int /\ Base(b) \in Int
      BY <3>1, BaseTimes
    <3>4. i \in Int
      BY SizesKnown
    <3> QED
      BY <2>1, <3>1, <3>2, <3>3, <3>4
  <2> QED
    BY <1>2, <1>4, <2>1, <2>2, <2>3
<1> QED
  BY <1>3, <1>4, <1>5

LEMMA WordAtBits ==
  ASSUME NEW r, Reader(r)
  PROVE  /\ WordAt(r) \in SUBSET Nat
         /\ \A q \in Nat : q \in WordAt(r) <=> q < WordBits /\ Taken(r) + q \in BytesValue(r.m_Buffer)
<1>1. PICK S, p, B, W, bit, word, next, low, left, over :
        /\ S = BytesValue(r.m_Buffer) /\ p = Base(r.m_Offset + 1) /\ B = ByteBits /\ W = WordBits /\ bit = r.m_Bit
        /\ word = BytesAt(r, WordBytes) /\ next = ByteAt(r, WordBytes + 1)
        /\ low = Low(next, bit) /\ left = ShiftLeft(low, W - bit) /\ over = Low(left, W)
  OBVIOUS
<1>2. /\ p \in Nat /\ B \in Nat /\ B > 0 /\ bit \in 0 .. B - 1 /\ W \in Int /\ Taken(r) = p + bit
      /\ WordBytes \in Nat /\ WordBytes + 1 \in Nat /\ WordBytes + 1 >= 1 /\ W = Base(WordBytes + 1) /\ W >= B
  <2>1. WordBytes \in Nat /\ WordBytes > 0 /\ B \in Nat /\ B > 0
    BY <1>1, SizesKnown
  <2>2. 1 \in Int /\ WordBytes + 1 \in Int /\ 1 < WordBytes + 1
    BY <2>1
  <2>3. W = Base(WordBytes + 1) /\ W \in Int /\ Base(1) = 0
    BY <1>1, <2>2, BaseProps
  <2>4. Base(1) + B <= Base(WordBytes + 1)
    BY <1>1, <2>2, BaseOrder
  <2>5. p \in Nat /\ bit \in 0 .. B - 1 /\ Taken(r) = p + bit
    BY <1>1, ReaderParts
  <2> QED
    BY <2>1, <2>2, <2>3, <2>4, <2>5
<1>3. word \in SUBSET Nat /\ \A q \in Nat : q \in word <=> q < W /\ p + q \in S
  BY <1>1, <1>2, BytesAtBits
<1>4. next \in Byte /\ \A i \in 0 .. B - 1 : i \in next <=> p + W + i \in S
  <2>1. next \in Byte /\ \A i \in 0 .. B - 1 : i \in next <=> Base(r.m_Offset + (WordBytes + 1)) + i \in S
    BY <1>1, <1>2, ByteAtBits
  <2>2. Base(r.m_Offset + (WordBytes + 1)) = p + W
    <3>1. r.m_Offset \in Int /\ WordBytes \in Int /\ r.m_Offset + 1 \in Int
          /\ (r.m_Offset + 1) + WordBytes = r.m_Offset + (WordBytes + 1)
      BY <1>2, ReaderParts
    <3>2. Base((r.m_Offset + 1) + WordBytes) = p + WordBytes * ByteBits
      BY <1>1, <3>1, BaseProps
    <3>3. Base(WordBytes + 1) = WordBytes * ByteBits
      BY <3>1, BaseTimes
    <3> QED
      BY <1>2, <3>1, <3>2, <3>3
  <2> QED
    BY <2>1, <2>2
<1>5. PICK right : right = ShiftRight(word, bit)
  OBVIOUS
<1>6. right \subseteq Nat /\ \A q \in Nat : q \in right <=> q + bit \in word
  <2>1. word \in SUBSET Int /\ bit \in Int
    BY <1>2, <1>3
  <2> QED
    BY <1>5, <2>1, RightBits
<1>7. low \subseteq next /\ (\A i : i \in low <=> i \in next /\ i < bit)
  BY <1>1, LowBits, Zenon
<1>8. low \in SUBSET Int /\ \A i \in low : i \in 0 .. B - 1
  <2>1. next \subseteq 0 .. B - 1
    BY <1>1, <1>4 DEF Byte
  <2> QED
    BY <1>2, <1>7, <2>1
<1>9. left \subseteq Int /\ \A i \in Int : i \in left <=> i - (W - bit) \in low
  <2>1. W - bit \in Int
    BY <1>2
  <2> QED
    BY <1>1, <1>8, <2>1, LeftBits, Zenon
<1>10. over \subseteq left /\ \A i : i \in over <=> i \in left /\ i < W
  BY <1>1, LowBits, Zenon
<1>11. over \subseteq Nat
  <2>1. ASSUME NEW i \in over
        PROVE  i \in Nat
    <3>1. i \in Int /\ i - (W - bit) \in 0 .. B - 1
      BY <1>8, <1>9, <1>10
    <3> QED
      BY <1>2, <3>1
  <2> QED
    BY <2>1
<1>12. WordAt(r) = right \cup over
  BY <1>1, <1>5 DEF WordAt
<1>13. ASSUME NEW q \in Nat
       PROVE  q \in right \cup over <=> q < W /\ (p + bit) + q \in S
  <2>1. q + bit \in Nat /\ p + (q + bit) = (p + bit) + q /\ q \in Int
    BY <1>2
  <2>2. q \in right <=> q + bit < W /\ (p + bit) + q \in S
    BY <1>3, <1>6, <2>1
  <2>3. CASE q + bit < W
    <3>1. q < W
      BY <1>2, <2>3
    <3>2. q \notin over
      <4>1. q \in over => q - (W - bit) \in 0 .. B - 1
        BY <1>8, <1>9, <1>10, <2>1
      <4>2. q - (W - bit) < 0
        BY <1>2, <2>3
      <4> QED
        BY <1>2, <4>1, <4>2
    <3> QED
      BY <2>2, <2>3, <3>1, <3>2
  <2>4. CASE ~(q + bit < W)
    <3>1. q \notin right
      BY <2>2, <2>4
    <3>2. CASE q < W
      <4>1. PICK i : i = q - (W - bit) /\ i \in 0 .. B - 1 /\ i < bit /\ p + W + i = (p + bit) + q
        <5>1. q - (W - bit) \in 0 .. B - 1 /\ q - (W - bit) < bit /\ p + W + (q - (W - bit)) = (p + bit) + q
          BY <1>2, <2>4, <3>2
        <5> QED
          BY <5>1
      <4>2. q \in over <=> i \in low
        BY <1>9, <1>10, <2>1, <3>2, <4>1
      <4>3. i \in low <=> i \in next
        BY <1>7, <4>1
      <4>4. i \in next <=> (p + bit) + q \in S
        BY <1>4, <4>1
      <4> QED
        BY <3>1, <3>2, <4>2, <4>3, <4>4
    <3>3. CASE ~(q < W)
      BY <1>10, <3>1, <3>3
    <3> QED
      BY <3>2, <3>3
  <2> QED
    BY <2>3, <2>4
<1> QED
  BY <1>1, <1>2, <1>6, <1>11, <1>12, <1>13

LEMMA AdvancedProps ==
  ASSUME NEW r, Reader(r), NEW n \in Nat, n <= r.m_NumBytes, NEW bit \in 0 .. ByteBits - 1
  PROVE  /\ Reader(Advanced(r, n, bit)) /\ Advanced(r, n, bit).m_Buffer = r.m_Buffer
         /\ Taken(Advanced(r, n, bit)) = Base(r.m_Offset + 1) + Base(n + 1) + bit
<1>1. PICK a : a = Advanced(r, n, bit)
  OBVIOUS
<1>2. /\ r \in ReaderType /\ r.m_Offset \in Nat /\ r.m_NumBytes \in Nat
      /\ r.m_Offset + r.m_NumBytes = Len(r.m_Buffer) /\ r.m_NumBytes - n \in Nat /\ r.m_Offset + n \in Nat
  BY ReaderParts
<1>3. a = [r EXCEPT !.m_Offset = @ + n, !.m_NumBytes = @ - n, !.m_Bit = bit]
  BY <1>1 DEF Advanced
<1>4. /\ a \in ReaderType /\ a.m_Buffer = r.m_Buffer /\ a.m_Offset = r.m_Offset + n
      /\ a.m_NumBytes = r.m_NumBytes - n /\ a.m_Bit = bit
  BY <1>2, <1>3 DEF ReaderType
<1>5. Reader(a)
  <2>1. (r.m_Offset + n) + (r.m_NumBytes - n) = Len(r.m_Buffer)
    BY <1>2
  <2> QED
    BY <1>4, <2>1 DEF Reader
<1>6. Taken(a) = Base(r.m_Offset + 1) + Base(n + 1) + bit
  <2>1. r.m_Offset + 1 \in Int /\ n \in Int /\ (r.m_Offset + 1) + n = (r.m_Offset + n) + 1
    BY <1>2
  <2>2. Base((r.m_Offset + 1) + n) = Base(r.m_Offset + 1) + n * ByteBits /\ Base(n + 1) = n * ByteBits
    BY <2>1, BaseProps, BaseTimes
  <2> QED
    BY <1>4, <2>1, <2>2 DEF Taken
<1> QED
  BY <1>1, <1>4, <1>5, <1>6

\* A read of "all" bits from place p that has come as far as s says.
ReadingType ==
  [reader : ReaderType, val : SUBSET Nat, shift : Nat, num_bits : Nat, threw : BOOLEAN]

Reading(s, buf, p, all) ==
  /\ s \in ReadingType /\ Reader(s.reader) /\ s.reader.m_Buffer = buf
  /\ s.threw => p + all > Base(Len(buf) + 1)
  /\ ~s.threw => /\ Taken(s.reader) = p + s.shift /\ s.shift + s.num_bits = all
                 /\ \A i \in Nat : i \in s.val <=> i < s.shift /\ p + i \in BytesValue(buf)

\* The h bits of the stream S from place p.
BitsFrom(val, h, S, p) == \A i \in Nat : i \in val <=> i < h /\ p + i \in S

\* n more bits of the stream above them.
LEMMA MoreBits ==
  ASSUME NEW h \in Nat, NEW val \in SUBSET Nat, NEW bits \in SUBSET Nat
  PROVE  /\ val \cup ShiftLeft(bits, h) \in SUBSET Nat
         /\ \A i \in Nat : i \in ShiftLeft(bits, h) <=> i - h \in bits
         /\ \A i \in ShiftLeft(bits, h) : i >= h
<1>1. PICK moved : moved = ShiftLeft(bits, h)
  OBVIOUS
<1>2. moved \subseteq Int /\ \A i \in Int : i \in moved <=> i - h \in bits
  <2>1. bits \in SUBSET Int /\ h \in Int
    OBVIOUS
  <2> QED
    BY <1>1, <2>1, LeftBits, Zenon
<1>3. \A i \in moved : i \in Nat /\ i >= h
  <2> TAKE i \in moved
  <2>1. i \in Int /\ i - h \in Nat
    BY <1>2
  <2> QED
    BY <2>1
<1>4. val \cup moved \in SUBSET Nat
  BY <1>3
<1>5. \A i \in Nat : i \in moved <=> i - h \in bits
  BY <1>2
<1> QED
  BY <1>1, <1>3, <1>4, <1>5

LEMMA MoreFrom ==
  ASSUME NEW S, NEW p \in Nat, NEW h \in Nat, NEW val \in SUBSET Nat, NEW bits \in SUBSET Nat, NEW n \in Nat,
         BitsFrom(val, h, S, p), BitsFrom(bits, n, S, p + h)
  PROVE  BitsFrom(val \cup ShiftLeft(bits, h), h + n, S, p)
<1>1. PICK moved : moved = ShiftLeft(bits, h)
  OBVIOUS
<1>2. /\ \A i \in Nat : i \in moved <=> i - h \in bits
      /\ \A i \in moved : i >= h
  BY <1>1, MoreBits
<1>3. ASSUME NEW i \in Nat
      PROVE  i \in val \cup moved <=> i < h + n /\ p + i \in S
  <2>1. CASE i < h
    <3>1. i \notin moved /\ i < h + n
      BY <1>2, <2>1
    <3>2. i \in val <=> p + i \in S
      BY <2>1 DEF BitsFrom
    <3> QED
      BY <3>1, <3>2
  <2>2. CASE ~(i < h)
    <3>1. i - h \in Nat /\ (p + h) + (i - h) = p + i /\ (i - h < n <=> i < h + n)
      BY <2>2
    <3>2. i - h \in bits <=> i - h < n /\ (p + h) + (i - h) \in S
      BY <3>1 DEF BitsFrom
    <3>3. i \notin val
      BY <2>2 DEF BitsFrom
    <3> QED
      BY <1>2, <3>1, <3>2, <3>3
  <2> QED
    BY <2>1, <2>2
<1> QED
  BY <1>1, <1>3 DEF BitsFrom

\* "bits" are the n bits between the readers r and a.
Passed(r, a, bits, n) ==
  /\ Reader(a) /\ a.m_Buffer = r.m_Buffer /\ bits \in SUBSET Nat /\ n \in Nat /\ Taken(a) = Taken(r) + n
  /\ \A i \in Nat : i \in bits <=> i < n /\ Taken(r) + i \in BytesValue(r.m_Buffer)

Gotten(s, a, bits, n) ==
  [reader |-> a, val |-> s.val \cup ShiftLeft(bits, s.shift), shift |-> s.shift + n,
   num_bits |-> s.num_bits - n, threw |-> FALSE]

LEMMA GotProps ==
  ASSUME NEW buf, NEW p \in Nat, NEW all \in Nat, NEW s, Reading(s, buf, p, all), s.threw = FALSE,
         NEW a, NEW bits, NEW n, n <= s.num_bits, Passed(s.reader, a, bits, n)
  PROVE  Reading(Gotten(s, a, bits, n), buf, p, all)
<1>0. /\ Reader(a) /\ a.m_Buffer = buf /\ bits \in SUBSET Nat /\ n \in Nat /\ Taken(a) = Taken(s.reader) + n
      /\ \A i \in Nat : i \in bits <=> i < n /\ Taken(s.reader) + i \in BytesValue(buf)
  BY DEF Passed, Reading
<1>1. PICK S, h, k, T, moved, val, t :
        /\ S = BytesValue(buf) /\ h = s.shift /\ k = s.num_bits /\ T = Taken(s.reader)
        /\ moved = ShiftLeft(bits, h) /\ val = s.val \cup moved
        /\ t = [reader |-> a, val |-> val, shift |-> h + n, num_bits |-> k - n, threw |-> FALSE]
  OBVIOUS
<1>2. /\ h \in Nat /\ k \in Nat /\ s.val \in SUBSET Nat /\ T = p + h /\ h + k = all
      /\ \A i \in Nat : i \in s.val <=> i < h /\ p + i \in S
  <2>1. s \in ReadingType
    BY DEF Reading
  <2>2. h \in Nat /\ k \in Nat /\ s.val \in SUBSET Nat
    BY <1>1, <2>1 DEF ReadingType
  <2> QED
    BY <1>1, <2>2 DEF Reading
<1>3. BitsFrom(bits, n, S, p + h) /\ BitsFrom(s.val, h, S, p)
  BY <1>0, <1>1, <1>2 DEF BitsFrom
<1>5. val \in SUBSET Nat
  <2>1. s.val \cup ShiftLeft(bits, h) \in SUBSET Nat
    BY <1>0, <1>2, MoreBits
  <2> QED
    BY <1>1, <2>1
<1>6. \A i \in Nat : i \in val <=> i < h + n /\ p + i \in S
  <2>1. BitsFrom(s.val \cup ShiftLeft(bits, h), h + n, S, p)
    BY <1>0, <1>2, <1>3, MoreFrom
  <2> QED
    BY <1>1, <2>1 DEF BitsFrom
<1>7. h + n \in Nat /\ k - n \in Nat /\ (h + n) + (k - n) = all /\ T + n = p + (h + n)
  BY <1>0, <1>1, <1>2
<1>8. t \in ReadingType
  <2>1. a \in ReaderType
    BY <1>0 DEF Reader
  <2>2. PICK x, y : x = h + n /\ y = k - n /\ x \in Nat /\ y \in Nat
    BY <1>7
  <2>3. t = [reader |-> a, val |-> val, shift |-> x, num_bits |-> y, threw |-> FALSE]
    BY <1>1, <2>2
  <2> QED
    BY <1>5, <2>1, <2>2, <2>3 DEF ReadingType
<1>9. t.reader = a /\ t.val = val /\ t.shift = h + n /\ t.num_bits = k - n /\ t.threw = FALSE
  BY <1>1
<1>10. Reading(t, buf, p, all)
  BY <1>0, <1>1, <1>6, <1>7, <1>8, <1>9 DEF Reading
<1>11. t = Gotten(s, a, bits, n)
  BY <1>1 DEF Gotten
<1> QED
  BY <1>1, <1>9, <1>10, <1>11

LEMMA ReadRoundProps ==
  ASSUME NEW buf, NEW p \in Nat, NEW all \in Nat, NEW s, Reading(s, buf, p, all), ~s.threw,
         s.num_bits > 0
  PROVE  \E t : /\ t = ReadRound(s) /\ Reading(t, buf, p, all)
                /\ t.threw \/ t.num_bits < s.num_bits
<1>1. PICK r, B, T, k, S, byte, val :
        /\ r = s.reader /\ B = ByteBits /\ T = Taken(r) /\ k = s.num_bits /\ S = BytesValue(buf)
        /\ byte = ByteAt(r, 1) /\ val = ShiftRight(byte, r.m_Bit)
  OBVIOUS
<1>2. Reader(r) /\ r.m_Buffer = buf /\ k \in Nat /\ k > 0 /\ s.threw = FALSE /\ B \in Nat /\ B > 0
  <2>1. s \in ReadingType /\ Reader(r) /\ r.m_Buffer = buf
    BY <1>1 DEF Reading
  <2>2. k \in Nat /\ s.threw = FALSE
    BY <1>1, <2>1 DEF ReadingType
  <2> QED
    BY <1>1, <2>1, <2>2, SizesKnown
<1>3. PICK bit, q, left, L :
        /\ bit = r.m_Bit /\ q = Base(r.m_Offset + 1) /\ left = r.m_NumBytes /\ L = Len(buf)
        /\ bit \in 0 .. B - 1 /\ q \in Nat /\ left \in Nat /\ L \in Nat
        /\ T = q + bit /\ r.m_Offset \in Nat /\ r.m_Offset + left = L
  BY <1>1, <1>2, ReaderParts
<1> DEFINE Sizes == /\ B \in Int /\ bit \in Int /\ 0 <= bit /\ bit < B /\ k \in Int /\ k > 0
                    /\ q \in Int /\ 0 <= q /\ T = q + bit
<1>99. Sizes
  BY <1>2, <1>3
<1>4. /\ val \subseteq Nat
      /\ \A i \in Nat : i \in val <=> i + bit < B /\ T + i \in S
  <2>1. byte \in Byte /\ \A i \in 0 .. B - 1 : i \in byte <=> q + i \in S
    <3>1. 1 \in Nat /\ 1 >= 1
      OBVIOUS
    <3> QED
      BY <1>1, <1>2, <1>3, <3>1, ByteAtBits
  <2>2. byte \subseteq 0 .. B - 1 /\ byte \in SUBSET Int /\ bit \in Int
    BY <1>1, <1>3, <2>1 DEF Byte
  <2>3. val \subseteq Nat /\ \A i \in Nat : i \in val <=> i + bit \in byte
    BY <1>1, <1>3, <2>2, RightBits
  <2>4. ASSUME NEW i \in Nat
        PROVE  i + bit \in byte <=> i + bit < B /\ T + i \in S
    <3>1. CASE i + bit < B
      <4>1. i + bit \in 0 .. B - 1 /\ q + (i + bit) = T + i
        BY <1>99, <3>1
      <4> QED
        BY <2>1, <3>1, <4>1
    <3>2. CASE ~(i + bit < B)
      <4>1. i + bit \notin 0 .. B - 1
        BY <1>2, <1>3, <3>2
      <4> QED
        BY <2>2, <3>2, <4>1
    <3> QED
      BY <3>1, <3>2
  <2> QED
    BY <2>3, <2>4
<1>5. PICK low : low = Low(val, k)
  OBVIOUS
<1>6. low \in SUBSET Nat /\ \A i \in Nat : i \in low <=> i < k /\ i + bit < B /\ T + i \in S
  <2>1. low \subseteq val /\ \A i : i \in low <=> i \in val /\ i < k
    BY <1>5, LowBits, Zenon
  <2> QED
    BY <1>4, <2>1
<1>7. CASE k = WordBits /\ left >= WordBytes
  <2>1. PICK a : a = Advanced(r, WordBytes, bit)
    OBVIOUS
  <2>2. WordBytes \in Nat /\ WordBytes + 1 \in Int /\ WordBits = Base(WordBytes + 1)
    BY SizesKnown, BaseProps
  <2>3. Reader(a) /\ a.m_Buffer = buf /\ Taken(a) = q + WordBits + bit
    <3>1. WordBytes <= r.m_NumBytes /\ bit \in 0 .. ByteBits - 1
      BY <1>1, <1>3, <1>7
    <3>2. /\ Reader(a) /\ a.m_Buffer = r.m_Buffer
          /\ Taken(a) = Base(r.m_Offset + 1) + Base(WordBytes + 1) + bit
      BY <1>2, <2>1, <2>2, <3>1, AdvancedProps, Zenon
    <3> QED
      BY <1>2, <1>3, <2>2, <3>2
  <2>4. WordAt(r) \in SUBSET Nat /\ \A i \in Nat : i \in WordAt(r) <=> i < k /\ T + i \in S
    BY <1>1, <1>2, <1>7, WordAtBits
  <2>5. Taken(a) = T + k /\ k <= k
    <3>1. PICK w, z : w = WordBits /\ z = Taken(a)
      OBVIOUS
    <3>2. z = q + w + bit /\ k = w
      BY <1>7, <2>3, <3>1, Zenon
    <3> QED
      BY <1>99, <3>1, <3>2
  <2>6. PICK t : /\ t = Gotten(s, a, WordAt(r), k)
                 /\ Reading(t, buf, p, all) /\ t.num_bits = s.num_bits - k
    <3>1. Passed(r, a, WordAt(r), k)
      BY <1>1, <1>2, <2>3, <2>4, <2>5 DEF Passed
    <3>2. Passed(s.reader, a, WordAt(r), k) /\ k <= s.num_bits
      BY <1>1, <2>5, <3>1
    <3>3. s.threw = FALSE
      BY <1>2
    <3>4. Reading(Gotten(s, a, WordAt(r), k), buf, p, all)
      BY <3>2, <3>3, GotProps, Zenon
    <3>5. Gotten(s, a, WordAt(r), k).num_bits = s.num_bits - k
      BY DEF Gotten
    <3> QED
      BY <3>4, <3>5
  <2>7. ReadRound(s) = t
    <3>1. ~(s.num_bits <= 0 \/ s.threw)
      BY <1>1, <1>2
    <3>2. s.num_bits = WordBits /\ s.reader.m_NumBytes >= WordBytes
      BY <1>1, <1>3, <1>7
    <3> QED
      BY <1>1, <1>3, <1>7, <2>1, <2>6, <3>1, <3>2 DEF ReadRound, Gotten
  <2>8. s.num_bits - k < s.num_bits
    BY <1>1, <1>2
  <2> QED
    BY <2>6, <2>7, <2>8
<1>8. CASE ~(k = WordBits /\ left >= WordBytes) /\ left <= 0
  <2>1. PICK t : t = [s EXCEPT !.threw = TRUE]
    OBVIOUS
  <2>2. ReadRound(s) = t
    <3>1. ~(s.num_bits <= 0 \/ s.threw)
      BY <1>1, <1>2
    <3>2. ~(s.num_bits = WordBits /\ s.reader.m_NumBytes >= WordBytes) /\ s.reader.m_NumBytes <= 0
      BY <1>1, <1>3, <1>8
    <3> QED
      BY <2>1, <3>1, <3>2 DEF ReadRound
  <2>3. s \in ReadingType
    BY DEF Reading
  <2>4. t \in ReadingType /\ t.reader = s.reader /\ t.threw = TRUE
    BY <2>1, <2>3 DEF ReadingType
  <2>5. p + all > Base(L + 1)
    <3>1. r.m_Offset = L
      BY <1>3, <1>8
    <3>2. T = p + s.shift /\ s.shift + k = all /\ s.shift \in Nat
      BY <1>1, <1>2, <2>3 DEF Reading, ReadingType
    <3>3. T = Base(L + 1) + bit /\ Base(L + 1) \in Nat
      BY <1>3, <3>1
    <3> QED
      BY <1>99, <3>2, <3>3
  <2>6. Reading(t, buf, p, all)
    BY <1>1, <1>2, <1>3, <2>4, <2>5 DEF Reading
  <2> QED
    BY <2>2, <2>4, <2>6
<1>9. CASE ~(k = WordBits /\ left >= WordBytes) /\ ~(left <= 0) /\ bit + k >= B
  <2>1. PICK a, n : a = Advanced(r, 1, 0) /\ n = B - bit
    OBVIOUS
  <2>2. Reader(a) /\ a.m_Buffer = buf /\ Taken(a) = q + B + 0
    <3>1. 1 \in Nat /\ 1 <= r.m_NumBytes /\ 0 \in 0 .. ByteBits - 1
      BY <1>1, <1>2, <1>3, <1>9
    <3>2. Base(1 + 1) = B
      <4>1. Base(1 + 1) = Base(1) + B /\ Base(1) = 0
        BY <1>1, BaseProps
      <4> QED
        BY <1>2, <4>1
    <3>3. Reader(a) /\ a.m_Buffer = r.m_Buffer /\ Taken(a) = Base(r.m_Offset + 1) + Base(1 + 1) + 0
      BY <1>2, <2>1, <3>1, AdvancedProps
    <3> QED
      BY <1>2, <1>3, <3>2, <3>3
  <2>3. n \in Nat /\ n > 0 /\ n <= k /\ Taken(a) = T + n
    BY <1>99, <1>9, <2>1, <2>2
  <2>4. \A i \in Nat : i \in low <=> i < n /\ T + i \in S
    <3> TAKE i \in Nat
    <3>1. i < n <=> i < k /\ i + bit < B
      BY <1>99, <2>1, <2>3
    <3> QED
      BY <1>6, <3>1
  <2>5. PICK t : /\ t = Gotten(s, a, low, n)
                 /\ Reading(t, buf, p, all) /\ t.num_bits = s.num_bits - n
    <3>1. Passed(r, a, low, n)
      BY <1>1, <1>2, <1>6, <2>2, <2>3, <2>4 DEF Passed
    <3>2. Passed(s.reader, a, low, n) /\ n <= s.num_bits
      BY <1>1, <2>3, <3>1
    <3>3. s.threw = FALSE
      BY <1>2
    <3>4. Reading(Gotten(s, a, low, n), buf, p, all)
      BY <3>2, <3>3, GotProps, Zenon
    <3>5. Gotten(s, a, low, n).num_bits = s.num_bits - n
      BY DEF Gotten
    <3> QED
      BY <3>4, <3>5
  <2>6. ReadRound(s) = t
    <3>1. ~(s.num_bits <= 0 \/ s.threw)
      BY <1>1, <1>2
    <3>2. /\ ~(s.num_bits = WordBits /\ s.reader.m_NumBytes >= WordBytes) /\ ~(s.reader.m_NumBytes <= 0)
          /\ s.reader.m_Bit + s.num_bits >= B
      BY <1>1, <1>3, <1>9
    <3> QED
      BY <1>1, <1>3, <1>5, <2>1, <2>5, <3>1, <3>2 DEF ReadRound, Gotten
  <2>7. s.num_bits - n < s.num_bits
    BY <1>1, <1>2, <2>3
  <2> QED
    BY <2>5, <2>6, <2>7
<1>10. CASE ~(k = WordBits /\ left >= WordBytes) /\ ~(left <= 0) /\ ~(bit + k >= B)
  <2>1. PICK a : a = Advanced(r, 0, bit + k)
    OBVIOUS
  <2>2. Reader(a) /\ a.m_Buffer = buf /\ Taken(a) = q + 0 + (bit + k)
    <3>1. 0 \in Nat /\ 0 <= r.m_NumBytes /\ bit + k \in 0 .. ByteBits - 1
      <4>1. bit + k \in 0 .. B - 1
        BY <1>10, <1>99
      <4>2. 0 <= left
        BY <1>3
      <4> QED
        BY <1>1, <1>3, <4>1, <4>2
    <3>2. Base(0 + 1) = 0
      <4>1. 0 + 1 = 1
        OBVIOUS
      <4> QED
        BY <4>1, BaseProps
    <3>3. Reader(a) /\ a.m_Buffer = r.m_Buffer /\ Taken(a) = Base(r.m_Offset + 1) + Base(0 + 1) + (bit + k)
      BY <1>2, <2>1, <3>1, AdvancedProps
    <3> QED
      BY <1>2, <1>3, <3>2, <3>3
  <2>3. k <= k /\ Taken(a) = T + k
    BY <1>2, <1>3, <2>2
  <2>4. \A i \in Nat : i \in low <=> i < k /\ T + i \in S
    <3> TAKE i \in Nat
    <3>1. i < k => i + bit < B
      BY <1>10, <1>99
    <3> QED
      BY <1>6, <3>1
  <2>5. PICK t : /\ t = Gotten(s, a, low, k)
                 /\ Reading(t, buf, p, all) /\ t.num_bits = s.num_bits - k
    <3>1. Passed(r, a, low, k)
      BY <1>1, <1>2, <1>6, <2>2, <2>3, <2>4 DEF Passed
    <3>2. Passed(s.reader, a, low, k) /\ k <= s.num_bits
      BY <1>1, <2>3, <3>1
    <3>3. s.threw = FALSE
      BY <1>2
    <3>4. Reading(Gotten(s, a, low, k), buf, p, all)
      BY <3>2, <3>3, GotProps, Zenon
    <3>5. Gotten(s, a, low, k).num_bits = s.num_bits - k
      BY DEF Gotten
    <3> QED
      BY <3>4, <3>5
  <2>6. ReadRound(s) = t
    <3>1. ~(s.num_bits <= 0 \/ s.threw)
      BY <1>1, <1>2
    <3>2. /\ ~(s.num_bits = WordBits /\ s.reader.m_NumBytes >= WordBytes) /\ ~(s.reader.m_NumBytes <= 0)
          /\ ~(s.reader.m_Bit + s.num_bits >= B)
      BY <1>1, <1>3, <1>10
    <3> QED
      BY <1>1, <1>3, <1>5, <2>1, <2>5, <3>1, <3>2 DEF ReadRound, Gotten
  <2>7. s.num_bits - k < s.num_bits
    BY <1>1, <1>2
  <2> QED
    BY <2>5, <2>6, <2>7
<1> QED
  BY <1>7, <1>8, <1>9, <1>10

\* A read of n bits: it fails only when the buffer is at its end.
ReadRight(o, r, n) ==
  /\ Reader(o.reader) /\ o.reader.m_Buffer = r.m_Buffer /\ o.val \in SUBSET Nat /\ o.threw \in BOOLEAN
  /\ o.threw => Taken(r) + n > Base(Len(r.m_Buffer) + 1)
  /\ ~o.threw => /\ Taken(o.reader) = Taken(r) + n
                 /\ \A i \in Nat : i \in o.val <=> i < n /\ Taken(r) + i \in BytesValue(r.m_Buffer)

LEMMA ReadUBitsProps ==
  ASSUME NEW r, Reader(r), NEW k \in Nat
  PROVE  ReadRight(ReadUBits(r, k), r, k) /\ ReadUBits(r, k) \in ReadingType
<1> DEFINE buf == r.m_Buffer
           p == Taken(r)
           base == [reader |-> r, val |-> {}, shift |-> 0, num_bits |-> k, threw |-> FALSE]
           A == {s \in ReadingType : Reading(s, buf, p, k)}
           next == [s \in A |-> ReadRound(s)]
           size == [s \in A |-> IF s.threw THEN 0 ELSE s.num_bits]
           Rounds(f) == f = [i \in 0 .. k |-> IF i = 0 THEN base ELSE ReadRound(f[i - 1])]
<1>1. p \in Nat /\ r \in ReaderType
  BY ReaderParts
<1>2. base \in A
  <2>1. base \in ReadingType
    BY <1>1 DEF ReadingType
  <2>2. base.reader = r /\ base.val = {} /\ base.shift = 0 /\ base.num_bits = k /\ base.threw = FALSE
    OBVIOUS
  <2>3. p = p + 0 /\ 0 + k = k /\ \A i \in Nat : ~(i < 0)
    BY <1>1
  <2> HIDE DEF base, p
  <2>4. Reading(base, buf, p, k)
    BY <2>1, <2>2, <2>3 DEF Reading, p
  <2> QED
    BY <2>1, <2>4
<1>3. \A s \in A : s \in ReadingType /\ s.num_bits \in Nat /\ s.threw \in BOOLEAN
  BY DEF ReadingType
<1>4. ASSUME NEW s \in A
      PROVE  /\ ReadRound(s) \in A
             /\ ~s.threw /\ s.num_bits > 0 => ReadRound(s).threw \/ ReadRound(s).num_bits < s.num_bits
             /\ ~(~s.threw /\ s.num_bits > 0) => ReadRound(s) = s
  <2>1. Reading(s, buf, p, k) /\ s.num_bits \in Nat /\ s.threw \in BOOLEAN
    BY <1>3
  <2> HIDE DEF buf, p
  <2>2. CASE ~s.threw /\ s.num_bits > 0
    <3>1. PICK t : t = ReadRound(s) /\ Reading(t, buf, p, k) /\ (t.threw \/ t.num_bits < s.num_bits)
      BY <1>1, <2>1, <2>2, ReadRoundProps
    <3>2. t \in A
      BY <3>1 DEF Reading
    <3> QED
      BY <2>2, <3>1, <3>2
  <2>3. CASE ~(~s.threw /\ s.num_bits > 0)
    <3>1. s.num_bits <= 0 \/ s.threw
      BY <2>1, <2>3
    <3>2. ReadRound(s) = s
      BY <3>1 DEF ReadRound
    <3> QED
      BY <2>3, <3>2
  <2> QED
    BY <2>2, <2>3
<1>5. next \in [A -> A]
  BY <1>4
<1>6. size \in [A -> Nat]
  BY <1>3
<1>7. \A s \in A : size[s] = (IF s.threw THEN 0 ELSE s.num_bits) /\ next[s] = ReadRound(s)
  OBVIOUS
<1>8. Shrinks(A, next, size)
  <2> HIDE DEF A, size, next
  <2> SUFFICES ASSUME NEW s \in A
               PROVE  /\ size[s] # 0 => size[next[s]] < size[s]
                      /\ size[s] = 0 => size[next[s]] = 0
    BY DEF Shrinks
  <2>1. PICK t \in A : t = next[s] /\ t = ReadRound(s)
    BY <1>4, <1>7
  <2>2. /\ s.num_bits \in Nat /\ s.threw \in BOOLEAN /\ t.num_bits \in Nat /\ t.threw \in BOOLEAN
        /\ size[s] = (IF s.threw THEN 0 ELSE s.num_bits) /\ size[t] = (IF t.threw THEN 0 ELSE t.num_bits)
    BY <1>3, <1>7
  <2>3. CASE ~s.threw /\ s.num_bits > 0
    <3>1. t.threw \/ t.num_bits < s.num_bits
      BY <1>4, <2>1, <2>3
    <3> QED
      BY <2>1, <2>2, <2>3, <3>1
  <2>4. CASE ~(~s.threw /\ s.num_bits > 0)
    <3>1. t = s
      BY <1>4, <2>1, <2>4
    <3> QED
      BY <2>1, <2>2, <2>4, <3>1
  <2> QED
    BY <2>3, <2>4
<1> HIDE DEF A
<1>9. PICK f : RoundsOf(f, A, base, k, next)
  <2> HIDE DEF base, next
  <2> QED
    BY <1>2, <1>5, RoundsExist
<1>10. 0 \in 0 .. k /\ (\A i \in 0 .. k : i # 0 => i - 1 \in 0 .. k) /\ \A i \in 1 .. k : i \in 0 .. k /\ i # 0
  OBVIOUS
<1>11. Rounds(f)
  BY <1>9, <1>10 DEF RoundsOf
<1>12. PICK g : Rounds(g) /\ ReadUBits(r, k) = g[k]
  <2>1. ReadUBits(r, k) = (CHOOSE g : Rounds(g))[k]
    BY DEF ReadUBits
  <2>2. Rounds(CHOOSE g : Rounds(g))
    <3> HIDE DEF Rounds
    <3> QED
      BY <1>11
  <2> QED
    BY <2>1, <2>2
<1>13. Follows(g, A, base, k, next)
  BY <1>10, <1>12 DEF Follows
<1>14. g[k] \in A /\ size[g[k]] = 0
  <2>1. size[base] <= k
    BY <1>2
  <2> HIDE DEF base, next, size
  <2> QED
    BY <1>2, <1>5, <1>6, <1>8, <1>13, <2>1, RoundsDone DEF RoundsLead
<1>15. PICK o : o = ReadUBits(r, k) /\ o \in A /\ (o.threw \/ o.num_bits = 0)
  BY <1>7, <1>12, <1>14
<1>16. o \in ReadingType /\ Reading(o, buf, p, k)
  BY <1>15 DEF A
<1>17. o.val \in SUBSET Nat /\ o.threw \in BOOLEAN /\ o.shift \in Nat /\ o.num_bits \in Nat
  BY <1>16 DEF ReadingType
<1>18. ~o.threw => o.shift = k
  BY <1>15, <1>16, <1>17 DEF Reading
<1> QED
  BY <1>15, <1>16, <1>17, <1>18 DEF Reading, ReadRight

ReadingBytesType ==
  [reader : ReaderType, val : SUBSET Nat, shift : Nat, num_bytes : Nat, threw : BOOLEAN]

ReadingBytes(s, buf, p, all) ==
  /\ s \in ReadingBytesType /\ Reader(s.reader) /\ s.reader.m_Buffer = buf
  /\ s.threw => p + all > Base(Len(buf) + 1)
  /\ ~s.threw => /\ Taken(s.reader) = p + s.shift /\ s.shift + Base(s.num_bytes + 1) = all
                 /\ \A i \in Nat : i \in s.val <=> i < s.shift /\ p + i \in BytesValue(buf)

LEMMA BaseNat ==
  ASSUME NEW n \in Nat
  PROVE  Base(n + 1) \in Nat /\ Base(n + 1) = n * ByteBits
<1>1. n \in Int /\ n + 1 \in Int /\ 1 \in Int /\ 1 <= n + 1
  OBVIOUS
<1>2. Base(1) = 0 /\ Base(1) <= Base(n + 1) /\ Base(n + 1) \in Int
  BY <1>1, BaseProps, BaseOrder
<1>3. Base(n + 1) = n * ByteBits
  BY <1>1, BaseTimes
<1> QED
  BY <1>2, <1>3

LEMMA ReadBytesRoundProps ==
  ASSUME NEW buf, NEW p \in Nat, NEW all \in Nat, NEW s, ReadingBytes(s, buf, p, all), ~s.threw,
         s.num_bytes # 0
  PROVE  \E t : /\ t = ReadBytesRound(s) /\ ReadingBytes(t, buf, p, all)
                /\ t.num_bytes < s.num_bytes
<1>1. PICK r, left, n, k, o, S, h, T :
        /\ r = s.reader /\ left = s.num_bytes /\ n = (IF left >= WordBytes THEN WordBytes ELSE 1)
        /\ k = Base(n + 1) /\ o = ReadUBits(r, k) /\ S = BytesValue(buf) /\ h = s.shift /\ T = Taken(r)
  OBVIOUS
<1>2. s \in ReadingBytesType /\ Reader(r) /\ r.m_Buffer = buf
  BY <1>1 DEF ReadingBytes
<1>3. left \in Nat /\ left > 0 /\ h \in Nat /\ s.val \in SUBSET Nat /\ s.threw = FALSE
  BY <1>1, <1>2 DEF ReadingBytesType
<1>4. /\ T = p + h /\ h + Base(left + 1) = all
      /\ \A i \in Nat : i \in s.val <=> i < h /\ p + i \in S
  BY <1>1 DEF ReadingBytes
<1>5. n \in Nat /\ n > 0 /\ n <= left
  BY <1>1, <1>3, SizesKnown
<1>6. k \in Nat /\ k = n * ByteBits /\ Base(left - n + 1) \in Nat /\ Base(left + 1) = k + Base(left - n + 1)
  <2>1. left - n \in Nat /\ (left - n + 1) + n = left + 1 /\ left - n + 1 \in Int /\ n \in Int
    BY <1>3, <1>5
  <2>2. Base((left - n + 1) + n) = Base(left - n + 1) + n * ByteBits
    BY <2>1, BaseProps
  <2>3. Base(left - n + 1) \in Nat /\ Base(n + 1) \in Nat /\ Base(n + 1) = n * ByteBits
    BY <1>5, <2>1, BaseNat
  <2>4. Base(left + 1) = Base(left - n + 1) + k
    BY <1>1, <2>1, <2>2, <2>3
  <2> QED
    BY <1>1, <2>3, <2>4
<1>7. ReadRight(o, r, k)
  BY <1>1, <1>2, <1>6, ReadUBitsProps
<1>8. /\ Reader(o.reader) /\ o.reader.m_Buffer = buf /\ o.val \in SUBSET Nat /\ o.threw \in BOOLEAN
      /\ o.threw => T + k > Base(Len(buf) + 1)
      /\ ~o.threw => /\ Taken(o.reader) = T + k
                     /\ \A i \in Nat : i \in o.val <=> i < k /\ T + i \in S
  BY <1>1, <1>2, <1>7 DEF ReadRight
<1>9. PICK val, t :
        /\ val = s.val \cup ShiftLeft(o.val, h)
        /\ t = [reader |-> o.reader, val |-> val, shift |-> h + k, num_bytes |-> left - n, threw |-> o.threw]
  OBVIOUS
<1>10. ReadBytesRound(s) = t
  <2>1. ~(s.num_bytes = 0 \/ s.threw)
    BY <1>3
  <2> QED
    BY <1>1, <1>6, <1>9, <2>1 DEF ReadBytesRound
<1>11. val \in SUBSET Nat
  <2>1. s.val \cup ShiftLeft(o.val, h) \in SUBSET Nat
    BY <1>3, <1>8, MoreBits
  <2> QED
    BY <1>9, <2>1
<1>12. t \in ReadingBytesType
  <2>1. PICK x, y : x = h + k /\ y = left - n /\ x \in Nat /\ y \in Nat
    BY <1>3, <1>5, <1>6
  <2>2. t = [reader |-> o.reader, val |-> val, shift |-> x, num_bytes |-> y, threw |-> o.threw]
    BY <1>9, <2>1
  <2>3. o.reader \in ReaderType
    BY <1>8 DEF Reader
  <2> QED
    BY <1>8, <1>11, <2>1, <2>2, <2>3 DEF ReadingBytesType
<1>13. t.reader = o.reader /\ t.val = val /\ t.shift = h + k /\ t.num_bytes = left - n /\ t.threw = o.threw
  BY <1>9
<1>14. o.threw => p + all > Base(Len(buf) + 1)
  <2> HAVE o.threw
  <2>1. T + k > Base(Len(buf) + 1) /\ Len(buf) \in Nat
    BY <1>2, <1>8, ReaderParts
  <2>2. Base(Len(buf) + 1) \in Nat
    BY <2>1, BaseNat
  <2>3. p + all >= T + k
    <3>1. PICK x \in Nat : x = Base(left - n + 1) /\ all = h + (k + x)
      BY <1>4, <1>6
    <3> QED
      BY <1>3, <1>4, <1>6, <3>1
  <2> QED
    BY <1>3, <1>4, <1>6, <2>1, <2>2, <2>3
<1>15. ~o.threw => /\ Taken(o.reader) = p + (h + k) /\ (h + k) + Base((left - n) + 1) = all
                   /\ \A i \in Nat : i \in val <=> i < h + k /\ p + i \in S
  <2> HAVE ~o.threw
  <2>1. Taken(o.reader) = p + (h + k)
    BY <1>3, <1>4, <1>6, <1>8
  <2>2. (h + k) + Base((left - n) + 1) = all
    <3>1. PICK x \in Nat : x = Base(left - n + 1) /\ all = h + (k + x)
      BY <1>4, <1>6
    <3> QED
      BY <1>3, <1>6, <3>1
  <2>3. BitsFrom(o.val, k, S, p + h) /\ BitsFrom(s.val, h, S, p)
    BY <1>4, <1>8 DEF BitsFrom
  <2>4. BitsFrom(s.val \cup ShiftLeft(o.val, h), h + k, S, p)
    BY <1>3, <1>6, <1>8, <2>3, MoreFrom
  <2>5. \A i \in Nat : i \in val <=> i < h + k /\ p + i \in S
    BY <1>9, <2>4 DEF BitsFrom
  <2> QED
    BY <2>1, <2>2, <2>5
<1>16. ReadingBytes(t, buf, p, all)
  BY <1>1, <1>8, <1>12, <1>13, <1>14, <1>15 DEF ReadingBytes
<1>17. left - n < left
  BY <1>3, <1>5
<1> QED
  BY <1>1, <1>10, <1>13, <1>16, <1>17

LEMMA ReadBytesProps ==
  ASSUME NEW r, Reader(r), NEW k \in Nat
  PROVE  ReadRight(ReadBytes(r, k), r, Base(k + 1))
<1> DEFINE buf == r.m_Buffer
           p == Taken(r)
           all == Base(k + 1)
           base == [reader |-> r, val |-> {}, shift |-> 0, num_bytes |-> k, threw |-> FALSE]
           A == {s \in ReadingBytesType : ReadingBytes(s, buf, p, all)}
           next == [s \in A |-> ReadBytesRound(s)]
           size == [s \in A |-> IF s.threw THEN 0 ELSE s.num_bytes]
           Rounds(f) == f = [i \in 0 .. k |-> IF i = 0 THEN base ELSE ReadBytesRound(f[i - 1])]
<1>1. p \in Nat /\ r \in ReaderType /\ all \in Nat
  BY ReaderParts, BaseNat
<1>2. base \in A
  <2>1. base \in ReadingBytesType
    BY <1>1 DEF ReadingBytesType
  <2>2. base.reader = r /\ base.val = {} /\ base.shift = 0 /\ base.num_bytes = k /\ base.threw = FALSE
    OBVIOUS
  <2>3. p = p + 0 /\ 0 + all = all /\ \A i \in Nat : ~(i < 0)
    BY <1>1
  <2> HIDE DEF base, p
  <2>4. ReadingBytes(base, buf, p, all)
    BY <2>1, <2>2, <2>3 DEF ReadingBytes, p
  <2> QED
    BY <2>1, <2>4
<1>3. \A s \in A : s \in ReadingBytesType /\ s.num_bytes \in Nat /\ s.threw \in BOOLEAN
  BY DEF ReadingBytesType
<1>4. ASSUME NEW s \in A
      PROVE  /\ ReadBytesRound(s) \in A
             /\ ~s.threw /\ s.num_bytes # 0 => ReadBytesRound(s).num_bytes < s.num_bytes
             /\ ~(~s.threw /\ s.num_bytes # 0) => ReadBytesRound(s) = s
  <2>1. ReadingBytes(s, buf, p, all) /\ s.num_bytes \in Nat /\ s.threw \in BOOLEAN
    BY <1>3
  <2> HIDE DEF buf, p, all
  <2>2. CASE ~s.threw /\ s.num_bytes # 0
    <3>1. PICK t : t = ReadBytesRound(s) /\ ReadingBytes(t, buf, p, all) /\ t.num_bytes < s.num_bytes
      BY <1>1, <2>1, <2>2, ReadBytesRoundProps
    <3>2. t \in A
      BY <3>1 DEF ReadingBytes
    <3> QED
      BY <2>2, <3>1, <3>2
  <2>3. CASE ~(~s.threw /\ s.num_bytes # 0)
    <3>1. s.num_bytes = 0 \/ s.threw
      BY <2>1, <2>3
    <3>2. ReadBytesRound(s) = s
      BY <3>1 DEF ReadBytesRound
    <3> QED
      BY <2>3, <3>2
  <2> QED
    BY <2>2, <2>3
<1>5. next \in [A -> A]
  BY <1>4
<1>6. size \in [A -> Nat]
  BY <1>3
<1>7. \A s \in A : size[s] = (IF s.threw THEN 0 ELSE s.num_bytes) /\ next[s] = ReadBytesRound(s)
  OBVIOUS
<1>8. Shrinks(A, next, size)
  <2> HIDE DEF A, size, next
  <2> SUFFICES ASSUME NEW s \in A
               PROVE  /\ size[s] # 0 => size[next[s]] < size[s]
                      /\ size[s] = 0 => size[next[s]] = 0
    BY DEF Shrinks
  <2>1. PICK t \in A : t = next[s] /\ t = ReadBytesRound(s)
    BY <1>4, <1>7
  <2>2. /\ s.num_bytes \in Nat /\ s.threw \in BOOLEAN /\ t.num_bytes \in Nat /\ t.threw \in BOOLEAN
        /\ size[s] = (IF s.threw THEN 0 ELSE s.num_bytes) /\ size[t] = (IF t.threw THEN 0 ELSE t.num_bytes)
    BY <1>3, <1>7
  <2>3. CASE ~s.threw /\ s.num_bytes # 0
    <3>1. t.num_bytes < s.num_bytes
      BY <1>4, <2>1, <2>3
    <3> QED
      BY <2>1, <2>2, <2>3, <3>1
  <2>4. CASE ~(~s.threw /\ s.num_bytes # 0)
    <3>1. t = s
      BY <1>4, <2>1, <2>4
    <3> QED
      BY <2>1, <2>2, <2>4, <3>1
  <2> QED
    BY <2>3, <2>4
<1> HIDE DEF A
<1>9. PICK f : RoundsOf(f, A, base, k, next)
  <2> HIDE DEF base, next
  <2> QED
    BY <1>2, <1>5, RoundsExist
<1>10. 0 \in 0 .. k /\ (\A i \in 0 .. k : i # 0 => i - 1 \in 0 .. k) /\ \A i \in 1 .. k : i \in 0 .. k /\ i # 0
  OBVIOUS
<1>11. Rounds(f)
  BY <1>9, <1>10 DEF RoundsOf
<1>12. PICK g : Rounds(g) /\ ReadBytes(r, k) = g[k]
  <2>1. ReadBytes(r, k) = (CHOOSE g : Rounds(g))[k]
    BY DEF ReadBytes
  <2>2. Rounds(CHOOSE g : Rounds(g))
    <3> HIDE DEF Rounds
    <3> QED
      BY <1>11
  <2> QED
    BY <2>1, <2>2
<1>13. Follows(g, A, base, k, next)
  BY <1>10, <1>12 DEF Follows
<1>14. g[k] \in A /\ size[g[k]] = 0
  <2>1. size[base] <= k
    BY <1>2
  <2> HIDE DEF base, next, size
  <2> QED
    BY <1>2, <1>5, <1>6, <1>8, <1>13, <2>1, RoundsDone DEF RoundsLead
<1>15. PICK o : o = ReadBytes(r, k) /\ o \in A /\ (o.threw \/ o.num_bytes = 0)
  BY <1>7, <1>12, <1>14
<1>16. o \in ReadingBytesType /\ ReadingBytes(o, buf, p, all)
  BY <1>15 DEF A
<1>17. o.val \in SUBSET Nat /\ o.threw \in BOOLEAN /\ o.shift \in Nat /\ o.num_bytes \in Nat
  BY <1>16 DEF ReadingBytesType
<1>18. ~o.threw => o.shift = all
  <2> HAVE ~o.threw
  <2>1. o.num_bytes + 1 = 1 /\ o.shift + Base(o.num_bytes + 1) = all
    BY <1>15, <1>16, <1>17 DEF ReadingBytes
  <2>2. Base(1) = 0
    BY BaseProps
  <2> QED
    BY <1>17, <2>1, <2>2
<1> QED
  BY <1>15, <1>16, <1>17, <1>18 DEF ReadingBytes, ReadRight

LEMMA ReadBufferProps ==
  ASSUME NEW r, Reader(r), NEW k \in Nat
  PROVE  ReadRight(ReadBuffer(r, k), r, Base(k + 1))
<1>1. CASE r.m_Bit = 0 /\ r.m_NumBytes >= k
  <2>1. PICK a, o : a = Advanced(r, k, 0) /\ o = [reader |-> a, val |-> BytesAt(r, k), threw |-> FALSE]
    OBVIOUS
  <2>2. k <= r.m_NumBytes /\ 0 \in 0 .. ByteBits - 1 /\ Taken(r) = Base(r.m_Offset + 1) /\ Base(k + 1) \in Nat
        /\ Base(r.m_Offset + 1) \in Nat
    <3>1. r.m_NumBytes \in Nat /\ Base(r.m_Offset + 1) \in Nat /\ Taken(r) = Base(r.m_Offset + 1) + r.m_Bit
      BY ReaderParts
    <3>2. 0 \in 0 .. ByteBits - 1
      BY SizesKnown
    <3> QED
      BY <1>1, <3>1, <3>2, BaseNat
  <2>3. Reader(a) /\ a.m_Buffer = r.m_Buffer /\ Taken(a) = Taken(r) + Base(k + 1)
    <3>1. Reader(a) /\ a.m_Buffer = r.m_Buffer /\ Taken(a) = Base(r.m_Offset + 1) + Base(k + 1) + 0
      BY <2>1, <2>2, AdvancedProps
    <3> QED
      BY <2>2, <3>1
  <2>4. /\ BytesAt(r, k) \in SUBSET Nat
        /\ \A q \in Nat : q \in BytesAt(r, k) <=> q < Base(k + 1) /\ Taken(r) + q \in BytesValue(r.m_Buffer)
    BY <2>2, BytesAtBits
  <2>5. ReadBuffer(r, k) = o
    BY <1>1, <2>1 DEF ReadBuffer
  <2>6. o.reader = a /\ o.val = BytesAt(r, k) /\ o.threw = FALSE
    BY <2>1
  <2> QED
    BY <2>3, <2>4, <2>5, <2>6 DEF ReadRight
<1>2. CASE ~(r.m_Bit = 0 /\ r.m_NumBytes >= k)
  <2>1. ReadBuffer(r, k) = ReadBytes(r, k)
    BY <1>2 DEF ReadBuffer
  <2> QED
    BY <2>1, ReadBytesProps
<1> QED
  BY <1>1, <1>2

------------------------------------------------------------------------------
(***************************************************************************)
(* Bit buffers.                                                            *)
(***************************************************************************)
LEMMA WordBitsAt ==
  ASSUME NEW n \in Nat
  PROVE  /\ Word(n) \in SUBSET Nat
         /\ \A i \in 0 .. LengthBits - 1 : i \in Word(n) <=> BitsOf(n, LengthBits)[i + 1] = 1
<1>1. LengthBits \in 1 .. 31
  BY SizeAssumption
<1>2. Word(n) \in SUBSET Nat
  BY DEF Word
<1>3. ASSUME NEW i \in 0 .. LengthBits - 1
      PROVE  i \in Word(n) <=> BitsOf(n, LengthBits)[i + 1] = 1
  <2>1. i \in 0 .. 30 /\ i + 1 \in 1 .. 31 /\ i + 1 \in 1 .. LengthBits
    BY <1>1
  <2>2. BitsOf(n, 31)[i + 1] = BitsOf(n, LengthBits)[i + 1]
    BY <2>1 DEF BitsOf
  <2> QED
    BY <2>1, <2>2 DEF Word
<1> QED
  BY <1>2, <1>3

LEMMA NumberOfWord ==
  ASSUME NEW n \in 0 .. 2 ^ LengthBits - 1
  PROVE  NumberOf(Low(Word(n), LengthBits)) = n
<1>1. LengthBits \in 0 .. 32 /\ LengthBits \in Nat /\ LengthBits \in 1 .. 32
  BY SizeAssumption
<1>2. PICK p \in Nat : p = 2 ^ LengthBits /\ p > 0
  BY <1>1, PowerOfTwo
<1>3. n \in 0 .. p - 1
  BY <1>2
<1>4. ASSUME NEW m \in 0 .. p - 1, Low(Word(m), LengthBits) = Low(Word(n), LengthBits)
      PROVE  m = n
  <2>1. m \in Nat /\ n \in Nat
    BY <1>3
  <2>2. \A j \in 1 .. LengthBits : BitsOf(m, LengthBits)[j] = BitsOf(n, LengthBits)[j]
    <3> TAKE j \in 1 .. LengthBits
    <3>1. PICK i \in 0 .. LengthBits - 1 : i + 1 = j /\ i < LengthBits
      <4>1. j - 1 \in 0 .. LengthBits - 1 /\ (j - 1) + 1 = j /\ j - 1 < LengthBits
        BY <1>1
      <4> QED
        BY <4>1
    <3>2. i \in Word(m) <=> i \in Word(n)
      <4>1. \A k : k \in Low(Word(m), LengthBits) <=> k \in Word(m) /\ k < LengthBits
        BY LowBits, Zenon
      <4>2. \A k : k \in Low(Word(n), LengthBits) <=> k \in Word(n) /\ k < LengthBits
        BY LowBits, Zenon
      <4> QED
        BY <1>4, <3>1, <4>1, <4>2
    <3>3. (i \in Word(m) <=> BitsOf(m, LengthBits)[j] = 1) /\ (i \in Word(n) <=> BitsOf(n, LengthBits)[j] = 1)
      BY <2>1, <3>1, WordBitsAt
    <3>4. BitsOf(m, LengthBits)[j] \in {0, 1} /\ BitsOf(n, LengthBits)[j] \in {0, 1}
      <4>1. BitsOf(m, LengthBits) \in [1 .. LengthBits -> {0, 1}] /\ BitsOf(n, LengthBits) \in [1 .. LengthBits -> {0, 1}]
        BY <1>1, <2>1, BitsType
      <4> QED
        BY <4>1
    <3> QED
      BY <3>2, <3>3, <3>4
  <2>3. BitsOf(m, LengthBits) = BitsOf(n, LengthBits)
    BY <2>2 DEF BitsOf
  <2>4. ReadsBackAt(LengthBits)
    BY <1>1, AllReadable
  <2> QED
    BY <1>2, <1>3, <2>3, <2>4 DEF ReadsBackAt
<1>5. NumberOf(Low(Word(n), LengthBits)) = (CHOOSE m \in 0 .. p - 1 : Low(Word(m), LengthBits) = Low(Word(n), LengthBits))
  BY <1>2 DEF NumberOf
<1> QED
  BY <1>3, <1>4, <1>5

LEMMA ChunkProps ==
  ASSUME NEW bits \in Nat, bits > 0, NEW n, n = (IF ChunkBits(bits) = WordBits THEN WordBytes ELSE 1)
  PROVE  /\ ChunkBits(bits) \in Nat /\ ChunkBits(bits) > 0 /\ ChunkBits(bits) <= bits
         /\ n \in Nat /\ n > 0 /\ ChunkBits(bits) <= Base(n + 1)
         /\ ChunkBits(bits) = Base(n + 1) \/ (ChunkBits(bits) = bits /\ n = 1)
<1>1. /\ ByteBits \in Nat /\ ByteBits > 0 /\ WordBytes \in Nat /\ WordBytes > 0
      /\ WordBits = Base(WordBytes + 1) /\ WordBits \in Nat /\ WordBits >= ByteBits /\ Base(1 + 1) = ByteBits
  <2>1. ByteBits \in Nat /\ ByteBits > 0 /\ WordBytes \in Nat /\ WordBytes > 0
    BY SizesKnown
  <2>2. 1 \in Int /\ WordBytes + 1 \in Int /\ 1 < WordBytes + 1
    BY <2>1
  <2>3. WordBits = Base(WordBytes + 1) /\ Base(WordBytes + 1) \in Nat /\ Base(1) = 0
    BY <2>1, <2>2, BaseProps, BaseNat
  <2>4. Base(1) + ByteBits <= Base(WordBytes + 1) /\ Base(1 + 1) = Base(1) + ByteBits
    BY <2>2, BaseOrder, BaseTimes
  <2> QED
    BY <2>1, <2>3, <2>4
<1>2. CASE bits >= WordBits
  <2>1. ChunkBits(bits) = WordBits /\ n = WordBytes
    BY <1>2 DEF ChunkBits
  <2> QED
    BY <1>1, <1>2, <2>1
<1>3. CASE ~(bits >= WordBits) /\ bits >= ByteBits
  <2>1. ChunkBits(bits) = ByteBits
    BY <1>3 DEF ChunkBits
  <2>2. WordBits # ByteBits
    BY <1>1, <1>3
  <2>3. n = 1
    BY <2>1, <2>2
  <2> QED
    BY <1>1, <1>3, <2>1, <2>3
<1>4. CASE ~(bits >= WordBits) /\ ~(bits >= ByteBits)
  <2>1. ChunkBits(bits) = bits
    BY <1>4 DEF ChunkBits
  <2>2. WordBits # bits
    BY <1>1, <1>4
  <2>3. n = 1
    BY <2>1, <2>2
  <2> QED
    BY <1>1, <1>4, <2>1, <2>3
<1> QED
  BY <1>2, <1>3, <1>4

\* A copy into a packet: the next "bits" bits of data belong at the writer.
Copying(s, ones, all) ==
  /\ s \in [writer : WriterType, data : Seq(Byte), bits : Nat] /\ Good(s.writer, ones)
  /\ Place(s.writer) + s.bits = all /\ s.bits <= Base(Len(s.data) + 1)
  /\ \A i \in Nat : i < s.bits => (i \in BytesValue(s.data) <=> Place(s.writer) + i \in ones)

LEMMA CopyOutRoundProps ==
  ASSUME NEW ones, NEW all, NEW s, Copying(s, ones, all), s.bits # 0
  PROVE  \E t : t = CopyOutRound(s) /\ Copying(t, ones, all) /\ t.bits < s.bits
<1>1. PICK w, data, bits, n, m, L, part, rest :
        /\ w = s.writer /\ data = s.data /\ bits = s.bits /\ n = ChunkBits(bits) /\ L = Len(data)
        /\ m = (IF n = WordBits THEN WordBytes ELSE 1)
        /\ part = SubSeq(data, 1, m) /\ rest = SubSeq(data, m + 1, L)
  OBVIOUS
<1>2. /\ w \in WriterType /\ data \in Seq(Byte) /\ bits \in Nat /\ bits > 0 /\ L \in Nat
      /\ Good(w, ones) /\ Place(w) \in Nat
  <2>1. w \in WriterType /\ data \in Seq(Byte) /\ bits \in Nat
    BY <1>1 DEF Copying
  <2>2. Good(w, ones)
    BY <1>1 DEF Copying
  <2> QED
    BY <1>1, <2>1, <2>2 DEF Good
<1>3. /\ Place(w) + bits = all /\ bits <= Base(L + 1)
      /\ \A i \in Nat : i < bits => (i \in BytesValue(data) <=> Place(w) + i \in ones)
  BY <1>1 DEF Copying
<1>4. /\ n \in Nat /\ n > 0 /\ n <= bits /\ m \in Nat /\ m > 0 /\ n <= Base(m + 1)
      /\ n = Base(m + 1) \/ (n = bits /\ m = 1)
  BY <1>1, <1>2, ChunkProps
<1>5. m <= L /\ Base(m + 1) \in Nat /\ Base(L + 1) \in Nat
  <2>1. Base(m + 1) \in Nat /\ Base(L + 1) \in Nat
    BY <1>2, <1>4, BaseNat
  <2>2. CASE n = Base(m + 1)
    <3>1. m + 1 \in Int /\ L + 1 \in Int
      BY <1>2, <1>4
    <3>2. L + 1 < m + 1 => Base(L + 1) + ByteBits <= Base(m + 1)
      BY <3>1, BaseOrder
    <3>3. ~(L + 1 < m + 1)
      <4>1. Base(m + 1) <= Base(L + 1) /\ ByteBits \in Nat /\ ByteBits > 0
        BY <1>2, <1>3, <1>4, <2>1, <2>2, SizesKnown
      <4> QED
        BY <2>1, <3>2, <4>1
    <3> QED
      BY <1>2, <1>4, <2>1, <3>3
  <2>3. CASE n = bits /\ m = 1
    <3>1. L # 0
      <4>1. Base(0 + 1) = 0
        <5>1. 0 + 1 = 1
          OBVIOUS
        <5> QED
          BY <5>1, BaseProps
      <4> QED
        BY <1>2, <1>3, <4>1
    <3> QED
      BY <1>2, <2>1, <2>3, <3>1
  <2> QED
    BY <1>4, <2>2, <2>3
<1>6. /\ part \in Seq(Byte) /\ BytesValue(part) \in SUBSET Nat
      /\ \A i \in Nat : i < Base(m + 1) => (i \in BytesValue(part) <=> i \in BytesValue(data))
  <2>1. 0 \in Nat /\ 0 <= m /\ m - 0 = m /\ 0 + 1 = 1 /\ m \in Nat /\ m <= Len(data)
    BY <1>1, <1>4, <1>5
  <2>2. /\ SubSeq(data, 0 + 1, m) \in Seq(Byte) /\ BytesValue(SubSeq(data, 0 + 1, m)) \in SUBSET Nat
        /\ \A i \in Nat : i < Base(m - 0 + 1) =>
             (i \in BytesValue(SubSeq(data, 0 + 1, m)) <=> Base(0 + 1) + i \in BytesValue(data))
    BY <1>2, <2>1, PartBits
  <2>3. Base(1) = 0 /\ \A i \in Nat : 0 + i = i
    BY BaseProps
  <2> QED
    BY <1>1, <2>1, <2>2, <2>3
<1>7. /\ rest \in Seq(Byte) /\ Len(rest) = L - m
      /\ \A i \in Nat : i < Base(L - m + 1) => (i \in BytesValue(rest) <=> Base(m + 1) + i \in BytesValue(data))
  <2>1. m \in Nat /\ L \in Nat /\ m <= L /\ L <= Len(data)
    BY <1>1, <1>2, <1>4, <1>5
  <2>2. /\ SubSeq(data, m + 1, L) \in Seq(Byte) /\ Len(SubSeq(data, m + 1, L)) = L - m
        /\ \A p \in Nat : p < Base(L - m + 1) =>
             (p \in BytesValue(SubSeq(data, m + 1, L)) <=> Base(m + 1) + p \in BytesValue(data))
    BY <1>2, <2>1, PartBits, Zenon
  <2> QED
    BY <1>1, <2>2
<1>8. \A i \in 0 .. n - 1 : i \in BytesValue(part) <=> Place(w) + i \in ones
  <2> TAKE i \in 0 .. n - 1
  <2>1. i \in Nat /\ i < Base(m + 1) /\ i < bits
    BY <1>2, <1>4, <1>5
  <2> QED
    BY <1>3, <1>6, <2>1
<1>9. PICK v : /\ v = WriteBits(w, BytesValue(part), n) /\ Good(v, ones) /\ Place(v) = Place(w) + n
  <2>1. PICK x \in SUBSET Nat : x = BytesValue(part)
    BY <1>6
  <2>2. \A i \in 0 .. n - 1 : i \in x <=> Place(w) + i \in ones
    BY <1>8, <2>1
  <2>3. PICK v : v = WriteBits(w, x, n) /\ Good(v, ones) /\ Place(v) = Place(w) + n
    BY <1>2, <1>4, <2>2, WriteBitsProps
  <2> QED
    BY <2>1, <2>3
<1>10. PICK left, t : left = bits - n /\ t = [writer |-> v, data |-> rest, bits |-> left]
  OBVIOUS
<1>11. CopyOutRound(s) = t
  <2>1. ~(s.bits = 0)
    BY <1>1, <1>2
  <2> QED
    BY <1>1, <1>9, <1>10, <2>1 DEF CopyOutRound
<1>12. left \in Nat /\ left < bits
  BY <1>2, <1>4, <1>10
<1>13. left <= Base(L - m + 1) /\ (left # 0 => n = Base(m + 1)) /\ Base(L - m + 1) \in Nat
  <2>1. L - m \in Nat /\ (L - m + 1) + m = L + 1 /\ L - m + 1 \in Int /\ m \in Int
    BY <1>2, <1>4, <1>5
  <2>2. Base((L - m + 1) + m) = Base(L - m + 1) + m * ByteBits /\ Base(m + 1) = m * ByteBits
        /\ Base(L - m + 1) \in Nat
    BY <1>4, <2>1, BaseProps, BaseNat
  <2>3. PICK x, y \in Nat : x = Base(L - m + 1) /\ y = Base(m + 1) /\ Base(L + 1) = x + y
    BY <1>5, <2>1, <2>2
  <2>4. bits <= x + y /\ (n = y \/ n = bits)
    BY <1>3, <1>4, <2>3
  <2> QED
    BY <1>2, <1>4, <1>10, <2>3, <2>4
<1>14. \A i \in Nat : i < left => (i \in BytesValue(rest) <=> Place(v) + i \in ones)
  <2> TAKE i \in Nat
  <2> HAVE i < left
  <2>1. i < Base(L - m + 1) /\ n = Base(m + 1) /\ n + i \in Nat /\ n + i < bits
        /\ Place(w) + (n + i) = Place(v) + i
    BY <1>2, <1>4, <1>9, <1>10, <1>12, <1>13
  <2> QED
    BY <1>3, <1>7, <2>1
<1>15. Copying(t, ones, all)
  <2>1. v \in WriterType /\ Place(v) + left = all
    BY <1>2, <1>3, <1>4, <1>9, <1>10 DEF Good
  <2>2. t.writer = v /\ t.data = rest /\ t.bits = left
    BY <1>10
  <2>3. t \in [writer : WriterType, data : Seq(Byte), bits : Nat]
    BY <1>7, <1>10, <1>12, <2>1
  <2> QED
    BY <1>7, <1>9, <1>13, <1>14, <2>1, <2>2, <2>3 DEF Copying
<1> QED
  BY <1>1, <1>10, <1>11, <1>12, <1>15

LEMMA EmptyGood ==
  ASSUME NEW ones
  PROVE  Good(EmptyWriter, ones) /\ Place(EmptyWriter) = 0 /\ EmptyWriter.m_TotalBits = 0
<1>1. /\ EmptyWriter.m_Buffer = << >> /\ EmptyWriter.m_Bit = ByteBits /\ EmptyWriter.m_TotalBits = 0
      /\ EmptyWriter \in WriterType
  <2>1. ByteBits \in 1 .. ByteBits
    BY SizesKnown
  <2> QED
    BY <2>1 DEF EmptyWriter, WriterType
<1>2. Base(0) = -ByteBits /\ Len(<< >>) = 0 /\ ByteBits \in Nat
  BY BaseProps, SizesKnown
<1>3. Place(EmptyWriter) = 0
  BY <1>1, <1>2 DEF Place
<1>4. Agrees(<< >>, 0, ones)
  BY DEF Agrees
<1> QED
  BY <1>1, <1>3, <1>4 DEF Good

\* A bit buffer in a packet, behind d bits that are set: its length, then its bits.
PacketBits(d, n, S) ==
  {i \in Nat : IF i < d THEN TRUE
               ELSE IF i < d + LengthBits THEN i - d \in Word(n) ELSE i - (d + LengthBits) \in S}

LEMMA SerializeProps ==
  ASSUME NEW w, w.m_Buffer \in Seq(Byte), w.m_TotalBits \in Nat,
         w.m_TotalBits <= Base(Len(w.m_Buffer) + 1),
         NEW d \in Nat, NEW to, Place(to) = d,
         Good(to, PacketBits(d, w.m_TotalBits, BytesValue(w.m_Buffer)))
  PROVE  \E v : /\ v = SerializeBitBuffer(to, w)
                /\ Good(v, PacketBits(d, w.m_TotalBits, BytesValue(w.m_Buffer)))
                /\ Place(v) = (d + LengthBits) + w.m_TotalBits
<1> DEFINE k == w.m_TotalBits
           S == BytesValue(w.m_Buffer)
           ones == PacketBits(d, k, S)
           from == d + LengthBits
           all == from + k
           head == WriteBits(to, Word(k), LengthBits)
           base == [writer |-> head, data |-> w.m_Buffer, bits |-> k]
           A == {s \in [writer : WriterType, data : Seq(Byte), bits : Nat] : Copying(s, ones, all)}
           next == [s \in A |-> CopyOutRound(s)]
           size == [s \in A |-> s.bits]
           Rounds(f) == f = [i \in 0 .. k |-> IF i = 0 THEN base ELSE CopyOutRound(f[i - 1])]
<1>1. k \in Nat /\ LengthBits \in Nat /\ from \in Nat /\ S \in SUBSET Nat
  BY SizeAssumption, StreamBits
<1>2. \A i \in Nat : ~(i < d) => (i \in ones <=> IF i < from THEN i - d \in Word(k) ELSE i - from \in S)
  BY DEF PacketBits
<1> HIDE DEF ones, S
<1>3. Good(head, ones) /\ Place(head) = from
  <2>1. Good(to, ones) /\ Place(to) = d
    BY DEF ones, S
  <2>2. Word(k) \in SUBSET Nat
    BY <1>1, WordBitsAt
  <2>3. \A i \in 0 .. LengthBits - 1 : i \in Word(k) <=> Place(to) + i \in ones
    <3> TAKE i \in 0 .. LengthBits - 1
    <3>1. d + i \in Nat /\ ~(d + i < d) /\ d + i < from /\ (d + i) - d = i
      BY <1>1
    <3> QED
      BY <1>2, <2>1, <3>1
  <2>4. PICK v : /\ v = WriteBits(to, Word(k), LengthBits) /\ Good(v, ones)
                 /\ Place(v) = Place(to) + LengthBits
    <3>1. PICK bits : bits = Word(k)
      OBVIOUS
    <3> HIDE DEF k, from, all, head, base, A, next, size, Rounds
    <3> QED
      BY <1>1, <2>1, <2>2, <2>3, <3>1, WriteBitsProps
  <2> QED
    BY <1>1, <2>1, <2>4
<1>4. base \in A
  <2>1. head \in WriterType
    BY <1>3 DEF Good
  <2> HIDE DEF head, k, from
  <2>2. base.writer = head /\ base.data = w.m_Buffer /\ base.bits = k
        /\ base \in [writer : WriterType, data : Seq(Byte), bits : Nat]
    BY <1>1, <2>1
  <2>3. \A i \in Nat : i < k => (i \in S <=> from + i \in ones)
    <3> TAKE i \in Nat
    <3>1. from + i \in Nat /\ ~(from + i < from) /\ ~(from + i < d) /\ (from + i) - from = i
      BY <1>1 DEF from
    <3> QED
      BY <1>2, <3>1
  <2>4. k <= Base(Len(w.m_Buffer) + 1)
    BY DEF k
  <2> HIDE DEF base
  <2>5. Copying(base, ones, all)
    BY <1>3, <2>2, <2>3, <2>4 DEF Copying, S
  <2> QED
    BY <2>2, <2>5
<1>5. \A s \in A : s.bits \in Nat
  OBVIOUS
<1>6. ASSUME NEW s \in A
      PROVE  /\ CopyOutRound(s) \in A
             /\ s.bits # 0 => CopyOutRound(s).bits < s.bits
             /\ s.bits = 0 => CopyOutRound(s) = s
  <2>1. Copying(s, ones, all)
    OBVIOUS
  <2>2. CASE s.bits # 0
    <3>1. PICK t : t = CopyOutRound(s) /\ Copying(t, ones, all) /\ t.bits < s.bits
      <4> HIDE DEF all
      <4> QED
        BY <2>1, <2>2, CopyOutRoundProps
    <3>2. t \in A
      BY <3>1 DEF Copying
    <3> QED
      BY <2>2, <3>1, <3>2
  <2>3. CASE s.bits = 0
    <3>1. CopyOutRound(s) = s
      BY <2>3 DEF CopyOutRound
    <3> QED
      BY <2>3, <3>1
  <2> QED
    BY <2>2, <2>3
<1>7. next \in [A -> A]
  BY <1>6
<1>8. size \in [A -> Nat]
  BY <1>5
<1>9. \A s \in A : size[s] = s.bits /\ next[s] = CopyOutRound(s)
  OBVIOUS
<1>10. Shrinks(A, next, size)
  <2> HIDE DEF A, size, next
  <2> SUFFICES ASSUME NEW s \in A
               PROVE  /\ size[s] # 0 => size[next[s]] < size[s]
                      /\ size[s] = 0 => size[next[s]] = 0
    BY DEF Shrinks
  <2>1. PICK t \in A : t = next[s] /\ t = CopyOutRound(s)
    BY <1>6, <1>9
  <2> QED
    BY <1>6, <1>9, <2>1
<1> HIDE DEF A, k
<1>11. PICK f : RoundsOf(f, A, base, k, next)
  <2> HIDE DEF base, next
  <2> QED
    BY <1>1, <1>4, <1>7, RoundsExist
<1>12. 0 \in 0 .. k /\ (\A i \in 0 .. k : i # 0 => i - 1 \in 0 .. k) /\ \A i \in 1 .. k : i \in 0 .. k /\ i # 0
  BY <1>1
<1>13. Rounds(f)
  BY <1>11, <1>12 DEF RoundsOf
<1>14. PICK g : Rounds(g) /\ SerializeBitBuffer(to, w) = g[k].writer
  <2>1. SerializeBitBuffer(to, w) = (CHOOSE g : Rounds(g))[k].writer
    BY DEF SerializeBitBuffer, k
  <2>2. Rounds(CHOOSE g : Rounds(g))
    <3> HIDE DEF Rounds
    <3> QED
      BY <1>13
  <2> QED
    BY <2>1, <2>2
<1>15. Follows(g, A, base, k, next)
  BY <1>12, <1>14 DEF Follows
<1>16. g[k] \in A /\ size[g[k]] = 0
  <2>1. size[base] <= k
    BY <1>1, <1>4
  <2> HIDE DEF base, next, size
  <2> QED
    BY <1>1, <1>4, <1>7, <1>8, <1>10, <1>15, <2>1, RoundsDone DEF RoundsLead
<1>17. PICK o : o = g[k] /\ o \in A /\ o.bits = 0
  BY <1>9, <1>16
<1>18. Good(o.writer, ones) /\ Place(o.writer) + 0 = all /\ Place(o.writer) \in Nat
  BY <1>17 DEF A, Copying, Good
<1>19. Place(o.writer) = from + k
  BY <1>1, <1>18
<1> QED
  BY <1>14, <1>17, <1>18, <1>19 DEF ones, S, k

\* A copy out of a packet: reader and writer stand at the same bit.
CopyingIn(s, buf, d, S, n) ==
  /\ s \in [reader : ReaderType, writer : WriterType, bits : Nat]
  /\ Reader(s.reader) /\ s.reader.m_Buffer = buf /\ Good(s.writer, S)
  /\ Taken(s.reader) + s.bits = (d + LengthBits) + n /\ Place(s.writer) + s.bits = n
  /\ s.writer.m_TotalBits + s.bits = n

\* The packet in buf is d bits, then the n bits of S behind their number.
Packet(buf, d, S, n) ==
  /\ buf \in Seq(Byte) /\ (d + LengthBits) + n <= Base(Len(buf) + 1)
  /\ \A p \in Nat : p < (d + LengthBits) + n => (p \in BytesValue(buf) <=> p \in PacketBits(d, n, S))

LEMMA CopyInRoundProps ==
  ASSUME NEW d \in Nat, NEW S \in SUBSET Nat, NEW n \in Nat, NEW buf, Packet(buf, d, S, n),
         NEW s, CopyingIn(s, buf, d, S, n), s.bits # 0
  PROVE  \E t : t = CopyInRound(s) /\ CopyingIn(t, buf, d, S, n) /\ t.bits < s.bits
<1>1. PICK r, w, bits, k, o, T, P :
        /\ r = s.reader /\ w = s.writer /\ bits = s.bits /\ k = ChunkBits(bits) /\ o = ReadUBits(r, k)
        /\ T = Taken(r) /\ P = Place(w)
  OBVIOUS
<1>2. /\ Reader(r) /\ r.m_Buffer = buf /\ bits \in Nat /\ bits > 0 /\ Good(w, S) /\ w \in WriterType
      /\ T \in Nat /\ P \in Nat /\ w.m_TotalBits \in Nat /\ LengthBits \in Nat
  <2>1. Reader(r) /\ r.m_Buffer = buf /\ bits \in Nat /\ bits > 0 /\ Good(w, S)
    BY <1>1 DEF CopyingIn
  <2>2. T \in Nat /\ P \in Nat /\ w \in WriterType /\ w.m_TotalBits \in Nat
    BY <1>1, <2>1, ReaderParts DEF Good, WriterType
  <2>3. LengthBits \in Nat
    BY SizeAssumption
  <2> QED
    BY <2>1, <2>2, <2>3
<1>3. T + bits = (d + LengthBits) + n /\ P + bits = n /\ w.m_TotalBits + bits = n /\ T = (d + LengthBits) + P
  <2>1. T + bits = (d + LengthBits) + n /\ P + bits = n /\ w.m_TotalBits + bits = n
    BY <1>1 DEF CopyingIn
  <2> QED
    BY <1>2, <2>1
<1>4. k \in Nat /\ k > 0 /\ k <= bits
  BY <1>1, <1>2, ChunkProps
<1>5. ReadRight(o, r, k)
  BY <1>1, <1>2, <1>4, ReadUBitsProps
<1>6. /\ Reader(o.reader) /\ o.reader.m_Buffer = buf /\ o.val \in SUBSET Nat
      /\ Taken(o.reader) = T + k
      /\ \A i \in Nat : i \in o.val <=> i < k /\ T + i \in BytesValue(buf)
  <2>1. ~(T + k > Base(Len(buf) + 1))
    <3>1. Len(buf) \in Nat /\ (d + LengthBits) + n <= Base(Len(buf) + 1)
      BY DEF Packet
    <3>2. Base(Len(buf) + 1) \in Nat
      BY <3>1, BaseNat
    <3>3. T + k <= (d + LengthBits) + n
      BY <1>2, <1>3, <1>4
    <3> QED
      BY <1>2, <1>4, <3>1, <3>2, <3>3
  <2>2. ~o.threw
    BY <1>1, <1>2, <1>5, <2>1 DEF ReadRight
  <2> QED
    BY <1>1, <1>2, <1>5, <2>2 DEF ReadRight
<1>7. \A i \in 0 .. k - 1 : i \in o.val <=> P + i \in S
  <2> TAKE i \in 0 .. k - 1
  <2>1. /\ i \in Nat /\ i < k /\ T + i \in Nat /\ T + i < (d + LengthBits) + n
        /\ ~(T + i < d) /\ ~(T + i < d + LengthBits) /\ (T + i) - (d + LengthBits) = P + i
    BY <1>2, <1>3, <1>4
  <2>2. i \in o.val <=> T + i \in PacketBits(d, n, S)
    BY <1>6, <2>1 DEF Packet
  <2> QED
    BY <2>1, <2>2 DEF PacketBits
<1>8. PICK v : /\ v = WriteBits(w, o.val, k) /\ Good(v, S) /\ Place(v) = P + k
               /\ v.m_TotalBits = w.m_TotalBits + k
  BY <1>1, <1>2, <1>4, <1>6, <1>7, WriteBitsProps
<1>9. PICK left, t : left = bits - k /\ t = [reader |-> o.reader, writer |-> v, bits |-> left]
  OBVIOUS
<1>10. CopyInRound(s) = t
  <2>1. ~(s.bits = 0)
    BY <1>1, <1>2
  <2> QED
    BY <1>1, <1>8, <1>9, <2>1 DEF CopyInRound
<1>11. left \in Nat /\ left < bits
  BY <1>2, <1>4, <1>9
<1>12. CopyingIn(t, buf, d, S, n)
  <2>1. Taken(o.reader) + left = (d + LengthBits) + n /\ Place(v) + left = n /\ v.m_TotalBits + left = n
    BY <1>2, <1>3, <1>4, <1>6, <1>8, <1>9
  <2>2. t.reader = o.reader /\ t.writer = v /\ t.bits = left
    BY <1>9
  <2>3. o.reader \in ReaderType /\ v \in WriterType
    BY <1>6, <1>8 DEF Reader, Good
  <2>4. t \in [reader : ReaderType, writer : WriterType, bits : Nat]
    BY <1>9, <1>11, <2>3
  <2> QED
    BY <1>6, <1>8, <2>1, <2>2, <2>4 DEF CopyingIn
<1> QED
  BY <1>1, <1>9, <1>10, <1>11, <1>12

LEMMA DeserializeProps ==
  ASSUME NEW S \in SUBSET Nat, NEW n \in 0 .. 2 ^ LengthBits - 1, NEW buf,
         NEW d \in Nat, Packet(buf, d, S, n), NEW r, Reader(r), r.m_Buffer = buf, Taken(r) = d
  PROVE  \E v : /\ v = DeserializeBitBuffer(r)
                /\ Good(v, S) /\ Place(v) = n /\ v.m_TotalBits = n
<1> DEFINE o == ReadUBits(r, LengthBits)
           base == [reader |-> o.reader, writer |-> EmptyWriter, bits |-> n]
           A == {s \in [reader : ReaderType, writer : WriterType, bits : Nat] : CopyingIn(s, buf, d, S, n)}
           next == [s \in A |-> CopyInRound(s)]
           size == [s \in A |-> s.bits]
           Rounds(f) == f = [i \in 0 .. n |-> IF i = 0 THEN base ELSE CopyInRound(f[i - 1])]
<1>1. LengthBits \in Nat /\ LengthBits \in 1 .. 32 /\ buf \in Seq(Byte) /\ Len(buf) \in Nat
  BY SizeAssumption DEF Packet
<1>2. n \in Nat
  <2>1. 2 ^ LengthBits \in Nat
    BY <1>1, PowerOfTwo
  <2> QED
    BY <2>1
<1>3. Reader(r) /\ r.m_Buffer = buf /\ Taken(r) = d /\ d \in Nat
  OBVIOUS
<1>4. ReadRight(o, r, LengthBits)
  BY <1>1, <1>3, ReadUBitsProps
<1>5. /\ Reader(o.reader) /\ o.reader.m_Buffer = buf /\ o.val \in SUBSET Nat
      /\ Taken(o.reader) = d + LengthBits
      /\ \A i \in Nat : i \in o.val <=> i < LengthBits /\ d + i \in BytesValue(buf)
  <2>1. ~(Taken(r) + LengthBits > Base(Len(buf) + 1))
    <3>1. (d + LengthBits) + n <= Base(Len(buf) + 1) /\ Base(Len(buf) + 1) \in Nat
      BY <1>1, BaseNat DEF Packet
    <3> QED
      BY <1>1, <1>2, <1>3, <3>1
  <2> HIDE DEF o
  <2>2. ~o.threw
    BY <1>3, <1>4, <2>1 DEF ReadRight
  <2> QED
    BY <1>3, <1>4, <2>2 DEF ReadRight
<1> HIDE DEF o
<1>6. NumberOf(o.val) = n
  <2>1. o.val = Low(Word(n), LengthBits)
    <3>1. \A i : i \in Low(Word(n), LengthBits) <=> i \in Word(n) /\ i < LengthBits
      BY LowBits, Zenon
    <3>2. Word(n) \in SUBSET Nat
      BY <1>2, WordBitsAt
    <3>3. \A i \in Nat : i < LengthBits => (d + i \in BytesValue(buf) <=> i \in Word(n))
      <4> TAKE i \in Nat
      <4> HAVE i < LengthBits
      <4>1. /\ d + i \in Nat /\ d + i < (d + LengthBits) + n /\ ~(d + i < d)
            /\ d + i < d + LengthBits /\ (d + i) - d = i
        BY <1>1, <1>2
      <4>2. d + i \in BytesValue(buf) <=> d + i \in PacketBits(d, n, S)
        BY <4>1 DEF Packet
      <4> QED
        BY <4>1, <4>2 DEF PacketBits
    <3>4. \A i \in Nat : i \in o.val <=> i \in Low(Word(n), LengthBits)
      BY <1>5, <3>1, <3>3
    <3>5. \A i \in Low(Word(n), LengthBits) : i \in Nat
      BY <3>1, <3>2
    <3> QED
      BY <1>5, <3>4, <3>5
  <2> QED
    BY <2>1, NumberOfWord
<1>7. base \in A
  <2>1. Good(EmptyWriter, S) /\ Place(EmptyWriter) = 0 /\ EmptyWriter.m_TotalBits = 0
    BY EmptyGood
  <2>2. o.reader \in ReaderType /\ EmptyWriter \in WriterType
    BY <1>5, <2>1 DEF Reader, Good
  <2>3. base.reader = o.reader /\ base.writer = EmptyWriter /\ base.bits = n
        /\ base \in [reader : ReaderType, writer : WriterType, bits : Nat]
    BY <1>2, <2>2
  <2>4. 0 + n = n
    BY <1>2
  <2> HIDE DEF base
  <2>5. CopyingIn(base, buf, d, S, n)
    BY <1>5, <2>1, <2>3, <2>4 DEF CopyingIn
  <2> QED
    BY <2>3, <2>5
<1>8. \A s \in A : s.bits \in Nat
  OBVIOUS
<1>9. ASSUME NEW s \in A
      PROVE  /\ CopyInRound(s) \in A
             /\ s.bits # 0 => CopyInRound(s).bits < s.bits
             /\ s.bits = 0 => CopyInRound(s) = s
  <2>1. CopyingIn(s, buf, d, S, n)
    OBVIOUS
  <2>2. CASE s.bits # 0
    <3>1. PICK t : t = CopyInRound(s) /\ CopyingIn(t, buf, d, S, n) /\ t.bits < s.bits
      BY <1>2, <2>1, <2>2, CopyInRoundProps
    <3>2. t \in A
      BY <3>1 DEF CopyingIn
    <3> QED
      BY <2>2, <3>1, <3>2
  <2>3. CASE s.bits = 0
    <3>1. CopyInRound(s) = s
      BY <2>3 DEF CopyInRound
    <3> QED
      BY <2>3, <3>1
  <2> QED
    BY <2>2, <2>3
<1>10. next \in [A -> A]
  BY <1>9
<1>11. size \in [A -> Nat]
  BY <1>8
<1>12. \A s \in A : size[s] = s.bits /\ next[s] = CopyInRound(s)
  OBVIOUS
<1>13. Shrinks(A, next, size)
  <2> HIDE DEF A, size, next
  <2> SUFFICES ASSUME NEW s \in A
               PROVE  /\ size[s] # 0 => size[next[s]] < size[s]
                      /\ size[s] = 0 => size[next[s]] = 0
    BY DEF Shrinks
  <2>1. PICK t \in A : t = next[s] /\ t = CopyInRound(s)
    BY <1>9, <1>12
  <2> QED
    BY <1>9, <1>12, <2>1
<1> HIDE DEF A
<1>14. PICK f : RoundsOf(f, A, base, n, next)
  <2> HIDE DEF base, next
  <2> QED
    BY <1>2, <1>7, <1>10, RoundsExist
<1>15. 0 \in 0 .. n /\ (\A i \in 0 .. n : i # 0 => i - 1 \in 0 .. n) /\ \A i \in 1 .. n : i \in 0 .. n /\ i # 0
  BY <1>2
<1>16. Rounds(f)
  BY <1>14, <1>15 DEF RoundsOf
<1>17. PICK g : Rounds(g) /\ DeserializeBitBuffer(r) = g[n].writer
  <2>1. DeserializeBitBuffer(r) = (CHOOSE g : Rounds(g))[n].writer
    BY <1>6 DEF DeserializeBitBuffer, o
  <2>2. Rounds(CHOOSE g : Rounds(g))
    <3> HIDE DEF Rounds
    <3> QED
      BY <1>16
  <2> QED
    BY <2>1, <2>2
<1>18. Follows(g, A, base, n, next)
  BY <1>15, <1>17 DEF Follows
<1>19. g[n] \in A /\ size[g[n]] = 0
  <2>1. size[base] <= n
    BY <1>2, <1>7
  <2> HIDE DEF base, next, size
  <2> QED
    BY <1>2, <1>7, <1>10, <1>11, <1>13, <1>18, <2>1, RoundsDone DEF RoundsLead
<1>20. PICK s : s = g[n] /\ s \in A /\ s.bits = 0
  BY <1>12, <1>19
<1>21. /\ Good(s.writer, S) /\ Place(s.writer) + 0 = n /\ s.writer.m_TotalBits + 0 = n
  BY <1>20 DEF A, CopyingIn
<1>22. Place(s.writer) \in Nat /\ s.writer.m_TotalBits \in Nat
  BY <1>21 DEF Good, WriterType
<1>23. Place(s.writer) = n /\ s.writer.m_TotalBits = n
  BY <1>21, <1>22
<1> QED
  BY <1>17, <1>20, <1>21, <1>23

\* What precedes the bit buffer in the packet: d bits that are set ...
LEMMA LeadingOnes ==
  ASSUME NEW d \in Nat, NEW n, NEW S
  PROVE  \E to : /\ to = WriteBits(EmptyWriter, 0 .. d - 1, d) /\ Place(to) = d
                 /\ Good(to, PacketBits(d, n, S))
<1>1. PICK ones : ones = PacketBits(d, n, S)
  OBVIOUS
<1>2. Good(EmptyWriter, ones) /\ Place(EmptyWriter) = 0 /\ 0 .. d - 1 \in SUBSET Nat
  BY EmptyGood
<1>3. \A i \in 0 .. d - 1 : i \in 0 .. d - 1 <=> Place(EmptyWriter) + i \in ones
  <2> TAKE i \in 0 .. d - 1
  <2>1. i \in Nat /\ i < d /\ 0 + i = i
    OBVIOUS
  <2>2. i \in ones
    BY <1>1, <2>1 DEF PacketBits
  <2> QED
    BY <1>2, <2>1, <2>2
<1>4. PICK to : /\ to = WriteBits(EmptyWriter, 0 .. d - 1, d) /\ Good(to, ones)
                /\ Place(to) = Place(EmptyWriter) + d
  BY <1>2, <1>3, WriteBitsProps
<1> QED
  BY <1>1, <1>2, <1>4

\* ... and the reader that has read them.
LEMMA ReadLeading ==
  ASSUME NEW buf \in Seq(Byte), NEW d \in Nat, d <= Base(Len(buf) + 1)
  PROVE  \E r : /\ r = ReadUBits(ReaderOf(buf), d).reader
                /\ Reader(r) /\ r.m_Buffer = buf /\ Taken(r) = d
<1>1. PICK r : r = ReaderOf(buf)
  OBVIOUS
<1>2. Reader(r) /\ r.m_Buffer = buf /\ Taken(r) = 0
  <2>1. r = [m_Buffer |-> buf, m_Offset |-> 0, m_NumBytes |-> Len(buf), m_Bit |-> 0]
    BY <1>1 DEF ReaderOf
  <2>2. Len(buf) \in Nat /\ 0 \in 0 .. ByteBits - 1 /\ 0 + Len(buf) = Len(buf) /\ 0 + 1 = 1
    BY SizesKnown
  <2>3. r \in ReaderType
    BY <2>1, <2>2 DEF ReaderType
  <2>4. r.m_Buffer = buf /\ r.m_Offset = 0 /\ r.m_NumBytes = Len(buf) /\ r.m_Bit = 0
    BY <2>1
  <2>5. Base(1) = 0
    BY BaseProps
  <2> QED
    BY <2>2, <2>3, <2>4, <2>5 DEF Reader, Taken
<1>3. PICK o : o = ReadUBits(r, d) /\ ReadRight(o, r, d)
  BY <1>2, ReadUBitsProps
<1>4. ~o.threw
  <2>1. Len(buf) + 1 \in Nat /\ Base(Len(buf) + 1) \in Nat
    BY BaseNat
  <2>2. ~(Taken(r) + d > Base(Len(r.m_Buffer) + 1))
    BY <1>2, <2>1
  <2> QED
    BY <1>3, <2>2 DEF ReadRight
<1>5. Reader(o.reader) /\ o.reader.m_Buffer = buf /\ Taken(o.reader) = d
  BY <1>2, <1>3, <1>4 DEF ReadRight
<1> QED
  BY <1>1, <1>3, <1>5

------------------------------------------------------------------------------
(***************************************************************************)
(* The steps of the writer.                                                *)
(***************************************************************************)
\* n bits of "bits" behind the L bits of S.
LEMMA NextOnes ==
  ASSUME NEW L \in Nat, NEW S \in SUBSET (0 .. L - 1), NEW n \in Nat, NEW bits \in SUBSET Nat,
         NEW T, T = S \cup ShiftLeft(Low(bits, n), L)
  PROVE  /\ T \subseteq 0 .. L + n - 1
         /\ \A p \in Int : p < L => (p \in T <=> p \in S)
         /\ \A i \in 0 .. n - 1 : i \in bits <=> L + i \in T
<1>1. PICK low, moved : low = Low(bits, n) /\ moved = ShiftLeft(low, L)
  OBVIOUS
<1>2. low \subseteq bits /\ \A i : i \in low <=> i \in bits /\ i < n
  BY <1>1, LowBits, Zenon
<1>3. moved \subseteq Int /\ \A i \in Int : i \in moved <=> i - L \in low
  <2>1. low \in SUBSET Int /\ L \in Int
    BY <1>2
  <2> QED
    BY <1>1, <2>1, LeftBits, Zenon
<1>4. \A p \in moved : p \in L .. L + n - 1
  <2> TAKE p \in moved
  <2>1. p \in Int /\ p - L \in Nat /\ p - L < n
    BY <1>2, <1>3
  <2> QED
    BY <2>1
<1>5. T = S \cup moved
  BY <1>1
<1>6. \A i \in 0 .. n - 1 : i \in bits <=> L + i \in T
  <2> TAKE i \in 0 .. n - 1
  <2>1. L + i \in Int /\ (L + i) - L = i /\ L + i \notin S /\ i < n
    OBVIOUS
  <2> QED
    BY <1>2, <1>3, <1>5, <2>1
<1>7. T \subseteq 0 .. L + n - 1
  <2>1. \A p \in S : p \in 0 .. L + n - 1
    OBVIOUS
  <2>2. \A p \in moved : p \in 0 .. L + n - 1
    BY <1>4
  <2> QED
    BY <1>5, <2>1, <2>2
<1>8. \A p \in Int : p < L => (p \in T <=> p \in S)
  BY <1>4, <1>5
<1> QED
  BY <1>6, <1>7, <1>8

\* What is in front of n does not depend on what is behind it.
LEMMA AgreesSame ==
  ASSUME NEW buf \in Seq(Byte), NEW n \in Int, NEW S, NEW T, Agrees(buf, n, S),
         \A p \in Int : p < n => (p \in T <=> p \in S)
  PROVE  Agrees(buf, n, T)
<1> SUFFICES ASSUME NEW b \in 1 .. Len(buf), NEW i \in 0 .. ByteBits - 1, Base(b) + i < n
             PROVE  i \in buf[b] <=> Base(b) + i \in T
  BY Zenon DEF Agrees
<1>1. b \in Int /\ i \in Int
  BY SizesKnown
<1>2. Base(b) + i \in Int
  <2>1. Base(b) \in Int
    BY <1>1, BaseTimes, Zenon
  <2> QED
    BY <1>1, <2>1
<1> QED
  BY <1>2 DEF Agrees

\* A writer that is right holds what it is meant to.
LEMMA WriterHolds ==
  ASSUME NEW n \in Nat, NEW ones \in SUBSET (0 .. n - 1), NEW w, w \in WriterType, Place(w) = n,
         Agrees(w.m_Buffer, n, ones)
  PROVE  Holds(w, n, ones)
<1>1. PICK buf, L, bit : buf = w.m_Buffer /\ L = Len(buf) /\ bit = w.m_Bit
  OBVIOUS
<1>2. buf \in Seq(Byte) /\ L \in Nat /\ bit \in 1 .. ByteBits /\ ByteBits \in Nat
  BY <1>1, SizesKnown DEF WriterType
<1>3. n = Base(L) + bit /\ Base(L) \in Int /\ Base(L + 1) = Base(L) + ByteBits
  <2>1. L \in Int
    BY <1>2
  <2> QED
    BY <1>1, <2>1, BaseTimes DEF Place
<1>4. n = (L - 1) * ByteBits + bit
  BY <1>3 DEF Base
<1>5. n <= Base(L + 1)
  BY <1>2, <1>3
<1>6. \A p \in Nat : p < n => (p \in BytesValue(buf) <=> p \in ones)
  <2>1. ones \in SUBSET Nat /\ n \in Int
    OBVIOUS
  <2> QED
    BY <1>1, <1>2, <1>5, <2>1, AgreesStream
<1>7. Low(BytesValue(buf), n) = ones
  <2>1. \A i : i \in Low(BytesValue(buf), n) <=> i \in BytesValue(buf) /\ i < n
    BY LowBits, Zenon
  <2>2. BytesValue(buf) \subseteq Nat
    BY <1>2, StreamBits, Zenon
  <2>3. \A i \in ones : i \in Nat /\ i < n
    OBVIOUS
  <2> QED
    BY <1>6, <2>1, <2>2, <2>3
<1> QED
  BY <1>1, <1>2, <1>4, <1>7 DEF Holds

LEMMA SameLast ==
  ASSUME StreamInv
  PROVE  [last EXCEPT !.threw = FALSE] = last
<1>1. last = [got |-> last.wanted, wanted |-> last.wanted, past |-> last.past, threw |-> FALSE]
  BY DEF StreamInv
<1>2. PICK g, p, l : l = last /\ l = [got |-> g, wanted |-> g, past |-> p, threw |-> FALSE]
  BY <1>1
<1>3. l = [x \in DOMAIN l |-> l[x]] /\ l.threw = FALSE
  BY <1>2
<1>4. ASSUME NEW r, r = [x \in DOMAIN r |-> r[x]], r.threw = FALSE
      PROVE  [r EXCEPT !.threw = FALSE] = r
  BY <1>4
<1> QED
  BY <1>2, <1>3, <1>4, Zenon

LEMMA WrittenProps ==
  ASSUME StreamInv, NEW n \in Nat, NEW bits \in SUBSET Nat, Written(bits, n)
  PROVE  /\ Writing /\ Writing' /\ pos' = 0 /\ WriterInv /\ CursorsInv
         /\ want.length \in Nat /\ want'.length = want.length + n /\ want'.length \in 0 .. MaxBits
         /\ want' = [length |-> want'.length, ones |-> want'.ones]
         /\ want'.ones \subseteq 0 .. want'.length - 1
         /\ Good(writer, want'.ones) /\ Place(writer) = want.length
         /\ \A i \in 0 .. n - 1 : i \in bits <=> Place(writer) + i \in want'.ones
<1>1. PICK L, S, T, N : /\ L = want.length /\ S = want.ones /\ N = want'.length
                        /\ T = want'.ones
  OBVIOUS
<1>2. /\ L \in 0 .. MaxBits /\ S \in SUBSET (0 .. L - 1) /\ MaxBits \in Nat /\ L \in Nat
      /\ Writing /\ WriterInv /\ CursorsInv /\ pos = 0
  BY <1>1, SizesKnown DEF StreamInv, Written
<1>3. /\ want' = [length |-> L + n, ones |-> S \cup ShiftLeft(Low(bits, n), L)]
      /\ L + n <= MaxBits /\ reader' = reader /\ pos' = pos
  BY <1>1 DEF Written
<1>4. N = L + n /\ T = S \cup ShiftLeft(Low(bits, n), L) /\ want' = [length |-> N, ones |-> T]
  BY <1>1, <1>3
<1>5. /\ T \subseteq 0 .. L + n - 1
      /\ \A p \in Int : p < L => (p \in T <=> p \in S)
      /\ \A i \in 0 .. n - 1 : i \in bits <=> L + i \in T
  BY <1>2, <1>4, NextOnes
<1>6. writer \in WriterType /\ Place(writer) = L /\ Agrees(writer.m_Buffer, L, S)
  BY <1>1, <1>2 DEF WriterInv
<1>7. Agrees(writer.m_Buffer, L, T)
  <2>1. writer.m_Buffer \in Seq(Byte) /\ L \in Int
    BY <1>2, <1>6 DEF WriterType
  <2> QED
    BY <1>5, <1>6, <2>1, AgreesSame
<1>8. Good(writer, T)
  BY <1>2, <1>6, <1>7 DEF Good
<1>9. Writing' /\ pos' = 0
  BY <1>2, <1>3 DEF Writing, NoReader
<1>10. N \in 0 .. MaxBits
  BY <1>2, <1>3, <1>4
<1> QED
  BY <1>1, <1>2, <1>4, <1>5, <1>6, <1>8, <1>9, <1>10

\* Cursors that a write leaves alone.
LEMMA CursorsKept ==
  ASSUME CursorsInv, cursors' = cursors, want.length \in Int, want'.length \in Int,
         want.length <= want'.length, ~uncounted' => ~uncounted
  PROVE  CursorsInv'
<1>1. ASSUME NEW k \in 1 .. Len(cursors)
      PROVE  Stands(cursors[k], uncounted') /\ cursors[k].end <= want'.length
  <2>1. PICK c : c = cursors[k] /\ c \in CursorType
    BY DEF CursorsInv
  <2>2. Stands(c, uncounted) /\ c.end <= want.length
    BY <2>1 DEF CursorsInv
  <2>3. c.end \in Int
    BY <2>1 DEF CursorType
  <2>4. Stands(c, uncounted')
    BY <2>2 DEF Stands
  <2> QED
    BY <2>1, <2>2, <2>3, <2>4
<1> QED
  BY <1>1 DEF CursorsInv

\* A write of n bits keeps the invariant when it keeps the cursors.
LEMMA WriterStep ==
  ASSUME StreamInv, NEW n \in Nat, NEW bits \in SUBSET Nat, Written(bits, n), last' = last,
         NEW v, writer' = v, Good(v, want'.ones), Place(v) = Place(writer) + n,
         uncounted' \in BOOLEAN,
         ~uncounted' => ~uncounted /\ v.m_TotalBits = writer.m_TotalBits + n,
         CursorsInv'
  PROVE  StreamInv'
<1>1. /\ Writing' /\ Writing /\ pos' = 0 /\ WriterInv
      /\ want'.length = want.length + n /\ want'.length \in 0 .. MaxBits
      /\ want' = [length |-> want'.length, ones |-> want'.ones]
      /\ want'.ones \subseteq 0 .. want'.length - 1
      /\ Place(writer) = want.length
  BY WrittenProps
<1>2. Place(v) = want'.length /\ v \in WriterType /\ Agrees(v.m_Buffer, want'.length, want'.ones)
  BY <1>1 DEF Good
<1>3. ~uncounted' => v.m_TotalBits = want'.length
  BY <1>1 DEF WriterInv
<1>4. WriterInv'
  BY <1>2, <1>3 DEF WriterInv
<1>5. ~last'.past /\ last' = [got |-> last'.wanted, wanted |-> last'.wanted, past |-> last'.past, threw |-> FALSE]
  BY <1>1 DEF StreamInv
<1> QED
  BY <1>1, <1>4, <1>5 DEF StreamInv

LEMMA FieldFits ==
  ASSUME NEW max \in 0 .. MaxValue, NEW val \in 0 .. max
  PROVE  GetRequiredBits(max) \in Nat /\ (val >= 2 ^ GetRequiredBits(max)) = FALSE
<1>1. PICK a \in Nat : a = 2 ^ 30
  <2>1. 30 \in 1 .. 32
    OBVIOUS
  <2> QED
    BY <2>1, PowerOfTwo
<1>2. 2 ^ 32 = 4 * a
  <2>1. 30 \in 0 .. 31 /\ 31 \in 0 .. 31 /\ 30 + 1 = 31 /\ 31 + 1 = 32
    OBVIOUS
  <2>2. 2 ^ 31 = 2 * 2 ^ 30
    BY <2>1, PowerStep
  <2>3. 2 ^ 32 = 2 * 2 ^ 31
    BY <2>1, PowerStep
  <2> QED
    BY <1>1, <2>2, <2>3
<1>3. MaxValue \in 0 .. 2 * (a - 1) + 1
  BY <1>1, SizeAssumption
<1>4. max \in Nat /\ max < 4 * a /\ val \in Nat /\ val <= max
  BY <1>1, <1>3
<1>5. max < 2 ^ GetRequiredBits(max)
  BY <1>2, <1>4, WidthFits
<1>6. PICK b \in 1 .. 32 : b = GetRequiredBits(max)
  BY <1>4, RequiredBitsRange
<1>7. PICK p \in Nat : p = 2 ^ b
  BY PowerOfTwo
<1>8. ~(val >= p)
  BY <1>4, <1>5, <1>6, <1>7
<1> QED
  BY <1>6, <1>7, <1>8

\* What every write comes to: n bits of a value, in the writer's place.
LEMMA WriteBitsStep ==
  ASSUME StreamInv, NEW n \in Nat, NEW bits \in SUBSET Nat, NEW val \in SUBSET Nat,
         \A i \in 0 .. n - 1 : i \in val <=> i \in bits,
         Written(bits, n), writer' = WriteBits(writer, val, n),
         uncounted' = uncounted, last' = last, CursorsInv'
  PROVE  StreamInv'
<1>1. /\ Good(writer, want'.ones) /\ WriterInv
      /\ \A i \in 0 .. n - 1 : i \in val <=> Place(writer) + i \in want'.ones
  BY WrittenProps
<1>2. PICK v : /\ v = WriteBits(writer, val, n) /\ Good(v, want'.ones)
               /\ Place(v) = Place(writer) + n /\ v.m_TotalBits = writer.m_TotalBits + n
  BY <1>1, WriteBitsProps
<1>3. uncounted' \in BOOLEAN
  BY DEF StreamInv
<1> QED
  BY <1>2, <1>3, WriterStep

LEMMA WriteCursorsKept ==
  ASSUME StreamInv, NEW n \in Nat, NEW bits \in SUBSET Nat, Written(bits, n),
         cursors' = cursors, ~uncounted' => ~uncounted
  PROVE  CursorsInv'
<1>1. CursorsInv /\ want.length \in Nat /\ want'.length = want.length + n
  BY WrittenProps
<1> QED
  BY <1>1, CursorsKept

LEMMA WriteFieldStep ==
  ASSUME StreamInv, WriteField
  PROVE  StreamInv'
<1>1. PICK max \in 0 .. MaxValue : \E val \in 0 .. max :
        LET n == GetRequiredBits(max)
        IN  /\ Written(Word(val), n)
            /\ writer' = WriteBits(writer, Word(val), n)
            /\ last' = [last EXCEPT !.threw = val >= 2 ^ n]
            /\ cursors' = cursors /\ uncounted' = uncounted
  BY DEF WriteField
<1> DEFINE n == GetRequiredBits(max)
<1>2. PICK val \in 0 .. max :
        /\ Written(Word(val), n)
        /\ writer' = WriteBits(writer, Word(val), n)
        /\ last' = [last EXCEPT !.threw = val >= 2 ^ n]
        /\ cursors' = cursors /\ uncounted' = uncounted
  BY <1>1
<1>3. n \in Nat /\ (val >= 2 ^ n) = FALSE
  BY FieldFits
<1> HIDE DEF n
<1>4. last' = last
  BY <1>3, <1>2, SameLast
<1>5. Word(val) \in SUBSET Nat
  <2>1. val \in Nat
    BY SizeAssumption
  <2> QED
    BY <2>1, WordBitsAt
<1>6. CursorsInv'
  BY <1>3, <1>5, <1>2, WriteCursorsKept
<1> QED
  BY <1>3, <1>4, <1>5, <1>6, <1>2, WriteBitsStep

LEMMA SignedBits ==
  ASSUME NEW n \in 1 .. WordBits - 1, NEW bits
  PROVE  /\ Signed(bits, n) \in SUBSET Nat
         /\ \A i \in 0 .. n - 1 : i \in Signed(bits, n) <=> i \in bits
<1>1. WordBits \in Int
  BY SizesKnown, BaseProps
<1>2. \A i \in 0 .. n - 1 : i \in 0 .. WordBits - 1 /\ SmallerOf(i, n - 1) = i
  <2> TAKE i \in 0 .. n - 1
  <2>1. SmallerOf(i, n - 1) \in {i, n - 1} /\ SmallerOf(i, n - 1) <= i /\ SmallerOf(i, n - 1) <= n - 1
    <3>1. i \in Int /\ n - 1 \in Int
      OBVIOUS
    <3> QED
      BY <3>1, SmallerProps
  <2> QED
    BY <1>1, <2>1
<1> QED
  BY <1>1, <1>2 DEF Signed

LEMMA WriteSignedStep ==
  ASSUME StreamInv, WriteSigned
  PROVE  StreamInv'
<1>1. PICK n \in 1 .. WordBits - 1 : \E bits \in SUBSET (0 .. n - 1) :
        /\ Written(bits, n) /\ writer' = WriteBits(writer, Signed(bits, n), n)
        /\ cursors' = cursors /\ last' = last /\ uncounted' = uncounted
  BY DEF WriteSigned
<1>2. PICK bits \in SUBSET (0 .. n - 1) :
        /\ Written(bits, n) /\ writer' = WriteBits(writer, Signed(bits, n), n)
        /\ cursors' = cursors /\ last' = last /\ uncounted' = uncounted
  BY <1>1
<1>3. n \in Nat /\ bits \in SUBSET Nat
  OBVIOUS
<1>4. CursorsInv'
  BY <1>2, <1>3, WriteCursorsKept
<1>5. Signed(bits, n) \in SUBSET Nat /\ \A i \in 0 .. n - 1 : i \in Signed(bits, n) <=> i \in bits
  BY SignedBits
<1> QED
  BY <1>2, <1>3, <1>4, <1>5, WriteBitsStep

LEMMA WriteDataStep ==
  ASSUME StreamInv, WriteData
  PROVE  StreamInv'
<1>1. PICK n \in 1 .. MaxBits \div ByteBits : \E data \in [1 .. n -> Patterns] :
        /\ Written(BytesValue(data), n * ByteBits)
        /\ writer' = WriteBuffer(writer, data)
        /\ uncounted' = (uncounted \/ CopiesBytes(writer, data))
        /\ cursors' = cursors /\ last' = last
  BY DEF WriteData
<1>2. PICK data \in [1 .. n -> Patterns] :
        /\ Written(BytesValue(data), n * ByteBits)
        /\ writer' = WriteBuffer(writer, data)
        /\ uncounted' = (uncounted \/ CopiesBytes(writer, data))
        /\ cursors' = cursors /\ last' = last
  BY <1>1
<1>3. n \in Nat /\ data \in Seq(Byte) /\ Len(data) = n
  <2>1. n \in Nat
    BY SizesKnown
  <2>2. Patterns \subseteq Byte
    BY SizeAssumption DEF Byte
  <2>3. data \in [1 .. n -> Byte]
    BY <2>2
  <2> QED
    BY <2>1, <2>3
<1>4. PICK k \in Nat : k = n * ByteBits /\ k = Base(n + 1)
  BY <1>3, BaseNat
<1>5. BytesValue(data) \in SUBSET Nat
  BY <1>3, StreamBits, Zenon
<1>6. Written(BytesValue(data), k)
  BY <1>2, <1>4
<1>7. /\ Good(writer, want'.ones)
      /\ \A i \in 0 .. k - 1 : i \in BytesValue(data) <=> Place(writer) + i \in want'.ones
  BY <1>5, <1>6, WrittenProps
<1>8. Comes(data, Place(writer), want'.ones)
  <2>1. \A i \in Nat : i < k => i \in 0 .. k - 1
    OBVIOUS
  <2> QED
    BY <1>3, <1>4, <1>7, <2>1 DEF Comes
<1>9. PICK v : /\ v = WriteBuffer(writer, data) /\ Good(v, want'.ones)
               /\ Place(v) = Place(writer) + k
               /\ ~CopiesBytes(writer, data) => v.m_TotalBits = writer.m_TotalBits + k
  BY <1>3, <1>4, <1>7, <1>8, WriteBufferProps
<1>10. uncounted' \in BOOLEAN /\ (~uncounted' => ~uncounted /\ ~CopiesBytes(writer, data))
  BY <1>2
<1>11. CursorsInv'
  BY <1>2, <1>5, <1>6, <1>10, WriteCursorsKept
<1> QED
  BY <1>2, <1>5, <1>6, <1>9, <1>10, <1>11, WriterStep

LEMMA ReserveStep ==
  ASSUME StreamInv, Reserve
  PROVE  StreamInv'
<1>1. PICK n \in 0 .. GetRequiredBits(MaxValue) + 1 :
        /\ Written({}, n) /\ cursors' = Append(cursors, Cursor(writer, n))
        /\ writer' = WriteBits(writer, {}, n)
        /\ last' = last /\ uncounted' = uncounted
  BY DEF Reserve
<1>2. n \in Nat /\ {} \in SUBSET Nat
  OBVIOUS
<1>3. /\ want'.length = want.length + n /\ want.length \in Nat
      /\ CursorsInv /\ WriterInv
  BY <1>1, <1>2, WrittenProps
<1>4. PICK c, L, w : c = Cursor(writer, n) /\ L = want.length /\ w = writer
  OBVIOUS
<1>5. c = [m_Byte |-> Len(w.m_Buffer), m_Bit |-> w.m_Bit, m_Size |-> n, m_Wrote |-> FALSE,
           m_TotalBits |-> w.m_TotalBits, start |-> L, next |-> L, end |-> L + n]
  BY <1>4 DEF Cursor
<1>6. /\ w \in WriterType /\ Base(Len(w.m_Buffer)) + w.m_Bit = L
      /\ ~uncounted => w.m_TotalBits = L
      /\ L \in Nat
  BY <1>3, <1>4 DEF WriterInv, Place
<1>7. Len(w.m_Buffer) \in Nat /\ w.m_Bit \in 1 .. ByteBits /\ w.m_TotalBits \in Nat
  BY <1>6 DEF WriterType
<1>8. c \in CursorType
  BY <1>2, <1>5, <1>6, <1>7 DEF CursorType
<1>9. /\ c.m_Byte = Len(w.m_Buffer) /\ c.m_Bit = w.m_Bit /\ c.m_Size = n /\ c.m_Wrote = FALSE
      /\ c.m_TotalBits = w.m_TotalBits /\ c.start = L /\ c.next = L /\ c.end = L + n
  BY <1>5
<1>10. L <= L + n /\ L + n - L <= n
  BY <1>2, <1>6
<1>11. Stands(c, uncounted') /\ c.end = want'.length /\ c.start = want.length
  BY <1>1, <1>3, <1>4, <1>6, <1>9, <1>10 DEF Stands
<1>12. ASSUME NEW k \in 1 .. Len(cursors)
       PROVE  /\ cursors[k] \in CursorType /\ Stands(cursors[k], uncounted')
              /\ cursors[k].end <= want.length /\ cursors[k].end <= want'.length
  <2>1. PICK d : d = cursors[k] /\ d \in CursorType
    BY <1>3 DEF CursorsInv
  <2>2. Stands(d, uncounted') /\ d.end <= want.length
    BY <1>1, <1>3, <2>1 DEF CursorsInv
  <2>3. d.end \in Int
    BY <2>1 DEF CursorType
  <2>4. d.end <= want'.length
    BY <1>2, <1>3, <2>2, <2>3
  <2> QED
    BY <2>1, <2>2, <2>4
<1>13. PICK s, t, N : s = cursors /\ t = cursors' /\ N = Len(s)
  OBVIOUS
<1>14. /\ s \in Seq(CursorType) /\ t = Append(s, c) /\ N \in Nat
       /\ t \in Seq(CursorType) /\ Len(t) = N + 1 /\ t[N + 1] = c
       /\ \A k \in 1 .. N : t[k] = s[k]
  <2>1. s \in Seq(CursorType) /\ t = Append(s, c)
    BY <1>1, <1>3, <1>4, <1>13 DEF CursorsInv
  <2> QED
    BY <1>8, <1>13, <2>1
<1>15. \A k \in 1 .. N + 1 : Stands(t[k], uncounted') /\ t[k].end <= want'.length
  <2> TAKE k \in 1 .. N + 1
  <2>1. CASE k = N + 1
    <3>1. t[k] = c /\ want'.length <= want'.length
      BY <1>2, <1>3, <1>14, <2>1
    <3> QED
      BY <1>11, <3>1
  <2>2. CASE k \in 1 .. N
    BY <1>12, <1>13, <1>14, <2>2
  <2> QED
    BY <1>14, <2>1, <2>2
<1>16. \A j, k \in 1 .. N + 1 : j < k => t[j].end <= t[k].start
  <2> TAKE j, k \in 1 .. N + 1
  <2> HAVE j < k
  <2>1. j \in 1 .. N /\ t[j] = s[j]
    BY <1>14
  <2>2. CASE k = N + 1
    BY <1>11, <1>12, <1>13, <1>14, <2>1, <2>2
  <2>3. CASE k \in 1 .. N
    BY <1>3, <1>13, <1>14, <2>1, <2>3 DEF CursorsInv
  <2> QED
    BY <1>14, <2>2, <2>3
<1>17. CursorsInv'
  BY <1>13, <1>14, <1>15, <1>16 DEF CursorsInv
<1>18. \A i \in 0 .. n - 1 : i \in {} <=> i \in {}
  OBVIOUS
<1> QED
  BY <1>1, <1>2, <1>17, <1>18, WriteBitsStep

LEMMA WritingParts ==
  ASSUME StreamInv, Writing
  PROVE  /\ WriterInv /\ CursorsInv /\ pos = 0 /\ ~last.past /\ uncounted \in BOOLEAN
         /\ writer \in WriterType /\ writer.m_Buffer \in Seq(Byte) /\ Place(writer) = want.length
         /\ want.length \in Nat /\ want.length <= MaxBits
         /\ want.ones \in SUBSET (0 .. want.length - 1)
         /\ Agrees(writer.m_Buffer, want.length, want.ones)
         /\ last = [got |-> last.wanted, wanted |-> last.wanted, past |-> last.past, threw |-> FALSE]
<1>1. WriterInv /\ want.length \in 0 .. MaxBits /\ MaxBits \in Nat
  BY SizesKnown DEF StreamInv
<1>2. writer.m_Buffer \in Seq(Byte)
  BY <1>1 DEF WriterInv, WriterType
<1> QED
  BY <1>1, <1>2 DEF StreamInv, WriterInv

LEMMA CursorParts ==
  ASSUME CursorsInv, NEW k \in DOMAIN cursors, NEW c, c = cursors[k]
  PROVE  /\ k \in 1 .. Len(cursors) /\ c \in CursorType
         /\ Stands(c, uncounted) /\ c.end <= want.length
         /\ c.m_Byte \in Nat /\ c.m_Bit \in 1 .. ByteBits /\ c.m_TotalBits \in Nat /\ c.m_Size \in Int
         /\ c.start \in Nat /\ c.next \in Nat /\ c.end \in Nat
<1>1. k \in 1 .. Len(cursors)
  BY DEF CursorsInv
<1>2. c \in CursorType
  BY <1>1 DEF CursorsInv
<1>3. Stands(c, uncounted) /\ c.end <= want.length
  BY <1>1 DEF CursorsInv
<1> QED
  BY <1>1, <1>2, <1>3 DEF CursorType

\* The bytes up to a place that is not behind the last of them.
LEMMA BytesKept ==
  ASSUME NEW buf \in Seq(Byte), NEW L \in Nat, NEW S, Agrees(buf, L, S),
         NEW bit \in 1 .. ByteBits, L = Base(Len(buf)) + bit,
         NEW m \in Nat, NEW at \in 1 .. ByteBits, Base(m) + at <= L
  PROVE  /\ m <= Len(buf) /\ SubSeq(buf, 1, m) \in Seq(Byte) /\ Len(SubSeq(buf, 1, m)) = m
         /\ Agrees(SubSeq(buf, 1, m), Base(m) + at, Low(S, Base(m) + at))
<1>1. PICK N, B, q : N = Len(buf) /\ B = ByteBits /\ q = SubSeq(buf, 1, m)
  OBVIOUS
<1>2. N \in Nat /\ B \in Nat
  BY <1>1, SizesKnown
<1>3. m <= N
  <2>1. N \in Int /\ m \in Int
    BY <1>2
  <2>2. Base(N) \in Int /\ Base(m) \in Int /\ (N < m => Base(N) + B <= Base(m))
    BY <1>1, <2>1, BaseTimes, BaseOrder
  <2>3. Base(m) + at <= Base(N) + bit /\ at >= 1 /\ bit <= B /\ at \in Int /\ bit \in Int
    BY <1>1, <1>2
  <2> QED
    BY <1>2, <2>1, <2>2, <2>3
<1>4. q \in Seq(Byte) /\ Len(q) = m /\ \A b \in 1 .. m : q[b] = buf[b] /\ b \in 1 .. N
  BY <1>1, <1>2, <1>3
<1>5. Agrees(q, Base(m) + at, Low(S, Base(m) + at))
  <2> SUFFICES ASSUME NEW b \in 1 .. m, NEW i \in 0 .. ByteBits - 1, Base(b) + i < Base(m) + at
               PROVE  i \in q[b] <=> Base(b) + i \in Low(S, Base(m) + at)
    BY <1>4 DEF Agrees
  <2>1. Base(b) \in Int /\ Base(m) \in Int
    <3>1. b \in Int /\ m \in Int
      OBVIOUS
    <3> QED
      BY <3>1, BaseTimes
  <2>2. Base(b) + i < L
    BY <1>2, <1>1, <2>1
  <2>3. i \in buf[b] <=> Base(b) + i \in S
    BY <1>1, <1>4, <2>2 DEF Agrees
  <2>4. Base(b) + i \in Low(S, Base(m) + at) <=> Base(b) + i \in S /\ Base(b) + i < Base(m) + at
    BY LowBits, Zenon
  <2> QED
    BY <1>4, <2>3, <2>4
<1> QED
  BY <1>1, <1>3, <1>4, <1>5

LEMMA RollBackStep ==
  ASSUME StreamInv, RollBack
  PROVE  StreamInv'
<1>1. PICK k \in DOMAIN cursors :
        /\ Writing /\ ~cursors[k].m_Wrote
        /\ writer' = RolledBack(writer, cursors[k])
        /\ cursors' = SubSeq(cursors, 1, k - 1)
        /\ want' = [length |-> cursors[k].start, ones |-> Low(want.ones, cursors[k].start)]
        /\ reader' = reader /\ pos' = pos /\ last' = last /\ uncounted' = uncounted
  BY DEF RollBack
<1>2. PICK c, w, L, S, v, m, at, p, T :
        /\ c = cursors[k] /\ w = writer /\ L = want.length /\ S = want.ones /\ v = RolledBack(w, c)
        /\ m = c.m_Byte /\ at = c.m_Bit /\ p = c.start /\ T = Low(S, p)
  OBVIOUS
<1>3. /\ WriterInv /\ CursorsInv /\ pos = 0 /\ ~last.past /\ uncounted \in BOOLEAN
      /\ w \in WriterType /\ w.m_Buffer \in Seq(Byte) /\ Place(w) = L /\ L \in Nat /\ L <= MaxBits
      /\ S \in SUBSET (0 .. L - 1) /\ Agrees(w.m_Buffer, L, S)
      /\ last = [got |-> last.wanted, wanted |-> last.wanted, past |-> last.past, threw |-> FALSE]
  BY <1>1, <1>2, WritingParts
<1>4. /\ k \in 1 .. Len(cursors) /\ c \in CursorType /\ Stands(c, uncounted) /\ c.end <= L
      /\ m \in Nat /\ at \in 1 .. ByteBits /\ c.m_TotalBits \in Nat
      /\ p \in Nat /\ c.next \in Nat /\ c.end \in Nat
  BY <1>1, <1>2, <1>3, CursorParts
<1>5. p = Base(m) + at /\ p <= L /\ (~uncounted => c.m_TotalBits = p)
  <2>1. c.next = Base(m) + at /\ p <= c.next /\ c.next <= c.end /\ c.next = p
    BY <1>1, <1>2, <1>4 DEF Stands
  <2> QED
    BY <1>2, <1>3, <1>4, <2>1 DEF Stands
<1>6. L = Base(Len(w.m_Buffer)) + w.m_Bit /\ w.m_Bit \in 1 .. ByteBits
  BY <1>3 DEF Place, WriterType
<1>7. PICK q : /\ q = SubSeq(w.m_Buffer, 1, m) /\ q \in Seq(Byte) /\ Len(q) = m
               /\ Agrees(q, p, T)
  <2>1. PICK buf, bit : buf = w.m_Buffer /\ bit = w.m_Bit
    OBVIOUS
  <2>2. /\ buf \in Seq(Byte) /\ L \in Nat /\ Agrees(buf, L, S) /\ bit \in 1 .. ByteBits
        /\ L = Base(Len(buf)) + bit /\ m \in Nat /\ at \in 1 .. ByteBits /\ Base(m) + at <= L
    BY <1>3, <1>4, <1>5, <1>6, <2>1
  <2>3. /\ SubSeq(buf, 1, m) \in Seq(Byte) /\ Len(SubSeq(buf, 1, m)) = m
        /\ Agrees(SubSeq(buf, 1, m), Base(m) + at, Low(S, Base(m) + at))
    BY <2>2, BytesKept
  <2> QED
    BY <1>2, <1>5, <2>1, <2>3
<1>8. v = [m_Buffer |-> q, m_Bit |-> at, m_TotalBits |-> c.m_TotalBits]
  BY <1>2, <1>7 DEF RolledBack
<1>9. v \in WriterType
  BY <1>4, <1>7, <1>8 DEF WriterType
<1>10. v.m_Buffer = q /\ v.m_Bit = at /\ v.m_TotalBits = c.m_TotalBits
  BY <1>8
<1>11. /\ writer' = v /\ want' = [length |-> p, ones |-> T] /\ want'.length = p /\ want'.ones = T
  BY <1>1, <1>2
<1>12. WriterInv'
  BY <1>1, <1>5, <1>7, <1>9, <1>10, <1>11 DEF WriterInv, Place
<1>13. T \subseteq 0 .. p - 1 /\ p \in 0 .. MaxBits
  <2>1. \A i : i \in T <=> i \in S /\ i < p
    BY <1>2, LowBits, Zenon
  <2>2. p \in 0 .. MaxBits
    BY <1>3, <1>4, <1>5, SizesKnown
  <2> QED
    BY <1>3, <1>4, <2>1, <2>2
<1>14. PICK s, t : s = cursors /\ t = cursors' /\ s \in Seq(CursorType) /\ t = SubSeq(s, 1, k - 1)
  BY <1>1, <1>3 DEF CursorsInv
<1>15. /\ t \in Seq(CursorType) /\ Len(t) = k - 1
       /\ \A j \in 1 .. k - 1 : t[j] = s[j] /\ j \in 1 .. Len(s) /\ j < k
  BY <1>4, <1>14
<1>16. \A j \in 1 .. Len(t) : Stands(t[j], uncounted') /\ t[j].end <= want'.length
  BY <1>1, <1>2, <1>3, <1>4, <1>11, <1>14, <1>15 DEF CursorsInv
<1>17. \A i, j \in 1 .. Len(t) : i < j => t[i].end <= t[j].start
  BY <1>3, <1>14, <1>15 DEF CursorsInv
<1>18. CursorsInv'
  BY <1>14, <1>15, <1>16, <1>17 DEF CursorsInv
<1>19. Writing' /\ pos' = 0 /\ ~last'.past /\ uncounted' \in BOOLEAN
       /\ last' = [got |-> last'.wanted, wanted |-> last'.wanted, past |-> last'.past, threw |-> FALSE]
  BY <1>1, <1>3 DEF Writing, NoReader
<1> QED
  BY <1>11, <1>12, <1>13, <1>18, <1>19 DEF StreamInv

LEMMA FinishStep ==
  ASSUME StreamInv, Finish
  PROVE  StreamInv'
<1>1. /\ Writing /\ want.length # 0 /\ reader' = ReaderOf(writer.m_Buffer)
      /\ want' = want /\ pos' = pos /\ last' = last /\ uncounted' = uncounted
  BY DEF Finish
<1>2. PICK buf, L, bit, r : buf = writer.m_Buffer /\ L = want.length /\ bit = writer.m_Bit /\ r = ReaderOf(buf)
  OBVIOUS
<1>3. /\ WriterInv /\ pos = 0 /\ ~last.past /\ writer \in WriterType
      /\ buf \in Seq(Byte) /\ L \in Nat /\ Agrees(buf, L, want.ones)
      /\ L = Base(Len(buf)) + bit /\ bit \in 1 .. ByteBits
  BY <1>1, <1>2, WritingParts DEF Place, WriterType
<1>4. buf # << >>
  <2> SUFFICES ASSUME buf = << >>
               PROVE  FALSE
    OBVIOUS
  <2>1. Base(0) = -ByteBits /\ Len(buf) = 0 /\ ByteBits \in Nat
    BY BaseProps, SizesKnown
  <2> QED
    BY <1>1, <1>2, <1>3, <2>1
<1>5. r = [m_Buffer |-> buf, m_Offset |-> 0, m_NumBytes |-> Len(buf), m_Bit |-> 0] /\ Len(buf) \in Nat
  BY <1>2, <1>3 DEF ReaderOf
<1>6. r.m_Buffer = buf /\ r.m_Offset = 0 /\ r.m_NumBytes = Len(buf) /\ r.m_Bit = 0
  BY <1>5
<1>7. Reader(r)
  <2>1. 0 \in 0 .. ByteBits - 1 /\ 0 + Len(buf) = Len(buf)
    BY <1>5, SizesKnown
  <2>2. r \in ReaderType
    BY <1>3, <1>5, <2>1 DEF ReaderType
  <2> QED
    BY <1>6, <2>1, <2>2 DEF Reader
<1>8. Taken(r) = 0
  <2>1. Base(1) = 0 /\ 0 + 1 = 1
    BY BaseProps
  <2> QED
    BY <1>6, <2>1 DEF Taken
<1>9. ~Writing'
  <2>1. NoReader.m_Buffer = << >>
    BY DEF NoReader
  <2> QED
    BY <1>1, <1>2, <1>4, <1>6, <2>1 DEF Writing
<1>10. reader' = r
  BY <1>1, <1>2
<1>11. ReaderInv'
  BY <1>1, <1>2, <1>3, <1>6, <1>8, <1>10 DEF ReaderInv
<1> QED
  BY <1>1, <1>4, <1>6, <1>7, <1>9, <1>10, <1>11 DEF StreamInv

Splices(L, S, at, n, val) ==
  L \in Nat /\ S \in SUBSET (0 .. L - 1) /\ at \in Nat /\ n \in Nat /\ at + n <= L /\ val \in SUBSET Nat

LEMMA SpliceOnes ==
  ASSUME NEW L, NEW S, NEW at, NEW n, NEW val, Splices(L, S, at, n, val), NEW T, T = Splice(S, at, n, val)
  PROVE  /\ T \subseteq 0 .. L - 1
         /\ \A p \in Int : p < at \/ p >= at + n => (p \in T <=> p \in S)
         /\ \A i \in 0 .. n - 1 : i \in val <=> at + i \in T
<1>0. L \in Nat /\ S \in SUBSET (0 .. L - 1) /\ at \in Nat /\ n \in Nat /\ at + n <= L /\ val \in SUBSET Nat
  BY DEF Splices
<1> USE <1>0
<1>1. PICK low, moved : low = Low(val, n) /\ moved = ShiftLeft(low, at)
  OBVIOUS
<1>2. low \subseteq val /\ \A i : i \in low <=> i \in val /\ i < n
  BY <1>1, LowBits, Zenon
<1>3. moved \subseteq Int /\ \A i \in Int : i \in moved <=> i - at \in low
  <2>1. low \in SUBSET Int /\ at \in Int
    BY <1>2
  <2> QED
    BY <1>1, <2>1, LeftBits, Zenon
<1>4. \A p \in moved : p \in Int /\ at <= p /\ p < at + n
  <2> TAKE p \in moved
  <2>1. p \in Int /\ p - at \in Nat /\ p - at < n
    BY <1>2, <1>3
  <2> QED
    BY <2>1
<1>5. \A p : p \in T <=> (p \in S /\ (p < at \/ p >= at + n)) \/ p \in moved
  BY <1>1 DEF Splice
<1>6. \A p \in T : p \in 0 .. L - 1
  <2> TAKE p \in T
  <2>1. CASE p \in S
    BY <2>1
  <2>2. CASE p \in moved
    BY <1>4, <2>2
  <2> QED
    BY <1>5, <2>1, <2>2
<1>7. \A p \in Int : p < at \/ p >= at + n => (p \in T <=> p \in S)
  BY <1>4, <1>5
<1>8. \A i \in 0 .. n - 1 : i \in val <=> at + i \in T
  <2> TAKE i \in 0 .. n - 1
  <2>1. at + i \in Int /\ (at + i) - at = i /\ i < n /\ ~(at + i < at \/ at + i >= at + n)
    OBVIOUS
  <2>2. at + i \in T <=> at + i \in moved
    BY <1>5, <2>1
  <2> QED
    BY <1>2, <1>3, <2>1, <2>2
<1> QED
  BY <1>6, <1>7, <1>8

\* A cursor's write puts its bits where they are wanted, and no other.
Fills(buf, L, S, c, bypassed, n, val) ==
  /\ buf \in Seq(Byte) /\ L \in Nat /\ S \in SUBSET (0 .. L - 1) /\ Agrees(buf, L, S)
  /\ L <= Base(Len(buf) + 1)
  /\ c \in CursorType /\ Stands(c, bypassed) /\ c.end <= L
  /\ n \in 1 .. c.end - c.next /\ val \in SUBSET (0 .. n - 1)

FillRight(o, T, d, buf, L, c, bypassed) ==
  /\ T \subseteq 0 .. L - 1
  /\ o.buffer \in Seq(Byte) /\ Len(o.buffer) = Len(buf) /\ Agrees(o.buffer, L, T)
  /\ o.threw = FALSE
  /\ d \in CursorType /\ Stands(d, bypassed) /\ d.start = c.start /\ d.end = c.end

LEMMA FillProps ==
  ASSUME NEW buf, NEW L, NEW S, NEW c, NEW bypassed, NEW n, NEW val,
         Fills(buf, L, S, c, bypassed, n, val)
  PROVE  \E o, T, d :
           /\ o = CursorWriteBits(buf, c, val, n) /\ T = Splice(S, c.next, n, val)
           /\ d = [o.cursor EXCEPT !.next = @ + n]
           /\ FillRight(o, T, d, buf, L, c, bypassed)
<1>0. /\ buf \in Seq(Byte) /\ L \in Nat /\ S \in SUBSET (0 .. L - 1) /\ Agrees(buf, L, S)
      /\ L <= Base(Len(buf) + 1)
      /\ c \in CursorType /\ Stands(c, bypassed) /\ c.end <= L
      /\ n \in 1 .. c.end - c.next /\ val \in SUBSET (0 .. n - 1)
  BY DEF Fills
<1>1. PICK at, stop, T, o, d :
        /\ at = c.next /\ stop = at + n /\ T = Splice(S, at, n, val)
        /\ o = CursorWriteBits(buf, c, val, n) /\ d = [o.cursor EXCEPT !.next = @ + n]
  OBVIOUS
<1>2. /\ at \in Nat /\ c.end \in Nat /\ c.m_Size \in Int /\ n \in Nat /\ n > 0
      /\ at + n <= c.end /\ c.end - at <= c.m_Size /\ at = CursorPlace(c) /\ c.start <= at
      /\ c.start \in Nat
  BY <1>0, <1>1 DEF CursorType, Stands, CursorPlace
<1>3. stop \in Int /\ stop <= L /\ n <= c.m_Size /\ L \in Int
  BY <1>0, <1>1, <1>2
<1>4. /\ T \subseteq 0 .. L - 1
      /\ \A p \in Int : p < at \/ p >= stop => (p \in T <=> p \in S)
      /\ \A i \in 0 .. n - 1 : i \in val <=> at + i \in T
  <2>1. val \in SUBSET Nat /\ at + n <= L
    BY <1>0, <1>1, <1>2, <1>3
  <2>2. T = Splice(S, at, n, val)
    BY <1>1
  <2>4. Splices(L, S, at, n, val)
    BY <1>0, <1>2, <2>1 DEF Splices
  <2>3. /\ T \subseteq 0 .. L - 1
        /\ \A p \in Int : p < at \/ p >= at + n => (p \in T <=> p \in S)
        /\ \A i \in 0 .. n - 1 : i \in val <=> at + i \in T
    BY <2>2, <2>4, SpliceOnes
  <2> QED
    BY <1>1, <2>3
<1>5. PICK s : s = [buffer |-> buf, cursor |-> c, val |-> val, num_bits |-> n, threw |-> FALSE]
  OBVIOUS
<1>6. s.buffer = buf /\ s.cursor = c /\ s.val = val /\ s.num_bits = n /\ s \in FillingType
  <2>1. val \in SUBSET Nat
    BY <1>0
  <2> QED
    BY <1>0, <1>2, <1>5, <2>1 DEF FillingType
<1>7. \A b \in 1 .. Len(buf) : \A i \in 0 .. ByteBits - 1 :
        Base(b) + i < L /\ (Base(b) + i < at \/ Base(b) + i >= stop) =>
          (i \in buf[b] <=> Base(b) + i \in T)
  <2> TAKE b \in 1 .. Len(buf)
  <2> TAKE i \in 0 .. ByteBits - 1
  <2>1. Base(b) + i \in Int
    <3>1. b \in Int /\ i \in Int
      BY SizesKnown
    <3> QED
      BY <3>1, BaseTimes
  <2> QED
    BY <1>0, <1>4, <2>1 DEF Agrees
<1>8. Filling(s, L, stop, T)
  BY <1>0, <1>1, <1>2, <1>4, <1>6, <1>7 DEF Filling
<1>9. PICK t : /\ t = CursorWriteBits(buf, c, val, n) /\ Filling(t, L, stop, T)
               /\ t.num_bits = 0 /\ t.threw = FALSE /\ Len(t.buffer) = Len(buf)
               /\ c.m_Size - n <= t.cursor.m_Size /\ t.cursor.m_Wrote /\ SameCursor(t.cursor, c)
  <2>1. Filling([buffer |-> buf, cursor |-> c, val |-> val, num_bits |-> n, threw |-> FALSE], L, stop, T)
    BY <1>5, <1>8
  <2>2. ToFill(buf, c, val, n, L, stop, T)
    BY <1>2, <1>3, <2>1 DEF ToFill
  <2>3. Filled(CursorWriteBits(buf, c, val, n), buf, c, n, L, stop, T)
    BY <2>2, CursorWriteBitsProps
  <2> QED
    BY <2>3 DEF Filled
<1>10. PICK e : e = t.cursor /\ d = [e EXCEPT !.next = @ + n]
  BY <1>1, <1>9
<1>11. /\ t \in FillingType /\ CursorPlace(e) \in Nat /\ CursorPlace(e) + 0 = stop
       /\ \A b \in 1 .. Len(t.buffer) : \A i \in 0 .. ByteBits - 1 :
            Base(b) + i < L /\ (Base(b) + i < CursorPlace(e) \/ Base(b) + i >= stop) =>
              (i \in t.buffer[b] <=> Base(b) + i \in T)
  BY <1>9, <1>10 DEF Filling
<1>12. t.buffer \in Seq(Byte) /\ e \in CursorType /\ CursorPlace(e) = stop
  BY <1>10, <1>11 DEF FillingType
<1>13. Agrees(t.buffer, L, T)
  <2> SUFFICES ASSUME NEW b \in 1 .. Len(t.buffer), NEW i \in 0 .. ByteBits - 1, Base(b) + i < L
               PROVE  i \in t.buffer[b] <=> Base(b) + i \in T
    BY DEF Agrees
  <2>1. Base(b) + i \in Int
    <3>1. b \in Int /\ i \in Int
      BY SizesKnown
    <3> QED
      BY <3>1, BaseTimes
  <2> QED
    BY <1>3, <1>11, <1>12, <2>1
<1>14. e.next = at /\ e.start = c.start /\ e.end = c.end /\ e.m_TotalBits = c.m_TotalBits
  BY <1>1, <1>9, <1>10 DEF SameCursor
<1>15. /\ d \in CursorType /\ d.next = stop /\ d.m_Byte = e.m_Byte /\ d.m_Bit = e.m_Bit
       /\ d.m_Size = e.m_Size /\ d.m_Wrote = e.m_Wrote /\ d.m_TotalBits = e.m_TotalBits
       /\ d.start = e.start /\ d.end = e.end
  <2>1. e.next + n = stop /\ e.next + n \in Nat
    BY <1>1, <1>2, <1>14
  <2> QED
    BY <1>10, <1>12, <2>1 DEF CursorType
<1>16. Stands(d, bypassed)
  <2>1. stop = Base(d.m_Byte) + d.m_Bit
    BY <1>12, <1>15 DEF CursorPlace
  <2>2. d.start <= stop /\ stop <= d.end
    BY <1>1, <1>2, <1>14, <1>15
  <2>3. d.end - stop <= d.m_Size
    <3>1. c.m_Size - n <= d.m_Size /\ d.m_Size \in Int
      BY <1>9, <1>10, <1>15 DEF CursorType
    <3> QED
      BY <1>1, <1>2, <1>14, <1>15, <3>1
  <2>4. d.m_Wrote /\ (~bypassed => d.m_TotalBits = d.start)
    BY <1>0, <1>9, <1>10, <1>14, <1>15 DEF Stands
  <2> QED
    BY <1>15, <2>1, <2>2, <2>3, <2>4 DEF Stands
<1>17. FillRight(o, T, d, buf, L, c, bypassed)
  BY <1>1, <1>4, <1>9, <1>12, <1>13, <1>14, <1>15, <1>16 DEF FillRight
<1> QED
  BY <1>1, <1>17

LEMMA FillStep ==
  ASSUME StreamInv, Fill
  PROVE  StreamInv'
<1>1. PICK k \in DOMAIN cursors : \E n \in 1 .. cursors[k].end - cursors[k].next :
        \E val \in SUBSET (0 .. n - 1) :
          LET o == CursorWriteBits(writer.m_Buffer, cursors[k], val, n)
          IN  /\ Writing
              /\ writer' = [writer EXCEPT !.m_Buffer = o.buffer]
              /\ cursors' = [cursors EXCEPT ![k] = [o.cursor EXCEPT !.next = @ + n]]
              /\ want' = [want EXCEPT !.ones = Splice(@, cursors[k].next, n, val)]
              /\ last' = [last EXCEPT !.threw = o.threw]
              /\ reader' = reader /\ pos' = pos /\ uncounted' = uncounted
  BY DEF Fill
<1>2. PICK c, w, L, S, buf, s : /\ c = cursors[k] /\ w = writer /\ L = want.length /\ S = want.ones
                                /\ buf = w.m_Buffer /\ s = cursors
  OBVIOUS
<1>3. PICK n \in 1 .. c.end - c.next : \E val \in SUBSET (0 .. n - 1) :
        LET o == CursorWriteBits(buf, c, val, n)
        IN  /\ Writing
            /\ writer' = [w EXCEPT !.m_Buffer = o.buffer]
            /\ cursors' = [s EXCEPT ![k] = [o.cursor EXCEPT !.next = @ + n]]
            /\ want' = [want EXCEPT !.ones = Splice(@, c.next, n, val)]
            /\ last' = [last EXCEPT !.threw = o.threw]
            /\ reader' = reader /\ pos' = pos /\ uncounted' = uncounted
  BY <1>1, <1>2
<1>4. PICK val, o :
        /\ val \in SUBSET (0 .. n - 1) /\ o = CursorWriteBits(buf, c, val, n) /\ Writing
        /\ writer' = [w EXCEPT !.m_Buffer = o.buffer]
        /\ cursors' = [s EXCEPT ![k] = [o.cursor EXCEPT !.next = @ + n]]
        /\ want' = [want EXCEPT !.ones = Splice(@, c.next, n, val)]
        /\ last' = [last EXCEPT !.threw = o.threw]
        /\ reader' = reader /\ pos' = pos /\ uncounted' = uncounted
  BY <1>3
<1>5. /\ WriterInv /\ CursorsInv /\ pos = 0 /\ ~last.past /\ uncounted \in BOOLEAN
      /\ w \in WriterType /\ buf \in Seq(Byte) /\ Place(w) = L /\ L \in Nat /\ L <= MaxBits
      /\ S \in SUBSET (0 .. L - 1) /\ Agrees(buf, L, S)
      /\ last = [got |-> last.wanted, wanted |-> last.wanted, past |-> last.past, threw |-> FALSE]
  BY <1>2, <1>4, WritingParts
<1>6. k \in 1 .. Len(s) /\ c \in CursorType /\ Stands(c, uncounted) /\ c.end <= L /\ s \in Seq(CursorType)
  BY <1>2, <1>5, CursorParts DEF CursorsInv
<1>7. L <= Base(Len(buf) + 1)
  <2>1. L = Base(Len(buf)) + w.m_Bit /\ w.m_Bit \in 1 .. ByteBits /\ Len(buf) \in Int
    BY <1>2, <1>5 DEF Place, WriterType
  <2>2. Base(Len(buf)) \in Int /\ Base(Len(buf) + 1) = Base(Len(buf)) + ByteBits /\ ByteBits \in Nat
    BY <2>1, BaseTimes, SizesKnown
  <2> QED
    BY <2>1, <2>2
<1>8. Fills(buf, L, S, c, uncounted, n, val)
  BY <1>4, <1>5, <1>6, <1>7 DEF Fills
<1>9. PICK T, d :
        /\ T = Splice(S, c.next, n, val) /\ d = [o.cursor EXCEPT !.next = @ + n]
        /\ T \subseteq 0 .. L - 1
        /\ o.buffer \in Seq(Byte) /\ Len(o.buffer) = Len(buf) /\ Agrees(o.buffer, L, T)
        /\ o.threw = FALSE
        /\ d \in CursorType /\ Stands(d, uncounted) /\ d.start = c.start /\ d.end = c.end
  <2>1. PICK p, T, d :
          /\ p = CursorWriteBits(buf, c, val, n) /\ T = Splice(S, c.next, n, val)
          /\ d = [p.cursor EXCEPT !.next = @ + n] /\ FillRight(p, T, d, buf, L, c, uncounted)
    BY <1>8, FillProps
  <2>2. p = o
    BY <1>4, <2>1
  <2> QED
    BY <2>1, <2>2 DEF FillRight
<1>10. want' = [length |-> L, ones |-> T] /\ want'.length = L /\ want'.ones = T
  <2>1. want = [length |-> L, ones |-> S]
    BY <1>2 DEF StreamInv
  <2>2. want' = [[length |-> L, ones |-> S] EXCEPT !.ones = T]
    BY <1>4, <1>9, <2>1
  <2>3. want' = [length |-> L, ones |-> T]
    BY <2>2
  <2> QED
    BY <2>3
<1>11. /\ writer' \in WriterType /\ writer'.m_Buffer = o.buffer /\ writer'.m_Bit = w.m_Bit
       /\ writer'.m_TotalBits = w.m_TotalBits
  BY <1>4, <1>5, <1>9 DEF WriterType
<1>12. WriterInv'
  <2>1. Place(writer)' = L
    BY <1>2, <1>5, <1>9, <1>11 DEF Place
  <2>2. ~uncounted' => writer'.m_TotalBits = L
    BY <1>2, <1>4, <1>5, <1>11 DEF WriterInv
  <2> QED
    BY <1>9, <1>10, <1>11, <2>1, <2>2 DEF WriterInv
<1>13. PICK t : t = cursors' /\ t = [s EXCEPT ![k] = d]
  BY <1>4, <1>9
<1>14. /\ t \in Seq(CursorType) /\ Len(t) = Len(s) /\ t[k] = d /\ Len(s) \in Nat
       /\ \A j \in 1 .. Len(s) : j # k => t[j] = s[j]
  BY <1>6, <1>9, <1>13
<1>15. \A j \in 1 .. Len(t) : Stands(t[j], uncounted') /\ t[j].end <= L
  <2> TAKE j \in 1 .. Len(t)
  <2>1. CASE j = k
    BY <1>4, <1>6, <1>9, <1>14, <2>1
  <2>2. CASE j # k
    <3>1. t[j] = s[j] /\ j \in 1 .. Len(s)
      BY <1>14, <2>2
    <3>2. Stands(s[j], uncounted) /\ s[j].end <= L
      BY <1>2, <1>5, <3>1 DEF CursorsInv
    <3> QED
      BY <1>4, <3>1, <3>2
  <2> QED
    BY <2>1, <2>2
<1>16. \A i, j \in 1 .. Len(t) : i < j => t[i].end <= t[j].start
  <2> TAKE i, j \in 1 .. Len(t)
  <2> HAVE i < j
  <2>1. s[i].end <= s[j].start
    BY <1>2, <1>5, <1>14 DEF CursorsInv
  <2>2. t[i].end = s[i].end
    BY <1>2, <1>9, <1>14
  <2>3. t[j].start = s[j].start
    BY <1>2, <1>9, <1>14
  <2> QED
    BY <2>1, <2>2, <2>3
<1>17. CursorsInv'
  BY <1>10, <1>13, <1>14, <1>15, <1>16 DEF CursorsInv
<1>18. last' = last
  BY <1>4, <1>9, SameLast
<1>19. Writing' /\ pos' = 0 /\ ~last'.past /\ uncounted' \in BOOLEAN
       /\ last' = [got |-> last'.wanted, wanted |-> last'.wanted, past |-> last'.past, threw |-> FALSE]
  BY <1>4, <1>5, <1>18 DEF Writing, NoReader
<1>20. T \subseteq 0 .. L - 1 /\ L \in 0 .. MaxBits
  BY <1>5, <1>9, SizesKnown
<1> QED
  BY <1>10, <1>12, <1>17, <1>19, <1>20 DEF StreamInv

------------------------------------------------------------------------------
(***************************************************************************)
(* The steps of the reader.                                                *)
(***************************************************************************)
LEMMA ReadingParts ==
  ASSUME StreamInv, ~Writing
  PROVE  /\ Reader(reader) /\ reader.m_Buffer # << >> /\ reader.m_Buffer \in Seq(Byte)
         /\ want.length \in Nat /\ want.ones \in SUBSET (0 .. want.length - 1)
         /\ want = [length |-> want.length, ones |-> want.ones] /\ want.length \in 0 .. MaxBits
         /\ uncounted \in BOOLEAN
         /\ ~last.past => /\ ReaderInv /\ pos \in Nat /\ pos = Taken(reader)
                          /\ want.length <= Base(Len(reader.m_Buffer) + 1)
                          /\ Agrees(reader.m_Buffer, want.length, want.ones)
<1>1. /\ Reader(reader) /\ reader.m_Buffer # << >> /\ want.length \in 0 .. MaxBits
      /\ want.ones \in SUBSET (0 .. want.length - 1) /\ uncounted \in BOOLEAN
      /\ want = [length |-> want.length, ones |-> want.ones]
      /\ ~last.past => ReaderInv
  BY DEF StreamInv
<1>2. reader.m_Buffer \in Seq(Byte) /\ Taken(reader) \in Nat /\ Len(reader.m_Buffer) \in Nat
  BY <1>1, ReaderParts
<1>3. want.length \in Nat
  BY <1>1, SizesKnown
<1>4. ASSUME ~last.past
      PROVE  /\ ReaderInv /\ pos \in Nat /\ pos = Taken(reader)
             /\ want.length <= Base(Len(reader.m_Buffer) + 1)
             /\ Agrees(reader.m_Buffer, want.length, want.ones)
  <2>1. PICK bit \in 1 .. ByteBits : want.length = Base(Len(reader.m_Buffer)) + bit
    BY <1>1, <1>4 DEF ReaderInv
  <2>2. PICK N, B : N = Len(reader.m_Buffer) /\ B = ByteBits /\ N \in Int /\ B \in Nat
    BY <1>2, SizesKnown
  <2>3. Base(N) \in Int /\ Base(N + 1) = Base(N) + B
    BY <2>2, BaseTimes
  <2>4. want.length <= Base(N + 1)
    BY <2>1, <2>2, <2>3
  <2> QED
    BY <1>1, <1>2, <1>4, <2>2, <2>4 DEF ReaderInv
<1> QED
  BY <1>1, <1>2, <1>3, <1>4

\* What is read is what comes next in the packet.
LEMMA GotComing ==
  ASSUME StreamInv, ~Writing, ~last.past, NEW n \in Nat, NEW o, ReadRight(o, reader, n),
         pos + n <= want.length
  PROVE  o.threw = FALSE /\ o.val = Coming(n) /\ Taken(o.reader) = pos + n
<1>1. PICK p, L, S, buf, N :
        p = pos /\ L = want.length /\ S = want.ones /\ buf = reader.m_Buffer /\ N = Base(Len(buf) + 1)
  OBVIOUS
<1>2. /\ p \in Nat /\ L \in Nat /\ S \in SUBSET (0 .. L - 1) /\ buf \in Seq(Byte)
      /\ p = Taken(reader) /\ L <= N /\ Agrees(buf, L, S)
  BY <1>1, ReadingParts
<1>3. N \in Nat
  <2>1. Len(buf) \in Nat
    BY <1>2
  <2> QED
    BY <1>1, <2>1, BaseNat
<1>4. o.threw \in BOOLEAN /\ (o.threw => p + n > N)
  BY <1>1, <1>2 DEF ReadRight
<1>5. o.threw = FALSE
  BY <1>1, <1>2, <1>3, <1>4
<1>6. /\ o.val \in SUBSET Nat /\ Taken(o.reader) = p + n
      /\ \A i \in Nat : i \in o.val <=> i < n /\ p + i \in BytesValue(buf)
  BY <1>1, <1>2, <1>5 DEF ReadRight
<1>7. \A q \in Nat : q < L => (q \in BytesValue(buf) <=> q \in S)
  <2>1. S \in SUBSET Nat /\ L \in Int /\ L <= Base(Len(buf) + 1)
    BY <1>1, <1>2
  <2> QED
    BY <1>2, <2>1, AgreesStream, Zenon
<1>8. \A i \in Nat : i < n => p + i \in Nat /\ p + i < L
  BY <1>1, <1>2
<1>9. PICK right, C : right = ShiftRight(S, p) /\ C = Coming(n) /\ C = Low(right, n)
  BY <1>1 DEF Coming
<1>10. right \subseteq Nat /\ \A i \in Nat : i \in right <=> i + p \in S
  <2>1. S \in SUBSET Int /\ p \in Int
    BY <1>2
  <2> QED
    BY <1>9, <2>1, RightBits
<1>11. \A i : i \in C <=> i \in right /\ i < n
  BY <1>9, LowBits, Zenon
<1>12. \A i \in Nat : i \in o.val <=> i \in C
  <2> TAKE i \in Nat
  <2>1. i + p = p + i
    BY <1>2
  <2> QED
    BY <1>6, <1>7, <1>8, <1>10, <1>11, <2>1
<1>13. \A i \in C : i \in Nat
  BY <1>10, <1>11
<1>14. o.val = C
  BY <1>6, <1>12, <1>13
<1> QED
  BY <1>1, <1>5, <1>6, <1>9, <1>14

LEMMA ReadStep ==
  ASSUME StreamInv, NEW n \in Nat, NEW o, NEW wanted, Took(n, o, wanted),
         NEW q, ReadRight(q, reader, n), o.reader = q.reader, o.threw = q.threw,
         q.val = Coming(n) => o.val = wanted
  PROVE  StreamInv'
<1>1. /\ ~Writing /\ ~last.past /\ reader' = q.reader /\ pos' = pos + n
      /\ last' = IF pos + n > want.length
                 THEN [got |-> {}, wanted |-> {}, past |-> TRUE, threw |-> FALSE]
                 ELSE [got |-> o.val, wanted |-> wanted, past |-> FALSE, threw |-> q.threw]
      /\ want' = want /\ uncounted' = uncounted
  BY DEF Took
<1>2. /\ Reader(reader) /\ reader.m_Buffer # << >>
      /\ want.length \in Nat /\ want.ones \in SUBSET (0 .. want.length - 1)
      /\ want = [length |-> want.length, ones |-> want.ones] /\ want.length \in 0 .. MaxBits
      /\ uncounted \in BOOLEAN
      /\ ReaderInv /\ pos \in Nat /\ Agrees(reader.m_Buffer, want.length, want.ones)
  BY <1>1, ReadingParts
<1>3. Reader(q.reader) /\ q.reader.m_Buffer = reader.m_Buffer
  BY DEF ReadRight
<1>4. Reader(reader)' /\ reader'.m_Buffer = reader.m_Buffer /\ reader'.m_Buffer # << >>
  BY <1>1, <1>2, <1>3
<1>5. ~Writing'
  <2>1. NoReader.m_Buffer = << >>
    BY DEF NoReader
  <2> QED
    BY <1>4, <2>1 DEF Writing
<1>6. CASE pos + n > want.length
  <2>1. last' = [got |-> {}, wanted |-> {}, past |-> TRUE, threw |-> FALSE]
    BY <1>1, <1>6
  <2>2. /\ last'.past
        /\ last' = [got |-> last'.wanted, wanted |-> last'.wanted, past |-> last'.past, threw |-> FALSE]
    BY <2>1
  <2> QED
    BY <1>1, <1>2, <1>4, <1>5, <2>2 DEF StreamInv
<1>7. CASE pos + n <= want.length
  <2>1. q.threw = FALSE /\ q.val = Coming(n) /\ Taken(q.reader) = pos + n
    BY <1>1, <1>7, GotComing
  <2>2. ~(pos + n > want.length)
    BY <1>2, <1>7
  <2>3. last' = [got |-> wanted, wanted |-> wanted, past |-> FALSE, threw |-> FALSE]
    BY <1>1, <2>1, <2>2
  <2>4. last' = [got |-> last'.wanted, wanted |-> last'.wanted, past |-> last'.past, threw |-> FALSE]
    BY <2>3
  <2>5. ReaderInv'
    BY <1>1, <1>2, <1>3, <1>7, <2>1 DEF ReaderInv
  <2> QED
    BY <1>1, <1>2, <1>4, <1>5, <2>4, <2>5 DEF StreamInv
<1> QED
  BY <1>2, <1>6, <1>7

LEMMA ReadFieldStep ==
  ASSUME StreamInv, ReadField
  PROVE  StreamInv'
<1>1. PICK n \in 1 .. WordBits : Took(n, ReadUBits(reader, n), Coming(n))
  BY DEF ReadField
<1>2. ~Writing /\ n \in Nat
  BY <1>1 DEF Took
<1>3. ReadRight(ReadUBits(reader, n), reader, n)
  BY <1>2, ReadingParts, ReadUBitsProps
<1> QED
  BY <1>1, <1>2, <1>3, ReadStep

\* The sign is spread as the writer of the value has it.
LEMMA SignExtended ==
  ASSUME NEW n \in 1 .. WordBits - 1, NEW val, val \subseteq 0 .. n - 1
  PROVE  SignExtend(val, n) = Signed(val, n)
<1>1. WordBits \in Int
  BY SizesKnown, BaseProps
<1>2. \A i \in 0 .. WordBits - 1 : SmallerOf(i, n - 1) = IF i <= n - 1 THEN i ELSE n - 1
  <2> TAKE i \in 0 .. WordBits - 1
  <2>1. i \in Int /\ n - 1 \in Int
    OBVIOUS
  <2>2. SmallerOf(i, n - 1) \in {i, n - 1} /\ SmallerOf(i, n - 1) <= i /\ SmallerOf(i, n - 1) <= n - 1
    BY <2>1, SmallerProps
  <2> QED
    BY <2>1, <2>2
<1>3. \A i : i \in Signed(val, n) <=>
               i \in 0 .. WordBits - 1 /\ IF i <= n - 1 THEN i \in val ELSE n - 1 \in val
  BY <1>2 DEF Signed
<1>4. \A i \in 0 .. n - 1 : i \in 0 .. WordBits - 1 /\ i <= n - 1
  BY <1>1
<1>5. \A i : i \in n .. WordBits - 1 <=> i \in 0 .. WordBits - 1 /\ ~(i <= n - 1)
  BY <1>1
<1>6. CASE n - 1 \in val
  <2>1. SignExtend(val, n) = val \cup n .. WordBits - 1
    BY <1>6 DEF SignExtend
  <2>2. \A i \in 0 .. WordBits - 1 : i <= n - 1 \/ i \in n .. WordBits - 1
    BY <1>5
  <2>3. \A i : i \in SignExtend(val, n) <=> i \in Signed(val, n)
    BY <1>3, <1>4, <1>5, <1>6, <2>1, <2>2
  <2> QED
    BY <2>1, <2>3 DEF Signed
<1>7. CASE n - 1 \notin val
  <2>1. SignExtend(val, n) = val
    BY <1>7 DEF SignExtend
  <2>2. \A i : i \in SignExtend(val, n) <=> i \in Signed(val, n)
    BY <1>3, <1>4, <1>7, <2>1
  <2> QED
    BY <2>1, <2>2 DEF Signed
<1> QED
  BY <1>6, <1>7

LEMMA ReadSignedStep ==
  ASSUME StreamInv, ReadSigned
  PROVE  StreamInv'
<1>1. PICK n \in 1 .. WordBits - 1 : Took(n, ReadSBits(reader, n), Signed(Coming(n), n))
  BY DEF ReadSigned
<1>2. ~Writing /\ n \in Nat
  BY <1>1 DEF Took
<1>3. PICK q, o : q = ReadUBits(reader, n) /\ o = ReadSBits(reader, n)
  OBVIOUS
<1>4. ReadRight(q, reader, n) /\ q \in ReadingType
  BY <1>2, <1>3, ReadingParts, ReadUBitsProps
<1>5. o = [q EXCEPT !.val = SignExtend(@, n)]
  BY <1>3 DEF ReadSBits
<1>6. o.reader = q.reader /\ o.threw = q.threw /\ o.val = SignExtend(q.val, n)
  BY <1>4, <1>5 DEF ReadingType
<1>7. Coming(n) \subseteq 0 .. n - 1
  <2>1. want.ones \in SUBSET Int /\ pos \in Int
    BY <1>1, <1>2, ReadingParts DEF Took
  <2>2. PICK right : right = ShiftRight(want.ones, pos) /\ right \subseteq Nat
    BY <2>1, RightBits
  <2>3. \A i : i \in Coming(n) <=> i \in right /\ i < n
    BY <2>2, LowBits DEF Coming
  <2> QED
    BY <2>2, <2>3
<1>8. q.val = Coming(n) => o.val = Signed(Coming(n), n)
  BY <1>6, <1>7, SignExtended
<1> QED
  BY <1>1, <1>2, <1>3, <1>4, <1>6, <1>8, ReadStep

LEMMA ReadDataStep ==
  ASSUME StreamInv, ReadData
  PROVE  StreamInv'
<1>1. PICK n \in 1 .. MaxBits \div ByteBits : Took(n * ByteBits, ReadBuffer(reader, n), Coming(n * ByteBits))
  BY DEF ReadData
<1>2. ~Writing /\ n \in Nat
  BY <1>1, SizesKnown DEF Took
<1>3. PICK k \in Nat : k = n * ByteBits /\ k = Base(n + 1)
  BY <1>2, BaseNat
<1>4. ReadRight(ReadBuffer(reader, n), reader, k)
  BY <1>2, <1>3, ReadingParts, ReadBufferProps
<1>5. Took(k, ReadBuffer(reader, n), Coming(k))
  BY <1>1, <1>3
<1> QED
  BY <1>4, <1>5, ReadStep

------------------------------------------------------------------------------
(***************************************************************************)
(* The theorems.                                                           *)
(***************************************************************************)
LEMMA StreamInitInv ==
  ASSUME StreamInit
  PROVE  StreamInv
<1>1. /\ writer = EmptyWriter /\ cursors = << >> /\ reader = NoReader
      /\ want = [length |-> 0, ones |-> {}] /\ pos = 0
      /\ last = [got |-> {}, wanted |-> {}, past |-> FALSE, threw |-> FALSE]
      /\ uncounted = FALSE
  BY DEF StreamInit
<1>2. want.length = 0 /\ want.ones = {} /\ want = [length |-> want.length, ones |-> want.ones]
  BY <1>1
<1>3. /\ ~last.past
      /\ last = [got |-> last.wanted, wanted |-> last.wanted, past |-> last.past, threw |-> FALSE]
  BY <1>1
<1>4. WriterInv
  <2>1. Good(EmptyWriter, {}) /\ Place(EmptyWriter) = 0 /\ EmptyWriter.m_TotalBits = 0
    BY EmptyGood
  <2> QED
    BY <1>1, <1>2, <2>1 DEF WriterInv, Good
<1>5. CursorsInv
  BY <1>1 DEF CursorsInv
<1>6. Writing /\ 0 \in 0 .. MaxBits
  BY <1>1, SizesKnown DEF Writing
<1> QED
  BY <1>1, <1>2, <1>3, <1>4, <1>5, <1>6 DEF StreamInv

LEMMA StreamNextInv ==
  ASSUME StreamInv, [StreamNext]_streamVars
  PROVE  StreamInv'
<1>1. CASE WriteField
  BY <1>1, WriteFieldStep
<1>2. CASE WriteSigned
  BY <1>2, WriteSignedStep
<1>3. CASE WriteData
  BY <1>3, WriteDataStep
<1>4. CASE Reserve
  BY <1>4, ReserveStep
<1>5. CASE Fill
  BY <1>5, FillStep
<1>6. CASE RollBack
  BY <1>6, RollBackStep
<1>7. CASE Finish
  BY <1>7, FinishStep
<1>8. CASE ReadField
  BY <1>8, ReadFieldStep
<1>9. CASE ReadSigned
  BY <1>9, ReadSignedStep
<1>10. CASE ReadData
  BY <1>10, ReadDataStep
<1>11. CASE UNCHANGED streamVars
  BY <1>11 DEF streamVars, StreamInv, Writing, WriterInv, CursorsInv, ReaderInv
<1> QED
  BY <1>1, <1>2, <1>3, <1>4, <1>5, <1>6, <1>7, <1>8, <1>9, <1>10, <1>11 DEF StreamNext

(***************************************************************************)
(* The inductive invariant: the writer and its cursors stand where the     *)
(* stream says, the bytes agree with it, and a reader has taken as much of *)
(* it as was asked for.                                                    *)
(***************************************************************************)
THEOREM StreamInvariant == StreamSpec => []StreamInv
<1>1. StreamInit => StreamInv
  BY StreamInitInv
<1>2. StreamInv /\ [StreamNext]_streamVars => StreamInv'
  BY StreamNextInv
<1> QED
  BY <1>1, <1>2, PTL DEF StreamSpec

(***************************************************************************)
(* Whatever mix of fields, signed values, copied buffers, reservations,    *)
(* fills and rollbacks makes a packet, its buffer holds exactly the bits   *)
(* that were written, each at its place, and no byte more.                 *)
(***************************************************************************)
THEOREM BufferIsExact == StreamSpec => []StreamExact
<1>1. StreamInv => StreamExact
  <2> SUFFICES ASSUME StreamInv, Writing
               PROVE  Holds(writer, want.length, want.ones)
    BY DEF StreamExact
  <2>1. PICK w, n, S : w = writer /\ n = want.length /\ S = want.ones
    OBVIOUS
  <2>2. n \in Nat /\ S \in SUBSET (0 .. n - 1) /\ w \in WriterType /\ Place(w) = n /\ Agrees(w.m_Buffer, n, S)
    BY <2>1, WritingParts
  <2>3. Holds(w, n, S)
    BY <2>2, WriterHolds
  <2> QED
    BY <2>1, <2>3
<1> QED
  BY <1>1, StreamInvariant, PTL

(***************************************************************************)
(* However the reads of a packet are cut, each returns the bits that were  *)
(* written there.                                                          *)
(***************************************************************************)
THEOREM ReadsReturnWrites == StreamSpec => []ReadsBack
<1>1. StreamInv => ReadsBack
  <2> HAVE StreamInv
  <2>1. last = [got |-> last.wanted, wanted |-> last.wanted, past |-> last.past, threw |-> FALSE]
    BY DEF StreamInv
  <2> QED
    BY <2>1 DEF ReadsBack
<1> QED
  BY <1>1, StreamInvariant, PTL

(***************************************************************************)
(* No field is too narrow for its value, no cursor overflows and no read   *)
(* inside the packet finds too little.                                     *)
(***************************************************************************)
THEOREM StreamNeverThrows == StreamSpec => []NeverThrows
<1>1. StreamInv => NeverThrows
  <2> HAVE StreamInv
  <2>1. last = [got |-> last.wanted, wanted |-> last.wanted, past |-> last.past, threw |-> FALSE]
    BY DEF StreamInv
  <2> QED
    BY <2>1 DEF NeverThrows
<1> QED
  BY <1>1, StreamInvariant, PTL

(***************************************************************************)
(* A reader at the end of the packet counts as empty, and one that counts  *)
(* as empty has at most a byte's worth of bits left.                       *)
(***************************************************************************)
THEOREM EndIsEmpty == StreamSpec => []EmptyAtEnd
<1>1. StreamInv => EmptyAtEnd
  <2> SUFFICES ASSUME StreamInv, ~Writing, ~last.past
               PROVE  /\ pos = want.length => IsEmpty(reader)
                      /\ IsEmpty(reader) => want.length - pos <= ByteBits
    BY DEF EmptyAtEnd
  <2>1. PICK L, N, off, left, bit, B :
          /\ L = want.length /\ N = Len(reader.m_Buffer) /\ off = reader.m_Offset
          /\ left = reader.m_NumBytes /\ bit = reader.m_Bit /\ B = ByteBits
    OBVIOUS
  <2>2. Reader(reader) /\ ReaderInv /\ pos \in Nat /\ pos = Taken(reader) /\ L \in Nat
    BY <2>1, ReadingParts
  <2>3. /\ N \in Nat /\ off \in Nat /\ left \in Nat /\ off + left = N /\ bit \in 0 .. B - 1
        /\ pos = Base(off + 1) + bit /\ B \in Nat
    BY <2>1, <2>2, ReaderParts, SizesKnown
  <2>4. PICK end \in 1 .. B : L = Base(N) + end
    BY <2>1, <2>2 DEF ReaderInv
  <2>5. PICK x, y \in Int : /\ x = Base(off + 1) /\ y = Base(N)
                            /\ off + 1 < N => x + B <= y
                            /\ N <= off + 1 => y <= x
    <3>1. off + 1 \in Int /\ N \in Int
      BY <2>3
    <3> QED
      BY <2>1, <3>1, BaseTimes, BaseOrder
  <2>6. pos = L => left <= 1
    BY <2>3, <2>4, <2>5
  <2>7. left <= 1 => L - pos <= B
    BY <2>3, <2>4, <2>5
  <2> QED
    BY <2>1, <2>6, <2>7 DEF IsEmpty
<1> QED
  BY <1>1, StreamInvariant, PTL

\* The bit buffer w, copied into a packet behind d bits and out again.
Arrives(w, d, n, S) ==
  LET packet == SerializeBitBuffer(WriteBits(EmptyWriter, 0 .. d - 1, d), w)
      copy   == DeserializeBitBuffer(ReadUBits(ReaderOf(packet.m_Buffer), d).reader)
  IN  copy.m_TotalBits = n /\ Holds(copy, n, S)

LEMMA CopyArrives ==
  ASSUME NEW w, NEW n, NEW S, n < 2 ^ LengthBits, NEW d \in Nat,
         w \in WriterType, n \in Nat, Place(w) = n, w.m_TotalBits = n,
         S \in SUBSET (0 .. n - 1), Agrees(w.m_Buffer, n, S)
  PROVE  Arrives(w, d, n, S)
<1>1. PICK buf, all : buf = w.m_Buffer /\ all = BytesValue(buf)
  OBVIOUS
<1>2. /\ buf \in Seq(Byte) /\ Agrees(buf, n, S) /\ w.m_Bit \in 1 .. ByteBits
      /\ n = Base(Len(buf)) + w.m_Bit
  BY <1>1 DEF WriterType, Place
<1>3. n <= Base(Len(buf) + 1) /\ Base(Len(buf) + 1) \in Int
  <2>1. /\ Base(Len(buf)) \in Int /\ Base(Len(buf) + 1) = Base(Len(buf)) + ByteBits
        /\ ByteBits \in Nat
    <3>1. Len(buf) \in Int
      BY <1>2
    <3> QED
      BY <3>1, BaseTimes, SizesKnown
  <2> QED
    BY <1>2, <2>1
<1>4. LengthBits \in Nat /\ n \in 0 .. 2 ^ LengthBits - 1
  <2>1. LengthBits \in 1 .. 32
    BY SizeAssumption
  <2>2. PICK p \in Nat : p = 2 ^ LengthBits
    BY <2>1, PowerOfTwo
  <2> QED
    BY <2>1, <2>2
<1>5. \A p \in Nat : p < n => (p \in all <=> p \in S)
  <2>1. S \in SUBSET Nat /\ n \in Int
    OBVIOUS
  <2> QED
    BY <1>1, <1>2, <1>3, <2>1, AgreesStream
<1>6. PICK v : /\ v = SerializeBitBuffer(WriteBits(EmptyWriter, 0 .. d - 1, d), w)
               /\ Good(v, PacketBits(d, n, all)) /\ Place(v) = (d + LengthBits) + n
  <2>1. w.m_Buffer \in Seq(Byte) /\ w.m_TotalBits \in Nat /\ w.m_TotalBits <= Base(Len(w.m_Buffer) + 1)
    BY <1>1, <1>2, <1>3
  <2>2. PICK to : /\ to = WriteBits(EmptyWriter, 0 .. d - 1, d) /\ Place(to) = d
                  /\ Good(to, PacketBits(d, n, all))
    BY LeadingOnes
  <2> QED
    BY <1>1, <2>1, <2>2, SerializeProps
<1>7. Packet(v.m_Buffer, d, S, n)
  <2>1. PICK out : out = v.m_Buffer
    OBVIOUS
  <2>2. /\ v \in WriterType /\ out \in Seq(Byte) /\ v.m_Bit \in 1 .. ByteBits
        /\ Agrees(out, (d + LengthBits) + n, PacketBits(d, n, all))
        /\ (d + LengthBits) + n = Base(Len(out)) + v.m_Bit
    BY <1>6, <2>1 DEF Good, WriterType, Place
  <2>3. (d + LengthBits) + n <= Base(Len(out) + 1) /\ (d + LengthBits) + n \in Int
    <3>1. Len(out) \in Int
      BY <2>2
    <3>2. /\ Base(Len(out)) \in Int /\ Base(Len(out) + 1) = Base(Len(out)) + ByteBits
          /\ ByteBits \in Nat
      BY <3>1, BaseTimes, SizesKnown
    <3> QED
      BY <1>4, <2>2, <3>2
  <2>4. PacketBits(d, n, all) \in SUBSET Nat
    BY DEF PacketBits
  <2>5. \A p \in Nat : p < (d + LengthBits) + n => (p \in BytesValue(out) <=> p \in PacketBits(d, n, all))
    BY <2>2, <2>3, <2>4, AgreesStream
  <2>6. \A p \in Nat : p < (d + LengthBits) + n => (p \in PacketBits(d, n, all) <=> p \in PacketBits(d, n, S))
    <3> TAKE p \in Nat
    <3> HAVE p < (d + LengthBits) + n
    <3>1. CASE p < d + LengthBits
      BY <3>1 DEF PacketBits
    <3>2. CASE ~(p < d + LengthBits)
      <4>1. p - (d + LengthBits) \in Nat /\ p - (d + LengthBits) < n
        BY <1>4, <3>2
      <4> QED
        BY <1>5, <3>2, <4>1 DEF PacketBits
    <3> QED
      BY <3>1, <3>2
  <2>7. Packet(out, d, S, n)
    BY <2>2, <2>3, <2>5, <2>6 DEF Packet
  <2> QED
    BY <2>1, <2>7
<1>8. PICK r : /\ r = ReadUBits(ReaderOf(v.m_Buffer), d).reader /\ Reader(r)
               /\ r.m_Buffer = v.m_Buffer /\ Taken(r) = d
  <2>1. PICK out : out = v.m_Buffer
    OBVIOUS
  <2>2. out \in Seq(Byte) /\ (d + LengthBits) + n <= Base(Len(out) + 1)
    BY <1>7, <2>1 DEF Packet
  <2>3. Len(out) \in Nat /\ Base(Len(out) + 1) \in Nat
    BY <2>2, BaseNat
  <2>4. d <= Base(Len(out) + 1)
    BY <1>4, <2>2, <2>3
  <2> QED
    BY <2>1, <2>2, <2>4, ReadLeading
<1>9. PICK u : /\ u = DeserializeBitBuffer(r) /\ Good(u, S)
               /\ Place(u) = n /\ u.m_TotalBits = n
  <2>1. S \in SUBSET Nat
    OBVIOUS
  <2>2. PICK out : out = v.m_Buffer /\ Packet(out, d, S, n) /\ r.m_Buffer = out
    BY <1>7, <1>8
  <2> QED
    BY <1>4, <1>8, <2>1, <2>2, DeserializeProps
<1>10. Holds(u, n, S)
  <2>1. u \in WriterType /\ Agrees(u.m_Buffer, n, S)
    BY <1>9 DEF Good
  <2> QED
    BY <1>9, <2>1, WriterHolds
<1> QED
  BY <1>6, <1>8, <1>9, <1>10 DEF Arrives

(***************************************************************************)
(* A bit buffer that travels inside a packet arrives with the bits and the *)
(* number of bits it had, unless WriteBuffer copied bytes past the count   *)
(* or the number does not fit its field.                                   *)
(***************************************************************************)
THEOREM BuffersArrive == StreamSpec => []BitBufferCopied
<1>1. StreamInv => BitBufferCopied
  <2> SUFFICES ASSUME StreamInv, Writing, ~uncounted, want.length < 2 ^ LengthBits,
                      NEW d \in 0 .. ByteBits - 1
               PROVE  Arrives(writer, d, want.length, want.ones)
    BY DEF BitBufferCopied, Arrives
  <2>1. PICK w, n, S : w = writer /\ n = want.length /\ S = want.ones
    OBVIOUS
  <2>2. /\ w \in WriterType /\ Place(w) = n /\ n \in Nat /\ n < 2 ^ LengthBits
        /\ S \in SUBSET (0 .. n - 1) /\ Agrees(w.m_Buffer, n, S) /\ w.m_TotalBits = n
    BY <2>1, WritingParts DEF WriterInv
  <2>3. d \in Nat
    BY SizesKnown
  <2>4. Arrives(w, d, n, S)
    BY <2>2, <2>3, CopyArrives
  <2> QED
    BY <2>1, <2>4
<1> QED
  BY <1>1, StreamInvariant, PTL
==============================================================================
