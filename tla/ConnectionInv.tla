---------------------------- MODULE ConnectionInv ----------------------------
(***************************************************************************)
(* The inductive invariant behind the safety properties of Connection.     *)
(***************************************************************************)
EXTENDS Connection

\* What ENet has queued for the server of a connection whose peer has this
\* data pointer and which is in this state: CONNECT comes first and finds the
\* peer without a transmitter, DISCONNECT comes last and only once.
ServerShape(queue, data, state) ==
  /\ \A i \in 1 .. Len(queue) :
       /\ queue[i] = "CONNECT" => i = 1 /\ data = None
       /\ queue[i] = "DISCONNECT" => i = Len(queue) /\ state = "down"
  /\ queue # << >> => queue[1] = "CONNECT" \/ data # None
  /\ state \in {"unused", "connecting"} => data = None /\ queue = << >>
  /\ state \in {"up", "closing"} => data # None \/ queue # << >>
  /\ state = "down" /\ data # None => queue # << >>
  /\ state = "down" /\ queue # << >> => queue[Len(queue)] = "DISCONNECT"

ServerQueueShape ==
  \A c \in Client : ServerShape(serverEvents[c], peerData[c], link[c])

\* ENet never has more peers in use than its host was created with.
PeersBounded == Cardinality(OccupiedPeers) <= MaxConnections

\* What ENet has queued for a client: messages only come to a client that has
\* a protocol, will have got one by then, or no longer listens.
ClientShape(queue, ready, state) ==
  /\ \A i \in 1 .. Len(queue) :
       /\ queue[i] = "CONNECT" => i = 1
       /\ queue[i] = "RECEIVE" => ready \/ queue[1] = "CONNECT"
  /\ state \in {"unused", "connecting"} => queue = << >>
  /\ state = "up" => ready \/ (queue # << >> /\ queue[1] = "CONNECT")

ClientQueueShape ==
  \A c \in Client :
    ClientShape(clientEvents[c], m_Disconnected[c] \/ m_Protocol[c], link[c])

(***************************************************************************)
(* The inductive invariant: the tables agree with each other and with what *)
(* ENet has queued, so every event handler finds the entries it follows.   *)
(***************************************************************************)
ConnectionSafe ==
  /\ SlotsAgree
  /\ ServerQueueShape
  /\ PeersBounded
  /\ ClientQueueShape
  /\ NothingMisrouted
  /\ NoFault
==============================================================================
