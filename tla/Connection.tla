----------------------------- MODULE Connection ------------------------------
(***************************************************************************)
(* The life of connections: one NetServer over a NetServerBackendEnet, and *)
(* several NetClients, each over a NetClientBackendEnet that connects once *)
(* in its constructor.  A connection is named by the client it belongs to. *)
(*                                                                         *)
(* The server keeps three tables that must agree: m_Transmitters, indexed  *)
(* by connection id, the data pointer of every ENet peer, and m_Clients,   *)
(* indexed by connection id again.  Ids are reused.                        *)
(*                                                                         *)
(* ENet is external: it queues events for each end of a connection, and    *)
(* Update takes them one at a time.                                        *)
(***************************************************************************)
EXTENDS Integers, Sequences, FiniteSets

CONSTANTS
  Client,          \* the NetClient objects
  None,            \* no client, no transmitter, a null pointer
  MaxConnections,  \* NetServerSettingsEnet::MaxConnections and max_clients
  MaxQueued        \* bound: events ENet holds for one end of a connection

ASSUME ClientAssumption == IsFiniteSet(Client)
ASSUME ConnectionsAssumption == MaxConnections \in Nat
ASSUME QueuedAssumption == MaxQueued \in Nat

Ids == 0 .. MaxConnections - 1

Events == {"CONNECT", "RECEIVE", "DISCONNECT"}

\* How far ENet is with a connection.  A connection that is "closing" was
\* disconnected by one end and has not been reported to both yet.
Links == {"unused", "connecting", "up", "closing", "down"}

Transmitter == [m_Peer : Client, m_Disconnected : BOOLEAN]

ASSUME NoneAssumption == None \notin Client /\ None \notin Nat /\ None \notin Transmitter

Callbacks == {"None", "GotConnection", "ConnectionFailed", "Disconnected"}

VARIABLES
  m_Transmitters,  \* server backend: the transmitter with that id, or None
  peerData,        \* server backend: e.peer->data, the id of its transmitter
  m_Clients,       \* server: whose ClientInfo was constructed in that slot
  m_Connected,     \* client backend
  m_Disconnected,  \* client backend: m_Transmitter.m_Disconnected
  m_Protocol,      \* client: the optional protocol holds a value
  callback,        \* client: the last NetClientInterface call but GotMessage
  link,            \* ENet: the state of the connection
  serverEvents,    \* ENet: events for the server, oldest first
  clientEvents,    \* ENet: events for the client, oldest first
  fault,           \* a null pointer was dereferenced or a slot used twice
  misrouted        \* history: a message was handed to another's ClientInfo

serverVars == <<m_Transmitters, peerData, m_Clients>>
clientVars == <<m_Connected, m_Disconnected, m_Protocol, callback>>
enetVars == <<link, serverEvents, clientEvents>>
vars == <<serverVars, clientVars, enetVars, fault, misrouted>>

Init ==
  /\ m_Transmitters = [id \in Ids |-> None]
  /\ peerData = [c \in Client |-> None]
  /\ m_Clients = [id \in Ids |-> None]
  /\ m_Connected = [c \in Client |-> FALSE]
  /\ m_Disconnected = [c \in Client |-> FALSE]
  /\ m_Protocol = [c \in Client |-> FALSE]
  /\ callback = [c \in Client |-> "None"]
  /\ link = [c \in Client |-> "unused"]
  /\ serverEvents = [c \in Client |-> << >>]
  /\ clientEvents = [c \in Client |-> << >>]
  /\ fault = FALSE
  /\ misrouted = FALSE

------------------------------------------------------------------------------
(***************************************************************************)
(* ENet.                                                                   *)
(***************************************************************************)
Push(queues, c, e) == [queues EXCEPT ![c] = Append(@, e)]
Pop(queues, c) == [queues EXCEPT ![c] = Tail(@)]

\* A peer of the server's host is occupied until its DISCONNECT is dispatched.
OccupiedPeers ==
  {c \in Client : link[c] \in {"up", "closing"} \/ serverEvents[c] # << >>}

\* NetClientBackendEnet's constructor: enet_host_connect.
StartConnecting(c) ==
  /\ link[c] = "unused"
  /\ link' = [link EXCEPT ![c] = "connecting"]
  /\ UNCHANGED <<serverVars, clientVars, serverEvents, clientEvents, fault, misrouted>>

Handshake(c) ==
  /\ link[c] = "connecting"
  /\ Cardinality(OccupiedPeers) < MaxConnections
  /\ link' = [link EXCEPT ![c] = "up"]
  /\ serverEvents' = Push(serverEvents, c, "CONNECT")
  /\ clientEvents' = Push(clientEvents, c, "CONNECT")
  /\ UNCHANGED <<serverVars, clientVars, fault, misrouted>>

\* Nobody answers, or the server's host has no peer left.
ConnectTimesOut(c) ==
  /\ link[c] = "connecting"
  /\ link' = [link EXCEPT ![c] = "down"]
  /\ clientEvents' = Push(clientEvents, c, "DISCONNECT")
  /\ UNCHANGED <<serverVars, clientVars, serverEvents, fault, misrouted>>

\* A client that gave up before it was connected is reset and hears no more.
Listening(c) == m_Connected[c] \/ ~m_Disconnected[c]

\* A disconnect is acknowledged, or the connection times out.
ConnectionEnds(c) ==
  /\ link[c] \in {"up", "closing"}
  /\ link' = [link EXCEPT ![c] = "down"]
  /\ serverEvents' = Push(serverEvents, c, "DISCONNECT")
  /\ clientEvents' = IF Listening(c) THEN Push(clientEvents, c, "DISCONNECT") ELSE clientEvents
  /\ UNCHANGED <<serverVars, clientVars, fault, misrouted>>

\* enet_peer_disconnect: nothing happens to a connection that is over.
Closed(c) == [link EXCEPT ![c] = IF @ = "up" THEN "closing" ELSE @]

------------------------------------------------------------------------------
(***************************************************************************)
(* The server.  A callback of the application may call DisconnectClient    *)
(* from inside an event; nothing else happens in between, so this is the   *)
(* same as calling it right after the event.                               *)
(***************************************************************************)
Fault ==
  /\ fault' = TRUE
  /\ UNCHANGED <<m_Transmitters, peerData, m_Clients, misrouted>>

\* GotNewConnection: AllowNewConnection decides whether a client is made.  It
\* would be an error to construct it in a slot that is in use.
GotNewConnection(id, c) ==
  \/ /\ m_Clients' = [m_Clients EXCEPT ![id] = c]
     /\ fault' = (fault \/ m_Clients[id] # None)
  \/ UNCHANGED <<m_Clients, fault>>

ServerConnect(c) ==
  /\ serverEvents[c] # << >> /\ Head(serverEvents[c]) = "CONNECT"
  /\ IF \A id \in Ids : m_Transmitters[id] # None THEN Fault
     ELSE \E id \in Ids :
            /\ m_Transmitters[id] = None
            /\ m_Transmitters' =
                 [m_Transmitters EXCEPT ![id] = [m_Peer |-> c, m_Disconnected |-> FALSE]]
            /\ peerData' = [peerData EXCEPT ![c] = id]
            /\ GotNewConnection(id, c)
            /\ UNCHANGED misrouted
  /\ serverEvents' = Pop(serverEvents, c)
  /\ UNCHANGED <<clientVars, link, clientEvents>>

\* NetServer::GotMessage hands the packet to the client in the slot, if any.
GotMessage(id, c) == misrouted' = (misrouted \/ m_Clients[id] \notin {c, None})

ServerReceive(c) ==
  /\ serverEvents[c] # << >> /\ Head(serverEvents[c]) = "RECEIVE"
  /\ IF peerData[c] = None \/ m_Transmitters[peerData[c]] = None THEN Fault
     ELSE /\ IF m_Transmitters[peerData[c]].m_Disconnected THEN UNCHANGED misrouted
             ELSE GotMessage(peerData[c], c)
          /\ UNCHANGED <<m_Transmitters, peerData, m_Clients, fault>>
  /\ serverEvents' = Pop(serverEvents, c)
  /\ UNCHANGED <<clientVars, link, clientEvents>>

\* CleanupClient and Free, if there is a client in the slot.
ConnectionLost(id) == m_Clients' = [m_Clients EXCEPT ![id] = None]

\* Faulty variant: ConnectionLost is not called.
ServerDisconnectSilent(c) ==
  /\ serverEvents[c] # << >> /\ Head(serverEvents[c]) = "DISCONNECT"
  /\ IF peerData[c] = None \/ m_Transmitters[peerData[c]] = None THEN Fault
     ELSE /\ peerData' = [peerData EXCEPT ![c] = None]
          /\ m_Transmitters' = [m_Transmitters EXCEPT ![peerData[c]] = None]
          /\ UNCHANGED <<m_Clients, fault, misrouted>>
  /\ serverEvents' = Pop(serverEvents, c)
  /\ UNCHANGED <<clientVars, link, clientEvents>>

\* Faulty variant: the transmitter is not freed.
ServerDisconnectLeaks(c) ==
  /\ serverEvents[c] # << >> /\ Head(serverEvents[c]) = "DISCONNECT"
  /\ IF peerData[c] = None \/ m_Transmitters[peerData[c]] = None THEN Fault
     ELSE /\ ConnectionLost(peerData[c])
          /\ peerData' = [peerData EXCEPT ![c] = None]
          /\ UNCHANGED <<m_Transmitters, fault, misrouted>>
  /\ serverEvents' = Pop(serverEvents, c)
  /\ UNCHANGED <<clientVars, link, clientEvents>>

ServerDisconnect(c) ==
  /\ serverEvents[c] # << >> /\ Head(serverEvents[c]) = "DISCONNECT"
  /\ IF peerData[c] = None \/ m_Transmitters[peerData[c]] = None THEN Fault
     ELSE /\ ConnectionLost(peerData[c])
          /\ peerData' = [peerData EXCEPT ![c] = None]
          /\ m_Transmitters' = [m_Transmitters EXCEPT ![peerData[c]] = None]
          /\ UNCHANGED <<fault, misrouted>>
  /\ serverEvents' = Pop(serverEvents, c)
  /\ UNCHANGED <<clientVars, link, clientEvents>>

\* Clear has no effect here: packets held back by the lag simulation are not
\* part of this module.
ForceDisconnect(id) ==
  IF m_Transmitters[id] = None THEN Fault /\ UNCHANGED link
  ELSE /\ ~m_Transmitters[id].m_Disconnected
       /\ m_Transmitters' = [m_Transmitters EXCEPT ![id].m_Disconnected = TRUE]
       /\ link' = Closed(m_Transmitters[id].m_Peer)
       /\ UNCHANGED <<peerData, m_Clients, fault, misrouted>>

\* The application disconnects a client it has.
DisconnectClient(id) ==
  /\ m_Clients[id] # None
  /\ ForceDisconnect(id)
  /\ UNCHANGED <<clientVars, serverEvents, clientEvents>>

\* A pipe of a ClientInfo sends through its transmitter; the packet arrives.
ServerSends(id) ==
  /\ m_Clients[id] # None
  /\ IF m_Transmitters[id] = None THEN Fault /\ UNCHANGED clientEvents
     ELSE LET peer == m_Transmitters[id].m_Peer
          IN  /\ link[peer] = "up"
              /\ Len(clientEvents[peer]) < MaxQueued
              /\ clientEvents' = Push(clientEvents, peer, "RECEIVE")
              /\ misrouted' = (misrouted \/ peer # m_Clients[id])
              /\ UNCHANGED <<m_Transmitters, peerData, m_Clients, fault>>
  /\ UNCHANGED <<clientVars, link, serverEvents>>

ServerUpdate(c) == ServerConnect(c) \/ ServerReceive(c) \/ ServerDisconnect(c)

------------------------------------------------------------------------------
(***************************************************************************)
(* The clients.                                                            *)
(***************************************************************************)
GotConnection(c) ==
  /\ m_Protocol' = [m_Protocol EXCEPT ![c] = TRUE]
  /\ callback' = [callback EXCEPT ![c] = "GotConnection"]

ClientConnect(c) ==
  /\ clientEvents[c] # << >> /\ Head(clientEvents[c]) = "CONNECT"
  /\ m_Connected' = [m_Connected EXCEPT ![c] = TRUE]
  /\ GotConnection(c)
  /\ clientEvents' = Pop(clientEvents, c)
  /\ UNCHANGED <<serverVars, m_Disconnected, link, serverEvents, fault, misrouted>>

\* NetClient::GotMessage dereferences the optional protocol.
ClientReceive(c) ==
  /\ clientEvents[c] # << >> /\ Head(clientEvents[c]) = "RECEIVE"
  /\ fault' = (fault \/ (~m_Disconnected[c] /\ ~m_Protocol[c]))
  /\ clientEvents' = Pop(clientEvents, c)
  /\ UNCHANGED <<serverVars, clientVars, link, serverEvents, misrouted>>

\* Faulty variant: a client that called Disconnect is not told of the end.
ClientDisconnectQuiet(c) ==
  /\ clientEvents[c] # << >> /\ Head(clientEvents[c]) = "DISCONNECT"
  /\ callback' =
       [callback EXCEPT ![c] = IF m_Disconnected[c] THEN @ ELSE "ConnectionFailed"]
  /\ clientEvents' = Pop(clientEvents, c)
  /\ UNCHANGED <<serverVars, m_Connected, m_Disconnected, m_Protocol, link, serverEvents,
                 fault, misrouted>>

ClientDisconnect(c) ==
  /\ clientEvents[c] # << >> /\ Head(clientEvents[c]) = "DISCONNECT"
  /\ callback' =
       [callback EXCEPT ![c] = IF m_Connected[c] THEN "ConnectionFailed" ELSE "Disconnected"]
  /\ clientEvents' = Pop(clientEvents, c)
  /\ UNCHANGED <<serverVars, m_Connected, m_Disconnected, m_Protocol, link, serverEvents,
                 fault, misrouted>>

\* The application calls NetClient::Disconnect.  enet_peer_disconnect resets a
\* peer that is not connected yet, dropping its events.
Disconnect(c) ==
  /\ link[c] # "unused"
  /\ ~m_Disconnected[c]
  /\ m_Disconnected' = [m_Disconnected EXCEPT ![c] = TRUE]
  /\ link' = IF link[c] = "connecting" THEN [link EXCEPT ![c] = "down"] ELSE Closed(c)
  /\ clientEvents' = IF m_Connected[c] THEN clientEvents ELSE [clientEvents EXCEPT ![c] = << >>]
  /\ UNCHANGED <<serverVars, m_Connected, m_Protocol, callback, serverEvents, fault, misrouted>>

\* A pipe of the client sends, and the packet gets through.
ClientSends(c) ==
  /\ m_Protocol[c]
  /\ link[c] = "up"
  /\ Len(serverEvents[c]) < MaxQueued
  /\ serverEvents' = Push(serverEvents, c, "RECEIVE")
  /\ UNCHANGED <<serverVars, clientVars, link, clientEvents, fault, misrouted>>

ClientUpdate(c) == ClientConnect(c) \/ ClientReceive(c) \/ ClientDisconnect(c)

------------------------------------------------------------------------------
EnetStep(c) ==
  StartConnecting(c) \/ Handshake(c) \/ ConnectTimesOut(c) \/ ConnectionEnds(c)

Next ==
  /\ ~fault
  /\ \/ \E c \in Client :
          EnetStep(c) \/ ServerUpdate(c) \/ ClientUpdate(c) \/ Disconnect(c) \/ ClientSends(c)
     \/ \E id \in Ids : DisconnectClient(id) \/ ServerSends(id)

Spec == Init /\ [][Next]_vars

\* Both programs call Update every frame, and ENet finishes a disconnect that
\* was begun: it is acknowledged or times out.
Fairness ==
  \A c \in Client :
    /\ WF_vars(~fault /\ ServerUpdate(c))
    /\ WF_vars(~fault /\ ClientUpdate(c))
    /\ WF_vars(~fault /\ link[c] = "closing" /\ ConnectionEnds(c))

FairSpec == Spec /\ Fairness

------------------------------------------------------------------------------
(***************************************************************************)
(* Properties.                                                             *)
(***************************************************************************)
TypeOK ==
  /\ m_Transmitters \in [Ids -> Transmitter \cup {None}]
  /\ peerData \in [Client -> Ids \cup {None}]
  /\ m_Clients \in [Ids -> Client \cup {None}]
  /\ m_Connected \in [Client -> BOOLEAN]
  /\ m_Disconnected \in [Client -> BOOLEAN]
  /\ m_Protocol \in [Client -> BOOLEAN]
  /\ callback \in [Client -> Callbacks]
  /\ link \in [Client -> Links]
  /\ serverEvents \in [Client -> Seq(Events)]
  /\ clientEvents \in [Client -> Seq(Events)]
  /\ fault \in BOOLEAN
  /\ misrouted \in BOOLEAN

(***************************************************************************)
(* The server's three tables agree, although ids are reused and the        *)
(* events of different connections interleave: a peer and its transmitter  *)
(* point at each other, and the client constructed in a slot belongs to    *)
(* the connection whose transmitter has that id.                           *)
(***************************************************************************)
SlotsAgree ==
  /\ \A id \in Ids : m_Clients[id] # None =>
       m_Transmitters[id] # None /\ m_Transmitters[id].m_Peer = m_Clients[id]
  /\ \A id \in Ids : m_Transmitters[id] # None => peerData[m_Transmitters[id].m_Peer] = id
  /\ \A c \in Client : peerData[c] # None =>
       m_Transmitters[peerData[c]] # None /\ m_Transmitters[peerData[c]].m_Peer = c

(***************************************************************************)
(* A packet of one connection never reaches the ClientInfo or the client   *)
(* of another, whoever had the connection id before (NetServer::GotMessage *)
(* finds the client by id only).                                           *)
(***************************************************************************)
NothingMisrouted == ~misrouted

(***************************************************************************)
(* Update and ForceDisconnect never dereference a null transmitter, and    *)
(* NetClient never a protocol it does not have; Allocate never runs out,   *)
(* because a transmitter is freed before ENet gives its peer away again.   *)
(***************************************************************************)
NoFault == ~fault

(***************************************************************************)
(* When a connection is over the server cleans up its client and its       *)
(* transmitter, whichever end ended it and whatever events were queued.    *)
(***************************************************************************)
ServerForgets ==
  \A c \in Client :
    link[c] = "down" ~> peerData[c] = None /\ \A id \in Ids : m_Clients[id] # c

(***************************************************************************)
(* A client that was connected and calls Disconnect is told of the end.    *)
(***************************************************************************)
ClientTold ==
  \A c \in Client :
    m_Connected[c] /\ m_Disconnected[c] ~> callback[c] \in {"ConnectionFailed", "Disconnected"}
==============================================================================
