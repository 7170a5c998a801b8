------------------------------ MODULE RoomRelay ------------------------------
(***************************************************************************)
(* The relay process, its two clients, and the part of the buyer and       *)
(* seller runtimes that keeps their channel: every JOIN_ROOM drops the     *)
(* relay client of the session before it, resets the sequence numbers and  *)
(* the shared key, and registers a new key over a new connection.          *)
(*                                                                         *)
(* A connection is the JOIN_ROOM that opened it, and stands for its key    *)
(* pair.  Each direction of a connection is ordered; nothing orders two    *)
(* connections.  When a client destroys its socket the relay may still     *)
(* read what was written before, and learns of the end afterwards: until   *)
(* then the old registration holds its place in the room.                  *)
(*                                                                         *)
(* A packet is its sequence number and the two keys it is encrypted under: *)
(* decryption succeeds under the same two keys.  The page sends JOIN_ROOM  *)
(* for a session only before that session's limit is locked, and runtimes  *)
(* send packets only afterwards.                                           *)
(***************************************************************************)
EXTENDS Naturals, Sequences, FiniteSets

CONSTANTS
    Sessions,      \* session identifiers
    MaxJoins,      \* bound on the JOIN_ROOM commands of one role
    MaxSent,       \* bound on the packets of one connection
    MaxFaults,     \* bound on broken connections
    MaxTrouble     \* bound on broken connections and second joins together

ASSUME BoundsAreNaturals ==
    MaxJoins \in Nat /\ MaxSent \in Nat /\ MaxFaults \in Nat /\ MaxTrouble \in Nat

Parties == {"buyer", "seller"}
Peer(role) == IF role = "buyer" THEN "seller" ELSE "buyer"

NoSession == "no session"
Connections == Parties \X (1..MaxJoins)

VARIABLES
    joins,         \* role -> JOIN_ROOM commands handled: its current connection
    session,       \* role -> sessionId
    limited,       \* role -> sessions whose limit it locked
    linked,        \* role -> its relay client has a socket
    peerKey,       \* role -> connection whose key it derived sharedKey from, or 0
    sent,          \* role -> sentSequence
    received,      \* role -> receivedSequence
    up,            \* connection -> frames on their way to the relay
    down,          \* connection -> frames on their way to the client
    gone,          \* connections with a destroyed socket
    registration,  \* connection -> the session its REGISTER names
    rooms,         \* the relay's rooms: session -> role -> connection, or 0
    clients,       \* the relay's registered connections
    lastSequence,  \* connection -> last sequence number the relay routed
    faults,
    outbox,        \* history: packets written, with their sender
    accepted,      \* history: packets a runtime accepted, with their sender
    told           \* history: roles whose runtime reported RELAY_CHANNEL_ERROR

runtime == <<joins, session, limited, linked, peerKey, sent, received>>
wires == <<up, down, gone, registration>>
relay == <<rooms, clients, lastSequence>>
history == <<outbox, accepted, told>>
vars == <<runtime, wires, relay, faults, history>>

Current(role) == <<role, joins[role]>>

\* Bound: only so much happens to the two channels of one behaviour.
Trouble == faults + Cardinality({conn \in Connections : 2 <= conn[2] /\ conn[2] <= joins[conn[1]]})

\* deriveSharedKey: the same for both ends of a pair of keys.
Keys(role, own, peer) == IF role = "buyer" THEN <<own, peer>> ELSE <<peer, own>>
SharedKey(role) == Keys(role, joins[role], peerKey[role])

Register == [kind |-> "REGISTER", sequence |-> 0, keys |-> <<0, 0>>, code |-> "none"]
Packet(sequence, keys) == [kind |-> "PACKET", sequence |-> sequence, keys |-> keys, code |-> "none"]
PeerKey(n) == [kind |-> "PEER_KEY", sequence |-> n, keys |-> <<0, 0>>, code |-> "none"]
Error(code) == [kind |-> "ERROR", sequence |-> 0, keys |-> <<0, 0>>, code |-> code]

Pushed(queues, conn, frame) == [queues EXCEPT ![conn] = Append(@, frame)]

\* The relay writes only to a socket that is not destroyed.
Written(queues, conn, frame) == IF conn \in gone THEN queues ELSE Pushed(queues, conn, frame)

-----------------------------------------------------------------------------
Init ==
    /\ joins = [role \in Parties |-> 0]
    /\ session = [role \in Parties |-> NoSession]
    /\ limited = [role \in Parties |-> {}]
    /\ linked = [role \in Parties |-> FALSE]
    /\ peerKey = [role \in Parties |-> 0]
    /\ sent = [role \in Parties |-> 0] /\ received = [role \in Parties |-> 0]
    /\ up = [conn \in Connections |-> <<>>] /\ down = [conn \in Connections |-> <<>>]
    /\ gone = {} /\ clients = {}
    /\ rooms = [s \in Sessions |-> [role \in Parties |-> 0]]
    /\ registration = [conn \in Connections |-> NoSession]
    /\ lastSequence = [conn \in Connections |-> 0]
    /\ faults = 0
    /\ outbox = {} /\ accepted = {} /\ told = {}

-----------------------------------------------------------------------------
(* The runtimes and their relay clients. *)

\* relayClient.close(): what was not yet written is lost, and nothing that
\* comes back is read any more.
Destroyed(queues, conn) ==
    {[queues EXCEPT ![conn] = SubSeq(@, 1, kept)] : kept \in 0..Len(queues[conn])}

\* JOIN_ROOM: the old client is closed, the state of the session is reset and a
\* new client registers.
JoinRoom(role, s) ==
    /\ joins[role] < MaxJoins /\ s \notin limited[role]
    /\ joins[role] = 0 \/ Trouble < MaxTrouble
    /\ joins' = [joins EXCEPT ![role] = @ + 1]
    /\ session' = [session EXCEPT ![role] = s]
    /\ linked' = [linked EXCEPT ![role] = TRUE]
    /\ peerKey' = [peerKey EXCEPT ![role] = 0]
    /\ sent' = [sent EXCEPT ![role] = 0] /\ received' = [received EXCEPT ![role] = 0]
    /\ LET fresh == <<role, joins[role] + 1>>
       IN  /\ registration' = [registration EXCEPT ![fresh] = s]
           /\ IF joins[role] = 0
              THEN up' = Pushed(up, fresh, Register) /\ UNCHANGED <<down, gone>>
              ELSE /\ \E cut \in Destroyed(up, Current(role)) : up' = Pushed(cut, fresh, Register)
                   /\ down' = [down EXCEPT ![Current(role)] = <<>>]
                   /\ gone' = gone \cup {Current(role)}
    /\ told' = told \ {role}
    /\ UNCHANGED <<limited, relay, faults, outbox, accepted>>

\* SET_LIMIT of the session.
SetLimit(role) ==
    /\ session[role] # NoSession /\ session[role] \notin limited[role]
    /\ limited' = [limited EXCEPT ![role] = @ \cup {session[role]}]
    /\ UNCHANGED <<joins, session, linked, peerKey, sent, received, wires, relay, faults, history>>

\* Mutant: the number is taken before it is increased.
NumberBefore(role) == sent[role]

\* sentSequence is increased first: the first packet is number 1.
NextSequence(role) == sent[role] + 1

\* relay(): encrypts under the shared key and writes to the client's socket.
RelayPayload(role) ==
    /\ session[role] \in limited[role] /\ peerKey[role] # 0 /\ linked[role]
    /\ sent[role] < MaxSent
    /\ sent' = [sent EXCEPT ![role] = @ + 1]
    /\ LET packet == Packet(NextSequence(role), SharedKey(role))
       IN  /\ up' = Pushed(up, Current(role), packet)
           /\ outbox' = outbox \cup {<<role, packet>>}
    /\ UNCHANGED <<joins, session, limited, linked, peerKey, received, down, gone, registration,
                   relay, faults, accepted, told>>

\* Mutant: a packet under another key is taken for a valid one.
AnyKey(role, packet) == TRUE

\* decryptRelayPayload fails under any other shared key.
Decrypts(role, packet) == packet.keys = SharedKey(role)

\* acceptRelayPacket's guard and decryption; a failure is reported and leaves
\* receivedSequence alone.
AcceptPacket(role, packet) ==
    IF peerKey[role] # 0 /\ packet.sequence > received[role] /\ Decrypts(role, packet)
    THEN /\ received' = [received EXCEPT ![role] = packet.sequence]
         /\ accepted' = accepted \cup {<<Peer(role), packet>>}
         /\ UNCHANGED <<peerKey, told>>
    ELSE told' = told \cup {role} /\ UNCHANGED <<peerKey, received, accepted>>

\* RoomRelayClient hands each frame to its callback.  acceptPeerKey derives a
\* new shared key and keeps both counters.  After ROLE_CONFLICT the relay ends
\* the connection.
ClientReads(role) ==
    /\ linked[role] /\ down[Current(role)] # <<>>
    /\ down' = [down EXCEPT ![Current(role)] = Tail(@)]
    /\ LET frame == Head(down[Current(role)])
       IN  \/ /\ frame.kind = "PEER_KEY"
              /\ peerKey' = [peerKey EXCEPT ![role] = frame.sequence]
              /\ UNCHANGED <<linked, received, accepted, told>>
           \/ frame.kind = "PACKET" /\ AcceptPacket(role, frame) /\ UNCHANGED linked
           \/ /\ frame.kind = "ERROR"
              /\ told' = told \cup {role}
              /\ linked' = [linked EXCEPT ![role] = @ /\ frame.code # "ROLE_CONFLICT"]
              /\ UNCHANGED <<peerKey, received, accepted>>
    /\ UNCHANGED <<joins, session, limited, sent, up, gone, registration, relay, faults, outbox>>

\* A connection breaks; the client does not open another one.
Breaks(role) ==
    /\ linked[role] /\ Current(role) \notin gone
    /\ faults < MaxFaults /\ Trouble < MaxTrouble /\ faults' = faults + 1
    /\ linked' = [linked EXCEPT ![role] = FALSE]
    /\ gone' = gone \cup {Current(role)}
    /\ up' \in Destroyed(up, Current(role))
    /\ down' = [down EXCEPT ![Current(role)] = <<>>]
    /\ UNCHANGED <<joins, session, limited, peerKey, sent, received, registration, relay, history>>

-----------------------------------------------------------------------------
(* The relay. *)

\* ROLE_CONFLICT: a role holds one place in a room.
PlaceIsFree(room, role) == room[role] = 0

\* Mutant: only the party that registers gets the other's key.
TellNewcomer(conn, peer) == Written(down, conn, PeerKey(peer[2]))

\* Both parties get the other's key as soon as both are there.
Introduce(conn, peer) == Written(Written(down, conn, PeerKey(peer[2])), peer, PeerKey(conn[2]))

\* register; a refused client's socket is destroyed.
RegisterClient(conn) ==
    LET s == registration[conn]
        peer == <<Peer(conn[1]), rooms[s][Peer(conn[1])]>>
    IN  IF PlaceIsFree(rooms[s], conn[1])
        THEN /\ rooms' = [rooms EXCEPT ![s][conn[1]] = conn[2]]
             /\ clients' = clients \cup {conn}
             /\ down' = IF peer[2] = 0 THEN down ELSE Introduce(conn, peer)
             /\ UNCHANGED gone
        ELSE /\ down' = Written(down, conn, Error("ROLE_CONFLICT"))
             /\ gone' = gone \cup {conn}
             /\ UNCHANGED <<rooms, clients>>

Rejects(conn, code) == down' = Written(down, conn, Error(code)) /\ UNCHANGED lastSequence

\* routePacket.  Nonces are 96 random bits and are not reused.
RoutePacket(conn, packet) ==
    LET target == <<Peer(conn[1]), rooms[registration[conn]][Peer(conn[1])]>>
    IN  IF conn \notin clients THEN Rejects(conn, "ROOM_MISMATCH")
        ELSE IF packet.sequence <= lastSequence[conn] THEN Rejects(conn, "REPLAY_REJECTED")
        ELSE IF target[2] = 0 THEN Rejects(conn, "PEER_UNAVAILABLE")
        ELSE /\ lastSequence' = [lastSequence EXCEPT ![conn] = packet.sequence]
             /\ down' = Written(down, target, packet)

RelayReads(conn) ==
    /\ up[conn] # <<>>
    /\ up' = [up EXCEPT ![conn] = Tail(@)]
    /\ \/ Head(up[conn]).kind = "REGISTER" /\ RegisterClient(conn) /\ UNCHANGED lastSequence
       \/ /\ Head(up[conn]).kind = "PACKET" /\ RoutePacket(conn, Head(up[conn]))
          /\ UNCHANGED <<rooms, clients, gone>>
    /\ UNCHANGED <<runtime, registration, faults, history>>

\* Mutant: the room keeps the place of a connection that ended.
KeepPlace(conn) == rooms

\* The close handler gives up the client's place in its room.
FreePlace(conn) == [rooms EXCEPT ![registration[conn]][conn[1]] = 0]

RelayCloses(conn) ==
    /\ conn \in gone \cap clients /\ up[conn] = <<>>
    /\ rooms' = FreePlace(conn)
    /\ clients' = clients \ {conn}
    /\ UNCHANGED <<runtime, wires, lastSequence, faults, history>>

Next ==
    \/ \E role \in Parties :
        \/ \E s \in Sessions : JoinRoom(role, s)
        \/ SetLimit(role) \/ RelayPayload(role) \/ ClientReads(role) \/ Breaks(role)
    \/ \E conn \in Connections : RelayReads(conn) \/ RelayCloses(conn)

Spec == Init /\ [][Next]_vars

\* Sockets deliver and report their end.
FairSpec ==
    /\ Spec
    /\ \A role \in Parties : WF_vars(ClientReads(role))
    /\ \A conn \in Connections : WF_vars(RelayReads(conn)) /\ WF_vars(RelayCloses(conn))
-----------------------------------------------------------------------------
(* Properties. *)

Keyed(role) == peerKey[role] # 0 /\ linked[role]
Together == session["buyer"] = session["seller"] /\ session["buyer"] # NoSession
KeysMatch == \A role \in Parties : peerKey[role] = joins[Peer(role)]

Frames ==
    [kind : {"REGISTER", "PACKET", "PEER_KEY", "ERROR"}, sequence : 0..(MaxJoins + MaxSent),
     keys : (0..MaxJoins) \X (0..MaxJoins),
     code : {"none", "ROLE_CONFLICT", "ROOM_MISMATCH", "REPLAY_REJECTED", "PEER_UNAVAILABLE"}]

\* Every variable keeps its type; a connection holds at most the one place in
\* the one room it registered for, and every place in a room is that of a
\* registered connection.
TypeOK ==
    /\ joins \in [Parties -> 0..MaxJoins] /\ peerKey \in [Parties -> 0..MaxJoins]
    /\ session \in [Parties -> Sessions \cup {NoSession}]
    /\ limited \in [Parties -> SUBSET Sessions]
    /\ linked \in [Parties -> BOOLEAN]
    /\ sent \in [Parties -> 0..MaxSent] /\ received \in [Parties -> 0..MaxSent]
    /\ \A conn \in Connections : up[conn] \in Seq(Frames) /\ down[conn] \in Seq(Frames)
    /\ gone \subseteq Connections /\ clients \subseteq Connections
    /\ registration \in [Connections -> Sessions \cup {NoSession}]
    /\ lastSequence \in [Connections -> 0..MaxSent]
    /\ faults \in 0..MaxFaults
    /\ \A s \in Sessions, role \in Parties : rooms[s][role] # 0 =>
            <<role, rooms[s][role]>> \in clients /\ registration[<<role, rooms[s][role]>>] = s
    /\ \A conn \in clients : rooms[registration[conn]][conn[1]] = conn[2]

\* Under one pair of keys a runtime accepts what its peer wrote, in order and
\* without a gap: when a packet is accepted, so was every earlier packet under
\* the same keys.  Lost connections, packets to a peer that is not there and
\* runtimes that move to another session leave no hole in the conversation.
AcceptedWithoutGap ==
    /\ accepted \subseteq outbox
    /\ \A taken \in accepted, other \in outbox :
        other[1] = taken[1] /\ other[2].keys = taken[2].keys
            /\ other[2].sequence < taken[2].sequence => other \in accepted

\* Two runtimes with a channel in the same session have the same shared key,
\* unless a new key is still on its way to one of them.
ChannelsAgree ==
    Together /\ Keyed("buyer") /\ Keyed("seller") =>
        \/ KeysMatch
        \/ \E role \in Parties : \E i \in 1..Len(down[Current(role)]) :
                down[Current(role)][i] = PeerKey(joins[Peer(role)])

\* The relay never turns down a packet of these clients as a replay or as one
\* of another room.
NoPacketRefused ==
    \A conn \in Connections : \A i \in 1..Len(down[conn]) :
        down[conn][i].code \notin {"ROOM_MISMATCH", "REPLAY_REJECTED"}

\* Two parties in the same session get a common key, or one of them is told
\* that its channel failed.  Being told is not being helped: after
\* ROLE_CONFLICT nothing registers again.
KeyedOrTold ==
    Together ~> (KeysMatch \/ told # {} \/ faults > 0 \/ ~Together)
=============================================================================
