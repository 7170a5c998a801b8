---------------------------- MODULE RoomRelayProofs ---------------------------
(***************************************************************************)
(* Theorems about the relay and the channels of the two runtimes, for any  *)
(* number of JOIN_ROOM commands, packets, broken connections and sessions: *)
(* the rooms and the registered connections say the same, no packet is     *)
(* refused as a replay, a conversation is accepted without a gap, and the  *)
(* two ends of a channel come to have the same key.                        *)
(*                                                                         *)
(* A conversation has no gap because the packets under one pair of keys    *)
(* are, in the order of their numbers, accepted, on their way down, on     *)
(* their way up, or cut off with the end of their connection; and a packet *)
(* that reaches the connection it was encrypted for is never skipped: the  *)
(* key in force when it is read is that of its sender.                     *)
(***************************************************************************)
EXTENDS RoomRelay, TLAPS

\* The frames of a queue, in whatever order.
FramesIn(queue) == {queue[i] : i \in 1..Len(queue)}

\* The two connections a packet of a role is encrypted between: its own, and
\* the one of its peer.
Own(role, packet) == IF role = "buyer" THEN packet.keys[1] ELSE packet.keys[2]
Other(role, packet) == IF role = "buyer" THEN packet.keys[2] ELSE packet.keys[1]

\* A JOIN_ROOM has opened the connection.
Opened(conn) == conn[2] <= joins[conn[1]]

\* The frames the clients write, and those the relay writes back.
Numbers == 1..MaxJoins
Packets == {Packet(n, keys) : n \in 1..MaxSent, keys \in Numbers \X Numbers}
UpFrames == {Register} \cup Packets
DownFrames ==
    Packets \cup {PeerKey(n) : n \in Numbers} \cup {Error("ROLE_CONFLICT"), Error("PEER_UNAVAILABLE")}

\* The types of the variables, with the frames each direction carries.
Types ==
    /\ joins \in [Parties -> 0..MaxJoins] /\ peerKey \in [Parties -> 0..MaxJoins]
    /\ session \in [Parties -> Sessions \cup {NoSession}]
    /\ limited \in [Parties -> SUBSET Sessions]
    /\ linked \in [Parties -> BOOLEAN]
    /\ sent \in [Parties -> 0..MaxSent] /\ received \in [Parties -> 0..MaxSent]
    /\ up \in [Connections -> Seq(UpFrames)] /\ down \in [Connections -> Seq(DownFrames)]
    /\ gone \subseteq Connections /\ clients \subseteq Connections
    /\ registration \in [Connections -> Sessions \cup {NoSession}]
    /\ rooms \in [Sessions -> [Parties -> 0..MaxJoins]]
    /\ lastSequence \in [Connections -> 0..MaxSent]
    /\ faults \in 0..MaxFaults
    /\ outbox \subseteq Parties \X Packets /\ accepted \subseteq outbox

\* The rooms and the registered connections say the same.
Places ==
    /\ \A s \in Sessions, role \in Parties : rooms[s][role] # 0 =>
            <<role, rooms[s][role]>> \in clients /\ registration[<<role, rooms[s][role]>>] = s
    /\ \A conn \in clients : rooms[registration[conn]][conn[1]] = conn[2]

\* What a connection is before it opens, and once it is not the current one.
OpenedInTurn ==
    \A conn \in Connections :
        IF Opened(conn)
        THEN /\ registration[conn] \in Sessions
             /\ conn # Current(conn[1]) \/ ~linked[conn[1]] => conn \in gone
             /\ conn = Current(conn[1]) => registration[conn] = session[conn[1]]
        ELSE /\ up[conn] = <<>> /\ down[conn] = <<>> /\ lastSequence[conn] = 0
             /\ conn \notin gone \cup clients

\* A runtime with a socket has joined.
LinkedIsOpen == \A role \in Parties : linked[role] => joins[role] # 0

\* A connection registers once, before anything else.
RegistersOnce ==
    \A conn \in Connections :
        /\ Register \in FramesIn(up[conn]) =>
              up[conn] = <<Register>> /\ conn \notin clients /\ down[conn] = <<>>
        /\ FramesIn(up[conn]) \cap Packets # {} => conn \in clients
        /\ FramesIn(down[conn]) \ {Error("ROLE_CONFLICT")} # {} => conn \in clients
        /\ Error("ROLE_CONFLICT") \in FramesIn(down[conn]) => conn \in gone \ clients

\* A registered connection that is gone is one its client destroyed.
GoneIsDestroyed ==
    \A conn \in gone :
        conn \in clients \/ Register \in FramesIn(up[conn]) =>
            down[conn] = <<>> /\ ~(linked[conn[1]] /\ conn = Current(conn[1]))

\* The connection n of the other role was registered in the same room.
Met(conn, n) ==
    LET peer == <<Peer(conn[1]), n>>
    IN  /\ peer \in Connections /\ Opened(peer)
        /\ registration[peer] = registration[conn]
        /\ Register \notin FramesIn(up[peer])

\* A key that a runtime has, or that is on its way to it, is that of a
\* connection it was in one room with.
KeysAreMet ==
    /\ \A role \in Parties : peerKey[role] # 0 =>
          joins[role] # 0 /\ Met(Current(role), peerKey[role]) /\ (linked[role] => Current(role) \in clients)
    /\ \A conn \in Connections, n \in Numbers : PeerKey(n) \in FramesIn(down[conn]) => Met(conn, n)

\* A packet is written between two connections that met, in a session whose
\* limit is locked: its sender never opens another connection for it.
PacketsAreMet ==
    \A role \in Parties, packet \in Packets : <<role, packet>> \in outbox =>
        LET conn == <<role, Own(role, packet)>>
        IN  /\ Opened(conn) /\ Met(conn, Other(role, packet))
            /\ registration[conn] \in limited[role]
            /\ conn = Current(role) => packet.sequence <= sent[role]
            /\ \A n \in Numbers : Own(role, packet) < n /\ n <= joins[role] =>
                  registration[<<role, n>>] # registration[conn]

\* A packet on its way was written by the runtime it comes from.
PacketsAreWritten ==
    \A conn \in Connections, packet \in Packets :
        /\ packet \in FramesIn(up[conn]) =>
              <<conn[1], packet>> \in outbox /\ Own(conn[1], packet) = conn[2]
        /\ packet \in FramesIn(down[conn]) => <<Peer(conn[1]), packet>> \in outbox

\* The packets of one connection of a role are in the order of their numbers.
Rising(role, queue) ==
    \A i, j \in 1..Len(queue) :
        i < j /\ queue[i] \in Packets /\ queue[j] \in Packets
            /\ Own(role, queue[i]) = Own(role, queue[j]) => queue[i].sequence < queue[j].sequence

\* What is on its way up is newer than what the relay routed last, and that is
\* no older than what is on its way down or accepted.
InOrder ==
    /\ \A conn \in Connections :
          Rising(conn[1], up[conn]) /\ Rising(Peer(conn[1]), down[conn])
    /\ \A conn \in Connections, packet \in Packets :
          /\ packet \in FramesIn(up[conn]) => lastSequence[conn] < packet.sequence
          /\ packet \in FramesIn(down[conn]) =>
                packet.sequence <= lastSequence[<<Peer(conn[1]), Own(Peer(conn[1]), packet)>>]
    /\ \A role \in Parties, packet \in Packets : <<role, packet>> \in accepted =>
          packet.sequence <= lastSequence[<<role, Own(role, packet)>>]
    /\ \A role \in Parties : joins[role] # 0 => lastSequence[Current(role)] <= sent[role]

\* What is accepted is older than what is on its way under the same keys.
AcceptedFirst ==
    \A conn \in Connections, packet, taken \in Packets :
        /\ packet \in FramesIn(down[conn]) /\ <<Peer(conn[1]), taken>> \in accepted
        /\ taken.keys = packet.keys
        => taken.sequence < packet.sequence

\* The key in force before frame i of a queue, when key was in force at its head.
InForce(key, queue, i, n) ==
    \E j \in 0..(i - 1) :
        /\ IF j = 0 THEN key = n ELSE queue[j] = PeerKey(n)
        /\ \A k \in (j + 1)..(i - 1) : queue[k].kind # "PEER_KEY"

\* The key in force at a packet is its sender's, and the key in force at the end
\* of a queue is that of the connection that is registered now.
KeysInForce ==
    \A conn \in Connections :
        /\ \A i \in 1..Len(down[conn]) :
              down[conn][i] \in Packets /\ Other(Peer(conn[1]), down[conn][i]) = conn[2] =>
                InForce(peerKey[conn[1]], down[conn], i, Own(Peer(conn[1]), down[conn][i]))
        /\ \A n \in Numbers :
              /\ conn \in clients \ gone /\ <<Peer(conn[1]), n>> \in clients
              /\ registration[<<Peer(conn[1]), n>>] = registration[conn]
              => InForce(peerKey[conn[1]], down[conn], Len(down[conn]) + 1, n)

\* receivedSequence is the number of an accepted packet of the connection.
ReceivedIsAccepted ==
    \A role \in Parties : received[role] # 0 =>
        \E packet \in Packets :
            /\ <<Peer(role), packet>> \in accepted /\ packet.sequence = received[role]
            /\ Other(Peer(role), packet) = joins[role]

\* A packet of a connection that is gone which the relay will not see.
CutOff(conn, packet) ==
    /\ conn \in gone /\ lastSequence[conn] < packet.sequence
    /\ \A other \in FramesIn(up[conn]) \cap Packets : other.sequence < packet.sequence

\* A packet to a connection that works is accepted, on its way or cut off.
NothingLost ==
    \A role \in Parties, packet \in Packets :
        LET conn == <<role, Own(role, packet)>>
            peer == <<Peer(role), Other(role, packet)>>
        IN  <<role, packet>> \in outbox /\ peer \in clients \ gone =>
                \/ <<role, packet>> \in accepted
                \/ packet \in FramesIn(down[peer]) \cup FramesIn(up[conn])
                \/ CutOff(conn, packet)

\* The inductive invariant.
RelayInv ==
    /\ Types /\ Places /\ OpenedInTurn /\ LinkedIsOpen /\ RegistersOnce /\ GoneIsDestroyed
    /\ KeysAreMet /\ PacketsAreMet /\ PacketsAreWritten /\ InOrder /\ AcceptedFirst
    /\ KeysInForce /\ ReceivedIsAccepted /\ NothingLost /\ AcceptedWithoutGap

-----------------------------------------------------------------------------
(* Frames. *)

\* The fields of a packet.
LEMMA PacketFields ==
    \A packet \in Packets :
        /\ packet.kind = "PACKET" /\ packet.code = "none"
        /\ packet.sequence \in 1..MaxSent /\ packet.keys \in Numbers \X Numbers
        /\ packet.sequence \in Nat
  BY BoundsAreNaturals DEF Packets, Packet

\* A packet is encrypted between a connection of each role.
LEMMA OwnAndOther ==
    ASSUME NEW role \in Parties, NEW packet \in Packets
    PROVE  /\ Own(role, packet) \in Numbers /\ Other(role, packet) \in Numbers
           /\ Own(Peer(role), packet) = Other(role, packet)
           /\ Other(Peer(role), packet) = Own(role, packet)
           /\ \A n \in Numbers : <<role, n>> \in Connections
  BY PacketFields DEF Own, Other, Peer, Parties, Connections, Numbers

\* Two packets have the same keys when they are between the same connections.
LEMMA SameKeys ==
    ASSUME NEW role \in Parties, NEW packet \in Packets, NEW packet2 \in Packets
    PROVE  packet.keys = packet2.keys <=>
              Own(role, packet) = Own(role, packet2) /\ Other(role, packet) = Other(role, packet2)
<1>1. packet.keys = <<packet.keys[1], packet.keys[2]>> /\ packet2.keys = <<packet2.keys[1], packet2.keys[2]>>
  BY PacketFields
<1> QED
  BY <1>1 DEF Own, Other, Parties

\* There are two roles, each the peer of the other.
LEMMA PeerFacts ==
    /\ \A role \in Parties : Peer(role) \in Parties /\ Peer(Peer(role)) = role /\ Peer(role) # role
    /\ \A role, other \in Parties : other = role \/ other = Peer(role)
  BY DEF Parties, Peer

\* A connection is its role and the number of its JOIN_ROOM.
LEMMA ConnectionFacts ==
    /\ \A conn \in Connections :
          /\ conn[1] \in Parties /\ conn[2] \in Numbers /\ conn = <<conn[1], conn[2]>>
          /\ <<Peer(conn[1]), conn[2]>> \in Connections
    /\ \A role \in Parties, n \in Numbers : <<role, n>> \in Connections
  BY PeerFacts DEF Connections, Numbers

\* No connection has the number 0, which stands for none.
LEMMA NumbersArePositive ==
    /\ \A n \in Numbers : n \in Nat /\ n # 0
    /\ \A conn \in Connections : conn[2] \in Nat /\ conn[2] # 0
<1>1. \A n \in Numbers : n \in Nat /\ n # 0
  BY BoundsAreNaturals DEF Numbers
<1> QED
  BY <1>1, ConnectionFacts

\* The frames the relay and the clients write are told apart by their kind.
LEMMA FrameKinds ==
    /\ Register.kind = "REGISTER" /\ Register \notin Packets
    /\ \A n \in Numbers : PeerKey(n).kind = "PEER_KEY" /\ PeerKey(n).sequence = n
          /\ PeerKey(n) \notin Packets
    /\ \A code \in {"ROLE_CONFLICT", "PEER_UNAVAILABLE"} :
          Error(code).kind = "ERROR" /\ Error(code).code = code /\ Error(code) \notin Packets
    /\ \A frame \in UpFrames :
          /\ frame.kind = "REGISTER" => frame = Register
          /\ frame.kind = "PACKET" => frame \in Packets
    /\ \A frame \in DownFrames :
          /\ frame.kind = "PACKET" => frame \in Packets
          /\ frame.kind = "PEER_KEY" => frame.sequence \in Numbers /\ frame = PeerKey(frame.sequence)
          /\ frame.kind = "ERROR" =>
                frame \in {Error("ROLE_CONFLICT"), Error("PEER_UNAVAILABLE")}
          /\ frame.code \notin {"ROOM_MISMATCH", "REPLAY_REJECTED"}
<1>1. Register.kind = "REGISTER" /\ Register \notin Packets
  BY PacketFields DEF Register
<1>2. \A n \in Numbers : PeerKey(n).kind = "PEER_KEY" /\ PeerKey(n).sequence = n
          /\ PeerKey(n) \notin Packets /\ PeerKey(n).code = "none"
  BY PacketFields DEF PeerKey
<1>3. \A code \in {"ROLE_CONFLICT", "PEER_UNAVAILABLE"} :
          Error(code).kind = "ERROR" /\ Error(code).code = code /\ Error(code) \notin Packets
  BY PacketFields DEF Error
<1>4. ASSUME NEW frame \in UpFrames
      PROVE  /\ frame.kind = "REGISTER" => frame = Register
             /\ frame.kind = "PACKET" => frame \in Packets
  BY <1>1, PacketFields DEF UpFrames
<1>5. ASSUME NEW frame \in DownFrames
      PROVE  /\ frame.kind = "PACKET" => frame \in Packets
             /\ frame.kind = "PEER_KEY" => frame.sequence \in Numbers /\ frame = PeerKey(frame.sequence)
             /\ frame.kind = "ERROR" =>
                   frame \in {Error("ROLE_CONFLICT"), Error("PEER_UNAVAILABLE")}
             /\ frame.code \notin {"ROOM_MISMATCH", "REPLAY_REJECTED"}
  <2>1. CASE frame \in Packets
    BY <2>1, PacketFields
  <2>2. CASE \E n \in Numbers : frame = PeerKey(n)
    BY <1>2, <2>2
  <2>3. CASE frame \in {Error("ROLE_CONFLICT"), Error("PEER_UNAVAILABLE")}
    BY <1>3, <2>3
  <2> QED
    BY <2>1, <2>2, <2>3 DEF DownFrames
<1> QED
  BY <1>1, <1>2, <1>3, <1>4, <1>5

-----------------------------------------------------------------------------
(* Queues. *)

\* A frame is written at the end of a queue.
LEMMA AppendFrames ==
    ASSUME NEW S, NEW queue \in Seq(S), NEW frame \in S
    PROVE  /\ Append(queue, frame) \in Seq(S)
           /\ FramesIn(Append(queue, frame)) = FramesIn(queue) \cup {frame}
           /\ Len(Append(queue, frame)) = Len(queue) + 1 /\ Len(queue) \in Nat
           /\ \A i \in 1..Len(queue) : Append(queue, frame)[i] = queue[i]
           /\ Append(queue, frame)[Len(queue) + 1] = frame
<1>1. /\ Append(queue, frame) \in Seq(S)
      /\ Len(Append(queue, frame)) = Len(queue) + 1 /\ Len(queue) \in Nat
      /\ \A i \in 1..Len(queue) : Append(queue, frame)[i] = queue[i]
      /\ Append(queue, frame)[Len(queue) + 1] = frame
  OBVIOUS
<1> DEFINE longer == Append(queue, frame)
<1> HIDE DEF longer
<1>2. FramesIn(longer) = FramesIn(queue) \cup {frame}
  BY <1>1 DEF FramesIn, longer
<1> QED
  BY <1>1, <1>2 DEF longer

\* A frame is read from the head of a queue.
LEMMA TailFrames ==
    ASSUME NEW S, NEW queue \in Seq(S), queue # <<>>
    PROVE  /\ Tail(queue) \in Seq(S) /\ Head(queue) \in S
           /\ Head(queue) = queue[1] /\ Len(queue) \in Nat \ {0}
           /\ Len(Tail(queue)) = Len(queue) - 1
           /\ \A i \in 1..Len(Tail(queue)) : Tail(queue)[i] = queue[i + 1]
           /\ FramesIn(queue) = FramesIn(Tail(queue)) \cup {Head(queue)}
<1>1. /\ Tail(queue) \in Seq(S) /\ Head(queue) \in S
      /\ Head(queue) = queue[1] /\ Len(queue) \in Nat \ {0}
      /\ Len(Tail(queue)) = Len(queue) - 1
      /\ \A i \in 1..Len(Tail(queue)) : Tail(queue)[i] = queue[i + 1]
  OBVIOUS
<1> DEFINE rest == Tail(queue)
<1>2. /\ Len(rest) = Len(queue) - 1
      /\ \A i \in 1..Len(rest) : rest[i] = queue[i + 1]
  BY <1>1
<1> HIDE DEF rest
<1>3. FramesIn(queue) \subseteq FramesIn(rest) \cup {queue[1]}
  <2> SUFFICES ASSUME NEW i \in 1..Len(queue) PROVE queue[i] \in FramesIn(rest) \cup {queue[1]}
    BY DEF FramesIn
  <2>1. i # 1 => i - 1 \in 1..Len(rest) /\ rest[i - 1] = queue[i]
    BY <1>1, <1>2
  <2> QED
    BY <2>1 DEF FramesIn
<1>4. FramesIn(rest) \cup {queue[1]} \subseteq FramesIn(queue)
  BY <1>1, <1>2 DEF FramesIn
<1> QED
  BY <1>1, <1>3, <1>4 DEF rest

\* A destroyed socket keeps the first frames of a queue.
LEMMA CutFrames ==
    ASSUME NEW S, NEW queue \in Seq(S), NEW kept \in 0..Len(queue)
    PROVE  /\ SubSeq(queue, 1, kept) \in Seq(S)
           /\ Len(SubSeq(queue, 1, kept)) = kept
           /\ \A i \in 1..kept : SubSeq(queue, 1, kept)[i] = queue[i]
           /\ FramesIn(SubSeq(queue, 1, kept)) \subseteq FramesIn(queue)
<1>1. /\ SubSeq(queue, 1, kept) \in Seq(S)
      /\ Len(SubSeq(queue, 1, kept)) = kept
      /\ \A i \in 1..kept : SubSeq(queue, 1, kept)[i] = queue[i]
  OBVIOUS
<1> DEFINE cut == SubSeq(queue, 1, kept)
<1> HIDE DEF cut
<1>2. FramesIn(cut) \subseteq FramesIn(queue)
  BY <1>1 DEF cut, FramesIn
<1> QED
  BY <1>1, <1>2 DEF cut

\* The queues without a frame, and with the registration alone.
LEMMA NoFrames ==
    ASSUME NEW S, NEW queue \in Seq(S)
    PROVE  /\ FramesIn(<<>>) = {} /\ (FramesIn(queue) = {} => queue = <<>>)
           /\ FramesIn(<<Register>>) = {Register}
<1>1. FramesIn(<<>>) = {}
  BY DEF FramesIn
<1>2. queue # <<>> => queue[1] \in FramesIn(queue)
  BY DEF FramesIn
<1>3. FramesIn(<<Register>>) = {Register}
  BY DEF FramesIn
<1> QED
  BY <1>1, <1>2, <1>3

\* A queue without packets is in order.
LEMMA NoPackets ==
    ASSUME NEW queue, FramesIn(queue) \cap Packets = {}
    PROVE  (\A i \in 1..Len(queue) : queue[i] \notin Packets) /\ \A role : Rising(role, queue)
<1>1. \A i \in 1..Len(queue) : queue[i] \notin Packets
  BY DEF FramesIn
<1> QED
  BY <1>1 DEF Rising

\* A packet with a higher number keeps a queue in order.
LEMMA RisingAppend ==
    ASSUME NEW S, NEW queue \in Seq(S), NEW frame \in S, NEW role, Rising(role, queue),
           frame \in Packets => \A other \in FramesIn(queue) \cap Packets :
              Own(role, other) = Own(role, frame) => other.sequence < frame.sequence
    PROVE  Rising(role, Append(queue, frame))
<1> DEFINE longer == Append(queue, frame)
<1>1. /\ Len(longer) = Len(queue) + 1 /\ Len(queue) \in Nat
      /\ \A i \in 1..Len(queue) : longer[i] = queue[i]
      /\ longer[Len(queue) + 1] = frame
  BY AppendFrames
<1> HIDE DEF longer
<1> SUFFICES ASSUME NEW i \in 1..Len(longer), NEW j \in 1..Len(longer), i < j,
                    longer[i] \in Packets, longer[j] \in Packets,
                    Own(role, longer[i]) = Own(role, longer[j])
             PROVE  longer[i].sequence < longer[j].sequence
  BY DEF Rising, longer
<1>2. i \in 1..Len(queue) /\ longer[i] = queue[i]
  BY <1>1
<1>3. CASE j \in 1..Len(queue)
  BY <1>1, <1>2, <1>3 DEF Rising
<1>4. CASE j = Len(queue) + 1
  BY <1>1, <1>2, <1>4 DEF FramesIn
<1> QED
  BY <1>1, <1>3, <1>4

\* The packets behind the head have higher numbers.
LEMMA RisingTail ==
    ASSUME NEW S, NEW queue \in Seq(S), queue # <<>>, NEW role, Rising(role, queue)
    PROVE  /\ Rising(role, Tail(queue))
           /\ Head(queue) \in Packets => \A other \in FramesIn(Tail(queue)) \cap Packets :
                 Own(role, other) = Own(role, Head(queue)) => Head(queue).sequence < other.sequence
<1> DEFINE rest == Tail(queue)
<1>1. /\ Head(queue) = queue[1] /\ Len(queue) \in Nat \ {0}
      /\ Len(rest) = Len(queue) - 1
      /\ \A i \in 1..Len(rest) : rest[i] = queue[i + 1]
  BY TailFrames
<1> HIDE DEF rest
<1>2. Rising(role, rest)
  BY <1>1 DEF Rising
<1>3. ASSUME Head(queue) \in Packets, NEW other \in FramesIn(rest) \cap Packets,
             Own(role, other) = Own(role, Head(queue))
      PROVE  Head(queue).sequence < other.sequence
  <2>1. PICK i \in 1..Len(rest) : other = rest[i]
    BY <1>3 DEF FramesIn
  <2>2. other = queue[i + 1] /\ i + 1 \in 1..Len(queue) /\ 1 \in 1..Len(queue) /\ 1 < i + 1
    BY <1>1, <2>1
  <2> QED
    BY <1>1, <1>3, <2>2 DEF Rising
<1> QED
  BY <1>2, <1>3 DEF rest

\* What a cut leaves is older than what it takes away.
LEMMA RisingCut ==
    ASSUME NEW S, NEW queue \in Seq(S), NEW kept \in 0..Len(queue), NEW role, Rising(role, queue)
    PROVE  /\ Rising(role, SubSeq(queue, 1, kept))
           /\ \A lost \in (FramesIn(queue) \ FramesIn(SubSeq(queue, 1, kept))) \cap Packets :
              \A other \in FramesIn(SubSeq(queue, 1, kept)) \cap Packets :
                 Own(role, other) = Own(role, lost) => other.sequence < lost.sequence
<1> DEFINE cut == SubSeq(queue, 1, kept)
<1>1. Len(cut) = kept /\ \A i \in 1..kept : cut[i] = queue[i]
  BY CutFrames
<1>1a. Len(queue) \in Nat /\ kept \in Nat /\ kept <= Len(queue)
  OBVIOUS
<1> HIDE DEF cut
<1>2. Rising(role, cut)
  BY <1>1, <1>1a DEF Rising
<1>3. ASSUME NEW lost \in (FramesIn(queue) \ FramesIn(cut)) \cap Packets,
             NEW other \in FramesIn(cut) \cap Packets, Own(role, other) = Own(role, lost)
      PROVE  other.sequence < lost.sequence
  <2>1. PICK i \in 1..kept : other = cut[i]
    BY <1>1, <1>3 DEF FramesIn
  <2>2. PICK j \in 1..Len(queue) : lost = queue[j]
    BY <1>3 DEF FramesIn
  <2>3. ~(j <= kept)
    BY <1>1, <1>1a, <1>3, <2>2 DEF FramesIn
  <2>4. other = queue[i] /\ i \in 1..Len(queue) /\ i < j
    BY <1>1, <1>1a, <2>1, <2>2, <2>3
  <2> QED
    BY <1>3, <2>2, <2>4 DEF Rising
<1> QED
  BY <1>2, <1>3 DEF cut

\* A frame at the end of a queue leaves the keys before it in force, and is the
\* one in force behind it when it is a key.
LEMMA InForceAppend ==
    ASSUME NEW S, NEW queue \in Seq(S), NEW frame \in S, NEW key, NEW n
    PROVE  /\ \A i \in 1..(Len(queue) + 1) :
                 InForce(key, queue, i, n) => InForce(key, Append(queue, frame), i, n)
           /\ frame.kind # "PEER_KEY" /\ InForce(key, queue, Len(queue) + 1, n) =>
                 InForce(key, Append(queue, frame), Len(queue) + 2, n)
           /\ frame = PeerKey(n) => InForce(key, Append(queue, frame), Len(queue) + 2, n)
<1> DEFINE longer == Append(queue, frame)
<1>1. /\ Len(longer) = Len(queue) + 1 /\ Len(queue) \in Nat
      /\ \A i \in 1..Len(queue) : longer[i] = queue[i]
      /\ longer[Len(queue) + 1] = frame
  BY AppendFrames
<1> HIDE DEF longer
<1>2. ASSUME NEW i \in 1..(Len(queue) + 1), InForce(key, queue, i, n)
      PROVE  InForce(key, longer, i, n)
  <2>1. PICK j \in 0..(i - 1) :
           /\ IF j = 0 THEN key = n ELSE queue[j] = PeerKey(n)
           /\ \A k \in (j + 1)..(i - 1) : queue[k].kind # "PEER_KEY"
    BY <1>2 DEF InForce
  <2>2. \A k \in (j + 1)..(i - 1) : longer[k] = queue[k]
    BY <1>1
  <2>3. j # 0 => longer[j] = queue[j]
    BY <1>1
  <2>4. \A k \in (j + 1)..(i - 1) : longer[k].kind # "PEER_KEY"
    BY <2>1, <2>2
  <2> QED
    BY <2>1, <2>3, <2>4 DEF InForce
<1>3. ASSUME frame.kind # "PEER_KEY", InForce(key, queue, Len(queue) + 1, n)
      PROVE  InForce(key, longer, Len(queue) + 2, n)
  <2>1. PICK j \in 0..(Len(queue) + 1 - 1) :
           /\ IF j = 0 THEN key = n ELSE queue[j] = PeerKey(n)
           /\ \A k \in (j + 1)..(Len(queue) + 1 - 1) : queue[k].kind # "PEER_KEY"
    BY <1>3 DEF InForce
  <2>2. \A k \in (j + 1)..(Len(queue) + 2 - 1) : longer[k].kind # "PEER_KEY"
    <3> SUFFICES ASSUME NEW k \in (j + 1)..(Len(queue) + 2 - 1) PROVE longer[k].kind # "PEER_KEY"
      OBVIOUS
    <3>1. CASE k = Len(queue) + 1
      BY <1>1, <1>3, <3>1
    <3>2. CASE k \in (j + 1)..(Len(queue) + 1 - 1)
      BY <1>1, <2>1, <3>2
    <3> QED
      BY <1>1, <3>1, <3>2
  <2>3. (IF j = 0 THEN key = n ELSE longer[j] = PeerKey(n)) /\ j \in 0..(Len(queue) + 2 - 1)
    BY <1>1, <2>1
  <2> QED
    BY <2>2, <2>3 DEF InForce
<1>4. ASSUME frame = PeerKey(n) PROVE InForce(key, longer, Len(queue) + 2, n)
  <2>1. /\ Len(queue) + 1 \in 0..(Len(queue) + 2 - 1) /\ Len(queue) + 1 # 0
        /\ longer[Len(queue) + 1] = PeerKey(n)
        /\ (Len(queue) + 1 + 1)..(Len(queue) + 2 - 1) = {}
    BY <1>1, <1>4
  <2> QED
    BY <2>1 DEF InForce
<1> QED
  BY <1>2, <1>3, <1>4 DEF longer

\* Reading the head of a queue leaves the keys in force behind it.
LEMMA InForceTail ==
    ASSUME NEW S, NEW queue \in Seq(S), queue # <<>>, NEW key, NEW key2, NEW n,
           NEW i \in 1..Len(Tail(queue)) + 1, InForce(key, queue, i + 1, n),
           Head(queue) = PeerKey(n) => key2 = n,
           Head(queue).kind # "PEER_KEY" => key2 = key
    PROVE  InForce(key2, Tail(queue), i, n)
<1> DEFINE rest == Tail(queue)
<1>1. /\ Head(queue) = queue[1] /\ Len(queue) \in Nat \ {0}
      /\ Len(rest) = Len(queue) - 1
      /\ \A k \in 1..Len(rest) : rest[k] = queue[k + 1]
  BY TailFrames
<1>1a. i \in Nat \ {0} /\ i <= Len(rest) + 1 /\ i <= Len(queue)
  BY <1>1
<1> HIDE DEF rest
<1>2. PICK j \in 0..(i + 1 - 1) :
           /\ IF j = 0 THEN key = n ELSE queue[j] = PeerKey(n)
           /\ \A k \in (j + 1)..(i + 1 - 1) : queue[k].kind # "PEER_KEY"
  BY DEF InForce
<1>2a. \A k \in 1..(i - 1) : j < k + 1 => rest[k].kind # "PEER_KEY"
  BY <1>1, <1>1a, <1>2
<1>3. CASE j = 0
  <2>1. key = n /\ Head(queue).kind # "PEER_KEY"
    BY <1>1, <1>1a, <1>2, <1>3
  <2>2. 0 \in 0..(i - 1) /\ key2 = n /\ \A k \in (0 + 1)..(i - 1) : rest[k].kind # "PEER_KEY"
    BY <1>1a, <1>2a, <1>3, <2>1
  <2> QED
    BY <2>2 DEF InForce, rest
<1>4. CASE j = 1
  <2>1. 0 \in 0..(i - 1) /\ key2 = n /\ \A k \in (0 + 1)..(i - 1) : rest[k].kind # "PEER_KEY"
    BY <1>1, <1>1a, <1>2, <1>2a, <1>4
  <2> QED
    BY <2>1 DEF InForce, rest
<1>5. CASE j > 1
  <2>1. /\ j - 1 \in 0..(i - 1) /\ j - 1 # 0 /\ rest[j - 1] = PeerKey(n)
        /\ \A k \in ((j - 1) + 1)..(i - 1) : rest[k].kind # "PEER_KEY"
    BY <1>1, <1>1a, <1>2, <1>2a, <1>5
  <2> QED
    BY <2>1 DEF InForce, rest
<1> QED
  BY <1>3, <1>4, <1>5

\* At the head of a queue the key of the runtime is in force.
LEMMA InForceAtHead ==
    ASSUME NEW queue, NEW key, NEW n, InForce(key, queue, 1, n)
    PROVE  key = n
  BY DEF InForce

\* The key in force at the end is that of the runtime or on its way.
LEMMA InForceAtEnd ==
    ASSUME NEW S, NEW queue \in Seq(S), NEW key, NEW n, InForce(key, queue, Len(queue) + 1, n)
    PROVE  key = n \/ \E i \in 1..Len(queue) : queue[i] = PeerKey(n)
<1>1. PICK j \in 0..(Len(queue) + 1 - 1) : IF j = 0 THEN key = n ELSE queue[j] = PeerKey(n)
  BY DEF InForce
<1> QED
  BY <1>1

-----------------------------------------------------------------------------
(* The invariant. *)

\* Before the first JOIN_ROOM there is nothing that could go wrong.
LEMMA RelayInitInv == Init => RelayInv
<1> SUFFICES ASSUME Init PROVE RelayInv
  OBVIOUS
<1>1. \A conn \in Connections : up[conn] = <<>> /\ down[conn] = <<>> /\ ~Opened(conn)
  <2> TAKE conn \in Connections
  <2>1. conn[1] \in Parties /\ conn[2] \in 1..MaxJoins
    BY ConnectionFacts DEF Numbers
  <2>2. joins[conn[1]] = 0
    BY <2>1 DEF Init
  <2>3. ~(conn[2] <= 0)
    BY <2>1, BoundsAreNaturals
  <2> QED
    BY <2>2, <2>3 DEF Init, Opened
<1>2. FramesIn(<<>>) = {} /\ Len(<<>>) = 0
  BY DEF FramesIn
<1>3. Types
  BY BoundsAreNaturals DEF Init, Types
<1>4. Places /\ OpenedInTurn /\ LinkedIsOpen /\ GoneIsDestroyed /\ NothingLost
  BY <1>1 DEF Init, Places, OpenedInTurn, LinkedIsOpen, GoneIsDestroyed, NothingLost
<1>5. RegistersOnce /\ KeysAreMet /\ PacketsAreMet /\ PacketsAreWritten
  BY <1>1, <1>2 DEF Init, RegistersOnce, KeysAreMet, PacketsAreMet, PacketsAreWritten
<1>6. InOrder /\ AcceptedFirst /\ KeysInForce
  BY <1>1, <1>2 DEF Init, InOrder, AcceptedFirst, KeysInForce, Rising
<1>7. ReceivedIsAccepted /\ AcceptedWithoutGap
  BY DEF Init, ReceivedIsAccepted, AcceptedWithoutGap
<1> QED
  BY <1>3, <1>4, <1>5, <1>6, <1>7 DEF RelayInv

\* Two connections that met stay so: a registration does not change and no
\* connection registers again.
Onward ==
    \A conn \in Connections : Opened(conn) =>
        /\ conn[2] <= joins'[conn[1]]
        /\ registration'[conn] = registration[conn]
        /\ Register \in FramesIn(up'[conn]) => Register \in FramesIn(up[conn])

\* What Onward is for.
LEMMA MetStays ==
    ASSUME Onward, NEW conn, NEW n, Met(conn, n), registration'[conn] = registration[conn]
    PROVE  Met(conn, n)'
<1> DEFINE peer == <<Peer(conn[1]), n>>
<1>1. /\ peer \in Connections /\ Opened(peer) /\ registration[peer] = registration[conn]
      /\ Register \notin FramesIn(up[peer])
  BY DEF Met
<1>2. /\ peer[2] <= joins'[peer[1]] /\ registration'[peer] = registration[peer]
      /\ Register \notin FramesIn(up'[peer])
  BY <1>1 DEF Onward
<1> QED
  BY <1>1, <1>2 DEF Met, Opened

\* The limit is locked: the packets of the session may follow.
LEMMA SetLimitKeeps ==
    ASSUME RelayInv, NEW role \in Parties, SetLimit(role)
    PROVE  RelayInv'
<1> USE DEF RelayInv, wires, relay, history
<1>1. /\ UNCHANGED <<joins, session, linked, peerKey, sent, received, wires, relay, faults, history>>
      /\ limited' \in [Parties -> SUBSET Sessions]
      /\ \A r \in Parties : limited[r] \subseteq limited'[r]
  BY DEF SetLimit, Types
<1>2. Types'
  BY <1>1 DEF Types
<1>3. PacketsAreMet'
  BY <1>1 DEF PacketsAreMet, Met, Opened, Current
<1>4. Places' /\ OpenedInTurn' /\ LinkedIsOpen' /\ RegistersOnce' /\ GoneIsDestroyed'
  BY <1>1 DEF Places, OpenedInTurn, LinkedIsOpen, RegistersOnce, GoneIsDestroyed, Opened, Current
<1>5. KeysAreMet' /\ PacketsAreWritten' /\ InOrder' /\ AcceptedFirst'
  BY <1>1 DEF KeysAreMet, PacketsAreWritten, InOrder, AcceptedFirst, Met, Opened, Current
<1>6. KeysInForce' /\ ReceivedIsAccepted' /\ AcceptedWithoutGap'
  BY <1>1 DEF KeysInForce, ReceivedIsAccepted, AcceptedWithoutGap
<1>7. NothingLost'
  BY <1>1 DEF NothingLost, CutOff
<1> QED
  BY <1>2, <1>3, <1>4, <1>5, <1>6, <1>7

\* A connection that ends leaves its place, and had nothing on its way.
LEMMA RelayClosesKeeps ==
    ASSUME RelayInv, NEW conn \in Connections, RelayCloses(conn)
    PROVE  RelayInv'
<1> USE DEF RelayInv, runtime, wires, history
<1>1. /\ UNCHANGED <<runtime, wires, lastSequence, faults, history>>
      /\ conn \in gone \cap clients /\ up[conn] = <<>> /\ clients' = clients \ {conn}
      /\ rooms' = [rooms EXCEPT ![registration[conn]][conn[1]] = 0]
  BY DEF RelayCloses, FreePlace
<1>2. /\ down[conn] = <<>> /\ ~(linked[conn[1]] /\ conn = Current(conn[1]))
      /\ FramesIn(up[conn]) = {} /\ FramesIn(down[conn]) = {}
  BY <1>1 DEF GoneIsDestroyed, FramesIn
<1>3. registration[conn] \in Sessions /\ conn[1] \in Parties
  BY <1>1, ConnectionFacts DEF OpenedInTurn
<1>4. /\ rooms' \in [Sessions -> [Parties -> 0..MaxJoins]]
      /\ \A s \in Sessions, role \in Parties : rooms'[s][role] =
            IF s = registration[conn] /\ role = conn[1] THEN 0 ELSE rooms[s][role]
  <2>1. rooms \in [Sessions -> [Parties -> 0..MaxJoins]] /\ 0 \in 0..MaxJoins
    BY BoundsAreNaturals DEF Types
  <2> HIDE DEF RelayInv
  <2> QED
    BY <1>1, <1>3, <2>1
<1>5. Types'
  BY <1>1, <1>4 DEF Types
<1>6. Places'
  <2>1. ASSUME NEW s \in Sessions, NEW role \in Parties, rooms'[s][role] # 0
        PROVE  <<role, rooms'[s][role]>> \in clients' /\ registration'[<<role, rooms'[s][role]>>] = s
    <3>1. rooms'[s][role] = rooms[s][role] /\ rooms[s][role] # 0
              /\ ~(s = registration[conn] /\ role = conn[1])
      BY <1>4, <2>1
    <3>2. <<role, rooms[s][role]>> \in clients /\ registration[<<role, rooms[s][role]>>] = s
      BY <3>1 DEF Places
    <3>3. <<role, rooms[s][role]>> # conn
      BY <3>1, <3>2
    <3> QED
      BY <1>1, <3>1, <3>2, <3>3
  <2>2. ASSUME NEW other \in clients' PROVE rooms'[registration'[other]][other[1]] = other[2]
    <3>1. other \in clients /\ other # conn /\ other \in Connections
      BY <1>1, <2>2 DEF Types
    <3>2. registration[other] \in Sessions
      BY <3>1 DEF OpenedInTurn
    <3>3. rooms[registration[other]][other[1]] = other[2] /\ rooms[registration[conn]][conn[1]] = conn[2]
      BY <1>1, <3>1 DEF Places
    <3>4. ~(registration[other] = registration[conn] /\ other[1] = conn[1])
      BY <3>1, <3>3, ConnectionFacts
    <3> QED
      BY <1>1, <1>4, <3>1, <3>2, <3>3, <3>4, ConnectionFacts
  <2> QED
    BY <2>1, <2>2 DEF Places
<1>7. OpenedInTurn' /\ LinkedIsOpen' /\ RegistersOnce' /\ GoneIsDestroyed'
  BY <1>1, <1>2 DEF OpenedInTurn, LinkedIsOpen, RegistersOnce, GoneIsDestroyed, Opened, Current
<1>8. KeysAreMet' /\ PacketsAreMet' /\ PacketsAreWritten' /\ InOrder' /\ AcceptedFirst'
  <2>1. KeysAreMet'
    <3>1. ASSUME NEW role \in Parties, peerKey[role] # 0
          PROVE  /\ joins[role] # 0 /\ Met(Current(role), peerKey[role])
                 /\ linked[role] => Current(role) \in clients /\ Current(role) # conn
      <4>1. joins[role] # 0 /\ Met(Current(role), peerKey[role])
              /\ (linked[role] => Current(role) \in clients)
        BY <3>1 DEF KeysAreMet
      <4>2. Current(role) = conn => conn[1] = role
        BY DEF Current
      <4> QED
        BY <1>2, <4>1, <4>2
    <3>2. \A c \in Connections, n \in Numbers : PeerKey(n) \in FramesIn(down[c]) => Met(c, n)
      BY DEF KeysAreMet
    <3> HIDE DEF RelayInv
    <3> QED
      BY <1>1, <3>1, <3>2 DEF KeysAreMet, Met, Opened, Current
  <2>2. PacketsAreMet' /\ PacketsAreWritten' /\ InOrder' /\ AcceptedFirst'
    BY <1>1 DEF PacketsAreMet, PacketsAreWritten, InOrder, AcceptedFirst, Met, Opened, Current
  <2> QED
    BY <2>1, <2>2
<1>9. KeysInForce' /\ ReceivedIsAccepted' /\ AcceptedWithoutGap'
  BY <1>1 DEF KeysInForce, ReceivedIsAccepted, AcceptedWithoutGap
<1>10. NothingLost'
  BY <1>1 DEF NothingLost, CutOff
<1> QED
  BY <1>5, <1>6, <1>7, <1>8, <1>9, <1>10

\* A packet that was written on the current connection has a number up to the
\* last one sent.
LEMMA WrittenUpToSent ==
    ASSUME PacketsAreMet, NEW role \in Parties, NEW packet \in Packets,
           <<role, packet>> \in outbox, Own(role, packet) = joins[role]
    PROVE  packet.sequence <= sent[role]
  BY DEF PacketsAreMet, Current

\* The runtime writes the next packet, to a connection that is registered.
LEMMA RelayPayloadKeeps ==
    ASSUME RelayInv, NEW role \in Parties, RelayPayload(role)
    PROVE  RelayInv'
<1> USE DEF RelayInv, relay
<1> DEFINE number == joins[role]
           key == peerKey[role]
<1>1. number \in Numbers /\ key \in Numbers /\ sent[role] \in Nat /\ sent[role] < MaxSent /\ linked[role]
  BY BoundsAreNaturals DEF RelayPayload, LinkedIsOpen, Types, Numbers
<1>2. PICK conn \in Connections : conn = <<role, number>>
  BY <1>1, ConnectionFacts
<1>3. conn = Current(role) /\ conn[1] = role /\ conn[2] = number /\ Opened(conn)
  BY <1>1, <1>2 DEF Current, Opened, Numbers
<1>4. PICK packet \in Packets :
        /\ packet = Packet(sent[role] + 1, SharedKey(role))
        /\ packet.sequence = sent[role] + 1 /\ Own(role, packet) = number /\ Other(role, packet) = key
  <2>1. SharedKey(role) \in Numbers \X Numbers /\ sent[role] + 1 \in 1..MaxSent
    BY <1>1, BoundsAreNaturals DEF SharedKey, Keys
  <2>2. Packet(sent[role] + 1, SharedKey(role)) \in Packets
    BY <2>1 DEF Packets
  <2> QED
    BY <1>1, <2>2 DEF Packet, Own, Other, SharedKey, Keys
<1>5. /\ up' = [up EXCEPT ![conn] = Append(@, packet)]
      /\ outbox' = outbox \cup {<<role, packet>>}
      /\ sent' = [sent EXCEPT ![role] = @ + 1]
      /\ session[role] \in limited[role] /\ peerKey[role] # 0
      /\ UNCHANGED <<joins, session, limited, linked, peerKey, received, down, gone, registration,
                     relay, faults, accepted, told>>
  BY <1>3, <1>4 DEF RelayPayload, Pushed, NextSequence
<1>6. conn \in clients /\ conn \notin gone /\ registration[conn] = session[role] /\ Met(conn, key)
  BY <1>1, <1>3, <1>5 DEF KeysAreMet, GoneIsDestroyed, OpenedInTurn
<1>7. /\ up' \in [Connections -> Seq(UpFrames)]
      /\ \A c \in Connections : c # conn => up'[c] = up[c]
      /\ FramesIn(up'[conn]) = FramesIn(up[conn]) \cup {packet}
      /\ Register \notin FramesIn(up'[conn]) /\ Register \notin FramesIn(up[conn])
  <2>1. packet \in UpFrames /\ up[conn] \in Seq(UpFrames) /\ up \in [Connections -> Seq(UpFrames)]
    BY DEF UpFrames, Types
  <2>2. up'[conn] = Append(up[conn], packet)
    BY <1>5, <2>1
  <2>3. FramesIn(up'[conn]) = FramesIn(up[conn]) \cup {packet} /\ up'[conn] \in Seq(UpFrames)
    BY <2>1, <2>2, AppendFrames
  <2> QED
    BY <1>5, <1>6, <2>1, <2>3, FrameKinds DEF RegistersOnce
<1>8. sent' \in [Parties -> 0..MaxSent] /\ sent'[role] = sent[role] + 1
        /\ \A r \in Parties : sent[r] <= sent'[r]
  <2>1. sent \in [Parties -> 0..MaxSent] /\ sent' = [sent EXCEPT ![role] = sent[role] + 1]
    BY <1>5 DEF Types
  <2> HIDE DEF RelayInv
  <2>2. sent[role] + 1 \in 0..MaxSent /\ sent[role] <= sent[role] + 1
    BY <1>1, BoundsAreNaturals
  <2>3. \A r \in Parties : sent[r] <= sent[r]
    BY <2>1, BoundsAreNaturals
  <2> QED
    BY <2>1, <2>2, <2>3
<1>9. Onward
  BY <1>5, <1>7 DEF Onward, Opened
<1>10. Types'
  <2>1. outbox' \subseteq Parties \X Packets /\ accepted' \subseteq outbox'
    BY <1>5 DEF Types
  <2> QED
    BY <1>5, <1>7, <1>8, <2>1 DEF Types
<1>11. Places' /\ OpenedInTurn' /\ LinkedIsOpen'
  BY <1>3, <1>5, <1>7 DEF Places, OpenedInTurn, LinkedIsOpen, Opened, Current
<1>12. RegistersOnce' /\ GoneIsDestroyed'
  <2>1. RegistersOnce'
    <3> SUFFICES ASSUME NEW c \in Connections
                 PROVE  /\ Register \in FramesIn(up'[c]) =>
                              up'[c] = <<Register>> /\ c \notin clients /\ down[c] = <<>>
                        /\ FramesIn(up'[c]) \cap Packets # {} => c \in clients
      BY <1>5 DEF RegistersOnce
    <3> QED
      BY <1>6, <1>7 DEF RegistersOnce
  <2>2. GoneIsDestroyed'
    BY <1>5, <1>6, <1>7 DEF GoneIsDestroyed, Current, Types
  <2> QED
    BY <2>1, <2>2
<1>13. KeysAreMet'
  BY <1>5, <1>9, MetStays DEF KeysAreMet, Current
<1>14. PacketsAreMet'
  <2> SUFFICES ASSUME NEW r \in Parties, NEW p \in Packets, <<r, p>> \in outbox'
               PROVE  LET c == <<r, Own(r, p)>>
                      IN  /\ Opened(c)' /\ Met(c, Other(r, p))'
                          /\ registration[c] \in limited[r]
                          /\ c = Current(r) => p.sequence <= sent'[r]
                          /\ \A n \in Numbers : Own(r, p) < n /\ n <= joins[r] =>
                                registration[<<r, n>>] # registration[c]
    BY <1>5 DEF PacketsAreMet, Current
  <2>1. CASE <<r, p>> \in outbox
    <3> DEFINE c == <<r, Own(r, p)>>
    <3>1. /\ Opened(c) /\ Met(c, Other(r, p))
          /\ registration[c] \in limited[r]
          /\ c = Current(r) => p.sequence <= sent[r]
          /\ \A n \in Numbers : Own(r, p) < n /\ n <= joins[r] =>
                registration[<<r, n>>] # registration[c]
      BY <2>1 DEF PacketsAreMet
    <3>2. Met(c, Other(r, p))'
      BY <1>5, <1>9, <3>1, MetStays
    <3>3. Opened(c)'
      BY <1>5, <3>1 DEF Opened
    <3>4. c = Current(r) => p.sequence <= sent'[r]
      <4>1. p.sequence \in Nat /\ sent[r] \in Nat /\ sent'[r] \in Nat /\ sent[r] <= sent'[r]
        BY <1>8, PacketFields DEF Types
      <4> QED
        BY <3>1, <4>1
    <3> QED
      BY <3>1, <3>2, <3>3, <3>4
  <2>2. CASE r = role /\ p = packet
    <3>1. <<r, Own(r, p)>> = conn /\ Other(r, p) = key
      BY <1>2, <1>4, <2>2
    <3>2. Met(conn, key)'
      BY <1>5, <1>6, <1>9, MetStays
    <3>3. \A n \in Numbers : ~(number < n /\ n <= joins[role])
      BY <1>1 DEF Numbers
    <3> QED
      BY <1>3, <1>4, <1>5, <1>6, <1>8, <2>2, <3>1, <3>2, <3>3 DEF Opened
  <2> QED
    BY <1>5, <2>1, <2>2
<1>15. PacketsAreWritten'
  <2> SUFFICES ASSUME NEW c \in Connections, NEW p \in Packets
               PROVE  /\ p \in FramesIn(up'[c]) =>
                            <<c[1], p>> \in outbox' /\ Own(c[1], p) = c[2]
                      /\ p \in FramesIn(down[c]) => <<Peer(c[1]), p>> \in outbox'
    BY <1>5 DEF PacketsAreWritten
  <2> QED
    BY <1>3, <1>4, <1>5, <1>7 DEF PacketsAreWritten
<1>16. InOrder'
  <2>1. \A other \in FramesIn(up[conn]) \cap Packets : other.sequence < packet.sequence
    <3> SUFFICES ASSUME NEW other \in FramesIn(up[conn]) \cap Packets
                 PROVE  other.sequence < packet.sequence
      OBVIOUS
    <3>1. other.sequence <= sent[role]
      BY <1>3, WrittenUpToSent DEF PacketsAreWritten
    <3> QED
      BY <1>1, <1>4, <3>1, PacketFields
  <2>2. Rising(role, up'[conn])
    <3>1. up[conn] \in Seq(UpFrames) /\ packet \in UpFrames /\ Rising(role, up[conn])
      BY <1>3 DEF Types, UpFrames, InOrder
    <3>2. up'[conn] = Append(up[conn], packet)
      BY <1>5 DEF Types
    <3> QED
      BY <2>1, <3>1, <3>2, RisingAppend
  <2>3. lastSequence[conn] < packet.sequence
    <3>1. number # 0 /\ lastSequence[conn] \in Nat
      BY <1>1, BoundsAreNaturals DEF Types, Numbers
    <3>2. lastSequence[conn] <= sent[role]
      BY <1>3, <3>1 DEF InOrder
    <3> QED
      BY <1>1, <1>4, <3>1, <3>2
  <2>4. \A c \in Connections : Rising(c[1], up'[c]) /\ Rising(Peer(c[1]), down'[c])
    BY <1>3, <1>5, <1>7, <2>2 DEF InOrder
  <2>5. \A c \in Connections, p \in Packets :
          /\ p \in FramesIn(up'[c]) => lastSequence'[c] < p.sequence
          /\ p \in FramesIn(down'[c]) =>
                p.sequence <= lastSequence'[<<Peer(c[1]), Own(Peer(c[1]), p)>>]
    BY <1>5, <1>7, <2>3 DEF InOrder
  <2>6. \A r \in Parties, p \in Packets : <<r, p>> \in accepted' =>
          p.sequence <= lastSequence'[<<r, Own(r, p)>>]
    BY <1>5 DEF InOrder
  <2>7. \A r \in Parties : joins'[r] # 0 => lastSequence'[Current(r)'] <= sent'[r]
    <3> SUFFICES ASSUME NEW r \in Parties, joins[r] # 0
                 PROVE  lastSequence[Current(r)] <= sent'[r]
      BY <1>5 DEF Current
    <3>1. Current(r) \in Connections
      <4>1. joins[r] \in Numbers
        BY BoundsAreNaturals DEF Types, Numbers
      <4> QED
        BY <4>1, ConnectionFacts DEF Current
    <3>2. lastSequence[Current(r)] \in Nat /\ sent[r] \in Nat /\ sent'[r] \in Nat
      BY <1>8, <3>1 DEF Types
    <3> QED
      BY <1>8, <3>2 DEF InOrder
  <2> QED
    BY <2>4, <2>5, <2>6, <2>7 DEF InOrder
<1>17. AcceptedFirst' /\ KeysInForce' /\ ReceivedIsAccepted'
  BY <1>5 DEF AcceptedFirst, KeysInForce, ReceivedIsAccepted
<1>18. NothingLost'
  <2> SUFFICES ASSUME NEW r \in Parties, NEW p \in Packets, <<r, p>> \in outbox',
                      <<Peer(r), Other(r, p)>> \in clients \ gone
               PROVE  \/ <<r, p>> \in accepted
                      \/ p \in FramesIn(down[<<Peer(r), Other(r, p)>>])
                                  \cup FramesIn(up'[<<r, Own(r, p)>>])
                      \/ CutOff(<<r, Own(r, p)>>, p)'
    BY <1>5 DEF NothingLost
  <2>1. CASE r = role /\ p = packet
    BY <1>2, <1>4, <1>7, <2>1
  <2>2. CASE <<r, p>> \in outbox
    <3>1. <<r, Own(r, p)>> \in Connections
      BY OwnAndOther
    <3>2. FramesIn(up[<<r, Own(r, p)>>]) \subseteq FramesIn(up'[<<r, Own(r, p)>>])
      BY <1>7, <3>1
    <3>3. CutOff(<<r, Own(r, p)>>, p) => CutOff(<<r, Own(r, p)>>, p)'
      BY <1>5, <1>6, <1>7, <3>1 DEF CutOff
    <3> QED
      BY <2>2, <3>2, <3>3 DEF NothingLost
  <2> QED
    BY <1>5, <2>1, <2>2
<1>19. AcceptedWithoutGap'
  <2>1. ASSUME NEW taken \in accepted, taken[1] = role, taken[2].keys = packet.keys
        PROVE  ~(packet.sequence < taken[2].sequence)
    <3>1. taken = <<role, taken[2]>> /\ taken[2] \in Packets /\ taken \in outbox
      BY <2>1 DEF Types
    <3>2. Own(role, taken[2]) = number
      BY <1>4, <2>1, <3>1, SameKeys
    <3>3. taken[2].sequence <= sent[role]
      BY <3>1, <3>2, WrittenUpToSent
    <3> QED
      BY <1>1, <1>4, <3>1, <3>3, PacketFields
  <2> QED
    BY <1>5, <2>1 DEF AcceptedWithoutGap
<1> QED
  BY <1>10, <1>11, <1>12, <1>13, <1>14, <1>15, <1>16, <1>17, <1>18, <1>19

\* A registered connection that still works is its client's current one, and so
\* is one with a packet on its way to the client.
LEMMA WorkingIsCurrent ==
    ASSUME RelayInv, NEW conn \in Connections
    PROVE  /\ conn \in clients \ gone => conn = Current(conn[1]) /\ linked[conn[1]] /\ Opened(conn)
           /\ FramesIn(down[conn]) \cap Packets # {} => conn \in clients \ gone
<1>1. conn \in clients \ gone => conn = Current(conn[1]) /\ linked[conn[1]] /\ Opened(conn)
  BY DEF RelayInv, OpenedInTurn
<1>2. ASSUME FramesIn(down[conn]) \cap Packets # {} PROVE conn \in clients \ gone
  <2>1. conn \in clients
    BY <1>2, FrameKinds DEF RelayInv, RegistersOnce
  <2>2. down[conn] # <<>>
    BY <1>2 DEF FramesIn
  <2> QED
    BY <2>1, <2>2 DEF RelayInv, GoneIsDestroyed
<1> QED
  BY <1>1, <1>2

\* The next packet for the connection it is encrypted for is accepted: the key in
\* force is the sender's, and what was accepted before is older.
LEMMA DeliveredIsAccepted ==
    ASSUME RelayInv, NEW role \in Parties, linked[role], NEW conn \in Connections,
           conn = Current(role), down[conn] # <<>>,
           NEW packet \in Packets, packet = Head(down[conn]),
           Other(Peer(role), packet) = joins[role]
    PROVE  peerKey[role] # 0 /\ packet.sequence > received[role] /\ Decrypts(role, packet)
<1> USE DEF RelayInv
<1> DEFINE sender == Peer(role)
           n == Own(sender, packet)
<1>1. sender \in Parties /\ Peer(sender) = role /\ n \in Numbers /\ Own(role, packet) = joins[role]
        /\ Other(role, packet) = n
  BY PeerFacts, OwnAndOther
<1>2. conn[1] = role /\ conn[2] = joins[role] /\ conn = <<role, joins[role]>>
  BY DEF Current
<1>3. down[conn] \in Seq(DownFrames)
  BY DEF Types
<1>4. packet \in FramesIn(down[conn]) /\ packet = down[conn][1] /\ 1 \in 1..Len(down[conn])
  BY <1>3, TailFrames
<1>5. peerKey[role] = n
  <2>1. InForce(peerKey[role], down[conn], 1, n)
    BY <1>2, <1>4 DEF KeysInForce
  <2> QED
    BY <2>1, InForceAtHead
<1>6. peerKey[role] # 0
  BY <1>1, <1>5, BoundsAreNaturals DEF Numbers
<1>7. Decrypts(role, packet)
  <2>1. packet.keys = <<packet.keys[1], packet.keys[2]>>
    BY PacketFields
  <2> QED
    BY <1>1, <1>5, <2>1 DEF Decrypts, SharedKey, Keys, Own, Other
<1>8. CASE received[role] # 0
  <2>1. PICK taken \in Packets :
          /\ <<sender, taken>> \in accepted /\ taken.sequence = received[role]
          /\ Other(sender, taken) = joins[role]
    BY <1>8 DEF ReceivedIsAccepted
  <2>2. <<sender, taken>> \in outbox /\ <<sender, packet>> \in outbox
    BY <1>2, <1>4, <2>1 DEF Types, PacketsAreWritten
  <2>3. DEFINE m == Own(sender, taken)
  <2>4. m \in Numbers
    BY <1>1, OwnAndOther
  <2>5. /\ m <= joins[sender] /\ n <= joins[sender]
        /\ registration[<<sender, m>>] = registration[conn]
        /\ registration[<<sender, n>>] = registration[conn]
    BY <1>1, <1>2, <2>1, <2>2 DEF PacketsAreMet, Opened, Met
  <2>6. ~(m < n) /\ ~(n < m)
    BY <1>1, <2>2, <2>4, <2>5 DEF PacketsAreMet
  <2>7. m = n
    BY <1>1, <2>4, <2>6 DEF Numbers
  <2>8. taken.keys = packet.keys
    BY <1>1, <2>1, <2>7, SameKeys
  <2>9. taken.sequence < packet.sequence
    BY <1>2, <1>4, <2>1, <2>8 DEF AcceptedFirst
  <2> QED
    BY <1>6, <1>7, <2>1, <2>9, PacketFields DEF Types
<1>9. CASE received[role] = 0
  <2>1. packet.sequence > 0
    BY PacketFields, BoundsAreNaturals
  <2> QED
    BY <1>6, <1>7, <1>9, <2>1
<1> QED
  BY <1>8, <1>9

\* The client reads a frame: a key, a packet it accepts or reports, an error.
LEMMA ClientReadsKeeps ==
    ASSUME RelayInv, NEW role \in Parties, ClientReads(role)
    PROVE  RelayInv'
<1> USE DEF RelayInv, relay
<1>1. PICK conn \in Connections : conn = Current(role)
  BY ConnectionFacts, BoundsAreNaturals DEF ClientReads, LinkedIsOpen, Types, Current, Numbers
<1>2. /\ linked[role] /\ down[conn] # <<>> /\ conn[1] = role /\ conn[2] = joins[role]
      /\ down[conn] \in Seq(DownFrames) /\ Peer(role) \in Parties /\ Peer(Peer(role)) = role
      /\ Opened(conn) /\ joins[role] # 0
  BY <1>1, PeerFacts, BoundsAreNaturals DEF ClientReads, Current, Types, LinkedIsOpen, Opened
<1>3. PICK frame \in DownFrames : frame = Head(down[conn])
  BY <1>2, TailFrames
<1>4. frame \in FramesIn(down[conn])
  BY <1>2, <1>3, TailFrames
<1>5. /\ down' = [down EXCEPT ![conn] = Tail(@)]
      /\ UNCHANGED <<joins, session, limited, sent, up, gone, registration, relay, faults, outbox>>
  BY <1>1 DEF ClientReads
<1>6. /\ down' \in [Connections -> Seq(DownFrames)] /\ down'[conn] = Tail(down[conn])
      /\ \A c \in Connections : c # conn => down'[c] = down[c]
      /\ FramesIn(down[conn]) = FramesIn(down'[conn]) \cup {frame}
      /\ \A c \in Connections : FramesIn(down'[c]) \subseteq FramesIn(down[c])
  <2>1. down'[conn] = Tail(down[conn]) /\ \A c \in Connections : c # conn => down'[c] = down[c]
    BY <1>5 DEF Types
  <2>2. FramesIn(down[conn]) = FramesIn(down'[conn]) \cup {frame} /\ Tail(down[conn]) \in Seq(DownFrames)
    BY <1>2, <1>3, <2>1, TailFrames
  <2> QED
    BY <1>5, <2>1, <2>2 DEF Types
<1>7. /\ linked' \in [Parties -> BOOLEAN] /\ \A r \in Parties : linked'[r] => linked[r]
      /\ \A r \in Parties : linked[r] /\ ~linked'[r] => Current(r) \in gone
  <2>1. CASE linked' = linked
    BY <2>1 DEF Types
  <2>2. CASE /\ frame.kind = "ERROR"
             /\ linked' = [linked EXCEPT ![role] = @ /\ frame.code # "ROLE_CONFLICT"]
    <3>1. frame.code = "ROLE_CONFLICT" => conn \in gone
      BY <1>4, <2>2, FrameKinds DEF RegistersOnce
    <3>2. linked' = [linked EXCEPT ![role] = linked[role] /\ frame.code # "ROLE_CONFLICT"]
      BY <2>2 DEF Types
    <3>3. linked \in [Parties -> BOOLEAN] /\ linked[role] = TRUE
      BY <1>2 DEF Types
    <3>4. CASE frame.code = "ROLE_CONFLICT"
      BY <1>1, <3>1, <3>2, <3>3, <3>4
    <3>5. CASE frame.code # "ROLE_CONFLICT"
      <4>1. linked' = [linked EXCEPT ![role] = TRUE]
        BY <3>2, <3>3, <3>5
      <4> QED
        BY <3>3, <4>1
    <3> QED
      BY <3>4, <3>5
  <2> QED
    BY <1>1, <1>3, <2>1, <2>2 DEF ClientReads
<1>8. /\ peerKey' \in [Parties -> 0..MaxJoins] /\ \A r \in Parties : r # role => peerKey'[r] = peerKey[r]
      /\ \/ frame.kind # "PEER_KEY" /\ peerKey' = peerKey
         \/ frame.kind = "PEER_KEY" /\ peerKey'[role] = frame.sequence /\ frame.sequence \in Numbers
              /\ frame = PeerKey(frame.sequence)
  <2>1. CASE frame.kind = "PEER_KEY" /\ peerKey' = [peerKey EXCEPT ![role] = frame.sequence]
    BY <2>1, FrameKinds, BoundsAreNaturals DEF Types, Numbers
  <2>2. CASE frame.kind # "PEER_KEY" /\ peerKey' = peerKey
    BY <2>2 DEF Types
  <2> QED
    BY <1>1, <1>3, <2>1, <2>2 DEF ClientReads, AcceptPacket
<1> DEFINE Taken ==
       /\ frame \in Packets /\ accepted' = accepted \cup {<<Peer(role), frame>>}
       /\ received' = [received EXCEPT ![role] = frame.sequence] /\ Decrypts(role, frame)
<1>9. Taken \/ (accepted' = accepted /\ received' = received)
  BY <1>1, <1>3, FrameKinds DEF ClientReads, AcceptPacket
<1>10. frame \in Packets /\ Other(Peer(role), frame) = joins[role] => Taken
  <2>1. frame \in Packets => AcceptPacket(role, frame)
    BY <1>1, <1>3, PacketFields DEF ClientReads
  <2> QED
    BY <1>1, <1>2, <1>3, <2>1, DeliveredIsAccepted DEF AcceptPacket
<1>11. Taken => /\ <<Peer(role), frame>> \in outbox /\ Own(role, frame) = joins[role]
                /\ Other(Peer(role), frame) = joins[role]
  <2>1. frame \in Packets => <<Peer(role), frame>> \in outbox
    BY <1>2, <1>4 DEF PacketsAreWritten
  <2>2. Decrypts(role, frame) => Own(role, frame) = joins[role]
    BY DEF Decrypts, SharedKey, Keys, Own
  <2> QED
    BY <2>1, <2>2, OwnAndOther
<1> HIDE DEF Taken
<1>12. Types'
  <2>1. received' \in [Parties -> 0..MaxSent]
    <3>1. frame \in Packets => frame.sequence \in 0..MaxSent
      BY PacketFields, BoundsAreNaturals
    <3>2. received \in [Parties -> 0..MaxSent]
      BY DEF Types
    <3> QED
      BY <1>9, <3>1, <3>2 DEF Taken
  <2>2. accepted' \subseteq outbox'
    BY <1>5, <1>9, <1>11 DEF Taken, Types
  <2> QED
    BY <1>5, <1>6, <1>7, <1>8, <2>1, <2>2 DEF Types
<1>13. Places' /\ PacketsAreMet'
  BY <1>5 DEF Places, PacketsAreMet, Met, Opened, Current
<1>14. OpenedInTurn' /\ LinkedIsOpen'
  <2>1. ASSUME NEW c \in Connections, Opened(c)
        PROVE  /\ registration[c] \in Sessions
               /\ c # Current(c[1]) \/ ~linked'[c[1]] => c \in gone
               /\ c = Current(c[1]) => registration[c] = session[c[1]]
    <3>1. c[1] \in Parties
      BY ConnectionFacts
    <3>2. /\ registration[c] \in Sessions
          /\ c # Current(c[1]) \/ ~linked[c[1]] => c \in gone
          /\ c = Current(c[1]) => registration[c] = session[c[1]]
      BY <2>1 DEF OpenedInTurn
    <3> HIDE DEF RelayInv
    <3> QED
      BY <1>7, <3>1, <3>2
  <2>2. ASSUME NEW c \in Connections, ~Opened(c)
        PROVE  up[c] = <<>> /\ down'[c] = <<>> /\ lastSequence[c] = 0 /\ c \notin gone \cup clients
    BY <1>2, <1>6, <2>2 DEF OpenedInTurn
  <2>3. OpenedInTurn'
    BY <1>5, <2>1, <2>2 DEF OpenedInTurn, Opened, Current
  <2> QED
    BY <1>5, <1>7, <2>3 DEF LinkedIsOpen
<1>15. RegistersOnce'
  BY <1>2, <1>5, <1>6 DEF RegistersOnce
<1>16. GoneIsDestroyed'
  <2> SUFFICES ASSUME NEW c \in gone, c \in clients \/ Register \in FramesIn(up[c])
               PROVE  down'[c] = <<>> /\ ~(linked'[c[1]] /\ c = Current(c[1]))
    BY <1>5 DEF GoneIsDestroyed, Current
  <2>1. c \in Connections /\ down[c] = <<>> /\ ~(linked[c[1]] /\ c = Current(c[1]))
    BY DEF GoneIsDestroyed, Types
  <2> QED
    BY <1>2, <1>6, <1>7, <2>1, ConnectionFacts
<1>17. KeysAreMet'
  <2>1. Onward
    BY <1>5 DEF Onward, Opened
  <2>2. ASSUME NEW r \in Parties, NEW n, n = peerKey'[r], n # 0
        PROVE  joins[r] # 0 /\ Met(Current(r), n)' /\ (linked'[r] => Current(r) \in clients)
    <3>1. CASE r = role /\ frame.kind = "PEER_KEY"
      <4>1. n \in Numbers /\ n = frame.sequence /\ frame = PeerKey(n)
        BY <1>8, <2>2, <3>1
      <4>2. Met(conn, n) /\ conn \in clients
        BY <1>4, <3>1, <4>1, FrameKinds DEF KeysAreMet, RegistersOnce
      <4>3. Met(conn, n)'
        BY <1>5, <2>1, <4>2, MetStays
      <4>4. conn = Current(role)'
        BY <1>1, <1>5 DEF Current
      <4>5. Met(Current(role), n)'
        BY <1>5, <4>3, <4>4 DEF Met
      <4> QED
        BY <1>1, <1>2, <3>1, <4>2, <4>5
    <3>2. CASE peerKey'[r] = peerKey[r]
      <4>1. joins[r] # 0 /\ Met(Current(r), n) /\ (linked[r] => Current(r) \in clients)
        BY <2>2, <3>2 DEF KeysAreMet
      <4>2. Met(Current(r), n)'
        BY <1>5, <4>1 DEF Met, Current, Opened
      <4> QED
        BY <1>7, <4>1, <4>2
    <3> QED
      BY <1>8, <3>1, <3>2
  <2>3. ASSUME NEW c \in Connections, NEW n \in Numbers, PeerKey(n) \in FramesIn(down'[c])
        PROVE  Met(c, n)'
    BY <1>5, <1>6, <2>1, <2>3, MetStays DEF KeysAreMet
  <2>4. \A r \in Parties : peerKey'[r] # 0 =>
          joins'[r] # 0 /\ Met(Current(r), peerKey[r])' /\ (linked'[r] => Current(r)' \in clients')
    BY <1>5, <2>2 DEF Current, Met
  <2> QED
    BY <2>3, <2>4 DEF KeysAreMet
<1>18. PacketsAreWritten'
  BY <1>5, <1>6 DEF PacketsAreWritten
<1>19. /\ Rising(Peer(role), down'[conn])
       /\ frame \in Packets => \A other \in FramesIn(down'[conn]) \cap Packets :
             Own(Peer(role), other) = Own(Peer(role), frame) => frame.sequence < other.sequence
  BY <1>2, <1>3, <1>6, RisingTail DEF InOrder
<1>20. InOrder'
  <2>1. \A c \in Connections : Rising(c[1], up'[c]) /\ Rising(Peer(c[1]), down'[c])
    BY <1>2, <1>5, <1>6, <1>19 DEF InOrder
  <2>2. \A c \in Connections, p \in Packets :
          /\ p \in FramesIn(up'[c]) => lastSequence'[c] < p.sequence
          /\ p \in FramesIn(down'[c]) =>
                p.sequence <= lastSequence'[<<Peer(c[1]), Own(Peer(c[1]), p)>>]
    BY <1>5, <1>6 DEF InOrder
  <2>3. \A r \in Parties, p \in Packets : <<r, p>> \in accepted' =>
          p.sequence <= lastSequence'[<<r, Own(r, p)>>]
    <3>1. frame \in Packets =>
            frame.sequence <= lastSequence[<<Peer(role), Own(Peer(role), frame)>>]
      BY <1>2, <1>4 DEF InOrder
    <3> QED
      BY <1>5, <1>9, <3>1 DEF InOrder, Taken
  <2>4. \A r \in Parties : joins'[r] # 0 => lastSequence'[Current(r)'] <= sent'[r]
    BY <1>5 DEF InOrder, Current
  <2> QED
    BY <2>1, <2>2, <2>3, <2>4 DEF InOrder
<1>21. AcceptedFirst'
  <2> SUFFICES ASSUME NEW c \in Connections, NEW p \in Packets, NEW taken \in Packets,
                      p \in FramesIn(down'[c]), <<Peer(c[1]), taken>> \in accepted',
                      taken.keys = p.keys
               PROVE  taken.sequence < p.sequence
    BY DEF AcceptedFirst
  <2>1. p \in FramesIn(down[c])
    BY <1>6
  <2>2. CASE <<Peer(c[1]), taken>> \in accepted
    BY <2>1, <2>2 DEF AcceptedFirst
  <2>3. CASE Taken /\ Peer(c[1]) = Peer(role) /\ taken = frame
    <3>1. c[1] = role
      BY <1>2, <2>3, ConnectionFacts, PeerFacts
    <3>2. c = conn
      BY <1>1, <2>1, <3>1, WorkingIsCurrent
    <3>3. Own(Peer(role), p) = Own(Peer(role), frame)
      BY <1>2, <2>3, SameKeys
    <3> QED
      BY <1>19, <2>3, <3>2, <3>3
  <2> QED
    BY <1>9, <2>2, <2>3 DEF Taken
<1>22. KeysInForce'
  <2> SUFFICES ASSUME NEW c \in Connections
               PROVE  /\ \A i \in 1..Len(down'[c]) :
                            down'[c][i] \in Packets /\ Other(Peer(c[1]), down'[c][i]) = c[2] =>
                              InForce(peerKey'[c[1]], down'[c], i, Own(Peer(c[1]), down'[c][i]))
                      /\ \A n \in Numbers :
                            /\ c \in clients \ gone /\ <<Peer(c[1]), n>> \in clients
                            /\ registration[<<Peer(c[1]), n>>] = registration[c]
                            => InForce(peerKey'[c[1]], down'[c], Len(down'[c]) + 1, n)
    BY <1>5 DEF KeysInForce
  <2>1. CASE c = conn
    <3> DEFINE key2 == peerKey'[role]
               rest == Tail(down[conn])
    <3>1. /\ frame.kind = "PEER_KEY" => key2 = frame.sequence
          /\ frame.kind # "PEER_KEY" => key2 = peerKey[role]
      BY <1>8
    <3>2. ASSUME NEW n \in Numbers, NEW i \in 1..Len(rest) + 1,
                 InForce(peerKey[role], down[conn], i + 1, n)
          PROVE  InForce(key2, rest, i, n)
      <4>1. Head(down[conn]) = PeerKey(n) => key2 = n
        BY <1>3, <3>1, <3>2, FrameKinds
      <4>2. Head(down[conn]).kind # "PEER_KEY" => key2 = peerKey[role]
        BY <1>3, <3>1
      <4> HIDE DEF key2
      <4> QED
        BY <1>2, <3>2, <4>1, <4>2, InForceTail
    <3>3. /\ Len(rest) \in Nat /\ Len(down[conn]) = Len(rest) + 1
          /\ \A i \in 1..Len(rest) : rest[i] = down[conn][i + 1]
      BY <1>2, TailFrames
    <3> HIDE DEF key2, rest
    <3>4. ASSUME NEW i \in 1..Len(rest), rest[i] \in Packets, Other(Peer(role), rest[i]) = conn[2]
          PROVE  InForce(key2, rest, i, Own(Peer(role), rest[i]))
      <4>1. i + 1 \in 1..Len(down[conn]) /\ rest[i] = down[conn][i + 1] /\ i \in 1..Len(rest) + 1
        BY <3>3
      <4>2. InForce(peerKey[role], down[conn], i + 1, Own(Peer(role), rest[i]))
        BY <1>2, <3>4, <4>1 DEF KeysInForce
      <4>3. Own(Peer(role), rest[i]) \in Numbers
        BY <1>2, <3>4, OwnAndOther
      <4> QED
        BY <3>2, <4>1, <4>2, <4>3
    <3>5. ASSUME NEW n \in Numbers, conn \in clients \ gone, <<Peer(role), n>> \in clients,
                 registration[<<Peer(role), n>>] = registration[conn]
          PROVE  InForce(key2, rest, Len(rest) + 1, n)
      <4>1. InForce(peerKey[role], down[conn], Len(down[conn]) + 1, n)
        BY <1>2, <3>5 DEF KeysInForce
      <4>2. InForce(peerKey[role], down[conn], (Len(rest) + 1) + 1, n) /\ Len(rest) + 1 \in 1..Len(rest) + 1
        BY <3>3, <4>1
      <4> QED
        BY <3>2, <4>2
    <3> QED
      <4>1. c[1] = role /\ down'[c] = rest /\ peerKey'[c[1]] = key2
        BY <1>2, <1>6, <2>1 DEF key2, rest
      <4> HIDE DEF RelayInv
      <4> QED
        BY <2>1, <3>4, <3>5, <4>1
  <2>2. CASE c # conn /\ c[1] = role
    <3>1. c \notin clients \ gone
      BY <1>1, <2>2, WorkingIsCurrent
    <3>2. FramesIn(down[c]) \cap Packets = {} /\ down'[c] = down[c]
      BY <1>6, <2>2, <3>1, WorkingIsCurrent
    <3>3. \A i \in 1..Len(down'[c]) : down'[c][i] \notin Packets
      BY <3>2 DEF FramesIn
    <3> QED
      BY <3>1, <3>3
  <2>3. CASE c[1] # role
    <3>1. peerKey'[c[1]] = peerKey[c[1]] /\ down'[c] = down[c]
      BY <1>2, <1>6, <1>8, <2>3, ConnectionFacts
    <3> QED
      BY <3>1 DEF KeysInForce
  <2> QED
    BY <2>1, <2>2, <2>3
<1>23. ReceivedIsAccepted'
  <2> SUFFICES ASSUME NEW r \in Parties, received'[r] # 0
               PROVE  \E p \in Packets :
                        /\ <<Peer(r), p>> \in accepted' /\ p.sequence = received'[r]
                        /\ Other(Peer(r), p) = joins[r]
    BY <1>5 DEF ReceivedIsAccepted
  <2>1. CASE received'[r] = received[r] /\ accepted \subseteq accepted'
    BY <2>1 DEF ReceivedIsAccepted
  <2>2. CASE Taken /\ r = role
    <3>1. received'[r] = frame.sequence
      BY <2>2 DEF Taken, Types
    <3> QED
      BY <1>11, <2>2, <3>1 DEF Taken
  <2> QED
    BY <1>9, <2>1, <2>2 DEF Taken, Types
<1>24. NothingLost'
  <2> SUFFICES ASSUME NEW r \in Parties, NEW p \in Packets, <<r, p>> \in outbox,
                      <<Peer(r), Other(r, p)>> \in clients \ gone
               PROVE  \/ <<r, p>> \in accepted'
                      \/ p \in FramesIn(down'[<<Peer(r), Other(r, p)>>])
                                  \cup FramesIn(up[<<r, Own(r, p)>>])
                      \/ CutOff(<<r, Own(r, p)>>, p)
    BY <1>5 DEF NothingLost, CutOff
  <2>1. \/ <<r, p>> \in accepted
        \/ p \in FramesIn(down[<<Peer(r), Other(r, p)>>]) \cup FramesIn(up[<<r, Own(r, p)>>])
        \/ CutOff(<<r, Own(r, p)>>, p)
    BY DEF NothingLost
  <2>2. accepted \subseteq accepted'
    BY <1>9 DEF Taken
  <2>3. ASSUME p \in FramesIn(down[<<Peer(r), Other(r, p)>>]),
               p \notin FramesIn(down'[<<Peer(r), Other(r, p)>>])
        PROVE  <<r, p>> \in accepted'
    <3>1. <<Peer(r), Other(r, p)>> \in Connections
      BY PeerFacts, OwnAndOther
    <3>2. <<Peer(r), Other(r, p)>> = conn /\ p = frame
      BY <1>6, <2>3, <3>1
    <3>3. Peer(r) = role /\ r = Peer(role) /\ Other(Peer(role), frame) = joins[role]
      BY <1>2, <3>2, PeerFacts
    <3> QED
      BY <1>10, <3>2, <3>3 DEF Taken
  <2> QED
    BY <2>1, <2>2, <2>3
<1>25. AcceptedWithoutGap'
  <2>1. CASE accepted' = accepted
    BY <1>5, <2>1 DEF AcceptedWithoutGap
  <2>2. CASE Taken
    <3>1. ASSUME NEW other \in outbox, other[1] = Peer(role), other[2].keys = frame.keys,
                 other[2].sequence < frame.sequence
          PROVE  other \in accepted'
      <4>1. PICK p \in Packets : p = other[2] /\ other = <<Peer(role), p>>
        BY <3>1 DEF Types
      <4> DEFINE sender == Peer(role)
                 from == <<sender, Own(sender, p)>>
      <4>2. Own(sender, p) = Own(sender, frame) /\ Other(sender, p) = Other(sender, frame)
        BY <1>2, <2>2, <3>1, <4>1, SameKeys DEF Taken
      <4>3. <<Peer(sender), Other(sender, p)>> = conn
        BY <1>1, <1>2, <1>11, <2>2, <4>2 DEF Current
      <4>4. conn \in clients \ gone
        BY <1>4, <2>2, WorkingIsCurrent DEF Taken
      <4>5. frame.sequence <= lastSequence[from] /\ from \in Connections
        BY <1>2, <1>4, <2>2, <4>2, OwnAndOther DEF InOrder, Taken
      <4>6. lastSequence[from] \in Nat /\ p.sequence \in Nat /\ frame.sequence \in Nat
        BY <2>2, <4>5, PacketFields DEF Types, Taken
      <4>7. ~(lastSequence[from] < p.sequence)
        BY <3>1, <4>1, <4>5, <4>6
      <4>8. p \notin FramesIn(up[from]) /\ ~CutOff(from, p)
        BY <4>5, <4>7 DEF InOrder, CutOff
      <4>9. <<sender, p>> \in accepted \/ p \in FramesIn(down[conn])
        BY <1>2, <4>1, <4>3, <4>4, <4>8 DEF NothingLost
      <4>10. p \notin FramesIn(down'[conn])
        BY <1>19, <2>2, <3>1, <4>1, <4>2, <4>6 DEF Taken
      <4>11. p # frame
        BY <3>1, <4>1, <4>6
      <4> QED
        BY <1>6, <2>2, <4>1, <4>9, <4>10, <4>11 DEF Taken
    <3>2. ASSUME NEW taken \in accepted', NEW other \in outbox, other[1] = taken[1],
                 other[2].keys = taken[2].keys, other[2].sequence < taken[2].sequence
          PROVE  other \in accepted'
      <4>1. CASE taken \in accepted
        BY <2>2, <3>2, <4>1 DEF AcceptedWithoutGap, Taken
      <4>2. CASE taken = <<Peer(role), frame>>
        BY <3>1, <3>2, <4>2
      <4> QED
        BY <2>2, <3>2, <4>1, <4>2 DEF Taken
    <3>3. accepted' \subseteq outbox'
      BY <1>12 DEF Types
    <3> QED
      BY <1>5, <3>2, <3>3 DEF AcceptedWithoutGap
  <2> QED
    BY <1>9, <2>1, <2>2
<1> QED
  BY <1>12, <1>13, <1>14, <1>15, <1>16, <1>17, <1>18, <1>20, <1>21, <1>22, <1>23, <1>24, <1>25

\* What a destroyed socket leaves of the frames on their way to the relay.
LEMMA CutQueue ==
    ASSUME RelayInv, NEW conn \in Connections, NEW kept \in 0..Len(up[conn]),
           NEW cut, cut = SubSeq(up[conn], 1, kept)
    PROVE  /\ cut \in Seq(UpFrames) /\ FramesIn(cut) \subseteq FramesIn(up[conn])
           /\ Rising(conn[1], cut)
           /\ Register \in FramesIn(cut) => cut = <<Register>>
           /\ \A lost \in (FramesIn(up[conn]) \ FramesIn(cut)) \cap Packets :
                /\ lastSequence[conn] < lost.sequence
                /\ \A other \in FramesIn(cut) \cap Packets : other.sequence < lost.sequence
<1> USE DEF RelayInv
<1>1. up[conn] \in Seq(UpFrames) /\ Rising(conn[1], up[conn])
  BY DEF Types, InOrder
<1>2. /\ cut \in Seq(UpFrames) /\ FramesIn(cut) \subseteq FramesIn(up[conn]) /\ Len(cut) = kept
      /\ \A i \in 1..kept : cut[i] = up[conn][i]
  BY <1>1, CutFrames
<1>3. /\ Rising(conn[1], cut)
      /\ \A lost \in (FramesIn(up[conn]) \ FramesIn(cut)) \cap Packets :
          \A other \in FramesIn(cut) \cap Packets :
             Own(conn[1], other) = Own(conn[1], lost) => other.sequence < lost.sequence
  BY <1>1, RisingCut
<1>4. ASSUME Register \in FramesIn(cut) PROVE cut = <<Register>>
  <2>1. up[conn] = <<Register>>
    BY <1>2, <1>4 DEF RegistersOnce
  <2>2. Len(up[conn]) = 1 /\ up[conn][1] = Register
    BY <2>1
  <2>3. kept = 1
    BY <1>2, <1>4, <2>2 DEF FramesIn
  <2>4. Len(cut) = 1 /\ cut[1] = Register
    BY <1>2, <2>2, <2>3
  <2>5. cut = [i \in 1..1 |-> cut[i]] /\ <<Register>> = [i \in 1..1 |-> <<Register>>[i]]
    BY <1>2, <2>4
  <2>6. \A i \in 1..1 : cut[i] = <<Register>>[i]
    BY <2>4
  <2> QED
    BY <2>5, <2>6
<1>5. ASSUME NEW lost \in (FramesIn(up[conn]) \ FramesIn(cut)) \cap Packets
      PROVE  /\ lastSequence[conn] < lost.sequence
             /\ \A other \in FramesIn(cut) \cap Packets : other.sequence < lost.sequence
  <2>1. lastSequence[conn] < lost.sequence
    BY <1>5 DEF InOrder
  <2>2. Own(conn[1], lost) = conn[2]
    BY <1>5 DEF PacketsAreWritten
  <2>3. \A other \in FramesIn(cut) \cap Packets : Own(conn[1], other) = conn[2]
    BY <1>2 DEF PacketsAreWritten
  <2> HIDE DEF RelayInv
  <2> QED
    BY <1>3, <1>5, <2>1, <2>2, <2>3
<1> QED
  BY <1>2, <1>3, <1>4, <1>5

\* A step that destroys connections and opens fresh ones, and leaves the relay
\* and what was accepted alone.
Reconnects(dead, fresh) ==
    /\ \A conn \in Connections \ fresh :
          /\ registration'[conn] = registration[conn]
          /\ IF conn \in dead
             THEN down'[conn] = <<>> /\ \E kept \in 0..Len(up[conn]) : up'[conn] = SubSeq(up[conn], 1, kept)
             ELSE up'[conn] = up[conn] /\ down'[conn] = down[conn]
    /\ \A conn \in fresh : ~Opened(conn) /\ up'[conn] = <<Register>> /\ down'[conn] = <<>>
    /\ gone' = gone \cup dead
    /\ UNCHANGED <<relay, outbox, accepted>>

\* What such a step keeps: what was cut off is newer than what was routed.
LEMMA ReconnectKeeps ==
    ASSUME RelayInv, NEW dead \in SUBSET Connections, NEW fresh \in SUBSET Connections,
           Reconnects(dead, fresh)
    PROVE  /\ Places' /\ RegistersOnce' /\ PacketsAreWritten' /\ AcceptedFirst'
           /\ NothingLost' /\ AcceptedWithoutGap'
           /\ \A conn \in Connections :
                /\ Rising(conn[1], up'[conn]) /\ Rising(Peer(conn[1]), down'[conn])
                /\ up'[conn] \in Seq(UpFrames) /\ down'[conn] \in Seq(DownFrames)
                /\ FramesIn(down'[conn]) \subseteq FramesIn(down[conn])
                /\ conn \notin fresh => FramesIn(up'[conn]) \subseteq FramesIn(up[conn])
                /\ \A packet \in Packets :
                     /\ packet \in FramesIn(up'[conn]) => lastSequence'[conn] < packet.sequence
                     /\ packet \in FramesIn(down'[conn]) => packet.sequence <=
                          lastSequence'[<<Peer(conn[1]), Own(Peer(conn[1]), packet)>>]
           /\ \A role \in Parties, packet \in Packets : <<role, packet>> \in accepted' =>
                packet.sequence <= lastSequence'[<<role, Own(role, packet)>>]
<1> USE DEF RelayInv, relay
<1>1. FramesIn(<<>>) = {} /\ FramesIn(<<Register>>) = {Register} /\ <<Register>> \in Seq(UpFrames)
        /\ \A S : <<>> \in Seq(S)
  <2>1. Register \in UpFrames
    BY DEF UpFrames
  <2> QED
    BY <2>1 DEF FramesIn
<1>2. \A role : Rising(role, <<>>) /\ Rising(role, <<Register>>)
  <2>1. Len(<<>>) = 0 /\ Len(<<Register>>) = 1
    OBVIOUS
  <2> QED
    BY <2>1 DEF Rising
<1>3. ASSUME NEW conn \in fresh
      PROVE  /\ up'[conn] = <<Register>> /\ down'[conn] = <<>>
             /\ up[conn] = <<>> /\ down[conn] = <<>> /\ conn \notin gone \cup clients
  BY DEF Reconnects, OpenedInTurn
<1>4. ASSUME NEW conn \in Connections \ fresh
      PROVE  /\ registration'[conn] = registration[conn]
             /\ FramesIn(up'[conn]) \subseteq FramesIn(up[conn])
             /\ Register \in FramesIn(up'[conn]) => up'[conn] = <<Register>>
             /\ Rising(conn[1], up'[conn]) /\ up'[conn] \in Seq(UpFrames)
             /\ down'[conn] \in {<<>>, down[conn]} /\ (conn \notin dead => down'[conn] = down[conn])
             /\ \A lost \in (FramesIn(up[conn]) \ FramesIn(up'[conn])) \cap Packets :
                  /\ conn \in dead /\ lastSequence[conn] < lost.sequence
                  /\ \A other \in FramesIn(up'[conn]) \cap Packets : other.sequence < lost.sequence
  <2>1. CASE conn \in dead
    <3>1. PICK kept \in 0..Len(up[conn]) : up'[conn] = SubSeq(up[conn], 1, kept)
      BY <2>1 DEF Reconnects
    <3>2. PICK cut : cut = up'[conn]
      OBVIOUS
    <3>3. /\ cut \in Seq(UpFrames) /\ FramesIn(cut) \subseteq FramesIn(up[conn])
          /\ Rising(conn[1], cut)
          /\ Register \in FramesIn(cut) => cut = <<Register>>
          /\ \A lost \in (FramesIn(up[conn]) \ FramesIn(cut)) \cap Packets :
               /\ lastSequence[conn] < lost.sequence
               /\ \A other \in FramesIn(cut) \cap Packets : other.sequence < lost.sequence
      BY <3>1, <3>2, CutQueue
    <3> QED
      BY <2>1, <3>2, <3>3 DEF Reconnects
  <2>2. CASE conn \notin dead
    BY <2>2 DEF Reconnects, RegistersOnce, InOrder, Types
  <2> QED
    BY <2>1, <2>2
<1>5. ASSUME NEW conn \in Connections
      PROVE  FramesIn(down'[conn]) \subseteq FramesIn(down[conn]) /\ down'[conn] \in Seq(DownFrames)
  <2>1. down[conn] \in Seq(DownFrames) /\ <<>> \in Seq(DownFrames)
    BY DEF Types
  <2>2. down'[conn] = <<>> \/ down'[conn] = down[conn]
    BY <1>3, <1>4
  <2> QED
    BY <1>1, <2>1, <2>2
<1>6. \A conn \in clients : conn \in Connections \ fresh
  BY <1>3 DEF Types
<1>7. UNCHANGED <<relay, outbox, accepted>> /\ gone' = gone \cup dead
  BY DEF Reconnects
<1>8. Places'
  <2>1. \A conn \in clients : registration'[conn] = registration[conn]
    BY <1>4, <1>6
  <2> QED
    BY <1>7, <2>1 DEF Places
<1>9. RegistersOnce'
  <2> SUFFICES ASSUME NEW conn \in Connections
               PROVE  /\ Register \in FramesIn(up'[conn]) =>
                            up'[conn] = <<Register>> /\ conn \notin clients /\ down'[conn] = <<>>
                      /\ FramesIn(up'[conn]) \cap Packets # {} => conn \in clients
                      /\ FramesIn(down'[conn]) \ {Error("ROLE_CONFLICT")} # {} => conn \in clients
                      /\ Error("ROLE_CONFLICT") \in FramesIn(down'[conn]) => conn \in gone \ clients
    BY <1>7 DEF RegistersOnce
  <2>1. CASE conn \in fresh
    BY <1>1, <1>3, <2>1, FrameKinds
  <2>2. CASE conn \notin fresh
    BY <1>4, <1>5, <2>2 DEF RegistersOnce
  <2> QED
    BY <2>1, <2>2
<1>10. PacketsAreWritten'
  <2>1. \A conn \in Connections : FramesIn(up'[conn]) \cap Packets \subseteq FramesIn(up[conn])
    BY <1>1, <1>3, <1>4, FrameKinds
  <2> QED
    BY <1>5, <1>7, <2>1 DEF PacketsAreWritten
<1>11. AcceptedFirst'
  BY <1>5, <1>7 DEF AcceptedFirst
<1>12. NothingLost'
  <2> SUFFICES ASSUME NEW r \in Parties, NEW p \in Packets, <<r, p>> \in outbox,
                      <<Peer(r), Other(r, p)>> \in clients \ gone'
               PROVE  \/ <<r, p>> \in accepted
                      \/ p \in FramesIn(down'[<<Peer(r), Other(r, p)>>])
                                  \cup FramesIn(up'[<<r, Own(r, p)>>])
                      \/ CutOff(<<r, Own(r, p)>>, p)'
    BY <1>7 DEF NothingLost
  <2>1. PICK conn \in Connections : conn = <<r, Own(r, p)>>
    BY OwnAndOther
  <2>2. PICK peer \in Connections : peer = <<Peer(r), Other(r, p)>>
    BY OwnAndOther, PeerFacts
  <2>3. conn \notin fresh
    BY <2>1 DEF PacketsAreMet, Reconnects
  <2>4. peer \in clients \ gone /\ down'[peer] = down[peer]
    BY <1>4, <1>6, <1>7, <2>2
  <2>5. <<r, p>> \in accepted \/ p \in FramesIn(down[peer]) \cup FramesIn(up[conn]) \/ CutOff(conn, p)
    BY <2>1, <2>2, <2>4 DEF NothingLost
  <2>6. CutOff(conn, p) => CutOff(conn, p)'
    BY <1>4, <1>7, <2>3 DEF CutOff
  <2>7. p \in FramesIn(up[conn]) => p \in FramesIn(up'[conn]) \/ CutOff(conn, p)'
    BY <1>4, <1>7, <2>3 DEF CutOff
  <2> QED
    BY <2>1, <2>2, <2>4, <2>5, <2>6, <2>7
<1>13. AcceptedWithoutGap'
  BY <1>7 DEF AcceptedWithoutGap
<1>14. ASSUME NEW conn \in Connections
       PROVE  /\ Rising(conn[1], up'[conn]) /\ Rising(Peer(conn[1]), down'[conn])
              /\ up'[conn] \in Seq(UpFrames)
              /\ \A packet \in Packets :
                   /\ packet \in FramesIn(up'[conn]) => lastSequence'[conn] < packet.sequence
                   /\ packet \in FramesIn(down'[conn]) => packet.sequence <=
                        lastSequence'[<<Peer(conn[1]), Own(Peer(conn[1]), packet)>>]
  <2>1. CASE conn \in fresh
    <3>1. up'[conn] = <<Register>> /\ down'[conn] = <<>>
      BY <1>3, <2>1
    <3>2. Rising(conn[1], up'[conn]) /\ Rising(Peer(conn[1]), down'[conn]) /\ up'[conn] \in Seq(UpFrames)
      BY <1>1, <1>2, <3>1
    <3>3. \A packet \in Packets : packet \notin FramesIn(up'[conn]) /\ packet \notin FramesIn(down'[conn])
      BY <1>1, <3>1, FrameKinds
    <3> QED
      BY <3>2, <3>3
  <2>2. CASE conn \notin fresh
    <3>1. Rising(conn[1], up'[conn]) /\ up'[conn] \in Seq(UpFrames)
      BY <1>4, <2>2
    <3>2. down'[conn] = <<>> \/ down'[conn] = down[conn]
      BY <1>4, <2>2
    <3>3. Rising(Peer(conn[1]), down'[conn])
      BY <1>2, <3>2 DEF InOrder
    <3>4. FramesIn(up'[conn]) \subseteq FramesIn(up[conn]) /\ FramesIn(down'[conn]) \subseteq FramesIn(down[conn])
      BY <1>4, <1>5, <2>2
    <3>5. \A packet \in Packets :
            /\ packet \in FramesIn(up'[conn]) => lastSequence'[conn] < packet.sequence
            /\ packet \in FramesIn(down'[conn]) => packet.sequence <=
                 lastSequence'[<<Peer(conn[1]), Own(Peer(conn[1]), packet)>>]
      BY <1>7, <3>4 DEF InOrder
    <3> QED
      BY <3>1, <3>3, <3>5
  <2> QED
    BY <2>1, <2>2
<1>15. \A role \in Parties, packet \in Packets : <<role, packet>> \in accepted' =>
          packet.sequence <= lastSequence'[<<role, Own(role, packet)>>]
  BY <1>7 DEF InOrder
<1> QED
  BY <1>4, <1>5, <1>8, <1>9, <1>10, <1>11, <1>12, <1>13, <1>14, <1>15

\* A connection breaks.
LEMMA BreaksKeeps ==
    ASSUME RelayInv, NEW role \in Parties, Breaks(role)
    PROVE  RelayInv'
<1> USE DEF RelayInv, relay, history
<1>1. PICK conn \in Connections : conn = Current(role)
  BY ConnectionFacts, BoundsAreNaturals DEF Breaks, LinkedIsOpen, Types, Current, Numbers
<1>2. /\ linked' = [linked EXCEPT ![role] = FALSE] /\ gone' = gone \cup {conn}
      /\ up' \in Destroyed(up, conn) /\ down' = [down EXCEPT ![conn] = <<>>]
      /\ faults < MaxFaults /\ faults' = faults + 1
      /\ UNCHANGED <<joins, session, limited, peerKey, sent, received, registration, relay, history>>
      /\ conn[1] = role
  BY <1>1 DEF Breaks, Current
<1>3. PICK kept \in 0..Len(up[conn]) : up' = [up EXCEPT ![conn] = SubSeq(@, 1, kept)]
  BY <1>2 DEF Destroyed
<1>4. Reconnects({conn}, {})
  <2>1. up'[conn] = SubSeq(up[conn], 1, kept) /\ \A c \in Connections : c # conn => up'[c] = up[c]
    BY <1>3 DEF Types
  <2>2. down'[conn] = <<>> /\ \A c \in Connections : c # conn => down'[c] = down[c]
    BY <1>2 DEF Types
  <2> QED
    BY <1>2, <2>1, <2>2 DEF Reconnects
<1>5. /\ Places' /\ RegistersOnce' /\ PacketsAreWritten' /\ AcceptedFirst'
      /\ NothingLost' /\ AcceptedWithoutGap'
      /\ \A c \in Connections :
           /\ Rising(c[1], up'[c]) /\ Rising(Peer(c[1]), down'[c])
           /\ up'[c] \in Seq(UpFrames) /\ down'[c] \in Seq(DownFrames)
           /\ FramesIn(down'[c]) \subseteq FramesIn(down[c])
           /\ FramesIn(up'[c]) \subseteq FramesIn(up[c])
           /\ \A packet \in Packets :
                /\ packet \in FramesIn(up'[c]) => lastSequence'[c] < packet.sequence
                /\ packet \in FramesIn(down'[c]) => packet.sequence <=
                     lastSequence'[<<Peer(c[1]), Own(Peer(c[1]), packet)>>]
      /\ \A r \in Parties, packet \in Packets : <<r, packet>> \in accepted' =>
           packet.sequence <= lastSequence'[<<r, Own(r, packet)>>]
  <2>1. {conn} \in SUBSET Connections /\ {} \in SUBSET Connections
    OBVIOUS
  <2> HIDE DEF RelayInv
  <2>2. PICK dead, fresh : dead = {conn} /\ fresh = {}
    OBVIOUS
  <2>3. Reconnects(dead, fresh) /\ dead \in SUBSET Connections /\ fresh \in SUBSET Connections
    BY <1>4, <2>1, <2>2
  <2> QED
    BY <2>2, <2>3, ReconnectKeeps
<1>6. /\ ~linked'[role] /\ \A r \in Parties : linked'[r] => linked[r]
      /\ \A r \in Parties : r # role => linked'[r] = linked[r]
      /\ down'[conn] = <<>> /\ \A c \in Connections : c # conn => down'[c] = down[c] /\ up'[c] = up[c]
  BY <1>2, <1>3 DEF Types
<1>7. Types'
  <2>1. up' \in [Connections -> Seq(UpFrames)] /\ down' \in [Connections -> Seq(DownFrames)]
    <3>1. DOMAIN up' = Connections /\ DOMAIN down' = Connections
      BY <1>2, <1>3 DEF Types
    <3>2. up' = [c \in Connections |-> up'[c]] /\ down' = [c \in Connections |-> down'[c]]
      BY <1>2, <1>3 DEF Types
    <3> QED
      BY <1>5, <3>2
  <2>2. faults' \in 0..MaxFaults /\ linked' \in [Parties -> BOOLEAN]
    BY <1>2, BoundsAreNaturals DEF Types
  <2> QED
    BY <1>2, <2>1, <2>2 DEF Types
<1>8. Onward
  BY <1>2, <1>5 DEF Onward, Opened
<1>9. OpenedInTurn' /\ LinkedIsOpen'
  <2>1. ASSUME NEW c \in Connections, Opened(c)
        PROVE  /\ registration[c] \in Sessions
               /\ c # Current(c[1]) \/ ~linked'[c[1]] => c \in gone'
               /\ c = Current(c[1]) => registration[c] = session[c[1]]
    BY <1>1, <1>2, <1>6, <2>1, ConnectionFacts DEF OpenedInTurn
  <2>2. conn[2] <= joins[conn[1]]
    BY <1>1, <1>2, BoundsAreNaturals DEF Current, Types
  <2>3. ASSUME NEW c \in Connections, ~Opened(c)
        PROVE  up'[c] = <<>> /\ down'[c] = <<>> /\ lastSequence[c] = 0 /\ c \notin gone' \cup clients
    BY <1>2, <1>6, <2>2, <2>3 DEF OpenedInTurn, Opened
  <2>4. OpenedInTurn'
    BY <1>2, <2>1, <2>3 DEF OpenedInTurn, Opened, Current
  <2> QED
    BY <1>2, <1>6, <2>4 DEF LinkedIsOpen
<1>10. GoneIsDestroyed'
  <2> SUFFICES ASSUME NEW c \in gone', c \in clients \/ Register \in FramesIn(up'[c])
               PROVE  down'[c] = <<>> /\ ~(linked'[c[1]] /\ c = Current(c[1]))
    BY <1>2 DEF GoneIsDestroyed, Current
  <2>1. CASE c = conn
    BY <1>2, <1>6, <2>1
  <2>2. CASE c # conn
    <3>1. c \in gone /\ c \in Connections /\ up'[c] = up[c] /\ down'[c] = down[c]
      BY <1>2, <1>6, <2>2 DEF Types
    <3> QED
      BY <1>6, <3>1, ConnectionFacts DEF GoneIsDestroyed
  <2> QED
    BY <2>1, <2>2
<1>11. KeysAreMet'
  <2>1. ASSUME NEW r \in Parties, NEW n, n = peerKey[r], n # 0
        PROVE  joins[r] # 0 /\ Met(Current(r), n)' /\ (linked'[r] => Current(r) \in clients)
    <3>1. joins[r] # 0 /\ Met(Current(r), n) /\ (linked'[r] => Current(r) \in clients)
      BY <1>6, <2>1 DEF KeysAreMet
    <3>2. PICK c : c = Current(r)
      OBVIOUS
    <3>3. Met(c, n)'
      BY <1>2, <1>8, <3>1, <3>2, MetStays
    <3> QED
      BY <1>2, <3>1, <3>2, <3>3 DEF Current, Met
  <2>2. \A r \in Parties : peerKey'[r] # 0 =>
          joins'[r] # 0 /\ Met(Current(r), peerKey[r])' /\ (linked'[r] => Current(r)' \in clients')
    BY <1>2, <2>1 DEF Current, Met
  <2>3. ASSUME NEW c \in Connections, NEW n \in Numbers, PeerKey(n) \in FramesIn(down'[c])
        PROVE  Met(c, n)'
    BY <1>2, <1>5, <1>8, <2>3, MetStays DEF KeysAreMet
  <2> QED
    BY <2>2, <2>3 DEF KeysAreMet
<1>12. PacketsAreMet'
  <2> SUFFICES ASSUME NEW r \in Parties, NEW p \in Packets, <<r, p>> \in outbox
               PROVE  LET c == <<r, Own(r, p)>>
                      IN  /\ Opened(c)' /\ Met(c, Other(r, p))'
                          /\ registration[c] \in limited[r]
                          /\ c = Current(r) => p.sequence <= sent[r]
                          /\ \A n \in Numbers : Own(r, p) < n /\ n <= joins[r] =>
                                registration[<<r, n>>] # registration[c]
    BY <1>2 DEF PacketsAreMet, Current
  <2> DEFINE c == <<r, Own(r, p)>>
  <2>1. Opened(c) /\ Met(c, Other(r, p))
    BY DEF PacketsAreMet
  <2>2. Met(c, Other(r, p))' /\ Opened(c)'
    BY <1>2, <1>8, <2>1, MetStays DEF Opened
  <2> QED
    BY <2>2 DEF PacketsAreMet
<1>13. InOrder'
  <2>1. \A r \in Parties : joins'[r] # 0 => lastSequence'[Current(r)'] <= sent'[r]
    BY <1>2 DEF InOrder, Current
  <2> QED
    BY <1>5, <2>1 DEF InOrder
<1>14. KeysInForce'
  <2> SUFFICES ASSUME NEW c \in Connections
               PROVE  /\ \A i \in 1..Len(down'[c]) :
                            down'[c][i] \in Packets /\ Other(Peer(c[1]), down'[c][i]) = c[2] =>
                              InForce(peerKey[c[1]], down'[c], i, Own(Peer(c[1]), down'[c][i]))
                      /\ \A n \in Numbers :
                            /\ c \in clients \ gone' /\ <<Peer(c[1]), n>> \in clients
                            /\ registration[<<Peer(c[1]), n>>] = registration[c]
                            => InForce(peerKey[c[1]], down'[c], Len(down'[c]) + 1, n)
    BY <1>2 DEF KeysInForce
  <2>1. CASE c = conn
    <3>1. Len(down'[c]) = 0 /\ c \in gone'
      BY <1>2, <1>6, <2>1
    <3> QED
      BY <3>1
  <2>2. CASE c # conn
    BY <1>2, <1>6, <2>2 DEF KeysInForce
  <2> QED
    BY <2>1, <2>2
<1>15. ReceivedIsAccepted'
  BY <1>2 DEF ReceivedIsAccepted
<1> QED
  BY <1>5, <1>7, <1>9, <1>10, <1>11, <1>12, <1>13, <1>14, <1>15

\* The runtime opens a fresh connection for a session whose limit it has not
\* locked: no packet of the role was ever written there.
LEMMA JoinRoomKeeps ==
    ASSUME RelayInv, NEW role \in Parties, NEW s \in Sessions, JoinRoom(role, s)
    PROVE  RelayInv'
<1> USE DEF RelayInv, relay
<1>1. PICK number \in Numbers : number = joins[role] + 1
  BY BoundsAreNaturals DEF JoinRoom, Types, Numbers
<1>2. PICK fresh \in Connections : fresh = <<role, number>>
  BY ConnectionFacts
<1>3. /\ fresh[1] = role /\ fresh[2] = number /\ joins[role] \in Nat /\ number \in Nat
      /\ joins[role] # number /\ number # 0
  BY <1>1, <1>2, BoundsAreNaturals DEF Types, Numbers
<1>3a. \A c \in Connections : c[1] \in Parties /\ c[2] \in Nat /\ c[2] # 0
  BY ConnectionFacts, NumbersArePositive
<1>4. /\ ~Opened(fresh) /\ up[fresh] = <<>> /\ down[fresh] = <<>> /\ lastSequence[fresh] = 0
      /\ fresh \notin gone \cup clients
  BY <1>1, <1>3 DEF Opened, OpenedInTurn
<1>5. /\ joins' = [joins EXCEPT ![role] = number] /\ session' = [session EXCEPT ![role] = s]
      /\ linked' = [linked EXCEPT ![role] = TRUE] /\ peerKey' = [peerKey EXCEPT ![role] = 0]
      /\ sent' = [sent EXCEPT ![role] = 0] /\ received' = [received EXCEPT ![role] = 0]
      /\ registration' = [registration EXCEPT ![fresh] = s]
      /\ s \notin limited[role] /\ UNCHANGED <<limited, relay, faults, outbox, accepted>>
  BY <1>1, <1>2 DEF JoinRoom, Types
<1>6. /\ joins'[role] = number /\ session'[role] = s /\ linked'[role] /\ peerKey'[role] = 0
      /\ sent'[role] = 0 /\ received'[role] = 0
      /\ \A r \in Parties : r # role =>
            /\ joins'[r] = joins[r] /\ session'[r] = session[r] /\ linked'[r] = linked[r]
            /\ peerKey'[r] = peerKey[r] /\ sent'[r] = sent[r] /\ received'[r] = received[r]
      /\ registration'[fresh] = s
      /\ \A conn \in Connections : conn # fresh => registration'[conn] = registration[conn]
  BY <1>5 DEF Types
<1>7. PICK dead \in SUBSET Connections :
        /\ dead = IF joins[role] = 0 THEN {} ELSE {Current(role)}
        /\ Reconnects(dead, {fresh})
        /\ DOMAIN up' = Connections /\ DOMAIN down' = Connections
        /\ up' = [conn \in Connections |-> up'[conn]] /\ down' = [conn \in Connections |-> down'[conn]]
  <2>1. CASE joins[role] = 0
    <3>1. up' = [up EXCEPT ![fresh] = Append(@, Register)] /\ down' = down /\ gone' = gone
      BY <1>1, <1>2, <2>1 DEF JoinRoom, Pushed
    <3>2. up'[fresh] = <<Register>> /\ \A conn \in Connections \ {fresh} : up'[conn] = up[conn]
      BY <1>4, <3>1 DEF Types
    <3>3. Reconnects({}, {fresh})
      BY <1>4, <1>5, <1>6, <3>1, <3>2 DEF Reconnects
    <3>4. DOMAIN up' = Connections /\ DOMAIN down' = Connections
          /\ up' = [conn \in Connections |-> up'[conn]] /\ down' = [conn \in Connections |-> down'[conn]]
      BY <3>1 DEF Types
    <3> QED
      BY <2>1, <3>3, <3>4
  <2>2. CASE joins[role] # 0
    <3>0. joins[role] \in Numbers
      BY <1>3, <2>2, BoundsAreNaturals DEF Types, Numbers
    <3>1. PICK old \in Connections : old = Current(role)
      BY <3>0, ConnectionFacts DEF Current
    <3>2. old # fresh
      BY <1>2, <1>3, <3>1 DEF Current
    <3>3. PICK cut \in Destroyed(up, old) : up' = [cut EXCEPT ![fresh] = Append(@, Register)]
      BY <1>1, <1>2, <2>2, <3>1 DEF JoinRoom, Pushed
    <3>4. PICK kept \in 0..Len(up[old]) : cut = [up EXCEPT ![old] = SubSeq(@, 1, kept)]
      BY DEF Destroyed
    <3>5. /\ up'[fresh] = <<Register>> /\ up'[old] = SubSeq(up[old], 1, kept)
          /\ \A conn \in Connections \ {fresh, old} : up'[conn] = up[conn]
      <4>1. /\ DOMAIN cut = Connections /\ cut[fresh] = <<>> /\ cut[old] = SubSeq(up[old], 1, kept)
            /\ \A conn \in Connections \ {fresh, old} : cut[conn] = up[conn]
        BY <1>4, <3>2, <3>4 DEF Types
      <4>2. /\ up'[fresh] = Append(cut[fresh], Register)
            /\ \A conn \in Connections \ {fresh} : up'[conn] = cut[conn]
        BY <3>3, <4>1
      <4>3. up'[fresh] = <<Register>>
        BY <4>1, <4>2
      <4> QED
        BY <3>2, <4>1, <4>2, <4>3
    <3>6. down' = [down EXCEPT ![old] = <<>>] /\ gone' = gone \cup {old}
      BY <2>2, <3>1 DEF JoinRoom
    <3>7. down'[old] = <<>> /\ \A conn \in Connections \ {old} : down'[conn] = down[conn]
      BY <3>6 DEF Types
    <3>8. Reconnects({old}, {fresh})
      BY <1>4, <1>5, <1>6, <3>2, <3>5, <3>6, <3>7 DEF Reconnects
    <3>9. DOMAIN up' = Connections /\ DOMAIN down' = Connections
          /\ up' = [conn \in Connections |-> up'[conn]] /\ down' = [conn \in Connections |-> down'[conn]]
      BY <3>3, <3>4, <3>6 DEF Types
    <3> QED
      BY <2>2, <3>1, <3>8, <3>9
  <2> QED
    BY <2>1, <2>2
<1>8. /\ Places' /\ RegistersOnce' /\ PacketsAreWritten' /\ AcceptedFirst'
      /\ NothingLost' /\ AcceptedWithoutGap'
      /\ \A c \in Connections :
           /\ Rising(c[1], up'[c]) /\ Rising(Peer(c[1]), down'[c])
           /\ up'[c] \in Seq(UpFrames) /\ down'[c] \in Seq(DownFrames)
           /\ FramesIn(down'[c]) \subseteq FramesIn(down[c])
           /\ c # fresh => FramesIn(up'[c]) \subseteq FramesIn(up[c])
           /\ \A packet \in Packets :
                /\ packet \in FramesIn(up'[c]) => lastSequence'[c] < packet.sequence
                /\ packet \in FramesIn(down'[c]) => packet.sequence <=
                     lastSequence'[<<Peer(c[1]), Own(Peer(c[1]), packet)>>]
      /\ \A r \in Parties, packet \in Packets : <<r, packet>> \in accepted' =>
           packet.sequence <= lastSequence'[<<r, Own(r, packet)>>]
  <2> HIDE DEF RelayInv
  <2>1. PICK opened \in SUBSET Connections : opened = {fresh}
    OBVIOUS
  <2>2. Reconnects(dead, opened)
    BY <1>7, <2>1
  <2> QED
    BY <2>1, <2>2, ReconnectKeeps
<1>9. /\ \A c \in dead : c[1] = role /\ c[2] = joins[role] /\ c # fresh /\ down'[c] = <<>> /\ Opened(c)
      /\ \A c \in Connections \ (dead \cup {fresh}) : down'[c] = down[c] /\ up'[c] = up[c]
      /\ down'[fresh] = <<>> /\ gone' = gone \cup dead
  <2>1. \A c \in dead : c[1] = role /\ c[2] = joins[role] /\ Opened(c)
    BY <1>3, <1>7 DEF Current, Opened
  <2>2. \A c \in dead : c # fresh
    BY <1>3, <2>1
  <2> QED
    BY <1>7, <2>1, <2>2 DEF Reconnects
<1>10. /\ \A c \in Connections : Opened(c)' <=> Opened(c) \/ c = fresh
       /\ Current(role)' = fresh /\ \A r \in Parties : r # role => Current(r)' = Current(r)
  <2>1. \A c \in Connections : c[2] \in Nat /\ (c[1] = role => (c[2] <= number <=> c[2] <= joins[role] \/ c[2] = number))
    BY <1>1, <1>3, <1>3a
  <2>2. \A c \in Connections : c = fresh <=> c[1] = role /\ c[2] = number
    BY <1>2, <1>3, ConnectionFacts
  <2>3. \A c \in Connections : Opened(c)' <=> Opened(c) \/ c = fresh
    <3> SUFFICES ASSUME NEW c \in Connections PROVE Opened(c)' <=> Opened(c) \/ c = fresh
      OBVIOUS
    <3> HIDE DEF RelayInv
    <3>1. CASE c[1] = role
      BY <1>6, <2>1, <2>2, <3>1 DEF Opened
    <3>2. CASE c[1] # role
      BY <1>6, <2>2, <3>2, ConnectionFacts DEF Opened
    <3> QED
      BY <3>1, <3>2
  <2> QED
    BY <1>2, <1>6, <2>3 DEF Current
<1>11. Types'
  <2>1. up' \in [Connections -> Seq(UpFrames)] /\ down' \in [Connections -> Seq(DownFrames)]
    BY <1>7, <1>8
  <2>2. /\ joins' \in [Parties -> 0..MaxJoins] /\ peerKey' \in [Parties -> 0..MaxJoins]
        /\ session' \in [Parties -> Sessions \cup {NoSession}] /\ linked' \in [Parties -> BOOLEAN]
        /\ sent' \in [Parties -> 0..MaxSent] /\ received' \in [Parties -> 0..MaxSent]
        /\ registration' \in [Connections -> Sessions \cup {NoSession}]
    BY <1>1, <1>5, BoundsAreNaturals DEF Types, Numbers
  <2>3. gone' \subseteq Connections
    BY <1>9 DEF Types
  <2> QED
    BY <1>5, <2>1, <2>2, <2>3 DEF Types
<1>12. Onward
  <2> SUFFICES ASSUME NEW c \in Connections, Opened(c)
               PROVE  /\ Opened(c)' /\ registration'[c] = registration[c]
                      /\ Register \in FramesIn(up'[c]) => Register \in FramesIn(up[c])
    BY DEF Onward, Opened
  <2> QED
    BY <1>4, <1>6, <1>8, <1>10
<1>13. OpenedInTurn'
  <2>1. ASSUME NEW c \in Connections, Opened(c)'
        PROVE  /\ registration'[c] \in Sessions
               /\ c # Current(c[1])' \/ ~linked'[c[1]] => c \in gone'
               /\ c = Current(c[1])' => registration'[c] = session'[c[1]]
    <3>1. CASE c = fresh
      BY <1>3, <1>6, <1>10, <3>1
    <3>2. CASE c # fresh /\ c[1] = role
      <4>1. Opened(c) /\ registration'[c] = registration[c] /\ c # Current(role)'
        BY <1>6, <1>10, <2>1, <3>2
      <4>2. c # Current(role) => c \in gone
        BY <3>2, <4>1 DEF OpenedInTurn
      <4>3. c = Current(role) => c \in dead
        <5>1. c = Current(role) => c[2] = joins[role] /\ c[2] # 0
          BY <1>3a DEF Current
        <5> QED
          BY <1>7, <5>1
      <4> QED
        BY <1>9, <3>2, <4>1, <4>2, <4>3 DEF OpenedInTurn
    <3>3. CASE c # fresh /\ c[1] # role
      <4>1. c[1] \in Parties
        BY ConnectionFacts
      <4> QED
        BY <1>6, <1>9, <1>10, <2>1, <3>3, <4>1 DEF OpenedInTurn
    <3> QED
      BY <3>1, <3>2, <3>3
  <2>2. ASSUME NEW c \in Connections, ~Opened(c)'
        PROVE  up'[c] = <<>> /\ down'[c] = <<>> /\ lastSequence'[c] = 0 /\ c \notin gone' \cup clients'
    BY <1>5, <1>9, <1>10, <2>2 DEF OpenedInTurn
  <2> QED
    BY <2>1, <2>2 DEF OpenedInTurn
<1>14. LinkedIsOpen'
  BY <1>3, <1>6 DEF LinkedIsOpen
<1>15. GoneIsDestroyed'
  <2> SUFFICES ASSUME NEW c \in gone', c \in clients \/ Register \in FramesIn(up'[c])
               PROVE  down'[c] = <<>> /\ ~(linked'[c[1]] /\ c = Current(c[1])')
    BY <1>5 DEF GoneIsDestroyed
  <2>1. c \in Connections /\ c[1] \in Parties /\ c # fresh
    BY <1>4, <1>9, <1>11, ConnectionFacts DEF Types
  <2>2. CASE c \in dead
    BY <1>9, <1>10, <2>1, <2>2
  <2>3. CASE c \notin dead
    <3>1. c \in gone /\ up'[c] = up[c] /\ down'[c] = down[c]
      BY <1>9, <2>1, <2>3
    <3>2. down[c] = <<>> /\ ~(linked[c[1]] /\ c = Current(c[1]))
      BY <3>1 DEF GoneIsDestroyed
    <3> QED
      BY <1>6, <1>10, <2>1, <3>1, <3>2
  <2> QED
    BY <2>2, <2>3
<1>16. KeysAreMet'
  <2>1. ASSUME NEW r \in Parties, NEW n, n = peerKey'[r], n # 0
        PROVE  joins'[r] # 0 /\ Met(Current(r), n)' /\ (linked'[r] => Current(r)' \in clients')
    <3>1. r # role /\ peerKey[r] = n
      BY <1>6, <2>1
    <3>2. joins[r] # 0 /\ Met(Current(r), n) /\ (linked[r] => Current(r) \in clients)
      BY <2>1, <3>1 DEF KeysAreMet
    <3>3. PICK c \in Connections : c = Current(r)
      <4>0. joins \in [Parties -> 0..MaxJoins]
        BY DEF Types
      <4> HIDE DEF RelayInv
      <4>1. joins[r] \in Numbers
        BY <3>2, <4>0, BoundsAreNaturals DEF Numbers
      <4> QED
        BY <4>1, ConnectionFacts DEF Current
    <3>4. c # fresh
      BY <1>3, <3>1, <3>3 DEF Current
    <3>5. Met(c, n)'
      BY <1>6, <1>12, <3>2, <3>3, <3>4, MetStays
    <3>6. Current(r)' = c
      BY <1>10, <3>1, <3>3
    <3> QED
      BY <1>5, <1>6, <3>1, <3>2, <3>3, <3>5, <3>6 DEF Met
  <2>2. \A r \in Parties : peerKey'[r] # 0 =>
          joins'[r] # 0 /\ Met(Current(r), peerKey[r])' /\ (linked'[r] => Current(r)' \in clients')
    BY <2>1 DEF Met
  <2>3. ASSUME NEW c \in Connections, NEW n \in Numbers, PeerKey(n) \in FramesIn(down'[c])
        PROVE  Met(c, n)'
    <3>1. PeerKey(n) \in FramesIn(down[c]) /\ Met(c, n)
      BY <1>8, <2>3 DEF KeysAreMet
    <3>2. c # fresh
      BY <1>4, <3>1 DEF FramesIn
    <3> QED
      BY <1>6, <1>12, <3>1, <3>2, MetStays
  <2> QED
    BY <2>2, <2>3 DEF KeysAreMet
<1>17. PacketsAreMet'
  <2> SUFFICES ASSUME NEW r \in Parties, NEW p \in Packets, <<r, p>> \in outbox
               PROVE  LET c == <<r, Own(r, p)>>
                      IN  /\ Opened(c)' /\ Met(c, Other(r, p))'
                          /\ registration'[c] \in limited[r]
                          /\ c = Current(r)' => p.sequence <= sent'[r]
                          /\ \A n \in Numbers : Own(r, p) < n /\ n <= joins'[r] =>
                                registration'[<<r, n>>] # registration'[c]
    BY <1>5 DEF PacketsAreMet
  <2>1. PICK c \in Connections : c = <<r, Own(r, p)>>
    BY OwnAndOther
  <2>2. /\ Opened(c) /\ Met(c, Other(r, p)) /\ registration[c] \in limited[r]
        /\ c = Current(r) => p.sequence <= sent[r]
        /\ \A n \in Numbers : Own(r, p) < n /\ n <= joins[r] => registration[<<r, n>>] # registration[c]
    BY <2>1 DEF PacketsAreMet
  <2>3. c # fresh /\ registration'[c] = registration[c] /\ Opened(c)' /\ Met(c, Other(r, p))'
    BY <1>4, <1>6, <1>10, <1>12, <2>2, MetStays
  <2>4. c = Current(r)' => p.sequence <= sent'[r]
    BY <1>6, <1>10, <2>2, <2>3
  <2>5. ASSUME NEW n \in Numbers, Own(r, p) < n, n <= joins'[r]
        PROVE  registration'[<<r, n>>] # registration'[c]
    <3>1. PICK other \in Connections : other = <<r, n>>
      BY ConnectionFacts
    <3>2. CASE other = fresh
      BY <1>3, <1>5, <1>6, <2>2, <2>3, <3>1, <3>2
    <3>3. CASE other # fresh
      <4>1. Opened(other)'
        BY <2>5, <3>1 DEF Opened
      <4>2. n <= joins[r]
        BY <1>10, <3>1, <3>3, <4>1 DEF Opened
      <4> QED
        BY <1>6, <2>2, <2>3, <2>5, <3>1, <3>3, <4>2
    <3> QED
      BY <3>2, <3>3
  <2> QED
    BY <2>1, <2>2, <2>3, <2>4, <2>5
<1>18. InOrder'
  <2>1. \A r \in Parties : joins'[r] # 0 => lastSequence'[Current(r)'] <= sent'[r]
    BY <1>4, <1>5, <1>6, <1>10 DEF InOrder
  <2> QED
    BY <1>8, <2>1 DEF InOrder
<1>19. KeysInForce'
  <2> SUFFICES ASSUME NEW c \in Connections
               PROVE  /\ \A i \in 1..Len(down'[c]) :
                            down'[c][i] \in Packets /\ Other(Peer(c[1]), down'[c][i]) = c[2] =>
                              InForce(peerKey'[c[1]], down'[c], i, Own(Peer(c[1]), down'[c][i]))
                      /\ \A n \in Numbers :
                            /\ c \in clients \ gone' /\ <<Peer(c[1]), n>> \in clients
                            /\ registration'[<<Peer(c[1]), n>>] = registration'[c]
                            => InForce(peerKey'[c[1]], down'[c], Len(down'[c]) + 1, n)
    BY <1>5 DEF KeysInForce
  <2>1. CASE c[1] = role
    <3>1. c \in dead \cup {fresh} => c \notin clients \ gone' /\ FramesIn(down'[c]) = {}
      BY <1>4, <1>9 DEF FramesIn
    <3>2. c \notin dead \cup {fresh} => c \notin clients \ gone
      <4>1. c \in clients \ gone => c = Current(role) /\ joins[role] = c[2] /\ joins[role] # 0
        <5>1. c \in clients \ gone => c = Current(role)
          BY <2>1, WorkingIsCurrent
        <5>2. c = Current(role) => joins[role] = c[2]
          BY DEF Current
        <5> QED
          BY <1>3a, <5>1, <5>2
      <4> QED
        BY <1>7, <4>1
    <3>3. c \notin clients \ gone' /\ FramesIn(down'[c]) \cap Packets = {}
      <4>1. CASE c \in dead \cup {fresh}
        BY <3>1, <4>1
      <4>2. CASE c \notin dead \cup {fresh}
        BY <1>9, <3>2, <4>2, WorkingIsCurrent
      <4> QED
        BY <4>1, <4>2
    <3>4. \A i \in 1..Len(down'[c]) : down'[c][i] \notin Packets
      BY <3>3 DEF FramesIn
    <3> QED
      BY <3>3, <3>4
  <2>2. CASE c[1] # role
    <3>1. c \notin dead \cup {fresh} /\ c[1] \in Parties
      BY <1>3, <1>9, <2>2, ConnectionFacts
    <3>2. /\ down'[c] = down[c] /\ peerKey'[c[1]] = peerKey[c[1]] /\ registration'[c] = registration[c]
          /\ c \in clients \ gone' => c \in clients \ gone
      BY <1>6, <1>9, <2>2, <3>1
    <3>3. \A n \in Numbers : <<Peer(c[1]), n>> \in clients =>
            registration'[<<Peer(c[1]), n>>] = registration[<<Peer(c[1]), n>>]
      BY <1>4, <1>6 DEF Types
    <3> QED
      BY <3>2, <3>3 DEF KeysInForce
  <2> QED
    BY <2>1, <2>2
<1>20. ReceivedIsAccepted'
  <2> SUFFICES ASSUME NEW r \in Parties, received'[r] # 0
               PROVE  \E p \in Packets :
                        /\ <<Peer(r), p>> \in accepted /\ p.sequence = received'[r]
                        /\ Other(Peer(r), p) = joins'[r]
    BY <1>5 DEF ReceivedIsAccepted
  <2>1. received'[r] = received[r] /\ joins'[r] = joins[r]
    BY <1>6
  <2> QED
    BY <2>1 DEF ReceivedIsAccepted
<1> QED
  BY <1>8, <1>11, <1>13, <1>14, <1>15, <1>16, <1>17, <1>18, <1>19, <1>20

\* What reading a frame does to the queue it is taken from.
LEMMA ReadsFrame ==
    ASSUME RelayInv, NEW conn \in Connections, RelayReads(conn)
    PROVE  /\ UNCHANGED <<joins, session, limited, linked, peerKey, sent, received,
                          registration, faults, outbox, accepted, told>>
           /\ up' \in [Connections -> Seq(UpFrames)]
           /\ \A c \in Connections : c # conn => up'[c] = up[c]
           /\ Head(up[conn]) \in UpFrames
           /\ FramesIn(up[conn]) = FramesIn(up'[conn]) \cup {Head(up[conn])}
           /\ \A c \in Connections : FramesIn(up'[c]) \subseteq FramesIn(up[c]) /\ Rising(c[1], up'[c])
           /\ up[conn] = <<Register>> => up'[conn] = <<>>
           /\ Head(up[conn]) \in Packets => \A other \in FramesIn(up'[conn]) \cap Packets :
                 Head(up[conn]).sequence < other.sequence
           /\ Opened(conn) /\ registration[conn] \in Sessions
           /\ \A c \in Connections, n \in Numbers : Met(c, n) => Met(c, n)'
           /\ LinkedIsOpen' /\ ReceivedIsAccepted' /\ AcceptedWithoutGap' /\ PacketsAreMet'
<1> USE DEF RelayInv
<1>1. /\ UNCHANGED <<joins, session, limited, linked, peerKey, sent, received,
                     registration, faults, outbox, accepted, told>>
      /\ up[conn] # <<>> /\ up' = [up EXCEPT ![conn] = Tail(@)]
  BY DEF RelayReads, runtime, history
<1>2. up[conn] \in Seq(UpFrames) /\ Rising(conn[1], up[conn])
  BY DEF Types, InOrder
<1>3. /\ Tail(up[conn]) \in Seq(UpFrames) /\ Head(up[conn]) \in UpFrames
      /\ FramesIn(up[conn]) = FramesIn(Tail(up[conn])) \cup {Head(up[conn])}
  BY <1>1, <1>2, TailFrames
<1>4. /\ up' \in [Connections -> Seq(UpFrames)] /\ up'[conn] = Tail(up[conn])
      /\ \A c \in Connections : c # conn => up'[c] = up[c]
  BY <1>1, <1>3 DEF Types
<1>5. /\ Rising(conn[1], up'[conn])
      /\ Head(up[conn]) \in Packets => \A other \in FramesIn(up'[conn]) \cap Packets :
            Own(conn[1], other) = Own(conn[1], Head(up[conn])) => Head(up[conn]).sequence < other.sequence
  BY <1>1, <1>2, <1>4, RisingTail
<1>6. \A c \in Connections : FramesIn(up'[c]) \subseteq FramesIn(up[c]) /\ Rising(c[1], up'[c])
  BY <1>3, <1>4, <1>5 DEF InOrder
<1>7. Head(up[conn]) \in Packets => \A other \in FramesIn(up'[conn]) \cap Packets :
                 Head(up[conn]).sequence < other.sequence
  BY <1>3, <1>4, <1>5 DEF PacketsAreWritten
<1>8. Opened(conn) /\ registration[conn] \in Sessions
  BY <1>1 DEF OpenedInTurn
<1>9. Onward
  BY <1>1, <1>6 DEF Onward, Opened
<1>10. \A c \in Connections, n \in Numbers : Met(c, n) => Met(c, n)'
  BY <1>1, <1>9, MetStays
<1>11. LinkedIsOpen' /\ ReceivedIsAccepted' /\ AcceptedWithoutGap'
  BY <1>1 DEF LinkedIsOpen, ReceivedIsAccepted, AcceptedWithoutGap
<1>12. PacketsAreMet'
  <2> SUFFICES ASSUME NEW r \in Parties, NEW p \in Packets, <<r, p>> \in outbox
               PROVE  LET c == <<r, Own(r, p)>>
                      IN  /\ Opened(c)' /\ Met(c, Other(r, p))'
                          /\ registration[c] \in limited[r]
                          /\ c = Current(r) => p.sequence <= sent[r]
                          /\ \A n \in Numbers : Own(r, p) < n /\ n <= joins[r] =>
                                registration[<<r, n>>] # registration[c]
    BY <1>1 DEF PacketsAreMet, Current
  <2> DEFINE c == <<r, Own(r, p)>>
  <2>1. Opened(c) /\ Met(c, Other(r, p)) /\ c \in Connections /\ Other(r, p) \in Numbers
    BY OwnAndOther DEF PacketsAreMet
  <2>2. Met(c, Other(r, p))' /\ Opened(c)'
    BY <1>1, <1>10, <2>1 DEF Opened
  <2> QED
    BY <2>2 DEF PacketsAreMet
<1>13. up[conn] = <<Register>> => up'[conn] = <<>>
  BY <1>4
<1> QED
  BY <1>1, <1>3, <1>4, <1>6, <1>7, <1>8, <1>10, <1>11, <1>12, <1>13

\* The keys of the runtimes stay those of connections they met.
LEMMA KeysStayMet ==
    ASSUME RelayInv, NEW conn \in Connections, RelayReads(conn), clients \subseteq clients'
    PROVE  \A r \in Parties : peerKey'[r] # 0 =>
              joins'[r] # 0 /\ Met(Current(r), peerKey[r])' /\ (linked'[r] => Current(r)' \in clients')
<1> USE DEF RelayInv
<1>1. /\ UNCHANGED <<joins, linked, peerKey, registration>>
      /\ \A c \in Connections, n \in Numbers : Met(c, n) => Met(c, n)'
  BY ReadsFrame
<1>2. ASSUME NEW r \in Parties, NEW n, n = peerKey[r], n # 0
      PROVE  joins[r] # 0 /\ Met(Current(r), n)' /\ (linked[r] => Current(r) \in clients)
  <2>1. joins[r] # 0 /\ Met(Current(r), n) /\ (linked[r] => Current(r) \in clients)
    BY <1>2 DEF KeysAreMet
  <2>2. joins[r] \in Numbers /\ n \in Numbers
    BY <1>2, <2>1, BoundsAreNaturals DEF Types, Numbers
  <2>3. PICK c \in Connections : c = Current(r)
    BY <2>2, ConnectionFacts DEF Current
  <2>4. Met(c, n)'
    BY <1>1, <2>1, <2>2, <2>3
  <2> QED
    BY <1>1, <2>1, <2>3, <2>4 DEF Current, Met
<1> QED
  BY <1>1, <1>2 DEF Current, Met

\* A registered connection has its own place, and the other role's registered
\* connections of its room have the other one.
LEMMA RoomOfTwo ==
    ASSUME RelayInv, NEW conn \in Connections, registration[conn] \in Sessions,
           NEW n, n = rooms[registration[conn]][Peer(conn[1])]
    PROVE  /\ n = 0 \/ n \in Numbers
           /\ n # 0 => /\ <<Peer(conn[1]), n>> \in clients /\ <<Peer(conn[1]), n>> \in Connections
                       /\ registration[<<Peer(conn[1]), n>>] = registration[conn]
           /\ \A other \in clients :
                 other[1] = Peer(conn[1]) /\ registration[other] = registration[conn] =>
                    other[2] = n /\ n # 0
<1>1. Peer(conn[1]) \in Parties
  BY ConnectionFacts, PeerFacts
<1>2. n = 0 \/ n \in Numbers
  BY <1>1, BoundsAreNaturals DEF RelayInv, Types, Numbers
<1>3. n # 0 => /\ <<Peer(conn[1]), n>> \in clients /\ <<Peer(conn[1]), n>> \in Connections
               /\ registration[<<Peer(conn[1]), n>>] = registration[conn]
  BY <1>1 DEF RelayInv, Places, Types
<1>4. ASSUME NEW other \in clients, other[1] = Peer(conn[1]), registration[other] = registration[conn]
      PROVE  other[2] = n /\ n # 0
  <2>1. other \in Connections /\ other[2] = n
    BY <1>4 DEF RelayInv, Places, Types
  <2> QED
    BY <2>1, NumbersArePositive
<1> QED
  BY <1>2, <1>3, <1>4

\* The place is taken: the relay answers ROLE_CONFLICT and ends the connection.
LEMMA ConflictKeeps ==
    ASSUME RelayInv, NEW conn \in Connections, RelayReads(conn), up[conn] = <<Register>>,
           conn \notin clients, down[conn] = <<>>,
           ~PlaceIsFree(rooms[registration[conn]], conn[1]), RegisterClient(conn), UNCHANGED lastSequence
    PROVE  RelayInv'
<1> USE DEF RelayInv
<1>0. PICK refusal : refusal = Error("ROLE_CONFLICT")
  OBVIOUS
<1>1. /\ UNCHANGED <<joins, session, limited, linked, peerKey, sent, received,
                     registration, faults, outbox, accepted, told>>
      /\ up' \in [Connections -> Seq(UpFrames)] /\ up'[conn] = <<>>
      /\ \A c \in Connections : c # conn => up'[c] = up[c]
      /\ \A c \in Connections : FramesIn(up'[c]) \subseteq FramesIn(up[c]) /\ Rising(c[1], up'[c])
      /\ Opened(conn)
      /\ \A c \in Connections, n \in Numbers : Met(c, n) => Met(c, n)'
      /\ LinkedIsOpen' /\ ReceivedIsAccepted' /\ AcceptedWithoutGap' /\ PacketsAreMet'
  BY ReadsFrame
<1>2. /\ down' = IF conn \in gone THEN down ELSE [down EXCEPT ![conn] = Append(@, refusal)]
      /\ gone' = gone \cup {conn} /\ UNCHANGED <<rooms, clients, lastSequence>>
  BY <1>0 DEF RegisterClient, Written, Pushed
<1>3. FramesIn(<<>>) = {} /\ FramesIn(<<refusal>>) = {refusal} /\ Len(<<>>) = 0
  BY DEF FramesIn
<1>4. FramesIn(up[conn]) = {Register} /\ FramesIn(up'[conn]) = {} /\ FramesIn(down[conn]) = {}
  BY <1>1, <1>3, NoFrames DEF Types
<1>5. /\ down'[conn] \in {<<>>, <<refusal>>}
      /\ \A c \in Connections : c # conn => down'[c] = down[c]
      /\ DOMAIN down' = Connections /\ down' = [c \in Connections |-> down'[c]]
  <2>1. down \in [Connections -> Seq(DownFrames)]
    BY DEF Types
  <2>2. CASE conn \in gone
    BY <1>2, <2>1, <2>2
  <2>3. CASE conn \notin gone
    <3>1. down' = [down EXCEPT ![conn] = Append(down[conn], refusal)]
      BY <1>2, <2>1, <2>3
    <3>2. Append(down[conn], refusal) = <<refusal>>
      OBVIOUS
    <3> QED
      BY <2>1, <3>1, <3>2
  <2> QED
    BY <2>2, <2>3
<1>6. FramesIn(down'[conn]) \subseteq {refusal} /\ refusal \notin Packets
        /\ \A n \in Numbers : PeerKey(n) # refusal
  <2>1. FramesIn(down'[conn]) \subseteq {refusal}
    BY <1>3, <1>5
  <2> QED
    BY <1>0, <2>1, FrameKinds
<1>7. \A c \in Connections :
        /\ FramesIn(up'[c]) \cap Packets = FramesIn(up[c]) \cap Packets
        /\ FramesIn(down'[c]) \cap Packets = FramesIn(down[c]) \cap Packets
  <2> SUFFICES ASSUME NEW c \in Connections
               PROVE  /\ FramesIn(up'[c]) \cap Packets = FramesIn(up[c]) \cap Packets
                      /\ FramesIn(down'[c]) \cap Packets = FramesIn(down[c]) \cap Packets
    OBVIOUS
  <2>1. CASE c = conn
    <3>1. FramesIn(up'[conn]) \cap Packets = {} /\ FramesIn(up[conn]) \cap Packets = {}
      BY <1>4, FrameKinds
    <3>2. FramesIn(down'[conn]) \cap Packets = {} /\ FramesIn(down[conn]) \cap Packets = {}
      BY <1>4, <1>6
    <3> QED
      BY <2>1, <3>1, <3>2
  <2>2. CASE c # conn
    BY <1>1, <1>5, <2>2
  <2> QED
    BY <2>1, <2>2
<1>8. Types'
  <2>1. refusal \in DownFrames
    BY <1>0 DEF DownFrames
  <2>2. <<refusal>> \in Seq(DownFrames) /\ <<>> \in Seq(DownFrames)
    BY <2>1
  <2>3. \A c \in Connections : down'[c] \in Seq(DownFrames)
    BY <1>5, <2>2 DEF Types
  <2>4. down' \in [Connections -> Seq(DownFrames)]
    BY <1>5, <2>3
  <2> QED
    BY <1>1, <1>2, <2>4 DEF Types
<1>9. Places'
  BY <1>1, <1>2 DEF Places
<1>10. OpenedInTurn'
  <2>1. ASSUME NEW c \in Connections, Opened(c)
        PROVE  /\ registration[c] \in Sessions
               /\ c # Current(c[1]) \/ ~linked[c[1]] => c \in gone'
               /\ c = Current(c[1]) => registration[c] = session[c[1]]
    BY <1>2, <2>1 DEF OpenedInTurn
  <2>2. ASSUME NEW c \in Connections, ~Opened(c)
        PROVE  up'[c] = <<>> /\ down'[c] = <<>> /\ lastSequence[c] = 0 /\ c \notin gone' \cup clients
    <3>1. up[c] = <<>> /\ down[c] = <<>> /\ lastSequence[c] = 0 /\ c \notin gone \cup clients
      BY <2>2 DEF OpenedInTurn
    <3>2. c # conn
      BY <1>1, <2>2
    <3> QED
      BY <1>1, <1>2, <1>5, <3>1, <3>2
  <2> QED
    BY <1>1, <1>2, <2>1, <2>2 DEF OpenedInTurn, Opened, Current
<1>11. RegistersOnce'
  <2> SUFFICES ASSUME NEW c \in Connections
               PROVE  /\ Register \in FramesIn(up'[c]) =>
                            up'[c] = <<Register>> /\ c \notin clients /\ down'[c] = <<>>
                      /\ FramesIn(up'[c]) \cap Packets # {} => c \in clients
                      /\ FramesIn(down'[c]) \ {refusal} # {} => c \in clients
                      /\ refusal \in FramesIn(down'[c]) => c \in gone' \ clients
    BY <1>0, <1>2 DEF RegistersOnce
  <2>1. CASE c = conn
    BY <1>2, <1>4, <1>6, <2>1
  <2>2. CASE c # conn
    BY <1>0, <1>1, <1>2, <1>5, <2>2 DEF RegistersOnce
  <2> QED
    BY <2>1, <2>2
<1>12. GoneIsDestroyed'
  BY <1>1, <1>2, <1>4, <1>5 DEF GoneIsDestroyed, Current, Types
<1>13. KeysAreMet'
  <2>2. \A r \in Parties : peerKey'[r] # 0 =>
          joins'[r] # 0 /\ Met(Current(r), peerKey[r])' /\ (linked'[r] => Current(r)' \in clients')
    BY <1>2, KeysStayMet
  <2>3. ASSUME NEW c \in Connections, NEW n \in Numbers, PeerKey(n) \in FramesIn(down'[c])
        PROVE  Met(c, n)'
    BY <1>1, <1>5, <1>6, <2>3 DEF KeysAreMet
  <2> QED
    BY <2>2, <2>3 DEF KeysAreMet
<1>14. PacketsAreWritten' /\ AcceptedFirst'
  BY <1>1, <1>7 DEF PacketsAreWritten, AcceptedFirst
<1>15. InOrder'
  <2>1. Rising(Peer(conn[1]), down'[conn])
    <3>1. FramesIn(down'[conn]) \cap Packets = {}
      BY <1>6
    <3> QED
      BY <3>1, NoPackets
  <2>2. \A c \in Connections : Rising(c[1], up'[c]) /\ Rising(Peer(c[1]), down'[c])
    BY <1>1, <1>5, <2>1 DEF InOrder
  <2>3. \A c \in Connections, p \in Packets :
          /\ p \in FramesIn(up'[c]) => lastSequence'[c] < p.sequence
          /\ p \in FramesIn(down'[c]) =>
                p.sequence <= lastSequence'[<<Peer(c[1]), Own(Peer(c[1]), p)>>]
    BY <1>2, <1>7 DEF InOrder
  <2>4. /\ \A r \in Parties, p \in Packets : <<r, p>> \in accepted' =>
              p.sequence <= lastSequence'[<<r, Own(r, p)>>]
        /\ \A r \in Parties : joins'[r] # 0 => lastSequence'[Current(r)'] <= sent'[r]
    BY <1>1, <1>2 DEF InOrder, Current
  <2> QED
    BY <2>2, <2>3, <2>4 DEF InOrder
<1>16. KeysInForce'
  <2> SUFFICES ASSUME NEW c \in Connections
               PROVE  /\ \A i \in 1..Len(down'[c]) :
                            down'[c][i] \in Packets /\ Other(Peer(c[1]), down'[c][i]) = c[2] =>
                              InForce(peerKey[c[1]], down'[c], i, Own(Peer(c[1]), down'[c][i]))
                      /\ \A n \in Numbers :
                            /\ c \in clients \ gone' /\ <<Peer(c[1]), n>> \in clients
                            /\ registration[<<Peer(c[1]), n>>] = registration[c]
                            => InForce(peerKey[c[1]], down'[c], Len(down'[c]) + 1, n)
    BY <1>1, <1>2 DEF KeysInForce
  <2>1. CASE c = conn
    <3>1. FramesIn(down'[c]) \cap Packets = {}
      BY <1>6, <2>1
    <3> QED
      BY <2>1, <3>1, NoPackets
  <2>2. CASE c # conn
    BY <1>2, <1>5, <2>2 DEF KeysInForce
  <2> QED
    BY <2>1, <2>2
<1>17. NothingLost'
  <2> SUFFICES ASSUME NEW r \in Parties, NEW p \in Packets, <<r, p>> \in outbox,
                      <<Peer(r), Other(r, p)>> \in clients \ gone'
               PROVE  \/ <<r, p>> \in accepted
                      \/ p \in FramesIn(down'[<<Peer(r), Other(r, p)>>])
                                  \cup FramesIn(up'[<<r, Own(r, p)>>])
                      \/ CutOff(<<r, Own(r, p)>>, p)'
    BY <1>1, <1>2 DEF NothingLost
  <2>1. <<r, Own(r, p)>> \in Connections /\ <<Peer(r), Other(r, p)>> \in Connections
    BY PeerFacts, OwnAndOther
  <2>2. CutOff(<<r, Own(r, p)>>, p) => CutOff(<<r, Own(r, p)>>, p)'
    BY <1>2, <1>7, <2>1 DEF CutOff
  <2> QED
    BY <1>2, <1>7, <2>1, <2>2 DEF NothingLost
<1> QED
  BY <1>1, <1>8, <1>9, <1>10, <1>11, <1>12, <1>13, <1>14, <1>15, <1>16, <1>17

\* The place is free: the relay registers the connection, and each party of the
\* room gets the other's key.
LEMMA RegisteredKeeps ==
    ASSUME RelayInv, NEW conn \in Connections, RelayReads(conn), up[conn] = <<Register>>,
           conn \notin clients, down[conn] = <<>>,
           PlaceIsFree(rooms[registration[conn]], conn[1]), RegisterClient(conn), UNCHANGED lastSequence
    PROVE  RelayInv'
<1> USE DEF RelayInv
<1>1. /\ UNCHANGED <<joins, session, limited, linked, peerKey, sent, received,
                     registration, faults, outbox, accepted, told>>
      /\ up' \in [Connections -> Seq(UpFrames)] /\ up'[conn] = <<>>
      /\ \A c \in Connections : c # conn => up'[c] = up[c]
      /\ \A c \in Connections : FramesIn(up'[c]) \subseteq FramesIn(up[c]) /\ Rising(c[1], up'[c])
      /\ Opened(conn) /\ registration[conn] \in Sessions
      /\ \A c \in Connections, n \in Numbers : Met(c, n) => Met(c, n)'
      /\ LinkedIsOpen' /\ ReceivedIsAccepted' /\ AcceptedWithoutGap' /\ PacketsAreMet'
  BY ReadsFrame
<1>2. PICK s \in Sessions : s = registration[conn]
  BY <1>1
<1>3. PICK n0 : n0 = rooms[s][Peer(conn[1])]
  OBVIOUS
<1>4. PICK peer : peer = <<Peer(conn[1]), n0>>
  OBVIOUS
<1>5. /\ n0 = 0 \/ n0 \in Numbers
      /\ n0 # 0 => peer \in clients /\ peer \in Connections /\ registration[peer] = s
      /\ \A other \in clients : other[1] = Peer(conn[1]) /\ registration[other] = s => other[2] = n0 /\ n0 # 0
  BY <1>1, <1>2, <1>3, <1>4, RoomOfTwo
<1>6. /\ conn[1] \in Parties /\ conn[2] \in Numbers /\ conn = <<conn[1], conn[2]>> /\ conn[2] # 0
      /\ Peer(conn[1]) \in Parties /\ Peer(conn[1]) # conn[1] /\ Peer(Peer(conn[1])) = conn[1]
      /\ peer[1] = Peer(conn[1]) /\ peer[2] = n0 /\ peer # conn
  <2>1. conn[1] \in Parties /\ conn[2] \in Numbers /\ conn = <<conn[1], conn[2]>> /\ conn[2] # 0
    BY ConnectionFacts, NumbersArePositive
  <2>2. Peer(conn[1]) \in Parties /\ Peer(conn[1]) # conn[1] /\ Peer(Peer(conn[1])) = conn[1]
    BY <2>1, PeerFacts
  <2>3. peer[1] = Peer(conn[1]) /\ peer[2] = n0
    BY <1>4
  <2> QED
    BY <2>1, <2>2, <2>3
<1>7. /\ rooms[s][conn[1]] = 0 /\ rooms' = [rooms EXCEPT ![s][conn[1]] = conn[2]]
      /\ clients' = clients \cup {conn} /\ UNCHANGED <<gone, lastSequence>>
      /\ down' = IF n0 = 0 THEN down ELSE Introduce(conn, peer)
  BY <1>2, <1>3, <1>4, <1>6 DEF RegisterClient, PlaceIsFree
<1>8. PICK key0, key1 : key0 = PeerKey(n0) /\ key1 = PeerKey(conn[2])
  OBVIOUS
<1>9. n0 # 0 => key0 \in DownFrames /\ key1 \in DownFrames /\ key0 \notin Packets /\ key1 \notin Packets
  BY <1>5, <1>6, <1>8, FrameKinds DEF DownFrames
<1>10. \A c \in Connections :
        IF n0 # 0 /\ c \in {conn, peer} \ gone
        THEN down'[c] = Append(down[c], IF c = conn THEN key0 ELSE key1)
        ELSE down'[c] = down[c]
  <2>1. CASE n0 = 0
    BY <1>7, <2>1
  <2>2. CASE n0 # 0
    <3>1. PICK first : first = Written(down, conn, key0)
      OBVIOUS
    <3>2. down' = Written(first, peer, key1)
      BY <1>4, <1>6, <1>7, <1>8, <2>2, <3>1 DEF Introduce
    <3>3. down \in [Connections -> Seq(DownFrames)] /\ peer \in Connections
      BY <1>5, <2>2 DEF Types
    <3>4. /\ DOMAIN first = Connections
          /\ \A c \in Connections :
                first[c] = IF c = conn /\ conn \notin gone THEN Append(down[c], key0) ELSE down[c]
      BY <3>1, <3>3 DEF Written, Pushed
    <3>5. \A c \in Connections :
            down'[c] = IF c = peer /\ peer \notin gone THEN Append(first[c], key1) ELSE first[c]
      BY <3>2, <3>3, <3>4 DEF Written, Pushed
    <3> QED
      BY <1>6, <2>2, <3>4, <3>5
  <2> QED
    BY <2>1, <2>2
<1>11. DOMAIN down' = Connections /\ down' = [c \in Connections |-> down'[c]]
  BY <1>7 DEF Introduce, Written, Pushed, Types
<1>12. /\ \A c \in Connections : FramesIn(down'[c]) =
            FramesIn(down[c]) \cup (IF n0 # 0 /\ c \in {conn, peer} \ gone
                                    THEN {IF c = conn THEN key0 ELSE key1} ELSE {})
       /\ \A c \in Connections : down'[c] \in Seq(DownFrames)
  <2> SUFFICES ASSUME NEW c \in Connections
               PROVE  /\ down'[c] \in Seq(DownFrames)
                      /\ FramesIn(down'[c]) =
                           FramesIn(down[c]) \cup (IF n0 # 0 /\ c \in {conn, peer} \ gone
                                                   THEN {IF c = conn THEN key0 ELSE key1} ELSE {})
    OBVIOUS
  <2>1. down[c] \in Seq(DownFrames)
    BY DEF Types
  <2>2. CASE n0 # 0 /\ c \in {conn, peer} \ gone
    <3>1. PICK frame \in DownFrames : frame = IF c = conn THEN key0 ELSE key1
      BY <1>9, <2>2
    <3>2. down'[c] = Append(down[c], frame)
      BY <1>10, <2>2, <3>1
    <3>3. FramesIn(down'[c]) = FramesIn(down[c]) \cup {frame} /\ down'[c] \in Seq(DownFrames)
      BY <2>1, <3>2, AppendFrames
    <3> QED
      BY <2>2, <3>1, <3>3
  <2>3. CASE ~(n0 # 0 /\ c \in {conn, peer} \ gone)
    BY <1>10, <2>1, <2>3
  <2> QED
    BY <2>2, <2>3
<1>13. FramesIn(up[conn]) = {Register} /\ FramesIn(up'[conn]) = {} /\ FramesIn(down[conn]) = {}
  BY <1>1, NoFrames DEF Types
<1>14. \A c \in Connections :
        /\ FramesIn(up'[c]) \cap Packets = FramesIn(up[c]) \cap Packets
        /\ FramesIn(down'[c]) \cap Packets = FramesIn(down[c]) \cap Packets
  <2> SUFFICES ASSUME NEW c \in Connections
               PROVE  /\ FramesIn(up'[c]) \cap Packets = FramesIn(up[c]) \cap Packets
                      /\ FramesIn(down'[c]) \cap Packets = FramesIn(down[c]) \cap Packets
    OBVIOUS
  <2>1. FramesIn(down'[c]) \cap Packets = FramesIn(down[c]) \cap Packets
    BY <1>9, <1>12
  <2>2. FramesIn(up'[conn]) \cap Packets = {} /\ FramesIn(up[conn]) \cap Packets = {}
    BY <1>13, FrameKinds
  <2>3. FramesIn(up'[c]) \cap Packets = FramesIn(up[c]) \cap Packets
    BY <1>1, <2>2
  <2> QED
    BY <2>1, <2>3
<1>15. /\ rooms' \in [Sessions -> [Parties -> 0..MaxJoins]]
       /\ \A x \in Sessions, r \in Parties :
            rooms'[x][r] = IF x = s /\ r = conn[1] THEN conn[2] ELSE rooms[x][r]
  <2>1. conn[2] \in 0..MaxJoins
    BY <1>6, BoundsAreNaturals DEF Numbers
  <2> QED
    BY <1>6, <1>7, <2>1 DEF Types
<1>16. Types'
  <2>1. down' \in [Connections -> Seq(DownFrames)]
    BY <1>11, <1>12
  <2> QED
    BY <1>1, <1>7, <1>15, <2>1 DEF Types
<1>17. Places'
  <2>1. ASSUME NEW x \in Sessions, NEW r \in Parties, rooms'[x][r] # 0
        PROVE  <<r, rooms'[x][r]>> \in clients' /\ registration'[<<r, rooms'[x][r]>>] = x
    <3>1. CASE x = s /\ r = conn[1]
      BY <1>1, <1>2, <1>6, <1>7, <1>15, <3>1
    <3>2. CASE ~(x = s /\ r = conn[1])
      BY <1>1, <1>7, <1>15, <2>1, <3>2 DEF Places
    <3> QED
      BY <3>1, <3>2
  <2>2. ASSUME NEW c \in clients' PROVE rooms'[registration'[c]][c[1]] = c[2]
    <3>1. CASE c = conn
      BY <1>1, <1>2, <1>6, <1>15, <3>1
    <3>2. CASE c \in clients
      <4>1. c \in Connections /\ registration[c] \in Sessions /\ c[1] \in Parties /\ c[2] # 0
        BY <3>2, ConnectionFacts, NumbersArePositive DEF Types, OpenedInTurn
      <4>2. rooms[registration[c]][c[1]] = c[2]
        BY <3>2 DEF Places
      <4> QED
        BY <1>1, <1>7, <1>15, <4>1, <4>2
    <3> QED
      BY <1>7, <2>2, <3>1, <3>2
  <2> QED
    BY <2>1, <2>2 DEF Places
<1>18. OpenedInTurn'
  <2>1. ASSUME NEW c \in Connections, Opened(c)
        PROVE  /\ registration[c] \in Sessions
               /\ c # Current(c[1]) \/ ~linked[c[1]] => c \in gone
               /\ c = Current(c[1]) => registration[c] = session[c[1]]
    BY <2>1 DEF OpenedInTurn
  <2>2. ASSUME NEW c \in Connections, ~Opened(c)
        PROVE  up'[c] = <<>> /\ down'[c] = <<>> /\ lastSequence[c] = 0 /\ c \notin gone \cup clients'
    <3>1. c # conn /\ ~(n0 # 0 /\ c = peer)
      BY <1>1, <1>5, <2>2 DEF OpenedInTurn
    <3> QED
      BY <1>1, <1>7, <1>10, <2>2, <3>1 DEF OpenedInTurn
  <2> QED
    BY <1>1, <1>7, <2>1, <2>2 DEF OpenedInTurn, Opened, Current
<1>19. RegistersOnce'
  <2>0. PICK refusal : refusal = Error("ROLE_CONFLICT")
    OBVIOUS
  <2> SUFFICES ASSUME NEW c \in Connections
               PROVE  /\ Register \in FramesIn(up'[c]) =>
                            up'[c] = <<Register>> /\ c \notin clients' /\ down'[c] = <<>>
                      /\ FramesIn(up'[c]) \cap Packets # {} => c \in clients'
                      /\ FramesIn(down'[c]) \ {refusal} # {} => c \in clients'
                      /\ refusal \in FramesIn(down'[c]) => c \in gone \ clients'
    BY <1>7, <2>0 DEF RegistersOnce
  <2>1. n0 # 0 => refusal # key0 /\ refusal # key1
    BY <1>5, <1>6, <1>8, <2>0, FrameKinds
  <2>2. CASE c = conn
    BY <1>7, <1>12, <1>13, <2>1, <2>2
  <2>3. CASE n0 # 0 /\ c = peer
    <3>1. c \in clients /\ up'[c] = up[c] /\ c # conn
      BY <1>1, <1>5, <1>6, <2>3
    <3>2. Register \notin FramesIn(up[c]) /\ refusal \notin FramesIn(down[c])
      BY <2>0, <3>1 DEF RegistersOnce
    <3>3. refusal \notin FramesIn(down'[c])
      BY <1>12, <2>1, <2>3, <3>1, <3>2
    <3> QED
      BY <1>7, <3>1, <3>2, <3>3
  <2>4. CASE c # conn /\ ~(n0 # 0 /\ c = peer)
    BY <1>1, <1>7, <1>10, <2>0, <2>4 DEF RegistersOnce
  <2> QED
    BY <2>2, <2>3, <2>4
<1>20. GoneIsDestroyed'
  <2> SUFFICES ASSUME NEW c \in gone, c \in clients' \/ Register \in FramesIn(up'[c])
               PROVE  down'[c] = <<>> /\ ~(linked[c[1]] /\ c = Current(c[1]))
    BY <1>1, <1>7 DEF GoneIsDestroyed, Current
  <2>1. c \in Connections /\ down'[c] = down[c]
    BY <1>10 DEF Types
  <2>2. c \in clients \/ Register \in FramesIn(up[c])
    BY <1>1, <1>7, <1>13, <2>1
  <2> QED
    BY <2>1, <2>2 DEF GoneIsDestroyed
<1>21. KeysAreMet'
  <2>1. \A r \in Parties : peerKey'[r] # 0 =>
          joins'[r] # 0 /\ Met(Current(r), peerKey[r])' /\ (linked'[r] => Current(r)' \in clients')
    BY <1>7, KeysStayMet
  <2>2. ASSUME NEW c \in Connections, NEW n \in Numbers, PeerKey(n) \in FramesIn(down'[c])
        PROVE  Met(c, n)'
    <3>1. CASE PeerKey(n) \in FramesIn(down[c])
      BY <1>1, <3>1 DEF KeysAreMet
    <3>2. CASE n0 # 0 /\ c = conn /\ PeerKey(n) = key0
      <4>1. n = n0
        BY <1>5, <1>8, <3>2, FrameKinds
      <4>2. Register \notin FramesIn(up[peer]) /\ Opened(peer)
        BY <1>5, <3>2 DEF RegistersOnce, OpenedInTurn
      <4>3. up'[peer] = up[peer]
        BY <1>1, <1>5, <1>6, <3>2
      <4> QED
        BY <1>1, <1>2, <1>4, <1>5, <3>2, <4>1, <4>2, <4>3 DEF Met, Opened
    <3>3. CASE n0 # 0 /\ c = peer /\ PeerKey(n) = key1
      <4>1. n = conn[2]
        BY <1>6, <1>8, <3>3, FrameKinds
      <4>2. <<Peer(c[1]), n>> = conn
        BY <1>6, <3>3, <4>1
      <4> QED
        BY <1>1, <1>2, <1>5, <1>13, <3>3, <4>2 DEF Met, Opened
    <3> QED
      BY <1>12, <2>2, <3>1, <3>2, <3>3
  <2> QED
    BY <2>1, <2>2 DEF KeysAreMet
<1>22. PacketsAreWritten' /\ AcceptedFirst'
  BY <1>1, <1>14 DEF PacketsAreWritten, AcceptedFirst
<1>23. InOrder'
  <2>1. ASSUME NEW c \in Connections PROVE Rising(Peer(c[1]), down'[c])
    <3>1. down[c] \in Seq(DownFrames) /\ Rising(Peer(c[1]), down[c])
      BY DEF Types, InOrder
    <3>2. CASE n0 # 0 /\ c \in {conn, peer} \ gone
      <4>1. PICK frame \in DownFrames : frame = IF c = conn THEN key0 ELSE key1
        BY <1>9, <3>2
      <4>2. down'[c] = Append(down[c], frame) /\ frame \notin Packets
        BY <1>9, <1>10, <3>2, <4>1
      <4> QED
        BY <3>1, <4>2, RisingAppend
    <3>3. CASE ~(n0 # 0 /\ c \in {conn, peer} \ gone)
      BY <1>10, <3>1, <3>3
    <3> QED
      BY <3>2, <3>3
  <2>2. \A c \in Connections, p \in Packets :
          /\ p \in FramesIn(up'[c]) => lastSequence'[c] < p.sequence
          /\ p \in FramesIn(down'[c]) =>
                p.sequence <= lastSequence'[<<Peer(c[1]), Own(Peer(c[1]), p)>>]
    BY <1>7, <1>14 DEF InOrder
  <2>3. /\ \A r \in Parties, p \in Packets : <<r, p>> \in accepted' =>
              p.sequence <= lastSequence'[<<r, Own(r, p)>>]
        /\ \A r \in Parties : joins'[r] # 0 => lastSequence'[Current(r)'] <= sent'[r]
    BY <1>1, <1>7 DEF InOrder, Current
  <2> QED
    BY <1>1, <2>1, <2>2, <2>3 DEF InOrder
<1>24. KeysInForce'
  <2> SUFFICES ASSUME NEW c \in Connections
               PROVE  /\ \A i \in 1..Len(down'[c]) :
                            down'[c][i] \in Packets /\ Other(Peer(c[1]), down'[c][i]) = c[2] =>
                              InForce(peerKey[c[1]], down'[c], i, Own(Peer(c[1]), down'[c][i]))
                      /\ \A n \in Numbers :
                            /\ c \in clients' \ gone /\ <<Peer(c[1]), n>> \in clients'
                            /\ registration[<<Peer(c[1]), n>>] = registration[c]
                            => InForce(peerKey[c[1]], down'[c], Len(down'[c]) + 1, n)
    BY <1>1, <1>7 DEF KeysInForce
  <2>1. CASE c = conn
    <3>1. FramesIn(down'[c]) \cap Packets = {}
      BY <1>13, <1>14, <2>1
    <3>2. ASSUME NEW n \in Numbers, c \notin gone, <<Peer(c[1]), n>> \in clients',
                 registration[<<Peer(c[1]), n>>] = registration[c]
          PROVE  InForce(peerKey[c[1]], down'[c], Len(down'[c]) + 1, n)
      <4>1. PICK other : other = <<Peer(c[1]), n>>
        OBVIOUS
      <4>2. other \in clients /\ other[1] = Peer(conn[1]) /\ registration[other] = s /\ other[2] = n
        BY <1>2, <1>6, <1>7, <2>1, <3>2, <4>1
      <4>3. n = n0 /\ n0 # 0
        BY <1>5, <4>2
      <4>4. down'[c] = Append(<<>>, key0) /\ key0 = PeerKey(n) /\ key0 \in DownFrames
        BY <1>8, <1>9, <1>10, <2>1, <3>2, <4>3
      <4>5. /\ InForce(peerKey[c[1]], Append(<<>>, key0), Len(<<>>) + 2, n)
            /\ Len(Append(<<>>, key0)) = Len(<<>>) + 1 /\ Len(<<>>) = 0
        <5>0. PICK key : key = peerKey[c[1]]
          OBVIOUS
        <5>1. PICK queue \in Seq(DownFrames) : queue = <<>> /\ Len(queue) = 0
          <6>1. <<>> \in Seq(DownFrames) /\ Len(<<>>) = 0
            OBVIOUS
          <6> QED
            BY <6>1
        <5>2. InForce(key, Append(queue, key0), Len(queue) + 2, n)
          BY <4>4, InForceAppend
        <5>3. Len(Append(queue, key0)) = Len(queue) + 1
          BY <4>4, AppendFrames
        <5> QED
          BY <5>0, <5>1, <5>2, <5>3
      <4> QED
        BY <4>4, <4>5
    <3> QED
      BY <3>1, <3>2, NoPackets
  <2>2. CASE n0 # 0 /\ c = peer /\ peer \notin gone
    <3>1. PICK key : key = peerKey[c[1]]
      OBVIOUS
    <3>2. down'[c] = Append(down[c], key1) /\ down[c] \in Seq(DownFrames) /\ key1 \in DownFrames
      BY <1>6, <1>9, <1>10, <2>2 DEF Types
    <3>3. PICK queue \in Seq(DownFrames) : queue = down[c]
      BY <3>2
    <3>4. /\ Len(down'[c]) = Len(queue) + 1 /\ Len(queue) \in Nat
          /\ \A i \in 1..Len(queue) : down'[c][i] = queue[i]
          /\ down'[c][Len(queue) + 1] = key1
      BY <3>2, <3>3, AppendFrames
    <3>5. ASSUME NEW i \in 1..Len(down'[c]), down'[c][i] \in Packets,
                 Other(Peer(c[1]), down'[c][i]) = c[2]
          PROVE  InForce(key, down'[c], i, Own(Peer(c[1]), down'[c][i]))
      <4>1. i \in 1..Len(queue) /\ down'[c][i] = queue[i] /\ i \in 1..(Len(queue) + 1)
        BY <1>9, <2>2, <3>4, <3>5
      <4>2. InForce(key, queue, i, Own(Peer(c[1]), queue[i]))
        BY <3>1, <3>3, <3>5, <4>1 DEF KeysInForce
      <4> QED
        BY <3>2, <3>3, <4>1, <4>2, InForceAppend
    <3>6. ASSUME NEW n \in Numbers, <<Peer(c[1]), n>> \in clients',
                 registration[<<Peer(c[1]), n>>] = registration[c]
          PROVE  InForce(key, down'[c], Len(down'[c]) + 1, n)
      <4>1. <<Peer(c[1]), n>> = conn
        <5>1. <<Peer(c[1]), n>> \notin clients
          <6>1. rooms[s][conn[1]] = n \/ <<Peer(c[1]), n>> \notin clients
            BY <1>5, <1>6, <2>2, <3>6 DEF Places
          <6> QED
            BY <1>7, <6>1, NumbersArePositive
        <5> QED
          BY <1>7, <3>6, <5>1
      <4>2. key1 = PeerKey(n)
        BY <1>6, <1>8, <4>1
      <4>3. InForce(key, Append(queue, key1), Len(queue) + 2, n)
        BY <3>2, <4>2, InForceAppend
      <4> QED
        BY <3>2, <3>3, <3>4, <4>3
    <3> QED
      BY <3>1, <3>5, <3>6
  <2>3. CASE c # conn /\ ~(n0 # 0 /\ c = peer /\ peer \notin gone)
    <3>1. down'[c] = down[c]
      BY <1>10, <2>3
    <3>2. ASSUME NEW n \in Numbers, c \in clients' \ gone, <<Peer(c[1]), n>> \in clients',
                 registration[<<Peer(c[1]), n>>] = registration[c]
          PROVE  InForce(peerKey[c[1]], down'[c], Len(down'[c]) + 1, n)
      <4>1. c \in clients \ gone
        BY <1>7, <2>3, <3>2
      <4>2. <<Peer(c[1]), n>> # conn
        <5> SUFFICES ASSUME <<Peer(c[1]), n>> = conn PROVE FALSE
          OBVIOUS
        <5>1. c[1] \in Parties /\ Peer(c[1]) = conn[1] /\ registration[c] = s /\ c = <<c[1], c[2]>>
          BY <1>2, <3>2, ConnectionFacts
        <5>2. c[1] = Peer(conn[1])
          BY <5>1, PeerFacts
        <5>3. c[2] = n0 /\ n0 # 0
          BY <1>5, <4>1, <5>1, <5>2
        <5>4. c = peer
          BY <1>4, <5>1, <5>2, <5>3
        <5> QED
          BY <2>3, <4>1, <5>3, <5>4
      <4> QED
        BY <1>7, <3>1, <3>2, <4>1, <4>2 DEF KeysInForce
    <3> QED
      BY <3>1, <3>2 DEF KeysInForce
  <2> QED
    BY <2>1, <2>2, <2>3
<1>25. NothingLost'
  <2> SUFFICES ASSUME NEW r \in Parties, NEW p \in Packets, <<r, p>> \in outbox,
                      <<Peer(r), Other(r, p)>> \in clients' \ gone
               PROVE  \/ <<r, p>> \in accepted
                      \/ p \in FramesIn(down'[<<Peer(r), Other(r, p)>>])
                                  \cup FramesIn(up'[<<r, Own(r, p)>>])
                      \/ CutOff(<<r, Own(r, p)>>, p)'
    BY <1>1, <1>7 DEF NothingLost
  <2>1. <<r, Own(r, p)>> \in Connections /\ <<Peer(r), Other(r, p)>> \in Connections
    BY PeerFacts, OwnAndOther
  <2>2. <<Peer(r), Other(r, p)>> # conn
    BY <1>13 DEF PacketsAreMet, Met
  <2>3. CutOff(<<r, Own(r, p)>>, p) => CutOff(<<r, Own(r, p)>>, p)'
    BY <1>7, <1>14, <2>1 DEF CutOff
  <2> QED
    BY <1>7, <1>14, <2>1, <2>2, <2>3 DEF NothingLost
<1> QED
  BY <1>1, <1>16, <1>17, <1>18, <1>19, <1>20, <1>21, <1>22, <1>23, <1>24, <1>25

\* A packet the relay reads is the next one of a registered connection.
LEMMA ReadsPacket ==
    ASSUME RelayInv, NEW conn \in Connections, RelayReads(conn), NEW packet \in Packets,
           packet = Head(up[conn])
    PROVE  /\ RoutePacket(conn, packet) /\ UNCHANGED <<rooms, clients, gone>>
           /\ packet \in FramesIn(up[conn]) /\ conn \in clients /\ conn[1] \in Parties
           /\ <<conn[1], packet>> \in outbox /\ Own(conn[1], packet) = conn[2]
           /\ lastSequence[conn] < packet.sequence /\ lastSequence[conn] \in Nat
           /\ Met(conn, Other(conn[1], packet))
           /\ Register \notin FramesIn(up[conn])
<1> USE DEF RelayInv
<1>1. up[conn] # <<>> /\ up[conn] \in Seq(UpFrames)
  BY DEF RelayReads, Types
<1>2. packet \in FramesIn(up[conn])
  BY <1>1, TailFrames
<1>3. packet.kind = "PACKET"
  BY PacketFields
<1>4. RoutePacket(conn, packet) /\ UNCHANGED <<rooms, clients, gone>>
  BY <1>3 DEF RelayReads
<1>5. conn \in clients /\ Register \notin FramesIn(up[conn])
  BY <1>2 DEF RegistersOnce
<1>6. conn[1] \in Parties /\ conn = <<conn[1], conn[2]>>
  BY ConnectionFacts
<1>7. <<conn[1], packet>> \in outbox /\ Own(conn[1], packet) = conn[2]
  BY <1>2 DEF PacketsAreWritten
<1>8. lastSequence[conn] < packet.sequence /\ lastSequence[conn] \in Nat
  <2>1. lastSequence[conn] < packet.sequence
    BY <1>2 DEF InOrder
  <2>2. lastSequence[conn] \in Nat
    BY BoundsAreNaturals DEF Types
  <2> QED
    BY <2>1, <2>2
<1>9. Met(conn, Other(conn[1], packet))
  BY <1>6, <1>7 DEF PacketsAreMet
<1> QED
  BY <1>2, <1>4, <1>5, <1>6, <1>7, <1>8, <1>9

\* Nobody is there to get the packet: its sender is told.
LEMMA UnavailableKeeps ==
    ASSUME RelayInv, NEW conn \in Connections, RelayReads(conn), NEW packet \in Packets,
           packet = Head(up[conn]), rooms[registration[conn]][Peer(conn[1])] = 0
    PROVE  RelayInv'
<1> USE DEF RelayInv
<1>1. /\ UNCHANGED <<joins, session, limited, linked, peerKey, sent, received,
                     registration, faults, outbox, accepted, told>>
      /\ up' \in [Connections -> Seq(UpFrames)]
      /\ \A c \in Connections : c # conn => up'[c] = up[c]
      /\ FramesIn(up[conn]) = FramesIn(up'[conn]) \cup {packet}
      /\ \A c \in Connections : FramesIn(up'[c]) \subseteq FramesIn(up[c]) /\ Rising(c[1], up'[c])
      /\ Opened(conn) /\ registration[conn] \in Sessions
      /\ \A c \in Connections, n \in Numbers : Met(c, n) => Met(c, n)'
      /\ LinkedIsOpen' /\ ReceivedIsAccepted' /\ AcceptedWithoutGap' /\ PacketsAreMet'
  BY ReadsFrame
<1>2. /\ packet \in FramesIn(up[conn]) /\ conn \in clients /\ conn[1] \in Parties
      /\ <<conn[1], packet>> \in outbox /\ Own(conn[1], packet) = conn[2]
      /\ lastSequence[conn] < packet.sequence /\ lastSequence[conn] \in Nat
      /\ Met(conn, Other(conn[1], packet)) /\ Register \notin FramesIn(up[conn])
      /\ UNCHANGED <<rooms, clients, gone>> /\ RoutePacket(conn, packet)
  BY ReadsPacket
<1>3. PICK refusal : refusal = Error("PEER_UNAVAILABLE")
  OBVIOUS
<1>4. /\ refusal \in DownFrames /\ refusal \notin Packets /\ refusal.kind # "PEER_KEY"
      /\ refusal # Error("ROLE_CONFLICT") /\ \A n \in Numbers : PeerKey(n) # refusal
  BY <1>3, FrameKinds DEF DownFrames
<1>5. UNCHANGED lastSequence /\ down' = Written(down, conn, refusal)
  BY <1>2, <1>3, PacketFields DEF RoutePacket, Rejects, Types
<1>6. /\ \A c \in Connections : c # conn \/ conn \in gone => down'[c] = down[c]
      /\ conn \notin gone => down'[conn] = Append(down[conn], refusal)
      /\ DOMAIN down' = Connections /\ down' = [c \in Connections |-> down'[c]]
  BY <1>5 DEF Written, Pushed, Types
<1>7. \A c \in Connections :
        /\ down'[c] \in Seq(DownFrames) /\ FramesIn(down[c]) \subseteq FramesIn(down'[c])
        /\ FramesIn(down'[c]) \subseteq FramesIn(down[c]) \cup {refusal}
        /\ c # conn \/ conn \in gone => FramesIn(down'[c]) = FramesIn(down[c])
        /\ FramesIn(down'[c]) \cap Packets = FramesIn(down[c]) \cap Packets
        /\ Rising(Peer(c[1]), down'[c])
  <2> SUFFICES ASSUME NEW c \in Connections
               PROVE  /\ down'[c] \in Seq(DownFrames) /\ FramesIn(down[c]) \subseteq FramesIn(down'[c])
                      /\ FramesIn(down'[c]) \subseteq FramesIn(down[c]) \cup {refusal}
                      /\ c # conn \/ conn \in gone => FramesIn(down'[c]) = FramesIn(down[c])
                      /\ FramesIn(down'[c]) \cap Packets = FramesIn(down[c]) \cap Packets
                      /\ Rising(Peer(c[1]), down'[c])
    OBVIOUS
  <2>1. down[c] \in Seq(DownFrames) /\ Rising(Peer(c[1]), down[c])
    BY DEF Types, InOrder
  <2>2. CASE c = conn /\ conn \notin gone
    <3>1. down'[c] = Append(down[c], refusal)
      BY <1>6, <2>2
    <3>2. FramesIn(down'[c]) = FramesIn(down[c]) \cup {refusal} /\ down'[c] \in Seq(DownFrames)
      BY <1>4, <2>1, <3>1, AppendFrames
    <3>3. Rising(Peer(c[1]), down'[c])
      BY <1>4, <2>1, <3>1, RisingAppend
    <3> QED
      BY <1>4, <2>2, <3>2, <3>3
  <2>3. CASE c # conn \/ conn \in gone
    BY <1>6, <2>1, <2>3
  <2> QED
    BY <2>2, <2>3
<1>8. Types'
  <2>1. down' \in [Connections -> Seq(DownFrames)]
    BY <1>6, <1>7
  <2> QED
    BY <1>1, <1>2, <1>5, <2>1 DEF Types
<1>9. Places'
  BY <1>1, <1>2 DEF Places
<1>10. OpenedInTurn'
  <2>1. ASSUME NEW c \in Connections, ~Opened(c)
        PROVE  up'[c] = <<>> /\ down'[c] = <<>> /\ lastSequence[c] = 0 /\ c \notin gone \cup clients
    BY <1>1, <1>6, <2>1 DEF OpenedInTurn
  <2> QED
    BY <1>1, <1>2, <1>5, <2>1 DEF OpenedInTurn, Opened, Current
<1>11. RegistersOnce'
  <2>0. PICK conflict : conflict = Error("ROLE_CONFLICT")
    OBVIOUS
  <2> SUFFICES ASSUME NEW c \in Connections
               PROVE  /\ Register \in FramesIn(up'[c]) =>
                            up'[c] = <<Register>> /\ c \notin clients /\ down'[c] = <<>>
                      /\ FramesIn(up'[c]) \cap Packets # {} => c \in clients
                      /\ FramesIn(down'[c]) \ {conflict} # {} => c \in clients
                      /\ conflict \in FramesIn(down'[c]) => c \in gone \ clients
    BY <1>2, <2>0 DEF RegistersOnce
  <2>1. CASE c = conn
    <3>1. conflict \notin FramesIn(down[c])
      BY <1>2, <2>0, <2>1 DEF RegistersOnce
    <3>2. conflict \notin FramesIn(down'[c])
      BY <1>4, <1>7, <2>0, <3>1
    <3> QED
      BY <1>1, <1>2, <2>1, <3>2
  <2>2. CASE c # conn
    BY <1>1, <1>6, <2>0, <2>2 DEF RegistersOnce
  <2> QED
    BY <2>1, <2>2
<1>12. GoneIsDestroyed'
  <2> SUFFICES ASSUME NEW c \in gone, c \in clients \/ Register \in FramesIn(up'[c])
               PROVE  down'[c] = <<>> /\ ~(linked[c[1]] /\ c = Current(c[1]))
    BY <1>1, <1>2 DEF GoneIsDestroyed, Current
  <2>1. c \in Connections /\ down'[c] = down[c] /\ (c \in clients \/ Register \in FramesIn(up[c]))
    BY <1>1, <1>6 DEF Types
  <2> QED
    BY <2>1 DEF GoneIsDestroyed
<1>13. KeysAreMet'
  <2>1. \A r \in Parties : peerKey'[r] # 0 =>
          joins'[r] # 0 /\ Met(Current(r), peerKey[r])' /\ (linked'[r] => Current(r)' \in clients')
    BY <1>2, KeysStayMet
  <2>2. ASSUME NEW c \in Connections, NEW n \in Numbers, PeerKey(n) \in FramesIn(down'[c])
        PROVE  Met(c, n)'
    BY <1>1, <1>4, <1>7, <2>2 DEF KeysAreMet
  <2> QED
    BY <2>1, <2>2 DEF KeysAreMet
<1>14. PacketsAreWritten' /\ AcceptedFirst'
  BY <1>1, <1>7 DEF PacketsAreWritten, AcceptedFirst
<1>15. InOrder'
  <2>1. \A c \in Connections, p \in Packets :
          /\ p \in FramesIn(up'[c]) => lastSequence'[c] < p.sequence
          /\ p \in FramesIn(down'[c]) =>
                p.sequence <= lastSequence'[<<Peer(c[1]), Own(Peer(c[1]), p)>>]
    BY <1>1, <1>5, <1>7 DEF InOrder
  <2>2. /\ \A r \in Parties, p \in Packets : <<r, p>> \in accepted' =>
              p.sequence <= lastSequence'[<<r, Own(r, p)>>]
        /\ \A r \in Parties : joins'[r] # 0 => lastSequence'[Current(r)'] <= sent'[r]
    BY <1>1, <1>5 DEF InOrder, Current
  <2> QED
    BY <1>1, <1>7, <2>1, <2>2 DEF InOrder
<1>16. KeysInForce'
  <2> SUFFICES ASSUME NEW c \in Connections
               PROVE  /\ \A i \in 1..Len(down'[c]) :
                            down'[c][i] \in Packets /\ Other(Peer(c[1]), down'[c][i]) = c[2] =>
                              InForce(peerKey[c[1]], down'[c], i, Own(Peer(c[1]), down'[c][i]))
                      /\ \A n \in Numbers :
                            /\ c \in clients \ gone /\ <<Peer(c[1]), n>> \in clients
                            /\ registration[<<Peer(c[1]), n>>] = registration[c]
                            => InForce(peerKey[c[1]], down'[c], Len(down'[c]) + 1, n)
    BY <1>1, <1>2 DEF KeysInForce
  <2>1. CASE c = conn /\ conn \notin gone
    <3>1. PICK key : key = peerKey[c[1]]
      OBVIOUS
    <3>2. PICK queue \in Seq(DownFrames) : queue = down[c]
      BY DEF Types
    <3>3. down'[c] = Append(queue, refusal)
      BY <1>6, <2>1, <3>2
    <3>4. /\ Len(down'[c]) = Len(queue) + 1 /\ Len(queue) \in Nat
          /\ \A i \in 1..Len(queue) : down'[c][i] = queue[i]
          /\ down'[c][Len(queue) + 1] = refusal
      BY <1>4, <3>3, AppendFrames
    <3>5. ASSUME NEW i \in 1..Len(down'[c]), down'[c][i] \in Packets,
                 Other(Peer(c[1]), down'[c][i]) = c[2]
          PROVE  InForce(key, down'[c], i, Own(Peer(c[1]), down'[c][i]))
      <4>1. i \in 1..Len(queue) /\ down'[c][i] = queue[i] /\ i \in 1..(Len(queue) + 1)
        BY <1>4, <3>4, <3>5
      <4>2. InForce(key, queue, i, Own(Peer(c[1]), queue[i]))
        BY <3>1, <3>2, <3>5, <4>1 DEF KeysInForce
      <4> QED
        BY <1>4, <3>3, <4>1, <4>2, InForceAppend
    <3>6. ASSUME NEW n \in Numbers, c \in clients \ gone, <<Peer(c[1]), n>> \in clients,
                 registration[<<Peer(c[1]), n>>] = registration[c]
          PROVE  InForce(key, down'[c], Len(down'[c]) + 1, n)
      <4>1. InForce(key, queue, Len(queue) + 1, n)
        BY <3>1, <3>2, <3>6 DEF KeysInForce
      <4>2. InForce(key, Append(queue, refusal), Len(queue) + 2, n)
        BY <1>4, <4>1, InForceAppend
      <4> QED
        BY <3>3, <3>4, <4>2
    <3> QED
      BY <3>1, <3>5, <3>6
  <2>2. CASE c # conn \/ conn \in gone
    BY <1>6, <2>2 DEF KeysInForce
  <2> QED
    BY <2>1, <2>2
<1>17. NothingLost'
  <2> SUFFICES ASSUME NEW r \in Parties, NEW p \in Packets, <<r, p>> \in outbox,
                      <<Peer(r), Other(r, p)>> \in clients \ gone
               PROVE  \/ <<r, p>> \in accepted
                      \/ p \in FramesIn(down'[<<Peer(r), Other(r, p)>>])
                                  \cup FramesIn(up'[<<r, Own(r, p)>>])
                      \/ CutOff(<<r, Own(r, p)>>, p)'
    BY <1>1, <1>2 DEF NothingLost
  <2>1. PICK c \in Connections : c = <<r, Own(r, p)>>
    BY OwnAndOther
  <2>2. PICK peer \in Connections : peer = <<Peer(r), Other(r, p)>>
    BY PeerFacts, OwnAndOther
  <2>3. CutOff(c, p) => CutOff(c, p)'
    BY <1>1, <1>2, <1>5 DEF CutOff
  <2>4. c # conn
    <3> SUFFICES ASSUME c = conn PROVE FALSE
      OBVIOUS
    <3>1. Met(c, Other(r, p)) /\ r = conn[1]
      BY <2>1 DEF PacketsAreMet
    <3>2. registration[peer] = registration[conn] /\ peer[1] = Peer(conn[1])
      BY <2>1, <2>2, <3>1 DEF Met
    <3> QED
      <4>1. PICK n : n = rooms[registration[conn]][Peer(conn[1])]
        OBVIOUS
      <4>2. \A other \in clients :
              other[1] = Peer(conn[1]) /\ registration[other] = registration[conn] => n # 0
        <5> HIDE DEF RelayInv
        <5> QED
          BY <1>1, <4>1, RoomOfTwo
      <4> HIDE DEF RelayInv
      <4> QED
        BY <2>2, <3>2, <4>1, <4>2
  <2>5. <<r, p>> \in accepted \/ p \in FramesIn(down[peer]) \cup FramesIn(up[c]) \/ CutOff(c, p)
    BY <2>1, <2>2 DEF NothingLost
  <2> QED
    BY <1>1, <1>7, <2>1, <2>2, <2>3, <2>4, <2>5
<1> QED
  BY <1>1, <1>8, <1>9, <1>10, <1>11, <1>12, <1>13, <1>14, <1>15, <1>16, <1>17

\* The packet goes to the connection that holds the other place of the room.
LEMMA RoutedKeeps ==
    ASSUME RelayInv, NEW conn \in Connections, RelayReads(conn), NEW packet \in Packets,
           packet = Head(up[conn]), rooms[registration[conn]][Peer(conn[1])] # 0
    PROVE  RelayInv'
<1> USE DEF RelayInv
<1>1. /\ UNCHANGED <<joins, session, limited, linked, peerKey, sent, received,
                     registration, faults, outbox, accepted, told>>
      /\ up' \in [Connections -> Seq(UpFrames)]
      /\ \A c \in Connections : c # conn => up'[c] = up[c]
      /\ FramesIn(up[conn]) = FramesIn(up'[conn]) \cup {packet}
      /\ \A c \in Connections : FramesIn(up'[c]) \subseteq FramesIn(up[c]) /\ Rising(c[1], up'[c])
      /\ \A other \in FramesIn(up'[conn]) \cap Packets : packet.sequence < other.sequence
      /\ Opened(conn) /\ registration[conn] \in Sessions
      /\ \A c \in Connections, n \in Numbers : Met(c, n) => Met(c, n)'
      /\ LinkedIsOpen' /\ ReceivedIsAccepted' /\ AcceptedWithoutGap' /\ PacketsAreMet'
  BY ReadsFrame
<1>2. /\ packet \in FramesIn(up[conn]) /\ conn \in clients /\ conn[1] \in Parties
      /\ <<conn[1], packet>> \in outbox /\ Own(conn[1], packet) = conn[2]
      /\ lastSequence[conn] < packet.sequence /\ lastSequence[conn] \in Nat
      /\ Met(conn, Other(conn[1], packet)) /\ Register \notin FramesIn(up[conn])
      /\ UNCHANGED <<rooms, clients, gone>> /\ RoutePacket(conn, packet)
  BY ReadsPacket
<1>3. PICK t : t = rooms[registration[conn]][Peer(conn[1])]
  OBVIOUS
<1>4. PICK target \in Connections : target = <<Peer(conn[1]), t>>
  BY <1>1, <1>3, RoomOfTwo
<1>5. /\ t # 0 /\ target \in clients /\ registration[target] = registration[conn]
      /\ \A other \in clients :
            other[1] = Peer(conn[1]) /\ registration[other] = registration[conn] => other[2] = t
  BY <1>1, <1>3, <1>4, RoomOfTwo
<1>6. /\ target[1] = Peer(conn[1]) /\ target[2] = t /\ Peer(target[1]) = conn[1]
      /\ conn = <<conn[1], conn[2]>> /\ conn[2] \in Numbers /\ <<Peer(target[1]), conn[2]>> = conn
  BY <1>2, <1>4, PeerFacts, ConnectionFacts
<1>7. /\ packet.kind = "PACKET" /\ packet.sequence \in 1..MaxSent /\ packet.sequence \in Nat
      /\ packet \in DownFrames /\ packet # Error("ROLE_CONFLICT") /\ \A n \in Numbers : PeerKey(n) # packet
  BY PacketFields, FrameKinds DEF DownFrames
<1>8. /\ lastSequence' = [lastSequence EXCEPT ![conn] = packet.sequence]
      /\ down' = Written(down, target, packet)
  <2>1. ~(packet.sequence <= lastSequence[conn])
    BY <1>2, <1>7
  <2> QED
    BY <1>2, <1>3, <1>4, <1>5, <2>1 DEF RoutePacket
<1>9. /\ lastSequence' \in [Connections -> 0..MaxSent] /\ lastSequence'[conn] = packet.sequence
      /\ \A c \in Connections : c # conn => lastSequence'[c] = lastSequence[c]
  <2>1. packet.sequence \in 0..MaxSent
    BY <1>7, BoundsAreNaturals
  <2> QED
    BY <1>8, <2>1 DEF Types
<1>10. \A c \in Connections, n \in Nat : n <= lastSequence[c] => n <= lastSequence'[c]
  BY <1>2, <1>7, <1>9
<1>11. /\ \A c \in Connections : c # target \/ target \in gone => down'[c] = down[c]
       /\ target \notin gone => down'[target] = Append(down[target], packet)
       /\ DOMAIN down' = Connections /\ down' = [c \in Connections |-> down'[c]]
  BY <1>8 DEF Written, Pushed, Types
<1>12. \A c \in Connections :
        /\ down'[c] \in Seq(DownFrames) /\ FramesIn(down[c]) \subseteq FramesIn(down'[c])
        /\ FramesIn(down'[c]) \subseteq FramesIn(down[c]) \cup {packet}
        /\ c # target \/ target \in gone => FramesIn(down'[c]) = FramesIn(down[c])
        /\ c = target /\ target \notin gone => packet \in FramesIn(down'[c])
        /\ Rising(Peer(c[1]), down'[c])
  <2> SUFFICES ASSUME NEW c \in Connections
               PROVE  /\ down'[c] \in Seq(DownFrames) /\ FramesIn(down[c]) \subseteq FramesIn(down'[c])
                      /\ FramesIn(down'[c]) \subseteq FramesIn(down[c]) \cup {packet}
                      /\ c # target \/ target \in gone => FramesIn(down'[c]) = FramesIn(down[c])
                      /\ c = target /\ target \notin gone => packet \in FramesIn(down'[c])
                      /\ Rising(Peer(c[1]), down'[c])
    OBVIOUS
  <2>1. down[c] \in Seq(DownFrames) /\ Rising(Peer(c[1]), down[c])
    BY DEF Types, InOrder
  <2>2. CASE c = target /\ target \notin gone
    <3>1. down'[c] = Append(down[c], packet)
      BY <1>11, <2>2
    <3>2. FramesIn(down'[c]) = FramesIn(down[c]) \cup {packet} /\ down'[c] \in Seq(DownFrames)
      BY <1>7, <2>1, <3>1, AppendFrames
    <3>3. ASSUME NEW other \in FramesIn(down[c]) \cap Packets,
                 Own(conn[1], other) = Own(conn[1], packet)
          PROVE  other.sequence < packet.sequence
      <4>1. other.sequence <= lastSequence[<<Peer(target[1]), Own(Peer(target[1]), other)>>]
        BY <2>2, <3>3 DEF InOrder
      <4>2. other.sequence <= lastSequence[conn]
        BY <1>2, <1>6, <3>3, <4>1
      <4> QED
        BY <1>2, <1>7, <4>2, PacketFields
    <3>4. Peer(c[1]) = conn[1]
      BY <1>6, <2>2
    <3>5. Rising(Peer(c[1]), Append(down[c], packet))
      BY <1>7, <2>1, <3>3, <3>4, RisingAppend
    <3> QED
      BY <2>2, <3>1, <3>2, <3>5
  <2>3. CASE c # target \/ target \in gone
    BY <1>11, <2>1, <2>3
  <2> QED
    BY <2>2, <2>3
<1>13. Types'
  <2>1. down' \in [Connections -> Seq(DownFrames)]
    BY <1>11, <1>12
  <2> QED
    BY <1>1, <1>2, <1>9, <2>1 DEF Types
<1>14. Places'
  BY <1>1, <1>2 DEF Places
<1>15. OpenedInTurn'
  <2>1. ASSUME NEW c \in Connections, ~Opened(c)
        PROVE  up'[c] = <<>> /\ down'[c] = <<>> /\ lastSequence'[c] = 0 /\ c \notin gone \cup clients
    <3>1. c # conn /\ c # target
      BY <1>1, <1>5, <2>1 DEF OpenedInTurn
    <3> QED
      <4>1. up[c] = <<>> /\ down[c] = <<>> /\ lastSequence[c] = 0 /\ c \notin gone \cup clients
        BY <2>1 DEF OpenedInTurn
      <4> HIDE DEF RelayInv
      <4> QED
        BY <1>1, <1>9, <1>11, <3>1, <4>1
  <2> QED
    BY <1>1, <1>2, <2>1 DEF OpenedInTurn, Opened, Current
<1>16. RegistersOnce'
  <2>0. PICK conflict : conflict = Error("ROLE_CONFLICT")
    OBVIOUS
  <2> SUFFICES ASSUME NEW c \in Connections
               PROVE  /\ Register \in FramesIn(up'[c]) =>
                            up'[c] = <<Register>> /\ c \notin clients /\ down'[c] = <<>>
                      /\ FramesIn(up'[c]) \cap Packets # {} => c \in clients
                      /\ FramesIn(down'[c]) \ {conflict} # {} => c \in clients
                      /\ conflict \in FramesIn(down'[c]) => c \in gone \ clients
    BY <1>2, <2>0 DEF RegistersOnce
  <2>1. CASE c \in clients
    <3>1. conflict \notin FramesIn(down[c]) /\ Register \notin FramesIn(up[c])
      BY <2>0, <2>1 DEF RegistersOnce
    <3>2. conflict \notin FramesIn(down'[c]) /\ Register \notin FramesIn(up'[c])
      BY <1>1, <1>7, <1>12, <2>0, <3>1
    <3> QED
      BY <2>1, <3>2
  <2>2. CASE c \notin clients
    <3>1. up'[c] = up[c] /\ down'[c] = down[c]
      BY <1>1, <1>2, <1>5, <1>11, <2>2
    <3> QED
      BY <2>0, <2>2, <3>1 DEF RegistersOnce
  <2> QED
    BY <2>1, <2>2
<1>17. GoneIsDestroyed'
  <2> SUFFICES ASSUME NEW c \in gone, c \in clients \/ Register \in FramesIn(up'[c])
               PROVE  down'[c] = <<>> /\ ~(linked[c[1]] /\ c = Current(c[1]))
    BY <1>1, <1>2 DEF GoneIsDestroyed, Current
  <2>1. c \in Connections /\ down'[c] = down[c] /\ (c \in clients \/ Register \in FramesIn(up[c]))
    BY <1>1, <1>11 DEF Types
  <2> QED
    BY <2>1 DEF GoneIsDestroyed
<1>18. KeysAreMet'
  <2>1. \A r \in Parties : peerKey'[r] # 0 =>
          joins'[r] # 0 /\ Met(Current(r), peerKey[r])' /\ (linked'[r] => Current(r)' \in clients')
    BY <1>2, KeysStayMet
  <2>2. ASSUME NEW c \in Connections, NEW n \in Numbers, PeerKey(n) \in FramesIn(down'[c])
        PROVE  Met(c, n)'
    BY <1>1, <1>7, <1>12, <2>2 DEF KeysAreMet
  <2> QED
    BY <2>1, <2>2 DEF KeysAreMet
<1>19. PacketsAreWritten'
  <2> SUFFICES ASSUME NEW c \in Connections, NEW p \in Packets
               PROVE  /\ p \in FramesIn(up'[c]) =>
                            <<c[1], p>> \in outbox /\ Own(c[1], p) = c[2]
                      /\ p \in FramesIn(down'[c]) => <<Peer(c[1]), p>> \in outbox
    BY <1>1 DEF PacketsAreWritten
  <2>1. CASE p \in FramesIn(down'[c]) /\ p \notin FramesIn(down[c])
    <3>1. p = packet /\ c = target
      BY <1>12, <2>1
    <3> QED
      BY <1>1, <1>2, <1>6, <3>1 DEF PacketsAreWritten
  <2>2. CASE ~(p \in FramesIn(down'[c]) /\ p \notin FramesIn(down[c]))
    BY <1>1, <2>2 DEF PacketsAreWritten
  <2> QED
    BY <2>1, <2>2
<1>20. InOrder'
  <2>1. ASSUME NEW c \in Connections, NEW p \in Packets, p \in FramesIn(up'[c])
        PROVE  lastSequence'[c] < p.sequence
    BY <1>1, <1>9, <2>1 DEF InOrder
  <2>2. ASSUME NEW c \in Connections, NEW p \in Packets, p \in FramesIn(down'[c])
        PROVE  p.sequence <= lastSequence'[<<Peer(c[1]), Own(Peer(c[1]), p)>>]
    <3>1. CASE p \in FramesIn(down[c])
      <4>1. p.sequence <= lastSequence[<<Peer(c[1]), Own(Peer(c[1]), p)>>]
        BY <3>1 DEF InOrder
      <4>2. <<Peer(c[1]), Own(Peer(c[1]), p)>> \in Connections
        BY ConnectionFacts, PeerFacts, OwnAndOther
      <4> QED
        BY <1>10, <4>1, <4>2, PacketFields
    <3>2. CASE p = packet /\ c = target
      BY <1>2, <1>6, <1>7, <1>9, <3>2
    <3> QED
      BY <1>12, <2>2, <3>1, <3>2
  <2>3. ASSUME NEW r \in Parties, NEW p \in Packets, <<r, p>> \in accepted
        PROVE  p.sequence <= lastSequence'[<<r, Own(r, p)>>]
    <3>1. <<r, Own(r, p)>> \in Connections
      BY OwnAndOther
    <3>2. p.sequence <= lastSequence[<<r, Own(r, p)>>]
      BY <2>3 DEF InOrder
    <3> QED
      BY <1>10, <3>1, <3>2, PacketFields
  <2>4. ASSUME NEW r \in Parties, joins[r] # 0
        PROVE  lastSequence'[Current(r)] <= sent[r]
    <3>1. joins[r] \in Numbers
      BY <2>4, BoundsAreNaturals DEF Types, Numbers
    <3>2. PICK c \in Connections : c = Current(r)
      BY <3>1, ConnectionFacts DEF Current
    <3>3. CASE c = conn
      <4>1. r = conn[1] /\ Own(r, packet) = joins[r]
        BY <1>2, <3>2, <3>3 DEF Current
      <4>2. packet.sequence <= sent[r]
        BY <1>2, <4>1, WrittenUpToSent
      <4> QED
        BY <1>9, <3>2, <3>3, <4>2
    <3>4. CASE c # conn
      BY <1>9, <2>4, <3>2, <3>4 DEF InOrder
    <3> QED
      BY <3>3, <3>4
  <2>5. \A r \in Parties : joins'[r] # 0 => lastSequence'[Current(r)'] <= sent'[r]
    BY <1>1, <2>4 DEF Current
  <2> QED
    BY <1>1, <1>12, <2>1, <2>2, <2>3, <2>5 DEF InOrder
<1>21. AcceptedFirst'
  <2> SUFFICES ASSUME NEW c \in Connections, NEW p \in Packets, NEW taken \in Packets,
                      p \in FramesIn(down'[c]), <<Peer(c[1]), taken>> \in accepted,
                      taken.keys = p.keys
               PROVE  taken.sequence < p.sequence
    BY <1>1 DEF AcceptedFirst
  <2>1. CASE p \in FramesIn(down[c])
    BY <2>1 DEF AcceptedFirst
  <2>2. CASE p = packet /\ c = target
    <3>1. <<conn[1], taken>> \in accepted /\ Own(conn[1], taken) = conn[2]
      BY <1>2, <1>6, <2>2, SameKeys
    <3>2. taken.sequence <= lastSequence[conn]
      BY <1>2, <1>6, <3>1 DEF InOrder
    <3> QED
      BY <1>2, <1>7, <2>2, <3>2, PacketFields
  <2> QED
    BY <1>12, <2>1, <2>2
<1>22. KeysInForce'
  <2> SUFFICES ASSUME NEW c \in Connections
               PROVE  /\ \A i \in 1..Len(down'[c]) :
                            down'[c][i] \in Packets /\ Other(Peer(c[1]), down'[c][i]) = c[2] =>
                              InForce(peerKey[c[1]], down'[c], i, Own(Peer(c[1]), down'[c][i]))
                      /\ \A n \in Numbers :
                            /\ c \in clients \ gone /\ <<Peer(c[1]), n>> \in clients
                            /\ registration[<<Peer(c[1]), n>>] = registration[c]
                            => InForce(peerKey[c[1]], down'[c], Len(down'[c]) + 1, n)
    BY <1>1, <1>2 DEF KeysInForce
  <2>1. CASE c = target /\ target \notin gone
    <3>1. PICK key : key = peerKey[c[1]]
      OBVIOUS
    <3>2. PICK queue \in Seq(DownFrames) : queue = down[c]
      BY DEF Types
    <3>3. down'[c] = Append(queue, packet)
      BY <1>11, <2>1, <3>2
    <3>4. /\ Len(down'[c]) = Len(queue) + 1 /\ Len(queue) \in Nat
          /\ \A i \in 1..Len(queue) : down'[c][i] = queue[i]
          /\ down'[c][Len(queue) + 1] = packet
      BY <1>7, <3>3, AppendFrames
    <3>5. ASSUME NEW n \in Numbers, <<Peer(c[1]), n>> \in clients,
                 registration[<<Peer(c[1]), n>>] = registration[c]
          PROVE  InForce(key, queue, Len(queue) + 1, n)
      BY <1>5, <2>1, <3>1, <3>2, <3>5 DEF KeysInForce
    <3>6. ASSUME NEW i \in 1..Len(down'[c]), down'[c][i] \in Packets,
                 Other(Peer(c[1]), down'[c][i]) = c[2]
          PROVE  InForce(key, down'[c], i, Own(Peer(c[1]), down'[c][i]))
      <4>1. CASE i \in 1..Len(queue)
        <5>1. InForce(key, queue, i, Own(Peer(c[1]), queue[i])) /\ down'[c][i] = queue[i]
                /\ i \in 1..(Len(queue) + 1)
          BY <3>1, <3>2, <3>4, <3>6, <4>1 DEF KeysInForce
        <5> QED
          BY <1>7, <3>3, <5>1, InForceAppend
      <4>2. CASE i = Len(queue) + 1
        <5>1. down'[c][i] = packet /\ Own(Peer(c[1]), packet) = conn[2] /\ i \in 1..(Len(queue) + 1)
          BY <1>2, <1>6, <2>1, <3>4, <4>2
        <5>2. InForce(key, queue, Len(queue) + 1, conn[2])
          BY <1>2, <1>5, <1>6, <2>1, <3>5
        <5> QED
          BY <1>7, <3>3, <4>2, <5>1, <5>2, InForceAppend
      <4> QED
        BY <3>4, <4>1, <4>2
    <3>7. ASSUME NEW n \in Numbers, <<Peer(c[1]), n>> \in clients,
                 registration[<<Peer(c[1]), n>>] = registration[c]
          PROVE  InForce(key, down'[c], Len(down'[c]) + 1, n)
      <4>1. InForce(key, Append(queue, packet), Len(queue) + 2, n)
        BY <1>7, <3>5, <3>7, InForceAppend
      <4> QED
        BY <3>3, <3>4, <4>1
    <3> QED
      BY <3>1, <3>6, <3>7
  <2>2. CASE c # target \/ target \in gone
    BY <1>11, <2>2 DEF KeysInForce
  <2> QED
    BY <2>1, <2>2
<1>23. NothingLost'
  <2> SUFFICES ASSUME NEW r \in Parties, NEW p \in Packets, <<r, p>> \in outbox,
                      <<Peer(r), Other(r, p)>> \in clients \ gone
               PROVE  \/ <<r, p>> \in accepted
                      \/ p \in FramesIn(down'[<<Peer(r), Other(r, p)>>])
                                  \cup FramesIn(up'[<<r, Own(r, p)>>])
                      \/ CutOff(<<r, Own(r, p)>>, p)'
    BY <1>1, <1>2 DEF NothingLost
  <2>1. PICK c \in Connections : c = <<r, Own(r, p)>>
    BY OwnAndOther
  <2>2. PICK peer \in Connections : peer = <<Peer(r), Other(r, p)>>
    BY PeerFacts, OwnAndOther
  <2>3. <<r, p>> \in accepted \/ p \in FramesIn(down[peer]) \cup FramesIn(up[c]) \/ CutOff(c, p)
    BY <2>1, <2>2 DEF NothingLost
  <2>4. CASE c = conn
    <3>1. Met(c, Other(r, p)) /\ r = conn[1]
      BY <2>1, <2>4 DEF PacketsAreMet
    <3>2. registration[peer] = registration[conn] /\ peer[1] = Peer(conn[1]) /\ peer \in clients \ gone
      BY <2>2, <2>4, <3>1 DEF Met
    <3>3. peer = target /\ target \notin gone
      BY <1>4, <1>5, <3>2, ConnectionFacts
    <3>4. packet \in FramesIn(down'[peer])
      BY <1>12, <3>3
    <3>5. CutOff(c, p) => CutOff(c, p)'
      <4> SUFFICES ASSUME CutOff(c, p) PROVE CutOff(c, p)'
        OBVIOUS
      <4>1. packet.sequence < p.sequence
        BY <1>2, <2>4 DEF CutOff
      <4> QED
        BY <1>1, <1>2, <1>9, <2>4, <4>1 DEF CutOff
    <3>6. p \in FramesIn(up[c]) => p \in FramesIn(up'[c]) \/ p = packet
      BY <1>1, <2>4
    <3> QED
      BY <1>12, <2>1, <2>2, <2>3, <3>4, <3>5, <3>6
  <2>5. CASE c # conn
    <3>1. CutOff(c, p) => CutOff(c, p)'
      BY <1>1, <1>2, <1>9, <2>5 DEF CutOff
    <3> QED
      BY <1>1, <1>12, <2>1, <2>2, <2>3, <2>5, <3>1
  <2> QED
    BY <2>4, <2>5
<1> QED
  BY <1>1, <1>13, <1>14, <1>15, <1>16, <1>17, <1>18, <1>19, <1>20, <1>21, <1>22, <1>23

\* The relay reads the registration or a packet.
LEMMA RelayReadsKeeps ==
    ASSUME RelayInv, NEW conn \in Connections, RelayReads(conn)
    PROVE  RelayInv'
<1>1. up[conn] # <<>> /\ up[conn] \in Seq(UpFrames)
  BY DEF RelayReads, RelayInv, Types
<1>2. PICK frame \in UpFrames : frame = Head(up[conn]) /\ frame \in FramesIn(up[conn])
  BY <1>1, TailFrames
<1>3. CASE frame.kind = "REGISTER" /\ RegisterClient(conn) /\ UNCHANGED lastSequence
  <2>1. frame = Register
    BY <1>3, FrameKinds
  <2>2. up[conn] = <<Register>> /\ conn \notin clients /\ down[conn] = <<>>
    BY <1>2, <2>1 DEF RelayInv, RegistersOnce
  <2> QED
    BY <1>3, <2>2, RegisteredKeeps, ConflictKeeps
<1>4. CASE frame.kind = "PACKET"
  BY <1>2, <1>4, FrameKinds, UnavailableKeeps, RoutedKeeps
<1> QED
  BY <1>2, <1>3, <1>4 DEF RelayReads

\* Every step keeps the invariant.
LEMMA RelayNextInv == RelayInv /\ [Next]_vars => RelayInv'
<1> SUFFICES ASSUME RelayInv, [Next]_vars PROVE RelayInv'
  OBVIOUS
<1>1. ASSUME NEW role \in Parties, NEW s \in Sessions, JoinRoom(role, s) PROVE RelayInv'
  BY <1>1, JoinRoomKeeps
<1>2. ASSUME NEW role \in Parties, SetLimit(role) PROVE RelayInv'
  BY <1>2, SetLimitKeeps
<1>3. ASSUME NEW role \in Parties, RelayPayload(role) PROVE RelayInv'
  BY <1>3, RelayPayloadKeeps
<1>4. ASSUME NEW role \in Parties, ClientReads(role) PROVE RelayInv'
  BY <1>4, ClientReadsKeeps
<1>5. ASSUME NEW role \in Parties, Breaks(role) PROVE RelayInv'
  BY <1>5, BreaksKeeps
<1>6. ASSUME NEW conn \in Connections, RelayReads(conn) PROVE RelayInv'
  BY <1>6, RelayReadsKeeps
<1>7. ASSUME NEW conn \in Connections, RelayCloses(conn) PROVE RelayInv'
  BY <1>7, RelayClosesKeeps
<1>8. ASSUME UNCHANGED vars PROVE RelayInv'
  <2>1. UNCHANGED <<joins, session, limited, linked, peerKey, sent, received, up, down, gone,
                    registration, rooms, clients, lastSequence, faults, outbox, accepted, told>>
    BY <1>8 DEF vars, runtime, wires, relay, history
  <2>2. Types' /\ Places' /\ OpenedInTurn' /\ LinkedIsOpen' /\ RegistersOnce' /\ GoneIsDestroyed'
    BY <2>1 DEF RelayInv, Types, Places, OpenedInTurn, LinkedIsOpen, RegistersOnce,
                GoneIsDestroyed, Opened, Current
  <2>3. KeysAreMet' /\ PacketsAreMet' /\ PacketsAreWritten' /\ InOrder' /\ AcceptedFirst'
    BY <2>1 DEF RelayInv, KeysAreMet, PacketsAreMet, PacketsAreWritten, InOrder, AcceptedFirst,
                Met, Opened, Current
  <2>4. KeysInForce' /\ ReceivedIsAccepted' /\ NothingLost' /\ AcceptedWithoutGap'
    BY <2>1 DEF RelayInv, KeysInForce, ReceivedIsAccepted, NothingLost, AcceptedWithoutGap, CutOff
  <2> QED
    BY <2>2, <2>3, <2>4 DEF RelayInv
<1> QED
  BY <1>1, <1>2, <1>3, <1>4, <1>5, <1>6, <1>7, <1>8 DEF Next

\* The invariant holds in every reachable state.
LEMMA RelayInvariant == Spec => []RelayInv
  BY RelayInitInv, RelayNextInv, PTL DEF Spec

-----------------------------------------------------------------------------
(* What the relay and the runtimes promise. *)

\* The frames of either direction are frames.
LEMMA FramesAreTyped ==
    /\ UpFrames \subseteq Frames /\ DownFrames \subseteq Frames
<1>1. /\ MaxJoins \in Nat /\ MaxSent \in Nat /\ Numbers \subseteq 0..MaxJoins
      /\ Numbers \subseteq 0..(MaxJoins + MaxSent) /\ 1..MaxSent \subseteq 0..(MaxJoins + MaxSent)
      /\ 0 \in 0..MaxJoins /\ 0 \in 0..(MaxJoins + MaxSent)
  BY BoundsAreNaturals DEF Numbers
<1>2. Packets \subseteq Frames
  <2> SUFFICES ASSUME NEW n \in 1..MaxSent, NEW keys \in Numbers \X Numbers PROVE Packet(n, keys) \in Frames
    BY DEF Packets
  <2>1. n \in 0..(MaxJoins + MaxSent) /\ keys \in (0..MaxJoins) \X (0..MaxJoins)
    BY <1>1
  <2> QED
    BY <2>1 DEF Packet, Frames
<1>3. Register \in Frames
  BY <1>1 DEF Register, Frames
<1>4. \A n \in Numbers : PeerKey(n) \in Frames
  BY <1>1 DEF PeerKey, Frames
<1>5. Error("ROLE_CONFLICT") \in Frames /\ Error("PEER_UNAVAILABLE") \in Frames
  BY <1>1 DEF Error, Frames
<1> QED
  BY <1>2, <1>3, <1>4, <1>5 DEF UpFrames, DownFrames

\* A queue of some frames is a queue of more frames.
LEMMA WiderFrames ==
    ASSUME NEW S, NEW T, S \subseteq T, NEW queue \in Seq(S)
    PROVE  queue \in Seq(T)
  OBVIOUS

\* The variables keep their types, and a registered connection has exactly the
\* one place it registered for: what the relay's rooms and its clients say of
\* each other never comes apart, whichever of a connection's end, its successor's
\* registration and the last frames the relay still reads of it comes first.
THEOREM RelayTypes == Spec => []TypeOK
<1>1. RelayInv => TypeOK
  <2> SUFFICES ASSUME RelayInv PROVE TypeOK
    OBVIOUS
  <2>1. Types /\ Places
    BY DEF RelayInv
  <2>2. \A conn \in Connections : up[conn] \in Seq(Frames) /\ down[conn] \in Seq(Frames)
    BY <2>1, FramesAreTyped, WiderFrames DEF Types
  <2> QED
    BY <2>1, <2>2 DEF TypeOK, Types, Places
<1> QED
  BY <1>1, RelayInvariant, PTL

\* No packet of these clients is refused as a replay or as one of another room:
\* a connection numbers its packets upwards and registers before it sends.
THEOREM NothingIsRefused == Spec => []NoPacketRefused
<1>1. RelayInv => NoPacketRefused
  BY FrameKinds DEF RelayInv, Types, NoPacketRefused
<1> QED
  BY <1>1, RelayInvariant, PTL

\* A runtime that accepts a packet has accepted every earlier packet under the
\* same two keys, through lost connections, second joins and refused packets.
THEOREM NoGapInAConversation == Spec => []AcceptedWithoutGap
<1>1. RelayInv => AcceptedWithoutGap
  BY DEF RelayInv
<1> QED
  BY <1>1, RelayInvariant, PTL

\* Two runtimes with a channel in one session have the same key, unless a new key
\* is on its way to one of them.
THEOREM KeysAgreeInTheEnd == Spec => []ChannelsAgree
<1>1. RelayInv => ChannelsAgree
  <2> SUFFICES ASSUME RelayInv, Together, Keyed("buyer"), Keyed("seller"),
                      ~\E role \in Parties : \E i \in 1..Len(down[Current(role)]) :
                          down[Current(role)][i] = PeerKey(joins[Peer(role)])
               PROVE  KeysMatch
    BY DEF ChannelsAgree
  <2> USE DEF RelayInv
  <2>1. \A role \in Parties : peerKey[role] # 0 /\ linked[role]
    BY DEF Keyed, Parties
  <2>2. ASSUME NEW role \in Parties PROVE peerKey[role] = joins[Peer(role)]
    <3>1. Peer(role) \in Parties /\ session[Peer(role)] = session[role]
      BY DEF Together, Parties, Peer
    <3>2. \A r \in Parties : joins[r] \in Numbers /\ Current(r) \in clients
      BY <2>1, BoundsAreNaturals DEF KeysAreMet, Types, Numbers
    <3>3. PICK conn \in Connections : conn = Current(role)
      BY <3>2, ConnectionFacts DEF Current
    <3>4. PICK peer \in Connections : peer = Current(Peer(role))
      BY <3>1, <3>2, ConnectionFacts DEF Current
    <3>5. /\ conn \in clients \ gone /\ peer \in clients
          /\ conn[1] = role /\ peer = <<Peer(role), joins[Peer(role)]>> /\ peer[1] = Peer(role)
      <4>1. /\ conn \in clients /\ peer \in clients /\ conn[1] = role
            /\ peer = <<Peer(role), joins[Peer(role)]>> /\ peer[1] = Peer(role)
        BY <3>1, <3>2, <3>3, <3>4 DEF Current
      <4>2. conn \notin gone
        BY <2>1, <3>3, <4>1 DEF GoneIsDestroyed
      <4> QED
        BY <4>1, <4>2
    <3>6. registration[conn] = session[role] /\ registration[peer] = session[Peer(role)]
      <4>1. Opened(conn) /\ Opened(peer)
        BY <3>5 DEF OpenedInTurn
      <4> QED
        BY <3>3, <3>4, <3>5, <4>1 DEF OpenedInTurn
    <3>7. InForce(peerKey[role], down[conn], Len(down[conn]) + 1, joins[Peer(role)])
      BY <3>1, <3>2, <3>5, <3>6 DEF KeysInForce
    <3>8. down[conn] \in Seq(DownFrames)
      BY DEF Types
    <3> QED
      BY <3>3, <3>7, <3>8, InForceAtEnd
  <2> QED
    BY <2>2 DEF KeysMatch
<1> QED
  BY <1>1, RelayInvariant, PTL
=============================================================================
