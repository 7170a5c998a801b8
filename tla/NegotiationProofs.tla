-------------------------- MODULE NegotiationProofs --------------------------
(***************************************************************************)
(* Proofs about Negotiation, for any prices, limits, number of rounds and  *)
(* number of failures: at most one move is ever outstanding, the two       *)
(* parties never disagree, the chain settles what they agreed on, and the  *)
(* messages implement the moves of module Bargaining.                      *)
(***************************************************************************)
EXTENDS Negotiation, SequenceTheorems, FiniteSetTheorems, TLAPS

-----------------------------------------------------------------------------
(* The inductive invariant. *)

\* No bargaining packet is in the channel s.
Quiet(s) == \A i \in 1..Len(s) : s[i].kind \notin BargainKinds

\* The packet at i is the only bargaining packet of s.
Alone(s, i) == \A j \in 1..Len(s) : s[j].kind \in BargainKinds <=> j = i

\* No party is deciding, and both channels are quiet: the bargaining has not
\* begun, has ended, or its last packet was lost.
NobodyThinks == \A r \in Roles : thinking[r] = {}
QuietLines == \A r \in Roles : Quiet(inbox[r])

\* Neither party has ended the bargaining.
Undecided == outcome = "none" /\ agreed = NoPrice

\* What the buyer is looking at is what lies on the table.
BuyerConsiders(c) ==
    /\ Undecided
    /\ table = [turn |-> "buyer", round |-> c.round, offer |-> c.offer]
    /\ c.offer # NoPrice => min <= c.offer

SellerConsiders(c) ==
    /\ Undecided
    /\ table = [turn |-> "seller", round |-> c.round, offer |-> c.offer]
    /\ c.offer # NoPrice /\ c.offer <= max

Considers(role, c) == IF role = "buyer" THEN BuyerConsiders(c) ELSE SellerConsiders(c)

\* What a bargaining packet on its way says of the two parties.
FitsBuyer(m) ==
    \/ m.kind = "proposal" /\ BuyerConsiders(Ctx(m.round, m.price)) /\ m.price # NoPrice
    \/ m.kind = "accept" /\ outcome = "none" /\ agreed = m.price /\ agreed # NoPrice
    \/ m.kind = "decline" /\ Undecided /\ table.turn = "seller" /\ table.round = m.round

FitsSeller(m) ==
    \/ m.kind = "proposal" /\ SellerConsiders(Ctx(m.round, m.price))
    \/ m.kind = "accept" /\ outcome = "SETTLED" /\ price = m.price /\ agreed = NoPrice

Fits(role, m) == IF role = "buyer" THEN FitsBuyer(m) ELSE FitsSeller(m)

Silent == NobodyThinks /\ QuietLines

Deciding(role) ==
    \E c \in thinking[role] :
        /\ thinking[role] = {c} /\ thinking[Peer(role)] = {} /\ QuietLines
        /\ Considers(role, c)

Travelling(role) ==
    /\ NobodyThinks /\ Quiet(inbox[Peer(role)])
    /\ \E i \in 1..Len(inbox[role]) : Alone(inbox[role], i) /\ Fits(role, inbox[role][i])

\* At most one move is outstanding, and it continues the bargaining on the table.
Conversation == Silent \/ \E role \in Roles : Deciding(role) \/ Travelling(role)

\* Nothing has happened before START_RUNTIME.
Unstarted ==
    ~started =>
        /\ Silent /\ Undecided
        /\ table = [turn |-> "buyer", round |-> 1, offer |-> NoPrice]

\* The results of the parties agree with each other and with the table.
Results ==
    /\ outcome = "SETTLED" => price # NoPrice /\ min <= price /\ price <= max
    /\ AgreementConsistent
    /\ ~Undecided => table.turn = "done"

\* The prices the openings of the channel s disclose.
Openings(s) == {s[i].price : i \in {j \in 1..Len(s) : s[j].kind = "price_opening"}}

\* The price of the buyer's SETTLED outcome, if it has one.
SettledPrice == IF outcome = "SETTLED" THEN {price} ELSE {}

\* The hidden price travels unchanged from the outcome through the buyer's call,
\* the opening and the seller's call to the ledger.
CallsCarryPrice ==
    /\ call["seller"].kind # "authorize" /\ call["buyer"].kind # "settle"
    /\ call["buyer"].kind = "authorize" => call["buyer"].price \in SettledPrice
    /\ call["seller"].kind = "settle" =>
        agreed \in SettledPrice /\ call["seller"].price = agreed

LedgerCarriesPrice ==
    /\ status \in {"AUTHORIZED", "SETTLED"} =>
        \E p \in SettledPrice : priceCommitment = Chain!PriceCommitmentFor(p, "price")
    /\ status = "SETTLED" => agreed \in SettledPrice

PriceOnChain ==
    CallsCarryPrice /\ Openings(inbox["seller"]) \subseteq SettledPrice /\ LedgerCarriesPrice

NegotiationInv == TypeOK /\ Conversation /\ Unstarted /\ Results /\ PriceOnChain

-----------------------------------------------------------------------------
(* Channels.  t may follow s while nobody moves: no bargaining packet enters, *)
(* and the one there is stays as it is or leaves.                             *)

Weaker(s, t) ==
    /\ Quiet(s) => Quiet(t)
    /\ \A i \in 1..Len(s) : Alone(s, i) =>
        Quiet(t) \/ \E j \in 1..Len(t) : Alone(t, j) /\ t[j] = s[i]

\* A channel that stays as it is has no new move.
LEMMA SameIsWeaker == ASSUME NEW s PROVE Weaker(s, s)
BY DEF Weaker

\* A packet that is no move is queued.
LEMMA AppendIsWeaker ==
    ASSUME NEW S, NEW s \in Seq(S), NEW x \in S, x.kind \notin BargainKinds
    PROVE  Weaker(s, Append(s, x))
<1> DEFINE t == Append(s, x)
<1>1. /\ t \in Seq(S) /\ Len(t) = Len(s) + 1 /\ t[Len(s) + 1] = x
      /\ \A i \in 1..Len(s) : t[i] = s[i]
  BY AppendProperties
<1>2. Len(s) \in Nat
  BY LenProperties
<1> HIDE DEF t
<1>3. Quiet(s) => Quiet(t)
  BY <1>1, <1>2 DEF Quiet
<1>4. ASSUME NEW i \in 1..Len(s), Alone(s, i) PROVE Alone(t, i) /\ i \in 1..Len(t)
  BY <1>1, <1>2, <1>4 DEF Alone
<1> QED
  BY <1>1, <1>3, <1>4 DEF Weaker, t

\* A suffix of the channel is lost.
LEMMA PrefixIsWeaker ==
    ASSUME NEW S, NEW s \in Seq(S), NEW n \in 0..Len(s)
    PROVE  Weaker(s, SubSeq(s, 1, n))
<1> DEFINE t == SubSeq(s, 1, n)
<1>1. Len(s) \in Nat /\ n \in Nat /\ \A i \in 1..Len(s) : s[i] \in S
  BY LenProperties, ElementOfSeq
<1>2. Len(t) = n /\ \A i \in 1..n : t[i] = s[i]
  <2>1. 1 \in Int /\ n \in Int /\ \A i \in 1..n : s[i] \in S
    BY <1>1
  <2> QED
    BY <1>1, <2>1, SubSeqProperties
<1> HIDE DEF t
<1>3. Quiet(s) => Quiet(t)
  BY <1>1, <1>2 DEF Quiet
<1>4. ASSUME NEW i \in 1..Len(s), Alone(s, i)
      PROVE  Quiet(t) \/ \E j \in 1..Len(t) : Alone(t, j) /\ t[j] = s[i]
  <2>1. CASE i <= n
    BY <1>1, <1>2, <1>4, <2>1 DEF Alone
  <2>2. CASE n < i
    BY <1>1, <1>2, <1>4, <2>2 DEF Alone, Quiet
  <2> QED
    BY <1>1, <2>1, <2>2
<1> QED
  BY <1>3, <1>4 DEF Weaker, t

\* The positions of a channel whose head was taken.
LEMMA TailElements ==
    ASSUME NEW S, NEW s \in Seq(S), s # <<>>
    PROVE  /\ Tail(s) \in Seq(S) /\ Head(s) = s[1] /\ s[1] \in S
           /\ Len(s) \in Nat \ {0} /\ Len(Tail(s)) = Len(s) - 1
           /\ \A i \in 1..Len(s) - 1 : Tail(s)[i] = s[i + 1]
BY HeadTailProperties, LenProperties, EmptySeq

\* The oldest packet is delivered.
LEMMA TailIsWeaker ==
    ASSUME NEW S, NEW s \in Seq(S), s # <<>>
    PROVE  Weaker(s, Tail(s))
<1> DEFINE t == Tail(s)
<1>1. /\ Len(s) \in Nat \ {0} /\ Len(t) = Len(s) - 1
      /\ \A i \in 1..Len(s) - 1 : t[i] = s[i + 1]
  BY TailElements
<1> HIDE DEF t
<1>2. Quiet(s) => Quiet(t)
  BY <1>1 DEF Quiet
<1>3. ASSUME NEW i \in 1..Len(s), Alone(s, i)
      PROVE  Quiet(t) \/ \E j \in 1..Len(t) : Alone(t, j) /\ t[j] = s[i]
  <2>1. CASE i = 1
    BY <1>1, <1>3, <2>1 DEF Alone, Quiet
  <2>2. CASE i # 1
    <3>1. i - 1 \in 1..Len(t) /\ t[i - 1] = s[i]
      BY <1>1, <2>2
    <3>2. Alone(t, i - 1)
      BY <1>1, <1>3, <2>2 DEF Alone
    <3> QED
      BY <3>1, <3>2
  <2> QED
    BY <2>1, <2>2
<1> QED
  BY <1>2, <1>3 DEF Weaker, t

\* A move is queued in a quiet channel.
LEMMA MoveIsAlone ==
    ASSUME NEW S, NEW s \in Seq(S), NEW m \in S, Quiet(s), m.kind \in BargainKinds
    PROVE  \E i \in 1..Len(Append(s, m)) : Alone(Append(s, m), i) /\ Append(s, m)[i] = m
<1> DEFINE t == Append(s, m)
<1>1. /\ Len(t) = Len(s) + 1 /\ t[Len(s) + 1] = m
      /\ \A i \in 1..Len(s) : t[i] = s[i]
  BY AppendProperties
<1>2. Len(s) \in Nat
  BY LenProperties
<1> HIDE DEF t
<1>3. Alone(t, Len(s) + 1) /\ Len(s) + 1 \in 1..Len(t)
  BY <1>1, <1>2 DEF Alone, Quiet
<1> QED
  BY <1>1, <1>3 DEF t

\* A move that is delivered was the only one, and leaves the channel quiet.
LEMMA MoveLeaves ==
    ASSUME NEW S, NEW s \in Seq(S), s # <<>>, Head(s).kind \in BargainKinds,
           NEW i \in 1..Len(s), Alone(s, i)
    PROVE  s[i] = Head(s) /\ Quiet(Tail(s))
<1> DEFINE t == Tail(s)
<1>1. /\ Len(s) \in Nat \ {0} /\ Len(t) = Len(s) - 1 /\ Head(s) = s[1]
      /\ \A k \in 1..Len(s) - 1 : t[k] = s[k + 1]
  BY TailElements
<1> HIDE DEF t
<1>2. i = 1
  BY <1>1 DEF Alone
<1>3. Quiet(t)
  BY <1>1, <1>2 DEF Alone, Quiet
<1> QED
  BY <1>1, <1>2, <1>3 DEF t

\* The head of a quiet channel is no move.
LEMMA QuietHead ==
    ASSUME NEW S, NEW s \in Seq(S), s # <<>>, Quiet(s)
    PROVE  Head(s).kind \notin BargainKinds
<1>1. Len(s) \in Nat \ {0} /\ Head(s) = s[1]
  BY TailElements
<1> QED
  BY <1>1 DEF Quiet
-----------------------------------------------------------------------------
(* The conversation. *)

\* There are two roles, each the other's peer.
LEMMA Peers == ASSUME NEW role \in Roles
               PROVE  Peer(role) \in Roles /\ Peer(role) # role /\ Peer(Peer(role)) = role
                      /\ Roles = {role, Peer(role)}
BY DEF Roles, Peer

\* A channel is a sequence of packets.
LEMMA InboxType == ASSUME TypeOK, NEW role \in Roles PROVE inbox[role] \in Seq(Packets)
BY DEF TypeOK

\* Every packet the runtimes send is one.
LEMMA PacketType ==
    ASSUME NEW kind \in PacketKinds, NEW round \in 0..MaxRounds, NEW p \in Prices \cup {NoPrice}
    PROVE  Packet(kind, round, p) \in Packets
BY DEF Packet, Packets

\* A packet of the handshake is a packet.
LEMMA ControlType == ASSUME NEW kind \in PacketKinds PROVE Control(kind) \in Packets
<1>1. 0 \in 0..MaxRounds
  BY BoundsAreNaturals
<1> QED
  BY <1>1, PacketType DEF Control

\* The party that decides holds the only move.
LEMMA DeciderIsAlone ==
    ASSUME Conversation, NEW role \in Roles, NEW c \in thinking[role]
    PROVE  /\ thinking[role] = {c} /\ thinking[Peer(role)] = {} /\ QuietLines
           /\ Considers(role, c)
<1>1. ~NobodyThinks
  BY DEF NobodyThinks
<1>2. PICK r \in Roles : Deciding(r)
  BY <1>1 DEF Conversation, Silent, Travelling
<1>3. r = role
  BY <1>2, Peers DEF Deciding
<1> QED
  BY <1>2, <1>3 DEF Deciding

\* A party that receives a move receives the only one.
LEMMA MoveIsTheOnlyOne ==
    ASSUME TypeOK, Conversation, NEW role \in Roles,
           inbox[role] # <<>>, Head(inbox[role]).kind \in BargainKinds
    PROVE  /\ NobodyThinks /\ Quiet(Tail(inbox[role])) /\ Quiet(inbox[Peer(role)])
           /\ Fits(role, Head(inbox[role]))
<1>1. ~Quiet(inbox[role])
  BY InboxType, QuietHead
<1>2. PICK r \in Roles : Travelling(r)
  BY <1>1 DEF Conversation, Silent, Deciding, QuietLines
<1>3. r = role
  BY <1>1, <1>2, Peers DEF Travelling
<1>4. PICK i \in 1..Len(inbox[role]) : Alone(inbox[role], i) /\ Fits(role, inbox[role][i])
  BY <1>2, <1>3 DEF Travelling
<1>5. inbox[role][i] = Head(inbox[role]) /\ Quiet(Tail(inbox[role]))
  BY <1>4, InboxType, MoveLeaves
<1> QED
  BY <1>2, <1>3, <1>4, <1>5 DEF Travelling

\* Steps that are no move: the parties stay as they are, and the channels carry
\* at most what they carried.
LEMMA ConversationGoesOn ==
    ASSUME Conversation, UNCHANGED <<setup, bargain>>,
           \A r \in Roles : Weaker(inbox[r], inbox'[r])
    PROVE  Conversation'
<1>1. /\ NobodyThinks' <=> NobodyThinks
      /\ QuietLines => QuietLines'
  BY DEF bargain, NobodyThinks, QuietLines, Weaker
<1>2. \A r \in Roles : \A m : Fits(r, m) => Fits(r, m)'
  BY DEF bargain, setup, Fits, FitsBuyer, FitsSeller, BuyerConsiders, SellerConsiders, Undecided
<1>3. \A r \in Roles : \A c : Considers(r, c) => Considers(r, c)'
  BY DEF bargain, setup, Considers, BuyerConsiders, SellerConsiders, Undecided
<1>4. CASE Silent
  BY <1>1, <1>4 DEF Silent, Conversation
<1>5. ASSUME NEW r \in Roles, Deciding(r) PROVE Conversation'
  <2>1. PICK c \in thinking[r] : thinking[r] = {c} /\ Considers(r, c)
    BY <1>5 DEF Deciding
  <2>2. thinking'[r] = {c} /\ thinking'[Peer(r)] = {} /\ QuietLines' /\ Considers(r, c)'
    BY <1>1, <1>3, <1>5, <2>1 DEF Deciding, bargain
  <2>3. Deciding(r)'
    BY <2>2 DEF Deciding
  <2> QED
    BY <2>3 DEF Conversation
<1>6. ASSUME NEW r \in Roles, Travelling(r) PROVE Conversation'
  <2>1. PICK i \in 1..Len(inbox[r]) : Alone(inbox[r], i) /\ Fits(r, inbox[r][i])
    BY <1>6 DEF Travelling
  <2>2. NobodyThinks' /\ Quiet(inbox'[Peer(r)])
    BY <1>1, <1>6, Peers DEF Travelling, Weaker
  <2>3. CASE Quiet(inbox'[r])
    <3>1. QuietLines'
      BY <2>2, <2>3, Peers DEF QuietLines
    <3> QED
      BY <2>2, <3>1 DEF Silent, Conversation
  <2>4. CASE \E j \in 1..Len(inbox'[r]) : Alone(inbox'[r], j) /\ inbox'[r][j] = inbox[r][i]
    <3>1. Travelling(r)'
      BY <1>2, <2>1, <2>2, <2>4 DEF Travelling
    <3> QED
      BY <3>1 DEF Conversation
  <2> QED
    BY <2>1, <2>3, <2>4 DEF Weaker
<1> QED
  BY <1>4, <1>5, <1>6 DEF Conversation

\* A decision is taken: nobody thinks any more.
LEMMA ResumedIsIdle ==
    ASSUME TypeOK, Conversation, NEW role \in Roles, NEW c \in thinking[role], Resume(role, c)
    PROVE  NobodyThinks'
<1>1. thinking[role] = {c} /\ thinking[Peer(role)] = {}
  BY DeciderIsAlone
<1>2. thinking \in [Roles -> SUBSET Contexts]
  BY DEF TypeOK
<1> QED
  BY <1>1, <1>2, Peers DEF Resume, NobodyThinks

\* A move is sent when no other is outstanding: it arrives, or it is lost.
LEMMA MoveIsSent ==
    ASSUME TypeOK, NEW role \in Roles, QuietLines, NobodyThinks',
           NEW m \in Packets, m.kind \in BargainKinds,
           inbox' = Delivered(inbox, role, m), Fits(Peer(role), m)'
    PROVE  Conversation'
<1>1. CASE inbox' = inbox
  BY <1>1 DEF Conversation, Silent, QuietLines
<1>2. CASE inbox' = [inbox EXCEPT ![Peer(role)] = Append(@, m)]
  <2>1. Peer(role) \in Roles /\ Peer(Peer(role)) = role /\ role # Peer(role)
    BY Peers
  <2>2. inbox'[Peer(role)] = Append(inbox[Peer(role)], m) /\ inbox'[role] = inbox[role]
    BY <1>2, <2>1 DEF TypeOK
  <2>3. PICK i \in 1..Len(inbox'[Peer(role)]) :
            Alone(inbox'[Peer(role)], i) /\ inbox'[Peer(role)][i] = m
    BY <2>1, <2>2, InboxType, MoveIsAlone DEF QuietLines
  <2>4. Quiet(inbox'[role])
    BY <2>2 DEF QuietLines
  <2>5. Travelling(Peer(role))'
    BY <2>1, <2>3, <2>4 DEF Travelling
  <2> QED
    BY <2>1, <2>5 DEF Conversation
<1> QED
  BY <1>1, <1>2 DEF Delivered
-----------------------------------------------------------------------------
(* Steps that are no move: the handshake, the chain calls and the failures. *)

ControlStep ==
    \/ BuyerSetsLimit \/ SellerSetsLimit
    \/ AcceptSellerKey \/ AcceptContractReady \/ AcceptPriceOpening
    \/ \E role \in Roles :
        \/ AcceptPeerKey(role) \/ Applies(role) \/ Rejected(role) \/ Confirms(role)
        \/ CallFails(role) \/ LinkBreaks(role)

\* The channels keep their type and carry no move they did not carry.
NoNewMove == inbox' \in [Roles -> Seq(Packets)] /\ \A r \in Roles : Weaker(inbox[r], inbox'[r])

\* Channels that stay as they are carry no new move.
LEMMA SameChannels == ASSUME TypeOK, inbox' = inbox PROVE NoNewMove
BY SameIsWeaker DEF TypeOK, NoNewMove

\* relay() of a packet that is no move, by a party whose own queue may have been
\* consumed in the same step.
LEMMA ControlDelivered ==
    ASSUME NEW boxes \in [Roles -> Seq(Packets)], NEW role \in Roles,
           NEW m \in Packets, m.kind \notin BargainKinds
    PROVE  /\ Delivered(boxes, role, m) \in [Roles -> Seq(Packets)]
           /\ Delivered(boxes, role, m)[role] = boxes[role]
           /\ Weaker(boxes[Peer(role)], Delivered(boxes, role, m)[Peer(role)])
<1>1. Peer(role) \in Roles /\ role # Peer(role)
  BY Peers
<1>2. boxes[Peer(role)] \in Seq(Packets)
  BY <1>1
<1>3. CASE Delivered(boxes, role, m) = boxes
  BY <1>1, <1>3, SameIsWeaker
<1>4. CASE Delivered(boxes, role, m) = [boxes EXCEPT ![Peer(role)] = Append(boxes[Peer(role)], m)]
  <2>1. Append(boxes[Peer(role)], m) \in Seq(Packets)
    BY <1>2, AppendProperties
  <2>2. Weaker(boxes[Peer(role)], Append(boxes[Peer(role)], m))
    BY <1>2, AppendIsWeaker
  <2> QED
    BY <1>1, <1>4, <2>1, <2>2
<1> QED
  BY <1>3, <1>4 DEF Delivered

\* Sending a packet that is no bargaining move adds no move.
LEMMA ControlSent ==
    ASSUME TypeOK, NEW role \in Roles, NEW m \in Packets, m.kind \notin BargainKinds,
           inbox' = Delivered(inbox, role, m)
    PROVE  NoNewMove
<1>1. inbox \in [Roles -> Seq(Packets)]
  BY DEF TypeOK
<1>2. /\ inbox' \in [Roles -> Seq(Packets)] /\ inbox'[role] = inbox[role]
      /\ Weaker(inbox[Peer(role)], inbox'[Peer(role)])
  BY <1>1, ControlDelivered
<1> QED
  BY <1>2, SameIsWeaker, Peers DEF NoNewMove

\* Reading a packet shortens one channel and leaves the other.
LEMMA PacketConsumed ==
    ASSUME TypeOK, NEW role \in Roles, inbox[role] # <<>>
    PROVE  /\ Consumed(role) \in [Roles -> Seq(Packets)]
           /\ Consumed(role)[Peer(role)] = inbox[Peer(role)]
           /\ Consumed(role)[role] = Tail(inbox[role])
           /\ \A r \in Roles : Weaker(inbox[r], Consumed(role)[r])
<1>1. inbox \in [Roles -> Seq(Packets)] /\ inbox[role] \in Seq(Packets)
  BY DEF TypeOK
<1>2. Tail(inbox[role]) \in Seq(Packets) /\ Weaker(inbox[role], Tail(inbox[role]))
  BY <1>1, TailElements, TailIsWeaker
<1> QED
  BY <1>1, <1>2, SameIsWeaker, Peers DEF Consumed

\* The receiver of a control packet takes it and sends nothing.
LEMMA ControlReceived ==
    ASSUME TypeOK, NEW role \in Roles, inbox[role] # <<>>, inbox' = Consumed(role)
    PROVE  NoNewMove
BY PacketConsumed DEF NoNewMove

\* The packets of the handshake are no bargaining moves.
LEMMA ControlKinds ==
    \A k \in {"peer_key", "seller_key", "contract_ready", "price_opening"} :
        k \in PacketKinds /\ k \notin BargainKinds
BY DEF PacketKinds, BargainKinds

\* A pending chain call is one of the five, at one of its two stages.
LEMMA CallTypes ==
    ASSUME TypeOK, NEW role \in Roles
    PROVE  /\ call[role] \in Calls
           /\ call[role].price \in Prices \cup {NoPrice}
           /\ call[role] # Idle =>
                /\ call[role].stage \in {"called", "applied"}
                /\ call[role].kind \in {"deploy", "join", "authorize", "settle", "cancel"}
                /\ call[role] = [kind |-> call[role].kind, stage |-> call[role].stage,
                                 price |-> call[role].price]
           /\ call[role].stage \in {"called", "applied"} => call[role] # Idle
BY DEF TypeOK, Calls, Idle

\* Handshake, chain calls and failures leave the bargain alone.
LEMMA ControlStepIsQuiet ==
    ASSUME TypeOK, ControlStep PROVE UNCHANGED <<setup, bargain>> /\ NoNewMove
<1>1. UNCHANGED <<setup, bargain>>
  BY DEF ControlStep, BuyerSetsLimit, SellerSetsLimit, AcceptSellerKey, AcceptContractReady,
         AcceptPriceOpening, AcceptPeerKey, Applies, Rejected, Confirms, CallFails, LinkBreaks
<1>2. "buyer" \in Roles /\ "seller" \in Roles
  BY DEF Roles
<1>3. /\ Control("seller_key") \in Packets /\ Control("seller_key").kind \notin BargainKinds
      /\ Control("contract_ready") \in Packets /\ Control("contract_ready").kind \notin BargainKinds
  BY ControlKinds, ControlType DEF Control, Packet
<1>4. CASE BuyerSetsLimit
  BY <1>4, SameChannels DEF BuyerSetsLimit
<1>5. CASE SellerSetsLimit
  BY <1>2, <1>3, <1>5, SameChannels, ControlSent DEF SellerSetsLimit
<1>6. CASE AcceptSellerKey
  BY <1>2, <1>6, ControlReceived DEF AcceptSellerKey
<1>7. CASE AcceptContractReady
  BY <1>2, <1>7, ControlReceived DEF AcceptContractReady
<1>8. CASE AcceptPriceOpening
  BY <1>2, <1>8, ControlReceived DEF AcceptPriceOpening
<1>9. ASSUME NEW role \in Roles, AcceptPeerKey(role) PROVE NoNewMove
  <2>1. CASE inbox' = Consumed(role)
    BY <1>9, <2>1, ControlReceived DEF AcceptPeerKey
  <2>2. CASE role = "seller" /\ inbox' = Delivered(Consumed(role), "seller", Control("seller_key"))
    <3>1. inbox[role] # <<>>
      BY <1>9 DEF AcceptPeerKey
    <3>2. /\ inbox' \in [Roles -> Seq(Packets)]
          /\ inbox'["seller"] = Consumed("seller")["seller"]
          /\ Weaker(Consumed("seller")[Peer("seller")], inbox'[Peer("seller")])
      BY <1>2, <1>3, <2>2, <3>1, PacketConsumed, ControlDelivered
    <3> QED
      BY <1>2, <2>2, <3>1, <3>2, PacketConsumed, Peers DEF NoNewMove
  <2> QED
    BY <1>9, <2>1, <2>2 DEF AcceptPeerKey
<1>10. ASSUME NEW role \in Roles, Applies(role) \/ Rejected(role) \/ CallFails(role)
       PROVE  NoNewMove
  BY <1>10, SameChannels DEF Applies, Rejected, CallFails
<1>11. ASSUME NEW role \in Roles, Confirms(role) PROVE NoNewMove
  <2>1. CASE inbox' = inbox
    BY <2>1, SameChannels
  <2>2. CASE inbox' = Delivered(inbox, "buyer", Control("contract_ready"))
    BY <1>2, <1>3, <2>2, ControlSent
  <2>3. CASE inbox' = Delivered(inbox, "buyer", Packet("price_opening", 0, call[role].price))
    <3>1. /\ Packet("price_opening", 0, call[role].price) \in Packets
          /\ Packet("price_opening", 0, call[role].price).kind \notin BargainKinds
      <4>1. 0 \in 0..MaxRounds
        BY BoundsAreNaturals
      <4> QED
        BY <4>1, CallTypes, PacketType, ControlKinds DEF Packet
    <3> QED
      BY <1>2, <2>3, <3>1, ControlSent
  <2> QED
    BY <1>11, <2>1, <2>2, <2>3 DEF Confirms
<1>12. ASSUME NEW role \in Roles, LinkBreaks(role) PROVE NoNewMove
  <2>1. PICK b \in 0..Len(inbox["buyer"]), s \in 0..Len(inbox["seller"]) :
            inbox' = [r \in Roles |-> SubSeq(inbox[r], 1, IF r = "buyer" THEN b ELSE s)]
    BY <1>12 DEF LinkBreaks
  <2>2. ASSUME NEW r \in Roles
        PROVE  inbox'[r] \in Seq(Packets) /\ Weaker(inbox[r], inbox'[r])
    <3>1. PICK n \in 0..Len(inbox[r]) : inbox'[r] = SubSeq(inbox[r], 1, n)
      BY <2>1 DEF Roles
    <3>2. inbox[r] \in Seq(Packets)
      BY InboxType
    <3>3. n \in Int /\ \A i \in 1..n : inbox[r][i] \in Packets
      BY <3>2, ElementOfSeq, LenProperties
    <3>4. SubSeq(inbox[r], 1, n) \in Seq(Packets)
      BY <3>3, SubSeqProperties
    <3> QED
      BY <3>1, <3>2, <3>4, PrefixIsWeaker
  <2> QED
    BY <2>1, <2>2 DEF NoNewMove
<1> QED
  BY <1>1, <1>4, <1>5, <1>6, <1>7, <1>8, <1>9, <1>10, <1>11, <1>12 DEF ControlStep

\* What the parties think and have agreed does not change in such a step.
LEMMA ControlKeepsBargain ==
    ASSUME NegotiationInv, ControlStep PROVE Conversation' /\ Unstarted' /\ Results'
<1>1. UNCHANGED <<setup, bargain>> /\ NoNewMove
  BY ControlStepIsQuiet DEF NegotiationInv
<1>2. Conversation'
  BY <1>1, ConversationGoesOn DEF NegotiationInv, NoNewMove
<1>3. Unstarted'
  <2>1. QuietLines => QuietLines'
    BY <1>1 DEF NoNewMove, Weaker, QuietLines
  <2> QED
    BY <1>1, <2>1 DEF NegotiationInv, Unstarted, Silent, NobodyThinks, Undecided, bargain
<1>4. Results'
  BY <1>1 DEF NegotiationInv, Results, AgreementConsistent, Undecided, bargain, setup
<1> QED
  BY <1>2, <1>3, <1>4

-----------------------------------------------------------------------------
(* The price on its way to the chain. *)

\* The openings on a channel: a sent packet adds at most its own ...
LEMMA OpeningsOfAppend ==
    ASSUME NEW S, NEW s \in Seq(S), NEW x \in S
    PROVE  Openings(Append(s, x)) \subseteq
              Openings(s) \cup (IF x.kind = "price_opening" THEN {x.price} ELSE {})
<1>1. /\ Len(Append(s, x)) = Len(s) + 1 /\ Append(s, x)[Len(s) + 1] = x
      /\ \A i \in 1..Len(s) : Append(s, x)[i] = s[i]
      /\ Len(s) \in Nat
  BY AppendProperties, LenProperties
<1> QED
  BY <1>1 DEF Openings

\* ... reading the first packet adds none ...
LEMMA OpeningsOfTail ==
    ASSUME NEW S, NEW s \in Seq(S), s # <<>>
    PROVE  /\ Openings(Tail(s)) \subseteq Openings(s)
           /\ Head(s).kind = "price_opening" => Head(s).price \in Openings(s)
<1>1. /\ Len(s) \in Nat \ {0} /\ Len(Tail(s)) = Len(s) - 1 /\ Head(s) = s[1]
      /\ \A i \in 1..Len(s) - 1 : Tail(s)[i] = s[i + 1]
  BY TailElements
<1> QED
  BY <1>1 DEF Openings

\* ... losing the last ones adds none ...
LEMMA OpeningsOfPrefix ==
    ASSUME NEW S, NEW s \in Seq(S), NEW n \in 0..Len(s)
    PROVE  Openings(SubSeq(s, 1, n)) \subseteq Openings(s)
<1>1. Len(s) \in Nat /\ n \in Int /\ \A i \in 1..n : s[i] \in S
  BY LenProperties, ElementOfSeq
<1>2. Len(SubSeq(s, 1, n)) = n /\ \A i \in 1..n : SubSeq(s, 1, n)[i] = s[i]
  BY <1>1, SubSeqProperties
<1> QED
  BY <1>1, <1>2 DEF Openings

\* relay() of a packet: an opening enters the seller's channel only as that packet.
LEMMA OpeningsDelivered ==
    ASSUME NEW boxes \in [Roles -> Seq(Packets)], NEW role \in Roles, NEW m \in Packets
    PROVE  Openings(Delivered(boxes, role, m)["seller"]) \subseteq
              Openings(boxes["seller"])
                \cup (IF m.kind = "price_opening" THEN {m.price} ELSE {})
<1>1. boxes["seller"] \in Seq(Packets)
  BY DEF Roles
<1>2. \/ Delivered(boxes, role, m)["seller"] = boxes["seller"]
      \/ Delivered(boxes, role, m)["seller"] = Append(boxes["seller"], m)
  BY Peers DEF Delivered
<1> QED
  BY <1>1, <1>2, OpeningsOfAppend

\* ... and so no receipt adds one on the way to the seller.
LEMMA OpeningsConsumed ==
    ASSUME TypeOK, NEW role \in Roles, inbox[role] # <<>>
    PROVE  Openings(Consumed(role)["seller"]) \subseteq Openings(inbox["seller"])
<1>1. inbox[role] \in Seq(Packets)
  BY DEF TypeOK
<1>2. \/ Consumed(role)["seller"] = inbox["seller"]
      \/ role = "seller" /\ Consumed(role)["seller"] = Tail(inbox["seller"])
  BY PacketConsumed, Peers DEF Roles
<1> QED
  BY <1>1, <1>2, OpeningsOfTail

\* No control step but the one that sends it puts an opening on its way.
LEMMA OpeningsOfControlStep ==
    ASSUME NegotiationInv, ControlStep
    PROVE  Openings(inbox'["seller"]) \subseteq SettledPrice
<1> USE DEF NegotiationInv
<1>0. /\ inbox \in [Roles -> Seq(Packets)]
      /\ "buyer" \in Roles /\ "seller" \in Roles
      /\ Openings(inbox["seller"]) \subseteq SettledPrice
  BY DEF TypeOK, Roles, PriceOnChain
<1>1. /\ Control("seller_key") \in Packets /\ Control("seller_key").kind # "price_opening"
      /\ Control("contract_ready") \in Packets /\ Control("contract_ready").kind # "price_opening"
  BY ControlKinds, ControlType DEF Control, Packet
<1>2. CASE inbox' = inbox
  BY <1>0, <1>2
<1>3. ASSUME NEW role \in Roles, inbox[role] # <<>>, inbox' = Consumed(role)
      PROVE  Openings(inbox'["seller"]) \subseteq SettledPrice
  BY <1>0, <1>3, OpeningsConsumed
<1>4. ASSUME NEW role \in Roles, NEW m \in Packets, m.kind # "price_opening",
             inbox' = Delivered(inbox, role, m)
      PROVE  Openings(inbox'["seller"]) \subseteq SettledPrice
  BY <1>0, <1>4, OpeningsDelivered
<1>5. CASE BuyerSetsLimit \/ SellerSetsLimit
  BY <1>0, <1>1, <1>2, <1>4, <1>5 DEF BuyerSetsLimit, SellerSetsLimit
<1>6. CASE AcceptSellerKey \/ AcceptContractReady \/ AcceptPriceOpening
  BY <1>0, <1>3, <1>6 DEF AcceptSellerKey, AcceptContractReady, AcceptPriceOpening
<1>7. ASSUME NEW role \in Roles, AcceptPeerKey(role)
      PROVE  Openings(inbox'["seller"]) \subseteq SettledPrice
  <2>1. inbox[role] # <<>>
    BY <1>7 DEF AcceptPeerKey
  <2>2. CASE inbox' = Delivered(Consumed(role), "seller", Control("seller_key"))
    <3>1. Consumed(role) \in [Roles -> Seq(Packets)]
      BY <2>1, PacketConsumed
    <3>2. Openings(inbox'["seller"]) \subseteq Openings(Consumed(role)["seller"])
      BY <1>0, <1>1, <2>2, <3>1, OpeningsDelivered
    <3> QED
      BY <1>0, <2>1, <3>2, OpeningsConsumed
  <2> QED
    BY <1>3, <1>7, <2>1, <2>2 DEF AcceptPeerKey
<1>8. ASSUME NEW role \in Roles, Confirms(role)
      PROVE  Openings(inbox'["seller"]) \subseteq SettledPrice
  <2> DEFINE m == Packet("price_opening", 0, call[role].price)
  <2>1. CASE call[role].kind = "authorize" /\ inbox' = Delivered(inbox, "buyer", m)
    <3>1. m.price \in SettledPrice
      BY <2>1 DEF PriceOnChain, CallsCarryPrice, Roles, Packet
    <3>2. m \in Packets
      <4>1. 0 \in 0..MaxRounds
        BY BoundsAreNaturals
      <4> QED
        BY <4>1, CallTypes, PacketType, ControlKinds
    <3> HIDE DEF m
    <3> QED
      BY <1>0, <2>1, <3>1, <3>2, OpeningsDelivered
  <2> QED
    BY <1>0, <1>1, <1>2, <1>4, <1>8, <2>1 DEF Confirms
<1>9. ASSUME NEW role \in Roles, LinkBreaks(role)
      PROVE  Openings(inbox'["seller"]) \subseteq SettledPrice
  <2>1. PICK s \in 0..Len(inbox["seller"]) : inbox'["seller"] = SubSeq(inbox["seller"], 1, s)
    BY <1>0, <1>9 DEF LinkBreaks
  <2> QED
    BY <1>0, <2>1, OpeningsOfPrefix
<1> QED
  BY <1>2, <1>5, <1>6, <1>7, <1>8, <1>9 DEF ControlStep, Applies, Rejected, CallFails

\* A step of the ledger keeps what it says of the price.
LEMMA LedgerStepKeepsPrice ==
    ASSUME NegotiationInv, NEW role \in Roles, Applies(role) PROVE LedgerCarriesPrice'
<1> USE DEF NegotiationInv, PriceOnChain
<1>1. /\ call[role].stage = "called" /\ LedgerStep(role) /\ UNCHANGED bargain
      /\ call[role].kind \in {"deploy", "join", "authorize", "settle", "cancel"}
  BY CallTypes DEF Applies, Idle
<1>2. UNCHANGED <<SettledPrice, agreed>>
  BY <1>1 DEF bargain, SettledPrice
<1>3. CASE call[role].kind = "deploy"
  BY <1>1, <1>2, <1>3 DEF LedgerStep, LedgerCarriesPrice, dealVars, Chain!PriceCommitmentFor
<1>4. CASE call[role].kind = "join"
  <2>1. status' = "OPEN"
    BY <1>1, <1>4 DEF LedgerStep, Chain!JoinDeal
  <2> QED
    BY <2>1 DEF LedgerCarriesPrice
<1>5. CASE call[role].kind = "authorize"
  <2>1. Chain!AuthorizeHiddenPrice(BuyerState(call[role].price))
    BY <1>1, <1>5 DEF LedgerStep
  <2>2. /\ status' = "AUTHORIZED" /\ dealId' = dealId
        /\ priceCommitment' = Chain!PriceCommitmentFor(call[role].price, "price")
    BY <2>1 DEF Chain!AuthorizeHiddenPrice, Chain!sealedVars, BuyerState
  <2>3. call[role].price \in SettledPrice
    BY <1>5 DEF CallsCarryPrice, Roles
  <2> QED
    BY <1>2, <2>2, <2>3 DEF LedgerCarriesPrice, Chain!PriceCommitmentFor
<1>6. CASE call[role].kind = "settle"
  <2>1. Chain!Settle(OpenedSellerState(call[role].price))
    BY <1>1, <1>6 DEF LedgerStep
  <2>2. status = "AUTHORIZED" /\ status' = "SETTLED" /\ UNCHANGED <<dealId, priceCommitment>>
    BY <2>1 DEF Chain!Settle, Chain!sealedVars
  <2>3. agreed \in SettledPrice
    BY <1>6 DEF CallsCarryPrice, Roles
  <2> QED
    BY <1>2, <2>2, <2>3 DEF LedgerCarriesPrice, Chain!PriceCommitmentFor
<1>7. CASE call[role].kind = "cancel"
  <2>1. status' = "CANCELLED"
    BY <1>1, <1>7 DEF LedgerStep, Chain!CancelAsBuyer, Chain!CancelAsSeller
  <2> QED
    BY <2>1 DEF LedgerCarriesPrice
<1> QED
  BY <1>1, <1>3, <1>4, <1>5, <1>6, <1>7

\* A control step starts a settle call only for the price both parties know.
LEMMA ControlStepCalls ==
    ASSUME NegotiationInv, ControlStep PROVE CallsCarryPrice'
<1> USE DEF NegotiationInv, PriceOnChain
<1>1. UNCHANGED <<SettledPrice, agreed>>
  BY ControlStepIsQuiet DEF bargain, SettledPrice
<1>2. call \in [Roles -> Calls] /\ Roles = {"buyer", "seller"}
  BY DEF TypeOK, Roles
<1>3. CASE call' = call
  BY <1>1, <1>3 DEF CallsCarryPrice
<1>4. ASSUME NEW role \in Roles, NEW k, NEW p, k \notin {"authorize", "settle"},
             call' = [call EXCEPT ![role] = Call(k, p)]
      PROVE  CallsCarryPrice'
  BY <1>1, <1>2, <1>4 DEF CallsCarryPrice, Call
<1>5. ASSUME NEW role \in Roles, call' = [call EXCEPT ![role] = Idle] PROVE CallsCarryPrice'
  BY <1>1, <1>2, <1>5 DEF CallsCarryPrice, Idle
<1>6. CASE BuyerSetsLimit \/ SellerSetsLimit \/ AcceptSellerKey \/ AcceptContractReady
  BY <1>2, <1>3, <1>4, <1>6 DEF BuyerSetsLimit, SellerSetsLimit, AcceptSellerKey, AcceptContractReady
<1>7. CASE AcceptPriceOpening
  <2> DEFINE m == Head(inbox["seller"])
  <2>1. CASE OpeningAgreed(m) /\ call' = [call EXCEPT !["seller"] = Call("settle", m.price)]
    <3>1. m.price \in SettledPrice
      <4>1. inbox["seller"] \in Seq(Packets) /\ inbox["seller"] # <<>> /\ m.kind = "price_opening"
        BY <1>2, <1>7 DEF TypeOK, AcceptPriceOpening
      <4> HIDE DEF m
      <4>2. m.price \in Openings(inbox["seller"])
        BY <4>1, OpeningsOfTail DEF m
      <4> QED
        BY <4>2
    <3>2. m.price = agreed
      BY <2>1 DEF OpeningAgreed
    <3> HIDE DEF m
    <3> QED
      BY <1>1, <1>2, <2>1, <3>1, <3>2 DEF CallsCarryPrice, Call
  <2>2. CASE call' = [call EXCEPT !["seller"] = Call("cancel", NoPrice)]
    BY <1>2, <1>4, <2>2
  <2> QED
    BY <1>7, <2>1, <2>2 DEF AcceptPriceOpening
<1>8. ASSUME NEW role \in Roles,
             AcceptPeerKey(role) \/ Applies(role) \/ Rejected(role) \/ Confirms(role)
               \/ CallFails(role) \/ LinkBreaks(role)
      PROVE  CallsCarryPrice'
  <2>1. CASE Applies(role)
    <3>1. call' = [call EXCEPT ![role].stage = "applied"] /\ call[role] # Idle
      BY <2>1, CallTypes DEF Applies
    <3>2. \A r \in Roles : call'[r].kind = call[r].kind /\ call'[r].price = call[r].price
      BY <1>2, <3>1, CallTypes
    <3> QED
      BY <1>1, <1>2, <3>2 DEF CallsCarryPrice
  <2>2. CASE call' = [call EXCEPT ![role] = AfterFailure(role)]
    <3>1. CASE call[role].kind = "settle"
      <4>1. call' = [call EXCEPT ![role] = Call("cancel", NoPrice)]
        BY <2>2, <3>1 DEF AfterFailure
      <4> QED
        BY <1>1, <1>2, <4>1 DEF CallsCarryPrice, Call
    <3>2. CASE call[role].kind # "settle"
      BY <1>5, <2>2, <3>2 DEF AfterFailure
    <3> QED
      BY <3>1, <3>2
  <2> QED
    BY <1>3, <1>5, <1>8, <2>1, <2>2
       DEF AcceptPeerKey, Rejected, Confirms, CallFails, LinkBreaks
<1> QED
  BY <1>6, <1>7, <1>8 DEF ControlStep

\* Handshake, chain calls and failures keep the hidden price the agreed one.
LEMMA ControlKeepsPrice == ASSUME NegotiationInv, ControlStep PROVE PriceOnChain'
<1>1. UNCHANGED <<SettledPrice, agreed>>
  BY ControlStepIsQuiet DEF NegotiationInv, bargain, SettledPrice
<1>2. Openings(inbox'["seller"]) \subseteq SettledPrice'
  BY <1>1, OpeningsOfControlStep
<1>3. LedgerCarriesPrice'
  <2>1. CASE \E role \in Roles : Applies(role)
    BY <2>1, LedgerStepKeepsPrice
  <2>2. CASE ~\E role \in Roles : Applies(role)
    <3>1. UNCHANGED dealVars
      BY <2>2 DEF ControlStep, BuyerSetsLimit, SellerSetsLimit, AcceptSellerKey,
                  AcceptContractReady, AcceptPriceOpening, AcceptPeerKey, Rejected, Confirms,
                  CallFails, LinkBreaks, ledger
    <3> QED
      BY <1>1, <3>1 DEF NegotiationInv, PriceOnChain, LedgerCarriesPrice, dealVars,
                        Chain!PriceCommitmentFor
  <2> QED
    BY <2>1, <2>2
<1> QED
  BY <1>2, <1>3, ControlStepCalls DEF PriceOnChain

-----------------------------------------------------------------------------
(* The moves. *)

\* What a party thinks about is a round and an offer.
LEMMA ContextTypes ==
    ASSUME TypeOK, NEW role \in Roles, NEW c \in thinking[role]
    PROVE  c \in Contexts /\ c.round \in 1..MaxRounds /\ c.offer \in Prices \cup {NoPrice}
BY DEF TypeOK, Contexts

\* A packet has a round, a price and a kind.
LEMMA PacketTypes ==
    ASSUME NEW m \in Packets
    PROVE  /\ m.round \in 0..MaxRounds /\ m.price \in Prices \cup {NoPrice}
           /\ m.kind \in PacketKinds
BY DEF Packets

\* A decision, or a bargaining packet, belongs to a started session.
LEMMA DecisionMeansStarted ==
    ASSUME Unstarted, NEW role \in Roles, NEW c \in thinking[role] PROVE started
BY DEF Unstarted, Silent, NobodyThinks

\* A bargaining packet travels only in a negotiation that was started.
LEMMA PacketMeansStarted ==
    ASSUME TypeOK, Unstarted, NEW role \in Roles,
           inbox[role] # <<>>, Head(inbox[role]).kind \in BargainKinds
    PROVE  started
<1>1. ~Quiet(inbox[role])
  BY InboxType, QuietHead
<1> QED
  BY <1>1 DEF Unstarted, Silent, QuietLines

\* An outcome is published once: none of the callers finds one.
LEMMA Published ==
    ASSUME outcome = "none", NEW result, NEW p, PublishOutcome(result, p)
    PROVE  /\ outcome' = result /\ price' = p
           /\ table' = [table EXCEPT !.turn = "done"]
           /\ call' = [call EXCEPT !["buyer"] =
                IF result = "SETTLED" THEN Call("authorize", p) ELSE Call("cancel", NoPrice)]
BY DEF PublishOutcome, AgreedAmount

\* The table of the conversation has its type, also when it is closed.
LEMMA TableType ==
    ASSUME TypeOK
    PROVE  /\ table.turn \in Roles \cup {"done"} /\ table.round \in 1..MaxRounds
           /\ table.offer \in Prices \cup {NoPrice}
           /\ [table EXCEPT !.turn = "done"].turn = "done"
           /\ [table EXCEPT !.turn = "done"].round = table.round
           /\ [table EXCEPT !.turn = "done"].offer = table.offer
BY DEF TypeOK

\* What is known when a party's candidate arrives.
LEMMA DecisionTaken ==
    ASSUME NegotiationInv, NEW role \in Roles, NEW c \in thinking[role], Resume(role, c)
    PROVE  /\ QuietLines /\ Considers(role, c) /\ started /\ NobodyThinks'
           /\ c.round \in 1..MaxRounds /\ c.round \in 0..MaxRounds
           /\ c.offer \in Prices \cup {NoPrice}
<1> USE DEF NegotiationInv
<1>1. QuietLines /\ Considers(role, c)
  BY DeciderIsAlone
<1>2. started
  BY DecisionMeansStarted
<1>3. NobodyThinks'
  BY ResumedIsIdle
<1>4. c.round \in 1..MaxRounds /\ c.offer \in Prices \cup {NoPrice}
  BY ContextTypes
<1> QED
  BY <1>1, <1>2, <1>3, <1>4, BoundsAreNaturals

TalkInv == Conversation /\ Unstarted /\ Results

\* The start begins the one conversation.
LEMMA StartRuntimeKeepsTalk == ASSUME NegotiationInv, StartRuntime PROVE TalkInv'
<1> USE DEF NegotiationInv
<1>1. Silent /\ Undecided /\ table = [turn |-> "buyer", round |-> 1, offer |-> NoPrice]
  BY DEF StartRuntime, NotStarted, Unstarted
<1>2. /\ thinking' = [thinking EXCEPT !["buyer"] = {Ctx(1, NoPrice)}]
      /\ UNCHANGED <<setup, inbox, table, outcome, agreed, price>>
  BY <1>1 DEF StartRuntime, Silent, NobodyThinks, Roles
<1>3. Deciding("buyer")'
  <2>1. thinking'["buyer"] = {Ctx(1, NoPrice)} /\ thinking'["seller"] = {}
    BY <1>1, <1>2 DEF TypeOK, Roles, Silent, NobodyThinks
  <2>2. QuietLines'
    BY <1>1, <1>2 DEF Silent, QuietLines
  <2>3. BuyerConsiders(Ctx(1, NoPrice))'
    BY <1>1, <1>2 DEF BuyerConsiders, Undecided, Ctx
  <2> QED
    BY <2>1, <2>2, <2>3 DEF Deciding, Considers, Peer
<1>4. Conversation'
  BY <1>3 DEF Conversation, Roles
<1>5. Unstarted'
  BY DEF StartRuntime, Unstarted
<1>6. Results'
  BY <1>2 DEF Results, AgreementConsistent, Undecided, setup
<1> QED
  BY <1>4, <1>5, <1>6 DEF TalkInv

\* The buyer that accepts closes the table.
LEMMA BuyerAcceptsKeepsTalk ==
    ASSUME NegotiationInv, NEW c \in thinking["buyer"], BuyerAccepts(c) PROVE TalkInv'
<1> USE DEF NegotiationInv
<1>1. "buyer" \in Roles /\ Peer("buyer") = "seller"
  BY DEF Roles, Peer
<1>2. /\ QuietLines /\ BuyerConsiders(c) /\ started /\ NobodyThinks'
      /\ c.round \in 0..MaxRounds /\ c.offer \in Prices \cup {NoPrice}
  BY <1>1, DecisionTaken DEF BuyerAccepts, Considers
<1>3. Unstarted'
  BY <1>2 DEF BuyerAccepts, Unstarted
<1>4. CASE link["buyer"]
  <2> DEFINE m == Packet("accept", c.round, c.offer)
  <2>1. /\ outcome' = "SETTLED" /\ price' = c.offer /\ agreed' = NoPrice
        /\ table' = [table EXCEPT !.turn = "done"] /\ inbox' = Delivered(inbox, "buyer", m)
        /\ UNCHANGED setup
    BY <1>2, <1>4, Published DEF BuyerAccepts, BuyerConsiders, Undecided
  <2>2. m \in Packets /\ m.kind \in BargainKinds /\ m.price = c.offer /\ m.kind = "accept"
    BY <1>2, PacketType DEF PacketKinds, BargainKinds, Packet
  <2> HIDE DEF m
  <2>3. Fits(Peer("buyer"), m)'
    BY <1>1, <2>1, <2>2 DEF Fits, FitsSeller
  <2>4. Conversation'
    BY <1>1, <1>2, <2>1, <2>2, <2>3, MoveIsSent
  <2>5. Results'
    BY <1>2, <2>1, TableType
       DEF Results, AgreementConsistent, Undecided, BuyerAccepts, BuyerConsiders, WithinLimit, setup
  <2> QED
    BY <1>3, <2>4, <2>5 DEF TalkInv
<1>5. CASE ~link["buyer"]
  <2>1. UNCHANGED <<setup, inbox, outcome, price, agreed, table>>
    BY <1>5 DEF BuyerAccepts
  <2>2. Conversation'
    BY <1>2, <2>1 DEF Conversation, Silent, QuietLines
  <2>3. Results'
    BY <2>1 DEF Results, AgreementConsistent, Undecided, setup
  <2> QED
    BY <1>3, <2>2, <2>3 DEF TalkInv
<1> QED
  BY <1>4, <1>5

\* The buyer that offers puts its one move on the way.
LEMMA BuyerOffersKeepsTalk ==
    ASSUME NegotiationInv, NEW c \in thinking["buyer"], NEW p \in Prices, BuyerOffers(c, p)
    PROVE  TalkInv'
<1> USE DEF NegotiationInv
<1>1. "buyer" \in Roles /\ Peer("buyer") = "seller"
  BY DEF Roles, Peer
<1>2. QuietLines /\ BuyerConsiders(c) /\ started /\ NobodyThinks' /\ c.round \in 1..MaxRounds
  BY <1>1, DecisionTaken DEF BuyerOffers, Considers
<1>3. Unstarted'
  BY <1>2 DEF BuyerOffers, Unstarted
<1>4. CASE NextRound(c) > MaxRounds
  <2>1. /\ outcome' = "CANCELLED" /\ agreed' = NoPrice
        /\ table' = [table EXCEPT !.turn = "done"] /\ inbox' = inbox
    BY <1>2, <1>4, Published DEF BuyerOffers, BuyerConsiders, Undecided
  <2>2. Conversation'
    BY <1>2, <2>1 DEF Conversation, Silent, QuietLines
  <2>3. Results'
    BY <2>1, TableType DEF Results, AgreementConsistent, Undecided
  <2> QED
    BY <1>3, <2>2, <2>3 DEF TalkInv
<1>5. CASE ~(NextRound(c) > MaxRounds)
  <2> DEFINE m == Packet("proposal", NextRound(c), p)
  <2>1. /\ UNCHANGED <<setup, outcome, price, agreed>>
        /\ inbox' = Delivered(inbox, "buyer", m)
        /\ table' = [turn |-> "seller", round |-> NextRound(c), offer |-> p]
    BY <1>5 DEF BuyerOffers
  <2>2. NextRound(c) \in 1..MaxRounds
    BY <1>2, <1>5, BoundsAreNaturals DEF NextRound
  <2>3. /\ m \in Packets /\ m.kind \in BargainKinds /\ m.kind = "proposal"
        /\ m.price = p /\ m.round = NextRound(c)
    BY <2>2, PacketType DEF PacketKinds, BargainKinds, Packet
  <2> HIDE DEF m
  <2>4. p # NoPrice /\ p <= max
    BY PricesArePositive DEF BuyerOffers, WithinLimit, NoPrice
  <2>5. Fits(Peer("buyer"), m)'
    BY <1>1, <1>2, <2>1, <2>3, <2>4
       DEF Fits, FitsSeller, SellerConsiders, BuyerConsiders, Undecided, Ctx, setup
  <2>6. Conversation'
    BY <1>1, <1>2, <2>1, <2>3, <2>5, MoveIsSent
  <2>7. Results'
    BY <1>2, <2>1 DEF Results, AgreementConsistent, Undecided, BuyerConsiders, setup
  <2> QED
    BY <1>3, <2>6, <2>7 DEF TalkInv
<1> QED
  BY <1>4, <1>5

\* The buyer that stops closes the table.
LEMMA BuyerStopsKeepsTalk ==
    ASSUME NegotiationInv, NEW c \in thinking["buyer"], BuyerStops(c) PROVE TalkInv'
<1> USE DEF NegotiationInv
<1>1. QuietLines /\ BuyerConsiders(c) /\ started /\ NobodyThinks'
  BY DecisionTaken DEF BuyerStops, Considers, Roles
<1>2. /\ outcome' = "CANCELLED" /\ agreed' = NoPrice
      /\ table' = [table EXCEPT !.turn = "done"] /\ inbox' = inbox
  BY <1>1, Published DEF BuyerStops, BuyerConsiders, Undecided
<1>3. Conversation'
  BY <1>1, <1>2 DEF Conversation, Silent, QuietLines
<1>4. Results'
  BY <1>2, TableType DEF Results, AgreementConsistent, Undecided
<1>5. Unstarted'
  BY <1>1 DEF BuyerStops, Unstarted
<1> QED
  BY <1>3, <1>4, <1>5 DEF TalkInv

\* The seller that accepts puts its acceptance on the way.
LEMMA SellerAcceptsKeepsTalk ==
    ASSUME NegotiationInv, NEW c \in thinking["seller"], SellerAccepts(c) PROVE TalkInv'
<1> USE DEF NegotiationInv
<1> DEFINE m == Packet("accept", c.round, c.offer)
<1>1. "seller" \in Roles /\ Peer("seller") = "buyer"
  BY DEF Roles, Peer
<1>2. /\ QuietLines /\ SellerConsiders(c) /\ started /\ NobodyThinks'
      /\ c.round \in 0..MaxRounds /\ c.offer \in Prices \cup {NoPrice}
  BY <1>1, DecisionTaken DEF SellerAccepts, Considers
<1>3. /\ UNCHANGED <<setup, started, outcome, price>> /\ agreed' = c.offer
      /\ table' = [table EXCEPT !.turn = "done"] /\ inbox' = Delivered(inbox, "seller", m)
      /\ min <= c.offer
  BY DEF SellerAccepts, WithinLimit
<1>4. m \in Packets /\ m.kind \in BargainKinds /\ m.price = c.offer /\ m.kind = "accept"
  BY <1>2, PacketType DEF PacketKinds, BargainKinds, Packet
<1> HIDE DEF m
<1>5. Fits(Peer("seller"), m)'
  BY <1>1, <1>2, <1>3, <1>4 DEF Fits, FitsBuyer, SellerConsiders, Undecided
<1>6. Conversation'
  BY <1>1, <1>2, <1>3, <1>4, <1>5, MoveIsSent
<1>7. Results'
  BY <1>2, <1>3, TableType DEF Results, AgreementConsistent, Undecided, SellerConsiders, setup
<1>8. Unstarted'
  BY <1>2, <1>3 DEF Unstarted
<1> QED
  BY <1>6, <1>7, <1>8 DEF TalkInv

\* The seller that offers puts its one move on the way.
LEMMA SellerOffersKeepsTalk ==
    ASSUME NegotiationInv, NEW c \in thinking["seller"], NEW p \in Prices, SellerOffers(c, p)
    PROVE  TalkInv'
<1> USE DEF NegotiationInv
<1> DEFINE m == Packet("proposal", c.round, p)
<1>1. "seller" \in Roles /\ Peer("seller") = "buyer"
  BY DEF Roles, Peer
<1>2. QuietLines /\ SellerConsiders(c) /\ started /\ NobodyThinks' /\ c.round \in 0..MaxRounds
  BY <1>1, DecisionTaken DEF SellerOffers, Considers
<1>3. /\ UNCHANGED <<setup, started, outcome, price, agreed>>
      /\ table' = [turn |-> "buyer", round |-> c.round, offer |-> p]
      /\ inbox' = Delivered(inbox, "seller", m) /\ min <= p /\ p # NoPrice
  BY PricesArePositive DEF SellerOffers, WithinLimit, NoPrice
<1>4. /\ m \in Packets /\ m.kind \in BargainKinds /\ m.kind = "proposal"
      /\ m.round = c.round /\ m.price = p
  BY <1>2, PacketType DEF PacketKinds, BargainKinds, Packet
<1> HIDE DEF m
<1>5. Fits(Peer("seller"), m)'
  BY <1>1, <1>2, <1>3, <1>4
     DEF Fits, FitsBuyer, BuyerConsiders, SellerConsiders, Undecided, Ctx, setup
<1>6. Conversation'
  BY <1>1, <1>2, <1>3, <1>4, <1>5, MoveIsSent
<1>7. Results'
  BY <1>2, <1>3 DEF Results, AgreementConsistent, Undecided, SellerConsiders, setup
<1>8. Unstarted'
  BY <1>2, <1>3 DEF Unstarted
<1> QED
  BY <1>6, <1>7, <1>8 DEF TalkInv

\* The seller that declines puts its decline on the way.
LEMMA SellerDeclinesKeepsTalk ==
    ASSUME NegotiationInv, NEW c \in thinking["seller"], SellerDeclines(c) PROVE TalkInv'
<1> USE DEF NegotiationInv
<1> DEFINE m == Packet("decline", c.round, NoPrice)
<1>1. "seller" \in Roles /\ Peer("seller") = "buyer"
  BY DEF Roles, Peer
<1>2. QuietLines /\ SellerConsiders(c) /\ started /\ NobodyThinks' /\ c.round \in 0..MaxRounds
  BY <1>1, DecisionTaken DEF SellerDeclines, Considers
<1>3. /\ UNCHANGED <<setup, started, outcome, price, agreed, table>>
      /\ inbox' = Delivered(inbox, "seller", m)
  BY DEF SellerDeclines
<1>4. m \in Packets /\ m.kind \in BargainKinds /\ m.kind = "decline" /\ m.round = c.round
  BY <1>2, PacketType DEF PacketKinds, BargainKinds, Packet
<1> HIDE DEF m
<1>5. Fits(Peer("seller"), m)'
  BY <1>1, <1>2, <1>3, <1>4 DEF Fits, FitsBuyer, SellerConsiders, Undecided
<1>6. Conversation'
  BY <1>1, <1>2, <1>3, <1>4, <1>5, MoveIsSent
<1>7. Results'
  BY <1>3 DEF Results, AgreementConsistent, Undecided, setup
<1>8. Unstarted'
  BY <1>2, <1>3 DEF Unstarted
<1> QED
  BY <1>6, <1>7, <1>8 DEF TalkInv

\* A received packet makes its receiver think, and nothing else is outstanding.
LEMMA ReceivedIsConsidered ==
    ASSUME TypeOK, NEW role \in Roles, NEW c, NobodyThinks, QuietLines',
           thinking' = [thinking EXCEPT ![role] = @ \cup {c}], Considers(role, c)'
    PROVE  Conversation'
<1>1. thinking'[role] = {c} /\ thinking'[Peer(role)] = {}
  BY Peers DEF TypeOK, NobodyThinks
<1>2. Deciding(role)'
  BY <1>1 DEF Deciding
<1> QED
  BY <1>2 DEF Conversation

\* What is known when a party receives a move.
LEMMA MoveReceived ==
    ASSUME NegotiationInv, NEW role \in Roles,
           inbox[role] # <<>>, Head(inbox[role]).kind \in BargainKinds, inbox' = Consumed(role)
    PROVE  /\ NobodyThinks /\ QuietLines' /\ started /\ Fits(role, Head(inbox[role]))
           /\ Head(inbox[role]) \in Packets
<1> USE DEF NegotiationInv
<1>1. /\ NobodyThinks /\ Quiet(Tail(inbox[role])) /\ Quiet(inbox[Peer(role)])
      /\ Fits(role, Head(inbox[role]))
  BY MoveIsTheOnlyOne
<1>2. inbox'[role] = Tail(inbox[role]) /\ inbox'[Peer(role)] = inbox[Peer(role)]
  BY PacketConsumed
<1>3. QuietLines'
  BY <1>1, <1>2, Peers DEF QuietLines
<1>4. started
  BY PacketMeansStarted
<1>5. Head(inbox[role]) \in Packets
  BY InboxType, TailElements
<1> QED
  BY <1>1, <1>3, <1>4, <1>5

\* The buyer that reads a move thinks about what is on the table.
LEMMA BuyerReceivesKeepsTalk == ASSUME NegotiationInv, BuyerReceives PROVE TalkInv'
<1> USE DEF NegotiationInv
<1>0. "buyer" \in Roles
  BY DEF Roles
<1>m. PICK m : m = Head(inbox["buyer"])
  OBVIOUS
<1>1. /\ NobodyThinks /\ QuietLines' /\ started /\ FitsBuyer(m) /\ m \in Packets
      /\ UNCHANGED <<setup, started, agreed>>
  <2>1. inbox["buyer"] # <<>> /\ inbox' = Consumed("buyer") /\ m.kind \in BargainKinds
    BY <1>m DEF BuyerReceives, BargainKinds
  <2> QED
    BY <1>0, <1>m, <2>1, MoveReceived DEF BuyerReceives, Fits
<1>2. Unstarted'
  BY <1>1 DEF Unstarted
<1>3. CASE UNCHANGED <<thinking, outcome, price, table>>
  <2>1. Conversation'
    BY <1>1, <1>3 DEF Conversation, Silent, NobodyThinks
  <2>2. Results'
    BY <1>1, <1>3 DEF Results, AgreementConsistent, Undecided, setup
  <2> QED
    BY <1>2, <2>1, <2>2 DEF TalkInv
<1>4. CASE m.kind = "accept" /\ PublishOutcome("SETTLED", m.price) /\ UNCHANGED thinking
  <2>1. outcome = "none" /\ agreed = m.price /\ agreed # NoPrice
    BY <1>1, <1>4 DEF FitsBuyer
  <2>2. outcome' = "SETTLED" /\ price' = agreed /\ table' = [table EXCEPT !.turn = "done"]
    BY <1>4, <2>1, Published
  <2>3. Conversation'
    BY <1>1, <1>4 DEF Conversation, Silent, NobodyThinks
  <2>4. Results'
    BY <1>1, <2>1, <2>2, TableType DEF Results, AgreementConsistent, Undecided, setup
  <2> QED
    BY <1>2, <2>3, <2>4 DEF TalkInv
<1>5. CASE m.kind = "decline" /\ PublishOutcome("CANCELLED", NoPrice) /\ UNCHANGED thinking
  <2>1. outcome = "none" /\ agreed = NoPrice
    BY <1>1, <1>5 DEF FitsBuyer, Undecided
  <2>2. outcome' = "CANCELLED" /\ table' = [table EXCEPT !.turn = "done"]
    BY <1>5, <2>1, Published
  <2>3. Conversation'
    BY <1>1, <1>5 DEF Conversation, Silent, NobodyThinks
  <2>4. Results'
    BY <1>1, <2>1, <2>2, TableType DEF Results, AgreementConsistent, Undecided
  <2> QED
    BY <1>2, <2>3, <2>4 DEF TalkInv
<1>6. CASE /\ m.kind = "decline" /\ UNCHANGED <<outcome, price>>
           /\ thinking' = [thinking EXCEPT !["buyer"] = @ \cup {Ctx(m.round + 1, NoPrice)}]
           /\ table' = [turn |-> "buyer", round |-> m.round + 1, offer |-> NoPrice]
  <2>1. Undecided /\ Undecided'
    BY <1>1, <1>6 DEF FitsBuyer, Undecided
  <2>2. Considers("buyer", Ctx(m.round + 1, NoPrice))'
    BY <1>6, <2>1 DEF Considers, BuyerConsiders, Ctx
  <2>3. Conversation'
    BY <1>0, <1>1, <1>6, <2>2, ReceivedIsConsidered
  <2>4. Results'
    BY <2>1 DEF Results, AgreementConsistent, Undecided
  <2> QED
    BY <1>2, <2>3, <2>4 DEF TalkInv
<1>7. CASE /\ m.kind = "proposal" /\ UNCHANGED <<outcome, price, table>>
           /\ thinking' = [thinking EXCEPT !["buyer"] = @ \cup {Ctx(m.round, m.price)}]
  <2>1. Considers("buyer", Ctx(m.round, m.price))'
    BY <1>1, <1>7 DEF FitsBuyer, Considers, BuyerConsiders, Undecided, setup
  <2>2. Conversation'
    BY <1>0, <1>1, <1>7, <2>1, ReceivedIsConsidered
  <2>3. Results'
    BY <1>1, <1>7 DEF Results, AgreementConsistent, Undecided, setup
  <2> QED
    BY <1>2, <2>2, <2>3 DEF TalkInv
<1> QED
  BY <1>m, <1>3, <1>4, <1>5, <1>6, <1>7 DEF BuyerReceives

\* The seller that reads a move thinks about what is on the table.
LEMMA SellerReceivesKeepsTalk == ASSUME NegotiationInv, SellerReceives PROVE TalkInv'
<1> USE DEF NegotiationInv
<1>0. "seller" \in Roles
  BY DEF Roles
<1>m. PICK m : m = Head(inbox["seller"])
  OBVIOUS
<1>1. /\ NobodyThinks /\ QuietLines' /\ started /\ FitsSeller(m) /\ m \in Packets
      /\ UNCHANGED <<setup, started, outcome, price, table>>
  <2>1. inbox["seller"] # <<>> /\ inbox' = Consumed("seller") /\ m.kind \in BargainKinds
    BY <1>m DEF SellerReceives, BargainKinds
  <2> QED
    BY <1>0, <1>m, <2>1, MoveReceived DEF SellerReceives, Fits
<1>2. Unstarted'
  BY <1>1 DEF Unstarted
<1>3. CASE UNCHANGED <<thinking, agreed>>
  <2>1. Conversation'
    BY <1>1, <1>3 DEF Conversation, Silent, NobodyThinks
  <2>2. Results'
    BY <1>1, <1>3 DEF Results, AgreementConsistent, Undecided, setup
  <2> QED
    BY <1>2, <2>1, <2>2 DEF TalkInv
<1>4. CASE m.kind = "accept" /\ agreed' = m.price /\ UNCHANGED thinking
  <2>1. outcome = "SETTLED" /\ price = m.price
    BY <1>1, <1>4 DEF FitsSeller
  <2>2. Conversation'
    BY <1>1, <1>4 DEF Conversation, Silent, NobodyThinks
  <2>3. Results'
    BY <1>1, <1>4, <2>1 DEF Results, AgreementConsistent, Undecided, setup
  <2> QED
    BY <1>2, <2>2, <2>3 DEF TalkInv
<1>5. CASE /\ m.kind = "proposal" /\ UNCHANGED agreed
           /\ thinking' = [thinking EXCEPT !["seller"] = @ \cup {Ctx(m.round, m.price)}]
  <2>1. Considers("seller", Ctx(m.round, m.price))'
    BY <1>1, <1>5 DEF FitsSeller, Considers, SellerConsiders, Undecided, setup
  <2>2. Conversation'
    BY <1>0, <1>1, <1>5, <2>1, ReceivedIsConsidered
  <2>3. Results'
    BY <1>1, <1>5 DEF Results, AgreementConsistent, Undecided, setup
  <2> QED
    BY <1>2, <2>2, <2>3 DEF TalkInv
<1> QED
  BY <1>m, <1>3, <1>4, <1>5 DEF SellerReceives

MoveStep == StartRuntime \/ Decide \/ BuyerReceives \/ SellerReceives

\* Every decision and every receipt keeps the conversation.
LEMMA MoveKeepsTalk == ASSUME NegotiationInv, MoveStep PROVE TalkInv'
BY StartRuntimeKeepsTalk, BuyerAcceptsKeepsTalk, BuyerOffersKeepsTalk, BuyerStopsKeepsTalk,
   SellerAcceptsKeepsTalk, SellerOffersKeepsTalk, SellerDeclinesKeepsTalk,
   BuyerReceivesKeepsTalk, SellerReceivesKeepsTalk
   DEF MoveStep, Decide

\* A published outcome is never replaced.
LEMMA OutcomeStays == ASSUME MoveStep, outcome # "none" PROVE UNCHANGED <<outcome, price, call>>
BY DEF MoveStep, StartRuntime, Decide, BuyerReceives, SellerReceives, BuyerAccepts, BuyerOffers,
       BuyerStops, SellerAccepts, SellerOffers, SellerDeclines, PublishOutcome

\* The seller's record of the agreed price is not replaced once it is settled.
LEMMA AgreedStays ==
    ASSUME NegotiationInv, MoveStep, agreed \in SettledPrice PROVE agreed' = agreed
<1>1. outcome = "SETTLED" /\ agreed # NoPrice
  BY DEF SettledPrice, NegotiationInv, Results
<1>2. ASSUME NEW c \in thinking["seller"], SellerAccepts(c) PROVE FALSE
  <2>1. Considers("seller", c)
    BY <1>2, DeciderIsAlone DEF NegotiationInv, Roles
  <2> QED
    BY <1>1, <2>1 DEF Considers, SellerConsiders, Undecided
<1> QED
  BY <1>1, <1>2 DEF MoveStep, StartRuntime, Decide, BuyerReceives, SellerReceives, BuyerAccepts,
                    BuyerOffers, BuyerStops, SellerOffers, SellerDeclines

\* A move sends a bargaining packet, or nothing.
LEMMA OpeningsOfMove ==
    ASSUME NegotiationInv, MoveStep
    PROVE  /\ inbox' \in [Roles -> Seq(Packets)]
           /\ Openings(inbox'["seller"]) \subseteq Openings(inbox["seller"])
<1> USE DEF NegotiationInv
<1>0. inbox \in [Roles -> Seq(Packets)] /\ "buyer" \in Roles /\ "seller" \in Roles
  BY DEF TypeOK, Roles
<1>1. CASE inbox' = inbox
  BY <1>0, <1>1
<1>2. ASSUME NEW role \in Roles, inbox[role] # <<>>, inbox' = Consumed(role)
      PROVE  /\ inbox' \in [Roles -> Seq(Packets)]
             /\ Openings(inbox'["seller"]) \subseteq Openings(inbox["seller"])
  BY <1>2, PacketConsumed, OpeningsConsumed
<1>3. ASSUME NEW role \in Roles, NEW kind \in BargainKinds, NEW round \in 0..MaxRounds,
             NEW p \in Prices \cup {NoPrice},
             inbox' = Delivered(inbox, role, Packet(kind, round, p))
      PROVE  /\ inbox' \in [Roles -> Seq(Packets)]
             /\ Openings(inbox'["seller"]) \subseteq Openings(inbox["seller"])
  <2>1. PICK m : m = Packet(kind, round, p)
    OBVIOUS
  <2>2. m \in Packets /\ m.kind # "price_opening"
    BY <2>1, PacketType DEF Packet, PacketKinds, BargainKinds
  <2>3. Openings(inbox'["seller"]) \subseteq Openings(inbox["seller"])
    BY <1>0, <1>3, <2>1, <2>2, OpeningsDelivered
  <2>4. inbox' \in [Roles -> Seq(Packets)]
    <3>1. Append(inbox[Peer(role)], m) \in Seq(Packets)
      BY <1>0, <2>2, Peers, AppendProperties
    <3> QED
      BY <1>0, <1>3, <2>1, <3>1, Peers DEF Delivered
  <2> QED
    BY <2>3, <2>4
<1>4. CASE StartRuntime
  BY <1>1, <1>4 DEF StartRuntime
<1>5. ASSUME NEW role \in Roles, NEW c \in thinking[role]
      PROVE  c.round \in 0..MaxRounds /\ c.round \in Nat /\ c.offer \in Prices \cup {NoPrice}
  BY ContextTypes, BoundsAreNaturals
<1>6. {"accept", "proposal", "decline"} \subseteq BargainKinds /\ NoPrice \in Prices \cup {NoPrice}
  BY DEF BargainKinds
<1>7. ASSUME NEW c \in thinking["buyer"], BuyerAccepts(c)
      PROVE  /\ inbox' \in [Roles -> Seq(Packets)]
             /\ Openings(inbox'["seller"]) \subseteq Openings(inbox["seller"])
  BY <1>0, <1>1, <1>3, <1>5, <1>6, <1>7 DEF BuyerAccepts
<1>8. ASSUME NEW c \in thinking["buyer"], NEW p \in Prices, BuyerOffers(c, p)
      PROVE  /\ inbox' \in [Roles -> Seq(Packets)]
             /\ Openings(inbox'["seller"]) \subseteq Openings(inbox["seller"])
  <2>1. CASE NextRound(c) > MaxRounds
    BY <1>1, <1>8, <2>1 DEF BuyerOffers
  <2>2. CASE ~(NextRound(c) > MaxRounds)
    <3>1. NextRound(c) \in 0..MaxRounds
      BY <1>0, <1>5, <2>2, BoundsAreNaturals DEF NextRound
    <3> QED
      BY <1>0, <1>3, <1>6, <1>8, <2>2, <3>1 DEF BuyerOffers
  <2> QED
    BY <2>1, <2>2
<1>9. ASSUME NEW c \in thinking["buyer"], BuyerStops(c)
      PROVE  /\ inbox' \in [Roles -> Seq(Packets)]
             /\ Openings(inbox'["seller"]) \subseteq Openings(inbox["seller"])
  BY <1>1, <1>9 DEF BuyerStops
<1>10. ASSUME NEW c \in thinking["seller"], SellerAccepts(c)
       PROVE  /\ inbox' \in [Roles -> Seq(Packets)]
              /\ Openings(inbox'["seller"]) \subseteq Openings(inbox["seller"])
  BY <1>0, <1>3, <1>5, <1>6, <1>10 DEF SellerAccepts
<1>11. ASSUME NEW c \in thinking["seller"], SellerDeclines(c)
       PROVE  /\ inbox' \in [Roles -> Seq(Packets)]
              /\ Openings(inbox'["seller"]) \subseteq Openings(inbox["seller"])
  BY <1>0, <1>3, <1>5, <1>6, <1>11 DEF SellerDeclines
<1>12. ASSUME NEW c \in thinking["seller"], NEW p \in Prices, SellerOffers(c, p)
       PROVE  /\ inbox' \in [Roles -> Seq(Packets)]
              /\ Openings(inbox'["seller"]) \subseteq Openings(inbox["seller"])
  BY <1>0, <1>3, <1>5, <1>6, <1>12 DEF SellerOffers
<1>13. CASE BuyerReceives \/ SellerReceives
  BY <1>0, <1>2, <1>13 DEF BuyerReceives, SellerReceives
<1> QED
  BY <1>4, <1>7, <1>8, <1>9, <1>10, <1>11, <1>12, <1>13 DEF MoveStep, Decide

\* A published outcome starts the call that carries its price.
LEMMA PublishedCall ==
    ASSUME NegotiationInv, NEW result \in {"SETTLED", "CANCELLED"},
           NEW p \in Prices \cup {NoPrice}, PublishOutcome(result, p), UNCHANGED agreed
    PROVE  call' \in [Roles -> Calls] /\ CallsCarryPrice' /\ price' \in Prices \cup {NoPrice}
<1> USE DEF NegotiationInv, PriceOnChain
<1>0. call \in [Roles -> Calls] /\ "buyer" \in Roles /\ "seller" \in Roles
  BY DEF TypeOK, Roles
<1>1. CASE outcome # "none"
  <2>1. UNCHANGED <<outcome, price, call>>
    BY <1>1 DEF PublishOutcome
  <2> QED
    BY <1>0, <2>1 DEF CallsCarryPrice, SettledPrice, TypeOK
<1>2. CASE outcome = "none"
  <2>1. PICK k \in {"authorize", "cancel"}, q \in Prices \cup {NoPrice} :
            /\ call' = [call EXCEPT !["buyer"] = Call(k, q)]
            /\ k = "authorize" => q \in SettledPrice'
    BY <1>2, Published DEF SettledPrice
  <2>2. price' \in Prices \cup {NoPrice}
    BY <1>2, Published
  <2>3. Call(k, q) \in Calls /\ Call(k, q).kind = k /\ Call(k, q).price = q
    BY DEF Call, Calls
  <2>4. call["seller"].kind # "settle"
    BY <1>2 DEF CallsCarryPrice, SettledPrice
  <2> QED
    BY <1>0, <2>1, <2>2, <2>3, <2>4 DEF CallsCarryPrice
<1> QED
  BY <1>1, <1>2

\* The buyer's call is the only one a move starts.
LEMMA CallsOfMove ==
    ASSUME NegotiationInv, MoveStep
    PROVE  call' \in [Roles -> Calls] /\ CallsCarryPrice' /\ price' \in Prices \cup {NoPrice}
<1> USE DEF NegotiationInv, PriceOnChain
<1>1. CASE UNCHANGED <<call, outcome, price>>
  <2>1. SettledPrice' = SettledPrice
    BY <1>1 DEF SettledPrice
  <2>2. agreed \in SettledPrice => agreed' = agreed
    BY AgreedStays
  <2> QED
    BY <1>1, <2>1, <2>2 DEF CallsCarryPrice, TypeOK
<1>2. ASSUME NEW c \in thinking["buyer"], BuyerAccepts(c), ~UNCHANGED <<call, outcome, price>>
      PROVE  call' \in [Roles -> Calls] /\ CallsCarryPrice' /\ price' \in Prices \cup {NoPrice}
  <2>1. c.offer \in Prices \cup {NoPrice}
    BY ContextTypes DEF Roles
  <2>2. PublishOutcome("SETTLED", c.offer) /\ UNCHANGED agreed
    BY <1>2 DEF BuyerAccepts
  <2> QED
    BY <2>1, <2>2, PublishedCall
<1>3. CASE PublishOutcome("CANCELLED", NoPrice) /\ UNCHANGED agreed
  BY <1>3, PublishedCall
<1>4. CASE BuyerReceives
  <2>1. Head(inbox["buyer"]).price \in Prices \cup {NoPrice}
    <3>1. Head(inbox["buyer"]) \in Packets
      <4>1. inbox["buyer"] \in Seq(Packets) /\ inbox["buyer"] # <<>>
        BY <1>4, InboxType DEF BuyerReceives, Roles
      <4> QED
        BY <4>1, TailElements
    <3> QED
      BY <3>1, PacketTypes
  <2>2. CASE PublishOutcome("SETTLED", Head(inbox["buyer"]).price)
    BY <1>4, <2>1, <2>2, PublishedCall DEF BuyerReceives
  <2> QED
    BY <1>1, <1>3, <1>4, <2>2 DEF BuyerReceives
<1> QED
  BY <1>1, <1>2, <1>3, <1>4
     DEF MoveStep, Decide, StartRuntime, SellerReceives, BuyerOffers, BuyerStops, SellerAccepts,
         SellerOffers, SellerDeclines

\* Every decision and every receipt keeps the hidden price the agreed one.
LEMMA MoveKeepsPrice == ASSUME NegotiationInv, MoveStep PROVE PriceOnChain'
<1> USE DEF NegotiationInv, PriceOnChain
<1>1. SettledPrice \subseteq SettledPrice'
  BY OutcomeStays DEF SettledPrice
<1>2. agreed \in SettledPrice => agreed' = agreed
  BY AgreedStays
<1>3. UNCHANGED dealVars
  BY DEF MoveStep, Decide, StartRuntime, BuyerReceives, SellerReceives, BuyerAccepts, BuyerOffers,
         BuyerStops, SellerAccepts, SellerOffers, SellerDeclines, ledger
<1>4. LedgerCarriesPrice'
  BY <1>1, <1>2, <1>3 DEF LedgerCarriesPrice, dealVars, Chain!PriceCommitmentFor
<1> QED
  BY <1>1, <1>4, OpeningsOfMove, CallsOfMove

-----------------------------------------------------------------------------
(* Types. *)

\* What the moves change, and what the handshake and the chain change.
TalkTypes ==
    /\ started \in BOOLEAN
    /\ thinking \in [Roles -> SUBSET Contexts]
    /\ lastSent \in [Roles -> [round : 0..MaxRounds, price : Prices \cup {NoPrice}]]
    /\ outcome \in {"none", "SETTLED", "CANCELLED"}
    /\ price \in Prices \cup {NoPrice} /\ agreed \in Prices \cup {NoPrice}
    /\ table \in [turn : Roles \cup {"done"}, round : 1..MaxRounds, offer : Prices \cup {NoPrice}]

SetupTypes ==
    /\ max \in BuyerLimits /\ min \in SellerLimits
    /\ locked \in [Roles -> BOOLEAN] /\ keyed \in [Roles -> BOOLEAN]
    /\ connecting \in [Roles -> BOOLEAN] /\ connected \in [Roles -> BOOLEAN]
    /\ link \in [Roles -> BOOLEAN]
    /\ sellerKeyKnown \in BOOLEAN /\ pendingAddress \in BOOLEAN /\ deployed \in BOOLEAN
    /\ faults \in 0..MaxFaults
    /\ status \in Chain!DealStatus

LineTypes == inbox \in [Roles -> Seq(Packets)] /\ call \in [Roles -> Calls]

\* The type invariant in three parts: the talk, the setup and the lines ...
LEMMA Types == TypeOK <=> TalkTypes /\ SetupTypes /\ LineTypes
BY DEF TypeOK, TalkTypes, SetupTypes, LineTypes

\* ... and the same of the next state.
LEMMA NextTypes == TypeOK' <=> TalkTypes' /\ SetupTypes' /\ LineTypes'
BY DEF TypeOK, TalkTypes, SetupTypes, LineTypes

\* PublishOutcome ends the bargaining on the table.
LEMMA PublishedTypes ==
    ASSUME TypeOK, NEW result \in {"SETTLED", "CANCELLED"}, NEW p, PublishOutcome(result, p)
    PROVE  /\ outcome' \in {"none", "SETTLED", "CANCELLED"}
           /\ table' \in [turn : Roles \cup {"done"}, round : 1..MaxRounds,
                           offer : Prices \cup {NoPrice}]
BY DEF TypeOK, PublishOutcome

\* A decision keeps the types of the talk.
LEMMA DecisionTypes ==
    ASSUME NegotiationInv, Decide PROVE TalkTypes'
<1> USE DEF NegotiationInv
<1>1. TalkTypes /\ price' \in Prices \cup {NoPrice} /\ "buyer" \in Roles /\ "seller" \in Roles
  BY Types, CallsOfMove DEF MoveStep, Roles
<1>2. ASSUME NEW role \in Roles, NEW c \in thinking[role]
      PROVE  /\ c.round \in 1..MaxRounds /\ c.round \in 0..MaxRounds
             /\ c.offer \in Prices \cup {NoPrice}
             /\ Resume(role, c) => thinking' \in [Roles -> SUBSET Contexts]
  BY <1>1, ContextTypes, BoundsAreNaturals DEF TalkTypes, Resume
<1>3. ASSUME NEW c \in thinking["buyer"], BuyerAccepts(c) PROVE TalkTypes'
  BY <1>1, <1>2, <1>3, PublishedTypes DEF BuyerAccepts, TalkTypes
<1>4. ASSUME NEW c \in thinking["buyer"], NEW p \in Prices, BuyerOffers(c, p) PROVE TalkTypes'
  <2>1. CASE NextRound(c) > MaxRounds
    BY <1>1, <1>2, <1>4, <2>1, PublishedTypes DEF BuyerOffers, TalkTypes
  <2>2. CASE ~(NextRound(c) > MaxRounds)
    <3>1. NextRound(c) \in 1..MaxRounds /\ NextRound(c) \in 0..MaxRounds
      BY <1>1, <1>2, <2>2, BoundsAreNaturals DEF NextRound
    <3> QED
      BY <1>1, <1>2, <1>4, <2>2, <3>1 DEF BuyerOffers, TalkTypes
  <2> QED
    BY <2>1, <2>2
<1>5. ASSUME NEW c \in thinking["buyer"], BuyerStops(c) PROVE TalkTypes'
  BY <1>1, <1>2, <1>5, PublishedTypes DEF BuyerStops, TalkTypes
<1>6. ASSUME NEW c \in thinking["seller"], SellerAccepts(c) PROVE TalkTypes'
  BY <1>1, <1>2, <1>6 DEF SellerAccepts, TalkTypes
<1>7. ASSUME NEW c \in thinking["seller"], NEW p \in Prices, SellerOffers(c, p) PROVE TalkTypes'
  BY <1>1, <1>2, <1>7 DEF SellerOffers, TalkTypes
<1>8. ASSUME NEW c \in thinking["seller"], SellerDeclines(c) PROVE TalkTypes'
  BY <1>1, <1>2, <1>8 DEF SellerDeclines, TalkTypes
<1> QED
  BY <1>3, <1>4, <1>5, <1>6, <1>7, <1>8 DEF Decide

\* A packet of a round that is on the table makes a context of that round.
LEMMA ReceiptTypes ==
    ASSUME NegotiationInv, BuyerReceives \/ SellerReceives PROVE TalkTypes'
<1> USE DEF NegotiationInv
<1>1. TalkTypes /\ price' \in Prices \cup {NoPrice} /\ "buyer" \in Roles /\ "seller" \in Roles
  BY Types, CallsOfMove DEF MoveStep, Roles
<1>2. ASSUME NEW role \in Roles, NEW c \in Contexts,
             thinking' = [thinking EXCEPT ![role] = @ \cup {c}]
      PROVE  thinking' \in [Roles -> SUBSET Contexts]
  BY <1>1, <1>2 DEF TalkTypes
<1>3. ASSUME BuyerReceives PROVE TalkTypes'
  <2>1. PICK m : m = Head(inbox["buyer"])
    OBVIOUS
  <2>2. m \in Packets /\ FitsBuyer(m)
    <3>1. inbox["buyer"] # <<>> /\ inbox' = Consumed("buyer") /\ m.kind \in BargainKinds
      BY <1>3, <2>1 DEF BuyerReceives, BargainKinds
    <3> QED
      BY <1>1, <2>1, <3>1, MoveReceived DEF Fits
  <2>3. m.round \in 0..MaxRounds /\ m.price \in Prices \cup {NoPrice}
    BY <2>2, PacketTypes
  <2>4. m.kind = "proposal" => Ctx(m.round, m.price) \in Contexts
    BY <2>2, <2>3, TableType DEF FitsBuyer, BuyerConsiders, Ctx, Contexts
  <2>5. m.round < MaxRounds => m.round + 1 \in 1..MaxRounds /\ Ctx(m.round + 1, NoPrice) \in Contexts
    BY <2>3, BoundsAreNaturals DEF Ctx, Contexts
  <2>6. UNCHANGED <<started, lastSent, agreed>>
    BY <1>3 DEF BuyerReceives
  <2>7. CASE PublishOutcome("SETTLED", m.price) /\ UNCHANGED thinking
    BY <1>1, <2>6, <2>7, PublishedTypes DEF TalkTypes
  <2>8. CASE PublishOutcome("CANCELLED", NoPrice) /\ UNCHANGED thinking
    BY <1>1, <2>6, <2>8, PublishedTypes DEF TalkTypes
  <2>9. CASE UNCHANGED <<outcome, table, thinking>>
    BY <1>1, <2>6, <2>9 DEF TalkTypes
  <2>10. CASE /\ m.kind = "proposal" /\ UNCHANGED <<outcome, table>>
              /\ thinking' = [thinking EXCEPT !["buyer"] = @ \cup {Ctx(m.round, m.price)}]
    BY <1>1, <1>2, <2>4, <2>6, <2>10 DEF TalkTypes
  <2>11. CASE /\ ~InLastRound(m) /\ UNCHANGED outcome
              /\ thinking' = [thinking EXCEPT !["buyer"] = @ \cup {Ctx(m.round + 1, NoPrice)}]
              /\ table' = [turn |-> "buyer", round |-> m.round + 1, offer |-> NoPrice]
    <3>1. m.round < MaxRounds
      BY <2>3, <2>11, BoundsAreNaturals DEF InLastRound
    <3> QED
      BY <1>1, <1>2, <2>5, <2>6, <2>11, <3>1 DEF TalkTypes
  <2> QED
    BY <1>3, <2>1, <2>7, <2>8, <2>9, <2>10, <2>11 DEF BuyerReceives
<1>4. ASSUME SellerReceives PROVE TalkTypes'
  <2>1. PICK m : m = Head(inbox["seller"])
    OBVIOUS
  <2>2. m \in Packets /\ FitsSeller(m)
    <3>1. inbox["seller"] # <<>> /\ inbox' = Consumed("seller") /\ m.kind \in BargainKinds
      BY <1>4, <2>1 DEF SellerReceives, BargainKinds
    <3> QED
      BY <1>1, <2>1, <3>1, MoveReceived DEF Fits
  <2>3. m.price \in Prices \cup {NoPrice}
    BY <2>2, PacketTypes
  <2>4. m.kind = "proposal" => Ctx(m.round, m.price) \in Contexts
    BY <2>2, <2>3, TableType DEF FitsSeller, SellerConsiders, Ctx, Contexts
  <2>5. UNCHANGED <<started, lastSent, outcome, table>>
    BY <1>4 DEF SellerReceives
  <2>6. CASE UNCHANGED thinking /\ (agreed' = agreed \/ agreed' = m.price)
    BY <1>1, <2>3, <2>5, <2>6 DEF TalkTypes
  <2>7. CASE /\ m.kind = "proposal" /\ UNCHANGED agreed
             /\ thinking' = [thinking EXCEPT !["seller"] = @ \cup {Ctx(m.round, m.price)}]
    BY <1>1, <1>2, <2>4, <2>5, <2>7 DEF TalkTypes
  <2> QED
    BY <1>4, <2>1, <2>6, <2>7 DEF SellerReceives
<1> QED
  BY <1>3, <1>4

\* Every decision and every receipt keeps the types.
LEMMA MoveTypes == ASSUME NegotiationInv, MoveStep PROVE TypeOK'
<1> USE DEF NegotiationInv
<1>1. SetupTypes'
  <2>1. UNCHANGED <<setup, locked, keyed, connecting, connected, link, sellerKeyKnown,
                    pendingAddress, deployed, faults, status>>
    BY DEF MoveStep, Decide, StartRuntime, BuyerReceives, SellerReceives, BuyerAccepts,
           BuyerOffers, BuyerStops, SellerAccepts, SellerOffers, SellerDeclines, handshake, ledger,
           dealVars
  <2> QED
    BY <2>1, Types DEF SetupTypes, setup
<1>2. LineTypes'
  BY OpeningsOfMove, CallsOfMove DEF LineTypes
<1>3. ASSUME StartRuntime PROVE TalkTypes'
  <2>1. Ctx(1, NoPrice) \in Contexts
    BY BoundsAreNaturals DEF Ctx, Contexts
  <2> QED
    BY <1>3, <2>1, Types DEF StartRuntime, TalkTypes
<1> QED
  BY <1>1, <1>2, <1>3, DecisionTypes, ReceiptTypes, NextTypes DEF MoveStep

\* Handshake, chain calls and failures keep the types.
LEMMA ControlTypes == ASSUME NegotiationInv, ControlStep PROVE TypeOK'
<1> USE DEF NegotiationInv
<1>0. /\ UNCHANGED <<setup, bargain>> /\ NoNewMove /\ SetupTypes /\ TalkTypes
      /\ call \in [Roles -> Calls] /\ "buyer" \in Roles /\ "seller" \in Roles
  BY ControlStepIsQuiet, Types DEF LineTypes, Roles
<1>1. TalkTypes'
  BY <1>0 DEF TalkTypes, bargain
<1>2. call' \in [Roles -> Calls]
  <2>1. ASSUME NEW k \in {"deploy", "join", "settle", "cancel"}, NEW p \in Prices \cup {NoPrice}
        PROVE  Call(k, p) \in Calls /\ Idle \in Calls
    BY DEF Call, Calls
  <2>2. ASSUME NEW role \in Roles, NEW d \in Calls, call' = [call EXCEPT ![role] = d]
        PROVE  call' \in [Roles -> Calls]
    BY <1>0, <2>2
  <2>3. CASE BuyerSetsLimit \/ SellerSetsLimit \/ AcceptSellerKey \/ AcceptContractReady
    BY <1>0, <2>1, <2>3
       DEF BuyerSetsLimit, SellerSetsLimit, AcceptSellerKey, AcceptContractReady
  <2>4. CASE AcceptPriceOpening
    <3>1. Head(inbox["seller"]).price \in Prices \cup {NoPrice}
      <4>1. inbox["seller"] \in Seq(Packets) /\ inbox["seller"] # <<>>
        BY <1>0, <2>4, InboxType DEF AcceptPriceOpening
      <4> QED
        BY <4>1, TailElements, PacketTypes
    <3> QED
      BY <1>0, <2>1, <2>4, <3>1 DEF AcceptPriceOpening
  <2>5. ASSUME NEW role \in Roles, Applies(role) PROVE call' \in [Roles -> Calls]
    <3>1. [call[role] EXCEPT !.stage = "applied"] \in Calls
      <4>1. call[role] # Idle
        BY <2>5 DEF Applies, Idle
      <4> QED
        BY <1>0, <4>1 DEF Calls
    <3> QED
      BY <1>0, <2>5, <3>1 DEF Applies
  <2>6. ASSUME NEW role \in Roles, Rejected(role) \/ CallFails(role) \/ Confirms(role)
        PROVE  call' \in [Roles -> Calls]
    <3>1. AfterFailure(role) \in Calls /\ Idle \in Calls
      BY <2>1 DEF AfterFailure
    <3> QED
      BY <1>0, <2>6, <3>1 DEF Rejected, CallFails, Confirms
  <2>7. ASSUME NEW role \in Roles, AcceptPeerKey(role) \/ LinkBreaks(role)
        PROVE  call' \in [Roles -> Calls]
    BY <1>0, <2>7 DEF AcceptPeerKey, LinkBreaks
  <2> QED
    BY <2>3, <2>4, <2>5, <2>6, <2>7 DEF ControlStep
<1>3. SetupTypes'
  <2>1. CASE BuyerSetsLimit \/ SellerSetsLimit \/ AcceptSellerKey \/ AcceptContractReady
               \/ AcceptPriceOpening
    BY <1>0, <2>1
       DEF BuyerSetsLimit, SellerSetsLimit, AcceptSellerKey, AcceptContractReady,
           AcceptPriceOpening, SetupTypes, setup, handshake, ledger, dealVars
  <2>2. ASSUME NEW role \in Roles, AcceptPeerKey(role) \/ Rejected(role) \/ Confirms(role)
        PROVE  SetupTypes'
    BY <1>0, <2>2
       DEF AcceptPeerKey, Rejected, Confirms, SetupTypes, setup, handshake, ledger, dealVars
  <2>3. ASSUME NEW role \in Roles, CallFails(role) \/ LinkBreaks(role) PROVE SetupTypes'
    <3>1. faults' \in 0..MaxFaults
      BY <1>0, <2>3, BoundsAreNaturals DEF CallFails, LinkBreaks, Fault, SetupTypes
    <3>2. link' \in [Roles -> BOOLEAN]
      BY <1>0, <2>3 DEF CallFails, LinkBreaks, SetupTypes
    <3> QED
      BY <1>0, <2>3, <3>1, <3>2
         DEF CallFails, LinkBreaks, SetupTypes, setup, handshake, ledger, dealVars
  <2>4. ASSUME NEW role \in Roles, Applies(role) PROVE SetupTypes'
    <3>1. /\ LedgerStep(role)
          /\ call[role].kind \in {"deploy", "join", "authorize", "settle", "cancel"}
      BY <2>4, CallTypes DEF Applies, Idle
    <3>2. deployed' \in BOOLEAN /\ status' \in Chain!DealStatus
      BY <1>0, <3>1
         DEF LedgerStep, SetupTypes, dealVars, Chain!DealStatus, Chain!JoinDeal,
             Chain!AuthorizeHiddenPrice, Chain!Settle, Chain!CancelAsBuyer, Chain!CancelAsSeller
    <3> QED
      BY <1>0, <2>4, <3>2 DEF Applies, SetupTypes, setup, handshake
  <2> QED
    BY <2>1, <2>2, <2>3, <2>4 DEF ControlStep
<1> QED
  BY <1>0, <1>1, <1>2, <1>3, NextTypes DEF LineTypes, NoNewMove

-----------------------------------------------------------------------------
(* The invariant. *)

\* A step is one of the two kinds.
LEMMA NextSteps == Next => MoveStep \/ ControlStep
BY DEF Next, Receive, MoveStep, ControlStep

\* The inductive invariant holds when both runtimes join ...
LEMMA NegotiationInit == Init => NegotiationInv
<1> SUFFICES ASSUME Init PROVE NegotiationInv
  OBVIOUS
<1>1. /\ Control("peer_key") \in Packets
      /\ Control("peer_key").kind \notin {"price_opening"} \cup BargainKinds
  BY ControlKinds, ControlType DEF Control, Packet
<1>2. PICK m \in Packets : /\ m.kind \notin {"price_opening"} \cup BargainKinds
                           /\ inbox = [r \in Roles |-> <<m>>]
  BY <1>1 DEF Init
<1>3. Len(<<m>>) = 1 /\ <<m>>[1] = m /\ <<m>> \in Seq(Packets)
  OBVIOUS
<1>4. TypeOK
  <2>1. status = "WAITING_SELLER" /\ status \in Chain!DealStatus
    BY DEF Init, Chain!Constructor, Chain!DealStatus
  <2>2. 0 \in 0..MaxFaults /\ 0 \in 0..MaxRounds /\ 1 \in 1..MaxRounds
    BY BoundsAreNaturals
  <2>3. SetupTypes
    BY <2>1, <2>2 DEF Init, SetupTypes
  <2>5. TalkTypes
    <3>1. NoOffer \in [round : 0..MaxRounds, price : Prices \cup {NoPrice}]
      BY <2>2 DEF NoOffer
    <3>2. table \in [turn : Roles \cup {"done"}, round : 1..MaxRounds, offer : Prices \cup {NoPrice}]
      BY <2>2 DEF Init, Roles
    <3> QED
      BY <3>1, <3>2 DEF Init, TalkTypes
  <2>4. LineTypes
    BY <1>2, <1>3 DEF Init, LineTypes, Calls
  <2> QED
    BY <2>3, <2>4, <2>5, Types
<1>5. Silent
  <2>1. Quiet(<<m>>)
    BY <1>2, <1>3 DEF Quiet
  <2>2. QuietLines
    BY <1>2, <2>1 DEF QuietLines
  <2> QED
    BY <2>2 DEF Init, Silent, NobodyThinks
<1>6. Conversation /\ Unstarted /\ Results
  BY <1>5 DEF Init, Conversation, Unstarted, Undecided, Results, AgreementConsistent
<1>7. PriceOnChain
  <2>1. Openings(inbox["seller"]) = {}
    BY <1>2, <1>3 DEF Openings, Roles
  <2>2. LedgerCarriesPrice
    BY DEF Init, Chain!Constructor, LedgerCarriesPrice
  <2>3. CallsCarryPrice
    BY DEF Init, CallsCarryPrice, Idle, Roles
  <2> QED
    BY <2>1, <2>2, <2>3 DEF PriceOnChain
<1> QED
  BY <1>4, <1>6, <1>7 DEF NegotiationInv

\* ... is kept by every step ...
LEMMA NegotiationStep == NegotiationInv /\ [Next]_vars => NegotiationInv'
<1> SUFFICES ASSUME NegotiationInv, [Next]_vars PROVE NegotiationInv'
  OBVIOUS
<1>1. CASE MoveStep
  BY <1>1, MoveTypes, MoveKeepsTalk, MoveKeepsPrice DEF NegotiationInv, TalkInv
<1>2. CASE ControlStep
  BY <1>2, ControlTypes, ControlKeepsBargain, ControlKeepsPrice DEF NegotiationInv
<1>3. CASE UNCHANGED vars
  <2> USE DEF NegotiationInv
  <2>1. /\ UNCHANGED <<setup, bargain, inbox, call, faults, link, locked, keyed, sellerKeyKnown,
                       connecting, connected, pendingAddress, deployed, dealId, priceCommitment,
                       status>>
    BY <1>3 DEF vars, handshake, ledger, dealVars
  <2>2. TypeOK'
    BY <2>1, Types, NextTypes DEF SetupTypes, TalkTypes, LineTypes, setup, bargain
  <2>3. Conversation'
    BY <2>1, ConversationGoesOn, SameIsWeaker
  <2>4. Unstarted' /\ Results'
    BY <2>1 DEF Unstarted, Results, Silent, NobodyThinks, QuietLines, Undecided,
                AgreementConsistent, setup, bargain
  <2>5. PriceOnChain'
    BY <2>1 DEF PriceOnChain, CallsCarryPrice, LedgerCarriesPrice, SettledPrice, bargain,
                Chain!PriceCommitmentFor
  <2> QED
    BY <2>2, <2>3, <2>4, <2>5
<1> QED
  BY <1>1, <1>2, <1>3, NextSteps

\* ... and so holds in every reachable state.
LEMMA NegotiationInvariant == Spec => []NegotiationInv
BY NegotiationInit, NegotiationStep, PTL DEF Spec

\* No handler, chain call or failure takes a variable out of its type; the
\* rounds the two runtimes count stay within 1..MaxRounds, although neither
\* checks the round of a packet against its own.
THEOREM NegotiationTypeCorrect == Spec => []TypeOK
BY NegotiationInvariant, PTL DEF NegotiationInv

\* Also when packets are lost and calls fail, the price the seller recorded is
\* the one the buyer published, within both limits.
THEOREM PartiesAgree == Spec => []AgreementConsistent
BY NegotiationInvariant, PTL DEF NegotiationInv, Results

\* A settled ledger holds the commitment to the price both parties agreed on.
THEOREM ChainSettlesTheAgreement == Spec => []SettledAsAgreed
<1>1. NegotiationInv => SettledAsAgreed
  <2> SUFFICES ASSUME NegotiationInv, status = "SETTLED"
               PROVE  /\ outcome = "SETTLED" /\ agreed = price
                      /\ priceCommitment = Chain!PriceCommitmentFor(agreed, "price")
                      /\ min <= agreed /\ agreed <= max
    BY DEF SettledAsAgreed
  <2>1. /\ agreed \in SettledPrice
        /\ \E p \in SettledPrice : priceCommitment = Chain!PriceCommitmentFor(p, "price")
    BY DEF NegotiationInv, PriceOnChain, LedgerCarriesPrice
  <2>2. outcome = "SETTLED" /\ agreed = price
    BY <2>1 DEF SettledPrice
  <2>3. priceCommitment = Chain!PriceCommitmentFor(agreed, "price")
    BY <2>1 DEF SettledPrice
  <2> QED
    BY <2>2, <2>3 DEF NegotiationInv, Results
<1> QED
  BY <1>1, NegotiationInvariant, PTL

\* The conversation is a conversation: one candidate awaited, or one bargaining
\* packet on its way, at most.
THEOREM OneMoveAtATime == Spec => []OneMoveOutstanding
<1> DEFINE InFlight(role) == {i \in 1..Len(inbox[role]) : inbox[role][i].kind \in BargainKinds}
<1>1. \A r \in Roles : Quiet(inbox[r]) => InFlight(r) = {}
  BY DEF Quiet
<1>2. \A r \in Roles : \A i \in 1..Len(inbox[r]) : Alone(inbox[r], i) => InFlight(r) = {i}
  BY DEF Alone
<1>3. Cardinality({}) = 0 /\ \A x : Cardinality({x}) = 1
  BY FS_EmptySet, FS_Singleton
<1>4. NegotiationInv => OneMoveOutstanding
  <2> SUFFICES ASSUME Conversation
               PROVE  Cardinality(thinking["buyer"]) + Cardinality(thinking["seller"])
                        + Cardinality(InFlight("buyer")) + Cardinality(InFlight("seller")) <= 1
    BY DEF NegotiationInv, OneMoveOutstanding
  <2> HIDE DEF InFlight
  <2>1. CASE Silent
    BY <1>1, <1>3, <2>1 DEF Silent, NobodyThinks, QuietLines, Roles
  <2>2. ASSUME NEW r \in Roles, Deciding(r)
        PROVE  Cardinality(thinking["buyer"]) + Cardinality(thinking["seller"])
                 + Cardinality(InFlight("buyer")) + Cardinality(InFlight("seller")) <= 1
    <3>1. Cardinality(thinking[r]) = 1 /\ Cardinality(thinking[Peer(r)]) = 0
      BY <1>3, <2>2 DEF Deciding
    <3>2. Cardinality(InFlight("buyer")) = 0 /\ Cardinality(InFlight("seller")) = 0
      BY <1>1, <1>3, <2>2 DEF Deciding, QuietLines, Roles
    <3> QED
      BY <3>1, <3>2 DEF Roles, Peer
  <2>3. ASSUME NEW r \in Roles, Travelling(r)
        PROVE  Cardinality(thinking["buyer"]) + Cardinality(thinking["seller"])
                 + Cardinality(InFlight("buyer")) + Cardinality(InFlight("seller")) <= 1
    <3>1. Cardinality(InFlight(r)) = 1
      BY <1>2, <1>3, <2>3 DEF Travelling
    <3>2. Cardinality(InFlight(Peer(r))) = 0
      BY <1>1, <1>3, <2>3, Peers DEF Travelling
    <3>3. Cardinality(thinking["buyer"]) = 0 /\ Cardinality(thinking["seller"]) = 0
      BY <1>3, <2>3 DEF Travelling, NobodyThinks, Roles
    <3> QED
      BY <3>1, <3>2, <3>3 DEF Roles, Peer
  <2> QED
    BY <2>1, <2>2, <2>3 DEF Conversation
<1> QED
  BY <1>4, NegotiationInvariant, PTL

-----------------------------------------------------------------------------
(* The messages implement the moves. *)

\* A step in which neither side of the mapping changes.
LEMMA NothingShown ==
    ASSUME UNCHANGED <<setup, table, outcome, price, agreed>>,
           lastSent'["buyer"].price = lastSent["buyer"].price,
           lastSent'["seller"].price = lastSent["seller"].price
    PROVE  UNCHANGED Moves!bargainVars
BY DEF Moves!bargainVars, Moves!limits, setup

\* What the abstract bargaining sees while neither party has ended it.
LEMMA ShownUndecided ==
    ASSUME Undecided
    PROVE  /\ (IF outcome = "none" /\ agreed # NoPrice THEN "SETTLED" ELSE outcome) = "none"
           /\ (IF outcome = "none" THEN agreed ELSE price) = NoPrice
BY DEF Undecided

\* A decision of the buyer is its move in the abstract bargaining, or none.
LEMMA BuyerMovesImplement ==
    ASSUME NegotiationInv, NEW c \in thinking["buyer"],
           BuyerAccepts(c) \/ BuyerStops(c) \/ \E p \in Prices : BuyerOffers(c, p)
    PROVE  [Moves!Next]_(Moves!bargainVars)
<1> USE DEF NegotiationInv
<1>1. BuyerConsiders(c) /\ c.round \in 1..MaxRounds
  BY DeciderIsAlone, ContextTypes DEF Considers, Roles
<1>2. /\ outcome = "none" /\ agreed = NoPrice
      /\ table.turn = "buyer" /\ table.round = c.round /\ table.offer = c.offer
  BY <1>1 DEF BuyerConsiders, Undecided
<1>3. CASE BuyerAccepts(c)
  <2>1. CASE link["buyer"]
    <3>1. /\ outcome' = "SETTLED" /\ price' = c.offer /\ table' = [table EXCEPT !.turn = "done"]
          /\ UNCHANGED <<max, min, lastSent>> /\ c.offer # NoPrice /\ c.offer <= max
      BY <1>2, <1>3, <2>1, Published DEF BuyerAccepts, setup, WithinLimit
    <3>2. Moves!Accept
      BY <1>2, <3>1, TableType
         DEF Moves!Accept, Moves!Finish, Moves!WithinLimit, Moves!limits, Moves!NoPrice, NoPrice
    <3> QED
      BY <3>2 DEF Moves!Next
  <2>2. CASE ~link["buyer"]
    BY <1>3, <2>2, NothingShown DEF BuyerAccepts
  <2> QED
    BY <2>1, <2>2
<1>4. ASSUME PublishOutcome("CANCELLED", NoPrice), UNCHANGED <<setup, lastSent, agreed>>
      PROVE  Moves!Next
  <2>1. /\ outcome' = "CANCELLED" /\ price' = NoPrice /\ table' = [table EXCEPT !.turn = "done"]
        /\ UNCHANGED <<max, min, lastSent, agreed>>
    BY <1>2, <1>4, Published DEF setup
  <2>2. Moves!BuyerStops
    BY <1>2, <2>1, TableType
       DEF Moves!BuyerStops, Moves!Finish, Moves!limits, Moves!NoPrice, NoPrice
  <2> QED
    BY <2>2 DEF Moves!Next
<1>5. CASE BuyerStops(c)
  BY <1>4, <1>5 DEF BuyerStops
<1>6. ASSUME NEW p \in Prices, BuyerOffers(c, p) PROVE Moves!Next
  <2>1. CASE NextRound(c) > MaxRounds
    BY <1>4, <1>6, <2>1 DEF BuyerOffers
  <2>2. CASE ~(NextRound(c) > MaxRounds)
    <3>1. /\ UNCHANGED <<max, min, outcome, price, agreed>> /\ p <= max
          /\ table' = [turn |-> "seller", round |-> NextRound(c), offer |-> p]
          /\ lastSent' = [lastSent EXCEPT !["buyer"] = [round |-> NextRound(c), price |-> p]]
      BY <1>6, <2>2 DEF BuyerOffers, setup, WithinLimit
    <3>2. lastSent'["buyer"].price = p /\ lastSent'["seller"] = lastSent["seller"]
      BY <3>1, Types DEF TalkTypes, Roles
    <3>3. NextRound(c) = Moves!OfferRound /\ NextRound(c) <= MaxRounds
      BY <1>1, <1>2, <2>2, BoundsAreNaturals DEF NextRound, Moves!OfferRound, Moves!NoPrice, NoPrice
    <3>4. Moves!BuyerOffer(p)
      BY <1>2, <3>1, <3>2, <3>3
         DEF Moves!BuyerOffer, Moves!WithinLimit, Moves!limits
    <3> QED
      BY <3>4 DEF Moves!Next
  <2> QED
    BY <2>1, <2>2
<1> QED
  BY <1>3, <1>5, <1>6

\* A decision of the seller is its move in the abstract bargaining, or none.
LEMMA SellerMovesImplement ==
    ASSUME NegotiationInv, NEW c \in thinking["seller"],
           SellerAccepts(c) \/ SellerDeclines(c) \/ \E p \in Prices : SellerOffers(c, p)
    PROVE  [Moves!Next]_(Moves!bargainVars)
<1> USE DEF NegotiationInv
<1>1. SellerConsiders(c)
  BY DeciderIsAlone DEF Considers, Roles
<1>2. /\ outcome = "none" /\ agreed = NoPrice /\ c.offer # NoPrice
      /\ table.turn = "seller" /\ table.round = c.round /\ table.offer = c.offer
  BY <1>1 DEF SellerConsiders, Undecided
<1>3. CASE SellerAccepts(c)
  <2>1. /\ agreed' = c.offer /\ table' = [table EXCEPT !.turn = "done"] /\ min <= c.offer
        /\ UNCHANGED <<max, min, lastSent, outcome, price>>
    BY <1>3 DEF SellerAccepts, setup, WithinLimit
  <2>2. Moves!Accept
    BY <1>2, <2>1, TableType
       DEF Moves!Accept, Moves!Finish, Moves!WithinLimit, Moves!limits, Moves!NoPrice, NoPrice
  <2> QED
    BY <2>2 DEF Moves!Next
<1>4. CASE SellerDeclines(c)
  BY <1>4, NothingShown DEF SellerDeclines
<1>5. ASSUME NEW p \in Prices, SellerOffers(c, p) PROVE Moves!Next
  <2>1. /\ UNCHANGED <<max, min, outcome, price, agreed>> /\ min <= p
        /\ table' = [turn |-> "buyer", round |-> c.round, offer |-> p]
        /\ lastSent' = [lastSent EXCEPT !["seller"] = [round |-> c.round, price |-> p]]
    BY <1>5 DEF SellerOffers, setup, WithinLimit
  <2>2. lastSent'["seller"].price = p /\ lastSent'["buyer"] = lastSent["buyer"]
    BY <2>1, Types DEF TalkTypes, Roles
  <2>3. Moves!SellerOffer(p)
    BY <1>2, <2>1, <2>2 DEF Moves!SellerOffer, Moves!WithinLimit, Moves!limits
  <2> QED
    BY <2>3 DEF Moves!Next
<1> QED
  BY <1>3, <1>4, <1>5

\* A receipt is the abstract move that its packet stands for, or none.
LEMMA ReceiptsImplement ==
    ASSUME NegotiationInv, BuyerReceives \/ SellerReceives
    PROVE  [Moves!Next]_(Moves!bargainVars)
<1> USE DEF NegotiationInv
<1>1. CASE SellerReceives
  <2>1. PICK m : m = Head(inbox["seller"])
    OBVIOUS
  <2>2. FitsSeller(m)
    <3>1. inbox["seller"] # <<>> /\ inbox' = Consumed("seller") /\ m.kind \in BargainKinds
      BY <1>1, <2>1 DEF SellerReceives, BargainKinds
    <3> QED
      BY <2>1, <3>1, MoveReceived DEF Fits, Roles
  <2>3. UNCHANGED <<setup, table, outcome, price, lastSent>>
    BY <1>1 DEF SellerReceives
  <2>4. outcome # "none" \/ agreed' = agreed
    BY <1>1, <2>1, <2>2 DEF SellerReceives, FitsSeller
  <2>5. UNCHANGED Moves!bargainVars
    BY <2>3, <2>4 DEF Moves!bargainVars, Moves!limits, setup
  <2> QED
    BY <2>5
<1>2. CASE BuyerReceives
  <2>1. PICK m : m = Head(inbox["buyer"])
    OBVIOUS
  <2>2. FitsBuyer(m) /\ m \in Packets
    <3>1. inbox["buyer"] # <<>> /\ inbox' = Consumed("buyer") /\ m.kind \in BargainKinds
      BY <1>2, <2>1 DEF BuyerReceives, BargainKinds
    <3> QED
      BY <2>1, <3>1, MoveReceived DEF Fits, Roles
  <2>3. UNCHANGED <<setup, max, min, lastSent, agreed>> /\ m.round \in Nat
    BY <1>2, <2>2, PacketTypes, BoundsAreNaturals DEF BuyerReceives, setup
  <2>4. CASE UNCHANGED <<outcome, price, table>>
    BY <2>3, <2>4, NothingShown
  <2>5. CASE m.kind = "accept" /\ PublishOutcome("SETTLED", m.price)
    <3>1. outcome = "none" /\ agreed = m.price /\ agreed # NoPrice /\ table.turn = "done"
      BY <2>2, <2>5 DEF FitsBuyer, Results, Undecided
    <3>2. outcome' = "SETTLED" /\ price' = m.price /\ table' = [table EXCEPT !.turn = "done"]
      BY <2>5, <3>1, Published
    <3>3. UNCHANGED Moves!bargainVars
      BY <2>3, <3>1, <3>2, TableType DEF Moves!bargainVars, Moves!limits
    <3> QED
      BY <3>3
  <2>6. CASE m.kind = "decline" /\ InLastRound(m) /\ PublishOutcome("CANCELLED", NoPrice)
    <3>1. /\ outcome = "none" /\ agreed = NoPrice
          /\ table.turn = "seller" /\ table.round = m.round
      BY <2>2, <2>6 DEF FitsBuyer, Undecided
    <3>2. /\ outcome' = "CANCELLED" /\ price' = NoPrice
          /\ table' = [table EXCEPT !.turn = "done"]
      BY <2>6, <3>1, Published
    <3>3. ~Moves!RoundsLeft
      BY <2>3, <2>6, <3>1, BoundsAreNaturals DEF InLastRound, Moves!RoundsLeft
    <3>4. Moves!LastDecline
      BY <2>3, <3>1, <3>2, <3>3, TableType
         DEF Moves!LastDecline, Moves!Finish, Moves!limits, Moves!NoPrice, NoPrice
    <3> QED
      BY <3>4 DEF Moves!Next
  <2>7. CASE /\ m.kind = "decline" /\ ~InLastRound(m) /\ UNCHANGED <<outcome, price>>
             /\ table' = [turn |-> "buyer", round |-> m.round + 1, offer |-> NoPrice]
    <3>1. /\ outcome = "none" /\ agreed = NoPrice
          /\ table.turn = "seller" /\ table.round = m.round
      BY <2>2, <2>7 DEF FitsBuyer, Undecided
    <3>2. Moves!RoundsLeft
      BY <2>3, <2>7, <3>1, BoundsAreNaturals DEF InLastRound, Moves!RoundsLeft
    <3>3. Moves!SellerDeclines
      BY <2>3, <2>7, <3>1, <3>2 DEF Moves!SellerDeclines, Moves!limits, Moves!NoPrice, NoPrice
    <3> QED
      BY <3>3 DEF Moves!Next
  <2> QED
    BY <1>2, <2>1, <2>4, <2>5, <2>6, <2>7 DEF BuyerReceives
<1> QED
  BY <1>1, <1>2

\* Every step of the runtimes is a step of the abstract bargaining or none.
LEMMA StepsImplement ==
    NegotiationInv /\ [Next]_vars => [Moves!Next]_(Moves!bargainVars)
<1> SUFFICES ASSUME NegotiationInv, [Next]_vars PROVE [Moves!Next]_(Moves!bargainVars)
  OBVIOUS
<1>1. CASE ControlStep
  BY <1>1, ControlStepIsQuiet, NothingShown DEF NegotiationInv, bargain
<1>2. CASE StartRuntime
  BY <1>2, NothingShown DEF StartRuntime
<1>3. CASE Decide
  BY <1>3, BuyerMovesImplement, SellerMovesImplement DEF Decide
<1>4. CASE BuyerReceives \/ SellerReceives
  BY <1>4, ReceiptsImplement
<1>5. CASE UNCHANGED vars
  BY <1>5, NothingShown DEF vars, bargain
<1> QED
  BY <1>1, <1>2, <1>3, <1>4, <1>5, NextSteps DEF MoveStep

\* The runtimes start where the abstract bargaining starts.
LEMMA InitImplements == Init => Moves!Init
<1> SUFFICES ASSUME Init PROVE Moves!Init
  OBVIOUS
<1>1. lastSent["buyer"].price = 0 /\ lastSent["seller"].price = 0
  BY DEF Init, NoOffer, NoPrice, Roles
<1>2. table.turn = "buyer" /\ table.round = 1 /\ table.offer = 0
  BY DEF Init, NoPrice
<1>3. max \in BuyerLimits /\ min \in SellerLimits /\ outcome = "none" /\ agreed = 0
  BY DEF Init, NoPrice
<1> QED
  BY <1>1, <1>2, <1>3 DEF Moves!Init, Moves!NoPrice, NoPrice

\* Seen through the last offers and the results of the two runtimes, every
\* handler, chain call and failure is a legal move of the party whose turn it is,
\* or no move at all.
THEOREM MessagesImplementBargaining == Spec => ImplementsBargaining
<1>1. Spec => Moves!Init /\ [][Moves!Next]_(Moves!bargainVars)
  BY InitImplements, StepsImplement, NegotiationInvariant, PTL DEF Spec
<1> QED
  BY <1>1 DEF ImplementsBargaining, Moves!Spec
=============================================================================
