---------------------------- MODULE Negotiation -----------------------------
(***************************************************************************)
(* One chain-mode session of the buyer runtime and the seller runtime:     *)
(* both lock their limits, exchange the seller's key and the contract      *)
(* address over the encrypted relay, connect to the deal contract, bargain *)
(* by messages, and then authorize, settle or cancel on the chain.         *)
(*                                                                         *)
(* Every await of the source is a step of its own: a decision (the         *)
(* candidate provider's answer) and a chain call are started by one        *)
(* handler and resumed by a later action, and any other handler may run in *)
(* between.  A chain call takes effect (Applies) before its caller learns  *)
(* of it (Confirms).  Up to MaxFaults times a call fails, before or after  *)
(* it took effect, or a runtime loses its relay connection with any suffix *)
(* of the packets in flight.                                               *)
(*                                                                         *)
(* The ledger is module Deal; the moves are those of module Bargaining,    *)
(* which this module is shown to implement.  Encryption and the relay's    *)
(* own checks are abstracted to two ordered channels.                      *)
(***************************************************************************)
EXTENDS Integers, Sequences, FiniteSets

CONSTANTS
    Prices,          \* the prices that can be offered
    BuyerLimits,     \* maxima a buyer may lock
    SellerLimits,    \* minima a seller may lock
    MaxRounds,       \* the last round, 10 in the source
    MaxPrice,        \* the largest Uint<64> price of the contract
    MaxFaults        \* bound on failures

ASSUME PricesArePositive == Prices \subseteq 1..MaxPrice
ASSUME LimitsArePrices == BuyerLimits \subseteq 1..MaxPrice /\ SellerLimits \subseteq 1..MaxPrice
ASSUME BoundsAreNaturals == MaxRounds \in Nat \ {0} /\ MaxPrice \in Nat /\ MaxFaults \in Nat

Roles == {"buyer", "seller"}
NoPrice == 0
Peer(role) == IF role = "buyer" THEN "seller" ELSE "buyer"

VARIABLES
    max, min,              \* the limits the session will lock
    locked,                \* role -> SET_LIMIT was handled
    keyed,                 \* role -> sharedKey is set
    inbox,                 \* role -> packets on their way to it, oldest first
    link,                  \* role -> its relay socket is open
    sellerKeyKnown,        \* the buyer's peerSellerKey
    connecting,            \* role -> chainDeployStarted / chainJoinStarted
    connected,             \* role -> chainContract is set
    pendingAddress,        \* the seller's pendingContractAddress
    call,                  \* role -> its chain call in flight
    started,               \* the buyer's negotiationStarted
    thinking,              \* role -> contexts whose candidate is awaited
    lastSent,              \* role -> lastSentOffer
    outcome, price,        \* the buyer's published outcome and its amount
    agreed,                \* the seller's agreedPrice
    faults,                \* failures so far
    table                  \* history: the bargaining as the moves made it

VARIABLES                  \* the ledger and whether the contract exists yet
    deployed, dealId, buyerKey, sellerKey, buyerCommitment,
    sellerCommitment, priceCommitment, status

Chain == INSTANCE Deal WITH
    DealIds <- {"deal"}, Secrets <- {"buyer secret", "seller secret"},
    Randomness <- {"buyer limit", "seller limit", "price"}

dealVars == <<dealId, buyerKey, sellerKey, buyerCommitment, sellerCommitment, priceCommitment,
              status>>
ledger == <<dealVars, deployed>>
setup == <<max, min>>
handshake == <<locked, keyed, sellerKeyKnown, connecting, connected, pendingAddress>>
bargain == <<started, thinking, lastSent, outcome, price, agreed, table>>
vars == <<setup, handshake, inbox, link, call, bargain, faults, ledger>>

-----------------------------------------------------------------------------
(* Packets, calls and private states. *)

Packet(kind, round, p) == [kind |-> kind, round |-> round, price |-> p]
Control(kind) == Packet(kind, 0, NoPrice)
BargainKinds == {"proposal", "accept", "decline"}

Idle == [kind |-> "idle", stage |-> "none", price |-> NoPrice]
Call(kind, p) == [kind |-> kind, stage |-> "called", price |-> p]

NoOffer == [round |-> 0, price |-> NoPrice]
Ctx(round, offer) == [round |-> round, offer |-> offer]

BuyerState(p) ==
    [role |-> "buyer", secret |-> "buyer secret", limit |-> max,
     limitRandomness |-> "buyer limit",
     opening |-> <<[price |-> p, randomness |-> "price"]>>]

SellerState == [role |-> "seller", secret |-> "seller secret", limit |-> min,
                limitRandomness |-> "seller limit", opening |-> <<>>]

OpenedSellerState(p) ==
    Chain!WithSellerPriceOpening(SellerState, [price |-> p, randomness |-> "price"])

\* Mutant: a runtime agrees to any price.
AnyPrice(role, p) == TRUE

\* policyAllows: a price this role may send or accept.
WithinLimit(role, p) == IF role = "buyer" THEN p <= max ELSE p >= min

\* relay(): the packet is queued for the peer, or dropped by the relay when the
\* peer is gone.  With the sender's own socket closed it throws instead.
Delivered(boxes, role, packet) ==
    IF link["buyer"] /\ link["seller"]
    THEN [boxes EXCEPT ![Peer(role)] = Append(@, packet)] ELSE boxes

Consumed(role) == [inbox EXCEPT ![role] = Tail(@)]

Fault == faults < MaxFaults /\ faults' = faults + 1

-----------------------------------------------------------------------------
Init ==
    /\ max \in BuyerLimits /\ min \in SellerLimits
    /\ locked = [r \in Roles |-> FALSE] /\ keyed = [r \in Roles |-> FALSE]
    /\ inbox = [r \in Roles |-> <<Control("peer_key")>>]
    /\ link = [r \in Roles |-> TRUE]
    /\ sellerKeyKnown = FALSE /\ pendingAddress = FALSE
    /\ connecting = [r \in Roles |-> FALSE] /\ connected = [r \in Roles |-> FALSE]
    /\ call = [r \in Roles |-> Idle]
    /\ started = FALSE /\ thinking = [r \in Roles |-> {}]
    /\ lastSent = [r \in Roles |-> NoOffer]
    /\ outcome = "none" /\ price = NoPrice /\ agreed = NoPrice
    /\ faults = 0
    /\ table = [turn |-> "buyer", round |-> 1, offer |-> NoPrice]
    /\ deployed = FALSE
    /\ Chain!Constructor("deal", Chain!PublicKey("buyer secret"),
            Chain!PublicKey("seller secret"),
            Chain!LimitCommitmentFor("deal", Chain!BuyerDomain,
                Chain!PublicKey("buyer secret"), max, "buyer limit"))

-----------------------------------------------------------------------------
(* The handshake.  The four events that enable the seller's key and the     *)
(* deployment may come in any order, and each of them tries.                *)

\* SET_LIMIT of the buyer: deployOnChain is tried.
BuyerSetsLimit ==
    /\ ~locked["buyer"]
    /\ locked' = [locked EXCEPT !["buyer"] = TRUE]
    /\ IF sellerKeyKnown /\ ~connecting["buyer"]
       THEN /\ connecting' = [connecting EXCEPT !["buyer"] = TRUE]
            /\ call' = [call EXCEPT !["buyer"] = Call("deploy", NoPrice)]
       ELSE UNCHANGED <<connecting, call>>
    /\ UNCHANGED <<setup, keyed, sellerKeyKnown, connected, pendingAddress, inbox, link,
                   bargain, faults, ledger>>

\* SET_LIMIT of the seller: flushSellerKey sends the key when the channel is
\* already keyed.  tryJoinOnChain has no address yet: the buyer deploys only
\* after it got the key.
SellerSetsLimit ==
    /\ ~locked["seller"]
    /\ locked' = [locked EXCEPT !["seller"] = TRUE]
    /\ inbox' = IF keyed["seller"] THEN Delivered(inbox, "seller", Control("seller_key")) ELSE inbox
    /\ UNCHANGED <<setup, keyed, sellerKeyKnown, connecting, connected, pendingAddress, link,
                   call, bargain, faults, ledger>>

\* PEER_KEY: acceptPeerKey sets the shared key; the seller flushes its key.
AcceptPeerKey(role) ==
    /\ inbox[role] # <<>> /\ Head(inbox[role]).kind = "peer_key"
    /\ keyed' = [keyed EXCEPT ![role] = TRUE]
    /\ inbox' = IF role = "seller" /\ locked["seller"]
                THEN Delivered(Consumed(role), "seller", Control("seller_key"))
                ELSE Consumed(role)
    /\ UNCHANGED <<setup, locked, sellerKeyKnown, connecting, connected, pendingAddress, link,
                   call, bargain, faults, ledger>>

\* Mutant: the buyer tries to deploy only when its limit is locked later.
DeploysOnKey == FALSE

\* A seller_key packet makes the buyer try deployOnChain again.
DeploysNow == locked["buyer"] /\ ~connecting["buyer"]

AcceptSellerKey ==
    /\ inbox["buyer"] # <<>> /\ Head(inbox["buyer"]).kind = "seller_key"
    /\ inbox' = Consumed("buyer")
    /\ sellerKeyKnown' = TRUE
    /\ IF DeploysNow
       THEN /\ connecting' = [connecting EXCEPT !["buyer"] = TRUE]
            /\ call' = [call EXCEPT !["buyer"] = Call("deploy", NoPrice)]
       ELSE UNCHANGED <<connecting, call>>
    /\ UNCHANGED <<setup, locked, keyed, connected, pendingAddress, link, bargain, faults, ledger>>

\* contract_ready: the seller records the address and joins.
AcceptContractReady ==
    /\ inbox["seller"] # <<>> /\ Head(inbox["seller"]).kind = "contract_ready"
    /\ inbox' = Consumed("seller")
    /\ pendingAddress' = TRUE
    /\ connecting' = [connecting EXCEPT !["seller"] = TRUE]
    /\ call' = [call EXCEPT !["seller"] = Call("join", NoPrice)]
    /\ UNCHANGED <<setup, locked, keyed, sellerKeyKnown, connected, link, bargain, faults, ledger>>

\* Mutant: the buyer starts as often as it is told to.
MayStart == TRUE

\* START_RUNTIME is refused a second time.
NotStarted == ~started

\* The controller's START_RUNTIME, sent once the Observer has seen OPEN: the
\* buyer opens round one.
StartRuntime ==
    /\ NotStarted
    /\ \A r \in Roles : locked[r] /\ keyed[r]
    /\ connected["seller"] /\ status = "OPEN"
    /\ started' = TRUE
    /\ thinking' = [thinking EXCEPT !["buyer"] = @ \cup {Ctx(1, NoPrice)}]
    /\ UNCHANGED <<setup, handshake, inbox, link, call, lastSent, outcome, price, agreed, table,
                   faults, ledger>>

-----------------------------------------------------------------------------
(* Decisions.  The candidate is any the policy lets through, or none: the    *)
(* provider may fail and the fallback may have nothing.                      *)

\* Mutant: the buyer publishes its own last offer as the agreed amount.
OwnLastOffer(p) == lastSent["buyer"].price

\* The agreedAmount of a SETTLED outcome is the price of the accepted offer.
AgreedAmount(p) == p

\* publishOutcome: only the first outcome counts; it starts the chain call.
PublishOutcome(result, p) ==
    IF outcome # "none"
    THEN UNCHANGED <<outcome, price, call, table>>
    ELSE /\ outcome' = result
         /\ price' = AgreedAmount(p)
         /\ call' = [call EXCEPT !["buyer"] =
                IF result = "SETTLED" THEN Call("authorize", p) ELSE Call("cancel", NoPrice)]
         /\ table' = [table EXCEPT !.turn = "done"]

Resume(role, c) == thinking' = [thinking EXCEPT ![role] = @ \ {c}]

\* executeCandidate of an accept: the packet first, then the outcome.
BuyerAccepts(c) ==
    /\ c \in thinking["buyer"]
    /\ c.offer # NoPrice /\ WithinLimit("buyer", c.offer)
    /\ Resume("buyer", c)
    /\ IF link["buyer"]
       THEN /\ inbox' = Delivered(inbox, "buyer", Packet("accept", c.round, c.offer))
            /\ PublishOutcome("SETTLED", c.offer)
       ELSE UNCHANGED <<inbox, outcome, price, call, table>>
    /\ UNCHANGED <<setup, handshake, link, started, lastSent, agreed, faults, ledger>>

\* Mutant: a counter offer stays in the seller's round.
SameRound(c) == c.round

\* The buyer's counter to an offer of the seller opens the next round.
NextRound(c) == IF c.offer = NoPrice THEN c.round ELSE c.round + 1

\* executeCandidate of an offer; an offer after the last round cancels.
BuyerOffers(c, p) ==
    /\ c \in thinking["buyer"]
    /\ WithinLimit("buyer", p)
    /\ Resume("buyer", c)
    /\ IF NextRound(c) > MaxRounds
       THEN PublishOutcome("CANCELLED", NoPrice) /\ UNCHANGED <<inbox, lastSent>>
       ELSE /\ lastSent' = [lastSent EXCEPT !["buyer"] = [round |-> NextRound(c), price |-> p]]
            /\ inbox' = Delivered(inbox, "buyer", Packet("proposal", NextRound(c), p))
            /\ table' = [turn |-> "seller", round |-> NextRound(c), offer |-> p]
            /\ UNCHANGED <<outcome, price, call>>
    /\ UNCHANGED <<setup, handshake, link, started, agreed, faults, ledger>>

\* No candidate within the limit: the negotiation is over.
BuyerStops(c) ==
    /\ c \in thinking["buyer"]
    /\ Resume("buyer", c)
    /\ PublishOutcome("CANCELLED", NoPrice)
    /\ UNCHANGED <<setup, handshake, inbox, link, started, lastSent, agreed, faults, ledger>>

\* The seller records the agreed price, then tells the buyer.
SellerAccepts(c) ==
    /\ c \in thinking["seller"]
    /\ WithinLimit("seller", c.offer)
    /\ Resume("seller", c)
    /\ agreed' = c.offer
    /\ inbox' = Delivered(inbox, "seller", Packet("accept", c.round, c.offer))
    /\ table' = [table EXCEPT !.turn = "done"]
    /\ UNCHANGED <<setup, handshake, link, call, started, lastSent, outcome, price, faults, ledger>>

SellerOffers(c, p) ==
    /\ c \in thinking["seller"]
    /\ WithinLimit("seller", p)
    /\ Resume("seller", c)
    /\ lastSent' = [lastSent EXCEPT !["seller"] = [round |-> c.round, price |-> p]]
    /\ inbox' = Delivered(inbox, "seller", Packet("proposal", c.round, p))
    /\ table' = [turn |-> "buyer", round |-> c.round, offer |-> p]
    /\ UNCHANGED <<setup, handshake, link, call, started, outcome, price, agreed, faults, ledger>>

SellerDeclines(c) ==
    /\ c \in thinking["seller"]
    /\ Resume("seller", c)
    /\ inbox' = Delivered(inbox, "seller", Packet("decline", c.round, NoPrice))
    /\ UNCHANGED <<setup, handshake, link, call, started, lastSent, outcome, price, agreed, table,
                   faults, ledger>>

Decide ==
    \/ \E c \in thinking["buyer"] :
        BuyerAccepts(c) \/ BuyerStops(c) \/ \E p \in Prices : BuyerOffers(c, p)
    \/ \E c \in thinking["seller"] :
        SellerAccepts(c) \/ SellerDeclines(c) \/ \E p \in Prices : SellerOffers(c, p)

-----------------------------------------------------------------------------
(* Bargaining packets. *)

\* Mutant: a decline of the last round is followed by another round.
PastLast(m) == m.round > MaxRounds

\* A decline in the last round ends the negotiation.
InLastRound(m) == m.round >= MaxRounds

\* The buyer's acceptRelayPacket.  generateAndExecute refuses to start when the
\* negotiation is finished; an accept or a decline of another offer than the
\* last one is rejected.
BuyerReceives ==
    /\ inbox["buyer"] # <<>>
    /\ inbox' = Consumed("buyer")
    /\ LET m == Head(inbox["buyer"])
           idle == outcome = "none"
       IN  \/ /\ m.kind = "accept"
              /\ IF lastSent["buyer"] = [round |-> m.round, price |-> m.price]
                 THEN PublishOutcome("SETTLED", m.price)
                 ELSE UNCHANGED <<outcome, price, call, table>>
              /\ UNCHANGED thinking
           \/ /\ m.kind = "decline"
              /\ lastSent["buyer"].round = m.round /\ InLastRound(m)
              /\ PublishOutcome("CANCELLED", NoPrice)
              /\ UNCHANGED thinking
           \/ /\ m.kind = "decline"
              /\ lastSent["buyer"].round # m.round \/ ~InLastRound(m)
              /\ IF lastSent["buyer"].round = m.round /\ idle
                 THEN /\ thinking' = [thinking EXCEPT !["buyer"] = @ \cup {Ctx(m.round + 1, NoPrice)}]
                      /\ table' = [turn |-> "buyer", round |-> m.round + 1, offer |-> NoPrice]
                 ELSE UNCHANGED <<thinking, table>>
              /\ UNCHANGED <<outcome, price, call>>
           \/ /\ m.kind = "proposal"
              /\ thinking' = IF idle
                             THEN [thinking EXCEPT !["buyer"] = @ \cup {Ctx(m.round, m.price)}]
                             ELSE thinking
              /\ UNCHANGED <<outcome, price, call, table>>
    /\ UNCHANGED <<setup, handshake, link, started, lastSent, agreed, faults, ledger>>

AcceptMatches(m) == lastSent["seller"] = [round |-> m.round, price |-> m.price]

\* The seller's acceptRelayPacket for bargaining packets: nothing is accepted
\* any more once a price is agreed.
SellerReceives ==
    /\ inbox["seller"] # <<>>
    /\ inbox' = Consumed("seller")
    /\ LET m == Head(inbox["seller"])
           open == agreed = NoPrice
       IN  \/ /\ m.kind = "accept"
              /\ agreed' = IF open /\ AcceptMatches(m) THEN m.price ELSE agreed
              /\ UNCHANGED thinking
           \/ /\ m.kind = "proposal"
              /\ thinking' = IF open
                             THEN [thinking EXCEPT !["seller"] = @ \cup {Ctx(m.round, m.price)}]
                             ELSE thinking
              /\ UNCHANGED agreed
    /\ UNCHANGED <<setup, handshake, link, call, started, lastSent, outcome, price, table, faults,
                   ledger>>

\* "The contract checks only the limits, not that this is the negotiated price."
OpeningAgreed(m) == agreed # NoPrice /\ m.price = agreed

\* price_opening: settle the price this seller agreed to, cancel any other.
AcceptPriceOpening ==
    /\ inbox["seller"] # <<>> /\ Head(inbox["seller"]).kind = "price_opening"
    /\ inbox' = Consumed("seller")
    /\ call' = [call EXCEPT !["seller"] =
            IF OpeningAgreed(Head(inbox["seller"]))
            THEN Call("settle", Head(inbox["seller"]).price) ELSE Call("cancel", NoPrice)]
    /\ UNCHANGED <<setup, handshake, link, bargain, faults, ledger>>

-----------------------------------------------------------------------------
(* Chain calls. *)

\* The ledger step a call asks for.
LedgerStep(role) ==
    CASE call[role].kind = "deploy" -> deployed' = TRUE /\ UNCHANGED dealVars
      [] call[role].kind = "join" -> Chain!JoinDeal(SellerState) /\ UNCHANGED deployed
      [] call[role].kind = "authorize" ->
            Chain!AuthorizeHiddenPrice(BuyerState(call[role].price)) /\ UNCHANGED deployed
      [] call[role].kind = "settle" ->
            Chain!Settle(OpenedSellerState(call[role].price)) /\ UNCHANGED deployed
      [] call[role].kind = "cancel" ->
            /\ IF role = "buyer" THEN Chain!CancelAsBuyer(BuyerState(NoPrice))
                                 ELSE Chain!CancelAsSeller(SellerState)
            /\ UNCHANGED deployed

\* The status the circuit of a call asserts.
StatusAllows(kind) ==
    CASE kind = "deploy" -> TRUE
      [] kind = "join" -> status = "WAITING_SELLER"
      [] kind = "authorize" -> status = "OPEN"
      [] kind = "settle" -> status = "AUTHORIZED"
      [] kind = "cancel" -> status # "SETTLED"

Applies(role) ==
    /\ call[role].stage = "called"
    /\ StatusAllows(call[role].kind)
    /\ LedgerStep(role)
    /\ call' = [call EXCEPT ![role].stage = "applied"]
    /\ UNCHANGED <<setup, handshake, inbox, link, bargain, faults>>

\* What the caller does when a call throws: the seller gives up the deal when
\* its settle fails, every other failure is only reported.
AfterFailure(role) ==
    IF call[role].kind = "settle" THEN Call("cancel", NoPrice) ELSE Idle

\* The circuit's assertion on the status fails.
Rejected(role) ==
    /\ call[role].stage = "called"
    /\ ~StatusAllows(call[role].kind)
    /\ call' = [call EXCEPT ![role] = AfterFailure(role)]
    /\ UNCHANGED <<setup, handshake, inbox, link, bargain, faults, ledger>>

\* The call throws for another reason, whether or not it took effect.
CallFails(role) ==
    /\ call[role] # Idle
    /\ Fault
    /\ call' = [call EXCEPT ![role] = AfterFailure(role)]
    /\ UNCHANGED <<setup, handshake, inbox, link, bargain, ledger>>

\* The await returns: the rest of deployOnChain, tryJoinOnChain,
\* authorizeOnChain, settleOnChain or cancelOnChain.
Confirms(role) ==
    /\ call[role].stage = "applied"
    /\ call' = [call EXCEPT ![role] = Idle]
    /\ connected' = IF call[role].kind \in {"deploy", "join"}
                    THEN [connected EXCEPT ![role] = TRUE] ELSE connected
    /\ inbox' = CASE call[role].kind = "deploy" ->
                        Delivered(inbox, "buyer", Control("contract_ready"))
                  [] call[role].kind = "authorize" ->
                        Delivered(inbox, "buyer", Packet("price_opening", 0, call[role].price))
                  [] OTHER -> inbox
    /\ UNCHANGED <<setup, locked, keyed, sellerKeyKnown, connecting, pendingAddress, link, bargain,
                   faults, ledger>>

\* A runtime's relay connection breaks; some suffix of what was in flight is
\* lost, and the client never reconnects by itself.
LinkBreaks(role) ==
    /\ link[role]
    /\ Fault
    /\ link' = [link EXCEPT ![role] = FALSE]
    /\ \E b \in 0..Len(inbox["buyer"]), s \in 0..Len(inbox["seller"]) :
        inbox' = [r \in Roles |-> SubSeq(inbox[r], 1, IF r = "buyer" THEN b ELSE s)]
    /\ UNCHANGED <<setup, handshake, call, bargain, ledger>>

-----------------------------------------------------------------------------
Receive(role) ==
    \/ AcceptPeerKey(role)
    \/ role = "buyer" /\ (AcceptSellerKey \/ BuyerReceives)
    \/ role = "seller" /\ (AcceptContractReady \/ SellerReceives \/ AcceptPriceOpening)

Next ==
    \/ BuyerSetsLimit \/ SellerSetsLimit \/ StartRuntime \/ Decide
    \/ \E role \in Roles :
        \/ Receive(role) \/ Applies(role) \/ Rejected(role) \/ Confirms(role)
        \/ CallFails(role) \/ LinkBreaks(role)

Spec == Init /\ [][Next]_vars

\* Sockets deliver, promises settle, the controller starts a ready session and
\* the event loop runs every continuation.  Users need not lock their limits
\* and failures need not happen.
FairSpec ==
    /\ Spec
    /\ WF_vars(StartRuntime) /\ WF_vars(Decide)
    /\ \A role \in Roles :
        WF_vars(Receive(role)) /\ WF_vars(Applies(role) \/ Rejected(role) \/ Confirms(role))
-----------------------------------------------------------------------------
(* Properties. *)

PacketKinds ==
    {"peer_key", "seller_key", "contract_ready", "price_opening"} \cup BargainKinds
Packets == [kind : PacketKinds, round : 0..MaxRounds, price : Prices \cup {NoPrice}]
Contexts == [round : 1..MaxRounds, offer : Prices \cup {NoPrice}]
Calls ==
    {Idle} \cup [kind : {"deploy", "join", "authorize", "settle", "cancel"},
                 stage : {"called", "applied"}, price : Prices \cup {NoPrice}]

\* Every variable keeps its type; in particular no round leaves 1..MaxRounds.
TypeOK ==
    /\ max \in BuyerLimits /\ min \in SellerLimits
    /\ \A f \in {locked, keyed, connecting, connected, link} : f \in [Roles -> BOOLEAN]
    /\ {sellerKeyKnown, pendingAddress, started, deployed} \subseteq BOOLEAN
    /\ inbox \in [Roles -> Seq(Packets)]
    /\ call \in [Roles -> Calls]
    /\ thinking \in [Roles -> SUBSET Contexts]
    /\ lastSent \in [Roles -> [round : 0..MaxRounds, price : Prices \cup {NoPrice}]]
    /\ outcome \in {"none", "SETTLED", "CANCELLED"}
    /\ {price, agreed} \subseteq Prices \cup {NoPrice}
    /\ faults \in 0..MaxFaults
    /\ table \in [turn : Roles \cup {"done"}, round : 1..MaxRounds, offer : Prices \cup {NoPrice}]
    /\ status \in Chain!DealStatus

\* The negotiation is a conversation: at any time at most one move is
\* outstanding, either a candidate one runtime is waiting for or one bargaining
\* packet on its way.  The handlers do not lock anything while they wait; it is
\* the exchange of messages alone that keeps two decisions from overlapping.
OneMoveOutstanding ==
    LET InFlight(role) == {i \in 1..Len(inbox[role]) : inbox[role][i].kind \in BargainKinds}
    IN  Cardinality(thinking["buyer"]) + Cardinality(thinking["seller"])
          + Cardinality(InFlight("buyer")) + Cardinality(InFlight("seller")) <= 1

\* The two runtimes never disagree about the result: the price the seller
\* recorded is the one the buyer published, lies within both limits, and never
\* coexists with a CANCELLED outcome, also when packets are lost.
AgreementConsistent ==
    agreed # NoPrice =>
        /\ outcome # "CANCELLED"
        /\ outcome = "SETTLED" => agreed = price
        /\ min <= agreed /\ agreed <= max

\* What the ledger settles is what the two parties agreed on: the hidden price
\* the buyer authorized is the seller's agreedPrice and the published amount,
\* and both limits hold.  The contract alone guarantees only the limits.
SettledAsAgreed ==
    status = "SETTLED" =>
        /\ outcome = "SETTLED" /\ agreed = price
        /\ priceCommitment = Chain!PriceCommitmentFor(agreed, "price")
        /\ min <= agreed /\ agreed <= max

\* Without failures a session whose limits are locked ends on the chain, and
\* there as it ended at the table: an agreement settles, anything else is
\* cancelled.
EndsAsBargained ==
    (locked["buyer"] /\ locked["seller"]) ~> (faults > 0 \/ (outcome # "none" /\ status = outcome))

\* The messages implement the bargaining: seen through the parties' last offers
\* and results, every step is a legal move of the party whose turn it is, or no
\* move at all.
Moves == INSTANCE Bargaining WITH
    turn <- table.turn, round <- table.round, offer <- table.offer,
    bid <- lastSent["buyer"].price, ask <- lastSent["seller"].price,
    outcome <- IF outcome = "none" /\ agreed # NoPrice THEN "SETTLED" ELSE outcome,
    price <- IF outcome = "none" THEN agreed ELSE price

ImplementsBargaining == Moves!Spec
=============================================================================
