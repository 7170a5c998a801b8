----------------------------- MODULE Bargaining -----------------------------
(***************************************************************************)
(* The bargaining of a session as one alternating sequence of moves: the   *)
(* control of the runtimes' executeCandidate and generateAndExecute, with  *)
(* no messages, no ledger and no waiting.  A party may make any move that  *)
(* policyAllows lets through; which ones it really makes is the business   *)
(* of the price rules (module LadderBargaining refines this one).  It is   *)
(* also the abstract specification the message protocol of module          *)
(* Negotiation implements.                                                 *)
(***************************************************************************)
EXTENDS Integers

CONSTANTS
    Prices,          \* the prices that can be offered
    BuyerLimits,     \* maxima a buyer may lock
    SellerLimits,    \* minima a seller may lock
    MaxRounds        \* the last round, 10 in the source

ASSUME PricesArePositive == Prices \subseteq Int /\ 0 \notin Prices
ASSUME LimitsAreIntegers == BuyerLimits \subseteq Int /\ SellerLimits \subseteq Int
ASSUME MaxRoundsIsPositive == MaxRounds \in Nat \ {0}

NoPrice == 0

VARIABLES
    max, min,        \* the private limits of the session; never change
    turn,            \* the party to move, "done" after the outcome
    round,           \* the round of the current context
    offer,           \* the peer's offer the party to move looks at
    bid, ask,        \* the price of each party's lastSentOffer
    outcome, price   \* the buyer's NEGOTIATION_OUTCOME

limits == <<max, min>>
bargainVars == <<limits, turn, round, offer, bid, ask, outcome, price>>

\* Mutant: any price passes.
AnyPrice(role, p) == TRUE

\* policyAllows: the price does not cost the role more than its limit.
WithinLimit(role, p) == IF role = "buyer" THEN p <= max ELSE p >= min

-----------------------------------------------------------------------------
Init ==
    /\ max \in BuyerLimits /\ min \in SellerLimits
    /\ turn = "buyer" /\ round = 1 /\ offer = NoPrice
    /\ bid = NoPrice /\ ask = NoPrice
    /\ outcome = "none" /\ price = NoPrice

Finish(result, p) ==
    /\ turn' = "done"
    /\ outcome' = result
    /\ price' = p
    /\ UNCHANGED <<limits, round, offer, bid, ask>>

\* The party to move accepts the offer on the table.
Accept ==
    /\ turn \in {"buyer", "seller"}
    /\ offer # NoPrice
    /\ WithinLimit(turn, offer)
    /\ Finish("SETTLED", offer)

\* Mutant: a counter offer stays in the seller's round.
SameRound == round

\* The buyer's counter to a seller's offer opens the next round.
OfferRound == IF offer = NoPrice THEN round ELSE round + 1

BuyerOffer(p) ==
    /\ turn = "buyer"
    /\ WithinLimit("buyer", p)
    /\ OfferRound <= MaxRounds
    /\ turn' = "seller"
    /\ round' = OfferRound
    /\ offer' = p
    /\ bid' = p
    /\ UNCHANGED <<limits, ask, outcome, price>>

\* The buyer has nothing to send within its limit, or no round left.
BuyerStops == turn = "buyer" /\ Finish("CANCELLED", NoPrice)

\* The seller counters in the buyer's round.
SellerOffer(p) ==
    /\ turn = "seller"
    /\ WithinLimit("seller", p)
    /\ turn' = "buyer"
    /\ offer' = p
    /\ ask' = p
    /\ UNCHANGED <<limits, round, bid, outcome, price>>

\* A round follows this one.
RoundsLeft == round < MaxRounds

\* The seller declines; the buyer opens the next round.
SellerDeclines ==
    /\ turn = "seller"
    /\ RoundsLeft
    /\ turn' = "buyer"
    /\ round' = round + 1
    /\ offer' = NoPrice
    /\ UNCHANGED <<limits, bid, ask, outcome, price>>

\* The seller declines in the last round.
LastDecline == turn = "seller" /\ ~RoundsLeft /\ Finish("CANCELLED", NoPrice)

Next ==
    \/ Accept
    \/ \E p \in Prices : BuyerOffer(p) \/ SellerOffer(p)
    \/ BuyerStops \/ SellerDeclines \/ LastDecline

Spec == Init /\ [][Next]_bargainVars

\* Every message is answered and START_RUNTIME opens the first round, so a
\* negotiation does not pause for ever by itself.
FairSpec == Spec /\ WF_bargainVars(Next)
-----------------------------------------------------------------------------
(* Properties. *)

\* Every variable keeps its type; no move leaves the rounds 1..MaxRounds.
TypeOK ==
    /\ max \in BuyerLimits /\ min \in SellerLimits
    /\ turn \in {"buyer", "seller", "done"}
    /\ round \in 1..MaxRounds
    /\ {offer, bid, ask, price} \subseteq Prices \cup {NoPrice}
    /\ outcome \in {"none", "SETTLED", "CANCELLED"}

\* The private limits hold for everything that ever left a party, although the
\* offer on the table was checked only by the party that made it, and the price
\* of an agreement only by the party that accepts: a SETTLED outcome lies within
\* both limits.
LimitsRespected ==
    /\ outcome = "SETTLED" => price \in Prices /\ min <= price /\ price <= max
    /\ bid # NoPrice => bid <= max
    /\ ask # NoPrice => min <= ask

\* A negotiation ends, in whatever way the parties move: no sequence of counters
\* and declines goes on for ever.
Ends == <>(outcome # "none")
=============================================================================
