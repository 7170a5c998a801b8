----------------------------- MODULE LadderBargaining --------------------------
(***************************************************************************)
(* The bargaining of module Bargaining played with the price rules of      *)
(* module Pricing: every move is one the candidate provider, the guards    *)
(* and the local fallback of agent-core lead to, in the session's shifted  *)
(* prices.  It is where the price rules are checked over whole             *)
(* negotiations instead of one call.                                       *)
(***************************************************************************)
EXTENDS Pricing

CONSTANTS
    References,      \* public reference prices of sessions without a provider's answers
    ProviderReferences, \* public reference prices of sessions with them
    BuyerLimits,     \* maxima a buyer may lock
    SellerLimits,    \* minima a seller may lock
    ProviderPrices   \* offers a candidate provider may come up with

\* Prices are parsed from digits, so none is negative; a limit is an integer.
ASSUME PricesAreNatural == References \cup ProviderReferences \cup ProviderPrices \subseteq Nat
ASSUME LimitsAreIntegers == BuyerLimits \cup SellerLimits \subseteq Int

VARIABLES
    setup,     \* the session: reference, offset, both limits and whether a
               \* candidate provider answers; never changes
    turn,      \* the party to move, "done" after the outcome
    round,     \* the round of the current context
    offer,     \* the peer's offer the party to move looks at
    bid, ask,  \* the price of each party's lastSentOffer
    outcome, price

vars == <<setup, turn, round, offer, bid, ask, outcome, price>>

SetupsOf(references, provider) ==
    UNION {[reference : {ref}, offset : SessionPriceOffsets(ref), max : BuyerLimits,
            min : SellerLimits, provider : {provider}] : ref \in references}

Setups == SetupsOf(References, FALSE) \cup SetupsOf(ProviderReferences, TRUE)

CurrentContext(role) == Context(role, round, setup.reference, offer)

Limit(role) == IF role = "buyer" THEN setup.max ELSE setup.min

\* Without answers only the local fallback is left.
Answers == IF setup.provider THEN ProviderPrices ELSE {}

Choices(role) == Decisions(Limit(role), CurrentContext(role), setup.offset, Answers)

-----------------------------------------------------------------------------
Init ==
    /\ setup \in Setups
    /\ turn = "buyer" /\ round = 1 /\ offer = NoPrice
    /\ bid = NoPrice /\ ask = NoPrice
    /\ outcome = "none" /\ price = NoPrice

Finish(result, p) ==
    /\ turn' = "done"
    /\ outcome' = result
    /\ price' = p
    /\ UNCHANGED <<setup, round, offer, bid, ask>>

\* The party to move accepts the offer on the table.
Accept ==
    /\ turn # "done"
    /\ \E c \in Choices(turn) : c.action = "accept" /\ Finish("SETTLED", c.price)

\* Mutant: the buyer counters without moving to the next round.
SameRound == round

\* The round of the buyer's next offer.
RoundAfter == IF offer = NoPrice THEN round ELSE round + 1

\* The buyer sends an offer, unless that would be a round after the last.
BuyerOffer ==
    /\ turn = "buyer"
    /\ \E c \in Choices("buyer") :
        /\ c.action = "offer"
        /\ IF RoundAfter > MAX_NEGOTIATION_ROUNDS
           THEN Finish("CANCELLED", NoPrice)
           ELSE /\ turn' = "seller"
                /\ round' = RoundAfter
                /\ offer' = c.price
                /\ bid' = c.price
                /\ UNCHANGED <<setup, ask, outcome, price>>

\* The buyer has nothing to send within its limit.
BuyerStops ==
    /\ turn = "buyer"
    /\ NoCandidate \in Choices("buyer")
    /\ Finish("CANCELLED", NoPrice)

\* The seller counters in the buyer's round.
SellerOffer ==
    /\ turn = "seller"
    /\ \E c \in Choices("seller") :
        /\ c.action = "offer"
        /\ turn' = "buyer"
        /\ offer' = c.price
        /\ ask' = c.price
        /\ UNCHANGED <<setup, round, bid, outcome, price>>

\* The seller declines; the buyer opens the next round, or gives up after the
\* last one.
SellerDeclines ==
    /\ turn = "seller"
    /\ NoCandidate \in Choices("seller")
    /\ IF round >= MAX_NEGOTIATION_ROUNDS
       THEN Finish("CANCELLED", NoPrice)
       ELSE /\ turn' = "buyer"
            /\ round' = round + 1
            /\ offer' = NoPrice
            /\ UNCHANGED <<setup, bid, ask, outcome, price>>

\* The outcome is final; the only state in which no move is possible.
Finished == turn = "done" /\ UNCHANGED vars

Next == Accept \/ BuyerOffer \/ BuyerStops \/ SellerOffer \/ SellerDeclines \/ Finished

Spec == Init /\ [][Next]_vars
-----------------------------------------------------------------------------
(* Properties. *)

\* Every move ends the negotiation or uses up a turn that never comes back, so
\* together with the absence of deadlock a negotiation ends within ten rounds,
\* and by IsBargaining in CANCELLED when the limits do not overlap (README:
\* "한도가 겹치지 않으면 `CANCELLED`로 종료").
TurnNumber ==
    3 * round + (IF turn = "seller" THEN 1 ELSE IF offer = NoPrice THEN 0 ELSE 2)

TurnsRunOut == [][outcome' # "none" \/ TurnNumber' > TurnNumber]_vars

Shifted(p) == p + setup.offset

\* The rungs of both ladders exist up to round n, in which they meet or cross.
MetBy(n) ==
    /\ \A role \in Roles, r \in 1..n : PublicLadderPrice(role, setup.reference, r) # NoPrice
    /\ PublicLadderPrice("seller", setup.reference, n)
         <= PublicLadderPrice("buyer", setup.reference, n)

\* The ladders do not meet before the sixth round, where both are at the
\* reference price.
LaddersCross == \E n \in 6..MAX_NEGOTIATION_ROUNDS : MetBy(n)

\* The two ladders meet around the shifted reference price.  When they cross and
\* the reference price plus the session's offset, rounded either way, fits both
\* limits, the local fallback (or the mock provider) never fails to agree, and
\* agrees at that price up to the rounding.  A reference below 278 KRW has no
\* first rung, one close to the largest price lacks the upper ones, and below
\* 1,389 KRW the ladders stay an increment apart in all ten rounds unless the
\* reference is close enough to a multiple of the increment.
MeetsAtShiftedReference ==
    LET low == Shifted(RoundDownToPriceIncrement(setup.reference))
        high == Shifted(RoundUpToPriceIncrement(setup.reference))
    IN  ~setup.provider /\ LaddersCross /\ setup.min <= low /\ high <= setup.max
        => /\ outcome # "CANCELLED"
           /\ outcome = "SETTLED" => low <= price /\ price <= high

\* Concessions of the local fallback only go one way, and the two ladders never
\* cross while they answer each other: the buyer's offers never fall, the
\* seller's never rise, every bid is below the seller's offer it answers and every ask
\* above the bid it answers.  Once the seller has declined, its last ask no
\* longer binds the buyer, whose rungs may pass it.
ConcessionsMonotone ==
    [][~setup.provider =>
        /\ bid' >= bid
        /\ ask # NoPrice => ask' <= ask
        /\ bid' # bid /\ offer # NoPrice => bid' < ask
        /\ ask' # ask => bid < ask']_vars

\* The offer the local fallback sends does not depend on the private limit:
\* in every reachable context, two limits that both lead to an offer lead to
\* the same one (agent-core: "Private limits never shape an outgoing price").
FallbackOfferHidesLimit ==
    \A role \in Roles \cap {turn} :
        LET limits == IF role = "buyer" THEN BuyerLimits ELSE SellerLimits
            decisions == {GenerateLocalFallbackCandidate(l, CurrentContext(role), setup.offset) :
                             l \in limits}
        IN  \A c, d \in {e \in decisions : e.action = "offer"} : c = d

\* The mock provider changes nothing: asked in ladder coordinates, it leads to
\* the decision the fallback takes (README: "mock 생성기는 공개 사다리 가격만
\* 내므로 fallback과 같은 결과를 냅니다").
MockMatchesFallback ==
    \A role \in Roles \cap {turn} :
        LET ctx == CurrentContext(role)
            answers == <<MockCandidates(NormalizedContext(ctx, setup.offset))>>
        IN  GenerateAllowedCandidate(Limit(role), ctx, setup.offset, answers)
              = GenerateLocalFallbackCandidate(Limit(role), ctx, setup.offset)

\* The same claim for every provider: whatever list of candidates a provider
\* returns, two limits that both lead to an offer lead to the same offer.
\* agent-core/src/index.ts:375-377 says so of the outgoing price without
\* distinguishing the provider.
ProviderOfferHidesLimit ==
    \A role \in Roles \cap {turn} :
        LET limits == IF role = "buyer" THEN BuyerLimits ELSE SellerLimits
            lists == {<<[action |-> "offer", price |-> p], [action |-> "offer", price |-> q]>> :
                        p, q \in ProviderPrices}
            decisions(list) ==
                {DecideFor(l, CurrentContext(role), setup.offset, <<list>>) : l \in limits}
        IN  \A list \in lists :
                \A c, d \in {e \in decisions(list) : e.action = "offer"} : c = d

\* Every move the price rules lead to is a move of the abstract bargaining, over
\* the prices isOfferPriceIncrementValid lets through: whatever the candidate
\* provider answers, every offer and every agreement is within the limit of who
\* makes it.  The guards (policyAllows, applied again by restorePrivatePrice in
\* real prices) hold although they judge prices shifted by the session's offset.
Abstract == INSTANCE Bargaining WITH
    Prices <- {p * PRICE_INCREMENT_KRW : p \in 1..(MaxKrw \div PRICE_INCREMENT_KRW)},
    MaxRounds <- MAX_NEGOTIATION_ROUNDS,
    max <- setup.max, min <- setup.min

IsBargaining == Abstract!Spec
=============================================================================
