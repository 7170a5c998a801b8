------------------------------ MODULE Pricing -------------------------------
(***************************************************************************)
(* The price rules of agent-core: rounding to the price increment, the     *)
(* public concession ladder, the policy and strategy guards, the private   *)
(* session offset, the candidate providers and the local fallback.         *)
(*                                                                         *)
(* A price is a natural number of KRW.  parsePrice accepts positive        *)
(* amounts only, so 0 stands for the "undefined" of the source.  A context *)
(* is the public negotiation context: role, round, reference price and the *)
(* peer's current offer.  A limit is the local policy's maximum (buyer) or *)
(* minimum (seller); after normalisation it may be negative.               *)
(***************************************************************************)
EXTENDS Integers, Sequences

CONSTANT MaxKrw      \* the largest price, 2^64 - 1 in the source

ASSUME MaxKrwIsNat == MaxKrw \in Nat

Roles == {"buyer", "seller"}

NoPrice == 0

NoCandidate == [action |-> "none", price |-> NoPrice]

PRICE_INCREMENT_KRW == 250
MAX_NEGOTIATION_ROUNDS == 10
LADDER_STEP_BASIS_POINTS == 200
BUYER_LADDER_START_BASIS_POINTS == 9000
SELLER_LADDER_START_BASIS_POINTS == 11000
PRIVATE_OFFSET_BASIS_POINTS == 300
MAX_CANDIDATES == 5
MAX_STATELESS_REQUESTS == 3

\* parsePrice: a positive amount that fits the price type.
IsPrice(p) == 1 <= p /\ p <= MaxKrw

IsOfferPriceIncrementValid(p) == IsPrice(p) /\ p % PRICE_INCREMENT_KRW = 0

-----------------------------------------------------------------------------
(* Rounding and the ladder. *)

InRange(rounded) ==
    IF rounded >= PRICE_INCREMENT_KRW /\ rounded <= MaxKrw THEN rounded ELSE NoPrice

RoundDownToPriceIncrement(p) ==
    InRange((p \div PRICE_INCREMENT_KRW) * PRICE_INCREMENT_KRW)

RoundUpToPriceIncrement(p) ==
    LET remainder == p % PRICE_INCREMENT_KRW
    IN  InRange(IF remainder = 0 THEN p ELSE p + PRICE_INCREMENT_KRW - remainder)

\* Mutant: both ladders run the wrong way.
LadderBackwards(role, reference, round) ==
    LET step == (round - 1) * LADDER_STEP_BASIS_POINTS
    IN  IF role = "buyer"
        THEN RoundDownToPriceIncrement(
                (reference * (BUYER_LADDER_START_BASIS_POINTS - step)) \div 10000)
        ELSE RoundUpToPriceIncrement(
                (reference * (SELLER_LADDER_START_BASIS_POINTS + step)) \div 10000)

PublicLadderPrice(role, reference, round) ==
    LET step == (round - 1) * LADDER_STEP_BASIS_POINTS
    IN  IF round \notin 1..MAX_NEGOTIATION_ROUNDS THEN NoPrice
        ELSE IF role = "buyer"
        THEN RoundDownToPriceIncrement(
                (reference * (BUYER_LADDER_START_BASIS_POINTS + step)) \div 10000)
        ELSE RoundUpToPriceIncrement(
                (reference * (SELLER_LADDER_START_BASIS_POINTS - step)) \div 10000)

-----------------------------------------------------------------------------
(* Contexts and the guards. *)

Context(role, round, reference, offer) ==
    [role |-> role, round |-> round, reference |-> reference, offer |-> offer]

\* validatePublicContext throws on anything else.
ValidContext(ctx) ==
    /\ ctx.role \in Roles
    /\ ctx.round \in 1..MAX_NEGOTIATION_ROUNDS
    /\ IsPrice(ctx.reference)
    /\ ctx.offer = NoPrice \/ IsPrice(ctx.offer)

\* The round in which this party's next counter offer would be sent.
NextOfferRound(ctx) ==
    IF ctx.role = "buyer" /\ ctx.offer # NoPrice THEN ctx.round + 1 ELSE ctx.round

PublicStrategyTarget(ctx) ==
    PublicLadderPrice(ctx.role, ctx.reference,
        IF NextOfferRound(ctx) < MAX_NEGOTIATION_ROUNDS
        THEN NextOfferRound(ctx) ELSE MAX_NEGOTIATION_ROUNDS)

WithinLimit(role, limit, price) ==
    IF role = "buyer" THEN price <= limit ELSE price >= limit

PolicyAllows(limit, ctx, c) ==
    /\ IsPrice(c.price)
    /\ \/ c.action = "accept" /\ ctx.offer # NoPrice /\ c.price = ctx.offer
       \/ c.action = "offer" /\ IsOfferPriceIncrementValid(c.price)
    /\ WithinLimit(ctx.role, limit, c.price)

\* Mutant: the strategy guard forgets the private limit.
StrategyWithoutPolicy(limit, ctx, c) ==
    /\ PublicStrategyTarget(ctx) # NoPrice
    /\ WithinLimit(ctx.role, PublicStrategyTarget(ctx), c.price)

\* Mutant: anything within the limit is as good as the target.
StrategyIgnored(limit, ctx, c) == PolicyAllows(limit, ctx, c)

StrategyAllows(limit, ctx, c) ==
    /\ PolicyAllows(limit, ctx, c)
    /\ PublicStrategyTarget(ctx) # NoPrice
    /\ WithinLimit(ctx.role, PublicStrategyTarget(ctx), c.price)

-----------------------------------------------------------------------------
(* The private offset of a session. *)

MaxPrivateOffset(reference) == (reference * PRIVATE_OFFSET_BASIS_POINTS) \div 10000

\* Every value deriveSessionPriceOffset can return; the HKDF sample picks one,
\* the same one on both sides, because both hold the same shared key.
SessionPriceOffsets(reference) ==
    LET steps == MaxPrivateOffset(reference) \div PRICE_INCREMENT_KRW
    IN  {k * PRICE_INCREMENT_KRW : k \in (0 - steps)..steps}

\* normalizePrivatePrices fails when the shifted offer is no price.
Normalizable(ctx, offset) ==
    /\ offset % PRICE_INCREMENT_KRW = 0
    /\ 0 - MaxPrivateOffset(ctx.reference) <= offset
    /\ offset <= MaxPrivateOffset(ctx.reference)
    /\ ctx.offer = NoPrice \/ IsPrice(ctx.offer - offset)

NormalizedContext(ctx, offset) ==
    [ctx EXCEPT !.offer = IF @ = NoPrice THEN NoPrice ELSE @ - offset]

\* Mutant: the offset is added twice and the restored price is not checked.
RestoreUnchecked(c, ctx, limit, offset) ==
    IF c = NoCandidate THEN NoCandidate ELSE [c EXCEPT !.price = @ + offset + offset]

RestorePrivatePrice(c, ctx, limit, offset) ==
    LET actual == [c EXCEPT !.price = @ + offset]
    IN  IF c # NoCandidate /\ PolicyAllows(limit, ctx, actual) THEN actual ELSE NoCandidate

-----------------------------------------------------------------------------
(* Candidate providers. *)

\* validateCandidates: one bad candidate rejects the whole list.
ValidCandidates(list) ==
    /\ Len(list) \in 1..MAX_CANDIDATES
    /\ \A i \in 1..Len(list) :
        /\ list[i].action \in {"offer", "accept"}
        /\ IsPrice(list[i].price)
        /\ list[i].action = "offer" => IsOfferPriceIncrementValid(list[i].price)

\* The first candidate of the list the strategy guard lets through.
FirstAllowed(limit, ctx, list) ==
    LET allowed == {i \in 1..Len(list) : StrategyAllows(limit, ctx, list[i])}
    IN  IF allowed = {} THEN NoCandidate
        ELSE list[CHOOSE i \in allowed : \A j \in allowed : i <= j]

\* generateAllowedCandidate, in ladder coordinates, given the answers of the
\* stateless requests: a failed request or an invalid list counts as <<>>.
FromAnswers(limit, ctx, answers) ==
    LET hits == {i \in 1..Len(answers) :
                    /\ i <= MAX_STATELESS_REQUESTS
                    /\ ValidCandidates(answers[i])
                    /\ FirstAllowed(limit, ctx, answers[i]) # NoCandidate}
    IN  IF hits = {} THEN NoCandidate
        ELSE FirstAllowed(limit, ctx, answers[CHOOSE i \in hits : \A j \in hits : i <= j])

GenerateAllowedCandidate(limit, ctx, offset, answers) ==
    IF ~Normalizable(ctx, offset) THEN NoCandidate
    ELSE RestorePrivatePrice(FromAnswers(limit - offset, NormalizedContext(ctx, offset), answers),
                             ctx, limit, offset)

\* The deterministic mock provider: accept the peer's offer, or the ladder
\* price of the next round.  It throws (an empty list) when it has neither, and
\* for a seller that is asked to open.
MockCandidates(ctx) ==
    LET counter == PublicLadderPrice(ctx.role, ctx.reference, NextOfferRound(ctx))
        accepts == IF ctx.offer = NoPrice THEN <<>>
                   ELSE <<[action |-> "accept", price |-> ctx.offer]>>
        offers == IF counter = NoPrice THEN <<>>
                  ELSE <<[action |-> "offer", price |-> counter]>>
    IN  IF ctx.offer = NoPrice /\ ctx.role # "buyer" THEN <<>> ELSE accepts \o offers

-----------------------------------------------------------------------------
(* The local fallback. *)

\* Mutant: an offer outside the limit is clamped to the limit.
FallbackClamping(limit, ctx) ==
    LET acceptance == [action |-> "accept", price |-> ctx.offer]
        price == PublicLadderPrice(ctx.role, ctx.reference, NextOfferRound(ctx))
        clamped == IF WithinLimit(ctx.role, limit, price) THEN price
                   ELSE IF ctx.role = "buyer" THEN RoundDownToPriceIncrement(limit)
                   ELSE RoundUpToPriceIncrement(limit)
    IN  IF StrategyAllows(limit, ctx, acceptance) THEN acceptance
        ELSE IF ctx.offer = NoPrice /\ ctx.role = "seller" THEN NoCandidate
        ELSE IF clamped = NoPrice THEN NoCandidate
        ELSE [action |-> "offer", price |-> clamped]

FallbackInLadder(limit, ctx) ==
    LET acceptance == [action |-> "accept", price |-> ctx.offer]
        offer == [action |-> "offer",
                  price |-> PublicLadderPrice(ctx.role, ctx.reference, NextOfferRound(ctx))]
    IN  IF StrategyAllows(limit, ctx, acceptance) THEN acceptance
        ELSE IF ctx.offer = NoPrice /\ ctx.role = "seller" THEN NoCandidate
        ELSE IF StrategyAllows(limit, ctx, offer) THEN offer
        ELSE NoCandidate

GenerateLocalFallbackCandidate(limit, ctx, offset) ==
    IF ~Normalizable(ctx, offset) THEN NoCandidate
    ELSE RestorePrivatePrice(FallbackInLadder(limit - offset, NormalizedContext(ctx, offset)),
                             ctx, limit, offset)

-----------------------------------------------------------------------------
(* What a runtime does next: the provider's candidate, else the fallback. *)

DecideFor(limit, ctx, offset, answers) ==
    LET generated == GenerateAllowedCandidate(limit, ctx, offset, answers)
    IN  IF generated # NoCandidate THEN generated
        ELSE GenerateLocalFallbackCandidate(limit, ctx, offset)

\* Every decision a provider restricted to the offers in `prices` (ladder
\* coordinates) can lead to.  The lists may come in any order and may be
\* missing or rejected, so every allowed candidate may be the first one.
Decisions(limit, ctx, offset, prices) ==
    LET offers == {[action |-> "offer", price |-> p] : p \in prices}
        accepts == {[action |-> "accept", price |-> NormalizedContext(ctx, offset).offer]}
    IN  {DecideFor(limit, ctx, offset, <<<<c>>>>) : c \in offers \cup accepts}
        \cup {DecideFor(limit, ctx, offset, <<>>)}
=============================================================================
