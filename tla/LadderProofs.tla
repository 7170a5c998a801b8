----------------------------- MODULE LadderProofs -----------------------------
(***************************************************************************)
(* Proofs about the price rules and the negotiations played with them, for *)
(* every set of reference prices, limits and provider's answers and every  *)
(* largest price.                                                          *)
(***************************************************************************)
EXTENDS LadderBargaining, TLAPS

\* A decision, and a context over the integers.
Actions == {"none", "offer", "accept"}
Cand == [action : Actions, price : Int]
Ctx == [role : Roles, round : Int, reference : Int, offer : Int]

-----------------------------------------------------------------------------
(* The price rules. *)

\* Rounding gives an increment within the price range, or nothing.
LEMMA RoundedDown ==
    ASSUME NEW p \in Int
    PROVE  LET q == RoundDownToPriceIncrement(p)
           IN  q = NoPrice \/ (q \in Int /\ IsOfferPriceIncrementValid(q))
  BY MaxKrwIsNat DEF RoundDownToPriceIncrement, InRange, NoPrice, PRICE_INCREMENT_KRW,
     IsOfferPriceIncrementValid, IsPrice

\* What is rounded up is a valid offer price, or there is none.
LEMMA RoundedUp ==
    ASSUME NEW p \in Int
    PROVE  LET q == RoundUpToPriceIncrement(p)
           IN  q = NoPrice \/ (q \in Int /\ IsOfferPriceIncrementValid(q))
  BY MaxKrwIsNat DEF RoundUpToPriceIncrement, InRange, NoPrice, PRICE_INCREMENT_KRW,
     IsOfferPriceIncrementValid, IsPrice

\* A rung of the ladder is an increment within the price range, or is missing.
LEMMA Rung ==
    ASSUME NEW role, NEW reference \in Int, NEW n
    PROVE  LET q == PublicLadderPrice(role, reference, n)
           IN  q = NoPrice \/ (q \in Int /\ IsOfferPriceIncrementValid(q))
<1>. DEFINE step == (n - 1) * LADDER_STEP_BASIS_POINTS
            low == (reference * (BUYER_LADDER_START_BASIS_POINTS + step)) \div 10000
            high == (reference * (SELLER_LADDER_START_BASIS_POINTS - step)) \div 10000
<1>1. CASE n \notin 1..MAX_NEGOTIATION_ROUNDS
  BY <1>1 DEF PublicLadderPrice
<1>2. CASE n \in 1..MAX_NEGOTIATION_ROUNDS
  <2>1. low \in Int /\ high \in Int
    BY <1>2 DEF MAX_NEGOTIATION_ROUNDS, LADDER_STEP_BASIS_POINTS,
       BUYER_LADDER_START_BASIS_POINTS, SELLER_LADDER_START_BASIS_POINTS
  <2> QED
    BY <1>2, <2>1, RoundedDown, RoundedUp DEF PublicLadderPrice
<1> QED
  BY <1>1, <1>2

-----------------------------------------------------------------------------
(* The candidate loop. *)

\* A list of one candidate, and of two.
LEMMA FirstOfOne ==
    ASSUME NEW limit, NEW ctx, NEW a
    PROVE  FirstAllowed(limit, ctx, <<a>>)
             = IF StrategyAllows(limit, ctx, a) THEN a ELSE NoCandidate
<1>. DEFINE list == <<a>>
            allowed == {i \in 1..Len(list) : StrategyAllows(limit, ctx, list[i])}
<1>1. Len(list) = 1 /\ list[1] = a
  OBVIOUS
<1>2. CASE StrategyAllows(limit, ctx, a)
  <2>1. allowed = {1}
    BY <1>1, <1>2
  <2>2. (CHOOSE i \in allowed : \A j \in allowed : i <= j) = 1
    BY <2>1
  <2> QED
    BY <1>1, <1>2, <2>1, <2>2 DEF FirstAllowed
<1>3. CASE ~StrategyAllows(limit, ctx, a)
  <2>1. allowed = {}
    BY <1>1, <1>3
  <2> QED
    BY <1>3, <2>1 DEF FirstAllowed
<1> QED
  BY <1>2, <1>3

\* Of two candidates the first that the strategy allows is taken.
LEMMA FirstOfTwo ==
    ASSUME NEW limit, NEW ctx, NEW a, NEW b
    PROVE  FirstAllowed(limit, ctx, <<a, b>>)
             = IF StrategyAllows(limit, ctx, a) THEN a
               ELSE IF StrategyAllows(limit, ctx, b) THEN b ELSE NoCandidate
<1>. DEFINE list == <<a, b>>
            allowed == {i \in 1..Len(list) : StrategyAllows(limit, ctx, list[i])}
<1>1. Len(list) = 2 /\ list[1] = a /\ list[2] = b
  OBVIOUS
<1>2. CASE StrategyAllows(limit, ctx, a)
  <2>1. 1 \in allowed /\ allowed \subseteq {1, 2}
    BY <1>1, <1>2
  <2>2. allowed = {1} \/ allowed = {1, 2}
    BY <2>1
  <2>3. (CHOOSE i \in allowed : \A j \in allowed : i <= j) = 1
    <3>1. CASE allowed = {1}
      BY <3>1
    <3>2. CASE allowed = {1, 2}
      BY <3>2
    <3> QED
      BY <2>2, <3>1, <3>2
  <2> QED
    BY <1>1, <1>2, <2>1, <2>3 DEF FirstAllowed
<1>3. CASE ~StrategyAllows(limit, ctx, a) /\ StrategyAllows(limit, ctx, b)
  <2>1. allowed = {2}
    BY <1>1, <1>3
  <2>2. (CHOOSE i \in allowed : \A j \in allowed : i <= j) = 2
    BY <2>1
  <2> QED
    BY <1>1, <1>3, <2>1, <2>2 DEF FirstAllowed
<1>4. CASE ~StrategyAllows(limit, ctx, a) /\ ~StrategyAllows(limit, ctx, b)
  <2>1. allowed = {}
    BY <1>1, <1>4
  <2> QED
    BY <1>4, <2>1 DEF FirstAllowed
<1> QED
  BY <1>2, <1>3, <1>4

\* No answer leads to no candidate; one answer to the first allowed candidate of
\* its list, if the list is valid.
LEMMA NoAnswer ==
    ASSUME NEW limit, NEW ctx
    PROVE  FromAnswers(limit, ctx, <<>>) = NoCandidate
<1>. DEFINE hits == {i \in 1..Len(<<>>) :
                        /\ i <= MAX_STATELESS_REQUESTS
                        /\ ValidCandidates(<<>>[i])
                        /\ FirstAllowed(limit, ctx, <<>>[i]) # NoCandidate}
<1>1. hits = {}
  OBVIOUS
<1> QED
  BY <1>1 DEF FromAnswers

\* A provider that answers once is asked once.
LEMMA OneAnswer ==
    ASSUME NEW limit, NEW ctx, NEW list
    PROVE  FromAnswers(limit, ctx, <<list>>)
             = IF ValidCandidates(list) THEN FirstAllowed(limit, ctx, list) ELSE NoCandidate
<1>. DEFINE answers == <<list>>
            hits == {i \in 1..Len(answers) :
                        /\ i <= MAX_STATELESS_REQUESTS
                        /\ ValidCandidates(answers[i])
                        /\ FirstAllowed(limit, ctx, answers[i]) # NoCandidate}
<1>1. Len(answers) = 1 /\ answers[1] = list
  OBVIOUS
<1>2. CASE ValidCandidates(list) /\ FirstAllowed(limit, ctx, list) # NoCandidate
  <2>1. hits = {1}
    BY <1>1, <1>2 DEF MAX_STATELESS_REQUESTS
  <2>2. (CHOOSE i \in hits : \A j \in hits : i <= j) = 1
    BY <2>1
  <2> QED
    BY <1>1, <1>2, <2>1, <2>2 DEF FromAnswers
<1>3. CASE ~(ValidCandidates(list) /\ FirstAllowed(limit, ctx, list) # NoCandidate)
  <2>1. hits = {}
    BY <1>1, <1>3
  <2> QED
    BY <1>3, <2>1 DEF FromAnswers
<1> QED
  BY <1>2, <1>3

-----------------------------------------------------------------------------
(* What a decision is. *)

\* The absence of a candidate has the shape of one.
LEMMA NothingIsCandidate == NoCandidate \in Cand
  BY DEF NoCandidate, NoPrice, Cand, Actions

\* A restored price is the ladder's plus the offset, and within the limit.
LEMMA Restored ==
    ASSUME NEW limit, NEW ctx, NEW offset \in Int, NEW c \in Cand
    PROVE  LET r == RestorePrivatePrice(c, ctx, limit, offset)
           IN  \/ r = NoCandidate
               \/ /\ c # NoCandidate /\ r \in Cand /\ PolicyAllows(limit, ctx, r)
                  /\ r.action = c.action /\ r.price = c.price + offset
<1>. DEFINE actual == [c EXCEPT !.price = @ + offset]
<1>1. /\ actual \in Cand
      /\ actual.action = c.action /\ actual.price = c.price + offset
  BY DEF Cand
<1> QED
  BY <1>1 DEF RestorePrivatePrice

\* The context in ladder coordinates.
LEMMA Normalized ==
    ASSUME NEW ctx \in Ctx, NEW offset \in Int
    PROVE  LET n == NormalizedContext(ctx, offset)
           IN  /\ n \in Ctx
               /\ n.role = ctx.role /\ n.round = ctx.round /\ n.reference = ctx.reference
               /\ n.offer = IF ctx.offer = NoPrice THEN NoPrice ELSE ctx.offer - offset
  BY DEF NormalizedContext, Ctx, NoPrice

\* The price of the next counter offer.
NextPrice(ctx) == PublicLadderPrice(ctx.role, ctx.reference, NextOfferRound(ctx))

\* The fallback accepts, or offers the next rung.
LEMMA FallbackIsRung ==
    ASSUME NEW limit, NEW ctx \in Ctx
    PROVE  LET c == FallbackInLadder(limit, ctx)
           IN  /\ c \in Cand
               /\ c = NoCandidate \/ StrategyAllows(limit, ctx, c)
               /\ c.action = "accept" => c.price = ctx.offer
               /\ c.action = "offer" =>
                    /\ c = [action |-> "offer", price |-> NextPrice(ctx)]
                    /\ ~StrategyAllows(limit, ctx, [action |-> "accept", price |-> ctx.offer])
<1>. DEFINE acceptance == [action |-> "accept", price |-> ctx.offer]
            counter == [action |-> "offer", price |-> NextPrice(ctx)]
<1>1. ctx.offer \in Int /\ ctx.reference \in Int
  BY DEF Ctx
<1>2. NextPrice(ctx) \in Int
  BY <1>1, Rung DEF NextPrice, NoPrice
<1>3. acceptance \in Cand /\ counter \in Cand
  BY <1>1, <1>2 DEF Cand, Actions
<1>4. acceptance.action = "accept" /\ counter.action = "offer" /\ NoCandidate.action = "none"
  BY DEF NoCandidate
<1>5. FallbackInLadder(limit, ctx) \in {acceptance, counter, NoCandidate}
  BY DEF FallbackInLadder, NextPrice
<1>6. FallbackInLadder(limit, ctx) = acceptance => StrategyAllows(limit, ctx, acceptance)
  BY <1>4 DEF FallbackInLadder, NextPrice
<1>7. FallbackInLadder(limit, ctx) = counter =>
          StrategyAllows(limit, ctx, counter) /\ ~StrategyAllows(limit, ctx, acceptance)
  BY <1>4 DEF FallbackInLadder, NextPrice
<1> QED
  BY <1>3, <1>4, <1>5, <1>6, <1>7, NothingIsCandidate

\* Whatever list is answered, a generated candidate passes the guard in real
\* prices.
LEMMA GeneratedIsAllowed ==
    ASSUME NEW limit \in Int, NEW ctx \in Ctx, NEW offset \in Int, NEW a \in Cand
    PROVE  LET c == GenerateAllowedCandidate(limit, ctx, offset, <<<<a>>>>)
           IN  \/ c = NoCandidate
               \/ c \in Cand /\ c.action = a.action /\ PolicyAllows(limit, ctx, c)
<1>. DEFINE n == NormalizedContext(ctx, offset)
            c0 == FromAnswers(limit - offset, n, <<<<a>>>>)
<1>1. c0 = a \/ c0 = NoCandidate
  BY OneAnswer, FirstOfOne
<1>2. c0 \in Cand
  BY <1>1, NothingIsCandidate
<1>3. LET r == RestorePrivatePrice(c0, ctx, limit, offset)
      IN  r = NoCandidate \/ (c0 = a /\ r \in Cand /\ r.action = c0.action /\ PolicyAllows(limit, ctx, r))
  BY <1>1, <1>2, Restored
<1> QED
  BY <1>3 DEF GenerateAllowedCandidate

\* Without an answer the candidate loop gives no candidate.
LEMMA NothingGenerated ==
    ASSUME NEW limit, NEW ctx, NEW offset
    PROVE  GenerateAllowedCandidate(limit, ctx, offset, <<>>) = NoCandidate
<1>1. FromAnswers(limit - offset, NormalizedContext(ctx, offset), <<>>) = NoCandidate
  BY NoAnswer
<1> QED
  BY <1>1 DEF GenerateAllowedCandidate, RestorePrivatePrice

\* The next rung does not depend on the offset.
LEMMA NextPriceNormalized ==
    ASSUME NEW ctx \in Ctx, NEW offset \in Int, Normalizable(ctx, offset)
    PROVE  LET n == NormalizedContext(ctx, offset)
           IN  /\ (n.offer = NoPrice) <=> (ctx.offer = NoPrice)
               /\ NextOfferRound(n) = NextOfferRound(ctx)
               /\ NextPrice(n) = NextPrice(ctx)
<1>. DEFINE n == NormalizedContext(ctx, offset)
<1>1. /\ n.role = ctx.role /\ n.round = ctx.round /\ n.reference = ctx.reference
      /\ n.offer = IF ctx.offer = NoPrice THEN NoPrice ELSE ctx.offer - offset
  BY Normalized
<1>2. (n.offer = NoPrice) <=> (ctx.offer = NoPrice)
  BY <1>1 DEF Normalizable, IsPrice, NoPrice
<1> QED
  BY <1>1, <1>2 DEF NextOfferRound, NextPrice

\* The price of an offer within the last round is the strategy's target.
LEMMA TargetIsNextPrice ==
    ASSUME NEW ctx \in Ctx, NextPrice(ctx) # NoPrice
    PROVE  PublicStrategyTarget(ctx) = NextPrice(ctx)
<1>1. NextOfferRound(ctx) \in 1..MAX_NEGOTIATION_ROUNDS
  BY DEF NextPrice, PublicLadderPrice
<1> QED
  BY <1>1 DEF PublicStrategyTarget, NextPrice, MAX_NEGOTIATION_ROUNDS

\* The fallback's decision passes the guard in real prices.  Its offer is the
\* next rung plus the offset, and gives in by less than what would accept the
\* offer it answers.
LEMMA FallbackDecision ==
    ASSUME NEW limit \in Int, NEW ctx \in Ctx, NEW offset \in Int
    PROVE  LET c == GenerateLocalFallbackCandidate(limit, ctx, offset)
           IN  \/ c = NoCandidate
               \/ /\ c \in Cand /\ PolicyAllows(limit, ctx, c)
                  /\ c.action = "offer" =>
                       /\ NextPrice(ctx) # NoPrice
                       /\ c.price = NextPrice(ctx) + offset
                       /\ ctx.offer # NoPrice /\ ctx.role = "buyer" => c.price < ctx.offer
                       /\ ctx.offer # NoPrice /\ ctx.role = "seller" => c.price > ctx.offer
<1>. DEFINE n == NormalizedContext(ctx, offset)
            c0 == FallbackInLadder(limit - offset, n)
            c == GenerateLocalFallbackCandidate(limit, ctx, offset)
<1>1. CASE ~Normalizable(ctx, offset)
  BY <1>1 DEF GenerateLocalFallbackCandidate
<1>2. CASE Normalizable(ctx, offset)
  <2>1. /\ n \in Ctx /\ n.role = ctx.role
        /\ n.offer = IF ctx.offer = NoPrice THEN NoPrice ELSE ctx.offer - offset
    BY Normalized
  <2>2. c = RestorePrivatePrice(c0, ctx, limit, offset)
    BY <1>2 DEF GenerateLocalFallbackCandidate
  <2>3. c0 \in Cand
    BY <2>1, FallbackIsRung
  <2>4. \/ c = NoCandidate
        \/ /\ c0 # NoCandidate /\ c \in Cand /\ PolicyAllows(limit, ctx, c)
           /\ c.action = c0.action /\ c.price = c0.price + offset
    BY <2>2, <2>3, Restored
  <2>5. ASSUME c # NoCandidate, c.action = "offer"
        PROVE  /\ NextPrice(ctx) # NoPrice
               /\ c.price = NextPrice(ctx) + offset
               /\ ctx.offer # NoPrice /\ ctx.role = "buyer" => c.price < ctx.offer
               /\ ctx.offer # NoPrice /\ ctx.role = "seller" => c.price > ctx.offer
    <3>. DEFINE acceptance == [action |-> "accept", price |-> n.offer]
    <3>1. /\ c0 = [action |-> "offer", price |-> NextPrice(n)]
          /\ StrategyAllows(limit - offset, n, c0)
          /\ ~StrategyAllows(limit - offset, n, acceptance)
      BY <2>1, <2>4, <2>5, FallbackIsRung
    <3>2. /\ NextPrice(n) = NextPrice(ctx)
          /\ (n.offer = NoPrice) <=> (ctx.offer = NoPrice)
      BY <1>2, NextPriceNormalized
    <3>3. c0.price = NextPrice(ctx) /\ c.price = NextPrice(ctx) + offset
      BY <2>4, <2>5, <3>1, <3>2
    <3>4. IsPrice(c0.price)
      BY <3>1 DEF StrategyAllows, PolicyAllows
    <3>5. NextPrice(ctx) # NoPrice
      BY <3>3, <3>4 DEF IsPrice, NoPrice
    <3>6. PublicStrategyTarget(n) = NextPrice(ctx)
      BY <2>1, <3>2, <3>5, TargetIsNextPrice
    <3>7. WithinLimit(ctx.role, limit, c.price)
      BY <2>4, <2>5 DEF PolicyAllows
    <3>8. ASSUME ctx.offer # NoPrice
          PROVE  ~WithinLimit(n.role, limit - offset, n.offer) \/ ~WithinLimit(n.role, NextPrice(ctx), n.offer)
      <4>1. acceptance.action = "accept" /\ acceptance.price = n.offer
        OBVIOUS
      <4>2. IsPrice(n.offer) /\ n.offer # NoPrice
        BY <1>2, <2>1, <3>2, <3>8 DEF Normalizable
      <4> QED
        BY <3>1, <3>5, <3>6, <4>1, <4>2 DEF StrategyAllows, PolicyAllows
    <3>9. NextPrice(ctx) \in Int /\ ctx.offer \in Int
      BY Rung DEF NextPrice, NoPrice, Ctx
    <3>10. ctx.role = "seller" => ctx.role # "buyer"
      OBVIOUS
    <3> QED
      BY <2>1, <3>3, <3>5, <3>7, <3>8, <3>9, <3>10 DEF WithinLimit
  <2> QED
    BY <2>4, <2>5
<1> QED
  BY <1>1, <1>2

\* The guards of agent-core hold for every decision, in real prices.
LEMMA DecisionAllowed ==
    ASSUME NEW limit \in Int, NEW ctx \in Ctx, NEW offset \in Int, NEW prices \in SUBSET Int,
           NEW c \in Decisions(limit, ctx, offset, prices)
    PROVE  c = NoCandidate \/ (c \in Cand /\ PolicyAllows(limit, ctx, c))
<1>. DEFINE answered == {[action |-> "offer", price |-> p] : p \in prices}
                        \cup {[action |-> "accept", price |-> NormalizedContext(ctx, offset).offer]}
<1>1. NormalizedContext(ctx, offset).offer \in Int
  BY Normalized DEF Ctx
<1>2. answered \subseteq Cand
  BY <1>1 DEF Cand, Actions
<1>3. \/ \E a \in answered : c = DecideFor(limit, ctx, offset, <<<<a>>>>)
      \/ c = DecideFor(limit, ctx, offset, <<>>)
  BY DEF Decisions
<1>4. LET d == GenerateLocalFallbackCandidate(limit, ctx, offset)
      IN  d = NoCandidate \/ (d \in Cand /\ PolicyAllows(limit, ctx, d))
  BY FallbackDecision
<1>5. ASSUME NEW a \in answered, c = DecideFor(limit, ctx, offset, <<<<a>>>>)
      PROVE  c = NoCandidate \/ (c \in Cand /\ PolicyAllows(limit, ctx, c))
  BY <1>2, <1>4, <1>5, GeneratedIsAllowed DEF DecideFor
<1> QED
  BY <1>3, <1>4, <1>5, NothingGenerated DEF DecideFor

\* Without a provider an offer is the fallback's.
LEMMA OfferWithoutAnswers ==
    ASSUME NEW limit \in Int, NEW ctx \in Ctx, NEW offset \in Int,
           NEW c \in Decisions(limit, ctx, offset, {}), c.action = "offer"
    PROVE  c = GenerateLocalFallbackCandidate(limit, ctx, offset)
<1>. DEFINE a == [action |-> "accept", price |-> NormalizedContext(ctx, offset).offer]
<1>1. a \in Cand /\ a.action = "accept"
  BY Normalized DEF Ctx, Cand, Actions
<1>2. c = DecideFor(limit, ctx, offset, <<<<a>>>>) \/ c = DecideFor(limit, ctx, offset, <<>>)
  BY DEF Decisions
<1>3. LET g == GenerateAllowedCandidate(limit, ctx, offset, <<<<a>>>>)
      IN  g = NoCandidate \/ g.action = "accept"
  BY <1>1, GeneratedIsAllowed
<1> QED
  BY <1>2, <1>3, NothingGenerated DEF DecideFor

-----------------------------------------------------------------------------
(* The rungs in order. *)

\* The ladder multiplies in the order of its factors ...
LEMMA ProductsGrow ==
    ASSUME NEW a \in Nat, NEW b \in Nat, NEW c \in Nat, a <= b
    PROVE  c * a <= c * b /\ c * a \in Nat /\ c * b \in Nat
<1>1. PICK d \in Nat : d = b - a
  OBVIOUS
<1>2. c * b = c * a + c * d /\ c * d \in Nat /\ c * a \in Nat
  BY <1>1
<1> QED
  BY <1>2

\* ... divides by the basis points in order ...
LEMMA TenthousandthsGrow ==
    ASSUME NEW a \in Nat, NEW b \in Nat, a <= b
    PROVE  a \div 10000 <= b \div 10000 /\ a \div 10000 \in Nat /\ b \div 10000 \in Nat
  OBVIOUS

\* ... and rounds in order, wherever rounding stays in the price range.
LEMMA RoundedInOrder ==
    ASSUME NEW a \in Nat, NEW b \in Nat, a <= b
    PROVE  /\ RoundDownToPriceIncrement(a) # NoPrice /\ RoundDownToPriceIncrement(b) # NoPrice
                => RoundDownToPriceIncrement(a) <= RoundDownToPriceIncrement(b)
           /\ RoundUpToPriceIncrement(a) # NoPrice /\ RoundUpToPriceIncrement(b) # NoPrice
                => RoundUpToPriceIncrement(a) <= RoundUpToPriceIncrement(b)
  BY MaxKrwIsNat DEF RoundDownToPriceIncrement, RoundUpToPriceIncrement, InRange, NoPrice,
     PRICE_INCREMENT_KRW

\* The buyer's ladder rises and the seller's falls.
LEMMA RungsInOrder ==
    ASSUME NEW reference \in Nat, NEW j \in 1..MAX_NEGOTIATION_ROUNDS,
           NEW k \in 1..MAX_NEGOTIATION_ROUNDS, j <= k
    PROVE  /\ PublicLadderPrice("buyer", reference, j) # NoPrice
                /\ PublicLadderPrice("buyer", reference, k) # NoPrice
                => PublicLadderPrice("buyer", reference, j) <= PublicLadderPrice("buyer", reference, k)
           /\ PublicLadderPrice("seller", reference, j) # NoPrice
                /\ PublicLadderPrice("seller", reference, k) # NoPrice
                => PublicLadderPrice("seller", reference, k) <= PublicLadderPrice("seller", reference, j)
<1>. DEFINE low(i) == (reference * (9000 + (i - 1) * 200)) \div 10000
            high(i) == (reference * (11000 - (i - 1) * 200)) \div 10000
<1>1. /\ 9000 + (j - 1) * 200 \in Nat /\ 9000 + (k - 1) * 200 \in Nat
      /\ 9000 + (j - 1) * 200 <= 9000 + (k - 1) * 200
      /\ 11000 - (j - 1) * 200 \in Nat /\ 11000 - (k - 1) * 200 \in Nat
      /\ 11000 - (k - 1) * 200 <= 11000 - (j - 1) * 200
  BY DEF MAX_NEGOTIATION_ROUNDS
<1>2. low(j) \in Nat /\ low(k) \in Nat /\ low(j) <= low(k)
  BY <1>1, ProductsGrow, TenthousandthsGrow
<1>3. high(j) \in Nat /\ high(k) \in Nat /\ high(k) <= high(j)
  BY <1>1, ProductsGrow, TenthousandthsGrow
<1>4. \A i \in {j, k} :
          /\ PublicLadderPrice("buyer", reference, i) = RoundDownToPriceIncrement(low(i))
          /\ PublicLadderPrice("seller", reference, i) = RoundUpToPriceIncrement(high(i))
  BY DEF PublicLadderPrice, LADDER_STEP_BASIS_POINTS, BUYER_LADDER_START_BASIS_POINTS,
     SELLER_LADDER_START_BASIS_POINTS
<1> QED
  <2>. HIDE DEF low, high
  <2> QED
    BY <1>2, <1>3, <1>4, RoundedInOrder

-----------------------------------------------------------------------------
(* Whole negotiations. *)

Types ==
    /\ setup.reference \in Nat /\ setup.offset \in Int
    /\ setup.max \in BuyerLimits /\ setup.min \in SellerLimits
    /\ turn \in {"buyer", "seller", "done"}
    /\ round \in 1..MAX_NEGOTIATION_ROUNDS
    /\ {offer, bid, ask, price} \subseteq Int

\* What a session is set up with has its type.
LEMMA SetupTypes ==
    ASSUME NEW s \in Setups
    PROVE  /\ s.reference \in Nat /\ s.offset \in Int
           /\ s.max \in BuyerLimits /\ s.min \in SellerLimits
<1>1. PICK r \in Nat, b \in BOOLEAN :
          s \in [reference : {r}, offset : SessionPriceOffsets(r), max : BuyerLimits,
                 min : SellerLimits, provider : {b}]
  BY PricesAreNatural DEF Setups, SetupsOf
<1>2. SessionPriceOffsets(r) \subseteq Int
  BY <1>1 DEF SessionPriceOffsets, MaxPrivateOffset, PRICE_INCREMENT_KRW,
     PRIVATE_OFFSET_BASIS_POINTS
<1> QED
  BY <1>1, <1>2

\* Every choice is nothing at all, or an action with a price the guard lets
\* through.
LEMMA ChoiceAllowed ==
    ASSUME Types, NEW role \in Roles, NEW c \in Choices(role)
    PROVE  /\ CurrentContext(role) \in Ctx /\ Limit(role) \in Int /\ setup.offset \in Int
           /\ \/ c = NoCandidate
              \/ /\ c \in Cand /\ IsPrice(c.price) /\ WithinLimit(role, Limit(role), c.price)
                 /\ \/ c.action = "accept" /\ offer # NoPrice /\ c.price = offer
                    \/ c.action = "offer" /\ IsOfferPriceIncrementValid(c.price)
<1>1. CurrentContext(role) \in Ctx
  BY DEF Types, CurrentContext, Context, Ctx, MAX_NEGOTIATION_ROUNDS
<1>2. Limit(role) \in Int /\ setup.offset \in Int /\ Answers \in SUBSET Int
  BY LimitsAreIntegers, PricesAreNatural DEF Types, Limit, Answers
<1>3. CurrentContext(role).role = role /\ CurrentContext(role).offer = offer
  BY DEF CurrentContext, Context
<1> QED
  BY <1>1, <1>2, <1>3, DecisionAllowed DEF Choices, PolicyAllows

\* The types hold at the start of a session ...
LEMMA InitTypes == Init => Types
  BY SetupTypes DEF Init, Types, NoPrice, MAX_NEGOTIATION_ROUNDS

\* An acceptance settles at the offer on the table.
LEMMA AcceptsOffer ==
    ASSUME Types, Accept
    PROVE  /\ turn \in Roles /\ offer # NoPrice
           /\ WithinLimit(turn, Limit(turn), offer)
           /\ Finish("SETTLED", offer)
<1>1. turn \in Roles
  BY DEF Accept, Types, Roles
<1>2. PICK c \in Choices(turn) : c.action = "accept" /\ Finish("SETTLED", c.price)
  BY DEF Accept
<1>3. c # NoCandidate
  BY <1>2 DEF NoCandidate
<1> QED
  BY <1>1, <1>2, <1>3, ChoiceAllowed

\* ... are kept by every move ...
LEMMA NextTypes ==
    ASSUME Types, [Next]_vars
    PROVE  Types'
<1>. USE DEF Types
<1>1. CASE Accept
  BY <1>1, AcceptsOffer DEF Finish
<1>2. CASE BuyerOffer
  <2>1. PICK c \in Choices("buyer") :
            /\ c.action = "offer"
            /\ IF RoundAfter > MAX_NEGOTIATION_ROUNDS
               THEN Finish("CANCELLED", NoPrice)
               ELSE /\ turn' = "seller" /\ round' = RoundAfter
                    /\ offer' = c.price /\ bid' = c.price
                    /\ UNCHANGED <<setup, ask, outcome, price>>
    BY <1>2 DEF BuyerOffer
  <2>2. c.price \in Int
    BY <2>1, ChoiceAllowed DEF Roles, Cand, NoCandidate
  <2>3. RoundAfter \in Nat /\ RoundAfter >= 1
    BY DEF RoundAfter
  <2> QED
    BY <2>1, <2>2, <2>3 DEF Finish, NoPrice, MAX_NEGOTIATION_ROUNDS
<1>3. CASE BuyerStops
  BY <1>3 DEF BuyerStops, Finish, NoPrice
<1>4. CASE SellerOffer
  BY <1>4, ChoiceAllowed DEF SellerOffer, Roles, Cand, NoCandidate
<1>5. CASE SellerDeclines
  BY <1>5 DEF SellerDeclines, Finish, NoPrice, MAX_NEGOTIATION_ROUNDS
<1>6. CASE Finished \/ UNCHANGED vars
  BY <1>6 DEF Finished, vars
<1> QED
  BY <1>1, <1>2, <1>3, <1>4, <1>5, <1>6 DEF Next

\* ... and so hold in every reachable state.
LEMMA TypesHold == Spec => []Types
  BY InitTypes, NextTypes, PTL DEF Spec

-----------------------------------------------------------------------------
(* The moves are those of the bargaining. *)

\* Offers are multiples of the increment within the price range, the prices of
\* the abstract bargaining.
LadderPrices == {p * PRICE_INCREMENT_KRW : p \in 1..(MaxKrw \div PRICE_INCREMENT_KRW)}

\* A valid offer price is one of the prices the abstract bargaining knows.
LEMMA IncrementsArePrices ==
    ASSUME NEW p \in Int, IsOfferPriceIncrementValid(p)
    PROVE  p \in LadderPrices
<1>1. PICK k \in Int : k = p \div PRICE_INCREMENT_KRW
  BY DEF PRICE_INCREMENT_KRW
<1>2. p = k * PRICE_INCREMENT_KRW /\ k \in 1..(MaxKrw \div PRICE_INCREMENT_KRW)
  BY <1>1, MaxKrwIsNat DEF IsOfferPriceIncrementValid, IsPrice, PRICE_INCREMENT_KRW
<1> QED
  BY <1>2 DEF LadderPrices

\* The abstract bargaining judges a price by the limit of the same party.
LEMMA LimitsAgree ==
    ASSUME NEW role \in Roles, NEW p
    PROVE  WithinLimit(role, Limit(role), p) <=> Abstract!WithinLimit(role, p)
  BY DEF Roles, WithinLimit, Limit, Abstract!WithinLimit

\* An offer's price.
LEMMA OfferedPrice ==
    ASSUME Types, NEW role \in Roles, NEW c \in Choices(role), c.action = "offer"
    PROVE  /\ c.price \in LadderPrices /\ c.price \in Int /\ c.price # NoPrice
           /\ Abstract!WithinLimit(role, c.price)
<1>1. c # NoCandidate
  BY DEF NoCandidate
<1>2. c.price \in Int /\ IsOfferPriceIncrementValid(c.price) /\ WithinLimit(role, Limit(role), c.price)
  BY <1>1, ChoiceAllowed DEF Cand
<1> QED
  BY <1>2, IncrementsArePrices, LimitsAgree DEF IsOfferPriceIncrementValid, IsPrice, NoPrice

\* Every move of the two agents is a move of the abstract bargaining.
LEMMA MoveOfBargaining ==
    ASSUME Types, [Next]_vars
    PROVE  [Abstract!Next]_Abstract!bargainVars
<1>1. CASE Accept
  <2>1. Abstract!Accept
    BY <1>1, AcceptsOffer, LimitsAgree
       DEF Abstract!Accept, Abstract!Finish, Abstract!NoPrice, Abstract!limits, Finish, NoPrice, Roles
  <2> QED
    BY <2>1 DEF Abstract!Next
<1>2. CASE BuyerOffer
  <2>1. PICK c \in Choices("buyer") :
            /\ turn = "buyer" /\ c.action = "offer"
            /\ IF RoundAfter > MAX_NEGOTIATION_ROUNDS
               THEN Finish("CANCELLED", NoPrice)
               ELSE /\ turn' = "seller" /\ round' = RoundAfter
                    /\ offer' = c.price /\ bid' = c.price
                    /\ UNCHANGED <<setup, ask, outcome, price>>
    BY <1>2 DEF BuyerOffer
  <2>2. CASE RoundAfter > MAX_NEGOTIATION_ROUNDS
    <3>1. Abstract!BuyerStops
      BY <2>1, <2>2 DEF Abstract!BuyerStops, Abstract!Finish, Abstract!NoPrice, Abstract!limits,
         Finish, NoPrice
    <3> QED
      BY <3>1 DEF Abstract!Next
  <2>3. CASE ~(RoundAfter > MAX_NEGOTIATION_ROUNDS)
    <3>1. c.price \in LadderPrices /\ Abstract!WithinLimit("buyer", c.price)
      BY <2>1, OfferedPrice DEF Roles
    <3>2. Abstract!OfferRound = RoundAfter /\ RoundAfter \in Int
      BY DEF Types, Abstract!OfferRound, RoundAfter, Abstract!NoPrice, NoPrice
    <3>3. Abstract!BuyerOffer(c.price)
      BY <2>1, <2>3, <3>1, <3>2
         DEF Abstract!BuyerOffer, Abstract!limits, MAX_NEGOTIATION_ROUNDS
    <3> QED
      BY <3>1, <3>3 DEF Abstract!Next, LadderPrices
  <2> QED
    BY <2>2, <2>3
<1>3. CASE BuyerStops
  <2>1. Abstract!BuyerStops
    BY <1>3 DEF BuyerStops, Abstract!BuyerStops, Abstract!Finish, Abstract!NoPrice,
       Abstract!limits, Finish, NoPrice
  <2> QED
    BY <2>1 DEF Abstract!Next
<1>4. CASE SellerOffer
  <2>1. PICK c \in Choices("seller") :
            /\ turn = "seller" /\ c.action = "offer"
            /\ turn' = "buyer" /\ offer' = c.price /\ ask' = c.price
            /\ UNCHANGED <<setup, round, bid, outcome, price>>
    BY <1>4 DEF SellerOffer
  <2>2. c.price \in LadderPrices /\ Abstract!WithinLimit("seller", c.price)
    BY <2>1, OfferedPrice DEF Roles
  <2>3. Abstract!SellerOffer(c.price)
    BY <2>1, <2>2 DEF Abstract!SellerOffer, Abstract!limits
  <2> QED
    BY <2>2, <2>3 DEF Abstract!Next, LadderPrices
<1>5. CASE SellerDeclines
  <2>1. Abstract!SellerDeclines \/ Abstract!LastDecline
    BY <1>5 DEF Types, SellerDeclines, Abstract!SellerDeclines, Abstract!LastDecline,
       Abstract!RoundsLeft, Abstract!Finish, Abstract!NoPrice, Abstract!limits, Finish, NoPrice,
       MAX_NEGOTIATION_ROUNDS
  <2> QED
    BY <2>1 DEF Abstract!Next
<1>6. CASE Finished \/ UNCHANGED vars
  BY <1>6 DEF Finished, vars, Abstract!bargainVars, Abstract!limits
<1> QED
  BY <1>1, <1>2, <1>3, <1>4, <1>5, <1>6 DEF Next

\* Every negotiation played with the price rules, whatever a candidate provider
\* answers, is a behaviour of the abstract bargaining: every offer and every
\* agreement is within the limit of who makes it.  The guards of agent-core are
\* applied to prices shifted by the session's offset, and hold in real prices.
THEOREM PriceRulesImplementBargaining == Spec => IsBargaining
<1>1. Init => Abstract!Init
  BY SetupTypes DEF Init, Abstract!Init, Abstract!NoPrice, NoPrice
<1>2. Spec => Abstract!Spec
  BY <1>1, MoveOfBargaining, TypesHold, PTL DEF Spec, Abstract!Spec
<1> QED
  BY <1>2 DEF IsBargaining

-----------------------------------------------------------------------------
(* A negotiation ends. *)

\* Every move ends the negotiation or uses up a turn.
LEMMA TurnUsed ==
    ASSUME Types, [Next]_vars
    PROVE  [outcome' # "none" \/ TurnNumber' > TurnNumber]_vars
<1>1. CASE Accept \/ BuyerStops
  BY <1>1, AcceptsOffer DEF BuyerStops, Finish
<1>2. CASE BuyerOffer
  BY <1>2 DEF BuyerOffer, Finish, TurnNumber, RoundAfter, Types, NoPrice, MAX_NEGOTIATION_ROUNDS
<1>3. CASE SellerOffer
  <2>1. offer' # NoPrice /\ turn = "seller" /\ turn' = "buyer" /\ round' = round
    BY <1>3, OfferedPrice DEF SellerOffer, Roles
  <2> QED
    BY <2>1 DEF TurnNumber, Types, NoPrice, MAX_NEGOTIATION_ROUNDS
<1>4. CASE SellerDeclines
  BY <1>4 DEF SellerDeclines, Finish, TurnNumber, Types, NoPrice, MAX_NEGOTIATION_ROUNDS
<1>5. CASE Finished \/ UNCHANGED vars
  BY <1>5 DEF Finished
<1> QED
  BY <1>1, <1>2, <1>3, <1>4, <1>5 DEF Next

\* Every move of the price rules ends the negotiation or uses up one of at most
\* 32 turns, for every reference price, offset, limits and provider.
THEOREM NegotiationRunsOut == Spec => TurnsRunOut
  BY TypesHold, TurnUsed, PTL DEF Spec, TurnsRunOut

-----------------------------------------------------------------------------
(* Concessions go one way. *)

BuyerRung(k) == PublicLadderPrice("buyer", setup.reference, k)
SellerRung(k) == PublicLadderPrice("seller", setup.reference, k)

\* What either party last sent without a provider is a rung of a round not after
\* this one; the offer on the table is the last one sent.
Rungs ==
    ~setup.provider =>
        /\ bid = NoPrice \/ \E k \in 1..round : BuyerRung(k) # NoPrice /\ bid = BuyerRung(k) + setup.offset
        /\ ask = NoPrice \/ \E k \in 1..round : SellerRung(k) # NoPrice /\ ask = SellerRung(k) + setup.offset
        /\ turn = "seller" => offer = bid /\ offer # NoPrice
        /\ turn = "buyer" /\ offer # NoPrice => offer = ask

\* An offer without a provider.
LEMMA OfferedRung ==
    ASSUME Types, ~setup.provider, NEW role \in Roles, NEW c \in Choices(role), c.action = "offer"
    PROVE  LET n == IF role = "buyer" THEN RoundAfter ELSE round
           IN  /\ PublicLadderPrice(role, setup.reference, n) # NoPrice
               /\ PublicLadderPrice(role, setup.reference, n) \in Int
               /\ n \in 1..MAX_NEGOTIATION_ROUNDS
               /\ c.price = PublicLadderPrice(role, setup.reference, n) + setup.offset
               /\ IsPrice(c.price)
               /\ offer # NoPrice /\ role = "buyer" => c.price < offer
               /\ offer # NoPrice /\ role = "seller" => c.price > offer
<1>. DEFINE ctx == CurrentContext(role)
            n == IF role = "buyer" THEN RoundAfter ELSE round
<1>1. /\ ctx \in Ctx /\ ctx.role = role /\ ctx.offer = offer
      /\ ctx.reference = setup.reference /\ ctx.round = round
      /\ Limit(role) \in Int /\ setup.offset \in Int
  BY ChoiceAllowed DEF CurrentContext, Context
<1>2. Answers = {}
  BY DEF Answers
<1>3. c = GenerateLocalFallbackCandidate(Limit(role), ctx, setup.offset)
  BY <1>1, <1>2, OfferWithoutAnswers DEF Choices
<1>4. c # NoCandidate
  BY DEF NoCandidate
<1>5. NextPrice(ctx) = PublicLadderPrice(role, setup.reference, n)
  BY <1>1 DEF NextPrice, NextOfferRound, RoundAfter
<1>6. /\ NextPrice(ctx) # NoPrice /\ c.price = NextPrice(ctx) + setup.offset
      /\ offer # NoPrice /\ role = "buyer" => c.price < offer
      /\ offer # NoPrice /\ role = "seller" => c.price > offer
  BY <1>1, <1>3, <1>4, FallbackDecision
<1>7. IsPrice(c.price)
  BY <1>4, ChoiceAllowed
<1>8. NextPrice(ctx) \in Int
  BY <1>5, Rung DEF Types, NoPrice
<1>9. n \in 1..MAX_NEGOTIATION_ROUNDS
  BY <1>5, <1>6 DEF PublicLadderPrice
<1> QED
  BY <1>5, <1>6, <1>7, <1>8, <1>9

\* The invariant about the rungs holds before the first offer.
LEMMA InitRungs == Init => Rungs
  BY DEF Init, Rungs

\* Every move keeps it.
LEMMA NextRungs ==
    ASSUME Types, Rungs, [Next]_vars
    PROVE  Rungs'
<1>1. CASE Accept \/ BuyerStops
  <2>1. Finish("SETTLED", offer) \/ Finish("CANCELLED", NoPrice)
    BY <1>1, AcceptsOffer DEF BuyerStops
  <2> QED
    BY <2>1 DEF Finish, Rungs, BuyerRung, SellerRung
<1>2. CASE BuyerOffer
  <2>1. CASE Finish("CANCELLED", NoPrice)
    BY <2>1 DEF Finish, Rungs, BuyerRung, SellerRung
  <2>2. ASSUME NEW c \in Choices("buyer"), c.action = "offer", turn' = "seller",
               round' = RoundAfter, offer' = c.price, bid' = c.price,
               UNCHANGED <<setup, ask, outcome, price>>, ~setup.provider
        PROVE  Rungs'
    <3>1. /\ BuyerRung(RoundAfter) # NoPrice /\ bid' = BuyerRung(RoundAfter) + setup.offset
          /\ RoundAfter \in 1..MAX_NEGOTIATION_ROUNDS /\ IsPrice(c.price)
      BY <2>2, OfferedRung DEF Roles, BuyerRung
    <3>2. 1..round \subseteq 1..round' /\ round' \in 1..round'
      BY <2>2, <3>1 DEF RoundAfter, Types, MAX_NEGOTIATION_ROUNDS
    <3>3. offer' # NoPrice
      BY <2>2, <3>1 DEF IsPrice, NoPrice
    <3>4. \A k : BuyerRung(k)' = BuyerRung(k) /\ SellerRung(k)' = SellerRung(k)
      BY <2>2 DEF BuyerRung, SellerRung
    <3>5. \E k \in 1..round' : BuyerRung(k) # NoPrice /\ bid' = BuyerRung(k) + setup.offset
      BY <2>2, <3>1, <3>2
    <3>6. ask = NoPrice \/ \E k \in 1..round' : SellerRung(k) # NoPrice /\ ask = SellerRung(k) + setup.offset
      BY <2>2, <3>2 DEF Rungs
    <3> QED
      BY <2>2, <3>3, <3>4, <3>5, <3>6 DEF Rungs, NoPrice
  <2>3. setup.provider => Rungs'
    BY <1>2 DEF BuyerOffer, Finish, Rungs
  <2> QED
    BY <1>2, <2>1, <2>2, <2>3 DEF BuyerOffer
<1>3. CASE SellerOffer
  <2>1. ASSUME NEW c \in Choices("seller"), c.action = "offer", turn' = "buyer",
               offer' = c.price, ask' = c.price,
               UNCHANGED <<setup, round, bid, outcome, price>>, ~setup.provider
        PROVE  Rungs'
    <3>1. SellerRung(round) # NoPrice /\ ask' = SellerRung(round) + setup.offset
      BY <2>1, OfferedRung DEF Roles, SellerRung
    <3>2. round \in 1..round
      BY DEF Types, MAX_NEGOTIATION_ROUNDS
    <3>3. \A k : BuyerRung(k)' = BuyerRung(k) /\ SellerRung(k)' = SellerRung(k)
      BY <2>1 DEF BuyerRung, SellerRung
    <3> QED
      BY <2>1, <3>1, <3>2, <3>3 DEF Rungs, NoPrice
  <2>2. setup.provider => Rungs'
    BY <1>3 DEF SellerOffer, Rungs
  <2> QED
    BY <1>3, <2>1, <2>2 DEF SellerOffer
<1>4. CASE SellerDeclines
  <2>1. CASE Finish("CANCELLED", NoPrice)
    BY <2>1 DEF Finish, Rungs, BuyerRung, SellerRung
  <2>2. CASE /\ turn' = "buyer" /\ round' = round + 1 /\ offer' = NoPrice
             /\ UNCHANGED <<setup, bid, ask, outcome, price>>
    <3>1. 1..round \subseteq 1..round'
      BY <2>2 DEF Types, MAX_NEGOTIATION_ROUNDS
    <3> QED
      BY <2>2, <3>1 DEF Rungs, BuyerRung, SellerRung, NoPrice
  <2> QED
    BY <1>4, <2>1, <2>2 DEF SellerDeclines
<1>5. CASE Finished \/ UNCHANGED vars
  BY <1>5 DEF Finished, vars, Rungs, BuyerRung, SellerRung
<1> QED
  BY <1>1, <1>2, <1>3, <1>4, <1>5 DEF Next

\* With the rungs in order, a move of the fallback only concedes.
LEMMA StepConcedes ==
    ASSUME Types, Rungs, [Next]_vars
    PROVE  [~setup.provider =>
              /\ bid' >= bid
              /\ ask # NoPrice => ask' <= ask
              /\ bid' # bid /\ offer # NoPrice => bid' < ask
              /\ ask' # ask => bid < ask']_vars
<1>. SUFFICES ASSUME ~setup.provider
              PROVE  /\ bid' >= bid
                     /\ ask # NoPrice => ask' <= ask
                     /\ bid' # bid /\ offer # NoPrice => bid' < ask
                     /\ ask' # ask => bid < ask'
  OBVIOUS
<1>1. CASE UNCHANGED <<bid, ask>>
  BY <1>1 DEF Types
<1>2. ASSUME NEW c \in Choices("buyer"), c.action = "offer", turn = "buyer",
             bid' = c.price, ask' = ask
      PROVE  bid' >= bid /\ (offer # NoPrice => bid' < ask)
  <2>1. /\ BuyerRung(RoundAfter) # NoPrice /\ BuyerRung(RoundAfter) \in Int
        /\ RoundAfter \in 1..MAX_NEGOTIATION_ROUNDS
        /\ bid' = BuyerRung(RoundAfter) + setup.offset
        /\ IsPrice(bid') /\ (offer # NoPrice => bid' < offer)
    BY <1>2, OfferedRung DEF Roles, BuyerRung
  <2>2. bid' >= bid
    <3>1. CASE bid = NoPrice
      BY <2>1, <3>1 DEF IsPrice, NoPrice, Types
    <3>2. ASSUME NEW k \in 1..round, BuyerRung(k) # NoPrice, bid = BuyerRung(k) + setup.offset
          PROVE  bid' >= bid
      <4>1. k \in 1..MAX_NEGOTIATION_ROUNDS /\ k <= RoundAfter
        BY DEF Types, MAX_NEGOTIATION_ROUNDS, RoundAfter
      <4>2. BuyerRung(k) <= BuyerRung(RoundAfter)
        BY <2>1, <3>2, <4>1, RungsInOrder DEF BuyerRung, Types
      <4>3. BuyerRung(k) \in Int
        BY Rung DEF BuyerRung, Types, NoPrice
      <4> QED
        BY <2>1, <3>2, <4>2, <4>3 DEF Types
    <3> QED
      BY <3>1, <3>2 DEF Rungs
  <2>3. offer # NoPrice => offer = ask
    BY <1>2 DEF Rungs
  <2> QED
    BY <2>1, <2>2, <2>3
<1>3. ASSUME NEW c \in Choices("seller"), c.action = "offer", turn = "seller",
             ask' = c.price, bid' = bid
      PROVE  (ask # NoPrice => ask' <= ask) /\ bid < ask'
  <2>1. /\ SellerRung(round) # NoPrice /\ SellerRung(round) \in Int
        /\ ask' = SellerRung(round) + setup.offset
        /\ (offer # NoPrice => ask' > offer)
    BY <1>3, OfferedRung DEF Roles, SellerRung
  <2>2. offer # NoPrice /\ offer = bid
    BY <1>3 DEF Rungs
  <2>3. ASSUME NEW k \in 1..round, SellerRung(k) # NoPrice, ask = SellerRung(k) + setup.offset
        PROVE  ask' <= ask
    <3>1. k \in 1..MAX_NEGOTIATION_ROUNDS /\ k <= round
      BY DEF Types, MAX_NEGOTIATION_ROUNDS
    <3>2. SellerRung(round) <= SellerRung(k)
      BY <2>1, <2>3, <3>1, RungsInOrder DEF SellerRung, Types
    <3>3. SellerRung(k) \in Int
      BY Rung DEF SellerRung, Types, NoPrice
    <3> QED
      BY <2>1, <2>3, <3>2, <3>3 DEF Types
  <2>4. ask' \in Int /\ bid \in Int
    BY <2>1 DEF Types
  <2> QED
    BY <2>1, <2>2, <2>3, <2>4 DEF Rungs
<1>4. CASE Accept \/ BuyerStops
  <2>1. UNCHANGED <<bid, ask>>
    BY <1>4, AcceptsOffer DEF BuyerStops, Finish
  <2> QED
    BY <1>1, <2>1
<1>5. CASE BuyerOffer
  BY <1>1, <1>2, <1>5 DEF BuyerOffer, Finish, Types
<1>6. CASE SellerOffer
  BY <1>3, <1>6 DEF SellerOffer, Types
<1>7. CASE SellerDeclines \/ Finished \/ UNCHANGED vars
  BY <1>1, <1>7 DEF SellerDeclines, Finish, Finished, vars
<1> QED
  BY <1>4, <1>5, <1>6, <1>7 DEF Next

\* Without a candidate provider the buyer's offers never fall, the seller's
\* never rise, and neither party gives in beyond the offer it answers, for every
\* reference price, offset and pair of limits.
THEOREM ConcessionsGoOneWay == Spec => ConcessionsMonotone
<1>1. Spec => [](Types /\ Rungs)
  BY InitTypes, InitRungs, NextTypes, NextRungs, PTL DEF Spec
<1> QED
  BY <1>1, StepConcedes, PTL DEF Spec, ConcessionsMonotone

-----------------------------------------------------------------------------
(* The private limit and the mock provider. *)

\* Two limits under which the fallback offers get the same offer.
LEMMA OffersHideLimit ==
    ASSUME NEW ctx \in Ctx, NEW offset \in Int, NEW l \in Int, NEW m \in Int,
           GenerateLocalFallbackCandidate(l, ctx, offset).action = "offer",
           GenerateLocalFallbackCandidate(m, ctx, offset).action = "offer"
    PROVE  GenerateLocalFallbackCandidate(l, ctx, offset)
             = GenerateLocalFallbackCandidate(m, ctx, offset)
<1>1. NoCandidate.action # "offer"
  BY DEF NoCandidate
<1>2. /\ GenerateLocalFallbackCandidate(l, ctx, offset) \in Cand
      /\ GenerateLocalFallbackCandidate(l, ctx, offset).price = NextPrice(ctx) + offset
  BY <1>1, FallbackDecision
<1>3. /\ GenerateLocalFallbackCandidate(m, ctx, offset) \in Cand
      /\ GenerateLocalFallbackCandidate(m, ctx, offset).price = NextPrice(ctx) + offset
  BY <1>1, FallbackDecision
<1> QED
  BY <1>2, <1>3 DEF Cand

\* So the offer of a reachable context does not depend on the limit.
LEMMA LimitHidden ==
    ASSUME Types
    PROVE  FallbackOfferHidesLimit
<1>. SUFFICES ASSUME NEW role \in Roles
              PROVE  LET all == IF role = "buyer" THEN BuyerLimits ELSE SellerLimits
                     IN  \A l, m \in all :
                           LET c == GenerateLocalFallbackCandidate(l, CurrentContext(role), setup.offset)
                               d == GenerateLocalFallbackCandidate(m, CurrentContext(role), setup.offset)
                           IN  c.action = "offer" /\ d.action = "offer" => c = d
  BY DEF FallbackOfferHidesLimit
<1>1. CurrentContext(role) \in Ctx /\ setup.offset \in Int
  BY DEF Types, CurrentContext, Context, Ctx, MAX_NEGOTIATION_ROUNDS
<1>2. BuyerLimits \subseteq Int /\ SellerLimits \subseteq Int
  BY LimitsAreIntegers
<1> QED
  BY <1>1, <1>2, OffersHideLimit

\* The offer the local fallback sends is the same whatever the private limit, in
\* every reachable context of every negotiation.
THEOREM OutgoingOfferHidesLimit == Spec => []FallbackOfferHidesLimit
  BY TypesHold, LimitHidden, PTL

\* Two lists of one make a list of two.
LEMMA PairJoined ==
    ASSUME NEW a, NEW b
    PROVE  <<a>> \o <<b>> = <<a, b>>
<1>. DEFINE T == {a, b}
            s == <<a>> \o <<b>>
<1>1. <<a>> \in Seq(T) /\ <<b>> \in Seq(T)
  OBVIOUS
<1>2. s \in Seq(T) /\ Len(s) = 2 /\ s[1] = a /\ s[2] = b
  BY <1>1
<1>3. s = [i \in 1..2 |-> s[i]]
  BY <1>2
<1>4. <<a, b>> = [i \in 1..2 |-> <<a, b>>[i]]
  OBVIOUS
<1>5. \A i \in 1..2 : s[i] = <<a, b>>[i]
  BY <1>2
<1>. HIDE DEF s
<1>6. [i \in 1..2 |-> s[i]] = [i \in 1..2 |-> <<a, b>>[i]]
  BY <1>5
<1>7. s = <<a, b>>
  BY <1>3, <1>4, <1>6
<1> QED
  BY <1>7 DEF s

\* In ladder coordinates the mock provider's list leads to what the fallback does.
LEMMA MockInLadder ==
    ASSUME NEW limit \in Int, NEW ctx \in Ctx, ctx.offer = NoPrice \/ IsPrice(ctx.offer)
    PROVE  FromAnswers(limit, ctx, <<MockCandidates(ctx)>>) = FallbackInLadder(limit, ctx)
<1>. DEFINE a == [action |-> "accept", price |-> ctx.offer]
            b == [action |-> "offer", price |-> NextPrice(ctx)]
            list == MockCandidates(ctx)
<1>1. /\ a.action = "accept" /\ a.price = ctx.offer
      /\ b.action = "offer" /\ b.price = NextPrice(ctx)
  OBVIOUS
<1>2. NextPrice(ctx) = NoPrice \/ IsOfferPriceIncrementValid(NextPrice(ctx))
  BY Rung DEF NextPrice, Ctx
<1>3. ctx.offer = NoPrice => ~StrategyAllows(limit, ctx, a)
  BY <1>1 DEF StrategyAllows, PolicyAllows
<1>4. NextPrice(ctx) = NoPrice => ~StrategyAllows(limit, ctx, b)
  BY <1>1 DEF StrategyAllows, PolicyAllows, IsPrice, NoPrice
<1>5. ctx.role \in Roles
  BY DEF Ctx
<1>6. FallbackInLadder(limit, ctx)
        = IF StrategyAllows(limit, ctx, a) THEN a
          ELSE IF ctx.offer = NoPrice /\ ctx.role = "seller" THEN NoCandidate
          ELSE IF StrategyAllows(limit, ctx, b) THEN b ELSE NoCandidate
  BY DEF FallbackInLadder, NextPrice
<1>7. list = IF ctx.offer = NoPrice /\ ctx.role # "buyer" THEN <<>>
             ELSE (IF ctx.offer = NoPrice THEN <<>> ELSE <<a>>)
                  \o (IF NextPrice(ctx) = NoPrice THEN <<>> ELSE <<b>>)
  BY DEF MockCandidates, NextPrice
<1>8. NextPrice(ctx) # NoPrice => IsPrice(b.price) /\ IsOfferPriceIncrementValid(b.price)
  BY <1>1, <1>2 DEF IsOfferPriceIncrementValid
<1>. HIDE DEF a, b, list
<1>9. CASE list = <<>>
  <2>1. ~ValidCandidates(list)
    BY <1>9 DEF ValidCandidates, MAX_CANDIDATES
  <2>2. ctx.offer = NoPrice /\ (ctx.role = "seller" \/ NextPrice(ctx) = NoPrice)
    BY <1>5, <1>7, <1>9 DEF Roles
  <2> QED
    BY <1>3, <1>4, <1>6, <2>1, <2>2, OneAnswer DEF list
<1>10. CASE ctx.offer # NoPrice /\ NextPrice(ctx) # NoPrice
  <2>1. list = <<a, b>>
    BY <1>7, <1>10, PairJoined
  <2>2. ValidCandidates(<<a, b>>)
    <3>1. Len(<<a, b>>) = 2 /\ <<a, b>>[1] = a /\ <<a, b>>[2] = b
      OBVIOUS
    <3> QED
      BY <1>1, <1>8, <1>10, <3>1 DEF ValidCandidates, MAX_CANDIDATES
  <2> QED
    BY <1>6, <1>10, <2>1, <2>2, OneAnswer, FirstOfTwo DEF list
<1>11. CASE ctx.offer # NoPrice /\ NextPrice(ctx) = NoPrice
  <2>1. list = <<a>>
    BY <1>7, <1>11
  <2>2. ValidCandidates(<<a>>)
    <3>1. Len(<<a>>) = 1 /\ <<a>>[1] = a
      OBVIOUS
    <3> QED
      BY <1>1, <1>11, <3>1 DEF ValidCandidates, MAX_CANDIDATES
  <2> QED
    BY <1>4, <1>6, <1>11, <2>1, <2>2, OneAnswer, FirstOfOne DEF list
<1>12. CASE ctx.offer = NoPrice /\ ctx.role = "buyer" /\ NextPrice(ctx) # NoPrice
  <2>1. list = <<b>>
    BY <1>7, <1>12
  <2>2. ValidCandidates(<<b>>)
    <3>1. Len(<<b>>) = 1 /\ <<b>>[1] = b
      OBVIOUS
    <3> QED
      BY <1>1, <1>8, <1>12, <3>1 DEF ValidCandidates, MAX_CANDIDATES
  <2> QED
    BY <1>3, <1>6, <1>12, <2>1, <2>2, OneAnswer, FirstOfOne DEF list
<1>13. list = <<>> \/ ctx.offer # NoPrice \/ (ctx.role = "buyer" /\ NextPrice(ctx) # NoPrice)
  BY <1>7
<1> QED
  BY <1>9, <1>10, <1>11, <1>12, <1>13

\* In every context the mock provider leads to the fallback's decision.
LEMMA MockAgrees ==
    ASSUME Types
    PROVE  MockMatchesFallback
<1>. SUFFICES ASSUME NEW role \in Roles
              PROVE  LET ctx == CurrentContext(role)
                         answers == <<MockCandidates(NormalizedContext(ctx, setup.offset))>>
                     IN  GenerateAllowedCandidate(Limit(role), ctx, setup.offset, answers)
                           = GenerateLocalFallbackCandidate(Limit(role), ctx, setup.offset)
  BY DEF MockMatchesFallback
<1>. DEFINE ctx == CurrentContext(role)
            n == NormalizedContext(ctx, setup.offset)
<1>1. ctx \in Ctx /\ setup.offset \in Int /\ Limit(role) - setup.offset \in Int
  BY LimitsAreIntegers DEF Types, CurrentContext, Context, Ctx, Limit, MAX_NEGOTIATION_ROUNDS
<1>2. CASE ~Normalizable(ctx, setup.offset)
  BY <1>2 DEF GenerateAllowedCandidate, GenerateLocalFallbackCandidate
<1>3. CASE Normalizable(ctx, setup.offset)
  <2>1. n \in Ctx /\ n.offer = IF ctx.offer = NoPrice THEN NoPrice ELSE ctx.offer - setup.offset
    BY <1>1, Normalized
  <2>2. n.offer = NoPrice \/ IsPrice(n.offer)
    BY <1>3, <2>1 DEF Normalizable
  <2>3. FromAnswers(Limit(role) - setup.offset, n, <<MockCandidates(n)>>)
          = FallbackInLadder(Limit(role) - setup.offset, n)
    BY <1>1, <2>1, <2>2, MockInLadder
  <2> QED
    BY <1>3, <2>3 DEF GenerateAllowedCandidate, GenerateLocalFallbackCandidate
<1> QED
  BY <1>2, <1>3

\* In every reachable context the mock provider leads to the decision the local
\* fallback takes: the ladder's price and the acceptance in the same cases, in
\* the same order, also where a rung is missing or the offset fails.
THEOREM MockIsFallback == Spec => []MockMatchesFallback
  BY TypesHold, MockAgrees, PTL

-----------------------------------------------------------------------------
(* The ladders meet. *)

\* The context of a decision can be normalized.
LEMMA OffsetFits ==
    ASSUME NEW reference \in Nat, NEW offset \in SessionPriceOffsets(reference)
    PROVE  /\ offset \in Int /\ offset % PRICE_INCREMENT_KRW = 0
           /\ 0 - MaxPrivateOffset(reference) <= offset /\ offset <= MaxPrivateOffset(reference)
<1>1. PICK most \in Nat : most = MaxPrivateOffset(reference)
  BY DEF MaxPrivateOffset, PRIVATE_OFFSET_BASIS_POINTS
<1>2. PICK steps \in Nat : steps = most \div 250
  BY <1>1
<1>3. PICK k \in (0 - steps)..steps : offset = k * 250
  BY <1>1, <1>2 DEF SessionPriceOffsets, PRICE_INCREMENT_KRW
<1>4. steps * 250 <= most
  BY <1>1, <1>2
<1> QED
  BY <1>1, <1>3, <1>4 DEF PRICE_INCREMENT_KRW

\* The reference price lies between its roundings, which are an increment apart.
LEMMA ReferenceRounded ==
    ASSUME NEW reference \in Nat,
           RoundDownToPriceIncrement(reference) # NoPrice, RoundUpToPriceIncrement(reference) # NoPrice
    PROVE  LET low == RoundDownToPriceIncrement(reference)
               high == RoundUpToPriceIncrement(reference)
           IN  /\ low \in Nat /\ high \in Nat /\ low % 250 = 0 /\ high % 250 = 0
               /\ 250 <= low /\ low <= reference /\ reference <= high
               /\ high <= low + 250 /\ high <= MaxKrw
  BY MaxKrwIsNat DEF RoundDownToPriceIncrement, RoundUpToPriceIncrement, InRange, NoPrice,
     PRICE_INCREMENT_KRW

\* In the sixth round both ladders are at the reference price.
LEMMA SixthRung ==
    ASSUME NEW reference \in Nat
    PROVE  /\ PublicLadderPrice("buyer", reference, 6) = RoundDownToPriceIncrement(reference)
           /\ PublicLadderPrice("seller", reference, 6) = RoundUpToPriceIncrement(reference)
<1>1. (reference * 10000) \div 10000 = reference
  OBVIOUS
<1> QED
  BY <1>1 DEF PublicLadderPrice, LADDER_STEP_BASIS_POINTS, BUYER_LADDER_START_BASIS_POINTS,
     SELLER_LADDER_START_BASIS_POINTS, MAX_NEGOTIATION_ROUNDS

\* The offset moves no price between the buyer's first rung and the reference
\* price out of the price range.
LEMMA ShiftedPrice ==
    ASSUME NEW reference \in Nat, NEW offset \in SessionPriceOffsets(reference), NEW p \in Nat,
           p % 250 = 0,
           PublicLadderPrice("buyer", reference, 1) # NoPrice,
           PublicLadderPrice("seller", reference, 1) # NoPrice,
           PublicLadderPrice("buyer", reference, 1) <= p,
           p < reference + 250
    PROVE  IsOfferPriceIncrementValid(p + offset)
<1>1. PICK first \in Nat : first = (reference * 9000) \div 10000
  OBVIOUS
<1>2. PICK last \in Nat : last = (reference * 11000) \div 10000
  OBVIOUS
<1>3. PICK most \in Nat : most = (reference * 300) \div 10000
  OBVIOUS
<1>4. /\ PublicLadderPrice("buyer", reference, 1) = RoundDownToPriceIncrement(first)
      /\ PublicLadderPrice("seller", reference, 1) = RoundUpToPriceIncrement(last)
  BY <1>1, <1>2 DEF PublicLadderPrice, LADDER_STEP_BASIS_POINTS, BUYER_LADDER_START_BASIS_POINTS,
     SELLER_LADDER_START_BASIS_POINTS, MAX_NEGOTIATION_ROUNDS
<1>5. /\ offset \in Int /\ offset % 250 = 0 /\ 0 - most <= offset /\ offset <= most
  BY <1>3, OffsetFits DEF MaxPrivateOffset, PRIVATE_OFFSET_BASIS_POINTS, PRICE_INCREMENT_KRW
<1>6. first >= 250 /\ first - 250 < p /\ p >= 250
  BY <1>4 DEF RoundDownToPriceIncrement, InRange, NoPrice, PRICE_INCREMENT_KRW
<1>7. \E top \in Nat : last <= top /\ top <= MaxKrw /\ top % 250 = 0
  BY <1>4, MaxKrwIsNat DEF RoundUpToPriceIncrement, InRange, NoPrice, PRICE_INCREMENT_KRW
<1>8. (p + offset) % 250 = 0 /\ p + offset \in Int
  BY <1>5
<1>9. 1 <= p + offset
  BY <1>1, <1>3, <1>5, <1>6
<1>10. p + offset <= MaxKrw
  <2>1. PICK top \in Nat : last <= top /\ top <= MaxKrw /\ top % 250 = 0
    BY <1>7
  <2>2. p + offset < last + 250
    BY <1>1, <1>2, <1>3, <1>5, <1>6
  <2>3. p + offset < top + 250
    BY <2>1, <2>2, <1>8
  <2>4. p + offset <= top
    BY <2>1, <2>3, <1>8
  <2> QED
    BY <2>1, <2>4, <1>8, MaxKrwIsNat
<1> QED
  BY <1>8, <1>9, <1>10 DEF IsOfferPriceIncrementValid, IsPrice, PRICE_INCREMENT_KRW

\* Without a provider every choice is the fallback's.
LEMMA ChoiceIsFallback ==
    ASSUME Types, ~setup.provider, NEW role \in Roles, NEW c \in Choices(role)
    PROVE  LET ctx == CurrentContext(role)
               target == PublicStrategyTarget(ctx)
           IN  /\ c = NoCandidate =>
                     GenerateLocalFallbackCandidate(Limit(role), ctx, setup.offset) = NoCandidate
               /\ c.action = "accept" =>
                     offer # NoPrice /\ target # NoPrice
                     /\ WithinLimit(role, target, offer - setup.offset)
<1>. DEFINE ctx == CurrentContext(role)
            offset == setup.offset
            limit == Limit(role)
            n == NormalizedContext(ctx, offset)
            a == [action |-> "accept", price |-> n.offer]
            generated == GenerateAllowedCandidate(limit, ctx, offset, <<<<a>>>>)
            fallback == GenerateLocalFallbackCandidate(limit, ctx, offset)
            target == PublicStrategyTarget(ctx)
<1>1. /\ ctx \in Ctx /\ ctx.role = role /\ ctx.offer = offer
      /\ limit \in Int /\ offset \in Int
  BY ChoiceAllowed DEF CurrentContext, Context
<1>2. Answers = {}
  BY DEF Answers
<1>3. c = DecideFor(limit, ctx, offset, <<<<a>>>>) \/ c = DecideFor(limit, ctx, offset, <<>>)
  BY <1>2 DEF Choices, Decisions
<1>4. c = fallback \/ (c = generated /\ generated # NoCandidate)
  BY <1>3, NothingGenerated DEF DecideFor
<1>5. /\ n \in Ctx /\ n.role = role
      /\ n.offer = IF offer = NoPrice THEN NoPrice ELSE offer - offset
  BY <1>1, Normalized
<1>6. a \in Cand /\ a.action = "accept" /\ a.price = n.offer
  BY <1>5 DEF Ctx, Cand, Actions
<1>7. ASSUME c.action = "accept"
      PROVE  Normalizable(ctx, offset) /\ \E d \in Cand : d.price = n.offer /\ d.action = "accept"
                                                  /\ StrategyAllows(limit - offset, n, d)
  <2>1. NoCandidate.action # "accept"
    BY DEF NoCandidate
  <2>2. CASE c = generated /\ generated # NoCandidate
    <3>1. Normalizable(ctx, offset)
      BY <2>2 DEF GenerateAllowedCandidate
    <3>2. FromAnswers(limit - offset, n, <<<<a>>>>) # NoCandidate
      BY <2>2, <3>1 DEF GenerateAllowedCandidate, RestorePrivatePrice
    <3>3. StrategyAllows(limit - offset, n, a)
      BY <3>2, OneAnswer, FirstOfOne
    <3> QED
      BY <1>6, <3>1, <3>3
  <2>3. CASE c = fallback
    <3>1. Normalizable(ctx, offset)
      BY <1>7, <2>1, <2>3 DEF GenerateLocalFallbackCandidate
    <3>2. PICK d : d = FallbackInLadder(limit - offset, n)
      OBVIOUS
    <3>3. d \in Cand /\ (d = NoCandidate \/ StrategyAllows(limit - offset, n, d))
          /\ (d.action = "accept" => d.price = n.offer)
      BY <1>5, <3>2, FallbackIsRung
    <3>4. c = RestorePrivatePrice(d, ctx, limit, offset)
      BY <2>3, <3>1, <3>2 DEF GenerateLocalFallbackCandidate
    <3>5. d # NoCandidate /\ d.action = "accept"
      BY <1>1, <1>7, <2>1, <3>3, <3>4, Restored
    <3> QED
      BY <3>1, <3>3, <3>5
  <2> QED
    BY <1>4, <2>2, <2>3
<1>8. ASSUME c.action = "accept"
      PROVE  offer # NoPrice /\ target # NoPrice /\ WithinLimit(role, target, offer - offset)
  <2>1. PICK d \in Cand : d.price = n.offer /\ d.action = "accept" /\ StrategyAllows(limit - offset, n, d)
    BY <1>7, <1>8
  <2>2. /\ n.offer # NoPrice
        /\ PublicStrategyTarget(n) # NoPrice /\ WithinLimit(role, PublicStrategyTarget(n), n.offer)
    BY <1>5, <2>1 DEF StrategyAllows, PolicyAllows
  <2>3. NextOfferRound(n) = NextOfferRound(ctx)
    BY <1>1, <1>7, <1>8, NextPriceNormalized
  <2>4. n.role = ctx.role /\ n.reference = ctx.reference
    BY <1>1, Normalized
  <2>5. PublicStrategyTarget(n) = target
    BY <2>3, <2>4 DEF PublicStrategyTarget
  <2> QED
    BY <1>5, <2>2, <2>5
<1>9. c = NoCandidate => fallback = NoCandidate
  BY <1>4
<1> QED
  BY <1>8, <1>9

\* The fallback accepts an offer the strategy guard lets it accept.
LEMMA FallbackAccepts ==
    ASSUME NEW limit \in Int, NEW ctx \in Ctx, NEW offset \in Int, Normalizable(ctx, offset),
           IsPrice(ctx.offer), PublicStrategyTarget(ctx) # NoPrice,
           WithinLimit(ctx.role, limit, ctx.offer),
           WithinLimit(ctx.role, PublicStrategyTarget(ctx), ctx.offer - offset)
    PROVE  GenerateLocalFallbackCandidate(limit, ctx, offset) # NoCandidate
<1>. DEFINE n == NormalizedContext(ctx, offset)
            a == [action |-> "accept", price |-> n.offer]
            accepted == [action |-> "accept", price |-> ctx.offer]
<1>1. ctx.offer \in Int /\ ctx.offer # NoPrice /\ ctx.role \in Roles
  BY DEF IsPrice, NoPrice, Ctx
<1>2. n \in Ctx /\ n.role = ctx.role /\ n.reference = ctx.reference /\ n.offer = ctx.offer - offset
  BY <1>1, Normalized
<1>3. IsPrice(n.offer) /\ n.offer # NoPrice
  BY <1>1, <1>2 DEF Normalizable, IsPrice, NoPrice
<1>4. PublicStrategyTarget(n) = PublicStrategyTarget(ctx)
  BY <1>2, NextPriceNormalized DEF PublicStrategyTarget
<1>5. StrategyAllows(limit - offset, n, a)
  <2>1. a.action = "accept" /\ a.price = n.offer
    OBVIOUS
  <2>2. WithinLimit(n.role, limit - offset, n.offer)
    BY <1>1, <1>2 DEF WithinLimit
  <2> QED
    BY <1>2, <1>3, <1>4, <2>1, <2>2 DEF StrategyAllows, PolicyAllows
<1>6. FallbackInLadder(limit - offset, n) = a
  BY <1>5 DEF FallbackInLadder
<1>7. a # NoCandidate /\ [a EXCEPT !.price = @ + offset] = accepted
  BY <1>1, <1>2 DEF NoCandidate
<1>8. PolicyAllows(limit, ctx, accepted)
  BY <1>1 DEF PolicyAllows
<1>9. RestorePrivatePrice(a, ctx, limit, offset) = accepted
  BY <1>7, <1>8 DEF RestorePrivatePrice
<1> QED
  BY <1>6, <1>9 DEF GenerateLocalFallbackCandidate, NoCandidate

\* The fallback finds something to say when its next rung is a price within the
\* limit, with the offset.
LEMMA FallbackSpeaks ==
    ASSUME NEW limit \in Int, NEW ctx \in Ctx, NEW offset \in Int, Normalizable(ctx, offset),
           ctx.offer = NoPrice \/ IsPrice(ctx.offer),
           ctx.offer = NoPrice => ctx.role = "buyer",
           NextPrice(ctx) # NoPrice,
           IsOfferPriceIncrementValid(NextPrice(ctx) + offset),
           WithinLimit(ctx.role, limit, NextPrice(ctx) + offset)
    PROVE  GenerateLocalFallbackCandidate(limit, ctx, offset) # NoCandidate
<1>. DEFINE n == NormalizedContext(ctx, offset)
            a == [action |-> "accept", price |-> n.offer]
            b == [action |-> "offer", price |-> NextPrice(ctx)]
            p == NextPrice(ctx)
<1>1. /\ n \in Ctx /\ n.role = ctx.role /\ n.role \in Roles
      /\ n.offer = IF ctx.offer = NoPrice THEN NoPrice ELSE ctx.offer - offset
  BY Normalized DEF Ctx
<1>2. NextPrice(n) = p /\ ((n.offer = NoPrice) <=> (ctx.offer = NoPrice))
  BY NextPriceNormalized
<1>3. p \in Int /\ IsOfferPriceIncrementValid(p)
  BY Rung DEF NextPrice, NoPrice, Ctx
<1>4. PublicStrategyTarget(n) = p
  BY <1>1, <1>2, TargetIsNextPrice
<1>5. StrategyAllows(limit - offset, n, b)
  <2>1. b.action = "offer" /\ b.price = p
    OBVIOUS
  <2>2. WithinLimit(n.role, limit - offset, p) /\ WithinLimit(n.role, p, p)
    BY <1>1, <1>3 DEF WithinLimit
  <2> QED
    BY <1>3, <1>4, <2>1, <2>2 DEF StrategyAllows, PolicyAllows, IsOfferPriceIncrementValid
<1>6. CASE StrategyAllows(limit - offset, n, a)
  <2>1. /\ n.offer # NoPrice /\ WithinLimit(n.role, limit - offset, n.offer)
        /\ WithinLimit(n.role, p, n.offer)
    BY <1>4, <1>6 DEF StrategyAllows, PolicyAllows
  <2>2. n.offer = ctx.offer - offset /\ ctx.offer # NoPrice /\ ctx.offer \in Int
    BY <1>1, <1>2, <2>1 DEF Ctx
  <2>3. WithinLimit(ctx.role, limit, ctx.offer)
    BY <1>1, <2>1, <2>2 DEF WithinLimit
  <2>4. PublicStrategyTarget(ctx) = p
    BY TargetIsNextPrice
  <2> QED
    BY <1>1, <2>1, <2>2, <2>3, <2>4, FallbackAccepts
<1>7. CASE ~StrategyAllows(limit - offset, n, a)
  <2>1. FallbackInLadder(limit - offset, n) = b
    <3>1. ~(n.offer = NoPrice /\ n.role = "seller")
      BY <1>1, <1>2
    <3> QED
      BY <1>2, <1>5, <1>7, <3>1 DEF FallbackInLadder, NextPrice
  <2>2. b # NoCandidate /\ [b EXCEPT !.price = @ + offset] = [action |-> "offer", price |-> p + offset]
    BY DEF NoCandidate
  <2>3. PolicyAllows(limit, ctx, [action |-> "offer", price |-> p + offset])
    BY DEF PolicyAllows, IsOfferPriceIncrementValid
  <2>4. RestorePrivatePrice(b, ctx, limit, offset) = [action |-> "offer", price |-> p + offset]
    BY <2>2, <2>3 DEF RestorePrivatePrice
  <2> QED
    BY <2>1, <2>4 DEF GenerateLocalFallbackCandidate, NoCandidate
<1> QED
  BY <1>6, <1>7

\* The offset is one the reference price allows.
OffsetAllowed == setup.offset \in SessionPriceOffsets(setup.reference)

\* The reference price, rounded either way.
Low == RoundDownToPriceIncrement(setup.reference)
High == RoundUpToPriceIncrement(setup.reference)

\* Without a provider, the ladders have met by round n, and the shifted
\* reference price fits both limits.
Agreeable(n) ==
    /\ ~setup.provider /\ MetBy(n)
    /\ setup.min <= Low + setup.offset /\ High + setup.offset <= setup.max

\* Until then neither party's ladder has passed the reference price: the buyer's
\* offers are rungs up to it, the seller's are rungs down to it, and no offer is
\* declined from the sixth round on.
Meeting ==
    \A n \in 6..MAX_NEGOTIATION_ROUNDS : Agreeable(n) =>
        /\ turn = "seller" =>
              /\ round <= n /\ BuyerRung(round) <= Low
              /\ offer = BuyerRung(round) + setup.offset /\ IsPrice(offer)
        /\ turn = "buyer" /\ offer = NoPrice => round <= 6
        /\ turn = "buyer" /\ offer # NoPrice =>
              /\ round < n /\ High <= SellerRung(round)
              /\ offer = SellerRung(round) + setup.offset /\ IsPrice(offer)
        /\ outcome # "CANCELLED"
        /\ outcome = "SETTLED" => Low + setup.offset <= price /\ price <= High + setup.offset

\* Multiples of the increment less than an increment apart are in order.
LEMMA IncrementsApart ==
    ASSUME NEW a \in Int, NEW b \in Int, a % 250 = 0, b % 250 = 0, a < b + 250
    PROVE  a <= b
<1>1. PICK i \in Int : a = i * 250
  OBVIOUS
<1>2. PICK j \in Int : b = j * 250
  OBVIOUS
<1> QED
  BY <1>1, <1>2

\* The rungs the negotiation uses, around the reference price.
LEMMA RungsAround ==
    ASSUME Types, NEW n \in 6..MAX_NEGOTIATION_ROUNDS, MetBy(n)
    PROVE  /\ n \in Nat /\ 6 <= n /\ n <= 10
           /\ Low \in Nat /\ High \in Nat /\ Low % 250 = 0 /\ High % 250 = 0
           /\ Low <= High /\ High <= Low + 250
           /\ Low <= setup.reference /\ High < setup.reference + 250
           /\ SellerRung(n) <= BuyerRung(n)
           /\ \A k \in 1..n :
                 /\ BuyerRung(k) \in Nat /\ BuyerRung(k) % 250 = 0 /\ BuyerRung(k) # NoPrice
                 /\ SellerRung(k) \in Nat /\ SellerRung(k) % 250 = 0 /\ SellerRung(k) # NoPrice
                 /\ IsPrice(BuyerRung(k)) /\ IsPrice(SellerRung(k))
                 /\ BuyerRung(1) <= BuyerRung(k)
                 /\ k <= 6 => BuyerRung(k) <= Low /\ High <= SellerRung(k)
                 /\ k >= 6 => Low <= BuyerRung(k) /\ SellerRung(k) <= High
<1>1. n \in Nat /\ 6 <= n /\ n <= 10 /\ setup.reference \in Nat
  BY DEF MAX_NEGOTIATION_ROUNDS, Types
<1>2. \A k \in 1..n : BuyerRung(k) # NoPrice /\ SellerRung(k) # NoPrice /\ k \in 1..MAX_NEGOTIATION_ROUNDS
  BY <1>1 DEF MetBy, Roles, BuyerRung, SellerRung, MAX_NEGOTIATION_ROUNDS
<1>3. BuyerRung(6) = Low /\ SellerRung(6) = High
  BY <1>1, SixthRung DEF BuyerRung, SellerRung, Low, High
<1>4. 6 \in 1..n /\ 1 \in 1..n
  BY <1>1
<1>5. ASSUME NEW k \in 1..n
      PROVE  /\ BuyerRung(k) \in Nat /\ BuyerRung(k) % 250 = 0 /\ BuyerRung(k) # NoPrice
             /\ SellerRung(k) \in Nat /\ SellerRung(k) % 250 = 0 /\ SellerRung(k) # NoPrice
             /\ IsPrice(BuyerRung(k)) /\ IsPrice(SellerRung(k))
  <2>1. /\ BuyerRung(k) \in Int /\ IsOfferPriceIncrementValid(BuyerRung(k))
        /\ SellerRung(k) \in Int /\ IsOfferPriceIncrementValid(SellerRung(k))
    BY <1>1, <1>2, Rung DEF BuyerRung, SellerRung
  <2> QED
    BY <1>2, <2>1 DEF IsOfferPriceIncrementValid, IsPrice, PRICE_INCREMENT_KRW
<1>6. ASSUME NEW j \in 1..n, NEW k \in 1..n, j <= k
      PROVE  BuyerRung(j) <= BuyerRung(k) /\ SellerRung(k) <= SellerRung(j)
  BY <1>1, <1>2, <1>6, RungsInOrder DEF BuyerRung, SellerRung
<1>7. Low # NoPrice /\ High # NoPrice
  BY <1>2, <1>3, <1>4
<1>8. /\ Low \in Nat /\ High \in Nat /\ Low % 250 = 0 /\ High % 250 = 0
      /\ Low <= setup.reference /\ setup.reference <= High /\ High <= Low + 250
  BY <1>1, <1>7, ReferenceRounded DEF Low, High
<1>9. High < setup.reference + 250
  BY <1>1, <1>7 DEF High, RoundUpToPriceIncrement, InRange, NoPrice, PRICE_INCREMENT_KRW
<1>10. SellerRung(n) <= BuyerRung(n)
  BY DEF MetBy, SellerRung, BuyerRung
<1>11. \A k \in 1..n : /\ BuyerRung(1) <= BuyerRung(k)
                       /\ k <= 6 => BuyerRung(k) <= Low /\ High <= SellerRung(k)
                       /\ k >= 6 => Low <= BuyerRung(k) /\ SellerRung(k) <= High
  BY <1>3, <1>4, <1>6
<1> QED
  BY <1>1, <1>5, <1>8, <1>9, <1>10, <1>11

\* A rung the parties offer is a price with the offset too.
LEMMA ShiftedRung ==
    ASSUME Types, OffsetAllowed, NEW n \in 6..MAX_NEGOTIATION_ROUNDS, MetBy(n),
           NEW p \in Nat, p % 250 = 0, BuyerRung(1) <= p, p <= High
    PROVE  IsOfferPriceIncrementValid(p + setup.offset)
<1>1. setup.reference \in Nat
  BY DEF Types
<1>2. n \in Nat /\ 6 <= n /\ High \in Nat /\ High < setup.reference + 250
  BY RungsAround
<1>3. 1 \in 1..n /\ p < setup.reference + 250
  BY <1>1, <1>2
<1>4. BuyerRung(1) # NoPrice /\ SellerRung(1) # NoPrice
  BY <1>3, RungsAround
<1> QED
  BY <1>1, <1>3, <1>4, ShiftedPrice DEF OffsetAllowed, BuyerRung, SellerRung

\* The context a party decides in, when the offer on the table is a shifted rung.
LEMMA DecidesFromRung ==
    ASSUME Types, OffsetAllowed, NEW role \in Roles,
           offer = NoPrice \/ IsPrice(offer - setup.offset)
    PROVE  LET ctx == CurrentContext(role)
               n == IF role = "buyer" THEN RoundAfter ELSE round
           IN  /\ ctx \in Ctx /\ ctx.role = role /\ ctx.offer = offer
               /\ Limit(role) \in Int /\ setup.offset \in Int
               /\ Normalizable(ctx, setup.offset)
               /\ NextPrice(ctx) = PublicLadderPrice(role, setup.reference, n)
               /\ n <= MAX_NEGOTIATION_ROUNDS =>
                     PublicStrategyTarget(ctx) = PublicLadderPrice(role, setup.reference, n)
<1>. DEFINE ctx == CurrentContext(role)
            n == IF role = "buyer" THEN RoundAfter ELSE round
<1>1. ctx \in Ctx /\ Limit(role) \in Int /\ setup.offset \in Int
  <2>1. CurrentContext(role) \in Ctx
    BY DEF Types, CurrentContext, Context, Ctx, MAX_NEGOTIATION_ROUNDS
  <2> QED
    BY <2>1, LimitsAreIntegers DEF Types, Limit
<1>2. /\ ctx.role = role /\ ctx.offer = offer
      /\ ctx.reference = setup.reference /\ ctx.round = round
  BY DEF CurrentContext, Context
<1>3. Normalizable(ctx, setup.offset)
  BY <1>2, OffsetFits DEF Types, OffsetAllowed, Normalizable, PRICE_INCREMENT_KRW
<1>4. NextOfferRound(ctx) = n
  BY <1>2 DEF NextOfferRound, RoundAfter
<1>5. n \in Int
  BY DEF Types, RoundAfter, MAX_NEGOTIATION_ROUNDS
<1>6. NextPrice(ctx) = PublicLadderPrice(role, setup.reference, n)
  BY <1>2, <1>4 DEF NextPrice
<1>7. n <= MAX_NEGOTIATION_ROUNDS =>
          PublicStrategyTarget(ctx) = PublicLadderPrice(role, setup.reference, n)
  BY <1>2, <1>4, <1>5 DEF PublicStrategyTarget, MAX_NEGOTIATION_ROUNDS
<1> QED
  BY <1>1, <1>2, <1>3, <1>6, <1>7

\* The part of the invariant one crossing round gives.
LEMMA MeetingOf ==
    ASSUME Meeting, NEW n \in 6..MAX_NEGOTIATION_ROUNDS, Agreeable(n)
    PROVE  /\ turn = "seller" =>
                 /\ round <= n /\ BuyerRung(round) <= Low
                 /\ offer = BuyerRung(round) + setup.offset /\ IsPrice(offer)
           /\ turn = "buyer" /\ offer = NoPrice => round <= 6
           /\ turn = "buyer" /\ offer # NoPrice =>
                 /\ round < n /\ High <= SellerRung(round)
                 /\ offer = SellerRung(round) + setup.offset /\ IsPrice(offer)
  BY DEF Meeting

\* The seller answers from the sixth round on, asks for no less than the
\* reference price before the ladders meet, and accepts it only.
LEMMA SellerMeets ==
    ASSUME Types, OffsetAllowed, Meeting, NEW n \in 6..MAX_NEGOTIATION_ROUNDS, Agreeable(n),
           turn = "seller", NEW c \in Choices("seller")
    PROVE  /\ c = NoCandidate => round < 6
           /\ c.action = "offer" =>
                 /\ round < n /\ High <= SellerRung(round)
                 /\ c.price = SellerRung(round) + setup.offset /\ IsPrice(c.price)
           /\ c.action = "accept" =>
                 Low + setup.offset <= offer /\ offer <= High + setup.offset
<1>. DEFINE ctx == CurrentContext("seller")
            b == BuyerRung(round)
            s == SellerRung(round)
            o == setup.offset
<1>1. /\ round <= n /\ b <= Low /\ offer = b + o /\ IsPrice(offer)
  BY MeetingOf
<1>2. MetBy(n) /\ ~setup.provider /\ setup.min <= Low + o /\ High + o <= setup.max
  BY DEF Agreeable
<1>3. round \in 1..n /\ round \in Nat /\ 1 \in 1..n
  BY <1>1, <1>2, RungsAround DEF Types, MAX_NEGOTIATION_ROUNDS
<1>4. /\ b \in Nat /\ b % 250 = 0 /\ s \in Nat /\ s % 250 = 0 /\ s # NoPrice
      /\ IsPrice(b) /\ BuyerRung(1) <= b /\ BuyerRung(1) \in Nat
      /\ round <= 6 => High <= s
      /\ round >= 6 => Low <= b /\ s <= High
  BY <1>2, <1>3, RungsAround
<1>5. /\ Low \in Nat /\ High \in Nat /\ Low % 250 = 0 /\ High % 250 = 0
      /\ Low <= High /\ High <= Low + 250 /\ SellerRung(n) <= BuyerRung(n)
  BY <1>2, RungsAround
<1>6. o \in Int /\ setup.min \in Int
  BY LimitsAreIntegers DEF Types
<1>7. offer # NoPrice /\ offer - o = b
  BY <1>1, <1>4, <1>6 DEF IsPrice, NoPrice
<1>8. /\ ctx \in Ctx /\ ctx.role = "seller" /\ ctx.offer = offer
      /\ Limit("seller") \in Int /\ o \in Int /\ Normalizable(ctx, o)
      /\ NextPrice(ctx) = s /\ PublicStrategyTarget(ctx) = s
  <2>1. round <= MAX_NEGOTIATION_ROUNDS
    BY DEF Types, MAX_NEGOTIATION_ROUNDS
  <2>2. offer = NoPrice \/ IsPrice(offer - setup.offset)
    BY <1>4, <1>7
  <2> QED
    BY <2>1, <2>2, DecidesFromRung DEF Roles, SellerRung
<1>9. Limit("seller") = setup.min
  BY DEF Limit
<1>10. b < s => (round >= 6 => High <= s)
  <2>1. ASSUME b < s, round >= 6
        PROVE  High <= s
    <3>1. High < s + 250
      BY <1>4, <1>5, <2>1
    <3> QED
      BY <1>4, <1>5, <3>1, IncrementsApart
  <2> QED
    BY <2>1
<1>11. ASSUME round >= 6
       PROVE  c # NoCandidate
  <2>1. CASE s <= b
    <3>1. WithinLimit("seller", Limit("seller"), offer) /\ WithinLimit("seller", s, offer - o)
      BY <1>1, <1>2, <1>4, <1>5, <1>6, <1>7, <1>9, <1>11, <2>1 DEF WithinLimit
    <3>2. GenerateLocalFallbackCandidate(Limit("seller"), ctx, o) # NoCandidate
      BY <1>1, <1>4, <1>8, <3>1, FallbackAccepts
    <3> QED
      BY <1>2, <3>2, ChoiceIsFallback DEF Roles
  <2>2. CASE b < s
    <3>1. s = High
      BY <1>4, <1>5, <1>10, <1>11, <2>2
    <3>2. IsOfferPriceIncrementValid(s + o)
      BY <1>2, <1>4, <1>5, <2>2, <3>1, ShiftedRung
    <3>3. WithinLimit("seller", Limit("seller"), s + o)
      BY <1>2, <1>4, <1>5, <1>6, <1>9, <3>1 DEF WithinLimit
    <3>4. GenerateLocalFallbackCandidate(Limit("seller"), ctx, o) # NoCandidate
      BY <1>1, <1>4, <1>7, <1>8, <3>2, <3>3, FallbackSpeaks
    <3> QED
      BY <1>2, <3>4, ChoiceIsFallback DEF Roles
  <2> QED
    BY <1>4, <2>1, <2>2
<1>12. ASSUME c.action = "offer"
       PROVE  /\ round < n /\ High <= s /\ c.price = s + o /\ IsPrice(c.price)
  <2>1. c.price = s + o /\ IsPrice(c.price) /\ c.price > offer
    BY <1>2, <1>7, <1>12, OfferedRung DEF Roles, SellerRung
  <2>2. b < s
    BY <1>1, <1>4, <1>6, <2>1
  <2>3. round # n
    BY <1>4, <1>5, <2>2
  <2> QED
    BY <1>1, <1>3, <1>4, <1>10, <2>1, <2>2, <2>3
<1>13. ASSUME c.action = "accept"
       PROVE  Low + o <= offer /\ offer <= High + o
  <2>1. WithinLimit("seller", s, offer - o)
    BY <1>2, <1>8, <1>13, ChoiceIsFallback DEF Roles
  <2>2. s <= b
    BY <1>4, <1>7, <2>1 DEF WithinLimit
  <2> QED
    BY <1>1, <1>3, <1>4, <1>5, <1>6, <2>2
<1> QED
  BY <1>3, <1>11, <1>12, <1>13

\* The buyer always answers, offers a rung up to the reference price of a round
\* before the ladders cross, and accepts the reference price only.
LEMMA BuyerMeets ==
    ASSUME Types, OffsetAllowed, Meeting, NEW n \in 6..MAX_NEGOTIATION_ROUNDS, Agreeable(n),
           turn = "buyer", NEW c \in Choices("buyer")
    PROVE  /\ c # NoCandidate
           /\ c.action = "offer" =>
                 /\ RoundAfter <= n /\ BuyerRung(RoundAfter) <= Low
                 /\ c.price = BuyerRung(RoundAfter) + setup.offset /\ IsPrice(c.price)
           /\ c.action = "accept" =>
                 Low + setup.offset <= offer /\ offer <= High + setup.offset
<1>. DEFINE ctx == CurrentContext("buyer")
            k == RoundAfter
            b == BuyerRung(k)
            s == SellerRung(round)
            o == setup.offset
<1>1. /\ offer = NoPrice => round <= 6
      /\ offer # NoPrice => /\ round < n /\ High <= s /\ offer = s + o /\ IsPrice(offer)
  BY MeetingOf
<1>2. MetBy(n) /\ ~setup.provider /\ setup.min <= Low + o /\ High + o <= setup.max
  BY DEF Agreeable
<1>3. /\ Low \in Nat /\ High \in Nat /\ Low % 250 = 0 /\ High % 250 = 0
      /\ Low <= High /\ High <= Low + 250 /\ n \in Nat /\ 6 <= n /\ n <= 10
  BY <1>2, RungsAround
<1>4. /\ round \in 1..n /\ k \in 1..n /\ k \in Nat
      /\ offer = NoPrice => k <= 6
      /\ offer # NoPrice => k = round + 1
  BY <1>1, <1>3 DEF Types, RoundAfter, MAX_NEGOTIATION_ROUNDS
<1>5. /\ b \in Nat /\ b % 250 = 0 /\ b # NoPrice /\ BuyerRung(1) <= b
      /\ k <= 6 => b <= Low
      /\ s \in Nat /\ s % 250 = 0 /\ IsPrice(s)
      /\ round >= 6 => s <= High
  BY <1>2, <1>4, RungsAround
<1>6. o \in Int /\ setup.max \in Int
  BY LimitsAreIntegers DEF Types
<1>7. offer # NoPrice => offer - o = s
  BY <1>1, <1>5, <1>6
<1>8. /\ ctx \in Ctx /\ ctx.role = "buyer" /\ ctx.offer = offer
      /\ Limit("buyer") \in Int /\ o \in Int /\ Normalizable(ctx, o)
      /\ NextPrice(ctx) = b /\ PublicStrategyTarget(ctx) = b
  <2>1. k <= MAX_NEGOTIATION_ROUNDS
    BY <1>3, <1>4 DEF MAX_NEGOTIATION_ROUNDS
  <2>2. offer = NoPrice \/ IsPrice(offer - setup.offset)
    BY <1>5, <1>7
  <2> QED
    BY <2>1, <2>2, DecidesFromRung DEF Roles, BuyerRung
<1>9. Limit("buyer") = setup.max
  BY DEF Limit
<1>10. offer # NoPrice /\ s <= b => s <= High
  BY <1>3, <1>4, <1>5
<1>11. offer = NoPrice \/ b < s => b <= Low
  <2>1. ASSUME offer # NoPrice, b < s, k > 6
        PROVE  b <= Low
    <3>1. b < Low + 250
      BY <1>3, <1>4, <1>5, <2>1
    <3> QED
      BY <1>3, <1>5, <3>1, IncrementsApart
  <2> QED
    BY <1>4, <1>5, <2>1
<1>12. c # NoCandidate
  <2>1. CASE offer # NoPrice /\ s <= b
    <3>1. WithinLimit("buyer", Limit("buyer"), offer) /\ WithinLimit("buyer", b, offer - o)
      BY <1>1, <1>2, <1>3, <1>5, <1>6, <1>7, <1>9, <1>10, <2>1 DEF WithinLimit
    <3>2. GenerateLocalFallbackCandidate(Limit("buyer"), ctx, o) # NoCandidate
      BY <1>1, <1>5, <1>8, <2>1, <3>1, FallbackAccepts
    <3> QED
      BY <1>2, <3>2, ChoiceIsFallback DEF Roles
  <2>2. CASE offer = NoPrice \/ b < s
    <3>1. b <= Low
      BY <1>11, <2>2
    <3>2. IsOfferPriceIncrementValid(b + o)
      BY <1>2, <1>3, <1>5, <3>1, ShiftedRung
    <3>3. WithinLimit("buyer", Limit("buyer"), b + o)
      BY <1>2, <1>3, <1>5, <1>6, <1>9, <3>1 DEF WithinLimit
    <3>4. GenerateLocalFallbackCandidate(Limit("buyer"), ctx, o) # NoCandidate
      BY <1>1, <1>5, <1>8, <3>2, <3>3, FallbackSpeaks
    <3> QED
      BY <1>2, <3>4, ChoiceIsFallback DEF Roles
  <2> QED
    BY <1>5, <2>1, <2>2
<1>13. ASSUME c.action = "offer"
       PROVE  k <= n /\ b <= Low /\ c.price = b + o /\ IsPrice(c.price)
  <2>1. c.price = b + o /\ IsPrice(c.price) /\ (offer # NoPrice => c.price < offer)
    BY <1>2, <1>13, OfferedRung DEF Roles, BuyerRung
  <2>2. offer = NoPrice \/ b < s
    BY <1>1, <1>5, <1>6, <2>1
  <2> QED
    BY <1>3, <1>4, <1>11, <2>1, <2>2
<1>14. ASSUME c.action = "accept"
       PROVE  Low + o <= offer /\ offer <= High + o
  <2>1. offer # NoPrice /\ WithinLimit("buyer", b, offer - o)
    BY <1>2, <1>8, <1>14, ChoiceIsFallback DEF Roles
  <2>2. s <= b
    BY <1>7, <2>1 DEF WithinLimit
  <2>3. s = High /\ offer = s + o
    BY <1>1, <1>3, <1>5, <1>10, <2>1, <2>2
  <2> QED
    BY <1>3, <1>6, <2>3
<1> QED
  BY <1>12, <1>13, <1>14

\* Who agrees and where depends on the session alone.
LEMMA SessionFixed ==
    ASSUME UNCHANGED setup
    PROVE  /\ Low' = Low /\ High' = High /\ OffsetAllowed' = OffsetAllowed
           /\ \A n : Agreeable(n)' = Agreeable(n)
           /\ \A k : BuyerRung(k)' = BuyerRung(k) /\ SellerRung(k)' = SellerRung(k)
  BY DEF Low, High, OffsetAllowed, Agreeable, MetBy, BuyerRung, SellerRung

\* The invariant of the meeting ladders holds at the start ...
LEMMA InitMeeting == Init => OffsetAllowed /\ Meeting
<1>. SUFFICES ASSUME Init
              PROVE  OffsetAllowed /\ Meeting
  OBVIOUS
<1>1. PICK r \in Nat, b \in BOOLEAN :
          setup \in [reference : {r}, offset : SessionPriceOffsets(r), max : BuyerLimits,
                     min : SellerLimits, provider : {b}]
  BY PricesAreNatural DEF Init, Setups, SetupsOf
<1>2. OffsetAllowed
  BY <1>1 DEF OffsetAllowed
<1>3. Meeting
  BY DEF Init, Meeting
<1> QED
  BY <1>2, <1>3

\* ... and is kept by every move.
LEMMA NextMeeting ==
    ASSUME Types, OffsetAllowed, Meeting, [Next]_vars
    PROVE  OffsetAllowed' /\ Meeting'
<1>1. UNCHANGED setup
  BY DEF Next, Accept, BuyerOffer, BuyerStops, SellerOffer, SellerDeclines, Finished, Finish, vars
<1>2. OffsetAllowed'
  BY <1>1, SessionFixed
<1>3. ASSUME NEW n \in 6..MAX_NEGOTIATION_ROUNDS, Agreeable(n)
      PROVE  /\ turn' = "seller" =>
                   /\ round' <= n /\ BuyerRung(round') <= Low
                   /\ offer' = BuyerRung(round') + setup.offset /\ IsPrice(offer')
             /\ turn' = "buyer" /\ offer' = NoPrice => round' <= 6
             /\ turn' = "buyer" /\ offer' # NoPrice =>
                   /\ round' < n /\ High <= SellerRung(round')
                   /\ offer' = SellerRung(round') + setup.offset /\ IsPrice(offer')
             /\ outcome' # "CANCELLED"
             /\ outcome' = "SETTLED" => Low + setup.offset <= price' /\ price' <= High + setup.offset
  <2>. DEFINE agreed(result, p) ==
                 /\ result # "CANCELLED"
                 /\ result = "SETTLED" => Low + setup.offset <= p /\ p <= High + setup.offset
  <2>1. agreed(outcome, price)
    BY <1>3 DEF Meeting
  <2>2. n \in Nat /\ n <= MAX_NEGOTIATION_ROUNDS /\ 6 <= n
    BY DEF MAX_NEGOTIATION_ROUNDS
  <2>3. CASE Accept
    <3>1. turn \in Roles /\ Finish("SETTLED", offer)
      BY <2>3, AcceptsOffer
    <3>2. PICK c \in Choices(turn) : c.action = "accept"
      BY <2>3 DEF Accept
    <3>3. Low + setup.offset <= offer /\ offer <= High + setup.offset
      BY <1>3, <3>1, <3>2, BuyerMeets, SellerMeets DEF Roles
    <3> QED
      BY <3>1, <3>3 DEF Finish
  <2>4. CASE BuyerOffer
    <3>1. PICK c \in Choices("buyer") :
              /\ c.action = "offer"
              /\ IF RoundAfter > MAX_NEGOTIATION_ROUNDS
                 THEN Finish("CANCELLED", NoPrice)
                 ELSE /\ turn' = "seller" /\ round' = RoundAfter
                      /\ offer' = c.price /\ bid' = c.price
                      /\ UNCHANGED <<setup, ask, outcome, price>>
      BY <2>4 DEF BuyerOffer
    <3>2. /\ RoundAfter <= n /\ BuyerRung(RoundAfter) <= Low
          /\ c.price = BuyerRung(RoundAfter) + setup.offset /\ IsPrice(c.price)
      BY <1>3, <2>4, <3>1, BuyerMeets DEF BuyerOffer
    <3>3. RoundAfter \in Int
      BY DEF Types, RoundAfter, MAX_NEGOTIATION_ROUNDS
    <3>4. ~(RoundAfter > MAX_NEGOTIATION_ROUNDS)
      BY <2>2, <3>2, <3>3 DEF MAX_NEGOTIATION_ROUNDS
    <3> QED
      BY <2>1, <3>1, <3>2, <3>4
  <2>5. CASE BuyerStops
    BY <1>3, <2>5, BuyerMeets DEF BuyerStops
  <2>6. CASE SellerOffer
    <3>1. PICK c \in Choices("seller") :
              /\ c.action = "offer" /\ turn' = "buyer" /\ offer' = c.price
              /\ UNCHANGED <<setup, round, bid, outcome, price>>
      BY <2>6 DEF SellerOffer
    <3>2. /\ round < n /\ High <= SellerRung(round)
          /\ c.price = SellerRung(round) + setup.offset /\ IsPrice(c.price)
      BY <1>3, <2>6, <3>1, SellerMeets DEF SellerOffer
    <3>3. offer' # NoPrice
      BY <3>1, <3>2 DEF IsPrice, NoPrice
    <3> QED
      BY <2>1, <3>1, <3>2, <3>3
  <2>7. CASE SellerDeclines
    <3>1. round < 6 /\ round \in Int
      BY <1>3, <2>7, SellerMeets DEF SellerDeclines, Types, MAX_NEGOTIATION_ROUNDS
    <3>2. /\ turn' = "buyer" /\ round' = round + 1 /\ offer' = NoPrice
          /\ UNCHANGED <<setup, bid, ask, outcome, price>>
      BY <2>7, <3>1 DEF SellerDeclines, MAX_NEGOTIATION_ROUNDS
    <3> QED
      BY <2>1, <3>1, <3>2
  <2>8. CASE Finished \/ UNCHANGED vars
    <3>1. UNCHANGED vars
      BY <2>8 DEF Finished
    <3> QED
      BY <1>3, <2>1, <3>1, MeetingOf DEF vars
  <2> QED
    BY <2>3, <2>4, <2>5, <2>6, <2>7, <2>8 DEF Next
<1>4. Meeting'
  BY <1>1, <1>3, SessionFixed DEF Meeting
<1> QED
  BY <1>2, <1>4

\* Without a provider, two agents whose ladders cross within the ten rounds and
\* whose limits leave room for the shifted reference price always agree, and
\* agree at that price up to the rounding, for every reference price, offset and
\* pair of limits.
THEOREM LaddersMeet == Spec => []MeetsAtShiftedReference
<1>1. Spec => [](Types /\ OffsetAllowed /\ Meeting)
  BY InitTypes, InitMeeting, NextTypes, NextMeeting, PTL DEF Spec
<1>2. Types /\ OffsetAllowed /\ Meeting => MeetsAtShiftedReference
  BY DEF Meeting, MeetsAtShiftedReference, LaddersCross, Agreeable, Shifted, Low, High
<1> QED
  BY <1>1, <1>2, PTL
=============================================================================
