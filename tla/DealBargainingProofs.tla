------------------------ MODULE DealBargainingProofs ------------------------
(***************************************************************************)
(* Theorems about the two abstract specifications of a session: the deal   *)
(* contract, for every set of deal identifiers, secrets and blinding       *)
(* values and for every width of the price type; and the bargaining, for   *)
(* any prices, limits and number of rounds, where every offer and every    *)
(* agreement lies within the limits it has to respect.                     *)
(***************************************************************************)
EXTENDS Deal, Bargaining, TLAPS

-----------------------------------------------------------------------------
(* The deal contract. *)


\* The inductive invariant holds for every constructor call.
LEMMA ConstructorInv == DealInit => DealInv
BY DEF DealInit, Constructor, DealInv, DealTypeOK, LedgerMatchesStatus, SettledWithinLimits,
       DealStatus, LimitCommitments, Empty

\* The price commitment of a price and a blinding value is of its type.
LEMMA PriceCommitmentType ==
    ASSUME DealTypeOK, NEW p \in Price, NEW r \in Randomness
    PROVE  PriceCommitmentFor(p, r) \in PriceCommitments
BY DEF DealTypeOK, PriceCommitmentFor, PriceCommitments

\* The limit commitment under a key of this deal is of its type.
LEMMA LimitCommitmentType ==
    ASSUME DealTypeOK, NEW d \in {BuyerDomain, SellerDomain}, NEW k \in Keys,
           NEW l \in Price, NEW r \in Randomness
    PROVE  LimitCommitment(d, k, l, r) \in LimitCommitments
BY DEF DealTypeOK, LimitCommitment, LimitCommitments

\* Collision resistance of the price commitment: a commitment of this deal
\* opens to one price only.
LEMMA PriceCommitmentBinding ==
    ASSUME NEW p, NEW q, NEW r, NEW t, PriceCommitmentFor(p, r) = PriceCommitmentFor(q, t)
    PROVE  p = q
BY DEF PriceCommitmentFor, PriceCommitmentOf

\* No commitment is the empty ledger field.
LEMMA CommitmentsNotEmpty ==
    /\ \A p, r : PriceCommitmentFor(p, r) # Empty
    /\ \A d, k, l, r : LimitCommitment(d, k, l, r) # Empty
BY DEF PriceCommitmentFor, PriceCommitmentOf, LimitCommitment, LimitCommitmentFor, Empty

\* Every circuit call, by any caller, preserves the inductive invariant.
LEMMA DealStep == DealInv /\ [DealNext]_dealVars => DealInv'
<1> SUFFICES ASSUME DealInv, [DealNext]_dealVars PROVE DealInv'
    OBVIOUS
<1> USE DEF DealInv
<1>1. ASSUME NEW ps \in PrivateState, JoinDeal(ps) PROVE DealInv'
  <2>1. ps.limit \in Price /\ ps.limitRandomness \in Randomness
    BY <1>1 DEF PrivateState, BuyerPrivateState, SellerPrivateState
  <2>2. DealTypeOK'
    BY <1>1, <2>1, LimitCommitmentType DEF JoinDeal, DealTypeOK, DealStatus, sealedVars
  <2>3. LedgerMatchesStatus'
    BY <1>1, <2>1 DEF JoinDeal, LedgerMatchesStatus, LimitCommitment, sealedVars
  <2>4. SettledWithinLimits'
    BY <1>1 DEF JoinDeal, SettledWithinLimits
  <2> QED BY <2>2, <2>3, <2>4
<1>2. ASSUME NEW ps \in PrivateState, AuthorizeHiddenPrice(ps) PROVE DealInv'
  <2> DEFINE p == ps.opening[1].price
             q == ps.opening[1].randomness
  <2>1. /\ ps.limit \in Price /\ ps.limitRandomness \in Randomness
        /\ p \in Price /\ q \in Randomness
    BY <1>2 DEF AuthorizeHiddenPrice, RequireBuyer, PrivateState, BuyerPrivateState,
                SellerPrivateState, Openings
  <2>2. DealTypeOK'
    BY <1>2, <2>1, PriceCommitmentType
    DEF AuthorizeHiddenPrice, DealTypeOK, DealStatus, sealedVars
  <2>3. BuyerBacked(p)'
    BY <1>2, <2>1
    DEF AuthorizeHiddenPrice, PriceWithinMaximum, BuyerBacked, LimitCommitment,
        PriceCommitmentFor, sealedVars
  <2>4. LedgerMatchesStatus'
    <3>1. \E l \in Price, r \in Randomness :
             sellerCommitment = LimitCommitment(SellerDomain, sellerKey, l, r)
      BY <1>2 DEF AuthorizeHiddenPrice, MayAuthorize, LedgerMatchesStatus
    <3>2. (\E l \in Price, r \in Randomness :
             sellerCommitment = LimitCommitment(SellerDomain, sellerKey, l, r))'
      BY <1>2, <3>1 DEF AuthorizeHiddenPrice, LimitCommitment, sealedVars
    <3>3. status' = "AUTHORIZED"
      BY <1>2 DEF AuthorizeHiddenPrice
    <3> QED BY <2>1, <2>3, <3>2, <3>3 DEF LedgerMatchesStatus
  <2>5. SettledWithinLimits'
    BY <1>2 DEF AuthorizeHiddenPrice, SettledWithinLimits
  <2> QED BY <2>2, <2>4, <2>5
<1>3. ASSUME NEW ps \in PrivateState, Settle(ps) PROVE DealInv'
  <2> DEFINE p == ps.opening[1].price
             q == ps.opening[1].randomness
  <2>1. /\ ps.limit \in Price /\ ps.limitRandomness \in Randomness
        /\ p \in Price /\ q \in Randomness
    BY <1>3 DEF Settle, RequirePriceOpening, PrivateState, BuyerPrivateState,
                SellerPrivateState, Openings
  <2>2. DealTypeOK'
    BY <1>3 DEF Settle, DealTypeOK, DealStatus, sealedVars
  <2>3. UNCHANGED <<sealedVars, sellerCommitment, priceCommitment>>
    BY <1>3 DEF Settle
  <2>4. PICK b \in Price : BuyerBacked(b)
    BY <1>3 DEF Settle, LedgerMatchesStatus
  <2>5. b = p
    <3>1. PICK t \in Randomness : priceCommitment = PriceCommitmentFor(b, t)
      BY <2>4 DEF BuyerBacked
    <3>2. priceCommitment = PriceCommitmentFor(p, q)
      BY <1>3 DEF Settle
    <3> QED BY <3>1, <3>2, PriceCommitmentBinding
  <2>6. BuyerBacked(p)'
    BY <2>3, <2>4, <2>5 DEF BuyerBacked, LimitCommitment, PriceCommitmentFor, sealedVars
  <2>7. SellerBacked(p)'
    BY <1>3, <2>1, <2>3 DEF Settle, SellerBacked, LimitCommitment, sealedVars
  <2>8. SettledWithinLimits'
    BY <2>1, <2>6, <2>7 DEF SettledWithinLimits
  <2>9. LedgerMatchesStatus'
    <3>1. status' = "SETTLED"
      BY <1>3 DEF Settle
    <3> QED BY <2>1, <2>6, <2>7, <3>1 DEF LedgerMatchesStatus, SellerBacked
  <2> QED BY <2>2, <2>8, <2>9
<1>4. ASSUME NEW ps \in PrivateState, CancelAsBuyer(ps) \/ CancelAsSeller(ps) PROVE DealInv'
  <2>1. status' = "CANCELLED" /\ UNCHANGED <<sealedVars, sellerCommitment, priceCommitment>>
    BY <1>4 DEF CancelAsBuyer, CancelAsSeller
  <2> QED BY <2>1 DEF DealTypeOK, LedgerMatchesStatus, SettledWithinLimits, DealStatus, sealedVars
<1>5. ASSUME UNCHANGED dealVars PROVE DealInv'
  BY <1>5 DEF dealVars, sealedVars, DealTypeOK, LedgerMatchesStatus, SettledWithinLimits,
              BuyerBacked, SellerBacked, LimitCommitment, PriceCommitmentFor
<1> QED BY <1>1, <1>2, <1>3, <1>4, <1>5 DEF DealNext

\* The inductive invariant holds in every reachable ledger state.
THEOREM DealInvariant == DealSpec => []DealInv
BY ConstructorInv, DealStep, PTL DEF DealSpec

\* Type correctness of the ledger.
THEOREM DealTypeCorrect == DealSpec => []DealTypeOK
<1>1. DealInv => DealTypeOK
  BY DEF DealInv
<1> QED BY <1>1, DealInvariant, PTL

\* A settled deal is about one price within both committed limits, whoever
\* called the circuits, in whichever order, with whichever private states.
THEOREM SettlementSafe == DealSpec => []SettledWithinLimits
<1>1. DealInv => SettledWithinLimits
  BY DEF DealInv
<1> QED BY <1>1, DealInvariant, PTL

\* No circuit call swaps a commitment or reopens a deal that ended.
THEOREM CommitmentsAreBinding == DealSpec => CommitmentsBind
<1> DEFINE Bind ==
       /\ sellerCommitment # Empty => sellerCommitment' = sellerCommitment
       /\ priceCommitment # Empty => priceCommitment' = priceCommitment
       /\ status \in {"SETTLED", "CANCELLED"} => status' = status
<1>1. DealInv /\ [DealNext]_dealVars => [Bind]_dealVars
  <2> SUFFICES ASSUME DealInv, NEW ps \in PrivateState,
                      \/ JoinDeal(ps) \/ AuthorizeHiddenPrice(ps) \/ Settle(ps)
                      \/ CancelAsBuyer(ps) \/ CancelAsSeller(ps)
               PROVE  Bind
    BY DEF DealNext
  <2> QED BY DEF DealInv, LedgerMatchesStatus, JoinDeal, AuthorizeHiddenPrice, MayAuthorize,
                 Settle, CancelAsBuyer, CancelAsSeller
<1> QED BY <1>1, DealInvariant, PTL DEF DealSpec, CommitmentsBind

-----------------------------------------------------------------------------
(* The bargaining. *)


\* The offer on the table is within the limit of the party that made it, which
\* is the one that does not move.  Without it LimitsRespected is not inductive:
\* who accepts checks only its own limit.
OfferWithinLimit ==
    offer # NoPrice =>
        /\ turn = "seller" => offer <= max
        /\ turn = "buyer" => min <= offer

BargainInv == TypeOK /\ LimitsRespected /\ OfferWithinLimit

\* The inductive invariant of the bargaining holds before the first offer ...
LEMMA BargainInit == Init => BargainInv
<1>1. SUFFICES ASSUME Init PROVE BargainInv
  OBVIOUS
<1>2. TypeOK
  BY <1>1, MaxRoundsIsPositive DEF Init, TypeOK, NoPrice
<1>3. LimitsRespected /\ OfferWithinLimit
  BY <1>1 DEF Init, LimitsRespected, OfferWithinLimit, NoPrice
<1> QED
  BY <1>2, <1>3 DEF BargainInv

\* The outcome of Accept and of the moves that give up.
LEMMA FinishKeepsInv ==
    ASSUME BargainInv,
           NEW result \in {"SETTLED", "CANCELLED"}, NEW p \in Prices \cup {NoPrice},
           result = "SETTLED" => p \in Prices /\ min <= p /\ p <= max,
           Finish(result, p)
    PROVE  BargainInv'
<1>1. TypeOK'
  BY DEF BargainInv, TypeOK, Finish, limits
<1>2. LimitsRespected'
  BY DEF BargainInv, LimitsRespected, Finish, limits
<1>3. OfferWithinLimit'
  BY DEF Finish, OfferWithinLimit
<1> QED
  BY <1>1, <1>2, <1>3 DEF BargainInv

\* ... and is kept by every move.
LEMMA BargainStep == BargainInv /\ [Next]_bargainVars => BargainInv'
<1> SUFFICES ASSUME BargainInv, [Next]_bargainVars PROVE BargainInv'
  OBVIOUS
<1> USE DEF BargainInv
<1>1. CASE Accept
  <2>1. offer \in Prices /\ min <= offer /\ offer <= max
    BY <1>1 DEF Accept, TypeOK, OfferWithinLimit, WithinLimit
  <2>2. Finish("SETTLED", offer)
    BY <1>1 DEF Accept
  <2> QED
    BY <2>1, <2>2, FinishKeepsInv
<1>2. ASSUME NEW p \in Prices, BuyerOffer(p) PROVE BargainInv'
  <2>1. p \in Int /\ p # NoPrice
    BY PricesArePositive DEF NoPrice
  <2>2. OfferRound \in 1..MaxRounds
    BY <1>2, MaxRoundsIsPositive DEF BuyerOffer, OfferRound, TypeOK
  <2>3. TypeOK'
    BY <1>2, <2>2 DEF BuyerOffer, TypeOK, limits
  <2>4. LimitsRespected' /\ OfferWithinLimit'
    BY <1>2, <2>1 DEF BuyerOffer, LimitsRespected, OfferWithinLimit, WithinLimit, limits
  <2> QED
    BY <2>3, <2>4
<1>3. ASSUME NEW p \in Prices, SellerOffer(p) PROVE BargainInv'
  <2>1. p \in Int /\ p # NoPrice
    BY PricesArePositive DEF NoPrice
  <2>2. TypeOK'
    BY <1>3 DEF SellerOffer, TypeOK, limits
  <2>3. LimitsRespected' /\ OfferWithinLimit'
    BY <1>3, <2>1 DEF SellerOffer, LimitsRespected, OfferWithinLimit, WithinLimit, limits
  <2> QED
    BY <2>2, <2>3
<1>4. CASE BuyerStops
  BY <1>4, FinishKeepsInv DEF BuyerStops, NoPrice
<1>5. CASE SellerDeclines
  <2>1. round + 1 \in 1..MaxRounds
    BY <1>5, MaxRoundsIsPositive DEF SellerDeclines, RoundsLeft, TypeOK
  <2>2. TypeOK'
    BY <1>5, <2>1 DEF SellerDeclines, TypeOK, limits
  <2>3. LimitsRespected' /\ OfferWithinLimit'
    BY <1>5 DEF SellerDeclines, LimitsRespected, OfferWithinLimit, limits
  <2> QED
    BY <2>2, <2>3
<1>6. CASE LastDecline
  BY <1>6, FinishKeepsInv DEF LastDecline, NoPrice
<1>7. CASE UNCHANGED bargainVars
  BY <1>7 DEF bargainVars, limits, TypeOK, LimitsRespected, OfferWithinLimit
<1> QED
  BY <1>1, <1>2, <1>3, <1>4, <1>5, <1>6, <1>7 DEF Next

\* Every reachable state of a negotiation satisfies the invariant.
THEOREM BargainInvariant == Spec => []BargainInv
<1>1. Init => BargainInv
  BY BargainInit
<1>2. BargainInv /\ [Next]_bargainVars => BargainInv'
  BY BargainStep
<1> QED
  BY <1>1, <1>2, PTL DEF Spec

\* Every variable keeps its type, and no round is played after the last.
THEOREM BargainTypeCorrect == Spec => []TypeOK
<1>1. BargainInv => TypeOK
  BY DEF BargainInv
<1> QED
  BY <1>1, BargainInvariant, PTL

\* No party ever sends an offer beyond its limit, and a SETTLED price lies within
\* both limits, for every set of prices, limits and number of rounds.
THEOREM LimitsAlwaysRespected == Spec => []LimitsRespected
<1>1. BargainInv => LimitsRespected
  BY DEF BargainInv
<1> QED
  BY <1>1, BargainInvariant, PTL
=============================================================================
