-------------------------------- MODULE Deal --------------------------------
(***************************************************************************)
(* The on-chain deal contract (negotiation.compact) together with the      *)
(* witnesses its circuits read from the caller's private state             *)
(* (witnesses.ts).                                                         *)
(*                                                                         *)
(* One instance of the module is one deployed contract.  A circuit call is *)
(* one atomic step: the ledger re-validates every value a proof has read   *)
(* before it applies the transcript, so a call that raced another one and  *)
(* no longer satisfies its assertions has no effect.                       *)
(*                                                                         *)
(* persistentHash is modelled as a free constructor: the hash of a vector  *)
(* is the vector.  Vectors of different domains are different tuples, so   *)
(* collision resistance is the injectivity of tuples.                      *)
(***************************************************************************)
EXTENDS Naturals

CONSTANTS
    DealIds,      \* the identifiers a deployer may pick
    Secrets,      \* the 32-byte secret keys in the world
    Randomness,   \* the 32-byte blinding values in the world
    MaxPrice      \* the largest Uint<64> price

ASSUME MaxPriceIsNat == MaxPrice \in Nat

VARIABLES
    dealId, buyerKey, sellerKey, buyerCommitment,    \* sealed ledger fields
    sellerCommitment, priceCommitment, status        \* mutable ledger fields

sealedVars == <<dealId, buyerKey, sellerKey, buyerCommitment>>
dealVars == <<sealedVars, sellerCommitment, priceCommitment, status>>

-----------------------------------------------------------------------------
(* Hashes. *)

Price == 0..MaxPrice

DealStatus == {"WAITING_SELLER", "OPEN", "AUTHORIZED", "SETTLED", "CANCELLED"}

\* pad(32, ""), the commitment that nobody can open.
Empty == <<>>

BuyerDomain == "negotiation:buyer:"
SellerDomain == "negotiation:seller:"
PriceDomain == "negotiation:price:"

PublicKey(secret) == <<"negotiation:public-key:", secret>>

LimitCommitmentFor(id, domain, key, limit, randomness) ==
    <<id, domain, key, limit, randomness>>

PriceCommitmentOf(id, price, randomness) ==
    <<id, PriceDomain, price, randomness>>

\* The circuits' hashes are bound to the deal the ledger is about.
LimitCommitment(domain, key, limit, randomness) ==
    LimitCommitmentFor(dealId, domain, key, limit, randomness)

PriceCommitmentFor(price, randomness) ==
    PriceCommitmentOf(dealId, price, randomness)

Keys == {PublicKey(s) : s \in Secrets}

LimitCommitments ==
    {LimitCommitmentFor(id, d, k, l, r) :
        id \in DealIds, d \in {BuyerDomain, SellerDomain},
        k \in Keys, l \in Price, r \in Randomness}

PriceCommitments ==
    {PriceCommitmentOf(id, p, r) : id \in DealIds, p \in Price, r \in Randomness}

-----------------------------------------------------------------------------
(* Private states and witnesses. *)

Openings == [price : Price, randomness : Randomness]

\* A seller that has not received the buyer's price opening.
NoOpening == <<>>

BuyerPrivateState ==
    [role : {"buyer"}, secret : Secrets, limit : Price,
     limitRandomness : Randomness, opening : {<<o>> : o \in Openings}]

SellerPrivateState ==
    [role : {"seller"}, secret : Secrets, limit : Price,
     limitRandomness : Randomness, opening : {<<o>> : o \in Openings} \cup {NoOpening}]

PrivateState == BuyerPrivateState \cup SellerPrivateState

\* The witnesses throw when the private state is of the other role, and the
\* price witnesses throw for a seller without an opening.
RequireBuyer(ps) == ps.role = "buyer"
RequireSeller(ps) == ps.role = "seller"
RequirePriceOpening(ps) == ps.opening # NoOpening

WithSellerPriceOpening(ps, opening) == [ps EXCEPT !.opening = <<opening>>]

-----------------------------------------------------------------------------
(* The constructor and the circuits.  ps is the caller's private state. *)

\* Mutant: a buyer may authorize again, as long as the deal is not settled.
MayReauthorize == status \in {"OPEN", "AUTHORIZED"}

MayAuthorize == status = "OPEN"

\* Mutant: the price is not compared with the sealed maximum.
PriceUnchecked(ps) == TRUE

PriceWithinMaximum(ps) == ps.opening[1].price <= ps.limit

Constructor(id, bKey, sKey, bCommitment) ==
    /\ dealId = id
    /\ buyerKey = bKey
    /\ sellerKey = sKey
    /\ buyerCommitment = bCommitment
    /\ sellerCommitment = Empty
    /\ priceCommitment = Empty
    /\ status = "WAITING_SELLER"

JoinDeal(ps) ==
    /\ status = "WAITING_SELLER"
    /\ RequireSeller(ps)
    /\ PublicKey(ps.secret) = sellerKey
    /\ sellerCommitment' =
         LimitCommitment(SellerDomain, sellerKey, ps.limit, ps.limitRandomness)
    /\ status' = "OPEN"
    /\ UNCHANGED <<sealedVars, priceCommitment>>

AuthorizeHiddenPrice(ps) ==
    /\ MayAuthorize
    /\ RequireBuyer(ps)
    /\ PublicKey(ps.secret) = buyerKey
    /\ LimitCommitment(BuyerDomain, buyerKey, ps.limit, ps.limitRandomness) = buyerCommitment
    /\ PriceWithinMaximum(ps)
    /\ priceCommitment' = PriceCommitmentFor(ps.opening[1].price, ps.opening[1].randomness)
    /\ status' = "AUTHORIZED"
    /\ UNCHANGED <<sealedVars, sellerCommitment>>

Settle(ps) ==
    /\ status = "AUTHORIZED"
    /\ RequireSeller(ps)
    /\ PublicKey(ps.secret) = sellerKey
    /\ RequirePriceOpening(ps)
    /\ LimitCommitment(SellerDomain, sellerKey, ps.limit, ps.limitRandomness) = sellerCommitment
    /\ PriceCommitmentFor(ps.opening[1].price, ps.opening[1].randomness) = priceCommitment
    /\ ps.limit <= ps.opening[1].price
    /\ status' = "SETTLED"
    /\ UNCHANGED <<sealedVars, sellerCommitment, priceCommitment>>

CancelAsBuyer(ps) ==
    /\ RequireBuyer(ps)
    /\ PublicKey(ps.secret) = buyerKey
    /\ status # "SETTLED"
    /\ status' = "CANCELLED"
    /\ UNCHANGED <<sealedVars, sellerCommitment, priceCommitment>>

CancelAsSeller(ps) ==
    /\ RequireSeller(ps)
    /\ PublicKey(ps.secret) = sellerKey
    /\ status # "SETTLED"
    /\ status' = "CANCELLED"
    /\ UNCHANGED <<sealedVars, sellerCommitment, priceCommitment>>

-----------------------------------------------------------------------------
(* The deployer chooses the constructor's arguments: nothing on the chain  *)
(* checks that the keys or the buyer's commitment are well formed, nor     *)
(* that the commitment is about this deal.                                 *)

DealInit ==
    \E id \in DealIds, bKey \in Keys, sKey \in Keys, c \in LimitCommitments :
        Constructor(id, bKey, sKey, c)

DealNext ==
    \E ps \in PrivateState :
        \/ JoinDeal(ps)
        \/ AuthorizeHiddenPrice(ps)
        \/ Settle(ps)
        \/ CancelAsBuyer(ps)
        \/ CancelAsSeller(ps)

DealSpec == DealInit /\ [][DealNext]_dealVars

-----------------------------------------------------------------------------
(* Properties. *)

\* Every ledger field keeps its type: the commitments are Empty or a hash of
\* the right domain.
DealTypeOK ==
    /\ dealId \in DealIds
    /\ buyerKey \in Keys
    /\ sellerKey \in Keys
    /\ buyerCommitment \in LimitCommitments
    /\ sellerCommitment \in LimitCommitments \cup {Empty}
    /\ priceCommitment \in PriceCommitments \cup {Empty}
    /\ status \in DealStatus

\* p is a price the ledger's price commitment opens to, under the limit the
\* buyer sealed at deployment.
BuyerBacked(p) ==
    \E l \in Price, r \in Randomness, q \in Randomness :
        /\ buyerCommitment = LimitCommitment(BuyerDomain, buyerKey, l, r)
        /\ priceCommitment = PriceCommitmentFor(p, q)
        /\ p <= l

\* p is not below the limit the seller committed to when it joined.
SellerBacked(p) ==
    \E l \in Price, r \in Randomness :
        /\ sellerCommitment = LimitCommitment(SellerDomain, sellerKey, l, r)
        /\ l <= p

\* A deal that reads SETTLED (status field, set by settle) is about ONE hidden
\* price that respects both limits: the maximum the buyer sealed for this very
\* deal and the minimum the seller committed to when it joined.  Neither check
\* is made in the step that settles alone: the buyer's was made when the price
\* was authorized, by another caller with another private state.
SettledWithinLimits ==
    status = "SETTLED" => \E p \in Price : BuyerBacked(p) /\ SellerBacked(p)

\* What the parties committed to can never be swapped: once the seller's limit
\* or the hidden price is on the ledger, no sequence of circuit calls, by
\* anyone, replaces or clears it, and a deal that ended stays as it ended.
CommitmentsBind ==
    [][/\ sellerCommitment # Empty => sellerCommitment' = sellerCommitment
       /\ priceCommitment # Empty => priceCommitment' = priceCommitment
       /\ status \in {"SETTLED", "CANCELLED"} => status' = status]_dealVars

\* The part of the ledger each status promises, which makes the two properties
\* above inductive.
LedgerMatchesStatus ==
    /\ status = "WAITING_SELLER" => sellerCommitment = Empty
    /\ status \in {"WAITING_SELLER", "OPEN"} => priceCommitment = Empty
    /\ status \in {"OPEN", "AUTHORIZED", "SETTLED"} =>
         \E l \in Price, r \in Randomness :
            sellerCommitment = LimitCommitment(SellerDomain, sellerKey, l, r)
    /\ status \in {"AUTHORIZED", "SETTLED"} => \E p \in Price : BuyerBacked(p)

DealInv == DealTypeOK /\ LedgerMatchesStatus /\ SettledWithinLimits

=============================================================================
