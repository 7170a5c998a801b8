----------------------------- MODULE SessionSwitch ----------------------------
(***************************************************************************)
(* One party runtime process through several sessions, on a chain.  A page *)
(* that is loaded again gets a new socket, and with it a new session id,   *)
(* but the runtime behind it is the same process: JOIN_ROOM resets its     *)
(* module variables while the continuations of the session before are      *)
(* still waiting, for a candidate, a chain call or a file.  What each of   *)
(* them does when it resumes is this module.                               *)
(*                                                                         *)
(* A page joins a room once, so a session id does not come back.  Session  *)
(* s stands for everything made in it: its limit and secrets, its contract *)
(* and its record.  The peer, the controller and the ledger do what a peer *)
(* in the same session may do, at any time; a price is not modelled.       *)
(* await import() of a loaded module does not let a message in between.    *)
(***************************************************************************)
EXTENDS Naturals

CONSTANT MaxSessions  \* bound on the rooms one process joins

ASSUME MaxSessionsIsNat == MaxSessions \in Nat

Sessions == 1..MaxSessions
None == 0
OrNone == 0..MaxSessions

VARIABLES
    role,
    session,      \* sessionId, None before the first JOIN_ROOM
    channel,      \* relayClient and sharedKey
    secrets,      \* the limit and buyerChainState / sellerChainState: of which session
    peerKnown,    \* peerSellerKey / pendingContractAddress is set
    connecting,   \* chainDeployStarted / chainJoinStarted
    contract,     \* chainContract, its providers and address: of which session
    record,       \* sessionRecord: of which session
    peerReady, started,
    offered,      \* lastSentOffer is set
    agreed,       \* negotiationFinished and its outcome / agreedPrice
    tasks         \* the continuations that wait

VARIABLES
    deal,         \* the ledger: session -> its deal
    stored,       \* the files: session -> its session record
    told,         \* sessions whose FINALIZE_SESSION was sent
    lost          \* history: sessions whose deployment or join rejected

memory == <<session, channel, secrets, peerKnown, connecting, contract, record, peerReady,
            started, offered, agreed>>
vars == <<role, memory, tasks, deal, stored, told, lost>>

Kinds == {"connect", "start", "decide", "authorize", "cancel", "settle", "finalize"}
Stages == {"waiting", "recorded", "joining", "applied", "named"}

\* of: the session the call began in; on: the session whose contract, or whose
\* record, it works on.
Task(kind, stage, on) == [kind |-> kind, of |-> session, stage |-> stage, on |-> on]
Moved(t, stage) == (tasks \ {t}) \cup {[t EXCEPT !.stage = stage]}

Final(s) == deal[s] \in {"SETTLED", "CANCELLED"}

Init ==
    /\ role \in {"buyer", "seller"}
    /\ session = None /\ channel = "closed" /\ secrets = None /\ peerKnown = FALSE
    /\ connecting = FALSE /\ contract = None /\ record = None
    /\ peerReady = FALSE /\ started = FALSE /\ offered = FALSE /\ agreed = "no"
    /\ tasks = {}
    /\ deal = [s \in Sessions |-> "none"]
    /\ stored = [s \in Sessions |-> "none"]
    /\ told = {} /\ lost = {}

-----------------------------------------------------------------------------
(* Commands and packets. *)

\* JOIN_ROOM of the next session: everything is reset but what already waits.
JoinRoom ==
    /\ session < MaxSessions /\ session' = session + 1
    /\ channel' = "open" /\ secrets' = None /\ peerKnown' = FALSE
    /\ connecting' = FALSE /\ contract' = None /\ record' = None
    /\ peerReady' = FALSE /\ started' = FALSE /\ offered' = FALSE /\ agreed' = "no"
    /\ UNCHANGED <<role, tasks, deal, stored, told, lost>>

\* deployOnChain and tryJoinOnChain start once, with all they need.
Connects(limit, key) ==
    IF limit # None /\ key /\ ~connecting /\ contract = None
    THEN connecting' = TRUE /\ tasks' = tasks \cup {Task("connect", "waiting", None)}
    ELSE UNCHANGED <<connecting, tasks>>

SetLimit ==
    /\ session # None /\ secrets = None
    /\ secrets' = session
    /\ Connects(secrets', peerKnown)
    /\ UNCHANGED <<role, session, channel, peerKnown, contract, record, peerReady, started,
                   offered, agreed, deal, stored, told, lost>>

AcceptPeerKey ==
    /\ channel = "open" /\ channel' = "keyed"
    /\ UNCHANGED <<role, session, secrets, peerKnown, connecting, contract, record, peerReady,
                   started, offered, agreed, tasks, deal, stored, told, lost>>

\* seller_key for the buyer, contract_ready for the seller.
AcceptPeerControl ==
    /\ channel = "keyed" /\ ~peerKnown
    /\ role = "seller" => deal[session] = "WAITING_SELLER"
    /\ peerKnown' = TRUE
    /\ Connects(secrets, TRUE)
    /\ UNCHANGED <<role, session, channel, secrets, contract, record, peerReady, started,
                   offered, agreed, deal, stored, told, lost>>

PeerReady ==
    /\ secrets # None /\ peerReady' = TRUE
    /\ UNCHANGED <<role, session, channel, secrets, peerKnown, connecting, contract, record,
                   started, offered, agreed, tasks, deal, stored, told, lost>>

\* The buyer's START_RUNTIME; the first move is made by a timer.
StartRuntime ==
    /\ role = "buyer" /\ secrets # None /\ channel = "keyed" /\ peerReady /\ ~started
    /\ started' = TRUE
    /\ tasks' = tasks \cup {Task("start", "waiting", None)}
    /\ UNCHANGED <<role, session, channel, secrets, peerKnown, connecting, contract, record,
                   peerReady, offered, agreed, deal, stored, told, lost>>

\* generateAndExecute and respondToProposal check before they await.
MayDecide ==
    secrets # None /\ channel = "keyed" /\ peerReady /\ agreed = "no"

\* A proposal, or a decline before the last round.
AcceptOffer ==
    /\ MayDecide
    /\ tasks' = tasks \cup {Task("decide", "waiting", None)}
    /\ UNCHANGED <<role, memory, deal, stored, told, lost>>

\* The timer looks at nothing but the product code.
StartTimer(t) ==
    /\ t.kind = "start"
    /\ tasks' = (tasks \ {t}) \cup (IF MayDecide THEN {Task("decide", "waiting", None)} ELSE {})
    /\ UNCHANGED <<role, memory, deal, stored, told, lost>>

\* publishOutcome, once a session: authorizeOnChain or cancelOnChain begins.
Publish(result, left) ==
    /\ agreed' = IF agreed = "no" THEN result ELSE agreed
    /\ tasks' = left \cup
        (IF agreed # "no" \/ contract = None THEN {}
         ELSE IF result = "cancelled" THEN {Task("cancel", "waiting", contract)}
         ELSE IF secrets # None THEN {Task("authorize", "waiting", contract)} ELSE {})

\* accept, or a decline in the last round.
AcceptAnswer ==
    /\ channel = "keyed" /\ offered
    /\ IF role = "buyer"
       THEN \E result \in {"settled", "cancelled"} : Publish(result, tasks)
       ELSE secrets # None /\ agreed = "no" /\ agreed' = "settled" /\ UNCHANGED tasks
    /\ UNCHANGED <<role, session, channel, secrets, peerKnown, connecting, contract, record,
                   peerReady, started, offered, deal, stored, told, lost>>

\* price_opening: the seller settles, or cancels when the price is another one.
AcceptOpening ==
    /\ role = "seller" /\ channel = "keyed" /\ deal[session] = "AUTHORIZED"
    /\ \E kind \in {"settle", "cancel"} :
        /\ kind = "settle" => agreed = "settled"
        /\ tasks' = IF contract = None THEN tasks
                    ELSE tasks \cup {Task(kind, "waiting", contract)}
    /\ UNCHANGED <<role, memory, deal, stored, told, lost>>

\* Mutant: a late FINALIZE_SESSION finalizes whatever the runtime works on.
AnySession(s) == TRUE

\* FINALIZE_SESSION for another session is refused.
IsCurrent(s) == session = s

\* The controller sends it once, when the deal is final.
FinalizeSession(s) ==
    /\ Final(s) /\ s \notin told /\ told' = told \cup {s}
    /\ tasks' = IF IsCurrent(s) /\ record # None
                THEN tasks \cup {[Task("finalize", "waiting", record) EXCEPT !.of = s]}
                ELSE tasks
    /\ UNCHANGED <<role, memory, deal, stored, lost>>

-----------------------------------------------------------------------------
(* The continuations. *)

\* The candidate is executed in the session of the moment.  A relay() without a
\* channel throws, after lastSentOffer and the seller's agreedPrice were set.
Decided(t) ==
    /\ t.kind = "decide"
    /\ LET left == tasks \ {t}
       IN  \/ offered' = TRUE /\ tasks' = left /\ UNCHANGED agreed
           \/ /\ IF role = "seller" THEN agreed' = "settled" /\ tasks' = left
                 ELSE IF channel = "keyed" THEN Publish("settled", left)
                 ELSE tasks' = left /\ UNCHANGED agreed
              /\ UNCHANGED offered
           \/ /\ IF role = "buyer" THEN Publish("cancelled", left)
                 ELSE tasks' = left /\ UNCHANGED agreed
              /\ UNCHANGED offered
    /\ UNCHANGED <<role, session, channel, secrets, peerKnown, connecting, contract, record,
                   peerReady, started, deal, stored, told, lost>>

Connecting(t, stage) == t.kind = "connect" /\ t.stage = stage

\* The buyer's first record names no contract; the seller's does.
FirstRecord(t) == IF role = "buyer" THEN "unnamed" ELSE "named"

\* The wallet and the providers are there: saveSessionRecord before the deal.
Records(t) ==
    /\ Connecting(t, "waiting")
    /\ stored' = [stored EXCEPT ![t.of] = FirstRecord(t)]
    /\ tasks' = Moved(t, "recorded")
    /\ UNCHANGED <<role, memory, deal, told, lost>>

\* Mutant: the session is not looked at again.
NotRechecked(t) == TRUE

\* if (sessionId !== deploySession) return, and the same for the join.
StillCurrent(t) == t.of = session

\* attachNegotiation is back: the seller joins the deal only in its session.
Attaches(t) ==
    /\ role = "seller" /\ Connecting(t, "recorded")
    /\ tasks' = IF t.of = session THEN Moved(t, "joining") ELSE tasks \ {t}
    /\ UNCHANGED <<role, memory, deal, stored, told, lost>>

\* The deployment, and joinDeal, on the ledger.
DealApplies(t) ==
    /\ \/ role = "buyer" /\ Connecting(t, "recorded") /\ deal[t.of] = "none"
       \/ role = "seller" /\ Connecting(t, "joining") /\ deal[t.of] = "WAITING_SELLER"
    /\ deal' = [deal EXCEPT ![t.of] = IF role = "buyer" THEN "WAITING_SELLER" ELSE "OPEN"]
    /\ tasks' = Moved(t, "applied")
    /\ UNCHANGED <<role, memory, stored, told, lost>>

\* Mutant: the session is looked at before the record is saved again.
NamesCurrent(t) == IF t.of = session THEN "named" ELSE stored[t.of]

\* The second record names the contract, whatever the session is by now.
SecondRecord(t) == "named"

Names(t) ==
    /\ role = "buyer" /\ Connecting(t, "applied")
    /\ stored' = [stored EXCEPT ![t.of] = SecondRecord(t)]
    /\ tasks' = Moved(t, "named")
    /\ UNCHANGED <<role, memory, deal, told, lost>>

\* The last continuation shares what it made, in its own session only.
Shares(t) ==
    /\ Connecting(t, IF role = "buyer" THEN "named" ELSE "applied")
    /\ tasks' = tasks \ {t}
    /\ IF StillCurrent(t) THEN contract' = t.of /\ record' = t.of
                          ELSE UNCHANGED <<contract, record>>
    /\ UNCHANGED <<role, session, channel, secrets, peerKnown, connecting, peerReady, started,
                   offered, agreed, deal, stored, told, lost>>

\* The price is in the private state: the call goes to the contract of the
\* moment, and throws when there is none.
Calls(t) ==
    /\ t.kind \in {"authorize", "settle"} /\ t.stage = "waiting"
    /\ tasks' = IF contract = None THEN tasks \ {t}
                ELSE (tasks \ {t}) \cup {[t EXCEPT !.stage = "joining", !.on = contract]}
    /\ UNCHANGED <<role, memory, deal, stored, told, lost>>

CallApplies(t) ==
    /\ \/ /\ t.kind = "authorize" /\ t.stage = "joining" /\ deal[t.on] = "OPEN"
          /\ deal' = [deal EXCEPT ![t.on] = "AUTHORIZED"]
       \/ /\ t.kind = "settle" /\ t.stage = "joining" /\ deal[t.on] = "AUTHORIZED"
          /\ deal' = [deal EXCEPT ![t.on] = "SETTLED"]
       \/ /\ t.kind = "cancel" /\ t.stage = "waiting" /\ deal[t.on] # "SETTLED"
          /\ deal' = [deal EXCEPT ![t.on] = "CANCELLED"]
    /\ tasks' = Moved(t, "applied")
    /\ UNCHANGED <<role, memory, stored, told, lost>>

\* The caller reports the chain state and, as the buyer, opens the price: for
\* the session of the moment, and nothing here depends on it.
CallReturns(t) ==
    /\ t.kind \in {"authorize", "settle", "cancel"} /\ t.stage = "applied"
    /\ tasks' = tasks \ {t}
    /\ UNCHANGED <<role, memory, deal, stored, told, lost>>

\* A call rejects, before or after it took effect.  A settlement that failed is
\* cancelled, with the contract of the moment.
TaskFails(t) ==
    /\ t.kind \in {"connect", "authorize", "cancel", "settle"}
    /\ tasks' = (tasks \ {t}) \cup
        (IF t.kind = "settle" /\ contract # None THEN {Task("cancel", "waiting", contract)} ELSE {})
    /\ lost' = IF t.kind = "connect" THEN lost \cup {t.of} ELSE lost
    /\ UNCHANGED <<role, memory, deal, stored, told>>

\* finalizeRoleSession, module SessionFinalize, erases a session it was given
\* whose deal is final.
Erases(t) == stored[t.on] = "named" /\ Final(t.on)

\* finalizeOnChain resumes: what it was given is erased, and forgetSessionSecrets
\* drops what the runtime has at the moment.  Otherwise everything is kept.
Finalized(t) ==
    /\ t.kind = "finalize"
    /\ tasks' = tasks \ {t}
    /\ \/ /\ Erases(t)
          /\ stored' = [stored EXCEPT ![t.on] = "cleaned"]
          /\ secrets' = None /\ record' = None /\ channel' = "closed"
          /\ peerKnown' = IF role = "buyer" THEN FALSE ELSE peerKnown
          /\ offered' = FALSE
          /\ agreed' = IF role = "seller" THEN "no" ELSE agreed
       \/ UNCHANGED <<stored, secrets, record, channel, peerKnown, offered, agreed>>
    /\ UNCHANGED <<role, session, connecting, contract, peerReady, started, deal, told, lost>>

-----------------------------------------------------------------------------
\* The peer's calls on the deal of a session.  A peer cancels a deal that both
\* have taken part in.
PeerActs(s) ==
    /\ \/ /\ role = "seller" /\ deal[s] = "none" /\ s <= session
          /\ deal' = [deal EXCEPT ![s] = "WAITING_SELLER"]
       \/ role = "buyer" /\ deal[s] = "WAITING_SELLER" /\ deal' = [deal EXCEPT ![s] = "OPEN"]
       \/ role = "seller" /\ deal[s] = "OPEN" /\ deal' = [deal EXCEPT ![s] = "AUTHORIZED"]
       \/ role = "buyer" /\ deal[s] = "AUTHORIZED" /\ deal' = [deal EXCEPT ![s] = "SETTLED"]
       \/ deal[s] \in {"OPEN", "AUTHORIZED"} /\ deal' = [deal EXCEPT ![s] = "CANCELLED"]
    /\ UNCHANGED <<role, memory, tasks, stored, told, lost>>

Resumes(t) ==
    \/ StartTimer(t) \/ Decided(t)
    \/ Records(t) \/ Attaches(t) \/ DealApplies(t) \/ Names(t) \/ Shares(t)
    \/ Calls(t) \/ CallApplies(t) \/ CallReturns(t) \/ TaskFails(t) \/ Finalized(t)

Next ==
    \/ JoinRoom \/ SetLimit \/ AcceptPeerKey \/ AcceptPeerControl \/ PeerReady \/ StartRuntime
    \/ AcceptOffer \/ AcceptAnswer \/ AcceptOpening
    \/ \E s \in Sessions : FinalizeSession(s) \/ PeerActs(s)
    \/ \E t \in tasks : Resumes(t)

Spec == Init /\ [][Next]_vars
-----------------------------------------------------------------------------
(* Properties. *)

DealStates == {"none", "WAITING_SELLER", "OPEN", "AUTHORIZED", "SETTLED", "CANCELLED"}

\* Every variable keeps its type.
TypeOK ==
    /\ role \in {"buyer", "seller"} /\ session \in OrNone
    /\ channel \in {"closed", "open", "keyed"}
    /\ secrets \in OrNone /\ contract \in OrNone /\ record \in OrNone
    /\ {peerKnown, connecting, peerReady, started, offered} \subseteq BOOLEAN
    /\ agreed \in {"no", "settled", "cancelled"}
    /\ tasks \subseteq [kind : Kinds, of : Sessions, stage : Stages, on : OrNone]
    /\ deal \in [Sessions -> DealStates]
    /\ stored \in [Sessions -> {"none", "unnamed", "named", "cleaned"}]
    /\ told \subseteq Sessions /\ lost \subseteq Sessions

\* The limit, the contract and the record the runtime works with belong to the
\* session it is in, however long an earlier session's calls were on their way:
\* a deployment or a join that was overtaken by a JOIN_ROOM shares nothing.
StateOfOneSession == {secrets, contract, record} \subseteq {None, session}

\* The controller gets finalized what it asked for, and not the deal of a room
\* that was joined before the command or its answer arrived.
FinalizesWhatIsAsked == \A t \in tasks : t.kind = "finalize" => t.on = t.of

\* This runtime made or joined the deal of s.
TookPart(s) == deal[s] \notin (IF role = "buyer" THEN {"none"} ELSE {"none", "WAITING_SELLER"})

\* A deal this runtime made or joined can be found again after a crash: its
\* record was saved first, and it names the contract unless the call that made
\* the deal failed or is about to save it, whatever room was joined meanwhile.
DealsAreRecorded ==
    \A s \in Sessions : TookPart(s) =>
        \/ stored[s] \in {"named", "cleaned"}
        \/ /\ stored[s] = "unnamed"
           /\ s \in lost \/ \E t \in tasks : Connecting(t, "applied") /\ t.of = s

\* The secrets in memory are released only after the deal they belong to was
\* compared with the chain, as settled or cancelled: "only after the comparison
\* succeeded" (README), "an unfinished deal keeps everything" (the runtimes).
SecretsKeptUntilFinal ==
    [][secrets # None /\ secrets' = None /\ session' = session => Final(secrets)]_vars
=============================================================================
