# Midnight Private Negotiation: verification project

TLA+ models of the negotiation runtimes, their contract, their relay, their
storage and the demo controller of this repository, the TLC configurations that
check them on small instances, and TLAPS proofs of the results that hold for
every instance. Paths below are relative to the repository root.

## 1. The system

A *buyer* and a *seller* bargain about a price without showing each other the
limit they would still accept, and settle the result on a Midnight contract
whose public ledger holds only commitments. Each party runs in a process of its
own; a controller drives them for a web page.

| Component | Source | State it keeps | Operations | Talks to |
|---|---|---|---|---|
| Deal contract | `packages/negotiation-contract/src` | sealed deal fields, seller and price commitment, status | constructor, `joinDeal`, `authorizeHiddenPrice`, `settle`, `cancelAsBuyer`, `cancelAsSeller` | called by both runtimes through the adapter |
| Price rules | `packages/agent-core/src/index.ts` | none (pure), except a provider's answers | ladder, policy and strategy guards, offset, candidate loop, fallback | called by both runtimes |
| Buyer and seller runtime | `packages/{buyer,seller}-runtime/src/index.ts` | one session: limit, keys, sequence numbers, last offer, agreed price, chain handles | IPC commands, relay packets, asynchronous decisions and chain calls | controller (IPC), relay (TCP), ledger |
| Evidence store | `packages/evidence/src`, `scripts/evidence.mjs` | session records, private state store, signing keys, evidence files, key files | `finalizeSession`, `recoverSessions`, `saveEvidence`, CLI `recover` | disk, Indexer |
| Room relay | `packages/room-relay/src` | rooms, registered clients, last sequence numbers | register, introduce, route, refuse, close | both runtimes |
| Demo controller | `packages/demo-controller/src` | Maps and Sets of session identifiers, timers | party, observer and outcome handlers, commands | runtimes, observer, page |
| Observer | `packages/observer-runtime/src` | one polling loop per awaited state | configure, observe | Indexer, controller |
| Web page | `apps/demo-web/app` | form phases, log rows by replace key | submit code and limit, show events | controller's WebSocket |
| Midnight adapter | `packages/midnight-adapter/src` | wallet, providers | deploy, attach, call, query | external SDK |
| Protocol | `packages/protocol/src` | none | parsers | everyone |

What is hard here, and what each part owes the others:

- *Contract.* The price is hidden when the buyer authorizes it and opened by
  another caller when it is settled. Whatever private states callers hold, a
  settled price must be the authorized one and within both limits.
- *Price rules.* Rounding to 250 KRW, the ends of the price range, and the
  offset that is subtracted before and added after a decision. Limits must
  hold, bargains must end, and an offer should not depend on the limit.
- *Runtimes.* Two event loops without locks; every `await` lets other handlers
  run. The two parties must agree on the result and settle that price only,
  also when a call throws after it took effect or the link breaks.
- *Storage.* Three kinds of finalizers work on the same files without a lock and
  can crash between any two writes. The opening of a settled price must
  survive, and nothing of an unfinished deal may be erased.
- *Relay.* Reconnects race with the close of the old connection; packets to an
  absent peer are dropped. A channel must never have a hole or mix keys.
- *Controller and observer.* Three pipes and several polling loops, in no common
  order. Commands are given once and refused silently, so each must be given at
  a moment when it is accepted.
- *Sessions that overlap.* A reloaded page joins a new session in the runtime
  that still waits for calls of the old one. What resumes must not share the old
  session's state, and a deal that was made meanwhile must stay recoverable.
- *Life of the processes.* Key files are created by processes that race and can
  be killed in the middle; wallets wait for funds that come from a third process
  over the controller; a reset waits for processes that may never answer.

## 2. Modules

| Module | Role | Correspondence |
|---|---|---|
| `Deal` | the contract | one action per circuit, one conjunct per `assert`; a caller is a private state (`witnesses.ts`) |
| `Pricing` | the price rules as pure operators | one operator per function of `agent-core` |
| `LadderBargaining` | two agents that use `Pricing` | `generateAndExecute`/`respondToProposal` and `executeCandidate`, without messages |
| `Bargaining` | abstract specification | what both agents promise: alternate, stay within their limit, stop |
| `Negotiation` | both runtimes, relay channel and ledger | a handler is an action; an awaited decision is `thinking`, an awaited chain call is `call`; the ledger's circuits are those of `Deal` (`INSTANCE`) |
| `SessionFinalize` | what a role stores, and its finalizers | one action per awaited write or read of `finalizeSession`, `saveEvidence`, `recoverSessions`, `deployOnChain`, `tryJoinOnChain` |
| `RoomRelay` | relay, clients, channel keys | one action per socket event; a connection is the JOIN_ROOM that opened it |
| `DemoController` | controller, pipes, observer, page, and the places the relay gives the runtimes | the controller's methods are operators on its state `ctl`; one action per message handled |
| `SessionSwitch` | one runtime through several JOIN_ROOMs | one action per command, packet and continuation; a task is a continuation that waits, with the session it began in and the contract or record it captured |
| `KeyStore` | the keys of the parties' storage | one action per call of `getOrCreateKey` that another process can see; a process is at one of its awaits |
| `Lifecycle` | start, funding, reset and shutdown | extends `KeyStore` by the controller, the wallets of the runtimes and the two transfers of the funder; a process is a role and the generation that forked it |
| `DealBargainingProofs`, `LadderProofs`, `NegotiationProofs`, `SessionFinalizeProofs`, `LifecycleProofs`, `SessionSwitchProofs`, `RoomRelayProofs`, `DemoControllerProofs` | theorems | extend the module they are about; `DealBargainingProofs` is about the two modules others are built on, `LifecycleProofs` holds the proofs of `KeyStore` as well |
| `MC*` | small instances | values of the constants and symmetry |

Composition: `Negotiation` instantiates `Deal` for its ledger and is proved to
implement `Bargaining` (`ImplementsBargaining`). `LadderBargaining` uses
`Pricing` and is proved to implement it as well (`IsBargaining`). `Bargaining` thus
separates the two questions "do the prices work" and "do the messages work".
`SessionFinalize`, `RoomRelay` and `DemoController` each look at one mechanism
of the runtimes and reduce the rest of the session to what that mechanism sees.
`SessionSwitch` takes what those modules do inside one session as single steps
and adds what happens between two. `Lifecycle` runs the processes of `KeyStore`
as the runtimes that a controller forks, ends and forks again.

Definitions marked `Mutant:` are deliberate errors. Nothing uses them; replacing
the definition that follows by its mutant makes the property listed with it in
`PROJECT.json` fail, which shows that the property depends on that code.

## 3. Runs

| Run | Question | Bounds and why they suffice |
|---|---|---|
| `deal` | can any caller settle something the limits do not cover, or replace a commitment | 2 deals (foreign private states), 3 secrets (buyer, seller, stranger), 2 randomness values, prices 0..2: below, at and above a limit |
| `ladder` | do fallback and mock agents meet, concede and stop; are the moves arbitrary provider answers lead to those of `Bargaining`, and so within the limits | whole runs of 10 rounds; 10 references from below the first rung (250) to the last price, with ladders that never meet (375) and that meet in the tenth round only (1,400); limits at and around rungs; every admissible offset; at 26,000 the rungs are two increments apart; the price range ends at 30,000 KRW so that both ends are met; for the provider one reference and three candidate prices below, at and above it |
| `ladder_offer` | does a provider's outgoing offer depend on the limit | violated, see section 6 |
| `bargaining` | the abstract specification itself, with fairness | 3 prices, limits outside, between and at them, 3 rounds |
| `negotiation` | agreement, conversation, settlement and refinement under failures; without one, does a session end on the ledger as it ended at the table | 3 prices, 4 rounds, limits on both sides of them, 2 failures of any kind in any step |
| `finalize` | safety of storage under crashes and concurrent finalizers; is every final session cleaned at last | 1 session, two runtime jobs and one CLI job that overlap everywhere, 2 crashes or failed operations; the files of different sessions are disjoint, only the order in which one recovery visits them is not met |
| `controller` | commands, announcements, display and finalization in every order; without a failure, does every session end on the screen, or say that the relay refused it | one session, 2 resubmitted entries, 2 failures |
| `controller_spinner` | does a waiting row stay replaced | violated, see section 6 |
| `relay` | holes, mixed keys, refused packets; do two parties of a room get their channel or an error | 2 rooms, 2 joins of each role, 2 packets for each connection, 1 broken connection, and at most 2 broken connections and second joins together |
| `lifecycle` | lost keys, runtimes told of funds nobody sent, shutdowns that hang, silent waits | 2 generations, so that every process meets its successor; 1 failure of any kind; the buyer's evidence key does not exist yet, the other three do; both backends |
| `session_switch` | what the continuations of one session do to the next | 2 sessions, any number of overlapping decisions and calls |
| `session_switch_forgets` | is a secret released before its deal is final | violated, see section 6 |

`CHECK_DEADLOCK FALSE` appears where the system may really stop: a settled deal,
a finished negotiation, a cleaned disk, a finished page, a server that ended.
The ladder run, which must always reach `Finished`, keeps the deadlock check.

The bounds that are not part of the program are `MaxFaults`, `MaxTrouble`,
`MaxRepeats`, `MaxJoins`, `MaxSent`, `MaxSessions`, `MaxGenerations`, `MaxKrw`
and `MaxPrice` (the source ends at the 64-bit
maximum) and, in `Bargaining` and `Negotiation`, `MaxRounds` (10 in the source).

### Fairness

Safety runs assume none. The liveness runs assume weak fairness of exactly:

- delivery by sockets and pipes, timers, and continuations of promises, which
  the event loop of Node guarantees as long as the process lives;
- chain calls that return (`Applies`/`Confirms`, `ChainProgress`) and an Indexer
  that catches up: the code awaits them without an alternative;
- in `finalize`, that recoveries are run again (`StartRecovery` of the
  command-line job): the recovery of one start does not retry, so a session
  whose finalization failed waits for the next start or for the documented
  command. `EventuallyCleaned` is conditional on that;
- in `lifecycle`, that the controller's own steps go on (`Controls`), that a
  booting runtime does (`Boots`) and that the funder answers or fails. Nothing
  assumes that a runtime answers SHUTDOWN_RUNTIME or ends after a signal:
  `ResetEnds` holds because the wait for it is bounded.

Nothing assumes that users enter anything, that a failure happens, or that a
crashed process comes back. Liveness properties with failures in scope name
them in their conclusion (`faults > 0 \/ ...`) where the code gives up.

## 4. What the properties say

- `SettledWithinLimits`, `CommitmentsBind` (`Deal`): the contract's promise
  against every caller.
- `LimitsRespected`, `Ends` (`Bargaining`): what the two agents promise.
- `IsBargaining`, `MeetsAtShiftedReference`, `ConcessionsMonotone`,
  `TurnsRunOut`, `FallbackOfferHidesLimit`, `MockMatchesFallback`
  (`LadderBargaining`): limits survive normalization and rounding; agents whose
  ladders cross in one of the ten rounds and whose limits reach the shifted
  reference price meet there; offers move one way; the run ends; the fallback's offer is the ladder's whatever the limit is; the mock
  provider and the fallback lead to the same decision.
- `OneMoveOutstanding`, `AgreementConsistent`, `SettledAsAgreed`,
  `ImplementsBargaining`, `EndsAsBargained` (`Negotiation`).
- `NoSettlementLost`, `UnfinishedKeepsEverything`, `CleanedMeansErased`,
  `UnnamedIsUnfinished`, `EventuallyCleaned` (`SessionFinalize`).
- `AcceptedWithoutGap`, `ChannelsAgree`, `NoPacketRefused`, `KeyedOrTold`
  (`RoomRelay`).
- `CommandsAccepted`, `ReadyIsAnnounced`, `AmountKnown`, `ShownIsIndexed`,
  `FinalizedWhenFinal`, `EndsOnScreen` (`DemoController`).
- `UsedIsStored` (`KeyStore`), `ToldIsPaid`, `ResetEnds`, `NoSilentWait`
  (`Lifecycle`): a key once used is the key in the store; a runtime that is told
  CHAIN_FUNDED is being paid; a shutdown ends; a demo that is offered becomes
  usable or says why not. A runtime uses its wallet only once it was told and has
  a balance: the second it checks itself (`HasFunds`), the first is what the
  other processes owe it, since the wait for the balance has no timeout.
- `StateOfOneSession`, `FinalizesWhatIsAsked`, `DealsAreRecorded`
  (`SessionSwitch`): what continuations of an old session may do.

Types are proved (`DealTypeCorrect` and its like, `TypesHold` for
`LadderBargaining`); a run also checks them where the state is large
(`Negotiation`, `RoomRelay`, `DemoController`).

Each is stated in words at its definition. The hazards of `PROJECT.json` say
which line of the code each one watches.

## 5. Proofs

All theorems hold for every value of the constants that meets the named `ASSUME`s.

- `DealBargainingProofs`, first part, about `Deal`. `DealInv` is `DealTypeOK /\ LedgerMatchesStatus /\
  SettledWithinLimits`. `SettledWithinLimits` is not inductive by itself: that
  the settled price is the authorized one needs the price commitment to be
  injective (`PriceCommitmentBinding`) and present exactly from `AUTHORIZED`
  on (`LedgerMatchesStatus`, `CommitmentsNotEmpty`). From it follow
  `DealTypeCorrect`, `SettlementSafe` and `CommitmentsAreBinding`. The
  assumption behind it is that the hash is injective, which the constructor
  operators of `Deal` express.
  Second part, about `Bargaining`: `LimitsRespected` speaks only of finished bargains; the
  invariant also keeps every standing bid and ask within its owner's limit.
  `Negotiation` and `LadderBargaining` are both proved to implement
  `Bargaining`, so what is proved here is about them too.
- `LadderProofs`. What the guard judges in ladder coordinates holds in real
  prices, because `restorePrivatePrice` asks again (`Restored`); so every choice
  is a price the abstract bargaining knows, within the limit (`DecisionAllowed`,
  `IncrementsArePrices`), and every move is one of its moves (`MoveOfBargaining`).
  The fallback's offer is the next rung plus the offset and was not good enough
  to accept the offer it answers (`FallbackDecision`); the rungs are ordered
  through product, division, rounding and clipping (`RungsInOrder`); with the
  invariant that what was last sent is a rung of a round passed (`Rungs`),
  concessions go one way. The mock provider's list is judged as the fallback
  judges, case by case (`MockInLadder`). The proofs allow any answers of one
  candidate each, as the model does (`Decisions`).
  `MeetsAtShiftedReference` speaks of the end of a bargain; `Meeting` says how it
  gets there. Both ladders are at the reference price in round 6 (`SixthRung`).
  As long as nobody has accepted, every bid is a rung up to it and every ask a
  rung down to it, in a round not after the one in which the ladders cross: a
  rung beyond the reference price is reached only by a party that would rather
  accept what is on the table, since rungs less than an increment apart are equal
  (`IncrementsApart`). From round 6 on neither party can be left without a move:
  it accepts (`FallbackAccepts`), or its rung is the rounded reference price,
  which fits its limit and, with any offset the session can have, the price range
  (`ShiftedPrice`, `FallbackSpeaks`). So the buyer never stops, the seller
  declines before round 6 only, and the round of the crossing is not passed
  (`SellerMeets`, `BuyerMeets`).
- `NegotiationProofs`. The messages implement the moves of `Bargaining` because
  at most one move is outstanding, and that one fits the table: `Conversation`
  says that nobody thinks and both channels are free of moves, or one party
  thinks about exactly the offer on the table, or one bargaining packet travels
  and says what its sender has done (`FitsBuyer`, `FitsSeller`). The steps split
  in two. A `ControlStep` (handshake, chain calls, failures) lets the channels
  only lose moves (`Weaker`), so the conversation goes on (`ConversationGoesOn`);
  a `MoveStep` consumes the one move and makes at most one new one
  (`DecisionTaken`, `MoveReceived`, `MoveIsSent`). `AgreementConsistent`,
  `OneMoveOutstanding` and the refinement `MessagesImplementBargaining` follow.
  For `SettledAsAgreed` the invariant also follows the hidden price from the
  published outcome through the buyer's call, the opening on its way and the
  seller's call to the ledger (`PriceOnChain`). No bound is left: prices, limits,
  rounds and failures are arbitrary.
- `SessionFinalizeProofs`. `SafetyInv` strengthens `NoSettlementLost` by what
  each finalizer may rely on at each of its steps: a job that erases has seen a
  final deal, for a settled one has read good evidence back, and good evidence is
  never replaced by anything else. What a job has read stays true because a final
  status never changes (`StatusMoves`, `EstablishedStable`). Given that, the
  steps of a session (`SessionSafetyStep`) and of a job (`JobSafetyStep`) are
  checked one by one; the interference of other jobs is covered since the
  invariant quantifies over all of them. `CleanedIsErased` needs a further
  invariant: a job past an erasure leaves nothing that another could bring back.
  `UnnamedIsUnfinished` needs the order in which the address spreads
  (`NamedInTime`): only the seller's `joinDeal` takes a deal out of
  `WAITING_SELLER`, the buyer announces an address only once its record names it,
  and the seller's record names it before the seller stores or sends anything.
- `LifecycleProofs`, first part, about `KeyStore`. `UsedIsStored` alone says nothing about a process between two
  awaits. The invariant adds that a key, once written, is never rewritten: only
  the process that created a file is about to write it, and what it will
  overwrite is the empty file nobody could have read. Exclusive creation
  (`CreatesNew`) is what makes that inductive.
  Second part, about `Lifecycle`: `ToldIsPaid` follows from a chain of facts, one for each
  hop of the message: a funder halfway has submitted the buyer's transfer
  (`HalfwayPaid`), one that answered those of every runtime of its generation that
  still runs (`AnsweredPaid`), a runtime is told only when its funder had answered,
  and the runtimes of a controller are started once. `LifecycleKeepsKeys` carries the key store's invariant through
  forks, signals and resets.
- `SessionSwitchProofs`. `SwitchInv` adds to the three properties where a
  connection stands at each of its awaits (`ConnectionStages`), that a session
  starts at most one (`OneConnection`) and that calls go to contracts the runtime
  made or joined (`CallsOwnDeals`). Most continuations change nothing the
  invariant speaks of and share one lemma (`HarmlessKeeps`); the steps of a
  connection are proved one by one.

- `RoomRelayProofs`. `AcceptedWithoutGap` speaks of what was written and accepted
  and of nothing in between, so `RelayInv` says where every packet is: accepted, on
  the way down, on the way up, or cut off by the end of its sender's connection,
  behind everything that connection still delivers (`NothingLost`, `CutOff`).
  Along one pair of keys these places hold ascending numbers, the accepted ones
  first (`InOrder`, `AcceptedFirst`), and the key in force when a packet arrives
  is the one its sender used (`KeysInForce`). That last part is the heart of it:
  a reconnect replaces keys while packets are under way, and only the order of
  key and packet on one socket keeps them apart. Two more facts make it inductive.
  Rooms and clients agree about places (`Places`), which is why a packet of these
  clients is never refused (`NothingIsRefused`); and once a packet was sent, its
  session is limited, so its sender never opens another connection for it
  (`PacketsAreMet`). A second join and a broken connection share their proof
  (`ReconnectKeeps`); the relay's reading of a frame splits into the four outcomes
  of its handler (`Conflict`, `Registered`, `Unavailable`, `Routed`).
  `ChannelsAgree` follows from `KeysAreMet` and the places. Numbers of sessions,
  connections, packets and faults are arbitrary.

- `DemoControllerProofs`. The properties compare facts that reach the controller
  over different pipes, so `ControllerInv` follows each fact through its places.
  Entries: a code stays before a limit on the way to the runtime and back, so who
  is locked does not join again (`Entered`). Commands: each is given once, for a
  mark that is set for good; it is on its way or obeyed (`Commanded`), and the
  marks are set in order (`MarksInOrder`). Chain states: each is reported once
  and is in one place at a time, from the call over a pipe, the Observer's
  command, its poll and its event to the controller (`OneReport`); so a second
  SETTLED never comes, and whoever is told of a state is told of one the ledger
  has reached. The Indexer is behind the ledger and a poll behind the Indexer
  (`Indexed`). Outcome: the controller keeps the amount from the buyer's outcome
  until the end is observed (`OutcomeNoted`), and the ledger ends as published
  unless a call failed (`StatusOfOutcome`). The controller's methods are
  operators on its state, so each has lemmas of its own: what only shows rows is
  one relation (`Displays`), what also gives commands another (`Serves`), and a
  step of a pipe composes what was taken with what was served. `AmountKnown`
  rests on an assumption of the model, not of the proof: that a chain call takes
  longer than the controller needs to read what its caller sent before
  (section 7). What the relay refuses changes no fact of the invariant but types
  (`RelayMessageInv`, `PlacesInv`): a runtime without a key only does less.
  Numbers of entries and failures are arbitrary.

Every invariant, action property and refinement a passing run checks is proved.
Model-checked only: liveness, which is beyond the prover.

## 6. Disagreements between code and documents

- `ProviderOfferHidesLimit` (`ladder_offer`). `agent-core/src/index.ts:375-377`
  and `README.md:55` say that limits never shape an outgoing price. This holds
  for the fallback (`FallbackOfferHidesLimit`), but with a provider the first
  candidate the limit allows is sent (`index.ts:720`), and the same answers
  give different offers for different limits.
- `SettledStopsSpinner` (`controller_spinner`). `README.md:59` says that a
  waiting row spins only while its state is not met. The observer's `AUTHORIZED`
  loop can answer after its `SETTLED` loop, and `orchestrator.ts:600` then puts
  "finalizing" over the row that already showed the agreement.

- `SecretsKeptUntilFinal` (`session_switch_forgets`). `README.md:147` and the
  comment at `buyer-runtime/src/index.ts:423` say that secrets in memory are
  released only after their deal was compared with the chain as final.
  `finalizeOnChain` forgets what the runtime has when the finalization returns:
  a room that was joined while it was under way loses its limit and its secrets,
  and its negotiation cannot go on.

Observed and modelled as it is, with no document that says otherwise: a failed
`authorizeHiddenPrice` leaves the deal OPEN, since only the seller's failed
settlement leads to a cancellation; after `ROLE_CONFLICT` a runtime does not
register again, whether a page rejoined or a code was submitted twice; a
`PEER_UNAVAILABLE` packet is not sent again. Where a liveness property meets
these, its conclusion names them: `EndsAsBargained` and `EndsOnScreen` the
failures counted in `faults`, `KeyedOrTold` and `EndsOnScreen` (`ToldRefused`) the
error that a runtime shows when it is refused.
In `LadderBargaining`, the seller's last ask binds nobody once it has declined a
round: where rungs are more than an increment apart the buyer's later rungs pass
it, and the seller then accepts more than it had asked (reference 26,000, offset
-750, limits 26,250 and 26,000: asked 26,000, settled at 26,250).
For a reference price below 278 KRW the buyer has no first rung, and for about
half of those from there to 1,388 KRW the rounded ladders stay an increment apart
in all ten rounds (at 375, the buyer never offers more than 250 and the seller
never less than 500): every bargain about such a product is cancelled, however
far the limits overlap.
In `SessionSwitch`, a decision of an old session is sent over the channel of the
new one, a stale result is published for it, a stale call reports its chain state
under the current session, and a stale settlement that fails cancels the current
deal. In `Lifecycle`, a FUNDING_COMPLETE that finds a runtime gone ends the
server, and a runtime that ends by itself is reported to nobody.

## 7. Not modelled, and why

- Wallet, proof server, node, Indexer: external; their calls take effect or fail.
- Cryptography: keys, hashes and ciphertexts are values; the offset of a session
  is any value its derivation can give.
- OpenAI provider: any answer from a bounded set.
- Mock mode of the controller (timers instead of a chain).
- In `SessionSwitch`: prices, the wait of a call on the wallet, and a second
  JOIN_ROOM of one session. A code that is submitted twice over one socket
  leads to it; `DemoController` and `RoomRelay` have that case.
- In `DemoController`: the connections behind the places of a room, and the
  breaking of one, which are in `RoomRelay`.
- In `Lifecycle`: the observer, the pages that are connected, and anything after
  the end of the server process.
- Parsers, encodings, message sizes, wording of display messages, page styling.

Real time appears once, as an assumption: `PEER_READY` reaches the seller long
before the first proposal (1.9 s of timers), and a chain call takes longer than
the controller needs to read what its caller sent before (`ChainCall`).

## 8. What could follow

- Two sessions in `finalize`, for the order in which one recovery visits them
  (three finalizers over two sessions are beyond the run's reach).
- Prices in `SessionSwitch`, to state what a stale decision may reveal or accept.
