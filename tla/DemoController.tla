---------------------------- MODULE DemoController ---------------------------
(***************************************************************************)
(* One chain-mode session as the demo controller drives it: the users'     *)
(* entries, the controller's event handlers, the IPC pipes to and from the *)
(* buyer, seller and observer processes, the runtimes as far as the        *)
(* controller can tell, the Indexer, and the Observer's polling of it.     *)
(*                                                                         *)
(* Each process has one ordered pipe to the controller and one from it;    *)
(* nothing orders the pipes of different processes.  The Observer runs one *)
(* polling loop per awaited state, and a poll reads the Indexer some time  *)
(* before its answer is handled, so the loops overtake each other.  The    *)
(* controller's Maps and Sets of session identifiers are the fields of     *)
(* `ctl`, its functions are operators from one value of `ctl` to the next. *)
(*                                                                         *)
(* The negotiation between the runtimes is only its result here; module    *)
(* Negotiation has the rest.  Of the relay it has the places in the room:  *)
(* a runtime that joins again may be refused because the relay has not     *)
(* seen its old connection end (module RoomRelay has the connections       *)
(* themselves), reports that and does nothing more.                        *)
(*                                                                         *)
(* Up to MaxFaults times a chain call throws after it took effect, a       *)
(* settlement fails, or the Observer gives up.  The one timing assumption  *)
(* is in ChainCall: a chain call takes longer than the controller needs to *)
(* read a message.                                                         *)
(***************************************************************************)
EXTENDS Naturals, Sequences

CONSTANTS
    MaxFaults,     \* bound on failures
    MaxRepeats     \* bound on entries submitted again

ASSUME BoundsAreNaturals == MaxFaults \in Nat /\ MaxRepeats \in Nat

Parties == {"buyer", "seller"}
Processes == Parties \cup {"observer"}
Peer(role) == IF role = "buyer" THEN "seller" ELSE "buyer"

ChainStates == {"OPEN", "AUTHORIZED", "SETTLED", "CANCELLED"}
Final == {"SETTLED", "CANCELLED"}

VARIABLES
    entry,       \* role -> what the page asks its user for
    ctl,         \* the controller, with the pipes it writes to
    from,        \* process -> messages on their way to the controller
    repeats,     \* entries submitted again so far
    joined,      \* roles whose runtime is in the room
    place,       \* role -> its place in the room: its own, or of an ended connection
    refused,     \* roles whose runtime has yet to read ROLE_CONFLICT
    offered,     \* roles the relay has the peer's key for
    locked,      \* roles whose runtime has a limit
    keyed,       \* roles whose runtime has the shared key
    ready,       \* roles whose runtime has peerReady
    started,     \* the buyer's negotiationStarted
    outcome,     \* the outcome the buyer published
    report,      \* role -> state its chain call reached but has not reported
    opened,      \* the seller completed tryJoinOnChain
    opening,     \* the seller has the buyer's price opening
    finalizing,  \* roles whose runtime began to finalize the session
    status,      \* the ledger
    indexed,     \* the ledger as far as the Indexer exposes it
    poll,        \* awaited state -> its polling loop in the Observer
    faults

relay == <<place, refused, offered>>
room == <<joined, relay, keyed>>
deal == <<outcome, report, opened, opening>>
runtimes == <<room, locked, ready, started, deal, finalizing>>
chain == <<status, indexed>>
page == <<entry, repeats>>
vars == <<page, ctl, from, runtimes, chain, poll, faults>>

-----------------------------------------------------------------------------
(* The controller. *)

Marks == {"peerReady", "observing", "chainOpen", "chainAuthorized", "announced", "displayReady",
          "negotiating", "finished", "pendingSettlement"}
Rows == {"peer-entry", "peer-commitment", "negotiation", "proof", "settlement", "cancellation",
         "record"}
Texts == {"none", "WAITING", "PEER_JOINED", "REGISTERED", "NEGOTIATION_START", "NEGOTIATING",
          "COMPLETE", "VERIFYING", "PROOFS_COMPLETE", "FINALIZING", "AGREED", "CANCELLED",
          "SETTLED"}

Idle == [rooms |-> {}, commitments |-> {}, channels |-> {}, notices |-> {}, marks |-> {},
         timer |-> FALSE, observed |-> {}, errors |-> {},
         rows |-> [role \in Parties |-> [row \in Rows |-> "none"]],
         to |-> [p \in Processes |-> <<>>]]

Mark(c, mark) == [c EXCEPT !.marks = @ \cup {mark}]
Unmark(c, mark) == [c EXCEPT !.marks = @ \ {mark}]
Show(c, role, row, text) == [c EXCEPT !.rows[role][row] = text]
EmitParticipantPair(c, row, text) == Show(Show(c, "buyer", row, text), "seller", row, text)
Send(c, target, command) == [c EXCEPT !.to[target] = Append(@, command)]
SendBoth(c, command) == Send(Send(c, "buyer", command), "seller", command)

\* Mutant: a negotiation that runs can be started again.
UntilFinished(c) == "finished" \notin c.marks

NotStarted(c) == c.marks \cap {"negotiating", "finished"} = {}

\* The negotiation starts once, when both limits are locked, the start was
\* displayed, the deal is open and both runtimes have the shared key.
TryStartNegotiation(c) ==
    IF /\ {"peerReady", "displayReady", "chainOpen"} \subseteq c.marks
       /\ c.channels = Parties
       /\ NotStarted(c)
    THEN SendBoth(Mark(c, "negotiating"), "START_RUNTIME") ELSE c

AnnounceNegotiation(c) ==
    IF c.marks \cap {"announced", "finished"} = {} /\ "chainOpen" \in c.marks
    THEN [EmitParticipantPair(Mark(c, "announced"), "negotiation", "NEGOTIATION_START")
            EXCEPT !.timer = TRUE]
    ELSE c

\* A commitment counts as registered only once the Observer saw OPEN.
EmitPeerCommitmentNotice(c, role) ==
    IF Peer(role) \in c.commitments /\ role \notin c.notices /\ "chainOpen" \in c.marks
    THEN [Show(c, role, "peer-commitment", "REGISTERED") EXCEPT !.notices = @ \cup {role}] ELSE c

EmitNotices(c) == EmitPeerCommitmentNotice(EmitPeerCommitmentNotice(c, "buyer"), "seller")

TryReadySession(c) ==
    IF c.commitments = Parties /\ "peerReady" \notin c.marks
    THEN AnnounceNegotiation(EmitNotices(SendBoth(Mark(c, "peerReady"), "PEER_READY"))) ELSE c

\* Mutant: the room is announced to the parties instead of the Observer.
ConfigureParties(c) ==
    IF "observing" \in c.marks THEN c
    ELSE Mark(SendBoth(c, "CONFIGURE_OBSERVER"), "observing")

ConfigureObserver(c) ==
    IF "observing" \in c.marks THEN c
    ELSE Mark(Send(c, "observer", "CONFIGURE_OBSERVER"), "observing")

TryMatchRoom(c) ==
    IF c.rooms = Parties
    THEN ConfigureObserver(EmitNotices(EmitParticipantPair(c, "peer-entry", "PEER_JOINED"))) ELSE c

\* acceptPartyEvent of ROOM_JOINED.
AcceptRoomJoined(c, role) ==
    LET in == [c EXCEPT !.rooms = @ \cup {role}, !.commitments = @ \ {role}]
    IN  TryMatchRoom(IF Peer(role) \in c.rooms THEN in ELSE Show(in, role, "peer-entry", "WAITING"))

\* A party waits for its peer's commitment: the row is shown unless the peer's
\* commitment is already known.
AcceptCommitment(c, role) ==
    TryReadySession(
        [IF role \in c.notices THEN c ELSE Show(c, role, "peer-commitment", "WAITING")
            EXCEPT !.commitments = @ \cup {role}])

\* Mutant: a channel that becomes ready last does not start the negotiation.
NoteChannel(c, role) == [c EXCEPT !.channels = @ \cup {role}]

AcceptChannel(c, role) == TryStartNegotiation([c EXCEPT !.channels = @ \cup {role}])

AcceptOutcome(c, result) ==
    IF "negotiating" \notin c.marks \/ "finished" \in c.marks THEN c
    ELSE LET done == EmitParticipantPair(Mark(c, "finished"), "negotiation", "COMPLETE")
         IN  IF result = "CANCELLED" THEN EmitParticipantPair(done, "cancellation", "FINALIZING")
             ELSE EmitParticipantPair(Mark(done, "pendingSettlement"), "proof", "VERIFYING")

\* Mutant: OPEN is not announced when both parties were ready before it.
NoAnnouncement(c) == c

\* The part of OPEN that waits for both parties.
AnnounceOpen(c) == IF "peerReady" \in c.marks THEN AnnounceNegotiation(EmitNotices(c)) ELSE c

AcceptOpen(c) == TryStartNegotiation(AnnounceOpen(Mark(c, "chainOpen")))

EmitAuthorized(c) ==
    EmitParticipantPair(EmitParticipantPair(Mark(c, "chainAuthorized"), "proof", "PROOFS_COMPLETE"),
        "settlement", "FINALIZING")

\* Mutant: the amount is dropped when the price is authorized.
ForgetAmount(c) == Unmark(EmitAuthorized(c), "pendingSettlement")

RequestSessionFinalize(c) == SendBoth(c, "FINALIZE_SESSION")

\* Mutant: the session is finalized when its price is authorized.
FinalizeEarly(c) == RequestSessionFinalize(EmitAuthorized(c))

\* AUTHORIZED is displayed whatever was displayed before.
AcceptAuthorized(c) == EmitAuthorized(c)

AcceptCancelled(c) ==
    EmitParticipantPair(RequestSessionFinalize(Unmark(c, "pendingSettlement")),
        IF "chainAuthorized" \in c.marks THEN "settlement" ELSE "cancellation", "CANCELLED")

\* SETTLED without a negotiated amount throws; nothing is displayed or finalized.
AcceptSettled(c) ==
    IF "pendingSettlement" \notin c.marks THEN c
    ELSE LET seen == IF "chainAuthorized" \in c.marks THEN c ELSE EmitAuthorized(c)
             shown == EmitParticipantPair(EmitParticipantPair(seen, "settlement", "AGREED"),
                          "record", "SETTLED")
         IN  RequestSessionFinalize(Unmark(shown, "pendingSettlement"))

AcceptObserverEvent(c, state) ==
    LET seen == [c EXCEPT !.observed = @ \cup {state}]
    IN  CASE state = "OPEN" -> AcceptOpen(seen)
          [] state = "AUTHORIZED" -> AcceptAuthorized(seen)
          [] state = "CANCELLED" -> AcceptCancelled(seen)
          [] state = "SETTLED" -> AcceptSettled(seen)

\* A DEMO_EVENT of a runtime with no row of its own is passed on to its panel.
AcceptChannelError(c, role) == [c EXCEPT !.errors = @ \cup {role}]

\* The controller's message handler.
AcceptMessage(c, process, message) ==
    IF process = "observer" THEN AcceptObserverEvent(c, message)
    ELSE CASE message = "ROOM_JOINED" -> AcceptRoomJoined(c, process)
           [] message = "COMMITTED" -> AcceptCommitment(c, process)
           [] message = "RELAY_CHANNEL_READY" -> AcceptChannel(c, process)
           [] message = "RELAY_CHANNEL_ERROR" -> AcceptChannelError(c, process)
           [] message = "OUTCOME_SETTLED" -> AcceptOutcome(c, "SETTLED")
           [] message = "OUTCOME_CANCELLED" -> AcceptOutcome(c, "CANCELLED")
           [] message \in ChainStates -> Send(c, "observer", message)

-----------------------------------------------------------------------------
Init ==
    /\ entry = [role \in Parties |-> "code"]
    /\ ctl = Idle
    /\ from = [p \in Processes |-> <<>>]
    /\ repeats = 0
    /\ place = [role \in Parties |-> "none"] /\ refused = {} /\ offered = {}
    /\ joined = {} /\ keyed = {} /\ locked = {} /\ ready = {} /\ finalizing = {}
    /\ started = FALSE /\ opened = FALSE /\ opening = FALSE
    /\ outcome = "none"
    /\ report = [role \in Parties |-> "none"]
    /\ status = "WAITING_SELLER" /\ indexed = "WAITING_SELLER"
    /\ poll = [state \in ChainStates |-> "none"]
    /\ faults = 0

Tells(process, message) == from' = [from EXCEPT ![process] = Append(@, message)]

Submits(role, command, phase) ==
    /\ entry' = [entry EXCEPT ![role] = phase]
    /\ ctl' = Send(ctl, role, command)
    /\ UNCHANGED <<from, runtimes, chain, poll, faults>>

\* The page sends JOIN_ROOM, and SET_LIMIT after ROOM_JOINED was displayed.
\* COMMAND_ACCEPTED enables its form again before the runtime has answered, so
\* an entry can be submitted twice.
UserSubmits(role) ==
    \/ entry[role] = "code" /\ Submits(role, "JOIN_ROOM", "joining") /\ UNCHANGED repeats
    \/ entry[role] = "limit" /\ Submits(role, "SET_LIMIT", "locking") /\ UNCHANGED repeats
    \/ /\ repeats < MaxRepeats /\ repeats' = repeats + 1
       /\ \/ entry[role] = "joining" /\ Submits(role, "JOIN_ROOM", "joining")
          \/ entry[role] = "locking" /\ Submits(role, "SET_LIMIT", "locking")

PhaseAfter(message, phase) ==
    CASE message = "ROOM_JOINED" -> "limit" [] message = "COMMITTED" -> "locked" [] OTHER -> phase

ControllerAccepts(process) ==
    /\ from[process] # <<>>
    /\ from' = [from EXCEPT ![process] = Tail(@)]
    /\ ctl' = AcceptMessage(ctl, process, Head(from[process]))
    /\ entry' = [role \in Parties |->
            IF role = process THEN PhaseAfter(Head(from[process]), entry[role]) ELSE entry[role]]
    /\ UNCHANGED <<repeats, runtimes, chain, poll, faults>>

\* The callback announceNegotiation scheduled.
TimerFires ==
    /\ ctl.timer
    /\ LET c == [ctl EXCEPT !.timer = FALSE]
       IN  ctl' = IF "finished" \in c.marks THEN c
                  ELSE TryStartNegotiation(Mark(
                          EmitParticipantPair(c, "negotiation", "NEGOTIATING"), "displayReady"))
    /\ UNCHANGED <<page, from, runtimes, chain, poll, faults>>

-----------------------------------------------------------------------------
(* The party runtimes. *)

\* The guard of a command; the handler throws, reports ERROR and does nothing
\* else when it is false.
Accepts(role, command) ==
    CASE command = "JOIN_ROOM" -> TRUE
      [] command = "SET_LIMIT" -> role \in joined /\ role \notin locked
      [] command = "PEER_READY" -> role \in locked
      [] command = "START_RUNTIME" ->
            role \in locked \cap keyed \cap ready /\ (role = "buyer" => ~started)
      [] command = "FINALIZE_SESSION" -> opened /\ role \notin finalizing

\* The relay introduces a runtime that registers to the peer's connection, and
\* both get the other's key.  Nobody reads at the end of a connection that ended.
Introduced(role) ==
    CASE place[Peer(role)] = "none" -> {}
      [] place[Peer(role)] = "held" -> Parties
      [] place[Peer(role)] = "ended" -> {role}

TakesPlace(role) ==
    /\ place' = [place EXCEPT ![role] = "held"]
    /\ refused' = refused \ {role}
    /\ offered' = Introduced(role)

\* ROLE_CONFLICT: the relay has yet to see that the runtime closed its old
\* connection.
IsRefused(role) ==
    /\ place[role] # "none"
    /\ place' = [place EXCEPT ![role] = "ended"]
    /\ refused' = refused \cup {role}
    /\ offered' = offered \ {role}

\* JOIN_ROOM starts the session from nothing, with a new key, over a new
\* connection.
JoinsRoom(role) ==
    /\ joined' = joined \cup {role}
    /\ keyed' = keyed \ {role}
    /\ TakesPlace(role) \/ IsRefused(role)
    /\ locked' = locked \ {role}
    /\ ready' = ready \ {role}
    /\ Tells(role, "ROOM_JOINED")

\* The relay sees the end of a connection.
FreesPlace(role) ==
    /\ place[role] = "ended"
    /\ place' = [place EXCEPT ![role] = "none"]
    /\ UNCHANGED <<page, ctl, from, joined, refused, offered, keyed, locked, ready, started, deal,
                   finalizing, chain, poll, faults>>

\* Mutant: the relay client drops the relay's error.
Ignores(role) == UNCHANGED from

TellsError(role) == Tells(role, "RELAY_CHANNEL_ERROR")

\* onError of the relay client reports it; nothing registers again.
ReadsRefusal(role) ==
    /\ role \in refused
    /\ refused' = refused \ {role}
    /\ TellsError(role)
    /\ UNCHANGED <<page, ctl, joined, place, offered, keyed, locked, ready, started, deal,
                   finalizing, chain, poll, faults>>

RuntimeHandles(role) ==
    /\ ctl.to[role] # <<>>
    /\ ctl' = [ctl EXCEPT !.to[role] = Tail(@)]
    /\ LET command == Head(ctl.to[role])
           now(name) == command = name /\ Accepts(role, command)
       IN  \/ now("JOIN_ROOM") /\ JoinsRoom(role) /\ UNCHANGED <<started, finalizing>>
           \/ /\ now("SET_LIMIT")
              /\ locked' = locked \cup {role} /\ Tells(role, "COMMITTED")
              /\ UNCHANGED <<room, ready, started, finalizing>>
           \/ /\ now("PEER_READY")
              /\ ready' = ready \cup {role}
              /\ UNCHANGED <<from, room, locked, started, finalizing>>
           \/ /\ now("START_RUNTIME")
              /\ started' = (started \/ role = "buyer")
              /\ UNCHANGED <<from, room, locked, ready, finalizing>>
           \/ /\ now("FINALIZE_SESSION")
              /\ finalizing' = finalizing \cup {role}
              /\ UNCHANGED <<from, room, locked, ready, started>>
           \/ /\ ~Accepts(role, command)
              /\ UNCHANGED <<from, room, locked, ready, started, finalizing>>
    /\ UNCHANGED <<page, deal, chain, poll, faults>>

AcceptPeerKey(role) ==
    /\ role \in offered
    /\ offered' = offered \ {role}
    /\ keyed' = keyed \cup {role}
    /\ Tells(role, "RELAY_CHANNEL_READY")
    /\ UNCHANGED <<page, ctl, joined, place, refused, locked, ready, started, deal, finalizing,
                   chain, poll, faults>>

\* The negotiation ends; its outcome is on the pipe before any chain call.
\* The seller answers only with peerReady: PEER_READY was sent to it at least
\* 1.9 s of timers before the first proposal.
PublishOutcome(result) ==
    /\ started /\ "seller" \in ready /\ outcome = "none"
    /\ outcome' = result
    /\ Tells("buyer", IF result = "SETTLED" THEN "OUTCOME_SETTLED" ELSE "OUTCOME_CANCELLED")
    /\ UNCHANGED <<page, ctl, room, locked, ready, started, report, opened, opening, finalizing,
                   chain, poll, faults>>

\* A chain call of a party takes effect on the ledger.  It takes a proof and a
\* block, seconds in which the controller reads what the caller sent before.
ChainCall(role, before, after) ==
    /\ status = before /\ report[role] = "none" /\ from[role] = <<>>
    /\ status' = after
    /\ report' = [report EXCEPT ![role] = after]
    /\ UNCHANGED <<page, ctl, from, room, locked, ready, started, outcome, opened, opening,
                   finalizing, indexed, poll>>

ChainProgress ==
    \/ /\ locked = Parties /\ keyed = Parties /\ offered = {}
       /\ ChainCall("seller", "WAITING_SELLER", "OPEN") /\ UNCHANGED faults
    \/ /\ outcome = "SETTLED"
       /\ ChainCall("buyer", "OPEN", "AUTHORIZED") /\ UNCHANGED faults
    \/ /\ outcome = "CANCELLED"
       /\ ChainCall("buyer", "OPEN", "CANCELLED") /\ UNCHANGED faults
    \/ opening /\ ChainCall("seller", "AUTHORIZED", "SETTLED") /\ UNCHANGED faults

\* The settlement fails and the seller cancels the deal instead.
SellerCancels ==
    /\ opening /\ faults < MaxFaults /\ faults' = faults + 1
    /\ ChainCall("seller", "AUTHORIZED", "CANCELLED")

\* The call returns and sendChainState reports it; the buyer then opens the
\* authorized price to the seller.
Reports(role) ==
    /\ report[role] # "none"
    /\ report' = [report EXCEPT ![role] = "none"]
    /\ Tells(role, report[role])
    /\ opened' = (opened \/ report[role] = "OPEN")
    /\ opening' = (opening \/ report[role] = "AUTHORIZED")
    /\ UNCHANGED <<page, ctl, room, locked, ready, started, outcome, finalizing, chain, poll,
                   faults>>

\* The call throws although it took effect; nobody reports its state.
ReportLost(role) ==
    /\ report[role] # "none"
    /\ faults < MaxFaults /\ faults' = faults + 1
    /\ report' = [report EXCEPT ![role] = "none"]
    /\ UNCHANGED <<page, ctl, from, room, locked, ready, started, outcome, opened, opening,
                   finalizing, chain, poll>>

-----------------------------------------------------------------------------
(* The Indexer and the Observer. *)

IndexerCatchesUp ==
    /\ indexed # status
    /\ indexed' = status
    /\ UNCHANGED <<page, ctl, from, runtimes, status, poll, faults>>

Rank(state) == CASE state = "WAITING_SELLER" -> 0 [] state = "OPEN" -> 1
                 [] state = "AUTHORIZED" -> 2 [] state = "SETTLED" -> 3 [] state = "CANCELLED" -> 4

\* Mutant: the state before the awaited one is taken for it.
AlmostReached(expected, state) == Rank(state) >= Rank(expected) - 1

\* A later state shows that an earlier one was reached, a cancelled deal only
\* that it is cancelled.
Reached(expected, state) ==
    IF expected = "CANCELLED" THEN state = "CANCELLED"
    ELSE Rank(state) >= Rank(expected) /\ state # "CANCELLED"

\* The Observer's commands: CONFIGURE_OBSERVER always comes first, and a second
\* request for a state that is being observed is ignored.
ObserverHandles ==
    /\ ctl.to["observer"] # <<>>
    /\ ctl' = [ctl EXCEPT !.to["observer"] = Tail(@)]
    /\ LET command == Head(ctl.to["observer"])
       IN  poll' = IF command \in ChainStates /\ poll[command] = "none"
                   THEN [poll EXCEPT ![command] = "waiting"] ELSE poll
    /\ UNCHANGED <<page, from, runtimes, chain, faults>>

\* queryPublicState reads the Indexer; its answer is handled later.
ObserverReads(state) ==
    /\ poll[state] = "waiting"
    /\ poll' = [poll EXCEPT ![state] = indexed]
    /\ UNCHANGED <<page, ctl, from, runtimes, chain, faults>>

ObserverAnswers(state) ==
    /\ poll[state] \notin {"none", "waiting"}
    /\ IF Reached(state, poll[state])
       THEN poll' = [poll EXCEPT ![state] = "none"] /\ Tells("observer", state)
       ELSE poll' = [poll EXCEPT ![state] = "waiting"] /\ UNCHANGED from
    /\ UNCHANGED <<page, ctl, runtimes, chain, faults>>

\* The loop reaches its deadline of 180 s.
ObserverGivesUp(state) ==
    /\ poll[state] # "none"
    /\ faults < MaxFaults /\ faults' = faults + 1
    /\ poll' = [poll EXCEPT ![state] = "none"]
    /\ UNCHANGED <<page, ctl, from, runtimes, chain>>

Next ==
    \/ TimerFires \/ ChainProgress \/ SellerCancels \/ IndexerCatchesUp \/ ObserverHandles
    \/ PublishOutcome("SETTLED") \/ PublishOutcome("CANCELLED")
    \/ \E process \in Processes : ControllerAccepts(process)
    \/ \E role \in Parties :
        UserSubmits(role) \/ RuntimeHandles(role) \/ AcceptPeerKey(role)
          \/ FreesPlace(role) \/ ReadsRefusal(role) \/ Reports(role) \/ ReportLost(role)
    \/ \E state \in ChainStates :
        ObserverReads(state) \/ ObserverAnswers(state) \/ ObserverGivesUp(state)

Spec == Init /\ [][Next]_vars

\* Pipes deliver, timers fire, the event loops run, the chain calls finish and
\* the Indexer catches up.  Users need not enter anything.
FairSpec ==
    /\ Spec
    /\ WF_vars(TimerFires) /\ WF_vars(ChainProgress) /\ WF_vars(IndexerCatchesUp)
    /\ WF_vars(ObserverHandles)
    /\ WF_vars(PublishOutcome("SETTLED") \/ PublishOutcome("CANCELLED"))
    /\ \A process \in Processes : WF_vars(ControllerAccepts(process))
    /\ \A role \in Parties :
        /\ WF_vars(RuntimeHandles(role)) /\ WF_vars(Reports(role))
        /\ WF_vars(AcceptPeerKey(role)) /\ WF_vars(ReadsRefusal(role))
    /\ \A state \in ChainStates : WF_vars(ObserverReads(state)) /\ WF_vars(ObserverAnswers(state))
-----------------------------------------------------------------------------
(* Properties. *)

\* Every variable keeps its type.
TypeOK ==
    /\ entry \in [Parties -> {"code", "joining", "limit", "locking", "locked"}]
    /\ \A set \in {ctl.rooms, ctl.commitments, ctl.channels, ctl.notices, ctl.errors, joined,
                   refused, offered, keyed, locked, ready, finalizing} : set \subseteq Parties
    /\ place \in [Parties -> {"none", "held", "ended"}]
    /\ ctl.marks \subseteq Marks /\ ctl.timer \in BOOLEAN /\ ctl.observed \subseteq ChainStates
    /\ ctl.rows \in [Parties -> [Rows -> Texts]]
    /\ \A role \in Parties :
        ctl.to[role] \in Seq({"JOIN_ROOM", "SET_LIMIT", "PEER_READY", "START_RUNTIME",
                              "FINALIZE_SESSION"})
    /\ ctl.to["observer"] \in Seq({"CONFIGURE_OBSERVER"} \cup ChainStates)
    /\ from["observer"] \in Seq(ChainStates)
    /\ {started, opened, opening} \subseteq BOOLEAN
    /\ outcome \in {"none"} \cup Final
    /\ report \in [Parties -> {"none"} \cup ChainStates]
    /\ {status, indexed} \subseteq {"WAITING_SELLER"} \cup ChainStates
    /\ poll \in [ChainStates -> {"none", "waiting", "WAITING_SELLER"} \cup ChainStates]
    /\ faults \in 0..MaxFaults /\ repeats \in 0..MaxRepeats

\* The controller never gives a runtime a command of its own that the runtime
\* must refuse, in whatever order the pipes of the three processes deliver.  START_RUNTIME names no
\* session and is refused without a limit, a key or PEER_READY, and a refused
\* START_RUNTIME is not sent again: the session would stop there.
CommandsAccepted ==
    \A role \in Parties :
        ctl.to[role] # <<>> /\ Head(ctl.to[role]) \notin {"JOIN_ROOM", "SET_LIMIT"}
            => Accepts(role, Head(ctl.to[role]))

\* When both parties are ready and the deal is open, both commitments and the
\* start have been announced, whichever of the three came last.
ReadyIsAnnounced ==
    {"peerReady", "chainOpen"} \subseteq ctl.marks =>
        ctl.notices = Parties /\ "announced" \in ctl.marks

\* The amount is there when the settlement is seen: the buyer's outcome travels
\* over another pipe than the Observer's SETTLED, which throws without it.
AmountKnown ==
    (\E i \in 1..Len(from["observer"]) : from["observer"][i] = "SETTLED")
        => "pendingSettlement" \in ctl.marks

\* The page shows a chain state only after the Indexer exposed it, whatever the
\* wallets reported.
ShownIsIndexed ==
    /\ \A state \in ctl.observed :
        CASE state \in Final -> indexed = state
          [] state = "OPEN" -> indexed # "WAITING_SELLER"
          [] state = "AUTHORIZED" -> indexed \notin {"WAITING_SELLER", "OPEN"}
    /\ \A role \in Parties, row \in Rows :
        /\ ctl.rows[role][row] = "CANCELLED" => indexed = "CANCELLED"
        /\ ctl.rows[role][row] \in {"AGREED", "SETTLED"} => indexed = "SETTLED"

\* A runtime is asked to erase its session only after the deal is final, and it
\* is displayed as what the buyer announced, unless a failure turned an
\* agreement into a cancellation.
FinalizedWhenFinal ==
    \A role \in Parties :
        (role \in finalizing \/ \E i \in 1..Len(ctl.to[role]) : ctl.to[role][i] = "FINALIZE_SESSION")
            => /\ status \in Final /\ status \in ctl.observed
               /\ status = outcome \/ (status = "CANCELLED" /\ faults > 0)

\* A party whose last attempt to join was refused, and whose panel shows an error.
ToldRefused(role) == place[role] # "held" /\ role \in ctl.errors

\* Without failures a session whose users entered their limits ends: its result
\* is displayed and both runtimes finalize it, also when codes and limits were
\* submitted twice.  The one other end is a rejoin that the relay refused: the
\* runtime does not register again, but its panel shows the error.
EndsOnScreen ==
    (\A role \in Parties : entry[role] \in {"locking", "locked"})
        ~> \/ outcome # "none" /\ outcome \in ctl.observed /\ finalizing = Parties
           \/ \E role \in Parties : ToldRefused(role)
           \/ faults > 0

\* README.md:59, a waiting row has its spinner only while what it waits for has
\* not happened: once the settlement is displayed the row that says it is being
\* recorded is replaced.
SettledStopsSpinner ==
    \A role \in Parties :
        ctl.rows[role]["record"] = "SETTLED" => ctl.rows[role]["settlement"] # "FINALIZING"
=============================================================================
