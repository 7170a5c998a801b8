------------------------- MODULE DemoControllerProofs -------------------------
(***************************************************************************)
(* Proofs about DemoController: whatever order the pipes, the polls and    *)
(* the users' entries come in, for every number of entries and failures,   *)
(* no command is refused, both commitments are announced, the amount is    *)
(* known before it is shown, nothing is shown before the Indexer has it,   *)
(* and only sessions that ended are finalized.                             *)
(*                                                                         *)
(* The invariant (ControllerInv) follows one fact at a time through the    *)
(* places it goes through: an entry from the form to the runtime and back  *)
(* (Entered), a command from the mark it is given for to the runtime that  *)
(* obeys it, once (Commanded), a chain state from the call to the          *)
(* controller, in one place at a time (OneReport), what the Indexer shows  *)
(* (Indexed), and the outcome (OutcomeNoted, StatusOfOutcome).  A step     *)
(* that takes a message from a pipe is proved in two: the message leaves   *)
(* its place, and the controller's function puts what follows from it into *)
(* the next.                                                               *)
(***************************************************************************)
EXTENDS DemoController, TLAPS

\* What is in a pipe.
Holds(queue) == {queue[i] : i \in 1..Len(queue)}

\* A message is in a pipe once.
Once(message, queue) ==
    \A i, j \in 1..Len(queue) : queue[i] = message /\ queue[j] = message => i = j

\* A message does not stand behind another one.
NeverBehind(message, others, queue) ==
    \A i, j \in 1..Len(queue) : i < j /\ queue[i] \in others => queue[j] # message

-----------------------------------------------------------------------------
(* Types. *)

Commands == {"JOIN_ROOM", "SET_LIMIT", "PEER_READY", "START_RUNTIME", "FINALIZE_SESSION"}
ObserverCommands == {"CONFIGURE_OBSERVER"} \cup ChainStates
Outcomes == {"OUTCOME_SETTLED", "OUTCOME_CANCELLED"}
PartyMessages == {"ROOM_JOINED", "COMMITTED", "RELAY_CHANNEL_READY", "RELAY_CHANNEL_ERROR"}
                     \cup Outcomes \cup ChainStates
LedgerStates == {"WAITING_SELLER"} \cup ChainStates

\* The states of the controller.
Controllers ==
    [rooms : SUBSET Parties, commitments : SUBSET Parties, channels : SUBSET Parties,
     notices : SUBSET Parties, marks : SUBSET Marks, timer : BOOLEAN,
     observed : SUBSET ChainStates, errors : SUBSET Parties, rows : [Parties -> [Rows -> Texts]],
     to : [Processes -> Seq(Commands \cup ObserverCommands)]]

Types ==
    /\ entry \in [Parties -> {"code", "joining", "limit", "locking", "locked"}]
    /\ ctl \in Controllers
    /\ \A role \in Parties : ctl.to[role] \in Seq(Commands)
    /\ ctl.to["observer"] \in Seq(ObserverCommands)
    /\ from \in [Processes -> Seq(PartyMessages)] /\ from["observer"] \in Seq(ChainStates)
    /\ repeats \in 0..MaxRepeats
    /\ place \in [Parties -> {"none", "held", "ended"}]
    /\ joined \subseteq Parties /\ refused \subseteq Parties
    /\ offered \subseteq Parties /\ keyed \subseteq Parties
    /\ locked \subseteq Parties /\ ready \subseteq Parties /\ finalizing \subseteq Parties
    /\ started \in BOOLEAN /\ opened \in BOOLEAN /\ opening \in BOOLEAN
    /\ outcome \in {"none"} \cup Final
    /\ report \in [Parties -> {"none"} \cup ChainStates]
    /\ status \in LedgerStates /\ indexed \in LedgerStates
    /\ poll \in [ChainStates -> {"none", "waiting"} \cup LedgerStates]
    /\ faults \in 0..MaxFaults

-----------------------------------------------------------------------------
(* The order of the users' entries. *)

Late == Commands \ {"JOIN_ROOM"}

\* A user enters the code before the limit, and the pipes keep that order: who
\* is committed does not join again.
Entered ==
    \A role \in Parties :
        /\ NeverBehind("JOIN_ROOM", Late, ctl.to[role])
        /\ NeverBehind("ROOM_JOINED", {"COMMITTED"}, from[role])
        /\ entry[role] \in {"code", "joining"} =>
              Holds(ctl.to[role]) \subseteq {"JOIN_ROOM"} /\ role \notin locked
        /\ role \in locked => "JOIN_ROOM" \notin Holds(ctl.to[role])
        /\ "COMMITTED" \in Holds(from[role]) => role \in locked
        /\ role \in ctl.commitments => role \in locked /\ "ROOM_JOINED" \notin Holds(from[role])

-----------------------------------------------------------------------------
(* The commands of the controller. *)

\* The marks of a controller come one after the other.
InOrder(c) ==
    /\ "peerReady" \in c.marks => c.commitments = Parties
    /\ "chainOpen" \in c.marks => "OPEN" \in c.observed
    /\ "negotiating" \in c.marks => {"peerReady", "chainOpen"} \subseteq c.marks
    /\ "finished" \in c.marks => "negotiating" \in c.marks

MarksInOrder == InOrder(ctl)

\* A command is given once, PEER_READY before START_RUNTIME, and what it is given
\* for has been noted.
Commanded ==
    \A role \in Parties :
        /\ "peerReady" \in ctl.marks <=> role \in ready \/ "PEER_READY" \in Holds(ctl.to[role])
        /\ NeverBehind("PEER_READY", {"START_RUNTIME"}, ctl.to[role])
        /\ "START_RUNTIME" \in Holds(ctl.to[role]) \/ started => "negotiating" \in ctl.marks
        /\ Once("START_RUNTIME", ctl.to[role])
        /\ role = "buyer" /\ started => "START_RUNTIME" \notin Holds(ctl.to[role])
        /\ "FINALIZE_SESSION" \in Holds(ctl.to[role]) \/ role \in finalizing =>
              ctl.observed \cap Final # {}
        /\ Once("FINALIZE_SESSION", ctl.to[role])
        /\ role \in finalizing => "FINALIZE_SESSION" \notin Holds(ctl.to[role])

-----------------------------------------------------------------------------
(* What is reported of the chain. *)

\* The places a report of a state goes through.
Places == {"buyer call", "seller call", "buyer pipe", "seller pipe", "command", "poll", "event", "seen"}

At(state, where) ==
    \/ where = "buyer call" /\ report["buyer"] = state
    \/ where = "seller call" /\ report["seller"] = state
    \/ where = "buyer pipe" /\ state \in Holds(from["buyer"])
    \/ where = "seller pipe" /\ state \in Holds(from["seller"])
    \/ where = "command" /\ state \in Holds(ctl.to["observer"])
    \/ where = "poll" /\ poll[state] # "none"
    \/ where = "event" /\ state \in Holds(from["observer"])
    \/ where = "seen" /\ state \in ctl.observed

\* The ledger is, or was, in the state.
Passed(state, now) ==
    \/ state = "OPEN" /\ now # "WAITING_SELLER"
    \/ state = "AUTHORIZED" /\ now \notin {"WAITING_SELLER", "OPEN"}
    \/ state \in Final /\ now = state

\* A state is reported once and is in one place at a time, and it is one the
\* ledger has reached.  OPEN is observed only when its call has returned.
OneReport ==
    /\ \A state \in ChainStates, a, b \in Places : At(state, a) /\ At(state, b) => a = b
    /\ \A state \in ChainStates :
          /\ Once(state, ctl.to["observer"])
          /\ \A p \in Processes : Once(state, from[p])
    /\ \A state \in ChainStates, where \in Places : At(state, where) => Passed(state, status)
    /\ \A where \in Places \ {"buyer call", "seller call"} : At("OPEN", where) => opened

-----------------------------------------------------------------------------
(* The ledger and what the Indexer shows of it. *)

\* The ledger goes from one state to the other.
Later(before, now) ==
    \/ before = now \/ before = "WAITING_SELLER"
    \/ before = "OPEN" /\ now # "WAITING_SELLER"
    \/ before = "AUTHORIZED" /\ now \in Final

\* The deal is opened by runtimes that have their limit and their key.
OpenedWhenKeyed ==
    status # "WAITING_SELLER" => locked = Parties /\ keyed = Parties /\ offered = {}

\* The Indexer shows what the ledger was, a poll what the Indexer showed, and an
\* event or a row what the Indexer shows.
InView(state) == IF state \in Final THEN indexed = state ELSE Passed(state, indexed)

Indexed ==
    /\ Later(indexed, status)
    /\ \A state \in ChainStates : poll[state] \notin {"none", "waiting"} => Later(poll[state], indexed)
    /\ \A state \in Holds(from["observer"]) \cup ctl.observed : InView(state)
    /\ \A role \in Parties, row \in Rows :
          /\ ctl.rows[role][row] = "CANCELLED" => indexed = "CANCELLED"
          /\ ctl.rows[role][row] \in {"AGREED", "SETTLED"} => indexed = "SETTLED"

-----------------------------------------------------------------------------
(* The outcome. *)

\* The outcome is on the buyer's pipe, or the controller has noted it; the
\* controller keeps the amount until the end of the deal is observed.
OutcomeNoted ==
    /\ outcome # "none" => started
    /\ Outcomes \cap Holds(from["seller"]) = {}
    /\ "OUTCOME_SETTLED" \in Holds(from["buyer"]) => outcome = "SETTLED"
    /\ "OUTCOME_CANCELLED" \in Holds(from["buyer"]) => outcome = "CANCELLED"
    /\ \A message \in Outcomes : Once(message, from["buyer"])
    /\ outcome = "none" \/ Outcomes \cap Holds(from["buyer"]) # {} => "finished" \notin ctl.marks
    /\ outcome = "SETTLED" /\ "OUTCOME_SETTLED" \notin Holds(from["buyer"]) /\ ctl.observed \cap Final = {}
          => "pendingSettlement" \in ctl.marks

\* The parties call the contract for what they published.
StatusOfOutcome ==
    /\ status \in {"AUTHORIZED", "SETTLED"} =>
          outcome = "SETTLED" /\ "OUTCOME_SETTLED" \notin Holds(from["buyer"])
    /\ status = "CANCELLED" =>
          outcome = "CANCELLED" \/ (outcome = "SETTLED" /\ faults > 0)

\* The inductive invariant.
ControllerInv ==
    /\ Types /\ Entered /\ MarksInOrder /\ Commanded /\ OneReport
    /\ OpenedWhenKeyed /\ Indexed /\ OutcomeNoted /\ StatusOfOutcome /\ ReadyIsAnnounced

-----------------------------------------------------------------------------
(* Pipes. *)

\* What is appended is behind everything else.
LEMMA AppendFacts ==
    ASSUME NEW S, NEW queue \in Seq(S), NEW x \in S
    PROVE  /\ Holds(Append(queue, x)) = Holds(queue) \cup {x}
           /\ \A m : Once(m, queue) /\ (m # x \/ m \notin Holds(queue)) => Once(m, Append(queue, x))
           /\ \A m, others : NeverBehind(m, others, queue) /\ (m # x \/ Holds(queue) \cap others = {})
                 => NeverBehind(m, others, Append(queue, x))
<1> DEFINE longer == Append(queue, x)
<1>1. /\ Len(queue) \in Nat /\ Len(longer) = Len(queue) + 1
      /\ \A i \in 1..Len(queue) : longer[i] = queue[i]
      /\ longer[Len(queue) + 1] = x
  OBVIOUS
<1>2. \A i \in 1..Len(longer) : i \in 1..Len(queue) \/ i = Len(queue) + 1
  BY <1>1
<1>2a. 1..Len(queue) \subseteq 1..Len(longer) /\ Len(queue) + 1 \in 1..Len(longer)
  BY <1>1
<1> HIDE DEF longer
<1>3. Holds(longer) = Holds(queue) \cup {x}
  BY <1>1, <1>2, <1>2a DEF Holds
<1>4. ASSUME NEW m, Once(m, queue), m # x \/ m \notin Holds(queue)
      PROVE  Once(m, longer)
  <2> SUFFICES ASSUME NEW i \in 1..Len(longer), NEW j \in 1..Len(longer), longer[i] = m, longer[j] = m
               PROVE  i = j
    BY DEF Once
  <2>1. CASE i \in 1..Len(queue) /\ j \in 1..Len(queue)
    BY <1>1, <1>4, <2>1 DEF Once
  <2>2. CASE i = Len(queue) + 1 \/ j = Len(queue) + 1
    BY <1>1, <1>2, <1>4, <2>2 DEF Holds
  <2> QED
    BY <1>2, <2>1, <2>2
<1>5. ASSUME NEW m, NEW others, NeverBehind(m, others, queue), m # x \/ Holds(queue) \cap others = {}
      PROVE  NeverBehind(m, others, longer)
  <2> SUFFICES ASSUME NEW i \in 1..Len(longer), NEW j \in 1..Len(longer), i < j, longer[i] \in others
               PROVE  longer[j] # m
    BY DEF NeverBehind
  <2>1. i \in 1..Len(queue)
    BY <1>1
  <2>2. CASE j \in 1..Len(queue)
    BY <1>1, <1>5, <2>1, <2>2 DEF NeverBehind
  <2>3. CASE j = Len(queue) + 1
    BY <1>1, <1>5, <2>1, <2>3 DEF Holds
  <2> QED
    BY <1>2, <2>2, <2>3
<1> QED
  BY <1>3, <1>4, <1>5 DEF longer

\* What is taken from a pipe leaves the rest as it was.
LEMMA TailFacts ==
    ASSUME NEW S, NEW queue \in Seq(S), queue # <<>>
    PROVE  /\ Head(queue) \in S /\ Tail(queue) \in Seq(S) /\ Head(queue) \in Holds(queue)
           /\ Holds(queue) = {Head(queue)} \cup Holds(Tail(queue))
           /\ \A m : Once(m, queue) => Once(m, Tail(queue))
                                       /\ (m = Head(queue) => m \notin Holds(Tail(queue)))
           /\ \A m, others : NeverBehind(m, others, queue) =>
                 /\ NeverBehind(m, others, Tail(queue))
                 /\ Head(queue) \in others => m \notin Holds(Tail(queue))
<1> DEFINE rest == Tail(queue)
<1>1. /\ Len(queue) \in Nat /\ Len(queue) = Len(rest) + 1 /\ Len(rest) \in Nat
      /\ \A i \in 1..Len(rest) : rest[i] = queue[i + 1]
      /\ queue[1] = Head(queue) /\ Head(queue) \in S /\ rest \in Seq(S)
  OBVIOUS
<1>2. /\ 1 \in 1..Len(queue) /\ \A i \in 1..Len(rest) : i + 1 \in 1..Len(queue) /\ i + 1 # 1
      /\ \A i \in 1..Len(queue) : i = 1 \/ (i - 1 \in 1..Len(rest) /\ i = (i - 1) + 1)
  BY <1>1
<1> HIDE DEF rest
<1>3. Holds(queue) = {Head(queue)} \cup Holds(rest)
  <2>1. ASSUME NEW m \in Holds(queue) PROVE m \in {Head(queue)} \cup Holds(rest)
    <3>1. PICK i \in 1..Len(queue) : m = queue[i]
      BY DEF Holds
    <3>2. CASE i = 1
      BY <1>1, <3>1, <3>2
    <3>3. CASE i # 1
      <4>1. PICK k \in 1..Len(rest) : i = k + 1
        BY <1>2, <3>3
      <4> QED
        BY <1>1, <3>1, <4>1 DEF Holds
    <3> QED
      BY <3>2, <3>3
  <2>2. ASSUME NEW m \in Holds(rest) PROVE m \in Holds(queue)
    <3>1. PICK i \in 1..Len(rest) : m = rest[i]
      BY DEF Holds
    <3>2. i + 1 \in 1..Len(queue) /\ m = queue[i + 1]
      BY <1>1, <1>2, <3>1
    <3> QED
      BY <3>2 DEF Holds
  <2>3. Head(queue) \in Holds(queue)
    BY <1>1, <1>2 DEF Holds
  <2> QED
    BY <2>1, <2>2, <2>3
<1>4. ASSUME NEW m, Once(m, queue)
      PROVE  Once(m, rest) /\ (m = Head(queue) => m \notin Holds(rest))
  <2>1. Once(m, rest)
    <3> SUFFICES ASSUME NEW i \in 1..Len(rest), NEW j \in 1..Len(rest), rest[i] = m, rest[j] = m
                 PROVE  i = j
      BY DEF Once
    <3>1. i + 1 = j + 1
      BY <1>1, <1>2, <1>4 DEF Once
    <3> QED
      BY <3>1
  <2>2. ASSUME m = Head(queue), m \in Holds(rest) PROVE FALSE
    <3>1. PICK i \in 1..Len(rest) : rest[i] = m
      BY <2>2 DEF Holds
    <3>2. i + 1 = 1
      BY <1>1, <1>2, <1>4, <2>2, <3>1 DEF Once
    <3> QED
      BY <1>2, <3>2
  <2> QED
    BY <2>1, <2>2
<1>5. ASSUME NEW m, NEW others, NeverBehind(m, others, queue)
      PROVE  NeverBehind(m, others, rest) /\ (Head(queue) \in others => m \notin Holds(rest))
  <2>1. NeverBehind(m, others, rest)
    <3> SUFFICES ASSUME NEW i \in 1..Len(rest), NEW j \in 1..Len(rest), i < j, rest[i] \in others
                 PROVE  rest[j] # m
      BY DEF NeverBehind
    <3>1. i + 1 < j + 1 /\ i + 1 \in 1..Len(queue) /\ j + 1 \in 1..Len(queue)
      BY <1>2
    <3> QED
      BY <1>1, <1>5, <3>1 DEF NeverBehind
  <2>2. ASSUME Head(queue) \in others, m \in Holds(rest) PROVE FALSE
    <3>1. PICK i \in 1..Len(rest) : rest[i] = m
      BY <2>2 DEF Holds
    <3>2. 1 < i + 1 /\ i + 1 \in 1..Len(queue) /\ 1 \in 1..Len(queue)
      BY <1>2
    <3> QED
      BY <1>1, <1>5, <2>2, <3>1, <3>2 DEF NeverBehind
  <2> QED
    BY <2>1, <2>2
<1> QED
  BY <1>1, <1>3, <1>4, <1>5 DEF rest

\* An empty pipe holds nothing.
LEMMA EmptyPipe ==
    Holds(<<>>) = {} /\ \A m, others : Once(m, <<>>) /\ NeverBehind(m, others, <<>>)
  BY DEF Holds, Once, NeverBehind

-----------------------------------------------------------------------------
(* The controller's functions. *)

\* The texts that do not show the end of a deal.
Passing == Texts \ {"AGREED", "SETTLED", "CANCELLED"}

\* The marks nothing but a display depends on.
Minor == {"observing", "announced", "displayReady", "chainAuthorized"}

\* From c to d, rows get new texts, minor marks are set, parties are noticed, and
\* nobody gets a command.
Displays(c, d, texts) ==
    /\ d \in Controllers
    /\ d.commitments = c.commitments /\ d.observed = c.observed /\ d.to = c.to
    /\ c.notices \subseteq d.notices
    /\ c.marks \subseteq d.marks /\ d.marks \subseteq c.marks \cup Minor
    /\ \A role \in Parties, row \in Rows : d.rows[role][row] \in {c.rows[role][row]} \cup texts

\* Two displays in a row are one.
LEMMA DisplaysTwice ==
    ASSUME NEW c, NEW d, NEW e, NEW texts, Displays(c, d, texts), Displays(d, e, texts)
    PROVE  Displays(c, e, texts)
  BY DEF Displays

\* A row gets its text.
LEMMA ShowDisplays ==
    ASSUME NEW c \in Controllers, NEW role \in Parties, NEW row \in Rows, NEW texts,
           NEW text \in texts \cap Texts
    PROVE  /\ Displays(c, Show(c, role, row, text), texts)
           /\ Show(c, role, row, text).marks = c.marks /\ Show(c, role, row, text).notices = c.notices
<1>1. PICK d : d = Show(c, role, row, text)
  OBVIOUS
<1>2. PICK rows : rows = [c.rows EXCEPT ![role][row] = text]
  OBVIOUS
<1>3. c.rows \in [Parties -> [Rows -> Texts]]
  BY DEF Controllers
<1>4. /\ rows \in [Parties -> [Rows -> Texts]]
      /\ \A r \in Parties, w \in Rows : rows[r][w] \in {c.rows[r][w]} \cup texts
  BY <1>2, <1>3
<1>5. d = [c EXCEPT !.rows = rows]
  BY <1>1, <1>2 DEF Show, Controllers
<1>6. /\ d \in Controllers /\ d.rows = rows /\ d.commitments = c.commitments
      /\ d.observed = c.observed /\ d.to = c.to /\ d.notices = c.notices /\ d.marks = c.marks
  BY <1>4, <1>5 DEF Controllers
<1> QED
  BY <1>1, <1>4, <1>6 DEF Displays

\* So do both parties' rows.
LEMMA PairDisplays ==
    ASSUME NEW c \in Controllers, NEW row \in Rows, NEW texts, NEW text \in texts \cap Texts
    PROVE  /\ Displays(c, EmitParticipantPair(c, row, text), texts)
           /\ EmitParticipantPair(c, row, text).marks = c.marks
           /\ EmitParticipantPair(c, row, text).notices = c.notices
<1>1. PICK d : d = Show(c, "buyer", row, text)
  OBVIOUS
<1>0. "buyer" \in Parties /\ "seller" \in Parties
  BY DEF Parties
<1>2a. Displays(c, d, texts) /\ d.marks = c.marks /\ d.notices = c.notices
  BY <1>0, <1>1, ShowDisplays
<1>2. Displays(c, d, texts) /\ d \in Controllers /\ d.marks = c.marks /\ d.notices = c.notices
  BY <1>2a DEF Displays
<1>3. PICK e : e = Show(d, "seller", row, text)
  OBVIOUS
<1>4. Displays(d, e, texts) /\ e.marks = d.marks /\ e.notices = d.notices
  BY <1>0, <1>2, <1>3, ShowDisplays
<1>5. e = EmitParticipantPair(c, row, text)
  BY <1>1, <1>3 DEF EmitParticipantPair
<1> QED
  BY <1>2, <1>4, <1>5, DisplaysTwice

\* A minor mark is set.
LEMMA MarkDisplays ==
    ASSUME NEW c \in Controllers, NEW mark \in Minor, NEW texts
    PROVE  Displays(c, Mark(c, mark), texts) /\ Mark(c, mark).marks = c.marks \cup {mark}
             /\ Mark(c, mark).notices = c.notices
<1>1. mark \in Marks
  BY DEF Minor, Marks
<1>2. PICK marks \in SUBSET Marks : marks = c.marks \cup {mark}
  BY <1>1 DEF Controllers
<1>3. PICK d : d = [c EXCEPT !.marks = marks]
  OBVIOUS
<1>4. Mark(c, mark) = d
  BY <1>2, <1>3 DEF Mark, Controllers
<1>5. /\ d \in Controllers /\ d.rows = c.rows /\ d.commitments = c.commitments
      /\ d.observed = c.observed /\ d.to = c.to /\ d.notices = c.notices /\ d.marks = marks
  BY <1>2, <1>3 DEF Controllers
<1> QED
  BY <1>2, <1>4, <1>5 DEF Displays

\* A commitment is noticed once OPEN was observed.
LEMMA NoticeDisplays ==
    ASSUME NEW c \in Controllers, NEW role \in Parties
    PROVE  /\ Displays(c, EmitPeerCommitmentNotice(c, role), Passing)
           /\ EmitPeerCommitmentNotice(c, role).marks = c.marks
           /\ c.commitments = Parties /\ "chainOpen" \in c.marks =>
                 role \in EmitPeerCommitmentNotice(c, role).notices
<1>1. PICK e : e = EmitPeerCommitmentNotice(c, role)
  OBVIOUS
<1>2. CASE Peer(role) \in c.commitments /\ role \notin c.notices /\ "chainOpen" \in c.marks
  <2>1. PICK d : d = Show(c, role, "peer-commitment", "REGISTERED")
    OBVIOUS
  <2>2a. "REGISTERED" \in Passing \cap Texts /\ "peer-commitment" \in Rows
    BY DEF Passing, Texts, Rows
  <2>2b. Displays(c, d, Passing) /\ d.marks = c.marks
    BY <2>1, <2>2a, ShowDisplays
  <2>2. Displays(c, d, Passing) /\ d.marks = c.marks /\ d \in Controllers
    BY <2>2b DEF Displays
  <2>3. PICK notices \in SUBSET Parties : notices = d.notices \cup {role}
    BY <2>2 DEF Controllers
  <2>4. e = [d EXCEPT !.notices = notices]
    BY <1>1, <1>2, <2>1, <2>2, <2>3 DEF EmitPeerCommitmentNotice, Controllers
  <2>5. /\ e \in Controllers /\ e.rows = d.rows /\ e.commitments = d.commitments
        /\ e.observed = d.observed /\ e.to = d.to /\ e.notices = notices /\ e.marks = d.marks
    BY <2>2, <2>3, <2>4 DEF Controllers
  <2>6. Displays(d, e, Passing)
    BY <2>2, <2>3, <2>5 DEF Displays
  <2> QED
    BY <1>1, <2>2, <2>3, <2>5, <2>6, DisplaysTwice
<1>3. CASE ~(Peer(role) \in c.commitments /\ role \notin c.notices /\ "chainOpen" \in c.marks)
  <2>1. e = c
    BY <1>1, <1>3 DEF EmitPeerCommitmentNotice
  <2>2. Peer(role) \in Parties
    BY DEF Peer, Parties
  <2> QED
    BY <1>1, <1>3, <2>1, <2>2 DEF Displays
<1> QED
  BY <1>2, <1>3

\* Notices to both parties are a display.
LEMMA NoticesDisplay ==
    ASSUME NEW c \in Controllers
    PROVE  /\ Displays(c, EmitNotices(c), Passing) /\ EmitNotices(c).marks = c.marks
           /\ c.commitments = Parties /\ "chainOpen" \in c.marks => EmitNotices(c).notices = Parties
<1>1. PICK d : d = EmitPeerCommitmentNotice(c, "buyer")
  OBVIOUS
<1>2. /\ Displays(c, d, Passing) /\ d.marks = c.marks /\ d \in Controllers
      /\ c.commitments = Parties /\ "chainOpen" \in c.marks => "buyer" \in d.notices
  BY <1>1, NoticeDisplays DEF Displays, Parties
<1>3. PICK e : e = EmitPeerCommitmentNotice(d, "seller")
  OBVIOUS
<1>4. /\ Displays(d, e, Passing) /\ e.marks = d.marks /\ e \in Controllers
      /\ d.commitments = Parties /\ "chainOpen" \in d.marks => "seller" \in e.notices
  BY <1>2, <1>3, NoticeDisplays DEF Displays, Parties
<1>5. e = EmitNotices(c)
  BY <1>1, <1>3 DEF EmitNotices
<1>6. c.commitments = Parties /\ "chainOpen" \in c.marks => e.notices = Parties
  <2>1. d.commitments = c.commitments /\ d.notices \subseteq e.notices /\ e.notices \subseteq Parties
    BY <1>2, <1>4 DEF Displays, Controllers
  <2> QED
    BY <1>2, <1>4, <2>1 DEF Parties
<1> QED
  BY <1>2, <1>4, <1>5, <1>6, DisplaysTwice

\* The start is announced when the deal is open.
LEMMA AnnounceDisplays ==
    ASSUME NEW c \in Controllers
    PROVE  /\ Displays(c, AnnounceNegotiation(c), Passing)
           /\ "chainOpen" \in c.marks /\ "finished" \notin c.marks =>
                 "announced" \in AnnounceNegotiation(c).marks
<1>1. PICK e : e = AnnounceNegotiation(c)
  OBVIOUS
<1>2. CASE c.marks \cap {"announced", "finished"} = {} /\ "chainOpen" \in c.marks
  <2>1. PICK b : b = Mark(c, "announced")
    OBVIOUS
  <2>2. Displays(c, b, Passing) /\ b.marks = c.marks \cup {"announced"} /\ b \in Controllers
    BY <2>1, MarkDisplays DEF Minor, Displays
  <2>3. PICK d : d = EmitParticipantPair(b, "negotiation", "NEGOTIATION_START")
    OBVIOUS
  <2>4a. "NEGOTIATION_START" \in Passing \cap Texts /\ "negotiation" \in Rows
    BY DEF Passing, Texts, Rows
  <2>4b. Displays(b, d, Passing) /\ d.marks = b.marks
    BY <2>2, <2>3, <2>4a, PairDisplays
  <2>4. Displays(b, d, Passing) /\ d.marks = b.marks /\ d \in Controllers
    BY <2>4b DEF Displays
  <2>5. e = [d EXCEPT !.timer = TRUE]
    BY <1>1, <1>2, <2>1, <2>3 DEF AnnounceNegotiation
  <2>6. /\ e \in Controllers /\ e.rows = d.rows /\ e.commitments = d.commitments
        /\ e.observed = d.observed /\ e.to = d.to /\ e.notices = d.notices /\ e.marks = d.marks
    BY <2>4, <2>5 DEF Controllers
  <2>7. Displays(d, e, Passing)
    BY <2>6 DEF Displays
  <2> QED
    BY <1>1, <2>2, <2>4, <2>6, <2>7, DisplaysTwice
<1>3. CASE ~(c.marks \cap {"announced", "finished"} = {} /\ "chainOpen" \in c.marks)
  <2>1. e = c
    BY <1>1, <1>3 DEF AnnounceNegotiation
  <2> QED
    BY <1>1, <1>3, <2>1 DEF Displays
<1> QED
  BY <1>2, <1>3

\* A command goes to one process.
LEMMA OneGets ==
    ASSUME NEW c \in Controllers, NEW p \in Processes, NEW command \in Commands \cup ObserverCommands
    PROVE  /\ Send(c, p, command) \in Controllers
           /\ Send(c, p, command).rows = c.rows /\ Send(c, p, command).commitments = c.commitments
           /\ Send(c, p, command).observed = c.observed /\ Send(c, p, command).notices = c.notices
           /\ Send(c, p, command).marks = c.marks
           /\ Send(c, p, command).to[p] = Append(c.to[p], command)
           /\ \A q \in Processes \ {p} : Send(c, p, command).to[q] = c.to[q]
<1>1. PICK d : d = Send(c, p, command)
  OBVIOUS
<1>2. PICK to : to = [c.to EXCEPT ![p] = Append(@, command)]
  OBVIOUS
<1>3. c.to \in [Processes -> Seq(Commands \cup ObserverCommands)]
  BY DEF Controllers
<1>4. Append(c.to[p], command) \in Seq(Commands \cup ObserverCommands)
  BY <1>3
<1>5. /\ to \in [Processes -> Seq(Commands \cup ObserverCommands)]
      /\ to[p] = Append(c.to[p], command)
      /\ \A q \in Processes \ {p} : to[q] = c.to[q]
  BY <1>2, <1>3, <1>4
<1>6. d = [c EXCEPT !.to = to]
  BY <1>1, <1>2 DEF Send, Controllers
<1>7. /\ d \in Controllers /\ d.rows = c.rows /\ d.commitments = c.commitments
      /\ d.observed = c.observed /\ d.notices = c.notices /\ d.marks = c.marks /\ d.to = to
  BY <1>5, <1>6 DEF Controllers
<1> QED
  BY <1>1, <1>5, <1>7

\* A command goes to both parties.
LEMMA BothGet ==
    ASSUME NEW c \in Controllers, NEW command \in Commands
    PROVE  /\ SendBoth(c, command) \in Controllers
           /\ SendBoth(c, command).rows = c.rows
           /\ SendBoth(c, command).commitments = c.commitments
           /\ SendBoth(c, command).observed = c.observed
           /\ SendBoth(c, command).notices = c.notices /\ SendBoth(c, command).marks = c.marks
           /\ SendBoth(c, command).to["observer"] = c.to["observer"]
           /\ \A role \in Parties : SendBoth(c, command).to[role] = Append(c.to[role], command)
<1>0. /\ {"buyer", "seller", "observer"} \subseteq Processes /\ Parties = {"buyer", "seller"}
      /\ command \in Commands \cup ObserverCommands
  BY DEF Processes, Parties
<1>0a. "buyer" \in Processes /\ "seller" \in Processes
  BY <1>0
<1>1. PICK d : d = Send(c, "buyer", command)
  OBVIOUS
<1>2. /\ d \in Controllers /\ d.rows = c.rows /\ d.commitments = c.commitments
      /\ d.observed = c.observed /\ d.notices = c.notices /\ d.marks = c.marks
      /\ d.to["buyer"] = Append(c.to["buyer"], command)
      /\ \A q \in Processes \ {"buyer"} : d.to[q] = c.to[q]
  <2>1. LET sent == Send(c, "buyer", command)
        IN  /\ sent \in Controllers /\ sent.rows = c.rows /\ sent.commitments = c.commitments
            /\ sent.observed = c.observed /\ sent.notices = c.notices /\ sent.marks = c.marks
            /\ sent.to["buyer"] = Append(c.to["buyer"], command)
            /\ \A q \in Processes \ {"buyer"} : sent.to[q] = c.to[q]
    BY <1>0, <1>0a, OneGets
  <2> QED
    BY <1>1, <2>1
<1>3. PICK e : e = Send(d, "seller", command)
  OBVIOUS
<1>4. /\ e \in Controllers /\ e.rows = d.rows /\ e.commitments = d.commitments
      /\ e.observed = d.observed /\ e.notices = d.notices /\ e.marks = d.marks
      /\ e.to["seller"] = Append(d.to["seller"], command)
      /\ \A q \in Processes \ {"seller"} : e.to[q] = d.to[q]
  <2>1. d \in Controllers
    BY <1>2
  <2>2. LET sent == Send(d, "seller", command)
        IN  /\ sent \in Controllers /\ sent.rows = d.rows /\ sent.commitments = d.commitments
            /\ sent.observed = d.observed /\ sent.notices = d.notices /\ sent.marks = d.marks
            /\ sent.to["seller"] = Append(d.to["seller"], command)
            /\ \A q \in Processes \ {"seller"} : sent.to[q] = d.to[q]
    BY <1>0, <1>0a, <2>1, OneGets
  <2> QED
    BY <1>3, <2>2
<1>5. e = SendBoth(c, command)
  BY <1>1, <1>3 DEF SendBoth
<1>6. e.to["observer"] = c.to["observer"] /\ \A role \in Parties : e.to[role] = Append(c.to[role], command)
  BY <1>0, <1>2, <1>4
<1> QED
  BY <1>2, <1>4, <1>5, <1>6

\* A mark is set.
LEMMA MarkFacts ==
    ASSUME NEW c \in Controllers, NEW mark \in Marks
    PROVE  /\ Mark(c, mark) \in Controllers /\ Mark(c, mark).marks = c.marks \cup {mark}
           /\ Mark(c, mark).rows = c.rows /\ Mark(c, mark).commitments = c.commitments
           /\ Mark(c, mark).observed = c.observed /\ Mark(c, mark).notices = c.notices
           /\ Mark(c, mark).to = c.to
<1>1. PICK marks \in SUBSET Marks : marks = c.marks \cup {mark}
  BY DEF Controllers
<1>2. PICK d : d = [c EXCEPT !.marks = marks]
  OBVIOUS
<1>3. Mark(c, mark) = d
  BY <1>1, <1>2 DEF Mark, Controllers
<1>4. /\ d \in Controllers /\ d.marks = marks /\ d.rows = c.rows /\ d.commitments = c.commitments
      /\ d.observed = c.observed /\ d.notices = c.notices /\ d.to = c.to
  BY <1>1, <1>2 DEF Controllers
<1> QED
  BY <1>1, <1>3, <1>4

\* A mark is dropped.
LEMMA UnmarkFacts ==
    ASSUME NEW c \in Controllers, NEW mark
    PROVE  /\ Unmark(c, mark) \in Controllers /\ Unmark(c, mark).marks = c.marks \ {mark}
           /\ Unmark(c, mark).rows = c.rows /\ Unmark(c, mark).commitments = c.commitments
           /\ Unmark(c, mark).observed = c.observed /\ Unmark(c, mark).notices = c.notices
           /\ Unmark(c, mark).to = c.to
<1>1. PICK marks \in SUBSET Marks : marks = c.marks \ {mark}
  BY DEF Controllers
<1>2. PICK d : d = [c EXCEPT !.marks = marks]
  OBVIOUS
<1>3. Unmark(c, mark) = d
  BY <1>1, <1>2 DEF Unmark, Controllers
<1>4. /\ d \in Controllers /\ d.marks = marks /\ d.rows = c.rows /\ d.commitments = c.commitments
      /\ d.observed = c.observed /\ d.notices = c.notices /\ d.to = c.to
  BY <1>1, <1>2 DEF Controllers
<1> QED
  BY <1>1, <1>3, <1>4

-----------------------------------------------------------------------------
(* The controller's handlers. *)

\* Readiness of both parties and the open deal have been announced.
Announced(c) ==
    {"peerReady", "chainOpen"} \subseteq c.marks => c.notices = Parties /\ "announced" \in c.marks

\* From c to d the parties get the command, or none, with the mark it is given
\* for, and rows get new texts.
Serves(c, d, command, texts) ==
    /\ d \in Controllers /\ InOrder(d) /\ Announced(d)
    /\ c.notices \subseteq d.notices
    /\ \A role \in Parties, row \in Rows : d.rows[role][row] \in {c.rows[role][row]} \cup texts
    /\ c.marks \ {"pendingSettlement"} \subseteq d.marks
    /\ \A role \in Parties :
          d.to[role] = IF command = "none" THEN c.to[role] ELSE Append(c.to[role], command)
    /\ command = "PEER_READY" <=> "peerReady" \in d.marks \ c.marks
    /\ command = "START_RUNTIME" <=> "negotiating" \in d.marks \ c.marks

\* What the controller has noted of the negotiation's end.
Noted(c) == c.marks \cap {"finished", "pendingSettlement"}

\* From c to d nothing changes that another part of the system depends on, but
\* for a command to the parties.
Keeps(c, d) ==
    /\ d.commitments = c.commitments /\ d.observed = c.observed
    /\ d.to["observer"] = c.to["observer"] /\ Noted(d) = Noted(c)

\* A display gives no command.
LEMMA DisplaysServes ==
    ASSUME NEW c, NEW d, NEW texts, InOrder(c), Announced(c), Displays(c, d, texts)
    PROVE  Serves(c, d, "none", texts) /\ Keeps(c, d)
<1>1. "peerReady" \in d.marks <=> "peerReady" \in c.marks
  BY DEF Displays, Minor
<1>2. "chainOpen" \in d.marks <=> "chainOpen" \in c.marks
  BY DEF Displays, Minor
<1>3. "negotiating" \in d.marks <=> "negotiating" \in c.marks
  BY DEF Displays, Minor
<1>4. "finished" \in d.marks <=> "finished" \in c.marks
  BY DEF Displays, Minor
<1>5. "pendingSettlement" \in d.marks <=> "pendingSettlement" \in c.marks
  BY DEF Displays, Minor
<1>6. InOrder(d)
  BY <1>1, <1>2, <1>3, <1>4 DEF InOrder, Displays
<1>7. Announced(d)
  BY <1>1, <1>2 DEF Announced, Displays, Controllers
<1>8. Keeps(c, d)
  BY <1>4, <1>5 DEF Keeps, Noted, Displays
<1> QED
  BY <1>1, <1>3, <1>6, <1>7, <1>8 DEF Serves, Displays

\* A command that follows a display.
LEMMA ServesAfterDisplay ==
    ASSUME NEW c, NEW d, NEW e, NEW texts, NEW command, Displays(c, d, texts),
           Serves(d, e, command, texts), Keeps(d, e)
    PROVE  Serves(c, e, command, texts) /\ Keeps(c, e)
<1>1. "peerReady" \in d.marks <=> "peerReady" \in c.marks
  BY DEF Displays, Minor
<1>3. "negotiating" \in d.marks <=> "negotiating" \in c.marks
  BY DEF Displays, Minor
<1>4. "finished" \in d.marks <=> "finished" \in c.marks
  BY DEF Displays, Minor
<1>5. "pendingSettlement" \in d.marks <=> "pendingSettlement" \in c.marks
  BY DEF Displays, Minor
<1>6. Noted(d) = Noted(c)
  BY <1>4, <1>5 DEF Noted
<1> QED
  BY <1>1, <1>3, <1>6 DEF Serves, Keeps, Displays

\* The negotiation starts, or nothing happens.
LEMMA StartServes ==
    ASSUME NEW c \in Controllers, NEW texts, InOrder(c), Announced(c)
    PROVE  /\ \E command \in {"none", "START_RUNTIME"} :
                 Serves(c, TryStartNegotiation(c), command, texts)
           /\ Keeps(c, TryStartNegotiation(c))
<1>1. PICK e : e = TryStartNegotiation(c)
  OBVIOUS
<1>2. CASE {"peerReady", "displayReady", "chainOpen"} \subseteq c.marks /\ c.channels = Parties /\ NotStarted(c)
  <2>1. PICK b : b = Mark(c, "negotiating")
    OBVIOUS
  <2>2. /\ b \in Controllers /\ b.marks = c.marks \cup {"negotiating"} /\ b.rows = c.rows
        /\ b.commitments = c.commitments /\ b.observed = c.observed /\ b.notices = c.notices
        /\ b.to = c.to
    BY <2>1, MarkFacts DEF Marks
  <2>3. e = SendBoth(b, "START_RUNTIME")
    BY <1>1, <1>2, <2>1 DEF TryStartNegotiation
  <2>4. /\ e \in Controllers /\ e.rows = b.rows /\ e.commitments = b.commitments
        /\ e.observed = b.observed /\ e.notices = b.notices /\ e.marks = b.marks
        /\ e.to["observer"] = b.to["observer"]
        /\ \A role \in Parties : e.to[role] = Append(b.to[role], "START_RUNTIME")
    BY <2>2, <2>3, BothGet DEF Commands
  <2>5. InOrder(e) /\ Announced(e)
    BY <1>2, <2>2, <2>4 DEF InOrder, Announced, NotStarted
  <2>6. "negotiating" \notin c.marks
    BY <1>2 DEF NotStarted
  <2>7. Serves(c, e, "START_RUNTIME", texts)
    BY <2>2, <2>4, <2>5, <2>6 DEF Serves
  <2>8. Keeps(c, e)
    BY <2>2, <2>4 DEF Keeps, Noted
  <2> QED
    BY <1>1, <2>7, <2>8
<1>3. CASE ~(/\ {"peerReady", "displayReady", "chainOpen"} \subseteq c.marks
             /\ c.channels = Parties /\ NotStarted(c))
  <2>1. e = c
    BY <1>1, <1>3 DEF TryStartNegotiation
  <2>2. Displays(c, e, texts)
    BY <2>1 DEF Displays
  <2> QED
    BY <1>1, <2>2, DisplaysServes
<1> QED
  BY <1>2, <1>3

\* The negotiation may start after a display.
LEMMA DisplayThenStart ==
    ASSUME NEW c \in Controllers, NEW d, NEW texts, InOrder(c), Announced(c), Displays(c, d, texts)
    PROVE  /\ \E command \in {"none", "START_RUNTIME"} :
                 Serves(c, TryStartNegotiation(d), command, texts)
           /\ Keeps(c, TryStartNegotiation(d))
<1>1. d \in Controllers /\ InOrder(d) /\ Announced(d)
  BY DisplaysServes DEF Serves
<1>2. PICK e : e = TryStartNegotiation(d)
  OBVIOUS
<1>3. PICK command \in {"none", "START_RUNTIME"} : Serves(d, e, command, texts)
  BY <1>1, <1>2, StartServes
<1>4. Keeps(d, e)
  BY <1>1, <1>2, StartServes
<1>5. Serves(c, e, command, texts) /\ Keeps(c, e)
  BY <1>3, <1>4, ServesAfterDisplay
<1> QED
  BY <1>2, <1>5

\* ROOM_JOINED of a party that is not committed.
LEMMA JoinedServes ==
    ASSUME NEW c \in Controllers, NEW role \in Parties, InOrder(c), Announced(c),
           role \notin c.commitments
    PROVE  LET d == AcceptRoomJoined(c, role)
           IN  /\ Serves(c, d, "none", Passing)
               /\ d.commitments = c.commitments /\ d.observed = c.observed /\ Noted(d) = Noted(c)
               /\ \/ d.to["observer"] = c.to["observer"]
                  \/ d.to["observer"] = Append(c.to["observer"], "CONFIGURE_OBSERVER")
<1>0. /\ {"WAITING", "PEER_JOINED"} \subseteq Passing \cap Texts /\ "peer-entry" \in Rows
      /\ "observing" \in Minor /\ "observing" \in Marks
  BY DEF Passing, Texts, Rows, Minor, Marks
<1>1. PICK a : a = [c EXCEPT !.rooms = @ \cup {role}, !.commitments = @ \ {role}]
  OBVIOUS
<1>2. /\ a \in Controllers /\ a.rows = c.rows /\ a.commitments = c.commitments
      /\ a.observed = c.observed /\ a.notices = c.notices /\ a.marks = c.marks /\ a.to = c.to
  <2>1. c.commitments \ {role} = c.commitments
    OBVIOUS
  <2>2. PICK rooms \in SUBSET Parties : rooms = c.rooms \cup {role}
    BY DEF Controllers
  <2>3. a = [c EXCEPT !.rooms = rooms, !.commitments = c.commitments \ {role}]
    BY <1>1, <2>2 DEF Controllers
  <2>4. c.commitments \ {role} \in SUBSET Parties
    BY DEF Controllers
  <2> QED
    BY <2>1, <2>2, <2>3, <2>4 DEF Controllers
<1>3. Displays(c, a, Passing)
  BY <1>2 DEF Displays
<1>4. PICK b : b = IF Peer(role) \in c.rooms THEN a ELSE Show(a, role, "peer-entry", "WAITING")
  OBVIOUS
<1>5. Displays(a, b, Passing)
  <2>1. CASE Peer(role) \in c.rooms
    BY <1>2, <1>4, <2>1 DEF Displays
  <2>2. CASE Peer(role) \notin c.rooms
    BY <1>0, <1>2, <1>4, <2>2, ShowDisplays
  <2> QED
    BY <2>1, <2>2
<1>6. Displays(c, b, Passing) /\ b \in Controllers
  <2>1. Displays(c, b, Passing)
    BY <1>3, <1>5, DisplaysTwice
  <2> QED
    BY <2>1 DEF Displays
<1>7. PICK e : e = AcceptRoomJoined(c, role)
  OBVIOUS
<1>8. e = TryMatchRoom(b)
  BY <1>1, <1>4, <1>7 DEF AcceptRoomJoined
<1>9. CASE b.rooms # Parties
  <2>1. e = b
    BY <1>8, <1>9 DEF TryMatchRoom
  <2>2. Serves(c, e, "none", Passing) /\ Keeps(c, e)
    BY <1>6, <2>1, DisplaysServes
  <2> QED
    BY <1>7, <2>2 DEF Keeps
<1>10. CASE b.rooms = Parties
  <2>1. PICK f : f = EmitParticipantPair(b, "peer-entry", "PEER_JOINED")
    OBVIOUS
  <2>2. Displays(b, f, Passing)
    BY <1>0, <1>6, <2>1, PairDisplays
  <2>3. Displays(c, f, Passing) /\ f \in Controllers
    <3>1. Displays(c, f, Passing)
      BY <1>6, <2>2, DisplaysTwice
    <3> QED
      BY <3>1 DEF Displays
  <2>4. PICK g : g = EmitNotices(f)
    OBVIOUS
  <2>5. Displays(c, g, Passing) /\ g \in Controllers
    <3>1. Displays(f, g, Passing)
      BY <2>3, <2>4, NoticesDisplay
    <3>2. Displays(c, g, Passing)
      BY <2>3, <3>1, DisplaysTwice
    <3> QED
      BY <3>2 DEF Displays
  <2>6. e = ConfigureObserver(g)
    BY <1>8, <1>10, <2>1, <2>4 DEF TryMatchRoom
  <2>7. Serves(c, g, "none", Passing) /\ Keeps(c, g)
    BY <2>5, DisplaysServes
  <2>8. CASE "observing" \in g.marks
    <3>1. e = g
      BY <2>6, <2>8 DEF ConfigureObserver
    <3> QED
      BY <1>7, <2>7, <3>1 DEF Keeps
  <2>9. CASE "observing" \notin g.marks
    <3>1. PICK h : h = Send(g, "observer", "CONFIGURE_OBSERVER")
      OBVIOUS
    <3>2. "observer" \in Processes /\ "CONFIGURE_OBSERVER" \in Commands \cup ObserverCommands
             /\ Parties \subseteq Processes \ {"observer"}
      BY DEF Processes, ObserverCommands, Parties
    <3>3. /\ h \in Controllers /\ h.rows = g.rows /\ h.commitments = g.commitments
          /\ h.observed = g.observed /\ h.notices = g.notices /\ h.marks = g.marks
          /\ h.to["observer"] = Append(g.to["observer"], "CONFIGURE_OBSERVER")
          /\ \A q \in Processes \ {"observer"} : h.to[q] = g.to[q]
      BY <2>5, <3>1, <3>2, OneGets
    <3>4. Serves(c, h, "none", Passing)
      BY <2>7, <3>2, <3>3 DEF Serves, InOrder, Announced
    <3>5. e = Mark(h, "observing")
      BY <2>6, <2>9, <3>1 DEF ConfigureObserver
    <3>6. Displays(h, e, Passing)
      BY <1>0, <3>3, <3>5, MarkDisplays
    <3>7. InOrder(h) /\ Announced(h)
      BY <3>4 DEF Serves
    <3>8. Serves(h, e, "none", Passing) /\ Keeps(h, e)
      BY <3>6, <3>7, DisplaysServes
    <3>9. Serves(c, e, "none", Passing)
      BY <3>4, <3>8 DEF Serves
    <3> QED
      BY <1>7, <2>7, <3>3, <3>8, <3>9 DEF Keeps, Noted
  <2> QED
    BY <2>8, <2>9
<1> QED
  BY <1>9, <1>10

\* COMMITTED of a party.
LEMMA CommittedServes ==
    ASSUME NEW c \in Controllers, NEW role \in Parties, InOrder(c), Announced(c)
    PROVE  LET d == AcceptCommitment(c, role)
           IN  /\ \E command \in {"none", "PEER_READY"} : Serves(c, d, command, Passing)
               /\ d.commitments = c.commitments \cup {role} /\ d.observed = c.observed
               /\ Noted(d) = Noted(c) /\ d.to["observer"] = c.to["observer"]
<1>0. "WAITING" \in Passing \cap Texts /\ "peer-commitment" \in Rows
  BY DEF Passing, Texts, Rows
<1>1. PICK a : a = IF role \in c.notices THEN c ELSE Show(c, role, "peer-commitment", "WAITING")
  OBVIOUS
<1>2. Displays(c, a, Passing)
  <2>1. CASE role \in c.notices
    BY <1>1, <2>1 DEF Displays
  <2>2. CASE role \notin c.notices
    BY <1>0, <1>1, <2>2, ShowDisplays
  <2> QED
    BY <2>1, <2>2
<1>3. a \in Controllers /\ Serves(c, a, "none", Passing) /\ Keeps(c, a) /\ InOrder(a) /\ Announced(a)
  <2>1. Serves(c, a, "none", Passing) /\ Keeps(c, a)
    BY <1>2, DisplaysServes
  <2> QED
    BY <2>1 DEF Serves
<1>4. PICK b : b = [a EXCEPT !.commitments = @ \cup {role}]
  OBVIOUS
<1>5. /\ b \in Controllers /\ b.rows = a.rows /\ b.commitments = c.commitments \cup {role}
      /\ b.observed = a.observed /\ b.notices = a.notices /\ b.marks = a.marks /\ b.to = a.to
  <2>1. PICK set \in SUBSET Parties : set = a.commitments \cup {role}
    BY <1>3 DEF Controllers
  <2>2. b = [a EXCEPT !.commitments = set]
    BY <1>3, <1>4, <2>1 DEF Controllers
  <2> QED
    BY <1>3, <2>1, <2>2 DEF Controllers, Keeps
<1>6. InOrder(b) /\ Announced(b)
  <2>1. "peerReady" \in b.marks => b.commitments = Parties
    BY <1>3, <1>5 DEF InOrder, Keeps, Controllers
  <2> QED
    BY <1>3, <1>5, <2>1 DEF InOrder, Announced
<1>7. Serves(c, b, "none", Passing)
  BY <1>3, <1>5, <1>6 DEF Serves
<1>8. PICK e : e = AcceptCommitment(c, role)
  OBVIOUS
<1>9. e = TryReadySession(b)
  BY <1>1, <1>4, <1>8 DEF AcceptCommitment
<1>10. CASE b.commitments = Parties /\ "peerReady" \notin b.marks
  <2>1. PICK f : f = Mark(b, "peerReady")
    OBVIOUS
  <2>2. /\ f \in Controllers /\ f.marks = b.marks \cup {"peerReady"} /\ f.rows = b.rows
        /\ f.commitments = b.commitments /\ f.observed = b.observed /\ f.notices = b.notices
        /\ f.to = b.to
    BY <1>5, <2>1, MarkFacts DEF Marks
  <2>3. PICK g : g = SendBoth(f, "PEER_READY")
    OBVIOUS
  <2>4. /\ g \in Controllers /\ g.rows = f.rows /\ g.commitments = f.commitments
        /\ g.observed = f.observed /\ g.notices = f.notices /\ g.marks = f.marks
        /\ g.to["observer"] = f.to["observer"]
        /\ \A r \in Parties : g.to[r] = Append(f.to[r], "PEER_READY")
    BY <2>2, <2>3, BothGet DEF Commands
  <2>5. PICK h : h = EmitNotices(g)
    OBVIOUS
  <2>6. /\ Displays(g, h, Passing) /\ h.marks = g.marks
        /\ g.commitments = Parties /\ "chainOpen" \in g.marks => h.notices = Parties
    BY <2>4, <2>5, NoticesDisplay
  <2>7. h \in Controllers
    BY <2>6 DEF Displays
  <2>8. e = AnnounceNegotiation(h)
    BY <1>9, <1>10, <2>1, <2>3, <2>5 DEF TryReadySession
  <2>9. /\ Displays(h, e, Passing)
        /\ "chainOpen" \in h.marks /\ "finished" \notin h.marks => "announced" \in e.marks
    BY <2>7, <2>8, AnnounceDisplays
  <2>10. Displays(g, e, Passing)
    BY <2>6, <2>9, DisplaysTwice
  <2>11. "finished" \notin g.marks
    BY <1>6, <1>10, <2>2, <2>4 DEF InOrder
  <2>12. /\ "chainOpen" \in e.marks <=> "chainOpen" \in g.marks
         /\ "negotiating" \in e.marks <=> "negotiating" \in g.marks
    BY <2>10 DEF Displays, Minor
  <2>13. /\ "finished" \in e.marks <=> "finished" \in g.marks
         /\ "pendingSettlement" \in e.marks <=> "pendingSettlement" \in g.marks
    BY <2>10 DEF Displays, Minor
  <2>14. Announced(e)
    <3>1. h.notices \subseteq e.notices /\ e.notices \subseteq Parties
      BY <2>9 DEF Displays, Controllers
    <3> QED
      BY <1>10, <2>2, <2>4, <2>6, <2>9, <2>11, <2>12, <3>1 DEF Announced
  <2>15. /\ e.commitments = b.commitments /\ e.observed = b.observed /\ e.notices \subseteq Parties
         /\ b.notices \subseteq e.notices /\ "peerReady" \in e.marks /\ b.marks \subseteq e.marks
         /\ e.to = g.to /\ e \in Controllers
    BY <2>2, <2>4, <2>10 DEF Displays, Controllers
  <2>16. InOrder(e)
    BY <1>6, <1>10, <2>2, <2>4, <2>11, <2>12, <2>13, <2>15 DEF InOrder
  <2>17. \A r \in Parties, row \in Rows : e.rows[r][row] \in {b.rows[r][row]} \cup Passing
    BY <2>2, <2>4, <2>10 DEF Displays
  <2>18. "negotiating" \notin e.marks \ b.marks
    BY <2>2, <2>4, <2>12
  <2>19. Serves(b, e, "PEER_READY", Passing)
    BY <1>10, <2>2, <2>4, <2>14, <2>15, <2>16, <2>17, <2>18 DEF Serves
  <2>20. Serves(c, e, "PEER_READY", Passing)
    BY <1>7, <2>19 DEF Serves
  <2>21. Noted(e) = Noted(b)
    BY <2>2, <2>4, <2>13 DEF Noted
  <2>22. Noted(b) = Noted(c) /\ b.observed = c.observed /\ b.to["observer"] = c.to["observer"]
    BY <1>3, <1>5 DEF Keeps, Noted
  <2>23. e.to["observer"] = b.to["observer"]
    BY <2>2, <2>4, <2>15
  <2> QED
    BY <1>5, <1>8, <2>15, <2>20, <2>21, <2>22, <2>23
<1>11. CASE ~(b.commitments = Parties /\ "peerReady" \notin b.marks)
  <2>1. e = b
    BY <1>9, <1>11 DEF TryReadySession
  <2> QED
    BY <1>3, <1>5, <1>7, <1>8, <2>1 DEF Keeps, Noted
<1> QED
  BY <1>10, <1>11

\* RELAY_CHANNEL_READY of a party.
LEMMA ChannelServes ==
    ASSUME NEW c \in Controllers, NEW role \in Parties, InOrder(c), Announced(c)
    PROVE  LET d == AcceptChannel(c, role)
           IN  (\E command \in {"none", "START_RUNTIME"} : Serves(c, d, command, Passing)) /\ Keeps(c, d)
<1>1. PICK a : a = [c EXCEPT !.channels = @ \cup {role}]
  OBVIOUS
<1>2. Displays(c, a, Passing)
  <2>1. PICK set \in SUBSET Parties : set = c.channels \cup {role}
    BY DEF Controllers
  <2>2. a = [c EXCEPT !.channels = set]
    BY <1>1, <2>1 DEF Controllers
  <2>3. /\ a \in Controllers /\ a.rows = c.rows /\ a.commitments = c.commitments
        /\ a.observed = c.observed /\ a.notices = c.notices /\ a.marks = c.marks /\ a.to = c.to
    BY <2>1, <2>2 DEF Controllers
  <2> QED
    BY <2>3 DEF Displays
<1>3. PICK d : d = AcceptChannel(c, role)
  OBVIOUS
<1>4. d = TryStartNegotiation(a)
  BY <1>1, <1>3 DEF AcceptChannel
<1> QED
  BY <1>2, <1>3, <1>4, DisplayThenStart

\* The scheduled callback.
LEMMA TimerServes ==
    ASSUME NEW c \in Controllers, InOrder(c), Announced(c), NEW d,
           LET quiet == [c EXCEPT !.timer = FALSE]
           IN  d = IF "finished" \in quiet.marks THEN quiet
                   ELSE TryStartNegotiation(Mark(
                           EmitParticipantPair(quiet, "negotiation", "NEGOTIATING"), "displayReady"))
    PROVE  (\E command \in {"none", "START_RUNTIME"} : Serves(c, d, command, Passing)) /\ Keeps(c, d)
<1>0. "NEGOTIATING" \in Passing \cap Texts /\ "negotiation" \in Rows /\ "displayReady" \in Minor
  BY DEF Passing, Texts, Rows, Minor
<1>1. PICK a : a = [c EXCEPT !.timer = FALSE]
  OBVIOUS
<1>2. Displays(c, a, Passing) /\ a \in Controllers
  <2>1. /\ a \in Controllers /\ a.rows = c.rows /\ a.commitments = c.commitments
        /\ a.observed = c.observed /\ a.notices = c.notices /\ a.marks = c.marks /\ a.to = c.to
    BY <1>1 DEF Controllers
  <2> QED
    BY <2>1 DEF Displays
<1>3. CASE "finished" \in a.marks
  <2>1. d = a
    BY <1>1, <1>3
  <2> QED
    BY <1>2, <2>1, DisplaysServes
<1>4. CASE "finished" \notin a.marks
  <2>1. PICK b : b = EmitParticipantPair(a, "negotiation", "NEGOTIATING")
    OBVIOUS
  <2>2. Displays(a, b, Passing)
    BY <1>0, <1>2, <2>1, PairDisplays
  <2>3. Displays(c, b, Passing) /\ b \in Controllers
    <3>1. Displays(c, b, Passing)
      BY <1>2, <2>2, DisplaysTwice
    <3> QED
      BY <3>1 DEF Displays
  <2>4. PICK e : e = Mark(b, "displayReady")
    OBVIOUS
  <2>5. Displays(b, e, Passing)
    BY <1>0, <2>3, <2>4, MarkDisplays
  <2>6. Displays(c, e, Passing)
    BY <2>3, <2>5, DisplaysTwice
  <2>7. d = TryStartNegotiation(e)
    BY <1>1, <1>4, <2>1, <2>4
  <2> QED
    BY <2>6, <2>7, DisplayThenStart
<1> QED
  BY <1>3, <1>4

\* The outcome of a negotiation that runs.
LEMMA OutcomeServes ==
    ASSUME NEW c \in Controllers, NEW result \in Final, InOrder(c), Announced(c),
           "negotiating" \in c.marks, "finished" \notin c.marks
    PROVE  LET d == AcceptOutcome(c, result)
           IN  /\ Serves(c, d, "none", Passing)
               /\ d.commitments = c.commitments /\ d.observed = c.observed
               /\ d.to["observer"] = c.to["observer"]
               /\ "pendingSettlement" \in c.marks \/ result = "SETTLED" => "pendingSettlement" \in d.marks
<1>0. /\ {"COMPLETE", "FINALIZING", "VERIFYING"} \subseteq Passing \cap Texts
      /\ {"negotiation", "cancellation", "proof"} \subseteq Rows
      /\ {"finished", "pendingSettlement"} \subseteq Marks
  BY DEF Passing, Texts, Rows, Marks
<1>1. PICK a : a = Mark(c, "finished")
  OBVIOUS
<1>2. /\ a \in Controllers /\ a.marks = c.marks \cup {"finished"} /\ a.rows = c.rows
      /\ a.commitments = c.commitments /\ a.observed = c.observed /\ a.notices = c.notices
      /\ a.to = c.to
  BY <1>0, <1>1, MarkFacts
<1>3. InOrder(a) /\ Announced(a)
  BY <1>2 DEF InOrder, Announced
<1>4. Serves(c, a, "none", Passing)
  BY <1>2, <1>3 DEF Serves
<1>5. PICK b : b = EmitParticipantPair(a, "negotiation", "COMPLETE")
  OBVIOUS
<1>6. Displays(a, b, Passing) /\ b.marks = a.marks /\ b \in Controllers
  <2>1. Displays(a, b, Passing) /\ b.marks = a.marks
    BY <1>0, <1>2, <1>5, PairDisplays
  <2> QED
    BY <2>1 DEF Displays
<1>7. PICK e : e = AcceptOutcome(c, result)
  OBVIOUS
<1>8. CASE result = "CANCELLED"
  <2>1. e = EmitParticipantPair(b, "cancellation", "FINALIZING")
    BY <1>1, <1>5, <1>7, <1>8 DEF AcceptOutcome
  <2>2. Displays(b, e, Passing) /\ e.marks = b.marks
    BY <1>0, <1>6, <2>1, PairDisplays
  <2>3. Displays(a, e, Passing)
    BY <1>6, <2>2, DisplaysTwice
  <2>4. Serves(a, e, "none", Passing) /\ Keeps(a, e)
    BY <1>3, <2>3, DisplaysServes
  <2>5. Serves(c, e, "none", Passing)
    BY <1>4, <2>4 DEF Serves
  <2> QED
    BY <1>2, <1>6, <1>7, <1>8, <2>2, <2>4, <2>5 DEF Keeps
<1>9. CASE result # "CANCELLED"
  <2>1. PICK f : f = Mark(b, "pendingSettlement")
    OBVIOUS
  <2>2. /\ f \in Controllers /\ f.marks = b.marks \cup {"pendingSettlement"} /\ f.rows = b.rows
        /\ f.commitments = b.commitments /\ f.observed = b.observed /\ f.notices = b.notices
        /\ f.to = b.to
    BY <1>0, <1>6, <2>1, MarkFacts
  <2>3. Serves(a, b, "none", Passing) /\ Keeps(a, b)
    BY <1>3, <1>6, DisplaysServes
  <2>4. InOrder(f) /\ Announced(f)
    BY <2>2, <2>3 DEF InOrder, Announced, Serves
  <2>5. Serves(b, f, "none", Passing)
    BY <2>2, <2>4 DEF Serves
  <2>6. e = EmitParticipantPair(f, "proof", "VERIFYING")
    BY <1>1, <1>5, <1>7, <1>9, <2>1 DEF AcceptOutcome
  <2>7. Displays(f, e, Passing) /\ e.marks = f.marks
    BY <1>0, <2>2, <2>6, PairDisplays
  <2>8. Serves(f, e, "none", Passing) /\ Keeps(f, e)
    BY <2>4, <2>7, DisplaysServes
  <2>9. Serves(c, b, "none", Passing)
    BY <1>4, <2>3 DEF Serves
  <2>10. Serves(c, f, "none", Passing)
    BY <2>5, <2>9 DEF Serves
  <2>11. Serves(c, e, "none", Passing)
    BY <2>8, <2>10 DEF Serves
  <2> QED
    BY <1>2, <1>7, <2>2, <2>3, <2>7, <2>8, <2>11 DEF Keeps
<1> QED
  BY <1>8, <1>9

\* An error of the relay.
LEMMA ErrorServes ==
    ASSUME NEW c \in Controllers, NEW role \in Parties, InOrder(c), Announced(c)
    PROVE  LET d == AcceptChannelError(c, role)
           IN  Serves(c, d, "none", Passing) /\ Keeps(c, d)
<1>1. PICK set \in SUBSET Parties : set = c.errors \cup {role}
  BY DEF Controllers
<1>2. PICK d : d = AcceptChannelError(c, role)
  OBVIOUS
<1>3. d = [c EXCEPT !.errors = set]
  BY <1>1, <1>2 DEF AcceptChannelError, Controllers
<1>4. /\ d \in Controllers /\ d.rows = c.rows /\ d.commitments = c.commitments
      /\ d.observed = c.observed /\ d.notices = c.notices /\ d.marks = c.marks /\ d.to = c.to
  BY <1>1, <1>3 DEF Controllers
<1>5. Displays(c, d, Passing)
  BY <1>4 DEF Displays
<1> QED
  BY <1>2, <1>5, DisplaysServes

\* A wallet's state is passed on to the Observer.
LEMMA PassesOn ==
    ASSUME NEW c \in Controllers, NEW state \in ChainStates, InOrder(c), Announced(c)
    PROVE  LET d == Send(c, "observer", state)
           IN  /\ Serves(c, d, "none", Passing) /\ Noted(d) = Noted(c)
               /\ d.commitments = c.commitments /\ d.observed = c.observed
               /\ d.to["observer"] = Append(c.to["observer"], state)
<1>1. PICK d : d = Send(c, "observer", state)
  OBVIOUS
<1>2. "observer" \in Processes /\ state \in Commands \cup ObserverCommands
        /\ Parties \subseteq Processes \ {"observer"}
  BY DEF Processes, ObserverCommands, Parties
<1>3. /\ d \in Controllers /\ d.rows = c.rows /\ d.commitments = c.commitments
      /\ d.observed = c.observed /\ d.notices = c.notices /\ d.marks = c.marks
      /\ d.to["observer"] = Append(c.to["observer"], state)
      /\ \A q \in Processes \ {"observer"} : d.to[q] = c.to[q]
  BY <1>1, <1>2, OneGets
<1>4. InOrder(d) /\ Announced(d)
  BY <1>3 DEF InOrder, Announced
<1>5. Serves(c, d, "none", Passing)
  BY <1>2, <1>3, <1>4 DEF Serves
<1> QED
  BY <1>1, <1>3, <1>5 DEF Noted

\* A chain state is observed.
LEMMA ObservedFacts ==
    ASSUME NEW c \in Controllers, NEW state \in ChainStates, InOrder(c), Announced(c)
    PROVE  LET d == [c EXCEPT !.observed = @ \cup {state}]
           IN  /\ d \in Controllers /\ d.observed = c.observed \cup {state} /\ d.rows = c.rows
               /\ d.commitments = c.commitments /\ d.notices = c.notices /\ d.marks = c.marks
               /\ d.to = c.to /\ InOrder(d) /\ Announced(d) /\ Serves(c, d, "none", {})
<1>1. PICK d : d = [c EXCEPT !.observed = @ \cup {state}]
  OBVIOUS
<1>2. PICK set \in SUBSET ChainStates : set = c.observed \cup {state}
  BY DEF Controllers
<1>3. d = [c EXCEPT !.observed = set]
  BY <1>1, <1>2 DEF Controllers
<1>4. /\ d \in Controllers /\ d.observed = c.observed \cup {state} /\ d.rows = c.rows
      /\ d.commitments = c.commitments /\ d.notices = c.notices /\ d.marks = c.marks
      /\ d.to = c.to
  BY <1>2, <1>3 DEF Controllers
<1>5. InOrder(d) /\ Announced(d)
  BY <1>4 DEF InOrder, Announced
<1>6. Serves(c, d, "none", {})
  BY <1>4, <1>5 DEF Serves
<1> QED
  BY <1>1, <1>4, <1>5, <1>6

\* OPEN is observed.
LEMMA OpenServes ==
    ASSUME NEW c \in Controllers, InOrder(c), Announced(c)
    PROVE  LET d == AcceptObserverEvent(c, "OPEN")
           IN  /\ \E command \in {"none", "START_RUNTIME"} : Serves(c, d, command, Passing)
               /\ d.commitments = c.commitments /\ d.observed = c.observed \cup {"OPEN"}
               /\ d.to["observer"] = c.to["observer"] /\ Noted(d) = Noted(c)
<1>0. "OPEN" \in ChainStates
  BY DEF ChainStates
<1>1. PICK a : a = [c EXCEPT !.observed = @ \cup {"OPEN"}]
  OBVIOUS
<1>2. /\ a \in Controllers /\ a.observed = c.observed \cup {"OPEN"} /\ a.rows = c.rows
      /\ a.commitments = c.commitments /\ a.notices = c.notices /\ a.marks = c.marks
      /\ a.to = c.to /\ InOrder(a) /\ Announced(a)
  BY <1>0, <1>1, ObservedFacts
<1>3. PICK b : b = Mark(a, "chainOpen")
  OBVIOUS
<1>4. /\ b \in Controllers /\ b.marks = a.marks \cup {"chainOpen"} /\ b.rows = a.rows
      /\ b.commitments = a.commitments /\ b.observed = a.observed /\ b.notices = a.notices
      /\ b.to = a.to
  BY <1>2, <1>3, MarkFacts DEF Marks
<1>5. InOrder(b)
  BY <1>2, <1>4 DEF InOrder
<1>6. PICK e : e = AnnounceOpen(b)
  OBVIOUS
<1>7. Displays(b, e, Passing) /\ e \in Controllers /\ Announced(e) /\ InOrder(e)
  <2>1. CASE "peerReady" \in b.marks
    <3>1. PICK f : f = EmitNotices(b)
      OBVIOUS
    <3>2. /\ Displays(b, f, Passing) /\ f.marks = b.marks
          /\ b.commitments = Parties /\ "chainOpen" \in b.marks => f.notices = Parties
      BY <1>4, <3>1, NoticesDisplay
    <3>3. f \in Controllers
      BY <3>2 DEF Displays
    <3>4. e = AnnounceNegotiation(f)
      BY <1>6, <2>1, <3>1 DEF AnnounceOpen
    <3>5. /\ Displays(f, e, Passing)
          /\ "chainOpen" \in f.marks /\ "finished" \notin f.marks => "announced" \in e.marks
      BY <3>3, <3>4, AnnounceDisplays
    <3>6. Displays(b, e, Passing)
      BY <3>2, <3>5, DisplaysTwice
    <3>7. f.notices = Parties
      BY <1>4, <1>5, <2>1, <3>2 DEF InOrder
    <3>8. e.notices = Parties
      BY <3>5, <3>7 DEF Displays, Controllers
    <3>9. "announced" \in e.marks
      <4>1. CASE "finished" \notin f.marks
        BY <1>4, <3>2, <3>5, <4>1
      <4>2. CASE "finished" \in f.marks
        <5>1. "finished" \in a.marks
          BY <1>4, <3>2, <4>2
        <5>2. "announced" \in a.marks
          BY <1>2, <5>1 DEF InOrder, Announced
        <5> QED
          BY <1>4, <3>6, <5>2 DEF Displays
      <4> QED
        BY <4>1, <4>2
    <3>10. Announced(e)
      BY <3>8, <3>9 DEF Announced
    <3>11. /\ "peerReady" \in e.marks <=> "peerReady" \in b.marks
           /\ "chainOpen" \in e.marks <=> "chainOpen" \in b.marks
      BY <3>6 DEF Displays, Minor
    <3>12. /\ "negotiating" \in e.marks <=> "negotiating" \in b.marks
           /\ "finished" \in e.marks <=> "finished" \in b.marks
      BY <3>6 DEF Displays, Minor
    <3>13. InOrder(e) /\ e \in Controllers
      BY <1>5, <3>6, <3>11, <3>12 DEF InOrder, Displays
    <3> QED
      BY <3>6, <3>10, <3>13
  <2>2. CASE "peerReady" \notin b.marks
    <3>1. e = b
      BY <1>6, <2>2 DEF AnnounceOpen
    <3> QED
      BY <1>4, <1>5, <2>2, <3>1 DEF Displays, Announced
  <2> QED
    BY <2>1, <2>2
<1>8. PICK d : d = AcceptObserverEvent(c, "OPEN")
  OBVIOUS
<1>9. d = TryStartNegotiation(e)
  BY <1>1, <1>3, <1>6, <1>8 DEF AcceptObserverEvent, AcceptOpen
<1>10. PICK command \in {"none", "START_RUNTIME"} : Serves(e, d, command, Passing)
  BY <1>7, <1>9, StartServes
<1>11. Keeps(e, d)
  BY <1>7, <1>9, StartServes
<1>12. /\ "peerReady" \in e.marks <=> "peerReady" \in c.marks
       /\ "negotiating" \in e.marks <=> "negotiating" \in c.marks
  BY <1>2, <1>4, <1>7 DEF Displays, Minor
<1>13. Noted(e) = Noted(c)
  <2>1. /\ "finished" \in e.marks <=> "finished" \in c.marks
        /\ "pendingSettlement" \in e.marks <=> "pendingSettlement" \in c.marks
    BY <1>2, <1>4, <1>7 DEF Displays, Minor
  <2> QED
    BY <2>1 DEF Noted
<1>14. /\ e.commitments = c.commitments /\ e.observed = c.observed \cup {"OPEN"} /\ e.to = c.to
       /\ c.notices \subseteq e.notices /\ c.marks \subseteq e.marks
       /\ \A role \in Parties, row \in Rows : e.rows[role][row] \in {c.rows[role][row]} \cup Passing
  BY <1>2, <1>4, <1>7 DEF Displays
<1>15. Serves(c, e, "none", Passing)
  BY <1>7, <1>12, <1>14 DEF Serves
<1>16. Serves(c, d, command, Passing)
  BY <1>10, <1>12, <1>14, <1>15 DEF Serves
<1> QED
  BY <1>8, <1>10, <1>11, <1>13, <1>14, <1>16 DEF Keeps

\* The display of AUTHORIZED.
LEMMA AuthorizedDisplays ==
    ASSUME NEW c \in Controllers
    PROVE  Displays(c, EmitAuthorized(c), Passing)
<1>0. /\ {"PROOFS_COMPLETE", "FINALIZING"} \subseteq Passing \cap Texts
      /\ {"proof", "settlement"} \subseteq Rows /\ "chainAuthorized" \in Minor
  BY DEF Passing, Texts, Rows, Minor
<1>1. PICK a : a = Mark(c, "chainAuthorized")
  OBVIOUS
<1>2. Displays(c, a, Passing) /\ a \in Controllers
  <2>1. Displays(c, a, Passing)
    BY <1>0, <1>1, MarkDisplays
  <2> QED
    BY <2>1 DEF Displays
<1>3. PICK b : b = EmitParticipantPair(a, "proof", "PROOFS_COMPLETE")
  OBVIOUS
<1>4. Displays(a, b, Passing) /\ b \in Controllers
  <2>1. Displays(a, b, Passing)
    BY <1>0, <1>2, <1>3, PairDisplays
  <2> QED
    BY <2>1 DEF Displays
<1>5. PICK e : e = EmitAuthorized(c)
  OBVIOUS
<1>6. e = EmitParticipantPair(b, "settlement", "FINALIZING")
  BY <1>1, <1>3, <1>5 DEF EmitAuthorized
<1>7. Displays(b, e, Passing)
  BY <1>0, <1>4, <1>6, PairDisplays
<1>8. Displays(a, e, Passing)
  BY <1>4, <1>7, DisplaysTwice
<1>9. Displays(c, e, Passing)
  BY <1>2, <1>8, DisplaysTwice
<1> QED
  BY <1>5, <1>9

\* AUTHORIZED is observed.
LEMMA AuthorizedServes ==
    ASSUME NEW c \in Controllers, InOrder(c), Announced(c)
    PROVE  LET d == AcceptObserverEvent(c, "AUTHORIZED")
           IN  /\ Serves(c, d, "none", Passing)
               /\ d.commitments = c.commitments /\ d.observed = c.observed \cup {"AUTHORIZED"}
               /\ d.to["observer"] = c.to["observer"] /\ Noted(d) = Noted(c)
<1>1. PICK a : a = [c EXCEPT !.observed = @ \cup {"AUTHORIZED"}]
  OBVIOUS
<1>2. /\ a \in Controllers /\ a.observed = c.observed \cup {"AUTHORIZED"} /\ a.rows = c.rows
      /\ a.commitments = c.commitments /\ a.notices = c.notices /\ a.marks = c.marks
      /\ a.to = c.to /\ InOrder(a) /\ Announced(a) /\ Serves(c, a, "none", {})
  BY <1>1, ObservedFacts DEF ChainStates
<1>3. PICK d : d = AcceptObserverEvent(c, "AUTHORIZED")
  OBVIOUS
<1>4. d = EmitAuthorized(a)
  BY <1>1, <1>3 DEF AcceptObserverEvent, AcceptAuthorized
<1>5. Displays(a, d, Passing)
  BY <1>2, <1>4, AuthorizedDisplays
<1>6. Serves(a, d, "none", Passing) /\ Keeps(a, d)
  BY <1>2, <1>5, DisplaysServes
<1>7. Serves(c, d, "none", Passing)
  BY <1>2, <1>6 DEF Serves
<1> QED
  BY <1>2, <1>3, <1>6, <1>7 DEF Keeps, Noted

\* The sessions are finalized, without the amount.
LEMMA FinalizeServes ==
    ASSUME NEW c \in Controllers, InOrder(c), Announced(c), NEW texts
    PROVE  LET d == RequestSessionFinalize(Unmark(c, "pendingSettlement"))
           IN  /\ Serves(c, d, "FINALIZE_SESSION", texts)
               /\ d.commitments = c.commitments /\ d.observed = c.observed
               /\ d.to["observer"] = c.to["observer"]
               /\ "finished" \in d.marks <=> "finished" \in c.marks
<1>1. PICK b : b = Unmark(c, "pendingSettlement")
  OBVIOUS
<1>2. /\ b \in Controllers /\ b.marks = c.marks \ {"pendingSettlement"} /\ b.rows = c.rows
      /\ b.commitments = c.commitments /\ b.observed = c.observed /\ b.notices = c.notices
      /\ b.to = c.to
  BY <1>1, UnmarkFacts
<1>3. PICK d : d = SendBoth(b, "FINALIZE_SESSION")
  OBVIOUS
<1>4. /\ d \in Controllers /\ d.rows = b.rows /\ d.commitments = b.commitments
      /\ d.observed = b.observed /\ d.notices = b.notices /\ d.marks = b.marks
      /\ d.to["observer"] = b.to["observer"]
      /\ \A role \in Parties : d.to[role] = Append(b.to[role], "FINALIZE_SESSION")
  BY <1>2, <1>3, BothGet DEF Commands
<1>5. InOrder(d) /\ Announced(d)
  BY <1>2, <1>4 DEF InOrder, Announced
<1>6. Serves(c, d, "FINALIZE_SESSION", texts)
  BY <1>2, <1>4, <1>5 DEF Serves
<1>7. d = RequestSessionFinalize(Unmark(c, "pendingSettlement"))
  BY <1>1, <1>3 DEF RequestSessionFinalize
<1> QED
  BY <1>2, <1>4, <1>6, <1>7

\* CANCELLED is observed.
LEMMA CancelledServes ==
    ASSUME NEW c \in Controllers, InOrder(c), Announced(c)
    PROVE  LET d == AcceptObserverEvent(c, "CANCELLED")
           IN  /\ Serves(c, d, "FINALIZE_SESSION", {"CANCELLED"})
               /\ d.commitments = c.commitments /\ d.observed = c.observed \cup {"CANCELLED"}
               /\ d.to["observer"] = c.to["observer"]
               /\ "finished" \in d.marks <=> "finished" \in c.marks
<1>1. PICK a : a = [c EXCEPT !.observed = @ \cup {"CANCELLED"}]
  OBVIOUS
<1>2. /\ a \in Controllers /\ a.observed = c.observed \cup {"CANCELLED"} /\ a.rows = c.rows
      /\ a.commitments = c.commitments /\ a.notices = c.notices /\ a.marks = c.marks
      /\ a.to = c.to /\ InOrder(a) /\ Announced(a) /\ Serves(c, a, "none", {})
  BY <1>1, ObservedFacts DEF ChainStates
<1>3. PICK b : b = RequestSessionFinalize(Unmark(a, "pendingSettlement"))
  OBVIOUS
<1>4. /\ Serves(a, b, "FINALIZE_SESSION", {"CANCELLED"})
      /\ b.commitments = a.commitments /\ b.observed = a.observed
      /\ b.to["observer"] = a.to["observer"]
      /\ "finished" \in b.marks <=> "finished" \in a.marks
  BY <1>2, <1>3, FinalizeServes
<1>5. b \in Controllers /\ InOrder(b) /\ Announced(b)
  BY <1>4 DEF Serves
<1>6. PICK row \in Rows : row = IF "chainAuthorized" \in a.marks THEN "settlement" ELSE "cancellation"
  BY DEF Rows
<1>7. PICK d : d = AcceptObserverEvent(c, "CANCELLED")
  OBVIOUS
<1>8. d = EmitParticipantPair(b, row, "CANCELLED")
  BY <1>1, <1>3, <1>6, <1>7 DEF AcceptObserverEvent, AcceptCancelled
<1>9. Displays(b, d, {"CANCELLED"})
  BY <1>5, <1>8, PairDisplays DEF Texts
<1>10. Serves(b, d, "none", {"CANCELLED"}) /\ Keeps(b, d)
  BY <1>5, <1>9, DisplaysServes
<1>11. Serves(a, d, "FINALIZE_SESSION", {"CANCELLED"})
  BY <1>4, <1>10 DEF Serves
<1>12. Serves(c, d, "FINALIZE_SESSION", {"CANCELLED"})
  BY <1>2, <1>11 DEF Serves
<1> QED
  BY <1>2, <1>4, <1>7, <1>10, <1>12 DEF Keeps, Noted

\* SETTLED is observed, and the amount is known.
LEMMA SettledServes ==
    ASSUME NEW c \in Controllers, InOrder(c), Announced(c), "pendingSettlement" \in c.marks
    PROVE  LET d == AcceptObserverEvent(c, "SETTLED")
           IN  /\ Serves(c, d, "FINALIZE_SESSION", Texts \ {"CANCELLED"})
               /\ d.commitments = c.commitments /\ d.observed = c.observed \cup {"SETTLED"}
               /\ d.to["observer"] = c.to["observer"]
               /\ "finished" \in d.marks <=> "finished" \in c.marks
<1> DEFINE texts == Texts \ {"CANCELLED"}
<1>0. /\ {"AGREED", "SETTLED"} \subseteq texts \cap Texts /\ {"settlement", "record"} \subseteq Rows
      /\ Passing \subseteq texts
  BY DEF Passing, Texts, Rows
<1>1. PICK a : a = [c EXCEPT !.observed = @ \cup {"SETTLED"}]
  OBVIOUS
<1>2. /\ a \in Controllers /\ a.observed = c.observed \cup {"SETTLED"} /\ a.rows = c.rows
      /\ a.commitments = c.commitments /\ a.notices = c.notices /\ a.marks = c.marks
      /\ a.to = c.to /\ InOrder(a) /\ Announced(a) /\ Serves(c, a, "none", {})
  BY <1>1, ObservedFacts DEF ChainStates
<1>3. PICK b : b = IF "chainAuthorized" \in a.marks THEN a ELSE EmitAuthorized(a)
  OBVIOUS
<1> HIDE DEF texts
<1>4. Displays(a, b, texts)
  <2>1. CASE "chainAuthorized" \in a.marks
    BY <1>2, <1>3, <2>1 DEF Displays
  <2>2. CASE "chainAuthorized" \notin a.marks
    <3>1. Displays(a, b, Passing)
      BY <1>2, <1>3, <2>2, AuthorizedDisplays
    <3> QED
      BY <1>0, <3>1 DEF Displays
  <2> QED
    BY <2>1, <2>2
<1>5. b \in Controllers
  BY <1>4 DEF Displays
<1>6. PICK e : e = EmitParticipantPair(b, "settlement", "AGREED")
  OBVIOUS
<1>7. Displays(b, e, texts) /\ e \in Controllers
  <2>1. Displays(b, e, texts)
    BY <1>0, <1>5, <1>6, PairDisplays
  <2> QED
    BY <2>1 DEF Displays
<1>8. PICK f : f = EmitParticipantPair(e, "record", "SETTLED")
  OBVIOUS
<1>9. Displays(e, f, texts)
  BY <1>0, <1>7, <1>8, PairDisplays
<1>10. Displays(a, f, texts)
  <2>1. Displays(a, e, texts)
    BY <1>4, <1>7, DisplaysTwice
  <2> QED
    BY <1>9, <2>1, DisplaysTwice
<1>11. Serves(a, f, "none", texts) /\ Keeps(a, f)
  BY <1>2, <1>10, DisplaysServes
<1>12. f \in Controllers /\ InOrder(f) /\ Announced(f)
  BY <1>11 DEF Serves
<1>13. PICK d : d = AcceptObserverEvent(c, "SETTLED")
  OBVIOUS
<1>14. d = RequestSessionFinalize(Unmark(f, "pendingSettlement"))
  BY <1>1, <1>2, <1>3, <1>6, <1>8, <1>13 DEF AcceptObserverEvent, AcceptSettled
<1>15. /\ Serves(f, d, "FINALIZE_SESSION", texts)
       /\ d.commitments = f.commitments /\ d.observed = f.observed
       /\ d.to["observer"] = f.to["observer"]
       /\ "finished" \in d.marks <=> "finished" \in f.marks
  BY <1>12, <1>14, FinalizeServes
<1>16. Serves(a, d, "FINALIZE_SESSION", texts)
  BY <1>11, <1>15 DEF Serves
<1>17. Serves(c, d, "FINALIZE_SESSION", texts)
  BY <1>2, <1>16 DEF Serves
<1>18. "finished" \in f.marks <=> "finished" \in a.marks
  BY <1>11 DEF Keeps, Noted
<1>19. d.commitments = c.commitments /\ d.observed = c.observed \cup {"SETTLED"}
         /\ d.to["observer"] = c.to["observer"]
  BY <1>2, <1>11, <1>15 DEF Keeps
<1> QED
  BY <1>2, <1>13, <1>15, <1>17, <1>18, <1>19 DEF texts

\* From c to d the message of the process is handled.
Handled(c, d, process, m, command, texts) ==
    /\ Serves(c, d, command, texts)
    /\ command \in {"none", "PEER_READY", "START_RUNTIME", "FINALIZE_SESSION"}
    /\ d.commitments = c.commitments \cup (IF m = "COMMITTED" THEN {process} ELSE {})
    /\ d.observed = c.observed \cup (IF process = "observer" THEN {m} ELSE {})
    /\ command = "FINALIZE_SESSION" <=> process = "observer" /\ m \in Final
    /\ IF process \in Parties /\ m \in ChainStates
       THEN d.to["observer"] = Append(c.to["observer"], m)
       ELSE \/ d.to["observer"] = c.to["observer"]
            \/ d.to["observer"] = Append(c.to["observer"], "CONFIGURE_OBSERVER")
    /\ "finished" \in d.marks => "finished" \in c.marks \/ m \in Outcomes
    /\ "pendingSettlement" \in c.marks \/ m = "OUTCOME_SETTLED" =>
          "pendingSettlement" \in d.marks \/ command = "FINALIZE_SESSION"
    /\ "CANCELLED" \in texts => process = "observer" /\ m = "CANCELLED"
    /\ "AGREED" \in texts \/ "SETTLED" \in texts => process = "observer" /\ m = "SETTLED"

\* What the controller can rely on when it takes a message.
Expected(c, process, m) ==
    /\ m = "ROOM_JOINED" => process \notin c.commitments
    /\ m \in Outcomes => "negotiating" \in c.marks /\ "finished" \notin c.marks
    /\ process = "observer" /\ m = "SETTLED" => "pendingSettlement" \in c.marks

\* A message of a party is handled.
LEMMA PartyHandled ==
    ASSUME NEW c \in Controllers, InOrder(c), Announced(c), NEW process \in Parties,
           NEW m \in PartyMessages, Expected(c, process, m)
    PROVE  \E command, texts : Handled(c, AcceptMessage(c, process, m), process, m, command, texts)
<1>0. /\ process # "observer" /\ {"AGREED", "SETTLED", "CANCELLED"} \cap Passing = {}
      /\ \A x \in Final : x \in ChainStates
  BY DEF Parties, Passing, Final, ChainStates
<1>1. PICK d : d = AcceptMessage(c, process, m)
  OBVIOUS
<1>2. CASE m = "ROOM_JOINED"
  <2>1. d = AcceptRoomJoined(c, process)
    BY <1>0, <1>1, <1>2 DEF AcceptMessage, ChainStates
  <2>2. /\ Serves(c, d, "none", Passing)
        /\ d.commitments = c.commitments /\ d.observed = c.observed /\ Noted(d) = Noted(c)
        /\ \/ d.to["observer"] = c.to["observer"]
           \/ d.to["observer"] = Append(c.to["observer"], "CONFIGURE_OBSERVER")
    BY <1>2, <2>1, JoinedServes DEF Expected
  <2>3. Handled(c, d, process, m, "none", Passing)
    BY <1>0, <1>2, <2>2 DEF Handled, Noted, ChainStates, Outcomes, Final
  <2> QED
    BY <1>1, <2>3
<1>3. CASE m = "COMMITTED"
  <2>1. d = AcceptCommitment(c, process)
    BY <1>0, <1>1, <1>3 DEF AcceptMessage, ChainStates
  <2>2. /\ \E command \in {"none", "PEER_READY"} : Serves(c, d, command, Passing)
        /\ d.commitments = c.commitments \cup {process} /\ d.observed = c.observed
        /\ Noted(d) = Noted(c) /\ d.to["observer"] = c.to["observer"]
    BY <2>1, CommittedServes
  <2>3. PICK command \in {"none", "PEER_READY"} : Serves(c, d, command, Passing)
    BY <2>2
  <2>4. Handled(c, d, process, m, command, Passing)
    BY <1>0, <1>3, <2>2, <2>3 DEF Handled, Noted, ChainStates, Outcomes, Final
  <2> QED
    BY <1>1, <2>4
<1>4. CASE m = "RELAY_CHANNEL_READY"
  <2>1. d = AcceptChannel(c, process)
    BY <1>0, <1>1, <1>4 DEF AcceptMessage, ChainStates
  <2>2. (\E command \in {"none", "START_RUNTIME"} : Serves(c, d, command, Passing)) /\ Keeps(c, d)
    BY <2>1, ChannelServes
  <2>3. PICK command \in {"none", "START_RUNTIME"} : Serves(c, d, command, Passing)
    BY <2>2
  <2>4. Handled(c, d, process, m, command, Passing)
    BY <1>0, <1>4, <2>2, <2>3 DEF Handled, Keeps, Noted, ChainStates, Outcomes, Final
  <2> QED
    BY <1>1, <2>4
<1>5. CASE m \in Outcomes
  <2>1. PICK result \in Final : result = IF m = "OUTCOME_SETTLED" THEN "SETTLED" ELSE "CANCELLED"
    BY DEF Final
  <2>2. d = AcceptOutcome(c, result)
    BY <1>0, <1>1, <1>5, <2>1 DEF AcceptMessage, Outcomes, ChainStates
  <2>3. /\ Serves(c, d, "none", Passing)
        /\ d.commitments = c.commitments /\ d.observed = c.observed
        /\ d.to["observer"] = c.to["observer"]
        /\ "pendingSettlement" \in c.marks \/ result = "SETTLED" => "pendingSettlement" \in d.marks
    BY <1>5, <2>2, OutcomeServes DEF Expected
  <2>4. m \notin ChainStates /\ m # "COMMITTED"
    BY <1>5 DEF Outcomes, ChainStates
  <2>5. Handled(c, d, process, m, "none", Passing)
    BY <1>0, <1>5, <2>1, <2>3, <2>4 DEF Handled
  <2> QED
    BY <1>1, <2>5
<1>6. CASE m \in ChainStates
  <2>1. d = Send(c, "observer", m)
    BY <1>0, <1>1, <1>6 DEF AcceptMessage, ChainStates
  <2>2. /\ Serves(c, d, "none", Passing) /\ Noted(d) = Noted(c)
        /\ d.commitments = c.commitments /\ d.observed = c.observed
        /\ d.to["observer"] = Append(c.to["observer"], m)
    BY <1>6, <2>1, PassesOn
  <2>3. m # "COMMITTED" /\ m # "OUTCOME_SETTLED"
    BY <1>6 DEF ChainStates
  <2>4. Handled(c, d, process, m, "none", Passing)
    BY <1>0, <1>6, <2>2, <2>3 DEF Handled, Noted
  <2> QED
    BY <1>1, <2>4
<1>7. CASE m = "RELAY_CHANNEL_ERROR"
  <2>1. d = AcceptChannelError(c, process)
    BY <1>0, <1>1, <1>7 DEF AcceptMessage, ChainStates
  <2>2. Serves(c, d, "none", Passing) /\ Keeps(c, d)
    BY <2>1, ErrorServes
  <2>3. Handled(c, d, process, m, "none", Passing)
    BY <1>0, <1>7, <2>2 DEF Handled, Keeps, Noted, ChainStates, Outcomes, Final
  <2> QED
    BY <1>1, <2>3
<1> QED
  BY <1>2, <1>3, <1>4, <1>5, <1>6, <1>7 DEF PartyMessages

\* An event of the Observer is handled.
LEMMA EventHandled ==
    ASSUME NEW c \in Controllers, InOrder(c), Announced(c), NEW m \in ChainStates,
           Expected(c, "observer", m)
    PROVE  \E command, texts : Handled(c, AcceptMessage(c, "observer", m), "observer", m, command, texts)
<1>0. /\ "observer" \notin Parties /\ {"AGREED", "SETTLED", "CANCELLED"} \cap Passing = {}
      /\ m \notin Outcomes /\ m # "COMMITTED" /\ m # "OUTCOME_SETTLED"
  BY DEF Parties, Passing, Outcomes, ChainStates
<1>1. PICK d : d = AcceptObserverEvent(c, m)
  OBVIOUS
<1>2. d = AcceptMessage(c, "observer", m)
  BY <1>1 DEF AcceptMessage
<1>3. CASE m = "OPEN"
  <2>2. /\ \E command \in {"none", "START_RUNTIME"} : Serves(c, d, command, Passing)
        /\ d.commitments = c.commitments /\ d.observed = c.observed \cup {"OPEN"}
        /\ d.to["observer"] = c.to["observer"] /\ Noted(d) = Noted(c)
    BY <1>1, <1>3, OpenServes
  <2>3. PICK command \in {"none", "START_RUNTIME"} : Serves(c, d, command, Passing)
    BY <2>2
  <2>4. Handled(c, d, "observer", m, command, Passing)
    BY <1>0, <1>3, <2>2, <2>3 DEF Handled, Noted, Final
  <2> QED
    BY <1>2, <2>4
<1>4. CASE m = "AUTHORIZED"
  <2>2. /\ Serves(c, d, "none", Passing)
        /\ d.commitments = c.commitments /\ d.observed = c.observed \cup {"AUTHORIZED"}
        /\ d.to["observer"] = c.to["observer"] /\ Noted(d) = Noted(c)
    BY <1>1, <1>4, AuthorizedServes
  <2>4. Handled(c, d, "observer", m, "none", Passing)
    BY <1>0, <1>4, <2>2 DEF Handled, Noted, Final
  <2> QED
    BY <1>2, <2>4
<1>5. CASE m = "CANCELLED"
  <2>2. /\ Serves(c, d, "FINALIZE_SESSION", {"CANCELLED"})
        /\ d.commitments = c.commitments /\ d.observed = c.observed \cup {"CANCELLED"}
        /\ d.to["observer"] = c.to["observer"]
        /\ "finished" \in d.marks <=> "finished" \in c.marks
    BY <1>1, <1>5, CancelledServes
  <2>4. Handled(c, d, "observer", m, "FINALIZE_SESSION", {"CANCELLED"})
    BY <1>0, <1>5, <2>2 DEF Handled, Final
  <2> QED
    BY <1>2, <2>4
<1>6. CASE m = "SETTLED"
  <2>2. /\ Serves(c, d, "FINALIZE_SESSION", Texts \ {"CANCELLED"})
        /\ d.commitments = c.commitments /\ d.observed = c.observed \cup {"SETTLED"}
        /\ d.to["observer"] = c.to["observer"]
        /\ "finished" \in d.marks <=> "finished" \in c.marks
    BY <1>1, <1>6, SettledServes DEF Expected
  <2>4. Handled(c, d, "observer", m, "FINALIZE_SESSION", Texts \ {"CANCELLED"})
    BY <1>0, <1>6, <2>2 DEF Handled, Final
  <2> QED
    BY <1>2, <2>4
<1> QED
  BY <1>3, <1>4, <1>5, <1>6 DEF ChainStates

-----------------------------------------------------------------------------
(* The controller's steps. *)

\* The controller takes message m of the process, or none when the process is
\* no process, and gives the command.
Controls(process, m, command, texts) ==
    /\ Handled(ctl, ctl', process, m, command, texts)
    /\ from' \in [Processes -> Seq(PartyMessages)] /\ from'["observer"] \in Seq(ChainStates)
    /\ \A p \in Processes \ {process} : from'[p] = from[p]
    /\ process \in Processes =>
          from[process] # <<>> /\ m = Head(from[process]) /\ from'[process] = Tail(from[process])
    /\ process \notin Processes => m \notin {"COMMITTED"} \cup Outcomes \cup ChainStates
    /\ entry' \in [Parties -> {"code", "joining", "limit", "locking", "locked"}]
    /\ \A role \in Parties : entry'[role] \in {entry[role], "limit", "locked"}
    /\ UNCHANGED <<repeats, runtimes, chain, poll, faults>>

\* What is observed or on its way to be is what the ledger reached.
LEMMA EventFacts ==
    ASSUME ControllerInv, NEW m \in Holds(from["observer"])
    PROVE  /\ m \in ChainStates /\ Passed(m, status) /\ InView(m) /\ m \notin ctl.observed
           /\ m \in Final => status = m /\ indexed = m /\ ctl.observed \cap Final = {}
<1>1. from["observer"] \in Seq(ChainStates) /\ ctl.observed \subseteq ChainStates
  BY DEF ControllerInv, Types, Controllers
<1>2. m \in ChainStates
  BY <1>1 DEF Holds
<1>3. At(m, "event") /\ "event" \in Places /\ "seen" \in Places
  BY DEF At, Places
<1>4. Passed(m, status) /\ InView(m)
  BY <1>2, <1>3 DEF ControllerInv, OneReport, Indexed
<1>5. m \notin ctl.observed
  <2>1. SUFFICES ASSUME m \in ctl.observed PROVE FALSE
    OBVIOUS
  <2>2. At(m, "seen")
    BY <2>1 DEF At
  <2> QED
    BY <1>2, <1>3, <2>2 DEF ControllerInv, OneReport
<1>6. ASSUME m \in Final PROVE status = m /\ indexed = m /\ ctl.observed \cap Final = {}
  <2>1. status = m
    BY <1>4, <1>6 DEF Passed, Final
  <2>2. indexed = m
    BY <1>4, <1>6 DEF InView
  <2>3. ASSUME NEW x \in ctl.observed \cap Final PROVE FALSE
    <3>1. InView(x)
      BY <2>3 DEF ControllerInv, Indexed
    <3>2. indexed = x
      BY <2>3, <3>1 DEF InView
    <3> QED
      BY <1>5, <2>2, <2>3, <3>2
  <2> QED
    BY <2>1, <2>2, <2>3
<1> QED
  BY <1>2, <1>4, <1>5, <1>6

\* The amount is known when SETTLED is on its way from the Observer.
LEMMA SettledIsKnown ==
    ASSUME ControllerInv, "SETTLED" \in Holds(from["observer"])
    PROVE  "pendingSettlement" \in ctl.marks
<1>1. status = "SETTLED" /\ ctl.observed \cap Final = {}
  BY EventFacts DEF Final
<1>2. outcome = "SETTLED" /\ "OUTCOME_SETTLED" \notin Holds(from["buyer"])
  BY <1>1 DEF ControllerInv, StatusOfOutcome
<1> QED
  BY <1>1, <1>2 DEF ControllerInv, OutcomeNoted

\* The controller handles what it takes from a pipe.
LEMMA AcceptsControls ==
    ASSUME ControllerInv, NEW process \in Processes, ControllerAccepts(process)
    PROVE  \E m, command, texts : Controls(process, m, command, texts)
<1>1. PICK m : m = Head(from[process])
  OBVIOUS
<1>2. /\ from \in [Processes -> Seq(PartyMessages)] /\ from["observer"] \in Seq(ChainStates)
      /\ ctl \in Controllers /\ InOrder(ctl) /\ Announced(ctl)
      /\ entry \in [Parties -> {"code", "joining", "limit", "locking", "locked"}]
      /\ from[process] # <<>>
  BY DEF ControllerInv, Types, MarksInOrder, ReadyIsAnnounced, Announced, ControllerAccepts
<1>3. /\ from[process] \in Seq(PartyMessages) /\ m \in PartyMessages
      /\ Tail(from[process]) \in Seq(PartyMessages) /\ m \in Holds(from[process])
  BY <1>1, <1>2, TailFacts
<1>4. process = "observer" => m \in ChainStates /\ Tail(from[process]) \in Seq(ChainStates)
  BY <1>1, <1>2, TailFacts
<1>5. from' = [from EXCEPT ![process] = Tail(from[process])]
  BY DEF ControllerAccepts
<1>6. /\ from' \in [Processes -> Seq(PartyMessages)] /\ from'["observer"] \in Seq(ChainStates)
      /\ \A p \in Processes \ {process} : from'[p] = from[p]
      /\ from'[process] = Tail(from[process])
  <2>1. "observer" \in Processes
    BY DEF Processes
  <2> QED
    BY <1>2, <1>3, <1>4, <1>5, <2>1
<1>7. /\ entry' \in [Parties -> {"code", "joining", "limit", "locking", "locked"}]
      /\ \A role \in Parties : entry'[role] \in {entry[role], "limit", "locked"}
  <2>1. entry' = [role \in Parties |-> IF role = process THEN PhaseAfter(m, entry[role]) ELSE entry[role]]
    BY <1>1 DEF ControllerAccepts
  <2>2. \A role \in Parties : PhaseAfter(m, entry[role]) \in {entry[role], "limit", "locked"}
    BY DEF PhaseAfter
  <2>3. \A role \in Parties : entry'[role] \in {entry[role], "limit", "locked"}
    BY <2>1, <2>2
  <2>4. \A role \in Parties : entry'[role] \in {"code", "joining", "limit", "locking", "locked"}
    BY <1>2, <2>3
  <2> QED
    BY <2>1, <2>3, <2>4
<1>8. Expected(ctl, process, m)
  <2>1. CASE process = "observer"
    <3>1. m \in ChainStates /\ m \in Holds(from["observer"])
      BY <1>3, <1>4, <2>1
    <3>2. m = "SETTLED" => "pendingSettlement" \in ctl.marks
      BY <3>1, SettledIsKnown
    <3> QED
      BY <3>1, <3>2 DEF Expected, ChainStates, Outcomes
  <2>2. CASE process \in Parties
    <3>1. m = "ROOM_JOINED" => process \notin ctl.commitments
      BY <1>3, <2>2 DEF ControllerInv, Entered
    <3>2. ASSUME m \in Outcomes PROVE "negotiating" \in ctl.marks /\ "finished" \notin ctl.marks
      <4>1. process = "buyer"
        BY <1>3, <2>2, <3>2 DEF ControllerInv, OutcomeNoted, Parties
      <4>2. outcome # "none" /\ "finished" \notin ctl.marks /\ started
        BY <1>3, <3>2, <4>1 DEF ControllerInv, OutcomeNoted, Outcomes
      <4>3. "negotiating" \in ctl.marks
        BY <2>2, <4>2 DEF ControllerInv, Commanded
      <4> QED
        BY <4>2, <4>3
    <3>3. process # "observer"
      BY <2>2 DEF Parties
    <3> QED
      BY <3>1, <3>2, <3>3 DEF Expected
  <2> QED
    BY <2>1, <2>2 DEF Processes
<1>9. ctl' = AcceptMessage(ctl, process, m)
  BY <1>1 DEF ControllerAccepts
<1>10. \E command, texts : Handled(ctl, ctl', process, m, command, texts)
  <2>1. CASE process = "observer"
    BY <1>2, <1>4, <1>8, <1>9, <2>1, EventHandled
  <2>2. CASE process \in Parties
    BY <1>2, <1>3, <1>8, <1>9, <2>2, PartyHandled
  <2> QED
    BY <2>1, <2>2 DEF Processes
<1>11. PICK command, texts : Handled(ctl, ctl', process, m, command, texts)
  BY <1>10
<1>12. UNCHANGED <<repeats, runtimes, chain, poll, faults>>
  BY DEF ControllerAccepts
<1>13. Controls(process, m, command, texts)
  BY <1>1, <1>2, <1>6, <1>7, <1>11, <1>12 DEF Controls
<1> QED
  BY <1>13

\* The timer is a step of the controller without a message.
LEMMA TimerControls ==
    ASSUME ControllerInv, TimerFires
    PROVE  \E process, m, command, texts : Controls(process, m, command, texts)
<1>1. /\ from \in [Processes -> Seq(PartyMessages)] /\ from["observer"] \in Seq(ChainStates)
      /\ ctl \in Controllers /\ InOrder(ctl) /\ Announced(ctl)
      /\ entry \in [Parties -> {"code", "joining", "limit", "locking", "locked"}]
  BY DEF ControllerInv, Types, MarksInOrder, ReadyIsAnnounced, Announced
<1>2. (\E command \in {"none", "START_RUNTIME"} : Serves(ctl, ctl', command, Passing)) /\ Keeps(ctl, ctl')
  BY <1>1, TimerServes DEF TimerFires
<1>3. PICK command \in {"none", "START_RUNTIME"} : Serves(ctl, ctl', command, Passing)
  BY <1>2
<1>4. /\ "timer" \notin Processes /\ "none" \notin {"COMMITTED"} \cup Outcomes \cup ChainStates
      /\ {"AGREED", "SETTLED", "CANCELLED"} \cap Passing = {} /\ "timer" \notin Parties
  BY DEF Processes, Parties, Outcomes, ChainStates, Passing
<1>5. Handled(ctl, ctl', "timer", "none", command, Passing)
  BY <1>2, <1>3, <1>4 DEF Handled, Keeps, Noted
<1>6. from' = from /\ entry' = entry /\ UNCHANGED <<repeats, runtimes, chain, poll, faults>>
  BY DEF TimerFires, page
<1>7. Controls("timer", "none", command, Passing)
  BY <1>1, <1>4, <1>5, <1>6 DEF Controls
<1> QED
  BY <1>7

\* The pipes to the parties after a step of the controller.
LEMMA GivenFacts ==
    ASSUME ControllerInv, NEW process, NEW m, NEW command, NEW texts,
           Controls(process, m, command, texts), NEW role \in Parties
    PROVE  /\ ctl'.to[role] \in Seq(Commands)
           /\ Holds(ctl'.to[role]) = Holds(ctl.to[role]) \cup (IF command = "none" THEN {} ELSE {command})
           /\ \A x : Once(x, ctl.to[role]) /\ (x # command \/ x \notin Holds(ctl.to[role]))
                 => Once(x, ctl'.to[role])
           /\ \A x, others : NeverBehind(x, others, ctl.to[role])
                    /\ (x # command \/ Holds(ctl.to[role]) \cap others = {})
                 => NeverBehind(x, others, ctl'.to[role])
<1>1. ctl.to[role] \in Seq(Commands)
  BY DEF ControllerInv, Types
<1>2. /\ ctl'.to[role] = IF command = "none" THEN ctl.to[role] ELSE Append(ctl.to[role], command)
      /\ command \in {"none", "PEER_READY", "START_RUNTIME", "FINALIZE_SESSION"}
  BY DEF Controls, Handled, Serves
<1>3. CASE command = "none"
  BY <1>1, <1>2, <1>3
<1>4. CASE command # "none"
  <2>1. command \in Commands /\ ctl'.to[role] = Append(ctl.to[role], command)
    BY <1>2, <1>4 DEF Commands
  <2>2. Append(ctl.to[role], command) \in Seq(Commands)
    BY <1>1, <2>1
  <2> QED
    BY <1>1, <1>4, <2>1, <2>2, AppendFacts
<1> QED
  BY <1>3, <1>4

\* The pipes to the controller after its step.
LEMMA TakenFacts ==
    ASSUME ControllerInv, NEW process, NEW m, NEW command, NEW texts,
           Controls(process, m, command, texts), NEW p \in Processes
    PROVE  /\ Holds(from'[p]) \subseteq Holds(from[p])
           /\ \A x : Once(x, from[p]) => Once(x, from'[p])
           /\ \A x, others : NeverBehind(x, others, from[p]) => NeverBehind(x, others, from'[p])
           /\ p # process => from'[p] = from[p]
           /\ p = process =>
                 /\ Holds(from[p]) = {m} \cup Holds(from'[p])
                 /\ Once(m, from[p]) => m \notin Holds(from'[p])
                 /\ \A x, others : NeverBehind(x, others, from[p]) /\ m \in others
                       => x \notin Holds(from'[p])
<1>1. from[p] \in Seq(PartyMessages)
  BY DEF ControllerInv, Types
<1>2. CASE p # process
  BY <1>2 DEF Controls
<1>3. CASE p = process
  <2>1. from[p] # <<>> /\ m = Head(from[p]) /\ from'[p] = Tail(from[p])
    BY <1>3 DEF Controls
  <2>2. /\ Holds(from[p]) = {Head(from[p])} \cup Holds(Tail(from[p]))
        /\ \A x : Once(x, from[p]) => Once(x, Tail(from[p]))
                                     /\ (x = Head(from[p]) => x \notin Holds(Tail(from[p])))
        /\ \A x, others : NeverBehind(x, others, from[p]) =>
              /\ NeverBehind(x, others, Tail(from[p]))
              /\ Head(from[p]) \in others => x \notin Holds(Tail(from[p]))
    BY <1>1, <2>1, TailFacts
  <2> QED
    BY <1>3, <2>1, <2>2
<1> QED
  BY <1>2, <1>3

\* What a step of the controller takes its message from.
LEMMA TakenMessage ==
    ASSUME ControllerInv, NEW process, NEW m, NEW command, NEW texts,
           Controls(process, m, command, texts)
    PROVE  /\ process \in Processes => m \in Holds(from[process])
           /\ process = "observer" => m \in ChainStates /\ m \in Holds(from["observer"])
           /\ m = "COMMITTED" => process \in Parties
           /\ m \in Outcomes => process = "buyer"
           /\ process = "observer" => process \in Processes
<1>1. process \in Processes => m \in Holds(from[process])
  BY TakenFacts
<1>2. "observer" \in Processes /\ "observer" \notin Parties
  BY DEF Processes, Parties
<1>3. process = "observer" => m \in ChainStates /\ m \in Holds(from["observer"])
  BY <1>1, <1>2, EventFacts
<1>4. ChainStates \cap ({"COMMITTED"} \cup Outcomes) = {}
  BY DEF ChainStates, Outcomes
<1>5. m \in {"COMMITTED"} \cup Outcomes => process \in Parties
  <2>1. process \notin Processes => m \notin {"COMMITTED"} \cup Outcomes
    BY DEF Controls
  <2> QED
    BY <1>3, <1>4, <2>1 DEF Processes
<1>6. m \in Outcomes => process = "buyer"
  BY <1>1, <1>5 DEF ControllerInv, OutcomeNoted, Parties, Processes
<1> QED
  BY <1>1, <1>2, <1>3, <1>5, <1>6

\* Who gets a command is locked.
LEMMA CommandsToLocked ==
    ASSUME ControllerInv, NEW process, NEW m, NEW command, NEW texts,
           Controls(process, m, command, texts), command # "none"
    PROVE  locked = Parties
<1>1. Handled(ctl, ctl', process, m, command, texts) /\ locked \subseteq Parties
  BY DEF Controls, ControllerInv, Types
<1>2. CASE command = "FINALIZE_SESSION"
  <2>1. process = "observer" /\ m \in Final
    BY <1>1, <1>2 DEF Handled
  <2>2. status = m
    BY <2>1, TakenMessage, EventFacts
  <2>3. status # "WAITING_SELLER"
    BY <2>1, <2>2 DEF Final
  <2> QED
    BY <2>3 DEF ControllerInv, OpenedWhenKeyed
<1>3. CASE command \in {"PEER_READY", "START_RUNTIME"}
  <2>1. "peerReady" \in ctl'.marks /\ InOrder(ctl')
    BY <1>1, <1>3 DEF Handled, Serves, InOrder
  <2>2. ctl'.commitments = Parties
    BY <2>1 DEF InOrder
  <2>3. ASSUME NEW role \in Parties PROVE role \in locked
    <3>1. role \in ctl.commitments \/ (m = "COMMITTED" /\ role = process)
      BY <1>1, <2>2, <2>3 DEF Handled
    <3>2. CASE role \in ctl.commitments
      BY <2>3, <3>2 DEF ControllerInv, Entered
    <3>3. CASE m = "COMMITTED" /\ role = process
      <4>1. "COMMITTED" \in Holds(from[role])
        BY <2>3, <3>3, TakenMessage DEF Processes
      <4> QED
        BY <2>3, <4>1 DEF ControllerInv, Entered
    <3> QED
      BY <3>1, <3>2, <3>3
  <2> QED
    BY <1>1, <2>3
<1> QED
  BY <1>1, <1>2, <1>3 DEF Handled

\* A step of the controller keeps the order of the entries.
LEMMA ControlsEntered ==
    ASSUME ControllerInv, NEW process, NEW m, NEW command, NEW texts,
           Controls(process, m, command, texts)
    PROVE  Entered'
<1> SUFFICES ASSUME NEW role \in Parties
             PROVE  /\ NeverBehind("JOIN_ROOM", Late, ctl'.to[role])
                    /\ NeverBehind("ROOM_JOINED", {"COMMITTED"}, from'[role])
                    /\ entry'[role] \in {"code", "joining"} =>
                          Holds(ctl'.to[role]) \subseteq {"JOIN_ROOM"} /\ role \notin locked'
                    /\ role \in locked' => "JOIN_ROOM" \notin Holds(ctl'.to[role])
                    /\ "COMMITTED" \in Holds(from'[role]) => role \in locked'
                    /\ role \in ctl'.commitments => role \in locked' /\ "ROOM_JOINED" \notin Holds(from'[role])
  BY DEF Entered
<1>1. /\ NeverBehind("JOIN_ROOM", Late, ctl.to[role])
      /\ NeverBehind("ROOM_JOINED", {"COMMITTED"}, from[role])
      /\ entry[role] \in {"code", "joining"} =>
            Holds(ctl.to[role]) \subseteq {"JOIN_ROOM"} /\ role \notin locked
      /\ role \in locked => "JOIN_ROOM" \notin Holds(ctl.to[role])
      /\ "COMMITTED" \in Holds(from[role]) => role \in locked
      /\ role \in ctl.commitments => role \in locked /\ "ROOM_JOINED" \notin Holds(from[role])
  BY DEF ControllerInv, Entered
<1>2. locked' = locked
  BY DEF Controls, runtimes
<1>3. /\ command # "JOIN_ROOM"
      /\ ctl'.commitments = ctl.commitments \cup (IF m = "COMMITTED" THEN {process} ELSE {})
      /\ entry'[role] \in {entry[role], "limit", "locked"}
  BY DEF Controls, Handled
<1>4. NeverBehind("JOIN_ROOM", Late, ctl'.to[role])
  BY <1>1, <1>3, GivenFacts
<1>5. Holds(ctl'.to[role]) = Holds(ctl.to[role]) \cup (IF command = "none" THEN {} ELSE {command})
  BY GivenFacts
<1>6. command # "none" => role \in locked
  BY CommandsToLocked
<1>7. role \in Processes
  BY DEF Processes
<1>8. /\ NeverBehind("ROOM_JOINED", {"COMMITTED"}, from'[role])
      /\ Holds(from'[role]) \subseteq Holds(from[role])
  BY <1>1, <1>7, TakenFacts
<1>9. role \in ctl'.commitments => role \in locked /\ "ROOM_JOINED" \notin Holds(from'[role])
  <2>1. CASE role \in ctl.commitments
    BY <1>1, <1>8, <2>1
  <2>2. CASE m = "COMMITTED" /\ role = process
    <3>1. "COMMITTED" \in Holds(from[role])
      BY <1>7, <2>2, TakenMessage
    <3>2. "ROOM_JOINED" \notin Holds(from'[role])
      BY <1>1, <1>7, <2>2, TakenFacts
    <3> QED
      BY <1>1, <3>1, <3>2
  <2> QED
    BY <1>3, <2>1, <2>2
<1> QED
  BY <1>1, <1>2, <1>3, <1>4, <1>5, <1>6, <1>8, <1>9

\* A step of the controller gives each command once and in order.
LEMMA ControlsCommanded ==
    ASSUME ControllerInv, NEW process, NEW m, NEW command, NEW texts,
           Controls(process, m, command, texts)
    PROVE  Commanded' /\ MarksInOrder' /\ ReadyIsAnnounced'
<1>1. Handled(ctl, ctl', process, m, command, texts) /\ UNCHANGED <<ready, started, finalizing>>
  BY DEF Controls, runtimes
<1>2. /\ InOrder(ctl') /\ Announced(ctl') /\ ctl.marks \ {"pendingSettlement"} \subseteq ctl'.marks
      /\ command = "PEER_READY" <=> "peerReady" \in ctl'.marks \ ctl.marks
      /\ command = "START_RUNTIME" <=> "negotiating" \in ctl'.marks \ ctl.marks
      /\ ctl'.observed = ctl.observed \cup (IF process = "observer" THEN {m} ELSE {})
      /\ command = "FINALIZE_SESSION" <=> process = "observer" /\ m \in Final
  BY <1>1 DEF Handled, Serves
<1>3. MarksInOrder' /\ ReadyIsAnnounced'
  BY <1>2 DEF MarksInOrder, ReadyIsAnnounced, Announced
<1>4. InOrder(ctl)
  BY DEF ControllerInv, MarksInOrder
<1>5. command = "FINALIZE_SESSION" => ctl.observed \cap Final = {} /\ ctl'.observed \cap Final # {}
  <2>1. SUFFICES ASSUME command = "FINALIZE_SESSION"
                 PROVE  ctl.observed \cap Final = {} /\ ctl'.observed \cap Final # {}
    OBVIOUS
  <2>2. process = "observer" /\ m \in Final
    BY <1>2, <2>1
  <2>3. ctl.observed \cap Final = {}
    BY <2>2, TakenMessage, EventFacts
  <2> QED
    BY <1>2, <2>2, <2>3
<1>6. ASSUME NEW role \in Parties
      PROVE  /\ "peerReady" \in ctl'.marks <=> role \in ready' \/ "PEER_READY" \in Holds(ctl'.to[role])
             /\ NeverBehind("PEER_READY", {"START_RUNTIME"}, ctl'.to[role])
             /\ "START_RUNTIME" \in Holds(ctl'.to[role]) \/ started' => "negotiating" \in ctl'.marks
             /\ Once("START_RUNTIME", ctl'.to[role])
             /\ role = "buyer" /\ started' => "START_RUNTIME" \notin Holds(ctl'.to[role])
             /\ "FINALIZE_SESSION" \in Holds(ctl'.to[role]) \/ role \in finalizing' =>
                   ctl'.observed \cap Final # {}
             /\ Once("FINALIZE_SESSION", ctl'.to[role])
             /\ role \in finalizing' => "FINALIZE_SESSION" \notin Holds(ctl'.to[role])
  <2>1. /\ "peerReady" \in ctl.marks <=> role \in ready \/ "PEER_READY" \in Holds(ctl.to[role])
        /\ NeverBehind("PEER_READY", {"START_RUNTIME"}, ctl.to[role])
        /\ "START_RUNTIME" \in Holds(ctl.to[role]) \/ started => "negotiating" \in ctl.marks
        /\ Once("START_RUNTIME", ctl.to[role])
        /\ role = "buyer" /\ started => "START_RUNTIME" \notin Holds(ctl.to[role])
        /\ "FINALIZE_SESSION" \in Holds(ctl.to[role]) \/ role \in finalizing =>
              ctl.observed \cap Final # {}
        /\ Once("FINALIZE_SESSION", ctl.to[role])
        /\ role \in finalizing => "FINALIZE_SESSION" \notin Holds(ctl.to[role])
    BY <1>6 DEF ControllerInv, Commanded
  <2>2. Holds(ctl'.to[role]) = Holds(ctl.to[role]) \cup (IF command = "none" THEN {} ELSE {command})
    BY <1>6, GivenFacts
  <2>3. "peerReady" \in ctl'.marks <=> role \in ready' \/ "PEER_READY" \in Holds(ctl'.to[role])
    <3>1. "peerReady" \in ctl'.marks <=> "peerReady" \in ctl.marks \/ command = "PEER_READY"
      BY <1>2
    <3>2. "PEER_READY" \in Holds(ctl'.to[role]) <=> "PEER_READY" \in Holds(ctl.to[role]) \/ command = "PEER_READY"
      BY <2>2
    <3> QED
      BY <1>1, <2>1, <3>1, <3>2
  <2>4. NeverBehind("PEER_READY", {"START_RUNTIME"}, ctl'.to[role])
    <3>1. command = "PEER_READY" => "START_RUNTIME" \notin Holds(ctl.to[role])
      BY <1>2, <1>4, <2>1 DEF InOrder
    <3>2. "PEER_READY" # command \/ Holds(ctl.to[role]) \cap {"START_RUNTIME"} = {}
      BY <3>1
    <3> QED
      BY <1>6, <2>1, <3>2, GivenFacts
  <2>5. "START_RUNTIME" \in Holds(ctl'.to[role]) \/ started' => "negotiating" \in ctl'.marks
    BY <1>1, <1>2, <2>1, <2>2
  <2>6. Once("START_RUNTIME", ctl'.to[role])
    <3>1. command = "START_RUNTIME" => "START_RUNTIME" \notin Holds(ctl.to[role])
      BY <1>2, <2>1
    <3> QED
      BY <1>6, <2>1, <3>1, GivenFacts
  <2>7. role = "buyer" /\ started' => "START_RUNTIME" \notin Holds(ctl'.to[role])
    <3>1. started => command # "START_RUNTIME"
      BY <1>2, <2>1
    <3> QED
      BY <1>1, <2>1, <2>2, <3>1
  <2>8. "FINALIZE_SESSION" \in Holds(ctl'.to[role]) \/ role \in finalizing' => ctl'.observed \cap Final # {}
    BY <1>1, <1>2, <1>5, <2>1, <2>2
  <2>9. Once("FINALIZE_SESSION", ctl'.to[role])
    <3>1. command = "FINALIZE_SESSION" => "FINALIZE_SESSION" \notin Holds(ctl.to[role])
      BY <1>5, <2>1
    <3> QED
      BY <1>6, <2>1, <3>1, GivenFacts
  <2>10. role \in finalizing' => "FINALIZE_SESSION" \notin Holds(ctl'.to[role])
    BY <1>1, <1>5, <2>1, <2>2
  <2> QED
    BY <2>3, <2>4, <2>5, <2>6, <2>7, <2>8, <2>9, <2>10
<1> QED
  BY <1>3, <1>6 DEF Commanded

\* A report that moves from one place to another stays in one place.
LEMMA ReportMoves ==
    ASSUME ControllerInv, NEW m \in ChainStates, NEW a \in Places, NEW b \in Places,
           \A state \in ChainStates, where \in Places :
               At(state, where)' => At(state, where) \/ (state = m /\ where = b),
           At(m, a), ~At(m, a)'
    PROVE  \A state \in ChainStates, x, y \in Places : At(state, x)' /\ At(state, y)' => x = y
<1> SUFFICES ASSUME NEW state \in ChainStates, NEW x \in Places, NEW y \in Places,
                    At(state, x)', At(state, y)'
             PROVE  x = y
  OBVIOUS
<1>1. \A s \in ChainStates, p, q \in Places : At(s, p) /\ At(s, q) => p = q
  BY DEF ControllerInv, OneReport
<1>2. CASE state # m
  BY <1>1, <1>2
<1>3. CASE state = m
  <2>1. \A p \in Places : At(m, p)' => p = b
    <3>1. SUFFICES ASSUME NEW p \in Places, At(m, p)', p # b PROVE FALSE
      OBVIOUS
    <3>2. At(m, p)
      BY <3>1
    <3>3. p = a
      BY <1>1, <3>2
    <3> QED
      BY <3>1, <3>3
  <2> QED
    BY <1>3, <2>1
<1> QED
  BY <1>2, <1>3

\* The pipe to the Observer after a step of the controller.
LEMMA ObserverPipe ==
    ASSUME ControllerInv, NEW process, NEW m, NEW command, NEW texts,
           Controls(process, m, command, texts)
    PROVE  /\ ctl'.to["observer"] \in Seq(ObserverCommands)
           /\ \A state \in ChainStates :
                 /\ state \in Holds(ctl'.to["observer"]) =>
                       state \in Holds(ctl.to["observer"]) \/ (state = m /\ process \in Parties)
                 /\ Once(state, ctl'.to["observer"])
<1>1. ctl.to["observer"] \in Seq(ObserverCommands)
  BY DEF ControllerInv, Types
<1>2. \A state \in ChainStates : Once(state, ctl.to["observer"])
  BY DEF ControllerInv, OneReport
<1>3. IF process \in Parties /\ m \in ChainStates
      THEN ctl'.to["observer"] = Append(ctl.to["observer"], m)
      ELSE \/ ctl'.to["observer"] = ctl.to["observer"]
           \/ ctl'.to["observer"] = Append(ctl.to["observer"], "CONFIGURE_OBSERVER")
  BY DEF Controls, Handled
<1>4. "CONFIGURE_OBSERVER" \in ObserverCommands /\ "CONFIGURE_OBSERVER" \notin ChainStates
        /\ ChainStates \subseteq ObserverCommands
  BY DEF ObserverCommands, ChainStates
<1>5. CASE process \in Parties /\ m \in ChainStates
  <2>1. ctl'.to["observer"] = Append(ctl.to["observer"], m)
    BY <1>3, <1>5
  <2>2. m \notin Holds(ctl.to["observer"])
    <3>1. SUFFICES ASSUME m \in Holds(ctl.to["observer"]) PROVE FALSE
      OBVIOUS
    <3>2. m \in Holds(from[process])
      BY <1>5, TakenMessage DEF Processes
    <3>3. PICK a \in {"buyer pipe", "seller pipe"} : At(m, a)
      BY <1>5, <3>2 DEF At, Parties
    <3>4. At(m, "command") /\ a \in Places /\ "command" \in Places /\ a # "command"
      BY <3>1 DEF At, Places
    <3> QED
      BY <1>5, <3>3, <3>4 DEF ControllerInv, OneReport
  <2>3. Holds(ctl'.to["observer"]) = Holds(ctl.to["observer"]) \cup {m}
    BY <1>1, <1>4, <1>5, <2>1, AppendFacts
  <2>4. \A state \in ChainStates : Once(state, ctl'.to["observer"])
    BY <1>1, <1>2, <1>4, <1>5, <2>1, <2>2, AppendFacts
  <2>5. ctl'.to["observer"] \in Seq(ObserverCommands)
    BY <1>1, <1>4, <1>5, <2>1
  <2> QED
    BY <1>5, <2>3, <2>4, <2>5
<1>6. CASE ~(process \in Parties /\ m \in ChainStates) /\ ctl'.to["observer"] = ctl.to["observer"]
  BY <1>1, <1>2, <1>6
<1>7. CASE /\ ~(process \in Parties /\ m \in ChainStates)
           /\ ctl'.to["observer"] = Append(ctl.to["observer"], "CONFIGURE_OBSERVER")
  <2>1. Holds(ctl'.to["observer"]) = Holds(ctl.to["observer"]) \cup {"CONFIGURE_OBSERVER"}
    BY <1>1, <1>4, <1>7, AppendFacts
  <2>2. \A state \in ChainStates : Once(state, ctl'.to["observer"])
    BY <1>1, <1>2, <1>4, <1>7, AppendFacts
  <2>3. ctl'.to["observer"] \in Seq(ObserverCommands)
    BY <1>1, <1>4, <1>7
  <2> QED
    BY <1>4, <2>1, <2>2, <2>3
<1> QED
  BY <1>3, <1>5, <1>6, <1>7

\* The controller passes a report on from place a to place b.
Route(process, a, b) ==
    /\ process \in Parties => b = "command" /\ a \in {"buyer pipe", "seller pipe"}
    /\ process = "observer" => a = "event" /\ b = "seen"

\* A step of the controller passes a report on.
LEMMA ControlsReports ==
    ASSUME ControllerInv, NEW process, NEW m, NEW command, NEW texts,
           Controls(process, m, command, texts)
    PROVE  OneReport'
<1>0. {"buyer", "seller", "observer"} \subseteq Processes /\ Parties = {"buyer", "seller"}
        /\ "observer" \notin Parties /\ \A p \in Processes : p = "observer" \/ p \in Parties
  BY DEF Processes, Parties
<1>1. UNCHANGED <<report, poll, status, opened>>
  BY DEF Controls, runtimes, deal, chain
<1>2. ctl'.observed = ctl.observed \cup (IF process = "observer" THEN {m} ELSE {})
  BY DEF Controls, Handled
<1>3. \A p \in Processes : Holds(from'[p]) \subseteq Holds(from[p])
  BY TakenFacts
<1>4. \A state \in ChainStates : state \in Holds(ctl'.to["observer"]) =>
          state \in Holds(ctl.to["observer"]) \/ (state = m /\ process \in Parties)
  BY ObserverPipe
<1>5. \A state \in ChainStates, where \in Places :
          At(state, where)' => \/ At(state, where)
                               \/ state = m /\ process \in Parties /\ where = "command"
                               \/ state = m /\ process = "observer" /\ where = "seen"
  <2> SUFFICES ASSUME NEW state \in ChainStates, NEW where \in Places, At(state, where)', ~At(state, where)
               PROVE  \/ state = m /\ process \in Parties /\ where = "command"
                      \/ state = m /\ process = "observer" /\ where = "seen"
    OBVIOUS
  <2>1. CASE where \in {"buyer call", "seller call", "poll"}
    BY <1>1, <2>1 DEF At
  <2>2. CASE where \in {"buyer pipe", "seller pipe", "event"}
    BY <1>0, <1>3, <2>2 DEF At
  <2>3. CASE where = "command"
    BY <1>4, <2>3 DEF At
  <2>4. CASE where = "seen"
    BY <1>2, <2>4 DEF At
  <2> QED
    BY <2>1, <2>2, <2>3, <2>4 DEF Places
<1>6. \A state \in ChainStates, p \in Processes : Once(state, from[p])
  BY DEF ControllerInv, OneReport
<1>7. process \in Processes /\ m \in ChainStates =>
          \E a, b \in Places : At(m, a) /\ ~At(m, a)' /\ Route(process, a, b)
  <2> SUFFICES ASSUME process \in Processes, m \in ChainStates
               PROVE  \E a, b \in Places : At(m, a) /\ ~At(m, a)' /\ Route(process, a, b)
    OBVIOUS
  <2>1. m \in Holds(from[process]) /\ m \notin Holds(from'[process])
    BY <1>6, TakenFacts
  <2>2. CASE process = "buyer"
    <3>1. At(m, "buyer pipe") /\ ~At(m, "buyer pipe")'
      BY <2>1, <2>2 DEF At
    <3> QED
      BY <1>0, <2>2, <3>1 DEF Places, Route
  <2>3. CASE process = "seller"
    <3>1. At(m, "seller pipe") /\ ~At(m, "seller pipe")'
      BY <2>1, <2>3 DEF At
    <3> QED
      BY <1>0, <2>3, <3>1 DEF Places, Route
  <2>4. CASE process = "observer"
    <3>1. At(m, "event") /\ ~At(m, "event")'
      BY <2>1, <2>4 DEF At
    <3> QED
      BY <1>0, <2>4, <3>1 DEF Places, Route
  <2> QED
    BY <1>0, <2>2, <2>3, <2>4
<1>8. \A state \in ChainStates, x, y \in Places : At(state, x)' /\ At(state, y)' => x = y
  <2>1. CASE process \in Processes /\ m \in ChainStates
    <3>1. PICK a \in Places, b \in Places :
             At(m, a) /\ ~At(m, a)' /\ Route(process, a, b)
      BY <1>7, <2>1
    <3>2. \A state \in ChainStates, where \in Places :
             At(state, where)' => At(state, where) \/ (state = m /\ where = b)
      BY <1>0, <1>5, <2>1, <3>1 DEF Route
    <3> QED
      BY <2>1, <3>1, <3>2, ReportMoves
  <2>2. CASE ~(process \in Processes /\ m \in ChainStates)
    <3>1. \A state \in ChainStates, where \in Places : At(state, where)' => At(state, where)
      BY <1>0, <1>5, <2>2
    <3> QED
      BY <3>1 DEF ControllerInv, OneReport
  <2> QED
    BY <2>1, <2>2
<1>9. \A state \in ChainStates, where \in Places : At(state, where)' =>
          \E a \in Places : At(state, a) /\ (where \notin {"buyer call", "seller call"} =>
                                                a = where \/ a \notin {"buyer call", "seller call"})
  <2> SUFFICES ASSUME NEW state \in ChainStates, NEW where \in Places, At(state, where)'
               PROVE  \E a \in Places : At(state, a) /\ (where \notin {"buyer call", "seller call"} =>
                                                a = where \/ a \notin {"buyer call", "seller call"})
    OBVIOUS
  <2>1. CASE At(state, where)
    BY <2>1
  <2>2. CASE ~At(state, where)
    <3>1. state = m /\ (process \in Parties \/ process = "observer")
      BY <1>5, <2>2
    <3>2. PICK a \in Places, b \in Places :
             At(m, a) /\ Route(process, a, b)
      BY <1>0, <1>7, <3>1 DEF Processes
    <3> QED
      BY <3>1, <3>2 DEF Route
  <2> QED
    BY <2>1, <2>2
<1>10. \A state \in ChainStates, where \in Places : At(state, where)' => Passed(state, status')
  <2>1. \A state \in ChainStates, where \in Places : At(state, where) => Passed(state, status)
    BY DEF ControllerInv, OneReport
  <2> QED
    BY <1>1, <1>9, <2>1
<1>11. \A where \in Places \ {"buyer call", "seller call"} : At("OPEN", where)' => opened'
  <2>1. \A where \in Places \ {"buyer call", "seller call"} : At("OPEN", where) => opened
    BY DEF ControllerInv, OneReport
  <2>2. "OPEN" \in ChainStates
    BY DEF ChainStates
  <2> QED
    BY <1>1, <1>9, <2>1, <2>2
<1>12. \A state \in ChainStates : Once(state, ctl'.to["observer"])
  BY ObserverPipe
<1>13. \A state \in ChainStates, p \in Processes : Once(state, from'[p])
  BY <1>6, TakenFacts
<1> QED
  BY <1>8, <1>10, <1>11, <1>12, <1>13 DEF OneReport

\* A step of the controller shows what the Indexer shows.
LEMMA ControlsIndexed ==
    ASSUME ControllerInv, NEW process, NEW m, NEW command, NEW texts,
           Controls(process, m, command, texts)
    PROVE  Indexed'
<1>1. UNCHANGED <<poll, status, indexed>>
  BY DEF Controls, chain
<1>2. /\ Serves(ctl, ctl', command, texts)
      /\ ctl'.observed = ctl.observed \cup (IF process = "observer" THEN {m} ELSE {})
      /\ "CANCELLED" \in texts => process = "observer" /\ m = "CANCELLED"
      /\ "AGREED" \in texts \/ "SETTLED" \in texts => process = "observer" /\ m = "SETTLED"
  BY DEF Controls, Handled
<1>3. /\ Later(indexed, status)
      /\ \A state \in ChainStates : poll[state] \notin {"none", "waiting"} => Later(poll[state], indexed)
      /\ \A state \in Holds(from["observer"]) \cup ctl.observed : InView(state)
      /\ \A role \in Parties, row \in Rows :
            /\ ctl.rows[role][row] = "CANCELLED" => indexed = "CANCELLED"
            /\ ctl.rows[role][row] \in {"AGREED", "SETTLED"} => indexed = "SETTLED"
  BY DEF ControllerInv, Indexed
<1>4. Holds(from'["observer"]) \subseteq Holds(from["observer"])
  BY TakenFacts DEF Processes
<1>5. \A state \in Holds(from'["observer"]) \cup ctl'.observed : InView(state)
  BY <1>2, <1>3, <1>4, TakenMessage
<1>6. \A state : InView(state)' <=> InView(state)
  BY <1>1 DEF InView, Passed
<1>7. \A role \in Parties, row \in Rows :
         /\ ctl'.rows[role][row] = "CANCELLED" => indexed' = "CANCELLED"
         /\ ctl'.rows[role][row] \in {"AGREED", "SETTLED"} => indexed' = "SETTLED"
  <2> SUFFICES ASSUME NEW role \in Parties, NEW row \in Rows
               PROVE  /\ ctl'.rows[role][row] = "CANCELLED" => indexed' = "CANCELLED"
                      /\ ctl'.rows[role][row] \in {"AGREED", "SETTLED"} => indexed' = "SETTLED"
    OBVIOUS
  <2>1. ctl'.rows[role][row] \in {ctl.rows[role][row]} \cup texts
    BY <1>2 DEF Serves
  <2>2. CASE ctl'.rows[role][row] = ctl.rows[role][row]
    BY <1>1, <1>3, <2>2
  <2>3. CASE ctl'.rows[role][row] \in texts
    <3>1. ASSUME ctl'.rows[role][row] \in Final PROVE indexed = ctl'.rows[role][row]
      <4>1. process = "observer" /\ m = ctl'.rows[role][row]
        BY <1>2, <2>3, <3>1 DEF Final
      <4> QED
        BY <3>1, <4>1, TakenMessage, EventFacts
    <3>2. ASSUME ctl'.rows[role][row] = "AGREED" PROVE indexed = "SETTLED"
      <4>1. process = "observer" /\ m = "SETTLED"
        BY <1>2, <2>3, <3>2
      <4> QED
        BY <4>1, TakenMessage, EventFacts DEF Final
    <3> QED
      BY <1>1, <3>1, <3>2 DEF Final
  <2> QED
    BY <2>1, <2>2, <2>3
<1>8. \A state \in ChainStates : poll'[state] \notin {"none", "waiting"} => Later(poll'[state], indexed')
  BY <1>1, <1>3
<1>9. Later(indexed', status')
  BY <1>1, <1>3
<1>10. \A state \in Holds(from'["observer"]) \cup ctl'.observed : InView(state)'
  BY <1>5, <1>6
<1> QED
  BY <1>7, <1>8, <1>9, <1>10 DEF Indexed

\* A step of the controller notes the outcome.
LEMMA ControlsOutcome ==
    ASSUME ControllerInv, NEW process, NEW m, NEW command, NEW texts,
           Controls(process, m, command, texts)
    PROVE  OutcomeNoted' /\ StatusOfOutcome' /\ OpenedWhenKeyed'
<1>1. UNCHANGED <<outcome, started, status, faults, locked, keyed, offered>>
  BY DEF Controls, runtimes, deal, chain, room, relay
<1>2. /\ ctl'.observed = ctl.observed \cup (IF process = "observer" THEN {m} ELSE {})
      /\ command = "FINALIZE_SESSION" <=> process = "observer" /\ m \in Final
      /\ "finished" \in ctl'.marks => "finished" \in ctl.marks \/ m \in Outcomes
      /\ "pendingSettlement" \in ctl.marks \/ m = "OUTCOME_SETTLED" =>
            "pendingSettlement" \in ctl'.marks \/ command = "FINALIZE_SESSION"
  BY DEF Controls, Handled
<1>3. {"buyer", "seller"} \subseteq Processes
  BY DEF Processes, Parties
<1>4. /\ Holds(from'["buyer"]) \subseteq Holds(from["buyer"])
      /\ Holds(from'["seller"]) \subseteq Holds(from["seller"])
      /\ \A x : Once(x, from["buyer"]) => Once(x, from'["buyer"])
      /\ process = "buyer" => /\ Holds(from["buyer"]) = {m} \cup Holds(from'["buyer"])
                              /\ Once(m, from["buyer"]) => m \notin Holds(from'["buyer"])
      /\ process # "buyer" => from'["buyer"] = from["buyer"]
  BY <1>3, TakenFacts
<1>5. /\ outcome # "none" => started
      /\ Outcomes \cap Holds(from["seller"]) = {}
      /\ "OUTCOME_SETTLED" \in Holds(from["buyer"]) => outcome = "SETTLED"
      /\ "OUTCOME_CANCELLED" \in Holds(from["buyer"]) => outcome = "CANCELLED"
      /\ \A message \in Outcomes : Once(message, from["buyer"])
      /\ outcome = "none" \/ Outcomes \cap Holds(from["buyer"]) # {} => "finished" \notin ctl.marks
      /\ outcome = "SETTLED" /\ "OUTCOME_SETTLED" \notin Holds(from["buyer"]) /\ ctl.observed \cap Final = {}
            => "pendingSettlement" \in ctl.marks
  BY DEF ControllerInv, OutcomeNoted
<1>6. m \in Outcomes => process = "buyer" /\ m \in Holds(from["buyer"])
  BY <1>3, TakenMessage
<1>7. ASSUME outcome = "none" \/ Outcomes \cap Holds(from'["buyer"]) # {}
      PROVE  "finished" \notin ctl'.marks
  <2>1. "finished" \notin ctl.marks
    BY <1>4, <1>5, <1>7
  <2>2. ASSUME m \in Outcomes PROVE FALSE
    <3>1. outcome # "none"
      BY <1>5, <1>6, <2>2 DEF Outcomes
    <3>2. m \notin Holds(from'["buyer"])
      BY <1>4, <1>5, <1>6, <2>2
    <3>3. PICK other \in Outcomes : other \in Holds(from["buyer"]) /\ other # m
      BY <1>4, <1>7, <3>1, <3>2
    <3>4. (m = "OUTCOME_SETTLED" /\ other = "OUTCOME_CANCELLED")
            \/ (m = "OUTCOME_CANCELLED" /\ other = "OUTCOME_SETTLED")
      BY <2>2, <3>3 DEF Outcomes
    <3> QED
      BY <1>5, <1>6, <2>2, <3>3, <3>4
  <2> QED
    BY <1>2, <2>1, <2>2
<1>8. ASSUME outcome = "SETTLED", "OUTCOME_SETTLED" \notin Holds(from'["buyer"]),
             ctl'.observed \cap Final = {}
      PROVE  "pendingSettlement" \in ctl'.marks
  <2>1. command # "FINALIZE_SESSION" /\ ctl.observed \cap Final = {}
    BY <1>2, <1>8
  <2>2. CASE "OUTCOME_SETTLED" \in Holds(from["buyer"])
    <3>1. m = "OUTCOME_SETTLED"
      BY <1>4, <1>8, <2>2
    <3> QED
      BY <1>2, <2>1, <3>1
  <2>3. CASE "OUTCOME_SETTLED" \notin Holds(from["buyer"])
    BY <1>2, <1>5, <1>8, <2>1, <2>3
  <2> QED
    BY <2>2, <2>3
<1>9. OutcomeNoted'
  <2>1. outcome' # "none" => started'
    BY <1>1, <1>5
  <2>2. Outcomes \cap Holds(from'["seller"]) = {}
    BY <1>4, <1>5
  <2>3. /\ "OUTCOME_SETTLED" \in Holds(from'["buyer"]) => outcome' = "SETTLED"
        /\ "OUTCOME_CANCELLED" \in Holds(from'["buyer"]) => outcome' = "CANCELLED"
        /\ \A message \in Outcomes : Once(message, from'["buyer"])
    BY <1>1, <1>4, <1>5
  <2> QED
    BY <1>1, <1>7, <1>8, <2>1, <2>2, <2>3 DEF OutcomeNoted
<1>10. StatusOfOutcome'
  <2>1. /\ status \in {"AUTHORIZED", "SETTLED"} =>
             outcome = "SETTLED" /\ "OUTCOME_SETTLED" \notin Holds(from["buyer"])
        /\ status = "CANCELLED" => outcome = "CANCELLED" \/ (outcome = "SETTLED" /\ faults > 0)
    BY DEF ControllerInv, StatusOfOutcome
  <2> QED
    BY <1>1, <1>4, <2>1 DEF StatusOfOutcome
<1>11. OpenedWhenKeyed'
  BY <1>1 DEF ControllerInv, OpenedWhenKeyed
<1> QED
  BY <1>9, <1>10, <1>11

\* A step of the controller keeps the invariant.
LEMMA ControlsInv ==
    ASSUME ControllerInv, NEW process, NEW m, NEW command, NEW texts,
           Controls(process, m, command, texts)
    PROVE  ControllerInv'
<1>1. Types'
  <2>1. \A role \in Parties : ctl'.to[role] \in Seq(Commands)
    BY GivenFacts
  <2>2. ctl'.to["observer"] \in Seq(ObserverCommands)
    BY ObserverPipe
  <2>3. /\ ctl' \in Controllers
        /\ from' \in [Processes -> Seq(PartyMessages)] /\ from'["observer"] \in Seq(ChainStates)
        /\ entry' \in [Parties -> {"code", "joining", "limit", "locking", "locked"}]
    BY DEF Controls, Handled, Serves
  <2>4. /\ UNCHANGED <<repeats, joined, place, refused, offered, keyed, locked, ready, finalizing, started, opened>>
        /\ UNCHANGED <<opening, outcome, report, status, indexed, poll, faults>>
    BY DEF Controls, runtimes, room, relay, deal, chain
  <2>5. Types
    BY DEF ControllerInv
  <2> QED
    BY <2>1, <2>2, <2>3, <2>4, <2>5 DEF Types
<1>2. Entered'
  BY ControlsEntered
<1>3. Commanded' /\ MarksInOrder' /\ ReadyIsAnnounced'
  BY ControlsCommanded
<1>4. OneReport'
  BY ControlsReports
<1>5. Indexed'
  BY ControlsIndexed
<1>6. OutcomeNoted' /\ StatusOfOutcome' /\ OpenedWhenKeyed'
  BY ControlsOutcome
<1> QED
  BY <1>1, <1>2, <1>3, <1>4, <1>5, <1>6 DEF ControllerInv

-----------------------------------------------------------------------------
(* The other processes. *)

\* A message goes to the controller.
LEMMA TellsFacts ==
    ASSUME Types, NEW p \in Processes, NEW x \in PartyMessages, p = "observer" => x \in ChainStates,
           Tells(p, x)
    PROVE  /\ from' \in [Processes -> Seq(PartyMessages)] /\ from'["observer"] \in Seq(ChainStates)
           /\ \A q \in Processes \ {p} : from'[q] = from[q]
           /\ Holds(from'[p]) = Holds(from[p]) \cup {x}
           /\ \A m : Once(m, from[p]) /\ (m # x \/ m \notin Holds(from[p])) => Once(m, from'[p])
           /\ \A m, others : NeverBehind(m, others, from[p]) /\ (m # x \/ Holds(from[p]) \cap others = {})
                 => NeverBehind(m, others, from'[p])
<1>1. from \in [Processes -> Seq(PartyMessages)] /\ from["observer"] \in Seq(ChainStates)
        /\ "observer" \in Processes
  BY DEF Types, Processes
<1>2. from' = [from EXCEPT ![p] = Append(from[p], x)]
  BY DEF Tells
<1>3. from[p] \in Seq(PartyMessages) /\ Append(from[p], x) \in Seq(PartyMessages)
  BY <1>1
<1>4. p = "observer" => Append(from[p], x) \in Seq(ChainStates)
  BY <1>1
<1>5. from'[p] = Append(from[p], x) /\ \A q \in Processes \ {p} : from'[q] = from[q]
  BY <1>1, <1>2
<1>6. from' \in [Processes -> Seq(PartyMessages)]
  BY <1>1, <1>2, <1>3
<1>7. from'["observer"] \in Seq(ChainStates)
  BY <1>1, <1>4, <1>5
<1> QED
  BY <1>3, <1>5, <1>6, <1>7, AppendFacts

\* A process takes a command from its pipe.
LEMMA TakesFacts ==
    ASSUME Types, NEW p \in Processes, ctl.to[p] # <<>>, ctl' = [ctl EXCEPT !.to[p] = Tail(@)]
    PROVE  /\ ctl' \in Controllers /\ ctl'.rows = ctl.rows /\ ctl'.commitments = ctl.commitments
           /\ ctl'.observed = ctl.observed /\ ctl'.notices = ctl.notices /\ ctl'.marks = ctl.marks
           /\ \A q \in Processes \ {p} : ctl'.to[q] = ctl.to[q]
           /\ \A role \in Parties : ctl'.to[role] \in Seq(Commands)
           /\ ctl'.to["observer"] \in Seq(ObserverCommands)
           /\ Holds(ctl.to[p]) = {Head(ctl.to[p])} \cup Holds(ctl'.to[p])
           /\ \A m : Once(m, ctl.to[p]) => Once(m, ctl'.to[p])
                                   /\ (m = Head(ctl.to[p]) => m \notin Holds(ctl'.to[p]))
           /\ \A m, others : NeverBehind(m, others, ctl.to[p]) =>
                 /\ NeverBehind(m, others, ctl'.to[p])
                 /\ Head(ctl.to[p]) \in others => m \notin Holds(ctl'.to[p])
<1>1. /\ ctl \in Controllers /\ ctl.to \in [Processes -> Seq(Commands \cup ObserverCommands)]
      /\ ctl.to["observer"] \in Seq(ObserverCommands)
      /\ \A role \in Parties : ctl.to[role] \in Seq(Commands)
      /\ "observer" \in Processes /\ \A q \in Processes : q = "observer" \/ q \in Parties
      /\ Parties \subseteq Processes
  BY DEF Types, Controllers, Processes
<1>2. PICK to : to = [ctl.to EXCEPT ![p] = Tail(ctl.to[p])]
  OBVIOUS
<1>3. ctl.to[p] \in Seq(Commands \cup ObserverCommands) /\ Tail(ctl.to[p]) \in Seq(Commands \cup ObserverCommands)
  BY <1>1, TailFacts
<1>4. /\ p = "observer" => Tail(ctl.to[p]) \in Seq(ObserverCommands)
      /\ p \in Parties => Tail(ctl.to[p]) \in Seq(Commands)
  BY <1>1, TailFacts
<1>5. /\ to \in [Processes -> Seq(Commands \cup ObserverCommands)] /\ to[p] = Tail(ctl.to[p])
      /\ \A q \in Processes \ {p} : to[q] = ctl.to[q]
  BY <1>1, <1>2, <1>3
<1>6. ctl' = [ctl EXCEPT !.to = to]
  BY <1>2 DEF Controllers
<1>7. /\ ctl' \in Controllers /\ ctl'.rows = ctl.rows /\ ctl'.commitments = ctl.commitments
      /\ ctl'.observed = ctl.observed /\ ctl'.notices = ctl.notices /\ ctl'.marks = ctl.marks
      /\ ctl'.to = to
  BY <1>1, <1>5, <1>6 DEF Controllers
<1>8. /\ \A role \in Parties : to[role] \in Seq(Commands)
      /\ to["observer"] \in Seq(ObserverCommands)
  BY <1>1, <1>4, <1>5
<1>9. /\ Holds(ctl.to[p]) = {Head(ctl.to[p])} \cup Holds(Tail(ctl.to[p]))
      /\ \A m : Once(m, ctl.to[p]) => Once(m, Tail(ctl.to[p]))
                              /\ (m = Head(ctl.to[p]) => m \notin Holds(Tail(ctl.to[p])))
      /\ \A m, others : NeverBehind(m, others, ctl.to[p]) =>
            /\ NeverBehind(m, others, Tail(ctl.to[p]))
            /\ Head(ctl.to[p]) \in others => m \notin Holds(Tail(ctl.to[p]))
  BY <1>3, TailFacts
<1>10. ctl'.to[p] = Tail(ctl.to[p]) /\ \A q \in Processes \ {p} : ctl'.to[q] = ctl.to[q]
  BY <1>5, <1>7
<1> QED
  BY <1>7, <1>8, <1>9, <1>10

\* What is reported of the chain depends on these variables only.
LEMMA ReportsUntouched ==
    ASSUME ControllerInv, NEW more, more \cap ChainStates = {},
           report' = report, poll' = poll, status' = status, opened' = opened,
           ctl'.observed = ctl.observed, ctl'.to["observer"] = ctl.to["observer"],
           \A p \in Processes : Holds(from'[p]) \subseteq Holds(from[p]) \cup more,
           \A p \in Processes, state \in ChainStates : Once(state, from[p]) => Once(state, from'[p])
    PROVE  OneReport'
<1>1. {"buyer", "seller", "observer"} \subseteq Processes
  BY DEF Processes, Parties
<1>2. \A state \in ChainStates, where \in Places : At(state, where)' => At(state, where)
  <2> SUFFICES ASSUME NEW state \in ChainStates, NEW where \in Places, At(state, where)'
               PROVE  At(state, where)
    OBVIOUS
  <2>1. CASE where \in {"buyer pipe", "seller pipe", "event"}
    <3>1. \A p \in Processes : state \in Holds(from'[p]) => state \in Holds(from[p])
      OBVIOUS
    <3> QED
      BY <1>1, <2>1, <3>1 DEF At
  <2>2. CASE where \notin {"buyer pipe", "seller pipe", "event"}
    BY <2>2 DEF At
  <2> QED
    BY <2>1, <2>2
<1>3. OneReport /\ "OPEN" \in ChainStates
  BY DEF ControllerInv, ChainStates
<1>4. /\ \A state \in ChainStates, a, b \in Places : At(state, a)' /\ At(state, b)' => a = b
      /\ \A state \in ChainStates, where \in Places : At(state, where)' => Passed(state, status')
  BY <1>2, <1>3 DEF OneReport
<1>5. \A where \in Places \ {"buyer call", "seller call"} : At("OPEN", where)' => opened'
  BY <1>2, <1>3 DEF OneReport
<1>6. \A state \in ChainStates : /\ Once(state, ctl'.to["observer"])
                                 /\ \A p \in Processes : Once(state, from'[p])
  BY <1>3 DEF OneReport
<1> QED
  BY <1>4, <1>5, <1>6 DEF OneReport

\* A user's entry.
LEMMA SubmitsInv ==
    ASSUME ControllerInv, NEW role \in Parties, UserSubmits(role), MaxRepeats \in Nat
    PROVE  ControllerInv'
<1>1. PICK command \in {"JOIN_ROOM", "SET_LIMIT"} :
         \/ command = "JOIN_ROOM" /\ entry[role] \in {"code", "joining"} /\ Submits(role, command, "joining")
         \/ command = "SET_LIMIT" /\ entry[role] \in {"limit", "locking"} /\ Submits(role, command, "locking")
  BY DEF UserSubmits
<1>2. repeats' \in 0..MaxRepeats
  BY DEF UserSubmits, ControllerInv, Types
<1>3. PICK phase \in {"joining", "locking"} :
         /\ Submits(role, command, phase)
         /\ command = "JOIN_ROOM" => entry[role] \in {"code", "joining"}
         /\ command = "SET_LIMIT" => phase = "locking"
  BY <1>1
<1>4. /\ entry' = [entry EXCEPT ![role] = phase] /\ ctl' = Send(ctl, role, command)
      /\ UNCHANGED <<from, joined, place, refused, offered, keyed, locked, ready, started, outcome, report>>
      /\ UNCHANGED <<opened, opening, finalizing, status, indexed, poll, faults>>
  BY <1>3 DEF Submits, runtimes, room, relay, deal, chain
<1>5. /\ ctl \in Controllers /\ role \in Processes /\ command \in Commands
      /\ ctl.to["observer"] \in Seq(ObserverCommands)
      /\ \A r \in Parties : ctl.to[r] \in Seq(Commands)
      /\ entry \in [Parties -> {"code", "joining", "limit", "locking", "locked"}]
      /\ "observer" \in Processes \ {role} /\ Parties \subseteq Processes
  BY DEF ControllerInv, Types, Processes, Parties, Commands
<1>6. /\ ctl' \in Controllers /\ ctl'.rows = ctl.rows /\ ctl'.commitments = ctl.commitments
      /\ ctl'.observed = ctl.observed /\ ctl'.notices = ctl.notices /\ ctl'.marks = ctl.marks
      /\ ctl'.to[role] = Append(ctl.to[role], command)
      /\ \A q \in Processes \ {role} : ctl'.to[q] = ctl.to[q]
  <2>1. PICK d : d = Send(ctl, role, command)
    OBVIOUS
  <2>2. command \in Commands \cup ObserverCommands
    BY <1>5
  <2>3. /\ d \in Controllers /\ d.rows = ctl.rows /\ d.commitments = ctl.commitments
        /\ d.observed = ctl.observed /\ d.notices = ctl.notices /\ d.marks = ctl.marks
        /\ d.to[role] = Append(ctl.to[role], command)
        /\ \A q \in Processes \ {role} : d.to[q] = ctl.to[q]
    BY <1>5, <2>1, <2>2, OneGets
  <2>4. ctl' = d
    BY <1>4, <2>1
  <2> QED
    BY <2>3, <2>4
<1>7. /\ Holds(ctl'.to[role]) = Holds(ctl.to[role]) \cup {command}
      /\ \A m : Once(m, ctl.to[role]) /\ (m # command \/ m \notin Holds(ctl.to[role]))
            => Once(m, ctl'.to[role])
      /\ \A m, others : NeverBehind(m, others, ctl.to[role]) /\ (m # command \/ Holds(ctl.to[role]) \cap others = {})
            => NeverBehind(m, others, ctl'.to[role])
  BY <1>5, <1>6, AppendFacts
<1>8. /\ entry' \in [Parties -> {"code", "joining", "limit", "locking", "locked"}]
      /\ entry'[role] = phase /\ \A r \in Parties \ {role} : entry'[r] = entry[r]
  BY <1>3, <1>4, <1>5
<1>9. Types'
  <2>1. Append(ctl.to[role], command) \in Seq(Commands)
    BY <1>5
  <2>2. \A r \in Parties : ctl'.to[r] \in Seq(Commands)
    BY <1>5, <1>6, <2>1
  <2>3. ctl'.to["observer"] \in Seq(ObserverCommands)
    BY <1>5, <1>6
  <2>4. Types
    BY DEF ControllerInv
  <2> QED
    BY <1>2, <1>4, <1>6, <1>8, <2>2, <2>3, <2>4 DEF Types
<1>10. Entered'
  <2>1. Entered
    BY DEF ControllerInv
  <2>2. /\ NeverBehind("JOIN_ROOM", Late, ctl.to[role])
        /\ entry[role] \in {"code", "joining"} =>
              Holds(ctl.to[role]) \subseteq {"JOIN_ROOM"} /\ role \notin locked
        /\ role \in locked => "JOIN_ROOM" \notin Holds(ctl.to[role])
    BY <2>1 DEF Entered
  <2>3. "JOIN_ROOM" # command \/ Holds(ctl.to[role]) \cap Late = {}
    BY <1>3, <2>2 DEF Late
  <2>4. /\ NeverBehind("JOIN_ROOM", Late, ctl'.to[role])
        /\ entry'[role] \in {"code", "joining"} =>
              Holds(ctl'.to[role]) \subseteq {"JOIN_ROOM"} /\ role \notin locked'
        /\ role \in locked' => "JOIN_ROOM" \notin Holds(ctl'.to[role])
    BY <1>3, <1>4, <1>7, <1>8, <2>2, <2>3
  <2>5. ASSUME NEW r \in Parties
        PROVE  /\ NeverBehind("JOIN_ROOM", Late, ctl'.to[r])
               /\ entry'[r] \in {"code", "joining"} =>
                     Holds(ctl'.to[r]) \subseteq {"JOIN_ROOM"} /\ r \notin locked'
               /\ r \in locked' => "JOIN_ROOM" \notin Holds(ctl'.to[r])
    <3>1. CASE r = role
      BY <2>4, <3>1
    <3>2. CASE r # role
      BY <1>4, <1>5, <1>6, <1>8, <2>1, <2>5, <3>2 DEF Entered
    <3> QED
      BY <3>1, <3>2
  <2> QED
    BY <1>4, <1>6, <2>1, <2>5 DEF Entered
<1>11. Commanded'
  <2>1. Commanded
    BY DEF ControllerInv
  <2>2. ASSUME NEW r \in Parties, NEW x \in {"PEER_READY", "START_RUNTIME", "FINALIZE_SESSION"}
        PROVE  /\ x \in Holds(ctl'.to[r]) <=> x \in Holds(ctl.to[r])
               /\ Once(x, ctl.to[r]) => Once(x, ctl'.to[r])
               /\ \A others : NeverBehind(x, others, ctl.to[r]) => NeverBehind(x, others, ctl'.to[r])
    <3>1. x # command
      BY <2>2
    <3>2. CASE r = role
      BY <1>7, <3>1, <3>2
    <3>3. CASE r # role
      BY <1>5, <1>6, <2>2, <3>3
    <3> QED
      BY <3>2, <3>3
  <2> QED
    BY <1>4, <1>6, <2>1, <2>2 DEF Commanded
<1>12. OneReport'
  <2>1. ctl'.to["observer"] = ctl.to["observer"]
    BY <1>5, <1>6
  <2>2. /\ {} \cap ChainStates = {} /\ report' = report /\ poll' = poll /\ status' = status
        /\ opened' = opened /\ ctl'.observed = ctl.observed
        /\ \A p \in Processes : Holds(from'[p]) \subseteq Holds(from[p]) \cup {}
        /\ \A p \in Processes, state \in ChainStates : Once(state, from[p]) => Once(state, from'[p])
    BY <1>4, <1>6
  <2> QED
    BY <2>1, <2>2, ReportsUntouched
<1>13. MarksInOrder' /\ ReadyIsAnnounced'
  BY <1>6 DEF ControllerInv, MarksInOrder, InOrder, ReadyIsAnnounced
<1>14. Indexed'
  <2>1. \A state : InView(state)' <=> InView(state)
    BY <1>4 DEF InView, Passed
  <2> QED
    BY <1>4, <1>6, <2>1 DEF ControllerInv, Indexed
<1>15. OutcomeNoted' /\ StatusOfOutcome' /\ OpenedWhenKeyed'
  BY <1>4, <1>6 DEF ControllerInv, OutcomeNoted, StatusOfOutcome, OpenedWhenKeyed
<1> QED
  BY <1>9, <1>10, <1>11, <1>12, <1>13, <1>14, <1>15 DEF ControllerInv

\* A runtime without a limit is not ready, and the deal is not open.
LEMMA NotLocked ==
    ASSUME ControllerInv, NEW role \in Parties, role \notin locked
    PROVE  /\ role \notin ready /\ "PEER_READY" \notin Holds(ctl.to[role])
           /\ status = "WAITING_SELLER" /\ "COMMITTED" \notin Holds(from[role])
           /\ role \notin ctl.commitments
<1>1. role \notin ctl.commitments /\ "COMMITTED" \notin Holds(from[role])
  BY DEF ControllerInv, Entered
<1>2. "peerReady" \notin ctl.marks
  BY <1>1 DEF ControllerInv, MarksInOrder, InOrder
<1>3. role \notin ready /\ "PEER_READY" \notin Holds(ctl.to[role])
  BY <1>2 DEF ControllerInv, Commanded
<1>4. status = "WAITING_SELLER"
  BY DEF ControllerInv, OpenedWhenKeyed
<1> QED
  BY <1>1, <1>3, <1>4

\* What a command changes in its runtime.
LEMMA HandlesFacts ==
    ASSUME ControllerInv, NEW role \in Parties, RuntimeHandles(role), NEW command,
           command = Head(ctl.to[role])
    PROVE  /\ \/ from' = from
              \/ command = "JOIN_ROOM" /\ Tells(role, "ROOM_JOINED")
              \/ command = "SET_LIMIT" /\ role \in locked' /\ Tells(role, "COMMITTED")
           /\ ready' = IF command = "PEER_READY" THEN ready \cup {role} ELSE ready
           /\ started' \in BOOLEAN /\ (started => started')
           /\ started' => started \/ (command = "START_RUNTIME" /\ role = "buyer")
           /\ finalizing' = finalizing \/ (command = "FINALIZE_SESSION" /\ finalizing' = finalizing \cup {role})
           /\ locked' = locked \/ (command = "SET_LIMIT" /\ locked' = locked \cup {role})
           /\ command = "JOIN_ROOM" => role \notin locked
           /\ command # "JOIN_ROOM" => keyed' = keyed /\ offered' = offered
           /\ joined' \subseteq Parties /\ keyed' \subseteq Parties /\ offered' \subseteq Parties
           /\ place' \in [Parties -> {"none", "held", "ended"}] /\ refused' \subseteq Parties
<1>1. Types /\ role \in Processes
  BY DEF ControllerInv, Processes
<1>2. ctl.to[role] \in Seq(Commands) /\ ctl.to[role] # <<>>
  BY <1>1 DEF Types, RuntimeHandles
<1>3. command \in Commands /\ command \in Holds(ctl.to[role])
  BY <1>2, TailFacts
<1>4. /\ joined \subseteq Parties /\ offered \subseteq Parties /\ keyed \subseteq Parties
      /\ place \in [Parties -> {"none", "held", "ended"}] /\ refused \subseteq Parties
      /\ started \in BOOLEAN
  BY <1>1 DEF Types
<1>5. command = "JOIN_ROOM" => role \notin locked /\ role \notin ready
  <2>1. command = "JOIN_ROOM" => role \notin locked
    BY <1>3 DEF ControllerInv, Entered
  <2> QED
    BY <2>1, NotLocked
<1>6. command = "PEER_READY" => Accepts(role, command)
  BY <1>3, NotLocked DEF Accepts
<1>7. CASE command = "JOIN_ROOM" /\ JoinsRoom(role) /\ UNCHANGED <<started, finalizing>>
  <2>1. /\ place' \in [Parties -> {"none", "held", "ended"}]
        /\ refused' \subseteq Parties /\ offered' \subseteq Parties
    <3>1. CASE TakesPlace(role)
      <4>1. Introduced(role) \subseteq Parties
        <5>1. Peer(role) \in Parties
          BY DEF Peer, Parties
        <5>2. place[Peer(role)] \in {"none", "held", "ended"}
          BY <1>4, <5>1
        <5> QED
          BY <5>2 DEF Introduced
      <4> QED
        BY <1>4, <3>1, <4>1 DEF TakesPlace
    <3>2. CASE IsRefused(role)
      BY <1>4, <3>2 DEF IsRefused
    <3> QED
      BY <1>7, <3>1, <3>2 DEF JoinsRoom
  <2>2. /\ joined' = joined \cup {role} /\ keyed' = keyed \ {role}
        /\ locked' = locked \ {role} /\ ready' = ready \ {role}
        /\ Tells(role, "ROOM_JOINED")
    BY <1>7 DEF JoinsRoom
  <2> QED
    BY <1>4, <1>5, <1>7, <2>1, <2>2
<1>8. CASE /\ command = "SET_LIMIT"
           /\ locked' = locked \cup {role} /\ Tells(role, "COMMITTED")
           /\ UNCHANGED <<room, ready, started, finalizing>>
  BY <1>4, <1>8 DEF room, relay
<1>9. CASE /\ command = "PEER_READY"
           /\ ready' = ready \cup {role}
           /\ UNCHANGED <<from, room, locked, started, finalizing>>
  BY <1>4, <1>9 DEF room, relay
<1>10. CASE /\ command = "START_RUNTIME"
            /\ started' = (started \/ role = "buyer")
            /\ UNCHANGED <<from, room, locked, ready, finalizing>>
  BY <1>4, <1>10 DEF room, relay
<1>11. CASE /\ command = "FINALIZE_SESSION"
            /\ finalizing' = finalizing \cup {role}
            /\ UNCHANGED <<from, room, locked, ready, started>>
  BY <1>4, <1>11 DEF room, relay
<1>12. CASE /\ ~Accepts(role, command)
            /\ UNCHANGED <<from, room, locked, ready, started, finalizing>>
  <2>1. command # "PEER_READY"
    BY <1>6, <1>12
  <2> QED
    BY <1>4, <1>5, <1>12, <2>1 DEF room, relay
<1> QED
  BY <1>7, <1>8, <1>9, <1>10, <1>11, <1>12 DEF RuntimeHandles

\* A runtime's command.
LEMMA HandlesInv ==
    ASSUME ControllerInv, NEW role \in Parties, RuntimeHandles(role)
    PROVE  ControllerInv'
<1>1. PICK command : command = Head(ctl.to[role])
  OBVIOUS
<1>2. /\ Types /\ role \in Processes /\ "observer" \in Processes \ {role} /\ Parties \subseteq Processes
      /\ ctl.to[role] # <<>> /\ ctl' = [ctl EXCEPT !.to[role] = Tail(@)]
  BY DEF ControllerInv, Processes, Parties, RuntimeHandles
<1>3. /\ UNCHANGED <<entry, repeats, outcome, report, opened, opening, status, indexed, poll, faults>>
  BY DEF RuntimeHandles, page, deal, chain
<1>4. /\ ctl' \in Controllers /\ ctl'.rows = ctl.rows /\ ctl'.commitments = ctl.commitments
      /\ ctl'.observed = ctl.observed /\ ctl'.notices = ctl.notices /\ ctl'.marks = ctl.marks
      /\ \A q \in Processes \ {role} : ctl'.to[q] = ctl.to[q]
      /\ \A r \in Parties : ctl'.to[r] \in Seq(Commands)
      /\ ctl'.to["observer"] \in Seq(ObserverCommands)
  BY <1>2, TakesFacts
<1>5. /\ Holds(ctl.to[role]) = {command} \cup Holds(ctl'.to[role])
      /\ \A m : Once(m, ctl.to[role]) => Once(m, ctl'.to[role])
                              /\ (m = command => m \notin Holds(ctl'.to[role]))
      /\ \A m, others : NeverBehind(m, others, ctl.to[role]) =>
            /\ NeverBehind(m, others, ctl'.to[role])
            /\ command \in others => m \notin Holds(ctl'.to[role])
  BY <1>1, <1>2, TakesFacts
<1>6. /\ \/ from' = from
         \/ command = "JOIN_ROOM" /\ Tells(role, "ROOM_JOINED")
         \/ command = "SET_LIMIT" /\ role \in locked' /\ Tells(role, "COMMITTED")
      /\ ready' = IF command = "PEER_READY" THEN ready \cup {role} ELSE ready
      /\ started' \in BOOLEAN /\ (started => started')
      /\ started' => started \/ (command = "START_RUNTIME" /\ role = "buyer")
      /\ finalizing' = finalizing \/ (command = "FINALIZE_SESSION" /\ finalizing' = finalizing \cup {role})
      /\ locked' = locked \/ (command = "SET_LIMIT" /\ locked' = locked \cup {role})
      /\ command = "JOIN_ROOM" => role \notin locked
      /\ command # "JOIN_ROOM" => keyed' = keyed /\ offered' = offered
      /\ joined' \subseteq Parties /\ keyed' \subseteq Parties /\ offered' \subseteq Parties
      /\ place' \in [Parties -> {"none", "held", "ended"}] /\ refused' \subseteq Parties
  BY <1>1, HandlesFacts
<1>7. /\ locked \subseteq Parties /\ ready \subseteq Parties /\ finalizing \subseteq Parties
  BY <1>2 DEF Types
<1>8. from' \in [Processes -> Seq(PartyMessages)] /\ from'["observer"] \in Seq(ChainStates)
        /\ \A q \in Processes \ {role} : from'[q] = from[q]
  <2>1. CASE from' = from
    BY <1>2, <2>1 DEF Types
  <2>2. CASE Tells(role, "ROOM_JOINED")
    BY <1>2, <2>2, TellsFacts DEF PartyMessages
  <2>3. CASE Tells(role, "COMMITTED")
    BY <1>2, <2>3, TellsFacts DEF PartyMessages
  <2> QED
    BY <1>6, <2>1, <2>2, <2>3
<1>9. /\ Holds(from'[role]) \subseteq Holds(from[role]) \cup {"ROOM_JOINED", "COMMITTED"}
      /\ \A x : x \notin {"ROOM_JOINED", "COMMITTED"} /\ Once(x, from[role]) => Once(x, from'[role])
      /\ "ROOM_JOINED" \in Holds(from'[role]) =>
            "ROOM_JOINED" \in Holds(from[role]) \/ command = "JOIN_ROOM"
      /\ "COMMITTED" \in Holds(from'[role]) => "COMMITTED" \in Holds(from[role]) \/ role \in locked'
      /\ NeverBehind("ROOM_JOINED", {"COMMITTED"}, from[role]) =>
            NeverBehind("ROOM_JOINED", {"COMMITTED"}, from'[role])
  <2>1. CASE from' = from
    BY <2>1
  <2>2. CASE command = "JOIN_ROOM" /\ Tells(role, "ROOM_JOINED")
    <3>1. "ROOM_JOINED" \in PartyMessages /\ "COMMITTED" \notin Holds(from[role])
      BY <1>6, <2>2, NotLocked DEF PartyMessages
    <3>2. Holds(from[role]) \cap {"COMMITTED"} = {}
      BY <3>1
    <3>3. /\ Holds(from'[role]) = Holds(from[role]) \cup {"ROOM_JOINED"}
          /\ \A m : Once(m, from[role]) /\ (m # "ROOM_JOINED" \/ m \notin Holds(from[role])) => Once(m, from'[role])
          /\ \A m, others : NeverBehind(m, others, from[role])
                   /\ (m # "ROOM_JOINED" \/ Holds(from[role]) \cap others = {})
                => NeverBehind(m, others, from'[role])
      BY <1>2, <2>2, <3>1, TellsFacts
    <3> QED
      BY <2>2, <3>2, <3>3
  <2>3. CASE command = "SET_LIMIT" /\ role \in locked' /\ Tells(role, "COMMITTED")
    <3>1. "COMMITTED" \in PartyMessages
      BY DEF PartyMessages
    <3>3. /\ Holds(from'[role]) = Holds(from[role]) \cup {"COMMITTED"}
          /\ \A m : Once(m, from[role]) /\ (m # "COMMITTED" \/ m \notin Holds(from[role])) => Once(m, from'[role])
          /\ \A m, others : NeverBehind(m, others, from[role])
                   /\ (m # "COMMITTED" \/ Holds(from[role]) \cap others = {})
                => NeverBehind(m, others, from'[role])
      BY <1>2, <2>3, <3>1, TellsFacts
    <3> QED
      BY <2>3, <3>3
  <2> QED
    BY <1>6, <2>1, <2>2, <2>3
<1>10. Types'
  <2>1. locked' \subseteq Parties /\ ready' \subseteq Parties /\ finalizing' \subseteq Parties
    BY <1>6, <1>7
  <2> QED
    BY <1>2, <1>3, <1>4, <1>6, <1>8, <2>1 DEF Types
<1>11. Entered'
  <2>1. Entered
    BY DEF ControllerInv
  <2>2. ASSUME NEW r \in Parties
        PROVE  /\ NeverBehind("JOIN_ROOM", Late, ctl'.to[r])
               /\ NeverBehind("ROOM_JOINED", {"COMMITTED"}, from'[r])
               /\ entry'[r] \in {"code", "joining"} =>
                     Holds(ctl'.to[r]) \subseteq {"JOIN_ROOM"} /\ r \notin locked'
               /\ r \in locked' => "JOIN_ROOM" \notin Holds(ctl'.to[r])
               /\ "COMMITTED" \in Holds(from'[r]) => r \in locked'
               /\ r \in ctl'.commitments => r \in locked' /\ "ROOM_JOINED" \notin Holds(from'[r])
    <3>1. /\ NeverBehind("JOIN_ROOM", Late, ctl.to[r])
          /\ NeverBehind("ROOM_JOINED", {"COMMITTED"}, from[r])
          /\ entry[r] \in {"code", "joining"} =>
                Holds(ctl.to[r]) \subseteq {"JOIN_ROOM"} /\ r \notin locked
          /\ r \in locked => "JOIN_ROOM" \notin Holds(ctl.to[r])
          /\ "COMMITTED" \in Holds(from[r]) => r \in locked
          /\ r \in ctl.commitments => r \in locked /\ "ROOM_JOINED" \notin Holds(from[r])
      BY <2>1, <2>2 DEF Entered
    <3>2. CASE r # role
      <4>1. ctl'.to[r] = ctl.to[r] /\ from'[r] = from[r] /\ (r \in locked' <=> r \in locked)
        BY <1>2, <1>4, <1>6, <1>8, <2>2, <3>2
      <4> QED
        BY <1>3, <1>4, <3>1, <4>1
    <3>3. CASE r = role
      <4>1. locked \subseteq locked'
        BY <1>6
      <4>2. NeverBehind("JOIN_ROOM", Late, ctl'.to[role])
              /\ NeverBehind("ROOM_JOINED", {"COMMITTED"}, from'[role])
        BY <1>5, <1>9, <3>1, <3>3
      <4>3. entry'[role] \in {"code", "joining"} =>
              Holds(ctl'.to[role]) \subseteq {"JOIN_ROOM"} /\ role \notin locked'
        <5>1. entry[role] \in {"code", "joining"} => command # "SET_LIMIT"
          BY <1>5, <3>1, <3>3
        <5> QED
          BY <1>3, <1>5, <1>6, <3>1, <3>3, <5>1
      <4>4. role \in locked' => "JOIN_ROOM" \notin Holds(ctl'.to[role])
        <5>1. "SET_LIMIT" \in Late
          BY DEF Late, Commands
        <5>2. command = "SET_LIMIT" => "JOIN_ROOM" \notin Holds(ctl'.to[role])
          BY <1>5, <3>1, <3>3, <5>1
        <5> QED
          BY <1>5, <1>6, <3>1, <3>3, <5>2
      <4>5. "COMMITTED" \in Holds(from'[role]) => role \in locked'
        BY <1>9, <3>1, <3>3, <4>1
      <4>6. role \in ctl'.commitments => role \in locked' /\ "ROOM_JOINED" \notin Holds(from'[role])
        BY <1>4, <1>6, <1>9, <3>1, <3>3, <4>1
      <4> QED
        BY <3>3, <4>2, <4>3, <4>4, <4>5, <4>6
    <3> QED
      BY <3>2, <3>3
  <2> QED
    BY <2>2 DEF Entered
<1>12. Commanded'
  <2>1. Commanded
    BY DEF ControllerInv
  <2>2. ASSUME NEW r \in Parties
        PROVE  /\ "peerReady" \in ctl'.marks <=> r \in ready' \/ "PEER_READY" \in Holds(ctl'.to[r])
               /\ NeverBehind("PEER_READY", {"START_RUNTIME"}, ctl'.to[r])
               /\ "START_RUNTIME" \in Holds(ctl'.to[r]) \/ started' => "negotiating" \in ctl'.marks
               /\ Once("START_RUNTIME", ctl'.to[r])
               /\ r = "buyer" /\ started' => "START_RUNTIME" \notin Holds(ctl'.to[r])
               /\ "FINALIZE_SESSION" \in Holds(ctl'.to[r]) \/ r \in finalizing' =>
                     ctl'.observed \cap Final # {}
               /\ Once("FINALIZE_SESSION", ctl'.to[r])
               /\ r \in finalizing' => "FINALIZE_SESSION" \notin Holds(ctl'.to[r])
    <3>1. /\ "peerReady" \in ctl.marks <=> r \in ready \/ "PEER_READY" \in Holds(ctl.to[r])
          /\ NeverBehind("PEER_READY", {"START_RUNTIME"}, ctl.to[r])
          /\ "START_RUNTIME" \in Holds(ctl.to[r]) \/ started => "negotiating" \in ctl.marks
          /\ Once("START_RUNTIME", ctl.to[r])
          /\ r = "buyer" /\ started => "START_RUNTIME" \notin Holds(ctl.to[r])
          /\ "FINALIZE_SESSION" \in Holds(ctl.to[r]) \/ r \in finalizing =>
                ctl.observed \cap Final # {}
          /\ Once("FINALIZE_SESSION", ctl.to[r])
          /\ r \in finalizing => "FINALIZE_SESSION" \notin Holds(ctl.to[r])
      BY <2>1, <2>2 DEF Commanded
    <3>2. started' => "negotiating" \in ctl.marks
      <4>1. "START_RUNTIME" \in Holds(ctl.to[role]) \/ started => "negotiating" \in ctl.marks
        BY <2>1 DEF Commanded
      <4> QED
        BY <1>5, <1>6, <4>1
    <3>3. CASE r # role
      <4>1. ctl'.to[r] = ctl.to[r] /\ (r \in ready' <=> r \in ready) /\ (r \in finalizing' <=> r \in finalizing)
        BY <1>2, <1>4, <1>6, <2>2, <3>3
      <4>2. r = "buyer" /\ started' => started
        BY <1>6, <3>3
      <4> QED
        BY <1>4, <3>1, <3>2, <4>1, <4>2
    <3>4. CASE r = role
      <4>1. "peerReady" \in ctl'.marks <=> r \in ready' \/ "PEER_READY" \in Holds(ctl'.to[r])
        BY <1>4, <1>5, <1>6, <3>1, <3>4
      <4>2. /\ NeverBehind("PEER_READY", {"START_RUNTIME"}, ctl'.to[r])
            /\ Once("START_RUNTIME", ctl'.to[r]) /\ Once("FINALIZE_SESSION", ctl'.to[r])
        BY <1>5, <3>1, <3>4
      <4>3. "START_RUNTIME" \in Holds(ctl'.to[r]) \/ started' => "negotiating" \in ctl'.marks
        BY <1>4, <1>5, <3>1, <3>2, <3>4
      <4>4. r = "buyer" /\ started' => "START_RUNTIME" \notin Holds(ctl'.to[r])
        <5>1. command = "START_RUNTIME" => "START_RUNTIME" \notin Holds(ctl'.to[r])
          BY <1>5, <3>1, <3>4
        <5> QED
          BY <1>5, <1>6, <3>1, <3>4, <5>1
      <4>5. "FINALIZE_SESSION" \in Holds(ctl'.to[r]) \/ r \in finalizing' => ctl'.observed \cap Final # {}
        <5>1. r \in finalizing' => r \in finalizing \/ "FINALIZE_SESSION" \in Holds(ctl.to[r])
          BY <1>5, <1>6, <3>4
        <5> QED
          BY <1>4, <1>5, <3>1, <3>4, <5>1
      <4>6. r \in finalizing' => "FINALIZE_SESSION" \notin Holds(ctl'.to[r])
        <5>1. command = "FINALIZE_SESSION" => "FINALIZE_SESSION" \notin Holds(ctl'.to[r])
          BY <1>5, <3>1, <3>4
        <5> QED
          BY <1>5, <1>6, <3>1, <3>4, <5>1
      <4> QED
        BY <4>1, <4>2, <4>3, <4>4, <4>5, <4>6
    <3> QED
      BY <3>3, <3>4
  <2> QED
    BY <2>2 DEF Commanded
<1>13. OneReport'
  <2>1. {"ROOM_JOINED", "COMMITTED"} \cap ChainStates = {}
    BY DEF ChainStates
  <2>2. \A p \in Processes : Holds(from'[p]) \subseteq Holds(from[p]) \cup {"ROOM_JOINED", "COMMITTED"}
    BY <1>8, <1>9
  <2>3. \A p \in Processes, state \in ChainStates : Once(state, from[p]) => Once(state, from'[p])
    BY <1>8, <1>9, <2>1
  <2>4. ctl'.to["observer"] = ctl.to["observer"]
    BY <1>2, <1>4
  <2> QED
    BY <1>3, <1>4, <2>1, <2>2, <2>3, <2>4, ReportsUntouched
<1>14. MarksInOrder' /\ ReadyIsAnnounced'
  BY <1>4 DEF ControllerInv, MarksInOrder, InOrder, ReadyIsAnnounced
<1>15. Indexed'
  <2>1. \A state : InView(state)' <=> InView(state)
    BY <1>3 DEF InView, Passed
  <2>2. from'["observer"] = from["observer"]
    BY <1>2, <1>8
  <2> QED
    BY <1>3, <1>4, <2>1, <2>2 DEF ControllerInv, Indexed
<1>16. OutcomeNoted' /\ StatusOfOutcome'
  <2>1. {"ROOM_JOINED", "COMMITTED"} \cap Outcomes = {} /\ {"buyer", "seller"} \subseteq Processes
    BY DEF Outcomes, Processes, Parties
  <2>2. /\ \A p \in {"buyer", "seller"}, m \in Outcomes : m \in Holds(from'[p]) => m \in Holds(from[p])
        /\ \A m \in Outcomes : Once(m, from["buyer"]) => Once(m, from'["buyer"])
    BY <1>8, <1>9, <2>1
  <2>3. "OUTCOME_SETTLED" \in Holds(from["buyer"]) => "OUTCOME_SETTLED" \in Holds(from'["buyer"])
    <3>1. CASE from' = from
      BY <3>1
    <3>2. CASE Tells(role, "ROOM_JOINED")
      <4>1. Holds(from'[role]) = Holds(from[role]) \cup {"ROOM_JOINED"}
        BY <1>2, <3>2, TellsFacts DEF PartyMessages
      <4> QED
        BY <1>8, <2>1, <4>1
    <3>3. CASE Tells(role, "COMMITTED")
      <4>1. Holds(from'[role]) = Holds(from[role]) \cup {"COMMITTED"}
        BY <1>2, <3>3, TellsFacts DEF PartyMessages
      <4> QED
        BY <1>8, <2>1, <4>1
    <3> QED
      BY <1>6, <3>1, <3>2, <3>3
  <2>4. OutcomeNoted /\ StatusOfOutcome
    BY DEF ControllerInv
  <2>5. "OUTCOME_SETTLED" \in Outcomes /\ "OUTCOME_CANCELLED" \in Outcomes
    BY DEF Outcomes
  <2>6. StatusOfOutcome'
    BY <1>3, <2>2, <2>4, <2>5 DEF StatusOfOutcome
  <2>7. OutcomeNoted'
    <3>1. outcome' # "none" => started'
      BY <1>3, <1>6, <2>4 DEF OutcomeNoted
    <3>2. Outcomes \cap Holds(from'["seller"]) = {}
      BY <2>2, <2>4 DEF OutcomeNoted
    <3>3. /\ "OUTCOME_SETTLED" \in Holds(from'["buyer"]) => outcome' = "SETTLED"
          /\ "OUTCOME_CANCELLED" \in Holds(from'["buyer"]) => outcome' = "CANCELLED"
          /\ \A message \in Outcomes : Once(message, from'["buyer"])
      BY <1>3, <2>2, <2>4, <2>5 DEF OutcomeNoted
    <3>4. outcome' = "none" \/ Outcomes \cap Holds(from'["buyer"]) # {} => "finished" \notin ctl'.marks
      <4>1. Outcomes \cap Holds(from'["buyer"]) # {} => Outcomes \cap Holds(from["buyer"]) # {}
        BY <2>2
      <4> QED
        BY <1>3, <1>4, <2>4, <4>1 DEF OutcomeNoted
    <3>5. outcome' = "SETTLED" /\ "OUTCOME_SETTLED" \notin Holds(from'["buyer"]) /\ ctl'.observed \cap Final = {}
            => "pendingSettlement" \in ctl'.marks
      BY <1>3, <1>4, <2>3, <2>4 DEF OutcomeNoted
    <3> QED
      BY <3>1, <3>2, <3>3, <3>4, <3>5 DEF OutcomeNoted
  <2> QED
    BY <2>6, <2>7
<1>17. OpenedWhenKeyed'
  <2>1. CASE status = "WAITING_SELLER"
    BY <1>3, <2>1 DEF OpenedWhenKeyed
  <2>2. CASE status # "WAITING_SELLER"
    <3>1. locked = Parties /\ keyed = Parties /\ offered = {}
      BY <2>2 DEF ControllerInv, OpenedWhenKeyed
    <3>2. locked' = Parties /\ keyed' = Parties /\ offered' = {}
      BY <1>6, <3>1
    <3> QED
      BY <3>2 DEF OpenedWhenKeyed
  <2> QED
    BY <2>1, <2>2
<1> QED
  BY <1>10, <1>11, <1>12, <1>13, <1>14, <1>15, <1>16, <1>17 DEF ControllerInv

\* A message that is no entry's answer and no outcome.
LEMMA TellsKeeps ==
    ASSUME ControllerInv, NEW p \in Processes, NEW x \in PartyMessages, p = "observer" => x \in ChainStates,
           Tells(p, x), x \notin {"ROOM_JOINED", "COMMITTED"} \cup Outcomes,
           UNCHANGED <<ctl, entry, locked, ready, started, finalizing, outcome, status, faults>>
    PROVE  /\ Entered' /\ Commanded' /\ MarksInOrder' /\ ReadyIsAnnounced'
           /\ OutcomeNoted' /\ StatusOfOutcome'
<1>1. /\ \A q \in Processes \ {p} : from'[q] = from[q]
      /\ Holds(from'[p]) = Holds(from[p]) \cup {x}
      /\ \A m : Once(m, from[p]) /\ (m # x \/ m \notin Holds(from[p])) => Once(m, from'[p])
      /\ \A m, others : NeverBehind(m, others, from[p]) /\ (m # x \/ Holds(from[p]) \cap others = {})
            => NeverBehind(m, others, from'[p])
  BY TellsFacts DEF ControllerInv
<1>2. \A q \in Processes :
         /\ NeverBehind("ROOM_JOINED", {"COMMITTED"}, from[q]) => NeverBehind("ROOM_JOINED", {"COMMITTED"}, from'[q])
         /\ \A m \in {"ROOM_JOINED", "COMMITTED"} \cup Outcomes :
               /\ m \in Holds(from'[q]) <=> m \in Holds(from[q])
               /\ Once(m, from[q]) => Once(m, from'[q])
  <2> SUFFICES ASSUME NEW q \in Processes
               PROVE  /\ NeverBehind("ROOM_JOINED", {"COMMITTED"}, from[q])
                            => NeverBehind("ROOM_JOINED", {"COMMITTED"}, from'[q])
                      /\ \A m \in {"ROOM_JOINED", "COMMITTED"} \cup Outcomes :
                            /\ m \in Holds(from'[q]) <=> m \in Holds(from[q])
                            /\ Once(m, from[q]) => Once(m, from'[q])
    OBVIOUS
  <2>1. CASE q = p
    BY <1>1, <2>1
  <2>2. CASE q # p
    BY <1>1, <2>2
  <2> QED
    BY <2>1, <2>2
<1>3. Parties \subseteq Processes /\ {"buyer", "seller"} \subseteq Processes
  BY DEF Parties, Processes
<1>4. Entered'
  <2>1. Entered
    BY DEF ControllerInv
  <2> QED
    BY <1>2, <1>3, <2>1 DEF Entered
<1>5. Commanded' /\ MarksInOrder' /\ ReadyIsAnnounced'
  BY DEF ControllerInv, Commanded, MarksInOrder, InOrder, ReadyIsAnnounced
<1>6. "OUTCOME_SETTLED" \in Outcomes /\ "OUTCOME_CANCELLED" \in Outcomes
  BY DEF Outcomes
<1>7. \A q \in {"buyer", "seller"} : Outcomes \cap Holds(from'[q]) = Outcomes \cap Holds(from[q])
  BY <1>2, <1>3
<1>8. OutcomeNoted'
  BY <1>2, <1>3, <1>6, <1>7 DEF ControllerInv, OutcomeNoted
<1>9. StatusOfOutcome'
  BY <1>2, <1>3, <1>6 DEF ControllerInv, StatusOfOutcome
<1> QED
  BY <1>4, <1>5, <1>8, <1>9

\* What a runtime reports of the relay: a peer's key, or a refusal.
LEMMA RelayMessageInv ==
    ASSUME ControllerInv, NEW role \in Parties,
           NEW x \in {"RELAY_CHANNEL_READY", "RELAY_CHANNEL_ERROR"}, Tells(role, x),
           offered' \subseteq offered, keyed \subseteq keyed', keyed' \subseteq Parties, refused' \subseteq refused,
           UNCHANGED <<entry, repeats, ctl, joined, place, locked, ready, started, outcome, report>>,
           UNCHANGED <<opened, opening, finalizing, status, indexed, poll, faults>>
    PROVE  ControllerInv'
<1>2. /\ Types /\ role \in Processes /\ role # "observer" /\ x \in PartyMessages
      /\ x \notin {"ROOM_JOINED", "COMMITTED"} \cup Outcomes /\ x \notin ChainStates
      /\ "observer" \in Processes
  BY DEF ControllerInv, Processes, Parties, PartyMessages, Outcomes, ChainStates
<1>3. /\ from' \in [Processes -> Seq(PartyMessages)] /\ from'["observer"] \in Seq(ChainStates)
      /\ \A q \in Processes \ {role} : from'[q] = from[q]
      /\ Holds(from'[role]) = Holds(from[role]) \cup {x}
      /\ \A m : Once(m, from[role]) /\ (m # x \/ m \notin Holds(from[role])) => Once(m, from'[role])
  BY <1>2, TellsFacts
<1>4. Types'
  <2>1. /\ refused \subseteq Parties /\ offered \subseteq Parties
    BY <1>2 DEF Types
  <2>2. refused' \subseteq Parties /\ offered' \subseteq Parties
    BY <2>1
  <2> QED
    BY <1>2, <1>3, <2>2 DEF Types
<1>5. /\ Entered' /\ Commanded' /\ MarksInOrder' /\ ReadyIsAnnounced'
      /\ OutcomeNoted' /\ StatusOfOutcome'
  BY <1>2, TellsKeeps
<1>6. OneReport'
  <2>1. {x} \cap ChainStates = {}
    BY <1>2
  <2>2. \A p \in Processes : Holds(from'[p]) \subseteq Holds(from[p]) \cup {x}
    BY <1>3
  <2>3. \A p \in Processes, state \in ChainStates : Once(state, from[p]) => Once(state, from'[p])
    BY <1>3, <2>1
  <2> QED
    BY <2>1, <2>2, <2>3, ReportsUntouched
<1>7. Indexed'
  <2>1. \A state : InView(state)' <=> InView(state)
    BY DEF InView, Passed
  <2>2. from'["observer"] = from["observer"]
    BY <1>2, <1>3
  <2> QED
    BY <2>1, <2>2 DEF ControllerInv, Indexed
<1>8. OpenedWhenKeyed'
  BY DEF ControllerInv, OpenedWhenKeyed
<1> QED
  BY <1>4, <1>5, <1>6, <1>7, <1>8 DEF ControllerInv

\* A peer's key, or a refusal.
LEMMA RelayInv ==
    ASSUME ControllerInv, NEW role \in Parties, AcceptPeerKey(role) \/ ReadsRefusal(role)
    PROVE  ControllerInv'
<1>1. keyed \subseteq Parties
  BY DEF ControllerInv, Types
<1>2. CASE AcceptPeerKey(role)
  <2>1. /\ Tells(role, "RELAY_CHANNEL_READY") /\ offered' = offered \ {role} /\ keyed' = keyed \cup {role}
        /\ UNCHANGED <<refused, entry, repeats, ctl, joined, place, locked, ready, started>>
        /\ UNCHANGED <<outcome, report, opened, opening, finalizing, status, indexed, poll, faults>>
    BY <1>2 DEF AcceptPeerKey, page, deal, chain
  <2> QED
    BY <1>1, <2>1, RelayMessageInv
<1>3. CASE ReadsRefusal(role)
  <2>1. /\ Tells(role, "RELAY_CHANNEL_ERROR") /\ refused' = refused \ {role}
        /\ UNCHANGED <<offered, keyed, entry, repeats, ctl, joined, place, locked, ready, started>>
        /\ UNCHANGED <<outcome, report, opened, opening, finalizing, status, indexed, poll, faults>>
    BY <1>3 DEF ReadsRefusal, TellsError, page, deal, chain
  <2> QED
    BY <1>1, <2>1, RelayMessageInv
<1> QED
  BY <1>2, <1>3

\* The outcome.
LEMMA OutcomeInv ==
    ASSUME ControllerInv, NEW result \in Final, PublishOutcome(result)
    PROVE  ControllerInv'
<1>0. PICK x \in Outcomes : x = IF result = "SETTLED" THEN "OUTCOME_SETTLED" ELSE "OUTCOME_CANCELLED"
  BY DEF Outcomes
<1>1. /\ started /\ outcome = "none" /\ outcome' = result /\ Tells("buyer", x)
      /\ UNCHANGED <<entry, repeats, ctl, joined, place, refused, offered, keyed, locked, ready, started, report>>
      /\ UNCHANGED <<opened, opening, finalizing, status, indexed, poll, faults>>
  BY <1>0 DEF PublishOutcome, page, room, relay, chain
<1>2. /\ Types /\ {"buyer", "seller", "observer"} \subseteq Processes /\ x \in PartyMessages
      /\ Parties \subseteq Processes /\ "buyer" \in Parties
      /\ x \notin {"ROOM_JOINED", "COMMITTED"} \cup ChainStates /\ result # "none"
  BY <1>0 DEF ControllerInv, Processes, Parties, PartyMessages, Outcomes, ChainStates, Final
<1>3. /\ from' \in [Processes -> Seq(PartyMessages)] /\ from'["observer"] \in Seq(ChainStates)
      /\ \A q \in Processes \ {"buyer"} : from'[q] = from[q]
      /\ Holds(from'["buyer"]) = Holds(from["buyer"]) \cup {x}
      /\ \A m : Once(m, from["buyer"]) /\ (m # x \/ m \notin Holds(from["buyer"])) => Once(m, from'["buyer"])
      /\ \A m, others : NeverBehind(m, others, from["buyer"]) /\ (m # x \/ Holds(from["buyer"]) \cap others = {})
            => NeverBehind(m, others, from'["buyer"])
  BY <1>1, <1>2, TellsFacts
<1>4. Types'
  BY <1>1, <1>2, <1>3 DEF Types
<1>5. Entered'
  <2>1. Entered
    BY DEF ControllerInv
  <2>2. \A q \in Processes :
           /\ NeverBehind("ROOM_JOINED", {"COMMITTED"}, from[q]) => NeverBehind("ROOM_JOINED", {"COMMITTED"}, from'[q])
           /\ \A m \in {"ROOM_JOINED", "COMMITTED"} : m \in Holds(from'[q]) <=> m \in Holds(from[q])
    <3> SUFFICES ASSUME NEW q \in Processes
                 PROVE  /\ NeverBehind("ROOM_JOINED", {"COMMITTED"}, from[q])
                              => NeverBehind("ROOM_JOINED", {"COMMITTED"}, from'[q])
                        /\ \A m \in {"ROOM_JOINED", "COMMITTED"} : m \in Holds(from'[q]) <=> m \in Holds(from[q])
      OBVIOUS
    <3>1. CASE q = "buyer"
      BY <1>2, <1>3, <3>1
    <3>2. CASE q # "buyer"
      BY <1>3, <3>2
    <3> QED
      BY <3>1, <3>2
  <2> QED
    BY <1>1, <1>2, <2>1, <2>2 DEF Entered
<1>6. Commanded' /\ MarksInOrder' /\ ReadyIsAnnounced'
  BY <1>1 DEF ControllerInv, Commanded, MarksInOrder, InOrder, ReadyIsAnnounced
<1>7. OneReport'
  <2>1. {x} \cap ChainStates = {}
    BY <1>2
  <2>2. \A p \in Processes : Holds(from'[p]) \subseteq Holds(from[p]) \cup {x}
    BY <1>3
  <2>3. \A p \in Processes, state \in ChainStates : Once(state, from[p]) => Once(state, from'[p])
    BY <1>3, <2>1
  <2> QED
    BY <1>1, <2>1, <2>2, <2>3, ReportsUntouched
<1>8. Indexed'
  <2>1. \A state : InView(state)' <=> InView(state)
    BY <1>1 DEF InView, Passed
  <2>2. from'["observer"] = from["observer"]
    BY <1>2, <1>3
  <2> QED
    BY <1>1, <2>1, <2>2 DEF ControllerInv, Indexed
<1>9. OpenedWhenKeyed'
  BY <1>1 DEF ControllerInv, OpenedWhenKeyed
<1>10. Outcomes \cap Holds(from["buyer"]) = {} /\ "finished" \notin ctl.marks /\ OutcomeNoted
  BY <1>1 DEF ControllerInv, OutcomeNoted, Outcomes
<1>11. OutcomeNoted'
  <2>1. Outcomes \cap Holds(from'["seller"]) = {}
    BY <1>2, <1>3, <1>10 DEF OutcomeNoted
  <2>2. Outcomes \cap Holds(from'["buyer"]) = {x}
    BY <1>0, <1>3, <1>10
  <2>3. /\ "OUTCOME_SETTLED" \in Holds(from'["buyer"]) <=> x = "OUTCOME_SETTLED"
        /\ "OUTCOME_CANCELLED" \in Holds(from'["buyer"]) <=> x = "OUTCOME_CANCELLED"
    BY <2>2 DEF Outcomes
  <2>4. /\ x = "OUTCOME_SETTLED" <=> result = "SETTLED"
        /\ x = "OUTCOME_CANCELLED" <=> result = "CANCELLED"
    BY <1>0 DEF Final
  <2>5. \A m \in Outcomes : Once(m, from'["buyer"])
    BY <1>3, <1>10 DEF OutcomeNoted
  <2>6. /\ "OUTCOME_SETTLED" \in Holds(from'["buyer"]) <=> outcome' = "SETTLED"
        /\ "OUTCOME_CANCELLED" \in Holds(from'["buyer"]) <=> outcome' = "CANCELLED"
    BY <1>1, <2>3, <2>4
  <2>7. started' /\ "finished" \notin ctl'.marks
    BY <1>1, <1>10
  <2> QED
    BY <2>1, <2>5, <2>6, <2>7 DEF OutcomeNoted
<1>12. StatusOfOutcome'
  <2>1. status \notin {"AUTHORIZED", "SETTLED", "CANCELLED"}
    BY <1>1 DEF ControllerInv, StatusOfOutcome
  <2> QED
    BY <1>1, <2>1 DEF StatusOfOutcome
<1> QED
  BY <1>4, <1>5, <1>6, <1>7, <1>8, <1>9, <1>11, <1>12 DEF ControllerInv

\* A chain call that takes the ledger on.
LEMMA CallInv ==
    ASSUME ControllerInv, NEW role \in Parties, NEW before, NEW after \in ChainStates,
           ChainCall(role, before, after), faults' \in 0..MaxFaults,
           ~Passed(after, before), \A s \in ChainStates : Passed(s, before) => Passed(s, after),
           \A s \in LedgerStates : Later(s, before) => Later(s, after),
           locked = Parties, keyed = Parties, offered = {},
           after \in {"AUTHORIZED", "SETTLED"} =>
               outcome = "SETTLED" /\ "OUTCOME_SETTLED" \notin Holds(from["buyer"]),
           after = "CANCELLED" => outcome = "CANCELLED" \/ (outcome = "SETTLED" /\ faults' > 0)
    PROVE  ControllerInv'
<1>1. /\ status = before /\ report[role] = "none"
      /\ status' = after /\ report' = [report EXCEPT ![role] = after]
      /\ UNCHANGED <<entry, repeats, ctl, from, joined, place, refused, offered, keyed, locked, ready, started>>
      /\ UNCHANGED <<outcome, opened, opening, finalizing, indexed, poll>>
  BY DEF ChainCall, page, room, relay
<1>2. Types
  BY DEF ControllerInv
<1>3. /\ report' \in [Parties -> {"none"} \cup ChainStates] /\ report'[role] = after
      /\ \A r \in Parties \ {role} : report'[r] = report[r]
  BY <1>1, <1>2 DEF Types
<1>4. Types'
  BY <1>1, <1>2, <1>3 DEF Types, LedgerStates
<1>5. Entered' /\ Commanded' /\ MarksInOrder' /\ ReadyIsAnnounced'
  BY <1>1 DEF ControllerInv, Entered, Commanded, MarksInOrder, InOrder, ReadyIsAnnounced
<1>6. OneReport'
  <2>1. OneReport /\ Parties = {"buyer", "seller"}
    BY DEF ControllerInv, Parties
  <2>2. \A where \in Places : ~At(after, where)
    BY <1>1, <2>1 DEF OneReport
  <2>3. PICK b \in {"buyer call", "seller call"} :
           b = IF role = "buyer" THEN "buyer call" ELSE "seller call"
    OBVIOUS
  <2>4. \A state \in ChainStates, where \in Places :
           At(state, where)' => At(state, where) \/ (state = after /\ where = b)
    <3> SUFFICES ASSUME NEW state \in ChainStates, NEW where \in Places, At(state, where)', ~At(state, where)
                 PROVE  state = after /\ where = b
      OBVIOUS
    <3>1. where \in {"buyer call", "seller call"}
      BY <1>1 DEF At
    <3>2. CASE role = "buyer"
      <4>1. report'["buyer"] = after /\ report'["seller"] = report["seller"]
        BY <1>3, <2>1, <3>2
      <4> QED
        BY <2>3, <3>1, <3>2, <4>1 DEF At
    <3>3. CASE role = "seller"
      <4>1. report'["seller"] = after /\ report'["buyer"] = report["buyer"]
        BY <1>3, <2>1, <3>3
      <4> QED
        BY <2>3, <3>1, <3>3, <4>1 DEF At
    <3> QED
      BY <2>1, <3>2, <3>3
  <2>5. \A state \in ChainStates, x, y \in Places : At(state, x)' /\ At(state, y)' => x = y
    <3> SUFFICES ASSUME NEW state \in ChainStates, NEW x \in Places, NEW y \in Places,
                        At(state, x)', At(state, y)'
                 PROVE  x = y
      OBVIOUS
    <3>1. CASE state = after
      BY <2>2, <2>4, <3>1
    <3>2. CASE state # after
      BY <2>1, <2>4, <3>2 DEF OneReport
    <3> QED
      BY <3>1, <3>2
  <2>6. \A state \in ChainStates, where \in Places : At(state, where)' => Passed(state, status')
    <3>1. \A state \in ChainStates, where \in Places : At(state, where) => Passed(state, after)
      BY <1>1, <2>1 DEF OneReport
    <3>2. Passed(after, after)
      BY DEF Passed, ChainStates, Final
    <3> QED
      BY <1>1, <2>4, <3>1, <3>2
  <2>7. \A where \in Places \ {"buyer call", "seller call"} : At("OPEN", where)' => opened'
    <3>1. \A where \in Places \ {"buyer call", "seller call"} : At("OPEN", where)' => At("OPEN", where)
      BY <2>3, <2>4 DEF ChainStates
    <3> QED
      BY <1>1, <2>1, <3>1 DEF OneReport
  <2>8. \A state \in ChainStates : /\ Once(state, ctl'.to["observer"])
                                   /\ \A p \in Processes : Once(state, from'[p])
    BY <1>1, <2>1 DEF OneReport
  <2> QED
    BY <2>5, <2>6, <2>7, <2>8 DEF OneReport
<1>7. Indexed'
  <2>1. \A state : InView(state)' <=> InView(state)
    BY <1>1 DEF InView, Passed
  <2>2. Later(indexed, before) /\ indexed \in LedgerStates
    BY <1>1, <1>2 DEF ControllerInv, Indexed, Types
  <2>3. Later(indexed', status')
    BY <1>1, <2>2
  <2> QED
    BY <1>1, <2>1, <2>3 DEF ControllerInv, Indexed
<1>8. OpenedWhenKeyed'
  BY <1>1 DEF OpenedWhenKeyed
<1>9. OutcomeNoted'
  BY <1>1 DEF ControllerInv, OutcomeNoted
<1>10. StatusOfOutcome'
  BY <1>1 DEF StatusOfOutcome
<1> QED
  BY <1>4, <1>5, <1>6, <1>7, <1>8, <1>9, <1>10 DEF ControllerInv

\* The parties' chain calls.
LEMMA ChainInv ==
    ASSUME ControllerInv, ChainProgress \/ SellerCancels
    PROVE  ControllerInv'
<1>1. /\ faults \in 0..MaxFaults /\ "buyer" \in Parties /\ "seller" \in Parties
      /\ {"OPEN", "AUTHORIZED", "SETTLED", "CANCELLED"} = ChainStates
      /\ LedgerStates = {"WAITING_SELLER", "OPEN", "AUTHORIZED", "SETTLED", "CANCELLED"}
      /\ Final = {"SETTLED", "CANCELLED"}
  BY DEF ControllerInv, Types, Parties, ChainStates, LedgerStates, Final
<1>2. status # "WAITING_SELLER" => locked = Parties /\ keyed = Parties /\ offered = {}
  BY DEF ControllerInv, OpenedWhenKeyed
<1>3. CASE /\ locked = Parties /\ keyed = Parties /\ offered = {}
           /\ ChainCall("seller", "WAITING_SELLER", "OPEN") /\ UNCHANGED faults
  <2>1. ~Passed("OPEN", "WAITING_SELLER")
    BY <1>1 DEF Passed
  <2>2. \A s \in ChainStates : Passed(s, "WAITING_SELLER") => Passed(s, "OPEN")
    BY <1>1 DEF Passed
  <2>3. \A s \in LedgerStates : Later(s, "WAITING_SELLER") => Later(s, "OPEN")
    BY <1>1 DEF Later
  <2> QED
    BY <1>1, <1>3, <2>1, <2>2, <2>3, CallInv
<1>4. CASE outcome = "SETTLED" /\ ChainCall("buyer", "OPEN", "AUTHORIZED") /\ UNCHANGED faults
  <2>1. ~Passed("AUTHORIZED", "OPEN")
    BY <1>1 DEF Passed
  <2>2. \A s \in ChainStates : Passed(s, "OPEN") => Passed(s, "AUTHORIZED")
    BY <1>1 DEF Passed
  <2>3. \A s \in LedgerStates : Later(s, "OPEN") => Later(s, "AUTHORIZED")
    BY <1>1 DEF Later
  <2>4. "OUTCOME_SETTLED" \notin Holds(from["buyer"]) /\ status = "OPEN"
    BY <1>4, EmptyPipe DEF ChainCall
  <2> QED
    BY <1>1, <1>2, <1>4, <2>1, <2>2, <2>3, <2>4, CallInv
<1>5. CASE outcome = "CANCELLED" /\ ChainCall("buyer", "OPEN", "CANCELLED") /\ UNCHANGED faults
  <2>1. ~Passed("CANCELLED", "OPEN")
    BY <1>1 DEF Passed
  <2>2. \A s \in ChainStates : Passed(s, "OPEN") => Passed(s, "CANCELLED")
    BY <1>1 DEF Passed
  <2>3. \A s \in LedgerStates : Later(s, "OPEN") => Later(s, "CANCELLED")
    BY <1>1 DEF Later
  <2>4. status = "OPEN"
    BY <1>5 DEF ChainCall
  <2> QED
    BY <1>1, <1>2, <1>5, <2>1, <2>2, <2>3, <2>4, CallInv
<1>6. CASE opening /\ ChainCall("seller", "AUTHORIZED", "SETTLED") /\ UNCHANGED faults
  <2>1. ~Passed("SETTLED", "AUTHORIZED")
    BY <1>1 DEF Passed
  <2>2. \A s \in ChainStates : Passed(s, "AUTHORIZED") => Passed(s, "SETTLED")
    BY <1>1 DEF Passed
  <2>3. \A s \in LedgerStates : Later(s, "AUTHORIZED") => Later(s, "SETTLED")
    BY <1>1 DEF Later
  <2>4. status = "AUTHORIZED"
    BY <1>6 DEF ChainCall
  <2>5. outcome = "SETTLED" /\ "OUTCOME_SETTLED" \notin Holds(from["buyer"])
    BY <2>4 DEF ControllerInv, StatusOfOutcome
  <2> QED
    BY <1>1, <1>2, <1>6, <2>1, <2>2, <2>3, <2>4, <2>5, CallInv
<1>7. CASE SellerCancels
  <2>1. ~Passed("CANCELLED", "AUTHORIZED")
    BY <1>1 DEF Passed
  <2>2. \A s \in ChainStates : Passed(s, "AUTHORIZED") => Passed(s, "CANCELLED")
    BY <1>1 DEF Passed
  <2>3. \A s \in LedgerStates : Later(s, "AUTHORIZED") => Later(s, "CANCELLED")
    BY <1>1 DEF Later
  <2>4. status = "AUTHORIZED" /\ ChainCall("seller", "AUTHORIZED", "CANCELLED")
    BY <1>7 DEF SellerCancels, ChainCall
  <2>5. outcome = "SETTLED"
    BY <2>4 DEF ControllerInv, StatusOfOutcome
  <2>6. faults' \in 0..MaxFaults /\ faults' > 0
    BY <1>1, <1>7, BoundsAreNaturals DEF SellerCancels
  <2> QED
    BY <1>1, <1>2, <2>1, <2>2, <2>3, <2>4, <2>5, <2>6, CallInv
<1> QED
  BY <1>3, <1>4, <1>5, <1>6, <1>7 DEF ChainProgress

\* A call's result is reported.
LEMMA ReportsInv ==
    ASSUME ControllerInv, NEW role \in Parties, Reports(role)
    PROVE  ControllerInv'
<1>0. Types /\ role \in Processes /\ role # "observer" /\ "observer" \in Processes
  BY DEF ControllerInv, Processes, Parties
<1>1. PICK m \in ChainStates : m = report[role]
  BY <1>0 DEF Types, Reports
<1>2. /\ report' = [report EXCEPT ![role] = "none"] /\ Tells(role, m)
      /\ opened' = (opened \/ m = "OPEN") /\ opening' = (opening \/ m = "AUTHORIZED")
      /\ UNCHANGED <<entry, repeats, ctl, joined, place, refused, offered, keyed, locked, ready, started, outcome>>
      /\ UNCHANGED <<finalizing, status, indexed, poll, faults>>
  BY <1>1 DEF Reports, page, room, relay, chain
<1>3. m \in PartyMessages /\ m \notin {"ROOM_JOINED", "COMMITTED"} \cup Outcomes /\ m # "none"
  BY DEF PartyMessages, ChainStates, Outcomes
<1>4. /\ from' \in [Processes -> Seq(PartyMessages)] /\ from'["observer"] \in Seq(ChainStates)
      /\ \A q \in Processes \ {role} : from'[q] = from[q]
      /\ Holds(from'[role]) = Holds(from[role]) \cup {m}
      /\ \A x : Once(x, from[role]) /\ (x # m \/ x \notin Holds(from[role])) => Once(x, from'[role])
  BY <1>0, <1>2, <1>3, TellsFacts
<1>5. /\ report' \in [Parties -> {"none"} \cup ChainStates] /\ report'[role] = "none"
      /\ \A r \in Parties \ {role} : report'[r] = report[r]
  BY <1>0, <1>2 DEF Types
<1>6. Types'
  BY <1>0, <1>2, <1>4, <1>5 DEF Types
<1>7. /\ Entered' /\ Commanded' /\ MarksInOrder' /\ ReadyIsAnnounced'
      /\ OutcomeNoted' /\ StatusOfOutcome'
  BY <1>0, <1>2, <1>3, TellsKeeps
<1>8. OneReport'
  <2>1. OneReport /\ Parties = {"buyer", "seller"} /\ {"buyer", "seller", "observer"} \subseteq Processes
    BY DEF ControllerInv, Parties, Processes
  <2>2. PICK a \in Places, b \in Places :
           /\ a = IF role = "buyer" THEN "buyer call" ELSE "seller call"
           /\ b = IF role = "buyer" THEN "buyer pipe" ELSE "seller pipe"
    BY DEF Places
  <2>3. At(m, a) /\ ~At(m, a)'
    <3>1. CASE role = "buyer"
      BY <1>1, <1>3, <1>5, <2>2, <3>1 DEF At
    <3>2. CASE role = "seller"
      BY <1>1, <1>3, <1>5, <2>2, <3>2 DEF At
    <3> QED
      BY <2>1, <3>1, <3>2
  <2>4. \A state \in ChainStates, where \in Places :
           At(state, where)' => At(state, where) \/ (state = m /\ where = b)
    <3> SUFFICES ASSUME NEW state \in ChainStates, NEW where \in Places, At(state, where)', ~At(state, where)
                 PROVE  state = m /\ where = b
      OBVIOUS
    <3>0. state # "none"
      BY DEF ChainStates
    <3>1. \A r \in Parties : report'[r] = state => report[r] = state
      BY <1>5, <3>0
    <3>2. where \notin {"buyer call", "seller call"}
      BY <2>1, <3>1 DEF At
    <3>3. where \in {"buyer pipe", "seller pipe", "event"}
      BY <1>2, <3>2 DEF At
    <3>4. PICK q \in Processes : /\ state \in Holds(from'[q]) /\ state \notin Holds(from[q])
                                 /\ where = "buyer pipe" => q = "buyer"
                                 /\ where = "seller pipe" => q = "seller"
                                 /\ where = "event" => q = "observer"
      BY <2>1, <3>3 DEF At
    <3>5. q = role /\ state = m
      BY <1>4, <3>4
    <3> QED
      BY <1>0, <2>1, <2>2, <3>3, <3>4, <3>5
  <2>5. \A state \in ChainStates, x, y \in Places : At(state, x)' /\ At(state, y)' => x = y
    BY <2>3, <2>4, ReportMoves
  <2>6. \A state \in ChainStates, where \in Places : At(state, where)' => Passed(state, status')
    BY <1>2, <2>1, <2>3, <2>4 DEF OneReport
  <2>7. \A where \in Places \ {"buyer call", "seller call"} : At("OPEN", where)' => opened'
    BY <1>2, <2>1, <2>4 DEF OneReport, ChainStates
  <2>8. m \notin Holds(from[role])
    <3>1. SUFFICES ASSUME m \in Holds(from[role]) PROVE FALSE
      OBVIOUS
    <3>2. At(m, b) /\ a # b
      BY <2>1, <2>2, <3>1 DEF At
    <3> QED
      BY <2>1, <2>3, <3>2 DEF OneReport
  <2>9. \A state \in ChainStates : /\ Once(state, ctl'.to["observer"])
                                   /\ \A p \in Processes : Once(state, from'[p])
    <3>1. \A state \in ChainStates, p \in Processes : Once(state, from[p])
      BY <2>1 DEF OneReport
    <3>2. \A state \in ChainStates, p \in Processes : Once(state, from'[p])
      BY <1>0, <1>4, <2>8, <3>1
    <3> QED
      BY <1>2, <2>1, <3>2 DEF OneReport
  <2> QED
    BY <2>5, <2>6, <2>7, <2>9 DEF OneReport
<1>9. Indexed'
  <2>1. \A state : InView(state)' <=> InView(state)
    BY <1>2 DEF InView, Passed
  <2>2. from'["observer"] = from["observer"]
    BY <1>0, <1>4
  <2> QED
    BY <1>2, <2>1, <2>2 DEF ControllerInv, Indexed
<1>10. OpenedWhenKeyed'
  BY <1>2 DEF ControllerInv, OpenedWhenKeyed
<1> QED
  BY <1>6, <1>7, <1>8, <1>9, <1>10 DEF ControllerInv

\* What neither a pipe nor a party nor the ledger takes part in.
LEMMA QuietKeeps ==
    ASSUME ControllerInv, faults' \in 0..MaxFaults, faults > 0 => faults' > 0,
           UNCHANGED <<ctl, from, entry, locked, ready, started, finalizing, outcome, status>>
    PROVE  /\ Entered' /\ Commanded' /\ MarksInOrder' /\ ReadyIsAnnounced'
           /\ OutcomeNoted' /\ StatusOfOutcome'
<1>1. Entered' /\ Commanded' /\ MarksInOrder' /\ ReadyIsAnnounced'
  BY DEF ControllerInv, Entered, Commanded, MarksInOrder, InOrder, ReadyIsAnnounced
<1>2. OutcomeNoted' /\ StatusOfOutcome'
  BY DEF ControllerInv, OutcomeNoted, StatusOfOutcome
<1> QED
  BY <1>1, <1>2

\* Reports that disappear.
LEMMA ReportsShrink ==
    ASSUME ControllerInv, \A state \in ChainStates, where \in Places : At(state, where)' => At(state, where),
           UNCHANGED <<ctl, from, status, opened>>
    PROVE  OneReport'
<1>1. OneReport /\ "OPEN" \in ChainStates
  BY DEF ControllerInv, ChainStates
<1>2. /\ \A state \in ChainStates, a, b \in Places : At(state, a)' /\ At(state, b)' => a = b
      /\ \A state \in ChainStates, where \in Places : At(state, where)' => Passed(state, status')
  BY <1>1 DEF OneReport
<1>3. \A where \in Places \ {"buyer call", "seller call"} : At("OPEN", where)' => opened'
  BY <1>1 DEF OneReport
<1>4. \A state \in ChainStates : /\ Once(state, ctl'.to["observer"])
                                 /\ \A p \in Processes : Once(state, from'[p])
  BY <1>1 DEF OneReport
<1> QED
  BY <1>2, <1>3, <1>4 DEF OneReport

\* A call's result is lost.
LEMMA LostInv ==
    ASSUME ControllerInv, NEW role \in Parties, ReportLost(role)
    PROVE  ControllerInv'
<1>1. /\ faults < MaxFaults /\ faults' = faults + 1 /\ report' = [report EXCEPT ![role] = "none"]
      /\ UNCHANGED <<entry, repeats, ctl, from, joined, place, refused, offered, keyed, locked, ready, started>>
      /\ UNCHANGED <<outcome, opened, opening, finalizing, status, indexed, poll>>
  BY DEF ReportLost, page, room, relay, chain
<1>2. Types
  BY DEF ControllerInv
<1>3. faults' \in 0..MaxFaults /\ (faults > 0 => faults' > 0)
  BY <1>1, <1>2, BoundsAreNaturals DEF Types
<1>4. \A r \in Parties : report'[r] \in {report[r], "none"}
  BY <1>1, <1>2 DEF Types
<1>5. Types'
  <2>1. report' \in [Parties -> {"none"} \cup ChainStates]
    BY <1>1, <1>2 DEF Types
  <2> QED
    BY <1>1, <1>2, <1>3, <2>1 DEF Types
<1>6. /\ Entered' /\ Commanded' /\ MarksInOrder' /\ ReadyIsAnnounced'
      /\ OutcomeNoted' /\ StatusOfOutcome'
  BY <1>1, <1>3, QuietKeeps
<1>7. OneReport'
  <2>1. \A state \in ChainStates, where \in Places : At(state, where)' => At(state, where)
    <3>1. "none" \notin ChainStates /\ Parties = {"buyer", "seller"}
      BY DEF ChainStates, Parties
    <3> QED
      BY <1>1, <1>4, <3>1 DEF At
  <2> QED
    BY <1>1, <2>1, ReportsShrink
<1>8. Indexed'
  <2>1. \A state : InView(state)' <=> InView(state)
    BY <1>1 DEF InView, Passed
  <2> QED
    BY <1>1, <2>1 DEF ControllerInv, Indexed
<1>9. OpenedWhenKeyed'
  BY <1>1 DEF ControllerInv, OpenedWhenKeyed
<1> QED
  BY <1>5, <1>6, <1>7, <1>8, <1>9 DEF ControllerInv

\* What the Indexer and a poll show is a state of the past.
LEMMA LaterFacts ==
    ASSUME NEW a \in LedgerStates, NEW b \in LedgerStates, NEW c \in LedgerStates
    PROVE  /\ Later(a, a)
           /\ Later(a, b) /\ Later(b, c) => Later(a, c)
           /\ a \in Final /\ Later(a, b) => a = b
<1>1. /\ LedgerStates = {"WAITING_SELLER", "OPEN", "AUTHORIZED", "SETTLED", "CANCELLED"}
      /\ Final = {"SETTLED", "CANCELLED"}
  BY DEF LedgerStates, ChainStates, Final
<1> QED
  BY <1>1 DEF Later

\* The Indexer catches up.
LEMMA IndexerInv ==
    ASSUME ControllerInv, IndexerCatchesUp
    PROVE  ControllerInv'
<1>1. /\ indexed' = status
      /\ UNCHANGED <<entry, repeats, ctl, from, joined, place, refused, offered, keyed, locked, ready, started>>
      /\ UNCHANGED <<outcome, report, opened, opening, finalizing, status, poll, faults>>
  BY DEF IndexerCatchesUp, page, runtimes, room, relay, deal
<1>2. Types /\ Indexed /\ OneReport
  BY DEF ControllerInv
<1>3. Types'
  BY <1>1, <1>2 DEF Types
<1>4. /\ Entered' /\ Commanded' /\ MarksInOrder' /\ ReadyIsAnnounced'
      /\ OutcomeNoted' /\ StatusOfOutcome'
  BY <1>1, <1>2, QuietKeeps DEF Types
<1>5. OneReport'
  <2>1. \A state \in ChainStates, where \in Places : At(state, where)' => At(state, where)
    BY <1>1 DEF At
  <2> QED
    BY <1>1, <2>1, ReportsShrink
<1>6. Indexed'
  <2>0. /\ status \in LedgerStates /\ indexed \in LedgerStates /\ Later(indexed, status)
        /\ from["observer"] \in Seq(ChainStates) /\ ctl.observed \subseteq ChainStates
        /\ "WAITING_SELLER" \notin Final /\ poll \in [ChainStates -> {"none", "waiting"} \cup LedgerStates]
    BY <1>2 DEF Types, Indexed, Controllers, Final
  <2>1. Later(indexed', status')
    BY <1>1, <2>0, LaterFacts
  <2>2. \A state \in ChainStates : poll'[state] \notin {"none", "waiting"} => Later(poll'[state], indexed')
    <3> SUFFICES ASSUME NEW state \in ChainStates, poll[state] \notin {"none", "waiting"}
                 PROVE  Later(poll[state], status)
      BY <1>1
    <3>1. poll[state] \in LedgerStates /\ Later(poll[state], indexed)
      BY <1>2, <2>0 DEF Indexed
    <3> QED
      BY <2>0, <3>1, LaterFacts
  <2>3. \A state \in Holds(from'["observer"]) \cup ctl'.observed : InView(state)'
    <3> SUFFICES ASSUME NEW state \in Holds(from["observer"]) \cup ctl.observed
                 PROVE  InView(state)'
      BY <1>1
    <3>1. state \in ChainStates
      BY <2>0 DEF Holds
    <3>2. At(state, "event") \/ At(state, "seen")
      BY DEF At
    <3>3. Passed(state, status)
      BY <1>2, <3>1, <3>2 DEF OneReport, Places
    <3> QED
      BY <1>1, <3>3 DEF InView, Passed, Final
  <2>4. indexed \in Final => indexed' = indexed
    BY <1>1, <2>0, LaterFacts
  <2>5. \A role \in Parties, row \in Rows :
           /\ ctl'.rows[role][row] = "CANCELLED" => indexed' = "CANCELLED"
           /\ ctl'.rows[role][row] \in {"AGREED", "SETTLED"} => indexed' = "SETTLED"
    BY <1>1, <1>2, <2>4 DEF Indexed, Final
  <2> QED
    BY <2>1, <2>2, <2>3, <2>5 DEF Indexed
<1>7. OpenedWhenKeyed'
  BY <1>1 DEF ControllerInv, OpenedWhenKeyed
<1> QED
  BY <1>3, <1>4, <1>5, <1>6, <1>7 DEF ControllerInv

\* A poll reads, or is given up.
LEMMA PollsInv ==
    ASSUME ControllerInv, NEW state \in ChainStates, ObserverReads(state) \/ ObserverGivesUp(state)
    PROVE  ControllerInv'
<1>1. PICK x \in {"none", indexed} :
         /\ poll' = [poll EXCEPT ![state] = x] /\ poll[state] # "none"
         /\ UNCHANGED <<entry, repeats, ctl, from, joined, place, refused, offered, keyed, locked, ready, started>>
         /\ UNCHANGED <<outcome, report, opened, opening, finalizing, status, indexed>>
         /\ faults' = faults \/ (faults < MaxFaults /\ faults' = faults + 1)
  BY DEF ObserverReads, ObserverGivesUp, page, runtimes, room, relay, deal, chain
<1>2. Types /\ Indexed
  BY DEF ControllerInv
<1>3. faults' \in 0..MaxFaults /\ (faults > 0 => faults' > 0)
  BY <1>1, <1>2, BoundsAreNaturals DEF Types
<1>4. /\ poll' \in [ChainStates -> {"none", "waiting"} \cup LedgerStates] /\ poll'[state] = x
      /\ \A s \in ChainStates \ {state} : poll'[s] = poll[s]
  BY <1>1, <1>2 DEF Types
<1>5. Types'
  BY <1>1, <1>2, <1>3, <1>4 DEF Types
<1>6. /\ Entered' /\ Commanded' /\ MarksInOrder' /\ ReadyIsAnnounced'
      /\ OutcomeNoted' /\ StatusOfOutcome'
  BY <1>1, <1>3, QuietKeeps
<1>7. OneReport'
  <2>1. \A s \in ChainStates, where \in Places : At(s, where)' => At(s, where)
    BY <1>1, <1>4 DEF At
  <2> QED
    BY <1>1, <2>1, ReportsShrink
<1>8. Indexed'
  <2>1. \A s : InView(s)' <=> InView(s)
    BY <1>1 DEF InView, Passed
  <2>2. Later(indexed, indexed)
    BY DEF Later
  <2>3. \A s \in ChainStates : poll'[s] \notin {"none", "waiting"} => Later(poll'[s], indexed)
    BY <1>2, <1>4, <2>2 DEF Indexed
  <2> QED
    BY <1>1, <1>2, <2>1, <2>3 DEF Indexed
<1>9. OpenedWhenKeyed'
  BY <1>1 DEF ControllerInv, OpenedWhenKeyed
<1> QED
  BY <1>5, <1>6, <1>7, <1>8, <1>9 DEF ControllerInv

\* What shows an awaited state to be reached shows it still.
LEMMA ReachedFacts ==
    ASSUME NEW state \in ChainStates, NEW seen \in LedgerStates, Reached(state, seen),
           indexed \in LedgerStates, Later(seen, indexed)
    PROVE  InView(state)
<1>1. /\ LedgerStates = {"WAITING_SELLER", "OPEN", "AUTHORIZED", "SETTLED", "CANCELLED"}
      /\ ChainStates = {"OPEN", "AUTHORIZED", "SETTLED", "CANCELLED"}
      /\ Final = {"SETTLED", "CANCELLED"}
  BY DEF LedgerStates, ChainStates, Final
<1>2. /\ Rank("WAITING_SELLER") = 0 /\ Rank("OPEN") = 1 /\ Rank("AUTHORIZED") = 2
      /\ Rank("SETTLED") = 3 /\ Rank("CANCELLED") = 4
  BY DEF Rank
<1>3. CASE state = "OPEN"
  <2>1. seen # "WAITING_SELLER"
    BY <1>2, <1>3 DEF Reached
  <2> QED
    BY <1>1, <1>3, <2>1 DEF InView, Passed, Later
<1>4. CASE state = "AUTHORIZED"
  <2>1. seen \notin {"WAITING_SELLER", "OPEN"}
    BY <1>2, <1>4 DEF Reached
  <2> QED
    BY <1>1, <1>4, <2>1 DEF InView, Passed, Later
<1>5. CASE state = "SETTLED"
  <2>1. seen = "SETTLED"
    BY <1>1, <1>2, <1>5 DEF Reached
  <2> QED
    BY <1>1, <1>5, <2>1 DEF InView, Later
<1>6. CASE state = "CANCELLED"
  <2>1. seen = "CANCELLED"
    BY <1>6 DEF Reached
  <2> QED
    BY <1>1, <1>6, <2>1 DEF InView, Later
<1> QED
  BY <1>1, <1>3, <1>4, <1>5, <1>6

\* The Observer's answer.
LEMMA AnswersInv ==
    ASSUME ControllerInv, NEW state \in ChainStates, ObserverAnswers(state)
    PROVE  ControllerInv'
<1>1. /\ poll[state] \notin {"none", "waiting"}
      /\ UNCHANGED <<entry, repeats, ctl, joined, place, refused, offered, keyed, locked, ready, started>>
      /\ UNCHANGED <<outcome, report, opened, opening, finalizing, status, indexed, faults>>
  BY DEF ObserverAnswers, page, runtimes, room, relay, deal, chain
<1>2. Types /\ Indexed /\ OneReport
  BY DEF ControllerInv
<1>3. OpenedWhenKeyed'
  BY <1>1 DEF ControllerInv, OpenedWhenKeyed
<1>4. \A s : InView(s)' <=> InView(s)
  BY <1>1 DEF InView, Passed
<1>5. CASE poll' = [poll EXCEPT ![state] = "waiting"] /\ UNCHANGED from
  <2>1. /\ poll' \in [ChainStates -> {"none", "waiting"} \cup LedgerStates] /\ poll'[state] = "waiting"
        /\ \A s \in ChainStates \ {state} : poll'[s] = poll[s]
    BY <1>2, <1>5 DEF Types
  <2>2. Types'
    BY <1>1, <1>2, <1>5, <2>1 DEF Types
  <2>3. /\ Entered' /\ Commanded' /\ MarksInOrder' /\ ReadyIsAnnounced'
        /\ OutcomeNoted' /\ StatusOfOutcome'
    BY <1>1, <1>2, <1>5, QuietKeeps DEF Types
  <2>4. OneReport'
    <3>1. \A s \in ChainStates, where \in Places : At(s, where)' => At(s, where)
      BY <1>1, <1>5, <2>1 DEF At
    <3> QED
      BY <1>1, <1>5, <3>1, ReportsShrink
  <2>5. Indexed'
    BY <1>1, <1>2, <1>4, <1>5, <2>1 DEF Indexed
  <2> QED
    BY <1>3, <2>2, <2>3, <2>4, <2>5 DEF ControllerInv
<1>6. CASE /\ Reached(state, poll[state])
           /\ poll' = [poll EXCEPT ![state] = "none"] /\ Tells("observer", state)
  <2>0. /\ "observer" \in Processes /\ state \in PartyMessages
        /\ state \notin {"ROOM_JOINED", "COMMITTED"} \cup Outcomes
    BY DEF Processes, PartyMessages, ChainStates, Outcomes
  <2>1. /\ poll' \in [ChainStates -> {"none", "waiting"} \cup LedgerStates] /\ poll'[state] = "none"
        /\ \A s \in ChainStates \ {state} : poll'[s] = poll[s]
    BY <1>2, <1>6 DEF Types
  <2>2. /\ from' \in [Processes -> Seq(PartyMessages)] /\ from'["observer"] \in Seq(ChainStates)
        /\ \A q \in Processes \ {"observer"} : from'[q] = from[q]
        /\ Holds(from'["observer"]) = Holds(from["observer"]) \cup {state}
        /\ \A x : Once(x, from["observer"]) /\ (x # state \/ x \notin Holds(from["observer"]))
              => Once(x, from'["observer"])
    BY <1>2, <1>6, <2>0, TellsFacts
  <2>3. Types'
    BY <1>1, <1>2, <2>1, <2>2 DEF Types
  <2>4. /\ Entered' /\ Commanded' /\ MarksInOrder' /\ ReadyIsAnnounced'
        /\ OutcomeNoted' /\ StatusOfOutcome'
    BY <1>1, <1>6, <2>0, TellsKeeps
  <2>5. InView(state)
    <3>1. poll[state] \in LedgerStates /\ indexed \in LedgerStates /\ Later(poll[state], indexed)
      BY <1>1, <1>2 DEF Types, Indexed
    <3> QED
      BY <1>6, <3>1, ReachedFacts
  <2>6. Indexed'
    <3>1. \A s \in ChainStates : poll'[s] \notin {"none", "waiting"} => Later(poll'[s], indexed')
      BY <1>1, <1>2, <2>1 DEF Indexed
    <3>2. \A s \in Holds(from'["observer"]) \cup ctl'.observed : InView(s)'
      BY <1>1, <1>2, <1>4, <2>2, <2>5 DEF Indexed
    <3> QED
      BY <1>1, <1>2, <3>1, <3>2 DEF Indexed
  <2>7. OneReport'
    <3>1. At(state, "poll") /\ ~At(state, "poll")' /\ "poll" \in Places /\ "event" \in Places
      BY <1>1, <2>1 DEF At, Places
    <3>2. \A s \in ChainStates, where \in Places :
             At(s, where)' => At(s, where) \/ (s = state /\ where = "event")
      <4> SUFFICES ASSUME NEW s \in ChainStates, NEW where \in Places, At(s, where)', ~At(s, where)
                   PROVE  s = state /\ where = "event"
        OBVIOUS
      <4>1. from'["buyer"] = from["buyer"] /\ from'["seller"] = from["seller"]
        BY <2>2 DEF Processes, Parties
      <4>2. where \in {"poll", "event"}
        BY <1>1, <4>1 DEF At
      <4>3. where # "poll"
        BY <2>1 DEF At
      <4>4. s \in Holds(from'["observer"]) /\ s \notin Holds(from["observer"])
        BY <4>2, <4>3 DEF At
      <4> QED
        BY <2>2, <4>2, <4>3, <4>4
    <3>3. \A s \in ChainStates, x, y \in Places : At(s, x)' /\ At(s, y)' => x = y
      BY <3>1, <3>2, ReportMoves
    <3>4. \A s \in ChainStates, where \in Places : At(s, where)' => Passed(s, status')
      BY <1>1, <1>2, <3>1, <3>2 DEF OneReport
    <3>5. \A where \in Places \ {"buyer call", "seller call"} : At("OPEN", where)' => opened'
      <4>1. \A where \in Places : At("OPEN", where)' => At("OPEN", where) \/ At("OPEN", "poll")
        BY <3>1, <3>2 DEF ChainStates
      <4>2. "poll" \in Places \ {"buyer call", "seller call"}
        BY DEF Places
      <4> QED
        BY <1>1, <1>2, <4>1, <4>2 DEF OneReport
    <3>6. state \notin Holds(from["observer"])
      <4>1. SUFFICES ASSUME state \in Holds(from["observer"]) PROVE FALSE
        OBVIOUS
      <4>2. At(state, "event")
        BY <4>1 DEF At
      <4> QED
        BY <1>2, <3>1, <4>2 DEF OneReport
    <3>7. \A s \in ChainStates : /\ Once(s, ctl'.to["observer"])
                                 /\ \A p \in Processes : Once(s, from'[p])
      <4>1. \A s \in ChainStates, p \in Processes : Once(s, from[p])
        BY <1>2 DEF OneReport
      <4>2. \A s \in ChainStates, p \in Processes : Once(s, from'[p])
        BY <2>0, <2>2, <3>6, <4>1
      <4> QED
        BY <1>1, <1>2, <4>2 DEF OneReport
    <3> QED
      BY <3>3, <3>4, <3>5, <3>7 DEF OneReport
  <2> QED
    BY <1>3, <2>3, <2>4, <2>6, <2>7 DEF ControllerInv
<1> QED
  BY <1>5, <1>6 DEF ObserverAnswers

\* The Observer's command.
LEMMA ObserverInv ==
    ASSUME ControllerInv, ObserverHandles
    PROVE  ControllerInv'
<1>1. /\ ctl.to["observer"] # <<>> /\ ctl' = [ctl EXCEPT !.to["observer"] = Tail(@)]
      /\ UNCHANGED <<entry, repeats, from, joined, place, refused, offered, keyed, locked, ready, started>>
      /\ UNCHANGED <<outcome, report, opened, opening, finalizing, status, indexed, faults>>
  BY DEF ObserverHandles, page, runtimes, room, relay, deal, chain
<1>2. PICK m : m = Head(ctl.to["observer"])
  OBVIOUS
<1>3. /\ Types /\ Indexed /\ OneReport /\ "observer" \in Processes
      /\ Parties \subseteq Processes \ {"observer"}
  BY DEF ControllerInv, Processes, Parties
<1>4. /\ ctl' \in Controllers /\ ctl'.rows = ctl.rows /\ ctl'.commitments = ctl.commitments
      /\ ctl'.observed = ctl.observed /\ ctl'.notices = ctl.notices /\ ctl'.marks = ctl.marks
      /\ \A q \in Processes \ {"observer"} : ctl'.to[q] = ctl.to[q]
      /\ \A role \in Parties : ctl'.to[role] \in Seq(Commands)
      /\ ctl'.to["observer"] \in Seq(ObserverCommands)
      /\ Holds(ctl.to["observer"]) = {m} \cup Holds(ctl'.to["observer"])
      /\ \A x : Once(x, ctl.to["observer"]) => Once(x, ctl'.to["observer"])
                                   /\ (x = m => x \notin Holds(ctl'.to["observer"]))
  BY <1>1, <1>2, <1>3, TakesFacts
<1>5. /\ m \in ChainStates => poll' = [poll EXCEPT ![m] = "waiting"]
      /\ m \notin ChainStates => poll' = poll
  <2>1. ASSUME m \in ChainStates PROVE poll[m] = "none"
    <3>1. SUFFICES ASSUME poll[m] # "none" PROVE FALSE
      OBVIOUS
    <3>2. At(m, "poll") /\ At(m, "command") /\ "poll" \in Places /\ "command" \in Places
      BY <1>4, <3>1 DEF At, Places
    <3> QED
      BY <1>3, <2>1, <3>2 DEF OneReport
  <2>2. poll' = IF m \in ChainStates /\ poll[m] = "none" THEN [poll EXCEPT ![m] = "waiting"] ELSE poll
    BY <1>2 DEF ObserverHandles
  <2> QED
    BY <2>1, <2>2
<1>6. /\ poll' \in [ChainStates -> {"none", "waiting"} \cup LedgerStates]
      /\ m \in ChainStates => poll'[m] = "waiting"
      /\ \A s \in ChainStates \ {m} : poll'[s] = poll[s]
  <2>1. poll \in [ChainStates -> {"none", "waiting"} \cup LedgerStates]
    BY <1>3 DEF Types
  <2>2. CASE m \in ChainStates
    <3>1. poll' = [poll EXCEPT ![m] = "waiting"]
      BY <1>5, <2>2
    <3> QED
      BY <2>1, <2>2, <3>1
  <2>3. CASE m \notin ChainStates
    BY <1>5, <2>1, <2>3
  <2> QED
    BY <2>2, <2>3
<1>7. Types'
  BY <1>1, <1>3, <1>4, <1>6 DEF Types
<1>8. \A role \in Parties : ctl'.to[role] = ctl.to[role]
  BY <1>3, <1>4
<1>9. Entered' /\ Commanded' /\ MarksInOrder' /\ ReadyIsAnnounced'
  <2>1. Entered' /\ Commanded'
    BY <1>1, <1>4, <1>8 DEF ControllerInv, Entered, Commanded
  <2>2. MarksInOrder' /\ ReadyIsAnnounced'
    BY <1>4 DEF ControllerInv, MarksInOrder, InOrder, ReadyIsAnnounced
  <2> QED
    BY <2>1, <2>2
<1>10. OutcomeNoted' /\ StatusOfOutcome' /\ OpenedWhenKeyed'
  BY <1>1, <1>4 DEF ControllerInv, OutcomeNoted, StatusOfOutcome, OpenedWhenKeyed
<1>11. Indexed'
  <2>1. \A s : InView(s)' <=> InView(s)
    BY <1>1 DEF InView, Passed
  <2>2. \A s \in ChainStates : poll'[s] \notin {"none", "waiting"} => Later(poll'[s], indexed')
    BY <1>1, <1>3, <1>6 DEF Indexed
  <2> QED
    BY <1>1, <1>3, <1>4, <2>1, <2>2 DEF Indexed
<1>12. OneReport'
  <2>1. \A s \in ChainStates, where \in Places :
           At(s, where)' => At(s, where) \/ (s = m /\ where = "poll")
    <3> SUFFICES ASSUME NEW s \in ChainStates, NEW where \in Places, At(s, where)', ~At(s, where)
                 PROVE  s = m /\ where = "poll"
      OBVIOUS
    <3>1. where \in {"command", "poll"}
      BY <1>1, <1>4 DEF At
    <3>2. where # "command"
      BY <1>4 DEF At
    <3>3. s = m
      BY <1>6, <3>1, <3>2 DEF At
    <3> QED
      BY <3>1, <3>2, <3>3
  <2>2. \A s \in ChainStates, x, y \in Places : At(s, x)' /\ At(s, y)' => x = y
    <3>1. CASE m \in ChainStates
      <4>1. m \in Holds(ctl.to["observer"]) /\ m \notin Holds(ctl'.to["observer"])
        BY <1>3, <1>4, <3>1 DEF OneReport
      <4>2. At(m, "command") /\ ~At(m, "command")' /\ "command" \in Places /\ "poll" \in Places
        BY <4>1 DEF At, Places
      <4> QED
        BY <2>1, <3>1, <4>2, ReportMoves
    <3>2. CASE m \notin ChainStates
      BY <1>3, <2>1, <3>2 DEF OneReport
    <3> QED
      BY <3>1, <3>2
  <2>3. \A s \in ChainStates, where \in Places : At(s, where)' => At(s, where) \/ At(s, "command")
    <3>1. m \in ChainStates => At(m, "command")
      BY <1>4 DEF At
    <3> QED
      BY <2>1, <3>1
  <2>4. \A s \in ChainStates, where \in Places : At(s, where)' => Passed(s, status')
    BY <1>1, <1>3, <2>3 DEF OneReport, Places
  <2>5. \A where \in Places \ {"buyer call", "seller call"} : At("OPEN", where)' => opened'
    BY <1>1, <1>3, <2>3 DEF OneReport, Places, ChainStates
  <2>6. \A s \in ChainStates : /\ Once(s, ctl'.to["observer"])
                               /\ \A p \in Processes : Once(s, from'[p])
    BY <1>1, <1>3, <1>4 DEF OneReport
  <2> QED
    BY <2>2, <2>4, <2>5, <2>6 DEF OneReport
<1> QED
  BY <1>7, <1>9, <1>10, <1>11, <1>12 DEF ControllerInv

-----------------------------------------------------------------------------
(* The invariant holds, and what follows from it. *)

\* Nothing but the places in the room changes.
LEMMA PlacesInv ==
    ASSUME ControllerInv, place' \in [Parties -> {"none", "held", "ended"}],
           UNCHANGED <<entry, repeats, ctl, from, joined, refused, offered, keyed, locked, ready, started>>,
           UNCHANGED <<outcome, report, opened, opening, finalizing, status, indexed, poll, faults>>
    PROVE  ControllerInv'
<1>2. Types'
  BY DEF ControllerInv, Types
<1>3. /\ Entered' /\ Commanded' /\ MarksInOrder' /\ ReadyIsAnnounced'
      /\ OutcomeNoted' /\ StatusOfOutcome'
  BY QuietKeeps DEF ControllerInv, Types
<1>4. OneReport'
  <2>1. \A s \in ChainStates, where \in Places : At(s, where)' => At(s, where)
    BY DEF At
  <2> QED
    BY <2>1, ReportsShrink
<1>5. Indexed'
  <2>1. \A s : InView(s)' <=> InView(s)
    BY DEF InView, Passed
  <2> QED
    BY <2>1 DEF ControllerInv, Indexed
<1>6. OpenedWhenKeyed'
  BY DEF ControllerInv, OpenedWhenKeyed
<1> QED
  BY <1>2, <1>3, <1>4, <1>5, <1>6 DEF ControllerInv

\* The relay sees the end of a connection.
LEMMA FreesInv ==
    ASSUME ControllerInv, NEW role \in Parties, FreesPlace(role)
    PROVE  ControllerInv'
<1>1. place \in [Parties -> {"none", "held", "ended"}]
  BY DEF ControllerInv, Types
<1>2. /\ place' = [place EXCEPT ![role] = "none"]
      /\ UNCHANGED <<entry, repeats, ctl, from, joined, refused, offered, keyed, locked, ready, started>>
      /\ UNCHANGED <<outcome, report, opened, opening, finalizing, status, indexed, poll, faults>>
  BY DEF FreesPlace, page, deal, chain
<1> QED
  BY <1>1, <1>2, PlacesInv

\* Everything starts empty.
LEMMA InitInv ==
    ASSUME Init
    PROVE  ControllerInv
<1>1. /\ ctl.rooms = {} /\ ctl.commitments = {} /\ ctl.channels = {} /\ ctl.notices = {}
      /\ ctl.marks = {} /\ ctl.timer = FALSE /\ ctl.observed = {} /\ ctl.errors = {}
      /\ ctl.rows = [role \in Parties |-> [row \in Rows |-> "none"]]
      /\ ctl.to = [p \in Processes |-> <<>>]
  BY DEF Init, Idle
<1>2. /\ \A p \in Processes : ctl.to[p] = <<>> /\ from[p] = <<>>
      /\ Parties \subseteq Processes /\ {"buyer", "seller", "observer"} \subseteq Processes
      /\ \A role \in Parties, row \in Rows : ctl.rows[role][row] = "none"
  BY <1>1 DEF Init, Processes, Parties
<1>3. \A p \in Processes : Holds(ctl.to[p]) = {} /\ Holds(from[p]) = {}
  BY <1>2, EmptyPipe
<1>4. \A p \in Processes : \A m, others :
         /\ Once(m, ctl.to[p]) /\ Once(m, from[p])
         /\ NeverBehind(m, others, ctl.to[p]) /\ NeverBehind(m, others, from[p])
  BY <1>2, EmptyPipe
<1>5. Types
  <2>1. ctl \in Controllers
    <3>1. "none" \in Texts
      BY DEF Texts
    <3>2. ctl.rows \in [Parties -> [Rows -> Texts]]
      BY <1>1, <3>1
    <3>3. ctl.to \in [Processes -> Seq(Commands \cup ObserverCommands)]
      BY <1>1
    <3> QED
      BY <1>1, <3>2, <3>3 DEF Init, Idle, Controllers
  <2>2. 0 \in 0..MaxRepeats /\ 0 \in 0..MaxFaults
    BY BoundsAreNaturals
  <2>3. from \in [Processes -> Seq(PartyMessages)] /\ from["observer"] \in Seq(ChainStates)
    BY <1>2 DEF Init
  <2>4. /\ \A role \in Parties : ctl.to[role] \in Seq(Commands)
        /\ ctl.to["observer"] \in Seq(ObserverCommands)
    <3>1. <<>> \in Seq(Commands) /\ <<>> \in Seq(ObserverCommands)
      OBVIOUS
    <3>2. (\A role \in Parties : ctl.to[role] = <<>>) /\ ctl.to["observer"] = <<>>
      BY <1>2
    <3> QED
      BY <3>1, <3>2
  <2> QED
    BY <2>1, <2>2, <2>3, <2>4 DEF Init, Types, LedgerStates
<1>6. Entered
  BY <1>1, <1>2, <1>3, <1>4 DEF Init, Entered
<1>7. MarksInOrder /\ ReadyIsAnnounced
  BY <1>1 DEF MarksInOrder, InOrder, ReadyIsAnnounced
<1>8. Commanded
  BY <1>1, <1>2, <1>3, <1>4 DEF Init, Commanded
<1>9. OneReport
  <2>1. \A state \in ChainStates, where \in Places : ~At(state, where)
    <3>1. "none" \notin ChainStates /\ {"buyer", "seller"} \subseteq Parties
      BY DEF ChainStates, Parties
    <3> QED
      BY <1>1, <1>2, <1>3, <3>1 DEF Init, At
  <2>2. "OPEN" \in ChainStates
    BY DEF ChainStates
  <2> QED
    BY <1>2, <1>4, <2>1, <2>2 DEF OneReport
<1>10. OpenedWhenKeyed /\ OutcomeNoted /\ StatusOfOutcome
  BY <1>1, <1>2, <1>3, <1>4 DEF Init, OpenedWhenKeyed, OutcomeNoted, StatusOfOutcome
<1>11. Indexed
  <2>1. Later("WAITING_SELLER", "WAITING_SELLER")
    BY DEF Later
  <2> QED
    BY <1>1, <1>2, <1>3, <2>1 DEF Init, Indexed
<1> QED
  BY <1>5, <1>6, <1>7, <1>8, <1>9, <1>10, <1>11 DEF ControllerInv

\* Every step keeps the invariant.
LEMMA NextInv ==
    ASSUME ControllerInv, [Next]_vars
    PROVE  ControllerInv'
<1>1. CASE TimerFires
  BY <1>1, TimerControls, ControlsInv
<1>2. CASE ChainProgress \/ SellerCancels
  BY <1>2, ChainInv
<1>3. CASE IndexerCatchesUp
  BY <1>3, IndexerInv
<1>4. CASE ObserverHandles
  BY <1>4, ObserverInv
<1>5. CASE PublishOutcome("SETTLED") \/ PublishOutcome("CANCELLED")
  BY <1>5, OutcomeInv DEF Final
<1>6. CASE \E process \in Processes : ControllerAccepts(process)
  BY <1>6, AcceptsControls, ControlsInv
<1>7. CASE \E role \in Parties :
              UserSubmits(role) \/ RuntimeHandles(role) \/ AcceptPeerKey(role)
                \/ FreesPlace(role) \/ ReadsRefusal(role) \/ Reports(role) \/ ReportLost(role)
  <2>1. PICK role \in Parties :
              UserSubmits(role) \/ RuntimeHandles(role) \/ AcceptPeerKey(role)
                \/ FreesPlace(role) \/ ReadsRefusal(role) \/ Reports(role) \/ ReportLost(role)
    BY <1>7
  <2>2. CASE UserSubmits(role)
    BY <2>2, SubmitsInv, BoundsAreNaturals
  <2>3. CASE RuntimeHandles(role)
    BY <2>3, HandlesInv
  <2>4. CASE AcceptPeerKey(role) \/ ReadsRefusal(role)
    BY <2>4, RelayInv
  <2>5. CASE Reports(role)
    BY <2>5, ReportsInv
  <2>6. CASE ReportLost(role)
    BY <2>6, LostInv
  <2>7. CASE FreesPlace(role)
    BY <2>7, FreesInv
  <2> QED
    BY <2>1, <2>2, <2>3, <2>4, <2>5, <2>6, <2>7
<1>8. CASE \E state \in ChainStates :
              ObserverReads(state) \/ ObserverAnswers(state) \/ ObserverGivesUp(state)
  <2>1. PICK state \in ChainStates :
              ObserverReads(state) \/ ObserverAnswers(state) \/ ObserverGivesUp(state)
    BY <1>8
  <2>2. CASE ObserverReads(state) \/ ObserverGivesUp(state)
    BY <2>2, PollsInv
  <2>3. CASE ObserverAnswers(state)
    BY <2>3, AnswersInv
  <2> QED
    BY <2>1, <2>2, <2>3
<1>9. CASE UNCHANGED vars
  <2>1. /\ UNCHANGED <<entry, repeats, ctl, from, joined, place, refused, offered, keyed, locked, ready, started>>
        /\ UNCHANGED <<outcome, report, opened, opening, finalizing, status, indexed, poll, faults>>
    BY <1>9 DEF vars, page, runtimes, room, relay, deal, chain
  <2>2. place' \in [Parties -> {"none", "held", "ended"}]
    BY <2>1 DEF ControllerInv, Types
  <2> QED
    BY <2>1, <2>2, PlacesInv
<1> QED
  BY <1>1, <1>2, <1>3, <1>4, <1>5, <1>6, <1>7, <1>8, <1>9 DEF Next

\* In every reachable state of the controller, its pipes and the chain, the parts
\* of the inductive invariant hold.
THEOREM ControllerInvariant == Spec => []ControllerInv
<1>1. Init => ControllerInv
  BY InitInv
<1>2. ControllerInv /\ [Next]_vars => ControllerInv'
  BY NextInv
<1> QED
  BY <1>1, <1>2, PTL DEF Spec

\* The controller's Maps and Sets, the pipes, the runtimes and the chain keep
\* their types.
THEOREM ControllerTypes == Spec => []TypeOK
<1>1. ControllerInv => TypeOK
  <2> SUFFICES ASSUME ControllerInv PROVE TypeOK
    OBVIOUS
  <2>1. Types
    BY DEF ControllerInv
  <2>2. /\ ctl.rooms \subseteq Parties /\ ctl.commitments \subseteq Parties
        /\ ctl.channels \subseteq Parties /\ ctl.notices \subseteq Parties /\ ctl.errors \subseteq Parties
        /\ ctl.marks \subseteq Marks /\ ctl.timer \in BOOLEAN /\ ctl.observed \subseteq ChainStates
        /\ ctl.rows \in [Parties -> [Rows -> Texts]]
    BY <2>1 DEF Types, Controllers
  <2>3. /\ \A role \in Parties :
              ctl.to[role] \in Seq({"JOIN_ROOM", "SET_LIMIT", "PEER_READY", "START_RUNTIME",
                                    "FINALIZE_SESSION"})
        /\ ctl.to["observer"] \in Seq({"CONFIGURE_OBSERVER"} \cup ChainStates)
        /\ from["observer"] \in Seq(ChainStates)
    BY <2>1 DEF Types, Commands, ObserverCommands
  <2>4. \A set \in {ctl.rooms, ctl.commitments, ctl.channels, ctl.notices, ctl.errors, joined,
                    refused, offered, keyed, locked, ready, finalizing} : set \subseteq Parties
    BY <2>1, <2>2 DEF Types
  <2>5. /\ entry \in [Parties -> {"code", "joining", "limit", "locking", "locked"}]
        /\ place \in [Parties -> {"none", "held", "ended"}]
        /\ {started, opened, opening} \subseteq BOOLEAN
        /\ outcome \in {"none"} \cup Final
        /\ report \in [Parties -> {"none"} \cup ChainStates]
        /\ {status, indexed} \subseteq {"WAITING_SELLER"} \cup ChainStates
        /\ faults \in 0..MaxFaults /\ repeats \in 0..MaxRepeats
    BY <2>1 DEF Types, LedgerStates
  <2>6. poll \in [ChainStates -> {"none", "waiting", "WAITING_SELLER"} \cup ChainStates]
    <3>1. {"none", "waiting"} \cup LedgerStates = {"none", "waiting", "WAITING_SELLER"} \cup ChainStates
      BY DEF LedgerStates
    <3> QED
      BY <2>1, <3>1 DEF Types
  <2> QED
    BY <2>2, <2>3, <2>4, <2>5, <2>6 DEF TypeOK
<1> QED
  BY <1>1, ControllerInvariant, PTL

\* Once OPEN was observed the runtimes have what a negotiation needs, and the
\* seller knows that its call returned.
LEMMA OpenFacts ==
    ASSUME ControllerInv, "chainOpen" \in ctl.marks
    PROVE  locked = Parties /\ keyed = Parties /\ opened
<1>1. At("OPEN", "seen") /\ "seen" \in Places \ {"buyer call", "seller call"} /\ "OPEN" \in ChainStates
  BY DEF ControllerInv, MarksInOrder, InOrder, At, Places, ChainStates
<1>2. Passed("OPEN", status) /\ opened
  BY <1>1 DEF ControllerInv, OneReport
<1>3. status # "WAITING_SELLER"
  BY <1>2 DEF Passed, Final
<1> QED
  BY <1>2, <1>3 DEF ControllerInv, OpenedWhenKeyed

\* An observed end is the ledger's, and follows from the outcome.
LEMMA EndFacts ==
    ASSUME ControllerInv, ctl.observed \cap Final # {}
    PROVE  /\ status \in Final /\ status \in ctl.observed
           /\ status = outcome \/ (status = "CANCELLED" /\ faults > 0)
           /\ outcome # "none"
<1>1. PICK x \in ctl.observed \cap Final : TRUE
  OBVIOUS
<1>2. x \in ChainStates /\ At(x, "seen") /\ "seen" \in Places
  BY DEF ControllerInv, Types, Controllers, At, Places
<1>3. Passed(x, status)
  BY <1>2 DEF ControllerInv, OneReport
<1>4. status = x
  BY <1>3 DEF Passed, Final
<1> QED
  BY <1>4 DEF ControllerInv, StatusOfOutcome, Final

\* Whatever order the three processes' pipes deliver in, a runtime never refuses a
\* command the controller gives of its own.
THEOREM NoCommandRefused == Spec => []CommandsAccepted
<1>1. ControllerInv => CommandsAccepted
  <2> SUFFICES ASSUME ControllerInv, NEW role \in Parties, ctl.to[role] # <<>>,
                      Head(ctl.to[role]) \notin {"JOIN_ROOM", "SET_LIMIT"}
               PROVE  Accepts(role, Head(ctl.to[role]))
    BY DEF CommandsAccepted
  <2>1. PICK command : command = Head(ctl.to[role])
    OBVIOUS
  <2>2. ctl.to[role] \in Seq(Commands)
    BY DEF ControllerInv, Types
  <2>3. /\ command \in Commands /\ command \in Holds(ctl.to[role])
        /\ Holds(ctl.to[role]) = {command} \cup Holds(Tail(ctl.to[role]))
        /\ \A m, others : NeverBehind(m, others, ctl.to[role]) =>
              (command \in others => m \notin Holds(Tail(ctl.to[role])))
    BY <2>1, <2>2, TailFacts
  <2>4. /\ "peerReady" \in ctl.marks => role \in ready \/ "PEER_READY" \in Holds(ctl.to[role])
        /\ NeverBehind("PEER_READY", {"START_RUNTIME"}, ctl.to[role])
        /\ "START_RUNTIME" \in Holds(ctl.to[role]) => "negotiating" \in ctl.marks
        /\ role = "buyer" /\ started => "START_RUNTIME" \notin Holds(ctl.to[role])
        /\ "FINALIZE_SESSION" \in Holds(ctl.to[role]) => ctl.observed \cap Final # {}
        /\ role \in finalizing => "FINALIZE_SESSION" \notin Holds(ctl.to[role])
        /\ started => "negotiating" \in ctl.marks
    BY DEF ControllerInv, Commanded
  <2>5. "negotiating" \in ctl.marks => {"peerReady", "chainOpen"} \subseteq ctl.marks
    BY DEF ControllerInv, MarksInOrder, InOrder
  <2>6. CASE command = "PEER_READY"
    <3>1. role \in locked
      BY <2>3, <2>6, NotLocked
    <3> QED
      BY <2>1, <2>6, <3>1 DEF Accepts
  <2>7. CASE command = "START_RUNTIME"
    <3>1. {"peerReady", "chainOpen"} \subseteq ctl.marks
      BY <2>3, <2>4, <2>5, <2>7
    <3>2. locked = Parties /\ keyed = Parties
      BY <3>1, OpenFacts
    <3>3. "PEER_READY" \notin Holds(ctl.to[role])
      BY <2>3, <2>4, <2>7
    <3>4. role \in ready
      BY <2>4, <3>1, <3>3
    <3>5. role = "buyer" => ~started
      BY <2>3, <2>4, <2>7
    <3> QED
      BY <2>1, <2>7, <3>2, <3>4, <3>5 DEF Accepts
  <2>8. CASE command = "FINALIZE_SESSION"
    <3>1. outcome # "none"
      BY <2>3, <2>4, <2>8, EndFacts
    <3>2. started
      BY <3>1 DEF ControllerInv, OutcomeNoted
    <3>3. opened
      BY <2>4, <2>5, <3>2, OpenFacts
    <3>4. role \notin finalizing
      BY <2>3, <2>4, <2>8
    <3> QED
      BY <2>1, <2>8, <3>3, <3>4 DEF Accepts
  <2> QED
    BY <2>1, <2>3, <2>6, <2>7, <2>8 DEF Commands
<1> QED
  BY <1>1, ControllerInvariant, PTL

\* Both commitments and the start are announced when both parties are ready and
\* OPEN was observed, whichever message comes last.
THEOREM ReadinessIsAnnounced == Spec => []ReadyIsAnnounced
<1>1. ControllerInv => ReadyIsAnnounced
  BY DEF ControllerInv
<1> QED
  BY <1>1, ControllerInvariant, PTL

\* The Observer's SETTLED never overtakes the outcome the amount is taken from.
THEOREM AmountIsKnown == Spec => []AmountKnown
<1>1. ControllerInv => AmountKnown
  <2> SUFFICES ASSUME ControllerInv, NEW i \in 1..Len(from["observer"]), from["observer"][i] = "SETTLED"
               PROVE  "pendingSettlement" \in ctl.marks
    BY DEF AmountKnown
  <2>1. "SETTLED" \in Holds(from["observer"])
    BY DEF Holds
  <2> QED
    BY <2>1, SettledIsKnown
<1> QED
  BY <1>1, ControllerInvariant, PTL

\* No chain state is shown before the Indexer exposed it.
THEOREM WhatIsShownIsIndexed == Spec => []ShownIsIndexed
<1>1. ControllerInv => ShownIsIndexed
  <2> SUFFICES ASSUME ControllerInv PROVE ShownIsIndexed
    OBVIOUS
  <2>1. \A state \in ctl.observed : InView(state) /\ state \in ChainStates
    BY DEF ControllerInv, Indexed, Types, Controllers
  <2>2. \A state \in ctl.observed :
          CASE state \in Final -> indexed = state
            [] state = "OPEN" -> indexed # "WAITING_SELLER"
            [] state = "AUTHORIZED" -> indexed \notin {"WAITING_SELLER", "OPEN"}
    <3> SUFFICES ASSUME NEW state \in ctl.observed
                 PROVE  CASE state \in Final -> indexed = state
                          [] state = "OPEN" -> indexed # "WAITING_SELLER"
                          [] state = "AUTHORIZED" -> indexed \notin {"WAITING_SELLER", "OPEN"}
      OBVIOUS
    <3>1. InView(state)
      BY <2>1
    <3>2. CASE state \in Final
      <4>1. state # "OPEN" /\ state # "AUTHORIZED" /\ indexed = state
        BY <3>1, <3>2 DEF InView, Final
      <4> QED
        BY <3>2, <4>1
    <3>3. CASE state = "OPEN"
      <4>1. state \notin Final /\ indexed # "WAITING_SELLER"
        BY <3>1, <3>3 DEF InView, Passed, Final
      <4> QED
        BY <3>3, <4>1
    <3>4. CASE state = "AUTHORIZED"
      <4>1. state \notin Final /\ indexed \notin {"WAITING_SELLER", "OPEN"}
        BY <3>1, <3>4 DEF InView, Passed, Final
      <4> QED
        BY <3>4, <4>1
    <3> QED
      BY <2>1, <3>2, <3>3, <3>4 DEF ChainStates, Final
  <2>3. \A role \in Parties, row \in Rows :
           /\ ctl.rows[role][row] = "CANCELLED" => indexed = "CANCELLED"
           /\ ctl.rows[role][row] \in {"AGREED", "SETTLED"} => indexed = "SETTLED"
    BY DEF ControllerInv, Indexed
  <2> QED
    BY <2>2, <2>3 DEF ShownIsIndexed
<1> QED
  BY <1>1, ControllerInvariant, PTL

\* FINALIZE_SESSION follows the observed end of the deal, and the end is the one
\* the buyer announced unless something failed.
THEOREM FinalizedAtTheEnd == Spec => []FinalizedWhenFinal
<1>1. ControllerInv => FinalizedWhenFinal
  <2> SUFFICES ASSUME ControllerInv, NEW role \in Parties,
                      role \in finalizing
                        \/ \E i \in 1..Len(ctl.to[role]) : ctl.to[role][i] = "FINALIZE_SESSION"
               PROVE  /\ status \in Final /\ status \in ctl.observed
                      /\ status = outcome \/ (status = "CANCELLED" /\ faults > 0)
    BY DEF FinalizedWhenFinal
  <2>1. role \in finalizing \/ "FINALIZE_SESSION" \in Holds(ctl.to[role])
    BY DEF Holds
  <2>2. ctl.observed \cap Final # {}
    BY <2>1 DEF ControllerInv, Commanded
  <2> QED
    BY <2>2, EndFacts
<1> QED
  BY <1>1, ControllerInvariant, PTL
=============================================================================
