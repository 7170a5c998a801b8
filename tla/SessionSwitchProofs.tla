-------------------------- MODULE SessionSwitchProofs -------------------------
(***************************************************************************)
(* For any number of sessions and any overlap of their continuations: the  *)
(* shared state is of one session, what is finalized is what was asked for *)
(* and every deal is recorded.  The invariant adds where a connection      *)
(* stands when it resumes, and that a session connects at most once.       *)
(***************************************************************************)
EXTENDS SessionSwitch, TLAPS

\* Nothing is open and nothing is known before the first room.
Joined ==
    /\ channel # "closed" => session # None
    /\ {secrets, contract, record} # {None} => session # None

IsConnect(t) == t.kind = "connect"

\* A session's connection starts once, in that session.
OneConnection ==
    /\ \A t, u \in tasks : IsConnect(t) /\ IsConnect(u) /\ t.of = u.of => t = u
    /\ \A t \in tasks : IsConnect(t) => t.of <= session /\ (t.of = session => connecting)
    /\ \A s \in Sessions : TookPart(s) => s <= session /\ (s = session => connecting)

\* What a connection did before each of its awaits.
ConnectionStages ==
    \A t \in tasks : IsConnect(t) =>
        /\ t.stage \in {"waiting", "recorded", "joining"} => ~TookPart(t.of)
        /\ t.stage \in {"recorded", "joining"} => stored[t.of] # "none"
        /\ t.stage \in {"applied", "named"} => TookPart(t.of)

\* A contract that is used is one that this runtime deployed or joined.
CallsOwnDeals ==
    /\ contract # None => TookPart(contract)
    /\ \A t \in tasks : t.kind \in {"authorize", "settle", "cancel"} =>
                            t.on \in Sessions /\ TookPart(t.on)

\* The seller's record names the contract from the start.
SellerNames == role = "seller" => \A s \in Sessions : stored[s] # "unnamed"

SwitchInv ==
    /\ TypeOK /\ StateOfOneSession /\ FinalizesWhatIsAsked /\ DealsAreRecorded
    /\ Joined /\ OneConnection /\ ConnectionStages /\ CallsOwnDeals /\ SellerNames

-----------------------------------------------------------------------------
(* What keeps the invariant, by what a step touches. *)

\* The invariant holds before the first room.
LEMMA SwitchInitInv == Init => SwitchInv
<1> SUFFICES ASSUME Init PROVE SwitchInv
  OBVIOUS
<1>1. TypeOK
  <2>1. 0 \in OrNone
    BY MaxSessionsIsNat DEF OrNone
  <2>2. /\ deal \in [Sessions -> DealStates]
        /\ stored \in [Sessions -> {"none", "unnamed", "named", "cleaned"}]
    BY DEF Init, DealStates
  <2> QED
    BY <2>1, <2>2 DEF Init, TypeOK, None
<1>2. \A s \in Sessions : ~TookPart(s)
  BY DEF Init, TookPart
<1> QED
  BY <1>1, <1>2 DEF Init, SwitchInv, StateOfOneSession, FinalizesWhatIsAsked, DealsAreRecorded,
     Joined, OneConnection, ConnectionStages, CallsOwnDeals, SellerNames, None

\* A task that calls a deal of this runtime, or waits for something else.
Harmless(t) ==
    /\ t.kind \notin {"connect", "finalize"}
    /\ t.kind \in {"authorize", "settle", "cancel"} => t.on \in Sessions /\ TookPart(t.on)

\* A step that begins no connection and no finalization, changes no deal and no
\* record, and gives up a connection only when that is known.
LEMMA HarmlessKeeps ==
    ASSUME SwitchInv, TypeOK',
           UNCHANGED <<role, session, connecting, contract, deal, stored>>,
           lost \subseteq lost',
           secrets' \in {None, secrets} \/ (secrets' = session /\ session # None),
           record' \in {None, record},
           channel' # "closed" => channel # "closed",
           \A t \in tasks' : t \in tasks \/ Harmless(t),
           \A t \in tasks \ tasks' :
               IsConnect(t) => t.of \in lost' \/ t.stage # "applied" \/ role = "seller"
    PROVE  SwitchInv'
<1> USE DEF SwitchInv
<1>1. \A s \in Sessions : TookPart(s)' <=> TookPart(s)
  BY DEF TookPart
<1>2. StateOfOneSession' /\ Joined'
  BY DEF StateOfOneSession, Joined
<1>3. FinalizesWhatIsAsked' /\ SellerNames'
  BY DEF FinalizesWhatIsAsked, SellerNames, Harmless
<1>4. DealsAreRecorded'
  BY <1>1 DEF DealsAreRecorded, SellerNames, Connecting, IsConnect
<1>5. OneConnection'
  BY <1>1 DEF OneConnection, Harmless, IsConnect
<1>6. ConnectionStages'
  BY <1>1 DEF ConnectionStages, Harmless, IsConnect, TypeOK
<1>7. CallsOwnDeals'
  <2>1. contract' # None => TookPart(contract)'
    BY DEF CallsOwnDeals, TookPart
  <2> QED
    BY <1>1, <2>1 DEF CallsOwnDeals, Harmless
<1> QED
  BY <1>2, <1>3, <1>4, <1>5, <1>6, <1>7

\* The session of a contract, and the one of an open channel, are sessions.
LEMMA SessionsInUse ==
    ASSUME SwitchInv
    PROVE  /\ channel # "closed" \/ {secrets, contract, record} # {None} => session \in Sessions
           /\ contract \in {None, session} /\ secrets \in {None, session}
           /\ record \in {None, session}
           /\ contract # None => contract \in Sessions /\ TookPart(contract)
  BY MaxSessionsIsNat DEF SwitchInv, TypeOK, StateOfOneSession, Joined, CallsOwnDeals, OrNone,
     Sessions, None

\* The tasks that may wait.
AllTasks == [kind : Kinds, of : Sessions, stage : Stages, on : OrNone]

\* A task is typed when it begins in a session.
LEMMA TaskTyped ==
    ASSUME session \in Sessions, NEW k \in Kinds, NEW g \in Stages, NEW n \in OrNone
    PROVE  Task(k, g, n) \in AllTasks
  BY DEF Task, AllTasks

\* Commands and packets that start no connection.
LEMMA PacketsKeep ==
    ASSUME SwitchInv,
           \/ AcceptPeerKey \/ PeerReady \/ StartRuntime \/ AcceptOffer
           \/ AcceptAnswer \/ AcceptOpening
    PROVE  SwitchInv'
<1> USE SessionsInUse DEF SwitchInv, memory, Harmless, Task, None
<1>1. CASE AcceptPeerKey \/ PeerReady
  <2>1. TypeOK'
    BY <1>1 DEF AcceptPeerKey, PeerReady, TypeOK
  <2> QED
    BY <1>1, <2>1, HarmlessKeeps DEF AcceptPeerKey, PeerReady
<1>2. CASE StartRuntime \/ AcceptOffer
  <2>1. TypeOK'
    <3>1. session \in Sessions /\ 0 \in OrNone
      BY <1>2, MaxSessionsIsNat DEF StartRuntime, AcceptOffer, MayDecide, OrNone
    <3>2. tasks' \subseteq AllTasks
      BY <1>2, <3>1, TaskTyped DEF StartRuntime, AcceptOffer, TypeOK, AllTasks, Kinds, Stages
    <3> QED
      BY <1>2, <3>2 DEF StartRuntime, AcceptOffer, TypeOK, AllTasks
  <2> QED
    BY <1>2, <2>1, HarmlessKeeps DEF StartRuntime, AcceptOffer, MayDecide
<1>3. CASE AcceptAnswer
  <2>1. TypeOK'
    <3>1. session \in Sessions /\ contract \in OrNone
      BY <1>3 DEF AcceptAnswer, TypeOK
    <3>2. tasks' \subseteq AllTasks
      BY <1>3, <3>1, TaskTyped DEF AcceptAnswer, Publish, TypeOK, AllTasks, Kinds, Stages
    <3> QED
      BY <1>3, <3>2 DEF AcceptAnswer, Publish, TypeOK, AllTasks
  <2> QED
    BY <1>3, <2>1, HarmlessKeeps DEF AcceptAnswer, Publish
<1>4. CASE AcceptOpening
  <2>1. TypeOK'
    <3>1. session \in Sessions /\ contract \in OrNone
      BY <1>4 DEF AcceptOpening, TypeOK
    <3>2. tasks' \subseteq AllTasks
      BY <1>4, <3>1, TaskTyped DEF AcceptOpening, TypeOK, AllTasks, Kinds, Stages
    <3> QED
      BY <1>4, <3>2 DEF AcceptOpening, TypeOK, AllTasks
  <2> QED
    BY <1>4, <2>1, HarmlessKeeps DEF AcceptOpening
<1> QED
  BY <1>1, <1>2, <1>3, <1>4

\* Continuations that share nothing.
LEMMA ReturnsKeep ==
    ASSUME SwitchInv, NEW t \in tasks,
           StartTimer(t) \/ Decided(t) \/ Calls(t) \/ CallReturns(t) \/ TaskFails(t)
    PROVE  SwitchInv'
<1> USE SessionsInUse DEF SwitchInv, memory, Harmless, Task, None
<1>1. CASE StartTimer(t)
  <2>1. TypeOK'
    <3>1. (MayDecide => session \in Sessions) /\ 0 \in OrNone
      BY MaxSessionsIsNat DEF MayDecide, OrNone
    <3>2. tasks' \subseteq AllTasks
      BY <1>1, <3>1, TaskTyped DEF StartTimer, TypeOK, AllTasks, Kinds, Stages
    <3> QED
      BY <1>1, <3>2 DEF StartTimer, TypeOK, AllTasks
  <2> QED
    BY <1>1, <2>1, HarmlessKeeps DEF StartTimer, MayDecide, IsConnect
<1>2. CASE Decided(t)
  <2>1. TypeOK'
    <3>1. contract # None => session \in Sessions /\ contract \in OrNone
      BY DEF TypeOK
    <3>2. tasks' \subseteq AllTasks
      BY <1>2, <3>1, TaskTyped DEF Decided, Publish, TypeOK, AllTasks, Kinds, Stages
    <3>3. offered' \in BOOLEAN /\ agreed' \in {"no", "settled", "cancelled"}
      BY <1>2 DEF Decided, Publish, TypeOK
    <3> QED
      BY <1>2, <3>2, <3>3 DEF Decided, TypeOK, AllTasks
  <2> QED
    BY <1>2, <2>1, HarmlessKeeps DEF Decided, Publish, IsConnect
<1>3. CASE Calls(t)
  <2>1. TypeOK'
    <3>1. t \in AllTasks /\ contract \in OrNone
      BY DEF TypeOK, AllTasks
    <3>2. [t EXCEPT !.stage = "joining", !.on = contract] \in AllTasks
      BY <3>1 DEF AllTasks, Stages
    <3> QED
      BY <1>3, <3>2 DEF Calls, TypeOK, AllTasks
  <2>2. t.kind \in {"authorize", "settle"}
    BY <1>3 DEF Calls
  <2>3. \A u \in tasks' : u \in tasks \/ Harmless(u)
    BY <1>3 DEF Calls, TypeOK
  <2> QED
    BY <1>3, <2>1, <2>2, <2>3, HarmlessKeeps DEF Calls, IsConnect
<1>4. CASE CallReturns(t)
  <2>1. TypeOK'
    BY <1>4 DEF CallReturns, TypeOK
  <2> QED
    BY <1>4, <2>1, HarmlessKeeps DEF CallReturns, IsConnect
<1>5. CASE TaskFails(t)
  <2>1. TypeOK'
    BY <1>5 DEF TaskFails, TypeOK, Kinds, Stages
  <2> QED
    BY <1>5, <2>1, HarmlessKeeps DEF TaskFails, IsConnect
<1> QED
  BY <1>1, <1>2, <1>3, <1>4, <1>5

\* JOIN_ROOM: the session is new, so nothing was connected in it.
LEMMA JoinRoomKeeps == ASSUME SwitchInv, JoinRoom PROVE SwitchInv'
<1> USE DEF SwitchInv
<1>1. session' \in Sessions /\ session < session' /\ session \in Nat /\ Sessions \subseteq OrNone
  BY MaxSessionsIsNat DEF JoinRoom, TypeOK, OrNone, Sessions
<1>8. 0 \in OrNone
  BY MaxSessionsIsNat DEF OrNone
<1>9. TypeOK'
  BY <1>1, <1>8 DEF JoinRoom, TypeOK, None
<1>2. \A s \in Sessions : TookPart(s)' <=> TookPart(s)
  BY DEF JoinRoom, TookPart
<1>3. \A s \in Sessions : s <= session => s <= session' /\ s # session'
  BY <1>1 DEF Sessions
<1>4. StateOfOneSession' /\ Joined' /\ FinalizesWhatIsAsked' /\ SellerNames'
  BY <1>1 DEF JoinRoom, StateOfOneSession, Joined, FinalizesWhatIsAsked, SellerNames, Sessions, None
<1>5. DealsAreRecorded'
  BY <1>2 DEF JoinRoom, DealsAreRecorded, Connecting
<1>6. OneConnection'
  BY <1>2, <1>3 DEF JoinRoom, OneConnection, IsConnect, TypeOK
<1>7. ConnectionStages' /\ CallsOwnDeals'
  BY <1>2 DEF JoinRoom, ConnectionStages, CallsOwnDeals, IsConnect, TypeOK, None
<1> QED
  BY <1>9, <1>4, <1>5, <1>6, <1>7

\* A connection begins when none did in its session.
LEMMA ConnectionBegins ==
    ASSUME SwitchInv, session \in Sessions, ~connecting, connecting' = TRUE,
           tasks' = tasks \cup {Task("connect", "waiting", None)},
           UNCHANGED <<role, session, contract, record, deal, stored, lost, told, channel, offered,
                       agreed, started>>,
           peerReady' = peerReady, peerKnown' \in BOOLEAN, secrets' \in {secrets, session}
    PROVE  SwitchInv'
<1> USE DEF SwitchInv
<1> DEFINE new == Task("connect", "waiting", None)
<1>1. TypeOK'
  BY MaxSessionsIsNat DEF TypeOK, Task, Kinds, Stages, OrNone, None, Sessions
<1>2. \A s \in Sessions : TookPart(s)' <=> TookPart(s)
  BY DEF TookPart
<1>3. new.kind = "connect" /\ new.of = session /\ new.stage = "waiting"
  BY DEF Task
<1>4. ~TookPart(session) /\ \A t \in tasks : IsConnect(t) => t.of # session
  BY DEF OneConnection
<1>5. StateOfOneSession' /\ Joined' /\ FinalizesWhatIsAsked' /\ SellerNames'
  BY <1>3 DEF StateOfOneSession, Joined, FinalizesWhatIsAsked, SellerNames, None, Sessions
<1>6. DealsAreRecorded'
  BY <1>2 DEF DealsAreRecorded, Connecting
<1>7. OneConnection'
  <2>1. session <= session
    BY DEF Sessions
  <2> QED
    BY <1>2, <1>3, <1>4, <2>1 DEF OneConnection, IsConnect
<1>8. ConnectionStages'
  BY <1>2, <1>3, <1>4 DEF ConnectionStages, IsConnect, TypeOK
<1>9. CallsOwnDeals'
  <2>1. contract' # None => TookPart(contract)'
    BY DEF CallsOwnDeals, TookPart
  <2> QED
    BY <1>2, <1>3, <2>1 DEF CallsOwnDeals
<1> QED
  BY <1>1, <1>5, <1>6, <1>7, <1>8, <1>9

\* SET_LIMIT and the peer's key or address: either may be the last that a
\* connection waits for.
LEMMA ConnectingCommandsKeep ==
    ASSUME SwitchInv, SetLimit \/ AcceptPeerControl
    PROVE  SwitchInv'
<1> USE SessionsInUse DEF SwitchInv
<1>1. session \in Sessions /\ secrets' \in {secrets, session} /\ peerKnown' \in BOOLEAN
  <2>1. CASE SetLimit
    BY <2>1, MaxSessionsIsNat DEF SetLimit, TypeOK, OrNone, Sessions, None
  <2>2. CASE AcceptPeerControl
    BY <2>2 DEF AcceptPeerControl
  <2> QED
    BY <2>1, <2>2
<1>2. UNCHANGED <<role, session, contract, record, deal, stored, lost, told, channel, offered,
                  agreed, started, peerReady>>
  BY DEF SetLimit, AcceptPeerControl
<1>3. \/ UNCHANGED <<connecting, tasks>>
      \/ /\ ~connecting /\ connecting' = TRUE
         /\ tasks' = tasks \cup {Task("connect", "waiting", None)}
  BY DEF SetLimit, AcceptPeerControl, Connects
<1>4. CASE UNCHANGED <<connecting, tasks>>
  <2>1. TypeOK'
    BY <1>1, <1>2, <1>4, MaxSessionsIsNat DEF TypeOK, OrNone, Sessions
  <2> QED
    BY <1>1, <1>2, <1>4, <2>1, HarmlessKeeps DEF None, Sessions
<1>5. CASE /\ ~connecting /\ connecting' = TRUE
           /\ tasks' = tasks \cup {Task("connect", "waiting", None)}
  BY <1>1, <1>2, <1>5, ConnectionBegins
<1> QED
  BY <1>3, <1>4, <1>5

\* FINALIZE_SESSION: the record at hand is of the session it is asked for.
LEMMA FinalizeSessionKeeps ==
    ASSUME SwitchInv, NEW s \in Sessions, FinalizeSession(s)
    PROVE  SwitchInv'
<1> USE DEF SwitchInv
<1>1. UNCHANGED <<role, memory, deal, stored, lost>>
  BY DEF FinalizeSession
<1>2. \A t \in tasks' \ tasks : /\ t.kind = "finalize" /\ t.on = t.of
                                /\ t \in [kind : Kinds, of : Sessions, stage : Stages, on : OrNone]
  BY DEF FinalizeSession, IsCurrent, Task, StateOfOneSession, TypeOK, Kinds, Stages, None
<1>3. tasks \subseteq tasks' /\ told' \subseteq Sessions
  BY DEF FinalizeSession, TypeOK
<1>4. \A r \in Sessions : TookPart(r)' <=> TookPart(r)
  BY <1>1 DEF TookPart
<1>5. TypeOK'
  BY <1>1, <1>2, <1>3 DEF memory, TypeOK
<1>6. StateOfOneSession' /\ Joined' /\ SellerNames'
  BY <1>1 DEF memory, StateOfOneSession, Joined, SellerNames
<1>7. FinalizesWhatIsAsked'
  BY <1>2 DEF FinalizesWhatIsAsked
<1>8. DealsAreRecorded'
  BY <1>1, <1>3, <1>4 DEF DealsAreRecorded, Connecting
<1>9. OneConnection'
  BY <1>1, <1>2, <1>4 DEF memory, OneConnection, IsConnect
<1>10. ConnectionStages'
  BY <1>1, <1>2, <1>4 DEF ConnectionStages, IsConnect, TypeOK
<1>11. CallsOwnDeals'
  <2>1. contract' # None => TookPart(contract)'
    BY <1>1 DEF memory, CallsOwnDeals, TookPart
  <2> QED
    BY <1>1, <1>2, <1>4, <2>1 DEF CallsOwnDeals
<1> QED
  BY <1>5, <1>6, <1>7, <1>8, <1>9, <1>10, <1>11

\* A deal moves on: none is unmade, and nobody takes part in another one.
LEMMA DealsMoveKeeps ==
    ASSUME SwitchInv, TypeOK',
           UNCHANGED <<role, memory, stored, told, lost>>,
           \A s \in Sessions : TookPart(s)' <=> TookPart(s),
           \A t \in tasks' : t \in tasks \/ Harmless(t),
           \A t \in tasks \ tasks' : ~IsConnect(t)
    PROVE  SwitchInv'
<1> USE DEF SwitchInv
<1>1. StateOfOneSession' /\ Joined' /\ SellerNames'
  BY DEF memory, StateOfOneSession, Joined, SellerNames
<1>2. FinalizesWhatIsAsked'
  BY DEF FinalizesWhatIsAsked, Harmless
<1>3. DealsAreRecorded'
  BY DEF DealsAreRecorded, Connecting, IsConnect
<1>4. OneConnection'
  BY DEF memory, OneConnection, IsConnect, Harmless
<1>5. ConnectionStages'
  BY DEF ConnectionStages, IsConnect, Harmless, TypeOK
<1>6. CallsOwnDeals'
  <2>1. contract' # None => TookPart(contract)'
    BY SessionsInUse DEF memory, CallsOwnDeals
  <2> QED
    BY <2>1 DEF CallsOwnDeals, Harmless
<1> QED
  BY <1>1, <1>2, <1>3, <1>4, <1>5, <1>6

\* The peer's calls, and the calls of this runtime on its own deals.
LEMMA LedgerKeeps ==
    ASSUME SwitchInv,
           \/ \E s \in Sessions : PeerActs(s)
           \/ \E t \in tasks : CallApplies(t)
    PROVE  SwitchInv'
<1> USE DEF SwitchInv
<1>1. ASSUME NEW s \in Sessions, PeerActs(s)
      PROVE  SwitchInv'
  <2>1. TypeOK' /\ \A r \in Sessions : TookPart(r)' <=> TookPart(r)
    BY <1>1 DEF PeerActs, memory, TypeOK, DealStates, TookPart
  <2> QED
    BY <1>1, <2>1, DealsMoveKeeps DEF PeerActs
<1>2. ASSUME NEW t \in tasks, CallApplies(t)
      PROVE  SwitchInv'
  <2>1. t.on \in Sessions /\ TookPart(t.on) /\ t.kind \in {"authorize", "settle", "cancel"}
    BY <1>2 DEF CallApplies, CallsOwnDeals
  <2>2. \A r \in Sessions : TookPart(r)' <=> TookPart(r)
    BY <1>2, <2>1 DEF CallApplies, TypeOK, TookPart
  <2>3. [t EXCEPT !.stage = "applied"] \in AllTasks
    BY DEF TypeOK, AllTasks, Stages
  <2>4. TypeOK'
    BY <1>2, <2>1, <2>3 DEF CallApplies, Moved, memory, TypeOK, DealStates, AllTasks
  <2>5. Harmless([t EXCEPT !.stage = "applied"])
    BY <2>1 DEF Harmless, TypeOK
  <2> QED
    BY <1>2, <2>1, <2>2, <2>4, <2>5, DealsMoveKeeps DEF CallApplies, Moved, IsConnect
<1> QED
  BY <1>1, <1>2

\* A connection that moves on is the same connection at its next stage.
LEMMA MovedConnection ==
    ASSUME SwitchInv, NEW t \in tasks, IsConnect(t), NEW g \in Stages,
           tasks' = Moved(t, g), UNCHANGED <<session, connecting>>
    PROVE  /\ tasks' \subseteq AllTasks
           /\ t \in AllTasks /\ t.of \in Sessions
           /\ \A u \in tasks' :
                 \/ u \in tasks /\ u # t
                 \/ u.kind = "connect" /\ u.of = t.of /\ u.on = t.on /\ u.stage = g
           /\ \E u \in tasks' : u.kind = "connect" /\ u.of = t.of /\ u.stage = g
           /\ \A u \in tasks \ {t} : u \in tasks' /\ (IsConnect(u) => u.of # t.of)
           /\ \A u, v \in tasks' : IsConnect(u) /\ IsConnect(v) /\ u.of = v.of => u = v
           /\ \A u \in tasks' : IsConnect(u) => u.of <= session /\ (u.of = session => connecting')
<1> DEFINE w == [t EXCEPT !.stage = g]
<1>1. t \in AllTasks /\ tasks \subseteq AllTasks
  BY DEF SwitchInv, TypeOK, AllTasks
<1>2. w \in AllTasks /\ w.kind = "connect" /\ w.of = t.of /\ w.on = t.on /\ w.stage = g
  BY <1>1 DEF AllTasks, IsConnect
<1>3. tasks' = (tasks \ {t}) \cup {w}
  BY DEF Moved
<1>4. \A u \in tasks \ {t} : IsConnect(u) => u.of # t.of
  BY DEF SwitchInv, OneConnection
<1>5. t.of \in Sessions
  BY <1>1 DEF AllTasks
<1>6. \A u, v \in tasks' : IsConnect(u) /\ IsConnect(v) /\ u.of = v.of => u = v
  BY <1>2, <1>3, <1>4 DEF SwitchInv, OneConnection, IsConnect
<1>7. \A u \in tasks' : IsConnect(u) => u.of <= session /\ (u.of = session => connecting')
  BY <1>2, <1>3 DEF SwitchInv, OneConnection, IsConnect
<1> QED
  BY <1>1, <1>2, <1>3, <1>4, <1>5, <1>6, <1>7

\* A connection saves a record, or looks at its session, and waits again.
LEMMA RecordsKeep ==
    ASSUME SwitchInv, NEW t \in tasks, Records(t) \/ Attaches(t) \/ Names(t)
    PROVE  SwitchInv'
<1> USE DEF SwitchInv
<1>1. IsConnect(t)
  BY DEF Records, Attaches, Names, Connecting, IsConnect
<1>2. UNCHANGED <<role, memory, deal, told, lost>>
  BY DEF Records, Attaches, Names
<1>3. \A s \in Sessions : TookPart(s)' <=> TookPart(s)
  BY <1>2 DEF TookPart
<1>4. UNCHANGED <<session, connecting, contract>>
  BY <1>2 DEF memory
<1>5. StateOfOneSession' /\ Joined'
  BY <1>2 DEF memory, StateOfOneSession, Joined
<1>6. CASE Attaches(t) /\ t.of # session
  <2>1. tasks' = tasks \ {t} /\ stored' = stored /\ role = "seller"
    BY <1>6 DEF Attaches
  <2>2. TypeOK'
    BY <1>2, <2>1 DEF memory, TypeOK
  <2> QED
    BY <1>2, <2>1, <2>2, SessionsInUse, HarmlessKeeps DEF memory
<1>7. ASSUME NEW g \in {"recorded", "joining", "named"}, NEW r \in {"none", "unnamed", "named"},
             tasks' = Moved(t, g),
             \/ stored' = stored /\ g = "joining" /\ t.stage = "recorded"
             \/ /\ stored' = [stored EXCEPT ![t.of] = r]
                /\ \/ g = "recorded" /\ t.stage = "waiting" /\ r = FirstRecord(t)
                   \/ g = "named" /\ t.stage = "applied" /\ r = "named" /\ role = "buyer"
      PROVE  SwitchInv'
  <2> USE MovedConnection, <1>1, <1>4, <1>7 DEF Stages
  <2>1. /\ stored' \in [Sessions -> {"none", "unnamed", "named", "cleaned"}]
        /\ \A s \in Sessions \ {t.of} : stored'[s] = stored[s]
    BY DEF TypeOK
  <2>2. TypeOK'
    BY <1>2, <2>1 DEF memory, TypeOK, AllTasks
  <2>3. FinalizesWhatIsAsked'
    BY DEF FinalizesWhatIsAsked
  <2>4. SellerNames'
    BY <1>2, <2>1 DEF SellerNames, FirstRecord, TypeOK
  <2>5. DealsAreRecorded'
    <3> SUFFICES ASSUME NEW s \in Sessions, TookPart(s)
                 PROVE  \/ stored'[s] \in {"named", "cleaned"}
                        \/ /\ stored'[s] = "unnamed"
                           /\ \/ s \in lost
                              \/ \E u \in tasks' : Connecting(u, "applied") /\ u.of = s
      BY <1>2, <1>3 DEF DealsAreRecorded, Connecting
    <3>1. CASE s = t.of
      BY <3>1 DEF ConnectionStages, DealsAreRecorded, TypeOK
    <3>2. CASE s # t.of
      BY <2>1, <3>2 DEF DealsAreRecorded, Connecting
    <3> QED
      BY <3>1, <3>2
  <2>6. OneConnection'
    BY <1>3 DEF OneConnection, IsConnect
  <2>7. ConnectionStages'
    <3> SUFFICES ASSUME NEW u \in tasks', IsConnect(u)
                 PROVE  /\ u.stage \in {"waiting", "recorded", "joining"} => ~TookPart(u.of)
                        /\ u.stage \in {"recorded", "joining"} => stored'[u.of] # "none"
                        /\ u.stage \in {"applied", "named"} => TookPart(u.of)
      BY <1>3, <2>2 DEF ConnectionStages, IsConnect, TypeOK
    <3>1. CASE u \in tasks /\ u # t
      BY <2>1, <3>1 DEF ConnectionStages, TypeOK
    <3>2. CASE u.kind = "connect" /\ u.of = t.of /\ u.stage = g
      BY <2>1, <3>2 DEF ConnectionStages, FirstRecord, TypeOK
    <3> QED
      BY <3>1, <3>2
  <2>8. CallsOwnDeals'
    <3>1. contract' # None => TookPart(contract)'
      BY <1>3, <1>4, SessionsInUse
    <3> QED
      BY <1>3, <3>1 DEF CallsOwnDeals, IsConnect
  <2> QED
    BY <1>5, <2>2, <2>3, <2>4, <2>5, <2>6, <2>7, <2>8
<1>8. CASE Records(t)
  <2>1. FirstRecord(t) \in {"none", "unnamed", "named"}
    BY DEF FirstRecord
  <2> QED
    BY <1>7, <1>8, <2>1 DEF Records, Connecting
<1>9. CASE Attaches(t) /\ t.of = session
  BY <1>7, <1>9 DEF Attaches, Connecting
<1>10. CASE Names(t)
  BY <1>7, <1>10 DEF Names, SecondRecord, Connecting
<1> QED
  BY <1>6, <1>8, <1>9, <1>10

\* The deployment, or the join: the record is there, and this runtime takes part.
LEMMA DealAppliesKeeps ==
    ASSUME SwitchInv, NEW t \in tasks, DealApplies(t)
    PROVE  SwitchInv'
<1> USE DEF SwitchInv
<1>1. /\ IsConnect(t) /\ t.stage \in {"recorded", "joining"}
      /\ tasks' = Moved(t, "applied") /\ "applied" \in Stages
      /\ UNCHANGED <<role, memory, stored, told, lost>>
  BY DEF DealApplies, Connecting, IsConnect, Stages
<1>2. UNCHANGED <<session, connecting, contract>>
  BY <1>1 DEF memory
<1> USE MovedConnection, <1>1, <1>2
<1>3. deal[t.of] \in {"none", "WAITING_SELLER"} /\ deal'[t.of] \in DealStates
  BY DEF DealApplies, DealStates, TypeOK
<1>4. /\ deal' \in [Sessions -> DealStates]
      /\ \A s \in Sessions \ {t.of} : deal'[s] = deal[s]
  BY <1>3 DEF DealApplies, DealStates, TypeOK
<1>5. TookPart(t.of)' /\ \A s \in Sessions \ {t.of} : TookPart(s)' <=> TookPart(s)
  BY <1>4 DEF DealApplies, TookPart, TypeOK
<1>6. TypeOK'
  BY <1>4 DEF memory, TypeOK, AllTasks
<1>7. StateOfOneSession' /\ Joined' /\ SellerNames'
  BY DEF memory, StateOfOneSession, Joined, SellerNames
<1>8. FinalizesWhatIsAsked'
  BY DEF FinalizesWhatIsAsked
<1>9. DealsAreRecorded'
  <2> SUFFICES ASSUME NEW s \in Sessions, TookPart(s)'
               PROVE  \/ stored[s] \in {"named", "cleaned"}
                      \/ /\ stored[s] = "unnamed"
                         /\ \/ s \in lost
                            \/ \E u \in tasks' : u.kind = "connect" /\ u.stage = "applied" /\ u.of = s
    BY DEF DealsAreRecorded, Connecting
  <2>1. CASE s = t.of
    BY <2>1 DEF ConnectionStages, TypeOK
  <2>2. CASE s # t.of
    BY <1>5, <2>2 DEF DealsAreRecorded, Connecting
  <2> QED
    BY <2>1, <2>2
<1>10. OneConnection'
  BY <1>5 DEF OneConnection, IsConnect
<1>11. ConnectionStages'
  <2> SUFFICES ASSUME NEW u \in tasks', IsConnect(u)
               PROVE  /\ u.stage \in {"waiting", "recorded", "joining"} => ~TookPart(u.of)'
                      /\ u.stage \in {"recorded", "joining"} => stored[u.of] # "none"
                      /\ u.stage \in {"applied", "named"} => TookPart(u.of)'
    BY DEF ConnectionStages, IsConnect, TookPart
  <2>1. CASE u \in tasks /\ u # t
    <3>1. u.of \in Sessions \ {t.of}
      BY <2>1 DEF TypeOK
    <3> QED
      BY <1>5, <2>1, <3>1 DEF ConnectionStages
  <2>2. CASE u.kind = "connect" /\ u.of = t.of /\ u.stage = "applied"
    BY <1>5, <2>2
  <2> QED
    BY <2>1, <2>2
<1>12. CallsOwnDeals'
  <2>1. \A s \in Sessions : TookPart(s) => TookPart(s)'
    BY <1>5
  <2>2. contract' # None => TookPart(contract)'
    BY <1>5, SessionsInUse DEF TookPart
  <2>3. \A u \in tasks' : u.kind \in {"authorize", "settle", "cancel"} => u \in tasks
    OBVIOUS
  <2> QED
    BY <2>1, <2>2, <2>3 DEF CallsOwnDeals, TookPart
<1> QED
  BY <1>6, <1>7, <1>8, <1>9, <1>10, <1>11, <1>12

\* The connection ends, and is shared when its session is still the current one.
LEMMA SharesKeeps ==
    ASSUME SwitchInv, NEW t \in tasks, Shares(t)
    PROVE  SwitchInv'
<1> USE DEF SwitchInv
<1>1. /\ IsConnect(t) /\ tasks' = tasks \ {t} /\ TookPart(t.of) /\ t.of \in Sessions
      /\ t.stage = IF role = "buyer" THEN "named" ELSE "applied"
      /\ UNCHANGED <<role, session, channel, secrets, connecting, deal, stored, told, lost>>
  BY DEF Shares, Connecting, IsConnect, ConnectionStages, TypeOK
<1>2. \/ UNCHANGED <<contract, record>>
      \/ t.of = session /\ contract' = session /\ record' = session
  BY DEF Shares, StillCurrent
<1>3. \A s \in Sessions : TookPart(s)' <=> TookPart(s)
  BY <1>1 DEF TookPart
<1>4. TypeOK'
  BY <1>1, <1>2, SessionsInUse DEF Shares, TypeOK
<1>5. StateOfOneSession' /\ Joined' /\ FinalizesWhatIsAsked' /\ SellerNames'
  BY <1>1, <1>2 DEF StateOfOneSession, Joined, FinalizesWhatIsAsked, SellerNames, Sessions, None
<1>6. DealsAreRecorded'
  <2>1. role = "buyer" \/ role = "seller"
    BY DEF TypeOK
  <2>2. CASE role = "buyer"
    BY <1>1, <1>3, <2>2 DEF DealsAreRecorded, Connecting
  <2>3. CASE role = "seller"
    BY <1>1, <1>3, <2>3 DEF DealsAreRecorded, SellerNames
  <2> QED
    BY <2>1, <2>2, <2>3
<1>7. OneConnection'
  BY <1>1, <1>3 DEF OneConnection, IsConnect
<1>8. ConnectionStages'
  BY <1>1, <1>3 DEF ConnectionStages, IsConnect, TypeOK
<1>9. CallsOwnDeals'
  <2>1. contract' # None => TookPart(contract)'
    BY <1>1, <1>2 DEF CallsOwnDeals, TookPart
  <2> QED
    BY <1>1, <1>3, <2>1 DEF CallsOwnDeals
<1> QED
  BY <1>4, <1>5, <1>6, <1>7, <1>8, <1>9

\* A finalization returns, with the files of its session erased or everything kept.
LEMMA FinalizedKeeps ==
    ASSUME SwitchInv, NEW t \in tasks, Finalized(t)
    PROVE  SwitchInv'
<1> USE DEF SwitchInv
<1>1. /\ t.kind = "finalize" /\ tasks' = tasks \ {t}
      /\ UNCHANGED <<role, session, connecting, contract, deal, told, lost>>
      /\ secrets' \in {None, secrets} /\ record' \in {None, record}
      /\ channel' # "closed" => channel # "closed"
  BY DEF Finalized
<1>2. \/ stored' = stored
      \/ stored' = [stored EXCEPT ![t.on] = "cleaned"] /\ stored[t.on] = "named"
  BY DEF Finalized, Erases
<1>3. \A s \in Sessions : stored'[s] = stored[s] \/ stored'[s] = "cleaned"
  BY <1>2 DEF TypeOK
<1>4. \A s \in Sessions : TookPart(s)' <=> TookPart(s)
  BY <1>1 DEF TookPart
<1>5. TypeOK'
  <2>1. 0 \in OrNone
    BY MaxSessionsIsNat DEF OrNone
  <2>2. channel' \in {"closed", "open", "keyed"} /\ peerKnown' \in BOOLEAN
        /\ offered' \in BOOLEAN /\ agreed' \in {"no", "settled", "cancelled"}
    BY DEF Finalized, TypeOK
  <2>3. stored' \in [Sessions -> {"none", "unnamed", "named", "cleaned"}]
    BY <1>2 DEF TypeOK
  <2>4. peerReady' = peerReady /\ started' = started
    BY DEF Finalized
  <2> QED
    BY <1>1, <2>1, <2>2, <2>3, <2>4 DEF TypeOK, None
<1>6. StateOfOneSession' /\ Joined' /\ FinalizesWhatIsAsked'
  BY <1>1 DEF StateOfOneSession, Joined, FinalizesWhatIsAsked
<1>7. SellerNames'
  BY <1>1, <1>3 DEF SellerNames
<1>8. DealsAreRecorded'
  BY <1>1, <1>3, <1>4 DEF DealsAreRecorded, Connecting
<1>9. OneConnection'
  BY <1>1, <1>4 DEF OneConnection, IsConnect
<1>10. ConnectionStages'
  BY <1>1, <1>3, <1>4 DEF ConnectionStages, IsConnect, TypeOK
<1>11. CallsOwnDeals'
  <2>1. contract' # None => TookPart(contract)'
    BY <1>1 DEF CallsOwnDeals, TookPart
  <2> QED
    BY <1>1, <1>4, <2>1 DEF CallsOwnDeals
<1> QED
  BY <1>5, <1>6, <1>7, <1>8, <1>9, <1>10, <1>11

-----------------------------------------------------------------------------
(* The theorems. *)

\* Every step keeps the invariant.
LEMMA SwitchNextKeeps == SwitchInv /\ [Next]_vars => SwitchInv'
<1> SUFFICES ASSUME SwitchInv, [Next]_vars PROVE SwitchInv'
  OBVIOUS
<1>1. CASE JoinRoom
  BY <1>1, JoinRoomKeeps
<1>2. CASE SetLimit \/ AcceptPeerControl
  BY <1>2, ConnectingCommandsKeep
<1>3. CASE \/ AcceptPeerKey \/ PeerReady \/ StartRuntime \/ AcceptOffer
           \/ AcceptAnswer \/ AcceptOpening
  BY <1>3, PacketsKeep
<1>4. ASSUME NEW s \in Sessions, FinalizeSession(s) PROVE SwitchInv'
  BY <1>4, FinalizeSessionKeeps
<1>5. CASE \E s \in Sessions : PeerActs(s)
  BY <1>5, LedgerKeeps
<1>6. ASSUME NEW t \in tasks, Resumes(t) PROVE SwitchInv'
  <2>1. CASE StartTimer(t) \/ Decided(t) \/ Calls(t) \/ CallReturns(t) \/ TaskFails(t)
    BY <2>1, ReturnsKeep
  <2>2. CASE Records(t) \/ Attaches(t) \/ Names(t)
    BY <2>2, RecordsKeep
  <2>3. CASE DealApplies(t)
    BY <2>3, DealAppliesKeeps
  <2>4. CASE Shares(t)
    BY <2>4, SharesKeeps
  <2>5. CASE CallApplies(t)
    BY <2>5, LedgerKeeps
  <2>6. CASE Finalized(t)
    BY <2>6, FinalizedKeeps
  <2> QED
    BY <1>6, <2>1, <2>2, <2>3, <2>4, <2>5, <2>6 DEF Resumes
<1>7. CASE UNCHANGED vars
  <2>1. UNCHANGED <<role, memory, tasks, deal, stored, told, lost>>
    BY <1>7 DEF vars
  <2>2. \A s \in Sessions : TookPart(s)' <=> TookPart(s)
    BY <2>1 DEF TookPart
  <2>3. TypeOK'
    BY <2>1 DEF memory, SwitchInv, TypeOK
  <2> QED
    BY <2>1, <2>2, <2>3, DealsMoveKeeps
<1> QED
  BY <1>1, <1>2, <1>3, <1>4, <1>5, <1>6, <1>7 DEF Next

\* The invariant holds in every reachable state.
LEMMA SwitchInvHolds == Spec => []SwitchInv
  BY SwitchInitInv, SwitchNextKeeps, PTL DEF Spec

\* Every variable keeps its type.
THEOREM SwitchTypeCorrect == Spec => []TypeOK
<1>1. SwitchInv => TypeOK
  BY DEF SwitchInv
<1> QED
  BY <1>1, SwitchInvHolds, PTL

\* The limit, the contract and the record of a runtime are of the session it is
\* in: no call that a JOIN_ROOM overtook brings back what it was made for.
THEOREM SharedStateIsCurrent == Spec => []StateOfOneSession
<1>1. SwitchInv => StateOfOneSession
  BY DEF SwitchInv
<1> QED
  BY <1>1, SwitchInvHolds, PTL

\* A finalization is of the session that was asked for, in any order of
\* FINALIZE_SESSION, JOIN_ROOM and the answers of the chain.
THEOREM AskedIsFinalized == Spec => []FinalizesWhatIsAsked
<1>1. SwitchInv => FinalizesWhatIsAsked
  BY DEF SwitchInv
<1> QED
  BY <1>1, SwitchInvHolds, PTL

\* A deal this runtime made or joined has a record, and the record names its
\* contract unless the call that made it failed or is about to save it.
THEOREM EveryDealIsRecorded == Spec => []DealsAreRecorded
<1>1. SwitchInv => DealsAreRecorded
  BY DEF SwitchInv
<1> QED
  BY <1>1, SwitchInvHolds, PTL
=============================================================================
