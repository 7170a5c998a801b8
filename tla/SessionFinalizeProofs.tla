------------------------ MODULE SessionFinalizeProofs -------------------------
(***************************************************************************)
(* Proofs about SessionFinalize: for any number of sessions and of         *)
(* finalizations running at the same time, with any number of crashes and  *)
(* failing operations, a settled price is never lost and nothing is erased *)
(* before the deal is final.                                               *)
(***************************************************************************)
EXTENDS SessionFinalize, TLAPS

\* A circuit call that reveals a price was sent only with the opening stored,
\* and the opening stays until the deal is final.
PriceSentWithOpening ==
    \A s \in Sessions :
        sent[s] \cap {"authorize", "settle"} # {} =>
            \/ chain[s] \in Final
            \/ chain[s] \in {"OPEN", "AUTHORIZED"} /\ state[s] = "opening"

\* The other role can settle only what this role authorized.
AuthorizedWithOpening ==
    role = "buyer" => \A s \in Sessions : chain[s] = "AUTHORIZED" => state[s] = "opening"

\* What a finalization has established when it gets to a step: the deal is
\* final when it erases, settled while it deals with evidence, and the evidence
\* is on the disk before it erases the opening of a settled price.
Established(j) ==
    LET s == job[j].session
    IN  /\ job[j].pc \in {"load", "opening", "write", "rename", "reread", "mark"} =>
              chain[s] = "SETTLED"
        /\ job[j].pc = "mark" => evidence[s] = "good"
        /\ job[j].pc \in {"erase", "forget", "clean"} =>
              chain[s] = "CANCELLED" \/ (chain[s] = "SETTLED" /\ evidence[s] = "good")

JobsEstablished == \A j \in Jobs : Established(j)

SafetyInv ==
    /\ TypeOK
    /\ PriceSentWithOpening
    /\ AuthorizedWithOpening
    /\ JobsEstablished
    /\ NoSettlementLost

\* For CleanedMeansErased: a CLEANED session is final, and a finalization that
\* gets to its last steps has erased what it says.
ErasedBefore ==
    /\ \A s \in Sessions : phase[s] = "CLEANED" => chain[s] \in Final
    /\ \A j \in Jobs :
          /\ job[j].pc \in {"forget", "clean"} => state[job[j].session] = "none"
          /\ job[j].pc = "clean" => job[j].session \notin signingKey

-----------------------------------------------------------------------------
(* Types. *)

JobType ==
    /\ job \in [Jobs -> [pc : IdlePcs \cup BusyPcs, session : Sessions \cup {NoSession},
                         todo : SUBSET Sessions]]
    /\ \A j \in Jobs : job[j].todo \subseteq named
    /\ \A j \in Jobs : job[j].pc \in BusyPcs <=> job[j].session \in Sessions

\* A job that keeps its session may go to another step of the same kind.
LEMMA GotoTyped ==
    ASSUME JobType, named' = named,
           NEW j \in Jobs, NEW pc \in IdlePcs \cup BusyPcs,
           job[j].pc \in BusyPcs <=> pc \in BusyPcs, Goto(j, pc)
    PROVE  JobType'
<1>1. job' = [job EXCEPT ![j] = [job[j] EXCEPT !.pc = pc]]
  BY DEF Goto, JobType
<1> QED
  BY <1>1 DEF JobType

\* Every job may go back to the loop.
LEMMA ContinueTyped ==
    ASSUME JobType, named' = named, NEW j \in Jobs, Continue(j)
    PROVE  JobType'
<1>1. job' = [job EXCEPT ![j] = [job[j] EXCEPT !.pc = "loop", !.session = NoSession]]
  BY DEF Continue, JobType
<1> QED
  BY <1>1, NoSessionIsNone DEF JobType, IdlePcs, BusyPcs

\* A job may be given any well-typed value.
LEMMA AssignTyped ==
    ASSUME JobType, named' = named, NEW j \in Jobs,
           NEW pc \in IdlePcs \cup BusyPcs, NEW t \in SUBSET named, t \subseteq Sessions,
           NEW s \in Sessions \cup {NoSession}, pc \in BusyPcs <=> s \in Sessions,
           job' = [job EXCEPT ![j] = [pc |-> pc, session |-> s, todo |-> t]]
    PROVE  JobType'
BY DEF JobType

\* Everything but the jobs.
RestType ==
    /\ role \in {"buyer", "seller"} /\ runtime \in {"down", "boot", "up"}
    /\ current \in Sessions \cup {NoSession}
    /\ flow \in [Sessions -> {"none", "recorded", "stored", "recorded again", "joining",
                              "connected", "forgotten"}]
    /\ chain \in [Sessions -> Statuses \cup {"none"}]
    /\ sent \in [Sessions -> SUBSET {"join", "authorize", "settle", "cancel"}]
    /\ announced \subseteq Sessions /\ named \subseteq Sessions /\ signingKey \subseteq Sessions
    /\ phase \in [Sessions -> OpenPhases \cup {"none", "CLEANED"}]
    /\ state \in [Sessions -> {"none", "plain", "opening"}]
    /\ evidence \in [Sessions -> {"none", "good", "bad"}]
    /\ tmp \subseteq Jobs
    /\ faults \in 0..MaxFaults

\* The type invariant in two parts: the stored state and the jobs.
LEMMA TypeSplit == TypeOK <=> RestType /\ JobType
BY DEF TypeOK, RestType, JobType

\* The types hold on an empty disk ...
LEMMA TypeInit == Init => TypeOK
<1> SUFFICES ASSUME Init PROVE RestType /\ JobType
  BY TypeSplit
<1>1. RestType
  BY FaultsAreBounded DEF Init, RestType, OpenPhases, Statuses, Final
<1>2. JobType
  BY NoSessionIsNone DEF Init, JobType, Idle, IdlePcs, BusyPcs
<1> QED
  BY <1>1, <1>2

\* A step of the session itself touches no job.
LEMMA SessionTypeStep ==
    ASSUME TypeOK, NEW s \in Sessions, SessionStep(s)
    PROVE  TypeOK'
<1> USE DEF live, deal, disk
<1>1. RestType /\ JobType
  BY TypeSplit
<1>2. job' = job /\ named \subseteq named'
  BY DEF SessionStep, Begin, Deploys, StoreState, NameRecord, Connect, SendJoin, Joined,
         StoreOpening, SendPrice, SendCancel, Applies, PeerApplies
<1>3. JobType'
  BY <1>1, <1>2 DEF JobType
<1> SUFFICES RestType'
  BY <1>3 DEF TypeOK, RestType, JobType
<1>4. CASE Begin(s)
  BY <1>1, <1>4 DEF Begin, RestType, OpenPhases
<1>5. CASE Deploys(s)
  BY <1>1, <1>5 DEF Deploys, RestType, Statuses
<1>6. CASE StoreState(s)
  BY <1>1, <1>6 DEF StoreState, RestType
<1>7. CASE NameRecord(s)
  BY <1>1, <1>7 DEF NameRecord, RestType
<1>8. CASE Connect(s)
  BY <1>1, <1>8 DEF Connect, RestType
<1>9. CASE SendJoin(s)
  BY <1>1, <1>9 DEF SendJoin, RestType
<1>10. CASE Joined(s)
  BY <1>1, <1>10 DEF Joined, RestType
<1>11. CASE StoreOpening(s)
  BY <1>1, <1>11 DEF StoreOpening, RestType
<1>12. CASE SendPrice(s)
  BY <1>1, <1>12 DEF SendPrice, RestType
<1>13. CASE SendCancel(s)
  BY <1>1, <1>13 DEF SendCancel, RestType
<1>14. CASE Applies(s)
  BY <1>1, <1>14 DEF Applies, RestType, Statuses, Final
<1>15. CASE PeerApplies(s)
  <2>1. PICK c \in Statuses : chain' = [chain EXCEPT ![s] = c]
    BY <1>15 DEF PeerApplies, Statuses, Final
  <2> QED
    BY <1>1, <1>15, <2>1 DEF PeerApplies, RestType
<1> QED
  BY <1>4, <1>5, <1>6, <1>7, <1>8, <1>9, <1>10, <1>11, <1>12, <1>13, <1>14, <1>15
     DEF SessionStep

\* The steps of a job, the failures and the restart.
LEMMA JobTypeStep ==
    ASSUME TypeOK, NEW j \in Jobs,
           StartRecovery(j) \/ FinalizeSession(j) \/ JobStep(j) \/ JobFails(j) \/ CliCrashes(j)
    PROVE  TypeOK'
<1> USE DEF live, deal, disk
<1>1. RestType /\ JobType
  BY TypeSplit
<1>2. named' = named
  BY DEF StartRecovery, FinalizeSession, JobStep, JobFails, CliCrashes, ReadRecords, NextRecord,
         Finished, ReadChain, LoadEvidence, ReadOpening, WriteTemporary, RenameTemporary, Reread,
         MarkEvidenceSaved, EraseState, EraseSigningKey, MarkCleaned
<1>3. RestType'
  <2>0. Fault => faults' \in 0..MaxFaults
    <3>1. faults \in 0..MaxFaults /\ MaxFaults \in Nat
      BY <1>1, FaultsAreBounded DEF RestType
    <3> QED
      BY <3>1 DEF Fault
  <2>1. CASE JobFails(j)
    <3>1. tmp' \subseteq Jobs
      BY <1>1, <2>1 DEF JobFails, RestType
    <3> QED
      BY <1>1, <2>0, <2>1, <3>1 DEF JobFails, RestType
  <2>2. CASE CliCrashes(j)
    BY <1>1, <2>0, <2>2 DEF CliCrashes, RestType
  <2>3. CASE StartRecovery(j) \/ FinalizeSession(j) \/ ReadRecords(j) \/ NextRecord(j)
    BY <1>1, <2>3 DEF StartRecovery, FinalizeSession, ReadRecords, NextRecord, RestType
  <2>4. CASE Finished(j)
    BY <1>1, <2>4 DEF Finished, RestType
  <2>5. CASE ReadChain(j) \/ LoadEvidence(j) \/ ReadOpening(j) \/ Reread(j)
    BY <1>1, <2>5 DEF ReadChain, LoadEvidence, ReadOpening, Reread, RestType
  <2>6. CASE WriteTemporary(j)
    BY <1>1, <2>6 DEF WriteTemporary, RestType
  <2>7. CASE RenameTemporary(j)
    BY <1>1, <2>7 DEF RenameTemporary, RestType
  <2>8. CASE MarkEvidenceSaved(j)
    BY <1>1, <2>8 DEF MarkEvidenceSaved, RestType, OpenPhases
  <2>9. CASE EraseState(j)
    BY <1>1, <2>9 DEF EraseState, RestType
  <2>10. CASE EraseSigningKey(j)
    BY <1>1, <2>10 DEF EraseSigningKey, RestType
  <2>11. CASE MarkCleaned(j)
    BY <1>1, <2>11 DEF MarkCleaned, RestType
  <2> QED
    BY <2>1, <2>2, <2>3, <2>4, <2>5, <2>6, <2>7, <2>8, <2>9, <2>10, <2>11 DEF JobStep
<1> SUFFICES JobType'
  BY <1>3 DEF TypeOK, RestType, JobType
<1>4. job[j].pc \in BusyPcs => job[j].session \in Sessions
  BY <1>1 DEF JobType
<1>5. ASSUME NEW pc \in {"idle", "records", "loop"}, NEW t \in SUBSET named,
             job' = [job EXCEPT ![j] = [pc |-> pc, session |-> NoSession, todo |-> t]]
      PROVE  JobType'
  BY <1>1, <1>2, <1>5, NoSessionIsNone, AssignTyped DEF RestType, IdlePcs, BusyPcs
<1>5a. (job' = [job EXCEPT ![j] = Idle] \/ job' = [job EXCEPT ![j] = [Idle EXCEPT !.pc = "loop"]])
          => JobType'
  <2>1. {} \in SUBSET named
    OBVIOUS
  <2>2. Idle = [pc |-> "idle", session |-> NoSession, todo |-> {}]
    BY DEF Idle
  <2>3. [Idle EXCEPT !.pc = "loop"] = [pc |-> "loop", session |-> NoSession, todo |-> {}]
    BY DEF Idle
  <2> QED
    BY <1>5, <2>1, <2>2, <2>3
<1>6. CASE StartRecovery(j)
  BY <1>1, <1>2, <1>6, GotoTyped DEF StartRecovery, At, IdlePcs, BusyPcs
<1>7. CASE FinalizeSession(j)
  <2>1. PICK s \in Sessions : job' = [job EXCEPT ![j] = [pc |-> "chain", session |-> s, todo |-> {}]]
    BY <1>7 DEF FinalizeSession
  <2> QED
    BY <1>1, <1>2, <2>1, AssignTyped DEF BusyPcs
<1>8. CASE ReadRecords(j)
  BY <1>1, <1>5, <1>8 DEF ReadRecords, RecoverableRecords
<1>9. CASE NextRecord(j)
  <2>1. PICK s \in job[j].todo :
           job' = [job EXCEPT ![j] = [pc |-> "chain", session |-> s, todo |-> @.todo \ {s}]]
    BY <1>9 DEF NextRecord
  <2>2. s \in Sessions /\ job[j].todo \ {s} \in SUBSET named /\ job[j].todo \ {s} \subseteq Sessions
    BY <1>1 DEF JobType, RestType
  <2>3. job' = [job EXCEPT ![j] = [pc |-> "chain", session |-> s, todo |-> job[j].todo \ {s}]]
    BY <1>1, <2>1 DEF JobType
  <2> QED
    BY <1>1, <1>2, <2>2, <2>3, AssignTyped DEF BusyPcs
<1>10. CASE Finished(j)
  BY <1>5a, <1>10 DEF Finished
<1>11. ASSUME NEW pc \in BusyPcs, job[j].pc \in BusyPcs, Goto(j, pc) PROVE JobType'
  BY <1>1, <1>2, <1>11, GotoTyped DEF IdlePcs, BusyPcs
<1>12. ASSUME Continue(j) PROVE JobType'
  BY <1>1, <1>2, <1>12, ContinueTyped
<1>13. CASE ReadChain(j)
  BY <1>11, <1>12, <1>13 DEF ReadChain, At, BusyPcs
<1>14. CASE LoadEvidence(j) \/ ReadOpening(j) \/ Reread(j)
  BY <1>11, <1>12, <1>14 DEF LoadEvidence, ReadOpening, Reread, At, BusyPcs
<1>15. CASE WriteTemporary(j) \/ MarkEvidenceSaved(j) \/ EraseState(j) \/ EraseSigningKey(j)
  BY <1>11, <1>15
     DEF WriteTemporary, MarkEvidenceSaved, EraseState, EraseSigningKey, AfterErase, At, BusyPcs
<1>17. CASE RenameTemporary(j)
  BY <1>11, <1>5a, <1>17 DEF RenameTemporary, At, BusyPcs
<1>18. CASE MarkCleaned(j)
  BY <1>12, <1>18 DEF MarkCleaned
<1>19. CASE JobFails(j)
  <2>1. job[j].pc \in BusyPcs \/ job[j].pc = "records"
    BY <1>1, <1>19 DEF JobFails, JobType, IdlePcs
  <2> QED
    BY <1>11, <1>12, <1>5a, <1>19, <2>1 DEF JobFails, At, BusyPcs
<1>20. CASE CliCrashes(j)
  BY <1>5a, <1>20 DEF CliCrashes
<1> QED
  BY <1>6, <1>7, <1>8, <1>9, <1>10, <1>13, <1>14, <1>15, <1>17, <1>18, <1>19, <1>20 DEF JobStep

\* ... and every step keeps them.
LEMMA TypeStep == TypeOK /\ [Next]_vars => TypeOK'
<1> SUFFICES ASSUME TypeOK, [Next]_vars PROVE TypeOK'
  OBVIOUS
<1>1. ASSUME NEW s \in Sessions, SessionStep(s) PROVE TypeOK'
  BY <1>1, SessionTypeStep
<1>2. ASSUME NEW j \in Jobs,
             StartRecovery(j) \/ FinalizeSession(j) \/ JobStep(j) \/ JobFails(j) \/ CliCrashes(j)
      PROVE  TypeOK'
  BY <1>2, JobTypeStep
<1>3. CASE Crash
  <2>1. faults' \in 0..MaxFaults
    <3>1. faults \in 0..MaxFaults /\ MaxFaults \in Nat
      BY FaultsAreBounded DEF TypeOK
    <3> QED
      BY <1>3, <3>1 DEF Crash, Fault
  <2>2. JobType'
    <3>1. JobType
      BY TypeSplit
    <3>2. job' = [i \in Jobs |-> IF i \in RuntimeJobs THEN Idle ELSE job[i]] /\ named' = named
      BY <1>3 DEF Crash, disk
    <3> QED
      BY <3>1, <3>2, NoSessionIsNone DEF JobType, Idle, IdlePcs, BusyPcs
  <2>3. RestType'
    BY <1>3, <2>1 DEF Crash, TypeOK, RestType, deal, disk
  <2> QED
    BY <2>2, <2>3 DEF TypeOK, RestType, JobType
<1>4. CASE Restart
  BY <1>4 DEF Restart, TypeOK, deal, disk
<1>5. CASE UNCHANGED vars
  BY <1>5 DEF vars, live, deal, disk, TypeOK
<1> QED
  BY <1>1, <1>2, <1>3, <1>4, <1>5 DEF Next

-----------------------------------------------------------------------------
(* Safety. *)

\* The inductive invariant holds on an empty disk ...
LEMMA SafetyInit == Init => SafetyInv
<1> SUFFICES ASSUME Init PROVE SafetyInv
  OBVIOUS
<1>1. TypeOK
  BY TypeInit
<1>2. PriceSentWithOpening /\ AuthorizedWithOpening /\ NoSettlementLost
  BY DEF Init, PriceSentWithOpening, AuthorizedWithOpening, NoSettlementLost
<1>3. JobsEstablished
  BY DEF Init, JobsEstablished, Established, Idle
<1> QED
  BY <1>1, <1>2, <1>3 DEF SafetyInv

\* Whatever a finalization has established stays so: the status of a final deal
\* and good evidence do not change.
LEMMA EstablishedStable ==
    ASSUME NEW i \in Jobs, Established(i), job'[i] = job[i],
           \A s \in Sessions : chain[s] \in Final => chain'[s] = chain[s],
           \A s \in Sessions : evidence[s] = "good" => evidence'[s] = "good",
           job[i].pc \in BusyPcs => job[i].session \in Sessions
    PROVE  Established(i)'
BY DEF Established, Final, BusyPcs

\* A deal may move to status c when the opening is where c needs it.
LEMMA StatusMoves ==
    ASSUME RestType, PriceSentWithOpening, AuthorizedWithOpening, NoSettlementLost,
           NEW s \in Sessions, NEW c \in Statuses, chain' = [chain EXCEPT ![s] = c],
           UNCHANGED <<role, state, sent, evidence>>,
           \/ c \in Final
           \/ c \in {"OPEN", "AUTHORIZED"} /\ state[s] = "opening"
           \/ sent[s] \cap {"authorize", "settle"} = {},
           role = "buyer" /\ c = "AUTHORIZED" => state[s] = "opening",
           c = "SETTLED" => state[s] = "opening" \/ evidence[s] = "good"
    PROVE  PriceSentWithOpening' /\ AuthorizedWithOpening' /\ NoSettlementLost'
<1>1. chain'[s] = c /\ \A t \in Sessions \ {s} : chain'[t] = chain[t]
  BY DEF RestType
<1>2. PriceSentWithOpening'
  BY <1>1 DEF PriceSentWithOpening
<1>3. AuthorizedWithOpening'
  BY <1>1 DEF AuthorizedWithOpening
<1>4. NoSettlementLost'
  BY <1>1 DEF NoSettlementLost
<1> QED
  BY <1>2, <1>3, <1>4

\* A step of the session.
LEMMA SessionSafetyStep ==
    ASSUME SafetyInv, NEW s \in Sessions, SessionStep(s)
    PROVE  /\ PriceSentWithOpening' /\ AuthorizedWithOpening' /\ JobsEstablished'
           /\ NoSettlementLost'
<1> USE DEF live, deal, disk
<1>1. TypeOK /\ RestType /\ JobType
  BY TypeSplit DEF SafetyInv
<1>2. PriceSentWithOpening /\ AuthorizedWithOpening /\ JobsEstablished /\ NoSettlementLost
  BY DEF SafetyInv
<1>3. JobsEstablished'
  <2>1. job' = job /\ evidence' = evidence
    BY DEF SessionStep, Begin, Deploys, StoreState, NameRecord, Connect, SendJoin, Joined,
           StoreOpening, SendPrice, SendCancel, Applies, PeerApplies
  <2>2. \A t \in Sessions : chain[t] \in Final => chain'[t] = chain[t]
    BY <1>1 DEF SessionStep, Begin, Deploys, StoreState, NameRecord, Connect, SendJoin, Joined,
                StoreOpening, SendPrice, SendCancel, Applies, PeerApplies, RestType, Final
  <2> QED
    BY <1>1, <1>2, <2>1, <2>2, EstablishedStable DEF JobsEstablished, JobType
<1> SUFFICES PriceSentWithOpening' /\ AuthorizedWithOpening' /\ NoSettlementLost'
  BY <1>3
<1> USE DEF RestType, PriceSentWithOpening, AuthorizedWithOpening, NoSettlementLost
<1>4. CASE /\ chain' = chain /\ state' = state /\ sent' = sent
           /\ role' = role /\ evidence' = evidence
  <2>1. PriceSentWithOpening' /\ AuthorizedWithOpening'
    BY <1>2, <1>4
  <2>2. NoSettlementLost'
    BY <1>2, <1>4
  <2> QED
    BY <2>1, <2>2
<1>5. CASE Deploys(s)
  BY <1>1, <1>2, <1>5 DEF Deploys, Final
<1>6. CASE StoreState(s)
  BY <1>1, <1>2, <1>6 DEF StoreState, Final
<1>7. CASE SendJoin(s)
  BY <1>1, <1>2, <1>7 DEF SendJoin
<1>8. CASE StoreOpening(s)
  BY <1>1, <1>2, <1>8 DEF StoreOpening
<1>9. CASE SendPrice(s)
  BY <1>1, <1>2, <1>9 DEF SendPrice, OpeningStored
<1>10. CASE SendCancel(s)
  BY <1>1, <1>2, <1>10 DEF SendCancel
<1>11. CASE Applies(s)
  <2>1. UNCHANGED <<role, state, sent, evidence>>
    BY <1>11 DEF Applies
  <2>2. CASE "join" \in sent[s] /\ chain[s] = "WAITING_SELLER" /\ chain' = [chain EXCEPT ![s] = "OPEN"]
    BY <1>1, <1>2, <2>1, <2>2, StatusMoves DEF Statuses, Final
  <2>3. CASE "authorize" \in sent[s] /\ chain[s] = "OPEN" /\ chain' = [chain EXCEPT ![s] = "AUTHORIZED"]
    <3>1. state[s] = "opening"
      BY <1>2, <2>3 DEF Final
    <3> QED
      BY <1>1, <1>2, <2>1, <2>3, <3>1, StatusMoves DEF Statuses, Final
  <2>4. CASE "settle" \in sent[s] /\ chain[s] = "AUTHORIZED" /\ chain' = [chain EXCEPT ![s] = "SETTLED"]
    <3>1. state[s] = "opening"
      BY <1>2, <2>4 DEF Final
    <3> QED
      BY <1>1, <1>2, <2>1, <2>4, <3>1, StatusMoves DEF Statuses, Final
  <2>5. CASE chain' = [chain EXCEPT ![s] = "CANCELLED"]
    BY <1>1, <1>2, <2>1, <2>5, StatusMoves DEF Statuses, Final
  <2> QED
    BY <1>11, <2>2, <2>3, <2>4, <2>5 DEF Applies
<1>12. CASE PeerApplies(s)
  <2>1. UNCHANGED <<role, state, sent, evidence>>
    BY <1>12 DEF PeerApplies
  <2>2. CASE /\ chain[s] \in {"none", "WAITING_SELLER"}
             /\ \E c \in {"WAITING_SELLER", "OPEN"} : chain' = [chain EXCEPT ![s] = c]
    <3>1. PICK c \in {"WAITING_SELLER", "OPEN"} : chain' = [chain EXCEPT ![s] = c]
      BY <2>2
    <3>2. sent[s] \cap {"authorize", "settle"} = {}
      BY <1>2, <2>2 DEF Final
    <3>3. c \in Statuses /\ c # "SETTLED" /\ c # "AUTHORIZED"
      BY DEF Statuses
    <3> QED
      BY <1>1, <1>2, <2>1, <3>1, <3>2, <3>3, StatusMoves
  <2>3. CASE /\ role = "buyer" /\ chain[s] = "AUTHORIZED"
             /\ \E c \in Final : chain' = [chain EXCEPT ![s] = c]
    <3>1. PICK c \in Final : chain' = [chain EXCEPT ![s] = c]
      BY <2>3
    <3>2. state[s] = "opening" /\ c \in Statuses /\ c # "AUTHORIZED"
      BY <1>2, <2>3 DEF Statuses, Final
    <3> QED
      BY <1>1, <1>2, <2>1, <3>1, <3>2, StatusMoves
  <2>4. CASE /\ role # "buyer" /\ chain[s] = "OPEN"
             /\ \E c \in {"AUTHORIZED", "CANCELLED"} : chain' = [chain EXCEPT ![s] = c]
    <3>1. PICK c \in {"AUTHORIZED", "CANCELLED"} : chain' = [chain EXCEPT ![s] = c]
      BY <2>4
    <3>2. sent[s] \cap {"authorize", "settle"} = {} \/ state[s] = "opening"
      BY <1>2, <2>4 DEF Final
    <3>3. c \in Statuses /\ c # "SETTLED" /\ (c \in Final \/ c = "AUTHORIZED")
      BY DEF Statuses, Final
    <3> QED
      BY <1>1, <1>2, <2>1, <2>4, <3>1, <3>2, <3>3, StatusMoves
  <2> QED
    BY <1>12, <2>2, <2>3, <2>4 DEF PeerApplies
<1>13. Begin(s) \/ NameRecord(s) \/ Connect(s) \/ Joined(s) =>
         /\ chain' = chain /\ state' = state /\ sent' = sent
         /\ role' = role /\ evidence' = evidence
  BY DEF Begin, NameRecord, Connect, Joined
<1> QED
  BY <1>4, <1>5, <1>6, <1>7, <1>8, <1>9, <1>10, <1>11, <1>12, <1>13 DEF SessionStep

\* The steps of a job change the disk only as far as they have established that
\* they may.
LEMMA JobSafetyStep ==
    ASSUME SafetyInv, NEW j \in Jobs,
           StartRecovery(j) \/ FinalizeSession(j) \/ JobStep(j) \/ JobFails(j) \/ CliCrashes(j)
    PROVE  /\ PriceSentWithOpening' /\ AuthorizedWithOpening' /\ JobsEstablished'
           /\ NoSettlementLost'
<1> USE DEF live, deal, disk
<1>1. TypeOK /\ RestType /\ JobType
  BY TypeSplit DEF SafetyInv
<1>2. PriceSentWithOpening /\ AuthorizedWithOpening /\ JobsEstablished /\ NoSettlementLost
  BY DEF SafetyInv
<1>3. UNCHANGED <<role, chain, sent>>
  BY DEF StartRecovery, FinalizeSession, JobStep, JobFails, CliCrashes, ReadRecords, NextRecord,
         Finished, ReadChain, LoadEvidence, ReadOpening, WriteTemporary, RenameTemporary, Reread,
         MarkEvidenceSaved, EraseState, EraseSigningKey, MarkCleaned
<1>4. Established(j) /\ (job[j].pc \in BusyPcs => job[j].session \in Sessions)
  BY <1>1, <1>2 DEF JobsEstablished, JobType
<1>5. \A s \in Sessions : evidence[s] = "good" => evidence'[s] = "good"
  BY <1>1 DEF StartRecovery, FinalizeSession, JobStep, JobFails, CliCrashes, ReadRecords, NextRecord,
         Finished, ReadChain, LoadEvidence, ReadOpening, WriteTemporary, RenameTemporary, Reread,
         MarkEvidenceSaved, EraseState, EraseSigningKey, MarkCleaned, RestType
<1>6. \A s \in Sessions :
        \/ state'[s] = state[s]
        \/ chain[s] = "CANCELLED"
        \/ chain[s] = "SETTLED" /\ evidence[s] = "good"
  <2>1. CASE EraseState(j)
    <3>1. job[j].session \in Sessions /\ state' = [state EXCEPT ![job[j].session] = "none"]
      BY <1>4, <2>1 DEF EraseState, At, Here, BusyPcs
    <3>2. \/ chain[job[j].session] = "CANCELLED"
          \/ chain[job[j].session] = "SETTLED" /\ evidence[job[j].session] = "good"
      BY <1>4, <2>1 DEF EraseState, At, Established
    <3> QED
      BY <1>1, <3>1, <3>2 DEF RestType
  <2>2. CASE ~EraseState(j)
    BY <2>2 DEF StartRecovery, FinalizeSession, JobStep, JobFails, CliCrashes, ReadRecords,
         NextRecord, Finished, ReadChain, LoadEvidence, ReadOpening, WriteTemporary,
         RenameTemporary, Reread, MarkEvidenceSaved, EraseSigningKey, MarkCleaned
  <2> QED
    BY <2>1, <2>2
<1>7. PriceSentWithOpening'
  BY <1>2, <1>3, <1>6 DEF PriceSentWithOpening, Final
<1>8. AuthorizedWithOpening'
  BY <1>2, <1>3, <1>6 DEF AuthorizedWithOpening
<1>9. NoSettlementLost'
  BY <1>2, <1>3, <1>5, <1>6 DEF NoSettlementLost
<1>10. Established(j)'
  <2> USE DEF Established, At, Here, BusyPcs
  <2>1. CASE job'[j].pc \in IdlePcs \cup {"chain"}
    BY <2>1 DEF IdlePcs
  <2>2. ASSUME NEW pc \in BusyPcs, Goto(j, pc)
        PROVE  job'[j].pc = pc /\ job'[j].session = job[j].session
    BY <1>1, <2>2 DEF Goto, JobType
  <2>3. Continue(j) \/ job' = [job EXCEPT ![j] = [Idle EXCEPT !.pc = "loop"]]
          => job'[j].pc = "loop"
    BY <1>1 DEF Continue, Idle, JobType
  <2>4. CASE StartRecovery(j)
    BY <1>1, <2>1, <2>4 DEF StartRecovery, Goto, JobType, IdlePcs
  <2>5. CASE FinalizeSession(j) \/ NextRecord(j) \/ ReadRecords(j)
    BY <1>1, <2>1, <2>5 DEF FinalizeSession, NextRecord, ReadRecords, JobType, IdlePcs
  <2>6. CASE Finished(j) \/ CliCrashes(j)
    BY <1>1, <2>1, <2>6 DEF Finished, CliCrashes, Idle, JobType, IdlePcs
  <2>7. CASE ReadChain(j)
    BY <1>1, <1>3, <1>4, <2>1, <2>2, <2>3, <2>7 DEF ReadChain, Finishable, Final, RestType, IdlePcs
  <2>8. CASE LoadEvidence(j)
    BY <1>3, <1>4, <2>2, <2>8 DEF LoadEvidence, EvidenceVerifies
  <2>9. CASE ReadOpening(j)
    BY <1>3, <1>4, <2>1, <2>2, <2>3, <2>9 DEF ReadOpening, IdlePcs
  <2>10. CASE WriteTemporary(j)
    BY <1>3, <1>4, <2>2, <2>10 DEF WriteTemporary
  <2>11. CASE RenameTemporary(j)
    BY <1>3, <1>4, <2>1, <2>2, <2>3, <2>11 DEF RenameTemporary, IdlePcs
  <2>12. CASE Reread(j)
    BY <1>3, <1>4, <2>1, <2>2, <2>3, <2>12 DEF Reread, EvidenceVerifies, IdlePcs
  <2>13. CASE MarkEvidenceSaved(j)
    BY <1>3, <1>4, <2>2, <2>13 DEF MarkEvidenceSaved
  <2>14. CASE EraseState(j)
    BY <1>3, <1>4, <2>2, <2>14 DEF EraseState, AfterErase
  <2>15. CASE EraseSigningKey(j)
    BY <1>3, <1>4, <2>2, <2>15 DEF EraseSigningKey
  <2>16. CASE MarkCleaned(j)
    BY <2>1, <2>3, <2>16 DEF MarkCleaned, IdlePcs
  <2>17. CASE JobFails(j)
    BY <1>3, <1>4, <2>1, <2>2, <2>3, <2>17 DEF JobFails, IdlePcs
  <2> QED
    BY <2>4, <2>5, <2>6, <2>7, <2>8, <2>9, <2>10, <2>11, <2>12, <2>13, <2>14, <2>15, <2>16, <2>17
       DEF JobStep
<1>11. ASSUME NEW i \in Jobs, i # j PROVE Established(i)'
  <2>1. job'[i] = job[i]
    BY <1>1, <1>11 DEF StartRecovery, FinalizeSession, JobStep, JobFails, CliCrashes, ReadRecords,
         NextRecord, Finished, ReadChain, LoadEvidence, ReadOpening, WriteTemporary,
         RenameTemporary, Reread, MarkEvidenceSaved, EraseState, EraseSigningKey, MarkCleaned,
         Goto, Continue, JobType
  <2>2. Established(i) /\ (job[i].pc \in BusyPcs => job[i].session \in Sessions)
    BY <1>1, <1>2 DEF JobsEstablished, JobType
  <2> QED
    BY <1>3, <1>5, <2>1, <2>2, EstablishedStable
<1> QED
  BY <1>7, <1>8, <1>9, <1>10, <1>11 DEF JobsEstablished

\* ... is kept by every step of a session, a job, the chain and a crash ...
LEMMA SafetyStep == SafetyInv /\ [Next]_vars => SafetyInv'
<1> SUFFICES ASSUME SafetyInv, [Next]_vars PROVE SafetyInv'
  OBVIOUS
<1>1. TypeOK'
  BY TypeStep DEF SafetyInv
<1> SUFFICES PriceSentWithOpening' /\ AuthorizedWithOpening' /\ JobsEstablished' /\ NoSettlementLost'
  BY <1>1 DEF SafetyInv
<1>2. ASSUME NEW s \in Sessions, SessionStep(s)
      PROVE  PriceSentWithOpening' /\ AuthorizedWithOpening' /\ JobsEstablished' /\ NoSettlementLost'
  BY <1>2, SessionSafetyStep
<1>3. ASSUME NEW j \in Jobs,
             StartRecovery(j) \/ FinalizeSession(j) \/ JobStep(j) \/ JobFails(j) \/ CliCrashes(j)
      PROVE  PriceSentWithOpening' /\ AuthorizedWithOpening' /\ JobsEstablished' /\ NoSettlementLost'
  BY <1>3, JobSafetyStep
<1>4. CASE Crash
  <2>1. UNCHANGED <<role, chain, sent, state, evidence>>
    BY <1>4 DEF Crash, deal, disk
  <2>2. ASSUME NEW i \in Jobs PROVE Established(i)'
    <3>1. job'[i] = Idle \/ job'[i] = job[i]
      BY <1>4 DEF Crash
    <3> QED
      BY <2>1, <3>1 DEF SafetyInv, JobsEstablished, Established, Idle
  <2> QED
    BY <2>1, <2>2 DEF SafetyInv, PriceSentWithOpening, AuthorizedWithOpening, JobsEstablished,
                      NoSettlementLost
<1>5. CASE Restart \/ UNCHANGED vars
  BY <1>5 DEF Restart, vars, live, deal, disk, SafetyInv, PriceSentWithOpening,
              AuthorizedWithOpening, JobsEstablished, Established, NoSettlementLost
<1> QED
  BY <1>2, <1>3, <1>4, <1>5 DEF Next

-----------------------------------------------------------------------------
(* Theorems. *)

\* ... and so holds in every reachable state.
THEOREM SafetyInvariant == Spec => []SafetyInv
<1>1. Init => SafetyInv
  BY SafetyInit
<1>2. SafetyInv /\ [Next]_vars => SafetyInv'
  BY SafetyStep
<1> QED
  BY <1>1, <1>2, PTL DEF Spec

\* Every variable keeps its type; in particular no recovery ever visits a record
\* that names no contract.
THEOREM FinalizeTypeCorrect == Spec => []TypeOK
<1>1. SafetyInv => TypeOK
  BY DEF SafetyInv
<1> QED
  BY <1>1, SafetyInvariant, PTL

\* The opening of a settled price is in the private state or in verified
\* evidence at every moment, for any number of sessions, of finalizations that
\* run at the same time, and of crashes and failing operations.
THEOREM SettlementNeverLost == Spec => []NoSettlementLost
<1>1. SafetyInv => NoSettlementLost
  BY DEF SafetyInv
<1> QED
  BY <1>1, SafetyInvariant, PTL

\* Private state and signing key are erased only after the deal is final, and
\* for a settled deal only after its evidence is on the disk.
THEOREM NothingErasedEarly == Spec => UnfinishedKeepsEverything
<1> DEFINE Keeps ==
      \A s \in Sessions :
        (state[s] # "none" /\ state'[s] = "none") \/ (s \in signingKey /\ s \notin signingKey')
          => chain[s] = "CANCELLED" \/ (chain[s] = "SETTLED" /\ evidence[s] = "good")
<1>1. SafetyInv /\ [Next]_vars => [Keeps]_vars
  <2> SUFFICES ASSUME SafetyInv, [Next]_vars, NEW s \in Sessions,
                      \/ state[s] # "none" /\ state'[s] = "none"
                      \/ s \in signingKey /\ s \notin signingKey'
               PROVE  chain[s] = "CANCELLED" \/ (chain[s] = "SETTLED" /\ evidence[s] = "good")
    OBVIOUS
  <2> USE DEF live, deal, disk
  <2>1. RestType /\ JobType /\ JobsEstablished
    BY TypeSplit DEF SafetyInv
  <2>2. ASSUME NEW t \in Sessions, SessionStep(t) PROVE FALSE
    BY <2>1, <2>2 DEF SessionStep, Begin, Deploys, StoreState, NameRecord, Connect, SendJoin,
                      Joined, StoreOpening, SendPrice, SendCancel, Applies, PeerApplies, RestType
  <2>3. ~Crash /\ ~Restart /\ ~UNCHANGED vars
    BY DEF Crash, Restart, vars
  <2>4. PICK j \in Jobs :
          StartRecovery(j) \/ FinalizeSession(j) \/ JobStep(j) \/ JobFails(j) \/ CliCrashes(j)
    BY <2>2, <2>3 DEF Next
  <2>5. job[j].pc \in {"erase", "forget"} /\ job[j].session = s
    BY <2>1, <2>4 DEF StartRecovery, FinalizeSession, JobStep, JobFails, CliCrashes, ReadRecords,
         NextRecord, Finished, ReadChain, LoadEvidence, ReadOpening, WriteTemporary,
         RenameTemporary, Reread, MarkEvidenceSaved, EraseState, EraseSigningKey, MarkCleaned,
         At, Here, RestType
  <2> QED
    BY <2>1, <2>5 DEF JobsEstablished, Established
<1> QED
  BY <1>1, SafetyInvariant, PTL DEF Spec, UnfinishedKeepsEverything

-----------------------------------------------------------------------------
(* A CLEANED record tells the truth. *)

CleanInv == SafetyInv /\ CleanedMeansErased /\ ErasedBefore

\* A step of the session stores secrets only for a deal that is not final.
LEMMA SessionCleanStep ==
    ASSUME CleanInv, NEW s \in Sessions, SessionStep(s)
    PROVE  CleanedMeansErased' /\ ErasedBefore'
<1> USE DEF live, deal, disk
<1>1. RestType /\ JobType /\ JobsEstablished /\ CleanedMeansErased /\ ErasedBefore
  BY TypeSplit DEF CleanInv, SafetyInv
<1> USE DEF SessionStep, Begin, Deploys, StoreState, NameRecord, Connect, SendJoin, Joined,
            StoreOpening, SendPrice, SendCancel, Applies, PeerApplies, RestType
<1>2. job' = job
  OBVIOUS
<1>3. \A t \in Sessions : chain[t] \in Final =>
        chain'[t] = chain[t] /\ state'[t] = state[t] /\ (t \in signingKey' => t \in signingKey)
  <2> SUFFICES ASSUME NEW t \in Sessions, chain[t] \in Final
               PROVE  chain'[t] = chain[t] /\ state'[t] = state[t]
                        /\ (t \in signingKey' => t \in signingKey)
    OBVIOUS
  <2>1. chain'[t] = chain[t]
    BY <1>1 DEF Final
  <2>2. state'[t] = state[t]
    BY <1>1 DEF Final
  <2>3. t \in signingKey' => t \in signingKey
    <3> HIDE DEF StoreState
    <3>1. ~StoreState(s) => signingKey' = signingKey
      OBVIOUS
    <3>2. StoreState(s) => chain[s] = "WAITING_SELLER" /\ signingKey' = signingKey \cup {s}
      BY DEF StoreState
    <3> QED
      BY <3>1, <3>2 DEF Final
  <2> QED
    BY <2>1, <2>2, <2>3
<1>4. \A t \in Sessions : phase'[t] = "CLEANED" => phase[t] = "CLEANED"
  BY <1>1
<1> HIDE DEF SessionStep, Begin, Deploys, StoreState, NameRecord, Connect, SendJoin, Joined,
             StoreOpening, SendPrice, SendCancel, Applies, PeerApplies, RestType
<1>5. CleanedMeansErased' /\ \A t \in Sessions : phase'[t] = "CLEANED" => chain'[t] \in Final
  BY <1>1, <1>3, <1>4 DEF CleanedMeansErased, ErasedBefore
<1>6. ASSUME NEW j \in Jobs, job[j].pc \in {"forget", "clean"}
      PROVE  job[j].session \in Sessions /\ chain[job[j].session] \in Final
  BY <1>1, <1>6 DEF JobsEstablished, Established, JobType, BusyPcs, Final
<1>7. \A j \in Jobs :
        /\ job'[j].pc \in {"forget", "clean"} => state'[job'[j].session] = "none"
        /\ job'[j].pc = "clean" => job'[j].session \notin signingKey'
  BY <1>1, <1>2, <1>3, <1>6 DEF ErasedBefore
<1> QED
  BY <1>5, <1>7 DEF ErasedBefore

\* A finalization writes CLEANED only after it has erased both.
LEMMA JobCleanStep ==
    ASSUME CleanInv, NEW j \in Jobs,
           StartRecovery(j) \/ FinalizeSession(j) \/ JobStep(j) \/ JobFails(j) \/ CliCrashes(j)
    PROVE  CleanedMeansErased' /\ ErasedBefore'
<1> USE DEF live, deal, disk
<1>1. RestType /\ JobType /\ JobsEstablished /\ CleanedMeansErased /\ ErasedBefore
  BY TypeSplit DEF CleanInv, SafetyInv
<1>2. job[j].pc \in BusyPcs => job[j].session \in Sessions
  BY <1>1 DEF JobType
<1> DEFINE s == job[j].session
<1> USE DEF StartRecovery, FinalizeSession, JobStep, JobFails, CliCrashes, ReadRecords, NextRecord,
         Finished, ReadChain, LoadEvidence, ReadOpening, WriteTemporary, RenameTemporary, Reread,
         MarkEvidenceSaved, EraseState, EraseSigningKey, MarkCleaned, At, Here
<1>3. chain' = chain /\ signingKey' \subseteq signingKey
  OBVIOUS
<1>4. \A t \in Sessions : state[t] = "none" => state'[t] = "none"
  BY <1>1 DEF RestType
<1>5. \A t \in Sessions : phase'[t] = "CLEANED" =>
        phase[t] = "CLEANED" \/ (job[j].pc = "clean" /\ t = s)
  BY <1>1 DEF RestType
<1>6. \A i \in Jobs : i # j => job'[i] = job[i]
  BY <1>1 DEF Goto, Continue, JobType
<1>6a. \A pc \in BusyPcs : Goto(j, pc) => job'[j].pc = pc /\ job'[j].session = s
  BY <1>1 DEF Goto, JobType
<1> HIDE DEF EraseState, EraseSigningKey, s
<1>7. EraseState(j) => /\ job[j].pc = "erase" /\ job'[j].pc = "forget"
                       /\ job'[j].session = s /\ state'[s] = "none"
  <2> HIDE DEF JobStep, JobFails, CliCrashes, FinalizeSession, StartRecovery
  <2>1. ASSUME EraseState(j)
        PROVE  /\ job[j].pc = "erase" /\ s \in Sessions /\ Goto(j, "forget")
               /\ state' = [state EXCEPT ![s] = "none"]
    BY <1>2, <2>1 DEF EraseState, AfterErase, BusyPcs, s
  <2> QED
    BY <1>1, <1>6a, <2>1 DEF BusyPcs, RestType
<1>8. EraseSigningKey(j) => /\ job[j].pc = "forget" /\ job'[j].pc = "clean"
                            /\ job'[j].session = s /\ s \notin signingKey'
  <2> HIDE DEF JobStep, JobFails, CliCrashes, FinalizeSession, StartRecovery
  <2>1. ASSUME EraseSigningKey(j)
        PROVE  job[j].pc = "forget" /\ Goto(j, "clean") /\ s \notin signingKey'
    BY <2>1 DEF EraseSigningKey, s
  <2> QED
    BY <1>6a, <2>1 DEF BusyPcs
<1>8a. ~EraseState(j) /\ ~EraseSigningKey(j) => job'[j].pc \notin {"forget", "clean"}
  <2>1. \A pc \in BusyPcs \cup IdlePcs : Goto(j, pc) => job'[j].pc = pc
    BY <1>1 DEF Goto, JobType
  <2>2. Continue(j) \/ job' = [job EXCEPT ![j] = [Idle EXCEPT !.pc = "loop"]]
           \/ job' = [job EXCEPT ![j] = Idle] => job'[j].pc \in {"loop", "idle"}
    BY <1>1 DEF Continue, Idle, JobType
  <2>3. FinalizeSession(j) \/ ReadRecords(j) \/ NextRecord(j) => job'[j].pc \in {"chain", "loop"}
    BY <1>1 DEF JobType
  <2>4. ReadChain(j) => job'[j].pc \in {"loop", "load", "erase"}
    <3> HIDE DEF JobStep, JobFails, CliCrashes, FinalizeSession, StartRecovery
    <3>1. ReadChain(j) => Continue(j) \/ Goto(j, "load") \/ Goto(j, "erase")
      BY DEF ReadChain, Finishable, Final
    <3>2. Goto(j, "load") \/ Goto(j, "erase") => job'[j].pc \in {"load", "erase"}
      BY <1>6a DEF BusyPcs
    <3>3. Continue(j) => job'[j].pc = "loop"
      BY <1>1 DEF Continue, JobType
    <3> HIDE DEF ReadChain
    <3> QED
      BY <3>1, <3>2, <3>3
  <2> HIDE DEF FinalizeSession, ReadRecords, NextRecord, ReadChain
  <2> QED
    BY <2>1, <2>2, <2>3, <2>4 DEF BusyPcs, IdlePcs
<1> HIDE DEF StartRecovery, FinalizeSession, JobStep, JobFails, CliCrashes, ReadRecords, NextRecord,
         Finished, ReadChain, LoadEvidence, ReadOpening, WriteTemporary, RenameTemporary, Reread,
         MarkEvidenceSaved, EraseState, EraseSigningKey, MarkCleaned, At, Here
<1> USE DEF s
<1>9. job[j].pc = "clean" => s \in Sessions /\ chain[s] \in Final /\ state[s] = "none" /\ s \notin signingKey
  BY <1>1, <1>2 DEF ErasedBefore, JobsEstablished, Established, BusyPcs, Final
<1>10. CleanedMeansErased'
  BY <1>1, <1>3, <1>4, <1>5, <1>9 DEF CleanedMeansErased
<1>11. \A t \in Sessions : phase'[t] = "CLEANED" => chain'[t] \in Final
  BY <1>1, <1>3, <1>5, <1>9 DEF ErasedBefore
<1>12. ASSUME NEW i \in Jobs
       PROVE  /\ job'[i].pc \in {"forget", "clean"} => state'[job'[i].session] = "none"
              /\ job'[i].pc = "clean" => job'[i].session \notin signingKey'
  <2>1. CASE i = j
    <3>1. job[j].pc = "forget" => s \in Sessions /\ state[s] = "none"
      BY <1>1, <1>2 DEF ErasedBefore, BusyPcs
    <3> QED
      BY <1>4, <1>7, <1>8, <1>8a, <2>1, <3>1
  <2>2. CASE i # j
    <3>1. job[i].pc \in {"forget", "clean"} => job[i].session \in Sessions /\ state[job[i].session] = "none"
      BY <1>1 DEF ErasedBefore, JobType, BusyPcs
    <3> QED
      BY <1>1, <1>3, <1>4, <1>6, <2>2, <3>1 DEF ErasedBefore
  <2> QED
    BY <2>1, <2>2
<1> QED
  BY <1>10, <1>11, <1>12 DEF ErasedBefore

\* A CLEANED record means that private state and signing key are gone, and no
\* late step of a runtime or of another finalization brings them back.
THEOREM CleanedIsErased == Spec => []CleanedMeansErased
<1>1. Init => CleanInv
  <2> SUFFICES ASSUME Init PROVE CleanInv
    OBVIOUS
  <2> QED
    BY SafetyInit DEF Init, CleanInv, CleanedMeansErased, ErasedBefore, Idle
<1>2. CleanInv /\ [Next]_vars => CleanInv'
  <2> SUFFICES ASSUME CleanInv, [Next]_vars PROVE CleanedMeansErased' /\ ErasedBefore'
    BY SafetyStep DEF CleanInv
  <2>1. CASE Crash
    <3>1. UNCHANGED <<chain, phase, state, signingKey>>
      BY <2>1 DEF Crash, deal, disk
    <3>2. \A i \in Jobs : job'[i].pc \in {"forget", "clean"} => job'[i] = job[i]
      BY <2>1 DEF Crash, Idle
    <3> QED
      BY <3>1, <3>2 DEF CleanInv, CleanedMeansErased, ErasedBefore
  <2>2. CASE Restart \/ UNCHANGED vars
    BY <2>2 DEF Restart, vars, live, deal, disk, CleanInv, CleanedMeansErased, ErasedBefore
  <2> QED
    BY <2>1, <2>2, SessionCleanStep, JobCleanStep DEF Next
<1>3. CleanInv => CleanedMeansErased
  BY DEF CleanInv
<1> QED
  BY <1>1, <1>2, <1>3, PTL DEF Spec
-----------------------------------------------------------------------------
(* Nothing final is skipped for want of an address. *)

\* Who was told the address, and who is past the second record, has a record
\* that names it.  The seller's record names it from the start, and only the
\* seller joins.
NamedInTime ==
    /\ announced \subseteq named
    /\ \A s \in Sessions :
          /\ flow[s] \in {"recorded again", "joining", "connected"} => s \in named
          /\ role = "seller" /\ (flow[s] \in {"recorded", "stored"} \/ state[s] # "none") =>
                s \in named
          /\ role = "buyer" => "join" \notin sent[s]

NamingInv == TypeOK /\ NamedInTime /\ UnnamedIsUnfinished

\* A deal leaves WAITING_SELLER only by the seller's joinDeal, and the seller
\* has the address from the record that names it.
LEMMA SessionNamingStep ==
    ASSUME NamingInv, NEW s \in Sessions, SessionStep(s)
    PROVE  NamedInTime' /\ UnnamedIsUnfinished'
<1> USE DEF live, deal, disk
<1>1. RestType /\ NamedInTime /\ UnnamedIsUnfinished
  BY TypeSplit DEF NamingInv
<1>2. role' = role /\ \A t \in Sessions \ {s} :
        /\ flow'[t] = flow[t] /\ state'[t] = state[t] /\ sent'[t] = sent[t] /\ chain'[t] = chain[t]
        /\ t \in named' <=> t \in named
        /\ t \in announced' <=> t \in announced
  <2>1. CASE Begin(s) \/ Deploys(s) \/ StoreState(s) \/ NameRecord(s)
    BY <1>1, <2>1 DEF RestType, Begin, Deploys, StoreState, NameRecord
  <2>2. CASE Connect(s) \/ SendJoin(s) \/ Joined(s)
    BY <1>1, <2>2 DEF RestType, Connect, SendJoin, Joined
  <2>3. CASE StoreOpening(s) \/ SendPrice(s) \/ SendCancel(s)
    BY <1>1, <2>3 DEF RestType, StoreOpening, SendPrice, SendCancel
  <2>4. CASE Applies(s) \/ PeerApplies(s)
    BY <1>1, <2>4 DEF RestType, Applies, PeerApplies
  <2> QED
    BY <2>1, <2>2, <2>3, <2>4 DEF SessionStep
<1>3. announced' \subseteq Sessions
  BY SessionTypeStep DEF NamingInv, TypeOK
<1>4. ASSUME /\ s \in announced' => s \in named'
             /\ flow'[s] \in {"recorded again", "joining", "connected"} => s \in named'
             /\ role' = "seller" /\ (flow'[s] \in {"recorded", "stored"} \/ state'[s] # "none") =>
                   s \in named'
             /\ role' = "buyer" => "join" \notin sent'[s]
             /\ state'[s] # "none" /\ s \notin named' => chain'[s] = "WAITING_SELLER"
      PROVE  NamedInTime' /\ UnnamedIsUnfinished'
  BY <1>1, <1>2, <1>3, <1>4 DEF NamedInTime, UnnamedIsUnfinished
<1>5. CASE Begin(s)
  BY <1>1, <1>4, <1>5 DEF Begin, NamedInTime, UnnamedIsUnfinished, RestType
<1>6. CASE Deploys(s)
  BY <1>1, <1>4, <1>6 DEF Deploys, NamedInTime, UnnamedIsUnfinished, RestType
<1>7. CASE StoreState(s)
  BY <1>1, <1>4, <1>7 DEF StoreState, NamedInTime, UnnamedIsUnfinished, RestType
<1>8. CASE NameRecord(s)
  BY <1>1, <1>4, <1>8 DEF NameRecord, NamedInTime, UnnamedIsUnfinished, RestType
<1>9. CASE Connect(s) \/ SendJoin(s) \/ Joined(s)
  BY <1>1, <1>4, <1>9
     DEF Connect, ReadyFrom, SendJoin, Joined, NamedInTime, UnnamedIsUnfinished, RestType
<1>10. CASE StoreOpening(s) \/ SendPrice(s) \/ SendCancel(s)
  <2>1. UNCHANGED <<role, flow, announced, named, chain>> /\ s \in named
    BY <1>1, <1>10 DEF StoreOpening, SendPrice, SendCancel, Connected, NamedInTime
  <2>2. "join" \in sent'[s] => "join" \in sent[s]
    <3>1. sent' = sent
            \/ \E c \in {"authorize", "settle", "cancel"} : sent'[s] = sent[s] \cup {c}
      <4>1. sent \in [Sessions -> SUBSET {"join", "authorize", "settle", "cancel"}]
        BY <1>1 DEF RestType
      <4>2. CASE StoreOpening(s)
        BY <4>2 DEF StoreOpening
      <4>3. CASE SendPrice(s)
        BY <4>1, <4>3 DEF SendPrice
      <4>4. CASE SendCancel(s)
        BY <4>1, <4>4 DEF SendCancel
      <4> QED
        BY <1>10, <4>2, <4>3, <4>4
    <3> QED
      BY <3>1
  <2> QED
    BY <1>1, <1>4, <2>1, <2>2 DEF NamedInTime
<1>11. CASE Applies(s)
  BY <1>1, <1>4, <1>11 DEF Applies, NamedInTime, UnnamedIsUnfinished, RestType
<1>12. CASE PeerApplies(s)
  BY <1>1, <1>4, <1>12 DEF PeerApplies, NamedInTime, UnnamedIsUnfinished, RestType
<1> QED
  BY <1>5, <1>6, <1>7, <1>8, <1>9, <1>10, <1>11, <1>12 DEF SessionStep

\* A session that every recovery skips for want of an address is not final:
\* nobody else knows of its contract.
THEOREM NoFinalDealIsSkipped == Spec => []UnnamedIsUnfinished
<1>1. Init => NamingInv
  BY TypeInit DEF Init, NamingInv, NamedInTime, UnnamedIsUnfinished
<1>2. NamingInv /\ [Next]_vars => NamingInv'
  <2> SUFFICES ASSUME NamingInv, [Next]_vars PROVE NamedInTime' /\ UnnamedIsUnfinished'
    BY TypeStep DEF NamingInv
  <2> USE DEF live, deal, disk
  <2>0. TypeOK /\ NamedInTime /\ UnnamedIsUnfinished
    BY DEF NamingInv
  <2>1. ASSUME /\ role' = role /\ announced' = announced /\ named' = named
               /\ sent' = sent /\ chain' = chain
               /\ \A t \in Sessions : flow'[t] \in {flow[t], "none", "forgotten"}
               /\ \A t \in Sessions : state'[t] \in {state[t], "none"}
        PROVE  NamedInTime' /\ UnnamedIsUnfinished'
    BY <2>0, <2>1 DEF NamedInTime, UnnamedIsUnfinished
  <2>2. CASE \E j \in Jobs :
            StartRecovery(j) \/ FinalizeSession(j) \/ JobStep(j) \/ JobFails(j) \/ CliCrashes(j)
    <3> USE DEF StartRecovery, FinalizeSession, JobStep, JobFails, CliCrashes,
                ReadRecords, NextRecord, Finished, ReadChain, LoadEvidence, ReadOpening,
                WriteTemporary, RenameTemporary, Reread, MarkEvidenceSaved, EraseState,
                EraseSigningKey, MarkCleaned
    <3>1. UNCHANGED <<role, announced, named, sent, chain>>
      BY <2>2
    <3> PICK j \in Jobs :
            StartRecovery(j) \/ FinalizeSession(j) \/ JobStep(j) \/ JobFails(j) \/ CliCrashes(j)
      BY <2>2
    <3>2. flow' = flow \/ flow' = [flow EXCEPT ![job[j].session] = "forgotten"]
      BY DEF Here
    <3>3. state' = state \/ state' = [state EXCEPT ![job[j].session] = "none"]
      BY DEF Here
    <3> HIDE DEF StartRecovery, FinalizeSession, JobStep, JobFails, CliCrashes
    <3>4. \A t \in Sessions : flow'[t] \in {flow[t], "none", "forgotten"}
      BY <2>0, <3>2 DEF TypeOK
    <3>5. \A t \in Sessions : state'[t] \in {state[t], "none"}
      <4>1. state = [t \in Sessions |-> state[t]]
        BY <2>0 DEF TypeOK
      <4> QED
        BY <3>3, <4>1
    <3> QED
      BY <2>1, <3>1, <3>4, <3>5
  <2>3. CASE Crash
    BY <2>1, <2>3 DEF Crash
  <2>4. CASE Restart \/ UNCHANGED vars
    BY <2>1, <2>4 DEF Restart, vars
  <2> QED
    BY <2>2, <2>3, <2>4, SessionNamingStep DEF Next
<1>3. NamingInv => UnnamedIsUnfinished
  BY DEF NamingInv
<1> QED
  BY <1>1, <1>2, <1>3, PTL DEF Spec
=============================================================================
