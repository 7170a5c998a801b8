--------------------------- MODULE SessionFinalize ---------------------------
(***************************************************************************)
(* What one role keeps on its disk about its sessions, and how it is       *)
(* finished: the session record, the private state store (limit, key and   *)
(* price opening, and the contract signing key) and the encrypted          *)
(* settlement evidence.  A runtime fills them while it runs a session and  *)
(* finalizes it when told that the deal is final; every start of the       *)
(* runtime, and the command-line tool of scripts/evidence.mjs at any time, *)
(* recovers the sessions that are still open.  All of these run the same   *)
(* finalizeSession on the same files without any lock.                     *)
(*                                                                         *)
(* Each await of finalizeSession is a step of its own.  Up to MaxFaults    *)
(* times a process crashes or an operation throws (the chain cannot be     *)
(* read, a file cannot be written).  A transaction that was sent may take  *)
(* effect after the process that sent it is gone.                          *)
(***************************************************************************)
EXTENDS Integers, FiniteSets

CONSTANTS
    Sessions,      \* session identifiers
    RuntimeJobs,   \* finalizations the runtime may run at the same time
    CliJobs,       \* recoveries run from the command line
    MaxFaults      \* bound on crashes and failing operations

ASSUME JobsAreDisjoint == RuntimeJobs \cap CliJobs = {}
ASSUME FaultsAreBounded == MaxFaults \in Nat

Jobs == RuntimeJobs \cup CliJobs
NoSession == "no session"
ASSUME NoSessionIsNone == NoSession \notin Sessions

VARIABLES
    role,        \* whose disk this is
    runtime,     \* "down", "boot" (recovering) or "up"
    current,     \* the session the runtime is in
    flow,        \* session -> how far deployOnChain or tryJoinOnChain got
    chain,       \* session -> status of its deal, "none" before it exists
    sent,        \* session -> circuit calls this role sent
    announced,   \* sessions whose contract address the peer was told
    phase,       \* session -> phase of its record, "none" without a record
    named,       \* sessions whose record has a contractAddress
    state,       \* session -> private state: "none", "plain" or "opening"
    signingKey,  \* sessions whose contract signing key is stored
    evidence,    \* session -> evidence file: "none", "good" or "bad"
    tmp,         \* jobs whose temporary evidence file exists
    job,         \* job -> where it is, and the sessions it still has to visit
    faults

live == <<role, runtime, current, flow>>
deal == <<chain, sent, announced>>
disk == <<phase, named, state, signingKey, evidence, tmp>>
vars == <<live, deal, disk, job, faults>>

Idle == [pc |-> "idle", session |-> NoSession, todo |-> {}]
Final == {"SETTLED", "CANCELLED"}

\* Evidence that loadEvidence decrypts, that belongs to this session and that
\* verifies against the chain is "good"; a file left by another key or another
\* deal is "bad".
Init ==
    /\ role \in {"buyer", "seller"}
    /\ runtime = "up" /\ current = NoSession
    /\ flow = [s \in Sessions |-> "none"]
    /\ chain = [s \in Sessions |-> "none"]
    /\ sent = [s \in Sessions |-> {}]
    /\ announced = {} /\ named = {} /\ signingKey = {} /\ tmp = {}
    /\ phase = [s \in Sessions |-> "none"]
    /\ state = [s \in Sessions |-> "none"]
    /\ evidence \in [Sessions -> {"none", "bad"}]
    /\ job = [j \in Jobs |-> Idle]
    /\ faults = 0

Fault == faults < MaxFaults /\ faults' = faults + 1

-----------------------------------------------------------------------------
(* A session as the runtime lives it. *)

\* JOIN_ROOM, then the first record: the buyer's before it deploys, without an
\* address; the seller's when it knows the address, before it attaches.
Begin(s) ==
    /\ runtime = "up" /\ phase[s] = "none"
    /\ role = "seller" => chain[s] = "WAITING_SELLER"
    /\ current' = s
    /\ flow' = [flow EXCEPT ![s] = "recorded"]
    /\ phase' = [phase EXCEPT ![s] = "ACTIVE"]
    /\ named' = IF role = "seller" THEN named \cup {s} ELSE named
    /\ UNCHANGED <<role, runtime, deal, state, signingKey, evidence, tmp, job, faults>>

\* deployNegotiation: the deployment takes effect, also when the runtime is
\* gone by then.
Deploys(s) ==
    /\ role = "buyer" /\ phase[s] = "ACTIVE" /\ s \notin named /\ chain[s] = "none"
    /\ chain' = [chain EXCEPT ![s] = "WAITING_SELLER"]
    /\ UNCHANGED <<live, sent, announced, disk, job, faults>>

\* deployNegotiation and attachNegotiation store the private state and the
\* signing key under the contract's address.
StoreState(s) ==
    /\ runtime = "up" /\ flow[s] = "recorded" /\ chain[s] = "WAITING_SELLER"
    /\ flow' = [flow EXCEPT ![s] = "stored"]
    /\ state' = [state EXCEPT ![s] = "plain"]
    /\ signingKey' = signingKey \cup {s}
    /\ UNCHANGED <<role, runtime, current, deal, phase, named, evidence, tmp, job, faults>>

\* The buyer's second record names the contract; it is written even when the
\* runtime is in another session by then.
NameRecord(s) ==
    /\ runtime = "up" /\ role = "buyer" /\ flow[s] = "stored"
    /\ flow' = [flow EXCEPT ![s] = "recorded again"]
    /\ named' = named \cup {s}
    /\ UNCHANGED <<role, runtime, current, deal, phase, state, signingKey, evidence, tmp, job,
                   faults>>

\* Mutant: the address is announced before the record names it.
AnnouncedFrom == "stored"

\* Where the buyer is when it sends contract_ready.
ReadyFrom == "recorded again"

\* The buyer keeps the contract and sends contract_ready, unless the session
\* was left meanwhile.
Connect(s) ==
    /\ runtime = "up" /\ role = "buyer" /\ flow[s] = ReadyFrom /\ current = s
    /\ flow' = [flow EXCEPT ![s] = "connected"]
    /\ announced' = announced \cup {s}
    /\ UNCHANGED <<role, runtime, current, chain, sent, disk, job, faults>>

\* The seller sends joinDeal, and keeps the contract when it was applied.
SendJoin(s) ==
    /\ runtime = "up" /\ role = "seller" /\ flow[s] = "stored" /\ current = s
    /\ sent' = [sent EXCEPT ![s] = @ \cup {"join"}]
    /\ flow' = [flow EXCEPT ![s] = "joining"]
    /\ UNCHANGED <<role, runtime, current, chain, announced, disk, job, faults>>

Joined(s) ==
    /\ runtime = "up" /\ flow[s] = "joining" /\ current = s /\ chain[s] # "WAITING_SELLER"
    /\ flow' = [flow EXCEPT ![s] = "connected"]
    /\ UNCHANGED <<role, runtime, current, deal, disk, job, faults>>

Connected(s) == runtime = "up" /\ flow[s] = "connected" /\ current = s

\* authorizeOnChain and settleOnChain: the price opening is stored before the
\* circuit that uses it is called.
StoreOpening(s) ==
    /\ Connected(s) /\ state[s] = "plain" /\ "cancel" \notin sent[s]
    /\ chain[s] = IF role = "buyer" THEN "OPEN" ELSE "AUTHORIZED"
    /\ state' = [state EXCEPT ![s] = "opening"]
    /\ UNCHANGED <<live, deal, phase, named, signingKey, evidence, tmp, job, faults>>

\* Mutant: the circuit is called first and the opening stored afterwards.
OpeningLater(s) == state[s] # "none"

OpeningStored(s) == state[s] = "opening"

SendPrice(s) ==
    /\ Connected(s) /\ OpeningStored(s) /\ "cancel" \notin sent[s]
    /\ chain[s] = IF role = "buyer" THEN "OPEN" ELSE "AUTHORIZED"
    /\ sent' = [sent EXCEPT ![s] = @ \cup {IF role = "buyer" THEN "authorize" ELSE "settle"}]
    /\ UNCHANGED <<live, chain, announced, disk, job, faults>>

\* The buyer cancels instead of authorizing; the seller cancels an opening that
\* is not the agreed price, or after its settle threw.
SendCancel(s) ==
    /\ Connected(s)
    /\ IF role = "buyer" THEN chain[s] = "OPEN" /\ state[s] = "plain" ELSE chain[s] = "AUTHORIZED"
    /\ sent' = [sent EXCEPT ![s] = @ \cup {"cancel"}]
    /\ UNCHANGED <<live, chain, announced, disk, job, faults>>

\* A circuit call of this role takes effect.
Applies(s) ==
    /\ \/ "join" \in sent[s] /\ chain[s] = "WAITING_SELLER" /\ chain' = [chain EXCEPT ![s] = "OPEN"]
       \/ "authorize" \in sent[s] /\ chain[s] = "OPEN"
            /\ chain' = [chain EXCEPT ![s] = "AUTHORIZED"]
       \/ "settle" \in sent[s] /\ chain[s] = "AUTHORIZED" /\ chain' = [chain EXCEPT ![s] = "SETTLED"]
       \/ "cancel" \in sent[s] /\ chain[s] \in {"OPEN", "AUTHORIZED"}
            /\ chain' = [chain EXCEPT ![s] = "CANCELLED"]
    /\ UNCHANGED <<live, sent, announced, disk, job, faults>>

\* The same calls of the other role.  It learns of the contract only when this
\* role announced it, and authorizes or settles only prices of its own.
PeerApplies(s) ==
    /\ IF role = "buyer"
       THEN \/ s \in announced /\ chain[s] = "WAITING_SELLER" /\ chain' = [chain EXCEPT ![s] = "OPEN"]
            \/ chain[s] = "AUTHORIZED" /\ \E c \in Final : chain' = [chain EXCEPT ![s] = c]
       ELSE \/ chain[s] = "none" /\ chain' = [chain EXCEPT ![s] = "WAITING_SELLER"]
            \/ chain[s] = "OPEN"
                /\ \E c \in {"AUTHORIZED", "CANCELLED"} : chain' = [chain EXCEPT ![s] = c]
    /\ UNCHANGED <<live, sent, announced, disk, job, faults>>

-----------------------------------------------------------------------------
(* finalizeSession, one step per await.  A job visits one session after the *)
(* other; a throw ends the whole job.                                       *)

At(j, pc) == job[j].pc = pc
Here(j) == job[j].session

Goto(j, pc) == job' = [job EXCEPT ![j].pc = pc]

\* The outcome for this session is KEPT, or it is finished: the loop goes on.
Continue(j) == job' = [job EXCEPT ![j].pc = "loop", ![j].session = NoSession]

\* FINALIZE_SESSION: the runtime finalizes the session it is in, with the record
\* it keeps in memory.
FinalizeSession(j) ==
    /\ j \in RuntimeJobs /\ At(j, "idle")
    /\ \E s \in Sessions :
        /\ Connected(s) /\ chain[s] \in Final
        /\ job' = [job EXCEPT ![j] = [pc |-> "chain", session |-> s, todo |-> {}]]
    /\ UNCHANGED <<live, deal, disk, faults>>

\* recoverSessions begins by removing the role's temporary evidence files, also
\* one that another job is writing.
StartRecovery(j) ==
    /\ At(j, "idle")
    /\ j \in CliJobs \/ (runtime = "boot" /\ \A i \in RuntimeJobs : At(i, "idle"))
    /\ tmp' = {}
    /\ Goto(j, "records")
    /\ UNCHANGED <<live, deal, phase, named, state, signingKey, evidence, faults>>

\* Mutant: only sessions without evidence are finished by a recovery.
ActiveOnly == {"ACTIVE"}

\* recoverSessions skips only CLEANED records.
OpenPhases == {"ACTIVE", "EVIDENCE_SAVED"}

\* The records a recovery goes on with: one without an address is KEPT as
\* NO_CONTRACT.
RecoverableRecords == {s \in named : phase[s] \in OpenPhases}

\* readSessionRecords: the records as they are now, in no particular order.
ReadRecords(j) ==
    /\ At(j, "records")
    /\ job' = [job EXCEPT ![j] = [pc |-> "loop", session |-> NoSession,
                                  todo |-> RecoverableRecords]]
    /\ UNCHANGED <<live, deal, disk, faults>>

NextRecord(j) ==
    /\ At(j, "loop")
    /\ \E s \in job[j].todo :
        job' = [job EXCEPT ![j] = [pc |-> "chain", session |-> s, todo |-> @.todo \ {s}]]
    /\ UNCHANGED <<live, deal, disk, faults>>

\* The end of a recovery, of a boot, or of a finalization in the runtime.
Finished(j) ==
    /\ At(j, "loop") /\ job[j].todo = {}
    /\ job' = [job EXCEPT ![j] = Idle]
    /\ runtime' = IF j \in RuntimeJobs THEN "up" ELSE runtime
    /\ UNCHANGED <<role, current, flow, deal, disk, faults>>

\* Mutant: an AUTHORIZED deal is treated as final.
NotOpen == {"SETTLED", "AUTHORIZED", "CANCELLED"}

\* Statuses after which a session may be finished.
Finishable == Final

\* readDealState: a cancelled deal is cleaned at once, a settled one needs
\* evidence, any other is KEPT as NOT_FINAL.
ReadChain(j) ==
    /\ At(j, "chain")
    /\ CASE chain[Here(j)] \notin Finishable -> Continue(j)
         [] chain[Here(j)] = "SETTLED" -> Goto(j, "load")
         [] OTHER -> Goto(j, "erase")
    /\ UNCHANGED <<live, deal, disk, faults>>

\* Mutant: any evidence file that is there counts.
FileExists(s) == evidence[s] # "none"

\* loadEvidence, evidenceBelongsTo and verifyEvidence of what is on the disk.
EvidenceVerifies(s) == evidence[s] = "good"

LoadEvidence(j) ==
    /\ At(j, "load")
    /\ Goto(j, IF EvidenceVerifies(Here(j)) THEN "mark" ELSE "opening")
    /\ UNCHANGED <<live, deal, disk, faults>>

\* readOpening; without an opening the session is KEPT.
ReadOpening(j) ==
    /\ At(j, "opening")
    /\ IF state[Here(j)] = "opening" THEN Goto(j, "write") ELSE Continue(j)
    /\ UNCHANGED <<live, deal, disk, faults>>

\* writeFileAtomic: a synced temporary file, renamed into place.
WriteTemporary(j) ==
    /\ At(j, "write")
    /\ tmp' = tmp \cup {j}
    /\ Goto(j, "rename")
    /\ UNCHANGED <<live, deal, phase, named, state, signingKey, evidence, faults>>

\* Without the temporary file the rename throws.
RenameTemporary(j) ==
    /\ At(j, "rename")
    /\ IF j \in tmp
       THEN /\ evidence' = [evidence EXCEPT ![Here(j)] = "good"]
            /\ tmp' = tmp \ {j}
            /\ Goto(j, "reread")
       ELSE /\ job' = [job EXCEPT ![j] = [Idle EXCEPT !.pc = "loop"]]
            /\ UNCHANGED <<evidence, tmp>>
    /\ UNCHANGED <<live, deal, phase, named, state, signingKey, faults>>

\* Only a decrypted copy that still matches the chain unlocks the cleanup.
Reread(j) ==
    /\ At(j, "reread")
    /\ IF EvidenceVerifies(Here(j)) THEN Goto(j, "mark") ELSE Continue(j)
    /\ UNCHANGED <<live, deal, disk, faults>>

MarkEvidenceSaved(j) ==
    /\ At(j, "mark")
    /\ phase' = [phase EXCEPT ![Here(j)] = "EVIDENCE_SAVED"]
    /\ Goto(j, "erase")
    /\ UNCHANGED <<live, deal, named, state, signingKey, evidence, tmp, faults>>

\* Mutant: the session counts as cleaned with its signing key still there.
CleanedAfterState == "clean"

\* What markCleaned does after the private state is removed.
AfterErase == "forget"

\* markCleaned: the private state, the signing key, then the record.
EraseState(j) ==
    /\ At(j, "erase")
    /\ state' = [state EXCEPT ![Here(j)] = "none"]
    /\ Goto(j, AfterErase)
    /\ UNCHANGED <<live, deal, phase, named, signingKey, evidence, tmp, faults>>

EraseSigningKey(j) ==
    /\ At(j, "forget")
    /\ signingKey' = signingKey \ {Here(j)}
    /\ Goto(j, "clean")
    /\ UNCHANGED <<live, deal, phase, named, state, evidence, tmp, faults>>

\* The record says CLEANED; a runtime then drops what it kept in memory.
MarkCleaned(j) ==
    /\ At(j, "clean")
    /\ phase' = [phase EXCEPT ![Here(j)] = "CLEANED"]
    /\ flow' = IF j \in RuntimeJobs THEN [flow EXCEPT ![Here(j)] = "forgotten"] ELSE flow
    /\ Continue(j)
    /\ UNCHANGED <<role, runtime, current, deal, named, state, signingKey, evidence, tmp, faults>>

-----------------------------------------------------------------------------
(* Failures. *)

\* An operation of a job throws: the job gives up on every session it had left.
\* A failure to read the chain keeps the session, and the job goes on with the
\* next one; while old evidence is only read, the file is rebuilt.
JobFails(j) ==
    /\ job[j].pc \notin {"idle", "loop"}
    /\ Fault
    /\ \/ At(j, "load") /\ Goto(j, "opening")
       \/ job[j].pc \in {"chain", "opening", "reread"} /\ Continue(j)
       \/ ~At(j, "load") /\ job' = [job EXCEPT ![j] = [Idle EXCEPT !.pc = "loop"]]
    /\ tmp' = IF At(j, "rename") THEN tmp \ {j} ELSE tmp
    /\ UNCHANGED <<live, deal, phase, named, state, signingKey, evidence>>

\* The runtime is gone with everything it keeps in memory.  Temporary files and
\* transactions remain.
Crash ==
    /\ runtime # "down"
    /\ Fault
    /\ runtime' = "down" /\ current' = NoSession
    /\ flow' = [s \in Sessions |-> "none"]
    /\ job' = [j \in Jobs |-> IF j \in RuntimeJobs THEN Idle ELSE job[j]]
    /\ UNCHANGED <<role, deal, disk>>

CliCrashes(j) ==
    /\ j \in CliJobs /\ ~At(j, "idle")
    /\ Fault
    /\ job' = [job EXCEPT ![j] = Idle]
    /\ UNCHANGED <<live, deal, disk>>

Restart ==
    /\ runtime = "down"
    /\ runtime' = "boot"
    /\ UNCHANGED <<role, current, flow, deal, disk, job, faults>>

-----------------------------------------------------------------------------
JobStep(j) ==
    \/ ReadRecords(j) \/ NextRecord(j) \/ Finished(j)
    \/ ReadChain(j) \/ LoadEvidence(j) \/ ReadOpening(j)
    \/ WriteTemporary(j) \/ RenameTemporary(j) \/ Reread(j)
    \/ MarkEvidenceSaved(j) \/ EraseState(j) \/ EraseSigningKey(j) \/ MarkCleaned(j)

SessionStep(s) ==
    \/ Begin(s) \/ Deploys(s) \/ StoreState(s) \/ NameRecord(s) \/ Connect(s)
    \/ SendJoin(s) \/ Joined(s) \/ StoreOpening(s) \/ SendPrice(s) \/ SendCancel(s)
    \/ Applies(s) \/ PeerApplies(s)

Next ==
    \/ \E s \in Sessions : SessionStep(s)
    \/ \E j \in Jobs :
        StartRecovery(j) \/ FinalizeSession(j) \/ JobStep(j) \/ JobFails(j) \/ CliCrashes(j)
    \/ Crash \/ Restart

Spec == Init /\ [][Next]_vars

\* Promises settle, and whoever owns the disk eventually runs a recovery again:
\* every start does, and the documented command does.
FairSpec ==
    Spec /\ \A j \in Jobs : WF_vars(JobStep(j)) /\ (j \in CliJobs => WF_vars(StartRecovery(j)))
-----------------------------------------------------------------------------
(* Properties. *)

IdlePcs == {"idle", "records", "loop"}
BusyPcs == {"chain", "load", "opening", "write", "rename", "reread", "mark", "erase", "forget",
            "clean"}
Statuses == {"WAITING_SELLER", "OPEN", "AUTHORIZED"} \cup Final

TypeOK ==
    /\ role \in {"buyer", "seller"} /\ runtime \in {"down", "boot", "up"}
    /\ current \in Sessions \cup {NoSession}
    /\ flow \in [Sessions -> {"none", "recorded", "stored", "recorded again", "joining",
                              "connected", "forgotten"}]
    /\ chain \in [Sessions -> Statuses \cup {"none"}]
    /\ sent \in [Sessions -> SUBSET {"join", "authorize", "settle", "cancel"}]
    /\ announced \subseteq Sessions /\ named \subseteq Sessions /\ signingKey \subseteq Sessions
    /\ phase \in [Sessions -> OpenPhases \cup {"none", "CLEANED"}]
    /\ state \in [Sessions -> {"none", "plain", "opening"}]
    /\ evidence \in [Sessions -> {"none", "good", "bad"}]
    /\ tmp \subseteq Jobs
    /\ job \in [Jobs -> [pc : IdlePcs \cup BusyPcs, session : Sessions \cup {NoSession},
                         todo : SUBSET Sessions]]
    /\ \A j \in Jobs : job[j].todo \subseteq named
    /\ \A j \in Jobs : job[j].pc \in BusyPcs <=> job[j].session \in Sessions
    /\ faults \in 0..MaxFaults

\* A settled price is never lost: whatever crashes, fails or runs at the same
\* time, as long as the deal is settled the opening of its price commitment is
\* still in the private state or in evidence that verifies.
NoSettlementLost ==
    \A s \in Sessions : chain[s] = "SETTLED" => state[s] = "opening" \/ evidence[s] = "good"

\* "An unfinished deal keeps everything": private state and signing key are
\* erased only when the chain says that the deal is final, and for a settled
\* deal only when its evidence is on the disk.
UnfinishedKeepsEverything ==
    [][\A s \in Sessions :
        (state[s] # "none" /\ state'[s] = "none") \/ (s \in signingKey /\ s \notin signingKey')
          => chain[s] = "CANCELLED" \/ (chain[s] = "SETTLED" /\ evidence[s] = "good")]_vars

\* A record that says CLEANED tells the truth, and no late write of a runtime or
\* of another finalization brings the secrets back.
CleanedMeansErased ==
    \A s \in Sessions : phase[s] = "CLEANED" => state[s] = "none" /\ s \notin signingKey

\* A record without an address is skipped by every recovery (NO_CONTRACT).
\* Nothing that is final is skipped that way: the peer learns the address only
\* after the record has it.
UnnamedIsUnfinished ==
    \A s \in Sessions : state[s] # "none" /\ s \notin named => chain[s] = "WAITING_SELLER"

\* Once a deal is final, the session is cleaned in the end, by whichever
\* finalization gets through, however the earlier ones ended.
EventuallyCleaned == \A s \in Sessions : chain[s] \in Final ~> phase[s] = "CLEANED"
=============================================================================
