---------------------------- MODULE LifecycleProofs ---------------------------
(***************************************************************************)
(* Proofs about KeyStore and Lifecycle.                                    *)
(*                                                                         *)
(* For any number of processes and roles: a key that was used stays in the *)
(* store.  What makes it inductive is that at most one process writes an   *)
(* account's key, the one whose exclusive creation made the empty file.    *)
(*                                                                         *)
(* For any number of resets and failures: no runtime is told CHAIN_FUNDED  *)
(* before a transfer to it was submitted, and no key that was used is      *)
(* lost.  The funding crosses three processes, so the invariant says what  *)
(* each of them may rely on: a funder that came so far paid the runtimes   *)
(* of its controller that still run, and a controller's runtimes are       *)
(* started once, so none of them begins after its transfer.                *)
(***************************************************************************)
EXTENDS Lifecycle, TLAPS

-----------------------------------------------------------------------------
(* The key store alone. *)

\* A process writes the key of the empty file it alone created.
OneWriter ==
    \A p \in Processes : step[p] = "write" =>
        /\ stored[Account(p)] = Unwritten
        /\ \A q \in Processes : step[q] = "write" /\ Account(q) = Account(p) => q = p

\* The second key is asked for when the first one is there.
FirstKeyFirst ==
    \A p \in Processes :
        purpose[p] = "private-state" => used[<<RoleOf[p], "evidence">>] # {}

KeyInv == KeyTypeOK /\ UsedIsStored /\ OneWriter /\ FirstKeyFirst

\* The account a process asks for is one of the store's.
LEMMA AccountIsAccount ==
    ASSUME KeyTypeOK, NEW p \in Processes
    PROVE  Account(p) \in Accounts
  BY RoleOfIsFunction DEF Account, Accounts, KeyTypeOK

\* The store begins with what an earlier run left, and nobody used it yet.
LEMMA KeyInitInv == KeyInit => KeyInv
  BY RoleOfIsFunction DEF KeyInit, KeyInv, KeyTypeOK, UsedIsStored, OneWriter, FirstKeyFirst,
     Keys, Modes, Steps, Purposes

\* A key that is read is in the store, and stays the only one of its account.
LEMMA GetsKeeps ==
    ASSUME KeyInv, NEW p \in Processes, step[p] \in {"read", "reread"}, Gets(p)
    PROVE  KeyInv'
<1> DEFINE a == Account(p)
<1>1. a \in Accounts
  BY AccountIsAccount DEF KeyInv
<1>2. /\ used' = [used EXCEPT ![a] = @ \cup {stored[a]}]
      /\ stored[a] \in Keys
      /\ stored' = stored /\ mode' = mode
  BY DEF Gets
<1>3. purpose[p] \in Purposes
  BY DEF KeyInv, KeyTypeOK
<1>4. used \in [Accounts -> SUBSET Keys] /\ used' \in [Accounts -> SUBSET Keys]
  BY <1>1, <1>2 DEF KeyInv, KeyTypeOK
<1>5. \A b \in Accounts : used[b] \subseteq used'[b]
  BY <1>1, <1>2, <1>4
<1>6. used'[a] # {}
  BY <1>1, <1>2, <1>4
<1>7. /\ step' \in [Processes -> Steps] /\ purpose' \in [Processes -> Purposes]
      /\ step'[p] \in {"read", "prepared"}
      /\ \A q \in Processes \ {p} : step'[q] = step[q] /\ purpose'[q] = purpose[q]
      /\ step'[p] = "prepared" => purpose[p] = "private-state"
      /\ purpose'[p] = "private-state"
  BY <1>3 DEF Gets, KeyInv, KeyTypeOK, Steps, Purposes
<1>8. \A q \in Processes, u \in Purposes : <<RoleOf[q], u>> \in Accounts
  BY RoleOfIsFunction DEF Accounts
<1>9. used'[<<RoleOf[p], "evidence">>] # {}
  <2>1. CASE purpose[p] = "evidence"
    BY <1>6, <2>1 DEF Account
  <2>2. CASE purpose[p] = "private-state"
    BY <1>5, <1>8, <2>2 DEF KeyInv, FirstKeyFirst, Purposes
  <2> QED
    BY <1>3, <2>1, <2>2 DEF Purposes
<1>10. KeyTypeOK'
  <2>1. ASSUME NEW q \in Processes, step'[q] = "prepared", NEW u \in Purposes
        PROVE  used'[<<RoleOf[q], u>>] # {}
    <3>1. CASE q = p
      <4>1. purpose[p] = "private-state"
        BY <1>7, <2>1, <3>1
      <4>2. used'[<<RoleOf[p], "private-state">>] # {}
        BY <1>6, <4>1 DEF Account
      <4> QED
        BY <1>9, <3>1, <4>2 DEF Purposes
    <3>2. CASE q # p
      BY <1>5, <1>7, <1>8, <2>1, <3>2 DEF KeyInv, KeyTypeOK
    <3> QED
      BY <3>1, <3>2
  <2> QED
    BY <1>2, <1>4, <1>7, <2>1 DEF KeyInv, KeyTypeOK
<1>11. UsedIsStored'
  BY <1>1, <1>2, <1>4 DEF KeyInv, UsedIsStored
<1>12. OneWriter'
  BY <1>2, <1>7 DEF KeyInv, OneWriter, Account
<1>13. FirstKeyFirst'
  BY <1>5, <1>7, <1>8, <1>9 DEF KeyInv, FirstKeyFirst, Purposes
<1> QED
  BY <1>10, <1>11, <1>12, <1>13 DEF KeyInv

\* A step that changes no key, and lets no process write, keeps everything.
LEMMA QuietKeeps ==
    ASSUME KeyInv, NEW p \in Processes,
           mode' = mode, stored' = stored, used' = used,
           NEW s \in Steps \ {"write", "prepared"}, step' = [step EXCEPT ![p] = s],
           \/ purpose' = purpose
           \/ purpose' = [purpose EXCEPT ![p] = "evidence"]
    PROVE  KeyInv'
<1>1. /\ step' \in [Processes -> Steps] /\ purpose' \in [Processes -> Purposes]
      /\ \A q \in Processes : step'[q] \in {"write", "prepared"} => step[q] = step'[q] /\ q # p
      /\ \A q \in Processes \ {p} : purpose'[q] = purpose[q]
      /\ \A q \in Processes : purpose'[q] = "private-state" => purpose[q] = "private-state"
  BY DEF KeyInv, KeyTypeOK, Purposes
<1>2. KeyTypeOK'
  BY <1>1 DEF KeyInv, KeyTypeOK
<1>3. UsedIsStored'
  BY DEF KeyInv, UsedIsStored
<1>4. OneWriter'
  BY <1>1 DEF KeyInv, OneWriter, Account
<1>5. FirstKeyFirst'
  BY <1>1 DEF KeyInv, FirstKeyFirst
<1> QED
  BY <1>2, <1>3, <1>4, <1>5 DEF KeyInv

\* A key is put where none was used: the account was empty, or its file was.
LEMMA StoreKeeps ==
    ASSUME KeyInv, NEW p \in Processes,
           NEW k \in Keys \cup {Unwritten},
           stored[Account(p)] \in {NoKey, Unwritten},
           stored' = [stored EXCEPT ![Account(p)] = k],
           NEW s \in {"write", "reread"}, step' = [step EXCEPT ![p] = s],
           s = "write" => stored[Account(p)] = NoKey /\ k = Unwritten,
           \A q \in Processes : step[q] = "write" /\ Account(q) = Account(p) => q = p,
           UNCHANGED <<mode, purpose, used>>
    PROVE  KeyInv'
<1> DEFINE a == Account(p)
<1>1. a \in Accounts
  BY AccountIsAccount DEF KeyInv
<1>2. used[a] = {}
  BY <1>1, NoKeyIsNoKey DEF KeyInv, KeyTypeOK, UsedIsStored
<1>3. step' \in [Processes -> Steps] /\ step'[p] = s /\ \A q \in Processes \ {p} : step'[q] = step[q]
  BY DEF KeyInv, KeyTypeOK, Steps
<1>4. /\ stored' \in [Accounts -> Keys \cup {NoKey, Unwritten}]
      /\ stored'[a] = k /\ \A b \in Accounts \ {a} : stored'[b] = stored[b]
  BY <1>1 DEF KeyInv, KeyTypeOK
<1>5. KeyTypeOK'
  BY <1>3, <1>4 DEF KeyInv, KeyTypeOK
<1>6. UsedIsStored'
  BY <1>2, <1>4 DEF KeyInv, UsedIsStored
<1>7. OneWriter'
  <2> SUFFICES ASSUME NEW q \in Processes, step'[q] = "write"
               PROVE  /\ stored'[Account(q)] = Unwritten
                      /\ \A r \in Processes :
                            step'[r] = "write" /\ Account(r) = Account(q) => r = q
    BY DEF OneWriter, Account
  <2>1. CASE q = p
    BY <1>3, <1>4, <2>1
  <2>2. CASE q # p
    <3>1. step[q] = "write"
      BY <1>3, <2>2
    <3>2. Account(q) # a
      BY <2>2, <3>1
    <3>3. Account(q) \in Accounts
      BY AccountIsAccount DEF KeyInv
    <3> QED
      BY <1>3, <1>4, <3>1, <3>2, <3>3 DEF KeyInv, OneWriter
  <2> QED
    BY <2>1, <2>2
<1>8. FirstKeyFirst'
  BY DEF KeyInv, FirstKeyFirst
<1> QED
  BY <1>5, <1>6, <1>7, <1>8 DEF KeyInv

\* Every step of getOrCreateKey keeps the invariant.
LEMMA KeyStepKeeps ==
    ASSUME KeyInv, NEW p \in Processes, GetOrCreateKey(p)
    PROVE  KeyInv'
<1> USE DEF Steps
<1>1. CASE ReadKey(p) \/ Reread(p)
  BY <1>1, GetsKeeps, QuietKeeps DEF ReadKey, Reread, Rejects
<1>2. CASE FindsNone(p)
  BY <1>2, QuietKeeps DEF FindsNone, Goes
<1>3. CASE CreateFile(p)
  <2>1. CASE CreatesNew(p)
    <3>1. \A q \in Processes : step[q] = "write" /\ Account(q) = Account(p) => q = p
      BY <2>1, NoKeyIsNoKey DEF CreatesNew, KeyInv, OneWriter
    <3> QED
      BY <1>3, <2>1, <3>1, StoreKeeps DEF CreateFile, CreatesNew, Goes
  <2>2. CASE ~CreatesNew(p)
    BY <1>3, <2>2, QuietKeeps DEF CreateFile, Goes
  <2> QED
    BY <2>1, <2>2
<1>4. CASE WriteKey(p)
  <2>1. /\ stored[Account(p)] = Unwritten
        /\ \A q \in Processes : step[q] = "write" /\ Account(q) = Account(p) => q = p
    BY <1>4 DEF WriteKey, Goes, KeyInv, OneWriter
  <2> QED
    BY <1>4, <2>1, StoreKeeps DEF WriteKey, Goes, Keys
<1>5. CASE AddItem(p)
  <2>1. CASE stored[Account(p)] = NoKey
    <3>1. \A q \in Processes : step[q] = "write" /\ Account(q) = Account(p) => q = p
      BY <2>1, NoKeyIsNoKey DEF KeyInv, OneWriter
    <3> QED
      BY <1>5, <2>1, <3>1, StoreKeeps DEF AddItem, Goes, Keys
  <2>2. CASE stored[Account(p)] # NoKey
    BY <1>5, <2>2, QuietKeeps DEF AddItem, Goes
  <2> QED
    BY <2>1, <2>2
<1> QED
  BY <1>1, <1>2, <1>3, <1>4, <1>5 DEF GetOrCreateKey

\* A step of any process, or of none, keeps the invariant.
LEMMA KeyNextKeeps == KeyInv /\ [KeyNext]_keyVars => KeyInv'
<1> SUFFICES ASSUME KeyInv, [KeyNext]_keyVars
             PROVE  KeyInv'
  OBVIOUS
<1> USE DEF Steps
<1>1. CASE UNCHANGED keyVars
  BY <1>1 DEF keyVars, KeyInv, KeyTypeOK, UsedIsStored, OneWriter, FirstKeyFirst, Account
<1>2. ASSUME NEW p \in Processes, Prepare(p) \/ StoreFails(p) \/ Ends(p)
      PROVE  KeyInv'
  BY <1>2, QuietKeeps DEF Prepare, StoreFails, Ends, Goes
<1>3. ASSUME NEW p \in Processes, GetOrCreateKey(p)
      PROVE  KeyInv'
  BY <1>3, KeyStepKeeps
<1> QED
  BY <1>1, <1>2, <1>3 DEF KeyNext

\* Every variable keeps its type, and a prepared process got both keys.
THEOREM KeyTypeCorrect == KeySpec => []KeyTypeOK
<1>1. KeyInv => KeyTypeOK
  BY DEF KeyInv
<1> QED
  BY KeyInitInv, KeyNextKeeps, <1>1, PTL DEF KeySpec

\* A key that any process got stays the key of its account, through races of
\* any number of processes, failures and crashes, in both backends.
THEOREM UsedKeysStay == KeySpec => []UsedIsStored
<1>1. KeyInv => UsedIsStored
  BY DEF KeyInv
<1> QED
  BY KeyInitInv, KeyNextKeeps, <1>1, PTL DEF KeySpec

-----------------------------------------------------------------------------
(* The processes that use it. *)

\* The runtimes of a controller that did not fork them yet.
Fresh ==
    \A p \in Processes :
        p[2] > generation \/ (p[2] = generation /\ server = "services") => step[p] = "new"

\* A funder is started when both runtimes of its controller have announced.
FunderKnows ==
    \A g \in Generations : funder[g] # "none" => \A p \in Children(g) : step[p] # "new"

\* A funder between its transfers paid its first recipient, one that answered
\* paid both.
HalfwayPaid ==
    \A g \in Generations : funder[g] = "halfway" =>
        \A p \in FirstRecipient(g) : Running(p) => p \in paid

AnsweredPaid ==
    \A g \in Generations : funder[g] = "answered" =>
        \A p \in Children(g) : Running(p) => p \in paid

\* A reset is under way only when there is a controller left to start.
RoomToReset == after = "start" => generation < MaxGenerations

Funding ==
    Fresh /\ RoomToReset /\ FunderKnows /\ HalfwayPaid /\ AnsweredPaid /\ ToldIsPaid

LifeInv == LifecycleTypeOK /\ KeyInv /\ Funding

\* A process names its generation.
LEMMA GenerationOf ==
    /\ \A p \in Processes : p[2] \in Generations
    /\ \A g \in Generations : Children(g) = {p \in Processes : p[2] = g}
    /\ Generations \subseteq Nat /\ MaxGenerations \in Nat
  BY ChildrenAreProcesses, LifecycleBounds DEF Generations, Children

\* Nothing runs and nothing is funded at the start.
LEMMA LifeInitInv == Init => LifeInv
<1> SUFFICES ASSUME Init PROVE LifeInv
  OBVIOUS
<1>1. KeyInv
  BY KeyInitInv DEF Init
<1>2. LifecycleTypeOK
  <2>1. /\ generation \in Generations /\ faults \in 0..MaxFaults
        /\ funder \in [Generations ->
                {"none", "running", "halfway", "answered", "done", "failed"}]
    BY LifecycleBounds DEF Init, Generations
  <2>2. /\ wallet \in [Processes -> {"keys", "announced", "usable", "rejected", "gone"}]
        /\ \A p \in Processes : wallet[p] = "keys"
    BY DEF Init
  <2>3. children \cup killed \cup leaving \cup granted \cup addresses \cup paid = {}
    BY DEF Init
  <2> QED
    BY <1>1, <2>1, <2>2, <2>3 DEF Init, KeyInv, LifecycleTypeOK
<1>3. Funding
  BY DEF Init, KeyInit, Funding, Fresh, RoomToReset, FunderKnows, HalfwayPaid, AnsweredPaid,
         FirstRecipient, ToldIsPaid, Running
<1> QED
  BY <1>1, <1>2, <1>3 DEF LifeInv

\* getOrCreateKey moves a runtime that runs and has no wallet yet, and leaves it
\* running.
LEMMA KeyStepRuns ==
    ASSUME KeyTypeOK, NEW p \in Processes, GetOrCreateKey(p)
    PROVE  /\ step[p] \in {"read", "create", "write", "reread"}
           /\ step'[p] \notin {"new", "ended"}
           /\ \A q \in Processes \ {p} : step'[q] = step[q]
  BY DEF GetOrCreateKey, ReadKey, Reread, Gets, Rejects, FindsNone, CreateFile, WriteKey, AddItem,
     Goes, KeyTypeOK, CreatesNew

\* A step of a runtime at its key store keeps the invariant of the life cycle.
LEMMA OpensKeyStoreKeeps ==
    ASSUME LifeInv, NEW p \in Processes, OpensKeyStore(p)
    PROVE  LifeInv'
<1>1. KeyInv'
  BY KeyStepKeeps DEF LifeInv, OpensKeyStore
<1>2. /\ step[p] \in {"read", "create", "write", "reread"}
      /\ step'[p] \notin {"new", "ended"}
      /\ \A q \in Processes \ {p} : step'[q] = step[q]
  BY KeyStepRuns DEF LifeInv, LifecycleTypeOK, OpensKeyStore
<1>3. UNCHANGED <<controller, runtimes, funder, paid, faults>>
  BY DEF OpensKeyStore
<1>4. LifecycleTypeOK'
  BY <1>1, <1>2, <1>3 DEF LifeInv, LifecycleTypeOK, KeyInv, controller, runtimes
<1>5. Funding'
  BY <1>2, <1>3, GenerationOf
  DEF LifeInv, LifecycleTypeOK, Funding, Fresh, RoomToReset, FunderKnows, HalfwayPaid,
         AnsweredPaid, FirstRecipient, ToldIsPaid, Running, controller, runtimes, Children
<1> QED
  BY <1>1, <1>4, <1>5 DEF LifeInv

\* The key store is left alone.
LEMMA KeysUnchanged == ASSUME KeyInv, UNCHANGED keyVars PROVE KeyInv' /\ step' = step
  BY DEF keyVars, KeyInv, KeyTypeOK, UsedIsStored, OneWriter, FirstKeyFirst, Account

\* Steps of a runtime that leave the key store alone.
LEMMA RuntimeStepsKeep ==
    ASSUME LifeInv, NEW p \in Processes,
           AnnounceWallet(p) \/ PrepareWallet(p) \/ StorageFails(p)
    PROVE  LifeInv'
<1> USE DEF LifeInv
<1>1. UNCHANGED keyVars
  BY DEF AnnounceWallet, PrepareWallet, StorageFails
<1>2. KeyInv' /\ step' = step
  BY <1>1, KeysUnchanged
<1> USE DEF LifecycleTypeOK, Funding, Fresh, RoomToReset, FunderKnows, HalfwayPaid, AnsweredPaid,
       FirstRecipient, ToldIsPaid, Running
<1>3. CASE AnnounceWallet(p)
  <2>1. LifecycleTypeOK'
    <3>1. KeyTypeOK' /\ step' = step
      BY <1>2 DEF KeyInv
    <3>2. LifecycleTypeOK /\ step[p] = "prepared"
      BY <1>3 DEF AnnounceWallet
    <3> HIDE DEF LifeInv
    <3>3. wallet' \in [Processes -> {"keys", "announced", "usable", "rejected", "gone"}]
          /\ \A q \in Processes : wallet'[q] \in {"announced", "usable"} => step[q] = "prepared"
      BY <1>3, <3>2 DEF AnnounceWallet, WalletGoes
    <3>4. funder' \in [Generations -> {"none", "running", "halfway", "answered", "done", "failed"}]
      BY <1>3, <3>2 DEF AnnounceWallet, AcceptWallet
    <3> QED
      BY <1>3, <3>1, <3>2, <3>3, <3>4 DEF AnnounceWallet, AcceptWallet
  <2>2. Funding'
    BY <1>2, <1>3, GenerationOf DEF AnnounceWallet, WalletGoes, AcceptWallet
  <2> QED
    BY <1>2, <2>1, <2>2
<1>4. CASE PrepareWallet(p)
  <2>1. LifecycleTypeOK'
    BY <1>2, <1>4 DEF PrepareWallet, WalletGoes, KeyInv, controller
  <2>2. Funding'
    BY <1>2, <1>4, GenerationOf DEF PrepareWallet, WalletGoes, controller
  <2> QED
    BY <1>2, <2>1, <2>2
<1>5. CASE StorageFails(p)
  <2>1. LifecycleTypeOK'
    BY <1>2, <1>5 DEF StorageFails, BootRejects, Reports, KeyInv
  <2>2. Funding'
    BY <1>2, <1>5, GenerationOf DEF StorageFails, BootRejects
  <2> QED
    BY <1>2, <2>1, <2>2
<1> QED
  BY <1>3, <1>4, <1>5

\* Steps of the funder.
LEMMA FunderStepsKeep ==
    ASSUME LifeInv, NEW g \in Generations, FunderPays(g) \/ FunderAnswers(g) \/ FunderFails(g)
    PROVE  LifeInv'
<1> USE DEF LifeInv
<1>1. UNCHANGED keyVars
  BY DEF FunderPays, FunderAnswers, Submits, FunderFails
<1>2. KeyInv' /\ step' = step
  BY <1>1, KeysUnchanged
<1> USE DEF LifecycleTypeOK, Funding, Fresh, FunderKnows, HalfwayPaid, AnsweredPaid,
       FirstRecipient, ToldIsPaid, RoomToReset, Running
<1>3. CASE FunderPays(g) \/ FunderAnswers(g)
  <2>1. LifecycleTypeOK'
    BY <1>2, <1>3
    DEF FunderPays, FunderAnswers, Submits, NextRecipient, Children, KeyInv, controller, runtimes
  <2>2. Funding'
    BY <1>2, <1>3, GenerationOf
    DEF FunderPays, FunderAnswers, Submits, NextRecipient, controller, runtimes
  <2> QED
    BY <1>2, <2>1, <2>2
<1>4. CASE FunderFails(g)
  <2>1. LifecycleTypeOK'
    BY <1>2, <1>4, LifecycleBounds DEF FunderFails, Fault, Reports, KeyInv, runtimes
  <2>2. Funding'
    BY <1>2, <1>4, GenerationOf DEF FunderFails, runtimes
  <2> QED
    BY <1>2, <2>1, <2>2
<1> QED
  BY <1>3, <1>4

\* A call of a runtime fails, or the runtime ends.
LEMMA FailuresKeep ==
    ASSUME LifeInv, NEW p \in Processes, BootFails(p) \/ RuntimeEnds(p)
    PROVE  LifeInv'
<1> USE DEF LifeInv
<1>1. CASE BootFails(p)
  <2>1. KeyInv' /\ step' \in {step, [step EXCEPT ![p] = "failed"]}
    BY <1>1, KeyNextKeeps, KeysUnchanged DEF BootFails, KeyNext, StoreFails
  <2>2. step' = step \/ (step[p] \in {"read", "create", "write", "reread"} /\ wallet[p] = "keys")
    BY <1>1, KeysUnchanged DEF BootFails, StoreFails, Working
  <2>3. \A q \in Processes \ {p} : step'[q] = step[q]
    BY <2>1 DEF LifecycleTypeOK, KeyTypeOK
  <2>4. step'[p] = "new" <=> step[p] = "new"
    BY <2>1, <2>2 DEF LifecycleTypeOK, KeyTypeOK
  <2>5. LifecycleTypeOK'
    <3>1. KeyTypeOK' /\ wallet' = [wallet EXCEPT ![p] = "rejected"] /\ faults' \in 0..MaxFaults
      BY <1>1, <2>1, LifecycleBounds DEF BootFails, BootRejects, Fault, KeyInv, LifecycleTypeOK
    <3>2. /\ generation' = generation /\ server' = server /\ after' = after
          /\ funder' = funder /\ reported' \in BOOLEAN
          /\ UNCHANGED <<children, killed, leaving, granted, addresses, paid>>
      BY <1>1 DEF BootFails, BootRejects, Reports, LifecycleTypeOK
    <3> QED
      BY <2>3, <2>4, <3>1, <3>2 DEF LifecycleTypeOK
  <2>6. Funding'
    BY <1>1, <2>1, <2>2, GenerationOf
    DEF BootFails, BootRejects, LifecycleTypeOK, KeyTypeOK, Funding, Fresh, RoomToReset,
           FunderKnows, HalfwayPaid, AnsweredPaid, FirstRecipient, ToldIsPaid, Running
  <2> QED
    BY <2>1, <2>5, <2>6
<1>2. CASE RuntimeEnds(p)
  <2>1. KeyInv' /\ step' = [step EXCEPT ![p] = "ended"] /\ Running(p)
    BY <1>2, KeyNextKeeps DEF RuntimeEnds, KeyNext, Ends
  <2>2. LifecycleTypeOK'
    BY <1>2, <2>1, LifecycleBounds
    DEF RuntimeEnds, Fault, controller, LifecycleTypeOK, KeyInv, KeyTypeOK
  <2>3. Funding'
    BY <1>2, <2>1, GenerationOf
    DEF RuntimeEnds, controller, LifecycleTypeOK, KeyTypeOK, Funding, Fresh, RoomToReset,
           FunderKnows, HalfwayPaid, AnsweredPaid, FirstRecipient, ToldIsPaid, Running
  <2> QED
    BY <2>1, <2>2, <2>3
<1> QED
  BY <1>1, <1>2

\* The runtimes of a controller are forked once, so none is funded or told yet.
LEMMA ForkRuntimesKeeps == ASSUME LifeInv, ForkRuntimes PROVE LifeInv'
<1> USE DEF LifeInv
<1>1. \A p \in Children(generation) : step[p] = "new"
  BY GenerationOf DEF ForkRuntimes, Funding, Fresh, RoomToReset, LifecycleTypeOK
<1>2. /\ step' = [p \in Processes |-> IF p \in Children(generation) THEN "read" ELSE step[p]]
      /\ step' \in [Processes -> Steps]
      /\ UNCHANGED <<mode, stored, purpose, used>>
  BY DEF ForkRuntimes, LifecycleTypeOK, KeyTypeOK, Steps
<1>3. \A p \in Processes :
         /\ step'[p] # step[p] => step[p] = "new" /\ step'[p] = "read" /\ p[2] = generation
         /\ step'[p] \in {"write", "prepared"} => step[p] = step'[p]
  BY <1>1, <1>2 DEF Children
<1>4. KeyInv'
  BY <1>2, <1>3 DEF KeyInv, KeyTypeOK, UsedIsStored, OneWriter, FirstKeyFirst, Account
<1>5. LifecycleTypeOK'
  <2>1. \A p \in Processes : step[p] # "new" => step'[p] # "new"
    BY <1>3
  <2>2. children' \subseteq {p \in Processes : step'[p] # "new"}
    BY <1>2, <2>1 DEF ForkRuntimes, Children, LifecycleTypeOK
  <2> QED
    BY <1>3, <1>4, <2>1, <2>2 DEF ForkRuntimes, KeyInv, LifecycleTypeOK, runtimes
<1>6. Funding'
  <2>1. Fresh' /\ RoomToReset'
    BY <1>3, GenerationOf DEF ForkRuntimes, Funding, Fresh, RoomToReset, LifecycleTypeOK
  <2>2. FunderKnows'
    BY <1>3, GenerationOf DEF ForkRuntimes, Funding, FunderKnows
  <2>3. HalfwayPaid' /\ AnsweredPaid'
    BY <1>3, GenerationOf DEF ForkRuntimes, Funding, FunderKnows, HalfwayPaid, AnsweredPaid,
           FirstRecipient, Running
  <2>4. ToldIsPaid'
    BY <1>3 DEF ForkRuntimes, Funding, ToldIsPaid, Running, runtimes,
       LifecycleTypeOK
  <2> QED
    BY <2>1, <2>2, <2>3, <2>4 DEF Funding
<1> QED
  BY <1>4, <1>5, <1>6

\* The other steps of the controller.
LEMMA ControllerKeeps ==
    ASSUME LifeInv,
           \/ Serve \/ StartFails \/ Reset \/ Close \/ FinishShutdown
           \/ \E p \in Processes : NoticeExit(p)
           \/ \E g \in Generations : FundingComplete(g)
    PROVE  LifeInv'
<1> USE DEF LifeInv
<1>1. UNCHANGED keyVars
  BY DEF Serve, StartFails, Reset, Close, FinishShutdown, NoticeExit, FundingComplete
<1>2. KeyInv' /\ step' = step
  BY <1>1, KeysUnchanged
<1> USE DEF LifecycleTypeOK, Running
<1>3. CASE Serve
  <2>1. LifecycleTypeOK'
    BY <1>2, <1>3 DEF Serve, KeyInv, runtimes
  <2>2. Funding'
    BY <1>2, <1>3, GenerationOf DEF Serve, runtimes, Funding, Fresh, RoomToReset, FunderKnows,
           HalfwayPaid, AnsweredPaid, FirstRecipient, ToldIsPaid
  <2> QED
    BY <1>2, <2>1, <2>2
<1>4. CASE StartFails \/ Reset \/ Close
  <2>1. LifecycleTypeOK'
    BY <1>2, <1>4, LifecycleBounds DEF StartFails, Reset, Close, BeginShutdown, Fault, KeyInv
  <2>2. Funding'
    BY <1>2, <1>4, GenerationOf DEF StartFails, Reset, Close, BeginShutdown, Funding, Fresh,
           RoomToReset, FunderKnows, HalfwayPaid, AnsweredPaid, FirstRecipient, ToldIsPaid
  <2> QED
    BY <1>2, <2>1, <2>2
<1>5. CASE FinishShutdown
  <2>1. /\ generation' \in Generations
        /\ generation' = generation \/ (generation' = generation + 1 /\ server' = "services")
        /\ generation' = generation => server' \in {"ended", "unattached"}
        /\ server' \in {"services", "ended", "unattached"} /\ after' = "none"
    BY <1>5, LifecycleBounds DEF FinishShutdown, Funding, RoomToReset, Generations
  <2>2. LifecycleTypeOK'
    <3>1. KeyTypeOK' /\ step' = step
      BY <1>2 DEF KeyInv
    <3>2. funder' \in [Generations -> {"none", "running", "halfway", "answered", "done", "failed"}]
      BY <1>5 DEF FinishShutdown
    <3>3. killed' \subseteq killed \cup children /\ children' \subseteq children
            /\ addresses' \subseteq addresses /\ reported' = FALSE
            /\ UNCHANGED <<leaving, wallet, granted, paid, faults>>
      BY <1>5 DEF FinishShutdown
    <3>4. LifecycleTypeOK
      OBVIOUS
    <3> HIDE DEF LifeInv
    <3>5. children' \cup killed' \cup leaving' \cup granted' \cup addresses' \cup paid'
            \subseteq {p \in Processes : step'[p] # "new"}
      BY <3>1, <3>3, <3>4
    <3> HIDE DEF LifecycleTypeOK
    <3>6. /\ wallet \in [Processes -> {"keys", "announced", "usable", "rejected", "gone"}]
          /\ faults \in 0..MaxFaults
          /\ \A p \in Processes : wallet[p] \in {"announced", "usable"} => step[p] = "prepared"
      BY <3>4 DEF LifecycleTypeOK
    <3> QED
      BY <2>1, <3>1, <3>2, <3>3, <3>5, <3>6 DEF LifecycleTypeOK
  <2>3. Fresh' /\ RoomToReset'
    <3>1. Fresh /\ generation \in Nat /\ step' = step
      BY <1>2, GenerationOf DEF Funding
    <3> HIDE DEF LifeInv
    <3>2. ASSUME NEW p \in Processes,
                 p[2] > generation' \/ (p[2] = generation' /\ server' = "services")
          PROVE  step'[p] = "new"
      <4>1. p[2] \in Nat
        BY GenerationOf
      <4>2. p[2] > generation
        BY <2>1, <3>1, <3>2, <4>1
      <4> QED
        BY <3>1, <4>2 DEF Fresh
    <3> QED
      BY <2>1, <3>2 DEF Fresh, RoomToReset
  <2>4. FunderKnows' /\ HalfwayPaid' /\ AnsweredPaid' /\ ToldIsPaid'
    BY <1>2, <1>5, GenerationOf DEF FinishShutdown, Funding, FunderKnows, HalfwayPaid,
           AnsweredPaid, FirstRecipient, ToldIsPaid
  <2> QED
    BY <1>2, <2>2, <2>3, <2>4 DEF Funding
<1>6. ASSUME NEW p \in Processes, NoticeExit(p)
      PROVE  LifeInv'
  <2>1. LifecycleTypeOK'
    BY <1>2, <1>6 DEF NoticeExit, KeyInv, runtimes
  <2>2. Funding'
    BY <1>2, <1>6, GenerationOf DEF NoticeExit, runtimes, Funding, Fresh, RoomToReset,
           FunderKnows, HalfwayPaid, AnsweredPaid, FirstRecipient, ToldIsPaid
  <2> QED
    BY <1>2, <2>1, <2>2
<1>7. ASSUME NEW g \in Generations, FundingComplete(g)
      PROVE  LifeInv'
  <2>1. LifecycleTypeOK'
    BY <1>2, <1>7 DEF FundingComplete, Grants, FirstRecipient, KeyInv, Funded
  <2>2. Fresh' /\ RoomToReset' /\ FunderKnows' /\ HalfwayPaid' /\ AnsweredPaid'
    BY <1>2, <1>7, GenerationOf DEF FundingComplete, Funding, Fresh, RoomToReset, FunderKnows,
           HalfwayPaid, AnsweredPaid, FirstRecipient
  <2>3. ToldIsPaid'
    BY <1>2, <1>7, GenerationOf, ChildrenAreProcesses
    DEF FundingComplete, Grants, Funded, Funding, HalfwayPaid, AnsweredPaid, FirstRecipient,
           ToldIsPaid
  <2> QED
    BY <1>2, <2>1, <2>2, <2>3 DEF Funding
<1> QED
  BY <1>3, <1>4, <1>5, <1>6, <1>7

\* Every step of the system keeps the invariant.
LEMMA LifeNextKeeps == LifeInv /\ [Next]_lifeVars => LifeInv'
<1> SUFFICES ASSUME LifeInv, [Next]_lifeVars PROVE LifeInv'
  OBVIOUS
<1>1. CASE UNCHANGED lifeVars
  <2>1. KeyInv' /\ step' = step
    BY <1>1, KeysUnchanged DEF LifeInv, lifeVars
  <2>2. LifecycleTypeOK'
    BY <1>1, <2>1 DEF lifeVars, controller, runtimes, LifeInv, LifecycleTypeOK, KeyInv
  <2>3. Funding'
    BY <1>1, <2>1 DEF lifeVars, controller, runtimes, LifeInv, Funding, Fresh, RoomToReset,
           FunderKnows, HalfwayPaid, AnsweredPaid, FirstRecipient, ToldIsPaid, Running
  <2> QED
    BY <2>1, <2>2, <2>3 DEF LifeInv
<1>2. CASE Controls \/ StartFails \/ Reset \/ Close
  BY <1>2, ControllerKeeps, ForkRuntimesKeeps DEF Controls, Handlers
<1>3. ASSUME NEW p \in Processes, Boots(p) \/ BootFails(p) \/ RuntimeEnds(p)
      PROVE  LifeInv'
  BY <1>3, OpensKeyStoreKeeps, RuntimeStepsKeep, FailuresKeep DEF Boots
<1>4. ASSUME NEW g \in Generations, FunderPays(g) \/ FunderAnswers(g) \/ FunderFails(g)
      PROVE  LifeInv'
  BY <1>4, FunderStepsKeep
<1> QED
  BY <1>1, <1>2, <1>3, <1>4 DEF Next

\* Every variable keeps its type.
THEOREM LifecycleTypeCorrect == Spec => []LifecycleTypeOK
<1>1. LifeInv => LifecycleTypeOK
  BY DEF LifeInv
<1> QED
  BY LifeInitInv, LifeNextKeeps, <1>1, PTL DEF Spec

\* No runtime is told that it is funded before a transfer to it was submitted,
\* over any number of resets, failures, stopped funders and overlapping runtimes.
THEOREM ToldRuntimesArePaid == Spec => []ToldIsPaid
<1>1. LifeInv => ToldIsPaid
  BY DEF LifeInv, Funding
<1> QED
  BY LifeInitInv, LifeNextKeeps, <1>1, PTL DEF Spec

\* The runtimes' key stores keep every key that was used.
THEOREM LifecycleKeepsKeys == Spec => []UsedIsStored
<1>1. LifeInv => UsedIsStored
  BY DEF LifeInv, KeyInv
<1> QED
  BY LifeInitInv, LifeNextKeeps, <1>1, PTL DEF Spec
=============================================================================
