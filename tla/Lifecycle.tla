------------------------------- MODULE Lifecycle ------------------------------
(***************************************************************************)
(* Start, funding, reset and shutdown of the demo on a local chain: the    *)
(* controller process (server and IsolatedRuntimeController), the wallets  *)
(* of the two party runtimes it forks, and the funder.  The runtimes open  *)
(* their key stores as in module KeyStore.                                 *)
(*                                                                         *)
(* Every reset replaces the controller object and forks new runtimes; a    *)
(* process is a role and the generation that forked it.  Nothing but the   *)
(* key store outlives a process.  A shutdown waits for every runtime only  *)
(* so long and then sends it a signal without waiting for its end, so a    *)
(* runtime may overlap with its successor.  Handlers of an old controller  *)
(* object stay attached to the processes it forked.                        *)
(*                                                                         *)
(* A message between a runtime and the controller is handled when it is    *)
(* sent: one that arrives later is the same as one sent later, because     *)
(* neither side looks at the other.  FUNDING_COMPLETE may arrive late.     *)
(* The observer has no wallet and is left out, the relay starts and stops  *)
(* with the services.                                                      *)
(***************************************************************************)
EXTENDS KeyStore

CONSTANTS
    MaxGenerations,  \* bound on the controllers of one server
    MaxFaults        \* bound on failing calls, services and processes

ASSUME LifecycleBounds == MaxGenerations \in Nat \ {0} /\ MaxFaults \in Nat
ASSUME ChildrenAreProcesses ==
    /\ Processes = Roles \X (1..MaxGenerations)
    /\ \A p \in Processes : RoleOf[p] = p[1]

Generations == 1..MaxGenerations
Children(g) == {p \in Processes : p[2] = g}

VARIABLES
    generation,  \* the controller object in use
    server,      \* what the server process is doing
    after,       \* what follows the shutdown under way
    children,    \* the runtimes in #children of their controller
    killed,      \* runtimes, not ended, that were sent a signal
    leaving,     \* runtimes, not ended, that handled SHUTDOWN_RUNTIME
    wallet,      \* process -> how far initializeChainWallet got
    granted,     \* runtimes, not ended, that handled CHAIN_FUNDED
    addresses,   \* #chainWalletAddresses, of every controller
    funder,      \* generation -> its funder
    paid,        \* runtimes, not ended, the funder submitted a transfer to
    reported,    \* the server heard a controller-error of the controller in use
    faults

controller == <<generation, server, after, children, addresses, reported>>
runtimes == <<killed, leaving, wallet, granted>>
lifeVars == <<keyVars, controller, runtimes, funder, paid, faults>>

Init ==
    /\ KeyInit
    /\ generation = 1 /\ server = "services" /\ after = "none"
    /\ children = {} /\ killed = {} /\ leaving = {}
    /\ wallet = [p \in Processes |-> "keys"] /\ granted = {}
    /\ addresses = {} /\ paid = {} /\ reported = FALSE
    /\ funder = [g \in Generations |-> "none"]
    /\ faults = 0

Fault == faults < MaxFaults /\ faults' = faults + 1

Running(p) == step[p] \notin {"new", "ended"}
Alive == server \notin {"crashed", "ended"}

-----------------------------------------------------------------------------
(* What the controller does with a message of a runtime or of the funder. *)

\* A controller-error is heard from attachController until the next shutdown.
Reports(g) ==
    reported' = (reported \/ (g = generation /\ server \in {"forked", "serving"}))

\* CHAIN_WALLET_READY and #tryStartFunder: once, when both addresses are known.
AcceptWallet(p) ==
    /\ addresses' = addresses \cup {p}
    /\ funder' = IF Children(p[2]) \subseteq addresses' /\ funder[p[2]] = "none"
                 THEN [funder EXCEPT ![p[2]] = "running"] ELSE funder

\* The buyer is told, and paid, before the seller.
FirstRecipient(g) == {p \in Children(g) : p[1] = "buyer"}

\* Mutant: only the runtime that waits first is told.
TellsBuyer(g) == FirstRecipient(g)

\* CHAIN_FUNDED goes to both.
Funded(g) == Children(g)

\* A runtime that has ended by then handles nothing.
Grants(told) == granted' = granted \cup {p \in told : Running(p)}

\* FUNDING_COMPLETE.  #send throws for a runtime that is gone, and no handler
\* of this message catches it: the process ends.
FundingComplete(g) ==
    /\ funder[g] = "answered"
    /\ funder' = [funder EXCEPT ![g] = "done"]
    /\ IF Funded(g) \subseteq children
       THEN Grants(Funded(g)) /\ UNCHANGED server
       ELSE Grants(FirstRecipient(g) \cap children) /\ server' = "crashed"
    /\ UNCHANGED <<keyVars, generation, after, children, addresses, reported, killed, leaving,
                   wallet, paid, faults>>

\* The exit handler of a runtime; nobody listens to the runtime-exit event.
NoticeExit(p) ==
    /\ p \in children /\ step[p] = "ended"
    /\ children' = children \ {p}
    /\ UNCHANGED <<keyVars, generation, server, after, addresses, reported, runtimes, funder,
                   paid, faults>>

-----------------------------------------------------------------------------
(* The runtimes. *)

\* A step of prepareRoleStorage.
OpensKeyStore(p) ==
    /\ GetOrCreateKey(p)
    /\ UNCHANGED <<controller, runtimes, funder, paid, faults>>

WalletGoes(p, from, to) ==
    Running(p) /\ wallet[p] = from /\ wallet' = [wallet EXCEPT ![p] = to]

\* Both keys are there.  What the recovery of older sessions does is in module
\* SessionFinalize, and its failure is caught: the wallet is announced anyway.
AnnounceWallet(p) ==
    /\ step[p] = "prepared"
    /\ WalletGoes(p, "keys", "announced")
    /\ AcceptWallet(p)
    /\ UNCHANGED <<keyVars, generation, server, after, children, reported, killed, leaving,
                   granted, paid, faults>>

\* waitForWalletFunds: the balance is positive some time after the transfer was
\* submitted, and nothing bounds that time.
HasFunds(p) == p \in paid

\* The wallet is built, awaits chainFunded and its balance, and is registered for
\* fees.
PrepareWallet(p) ==
    /\ p \in granted /\ HasFunds(p)
    /\ WalletGoes(p, "announced", "usable")
    /\ UNCHANGED <<keyVars, controller, killed, leaving, granted, funder, paid, faults>>

\* initializeChainWallet rejects, and the process goes on without a wallet.
\* RUNTIME_BOOT_FAILED is reported.
BootRejects(p) ==
    /\ wallet' = [wallet EXCEPT ![p] = "rejected"]
    /\ Reports(p[2])
    /\ UNCHANGED <<generation, server, after, children, addresses, killed, leaving, granted,
                   funder, paid>>

\* The key store rejected what it found there.
StorageFails(p) ==
    step[p] = "failed" /\ wallet[p] = "keys" /\ BootRejects(p) /\ UNCHANGED <<keyVars, faults>>

\* A call of the key store or of the wallet fails.
BootFails(p) ==
    /\ \/ Running(p) /\ wallet[p] = "announced" /\ UNCHANGED keyVars
       \/ wallet[p] = "keys" /\ StoreFails(p)
    /\ Fault /\ BootRejects(p)

\* SHUTDOWN_RUNTIME waits for chainWalletPromise, which settles only when the
\* wallet is usable or has failed.
MayLeave(p) == wallet[p] \in {"usable", "rejected"}

\* A runtime ends after SHUTDOWN_RUNTIME, by a signal, or on its own.
RuntimeEnds(p) ==
    /\ Running(p)
    /\ \/ ((p \in leaving /\ MayLeave(p)) \/ p \in killed) /\ UNCHANGED faults
       \/ Fault
    /\ Ends(p)
    /\ wallet' = [wallet EXCEPT ![p] = "gone"]
    /\ killed' = killed \ {p} /\ leaving' = leaving \ {p} /\ granted' = granted \ {p}
    /\ paid' = paid \ {p}
    /\ UNCHANGED <<controller, funder>>

-----------------------------------------------------------------------------
(* The funder, an own process. *)

\* Mutant: the buyer is paid twice.
SameRecipient(g) == FirstRecipient(g)

NextRecipient(g) == Children(g) \ FirstRecipient(g)

Submits(g, recipients, from, to) ==
    /\ funder[g] = from
    /\ paid' = paid \cup {p \in recipients : Running(p)}
    /\ funder' = [funder EXCEPT ![g] = to]
    /\ UNCHANGED <<keyVars, controller, runtimes, faults>>

\* fundWallet, for one recipient after the other.
FunderPays(g) == Submits(g, FirstRecipient(g), "running", "halfway")

\* FUNDING_COMPLETE follows the second transfer.
FunderAnswers(g) == Submits(g, NextRecipient(g), "halfway", "answered")

\* The exit of a funder that failed is reported; nothing starts another one.
FunderFails(g) ==
    /\ funder[g] \in {"running", "halfway"} /\ Fault
    /\ funder' = [funder EXCEPT ![g] = "failed"]
    /\ Reports(g)
    /\ UNCHANGED <<keyVars, generation, server, after, children, addresses, runtimes, paid>>

-----------------------------------------------------------------------------
(* start and shutdown. *)

\* The proof servers and the relay are up: the runtimes are forked and begin
\* with their storage.
ForkRuntimes ==
    /\ server = "services" /\ server' = "forked"
    /\ children' = children \cup Children(generation)
    /\ step' = [p \in Processes |-> IF p \in Children(generation) THEN "read" ELSE step[p]]
    /\ UNCHANGED <<mode, stored, purpose, used, generation, after, addresses, reported, runtimes,
                   funder, paid, faults>>

\* Every runtime sent RUNTIME_READY, the first thing it does.
Serve ==
    /\ server = "forked" /\ server' = "serving"
    /\ UNCHANGED <<keyVars, generation, after, children, addresses, reported, runtimes,
                   funder, paid, faults>>

\* shutdown() sends SHUTDOWN_RUNTIME to every connected runtime.
BeginShutdown(next) ==
    /\ server' = "stopping" /\ after' = next
    /\ leaving' = leaving \cup {p \in children : p[2] = generation /\ Running(p)}

\* A service or a runtime is not ready in time: start() shuts down and throws.
StartFails ==
    /\ server \in {"services", "forked"} /\ Fault
    /\ BeginShutdown("throw")
    /\ UNCHANGED <<keyVars, generation, children, addresses, reported, killed, wallet, granted,
                   funder, paid>>

\* RESET_DEMO.  While one is under way another is ignored.
Reset ==
    /\ server \in {"serving", "unattached"} /\ generation < MaxGenerations
    /\ BeginShutdown("start")
    /\ UNCHANGED <<keyVars, generation, children, addresses, reported, killed, wallet, granted,
                   funder, paid, faults>>

\* SIGINT or SIGTERM, which is handled once the first start is over.  While a
\* reset shuts the controller down, close() does so a second time and then ends
\* the process.
Close ==
    /\ \/ server \in {"serving", "unattached"} /\ BeginShutdown("exit")
       \/ server \in {"services", "forked"} /\ generation > 1 /\ BeginShutdown("exit")
       \/ /\ server = "stopping" /\ (after = "start" \/ (after = "throw" /\ generation > 1))
          /\ after' = "exit" /\ UNCHANGED <<server, leaving>>
    /\ UNCHANGED <<keyVars, generation, children, addresses, reported, killed, wallet, granted,
                   funder, paid, faults>>

\* Mutant: a runtime that does not answer is waited for.
NeverTimesOut(p) == FALSE

\* The wait for a runtime's exit is bounded.
TimesOut(p) == p \in children

\* Every runtime's exit was seen, or its time is up and it is sent a signal; the
\* timers are of one length and fire together.  Then the funder and the relay
\* are stopped and resetState forgets everything.  A reset goes on with a new
\* controller; a start that failed ends the server when it was the first one,
\* and leaves it without runtimes otherwise.
FinishShutdown ==
    LET left == Children(generation) \cap children
    IN  /\ server = "stopping"
        /\ \A p \in left : TimesOut(p)
        /\ killed' = killed \cup {p \in left : Running(p)}
        /\ children' = children \ left
        /\ addresses' = addresses \ Children(generation)
        /\ funder' = [funder EXCEPT ![generation] = IF @ = "answered" THEN @ ELSE "none"]
        /\ reported' = FALSE /\ after' = "none"
        /\ \/ after = "start" /\ server' = "services" /\ generation' = generation + 1
           \/ /\ after = "throw" /\ UNCHANGED generation
              /\ server' = IF generation = 1 THEN "ended" ELSE "unattached"
           \/ after = "exit" /\ server' = "ended" /\ UNCHANGED generation
        /\ UNCHANGED <<keyVars, leaving, wallet, granted, paid, faults>>

Handlers ==
    \/ \E p \in Processes : NoticeExit(p)
    \/ \E g \in Generations : FundingComplete(g)

Boots(p) == OpensKeyStore(p) \/ AnnounceWallet(p) \/ PrepareWallet(p) \/ StorageFails(p)

Controls == ForkRuntimes \/ Serve \/ FinishShutdown \/ Handlers

\* The model ends with the server.
Next ==
    /\ Alive
    /\ \/ Controls \/ StartFails \/ Reset \/ Close
       \/ \E p \in Processes : Boots(p) \/ BootFails(p) \/ RuntimeEnds(p)
       \/ \E g \in Generations : FunderPays(g) \/ FunderAnswers(g) \/ FunderFails(g)

Spec == Init /\ [][Next]_lifeVars

\* Messages and exits arrive, timeouts pass, and every call answers or fails.
\* A server does finitely many of its steps between two resets.
FairSpec ==
    /\ Spec
    /\ WF_lifeVars(Controls)
    /\ \A p \in Processes : WF_lifeVars(Boots(p))
    /\ \A g \in Generations : WF_lifeVars(FunderPays(g) \/ FunderAnswers(g))
-----------------------------------------------------------------------------
(* Properties. *)

\* Every variable keeps its type; a runtime with a wallet has both storage keys,
\* and only forked runtimes are known to a controller.
LifecycleTypeOK ==
    /\ KeyTypeOK
    /\ generation \in Generations
    /\ server \in {"services", "forked", "serving", "stopping", "unattached", "crashed",
                   "ended"}
    /\ after \in {"none", "start", "throw", "exit"}
    /\ wallet \in [Processes -> {"keys", "announced", "usable", "rejected", "gone"}]
    /\ funder \in [Generations -> {"none", "running", "halfway", "answered", "done", "failed"}]
    /\ reported \in BOOLEAN /\ faults \in 0..MaxFaults
    /\ children \cup killed \cup leaving \cup granted \cup addresses \cup paid
            \subseteq {p \in Processes : step[p] # "new"}
    /\ \A p \in Processes : wallet[p] \in {"announced", "usable"} => step[p] = "prepared"

\* A runtime is told CHAIN_FUNDED only after a transfer to its own wallet was
\* submitted, although a funder may fail or be stopped between its two transfers,
\* its answer passes through a third process, and a reset may have replaced the
\* controller and the runtimes in between.  From then on the runtime waits for
\* its balance with no timeout, and nobody reports that it does.
ToldIsPaid == granted \subseteq paid

\* A shutdown ends although runtimes that still wait for their funds never
\* leave by themselves: a reset leads to a new start, or to a server that can
\* be reset again, unless the process itself ended.
ResetEnds == server = "stopping" ~> server # "stopping"

AllUsable == \A p \in Children(generation) : wallet[p] = "usable"

\* A server that offers the demo has usable wallets at last, or it reported why
\* not: neither wallet waits for ever in silence for CHAIN_FUNDED.  The one
\* thing nobody is told of is a runtime that ended by itself.
NoSilentWait ==
    server = "serving" ~>
        \/ AllUsable \/ reported \/ server # "serving"
        \/ \E p \in Children(generation) : step[p] = "ended"
=============================================================================
