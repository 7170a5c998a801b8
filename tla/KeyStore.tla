------------------------------- MODULE KeyStore -------------------------------
(***************************************************************************)
(* The key store of the parties' storage keys: getOrCreateKey of the macOS *)
(* keychain and of the file backend, called by prepareRoleStorage for the  *)
(* evidence key and then the private-state key of one role.  The callers   *)
(* are operating system processes: a role's runtime, the runtime that      *)
(* replaced it after a reset, and the recover command of the CLI.  They    *)
(* share nothing but the store.                                            *)
(*                                                                         *)
(* A process makes each key at most once, and 32 random bytes are never    *)
(* drawn twice: the key of an account is named by the process that made    *)
(* it.  Files are created with mode 600 and nothing else changes their    *)
(* mode.  The 64 digits of a key reach the file in one write.              *)
(***************************************************************************)
EXTENDS Naturals

CONSTANTS
    Roles,
    Processes,
    RoleOf,      \* the role each process prepares the storage of
    FromBefore,  \* accounts whose key an earlier run of the demo made
    EarlierKey,  \* such a key
    NoKey,       \* no item of that name; also the undefined of readKey
    Unwritten    \* a key file that is created and still empty

ASSUME RoleOfIsFunction == RoleOf \in [Processes -> Roles]

Purposes == {"evidence", "private-state"}
Modes == {"macos-keychain", "file"}

\* accountName: the name of a key in its store.
Accounts == Roles \X Purposes

Keys == Processes \cup {EarlierKey}

ASSUME NoKeyIsNoKey == NoKey \notin Keys /\ Unwritten \notin Keys /\ NoKey # Unwritten

VARIABLES
    mode,     \* the backend selectKeyStore chose
    stored,   \* the store: account -> key
    step,     \* process -> where it is in getOrCreateKey
    purpose,  \* process -> the key it asks for
    used      \* account -> every key that a process got for it

keyVars == <<mode, stored, step, purpose, used>>

Account(p) == <<RoleOf[p], purpose[p]>>

KeyInit ==
    /\ mode \in Modes
    /\ stored = [a \in Accounts |-> IF a \in FromBefore THEN EarlierKey ELSE NoKey]
    /\ step = [p \in Processes |-> "new"]
    /\ purpose = [p \in Processes |-> "evidence"]
    /\ used = [a \in Accounts |-> {}]

-----------------------------------------------------------------------------
Goes(p, from, to) == step[p] = from /\ step' = [step EXCEPT ![p] = to]

\* prepareRoleStorage begins with the evidence key.
Prepare(p) == Goes(p, "new", "read") /\ UNCHANGED <<mode, stored, purpose, used>>

\* What readKey answers is the key: the next one is asked for, or the storage
\* is prepared.
Gets(p) ==
    /\ stored[Account(p)] \in Keys
    /\ used' = [used EXCEPT ![Account(p)] = @ \cup {stored[Account(p)]}]
    /\ IF purpose[p] = "evidence"
       THEN /\ purpose' = [purpose EXCEPT ![p] = "private-state"]
            /\ step' = [step EXCEPT ![p] = "read"]
       ELSE step' = [step EXCEPT ![p] = "prepared"] /\ UNCHANGED purpose
    /\ UNCHANGED <<mode, stored>>

\* parseHexKey rejects an empty file, and prepareRoleStorage with it.
Rejects(p) ==
    /\ stored[Account(p)] = Unwritten
    /\ step' = [step EXCEPT ![p] = "failed"]
    /\ UNCHANGED <<mode, stored, purpose, used>>

ReadKey(p) == step[p] = "read" /\ (Gets(p) \/ Rejects(p))

\* readKey found nothing.
FindsNone(p) ==
    /\ stored[Account(p)] = NoKey
    /\ Goes(p, "read", "create")
    /\ UNCHANGED <<mode, stored, purpose, used>>

\* Mutant: open with the flag "w" truncates what is there.
MayCreate(p) == TRUE

\* open with the flag "wx": the file must not exist.
CreatesNew(p) == stored[Account(p)] = NoKey

\* The file backend: a new file is still empty; EEXIST is not an error.
CreateFile(p) ==
    /\ mode = "file"
    /\ \/ /\ CreatesNew(p)
          /\ Goes(p, "create", "write")
          /\ stored' = [stored EXCEPT ![Account(p)] = Unwritten]
       \/ ~CreatesNew(p) /\ Goes(p, "create", "reread") /\ UNCHANGED stored
    /\ UNCHANGED <<mode, purpose, used>>

WriteKey(p) ==
    /\ Goes(p, "write", "reread")
    /\ stored' = [stored EXCEPT ![Account(p)] = p]
    /\ UNCHANGED <<mode, purpose, used>>

\* The keychain: add-generic-password fails for an item that exists.
AddItem(p) ==
    /\ mode = "macos-keychain"
    /\ \/ /\ stored[Account(p)] = NoKey
          /\ Goes(p, "create", "reread")
          /\ stored' = [stored EXCEPT ![Account(p)] = p]
       \/ stored[Account(p)] # NoKey /\ Goes(p, "create", "failed") /\ UNCHANGED stored
    /\ UNCHANGED <<mode, purpose, used>>

\* The key is always read back, so a process that lost the race to create it
\* takes the winner's.
Reread(p) == step[p] = "reread" /\ (Gets(p) \/ Rejects(p))

Working(p) == step[p] \in {"read", "create", "write", "reread"}

\* A full disk, a locked keychain: the call rejects.  Nothing is undone.
StoreFails(p) ==
    /\ Working(p)
    /\ step' = [step EXCEPT ![p] = "failed"]
    /\ UNCHANGED <<mode, stored, purpose, used>>

\* The process is gone, wherever it was.
Ends(p) ==
    /\ step[p] # "ended"
    /\ step' = [step EXCEPT ![p] = "ended"]
    /\ purpose' = [purpose EXCEPT ![p] = "evidence"]
    /\ UNCHANGED <<mode, stored, used>>

GetOrCreateKey(p) ==
    ReadKey(p) \/ FindsNone(p) \/ CreateFile(p) \/ WriteKey(p) \/ AddItem(p) \/ Reread(p)

KeyNext == \E p \in Processes : Prepare(p) \/ GetOrCreateKey(p) \/ StoreFails(p) \/ Ends(p)

KeySpec == KeyInit /\ [][KeyNext]_keyVars
-----------------------------------------------------------------------------
(* Properties. *)

Steps == {"new", "read", "create", "write", "reread", "prepared", "failed", "ended"}

\* Every variable keeps its type, and a process that prepared its storage got
\* both keys.
KeyTypeOK ==
    /\ mode \in Modes
    /\ stored \in [Accounts -> Keys \cup {NoKey, Unwritten}]
    /\ step \in [Processes -> Steps]
    /\ purpose \in [Processes -> Purposes]
    /\ used \in [Accounts -> SUBSET Keys]
    /\ \A p \in Processes :
        step[p] = "prepared" => \A u \in Purposes : used[<<RoleOf[p], u>>] # {}

\* A key that a process ever got is the key in the store, whatever processes
\* raced for it, failed or ended in between: what was encrypted under it can
\* still be read, and all processes of one role encrypt under one key.
UsedIsStored == \A a \in Accounts : used[a] \subseteq {stored[a]}
=============================================================================
