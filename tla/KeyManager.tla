------------------------------ MODULE KeyManager ------------------------------
(***************************************************************************)
(* The wallet key manager of src/mcp/wallet/key_manager.cpp.               *)
(*                                                                         *)
(* Three pieces of state: m_key_contents (guarded by m_key_contents_mutex),*)
(* m_unlocked (guarded by m_unlocked_mutex) and the persistent key_store.  *)
(* Every public call runs on the caller's thread.  A step of a thread is   *)
(* one region under one mutex, one key_store write, or one unguarded read; *)
(* no region holds two mutexes, so a region is atomic and never blocks     *)
(* another for good.                                                       *)
(*                                                                         *)
(* A key content is abstracted to the password that decrypts it: every    *)
(* gen_key_content of one private key yields the same account, and         *)
(* decrypt_prv succeeds exactly when the password is the one the content   *)
(* was encrypted under.  An unlocked secret is Key (the account's private  *)
(* key) or Zero (a value-initialised dev::Secret).                         *)
(***************************************************************************)
EXTENDS Naturals, FiniteSets

CONSTANTS
    Threads,    \* concurrent callers (RPC handler threads)
    Accounts,   \* account addresses
    Passwords,  \* passwords, and so key contents
    None        \* model value: absent map entry / no password

Secrets == {"Key", "Zero"}

VARIABLES
    contents,   \* m_key_contents: account -> key content (None = absent)
    unlocked,   \* m_unlocked: account -> secret (None = absent)
    store,      \* key_store: account -> key content (None = absent)
    pc,         \* pc[t]: the step thread t runs next ("idle" between calls)
    arg         \* arg[t]: the call's account and the password of its key content

vars == <<contents, unlocked, store, pc, arg>>

Labels == {"idle", "add_store", "cp_map", "cp_store", "rm_unlocked", "rm_contents",
           "rm_store", "ul_set", "au_unlocked", "au_read"}

Idle(t) == pc' = [pc EXCEPT ![t] = "idle"]
Goto(t, l, a, p) == /\ pc' = [pc EXCEPT ![t] = l]
                    /\ arg' = [arg EXCEPT ![t] = [acc |-> a, pw |-> p]]

\* decrypt_prv(account, password): the content is read under
\* m_key_contents_mutex; decryption fails when it is absent or the password
\* is not the one it is encrypted under
DecryptOk(a, p) == contents[a] = p

-----------------------------------------------------------------------------
(* The constructor: load every key of the key_store into m_key_contents.  *)

Init ==
    /\ contents = [a \in Accounts |-> None]
    /\ unlocked = [a \in Accounts |-> None]
    /\ store = [a \in Accounts |-> None]
    /\ pc = [t \in Threads |-> "idle"]
    /\ arg = [t \in Threads |-> [acc |-> None, pw |-> None]]

\* the process stops at any step and the constructor runs again: memory is
\* rebuilt from the key_store, the unlocked keys are gone
Restart ==
    /\ contents' = store
    /\ unlocked' = [a \in Accounts |-> None]
    /\ pc' = [t \in Threads |-> "idle"]
    /\ UNCHANGED <<store, arg>>

-----------------------------------------------------------------------------
(* create, import, importRawKey: add_or_update_key puts the content in    *)
(* m_key_contents under the mutex, then in the key_store.                 *)

AddKey(t, a, p) ==
    /\ pc[t] = "idle"
    /\ contents' = [contents EXCEPT ![a] = p]
    /\ Goto(t, "add_store", a, p)
    /\ UNCHANGED <<unlocked, store>>

\* the key_store half of add_or_update_key, shared by every caller of it
AddStore(t) ==
    /\ pc[t] \in {"add_store", "cp_store"}
    /\ store' = [store EXCEPT ![arg[t].acc] = arg[t].pw]
    /\ Idle(t)
    /\ UNCHANGED <<contents, unlocked, arg>>

(* change_password: decrypt with the old password, then add_or_update_key *)
(* with a content encrypted under the new one.                            *)

ChangePassword(t, a, old, new) ==
    /\ pc[t] = "idle"
    /\ IF DecryptOk(a, old)
       THEN Goto(t, "cp_map", a, new)
       ELSE UNCHANGED <<pc, arg>>
    /\ UNCHANGED <<contents, unlocked, store>>

ChangePasswordMap(t) ==
    /\ pc[t] = "cp_map"
    /\ contents' = [contents EXCEPT ![arg[t].acc] = arg[t].pw]
    /\ pc' = [pc EXCEPT ![t] = "cp_store"]
    /\ UNCHANGED <<unlocked, store, arg>>

(* remove: decrypt, erase from m_unlocked, erase from m_key_contents,     *)
(* delete from the key_store, each step on its own.                       *)

Remove(t, a, p) ==
    /\ pc[t] = "idle"
    /\ IF DecryptOk(a, p)
       THEN Goto(t, "rm_unlocked", a, p)
       ELSE UNCHANGED <<pc, arg>>
    /\ UNCHANGED <<contents, unlocked, store>>

\* mutant: remove leaves m_unlocked alone
RemoveUnlockedSkipped(t) ==
    /\ pc[t] = "rm_unlocked"
    /\ pc' = [pc EXCEPT ![t] = "rm_contents"]
    /\ UNCHANGED <<contents, unlocked, store, arg>>

RemoveUnlocked(t) ==
    /\ pc[t] = "rm_unlocked"
    /\ unlocked' = [unlocked EXCEPT ![arg[t].acc] = None]
    /\ pc' = [pc EXCEPT ![t] = "rm_contents"]
    /\ UNCHANGED <<contents, store, arg>>

RemoveContents(t) ==
    /\ pc[t] = "rm_contents"
    /\ contents' = [contents EXCEPT ![arg[t].acc] = None]
    /\ pc' = [pc EXCEPT ![t] = "rm_store"]
    /\ UNCHANGED <<unlocked, store, arg>>

\* mutant: remove never deletes the key from the key_store
RemoveStoreKept(t) ==
    /\ pc[t] = "rm_store"
    /\ Idle(t)
    /\ UNCHANGED <<contents, unlocked, store, arg>>

RemoveStore(t) ==
    /\ pc[t] = "rm_store"
    /\ store' = [store EXCEPT ![arg[t].acc] = None]
    /\ Idle(t)
    /\ UNCHANGED <<contents, unlocked, arg>>

(* unlock: decrypt, then store the private key in m_unlocked.  lock:      *)
(* erase it.                                                              *)

Unlock(t, a, p) ==
    /\ pc[t] = "idle"
    /\ IF DecryptOk(a, p)
       THEN Goto(t, "ul_set", a, p)
       ELSE UNCHANGED <<pc, arg>>
    /\ UNCHANGED <<contents, unlocked, store>>

UnlockSet(t) ==
    /\ pc[t] = "ul_set"
    /\ unlocked' = [unlocked EXCEPT ![arg[t].acc] = "Key"]
    /\ Idle(t)
    /\ UNCHANGED <<contents, store, arg>>

Lock(t, a) ==
    /\ pc[t] = "idle"
    /\ unlocked' = [unlocked EXCEPT ![a] = None]
    /\ UNCHANGED <<contents, store, pc, arg>>

(* authenticate takes neither mutex: m_key_contents.count,               *)
(* m_unlocked.count and m_unlocked[account] are three separate reads.     *)
(* operator[] on an absent key inserts a value-initialised secret.  The   *)
(* password branch calls decrypt_prv and changes nothing.                 *)

Authenticate(t, a) ==
    /\ pc[t] = "idle"
    /\ IF contents[a] # None
       THEN Goto(t, "au_unlocked", a, None)
       ELSE UNCHANGED <<pc, arg>>
    /\ UNCHANGED <<contents, unlocked, store>>

\* mutant: m_unlocked[account] is read without the count check
AuthenticateUnlockedUnchecked(t) ==
    /\ pc[t] = "au_unlocked"
    /\ pc' = [pc EXCEPT ![t] = "au_read"]
    /\ UNCHANGED <<contents, unlocked, store, arg>>

AuthenticateUnlocked(t) ==
    /\ pc[t] = "au_unlocked"
    /\ IF unlocked[arg[t].acc] # None
       THEN pc' = [pc EXCEPT ![t] = "au_read"]
       ELSE Idle(t)
    /\ UNCHANGED <<contents, unlocked, store, arg>>

AuthenticateRead(t) ==
    /\ pc[t] = "au_read"
    /\ IF unlocked[arg[t].acc] = None
       THEN unlocked' = [unlocked EXCEPT ![arg[t].acc] = "Zero"]
       ELSE UNCHANGED unlocked
    /\ Idle(t)
    /\ UNCHANGED <<contents, store, arg>>

-----------------------------------------------------------------------------

Next ==
    \/ Restart
    \/ \E t \in Threads :
        \/ \E a \in Accounts, p \in Passwords :
            AddKey(t, a, p) \/ Remove(t, a, p) \/ Unlock(t, a, p)
        \/ \E a \in Accounts, old, new \in Passwords : ChangePassword(t, a, old, new)
        \/ \E a \in Accounts : Lock(t, a) \/ Authenticate(t, a)
        \/ AddStore(t) \/ ChangePasswordMap(t)
        \/ RemoveUnlocked(t) \/ RemoveContents(t) \/ RemoveStore(t)
        \/ UnlockSet(t) \/ AuthenticateUnlocked(t) \/ AuthenticateRead(t)

Spec == Init /\ [][Next]_vars

-----------------------------------------------------------------------------
(* Properties *)

TypeOK ==
    /\ contents \in [Accounts -> Passwords \cup {None}]
    /\ unlocked \in [Accounts -> Secrets \cup {None}]
    /\ store \in [Accounts -> Passwords \cup {None}]
    /\ pc \in [Threads -> Labels]
    /\ arg \in [Threads -> [acc : Accounts \cup {None}, pw : Passwords \cup {None}]]

AllIdle == \A t \in Threads : pc[t] = "idle"

\* Between calls, m_key_contents is what a restart would load from the
\* key_store: the password that unlocks an account now is the one that
\* unlocks it after the constructor reloads (add_or_update_key, remove).
MemoryMatchesStore == AllIdle => contents = store

\* An unlocked private key belongs to an account the manager still holds:
\* remove erases m_unlocked before m_key_contents, so find_unlocked_prv
\* never hands out the key of a removed account.
UnlockedImpliesKnown == \A a \in Accounts : unlocked[a] # None => contents[a] # None

\* Every secret in m_unlocked is the account's private key (unlock stores
\* the decrypted key; authenticate only reads m_unlocked).
UnlockedKeyIsAccountKey == \A a \in Accounts : unlocked[a] \in {None, "Key"}

=============================================================================
