------------------------------ MODULE ChainState ------------------------------
(***************************************************************************)
(* Transaction execution at stabilisation: the links loop of              *)
(* chain::advance_stable_mci (src/mcp/node/chain.cpp 781-866) running the  *)
(* executor of src/mcp/node/chain_state.cpp, and save_transaction, which   *)
(* admits the transactions the links name; then the approves loop          *)
(* (869-924) and add_new_witness_list, fed by save_approve.                *)
(*                                                                         *)
(* chain::execute builds a fresh chain_state per transaction, so m_cache   *)
(* and m_changeLog live for one execution.  Executive (initialize, execute,*)
(* go, finalize) is not in src/ and is modelled from spec 4.7: initialize  *)
(* throws InvalidNonce or NotEnoughCash before any change; execute bumps   *)
(* the sender's nonce, takes its savepoint and transfers the value; go     *)
(* ends normally, halts exceptionally (rollback to that savepoint) or      *)
(* throws an internal exception.  Gas is priced at zero, so the value is   *)
(* the whole cost.  Code, storage and logs are left out.                  *)
(*                                                                         *)
(* The loop runs inside the timeout transaction: it commits only between  *)
(* MCIs.  A crash, or an exception rethrown out of try_advance, loses what *)
(* was not committed; chain::init then reloads last_stable_mci.           *)
(***************************************************************************)
EXTENDS Integers, Sequences, FiniteSets, SequencesExt, FiniteSetsExt

CONSTANTS
    Accts,      \* account addresses
    TxIds,      \* transaction hashes
    Tx,         \* Tx[t]: [from, to, value, nonce] of transaction t
    Genesis,    \* account -> [bal, nonce] of the state before the first MCI, or None
    Mcis,       \* Mcis[m]: the links, in stable order, of the blocks stable at MCI m
    MaxFaults,  \* bound on crashes and internal VM exceptions
    Aps,        \* approve hashes
    Ap,         \* Ap[a]: [sender, epoch, output] of approve a
    McApproves, \* McApproves[m]: the approves of the blocks stable at MCI m
    WitnessCount,       \* witness_count of every witness_param
    InitialWitnesses,   \* the genesis witness_list (epoch 0)
    EpochPeriod,        \* epoch_period: epoch(mci) = mci / epoch_period
    None

StartNonce == 0     \* chain::execute: chain_state(transaction_a, 0, ...)

Outcomes == {"ok", "failed", "nocash", "invalid"}

VARIABLES
    accountState,   \* latest_account_state in the write transaction
    cache,          \* m_cache: account -> [bal, nonce, dirty], None = not cached
    changeLog,      \* m_changeLog
    receipt,        \* transaction_receipt: tx -> outcome or None
    saved,          \* transactions stored by save_transaction
    unstableCount,  \* transaction_unstable_count
    txCount,        \* transaction_count
    accountNonce,   \* account_nonce: account -> nonce or None
    mci, idx,       \* m_last_stable_mci_internal and the position in its links
    pc,             \* "link" between executions, "go" while the VM runs
    sp,             \* the Executive's savepoint
    spCache,        \* m_cache when that savepoint was taken
    durable,        \* what the last commit of the timeout transaction holds
    faults,         \* crashes and internal exceptions so far
    apSaved,        \* approves stored by save_approve (and epoch_approves)
    apReceipt,      \* approve -> TRUE when its approve_receipt exists
    apUnstable,     \* approve_unstable_count
    vrfOutputs,     \* vrf_outputs: epoch -> set of <<output, sender>>
    witnessParam,   \* witness_param: epoch -> witness_list or None
    lastStableEpoch,\* m_last_stable_epoch
    aidx            \* the position in the approves of MCI mci

rotVars == <<apSaved, apReceipt, apUnstable, vrfOutputs, witnessParam, lastStableEpoch, aidx>>

vars == <<accountState, cache, changeLog, receipt, saved, unstableCount, txCount,
          accountNonce, mci, idx, pc, sp, spCache, durable, faults, rotVars>>

\* mcp::epoch
Epoch(m) == m \div EpochPeriod

Epochs == 0..Epoch(Len(Mcis)) + 1

NoCache == [a \in Accts |-> None]

Persisted == [accountState |-> accountState, receipt |-> receipt, saved |-> saved,
              unstableCount |-> unstableCount, txCount |-> txCount,
              accountNonce |-> accountNonce, mci |-> mci, apSaved |-> apSaved,
              apReceipt |-> apReceipt, apUnstable |-> apUnstable, witnessParam |-> witnessParam]

-----------------------------------------------------------------------------
(* chain_state: an execution state is [c |-> m_cache, l |-> m_changeLog].  *)

\* account(): the cached copy, else the stored state (not dirty), else null
Account(s, a) ==
    IF s.c[a] # None THEN s.c[a]
    ELSE IF accountState[a] = None THEN None
    ELSE [bal |-> accountState[a].bal, nonce |-> accountState[a].nonce, dirty |-> FALSE]

IsEmpty(acc) == acc.bal = 0 /\ acc.nonce = 0

Balance(s, a) == IF Account(s, a) = None THEN 0 ELSE Account(s, a).bal
GetNonce(s, a) == IF Account(s, a) = None THEN StartNonce ELSE Account(s, a).nonce

Log(s, kind, a, v) == Append(s.l, [kind |-> kind, addr |-> a, val |-> v])

\* createAccount: a new (dirty) account in the cache, logged as Create
CreateAccount(s, a, bal, nonce) ==
    [c |-> [s.c EXCEPT ![a] = [bal |-> bal, nonce |-> nonce, dirty |-> TRUE]],
     l |-> Log(s, "Create", a, 0)]

\* mutant: an account created by incNonce starts at the start nonce
IncNonceCreateNoBump(s, a) ==
    LET acc == Account(s, a) IN
    IF acc # None
    THEN [c |-> [s.c EXCEPT ![a] = [acc EXCEPT !.nonce = @ + 1, !.dirty = TRUE]],
          l |-> Log(s, "Nonce", a, acc.nonce)]
    ELSE CreateAccount(s, a, 0, StartNonce)

\* incNonce: log the old nonce, or create the account with nonce start + 1
IncNonce(s, a) ==
    LET acc == Account(s, a) IN
    IF acc # None
    THEN [c |-> [s.c EXCEPT ![a] = [acc EXCEPT !.nonce = @ + 1, !.dirty = TRUE]],
          l |-> Log(s, "Nonce", a, acc.nonce)]
    ELSE CreateAccount(s, a, 0, StartNonce + 1)

\* addBalance: Touch for the first change of a clean empty account, or
\* create the account; a Balance entry when the amount is not zero
AddBalance(s, a, v) ==
    LET acc == Account(s, a)
        s1 == IF acc # None
              THEN [c |-> [s.c EXCEPT ![a] = [acc EXCEPT !.bal = @ + v, !.dirty = TRUE]],
                    l |-> IF ~acc.dirty /\ IsEmpty(acc) THEN Log(s, "Touch", a, 0) ELSE s.l]
              ELSE CreateAccount(s, a, v, StartNonce)
    IN  IF v # 0 THEN [s1 EXCEPT !.l = Log(s1, "Balance", a, v)] ELSE s1

\* subBalance: nothing for zero, else addBalance of the negated amount (the
\* NotEnoughCash throw is unreachable after initialize checked the balance)
SubBalance(s, a, v) == IF v = 0 THEN s ELSE AddBalance(s, a, 0 - v)

TransferBalance(s, from, to, v) == AddBalance(SubBalance(s, from, v), to, v)

\* mutant: rolling back a Create leaves the account in the cache
UndoCreateKept(c, ch) ==
    CASE ch.kind = "Balance" -> [c EXCEPT ![ch.addr].bal = @ - ch.val]
      [] ch.kind = "Nonce"   -> [c EXCEPT ![ch.addr].nonce = ch.val]
      [] ch.kind = "Create"  -> c
      [] ch.kind = "Touch"   -> [c EXCEPT ![ch.addr].dirty = FALSE]

\* one iteration of rollback's switch: undo the last change on the cache
Undo(c, ch) ==
    CASE ch.kind = "Balance" -> [c EXCEPT ![ch.addr].bal = @ - ch.val]
      [] ch.kind = "Nonce"   -> [c EXCEPT ![ch.addr].nonce = ch.val]
      [] ch.kind = "Create"  -> [c EXCEPT ![ch.addr] = None]
      [] ch.kind = "Touch"   -> [c EXCEPT ![ch.addr].dirty = FALSE]

RECURSIVE Rollback(_, _)
Rollback(s, p) ==
    IF Len(s.l) = p THEN s
    ELSE Rollback([c |-> Undo(s.c, Last(s.l)), l |-> Front(s.l)], p)

\* commit: removeEmptyAccounts kills the dirty empty accounts, mcp::commit
\* stores every dirty one; log and cache are cleared
Commit(s) ==
    [a \in Accts |->
        IF s.c[a] # None /\ s.c[a].dirty
        THEN IF IsEmpty(s.c[a]) THEN None
             ELSE [bal |-> s.c[a].bal, nonce |-> s.c[a].nonce]
        ELSE accountState[a]]

-----------------------------------------------------------------------------
(* The loop over the links of the blocks stable at MCI mci.               *)

Init ==
    /\ accountState = Genesis
    /\ cache = NoCache
    /\ changeLog = <<>>
    /\ receipt = [t \in TxIds |-> None]
    /\ saved = {}
    /\ unstableCount = 0
    /\ txCount = 0
    /\ accountNonce = [a \in Accts |-> None]
    /\ mci = 1
    /\ idx = 1
    /\ pc = "link"
    /\ sp = 0
    /\ spCache = NoCache
    /\ faults = 0
    /\ apSaved = {}
    /\ apReceipt = [a \in Aps |-> FALSE]
    /\ apUnstable = 0
    /\ vrfOutputs = [e \in Epochs |-> {}]
    /\ witnessParam = [e \in Epochs |-> IF e = 0 THEN InitialWitnesses ELSE None]
    /\ lastStableEpoch = Epoch(0)
    /\ aidx = 1
    /\ durable = Persisted

Link == Mcis[mci][idx]
Sender == Tx[Link].from
Empty == [c |-> NoCache, l |-> <<>>]

\* save_transaction, between two stabilisation steps: store the transaction,
\* raise account_nonce unless it already holds a bigger nonce, count it
SaveTransaction(t) ==
    /\ pc = "link" /\ idx = 1 /\ aidx = 1
    /\ t \notin saved
    /\ saved' = saved \cup {t}
    /\ IF accountNonce[Tx[t].from] # None /\ Tx[t].nonce < accountNonce[Tx[t].from]
       THEN UNCHANGED accountNonce
       ELSE accountNonce' = [accountNonce EXCEPT ![Tx[t].from] = Tx[t].nonce]
    /\ unstableCount' = unstableCount + 1
    /\ txCount' = txCount + 1
    /\ durable' = [Persisted EXCEPT !.saved = saved', !.unstableCount = unstableCount',
                                    !.txCount = txCount', !.accountNonce = accountNonce']
    /\ UNCHANGED <<accountState, cache, changeLog, receipt, mci, idx, pc, sp, spCache, faults>>
    /\ UNCHANGED rotVars

\* a block becomes stable only after the transactions it links are stored
LinkReady ==
    /\ pc = "link"
    /\ mci <= Len(Mcis) /\ idx <= Len(Mcis[mci])
    /\ \A i \in 1..Len(Mcis[mci]) : Mcis[mci][i] \in saved

\* mutant: the unstable count is reduced before the reuse check
LinkReusedReduces ==
    /\ LinkReady
    /\ receipt[Link] # None
    /\ unstableCount' = unstableCount - 1
    /\ idx' = idx + 1
    /\ UNCHANGED <<accountState, cache, changeLog, receipt, saved, txCount,
                   accountNonce, mci, pc, sp, spCache, durable, faults>>
    /\ UNCHANGED rotVars

\* the receipt exists: an earlier link executed the transaction; reuse it
LinkReused ==
    /\ LinkReady
    /\ receipt[Link] # None
    /\ idx' = idx + 1
    /\ UNCHANGED <<accountState, cache, changeLog, receipt, saved, unstableCount, txCount,
                   accountNonce, mci, pc, sp, spCache, durable, faults>>
    /\ UNCHANGED rotVars

\* the end of a link: put the receipt, reduce the unstable count
LinkDone(o) ==
    /\ receipt' = [receipt EXCEPT ![Link] = o]
    /\ unstableCount' = unstableCount - 1
    /\ idx' = idx + 1

\* mutant: the invalid branch stores its receipt but skips the reduce
LinkInvalidNonceUncounted ==
    /\ LinkReady
    /\ receipt[Link] = None
    /\ Tx[Link].nonce # GetNonce(Empty, Sender)
    /\ receipt' = [receipt EXCEPT ![Link] = "invalid"]
    /\ idx' = idx + 1
    /\ UNCHANGED <<accountState, cache, changeLog, saved, unstableCount, txCount,
                   accountNonce, mci, pc, sp, spCache, durable, faults>>
    /\ UNCHANGED rotVars

\* initialize throws InvalidNonce: executeTransaction rolls back (nothing to
\* undo) and rethrows; the loop stores an empty receipt
LinkInvalidNonce ==
    /\ LinkReady
    /\ receipt[Link] = None
    /\ Tx[Link].nonce # GetNonce(Empty, Sender)
    /\ LinkDone("invalid")
    /\ UNCHANGED <<accountState, cache, changeLog, saved, txCount, accountNonce, mci, pc,
                   sp, spCache, durable, faults>>
    /\ UNCHANGED rotVars

\* initialize throws NotEnoughCash: executeTransaction catches it and
\* returns false, nothing is rolled back and the Committed execution
\* commits the (clean) cache; the receipt is a failed one
LinkNotEnoughCash ==
    /\ LinkReady
    /\ receipt[Link] = None
    /\ Tx[Link].nonce = GetNonce(Empty, Sender)
    /\ Balance(Empty, Sender) < Tx[Link].value
    /\ accountState' = Commit(Empty)
    /\ LinkDone("nocash")
    /\ UNCHANGED <<cache, changeLog, saved, txCount, accountNonce, mci, pc, sp, spCache,
                   durable, faults>>
    /\ UNCHANGED rotVars

\* Executive::execute: bump the nonce, take the savepoint, move the value
LinkExecute ==
    LET s1 == IncNonce(Empty, Sender)
        s2 == TransferBalance(s1, Sender, Tx[Link].to, Tx[Link].value)
    IN
    /\ LinkReady
    /\ receipt[Link] = None
    /\ Tx[Link].nonce = GetNonce(Empty, Sender)
    /\ Balance(Empty, Sender) >= Tx[Link].value
    /\ sp' = Len(s1.l)
    /\ spCache' = s1.c
    /\ cache' = s2.c
    /\ changeLog' = s2.l
    /\ pc' = "go"
    /\ UNCHANGED <<accountState, receipt, saved, unstableCount, txCount, accountNonce,
                   mci, idx, durable, faults>>
    /\ UNCHANGED rotVars

\* finalize, then the Committed execution commits and the loop stores the receipt
Finish(s, o) ==
    /\ accountState' = Commit(s)
    /\ LinkDone(o)
    /\ cache' = NoCache
    /\ changeLog' = <<>>
    /\ pc' = "link"
    /\ UNCHANGED <<saved, txCount, accountNonce, mci, sp, spCache, durable, faults>>
    /\ UNCHANGED rotVars

\* go halts normally
GoOk == pc = "go" /\ Finish([c |-> cache, l |-> changeLog], "ok")

\* mutant: the exceptional halt keeps the value transfer
GoHaltNoRollback == pc = "go" /\ Finish([c |-> cache, l |-> changeLog], "failed")

\* go halts exceptionally: the Executive rolls back to its savepoint; the
\* nonce stays consumed
GoHalt == pc = "go" /\ Finish(Rollback([c |-> cache, l |-> changeLog], sp), "failed")

\* init_vrf_outputs: vrf_outputs of the epoch of last_stable_mci, rebuilt
\* from epoch_approves and the approve receipts that exist
InitVrfOutputs ==
    LET e == Epoch(durable.mci - 1) IN
    [v \in Epochs |->
        IF v = e
        THEN {<<Ap[a].output, Ap[a].sender>> :
                a \in {a \in durable.apSaved : Ap[a].epoch = e /\ durable.apReceipt[a]}}
        ELSE {}]

\* what chain::init reloads for the approves and the witness rotation
ReloadApproves ==
    /\ apSaved' = durable.apSaved
    /\ apReceipt' = durable.apReceipt
    /\ apUnstable' = durable.apUnstable
    /\ witnessParam' = durable.witnessParam
    /\ vrfOutputs' = InitVrfOutputs
    /\ lastStableEpoch' = Epoch(durable.mci - 1)
    /\ aidx' = 1

\* the write transaction is abandoned and chain::init reloads what the last
\* commit holds: last_stable_mci, the account states, receipts and counters
Reload ==
    /\ accountState' = durable.accountState
    /\ receipt' = durable.receipt
    /\ saved' = durable.saved
    /\ unstableCount' = durable.unstableCount
    /\ txCount' = durable.txCount
    /\ accountNonce' = durable.accountNonce
    /\ mci' = durable.mci
    /\ idx' = 1
    /\ cache' = NoCache
    /\ changeLog' = <<>>
    /\ pc' = "link"
    /\ faults' = faults + 1
    /\ ReloadApproves
    /\ UNCHANGED <<sp, spCache, durable>>

\* mutant: after the exception the loop goes on with the next MCI, as it
\* would if the caller kept the chain object: m_last_stable_mci_internal was
\* already incremented while the write transaction is rolled back
GoFaultSkipsMci ==
    /\ pc = "go" /\ faults < MaxFaults
    /\ accountState' = durable.accountState
    /\ receipt' = durable.receipt
    /\ saved' = durable.saved
    /\ unstableCount' = durable.unstableCount
    /\ txCount' = durable.txCount
    /\ accountNonce' = durable.accountNonce
    /\ mci' = mci + 1
    /\ idx' = 1
    /\ cache' = NoCache
    /\ changeLog' = <<>>
    /\ pc' = "link"
    /\ faults' = faults + 1
    /\ ReloadApproves
    /\ UNCHANGED <<sp, spCache, durable>>

\* an internal exception in go: executeTransaction rolls back and rethrows,
\* advance_stable_mci rethrows (std::exception), try_advance does not catch
GoFault == pc = "go" /\ faults < MaxFaults /\ Reload

\* the process stops anywhere
Crash == faults < MaxFaults /\ Reload

-----------------------------------------------------------------------------
(* Approves: save_approve, the approves loop of advance_stable_mci and     *)
(* add_new_witness_list.                                                   *)

\* save_approve, between two stabilisation steps: store the approve and its
\* epoch_approves entry in the write transaction, count it unstable
SaveApprove(a) ==
    /\ pc = "link" /\ aidx = 1
    /\ a \notin apSaved
    /\ apSaved' = apSaved \cup {a}
    /\ apUnstable' = apUnstable + 1
    /\ UNCHANGED <<accountState, cache, changeLog, receipt, saved, unstableCount, txCount,
                   accountNonce, mci, idx, pc, sp, spCache, durable, faults,
                   apReceipt, vrfOutputs, witnessParam, lastStableEpoch, aidx>>

\* the links are done and the approves of the MCI's blocks are next
ApproveReady ==
    /\ pc = "link"
    /\ mci <= Len(Mcis) /\ idx > Len(Mcis[mci])
    /\ aidx <= Len(McApproves[mci])
    /\ \A i \in 1..Len(McApproves[mci]) : McApproves[mci][i] \in apSaved

Approve == McApproves[mci][aidx]

\* the receipt exists: an earlier block linked the approve
ApproveReused ==
    /\ ApproveReady
    /\ apReceipt[Approve]
    /\ aidx' = aidx + 1
    /\ UNCHANGED <<accountState, cache, changeLog, receipt, saved, unstableCount, txCount,
                   accountNonce, mci, idx, pc, sp, spCache, durable, faults,
                   apSaved, apReceipt, apUnstable, vrfOutputs, witnessParam, lastStableEpoch>>

\* mutant: the output is collected whatever the approve's epoch
ApproveExecuteAnyEpoch ==
    /\ ApproveReady
    /\ ~apReceipt[Approve]
    /\ apUnstable' = apUnstable - 1
    /\ apReceipt' = [apReceipt EXCEPT ![Approve] = TRUE]
    /\ vrfOutputs' = [vrfOutputs EXCEPT ![Ap[Approve].epoch] =
                          @ \cup {<<Ap[Approve].output, Ap[Approve].sender>>}]
    /\ aidx' = aidx + 1
    /\ UNCHANGED <<accountState, cache, changeLog, receipt, saved, unstableCount, txCount,
                   accountNonce, mci, idx, pc, sp, spCache, durable, faults,
                   apSaved, witnessParam, lastStableEpoch>>

\* count the approve down, store its receipt, and collect its VRF output
\* when it was sent in the epoch of the MCI that makes it stable
ApproveExecute ==
    /\ ApproveReady
    /\ ~apReceipt[Approve]
    /\ apUnstable' = apUnstable - 1
    /\ apReceipt' = [apReceipt EXCEPT ![Approve] = TRUE]
    /\ vrfOutputs' =
        IF Ap[Approve].epoch = Epoch(mci)
        THEN [vrfOutputs EXCEPT ![Ap[Approve].epoch] =
                  @ \cup {<<Ap[Approve].output, Ap[Approve].sender>>}]
        ELSE vrfOutputs
    /\ aidx' = aidx + 1
    /\ UNCHANGED <<accountState, cache, changeLog, receipt, saved, unstableCount, txCount,
                   accountNonce, mci, idx, pc, sp, spCache, durable, faults,
                   apSaved, witnessParam, lastStableEpoch>>

\* mcp::param::witness_param(epoch): the list last published at or before it
ParamAt(e) == witnessParam[Max({v \in 0..e : witnessParam[v] # None})]

\* the senders of the witness_count largest outputs (rbegin onwards)
TopSenders(outs) ==
    {p[2] : p \in {p \in outs : Cardinality({q \in outs : q[1] > p[1]}) < WitnessCount}}

\* add_new_witness_list returns early in epoch 0 and once the epoch of
\* m_last_stable_mci_internal is rotated
RotationDue == Epoch(mci) # 0 /\ Epoch(mci) # lastStableEpoch

\* add_new_witness_list(m_last_stable_mci_internal): elect from the outputs
\* of the previous epoch (the assert_x on their senders is a guard), else
\* republish the current list, for the next epoch
AddNewWitnessList ==
    LET e == Epoch(mci)
        v == e - 1
    IN
    IF ~RotationDue
    THEN UNCHANGED <<vrfOutputs, witnessParam, lastStableEpoch>>
    ELSE /\ Cardinality(vrfOutputs[v]) >= WitnessCount =>
                Cardinality(TopSenders(vrfOutputs[v])) = WitnessCount
         /\ witnessParam' = [witnessParam EXCEPT ![e + 1] =
                IF Cardinality(vrfOutputs[v]) < WitnessCount THEN ParamAt(e)
                ELSE TopSenders(vrfOutputs[v])]
         /\ vrfOutputs' = [vrfOutputs EXCEPT ![v] = {}]
         /\ lastStableEpoch' = e

\* all links and approves of the MCI are done: last_stable_mci is put, the
\* witness list rotated, and the timeout transaction may commit here
FinishMci ==
    /\ pc = "link"
    /\ mci <= Len(Mcis) /\ idx > Len(Mcis[mci]) /\ aidx > Len(McApproves[mci])
    /\ mci' = mci + 1
    /\ idx' = 1
    /\ aidx' = 1
    /\ AddNewWitnessList
    /\ \E commit \in BOOLEAN :
        durable' = IF commit THEN [Persisted EXCEPT !.mci = mci', !.witnessParam = witnessParam']
                   ELSE durable
    /\ UNCHANGED <<accountState, cache, changeLog, receipt, saved, unstableCount, txCount,
                   accountNonce, pc, sp, spCache, faults, apSaved, apReceipt, apUnstable>>

Progress ==
    \/ \E t \in TxIds : SaveTransaction(t)
    \/ \E a \in Aps : SaveApprove(a)
    \/ LinkReused \/ LinkInvalidNonce \/ LinkNotEnoughCash \/ LinkExecute
    \/ GoOk \/ GoHalt \/ ApproveReused \/ ApproveExecute \/ FinishMci

Next == Progress \/ GoFault \/ Crash

Spec == Init /\ [][Next]_vars
FairSpec == Spec /\ WF_vars(Progress)

-----------------------------------------------------------------------------
(* Properties *)

Acct == [bal : Int, nonce : Nat]

TypeOK ==
    /\ accountState \in [Accts -> Acct \cup {None}]
    /\ cache \in [Accts -> [bal : Int, nonce : Nat, dirty : BOOLEAN] \cup {None}]
    /\ receipt \in [TxIds -> Outcomes \cup {None}]
    /\ saved \subseteq TxIds
    /\ unstableCount \in Nat /\ txCount \in Nat
    /\ pc \in {"link", "go"}
    /\ mci \in 1..Len(Mcis) + 1
    /\ apSaved \subseteq Aps /\ apReceipt \in [Aps -> BOOLEAN] /\ apUnstable \in Nat
    /\ vrfOutputs \in [Epochs -> SUBSET (Nat \X Accts)]
    /\ witnessParam \in [Epochs -> SUBSET Accts \cup {None}]

StoredBal(st, a) == IF st[a] = None THEN 0 ELSE st[a].bal
StoredNonce(st, a) == IF st[a] = None THEN StartNonce ELSE st[a].nonce
Received(a) == MapThenSumSet(LAMBDA t : Tx[t].value, {t \in TxIds : Tx[t].to = a /\ receipt[t] = "ok"})
Sent(a) == MapThenSumSet(LAMBDA t : Tx[t].value, {t \in TxIds : Tx[t].from = a /\ receipt[t] = "ok"})
Consumed(a) == Cardinality({t \in TxIds : Tx[t].from = a /\ receipt[t] \in {"ok", "failed"}})

\* Between executions the stored account states are the genesis states with
\* exactly the transfers of the successful receipts applied, and each
\* sender's nonce counts the receipts of its executed transactions: the
\* change log, rollback on exceptional halt, removeEmptyAccounts and the
\* commits between MCIs, across crashes and reloads, lose or repeat nothing.
LedgerMatchesReceipts ==
    pc = "link" =>
        \A a \in Accts :
            /\ StoredBal(accountState, a) = StoredBal(Genesis, a) + Received(a) - Sent(a)
            /\ StoredNonce(accountState, a) = StoredNonce(Genesis, a) + Consumed(a)

\* What commit makes of an account in cache c: its balance and nonce, and
\* whether removeEmptyAccounts kills it (dirtiness of a non-empty account
\* is not observable: commit stores it unchanged either way)
View(c, a) ==
    LET acc == Account([c |-> c, l |-> <<>>], a) IN
    IF acc = None THEN None
    ELSE [bal |-> acc.bal, nonce |-> acc.nonce, killed |-> acc.dirty /\ IsEmpty(acc)]

\* While go runs, rolling the change log back to the Executive's savepoint
\* gives back the accounts as commit would see them at that savepoint, and
\* rolling it back to executeTransaction's savepoint (zero) gives back the
\* stored accounts: every Balance, Nonce, Create and Touch entry undoes its
\* change, and a touched empty account is no longer killed.
RollbackRestoresSavepoint ==
    pc = "go" =>
        LET cur == [c |-> cache, l |-> changeLog] IN
        \A a \in Accts :
            /\ View(Rollback(cur, sp).c, a) = View(spCache, a)
            /\ View(Rollback(cur, 0).c, a) = View(NoCache, a)

\* transaction_unstable_count is the number of stored transactions without
\* a receipt: a transaction linked by several blocks is counted down once.
UnstableCountExact ==
    /\ unstableCount = Cardinality({t \in saved : receipt[t] = None})
    /\ apUnstable = Cardinality({a \in apSaved : ~apReceipt[a]})

\* the MCI whose stabilisation first executes approve a
FirstMci(a) == Min({m \in 1..Len(Mcis) : a \in Range(McApproves[m])})

\* the VRF outputs that elect in epoch v + 2: approves of epoch v made
\* stable by an MCI of epoch v
Elected(v) ==
    {<<Ap[a].output, Ap[a].sender>> :
        a \in {a \in Aps : /\ Ap[a].epoch = v
                           /\ \E m \in 1..Len(Mcis) : a \in Range(McApproves[m])
                           /\ Epoch(FirstMci(a)) = v}}

\* the witness list of epoch u as spec 4.9 defines it from the stable DAG:
\* the top senders of epoch u - 2, else the list of epoch u - 1
RECURSIVE RefParam(_)
RefParam(u) ==
    IF u <= 1 THEN InitialWitnesses
    ELSE IF Cardinality(Elected(u - 2)) < WitnessCount THEN RefParam(u - 1)
    ELSE TopSenders(Elected(u - 2))

\* Every published witness list is the one the stable DAG determines, on
\* every node: vrf_outputs, filled while approves stabilise and rebuilt by
\* init_vrf_outputs after a crash or an internal exception, holds at each
\* epoch boundary exactly the outputs of the approves stabilised in the
\* previous epoch, so a restarted node elects the witnesses the others do.
RotationMatchesReference ==
    \A u \in Epochs : witnessParam[u] # None => witnessParam[u] = RefParam(u)

\* Every linked transaction eventually has a receipt: after a crash or an
\* internal exception the MCIs whose work was lost are stabilised again.
AllLinksExecuted ==
    <>(\A m \in 1..Len(Mcis) : \A i \in 1..Len(Mcis[m]) : receipt[Mcis[m][i]] # None)

\* Spec 4.7: a transaction that fails with NotEnoughCash consumes its nonce
\* ("the nonce is advanced by one"), so the sender's next transaction uses
\* the next nonce.
NotEnoughCashConsumesNonce ==
    \A t \in TxIds :
        receipt[t] = "nocash" => StoredNonce(accountState, Tx[t].from) > Tx[t].nonce

-----------------------------------------------------------------------------
(* Refinement: the executor implements ExecLedger.  An absent or killed    *)
(* account is the zero account; the checkpoint is what durable holds.      *)

Normal(st) == [a \in Accts |-> IF st[a] = None THEN [bal |-> 0, nonce |-> 0] ELSE st[a]]

Abstract == INSTANCE ExecLedger WITH
    ledger <- Normal(accountState),
    checkpoint <- [ledger |-> Normal(durable.accountState), receipt |-> durable.receipt,
                   saved |-> durable.saved, mci |-> durable.mci]

\* Executing a link through initialize, execute, go and finalize, with the
\* change log, the savepoints and commit, is one atomic application of the
\* transaction; a crash or internal exception only loses work back to the
\* last commit of the timeout transaction.
RefinesExecLedger == Abstract!Spec

=============================================================================
