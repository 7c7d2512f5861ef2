------------------------------ MODULE ExecLedger ------------------------------
(***************************************************************************)
(* What transaction execution at stabilisation promises, without the      *)
(* executor's cache and change log: the links of the MCIs are taken in    *)
(* order; a transaction without a receipt is applied in one step (invalid  *)
(* on a nonce mismatch, not-enough-cash when the balance is short, else    *)
(* its nonce is consumed and its value moved or, on failure, not); a       *)
(* receipt that exists is reused.  Work since the last checkpoint can be   *)
(* lost as a whole.  An absent account is the zero account.                *)
(***************************************************************************)
EXTENDS Integers, Sequences

CONSTANTS Accts, TxIds, Tx, Genesis, Mcis, None

VARIABLES
    ledger,     \* account -> [bal, nonce]
    receipt,    \* tx -> outcome or None
    saved,      \* admitted transactions
    mci, idx,   \* the link being stabilised
    checkpoint  \* the last committed [ledger, receipt, saved, mci]

vars == <<ledger, receipt, saved, mci, idx, checkpoint>>

Zero == [bal |-> 0, nonce |-> 0]
State(g) == [a \in Accts |-> IF g[a] = None THEN Zero ELSE g[a]]

Snapshot == [ledger |-> ledger, receipt |-> receipt, saved |-> saved, mci |-> mci]

Init ==
    /\ ledger = State(Genesis)
    /\ receipt = [t \in TxIds |-> None]
    /\ saved = {}
    /\ mci = 1 /\ idx = 1
    /\ checkpoint = Snapshot

Admit(t) ==
    /\ idx = 1 /\ t \notin saved
    /\ saved' = saved \cup {t}
    /\ checkpoint' = [Snapshot EXCEPT !.saved = saved']
    /\ UNCHANGED <<ledger, receipt, mci, idx>>

Ready ==
    /\ mci <= Len(Mcis) /\ idx <= Len(Mcis[mci])
    /\ \A i \in 1..Len(Mcis[mci]) : Mcis[mci][i] \in saved

Reuse ==
    /\ Ready /\ receipt[Mcis[mci][idx]] # None
    /\ idx' = idx + 1
    /\ UNCHANGED <<ledger, receipt, saved, mci, checkpoint>>

Apply ==
    LET t == Mcis[mci][idx]
        f == Tx[t].from
        g == Tx[t].to
        v == Tx[t].value
        bumped == [ledger EXCEPT ![f].nonce = @ + 1]
    IN
    /\ Ready /\ receipt[t] = None
    /\ \/ /\ Tx[t].nonce # ledger[f].nonce
          /\ receipt' = [receipt EXCEPT ![t] = "invalid"] /\ UNCHANGED ledger
       \/ /\ Tx[t].nonce = ledger[f].nonce /\ ledger[f].bal < v
          /\ receipt' = [receipt EXCEPT ![t] = "nocash"] /\ UNCHANGED ledger
       \/ /\ Tx[t].nonce = ledger[f].nonce /\ ledger[f].bal >= v
          /\ \/ /\ receipt' = [receipt EXCEPT ![t] = "ok"]
                /\ ledger' = [bumped EXCEPT ![f].bal = @ - v, ![g].bal = @ + v]
             \/ /\ receipt' = [receipt EXCEPT ![t] = "failed"]
                /\ ledger' = bumped
    /\ idx' = idx + 1
    /\ UNCHANGED <<saved, mci, checkpoint>>

NextMci ==
    /\ mci <= Len(Mcis) /\ idx > Len(Mcis[mci])
    /\ mci' = mci + 1 /\ idx' = 1
    /\ \/ checkpoint' = [Snapshot EXCEPT !.mci = mci']
       \/ UNCHANGED checkpoint
    /\ UNCHANGED <<ledger, receipt, saved>>

Lose ==
    /\ ledger' = checkpoint.ledger
    /\ receipt' = checkpoint.receipt
    /\ saved' = checkpoint.saved
    /\ mci' = checkpoint.mci
    /\ idx' = 1
    /\ UNCHANGED checkpoint

Next == (\E t \in TxIds : Admit(t)) \/ Reuse \/ Apply \/ NextMci \/ Lose

Spec == Init /\ [][Next]_vars

=============================================================================
