----------------------------- MODULE StableLedger -----------------------------
(***************************************************************************)
(* What the stability advancer promises, without main chains, levels,     *)
(* hashes or fork marks: blocks join a DAG one at a time, each naming     *)
(* blocks it already knows as predecessors (its parents and its previous  *)
(* block); now and then the unstable past of one block becomes stable as  *)
(* one batch, appended to the ledger in an order that puts every block    *)
(* after its predecessors.  Nothing already in the ledger ever changes.   *)
(***************************************************************************)
EXTENDS FiniteSets, Sequences, SequencesExt

CONSTANTS
    Node,       \* the blocks, genesis included
    Genesis     \* the block every node starts with, stable from the start

VARIABLES
    preds,      \* preds[b]: the blocks b names; {} until b is admitted
    batches     \* batches[m]: the blocks made stable at MCI m, in stable order

vars == <<preds, batches>>

Known == {Genesis} \cup {b \in Node : preds[b] # {}}

Stable == {Genesis} \cup Range(FlattenSeq(batches))

RECURSIVE Closure(_)
\* S together with everything reachable from it through preds
Closure(S) ==
    LET T == S \cup UNION {preds[x] : x \in S}
    IN  IF T = S THEN S ELSE Closure(T)

\* every block of seq comes after its predecessors, or they are in done
Topological(seq, done) ==
    \A i \in 1..Len(seq) :
        preds[seq[i]] \subseteq done \cup {seq[j] : j \in 1..(i - 1)}

Init ==
    /\ preds = [b \in Node |-> {}]
    /\ batches = <<>>

Admit(b, P) ==
    /\ b \notin Known
    /\ P # {} /\ P \subseteq Known
    /\ preds' = [preds EXCEPT ![b] = P]
    /\ UNCHANGED batches

Stabilise(top) ==
    LET done == Stable
    IN  /\ top \in Known \ done
        /\ \E seq \in SetToSeqs(Closure({top}) \ done) :
              /\ batches' = Append(batches, seq)
              /\ Topological(seq, done)
        /\ UNCHANGED preds

Next ==
    \/ \E b \in Node \ Known : \E P \in SUBSET Known : Admit(b, P)
    \/ \E top \in Known \ Stable : Stabilise(top)

Spec == Init /\ [][Next]_vars

=============================================================================
