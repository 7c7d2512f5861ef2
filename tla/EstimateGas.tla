------------------------------ MODULE EstimateGas ------------------------------
(***************************************************************************)
(* The gas search of chain::estimate_gas (src/mcp/node/chain.cpp          *)
(* 1231-1309).  Each iteration probes mid = (lowerBound + upperBound) / 2  *)
(* with a Permanence::Reverted execution.  The call is abstracted to the   *)
(* gas it needs: a probe below the intrinsic gas makes                     *)
(* Executive::initialize throw OutOfGasIntrinsic (estimate_gas returns     *)
(* (0, false) from its catch); a probe below the need ends in OutOfGas;    *)
(* any other probe succeeds.  Probing is monotone in the gas limit, which  *)
(* is what a binary search presumes.                                       *)
(***************************************************************************)
EXTENDS Naturals

CONSTANTS
    GasLimit,   \* largest _maxGas and intrinsic gas tried
    TxMaxGas    \* mcp::tx_max_gas

Gas == 0..GasLimit

VARIABLES
    maxGas,     \* the caller's _maxGas
    base,       \* Transaction::baseGasRequired: the intrinsic gas
    need,       \* the least gas with which the call does not run out of gas
    cap,        \* upperBound as first set
    lowerBound, upperBound, good,
    pc          \* "loop", "done" (loop left) or "error" (exception caught)

vars == <<maxGas, base, need, cap, lowerBound, upperBound, good, pc>>

\* upperBound: _maxGas, cut to tx_max_gas
Cap(m) == IF m > TxMaxGas THEN TxMaxGas ELSE m

Init ==
    /\ maxGas \in Gas
    /\ base \in Gas
    /\ need \in base..GasLimit + 1
    /\ cap = Cap(maxGas)
    /\ upperBound = cap
    /\ lowerBound = base
    /\ good = FALSE
    /\ pc = "loop"

Mid == (lowerBound + upperBound) \div 2

\* the probe throws: the catch returns (0, false)
ProbeThrows ==
    /\ pc = "loop"
    /\ Mid < base
    /\ pc' = "error"
    /\ UNCHANGED <<maxGas, base, need, cap, lowerBound, upperBound, good>>

\* mutant: a failed probe always moves the lower bound to mid
ProbeFailsToMid ==
    /\ pc = "loop"
    /\ base <= Mid /\ Mid < need
    /\ lowerBound' = Mid
    /\ pc' = IF upperBound = lowerBound' THEN "done" ELSE "loop"
    /\ UNCHANGED <<maxGas, base, need, cap, upperBound, good>>

\* OutOfGas: raise the lower bound (to the upper one once they are adjacent)
ProbeFails ==
    /\ pc = "loop"
    /\ base <= Mid /\ Mid < need
    /\ lowerBound' = IF lowerBound = Mid THEN upperBound ELSE Mid
    /\ pc' = IF upperBound = lowerBound' THEN "done" ELSE "loop"
    /\ UNCHANGED <<maxGas, base, need, cap, upperBound, good>>

\* mutant: a successful probe narrows the bound but is not recorded
ProbeSucceedsUnrecorded ==
    /\ pc = "loop"
    /\ base <= Mid /\ need <= Mid
    /\ upperBound' = IF upperBound = Mid THEN lowerBound ELSE Mid
    /\ pc' = IF upperBound' = lowerBound THEN "done" ELSE "loop"
    /\ UNCHANGED <<maxGas, base, need, cap, lowerBound, good>>

\* success: lower the upper bound to mid and remember a good probe
ProbeSucceeds ==
    /\ pc = "loop"
    /\ base <= Mid /\ need <= Mid
    /\ upperBound' = IF upperBound = Mid THEN lowerBound ELSE Mid
    /\ good' = TRUE
    /\ pc' = IF upperBound' = lowerBound THEN "done" ELSE "loop"
    /\ UNCHANGED <<maxGas, base, need, cap, lowerBound>>

Next == ProbeThrows \/ ProbeFails \/ ProbeSucceeds

Spec == Init /\ [][Next]_vars /\ WF_vars(Next)

\* the pair estimate_gas returns
Result == IF pc = "error" THEN <<0, FALSE>> ELSE <<upperBound, good>>

-----------------------------------------------------------------------------
(* Properties *)

TypeOK ==
    /\ {maxGas, base, cap, lowerBound, upperBound} \subseteq Nat
    /\ need \in Nat /\ good \in BOOLEAN
    /\ pc \in {"loop", "done", "error"}

\* the answer spec 4.7 asks for: the least gas in [intrinsic, cap] with
\* which the call succeeds, found; the cap, not found, when none does; and
\* (0, false) when the cap is below the intrinsic gas
Reference ==
    IF cap < base THEN <<0, FALSE>>
    ELSE IF need <= cap THEN <<need, TRUE>>
    ELSE <<cap, FALSE>>

\* When the loop ends and the call needs less than the cap, or more,
\* estimate_gas returns the reference answer: the adjacent-bounds cases
\* (lowerBound == mid, upperBound == mid) never skip the least succeeding
\* gas nor report a gas no probe confirmed.
EstimateIsLeastGas == (pc # "loop" /\ need # cap) => Result = Reference

\* Spec 4.7 narrows "toward the smallest succeeding upper bound": a call
\* that succeeds with exactly the cap is found.
CapSufficesIsFound == (pc # "loop" /\ base <= cap /\ need = cap) => Result = <<cap, TRUE>>

\* The do-while loop always ends: every probe moves a bound.
EstimateTerminates == <>(pc # "loop")

=============================================================================
