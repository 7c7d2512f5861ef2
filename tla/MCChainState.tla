---------------------------- MODULE MCChainState ----------------------------
(* The executor with four accounts: alice is funded, bob exists empty (like *)
(* a precompiled account), carol and dave do not exist.  tA is spec        *)
(* scenario 4's transfer beyond alice's balance; tB moves all of it and is *)
(* linked again at MCI 2; tC creates dave; tD is a zero-value transfer      *)
(* from the non-existent carol to the empty bob; tE reuses alice's nonce  *)
(* 0, which tB consumed.                                                   *)
(* Approves, with epoch_period 1 and witness_count 2: aA, aB and aC are    *)
(* sent in epoch 1 and stable at MCI 1, so MCI 2 elects the two largest    *)
(* outputs for epoch 3; aD (epoch 2) is stable at MCI 2 and linked again   *)
(* at MCI 3, too few to elect for epoch 4; aE (epoch 1) is stable only at  *)
(* MCI 2, too late to count.  MCI 1 finds no outputs of epoch 0.           *)
(* MCApFuture makes aC an approve of epoch 2, stable at MCI 1.             *)
EXTENDS ChainState

CONSTANTS alice, bob, carol, dave, tA, tB, tC, tD, tE, aA, aB, aC, aD, aE

MCAccts == {alice, bob, carol, dave}
MCTxIds == {tA, tB, tC, tD, tE}

MCTx == [t \in MCTxIds |->
            CASE t = tA -> [from |-> alice, to |-> bob, value |-> 3, nonce |-> 0]
              [] t = tB -> [from |-> alice, to |-> bob, value |-> 2, nonce |-> 0]
              [] t = tC -> [from |-> alice, to |-> dave, value |-> 1, nonce |-> 1]
              [] t = tD -> [from |-> carol, to |-> bob, value |-> 0, nonce |-> 0]
              [] t = tE -> [from |-> alice, to |-> carol, value |-> 1, nonce |-> 0]]

MCGenesis == [a \in MCAccts |->
                CASE a = alice -> [bal |-> 2, nonce |-> 0]
                  [] a = bob -> [bal |-> 0, nonce |-> 0]
                  [] OTHER -> None]

MCMcis == << <<tA, tB>>, <<tB, tC, tE, tD>>, <<>> >>

MCAps == {aA, aB, aC, aD, aE}

MCAp == [a \in MCAps |->
            CASE a = aA -> [sender |-> bob, epoch |-> 1, output |-> 5]
              [] a = aB -> [sender |-> carol, epoch |-> 1, output |-> 7]
              [] a = aC -> [sender |-> alice, epoch |-> 1, output |-> 3]
              [] a = aD -> [sender |-> dave, epoch |-> 2, output |-> 4]
              [] a = aE -> [sender |-> dave, epoch |-> 1, output |-> 9]]

\* aC sent for epoch 2 but stable at MCI 1, an epoch early
MCApFuture == [MCAp EXCEPT ![aC] = [sender |-> alice, epoch |-> 2, output |-> 3]]

MCMcApproves == << <<aA, aB, aC>>, <<aD, aE>>, <<aD>> >>

MCInitialWitnesses == {alice, bob}
=============================================================================
