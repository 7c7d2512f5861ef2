------------------------------- MODULE MCChain -------------------------------
(* Model of the chain engine for TLC: two witnesses (the majority of two is *)
(* two), genesis authored by a witness, and block hashes in an order that  *)
(* is neither the admission order nor its reverse.                         *)
EXTENDS Chain

CONSTANTS w1, w2

\* hash rank of genesis and of the first four offered blocks
MCRank == [b \in AllBlocks |-> IF b = Genesis THEN 0 ELSE <<3, 1, 4, 2>>[b]]
MCSenders == {w1, w2}
MCWitnesses == {w1, w2}

\* A five-block instance for the level order of a stable batch: one witness,
\* the author of each offered block fixed, and no previous block. The
\* constraint only removes behaviours, so a violation it finds is one of
\* the unconstrained model too.
MCRank5 == [b \in AllBlocks |-> IF b = Genesis THEN 0 ELSE <<3, 2, 4, 1, 5>>[b]]
MCOneWitness == {w1}
MCFrom5 == <<w2, w2, w1, w1, w1>>
MCFixedAuthors ==
    \A b \in AllBlocks \ {Genesis} :
        blk'[b] # blk[b] => blk'[b].previous = None /\ blk'[b].from = MCFrom5[b]

\* The state without the stored last_stable_block and min_retrievable_mci:
\* no other variable is computed from them, so two states this view
\* identifies have the same futures for every property that does not read
\* them, and no property of the chain_safety run reads them.
MCSafetyView ==
    <<[b \in AllBlocks |-> [parents |-> blk[b].parents, from |-> blk[b].from,
                           previous |-> blk[b].previous]],
      st, admitted, rejected, nextBlock, dagFree, mainChain, successor,
      latestStable, lastMci, lastStableMci, lastStableIndex, advanceMci, skiplist>>
=============================================================================
