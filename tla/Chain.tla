-------------------------------- MODULE Chain --------------------------------
(***************************************************************************)
(* The chain engine of src/mcp/node/chain.cpp: the DAG writer              *)
(* (write_dag_block), the main-chain selector (find_main_chain_changes,    *)
(* update_mci), the latest-included-MCI fixpoint                           *)
(* (update_latest_included_mci) and the stability advancer (try_advance,   *)
(* advance_stable_mci, search_stable_block, set_block_stable).             *)
(*                                                                         *)
(* Blocks are the integers 0..NumBlocks; 0 is genesis and block k is the   *)
(* k-th block offered to save_dag_block.  Rank[b] is the block's hash in   *)
(* the big-endian order the free-tips index and the stable batch sort by.  *)
(* One step of SaveDagBlock is one call of save_dag_block (one write       *)
(* transaction); one step of TryAdvanceStep is one iteration of the loop   *)
(* in try_advance (the timeout transaction checkpoints between MCIs).      *)
(* Transactions and approvals linked by blocks are left to other modules.  *)
(***************************************************************************)
EXTENDS Integers, FiniteSets, Sequences, SequencesExt

CONSTANTS
    NumBlocks,     \* number of blocks the environment offers after genesis
    Rank,          \* Rank[b]: position of b's hash in ascending hash order
    Senders,       \* block authors (model values)
    Witnesses,     \* the witness list of the (single) witness epoch
    GenesisFrom,   \* author of genesis
    MaxParents,    \* most parents a block may name
    SkiplistDivisor, \* mcp::skiplist_divisor (defined outside src/)
    Finality,      \* TRUE: the validator only admits blocks whose stability
                   \* claims stay on the main chain (see ValidatorAccepts)
    None           \* model value: absent optional field / zero hash

Genesis == 0
AllBlocks == 0..NumBlocks
Blocks == 1..NumBlocks

ASSUME /\ NumBlocks \in Nat \ {0}
       /\ Rank \in [AllBlocks -> Nat]
       /\ \A a, b \in AllBlocks : a # b => Rank[a] # Rank[b]
       /\ Witnesses \subseteq Senders /\ GenesisFrom \in Senders
       /\ MaxParents \in Nat \ {0}
       /\ Finality \in BOOLEAN
       /\ SkiplistDivisor \in Nat /\ SkiplistDivisor >= 2

\* witness_param.majority_of_witnesses (mcp::param, outside src/): the rule
\* majority = 2 * witness_count / 3 + 1 of every witness_param (spec 4.3, 4.5)
Majority == (2 * Cardinality(Witnesses)) \div 3 + 1

VARIABLES
    blk,            \* blk[b]: the immutable admitted block (parents, from, previous,
                    \* last_stable_block)
    st,             \* st[b]: block_state
    admitted,       \* blocks whose save_dag_block committed
    rejected,       \* blocks whose save_dag_block threw (write transaction rolled back)
    nextBlock,      \* the next block the environment offers
    dagFree,        \* the dag_free column family (the free-tips index)
    mainChain,      \* main_chain column family: mci -> block, domain 0..lastMci
    successor,      \* successor column family: root -> block
    latestStable,   \* dag_account(from).latest_stable_block
    lastMci,        \* m_last_mci_internal
    lastStableMci,  \* m_last_stable_mci_internal
    lastStableIndex,\* m_last_stable_index_internal
    advanceMci,     \* m_advance_info.mci
    skiplist,       \* skiplist column family: stable main-chain block -> blocks
    minRetrievable  \* m_min_retrievable_mci_internal

vars == <<blk, st, admitted, rejected, nextBlock, dagFree, mainChain, successor,
          latestStable, lastMci, lastStableMci, lastStableIndex, advanceMci,
          skiplist, minRetrievable>>

-----------------------------------------------------------------------------
(* Records and null representations *)

Status == {"unknown", "ok", "fork"}
MciOpt == Nat \cup {None}
BlockOpt == AllBlocks \cup {None}

Block == [parents : SUBSET AllBlocks, from : Senders, previous : BlockOpt, lsb : AllBlocks]
BlockState == [status : Status, free : BOOLEAN, onMc : BOOLEAN, mci : MciOpt,
               stable : BOOLEAN, sidx : Nat, level : Nat, wl : Nat, bp : BlockOpt,
               eli : MciOpt, lli : MciOpt, bpi : MciOpt, ebi : MciOpt, lbi : MciOpt]

NoBlock == [parents |-> {}, from |-> GenesisFrom, previous |-> None, lsb |-> Genesis]
NoState == [status |-> "unknown", free |-> FALSE, onMc |-> FALSE, mci |-> None,
            stable |-> FALSE, sidx |-> 0, level |-> 0, wl |-> 0, bp |-> None,
            eli |-> None, lli |-> None, bpi |-> None, ebi |-> None, lbi |-> None]

\* block::root(): the previous block, or the sender's account for its first block
Root(bk, b) == IF bk[b].previous = None THEN bk[b].from ELSE bk[b].previous
Roots == Senders \cup AllBlocks

MinOf(S) == CHOOSE x \in S : \A y \in S : x <= y
MaxOf(S) == CHOOSE x \in S : \A y \in S : x >= y

RECURSIVE AncestorsOf(_, _)
\* blocks reachable from the set S through parents (S excluded)
AncestorsOf(bk, S) ==
    LET ps == UNION {bk[x].parents : x \in S}
    IN  IF ps = {} THEN {} ELSE ps \cup AncestorsOf(bk, ps)

-----------------------------------------------------------------------------
(* Ledger collaborator (src/mcp/consensus/ledger, not in src/): modelled    *)
(* from spec.md 4.3 steps 5-7.                                             *)

\* determine_best_parent: max witnessed_level, then max level, then min hash
BetterParent(s, a, b) ==
    \/ s[a].wl > s[b].wl
    \/ s[a].wl = s[b].wl /\ s[a].level > s[b].level
    \/ s[a].wl = s[b].wl /\ s[a].level = s[b].level /\ Rank[a] < Rank[b]
DetermineBestParent(s, ps) == CHOOSE p \in ps : \A q \in ps \ {p} : BetterParent(s, p, q)

\* write_dag_block passes Ledger.calc_level the best parent only, so the
\* level is one more than that parent's, not than every parent's
CalcLevel(s, bp) == 1 + s[bp].level

RECURSIVE WitnessWalk(_, _, _, _)
\* walk best parents from x with witness authors seen so far; the level of the
\* block at which a majority of witnesses has been seen
WitnessWalk(bk, s, x, seen) ==
    LET seen2 == IF bk[x].from \in Witnesses THEN seen \cup {bk[x].from} ELSE seen
    IN  IF Cardinality(seen2) >= Majority THEN s[x].level
        ELSE IF x = Genesis THEN 0 ELSE WitnessWalk(bk, s, s[x].bp, seen2)

\* calc_witnessed_level for a new block of author f, level lvl, best parent bp
CalcWitnessedLevel(bk, s, f, lvl, bp) ==
    LET seen == IF f \in Witnesses THEN {f} ELSE {}
    IN  IF Cardinality(seen) >= Majority THEN lvl ELSE WitnessWalk(bk, s, bp, seen)

-----------------------------------------------------------------------------
(* write_dag_block: persist b, record the root's successor, clear the free *)
(* flag of its parents, and create its state as a free tip.               *)

WriteSuccessor(succ, root, b) ==
    IF succ[root] = None THEN [succ EXCEPT ![root] = b] ELSE succ

\* mutant: the parents' is_free flag is not cleared
WriteDagStateKeepFree(bk, s, b, ps, f) ==
    LET bp  == DetermineBestParent(s, ps)
        lvl == CalcLevel(s, bp)
    IN  [s EXCEPT ![b] = [NoState EXCEPT !.free = TRUE, !.bp = bp, !.level = lvl,
                                          !.wl = CalcWitnessedLevel(bk, s, f, lvl, bp)]]

WriteDagState(bk, s, b, ps, f) ==
    LET s1  == [x \in AllBlocks |-> IF x \in ps THEN [s[x] EXCEPT !.free = FALSE] ELSE s[x]]
        bp  == DetermineBestParent(s1, ps)
        lvl == CalcLevel(s1, bp)
    IN  [s1 EXCEPT ![b] = [NoState EXCEPT !.free = TRUE, !.bp = bp, !.level = lvl,
                                           !.wl = CalcWitnessedLevel(bk, s1, f, lvl, bp)]]

\* free key order: witnessed_level desc, level asc, hash asc
BetterTip(s, a, b) ==
    \/ s[a].wl > s[b].wl
    \/ s[a].wl = s[b].wl /\ s[a].level < s[b].level
    \/ s[a].wl = s[b].wl /\ s[a].level = s[b].level /\ Rank[a] < Rank[b]
BestFreeTip(s, free) == CHOOSE t \in free : \A o \in free \ {t} : BetterTip(s, t, o)

-----------------------------------------------------------------------------
(* find_main_chain_changes and update_mci *)

RECURSIVE NewMcBlocks(_, _)
\* the best-parent path from the first on-main ancestor (excluded) to t
NewMcBlocks(s, t) == IF s[t].onMc THEN <<>> ELSE Append(NewMcBlocks(s, s[t].bp), t)

RECURSIVE RetreatBlock(_, _)
RetreatBlock(s, t) == IF s[t].onMc THEN t ELSE RetreatBlock(s, s[t].bp)

\* mutant: the demotion loop stops one MCI early
UpdateMciStateLate(s, mc, retreat, path) ==
    LET demoted == {mc[i] : i \in (retreat + 2)..lastMci}
        pos(x)  == CHOOSE k \in 1..Len(path) : path[k] = x
    IN  [x \in AllBlocks |->
            IF x \in demoted THEN [s[x] EXCEPT !.onMc = FALSE, !.mci = None]
            ELSE IF x \in ToSet(path) THEN [s[x] EXCEPT !.onMc = TRUE, !.mci = retreat + pos(x)]
            ELSE s[x]]

\* update_mci: demote main_chain[retreat+1..lastMci], promote the new path
UpdateMciState(s, mc, retreat, path) ==
    LET demoted == {mc[i] : i \in (retreat + 1)..lastMci}
        pos(x)  == CHOOSE k \in 1..Len(path) : path[k] = x
    IN  [x \in AllBlocks |->
            IF x \in demoted THEN [s[x] EXCEPT !.onMc = FALSE, !.mci = None]
            ELSE IF x \in ToSet(path) THEN [s[x] EXCEPT !.onMc = TRUE, !.mci = retreat + pos(x)]
            ELSE s[x]]

\* mutant: main_chain written one entry short
UpdateMainChainShort(mc, retreat, path) ==
    [i \in 0..(retreat + Len(path) - 1) |-> IF i <= retreat THEN mc[i] ELSE path[i - retreat]]

UpdateMainChain(mc, retreat, path) ==
    [i \in 0..(retreat + Len(path)) |-> IF i <= retreat THEN mc[i] ELSE path[i - retreat]]

-----------------------------------------------------------------------------
(* update_latest_included_mci *)

\* the MCI bounds parent p contributes to its child
ContribMin(s, p) == IF s[p].onMc THEN s[p].mci ELSE s[p].eli
ContribMax(s, p) == IF s[p].onMc THEN s[p].mci ELSE s[p].lli
ContribBp(s, p)  == IF s[p].onMc THEN s[p].mci ELSE s[p].bpi

\* the five included-MCI fields of u computed from its parents in s
IncludedMcis(bk, s, u) ==
    LET ps    == bk[u].parents
        bpl   == ContribBp(s, s[u].bp)
        offs  == {p \in ps : ~s[p].onMc}
    IN  [eli |-> MinOf({ContribMin(s, p) : p \in ps}),
         lli |-> MaxOf({ContribMax(s, p) : p \in ps}),
         bpi |-> bpl,
         ebi |-> MinOf({bpl} \cup {s[p].ebi : p \in offs}),
         lbi |-> MaxOf({bpl} \cup {s[p].lbi : p \in offs})]

\* one block of the level-ordered pass: refreshed only when it has no MCI or
\* an MCI above retreat_mci
RefreshIncluded(bk, s, u, retreat) ==
    IF s[u].mci = None \/ s[u].mci > retreat
    THEN LET v == IncludedMcis(bk, s, u)
         IN  [s EXCEPT ![u].eli = v.eli, ![u].lli = v.lli, ![u].bpi = v.bpi,
                       ![u].ebi = v.ebi, ![u].lbi = v.lbi]
    ELSE s

\* the blocks of the BFS over block_child from the block at retreat_mci
Descendants(bk, adm, a) == {x \in adm : a \in AncestorsOf(bk, {x})}

\* mutant: only the new block is refreshed, also after a retreat
UpdateLatestIncludedNewOnly(bk, s, adm, b, isRetreat, retreat, retreatBlock) ==
    RefreshIncluded(bk, s, b, retreat)

UpdateLatestIncluded(bk, s, adm, b, isRetreat, retreat, retreatBlock) ==
    LET todo  == IF isRetreat THEN Descendants(bk, adm, retreatBlock) ELSE {b}
        byLvl(x, y) == s[x].level < s[y].level
                       \/ (s[x].level = s[y].level /\ Rank[x] < Rank[y])
    IN  FoldLeft(LAMBDA acc, u : RefreshIncluded(bk, acc, u, retreat), s,
                 SetToSortSeq(todo, byLvl))

-----------------------------------------------------------------------------
(* save_dag_block: write_dag_block, then the best free tip, the main-chain *)
(* changes, the MCI update, the included-MCI pass and the advance target,  *)
(* all in one write transaction.                                           *)

\* blocks the external validator may offer as block b
Candidates ==
    {[parents |-> ps, from |-> f, previous |-> pv] :
        ps \in {P \in SUBSET admitted : P # {} /\ Cardinality(P) <= MaxParents},
        f \in Senders, pv \in BlockOpt}

\* genesis is the first block of GenesisFrom
bk0from(x) == IF x = Genesis THEN GenesisFrom ELSE blk[x].from

Past(c) == c.parents \cup AncestorsOf(blk, c.parents)

ValidCandidate(c) == c.previous = None \/ (c.previous \in Past(c) /\ bk0from(c.previous) = c.from)

\* last_stable_block: a main-chain block in the past of the new block
LastStableChoices(c) == {l \in Past(c) : st[l].onMc}

\* everything save_dag_block computes for block b with content c
SaveOutcome(b, c) ==
    LET bk      == [blk EXCEPT ![b] = c]
        s1      == WriteDagState(bk, st, b, c.parents, c.from)
        free1   == (dagFree \ c.parents) \cup {b}
        tip     == BestFreeTip(s1, free1)
        path    == NewMcBlocks(s1, tip)
        rb      == RetreatBlock(s1, tip)
        retreat == s1[rb].mci
        s2      == UpdateMciState(s1, mainChain, retreat, path)
        s3      == UpdateLatestIncluded(bk, s2, admitted \cup {b}, b,
                                        retreat < lastMci, retreat, rb)
    IN  [bk |-> bk, st |-> s3, free |-> free1, retreat |-> retreat,
         mc |-> UpdateMainChain(mainChain, retreat, path),
         lastMci |-> retreat + Len(path)]

\* mutant: neither the stable-MCI-retreat check nor the demotion assert
ThrowsUnchecked(o, lsb) == ~o.st[lsb].onMc

\* find_main_chain_changes: the new main chain would leave a stable MCI
StableMciRetreat(o) == o.retreat < lastStableMci

\* update_mci: assert_x(!is_stable) on a block of the demoted stretch
DemotesStable(o) == \E i \in (o.retreat + 1)..lastMci : st[mainChain[i]].stable

\* save_dag_block: assert_x that last_stable_block is still on the main chain
LastStableOffMc(o, lsb) == ~o.st[lsb].onMc

\* the write transaction throws, in the order the calls make the checks
Throws(o, lsb) == StableMciRetreat(o) \/ DemotesStable(o) \/ LastStableOffMc(o, lsb)

\* the validator's promise under Finality: a block only claims stability of
\* a main-chain block that no later block can move, so no admitted block
\* redoes an MCI at or below a claimed one
ValidatorAccepts(o, lsb) == Finality => o.retreat >= advanceMci /\ o.st[lsb].onMc

SaveDagBlock(b, o, lsb) ==
    /\ ValidatorAccepts(o, lsb)
    /\ ~Throws(o, lsb)
    /\ blk' = [o.bk EXCEPT ![b] = [parents |-> @.parents, from |-> @.from,
                                   previous |-> @.previous, lsb |-> lsb]]
    /\ st' = o.st
    /\ admitted' = admitted \cup {b}
    /\ dagFree' = o.free
    /\ mainChain' = o.mc
    /\ successor' = WriteSuccessor(successor, Root(o.bk, b), b)
    /\ lastMci' = o.lastMci
    /\ advanceMci' = IF lastStableMci < o.st[lsb].mci THEN o.st[lsb].mci ELSE advanceMci
    /\ UNCHANGED <<rejected, latestStable, lastStableMci, lastStableIndex, skiplist, minRetrievable>>

SaveDagBlockThrows(b, o, lsb) ==
    /\ ValidatorAccepts(o, lsb)
    /\ Throws(o, lsb)
    /\ rejected' = rejected \cup {b}
    /\ UNCHANGED <<blk, st, admitted, dagFree, mainChain, successor, latestStable, skiplist, minRetrievable,
                   lastMci, lastStableMci, lastStableIndex, advanceMci>>

OfferBlock ==
    /\ nextBlock <= NumBlocks
    /\ \E c \in Candidates :
        /\ ValidCandidate(c)
        /\ LET o == SaveOutcome(nextBlock, c) IN
           \E lsb \in LastStableChoices(c) :
             \/ SaveDagBlock(nextBlock, o, lsb)
             \/ SaveDagBlockThrows(nextBlock, o, lsb)
    /\ nextBlock' = nextBlock + 1

-----------------------------------------------------------------------------
(* try_advance: one iteration per MCI; advance_stable_mci collects the     *)
(* unstable ancestors of main_chain[mci] (search_stable_block) and makes   *)
(* each stable in (level, hash) order (set_block_stable).                  *)

RECURSIVE SearchFrom(_)
\* the BFS of search_stable_block beyond the set Q: parents that are neither
\* genesis nor stable are queued, a stable block ends its branch
SearchFrom(Q) ==
    LET next == {y \in UNION {blk[x].parents : x \in Q} : y # Genesis /\ ~st[y].stable}
    IN  IF next = {} THEN {} ELSE next \cup SearchFrom(next)

\* mutant: the search queue starts from the parents of the main-chain block
SearchStableBlockFromParents(x) == SearchFrom({x})

\* search_stable_block: the unstable blocks the BFS from x reaches
SearchStableBlock(x) == IF x = Genesis \/ st[x].stable THEN {} ELSE {x} \cup SearchFrom({x})

RECURSIVE SkipListFrom(_, _)
\* the loop of cal_skip_list_mcis from the given divisor on: while it
\* divides mci, push mci - divisor and multiply it by skiplist_divisor
SkipListFrom(mci, divisor) ==
    IF mci % divisor = 0
    THEN <<mci - divisor>> \o SkipListFrom(mci, divisor * SkiplistDivisor)
    ELSE <<>>

\* mutant: the divisor starts at 1, so mci - 1 is pushed first
CalSkipListMcisFromOne(mci) == SkipListFrom(mci, 1)

\* cal_skip_list_mcis: the divisor starts at skiplist_divisor
CalSkipListMcis(mci) == SkipListFrom(mci, SkiplistDivisor)

\* set_block_stable's skip list: for a main-chain block, the main-chain
\* blocks at its skip-list MCIs, stored when the list is non-empty (the
\* asserts that each has a main_chain entry and a summary are checked by
\* SkipListMatchesReference)
SkipListPut(sk, s, x) ==
    LET blocks == {mainChain[m] : m \in Range(CalSkipListMcis(s[x].mci))}
    IN  IF s[x].onMc /\ blocks # {} THEN [sk EXCEPT ![x] = blocks] ELSE sk

\* mutant: the successor pointer is not rewritten to the stabilised block
SetBlockStableNoSuccessor(acc, x, mci) ==
    LET s    == acc.st
        pv   == blk[x].previous
        old  == acc.succ[Root(blk, x)]
        prevFork  == pv # None /\ s[pv].status = "fork"
        status    == IF prevFork \/ (old # x /\ s[old].stable) THEN "fork" ELSE "ok"
    IN  [st   |-> [s EXCEPT ![x].status = status, ![x].mci = mci,
                            ![x].stable = TRUE, ![x].sidx = acc.idx + 1],
         succ |-> acc.succ,
         ls   |-> IF status = "ok" THEN [acc.ls EXCEPT ![blk[x].from] = x] ELSE acc.ls,
         sk   |-> SkipListPut(acc.sk, s, x),
         idx  |-> acc.idx + 1]

\* mutant: the stable index is not incremented for the block
SetBlockStableSameIndex(acc, x, mci) ==
    LET s    == acc.st
        pv   == blk[x].previous
        r    == Root(blk, x)
        old  == acc.succ[r]
        prevFork  == pv # None /\ s[pv].status = "fork"
        succFork  == ~prevFork /\ old # x /\ s[old].stable
        status    == IF prevFork \/ succFork THEN "fork" ELSE "ok"
        idx  == acc.idx
    IN  [st   |-> [s EXCEPT ![x].status = status, ![x].mci = mci,
                            ![x].stable = TRUE, ![x].sidx = idx],
         succ |-> IF ~prevFork /\ old # x /\ ~s[old].stable
                  THEN [acc.succ EXCEPT ![r] = x] ELSE acc.succ,
         ls   |-> IF status = "ok" THEN [acc.ls EXCEPT ![blk[x].from] = x] ELSE acc.ls,
         sk   |-> SkipListPut(acc.sk, s, x),
         idx  |-> idx]

\* mutant: as spec section 3 reads, only a main-chain block gets an MCI
SetBlockStableMcOnlyMci(acc, x, mci) ==
    LET s    == acc.st
        pv   == blk[x].previous
        r    == Root(blk, x)
        old  == acc.succ[r]
        prevFork  == pv # None /\ s[pv].status = "fork"
        succFork  == ~prevFork /\ old # x /\ s[old].stable
        status    == IF prevFork \/ succFork THEN "fork" ELSE "ok"
        idx  == acc.idx + 1
    IN  [st   |-> [s EXCEPT ![x].status = status, ![x].mci = IF s[x].onMc THEN mci ELSE s[x].mci,
                            ![x].stable = TRUE, ![x].sidx = idx],
         succ |-> IF ~prevFork /\ old # x /\ ~s[old].stable
                  THEN [acc.succ EXCEPT ![r] = x] ELSE acc.succ,
         ls   |-> IF status = "ok" THEN [acc.ls EXCEPT ![blk[x].from] = x] ELSE acc.ls,
         sk   |-> SkipListPut(acc.sk, s, x),
         idx  |-> idx]

\* set_block_stable: fork detection, dag account, stable fields
SetBlockStable(acc, x, mci) ==
    LET s    == acc.st
        pv   == blk[x].previous
        r    == Root(blk, x)
        old  == acc.succ[r]
        prevFork  == pv # None /\ s[pv].status = "fork"
        succFork  == ~prevFork /\ old # x /\ s[old].stable
        status    == IF prevFork \/ succFork THEN "fork" ELSE "ok"
        idx  == acc.idx + 1
    IN  [st   |-> [s EXCEPT ![x].status = status, ![x].mci = mci,
                            ![x].stable = TRUE, ![x].sidx = idx],
         succ |-> IF ~prevFork /\ old # x /\ ~s[old].stable
                  THEN [acc.succ EXCEPT ![r] = x] ELSE acc.succ,
         ls   |-> IF status = "ok" THEN [acc.ls EXCEPT ![blk[x].from] = x] ELSE acc.ls,
         sk   |-> SkipListPut(acc.sk, s, x),
         idx  |-> idx]

\* mutant: the level comparison of the batch order is inverted
AdvanceStableMciLevelDesc(mci) ==
    FoldLeft(LAMBDA acc, x : SetBlockStable(acc, x, mci),
             [st |-> st, succ |-> successor, ls |-> latestStable, idx |-> lastStableIndex,
              sk |-> skiplist],
             SetToSortSeq(SearchStableBlock(mainChain[mci]),
                          LAMBDA x, y : st[x].level > st[y].level
                                        \/ (st[x].level = st[y].level /\ Rank[x] < Rank[y])))

AdvanceStableMci(mci) ==
    LET batch == SearchStableBlock(mainChain[mci])
        order(x, y) == st[x].level < st[y].level
                       \/ (st[x].level = st[y].level /\ Rank[x] < Rank[y])
    IN  FoldLeft(LAMBDA acc, x : SetBlockStable(acc, x, mci),
                 [st |-> st, succ |-> successor, ls |-> latestStable, idx |-> lastStableIndex,
                  sk |-> skiplist],
                 SetToSortSeq(batch, order))

\* try_advance after advance_stable_mci: the MCI of the last_stable_block of
\* the main-chain block at the new last_stable_mci, read from the block
\* states the batch just wrote (None where the assert_x on its
\* main_chain_index would fail)
MinRetrievableMci(s, mci) == s[blk[mainChain[mci]].lsb].mci

\* mutant: the loop stops one MCI short of advance_info.mci
TryAdvanceStepShort ==
    /\ advanceMci > lastStableMci + 1
    /\ lastStableMci + 1 \in DOMAIN mainChain
    /\ LET r == AdvanceStableMci(lastStableMci + 1) IN
       /\ st' = r.st
       /\ successor' = r.succ
       /\ latestStable' = r.ls
       /\ lastStableIndex' = r.idx
       /\ skiplist' = r.sk
       /\ minRetrievable' = MinRetrievableMci(r.st, lastStableMci + 1)
    /\ lastStableMci' = lastStableMci + 1
    /\ UNCHANGED <<blk, admitted, rejected, nextBlock, dagFree, mainChain, lastMci, advanceMci>>

TryAdvanceStep ==
    /\ advanceMci > lastStableMci
    /\ lastStableMci + 1 \in DOMAIN mainChain
    /\ LET r == AdvanceStableMci(lastStableMci + 1) IN
       /\ st' = r.st
       /\ successor' = r.succ
       /\ latestStable' = r.ls
       /\ lastStableIndex' = r.idx
       /\ skiplist' = r.sk
       /\ minRetrievable' = MinRetrievableMci(r.st, lastStableMci + 1)
    /\ lastStableMci' = lastStableMci + 1
    /\ UNCHANGED <<blk, admitted, rejected, nextBlock, dagFree, mainChain, lastMci, advanceMci>>

-----------------------------------------------------------------------------

Init ==
    /\ blk = [b \in AllBlocks |-> NoBlock]
    /\ st = [b \in AllBlocks |-> IF b = Genesis
                THEN [NoState EXCEPT !.status = "ok", !.free = TRUE, !.onMc = TRUE, !.mci = 0, !.stable = TRUE,
                                     !.eli = 0, !.lli = 0, !.bpi = 0, !.ebi = 0, !.lbi = 0]
                ELSE NoState]
    /\ admitted = {Genesis}
    /\ rejected = {}
    /\ nextBlock = 1
    /\ dagFree = {Genesis}
    /\ mainChain = [i \in {0} |-> Genesis]
    /\ successor = [r \in Roots |-> IF r = GenesisFrom THEN Genesis ELSE None]
    /\ latestStable = [f \in Senders |-> IF f = GenesisFrom THEN Genesis ELSE None]
    /\ skiplist = [b \in AllBlocks |-> {}]
    /\ minRetrievable = 0
    /\ lastMci = 0
    /\ lastStableMci = 0
    /\ lastStableIndex = 0
    /\ advanceMci = 0

Next == OfferBlock \/ TryAdvanceStep

Spec == Init /\ [][Next]_vars

\* try_advance runs its loop to completion whenever the caller invokes it and
\* advance_info.mci is ahead of last_stable_mci
FairSpec == Spec /\ WF_vars(TryAdvanceStep)

-----------------------------------------------------------------------------
(* Properties *)

TypeOK ==
    /\ blk \in [AllBlocks -> Block]
    /\ st \in [AllBlocks -> BlockState]
    /\ admitted \subseteq AllBlocks /\ rejected \subseteq Blocks
    /\ nextBlock \in 1..(NumBlocks + 1)
    /\ dagFree \subseteq admitted
    /\ DOMAIN mainChain = 0..lastMci /\ \A i \in DOMAIN mainChain : mainChain[i] \in admitted
    /\ successor \in [Roots -> BlockOpt]
    /\ latestStable \in [Senders -> BlockOpt]
    /\ skiplist \in [AllBlocks -> SUBSET AllBlocks]
    /\ {lastMci, lastStableMci, lastStableIndex, advanceMci} \subseteq Nat
    /\ minRetrievable \in MciOpt

StableBlocks == {b \in admitted : st[b].stable}

\* Invariant 1 of the data model, kept by find_main_chain_changes and
\* update_mci across retreats: main_chain[0..last_mci] is the best-parent
\* path from genesis to the best free tip, and a block is flagged on the main
\* chain exactly when main_chain holds it at its main_chain_index.
MainChainIsBestParentPath ==
    /\ mainChain[0] = Genesis
    /\ \A i \in 1..lastMci : st[mainChain[i]].bp = mainChain[i - 1]
    /\ \A b \in admitted : st[b].onMc <=> (st[b].mci \in DOMAIN mainChain /\ mainChain[st[b].mci] = b)
    /\ mainChain[lastMci] = BestFreeTip(st, dagFree)

\* Invariant 3: write_dag_block keeps the dag_free index equal to the set of
\* blocks flagged free, and a block is free exactly when no admitted block
\* names it as a parent.
FreeTipsAreChildless ==
    /\ dagFree = {b \in admitted : st[b].free}
    /\ \A b \in admitted : st[b].free <=> ~\E c \in admitted : b \in blk[c].parents

\* advance_stable_mci stabilises exactly the ancestors of the main-chain block
\* at last_stable_mci: nothing outside that past is stable, nothing inside it
\* is left unstable, and every stable block carries an MCI no larger than
\* last_stable_mci.
StableSetIsPastOfLastStable ==
    LET top == mainChain[lastStableMci]
    IN  /\ StableBlocks = {top} \cup AncestorsOf(blk, {top})
        /\ \A b \in StableBlocks : st[b].mci # None /\ st[b].mci <= lastStableMci

\* Invariant 4 and the topological stabilisation order set_block_stable
\* relies on, which sorting the batch by level gives only when a block's
\* level exceeds every parent's (spec 4.3 step 6), not only the best one's (a parent's summary must exist): stable indexes are exactly
\* 1..last_stable_index, and every parent and the previous block of a
\* stable block were stabilised before it.
StableIndexOrder ==
    /\ {st[b].sidx : b \in StableBlocks \ {Genesis}} = 1..lastStableIndex
    /\ Cardinality(StableBlocks \ {Genesis}) = lastStableIndex
    /\ \A b \in StableBlocks \ {Genesis} :
         \A p \in blk[b].parents \cup ({blk[b].previous} \ {None}) :
            st[p].stable /\ st[p].sidx < st[b].sidx

\* Fork detection (spec section 8): of the stable blocks sharing a root at
\* most one has status ok, and a block is marked fork only when its previous
\* block is a fork or a block with the same root was stabilised before it.
ForkDetection ==
    /\ \A r \in Roots :
         Cardinality({b \in StableBlocks : Root(blk, b) = r /\ st[b].status = "ok"}) <= 1
    /\ \A b \in StableBlocks :
         st[b].status = "fork" =>
            \/ blk[b].previous # None /\ st[blk[b].previous].status = "fork"
            \/ \E c \in StableBlocks \ {b} : Root(blk, c) = Root(blk, b) /\ st[c].sidx < st[b].sidx

\* Spec 4.8 step 4: a stable main-chain block at MCI m keeps back-pointers to
\* the main-chain blocks at m - d^k for every power d^k of skiplist_divisor
\* dividing m, and each of them is stable with a summary (the asserts at
\* lines 1046-1050); an off-main block has none. The stored list is read
\* from main_chain at stabilisation, so a later main-chain change below it
\* would also show here.
SkipListMatchesReference ==
    \A b \in StableBlocks \ {Genesis} :
        LET m    == st[b].mci
            pows == {SkiplistDivisor^k : k \in 1..m}
            ref  == IF st[b].onMc THEN {mainChain[m - p] : p \in {p \in pows : m % p = 0}}
                    ELSE {}
        IN  /\ skiplist[b] = ref
            /\ \A y \in skiplist[b] : st[y].stable /\ st[y].onMc

\* Invariants 2 and 5: a step never unstabilises a block or changes the MCI,
\* status or stable index of a stable block, and last_stable_mci never
\* decreases; the stable-MCI-retreat check of find_main_chain_changes is
\* what keeps update_mci from demoting a stable main-chain block.
StableIsFinal ==
    [][/\ lastStableMci' >= lastStableMci
       /\ \A b \in AllBlocks : st[b].stable =>
            /\ st'[b].stable
            /\ st'[b].mci = st[b].mci
            /\ st'[b].status = st[b].status
            /\ st'[b].sidx = st[b].sidx]_vars

(* Reference definition of the included-MCI bounds: computed afresh from   *)
(* the current main chain, recursing through unstable off-main parents.    *)

RECURSIVE RefIncluded(_)
RefIncluded(u) ==
    LET ps   == blk[u].parents
        val(p) == IF st[p].onMc THEN [eli |-> st[p].mci, lli |-> st[p].mci, bpi |-> st[p].mci,
                                      ebi |-> st[p].mci, lbi |-> st[p].mci]
                  ELSE IF st[p].stable THEN [eli |-> st[p].eli, lli |-> st[p].lli, bpi |-> st[p].bpi,
                                            ebi |-> st[p].ebi, lbi |-> st[p].lbi]
                  ELSE RefIncluded(p)
        bpl  == val(st[u].bp).bpi
        offs == {p \in ps : ~st[p].onMc}
    IN  [eli |-> MinOf({val(p).eli : p \in ps}),
         lli |-> MaxOf({val(p).lli : p \in ps}),
         bpi |-> bpl,
         ebi |-> MinOf({bpl} \cup {val(p).ebi : p \in offs}),
         lbi |-> MaxOf({bpl} \cup {val(p).lbi : p \in offs})]

StoredIncluded(u) == [eli |-> st[u].eli, lli |-> st[u].lli, bpi |-> st[u].bpi,
                      ebi |-> st[u].ebi, lbi |-> st[u].lbi]

\* update_latest_included_mci leaves every unstable block off the main chain
\* with the included-MCI bounds its parents give it under the current main
\* chain, although after a non-retreating extension it only recomputes the
\* new block.
IncludedMciFresh ==
    \A u \in admitted \ StableBlocks : ~st[u].onMc => StoredIncluded(u) = RefIncluded(u)

-----------------------------------------------------------------------------
(* Liveness *)

\* Every MCI some admitted block has claimed stable (advance_info) is
\* eventually reached by try_advance, unless a later block with an older
\* last_stable_block lowers advance_info first: save_dag_block compares the
\* claim with last_stable_mci, not with the pending advance_info.mci.
ClaimedMciBecomesStable ==
    \A m \in 1..NumBlocks : (advanceMci = m) ~> (lastStableMci >= m \/ advanceMci < m)

-----------------------------------------------------------------------------
(* Read-only queries *)

\* get_mc_info_from_block_hash: for a stable block with an MCI, the stable
\* index and MCI of the main-chain block at that MCI; None for an unstable
\* block, or one whose main-chain block is genesis (mc_timestamp and
\* last_summary_mci are not modelled)
GetMcInfo(b) ==
    IF ~st[b].stable \/ st[b].mci = None \/ mainChain[st[b].mci] = Genesis THEN None
    ELSE LET mc == mainChain[st[b].mci] IN [sidx |-> st[mc].sidx, mci |-> st[mc].mci]

\* get_mc_info_from_block_hash answers for every stable block but genesis,
\* off-main ones included, without tripping its asserts: the block's MCI has
\* a main_chain entry, that block is stable, and the MCI reported is the
\* block's own. It relies on set_block_stable giving off-main blocks the
\* MCI that stabilised them (line 1003).
McInfoOfStableBlocks ==
    \A b \in StableBlocks \ {Genesis} :
        /\ st[b].mci \in DOMAIN mainChain
        /\ st[mainChain[st[b].mci]].stable
        /\ GetMcInfo(b) # None
        /\ GetMcInfo(b).mci = st[b].mci

-----------------------------------------------------------------------------
(* Refinement: the stable blocks, batch by batch in stable-index order,   *)
(* implement StableLedger.                                                 *)

\* the blocks set_block_stable made stable at MCI m, by stable index
StableBatch(m) ==
    SetToSortSeq({b \in Blocks : st[b].stable /\ st[b].mci = m},
                 LAMBDA x, y : st[x].sidx < st[y].sidx)

Ledger == INSTANCE StableLedger WITH
    Node    <- AllBlocks,
    preds   <- [b \in AllBlocks |-> blk[b].parents \cup ({blk[b].previous} \ {None})],
    batches <- [m \in 1..lastStableMci |-> StableBatch(m)]

\* save_dag_block and try_advance together implement the abstract ledger:
\* admitting a block leaves every stable batch as it was, and each
\* try_advance iteration appends exactly the unstable past of
\* main_chain[mci], ordered so that no block precedes a parent or its
\* previous block.
RefinesStableLedger == Ledger!Spec

=============================================================================
