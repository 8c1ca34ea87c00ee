----------------------------- MODULE BaseIndex -----------------------------
(***************************************************************************)
(* BaseIndex with TxIndex::WriteBlock: an optional index that follows the  *)
(* active chain.  ThreadSync catches up with the chain; from then on the   *)
(* validation notifications, which arrive late, keep the index current.    *)
(* The index's database holds the position of every transaction and the    *)
(* locator of the block the index has reached.                             *)
(*                                                                         *)
(* A block holds its own coinbase transaction, named by the block, and the *)
(* blocks of SharedIn also hold the transaction Shared (a transaction that *)
(* two branches confirm).  A locator is named by its first block: up to    *)
(* ten blocks back it holds every ancestor.  The writes of the index reach *)
(* its database in order, so a crash keeps what was written.               *)
(***************************************************************************)
EXTENDS Integers, Sequences

CONSTANTS
    Blocks,             \* block index entries
    Genesis,            \* the genesis block
    None,               \* the null pointer; an absent locator or position
    Parent, nHeight,    \* pprev, None for the genesis block, and the height
    Shared, SharedIn,   \* a transaction in several blocks, and those blocks
    InitialTips,        \* active tips when the index is started first
    InitialLocators,    \* what the index's database then holds
    Faults,             \* the node may crash, and reads and writes may fail
    MaxTipChanges, MaxFlushes, MaxRestarts

ASSUME TreeAssumption ==
    /\ Genesis \in Blocks /\ None \notin Blocks
    /\ Parent \in [Blocks -> Blocks \cup {None}]
    /\ nHeight \in [Blocks -> Nat]
    /\ \A b \in Blocks : Parent[b] = None <=> b = Genesis
    /\ nHeight[Genesis] = 0
    /\ \A b \in Blocks \ {Genesis} : nHeight[b] = nHeight[Parent[b]] + 1

ASSUME StartAssumption ==
    InitialTips \cup InitialLocators \subseteq Blocks \cup {None}

VARIABLES
    tip,                    \* ChainActive().Tip()
    flushed,                \* the tip the chain state on disk is at
    queue,                  \* validation notifications not yet delivered
    m_synced, m_best_block_index,
    m_interrupt,
    thread,                 \* ThreadSync: "loop", "write", "commit" or "done"
    pindex,                 \* its local variable
    txs, locator,           \* the database: DB_TXINDEX and DB_BEST_BLOCK
    running,                \* the process runs
    tipChanges, flushes, restarts

index == <<m_synced, m_best_block_index, m_interrupt, thread, pindex>>
database == <<txs, locator>>
counters == <<tipChanges, flushes, restarts>>
vars == <<tip, flushed, queue, index, database, running, counters>>

-----------------------------------------------------------------------------
(* The block tree and the active chain.                                    *)

\* The blocks of the chain that ends in b, b and the genesis block included.
Ancestors ==
    [b \in Blocks \cup {None} |->
        {a \in Blocks : b # None /\ \A S \in SUBSET Blocks :
            b \in S /\ (\A x \in S \ {Genesis} : Parent[x] \in S) => a \in S}]

\* A chain does not confirm a transaction twice.
ASSUME SharedAssumption ==
    /\ Shared \notin Blocks
    /\ \A b \in SharedIn \cap Blocks : SharedIn \cap Ancestors[b] = {b}

\* CBlockIndex::GetAncestor.
GetAncestor(b, height) ==
    LET at == {a \in Ancestors[b] : nHeight[a] = height}
    IN  IF at = {} THEN None ELSE CHOOSE a \in at : TRUE

\* CChain::FindFork, and FindForkInGlobalIndex for a locator.
FindFork(chainTip, b) ==
    LET common == Ancestors[chainTip] \cap Ancestors[b]
    IN  IF common = {} THEN None ELSE CHOOSE a \in common : Ancestors[a] = common

\* CChain::Next.
ChainNext(b) ==
    IF b \in Ancestors[tip] THEN GetAncestor(tip, nHeight[b] + 1) ELSE None

\* Slip: the locator of the active chain, wherever the index is.
GetLocatorTip(b) == tip

\* CChain::GetLocator: of the tip when there is no block.
GetLocator(b) == IF b = None THEN tip ELSE b

\* The blocks from the fork with the active chain up to b, in order.
PathTo(b) ==
    LET fork == FindFork(tip, b)
        first == IF fork = None THEN 0 ELSE nHeight[fork] + 1
    IN  [i \in 1..(nHeight[b] - first + 1) |-> GetAncestor(b, first + i - 1)]

TxsOf(b) == {b} \cup (IF b \in SharedIn THEN {Shared} ELSE {})

Connected(b) == [kind |-> "BlockConnected", block |-> b]
Flushed(b) == [kind |-> "ChainStateFlushed", block |-> b]

\* cs_main is free: ThreadSync holds it while it commits at its end.
CsMain == running /\ thread # "commit"

-----------------------------------------------------------------------------
(* The chain state, as far as the index sees it.                           *)

\* ActivateBestChain: a chain with more work is connected.
ActivateBestChain(b) ==
    /\ CsMain
    /\ tipChanges < MaxTipChanges
    /\ tip # None => nHeight[b] > nHeight[tip]
    /\ tip' = b
    /\ queue' = queue \o [i \in DOMAIN PathTo(b) |-> Connected(PathTo(b)[i])]
    /\ tipChanges' = tipChanges + 1
    /\ UNCHANGED <<flushed, index, database, running, flushes, restarts>>

\* UnwindBlock: the tip is disconnected; an index hears nothing of it.
DisconnectTip ==
    /\ CsMain
    /\ tipChanges < MaxTipChanges
    /\ tip # None /\ Parent[tip] # None
    /\ tip' = Parent[tip]
    /\ tipChanges' = tipChanges + 1
    /\ UNCHANGED <<flushed, queue, index, database, running, flushes, restarts>>

FlushStateToDisk ==
    /\ CsMain
    /\ flushes < MaxFlushes
    /\ tip # None
    /\ flushed' = tip
    /\ queue' = Append(queue, Flushed(tip))
    /\ flushes' = flushes + 1
    /\ UNCHANGED <<tip, index, database, running, tipChanges, restarts>>

-----------------------------------------------------------------------------
(* The index.                                                              *)

\* Slip: only new transactions are written.
WriteBlockIfNew(b) ==
    [t \in DOMAIN txs |-> IF t \in TxsOf(b) /\ txs[t] = None THEN b ELSE txs[t]]

\* TxIndex::WriteBlock: nothing for the genesis block.
WriteBlock(b) ==
    [t \in DOMAIN txs |-> IF nHeight[b] > 0 /\ t \in TxsOf(b) THEN b ELSE txs[t]]

\* BaseIndex::Init with the given active tip.
InitBest(chainTip) ==
    IF locator = None THEN None ELSE FindFork(chainTip, locator)

Commit(best) == locator' = GetLocator(best)

\* Slip: the sync thread follows its own branch only.
NextSyncBlockSameBranch(prev) ==
    IF prev = None THEN GetAncestor(tip, 0) ELSE ChainNext(prev)

\* Slip: the fork itself rather than the block after it.
NextSyncBlockFork(prev) ==
    IF prev = None THEN GetAncestor(tip, 0)
    ELSE IF ChainNext(prev) # None THEN ChainNext(prev)
    ELSE FindFork(tip, prev)

NextSyncBlock(prev) ==
    IF prev = None THEN GetAncestor(tip, 0)
    ELSE IF ChainNext(prev) # None THEN ChainNext(prev)
    ELSE ChainNext(FindFork(tip, prev))

\* An iteration of ThreadSync up to the block to write.  timed: half a minute
\* has passed since the last commit, which is always so the first time.
ThreadSync(timed) ==
    /\ running /\ thread = "loop"
    /\ \/ /\ m_interrupt
          /\ m_best_block_index' = pindex
          /\ Commit(pindex)
          /\ thread' = "done"
          /\ UNCHANGED <<pindex, m_synced>>
       \/ /\ ~m_interrupt /\ NextSyncBlock(pindex) = None
          /\ m_best_block_index' = pindex
          /\ m_synced' = TRUE
          /\ thread' = "commit"
          /\ UNCHANGED <<pindex, locator>>
       \/ /\ ~m_interrupt /\ NextSyncBlock(pindex) # None
          /\ pindex' = NextSyncBlock(pindex)
          /\ IF timed THEN m_best_block_index' = pindex' /\ Commit(pindex')
                      ELSE UNCHANGED <<m_best_block_index, locator>>
          /\ thread' = "write"
          /\ UNCHANGED m_synced
    /\ UNCHANGED <<tip, flushed, queue, m_interrupt, txs, running, counters>>

\* The commit after m_synced is set.
ThreadSyncCommit ==
    /\ running /\ thread = "commit"
    /\ Commit(m_best_block_index)
    /\ thread' = "done"
    /\ UNCHANGED <<tip, flushed, queue, m_synced, m_best_block_index, m_interrupt,
                   pindex, txs, running, counters>>

ThreadSyncWrite ==
    /\ running /\ thread = "write"
    /\ txs' = WriteBlock(pindex)
    /\ thread' = "loop"
    /\ UNCHANGED <<tip, flushed, queue, m_synced, m_best_block_index, m_interrupt,
                   pindex, locator, running, counters>>

\* The block cannot be read, or not be written: FatalError.
ThreadSyncFails ==
    /\ Faults /\ running /\ thread = "write"
    /\ m_interrupt' = TRUE
    /\ thread' = "done"
    /\ UNCHANGED <<tip, flushed, queue, m_synced, m_best_block_index,
                   pindex, database, running, counters>>

\* Whether BlockConnected takes the block.
ConnectsToBest(b) ==
    IF m_best_block_index = None THEN nHeight[b] = 0
    ELSE GetAncestor(m_best_block_index, nHeight[b] - 1) = Parent[b]

BlockConnected ==
    /\ running /\ queue # <<>> /\ Head(queue).kind = "BlockConnected"
    /\ queue' = Tail(queue)
    /\ LET b == Head(queue).block IN
          \/ /\ m_synced /\ ConnectsToBest(b)
             /\ txs' = WriteBlock(b)
             /\ m_best_block_index' = b
             /\ UNCHANGED m_interrupt
          \* WriteBlock fails, which it cannot for the genesis block.
          \/ /\ Faults
             /\ m_synced /\ ConnectsToBest(b) /\ nHeight[b] > 0
             /\ m_interrupt' = TRUE
             /\ UNCHANGED <<txs, m_best_block_index>>
          \* The first block is not the genesis block: FatalError.
          \/ /\ m_synced /\ ~ConnectsToBest(b)
             /\ m_interrupt' = (m_interrupt \/ m_best_block_index = None)
             /\ UNCHANGED <<txs, m_best_block_index>>
          \/ /\ ~m_synced
             /\ UNCHANGED <<txs, m_best_block_index, m_interrupt>>
    /\ UNCHANGED <<tip, flushed, m_synced, thread, pindex, locator, running, counters>>

ChainStateFlushed ==
    /\ CsMain /\ queue # <<>> /\ Head(queue).kind = "ChainStateFlushed"
    /\ queue' = Tail(queue)
    /\ LET b == Head(queue).block IN
       IF m_synced /\ GetAncestor(m_best_block_index, nHeight[b]) = b
       THEN Commit(m_best_block_index)
       ELSE UNCHANGED locator
    /\ UNCHANGED <<tip, flushed, index, txs, running, counters>>

-----------------------------------------------------------------------------
(* Stopping and starting.                                                  *)

\* Interrupt, or StartShutdown after a fatal error.
Interrupt ==
    /\ running /\ ~m_interrupt
    /\ m_interrupt' = TRUE
    /\ UNCHANGED <<tip, flushed, queue, m_synced, m_best_block_index, thread, pindex,
                   database, running, counters>>

\* Stop unregisters the index and joins the thread, and only then is the
\* chain state flushed.
Stop ==
    /\ running /\ m_interrupt /\ thread = "done"
    /\ flushed' = tip
    /\ running' = FALSE
    /\ queue' = <<>>
    /\ UNCHANGED <<tip, index, database, counters>>

Crash ==
    /\ Faults /\ running
    /\ running' = FALSE
    /\ queue' = <<>>
    /\ UNCHANGED <<tip, flushed, index, database, counters>>

StartAt(chainTip) ==
    /\ tip' = chainTip
    /\ m_best_block_index' = InitBest(chainTip)
    /\ pindex' = InitBest(chainTip)
    /\ m_synced' = (InitBest(chainTip) = chainTip)
    /\ thread' = IF InitBest(chainTip) = chainTip THEN "done" ELSE "loop"
    /\ m_interrupt' = FALSE
    /\ running' = TRUE

Start ==
    /\ ~running
    /\ restarts < MaxRestarts
    /\ restarts' = restarts + 1
    /\ StartAt(flushed)
    /\ UNCHANGED <<flushed, queue, database, tipChanges, flushes>>

\* The first start of the node with the index: the index has been enabled
\* just now, or it has followed the chain up to its locator.
Init ==
    /\ tip \in InitialTips /\ flushed = tip /\ queue = <<>>
    /\ locator \in InitialLocators
    /\ txs = [t \in Blocks \cup {Shared} |->
                 LET in == {b \in Ancestors[locator] : nHeight[b] > 0 /\ t \in TxsOf(b)}
                 IN  IF in = {} THEN None ELSE CHOOSE b \in in : TRUE]
    /\ m_best_block_index = InitBest(tip) /\ pindex = InitBest(tip)
    /\ m_synced = (InitBest(tip) = tip)
    /\ thread = IF InitBest(tip) = tip THEN "done" ELSE "loop"
    /\ m_interrupt = FALSE /\ running = TRUE
    /\ tipChanges = 0 /\ flushes = 0 /\ restarts = 0

SyncThread == (\E timed \in BOOLEAN : ThreadSync(timed)) \/ ThreadSyncCommit \/ ThreadSyncWrite

Next ==
    \/ \E b \in Blocks : ActivateBestChain(b)
    \/ DisconnectTip
    \/ FlushStateToDisk
    \/ SyncThread \/ ThreadSyncFails
    \/ BlockConnected
    \/ ChainStateFlushed
    \/ Interrupt \/ Stop \/ Crash \/ Start

Spec == Init /\ [][Next]_vars

\* The sync thread and the notification thread go on when they can.
FairSpec ==
    /\ Spec
    /\ WF_vars(SyncThread)
    /\ WF_vars(BlockConnected) /\ WF_vars(ChainStateFlushed)

-----------------------------------------------------------------------------
(* Properties.                                                             *)

\* The types of the index's state.
TypeOK ==
    /\ {tip, flushed, pindex, m_best_block_index, locator} \subseteq Blocks \cup {None}
    /\ queue \in Seq([kind : {"BlockConnected", "ChainStateFlushed"}, block : Blocks])
    /\ m_synced \in BOOLEAN /\ m_interrupt \in BOOLEAN /\ running \in BOOLEAN
    /\ thread \in {"loop", "write", "commit", "done"}
    /\ thread = "write" => pindex # None
    /\ txs \in [Blocks \cup {Shared} -> Blocks \cup {None}]

\* Every transaction of the active chain is found, in its block.
ActiveChainIsIndexed ==
    \A b \in Ancestors[tip] : nHeight[b] > 0 => \A t \in TxsOf(b) : txs[t] = b

\* What BlockUntilSyncedToCurrentChain looks at before it waits.
CaughtUp ==
    /\ running /\ m_synced /\ m_best_block_index # None /\ tip # None
    /\ GetAncestor(m_best_block_index, nHeight[tip]) = tip

\* When BlockUntilSyncedToCurrentChain returns without waiting, every
\* transaction of the active chain is found in its block, whatever
\* notifications are still in the queue.
FastPathIsRight == CaughtUp => ActiveChainIsIndexed

\* FastPathIsRight as long as the node has not been restarted, whatever writes
\* have failed.
FastPathIsRightUntilRestart == restarts = 0 => FastPathIsRight

\* When it has waited for the queue, the index has reached the active tip: no
\* block that was connected while the sync thread finished is missed, unless
\* a write failed and the node is shutting down.
QuietMeansCaughtUp ==
    running /\ ~m_interrupt /\ m_synced /\ queue = <<>> /\ tip # None => CaughtUp

\* "Read block locator of the chain that the txindex is in sync with", and how
\* far the index may fall short of it: whenever and for whatever reason the
\* node first stops, the one block its locator may name and its database lack
\* is the block the sync thread was about to write.
\* (An index interrupted before any block commits the active tip's locator,
\* and is left out.)
OnlyTheNextBlockIsMissing ==
    ~running /\ restarts = 0 /\ pindex # None =>
        \A a \in Ancestors[locator] \ {pindex} : nHeight[a] > 0 => txs[a] = a

\* The sync thread ends: it reaches the tip of a chain that is left alone.
SyncEnds == (running /\ thread # "done") ~> (thread = "done" \/ ~running)
=============================================================================
