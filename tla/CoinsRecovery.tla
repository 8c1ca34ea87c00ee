--------------------------- MODULE CoinsRecovery ---------------------------
(***************************************************************************)
(* The chain state on disk: blocks are connected to and disconnected from  *)
(* pcoinsTip, FlushStateToDisk writes the block index and then the coins,  *)
(* CCoinsViewDB::BatchWrite writes the coins in several database batches,  *)
(* and the node may stop between any two of these steps.  ReplayBlocks     *)
(* repairs the coins database when the node comes back.                    *)
(*                                                                         *)
(* pcoinsTip is the map of its coins here; that its cache entries denote   *)
(* this map and that a flush writes every difference is CoinsCache's       *)
(* refinement of UtxoSet.  A transaction is the outpoints it spends and    *)
(* the ones it creates (unspendable outputs left out), a coin the height   *)
(* of the block that created it.  Every block is structurally valid; one   *)
(* whose inputs are missing is rejected by ConnectBlock.                   *)
(***************************************************************************)
EXTENDS Integers, Sequences, FiniteSets

CONSTANTS
    Blocks,      \* the blocks of the tree
    Genesis,     \* its root
    Null,        \* the null hash
    Parent,      \* hashPrevBlock of each block, Null for the genesis block
    nHeight,     \* the height of each block
    Vtx,         \* the set of transactions of each block
    Outpoints,
    MaxCrashes   \* bound on the number of crashes

ASSUME TreeAssumption ==
    /\ Genesis \in Blocks /\ Null \notin Blocks
    /\ Parent \in [Blocks -> Blocks \cup {Null}]
    /\ nHeight \in [Blocks -> Nat]
    /\ \A b \in Blocks : Parent[b] = Null <=> b = Genesis
    /\ nHeight[Genesis] = 0
    /\ \A b \in Blocks \ {Genesis} : nHeight[b] = nHeight[Parent[b]] + 1
    /\ \A b \in Blocks : \A tx \in Vtx[b] :
          tx.ins \subseteq Outpoints /\ tx.outs \subseteq Outpoints
    /\ MaxCrashes \in Nat

VARIABLES
    pc,         \* what the process is doing
    index,      \* mapBlockIndex: the blocks whose data the node has
    undo,       \* undo data by block (rev files), for the blocks that have it
    coins,      \* the coins of pcoinsTip, or of the cache of ReplayBlocks
    best,       \* its best block
    pindex,     \* the block ReplayBlocks has come to, Null outside it
    todo,       \* outpoints BatchWrite has not written yet
    oldTip,     \* BatchWrite's old_tip
    tree,       \* the block tree database, [index, undo]
    db,         \* the coins database, [coins, best, heads]
    durable,    \* the state of db that would survive a power failure
    crashes     \* number of crashes so far

memory == <<index, undo, coins, best, pindex, todo, oldTip>>
vars == <<pc, memory, tree, db, durable, crashes>>

-----------------------------------------------------------------------------
(* The tree and what its blocks do to a set of coins.                      *)

Spent == 0

\* The blocks of the chain that ends in b, b and the genesis block included.
Ancestors ==
    [b \in Blocks |->
        {a \in Blocks : \A S \in SUBSET Blocks :
            b \in S /\ (\A x \in S \ {Genesis} : Parent[x] \in S) => a \in S}]

Spends(b) == UNION {tx.ins : tx \in Vtx[b]}
Creates(b) == UNION {tx.outs : tx \in Vtx[b]}

NoCoins == [o \in Outpoints |-> Spent]

\* All outputs are added first, so that the order of transactions in a block
\* does not matter.
AddCoins(c, b) ==
    [o \in Outpoints |-> IF o \in Creates(b) THEN nHeight[b] ELSE c[o]]

\* CheckTxInputs, in the iteration that spends the inputs.
InputsAvailable(c, b) ==
    /\ \A o \in Spends(b) : AddCoins(c, b)[o] # Spent
    /\ \A tx, other \in Vtx[b] : tx # other => tx.ins \cap other.ins = {}

SpendCoins(c, b) ==
    [o \in Outpoints |-> IF o \in Spends(b) THEN Spent ELSE c[o]]

\* Slip: undo data is taken before the block's own outputs are added.
BlockUndoWithoutOutputs(c, b) == [o \in Spends(b) |-> c[o]]

BlockUndo(c, b) == [o \in Spends(b) |-> AddCoins(c, b)[o]]

\* Genesis outputs are never added.
ConnectBlock(c, b) ==
    IF b = Genesis THEN c ELSE SpendCoins(AddCoins(c, b), b)

\* Slip: created outputs are reverted before the inputs are restored.
ApplyBlockUndoOutputsFirst(c, b, u) ==
    LET reverted == [o \in Outpoints |-> IF o \in Creates(b) THEN Spent ELSE c[o]]
    IN  [coins |-> [o \in Outpoints |->
                       IF o \in Spends(b) THEN u[o] ELSE reverted[o]],
         clean |-> TRUE]

ApplyBlockUndo(c, b, u) ==
    LET restored == [o \in Outpoints |-> IF o \in Spends(b) THEN u[o] ELSE c[o]]
    IN  [coins |-> [o \in Outpoints |->
                       IF o \in Creates(b) THEN Spent ELSE restored[o]],
         clean |-> /\ \A o \in Spends(b) : c[o] = Spent
                   /\ \A o \in Creates(b) : restored[o] = nHeight[b]]

\* The blocks up to b that create or spend an outpoint; what the genesis
\* block creates is not counted.
Touching(b, o) ==
    {a \in Ancestors[b] \ {Genesis} : o \in Creates(a) \cup Spends(a)}

\* The set of coins a chain that ends in b is meant to have: the last block
\* that touched an outpoint created it, or it is spent.
UtxoAt ==
    [b \in Blocks \cup {Null} |-> [o \in Outpoints |->
        IF b = Null \/ Touching(b, o) = {} THEN Spent
        ELSE LET last == CHOOSE a \in Touching(b, o) :
                            \A x \in Touching(b, o) : nHeight[x] <= nHeight[a]
             IN  IF o \in Spends(last) THEN Spent ELSE nHeight[last]]]

\* No chain whose blocks all connect creates an outpoint twice: a coinbase
\* names its height, any other transaction inputs that are spent once.
ASSUME NoDuplicatesAssumption ==
    \A b \in Blocks :
        (\A a \in Ancestors[b] \ {Genesis} : InputsAvailable(UtxoAt[Parent[a]], a)) =>
            \A a \in Ancestors[b] \ {b, Genesis} : Creates(a) \cap Creates(b) = {}

-----------------------------------------------------------------------------
(* Start and stop.                                                         *)

NoHeads == <<>>

Init ==
    /\ pc = "running"
    /\ index = {Genesis}
    /\ undo = <<>>
    /\ coins = NoCoins
    /\ best = Null
    /\ pindex = Null
    /\ todo = {}
    /\ oldTip = Null
    /\ tree = [index |-> {Genesis}, undo |-> <<>>]
    /\ db = [coins |-> NoCoins, best |-> Null, heads |-> NoHeads]
    /\ durable = db
    /\ crashes = 0

\* The kernel writes back what LevelDB logged without fsync.
WriteBack ==
    /\ durable # db
    /\ durable' = db
    /\ UNCHANGED <<pc, memory, tree, db, crashes>>

Forget ==
    /\ index' = {}
    /\ undo' = <<>>
    /\ coins' = NoCoins
    /\ best' = Null
    /\ pindex' = Null
    /\ todo' = {}
    /\ oldTip' = Null

\* The process ends at any point, by a failed write (AbortNode), by
\* -dbcrashratio's _Exit or killed.
Crash ==
    /\ pc # "down" /\ crashes < MaxCrashes
    /\ pc' = "down"
    /\ crashes' = crashes + 1
    /\ Forget
    /\ UNCHANGED <<tree, db, durable>>

\* The machine loses power: un-synced batches are lost, later ones first.
PowerFailure ==
    /\ pc # "down" /\ crashes < MaxCrashes
    /\ pc' = "down"
    /\ crashes' = crashes + 1
    /\ db' = durable
    /\ Forget
    /\ UNCHANGED <<tree, durable>>

-----------------------------------------------------------------------------
(* The running node.                                                       *)

\* AcceptBlock: the block's data is on disk, its index entry in memory.
AcceptBlock(b) ==
    /\ pc = "running"
    /\ b \notin index /\ Parent[b] \in index
    /\ index' = index \cup {b}
    /\ UNCHANGED <<pc, undo, coins, best, pindex, todo, oldTip, tree, db, durable, crashes>>

\* WriteUndoDataForBlock writes undo data once.
WriteUndoDataForBlock(b) ==
    IF b = Genesis \/ b \in DOMAIN undo THEN undo
    ELSE [x \in DOMAIN undo \cup {b} |->
             IF x = b THEN BlockUndo(coins, b) ELSE undo[x]]

ConnectTip(b) ==
    /\ pc = "running"
    /\ b \in index /\ Parent[b] = best
    /\ InputsAvailable(coins, b)
    /\ undo' = WriteUndoDataForBlock(b)
    /\ coins' = ConnectBlock(coins, b)
    /\ best' = b
    /\ UNCHANGED <<pc, index, pindex, todo, oldTip, tree, db, durable, crashes>>

\* Any other result than DISCONNECT_OK discards the view and aborts.
DisconnectTip ==
    /\ pc = "running"
    /\ best \notin {Null, Genesis}
    /\ best \in DOMAIN undo
    /\ LET undone == ApplyBlockUndo(coins, best, undo[best])
       IN  undone.clean /\ coins' = undone.coins
    /\ best' = Parent[best]
    /\ UNCHANGED <<pc, index, undo, pindex, todo, oldTip, tree, db, durable, crashes>>

-----------------------------------------------------------------------------
(* FlushStateToDisk.  cs_main is held throughout, so nothing connects or   *)
(* disconnects between its steps.                                          *)

\* FlushBlockFile and WriteBatchSync, which is one synchronous batch.  A
\* periodic write ends here; a full flush goes on if there is a best block.
WriteBlockIndex ==
    /\ pc = "running"
    /\ tree' = [index |-> index, undo |-> undo]
    /\ pc' \in {"running"} \cup (IF best # Null THEN {"indexed"} ELSE {})
    /\ UNCHANGED <<memory, db, durable, crashes>>

\* BatchWrite's old_tip, read back from the heads in the middle of a replay.
BatchWriteOldTip ==
    IF db.best = Null /\ db.heads # NoHeads THEN db.heads[2] ELSE db.best

\* assert(old_heads[0] == hashBlock)
BatchWriteAssert(hashBlock) ==
    db.best = Null /\ db.heads # NoHeads => db.heads[1] = hashBlock

\* Slip: the coins are flushed although the index was not written.
FlushCoinsUnindexed ==
    /\ pc \in {"running", "indexed"}
    /\ best # Null
    /\ todo' = {o \in Outpoints : coins[o] # db.coins[o]}
    /\ oldTip' = BatchWriteOldTip
    /\ pc' = "flushing"
    /\ UNCHANGED <<index, undo, coins, best, pindex, tree, db, durable, crashes>>

\* pcoinsTip->Flush enters BatchWrite.
FlushCoins ==
    /\ pc = "indexed"
    /\ todo' = {o \in Outpoints : coins[o] # db.coins[o]}
    /\ oldTip' = BatchWriteOldTip
    /\ pc' = "flushing"
    /\ UNCHANGED <<index, undo, coins, best, pindex, tree, db, durable, crashes>>

Written(S) == [o \in Outpoints |-> IF o \in S THEN coins[o] ELSE db.coins[o]]

\* A batch that grew past -dbbatchsize; the first one writes the heads and
\* erases the best block.  S may be empty: dirty entries need not differ.
PartialBatch(S) ==
    /\ pc = "flushing"
    /\ db' = [coins |-> Written(S), best |-> Null, heads |-> <<best, oldTip>>]
    /\ todo' = todo \ S
    /\ UNCHANGED <<pc, index, undo, coins, best, pindex, oldTip, tree, durable, crashes>>

\* Slip: no final batch when no coin is left for it.
FinalBatchIfCoinsLeft ==
    /\ pc = "flushing" /\ todo # {}
    /\ db' = [coins |-> Written(todo), best |-> best, heads |-> NoHeads]
    /\ todo' = {}
    /\ oldTip' = Null
    /\ pc' = "running"
    /\ UNCHANGED <<index, undo, coins, best, pindex, tree, durable, crashes>>

\* The last batch names the best block again, together with the last coins.
FinalBatch ==
    /\ pc = "flushing"
    /\ db' = [coins |-> Written(todo), best |-> best, heads |-> NoHeads]
    /\ todo' = {}
    /\ oldTip' = Null
    /\ pc' = "running"
    /\ UNCHANGED <<index, undo, coins, best, pindex, tree, durable, crashes>>

-----------------------------------------------------------------------------
(* Coming back: LoadBlockIndex, ReplayBlocks and LoadChainTip.             *)

\* ReplayBlocks fails, and the chain state has to be rebuilt, if it meets an
\* unknown block or undo data that is not there.
ReplayPossible ==
    /\ db.heads[1] \in tree.index
    /\ Ancestors[db.heads[1]] \subseteq tree.index
    /\ db.heads[2] # Null =>
          /\ db.heads[2] \in tree.index
          /\ Ancestors[db.heads[2]] \ Ancestors[db.heads[1]] \subseteq DOMAIN tree.undo

\* The coins database is consistent: LoadChainTip takes its best block.
Load ==
    /\ pc = "down"
    /\ db.heads = NoHeads
    /\ db.best \in tree.index \cup {Null}
    /\ index' = tree.index
    /\ undo' = tree.undo
    /\ coins' = db.coins
    /\ best' = db.best
    /\ pc' = "running"
    /\ UNCHANGED <<pindex, todo, oldTip, tree, db, durable, crashes>>

\* ReplayBlocks up to its first loop: both heads are looked up.  Without an
\* old head there is nothing to roll back, and it begins after the genesis
\* block.
ReplayBlocks ==
    /\ pc = "down"
    /\ db.heads # NoHeads
    /\ db.heads[1] \in tree.index
    /\ db.heads[2] \in tree.index \cup {Null}
    /\ index' = tree.index
    /\ undo' = tree.undo
    /\ coins' = db.coins
    /\ pindex' = IF db.heads[2] = Null THEN Genesis ELSE db.heads[2]
    /\ pc' = "replaying"
    /\ UNCHANGED <<best, todo, oldTip, tree, db, durable, crashes>>

\* Slip: a block that is not cleanly undone is left as it is.
RollbackBlockIfClean ==
    /\ pc = "replaying"
    /\ pindex \notin Ancestors[db.heads[1]]
    /\ pindex \in DOMAIN undo
    /\ LET undone == ApplyBlockUndo(coins, pindex, undo[pindex])
       IN  coins' = IF undone.clean THEN undone.coins ELSE coins
    /\ pindex' = Parent[pindex]
    /\ UNCHANGED <<pc, index, undo, best, todo, oldTip, tree, db, durable, crashes>>

\* A turn of the first loop, along the old branch down to the fork: the first
\* block that is on the new branch too.  UNCLEAN results are accepted: the
\* database may hold any mixture.
RollbackBlock ==
    /\ pc = "replaying"
    /\ pindex \notin Ancestors[db.heads[1]]
    /\ pindex \in DOMAIN undo
    /\ coins' = ApplyBlockUndo(coins, pindex, undo[pindex]).coins
    /\ pindex' = Parent[pindex]
    /\ UNCHANGED <<pc, index, undo, best, todo, oldTip, tree, db, durable, crashes>>

\* A turn of the second loop, along the new branch.
RollforwardBlock(b) ==
    /\ pc = "replaying"
    /\ pindex \in Ancestors[db.heads[1]]
    /\ b \in Ancestors[db.heads[1]] /\ Parent[b] = pindex
    /\ b \in index
    /\ coins' = SpendCoins(AddCoins(coins, b), b)
    /\ pindex' = b
    /\ UNCHANGED <<pc, index, undo, best, todo, oldTip, tree, db, durable, crashes>>

\* The coins of the new head are flushed, in batches, by the same BatchWrite.
FlushReplayed ==
    /\ pc = "replaying"
    /\ pindex = db.heads[1]
    /\ best' = pindex
    /\ pindex' = Null
    /\ todo' = {o \in Outpoints : coins[o] # db.coins[o]}
    /\ oldTip' = BatchWriteOldTip
    /\ pc' = "flushing"
    /\ UNCHANGED <<index, undo, coins, tree, db, durable, crashes>>

-----------------------------------------------------------------------------

Next ==
    \/ \E b \in Blocks : AcceptBlock(b) \/ ConnectTip(b)
    \/ DisconnectTip
    \/ WriteBlockIndex
    \/ FlushCoins
    \/ \E S \in SUBSET todo : PartialBatch(S)
    \/ FinalBatch
    \/ WriteBack
    \/ Crash
    \/ PowerFailure
    \/ Load
    \/ ReplayBlocks
    \/ RollbackBlock
    \/ \E b \in Blocks : RollforwardBlock(b)
    \/ FlushReplayed

Replay ==
    ReplayBlocks \/ RollbackBlock \/ (\E b \in Blocks : RollforwardBlock(b)) \/ FlushReplayed

\* The process that was started goes on with its start-up and with a flush
\* it began: neither waits for anything.
Fairness == WF_vars(Load \/ Replay \/ FlushCoins \/ FinalBatch)

Spec == Init /\ [][Next]_vars /\ Fairness

-----------------------------------------------------------------------------
(* Properties.                                                             *)

CoinMaps == [Outpoints -> 0..Cardinality(Blocks)]

\* The type of the state: pcoinsTip, the flush in progress and the two
\* databases.
TypeOK ==
    /\ pc \in {"running", "indexed", "flushing", "down", "replaying"}
    /\ index \subseteq Blocks /\ tree.index \subseteq Blocks
    /\ DOMAIN undo \subseteq index /\ DOMAIN tree.undo \subseteq tree.index
    /\ coins \in CoinMaps /\ db.coins \in CoinMaps /\ durable.coins \in CoinMaps
    /\ {best, pindex, oldTip} \subseteq Blocks \cup {Null}
    /\ todo \subseteq Outpoints
    /\ db.heads \in {NoHeads} \cup (Blocks \X (Blocks \cup {Null}))
    /\ db.heads # NoHeads => db.best = Null
    /\ crashes \in 0..MaxCrashes

\* A database with a best block holds exactly the unspent outputs of the
\* chain that ends there, whatever flushes, replays, crashes and power
\* failures came before (CCoinsViewDB::BatchWrite, ReplayBlocks).  In
\* between, every coin is the old head's or the new head's: what makes the
\* replay's idempotent undo and redo enough.  A replay that is itself
\* interrupted keeps the property.
DatabaseMatchesItsHeads ==
    IF db.heads = NoHeads THEN db.coins = UtxoAt[db.best]
    ELSE \A o \in Outpoints :
             db.coins[o] \in {UtxoAt[db.heads[1]][o], UtxoAt[db.heads[2]][o]}

\* The coins of the running node are those of its best block, across
\* reorganizations and restarts, and so are those ReplayBlocks computes
\* before it flushes them.
TipIsBestBlocksUtxo ==
    pc \in {"running", "indexed", "flushing"} => coins = UtxoAt[best]

\* DisconnectTip never meets a view its undo data does not fit: the result
\* DISCONNECT_UNCLEAN or a missing undo record, on which the node aborts.
TipCanBeDisconnected ==
    pc = "running" /\ best \notin {Null, Genesis} =>
        /\ best \in DOMAIN undo
        /\ ApplyBlockUndo(coins, best, undo[best]).clean

\* A node that stopped can always come back without -reindex: the block tree
\* database knows the best block or the heads, and has the blocks and undo
\* data the replay reads.  This is why the index is written first.  And a
\* flush begun over an interrupted one goes to the same new head, as
\* BatchWrite asserts.
RestartIsPossible ==
    /\ pc = "down" =>
          IF db.heads = NoHeads THEN db.best \in tree.index \cup {Null}
          ELSE ReplayPossible
    /\ pc = "flushing" => BatchWriteAssert(best)

\* A node that is down, or in the middle of a flush, is running again: the
\* replay ends, if crashes do.
ComesBack == (pc # "running") ~> (pc = "running")
=============================================================================
