----------------------------- MODULE CoinsCache -----------------------------
(***************************************************************************)
(* The stack of coin views the node runs on: the coins database, pcoinsTip *)
(* over it, and the CCoinsViewCache that ConnectTip, DisconnectTip and      *)
(* TestBlockValidity put over pcoinsTip for one block.  cs_main makes each  *)
(* of those a critical section, so there is at most one such view, and      *)
(* pcoinsTip is flushed, read through and uncached only while there is      *)
(* none.  The database takes a whole flush at once here; CoinsRecovery      *)
(* models its batches.                                                      *)
(***************************************************************************)
EXTENDS CoinsView

CONSTANTS
    Blocks,     \* block hashes
    Null        \* the null hash

ASSUME BlocksAssumption == Null \notin Blocks

VARIABLES
    db,         \* CCoinsViewDB: the coins on disk
    dbBest,     \* DB_BEST_BLOCK
    tip,        \* pcoinsTip->cacheCoins
    tipBest,    \* pcoinsTip->hashBlock, Null until GetBestBlock reads it
    open,       \* is there a view over pcoinsTip
    view,       \* its cacheCoins
    viewBest    \* its hashBlock

vars == <<db, dbBest, tip, tipBest, open, view, viewBest>>

BlockOrNull == Blocks \cup {Null}

\* Every coin map over the outpoints.
CoinsMap == UNION {[S -> Entry] : S \in SUBSET Outpoints}

\* One type invariant for the three layers.
TypeOK ==
    /\ db \in [Outpoints -> CoinOrSpent]
    /\ dbBest \in BlockOrNull
    /\ tip \in CoinsMap
    /\ tipBest \in BlockOrNull
    /\ open \in BOOLEAN
    /\ view \in CoinsMap
    /\ viewBest \in BlockOrNull

\* The coins pcoinsTip and the view over it answer with, and their
\* GetBestBlock(), which falls back on the base while hashBlock is null.
TipCoins == GetCoin(tip, db)
ViewCoins == GetCoin(view, TipCoins)
TipGetBestBlock == IF tipBest = Null THEN dbBest ELSE tipBest
ViewGetBestBlock == IF viewBest = Null THEN TipGetBestBlock ELSE viewBest

Init ==
    /\ db = [o \in Outpoints |-> Spent]
    /\ dbBest = Null
    /\ tip = EmptyCache
    /\ tipBest = Null
    /\ open = FALSE
    /\ view = EmptyCache
    /\ viewBest = Null

------------------------------------------------------------------------------
\* Reads of pcoinsTip: mempool acceptance, RPC, network.
TipFetch(o) ==
    /\ ~open
    /\ tip' = FetchCoin(tip, db, o)
    /\ UNCHANGED <<db, dbBest, tipBest, open, view, viewBest>>

\* AcceptToMemoryPool and the mempool's TrimToSize drop what they pulled in.
TipUncache(o) ==
    /\ ~open
    /\ tip' = Uncache(tip, o)
    /\ UNCHANGED <<db, dbBest, tipBest, open, view, viewBest>>

\* FlushStateToDisk: only once there is a best block.
TipFlush ==
    /\ ~open
    /\ TipGetBestBlock # Null
    /\ tipBest' = TipGetBestBlock
    /\ db' = DbBatchWrite(db, tip)
    /\ dbBest' = TipGetBestBlock
    /\ tip' = EmptyCache
    /\ UNCHANGED <<open, view, viewBest>>

\* CCoinsViewCache view(pcoinsTip.get()); its first use is GetBestBlock().
OpenView ==
    /\ ~open
    /\ open' = TRUE
    /\ view' = EmptyCache
    /\ tipBest' = TipGetBestBlock
    /\ viewBest' = TipGetBestBlock
    /\ UNCHANGED <<db, dbBest, tip>>

\* HaveCoin, AccessCoin, GetCoin: a miss in the view goes through pcoinsTip.
ViewFetch(o) ==
    /\ open
    /\ tip' = IF o \in DOMAIN view THEN tip ELSE FetchCoin(tip, db, o)
    /\ view' = FetchCoin(view, TipCoins, o)
    /\ UNCHANGED <<db, dbBest, tipBest, open, viewBest>>

\* AddCoin.  A caller passes possible_overwrite = false only for a coin it
\* knows not to exist: UndoCoinSpend and AddCoins(check) have just asked
\* HaveCoin, ConnectBlock adds the outputs of new transactions.
ViewAddCoin(o, c, overwrite) ==
    /\ open
    /\ overwrite \/ ViewCoins[o] = Spent
    /\ view' = AddCoin(view, o, c, overwrite)
    /\ UNCHANGED <<db, dbBest, tip, tipBest, open, viewBest>>

\* The logic_error of AddCoin: ConnectBlock catches it, calls the block
\* invalid, and ConnectTip leaves the view's scope.
ViewAddCoinThrows(o) ==
    /\ open
    /\ AddCoinThrows(view, o, FALSE)
    /\ open' = FALSE
    /\ view' = EmptyCache
    /\ viewBest' = Null
    /\ UNCHANGED <<db, dbBest, tip, tipBest>>

ViewSpendCoin(o) ==
    /\ open
    /\ tip' = IF o \in DOMAIN view THEN tip ELSE FetchCoin(tip, db, o)
    /\ view' = SpendCoin(view, TipCoins, o)
    /\ UNCHANGED <<db, dbBest, tipBest, open, viewBest>>

ViewSetBestBlock(b) ==
    /\ open
    /\ viewBest' = b
    /\ UNCHANGED <<db, dbBest, tip, tipBest, open, view>>

\* view.Flush() and the end of the view's scope.  ConnectBlock and
\* ApplyBlockUndo have set its best block before.  A FRESH flag misapplied
\* throws out of ConnectTip: the step does not happen.
ViewFlush ==
    /\ open
    /\ viewBest # Null
    /\ ~FreshMisapplied(tip, view)
    /\ tip' = BatchWrite(tip, view)
    /\ tipBest' = viewBest
    /\ open' = FALSE
    /\ view' = EmptyCache
    /\ viewBest' = Null
    /\ UNCHANGED <<db, dbBest>>

\* The block was invalid or only to be tested: the view goes out of scope
\* unflushed.
ViewDiscard ==
    /\ open
    /\ open' = FALSE
    /\ view' = EmptyCache
    /\ viewBest' = Null
    /\ UNCHANGED <<db, dbBest, tip, tipBest>>

Next ==
    \/ \E o \in Outpoints : TipFetch(o) \/ TipUncache(o)
    \/ TipFlush
    \/ OpenView
    \/ \E o \in Outpoints :
           ViewFetch(o) \/ ViewSpendCoin(o) \/ ViewAddCoinThrows(o)
    \/ \E o \in Outpoints, c \in Coins, overwrite \in BOOLEAN :
           ViewAddCoin(o, c, overwrite)
    \/ \E b \in Blocks : ViewSetBestBlock(b)
    \/ ViewFlush
    \/ ViewDiscard

Spec == Init /\ [][Next]_vars
------------------------------------------------------------------------------
\* A cache is coherent with its base when FRESH is only on unspent entries
\* the base has no coin for, and an entry that is not DIRTY is the base's own
\* coin.
Coherent(cache, base) ==
    \A o \in DOMAIN cache :
        /\ cache[o].fresh => cache[o].coin # Spent /\ base[o] = Spent
        /\ ~cache[o].dirty => cache[o].coin # Spent /\ cache[o].coin = base[o]

\* Both caches stay coherent with what is below them, whatever order blocks
\* are connected, disconnected or abandoned in and whenever pcoinsTip is
\* flushed or uncached in between: the meaning coins.h gives to DIRTY and
\* FRESH.
CachesCoherent == Coherent(tip, db) /\ Coherent(view, TipCoins)

\* The logic_error of BatchWrite, "FRESH flag misapplied to cache entry for
\* base transaction with spendable outputs", is never thrown.
FlushNeverThrows == ~FreshMisapplied(tip, view)

\* Writing pcoinsTip out now would leave on disk exactly the coins pcoinsTip
\* answers with: no spend and no new coin is lost by the flags.
FlushIsComplete == DbBatchWrite(db, tip) = TipCoins

\* The stack behaves as one map with atomic commits (module UtxoSet): fetches,
\* flushes to disk and uncaching are invisible to its users.
Utxo == INSTANCE UtxoSet WITH
            utxo <- TipCoins, best <- TipGetBestBlock, open <- open,
            work <- ViewCoins, workBest <- ViewGetBestBlock

ImplementsUtxoSet == Utxo!Spec
==============================================================================
