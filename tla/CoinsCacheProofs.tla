-------------------------- MODULE CoinsCacheProofs --------------------------
(***************************************************************************)
(* The coin views for any set of outpoints, coins and blocks: the caches    *)
(* stay coherent, BatchWrite never throws, a flush loses nothing, and the   *)
(* stack implements UtxoSet.                                                *)
(***************************************************************************)
EXTENDS CoinsCache, TLAPS

\* TypeOK in a form the provers take without set-of-functions reasoning.
IsCache(cache) ==
    /\ DOMAIN cache \subseteq Outpoints
    /\ cache \in [DOMAIN cache -> Entry]

IsBase(base) == base \in [Outpoints -> CoinOrSpent]

\* Membership in CoinsMap is being a cache.
LEMMA CacheType ==
    ASSUME NEW cache
    PROVE  cache \in CoinsMap <=> IsCache(cache)
BY DEF CoinsMap, IsCache

\* The empty cache is a coherent cache that shows its base.
LEMMA EmptyCacheFacts ==
    ASSUME NEW base, IsBase(base)
    PROVE  /\ IsCache(EmptyCache)
           /\ Coherent(EmptyCache, base)
           /\ GetCoin(EmptyCache, base) = base
BY DEF IsCache, IsBase, EmptyCache, Coherent, GetCoin

\* The coins a cache shows over a base are themselves a base.
LEMMA GetCoinType ==
    ASSUME NEW cache, NEW base, IsCache(cache), IsBase(base)
    PROVE  IsBase(GetCoin(cache, base))
BY DEF IsCache, IsBase, GetCoin, Entry

\* FetchCoin shows nothing new and keeps the cache coherent.
LEMMA FetchCoinFacts ==
    ASSUME NEW cache, NEW base, NEW o \in Outpoints,
           IsCache(cache), IsBase(base), Coherent(cache, base)
    PROVE  /\ IsCache(FetchCoin(cache, base, o))
           /\ Coherent(FetchCoin(cache, base, o), base)
           /\ GetCoin(FetchCoin(cache, base, o), base) = GetCoin(cache, base)
<1>1. CASE o \in DOMAIN cache \/ base[o] = Spent
  BY <1>1 DEF FetchCoin
<1>2. CASE ~(o \in DOMAIN cache \/ base[o] = Spent)
  <2> DEFINE e == [coin |-> base[o], dirty |-> FALSE, fresh |-> FALSE]
  <2>1. FetchCoin(cache, base, o) = Put(cache, o, e)
    BY <1>2 DEF FetchCoin
  <2>2. e \in Entry
    BY DEF Entry, IsBase
  <2>3. IsCache(Put(cache, o, e))
    BY <2>2 DEF IsCache, Put
  <2>4. Coherent(Put(cache, o, e), base)
    BY <1>2 DEF Coherent, Put
  <2>5. GetCoin(Put(cache, o, e), base) = GetCoin(cache, base)
    BY <1>2 DEF GetCoin, Put
  <2> QED BY <2>1, <2>3, <2>4, <2>5
<1> QED BY <1>1, <1>2

\* AddCoin on a coin that is not there, or as an overwrite.
LEMMA AddCoinFacts ==
    ASSUME NEW cache, NEW base, NEW o \in Outpoints, NEW c \in Coins,
           NEW overwrite \in BOOLEAN,
           IsCache(cache), IsBase(base), Coherent(cache, base),
           overwrite \/ GetCoin(cache, base)[o] = Spent
    PROVE  /\ IsCache(AddCoin(cache, o, c, overwrite))
           /\ Coherent(AddCoin(cache, o, c, overwrite), base)
           /\ GetCoin(AddCoin(cache, o, c, overwrite), base) =
                IF o \in Unspendable
                THEN GetCoin(cache, base)
                ELSE [GetCoin(cache, base) EXCEPT ![o] = c]
<1>1. CASE o \in Unspendable
  BY <1>1 DEF AddCoin
<1>2. CASE o \notin Unspendable
  <2> DEFINE old == EntryOf(cache, o)
             e == [coin |-> c, dirty |-> TRUE,
                   fresh |-> old.fresh \/ (~overwrite /\ ~old.dirty)]
  <2>1. AddCoin(cache, o, c, overwrite) = Put(cache, o, e)
    BY <1>2 DEF AddCoin
  <2>2. e \in Entry
    BY DEF Entry, CoinOrSpent
  <2>3. IsCache(Put(cache, o, e))
    BY <2>2 DEF IsCache, Put
  <2>4. e.fresh => base[o] = Spent
    BY DEF Coherent, EntryOf, BlankEntry, GetCoin, IsCache, Entry
  <2>5. Coherent(Put(cache, o, e), base)
    BY <2>4, CoinsAssumption DEF Coherent, Put
  <2>6. GetCoin(Put(cache, o, e), base) = [GetCoin(cache, base) EXCEPT ![o] = c]
    BY DEF GetCoin, Put
  <2> QED BY <1>2, <2>1, <2>3, <2>5, <2>6
<1> QED BY <1>1, <1>2

\* SpendCoin leaves no coin at o and touches no other.
LEMMA SpendCoinFacts ==
    ASSUME NEW cache, NEW base, NEW o \in Outpoints,
           IsCache(cache), IsBase(base), Coherent(cache, base)
    PROVE  /\ IsCache(SpendCoin(cache, base, o))
           /\ Coherent(SpendCoin(cache, base, o), base)
           /\ GetCoin(SpendCoin(cache, base, o), base) =
                [GetCoin(cache, base) EXCEPT ![o] = Spent]
<1> DEFINE f == FetchCoin(cache, base, o)
<1>1. /\ IsCache(f)
      /\ Coherent(f, base)
      /\ GetCoin(f, base) = GetCoin(cache, base)
  BY FetchCoinFacts
<1>2. CASE o \notin DOMAIN f
  <2>1. SpendCoin(cache, base, o) = f
    BY <1>2 DEF SpendCoin
  <2>2. o \notin DOMAIN cache /\ base[o] = Spent
    BY <1>2 DEF FetchCoin, Put
  <2>3. GetCoin(cache, base) = [GetCoin(cache, base) EXCEPT ![o] = Spent]
    BY <2>2 DEF GetCoin
  <2> QED BY <1>1, <2>1, <2>3
<1>3. CASE o \in DOMAIN f /\ f[o].fresh
  <2>1. SpendCoin(cache, base, o) = Erase(f, o)
    BY <1>3 DEF SpendCoin
  <2>2. base[o] = Spent
    BY <1>1, <1>3 DEF Coherent
  <2>3. IsCache(Erase(f, o)) /\ Coherent(Erase(f, o), base)
    BY <1>1 DEF IsCache, Erase, Coherent
  <2>4. GetCoin(Erase(f, o), base) = [GetCoin(f, base) EXCEPT ![o] = Spent]
    BY <2>2 DEF GetCoin, Erase
  <2> QED BY <1>1, <2>1, <2>3, <2>4
<1>4. CASE o \in DOMAIN f /\ ~f[o].fresh
  <2> DEFINE e == [coin |-> Spent, dirty |-> TRUE, fresh |-> FALSE]
  <2>1. SpendCoin(cache, base, o) = Put(f, o, e)
    BY <1>4 DEF SpendCoin
  <2>2. IsCache(Put(f, o, e)) /\ Coherent(Put(f, o, e), base)
    BY <1>1 DEF IsCache, Put, Coherent, Entry, CoinOrSpent
  <2>3. GetCoin(Put(f, o, e), base) = [GetCoin(f, base) EXCEPT ![o] = Spent]
    BY DEF GetCoin, Put
  <2> QED BY <1>1, <2>1, <2>2, <2>3
<1> QED BY <1>2, <1>3, <1>4

\* Uncache shows nothing new.
LEMMA UncacheFacts ==
    ASSUME NEW cache, NEW base, NEW o \in Outpoints,
           IsCache(cache), IsBase(base), Coherent(cache, base)
    PROVE  /\ IsCache(Uncache(cache, o))
           /\ Coherent(Uncache(cache, o), base)
           /\ GetCoin(Uncache(cache, o), base) = GetCoin(cache, base)
BY DEF Uncache, Erase, IsCache, Coherent, GetCoin

\* Flushing a coherent child into a coherent parent: nothing is thrown, the
\* parent stays coherent with its own base, and now shows what the child did.
LEMMA BatchWriteFacts ==
    ASSUME NEW parent, NEW child, NEW base,
           IsCache(parent), IsCache(child), IsBase(base),
           Coherent(parent, base), Coherent(child, GetCoin(parent, base))
    PROVE  /\ ~FreshMisapplied(parent, child)
           /\ IsCache(BatchWrite(parent, child))
           /\ Coherent(BatchWrite(parent, child), base)
           /\ GetCoin(BatchWrite(parent, child), base) =
                GetCoin(child, GetCoin(parent, base))
<1> DEFINE dropped == {o \in Dirty(child) :
                          /\ child[o].coin = Spent
                          /\ MergedFresh(parent, child, o)}
           new == BatchWrite(parent, child)
<1>1. ~FreshMisapplied(parent, child)
  BY DEF FreshMisapplied, Dirty, Coherent, GetCoin, IsCache
<1>2. /\ DOMAIN new = (DOMAIN parent \cup Dirty(child)) \ dropped
      /\ \A o \in DOMAIN new :
            new[o] = IF o \in Dirty(child)
                     THEN [coin |-> child[o].coin, dirty |-> TRUE,
                           fresh |-> MergedFresh(parent, child, o)]
                     ELSE parent[o]
      /\ new = [o \in DOMAIN new |-> new[o]]
  BY DEF BatchWrite
<1> HIDE DEF new
<1>3. Dirty(child) \subseteq DOMAIN child
  BY DEF Dirty
<1>4. \A o \in DOMAIN new : new[o] \in Entry
  <2> SUFFICES ASSUME NEW o \in DOMAIN new PROVE new[o] \in Entry
    OBVIOUS
  <2>1. CASE o \in Dirty(child)
    <3>1. child[o] \in Entry
      BY <1>3, <2>1 DEF IsCache
    <3>2. o \in DOMAIN parent => parent[o] \in Entry
      BY DEF IsCache
    <3>3. MergedFresh(parent, child, o) \in BOOLEAN
      BY <3>1, <3>2 DEF MergedFresh, Entry
    <3>4. child[o].coin \in CoinOrSpent
      BY <3>1 DEF Entry
    <3>5. new[o] = [coin |-> child[o].coin, dirty |-> TRUE,
                    fresh |-> MergedFresh(parent, child, o)]
      BY <1>2, <2>1
    <3> QED BY <3>3, <3>4, <3>5 DEF Entry
  <2>2. CASE o \notin Dirty(child)
    BY <1>2, <2>2 DEF IsCache
  <2> QED BY <2>1, <2>2
<1>5. IsCache(new)
  <2>1. DOMAIN new \subseteq Outpoints
    BY <1>2, <1>3 DEF IsCache
  <2>2. new \in [DOMAIN new -> Entry]
    BY <1>2, <1>4
  <2> QED BY <2>1, <2>2 DEF IsCache
<1>6. Coherent(new, base)
  <2> SUFFICES ASSUME NEW o \in DOMAIN new
               PROVE  /\ new[o].fresh => new[o].coin # Spent /\ base[o] = Spent
                      /\ ~new[o].dirty => /\ new[o].coin # Spent
                                          /\ new[o].coin = base[o]
    BY DEF Coherent
  <2>1. CASE o \notin Dirty(child)
    BY <1>2, <2>1 DEF Coherent
  <2>2. CASE o \in Dirty(child)
    <3>1. new[o] = [coin |-> child[o].coin, dirty |-> TRUE,
                    fresh |-> MergedFresh(parent, child, o)]
      BY <1>2, <2>2
    <3>2. MergedFresh(parent, child, o) => child[o].coin # Spent
      BY <1>2, <2>2
    <3>3. MergedFresh(parent, child, o) => base[o] = Spent
      BY <1>3, <2>2 DEF MergedFresh, Coherent, GetCoin, IsCache
    <3> QED BY <3>1, <3>2, <3>3
  <2> QED BY <2>1, <2>2
<1>7. ASSUME NEW o \in Outpoints
      PROVE  GetCoin(new, base)[o] = GetCoin(child, GetCoin(parent, base))[o]
  <2>1. CASE o \in dropped
    <3>1. child[o].coin = Spent /\ o \in DOMAIN child /\ o \notin DOMAIN new
      BY <1>2, <1>3, <2>1
    <3>2. base[o] = Spent
      BY <1>3, <2>1 DEF MergedFresh, Coherent, GetCoin, IsCache
    <3> QED BY <3>1, <3>2 DEF GetCoin
  <2>2. CASE o \in Dirty(child) \ dropped
    <3>1. o \in DOMAIN new
      BY <1>2, <2>2
    <3>2. new[o] = [coin |-> child[o].coin, dirty |-> TRUE,
                    fresh |-> MergedFresh(parent, child, o)]
      BY <1>2, <2>2, <3>1
    <3> QED BY <1>3, <2>2, <3>1, <3>2 DEF GetCoin
  <2>3. CASE o \notin Dirty(child)
    <3>1. GetCoin(new, base)[o] = GetCoin(parent, base)[o]
      BY <1>2, <2>3 DEF GetCoin
    <3>2. GetCoin(child, GetCoin(parent, base))[o] = GetCoin(parent, base)[o]
      BY <2>3 DEF GetCoin, Coherent, Dirty, IsCache
    <3> QED BY <3>1, <3>2
  <2> QED BY <2>1, <2>2, <2>3
<1>8. GetCoin(new, base) = GetCoin(child, GetCoin(parent, base))
  BY <1>7 DEF GetCoin
<1> QED BY <1>1, <1>5, <1>6, <1>8 DEF new

\* Writing a coherent cache to the database leaves there what it showed.
LEMMA DbBatchWriteFacts ==
    ASSUME NEW cache, NEW base, IsCache(cache), IsBase(base),
           Coherent(cache, base)
    PROVE  DbBatchWrite(base, cache) = GetCoin(cache, base)
<1> SUFFICES ASSUME NEW o \in Outpoints
             PROVE  (IF o \in Dirty(cache) THEN cache[o].coin ELSE base[o]) =
                    (IF o \in DOMAIN cache THEN cache[o].coin ELSE base[o])
  BY DEF DbBatchWrite, GetCoin
<1> QED BY DEF Dirty, Coherent

------------------------------------------------------------------------------
\* The inductive invariant: the types, both caches coherent, and no leftovers
\* of a view that is gone.
IInv ==
    /\ TypeOK
    /\ CachesCoherent
    /\ ~open => view = EmptyCache /\ viewBest = Null

\* The facts about the two layers that every step below starts from.
LEMMA IInvFacts ==
    ASSUME IInv
    PROVE  /\ IsBase(db) /\ IsCache(tip) /\ IsCache(view)
           /\ Coherent(tip, db) /\ Coherent(view, TipCoins)
           /\ IsBase(TipCoins) /\ IsBase(ViewCoins)
<1>1. IsBase(db) /\ IsCache(tip) /\ IsCache(view)
  BY CacheType DEF IInv, TypeOK, IsBase
<1>2. IsBase(TipCoins)
  BY <1>1, GetCoinType DEF TipCoins
<1>3. IsBase(ViewCoins)
  BY <1>1, <1>2, GetCoinType DEF ViewCoins
<1> QED BY <1>1, <1>2, <1>3 DEF IInv, CachesCoherent

\* Empty caches over an empty database: the invariant holds at first.
LEMMA InitIInv == Init => IInv
<1> SUFFICES ASSUME Init PROVE IInv
  OBVIOUS
<1>1. IsBase(db)
  BY DEF Init, IsBase, CoinOrSpent
<1>2. /\ IsCache(tip) /\ IsCache(view)
      /\ Coherent(tip, db) /\ TipCoins = db
  BY <1>1, EmptyCacheFacts DEF Init, TipCoins
<1>3. Coherent(view, TipCoins)
  BY <1>1, <1>2, EmptyCacheFacts DEF Init
<1>4. TypeOK
  BY <1>1, <1>2, CacheType DEF Init, TypeOK, IsBase, BlockOrNull
<1> QED BY <1>2, <1>3, <1>4 DEF IInv, CachesCoherent, Init

\* What a fetch through the view does to pcoinsTip.
LEMMA ThroughTip ==
    ASSUME IInv, NEW o \in Outpoints,
           tip' = IF o \in DOMAIN view THEN tip ELSE FetchCoin(tip, db, o),
           db' = db
    PROVE  /\ IsCache(tip') /\ Coherent(tip', db) /\ TipCoins' = TipCoins
BY IInvFacts, FetchCoinFacts DEF TipCoins

\* Every step keeps the invariant.
LEMMA NextIInv == IInv /\ [Next]_vars => IInv'
<1> SUFFICES ASSUME IInv, [Next]_vars PROVE IInv'
  OBVIOUS
<1>f. /\ IsBase(db) /\ IsCache(tip) /\ IsCache(view)
      /\ Coherent(tip, db) /\ Coherent(view, TipCoins)
      /\ IsBase(TipCoins) /\ IsBase(ViewCoins)
  BY IInvFacts
<1>b. /\ dbBest \in BlockOrNull /\ tipBest \in BlockOrNull
      /\ viewBest \in BlockOrNull /\ open \in BOOLEAN
      /\ Null \in BlockOrNull
      /\ TipGetBestBlock \in BlockOrNull
  BY DEF IInv, TypeOK, TipGetBestBlock, BlockOrNull
<1>e. IsCache(EmptyCache)
  BY <1>f, EmptyCacheFacts
\* It is enough to show the shape of the new layers.
<1>s. ASSUME IsBase(db'), IsCache(tip'), IsCache(view'),
             Coherent(tip', db'), Coherent(view', TipCoins'),
             dbBest' \in BlockOrNull, tipBest' \in BlockOrNull,
             viewBest' \in BlockOrNull, open' \in BOOLEAN,
             ~open' => view' = EmptyCache /\ viewBest' = Null
      PROVE  IInv'
  BY <1>s, CacheType DEF IInv, TypeOK, IsBase, CachesCoherent
<1>c. ~open => view = EmptyCache /\ viewBest = Null
  BY DEF IInv
<1>1. ASSUME NEW o \in Outpoints, TipFetch(o) PROVE IInv'
  <2>1. IsCache(tip') /\ Coherent(tip', db) /\ TipCoins' = TipCoins
    BY <1>1, <1>f, FetchCoinFacts DEF TipFetch, TipCoins
  <2> QED BY <1>1, <1>f, <1>b, <1>c, <1>s, <2>1 DEF TipFetch
<1>2. ASSUME NEW o \in Outpoints, TipUncache(o) PROVE IInv'
  <2>1. IsCache(tip') /\ Coherent(tip', db) /\ TipCoins' = TipCoins
    BY <1>2, <1>f, UncacheFacts DEF TipUncache, TipCoins
  <2> QED BY <1>2, <1>f, <1>b, <1>c, <1>s, <2>1 DEF TipUncache
<1>3. CASE TipFlush
  <2>1. db' = TipCoins
    BY <1>3, <1>f, DbBatchWriteFacts DEF TipFlush, TipCoins
  <2>2. IsCache(tip') /\ Coherent(tip', db') /\ TipCoins' = db'
    BY <1>3, <1>f, <2>1, EmptyCacheFacts DEF TipFlush, TipCoins
  <2> QED BY <1>3, <1>f, <1>b, <1>c, <1>s, <2>1, <2>2 DEF TipFlush
<1>4. CASE OpenView
  <2>1. TipCoins' = TipCoins
    BY <1>4 DEF OpenView, TipCoins
  <2>2. Coherent(view', TipCoins')
    BY <1>4, <1>f, <2>1, EmptyCacheFacts DEF OpenView
  <2> QED BY <1>4, <1>f, <1>b, <1>e, <1>s, <2>2 DEF OpenView
<1>5. ASSUME NEW o \in Outpoints, ViewFetch(o) PROVE IInv'
  <2>1. IsCache(tip') /\ Coherent(tip', db) /\ TipCoins' = TipCoins
    BY <1>5, ThroughTip DEF ViewFetch
  <2>2. IsCache(view') /\ Coherent(view', TipCoins)
    BY <1>5, <1>f, FetchCoinFacts DEF ViewFetch
  <2> QED BY <1>5, <1>f, <1>b, <1>s, <2>1, <2>2 DEF ViewFetch
<1>6. ASSUME NEW o \in Outpoints, ViewSpendCoin(o) PROVE IInv'
  <2>1. IsCache(tip') /\ Coherent(tip', db) /\ TipCoins' = TipCoins
    BY <1>6, ThroughTip DEF ViewSpendCoin
  <2>2. IsCache(view') /\ Coherent(view', TipCoins)
    BY <1>6, <1>f, SpendCoinFacts DEF ViewSpendCoin
  <2> QED BY <1>6, <1>f, <1>b, <1>s, <2>1, <2>2 DEF ViewSpendCoin
<1>7. ASSUME NEW o \in Outpoints, ViewAddCoinThrows(o) PROVE IInv'
  <2>1. TipCoins' = TipCoins
    BY <1>7 DEF ViewAddCoinThrows, TipCoins
  <2>2. Coherent(view', TipCoins')
    BY <1>7, <1>f, <2>1, EmptyCacheFacts DEF ViewAddCoinThrows
  <2> QED BY <1>7, <1>f, <1>b, <1>e, <1>s, <2>2 DEF ViewAddCoinThrows
<1>8. ASSUME NEW o \in Outpoints, NEW c \in Coins, NEW overwrite \in BOOLEAN,
             ViewAddCoin(o, c, overwrite)
      PROVE  IInv'
  <2>1. TipCoins' = TipCoins
    BY <1>8 DEF ViewAddCoin, TipCoins
  <2>2. IsCache(view') /\ Coherent(view', TipCoins)
    BY <1>8, <1>f, AddCoinFacts DEF ViewAddCoin, ViewCoins
  <2> QED BY <1>8, <1>f, <1>b, <1>s, <2>1, <2>2 DEF ViewAddCoin
<1>9. ASSUME NEW b \in Blocks, ViewSetBestBlock(b) PROVE IInv'
  <2>1. TipCoins' = TipCoins
    BY <1>9 DEF ViewSetBestBlock, TipCoins
  <2> QED BY <1>9, <1>f, <1>b, <1>s, <2>1 DEF ViewSetBestBlock, BlockOrNull
<1>10. CASE ViewFlush
  <2>1. IsCache(tip') /\ Coherent(tip', db)
    BY <1>10, <1>f, BatchWriteFacts DEF ViewFlush, TipCoins
  <2>2. IsBase(TipCoins')
    BY <1>10, <1>f, <2>1, GetCoinType DEF ViewFlush, TipCoins
  <2>3. Coherent(view', TipCoins')
    BY <1>10, <2>2, EmptyCacheFacts DEF ViewFlush
  <2> QED BY <1>10, <1>f, <1>b, <1>e, <1>s, <2>1, <2>3 DEF ViewFlush
<1>11. CASE ViewDiscard
  <2>1. TipCoins' = TipCoins
    BY <1>11 DEF ViewDiscard, TipCoins
  <2>2. Coherent(view', TipCoins')
    BY <1>11, <1>f, <2>1, EmptyCacheFacts DEF ViewDiscard
  <2> QED BY <1>11, <1>f, <1>b, <1>e, <1>s, <2>2 DEF ViewDiscard
<1>12. CASE UNCHANGED vars
  <2>1. TipCoins' = TipCoins
    BY <1>12 DEF vars, TipCoins
  <2> QED BY <1>12, <1>f, <1>b, <1>c, <1>s, <2>1 DEF vars
<1> QED
  BY <1>1, <1>2, <1>3, <1>4, <1>5, <1>6, <1>7, <1>8, <1>9, <1>10, <1>11, <1>12
  DEF Next

\* The types of the three layers hold in every reachable state of coins.cpp's
\* caches.
THEOREM TypeCorrect == Spec => []TypeOK
<1>1. IInv => TypeOK
  BY DEF IInv
<1> QED BY <1>1, InitIInv, NextIInv, PTL DEF Spec

\* DIRTY and FRESH keep the meaning coins.h gives them, in pcoinsTip and in
\* the view of a block.
THEOREM CoherenceHolds == Spec => []CachesCoherent
<1>1. IInv => CachesCoherent
  BY DEF IInv
<1> QED BY <1>1, InitIInv, NextIInv, PTL DEF Spec

\* CCoinsViewCache::BatchWrite never throws its logic_error.
THEOREM BatchWriteNeverThrows == Spec => []FlushNeverThrows
<1>1. IInv => FlushNeverThrows
  BY IInvFacts, BatchWriteFacts DEF FlushNeverThrows, TipCoins
<1> QED BY <1>1, InitIInv, NextIInv, PTL DEF Spec

\* A flush of pcoinsTip writes out everything pcoinsTip answers with.
THEOREM FlushLosesNothing == Spec => []FlushIsComplete
<1>1. IInv => FlushIsComplete
  BY IInvFacts, DbBatchWriteFacts DEF FlushIsComplete, TipCoins
<1> QED BY <1>1, InitIInv, NextIInv, PTL DEF Spec

------------------------------------------------------------------------------
\* The initial layers show the initial map.
LEMMA InitRefines == Init => Utxo!Init
<1> SUFFICES ASSUME Init PROVE Utxo!Init
  OBVIOUS
<1>1. IsBase(db)
  BY DEF Init, IsBase, CoinOrSpent
<1>2. TipCoins = db /\ ViewCoins = db
  BY <1>1, EmptyCacheFacts DEF Init, TipCoins, ViewCoins
<1> QED BY <1>2 DEF Init, Utxo!Init, TipGetBestBlock, ViewGetBestBlock

\* Every step of the stack is a step on the map, or none at all.
LEMMA NextRefines == IInv /\ [Next]_vars => [Utxo!Next]_(Utxo!vars)
<1> SUFFICES ASSUME IInv, [Next]_vars PROVE [Utxo!Next]_(Utxo!vars)
  OBVIOUS
<1>f. /\ IsBase(db) /\ IsCache(tip) /\ IsCache(view)
      /\ Coherent(tip, db) /\ Coherent(view, TipCoins)
      /\ IsBase(TipCoins) /\ IsBase(ViewCoins)
  BY IInvFacts
<1>c. ~open => view = EmptyCache /\ viewBest = Null
  BY DEF IInv
\* A step that leaves open, the coins and the best blocks alone.
<1>u. ASSUME TipCoins' = TipCoins, ViewCoins' = ViewCoins, open' = open,
             TipGetBestBlock' = TipGetBestBlock,
             ViewGetBestBlock' = ViewGetBestBlock
      PROVE  [Utxo!Next]_(Utxo!vars)
  BY <1>u DEF Utxo!vars
\* The view shows pcoinsTip's coins as long as it is empty.
<1>o. ~open => ViewCoins = TipCoins /\ ViewGetBestBlock = TipGetBestBlock
  BY <1>c, <1>f, EmptyCacheFacts DEF ViewCoins, ViewGetBestBlock
<1>1. ASSUME NEW o \in Outpoints, TipFetch(o) PROVE [Utxo!Next]_(Utxo!vars)
  <2>1. TipCoins' = TipCoins
    BY <1>1, <1>f, FetchCoinFacts DEF TipFetch, TipCoins
  <2> QED BY <1>1, <1>u, <2>1
          DEF TipFetch, ViewCoins, TipGetBestBlock, ViewGetBestBlock
<1>2. ASSUME NEW o \in Outpoints, TipUncache(o) PROVE [Utxo!Next]_(Utxo!vars)
  <2>1. TipCoins' = TipCoins
    BY <1>2, <1>f, UncacheFacts DEF TipUncache, TipCoins
  <2> QED BY <1>2, <1>u, <2>1
          DEF TipUncache, ViewCoins, TipGetBestBlock, ViewGetBestBlock
<1>3. CASE TipFlush
  <2>1. db' = TipCoins
    BY <1>3, <1>f, DbBatchWriteFacts DEF TipFlush, TipCoins
  <2>2. TipCoins' = TipCoins
    BY <1>3, <1>f, <2>1, EmptyCacheFacts DEF TipFlush, TipCoins
  <2>3. ViewCoins' = ViewCoins
    BY <1>3, <2>2 DEF TipFlush, ViewCoins
  <2>4. TipGetBestBlock' = TipGetBestBlock
    BY <1>3 DEF TipFlush, TipGetBestBlock
  <2>5. ViewGetBestBlock' = ViewGetBestBlock
    BY <1>3, <2>4 DEF TipFlush, ViewGetBestBlock
  <2> QED BY <1>3, <1>u, <2>2, <2>3, <2>4, <2>5 DEF TipFlush
<1>4. CASE OpenView
  <2>1. TipCoins' = TipCoins /\ TipGetBestBlock' = TipGetBestBlock
    BY <1>4 DEF OpenView, TipCoins, TipGetBestBlock
  <2>2. ViewCoins' = TipCoins
    BY <1>4, <1>f, <2>1, EmptyCacheFacts DEF OpenView, ViewCoins
  <2>3. ViewGetBestBlock' = TipGetBestBlock
    BY <1>4, <2>1 DEF OpenView, ViewGetBestBlock
  <2>4. Utxo!Begin
    BY <1>4, <2>1, <2>2, <2>3 DEF OpenView, Utxo!Begin
  <2> QED BY <2>4 DEF Utxo!Next
<1>5. ASSUME NEW o \in Outpoints, ViewFetch(o) PROVE [Utxo!Next]_(Utxo!vars)
  <2>1. TipCoins' = TipCoins
    BY <1>5, ThroughTip DEF ViewFetch
  <2>2. ViewCoins' = ViewCoins
    BY <1>5, <1>f, <2>1, FetchCoinFacts DEF ViewFetch, ViewCoins
  <2> QED BY <1>5, <1>u, <2>1, <2>2
          DEF ViewFetch, TipGetBestBlock, ViewGetBestBlock
<1>6. ASSUME NEW o \in Outpoints, ViewSpendCoin(o)
      PROVE  [Utxo!Next]_(Utxo!vars)
  <2>1. TipCoins' = TipCoins
    BY <1>6, ThroughTip DEF ViewSpendCoin
  <2>2. ViewCoins' = [ViewCoins EXCEPT ![o] = Spent]
    BY <1>6, <1>f, <2>1, SpendCoinFacts DEF ViewSpendCoin, ViewCoins
  <2>3. Utxo!Set(o, Spent)
    BY <1>6, <2>1, <2>2
    DEF ViewSpendCoin, Utxo!Set, TipGetBestBlock, ViewGetBestBlock
  <2> QED BY <2>3 DEF Utxo!Next
\* A view that goes out of scope unflushed.
<1>d. ASSUME open, open' = FALSE, view' = EmptyCache, viewBest' = Null,
             UNCHANGED <<db, dbBest, tip, tipBest>>
      PROVE  [Utxo!Next]_(Utxo!vars)
  <2>1. TipCoins' = TipCoins /\ TipGetBestBlock' = TipGetBestBlock
    BY <1>d DEF TipCoins, TipGetBestBlock
  <2>2. ViewCoins' = TipCoins
    BY <1>d, <1>f, <2>1, EmptyCacheFacts DEF ViewCoins
  <2>3. ViewGetBestBlock' = TipGetBestBlock
    BY <1>d, <2>1 DEF ViewGetBestBlock
  <2>4. Utxo!Abandon
    BY <1>d, <2>1, <2>2, <2>3 DEF Utxo!Abandon
  <2> QED BY <2>4 DEF Utxo!Next
<1>7. ASSUME NEW o \in Outpoints, ViewAddCoinThrows(o)
      PROVE  [Utxo!Next]_(Utxo!vars)
  BY <1>7, <1>d DEF ViewAddCoinThrows
<1>8. ASSUME NEW o \in Outpoints, NEW c \in Coins, NEW overwrite \in BOOLEAN,
             ViewAddCoin(o, c, overwrite)
      PROVE  [Utxo!Next]_(Utxo!vars)
  <2>1. TipCoins' = TipCoins
    BY <1>8 DEF ViewAddCoin, TipCoins
  <2>2. ViewCoins' = IF o \in Unspendable THEN ViewCoins
                     ELSE [ViewCoins EXCEPT ![o] = c]
    BY <1>8, <1>f, <2>1, AddCoinFacts, SMTT(60) DEF ViewAddCoin, ViewCoins
  <2>3. CASE o \in Unspendable
    BY <1>8, <1>u, <2>1, <2>2, <2>3
    DEF ViewAddCoin, TipGetBestBlock, ViewGetBestBlock
  <2>4. CASE o \notin Unspendable
    <3>1. Utxo!Set(o, c)
      BY <1>8, <2>1, <2>2, <2>4
      DEF ViewAddCoin, Utxo!Set, TipGetBestBlock, ViewGetBestBlock
    <3> QED BY <3>1 DEF Utxo!Next
  <2> QED BY <2>3, <2>4
<1>9. ASSUME NEW b \in Blocks, ViewSetBestBlock(b)
      PROVE  [Utxo!Next]_(Utxo!vars)
  <2>1. TipCoins' = TipCoins /\ ViewCoins' = ViewCoins
    BY <1>9 DEF ViewSetBestBlock, TipCoins, ViewCoins
  <2>2. TipGetBestBlock' = TipGetBestBlock /\ ViewGetBestBlock' = b
    BY <1>9, BlocksAssumption
    DEF ViewSetBestBlock, TipGetBestBlock, ViewGetBestBlock
  <2>3. Utxo!SetBest(b)
    BY <1>9, <2>1, <2>2 DEF ViewSetBestBlock, Utxo!SetBest
  <2> QED BY <2>3 DEF Utxo!Next
<1>10. CASE ViewFlush
  <2>1. TipCoins' = ViewCoins
    BY <1>10, <1>f, BatchWriteFacts, SMTT(60) DEF ViewFlush, TipCoins, ViewCoins
  <2>2. ViewCoins' = ViewCoins
    BY <1>10, <1>f, <2>1, EmptyCacheFacts DEF ViewFlush, ViewCoins
  <2>3. TipGetBestBlock' = ViewGetBestBlock
    BY <1>10 DEF ViewFlush, TipGetBestBlock, ViewGetBestBlock
  <2>4. ViewGetBestBlock' = ViewGetBestBlock
    BY <1>10, <2>3 DEF ViewFlush, ViewGetBestBlock
  <2>5. Utxo!Commit
    BY <1>10, <2>1, <2>2, <2>3, <2>4 DEF ViewFlush, Utxo!Commit
  <2> QED BY <2>5 DEF Utxo!Next
<1>11. CASE ViewDiscard
  BY <1>11, <1>d DEF ViewDiscard
<1>12. CASE UNCHANGED vars
  BY <1>12, <1>u
  DEF vars, TipCoins, ViewCoins, TipGetBestBlock, ViewGetBestBlock
<1> QED
  BY <1>1, <1>2, <1>3, <1>4, <1>5, <1>6, <1>7, <1>8, <1>9, <1>10, <1>11, <1>12
  DEF Next

\* The database, pcoinsTip and the view of a block together behave as the one
\* map with atomic commits that validation.cpp takes them for.
THEOREM CoinsCacheImplementsUtxoSet == Spec => ImplementsUtxoSet
BY InitIInv, NextIInv, InitRefines, NextRefines, PTL
   DEF Spec, ImplementsUtxoSet, Utxo!Spec
==============================================================================
