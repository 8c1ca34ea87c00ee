------------------------------ MODULE CoinsView ------------------------------
(***************************************************************************)
(* The operations of one CCoinsViewCache (coins.cpp) as operators on its   *)
(* cacheCoins map.  A cache is a function whose domain is the set of        *)
(* outpoints that have an entry; a base view, whatever implements it, is a  *)
(* function from every outpoint to the coin GetCoin finds there, Spent when *)
(* it finds none.  There is no state here: the modules that extend this one *)
(* stack the layers.                                                        *)
(***************************************************************************)
CONSTANTS
    Outpoints,      \* COutPoint values
    Coins,          \* contents of an unspent Coin
    Spent,          \* a Coin with IsSpent(), or no coin at all
    Unspendable     \* outpoints whose scriptPubKey IsUnspendable()

ASSUME CoinsAssumption ==
    /\ Spent \notin Coins
    /\ Unspendable \subseteq Outpoints

CoinOrSpent == Coins \cup {Spent}

\* CCoinsCacheEntry: a coin and its DIRTY and FRESH flags.  FRESH alone is a
\* value of the flags that no entry takes: GetCoin of a base never hands over
\* a spent coin, so lines 84-88 of FetchCoin do nothing.
Entry ==
    {e \in [coin : CoinOrSpent, dirty : BOOLEAN, fresh : BOOLEAN] :
        e.fresh => e.dirty}

\* The entry cacheCoins.emplace default-constructs.
BlankEntry == [coin |-> Spent, dirty |-> FALSE, fresh |-> FALSE]

EmptyCache == [o \in {} |-> BlankEntry]

Put(cache, o, e) ==
    [p \in DOMAIN cache \cup {o} |-> IF p = o THEN e ELSE cache[p]]

Erase(cache, o) == [p \in DOMAIN cache \ {o} |-> cache[p]]

EntryOf(cache, o) == IF o \in DOMAIN cache THEN cache[o] ELSE BlankEntry

------------------------------------------------------------------------------
\* What GetCoin answers for every outpoint: the entry if there is one, else
\* whatever the base has.
GetCoin(cache, base) ==
    [o \in Outpoints |-> IF o \in DOMAIN cache THEN cache[o].coin ELSE base[o]]

\* A miss is not cached; a coin found below starts with no flag.
FetchCoin(cache, base, o) ==
    IF o \in DOMAIN cache \/ base[o] = Spent
    THEN cache
    ELSE Put(cache, o, [coin |-> base[o], dirty |-> FALSE, fresh |-> FALSE])

\* AddCoin throws std::logic_error on the way when this holds.
AddCoinThrows(cache, o, overwrite) ==
    /\ o \notin Unspendable
    /\ ~overwrite
    /\ EntryOf(cache, o).coin # Spent

\* Slip: FRESH without looking at DIRTY (line 122).
AddCoinIgnoreDirty(cache, o, c, overwrite) ==
    IF o \in Unspendable
    THEN cache
    ELSE Put(cache, o, [coin |-> c, dirty |-> TRUE,
                        fresh |-> EntryOf(cache, o).fresh \/ ~overwrite])

AddCoin(cache, o, c, overwrite) ==
    IF o \in Unspendable
    THEN cache
    ELSE Put(cache, o,
             [coin |-> c,
              dirty |-> TRUE,
              fresh |-> \/ EntryOf(cache, o).fresh
                        \/ (~overwrite /\ ~EntryOf(cache, o).dirty)])

SpendCoin(cache, base, o) ==
    LET fetched == FetchCoin(cache, base, o) IN
    IF o \notin DOMAIN fetched
    THEN fetched
    ELSE IF fetched[o].fresh
         THEN Erase(fetched, o)
         ELSE Put(fetched, o, [coin |-> Spent, dirty |-> TRUE, fresh |-> FALSE])

Uncache(cache, o) ==
    IF o \in DOMAIN cache /\ ~cache[o].dirty /\ ~cache[o].fresh
    THEN Erase(cache, o)
    ELSE cache

------------------------------------------------------------------------------
\* The entries of a child map that BatchWrite looks at.
Dirty(child) == {o \in DOMAIN child : child[o].dirty}

\* CCoinsViewCache::BatchWrite throws std::logic_error when this holds.
FreshMisapplied(parent, child) ==
    \E o \in Dirty(child) \cap DOMAIN parent :
        child[o].fresh /\ parent[o].coin # Spent

\* The FRESH flag an entry written by a child ends up with: the parent's own
\* if it has the entry, else the child's.
MergedFresh(parent, child, o) ==
    IF o \in DOMAIN parent THEN parent[o].fresh ELSE child[o].fresh

\* Slip: the child's FRESH flag is copied to the parent (lines 247-251).
BatchWriteCopyFresh(parent, child) ==
    LET dropped == {o \in Dirty(child) :
                        child[o].coin = Spent /\ MergedFresh(parent, child, o)}
    IN [o \in (DOMAIN parent \cup Dirty(child)) \ dropped |->
            IF o \in Dirty(child) THEN child[o] ELSE parent[o]]

\* Slip: a modified parent entry is not marked DIRTY (line 246).
BatchWriteKeepFlags(parent, child) ==
    LET dropped == {o \in Dirty(child) :
                        child[o].coin = Spent /\ MergedFresh(parent, child, o)}
    IN [o \in (DOMAIN parent \cup Dirty(child)) \ dropped |->
            IF o \notin Dirty(child) THEN parent[o]
            ELSE IF o \in DOMAIN parent
                 THEN [parent[o] EXCEPT !.coin = child[o].coin]
                 ELSE child[o]]

\* CCoinsViewCache::BatchWrite: entries the parent may forget disappear, the
\* other dirty ones replace the parent's.
BatchWrite(parent, child) ==
    LET dropped == {o \in Dirty(child) :
                        child[o].coin = Spent /\ MergedFresh(parent, child, o)}
    IN [o \in (DOMAIN parent \cup Dirty(child)) \ dropped |->
            IF o \in Dirty(child)
            THEN [coin |-> child[o].coin, dirty |-> TRUE,
                  fresh |-> MergedFresh(parent, child, o)]
            ELSE parent[o]]

\* CCoinsViewDB::BatchWrite once every batch is on disk.
DbBatchWrite(db, child) ==
    [o \in Outpoints |-> IF o \in Dirty(child) THEN child[o].coin ELSE db[o]]
==============================================================================
