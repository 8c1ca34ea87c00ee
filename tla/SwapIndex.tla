----------------------------- MODULE SwapIndex ------------------------------
(***************************************************************************)
(* The index of swap orders of index/swapindex.cpp, once it is in sync:    *)
(* the callbacks BlockConnected and BlockDisconnected, delivered in order  *)
(* behind the chain, and the prune thread, which shares no lock with them. *)
(*                                                                         *)
(* An advertisement is an opaque value whose key is the token, the hash    *)
(* and the index of the offered output.  The database is four sets of      *)
(* offers, each an advertisement with a height: the open orders, the       *)
(* history, and a copy of each under the wanted token.  A callback takes   *)
(* two steps, the scan of its iterator and the writes, so that the prune   *)
(* thread may act between them; the writes of a callback touch different   *)
(* keys and are one step.  That BaseIndex::BlockConnected finds each block *)
(* to connect to the last is checked in BaseIndex.                         *)
(***************************************************************************)
EXTENDS Integers, Sequences

CONSTANTS
    Ads, KeyOf(_),      \* advertisements, and the key of their order
    Version(_),
    Want(_), NoToken,   \* wantTokenID, NoToken when null
    OutPoint(_),        \* of a key: the offered output
    TokenAndHash(_),    \* of a key: all but the index of the output
    Blocks, Genesis,
    Parent, nHeight,    \* pprev of the blocks but the first, and the height
    AdsOf(_),           \* the advertisements of a block, in order
    Spends(_),          \* the outputs its transactions spend, not the coinbase
    historyBlocks,      \* -swaphistoryblocks, 0 keeps everything
    MaxPending,         \* callbacks pending while the chain moves on
    MaxReorg            \* bound: blocks disconnected at once

ASSUME TreeAssumption ==
    /\ Genesis \in Blocks /\ Parent \in [Blocks \ {Genesis} -> Blocks]
    /\ nHeight \in [Blocks -> Nat] /\ nHeight[Genesis] = 0
    /\ \A b \in Blocks \ {Genesis} : nHeight[b] = nHeight[Parent[b]] + 1

ASSUME SwapAssumption ==
    /\ historyBlocks \in Nat /\ MaxReorg \in Nat /\ MaxPending \in Nat
    /\ \A b \in Blocks : AdsOf(b) \in Seq(Ads)
    /\ AdsOf(Genesis) = <<>>

(* An order is not advertised again for another token: the key of the copy *)
(* under the wanted token would change and the old copy stay.              *)
ASSUME OneWantAssumption ==
    \A a, b \in Ads : KeyOf(a) = KeyOf(b) => Want(a) = Want(b)

(* The history outlasts the deepest reorganisation and the longest delay   *)
(* of the callbacks, as the default of 10000 blocks does.                  *)
ASSUME RetentionAssumption ==
    historyBlocks = 0 \/ (historyBlocks >= MaxReorg /\ historyBlocks >= MaxPending)

VARIABLES
    tip,        \* of the active chain
    queue,      \* notifications not yet delivered
    job,        \* the callback between its scan and its writes
    db,
    doomed      \* the offers the prune thread has collected

vars == <<tip, queue, job, db, doomed>>

-----------------------------------------------------------------------------
(* The blocks of the chain that ends in b                                  *)
Ancestry[b \in Blocks] == IF b = Genesis THEN {b} ELSE {b} \cup Ancestry[Parent[b]]

Path == [b \in Blocks |-> Ancestry[b]]

(* A chain spends an output once.                                          *)
ASSUME SpendAssumption ==
    \A b \in Blocks : \A a \in Path[b] \ {b} : Spends(a) \cap Spends(b) = {}

AdsIn(b) == {AdsOf(b)[i] : i \in DOMAIN AdsOf(b)}

(* What the index is right about: a block that advertises an order spends  *)
(* something, and no later block of its chain advertises the order again,  *)
(* or another of the token whose output has the same transaction.          *)
ASSUME AdvertiseAssumption ==
    \A b \in Blocks : \A x \in AdsIn(b) : Version(x) = 2 =>
        /\ Spends(b) # {}
        /\ \A c \in Blocks : b \in Path[c] \ {c} =>
              \A y \in AdsIn(c) : TokenAndHash(KeyOf(y)) # TokenAndHash(KeyOf(x))

GetAncestor(b, height) == CHOOSE a \in Path[b] : nHeight[a] = height

FindFork(a, b) == CHOOSE c \in Path[a] \cap Path[b] : Path[c] = Path[a] \cap Path[b]

Key(o) == KeyOf(o.ad)

HasWant(o) == Want(o.ad) # NoToken

(* The key of the copy under the wanted token *)
WantKey(o) == <<Want(o.ad), Key(o)>>

Erase(table, S) == {p \in table : \A o \in S : Key(p) # Key(o)}

EraseWant(table, S) == {p \in table : \A o \in S : HasWant(o) => WantKey(p) # WantKey(o)}

Write(table, S) == Erase(table, S) \cup S

WriteWant(table, S) == EraseWant(table, S) \cup {o \in S : HasWant(o)}

MoveOrderToHistory(d, S) ==
    [open        |-> Erase(d.open, S),
     openWant    |-> EraseWant(d.openWant, S),
     history     |-> Write(d.history, S),
     historyWant |-> WriteWant(d.historyWant, S)]

(* Slip: the copy of the open order under the wanted token is not restored. *)
MoveOrderToOpenAlone(d, S) ==
    [open        |-> Write(d.open, S),
     openWant    |-> d.openWant,
     history     |-> Erase(d.history, S),
     historyWant |-> EraseWant(d.historyWant, S)]

MoveOrderToOpen(d, S) ==
    [open        |-> Write(d.open, S),
     openWant    |-> WriteWant(d.openWant, S),
     history     |-> Erase(d.history, S),
     historyWant |-> EraseWant(d.historyWant, S)]

(* A block's advertisements; of two for one key the last is written.       *)
Advertised(b) ==
    {[ad |-> AdsOf(b)[i], height |-> nHeight[b]] :
        i \in {j \in DOMAIN AdsOf(b) :
                  \A k \in DOMAIN AdsOf(b) : k > j => KeyOf(AdsOf(b)[k]) # KeyOf(AdsOf(b)[j])}}

WriteSwaps(d, S) ==
    [open |-> Write(d.open, S), openWant |-> WriteWant(d.openWant, S),
     history |-> d.history, historyWant |-> d.historyWant]

SpentOrders(d, b) == {o \in d.open : OutPoint(Key(o)) \in Spends(b)}

(* The orders found spent go to the history, then come the new ones.       *)
WriteBlock(d, b, spent) ==
    WriteSwaps(MoveOrderToHistory(d, {[ad |-> o.ad, height |-> nHeight[b]] : o \in spent}),
               Advertised(b))

RemoveAds(d, S) ==
    [open |-> Erase(d.open, S), openWant |-> EraseWant(d.openWant, S),
     history |-> d.history, historyWant |-> d.historyWant]

RestoredOrders(d, b) == {o \in d.history : OutPoint(Key(o)) \in Spends(b)}

(* The open orders that look like advertisements of the block: one with    *)
(* their token and hash.  Only version 2 is looked at, and nothing is when *)
(* the block spends nothing.                                               *)
AdsToRemove(d, b) ==
    {o \in d.open :
        /\ Spends(b) # {}
        /\ \E a \in AdsIn(b) :
              Version(a) = 2 /\ TokenAndHash(KeyOf(a)) = TokenAndHash(Key(o))}

ProcessDisconnectedBlock(d, restored, removed) ==
    RemoveAds(MoveOrderToOpen(d, restored), removed)

(* Slip: what was spent at the cutoff height goes too. *)
OldHistoryAtCutoff(d, cutoffHeight) == {o \in d.history : o.height <= cutoffHeight}

OldHistory(d, cutoffHeight) == {o \in d.history : o.height < cutoffHeight}

OldHistoryWant(d, cutoffHeight) == {o \in d.historyWant : o.height < cutoffHeight}

-----------------------------------------------------------------------------
NoJob == [kind |-> "none", block |-> Genesis, found |-> {}, ads |-> {}]

NoDb == [open |-> {}, openWant |-> {}, history |-> {}, historyWant |-> {}]

NothingDoomed == [pruning |-> FALSE, history |-> {}, historyWant |-> {}]

Init ==
    /\ tip = Genesis
    /\ queue = <<>>
    /\ job = NoJob
    /\ db = NoDb
    /\ doomed = NothingDoomed

(* BlockDisconnected from the old tip a down to the fork, then             *)
(* BlockConnected up to b.                                                 *)
Events(a, b) ==
    LET fork == nHeight[FindFork(a, b)]
    IN  [i \in 1 .. nHeight[a] - fork |->
            [kind |-> "disconnected", block |-> GetAncestor(a, nHeight[a] + 1 - i)]]
        \o [i \in 1 .. nHeight[b] - fork |->
               [kind |-> "connected", block |-> GetAncestor(b, fork + i)]]

(* A step of ActivateBestChain, to the first block with more work than the *)
(* tip, taken when not too many callbacks are pending.                     *)
ActivateBestChain(b) ==
    /\ nHeight[b] = nHeight[tip] + 1
    /\ nHeight[tip] - nHeight[FindFork(tip, b)] <= MaxReorg
    /\ Len(queue) <= MaxPending
    /\ tip' = b
    /\ queue' = queue \o Events(tip, b)
    /\ UNCHANGED <<job, db, doomed>>

(* WriteBlock and ProcessSpentOrders up to their first write *)
BlockConnected(b) ==
    /\ job = NoJob /\ queue # <<>> /\ Head(queue) = [kind |-> "connected", block |-> b]
    /\ job' = [kind |-> "connected", block |-> b, found |-> SpentOrders(db, b), ads |-> {}]
    /\ queue' = Tail(queue)
    /\ UNCHANGED <<tip, db, doomed>>

(* ProcessDisconnectedBlock up to its first write.  Both scans use one     *)
(* iterator, hence one state of the database.                              *)
BlockDisconnected(b) ==
    /\ job = NoJob /\ queue # <<>> /\ Head(queue) = [kind |-> "disconnected", block |-> b]
    /\ job' = [kind |-> "disconnected", block |-> b,
               found |-> RestoredOrders(db, b), ads |-> AdsToRemove(db, b)]
    /\ queue' = Tail(queue)
    /\ UNCHANGED <<tip, db, doomed>>

Writes ==
    /\ job # NoJob
    /\ db' = IF job.kind = "connected" THEN WriteBlock(db, job.block, job.found)
             ELSE ProcessDisconnectedBlock(db, job.found, job.ads)
    /\ job' = NoJob
    /\ UNCHANGED <<tip, queue, doomed>>

(* ThreadPrune and DeleteHistoryOlderThan: the keys are collected, then    *)
(* erased in one batch.                                                    *)
CollectHistory ==
    LET cutoffHeight == nHeight[tip] - historyBlocks
    IN  /\ ~doomed.pruning /\ historyBlocks > 0 /\ cutoffHeight > 0
        /\ doomed' = [pruning |-> TRUE,
                      history |-> OldHistory(db, cutoffHeight),
                      historyWant |-> OldHistoryWant(db, cutoffHeight)]
        /\ UNCHANGED <<tip, queue, job, db>>

DeleteHistory ==
    /\ doomed.pruning
    /\ db' = [db EXCEPT !.history = Erase(@, doomed.history),
                        !.historyWant = EraseWant(@, doomed.historyWant)]
    /\ doomed' = NothingDoomed
    /\ UNCHANGED <<tip, queue, job>>

Next ==
    \/ \E b \in Blocks : ActivateBestChain(b)
    \/ \E b \in Blocks : BlockConnected(b) \/ BlockDisconnected(b)
    \/ Writes
    \/ CollectHistory
    \/ DeleteHistory

Spec == Init /\ [][Next]_vars

-----------------------------------------------------------------------------
(* The orders that the chain up to b advertises, those of them that it has *)
(* not spent since, and those that it has, at the height where it did.     *)
AdsOn(b) == UNION {Advertised(a) : a \in Path[b]}

OpenOn(b) ==
    {o \in AdsOn(b) : \A c \in Path[b] :
        nHeight[c] > o.height => OutPoint(Key(o)) \notin Spends(c)}

SpentOn(b) ==
    UNION {{[ad |-> o.ad, height |-> nHeight[c]] :
               o \in {x \in AdsOn(b) : x.height < nHeight[c] /\ OutPoint(Key(x)) \in Spends(c)}} :
           c \in Path[b]}

V2(table) == {o \in table : Version(o.ad) = 2}

(* Each table and its copy under the wanted token hold the same offers in  *)
(* every state, whatever the callbacks and the prune thread have done in   *)
(* whatever order: getopenordersbywant misses no order and shows none that *)
(* getopenorders does not.                                                 *)
WantTablesMirror ==
    /\ db.openWant = {o \in db.open : HasWant(o)}
    /\ db.historyWant = {o \in db.history : HasWant(o)}

(* When every notification has been handled, the open orders of version 2  *)
(* are those the active chain has advertised and not spent, as if no other *)
(* branch had ever been indexed, and the history holds every order spent   *)
(* within the retention period and none that the active chain did not      *)
(* spend.                                                                  *)
IndexMatchesChain ==
    queue = <<>> /\ job = NoJob =>
        /\ {o.ad : o \in V2(db.open)} = {o.ad : o \in V2(OpenOn(tip))}
        /\ \A o \in V2(SpentOn(tip)) :
              historyBlocks = 0 \/ o.height >= nHeight[tip] - historyBlocks => o \in db.history
        /\ V2(db.history) \subseteq SpentOn(tip)

=============================================================================
