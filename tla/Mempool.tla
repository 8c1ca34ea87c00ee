------------------------------ MODULE Mempool -------------------------------
(***************************************************************************)
(* The mempool of txmempool.cpp, and what keeps it in step with the chain: *)
(* AcceptToMemoryPool, the removal of a block's transactions, the          *)
(* DisconnectedBlockTransactions that carry the mempool over a             *)
(* reorganisation, invalidateblock and parkblock, which do so while        *)
(* cs_main is released between blocks, and the double-spend proofs         *)
(* attached to mempool transactions.                                       *)
(*                                                                         *)
(* A transaction has one output, named after it, and scripts that check.   *)
(* Its memory is one unit, its fee rate a number.  Time is left out:       *)
(* anything may be old enough to expire.  AcceptToMemoryPool holds cs_main *)
(* and the mempool lock; the cleanup of the proof store, which takes       *)
(* neither, has the same effect inside it as before or after it.  One      *)
(* invalidateblock or parkblock runs at a time, and reads of the block     *)
(* files succeed.                                                          *)
(***************************************************************************)
EXTENDS DSProofStorage

CONSTANTS
    Txs,
    Coins,          \* outputs that exist before the first block
    Inputs(_),      \* the outputs a transaction spends
    FeeRate(_),
    Genuine,        \* proofs whose two signatures check
    Spenders(_),    \* the two transactions a proof was made from
    Blocks, Genesis, Parent(_),
    Vtx(_),         \* the transactions of a block, in any order
    Bad,            \* blocks that fail to connect
    Upgrade,        \* blocks at which the script flags change
    NoTx, NoProof, NoBlock,
    MaxMempool,     \* -maxmempool
    MaxQueue,       \* DisconnectedBlockTransactions::maxDynamicUsage
    MaxUnwind       \* bound: blocks one UnwindBlock starts to take off the chain

ASSUME MempoolAssumption ==
    /\ \A t \in Txs : Inputs(t) \subseteq Txs \cup Coins
    /\ MaxUnwind \in 0 .. 10    \* maxDisconnectPoolBlocks
    /\ Genuine \subseteq Proofs /\ Genesis \in Blocks
    /\ \A b \in Blocks : Range(Vtx(b)) \subseteq Txs

VARIABLES
    tip, failed,
    mem,        \* the mempool and the proof store
    pc,         \* what the holder of cs_main is doing: "idle", "readd", "retry"
    goal,       \* the height it must reach before it releases cs_main
    queuedTx,   \* its disconnectpool, in insertion order
    unwind,     \* the disconnectpool of UnwindBlock while cs_main is free
    kept        \* ghost: [owed, excused], see NothingIsLost

vars == <<tip, failed, mem, pc, goal, queuedTx, unwind, kept>>

-----------------------------------------------------------------------------
(* The chain *)

Ancestry[b \in Blocks] == IF b = Genesis THEN {b} ELSE {b} \cup Ancestry[Parent(b)]

Path == [b \in Blocks |-> Ancestry[b]]

nHeight == [b \in Blocks |-> Cardinality(Path[b]) - 1]

Confirmed == [b \in Blocks |-> UNION {Range(Vtx(a)) : a \in Path[b]}]

(* pcoinsTip at each tip *)
Utxo == [b \in Blocks |->
            (Coins \cup Confirmed[b]) \ UNION {Inputs(t) : t \in Confirmed[b]}]

-----------------------------------------------------------------------------
(* The mempool is a record with the fields mapTx (in entry_id order),      *)
(* mapNextTx (the spender of an output), the parents and children of       *)
(* mapLinks, dspId, and the proof store st.                                *)

Empty(st) ==
    [mapTx |-> <<>>,
     mapNextTx |-> [o \in Txs \cup Coins |-> NoTx],
     parents |-> [t \in Txs |-> {}], children |-> [t \in Txs |-> {}],
     dspId |-> [t \in Txs |-> NoProof],
     st |-> st]

InPool(m, t) == t \in Range(m.mapTx)

addUnchecked(m, t) ==
    LET above == Inputs(t) \cap Range(m.mapTx)
    IN  [m EXCEPT !.mapTx = Append(@, t),
                  !.mapNextTx = [o \in DOMAIN @ |-> IF o \in Inputs(t) THEN t ELSE @[o]],
                  !.parents[t] = above,
                  !.children = [u \in Txs |-> IF u \in above THEN @[u] \cup {t} ELSE @[u]]]

(* Transactions S and everything in the mempool that descends from them    *)
RECURSIVE CalculateDescendants(_, _)
CalculateDescendants(m, S) ==
    LET below == UNION {m.children[t] : t \in S} \ S
    IN  IF below = {} THEN S ELSE CalculateDescendants(m, S \cup below)

(* Slip: the children of a removed transaction still name it a parent. *)
RemoveStagedKeepsLinks(m, S) ==
    [mapTx |-> Without(m.mapTx, S),
     mapNextTx |-> [o \in DOMAIN m.mapNextTx |->
                       IF m.mapNextTx[o] \in S THEN NoTx ELSE m.mapNextTx[o]],
     parents |-> [t \in Txs |-> IF t \in S THEN {} ELSE m.parents[t]],
     children |-> [t \in Txs |-> IF t \in S THEN {} ELSE m.children[t] \ S],
     dspId |-> [t \in Txs |-> IF t \in S THEN NoProof ELSE m.dspId[t]],
     st |-> FoldLeft(orphanExisting, m.st,
                     SetToSeq({m.dspId[t] : t \in S} \ {NoProof}))]

RemoveStaged(m, S) ==
    [mapTx |-> Without(m.mapTx, S),
     mapNextTx |-> [o \in DOMAIN m.mapNextTx |->
                       IF m.mapNextTx[o] \in S THEN NoTx ELSE m.mapNextTx[o]],
     parents |-> [t \in Txs |-> IF t \in S THEN {} ELSE m.parents[t] \ S],
     children |-> [t \in Txs |-> IF t \in S THEN {} ELSE m.children[t] \ S],
     dspId |-> [t \in Txs |-> IF t \in S THEN NoProof ELSE m.dspId[t]],
     st |-> FoldLeft(orphanExisting, m.st,
                     SetToSeq({m.dspId[t] : t \in S} \ {NoProof}))]

(* The transaction with its descendants, or those that spend its output.   *)
removeRecursive(m, t) ==
    RemoveStaged(m, CalculateDescendants(m,
        IF InPool(m, t) THEN {t} ELSE {m.mapNextTx[t]} \ {NoTx}))

removeConflicts(m, t) ==
    FoldLeft(removeRecursive, m, SetToSeq({m.mapNextTx[o] : o \in Inputs(t)} \ {NoTx, t}))

(* The cheapest transaction goes, with its descendants, until all fit.     *)
RECURSIVE TrimToSize(_)
TrimToSize(m) ==
    IF Len(m.mapTx) <= MaxMempool THEN m
    ELSE TrimToSize(RemoveStaged(m, CalculateDescendants(m,
             {CHOOSE t \in Range(m.mapTx) :
                  \A u \in Range(m.mapTx) : FeeRate(t) <= FeeRate(u)})))

-----------------------------------------------------------------------------
(* DisconnectedBlockTransactions.  d is a record of the mempool m, the     *)
(* queue q, oldest entry first, and the entries the limit has dropped.     *)

(* Slip: a queued parent stays where it is. *)
RECURSIVE ReinsertNothing(_, _)
ReinsertNothing(q, S) == q

(* The queued transactions among S move to the end, then their parents.    *)
RECURSIVE Reinsert(_, _)
Reinsert(q, S) ==
    LET queued == S \cap Range(q)
    IN  IF queued = {} THEN q
        ELSE Reinsert(Without(q, queued) \o SetToSeq(queued),
                      UNION {Inputs(t) : t \in queued})

Enqueue(q, t) == IF t \in Range(q) THEN q ELSE Reinsert(Append(q, t), Inputs(t))

(* The transactions of vtx at the end of q, children before parents.       *)
Sorted(q, vtx) == FoldLeft(Enqueue, q, Reverse(vtx))

RECURSIVE DropEarliest(_)
DropEarliest(d) ==
    IF Len(d.q) <= MaxQueue THEN d
    ELSE DropEarliest([m |-> removeRecursive(d.m, Head(d.q)),
                       q |-> Tail(d.q), dropped |-> d.dropped \cup {Head(d.q)}])

addForBlock(d, vtx) == DropEarliest([d EXCEPT !.q = Sorted(@, vtx)])

(* The mempool is emptied into the front of the queue, its proofs become   *)
(* orphans.                                                                *)
importMempool(d) ==
    LET sorted == Sorted(<<>>, d.m.mapTx)
    IN  DropEarliest([d EXCEPT !.m = Empty(clear(orphanAll(d.m.st), FALSE)),
                               !.q = Without(sorted, Range(@)) \o @])

(* A block is connected: its transactions leave the mempool, parents       *)
(* first, and what conflicts with them goes.                               *)
removeForBlock(m, vtx) ==
    LET RemoveTx(p, t) == IF InPool(p, t) THEN RemoveStaged(p, {t}) ELSE removeConflicts(p, t)
    IN  IF m.mapTx = <<>> THEN m
        ELSE FoldLeft(RemoveTx, m, Reverse(Sorted(<<>>, vtx)))

DisconnectTip(d, b) ==
    LET e == IF b \in Upgrade THEN [importMempool(d) EXCEPT !.m = Empty(clear(@.st, TRUE))]
                              ELSE d
    IN  addForBlock(e, Vtx(b))

ConnectTip(d, b) ==
    LET e == [d EXCEPT !.m = removeForBlock(@, Vtx(b)), !.q = Without(@, Range(Vtx(b)))]
    IN  IF b \in Upgrade THEN importMempool(e) ELSE e

-----------------------------------------------------------------------------
(* AcceptToMemoryPool *)

(* The proof is attached to the transaction that spends its output, unless *)
(* there is none or it has one.                                            *)
addDoubleSpendProof(m, q) ==
    LET t == m.mapNextTx[OutPoint(q)]
    IN  IF t = NoTx \/ m.dspId[t] # NoProof THEN m
        ELSE [m EXCEPT !.st = add(@, q), !.dspId[t] = q]

(* DoubleSpendProof::validate *)
validate(m, q, utxo) ==
    IF OutPoint(q) \notin utxo \cup Range(m.mapTx) THEN "MissingUTXO"
    ELSE IF m.mapNextTx[OutPoint(q)] = NoTx THEN "MissingTransaction"
    ELSE IF q \in Genuine THEN "Valid" ELSE "Invalid"

HaveInputs(m, t, utxo) ==
    \A o \in Inputs(t) : InPool(m, o) \/ o \in utxo

(* A conflict with the transaction that spends o makes a proof, if one can *)
(* be made of the two.                                                     *)
ProveConflict(m, t, o, utxo) ==
    LET made == {q \in Genuine : OutPoint(q) = o /\ Spenders(q) = {t, m.mapNextTx[o]}}
    IN  FoldLeft(addDoubleSpendProof, m,
            SetToSeq({q \in made : validate(m, q, utxo) = "Valid"}))

(* LimitSize: the oldest transactions expire, then the cheapest go.        *)
LimitSize(m) ==
    {TrimToSize(RemoveStaged(m, CalculateDescendants(m, First(m.mapTx, n)))) :
        n \in 0 .. Len(m.mapTx)}

(* Slip: the orphans of the transaction are left alone. *)
RescueNone(m, found, utxo) == {m}

(* Of the orphans found, one that is valid is attached and the rest go.    *)
Rescue(m, found, utxo) ==
    LET valid == {q \in found \cap Orphans(m.st) : validate(m, q, utxo) = "Valid"}
    IN  IF valid = {} THEN {[m EXCEPT !.st = remove(@, found)]}
        ELSE {[addDoubleSpendProof(m, q) EXCEPT !.st = remove(@, found \ {q})] : q \in valid}

(* What AcceptToMemoryPoolWorker can make of the mempool.                  *)
Accept(m, t, utxo, bypass_limits) ==
    LET conflicts == {o \in Inputs(t) : m.mapNextTx[o] # NoTx}
        limited == IF bypass_limits THEN {addUnchecked(m, t)} ELSE LimitSize(addUnchecked(m, t))
    IN  IF InPool(m, t) THEN {m}
        ELSE IF conflicts # {} THEN {ProveConflict(m, t, o, utxo) : o \in conflicts}
        ELSE IF ~HaveInputs(m, t, utxo) \/ m.mapNextTx[t] # NoTx THEN {m}
        ELSE UNION {IF InPool(l, t) THEN Rescue(l, findOrphans(m.st, Inputs(t)), utxo) ELSE {l} :
                       l \in limited}

-----------------------------------------------------------------------------
NoUnwind == [block |-> NoBlock, q |-> <<>>, dropped |-> {}, owed |-> {}]

NothingKept == [owed |-> {}, excused |-> {}]

Init ==
    /\ tip = Genesis
    /\ failed = {}
    /\ mem = Empty(NoProofs)
    /\ pc = "idle"
    /\ goal = 0
    /\ queuedTx = <<>>
    /\ unwind = NoUnwind
    /\ kept = NothingKept

chain == <<tip, failed, pc, goal, queuedTx, unwind>>

(* A peer or the wallet submits a transaction. *)
AcceptToMemoryPool(t) ==
    /\ pc = "idle"
    /\ mem' \in Accept(mem, t, Utxo[tip], FALSE)
    /\ UNCHANGED <<chain, kept>>

(* The DSPROOF message.  A proof that is not valid is not kept.            *)
ReceiveDSProof(q) ==
    /\ pc = "idle"
    /\ LET verdict == validate(mem, q, Utxo[tip])
       IN  mem' = CASE verdict = "Valid"   -> addDoubleSpendProof(mem, q)
                    [] verdict = "Invalid" -> mem
                    [] OTHER               -> [mem EXCEPT !.st = addOrphan(@, q)]
    /\ UNCHANGED <<chain, kept>>

(* The scheduled expiry takes only the mempool's lock.                     *)
Expire(t) ==
    LET stage == CalculateDescendants(mem, {t})
    IN  /\ InPool(mem, t)
        /\ mem' = RemoveStaged(mem, stage)
        /\ kept' = IF pc = "idle" THEN kept ELSE [kept EXCEPT !.excused = @ \cup stage]
        /\ UNCHANGED chain

PeriodicCleanup(n) ==
    /\ n \in DOMAIN mem.st.orphans
    /\ mem' = [mem EXCEPT !.st = periodicCleanup(@, n)]
    /\ UNCHANGED <<chain, kept>>

-----------------------------------------------------------------------------
(* The blocks from the fork to target, in order *)
ToConnect(target) ==
    SetToSortSeq(Path[target] \ Path[tip], LAMBDA a, b : nHeight[a] < nHeight[b])

ToDisconnect(target) ==
    SetToSortSeq(Path[tip] \ Path[target], LAMBDA a, b : nHeight[a] > nHeight[b])

(* ActivateBestChainStep stops after the first block with more work than   *)
(* the old tip, or at a bad one.                                           *)
Tries(blocks) == SelectSeq(blocks, LAMBDA b : nHeight[Parent(b)] <= nHeight[tip])

Connects(blocks) == SelectSeq(Tries(blocks), LAMBDA b : Path[b] \cap Bad = {})

(* ActivateBestChain keeps cs_main until the tip is as good as at first.   *)
Starting == IF pc = "idle" THEN nHeight[tip] ELSE goal

Release(newTip, height) ==
    /\ pc' = IF nHeight[newTip] < height THEN "retry" ELSE "idle"
    /\ goal' = IF nHeight[newTip] < height THEN height ELSE 0

(* Every step of the reorganisation in one, as cs_main is held; what       *)
(* updateMempoolForReorg then does is ReAdd and UpdateDone.                *)
ActivateBestChainStep(target) ==
    LET off   == ToDisconnect(target)
        on    == Connects(ToConnect(target))
        start == [m |-> mem, q |-> <<>>, dropped |-> {}]
    IN  /\ pc \in {"idle", "retry"}
        /\ target # tip /\ Path[target] \cap failed = {} /\ nHeight[target] >= nHeight[tip]
        /\ \E d \in {FoldLeft(ConnectTip,
                        FoldLeft(DisconnectTip, IF off = <<>> THEN start ELSE importMempool(start), off),
                        on)} :
              /\ mem' = d.m
              /\ queuedTx' = d.q
              /\ tip' = IF on # <<>> THEN Last(on)
                        ELSE IF off # <<>> THEN Parent(Last(off)) ELSE tip
              /\ IF off # <<>> \/ d.q # <<>>
                 THEN pc' = "readd" /\ goal' = Starting
                 ELSE Release(tip', Starting)
              /\ kept' = IF off = <<>> /\ d.q = <<>> THEN kept
                         ELSE [owed |-> Range(mem.mapTx) \cup UNION {Range(Vtx(b)) : b \in Range(off)},
                               excused |-> d.dropped]
        /\ failed' = failed \cup (Range(Tries(ToConnect(target))) \cap Bad)
        /\ UNCHANGED unwind

(* One turn of updateMempoolForReorg, from the newest entry *)
ReAdd ==
    /\ pc = "readd" /\ queuedTx # <<>>
    /\ mem' \in Accept(mem, Last(queuedTx), Utxo[tip], TRUE)
    /\ queuedTx' = Front(queuedTx)
    /\ UNCHANGED <<tip, failed, pc, goal, unwind, kept>>

UpdateDone ==
    /\ pc = "readd" /\ queuedTx = <<>>
    /\ mem' \in LimitSize(mem)
    /\ Release(tip, goal)
    /\ kept' = NothingKept
    /\ UNCHANGED <<tip, failed, queuedTx, unwind>>

-----------------------------------------------------------------------------
(* One turn of UnwindBlock for block b; cs_main is released after it.  The *)
(* first turn takes over the mempool.                                      *)
UnwindTurn(b) ==
    LET start == [m |-> mem, q |-> unwind.q, dropped |-> unwind.dropped]
        first == unwind = NoUnwind
    IN  /\ pc = "idle" /\ b # Genesis /\ b \in Path[tip]
        /\ IF first THEN nHeight[tip] - nHeight[b] < MaxUnwind ELSE unwind.block = b
        /\ \E d \in {DisconnectTip(IF first THEN importMempool(start) ELSE start, tip)} :
              /\ mem' = d.m
              /\ unwind' = [block |-> b, q |-> d.q, dropped |-> d.dropped,
                            owed |-> unwind.owed \cup Range(Vtx(tip))
                                       \cup (IF first THEN Range(mem.mapTx) ELSE {})]
        /\ tip' = Parent(tip)
        /\ failed' = failed \cup {tip}
        /\ UNCHANGED <<pc, goal, queuedTx, kept>>

(* The block is off the chain: what was collected is added again.          *)
UnwindEnd ==
    /\ pc = "idle" /\ unwind # NoUnwind /\ unwind.block \notin Path[tip]
    /\ pc' = IF unwind.q = <<>> THEN "idle" ELSE "readd"
    /\ queuedTx' = unwind.q
    /\ kept' = IF unwind.q = <<>> THEN kept
               ELSE [owed |-> unwind.owed, excused |-> unwind.dropped]
    /\ unwind' = NoUnwind
    /\ UNCHANGED <<tip, failed, mem, goal>>

Next ==
    \/ \E t \in Txs : AcceptToMemoryPool(t)
    \/ \E q \in Proofs : ReceiveDSProof(q)
    \/ \E t \in Txs : Expire(t)
    \/ \E n \in 1 .. Cardinality(Proofs) : PeriodicCleanup(n)
    \/ \E b \in Blocks : ActivateBestChainStep(b)
    \/ ReAdd
    \/ UpdateDone
    \/ \E b \in Blocks : UnwindTurn(b)
    \/ UnwindEnd

Spec == Init /\ [][Next]_vars

-----------------------------------------------------------------------------
(* In every state, with or without cs_main held, the mempool is what       *)
(* CTxMemPool::check asserts: each transaction spends outputs that are     *)
(* unspent at the tip or made by a transaction before it in the entry_id   *)
(* order, mapNextTx names exactly the spenders, and mapLinks the parents   *)
(* and children that are in the mempool.                                   *)
MempoolIsConsistent ==
    LET pool == Range(mem.mapTx)
    IN  /\ \A i \in DOMAIN mem.mapTx : \A o \in Inputs(mem.mapTx[i]) :
              /\ o \in Utxo[tip] \/ \E j \in 1 .. i - 1 : mem.mapTx[j] = o
              /\ mem.mapNextTx[o] = mem.mapTx[i]
        /\ \A o \in DOMAIN mem.mapNextTx : mem.mapNextTx[o] # NoTx =>
              mem.mapNextTx[o] \in pool /\ o \in Inputs(mem.mapNextTx[o])
        /\ \A t \in pool : /\ mem.parents[t] = Inputs(t) \cap pool
                           /\ mem.children[t] = {u \in pool : t \in Inputs(u)}

(* What the comments in UnwindBlock promise of the mempool: once           *)
(* invalidateblock or parkblock has added the transactions back, every     *)
(* transaction in the mempool has its inputs.                              *)
UnwindKeepsMempoolConsistent ==
    pc = "idle" /\ unwind = NoUnwind =>
        \A t \in Range(mem.mapTx) : HaveInputs(mem, t, Utxo[tip])

(* The proofs that are not orphans are exactly those the mempool's entries *)
(* name, each under the entry that spends its output, as                   *)
(* listDoubleSpendProofs demands, and m_numOrphans counts the orphans.     *)
ProofsMatchPool ==
    /\ mem.st.live = {mem.dspId[t] : t \in Range(mem.mapTx)} \ {NoProof}
    /\ \A q \in mem.st.live : mem.dspId[mem.mapNextTx[OutPoint(q)]] = q
    /\ mem.st.numOrphans = Len(mem.st.orphans)

(* A good proof never waits among the orphans while the transaction it is  *)
(* about sits in the mempool without one: AcceptToMemoryPool claims the    *)
(* orphans of a transaction, and the DSPROOF handler attaches at once.     *)
NoProofIsOverlooked ==
    \A q \in Orphans(mem.st) \cap Genuine :
        LET t == mem.mapNextTx[OutPoint(q)] IN t # NoTx => mem.dspId[t] # NoProof

(* After a reorganisation, and after invalidateblock, each transaction     *)
(* that was in the mempool or in a disconnected block is in the mempool    *)
(* again, or in the new chain, unless it expired, the disconnectpool had   *)
(* no room for it, or an input of it is gone or taken by another           *)
(* transaction, which may have expired meanwhile.                          *)
NothingIsLost ==
    pc = "readd" /\ queuedTx = <<>> =>
        \A t \in kept.owed \ kept.excused :
            \/ InPool(mem, t)
            \/ t \in Confirmed[tip]
            \/ ~HaveInputs(mem, t, Utxo[tip])
            \/ \E u \in (Range(mem.mapTx) \cup kept.excused) \ {t} :
                   Inputs(u) \cap Inputs(t) # {}

=============================================================================
