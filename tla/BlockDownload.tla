---------------------------- MODULE BlockDownload ----------------------------
(***************************************************************************)
(* The bookkeeping of block download in net_processing.cpp: which block    *)
(* has been asked of which peer (mapBlocksInFlight and each peer's         *)
(* vBlocksInFlight), what a peer is assumed to have, the download window,  *)
(* compact blocks, and the stalling and timeout rules that take a request  *)
(* away from a peer that does not answer.                                  *)
(*                                                                         *)
(* Every handler runs on the message thread, under cs_main or between two  *)
(* of its critical sections with no other handler in between, so a handler *)
(* is one action; FinalizeNode, on the socket thread, interleaves with     *)
(* them.  There is no clock: a timeout may fire whenever its condition     *)
(* holds.  Work is height, nMinimumChainWork is zero, and nothing is       *)
(* pruned.  Peers answer a GETBLOCKTXN at most once.                       *)
(***************************************************************************)
EXTENDS Integers, FiniteSets

CONSTANTS
    Blocks,         \* every block there is, Genesis included
    Genesis,
    Parent(_),      \* pprev
    Bad,            \* blocks that fail ContextualCheckBlock
    Peers,
    ChainOf(_),     \* the blocks a peer announces
    Responsive,     \* peers on a good chain that answer before a timeout
    Mined,          \* blocks that may come over RPC
    Nobody,         \* NodeId -1
    NoBlock,        \* a null CBlockIndex pointer or hash
    MAX_BLOCKS_IN_TRANSIT_PER_PEER,
    BLOCK_DOWNLOAD_WINDOW

ASSUME BlocksAssumption == IsFiniteSet(Blocks) /\ Genesis \in Blocks
ASSUME PeersAssumption ==
    /\ IsFiniteSet(Peers) /\ Responsive \subseteq Peers /\ Nobody \notin Peers
    /\ Mined \subseteq Blocks \ {Genesis}
    /\ \A p \in Peers : ChainOf(p) \subseteq Blocks \ {Genesis}
ASSUME LimitAssumption == MAX_BLOCKS_IN_TRANSIT_PER_PEER \in Nat \ {0}

VARIABLES
    mapBlockIndex,  \* blocks whose header is known
    hasData,        \* blocks stored on disk
    failed,         \* blocks marked invalid
    tip,            \* tip of the active chain
    node,           \* "up", "dropping" (fDisconnect) or "gone"
    pindexBestKnownBlock,
    hashLastUnknownBlock,
    pindexLastCommonBlock,
    dl,             \* the download bookkeeping, a record (see Init)
    getdata,        \* blocks asked of a responsive peer and not answered
    getblocktxn     \* blocks whose missing transactions a peer was asked for

chain == <<mapBlockIndex, hasData, failed, tip>>
avail == <<pindexBestKnownBlock, hashLastUnknownBlock, pindexLastCommonBlock>>
asked == <<getdata, getblocktxn>>
vars == <<chain, node, avail, dl, asked>>

-----------------------------------------------------------------------------
(* The block tree *)

Ancestry[b \in Blocks] == IF b = Genesis THEN {b} ELSE {b} \cup Ancestry[Parent(b)]

Path == [b \in Blocks |-> Ancestry[b]]

nHeight == [b \in Blocks |-> Cardinality(Path[b]) - 1]

(* The blocks form a tree: a branch has one block at each height.          *)
ASSUME TreeAssumption ==
    \A b \in Blocks :
        /\ Path[b] \subseteq Blocks
        /\ \A a, c \in Path[b] : nHeight[a] = nHeight[c] => a = c

IsInvalid(b) == Path[b] \cap failed # {}

HaveTxsDownloaded(b) == Path[b] \subseteq hasData

LastCommonAncestor(a, b) ==
    CHOOSE c \in Path[a] \cap Path[b] :
        \A d \in Path[a] \cap Path[b] : nHeight[d] <= nHeight[c]

(* The n lowest blocks of a set that lies on one branch *)
Lowest(S, n) == {a \in S : Cardinality({c \in S : nHeight[c] < nHeight[a]}) < n}

Highest(S, n) == {a \in S : Cardinality({c \in S : nHeight[c] > nHeight[a]}) < n}

-----------------------------------------------------------------------------
(* In-flight bookkeeping.  All callers pass a block index, so              *)
(* nBlocksInFlightValidHeaders is nBlocksInFlight.                         *)

InFlight(b) == dl.mapBlocksInFlight[b] # Nobody

(* Slip: the counter of downloading peers is left alone. *)
MarkBlockAsReceivedUncounted(d, b) ==
    LET p == d.mapBlocksInFlight[b]
    IN  IF p = Nobody THEN d
        ELSE [d EXCEPT !.mapBlocksInFlight[b] = Nobody,
                       !.vBlocksInFlight[p] = @ \ {b},
                       !.partialBlock = @ \ {b},
                       !.nBlocksInFlight[p] = @ - 1,
                       !.nStallingSince[p] = FALSE]

(* Slip: the stalling clock of the peer keeps running. *)
MarkBlockAsReceivedStalling(d, b) ==
    LET p == d.mapBlocksInFlight[b]
    IN  IF p = Nobody THEN d
        ELSE [d EXCEPT !.mapBlocksInFlight[b] = Nobody,
                       !.vBlocksInFlight[p] = @ \ {b},
                       !.partialBlock = @ \ {b},
                       !.nBlocksInFlight[p] = @ - 1,
                       !.nPeersWithValidatedDownloads =
                           @ - (IF d.nBlocksInFlight[p] = 1 THEN 1 ELSE 0)]

MarkBlockAsReceived(d, b) ==
    LET p == d.mapBlocksInFlight[b]
    IN  IF p = Nobody THEN d
        ELSE [d EXCEPT !.mapBlocksInFlight[b] = Nobody,
                       !.vBlocksInFlight[p] = @ \ {b},
                       !.partialBlock = @ \ {b},
                       !.nBlocksInFlight[p] = @ - 1,
                       !.nPeersWithValidatedDownloads =
                           @ - (IF d.nBlocksInFlight[p] = 1 THEN 1 ELSE 0),
                       !.nStallingSince[p] = FALSE]

(* One call for each block of B, none of which is in flight: every caller  *)
(* has just tested that, or that the block is in flight from p itself, for *)
(* which the code returns early.                                           *)
MarkBlockAsInFlight(d, p, B) ==
    [d EXCEPT !.mapBlocksInFlight = [b \in Blocks |-> IF b \in B THEN p ELSE @[b]],
              !.vBlocksInFlight[p] = @ \cup B,
              !.nBlocksInFlight[p] = @ + Cardinality(B),
              !.nPeersWithValidatedDownloads =
                  @ + (IF d.nBlocksInFlight[p] = 0 /\ B # {} THEN 1 ELSE 0)]

-----------------------------------------------------------------------------
(* What a peer is assumed to have.  Both operators take the set of headers *)
(* known at the time of the call.                                          *)

Better(known, b) ==
    IF known = NoBlock \/ nHeight[b] >= nHeight[known] THEN b ELSE known

Resolved(p, index) ==
    hashLastUnknownBlock[p] # NoBlock /\ hashLastUnknownBlock[p] \in index

ProcessBlockAvailability(p, index) ==
    IF Resolved(p, index)
    THEN Better(pindexBestKnownBlock[p], hashLastUnknownBlock[p])
    ELSE pindexBestKnownBlock[p]

UpdateBlockAvailability(p, b, index) ==
    /\ pindexBestKnownBlock' =
           [pindexBestKnownBlock EXCEPT ![p] =
               IF b \in index THEN Better(ProcessBlockAvailability(p, index), b)
                              ELSE ProcessBlockAvailability(p, index)]
    /\ hashLastUnknownBlock' =
           [hashLastUnknownBlock EXCEPT ![p] =
               IF b \notin index THEN b
               ELSE IF Resolved(p, index) THEN NoBlock ELSE @]
    /\ UNCHANGED pindexLastCommonBlock

-----------------------------------------------------------------------------
(* Choosing what to ask of a peer *)

(* The walk from the last common block towards the peer's best block: the  *)
(* new last common block, the blocks to fetch, and the peer that holds up  *)
(* the window.  A block is linked when all its ancestors are stored, so    *)
(* the linked ones come before the first that is missing.                  *)
Walk(p, known, common, count) ==
    LET windowEnd == nHeight[common] + BLOCK_DOWNLOAD_WINDOW
        steps  == {a \in Path[known] : /\ nHeight[a] > nHeight[common]
                                       /\ nHeight[a] <= windowEnd + 1
                                       /\ ~IsInvalid(a)}
        linked == {a \in steps : HaveTxsDownloaded(a)}
        wanted == {a \in steps : a \notin hasData /\ ~InFlight(a)}
        inside == {a \in wanted : nHeight[a] <= windowEnd}
        waiting == Lowest({a \in steps : a \notin hasData /\ InFlight(a)}, 1)
    IN  [last    |-> IF linked = {} THEN common
                     ELSE CHOOSE a \in linked : Highest(linked, 1) = {a},
         blocks  |-> Lowest(inside, count),
         staller |-> IF wanted # {} /\ inside = {}
                     THEN {dl.mapBlocksInFlight[a] : a \in waiting} \ {p}
                     ELSE {}]

(* A null last common block starts at the active chain, as high as both go *)
StartOfWalk(p, known) ==
    IF pindexLastCommonBlock[p] # NoBlock
    THEN LastCommonAncestor(pindexLastCommonBlock[p], known)
    ELSE LastCommonAncestor(
             CHOOSE a \in Path[tip] :
                 \/ nHeight[a] = nHeight[known]
                 \/ a = tip /\ nHeight[tip] <= nHeight[known],
             known)

(* A peer whose best block has less work than the tip is of no interest.   *)
FindNextBlocksToDownload(p, known, count) ==
    IF known = NoBlock \/ (known # NoBlock /\ nHeight[known] < nHeight[tip])
    THEN [last |-> pindexLastCommonBlock[p], blocks |-> {}, staller |-> {}]
    ELSE Walk(p, known, StartOfWalk(p, known), count)

(* The direct fetch of ProcessHeadersMessage: the missing blocks from b    *)
(* back to the active chain, unless they are more than the limit allows.   *)
DirectFetch(p, b) ==
    LET missing == {a \in Path[b] \ Path[tip] : a \notin hasData /\ ~InFlight(a)}
        toFetch == Highest(missing, MAX_BLOCKS_IN_TRANSIT_PER_PEER + 1)
        reaches == Cardinality(toFetch) <= MAX_BLOCKS_IN_TRANSIT_PER_PEER
                   \/ \A a \in Lowest(toFetch, 1) : Parent(a) \in Path[tip]
    IN  IF nHeight[tip] <= nHeight[b] /\ reaches
        THEN Lowest(toFetch, MAX_BLOCKS_IN_TRANSIT_PER_PEER - dl.nBlocksInFlight[p])
        ELSE {}

-----------------------------------------------------------------------------
(* Validation, as far as download depends on it *)

HeaderIsAcceptable(b) == Parent(b) \in mapBlockIndex /\ ~IsInvalid(b)

(* An unrequested block needs at least the work of the tip.                *)
IsProcessed(b, force) ==
    /\ HeaderIsAcceptable(b)
    /\ b \notin hasData
    /\ force \/ nHeight[b] >= nHeight[tip]

(* The tip moves to a linked block of more work.  Which of several such    *)
(* blocks, and parking, are the business of ChainState.                    *)
BestTip(data) ==
    LET better == {a \in data : Path[a] \subseteq data /\ nHeight[a] > nHeight[tip]}
    IN  IF better = {} THEN tip
        ELSE CHOOSE a \in better : \A c \in better : nHeight[c] <= nHeight[a]

ProcessNewBlock(b, force) ==
    /\ mapBlockIndex' = IF HeaderIsAcceptable(b)
                        THEN mapBlockIndex \cup {b} ELSE mapBlockIndex
    /\ failed' = IF IsProcessed(b, force) /\ b \in Bad THEN failed \cup {b} ELSE failed
    /\ hasData' = IF IsProcessed(b, force) /\ b \notin Bad
                  THEN hasData \cup {b} ELSE hasData
    /\ tip' = BestTip(hasData')

-----------------------------------------------------------------------------
Init ==
    /\ mapBlockIndex = {Genesis} /\ hasData = {Genesis} /\ failed = {}
    /\ tip = Genesis
    /\ node = [p \in Peers |-> "up"]
    /\ pindexBestKnownBlock = [p \in Peers |-> NoBlock]
    /\ hashLastUnknownBlock = [p \in Peers |-> NoBlock]
    /\ pindexLastCommonBlock = [p \in Peers |-> NoBlock]
    /\ dl = [mapBlocksInFlight |-> [b \in Blocks |-> Nobody],
             vBlocksInFlight   |-> [p \in Peers |-> {}],
             partialBlock      |-> {},
             nBlocksInFlight   |-> [p \in Peers |-> 0],
             nPeersWithValidatedDownloads |-> 0,
             nStallingSince    |-> [p \in Peers |-> FALSE]]
    /\ getdata = [p \in Responsive |-> {}]
    /\ getblocktxn = [p \in Peers |-> {}]

Announces(p, b) == node[p] = "up" /\ b \in ChainOf(p)

MaySend(p, b) ==
    /\ node[p] = "up" /\ b # Genesis
    /\ IF p \in Responsive THEN b \in getdata[p]
       ELSE b \in ChainOf(p) \/ dl.mapBlocksInFlight[b] = p

(* Only the requests to responsive peers are followed: the others may send *)
(* a block they announce at any time, and what they are asked for.         *)
Ask(p, B) == getdata' = [q \in Responsive |-> IF q = p THEN getdata[q] \cup B ELSE getdata[q]]

Answered(p, b) == getdata' = [q \in Responsive |-> IF q = p THEN getdata[q] \ {b} ELSE getdata[q]]

(* The peer is marked for disconnection, or not when it is not punished.   *)
MayDrop(p) == node' \in {node, [node EXCEPT ![p] = "dropping"]}

(* An INV, or a HEADERS message that does not connect. *)
ReceiveInv(p, b) ==
    /\ Announces(p, b)
    /\ UpdateBlockAvailability(p, b, mapBlockIndex)
    /\ UNCHANGED <<chain, node, dl, asked>>

(* A HEADERS message that ends in b; recent is CanDirectFetch.             *)
ReceiveHeaders(p, b, recent) ==
    /\ Announces(p, b)
    /\ mapBlockIndex' = mapBlockIndex \cup {a \in Path[b] : ~IsInvalid(a)}
    /\ UNCHANGED <<hasData, failed, tip, getblocktxn>>
    /\ \/ /\ IsInvalid(b)
          /\ MayDrop(p)
          /\ UNCHANGED <<avail, dl, getdata>>
       \/ /\ ~IsInvalid(b)
          /\ UpdateBlockAvailability(p, b, mapBlockIndex')
          /\ \E B \in {IF recent THEN DirectFetch(p, b) ELSE {}} :
                 /\ dl' = MarkBlockAsInFlight(dl, p, B)
                 /\ Ask(p, B)
          /\ UNCHANGED node

(* A BLOCK message, asked for or not, and intact or with other contents    *)
(* than its header commits to, which CheckBlock refuses.                   *)
ReceiveBlock(p, b, intact) ==
    /\ MaySend(p, b)
    /\ p \in Responsive => intact
    /\ dl' = MarkBlockAsReceived(dl, b)
    /\ Answered(p, b)
    /\ \/ /\ intact
          /\ ProcessNewBlock(b, InFlight(b))
          /\ IF b \in failed' \/ ~HeaderIsAcceptable(b) THEN MayDrop(p) ELSE UNCHANGED node
       \/ /\ ~intact
          /\ node' = [node EXCEPT ![p] = "dropping"]
          /\ UNCHANGED chain
    /\ UNCHANGED <<avail, getblocktxn>>

(* A block that comes over RPC is processed without MarkBlockAsReceived.   *)
SubmitBlock(b) ==
    /\ HeaderIsAcceptable(b) /\ b \notin hasData
    /\ ProcessNewBlock(b, TRUE)
    /\ UNCHANGED <<node, avail, dl, asked>>

-----------------------------------------------------------------------------
(* Compact blocks.  status is what reconstructing the block comes to: "ok", *)
(* "missing" (transactions must be asked for), "failed" (a short-id clash, *)
(* fall back to GETDATA) or "invalid".                                     *)

(* The block is put in flight from p, or already is, with a partial block. *)
StartPartial(p, b) ==
    [MarkBlockAsInFlight(dl, p, {b} \ dl.vBlocksInFlight[p])
        EXCEPT !.partialBlock = @ \cup {b}]

MayStartPartial(p, b) ==
    \/ ~InFlight(b) /\ dl.nBlocksInFlight[p] < MAX_BLOCKS_IN_TRANSIT_PER_PEER
    \/ dl.mapBlocksInFlight[b] = p

(* Of the whole message only the header counts. *)
HeaderOnly(b) ==
    /\ mapBlockIndex' = mapBlockIndex \cup {b}
    /\ UNCHANGED <<hasData, failed, tip>>

(* The compact block of a block that may be put in flight from p.          *)
CompactFromHolder(p, b, status) ==
    \/ /\ status = "invalid" /\ p \notin Responsive
       /\ dl' = MarkBlockAsReceived(StartPartial(p, b), b)
       /\ node' = [node EXCEPT ![p] = "dropping"]
       /\ HeaderOnly(b) /\ UNCHANGED asked
    \/ /\ status = "failed"
       /\ dl' = StartPartial(p, b)
       /\ Ask(p, {b})
       /\ HeaderOnly(b) /\ UNCHANGED <<node, getblocktxn>>
    \/ /\ status = "missing"
       /\ dl' = StartPartial(p, b)
       /\ getblocktxn' = [getblocktxn EXCEPT ![p] = @ \cup {b}]
       /\ Answered(p, b)
       /\ HeaderOnly(b) /\ UNCHANGED node
    \/ /\ status = "ok"
       /\ dl' = MarkBlockAsReceived(StartPartial(p, b), b)
       /\ Answered(p, b)
       /\ ProcessNewBlock(b, TRUE) /\ UNCHANGED <<node, getblocktxn>>

(* In flight from another peer, or p is at its limit: the block counts     *)
(* only if it can be reconstructed at once, and the request elsewhere is   *)
(* dropped only if the block then proves valid.                            *)
CompactFromOther(p, b, status) ==
    /\ IF status = "ok" THEN ProcessNewBlock(b, TRUE) ELSE HeaderOnly(b)
    /\ dl' = IF b \in hasData' THEN MarkBlockAsReceived(dl, b) ELSE dl
    /\ UNCHANGED <<node, asked>>

(* The compact form is of no use: what is in flight is asked for as a      *)
(* block, and the blocks B as after a HEADERS message.                     *)
CompactAsHeader(p, b, B) ==
    /\ HeaderOnly(b)
    /\ dl' = MarkBlockAsInFlight(dl, p, B)
    /\ Ask(p, IF InFlight(b) /\ b \notin hasData THEN {b} ELSE B)
    /\ UNCHANGED <<node, getblocktxn>>

(* More work than the tip, not stored, and asked for or close to the tip   *)
CompactIsUseful(b, recent) ==
    b \notin hasData /\ nHeight[b] > nHeight[tip] /\ (InFlight(b) \/ recent)

ReceiveCmpctBlock(p, b, recent, status) ==
    /\ Announces(p, b) /\ Parent(b) \in mapBlockIndex
    /\ IF IsInvalid(b)
       THEN MayDrop(p) /\ UNCHANGED <<chain, avail, dl, asked>>
       ELSE /\ UpdateBlockAvailability(p, b, mapBlockIndex \cup {b})
            /\ \/ /\ CompactIsUseful(b, recent) /\ nHeight[b] <= nHeight[tip] + 2
                  /\ \/ /\ MayStartPartial(p, b) /\ b \notin dl.partialBlock
                        /\ CompactFromHolder(p, b, status)
                     \/ /\ MayStartPartial(p, b) /\ b \in dl.partialBlock
                        /\ HeaderOnly(b) /\ UNCHANGED <<node, dl, asked>>
                     \/ ~MayStartPartial(p, b) /\ CompactFromOther(p, b, status)
               \/ /\ CompactIsUseful(b, recent) /\ nHeight[b] > nHeight[tip] + 2
                  /\ CompactAsHeader(p, b, IF InFlight(b) THEN {} ELSE DirectFetch(p, b))
               \/ /\ ~CompactIsUseful(b, recent)
                  /\ CompactAsHeader(p, b, {})

ReceiveBlockTxn(p, b, status) ==
    /\ node[p] = "up" /\ b \in getblocktxn[p]
    /\ getblocktxn' = [getblocktxn EXCEPT ![p] = @ \ {b}]
    /\ UNCHANGED avail
    /\ \/ /\ b \notin dl.partialBlock \/ dl.mapBlocksInFlight[b] # p
          /\ UNCHANGED <<chain, node, dl, getdata>>
       \/ /\ b \in dl.partialBlock /\ dl.mapBlocksInFlight[b] = p
          /\ \/ /\ status = "invalid" /\ p \notin Responsive
                /\ dl' = MarkBlockAsReceived(dl, b)
                /\ node' = [node EXCEPT ![p] = "dropping"]
                /\ UNCHANGED <<chain, getdata>>
             \/ /\ status = "failed"
                /\ Ask(p, {b})
                /\ UNCHANGED <<chain, node, dl>>
             \/ /\ status = "ok"
                /\ dl' = MarkBlockAsReceived(dl, b)
                /\ ProcessNewBlock(b, TRUE)
                /\ UNCHANGED <<node, getdata>>

-----------------------------------------------------------------------------
(* SendMessages *)

(* The stalling or download timeout of the peer has passed.                *)
TimeOut(p) ==
    /\ node[p] = "up" /\ p \notin Responsive
    /\ dl.nStallingSince[p] \/ dl.vBlocksInFlight[p] # {}
    /\ node' = [node EXCEPT ![p] = "dropping"]
    /\ UNCHANGED <<chain, avail, dl, asked>>

(* Ask for the blocks B, and start the stalling clock of the peer that     *)
(* holds up the window if nothing is in flight from this one.              *)
RequestBlocks(p, B, staller) ==
    /\ Ask(p, B)
    /\ dl' = [MarkBlockAsInFlight(dl, p, B) EXCEPT !.nStallingSince =
                 IF dl.nBlocksInFlight[p] + Cardinality(B) = 0
                 THEN [q \in Peers |-> @[q] \/ q \in staller] ELSE @]

SendMessages(p) ==
    /\ node[p] = "up"
    /\ dl.nBlocksInFlight[p] < MAX_BLOCKS_IN_TRANSIT_PER_PEER
    /\ \E known \in {ProcessBlockAvailability(p, mapBlockIndex)} :
       \E next \in {FindNextBlocksToDownload(
                        p, known, MAX_BLOCKS_IN_TRANSIT_PER_PEER - dl.nBlocksInFlight[p])} :
           /\ pindexBestKnownBlock' = [pindexBestKnownBlock EXCEPT ![p] = known]
           /\ hashLastUnknownBlock' = [hashLastUnknownBlock EXCEPT ![p] =
                  IF Resolved(p, mapBlockIndex) THEN NoBlock ELSE @]
           /\ pindexLastCommonBlock' = [pindexLastCommonBlock EXCEPT ![p] = next.last]
           /\ RequestBlocks(p, next.blocks, next.staller)
    /\ UNCHANGED <<chain, node, getblocktxn>>

-----------------------------------------------------------------------------
(* Slip: the requests of the peer stay in mapBlocksInFlight. *)
EraseInFlightListOnly(d, p) ==
    [d EXCEPT !.vBlocksInFlight[p] = {},
              !.partialBlock = @ \ d.vBlocksInFlight[p],
              !.nBlocksInFlight[p] = 0,
              !.nPeersWithValidatedDownloads =
                  @ - (IF d.nBlocksInFlight[p] # 0 THEN 1 ELSE 0),
              !.nStallingSince[p] = FALSE]

EraseInFlight(d, p) ==
    [d EXCEPT !.mapBlocksInFlight =
                  [b \in Blocks |-> IF b \in d.vBlocksInFlight[p] THEN Nobody ELSE @[b]],
              !.vBlocksInFlight[p] = {},
              !.partialBlock = @ \ d.vBlocksInFlight[p],
              !.nBlocksInFlight[p] = 0,
              !.nPeersWithValidatedDownloads =
                  @ - (IF d.nBlocksInFlight[p] # 0 THEN 1 ELSE 0),
              !.nStallingSince[p] = FALSE]

(* The connection is closed, by us or by the peer, and its state erased.   *)
FinalizeNode(p) ==
    /\ node[p] = "dropping" \/ (node[p] = "up" /\ p \notin Responsive)
    /\ node' = [node EXCEPT ![p] = "gone"]
    /\ dl' = EraseInFlight(dl, p)
    /\ pindexBestKnownBlock' = [pindexBestKnownBlock EXCEPT ![p] = NoBlock]
    /\ hashLastUnknownBlock' = [hashLastUnknownBlock EXCEPT ![p] = NoBlock]
    /\ pindexLastCommonBlock' = [pindexLastCommonBlock EXCEPT ![p] = NoBlock]
    /\ getblocktxn' = [getblocktxn EXCEPT ![p] = {}]
    /\ UNCHANGED <<chain, getdata>>

-----------------------------------------------------------------------------
Status == {"ok", "missing", "failed", "invalid"}

Next ==
    \/ \E p \in Peers :
        \/ SendMessages(p)
        \/ TimeOut(p)
        \/ FinalizeNode(p)
        \/ \E b \in Blocks :
            \/ ReceiveInv(p, b)
            \/ \E recent \in BOOLEAN : ReceiveHeaders(p, b, recent)
            \/ \E intact \in BOOLEAN : ReceiveBlock(p, b, intact)
            \/ \E recent \in BOOLEAN, status \in Status :
                   ReceiveCmpctBlock(p, b, recent, status)
            \/ \E status \in Status : ReceiveBlockTxn(p, b, status)
    \/ \E b \in Mined : SubmitBlock(b)

Spec == Init /\ [][Next]_vars

(* A responsive peer answers what it was asked.                            *)
Answers(p) ==
    \E b \in Blocks : \/ ReceiveBlock(p, b, TRUE)
                      \/ ReceiveBlockTxn(p, b, "ok")

Disconnects(p) == node[p] = "dropping" /\ FinalizeNode(p)

(* The message thread visits every peer, a timeout that has passed is      *)
(* noticed, and a peer marked for disconnection is removed.                *)
FairSpec ==
    /\ Spec
    /\ \A p \in Peers : /\ WF_vars(SendMessages(p))
                        /\ WF_vars(TimeOut(p))
                        /\ WF_vars(Disconnects(p))
    /\ \A p \in Responsive : WF_vars(Answers(p))

-----------------------------------------------------------------------------
TypeOK ==
    /\ mapBlockIndex \in SUBSET Blocks /\ hasData \in SUBSET Blocks
    /\ failed \in SUBSET Blocks /\ tip \in Blocks
    /\ node \in [Peers -> {"up", "dropping", "gone"}]
    /\ pindexBestKnownBlock \in [Peers -> Blocks \cup {NoBlock}]
    /\ hashLastUnknownBlock \in [Peers -> Blocks \cup {NoBlock}]
    /\ pindexLastCommonBlock \in [Peers -> Blocks \cup {NoBlock}]
    /\ dl \in [mapBlocksInFlight : [Blocks -> Peers \cup {Nobody}],
               vBlocksInFlight   : [Peers -> SUBSET Blocks],
               partialBlock      : SUBSET Blocks,
               nBlocksInFlight   : [Peers -> Nat],
               nPeersWithValidatedDownloads : Nat,
               nStallingSince    : [Peers -> BOOLEAN]]
    /\ getdata \in [Responsive -> SUBSET Blocks]
    /\ getblocktxn \in [Peers -> SUBSET Blocks]

(* mapBlocksInFlight and the lists of the peers are two views of the same  *)
(* requests: a block is in flight from one peer at most, whichever peer    *)
(* delivers it, drops it or leaves, and the counters agree with the lists. *)
(* The assertions of FinalizeNode, that nothing is in flight once the last *)
(* peer is gone and that the count of downloading peers is back to zero,   *)
(* follow.  A peer never has more than MAX_BLOCKS_IN_TRANSIT_PER_PEER.     *)
InFlightIsConsistent ==
    /\ \A b \in Blocks, p \in Peers :
           b \in dl.vBlocksInFlight[p] <=> dl.mapBlocksInFlight[b] = p
    /\ \A p \in Peers :
           /\ dl.nBlocksInFlight[p] = Cardinality(dl.vBlocksInFlight[p])
           /\ dl.nBlocksInFlight[p] <= MAX_BLOCKS_IN_TRANSIT_PER_PEER
           /\ dl.vBlocksInFlight[p] # {} => node[p] \in {"up", "dropping"}
    /\ dl.nPeersWithValidatedDownloads =
           Cardinality({p \in Peers : dl.vBlocksInFlight[p] # {}})

(* A peer is timed for stalling only while a block is in flight from it:   *)
(* whatever takes its last block away, its own answer or another peer's,   *)
(* also stops the clock of nStallingSince, so a peer that owes nothing is  *)
(* not disconnected as a staller.                                          *)
StallersOweBlocks ==
    \A p \in Peers : dl.nStallingSince[p] => dl.vBlocksInFlight[p] # {}

(* The best block of a connected peer that answers is downloaded, or the   *)
(* tip or the peer moves on to more work: no other peer can keep the block *)
(* in flight for ever, hold the window closed, or make the walk of         *)
(* FindNextBlocksToDownload pass over a block that is missing.             *)
BestBlockIsDownloaded ==
    \A p \in Responsive, b \in Blocks :
        (node[p] = "up" /\ pindexBestKnownBlock[p] = b)
            ~> \/ b \in hasData
               \/ nHeight[tip] > nHeight[b]
               \/ pindexBestKnownBlock[p] # b

=============================================================================
