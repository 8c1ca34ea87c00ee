----------------------------- MODULE ChainState -----------------------------
(***************************************************************************)
(* CChainState: the block index, the set of candidate tips, the active     *)
(* chain, and the operations that change them.  Headers and blocks arrive  *)
(* in any order (AcceptBlockHeader, AcceptBlock), ActivateBestChain moves  *)
(* the active chain, blocks are finalized and parked by rule, and the      *)
(* operator's calls invalidate, park, reconsider, unpark, prefer and       *)
(* finalize blocks.                                                        *)
(*                                                                         *)
(* One record, s, holds what cs_main guards; the functions of the code are *)
(* operators from such a record to the next.  A step of the model is what  *)
(* one thread does while it holds cs_main.  ActivateBestChain and          *)
(* UnwindBlock release cs_main between steps, and keep pointers over the   *)
(* release: abc.most and unwind.mark.                                      *)
(*                                                                         *)
(* Left out: pruning and missing block data, results with                  *)
(* CorruptionPossible, shutdown, and the pointers that serve warnings and  *)
(* header download only (pindexBestHeader, pindexBestInvalid,              *)
(* pindexBestParked).  Blocks are numbers, whose order is the order of     *)
(* CBlockIndex addresses.                                                  *)
(***************************************************************************)
EXTENDS Integers, Sequences, FiniteSets

CONSTANTS
    Blocks,             \* a set of numbers; 0 is the genesis block
    Parent,             \* pprev; Null for the genesis block
    Null,
    BadBlocks,          \* blocks that fail ContextualCheckBlock
    BadConnect,         \* blocks that fail ConnectBlock
    MaxReorgDepth,      \* -maxreorgdepth, negative: no automatic finalization
    FinalizeHeaders,    \* -finalizeheaders
    ParkDeepReorg,      \* -parkdeepreorg
    AutomaticUnparking, \* -automaticunparking
    Operations,         \* the operator's calls that are made
    MaxCalls,           \* bound on their number
    CallsWait           \* no operator's call runs while a chain is activated

ASSUME ChainAssumption ==
    /\ Blocks \subseteq Nat /\ 0 \in Blocks /\ Null \notin Blocks
    /\ Parent \in [Blocks -> Blocks \cup {Null}]
    /\ \A b \in Blocks : IF b = 0 THEN Parent[b] = Null ELSE Parent[b] < b
    /\ BadBlocks \cup BadConnect \subseteq Blocks \ {0}
    /\ MaxReorgDepth \in Int
    /\ {FinalizeHeaders, ParkDeepReorg, AutomaticUnparking, CallsWait}
          \subseteq BOOLEAN
    /\ MaxCalls \in Nat

VARIABLES
    s,          \* the state cs_main guards
    aged,       \* blocks whose finalization delay has expired
    abc,        \* the ActivateBestChain in progress, [on, most]
    pending,    \* some caller is yet to call ActivateBestChain
    unwind,     \* the UnwindBlock in progress, [at, target, invalidate, mark]
    calls       \* number of operator's calls made

vars == <<s, aged, abc, pending, unwind, calls>>

-----------------------------------------------------------------------------
(* The tree.  A block's own ancestors include the block.                   *)

Ancestors[b \in Blocks] ==
    IF b = 0 THEN {b} ELSE {b} \cup Ancestors[Parent[b]]

nHeight == [b \in Blocks |-> Cardinality(Ancestors[b]) - 1]

Height(b) == nHeight[b]

\* nChainWork.  Every block proves two units, so that half a block counts.
Work(b) == 2 * (Height(b) + 1)

Highest(S) == CHOOSE b \in S : \A c \in S : Height(c) <= Height(b)
Lowest(S) == CHOOSE b \in S : \A c \in S : Height(b) <= Height(c)

AreOnTheSameFork(a, b) == a \in Ancestors[b] \/ b \in Ancestors[a]

Descendants(t, b) == {c \in t.index : b \in Ancestors[c]}

ActiveChain(t) == Ancestors[t.tip]

FindFork(t, b) == Highest(Ancestors[b] \cap ActiveChain(t))

\* CBlockIndexWorkComparator: a sorts before b.
Worse(t, a, b) ==
    \/ Work(a) < Work(b)
    \/ /\ Work(a) = Work(b)
       /\ \/ t.seq[a] > t.seq[b]
          \/ t.seq[a] = t.seq[b] /\ a > b

IsInvalid(t, b) == b \in t.failed \cup t.failedParent
IsOnParkedChain(t, b) == b \in t.parked \cup t.parkedParent

\* isValid(TRANSACTIONS), which a block without data never is.
IsValidTransactions(t, b) == b \in t.data /\ ~IsInvalid(t, b)

\* An assertion of the code.
Assert(t, name, holds) ==
    IF holds THEN t ELSE [t EXCEPT !.asserts = @ \cup {name}]

-----------------------------------------------------------------------------
(* Flags.                                                                  *)

IsBlockFinalized(t, b) == t.finalized # Null /\ b \in Ancestors[t.finalized]

InvalidChainFound(t, b) ==
    IF IsBlockFinalized(t, b) THEN [t EXCEPT !.finalized = Parent[b]] ELSE t

InvalidBlockFound(t, b) ==
    InvalidChainFound([t EXCEPT !.failed = @ \cup {b},
                                !.failedBlocks = @ \cup {b}], b)

\* What UpdateFlagsForBlock does for each block whose flags have changed
\* from t to u.
FlagsUpdated(t, u) ==
    LET changed == {b \in t.index : \/ IsInvalid(t, b) /\ ~IsInvalid(u, b)
                                    \/ b \in t.failed \ u.failed
                                    \/ b \in t.failedParent \ u.failedParent
                                    \/ b \in t.parked \ u.parked
                                    \/ b \in t.parkedParent \ u.parkedParent}
        valid == {b \in changed : IsValidTransactions(u, b)}
    IN  [u EXCEPT !.failedBlocks = @ \ valid,
                  !.cand = @ \cup {b \in valid \cap u.linked : Worse(u, u.tip, b)}]

\* The deepest ancestor of b, b included, that has one of the flags.
DeepestChanged(b, flagged) ==
    IF Ancestors[b] \cap flagged = {} THEN b ELSE Lowest(Ancestors[b] \cap flagged)

LastCommonAncestor(a, b) == Highest(Ancestors[a] \cap Ancestors[b])

\* The failure of the block, of its ancestors and of its descendants.
ResetBlockFailureFlags(t, b) ==
    LET deepest == DeepestChanged(b, t.failed \cup t.failedParent)
        cleared == Ancestors[b] \cup Descendants(t, b)
        u == IF t.finalized = Null THEN t
             ELSE [t EXCEPT !.finalized = LastCommonAncestor(b, t.finalized)]
    IN  FlagsUpdated(u, [u EXCEPT
            !.failed = @ \ cleared,
            !.failedParent = @ \ (cleared \cup Descendants(t, deepest))])

\* Slip: children stay marked.
UnparkBlockImplAlone(t, b, clearChildren) ==
    FlagsUpdated(t, [t EXCEPT !.parked = @ \ Ancestors[b],
                              !.parkedParent = @ \ Ancestors[b]])

UnparkBlockImpl(t, b, clearChildren) ==
    LET deepest == DeepestChanged(b, t.parked \cup t.parkedParent)
    IN  FlagsUpdated(t, [t EXCEPT
            !.parked = @ \ (Ancestors[b] \cup
                            IF clearChildren THEN Descendants(t, b) ELSE {}),
            !.parkedParent = @ \ (Ancestors[b] \cup Descendants(t, b)
                                  \cup Descendants(t, deepest))])

UnparkBlock(t, b) == UnparkBlockImpl(t, b, FALSE)

-----------------------------------------------------------------------------
(* Headers and blocks.                                                     *)

\* m_failed_blocks among the ancestors of b, unless b's scripts are valid.
FailedAncestors(t, b) ==
    IF b \in t.scripts /\ ~IsInvalid(t, b) THEN {}
    ELSE t.failedBlocks \cap Ancestors[b]

\* AcceptBlockHeader, [s, ok].
AcceptBlockHeader(t, b) ==
    IF b \in t.index THEN [s |-> t, ok |-> ~IsInvalid(t, b)]
    ELSE
    LET prev == Parent[b]
        found == FailedAncestors(t, prev)
        first == CHOOSE f \in found : \A g \in found : f <= g
    IN  IF \/ prev \notin t.index
           \/ IsInvalid(t, prev)
           \/ /\ FinalizeHeaders /\ MaxReorgDepth > -1 /\ t.finalized # Null
              /\ t.finalized \notin Ancestors[prev]
        THEN [s |-> t, ok |-> FALSE]
        ELSE IF found # {}
        THEN [s |-> IF first \in t.failed
                    THEN [t EXCEPT !.failedParent =
                             @ \cup (Ancestors[prev] \ Ancestors[first])]
                    ELSE Assert(t, "failedit has failed", FALSE),
              ok |-> FALSE]
        ELSE [s |-> [t EXCEPT !.index = @ \cup {b}], ok |-> TRUE]

\* The blocks that follow b in mapBlocksUnlinked, b first.
RECURSIVE Unlinked(_, _)
Unlinked(t, queue) ==
    IF queue = <<>> THEN <<>>
    ELSE LET next == {c \in t.unlinked : Parent[c] = Head(queue)}
             ordered == CHOOSE q \in [1..Cardinality(next) -> next] :
                            \A i, j \in 1..Cardinality(next) : i < j => q[i] < q[j]
         IN  <<Head(queue)>> \o Unlinked(t, Tail(queue) \o ordered)

\* Slip: only the block itself becomes a candidate.
ReceivedBlockTransactionsAlone(t, b) ==
    LET u == [t EXCEPT !.data = @ \cup {b}]
    IN  IF Parent[b] \notin t.linked
        THEN [u EXCEPT !.unlinked = @ \cup {b}]
        ELSE [u EXCEPT !.linked = @ \cup {b},
                       !.seq[b] = IF @ = 0 THEN u.nextSeq ELSE @,
                       !.nextSeq = @ + 1,
                       !.cand = @ \cup {b}]

\* The block and the ones that waited for it get their sequence numbers.
ReceivedBlockTransactions(t, b) ==
    LET u == [t EXCEPT !.data = @ \cup {b}]
        queue == Unlinked(u, <<b>>)
        linked == {queue[i] : i \in 1..Len(queue)}
        fresh == SelectSeq(queue, LAMBDA c : u.seq[c] = 0)
        seq == [c \in Blocks |->
                   IF \E i \in 1..Len(fresh) : fresh[i] = c
                   THEN u.nextSeq - 1 + CHOOSE i \in 1..Len(fresh) : fresh[i] = c
                   ELSE u.seq[c]]
        v == [u EXCEPT !.linked = @ \cup linked,
                       !.unlinked = @ \ linked,
                       !.seq = seq,
                       !.nextSeq = @ + Len(fresh)]
    IN  IF Parent[b] \notin t.linked
        THEN IF IsInvalid(t, Parent[b]) THEN u
             ELSE [u EXCEPT !.unlinked = @ \cup {b}]
        ELSE [v EXCEPT !.cand = @ \cup {c \in linked : ~Worse(v, c, v.tip)}]

\* A block that forks more than one block below the tip is parked.
IsDeepReorg(t, b) == Height(FindFork(t, b)) + 1 < Height(t.tip)

AcceptBlock(t, b, requested) ==
    LET header == AcceptBlockHeader(t, b)
        u == header.s
        v == IF ParkDeepReorg /\ IsDeepReorg(u, b)
             THEN [u EXCEPT !.parked = @ \cup {b}] ELSE u
    IN  IF \/ ~header.ok
           \/ b \in u.data
           \/ ~requested /\ Work(b) < Work(u.tip)
        THEN u
        ELSE IF b \in BadBlocks
        THEN [u EXCEPT !.failed = @ \cup {b}]
        ELSE ReceivedBlockTransactions(v, b)

-----------------------------------------------------------------------------
(* The most-work chain.                                                    *)

\* The work above which a chain that forks at fork is unparked.
RequiredWork(t, fork) ==
    LET depth == Height(t.tip) - Height(fork)
        extra == IF depth \in {2, 3} THEN Parent[t.tip] ELSE t.tip
        delta == Work(extra) - Work(fork)
    IN  Work(t.tip) + IF depth \in {1, 2, 3} THEN delta \div 2 ELSE delta

\* Slip: the blocks under test stop being candidates too.
RejectCandidateAll(t, b, test, invalid, parked) ==
    [t EXCEPT !.cand = @ \ Ancestors[b]]

\* The chain from b down to test is not usable.
RejectCandidate(t, b, test, invalid, parked) ==
    LET above == Ancestors[b] \ Ancestors[test]
    IN  [t EXCEPT
            !.cand = @ \ (above \cup {test}),
            !.failedParent = IF invalid THEN @ \cup above ELSE @ \ above,
            !.parkedParent = IF parked THEN @ \cup above ELSE @ \ above]

\* A parked block under test is unparked if its chain has enough work.
UnparkIfBetter(t, b, test) ==
    IF /\ IsOnParkedChain(t, test) /\ AutomaticUnparking
       /\ Work(b) > RequiredWork(t, FindFork(t, b))
    THEN UnparkBlock(t, test)
    ELSE t

\* Slip: heights are compared, branches are not.
ConflictsWithFinalizedHeight(t, b) ==
    t.finalized # Null /\ Height(b) < Height(t.finalized)

ConflictsWithFinalized(t, b) ==
    t.finalized # Null /\ ~AreOnTheSameFork(b, t.finalized)

RECURSIVE FindMostWorkChain(_), CheckCandidate(_, _, _), CheckAncestor(_, _, _)

\* FindMostWorkChain, [s, most].
FindMostWorkChain(t) ==
    IF t.cand = {} THEN [s |-> t, most |-> Null]
    ELSE LET b == CHOOSE c \in t.cand : \A d \in t.cand \ {c} : Worse(t, d, c)
         IN  CheckCandidate(IF ConflictsWithFinalized(t, b)
                            THEN InvalidChainFound([t EXCEPT !.failed = @ \cup {b}], b)
                            ELSE t, b, b)

\* The walk from the candidate b to the active chain.
CheckCandidate(t, b, test) ==
    IF test \in ActiveChain(t) THEN [s |-> t, most |-> b]
    ELSE CheckAncestor(Assert(UnparkIfBetter(t, b, test),
                              "candidate is linked", test \in t.linked), b, test)

\* A failed or a parked block on the way rules the candidate out.
CheckAncestor(t, b, test) ==
    LET invalid == IsInvalid(t, test)
        parked == IsOnParkedChain(t, test)
    IN  IF ~invalid /\ ~parked THEN CheckCandidate(t, b, Parent[test])
        ELSE FindMostWorkChain(RejectCandidate(t, b, test, invalid, parked))

\* Slip: candidates as good as the tip are dropped.
PruneBlockIndexCandidatesEqual(t) ==
    LET left == {c \in t.cand : Worse(t, t.tip, c)}
    IN  Assert([t EXCEPT !.cand = left], "candidates left", left # {})

PruneBlockIndexCandidates(t) ==
    LET left == {c \in t.cand : ~Worse(t, c, t.tip)}
    IN  Assert([t EXCEPT !.cand = left], "candidates left", left # {})

-----------------------------------------------------------------------------
(* The active chain.                                                       *)

DisconnectTip(t) ==
    [t EXCEPT !.tip = Parent[t.tip],
              !.finalized = IF @ = t.tip THEN Parent[t.tip] ELSE @]

\* The highest block deep enough under b whose delay has expired; none if the
\* search meets the finalized block.
FindBlockToFinalize(t, b) ==
    LET deep == {a \in Ancestors[b] : Height(a) <= Height(b) - MaxReorgDepth}
        due == {a \in deep \cap aged :
                   t.finalized \in deep => Height(a) > Height(t.finalized)}
    IN  IF MaxReorgDepth < 0 \/ due = {} THEN Null ELSE Highest(due)

\* FinalizeBlockInternal, [s, ok].
FinalizeBlockInternal(t, b) ==
    IF \/ IsInvalid(t, b)
       \/ ConflictsWithFinalized(t, b)
    THEN [s |-> t, ok |-> FALSE]
    ELSE [s |-> IF IsBlockFinalized(t, b) THEN t ELSE [t EXCEPT !.finalized = b],
          ok |-> TRUE]

\* The finalization that connecting b brings about, [s, ok].
FinalizeUnder(t, b) ==
    LET final == FindBlockToFinalize(t, b)
    IN  IF final = Null THEN [s |-> t, ok |-> TRUE]
        ELSE FinalizeBlockInternal(t, final)

UpdateTip(connect, b) == IF connect.ok THEN [connect EXCEPT !.s.tip = b] ELSE connect

\* ConnectTip, [s, ok].
ConnectTip(t, b) ==
    LET u == Assert(t, "connects to the tip", Parent[b] = t.tip)
        valid == IF IsInvalid(t, b) THEN {} ELSE {b}
    IN  IF b \in BadConnect
        THEN [s |-> InvalidBlockFound(u, b), ok |-> FALSE]
        ELSE UpdateTip(FinalizeUnder([u EXCEPT !.scripts = @ \cup valid], b), b)

RECURSIVE DisconnectTo(_, _)
DisconnectTo(t, fork) ==
    IF t.tip = fork THEN t ELSE DisconnectTo(DisconnectTip(t), fork)

RECURSIVE ConnectTowards(_, _, _, _), AfterConnectTip(_, _, _, _, _)

\* Connects blocks towards most until the tip has more work than before,
\* [s, invalid].  lowest is the first block connected.
ConnectTowards(t, most, oldTip, lowest) ==
    IF t.tip = most THEN [s |-> t, invalid |-> FALSE]
    ELSE LET b == Lowest(Ancestors[most] \ ActiveChain(t))
         IN  AfterConnectTip(ConnectTip(t, b), b, most, oldTip, lowest)

AfterConnectTip(connect, b, most, oldTip, lowest) ==
    IF ~connect.ok
    THEN [s |-> IF b \in BadConnect THEN InvalidChainFound(connect.s, lowest)
                ELSE connect.s,
          invalid |-> TRUE]
    ELSE LET u == PruneBlockIndexCandidates(connect.s)
         IN  IF Work(b) > Work(oldTip) THEN [s |-> u, invalid |-> FALSE]
             ELSE ConnectTowards(u, most, oldTip, lowest)

ActivateBestChainStep(t, most) ==
    LET u == DisconnectTo(t, FindFork(t, most))
    IN  ConnectTowards(u, most, t.tip,
                       Lowest(Ancestors[most] \ ActiveChain(u)))

\* Slip: cs_main is released after every step.
HasLostGroundNever(t, start) == FALSE

HasLostGround(t, start) == Worse(t, t.tip, start)

RECURSIVE ActivateBestChainTurn(_, _, _, _), StepTowards(_, _, _), AfterStep(_, _, _)

\* One turn of ActivateBestChain's outer loop, [s, most, connected]: cs_main is
\* kept until the tip is no worse than the one it started from.
ActivateBestChainTurn(t, most, start, connected) ==
    StepTowards(IF most = Null THEN FindMostWorkChain(t) ELSE [s |-> t, most |-> most],
                start, connected)

StepTowards(found, start, connected) ==
    IF found.most \in {Null, found.s.tip}
    THEN [s |-> found.s, most |-> found.most, connected |-> connected]
    ELSE AfterStep(ActivateBestChainStep(found.s, found.most), found.most, start)

AfterStep(step, most, start) ==
    LET next == IF step.invalid THEN Null ELSE most
    IN  IF HasLostGround(step.s, start)
        THEN ActivateBestChainTurn(step.s, next, start, TRUE)
        ELSE [s |-> step.s, most |-> next, connected |-> TRUE]

-----------------------------------------------------------------------------
(* The operator's calls.                                                   *)

\* PreciousBlock, before it activates the best chain.
PreciousBlock(t, b) ==
    LET reverse == IF Work(t.tip) > t.lastPrecious THEN -1 ELSE t.reverseSeq
        u == UnparkBlock([t EXCEPT !.lastPrecious = Work(t.tip),
                                   !.cand = @ \ {b},
                                   !.seq[b] = reverse,
                                   !.reverseSeq = reverse - 1], b)
    IN  IF Work(b) < Work(t.tip) THEN t
        ELSE IF IsValidTransactions(u, b) /\ b \in u.linked
        THEN PruneBlockIndexCandidates([u EXCEPT !.cand = @ \cup {b}])
        ELSE u

\* Slip: the new tip is marked in place of the old one.
UnwindTurnMarksNewTip(t, invalidate, mark) ==
    LET u == DisconnectTip(t)
    IN  [s |-> IF invalidate THEN [u EXCEPT !.failed = @ \cup {u.tip}]
               ELSE [u EXCEPT !.parked = @ \cup {u.tip}],
         mark |-> t.tip]

\* One turn of UnwindBlock's loop, [s, mark]: the tip is disconnected and
\* marked, and the block marked before it becomes a failed (parked) child.
UnwindTurn(t, invalidate, mark) ==
    LET walk == t.tip
        u == [DisconnectTip(t) EXCEPT !.cand = @ \cup {Parent[walk]}]
        demote(flagged) == IF walk = Parent[mark] THEN {mark} \cap flagged ELSE {}
    IN  [s |-> IF invalidate
               THEN [u EXCEPT
                        !.failed = (@ \cup {walk}) \ demote(t.failed),
                        !.failedParent = @ \cup demote(t.failed)]
               ELSE [u EXCEPT
                        !.parked = (@ \cup {walk}) \ demote(t.parked),
                        !.parkedParent = @ \cup demote(t.parked)],
         mark |-> walk]

\* Slip: candidates the unwinding has uncovered are not put back.
UnwindFinishWithoutCandidates(t, invalidate, mark) ==
    IF mark \in ActiveChain(t) THEN t
    ELSE IF invalidate THEN InvalidBlockFound(t, mark)
    ELSE [t EXCEPT !.parked = @ \cup {mark}]

\* What UnwindBlock does when the target has left the active chain.
UnwindFinish(t, invalidate, mark) ==
    LET u == IF invalidate
             THEN [t EXCEPT !.failed = @ \cup {mark},
                            !.failedBlocks = @ \cup {mark}]
             ELSE [t EXCEPT !.parked = @ \cup {mark}]
        v == [u EXCEPT !.cand = @ \cup
                 {c \in u.linked : IsValidTransactions(u, c) /\ ~Worse(u, c, u.tip)}]
    IN  IF mark \in ActiveChain(t) THEN t
        ELSE IF invalidate THEN InvalidChainFound(v, mark) ELSE v

\* UnwindBlock under a cs_main that its caller holds.
RECURSIVE InvalidateAtOnce(_, _, _)
InvalidateAtOnce(t, target, mark) ==
    IF target \in ActiveChain(t)
    THEN LET turn == UnwindTurn(t, TRUE, mark)
         IN  InvalidateAtOnce(turn.s, target, turn.mark)
    ELSE UnwindFinish(t, TRUE, mark)

\* Slip: the branch that rivals the finalized block stays active.
FinalizeBlockOnly(t, b) ==
    LET finalize == FinalizeBlockInternal(t, b)
    IN  IF finalize.ok THEN UnparkBlock(finalize.s, b) ELSE t

FinalizeBlockAndInvalidate(t, b) ==
    LET finalize == FinalizeBlockInternal(t, b)
        u == IF IsOnParkedChain(finalize.s, b) THEN UnparkBlock(finalize.s, b)
             ELSE finalize.s
        rival == ActiveChain(u) \ Ancestors[b]
    IN  IF ~finalize.ok THEN t
        ELSE IF b \in ActiveChain(u) \/ rival = {} THEN u
        ELSE InvalidateAtOnce(u, Lowest(rival), Lowest(rival))

-----------------------------------------------------------------------------
(* The threads.                                                            *)

Idle == [at |-> "idle", target |-> Null, invalidate |-> FALSE, mark |-> Null]

Init ==
    /\ s = [index |-> {0}, data |-> {0}, linked |-> {0}, scripts |-> {},
            failed |-> {}, failedParent |-> {}, parked |-> {}, parkedParent |-> {},
            cand |-> {0}, unlinked |-> {}, failedBlocks |-> {},
            seq |-> [b \in Blocks |-> IF b = 0 THEN 1 ELSE 0], nextSeq |-> 2,
            reverseSeq |-> -1, lastPrecious |-> 0,
            tip |-> 0, finalized |-> Null, asserts |-> {}]
    /\ aged = {}
    /\ abc = [on |-> FALSE, most |-> Null]
    /\ pending = FALSE
    /\ unwind = Idle
    /\ calls = 0

\* A header from the network.
ProcessNewBlockHeaders(b) ==
    /\ b \notin s.index
    /\ s' = AcceptBlockHeader(s, b).s
    /\ UNCHANGED <<aged, abc, pending, unwind, calls>>

\* A block, requested from a peer or not.  If it is accepted, its sender goes
\* on to activate the best chain.
ProcessNewBlock(b, requested) ==
    /\ b \notin s.data
    /\ s' = AcceptBlock(s, b, requested)
    /\ pending' = (pending \/ b \in s'.data)
    /\ UNCHANGED <<aged, abc, unwind, calls>>

\* The finalization delay passes for every header known now.
TimePasses ==
    /\ MaxReorgDepth >= 0
    /\ aged' = s.index
    /\ UNCHANGED <<s, abc, pending, unwind, calls>>

\* m_cs_chainstate lets one thread in.
BeginActivation ==
    /\ ~abc.on
    /\ abc' = [on |-> TRUE, most |-> Null]
    /\ pending' = FALSE
    /\ UNCHANGED <<s, aged, unwind, calls>>

\* Slip: the caller stops after one turn, connected or not.
ActivationOneTurn(turn) == [on |-> FALSE, most |-> Null]

\* Whether and with which pointer ActivateBestChain goes on.
ActivationAfter(turn) ==
    IF turn.connected /\ turn.s.tip # turn.most
    THEN [on |-> TRUE, most |-> turn.most]
    ELSE [on |-> FALSE, most |-> Null]

ActivateBestChain ==
    /\ abc.on
    /\ CallsWait => unwind = Idle
    /\ LET turn == ActivateBestChainTurn(s, abc.most, s.tip, FALSE)
       IN  s' = turn.s /\ abc' = ActivationAfter(turn)
    /\ UNCHANGED <<aged, pending, unwind, calls>>

MayCall(operation) ==
    /\ operation \in Operations
    /\ calls < MaxCalls
    /\ unwind = Idle
    /\ CallsWait => ~abc.on
    /\ calls' = calls + 1

\* invalidateblock and parkblock.
BeginUnwind(b, invalidate) ==
    /\ MayCall(IF invalidate THEN "invalidate" ELSE "park")
    /\ b \in s.index \ {0}
    /\ unwind' = [at |-> "loop", target |-> b, invalidate |-> invalidate, mark |-> b]
    /\ UNCHANGED <<s, aged, abc, pending>>

Unwind ==
    /\ unwind.at = "loop"
    /\ unwind.target \in ActiveChain(s)
    /\ LET turn == UnwindTurn(s, unwind.invalidate, unwind.mark)
       IN  s' = turn.s /\ unwind' = [unwind EXCEPT !.mark = turn.mark]
    /\ UNCHANGED <<aged, abc, pending, calls>>

LeaveUnwindLoop ==
    /\ unwind.at = "loop"
    /\ unwind.target \notin ActiveChain(s)
    /\ unwind' = [unwind EXCEPT !.at = "finish"]
    /\ UNCHANGED <<s, aged, abc, pending, calls>>

FinishUnwind ==
    /\ unwind.at = "finish"
    /\ s' = UnwindFinish(s, unwind.invalidate, unwind.mark)
    /\ unwind' = Idle
    /\ pending' = TRUE
    /\ UNCHANGED <<aged, abc, calls>>

Reconsider(b) ==
    /\ MayCall("reconsider")
    /\ s' = ResetBlockFailureFlags(s, b)
    /\ pending' = TRUE
    /\ UNCHANGED <<aged, abc, unwind>>

Unpark(b) ==
    /\ MayCall("unpark")
    /\ s' = UnparkBlockImpl(s, b, TRUE)
    /\ pending' = TRUE
    /\ UNCHANGED <<aged, abc, unwind>>

Precious(b) ==
    /\ MayCall("precious")
    /\ s' = PreciousBlock(s, b)
    /\ pending' = TRUE
    /\ UNCHANGED <<aged, abc, unwind>>

Finalize(b) ==
    /\ MayCall("finalize")
    /\ s' = FinalizeBlockAndInvalidate(s, b)
    /\ pending' = TRUE
    /\ UNCHANGED <<aged, abc, unwind>>

Step ==
    \/ \E b \in Blocks : ProcessNewBlockHeaders(b)
    \/ \E b \in Blocks, requested \in BOOLEAN : ProcessNewBlock(b, requested)
    \/ TimePasses
    \/ BeginActivation
    \/ ActivateBestChain
    \/ \E b \in Blocks, invalidate \in BOOLEAN : BeginUnwind(b, invalidate)
    \/ Unwind
    \/ LeaveUnwindLoop
    \/ FinishUnwind
    \/ \E b \in s.index :
          Reconsider(b) \/ Unpark(b) \/ Precious(b) \/ Finalize(b)

\* An assertion that fails ends the process.
Next == s.asserts = {} /\ Step

Spec == Init /\ [][Next]_vars

-----------------------------------------------------------------------------
(* Properties.                                                             *)

\* The type of the block index and of the two calls in progress.
TypeOK ==
    /\ s.data \subseteq s.index /\ s.index \subseteq Blocks
    /\ s.linked \cup s.scripts \cup s.unlinked \cup s.cand \subseteq s.data
    /\ s.failed \cup s.failedParent \cup s.parked \cup s.parkedParent
          \cup s.failedBlocks \subseteq s.index
    /\ s.tip \in s.linked
    /\ s.finalized \in s.index \cup {Null}
    /\ aged \subseteq s.index
    /\ pending \in BOOLEAN
    /\ abc \in [on : BOOLEAN, most : Blocks \cup {Null}]
    /\ unwind \in [at : {"idle", "loop", "finish"}, target : Blocks \cup {Null},
                   invalidate : BOOLEAN, mark : Blocks \cup {Null}]
    /\ calls \in 0..MaxCalls

HasFailedAncestor(b) == Ancestors[b] \cap s.failed # {}
HasParkedAncestor(b) == Ancestors[b] \cap s.parked # {}

\* No assertion of the code fails: the lowest failed ancestor a header is
\* rejected for is marked failed, candidates have all their data, a block is
\* connected to the tip, and pruning the candidates leaves one.
NoAssertFails == s.asserts = {}

\* The candidates, as CheckBlockIndex asserts them: exactly the linked blocks
\* at least as good as the tip, but those on a failed or a parked chain may
\* be missing.
CandidatesAreComplete ==
    \A b \in s.index :
        IF ~Worse(s, b, s.tip) /\ b \in s.linked
        THEN ~HasFailedAncestor(b) =>
                 /\ b \in s.cand \/ IsOnParkedChain(s, b)
                 /\ b = s.tip => b \in s.cand
        ELSE b \notin s.cand

\* CandidatesAreComplete whenever no UnwindBlock is between two turns.
CandidatesAreCompleteWhenIdle == unwind = Idle => CandidatesAreComplete

\* A block is marked as the child of a failed (parked) block only if one of
\* its ancestors is failed (parked), as CheckBlockIndex asserts.
ChildFlagsHaveAnOrigin ==
    \A b \in s.index : /\ IsInvalid(s, b) => HasFailedAncestor(b)
                       /\ IsOnParkedChain(s, b) => HasParkedAncestor(b)

\* A block's data is linked exactly when all its ancestors' data is there
\* (nChainTx), and waits in mapBlocksUnlinked for an ancestor otherwise, as
\* CheckBlockIndex asserts: a block that is neither is never tried.
NoBlockIsStranded ==
    \A b \in s.index :
        /\ b \in s.linked <=> Ancestors[b] \subseteq s.data
        /\ b \in s.unlinked => b \in s.data /\ b \notin s.linked
        /\ b \in s.data \ s.linked /\ ~HasFailedAncestor(b) => b \in s.unlinked

\* No block of the active chain is marked failed: FindMostWorkChain only
\* checks the blocks above it, "as we know all blocks in it are valid
\* already".
ActiveChainIsValid == ActiveChain(s) \cap s.failed = {}

\* ActiveChainIsValid when no UnwindBlock is under way.
ActiveChainIsValidWhenIdle == unwind = Idle => ActiveChainIsValid

\* The finalized block and the tip are on one branch, whatever order
\* finalizeblock, which may name a block of an inactive branch, and the calls
\* that unwind the chain come in.
FinalizedIsOnTheTipsFork ==
    s.finalized # Null => AreOnTheSameFork(s.finalized, s.tip)

\* Activating the best chain never disconnects a finalized block: a
\* reorganization below the finalized block is refused by FindMostWorkChain,
\* however much work it has, and DisconnectTip's stepping back of the
\* finalized block is left to the operator's calls.
ReorgKeepsFinalized ==
    [][ActivateBestChain /\ s.finalized # Null /\ s.finalized \in ActiveChain(s)
          => s.finalized \in ActiveChain(s')]_vars

\* A block the node could switch to.
Eligible(t, b) ==
    /\ b \in t.linked
    /\ Ancestors[b] \cap (t.failed \cup t.parked) = {}
    /\ t.finalized # Null => AreOnTheSameFork(b, t.finalized)

\* FindMostWorkChain, from any state it may be called in, returns the best of
\* the eligible blocks: it neither misses one nor picks one that must not be
\* activated.
FindMostWorkChainIsBest ==
    unwind = Idle =>
        LET found == FindMostWorkChain(s)
        IN  /\ found.most # Null
            /\ Eligible(found.s, found.most)
            /\ \A b \in s.index : Eligible(found.s, b) => ~Worse(s, found.most, b)

\* When nobody activates a chain, or is about to, the best eligible block is
\* the tip: no block is left behind by an activation that was already under
\* way, on an older choice, when it came in.
QuiescentMeansBestTip ==
    ~pending /\ ~abc.on /\ unwind = Idle =>
        \A b \in s.index : Eligible(s, b) => ~Worse(s, s.tip, b)

\* ActivateBestChain makes "forward progress" before it releases cs_main, and
\* so cannot go on for ever: the tip it leaves is no worse, and if it is to
\* continue, a better one or another block has been found invalid.
ActivationMakesProgress ==
    [][ActivateBestChain =>
          /\ ~Worse(s', s'.tip, s.tip)
          /\ abc'.on => Worse(s', s.tip, s'.tip) \/ s.failed # s'.failed]_vars
=============================================================================
