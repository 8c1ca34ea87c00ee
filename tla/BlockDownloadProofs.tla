------------------------- MODULE BlockDownloadProofs -------------------------
(***************************************************************************)
(* For any block tree, any peers and any limits, the two views of the      *)
(* blocks in flight agree after every handler, no peer exceeds its limit,  *)
(* and a peer that is timed for stalling owes a block.                     *)
(***************************************************************************)
EXTENDS BlockDownload, FiniteSetTheorems, TLAPS

(* Peers with a block in flight *)
Loaded(d) == {p \in Peers : d.vBlocksInFlight[p] # {}}

(* The bookkeeping record d is in order: its type, the agreement of the    *)
(* two views and the counters, and the stalling clocks.                    *)
Sound(d) ==
    /\ d \in [mapBlocksInFlight : [Blocks -> Peers \cup {Nobody}],
              vBlocksInFlight   : [Peers -> SUBSET Blocks],
              partialBlock      : SUBSET Blocks,
              nBlocksInFlight   : [Peers -> Nat],
              nPeersWithValidatedDownloads : Nat,
              nStallingSince    : [Peers -> BOOLEAN]]
    /\ \A b \in Blocks, p \in Peers :
           b \in d.vBlocksInFlight[p] <=> d.mapBlocksInFlight[b] = p
    /\ \A p \in Peers :
           /\ d.nBlocksInFlight[p] = Cardinality(d.vBlocksInFlight[p])
           /\ d.nBlocksInFlight[p] <= MAX_BLOCKS_IN_TRANSIT_PER_PEER
    /\ d.nPeersWithValidatedDownloads =
           Cardinality(Loaded(d))
    /\ \A p \in Peers : d.nStallingSince[p] => d.vBlocksInFlight[p] # {}

(* The inductive invariant: types, a sound record, and no block in flight  *)
(* from a peer whose state has been erased.                                *)
IInv ==
    /\ mapBlockIndex \in SUBSET Blocks
    /\ node \in [Peers -> {"up", "dropping", "gone"}]
    /\ pindexBestKnownBlock \in [Peers -> Blocks \cup {NoBlock}]
    /\ hashLastUnknownBlock \in [Peers -> Blocks \cup {NoBlock}]
    /\ Sound(dl)
    /\ \A p \in Peers : dl.vBlocksInFlight[p] # {} => node[p] \in {"up", "dropping"}

-----------------------------------------------------------------------------
(* Lowest(S, n) is at most n blocks of S when the heights in S differ: the *)
(* number of lower blocks numbers them from 0 to n - 1.                    *)
LEMMA LowestIsSmall ==
    ASSUME NEW S, S \subseteq Blocks, NEW n \in Nat,
           \A a, c \in S : nHeight[a] = nHeight[c] => a = c
    PROVE  /\ Lowest(S, n) \subseteq S
           /\ IsFiniteSet(Lowest(S, n))
           /\ Cardinality(Lowest(S, n)) <= n
<1> DEFINE below(a) == {c \in S : nHeight[c] < nHeight[a]}
           rank == [a \in Lowest(S, n) |-> Cardinality(below(a))]
<1>1. IsFiniteSet(S) /\ Lowest(S, n) \subseteq S
  BY BlocksAssumption, FS_Subset DEF Lowest
<1>2. \A a \in S : nHeight[a] \in Int
  <2> SUFFICES ASSUME NEW a \in S PROVE nHeight[a] \in Int
    OBVIOUS
  <2>1. IsFiniteSet(Path[a])
    BY BlocksAssumption, TreeAssumption, FS_Subset
  <2> QED
    BY <2>1, FS_CardinalityType DEF nHeight
<1>3. \A a \in S : IsFiniteSet(below(a)) /\ Cardinality(below(a)) \in Nat
  <2> SUFFICES ASSUME NEW a \in S
               PROVE IsFiniteSet(below(a)) /\ Cardinality(below(a)) \in Nat
    OBVIOUS
  <2>1. below(a) \in SUBSET S
    OBVIOUS
  <2> QED
    BY <1>1, <2>1, FS_Subset, FS_CardinalityType
<1>4. \A a \in S, c \in S :
          nHeight[a] < nHeight[c] => Cardinality(below(a)) < Cardinality(below(c))
  <2> SUFFICES ASSUME NEW a \in S, NEW c \in S, nHeight[a] < nHeight[c]
               PROVE  Cardinality(below(a)) < Cardinality(below(c))
    OBVIOUS
  <2>1. below(a) \in SUBSET below(c)
    BY <1>2
  <2>2. a \in below(c) /\ a \notin below(a)
    BY <1>2
  <2>3. below(a) # below(c)
    BY <2>2
  <2> HIDE DEF below
  <2> QED
    BY <1>3, <2>1, <2>3, FS_Subset
<1>5. rank \in [Lowest(S, n) -> 0 .. (n - 1)]
  <2> SUFFICES ASSUME NEW a \in Lowest(S, n)
               PROVE  Cardinality(below(a)) \in 0 .. (n - 1)
    OBVIOUS
  <2>1. a \in S /\ Cardinality(below(a)) < n
    BY DEF Lowest
  <2> HIDE DEF below
  <2> QED
    BY <1>3, <2>1
<1>6. rank \in Injection(Lowest(S, n), 0 .. (n - 1))
  <2>1. ASSUME NEW a \in Lowest(S, n), NEW c \in Lowest(S, n), rank[a] = rank[c]
        PROVE  a = c
    <3>1. a \in S /\ c \in S /\ Cardinality(below(a)) = Cardinality(below(c))
      BY <1>1, <2>1
    <3> HIDE DEF below, rank
    <3>2. ~(nHeight[a] < nHeight[c]) /\ ~(nHeight[c] < nHeight[a])
      BY <1>3, <1>4, <3>1
    <3> QED
      BY <1>2, <3>1, <3>2
  <2> HIDE DEF rank
  <2> QED
    BY <1>5, <2>1 DEF Injection, IsInjective
<1>7. IsFiniteSet(0 .. (n - 1)) /\ Cardinality(0 .. (n - 1)) = n
  BY FS_Interval, n - 1 \in Int
<1> HIDE DEF rank
<1> QED
  BY <1>1, <1>6, <1>7, FS_Injection

-----------------------------------------------------------------------------
(* A block that arrives, from whichever peer, leaves the record sound and  *)
(* gives no peer a block.                                                  *)
LEMMA ReceivedIsSound ==
    ASSUME NEW d, Sound(d), NEW b \in Blocks
    PROVE  /\ Sound(MarkBlockAsReceived(d, b))
           /\ \A q \in Peers : MarkBlockAsReceived(d, b).vBlocksInFlight[q]
                                   \subseteq d.vBlocksInFlight[q]
           /\ MarkBlockAsReceived(d, b).mapBlocksInFlight[b] = Nobody
<1> DEFINE p == d.mapBlocksInFlight[b]
           e == MarkBlockAsReceived(d, b)
<1>1. CASE p = Nobody
  BY <1>1 DEF MarkBlockAsReceived
<1>2. CASE p # Nobody
  <2>1. p \in Peers /\ b \in d.vBlocksInFlight[p]
    BY <1>2 DEF Sound
  <2>2. /\ e.mapBlocksInFlight = [d.mapBlocksInFlight EXCEPT ![b] = Nobody]
        /\ e.vBlocksInFlight = [d.vBlocksInFlight EXCEPT ![p] = @ \ {b}]
        /\ e.partialBlock = d.partialBlock \ {b}
        /\ e.nBlocksInFlight = [d.nBlocksInFlight EXCEPT ![p] = @ - 1]
        /\ e.nPeersWithValidatedDownloads =
               d.nPeersWithValidatedDownloads - (IF d.nBlocksInFlight[p] = 1 THEN 1 ELSE 0)
        /\ e.nStallingSince = [d.nStallingSince EXCEPT ![p] = FALSE]
    BY <1>2 DEF MarkBlockAsReceived, Sound
  <2>0. e = [mapBlocksInFlight |-> e.mapBlocksInFlight,
             vBlocksInFlight |-> e.vBlocksInFlight,
             partialBlock |-> e.partialBlock,
             nBlocksInFlight |-> e.nBlocksInFlight,
             nPeersWithValidatedDownloads |-> e.nPeersWithValidatedDownloads,
             nStallingSince |-> e.nStallingSince]
    BY <1>2, Zenon DEF MarkBlockAsReceived, Sound
  <2> HIDE DEF e
  <2>3. \A q \in Peers : IsFiniteSet(d.vBlocksInFlight[q])
    BY BlocksAssumption, FS_Subset DEF Sound
  <2>4. Cardinality(d.vBlocksInFlight[p] \ {b}) = d.nBlocksInFlight[p] - 1
    <3>1. d.nBlocksInFlight[p] = Cardinality(d.vBlocksInFlight[p])
      BY <2>1 DEF Sound
    <3> QED
      BY <2>1, <2>3, <3>1, FS_RemoveElement, ZenonT(60)
  <2>5. d.nBlocksInFlight[p] # 0
    BY <2>1, <2>3, FS_EmptySet DEF Sound
  <2>6. d.vBlocksInFlight[p] \ {b} = {} <=> d.nBlocksInFlight[p] = 1
    <3>1. IsFiniteSet(d.vBlocksInFlight[p] \ {b})
      BY <2>1, <2>3, FS_RemoveElement
    <3>2. d.nBlocksInFlight[p] \in Nat
      BY <2>1 DEF Sound
    <3> QED
      BY <2>4, <3>1, <3>2, FS_EmptySet, SMTT(60)
  <2>7. IsFiniteSet(Loaded(d)) /\ p \in Loaded(d)
    BY <2>1, PeersAssumption, FS_Subset DEF Loaded
  <2>8. Loaded(e) = IF d.nBlocksInFlight[p] = 1 THEN Loaded(d) \ {p} ELSE Loaded(d)
    BY <2>1, <2>2, <2>6 DEF Loaded, Sound
  <2>9. /\ e.nPeersWithValidatedDownloads = Cardinality(Loaded(e))
        /\ e.nPeersWithValidatedDownloads \in Nat
    <3>1. d.nPeersWithValidatedDownloads = Cardinality(Loaded(d))
      BY DEF Sound
    <3>2. /\ Cardinality(Loaded(d) \ {p}) = Cardinality(Loaded(d)) - 1
          /\ IsFiniteSet(Loaded(d) \ {p})
      BY <2>7, FS_RemoveElement
    <3>3. Cardinality(Loaded(d)) \in Nat /\ Cardinality(Loaded(d) \ {p}) \in Nat
      BY <2>7, <3>2, FS_CardinalityType
    <3> QED
      BY <2>2, <2>8, <3>1, <3>2, <3>3, SMTT(60)
  <2>10. /\ e.mapBlocksInFlight \in [Blocks -> Peers \cup {Nobody}]
         /\ e.vBlocksInFlight \in [Peers -> SUBSET Blocks]
         /\ e.partialBlock \in SUBSET Blocks
         /\ e.nStallingSince \in [Peers -> BOOLEAN]
    BY <2>1, <2>2, SMTT(60) DEF Sound
  <2>11. e.nBlocksInFlight \in [Peers -> Nat]
    BY <2>1, <2>2, <2>5, SMTT(60) DEF Sound
  <2>12. \A a \in Blocks, q \in Peers :
            a \in e.vBlocksInFlight[q] <=> e.mapBlocksInFlight[a] = q
    BY <2>1, <2>2, PeersAssumption, SMTT(60) DEF Sound
  <2>13. \A q \in Peers : /\ e.nBlocksInFlight[q] = Cardinality(e.vBlocksInFlight[q])
                          /\ e.nBlocksInFlight[q] <= MAX_BLOCKS_IN_TRANSIT_PER_PEER
    BY <2>1, <2>2, <2>4, LimitAssumption, SMTT(60) DEF Sound
  <2>14. \A q \in Peers : e.nStallingSince[q] => e.vBlocksInFlight[q] # {}
    BY <2>1, <2>2, SMTT(60) DEF Sound
  <2>15. /\ \A q \in Peers : e.vBlocksInFlight[q] \subseteq d.vBlocksInFlight[q]
         /\ e.mapBlocksInFlight[b] = Nobody
    BY <2>1, <2>2, SMTT(60) DEF Sound
  <2>16. Sound(e)
    BY <2>0, <2>2, <2>9, <2>10, <2>11, <2>12, <2>13, <2>14, Zenon DEF Sound
  <2> QED
    BY <2>15, <2>16 DEF e
<1> QED
  BY <1>1, <1>2

-----------------------------------------------------------------------------
(* Blocks that are in flight from nobody can be asked of a peer, up to its *)
(* limit.                                                                  *)
LEMMA RequestIsSound ==
    ASSUME NEW d, Sound(d), NEW p \in Peers, NEW B \in SUBSET Blocks,
           \A b \in B : d.mapBlocksInFlight[b] = Nobody,
           d.nBlocksInFlight[p] + Cardinality(B) <= MAX_BLOCKS_IN_TRANSIT_PER_PEER
    PROVE  /\ Sound(MarkBlockAsInFlight(d, p, B))
           /\ \A q \in Peers \ {p} : MarkBlockAsInFlight(d, p, B).vBlocksInFlight[q]
                                         = d.vBlocksInFlight[q]
           /\ MarkBlockAsInFlight(d, p, B).vBlocksInFlight[p]
                  = d.vBlocksInFlight[p] \cup B
<1> DEFINE e == MarkBlockAsInFlight(d, p, B)
<1>1. /\ e.mapBlocksInFlight =
             [b \in Blocks |-> IF b \in B THEN p ELSE d.mapBlocksInFlight[b]]
      /\ e.vBlocksInFlight = [d.vBlocksInFlight EXCEPT ![p] = @ \cup B]
      /\ e.partialBlock = d.partialBlock
      /\ e.nBlocksInFlight = [d.nBlocksInFlight EXCEPT ![p] = @ + Cardinality(B)]
      /\ e.nPeersWithValidatedDownloads =
             d.nPeersWithValidatedDownloads
                 + (IF d.nBlocksInFlight[p] = 0 /\ B # {} THEN 1 ELSE 0)
      /\ e.nStallingSince = d.nStallingSince
  BY DEF MarkBlockAsInFlight, Sound
<1>2. e = [mapBlocksInFlight |-> e.mapBlocksInFlight,
           vBlocksInFlight |-> e.vBlocksInFlight,
           partialBlock |-> e.partialBlock,
           nBlocksInFlight |-> e.nBlocksInFlight,
           nPeersWithValidatedDownloads |-> e.nPeersWithValidatedDownloads,
           nStallingSince |-> e.nStallingSince]
  <2>1. d \in [mapBlocksInFlight : [Blocks -> Peers \cup {Nobody}],
               vBlocksInFlight   : [Peers -> SUBSET Blocks],
               partialBlock      : SUBSET Blocks,
               nBlocksInFlight   : [Peers -> Nat],
               nPeersWithValidatedDownloads : Nat,
               nStallingSince    : [Peers -> BOOLEAN]]
    BY DEF Sound
  <2> DEFINE m == [b \in Blocks |-> IF b \in B THEN p ELSE d.mapBlocksInFlight[b]]
             v == [d.vBlocksInFlight EXCEPT ![p] = @ \cup B]
             n == [d.nBlocksInFlight EXCEPT ![p] = @ + Cardinality(B)]
             k == d.nPeersWithValidatedDownloads
                      + (IF d.nBlocksInFlight[p] = 0 /\ B # {} THEN 1 ELSE 0)
  <2>2. e = [d EXCEPT !.mapBlocksInFlight = m, !.vBlocksInFlight = v,
                      !.nBlocksInFlight = n, !.nPeersWithValidatedDownloads = k]
    BY <2>1 DEF MarkBlockAsInFlight
  <2> HIDE DEF e, m, v, n, k
  <2> QED
    BY <2>1, <2>2
<1> HIDE DEF e
<1>3. /\ IsFiniteSet(d.vBlocksInFlight[p]) /\ IsFiniteSet(B)
      /\ Cardinality(B) \in Nat
  <2>1. d.vBlocksInFlight[p] \in SUBSET Blocks
    BY DEF Sound
  <2> QED
    BY <2>1, BlocksAssumption, FS_Subset, FS_CardinalityType
<1>4. /\ d.nBlocksInFlight[p] = Cardinality(d.vBlocksInFlight[p])
      /\ d.nBlocksInFlight[p] \in Nat
  BY DEF Sound
<1>5. d.vBlocksInFlight[p] \cap B = {}
  <2>1. \A b \in Blocks : b \in d.vBlocksInFlight[p] => d.mapBlocksInFlight[b] = p
    BY DEF Sound
  <2> QED
    BY <2>1, PeersAssumption
<1>6. Cardinality(d.vBlocksInFlight[p] \cup B) = d.nBlocksInFlight[p] + Cardinality(B)
  BY <1>3, <1>4, <1>5, FS_Union, FS_EmptySet, SMTT(60)
<1>7. d.nBlocksInFlight[p] = 0 <=> d.vBlocksInFlight[p] = {}
  BY <1>3, <1>4, FS_EmptySet
<1>8. IsFiniteSet(Loaded(d)) /\ Cardinality(Loaded(d)) \in Nat
  BY PeersAssumption, FS_Subset, FS_CardinalityType DEF Loaded
<1>9. Loaded(e) = IF d.nBlocksInFlight[p] = 0 /\ B # {}
                  THEN Loaded(d) \cup {p} ELSE Loaded(d)
  <2>1. \A q \in Peers : e.vBlocksInFlight[q] =
            IF q = p THEN d.vBlocksInFlight[q] \cup B ELSE d.vBlocksInFlight[q]
    BY <1>1 DEF Sound
  <2> QED
    BY <1>7, <2>1, Zenon DEF Loaded
<1>10. d.nBlocksInFlight[p] = 0 => p \notin Loaded(d)
  BY <1>7 DEF Loaded
<1>11. /\ e.nPeersWithValidatedDownloads = Cardinality(Loaded(e))
       /\ e.nPeersWithValidatedDownloads \in Nat
  <2>1. d.nPeersWithValidatedDownloads = Cardinality(Loaded(d))
    BY DEF Sound
  <2>2. d.nBlocksInFlight[p] = 0 =>
            Cardinality(Loaded(d) \cup {p}) = Cardinality(Loaded(d)) + 1
    BY <1>8, <1>10, FS_AddElement
  <2> QED
    BY <1>1, <1>8, <1>9, <2>1, <2>2, SMTT(60)
<1>12. /\ e.mapBlocksInFlight \in [Blocks -> Peers \cup {Nobody}]
       /\ e.vBlocksInFlight \in [Peers -> SUBSET Blocks]
       /\ e.partialBlock \in SUBSET Blocks
       /\ e.nStallingSince \in [Peers -> BOOLEAN]
  BY <1>1, SMTT(60) DEF Sound
<1>13. e.nBlocksInFlight \in [Peers -> Nat]
  BY <1>1, <1>3, SMTT(60) DEF Sound
<1>14. \A a \in Blocks, q \in Peers :
           a \in e.vBlocksInFlight[q] <=> e.mapBlocksInFlight[a] = q
  BY <1>1, PeersAssumption, SMTT(60) DEF Sound
<1>15. \A q \in Peers : /\ e.nBlocksInFlight[q] = Cardinality(e.vBlocksInFlight[q])
                        /\ e.nBlocksInFlight[q] <= MAX_BLOCKS_IN_TRANSIT_PER_PEER
  BY <1>1, <1>6 DEF Sound
<1>16. \A q \in Peers : e.nStallingSince[q] => e.vBlocksInFlight[q] # {}
  BY <1>1, SMTT(60) DEF Sound
<1>17. Sound(e)
  BY <1>2, <1>11, <1>12, <1>13, <1>14, <1>15, <1>16 DEF Sound
<1>18. /\ \A q \in Peers \ {p} : e.vBlocksInFlight[q] = d.vBlocksInFlight[q]
       /\ e.vBlocksInFlight[p] = d.vBlocksInFlight[p] \cup B
  BY <1>1, SMTT(60) DEF Sound
<1> QED
  BY <1>17, <1>18 DEF e

(* Erasing the state of a peer takes its blocks from both views.           *)
LEMMA EraseIsSound ==
    ASSUME NEW d, Sound(d), NEW p \in Peers
    PROVE  /\ Sound(EraseInFlight(d, p))
           /\ EraseInFlight(d, p).vBlocksInFlight[p] = {}
           /\ \A q \in Peers \ {p} : EraseInFlight(d, p).vBlocksInFlight[q]
                                         = d.vBlocksInFlight[q]
<1> DEFINE e == EraseInFlight(d, p)
           m == [b \in Blocks |-> IF b \in d.vBlocksInFlight[p] THEN Nobody
                                  ELSE d.mapBlocksInFlight[b]]
           v == [d.vBlocksInFlight EXCEPT ![p] = {}]
           w == d.partialBlock \ d.vBlocksInFlight[p]
           n == [d.nBlocksInFlight EXCEPT ![p] = 0]
           k == d.nPeersWithValidatedDownloads
                    - (IF d.nBlocksInFlight[p] # 0 THEN 1 ELSE 0)
           s == [d.nStallingSince EXCEPT ![p] = FALSE]
<1>1. d \in [mapBlocksInFlight : [Blocks -> Peers \cup {Nobody}],
             vBlocksInFlight   : [Peers -> SUBSET Blocks],
             partialBlock      : SUBSET Blocks,
             nBlocksInFlight   : [Peers -> Nat],
             nPeersWithValidatedDownloads : Nat,
             nStallingSince    : [Peers -> BOOLEAN]]
  BY DEF Sound
<1>2. e = [d EXCEPT !.mapBlocksInFlight = m, !.vBlocksInFlight = v,
                    !.partialBlock = w, !.nBlocksInFlight = n,
                    !.nPeersWithValidatedDownloads = k, !.nStallingSince = s]
  BY <1>1 DEF EraseInFlight
<1>3. e = [mapBlocksInFlight |-> m, vBlocksInFlight |-> v, partialBlock |-> w,
           nBlocksInFlight |-> n, nPeersWithValidatedDownloads |-> k,
           nStallingSince |-> s]
  <2> HIDE DEF e, m, v, w, n, k, s
  <2> QED
    BY <1>1, <1>2
<1> HIDE DEF e
<1>4. /\ m \in [Blocks -> Peers \cup {Nobody}] /\ v \in [Peers -> SUBSET Blocks]
      /\ w \in SUBSET Blocks /\ n \in [Peers -> Nat] /\ s \in [Peers -> BOOLEAN]
  BY <1>1
<1>5. d.nBlocksInFlight[p] = 0 <=> p \notin Loaded(d)
  <2>1. IsFiniteSet(d.vBlocksInFlight[p])
    BY <1>1, BlocksAssumption, FS_Subset
  <2>2. d.nBlocksInFlight[p] = Cardinality(d.vBlocksInFlight[p])
    BY DEF Sound
  <2> QED
    BY <2>1, <2>2, FS_EmptySet DEF Loaded
<1>6. Loaded(e) = Loaded(d) \ {p}
  BY <1>1, <1>3 DEF Loaded
<1>7. k = Cardinality(Loaded(e)) /\ k \in Nat
  <2>1. d.nPeersWithValidatedDownloads = Cardinality(Loaded(d))
    BY DEF Sound
  <2>2. IsFiniteSet(Loaded(d))
    BY PeersAssumption, FS_Subset DEF Loaded
  <2>3. /\ Cardinality(Loaded(d)) \in Nat
        /\ IsFiniteSet(Loaded(d) \ {p})
        /\ Cardinality(Loaded(d) \ {p}) =
               IF p \in Loaded(d) THEN Cardinality(Loaded(d)) - 1 ELSE Cardinality(Loaded(d))
    BY <2>2, FS_CardinalityType, FS_RemoveElement
  <2>4. Cardinality(Loaded(d) \ {p}) \in Nat
    BY <2>3, FS_CardinalityType
  <2> QED
    BY <1>5, <1>6, <2>1, <2>3, <2>4, SMTT(60)
<1>8. \A b \in Blocks, q \in Peers : b \in v[q] <=> m[b] = q
  <2>1. \A b \in Blocks, q \in Peers :
            b \in d.vBlocksInFlight[q] <=> d.mapBlocksInFlight[b] = q
    BY DEF Sound
  <2> QED
    BY <1>1, <2>1, PeersAssumption
<1>9. \A q \in Peers : /\ n[q] = Cardinality(v[q])
                       /\ n[q] <= MAX_BLOCKS_IN_TRANSIT_PER_PEER
  BY <1>1, FS_EmptySet, LimitAssumption, SMTT(60) DEF Sound
<1>10. \A q \in Peers : s[q] => v[q] # {}
  BY <1>1 DEF Sound
<1>11. v[p] = {} /\ \A q \in Peers \ {p} : v[q] = d.vBlocksInFlight[q]
  BY <1>1
<1> HIDE DEF m, v, w, n, k, s
<1>12. Sound(e)
  BY <1>3, <1>4, <1>7, <1>8, <1>9, <1>10 DEF Sound
<1> QED
  BY <1>3, <1>11, <1>12, SMTT(60) DEF e

(* What the partial block is does not matter to soundness.                 *)
LEMMA PartialIsSound ==
    ASSUME NEW d, Sound(d), NEW b \in Blocks
    PROVE  LET e == [d EXCEPT !.partialBlock = @ \cup {b}]
           IN  Sound(e) /\ e.vBlocksInFlight = d.vBlocksInFlight
<1> DEFINE e == [d EXCEPT !.partialBlock = @ \cup {b}]
<1>1. /\ e.mapBlocksInFlight = d.mapBlocksInFlight
      /\ e.vBlocksInFlight = d.vBlocksInFlight
      /\ e.nBlocksInFlight = d.nBlocksInFlight
      /\ e.nPeersWithValidatedDownloads = d.nPeersWithValidatedDownloads
      /\ e.nStallingSince = d.nStallingSince
  BY DEF Sound
<1>2. e \in [mapBlocksInFlight : [Blocks -> Peers \cup {Nobody}],
             vBlocksInFlight   : [Peers -> SUBSET Blocks],
             partialBlock      : SUBSET Blocks,
             nBlocksInFlight   : [Peers -> Nat],
             nPeersWithValidatedDownloads : Nat,
             nStallingSince    : [Peers -> BOOLEAN]]
  BY DEF Sound
<1>3. Loaded(e) = Loaded(d)
  BY <1>1 DEF Loaded
<1> HIDE DEF e
<1>4. Sound(e)
  BY <1>1, <1>2, <1>3, SMTT(60) DEF Sound
<1> QED
  BY <1>1, <1>4 DEF e

(* Stalling clocks may run for peers with a block in flight.               *)
LEMMA StallingIsSound ==
    ASSUME NEW d, Sound(d), NEW s \in [Peers -> BOOLEAN],
           \A q \in Peers : s[q] => d.vBlocksInFlight[q] # {}
    PROVE  LET e == [d EXCEPT !.nStallingSince = s]
           IN  Sound(e) /\ e.vBlocksInFlight = d.vBlocksInFlight
<1> DEFINE e == [d EXCEPT !.nStallingSince = s]
<1>1. /\ e.mapBlocksInFlight = d.mapBlocksInFlight
      /\ e.vBlocksInFlight = d.vBlocksInFlight
      /\ e.nBlocksInFlight = d.nBlocksInFlight
      /\ e.nPeersWithValidatedDownloads = d.nPeersWithValidatedDownloads
      /\ e.nStallingSince = s
  BY DEF Sound
<1>2. e \in [mapBlocksInFlight : [Blocks -> Peers \cup {Nobody}],
             vBlocksInFlight   : [Peers -> SUBSET Blocks],
             partialBlock      : SUBSET Blocks,
             nBlocksInFlight   : [Peers -> Nat],
             nPeersWithValidatedDownloads : Nat,
             nStallingSince    : [Peers -> BOOLEAN]]
  BY DEF Sound
<1>3. Loaded(e) = Loaded(d)
  BY <1>1 DEF Loaded
<1> HIDE DEF e
<1>4. Sound(e)
  BY <1>1, <1>2, <1>3, SMTT(60) DEF Sound
<1> QED
  BY <1>1, <1>4 DEF e

-----------------------------------------------------------------------------
(* What the walk and the direct fetch choose is in flight from nobody and  *)
(* fits under the limit; a staller has a block in flight.                  *)
LEMMA WalkIsRight ==
    ASSUME IInv, NEW p \in Peers, NEW known \in Blocks, NEW common, NEW count \in Nat
    PROVE  LET w == Walk(p, known, common, count)
           IN  /\ w.blocks \in SUBSET Blocks
               /\ \A b \in w.blocks : dl.mapBlocksInFlight[b] = Nobody
               /\ Cardinality(w.blocks) <= count
               /\ \A q \in w.staller \cap Peers : dl.vBlocksInFlight[q] # {}
<1> DEFINE windowEnd == nHeight[common] + BLOCK_DOWNLOAD_WINDOW
           steps  == {a \in Path[known] : /\ nHeight[a] > nHeight[common]
                                          /\ nHeight[a] <= windowEnd + 1
                                          /\ ~IsInvalid(a)}
           wanted == {a \in steps : a \notin hasData /\ ~InFlight(a)}
           inside == {a \in wanted : nHeight[a] <= windowEnd}
           held   == {a \in steps : a \notin hasData /\ InFlight(a)}
           w      == Walk(p, known, common, count)
<1>1. /\ w.blocks = Lowest(inside, count)
      /\ \A q \in w.staller : \E a \in Lowest(held, 1) : q = dl.mapBlocksInFlight[a]
  BY DEF Walk
<1>2. /\ inside \subseteq Blocks
      /\ \A a \in inside : dl.mapBlocksInFlight[a] = Nobody
      /\ \A a, c \in inside : nHeight[a] = nHeight[c] => a = c
  BY TreeAssumption DEF InFlight
<1>3. held \subseteq Blocks
  BY TreeAssumption
<1> HIDE DEF inside, held, w
<1>4. Lowest(inside, count) \subseteq inside /\ Cardinality(Lowest(inside, count)) <= count
  BY <1>2, LowestIsSmall
<1>5. \A q \in w.staller \cap Peers : dl.vBlocksInFlight[q] # {}
  <2> SUFFICES ASSUME NEW q \in w.staller \cap Peers PROVE dl.vBlocksInFlight[q] # {}
    OBVIOUS
  <2>1. PICK a \in held : q = dl.mapBlocksInFlight[a]
    BY <1>1 DEF Lowest
  <2> QED
    BY <1>3, <2>1 DEF IInv, Sound
<1> QED
  BY <1>1, <1>2, <1>4, <1>5 DEF w

(* The same of the direct fetch of ProcessHeadersMessage.                  *)
LEMMA DirectFetchIsRight ==
    ASSUME IInv, NEW p \in Peers, NEW b \in Blocks
    PROVE  /\ DirectFetch(p, b) \in SUBSET Blocks
           /\ \A a \in DirectFetch(p, b) : dl.mapBlocksInFlight[a] = Nobody
           /\ dl.nBlocksInFlight[p] + Cardinality(DirectFetch(p, b))
                  <= MAX_BLOCKS_IN_TRANSIT_PER_PEER
<1> DEFINE missing == {a \in Path[b] \ Path[tip] : a \notin hasData /\ ~InFlight(a)}
           toFetch == Highest(missing, MAX_BLOCKS_IN_TRANSIT_PER_PEER + 1)
           room == MAX_BLOCKS_IN_TRANSIT_PER_PEER - dl.nBlocksInFlight[p]
<1>1. DirectFetch(p, b) \in {{}, Lowest(toFetch, room)}
  BY DEF DirectFetch
<1>2. room \in Nat /\ dl.nBlocksInFlight[p] \in Nat
  BY LimitAssumption, SMTT(60) DEF IInv, Sound
<1>3. /\ toFetch \subseteq Blocks
      /\ \A a \in toFetch : dl.mapBlocksInFlight[a] = Nobody
      /\ \A a, c \in toFetch : nHeight[a] = nHeight[c] => a = c
  BY TreeAssumption DEF Highest, InFlight
<1> HIDE DEF toFetch
<1> HIDE DEF room
<1>4. /\ Lowest(toFetch, room) \subseteq toFetch
      /\ IsFiniteSet(Lowest(toFetch, room))
      /\ Cardinality(Lowest(toFetch, room)) <= room
  BY <1>2, <1>3, LowestIsSmall
<1>5. IsFiniteSet(DirectFetch(p, b)) /\ Cardinality(DirectFetch(p, b)) <= room
  BY <1>1, <1>2, <1>4, FS_EmptySet, SMTT(60)
<1>6. Cardinality(DirectFetch(p, b)) \in Nat
  BY <1>5, FS_CardinalityType
<1>7. /\ DirectFetch(p, b) \in SUBSET Blocks
      /\ \A a \in DirectFetch(p, b) : dl.mapBlocksInFlight[a] = Nobody
  BY <1>1, <1>3, <1>4
<1> QED
  BY <1>2, <1>5, <1>6, <1>7, LimitAssumption, SMTT(60) DEF room

(* The types of what is known of a peer survive an announcement.           *)
LEMMA AvailabilityType ==
    ASSUME IInv, NEW p \in Peers, NEW b \in Blocks, NEW index \in SUBSET Blocks,
           UpdateBlockAvailability(p, b, index)
    PROVE  /\ pindexBestKnownBlock' \in [Peers -> Blocks \cup {NoBlock}]
           /\ hashLastUnknownBlock' \in [Peers -> Blocks \cup {NoBlock}]
BY DEF IInv, UpdateBlockAvailability, ProcessBlockAvailability, Better, Resolved

(* A handler keeps the invariant if it leaves the record sound, gives      *)
(* blocks only to connected peers and erases no peer.                      *)
LEMMA HandlerKeepsIInv ==
    ASSUME IInv,
           mapBlockIndex' \in SUBSET Blocks,
           pindexBestKnownBlock' \in [Peers -> Blocks \cup {NoBlock}],
           hashLastUnknownBlock' \in [Peers -> Blocks \cup {NoBlock}],
           Sound(dl'),
           \A q \in Peers : dl'.vBlocksInFlight[q] # {}
                                => dl.vBlocksInFlight[q] # {} \/ node[q] = "up",
           NEW p \in Peers, node[p] = "up" \/ node' = node,
           node' \in {node, [node EXCEPT ![p] = "dropping"]}
    PROVE  IInv'
BY SMTT(60) DEF IInv, Sound, Loaded

(* A compact block that may be put in flight from p is put there.          *)
LEMMA StartPartialIsSound ==
    ASSUME IInv, NEW p \in Peers, NEW b \in Blocks, MayStartPartial(p, b)
    PROVE  /\ Sound(StartPartial(p, b))
           /\ \A q \in Peers \ {p} : StartPartial(p, b).vBlocksInFlight[q]
                                         = dl.vBlocksInFlight[q]
<1> DEFINE B == {b} \ dl.vBlocksInFlight[p]
<1>1. Sound(dl)
  BY DEF IInv
<1>2. \A a \in B : dl.mapBlocksInFlight[a] = Nobody
  BY <1>1, SMTT(60) DEF MayStartPartial, InFlight, Sound
<1>3. dl.nBlocksInFlight[p] + Cardinality(B) <= MAX_BLOCKS_IN_TRANSIT_PER_PEER
  <2>1. CASE B = {}
    <3>1. /\ dl.nBlocksInFlight[p] \in Nat
          /\ dl.nBlocksInFlight[p] <= MAX_BLOCKS_IN_TRANSIT_PER_PEER
      BY <1>1 DEF Sound
    <3>2. Cardinality(B) = 0
      BY <2>1, FS_EmptySet
    <3> QED
      BY <3>1, <3>2, LimitAssumption
  <2>2. CASE B = {b}
    <3>1. dl.nBlocksInFlight[p] < MAX_BLOCKS_IN_TRANSIT_PER_PEER
      BY <1>1, <2>2 DEF MayStartPartial, Sound
    <3>2. Cardinality(B) = 1
      BY <2>2, FS_Singleton
    <3>3. dl.nBlocksInFlight[p] \in Nat
      BY <1>1 DEF Sound
    <3> QED
      BY <3>1, <3>2, <3>3, LimitAssumption, SMTT(60)
  <2> QED
    BY <2>1, <2>2
<1> DEFINE e == MarkBlockAsInFlight(dl, p, B)
<1>4. /\ Sound(e)
      /\ \A q \in Peers \ {p} : e.vBlocksInFlight[q] = dl.vBlocksInFlight[q]
  <2>1. B \in SUBSET Blocks
    OBVIOUS
  <2> HIDE DEF B
  <2> QED
    BY <1>1, <1>2, <1>3, <2>1, RequestIsSound, SMTT(60)
<1>5. StartPartial(p, b) = [e EXCEPT !.partialBlock = @ \cup {b}]
  BY DEF StartPartial
<1> HIDE DEF e
<1> QED
  BY <1>4, <1>5, PartialIsSound

-----------------------------------------------------------------------------
(* At the start no block is in flight and no peer stalls.                  *)
LEMMA InitIsSound == Init => IInv
<1> SUFFICES ASSUME Init PROVE IInv
  OBVIOUS
<1>1. Loaded(dl) = {} /\ Cardinality(Loaded(dl)) = 0
  BY FS_EmptySet, Zenon DEF Init, Loaded
<1>2. Sound(dl)
  BY <1>1, FS_EmptySet, PeersAssumption, LimitAssumption, SMTT(60) DEF Init, Sound
<1> QED
  BY <1>2, BlocksAssumption DEF Init, IInv

(* An INV changes only what the peer is assumed to have.                   *)
LEMMA ReceiveInvStep ==
    ASSUME IInv, NEW p \in Peers, NEW b \in Blocks, ReceiveInv(p, b)
    PROVE  IInv'
<1>1. /\ pindexBestKnownBlock' \in [Peers -> Blocks \cup {NoBlock}]
      /\ hashLastUnknownBlock' \in [Peers -> Blocks \cup {NoBlock}]
  BY AvailabilityType DEF ReceiveInv, IInv
<1>2. dl' = dl /\ node' = node /\ mapBlockIndex' = mapBlockIndex
  BY DEF ReceiveInv, chain
<1>3. Sound(dl') /\ mapBlockIndex' \in SUBSET Blocks
  BY <1>2 DEF IInv
<1> QED
  BY <1>1, <1>2, <1>3, HandlerKeepsIInv

(* The direct fetch after HEADERS keeps the invariant.                     *)
LEMMA ReceiveHeadersStep ==
    ASSUME IInv, NEW p \in Peers, NEW b \in Blocks, NEW recent \in BOOLEAN,
           ReceiveHeaders(p, b, recent)
    PROVE  IInv'
<1>1. mapBlockIndex' \in SUBSET Blocks /\ node[p] = "up"
  BY TreeAssumption DEF ReceiveHeaders, Announces, IInv
<1>2. CASE IsInvalid(b) /\ MayDrop(p) /\ UNCHANGED <<avail, dl, getdata>>
  <2>1. /\ dl' = dl /\ node' \in {node, [node EXCEPT ![p] = "dropping"]}
        /\ pindexBestKnownBlock' = pindexBestKnownBlock
        /\ hashLastUnknownBlock' = hashLastUnknownBlock
    BY <1>2 DEF MayDrop, avail
  <2>2. /\ Sound(dl')
        /\ pindexBestKnownBlock' \in [Peers -> Blocks \cup {NoBlock}]
        /\ hashLastUnknownBlock' \in [Peers -> Blocks \cup {NoBlock}]
    BY <2>1 DEF IInv
  <2> QED
    BY <1>1, <2>1, <2>2, HandlerKeepsIInv
<1>3. CASE /\ UpdateBlockAvailability(p, b, mapBlockIndex')
           /\ \E B \in {IF recent THEN DirectFetch(p, b) ELSE {}} :
                  dl' = MarkBlockAsInFlight(dl, p, B)
           /\ UNCHANGED node
  <2>1. /\ pindexBestKnownBlock' \in [Peers -> Blocks \cup {NoBlock}]
        /\ hashLastUnknownBlock' \in [Peers -> Blocks \cup {NoBlock}]
    BY <1>1, <1>3, AvailabilityType
  <2>2. PICK B \in {DirectFetch(p, b), {}} : dl' = MarkBlockAsInFlight(dl, p, B)
    BY <1>3
  <2>3. /\ B \in SUBSET Blocks
        /\ \A a \in B : dl.mapBlocksInFlight[a] = Nobody
        /\ dl.nBlocksInFlight[p] + Cardinality(B) <= MAX_BLOCKS_IN_TRANSIT_PER_PEER
    <3>1. dl.nBlocksInFlight[p] + Cardinality({}) <= MAX_BLOCKS_IN_TRANSIT_PER_PEER
      BY FS_EmptySet, LimitAssumption, SMTT(60) DEF IInv, Sound
    <3> QED
      BY <3>1, DirectFetchIsRight, Zenon
  <2>4. Sound(dl)
    BY DEF IInv
  <2>5. /\ Sound(dl')
        /\ \A q \in Peers \ {p} : dl'.vBlocksInFlight[q] = dl.vBlocksInFlight[q]
    BY <2>2, <2>3, <2>4, RequestIsSound, SMTT(60)
  <2> QED
    BY <1>1, <1>3, <2>1, <2>5, HandlerKeepsIInv
<1> QED
  BY <1>2, <1>3 DEF ReceiveHeaders

(* A BLOCK message ends the request, whoever it was asked of.              *)
LEMMA ReceiveBlockStep ==
    ASSUME IInv, NEW p \in Peers, NEW b \in Blocks, NEW intact \in BOOLEAN,
           ReceiveBlock(p, b, intact)
    PROVE  IInv'
<1>1. node[p] = "up" /\ node' \in {node, [node EXCEPT ![p] = "dropping"]}
  BY DEF ReceiveBlock, MaySend, MayDrop
<1>2. mapBlockIndex' \in SUBSET Blocks
  BY DEF ReceiveBlock, ProcessNewBlock, chain, IInv
<1>3. /\ pindexBestKnownBlock' \in [Peers -> Blocks \cup {NoBlock}]
      /\ hashLastUnknownBlock' \in [Peers -> Blocks \cup {NoBlock}]
  BY DEF ReceiveBlock, avail, IInv
<1>4. Sound(dl) /\ dl' = MarkBlockAsReceived(dl, b)
  BY DEF ReceiveBlock, IInv
<1>5. /\ Sound(dl')
      /\ \A q \in Peers : dl'.vBlocksInFlight[q] \subseteq dl.vBlocksInFlight[q]
  BY <1>4, ReceivedIsSound
<1>6. \A q \in Peers : dl'.vBlocksInFlight[q] # {} => dl.vBlocksInFlight[q] # {}
  BY <1>5
<1> QED
  BY <1>1, <1>2, <1>3, <1>5, <1>6, HandlerKeepsIInv

(* A compact block that may be put in flight leaves a sound record.        *)
LEMMA CompactFromHolderStep ==
    ASSUME IInv, NEW p \in Peers, NEW b \in Blocks, NEW status \in Status,
           MayStartPartial(p, b), CompactFromHolder(p, b, status)
    PROVE  /\ Sound(dl')
           /\ \A q \in Peers \ {p} :
                  dl'.vBlocksInFlight[q] # {} => dl.vBlocksInFlight[q] # {}
           /\ mapBlockIndex' \in SUBSET Blocks
           /\ node' \in {node, [node EXCEPT ![p] = "dropping"]}
<1> DEFINE e == StartPartial(p, b)
<1>1. Sound(e) /\ \A q \in Peers \ {p} : e.vBlocksInFlight[q] = dl.vBlocksInFlight[q]
  BY StartPartialIsSound
<1>2. dl' \in {e, MarkBlockAsReceived(e, b)}
  BY Zenon DEF CompactFromHolder
<1>3. mapBlockIndex' \in SUBSET Blocks
  BY Zenon DEF CompactFromHolder, HeaderOnly, ProcessNewBlock, IInv
<1>4. node' \in {node, [node EXCEPT ![p] = "dropping"]}
  BY DEF CompactFromHolder
<1> HIDE DEF e
<1>5. /\ Sound(MarkBlockAsReceived(e, b))
      /\ \A q \in Peers : MarkBlockAsReceived(e, b).vBlocksInFlight[q]
                              \subseteq e.vBlocksInFlight[q]
  BY <1>1, ReceivedIsSound
<1>6. /\ Sound(dl')
      /\ \A q \in Peers : dl'.vBlocksInFlight[q] \subseteq e.vBlocksInFlight[q]
  BY <1>1, <1>2, <1>5
<1> QED
  BY <1>1, <1>3, <1>4, <1>6

(* Every way a CMPCTBLOCK is handled keeps the invariant.                  *)
LEMMA ReceiveCmpctBlockStep ==
    ASSUME IInv, NEW p \in Peers, NEW b \in Blocks, NEW recent \in BOOLEAN,
           NEW status \in Status, ReceiveCmpctBlock(p, b, recent, status)
    PROVE  IInv'
<1>1. node[p] = "up" /\ Sound(dl)
  BY DEF ReceiveCmpctBlock, Announces, IInv
<1>2. CASE IsInvalid(b)
  <2>1. /\ dl' = dl /\ mapBlockIndex' = mapBlockIndex
        /\ pindexBestKnownBlock' = pindexBestKnownBlock
        /\ hashLastUnknownBlock' = hashLastUnknownBlock
        /\ node' \in {node, [node EXCEPT ![p] = "dropping"]}
    BY <1>2 DEF ReceiveCmpctBlock, chain, avail, MayDrop
  <2>2. /\ Sound(dl') /\ mapBlockIndex' \in SUBSET Blocks
        /\ pindexBestKnownBlock' \in [Peers -> Blocks \cup {NoBlock}]
        /\ hashLastUnknownBlock' \in [Peers -> Blocks \cup {NoBlock}]
    BY <2>1 DEF IInv
  <2> QED
    BY <1>1, <2>1, <2>2, HandlerKeepsIInv
<1>3. CASE ~IsInvalid(b)
  <2>1. /\ pindexBestKnownBlock' \in [Peers -> Blocks \cup {NoBlock}]
        /\ hashLastUnknownBlock' \in [Peers -> Blocks \cup {NoBlock}]
    <3>1. mapBlockIndex \cup {b} \in SUBSET Blocks
      BY DEF IInv
    <3>2. UpdateBlockAvailability(p, b, mapBlockIndex \cup {b})
      BY <1>3 DEF ReceiveCmpctBlock
    <3> QED
      BY <3>1, <3>2, AvailabilityType
  <2> DEFINE Outcome ==
          /\ Sound(dl')
          /\ \A q \in Peers \ {p} :
                 dl'.vBlocksInFlight[q] # {} => dl.vBlocksInFlight[q] # {}
          /\ mapBlockIndex' \in SUBSET Blocks
          /\ node' \in {node, [node EXCEPT ![p] = "dropping"]}
  <2>2. ASSUME MayStartPartial(p, b) /\ CompactFromHolder(p, b, status)
        PROVE  Outcome
    BY <2>2, CompactFromHolderStep
  <2>3. ASSUME HeaderOnly(b) /\ UNCHANGED <<node, dl, asked>>
        PROVE  Outcome
    BY <1>1, <2>3 DEF HeaderOnly, IInv
  <2>4. ASSUME CompactFromOther(p, b, status)
        PROVE  Outcome
    <3>1. dl' \in {dl, MarkBlockAsReceived(dl, b)} /\ node' = node
      BY <2>4 DEF CompactFromOther
    <3>2. mapBlockIndex' \in SUBSET Blocks
      BY <2>4, Zenon DEF CompactFromOther, HeaderOnly, ProcessNewBlock, IInv
    <3>3. /\ Sound(dl')
          /\ \A q \in Peers : dl'.vBlocksInFlight[q] \subseteq dl.vBlocksInFlight[q]
      BY <1>1, <3>1, ReceivedIsSound
    <3> QED
      BY <3>1, <3>2, <3>3
  <2>5. ASSUME \E B \in {{}, DirectFetch(p, b)} : CompactAsHeader(p, b, B)
        PROVE  Outcome
    <3>1. PICK B \in {{}, DirectFetch(p, b)} : CompactAsHeader(p, b, B)
      BY <2>5
    <3>2. dl' = MarkBlockAsInFlight(dl, p, B) /\ node' = node
      BY <3>1 DEF CompactAsHeader
    <3>3. mapBlockIndex' \in SUBSET Blocks
      BY <3>1 DEF CompactAsHeader, HeaderOnly, IInv
    <3>4. dl.nBlocksInFlight[p] + Cardinality({}) <= MAX_BLOCKS_IN_TRANSIT_PER_PEER
      BY <1>1, FS_EmptySet, LimitAssumption, SMTT(60) DEF Sound
    <3>5. /\ B \in SUBSET Blocks
          /\ \A a \in B : dl.mapBlocksInFlight[a] = Nobody
          /\ dl.nBlocksInFlight[p] + Cardinality(B) <= MAX_BLOCKS_IN_TRANSIT_PER_PEER
      BY <3>4, DirectFetchIsRight
    <3>6. /\ Sound(dl')
          /\ \A q \in Peers \ {p} : dl'.vBlocksInFlight[q] = dl.vBlocksInFlight[q]
      BY <1>1, <3>2, <3>5, RequestIsSound, SMTT(60)
    <3> QED
      BY <3>2, <3>3, <3>6
  <2>6. Outcome
    BY <1>3, <2>2, <2>3, <2>4, <2>5, Zenon DEF ReceiveCmpctBlock
  <2> QED
    BY <1>1, <2>1, <2>6, HandlerKeepsIInv
<1> QED
  BY <1>2, <1>3

(* The answer to a GETBLOCKTXN ends the request or changes nothing.        *)
LEMMA ReceiveBlockTxnStep ==
    ASSUME IInv, NEW p \in Peers, NEW b \in Blocks, NEW status \in Status,
           ReceiveBlockTxn(p, b, status)
    PROVE  IInv'
<1>1. node[p] = "up" /\ node' \in {node, [node EXCEPT ![p] = "dropping"]}
  BY Zenon DEF ReceiveBlockTxn
<1>2. mapBlockIndex' \in SUBSET Blocks
  BY Zenon DEF ReceiveBlockTxn, ProcessNewBlock, chain, IInv
<1>3. /\ pindexBestKnownBlock' \in [Peers -> Blocks \cup {NoBlock}]
      /\ hashLastUnknownBlock' \in [Peers -> Blocks \cup {NoBlock}]
  BY DEF ReceiveBlockTxn, avail, IInv
<1>4. Sound(dl) /\ dl' \in {dl, MarkBlockAsReceived(dl, b)}
  BY Zenon DEF ReceiveBlockTxn, IInv
<1>5. /\ Sound(dl')
      /\ \A q \in Peers : dl'.vBlocksInFlight[q] \subseteq dl.vBlocksInFlight[q]
  BY <1>4, ReceivedIsSound
<1>6. \A q \in Peers : dl'.vBlocksInFlight[q] # {} => dl.vBlocksInFlight[q] # {}
  BY <1>5
<1> QED
  BY <1>1, <1>2, <1>3, <1>5, <1>6, HandlerKeepsIInv

(* The requests of SendMessages and the stalling clock it starts.          *)
LEMMA SendMessagesStep ==
    ASSUME IInv, NEW p \in Peers, SendMessages(p)
    PROVE  IInv'
<1> DEFINE room == MAX_BLOCKS_IN_TRANSIT_PER_PEER - dl.nBlocksInFlight[p]
           known == ProcessBlockAvailability(p, mapBlockIndex)
           next == FindNextBlocksToDownload(p, known, room)
<1>1. node[p] = "up" /\ node' = node /\ mapBlockIndex' = mapBlockIndex
  BY DEF SendMessages, chain
<1>2. Sound(dl) /\ mapBlockIndex \in SUBSET Blocks
  BY DEF IInv
<1>3. room \in Nat /\ dl.nBlocksInFlight[p] \in Nat
  BY <1>2, LimitAssumption, SMTT(60) DEF SendMessages, Sound
<1>4. known \in Blocks \cup {NoBlock}
  BY DEF ProcessBlockAvailability, Better, Resolved, IInv
<1>5. /\ pindexBestKnownBlock' = [pindexBestKnownBlock EXCEPT ![p] = known]
      /\ hashLastUnknownBlock' = [hashLastUnknownBlock EXCEPT ![p] =
             IF Resolved(p, mapBlockIndex) THEN NoBlock ELSE @]
      /\ RequestBlocks(p, next.blocks, next.staller)
  BY DEF SendMessages
<1>6. /\ pindexBestKnownBlock' \in [Peers -> Blocks \cup {NoBlock}]
      /\ hashLastUnknownBlock' \in [Peers -> Blocks \cup {NoBlock}]
  <2> HIDE DEF known, next
  <2> QED
    BY <1>4, <1>5 DEF IInv
<1> HIDE DEF known
<1>7. /\ next.blocks \in SUBSET Blocks
      /\ \A b \in next.blocks : dl.mapBlocksInFlight[b] = Nobody
      /\ Cardinality(next.blocks) <= room
      /\ \A q \in next.staller \cap Peers : dl.vBlocksInFlight[q] # {}
  <2>1. CASE next = [last |-> pindexLastCommonBlock[p], blocks |-> {}, staller |-> {}]
    <3>1. next.blocks = {} /\ next.staller = {}
      BY <2>1, SMTT(60)
    <3> HIDE DEF room, next
    <3>2. Cardinality(next.blocks) = 0
      BY <3>1, FS_EmptySet, Zenon
    <3>3. Cardinality(next.blocks) <= room
      BY <1>3, <3>2
    <3> QED
      BY <3>1, <3>3, Zenon
  <2>2. CASE known \in Blocks /\ next = Walk(p, known, StartOfWalk(p, known), room)
    <3> HIDE DEF room, next
    <3> QED
      BY <1>3, <2>2, WalkIsRight
  <2> QED
    BY <1>4, <2>1, <2>2, Zenon DEF FindNextBlocksToDownload
<1> HIDE DEF next
<1> DEFINE B == next.blocks
           e == MarkBlockAsInFlight(dl, p, B)
<1>8. dl.nBlocksInFlight[p] + Cardinality(B) <= MAX_BLOCKS_IN_TRANSIT_PER_PEER
  <2>1. IsFiniteSet(B)
    BY <1>7, BlocksAssumption, FS_Subset
  <2>2. Cardinality(B) \in Nat
    BY <2>1, FS_CardinalityType
  <2> QED
    BY <1>3, <1>7, <2>2, LimitAssumption, SMTT(60)
<1>9. /\ Sound(e)
      /\ \A q \in Peers \ {p} : e.vBlocksInFlight[q] = dl.vBlocksInFlight[q]
      /\ e.vBlocksInFlight[p] = dl.vBlocksInFlight[p] \cup B
  BY <1>2, <1>7, <1>8, RequestIsSound, SMTT(60)
<1> DEFINE s == IF dl.nBlocksInFlight[p] + Cardinality(B) = 0
                THEN [q \in Peers |-> e.nStallingSince[q] \/ q \in next.staller]
                ELSE e.nStallingSince
<1>10. dl' = [e EXCEPT !.nStallingSince = s]
  BY <1>5, <1>9 DEF RequestBlocks, Sound
<1> HIDE DEF e, B
<1>11. s \in [Peers -> BOOLEAN] /\ \A q \in Peers : s[q] => e.vBlocksInFlight[q] # {}
  BY <1>7, <1>9, SMTT(60) DEF Sound
<1> HIDE DEF s
<1>12. Sound(dl') /\ dl'.vBlocksInFlight = e.vBlocksInFlight
  BY <1>9, <1>10, <1>11, StallingIsSound
<1> QED
  BY <1>1, <1>2, <1>6, <1>9, <1>12, HandlerKeepsIInv

(* A peer that is erased leaves no request behind.                         *)
LEMMA FinalizeNodeStep ==
    ASSUME IInv, NEW p \in Peers, FinalizeNode(p)
    PROVE  IInv'
<1>1. Sound(dl) /\ dl' = EraseInFlight(dl, p)
  BY DEF FinalizeNode, IInv
<1>2. /\ Sound(dl') /\ dl'.vBlocksInFlight[p] = {}
      /\ \A q \in Peers \ {p} : dl'.vBlocksInFlight[q] = dl.vBlocksInFlight[q]
  BY <1>1, EraseIsSound, SMTT(60)
<1>3. /\ pindexBestKnownBlock' \in [Peers -> Blocks \cup {NoBlock}]
      /\ hashLastUnknownBlock' \in [Peers -> Blocks \cup {NoBlock}]
      /\ mapBlockIndex' \in SUBSET Blocks
      /\ node' = [node EXCEPT ![p] = "gone"]
  BY DEF FinalizeNode, chain, IInv
<1>4. /\ node' \in [Peers -> {"up", "dropping", "gone"}]
      /\ \A q \in Peers \ {p} : node'[q] = node[q]
  BY <1>3 DEF IInv
<1>5. \A q \in Peers : dl'.vBlocksInFlight[q] # {} => node'[q] \in {"up", "dropping"}
  BY <1>2, <1>4 DEF IInv
<1> QED
  BY <1>2, <1>3, <1>4, <1>5 DEF IInv, Sound, Loaded

(* Every step keeps the invariant, one case for each handler.              *)
LEMMA NextKeepsIInv == IInv /\ [Next]_vars => IInv'
<1> SUFFICES ASSUME IInv, [Next]_vars PROVE IInv'
  OBVIOUS
<1>1. CASE UNCHANGED vars
  BY <1>1 DEF IInv, Sound, Loaded, vars, chain, avail
<1>2. ASSUME NEW p \in Peers, SendMessages(p) PROVE IInv'
  BY <1>2, SendMessagesStep
<1>3. ASSUME NEW p \in Peers, TimeOut(p) PROVE IInv'
  <2>1. /\ node[p] = "up" /\ node' = [node EXCEPT ![p] = "dropping"]
        /\ dl' = dl /\ mapBlockIndex' = mapBlockIndex
        /\ pindexBestKnownBlock' = pindexBestKnownBlock
        /\ hashLastUnknownBlock' = hashLastUnknownBlock
    BY <1>3 DEF TimeOut, chain, avail
  <2>2. /\ Sound(dl') /\ mapBlockIndex' \in SUBSET Blocks
        /\ pindexBestKnownBlock' \in [Peers -> Blocks \cup {NoBlock}]
        /\ hashLastUnknownBlock' \in [Peers -> Blocks \cup {NoBlock}]
    BY <2>1 DEF IInv
  <2> QED
    BY <1>3, <2>1, <2>2, HandlerKeepsIInv
<1>4. ASSUME NEW p \in Peers, FinalizeNode(p) PROVE IInv'
  BY <1>4, FinalizeNodeStep
<1>5. ASSUME NEW p \in Peers, NEW b \in Blocks, ReceiveInv(p, b) PROVE IInv'
  BY <1>5, ReceiveInvStep
<1>6. ASSUME NEW p \in Peers, NEW b \in Blocks, NEW recent \in BOOLEAN,
             ReceiveHeaders(p, b, recent)
      PROVE  IInv'
  BY <1>6, ReceiveHeadersStep
<1>7. ASSUME NEW p \in Peers, NEW b \in Blocks, NEW intact \in BOOLEAN,
             ReceiveBlock(p, b, intact)
      PROVE  IInv'
  BY <1>7, ReceiveBlockStep
<1>8. ASSUME NEW p \in Peers, NEW b \in Blocks, NEW recent \in BOOLEAN,
             NEW status \in Status, ReceiveCmpctBlock(p, b, recent, status)
      PROVE  IInv'
  BY <1>8, ReceiveCmpctBlockStep
<1>9. ASSUME NEW p \in Peers, NEW b \in Blocks, NEW status \in Status,
             ReceiveBlockTxn(p, b, status)
      PROVE  IInv'
  BY <1>9, ReceiveBlockTxnStep
<1>10. ASSUME NEW b \in Mined, SubmitBlock(b) PROVE IInv'
  <2>1. b \in Blocks
    BY PeersAssumption
  <2>2. /\ dl' = dl /\ node' = node
        /\ pindexBestKnownBlock' = pindexBestKnownBlock
        /\ hashLastUnknownBlock' = hashLastUnknownBlock
    BY <1>10 DEF SubmitBlock, avail
  <2>3. mapBlockIndex' \in SUBSET Blocks
    BY <1>10, <2>1 DEF SubmitBlock, ProcessNewBlock, IInv
  <2> QED
    BY <2>2, <2>3 DEF IInv, Sound, Loaded
<1> QED
  BY <1>1, <1>2, <1>3, <1>4, <1>5, <1>6, <1>7, <1>8, <1>9, <1>10 DEF Next

(* IInv holds in every reachable state.                                    *)
THEOREM IInvHolds == Spec => []IInv
BY InitIsSound, NextKeepsIInv, PTL DEF Spec

(* mapBlocksInFlight, the lists of the peers and the counters of           *)
(* net_processing.cpp agree after every handler, for any number of peers   *)
(* and any block tree, and no peer is asked for more blocks than its limit. *)
THEOREM DownloadsAreConsistent == Spec => []InFlightIsConsistent
<1>1. IInv => InFlightIsConsistent
  BY DEF IInv, Sound, Loaded, InFlightIsConsistent
<1> QED
  BY <1>1, IInvHolds, PTL

(* Only a peer with a block in flight is ever timed for stalling, whoever  *)
(* delivers the blocks it was asked for.                                   *)
THEOREM OnlyDebtorsStall == Spec => []StallersOweBlocks
<1>1. IInv => StallersOweBlocks
  BY DEF IInv, Sound, StallersOweBlocks
<1> QED
  BY <1>1, IInvHolds, PTL

=============================================================================
