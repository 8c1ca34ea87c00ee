------------------------------- MODULE UtxoSet -------------------------------
(***************************************************************************)
(* What the stack of coin views promises its users: one map from outpoints *)
(* to coins with a best block, and at most one piece of work on a copy of   *)
(* it that is committed whole or thrown away.                               *)
(***************************************************************************)
CONSTANTS Outpoints, Coins, Spent, Blocks, Null

VARIABLES
    utxo,       \* the coins as of best
    best,
    open,       \* is there work in progress
    work,       \* its coins
    workBest

vars == <<utxo, best, open, work, workBest>>

Init ==
    /\ utxo = [o \in Outpoints |-> Spent]
    /\ best = Null
    /\ open = FALSE
    /\ work = utxo
    /\ workBest = best

Begin ==
    /\ ~open
    /\ open' = TRUE
    /\ work' = utxo
    /\ workBest' = best
    /\ UNCHANGED <<utxo, best>>

Set(o, c) ==
    /\ open
    /\ work' = [work EXCEPT ![o] = c]
    /\ UNCHANGED <<utxo, best, open, workBest>>

SetBest(b) ==
    /\ open
    /\ workBest' = b
    /\ UNCHANGED <<utxo, best, open, work>>

Commit ==
    /\ open
    /\ open' = FALSE
    /\ utxo' = work
    /\ best' = workBest
    /\ UNCHANGED <<work, workBest>>

Abandon ==
    /\ open
    /\ open' = FALSE
    /\ work' = utxo
    /\ workBest' = best
    /\ UNCHANGED <<utxo, best>>

Next ==
    \/ Begin
    \/ \E o \in Outpoints, c \in Coins \cup {Spent} : Set(o, c)
    \/ \E b \in Blocks : SetBest(b)
    \/ Commit
    \/ Abandon

Spec == Init /\ [][Next]_vars
==============================================================================
