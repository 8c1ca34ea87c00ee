------------------------- MODULE MCSchedulerClient -------------------------
(***************************************************************************)
(* Two service threads and two callers.                                    *)
(***************************************************************************)
EXTENDS SchedulerClient

CONSTANTS t1, t2, c1, c2

MCThreads == {t1, t2}
MCCallers == {c1, c2}
=============================================================================
