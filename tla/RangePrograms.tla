--------------------------- MODULE RangePrograms ---------------------------
(***************************************************************************)
(* The three programs that solve a range of deals, and what is expected of *)
(* all of them.                                                            *)
(***************************************************************************)
EXTENDS ThreadedRange, ForkingRange, SerialRange

ThreadedSpec == ThreadedInit /\ [][ThreadedNext]_threadedVars
ForkingSpec == ForkingInit /\ [][ForkingNext]_forkingVars
SerialSpec == SerialInit /\ [][SerialNext]_serialVars

\* The programs that solve a range of deals solve each once and account for
\* it: ThreadedExact, ForkingExact and SerialExact say what that is for each.
RangeExact == ThreadedExact /\ ForkingExact /\ SerialExact
=============================================================================
