----------------------------- MODULE MCCardLock -----------------------------
EXTENDS CardLock, TLC

CONSTANTS p1, p2, p3, t1, t2, t3

\* One thread in each process.
MCOneEach == t1 :> p1 @@ t2 :> p2 @@ t3 :> p3

\* Two threads share the card object of p1, as in test_cru_parallel_sc.
MCShared == t1 :> p1 @@ t2 :> p1 @@ t3 :> p2
=============================================================================
