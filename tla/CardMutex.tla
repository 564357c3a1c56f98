------------------------------ MODULE CardMutex ------------------------------
(***************************************************************************)
(* What the card lock promises: the set of processes in their critical     *)
(* section is empty or a single process.                                   *)
(***************************************************************************)
CONSTANT Procs
VARIABLE users

Init == users = {}

Acquire(p) == users = {} /\ users' = {p}

Release(p) == users = {p} /\ users' = {}

Next == \E p \in Procs : Acquire(p) \/ Release(p)

Spec == Init /\ [][Next]_users
=============================================================================
