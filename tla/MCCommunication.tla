---------------------------- MODULE MCCommunication ----------------------------
(***************************************************************************)
(* One transport object at a time: one of the base class, or one that      *)
(* prefetches.                                                             *)
(***************************************************************************)
EXTENDS CommBuffer, TLC

CONSTANTS a1, a2, d1, d2, Reset, Unknown

VARIABLES
  which,    \* the class of the object
  recording, sequence, pre, recorded, exch, prefetching, wb, ref, sure, sound, pos, rounds

P == INSTANCE Prefetch WITH Addr <- {a1, a2}, Data <- {d1, d2}, MaxRetries <- 1,
       MaxFlush <- 2, MaxCmds <- 5, MaxRounds <- 2

ASSUME P!PrefetchAssumption

base == <<buffer, readBytes, pending, call, sent, registered, unread, result, failed, raws>>
prefetch == <<recording, sequence, pre, recorded, exch, prefetching, wb, ref, sure, sound, pos, rounds>>

MCInit == which \in {"Communication", "PrefetchCommunication"} /\ Init /\ P!Init
MCNext ==
  \/ which = "Communication" /\ Next /\ UNCHANGED <<which, prefetch>>
  \/ which = "PrefetchCommunication" /\ P!Next /\ UNCHANGED <<which, base>>
MCSpec == MCInit /\ [][MCNext]_<<vars, which, prefetch>>

Symmetry == Permutations({a1, a2}) \cup Permutations({d1, d2})

-----------------------------------------------------------------------------
\* PrefetchCommunication: every exchange gets the answers of its own reads,
\* prefetched or not, and a register holds what the program wrote to it last,
\* unless the sequence writes it ahead of the program.
Prefetched == P!ResultsMatch /\ P!WritesArrive
=============================================================================
