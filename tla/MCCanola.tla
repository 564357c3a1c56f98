------------------------------ MODULE MCCanola ------------------------------
(* Three controllers: a host that does not retransmit, with a standard      *)
(* frame before and one behind the extended frames of two units, whose      *)
(* identifiers differ only in their second part.                            *)
EXTENDS Canola
CONSTANTS h, a, b
MCMsg == {[src |-> h, ida |-> 1, ext |-> FALSE, idb |-> 0],
          [src |-> h, ida |-> 3, ext |-> FALSE, idb |-> 0],
          [src |-> a, ida |-> 2, ext |-> TRUE, idb |-> 1],
          [src |-> b, ida |-> 2, ext |-> TRUE, idb |-> 2]}
=============================================================================
