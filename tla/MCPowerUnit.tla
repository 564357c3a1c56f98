---------------------------- MODULE MCPowerUnit ----------------------------
(* Two modules on the first expander, one linked to a bias channel and one  *)
(* in no group, as the eighth module outside the middle barrel.             *)
EXTENDS PowerUnit

MCGroup == [c \in Channel |-> {c}]
MCLists == {<<1, 2>>}
=============================================================================
