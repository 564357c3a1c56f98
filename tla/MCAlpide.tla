------------------------------ MODULE MCAlpide ------------------------------
(***************************************************************************)
(* Two chips of an inner stave, a matrix of two regions with registers of  *)
(* two bits, and the registers of both chips in turn.                      *)
(***************************************************************************)
EXTENDS Alpide

Prototype == INSTANCE Alpide3Registers

\* One register: every field on its own and all of them, every way to call.
Single(r, alpide) ==
  [regs |-> {r}, kinds |-> {"set", "get"}, calls |-> 1, upsets |-> 0, readonly |-> alpide,
   thorough |-> TRUE, ids |-> {0, 1, 15}, commits |-> BOOLEAN, readbacks |-> BOOLEAN]

\* Some registers and kinds of call: two calls every way, or three plain ones.
Two(regs, kinds, ups) ==
  [regs |-> regs, kinds |-> kinds, calls |-> 2, upsets |-> ups, readonly |-> TRUE,
   thorough |-> FALSE, ids |-> {0, 15}, commits |-> BOOLEAN, readbacks |-> BOOLEAN]
Three(regs, kinds, ups) ==
  [Two(regs, kinds, ups) EXCEPT !.calls = 3, !.ids = {0}, !.commits = {TRUE}, !.readbacks = {FALSE}]

Dtu == {dtu_test_1, dtu_test_2, dtu_test_3, dtu_dacs, dtu_pll_lock_2, dtu_cfg, mode_ctrl}

MCChips == {0, 1}
MCCases ==
  {Single(r, TRUE) : r \in AllRegisters} \cup {Single(r, FALSE) : r \in Prototype!AllRegisters}
  \cup {Two({dtu_cfg, cmu_and_dmu_cfg}, {"set", "get", "reset"}, 1),
        [Three({dtu_cfg, cmu_and_dmu_cfg}, {"set", "get", "reset"}, 1) EXCEPT !.ids = {0, 1}],
        Two({pixel_cfg}, {"matrix"}, 1), Three({pixel_cfg}, {"matrix"}, 1),
        Two(Dtu, {"link"}, 1), Three(Dtu, {"link"}, 1),
        Two({adc_ctrl, VTEMP, analog_monitor_and_override}, {"adc", "get"}, 0)}

MCSamples ==
  {<<Target("reg", 1, 0)>>, <<Target("row", 0, 3)>>, <<Target("dcol", 6, 0)>>,
   <<Target("pixel", 3, 2)>>, <<Target("pixel", 0, 0), Target("pixel", 5, 1)>>}
=============================================================================
