--------------------------- MODULE BoardRegisters ---------------------------
(***************************************************************************)
(* The registers of the boards, and what their setters and getters do with *)
(* the bits: first the Wishbone registers of a readout unit, module by     *)
(* module, then the registers of the cards in this computer, the FELIX     *)
(* card and the common readout unit (CRU), with the setters of the support *)
(* software.  Each read and each write of a card goes to it at once, and   *)
(* no lock is taken between them.                                          *)
(*                                                                         *)
(* The links of a card are bounded: it has the three links of Links, and   *)
(* an object is about two of them.                                         *)
(***************************************************************************)
EXTENDS RegisterBank

-----------------------------------------------------------------------------
\* trigger_handler
TriggerHandlerControl ==
  {R("enable", \h00, 0, 1), R("packer 0", \h07, 0, 1), R("packer 1", \h08, 0, 1),
   R("packer 2", \h09, 0, 1), Positive(R("trigger_period", \h01, 0, 12)),
   R("pulse_ntrigger", \h02, 0, 1), R("trigger_minimum_distance", \h03, 0, 16),
   R("trigger_delay", \h06, 0, 9)}

TriggerHandlerMode ==
  {Status("operating_mode", \h04, 0, 3), Status("is_ro_no_det", \h04, 3, 1),
   R("opcode_gating", \h05, 0, 1), R("trigger_source", \h0A, 0, 1)}

\* Both refuse to run in the wrong state of the trigger handler.
TriggerHandlerResets ==
  LET reset == R("reset_readout_master", \h16, 0, 1)
  IN {reset, Stepwise(Pulse([reset EXCEPT !.needs = {<<\h04, 3>>}])),
      Stepwise(Pulse([R("flush_fifo", \h17, 0, 1) EXCEPT
        !.forbids = {<<\h00, 0>>} \cup {<<\h0E, b>> : b \in 0..15}])),
      Status("is_fifo_empty", \h1C, 0, 3)}

Orbits ==
  {StatusWords("sox_orbit", <<\h0B, \h21, \h0C>>, 48), StatusWords("eox_orbit", <<\h1D, \h20, \h1E>>, 48)}

\* enable_timebase_sync(correction) writes 1 or 3.
Timebase == {R("timebase_sync", \h0E, 0, 2), Status("is_timebase_synced", \h0F, 0, 1)}

\* The number of time frames and the bit for infinitely many share a
\* register, and the setter of either clears the other.  The getter of the
\* number is left out: it returns the bit.
Sequencer ==
  {R("sequencer", \h10, 0, 1), R("sequencer mode", \h11, 0, 1),
   Clears(R("timeframes", \h12, 0, 9), {"infinite"}),
   Clears(R("infinite", \h12, 9, 1), {"timeframes"}),
   R("hba_per_timeframe", \h13, 0, 9), Positive(R("sequencer trigger_period", \h15, 0, 12)),
   R("sequencer trigger_mode", \h14, 0, 1), Positive(R("hb_per_timeframe", \h0D, 0, 9)),
   R("ignore_trg_in_cont_mode", \h18, 0, 1),
   Words("internal_trigger_grant", <<\h19, \h1A, \h1B>>, 48)}

-----------------------------------------------------------------------------
\* ru_readout_master.  The last number of lanes is 28.
EnabledLanes ==
  {R("ib_enabled_lanes", 0, 0, 16), Words("ob_enabled_lanes", <<1, 2>>, 28)}
NokLanesNumber == {[R("max_nok_lanes_number", 3, 0, 5) EXCEPT !.refuses = {0..4}]}
LaneStatus ==
  {Status("ib_faulty_lanes", 4, 0, 16), StatusWords("ob_faulty_lanes", <<5, 6>>, 28),
   Status("FERO_OKAY", 7, 0, 1), Status("NO_PENDING_DETECTOR_DATA", 7, 1, 1),
   Status("NO_PENDING_LANE_DATA", 7, 2, 1),
   Status("ib_nok_lanes", 8, 0, 16), StatusWords("ob_nok_lanes", <<9, 10>>, 28)}

-----------------------------------------------------------------------------
\* ru_transceiver: all lanes at once, or the lanes a front-end object is
\* about and the others kept.
OnLanes(q, lanes) == {Flags(q), Lanes(q, {0}), Lanes(q, lanes)}

GthFrontend ==
  OnLanes(R("enable_alignment", 0, 0, 9), {0, 8}) \cup OnLanes(R("enable_data", 2, 0, 9), {0, 8})
  \cup OnLanes(R("enable_prbs", 7, 0, 9), {0, 8})
  \cup {Pulse(R("gth_reset", 5, 0, 16)), Pulse(R("reset_prbs_counter", 8, 0, 9)),
        Status("is_aligned", 1, 0, 9), Status("is_cdr_locked", 6, 0, 9), Status("is_reset_done", 6, 15, 1)}

GpioFrontend ==
  OnLanes(Words("enable_alignment", <<0, 1>>, 28), {1, 27})
  \cup OnLanes(Words("enable_realign", <<4, 5>>, 28), {1, 27})
  \cup OnLanes(Words("enable_data", <<6, 7>>, 28), {1, 27})
  \cup OnLanes(Words("enable_prbs", <<11, 12>>, 28), {1, 27})
  \cup {StatusWords("is_aligned", <<2, 3>>, 28), R("idelay", 8, 0, 9),
        Pulse(Words("idelay_load", <<9, 10>>, 28)), Pulse(Words("reset_prbs_counter", <<16, 15>>, 28)),
        Masked(Stepwise(Words("input_inverter", <<13, 14>>, 32)))}

-----------------------------------------------------------------------------
\* ru_data_lane
DataLane ==
  {Words("detector_timeout", <<0, 1>>, 32), R("strip_data_control", 2, 0, 1), R("suppress_empty_control", 3, 0, 1)}

\* One error signature and one debug fifo for each of 28 lanes.
LaneDebug ==
  {Status("error_signature", 4 + lane, 0, 16) : lane \in {0, 27}}
  \cup {Status("data", 32 + lane, 0, 8) : lane \in {0, 27}} \cup {Status("byte_err", 32, 8, 1),
   Status("lane_nok", 32, 9, 1), Status("empty", 32, 15, 1)}

\* ru_gbt_packer
PackerTimeouts ==
  {R("timeout_to_start", 0, 0, 16), R("timeout_start_stop", 1, 0, 16), R("timeout_in_idle", 2, 0, 16)}
PackerControl ==
  LET reset == R("reset", 3, 0, 1)
  IN {reset, Stepwise(Pulse(reset)), Status("gbtx_fifo_empty", 4, 0, 3), Status("lane_fifo_empty", 5, 0, 1),
      R("protocol_config", 6, 0, 2), R("skip_its_payload", 7, 0, 1), R("data_exclusive_packet", 8, 0, 1)}

------------------------------------------------------------------------------
(***************************************************************************)
(* The registers of a readout unit that are not about the readout itself:  *)
(* identity, clocks, resets, its CAN bus and USB interfaces, the power of  *)
(* a chip on the bench, and the board that takes the place of the CRU.     *)
(***************************************************************************)
\* ws_identity.  The identifier of a front-end board is set with switches:
\* the layer in the upper bits, the stave below.
Identity ==
  {StatusWords("git_hash", <<0, 1>>, 32), Status("os", 5, 0, 16), Status("fee_id", 6, 2, 8),
   Status("will_be_programmed", 6, 0, 1), StatusWords("dna", <<8, 9, 10, 11, 12, 13>>, 96),
   StatusWords("uptime", <<14, 15, 16>>, 48), StatusWords("time_since_reset", <<17, 18, 19>>, 48)}

\* ws_clock_health_status
ConfigReset ==
  LET kept(q) == [q EXCEPT !.keeps = {0, 1}]
  IN {kept(R("enable_th", 1, 0, 1)), kept(R("sox", 1, 1, 1)), R("config_reset", 1, 0, 2)}
ClockHealthFlags ==
  {R("reset_clock_health_flags", 0, 0, 1), Status("jitter_cleaner_los", 2, 0, 1),
   Status("jitter_cleaner_lol", 2, 1, 1), Status("lol_timebase", 2, 2, 1), Status("xcku_clock_lol", 2, 3, 1)}
ClockTimestamps ==
  {StatusWords("timebase_event_uptime", <<3, 4, 5>>, 48), StatusWords("clk_event_uptime", <<6, 7, 8>>, 48),
   StatusWords("timebase_event_orbit", <<9, 14, 10>>, 48), StatusWords("clk_event_orbit", <<11, 13, 12>>, 48)}

\* ws_system_reset_control: an address for each reset.
SystemResets == {[R("reset", a, 0, 1) EXCEPT !.flag = TRUE, !.refuses = {{}}] : a \in 0..15}

\* ws_can_hlp
CanHlpControl ==
  LET kept(q) == [q EXCEPT !.keeps = {0, 1, 2}]
  IN {R("control_reg", 0, 0, 3), kept(R("triple_sampling", 0, 0, 1)),
      kept(R("retransmit", 0, 1, 1)), kept(R("test_mode", 0, 2, 1))}
CanHlpTiming ==
  {R("clock_scale", 6, 0, 8), Unary(R("prop_segment", 2, 0, 16)), Unary(R("phase_segment1", 3, 0, 16)),
   Unary(R("phase_segment2", 4, 0, 16))}
CanHlpStatus ==
  {Status("error_state", 1, 0, 3), Status("can_rx", 1, 3, 1), Status("can_tx", 1, 4, 1),
   Status("transmit_errors", 7, 0, 16), Status("receive_errors", 8, 0, 16),
   Status("hlp_fsm", 10, 0, 4), Status("can_rx_fsm", 10, 4, 5), Status("can_tx_fsm", 10, 9, 6)}

\* ws_usb_if.  The setter of one producer writes the other back as the
\* getter returned it, with three of its four bits; there are no ports 13, 14.
DataProducers ==
  LET port(name, low, other) ==
        [R(name, 7, low, 4) EXCEPT !.get = Field(7, low, 3), !.keeps = other..(other + 2),
                                   !.refuses = {{0, 2, 3}, {1, 2, 3}}]
  IN {port("dp2", 0, 8), port("dp3", 8, 0)}
UsbWords ==
  {StatusWords("dp2_words", <<2, 1>>, 32), Status("dp2_overflow", 3, 0, 16), StatusWords("dp3_words", <<5, 4>>, 32),
   Status("dp3_overflow", 6, 0, 16), StatusWords("dp2_rdwords", <<9, 8>>, 32), Status("dp2_full", 10, 0, 16),
   StatusWords("dp3_rdwords", <<12, 11>>, 32), Status("dp3_full", 13, 0, 16)}

\* ru_chip_power
EnableVoltages ==
  {R("both", 0, 0, 2), Kept(R("AVDD", 0, 0, 1)), Kept(R("DVDD", 0, 1, 1))}
SetVoltages == {R("avdd_step", 2, 0, 16), R("dvdd_step", 3, 0, 16), Status("voltage_writes", 1, 0, 2)}

\* ws_gbt_word_inject
InjectedWord == {Words("gbt", <<0, 1, 2, 3, 4>>, 80), R("execute", 5, 0, 3)}
TriggerTrain == {Words("train", <<6, 7, 10, 8, 11, 9>>, 96), R("execute", 5, 0, 3)}

\* RUv0_CRU in ru_board
GbtFpga ==
  {Words("fifo", <<11, 12, 13, 14, 15>>, 80), R("test_pattern", 2, 0, 3), R("counter_resets", 3, 0, 16),
   R("forward_to_usb", 4, 0, 1), R("control_resets", 0, 0, 7)}
GbtFpgaCounters ==
  {StatusWords("tx", <<9, 10>>, 32), StatusWords("sop", <<11, 12>>, 32), StatusWords("eop", <<13, 14>>, 32),
   StatusWords("rx_swt", <<15, 16>>, 32), StatusWords("tx_swt", <<17, 18>>, 32), StatusWords("data_valid", <<19, 20>>, 32)}
  \cup {StatusWords("swt_mismatch", <<21 + 2 * i, 22 + 2 * i>>, 32) : i \in 0..3}

-----------------------------------------------------------------------------
\* The cards
Links == <<0, 1, 13>>
Selected == <<0, 13>>

\* A number as a set of bits, and a register that is written whole.
Bits(n) == {b \in 0..29 : (n \div 2^b) % 2 = 1}
Whole(name, addr) == R(name, addr, 0, 32)
\* The registers at `addrs`, each of them written whole with one of `values`.
WholeEach(name, addrs, values) ==
  LET q == Repeated(name, [i \in DOMAIN addrs |-> <<addrs[i], 0>>], 32)
  IN [q EXCEPT !.keeps = {}, !.turns = <<>>, !.given = {{b \in q.only : (b % 32) \in v} : v \in values}]
\* A value that is only ever one of these numbers.
OneOf(q, numbers) == [q EXCEPT !.given = {Bits(n) : n \in numbers}]

-----------------------------------------------------------------------------
\* FELIX
FlxMux == {Masked(Repeated("mux", [i \in DOMAIN links |-> <<\h5720, links[i]>>], 1)) : links \in {Links, Selected}}

FlxDataEmulators ==
  {Flags(R("rx data emulator", \h5700, 0, 48)), Flags(R("tx data emulator", \h5710, 0, 48))}

\* The run mode, always through idle and always written whole, with the bit
\* for the orbits of the global timing module.
FlxEmulatorModes ==
  {R("reset", \hE410, 0, 1), OneOf(R("run mode", \hE460, 0, 3), {0, 1, 2, 3, 4, 5, 6})}

FlxEmulatorPeriods ==
  {[OneOf(R("bcmax", \hE420, 0, 12), {0, 3563, 3564}) EXCEPT !.refuses = {Bits(3564)}],
   R("hbmax", \hE430, 0, 16),
   [R("hbkeep", \hE440, 0, 16) EXCEPT !.refuses = {Bits(0), Bits(1)}],
   [R("hbdrop", \hE450, 0, 16) EXCEPT !.refuses = {Bits(0), Bits(1)}],
   R("physdiv", \hE470, 0, 28)}

FlxOrbit == {R("use_gtm_orbit", \hE490, 0, 1)}

-----------------------------------------------------------------------------
\* CRU: the links of the two GBT wrappers, six in each of two banks.  The
\* banks take turns in the numbering.
LinkRegister(wrapper, bank, link, offset) ==
  \h400000 + \h100000 * wrapper + \h20000 * (bank + 1) + \h2000 * (link + 1) + offset
Position(l, bank) == (l - bank * 6) * 2 + 12 * (bank \div 2) + (bank % 2)
LinkAt(i) ==
  CHOOSE x \in [wrapper : 0..1, bank : 0..1, link : 0..5] : i = 12 * x.wrapper + Position(6 * x.bank + x.link, x.bank)
Of(links, offset) ==
  [i \in DOMAIN links |-> LET x == LinkAt(links[i]) IN LinkRegister(x.wrapper, x.bank, x.link, offset)]
InLinks(links, offset, low) == [i \in DOMAIN links |-> <<Of(links, offset)[i], low>>]

Source == \h30
TxCtrl == \h2C
RxCtrl == \h3C

\* The error counters are cleared by a bit of the source register.
CountersReset == {AllToggled(Repeated("cntrst", InLinks(Selected, Source, 6), 1))}

\* The generator's two bits, link by link; the loop-back of all links; the
\* masks, that only the last link gets.
LinkControl ==
  LET last == Of(<<13>>, 0)[1]
      generator == [i \in 1..(2 * Len(Selected)) |->
                      <<Of(Selected, Source)[(i + 1) \div 2], IF i % 2 = 1 THEN 1 ELSE 2>>]
  IN {Repeated("internal_data_generator", generator, 1),
      AllToggled(Repeated("reset", InLinks(Selected, Source, 0), 1)),
      Given(Repeated("8 bit counter", <<<<\h400008, 7>>, <<\h500008, 7>>>>, 1), {{0, 1}}),
      Quantity("mask", [b \in 0..95 |-> <<last + \h28 - 4 * (b \div 32), b % 32>>],
               <<last + \h20, last + \h24, last + \h28>>, 96),
      Repeated("patternmode", InLinks(Selected, Source, 5), 1),
      Repeated("loopback", InLinks(Links, Source, 4), 1),
      Repeated("use_ddg_shortcut", InLinks(Selected, RxCtrl, 16), 1)}

LinkModes ==
  {Repeated("txmode", InLinks(Selected, TxCtrl, 8), 1), Repeated("rxmode", InLinks(Selected, RxCtrl, 8), 1)}

\* The sources with the generator on and everything else off.
LinkInit ==
  {WholeEach("init source", Of(Selected, Source), {Bits(6)}),
   WholeEach("init tx", Of(Selected, TxCtrl), {{}}), WholeEach("init rx", Of(Selected, RxCtrl), {{}}),
   Given(Repeated("init 7", InLinks(Selected, \h1000 + 4 * 7, 2), 1), {{}}),
   Given(Repeated("init A", InLinks(Selected, \h1000 + 4 * 10, 4), 1), {{}})}

\* The transmit multiplexer: four bits for each link, eight links to a
\* register.  The getters are left out: they look elsewhere.
TxMux ==
  {Repeated("mux", [i \in DOMAIN links |-> <<\h1C + 4 * (links[i] \div 8), 4 * (links[i] % 8)>>], 4) :
     links \in {Links, Selected}}

-----------------------------------------------------------------------------
\* CRU: the emulator of the trigger processor.  Its mode goes through idle; a
\* reset writes the whole register.
RunMode == \h280010
EmulatorModes ==
  LET mode == R("mode", RunMode, 0, 2)
  IN {OneOf(Through(mode, Bits(3)), {0, 1, 2}), Kept(OneOf(mode, {3})),
      Clears(OneOf(mode, {3}), {"flow control", "manual trigger"}),
      Kept(R("reset", \h280000, 31, 1)), Toggled(R("manual trigger", RunMode, 8, 1)),
      Masked(Kept(R("flow control", RunMode, 2, 1)))}

EmulatorPeriods ==
  {[OneOf(R("bcmax", \h280004, 0, 12), {0, 3563, 3564}) EXCEPT !.refuses = {Bits(3564)}],
   R("hbmax", \h280008, 0, 16),
   [R("prescaler", \h28000C, 0, 32) EXCEPT !.given = {Bits(2) \cup {17}, 0..31, {0, 17}, {1, 16}},
                                          !.refuses = {{0, 17}, {1, 16}}],
   R("physdiv", \h280014, 0, 28), R("caldiv", \h280020, 0, 28), R("hcdiv", \h280018, 0, 28)}

\* The heartbeat period wraps one before it, and so does that of the physics
\* triggers, which is at least 8.
EmulatorConfigured ==
  LET AtLeast7(n) == IF n < 7 THEN 7 ELSE n
  IN {OneOf(R("bcmax", \h280004, 0, 12), {n - 1 : n \in {1, 3564}}),
      OneOf(R("physdiv", \h280014, 0, 28), {AtLeast7(n - 1) : n \in {0, 8, 9}})}

DownstreamData == {Kept(OneOf(R("downstream", \h200000, 16, 2), {0, 1, 2}))}

-----------------------------------------------------------------------------
\* CRU: the data path wrappers.
Wrappers == <<\h600000, \h700000>>
\* A mask is written whole, a link is added, and the bit for dynamic offsets
\* is set apart.
EnabledDataLinks ==
  {Clears(Flags(R("links", w, 0, 12)), {"dynamic offset"}) : w \in {Wrappers[1]}}
  \cup {Given(Lanes(R("links", Wrappers[1], 0, 12), {3}), {{3}})}
DynamicOffset == {Kept(R("dynamic offset", Wrappers[1], 31, 1))}

\* The maximal length and the bit for packets.
DatapathLinks ==
  {[R("datapath link", Wrappers[1] + \h40000 + \h2000 * link, 0, 32) EXCEPT
      !.given = {Bits(508), Bits(490) \cup {31}, Bits(509)}, !.refuses = {Bits(509)}] : link \in {0, 11}}

FlowControl == {R("flow control", w + \hC0000, 0, 1) : w \in ToSet(Wrappers)}
TriggerWindow == {R("trigger window", w + \h34, 0, 12) : w \in ToSet(Wrappers)}

\* The same for both wrappers.
DataGenerator ==
  LET Both(low) == <<<<Wrappers[1] + 4, low>>, <<Wrappers[2] + 4, low>>>>
      Bit1(name, low) == Repeated(name, Both(low), 1)
  IN {AllToggled(Bit1("reset", 0)), Bit1("enable", 1), AllToggled(Bit1("inject error", 2)),
      Bit1("random writes", 8), Repeated("write period", Both(4), 4), Bit1("source", 31)}

-----------------------------------------------------------------------------
\* CRU: the board support
UserCtrl == \h18
RunEnable == {Kept(R("run", UserCtrl, 0, 1))}
ClockTreeReset ==
  {Kept(OneOf(R("run", UserCtrl, 0, 1), {0})), Toggled(R("onu reset", \h22A000, 0, 1)),
   Toggled(R("core reset", UserCtrl, 1, 1))}
CruId == {Kept(R("cru id", UserCtrl, 16, 12))}
LedBlink == {Toggled(R("led", UserCtrl, 3, 4))}

\* CRU: the user logic
UserLogic == \hC00000
UserLogicCommon ==
  {Whole("select", UserLogic + \hFD004), Whole("reset", UserLogic + \hFD008),
   Pulse(OneOf(R("reset", UserLogic + \hFD008, 0, 32), {255}))}

------------------------------------------------------------------------------
(***************************************************************************)
(* The older library for the common readout unit, COMMON/LIB.  Most of its *)
(* setters are those of the support software; the pattern player, the      *)
(* optical network unit and the data generator are only here.              *)
(***************************************************************************)
\* GBT
LibLinkRegister(wrapper, bank, link, offset) == LinkRegister(wrapper, bank, link, offset)
LibCountersReset == CountersReset
LibLinkControl == LinkControl
LibLinkModes == LinkModes
LibLinkInit == LinkInit

\* DWRAPPER
LibEnabledDataLinks == EnabledDataLinks \cup DynamicOffset
LibDatapathLinks == DatapathLinks \cup FlowControl \cup TriggerWindow
LibDataGenerator == DataGenerator

\* BSP
LibClockTreeReset == RunEnable \cup ClockTreeReset
LibCruId == CruId \cup LedBlink

-----------------------------------------------------------------------------
\* TTC: the clock and the source of the data.
GlobalClock ==
  {OneOf(Whole("lock to reference", \h220000), {0}), Kept(OneOf(R("select data", \h200000, 0, 2), {0, 2}))}

\* The phase scan of the transmit clock, automatic or by steps that write
\* the whole register, and the address of the unit.
PonTx ==
  LET ctrl == R("phase scan", \h240018, 0, 32)
  IN {Kept(R("automatic", \h240018, 0, 1)), OneOf(ctrl, {2^21}),
      Masked(Kept(R("onu address", \h22A000, 1, 8)))}
OnuReset == {Toggled(R("onu reset", \h22A000, 0, 1))}

LibDownstreamData == DownstreamData
RefGen == {Given(Whole("refgen", \h222048), {{31} \cup Bits(n) : n \in 0..3})}
ResetFpll == {Toggled(R("reset fpll", \h240010, 24, 1))}
LibEmulator == EmulatorModes \cup EmulatorPeriods

-----------------------------------------------------------------------------
\* TTC: the pattern player.  Bit 0 of its configuration is set while a
\* function changes the patterns.
PatternConfig == {Toggled(R("configuring", \h260000, 0, 1))}
Patterns ==
  {Masked(Quantity(p[1], [b \in 0..79 |-> <<p[2] + 4 * (b \div 32), b % 32>>], <<p[2], p[2] + 4, p[2] + 8>>, 80)) :
     p \in {<<"idle", \h260004>>, <<"sync", \h260010>>, <<"reset", \h26001C>>}}
PatternLengths ==
  {Whole("sync", \h260028), Whole("delay", \h26002C), Whole("reset", \h260030), Whole("trigsel", \h260034)}
PatternTriggers ==
  {Kept(R("sync at start", \h260000, 12, 1)), Toggled(R("reset", \h260000, 4, 1)),
   Toggled(R("sync", \h260000, 8, 1))}

-----------------------------------------------------------------------------
\* DDG, the data generator of the detector
DdgControl ==
  {Toggled(R("reset", \hD00000, 31, 1)), Kept(R("stream", \hD00000, 0, 1)), Kept(R("tpc emulator", \hD00000, 16, 1))}
DdgTrigger == {Whole("trigger mask", \hD0000C), Kept(R("pause", \hD00000, 8, 1))}
=============================================================================
