----------------------------- MODULE MCRegisters -----------------------------
(***************************************************************************)
(* The registers of every module, one register, or the registers of one    *)
(* wide quantity, with all its quantities at a time; the registers of one  *)
(* transceiver during an eye scan; those of two optical modules; or those  *)
(* of a GBTx chip.                                                         *)
(***************************************************************************)
EXTENDS BoardRegisters, GthDrp

\* The quantities that share registers with q.
Neighbours(module, q) == {p \in module : AllAddrs(p) \cap AllAddrs(q) # {}}

\* A register of the readout unit has 16 bits and a register of a card 64;
\* the commands to a readout unit may wait in a buffer and a flush may raise.
RuCase(quantities, n, ups, consoles) ==
  [quantities |-> quantities, calls |-> n, upsets |-> ups, consoles |-> consoles,
   width |-> 16, commits |-> BOOLEAN]
CardCase(quantities, n, consoles) ==
  [quantities |-> quantities, calls |-> n, upsets |-> 0, consoles |-> consoles,
   width |-> 64, commits |-> {TRUE}]

SettableOf(module) == {q \in module : Settable(q)}
RuCases(module) ==
  UNION {{RuCase(Neighbours(module, q), 2, 1, {"c1"}), RuCase(Neighbours(module, q), 2, 0, {"c1", "c2"})} :
           q \in SettableOf(module)}
CardCases(module) ==
  UNION {{CardCase(Neighbours(module, q), 3, {"c1"}), CardCase(Neighbours(module, q), 2, {"c1", "c2"})} :
           q \in SettableOf(module)}

ReadoutUnit ==
  {TriggerHandlerControl \cup TriggerHandlerMode \cup TriggerHandlerResets \cup Orbits \cup Timebase \cup Sequencer,
   EnabledLanes \cup NokLanesNumber \cup LaneStatus, GthFrontend, GpioFrontend,
   DataLane \cup LaneDebug, PackerTimeouts \cup PackerControl,
   Identity, ConfigReset \cup ClockHealthFlags \cup ClockTimestamps, SystemResets,
   CanHlpControl \cup CanHlpTiming \cup CanHlpStatus, DataProducers \cup UsbWords,
   EnableVoltages \cup SetVoltages, InjectedWord \cup TriggerTrain, GbtFpga \cup GbtFpgaCounters}

Cards ==
  {FlxMux, FlxDataEmulators, FlxEmulatorModes, FlxEmulatorPeriods, FlxOrbit,
   CountersReset \cup LinkControl \cup LinkModes \cup LinkInit, TxMux,
   EmulatorModes, EmulatorPeriods \cup EmulatorConfigured, DownstreamData,
   EnabledDataLinks \cup DynamicOffset, DatapathLinks, FlowControl, TriggerWindow, DataGenerator,
   RunEnable \cup ClockTreeReset \cup CruId \cup LedBlink, UserLogicCommon}
Library ==
  {LibCountersReset \cup LibLinkControl \cup LibLinkModes \cup LibLinkInit,
   LibEnabledDataLinks \cup LibDatapathLinks \cup LibDataGenerator, LibClockTreeReset \cup LibCruId,
   GlobalClock \cup PonTx \cup OnuReset \cup LibDownstreamData \cup RefGen \cup ResetFpll \cup LibEmulator,
   PatternConfig \cup Patterns \cup PatternLengths \cup PatternTriggers, DdgControl \cup DdgTrigger}

MCConsoles == {"c1", "c2"}
MCCases == UNION {RuCases(m) : m \in ReadoutUnit} \cup UNION {CardCases(m) : m \in Cards \cup Library}

-----------------------------------------------------------------------------
VARIABLES
  which,    \* control registers, an eye scan, optical modules or a GBTx
  scan, drp, engine, prescale, vert_offset_defaults, horz_offset_defaults, writes, pc,
  ps, points, again, zero, cps, cnt, file, crashes,
  situation, page, latched, obj, prog, item, got, wrong, hand, raised, logged, missed, dropped, verdict,
  died, starts, deaths,
  usage, cells, fsm, pointer, counted, running, nth, stage, seen, ok, mixed, spoilt, found, told, ending, ncalls, faults

\* An eye by columns: the middle, where it is open, and the edges.  Points of
\* a scan with two rows above and below the middle, or with six.
EyeOf(name, pt) ==
  LET x == pt[1]
      y == pt[2]
      off == IF y < 0 THEN -y ELSE y
  IN CASE name = "open" -> "open"
       [] name = "closed" -> "closed"
       [] name = "usual" -> IF x # 0 THEN (IF off > 100 THEN "closed" ELSE "edge")
                            ELSE IF off > 100 THEN "bad" ELSE IF off > 50 THEN "edge" ELSE "open"
       [] name = "tilted" -> IF x * y > 0 THEN "open" ELSE IF x * y < 0 THEN "closed" ELSE "edge"
       [] name = "noisy" -> IF off < 60 /\ off > 10 THEN "bad" ELSE IF y = 0 THEN "edge" ELSE "open"
Scan(name, word, adaptive, v) ==
  [eye |-> name, word |-> word, adaptive |-> adaptive, h |-> 1, v |-> v, no_center |-> TRUE,
   prescale |-> 1, ber |-> 2, threshold |-> 20, range |-> 3]
EyeScans ==
  {Scan(name, 2^11 + 5, TRUE, 2) : name \in {"open", "closed", "usual", "tilted", "noisy"}}
  \cup {Scan(name, 0, FALSE, 6) : name \in {"open", "usual", "noisy"}}

E == INSTANCE EyeScan WITH Scans <- EyeScans, Shape <- EyeOf, MaxCrashes <- 1

eyescan == <<scan, drp, engine, prescale, vert_offset_defaults, horz_offset_defaults, writes, pc,
             ps, points, again, zero, cps, cnt, file, crashes>>

\* A transmitter and a receiver: settings and alarms that end a report in
\* each of its ways, or do not.
TypeOf == [tx |-> "TX", rx |-> "RX"]
MCChips == DOMAIN TypeOf
SettingsOf(n) ==
  UNION {CASE n = 1 -> {<<c, 0, 93, 5>>, <<c, 0, 97, 4>>, <<c, 1, 227, 0>>, <<c, 1, 233, 0>>, <<c, 1, 252, 2>>}
           [] n = 2 -> {<<c, 0, 94, 3>>, <<c, 1, 225, 0>>} \cup ({c} \X {1} \X (228..233) \X {1})
           [] n = 3 -> {<<c, 0, 117, 3>>, <<c, 1, 229, 7>>}
           [] n = 4 -> {<<c, 0, 117, 3>>} \cup ({c} \X {1} \X (250..255) \X {6}) : c \in MCChips}
AlarmsFor(c) ==
  {{{<<c, 9, 3>>, <<c, 10, 7>>}, {<<c, 13, 6>>, <<c, 14, 2>>}},
   {{<<c, 24, 3>>} \cup ({c} \X (22..27) \X {7})}}
TxAlarms == {{{<<"tx", 11, 0>>, <<"tx", 12, 4>>, <<"tx", 16, 2>>, <<"tx", 21, 6>>}}}
Situation(settings, alarms, limit, n) == [settings |-> settings, alarms |-> alarms, limit |-> limit, starts |-> n]
MCSituations ==
  {Situation(SettingsOf(n), {}, "other", 2) : n \in 1..4}
  \cup {Situation({}, x, "other", 1) : x \in TxAlarms \cup UNION {AlarmsFor(c) : c \in MCChips}}
  \cup {Situation({<<"tx", 0, 112, 0>>}, {}, "RX", 2)}

P == INSTANCE MinipodPrograms
MCProgram == P!Program
MCTables == P!Tables
O == INSTANCE Minipod WITH
       Chips <- MCChips, Situations <- MCSituations, Program <- MCProgram, Tables <- MCTables,
       MaxDeaths <- 1

optical == <<situation, page, latched, obj, prog, item, got, wrong, hand, raised, logged, missed, dropped,
             verdict, died, starts, deaths>>

\* Two consoles with the GBTx, over the main FPGA or the SCA, or one of them
\* and transfers that are not answered.
MCProcesses == {"console", "other"}
Use(a, b, calls_, n, f) == [master |-> [console |-> a, other |-> b], calls |-> calls_, ncalls |-> n, faults |-> f]
MCUses ==
  {Use("xcku", b, {c}, 2, 1) : b \in {"xcku", "sca"}, c \in {"reset", "charge pump", "set switches", "get switches"}}
  \cup {Use("xcku", "xcku", {"set switches", "get switches"}, 2, 0), Use("xcku", "sca", {"reset", "initialize"}, 2, 0),
        Use("xcku", "none", {"initialize"}, 2, 2), Use("xcku", "none", {"initialize, check"}, 2, 1),
        Use("sca", "none", {"initialize", "charge pump"}, 2, 1)}
G == INSTANCE Gbtx WITH Processes <- MCProcesses, Situations <- MCUses
gbtxchip == <<usage, cells, fsm, pointer, counted, running, nth, stage, seen, ok, mixed, spoilt, found, told, ending, ncalls, faults>>

AnyCase == CHOOSE c \in MCCases : \A d \in MCCases : Cardinality(c.quantities) <= Cardinality(d.quantities)
AnyScan == CHOOSE e \in EyeScans : TRUE
AnySituation == CHOOSE x \in MCSituations : TRUE
AnyUse == CHOOSE u \in MCUses : TRUE
Unused(others) ==
  /\ "registers" \in others => case = AnyCase /\ \A a \in DOMAIN reg : reg[a] = {}
  /\ "eye scan" \in others => scan = AnyScan
  /\ "optical modules" \in others => situation = AnySituation
  /\ "gbtx" \in others => usage = AnyUse /\ fsm = 0
Parts == {"registers", "eye scan", "optical modules", "gbtx"}
MCInit ==
  /\ Init /\ E!Init /\ O!Init /\ G!GInit
  /\ which \in Parts /\ Unused(Parts \ {which})
MCNext ==
  \/ which = "registers" /\ Next /\ UNCHANGED <<which, eyescan, optical, gbtxchip>>
  \/ which = "eye scan" /\ E!Next /\ UNCHANGED <<which, vars, optical, gbtxchip>>
  \/ which = "optical modules" /\ O!Next /\ UNCHANGED <<which, vars, eyescan, gbtxchip>>
  \/ which = "gbtx" /\ G!GNext /\ UNCHANGED <<which, vars, eyescan, optical>>
MCSpec == MCInit /\ [][MCNext]_<<vars, which, eyescan, optical, gbtxchip>>

\* The rows of an eye scan are true, and a finished scan is complete.
EyeScanned == E!RowsAreTrue /\ E!ScanComplete
\* What a program tells of the optical modules is true.
ReportTrue == O!ReportTrue
\* What an access to a GBTx and a function of it tell is true.
GbtxTrue == G!GbtxTrue
=============================================================================
