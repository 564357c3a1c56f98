---------------------------- MODULE MinipodPrograms ----------------------------
(***************************************************************************)
(* What the programs read that monitor the optical modules of a common     *)
(* readout unit (cru-sw, I2C/sw/minipod), in order: the classes Minipod    *)
(* and MinipodTx, their tables, and the two scripts they replaced.         *)
(*                                                                         *)
(* A module has 256 registers; the upper half shows page 0 or page 1.  A   *)
(* register holds the set of its bits that are 1.                          *)
(***************************************************************************)
EXTENDS Integers, Sequences, TLC

-----------------------------------------------------------------------------
\* What a program does: choose a page, read registers, read and check
\* registers, print.  A check is about some bits of its registers; those of
\* any of them, or those that are set in every one, have to be the good ones.
\* A register is logged when it is read, or with the last of its check.
Item(do, pg, regs) ==
  [do |-> do, page |-> pg, regs |-> regs, name |-> "", bits |-> <<>>, every |-> FALSE, good |-> {},
   log |-> "each", lookup |-> FALSE]
Page(n) == Item("page", n, <<>>)
Run(first, last) == [i \in 1..(last - first + 1) |-> first + i - 1]
Plain(pg, first, last) == Item("read", pg, Run(first, last))
Unlogged(pg, first, last) == [Plain(pg, first, last) EXCEPT !.log = "no"]
Check(name, pg, first, bits, every, good) ==
  [Item("check", pg, Run(first, first + Len(bits) - 1)) EXCEPT
     !.name = name, !.bits = bits, !.every = every, !.good = good, !.log = IF every THEN "each" ELSE "end"]
Say(section) == [Item("say", 0, <<>>) EXCEPT !.name = section]

\* Twelve channels in two registers, the highest first; four bits of two
\* channels in each of six; a code of two channels in each of some.
HighLow == {2, 3, 6, 7}
All == 0..7
Same(n, bits) == [i \in 1..n |-> bits]
Channels(name, pg, first) == Check(name, pg, first, <<0..3, 0..7>>, FALSE, {})
Six(name, pg, first, bits) == Check(name, pg, first, Same(6, bits), TRUE, {})
Codes(name, first, last, good) == Check(name, 1, first, Same(last - first + 1, All), TRUE, good)
Lookup(c) == [c EXCEPT !.lookup = TRUE]
Limits(name, first) == Check(name, 0, first, <<{6, 7}, HighLow>>, FALSE, {})
OneRegister(name, reg, bits) == Check(name, 0, reg, <<bits>>, FALSE, {})
IntlMode == Check("intl mode", 1, 225, <<{0}>>, FALSE, {0})

-----------------------------------------------------------------------------
\* The sections of both classes.
minipodBasics == <<Plain(0, 128, 137), Unlogged(0, 152, 156), Unlogged(0, 176, 178)>>
minipodFeatures == <<Plain(0, 138, 143)>>
formatVendorDetails == <<Unlogged(0, 152, 222), Unlogged(0, 224, 253)>>

\* A receiver.
RxThresholds ==
  <<Page(1), Plain(1, 128, 131), Plain(1, 144, 147), Plain(1, 152, 155), Plain(1, 184, 187), Page(0)>>
RxParameters == <<Plain(0, 28, 29), Plain(0, 32, 35), Plain(0, 64, 89)>>
RxFlags == <<Channels("los", 0, 9), Limits("limits", 13), Six("power", 0, 22, HighLow), Say("flags")>>
\* The seventh register of the amplitudes is the first of the de-emphasis.
RxConfig ==
  <<Channels("output", 0, 92), Channels("squelch", 0, 94), Check("rate", 0, 96, Same(3, All), TRUE, {}),
    Page(1), IntlMode, Channels("flip", 1, 226), Lookup(Codes("amplitude", 228, 234, {2, 6})),
    Codes("de-emphasis", 235, 239, {0, 1, 4, 5}), Say("config"), Page(0)>>
RxMasks ==
  <<Channels("los mask", 0, 112), Limits("limit masks", 116),
    Page(1), Six("power mask", 1, 250, All), Say("masks"), Page(0)>>

\* A transmitter.
TxThresholds ==
  <<Page(1), Plain(1, 128, 131), Plain(1, 144, 147), Plain(1, 152, 155), Plain(1, 176, 179), Plain(1, 184, 187),
    Page(0)>>
TxParameters == <<Plain(0, 28, 29), Plain(0, 32, 35), Plain(0, 40, 63), Plain(0, 64, 89)>>
TxFlags ==
  <<Channels("los", 0, 9), Channels("fault", 0, 11), Limits("limits", 13), Six("bias", 0, 16, HighLow),
    Six("power", 0, 22, HighLow), Say("flags")>>
TxConfig ==
  <<Channels("output", 0, 92), Channels("squelch", 0, 94), Channels("margin", 0, 99),
    Page(1), IntlMode, Channels("flip", 1, 226), Lookup(Codes("equalization", 228, 233, {1, 5})),
    Say("config"), Page(0)>>
TxMasks ==
  <<Channels("los mask", 0, 112), Channels("fault mask", 0, 114), Limits("limit masks", 116),
    Page(1), Six("bias mask", 1, 244, All), Six("power mask", 1, 250, All), Say("masks"), Page(0)>>

\* The report of an object of each class.
minipodReport(thresholds, parameters, flags, config, masks) ==
  <<Page(0)>> \o minipodBasics \o minipodFeatures \o formatVendorDetails
  \o thresholds \o parameters \o flags \o config \o masks

-----------------------------------------------------------------------------
\* The tables of the log, of a receiver and of a transmitter: the bits of a
\* register that get a line.
PerRegister(regs, bits) == [r \in regs |-> bits]
TwelveOf(first) == PerRegister({first}, 0..3) @@ PerRegister({first + 1}, 0..7)
SixOf(first) == PerRegister(first..(first + 5), HighLow)

RxAlarmTable ==
  TwelveOf(9) @@ PerRegister({13}, {6, 7}) @@ PerRegister({14}, HighLow) @@ SixOf(22)
  @@ PerRegister((28..29) \cup (32..35), {})
RxSettingTable ==
  PerRegister(64..89, {}) @@ TwelveOf(92) @@ TwelveOf(94) @@ PerRegister(96..98, All) @@ TwelveOf(112)
  @@ PerRegister({116}, {6, 7}) @@ PerRegister({117}, {6, 7})
RxInfoTable == PerRegister(128..143, All)
RxUpperTable ==
  PerRegister((128..131) \cup (144..147) \cup (152..155) \cup (184..187), {}) @@ PerRegister({225}, {0})
  @@ TwelveOf(226) @@ PerRegister(228..239, {}) @@ SixOf(250)

TxAlarmTable ==
  TwelveOf(9) @@ TwelveOf(11) @@ PerRegister({13}, {6, 7}) @@ PerRegister({14}, HighLow) @@ SixOf(16) @@ SixOf(22)
  @@ PerRegister((28..29) \cup (32..35), {})
TxMonitorTable == PerRegister((40..63) \cup (64..89), {}) @@ TwelveOf(92) @@ TwelveOf(94) @@ TwelveOf(99)
TxMaskTable ==
  TwelveOf(112) @@ TwelveOf(114) @@ PerRegister({116}, {6, 7}) @@ PerRegister({117}, {6, 7})
TxInfoTable == PerRegister(128..143, All)
TxLimitTable ==
  PerRegister((128..131) \cup (144..147) \cup (152..155) \cup (176..179) \cup (184..187), {})
  @@ PerRegister({225}, {0}) @@ TwelveOf(226) @@ PerRegister(228..233, {})
TxUpperMaskTable == SixOf(244) @@ SixOf(250)

Tables ==
  [RX |-> <<RxAlarmTable @@ RxSettingTable @@ RxInfoTable, RxUpperTable>>,
   TX |-> <<TxAlarmTable @@ TxMonitorTable @@ TxMaskTable @@ TxInfoTable, TxLimitTable @@ TxUpperMaskTable>>]

-----------------------------------------------------------------------------
\* The scripts print a check at once, and log every register when it is read.
Told(c) == <<[c EXCEPT !.log = "each"], Say(c.name)>>

\* txmp.py
TxmpVendor == formatVendorDetails
TxmpFeatures == minipodFeatures
TxmpBasics == <<Plain(0, 128, 137)>>
TxmpMonitors == <<Plain(0, 28, 29), Plain(0, 32, 35)>>
TxmpBiases == <<Plain(0, 40, 63)>>
TxmpPowers == <<Plain(0, 64, 87)>>
TxmpTime == <<Plain(0, 88, 89)>>
TxmpLos == Told(Channels("los", 0, 9))
TxmpFault == Told(Channels("fault", 0, 11))
TxmpTemperature == Told(OneRegister("temperature", 13, {6, 7}))
TxmpVoltage == Told(OneRegister("voltage", 14, HighLow))
TxmpBias == Told(Six("bias", 0, 16, HighLow))
TxmpPower == Told(Six("power", 0, 22, HighLow))
TxmpThresholds == TxThresholds
TxmpOutput == Told(Channels("output", 0, 92))
TxmpSquelch == Told(Channels("squelch", 0, 94))
TxmpMargin == Told(Channels("margin", 0, 99))
TxmpIntl == <<Page(1)>> \o Told(IntlMode)
TxmpFlip == Told(Channels("flip", 1, 226))
TxmpEqualization == Told(Codes("equalization", 228, 233, {1, 5})) \o <<Page(0)>>
TxmpLosMask == Told(Channels("los mask", 0, 112))
TxmpFaultMask == Told(Channels("fault mask", 0, 114))
TxmpTemperatureMask == Told(OneRegister("temperature mask", 116, {6, 7}))
TxmpVoltageMask == Told(OneRegister("voltage mask", 117, HighLow)) \o <<Page(1)>>
TxmpBiasMask == Told(Six("bias mask", 1, 244, HighLow))
TxmpPowerMask == Told(Six("power mask", 1, 250, HighLow)) \o <<Page(0)>>
Txmp ==
  <<Page(0)>> \o TxmpBasics \o TxmpFeatures \o TxmpVendor \o TxmpThresholds
  \o TxmpMonitors \o TxmpBiases \o TxmpPowers \o TxmpTime
  \o TxmpLos \o TxmpFault \o TxmpTemperature \o TxmpVoltage \o TxmpBias \o TxmpPower
  \o TxmpOutput \o TxmpSquelch \o TxmpMargin \o TxmpIntl \o TxmpFlip \o TxmpEqualization
  \o TxmpLosMask \o TxmpFaultMask \o TxmpTemperatureMask \o TxmpVoltageMask \o TxmpBiasMask \o TxmpPowerMask

\* rxmp.py
RxmpVendor == formatVendorDetails
RxmpFeatures == minipodFeatures
RxmpBasics == <<Plain(0, 128, 137)>>
RxmpMonitors == <<Plain(0, 28, 29), Plain(0, 32, 35)>>
RxmpPowers == <<Plain(0, 64, 87)>>
RxmpTime == <<Plain(0, 88, 89)>>
RxmpLos == Told(Channels("los", 0, 9))
RxmpTemperature == Told(OneRegister("temperature", 13, {6, 7}))
RxmpVoltage == Told(OneRegister("voltage", 14, HighLow))
RxmpPower == Told(Six("power", 0, 22, HighLow))
RxmpThresholds == RxThresholds
RxmpOutput == Told(Channels("output", 0, 92))
RxmpSquelch == Told(Channels("squelch", 0, 94))
RxmpRate == Told(Check("rate", 0, 96, Same(3, All), TRUE, {}))
RxmpIntl == <<Page(1)>> \o Told(IntlMode)
RxmpFlip == Told(Channels("flip", 1, 226))
RxmpAmplitude == Told(Codes("amplitude", 228, 233, {2, 6}))
RxmpDeemphasis == Told(Codes("de-emphasis", 234, 239, {0, 1, 4, 5})) \o <<Page(0)>>
RxmpLosMask == Told(Channels("los mask", 0, 112))
RxmpTemperatureMask == Told(OneRegister("temperature mask", 116, {6, 7}))
RxmpVoltageMask == Told(OneRegister("voltage mask", 117, HighLow)) \o <<Page(1)>>
RxmpPowerMask == Told(Six("power mask", 1, 250, HighLow)) \o <<Page(0)>>
Rxmp ==
  <<Page(0)>> \o RxmpBasics \o RxmpFeatures \o RxmpVendor \o RxmpThresholds
  \o RxmpMonitors \o RxmpPowers \o RxmpTime
  \o RxmpLos \o RxmpTemperature \o RxmpVoltage \o RxmpPower
  \o RxmpOutput \o RxmpSquelch \o RxmpRate \o RxmpIntl \o RxmpFlip \o RxmpAmplitude \o RxmpDeemphasis
  \o RxmpLosMask \o RxmpTemperatureMask \o RxmpVoltageMask \o RxmpPowerMask

\* mp-temp.py and mprx-opt-pwr.py, once they have an object.
TemperatureScript == <<Plain(0, 28, 29)>>
PowerScript == <<Unlogged(0, 64, 87)>>

Program ==
  ("RX" :> minipodReport(RxThresholds, RxParameters, RxFlags, RxConfig, RxMasks))
  @@ ("TX" :> minipodReport(TxThresholds, TxParameters, TxFlags, TxConfig, TxMasks))
  @@ ("rxmp" :> Rxmp) @@ ("txmp" :> Txmp)
  @@ ("temperature" :> TemperatureScript) @@ ("powers" :> PowerScript)
=============================================================================
