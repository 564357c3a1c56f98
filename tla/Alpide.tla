------------------------------- MODULE Alpide -------------------------------
(***************************************************************************)
(* The driver of the sensor chips of a stave: the classes Chip and Alpide, *)
(* and AlpideControl, the module of the readout unit whose Wishbone        *)
(* registers put reads and writes on the control line of the stave.        *)
(*                                                                         *)
(* One thread uses the driver, and a call is one action.  Inside the call  *)
(* everything happens that can go wrong between two of its steps: a flush  *)
(* raises before or after its commands went out, the answers of a read are *)
(* not fetched, a chip does not answer or answers badly (external).  The   *)
(* state of a call is a record that each step maps to the next.            *)
(*                                                                         *)
(* The chips (external) keep their registers and the matrix: a pixel whose *)
(* row and column are both selected takes over the value of pixel_cfg.     *)
(***************************************************************************)
EXTENDS AlpideRegisters, Sequences, SequencesExt

CONSTANTS
  Chips,     \* chip identifiers of an inner stave
  NRegion,   \* regions of the matrix (32)
  W,         \* rows, and double columns, of a region (16)
  Cases,     \* the registers and the calls a behaviour is about
  Samples    \* what the matrix calls address: regions, rows, columns, pixels

ASSUME AlpideAssumption ==
  /\ Chips \subseteq 0..14 /\ NRegion \in Nat \ {0} /\ W \in 1..16
  /\ \A c \in Cases : /\ c.calls \in Nat /\ c.upsets \in Nat
                      /\ c.kinds \subseteq {"set", "get", "reset", "matrix", "link", "adc"}
                      /\ c.ids \subseteq Chips \cup {15}
                      /\ c.commits \subseteq BOOLEAN /\ c.readbacks \subseteq BOOLEAN
                      /\ \A r, s \in c.regs : r.addr = s.addr => r = s

VARIABLES
  case,    \* the member of Cases
  hw,      \* chips and readout unit
  buf,     \* commands registered, not flushed
  mask,    \* AlpideControl.mask: the control lines it believes to be driven
  input,   \* AlpideControl.connector_used
  \* history
  want,    \* registers, matrix and output of each chip as the calls asked
  unsure,  \* parts of a chip a failed or misled call leaves open
  answer,  \* what the latest getreg returned
  calls, upsets

vars == <<case, hw, buf, mask, input, want, unsure, answer, calls, upsets>>

Broadcast == 15
AllRegions == -1
Unset == -1                  \* None
AllLines == 0..4
Row == 0..(NRegion * W - 1)
Column == 0..(NRegion * 2 * W - 1)
Region == 0..(NRegion - 1)

\* Parts of a chip that are not registers.
Masked == -1
Pulsed == -2
Disabled == -3
Link == -4

-----------------------------------------------------------------------------
\* Addresses: a plain register, the double-column disable register of a
\* region, and its column (low, high) and row select registers.
At(n) == [base |-> "reg", n |-> n, region |-> 0, lines |-> {}]
DisableAt(g) == [base |-> "disable", n |-> 0, region |-> g, lines |-> {}]
SelectAt(g, lines) == [base |-> "select", n |-> 0, region |-> g, lines |-> lines]

RegionsOf(a) == IF a.region = AllRegions THEN Region ELSE {a.region}

\* The bits of word in each of the 16-bit registers that begin at starts.
Spread(starts, word) == {s + b : s \in starts, b \in word \cap 0..(W - 1)}
Stored(old, starts, word) == (old \ Spread(starts, Word)) \cup Spread(starts, word)
RowStarts(a) == IF "row" \in a.lines THEN {g * W : g \in RegionsOf(a)} ELSE {}
ColumnStarts(a) ==
  {g * 2 * W + h * W : g \in RegionsOf(a),
                       h \in {0 : x \in a.lines \cap {"low"}} \cup {1 : x \in a.lines \cap {"high"}}}

\* Bits of the DTU configuration register that the chip does not let change.
ReadOnly(n) == IF n = dtu_cfg.addr /\ case.readonly THEN 9..15 ELSE {}

\* The chip (external): the pixels of selected rows and columns take over
\* the data of pixel_cfg, into the mask or into the pulse latch.
Latch(chip) ==
  IF pixel_cfg.addr \notin DOMAIN chip.reg THEN chip
  ELSE LET pixels == chip.columns \X chip.rows
           word == chip.reg[pixel_cfg.addr]
           latched(old) == IF 1 \in word THEN old \cup pixels ELSE old \ pixels
       IN IF 0 \in word THEN [chip EXCEPT !.pulsed = latched(@)]
                        ELSE [chip EXCEPT !.masked = latched(@)]

Written(chip, a, word) ==
  CASE a.base = "reg" ->
         IF a.n \notin DOMAIN chip.reg THEN chip
         ELSE Latch([chip EXCEPT !.reg[a.n] =
                       (@ \cap ReadOnly(a.n)) \cup (word \ ReadOnly(a.n))])
    [] a.base = "disable" ->
         [chip EXCEPT !.disabled = Stored(@, {g * W : g \in RegionsOf(a)}, word)]
    [] a.base = "select" ->
         Latch([chip EXCEPT !.rows = Stored(@, RowStarts(a), word),
                            !.columns = Stored(@, ColumnStarts(a), word)])

\* A global reset clears the registers and the selections, not the latches.
Cleared(chip) == [chip EXCEPT !.reg = [n \in DOMAIN @ |-> {}], !.rows = {},
                              !.columns = {}, !.disabled = {}]

\* One command of the buffer: the readout unit does it (external).
Op(kind, id, a, word) == [kind |-> kind, id |-> id, at |-> a, word |-> word]
Driven(h, id) == {c \in Chips : 2 \in h.mask /\ id \in {c, Broadcast}}
ReadWord(chip, a) ==
  LET word(selected, starts) == {b \in 0..(W - 1) : \E s \in starts : s + b \in selected}
  IN CASE a.base = "reg" -> IF a.n \in DOMAIN chip.reg THEN chip.reg[a.n] ELSE {}
       [] a.base = "disable" -> word(chip.disabled, {a.region * W})
       [] a.base = "select" -> word(chip.rows, RowStarts(a)) \cup word(chip.columns, ColumnStarts(a))

Do(h, op) ==
  CASE op.kind = "mask" -> [h EXCEPT !.mask = op.word]
    [] op.kind = "input" -> [h EXCEPT !.input = op.id]
    [] op.kind = "opcode" -> [h EXCEPT !.chip = [c \in Chips |->
         IF c \in Driven(h, Broadcast) THEN Cleared(@[c]) ELSE @[c]]]
    [] op.kind = "write" -> [h EXCEPT !.chip = [c \in Chips |->
         IF c \in Driven(h, op.id) THEN Written(@[c], op.at, op.word) ELSE @[c]]]
    [] op.kind = "readinput" -> [h EXCEPT !.answers =
         Append(@, [from |-> Unset, bad |-> FALSE, word |-> {h.input}])]
    [] op.kind = "read" -> [h EXCEPT !.answers =
         Append(@, [from |-> op.id, bad |-> FALSE, word |-> ReadWord(h.chip[op.id], op.at)])]
DoAll(h, ops) == FoldLeft(Do, h, ops)

-----------------------------------------------------------------------------
\* A call: hw, buf, mask and input; got, the answers of a read; value, the
\* word it returns; err, the exception; upset, and the flush it happens at.
Go(st) == st.err = "none"
Raise(st, err) == IF Go(st) THEN [st EXCEPT !.err = err] ELSE st
Post(st, op) == IF Go(st) THEN [st EXCEPT !.buf = Append(@, op)] ELSE st

\* flush: an exception keeps the commands in the buffer.
Flush(st) ==
  IF ~Go(st) THEN st
  ELSE IF st.fuse = 1 /\ st.upset \in {"unsent", "sent"}
       THEN [st EXCEPT !.err = "raised", !.fuse = 0,
                       !.hw = IF st.upset = "sent" THEN DoAll(@, st.buf) ELSE @]
       ELSE [st EXCEPT !.hw = DoAll(@, st.buf), !.buf = <<>>,
                       !.fuse = IF @ = 0 THEN 0 ELSE @ - 1]

Commit(st, commit) == IF commit THEN Flush(st) ELSE st

\* flush_and_read_results: everything the readout unit has to answer
Received(st, hit) ==
  IF ~Go(st) THEN st
  ELSE IF hit = "unread" THEN Raise(st, "raised")
  ELSE [st EXCEPT !.got = [i \in DOMAIN st.hw.answers |->
                             [from |-> IF hit = "mute" THEN Unset ELSE st.hw.answers[i].from,
                              bad |-> hit = "noisy", word |-> st.hw.answers[i].word]],
                  !.hw.answers = <<>>]
Fetch(st) == Received(Flush(st), IF st.fuse = 1 THEN st.upset ELSE "none")

\* get_input: the answer has to be of the address that was read.
FromUnit(st) == IF Go(st) /\ st.got[1].from # Unset THEN Raise(st, "raised") ELSE st
GetInput(st) == FromUnit(Fetch(Post(st, Op("readinput", 0, At(0), {}))))

\* _set_input, whose debug message reads the input as well
Remember(st, line) == IF Go(st) THEN [st EXCEPT !.input = line] ELSE st
InputIs(st, line) == IF Go(st) /\ st.got[1].word # {line} THEN Raise(st, "raised") ELSE st
SetInput(st, line) ==
  IF ~Go(st) \/ st.input = line THEN st
  ELSE InputIs(GetInput(Remember(Post(GetInput(st), Op("input", line, At(0), {})), line)), line)

\* _set_dctrl_mask
SetMask(st, lines) ==
  IF ~Go(st) \/ st.mask = lines THEN st
  ELSE [Post(st, Op("mask", 0, At(0), lines)) EXCEPT !.mask = lines]

\* _set_up_dctrl, for a broadcast and for a chip of an inner stave
SetUp(st, id, commit) ==
  Commit(IF id = Broadcast THEN SetMask(st, AllLines) ELSE SetInput(SetMask(st, {2}), 2), commit)

\* AlpideControl.read_chip_reg.  The bytes of the debug fifo take the place
\* of the data of a bad answer.
Junk == {1, 3}
ReadCommand(st, id, a) ==
  IF st.input = 2 /\ id < Broadcast /\ st.input \in st.mask
  THEN Fetch(Post(st, Op("read", id, a, {}))) ELSE Raise(st, "refused")
FromChip(st, id) ==
  IF ~Go(st) THEN st
  ELSE IF st.got[1].from # id THEN Raise(st, "raised")
  ELSE [st EXCEPT !.value = IF st.got[1].bad THEN Junk ELSE st.got[1].word]
ReadChip(st, id, a, commit) ==
  Commit(SetMask(FromChip(ReadCommand(SetUp(st, id, TRUE), id, a), id), AllLines), commit)

\* The comparison of a readback leaves out the upper bits of register 0x14.
Compare(st, a, word) ==
  LET seen == IF a.n = \h14 THEN 0..8 ELSE Word
  IN IF Go(st) /\ st.value \cap seen # word THEN Raise(st, "mismatch") ELSE st

\* AlpideControl.write_chip_reg
ReadBack(st, id, a, word, readback) ==
  IF readback THEN Compare(ReadChip(Flush(st), id, a, TRUE), a, word) ELSE st
WriteChip(st, id, a, word, commit, readback) ==
  Commit(SetMask(ReadBack(Post(SetUp(st, id, TRUE), Op("write", id, a, word)),
                          id, a, word, readback), AllLines), commit)

\* AlpideControl.write_chip_opcode, of a global reset
WriteOpcode(st, commit) ==
  SetUp(Commit(Post(SetUp(st, Broadcast, FALSE), Op("opcode", 0, At(0), {})), commit),
        Broadcast, commit)

\* getreg_<register>
GetReg(st, id, reg, commit) == ReadChip(st, id, At(reg.addr), commit)

\* Mutant: the fields that are not given are written as zero.
SetRegZeroes(st, id, reg, given, commit, readback) ==
  IF ~Fits(given) THEN Raise(st, "refused")
  ELSE WriteChip(st, id, At(reg.addr), Pack(given), commit, readback)

\* setreg_<register>
Completed(st, reg, given) ==
  [f \in reg.fields |-> IF f \in DOMAIN given THEN given[f] ELSE Unpack(reg, st.value)[f]]
WriteReg(st, id, reg, given, commit, readback) ==
  IF Go(st) THEN WriteChip(st, id, At(reg.addr), Pack(Completed(st, reg, given)), commit, readback)
  ELSE st
SetReg(st, id, reg, given, commit, readback) ==
  IF ~Fits(given) THEN Raise(st, "refused")
  ELSE WriteReg(IF DOMAIN given # reg.fields THEN GetReg(st, id, reg, commit) ELSE st,
                id, reg, given, commit, readback)

-----------------------------------------------------------------------------
\* Larger calls are sequences of steps on one chip object.
SetStep(reg, args) == [kind |-> "set", reg |-> reg, given |-> Given(reg, args),
                       at |-> At(reg.addr), word |-> {}, commit |-> TRUE]
GetStep(reg) == [SetStep(reg, <<>>) EXCEPT !.kind = "get"]
WriteStep(a, word) == [SetStep(cmd, <<>>) EXCEPT !.kind = "write", !.at = a, !.word = word]
Buffered(steps) == [i \in DOMAIN steps |-> [steps[i] EXCEPT !.commit = FALSE]]

Steps(st, id, steps) ==
  FoldLeft(LAMBDA s, x : CASE ~Go(s) -> s
                           [] Go(s) /\ x.kind = "set" -> SetReg(s, id, x.reg, x.given, x.commit, FALSE)
                           [] Go(s) /\ x.kind = "get" -> GetReg(s, id, x.reg, TRUE)
                           [] Go(s) /\ x.kind = "write" -> WriteChip(s, id, x.at, x.word, x.commit, FALSE),
           st, steps)

One == {0}
Zero == {}

\* The matrix.  regsel: 0 mask, 1 pulse.
PixelCfg(regsel, data) ==
  SetStep(pixel_cfg, [PIXCNFG_REGSEL |-> regsel, PIXCNFG_DATA |-> data])

\* Mutant: the rows stay selected.
ClearLeavesRows == WriteStep(SelectAt(AllRegions, {"low", "high"}), {})

\* _clear_pixel_cfg_register
ClearPixelCfgRegister == WriteStep(SelectAt(AllRegions, {"low", "high", "row"}), {})

\* _set_all_pixel_ff
SetAllPixelFf(regsel, data) ==
  <<PixelCfg(regsel, data), WriteStep(SelectAt(AllRegions, {"low", "high", "row"}), Word),
    ClearPixelCfgRegister>>

\* What a call addresses: a region, a row, a column, a pixel.
Target(kind, column, row) == [kind |-> kind, column |-> column, row |-> row]
HalfOf(column) == IF (column \div W) % 2 = 1 THEN "high" ELSE "low"

\* Mutant: the row select registers stay as they are.
AddressLeavesRow(t) ==
  <<WriteStep(SelectAt(t.column \div (2 * W), {HalfOf(t.column)}), {t.column % W}),
    WriteStep(SelectAt(t.row \div W, {"row"}), {t.row % W}),
    WriteStep(SelectAt(AllRegions, {"low", "high"}), {})>>

\* _address_reg, _address_row, _address_dcol, _address_pixel
Address(t) ==
  LET columns == CASE t.kind = "reg" -> WriteStep(SelectAt(t.column, {"low", "high"}), Word)
                   [] t.kind = "row" -> WriteStep(SelectAt(AllRegions, {"low", "high"}), Word)
                   [] OTHER -> WriteStep(SelectAt(t.column \div (2 * W), {HalfOf(t.column)}), {t.column % W})
      rows == CASE t.kind \in {"row", "pixel"} -> WriteStep(SelectAt(t.row \div W, {"row"}), {t.row % W})
                [] OTHER -> WriteStep(SelectAt(AllRegions, {"row"}), Word)
  IN (IF t.kind = "row" THEN <<rows, columns>> ELSE <<columns, rows>>) \o <<ClearPixelCfgRegister>>

\* The pixels a call asks for.  unmask_dcol is taken at its assertion and its
\* select bit (pALPIDE.py:728-735): one of the 1024 columns.  Its docstrings
\* (575, 727) call that a double column, of which there are 512 (592).
PixelsOf(t) ==
  CASE t.kind = "reg" -> {p \in Column \X Row : p[1] \div (2 * W) = t.column}
    [] t.kind = "row" -> Column \X {t.row}
    [] t.kind = "dcol" -> {t.column} \X Row
    [] t.kind = "pixel" -> {<<t.column, t.row>>}

\* mask_dcol and the masking of all double columns, region by region
DisableColumns(dcols) ==
  [i \in 1..NRegion |-> WriteStep(DisableAt(i - 1), {d % W : d \in {e \in dcols : e \div W = i - 1}})]

\* The data transmission unit
ConfigureDtu ==
  <<SetStep(dtu_test_1, [TestEN |-> Zero]), SetStep(dtu_dacs, <<>>),
    SetStep(dtu_pll_lock_2, <<>>), SetStep(dtu_cfg, [PllOffSignal |-> Zero])>>

Test1(on, pattern, bypass, k) ==
  SetStep(dtu_test_1, [TestEN |-> on, IntPatternEN |-> pattern, TestSingleMode |-> Zero,
    PrbsRate |-> Zero, Bypass8b10b |-> bypass, BDIN8b10b0 |-> Zero, BDIN8b10b1 |-> Zero,
    BDIN8b10b2 |-> Zero, K0 |-> k, K1 |-> k, K2 |-> k])
Test3(din) ==
  SetStep(dtu_test_3, [DIN2 |-> din, ForceSetLoadEN |-> Zero, ForceUnsetLoadEN |-> Zero])
Comma == {2, 3, 4, 5, 7}

PropagateData == <<Test3(Zero), Test1(Zero, Zero, Zero, Zero)>>
PropagateComma ==
  <<SetStep(dtu_test_2, [DIN0 |-> Comma, DIN1 |-> Comma]), Test3(Comma), Test1(One, Zero, Zero, One)>>

\* PrbsRate is left as it is.
PropagatePrbs ==
  LET all == Test1(One, One, One, Zero)
      rate == CHOOSE f \in dtu_test_1.fields : f.name = "PrbsRate"
  IN <<Test3(Zero), [all EXCEPT !.given = [f \in DOMAIN @ \ {rate} |-> @[f]]]>>
PropagateClock ==
  <<GetStep(dtu_pll_lock_1),
    SetStep(dtu_test_3, [ForceSetLoadEN |-> Zero, ForceUnsetLoadEN |-> One])>>
Pattern30 ==
  <<Test1(One, Zero, One, Zero), SetStep(dtu_test_2, [DIN0 |-> Comma, DIN1 |-> Comma]), Test3(Comma)>>

ResetPll ==
  Buffered(<<SetStep(dtu_cfg, [PLLReset |-> One]), SetStep(dtu_cfg, [PLLReset |-> Zero])>>)
    \o <<GetStep(dtu_pll_lock_1)>>

\* One reading stands for the up to 11 of pll_check_lock.
InitializeReadout ==
  ConfigureDtu \o PropagateData \o ResetPll \o SetAllPixelFf(Zero, Zero) \o SetAllPixelFf(One, Zero)
    \o <<SetStep(mode_ctrl, [ChipModeSelector |-> One]), GetStep(dtu_pll_lock_1)>>

\* What a chip sends, by its test registers (external).
LinkOf(chip) ==
  LET first == chip.reg[dtu_test_1.addr]
      third == chip.reg[dtu_test_3.addr]
  IN CASE 9 \in third -> "clock"
       [] 9 \notin third /\ 0 \notin first -> "data"
       [] 9 \notin third /\ {0, 1} \subseteq first -> "prbs"
       [] 9 \notin third /\ 0 \in first /\ 1 \notin first ->
            IF 12 \in first THEN "comma" ELSE "pattern"

\* The converter.  The voltage of VTEMP measures AVDD; it is left at 200.
AdcCtrl(mode, select, sign, trim) ==
  SetStep(adc_ctrl, [Mode |-> mode, SelInput |-> select, SetIComp |-> {1}, RampSpd |-> One,
                     DiscriSign |-> sign, HalfLSBTrim |-> trim])
AdcMeasure == SetStep(cmd, [Command |-> {5, 8, 9, 10, 11, 12, 13, 14, 15}])
Calibrate(sign, trim) ==
  LET read(s, t) == <<AdcCtrl(One, Zero, s, t), AdcMeasure, GetStep(adc_calibration_value)>>
  IN read(Zero, Zero) \o read(One, Zero) \o read(sign, Zero) \o read(sign, One) \o read(sign, trim)
MeasureAvdd(sign, trim) ==
  Buffered(<<SetStep(VTEMP, [VTEMP |-> {3, 6, 7}])>> \o Calibrate(sign, trim)
    \o <<SetStep(analog_monitor_and_override, [VoltageDACSel |-> {3}, CurrentDACSel |-> Zero,
           SWCNTL_DACMONI |-> Zero, SWCNTL_DACMONV |-> Zero, IRefBufferCurrent |-> {1}]),
         AdcCtrl(Zero, {0, 2}, sign, trim), AdcMeasure, GetStep(adc_avss_value)>>)
-----------------------------------------------------------------------------
\* What the calls asked for.
Targets(id) == {c \in Chips : id \in {c, Broadcast}}
Asked(w, id, reg, given) ==
  [c \in Chips |-> IF c \in Targets(id) /\ reg.addr \in DOMAIN w[c].reg
                   THEN [w[c] EXCEPT !.reg[reg.addr] = [f \in reg.fields |->
                           IF f \in DOMAIN given THEN given[f] ELSE @[f]]]
                   ELSE w[c]]
AskedSteps(w, id, steps) ==
  FoldLeft(LAMBDA v, x : IF x.kind = "set" THEN Asked(v, id, x.reg, x.given) ELSE v, w, steps)
AskedPart(w, id, part, value) ==
  [c \in Chips |-> IF c \notin Targets(id) THEN w[c]
                   ELSE CASE part = Masked -> [w[c] EXCEPT !.masked = value[c]]
                          [] part = Pulsed -> [w[c] EXCEPT !.pulsed = value[c]]
                          [] part = Disabled -> [w[c] EXCEPT !.disabled = value[c]]
                          [] part = Link -> [w[c] EXCEPT !.link = value[c]]]

\* The chips once the buffer is flushed.
Drained(h, b) == DoAll([h EXCEPT !.answers = <<>>], b)
Settled == Drained(hw, buf)

Holds(h, w, reg, cs) == \A c \in cs : \A f \in reg.fields :
  f.low \in ReadOnly(reg.addr) \/
  Unpack(reg, h.chip[c].reg[reg.addr])[f] = w[c].reg[reg.addr][f]

Parts(id, addrs) == Targets(id) \X addrs
AddrsOf(steps) == {steps[i].reg.addr : i \in {j \in DOMAIN steps : steps[j].kind = "set"}}
PartialOf(steps) == {steps[i].reg.addr : i \in {j \in DOMAIN steps :
                       steps[j].kind = "set" /\ DOMAIN steps[j].given # steps[j].reg.fields}}

-----------------------------------------------------------------------------
Start == [hw |-> [chip |-> [c \in Chips |->
            [reg |-> [n \in {r.addr : r \in case.regs} |-> IF c = 0 THEN Word ELSE {}],
             rows |-> {}, columns |-> {}, disabled |-> {}, masked |-> {}, pulsed |-> {}]],
           mask |-> AllLines, input |-> 0, answers |-> <<>>]]

Init ==
  /\ case \in Cases
  /\ hw = Start.hw
  /\ buf = <<>> /\ mask = {Unset} /\ input = Unset
  /\ want = [c \in Chips |->
       [reg |-> [n \in {r.addr : r \in case.regs} |->
                   Unpack(CHOOSE r \in case.regs : r.addr = n, hw.chip[c].reg[n])],
        disabled |-> {}, masked |-> {}, pulsed |-> {},
        link |-> IF {dtu_test_1, dtu_test_3} \subseteq case.regs THEN LinkOf(hw.chip[c]) ELSE "none"]]
  /\ unsure = {} /\ answer = [read |-> {}, asked |-> {}]
  /\ calls = 0 /\ upsets = 0

Upset == {"unsent", "sent", "unread", "mute", "noisy"}
MaxFuse == 6

\* How a call may begin: undisturbed, or with something that goes wrong at
\* one of its flushes.
Beginnings ==
  LET begin(u, k) == [hw |-> hw, buf |-> buf, mask |-> mask, input |-> input, got |-> <<>>,
                      value |-> {}, err |-> "none", upset |-> u, fuse |-> k]
  IN {begin("none", 0)} \cup
     (IF upsets < case.upsets THEN {begin(u, k) : u \in Upset, k \in 1..MaxFuse} ELSE {})

\* Answers of an earlier call are still to come, or this one may be bad.
Misled(st) ==
  \/ hw.answers # <<>>
  \/ \E i \in DOMAIN buf : buf[i].kind \in {"read", "readinput"}
  \/ st.upset = "noisy"

Returns(st) ==
  /\ st.fuse = 0
  /\ hw' = st.hw /\ buf' = st.buf /\ mask' = st.mask /\ input' = st.input
  /\ calls' = calls + 1
  /\ upsets' = IF st.upset = "none" THEN upsets ELSE upsets + 1
  /\ UNCHANGED case

Calling(kind) == calls < case.calls /\ kind \in case.kinds
Id == case.ids
Commits == case.commits

-----------------------------------------------------------------------------
\* The samples of a setter's arguments: one field or all of them, all ones
\* or all zeros, or a value that does not fit.
GivenSamples(reg) ==
  IF case.thorough
  THEN {[f \in g |-> IF one THEN BitsOf(f) ELSE {}] :
          g \in {{f} : f \in reg.fields} \cup {reg.fields}, one \in BOOLEAN}
       \cup {[f \in {g} |-> {g.width}] : g \in reg.fields}
  ELSE {[f \in g |-> BitsOf(f)] : g \in {{f \in reg.fields : f.low = 0}, reg.fields}}

\* setreg_<register>: when it raises, it has written everything or nothing.
SetRegister(id, reg, given, commit, readback) ==
  /\ Calling("set") /\ reg.writable
  /\ \E begin \in Beginnings :
     \E st \in {SetReg(begin, id, reg, given, commit, readback)} :
     \E asked \in {Asked(want, id, reg, given)} :
       LET done == st.err = "none" \/ Holds(Drained(st.hw, st.buf), asked, reg, Targets(id))
           partial == DOMAIN given # reg.fields
       IN /\ want' = IF done THEN asked ELSE want
          /\ unsure' = IF partial THEN IF Misled(st) THEN unsure \cup Parts(id, {reg.addr}) ELSE unsure
                       ELSE IF done THEN unsure \ Parts(id, {reg.addr}) ELSE unsure
          /\ UNCHANGED answer
          /\ Returns(st)

\* getreg_<register>
GetRegister(id, reg, commit) ==
  /\ Calling("get") /\ id \in Chips
  /\ \E begin \in Beginnings :
     \E st \in {GetReg(begin, id, reg, commit)} :
       /\ answer' = IF st.err = "none" /\ ~Misled(st) /\ <<id, reg.addr>> \notin unsure
                    THEN [read |-> {<<f, Unpack(reg, st.value)[f]>> : f \in {g \in reg.fields : g.low \notin ReadOnly(reg.addr)}},
                          asked |-> {<<f, want[id].reg[reg.addr][f]>> : f \in {g \in reg.fields : g.low \notin ReadOnly(reg.addr)}}]
                    ELSE [read |-> {}, asked |-> {}]
       /\ UNCHANGED <<want, unsure>>
       /\ Returns(st)

\* reset, and initialize of one chip with a global reset: either resets all.
InitializeChip(id, configure) ==
  /\ Calling("reset")
  /\ \E begin \in Beginnings :
     LET config == [PreviousChipID |-> {b \in 0..3 : (id \div 2^b) % 2 = 1}, InitialToken |-> One,
                    DisableManchester |-> One, EnableDDR |-> One]
         setting == IF configure THEN Buffered(<<SetStep(cmu_and_dmu_cfg, config)>>) ELSE <<>>
         cleared == [c \in Chips |-> [want[c] EXCEPT
                       !.reg = [n \in DOMAIN @ |-> [f \in DOMAIN @[n] |-> {}]],
                       !.disabled = {}, !.link = IF @ = "none" THEN @ ELSE "data"]]
         parts == Parts(Broadcast, DOMAIN Start.hw.chip[CHOOSE c \in Chips : TRUE].reg \cup {Disabled, Link})
     IN \E st \in {Steps(WriteOpcode(begin, TRUE), id, setting)} :
          /\ want' = IF st.err = "none" THEN AskedSteps(cleared, id, setting) ELSE want
          /\ unsure' = IF st.err = "none" THEN unsure \ parts ELSE unsure \cup parts
          /\ UNCHANGED answer
          /\ Returns(st)
\* The dry run of the readout drives no line; the next chip access does.
DisableAllDctrlConnectors ==
  /\ Calling("reset")
  /\ \E begin \in Beginnings : Returns(Flush(SetMask(begin, {})))
  /\ UNCHANGED <<want, unsure, answer>>

-----------------------------------------------------------------------------
\* A call on the matrix that gives the pixels of one latch, or the double
\* columns of the readout, the value asked for.  When it raises, rows and
\* columns may stay selected, and later calls change their pixels.
MatrixCall(id, steps, eager, commit, part, value, whole) ==
  /\ Calling("matrix")
  /\ \E begin \in Beginnings :
     LET posted(st) == Steps(st, id, IF eager THEN steps ELSE Buffered(steps))
         touched == IF part = Disabled THEN {Disabled} ELSE {Masked, Pulsed, pixel_cfg.addr}
         settled == AddrsOf(steps) \cup (IF whole THEN {part} ELSE {})
     IN \E st \in {IF eager THEN posted(begin) ELSE Commit(posted(begin), commit)} :
          /\ want' = IF st.err = "none"
                     THEN AskedPart(AskedSteps(want, id, steps), id, part, value) ELSE want
          /\ unsure' = IF st.err = "none" THEN unsure \ Parts(id, settled)
                       ELSE unsure \cup Parts(id, touched)
          /\ UNCHANGED answer
          /\ Returns(st)

Latched(part, data, pixels) ==
  [c \in Chips |-> LET old == IF part = Masked THEN want[c].masked ELSE want[c].pulsed
                   IN IF data = One THEN old \cup pixels ELSE old \ pixels]
PartOf(regsel) == IF regsel = One THEN Pulsed ELSE Masked

\* mask_all_pixels, unmask_all_pixels, pulse_all_pixels_enable and _disable
AllPixels(id, regsel, data, commit) ==
  MatrixCall(id, SetAllPixelFf(regsel, data), commit, commit, PartOf(regsel),
             Latched(PartOf(regsel), data, Column \X Row), TRUE)

\* unmask_reg, unmask_row, mask_row, pulse_row_enable and _disable,
\* unmask_dcol, unmask_pixel, mask_pixel, pulse_pixel_enable
SomePixels(id, regsel, data, targets, commit) ==
  LET steps == FlattenSeq([i \in DOMAIN targets |-> Address(targets[i])])
      pixels == UNION {PixelsOf(targets[i]) : i \in DOMAIN targets}
  IN MatrixCall(id, <<PixelCfg(regsel, data)>> \o steps, FALSE, commit, PartOf(regsel),
                Latched(PartOf(regsel), data, pixels), FALSE)

SomeCalls == {<<"reg", Zero, Zero>>, <<"row", Zero, Zero>>, <<"row", Zero, One>>,
              <<"row", One, One>>, <<"row", One, Zero>>, <<"dcol", Zero, Zero>>,
              <<"pixel", Zero, Zero>>, <<"pixel", Zero, One>>, <<"pixel", One, One>>}

\* mask_dcol: it also enables every double column that is not given.
MaskDcol(id, dcols, commit) ==
  MatrixCall(id, DisableColumns(dcols), commit, commit, Disabled, [c \in Chips |-> dcols], TRUE)

\* region_control_register_mask_all_double_columns and _unmask_
RegionControl(id, value, broadcast, commit) ==
  LET dcols == IF value = Word THEN 0..(NRegion * W - 1) ELSE {}
      steps == IF broadcast THEN <<WriteStep(DisableAt(AllRegions), value)>> ELSE DisableColumns(dcols)
  IN MatrixCall(id, steps, commit, commit, Disabled, [c \in Chips |-> dcols], TRUE)

\* _read_pixel_config: the row's region is taken modulo half the regions.
ReadPixelConfig(id, t) ==
  /\ Calling("matrix")
  /\ \E begin \in Beginnings :
     LET columns == SelectAt(t.column \div (2 * W), {HalfOf(t.column)})
         rows == SelectAt((t.row \div W) % (NRegion \div 2), {"row"})
     IN \E st \in {ReadChip(begin, id, columns, TRUE)} : \E su \in {ReadChip(st, id, rows, TRUE)} :
          /\ answer' = IF su.err = "none" /\ ~Misled(su) /\ <<id, Masked>> \notin unsure
                       THEN [read |-> {st.value, su.value}, asked |-> {{}}]
                       ELSE [read |-> {}, asked |-> {}]
          /\ UNCHANGED <<want, unsure>>
          /\ Returns(su)

-----------------------------------------------------------------------------
\* A sequence of setters and getters on one chip, or on all.
Procedure(kind, id, steps, link) ==
  /\ Calling(kind)
  /\ \E begin \in Beginnings : \E st \in {Steps(begin, id, steps)} :
     \E asked \in {AskedSteps(want, id, steps)} :
       /\ want' = IF st.err # "none" THEN want
                  ELSE AskedPart(asked, id, Link,
                         [c \in Chips |-> IF link = "same" THEN want[c].link ELSE link])
       /\ unsure' = IF st.err # "none" THEN unsure \cup Parts(id, AddrsOf(steps) \cup {Link})
                    ELSE (unsure \ Parts(id, (AddrsOf(steps) \ PartialOf(steps))
                                             \cup (IF link = "same" THEN {} ELSE {Link})))
                         \cup (IF Misled(st) THEN Parts(id, PartialOf(steps)) ELSE {})
       /\ UNCHANGED answer
       /\ Returns(st)

\* propagate_data, propagate_comma, propagate_prbs, propagate_clock,
\* propagate_pattern and initialize_readout
Propagate(id) ==
  \/ Procedure("link", id, PropagateData, "data")
  \/ Procedure("link", id, PropagateComma, "comma")
  \/ Procedure("link", id, PropagatePrbs, "prbs")
  \/ Procedure("link", id, PropagateClock, "clock")
  \/ Procedure("link", id, Pattern30, "pattern")
  \/ Procedure("link", id, InitializeReadout, "data")

\* measure_adc_avdd_indirect of a chip that is not calibrated
MeasureAdc(id, sign, trim) == Procedure("adc", id, MeasureAvdd(sign, trim), "same")

-----------------------------------------------------------------------------
RegisterCall ==
  \/ \E id \in Id, reg \in case.regs, commit \in Commits, readback \in case.readbacks :
       \E given \in GivenSamples(reg) : SetRegister(id, reg, given, commit, readback)
  \/ \E id \in Id, reg \in case.regs, commit \in Commits : GetRegister(id, reg, commit)
  \/ \E id \in Id, configure \in BOOLEAN : InitializeChip(id, configure)
  \/ DisableAllDctrlConnectors

PixelCall ==
  \/ \E id \in Id, regsel, data \in {Zero, One}, commit \in Commits : AllPixels(id, regsel, data, commit)
  \/ \E id \in Id, c \in SomeCalls, ts \in Samples, commit \in Commits :
       /\ \A i \in DOMAIN ts : ts[i].kind = c[1]
       /\ SomePixels(id, c[2], c[3], ts, commit)
  \/ \E id \in Id, dcols \in {{0}, {1, W}}, commit \in Commits : MaskDcol(id, dcols, commit)
  \/ \E id \in Id, value \in {Word, {}}, broadcast \in BOOLEAN, commit \in Commits : RegionControl(id, value, broadcast, commit)
  \/ \E id \in Id \cap Chips, ts \in Samples : ts[1].kind = "pixel" /\ ReadPixelConfig(id, ts[1])

ProcedureCall ==
  \/ \E id \in Id : Propagate(id)
  \/ \E id \in Id \cap Chips, sign, trim \in {Zero, One} : MeasureAdc(id, sign, trim)

Next == RegisterCall \/ PixelCall \/ ProcedureCall

Spec == Init /\ [][Next]_vars

-----------------------------------------------------------------------------
\* A setter changes the fields it was given and no other, of the chips it
\* addresses and no other, whatever raised before, in which order buffered
\* and immediate calls came, and even if it raises itself.  The exceptions
\* are named: a setter that had to ask the chip and was misled, by the answer
\* of an earlier call or by a bad answer of its own that is only logged
\* (alpide_control.py:222-223), and larger calls that failed halfway.
FieldsKept == \A reg \in case.regs :
  LET cs == {c \in Chips : <<c, reg.addr>> \notin unsure}
  IN Holds(Settled, want, reg, cs)

\* Every pixel is masked and pulsed, every double column read out, and the
\* data link sends, as the calls asked whatever they asked before; after a
\* call that failed halfway, from the next call on all pixels of that latch on.
\* unmask_dcol is asked for one column, as it asserts; for the double column
\* of its docstring, the same claim is false.
ChipAsAsked == \A c \in Chips :
  /\ <<c, Masked>> \in unsure \/ Settled.chip[c].masked = want[c].masked
  /\ <<c, Pulsed>> \in unsure \/ Settled.chip[c].pulsed = want[c].pulsed
  /\ <<c, Disabled>> \in unsure \/ Settled.chip[c].disabled = want[c].disabled
  /\ \/ ~({dtu_test_1, dtu_test_3} \subseteq case.regs)
     \/ {<<c, Link>>, <<c, dtu_test_1.addr>>, <<c, dtu_test_3.addr>>} \cap unsure # {}
     \/ LinkOf(Settled.chip[c]) = want[c].link

\* What a getter returns is what the calls asked for, buffered calls
\* included, and after a call nothing is left selected in the matrix.
ReadsAsAsked == answer.read = answer.asked

=============================================================================
