------------------------------- MODULE DaqRun -------------------------------
(***************************************************************************)
(* The programs that take data.  DaqTest and its subclass ThresholdScan,   *)
(* from the first call to the last: set up power, sensors and readout,     *)
(* start the triggers, scan, stop, find out what failed, tear down.  And   *)
(* the tests of the inner barrel, src/software/py/ib_tools: run_test.py    *)
(* initializes, configures and launches an IBTest; ibcmd.py switches staves*)
(* on and off.  One power unit per stave; warnings (negative return codes) *)
(* are left out.  Calls in a row that change nothing modelled are one      *)
(* Check.                                                                  *)
(***************************************************************************)
EXTENDS TestProgram
CONSTANT Conf           \* the configurations and programs that are started

\* The inner barrel tests (ib_tools).
Gbtx2 == conf.source = "gbtx2"          \* triggers by the CRU or FELIX card; else by the sequencers
RowScan == conf.program = "ib_scan"     \* ThresholdScan; else a test that runs for its duration
ConfigureChip(r) == Call("chip", {r}, "triggered", 0)
PuCheck(r) == Check("pu", r)

Initialize ==
    CheckAll("cru") \o CheckAll("rdo") \o
    Each(LAMBDA r : Call("rdo", {r}, "data_off", 0) \o Check("rdo", r)) \o
    CheckAll("cru") \o CheckAll("rdo")

CompensateVoltage(r) == PuCheck(r) \o PuCheck(r)
ConfigureStave(r) == ConfigureChip(r) \o Check("chip", r) \o PuCheck(r) \o CompensateVoltage(r)

\* The transceivers must align to the data of the chips.
ConfigureRu(r) == Check("rdo", r) \o Check("chip", r) \o Check("rdo", r)
ConfigureCru == CheckAll("cru")
Configure == Each(LAMBDA r : ConfigureStave(r) \o ConfigureRu(r)) \o ConfigureCru
ConfigureDacsFromFile == CheckAll("chip")

LogDuringRun == CheckAll("rdo") \o CheckAll("pu")
DumpVoltTemp == CheckAll("pu") \o CheckAll("chip")
Dumps == DumpVoltTemp \o CheckAll("chip") \o CheckAll("rdo") \o CheckAll("cru")

StartFdaq == Call("cru", Rdo, "fdaq", 0)
StopFdaq == Join

StartOfRun ==
    CheckAll("rdo") \o LogDuringRun \o Dumps \o
    Note("down", TRUE) \o
    Each(LAMBDA r : Call("rdo", {r}, "data_on", 0)) \o
    Note("down", FALSE) \o
    Set("running", TRUE)

\* ThresholdScan starts its sequencers with no time frames to send.
StartOfTrigger ==
    Note("down", TRUE) \o
    (IF Gbtx2 THEN CheckAll("rdo") \o Call("cru", Rdo, "start", 0)
     ELSE IF RowScan THEN CheckAll("rdo")
     ELSE Each(LAMBDA r : Call("rdo", {r}, "start", 0))) \o
    Note("down", FALSE) \o
    Set("triggering", TRUE)

(***************************************************************************)
(* run: steps until the time is over or the counters show errors; the scan *)
(* injects into row after row and looks until the time frames are sent.    *)
(***************************************************************************)
RunStep == LogDuringRun \o Maybe(Return)
InjectRow == CheckAll("chip") \o CheckAll("rdo") \o
             Each(LAMBDA r : Call("rdo", {r}, "start", 0)) \o
             CheckAll("rdo") \o Done \o CheckAll("chip")
RunIb == IF RowScan THEN LogDuringRun \o InjectRow \o Maybe(InjectRow)
         ELSE Fn(RunStep \o Loop(RunStep))

EndOfTrigger ==
    Note("down", TRUE) \o
    (IF Gbtx2 THEN Call("cru", Rdo, "stop", 0)
     ELSE Each(LAMBDA r : Call("rdo", {r}, "stop", 0))) \o
    Note("down", FALSE) \o
    Set("triggering", FALSE)

EndOfRun ==
    Note("down", TRUE) \o
    Each(LAMBDA r : Call("rdo", {r}, "data_off", 0)) \o
    Note("down", FALSE) \o
    Set("running", FALSE) \o
    CheckAll("rdo") \o Maybe(Worst(8)) \o LogDuringRun \o Dumps \o
    CheckAll("rdo") \o Maybe(Worst(9)) \o CheckAll("rdo")

\* Mutant: the run is not ended.
EmergencyNoEnd ==
    Worst(3) \o
    Try(When("triggering", TRUE, Note("lost", {}) \o EndOfTrigger), OnAny(<<>>))
\* A stop of the triggers that failed before is done again from its start.
EmergencyRunStop ==
    Worst(3) \o
    Try(When("triggering", TRUE, Note("lost", {}) \o EndOfTrigger) \o
        When("running", TRUE, EndOfRun),
        OnAny(<<>>))

RunProcedure ==
    StartFdaq \o StartOfRun \o StartOfTrigger \o
    Try(RunIb \o Note("ran", TRUE), [e \in {"KeyboardInterrupt"} |-> Worst(1)]) \o
    EndOfTrigger \o EndOfRun \o StopFdaq

Launch ==
    Try(RunProcedure,
        [e \in Exception |-> IF e = "WishboneReadError" THEN Note("crashed", TRUE) \o Worst(9)
                             ELSE Worst(9) \o EmergencyRunStop])

RunTest == Try(Initialize \o Configure \o ConfigureDacsFromFile \o Launch, OnAny(Worst(9)))

ReturnCode == IF py.codes = {} THEN 0 ELSE CHOOSE c \in py.codes : \A d \in py.codes : d <= c
Good == ReturnCode <= 0

(***************************************************************************)
(* power_on and power_off of utils.py, for ibcmd.py.                       *)
(***************************************************************************)
\* Mutant: the clock comes back before the modules are on.
IbPowerOnClocked ==
    Each(LAMBDA r : Call("pu", {r}, "expect_off", 1)) \o
    Each(LAMBDA r : Call("rdo", {r}, "clock_off", 0) \o Call("rdo", {r}, "clock_on", 0)) \o
    Each(LAMBDA r : PuCheck(r) \o PowerOnModules(r, 1)) \o
    CheckAll("pu")
IbPowerOn ==
    Each(LAMBDA r : Call("pu", {r}, "expect_off", 1)) \o
    Each(LAMBDA r : Call("rdo", {r}, "clock_off", 0)) \o
    Each(LAMBDA r : PuCheck(r) \o PowerOnModules(r, 1)) \o
    Each(LAMBDA r : Call("rdo", {r}, "clock_on", 0)) \o
    CheckAll("pu")
IbPowerOff ==
    Note("down", TRUE) \o
    Each(LAMBDA r : Call("pu", {r}, "power_off", 1)) \o
    Each(LAMBDA r : Call("rdo", {r}, "clock_off", 0)) \o
    CheckAll("pu")

-----------------------------------------------------------------------------
\* DaqTest and ThresholdScan.

Managed == conf.scheme = "managed"      \* POWERUNIT, or DUAL_POWERUNIT on an outer layer
Threshold == conf.program = "threshold"
SetModes(mode) == Each(LAMBDA r : Call("chip", {r}, mode, 0))

ForceCutSensorPower ==
    IF conf.scheme = "none" THEN <<>>
    ELSE Try(Each(LAMBDA r : EachUnit(LAMBDA u : Call("pu", {r}, "power_off", u))
                             \o Call("rdo", {r}, "clock_off", 0)),
             OnAny(Raise("Exception")))     \* poweroff_powerunit is not implemented

ReadValues == CheckAll("rdo")
              \o (IF conf.scheme = "none" THEN <<>>
                  ELSE CheckAll("pu") \o IfHot(ForceCutSensorPower \o Raise("Exception")))
\* A chip that cannot be read is logged and passed over.
ReadbackSensors == Each(LAMBDA r : Try(Check("chip", r), OnException(<<>>)))

SetupPower ==
    IF Managed
    THEN CheckAll("pu") \o
         Each(LAMBDA r : Call("rdo", {r}, "clock_off", 0)) \o
         Each(LAMBDA r : EachUnit(LAMBDA u : PowerOnModules(r, u))) \o
         CheckAll("pu") \o
         Each(LAMBDA r : Call("rdo", {r}, "clock_on", 0)) \o
         CheckAll("pu")
    ELSE IF conf.scheme = "monitor" THEN CheckAll("pu") ELSE <<>>

SetupSensors ==
    Each(LAMBDA r : (IF conf.layer = "inner" THEN SetupSensorsIb(r) ELSE SetupSensorsOb(r)))
    \o CheckAll("chip")

\* setup_readout resets the sensors again when the transceivers do not align.
SetupDatapath ==
    CheckAll("rdo") \o
    (IF conf.layer = "inner" THEN Each(LAMBDA r : Maybe(SetupSensorsIb(r)) \o Check("rdo", r))
     ELSE CheckAll("rdo"))

BeforeStartRun ==
    ReadbackSensors \o CheckAll("chip") \o SetModes("triggered") \o CheckAll("rdo") \o CheckAll("cru")

PrepareForTriggers ==
    CheckAll("rdo") \o Call("cru", Rdo, "fdaq", 0) \o CheckAll("rdo") \o
    SetupPower \o SetupSensors \o CheckAll("cru") \o SetupDatapath \o BeforeStartRun

TriggerStart ==
    IF conf.source = "gbtx2" THEN CheckAll("cru") \o Call("cru", Rdo, "start", 0)
    ELSE IF Threshold THEN CheckAll("rdo")      \* no time frames to send yet
    ELSE Each(LAMBDA r : Call("rdo", {r}, "start", 0))
TriggerStop ==
    IF conf.source = "gbtx2" THEN Call("cru", Rdo, "stop", 0)
    ELSE Each(LAMBDA r : Call("rdo", {r}, "stop", 0))

\* Mutant: the chips leave triggered mode before the triggers stop.
StopRunLate == SetModes("configuration") \o TriggerStop \o CheckAll("rdo")
StopRun == TriggerStop \o CheckAll("rdo") \o ReadValues \o ReadbackSensors
AfterStopRun == SetModes("configuration") \o CheckAll("rdo") \o CheckAll("chip") \o CheckAll("cru")

(***************************************************************************)
(* The scans: read values until the time is over, or inject row by row.    *)
(***************************************************************************)
ScanRow ==
    SetModes("configuration") \o CheckAll("chip") \o
    Each(LAMBDA r : Call("chip", {r}, "configuration", 0) \o Call("chip", {r}, "triggered", 0)
                    \o Call("rdo", {r}, "start", 0)) \o
    Poll \o CheckAll("rdo") \o SetModes("configuration")
Scan ==
    (IF Threshold
     THEN SetModes("configuration") \o CheckAll("chip") \o ScanRow \o ReadValues
          \o Maybe(ScanRow \o ReadValues) \o SetModes("configuration") \o CheckAll("rdo")
     ELSE ReadValues \o Loop(ReadValues))

HandleFailure ==
    LET Exit(id) == Set("exit_id", id) \o Return IN
    Fn(When("run_error", "none", Exit(0)) \o
       When("run_error", "KeyboardInterrupt", Exit(1)) \o
       Try(CheckAll("cru"), OnException(Exit(4))) \o
       Try(CheckAll("cru"), OnException(Exit(5))) \o
       Try(CheckAll("rdo"), OnException(ForceCutSensorPower \o Exit(6))) \o
       Try(IF conf.scheme = "none" THEN <<>> ELSE CheckAll("pu") \o Return,
           OnException(ForceCutSensorPower \o Exit(7))) \o
       Try(CheckAll("chip") \o Maybe(Return), OnException(Exit(8))) \o
       Exit(9))

RunErrors(e) == Set("run_error", e) \o (IF e # "KeyboardInterrupt" THEN Set("test_pass", FALSE) ELSE <<>>)

Run == TriggerStart \o
       Try(Scan, [e \in Exception |-> RunErrors(e)]) \o
       Try(StopRun \o AfterStopRun, OnException(<<>>)) \o
       HandleFailure

\* With PA3_SCRUBBING_ENABLE it stops the scrubbing of every auxiliary FPGA first.
TearDown ==
    Note("down", TRUE) \o
    Maybe(Each(LAMBDA r : Check("rdo", r))) \o
    (IF Managed
     THEN Each(LAMBDA r : PowerOff(r) \o Check("pu", r) \o Call("rdo", {r}, "clock_off", 0)
                          \o (IF conf.layer = "outer" THEN Check("pu", r) ELSE <<>>))
     ELSE IF conf.scheme = "monitor" THEN CheckAll("pu") ELSE <<>>)

\* Mutant: the tear-down follows the run instead of being in a finally.
MainPlain ==
    Finally(Try(CheckAll("cru") \o CheckAll("rdo") \o PrepareForTriggers \o Run \o TearDown,
                OnException(Set("test_pass", FALSE))),
            Join)
Main ==
    Finally(Try(CheckAll("cru") \o
                Finally(CheckAll("rdo") \o PrepareForTriggers \o Run, TearDown),
                OnException(Set("test_pass", FALSE))),
            Join)

Program == CASE conf.program \in {"daq", "threshold"} -> Main
             [] conf.program = "power_on" /\ conf.layer = "inner" -> PowerOnAllIb
             [] conf.program = "power_on" /\ conf.layer # "inner" -> PowerOnAllOb
             [] conf.program = "emergency_off" -> EmergencyOff
             [] conf.program \in {"ib", "ib_scan"} -> RunTest
             [] conf.program = "ib_on" -> IbPowerOn
             [] conf.program = "ib_off" -> IbPowerOff
             [] conf.program = "none" -> <<>>

(***************************************************************************)
(* Staves are off, or on and clocked after an earlier program.             *)
(***************************************************************************)
Init == /\ conf \in Conf
        /\ todo = Program
        /\ \/ on = {} /\ clock = {} /\ conf.scheme = "managed"
           \/ on = Rdo \X ToSet(Units) /\ clock = Rdo
        /\ trig = {} /\ sent = {} /\ data = {} /\ dead = {}
        /\ fdaq = FALSE /\ over = FALSE /\ upsets = 0
        /\ py = [test_pass |-> TRUE, run_error |-> "none", exit_id |-> -1,
                 codes |-> {}, running |-> FALSE, triggering |-> FALSE]
        /\ seen = [mine |-> {}, down |-> FALSE, lost |-> {}, failed |-> {}, tripped |-> {},
                   ran |-> FALSE, crashed |-> FALSE]

Fairness == /\ WF_vars(Step) /\ WF_vars(TimeIsOver) /\ WF_vars(FdaqEnds)
            /\ WF_vars(At("done") /\ InjectionEnds)
Spec == Init /\ [][Next]_vars /\ Fairness
-----------------------------------------------------------------------------
Ended == todo = <<>>
IsOn(r) == \E x \in on : x[1] = r

TypeOK == /\ conf \in Conf
          /\ on \subseteq Rdo \X {1, 2}
          /\ clock \subseteq Rdo /\ trig \subseteq Rdo /\ sent \subseteq Rdo /\ data \subseteq Rdo
          /\ dead \subseteq Device
          /\ fdaq \in BOOLEAN /\ over \in BOOLEAN /\ upsets \in 0..MaxUpsets
          /\ py.codes \subseteq {1, 3, 8, 9}
          /\ py.exit_id \in {-1, 0, 1, 4, 5, 6, 7, 8, 9}
          /\ seen.mine \subseteq Rdo \X {1, 2} /\ seen.lost \subseteq Rdo

(***************************************************************************)
(* Whatever raised or was interrupted before, a test leaves no stave on    *)
(* that it switched on, unless a call of the tear-down itself failed; the  *)
(* emergency leaves only those on that a call failed for.                  *)
(***************************************************************************)
CutAtEnd == Ended => IF conf.program = "emergency_off" THEN \A r \in Rdo \ seen.lost : ~IsOn(r)
                     ELSE conf.program \in {"daq", "threshold"} /\ seen.lost = {} =>
                          \A x \in seen.mine : x \notin on /\ x[1] \notin clock

(***************************************************************************)
(* However a test of the inner barrel ends, nothing triggers the staves and*)
(* no data flow, unless a call of the last start or stop failed or a failed*)
(* read of the bus ended it (launch then stops nothing); a run reported    *)
(* GOOD went to its end and fdaq is gone.                                  *)
(***************************************************************************)
StoppedAtEnd == Ended /\ conf.program \in {"ib", "ib_scan"} =>
                /\ ~seen.crashed /\ seen.lost = {} => sent = {} /\ data = {}
                /\ Good => seen.ran /\ sent = {} /\ data = {} /\ ~fdaq

(***************************************************************************)
(* power_on clocks no unpowered stave, and power_off leaves none on or     *)
(* clocked unless one of its calls failed.                                 *)
(***************************************************************************)
SwitchedAtEnd == Ended =>
                 /\ conf.program = "ib_on" => \A r \in clock \ seen.tripped : Powered(r)
                 /\ conf.program = "ib_off" /\ seen.lost = {} => on = {} /\ clock = {}

\* Every program leaves the staves as it promises.
LeftAtEnd == CutAtEnd /\ StoppedAtEnd /\ SwitchedAtEnd

(***************************************************************************)
(* No powered stave gets triggers outside triggered mode, unless the test  *)
(* has failed: modes and triggers change on both sides of every start, stop*)
(* and injection.                                                          *)
(***************************************************************************)
Bare(r) == r \in sent /\ r \notin trig /\ Powered(r)
TriggersMeetMode == [][\A r \in Rdo : Bare(r)' => Bare(r) \/ ~py'.test_pass]_vars

(***************************************************************************)
(* After one failed call, the stave whose power-on failed is off and the   *)
(* staves switched on before it stay on.                                   *)
(***************************************************************************)
FailureStaysLocal ==
    Ended /\ conf.program = "power_on" /\ seen.failed # {} /\ upsets <= 1 /\ dead = {} =>
    /\ \A r \in seen.failed : ~IsOn(r)
    /\ \A r \in Rdo \ seen.failed : (\E x \in seen.mine : x[1] = r) => Powered(r)

(***************************************************************************)
(* Every test ends, also when the readout process is waited for.           *)
(***************************************************************************)
Ends == <>Ended
=============================================================================
