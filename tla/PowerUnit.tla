------------------------------ MODULE PowerUnit ------------------------------
(***************************************************************************)
(* Power unit controller of the readout unit (modules/i2c/source/rtl/      *)
(* i2c_pu_controller.vhd): two state machines, one per I2C bus, monitor    *)
(* the power unit, execute the requests that software leaves in two        *)
(* queues, and turn channels off.  A START state and the transaction it    *)
(* starts are two steps, because the byte written is sampled at START.     *)
(* The analog and digital supply of a module are one channel; voltages,    *)
(* thresholds and ADC values are left out.                                 *)
(***************************************************************************)
EXTENDS Integers, Sequences, Functions

CONSTANTS
  Module,        \* modules of the power unit
  Low,           \* those on the first I/O expander (1 to 4)
  Channel,       \* bias channels
  Group,         \* Group[c]: modules linked to a bias channel
  Sensor,        \* temperature sensors in use, of "P0", "P1", "P2"
  MiddleBarrel,  \* IS_MIDDLE_BARREL
  MaxFaults      \* bound on trips, overheating and I2C errors together

ASSUME PartsKnown ==
  /\ Low \subseteq Module /\ Group \in [Channel -> SUBSET Module]
  /\ Sensor \subseteq {"P0", "P1", "P2"} /\ MiddleBarrel \in BOOLEAN /\ MaxFaults \in Nat

VARIABLES
  pw, bias,          \* enabled power and bias channels of the power unit
  hot,               \* sensors whose temperature is outside its limits
  mon,               \* sMonEnabled: enabled monitors, sensors and "PWR"
  expPw, expBias,    \* s_power_mask, s_bias_mask: what should be enabled
  nok, prev,         \* sensors with bNokTempX, bNokTempX_prev
  enL, biasL,        \* s_enable_pwr, s_bias: enables read last
  valid,             \* bEnPwrValid, bEnBiasValid as a set of "pw", "bias"
  main, aux,         \* state of a machine and the request it carries out
  cntMain, cntAux,   \* iCountWbreqMain, iCountWbreqAux
  reqMain, reqAux,   \* request queues
  reply,             \* answer to a read of software, at most one
  tripped,           \* TRIPPED_LTCH
  lost,              \* a write of software failed on the bus
  faults             \* faults so far

unit   == <<pw, bias, hot>>
regs   == <<mon, expPw, expBias>>
seen   == <<nok, prev, enL, biasL, valid>>
mainFsm == <<main, cntMain, reqMain>>
auxFsm == <<aux, cntAux, reqAux>>
fwVars == <<unit, regs, seen, mainFsm, auxFsm, reply, tripped, lost, faults>>

NoReq   == [op |-> "none", half |-> "low", v |-> {}]
Request == [op : {"none", "wr", "rd", "poll"}, half : {"low", "high"}, v : SUBSET (Module \cup Channel)]
WbLimit == 2

HalfOf(m)  == IF m \in Low THEN "low" ELSE "high"
Part(half) == {m \in Module : HalfOf(m) = half}
Temps == mon \ {"PWR"}

(***************************************************************************)
(* What to turn off.  Without bias each module is compared on its own,     *)
(* with bias the modules of a group and their bias channel together.       *)
(***************************************************************************)
Over(s) == s \in mon \cap nok \cap prev
HotHalves ==
  IF MiddleBarrel /\ ~Over("P0") /\ ~(Over("P1") /\ Over("P2"))
  THEN {h \in {"low", "high"} : Over(IF h = "low" THEN "P1" ELSE "P2")}
  ELSE {h \in {"low", "high"} : Over("P0") \/ Over("P1")}

Differs(S) == "pw" \in valid /\ enL \cap S # expPw \cap S
BadGroups  == {c \in Channel : \/ Differs(Group[c])
                               \/ "bias" \in valid /\ (c \in biasL) # (c \in expBias)}
Cut == IF "PWR" \notin mon THEN {}
       ELSE IF expBias = {} THEN {m \in Module : Differs({m})}
       ELSE UNION {Group[c] : c \in BadGroups}
OffHalves == HotHalves \cup {HalfOf(m) : m \in Cut}
\* Mutant: an overheated half keeps what is expected.
KeepPwHot == expPw \ Cut
KeepPw    == {m \in expPw \ Cut : HalfOf(m) \notin HotHalves}
KeepBias  == {c \in expBias : /\ ~("PWR" \in mon /\ c \in BadGroups)
                              /\ \A m \in Group[c] : HalfOf(m) \notin HotHalves}

\* The latch follows the trip conditions of the next state.
Latch == tripped' = (tripped \/ OffHalves' # {})

FwInit(monitors, power, back, known) ==
  /\ pw = power /\ bias = back /\ hot = {} /\ mon = monitors /\ expPw = power /\ expBias = back
  /\ nok = {} /\ prev = {} /\ enL = power /\ biasL = back /\ valid = known
  /\ main = [at |-> "IDLE", rq |-> NoReq] /\ aux = [at |-> "IDLE", rq |-> NoReq]
  /\ cntMain = 0 /\ cntAux = 0 /\ reqMain = <<>> /\ reqAux = <<>>
  /\ reply = <<>> /\ tripped = FALSE /\ lost = FALSE /\ faults = 0

FwTypeOK ==
  /\ pw \subseteq Module /\ bias \subseteq Channel /\ hot \subseteq Sensor
  /\ mon \subseteq Sensor \cup {"PWR"} /\ expPw \subseteq Module /\ expBias \subseteq Channel
  /\ nok \subseteq Sensor /\ prev \subseteq Sensor /\ enL \subseteq Module /\ biasL \subseteq Channel
  /\ valid \subseteq (IF "PWR" \in mon THEN {"pw", "bias"} ELSE {})
  /\ main \in [at : {"IDLE", "WB", "BIAS", "OFF"} \cup Sensor, rq : Request]
  /\ aux \in [at : {"IDLE", "WB", "OFF_low", "OFF_high", "READ"}, rq : Request]
  /\ {cntMain, cntAux} \subseteq 0 .. WbLimit
  /\ reqMain \in Seq(Request) /\ reqAux \in Seq(Request)
  /\ reply \in Seq([ok : BOOLEAN, v : SUBSET (Module \cup Channel)]) /\ Len(reply) <= 1
  /\ {tripped, lost} \subseteq BOOLEAN /\ faults \in 0 .. MaxFaults

Fault == faults < MaxFaults /\ faults' = faults + 1
Clean == UNCHANGED faults
Goto(state) == [at |-> state, rq |-> NoReq]

(***************************************************************************)
(* Requests of software.  Failed writes are only counted by a monitor.     *)
(***************************************************************************)
Answer(rq, value) ==
  \/ Clean /\ UNCHANGED lost
     /\ reply' = IF rq.op = "rd" THEN <<[ok |-> TRUE, v |-> value]>> ELSE reply
  \/ Fault /\ lost' = (lost \/ rq.op = "wr")
     /\ reply' = IF rq.op = "rd" THEN <<[ok |-> FALSE, v |-> {}]>> ELSE reply

\* Mutant: requests are served without a limit.
MayServeAlways(queue, count) == queue # <<>>
MayServe(queue, count) == queue # <<>> /\ count < WbLimit

(***************************************************************************)
(* Main bus: temperatures, bias enables, one ADC channel per loop.         *)
(***************************************************************************)
Order == <<"P0", "P1", "P2">>
TempAfter(k) ==
  IF \E i \in k + 1 .. 3 : Order[i] \in mon
  THEN Order[CHOOSE i \in k + 1 .. 3 : Order[i] \in mon /\ \A j \in k + 1 .. i - 1 : Order[j] \notin mon]
  ELSE "BIAS"
\* Mutant: the start of a temperature measurement does not reset the count.
EnterKeeps(state) == main' = Goto(state) /\ UNCHANGED cntMain
Enter(state) == main' = Goto(state) /\ cntMain' = IF state = "BIAS" THEN cntMain ELSE 0

MainIdle ==
  /\ main.at = "IDLE"
  /\ \/ /\ MayServe(reqMain, cntMain)
        /\ main' = [at |-> "WB", rq |-> Head(reqMain)] /\ reqMain' = Tail(reqMain)
        /\ cntMain' = IF Temps = {} THEN cntMain ELSE cntMain + 1
     \/ ~MayServe(reqMain, cntMain) /\ mon # {} /\ Enter(TempAfter(0)) /\ UNCHANGED reqMain
     \/ ~MayServe(reqMain, cntMain) /\ mon = {} /\ cntMain' = 0 /\ UNCHANGED <<main, reqMain>>
  /\ UNCHANGED <<unit, regs, seen, auxFsm, reply, lost, faults>>

MainWb ==
  /\ main.at = "WB" /\ main' = Goto("IDLE")
  /\ Answer(main.rq, bias)
  /\ bias' = IF main.rq.op = "wr" /\ faults' = faults THEN main.rq.v ELSE bias
  /\ UNCHANGED <<pw, hot, regs, seen, cntMain, reqMain, auxFsm>>

\* A read that fails latches nothing; an address write that fails latches FFFF
\* in every cycle until the bus is free.
MainTemp ==
  \E k \in {i \in 1 .. 3 : main.at = Order[i]} :
    /\ \/ Clean /\ prev' = (prev \ {Order[k]}) \cup (nok \cap {Order[k]})
                /\ nok' = (nok \ {Order[k]}) \cup (hot \cap {Order[k]})
       \/ Fault /\ UNCHANGED <<nok, prev>>
       \/ Fault /\ nok' = nok \cup {Order[k]} /\ prev' = prev \cup {Order[k]}
    /\ Enter(TempAfter(k))
    /\ UNCHANGED <<unit, regs, enL, biasL, valid, reqMain, auxFsm, reply, lost>>

\* READ_BIAS_MASK, one ADC channel, and COMPARE_TEMPS.
MainCompare ==
  /\ main.at = "BIAS"
  /\ \/ Clean /\ biasL' = bias /\ valid' = valid \cup (IF "PWR" \in mon THEN {"bias"} ELSE {})
     \/ Fault /\ UNCHANGED <<biasL, valid>>
  /\ UNCHANGED <<unit, regs, nok, prev, enL, cntMain, reqMain, auxFsm, reply, lost>>
  /\ main' = IF OffHalves' # {} /\ biasL' # {}
             THEN [at |-> "OFF", rq |-> [op |-> "wr", half |-> "low", v |-> KeepBias']] ELSE Goto("IDLE")

MainOff ==
  /\ main.at = "OFF" /\ main' = Goto("IDLE")
  /\ (Clean /\ bias' = main.rq.v) \/ (Fault /\ UNCHANGED bias)
  /\ UNCHANGED <<pw, hot, regs, seen, cntMain, reqMain, auxFsm, reply, lost>>

(***************************************************************************)
(* Auxiliary bus: turn off, then read the power enables back.              *)
(***************************************************************************)
TurnOff(half) == [at |-> IF half = "low" THEN "OFF_low" ELSE "OFF_high",
                  rq |-> [op |-> "wr", half |-> half, v |-> KeepPw \cap Part(half)]]
Expander(half, S) == (pw \ Part(half)) \cup (S \cap Part(half))

AuxIdle ==
  /\ aux.at = "IDLE"
  /\ \/ /\ MayServe(reqAux, cntAux)
        /\ aux' = [at |-> "WB", rq |-> Head(reqAux)] /\ reqAux' = Tail(reqAux)
        /\ cntAux' = IF OffHalves = {} THEN cntAux ELSE cntAux + 1
     \/ /\ ~MayServe(reqAux, cntAux) /\ UNCHANGED reqAux /\ cntAux' = 0
        /\ aux' = IF "low" \in OffHalves THEN TurnOff("low")
                  ELSE IF "high" \in OffHalves THEN TurnOff("high")
                  ELSE IF mon # {} THEN Goto("READ") ELSE aux
  /\ UNCHANGED <<unit, regs, seen, mainFsm, reply, lost, faults>>

AuxWb ==
  /\ aux.at = "WB" /\ aux' = Goto("IDLE")
  /\ Answer(aux.rq, pw \cap Part(aux.rq.half))
  /\ pw' = IF aux.rq.op = "wr" /\ faults' = faults THEN Expander(aux.rq.half, aux.rq.v) ELSE pw
  /\ UNCHANGED <<bias, hot, regs, seen, mainFsm, cntAux, reqAux>>

AuxOff ==
  /\ aux.at \in {"OFF_low", "OFF_high"}
  /\ (Clean /\ pw' = Expander(aux.rq.half, aux.rq.v)) \/ (Fault /\ UNCHANGED pw)
  /\ aux' = IF aux.at = "OFF_low" /\ "high" \in OffHalves THEN TurnOff("high")
            ELSE IF mon # {} THEN Goto("READ") ELSE Goto("IDLE")
  /\ UNCHANGED <<bias, hot, regs, seen, mainFsm, cntAux, reqAux, reply, lost>>

\* Both expanders are read one after the other; the second makes them valid.
AuxRead ==
  /\ aux.at = "READ" /\ aux' = Goto("IDLE")
  /\ \/ Clean /\ enL' = pw /\ valid' = valid \cup (IF "PWR" \in mon THEN {"pw"} ELSE {})
     \/ Fault /\ \E half \in {"low", "high"} :
          /\ enL' = (enL \cap Part(half)) \cup (pw \ Part(half))
          /\ valid' = valid \cup (IF "PWR" \in mon /\ half = "low" THEN {"pw"} ELSE {})
  /\ UNCHANGED <<unit, regs, nok, prev, biasL, mainFsm, cntAux, reqAux, reply, lost>>

(***************************************************************************)
(* The power unit: over-current trips, and temperatures that come and go.  *)
(***************************************************************************)
ChannelTrips ==
  /\ Fault /\ \/ \E m \in pw : pw' = pw \ {m} /\ UNCHANGED bias
              \/ \E c \in bias : bias' = bias \ {c} /\ UNCHANGED pw
  /\ UNCHANGED <<hot, regs, seen, mainFsm, auxFsm, reply, lost>>

Heats ==
  /\ Fault /\ \E s \in Sensor \ hot : hot' = hot \cup {s}
  /\ UNCHANGED <<pw, bias, regs, seen, mainFsm, auxFsm, reply, lost>>

Cools ==
  /\ \E s \in hot : hot' = hot \ {s}
  /\ UNCHANGED <<pw, bias, regs, seen, mainFsm, auxFsm, reply, lost, faults>>

MainStep == MainIdle \/ MainWb \/ MainTemp \/ MainCompare \/ MainOff
AuxStep  == AuxIdle \/ AuxWb \/ AuxOff \/ AuxRead

------------------------------------------------------------------------------
(***************************************************************************)
(* Power unit software (power_unit.py, pu_controller.py, testbench.py)     *)
(* over the power unit controller.  A call is a program: the list of the   *)
(* register accesses, bus requests and assertions it makes in order.  A    *)
(* failed assertion inside the try block runs power_off_all and raises.    *)
(***************************************************************************)
CONSTANTS
  Lists,         \* module lists that are powered on
  Bias,          \* values of backbias_en
  DisableOnOff,  \* values of disable_power_interlock
  Polled,        \* buses that monitoring reads all the time
  MaxCalls       \* bound on calls

ASSUME CallsKnown ==
  /\ Lists \subseteq Seq(Module) \ {<<>>}       \* with an empty list nothing is done
  /\ Bias \subseteq BOOLEAN /\ DisableOnOff \subseteq BOOLEAN
  /\ MaxCalls \in Nat

VARIABLES
  prog,      \* what is left of the running call
  guarded,   \* inside the try block of power_on_modules
  asked,     \* a read was sent and not answered
  call,      \* last call: "none", "on", "off" (interlock disabled first), "plain_off"
  fresh,     \* the last power-on began with all off, no interlock and no turn-off under way
  failed,    \* the last call raised
  calls      \* calls made

swVars == <<prog, guarded, asked, call, fresh, failed, calls>>
vars   == <<fwVars, swVars>>

Do(what, half, set) == [do |-> what, half |-> half, v |-> set]

\* enable_power_with_mask, get_power_enable_status, log_enable_status
SetPower(S)     == <<Do("aux", "low", S \cap Part("low")), Do("aux", "high", S \cap Part("high"))>>
Status(S, B)    == <<Do("read_aux", "low", S \cap Part("low")), Do("read_aux", "high", S \cap Part("high")),
                     Do("read_main", "low", B)>>

\* Mutant: the interlock is enabled before its masks are written.
ArmEarly(S, B) == <<Do("pwr_on", "low", {}), Do("mask_pw", "low", S), Do("mask_bias", "low", B)>>
Arm(S, B) == <<Do("mask_pw", "low", S), Do("mask_bias", "low", B), Do("pwr_on", "low", {})>>
Disarm    == <<Do("pwr_off", "low", {}), Do("mask_pw", "low", {}), Do("mask_bias", "low", {})>>

\* power_off_all
\* Mutant: the interlock is disabled last.
PowerOffLate(disable) ==
  SetPower({}) \o <<Do("main", "low", {})>> \o (IF disable THEN Disarm ELSE <<>>)
PowerOff(disable) ==
  (IF disable THEN Disarm ELSE <<>>) \o SetPower({}) \o <<Do("main", "low", {})>>

\* power_on_modules
PowerOn(list, back) ==
  LET B == IF back THEN Range(list) \cap Channel ELSE {}
      S(k) == {list[i] : i \in 1 .. k}
      Five(k) == SetPower(S(k)) \o Status(S(k), B)
  IN  <<Do("armed", "low", {}), Do("fired", "low", {}), Do("try", "low", {})>>
      \o (IF back THEN <<Do("main", "low", B)>> \o Status({}, B) ELSE <<>>)
      \o [i \in 1 .. 5 * Len(list) |-> Five(((i - 1) \div 5) + 1)[((i - 1) % 5) + 1]]
      \o <<Do("check", "low", {})>> \o Arm(Range(list), B)
      \o <<Do("fired", "low", {})>> \o Status(Range(list), B) \o <<Do("check", "low", {})>>

\* disable_all_interlocks, enable_temperature_interlock and reset_tripped_latch before a power-on
Prepare == <<Do("temps", "low", {})>> \o Disarm \o <<Do("arm_temps", "low", {}), Do("clear", "low", {})>>

\* After a reset, or powered and armed by an earlier power-on.
Init ==
  /\ prog = <<>> /\ guarded = FALSE /\ asked = FALSE
  /\ fresh = FALSE /\ failed = FALSE /\ calls = 0
  /\ \/ FwInit(Sensor, {}, {}, {}) /\ call = "none"
     \/ /\ call = "on"
        /\ \E list \in Lists, back \in Bias :
             FwInit(Sensor \cup {"PWR"}, Range(list), IF back THEN Range(list) \cap Channel ELSE {}, {"pw", "bias"})

Begin(p, name, starts) ==
  /\ prog = <<>> /\ calls < MaxCalls /\ calls' = calls + 1
  /\ prog' = p /\ call' = name /\ fresh' = starts /\ failed' = FALSE
  /\ lost' = (lost /\ name = call)
  /\ UNCHANGED <<unit, regs, seen, mainFsm, auxFsm, reply, faults, guarded, asked>>

CallPowerOn == \E list \in Lists, back \in Bias :
  Begin(PowerOn(list, back), "on", /\ pw = {} /\ bias = {} /\ "PWR" \notin mon /\ ~tripped
                                   /\ OffHalves = {} /\ Sensor \subseteq mon
                                   /\ main.at # "OFF" /\ aux.at \notin {"OFF_low", "OFF_high"})
CallPowerOff == \E disable \in DisableOnOff :
  Begin(PowerOff(disable), IF disable THEN "off" ELSE "plain_off", FALSE)
CallPrepare == Begin(Prepare, IF call = "off" THEN "off" ELSE "none", FALSE)

Advance == /\ prog' = Tail(prog) /\ UNCHANGED <<failed, call>>
           /\ guarded' = ((guarded \/ Head(prog).do = "try") /\ prog' # <<>>)
Raise   == /\ prog' = IF guarded THEN PowerOff(FALSE) ELSE <<>>
           /\ guarded' = FALSE /\ failed' = TRUE
           /\ call' = IF guarded THEN "plain_off" ELSE "none"

\* Registers of the controller and assertions on them.
SwRegister ==
  /\ prog # <<>>
  /\ LET d == Head(prog) IN
     /\ \/ /\ d.do \in {"mask_pw", "mask_bias", "pwr_on", "pwr_off", "temps", "arm_temps", "clear", "try"}
           /\ expPw' = IF d.do = "mask_pw" THEN d.v ELSE expPw
           /\ expBias' = IF d.do = "mask_bias" THEN d.v ELSE expBias
           /\ mon' = CASE d.do = "pwr_on" -> mon \cup {"PWR"}    [] d.do = "pwr_off" -> mon \ {"PWR"}
                       [] d.do = "temps" -> mon \ Sensor         [] d.do = "arm_temps" -> mon \cup Sensor
                       [] OTHER -> mon
           /\ valid' = IF "PWR" \in mon' THEN valid ELSE {}
           /\ Advance /\ UNCHANGED faults
        \/ /\ d.do = "armed" /\ (IF Sensor \subseteq mon THEN Advance ELSE Raise)
           /\ UNCHANGED <<regs, valid, faults>>
        \/ /\ d.do = "fired" /\ (IF tripped THEN Raise ELSE Advance)
           /\ UNCHANGED <<regs, valid, faults>>
        \/ /\ d.do = "check" /\ ((Clean /\ Advance) \/ (Fault /\ Raise))
           /\ UNCHANGED <<regs, valid>>
  /\ UNCHANGED <<unit, nok, prev, enL, biasL, mainFsm, auxFsm, reply, lost, asked, fresh, calls>>
  /\ tripped' = (OffHalves' # {} \/ (tripped /\ Head(prog).do # "clear"))

\* A write is queued and forgotten; a read is queued and waited for.
SwSend ==
  /\ prog # <<>> /\ ~asked
  /\ LET d == Head(prog)
         rq == [op |-> IF d.do \in {"aux", "main"} THEN "wr" ELSE "rd", half |-> d.half,
                v |-> IF d.do \in {"aux", "main"} THEN d.v ELSE {}]
     IN  /\ d.do \in {"aux", "main", "read_aux", "read_main"}
         /\ IF d.do \in {"aux", "read_aux"}
            THEN reqAux' = Append(reqAux, rq) /\ UNCHANGED reqMain
            ELSE reqMain' = Append(reqMain, rq) /\ UNCHANGED reqAux
         /\ asked' = (rq.op = "rd")
         /\ IF rq.op = "wr" THEN Advance ELSE UNCHANGED <<prog, guarded, failed, call>>
  /\ UNCHANGED <<unit, regs, seen, main, cntMain, aux, cntAux, reply, tripped, lost, faults, fresh, calls>>

SwReply ==
  /\ asked /\ reply # <<>> /\ reply' = <<>> /\ asked' = FALSE
  /\ IF reply[1].ok /\ reply[1].v = Head(prog).v THEN Advance ELSE Raise
  /\ UNCHANGED <<unit, regs, seen, mainFsm, auxFsm, tripped, lost, faults, fresh, calls>>

\* Monitoring reads the buses all the time.
Poll ==
  /\ \/ "main" \in Polled /\ (\A i \in DOMAIN reqMain : reqMain[i].op # "poll")
        /\ reqMain' = Append(reqMain, [op |-> "poll", half |-> "low", v |-> {}]) /\ UNCHANGED reqAux
     \/ "aux" \in Polled /\ (\A i \in DOMAIN reqAux : reqAux[i].op # "poll")
        /\ reqAux' = Append(reqAux, [op |-> "poll", half |-> "low", v |-> {}]) /\ UNCHANGED reqMain
  /\ UNCHANGED <<unit, regs, seen, main, cntMain, aux, cntAux, reply, tripped, lost, faults, swVars>>

Firmware == (MainStep \/ AuxStep) /\ Latch /\ UNCHANGED swVars
World    == (ChannelTrips \/ Heats \/ Cools) /\ Latch /\ UNCHANGED swVars
Software == SwRegister \/ SwSend \/ SwReply
Calls    == (CallPowerOn \/ CallPowerOff \/ CallPrepare) /\ Latch
Next     == Firmware \/ World \/ Software \/ Calls \/ Poll

\* The machines and the software run on; nothing is assumed of the power unit.
Spec == /\ Init /\ [][Next]_vars
        /\ WF_vars(MainStep /\ Firmware) /\ WF_vars(AuxStep /\ Firmware) /\ WF_vars(Software)

\* Type correctness, of the queues of both buses and the running call among others.
TypeOK ==
  /\ FwTypeOK /\ call \in {"none", "on", "off", "plain_off"} /\ calls \in 0 .. MaxCalls
  /\ {guarded, asked, fresh, failed} \subseteq BOOLEAN
  /\ asked => prog # <<>> /\ Head(prog).do \in {"read_aux", "read_main"}
  /\ reply # <<>> => asked

\* power_off_all with the interlock disabled turns everything off for good:
\* no turn-off of the interlock that is still under way brings a module back.
Served(q, fsm) == fsm.at # "WB" /\ \A i \in DOMAIN q : q[i].op # "wr"
AllServed == prog = <<>> /\ ~lost /\ Served(reqMain, main) /\ Served(reqAux, aux)
OffStaysOff == call = "off" /\ AllServed => pw = {} /\ bias = {}

\* A power-on that begins with everything off, no interlock enabled and no
\* turn-off of one under way raises only after a fault: the interlock never
\* mistakes it for a trip.
CleanPowerOn == fresh /\ failed => faults > 0

\* An overheating that lasts, and that the monitors measure, ends with all off.
OverheatedGoesOff == <>[](HotHalves = {"low", "high"}) => <>[](pw = {} /\ bias = {})

\* Every call returns or raises, whatever monitoring asks for in the meantime.
CallsEnd == []<>(prog = <<>>)
==============================================================================
