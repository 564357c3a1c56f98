----------------------------- MODULE TestProgram -----------------------------
(***************************************************************************)
(* How the test programs of src/software/py drive the staves: a program is *)
(* the sequence of things it still has to do, todo.  Any of its calls to   *)
(* the hardware can raise and the user can interrupt it; an exception      *)
(* drops what is left of the innermost try that catches it.  The hardware  *)
(* is what the calls change: which power units feed which stave, where the *)
(* chip clock goes, which chips take triggers and where triggers are sent. *)
(* A readout unit is reached through the CRU, the power units and chips of *)
(* a stave through its readout unit.                                       *)
(***************************************************************************)
EXTENDS Integers, SequencesExt
CONSTANTS RdoList,      \* Testbench.rdo_list: the readout units, one per stave
          MaxUpsets     \* bound on failing calls, interrupts, trips and overheatings
ASSUME RdoListAssumption == IsInjective(RdoList) /\ RdoList # <<>>
ASSUME MaxUpsetsAssumption == MaxUpsets \in Nat
VARIABLES conf,         \* the configuration file and the program that was started
          todo,         \* what the program still has to do, first item first
          on,           \* the <<stave, power unit>> that are switched on
          clock,        \* the staves the chip clock is propagated to
          trig,         \* the staves whose chips are in triggered mode
          sent,         \* the staves triggers are sent to
          data,         \* the readout units that let the data of their stave through
          dead,         \* the devices that do not answer any more
          fdaq,         \* the fdaq process runs
          over,         \* TEST_DURATION has passed
          py,           \* attributes and locals of the program that outlive a call
          seen,         \* history: what the properties ask about
          upsets
vars == <<conf, todo, on, clock, trig, sent, data, dead, fdaq, over, py, seen, upsets>>
hardware == <<on, clock, trig, sent, data, dead, fdaq>>

Rdo == ToSet(RdoList)
Exception == {"Exception", "WishboneReadError", "KeyboardInterrupt"}
\* Only the inner barrel's tests tell a failed read of the bus from other failures.
Raised == IF conf.program \in {"ib", "ib_scan"} THEN {"Exception", "WishboneReadError"}
          ELSE {"Exception"}
\* Mutant: power units counted from zero.
UnitsFromZero == IF conf.layer = "outer" THEN <<0, 1>> ELSE <<0>>
Units == IF conf.layer = "outer" THEN <<1, 2>> ELSE <<1>>
Powered(r) == \A i \in DOMAIN Units : <<r, Units[i]>> \in on
Device == {<<"cru">>} \cup {"rdo", "pu", "chip"} \X Rdo
Path(c) == {<<"cru">>} \cup (IF c.dev = "cru" THEN {} ELSE {"rdo", c.dev} \X c.rs)
-----------------------------------------------------------------------------
(***************************************************************************)
(* The items of a program.                                                 *)
(***************************************************************************)
Call(dev, rs, act, u) == <<[op |-> "call", dev |-> dev, rs |-> rs, act |-> act, u |-> u]>>
Check(dev, r)         == Call(dev, {r}, "check", 0)     \* calls that change nothing modelled
CheckAll(dev)         == Call(dev, Rdo, "check", 0)
Try(body, handlers)   == <<[op |-> "try", body |-> body, do |-> handlers, last |-> <<>>]>>
Raise(e)              == <<[op |-> "raise", e |-> e]>>
Finally(body, last)   == <<[op |-> "try", body |-> body, last |-> last,
                            do |-> [e \in Exception |-> last \o Raise(e)]]>>
Fn(body)              == <<[op |-> "fn", body |-> body]>>
Return                == <<[op |-> "return"]>>
Set(f, v)             == <<[op |-> "set", f |-> f, v |-> v]>>
Note(f, v)            == <<[op |-> "note", f |-> f, v |-> v]>>      \* history only
When(f, v, body)      == <<[op |-> "when", f |-> f, v |-> v, body |-> body]>>
Maybe(body)           == <<[op |-> "maybe", body |-> body]>>
IfHot(body)           == <<[op |-> "hot", body |-> body]>>
Failed(r)             == <<[op |-> "failed", r |-> r]>>             \* history only
Loop(body)            == <<[op |-> "loop", body |-> body]>>
Poll                  == <<[op |-> "poll"]>>
Join                  == <<[op |-> "join"]>>
Done                  == <<[op |-> "done"]>>                        \* the time frames are sent
Worst(v)              == <<[op |-> "worst", v |-> v]>>              \* IBTest.set_return_code

Each(Body(_)) == FlattenSeq([i \in DOMAIN RdoList |-> Body(RdoList[i])])
EachUnit(Body(_)) == FlattenSeq([i \in DOMAIN Units |-> Body(Units[i])])
-----------------------------------------------------------------------------
(***************************************************************************)
(* What a call does to the hardware.  Chips need power and clock to answer.*)
(***************************************************************************)
Answers(c) == /\ Path(c) \cap dead = {}
              /\ c.dev = "chip" => \A r \in c.rs : Powered(r) /\ r \in clock
              /\ c.act = "expect_on" => \A r \in c.rs : <<r, c.u>> \in on
              /\ c.act = "expect_off" => \A r \in c.rs : <<r, c.u>> \notin on

PowerOf(c) == on' = (IF c.act = "power_on" THEN on \cup (c.rs \X {c.u})
                     ELSE IF c.act = "power_off" THEN on \ (c.rs \X {c.u}) ELSE on)
ModeOf(c) == trig' = (IF c.act = "triggered" THEN trig \cup c.rs
                      ELSE IF c.act \in {"configuration", "power_on", "power_off"} THEN trig \ c.rs
                      ELSE trig)
Effect(c) ==
    /\ PowerOf(c) /\ ModeOf(c)
    /\ clock' = (IF c.act = "clock_on" THEN clock \cup c.rs
                 ELSE IF c.act = "clock_off" THEN clock \ c.rs ELSE clock)
    /\ sent' = (IF c.act = "start" THEN sent \cup c.rs
                ELSE IF c.act = "stop" THEN sent \ c.rs ELSE sent)
    /\ data' = (IF c.act = "data_on" THEN data \cup c.rs
                ELSE IF c.act = "data_off" THEN data \ c.rs ELSE data)
    /\ fdaq' = (fdaq \/ c.act = "fdaq")
NoEffect == UNCHANGED <<on, clock, trig, sent, data, fdaq>>

(***************************************************************************)
(* An exception goes to the innermost try that catches it.                 *)
(***************************************************************************)
Unwind(e, s) ==
    LET i == SelectInSeq(s, LAMBDA x : x.op = "caught" /\ e \in DOMAIN x.do)
    IN  IF i = 0 THEN <<>> ELSE s[i].do[e] \o SubSeq(s, i + 1, Len(s))
-----------------------------------------------------------------------------
item == Head(todo)
At(op) == todo # <<>> /\ item.op = op
Go(s) == todo' = s \o Tail(todo)
Upsets == upsets < MaxUpsets /\ upsets' = upsets + 1

\* Histories: what the program switched on, the staves a shutdown call failed for.
On(c) == IF c.act = "power_on" THEN seen.mine \cup (c.rs \X {c.u}) ELSE seen.mine
Lost(c) == IF seen.down THEN seen.lost \cup c.rs ELSE seen.lost

Succeed == /\ At("call") /\ Answers(item)
           /\ Effect(item) /\ Go(<<>>)
           /\ seen' = [seen EXCEPT !.mine = On(item)]
           /\ UNCHANGED <<conf, dead, over, py, upsets>>

(***************************************************************************)
(* A call on a dead or unpowered device raises; any other call may raise   *)
(* once, before or after it had its effect, and a device on the way may    *)
(* stay dead from then on.  The user may interrupt a call as well.         *)
(***************************************************************************)
Refuse == /\ At("call") /\ ~Answers(item)
          /\ \E e \in Raised : todo' = Unwind(e, todo)
          /\ seen' = [seen EXCEPT !.lost = Lost(item)]
          /\ UNCHANGED <<hardware, conf, over, py, upsets>>

Fail == /\ At("call") /\ Answers(item) /\ Upsets
        /\ \E e \in Raised : todo' = Unwind(e, todo)
        /\ \/ Effect(item) /\ seen' = [seen EXCEPT !.mine = On(item), !.lost = Lost(item)]
           \/ NoEffect /\ seen' = [seen EXCEPT !.lost = Lost(item)]
        /\ dead' \in {dead} \cup {dead \cup {d} : d \in Path(item)}
        /\ UNCHANGED <<conf, over, py>>

Interrupt == /\ todo # <<>> /\ item.op \in {"call", "poll", "join", "done"} /\ Upsets
             /\ todo' = Unwind("KeyboardInterrupt", todo)
             /\ seen' = [seen EXCEPT !.lost = IF item.op = "call" THEN Lost(item) ELSE @]
             /\ UNCHANGED <<hardware, conf, over, py>>

(***************************************************************************)
(* Items that only move in the program: try and its end, raise, a function *)
(* and its return, assignments and conditions.                             *)
(***************************************************************************)
Move ==
    /\ \/ At("try") /\ Go(item.body \o <<[op |-> "caught", do |-> item.do, last |-> item.last]>>)
       \/ At("caught") /\ Go(item.last)
       \/ At("raise") /\ todo' = Unwind(item.e, todo)
       \/ At("fn") /\ Go(item.body \o <<[op |-> "end"]>>)
       \/ At("end") /\ Go(<<>>)
       \/ At("return") /\ todo' = SubSeq(todo, SelectInSeq(todo, LAMBDA x : x.op = "end") + 1, Len(todo))
       \/ At("when") /\ Go(IF py[item.f] = item.v THEN item.body ELSE <<>>)
       \/ At("maybe") /\ (Go(<<>>) \/ Go(item.body))
       \/ At("loop") /\ Go(IF over THEN <<>> ELSE item.body \o <<item>>)
       \/ At("join") /\ ~fdaq /\ Go(<<>>)
       \/ At("done") /\ sent = {} /\ Go(<<>>)
    /\ UNCHANGED <<hardware, conf, over, py, seen, upsets>>
Assign == /\ \/ At("set") /\ py' = [py EXCEPT ![item.f] = item.v] /\ UNCHANGED seen
             \/ At("worst") /\ py' = [py EXCEPT !.codes = @ \cup {item.v}] /\ UNCHANGED seen
             \/ At("note") /\ seen' = [seen EXCEPT ![item.f] = item.v] /\ UNCHANGED py
             \/ At("failed") /\ seen' = [seen EXCEPT !.failed = @ \cup {item.r}] /\ UNCHANGED py
          /\ Go(<<>>)
          /\ UNCHANGED <<hardware, conf, over, upsets>>

(***************************************************************************)
(* The threshold scan waits until the triggers of an injection have been   *)
(* processed; after 500 looks it goes on and the test has failed.          *)
(***************************************************************************)
\* Mutant: looks again until the triggers are done.
WaitForever == /\ At("poll") /\ sent = {} /\ Go(<<>>)
               /\ UNCHANGED <<hardware, conf, over, py, seen, upsets>>
Wait == /\ At("poll") /\ Go(<<>>)
        /\ py' = IF sent = {} THEN py ELSE [py EXCEPT !.test_pass = FALSE]
        /\ UNCHANGED <<hardware, conf, over, seen, upsets>>

(***************************************************************************)
(* The temperature read with the values is above the limit of the software.*)
(***************************************************************************)
Measure == /\ At("hot")
           /\ \/ Go(<<>>) /\ UNCHANGED upsets
              \/ Go(item.body) /\ Upsets
           /\ UNCHANGED <<hardware, conf, over, py, seen>>

Step == Succeed \/ Refuse \/ Move \/ Assign \/ Wait \/ Measure
-----------------------------------------------------------------------------
(***************************************************************************)
(* The surroundings: a unit trips, time passes, the sequencers finish the  *)
(* time frames they were given, fdaq ends after its own timeout.           *)
(***************************************************************************)
Trip == /\ At("call") /\ Upsets
        /\ \E x \in on : /\ on' = on \ {x} /\ trig' = trig \ {x[1]}
                        /\ seen' = [seen EXCEPT !.tripped = @ \cup {x[1]}]
        /\ UNCHANGED <<conf, todo, clock, sent, data, dead, fdaq, over, py>>
TimeIsOver == /\ (\E i \in DOMAIN todo : todo[i].op = "loop") /\ ~over /\ over' = TRUE
              /\ UNCHANGED <<hardware, conf, todo, py, seen, upsets>>
InjectionEnds == /\ conf.program \in {"threshold", "ib_scan"}
                 /\ \E r \in sent : sent' = sent \ {r}
                 /\ UNCHANGED <<conf, todo, on, clock, trig, data, dead, fdaq, over, py, seen, upsets>>
FdaqEnds == /\ fdaq /\ fdaq' = FALSE
            /\ UNCHANGED <<conf, todo, on, clock, trig, sent, data, dead, over, py, seen, upsets>>

Next == \/ Step \/ Fail \/ Interrupt
        \/ Trip \/ TimeIsOver \/ InjectionEnds \/ FdaqEnds

------------------------------------------------------------------------------
(***************************************************************************)
(* Switching staves on and off, src/software/py/testbench.py and obtest.py:*)
(* one stave of the inner, middle or outer layers, all staves, and the     *)
(* emergency.  Testbench.rdo is the first readout unit of the list.        *)
(***************************************************************************)
Default == RdoList[1]
OnException(s) == [e \in {"Exception", "WishboneReadError"} |-> s]
OnAny(s) == [e \in Exception |-> s]

(***************************************************************************)
(* PowerUnit.power_on_modules: whatever fails after the first assertions   *)
(* switches the unit off again.                                            *)
(***************************************************************************)
PowerOnModules(r, u) ==
    Check("pu", r) \o
    Try(Call("pu", {r}, "power_on", u) \o Call("pu", {r}, "expect_on", u),
        OnException(Call("pu", {r}, "power_off", u) \o Check("pu", r) \o Raise("Exception")))

PowerOff(r) ==
    Check("pu", r) \o EachUnit(LAMBDA u : Call("pu", {r}, "power_off", u))

PowerOffStave(r) ==
    PowerOff(r) \o
    (IF conf.layer = "inner"
     THEN Call("rdo", {r}, "clock_off", 0) \o Check("pu", r)
     ELSE Check("pu", r) \o Call("rdo", {r}, "clock_off", 0))

\* testbench.setup_sensors: reset, settings, and triggered mode whatever its mode says.
SetupSensorsIb(r) == Call("chip", {r}, "configuration", 0) \o Call("chip", {r}, "triggered", 0)
SetupSensorsOb(r) == Check("pu", r) \o Call("chip", {r}, "configuration", 0) \o Check("pu", r)

PowerOnSteps(r) ==
    Check("pu", r) \o Call("rdo", {r}, "clock_off", 0) \o
    EachUnit(LAMBDA u : PowerOnModules(r, u)) \o
    Check("pu", r) \o Call("rdo", {r}, "clock_on", 0) \o
    EachUnit(LAMBDA u : Call("pu", {r}, "expect_on", u)) \o
    (IF conf.layer = "inner" THEN SetupSensorsIb(r) ELSE <<>>) \o
    Check("pu", r)

\* What is switched off when a power-on failed.
PowerOffFailed(r) == PowerOffStave(IF conf.layer = "outer" THEN r ELSE Default)

PowerOnStave(r) ==
    Try(PowerOnSteps(r), OnException(Failed(r) \o PowerOffFailed(r) \o Raise("Exception")))

PowerOnAllIb == Each(LAMBDA r : Try(PowerOnStave(r), OnException(<<>>)))

\* ObTest._power_configure_correct_drop
PowerOnAllOb ==
    Each(LAMBDA r : Try(PowerOnStave(r) \o Check("pu", r) \o SetupSensorsOb(r),
                        OnException(Failed(r) \o PowerOffStave(r) \o Raise("Exception"))))

EmergencyOff ==
    Note("down", TRUE) \o
    Each(LAMBDA r : Try(EachUnit(LAMBDA u : Call("pu", {r}, "power_off", u) \o Check("pu", r)),
                        OnAny(<<>>))) \o
    Each(LAMBDA r : Try(Check("pu", r), OnAny(<<>>)))
==============================================================================
