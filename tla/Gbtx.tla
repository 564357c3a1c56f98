--------------------------------- MODULE Gbtx ---------------------------------
(***************************************************************************)
(* The registers of a GBTx chip, on an I2C bus with two masters: the main  *)
(* FPGA of the readout unit, whose master keeps an address and counts      *)
(* bytes and errors, and the slow control chip (SCA).  Programs reach      *)
(* either of them over the same card.                                      *)
(*                                                                         *)
(* Each flush to the readout unit takes the lock of the card, and an       *)
(* access that checks is three of them: the address, the data, the         *)
(* counters.  An access over the SCA keeps the lock from start to end.     *)
(***************************************************************************)
EXTENDS Integers, Sequences, FiniteSets

CONSTANTS
  Processes,
  Situations   \* the master of each process, functions of GBTx and RUBoard, calls and unanswered transfers

\* A few registers: the first one, one with reset bits, the charge pump in
\* its upper half, three with the same switches, the last of the
\* configuration, and the state of the power-up machine.
Probe == 0
Reset == 1
Pump == 2
Switches == <<3, 4, 5>>
Restart == 6
State == 7
Registers == 0..8
Paused == 5
Idle == 24
Stopped == 0
Nothing == 255   \* what a read returns that nobody answered

\* The configuration of a file, in the order of the file: the last register
\* starts the power-up machine.
Config == <<[reg |-> Reset, value |-> 8], [reg |-> Pump, value |-> 5], [reg |-> Restart, value |-> 1]>>
PumpSetting == 8
SwitchSetting == 21

VARIABLES
  usage,                           \* the situation
  cells, fsm,                      \* the GBTx: registers, power-up machine
  pointer, counted,                \* the master of the main FPGA: address of the next byte, what it counted
  running, nth, stage, seen, ok,   \* a process: its function, the access and its step, what it has read, verdict
  \* history
  mixed,     \* someone else used the master in the middle of this access
  spoilt,    \* ... of an access of this call, or wrote one of its registers
  found,     \* registers at the start of a call
  told,      \* how the last access ended
  ending,    \* how the last call ended
  ncalls, faults

gbtx == <<cells, fsm>>
master == <<pointer, counted>>
gvars == <<usage, gbtx, master, running, nth, stage, seen, ok, mixed, spoilt, found, told, ending, ncalls, faults>>

-----------------------------------------------------------------------------
\* The accesses of a function.  A value is written as it is, or made from the
\* first word that was read.
Rd(r) == [do |-> "read", reg |-> r, to |-> "none", value |-> 0, check |-> TRUE]
Wr(r, v) == [do |-> "write", reg |-> r, to |-> "value", value |-> v, check |-> TRUE]
Made(r, how) == [Wr(r, 0) EXCEPT !.to = how]
Unchecked(item) == [item EXCEPT !.check = FALSE]

resets == <<Rd(Reset), Made(Reset, "reset"), Made(Reset, "first")>>
initialize_gbtx0 == <<Rd(Pump), Unchecked(Made(Pump, "pump")), Unchecked(Rd(Pump))>>
setreg_tx_switches_control == [i \in 1..3 |-> Wr(Switches[i], SwitchSetting)]
getreg_tx_switches_control == [i \in 1..3 |-> Rd(Switches[i])]
gbtx_config(check) == [i \in DOMAIN Config |-> [Wr(Config[i].reg, Config[i].value) EXCEPT !.check = check]]
check_gbtx_config == [i \in DOMAIN Config |-> Rd(Config[i].reg)]
configure(check) == <<Rd(Probe), Rd(State)>> \o gbtx_config(check) \o <<Rd(State)>>
initialize_gbtx(check) == configure(check) \o check_gbtx_config

Items(c) ==
  CASE c = "reset" -> resets
    [] c = "charge pump" -> initialize_gbtx0
    [] c = "set switches" -> setreg_tx_switches_control
    [] c = "get switches" -> getreg_tx_switches_control
    [] c = "initialize" -> initialize_gbtx(FALSE)
    [] c = "initialize, check" -> initialize_gbtx(TRUE)
Configures == {"initialize", "initialize, check"}
AfterConfig == Len(Config) + 3
Item(p) == Items(running[p])[nth[p]]
RegsOf(c) == {Items(c)[i].reg : i \in DOMAIN Items(c)}

ValueOf(item, words) ==
  CASE item.to = "value" -> item.value
    [] item.to = "reset" -> 8 * (words[1] \div 8) + 7
    [] item.to = "first" -> words[1]
    [] item.to = "pump" -> 16 * PumpSetting + (words[1] % 16)

NoCounts == [bytes |-> FALSE, errors |-> FALSE]
GInit ==
  /\ usage \in Situations
  /\ cells = [r \in Registers |-> 0]
  /\ fsm \in {Paused, Stopped}
  /\ pointer = 0 /\ counted = NoCounts
  /\ running = [p \in Processes |-> "none"] /\ nth = [p \in Processes |-> 0]
  /\ stage = [p \in Processes |-> "none"] /\ seen = [p \in Processes |-> <<>>] /\ ok = [p \in Processes |-> TRUE]
  /\ mixed = [p \in Processes |-> FALSE] /\ spoilt = [p \in Processes |-> FALSE]
  /\ found = [p \in Processes |-> cells]
  /\ told = [p \in Processes |-> [checked |-> FALSE, mixed |-> FALSE, hit |-> TRUE, raised |-> FALSE]]
  /\ ending = [p \in Processes |-> [result |-> "none", spoilt |-> FALSE, good |-> TRUE]]
  /\ ncalls = 0 /\ faults = 0

-----------------------------------------------------------------------------
\* p uses the master of the main FPGA: this matters to the others who are in
\* the middle of an access there.
Mix(p) == mixed' = [q \in Processes |-> q # p /\ (mixed[q] \/ stage[q] \in {"data", "verify"})]
MixOthers(p) == mixed' = [q \in Processes |-> mixed[q] \/ (q # p /\ stage[q] \in {"data", "verify"})]
Spoil(p, written) ==
  spoilt' = [q \in Processes |-> spoilt[q] \/ (q = p /\ mixed[q])
                                 \/ (q # p /\ running[q] # "none" /\ written \cap RegsOf(running[q]) # {})]

\* One transfer to or from the register r of the GBTx, answered or not.
Word(r) == IF r = State THEN fsm ELSE cells[r]
Transfer(item, r, words, answered) ==
  /\ faults' = IF answered THEN faults ELSE faults + 1
  /\ answered \/ faults < usage.faults
  /\ IF answered /\ item.do = "write"
     THEN /\ cells' = IF r = State THEN cells ELSE [cells EXCEPT ![r] = ValueOf(item, words)]
          /\ fsm' = IF r = Restart /\ ValueOf(item, words) = 1 /\ fsm = Paused THEN Idle ELSE fsm
     ELSE UNCHANGED gbtx
Written(item, r, answered) == IF answered /\ item.do = "write" THEN {r} ELSE {}
Counted(answered) == IF answered THEN [counted EXCEPT !.bytes = TRUE] ELSE [counted EXCEPT !.errors = TRUE]

\* What a function promises, when it has returned.
Good(c, p) ==
  CASE c = "reset" -> cells'[Reset] = found[p][Reset]
    [] c = "charge pump" -> cells'[Pump] = 16 * PumpSetting + (found[p][Pump] % 16)
    [] c = "set switches" -> \A i \in 1..3 : cells'[Switches[i]] = SwitchSetting
    [] c = "get switches" -> \A i \in 1..3 : cells'[Switches[i]] = found[p][Switches[1]]
    [] c \in Configures -> \A i \in DOMAIN Config : cells'[Config[i].reg] = Config[i].value

\* Mutant: a configuration that is complete is not read back.
GoesOnShort(p, v) ==
  IF running[p] \notin Configures THEN nth[p] + 1
  ELSE IF nth[p] \in {2, AfterConfig} /\ v = Idle THEN Len(Items(running[p])) + 1
  ELSE IF nth[p] = 2 /\ v # Paused THEN AfterConfig + 1
  ELSE nth[p] + 1

\* The access that follows one that has given v: a function that configures
\* looks at the power-up machine first.
GoesOn(p, v) ==
  IF running[p] \notin Configures THEN nth[p] + 1
  ELSE IF nth[p] = 2 /\ v = Idle THEN Len(Items(running[p])) + 1
  ELSE IF nth[p] = 2 /\ v # Paused THEN AfterConfig + 1
  ELSE nth[p] + 1

\* ... and at what it reads: configured, the configuration read back.
Looks(p, v) ==
  IF running[p] \notin Configures THEN ok[p]
  ELSE IF nth[p] = 2 THEN v \in {Paused, Idle}
  ELSE IF nth[p] = AfterConfig THEN v = Idle
  ELSE IF nth[p] > AfterConfig THEN ok[p] /\ v = Config[nth[p] - AfterConfig].value
  ELSE ok[p]

\* The access before which the counters are cleared once more.
ClearsBefore(p, i) == usage.master[p] = "xcku" /\ running[p] \in Configures /\ i \in {3, AfterConfig + 1}

Ends(p, result) ==
  /\ running' = [running EXCEPT ![p] = "none"] /\ nth' = [nth EXCEPT ![p] = 0]
  /\ stage' = [stage EXCEPT ![p] = "none"] /\ seen' = [seen EXCEPT ![p] = <<>>] /\ ok' = [ok EXCEPT ![p] = TRUE]
  /\ ending' = [ending EXCEPT ![p] = [result |-> result, spoilt |-> spoilt'[p], good |-> Good(running[p], p)]]

\* What the function returns after its last access.
Result(p, words, verdict) ==
  CASE running[p] = "get switches" -> IF words[1] = words[2] /\ words[2] = words[3] THEN "returned" ELSE "raised"
    [] running[p] = "charge pump" -> IF words[2] \div 16 = PumpSetting THEN "returned" ELSE "failed"
    [] running[p] \in Configures -> IF ~verdict THEN "failed"
                                 ELSE IF nth[p] = 2 THEN "configured already" ELSE "returned"
    [] OTHER -> "returned"

\* The next access, or the end.
Proceeds(p, i, words, verdict) ==
  IF i > Len(Items(running[p])) THEN Ends(p, Result(p, words, verdict))
  ELSE /\ nth' = [nth EXCEPT ![p] = i] /\ seen' = [seen EXCEPT ![p] = words] /\ ok' = [ok EXCEPT ![p] = verdict]
       /\ stage' = [stage EXCEPT ![p] = IF ClearsBefore(p, i) THEN "clear" ELSE "start"]
       /\ UNCHANGED <<running, ending>>

\* An access has raised: the chip that does not answer is read back all the
\* same, and a register that cannot be read back is one error more.
Raises(p) ==
  IF running[p] \in Configures /\ (nth[p] = 1 \/ nth[p] > AfterConfig)
  THEN Proceeds(p, IF nth[p] = 1 THEN AfterConfig + 1 ELSE nth[p] + 1, seen[p], FALSE)
  ELSE Ends(p, "raised")

\* Over the SCA the pairs of a file are taken for the values of registers.
TypeError(p) == usage.master[p] = "sca" /\ running[p] \in Configures /\ nth[p] = 2 /\ fsm = Paused

\* An access that is not split has ended.
Ended(p, v, hit, raised) ==
  /\ told' = [told EXCEPT ![p] = [checked |-> Item(p).check \/ usage.master[p] = "sca", mixed |-> mixed[p],
                                  hit |-> hit, raised |-> raised]]
  /\ IF raised THEN Raises(p)
     ELSE IF TypeError(p) THEN Ends(p, "raised")
     ELSE Proceeds(p, GoesOn(p, v), IF Item(p).do = "read" THEN Append(seen[p], v) ELSE seen[p], Looks(p, v))
  /\ UNCHANGED <<found, ncalls>>

-----------------------------------------------------------------------------
Call(p) ==
  /\ running[p] = "none" /\ ncalls < usage.ncalls /\ ncalls' = ncalls + 1
  /\ \E c \in usage.calls : running' = [running EXCEPT ![p] = c]
  /\ nth' = [nth EXCEPT ![p] = 1] /\ stage' = [stage EXCEPT ![p] = "start"]
  /\ found' = [found EXCEPT ![p] = cells]
  /\ mixed' = [mixed EXCEPT ![p] = FALSE] /\ spoilt' = [spoilt EXCEPT ![p] = FALSE]
  /\ UNCHANGED <<gbtx, master, seen, ok, told, ending, faults>>

\* set_address and reset_counters, in one flush.
Prepare(p) ==
  /\ usage.master[p] = "xcku" /\ stage[p] = "start" /\ Item(p).check
  /\ pointer' = Item(p).reg /\ counted' = NoCounts
  /\ stage' = [stage EXCEPT ![p] = "data"]
  /\ Mix(p)
  /\ UNCHANGED <<gbtx, running, nth, seen, ok, spoilt, found, told, ending, ncalls, faults>>

\* The data: the master transfers them at its address, and counts.
Data(p) ==
  /\ usage.master[p] = "xcku" /\ stage[p] = "data"
  /\ pointer' = IF pointer < 8 THEN pointer + 1 ELSE 8
  /\ \E answered \in BOOLEAN :
       /\ Transfer(Item(p), pointer, seen[p], answered)
       /\ counted' = Counted(answered)
       /\ told' = [told EXCEPT ![p] = [checked |-> FALSE, mixed |-> FALSE,
                                       hit |-> answered /\ pointer = Item(p).reg, raised |-> FALSE]]
       /\ seen' = IF Item(p).do = "read"
                  THEN [seen EXCEPT ![p] = Append(@, IF answered THEN Word(pointer) ELSE Nothing)] ELSE seen
       /\ Spoil(p, Written(Item(p), pointer, answered))
  /\ stage' = [stage EXCEPT ![p] = "verify"]
  /\ MixOthers(p)
  /\ UNCHANGED <<running, nth, ok, found, ending, ncalls>>

\* Mutant: bytes that arrived are enough.
BadStatusLenient == FALSE
\* _check_i2c_transaction
BadStatus == ~counted.bytes \/ counted.errors

\* The counters are read, and cleared.
Verify(p) ==
  /\ usage.master[p] = "xcku" /\ stage[p] = "verify"
  /\ UNCHANGED <<gbtx, pointer, found, ncalls, faults>>
  /\ counted' = NoCounts
  /\ told' = [told EXCEPT ![p] = [@ EXCEPT !.checked = TRUE, !.mixed = mixed[p], !.raised = BadStatus]]
  /\ Spoil(p, {})
  /\ IF BadStatus THEN Raises(p)
     ELSE \E v \in {IF Item(p).do = "read" THEN seen[p][Len(seen[p])] ELSE 0} :
            Proceeds(p, GoesOn(p, v), seen[p], Looks(p, v))
  /\ Mix(p)

\* An access that does not check is one flush.
Access(p) ==
  /\ usage.master[p] = "xcku" /\ stage[p] = "start" /\ ~Item(p).check
  /\ pointer' = Item(p).reg + 1
  /\ \E answered \in BOOLEAN :
       /\ Transfer(Item(p), Item(p).reg, seen[p], answered)
       /\ counted' = Counted(answered)
       /\ Spoil(p, Written(Item(p), Item(p).reg, answered))
       /\ Ended(p, IF answered THEN Word(Item(p).reg) ELSE Nothing, answered, FALSE)
  /\ Mix(p)

\* reset_controller_counters
Clear(p) ==
  /\ stage[p] = "clear"
  /\ counted' = NoCounts
  /\ stage' = [stage EXCEPT ![p] = "start"]
  /\ Mix(p)
  /\ UNCHANGED <<gbtx, pointer, running, nth, seen, ok, spoilt, found, told, ending, ncalls, faults>>

\* ScaI2cBadStatusError: the status of a transfer over the SCA is not good.
BadScaStatus(answered) == ~answered

\* Over the SCA the address and the data go in one access.
ScaAccess(p) ==
  /\ usage.master[p] = "sca" /\ stage[p] = "start"
  /\ \E answered \in BOOLEAN :
       /\ Transfer(Item(p), Item(p).reg, seen[p], answered)
       /\ Spoil(p, Written(Item(p), Item(p).reg, answered))
       /\ Ended(p, Word(Item(p).reg), answered, BadScaStatus(answered))
  /\ UNCHANGED <<master, mixed>>

GNext ==
  /\ \E p \in Processes :
       \/ Call(p)
       \/ running[p] # "none" /\ (Prepare(p) \/ Data(p) \/ Verify(p) \/ Access(p) \/ Clear(p) \/ ScaAccess(p))
  /\ UNCHANGED usage

GSpec == GInit /\ [][GNext]_gvars

-----------------------------------------------------------------------------
\* What an access that checks tells its caller is true, as long as nobody
\* else has used the master in the middle of it.
AccessTrue ==
  \A p \in Processes : told[p].checked /\ ~told[p].mixed => (told[p].raised <=> ~told[p].hit)
\* A function that has returned has done what it promises, as long as nobody
\* else has used the master in the middle of its accesses or written its
\* registers.
CallTrue == \A p \in Processes : ending[p].result = "returned" /\ ~ending[p].spoilt => ending[p].good
GbtxTrue == AccessTrue /\ CallTrue
=============================================================================
