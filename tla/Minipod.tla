-------------------------------- MODULE Minipod --------------------------------
(***************************************************************************)
(* The monitor of the optical modules of a common readout unit: programs   *)
(* that come and go, modules that stay.  A module keeps the page that was  *)
(* chosen when the program that chose it is gone, and the part number that *)
(* tells a transmitter from a receiver is on page 0.  It latches alarms    *)
(* and clears them when they are read.  A report reads registers by        *)
(* sections, and prints at the end of a section what is not as it should   *)
(* be; an exception ends it where it is.                                   *)
(***************************************************************************)
EXTENDS Integers, Sequences, FiniteSets, SequencesExt

CONSTANTS
  Chips,       \* the modules on the bus
  TypeOf,      \* "TX" or "RX", by module
  Situations,  \* what is unusual: settings, alarms to come, a part number; programs to start
  Program,     \* what the programs do, by name: MinipodPrograms
  Tables,      \* the bits of a register that the log has lines for
  MaxDeaths

VARIABLES
  situation,
  page,       \* the page a module shows
  latched,    \* alarms of the modules: <<chip, register, bit>>
  obj,        \* the object of the program: its chip, class and tables, and the page it chose last
  prog, item, \* what it runs, and where it is
  got,        \* the registers of the current check that are read
  wrong,      \* the checks of this section that failed
  \* history
  hand,       \* alarms read in this section
  raised, logged, missed, dropped,
  verdict,    \* what the last section printed
  died, starts, deaths

vars == <<situation, page, latched, obj, prog, item, got, wrong, hand, raised, logged, missed, dropped,
          verdict, died, starts, deaths>>

-----------------------------------------------------------------------------
\* The registers of a module
All == 0..7
DefaultOf(type, pg, reg) ==
  IF pg = 0 THEN {}
  ELSE IF reg = 225 THEN {0}
  ELSE IF reg \in 228..233 THEN (IF type = "TX" THEN {1, 5} ELSE {2, 6})
  ELSE IF type = "RX" /\ reg \in 234..239 THEN {0, 1, 4, 5}
  ELSE {}
Shown(c, reg) == IF reg > 127 THEN page[c] ELSE 0
\* The settings of the module, and the bits that somebody changed.
Setting(c, pg, reg) ==
  LET changed == {x[4] : x \in {y \in situation.settings : <<y[1], y[2], y[3]>> = <<c, pg, reg>>}}
      usual == DefaultOf(TypeOf[c], pg, reg)
  IN (usual \ changed) \cup (changed \ usual)
Alarms(c, reg) == {b \in All : <<c, reg, b>> \in latched}
Word(c, reg) == IF reg < 28 THEN Alarms(c, reg) ELSE Setting(c, Shown(c, reg), reg)

\* The part number: register 177 on page 0; on page 1 some limit.
PartNumber(c) == IF page[c] = 0 THEN TypeOf[c] ELSE situation.limit

NoObject == [chip |-> "none", class |-> "none", aux |-> "none", page |-> 0]
Idle == prog = "none"
Now == Program[prog][item]
AtEnd == item = Len(Program[prog])

Init ==
  /\ situation \in Situations
  /\ page = [c \in Chips |-> 0]
  /\ latched = {}
  /\ obj = NoObject
  /\ prog = "none" /\ item = 0 /\ got = <<>> /\ wrong = {}
  /\ hand = {} /\ raised = {} /\ logged = {} /\ missed = {} /\ dropped = {}
  /\ verdict = [prog |-> "none", at |-> 0, chip |-> "none", wrong |-> {}]
  /\ died = FALSE /\ starts = 0 /\ deaths = 0

\* The module latches alarms that come together.
Raise ==
  /\ \E a \in situation.alarms : ~(a \subseteq raised) /\ latched' = latched \cup a /\ raised' = raised \cup a
  /\ UNCHANGED <<situation, page, obj, prog, item, got, wrong, hand, logged, missed, dropped, verdict, died,
                 starts, deaths>>

history == <<raised, logged, missed, dropped, verdict>>
reading == <<prog, item, got, wrong, hand>>
Called == starts < situation.starts /\ starts' = starts + 1

-----------------------------------------------------------------------------
\* __init__: the class of the object and its tables are those of the part
\* number that the module shows.
Construct(c) ==
  /\ Idle /\ obj = NoObject
  /\ IF PartNumber(c) \in {"TX", "RX"}
     THEN obj' = [chip |-> c, class |-> PartNumber(c), aux |-> PartNumber(c), page |-> 0] /\ died' = died
     ELSE died' = TRUE /\ obj' = obj
  /\ UNCHANGED <<situation, page, latched, reading, history, starts, deaths>>

\* changeChip: the tables are those of the other module; an object of
\* MinipodTx stays one.
changeChip(c) ==
  /\ Idle /\ obj # NoObject /\ obj.chip # c
  /\ IF PartNumber(c) \in {"TX", "RX"}
     THEN /\ obj' = [obj EXCEPT !.chip = c, !.aux = PartNumber(c),
                                !.class = IF obj.class = "TX" THEN "TX" ELSE PartNumber(c)]
          /\ died' = died
     ELSE obj' = [obj EXCEPT !.chip = c] /\ died' = TRUE
  /\ UNCHANGED <<situation, page, latched, reading, history, starts, deaths>>

\* A report of the object, or one of the scripts that have one.
Start(p) ==
  /\ prog' = p /\ item' = 1 /\ got' = <<>> /\ wrong' = {} /\ hand' = {}
  /\ UNCHANGED <<situation, page, latched, history, died, deaths>>
StartReport == Idle /\ obj # NoObject /\ Called /\ Start(obj.class) /\ UNCHANGED obj
StartRead ==
  /\ Idle /\ obj # NoObject /\ Called /\ UNCHANGED obj
  /\ \/ Start("temperature")
     \/ obj.class = "RX" /\ Start("powers")
\* The older scripts look at fixed addresses.
StartScript(c) ==
  /\ Idle /\ obj = NoObject /\ Called
  /\ obj' = [chip |-> c, class |-> "script", aux |-> "script", page |-> 0]
  /\ Start(IF TypeOf[c] = "TX" THEN "txmp" ELSE "rxmp")
\* The program ends.
Quit ==
  /\ Idle /\ obj # NoObject
  /\ obj' = NoObject
  /\ UNCHANGED <<situation, page, latched, reading, history, died, starts, deaths>>

Advance(o) ==
  /\ got' = <<>>
  /\ IF AtEnd THEN prog' = "none" /\ item' = 0 /\ obj' = IF o.class = "script" THEN NoObject ELSE o
     ELSE item' = item + 1 /\ obj' = o /\ UNCHANGED prog

AlarmsOf(words) ==
  {a \in UNION {{<<obj.chip, Now.regs[i], b>> : b \in words[i]} : i \in DOMAIN words} : a[2] < 28}

\* An exception, or the end of the process, in the middle of a program.
Stop(words) ==
  /\ prog' = "none" /\ item' = 0 /\ got' = <<>> /\ wrong' = {} /\ hand' = {}
  /\ dropped' = dropped \cup AlarmsOf(words)
  /\ died' = TRUE
Crash ==
  /\ ~Idle /\ deaths < MaxDeaths /\ deaths' = deaths + 1
  /\ Stop(IF Now.log = "end" THEN got ELSE <<>>) /\ obj' = NoObject
  /\ UNCHANGED <<situation, page, latched, raised, logged, missed, verdict, starts>>

-----------------------------------------------------------------------------
\* setPage
setPage ==
  /\ ~Idle /\ Now.do = "page"
  /\ page' = [page EXCEPT ![obj.chip] = Now.page]
  /\ Advance([obj EXCEPT !.page = Now.page])
  /\ UNCHANGED <<situation, latched, wrong, hand, history, died, starts, deaths>>

\* The log has a line for a register, or the tables of the object do not
\* know it.
Known(reg) ==
  obj.aux = "script" \/ reg \in DOMAIN Tables[obj.aux][obj.page + 1]
LinesFor(reg) ==
  IF obj.aux = "script" THEN All ELSE Tables[obj.aux][obj.page + 1][reg]

ReadPlain ==
  /\ ~Idle /\ Now.do = "read"
  /\ IF Now.log = "no" \/ \A i \in DOMAIN Now.regs : Known(Now.regs[i])
     THEN Advance(obj) /\ UNCHANGED <<wrong, hand, dropped, died>>
     ELSE Stop(<<>>) /\ UNCHANGED obj
  /\ UNCHANGED <<situation, page, latched, raised, logged, missed, verdict, starts, deaths>>

\* Mutant: the bits of the first register alone.
WrongFirst(c, words) == words[1] \cap c.bits[1] # c.good

\* A check has failed.
Wrong(c, words) ==
  IF c.every THEN {b \in c.bits[1] : \A i \in DOMAIN words : b \in words[i]} # c.good
  ELSE \E i \in DOMAIN words : words[i] \cap c.bits[i] # c.good

\* singleRead and doubleRead: one register; alarms are cleared by it.
ReadRegister ==
  /\ ~Idle /\ Now.do = "check"
  /\ LET reg == Now.regs[Len(got) + 1]
         word == Word(obj.chip, reg)
         words == Append(got, word)
         done == Len(words) = Len(Now.regs)
         written == IF Now.log = "each" THEN {Len(words)} ELSE IF done THEN DOMAIN words ELSE {}
         fails == \/ \E i \in written : ~Known(Now.regs[i])
                  \/ Now.lookup /\ reg < 234 /\ word \cap {3, 7} # {}
     IN /\ latched' = latched \ {<<obj.chip, reg, b>> : b \in All}
        /\ IF fails
           THEN /\ Stop(IF Now.log = "each" THEN [i \in {Len(words)} |-> word] ELSE words)
                /\ UNCHANGED <<obj, logged>>
           ELSE /\ logged' = logged \cup {a \in AlarmsOf([i \in written |-> words[i]]) : a[3] \in LinesFor(a[2])}
                /\ hand' = hand \cup AlarmsOf(words)
                /\ UNCHANGED <<dropped, died>>
                /\ IF done
                   THEN wrong' = wrong \cup (IF Wrong(Now, words) THEN {Now.name} ELSE {}) /\ Advance(obj)
                   ELSE got' = words /\ UNCHANGED <<wrong, prog, item, obj>>
  /\ UNCHANGED <<situation, page, raised, missed, verdict, starts, deaths>>

\* The checks that the print at a place is about.
ChecksBefore(p, at) ==
  {Program[p][i] : i \in {j \in 1..(at - 1) :
      Program[p][j].do = "check" /\ \A k \in j..(at - 1) : Program[p][k].do # "say"}}
Covers(c, a) == \E i \in DOMAIN c.regs : c.regs[i] = a[2]

\* What a section prints.  The list of mask texts has no such name in the
\* classes: printing one of them raises.
SaySection ==
  /\ ~Idle /\ Now.do = "say"
  /\ IF Now.name = "masks" /\ wrong # {} THEN Stop(<<>>) /\ UNCHANGED <<obj, missed, verdict>>
     ELSE /\ missed' = missed \cup {a \in hand : \A c \in ChecksBefore(prog, item) : Covers(c, a) => c.name \notin wrong}
          /\ verdict' = [prog |-> prog, at |-> item, chip |-> obj.chip, wrong |-> wrong]
          /\ wrong' = {} /\ hand' = {}
          /\ Advance(obj) /\ UNCHANGED <<dropped, died>>
  /\ UNCHANGED <<situation, page, latched, raised, logged, starts, deaths>>

Next ==
  \/ Raise
  \/ \E c \in Chips : Construct(c) \/ changeChip(c) \/ StartScript(c)
  \/ StartReport \/ StartRead \/ Quit \/ Crash
  \/ setPage \/ ReadPlain \/ ReadRegister \/ SaySection

Spec == Init /\ [][Next]_vars

-----------------------------------------------------------------------------
\* The pages are in order: a program reads the page it means, however the
\* one before it ended; and while no program has died, every module shows
\* page 0 between two programs.
PagesInOrder ==
  /\ (~Idle /\ Now.do \in {"read", "check"} /\ Now.regs[1] > 127) => page[obj.chip] = Now.page
  /\ (Idle /\ ~died) => \A c \in Chips : page[c] = 0

\* No alarm is lost: it is still latched, in the log, or in the registers
\* just read, unless a program died with them in its hands.  On the screen,
\* only the alarms of single channels are missing that are looked at as one.
AlarmsTold ==
  /\ \A a \in raised : a \in latched \cup logged \cup dropped \cup hand
  /\ dropped # {} => died
  /\ \A a \in missed : a[2] \in 16..27

\* The section just printed tells that a setting is not the usual one if that is so for one
\* channel or more; of what is looked at as one, it never does so wrongly.
\* (An object of the class of the module; the amplitudes are looked at with
\* a register that is not theirs.)
SettingsTold ==
  verdict.prog = "none" \/ ~(Idle \/ item = verdict.at + 1)
    \/ (verdict.prog \in {"RX", "TX"} /\ verdict.prog # TypeOf[verdict.chip]) \/
    \A c \in {x \in ChecksBefore(verdict.prog, verdict.at) : x.regs[1] > 27 /\ x.name # "amplitude"} :
      LET odd == \E i \in DOMAIN c.regs : Setting(verdict.chip, c.page, c.regs[i]) \cap c.bits[i]
                     # DefaultOf(TypeOf[verdict.chip], c.page, c.regs[i])
      IN (c.name \in verdict.wrong => odd) /\ (odd /\ ~c.every => c.name \in verdict.wrong)

\* What the programs tell of a module is true.
ReportTrue == PagesInOrder /\ AlarmsTold /\ SettingsTold
=============================================================================
