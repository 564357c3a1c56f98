--------------------------- MODULE AuxiliaryFpga ---------------------------
(***************************************************************************)
(* A readout unit with its auxiliary FPGA, and the calls of the console    *)
(* that scrub, check, reprogram and flash it.  One thread calls; a call is *)
(* one action, and what can go wrong between two of its steps goes wrong   *)
(* inside it.  Between calls radiation upsets the configuration of the     *)
(* XCKU, images decay, blind scrubbing goes on and the console restarts.   *)
(***************************************************************************)
EXTENDS Scrubbing

CONSTANT Cases     \* what a behaviour is about: kinds of call, bounds, the unit

ASSUME AuxiliaryFpgaAssumption ==
  /\ \A c \in Cases : /\ c.calls \in Nat /\ c.upsets \in Nat /\ c.mature \in BOOLEAN
                      \* the accesses of a call that can fail, the images that can decay
                      /\ c.fuses \subseteq Nat \ {0} /\ c.decays \subseteq Chip \X Slots
                      /\ c.versions \subseteq Versions
                      /\ c.kinds \subseteq {"status", "loop", "check", "reflash", "page0",
                                            "blind", "program", "flash"}

VARIABLES
  case, hw,
  mem, known,      \* scrubbing_status, and whether it is not None
  file, stored,    \* the status file, and whether there is one
  default,         \* the default of the parameter blocks of flash_bitfiles_to_block
  \* history
  noted,           \* the latest recorded scrub cycle
  flashed,         \* what the latest flashing call wrote, if it returned
  last,            \* the latest call
  calls, upsets

vars == <<case, hw, mem, known, file, stored, default, noted, flashed, last, calls, upsets>>

NotFlashed == [chips |-> {}, page |-> Lost, sure |-> FALSE]

Init ==
  /\ case \in Cases
  /\ hw = PowerOn(case.mature, case.images, [version |-> 1, state |-> "good"])
  /\ mem = Empty /\ known = FALSE /\ file = case.file /\ stored = (case.file # Empty)
  /\ default = Unplaced
  /\ noted = Nothing /\ flashed = NotFlashed /\ last = "none"
  /\ calls = 0 /\ upsets = 0

Beginnings ==
  LET begin(upset, fuse, loses) ==
        [hw |-> hw, err |-> "none", fuse |-> fuse, upset |-> upset, value |-> TRUE, loses |-> loses,
         mem |-> mem, known |-> known, file |-> file, stored |-> stored, noted |-> Nothing, inhibited |-> hw.inhibit,
         blocks |-> Unplaced, gold |-> Unplaced]
  IN {begin("none", 0, FALSE)} \cup
     (IF upsets < case.upsets
      THEN {begin(u, k, FALSE) : u \in {"unsent", "sent"}, k \in case.fuses}
           \cup {begin("lost", 0, TRUE)}
      ELSE {})

Returns(st, name) ==
  /\ st.fuse = 0 /\ ~st.loses
  /\ hw' = st.hw /\ mem' = st.mem /\ known' = st.known /\ file' = st.file /\ stored' = st.stored
  /\ noted' = st.noted /\ last' = name
  /\ calls' = calls + 1
  /\ upsets' = IF st.upset = "none" THEN upsets ELSE upsets + 1
  /\ UNCHANGED case

\* A call that leaves the lists of blocks alone
Call(kind, name, Body(_)) ==
  /\ calls < case.calls /\ kind \in case.kinds
  /\ \E begin \in Beginnings : \E st \in {Body(begin)} : Returns(st, name)
  /\ flashed' = NotFlashed /\ UNCHANGED default

-----------------------------------------------------------------------------
CreateAndStoreStatus(page0, db) ==
  Call("status", "status", LAMBDA st : CreateStatus(st, page0, db))
RunCycle == Call("check", "check", LAMBDA st : RunScrubCycle(st, TRUE, TRUE))
LoopRound(with_test) ==
  Call("loop", IF with_test THEN "loop" ELSE "loop untested",
       LAMBDA st : RunScrubLoopRound(st, with_test))
CheckLocations == Call("check", "check", CheckAndUpdateLocations)
Reflash(critical, version) ==
  Call("reflash", "reflash", LAMBDA st : ReflashLocations(st, critical, version))
CheckPage0(ic) ==
  \/ Call("page0", "check", LAMBDA st : CheckScrubOk(st, FALSE, ic))
  \/ Call("page0", "check", LAMBDA st : CheckScrubOkAll(st, ic))
ReflashPage(ic, version) ==
  Call("page0", "reflash", LAMBDA st : CheckScrubAndReflashAll(st, ic, version))

\* enable_all_scrubbing, disable_all_scrubbing, scrubbing_off_all,
\* reset_all_pa3, test_pa3_single_scrub
OffOrReset(st) ==
  LET handled(s) == IF s.err = "double bit" THEN ResetPa3(Caught(s), TRUE) ELSE s
  IN handled(StopScrubbing(st))
ResetAll(st, force) ==
  LET handled(s) == IF AtFault(s) THEN Caught(s) ELSE s
  IN ResetPa3(handled(StopScrubbing(st)), force)
BlindScrubbing ==
  \/ Call("blind", "blind", StartBlindScrubbing)
  \/ Call("blind", "stop", StopScrubbing)
  \/ Call("blind", "stop", OffOrReset)
  \/ \E force \in BOOLEAN : Call("blind", "reset", LAMBDA st : ResetAll(st, force))
  \/ Call("blind", "blind", LAMBDA st : Look(RunSingleScrub(st)))

\* program_xcku, and program_xcku_and_retry: a unit that PA3 and the slow
\* control chip both see programmed is not tried again.
ProgramXcku(st, gold, chip) ==
  LET seen(s) == Answer(s, s.value /\ s.hw.fabric.state # "none")
  IN seen(ProgramXckuAndCheck(st, gold, chip))
Retry(st, gold, chip) == IF Go(st) /\ st.value THEN st ELSE ProgramXcku(st, gold, chip)
ProgramAll ==
  \/ Call("program", "program", LAMBDA st : ProgramXcku(st, TRUE, 1))
  \/ Call("program", "program", LAMBDA st :
            Retry(Retry(Retry(ProgramXcku(st, FALSE, 1), TRUE, 1), FALSE, 2), TRUE, 2))

-----------------------------------------------------------------------------
\* The block of a list that a caller gives, or the default of the parameter
Given(list) == IF list = <<>> THEN default ELSE list

Flashing(list, golden, overwrite, ic, version, update) ==
  /\ calls < case.calls /\ "flash" \in case.kinds
  /\ \E begin \in Beginnings :
     \E st \in {FlashBitfilesToBlock(begin, Given(list), golden, overwrite, ic, version, update)} :
       LET used == IF golden THEN st.gold ELSE st.blocks
           asked == Filled(hw, Given(list), golden)
           same == update \/ Moved(hw, Given(list), golden) \/ used = asked
       IN /\ flashed' = IF ~Go(st) THEN NotFlashed
                        ELSE [chips |-> Selected(ic), page |-> PageOf(Locations(hw), used, golden),
                              sure |-> same /\ (update \/ hw.page[1] = hw.page[2])]
          /\ default' = IF list = <<>> /\ used # Unplaced THEN used ELSE default
          /\ Returns(st, "flash")

\* flash_all_rdos, with and without an update of the page
FlashingAll(list, gold, overwrite, version, update) ==
  /\ calls < case.calls /\ "flash" \in case.kinds
  /\ \E begin \in Beginnings :
     \E st \in {FlashBitfilesToAllBlocks([ResetPa3(begin, TRUE) EXCEPT !.blocks = list, !.gold = gold],
                                         overwrite, 3, version, update)} :
          /\ flashed' = IF ~Go(st) \/ ~update THEN NotFlashed
                        ELSE [chips |-> Chip, sure |-> TRUE,
                              page |-> [bit |-> st.blocks[1], scrub |-> st.blocks[2], gold |-> st.gold[1]]]
          /\ UNCHANGED default
          /\ Returns(st, "flash")

-----------------------------------------------------------------------------
\* The environment
Event == upsets < case.upsets /\ upsets' = upsets + 1
         /\ UNCHANGED <<case, mem, known, file, stored, default, noted, flashed, calls>>
         /\ last' = "event"
Decay(chip, slot, i) == Event /\ hw' = [hw EXCEPT !.flash[chip][slot].flaw = Flaws[i]]
Upset == Event /\ hw.fabric.state = "good" /\ hw' = [hw EXCEPT !.fabric.state = "upset"]
BlindCycle ==
  /\ hw.cc = "blind"
  /\ hw' = Pass(hw) /\ last' = "event"
  /\ UNCHANGED <<case, mem, known, file, stored, default, noted, flashed, calls, upsets>>
Restart ==
  /\ upsets < case.upsets
  /\ mem' = Empty /\ known' = FALSE /\ default' = Unplaced
  /\ last' = "event" /\ upsets' = upsets + 1
  /\ UNCHANGED <<case, hw, file, stored, noted, flashed, calls>>

Next ==
  \/ \E page0, db \in BOOLEAN : CreateAndStoreStatus(page0, db)
  \/ RunCycle
  \/ \E with_test \in BOOLEAN : LoopRound(with_test)
  \/ CheckLocations
  \/ \E critical \in BOOLEAN, version \in case.versions : Reflash(critical, version)
  \/ \E ic \in Chip : CheckPage0(ic)
  \/ \E ic \in Chip, version \in case.versions : ReflashPage(ic, version)
  \/ BlindScrubbing
  \/ ProgramAll
  \/ \E golden, overwrite, update \in BOOLEAN, ic \in 1..3, version \in case.versions :
       \E list \in (IF golden THEN case.golds ELSE case.lists) \cup {<<>>} :
         Flashing(list, golden, overwrite, ic, version, update)
  \/ \E list \in case.lists, gold \in case.golds, overwrite, update \in BOOLEAN, version \in case.versions :
        FlashingAll(list, gold, overwrite, version, update)
  \/ \E d \in case.decays, i \in 2..4 : Decay(d[1], d[2], i)
  \/ Upset \/ BlindCycle \/ Restart

Spec == Init /\ [][Next]_vars

-----------------------------------------------------------------------------
(***************************************************************************)
(* What is recorded of a scrub is true.  A result is noted for the image   *)
(* that was read, and only for it; the exceptions: page 0 names another    *)
(* slot than when the status was made, and a device that does not support  *)
(* addresses.  And a scrub that completed without errors repaired the      *)
(* configuration, unless a failed test had left the configuration port     *)
(* disabled.                                                               *)
(***************************************************************************)
RecordedWhereRead ==
  \/ noted.location = <<>>
  \/ noted.read = noted.location
  \/ noted.page0 /\ noted.read = <<noted.location[1], hw.page[noted.location[1]].scrub>>
  \/ ~hw.mature
RepairsWork ==
  ~noted.test /\ noted.complete /\ noted.success /\ ~noted.inhibited /\ noted.before # "mixed"
    => noted.after = "good"
RecordTrue == RecordedWhereRead /\ RepairsWork

\* Neither the scrubbing loop nor a check spoils a configuration.
LoopHarmless ==
  [][last' \in {"loop", "check"} /\ hw.fabric.state # "mixed" => hw'.fabric.state # "mixed"]_vars

\* After a flashing call that returned, the unit uses the blocks that were
\* written, except those that the checks chose when no update was asked for.
FlashedIsUsed == flashed.sure => \A c \in flashed.chips : hw.page[c] = flashed.page
=============================================================================
