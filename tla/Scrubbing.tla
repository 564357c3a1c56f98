------------------------------ MODULE Scrubbing ------------------------------
(***************************************************************************)
(* The auxiliary FPGA (ProASIC3) of a readout unit and its driver.  The    *)
(* device keeps images of the main FPGA (XCKU) in two flash chips, loads   *)
(* them into the XCKU and scrubs its configuration memory with them.       *)
(*                                                                         *)
(* The operators map the state of a call to the next: hw, the device; err, *)
(* the exception under way; value, what the latest polling returned; fuse, *)
(* the register access that raises (0: none) and upset, whether the device *)
(* has done it all the same.  A slot is a start block in units of 0x100.   *)
(***************************************************************************)
EXTENDS Integers, Sequences, SequencesExt, FiniteSets, FiniteSetsExt

CONSTANTS
  Slots,     \* the slots of a flash chip that can hold an image
  Bad,       \* <<chip, slot>> where erasing reports an error
  Versions   \* versions of the firmware of the XCKU

ASSUME Pa3Assumption == Slots \subseteq Nat \ {0} /\ Bad \subseteq {1, 2} \X Slots
                        /\ Versions \subseteq Nat \ {0}

Chip == {1, 2}
FlashSelectICOpcode == 0..3            \* 3: both chips, not legal for reads
Torn == -1                             \* an address of which one byte is missing
Lost == [bit |-> 0, scrub |-> 0, gold |-> 0]

\* What a slot holds: kind and version of the file, and the errors that
\* reading it back meets.
Image(kind, version, flaw) == [kind |-> kind, version |-> version, flaw |-> flaw]
Garbage == Image("none", 0, "clean")
Flaws == <<"clean", "sb", "many", "db">>

Go(st) == st.err = "none"
Raise(st, err) == IF Go(st) THEN [st EXCEPT !.err = err] ELSE st
Caught(st) == [st EXCEPT !.err = "none"]

\* An access over the I2C bus of the slow control chip: read_reg and
\* write_reg, and the pins.  A device that is held in reset does not answer.
Reach(st, hw) ==
  IF ~Go(st) THEN st
  ELSE IF st.fuse = 1
       THEN [st EXCEPT !.err = "i2c", !.fuse = 0, !.hw = IF st.upset = "sent" THEN hw ELSE @]
       ELSE [st EXCEPT !.hw = hw, !.fuse = IF @ = 0 THEN 0 ELSE @ - 1]
Access(st, hw) == IF st.hw.held THEN Raise(st, "i2c") ELSE Reach(st, hw)
Look(st) == Access(st, st.hw)

-----------------------------------------------------------------------------
\* The device (external)
PowerOn(mature, images, fabric) ==
  [mature |-> mature, held |-> FALSE, key |-> FALSE, inhibit |-> FALSE, sel |-> 1, start |-> 0,
   cc |-> "idle", done |-> FALSE, ecc |-> "clean", crc |-> 0, golden |-> FALSE, config |-> TRUE,
   open |-> FALSE, writing |-> FALSE, read |-> <<>>, fabric |-> fabric,
   flash |-> images, page |-> [c \in Chip |-> [bit |-> 1, scrub |-> 2, gold |-> 3]]]

ResetHw(hw) ==
  [hw EXCEPT !.key = FALSE, !.inhibit = FALSE, !.sel = 1, !.start = 0, !.cc = "idle",
             !.done = FALSE, !.ecc = "clean", !.crc = 0, !.golden = FALSE, !.config = FALSE,
             !.writing = FALSE]

ChipOf(hw) == IF hw.sel = 2 THEN 2 ELSE 1
Parameters(hw) == hw.page[ChipOf(hw)]
ScrubSlot(hw) == IF hw.mature /\ hw.start # 0 THEN hw.start ELSE Parameters(hw).scrub
Content(hw, slot) ==
  IF hw.sel = 3 \/ slot \notin Slots THEN Garbage ELSE hw.flash[ChipOf(hw)][slot]

\* The configuration memory after writing an image over it
Rewritten(hw, image) ==
  [hw.fabric EXCEPT !.state =
     IF image.kind = "scrub" /\ image.version = hw.fabric.version /\ @ # "mixed" /\ ~hw.open
     THEN "good" ELSE "mixed"]

\* One pass over the scrub image: an uncorrectable error stops it halfway.
Pass(hw) ==
  LET image == Content(hw, ScrubSlot(hw))
      stops == image.flaw = "db"
  IN IF ScrubSlot(hw) = 0 THEN hw
     ELSE [hw EXCEPT !.read = <<ChipOf(hw), ScrubSlot(hw)>>, !.ecc = image.flaw,
                     !.crc = IF stops \/ image.kind # "scrub" THEN 0 ELSE image.version,
                     !.cc = IF stops THEN "stuck" ELSE @, !.done = ~stops,
                     !.open = @ \/ (stops /\ ~hw.inhibit),
                     !.fabric = IF stops \/ hw.inhibit THEN @ ELSE Rewritten(hw, image)]

Armed(hw) == (hw.key \/ ~hw.mature) /\ hw.cc = "idle"
Disarmed(hw) == [hw EXCEPT !.key = FALSE, !.done = FALSE, !.read = <<>>]

\* Initial configuration, from the default or the golden image
Configured(hw, gold) ==
  LET page == Parameters(hw)
      image == Content(hw, IF gold THEN page.gold ELSE page.bit)
      good == image.kind = "config" /\ image.flaw # "db"
  IN [hw EXCEPT !.fabric = IF good THEN [version |-> image.version, state |-> "good"]
                           ELSE [version |-> 0, state |-> "none"],
                !.config = good /\ ~gold, !.golden = good /\ gold, !.open = FALSE]

-----------------------------------------------------------------------------
\* ConfigController
SetKey(st, on) ==
  IF st.hw.mature THEN Access(Look(st), [st.hw EXCEPT !.key = on]) ELSE Look(st)
SetInhibit(st, on) == Access(st, [st.hw EXCEPT !.inhibit = on])
SetCommand(st, command) ==
  Access(st, CASE command = "single" -> IF Armed(st.hw) THEN Pass(Disarmed(st.hw))
                                        ELSE [st.hw EXCEPT !.read = <<>>]
               [] command = "blind" -> IF Armed(st.hw) THEN [Disarmed(st.hw) EXCEPT !.cc = "blind"]
                                       ELSE st.hw
               [] command = "stop" -> IF st.hw.cc = "blind" THEN [st.hw EXCEPT !.cc = "idle"] ELSE st.hw
               [] command = "init" -> Configured(st.hw, FALSE)
               [] command = "gold" -> Configured(st.hw, TRUE))

\* start_blind_scrubbing
StartBlindScrubbing(st) ==
  IF st.hw.golden THEN Look(st)
  ELSE SetKey(SetCommand(SetKey(Look(st), TRUE), "blind"), FALSE)

\* run_single_scrub, and in test mode: an exception leaves the test mode on.
Polled(st) ==
  IF ~Go(st) THEN st
  ELSE IF st.hw.done THEN [st EXCEPT !.value = TRUE]
  ELSE [SetKey(st, FALSE) EXCEPT !.value = FALSE]
RunSingleScrub(st) == Polled(Look(SetCommand(SetKey(st, TRUE), "single")))

\* Mutant: the test mode stays on.
TestModeStays(st) == RunSingleScrub(SetInhibit(st, TRUE))
RunSingleScrubTest(st) == SetInhibit(RunSingleScrub(SetInhibit(st, TRUE)), FALSE)

\* The location of the scrub image: address bytes are written one by one.
SetScrubBlockAddress(st, slot) ==
  Access(Access(st, [st.hw EXCEPT !.start = Torn]), [st.hw EXCEPT !.start = slot])
SetFlashSelectIc(st, value) == Access(st, [st.hw EXCEPT !.sel = value])

\* smap_abort_and_verify, and reset_then_smap_abort_and_verify
SmapAbortAndVerify(st) == Look(Access(st, [st.hw EXCEPT !.open = FALSE]))
Release(st) == Reach(st, [st.hw EXCEPT !.held = FALSE])
Hold(st) == Reach(st, [ResetHw(st.hw) EXCEPT !.held = TRUE])
Reset(st) == SmapAbortAndVerify(Release(Hold(st)))

\* stop_scrubbing: it polls for as long as the device says that it scrubs.
Stopped(st) ==
  IF ~Go(st) THEN st
  ELSE IF st.hw.ecc = "db" THEN Raise(st, "double bit")
  ELSE IF st.hw.cc = "stuck" THEN Raise(SetCommand(st, "stop"), "stuck on")
  ELSE Look(SetCommand(st, "stop"))
StopScrubbing(st) == IF st.hw.cc = "idle" THEN Look(st) ELSE Stopped(Look(Look(st)))

\* stop_scrubbing_and_reset_on_db_error
StopScrubbingAndResetOnDbError(st) ==
  LET afterwards(s) == IF s.err = "double bit" THEN Reset(Caught(s)) ELSE s
  IN IF Go(st) THEN afterwards(StopScrubbing(st)) ELSE st

\* reset_pa3
Forced(st, force) ==
  IF Go(st) THEN st
  ELSE IF st.err = "stuck on" \/ force THEN Reset(Caught(st))
  ELSE [st EXCEPT !.err = "reset failed"]
ResetPa3(st, force) == IF Go(st) THEN Forced(Reset(StopScrubbing(st)), force) ELSE st

\* program_xcku_and_check, and its four images one after the other
Program(st, gold, chip) ==
  Look(SetCommand(SetFlashSelectIc(ResetPa3(st, FALSE), chip), IF gold THEN "gold" ELSE "init"))
ProgramXckuAndCheck(st, gold, chip) ==
  IF ~Go(st) THEN st
  ELSE IF st.hw.cc # "idle" THEN [Look(st) EXCEPT !.value = FALSE]
  ELSE LET checked(s) == IF Go(s) THEN [s EXCEPT !.value = IF gold THEN s.hw.golden ELSE s.hw.config]
                         ELSE s
       IN checked(Program(Look(st), gold, chip))

-----------------------------------------------------------------------------
\* ProAsic3Flash.  set is what an operation does to a slot of each selected
\* chip; the parameter page is slot 0.
Selected(ic) == IF ic = 3 THEN Chip ELSE {ic}
Put(hw, chips, slot, image, page) ==
  IF slot = 0 THEN [hw EXCEPT !.page = [c \in Chip |-> IF c \in chips THEN page ELSE @[c]]]
  ELSE [hw EXCEPT !.flash = [c \in Chip |-> IF c \in chips THEN [@[c] EXCEPT ![slot] = image] ELSE @[c]]]

\* _flash_erase_blocks: it erases every block of the slot up to a bad one.
Erase(st, chips, slot) ==
  LET bad == \E c \in chips : <<c, slot>> \in Bad
  IN IF ~Go(st) THEN st
     ELSE IF slot \notin Slots \cup {0} THEN Raise(st, "no such block")
     ELSE IF bad THEN Raise(Access(st, Put(st.hw, chips, slot, Garbage, Lost)), "flash error")
     ELSE Access(st, Put(st.hw, chips, slot, Garbage, Lost))

\* The transfer, word by word, until the writer is told to stop.  A word the
\* fifo loses shifts the rest.
BeginWriting(st) ==
  IF Go(st) /\ st.hw.writing THEN Raise(st, "writer busy")
  ELSE Access(Look(st), [st.hw EXCEPT !.writing = TRUE])
EndWriting(st, chips, slot, image, page) ==
  Access(Look(st), [Put(st.hw, chips, slot, image, page) EXCEPT !.writing = FALSE])

\* flash_write_data: an exception leaves the chips selected.
WriteSelected(st, chips, slot, image, page) ==
  SetFlashSelectIc(Look(EndWriting(BeginWriting(Erase(st, chips, slot)), chips, slot, image, page)), 1)
FlashWriteData(st, ic, slot, image, page) ==
  IF Go(st) /\ st.hw.ecc # "clean" THEN Raise(Look(st), "ecc not ok")
  ELSE WriteSelected(SetFlashSelectIc(Look(st), ic), Selected(ic), slot, image, page)

\* get_bitfile_locations: whichever chip is asked for, it reads the page of
\* the first.
GetBitfileLocations(st) == SetFlashSelectIc(Look(SetFlashSelectIc(st, 1)), 1)
Locations(hw) == hw.page[1]

\* update_parameter_page
UpdateParameterPage(st, page, ic) == FlashWriteData(st, ic, 0, Garbage, page)

------------------------------------------------------------------------------
(***************************************************************************)
(* Writing firmware to the flash chips of a readout unit: the choice of    *)
(* the blocks, the transfer through the fifo of the XCKU, and the update   *)
(* of the parameter page.  A list of blocks is changed in place: the state *)
(* of a call has blocks, the list the caller gave, and gold, its list for  *)
(* the golden image.                                                       *)
(***************************************************************************)
CONSTANT Known        \* <<chip, block>>: the list of bad blocks of this unit

ASSUME FlashingAssumption == Known \subseteq Chip \X Nat

NoBlock == -1        \* None: the block in use
OddBlock == -2       \* an address that is not a multiple of 0x100
Unplaced == <<NoBlock, NoBlock>>

\* The board's serial number and the version of its firmware come from the
\* XCKU, and so does the fifo: without a configuration it does not answer.
AskXcku(st) == IF Go(st) /\ st.hw.fabric.state = "none" THEN Raise(st, "no xcku") ELSE st

\* get_bad_blocks: of a chip or both
BadBlocks(ic) == {k[2] : k \in {x \in Known : x[1] \in Selected(ic)}}

\* _get_new_available_block
NewAvailableBlock(from, taken) == Min((from..(from + Cardinality(taken))) \ taken)

-----------------------------------------------------------------------------
\* flash_write_file_to_block, and its two callers
FifoWordLost(st, slot, ic) ==
  Raise([FlashWriteData(st, ic, slot, Garbage, Lost) EXCEPT !.loses = FALSE], "counters differ")
Transfer(st, slot, ic, image) ==
  IF Go(st) /\ st.loses THEN FifoWordLost(st, slot, ic) ELSE FlashWriteData(st, ic, slot, image, Lost)
FlashWriteFileToBlock(st, slot, ic, image) ==
  IF ~Go(st) THEN st
  ELSE IF slot \in {0, OddBlock} THEN Raise(st, "invalid block")
  ELSE Look(Transfer(AskXcku(ResetPa3(st, TRUE)), slot, ic, image))

-----------------------------------------------------------------------------
\* flash_bitfiles_to_block: the page of the first chip tells what is in use.
InUse(hw) == {Locations(hw).bit, Locations(hw).scrub, Locations(hw).gold}
Wanted(hw, golden) ==
  IF golden THEN <<Locations(hw).gold>> ELSE <<Locations(hw).bit, Locations(hw).scrub>>
Elements(s) == {s[i] : i \in DOMAIN s}

\* A list without the block to use: the second entry of a list for default
\* images stays None when a golden image is flashed, and that raises.
Filled(hw, blocks, golden) ==
  IF NoBlock \notin Elements(blocks) THEN blocks
  ELSE [i \in DOMAIN blocks |-> IF i \in DOMAIN Wanted(hw, golden) THEN Wanted(hw, golden)[i] ELSE blocks[i]]

\* _check_block_validity: the block taken for the first may be given twice.
Validated(hw, blocks, golden) ==
  LET free == NewAvailableBlock(1, Elements(blocks) \cup InUse(hw))
      valid == [i \in DOMAIN blocks |-> IF blocks[i] \in {0, OddBlock} THEN free ELSE blocks[i]]
  IN IF ~golden /\ valid[1] = valid[2] THEN [valid EXCEPT ![2] = free] ELSE valid
Overlaps(hw, blocks, golden) ==
  Elements(blocks) \cap (IF golden THEN {Locations(hw).bit, Locations(hw).scrub}
                         ELSE {Locations(hw).gold}) # {}

\* _check_bad_block_list: only the first block of a file is looked up.
Avoided(hw, blocks, i, ic) ==
  IF blocks[i] \notin BadBlocks(ic) THEN blocks
  ELSE [blocks EXCEPT ![i] =
          NewAvailableBlock(@ + 1, BadBlocks(ic) \cup Elements(blocks) \cup InUse(hw))]
Checked(hw, blocks, golden, ic) ==
  LET first == Avoided(hw, blocks, 1, ic) IN IF golden THEN first ELSE Avoided(hw, first, 2, ic)

\* Mutant: other blocks do not count either.
MovedNever(hw, blocks, golden) == FALSE

\* Whether the blocks are others than those in use.  The checks change the
\* list itself, so a block that they moved does not count.
Moved(hw, blocks, golden) ==
  NoBlock \notin Elements(blocks) /\ SubSeq(blocks, 1, Len(Wanted(hw, golden))) # Wanted(hw, golden)

Placed(st, blocks, golden) == IF golden THEN [st EXCEPT !.gold = blocks] ELSE [st EXCEPT !.blocks = blocks]
Exiting(st) == IF Go(st) THEN st ELSE [st EXCEPT !.err = "exit"]
WriteFiles(st, blocks, golden, ic, version) ==
  LET config(s) == Exiting(FlashWriteFileToBlock(s, blocks[1], ic, Image("config", version, "clean")))
      scrub(s) == Exiting(FlashWriteFileToBlock(s, blocks[2], ic, Image("scrub", version, "clean")))
  IN IF ~Go(st) THEN st ELSE IF golden THEN config(st) ELSE scrub(config(st))
PageOf(page, blocks, golden) ==
  IF golden THEN [page EXCEPT !.gold = blocks[1]] ELSE [page EXCEPT !.bit = blocks[1], !.scrub = blocks[2]]

\* The list is complete and valid: check it against the bad blocks, write.
FlashPlaced(st, page, blocks, moved, golden, ic, version, update) ==
  LET written == WriteFiles(Placed(st, blocks, golden), blocks, golden, ic, version)
  IN IF update \/ moved THEN UpdateParameterPage(written, PageOf(page, blocks, golden), ic)
     ELSE written

FlashFilled(st, blocks, filled, golden, overwrite, ic, version, update) ==
  IF NoBlock \in Elements(filled) THEN Raise(Placed(st, filled, golden), "type error")
  ELSE LET valid == Validated(st.hw, filled, golden)
       IN IF Overlaps(st.hw, valid, golden) /\ ~overwrite
          THEN Raise(Placed(st, valid, golden), "overlap")
          ELSE FlashPlaced(st, Locations(st.hw), Checked(st.hw, valid, golden, ic),
                           Moved(st.hw, blocks, golden), golden, ic, version, update)

FlashBitfilesToBlock(st, blocks, golden, overwrite, ic, version, update) ==
  LET located(s) ==
        IF ~Go(s) THEN s
        ELSE FlashFilled(s, blocks, Filled(s.hw, blocks, golden), golden, overwrite, ic, version, update)
  IN located(GetBitfileLocations(st))

\* flash_bitfiles_to_all_blocks
FlashBitfilesToAllBlocks(st, overwrite, ic, version, update) ==
  LET default(s) == FlashBitfilesToBlock(s, s.blocks, FALSE, overwrite, ic, version, FALSE)
      golden(s) == FlashBitfilesToBlock(s, s.gold, TRUE, overwrite, ic, version, FALSE)
      page(s) == IF ~update THEN s
                 ELSE UpdateParameterPage(s, [bit |-> s.blocks[1], scrub |-> s.blocks[2],
                                              gold |-> s.gold[1]], ic)
  IN page(golden(default(st)))

------------------------------------------------------------------------------
(***************************************************************************)
(* The scrubbing status of a readout unit: what is known of each image     *)
(* location in its flash chips, and which of them is the current one.      *)
(* Counters that only feed reports are left out.                           *)
(***************************************************************************)
CONSTANT MAX_ALLOWED_REPROGRAM_TRIES      \* 50

ASSUME TriesAssumption == MAX_ALLOWED_REPROGRAM_TRIES \in Nat \ {0}

ImageStatus == {"ok", "warning", "critical", "fatal", "not programmed"}
RUStatus == {"ok", "warning", "fatal", "not loaded"}
None == 0          \* no current image location

ImageLocation(ic, slot, page0, status) ==
  [ic |-> ic, slot |-> slot, page0 |-> page0, enabled |-> TRUE, status |-> status, retries |-> 0]

\* ScrubbingRUStatus(): nothing is known yet.
Empty == [ru |-> "not loaded", current |-> None, images |-> <<>>]
IsLoaded(s) == s.images # <<>> /\ s.current # None

Usable(image) == image.status \in {"ok", "warning"}
IsSafe(image) == Usable(image) /\ image.enabled
RuIsSafe(s) == s.ru \in {"ok", "warning"}
CurrentIsSafe(s) == IsLoaded(s) /\ IsSafe(s.images[s.current])

\* The indices of the enabled locations, by their status
Enabled(s, wanted(_)) == SelectSeq([i \in DOMAIN s.images |-> i],
                                   LAMBDA i : s.images[i].enabled /\ wanted(s.images[i]))
SafeLocations(s) == Enabled(s, Usable)
CriticalLocations(s) == Enabled(s, LAMBDA i : i.status = "critical")
NotProgrammedLocations(s) == Enabled(s, LAMBDA i : i.status = "not programmed")

\* ImageLocationStatus.update_status
UpdateImage(image, results) ==
  LET lost == results.crc \/ results.db
      given_up == image.retries >= MAX_ALLOWED_REPROGRAM_TRIES
  IN IF image.status = "fatal" THEN image
     ELSE [image EXCEPT
             !.status = CASE lost /\ given_up -> "fatal"
                          [] (lost /\ ~given_up) \/ (~lost /\ results.sb = "many") -> "critical"
                          [] ~lost /\ results.sb = "some" -> "warning"
                          [] ~lost /\ results.sb = "none" -> "ok",
             !.retries = IF lost THEN @ ELSE 0]

StatUpdateReprogram(image) == [image EXCEPT !.retries = @ + 1]

\* update_status: a location that is not programmed does not count.
UpdateStatus(s) ==
  LET bad == {i \in DOMAIN s.images : s.images[i].status \in {"critical", "fatal"}}
  IN [s EXCEPT !.ru = CASE bad = DOMAIN s.images -> "fatal"
                        [] bad # {} /\ bad # DOMAIN s.images -> "warning"
                        [] bad = {} /\ bad # DOMAIN s.images -> "ok"]

\* update_current_image_location: the next one may be disabled.
NextAvailable(s) == SelectInSeq(s.images, Usable)
UpdateCurrent(s) ==
  IF CurrentIsSafe(s) THEN s
  ELSE [s EXCEPT !.current = NextAvailable(s),
                 !.ru = IF NextAvailable(s) = None THEN "fatal" ELSE @]

WithResults(s, i, results) == [s EXCEPT !.images[i] = UpdateImage(@, results)]

------------------------------------------------------------------------------
(***************************************************************************)
(* Scrubbing with a record of its results: the methods that configure and  *)
(* run a scrub cycle, read how it went, note that for the image location   *)
(* used, and reprogram locations that failed.                              *)
(*                                                                         *)
(* The state of a call has, besides the device, mem: the status in memory, *)
(* file: the one on disk, and noted: what the latest recorded cycle was    *)
(* about.  A reset of the slow control core and the transfer to the XCKU's *)
(* fifo are those of Flashing.                                             *)
(***************************************************************************)
\* What the latest recorded cycle was about
Nothing == [test |-> TRUE, location |-> <<>>, page0 |-> FALSE, read |-> <<>>, complete |-> FALSE,
            success |-> FALSE, inhibited |-> FALSE, before |-> "good", after |-> "good"]

Answer(st, value) == IF Go(st) THEN [st EXCEPT !.value = value] ELSE st

\* update_scrubbing_status_files
Store(st) ==
  IF Go(AskXcku(st)) THEN [st EXCEPT !.file = st.mem, !.stored = TRUE] ELSE AskXcku(st)

\* load_scrubbing_status: it has already given up what was in memory.
Loaded(st) ==
  CASE ~Go(st) -> st
    [] Go(st) /\ ~st.stored -> Answer(st, FALSE)
    [] Go(st) /\ st.stored -> Answer([st EXCEPT !.mem = st.file], TRUE)
Load(st, force) ==
  IF Go(st) /\ (force \/ ~st.known)
  THEN Loaded(AskXcku([st EXCEPT !.mem = Empty, !.known = TRUE])) ELSE Answer(st, TRUE)
LoadOr(st, err) == IF Go(st) /\ ~st.value THEN Raise(st, err) ELSE st

Note(st, mem) == IF Go(st) THEN [st EXCEPT !.mem = mem] ELSE st

-----------------------------------------------------------------------------
\* create_and_store_new_scrubbing_status
FromPage0(hw) == [ic \in 1..2 |-> ImageLocation(ic, Locations(hw).scrub, TRUE, "ok")]

\* The bad blocks that are to be taken off the list have to be on it.
Removable(hw) == /\ Cardinality(InUse(hw) \cap Slots) = 3
                 /\ \A c \in Chip : BadBlocks(c) \subseteq Slots \ InUse(hw)
Potential(hw, c) == SetToSortSeq(Slots \ (InUse(hw) \cup BadBlocks(c)), <)
FromBadBlocksDb(hw) ==
  LET of(c) == [i \in DOMAIN Potential(hw, c) |->
                  ImageLocation(c, Potential(hw, c)[i], FALSE, "not programmed")]
  IN of(1) \o of(2)

Listed(st, page0, db) ==
  IF ~Go(st) THEN st
  ELSE IF db /\ ~Removable(st.hw) THEN Raise(st, "not in list")
  ELSE Note(st, UpdateStatus(UpdateCurrent([Empty EXCEPT !.images =
         (IF page0 THEN FromPage0(st.hw) ELSE <<>>) \o (IF db THEN FromBadBlocksDb(st.hw) ELSE <<>>)])))
Begun(st) == IF Go(st) THEN [st EXCEPT !.mem = Empty, !.known = TRUE] ELSE st
CreateStatus(st, page0, db) ==
  Store(Listed(GetBitfileLocations(Begun(AskXcku(st))), page0, db))

-----------------------------------------------------------------------------
\* What a scrub cycle is about: a location (with its place in the status, or
\* 0), or a chip and whatever its page 0 says.
Place(image) == [ic |-> image.ic, slot |-> image.slot, page0 |-> image.page0]
OnPage0(ic) == [ic |-> ic, slot |-> 0, page0 |-> TRUE]

\* Mutant: the address of the cycle before stays.
ConfigureStale(st, place) ==
  IF place.page0 THEN SetFlashSelectIc(st, place.ic)
  ELSE SetScrubBlockAddress(SetFlashSelectIc(st, place.ic), place.slot)

\* configure_scrub_location, from a status entry, a location, or page 0
ConfigureScrubLocation(st, place) ==
  LET cleared == SetFlashSelectIc(SetScrubBlockAddress(st, 0), place.ic)
  IN IF place.page0 THEN cleared ELSE SetScrubBlockAddress(cleared, place.slot)

\* determine_post_scrub_status, and the results it notes
Results(hw) ==
  [db |-> hw.ecc = "db", crc |-> hw.ecc # "db" /\ hw.crc # hw.fabric.version,
   sb |-> CASE hw.ecc = "sb" -> "some" [] hw.ecc = "many" -> "many" [] OTHER -> "none"]
Success(hw) == ~Results(hw).db /\ ~Results(hw).crc /\ Results(hw).sb # "many"
PostScrub(st) == AskXcku(Look(st))

\* The scrub itself
Recorded(st, place, test, complete, old) ==
  IF ~Go(st) THEN st
  ELSE [st EXCEPT !.value = Success(st.hw),
                  !.noted = [test |-> test, location |-> <<place.ic, place.slot>>,
                             page0 |-> place.page0, read |-> st.hw.read, complete |-> complete,
                             success |-> Success(st.hw), inhibited |-> st.inhibited,
                             before |-> old.fabric.state, after |-> st.hw.fabric.state]]
Examined(st, place, test, clear, old) ==
  Recorded(PostScrub(IF clear THEN SetScrubBlockAddress(st, 0) ELSE st), place, test, st.value, old)
Cycle(st, place, test, clear) ==
  Examined(IF test THEN RunSingleScrubTest(ConfigureScrubLocation(st, place))
           ELSE RunSingleScrub(ConfigureScrubLocation(st, place)),
           place, test, clear, st.hw)

\* _run_scrub_cycle: of the current image
Current(st) == st.mem.images[st.mem.current]
Allowed(st) ==
  CASE ~Go(st) -> st
    [] Go(st) /\ ~RuIsSafe(st.mem) -> Raise(st, "image not safe")
    [] Go(st) /\ RuIsSafe(st.mem) /\ ~IsLoaded(st.mem) -> Raise(st, "not loaded")
    [] Go(st) /\ RuIsSafe(st.mem) /\ IsLoaded(st.mem) ->
         IF ~Current(st).page0 /\ ~st.hw.mature THEN Raise(Look(st), "not mature") ELSE Look(st)
Saved(st, file) == IF file THEN Store(st) ELSE st
CurrentNoted(st) ==
  IF Go(st) THEN Note(st, UpdateStatus(WithResults(st.mem, st.mem.current, Results(st.hw)))) ELSE st
CycleCurrent(st, test) == IF Go(st) THEN Cycle(st, Place(Current(st)), test, TRUE) ELSE st
RunScrubCycle(st, test, file) ==
  Saved(CurrentNoted(CycleCurrent(
          Allowed(StopScrubbingAndResetOnDbError(LoadOr(Load(st, FALSE), "not loaded"))), test)), file)

\* _run_scrub_cycle_location, a test: the i-th location of the status, whose
\* address is set even if it comes from page 0
LocationNoted(st, i) ==
  IF Go(st) THEN Note(st, WithResults(st.mem, i, Results(st.hw))) ELSE st
RunScrubCycleLocation(st, i) ==
  IF ~Go(st) THEN st
  ELSE Store(LocationNoted(Cycle(StopScrubbingAndResetOnDbError(st),
                                 [Place(st.mem.images[i]) EXCEPT !.page0 = FALSE], TRUE, TRUE), i))

\* _run_scrub_cycle_page0: the address stays.
RunScrubCyclePage0(st, ic) ==
  Cycle(StopScrubbingAndResetOnDbError(st), OnPage0(ic), TRUE, FALSE)

-----------------------------------------------------------------------------
\* One round of run_scrub_loop.  value: whether the loop goes on.
Refreshed(st) == IF Go(st) THEN Note(st, UpdateCurrent(UpdateStatus(st.mem))) ELSE st
Real(st) == Answer(Store(RunScrubCycle(SmapAbortAndVerify(st), FALSE, FALSE)), TRUE)

\* Mutant: a failed test is followed by the real scrub.
TestIgnored(st) == Real(Note(st, UpdateCurrent(st.mem)))

\* After a test that failed, the next round takes another image.
Tested(st) ==
  CASE ~Go(st) -> st
    [] Go(st) /\ ~st.value -> Answer(Store(st), TRUE)
    [] Go(st) /\ st.value -> Real(Note(st, UpdateCurrent(st.mem)))
Scrubbed(st, with_test) ==
  CASE ~Go(st) -> st
    [] Go(st) /\ ~RuIsSafe(st.mem) -> Answer(Store(st), FALSE)
    [] Go(st) /\ RuIsSafe(st.mem) ->
         IF with_test THEN Tested(RunScrubCycle(st, TRUE, FALSE)) ELSE Real(st)
ScrubLoopRound(st, with_test) ==
  IF Go(st) /\ ~st.value THEN st ELSE Scrubbed(Refreshed(st), with_test)
RunScrubLoopRound(st, with_test) == ScrubLoopRound(Load(st, TRUE), with_test)

\* check_and_update_scrub_status_iter_locations
CheckedAll(st) ==
  IF ~Go(st) \/ ~st.value THEN st
  ELSE FoldLeft(LAMBDA s, i : CASE ~Go(s) -> s [] Go(s) -> RunScrubCycleLocation(s, i),
                st, SafeLocations(st.mem))
CheckAndUpdateLocations(st) == CheckedAll(Load(st, TRUE))

-----------------------------------------------------------------------------
\* _reflash_scrub_block_location and _reflash_scrub_block_page0
Reprogrammed(st, i) ==
  IF Go(st) THEN Store(Note(st, [st.mem EXCEPT !.images[i] = StatUpdateReprogram(@)])) ELSE st
ReflashLocation(st, i, version) ==
  Reprogrammed(FlashWriteFileToBlock(StopScrubbingAndResetOnDbError(st), st.mem.images[i].slot,
                                     st.mem.images[i].ic, Image("scrub", version, "clean")), i)
ReflashPage0(st, ic, version) ==
  LET write(s) == FlashWriteFileToBlock(s, Locations(s.hw).scrub, ic, Image("scrub", version, "clean"))
  IN write(GetBitfileLocations(StopScrubbingAndResetOnDbError(st)))

\* reflash_all_critical_locations, flash_all_not_programmed_locations: a
\* location that could not be reprogrammed is given up, whatever the reason.
GivenUp(st, i) ==
  IF Go(st) THEN RunScrubCycleLocation(st, i)
  ELSE [Caught(st) EXCEPT !.mem.images[i].status = "fatal"]
ReflashAll(st, indices, version) ==
  FoldLeft(LAMBDA s, i : CASE ~Go(s) -> s [] Go(s) -> GivenUp(ReflashLocation(s, i, version), i),
           st, indices)
Settled(st) == IF Go(st) THEN Store(Note(st, UpdateStatus(UpdateCurrent(st.mem)))) ELSE st
ReflashIf(st, critical, version) ==
  IF ~Go(st) \/ ~st.value THEN st
  ELSE Settled(ReflashAll(st, IF critical THEN CriticalLocations(st.mem)
                              ELSE NotProgrammedLocations(st.mem), version))
ReflashLocations(st, critical, version) == ReflashIf(Load(st, TRUE), critical, version)

\* check_scrub_ok, check_scrub_and_reflash
CheckScrubOk(st, status, ic) ==
  LET stopped == StopScrubbingAndResetOnDbError(st)
  IN AskXcku(IF status THEN RunScrubCycle(stopped, TRUE, TRUE) ELSE RunScrubCyclePage0(stopped, ic))
Reflashed(st, ic, version) == IF Go(st) /\ ~st.value THEN ReflashPage0(st, ic, version) ELSE st
CheckScrubAndReflash(st, ic, version) == Reflashed(CheckScrubOk(st, FALSE, ic), ic, version)

\* check_scrub_ok_all and check_scrub_and_reflash_all, on one unit: a unit
\* that was stuck counts as a failed check.
AtFault(st) == st.err \in {"double bit", "stuck on"}
Afresh(st) == IF AtFault(st) THEN Answer(ResetPa3(Caught(st), TRUE), FALSE)
              ELSE Answer(ResetPa3(st, TRUE), TRUE)
CheckAgain(st, ic) ==
  LET both(s, earlier) == Answer(s, s.value /\ earlier)
  IN both(CheckScrubOk(st, FALSE, ic), st.value)
CheckScrubOkAll(st, ic) ==
  LET twice(s) == IF Go(s) /\ ~s.value THEN CheckAgain(s, ic) ELSE CheckAgain(CheckAgain(s, ic), ic)
  IN twice(Afresh(StopScrubbing(st)))
CheckScrubAndReflashAll(st, ic, version) ==
  LET first(s) == IF Go(s) /\ ~s.value THEN ReflashPage0(s, ic, version)
                  ELSE CheckScrubAndReflash(s, ic, version)
  IN CheckScrubAndReflash(first(Afresh(StopScrubbing(st))), ic, version)
==============================================================================
