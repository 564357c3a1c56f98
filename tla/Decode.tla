------------------------------- MODULE Decode --------------------------------
(***************************************************************************)
(* decode_alpide of decode.py: what the chips of one lane sent for one     *)
(* event, taken apart word by word.  State is the state of its loop, as it *)
(* is after a word, or one of its ends: "ok", "failed" when an assertion   *)
(* or an access out of range raised, "endless" when it stops moving.       *)
(***************************************************************************)
EXTENDS ChipData, TLC
CONSTANT MaxChips       \* 7

NoRegion == -1
Loop == [end |-> "none", i |-> 1, chips |-> 0, reg |-> NoRegion, hits |-> <<>>,
         chip_header_found |-> FALSE, chip_trailer_found |-> FALSE,
         previous_address |-> 0, previous_region |-> 0,
         chipid |-> 0, bc |-> 0, busy_on |-> 0, busy_off |-> 0, ret |-> <<>>]

RegionAddr(reg, addr) ==
    <<32 * reg + 2 * (addr \div 1024) + (IF Bit(addr, 0) # Bit(addr, 1) THEN 1 ELSE 0), (addr \div 2) % 512>>

\* decode_flags; FATAL has the same pattern as DataOverrun and is never found.
DecodeFlags(flags) == IF ~Bit(flags, 3) THEN {i \in 0..2 : Bit(flags, i)}
                      ELSE IF flags = 12 THEN {"DataOverrun"} ELSE {}

Failed(c) == [c EXCEPT !.end = "failed"]
Needs(c, bytes, n) == c.i + n - 1 <= Len(bytes)
Moved(c, n) == [c EXCEPT !.i = @ + n]

\* An empty frame; what is returned as busy_on is the number of busy off.
Empty(c, bytes) ==
    IF ~Needs(c, bytes, 2) THEN Failed(c)
    ELSE [Moved(c, 2) EXCEPT !.chip_header_found = FALSE, !.chip_trailer_found = TRUE,
            !.chipid = bytes[c.i] % 16, !.bc = bytes[c.i + 1], !.busy_on = 0, !.busy_off = 0,
            !.ret = Append(@, [chipid |-> bytes[c.i] % 16, bc |-> bytes[c.i + 1], flags |-> {}, hits |-> <<>>,
                               busy_on |-> c.busy_off, busy_off |-> c.busy_off])]
Region(c, bytes) ==
    IF ~Needs(c, bytes, 3) \/ bytes[c.i] % 32 < c.previous_region THEN Failed(c)
    ELSE [Moved(c, 1) EXCEPT !.reg = bytes[c.i] % 32, !.previous_region = bytes[c.i] % 32, !.previous_address = 0]

Addr(c, bytes) == (bytes[c.i] % 64) * 256 + bytes[c.i + 1]
Add(c, positions) == [c EXCEPT !.hits = @ \o [k \in DOMAIN positions |-> RegionAddr(c.reg, positions[k])],
                               !.previous_address = positions[Len(positions)]]
DataShort(c, bytes, accept) ==
    IF ~Needs(c, bytes, 2) \/ c.reg = NoRegion \/ (Addr(c, bytes) < c.previous_address /\ ~accept) THEN Failed(c)
    ELSE Add(Moved(c, 2), <<Addr(c, bytes)>>)
DataLong(c, bytes, accept) ==
    IF ~Needs(c, bytes, 3) \/ c.reg = NoRegion \/ (Addr(c, bytes) < c.previous_address /\ ~accept)
       \/ Bit(bytes[c.i + 2], 7)
    THEN Failed(c)
    ELSE LET set == SelectSeq([k \in 1..7 |-> k], LAMBDA k : Bit(bytes[c.i + 2], k - 1))
         IN Add(Moved(c, 3), <<Addr(c, bytes)>> \o [k \in DOMAIN set |-> Addr(c, bytes) + set[k]])
Trailer(c, bytes) ==
    [Moved(c, 1) EXCEPT !.chip_trailer_found = TRUE, !.chip_header_found = FALSE, !.busy_on = 0, !.busy_off = 0,
       !.ret = Append(@, [chipid |-> c.chipid, bc |-> c.bc, flags |-> DecodeFlags(bytes[c.i] % 16), hits |-> c.hits,
                          busy_on |-> c.busy_on, busy_off |-> c.busy_off])]

\* Mutant: the region of the chip before stays.
HeaderKeepsRegion(c, bytes) ==
    IF ~Needs(c, bytes, 2) THEN Failed(c)
    ELSE [Moved(c, 2) EXCEPT !.chip_header_found = TRUE, !.chip_trailer_found = FALSE, !.chips = @ + 1,
            !.chipid = bytes[c.i] % 16, !.bc = bytes[c.i + 1], !.reg = NoRegion, !.hits = <<>>]
Header(c, bytes) ==
    IF ~Needs(c, bytes, 2) THEN Failed(c)
    ELSE [Moved(c, 2) EXCEPT !.chip_header_found = TRUE, !.chip_trailer_found = FALSE, !.chips = @ + 1,
            !.chipid = bytes[c.i] % 16, !.bc = bytes[c.i + 1], !.reg = NoRegion, !.hits = <<>>,
            !.previous_region = 0]

\* After the last chip only padding may come, over which the loop does not move.
Word(c, bytes, accept) ==
    LET byte == bytes[c.i] IN
    IF c.chips > MaxChips THEN [c EXCEPT !.end = IF byte = Padding THEN "endless" ELSE "failed"]
    ELSE IF byte = BusyOn THEN [Moved(c, 1) EXCEPT !.busy_on = @ + 1]
    ELSE IF byte = BusyOff THEN [Moved(c, 1) EXCEPT !.busy_off = @ + 1]
    ELSE IF Kind(byte) = "emptyframe" THEN Empty(c, bytes)
    ELSE IF c.chip_header_found
    THEN CASE Kind(byte) = "region" -> Region(c, bytes)
           [] Kind(byte) = "datashort" -> DataShort(c, bytes, accept)
           [] Kind(byte) = "datalong" -> DataLong(c, bytes, accept)
           [] Kind(byte) = "trailer" -> Trailer(c, bytes)
           [] OTHER -> Failed(c)
    ELSE IF Kind(byte) = "header" THEN Header(c, bytes)
    ELSE IF byte = Padding THEN Moved(c, 1) ELSE Failed(c)

Enter(bytes) == IF Len(bytes) < 2 \/ ~(Kind(bytes[1]) \in {"emptyframe", "header"} \/ bytes[1] \in {BusyOn, BusyOff})
                THEN Failed(Loop) ELSE Loop
Leave(c) == [c EXCEPT !.end = IF c.chip_trailer_found THEN "ok" ELSE "failed"]

------------------------------------------------------------------------------
(***************************************************************************)
(* decode.py over a file of a run: blocks of the card, pages of one        *)
(* readout unit, words of a page, and at the end of each event the data of *)
(* its lanes.  Assertions end the program ("failed").                      *)
(***************************************************************************)
CONSTANT Jobs           \* the files, with what was sent and the options of the program
VARIABLES
  job,          \* the job
  place,        \* the loop that runs: blocks, words, lanes, chip; or how it ended
  at,           \* the next block and the next word of its page
  state,        \* the variables of main
  found,        \* what was decoded of each lane of each event
  chip_loop     \* the variables of decode_alpide and the lanes left
decodevars == <<job, place, at, state, found, chip_loop>>

NoPage == [pages_count |-> -1]
Type == {"PHYSICS", "HB", "SOT", "EOT", "SOC", "EOC"}
Main == [previous_rdh |-> NoPage, link |-> -1, header_found |-> FALSE, active_lanes |-> {}, lanes |-> <<>>,
         modes |-> {}, events_cnt |-> [t \in Type |-> 0], event_count |-> 0, iblock |-> 0, others |-> 0,
         tdh_no_continuation |-> 0, tdt_packet_done |-> 0,
         cdw |-> <<>>, row |-> -1, charge |-> -1, observed |-> job.injections,
         total_hits |-> 0, pixels |-> <<>>]

Block == job.file[at.block]
Words == Block.words
Goto(next) == place' = next /\ UNCHANGED <<job, found, chip_loop>>
Fail == Goto("failed") /\ UNCHANGED <<at, state>>
NextBlock == at' = [block |-> at.block + 1, word |-> 1]
NextWord == at' = [at EXCEPT !.word = @ + 1]
Counted(cnt, types) == [t \in Type |-> cnt[t] + (IF t \in types THEN 1 ELSE 0)]

(***************************************************************************)
(* Blocks.  Anything but a header of the card is skipped, and so is a block*)
(* that is not complete.  The first page in a block is taken, if it is one *)
(* of the readout unit that is asked for.                                  *)
(***************************************************************************)
SkipBlock == /\ place = "blocks" /\ at.block <= Len(job.file)
             /\ Block.kind \in {"other", "incomplete"}
             /\ NextBlock /\ Goto("blocks") /\ UNCHANGED state

\* decode_rdh: the fields that have one value, and the triggers there are none of.
WellFormed(rdh) == rdh.fixed /\ {"PP", "CAL"} \cap rdh.triggers = {}
BadPage == /\ place = "blocks" /\ at.block <= Len(job.file) /\ Block.kind = "page"
           /\ ~WellFormed(Block.rdh) /\ Fail
OtherPage == /\ place = "blocks" /\ at.block <= Len(job.file) /\ Block.kind = "page"
             /\ WellFormed(Block.rdh) /\ Block.rdh.feeid # job.feeid
             /\ state' = [state EXCEPT !.iblock = @ + 1, !.others = @ + 1]
             /\ NextBlock /\ Goto("blocks")

\* Mutant: nothing compares the time of a first page with the page before.
FollowsAnyTime(rdh, prev) ==
    /\ rdh.pages_count \in {0, prev.pages_count + 1}
    /\ rdh.pages_count # 0 => /\ rdh.trg = prev.trg /\ rdh.triggers = prev.triggers
                              /\ rdh.detfield = prev.detfield
Follows(rdh, prev) ==
    /\ rdh.pages_count \in {0, prev.pages_count + 1}
    /\ rdh.pages_count = 0 /\ prev # NoPage => rdh.trg # prev.trg
    /\ rdh.pages_count # 0 => /\ rdh.trg = prev.trg /\ rdh.triggers = prev.triggers
                              /\ rdh.detfield = prev.detfield
Page == /\ place = "blocks" /\ at.block <= Len(job.file) /\ Block.kind = "page"
        /\ WellFormed(Block.rdh) /\ Block.rdh.feeid = job.feeid
        /\ IF state.link \notin {-1, Block.link} \/ ~Follows(Block.rdh, state.previous_rdh) THEN Fail
           ELSE /\ state' = [state EXCEPT
                     !.iblock = @ + 1, !.link = Block.link, !.previous_rdh = Block.rdh,
                     !.modes = @ \cup (Block.rdh.triggers \cap {"SOC", "EOC", "SOT", "EOT"}),
                     !.events_cnt = IF Block.rdh.pages_count = 0 THEN Counted(@, Block.rdh.triggers) ELSE @,
                     !.header_found = FALSE, !.active_lanes = {}]
                /\ UNCHANGED at /\ Goto("words")
PageEnd == /\ place = "words" /\ at.word > Len(Words)
           /\ NextBlock /\ Goto("blocks") /\ UNCHANGED state

(***************************************************************************)
(* Words of a page.                                                        *)
(***************************************************************************)
AtWord(id) == place = "words" /\ at.word <= Len(Words) /\ Words[at.word].id = id
W == Words[at.word]
Proceed(new) == state' = new /\ NextWord /\ Goto("words")

\* Three words fit into a word of the card; the header is in the first.
Ihw == /\ AtWord("IHW")
       /\ IF at.word > 3 \/ (job.lane_list # {} /\ W.lanes # job.lane_list) THEN Fail
          ELSE Proceed([state EXCEPT !.active_lanes = W.lanes])

\* The first trigger of a time frame has bunch counter 0 and was counted with
\* the page.  A continued event is counted again.
Tdh == /\ AtWord("TDH")
       /\ Proceed([state EXCEPT !.header_found = TRUE,
                     !.tdh_no_continuation = IF W.continuation THEN @ ELSE @ + 1,
                     !.events_cnt = IF W.bc # 0 THEN Counted(@, W.triggers) ELSE @])

\* The lane of a word must be active, and in the first word of the lane agree
\* with the chip, whose header may come after one busy word.
OfLane(lane, bytes) == lane = (IF bytes[1] \in {BusyOn, BusyOff} THEN bytes[2] ELSE bytes[1]) % 16
Data == /\ AtWord("IB")
        /\ LET known == W.lane \in DOMAIN state.lanes IN
           IF \/ ~state.header_found \/ W.lane \notin state.active_lanes
              \/ ~known /\ ~OfLane(W.lane, W.bytes)
           THEN Fail
           ELSE Proceed([state EXCEPT !.lanes =
                  IF known THEN [@ EXCEPT ![W.lane] = @ \o W.bytes] ELSE (W.lane :> W.bytes) @@ @])

\* Diagnostic words and lanes of the outer barrel are told or passed over.
Passed == /\ \E id \in {"DDW", "diagnostic", "OB"} : AtWord(id)
          /\ Proceed(state)

(***************************************************************************)
(* The calibration word of a threshold scan: injections times the same row *)
(* and charge, then a higher charge, or a higher row and a lower charge.   *)
(***************************************************************************)
RowRises(row) == IF job.thscan6 /\ state.row >= 0 THEN row >= state.row % 5 ELSE row >= state.row
StepFollows(row, charge) ==
    IF state.observed # job.injections THEN row = state.row /\ charge = state.charge
    ELSE /\ RowRises(row)
         /\ IF row = state.row THEN charge > state.charge
            ELSE state.charge # -1 /\ state.previous_rdh.triggers # {"EOT"} => charge < state.charge
FieldFollows == state.cdw \notin {<<>>, W.field} => W.counter = 0
Cdw == /\ AtWord("CDW")
       /\ IF ~job.thscan \/ ~FieldFollows \/ ~StepFollows(W.field[1], W.field[2]) THEN Fail
          ELSE Proceed([state EXCEPT !.cdw = W.field, !.row = W.field[1], !.charge = W.field[2],
                          !.observed = IF @ = job.injections THEN 1 ELSE @ + 1])

\* Mutant: the lanes of an event stay for the next one.
ClearNothing == [state EXCEPT !.header_found = FALSE]
Clear == [state EXCEPT !.lanes = <<>>, !.header_found = FALSE]

\* The trailer; if the packet is done the lanes of the event are decoded.
Tdt == /\ AtWord("TDT")
       /\ LET done == state.tdt_packet_done + (IF W.done THEN 1 ELSE 0)
              new == [state EXCEPT !.tdt_packet_done = done, !.event_count = IF W.done THEN @ + 1 ELSE @]
          IN IF done > state.tdh_no_continuation THEN Fail
             ELSE IF ~W.done THEN Proceed(new)
             ELSE /\ state' = new /\ place' = "lanes"
                  /\ chip_loop' = [chip_loop EXCEPT !.left = IF job.skip_data THEN {} ELSE DOMAIN state.lanes]
                  /\ UNCHANGED <<job, at, found>>

(***************************************************************************)
(* The lanes of an event, one after the other.                             *)
(***************************************************************************)
EnterLane(lane) ==
    /\ place = "lanes" /\ lane \in chip_loop.left
    /\ place' = "chip"
    /\ chip_loop' = [left |-> chip_loop.left \ {lane}, lane |-> lane, c |-> Enter(state.lanes[lane])]
    /\ UNCHANGED <<job, at, state, found>>
Bytes == state.lanes[chip_loop.lane]
ChipWord == /\ place = "chip" /\ chip_loop.c.end = "none"
            /\ chip_loop' = [chip_loop EXCEPT !.c = IF @.i > Len(Bytes) THEN Leave(@)
                                                    ELSE Word(@, Bytes, job.accept_decreasing_address)]
            /\ UNCHANGED <<job, place, at, state, found>>

\* Pixels are counted by chip of the lane group and, in a scan, by charge,
\* if they are in the row.
Seen(ret) == FoldLeft(LAMBDA all, r : all \o [k \in DOMAIN r.hits |->
                        <<r.chipid % 3, r.hits[k][1], r.hits[k][2], IF job.thscan THEN state.charge ELSE 0>>],
                      <<>>, ret)
Kept(hits) == SelectSeq(hits, LAMBDA x : job.fhr \/ (job.thscan /\ x[3] = state.row))
Tally(pixels, hits) == FoldLeft(LAMBDA all, x : IF x \in DOMAIN all THEN [all EXCEPT ![x] = @ + 1]
                                                ELSE (x :> 1) @@ all, pixels, hits)
LeaveLane == /\ place = "chip" /\ chip_loop.c.end \in {"ok", "failed"}
             /\ IF chip_loop.c.end = "failed" THEN Fail
                ELSE LET ret == chip_loop.c.ret IN
                     /\ place' = "lanes"
                     /\ found' = found \cup {<<state.event_count, chip_loop.lane, ret>>}
                     /\ state' = [state EXCEPT !.total_hits = @ + Len(Seen(ret)),
                                               !.pixels = Tally(@, Kept(Seen(ret)))]
                     /\ UNCHANGED <<job, at, chip_loop>>
EventEnd == /\ place = "lanes" /\ chip_loop.left = {} /\ Proceed(Clear)

\* What is compared at the end: the counters of the run, if there are any.
CountersAgree ==
    job.counters # <<>> =>
    /\ job.counters.packets = state.iblock
    /\ "SOT" \in state.modes => job.counters.triggers = state.events_cnt["PHYSICS"]
Report == /\ place = "blocks" /\ at.block > Len(job.file)
          /\ IF CountersAgree /\ ~({"SOC", "SOT"} \subseteq state.modes) THEN Goto("done") /\ UNCHANGED <<at, state>>
             ELSE Fail

DecodeInit == /\ job \in Jobs /\ place = "blocks" /\ at = [block |-> 1, word |-> 1]
              /\ state = Main /\ found = {} /\ chip_loop = [left |-> {}, lane |-> -1, c |-> Loop]
DecodeNext == \/ SkipBlock \/ BadPage \/ OtherPage \/ Page \/ PageEnd
              \/ Ihw \/ Tdh \/ Data \/ Passed \/ Cdw \/ Tdt
              \/ (\E lane \in chip_loop.left : EnterLane(lane)) \/ ChipWord \/ LeaveLane \/ EventEnd
              \/ Report
-----------------------------------------------------------------------------
(***************************************************************************)
(* A file as it was sent is read to its end and what is decoded is what was*)
(* sent: events, frames, hits, pixels and triggers.                        *)
(***************************************************************************)
SameFrames(ret, frames) ==
    /\ Len(ret) = Len(frames)
    /\ \A i \in DOMAIN ret :
         /\ ret[i].chipid = frames[i].id /\ ret[i].bc = frames[i].bc
         /\ ToSet(ret[i].hits) = PixelsOf(frames[i]) /\ Len(ret[i].hits) = Cardinality(PixelsOf(frames[i]))
         /\ frames[i].flags < 8 => ret[i].flags = {k \in 0..2 : Bit(frames[i].flags, k)}
Decoded(n) == {x \in found : x[1] = n}
AsSent == /\ state.event_count = Len(job.sent.events)
          /\ \A n \in DOMAIN job.sent.events :
               /\ {x[2] : x \in Decoded(n)} = (IF job.skip_data THEN {} ELSE DOMAIN job.sent.events[n])
               /\ \A x \in Decoded(n) : SameFrames(x[3], job.sent.events[n][x[2]])
          /\ \A t \in Type : state.events_cnt[t] = job.sent.types[t]
          /\ state.pixels = job.sent.pixels
Faithful == job.damage.kind = "none" => place # "failed" /\ (place = "done" => AsSent)

(***************************************************************************)
(* A page that is there twice, a lost page that is not the last of its time*)
(* frame, and a lost step of a scan before the last are noticed; with the  *)
(* counters of the run every lost page is.                                 *)
(***************************************************************************)
MustNotice == \/ job.counters # <<>> /\ job.damage.kind # "none"
              \/ job.damage.kind = "twice" /\ job.damage.own
              \/ job.damage.kind = "lost" /\ job.damage.own /\ (~job.damage.last \/ job.damage.scanning)
Noticed == MustNotice => place # "done"

(***************************************************************************)
(* What decode_alpide takes, the decoder of events.py takes for the same.  *)
(***************************************************************************)
ED == INSTANCE EventDecoder
SameAs(r, event) == r.chipid = event.chipid /\ r.bc = event.frame_data_start /\ r.hits = event.hitlist
DecodersAgree ==
    place = "chip" /\ chip_loop.c.end = "ok" =>
    LET d == ED!ProcessAll(ED!Decoder, Bytes) IN
    /\ d.errors = 0 /\ Len(d.events) = Len(chip_loop.c.ret)
    /\ \A i \in DOMAIN d.events : SameAs(chip_loop.c.ret[i], d.events[i])

DecodedTrue == Faithful /\ Noticed /\ DecodersAgree
==============================================================================
