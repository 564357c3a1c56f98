---------------------------- MODULE EventDecoder ----------------------------
(***************************************************************************)
(* EventDecoder of events.py: the byte by byte decoder of one lane.        *)
(***************************************************************************)
EXTENDS ChipData

NoEvent == [chipid |-> -1]
NewEvent(byte) == [chipid |-> byte % 16, frame_data_start |-> -1, readout_flags |-> -1, errors |-> 0,
                   hit_cnt |-> 0, hitlist |-> <<>>, currentRegion |-> -1, currentPosition |-> -1]
Decoder == [state |-> "idle", event |-> NoEvent, error_event |-> NoEvent, events |-> <<>>,
            errors |-> 0, padding |-> 0]

\* States that end a word, of which some end a frame; the others are within one.
EndsFrame == {"idle", "trailer", "emptyframe2"}
Second == [header |-> "header2", datashort |-> "datashort2", datalong |-> "datalong2",
           datalong2 |-> "datalong3", emptyframe |-> "emptyframe2"]
Expected == [idle |-> {"header", "emptyframe"}, trailer |-> {"header", "emptyframe"},
             emptyframe2 |-> {"header", "emptyframe"}, error |-> {"header", "emptyframe"},
             header2 |-> {"region", "trailer"}, region |-> {"datashort", "datalong"},
             datashort2 |-> {"datashort", "datalong", "region", "trailer"},
             datalong3 |-> {"datashort", "datalong", "region", "trailer"}]

\* Mutant: a header does not end the error state.
StateAfterStuck(d, byte) ==
    IF d.state \in DOMAIN Second THEN Second[d.state]
    ELSE IF Kind(byte) \in Expected[d.state] /\ ~(d.state = "error" /\ Kind(byte) = "header")
         THEN Kind(byte)
    ELSE IF d.state \in EndsFrame THEN "idle" ELSE "error"
StateAfter(d, byte) ==
    IF d.state \in DOMAIN Second THEN Second[d.state]
    ELSE IF Kind(byte) \in Expected[d.state] THEN Kind(byte)
    ELSE IF d.state \in EndsFrame THEN "idle" ELSE "error"

hit2xy(region, pos, map) ==
    LET address == pos % 1024
        At(a) == <<32 * region + 2 * (pos \div 1024) + (IF a % 4 \in {1, 2} THEN 1 ELSE 0), a \div 2>>
        set == SelectSeq([i \in 1..7 |-> i], LAMBDA i : Bit(map, i - 1))
    IN <<At(address)>> \o [i \in DOMAIN set |-> At(address + set[i])]

Hit(event, map) ==
    LET hits == hit2xy(event.currentRegion, event.currentPosition, map)
    IN [event EXCEPT !.hitlist = @ \o hits, !.hit_cnt = @ + Len(hits)]
Register(d, event) == [d EXCEPT !.events = Append(@, event), !.event = NoEvent]

\* An error is counted by the event it was found in, and the first incomplete
\* event is registered; later ones are not, as error_event is never cleared.
InError(d) ==
    LET counted == [d EXCEPT !.errors = @ + 1] IN
    IF d.error_event # NoEvent THEN [counted EXCEPT !.error_event.errors = @ + 1]
    ELSE IF d.event = NoEvent THEN counted
    ELSE LET event == [d.event EXCEPT !.errors = @ + 1]
         IN [Register(counted, event) EXCEPT !.error_event = event]

\* What is done in the state a byte leads to; from idle an unexpected byte
\* only counts.
Enter(d, byte) ==
    CASE d.state = "idle" -> [d EXCEPT !.errors = @ + 1]
      [] d.state \in {"header", "emptyframe"} -> [d EXCEPT !.event = NewEvent(byte)]
      [] d.state = "header2" -> [d EXCEPT !.event.frame_data_start = byte]
      [] d.state = "region" -> [d EXCEPT !.event.currentRegion = byte % 32]
      [] d.state \in {"datashort", "datalong"} -> [d EXCEPT !.event.currentPosition = (byte % 64) * 256]
      [] d.state = "datashort2" -> [d EXCEPT !.event = Hit([@ EXCEPT !.currentPosition = @ + byte], 0)]
      [] d.state = "datalong2" -> [d EXCEPT !.event.currentPosition = @ + byte]
      [] d.state = "datalong3" -> [d EXCEPT !.event = Hit(@, byte % 128)]
      [] d.state = "trailer" -> Register(d, [d.event EXCEPT !.readout_flags = byte % 16])
      [] d.state = "emptyframe2" -> Register(d, [d.event EXCEPT !.frame_data_start = byte])
      [] d.state = "error" -> InError(d)

\* Mutant: an idle byte is one also within a word.
ProcessIdle(d, byte) ==
    IF byte = Idle THEN (IF d.state \in {"trailer", "emptyframe2"} THEN [d EXCEPT !.state = "idle"] ELSE d)
    ELSE IF byte = Padding /\ d.state \in EndsFrame THEN [d EXCEPT !.padding = @ + 1]
    ELSE IF byte \in {BusyOn, BusyOff} /\ d.state \notin DOMAIN Second THEN d
    ELSE Enter([d EXCEPT !.state = StateAfter(d, byte)], byte)
Process(d, byte) ==
    LET between == d.state \in DOMAIN Second IN
    IF byte = Idle /\ ~between
    THEN IF d.state \in {"trailer", "emptyframe2"} THEN [d EXCEPT !.state = "idle"] ELSE d
    ELSE IF byte = Padding /\ d.state \in EndsFrame THEN [d EXCEPT !.padding = @ + 1]
    ELSE IF byte \in {BusyOn, BusyOff} /\ ~between THEN d
    ELSE Enter([d EXCEPT !.state = StateAfter(d, byte)], byte)

ProcessAll(d, bytes) == FoldLeft(Process, d, bytes)

\* What a decoder has registered is what was sent.
SameFrame(event, f) ==
    /\ event.chipid = f.id /\ event.frame_data_start = f.bc /\ event.errors = 0
    /\ event.readout_flags = (IF EmptyFrame(f) THEN -1 ELSE f.flags)
    /\ ToSet(event.hitlist) = PixelsOf(f) /\ Len(event.hitlist) = Cardinality(PixelsOf(f))
=============================================================================
