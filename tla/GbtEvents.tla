----------------------------- MODULE GbtEvents -----------------------------
(***************************************************************************)
(* GbtEventDecoder and the two functions that check a readout, one with it *)
(* and one with decoders of its own: words from the readout unit become    *)
(* packets, the bytes of a packet go to the decoder of their lane, and     *)
(* what the decoders have registered is counted.                           *)
(***************************************************************************)
EXTENDS EventDecoder
CONSTANT Readouts       \* the readouts: what is sent, what arrives and who looks
VARIABLES
  usb_run,        \* the readout
  words_left,           \* the words that were not taken yet
  lane_decoders,  \* the decoder of each lane
  tally,          \* packets, chip events of each lane, wrong words
  stage           \* where processEvent is
gbtvars == <<usb_run, words_left, lane_decoders, tally, stage>>

(***************************************************************************)
(* A word has an id and is valid data or not.  The first byte of valid     *)
(* words is the channel: 0 in the words of the header, E0 and F0 in those  *)
(* around the data, the lane in data.                                      *)
(***************************************************************************)
Valid(word) == word.id \notin {"SOP", "EOP", "IDLE"}
Channel(word) == CASE word.id = "CDR" -> 0 [] word.id = "IHW" -> 224 [] word.id = "DATA" -> word.lane
New == usb_run.check = "new"

\* fill_sop, fill_cdr0 to fill_cdr3, fill_header; fill_trailer, fill_eop.
Filled == <<"SOP", "CDR", "CDR", "CDR", "CDR", "IHW">>
Wrong(word, id) == IF id = "CDR" THEN ~Valid(word) ELSE word.id # id
WrongWords == Cardinality({i \in DOMAIN Filled : Wrong(words_left[i], Filled[i])})

Finish(how) == stage' = how /\ UNCHANGED <<usb_run, words_left, lane_decoders, tally>>

\* Without words the new function raises and the old one stops and counts.
ProcessStart ==
    /\ stage = "start"
    /\ IF tally.full = usb_run.triggers THEN Finish("done")
       ELSE IF Len(words_left) < 6 THEN Finish(IF New THEN "raised" ELSE "done")
       ELSE /\ tally' = [tally EXCEPT !.wrong = @ + (IF New THEN WrongWords ELSE 0)]
            /\ words_left' = SubSeq(words_left, 7, Len(words_left)) /\ stage' = "data"
            /\ UNCHANGED <<usb_run, lane_decoders>>

DecoderOf(channel) == IF channel \in DOMAIN lane_decoders THEN lane_decoders[channel] ELSE Decoder
DecodePayload(channel, bytes) ==
    lane_decoders' = [c \in DOMAIN lane_decoders \cup {channel} |->
                        IF c = channel THEN ProcessAll(DecoderOf(c), Reverse(bytes)) ELSE DecoderOf(c)]

\* Words that are not valid data are skipped.  Without a word the old function
\* asks for one without end.
ProcessData ==
    /\ stage = "data"
    /\ IF words_left = <<>> THEN New /\ Finish("raised")
       ELSE IF Head(words_left).id = "TDT"
       THEN stage' = "end" /\ UNCHANGED <<usb_run, words_left, lane_decoders, tally>>
       ELSE /\ words_left' = Tail(words_left) /\ UNCHANGED <<usb_run, tally, stage>>
            /\ IF Valid(Head(words_left)) /\ (New \/ Channel(Head(words_left)) \in usb_run.lanes)
               THEN DecodePayload(Channel(Head(words_left)), Head(words_left).bytes)
               ELSE UNCHANGED lane_decoders

\* finalise_event: a packet that is done takes the events of every decoder.
Take(frames) == [c \in DOMAIN lane_decoders |->
                   (IF c \in DOMAIN frames THEN frames[c] ELSE <<>>) \o lane_decoders[c].events]
Finalise == /\ lane_decoders' = [c \in DOMAIN lane_decoders |-> [lane_decoders[c] EXCEPT !.events = <<>>]]
            /\ tally' = [tally EXCEPT !.full = @ + 1, !.frames = Take(@),
                                      !.wrong = @ + (IF Wrong(words_left[2], "EOP") THEN 1 ELSE 0)]

\* Mutant: the events of a packet that is not done are not kept for the next one.
DropUnfinished ==
    /\ lane_decoders' = [c \in DOMAIN lane_decoders |-> [lane_decoders[c] EXCEPT !.events = <<>>]]
    /\ tally' = [tally EXCEPT !.wrong = @ + (IF Wrong(words_left[2], "EOP") THEN 1 ELSE 0)]
KeepUnfinished ==
    /\ tally' = [tally EXCEPT !.wrong = @ + (IF Wrong(words_left[2], "EOP") THEN 1 ELSE 0)]
    /\ UNCHANGED lane_decoders

ProcessEnd ==
    /\ stage = "end"
    /\ IF Len(words_left) < 2 THEN Finish("raised")
       ELSE /\ words_left' = SubSeq(words_left, 3, Len(words_left)) /\ stage' = "start" /\ UNCHANGED usb_run
            /\ IF ~New THEN tally' = [tally EXCEPT !.full = @ + 1] /\ UNCHANGED lane_decoders
               ELSE IF Head(words_left).done THEN Finalise ELSE KeepUnfinished

GbtInit == /\ usb_run \in Readouts /\ words_left = usb_run.words
           /\ lane_decoders = (IF New THEN <<>> ELSE [l \in usb_run.lanes |-> Decoder])
           /\ tally = [full |-> 0, frames |-> <<>>, wrong |-> 0]
           /\ stage = "start"
GbtNext == ProcessStart \/ ProcessData \/ ProcessEnd
-----------------------------------------------------------------------------
\* What the functions return: the chip events, and the errors.
Events == IF New THEN tally.frames ELSE [c \in DOMAIN lane_decoders |-> lane_decoders[c].events]
Errors == IF New
          THEN tally.wrong + FoldSet(LAMBDA c, sum : sum + FoldLeft(LAMBDA n, e : n + e.errors, 0, Events[c]),
                                     0, DOMAIN Events)
          ELSE FoldSet(LAMBDA c, sum : sum + lane_decoders[c].errors, 0, DOMAIN lane_decoders)

(***************************************************************************)
(* Both functions register exactly the frames that were sent, whatever     *)
(* idle and busy bytes are between and within them and wherever packets    *)
(* cut them; the new one tells of every lost word that is not data; and a  *)
(* byte lost or changed costs that frame and the next, never a later one   *)
(* (but a byte that looks like a header takes two empty frames with it).   *)
(***************************************************************************)
Exact == /\ Errors = 0 /\ DOMAIN Events = DOMAIN usb_run.sent
         /\ \A c \in DOMAIN Events :
              /\ Len(Events[c]) = Len(usb_run.sent[c])
              /\ \A i \in DOMAIN Events[c] : SameFrame(Events[c][i], usb_run.sent[c][i])
ReadoutTrue == /\ usb_run.lost = "none" => stage # "raised" /\ (stage = "done" => Exact)
               /\ New /\ usb_run.lost \notin {"none", "DATA", "IDLE", "byte"} /\ stage = "done" => Errors > 0
               /\ usb_run.lost = "byte" /\ stage = "done" =>
                  \A c \in DOMAIN usb_run.sent :
                    Events[c] # <<>> /\ SameFrame(Last(Events[c]), Last(usb_run.sent[c]))
=============================================================================
