----------------------------- MODULE MCDaqRun -----------------------------
(***************************************************************************)
(* The programs over staves and readout units; or, without a program, the  *)
(* decoding of what a run has sent, from a file or over USB.               *)
(***************************************************************************)
EXTENDS DaqRun
Case(p, l, s, t) == [program |-> p, layer |-> l, scheme |-> s, source |-> t]
Rdos == <<"r1", "r2">>
Tests == {Case("daq", "inner", "managed", "gbtx2"), Case("daq", "outer", "managed", "sequencer"),
          Case("daq", "middle", "none", "gbtx2"), Case("threshold", "outer", "monitor", "sequencer")}
Staves == {Case("power_on", "outer", "managed", "none"), Case("emergency_off", "outer", "monitor", "none")}
IbTests == {Case("ib", "inner", "none", "gbtx2"), Case("ib", "inner", "none", "sequencer"),
            Case("ib_scan", "inner", "none", "sequencer"),
            Case("ib_on", "inner", "managed", "none"), Case("ib_off", "inner", "managed", "none")}
All == IbTests \cup Tests \cup Staves \cup {Case("none", "inner", "managed", "none")}
OtherStaves == {Case("power_on", l, "managed", "none") : l \in {"inner", "middle"}}

-----------------------------------------------------------------------------
VARIABLES
  part,         \* a program, a readout over USB or a file
  usb_run, words_left, lane_decoders, tally, stage,
  job, place, at, state, found, chip_loop

\* The decoders.
R == INSTANCE MCRunData
RunReadouts == R!MCReadouts
RunJobs == R!MCJobs
G == INSTANCE GbtEvents WITH Readouts <- RunReadouts
D == INSTANCE Decode WITH Jobs <- RunJobs, MaxChips <- 7
usbdata == <<usb_run, words_left, lane_decoders, tally, stage>>
filedata == <<job, place, at, state, found, chip_loop>>

AnyReadout == CHOOSE r \in RunReadouts : TRUE
AnyJob == CHOOSE j \in RunJobs : TRUE
MCInit == /\ part \in {"program", "usb", "file"}
          /\ conf \in {c \in Conf : (part = "program") = (c.program # "none")}
          /\ usb_run \in (IF part = "usb" THEN RunReadouts ELSE {AnyReadout})
          /\ job \in (IF part = "file" THEN RunJobs ELSE {AnyJob})
          /\ Init /\ G!GbtInit /\ D!DecodeInit
          /\ conf.program = "none" => on = {}
MCNext == \/ part = "program" /\ Next /\ UNCHANGED <<part, usbdata, filedata>>
          \/ part = "usb" /\ G!GbtNext /\ UNCHANGED <<part, vars, filedata>>
          \/ part = "file" /\ D!DecodeNext /\ UNCHANGED <<part, vars, usbdata>>
MCSpec == MCInit /\ [][MCNext]_<<vars, part, usbdata, filedata>> /\ Fairness

\* The decoders give what was sent and notice what was lost.
DecodedTrue == G!ReadoutTrue /\ D!DecodedTrue
===========================================================================
