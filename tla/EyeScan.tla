------------------------------- MODULE EyeScan -------------------------------
(***************************************************************************)
(* Eye scans of one GTH transceiver: for each point of a grid of           *)
(* horizontal and vertical offsets the transceiver counts samples and      *)
(* errors on its own, and the software sets the point up, starts, polls,   *)
(* reads the counters and writes one row to a file.  A scan may die in any *)
(* access to the readout unit; the next one resumes from the file.         *)
(*                                                                         *)
(* eye_scan measures each point once.  eye_scan_adaptive starts with a     *)
(* short measurement of all points and measures those with few errors      *)
(* again, longer each time.                                                *)
(***************************************************************************)
EXTENDS GthDrp, FiniteSets

CONSTANTS
  Shape(_, _), \* how good the signal is at a point: open, edge, bad, closed
  Scans,       \* an eye, the words of the port, and the arguments of a call
  MaxCrashes   \* accesses that raise

VARIABLES
  scan,        \* the member of Scans
  drp,         \* the words of the port that the scan writes
  engine,      \* the transceiver's measurement
  prescale, vert_offset_defaults, horz_offset_defaults,  \* of the EyeScanGth object
  writes,      \* words about to be written, one flush each
  pc,
  ps, points, again, zero,  \* of a pass: its prescale, its points, those of the next one, zero bounds
  cps, cnt,    \* of a point: the current prescale, the counts so far
  file,        \* the last row of each point
  crashes

object == <<prescale, vert_offset_defaults, horz_offset_defaults>>
pass == <<ps, points, again, zero>>
vars == <<scan, drp, engine, object, writes, pc, pass, cps, cnt, file, crashes>>

ES_CONTROL == Addr("ES_CONTROL")
ES_HORZ_OFFSET == Addr("ES_HORZ_OFFSET")
ES_VERT_OFFSET == Addr("RX_EYESCAN_VS_CODE")
ES_QUAL_MASK == {Addr(n) : n \in {"ES_QUAL_MASK0", "ES_QUAL_MASK1", "ES_QUAL_MASK2", "ES_QUAL_MASK3", "ES_QUAL_MASK4"}}
ES_SDATA_MASK ==
  <<Addr("ES_SDATA_MASK4"), Addr("ES_SDATA_MASK3"), Addr("ES_SDATA_MASK2"), Addr("ES_SDATA_MASK1"), Addr("ES_SDATA_MASK0")>>
Scanned == {ES_CONTROL, ES_HORZ_OFFSET, ES_VERT_OFFSET} \cup ES_QUAL_MASK \cup ToSet(ES_SDATA_MASK)

\* Fields in the words of the offsets that have another purpose.
Others == {"FTS_LANE_DESKEW_CFG", "RX_AFE_CM_EN", "RX_CAPFF_SARC_ENB"}
OthersOf(words) == [n \in Others |-> FieldOf(n, words[Addr(n)])]

-----------------------------------------------------------------------------
\* The transceiver (external).  It counts while the run bit is set, with the
\* settings of that time, until one of its counters is full.
Signed(n, width) == IF n >= 2^(width - 1) THEN n - 2^width ELSE n
Point(words) ==
  LET code == FieldOf("RX_EYESCAN_VS_CODE", words[ES_VERT_OFFSET])
  IN <<Signed(FieldOf("ES_HORZ_OFFSET", words[ES_HORZ_OFFSET]), 12),
       IF FieldOf("RX_EYESCAN_VS_NEG_DIR", words[ES_VERT_OFFSET]) = 1 THEN -code ELSE code>>
Running(words) == FieldOf("ES_CONTROL", words[ES_CONTROL]) % 2 = 1
Settings(words) ==
  [point |-> Point(words), prescale |-> FieldOf("ES_PRESCALE", words[ES_CONTROL]), others |-> OthersOf(words)]

Written(words) ==
  /\ drp' = words
  /\ engine' =
       IF ~Running(words) THEN [engine EXCEPT !.state = "wait"]
       ELSE IF engine.state = "wait" THEN [engine EXCEPT !.state = "count", !.with = Settings(words)]
       ELSE engine

\* The counters: full scale stands for the largest sample count, and an
\* error counter overflows before the first sample is counted where the eye
\* is closed and the prescale is not 0.
FullScale == 8
Overflow == 65535
Counts(eye, p) ==
  CASE eye = "open" -> <<FullScale, 0>>
    [] eye = "edge" -> <<FullScale, IF p <= scan.prescale THEN 1 ELSE scan.threshold + 1>>
    [] eye = "bad" -> <<FullScale, scan.threshold + 1>>
    [] eye = "closed" -> <<IF p = 0 THEN 1 ELSE 0, Overflow>>

Count ==
  /\ engine.state = "count"
  /\ LET c == Counts(Shape(scan.eye, engine.with.point), engine.with.prescale)
     IN engine' = [engine EXCEPT !.state = "end", !.samples = c[1], !.errors = c[2]]
  /\ UNCHANGED <<scan, drp, object, writes, pc, pass, cps, cnt, file, crashes>>

-----------------------------------------------------------------------------
\* What the functions write.

\* ES_ERRDET_EN and ES_EYE_SCAN_EN stay set, and the prescale is not masked.
Enabled == Placed("ES_ERRDET_EN", 1) + Placed("ES_EYE_SCAN_EN", 1)
SetControlState(run, p) == <<ES_CONTROL, run * 2^10 + Enabled + p>>
SetPrescale(p) == <<ES_CONTROL, Enabled + p>>

\* Mutant: the field beside the offset is not kept.
SetOffsetHAlone(x) == <<ES_HORZ_OFFSET, Placed("ES_HORZ_OFFSET", x)>>

SetOffsetH(x) == <<ES_HORZ_OFFSET, Placed("ES_HORZ_OFFSET", x) + horz_offset_defaults>>
Magnitude(y) == IF y < 0 THEN -y ELSE y
SetOffsetV(y, ut) ==
  <<ES_VERT_OFFSET, vert_offset_defaults + (IF y < 0 THEN 2^10 ELSE 0) + ut * 2^9
                    + (Magnitude(y) % 128) * 4 + scan.range>>

\* The state is reset with the prescale of the point before.
PointSetup(x, y, p) ==
  <<SetControlState(0, prescale), SetOffsetH(x), SetPrescale(p), SetOffsetV(y, 0)>>

SdataMask20 == <<65535, 65535, 65280, 15, 65535>>
Initialize ==
  [i \in 1..5 |-> <<ES_SDATA_MASK[i], SdataMask20[i]>>]
  \o [i \in 1..5 |-> <<SetToSeq(ES_QUAL_MASK)[i], 65535>>]
  \o <<<<ES_CONTROL, Enabled>>>>

-----------------------------------------------------------------------------
\* The grid.  Halves are rounded to the even number.
Rounded(a, b) ==
  LET q == a \div b  r == 2 * (a % b)
  IN IF r > b \/ (r = b /\ q % 2 = 1) THEN q + 1 ELSE q
HorizontalMax == 128
VerticalMax == 127
Clip(n, most) == IF n > most THEN most ELSE IF n < -most THEN -most ELSE n
Steps(ks, n, most) == [i \in DOMAIN ks |-> Clip(ks[i] * (IF n = 0 THEN 0 ELSE Rounded(most, n)), most)]

Ascending(n) == [i \in 1..(2 * n + 1) |-> i - n - 1]
\* From the outside in, above and below.
Inwards(n) == [i \in 1..n |-> i - n - 1] \o [i \in 1..n |-> n + 1 - i] \o <<0>>

Columns == Steps(Ascending(scan.h), scan.h, HorizontalMax)
Rows == Steps(IF scan.adaptive THEN Inwards(scan.v) ELSE Ascending(scan.v), scan.v, VerticalMax)
Grid == FlattenSeq([i \in DOMAIN Columns |-> [j \in DOMAIN Rows |-> <<Columns[i], Rows[j]>>]])
InFile(pt) == pt \in DOMAIN file

\* Mutant: a resumed scan takes every point of the file as done.
ToScanNew == SelectSeq(Grid, LAMBDA pt : ~InFile(pt))

\* What is left to do with a file of an earlier scan.
ToScan ==
  SelectSeq(Grid, LAMBDA pt : ~InFile(pt) \/ (scan.adaptive /\ file[pt].errors <= scan.threshold))

NoCounts == [samples |-> 0, errors |-> 0, from |-> <<>>]
NoZero == [left |-> 5, above |-> 0, below |-> 0, at |-> 0]

Init ==
  /\ scan \in Scans
  /\ drp = [a \in Scanned |-> scan.word]
  /\ engine = [state |-> "wait", with |-> [point |-> <<0, 0>>, prescale |-> 0, others |-> OthersOf(drp)],
               samples |-> 0, errors |-> 0]
  /\ prescale = 0 /\ vert_offset_defaults = 0 /\ horz_offset_defaults = 0
  /\ writes = <<>> /\ pc = "off"
  /\ ps = 0 /\ points = <<>> /\ again = <<>> /\ zero = NoZero
  /\ cps = 0 /\ cnt = NoCounts
  /\ file = <<>>
  /\ crashes = 0

-----------------------------------------------------------------------------
\* A new object and its initialisation.
Start ==
  /\ pc = "off"
  /\ prescale' = 0 /\ vert_offset_defaults' = 0 /\ horz_offset_defaults' = 0
  /\ writes' = Initialize /\ pc' = "defaults_v"
  /\ UNCHANGED <<scan, drp, engine, pass, cps, cnt, file, crashes>>

Write ==
  /\ writes # <<>>
  /\ Written([drp EXCEPT ![Head(writes)[1]] = Head(writes)[2]])
  /\ writes' = Tail(writes)
  /\ UNCHANGED <<scan, object, pc, pass, cps, cnt, file, crashes>>

At(label) == writes = <<>> /\ pc = label

ReadDefaultsV ==
  /\ At("defaults_v")
  /\ vert_offset_defaults' = ((drp[ES_VERT_OFFSET] \div 2^11) % 4) * 2^11
  /\ pc' = "defaults_h"
  /\ UNCHANGED <<scan, drp, engine, prescale, horz_offset_defaults, writes, pass, cps, cnt, file, crashes>>

\* Then the scan starts, with what is left to do.
ReadDefaultsH ==
  /\ At("defaults_h")
  /\ horz_offset_defaults' = drp[ES_HORZ_OFFSET] % 2^4
  /\ points' = ToScan
  /\ ps' = scan.prescale /\ again' = <<>> /\ zero' = NoZero
  /\ pc' = "point"
  /\ UNCHANGED <<scan, drp, engine, prescale, vert_offset_defaults, writes, cps, cnt, file, crashes>>

\* The zero bounds are those of the point's column.
X(pt) == pt[1]
Y(pt) == pt[2]
Point1 == Head(points)
Skipped ==
  /\ scan.no_center
  /\ IF scan.adaptive
     THEN (Y(Point1) > 0 /\ zero.above > 0) \/ (Y(Point1) < 0 /\ zero.below > 0)
     ELSE zero.left = 0 /\ Y(Point1) < zero.at

\* A row, and the next point.
Row(counts, skipped) == [samples |-> counts.samples, errors |-> counts.errors, from |-> counts.from,
                         skipped |-> skipped, ps |-> ps]
SkippedCounts ==
  [samples |-> IF ~scan.adaptive THEN -1 ELSE IF Y(Point1) > 0 THEN zero.above ELSE zero.below,
   errors |-> 0, from |-> <<>>]
ZeroAfter(counts, skipped) ==
  IF skipped \/ counts.errors # 0 THEN zero
  ELSE IF scan.adaptive
       THEN [zero EXCEPT !.above = IF Y(Point1) > 0 THEN counts.samples ELSE @,
                         !.below = IF Y(Point1) < 0 THEN counts.samples ELSE @]
       ELSE [zero EXCEPT !.left = @ - 1, !.at = IF zero.left = 1 THEN -Y(Point1) ELSE @]

\* Few errors: to be measured longer in the next pass.
Open(counts) == scan.adaptive /\ counts.errors <= scan.threshold /\ ps < scan.ber

WriteRow(counts, skipped) ==
  /\ file' = [pt \in DOMAIN file \cup {Point1} |-> IF pt = Point1 THEN Row(counts, skipped) ELSE file[pt]]
  /\ again' = IF Open(counts) THEN Append(again, Point1) ELSE again
  /\ points' = Tail(points)
  /\ zero' = IF points' = <<>> \/ X(Head(points')) # X(Point1) THEN NoZero ELSE ZeroAfter(counts, skipped)
  /\ pc' = "point"

Skip ==
  /\ At("point") /\ points # <<>> /\ Skipped
  /\ WriteRow(SkippedCounts, TRUE)
  /\ UNCHANGED <<scan, drp, engine, object, writes, ps, cps, cnt, crashes>>

NextPoint ==
  /\ At("point") /\ points # <<>> /\ ~Skipped
  /\ writes' = PointSetup(X(Point1), Y(Point1), ps) /\ prescale' = ps
  /\ cps' = ps /\ cnt' = NoCounts
  /\ pc' = "start"
  /\ UNCHANGED <<scan, drp, engine, vert_offset_defaults, horz_offset_defaults, pass, file, crashes>>

\* The next pass, or the end.
NextPass ==
  /\ At("point") /\ points = <<>>
  /\ IF again = <<>> THEN pc' = "finished" /\ UNCHANGED pass
     ELSE ps' = ps + 1 /\ points' = again /\ again' = <<>> /\ zero' = NoZero /\ UNCHANGED pc
  /\ UNCHANGED <<scan, drp, engine, object, writes, cps, cnt, file, crashes>>

StartPoint ==
  /\ At("start")
  /\ writes' = <<SetControlState(1, prescale)>> /\ pc' = "poll"
  /\ UNCHANGED <<scan, drp, engine, object, pass, cps, cnt, file, crashes>>

\* Polled as long as it takes; a measurement that is done is reset.
Poll ==
  /\ At("poll") /\ engine.state = "end"
  /\ writes' = <<SetControlState(0, prescale)>> /\ pc' = "read"
  /\ UNCHANGED <<scan, drp, engine, object, pass, cps, cnt, file, crashes>>

\* The counters, scaled with the prescale that the object remembers.
ReadCounts ==
  /\ At("read")
  /\ cnt' = [samples |-> cnt.samples + 20 * engine.samples * 2^(1 + prescale),
             errors |-> cnt.errors + engine.errors,
             from |-> Append(cnt.from, [with |-> engine.with, samples |-> engine.samples, errors |-> engine.errors])]
  /\ pc' = "evaluate"
  /\ UNCHANGED <<scan, drp, engine, object, writes, pass, cps, file, crashes>>

\* Too many errors for the prescale: again with a smaller one; too few:
\* again with a larger one, up to the largest, which an adaptive scan never
\* exceeds in a pass.
MinErrors == 10
Largest == IF scan.adaptive THEN ps ELSE scan.ber
Again(p) ==
  /\ cps' = p /\ prescale' = p
  /\ writes' = PointSetup(X(Point1), Y(Point1), p) /\ pc' = "start"
  /\ UNCHANGED <<pass, file, cnt>>
Evaluate ==
  /\ At("evaluate")
  /\ IF cnt.samples < cnt.errors /\ cps > 0 THEN Again(IF cps > 2 THEN cps - 2 ELSE 0)
     ELSE IF cnt.errors < MinErrors /\ cps < Largest THEN Again(cps + 1)
     ELSE WriteRow(cnt, FALSE) /\ UNCHANGED <<prescale, writes, ps, cps, cnt>>
  /\ UNCHANGED <<scan, drp, engine, vert_offset_defaults, horz_offset_defaults, crashes>>

\* An access raises, before or after it reached the transceiver, and the
\* program ends; the rows that are written stay, and it is started again.
Crash ==
  /\ pc \notin {"off", "finished"} /\ crashes < MaxCrashes
  /\ crashes' = crashes + 1
  /\ pc' = "off" /\ writes' = <<>>
  /\ points' = <<>> /\ again' = <<>> /\ zero' = NoZero /\ cps' = 0 /\ cnt' = NoCounts
  /\ UNCHANGED <<scan, drp, engine, object, ps, file>>

Next ==
  \/ Count
  \/ Start \/ Write \/ ReadDefaultsV \/ ReadDefaultsH
  \/ Skip \/ NextPoint \/ NextPass
  \/ StartPoint \/ Poll \/ ReadCounts \/ Evaluate
  \/ Crash

Spec == Init /\ [][Next]_vars

-----------------------------------------------------------------------------
Total(f(_), from) == FoldLeft(LAMBDA n, m : n + f(m), 0, from)

\* Every measured row of the file is the sum of measurements of its own
\* point, scaled with the prescale they were made with, and the receiver was
\* otherwise as it was before the first scan.
RowsAreTrue == \A pt \in DOMAIN file : ~file[pt].skipped =>
  /\ file[pt].from # <<>>
  /\ \A i \in DOMAIN file[pt].from :
       file[pt].from[i].with.point = pt /\ file[pt].from[i].with.others = OthersOf([a \in Scanned |-> scan.word])
  /\ file[pt].samples = Total(LAMBDA m : 20 * m.samples * 2^(1 + m.with.prescale), file[pt].from)
  /\ file[pt].errors = Total(LAMBDA m : m.errors, file[pt].from)

\* Nearer to the middle, in the same column and on the same side.
Inside(pt, outer) ==
  X(pt) = X(outer) /\ (Y(pt) * Y(outer) > 0) /\ Magnitude(Y(pt)) < Magnitude(Y(outer))

\* A finished scan has a row for every point, and each was measured with the
\* largest prescale unless it has enough errors; one that was left out lies
\* inside of a point without errors.  Also when it was resumed.
ScanComplete == pc = "finished" => \A i \in DOMAIN Grid :
  LET pt == Grid[i] IN
  /\ InFile(pt)
  /\ scan.adaptive => file[pt].errors > scan.threshold \/ file[pt].ps = scan.ber
  /\ file[pt].skipped /\ scan.adaptive =>
       \E outer \in DOMAIN file : /\ Inside(pt, outer) /\ file[outer].errors = 0
                                  /\ file[outer].ps = file[pt].ps /\ ~file[outer].skipped
  /\ file[pt].skipped /\ ~scan.adaptive =>
       \E outer \in DOMAIN file : /\ X(outer) = X(pt) /\ Y(outer) < Y(pt) /\ Y(pt) < -Y(outer)
                                  /\ file[outer].errors = 0 /\ ~file[outer].skipped
=============================================================================
