----------------------------- MODULE MCRunData -----------------------------
(***************************************************************************)
(* Data of runs, as chips, readout unit and card send them, whole or       *)
(* damaged, for the decoders.                                              *)
(***************************************************************************)
EXTENDS ChipData, TLC
Hits(region, hits) == [region |-> region, hits |-> hits]
At(pos) == [pos |-> pos, map |-> 0]
Cluster(pos, map) == [pos |-> pos, map |-> map]
Frame(id, bc, flags, regions) == [id |-> id, bc |-> bc, flags |-> flags, regions |-> regions]

\* Hits whose second and third bytes look like idle, busy, padding or the
\* beginning of a word, and clusters at the ends of an encoder and a region.
Regions ==
  <<<<>>, <<Hits(0, <<At(0)>>)>>, <<Hits(31, <<At(241), At(255)>>)>>,
    <<Hits(3, <<At(240), Cluster(511, 127), At(1024 + 163)>>), Hits(4, <<Cluster(0, 1)>>)>>,
    <<Hits(5, <<Cluster(15 * 1024 + 1016, 64)>>), Hits(6, <<At(2)>>), Hits(30, <<Cluster(160, 85), At(239)>>)>>,
    <<Hits(7, <<At(5), At(14 * 1024 + 176)>>)>>, <<>>>>
Frames(id) == [n \in DOMAIN Regions |-> Frame(id, IF n % 2 = 0 THEN 160 + n ELSE 255, IF n = 1 THEN 4 ELSE 0, Regions[n])]

-----------------------------------------------------------------------------
(***************************************************************************)
(* Words of 9 bytes, padded; the words of an event; its pages.  An event   *)
(* has a bunch counter, triggers, frames by lane and in a scan a step.     *)
(***************************************************************************)
Padded(bytes) == bytes \o [i \in 1..((9 - (Len(bytes) % 9)) % 9) |-> Padding]
Chunks(bytes) == [i \in 1..(Len(bytes) \div 9) |-> SubSeq(bytes, 9 * i - 8, 9 * i)]
LaneBytes(frames, busy) == Padded(busy \o FlattenSeq([i \in DOMAIN frames |-> FrameBytes(frames[i])]))
LaneWords(lane, frames, busy) ==
  LET chunks == Chunks(LaneBytes(frames, busy))
  IN [i \in DOMAIN chunks |-> [id |-> "IB", lane |-> lane, bytes |-> chunks[i]]]
DataOf(ev) == LET lanes == SetToSortSeq(DOMAIN ev.lanes, <)
              IN FlattenSeq([i \in DOMAIN lanes |-> LaneWords(lanes[i], ev.lanes[lanes[i]], ev.busy)])
Ihw(lanes) == <<[id |-> "IHW", lanes |-> lanes]>>
Tdh(ev, continuation) == <<[id |-> "TDH", bc |-> ev.bc, triggers |-> ev.triggers, continuation |-> continuation]>>
Cdw(ev) == IF ev.step = <<>> THEN <<>>
           ELSE <<[id |-> "CDW", field |-> SubSeq(ev.step, 1, 2), counter |-> ev.step[3]]>>
Tdt(done) == <<[id |-> "TDT", done |-> done]>>
EventWords(ev) == Tdh(ev, FALSE) \o Cdw(ev) \o DataOf(ev) \o Tdt(TRUE)

Event(bc, triggers, lanes, busy, step) == [bc |-> bc, triggers |-> triggers, lanes |-> lanes, busy |-> busy, step |-> step]
TimeFrame(trg, triggers, form, events) == [trg |-> trg, triggers |-> triggers, form |-> form, events |-> events]

PageOf(fee, tf, k, words) ==
  [kind |-> "page", link |-> fee % 7, words |-> words,
   rdh |-> [feeid |-> fee, trg |-> tf.trg, triggers |-> tf.triggers, detfield |-> 0, pages_count |-> k, fixed |-> TRUE]]
Active == {0, 3}
PagesOf(fee, tf) ==
  LET whole == Ihw(Active) \o FlattenSeq([i \in DOMAIN tf.events |-> EventWords(tf.events[i])])
      ev == tf.events[1]
      words == DataOf(ev)
      half == Len(words) \div 2
      Stop(k) == PageOf(fee, tf, k, <<[id |-> "DDW"]>>)
  IN CASE tf.form = "single" -> <<PageOf(fee, tf, 0, whole)>>
       [] tf.form = "stop" -> <<PageOf(fee, tf, 0, whole), Stop(1)>>
       [] tf.form = "split" ->
            <<PageOf(fee, tf, 0, Ihw(Active) \o Tdh(ev, FALSE) \o SubSeq(words, 1, half) \o Tdt(FALSE)),
              PageOf(fee, tf, 1, Ihw(Active) \o Tdh(ev, TRUE) \o SubSeq(words, half + 1, Len(words)) \o Tdt(TRUE)),
              Stop(2)>>

(***************************************************************************)
(* Files: the time frames of a readout unit, with pages of another between *)
(* and blocks that are none; what was sent in them.                        *)
(***************************************************************************)
Own == 12
Other == PageOf(268, TimeFrame(1, {"HB"}, "single", <<>>), 0, <<>>)
NoBlock == [kind |-> "other"]
FileOf(tfs) == <<NoBlock>> \o FlattenSeq([i \in DOMAIN tfs |-> PagesOf(Own, tfs[i]) \o (IF i = 1 THEN <<Other, NoBlock>> ELSE <<>>)])

Times(n, f(_)) == FoldLeft(LAMBDA sum, i : sum + f(i), 0, [i \in 1..n |-> i])
Has(set, t) == IF t \in set THEN 1 ELSE 0
CountOf(tfs, t) == Times(Len(tfs), LAMBDA i : Has(tfs[i].triggers, t)
                     + Times(Len(tfs[i].events), LAMBDA j :
                         (IF tfs[i].events[j].bc = 0 THEN 0 ELSE IF tfs[i].form = "split" THEN 2 ELSE 1)
                         * Has(tfs[i].events[j].triggers, t)))
EventsOf(tfs) == FlattenSeq([i \in DOMAIN tfs |-> tfs[i].events])
FramesIn(events) ==
  UNION {UNION {{<<i, lane, n>> : n \in DOMAIN events[i].lanes[lane]} : lane \in DOMAIN events[i].lanes} : i \in DOMAIN events}
PixelsSent(events, ofRow, charge(_)) ==
  LET Of(w) == {<<w[2] % 3, x[1], x[2], charge(events[w[1]])>> :
                  x \in {y \in PixelsOf(events[w[1]].lanes[w[2]][w[3]]) : ofRow => y[2] = events[w[1]].step[1]}}
      frames == [w \in FramesIn(events) |-> Of(w)]
  IN [x \in UNION Range(frames) |-> Cardinality({w \in DOMAIN frames : x \in frames[w]})]

Plain == [thscan |-> FALSE, thscan6 |-> FALSE, injections |-> 2, fhr |-> FALSE, skip_data |-> FALSE,
          accept_decreasing_address |-> FALSE, lane_list |-> {}, counters |-> FALSE]
Sent(tfs, options) ==
  [packets |-> Cardinality({k \in DOMAIN FileOf(tfs) : FileOf(tfs)[k].kind = "page"}),
   events |-> [i \in DOMAIN EventsOf(tfs) |-> EventsOf(tfs)[i].lanes],
   types |-> [t \in {"PHYSICS", "HB", "SOT", "EOT", "SOC", "EOC"} |-> CountOf(tfs, t)],
   pixels |-> IF options.thscan THEN PixelsSent(EventsOf(tfs), TRUE, LAMBDA ev : ev.step[2])
              ELSE IF options.fhr THEN PixelsSent(EventsOf(tfs), FALSE, LAMBDA ev : 0) ELSE <<>>]

OwnPage(block) == block.kind = "page" /\ block.rdh.feeid = Own
LastOf(file, k) == ~\E n \in DOMAIN file : n > k /\ OwnPage(file[n]) /\ file[n].rdh.trg = file[k].rdh.trg
StepIn(block) == SelectSeq(block.words, LAMBDA w : w.id = "CDW")
LastStep(file) == LET steps == FlattenSeq([k \in DOMAIN file |-> IF OwnPage(file[k]) THEN StepIn(file[k]) ELSE <<>>])
                  IN steps[Len(steps)].field
Scanning(file, k) == StepIn(file[k]) # <<>> /\ StepIn(file[k])[1].field # LastStep(file)
Damage(kind, file, k) ==
  [kind |-> kind, own |-> OwnPage(file[k]), last |-> OwnPage(file[k]) /\ LastOf(file, k),
   scanning |-> OwnPage(file[k]) /\ Scanning(file, k)]
Damaged(kind, file, k) ==
  CASE kind = "lost" -> RemoveAt(file, k)
    [] kind = "twice" -> InsertAt(file, k, file[k])
    [] kind = "incomplete" -> SubSeq(file, 1, k - 1) \o <<[kind |-> "incomplete"]>>

JobOf(file, damage, truth, options) ==
  [file |-> file, feeid |-> Own, damage |-> damage, sent |-> truth,
   thscan |-> options.thscan, thscan6 |-> options.thscan6, injections |-> options.injections, fhr |-> options.fhr,
   skip_data |-> options.skip_data, accept_decreasing_address |-> options.accept_decreasing_address,
   lane_list |-> options.lane_list,
   counters |-> IF options.counters THEN [packets |-> truth.packets, triggers |-> truth.types["PHYSICS"]] ELSE <<>>]
NoDamage == [kind |-> "none", own |-> FALSE, last |-> FALSE, scanning |-> FALSE]
JobsOf(tfs, options) ==
  UNION {{JobOf(file, NoDamage, truth, options)}
         \cup {JobOf(Damaged(kind, file, k), Damage(kind, file, k), truth, options) :
                 kind \in {"lost", "twice", "incomplete"}, k \in {n \in DOMAIN file : file[n].kind = "page"}} :
         file \in {FileOf(tfs)}, truth \in {Sent(tfs, options)}}

-----------------------------------------------------------------------------
(***************************************************************************)
(* Runs: triggered, continuous with events over several pages, a threshold *)
(* scan, and one event of every form for the pixels.                       *)
(***************************************************************************)
Hb == Event(0, {"HB"}, <<>>, <<>>, <<>>)
Mark(trg, t) == TimeFrame(trg, {t}, "single", <<Event(0, {t}, <<>>, <<>>, <<>>)>>)
Lanes(n) == [lane \in Active |-> <<Frames(lane)[((n + lane) % Len(Regions)) + 1]>>]
Several(n) == [lane \in Active |-> Lanes(n)[lane] \o Lanes(n - 1)[lane] \o Lanes(0)[lane]]
Physics(bc, n, busy) == Event(bc, {"PHYSICS"}, Lanes(n), busy, <<>>)
Triggered == <<Mark(1, "SOT"), TimeFrame(2, {"HB"}, "stop", <<Hb, Physics(5, 1, <<BusyOn>>)>>),
               TimeFrame(3, {"HB"}, "single", <<Hb, Physics(5, 2, <<>>), Physics(9, 3, <<BusyOff>>)>>),
               Mark(4, "EOT")>>
Continuous == <<Mark(1, "SOC"), TimeFrame(2, {"HB"}, "split", <<Event(0, {"HB"}, Lanes(4), <<>>, <<>>)>>),
                TimeFrame(3, {"HB"}, "split", <<Event(5, {"PHYSICS"}, Several(3), <<>>, <<>>)>>), Mark(4, "EOC")>>
Injected(trg, row, charge, counter) ==
  TimeFrame(trg, {"HB"}, "single",
            <<Event(5, {"PHYSICS"}, [lane \in Active |-> <<Frame(lane, trg, 0, <<Hits(1, <<Cluster(2 * row, 5)>>)>>)>>], <<>>,
                    <<row, charge, counter>>)>>)
Scan == <<Mark(1, "SOT")>>
        \o [n \in 1..8 |-> Injected(n + 1, (n - 1) \div 4, ((n - 1) \div 2) % 2, (n - 1) % 2)]
        \o <<Mark(10, "EOT")>>
EveryForm == [n \in DOMAIN Regions |-> TimeFrame(n, {"HB"}, "stop", <<Physics(5, n, <<>>)>>)]

MCJobs ==
  JobsOf(Triggered, [Plain EXCEPT !.lane_list = Active]) \cup JobsOf(Triggered, [Plain EXCEPT !.counters = TRUE])
  \cup JobsOf(Continuous, Plain)
  \cup JobsOf(Scan, [Plain EXCEPT !.thscan = TRUE, !.counters = TRUE])
  \cup UNION {JobsOf(Scan, [Plain EXCEPT !.thscan = TRUE, !.thscan6 = six]) : six \in BOOLEAN}
  \cup JobsOf(EveryForm, [Plain EXCEPT !.fhr = TRUE])
  \cup JobsOf(EveryForm, [Plain EXCEPT !.skip_data = TRUE])
  \cup JobsOf(EveryForm, [Plain EXCEPT !.accept_decreasing_address = TRUE])
  \cup {[JobOf(FileOf(Triggered), NoDamage, Sent(Triggered, Plain), Plain) EXCEPT
            !.file = [@ EXCEPT ![2].rdh.fixed = FALSE], !.damage.kind = "garbled"]}

(***************************************************************************)
(* Readouts over USB: packets of lane data with idle and busy bytes, cut   *)
(* anywhere, with a word lost, or with a byte lost or changed on a lane.   *)
(***************************************************************************)
Idles(n) == [i \in 1..n |-> Idle]
WordsOf(f) == IF EmptyFrame(f) THEN <<FrameBytes(f)>>
              ELSE <<<<160 + f.id, f.bc>>>>
                   \o FlattenSeq([i \in DOMAIN f.regions |->
                        <<<<192 + f.regions[i].region>>>> \o [j \in DOMAIN f.regions[i].hits |-> HitBytes(f.regions[i].hits[j])]])
                   \o <<<<176 + f.flags>>>>
Spaced(f, between) == FlattenSeq([i \in DOMAIN WordsOf(f) |-> WordsOf(f)[i] \o between]) \o Idles(3)
Stream(frames, between) == FlattenSeq([i \in DOMAIN frames |-> Spaced(frames[i], between)])
DataWords(lane, bytes) ==
  LET chunks == Chunks(Padded(bytes))
  IN [i \in DOMAIN chunks |-> [id |-> "DATA", lane |-> lane, bytes |-> Reverse(chunks[i])]]
Around(id) == [id |-> id, bytes |-> <<4, 0, 0, 0, 0, 0, 0, 0, 0>>]
Packet(words, done) ==
  <<Around("SOP"), Around("CDR"), Around("CDR"), Around("CDR"), Around("CDR"), Around("IHW")>> \o words
  \o <<[id |-> "TDT", done |-> done], Around("EOP")>>
IdleWord == <<[id |-> "IDLE"]>>

Readout(words, check, n, lost, frames) ==
  [words |-> words, check |-> check, triggers |-> n, lost |-> lost, sent |-> frames, lanes |-> DOMAIN frames]
LaneOf(n) == [lane \in {32} |-> <<Frames(1)[n], Frames(1)[1], Frames(1)[(n % Len(Regions)) + 1]>>]
Whole(n, between) == DataWords(32, Stream(LaneOf(n)[32], between))
OnePacket(n, between) == Packet(IdleWord \o Whole(n, between) \o IdleWord, TRUE)
TwoPackets(n) == LET words == Whole(n, <<>>)
                     half == Len(words) \div 2
                 IN Packet(SubSeq(words, 1, half), FALSE) \o Packet(SubSeq(words, half + 1, Len(words)), TRUE)
Undamaged == UNION {{Readout(OnePacket(n, between), check, 1, "none", LaneOf(n)) :
                       between \in {<<>>, <<Idle>>, <<BusyOn, Idle>>}, check \in {"new", "old"}}
                    \cup {Readout(TwoPackets(n), "new", 1, "none", LaneOf(n)),
                          Readout(TwoPackets(n), "old", 2, "none", LaneOf(n))} : n \in DOMAIN Regions}
WordLostOf(words, frames) ==
  {Readout(RemoveAt(words, k), check, 2, words[k].id, frames) : check \in {"new", "old"}, k \in DOMAIN words}
Twice(n) == OnePacket(n, <<>>) \o OnePacket(n, <<>>)
WordLost == UNION {WordLostOf(Twice(n), [lane \in {32} |-> LaneOf(n)[32] \o LaneOf(n)[32]]) : n \in {1, 4}}
ByteDamage(n) ==
  LET stream == Stream(LaneOf(n)[32], <<>>)
      first == Len(Spaced(LaneOf(n)[32][1], <<>>))
  IN {RemoveAt(stream, k) : k \in 1..first}
     \cup {[stream EXCEPT ![k] = byte] : k \in 1..first, byte \in {0, 65, 161, 176, 193, 225, 241, 255}}
OnLane == UNION {{Readout(Packet(DataWords(32, bytes), TRUE), "new", 1, "byte", LaneOf(n)) :
                    bytes \in ByteDamage(n)} : n \in DOMAIN Regions}
MCReadouts == Undamaged \cup WordLost \cup OnLane
=============================================================================
