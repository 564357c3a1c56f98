----------------------------- MODULE UsbIfProofs -----------------------------
(***************************************************************************)
(* The USB interface is correct for any number of ports, any size of the   *)
(* packets from 5 words, of the FIFOs from 2 words and any time-out from 4 *)
(* cycles: no FIFO is read empty or written full, and a visit puts its     *)
(* words on the bus each once, in order, the last one ending the packet.   *)
(***************************************************************************)
EXTENDS UsbIf, TLAPS

-----------------------------------------------------------------------------
\* A port that has left IDLE is the one the arbiter waits for, and a strobe
\* belongs to it.
ArbInv ==
  /\ \A k \in Out : dpo[k] # "IDLE" => arb = [at |-> "WT_DONE", port |-> k]
  /\ SLWR => arb.port \in Out /\ dpo[arb.port] # "IDLE"

\* dpi_fsm: the flag is one cycle late, but it is not looked at then.
DpiInv ==
  /\ dpi \in {"FX3_RD_REQ", "FX3_DT_WT", "FX3_LTCH_DT", "FIFO_WR_DT", "CHK_FLG"} => full0 < Depth
  /\ dpi \in {"FX3_RD_REQ", "FX3_DT_WT", "FX3_LTCH_DT", "FIFO_WR_DT", "CHK_FLG"} => dpiCntr < MaxWords
  /\ (dpi # "FX3_DT_WT" /\ ~flag0) \/ dpi = "FX3_RD_REQ" => fx3 > 0

\* By how many words the reads of a visit are ahead of the writes, and how
\* many words may be written when a state is entered.
Ahead(s) == CASE s \in {"FX3_WR_DT", "FX3_WR_DT_SL_1", "FLSH_PPLN_1"} -> 3
              [] s \in {"FIFO_RD_WT_2", "FIFO_NF_PPLN", "FX3_WR_DT_SL_2", "FLSH_PPLN_2"} -> 2
              [] s \in {"FIFO_RD_WT_1", "TIME_OUT_CNT", "FLSH_PPLN_3", "WR_LST_WRD", "WR_REM_WRD"} -> 1
              [] OTHER -> 0
AtMost(s) == CASE s = "FX3_WR_DT" -> MaxPkt - 4
               [] s \in {"FIFO_RD_WT_2", "FX3_WR_DT_SL_1", "FLSH_PPLN_1"} -> MaxPkt - 3
               [] s \in {"FIFO_RD_WT_1", "FIFO_NF_PPLN", "FX3_WR_DT_SL_2", "FLSH_PPLN_2",
                         "WR_REM_WRD"} -> MaxPkt - 2
               [] s \in {"DONE", "IDLE"} -> MaxPkt
               [] OTHER -> MaxPkt - 1

CountInv(k) ==
  /\ dpo[k] \in Reading \cup {"WR_REM_WRD"} => held[k] > 0
  /\ wrdCntr[k] <= AtMost(dpo[k])
  /\ dpo[k] # "IDLE" => /\ nread[k] = wrdCntr[k] + Ahead(dpo[k])
                        /\ wrdCntr[k] = sent[k] + (IF SLWR THEN 1 ELSE 0)
  /\ dpo[k] = "IDLE" => nread[k] = 0 /\ sent[k] = 0
  /\ dpo[k] = "DONE" => (SLWR <=> PKTEND) /\ (SLWR \/ wrdCntr[k] = 0)
  /\ dpo[k] = "TIME_OUT_CNT" => tmOutCntr[k] <= MaxTimeout - 2
  /\ dpo[k] \in {"FIFO_RD_WT_1", "FIFO_RD_WT_2", "FIFO_NF_PPLN", "FX3_WR_DT", "FLSH_PPLN_1",
                 "FLSH_PPLN_2"} => tmOutCntr[k] = 0

\* Where the words are that were read and not written: in the FIFO's pipeline
\* and in the first register of the bus.
Pipe(k) ==
  /\ dpo[k] \in {"FIFO_RD_WT_1", "FIFO_RD_WT_2", "FIFO_NF_PPLN", "FX3_WR_DT", "FX3_WR_DT_SL_1",
                 "FLSH_PPLN_1"} => fetched[k] = nread[k]
  /\ dpo[k] \in {"FIFO_RD_WT_2", "FIFO_NF_PPLN", "FX3_WR_DT", "FX3_WR_DT_SL_1", "FLSH_PPLN_1"}
       => dout[k] = nread[k] - 1
  /\ dpo[k] \in {"FX3_WR_DT_SL_2", "FLSH_PPLN_2", "FLSH_PPLN_3"}
       => fetched[k] = 0 /\ dout[k] = nread[k]
  /\ dpo[k] = "TIME_OUT_CNT" => \/ fetched[k] = 0 /\ dout[k] = nread[k]
                                \/ fetched[k] = nread[k] /\ tmOutCntr[k] = 0
  /\ dpo[k] \in Writing => DQ_o_r = <<k, wrdCntr[k] + 1>>

BusInv ==
  /\ SLWR => DQ_o = <<arb.port, sent[arb.port] + 1>>
  /\ PKTEND => SLWR /\ dpo[arb.port] = "DONE"

Inv == TypeOK /\ ArbInv /\ DpiInv /\ BusInv /\ \A k \in Out : CountInv(k) /\ Pipe(k)

-----------------------------------------------------------------------------
\* A cycle of the clock, as one port sees it.
LEMMA PortClock ==
  ASSUME TypeOK, ArbInv, Clock, NEW k \in Out, held[k] > 0 \/ dpo[k] \notin Reading
  PROVE  /\ dpo'[k] = DpoNext(k) /\ wrdCntr'[k] = WrdCntrNext(k) /\ tmOutCntr'[k] = TmOutCntrNext(k)
         /\ held'[k] = (IF dpo[k] \in Reading THEN held[k] - 1 ELSE held[k])
         /\ fetched'[k] = (IF dpo[k] \in Reading THEN nread[k] + 1 ELSE 0)
         /\ dpo[k] # "DONE" => dout'[k] = (IF fetched[k] # 0 THEN fetched[k] ELSE dout[k])
         /\ nread'[k] = (IF dpo[k] = "DONE" THEN 0
                         ELSE IF dpo[k] \in Reading THEN nread[k] + 1 ELSE nread[k])
         /\ dpo[k] \notin {"IDLE", "DONE"} =>
              /\ arb' = arb /\ DQ_o_r' = <<k, dout[k]>>
              /\ SLWR' = (dpo[k] \in Writing) /\ PKTEND' = (dpo[k] = "WR_LST_WRD")
              /\ sent'[k] = sent[k] + (IF SLWR THEN 1 ELSE 0)
         /\ dpo[k] = "IDLE" => sent'[k] = sent[k]
         /\ dpo[k] = "DONE" => sent'[k] = 0
<1>1. Reads(k) <=> dpo[k] \in Reading
  BY DEF Reads
<1>2. /\ dpo'[k] = DpoNext(k) /\ wrdCntr'[k] = WrdCntrNext(k) /\ tmOutCntr'[k] = TmOutCntrNext(k)
  BY DEF Clock, DpoClock
<1>3. /\ held'[k] = (IF dpo[k] \in Reading THEN held[k] - 1 ELSE held[k])
      /\ fetched'[k] = (IF dpo[k] \in Reading THEN nread[k] + 1 ELSE 0)
      /\ nread'[k] = (IF dpo[k] = "DONE" THEN 0
                      ELSE IF dpo[k] \in Reading THEN nread[k] + 1 ELSE nread[k])
  BY <1>1 DEF Clock, DpoClock, EndsVisit
<1>4. dpo[k] # "DONE" => dout'[k] = (IF fetched[k] # 0 THEN fetched[k] ELSE dout[k])
  BY DEF Clock, DpoClock, EndsVisit
<1>5. /\ dpo[k] # "DONE" => sent'[k] = IF SLWR /\ arb.port = k THEN sent[k] + 1 ELSE sent[k]
      /\ dpo[k] = "DONE" => sent'[k] = 0
  BY DEF Clock, DpoClock, EndsVisit
<1>6. dpo[k] = "IDLE" => sent'[k] = sent[k]
  BY <1>5 DEF ArbInv
<1>7. ASSUME dpo[k] \notin {"IDLE", "DONE"}
      PROVE  /\ arb' = arb /\ DQ_o_r' = <<k, dout[k]>>
             /\ SLWR' = (dpo[k] \in Writing) /\ PKTEND' = (dpo[k] = "WR_LST_WRD")
             /\ sent'[k] = sent[k] + (IF SLWR THEN 1 ELSE 0)
  <2>1. arb.at = "WT_DONE" /\ arb.port = k /\ k # 0
    BY <1>7, UsbIfAssumption DEF ArbInv, Out
  <2>2. ArbNext = arb
    BY <1>7, <2>1 DEF ArbNext, Finished
  <2>3. Mux(arb) = k
    BY <2>1 DEF Mux
  <2>4. sent[k] \in Int
    BY DEF TypeOK
  <2> QED
    BY <1>5, <1>7, <2>1, <2>2, <2>3, <2>4 DEF Clock, BusClock
<1> QED
  BY <1>2, <1>3, <1>4, <1>5, <1>6, <1>7

\* A visit begins when the arbiter starts the port.
LEMMA VisitBegins ==
  ASSUME TypeOK, ArbInv, Clock, NEW k \in Out, dpo[k] = "IDLE", dpo'[k] # "IDLE"
  PROVE  /\ arb = [at |-> "STRT", port |-> k] /\ arb' = [at |-> "WT_DONE", port |-> k]
         /\ ~SLWR' /\ ~PKTEND' /\ dpo'[k] \in {"FIFO_RD_STRT", "DONE"}
         /\ dpo'[k] = "FIFO_RD_STRT" => held[k] > 0
<1>1. dpo'[k] = Starts(k)
  BY DEF Clock, DpoClock, DpoNext
<1>2. Start(k)
  BY <1>1 DEF Starts
<1>3. arb = [at |-> "STRT", port |-> k] /\ dpo'[k] \in {"FIFO_RD_STRT", "DONE"}
      /\ (dpo'[k] = "FIFO_RD_STRT" => held[k] > 0)
  BY <1>1, <1>2 DEF Start, Starts
<1>4. ArbNext = [at |-> "WT_DONE", port |-> k]
  <2>1. arb.at = "STRT" /\ arb.port = k
    BY <1>3
  <2>2. ArbNext = [arb EXCEPT !.at = "WT_DONE"]
    BY <2>1 DEF ArbNext
  <2> QED
    BY <1>3, <2>2
<1>5. Mux(ArbNext) = k
  BY <1>4, UsbIfAssumption DEF Mux, Out
<1> QED
  BY <1>3, <1>4, <1>5 DEF Clock, BusClock, Writing

\* A strobe comes from the port the arbiter waits for.
LEMMA StrobeSource ==
  ASSUME TypeOK, ArbInv, Clock, SLWR' \/ PKTEND'
  PROVE  /\ arb' = arb /\ arb.port \in Out /\ dpo[arb.port] \in Writing
         /\ PKTEND' = (dpo[arb.port] = "WR_LST_WRD") /\ SLWR'
<1> DEFINE k == Mux(ArbNext)
<1>1. /\ SLWR' = (dpo[k] \in Writing) /\ PKTEND' = (dpo[k] = "WR_LST_WRD")
  BY DEF Clock, BusClock
<1>2. k \in Out
  <2>1. ArbNext.port \in 0..NOut
    <3>1. arb.at \in {"IDLE", "STRT", "WT_DONE"} /\ arb.port \in 0..NOut
      BY DEF TypeOK
    <3>2. (arb.port + 1) % (NOut + 1) \in 0..NOut
      BY <3>1, UsbIfAssumption
    <3> QED
      BY <3>1, <3>2, UsbIfAssumption DEF ArbNext, TypeOK
  <2> QED
    BY <2>1, UsbIfAssumption DEF Mux, Out
<1>3. dpo[k] \in Writing /\ dpo[k] \notin {"IDLE", "DONE"} /\ (dpo[k] = "WR_LST_WRD" => dpo[k] \in Writing)
  BY <1>1 DEF Writing
<1>4. arb = [at |-> "WT_DONE", port |-> k] /\ k # 0
  BY <1>2, <1>3, UsbIfAssumption DEF ArbInv, Out
<1>5. ArbNext = arb
  BY <1>3, <1>4 DEF ArbNext, Finished
<1> QED
  BY <1>1, <1>2, <1>3, <1>4, <1>5 DEF Clock

-----------------------------------------------------------------------------
\* The state of a port after a cycle.

LEMMA AheadIs ==
  /\ Ahead("IDLE") = 0
  /\ Ahead("FIFO_RD_STRT") = 0
  /\ Ahead("FIFO_RD_WT_1") = 1
  /\ Ahead("FIFO_NF_PPLN") = 2
  /\ Ahead("FIFO_RD_WT_2") = 2
  /\ Ahead("FX3_WR_DT") = 3
  /\ Ahead("FX3_WR_DT_SL_1") = 3
  /\ Ahead("FX3_WR_DT_SL_2") = 2
  /\ Ahead("FLSH_PPLN_1") = 3
  /\ Ahead("FLSH_PPLN_2") = 2
  /\ Ahead("TIME_OUT_CNT") = 1
  /\ Ahead("FLSH_PPLN_3") = 1
  /\ Ahead("WR_REM_WRD") = 1
  /\ Ahead("WR_LST_WRD") = 1
  /\ Ahead("DONE") = 0
BY DEF Ahead

LEMMA AtMostIs ==
  /\ AtMost("IDLE") = MaxPkt
  /\ AtMost("FIFO_RD_STRT") = MaxPkt - 1
  /\ AtMost("FIFO_RD_WT_1") = MaxPkt - 2
  /\ AtMost("FIFO_NF_PPLN") = MaxPkt - 2
  /\ AtMost("FIFO_RD_WT_2") = MaxPkt - 3
  /\ AtMost("FX3_WR_DT") = MaxPkt - 4
  /\ AtMost("FX3_WR_DT_SL_1") = MaxPkt - 3
  /\ AtMost("FX3_WR_DT_SL_2") = MaxPkt - 2
  /\ AtMost("FLSH_PPLN_1") = MaxPkt - 3
  /\ AtMost("FLSH_PPLN_2") = MaxPkt - 2
  /\ AtMost("TIME_OUT_CNT") = MaxPkt - 1
  /\ AtMost("FLSH_PPLN_3") = MaxPkt - 1
  /\ AtMost("WR_REM_WRD") = MaxPkt - 2
  /\ AtMost("WR_LST_WRD") = MaxPkt - 1
  /\ AtMost("DONE") = MaxPkt
BY DEF AtMost

LEMMA CountStep ==
  ASSUME TypeOK, ArbInv, NEW k \in Out, CountInv(k), Clock
  PROVE  CountInv(k)' /\ dpo'[k] \in DpoState /\ wrdCntr'[k] \in 0..MaxPkt
         /\ tmOutCntr'[k] \in 0..MaxTimeout - 1
<1>0. held[k] > 0 \/ dpo[k] \notin Reading
  BY DEF CountInv
<1>1. /\ MaxPkt \in Nat /\ MaxPkt >= 5 /\ MaxTimeout \in Nat /\ MaxTimeout >= 4
      /\ held[k] \in Nat /\ wrdCntr[k] \in Nat /\ tmOutCntr[k] \in 0..MaxTimeout - 1
      /\ nread[k] \in Nat /\ sent[k] \in Nat /\ dpo[k] \in DpoState
  BY UsbIfAssumption DEF TypeOK
<1>2. /\ dpo'[k] = DpoNext(k) /\ wrdCntr'[k] = WrdCntrNext(k) /\ tmOutCntr'[k] = TmOutCntrNext(k)
      /\ held'[k] = (IF dpo[k] \in Reading THEN held[k] - 1 ELSE held[k])
      /\ nread'[k] = (IF dpo[k] = "DONE" THEN 0
                      ELSE IF dpo[k] \in Reading THEN nread[k] + 1 ELSE nread[k])
      /\ dpo[k] \notin {"IDLE", "DONE"} =>
           /\ SLWR' = (dpo[k] \in Writing) /\ PKTEND' = (dpo[k] = "WR_LST_WRD")
           /\ sent'[k] = sent[k] + (IF SLWR THEN 1 ELSE 0)
      /\ dpo[k] = "IDLE" => sent'[k] = sent[k]
      /\ dpo[k] = "DONE" => sent'[k] = 0
  BY <1>0, PortClock
<1>3. dpo[k] \notin {"IDLE", "DONE"} =>
        /\ nread[k] = wrdCntr[k] + Ahead(dpo[k]) /\ sent'[k] = wrdCntr[k]
        /\ wrdCntr[k] <= AtMost(dpo[k])
  BY <1>2 DEF CountInv
<1>4. CASE dpo[k] = "IDLE"
  <2>1. \/ dpo'[k] = "IDLE"
        \/ dpo'[k] = "FIFO_RD_STRT" /\ held[k] > 0 /\ ~SLWR' /\ ~PKTEND'
        \/ dpo'[k] = "DONE" /\ ~SLWR' /\ ~PKTEND'
    BY <1>4, VisitBegins
  <2>2. wrdCntr'[k] = 0 /\ tmOutCntr'[k] = 0 /\ nread'[k] = 0 /\ sent'[k] = 0 /\ held'[k] = held[k]
    BY <1>2, <1>4 DEF CountInv, WrdCntrNext, TmOutCntrNext, Reading
  <2> QED
    BY <1>1, <2>1, <2>2, AheadIs, AtMostIs DEF CountInv, Reading, Writing, DpoState
<1>5. CASE dpo[k] = "DONE"
  <2>1. dpo'[k] = "IDLE" /\ wrdCntr'[k] = wrdCntr[k] /\ tmOutCntr'[k] = tmOutCntr[k]
    BY <1>2, <1>5 DEF DpoNext, WrdCntrNext, TmOutCntrNext, Writing
  <2>2. nread'[k] = 0 /\ sent'[k] = 0 /\ wrdCntr[k] <= MaxPkt
    BY <1>2, <1>5, AtMostIs DEF CountInv
  <2> QED
    BY <1>1, <2>1, <2>2, AtMostIs DEF CountInv, Reading, Writing, DpoState
<1>6. CASE dpo[k] = "FIFO_RD_STRT"
  <2>1. \/ dpo'[k] = "TIME_OUT_CNT"
        \/ dpo'[k] = "FIFO_RD_WT_1" /\ held[k] > 1 /\ wrdCntr[k] # MaxPkt - 1
    BY <1>1, <1>2, <1>6 DEF DpoNext, Last, AlmostEmpty
  <2>2. /\ wrdCntr'[k] = wrdCntr[k] /\ tmOutCntr'[k] = 0
        /\ nread'[k] = nread[k] + 1 /\ held'[k] = held[k] - 1
        /\ ~SLWR' /\ ~PKTEND'
    BY <1>2, <1>6 DEF WrdCntrNext, TmOutCntrNext, Reading, Writing
  <2>3. /\ nread[k] = wrdCntr[k] /\ sent'[k] = wrdCntr[k] /\ wrdCntr[k] <= MaxPkt - 1
        /\ held[k] > 0
    BY <1>1, <1>3, <1>6, AheadIs, AtMostIs DEF CountInv, Reading
  <2> QED
    BY <1>1, <2>1, <2>2, <2>3, AheadIs, AtMostIs DEF CountInv, Reading, Writing, DpoState
<1>7. CASE dpo[k] = "FIFO_RD_WT_1"
  <2>1. \/ dpo'[k] = "FIFO_NF_PPLN"
        \/ dpo'[k] = "FIFO_RD_WT_2" /\ held[k] > 1 /\ wrdCntr[k] # MaxPkt - 2
    BY <1>1, <1>2, <1>7 DEF DpoNext, Last, AlmostEmpty
  <2>2. /\ wrdCntr'[k] = wrdCntr[k] /\ tmOutCntr'[k] = tmOutCntr[k]
        /\ nread'[k] = nread[k] + 1 /\ held'[k] = held[k] - 1
        /\ ~SLWR' /\ ~PKTEND'
    BY <1>2, <1>7 DEF WrdCntrNext, TmOutCntrNext, Reading, Writing
  <2>3. /\ nread[k] = wrdCntr[k] + 1 /\ sent'[k] = wrdCntr[k] /\ wrdCntr[k] <= MaxPkt - 2
        /\ tmOutCntr[k] = 0 /\ held[k] > 0
    BY <1>1, <1>3, <1>7, AheadIs, AtMostIs DEF CountInv, Reading
  <2> QED
    BY <1>1, <2>1, <2>2, <2>3, AheadIs, AtMostIs DEF CountInv, Reading, Writing, DpoState
<1>8. CASE dpo[k] = "FIFO_NF_PPLN"
  <2>1. dpo'[k] = "FLSH_PPLN_2"
    BY <1>1, <1>2, <1>8 DEF DpoNext
  <2>2. /\ wrdCntr'[k] = wrdCntr[k] /\ tmOutCntr'[k] = tmOutCntr[k]
        /\ nread'[k] = nread[k] /\ held'[k] = held[k]
        /\ ~SLWR' /\ ~PKTEND'
    BY <1>2, <1>8 DEF WrdCntrNext, TmOutCntrNext, Reading, Writing
  <2>3. /\ nread[k] = wrdCntr[k] + 2 /\ sent'[k] = wrdCntr[k] /\ wrdCntr[k] <= MaxPkt - 2
        /\ tmOutCntr[k] = 0
    BY <1>1, <1>3, <1>8, AheadIs, AtMostIs DEF CountInv
  <2> QED
    BY <1>1, <2>1, <2>2, <2>3, AheadIs, AtMostIs DEF CountInv, Reading, Writing, DpoState
<1>9. CASE dpo[k] = "FIFO_RD_WT_2"
  <2>1. \/ dpo'[k] = "FLSH_PPLN_1"
        \/ dpo'[k] = "FX3_WR_DT" /\ held[k] > 1 /\ wrdCntr[k] # MaxPkt - 3
    BY <1>1, <1>2, <1>9 DEF DpoNext, Last, AlmostEmpty
  <2>2. /\ wrdCntr'[k] = wrdCntr[k] /\ tmOutCntr'[k] = tmOutCntr[k]
        /\ nread'[k] = nread[k] + 1 /\ held'[k] = held[k] - 1
        /\ ~SLWR' /\ ~PKTEND'
    BY <1>2, <1>9 DEF WrdCntrNext, TmOutCntrNext, Reading, Writing
  <2>3. /\ nread[k] = wrdCntr[k] + 2 /\ sent'[k] = wrdCntr[k] /\ wrdCntr[k] <= MaxPkt - 3
        /\ tmOutCntr[k] = 0 /\ held[k] > 0
    BY <1>1, <1>3, <1>9, AheadIs, AtMostIs DEF CountInv, Reading
  <2> QED
    BY <1>1, <2>1, <2>2, <2>3, AheadIs, AtMostIs DEF CountInv, Reading, Writing, DpoState
<1>10. CASE dpo[k] = "FX3_WR_DT"
  <2>1. \/ dpo'[k] = "FX3_WR_DT_SL_1"
        \/ dpo'[k] = "FLSH_PPLN_1" /\ wrdCntr[k] <= MaxPkt - 5
        \/ dpo'[k] = "FX3_WR_DT" /\ held[k] > 1 /\ wrdCntr[k] <= MaxPkt - 5
    BY <1>1, <1>2, <1>10 DEF DpoNext, AlmostEmpty
  <2>2. /\ wrdCntr'[k] = wrdCntr[k] + 1 /\ tmOutCntr'[k] = tmOutCntr[k]
        /\ nread'[k] = nread[k] + 1 /\ held'[k] = held[k] - 1
        /\ SLWR' /\ ~PKTEND'
    BY <1>2, <1>10 DEF WrdCntrNext, TmOutCntrNext, Reading, Writing
  <2>3. /\ nread[k] = wrdCntr[k] + 3 /\ sent'[k] = wrdCntr[k] /\ wrdCntr[k] <= MaxPkt - 4
        /\ tmOutCntr[k] = 0 /\ held[k] > 0
    BY <1>1, <1>3, <1>10, AheadIs, AtMostIs DEF CountInv, Reading
  <2> QED
    BY <1>1, <2>1, <2>2, <2>3, AheadIs, AtMostIs DEF CountInv, Reading, Writing, DpoState
<1>11. CASE dpo[k] = "FX3_WR_DT_SL_1"
  <2>1. dpo'[k] = "FX3_WR_DT_SL_2"
    BY <1>1, <1>2, <1>11 DEF DpoNext
  <2>2. /\ wrdCntr'[k] = wrdCntr[k] + 1 /\ tmOutCntr'[k] = tmOutCntr[k]
        /\ nread'[k] = nread[k] /\ held'[k] = held[k]
        /\ SLWR' /\ ~PKTEND'
    BY <1>2, <1>11 DEF WrdCntrNext, TmOutCntrNext, Reading, Writing
  <2>3. /\ nread[k] = wrdCntr[k] + 3 /\ sent'[k] = wrdCntr[k] /\ wrdCntr[k] <= MaxPkt - 3
    BY <1>1, <1>3, <1>11, AheadIs, AtMostIs DEF CountInv
  <2> QED
    BY <1>1, <2>1, <2>2, <2>3, AheadIs, AtMostIs DEF CountInv, Reading, Writing, DpoState
<1>12. CASE dpo[k] = "FX3_WR_DT_SL_2"
  <2>1. dpo'[k] = "WR_LST_WRD"
    BY <1>1, <1>2, <1>12 DEF DpoNext
  <2>2. /\ wrdCntr'[k] = wrdCntr[k] + 1 /\ tmOutCntr'[k] = tmOutCntr[k]
        /\ nread'[k] = nread[k] /\ held'[k] = held[k]
        /\ SLWR' /\ ~PKTEND'
    BY <1>2, <1>12 DEF WrdCntrNext, TmOutCntrNext, Reading, Writing
  <2>3. /\ nread[k] = wrdCntr[k] + 2 /\ sent'[k] = wrdCntr[k] /\ wrdCntr[k] <= MaxPkt - 2
    BY <1>1, <1>3, <1>12, AheadIs, AtMostIs DEF CountInv
  <2> QED
    BY <1>1, <2>1, <2>2, <2>3, AheadIs, AtMostIs DEF CountInv, Reading, Writing, DpoState
<1>13. CASE dpo[k] = "FLSH_PPLN_1"
  <2>1. dpo'[k] = "FLSH_PPLN_2"
    BY <1>1, <1>2, <1>13 DEF DpoNext
  <2>2. /\ wrdCntr'[k] = wrdCntr[k] + 1 /\ tmOutCntr'[k] = tmOutCntr[k]
        /\ nread'[k] = nread[k] /\ held'[k] = held[k]
        /\ SLWR' /\ ~PKTEND'
    BY <1>2, <1>13 DEF WrdCntrNext, TmOutCntrNext, Reading, Writing
  <2>3. /\ nread[k] = wrdCntr[k] + 3 /\ sent'[k] = wrdCntr[k] /\ wrdCntr[k] <= MaxPkt - 3
        /\ tmOutCntr[k] = 0
    BY <1>1, <1>3, <1>13, AheadIs, AtMostIs DEF CountInv
  <2> QED
    BY <1>1, <2>1, <2>2, <2>3, AheadIs, AtMostIs DEF CountInv, Reading, Writing, DpoState
<1>14. CASE dpo[k] = "FLSH_PPLN_2"
  <2>1. dpo'[k] = "TIME_OUT_CNT"
    BY <1>1, <1>2, <1>14 DEF DpoNext
  <2>2. /\ wrdCntr'[k] = wrdCntr[k] + 1 /\ tmOutCntr'[k] = tmOutCntr[k]
        /\ nread'[k] = nread[k] /\ held'[k] = held[k]
        /\ SLWR' /\ ~PKTEND'
    BY <1>2, <1>14 DEF WrdCntrNext, TmOutCntrNext, Reading, Writing
  <2>3. /\ nread[k] = wrdCntr[k] + 2 /\ sent'[k] = wrdCntr[k] /\ wrdCntr[k] <= MaxPkt - 2
        /\ tmOutCntr[k] = 0
    BY <1>1, <1>3, <1>14, AheadIs, AtMostIs DEF CountInv
  <2> QED
    BY <1>1, <2>1, <2>2, <2>3, AheadIs, AtMostIs DEF CountInv, Reading, Writing, DpoState
<1>15. CASE dpo[k] = "TIME_OUT_CNT"
  <2>1. \/ dpo'[k] = "FLSH_PPLN_3"
        \/ dpo'[k] = "WR_LST_WRD"
        \/ dpo'[k] = "WR_REM_WRD" /\ held[k] > 0 /\ wrdCntr[k] < MaxPkt - 1
        \/ dpo'[k] = "TIME_OUT_CNT" /\ tmOutCntr[k] < MaxTimeout - 2
    BY <1>1, <1>2, <1>15 DEF DpoNext, TimesOut, Remains
  <2>2. /\ wrdCntr'[k] = wrdCntr[k] /\ tmOutCntr'[k] = tmOutCntr[k] + 1
        /\ nread'[k] = nread[k] /\ held'[k] = held[k]
        /\ ~SLWR' /\ ~PKTEND'
    BY <1>2, <1>15 DEF WrdCntrNext, TmOutCntrNext, Reading, Writing
  <2>3. /\ nread[k] = wrdCntr[k] + 1 /\ sent'[k] = wrdCntr[k] /\ wrdCntr[k] <= MaxPkt - 1
        /\ tmOutCntr[k] <= MaxTimeout - 2
    BY <1>1, <1>3, <1>15, AheadIs, AtMostIs DEF CountInv
  <2> QED
    BY <1>1, <2>1, <2>2, <2>3, AheadIs, AtMostIs DEF CountInv, Reading, Writing, DpoState
<1>16. CASE dpo[k] = "FLSH_PPLN_3"
  <2>1. dpo'[k] = "WR_LST_WRD"
    BY <1>1, <1>2, <1>16 DEF DpoNext
  <2>2. /\ wrdCntr'[k] = wrdCntr[k] /\ tmOutCntr'[k] = tmOutCntr[k]
        /\ nread'[k] = nread[k] /\ held'[k] = held[k]
        /\ ~SLWR' /\ ~PKTEND'
    BY <1>2, <1>16 DEF WrdCntrNext, TmOutCntrNext, Reading, Writing
  <2>3. /\ nread[k] = wrdCntr[k] + 1 /\ sent'[k] = wrdCntr[k] /\ wrdCntr[k] <= MaxPkt - 1
    BY <1>1, <1>3, <1>16, AheadIs, AtMostIs DEF CountInv
  <2> QED
    BY <1>1, <2>1, <2>2, <2>3, AheadIs, AtMostIs DEF CountInv, Reading, Writing, DpoState
<1>17. CASE dpo[k] = "WR_REM_WRD"
  <2>1. dpo'[k] = "FIFO_RD_STRT"
    BY <1>1, <1>2, <1>17 DEF DpoNext
  <2>2. /\ wrdCntr'[k] = wrdCntr[k] + 1 /\ tmOutCntr'[k] = 0
        /\ nread'[k] = nread[k] /\ held'[k] = held[k]
        /\ SLWR' /\ ~PKTEND'
    BY <1>2, <1>17 DEF WrdCntrNext, TmOutCntrNext, Reading, Writing
  <2>3. /\ nread[k] = wrdCntr[k] + 1 /\ sent'[k] = wrdCntr[k] /\ wrdCntr[k] <= MaxPkt - 2
        /\ held[k] > 0
    BY <1>1, <1>3, <1>17, AheadIs, AtMostIs DEF CountInv
  <2> QED
    BY <1>1, <2>1, <2>2, <2>3, AheadIs, AtMostIs DEF CountInv, Reading, Writing, DpoState
<1>18. CASE dpo[k] = "WR_LST_WRD"
  <2>1. dpo'[k] = "DONE"
    BY <1>1, <1>2, <1>18 DEF DpoNext
  <2>2. /\ wrdCntr'[k] = wrdCntr[k] + 1 /\ tmOutCntr'[k] = tmOutCntr[k]
        /\ nread'[k] = nread[k] /\ held'[k] = held[k]
        /\ SLWR' /\ PKTEND'
    BY <1>2, <1>18 DEF WrdCntrNext, TmOutCntrNext, Reading, Writing
  <2>3. /\ nread[k] = wrdCntr[k] + 1 /\ sent'[k] = wrdCntr[k] /\ wrdCntr[k] <= MaxPkt - 1
    BY <1>1, <1>3, <1>18, AheadIs, AtMostIs DEF CountInv
  <2> QED
    BY <1>1, <2>1, <2>2, <2>3, AheadIs, AtMostIs DEF CountInv, Reading, Writing, DpoState
<1> QED
  BY <1>1, <1>4, <1>5, <1>6, <1>7, <1>8, <1>9, <1>10, <1>11, <1>12, <1>13, <1>14, <1>15, <1>16, <1>17, <1>18 DEF DpoState, Reading, Writing

LEMMA PipeStep ==
  ASSUME TypeOK, ArbInv, NEW k \in Out, CountInv(k), Pipe(k), Clock
  PROVE  Pipe(k)'
<1>0. held[k] > 0 \/ dpo[k] \notin Reading
  BY DEF CountInv
<1>1. /\ MaxPkt \in Nat /\ MaxPkt >= 5 /\ MaxTimeout \in Nat /\ MaxTimeout >= 4
      /\ wrdCntr[k] \in Nat /\ nread[k] \in Nat /\ dpo[k] \in DpoState /\ tmOutCntr[k] \in Nat
  BY UsbIfAssumption DEF TypeOK
<1>2. /\ dpo'[k] = DpoNext(k) /\ wrdCntr'[k] = WrdCntrNext(k) /\ tmOutCntr'[k] = TmOutCntrNext(k)
      /\ nread'[k] = (IF dpo[k] = "DONE" THEN 0
                      ELSE IF dpo[k] \in Reading THEN nread[k] + 1 ELSE nread[k])
      /\ fetched'[k] = (IF dpo[k] \in Reading THEN nread[k] + 1 ELSE 0)
      /\ dpo[k] # "DONE" => dout'[k] = (IF fetched[k] # 0 THEN fetched[k] ELSE dout[k])
      /\ dpo[k] \notin {"IDLE", "DONE"} => DQ_o_r' = <<k, dout[k]>>
  BY <1>0, PortClock
<1>3. dpo[k] # "IDLE" => nread[k] = wrdCntr[k] + Ahead(dpo[k])
  BY DEF CountInv
<1> USE <1>1, <1>2, <1>3 DEF Pipe, Reading, Writing, Ahead, DpoNext, WrdCntrNext, TmOutCntrNext
<1>4. CASE dpo[k] \in {"IDLE", "DONE"}
  BY <1>4, VisitBegins
<1>5. CASE dpo[k] = "FIFO_RD_STRT"
  BY <1>5
<1>6. CASE dpo[k] \in {"FIFO_RD_WT_1", "FIFO_RD_WT_2"}
  BY <1>6
<1>7. CASE dpo[k] = "FX3_WR_DT"
  BY <1>7
<1>8. CASE dpo[k] \in {"FIFO_NF_PPLN", "FLSH_PPLN_1", "FLSH_PPLN_2", "FX3_WR_DT_SL_1", "FX3_WR_DT_SL_2"}
  BY <1>8
<1>9. CASE dpo[k] = "TIME_OUT_CNT"
  BY <1>9 DEF TimesOut, Remains
<1>10. CASE dpo[k] \in {"FLSH_PPLN_3", "WR_REM_WRD", "WR_LST_WRD"}
  BY <1>10
<1> QED
  BY <1>4, <1>5, <1>6, <1>7, <1>8, <1>9, <1>10 DEF DpoState

-----------------------------------------------------------------------------
\* The arbiter, the receiving port and the bus after a cycle.

LEMMA ArbType ==
  ASSUME TypeOK
  PROVE  ArbNext \in [at : {"IDLE", "STRT", "WT_DONE"}, port : 0..NOut]
<1>1. /\ arb \in [at : {"IDLE", "STRT", "WT_DONE"}, port : 0..NOut] /\ NOut \in Nat
      /\ (arb.port + 1) % (NOut + 1) \in 0..NOut
  BY UsbIfAssumption DEF TypeOK
<1>2. CASE arb.at = "IDLE"
  BY <1>1, <1>2 DEF ArbNext
<1>3. CASE arb.at = "STRT"
  BY <1>1, <1>3 DEF ArbNext
<1>4. CASE arb.at = "WT_DONE"
  BY <1>1, <1>4 DEF ArbNext
<1> QED
  BY <1>1, <1>2, <1>3, <1>4

LEMMA ArbStep ==
  ASSUME TypeOK, ArbInv, \A k \in Out : CountInv(k), Clock
  PROVE  ArbInv'
<1>1. ASSUME NEW k \in Out, dpo'[k] # "IDLE"
      PROVE  arb' = [at |-> "WT_DONE", port |-> k]
  <2>1. CASE dpo[k] = "IDLE"
    BY <1>1, <2>1, VisitBegins
  <2>2. CASE dpo[k] = "DONE"
    <3>1. dpo'[k] = DpoNext(k)
      BY DEF Clock, DpoClock
    <3> QED
      BY <1>1, <2>2, <3>1 DEF DpoNext
  <2>3. CASE dpo[k] \notin {"IDLE", "DONE"}
    <3>1. arb' = arb
      BY <2>3, PortClock DEF CountInv
    <3> QED
      BY <2>3, <3>1 DEF ArbInv
  <2> QED
    BY <2>1, <2>2, <2>3
<1>2. ASSUME SLWR'
      PROVE  arb'.port \in Out /\ dpo'[arb'.port] # "IDLE"
  <2>1. arb' = arb /\ arb.port \in Out /\ dpo[arb.port] \in Writing
    BY <1>2, StrobeSource
  <2>2. dpo'[arb.port] = DpoNext(arb.port)
    BY <2>1 DEF Clock, DpoClock
  <2>3. dpo'[arb.port] # "IDLE"
    BY <2>1, <2>2 DEF DpoNext, Writing, TimesOut
  <2> QED
    BY <2>1, <2>3
<1> QED
  BY <1>1, <1>2 DEF ArbInv

LEMMA DpiStep ==
  ASSUME TypeOK, DpiInv, Clock
  PROVE  /\ DpiInv' /\ dpi' \in DpiState /\ dpiCntr' \in 0..MaxWords
         /\ full0' \in 0..Depth /\ fx3' \in 0..Depth /\ flag0' \in BOOLEAN
<1>1. /\ MaxWords \in Nat \ {0} /\ Depth \in Nat \ {0, 1} /\ dpi \in DpiState
      /\ dpiCntr \in 0..MaxWords /\ full0 \in 0..Depth /\ fx3 \in 0..Depth
  BY UsbIfAssumption DEF TypeOK
<1>2. /\ dpi' = DpiNext
      /\ dpiCntr' = (IF dpi = "IDLE" THEN 0 ELSE IF dpi = "FIFO_WR_DT" THEN dpiCntr + 1 ELSE dpiCntr)
      /\ fx3' = (IF dpi = "FX3_RD_REQ" /\ fx3 > 0 THEN fx3 - 1 ELSE fx3)
      /\ full0' = (IF dpi = "FIFO_WR_DT" /\ full0 < Depth THEN full0 + 1 ELSE full0)
      /\ flag0' <=> fx3 = 0
      /\ flag0' \in BOOLEAN
  BY DEF Clock, DpiClock
<1> USE <1>1, <1>2 DEF DpiInv, DpiState
<1>3. CASE dpi = "IDLE"
  <2>1. dpi' \in {"IDLE", "DONE"} \/ (dpi' = "FX3_RD_REQ" /\ ~flag0 /\ full0 < Depth)
    BY <1>3 DEF DpiNext
  <2> QED
    BY <1>3, <2>1
<1>4. CASE dpi = "FX3_RD_REQ"
  <2>1. dpi' = "FX3_DT_WT"
    BY <1>4 DEF DpiNext
  <2> QED
    BY <1>4, <2>1
<1>5. CASE dpi = "FX3_DT_WT"
  <2>1. dpi' = "FX3_LTCH_DT"
    BY <1>5 DEF DpiNext
  <2> QED
    BY <1>5, <2>1
<1>6. CASE dpi = "FX3_LTCH_DT"
  <2>1. dpi' = "FIFO_WR_DT"
    BY <1>6 DEF DpiNext
  <2> QED
    BY <1>6, <2>1
<1>7. CASE dpi = "FIFO_WR_DT"
  <2>1. dpi' = "FX3_WT_FLG"
    BY <1>7 DEF DpiNext
  <2> QED
    BY <1>7, <2>1
<1>8. CASE dpi = "FX3_WT_FLG"
  <2>1. dpi' = "DONE" \/ (dpi' = "CHK_FLG" /\ dpiCntr < MaxWords /\ full0 < Depth)
    BY <1>8 DEF DpiNext, DpiStops
  <2> QED
    BY <1>8, <2>1
<1>9. CASE dpi = "CHK_FLG"
  <2>1. dpi' = "DONE" \/ (dpi' = "FX3_RD_REQ" /\ ~flag0)
    BY <1>9 DEF DpiNext
  <2> QED
    BY <1>9, <2>1
<1>10. CASE dpi = "DONE"
  <2>1. dpi' = "IDLE"
    BY <1>10 DEF DpiNext
  <2> QED
    BY <1>10, <2>1
<1> QED
  BY <1>3, <1>4, <1>5, <1>6, <1>7, <1>8, <1>9, <1>10

LEMMA BusStep ==
  ASSUME TypeOK, ArbInv, \A k \in Out : CountInv(k) /\ Pipe(k), Clock
  PROVE  BusInv'
<1>1. ASSUME SLWR'
      PROVE  DQ_o' = <<arb'.port, sent'[arb'.port] + 1>>
  <2> DEFINE k == arb.port
  <2>1. arb' = arb /\ k \in Out /\ dpo[k] \in Writing
    BY <1>1, StrobeSource
  <2>2. dpo[k] \notin {"IDLE", "DONE"}
    BY <2>1 DEF Writing
  <2>3. DQ_o' = <<k, wrdCntr[k] + 1>>
    BY <2>1 DEF Clock, BusClock, Pipe
  <2>4. sent'[k] = sent[k] + (IF SLWR THEN 1 ELSE 0)
    BY <2>1, <2>2, PortClock DEF CountInv
  <2>5. wrdCntr[k] = sent[k] + (IF SLWR THEN 1 ELSE 0)
    BY <2>1, <2>2 DEF CountInv
  <2> QED
    BY <2>1, <2>3, <2>4, <2>5
<1>2. ASSUME PKTEND'
      PROVE  SLWR' /\ dpo'[arb'.port] = "DONE"
  <2>1. arb' = arb /\ arb.port \in Out /\ dpo[arb.port] = "WR_LST_WRD" /\ SLWR'
    <3>1. PKTEND' = (dpo[arb.port] = "WR_LST_WRD")
      BY <1>2, StrobeSource
    <3> QED
      BY <1>2, <3>1, StrobeSource
  <2>2. dpo'[arb.port] = DpoNext(arb.port)
    BY <2>1 DEF Clock, DpoClock
  <2> QED
    BY <2>1, <2>2 DEF DpoNext
<1> QED
  BY <1>1, <1>2 DEF BusInv

\* Every cycle keeps the invariant; so does whatever happens between two.
LEMMA ClockStep == Inv /\ Clock => Inv'
<1> SUFFICES ASSUME Inv, Clock
             PROVE  Inv'
  OBVIOUS
<1>1. TypeOK /\ ArbInv /\ DpiInv /\ \A k \in Out : CountInv(k) /\ Pipe(k)
  BY DEF Inv
<1>2. \A k \in Out : /\ CountInv(k)' /\ dpo'[k] \in DpoState /\ wrdCntr'[k] \in 0..MaxPkt
                     /\ tmOutCntr'[k] \in 0..MaxTimeout - 1
  BY <1>1, CountStep
<1>3. ArbInv' /\ DpiInv' /\ BusInv' /\ \A k \in Out : Pipe(k)'
  BY <1>1, ArbStep, DpiStep, BusStep, PipeStep
<1>4. \A k \in Out : /\ nread'[k] \in 0..MaxPkt /\ sent'[k] \in 0..MaxPkt /\ held'[k] \in 0..Depth
  <2> SUFFICES ASSUME NEW k \in Out
               PROVE  nread'[k] \in 0..MaxPkt /\ sent'[k] \in 0..MaxPkt /\ held'[k] \in 0..Depth
    OBVIOUS
  <2>1. /\ held'[k] = (IF dpo[k] \in Reading THEN held[k] - 1 ELSE held[k])
        /\ dpo[k] \in Reading => held[k] > 0
    BY <1>1, PortClock DEF CountInv
  <2>2. held[k] \in 0..Depth /\ Depth \in Nat /\ MaxPkt \in Nat /\ MaxPkt >= 5
    BY <1>1, UsbIfAssumption DEF TypeOK
  <2>3. nread'[k] \in Nat /\ sent'[k] \in Nat
    BY <1>1 DEF Clock, DpoClock, TypeOK
  <2>4. dpo'[k] # "IDLE" => nread'[k] = wrdCntr'[k] + Ahead(dpo'[k]) /\ sent'[k] <= wrdCntr'[k]
    BY <1>2, <2>3 DEF CountInv
  <2>5. dpo'[k] = "IDLE" => nread'[k] = 0 /\ sent'[k] = 0
    BY <1>2 DEF CountInv
  <2>6. dpo'[k] # "IDLE" => wrdCntr'[k] + Ahead(dpo'[k]) <= MaxPkt
    <3>1. wrdCntr'[k] <= AtMost(dpo'[k]) /\ wrdCntr'[k] \in Nat /\ dpo'[k] \in DpoState
      BY <1>2 DEF CountInv
    <3>2. AtMost(dpo'[k]) + Ahead(dpo'[k]) <= MaxPkt /\ Ahead(dpo'[k]) \in Int /\ AtMost(dpo'[k]) \in Int
      BY <2>2, <3>1, AheadIs, AtMostIs DEF DpoState, Reading, Writing
    <3> QED
      BY <2>2, <3>1, <3>2
  <2> QED
    BY <1>2, <2>1, <2>2, <2>3, <2>4, <2>5, <2>6
<1>5. arb' \in [at : {"IDLE", "STRT", "WT_DONE"}, port : 0..NOut]
  BY <1>1, ArbType DEF Clock
<1>6. SLWR' \in BOOLEAN /\ PKTEND' \in BOOLEAN
  BY DEF Clock, BusClock
<1>7. /\ dpi' \in DpiState /\ dpiCntr' \in 0..MaxWords
      /\ full0' \in 0..Depth /\ fx3' \in 0..Depth /\ flag0' \in BOOLEAN
  BY <1>1, DpiStep
<1>8. /\ dpo' \in [Out -> DpoState] /\ held' \in [Out -> 0..Depth]
      /\ wrdCntr' \in [Out -> 0..MaxPkt] /\ tmOutCntr' \in [Out -> 0..MaxTimeout - 1]
      /\ nread' \in [Out -> 0..MaxPkt] /\ sent' \in [Out -> 0..MaxPkt]
  BY <1>2, <1>4 DEF Clock, DpoClock
<1> QED
  BY <1>2, <1>3, <1>5, <1>6, <1>7, <1>8 DEF Inv, TypeOK

LEMMA OutsideStep == Inv /\ [Next]_vars /\ ~Clock => Inv'
<1> SUFFICES ASSUME Inv, [Next]_vars, ~Clock
             PROVE  Inv'
  OBVIOUS
<1>0. Depth \in Nat
  BY UsbIfAssumption
<1>1. /\ UNCHANGED <<arb, dpi, dpiCntr, flag0, dpo, wrdCntr, tmOutCntr, fetched, dout, bus, nread, sent>>
      /\ full0' \in 0..Depth /\ full0' <= full0 /\ fx3' \in 0..Depth /\ fx3' >= fx3
      /\ held' \in [Out -> 0..Depth] /\ \A k \in Out : held'[k] >= held[k]
  <2>0. /\ full0 \in 0..Depth /\ fx3 \in 0..Depth /\ held \in [Out -> 0..Depth]
    BY DEF Inv, TypeOK
  <2>1. CASE Consume
    BY <1>0, <2>0, <2>1 DEF Consume, outVars
  <2>2. CASE HostSends
    BY <1>0, <2>0, <2>2 DEF HostSends, outVars
  <2>3. ASSUME NEW k \in Out, Produce(k)
        PROVE  <1>1!:
    BY <1>0, <2>0, <2>3 DEF Produce, inVars
  <2>4. ASSUME NEW k \in Out, HostReads(k)
        PROVE  <1>1!:
    BY <1>0, <2>0, <2>4 DEF HostReads, inVars, outVars
  <2>5. CASE UNCHANGED vars
    BY <1>0, <2>0, <2>5 DEF vars, inVars, outVars
  <2> QED
    BY <2>1, <2>2, <2>3, <2>4, <2>5 DEF Next
<1>2. TypeOK' /\ ArbInv' /\ BusInv'
  BY <1>1 DEF Inv, TypeOK, ArbInv, BusInv, bus
<1>3. DpiInv'
  BY <1>0, <1>1 DEF Inv, TypeOK, DpiInv
<1>4. ASSUME NEW k \in Out
      PROVE  CountInv(k)' /\ Pipe(k)'
  <2>1. CountInv(k) /\ Pipe(k) /\ held[k] \in Nat /\ held'[k] \in Nat /\ held'[k] >= held[k]
    BY <1>0, <1>1 DEF Inv, TypeOK
  <2>2. /\ UNCHANGED <<dpo, wrdCntr, tmOutCntr, fetched, dout, nread, sent, SLWR, PKTEND, DQ_o_r>>
    BY <1>1 DEF bus
  <2>3. held[k] > 0 => held'[k] > 0
    BY <2>1
  <2>4. CountInv(k)'
    BY <2>1, <2>2, <2>3 DEF CountInv
  <2>5. Pipe(k)'
    BY <2>1, <2>2 DEF Pipe
  <2> QED
    BY <2>4, <2>5
<1> QED
  BY <1>2, <1>3, <1>4 DEF Inv

LEMMA InvInit == Init => Inv
<1> SUFFICES ASSUME Init PROVE Inv
  OBVIOUS
<1> USE UsbIfAssumption DEF Init
<1>1. /\ dpo \in [Out -> DpoState] /\ held \in [Out -> 0..Depth]
      /\ wrdCntr \in [Out -> 0..MaxPkt] /\ tmOutCntr \in [Out -> 0..MaxTimeout - 1]
      /\ nread \in [Out -> 0..MaxPkt] /\ sent \in [Out -> 0..MaxPkt]
  BY DEF DpoState
<1>2. TypeOK
  <2>1. arb \in [at : {"IDLE", "STRT", "WT_DONE"}, port : 0..NOut]
    OBVIOUS
  <2>2. SLWR \in BOOLEAN /\ PKTEND \in BOOLEAN /\ flag0 \in BOOLEAN
    OBVIOUS
  <2>3. dpi \in DpiState /\ dpiCntr \in 0..MaxWords /\ full0 \in 0..Depth /\ fx3 \in 0..Depth
    BY DEF DpiState
  <2> QED
    BY <1>1, <2>1, <2>2, <2>3 DEF TypeOK
<1>3. ArbInv /\ DpiInv /\ BusInv
  BY DEF ArbInv, DpiInv, BusInv
<1>4. ASSUME NEW k \in Out
      PROVE  CountInv(k) /\ Pipe(k)
  <2>1. /\ dpo[k] = "IDLE" /\ wrdCntr[k] = 0 /\ nread[k] = 0 /\ sent[k] = 0
    OBVIOUS
  <2> QED
    BY <2>1, AtMostIs DEF CountInv, Pipe, Reading, Writing
<1> QED
  BY <1>2, <1>3, <1>4 DEF Inv

LEMMA Invariance == Spec => []Inv
<1>1. Inv /\ [Next]_vars => Inv'
  BY ClockStep, OutsideStep
<1> QED
  BY <1>1, InvInit, PTL DEF Spec

\* The counters stay in their ranges: a packet never exceeds the buffer of the
\* FX3, for any size of it.
THEOREM TypeCorrect == Spec => []TypeOK
<1>1. Inv => TypeOK
  BY DEF Inv
<1> QED
  BY <1>1, Invariance, PTL

\* No FIFO is read while empty or written while full, and the FX3 is never asked
\* for a word it does not have, whenever words come and go.
THEOREM FifosRespected == Spec => []NoFifoMisuse
<1>1. Inv => NoFifoMisuse
  BY DEF Inv, NoFifoMisuse, CountInv, DpiInv
<1> QED
  BY <1>1, Invariance, PTL

\* A visit of a port puts its words on the bus each once, in order and with the
\* address of the port, and ends the packet with the last one: the states of
\* dpo_fsm and the pipeline stay in step for every length of a packet.
THEOREM PacketsComplete == Spec => []PacketComplete
<1>1. Inv => PacketComplete
  <2> SUFFICES ASSUME Inv PROVE PacketComplete
    OBVIOUS
  <2>1. ASSUME NEW k \in Out, dpo[k] = "DONE"
        PROVE  nread[k] = (IF SLWR THEN sent[k] + 1 ELSE 0) /\ SLWR = PKTEND
    <3>1. /\ nread[k] = wrdCntr[k] + Ahead("DONE") /\ wrdCntr[k] = sent[k] + (IF SLWR THEN 1 ELSE 0)
          /\ (SLWR <=> PKTEND) /\ (SLWR \/ wrdCntr[k] = 0)
      BY <2>1 DEF Inv, CountInv
    <3>2. SLWR = PKTEND /\ wrdCntr[k] \in Nat
      BY <3>1 DEF Inv, TypeOK
    <3> QED
      BY <3>1, <3>2, AheadIs
  <2> QED
    BY <2>1 DEF Inv, BusInv, PacketComplete
<1> QED
  BY <1>1, Invariance, PTL
=============================================================================
