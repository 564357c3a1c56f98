------------------------------- MODULE UsbIf --------------------------------
(***************************************************************************)
(* The USB interface of the readout unit: fx3_ctrl with its arbiter        *)
(* (dp_arbtr), the machine that takes words from the FX3 (dpi_fsm, data    *)
(* port 0) and those that send words to it (dpo_fsm, data ports 1 to 3).   *)
(* Clock is one cycle of the interface's clock.  Words come into the FIFOs *)
(* and leave them, and the FX3 changes its flags, at any time between two  *)
(* edges; the FIFOs and the FX3 are external.                              *)
(*                                                                         *)
(* A word takes four cycles from the FIFO to the bus, its write strobe one *)
(* cycle from the machine to the bus: the states of dpo_fsm bring the two  *)
(* together.  Words are numbered within the visit of the arbiter, 0 is a   *)
(* word of an earlier one.                                                 *)
(***************************************************************************)
EXTENDS Integers

CONSTANTS
  NOut,         \* data ports that send (3)
  MaxPkt,       \* MAX_PKT_SIZE (256)
  MaxTimeout,   \* MAX_TIMEOUT (16)
  MaxWords,     \* MAX_WRD_PER_TRANS (8)
  Depth         \* words a FIFO or the FX3 holds (1024)

ASSUME UsbIfAssumption ==
  /\ NOut \in Nat \ {0} /\ MaxPkt \in Nat /\ MaxPkt >= 5
  /\ MaxTimeout \in Nat /\ MaxTimeout >= 4
  /\ MaxWords \in Nat \ {0} /\ Depth \in Nat \ {0, 1}

Out == 1..NOut

VARIABLES
  arb,          \* dp_arbtr: state and data port
  dpi, dpiCntr, \* dpi_fsm: state_r and wrdCntr_w
  dpo, wrdCntr, tmOutCntr,  \* per sending port, dpo_fsm
  full0,        \* words in the FIFO of DP0
  held,         \* per sending port, words in its FIFO
  fetched, dout,  \* per sending port, the word read in the last cycle, the FIFO's output
  DQ_o_r, DQ_o, SLWR, PKTEND,  \* registers between ports and FX3 (strobes: TRUE is low)
  fx3, flag0,   \* words in the FX3 for DP0; FLAGA_r: there is none
  flag,         \* per sending port, FLAGx_r: the FX3 has room for a packet
  nread, sent   \* history: words of the visit read and written to the FX3

inVars  == <<dpi, dpiCntr, full0, fx3, flag0>>
outVars == <<dpo, wrdCntr, tmOutCntr, held, fetched, dout>>
bus     == <<DQ_o_r, DQ_o, SLWR, PKTEND>>
vars == <<arb, inVars, outVars, bus, flag, nread, sent>>

Reading == {"FIFO_RD_STRT", "FIFO_RD_WT_1", "FIFO_RD_WT_2", "FX3_WR_DT"}
Writing == {"FX3_WR_DT", "FX3_WR_DT_SL_1", "FX3_WR_DT_SL_2", "WR_LST_WRD", "FLSH_PPLN_1",
            "FLSH_PPLN_2", "WR_REM_WRD"}
DpoState == Reading \cup Writing
            \cup {"IDLE", "FIFO_NF_PPLN", "TIME_OUT_CNT", "FLSH_PPLN_3", "DONE"}
DpiState == {"IDLE", "FX3_RD_REQ", "FX3_DT_WT", "FX3_LTCH_DT", "FIFO_WR_DT", "FX3_WT_FLG",
             "CHK_FLG", "DONE"}

Init ==
  /\ arb = [at |-> "IDLE", port |-> 0]
  /\ dpi = "IDLE" /\ dpiCntr = 0 /\ full0 = 0 /\ fx3 = 0 /\ flag0 = TRUE
  /\ dpo = [k \in Out |-> "IDLE"]
  /\ wrdCntr = [k \in Out |-> 0] /\ tmOutCntr = [k \in Out |-> 0]
  /\ held = [k \in Out |-> 0] /\ fetched = [k \in Out |-> 0] /\ dout = [k \in Out |-> 0]
  /\ DQ_o_r = <<1, 0>> /\ DQ_o = <<1, 0>> /\ SLWR = FALSE /\ PKTEND = FALSE
  /\ flag = [k \in Out |-> FALSE]
  /\ nread = [k \in Out |-> 0] /\ sent = [k \in Out |-> 0]

-----------------------------------------------------------------------------
\* dp_arbtr: start a port, wait until it is done, go on to the next one.
Start(k) == arb = [at |-> "STRT", port |-> k]
Finished == IF arb.port = 0 THEN dpi = "DONE" ELSE dpo[arb.port] = "DONE"
ArbNext ==
  CASE arb.at = "IDLE" -> [at |-> "STRT", port |-> 0]
    [] arb.at = "STRT" -> [arb EXCEPT !.at = "WT_DONE"]
    [] arb.at = "WT_DONE" /\ Finished -> [at |-> "STRT", port |-> (arb.port + 1) % (NOut + 1)]
    [] OTHER           -> arb
\* The port whose strobes and data the arbiter passes on (dpoMuxSel_o).
Mux(a) == IF a.port = 0 THEN 1 ELSE a.port

-----------------------------------------------------------------------------
\* dpi_fsm
\* Mutant: the FIFO is only looked at when the visit begins.
DpiStopsBlind == dpiCntr > MaxWords - 1
DpiStops == dpiCntr > MaxWords - 1 \/ full0 = Depth
DpiNext ==
  CASE dpi = "IDLE"        -> IF ~Start(0) THEN "IDLE"
                              ELSE IF ~flag0 /\ full0 < Depth THEN "FX3_RD_REQ" ELSE "DONE"
    [] dpi = "FX3_RD_REQ"  -> "FX3_DT_WT"
    [] dpi = "FX3_DT_WT"   -> "FX3_LTCH_DT"
    [] dpi = "FX3_LTCH_DT" -> "FIFO_WR_DT"
    [] dpi = "FIFO_WR_DT"  -> "FX3_WT_FLG"
    [] dpi = "FX3_WT_FLG"  -> IF DpiStops THEN "DONE" ELSE "CHK_FLG"
    [] dpi = "CHK_FLG"     -> IF flag0 THEN "DONE" ELSE "FX3_RD_REQ"
    [] dpi = "DONE"        -> "IDLE"

DpiClock ==
  /\ dpi' = DpiNext
  /\ dpiCntr' = IF dpi = "IDLE" THEN 0 ELSE IF dpi = "FIFO_WR_DT" THEN dpiCntr + 1 ELSE dpiCntr
  /\ fx3' = IF dpi = "FX3_RD_REQ" /\ fx3 > 0 THEN fx3 - 1 ELSE fx3
  /\ full0' = IF dpi = "FIFO_WR_DT" /\ full0 < Depth THEN full0 + 1 ELSE full0
  /\ flag0' = (fx3 = 0)

-----------------------------------------------------------------------------
\* dpo_fsm
AlmostEmpty(k) == held[k] <= 1

\* Mutants: a port waits until the FX3 has room; the remaining word is not
\* waited for.
StartsPatient(k) == IF Start(k) /\ flag[k] /\ held[k] > 0 THEN "FIFO_RD_STRT" ELSE "IDLE"
Starts(k) ==
  IF ~Start(k) THEN "IDLE" ELSE IF flag[k] /\ held[k] > 0 THEN "FIFO_RD_STRT" ELSE "DONE"

RemainsAtOnce(k) == held[k] > 0
Remains(k) == held[k] > 0 /\ tmOutCntr[k] > 0
TimesOut(k) ==
  CASE wrdCntr[k] >= MaxPkt - 1 -> "FLSH_PPLN_3"
    [] wrdCntr[k] < MaxPkt - 1 /\ tmOutCntr[k] >= MaxTimeout - 2 -> "WR_LST_WRD"
    [] OTHER -> IF Remains(k) THEN "WR_REM_WRD" ELSE "TIME_OUT_CNT"

\* Mutant: only the FIFO ends a burst.
LastOfFifo(k, left) == AlmostEmpty(k)
Last(k, left) == AlmostEmpty(k) \/ wrdCntr[k] = MaxPkt - left
DpoNext(k) ==
  CASE dpo[k] = "IDLE"           -> Starts(k)
    [] dpo[k] = "FIFO_RD_STRT"   -> IF Last(k, 1) THEN "TIME_OUT_CNT" ELSE "FIFO_RD_WT_1"
    [] dpo[k] = "FIFO_RD_WT_1"   -> IF Last(k, 2) THEN "FIFO_NF_PPLN" ELSE "FIFO_RD_WT_2"
    [] dpo[k] = "FIFO_NF_PPLN"   -> "FLSH_PPLN_2"
    [] dpo[k] = "FIFO_RD_WT_2"   -> IF Last(k, 3) THEN "FLSH_PPLN_1" ELSE "FX3_WR_DT"
    [] dpo[k] = "FX3_WR_DT"      -> IF wrdCntr[k] > MaxPkt - 5 THEN "FX3_WR_DT_SL_1"
                                    ELSE IF AlmostEmpty(k) THEN "FLSH_PPLN_1" ELSE "FX3_WR_DT"
    [] dpo[k] = "FX3_WR_DT_SL_1" -> "FX3_WR_DT_SL_2"
    [] dpo[k] = "FX3_WR_DT_SL_2" -> "WR_LST_WRD"
    [] dpo[k] = "FLSH_PPLN_1"    -> "FLSH_PPLN_2"
    [] dpo[k] = "FLSH_PPLN_2"    -> "TIME_OUT_CNT"
    [] dpo[k] = "TIME_OUT_CNT"   -> TimesOut(k)
    [] dpo[k] = "FLSH_PPLN_3"    -> "WR_LST_WRD"
    [] dpo[k] = "WR_REM_WRD"     -> "FIFO_RD_STRT"
    [] dpo[k] = "WR_LST_WRD"     -> "DONE"
    [] dpo[k] = "DONE"           -> "IDLE"

\* Counters: cleared and counted by state.
WrdCntrNext(k) == IF dpo[k] = "IDLE" THEN 0
                  ELSE IF dpo[k] \in Writing THEN wrdCntr[k] + 1 ELSE wrdCntr[k]
TmOutCntrNext(k) == IF dpo[k] \in {"IDLE", "FIFO_RD_STRT", "WR_REM_WRD"} THEN 0
                    ELSE IF dpo[k] = "TIME_OUT_CNT" THEN tmOutCntr[k] + 1 ELSE tmOutCntr[k]

\* The FIFO gives a word two cycles after it is read.
Reads(k) == dpo[k] \in Reading /\ held[k] > 0
EndsVisit(k) == dpo[k] = "DONE"
DpoClock ==
  /\ dpo' = [k \in Out |-> DpoNext(k)]
  /\ wrdCntr' = [k \in Out |-> WrdCntrNext(k)]
  /\ tmOutCntr' = [k \in Out |-> TmOutCntrNext(k)]
  /\ held' = [k \in Out |-> IF Reads(k) THEN held[k] - 1 ELSE held[k]]
  /\ fetched' = [k \in Out |-> IF Reads(k) THEN nread[k] + 1 ELSE 0]
  /\ dout' = [k \in Out |-> IF EndsVisit(k) THEN 0
                            ELSE IF fetched[k] # 0 THEN fetched[k] ELSE dout[k]]
  /\ nread' = [k \in Out |-> IF EndsVisit(k) THEN 0 ELSE IF Reads(k) THEN nread[k] + 1 ELSE nread[k]]
  /\ sent' = [k \in Out |-> IF EndsVisit(k) THEN 0
                            ELSE IF SLWR /\ arb.port = k THEN sent[k] + 1 ELSE sent[k]]

\* fx3_ctrl and dp_arbtr: the registers before the pins
BusClock ==
  /\ DQ_o_r' = <<Mux(arb), dout[Mux(arb)]>> /\ DQ_o' = DQ_o_r
  /\ LET k == Mux(ArbNext) IN /\ SLWR' = (dpo[k] \in Writing)
                              /\ PKTEND' = (dpo[k] = "WR_LST_WRD")

Clock == arb' = ArbNext /\ DpiClock /\ DpoClock /\ BusClock /\ UNCHANGED flag

-----------------------------------------------------------------------------
\* Outside, between two edges.
Produce(k) == /\ held[k] < Depth /\ held' = [held EXCEPT ![k] = @ + 1]
              /\ UNCHANGED <<arb, inVars, dpo, wrdCntr, tmOutCntr, fetched, dout, bus, flag, nread, sent>>
Consume    == /\ full0 > 0 /\ full0' = full0 - 1
              /\ UNCHANGED <<arb, dpi, dpiCntr, fx3, flag0, outVars, bus, flag, nread, sent>>
HostSends  == /\ fx3 < Depth /\ fx3' = fx3 + 1
              /\ UNCHANGED <<arb, dpi, dpiCntr, full0, flag0, outVars, bus, flag, nread, sent>>
HostReads(k) == /\ flag' = [flag EXCEPT ![k] = ~@]
                /\ UNCHANGED <<arb, inVars, outVars, bus, nread, sent>>

Next == \/ Clock \/ Consume \/ HostSends
        \/ \E k \in Out : Produce(k) \/ HostReads(k)

\* The clock runs; nothing is assumed of the host and the FIFOs.
Spec == Init /\ [][Next]_vars /\ WF_vars(Clock)

-----------------------------------------------------------------------------
\* Type correctness; a packet never exceeds the buffer of the FX3, and the
\* counters do not run away.
TypeOK ==
  /\ arb \in [at : {"IDLE", "STRT", "WT_DONE"}, port : 0..NOut]
  /\ SLWR \in BOOLEAN /\ PKTEND \in BOOLEAN /\ flag0 \in BOOLEAN
  /\ dpi \in DpiState /\ dpiCntr \in 0..MaxWords
  /\ full0 \in 0..Depth /\ fx3 \in 0..Depth
  /\ dpo \in [Out -> DpoState] /\ held \in [Out -> 0..Depth]
  /\ wrdCntr \in [Out -> 0..MaxPkt] /\ tmOutCntr \in [Out -> 0..MaxTimeout - 1]
  /\ nread \in [Out -> 0..MaxPkt] /\ sent \in [Out -> 0..MaxPkt]

\* dpo_fsm, "push the data through the pipeline": whatever comes into the FIFO
\* at whatever time, the words of a visit are on the bus each once, in order
\* and with the address of their port, and the last one, and only that one,
\* ends the packet.
PacketComplete ==
  /\ SLWR => DQ_o = <<arb.port, sent[arb.port] + 1>>
  /\ PKTEND => SLWR /\ dpo[arb.port] = "DONE"
  /\ \A k \in Out : dpo[k] = "DONE" =>
       nread[k] = (IF SLWR THEN sent[k] + 1 ELSE 0) /\ SLWR = PKTEND

\* usb_if_wrpr, "DP1 Fifo read while empty", "DP0 Fifo write while full"; and
\* the FX3 is only asked for words it has.
NoFifoMisuse ==
  /\ \A k \in Out : dpo[k] \in Reading => held[k] > 0
  /\ dpi = "FIFO_WR_DT" => full0 < Depth
  /\ dpi = "FX3_RD_REQ" => fx3 > 0

\* A host that reads a port gets its words, also when it does not read the
\* others, and whatever comes in on DP0.
PortServed ==
  \A k \in Out : <>[]flag[k] => []<>(held[k] = 0 \/ dpo[k] \in Reading)
=============================================================================
