------------------------------- MODULE Canola -------------------------------
(***************************************************************************)
(* Canola CAN controllers on one bus (modules/dcs_canbus/source/rtl/       *)
(* canola): the transmit and receive frame machines, the bit stream        *)
(* processor's error flags and the error management counters of every      *)
(* node.  All nodes move through a frame together, one field per step:     *)
(* fields that every machine treats alike (R0, DLC, data, CRC, and RTR, R1 *)
(* of an extended frame) are one field, BODY, and the end of frame is      *)
(* split where the receivers stop looking.  A disturbance makes one node   *)
(* see a wrong level in one field; it never hides a lost arbitration and   *)
(* spares the start of frame of a receiver and the error flags themselves. *)
(***************************************************************************)
EXTENDS Integers, FiniteSets

CONSTANTS
  Node,            \* controllers on the bus
  Msg,             \* messages their users send: [src, ida, ext, idb]
  NoMsg,           \* no message in hand
  OneShot,         \* nodes whose CTRL register has TX_RETRANSMIT_EN = 0
  RetransmitMax,   \* G_RETRANSMIT_COUNT_MAX
  TecStep,         \* C_TEC_BIT_ERROR_INCREASE, also for a missing ACK
  Passive,         \* C_ERROR_PASSIVE_THRESHOLD
  BusOff,          \* C_BUS_OFF_THRESHOLD
  RecJump,         \* C_REC_SUCCES_ERROR_PASSIVE_JUMP_VALUE
  Recovery,        \* C_11_RECESSIVE_EXIT_BUS_OFF_THRESHOLD
  CountMax,        \* largest value of an error counter: 2^C_ERROR_COUNT_LENGTH - 1
  MaxFaults        \* bound on disturbances

ASSUME ThresholdsOrdered ==
  /\ {RetransmitMax, TecStep, Passive, BusOff, RecJump, Recovery, CountMax, MaxFaults} \subseteq Nat
  /\ 0 < RecJump /\ RecJump < Passive /\ Passive < BusOff /\ BusOff <= CountMax
ASSUME MessagesKnown ==
  /\ IsFiniteSet(Node) /\ IsFiniteSet(Msg) /\ NoMsg \notin Msg
  /\ Msg \subseteq [src : Node, ida : Nat, ext : BOOLEAN, idb : Nat]

VARIABLES
  field,     \* field of the frame on the bus, or "idle"
  jam,       \* an active error flag is on the bus
  tx,        \* tx[n]: state of the frame transmit machine
  cur,       \* cur[n]: s_reg_tx_msg, the message in hand
  attempts,  \* attempts[n]: s_retransmit_attempts
  rx,        \* rx[n]: state of the frame receive machine
  crcBad,    \* crcBad[n]: s_crc_mismatch
  won,       \* won[n]: s_reg_tx_arb_won
  tec, rec,  \* error counters
  quiet,     \* quiet[n]: RECESSIVE_BIT_COUNT_VALUE
  frame,     \* message that won the arbitration of this frame
  pending,   \* messages not yet handed to a controller
  done,      \* messages reported with TX_DONE
  failed,    \* messages reported with TX_FAILED
  got,       \* got[n][m]: times RX_MSG_VALID was pulsed for m, at most 2 counted
  weak,      \* nodes that have not been error active all the time
  faults     \* disturbances so far

bus    == <<field, jam>>
txVars == <<tx, cur, attempts>>
rxVars == <<rx, crcBad, won>>
eml    == <<tec, rec, quiet>>
hist   == <<frame, pending, done, failed, got, weak, faults>>
vars   == <<bus, txVars, rxVars, eml, hist>>

Stuffed == {"SOF", "ID_A", "SRR_RTR", "IDE", "ID_B", "BODY", "CRC_DELIM"}
Fixed   == {"ACK_SLOT", "ACK_DELIM", "EOF", "EOF_6", "EOF_7"}

TypeOK ==
  /\ field \in Stuffed \cup Fixed \cup {"idle"} /\ jam \in BOOLEAN
  /\ tx \in [Node -> {"IDLE", "WAIT", "SEND"}] /\ rx \in [Node -> {"IDLE", "RECV", "OUT"}]
  /\ cur \in [Node -> Msg \cup {NoMsg}] /\ attempts \in [Node -> 0 .. RetransmitMax]
  /\ crcBad \in [Node -> BOOLEAN] /\ won \in [Node -> BOOLEAN]
  /\ tec \in [Node -> 0 .. CountMax] /\ rec \in [Node -> 0 .. CountMax]
  /\ quiet \in [Node -> 0 .. Recovery]
  /\ frame \in Msg \cup {NoMsg} /\ pending \subseteq Msg /\ done \subseteq Msg /\ failed \subseteq Msg
  /\ got \in [Node -> [Msg -> 0 .. 2]] /\ weak \subseteq Node /\ faults \in 0 .. MaxFaults

Init ==
  /\ field = "idle" /\ jam = FALSE
  /\ tx = [n \in Node |-> "IDLE"] /\ cur = [n \in Node |-> NoMsg] /\ attempts = [n \in Node |-> 0]
  /\ rx = [n \in Node |-> "IDLE"]
  /\ crcBad = [n \in Node |-> FALSE] /\ won = [n \in Node |-> FALSE]
  /\ tec = [n \in Node |-> 0] /\ rec = [n \in Node |-> 0] /\ quiet = [n \in Node |-> 0]
  /\ frame = NoMsg /\ pending = Msg /\ done = {} /\ failed = {}
  /\ got = [n \in Node |-> [m \in Msg |-> 0]] /\ weak = {} /\ faults = 0

(***************************************************************************)
(* Error management: the state follows from the counters.                  *)
(***************************************************************************)
ErrorState(n) ==
  IF tec[n] >= BusOff THEN "BUS_OFF"
  ELSE IF tec[n] >= Passive \/ rec[n] >= Passive THEN "ERROR_PASSIVE" ELSE "ERROR_ACTIVE"

Cap(k) == IF k > CountMax THEN CountMax ELSE k
Less(k) == IF k = 0 THEN 0 ELSE k - 1

TecAfter(n, bitError, ackError, success) ==
  IF bitError \/ (ackError /\ ErrorState(n) = "ERROR_ACTIVE") THEN Cap(tec[n] + TecStep)
  ELSE IF success THEN Less(tec[n]) ELSE tec[n]

RecAfter(n, error, success) ==
  IF error THEN Cap(rec[n] + 1)
  ELSE IF ~success THEN rec[n]
  ELSE IF rec[n] >= Passive THEN RecJump ELSE Less(rec[n])

(***************************************************************************)
(* Levels on the bus.  A node that sends a field sees a mismatch when      *)
(* another sends a lower value: identifiers compare bit by bit, most       *)
(* significant first, so the lowest one is what the bus carries.           *)
(***************************************************************************)
Sender == {n \in Node : tx[n] = "SEND"}
Value(n, f) == CASE f = "ID_A"               -> cur[n].ida
                 [] f \in {"SRR_RTR", "IDE"} -> IF cur[n].ext THEN 1 ELSE 0
                 [] f = "ID_B"               -> cur[n].idb
                 [] f \in Fixed \cup {"CRC_DELIM"} -> 1
                 [] OTHER                    -> 0

Overruled(n) == IF field \in {"ID_A", "SRR_RTR", "IDE", "ID_B"} /\ ~jam
                THEN \E k \in Sender : Value(k, field) < Value(n, field)
                ELSE jam
Acking(n) == rx[n] = "RECV" /\ ~crcBad[n] /\ ~won[n]

(***************************************************************************)
(* The fields of a frame in order.  Those that remain on the bus after     *)
(* IDE agree on the format; when nobody remains the bus is recessive.      *)
(***************************************************************************)
NextField(S) ==
  CASE field = "SOF" -> "ID_A"          [] field = "ID_A" -> "SRR_RTR"
    [] field = "SRR_RTR" -> "IDE"       [] field = "ID_B" -> "BODY"
    [] field = "IDE" -> IF \E n \in S : cur[n].ext THEN "ID_B" ELSE "BODY"
    [] field = "BODY" -> "CRC_DELIM"    [] field = "CRC_DELIM" -> "ACK_SLOT"
    [] field = "ACK_SLOT" -> "ACK_DELIM" [] field = "ACK_DELIM" -> "EOF"
    [] field = "EOF" -> "EOF_6"         [] field = "EOF_6" -> "EOF_7"
    [] OTHER -> "idle"

\* Fields in which a sender that is overruled has lost the arbitration.
\* Mutant: the second part of an extended identifier is not one of them.
ArbitratesBase(n) == field = "ID_A" \/ (field = "IDE" /\ cur[n].ext)
Arbitrates(n) == field \in {"ID_A", "ID_B"} \/ (field = "IDE" /\ cur[n].ext)

\* ST_RETRANSMIT gives the message up.
Exhausted(n) == n \in OneShot \/ attempts[n] = RetransmitMax

\* BSP_SEND_ERROR_FLAG, from either machine.  Mutant: from the sender's only.
RaisesFlagSender(n, t, r) == t \in {"bitError", "ackError"}
RaisesFlag(n, t, r) ==
  t \in {"bitError", "ackError"} \/ (r \in {"error", "ackBitError"} /\ ~won[n])

(***************************************************************************)
(* What the transmit machine of a sender makes of this field, when the     *)
(* nodes of D see a wrong level.  Losing the SRR bit of an extended frame  *)
(* to a standard frame is a bit error here, not a lost arbitration.  A     *)
(* wrong stuff bit is a mismatch like any other: the bit stream processor  *)
(* clears s_tx_stuff_bit one state before it looks at it, so that the      *)
(* BSP_TX_RX_STUFF_MISMATCH that ST_SEND_ID_A asks for never comes.        *)
(***************************************************************************)
TxOutcome(n, D) ==
  LET mismatch == Overruled(n) \/ n \in D
      acked == (jam \/ \E k \in Node : Acking(k)) # (n \in D) IN
  CASE field = "ACK_SLOT" -> IF acked THEN "ok" ELSE "ackError"
    [] field # "ACK_SLOT" /\ ~mismatch -> IF field = "EOF_7" THEN "done" ELSE "ok"
    [] OTHER -> IF Arbitrates(n) THEN "arbLost" ELSE "bitError"

(***************************************************************************)
(* What the receive machine makes of it: every node receives, a sender     *)
(* too.  In a stuffed field a wrong level is a stuff or form error at once *)
(* (garbled) or shows in the CRC; a recessive bus is a passive error flag. *)
(***************************************************************************)
RxOutcome(n, D, garbled) ==
  LET wrong == jam \/ n \in D IN
  CASE field \in Stuffed \ {"SOF", "CRC_DELIM"} ->
         IF jam \/ Sender = {} THEN "error"
         ELSE IF n \in D THEN IF garbled THEN "error" ELSE "crc"
         ELSE "ok"
    [] field = "SOF" -> "ok"
    [] field = "CRC_DELIM" -> IF wrong \/ Sender = {} THEN "error" ELSE "ok"
    [] field = "ACK_SLOT" -> IF Acking(n) /\ n \in D /\ ~jam THEN "ackBitError" ELSE "ok"
    [] field = "ACK_DELIM" -> IF crcBad[n] \/ (wrong /\ ~won[n]) THEN "error" ELSE "ok"
    [] field \in {"EOF", "EOF_6"} -> IF wrong THEN "error"
                                     ELSE IF field = "EOF_6" THEN "valid" ELSE "ok"
    [] OTHER -> "ok"

(***************************************************************************)
(* TX_START of a node whose transmit machine is idle.  Between frames: one *)
(* that comes during a frame waits for its end anyway.                     *)
(***************************************************************************)
TxStart(n, m) ==
  /\ field = "idle" /\ tx[n] = "IDLE" /\ m \in pending /\ m.src = n
  /\ ErrorState(n) # "BUS_OFF"
  /\ tx' = [tx EXCEPT ![n] = "WAIT"] /\ cur' = [cur EXCEPT ![n] = m]
  /\ attempts' = [attempts EXCEPT ![n] = 0]
  /\ pending' = pending \ {m}
  /\ UNCHANGED <<bus, rxVars, eml, frame, done, failed, got, weak, faults>>

(***************************************************************************)
(* Every machine that waits for an idle bus starts its frame; all receive. *)
(***************************************************************************)
StartFrame ==
  /\ field = "idle" /\ \E n \in Node : tx[n] = "WAIT"
  /\ field' = "SOF"
  /\ tx' = [n \in Node |-> IF tx[n] = "WAIT" THEN "SEND" ELSE tx[n]]
  /\ rx' = [n \in Node |-> "RECV"]
  /\ UNCHANGED <<jam, cur, attempts, crcBad, won, eml, hist>>

(***************************************************************************)
(* Whom a disturbance of this field can make a difference to, and who may  *)
(* notice it at once.                                                      *)
(***************************************************************************)
Exposed == IF field \in {"SOF", "EOF_7"} THEN Sender
           ELSE Sender \cup {n \in Node : rx[n] = "RECV"}
Garbled(D) == IF field \in Stuffed \ {"SOF", "CRC_DELIM"} THEN SUBSET D ELSE {{}}

(***************************************************************************)
(* One field, with t[n] and r[n] what the machines of n make of it.        *)
(* ST_RETRANSMIT follows every failed attempt, a lost arbitration included,*)
(* whatever the error state.                                               *)
(***************************************************************************)
Advance(t, r) ==
  LET Again == {n \in Node : t[n] \in {"arbLost", "bitError", "ackError"}}
      GiveUp == {n \in Again : Exhausted(n)}
      Finish == {n \in Node : t[n] = "done"}
      Valid  == {n \in Node : r[n] = "valid" /\ ~won[n]}
      RxError == {n \in Node : r[n] \in {"error", "ackBitError"}}
      Flag == {n \in Node : RaisesFlag(n, t[n], r[n])}
      Left == {n \in Node : t[n] = "ok"}
      In   == {n \in Node : r[n] \in {"ok", "crc"}}
      next == IF Left \cup In = {} THEN "idle" ELSE NextField(Left)
      Winner == IF next = "BODY" /\ field \in {"IDE", "ID_B"} THEN Left ELSE {}
  IN
  /\ jam' = (next # "idle" /\ (jam \/ \E n \in Flag : ErrorState(n) = "ERROR_ACTIVE"))
  /\ field' \in {next} \cup IF jam' /\ field \in {"ID_A", "ID_B"} THEN {field} ELSE {}
  /\ frame' = IF next = "idle" THEN NoMsg
              ELSE IF Winner # {} THEN cur[CHOOSE n \in Winner : TRUE] ELSE frame
  /\ tx' = [n \in Node |-> IF n \in GiveUp \cup Finish THEN "IDLE"
                           ELSE IF n \in Again THEN "WAIT" ELSE tx[n]]
  /\ attempts' = [n \in Node |-> IF n \in GiveUp \cup Finish THEN 0
                                 ELSE IF n \in Again THEN attempts[n] + 1 ELSE attempts[n]]
  /\ rx' = [n \in Node |-> IF next = "idle" THEN "IDLE"
                           ELSE IF n \in RxError \/ r[n] = "valid" THEN "OUT" ELSE rx[n]]
  /\ crcBad' = [n \in Node |-> next # "idle" /\ (crcBad[n] \/ r[n] = "crc")]
  /\ won' = [n \in Node |-> next # "idle" /\ (won[n] \/ n \in Winner)]
  /\ tec' = [n \in Node |-> TecAfter(n, t[n] = "bitError" \/ (r[n] = "ackBitError" /\ ~won[n]),
                                     t[n] = "ackError", n \in Finish)]
  /\ rec' = [n \in Node |-> RecAfter(n, r[n] = "error" /\ ~won[n], n \in Valid)]
  /\ got' = [n \in Node |-> [m \in Msg |->
               IF n \in Valid /\ frame = m /\ got[n][m] < 2 THEN got[n][m] + 1 ELSE got[n][m]]]
  /\ done' = done \cup {cur[n] : n \in Finish}
  /\ failed' = failed \cup {cur[n] : n \in GiveUp}
  /\ cur' = [n \in Node |-> IF n \in GiveUp \cup Finish THEN NoMsg ELSE cur[n]]
  /\ weak' = weak \cup {n \in Node : tec'[n] >= Passive \/ rec'[n] >= Passive}
  /\ UNCHANGED <<quiet, pending>>

(***************************************************************************)
(* The field with a wrong level at the nodes of D, of which those of G     *)
(* notice at once.                                                         *)
(***************************************************************************)
Field(D, G) ==
  /\ field # "idle" /\ faults + Cardinality(D) <= MaxFaults
  /\ faults' = faults + Cardinality(D)
  /\ \E t \in {[n \in Node |-> IF tx[n] = "SEND" THEN TxOutcome(n, D) ELSE "none"]},
        r \in {[n \in Node |-> IF rx[n] = "RECV" THEN RxOutcome(n, D, n \in G) ELSE "none"]} :
       Advance(t, r)

(***************************************************************************)
(* Eleven recessive bits on an idle bus: a node that is bus off counts     *)
(* them, and clears its counters when it has seen enough.                  *)
(***************************************************************************)
\* Mutant: the counters are not cleared.
ElevenRecessiveCounts(n) ==
  /\ field = "idle" /\ ErrorState(n) = "BUS_OFF" /\ quiet[n] < Recovery
  /\ quiet' = [quiet EXCEPT ![n] = @ + 1]
  /\ UNCHANGED <<bus, txVars, rxVars, tec, rec, hist>>
ElevenRecessive(n) ==
  /\ field = "idle" /\ ErrorState(n) = "BUS_OFF"
  /\ IF quiet[n] = Recovery
     THEN /\ tec' = [tec EXCEPT ![n] = 0] /\ rec' = [rec EXCEPT ![n] = 0]
          /\ quiet' = [quiet EXCEPT ![n] = 0]
     ELSE quiet' = [quiet EXCEPT ![n] = @ + 1] /\ UNCHANGED <<tec, rec>>
  /\ UNCHANGED <<bus, txVars, rxVars, hist>>

Next ==
  \/ \E m \in Msg : TxStart(m.src, m)
  \/ StartFrame
  \/ \E D \in SUBSET Exposed : \E G \in Garbled(D) : Field(D, G)
  \/ \E n \in Node : ElevenRecessive(n)

(***************************************************************************)
(* The clock runs: time passes on the bus, and a user with a message asks. *)
(***************************************************************************)
Spec == Init /\ [][Next]_vars /\ WF_vars(Next)

(***************************************************************************)
(* Properties.                                                             *)
(***************************************************************************)
\* TX_DONE is a promise about the others: every node that has been error
\* active throughout has the message (acknowledging and error flags; a node
\* with a passive flag cannot make the sender repeat it).
DoneMeansReceived ==
  \A m \in done : \A n \in Node \ ({m.src} \cup weak) : got[n][m] > 0

\* Arbitration is not an error: on an undisturbed bus no counter moves, every
\* message arrives once, and none is given up while the retransmissions are
\* enough for every other message to go first (can_hlp_pkg.vhd:82), unless
\* its node was told not to retransmit.
CleanBus ==
  faults = 0 =>
    /\ \A n \in Node : tec[n] = 0 /\ rec[n] = 0 /\ \A m \in Msg : got[n][m] <= 1
    /\ Cardinality(Msg) <= RetransmitMax + 1 => \A m \in failed : m.src \in OneShot

\* Whatever is disturbed, a message handed to a controller is reported, done
\* or failed: by the bound on retransmissions, and also after a bus off.
Reported == <>(done \cup failed = Msg)
=============================================================================
