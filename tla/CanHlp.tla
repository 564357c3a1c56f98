------------------------------- MODULE CanHlp --------------------------------
(***************************************************************************)
(* The readout unit's end of the CAN bus High Level Protocol: the state    *)
(* machine can_hlp_fsm of every unit, the two FIFOs between it and the     *)
(* Wishbone master, and the frame its CAN controller has to send.          *)
(*                                                                         *)
(* A step of the machine is its way from one state it can wait in to the   *)
(* next: a few clock cycles of 6.25 ns, while a frame on the bus takes at  *)
(* least 44 us.  What happens outside the unit happens while the machine   *)
(* waits (Quiet).  A register is NoFrame while its content is not read     *)
(* again.  Frames of a wrong length or with an extended identifier are     *)
(* left out: nothing in the repository sends them.                         *)
(***************************************************************************)
EXTENDS Integers, Sequences, TLC

CONSTANTS
  Nodes,           \* CAN node ids of the readout units, all different
  Broadcast,       \* C_CAN_BROADCAST_ID
  Addresses,       \* 15-bit Wishbone addresses in use
  Unmapped,        \* those that no Wishbone slave serves
  NoFrame,         \* no frame
  FifoDepth,       \* depth of the DP0 and DP1 FIFOs
  MaxOps,          \* bound: requests of a behaviour, which are numbered
  Unsolicited,     \* which of TEST, ALERT and STATUS messages units send
  MaxUnsolicited   \* bound: how many

ErrorBit == 32768   \* bit 15 of the address of a result: there was an error

ASSUME CanHlpUnitAssumption ==
  /\ Broadcast \notin Nodes
  /\ Addresses \subseteq 0..(ErrorBit - 1) /\ Unmapped \subseteq Addresses
  /\ Unsolicited \subseteq {"TEST", "ALERT", "STATUS"}
  /\ FifoDepth \in Nat \ {0} /\ MaxOps \in Nat /\ MaxUnsolicited \in Nat

VARIABLES
  hlp_state,       \* s_fsm_state_out
  can_rx_msg,      \* s_can_rx_msg if s_can_rx_msg_available
  dp0_dt,          \* DP0_DT_O, the request being pushed
  can_tx_msg,      \* CAN_TX_MSG
  dropped,         \* HLP_MSG_DROPPED_COUNT_UP so far
  node_id_errors,  \* HLP_NODE_ID_ERROR_COUNT_UP so far
  tx_busy,         \* the frame the CAN controller is sending
  dp0, dp1,        \* requests to and results from the Wishbone master
  wb,              \* registers behind the Wishbone bus
  unsolicited,     \* history: test, alert and status messages so far
  pushed           \* history: per unit, requests pushed onto DP0

fsmRegs == <<hlp_state, can_rx_msg, dp0_dt, can_tx_msg, dropped, node_id_errors>>
fsmVars == <<fsmRegs, tx_busy, dp0, dp1, wb, unsolicited, pushed>>

Downstream == {"READ_COMMAND", "WRITE_COMMAND"}
Upstream == {"READ_RESPONSE", "WRITE_RESPONSE", "STATUS", "ALERT"}

\* A frame: its arbitration id (node, cmd), its payload, and the number of the
\* request it carries or answers.
Frame == [node : Nodes \cup {Broadcast}, cmd : Downstream \cup Upstream \cup {"TEST"},
          addr : 0..(2 * ErrorBit - 1), data : 0..MaxOps, req : 0..MaxOps]
Message(n, cmd) == [node |-> n, cmd |-> cmd, addr |-> 0, data |-> 0, req |-> 0]

ASSUME NoFrameAssumption == NoFrame \notin Frame

FsmTypeOK ==
  /\ hlp_state \in [Nodes -> {"IDLE", "WB_READ_INITIATE", "WB_WRITE_INITIATE", "CAN_MSG_SEND"}]
  /\ can_rx_msg \in [Nodes -> Frame \cup {NoFrame}]
  /\ dp0_dt \in [Nodes -> Frame \cup {NoFrame}]
  /\ can_tx_msg \in [Nodes -> Frame \cup {NoFrame}]
  /\ dropped \in [Nodes -> Nat] /\ node_id_errors \in [Nodes -> Nat]
  /\ tx_busy \in [Nodes -> Frame \cup {NoFrame}]
  /\ \A n \in Nodes : /\ dp0[n] \in Seq(Frame) /\ Len(dp0[n]) <= FifoDepth
                      /\ dp1[n] \in Seq(Frame) /\ Len(dp1[n]) <= FifoDepth
  /\ wb \in [Nodes -> [Addresses -> 0..MaxOps]]
  /\ unsolicited \in 0..MaxUnsolicited
  /\ pushed \in [Nodes -> SUBSET (1..MaxOps)]

FsmInit ==
  /\ hlp_state = [n \in Nodes |-> "IDLE"]
  /\ can_rx_msg = [n \in Nodes |-> NoFrame] /\ dp0_dt = [n \in Nodes |-> NoFrame]
  /\ can_tx_msg = [n \in Nodes |-> NoFrame] /\ tx_busy = [n \in Nodes |-> NoFrame]
  /\ dropped = [n \in Nodes |-> 0] /\ node_id_errors = [n \in Nodes |-> 0]
  /\ dp0 = [n \in Nodes |-> <<>>] /\ dp1 = [n \in Nodes |-> <<>>]
  /\ wb = [n \in Nodes |-> [a \in Addresses |-> 0]]
  /\ unsolicited = 0
  /\ pushed = [n \in Nodes |-> {}]

Goto(n, s) == hlp_state' = [hlp_state EXCEPT ![n] = s]
SendMsg(n, f) == can_tx_msg' = [can_tx_msg EXCEPT ![n] = f] /\ Goto(n, "CAN_MSG_SEND")

\* The machine waits: for a message or a result, for room in DP0, or for the
\* controller.
Quiet(n) ==
  \/ hlp_state[n] = "IDLE" /\ can_rx_msg[n] = NoFrame /\ dp1[n] = <<>>
  \/ hlp_state[n] \in {"WB_READ_INITIATE", "WB_WRITE_INITIATE"} /\ Len(dp0[n]) = FifoDepth
  \/ hlp_state[n] = "CAN_MSG_SEND" /\ tx_busy[n] # NoFrame

-----------------------------------------------------------------------------
\* Mutant: the overwritten message is not counted.
RxMsgValidSilent(receivers, f) ==
  /\ can_rx_msg' = [n \in Nodes |-> IF n \in receivers THEN f ELSE can_rx_msg[n]]
  /\ UNCHANGED dropped

\* CAN_RX_MSG_VALID at the units of receivers: a message not yet taken is
\* overwritten, and counted as dropped.
RxMsgValid(receivers, f) ==
  /\ can_rx_msg' = [n \in Nodes |-> IF n \in receivers THEN f ELSE can_rx_msg[n]]
  /\ dropped' = [n \in Nodes |-> IF n \in receivers /\ can_rx_msg[n] # NoFrame
                                   THEN dropped[n] + 1 ELSE dropped[n]]

-----------------------------------------------------------------------------
\* ST_IDLE, in order of priority: TEST_MODE or SEND_ALERT (inputs), a message,
\* a result, SEND_STATUS (input).

\* ... to ST_SETUP_HLP_TEST, ST_SETUP_HLP_ALERT or ST_SETUP_HLP_STATUS
IdleUnsolicited(n) ==
  /\ hlp_state[n] = "IDLE" /\ unsolicited < MaxUnsolicited
  /\ \E cmd \in Unsolicited :
       /\ cmd = "STATUS" => can_rx_msg[n] = NoFrame /\ dp1[n] = <<>>
       /\ SendMsg(n, Message(n, cmd))
  /\ unsolicited' = unsolicited + 1
  /\ UNCHANGED <<can_rx_msg, dp0_dt, dropped, node_id_errors, tx_busy,
                 dp0, dp1, wb, pushed>>

Addressed(n, f) == f.node \in {n, Broadcast}

\* ... through ST_CAN_MSG_RECEIVED to the request of a command, whose write
\* response is prepared with the same data, or back to ST_IDLE
IdleTakesMsg(n) ==
  /\ hlp_state[n] = "IDLE" /\ can_rx_msg[n] # NoFrame
  /\ can_rx_msg' = [can_rx_msg EXCEPT ![n] = NoFrame]
  /\ LET f == can_rx_msg[n]
         cmd == IF Addressed(n, f) THEN f.cmd ELSE "not for us"
     IN /\ dp0_dt' = IF cmd \in Downstream THEN [dp0_dt EXCEPT ![n] = f] ELSE dp0_dt
        /\ can_tx_msg' = IF cmd = "WRITE_COMMAND"
             THEN [can_tx_msg EXCEPT ![n] = [f EXCEPT !.node = n, !.cmd = "WRITE_RESPONSE"]]
             ELSE can_tx_msg
        /\ node_id_errors' = IF cmd \in Upstream THEN [node_id_errors EXCEPT ![n] = @ + 1]
                                                 ELSE node_id_errors
        /\ Goto(n, CASE cmd = "READ_COMMAND"  -> "WB_READ_INITIATE"
                     [] cmd = "WRITE_COMMAND" -> "WB_WRITE_INITIATE"
                     [] OTHER                 -> "IDLE")
  /\ UNCHANGED <<dropped, tx_busy, dp0, dp1, wb, unsolicited, pushed>>

\* ... through ST_WB_READ_DATA
IdleTakesResult(n) ==
  /\ hlp_state[n] = "IDLE" /\ can_rx_msg[n] = NoFrame /\ dp1[n] # <<>>
  /\ SendMsg(n, [Head(dp1[n]) EXCEPT !.node = n, !.cmd = "READ_RESPONSE"])
  /\ dp1' = [dp1 EXCEPT ![n] = Tail(@)]
  /\ UNCHANGED <<can_rx_msg, dp0_dt, dropped, node_id_errors, tx_busy,
                 dp0, wb, unsolicited, pushed>>

-----------------------------------------------------------------------------
\* Mutant: the same, with a FIFO that grows.
WbInitiateGrows(n) ==
  /\ hlp_state[n] \in {"WB_READ_INITIATE", "WB_WRITE_INITIATE"}
  /\ dp0' = [dp0 EXCEPT ![n] = Append(@, dp0_dt[n])]
  /\ pushed' = [pushed EXCEPT ![n] = @ \cup {dp0_dt[n].req}]
  /\ Goto(n, IF hlp_state[n] = "WB_READ_INITIATE" THEN "IDLE" ELSE "CAN_MSG_SEND")
  /\ dp0_dt' = [dp0_dt EXCEPT ![n] = NoFrame]
  /\ UNCHANGED <<can_rx_msg, can_tx_msg, dropped, node_id_errors, tx_busy, dp1, wb, unsolicited>>

\* ST_WB_READ_INITIATE, ST_WB_WRITE_INITIATE
WbInitiate(n) ==
  /\ hlp_state[n] \in {"WB_READ_INITIATE", "WB_WRITE_INITIATE"}
  /\ Len(dp0[n]) < FifoDepth
  /\ dp0' = [dp0 EXCEPT ![n] = Append(@, dp0_dt[n])]
  /\ pushed' = [pushed EXCEPT ![n] = @ \cup {dp0_dt[n].req}]
  /\ Goto(n, IF hlp_state[n] = "WB_READ_INITIATE" THEN "IDLE" ELSE "CAN_MSG_SEND")
  /\ dp0_dt' = [dp0_dt EXCEPT ![n] = NoFrame]
  /\ UNCHANGED <<can_rx_msg, can_tx_msg, dropped, node_id_errors, tx_busy, dp1, wb, unsolicited>>

\* ST_CAN_MSG_SEND; the controller keeps a copy of the message.
CanMsgSend(n) ==
  /\ hlp_state[n] = "CAN_MSG_SEND" /\ tx_busy[n] = NoFrame
  /\ tx_busy' = [tx_busy EXCEPT ![n] = can_tx_msg[n]]
  /\ Goto(n, "IDLE")
  /\ can_tx_msg' = [can_tx_msg EXCEPT ![n] = NoFrame]
  /\ UNCHANGED <<can_rx_msg, dp0_dt, dropped, node_id_errors, dp0, dp1, wb, unsolicited, pushed>>

FsmStep(n) == IdleTakesMsg(n) \/ IdleTakesResult(n) \/ WbInitiate(n) \/ CanMsgSend(n)

-----------------------------------------------------------------------------
\* The Wishbone master (external) carries out the oldest request, and waits for
\* room in DP1.
WbWrite(n) ==
  /\ dp0[n] # <<>> /\ Head(dp0[n]).cmd = "WRITE_COMMAND"
  /\ dp0' = [dp0 EXCEPT ![n] = Tail(@)]
  /\ LET f == Head(dp0[n])
     IN wb' = IF f.addr \in Unmapped THEN wb ELSE [wb EXCEPT ![n][f.addr] = f.data]
  /\ UNCHANGED <<fsmRegs, tx_busy, dp1, unsolicited, pushed>>

WbRead(n) ==
  /\ dp0[n] # <<>> /\ Head(dp0[n]).cmd = "READ_COMMAND" /\ Len(dp1[n]) < FifoDepth
  /\ dp0' = [dp0 EXCEPT ![n] = Tail(@)]
  /\ LET f == Head(dp0[n])
         result == IF f.addr \in Unmapped THEN [f EXCEPT !.addr = @ + ErrorBit]
                                          ELSE [f EXCEPT !.data = wb[n][f.addr]]
     IN dp1' = [dp1 EXCEPT ![n] = Append(@, result)]
  /\ UNCHANGED <<fsmRegs, tx_busy, wb, unsolicited, pushed>>

WbMaster(n) == WbWrite(n) \/ WbRead(n)

------------------------------------------------------------------------------
(***************************************************************************)
(* The CAN bus High Level Protocol from end to end: CanHlp objects on the  *)
(* host, the bus, and the units above.  A call sends one request           *)
(* and takes the first frame its socket delivers for the response.         *)
(*                                                                         *)
(* Either one object without a filter talks to all units, or one object    *)
(* per unit, each with a filter for its unit, share the interface (the     *)
(* sockets of a host also see each other's requests).                      *)
(*                                                                         *)
(* The sockets and the bus are external: every controller and socket sees  *)
(* the frames in the same order.                                           *)
(***************************************************************************)
CONSTANTS
  Hosts,      \* CanHlp objects
  AllNodes,   \* filter of an object that has none
  Unused,     \* filter of an object that does not exist
  MaxFaults   \* bound: frames lost, error frames received

ASSUME CanHlpAssumption ==
  /\ AllNodes \notin Nodes /\ Unused \notin Nodes \cup {AllNodes, Broadcast}
  /\ MaxFaults \in Nat

VARIABLES
  filter,    \* per object, the unit its socket accepts frames of
  socketTx,  \* per object, frames the interface has still to send
  socketRx,  \* per object, frames received
  call,      \* per object, the call in progress
  inStep,    \* history: per object, no exception and no early timeout since the
             \* last timeout that came when nothing was on its way any more
  acked,     \* history: per unit and address, the last write acknowledged in step
  nops,      \* history: requests so far
  faults     \* history: lost frames and error frames so far

hostVars == <<filter, socketTx, socketRx, call, inStep, acked, nops>>
vars == <<fsmVars, hostVars, faults>>

ErrorFrame == [node |-> AllNodes, cmd |-> "error frame", addr |-> 0, data |-> 0, req |-> 0]
Idle == [kind |-> "none", node |-> Broadcast, addr |-> 0, req |-> 0, floor |-> 0, ids |-> {}]
Single == {"readHlp", "writeHlp"}
ToAll == {"readHlpBroadcast", "writeHlpBroadcast"}
Calls == [kind : {"none", "flushHLP"} \cup Single \cup ToAll, node : Nodes \cup {Broadcast},
          addr : {0} \cup Addresses, req : 0..MaxOps, floor : 0..MaxOps, ids : SUBSET Nodes]

Setups ==
  {f \in [Hosts -> Nodes \cup {AllNodes, Unused}] :
     \/ \E h \in Hosts : f = [g \in Hosts |-> IF g = h THEN AllNodes ELSE Unused]
     \/ \A h, g \in Hosts : f[h] \in Nodes /\ (f[h] = f[g] => h = g)}

TypeOK ==
  /\ FsmTypeOK
  /\ filter \in Setups
  /\ \A h \in Hosts : /\ socketTx[h] \in Seq(Frame)
                      /\ socketRx[h] \in Seq(Frame \cup {ErrorFrame})
  /\ call \in [Hosts -> Calls]
  /\ inStep \in [Hosts -> BOOLEAN]
  /\ acked \in [Nodes -> [Addresses -> 0..MaxOps]]
  /\ nops \in 0..MaxOps /\ faults \in 0..MaxFaults

Init ==
  /\ FsmInit
  /\ filter \in Setups
  /\ socketTx = [h \in Hosts |-> <<>>] /\ socketRx = [h \in Hosts |-> <<>>]
  /\ call = [h \in Hosts |-> Idle] /\ inStep = [h \in Hosts |-> TRUE]
  /\ acked = [n \in Nodes |-> [a \in Addresses |-> 0]]
  /\ nops = 0 /\ faults = 0

-----------------------------------------------------------------------------
\* The host and the bus are slow compared with the machines: their steps find
\* every machine waiting.
Settled == \A n \in Nodes : Quiet(n)

\* The bus (external).

\* The sockets of hs receive f if their filters let it through.
SocketsReceive(hs, f) ==
  socketRx' = [h \in Hosts |-> IF h \in hs /\ filter[h] \in {f.node, AllNodes}
                                 THEN Append(socketRx[h], f) ELSE socketRx[h]]

\* A unit's frame wins the bus.
UnitTransmits(n) ==
  /\ Settled /\ tx_busy[n] # NoFrame
  /\ RxMsgValid(Nodes \ {n}, tx_busy[n])
  /\ SocketsReceive(Hosts, tx_busy[n])
  /\ tx_busy' = [tx_busy EXCEPT ![n] = NoFrame]
  /\ UNCHANGED <<hlp_state, dp0_dt, can_tx_msg, node_id_errors, dp0, dp1, wb, unsolicited, pushed,
                 filter, socketTx, call, inStep, acked, nops, faults>>

\* A frame of the host wins the bus.
HostTransmits(h) ==
  /\ Settled /\ socketTx[h] # <<>>
  /\ RxMsgValid(Nodes, Head(socketTx[h]))
  /\ SocketsReceive(Hosts \ {h}, Head(socketTx[h]))
  /\ socketTx' = [socketTx EXCEPT ![h] = Tail(@)]
  /\ UNCHANGED <<hlp_state, dp0_dt, can_tx_msg, node_id_errors, tx_busy, dp0, dp1, wb, unsolicited,
                 pushed, filter, call, inStep, acked, nops, faults>>

\* A unit's controller gives up after its retransmissions, a frame of the host
\* is lost, or an error frame is reported.
Fault ==
  /\ Settled /\ faults < MaxFaults /\ faults' = faults + 1
  /\ \/ /\ \E n \in Nodes : /\ tx_busy[n] # NoFrame
                            /\ tx_busy' = [tx_busy EXCEPT ![n] = NoFrame]
        /\ UNCHANGED <<socketTx, socketRx>>
     \/ /\ \E h \in Hosts : /\ socketTx[h] # <<>>
                            /\ socketTx' = [socketTx EXCEPT ![h] = Tail(@)]
        /\ UNCHANGED <<tx_busy, socketRx>>
     \/ /\ \E h \in Hosts : /\ filter[h] # Unused
                            /\ socketRx' = [socketRx EXCEPT ![h] = Append(@, ErrorFrame)]
        /\ UNCHANGED <<tx_busy, socketTx>>
  /\ UNCHANGED <<fsmRegs, dp0, dp1, wb, unsolicited, pushed, filter, call, inStep, acked, nops>>

\* Nothing is on its way any more: at all, or between h and its units.
UnitSilent(n) == /\ hlp_state[n] = "IDLE" /\ can_rx_msg[n] = NoFrame
                 /\ tx_busy[n] = NoFrame /\ dp0[n] = <<>> /\ dp1[n] = <<>>
Silent == /\ \A h \in Hosts : socketTx[h] = <<>>
          /\ \A n \in Nodes : UnitSilent(n)
SilentFor(h) == /\ socketTx[h] = <<>>
                /\ \A n \in Nodes : filter[h] \in {n, AllNodes} => UnitSilent(n)

-----------------------------------------------------------------------------
\* The calls.

\* bus.send of a request, whose data is its number
Request(h, kind, n, cmd, a) ==
  /\ Settled /\ call[h].kind = "none" /\ nops < MaxOps
  /\ nops' = nops + 1
  /\ socketTx' = [socketTx EXCEPT ![h] = Append(@,
       [node |-> n, cmd |-> cmd, addr |-> a, req |-> nops + 1,
        data |-> IF cmd = "WRITE_COMMAND" THEN nops + 1 ELSE 0])]
  /\ call' = [call EXCEPT ![h] =
       [kind |-> kind, node |-> n, addr |-> a, req |-> nops + 1, ids |-> {},
        floor |-> IF kind = "readHlp" THEN acked[n][a] ELSE 0]]
  /\ UNCHANGED <<fsmVars, filter, socketRx, inStep, acked, faults>>

ReadHlp(h) == \E n \in Nodes, a \in Addresses :
  filter[h] \in {n, AllNodes} /\ Request(h, "readHlp", n, "READ_COMMAND", a)
WriteHlp(h) == \E n \in Nodes, a \in Addresses :
  filter[h] \in {n, AllNodes} /\ Request(h, "writeHlp", n, "WRITE_COMMAND", a)
ReadHlpBroadcast(h) == \E a \in Addresses :
  filter[h] = AllNodes /\ Request(h, "readHlpBroadcast", Broadcast, "READ_COMMAND", a)
WriteHlpBroadcast(h) == \E a \in Addresses :
  filter[h] = AllNodes /\ Request(h, "writeHlpBroadcast", Broadcast, "WRITE_COMMAND", a)

Bit(w, mask) == (w \div mask) % 2 = 1

\* What readHlp and writeHlp make of the frame, in the order of their tests.
ReadVerdict(c, f) ==
  IF f = ErrorFrame               THEN "CanErrorFrame"
  ELSE IF f.cmd # "READ_RESPONSE" THEN "CanHlpWrongResponse"
  ELSE IF Bit(f.addr, 128)        THEN "CanHlpReadError"
  ELSE IF f.addr # c.addr         THEN "CanHlpWrongResponseAddress"
  ELSE IF f.node # c.node         THEN "CanHlpWrongId"
  ELSE "none"

\* Mutant: whatever comes is the response.
WriteVerdictAny(c, f) ==
  IF f = ErrorFrame THEN "CanErrorFrame" ELSE IF f.node # c.node THEN "CanHlpWrongId" ELSE "none"

WriteVerdict(c, f) ==
  IF f = ErrorFrame                THEN "CanErrorFrame"
  ELSE IF f.cmd # "WRITE_RESPONSE" THEN "CanHlpWrongResponse"
  ELSE IF f.node # c.node          THEN "CanHlpWrongId"
  ELSE "none"

\* The end of a call.  After an exception its answer may still come.
Returns(h) == call' = [call EXCEPT ![h] = Idle]
Raises(h) == Returns(h) /\ inStep' = [inStep EXCEPT ![h] = FALSE]

\* bus.recv finds nothing until its timeout, which ends the call: early, when
\* frames are still on their way, or when nothing can come any more.
TimesOut(h) ==
  /\ Settled /\ socketRx[h] = <<>>
  /\ Returns(h)
  /\ inStep' = [inStep EXCEPT ![h] = SilentFor(h)]

\* bus.recv delivers a frame to readHlp or writeHlp.
Verdict(c, f) == IF c.kind = "readHlp" THEN ReadVerdict(c, f) ELSE WriteVerdict(c, f)
Accepts(h) ==
  /\ Settled /\ call[h].kind \in Single /\ socketRx[h] # <<>>
  /\ Verdict(call[h], Head(socketRx[h])) = "none"
  /\ Returns(h)
  /\ acked' = IF call[h].kind = "writeHlp" /\ inStep[h]
                THEN [acked EXCEPT ![call[h].node][call[h].addr] = call[h].req] ELSE acked
  /\ socketRx' = [socketRx EXCEPT ![h] = Tail(@)]
  /\ UNCHANGED <<fsmVars, filter, socketTx, inStep, nops, faults>>

Rejects(h) ==
  /\ Settled /\ call[h].kind \in Single /\ socketRx[h] # <<>>
  /\ Verdict(call[h], Head(socketRx[h])) # "none"
  /\ Raises(h)
  /\ socketRx' = [socketRx EXCEPT ![h] = Tail(@)]
  /\ UNCHANGED <<fsmVars, filter, socketTx, acked, nops, faults>>

\* bus.recv delivers a frame to a broadcast call, which goes on until a
\* timeout.  readHlpBroadcast then appends to the 16-bit value it has stored
\* under the name of its list.  (A response never has the broadcast id.)
BroadcastVerdict(c, f) ==
  LET wanted == IF c.kind = "readHlpBroadcast" THEN "READ_RESPONSE" ELSE "WRITE_RESPONSE" IN
  IF f = ErrorFrame                 THEN "CanErrorFrame"
  ELSE IF f.cmd # wanted            THEN "CanHlpWrongResponse"
  ELSE IF f.node = Broadcast        THEN "CanHlpWrongId"
  ELSE IF f.cmd = "READ_RESPONSE"   THEN "AttributeError"
  ELSE "none"

ReceiveBroadcast(h) ==
  /\ Settled /\ call[h].kind \in ToAll /\ socketRx[h] # <<>>
  /\ LET f == Head(socketRx[h])
         e == BroadcastVerdict(call[h], f)
     IN IF e # "none" THEN Raises(h)
        ELSE /\ call' = [call EXCEPT ![h].ids = @ \cup {f.node}]
             /\ UNCHANGED inStep
  /\ socketRx' = [socketRx EXCEPT ![h] = Tail(@)]
  /\ UNCHANGED <<fsmVars, filter, socketTx, acked, nops, faults>>

\* No response comes in time, or no further one to a broadcast.
Timeout(h) ==
  /\ call[h].kind \in Single \cup ToAll
  /\ TimesOut(h)
  /\ UNCHANGED <<fsmVars, filter, socketTx, socketRx, acked, nops, faults>>

\* flushHLP discards what there is until a timeout.  Few callers use it.
FlushBegin(h) ==
  /\ Settled /\ call[h].kind = "none" /\ filter[h] # Unused
  /\ call' = [call EXCEPT ![h].kind = "flushHLP"]
  /\ UNCHANGED <<fsmVars, filter, socketTx, socketRx, inStep, acked, nops, faults>>

FlushDiscards(h) ==
  /\ Settled /\ call[h].kind = "flushHLP" /\ socketRx[h] # <<>>
  /\ socketRx' = [socketRx EXCEPT ![h] = Tail(@)]
  /\ UNCHANGED <<fsmVars, filter, socketTx, call, inStep, acked, nops, faults>>

FlushEnd(h) ==
  /\ call[h].kind = "flushHLP"
  /\ TimesOut(h)
  /\ UNCHANGED <<fsmVars, filter, socketTx, socketRx, acked, nops, faults>>

UnitStep(n) == FsmStep(n) /\ UNCHANGED <<hostVars, faults>>
WbStep(n) == WbMaster(n) /\ UNCHANGED <<hostVars, faults>>
AlertStep(n) == IdleUnsolicited(n) /\ UNCHANGED <<hostVars, faults>>

Next ==
  \/ \E n \in Nodes : UnitStep(n) \/ WbStep(n) \/ AlertStep(n) \/ UnitTransmits(n)
  \/ \E h \in Hosts : \/ ReadHlp(h) \/ WriteHlp(h) \/ ReadHlpBroadcast(h) \/ WriteHlpBroadcast(h)
                      \/ Accepts(h) \/ Rejects(h) \/ ReceiveBroadcast(h) \/ Timeout(h)
                      \/ FlushBegin(h) \/ FlushDiscards(h) \/ FlushEnd(h) \/ HostTransmits(h)
  \/ Fault

Spec == Init /\ [][Next]_vars

\* Nothing tells the units or the host objects apart.
Symmetry == Permutations(Nodes) \cup Permutations(Hosts)

-----------------------------------------------------------------------------
\* readHlp and writeHlp: a call that returns normally was given the response
\* of its own request, not that of an earlier one or of another object's.  The
\* claim is for calls in step.  Callers that go on after an exception without a
\* flushHLP (CanHlpComm's worker, the node scan, the next nodes of the test
\* loop) make calls out of step, which may take the answer of an earlier one.
AnswerIsMine ==
  [][\A h \in Hosts : Accepts(h) /\ inStep[h] => Head(socketRx[h]).req = call[h].req]_vars

\* readHlp after writeHlp: a read in step that returns normally sees every write
\* to that register acknowledged in step before it was called.
ReadSeesAckedWrites ==
  [][\A h \in Hosts : Accepts(h) /\ call[h].kind = "readHlp" /\ inStep[h]
                      => Head(socketRx[h]).data >= call[h].floor]_vars

\* HLP_MSG_DROPPED_COUNT_UP: when everything has come to rest, a unit that does
\* not have the request of a call in progress has counted a dropped message,
\* or the bus has lost one.
NoSilentDrop ==
  Silent => \A h \in Hosts, n \in Nodes :
    /\ call[h].kind \in Single \cup ToAll /\ call[h].node \in {n, Broadcast}
    => call[h].req \in pushed[n] \/ faults > 0 \/ dropped[n] > 0
==============================================================================
