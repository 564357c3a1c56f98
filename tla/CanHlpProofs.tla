---------------------------- MODULE CanHlpProofs ----------------------------
(***************************************************************************)
(* The CAN high level protocol from end to end, for any units, objects,    *)
(* registers, FIFO depths, faults and notices: a message that a unit drops *)
(* is counted, and whatever callers do and however late answers are, a     *)
(* call made in step is given its own answer and a read sees the writes    *)
(* acknowledged before it.                                                 *)
(***************************************************************************)
EXTENDS CanHlp, TLAPS, SequenceTheorems
-----------------------------------------------------------------------------
(***************************************************************************)
(* The frames that are where.  A request has a number, and a write carries *)
(* it as its data; a unit sends answers and notices of its own.            *)
(***************************************************************************)
Commands == {f \in Frame : /\ f.cmd \in Downstream /\ f.addr \in Addresses /\ f.req # 0
                           /\ f.cmd = "WRITE_COMMAND" => f.data = f.req}
Results == {f \in Frame : f.cmd = "READ_COMMAND" /\ f.req # 0}
Answer(f) == f.cmd \in {"READ_RESPONSE", "WRITE_RESPONSE"}
AnswersOf(n) == {f \in Frame : f.node = n /\ Answer(f) /\ f.req # 0}
Notices(n) == {f \in Frame : f.node = n /\ f.cmd \in {"TEST", "ALERT", "STATUS"}}
SentBy(n) == AnswersOf(n) \cup Notices(n)

\* h is the object that talks to unit n; there is one at most.
Serves(h, n) == filter[h] \in {n, AllNodes}

Reply(n, cmd, f) == [f EXCEPT !.node = n, !.cmd = cmd]

UnitInv(n) ==
  /\ can_rx_msg[n] = NoFrame \/ can_rx_msg[n] \in Commands
     \/ \E m \in Nodes \ {n} : can_rx_msg[n] \in SentBy(m)
  /\ can_tx_msg[n] \in SentBy(n) \cup {NoFrame} /\ tx_busy[n] \in SentBy(n) \cup {NoFrame}
  /\ Len(dp0[n]) <= FifoDepth /\ Len(dp1[n]) <= FifoDepth
  /\ hlp_state[n] \in {"IDLE", "WB_READ_INITIATE"} => can_tx_msg[n] = NoFrame
  /\ hlp_state[n] = "WB_READ_INITIATE" => dp0_dt[n] \in Commands /\ dp0_dt[n].cmd = "READ_COMMAND"
  /\ hlp_state[n] = "WB_WRITE_INITIATE" =>
       /\ dp0_dt[n] \in Commands /\ dp0_dt[n].cmd = "WRITE_COMMAND"
       /\ can_tx_msg[n] = Reply(n, "WRITE_RESPONSE", dp0_dt[n])
  /\ hlp_state[n] = "CAN_MSG_SEND" => can_tx_msg[n] # NoFrame

SocketInv(h) ==
  /\ \A i \in DOMAIN socketTx[h] : LET f == socketTx[h][i] IN
       /\ f.node \in Nodes => Serves(h, f.node)
       /\ f.node = Broadcast => filter[h] = AllNodes
  /\ \A i \in DOMAIN socketRx[h] : LET f == socketRx[h][i] IN
       f = ErrorFrame \/ \E n \in Nodes : Serves(h, n) /\ f \in SentBy(n)
  /\ call[h].kind \in Single => call[h].node \in Nodes /\ Serves(h, call[h].node) /\ call[h].addr \in Addresses

-----------------------------------------------------------------------------
\* A request that unit n has taken in and not pushed yet; one that it was sent.
Held(n) == hlp_state[n] \in {"WB_READ_INITIATE", "WB_WRITE_INITIATE"}
Got(n) == can_rx_msg[n] # NoFrame /\ can_rx_msg[n].cmd \in Downstream /\ Addressed(n, can_rx_msg[n])

(***************************************************************************)
(* Requests keep their order on their way to the registers of a unit.      *)
(***************************************************************************)
Increasing(q) == \A i, j \in DOMAIN q : i < j => q[i].req < q[j].req
OrderInv(n) ==
  /\ Increasing(dp0[n])
  /\ Held(n) => \A i \in DOMAIN dp0[n] : dp0[n][i].req < dp0_dt[n].req
  /\ Got(n) => /\ \A i \in DOMAIN dp0[n] : dp0[n][i].req < can_rx_msg[n].req
               /\ Held(n) => dp0_dt[n].req < can_rx_msg[n].req
  /\ \A a \in Addresses : /\ \A i \in DOMAIN dp0[n] : wb[n][a] < dp0[n][i].req
                          /\ Held(n) => wb[n][a] < dp0_dt[n].req
                          /\ Got(n) => wb[n][a] < can_rx_msg[n].req
\* All of them were sent before q.
Before(n, q) ==
  /\ \A i \in DOMAIN dp0[n] : dp0[n][i].req < q
  /\ Held(n) => dp0_dt[n].req < q
  /\ Got(n) => can_rx_msg[n].req < q
  /\ \A a \in Addresses : wb[n][a] < q
QueueInv(h) ==
  /\ Increasing(socketTx[h])
  /\ \A i \in DOMAIN socketTx[h] : socketTx[h][i].req <= nops
  /\ \A n \in Nodes : Before(n, nops + 1)
  /\ \A n \in Nodes : \A i \in DOMAIN socketTx[h] : Serves(h, n) => Before(n, socketTx[h][i].req)

-----------------------------------------------------------------------------
(***************************************************************************)
(* What of a call in step is on its way: of its request, or of its answer, *)
(* one at most.                                                            *)
(***************************************************************************)

\* The places where it can be.
AtSocket(h) == socketTx[h] # <<>>
AtDp0(n) == \E i \in DOMAIN dp0[n] : dp0[n][i].cmd = "READ_COMMAND"
AtTx(n) == can_tx_msg[n] # NoFrame /\ Answer(can_tx_msg[n])
AtBus(n) == tx_busy[n] # NoFrame /\ Answer(tx_busy[n])
At(n, p) == CASE p = "rx"  -> Got(n)
              [] p = "dt"  -> hlp_state[n] = "WB_READ_INITIATE"
              [] p = "dp0" -> AtDp0(n)
              [] p = "dp1" -> dp1[n] # <<>>
              [] p = "tx"  -> AtTx(n)
              [] p = "bus" -> AtBus(n)
Places == {"rx", "dt", "dp0", "dp1", "tx", "bus"}
Answered(h) == \E i \in DOMAIN socketRx[h] : Answer(socketRx[h][i])

\* Where there is one, there is only one.
OneRead(n) == \A i, j \in DOMAIN dp0[n] :
  dp0[n][i].cmd = "READ_COMMAND" /\ dp0[n][j].cmd = "READ_COMMAND" => i = j
OneAnswer(h) == \A i, j \in DOMAIN socketRx[h] :
  Answer(socketRx[h][i]) /\ Answer(socketRx[h][j]) => i = j
Alone(h) ==
  /\ Len(socketTx[h]) <= 1 /\ OneAnswer(h)
  /\ \A n \in Nodes : Serves(h, n) => Len(dp1[n]) <= 1 /\ OneRead(n)
  /\ ~(AtSocket(h) /\ Answered(h))
  /\ \A n \in Nodes, p \in Places : Serves(h, n) /\ At(n, p) =>
       /\ ~AtSocket(h) /\ ~Answered(h)
       /\ \A m \in Nodes, q \in Places : Serves(h, m) /\ At(m, q) => m = n /\ q = p
Clear(h) ==
  /\ ~AtSocket(h) /\ ~Answered(h)
  /\ \A n \in Nodes, p \in Places : Serves(h, n) => ~At(n, p)

\* Request f is that of call c; f is an answer to it.
RequestOf(c, f) ==
  /\ f.req = c.req /\ f.addr = c.addr /\ f.node = c.node
  /\ f.cmd = IF c.kind = "readHlp" THEN "READ_COMMAND" ELSE "WRITE_COMMAND"
Fresh(c, f) == f.addr = c.addr + ErrorBit \/ (f.addr = c.addr /\ f.data >= c.floor)
AnswerTo(c, f) ==
  /\ f.req = c.req
  /\ IF f.cmd = "READ_RESPONSE" THEN c.kind = "readHlp" /\ Fresh(c, f)
                                ELSE c.kind = "writeHlp" /\ f.addr = c.addr
MineUnit(c, n) ==
  /\ Got(n) => RequestOf(c, can_rx_msg[n]) /\ c.node = n
  /\ Held(n) => RequestOf(c, dp0_dt[n]) /\ c.node = n
  /\ \A i \in DOMAIN dp0[n] : /\ dp0[n][i].req <= c.req
                              /\ dp0[n][i].cmd = "READ_COMMAND" => RequestOf(c, dp0[n][i]) /\ c.node = n
  /\ \A i \in DOMAIN dp1[n] : dp1[n][i].req = c.req /\ c.kind = "readHlp" /\ Fresh(c, dp1[n][i])
  /\ AtTx(n) => AnswerTo(c, can_tx_msg[n])
  /\ AtBus(n) => AnswerTo(c, tx_busy[n])
Mine(h) ==
  /\ \A i \in DOMAIN socketTx[h] : RequestOf(call[h], socketTx[h][i])
  /\ \A n \in Nodes : Serves(h, n) => MineUnit(call[h], n)
  /\ \A i \in DOMAIN socketRx[h] : Answer(socketRx[h][i]) => AnswerTo(call[h], socketRx[h][i])
CallInv(h) ==
  /\ call[h].kind \in Single /\ inStep[h] => Alone(h) /\ Mine(h)
  /\ call[h].kind = "none" /\ inStep[h] => Clear(h)

(***************************************************************************)
(* A write that is acknowledged, or whose response is on its way, has been *)
(* carried out or is in the FIFO to the Wishbone master.                   *)
(***************************************************************************)
Landed(n, a, q) ==
  \/ a \in Unmapped \/ q <= wb[n][a]
  \/ \E i \in DOMAIN dp0[n] : /\ dp0[n][i].cmd = "WRITE_COMMAND" /\ dp0[n][i].addr = a
                              /\ q <= dp0[n][i].req
LandedFrame(n, f) == f.cmd = "WRITE_RESPONSE" => f.addr \in Addresses /\ Landed(n, f.addr, f.req)
AckInv(n) ==
  /\ \A a \in Addresses : Landed(n, a, acked[n][a])
  /\ hlp_state[n] = "CAN_MSG_SEND" => LandedFrame(n, can_tx_msg[n])
  /\ tx_busy[n] # NoFrame => LandedFrame(n, tx_busy[n])
  /\ \A h \in Hosts : \A i \in DOMAIN socketRx[h] : socketRx[h][i].node = n => LandedFrame(n, socketRx[h][i])
FloorInv(h) == call[h].kind = "readHlp" => call[h].floor = acked[call[h].node][call[h].addr]

-----------------------------------------------------------------------------
\* The request of a call is on its way to unit n, has been pushed or was lost.
Underway(h, n) ==
  \/ \E i \in DOMAIN socketTx[h] : socketTx[h][i].req = call[h].req
  \/ Got(n) /\ can_rx_msg[n].req = call[h].req
  \/ Held(n) /\ dp0_dt[n].req = call[h].req
LossInv == \A h \in Hosts, n \in Nodes :
  call[h].kind \in Single \cup ToAll /\ call[h].node \in {n, Broadcast}
  => Underway(h, n) \/ call[h].req \in pushed[n] \/ faults > 0 \/ dropped[n] > 0
\* A queued request of the last number is that of the call.
LastInv(h) == call[h].kind \in Single \cup ToAll => \A i \in DOMAIN socketTx[h] :
  socketTx[h][i].req = call[h].req => socketTx[h][i].node = call[h].node

AllUnits == \A n \in Nodes : UnitInv(n)
AllSockets == \A h \in Hosts : SocketInv(h)
AllOrder == \A n \in Nodes : OrderInv(n)
AllQueues == \A h \in Hosts : QueueInv(h)
AllCalls == \A h \in Hosts : CallInv(h)
AllAcks == \A n \in Nodes : AckInv(n)
AllFloors == \A h \in Hosts : FloorInv(h)
AllLast == \A h \in Hosts : LastInv(h)

-----------------------------------------------------------------------------
(***************************************************************************)
(* Types, and the frames that are where.                                   *)
(***************************************************************************)
States == {"IDLE", "WB_READ_INITIATE", "WB_WRITE_INITIATE", "CAN_MSG_SEND"}
BaseInv ==
  /\ hlp_state \in [Nodes -> States]
  /\ can_rx_msg \in [Nodes -> Frame \cup {NoFrame}] /\ dp0_dt \in [Nodes -> Frame \cup {NoFrame}]
  /\ can_tx_msg \in [Nodes -> Frame \cup {NoFrame}] /\ tx_busy \in [Nodes -> Frame \cup {NoFrame}]
  /\ dropped \in [Nodes -> Nat] /\ node_id_errors \in [Nodes -> Nat]
  /\ dp0 \in [Nodes -> Seq(Commands)] /\ dp1 \in [Nodes -> Seq(Results)]
  /\ wb \in [Nodes -> [Addresses -> 0..MaxOps]]
  /\ unsolicited \in 0..MaxUnsolicited /\ pushed \in [Nodes -> SUBSET (1..MaxOps)]
HostInv ==
  /\ filter \in Setups
  /\ socketTx \in [Hosts -> Seq(Commands)] /\ socketRx \in [Hosts -> Seq(Frame \cup {ErrorFrame})]
  /\ call \in [Hosts -> Calls] /\ inStep \in [Hosts -> BOOLEAN]
  /\ acked \in [Nodes -> [Addresses -> 0..MaxOps]]
  /\ nops \in 0..MaxOps /\ faults \in 0..MaxFaults
TypeInv == BaseInv /\ HostInv /\ (\A n \in Nodes : UnitInv(n)) /\ (\A h \in Hosts : SocketInv(h))

LEMMA TailFacts ==
  ASSUME NEW S, NEW s \in Seq(S), s # <<>>
  PROVE  /\ Len(s) \in Nat \ {0} /\ DOMAIN s = 1..Len(s)
         /\ Head(s) = s[1] /\ Head(s) \in S
         /\ Tail(s) \in Seq(S) /\ Len(Tail(s)) = Len(s) - 1
         /\ DOMAIN Tail(s) = 1..(Len(s) - 1)
         /\ \A k \in 1..(Len(s) - 1) : Tail(s)[k] = s[k + 1]
  BY EmptySeq, HeadTailProperties, LenProperties, ElementOfSeq

LEMMA AppendFacts ==
  ASSUME NEW S, NEW s \in Seq(S), NEW e \in S
  PROVE  /\ Len(s) \in Nat /\ DOMAIN s = 1..Len(s)
         /\ Append(s, e) \in Seq(S) /\ Append(s, e) # <<>> /\ Len(Append(s, e)) = Len(s) + 1
         /\ DOMAIN Append(s, e) = 1..(Len(s) + 1)
         /\ \A k \in 1..Len(s) : Append(s, e)[k] = s[k]
         /\ Append(s, e)[Len(s) + 1] = e
  BY AppendProperties, LenProperties

\* No two objects talk to one unit.
LEMMA OneServer ==
  ASSUME filter \in Setups, NEW h \in Hosts, NEW g \in Hosts, NEW n \in Nodes, Serves(h, n), Serves(g, n)
  PROVE  h = g
  BY CanHlpAssumption DEF Setups, Serves

\* An object that talks to all units is the only one.
LEMMA OnlyServer ==
  ASSUME filter \in Setups, NEW h \in Hosts, NEW g \in Hosts, filter[h] = AllNodes, g # h
  PROVE  filter[g] = Unused
  BY CanHlpAssumption DEF Setups

LEMMA Bounds ==
  /\ ErrorBit \in Nat \ {0} /\ FifoDepth \in Nat \ {0}
  /\ MaxOps \in Nat /\ MaxFaults \in Nat /\ MaxUnsolicited \in Nat
  BY CanHlpUnitAssumption, CanHlpAssumption DEF ErrorBit

LEMMA FieldFacts ==
  ASSUME NEW f \in Frame
  PROVE  /\ f.node \in Nodes \cup {Broadcast} /\ f.cmd \in Downstream \cup Upstream \cup {"TEST"}
         /\ f.addr \in 0..(2 * ErrorBit - 1) /\ f.data \in 0..MaxOps /\ f.req \in 0..MaxOps
  BY DEF Frame

LEMMA NotFrames == ErrorFrame \notin Frame /\ NoFrame \notin Frame
  <1>1. ErrorFrame.cmd = "error frame"
    BY DEF ErrorFrame
  <1>2. ASSUME NEW f \in Frame PROVE f.cmd # "error frame"
    BY FieldFacts DEF Downstream, Upstream
  <1> QED BY <1>1, <1>2, NoFrameAssumption

LEMMA CommandFacts ==
  ASSUME NEW f \in Commands
  PROVE  /\ f \in Frame /\ f # NoFrame /\ f.addr \in Addresses /\ f.addr \in 0..(ErrorBit - 1)
         /\ f.req \in 1..MaxOps /\ f.data \in 0..MaxOps
         /\ f.cmd \in {"READ_COMMAND", "WRITE_COMMAND"} /\ f.cmd \in Downstream /\ ~Answer(f)
         /\ f.cmd = "WRITE_COMMAND" => f.data = f.req
  <1>1. /\ f \in Frame /\ f.addr \in Addresses /\ f.req # 0 /\ f.cmd \in Downstream
        /\ f.cmd = "WRITE_COMMAND" => f.data = f.req
    BY DEF Commands
  <1>2. f # NoFrame
    BY <1>1, NotFrames
  <1>3. f.addr \in 0..(ErrorBit - 1)
    BY <1>1, CanHlpUnitAssumption
  <1>4. f.req \in 1..MaxOps /\ f.data \in 0..MaxOps
    BY <1>1, FieldFacts, Bounds
  <1>5. f.cmd \in {"READ_COMMAND", "WRITE_COMMAND"} /\ ~Answer(f)
    BY <1>1 DEF Downstream, Answer
  <1> QED BY <1>1, <1>2, <1>3, <1>4, <1>5

LEMMA ResultFacts ==
  ASSUME NEW f \in Results
  PROVE  f \in Frame /\ f.req \in 1..MaxOps /\ f.cmd = "READ_COMMAND"
  BY Bounds, FieldFacts DEF Results

LEMMA SentFacts ==
  ASSUME NEW n \in Nodes, NEW f \in SentBy(n)
  PROVE  /\ f \in Frame /\ f # NoFrame /\ f # ErrorFrame /\ f.node = n /\ f.cmd \notin Downstream
         /\ Answer(f) => f \in AnswersOf(n)
         /\ f.cmd \in Upstream \cup {"TEST"}
  BY NotFrames DEF SentBy, AnswersOf, Notices, Answer, Downstream, Upstream

LEMMA InitType == Init => TypeInv
  <1> SUFFICES ASSUME Init PROVE TypeInv
    OBVIOUS
  <1> USE Bounds
  <1>1. BaseInv
    BY DEF Init, FsmInit, BaseInv, States
  <1>2. HostInv
    BY DEF Init, HostInv, Calls, Idle
  <1>3. ASSUME NEW n \in Nodes PROVE UnitInv(n)
    BY DEF Init, FsmInit, UnitInv
  <1>4. ASSUME NEW h \in Hosts PROVE SocketInv(h)
    BY DEF Init, SocketInv, Idle, Single
  <1> QED BY <1>1, <1>2, <1>3, <1>4 DEF TypeInv

-----------------------------------------------------------------------------
(***************************************************************************)
(* What a step does to a unit, to an object.                               *)
(***************************************************************************)
SameUnit(n) ==
  /\ hlp_state'[n] = hlp_state[n] /\ can_rx_msg'[n] = can_rx_msg[n] /\ dp0_dt'[n] = dp0_dt[n]
  /\ can_tx_msg'[n] = can_tx_msg[n] /\ tx_busy'[n] = tx_busy[n]
  /\ dp0'[n] = dp0[n] /\ dp1'[n] = dp1[n] /\ wb'[n] = wb[n]
SameHost(h) ==
  /\ filter' = filter /\ socketTx'[h] = socketTx[h] /\ socketRx'[h] = socketRx[h]
  /\ call'[h] = call[h] /\ inStep'[h] = inStep[h]
SameBus(n) == tx_busy'[n] = tx_busy[n] /\ dp0'[n] = dp0[n] /\ dp1'[n] = dp1[n] /\ wb'[n] = wb[n]

Ignores(n) ==
  /\ hlp_state[n] = "IDLE" /\ ~Got(n) /\ hlp_state'[n] = "IDLE" /\ can_rx_msg'[n] = NoFrame
  /\ dp0_dt'[n] = dp0_dt[n] /\ can_tx_msg'[n] = can_tx_msg[n] /\ SameBus(n)
TakesRead(n) ==
  /\ hlp_state[n] = "IDLE" /\ Got(n) /\ can_rx_msg[n].cmd = "READ_COMMAND"
  /\ hlp_state'[n] = "WB_READ_INITIATE" /\ can_rx_msg'[n] = NoFrame
  /\ dp0_dt'[n] = can_rx_msg[n] /\ can_tx_msg'[n] = can_tx_msg[n] /\ SameBus(n)
TakesWrite(n) ==
  /\ hlp_state[n] = "IDLE" /\ Got(n) /\ can_rx_msg[n].cmd = "WRITE_COMMAND"
  /\ hlp_state'[n] = "WB_WRITE_INITIATE" /\ can_rx_msg'[n] = NoFrame
  /\ dp0_dt'[n] = can_rx_msg[n]
  /\ can_tx_msg'[n] = Reply(n, "WRITE_RESPONSE", can_rx_msg[n]) /\ SameBus(n)
TakesResult(n) ==
  /\ hlp_state[n] = "IDLE" /\ can_rx_msg'[n] = can_rx_msg[n] /\ dp1[n] # <<>>
  /\ hlp_state'[n] = "CAN_MSG_SEND" /\ dp0_dt'[n] = dp0_dt[n]
  /\ can_tx_msg'[n] = Reply(n, "READ_RESPONSE", Head(dp1[n]))
  /\ dp1'[n] = Tail(dp1[n]) /\ tx_busy'[n] = tx_busy[n] /\ dp0'[n] = dp0[n] /\ wb'[n] = wb[n]
Notifies(n) ==
  /\ hlp_state[n] = "IDLE" /\ can_rx_msg'[n] = can_rx_msg[n] /\ dp0_dt'[n] = dp0_dt[n]
  /\ hlp_state'[n] = "CAN_MSG_SEND" /\ SameBus(n)
  /\ can_tx_msg'[n] \in Notices(n)
Pushes(n) ==
  /\ Held(n) /\ Len(dp0[n]) < FifoDepth /\ can_rx_msg'[n] = can_rx_msg[n]
  /\ hlp_state'[n] = IF hlp_state[n] = "WB_READ_INITIATE" THEN "IDLE" ELSE "CAN_MSG_SEND"
  /\ dp0'[n] = Append(dp0[n], dp0_dt[n]) /\ dp0_dt'[n] = NoFrame
  /\ can_tx_msg'[n] = can_tx_msg[n] /\ tx_busy'[n] = tx_busy[n] /\ dp1'[n] = dp1[n] /\ wb'[n] = wb[n]
Sends(n) ==
  /\ hlp_state[n] = "CAN_MSG_SEND" /\ tx_busy[n] = NoFrame /\ hlp_state'[n] = "IDLE"
  /\ tx_busy'[n] = can_tx_msg[n] /\ can_tx_msg'[n] = NoFrame /\ can_rx_msg'[n] = can_rx_msg[n]
  /\ dp0_dt'[n] = dp0_dt[n] /\ dp0'[n] = dp0[n] /\ dp1'[n] = dp1[n] /\ wb'[n] = wb[n]
SameFsm(n) ==
  /\ hlp_state'[n] = hlp_state[n] /\ can_rx_msg'[n] = can_rx_msg[n] /\ dp0_dt'[n] = dp0_dt[n]
  /\ can_tx_msg'[n] = can_tx_msg[n] /\ tx_busy'[n] = tx_busy[n]
Writes(n) ==
  /\ dp0[n] # <<>> /\ Head(dp0[n]).cmd = "WRITE_COMMAND" /\ SameFsm(n)
  /\ dp0'[n] = Tail(dp0[n]) /\ dp1'[n] = dp1[n]
  /\ wb'[n] = IF Head(dp0[n]).addr \in Unmapped THEN wb[n]
              ELSE [wb[n] EXCEPT ![Head(dp0[n]).addr] = Head(dp0[n]).data]
ResultOf(n, f) == IF f.addr \in Unmapped THEN [f EXCEPT !.addr = @ + ErrorBit]
                                         ELSE [f EXCEPT !.data = wb[n][f.addr]]
Reads(n) ==
  /\ dp0[n] # <<>> /\ Head(dp0[n]).cmd = "READ_COMMAND" /\ Len(dp1[n]) < FifoDepth /\ SameFsm(n)
  /\ dp0'[n] = Tail(dp0[n]) /\ dp1'[n] = Append(dp1[n], ResultOf(n, Head(dp0[n]))) /\ wb'[n] = wb[n]

Inside(n) == \/ Ignores(n) \/ TakesRead(n) \/ TakesWrite(n) \/ TakesResult(n) \/ Notifies(n)
             \/ Pushes(n) \/ Sends(n) \/ Writes(n) \/ Reads(n)
\* The rest of a step inside a unit: other units, the objects, the history.
Apart(n) ==
  /\ \A m \in Nodes \ {n} : SameUnit(m)
  /\ \A h \in Hosts : SameHost(h)
  /\ hostVars' = hostVars /\ faults' = faults /\ dropped' = dropped
  /\ \A m \in Nodes : pushed[m] \subseteq pushed'[m]
  /\ hlp_state[n] \in {"WB_READ_INITIATE", "WB_WRITE_INITIATE"} =>
       \/ Pushes(n) /\ dp0_dt[n].req \in pushed'[n]
       \/ hlp_state'[n] = hlp_state[n] /\ dp0_dt'[n] = dp0_dt[n]

LEMMA NoticeFacts ==
  ASSUME NEW n \in Nodes, NEW cmd \in {"TEST", "ALERT", "STATUS"}
  PROVE  Message(n, cmd) \in Notices(n)
  <1>1. 0 \in 0..(2 * ErrorBit - 1) /\ 0 \in 0..MaxOps
    BY Bounds
  <1>2. cmd \in Downstream \cup Upstream \cup {"TEST"}
    BY DEF Upstream
  <1>3. Message(n, cmd) \in Frame
    BY <1>1, <1>2 DEF Message, Frame
  <1>4. Message(n, cmd).node = n /\ Message(n, cmd).cmd = cmd
    BY DEF Message
  <1> QED BY <1>3, <1>4 DEF Notices

LEMMA TakesMsgFacts ==
  ASSUME TypeInv, NEW n \in Nodes, IdleTakesMsg(n), UNCHANGED <<hostVars, faults>>
  PROVE  Apart(n) /\ (Ignores(n) \/ TakesRead(n) \/ TakesWrite(n))
  <1> DEFINE f == can_rx_msg[n]
  <1>1. f \in Commands \/ \E m \in Nodes \ {n} : f \in SentBy(m)
    BY DEF IdleTakesMsg, TypeInv, UnitInv
  <1>2. ASSUME ~Got(n) PROVE ~(Addressed(n, f) /\ f.cmd \in Downstream)
    BY <1>2 DEF Got, IdleTakesMsg
  <1> USE DEF IdleTakesMsg, BaseInv, TypeInv, Goto
  <1>3. Apart(n)
    BY DEF Apart, SameUnit, SameHost, hostVars
  <1>4. CASE ~Got(n)
    <2>1. hlp_state'[n] = "IDLE" /\ dp0_dt'[n] = dp0_dt[n] /\ can_tx_msg'[n] = can_tx_msg[n]
      BY <1>2, <1>4 DEF Downstream
    <2>2. Ignores(n)
      BY <1>4, <2>1 DEF Ignores, SameBus
    <2> QED BY <1>3, <2>2
  <1>5. CASE Got(n)
    <2>1. Addressed(n, f) /\ f \in Commands /\ f.cmd \in {"READ_COMMAND", "WRITE_COMMAND"}
      BY <1>1, <1>5, SentFacts DEF Got, Downstream
    <2>2. dp0_dt'[n] = f
      BY <2>1 DEF Downstream
    <2>3. CASE f.cmd = "READ_COMMAND"
      <3>1. hlp_state'[n] = "WB_READ_INITIATE" /\ can_tx_msg'[n] = can_tx_msg[n]
        BY <2>1, <2>3
      <3>2. TakesRead(n)
        BY <1>5, <2>2, <2>3, <3>1 DEF TakesRead, SameBus
      <3> QED BY <1>3, <3>2
    <2>4. CASE f.cmd = "WRITE_COMMAND"
      <3>1. /\ hlp_state'[n] = "WB_WRITE_INITIATE"
            /\ can_tx_msg'[n] = Reply(n, "WRITE_RESPONSE", f)
        BY <2>1, <2>4 DEF Reply
      <3>2. TakesWrite(n)
        BY <1>5, <2>2, <2>4, <3>1 DEF TakesWrite, SameBus
      <3> QED BY <1>3, <3>2
    <2> QED BY <2>1, <2>3, <2>4
  <1> QED BY <1>4, <1>5

LEMMA InsideFacts ==
  ASSUME TypeInv, NEW n \in Nodes, UnitStep(n) \/ WbStep(n) \/ AlertStep(n)
  PROVE  Apart(n) /\ Inside(n)
  <1> USE DEF BaseInv, TypeInv, Goto, SendMsg, fsmRegs, Held
  <1>1. CASE IdleTakesMsg(n) /\ UNCHANGED <<hostVars, faults>>
    BY <1>1, TakesMsgFacts DEF Inside
  <1>2. CASE IdleTakesResult(n) /\ UNCHANGED <<hostVars, faults>>
    <2>1. Apart(n)
      BY <1>2 DEF IdleTakesResult, Apart, SameUnit, SameHost, hostVars
    <2>2. TakesResult(n)
      BY <1>2 DEF IdleTakesResult, TakesResult, Reply
    <2> QED BY <2>1, <2>2 DEF Inside
  <1>3. CASE WbInitiate(n) /\ UNCHANGED <<hostVars, faults>>
    <2>1. Pushes(n)
      BY <1>3 DEF WbInitiate, Pushes
    <2>2. dp0_dt[n].req \in pushed'[n]
      BY <1>3 DEF WbInitiate
    <2>3. Apart(n)
      BY <1>3, <2>1, <2>2 DEF WbInitiate, Apart, SameUnit, SameHost, hostVars
    <2> QED BY <2>1, <2>3 DEF Inside
  <1>4. CASE CanMsgSend(n) /\ UNCHANGED <<hostVars, faults>>
    <2>1. Apart(n)
      BY <1>4 DEF CanMsgSend, Apart, SameUnit, SameHost, hostVars
    <2>2. Sends(n)
      BY <1>4 DEF CanMsgSend, Sends
    <2> QED BY <2>1, <2>2 DEF Inside
  <1>5. CASE WbWrite(n) /\ UNCHANGED <<hostVars, faults>>
    <2>1. Apart(n)
      BY <1>5 DEF WbWrite, Apart, SameUnit, SameHost, hostVars
    <2>2. Writes(n)
      BY <1>5 DEF WbWrite, Writes, SameFsm
    <2> QED BY <2>1, <2>2 DEF Inside
  <1>6. CASE WbRead(n) /\ UNCHANGED <<hostVars, faults>>
    <2>1. Apart(n)
      BY <1>6 DEF WbRead, Apart, SameUnit, SameHost, hostVars
    <2>2. Reads(n)
      BY <1>6 DEF WbRead, Reads, SameFsm, ResultOf
    <2> QED BY <2>1, <2>2 DEF Inside
  <1>7. CASE AlertStep(n)
    <2>1. PICK cmd \in Unsolicited : SendMsg(n, Message(n, cmd))
      BY <1>7 DEF AlertStep, IdleUnsolicited
    <2>2. Message(n, cmd) \in Notices(n)
      BY <2>1, NoticeFacts, CanHlpUnitAssumption
    <2>3. Apart(n)
      BY <1>7, <2>1 DEF AlertStep, IdleUnsolicited, Apart, SameUnit, SameHost, hostVars
    <2>4. Notifies(n)
      BY <1>7, <2>1, <2>2 DEF AlertStep, IdleUnsolicited, Notifies, SameBus
    <2> QED BY <2>3, <2>4 DEF Inside
  <1> QED BY <1>1, <1>2, <1>3, <1>4, <1>5, <1>6, <1>7 DEF UnitStep, FsmStep, WbStep, WbMaster

-----------------------------------------------------------------------------
LEMMA ReplyFacts ==
  ASSUME NEW f \in Frame, NEW n \in Nodes, NEW c \in {"READ_RESPONSE", "WRITE_RESPONSE"}
  PROVE  /\ Reply(n, c, f) \in Frame /\ Reply(n, c, f).node = n /\ Reply(n, c, f).cmd = c
         /\ Reply(n, c, f).addr = f.addr /\ Reply(n, c, f).data = f.data
         /\ Reply(n, c, f).req = f.req /\ Answer(Reply(n, c, f))
         /\ f.req # 0 => Reply(n, c, f) \in SentBy(n) /\ Reply(n, c, f) # NoFrame
  <1> DEFINE r == Reply(n, c, f)
  <1>1. c \in Downstream \cup Upstream \cup {"TEST"}
    BY DEF Upstream
  <1>2. r \in Frame /\ r.node = n /\ r.cmd = c /\ r.addr = f.addr /\ r.data = f.data /\ r.req = f.req
    BY <1>1 DEF Frame, Reply
  <1> HIDE DEF r
  <1>3. Answer(r)
    BY <1>2 DEF Answer
  <1>4. f.req # 0 => r \in SentBy(n) /\ r # NoFrame
    BY <1>2, <1>3, NotFrames DEF SentBy, AnswersOf
  <1> QED BY <1>2, <1>3, <1>4 DEF r

LEMMA ResultOfFacts ==
  ASSUME BaseInv, NEW n \in Nodes, NEW f \in Commands, f.cmd = "READ_COMMAND"
  PROVE  /\ ResultOf(n, f) \in Results /\ ResultOf(n, f).req = f.req
         /\ IF f.addr \in Unmapped THEN ResultOf(n, f).addr = f.addr + ErrorBit
            ELSE ResultOf(n, f).addr = f.addr /\ ResultOf(n, f).data = wb[n][f.addr]
  <1>1. /\ f \in Frame /\ f.addr \in Addresses /\ f.addr \in 0..(ErrorBit - 1) /\ f.req # 0
    BY CommandFacts, Bounds
  <1>2. f.addr + ErrorBit \in 0..(2 * ErrorBit - 1)
    BY <1>1, Bounds
  <1>3. wb[n][f.addr] \in 0..MaxOps
    BY <1>1 DEF BaseInv
  <1>4. CASE f.addr \in Unmapped
    <2> DEFINE r == [f EXCEPT !.addr = f.addr + ErrorBit]
    <2>1. r \in Frame /\ r.addr = f.addr + ErrorBit /\ r.req = f.req /\ r.cmd = f.cmd
      BY <1>1, <1>2 DEF Frame
    <2>2. ResultOf(n, f) = r
      BY <1>4 DEF ResultOf
    <2> HIDE DEF r
    <2> QED BY <1>1, <1>4, <2>1, <2>2 DEF Results
  <1>5. CASE f.addr \notin Unmapped
    <2> DEFINE r == [f EXCEPT !.data = wb[n][f.addr]]
    <2>1. r \in Frame /\ r.addr = f.addr /\ r.data = wb[n][f.addr] /\ r.req = f.req /\ r.cmd = f.cmd
      BY <1>1, <1>3 DEF Frame
    <2>2. ResultOf(n, f) = r
      BY <1>5 DEF ResultOf
    <2> HIDE DEF r
    <2> QED BY <1>1, <1>5, <2>1, <2>2 DEF Results
  <1> QED BY <1>4, <1>5

LEMMA InsideBase ==
  ASSUME TypeInv, NEW n \in Nodes, UnitStep(n) \/ WbStep(n) \/ AlertStep(n)
  PROVE  BaseInv'
  <1> USE DEF BaseInv, Goto, SendMsg, fsmRegs, States
  <1>0. TypeInv /\ BaseInv /\ UnitInv(n)
    BY DEF TypeInv
  <1>1. CASE IdleTakesMsg(n)
    <2>1. can_rx_msg[n] \in Frame
      BY <1>0, <1>1 DEF IdleTakesMsg
    <2>2. Reply(n, "WRITE_RESPONSE", can_rx_msg[n]) \in Frame
      BY <2>1, ReplyFacts
    <2>3. node_id_errors[n] + 1 \in Nat
      BY <1>0
    <2> QED BY <1>0, <1>1, <2>1, <2>2, <2>3 DEF IdleTakesMsg, Reply
  <1>2. CASE IdleTakesResult(n)
    <2>1. Head(dp1[n]) \in Results /\ Tail(dp1[n]) \in Seq(Results)
      BY <1>0, <1>2, TailFacts DEF IdleTakesResult
    <2>2. Reply(n, "READ_RESPONSE", Head(dp1[n])) \in Frame
      BY <2>1, ReplyFacts, ResultFacts
    <2> QED BY <1>0, <1>2, <2>1, <2>2 DEF IdleTakesResult, Reply
  <1>3. CASE WbInitiate(n)
    <2>1. dp0_dt[n] \in Commands
      BY <1>0, <1>3 DEF WbInitiate, UnitInv
    <2>2. Append(dp0[n], dp0_dt[n]) \in Seq(Commands)
      BY <1>0, <2>1, AppendFacts
    <2>3. dp0_dt[n].req \in 1..MaxOps
      BY <2>1, CommandFacts
    <2> QED BY <1>0, <1>3, <2>2, <2>3 DEF WbInitiate
  <1>4. CASE CanMsgSend(n)
    BY <1>0, <1>4 DEF CanMsgSend
  <1>5. CASE WbWrite(n)
    <2>1. Head(dp0[n]) \in Commands /\ Tail(dp0[n]) \in Seq(Commands)
      BY <1>0, <1>5, TailFacts DEF WbWrite
    <2>2. Head(dp0[n]).data \in 0..MaxOps
      BY <2>1, CommandFacts
    <2> QED BY <1>0, <1>5, <2>1, <2>2 DEF WbWrite
  <1>6. CASE WbRead(n)
    <2>1. Head(dp0[n]) \in Commands /\ Tail(dp0[n]) \in Seq(Commands)
      BY <1>0, <1>6, TailFacts DEF WbRead
    <2>2. ResultOf(n, Head(dp0[n])) \in Results
      BY <1>0, <1>6, <2>1, ResultOfFacts DEF WbRead
    <2>3. Append(dp1[n], ResultOf(n, Head(dp0[n]))) \in Seq(Results)
      BY <1>0, <2>2, AppendFacts
    <2> QED BY <1>0, <1>6, <2>1, <2>3 DEF WbRead, ResultOf
  <1>7. CASE AlertStep(n)
    <2>1. PICK cmd \in Unsolicited : SendMsg(n, Message(n, cmd))
      BY <1>7 DEF AlertStep, IdleUnsolicited
    <2>2. Message(n, cmd) \in Frame
      BY <2>1, NoticeFacts, CanHlpUnitAssumption DEF Notices
    <2>3. unsolicited + 1 \in 0..MaxUnsolicited
      BY <1>0, <1>7, Bounds DEF AlertStep, IdleUnsolicited
    <2> QED BY <1>0, <1>7, <2>1, <2>2, <2>3 DEF AlertStep, IdleUnsolicited
  <1> QED BY <1>1, <1>2, <1>3, <1>4, <1>5, <1>6, <1>7 DEF UnitStep, FsmStep, WbStep, WbMaster

LEMMA InsideUnit ==
  ASSUME TypeInv, NEW n \in Nodes, Inside(n)
  PROVE  UnitInv(n)'
  <1>0. BaseInv /\ UnitInv(n)
    BY DEF TypeInv
  <1> USE DEF UnitInv, SameBus
  <1>1. CASE Ignores(n)
    BY <1>0, <1>1 DEF Ignores
  <1>2. CASE TakesRead(n)
    <2>1. can_rx_msg[n] \in Commands
      BY <1>0, <1>2, SentFacts DEF TakesRead, Got
    <2> QED BY <1>0, <1>2, <2>1 DEF TakesRead
  <1>3. CASE TakesWrite(n)
    <2>1. can_rx_msg[n] \in Commands
      BY <1>0, <1>3, SentFacts DEF TakesWrite, Got
    <2>2. can_tx_msg'[n] \in SentBy(n)
      BY <1>3, <2>1, ReplyFacts, CommandFacts, Bounds DEF TakesWrite
    <2> QED BY <1>0, <1>3, <2>1, <2>2 DEF TakesWrite
  <1>4. CASE TakesResult(n)
    <2>1. Head(dp1[n]) \in Results /\ Len(Tail(dp1[n])) = Len(dp1[n]) - 1
      BY <1>0, <1>4, TailFacts DEF TakesResult, BaseInv
    <2>2. can_tx_msg'[n] \in SentBy(n) /\ can_tx_msg'[n] # NoFrame
      BY <1>4, <2>1, ReplyFacts, ResultFacts DEF TakesResult, Results
    <2>3. Len(dp1'[n]) <= FifoDepth
      BY <1>0, <1>4, <2>1, Bounds, LenProperties DEF TakesResult, BaseInv
    <2> QED BY <1>0, <1>4, <2>2, <2>3 DEF TakesResult
  <1>5. CASE Notifies(n)
    BY <1>0, <1>5, NotFrames DEF Notifies, SentBy, Notices
  <1>6. CASE Pushes(n)
    <2>1. dp0_dt[n] \in Commands
      BY <1>0, <1>6 DEF Pushes, Held
    <2>2. Len(dp0'[n]) <= FifoDepth
      BY <1>0, <1>6, <2>1, AppendFacts, Bounds DEF Pushes, BaseInv
    <2>3. hlp_state[n] = "WB_WRITE_INITIATE" => can_tx_msg[n] # NoFrame
      BY <1>0, <2>1, ReplyFacts, CommandFacts, Bounds
    <2> QED BY <1>0, <1>6, <2>2, <2>3 DEF Pushes, Held
  <1>7. CASE Sends(n)
    BY <1>0, <1>7 DEF Sends
  <1>8. CASE Writes(n)
    <2>1. Len(dp0'[n]) <= FifoDepth
      BY <1>0, <1>8, TailFacts, Bounds DEF Writes, BaseInv
    <2> QED BY <1>0, <1>8, <2>1 DEF Writes, SameFsm
  <1>9. CASE Reads(n)
    <2>1. Len(dp0'[n]) <= FifoDepth
      BY <1>0, <1>9, TailFacts, Bounds DEF Reads, BaseInv
    <2>2. Head(dp0[n]) \in Commands
      BY <1>0, <1>9, TailFacts DEF Reads, BaseInv
    <2>3. ResultOf(n, Head(dp0[n])) \in Results
      BY <1>0, <1>9, <2>2, ResultOfFacts DEF Reads
    <2>4. Len(dp1'[n]) <= FifoDepth
      BY <1>0, <1>9, <2>3, AppendFacts, Bounds DEF Reads, BaseInv
    <2> QED BY <1>0, <1>9, <2>1, <2>4 DEF Reads, SameFsm
  <1> QED BY <1>1, <1>2, <1>3, <1>4, <1>5, <1>6, <1>7, <1>8, <1>9 DEF Inside

LEMMA SameUnitInv ==
  ASSUME NEW n \in Nodes, UnitInv(n), SameUnit(n)
  PROVE  UnitInv(n)'
  BY DEF UnitInv, SameUnit

LEMMA SameSocketInv ==
  ASSUME NEW h \in Hosts, SocketInv(h), SameHost(h)
  PROVE  SocketInv(h)'
  BY DEF SocketInv, SameHost, Serves

LEMMA InsideType ==
  ASSUME TypeInv, NEW n \in Nodes, UnitStep(n) \/ WbStep(n) \/ AlertStep(n)
  PROVE  TypeInv'
  <1>1. BaseInv'
    BY InsideBase
  <1>2. Apart(n) /\ Inside(n)
    BY InsideFacts
  <1>3. HostInv'
    BY <1>2 DEF TypeInv, HostInv, Apart, hostVars
  <1>4. ASSUME NEW m \in Nodes PROVE UnitInv(m)'
    <2>1. CASE m = n
      BY <1>2, <2>1, InsideUnit
    <2>2. CASE m # n
      BY <1>2, <2>2, SameUnitInv DEF Apart, TypeInv
    <2> QED BY <2>1, <2>2
  <1>5. ASSUME NEW h \in Hosts PROVE SocketInv(h)'
    BY <1>2, SameSocketInv DEF Apart, TypeInv
  <1> QED BY <1>1, <1>3, <1>4, <1>5 DEF TypeInv

-----------------------------------------------------------------------------
\* What stays in a step of the bus.
SameInside(m) ==
  /\ hlp_state'[m] = hlp_state[m] /\ dp0_dt'[m] = dp0_dt[m] /\ can_tx_msg'[m] = can_tx_msg[m]
  /\ dp0'[m] = dp0[m] /\ dp1'[m] = dp1[m] /\ wb'[m] = wb[m]
SameRest == filter' = filter /\ acked' = acked /\ nops' = nops /\ pushed' = pushed
\* A message of the machine that is overwritten counts.
Counts(m) == dropped'[m] >= dropped[m] /\ (can_rx_msg'[m] # can_rx_msg[m] /\ can_rx_msg[m] # NoFrame => dropped'[m] > 0)

BusUnit(n) ==
  /\ tx_busy[n] \in SentBy(n) /\ SameRest /\ faults' = faults
  /\ \A m \in Nodes : /\ SameInside(m) /\ Counts(m)
                      /\ can_rx_msg'[m] = IF m = n THEN can_rx_msg[n] ELSE tx_busy[n]
                      /\ tx_busy'[m] = IF m = n THEN NoFrame ELSE tx_busy[m]
  /\ \A h \in Hosts :
       /\ socketRx'[h] = IF Serves(h, n) THEN Append(socketRx[h], tx_busy[n]) ELSE socketRx[h]
       /\ socketTx'[h] = socketTx[h] /\ call'[h] = call[h] /\ inStep'[h] = inStep[h]
BusHost(h) ==
  /\ socketTx[h] # <<>> /\ Head(socketTx[h]) \in Commands /\ SameRest /\ faults' = faults
  /\ \A m \in Nodes : /\ SameInside(m) /\ Counts(m) /\ tx_busy'[m] = tx_busy[m]
                      /\ can_rx_msg'[m] = Head(socketTx[h])
                      /\ Addressed(m, Head(socketTx[h])) => Serves(h, m)
  /\ \A g \in Hosts :
       /\ socketTx'[g] = IF g = h THEN Tail(socketTx[h]) ELSE socketTx[g]
       /\ socketRx'[g] = socketRx[g] /\ call'[g] = call[g] /\ inStep'[g] = inStep[g]
FaultUnit(n) ==
  /\ SameRest /\ faults' = faults + 1 /\ dropped' = dropped
  /\ \A m \in Nodes : /\ SameInside(m) /\ can_rx_msg'[m] = can_rx_msg[m]
                      /\ tx_busy'[m] = IF m = n THEN NoFrame ELSE tx_busy[m]
  /\ \A h \in Hosts : SameHost(h)
FaultHost(h) ==
  /\ SameRest /\ faults' = faults + 1 /\ dropped' = dropped /\ socketTx[h] # <<>>
  /\ \A m \in Nodes : SameUnit(m)
  /\ \A g \in Hosts :
       /\ socketTx'[g] = IF g = h THEN Tail(socketTx[h]) ELSE socketTx[g]
       /\ socketRx'[g] = socketRx[g] /\ call'[g] = call[g] /\ inStep'[g] = inStep[g]
FaultSocket(h) ==
  /\ SameRest /\ faults' = faults + 1 /\ dropped' = dropped
  /\ \A m \in Nodes : SameUnit(m)
  /\ \A g \in Hosts :
       /\ socketRx'[g] = IF g = h THEN Append(socketRx[h], ErrorFrame) ELSE socketRx[g]
       /\ socketTx'[g] = socketTx[g] /\ call'[g] = call[g] /\ inStep'[g] = inStep[g]
Bus == \/ \E n \in Nodes : BusUnit(n) \/ FaultUnit(n)
       \/ \E h \in Hosts : BusHost(h) \/ FaultHost(h) \/ FaultSocket(h)

LEMMA RxMsgFacts ==
  ASSUME BaseInv, NEW R \in SUBSET Nodes, NEW f \in Frame, RxMsgValid(R, f)
  PROVE  /\ can_rx_msg' \in [Nodes -> Frame \cup {NoFrame}] /\ dropped' \in [Nodes -> Nat]
         /\ \A m \in Nodes : Counts(m) /\ can_rx_msg'[m] = IF m \in R THEN f ELSE can_rx_msg[m]
  <1> USE DEF RxMsgValid, BaseInv
  <1>1. \A m \in Nodes : dropped[m] \in Nat
    OBVIOUS
  <1>2. can_rx_msg' \in [Nodes -> Frame \cup {NoFrame}] /\ dropped' \in [Nodes -> Nat]
    BY <1>1
  <1>3. ASSUME NEW m \in Nodes PROVE Counts(m) /\ can_rx_msg'[m] = IF m \in R THEN f ELSE can_rx_msg[m]
    <2>1. /\ can_rx_msg'[m] = IF m \in R THEN f ELSE can_rx_msg[m]
          /\ dropped'[m] = IF m \in R /\ can_rx_msg[m] # NoFrame THEN dropped[m] + 1 ELSE dropped[m]
      BY <1>2
    <2> QED BY <1>1, <2>1 DEF Counts
  <1> QED BY <1>2, <1>3

LEMMA UnitTransmitsFacts ==
  ASSUME TypeInv, NEW n \in Nodes, UnitTransmits(n)
  PROVE  BusUnit(n) /\ BaseInv' /\ HostInv'
  <1>0. BaseInv /\ HostInv /\ UnitInv(n)
    BY DEF TypeInv
  <1>1. tx_busy[n] \in SentBy(n) /\ tx_busy[n] \in Frame /\ tx_busy[n].node = n
    BY <1>0, SentFacts DEF UnitTransmits, UnitInv
  <1>2. RxMsgValid(Nodes \ {n}, tx_busy[n]) /\ Nodes \ {n} \in SUBSET Nodes
    BY DEF UnitTransmits
  <1>3. /\ can_rx_msg' \in [Nodes -> Frame \cup {NoFrame}] /\ dropped' \in [Nodes -> Nat]
        /\ \A m \in Nodes : Counts(m) /\ can_rx_msg'[m] = IF m = n THEN can_rx_msg[n] ELSE tx_busy[n]
    BY <1>0, <1>1, <1>2, RxMsgFacts
  <1>4. socketRx' = [h \in Hosts |-> IF Serves(h, n) THEN Append(socketRx[h], tx_busy[n]) ELSE socketRx[h]]
    BY <1>1 DEF UnitTransmits, SocketsReceive, Serves
  <1>5. socketRx' \in [Hosts -> Seq(Frame \cup {ErrorFrame})]
    <2>1. ASSUME NEW h \in Hosts PROVE Append(socketRx[h], tx_busy[n]) \in Seq(Frame \cup {ErrorFrame})
      BY <1>0, <1>1, AppendFacts DEF HostInv
    <2> QED BY <1>0, <1>4, <2>1 DEF HostInv
  <1>6. BaseInv'
    BY <1>0, <1>3 DEF UnitTransmits, BaseInv
  <1>7. HostInv'
    BY <1>0, <1>5 DEF UnitTransmits, HostInv
  <1>8. BusUnit(n)
    BY <1>0, <1>1, <1>3, <1>4 DEF UnitTransmits, BusUnit, SameRest, SameInside, BaseInv
  <1> QED BY <1>6, <1>7, <1>8

\* The request at the head of an object's queue is for units it talks to, and
\* no other object sees it.
LEMMA QueuedFacts ==
  ASSUME TypeInv, NEW h \in Hosts, socketTx[h] # <<>>
  PROVE  /\ Head(socketTx[h]) \in Commands /\ Tail(socketTx[h]) \in Seq(Commands)
         /\ \A m \in Nodes : Addressed(m, Head(socketTx[h])) => Serves(h, m)
         /\ \A g \in Hosts \ {h} : filter[g] \notin {Head(socketTx[h]).node, AllNodes}
  <1> DEFINE f == Head(socketTx[h])
  <1>0. HostInv /\ SocketInv(h) /\ filter \in Setups
    BY DEF TypeInv, HostInv
  <1>1. f \in Commands /\ Tail(socketTx[h]) \in Seq(Commands) /\ 1 \in DOMAIN socketTx[h] /\ f = socketTx[h][1]
    BY <1>0, TailFacts DEF HostInv
  <1>2. (f.node \in Nodes => Serves(h, f.node)) /\ (f.node = Broadcast => filter[h] = AllNodes)
    BY <1>0, <1>1 DEF SocketInv
  <1>3. f.node \in Nodes \cup {Broadcast}
    BY <1>1, CommandFacts, FieldFacts
  <1>4. \A m \in Nodes : Addressed(m, f) => Serves(h, m)
    BY <1>2 DEF Addressed, Serves
  <1>5. ASSUME NEW g \in Hosts \ {h} PROVE filter[g] \notin {f.node, AllNodes}
    <2>1. CASE filter[h] = AllNodes
      <3>1. filter[g] = Unused
        BY <1>0, <2>1, OnlyServer
      <3> QED BY <1>3, <3>1, CanHlpAssumption
    <2>2. CASE filter[h] # AllNodes
      <3>1. f.node \in Nodes /\ Serves(h, f.node)
        BY <1>2, <1>3, <2>2
      <3>2. ~Serves(g, f.node)
        BY <1>0, <3>1, OneServer
      <3> QED BY <3>2 DEF Serves
    <2> QED BY <2>1, <2>2
  <1> QED BY <1>1, <1>4, <1>5

LEMMA HostTransmitsFacts ==
  ASSUME TypeInv, NEW h \in Hosts, HostTransmits(h)
  PROVE  BusHost(h) /\ BaseInv' /\ HostInv'
  <1> DEFINE f == Head(socketTx[h])
  <1>0. BaseInv /\ HostInv /\ socketTx[h] # <<>>
    BY DEF TypeInv, HostTransmits
  <1>1. /\ f \in Commands /\ f \in Frame /\ Tail(socketTx[h]) \in Seq(Commands)
        /\ \A m \in Nodes : Addressed(m, f) => Serves(h, m)
        /\ \A g \in Hosts \ {h} : filter[g] \notin {f.node, AllNodes}
    BY <1>0, QueuedFacts, CommandFacts
  <1>2. RxMsgValid(Nodes, f) /\ Nodes \in SUBSET Nodes
    BY DEF HostTransmits
  <1> HIDE DEF f
  <1>3. /\ can_rx_msg' \in [Nodes -> Frame \cup {NoFrame}] /\ dropped' \in [Nodes -> Nat]
        /\ \A m \in Nodes : Counts(m) /\ can_rx_msg'[m] = f
    BY <1>0, <1>1, <1>2, RxMsgFacts
  <1>4. socketRx' = socketRx
    BY <1>0, <1>1 DEF HostTransmits, SocketsReceive, HostInv, f
  <1>5. BaseInv'
    BY <1>0, <1>3 DEF HostTransmits, BaseInv
  <1>6. HostInv'
    BY <1>0, <1>1, <1>4 DEF HostTransmits, HostInv
  <1>7. BusHost(h)
    BY <1>0, <1>1, <1>3, <1>4 DEF HostTransmits, BusHost, SameRest, SameInside, BaseInv, HostInv, f
  <1> QED BY <1>5, <1>6, <1>7

LEMMA FaultFacts ==
  ASSUME TypeInv, Fault
  PROVE  /\ BaseInv' /\ HostInv'
         /\ \/ \E n \in Nodes : FaultUnit(n)
            \/ \E h \in Hosts : FaultHost(h) \/ FaultSocket(h)
  <1>0. BaseInv /\ HostInv
    BY DEF TypeInv
  <1>1. faults' = faults + 1 /\ faults' \in 0..MaxFaults
    BY <1>0, Bounds DEF HostInv, Fault
  <1>2. ASSUME NEW n \in Nodes, tx_busy' = [tx_busy EXCEPT ![n] = NoFrame], UNCHANGED <<socketTx, socketRx>>
        PROVE  BaseInv' /\ HostInv' /\ FaultUnit(n)
    BY <1>0, <1>1, <1>2 DEF Fault, FaultUnit, BaseInv, HostInv, SameRest, SameInside, SameHost, fsmRegs
  <1>3. ASSUME NEW h \in Hosts, socketTx[h] # <<>>, socketTx' = [socketTx EXCEPT ![h] = Tail(@)],
               UNCHANGED <<tx_busy, socketRx>>
        PROVE  BaseInv' /\ HostInv' /\ FaultHost(h)
    <2>1. Tail(socketTx[h]) \in Seq(Commands)
      BY <1>0, <1>3, TailFacts DEF HostInv
    <2> QED BY <1>0, <1>1, <1>3, <2>1 DEF Fault, FaultHost, BaseInv, HostInv, SameRest, SameUnit, fsmRegs
  <1>4. ASSUME NEW h \in Hosts, socketRx' = [socketRx EXCEPT ![h] = Append(@, ErrorFrame)],
               UNCHANGED <<tx_busy, socketTx>>
        PROVE  BaseInv' /\ HostInv' /\ FaultSocket(h)
    <2>1. Append(socketRx[h], ErrorFrame) \in Seq(Frame \cup {ErrorFrame})
      BY <1>0, AppendFacts DEF HostInv
    <2> QED BY <1>0, <1>1, <1>4, <2>1 DEF Fault, FaultSocket, BaseInv, HostInv, SameRest, SameUnit, fsmRegs
  <1>5. \/ \E n \in Nodes : tx_busy' = [tx_busy EXCEPT ![n] = NoFrame] /\ UNCHANGED <<socketTx, socketRx>>
        \/ \E h \in Hosts : socketTx[h] # <<>> /\ socketTx' = [socketTx EXCEPT ![h] = Tail(@)]
                            /\ UNCHANGED <<tx_busy, socketRx>>
        \/ \E h \in Hosts : socketRx' = [socketRx EXCEPT ![h] = Append(@, ErrorFrame)]
                            /\ UNCHANGED <<tx_busy, socketTx>>
    BY DEF Fault
  <1> QED BY <1>2, <1>3, <1>4, <1>5

LEMMA BusUnitsType ==
  ASSUME TypeInv, Bus, NEW m \in Nodes
  PROVE  UnitInv(m)'
  <1>0. UnitInv(m)
    BY DEF TypeInv
  <1>1. ASSUME NEW n \in Nodes, BusUnit(n) PROVE UnitInv(m)'
    BY <1>0, <1>1 DEF BusUnit, SameInside, UnitInv
  <1>2. ASSUME NEW n \in Nodes, FaultUnit(n) PROVE UnitInv(m)'
    BY <1>0, <1>2 DEF FaultUnit, SameInside, UnitInv
  <1>3. ASSUME NEW h \in Hosts, BusHost(h) PROVE UnitInv(m)'
    BY <1>0, <1>3 DEF BusHost, SameInside, UnitInv
  <1>4. ASSUME NEW h \in Hosts, FaultHost(h) \/ FaultSocket(h) PROVE UnitInv(m)'
    BY <1>0, <1>4, SameUnitInv DEF FaultHost, FaultSocket
  <1> QED BY <1>1, <1>2, <1>3, <1>4 DEF Bus

LEMMA TailElements ==
  ASSUME NEW S, NEW s \in Seq(S), s # <<>>
  PROVE  /\ \A i \in DOMAIN Tail(s) : i \in Nat /\ i + 1 \in DOMAIN s /\ Tail(s)[i] = s[i + 1]
         /\ \A i \in DOMAIN s : i = 1 \/ (i \in Nat /\ i - 1 \in DOMAIN Tail(s) /\ Tail(s)[i - 1] = s[i])
         /\ 1 \in DOMAIN s /\ Head(s) = s[1] /\ \A i \in DOMAIN s : i \in Nat /\ i >= 1
  BY TailFacts

LEMMA AppendElements ==
  ASSUME NEW S, NEW s \in Seq(S), NEW e \in S
  PROVE  /\ \A i \in DOMAIN Append(s, e) : \/ i \in DOMAIN s /\ Append(s, e)[i] = s[i]
                                           \/ i = Len(s) + 1 /\ Append(s, e)[i] = e
         /\ \A i \in DOMAIN s : /\ i \in DOMAIN Append(s, e) /\ Append(s, e)[i] = s[i]
                                /\ i \in Nat /\ i < Len(s) + 1
         /\ Len(s) + 1 \in DOMAIN Append(s, e) /\ Append(s, e)[Len(s) + 1] = e /\ Len(s) \in Nat
  BY AppendFacts

LEMMA BusSocketsType ==
  ASSUME TypeInv, Bus, NEW g \in Hosts
  PROVE  SocketInv(g)'
  <1>0. SocketInv(g) /\ socketTx[g] \in Seq(Commands) /\ socketRx[g] \in Seq(Frame \cup {ErrorFrame})
    BY DEF TypeInv, HostInv
  <1>a. ASSUME socketTx'[g] = socketTx[g] \/ (socketTx[g] # <<>> /\ socketTx'[g] = Tail(socketTx[g])),
               filter' = filter
        PROVE  \A i \in DOMAIN socketTx'[g] : LET f == socketTx'[g][i] IN
                 /\ f.node \in Nodes => Serves(g, f.node)
                 /\ f.node = Broadcast => filter'[g] = AllNodes
    <2> SUFFICES ASSUME NEW i \in DOMAIN socketTx'[g]
                 PROVE  \E j \in DOMAIN socketTx[g] : socketTx'[g][i] = socketTx[g][j]
      BY <1>0, <1>a DEF SocketInv, Serves
    <2>1. CASE socketTx'[g] = socketTx[g]
      BY <2>1
    <2>2. CASE socketTx[g] # <<>> /\ socketTx'[g] = Tail(socketTx[g])
      BY <1>0, <2>2, TailElements
    <2> QED BY <1>a, <2>1, <2>2
  <1>1. ASSUME NEW n \in Nodes, BusUnit(n) PROVE SocketInv(g)'
    <2>1. \A i \in DOMAIN socketRx'[g] : socketRx'[g][i] = ErrorFrame
            \/ \E m \in Nodes : Serves(g, m) /\ socketRx'[g][i] \in SentBy(m)
      <3>1. tx_busy[n] \in SentBy(n) /\ tx_busy[n] \in Frame
        BY <1>1, SentFacts DEF BusUnit
      <3>2. CASE Serves(g, n)
        <4>1. socketRx'[g] = Append(socketRx[g], tx_busy[n])
          BY <1>1, <3>2 DEF BusUnit
        <4> QED BY <1>0, <3>1, <3>2, <4>1, AppendElements DEF SocketInv
      <3>3. CASE ~Serves(g, n)
        BY <1>0, <1>1, <3>3 DEF BusUnit, SocketInv
      <3> QED BY <3>2, <3>3
    <2> QED BY <1>0, <1>1, <1>a, <2>1 DEF BusUnit, SameRest, SocketInv, Serves
  <1>2. ASSUME NEW n \in Nodes, FaultUnit(n) PROVE SocketInv(g)'
    BY <1>0, <1>2, SameSocketInv DEF FaultUnit
  <1>3. ASSUME NEW h \in Hosts, BusHost(h) \/ FaultHost(h) PROVE SocketInv(g)'
    <2>1. /\ socketTx'[g] = socketTx[g] \/ (socketTx[g] # <<>> /\ socketTx'[g] = Tail(socketTx[g]))
          /\ filter' = filter /\ socketRx'[g] = socketRx[g] /\ call'[g] = call[g]
      BY <1>3 DEF BusHost, FaultHost, SameRest
    <2> QED BY <1>0, <1>a, <2>1 DEF SocketInv, Serves
  <1>4. ASSUME NEW h \in Hosts, FaultSocket(h) PROVE SocketInv(g)'
    <2>1. \A i \in DOMAIN socketRx'[g] : socketRx'[g][i] = ErrorFrame
            \/ \E m \in Nodes : Serves(g, m) /\ socketRx'[g][i] \in SentBy(m)
      <3>1. socketRx'[g] = socketRx[g] \/ socketRx'[g] = Append(socketRx[g], ErrorFrame)
        BY <1>4 DEF FaultSocket
      <3>2. \A i \in DOMAIN socketRx'[g] :
              (i \in DOMAIN socketRx[g] /\ socketRx'[g][i] = socketRx[g][i]) \/ socketRx'[g][i] = ErrorFrame
        <4>1. CASE socketRx'[g] = socketRx[g]
          BY <4>1
        <4>2. CASE socketRx'[g] = Append(socketRx[g], ErrorFrame)
          BY <1>0, <4>2, AppendElements
        <4> QED BY <3>1, <4>1, <4>2
      <3> QED BY <1>0, <3>2 DEF SocketInv
    <2> QED BY <1>0, <1>4, <1>a, <2>1 DEF FaultSocket, SameRest, SocketInv, Serves
  <1> QED BY <1>1, <1>2, <1>3, <1>4 DEF Bus

LEMMA BusFacts ==
  ASSUME TypeInv, (\E n \in Nodes : UnitTransmits(n)) \/ (\E h \in Hosts : HostTransmits(h)) \/ Fault
  PROVE  Bus /\ TypeInv'
  <1>1. Bus /\ BaseInv' /\ HostInv'
    BY UnitTransmitsFacts, HostTransmitsFacts, FaultFacts DEF Bus
  <1>2. \A m \in Nodes : UnitInv(m)'
    BY <1>1, BusUnitsType
  <1>3. \A g \in Hosts : SocketInv(g)'
    BY <1>1, BusSocketsType
  <1> QED BY <1>1, <1>2, <1>3 DEF TypeInv

-----------------------------------------------------------------------------
\* The steps of an object: a call, with its request ...
Order(n, cmd, a, q) == [node |-> n, cmd |-> cmd, addr |-> a, req |-> q,
                        data |-> IF cmd = "WRITE_COMMAND" THEN q ELSE 0]
Asks(h, kind, n, cmd, a) ==
  /\ Settled /\ call[h].kind = "none" /\ nops + 1 \in 1..MaxOps /\ nops' = nops + 1
  /\ n \in Nodes \cup {Broadcast} /\ a \in Addresses /\ cmd \in {"READ_COMMAND", "WRITE_COMMAND"}
  /\ kind \in Single => n \in Nodes /\ Serves(h, n)
  /\ kind \in ToAll => n = Broadcast /\ filter[h] = AllNodes
  /\ kind = "readHlp" => cmd = "READ_COMMAND"
  /\ kind = "writeHlp" => cmd = "WRITE_COMMAND"
  /\ kind \in Single \cup ToAll
  /\ Order(n, cmd, a, nops + 1) \in Commands
  /\ socketTx'[h] = Append(socketTx[h], Order(n, cmd, a, nops + 1))
  /\ call'[h] = [kind |-> kind, node |-> n, addr |-> a, req |-> nops + 1, ids |-> {},
                 floor |-> IF kind = "readHlp" THEN acked[n][a] ELSE 0]
  /\ socketRx'[h] = socketRx[h] /\ inStep'[h] = inStep[h]
  /\ filter' = filter /\ acked' = acked /\ faults' = faults /\ dropped' = dropped /\ pushed' = pushed
  /\ \A m \in Nodes : SameUnit(m)
  /\ \A g \in Hosts \ {h} : SameHost(g)
Request4(h) == ReadHlp(h) \/ WriteHlp(h) \/ ReadHlpBroadcast(h) \/ WriteHlpBroadcast(h)

LEMMA OrderFacts ==
  ASSUME NEW n \in Nodes \cup {Broadcast}, NEW a \in Addresses, NEW q \in 1..MaxOps,
         NEW cmd \in {"READ_COMMAND", "WRITE_COMMAND"}
  PROVE  /\ Order(n, cmd, a, q) \in Commands
         /\ Order(n, cmd, a, q).node = n /\ Order(n, cmd, a, q).cmd = cmd
         /\ Order(n, cmd, a, q).addr = a /\ Order(n, cmd, a, q).req = q
  <1>1. a \in 0..(2 * ErrorBit - 1)
    <2>1. a \in 0..(ErrorBit - 1)
      BY CanHlpUnitAssumption
    <2> QED BY <2>1, Bounds
  <1>2. q \in 0..MaxOps /\ 0 \in 0..MaxOps /\ q # 0
    BY Bounds
  <1>3. cmd \in Downstream \cup Upstream \cup {"TEST"} /\ cmd \in Downstream
    BY DEF Downstream
  <1>4. Order(n, cmd, a, q) \in Frame
    BY <1>1, <1>2, <1>3 DEF Order, Frame
  <1>5. /\ Order(n, cmd, a, q).node = n /\ Order(n, cmd, a, q).cmd = cmd
        /\ Order(n, cmd, a, q).addr = a /\ Order(n, cmd, a, q).req = q
        /\ cmd = "WRITE_COMMAND" => Order(n, cmd, a, q).data = q
    BY DEF Order
  <1> QED BY <1>2, <1>3, <1>4, <1>5 DEF Commands

LEMMA RequestFacts ==
  ASSUME TypeInv, NEW h \in Hosts, NEW kind \in Single \cup ToAll, NEW n \in Nodes \cup {Broadcast},
         NEW cmd \in {"READ_COMMAND", "WRITE_COMMAND"}, NEW a \in Addresses,
         kind \in Single => n \in Nodes /\ Serves(h, n),
         kind \in ToAll => n = Broadcast /\ filter[h] = AllNodes,
         kind = "readHlp" => cmd = "READ_COMMAND", kind = "writeHlp" => cmd = "WRITE_COMMAND",
         Request(h, kind, n, cmd, a)
  PROVE  Asks(h, kind, n, cmd, a) /\ BaseInv' /\ HostInv'
  <1>0. BaseInv /\ HostInv
    BY DEF TypeInv
  <1>1. nops + 1 \in 1..MaxOps
    BY <1>0, Bounds DEF HostInv, Request
  <1> DEFINE f == Order(n, cmd, a, nops + 1)
             c == [kind |-> kind, node |-> n, addr |-> a, req |-> nops + 1, ids |-> {},
                   floor |-> IF kind = "readHlp" THEN acked[n][a] ELSE 0]
  <1>2. f \in Commands
    BY <1>1, OrderFacts
  <1>3. socketTx' = [socketTx EXCEPT ![h] = Append(@, f)] /\ call' = [call EXCEPT ![h] = c]
    BY DEF Request, Order
  <1>4. c \in Calls
    <2>1. kind = "readHlp" => acked[n][a] \in 0..MaxOps
      BY <1>0 DEF HostInv, Single
    <2>2. nops + 1 \in 0..MaxOps /\ 0 \in 0..MaxOps
      BY <1>1, Bounds
    <2> QED BY <2>1, <2>2 DEF Calls
  <1> HIDE DEF f, c
  <1>5. Append(socketTx[h], f) \in Seq(Commands)
    BY <1>0, <1>2, AppendFacts DEF HostInv
  <1>6. socketTx'[h] = Append(socketTx[h], f) /\ call'[h] = c /\ \A g \in Hosts \ {h} : SameHost(g)
    BY <1>0, <1>3 DEF HostInv, SameHost, Request
  <1>7. HostInv'
    <2>1. nops' \in 0..MaxOps
      BY <1>1, Bounds DEF Request
    <2>2. filter' = filter /\ socketRx' = socketRx /\ inStep' = inStep /\ acked' = acked /\ faults' = faults
      BY DEF Request
    <2>3. socketTx' \in [Hosts -> Seq(Commands)]
      BY <1>0, <1>3, <1>5 DEF HostInv
    <2>4. call' \in [Hosts -> Calls]
      BY <1>0, <1>3, <1>4 DEF HostInv
    <2> QED BY <1>0, <2>1, <2>2, <2>3, <2>4 DEF HostInv
  <1>8. BaseInv' /\ (\A m \in Nodes : SameUnit(m)) /\ pushed' = pushed /\ dropped' = dropped
    BY <1>0 DEF Request, fsmVars, fsmRegs, BaseInv, SameUnit
  <1>9. Asks(h, kind, n, cmd, a)
    BY <1>1, <1>2, <1>6, <1>8 DEF Asks, Request, f, c
  <1> QED BY <1>7, <1>8, <1>9

LEMMA CallsFacts ==
  ASSUME TypeInv, NEW h \in Hosts, Request4(h)
  PROVE  /\ BaseInv' /\ HostInv'
         /\ \E kind \in Single \cup ToAll, n \in Nodes \cup {Broadcast},
               cmd \in {"READ_COMMAND", "WRITE_COMMAND"}, a \in Addresses : Asks(h, kind, n, cmd, a)
  <1>1. CASE ReadHlp(h)
    <2>1. PICK n \in Nodes, a \in Addresses : Serves(h, n) /\ Request(h, "readHlp", n, "READ_COMMAND", a)
      BY <1>1 DEF ReadHlp, Serves
    <2>2. Asks(h, "readHlp", n, "READ_COMMAND", a) /\ BaseInv' /\ HostInv'
      BY <2>1, RequestFacts DEF Single, ToAll
    <2> QED BY <2>2 DEF Single
  <1>2. CASE WriteHlp(h)
    <2>1. PICK n \in Nodes, a \in Addresses : Serves(h, n) /\ Request(h, "writeHlp", n, "WRITE_COMMAND", a)
      BY <1>2 DEF WriteHlp, Serves
    <2>2. Asks(h, "writeHlp", n, "WRITE_COMMAND", a) /\ BaseInv' /\ HostInv'
      BY <2>1, RequestFacts DEF Single, ToAll
    <2> QED BY <2>2 DEF Single
  <1>3. CASE ReadHlpBroadcast(h)
    <2>1. PICK a \in Addresses :
            filter[h] = AllNodes /\ Request(h, "readHlpBroadcast", Broadcast, "READ_COMMAND", a)
      BY <1>3 DEF ReadHlpBroadcast
    <2>2. Asks(h, "readHlpBroadcast", Broadcast, "READ_COMMAND", a) /\ BaseInv' /\ HostInv'
      BY <2>1, RequestFacts DEF Single, ToAll
    <2> QED BY <2>2 DEF ToAll
  <1>4. CASE WriteHlpBroadcast(h)
    <2>1. PICK a \in Addresses :
            filter[h] = AllNodes /\ Request(h, "writeHlpBroadcast", Broadcast, "WRITE_COMMAND", a)
      BY <1>4 DEF WriteHlpBroadcast
    <2>2. Asks(h, "writeHlpBroadcast", Broadcast, "WRITE_COMMAND", a) /\ BaseInv' /\ HostInv'
      BY <2>1, RequestFacts DEF Single, ToAll
    <2> QED BY <2>2 DEF ToAll
  <1> QED BY <1>1, <1>2, <1>3, <1>4 DEF Request4

LEMMA AsksType ==
  ASSUME TypeInv, NEW h \in Hosts, Request4(h)
  PROVE  TypeInv'
  <1>1. PICK kind \in Single \cup ToAll, n \in Nodes \cup {Broadcast},
             cmd \in {"READ_COMMAND", "WRITE_COMMAND"}, a \in Addresses : Asks(h, kind, n, cmd, a)
    BY CallsFacts
  <1>2. \A m \in Nodes : UnitInv(m)'
    BY <1>1, SameUnitInv DEF Asks, TypeInv
  <1>3. ASSUME NEW g \in Hosts PROVE SocketInv(g)'
    <2>1. CASE g # h
      BY <1>1, <2>1, SameSocketInv DEF Asks, TypeInv
    <2>2. CASE g = h
      <3>0. SocketInv(h) /\ socketTx[h] \in Seq(Commands)
        BY DEF TypeInv, HostInv
      <3> DEFINE f == Order(n, cmd, a, nops + 1)
      <3>1. f \in Commands /\ f.node = n /\ socketTx'[h] = Append(socketTx[h], f)
        BY <1>1, OrderFacts DEF Asks
      <3>2. (n \in Nodes => Serves(h, n)) /\ (n = Broadcast => filter[h] = AllNodes)
        BY <1>1, CanHlpUnitAssumption DEF Asks
      <3>3. filter' = filter /\ socketRx'[h] = socketRx[h] /\ call'[h].kind = kind /\ call'[h].node = n /\ call'[h].addr = a
        BY <1>1 DEF Asks
      <3>4. kind \in Single => n \in Nodes
        BY <1>1 DEF Asks
      <3> HIDE DEF f
      <3>5. \A i \in DOMAIN socketTx'[h] : LET e == socketTx'[h][i] IN
              /\ e.node \in Nodes => Serves(h, e.node)
              /\ e.node = Broadcast => filter'[h] = AllNodes
        BY <3>0, <3>1, <3>2, <3>3, AppendElements DEF SocketInv, Serves
      <3> QED BY <2>2, <3>0, <3>2, <3>3, <3>4, <3>5 DEF SocketInv, Serves
    <2> QED BY <2>1, <2>2
  <1> QED BY <1>2, <1>3, CallsFacts DEF TypeInv

\* ... and what the call comes to.
HostFrame(h) ==
  /\ \A m \in Nodes : SameUnit(m)
  /\ \A g \in Hosts \ {h} : SameHost(g)
  /\ filter' = filter /\ socketTx'[h] = socketTx[h] /\ nops' = nops /\ faults' = faults
  /\ dropped' = dropped /\ pushed' = pushed
Hears(h) == socketRx[h] # <<>> /\ socketRx'[h] = Tail(socketRx[h])
IsAnswered(h) ==
  /\ HostFrame(h) /\ Hears(h) /\ call[h].kind \in Single
  /\ Verdict(call[h], Head(socketRx[h])) = "none"
  /\ call'[h] = Idle /\ inStep'[h] = inStep[h]
  /\ acked' = IF call[h].kind = "writeHlp" /\ inStep[h]
                THEN [acked EXCEPT ![call[h].node][call[h].addr] = call[h].req] ELSE acked
IsRefused(h) ==
  /\ HostFrame(h) /\ Hears(h) /\ call[h].kind \in Single \cup ToAll /\ acked' = acked
  /\ call'[h] = Idle /\ ~inStep'[h]
IsAnsweredByAll(h) ==
  /\ HostFrame(h) /\ Hears(h) /\ call[h].kind \in ToAll /\ acked' = acked
  /\ call'[h].kind = call[h].kind /\ call'[h].node = call[h].node /\ call'[h].req = call[h].req
  /\ inStep'[h] = inStep[h]
HearsNothing(h) ==
  /\ HostFrame(h) /\ socketRx'[h] = socketRx[h] /\ socketRx[h] = <<>> /\ acked' = acked
  /\ call[h].kind \in Single \cup ToAll \cup {"flushHLP"}
  /\ call'[h] = Idle /\ (inStep'[h] => SilentFor(h))
FlushStarts(h) ==
  /\ HostFrame(h) /\ socketRx'[h] = socketRx[h] /\ acked' = acked
  /\ call[h].kind = "none" /\ call'[h].kind = "flushHLP"
FlushHears(h) ==
  /\ HostFrame(h) /\ Hears(h) /\ acked' = acked
  /\ call[h].kind = "flushHLP" /\ call'[h] = call[h]
HostSide(h) == IsAnswered(h) \/ IsRefused(h) \/ IsAnsweredByAll(h) \/ HearsNothing(h)
               \/ FlushStarts(h) \/ FlushHears(h)
HostAction(h) == Accepts(h) \/ Rejects(h) \/ ReceiveBroadcast(h) \/ Timeout(h)
                 \/ FlushBegin(h) \/ FlushDiscards(h) \/ FlushEnd(h)

LEMMA IdleFacts == Idle \in Calls /\ Idle.kind = "none"
  BY Bounds DEF Idle, Calls

LEMMA HostActionFacts ==
  ASSUME TypeInv, NEW h \in Hosts, HostAction(h)
  PROVE  HostSide(h) /\ BaseInv' /\ HostInv'
  <1>0. BaseInv /\ HostInv /\ SocketInv(h) /\ socketRx[h] \in Seq(Frame \cup {ErrorFrame}) /\ call[h] \in Calls
    BY DEF TypeInv, HostInv
  <1>1. socketRx[h] # <<>> => Tail(socketRx[h]) \in Seq(Frame \cup {ErrorFrame})
    BY <1>0, TailFacts
  <1>2. UNCHANGED <<fsmVars, filter, socketTx, nops, faults>>
    BY DEF HostAction, Accepts, Rejects, ReceiveBroadcast, Timeout, FlushBegin, FlushDiscards, FlushEnd
  <1>3. BaseInv' /\ (\A m \in Nodes : SameUnit(m)) /\ dropped' = dropped /\ pushed' = pushed
    BY <1>0, <1>2 DEF fsmVars, fsmRegs, BaseInv, SameUnit
  <1>4. ASSUME socketRx' \in [Hosts -> Seq(Frame \cup {ErrorFrame})], call' \in [Hosts -> Calls],
               inStep' \in [Hosts -> BOOLEAN], acked' \in [Nodes -> [Addresses -> 0..MaxOps]]
        PROVE  HostInv'
    BY <1>0, <1>2, <1>4 DEF HostInv
  <1>5. ASSUME \A g \in Hosts \ {h} : socketRx'[g] = socketRx[g] /\ call'[g] = call[g] /\ inStep'[g] = inStep[g]
        PROVE  HostFrame(h)
    BY <1>2, <1>3, <1>5 DEF HostFrame, SameHost
  <1>6. CASE Accepts(h)
    <2>1. /\ call[h].kind \in Single /\ socketRx[h] # <<>> /\ inStep' = inStep
          /\ Verdict(call[h], Head(socketRx[h])) = "none"
          /\ call' = [call EXCEPT ![h] = Idle]
          /\ socketRx' = [socketRx EXCEPT ![h] = Tail(@)]
          /\ acked' = IF call[h].kind = "writeHlp" /\ inStep[h]
                THEN [acked EXCEPT ![call[h].node][call[h].addr] = call[h].req] ELSE acked
      BY <1>6 DEF Accepts, Returns
    <2>2. call[h].node \in Nodes /\ call[h].addr \in Addresses /\ call[h].req \in 0..MaxOps
      BY <1>0, <2>1 DEF SocketInv, Calls
    <2>3. acked' \in [Nodes -> [Addresses -> 0..MaxOps]]
      BY <1>0, <2>1, <2>2 DEF HostInv
    <2>4. HostInv'
      BY <1>0, <1>1, <1>4, <2>1, <2>3, IdleFacts DEF HostInv
    <2>5. /\ HostFrame(h) /\ Hears(h) /\ call'[h] = Idle /\ inStep'[h] = inStep[h]
      BY <1>0, <1>5, <2>1 DEF HostInv, Hears
    <2> QED BY <1>3, <2>1, <2>4, <2>5 DEF HostSide, IsAnswered
  <1>7. ASSUME call[h].kind \in Single \cup ToAll, socketRx[h] # <<>>, acked' = acked, Raises(h),
               socketRx' = [socketRx EXCEPT ![h] = Tail(@)]
        PROVE  HostSide(h) /\ BaseInv' /\ HostInv'
    <2>1. call' = [call EXCEPT ![h] = Idle] /\ inStep' = [inStep EXCEPT ![h] = FALSE]
      BY <1>7 DEF Raises, Returns
    <2>2. HostInv'
      BY <1>0, <1>1, <1>4, <1>7, <2>1, IdleFacts DEF HostInv
    <2>3. HostFrame(h) /\ Hears(h) /\ call'[h] = Idle /\ ~inStep'[h]
      BY <1>0, <1>5, <1>7, <2>1 DEF HostInv, Hears
    <2> QED BY <1>3, <1>7, <2>2, <2>3 DEF HostSide, IsRefused
  <1>a. CASE Rejects(h)
    BY <1>7, <1>a DEF Rejects
  <1>b. CASE ReceiveBroadcast(h)
    <2> DEFINE f == Head(socketRx[h])
               e == BroadcastVerdict(call[h], f)
    <2>1. /\ call[h].kind \in ToAll /\ socketRx[h] # <<>> /\ acked' = acked
          /\ socketRx' = [socketRx EXCEPT ![h] = Tail(@)]
          /\ IF e # "none" THEN Raises(h)
             ELSE call' = [call EXCEPT ![h].ids = @ \cup {f.node}] /\ inStep' = inStep
      BY <1>b DEF ReceiveBroadcast
    <2>2. e = "none" => f # ErrorFrame
      BY DEF BroadcastVerdict
    <2>3. f # ErrorFrame => f.node \in Nodes
      BY <1>0, <2>1, TailElements, SentFacts DEF SocketInv
    <2> HIDE DEF e, f
    <2>4. CASE e # "none"
      BY <1>7, <2>1, <2>4
    <2>5. CASE e = "none"
      <3> DEFINE c == [call[h] EXCEPT !.ids = @ \cup {f.node}]
      <3>1. c \in Calls /\ c.kind = call[h].kind /\ c.node = call[h].node /\ c.req = call[h].req
        BY <1>0, <2>2, <2>3, <2>5 DEF Calls
      <3>2. call' = [call EXCEPT ![h] = c]
        BY <2>1, <2>5
      <3> HIDE DEF c
      <3>3. HostInv'
        BY <1>0, <1>1, <1>4, <2>1, <2>5, <3>1, <3>2 DEF HostInv
      <3>4. HostFrame(h) /\ Hears(h) /\ call'[h] = c /\ inStep'[h] = inStep[h]
        BY <1>0, <1>5, <2>1, <2>5, <3>2 DEF HostInv, Hears
      <3> QED BY <1>3, <2>1, <3>1, <3>3, <3>4 DEF HostSide, IsAnsweredByAll
    <2> QED BY <2>4, <2>5
  <1>8. ASSUME call[h].kind \in Single \cup ToAll \cup {"flushHLP"}, TimesOut(h), UNCHANGED <<socketRx, acked>>
        PROVE  HostSide(h) /\ BaseInv' /\ HostInv'
    <2>1. /\ socketRx[h] = <<>> /\ call' = [call EXCEPT ![h] = Idle]
          /\ inStep' = [inStep EXCEPT ![h] = SilentFor(h)]
      BY <1>8 DEF TimesOut, Returns
    <2>2. SilentFor(h) \in BOOLEAN
      BY DEF SilentFor
    <2>3. HostInv'
      BY <1>0, <1>4, <1>8, <2>1, <2>2, IdleFacts DEF HostInv
    <2>4. HostFrame(h) /\ call'[h] = Idle /\ inStep'[h] = SilentFor(h)
      BY <1>0, <1>5, <1>8, <2>1 DEF HostInv
    <2> QED BY <1>3, <1>8, <2>1, <2>3, <2>4 DEF HostSide, HearsNothing
  <1>c. CASE Timeout(h)
    BY <1>8, <1>c DEF Timeout
  <1>9. CASE FlushBegin(h)
    <2> DEFINE c == [call[h] EXCEPT !.kind = "flushHLP"]
    <2>1. c \in Calls /\ c.kind = "flushHLP"
      BY <1>0 DEF Calls
    <2>2. call' = [call EXCEPT ![h] = c]
      BY <1>9 DEF FlushBegin
    <2> HIDE DEF c
    <2>3. HostInv'
      BY <1>0, <1>4, <1>9, <2>1, <2>2 DEF HostInv, FlushBegin
    <2>4. HostFrame(h)
      BY <1>0, <1>5, <1>9, <2>2 DEF HostInv, FlushBegin
    <2>5. FlushStarts(h)
      BY <1>0, <1>9, <2>1, <2>2, <2>4 DEF HostInv, FlushBegin, FlushStarts
    <2> QED BY <1>3, <2>3, <2>5 DEF HostSide
  <1>10. CASE FlushDiscards(h)
    <2>1. HostInv'
      BY <1>0, <1>1, <1>4, <1>10 DEF HostInv, FlushDiscards
    <2>2. HostFrame(h)
      BY <1>0, <1>5, <1>10 DEF HostInv, FlushDiscards
    <2>3. FlushHears(h)
      BY <1>0, <1>10, <2>2 DEF HostInv, FlushDiscards, FlushHears, Hears
    <2> QED BY <1>3, <2>1, <2>3 DEF HostSide
  <1>11. CASE FlushEnd(h)
    BY <1>8, <1>11 DEF FlushEnd
  <1> QED BY <1>6, <1>a, <1>b, <1>c, <1>9, <1>10, <1>11 DEF HostAction

LEMMA HostSideType ==
  ASSUME TypeInv, NEW h \in Hosts, HostAction(h)
  PROVE  TypeInv'
  <1>1. HostSide(h) /\ BaseInv' /\ HostInv'
    BY HostActionFacts
  <1>2. HostFrame(h) /\ (socketRx'[h] = socketRx[h] \/ Hears(h))
        /\ (call'[h].kind \in Single => call'[h] = call[h])
    BY <1>1, IdleFacts DEF HostSide, IsAnswered, IsRefused, IsAnsweredByAll, HearsNothing, FlushStarts, FlushHears,
                           Single, ToAll
  <1>3. \A m \in Nodes : UnitInv(m)'
    BY <1>2, SameUnitInv DEF HostFrame, TypeInv
  <1>4. ASSUME NEW g \in Hosts PROVE SocketInv(g)'
    <2>0. SocketInv(g) /\ socketRx[g] \in Seq(Frame \cup {ErrorFrame})
      BY DEF TypeInv, HostInv
    <2>1. CASE g # h
      BY <1>2, <2>0, <2>1, SameSocketInv DEF HostFrame
    <2>2. CASE g = h
      <3>1. \A i \in DOMAIN socketRx'[h] : \E j \in DOMAIN socketRx[h] : socketRx'[h][i] = socketRx[h][j]
        <4>1. CASE Hears(h)
          BY <2>0, <2>2, <4>1, TailElements DEF Hears
        <4>2. CASE socketRx'[h] = socketRx[h]
          BY <4>2
        <4> QED BY <1>2, <4>1, <4>2
      <3>2. \A i \in DOMAIN socketRx'[h] : socketRx'[h][i] = ErrorFrame
              \/ \E n \in Nodes : Serves(h, n) /\ socketRx'[h][i] \in SentBy(n)
        BY <2>0, <2>2, <3>1 DEF SocketInv
      <3>3. filter' = filter /\ socketTx'[h] = socketTx[h]
        BY <1>2 DEF HostFrame
      <3> QED BY <1>2, <2>0, <2>2, <3>2, <3>3 DEF SocketInv, Serves
    <2> QED BY <2>1, <2>2
  <1> QED BY <1>1, <1>3, <1>4 DEF TypeInv

-----------------------------------------------------------------------------
\* Every step is one of those.
LEMMA Steps ==
  ASSUME TypeInv, Next
  PROVE  \/ \E n \in Nodes : Apart(n) /\ Inside(n)
         \/ Bus
         \/ \E h \in Hosts : HostSide(h)
         \/ \E h \in Hosts, kind \in Single \cup ToAll, n \in Nodes \cup {Broadcast},
               cmd \in {"READ_COMMAND", "WRITE_COMMAND"}, a \in Addresses : Asks(h, kind, n, cmd, a)
  BY InsideFacts, BusFacts, HostActionFacts, CallsFacts DEF Next, HostAction, Request4

LEMMA TypeStep == TypeInv /\ [Next]_vars => TypeInv'
  <1> SUFFICES ASSUME TypeInv, [Next]_vars PROVE TypeInv'
    OBVIOUS
  <1>1. CASE Next
    BY <1>1, InsideType, BusFacts, HostSideType, AsksType DEF Next, HostAction, Request4
  <1>2. CASE UNCHANGED vars
    BY <1>2 DEF vars, fsmVars, fsmRegs, hostVars, TypeInv, BaseInv, HostInv, UnitInv, SocketInv, Serves
  <1> QED BY <1>1, <1>2

LEMMA TypeAlways == Spec => []TypeInv
  BY InitType, TypeStep, PTL DEF Spec

\* TypeOK: registers, FIFOs, sockets, calls and history keep their types, and
\* the FIFOs their depth.
THEOREM TypeCorrect == Spec => []TypeOK
  <1>1. TypeInv => TypeOK
    <2> SUFFICES ASSUME TypeInv PROVE TypeOK
      OBVIOUS
    <2>1. ASSUME NEW n \in Nodes
          PROVE  /\ dp0[n] \in Seq(Frame) /\ Len(dp0[n]) <= FifoDepth
                 /\ dp1[n] \in Seq(Frame) /\ Len(dp1[n]) <= FifoDepth
      <3>1. dp0[n] \in Seq(Commands) /\ dp1[n] \in Seq(Results) /\ UnitInv(n)
        BY DEF TypeInv, BaseInv
      <3>2. Seq(Commands) \subseteq Seq(Frame) /\ Seq(Results) \subseteq Seq(Frame)
        BY DEF Commands, Results
      <3> QED BY <3>1, <3>2 DEF UnitInv
    <2>2. ASSUME NEW h \in Hosts
          PROVE  socketTx[h] \in Seq(Frame) /\ socketRx[h] \in Seq(Frame \cup {ErrorFrame})
      <3>1. Seq(Commands) \subseteq Seq(Frame)
        BY DEF Commands
      <3> QED BY <3>1 DEF TypeInv, HostInv
    <2>3. FsmTypeOK
      BY <2>1 DEF TypeInv, BaseInv, States, FsmTypeOK
    <2> QED BY <2>2, <2>3 DEF TypeInv, HostInv, TypeOK
  <1> QED BY <1>1, TypeAlways, PTL

-----------------------------------------------------------------------------
(***************************************************************************)
(* Requests keep their order.                                              *)
(***************************************************************************)
LEMMA Numbers ==
  ASSUME TypeInv, NEW n \in Nodes
  PROVE  /\ dp0[n] \in Seq(Commands) /\ \A i \in DOMAIN dp0[n] : dp0[n][i] \in Commands /\ dp0[n][i].req \in Nat
         /\ Held(n) => dp0_dt[n] \in Commands /\ dp0_dt[n].req \in Nat
         /\ Got(n) => can_rx_msg[n] \in Commands /\ can_rx_msg[n].req \in Nat
         /\ \A a \in Addresses : wb[n][a] \in Nat
         /\ nops \in Nat
         /\ \A h \in Hosts : /\ socketTx[h] \in Seq(Commands)
                             /\ \A i \in DOMAIN socketTx[h] : socketTx[h][i] \in Commands /\ socketTx[h][i].req \in Nat
  <1> USE DEF TypeInv, BaseInv, HostInv
  <1>0. \A f \in Commands : f.req \in Nat
    BY CommandFacts
  <1>1. dp0[n] \in Seq(Commands) /\ \A i \in DOMAIN dp0[n] : dp0[n][i] \in Commands
    BY ElementOfSeq, LenProperties
  <1>2. Held(n) => dp0_dt[n] \in Commands
    BY DEF Held, UnitInv
  <1>3. Got(n) => can_rx_msg[n] \in Commands
    BY SentFacts DEF Got, UnitInv
  <1>4. \A a \in Addresses : wb[n][a] \in Nat
    BY Bounds
  <1>5. nops \in Nat
    BY Bounds
  <1>6. ASSUME NEW h \in Hosts
        PROVE  socketTx[h] \in Seq(Commands) /\ \A i \in DOMAIN socketTx[h] : socketTx[h][i] \in Commands
    BY ElementOfSeq, LenProperties
  <1> QED BY <1>0, <1>1, <1>2, <1>3, <1>4, <1>5, <1>6

LEMMA BeforeLater ==
  ASSUME TypeInv, NEW n \in Nodes, NEW q \in Nat, NEW r \in Nat, q <= r, Before(n, q)
  PROVE  Before(n, r)
  BY Numbers DEF Before

\* A step inside a unit keeps its order, and what was sent later.
LEMMA InsideOrder ==
  ASSUME TypeInv, NEW n \in Nodes, Inside(n), OrderInv(n)
  PROVE  OrderInv(n)' /\ \A q \in Nat : Before(n, q) => Before(n, q)'
  <1>0. /\ dp0[n] \in Seq(Commands) /\ \A i \in DOMAIN dp0[n] : dp0[n][i] \in Commands /\ dp0[n][i].req \in Nat
        /\ Held(n) => dp0_dt[n] \in Commands /\ dp0_dt[n].req \in Nat
        /\ Got(n) => can_rx_msg[n] \in Commands /\ can_rx_msg[n].req \in Nat
        /\ \A a \in Addresses : wb[n][a] \in Nat
    BY Numbers
  <1>1. CASE Ignores(n)
    BY <1>1 DEF Ignores, SameBus, OrderInv, Before, Held, Got, Increasing
  <1>2. CASE TakesRead(n) \/ TakesWrite(n)
    <2>1. ~Got(n)' /\ dp0_dt'[n] = can_rx_msg[n] /\ Got(n) /\ dp0'[n] = dp0[n] /\ wb'[n] = wb[n]
      BY <1>2 DEF TakesRead, TakesWrite, SameBus, Got
    <2> QED BY <2>1 DEF OrderInv, Before, Increasing
  <1>3. CASE TakesResult(n) \/ Notifies(n) \/ Sends(n)
    <2>1. ~Held(n)' /\ Got(n)' = Got(n) /\ can_rx_msg'[n] = can_rx_msg[n] /\ dp0'[n] = dp0[n] /\ wb'[n] = wb[n]
      BY <1>3 DEF TakesResult, Notifies, Sends, SameBus, Held, Got, Addressed
    <2> QED BY <2>1 DEF OrderInv, Before, Increasing
  <1>4. CASE Pushes(n)
    <2>1. /\ Held(n) /\ ~Held(n)' /\ Got(n)' = Got(n) /\ can_rx_msg'[n] = can_rx_msg[n] /\ wb'[n] = wb[n]
          /\ dp0'[n] = Append(dp0[n], dp0_dt[n]) /\ dp0_dt[n] \in Commands
      BY <1>0, <1>4 DEF Pushes, Held, Got, Addressed
    <2>2. /\ \A i \in DOMAIN dp0'[n] : \/ i \in DOMAIN dp0[n] /\ dp0'[n][i] = dp0[n][i]
                                       \/ i = Len(dp0[n]) + 1 /\ dp0'[n][i] = dp0_dt[n]
          /\ \A i \in DOMAIN dp0[n] : i \in Nat /\ i < Len(dp0[n]) + 1
          /\ Len(dp0[n]) \in Nat
      BY <1>0, <2>1, AppendElements
    <2>3. \A i \in DOMAIN dp0'[n] : dp0'[n][i].req \in Nat /\ dp0'[n][i].req <= dp0_dt[n].req
      BY <1>0, <2>1, <2>2 DEF OrderInv
    <2>4. Increasing(dp0[n])'
      <3> SUFFICES ASSUME NEW i \in DOMAIN dp0'[n], NEW j \in DOMAIN dp0'[n], i < j
                   PROVE  dp0'[n][i].req < dp0'[n][j].req
        BY DEF Increasing
      <3>1. i \in DOMAIN dp0[n] /\ dp0'[n][i] = dp0[n][i]
        BY <2>2
      <3> QED BY <2>1, <2>2, <3>1 DEF OrderInv, Increasing
    <2>5. Got(n) => \A i \in DOMAIN dp0'[n] : dp0'[n][i].req < can_rx_msg[n].req
      BY <1>0, <2>1, <2>3 DEF OrderInv
    <2>6. \A a \in Addresses, i \in DOMAIN dp0'[n] : wb[n][a] < dp0'[n][i].req
      BY <2>1, <2>2 DEF OrderInv
    <2>7. OrderInv(n)'
      BY <2>1, <2>4, <2>5, <2>6 DEF OrderInv
    <2>8. ASSUME NEW q \in Nat, Before(n, q) PROVE Before(n, q)'
      BY <1>0, <2>1, <2>2, <2>8 DEF Before
    <2> QED BY <2>7, <2>8
  <1>5. CASE Writes(n) \/ Reads(n)
    <2>1. /\ dp0[n] # <<>> /\ dp0'[n] = Tail(dp0[n])
          /\ Held(n)' = Held(n) /\ dp0_dt'[n] = dp0_dt[n]
          /\ Got(n)' = Got(n) /\ can_rx_msg'[n] = can_rx_msg[n]
      BY <1>5 DEF Writes, Reads, SameFsm, Held, Got, Addressed
    <2>2. /\ \A i \in DOMAIN dp0'[n] : i \in Nat /\ i + 1 \in DOMAIN dp0[n] /\ dp0'[n][i] = dp0[n][i + 1]
          /\ 1 \in DOMAIN dp0[n] /\ Head(dp0[n]) = dp0[n][1] /\ \A i \in DOMAIN dp0[n] : i \in Nat /\ i >= 1
      BY <1>0, <2>1, TailElements
    <2>3. \A a \in Addresses : wb'[n][a] = wb[n][a] \/ wb'[n][a] = dp0[n][1].req
      <3>1. CASE Reads(n)
        BY <3>1 DEF Reads
      <3>2. CASE Writes(n)
        <4>1. dp0[n][1].data = dp0[n][1].req
          BY <1>0, <2>2, <3>2, CommandFacts DEF Writes
        <4>2. wb[n] \in [Addresses -> 0..MaxOps]
          BY DEF TypeInv, BaseInv
        <4> QED BY <2>2, <3>2, <4>1, <4>2 DEF Writes
      <3> QED BY <1>5, <3>1, <3>2
    <2>4. \A i \in DOMAIN dp0'[n] : dp0[n][1].req < dp0'[n][i].req
      <3> SUFFICES ASSUME NEW i \in DOMAIN dp0'[n] PROVE dp0[n][1].req < dp0'[n][i].req
        OBVIOUS
      <3>1. i \in Nat /\ i + 1 \in DOMAIN dp0[n] /\ i + 1 >= 1 /\ dp0'[n][i] = dp0[n][i + 1]
        BY <2>2
      <3>2. i # 0
        BY <1>0, <2>1, TailFacts
      <3> QED BY <2>2, <3>1, <3>2 DEF OrderInv, Increasing
    <2>5. Increasing(dp0[n])'
      <3> SUFFICES ASSUME NEW i \in DOMAIN dp0'[n], NEW j \in DOMAIN dp0'[n], i < j
                   PROVE  dp0'[n][i].req < dp0'[n][j].req
        BY DEF Increasing
      <3>1. /\ i + 1 \in DOMAIN dp0[n] /\ j + 1 \in DOMAIN dp0[n] /\ i + 1 < j + 1
            /\ dp0'[n][i] = dp0[n][i + 1] /\ dp0'[n][j] = dp0[n][j + 1]
        BY <2>2
      <3> QED BY <3>1 DEF OrderInv, Increasing
    <2>6. \A i \in DOMAIN dp0'[n] : \E j \in DOMAIN dp0[n] : dp0'[n][i] = dp0[n][j]
      BY <2>2
    <2>7. /\ Held(n) => /\ \A i \in DOMAIN dp0'[n] : dp0'[n][i].req < dp0_dt[n].req
                        /\ \A a \in Addresses : wb'[n][a] < dp0_dt[n].req
          /\ Got(n) => /\ \A i \in DOMAIN dp0'[n] : dp0'[n][i].req < can_rx_msg[n].req
                       /\ \A a \in Addresses : wb'[n][a] < can_rx_msg[n].req
                       /\ Held(n) => dp0_dt[n].req < can_rx_msg[n].req
      BY <2>2, <2>3, <2>6 DEF OrderInv
    <2>8. \A a \in Addresses : \A i \in DOMAIN dp0'[n] : wb'[n][a] < dp0'[n][i].req
      BY <2>3, <2>4, <2>6 DEF OrderInv
    <2>9. OrderInv(n)'
      BY <2>1, <2>5, <2>7, <2>8 DEF OrderInv
    <2>10. ASSUME NEW q \in Nat, Before(n, q) PROVE Before(n, q)'
      BY <2>1, <2>2, <2>3, <2>6, <2>10 DEF Before
    <2> QED BY <2>9, <2>10
  <1> QED BY <1>1, <1>2, <1>3, <1>4, <1>5 DEF Inside

LEMMA SameOrder ==
  ASSUME NEW n \in Nodes, OrderInv(n), SameUnit(n)
  PROVE  OrderInv(n)' /\ \A q \in Nat : Before(n, q) => Before(n, q)'
  BY DEF OrderInv, Before, SameUnit, Held, Got, Addressed, Increasing

\* An object's queue, seen from the units.
LEMMA QueueStep ==
  ASSUME TypeInv, NEW h \in Hosts, QueueInv(h), SameHost(h), nops' = nops,
         \A n \in Nodes : \A q \in Nat : Before(n, q) => Before(n, q)'
  PROVE  QueueInv(h)'
  <1>1. \A i \in DOMAIN socketTx[h] : socketTx[h][i].req \in Nat
    BY CommandFacts, ElementOfSeq, LenProperties DEF TypeInv, HostInv
  <1>2. nops + 1 \in Nat
    BY Bounds DEF TypeInv, HostInv
  <1> QED BY <1>1, <1>2 DEF QueueInv, SameHost, Increasing, Serves

LEMMA InsideQueues ==
  ASSUME TypeInv, AllOrder, AllQueues, NEW n \in Nodes, Apart(n), Inside(n)
  PROVE  AllOrder' /\ AllQueues'
  <1>1. ASSUME NEW m \in Nodes PROVE OrderInv(m)' /\ \A q \in Nat : Before(m, q) => Before(m, q)'
    <2>1. OrderInv(m)
      BY DEF AllOrder
    <2>2. CASE m = n
      BY <2>1, <2>2, InsideOrder
    <2>3. CASE m # n
      BY <2>1, <2>3, SameOrder DEF Apart
    <2> QED BY <2>2, <2>3
  <1>2. ASSUME NEW h \in Hosts PROVE QueueInv(h)'
    <2>1. QueueInv(h) /\ SameHost(h) /\ nops' = nops
      BY DEF AllQueues, Apart, hostVars
    <2> QED BY <1>1, <2>1, QueueStep
  <1> QED BY <1>1, <1>2 DEF AllOrder, AllQueues

\* A message that is no request for a unit is not queued before anything.
LEMMA NotGot ==
  ASSUME NEW m \in Nodes, OrderInv(m), SameInside(m), ~Got(m)' \/ can_rx_msg'[m] = can_rx_msg[m]
  PROVE  OrderInv(m)' /\ \A q \in Nat : Before(m, q) => Before(m, q)'
  BY DEF OrderInv, Before, SameInside, Held, Got, Addressed, Increasing

LEMMA BusQueues ==
  ASSUME TypeInv, AllOrder, AllQueues, Bus
  PROVE  AllOrder' /\ AllQueues'
  <1>0. (\A m \in Nodes : OrderInv(m)) /\ (\A h \in Hosts : QueueInv(h))
    BY DEF AllOrder, AllQueues
  <1>1. ASSUME NEW n \in Nodes, BusUnit(n) \/ FaultUnit(n) PROVE AllOrder' /\ AllQueues'
    <2>1. ASSUME NEW m \in Nodes PROVE OrderInv(m)' /\ \A q \in Nat : Before(m, q) => Before(m, q)'
      <3>1. SameInside(m) /\ (~Got(m)' \/ can_rx_msg'[m] = can_rx_msg[m])
        <4>1. CASE FaultUnit(n)
          BY <4>1 DEF FaultUnit
        <4>2. CASE BusUnit(n) /\ m # n
          <5>1. tx_busy[n].cmd \notin Downstream /\ can_rx_msg'[m] = tx_busy[n] /\ SameInside(m)
            BY <4>2, SentFacts DEF BusUnit
          <5> QED BY <5>1 DEF Got
        <4>3. CASE BusUnit(n) /\ m = n
          BY <4>3 DEF BusUnit
        <4> QED BY <1>1, <4>1, <4>2, <4>3
      <3> QED BY <1>0, <3>1, NotGot
    <2>2. ASSUME NEW h \in Hosts PROVE QueueInv(h)'
      <3>1. socketTx'[h] = socketTx[h] /\ filter' = filter /\ nops' = nops
        BY <1>1 DEF BusUnit, FaultUnit, SameHost, SameRest
      <3>2. \A i \in DOMAIN socketTx[h] : socketTx[h][i].req \in Nat
        BY CommandFacts, ElementOfSeq, LenProperties DEF TypeInv, HostInv
      <3>3. nops + 1 \in Nat
        BY Bounds DEF TypeInv, HostInv
      <3> QED BY <1>0, <2>1, <3>1, <3>2, <3>3 DEF QueueInv, Increasing, Serves
    <2> QED BY <2>1, <2>2 DEF AllOrder, AllQueues
  <1>2. ASSUME NEW h \in Hosts, BusHost(h) \/ FaultHost(h) PROVE AllOrder' /\ AllQueues'
    <2> DEFINE f == Head(socketTx[h])
    <2>1. /\ socketTx[h] # <<>> /\ f \in Commands /\ f.req \in Nat /\ filter' = filter /\ nops' = nops
          /\ \A g \in Hosts : socketTx'[g] = IF g = h THEN Tail(socketTx[h]) ELSE socketTx[g]
      BY <1>2, QueuedFacts, CommandFacts DEF BusHost, FaultHost, SameRest
    <2>2. /\ socketTx[h] \in Seq(Commands) /\ nops \in Nat /\ filter \in Setups
          /\ \A g \in Hosts : socketTx[g] \in Seq(Commands)
      BY Bounds DEF TypeInv, HostInv
    <2>3. /\ \A i \in DOMAIN Tail(socketTx[h]) : /\ i \in Nat /\ i + 1 \in DOMAIN socketTx[h]
                                                 /\ Tail(socketTx[h])[i] = socketTx[h][i + 1]
          /\ 1 \in DOMAIN socketTx[h] /\ f = socketTx[h][1]
      BY <2>1, <2>2, TailElements
    <2>4. /\ \A g \in Hosts : \A i \in DOMAIN socketTx'[g] : socketTx'[g][i] \in Commands /\ socketTx'[g][i].req \in Nat
      <3>1. \A g \in Hosts : socketTx'[g] \in Seq(Commands)
        BY <2>1, <2>2, TailFacts
      <3> QED BY <3>1, CommandFacts, ElementOfSeq, LenProperties
    <2>5. \A i \in DOMAIN Tail(socketTx[h]) : f.req < Tail(socketTx[h])[i].req
      <3> SUFFICES ASSUME NEW i \in DOMAIN Tail(socketTx[h]) PROVE f.req < Tail(socketTx[h])[i].req
        OBVIOUS
      <3>1. i \in Nat /\ i # 0
        BY <2>1, <2>2, TailFacts
      <3> QED BY <1>0, <2>3, <3>1 DEF QueueInv, Increasing
    <2> HIDE DEF f
    <2>6. ASSUME NEW m \in Nodes
          PROVE  /\ SameInside(m)
                 /\ ~Got(m)' \/ can_rx_msg'[m] = can_rx_msg[m]
                    \/ (can_rx_msg'[m] = f /\ Serves(h, m) /\ Before(m, f.req))
      <3>1. CASE FaultHost(h)
        BY <3>1 DEF FaultHost, SameUnit, SameInside
      <3>2. CASE BusHost(h)
        <4>1. SameInside(m) /\ can_rx_msg'[m] = f /\ (Addressed(m, f) => Serves(h, m))
          BY <3>2 DEF BusHost, f
        <4>2. Got(m)' => Addressed(m, f)
          BY <4>1 DEF Got, Addressed
        <4>3. Serves(h, m) => Before(m, f.req)
          BY <1>0, <2>3 DEF QueueInv
        <4> QED BY <4>1, <4>2, <4>3
      <3> QED BY <1>2, <3>1, <3>2
    <2>7. ASSUME NEW m \in Nodes PROVE OrderInv(m)'
      <3>1. CASE ~Got(m)' \/ can_rx_msg'[m] = can_rx_msg[m]
        BY <1>0, <2>6, <3>1, NotGot
      <3>2. CASE can_rx_msg'[m] = f /\ Before(m, f.req)
        BY <1>0, <2>6, <3>2 DEF OrderInv, Before, SameInside, Held, Increasing
      <3> QED BY <2>6, <3>1, <3>2
    <2>8. ASSUME NEW m \in Nodes, NEW q \in Nat, Before(m, q), Serves(h, m) => f.req < q PROVE Before(m, q)'
      <3>1. CASE ~Got(m)' \/ can_rx_msg'[m] = can_rx_msg[m]
        BY <1>0, <2>6, <2>8, <3>1, NotGot
      <3>2. CASE can_rx_msg'[m] = f /\ Serves(h, m)
        BY <2>6, <2>8, <3>2 DEF Before, SameInside, Held
      <3> QED BY <2>6, <3>1, <3>2
    <2>9. ASSUME NEW g \in Hosts PROVE QueueInv(g)'
      <3>1. Increasing(socketTx[g])' /\ (\A i \in DOMAIN socketTx'[g] : socketTx'[g][i].req <= nops)
        <4>1. CASE g # h
          BY <1>0, <2>1, <4>1 DEF QueueInv, Increasing
        <4>2. CASE g = h
          <5>1. socketTx'[h] = Tail(socketTx[h])
            BY <2>1
          <5>2. \A i, j \in DOMAIN socketTx'[h] : i < j => i + 1 < j + 1
            BY <2>3, <5>1
          <5> QED BY <1>0, <2>3, <4>2, <5>1, <5>2 DEF QueueInv, Increasing
        <4> QED BY <4>1, <4>2
      <3>2. f.req < nops + 1
        BY <1>0, <2>1, <2>2, <2>3 DEF QueueInv
      <3>3. \A m \in Nodes : \A q \in Nat : q = nops + 1 => Before(m, q)'
        BY <1>0, <2>2, <2>8, <3>2 DEF QueueInv
      <3>4. ASSUME NEW m \in Nodes, NEW i \in DOMAIN socketTx'[g], Serves(g, m),
                   NEW q \in Nat, q = socketTx'[g][i].req
            PROVE  Before(m, q)'
        <4>1. Before(m, q) /\ (Serves(h, m) => f.req < q)
          <5>1. CASE g = h
            BY <1>0, <2>1, <2>3, <2>5, <3>4, <5>1 DEF QueueInv
          <5>2. CASE g # h
            <6>1. ~Serves(h, m)
              BY <2>2, <3>4, <5>2, OneServer
            <6> QED BY <1>0, <2>1, <3>4, <5>2, <6>1 DEF QueueInv
          <5> QED BY <5>1, <5>2
        <4> QED BY <2>8, <4>1
      <3>5. (\A m \in Nodes : Before(m, nops + 1))'
        BY <2>1, <2>2, <3>3 DEF Before
      <3>6. \A m \in Nodes : \A i \in DOMAIN socketTx'[g] : Serves(g, m) =>
              \A q \in Nat : q = socketTx'[g][i].req => Before(m, q)'
        BY <3>4
      <3> QED BY <2>1, <2>4, <3>1, <3>5, <3>6 DEF QueueInv, Serves
    <2> QED BY <2>7, <2>9 DEF AllOrder, AllQueues
  <1>3. ASSUME NEW h \in Hosts, FaultSocket(h) PROVE AllOrder' /\ AllQueues'
    <2>1. \A m \in Nodes : OrderInv(m)' /\ \A q \in Nat : Before(m, q) => Before(m, q)'
      BY <1>0, <1>3, SameOrder DEF FaultSocket
    <2>2. ASSUME NEW g \in Hosts PROVE QueueInv(g)'
      <3>1. socketTx'[g] = socketTx[g] /\ filter' = filter /\ nops' = nops
        BY <1>3 DEF FaultSocket, SameRest
      <3>2. \A i \in DOMAIN socketTx[g] : socketTx[g][i].req \in Nat
        BY CommandFacts, ElementOfSeq, LenProperties DEF TypeInv, HostInv
      <3>3. nops + 1 \in Nat
        BY Bounds DEF TypeInv, HostInv
      <3> QED BY <1>0, <2>1, <3>1, <3>2, <3>3 DEF QueueInv, Increasing, Serves
    <2> QED BY <2>1, <2>2 DEF AllOrder, AllQueues
  <1> QED BY <1>1, <1>2, <1>3 DEF Bus

LEMMA HostQueues ==
  ASSUME TypeInv, AllOrder, AllQueues, NEW h \in Hosts, HostSide(h)
  PROVE  AllOrder' /\ AllQueues'
  <1>0. (\A m \in Nodes : OrderInv(m)) /\ (\A g \in Hosts : QueueInv(g))
    BY DEF AllOrder, AllQueues
  <1>1. HostFrame(h)
    BY DEF HostSide, IsAnswered, IsRefused, IsAnsweredByAll, HearsNothing, FlushStarts, FlushHears
  <1>2. \A m \in Nodes : OrderInv(m)' /\ \A q \in Nat : Before(m, q) => Before(m, q)'
    BY <1>0, <1>1, SameOrder DEF HostFrame
  <1>3. ASSUME NEW g \in Hosts PROVE QueueInv(g)'
    <2>1. socketTx'[g] = socketTx[g] /\ filter' = filter /\ nops' = nops
      BY <1>1 DEF HostFrame, SameHost
    <2>2. \A i \in DOMAIN socketTx[g] : socketTx[g][i].req \in Nat
      BY CommandFacts, ElementOfSeq, LenProperties DEF TypeInv, HostInv
    <2>3. nops + 1 \in Nat
      BY Bounds DEF TypeInv, HostInv
    <2> QED BY <1>0, <1>2, <2>1, <2>2, <2>3 DEF QueueInv, Increasing, Serves
  <1> QED BY <1>2, <1>3 DEF AllOrder, AllQueues

LEMMA AsksQueues ==
  ASSUME TypeInv, AllOrder, AllQueues, NEW h \in Hosts, NEW kind, NEW n, NEW cmd, NEW a,
         Asks(h, kind, n, cmd, a)
  PROVE  AllOrder' /\ AllQueues'
  <1> DEFINE f == Order(n, cmd, a, nops + 1)
  <1>0. (\A m \in Nodes : OrderInv(m)) /\ (\A g \in Hosts : QueueInv(g))
    BY DEF AllOrder, AllQueues
  <1>1. nops \in Nat /\ nops' = nops + 1 /\ filter' = filter /\ f \in Commands /\ f.req = nops + 1
    BY Bounds DEF Asks, TypeInv, HostInv, Order
  <1>2. \A m \in Nodes : OrderInv(m)' /\ \A q \in Nat : Before(m, q) => Before(m, q)'
    BY <1>0, SameOrder DEF Asks
  <1>3. ASSUME NEW m \in Nodes PROVE Before(m, nops + 1) /\ Before(m, nops + 2)
    BY <1>0, <1>1, BeforeLater DEF QueueInv
  <1>4. \A m \in Nodes : \A q \in Nat : q = nops + 1 \/ q = nops + 2 => Before(m, q)'
    <2>1. nops + 1 \in Nat /\ nops + 2 \in Nat
      BY <1>1
    <2> QED BY <1>2, <1>3, <2>1
  <1>5. \A m \in Nodes : (\A q \in Nat : q = nops' + 1 => Before(m, q)')
    BY <1>1, <1>4
  <1> HIDE DEF f
  <1>6. ASSUME NEW g \in Hosts PROVE QueueInv(g)'
    <2>0. /\ socketTx[g] \in Seq(Commands)
          /\ \A i \in DOMAIN socketTx[g] : socketTx[g][i].req \in Nat
      BY CommandFacts, ElementOfSeq, LenProperties DEF TypeInv, HostInv
    <2>1. CASE g = h
      <3>1. socketTx'[h] = Append(socketTx[h], f)
        BY DEF Asks, f
      <3>2. /\ \A i \in DOMAIN socketTx'[h] : \/ i \in DOMAIN socketTx[h] /\ socketTx'[h][i] = socketTx[h][i]
                                              \/ i = Len(socketTx[h]) + 1 /\ socketTx'[h][i] = f
            /\ \A i \in DOMAIN socketTx[h] : i \in Nat /\ i < Len(socketTx[h]) + 1
            /\ Len(socketTx[h]) \in Nat
        BY <1>1, <2>0, <2>1, <3>1, AppendElements
      <3>3. \A i \in DOMAIN socketTx'[h] : socketTx'[h][i].req \in Nat /\ socketTx'[h][i].req <= nops + 1
        BY <1>0, <1>1, <2>0, <2>1, <3>2 DEF QueueInv
      <3>4. Increasing(socketTx[h])'
        <4> SUFFICES ASSUME NEW i \in DOMAIN socketTx'[h], NEW j \in DOMAIN socketTx'[h], i < j
                     PROVE  socketTx'[h][i].req < socketTx'[h][j].req
          BY DEF Increasing
        <4>1. i \in DOMAIN socketTx[h] /\ socketTx'[h][i] = socketTx[h][i]
          BY <3>2
        <4>2. socketTx[h][i].req < nops + 1
          BY <1>0, <1>1, <2>0, <2>1, <4>1 DEF QueueInv
        <4> QED BY <1>0, <1>1, <3>2, <4>1, <4>2 DEF QueueInv, Increasing
      <3>5. \A m \in Nodes : \A i \in DOMAIN socketTx'[h] : Serves(h, m) =>
              \A q \in Nat : q = socketTx'[h][i].req => Before(m, q)'
        <4>1. ASSUME NEW m \in Nodes, NEW i \in DOMAIN socketTx'[h], Serves(h, m),
                     NEW q \in Nat, q = socketTx'[h][i].req
              PROVE  Before(m, q)'
          <5>1. q = nops + 1 \/ Before(m, q)
            BY <1>0, <1>1, <2>1, <3>2, <4>1 DEF QueueInv
          <5> QED BY <1>2, <1>4, <5>1
        <4> QED BY <4>1
      <3>6. (\A m \in Nodes : Before(m, nops + 1))'
        BY <1>1, <1>5 DEF Before
      <3> QED BY <1>1, <2>1, <3>3, <3>4, <3>5, <3>6 DEF QueueInv, Serves
    <2>2. CASE g # h
      <3>1. socketTx'[g] = socketTx[g]
        BY <2>2 DEF Asks, SameHost
      <3>2. \A i \in DOMAIN socketTx[g] : socketTx[g][i].req <= nops'
        BY <1>0, <1>1, <2>0 DEF QueueInv
      <3>3. (\A m \in Nodes : Before(m, nops + 1))'
        BY <1>1, <1>5 DEF Before
      <3> QED BY <1>0, <1>1, <1>2, <2>0, <3>1, <3>2, <3>3 DEF QueueInv, Increasing, Serves
    <2> QED BY <2>1, <2>2
  <1> QED BY <1>2, <1>6 DEF AllOrder, AllQueues

LEMMA InitOrder == Init => AllOrder /\ AllQueues
  <1> SUFFICES ASSUME Init PROVE AllOrder /\ AllQueues
    OBVIOUS
  <1>1. ASSUME NEW n \in Nodes PROVE OrderInv(n) /\ Before(n, nops + 1)
    BY <1>1 DEF Init, FsmInit, OrderInv, Before, Increasing, Held, Got
  <1>2. ASSUME NEW h \in Hosts PROVE QueueInv(h)
    BY <1>1 DEF Init, QueueInv, Increasing
  <1> QED BY <1>1, <1>2 DEF AllOrder, AllQueues

LEMMA OrderStep == TypeInv /\ AllOrder /\ AllQueues /\ [Next]_vars => AllOrder' /\ AllQueues'
  <1> SUFFICES ASSUME TypeInv, AllOrder, AllQueues, [Next]_vars PROVE AllOrder' /\ AllQueues'
    OBVIOUS
  <1>1. CASE Next
    BY <1>1, Steps, InsideQueues, BusQueues, HostQueues, AsksQueues
  <1>2. CASE UNCHANGED vars
    BY <1>2 DEF vars, fsmVars, fsmRegs, hostVars, AllOrder, AllQueues, OrderInv, QueueInv, Before, Increasing,
                Held, Got, Addressed, Serves
  <1> QED BY <1>1, <1>2

LEMMA OrderAlways == Spec => [](TypeInv /\ AllOrder /\ AllQueues)
  BY InitType, InitOrder, TypeStep, OrderStep, PTL DEF Spec

-----------------------------------------------------------------------------
(***************************************************************************)
(* A request is lost only if it is counted.                                *)
(***************************************************************************)
Active(h) == call[h].kind \in Single \cup ToAll
Lost(h, n) == Underway(h, n) \/ call[h].req \in pushed[n] \/ faults > 0 \/ dropped[n] > 0

LEMMA InitLoss == Init => AllLast /\ LossInv
  BY DEF Init, FsmInit, AllLast, LastInv, LossInv, Idle, Single, ToAll

LEMMA LastStep ==
  ASSUME TypeInv, AllQueues, AllLast, Next
  PROVE  AllLast'
  <1> SUFFICES ASSUME NEW h \in Hosts, Active(h)'
               PROVE  \A i \in DOMAIN socketTx'[h] : socketTx'[h][i].req = call'[h].req =>
                        socketTx'[h][i].node = call'[h].node
    BY DEF AllLast, LastInv, Active
  <1>0. /\ QueueInv(h) /\ LastInv(h) /\ socketTx[h] \in Seq(Commands) /\ nops \in Nat
        /\ \A i \in DOMAIN socketTx[h] : socketTx[h][i].req \in Nat
    BY CommandFacts, ElementOfSeq, LenProperties, Bounds DEF AllQueues, AllLast, TypeInv, HostInv
  <1>1. ASSUME call'[h].kind = call[h].kind /\ call'[h].node = call[h].node /\ call'[h].req = call[h].req,
               socketTx'[h] = socketTx[h] \/ (socketTx[h] # <<>> /\ socketTx'[h] = Tail(socketTx[h]))
        PROVE  \A i \in DOMAIN socketTx'[h] : socketTx'[h][i].req = call'[h].req =>
                        socketTx'[h][i].node = call'[h].node
    <2>1. \A i \in DOMAIN socketTx'[h] : \E j \in DOMAIN socketTx[h] : socketTx'[h][i] = socketTx[h][j]
      <3>1. CASE socketTx'[h] = socketTx[h]
        BY <3>1
      <3>2. CASE socketTx[h] # <<>> /\ socketTx'[h] = Tail(socketTx[h])
        BY <1>0, <3>2, TailElements
      <3> QED BY <1>1, <3>1, <3>2
    <2> QED BY <1>0, <1>1, <2>1 DEF LastInv, Active
  <1>2. CASE \E n \in Nodes : Apart(n) /\ Inside(n)
    BY <1>1, <1>2 DEF Apart, SameHost
  <1>3. CASE Bus
    BY <1>1, <1>3 DEF Bus, BusUnit, FaultUnit, BusHost, FaultHost, FaultSocket, SameHost
  <1>4. ASSUME NEW g \in Hosts, HostSide(g)
        PROVE  \A i \in DOMAIN socketTx'[h] : socketTx'[h][i].req = call'[h].req =>
                        socketTx'[h][i].node = call'[h].node
    <2>1. HostFrame(g)
      BY <1>4 DEF HostSide, IsAnswered, IsRefused, IsAnsweredByAll, HearsNothing, FlushStarts, FlushHears
    <2>2. CASE g # h
      BY <1>1, <2>1, <2>2 DEF HostFrame, SameHost
    <2>3. CASE g = h
      <3>1. call'[h].kind = call[h].kind /\ call'[h].node = call[h].node /\ call'[h].req = call[h].req
        BY <1>4, <2>3, IdleFacts DEF HostSide, IsAnswered, IsRefused, IsAnsweredByAll,
                                     HearsNothing, FlushStarts, FlushHears, Active, Single, ToAll
      <3> QED BY <1>1, <2>1, <2>3, <3>1 DEF HostFrame
    <2> QED BY <2>2, <2>3
  <1>5. ASSUME NEW g \in Hosts, NEW kind, NEW n, NEW cmd, NEW a, Asks(g, kind, n, cmd, a)
        PROVE  \A i \in DOMAIN socketTx'[h] : socketTx'[h][i].req = call'[h].req =>
                        socketTx'[h][i].node = call'[h].node
    <2>1. CASE g # h
      BY <1>1, <1>5, <2>1 DEF Asks, SameHost
    <2>2. CASE g = h
      <3> DEFINE f == Order(n, cmd, a, nops + 1)
      <3>1. /\ f \in Commands /\ f.node = n /\ socketTx'[h] = Append(socketTx[h], f)
            /\ call'[h].req = nops + 1 /\ call'[h].node = n
        BY <1>5, <2>2 DEF Asks, Order
      <3> HIDE DEF f
      <3>2. \A i \in DOMAIN socketTx'[h] : \/ i \in DOMAIN socketTx[h] /\ socketTx'[h][i] = socketTx[h][i]
                                           \/ socketTx'[h][i] = f
        BY <1>0, <3>1, AppendElements
      <3>3. \A i \in DOMAIN socketTx[h] : socketTx[h][i].req # nops + 1
        BY <1>0 DEF QueueInv
      <3> QED BY <3>1, <3>2, <3>3
    <2> QED BY <2>1, <2>2
  <1> QED BY <1>2, <1>3, <1>4, <1>5, Steps

LEMMA LossStep ==
  ASSUME TypeInv, AllLast, LossInv, Next
  PROVE  LossInv'
  <1> SUFFICES ASSUME NEW h \in Hosts, NEW n \in Nodes, Active(h)', call'[h].node \in {n, Broadcast}
               PROVE  Lost(h, n)'
    BY DEF LossInv, Active, Lost
  <1>0. /\ Active(h) /\ call[h].node \in {n, Broadcast} => Lost(h, n)
        /\ LastInv(h) /\ UnitInv(n) /\ socketTx[h] \in Seq(Commands) /\ faults \in Nat /\ dropped[n] \in Nat
    BY Bounds DEF AllLast, TypeInv, BaseInv, HostInv, LossInv, Active, Lost
  <1>a. faults' \in Nat /\ dropped'[n] \in Nat
    BY TypeStep, Bounds DEF TypeInv, BaseInv, HostInv
  <1>1. ASSUME Active(h), call'[h].node = call[h].node, call'[h].req = call[h].req,
               faults' >= faults, dropped'[n] >= dropped[n], pushed[n] \subseteq pushed'[n],
               Underway(h, n) => Lost(h, n)'
        PROVE  Lost(h, n)'
    BY <1>0, <1>1, <1>a DEF Lost
  <1>2. ASSUME NEW m \in Nodes, Apart(m), Inside(m) PROVE Lost(h, n)'
    <2>1. call'[h] = call[h] /\ socketTx'[h] = socketTx[h]
      BY <1>2 DEF Apart, SameHost
    <2>2. Got(n) => \/ Got(n)' /\ can_rx_msg'[n] = can_rx_msg[n]
                    \/ Held(n)' /\ dp0_dt'[n] = can_rx_msg[n]
      <3>1. CASE m # n
        BY <1>2, <3>1 DEF Apart, SameUnit, Got, Addressed
      <3>2. CASE m = n
        BY <1>2, <3>2 DEF Inside, Ignores, TakesRead, TakesWrite, TakesResult, Notifies, Pushes, Sends, Writes, Reads,
                          SameFsm, Got, Held, Addressed
      <3> QED BY <3>1, <3>2
    <2>3. Held(n) => \/ Held(n)' /\ dp0_dt'[n] = dp0_dt[n]
                     \/ dp0_dt[n].req \in pushed'[n]
      <3>1. CASE m # n
        BY <1>2, <3>1 DEF Apart, SameUnit, Held
      <3>2. CASE m = n
        BY <1>2, <3>2 DEF Apart, Held
      <3> QED BY <3>1, <3>2
    <2>4. Underway(h, n) => Lost(h, n)'
      BY <2>1, <2>2, <2>3 DEF Underway, Lost
    <2>5. faults' = faults /\ dropped' = dropped /\ pushed[n] \subseteq pushed'[n]
      BY <1>2 DEF Apart
    <2>6. Active(h)
      BY <2>1 DEF Active
    <2> QED BY <1>0, <1>1, <2>1, <2>4, <2>5, <2>6
  <1>3. CASE Bus
    <2>1. \/ /\ faults' = faults /\ Counts(n) /\ pushed' = pushed
             /\ hlp_state'[n] = hlp_state[n] /\ dp0_dt'[n] = dp0_dt[n]
          \/ faults' = faults + 1
      BY <1>3 DEF Bus, BusUnit, FaultUnit, BusHost, FaultHost, FaultSocket, SameRest, SameInside
    <2>2. call'[h] = call[h] /\ Active(h)
      BY <1>3 DEF Bus, BusUnit, FaultUnit, BusHost, FaultHost, FaultSocket, SameHost, Active
    <2>3. CASE faults' = faults + 1
      BY <1>0, <2>3 DEF Lost
    <2>4. CASE faults' # faults + 1
      <3>1. \/ socketTx'[h] = socketTx[h]
            \/ /\ BusHost(h) /\ socketTx[h] # <<>> /\ socketTx'[h] = Tail(socketTx[h])
               /\ can_rx_msg'[n] = Head(socketTx[h])
        BY <1>3, <2>4 DEF Bus, BusUnit, BusHost, FaultUnit, FaultHost, FaultSocket
      <3>2. Got(n) => (Got(n)' /\ can_rx_msg'[n] = can_rx_msg[n]) \/ dropped'[n] > 0
        BY <2>1, <2>4 DEF Counts, Got, Addressed
      <3>3. Held(n) => Held(n)' /\ dp0_dt'[n] = dp0_dt[n]
        BY <2>1, <2>4 DEF Held
      <3>4. ASSUME NEW i \in DOMAIN socketTx[h], socketTx[h][i].req = call[h].req,
                   call[h].node \in {n, Broadcast}
            PROVE  Underway(h, n)'
        <4>1. CASE socketTx'[h] = socketTx[h]
          BY <2>2, <3>4, <4>1 DEF Underway
        <4>2. CASE socketTx[h] # <<>> /\ socketTx'[h] = Tail(socketTx[h]) /\ can_rx_msg'[n] = Head(socketTx[h])
          <5>1. CASE i = 1
            <6>1. Head(socketTx[h]) = socketTx[h][i] /\ Head(socketTx[h]) \in Commands
              BY <1>0, <4>2, <5>1, TailElements, TailFacts
            <6>2. socketTx[h][i].node = call[h].node
              BY <1>0, <2>2, <3>4 DEF LastInv, Active
            <6>3. can_rx_msg'[n] # NoFrame /\ can_rx_msg'[n].cmd \in Downstream
              BY <4>2, <6>1, CommandFacts
            <6>4. Got(n)'
              BY <3>4, <4>2, <6>1, <6>2, <6>3 DEF Got, Addressed
            <6> QED BY <2>2, <3>4, <4>2, <6>1, <6>4 DEF Underway
          <5>2. CASE i # 1
            <6>1. i - 1 \in DOMAIN socketTx'[h] /\ socketTx'[h][i - 1] = socketTx[h][i]
              BY <1>0, <4>2, <5>2, TailElements
            <6> QED BY <2>2, <3>4, <6>1 DEF Underway
          <5> QED BY <5>1, <5>2
        <4> QED BY <3>1, <4>1, <4>2
      <3>5. Underway(h, n) => Lost(h, n)'
        BY <2>2, <3>2, <3>3, <3>4 DEF Underway, Lost
      <3> QED BY <1>0, <1>1, <2>1, <2>2, <2>4, <3>5 DEF Counts
    <2> QED BY <2>3, <2>4
  <1>4. ASSUME NEW g \in Hosts, HostSide(g) PROVE Lost(h, n)'
    <2>1. HostFrame(g)
      BY <1>4 DEF HostSide, IsAnswered, IsRefused, IsAnsweredByAll, HearsNothing, FlushStarts, FlushHears
    <2>2. call'[h].kind = call[h].kind /\ call'[h].node = call[h].node /\ call'[h].req = call[h].req
      <3>1. CASE g # h
        BY <2>1, <3>1 DEF HostFrame, SameHost
      <3>2. CASE g = h
        BY <1>4, <3>2, IdleFacts DEF HostSide, IsAnswered, IsRefused, IsAnsweredByAll,
                                     HearsNothing, FlushStarts, FlushHears, Active, Single, ToAll
      <3> QED BY <3>1, <3>2
    <2>3. Lost(h, n) => Lost(h, n)'
      BY <2>1, <2>2 DEF HostFrame, SameHost, SameUnit, Lost, Underway, Got, Held, Addressed
    <2> QED BY <1>0, <2>2, <2>3 DEF Active
  <1>5. ASSUME NEW g \in Hosts, NEW kind, NEW m, NEW cmd, NEW a, Asks(g, kind, m, cmd, a)
        PROVE  Lost(h, n)'
    <2>1. CASE g # h
      <3>1. call'[h] = call[h] /\ socketTx'[h] = socketTx[h]
        BY <1>5, <2>1 DEF Asks, SameHost
      <3>2. Lost(h, n) => Lost(h, n)'
        BY <1>5, <3>1 DEF Asks, SameUnit, Lost, Underway, Got, Held, Addressed
      <3> QED BY <1>0, <3>1, <3>2 DEF Active
    <2>2. CASE g = h
      <3> DEFINE f == Order(m, cmd, a, nops + 1)
      <3>1. /\ f \in Commands /\ f.req = nops + 1 /\ socketTx'[h] = Append(socketTx[h], f)
            /\ call'[h].req = nops + 1
        BY <1>5, <2>2 DEF Asks, Order
      <3> HIDE DEF f
      <3>2. \E i \in DOMAIN socketTx'[h] : socketTx'[h][i] = f
        BY <1>0, <3>1, AppendElements
      <3> QED BY <3>1, <3>2 DEF Lost, Underway
    <2> QED BY <2>1, <2>2
  <1> QED BY <1>2, <1>3, <1>4, <1>5, Steps

LEMMA LossAlways == Spec => []LossInv
  <1>1. TypeInv /\ AllQueues /\ AllLast /\ LossInv /\ [Next]_vars => AllLast' /\ LossInv'
    <2> SUFFICES ASSUME TypeInv, AllQueues, AllLast, LossInv, [Next]_vars PROVE AllLast' /\ LossInv'
      OBVIOUS
    <2>1. CASE Next
      BY <2>1, LastStep, LossStep
    <2>2. CASE UNCHANGED vars
      BY <2>2 DEF vars, fsmVars, fsmRegs, hostVars, AllLast, LastInv, LossInv, Underway, Got, Held, Addressed
    <2> QED BY <2>1, <2>2
  <1> QED BY InitLoss, OrderAlways, <1>1, PTL DEF Spec

\* NoSilentDrop: when everything has come to rest, a unit that does not have
\* the request of a call in progress has counted a dropped message, or the bus
\* has lost one, whatever the callers do and however late the answers are.
THEOREM DropsCounted == Spec => []NoSilentDrop
  <1>1. LossInv => NoSilentDrop
    BY DEF LossInv, Underway, NoSilentDrop, Silent, UnitSilent, Got, Held
  <1> QED BY <1>1, LossAlways, PTL

-----------------------------------------------------------------------------
(***************************************************************************)
(* What of a call is on its way: the request or the answer, in one place.  *)
(***************************************************************************)
UnitAlone(n) ==
  /\ Len(dp1[n]) <= 1 /\ OneRead(n)
  /\ \A p, q \in Places : At(n, p) /\ At(n, q) => p = q
Somewhere(n) == \E p \in Places : At(n, p)

LEMMA Moved ==
  ASSUME NEW n \in Nodes, UnitAlone(n), NEW from \in Places, NEW to \in Places,
         At(n, from), ~At(n, from)',
         \A q \in Places \ {to} : At(n, q)' => At(n, q)
  PROVE  /\ \A p, q \in Places : At(n, p)' /\ At(n, q)' => p = q
         /\ Somewhere(n)
  <1>1. ASSUME NEW q \in Places, At(n, q)' PROVE q = to
    BY <1>1 DEF UnitAlone
  <1> QED BY <1>1 DEF Somewhere

LEMMA Shrunk ==
  ASSUME NEW n \in Nodes, UnitAlone(n), \A q \in Places : At(n, q)' => At(n, q)
  PROVE  /\ \A p, q \in Places : At(n, p)' /\ At(n, q)' => p = q
         /\ (\E q \in Places : At(n, q)') => Somewhere(n)
  BY DEF UnitAlone, Somewhere

\* The reads in a FIFO that loses its head, or is given an element.
LEMMA TailReads ==
  ASSUME TypeInv, NEW n \in Nodes, dp0[n] # <<>>, dp0'[n] = Tail(dp0[n]), OneRead(n)
  PROVE  /\ OneRead(n)' /\ (AtDp0(n)' => AtDp0(n))
         /\ Head(dp0[n]).cmd = "READ_COMMAND" => AtDp0(n) /\ ~AtDp0(n)'
  <1>1. /\ \A i \in DOMAIN dp0'[n] : i \in Nat /\ i + 1 \in DOMAIN dp0[n] /\ dp0'[n][i] = dp0[n][i + 1]
        /\ 1 \in DOMAIN dp0[n] /\ Head(dp0[n]) = dp0[n][1]
    BY Numbers, TailElements
  <1>2. \A i \in DOMAIN dp0'[n] : i # 0
    BY Numbers, TailFacts
  <1>3. OneRead(n)'
    <2> SUFFICES ASSUME NEW i \in DOMAIN dp0'[n], NEW j \in DOMAIN dp0'[n],
                        dp0'[n][i].cmd = "READ_COMMAND", dp0'[n][j].cmd = "READ_COMMAND"
                 PROVE  i = j
      BY DEF OneRead
    <2>1. i + 1 = j + 1
      BY <1>1 DEF OneRead
    <2> QED BY <1>1, <2>1
  <1>4. AtDp0(n)' => AtDp0(n)
    BY <1>1 DEF AtDp0
  <1>5. ASSUME Head(dp0[n]).cmd = "READ_COMMAND" PROVE AtDp0(n) /\ ~AtDp0(n)'
    <2>1. ASSUME NEW i \in DOMAIN dp0'[n], dp0'[n][i].cmd = "READ_COMMAND" PROVE FALSE
      <3>1. i + 1 = 1
        BY <1>1, <1>5, <2>1 DEF OneRead
      <3> QED BY <1>1, <1>2, <3>1
    <2> QED BY <1>1, <1>5, <2>1 DEF AtDp0
  <1> QED BY <1>3, <1>4, <1>5

LEMMA AppendReads ==
  ASSUME TypeInv, NEW n \in Nodes, NEW f \in Commands, dp0'[n] = Append(dp0[n], f), OneRead(n),
         f.cmd = "READ_COMMAND" => ~AtDp0(n)
  PROVE  OneRead(n)' /\ (AtDp0(n)' /\ f.cmd # "READ_COMMAND" => AtDp0(n))
  <1>1. \A i \in DOMAIN dp0'[n] : \/ i \in DOMAIN dp0[n] /\ dp0'[n][i] = dp0[n][i]
                                  \/ i = Len(dp0[n]) + 1 /\ dp0'[n][i] = f
    BY Numbers, AppendElements
  <1> QED BY <1>1 DEF OneRead, AtDp0

LEMMA OneTail ==
  ASSUME NEW S, NEW s \in Seq(S), s # <<>>, Len(s) <= 1
  PROVE  Tail(s) = <<>>
  <1>1. Len(s) = 1 /\ Len(Tail(s)) = 0 /\ Tail(s) \in Seq(S)
    BY TailFacts
  <1> QED BY <1>1, EmptySeq

LEMMA InsideMoves ==
  ASSUME TypeInv, NEW n \in Nodes, Inside(n), UnitAlone(n)
  PROVE  UnitAlone(n)' /\ ((\E q \in Places : At(n, q)') => Somewhere(n))
  <1>0. /\ UnitInv(n) /\ OneRead(n) /\ Len(dp1[n]) <= 1
        /\ dp0[n] \in Seq(Commands) /\ dp1[n] \in Seq(Results)
    BY DEF TypeInv, BaseInv, UnitAlone
  <1> USE DEF SameBus
  <1>a. ASSUME dp0'[n] = dp0[n] PROVE OneRead(n)' /\ AtDp0(n)' = AtDp0(n)
    BY <1>0, <1>a DEF OneRead, AtDp0
  <1>1. CASE Ignores(n)
    <2>1. \A q \in Places : At(n, q)' => At(n, q)
      BY <1>1, <1>a DEF Ignores, At, Places, Got, AtTx, AtBus
    <2> QED BY <1>0, <1>1, <1>a, <2>1, Shrunk DEF Ignores, UnitAlone
  <1>2. CASE TakesRead(n)
    <2>1. /\ At(n, "rx") /\ ~At(n, "rx")'
          /\ \A q \in Places \ {"dt"} : At(n, q)' => At(n, q)
      BY <1>2, <1>a DEF TakesRead, At, Places, Got, AtTx, AtBus
    <2>2. "rx" \in Places /\ "dt" \in Places
      BY DEF Places
    <2>3. (\A p, q \in Places : At(n, p)' /\ At(n, q)' => p = q) /\ Somewhere(n)
      BY <2>1, <2>2, Moved
    <2> QED BY <1>0, <1>2, <1>a, <2>3 DEF TakesRead, UnitAlone
  <1>3. CASE TakesWrite(n)
    <2>1. /\ At(n, "rx") /\ ~At(n, "rx")'
          /\ \A q \in Places \ {"tx"} : At(n, q)' => At(n, q)
      BY <1>3, <1>a DEF TakesWrite, At, Places, Got, AtBus
    <2>2. "rx" \in Places /\ "tx" \in Places
      BY DEF Places
    <2>3. (\A p, q \in Places : At(n, p)' /\ At(n, q)' => p = q) /\ Somewhere(n)
      BY <2>1, <2>2, Moved
    <2> QED BY <1>0, <1>3, <1>a, <2>3 DEF TakesWrite, UnitAlone
  <1>4. CASE TakesResult(n)
    <2>0. dp1'[n] = <<>>
      <3>1. dp1[n] # <<>> /\ dp1'[n] = Tail(dp1[n])
        BY <1>4 DEF TakesResult
      <3>2. Tail(dp1[n]) = <<>>
        BY <1>0, <3>1, OneTail
      <3> QED BY <3>1, <3>2
    <2>1. /\ At(n, "dp1") /\ ~At(n, "dp1")'
          /\ \A q \in Places \ {"tx"} : At(n, q)' => At(n, q)
      BY <1>4, <1>a, <2>0 DEF TakesResult, At, Places, Got, Addressed, AtBus
    <2>2. "dp1" \in Places /\ "tx" \in Places
      BY DEF Places
    <2>3. (\A p, q \in Places : At(n, p)' /\ At(n, q)' => p = q) /\ Somewhere(n)
      BY <2>1, <2>2, Moved
    <2> QED BY <1>0, <1>4, <1>a, <2>0, <2>3 DEF TakesResult, UnitAlone
  <1>5. CASE Notifies(n)
    <2>0. ~AtTx(n)'
      BY <1>5 DEF Notifies, Notices, AtTx, Answer
    <2>1. \A q \in Places : At(n, q)' => At(n, q)
      BY <1>5, <1>a, <2>0 DEF Notifies, At, Places, Got, Addressed, AtBus
    <2> QED BY <1>0, <1>5, <1>a, <2>1, Shrunk DEF Notifies, UnitAlone
  <1>6. CASE Pushes(n) /\ hlp_state[n] = "WB_READ_INITIATE"
    <2>0. dp0_dt[n] \in Commands /\ At(n, "dt") /\ dp0'[n] = Append(dp0[n], dp0_dt[n])
      BY <1>0, <1>6 DEF UnitInv, At, Pushes
    <2>1. "dt" \in Places /\ "dp0" \in Places
      BY DEF Places
    <2>2. ~AtDp0(n)
      <3>1. ~At(n, "dp0")
        BY <2>0, <2>1 DEF UnitAlone
      <3> QED BY <3>1 DEF At
    <2>3. OneRead(n)'
      BY <1>0, <2>0, <2>2, AppendReads
    <2>4. ~At(n, "dt")' /\ \A q \in Places \ {"dp0"} : At(n, q)' => At(n, q)
      BY <1>6 DEF Pushes, At, Places, Got, Addressed, AtTx, AtBus
    <2>5. (\A p, q \in Places : At(n, p)' /\ At(n, q)' => p = q) /\ Somewhere(n)
      BY <2>0, <2>1, <2>4, Moved
    <2> QED BY <1>0, <1>6, <2>3, <2>5 DEF Pushes, UnitAlone
  <1>7. CASE Pushes(n) /\ hlp_state[n] # "WB_READ_INITIATE"
    <2>0. /\ dp0_dt[n] \in Commands /\ dp0_dt[n].cmd = "WRITE_COMMAND"
          /\ dp0'[n] = Append(dp0[n], dp0_dt[n])
      BY <1>0, <1>7 DEF UnitInv, Pushes, Held
    <2>1. OneRead(n)' /\ (AtDp0(n)' => AtDp0(n))
      BY <1>0, <2>0, AppendReads
    <2>2. \A q \in Places : At(n, q)' => At(n, q)
      BY <1>7, <2>1 DEF Pushes, At, Places, Got, Addressed, AtTx, AtBus
    <2> QED BY <1>0, <1>7, <2>1, <2>2, Shrunk DEF Pushes, UnitAlone
  <1>8. CASE Sends(n) /\ AtTx(n)
    <2>1. /\ At(n, "tx") /\ ~At(n, "tx")'
          /\ \A q \in Places \ {"bus"} : At(n, q)' => At(n, q)
      BY <1>8, <1>a DEF Sends, At, Places, Got, Addressed, AtTx
    <2>2. "tx" \in Places /\ "bus" \in Places
      BY DEF Places
    <2>3. (\A p, q \in Places : At(n, p)' /\ At(n, q)' => p = q) /\ Somewhere(n)
      BY <2>1, <2>2, Moved
    <2> QED BY <1>0, <1>8, <1>a, <2>3 DEF Sends, UnitAlone
  <1>9. CASE Sends(n) /\ ~AtTx(n)
    <2>1. \A q \in Places : At(n, q)' => At(n, q)
      BY <1>9, <1>a DEF Sends, At, Places, Got, Addressed, AtTx, AtBus
    <2> QED BY <1>0, <1>9, <1>a, <2>1, Shrunk DEF Sends, UnitAlone
  <1>10. CASE Writes(n)
    <2>1. OneRead(n)' /\ (AtDp0(n)' => AtDp0(n))
      BY <1>0, <1>10, TailReads DEF Writes
    <2>2. \A q \in Places : At(n, q)' => At(n, q)
      BY <1>10, <2>1 DEF Writes, SameFsm, At, Places, Got, Addressed, AtTx, AtBus
    <2> QED BY <1>0, <1>10, <2>1, <2>2, Shrunk DEF Writes, UnitAlone
  <1>11. CASE Reads(n)
    <2>1. OneRead(n)' /\ AtDp0(n) /\ ~AtDp0(n)'
      BY <1>0, <1>11, TailReads DEF Reads
    <2>2. /\ At(n, "dp0") /\ ~At(n, "dp0")'
          /\ \A q \in Places \ {"dp1"} : At(n, q)' => At(n, q)
      BY <1>11, <2>1 DEF Reads, SameFsm, At, Places, Got, Addressed, AtTx, AtBus
    <2>3. "dp0" \in Places /\ "dp1" \in Places
      BY DEF Places
    <2>4. (\A p, q \in Places : At(n, p)' /\ At(n, q)' => p = q) /\ Somewhere(n)
      BY <2>2, <2>3, Moved
    <2>5. Len(dp1'[n]) <= 1
      <3>1. ~At(n, "dp1")
        BY <2>2, <2>3 DEF UnitAlone
      <3>2. Len(dp1[n]) = 0
        BY <1>0, <3>1, EmptySeq DEF At
      <3>3. Head(dp0[n]) \in Commands
        BY <1>0, <1>11, TailFacts DEF Reads
      <3>4. ResultOf(n, Head(dp0[n])) \in Results
        BY <1>11, <3>3, ResultOfFacts DEF Reads, TypeInv
      <3> QED BY <1>0, <1>11, <3>2, <3>4, AppendFacts DEF Reads
    <2> QED BY <2>1, <2>4, <2>5 DEF UnitAlone
  <1> QED BY <1>1, <1>2, <1>3, <1>4, <1>5, <1>6, <1>7, <1>8, <1>9, <1>10, <1>11 DEF Inside

LEMMA ClearAlone ==
  ASSUME TypeInv, NEW h \in Hosts, Clear(h)
  PROVE  Alone(h)
  <1>1. socketTx[h] = <<>> /\ OneAnswer(h) /\ ~AtSocket(h) /\ ~Answered(h)
    BY DEF Clear, AtSocket, Answered, OneAnswer
  <1>2. ASSUME NEW n \in Nodes, Serves(h, n) PROVE Len(dp1[n]) <= 1 /\ OneRead(n)
    <2>1. ~At(n, "dp1") /\ ~At(n, "dp0")
      BY <1>2 DEF Clear, Places
    <2>2. dp1[n] = <<>> /\ ~AtDp0(n)
      BY <2>1 DEF At
    <2> QED BY <2>2 DEF AtDp0, OneRead
  <1>3. Len(socketTx[h]) <= 1
    BY <1>1
  <1> QED BY <1>1, <1>2, <1>3 DEF Alone, Clear

LEMMA AloneUnit ==
  ASSUME NEW h \in Hosts, NEW n \in Nodes, Serves(h, n), Alone(h)
  PROVE  UnitAlone(n)
  BY DEF Alone, UnitAlone

LEMMA SameAt ==
  ASSUME NEW n \in Nodes, SameUnit(n)
  PROVE  \A p \in Places : At(n, p)' = At(n, p)
  BY DEF SameUnit, At, Places, Got, Addressed, AtDp0, AtTx, AtBus

\* A step inside unit n leaves what its object waits for in one place.
LEMMA InsideAlone ==
  ASSUME TypeInv, NEW n \in Nodes, Apart(n), Inside(n), NEW h \in Hosts, Alone(h)
  PROVE  Alone(h)' /\ (Clear(h) => Clear(h)')
  <1>1. /\ socketTx'[h] = socketTx[h] /\ socketRx'[h] = socketRx[h] /\ filter' = filter
        /\ \A m \in Nodes \ {n} : SameUnit(m)
    BY DEF Apart, SameHost
  <1>2. /\ AtSocket(h)' = AtSocket(h) /\ Answered(h)' = Answered(h) /\ OneAnswer(h)' = OneAnswer(h)
        /\ \A m \in Nodes : Serves(h, m)' = Serves(h, m)
    BY <1>1 DEF AtSocket, Answered, OneAnswer, Serves
  <1>3. \A m \in Nodes \ {n} : \A p \in Places : At(m, p)' = At(m, p)
    BY <1>1, SameAt
  <1>4. \A m \in Nodes \ {n} : dp1'[m] = dp1[m] /\ OneRead(m)' = OneRead(m)
    BY <1>1 DEF SameUnit, OneRead
  <1>5. Serves(h, n) => UnitAlone(n)' /\ ((\E q \in Places : At(n, q)') => Somewhere(n))
    BY AloneUnit, InsideMoves
  <1>6. Alone(h)'
    <2>1. Len(socketTx'[h]) <= 1 /\ OneAnswer(h)' /\ ~(AtSocket(h)' /\ Answered(h)')
      BY <1>1, <1>2 DEF Alone
    <2>2. \A m \in Nodes : Serves(h, m)' => Len(dp1'[m]) <= 1 /\ OneRead(m)'
      BY <1>2, <1>4, <1>5 DEF Alone, UnitAlone
    <2>3. ASSUME NEW m \in Nodes, NEW p \in Places, Serves(h, m)', At(m, p)'
          PROVE  \E q \in Places : Serves(h, m) /\ At(m, q)
      BY <1>2, <1>3, <1>5, <2>3 DEF Somewhere
    <2>4. ASSUME NEW m \in Nodes, NEW p \in Places, Serves(h, m)', At(m, p)'
          PROVE  /\ ~AtSocket(h)' /\ ~Answered(h)'
                 /\ \A k \in Nodes, q \in Places : Serves(h, k)' /\ At(k, q)' => k = m /\ q = p
      <3>1. ~AtSocket(h) /\ ~Answered(h)
        BY <2>3, <2>4 DEF Alone
      <3>2. ASSUME NEW k \in Nodes, NEW q \in Places, Serves(h, k)', At(k, q)' PROVE k = m /\ q = p
        <4>1. k = m
          BY <2>3, <2>4, <3>2 DEF Alone
        <4>2. CASE m = n
          BY <1>2, <1>5, <2>4, <3>2, <4>1, <4>2 DEF UnitAlone
        <4>3. CASE m # n
          BY <1>2, <1>3, <2>4, <3>2, <4>1, <4>3 DEF Alone
        <4> QED BY <4>1, <4>2, <4>3
      <3> QED BY <1>2, <3>1, <3>2
    <2> QED BY <2>1, <2>2, <2>4 DEF Alone
  <1>7. ASSUME Clear(h) PROVE Clear(h)'
    <2>1. \A m \in Nodes, p \in Places : Serves(h, m) => ~At(m, p)
      BY <1>7 DEF Clear
    <2>2. \A m \in Nodes, p \in Places : Serves(h, m)' => ~At(m, p)'
      BY <1>2, <1>3, <1>5, <2>1 DEF Somewhere
    <2> QED BY <1>2, <1>7, <2>2 DEF Clear
  <1> QED BY <1>6, <1>7

\* What else can happen to what an object waits for: it may be lost.
LEMMA Fewer ==
  ASSUME NEW h \in Hosts, Alone(h), filter' = filter,
         Len(socketTx'[h]) <= 1, AtSocket(h)' => AtSocket(h),
         OneAnswer(h)', Answered(h)' => Answered(h),
         \A m \in Nodes : Serves(h, m) => /\ Len(dp1'[m]) <= 1 /\ OneRead(m)'
                                          /\ \A p \in Places : At(m, p)' => At(m, p)
  PROVE  Alone(h)' /\ (Clear(h) => Clear(h)')
  <1>1. \A m \in Nodes : Serves(h, m)' = Serves(h, m)
    BY DEF Serves
  <1>2. Clear(h) => Clear(h)'
    BY <1>1 DEF Clear
  <1>3. ASSUME NEW m \in Nodes, NEW p \in Places, Serves(h, m)', At(m, p)'
        PROVE  /\ ~AtSocket(h)' /\ ~Answered(h)'
               /\ \A k \in Nodes, q \in Places : Serves(h, k)' /\ At(k, q)' => k = m /\ q = p
    BY <1>1, <1>3 DEF Alone
  <1>4. ~(AtSocket(h)' /\ Answered(h)')
    BY DEF Alone
  <1> QED BY <1>1, <1>2, <1>3, <1>4 DEF Alone

LEMMA InsidePlaces ==
  ASSUME NEW m \in Nodes, SameInside(m), can_rx_msg'[m] = can_rx_msg[m] \/ ~Got(m)'
  PROVE  /\ dp1'[m] = dp1[m] /\ OneRead(m)' = OneRead(m)
         /\ \A p \in Places \ {"bus"} : At(m, p)' => At(m, p)
  BY DEF SameInside, OneRead, At, Places, Got, Addressed, AtDp0, AtTx

\* An object's socket that loses the head of its queue.
LEMMA TailAlone ==
  ASSUME TypeInv, NEW h \in Hosts, Alone(h),
         socketTx'[h] = socketTx[h] \/ (socketTx[h] # <<>> /\ socketTx'[h] = Tail(socketTx[h]))
  PROVE  Len(socketTx'[h]) <= 1 /\ (AtSocket(h)' => AtSocket(h))
  <1>1. CASE socketTx'[h] = socketTx[h]
    BY <1>1 DEF Alone, AtSocket
  <1>2. CASE socketTx[h] # <<>> /\ socketTx'[h] = Tail(socketTx[h])
    <2>1. socketTx[h] \in Seq(Commands) /\ Len(socketTx[h]) <= 1
      BY DEF TypeInv, HostInv, Alone
    <2>2. Tail(socketTx[h]) = <<>>
      BY <1>2, <2>1, OneTail
    <2> QED BY <1>2, <2>2 DEF AtSocket
  <1> QED BY <1>1, <1>2

LEMMA BusAlone ==
  ASSUME TypeInv, Bus, NEW h \in Hosts, ~BusHost(h), Alone(h)
  PROVE  Alone(h)' /\ (Clear(h) => Clear(h)')
  <1>0. /\ filter \in Setups /\ socketRx[h] \in Seq(Frame \cup {ErrorFrame})
        /\ \A m \in Nodes : Serves(h, m) => Len(dp1[m]) <= 1 /\ OneRead(m)
    BY DEF TypeInv, HostInv, Alone
  <1>1. ASSUME NEW n \in Nodes, BusUnit(n) PROVE Alone(h)' /\ (Clear(h) => Clear(h)')
    <2> DEFINE f == tx_busy[n]
    <2>1. /\ f \in SentBy(n) /\ f \in Frame /\ f # NoFrame /\ f.cmd \notin Downstream
          /\ filter' = filter /\ socketTx'[h] = socketTx[h]
      BY <1>1, SentFacts DEF BusUnit, SameRest
    <2>2. ASSUME NEW m \in Nodes
          PROVE  /\ dp1'[m] = dp1[m] /\ OneRead(m)' = OneRead(m)
                 /\ \A p \in Places : At(m, p)' => At(m, p) /\ ~(m = n /\ p = "bus")
      <3>1. SameInside(m) /\ (can_rx_msg'[m] = can_rx_msg[m] \/ ~Got(m)')
        BY <1>1, <2>1 DEF BusUnit, Got
      <3>2. AtBus(m)' => AtBus(m) /\ m # n
        BY <1>1 DEF BusUnit, AtBus
      <3> QED BY <3>1, <3>2, InsidePlaces DEF At, Places
    <2>3. Len(socketTx'[h]) <= 1 /\ (AtSocket(h)' <=> AtSocket(h))
      BY <2>1 DEF Alone, AtSocket
    <2>4. CASE Serves(h, n) /\ Answer(f)
      <3>1. At(n, "bus") /\ "bus" \in Places
        BY <2>1, <2>4 DEF At, AtBus, Places
      <3>2. ~AtSocket(h) /\ ~Answered(h) /\ \A m \in Nodes, p \in Places : Serves(h, m) /\ At(m, p) => m = n /\ p = "bus"
        BY <2>4, <3>1 DEF Alone
      <3>3. \A m \in Nodes, p \in Places : Serves(h, m) => ~At(m, p)'
        BY <2>2, <3>2
      <3>4. socketRx'[h] = Append(socketRx[h], f)
        BY <1>1, <2>4 DEF BusUnit
      <3>5. \A i \in DOMAIN socketRx'[h] : \/ i \in DOMAIN socketRx[h] /\ socketRx'[h][i] = socketRx[h][i]
                                           \/ i = Len(socketRx[h]) + 1
        BY <1>0, <2>1, <3>4, AppendElements
      <3>6. OneAnswer(h)'
        BY <3>2, <3>5 DEF OneAnswer, Answered
      <3>7. \A m \in Nodes : Serves(h, m)' => Serves(h, m)
        BY <2>1 DEF Serves
      <3>8. Alone(h)'
        BY <1>0, <2>2, <2>3, <3>2, <3>3, <3>6, <3>7 DEF Alone
      <3>9. ~Clear(h)
        BY <2>4, <3>1 DEF Clear
      <3> QED BY <3>8, <3>9
    <2>5. CASE ~(Serves(h, n) /\ Answer(f))
      <3>1. \A i \in DOMAIN socketRx'[h] : \/ i \in DOMAIN socketRx[h] /\ socketRx'[h][i] = socketRx[h][i]
                                           \/ ~Answer(socketRx'[h][i])
        <4>1. CASE ~Serves(h, n)
          BY <1>1, <4>1 DEF BusUnit
        <4>2. CASE Serves(h, n)
          <5>1. socketRx'[h] = Append(socketRx[h], f)
            BY <1>1, <4>2 DEF BusUnit
          <5> QED BY <1>0, <2>1, <2>5, <4>2, <5>1, AppendElements
        <4> QED BY <4>1, <4>2
      <3>2. OneAnswer(h)' /\ (Answered(h)' => Answered(h))
        BY <3>1 DEF OneAnswer, Answered, Alone
      <3> QED BY <1>0, <2>1, <2>2, <2>3, <3>2, Fewer
    <2> QED BY <2>4, <2>5
  <1>2. ASSUME NEW n \in Nodes, FaultUnit(n) PROVE Alone(h)' /\ (Clear(h) => Clear(h)')
    <2>1. /\ filter' = filter /\ socketTx'[h] = socketTx[h] /\ socketRx'[h] = socketRx[h]
      BY <1>2 DEF FaultUnit, SameHost
    <2>2. ASSUME NEW m \in Nodes
          PROVE  /\ dp1'[m] = dp1[m] /\ OneRead(m)' = OneRead(m)
                 /\ \A p \in Places : At(m, p)' => At(m, p)
      <3>1. SameInside(m) /\ can_rx_msg'[m] = can_rx_msg[m] /\ (AtBus(m)' => AtBus(m))
        BY <1>2 DEF FaultUnit, AtBus
      <3> QED BY <3>1, InsidePlaces DEF At, Places
    <2>3. /\ Len(socketTx'[h]) <= 1 /\ (AtSocket(h)' => AtSocket(h))
          /\ OneAnswer(h)' /\ (Answered(h)' => Answered(h))
      BY <2>1 DEF Alone, AtSocket, OneAnswer, Answered
    <2> QED BY <1>0, <2>1, <2>2, <2>3, Fewer
  <1>3. ASSUME NEW g \in Hosts, BusHost(g) \/ FaultHost(g) \/ FaultSocket(g)
        PROVE  Alone(h)' /\ (Clear(h) => Clear(h)')
    <2>1. filter' = filter
      BY <1>3 DEF BusHost, FaultHost, FaultSocket, SameRest
    <2>2. ASSUME NEW m \in Nodes, Serves(h, m)
          PROVE  /\ dp1'[m] = dp1[m] /\ OneRead(m)' = OneRead(m)
                 /\ \A p \in Places : At(m, p)' => At(m, p)
      <3>1. SameInside(m) /\ tx_busy'[m] = tx_busy[m]
        BY <1>3 DEF BusHost, FaultHost, FaultSocket, SameUnit, SameInside
      <3>2. can_rx_msg'[m] = can_rx_msg[m] \/ ~Got(m)'
        <4>1. CASE BusHost(g)
          <5>1. g # h /\ ~Serves(g, m)
            BY <1>0, <2>2, <4>1, OneServer
          <5> QED BY <4>1, <5>1 DEF BusHost, Got, Addressed
        <4>2. CASE FaultHost(g) \/ FaultSocket(g)
          BY <4>2 DEF FaultHost, FaultSocket, SameUnit
        <4> QED BY <1>3, <4>1, <4>2
      <3>3. AtBus(m)' => AtBus(m)
        BY <3>1 DEF AtBus
      <3> QED BY <3>1, <3>2, <3>3, InsidePlaces DEF At, Places
    <2>3. socketTx'[h] = socketTx[h] \/ (socketTx[h] # <<>> /\ socketTx'[h] = Tail(socketTx[h]))
      BY <1>3 DEF BusHost, FaultHost, FaultSocket
    <2>4. Len(socketTx'[h]) <= 1 /\ (AtSocket(h)' => AtSocket(h))
      BY <2>3, TailAlone
    <2>5. \A i \in DOMAIN socketRx'[h] : \/ i \in DOMAIN socketRx[h] /\ socketRx'[h][i] = socketRx[h][i]
                                         \/ ~Answer(socketRx'[h][i])
      <3>1. socketRx'[h] = socketRx[h] \/ socketRx'[h] = Append(socketRx[h], ErrorFrame)
        BY <1>3 DEF BusHost, FaultHost, FaultSocket
      <3>2. ErrorFrame \in Frame \cup {ErrorFrame} /\ ~Answer(ErrorFrame)
        BY DEF Answer, ErrorFrame
      <3>3. CASE socketRx'[h] = socketRx[h]
        BY <3>3
      <3>4. CASE socketRx'[h] = Append(socketRx[h], ErrorFrame)
        BY <1>0, <3>2, <3>4, AppendElements
      <3> QED BY <3>1, <3>3, <3>4
    <2>6. OneAnswer(h)' /\ (Answered(h)' => Answered(h))
      BY <2>5 DEF OneAnswer, Answered, Alone
    <2> QED BY <1>0, <2>1, <2>2, <2>4, <2>6, Fewer
  <1> QED BY <1>1, <1>2, <1>3 DEF Bus

\* The request of a call goes over the bus to the one unit it is for.
LEMMA SentAlone ==
  ASSUME TypeInv, NEW h \in Hosts, BusHost(h), call[h].kind \in Single, Alone(h), Mine(h)
  PROVE  Alone(h)'
  <1> DEFINE f == Head(socketTx[h])
             n == call[h].node
  <1>1. /\ AtSocket(h) /\ filter' = filter /\ socketTx'[h] = Tail(socketTx[h]) /\ socketRx'[h] = socketRx[h]
        /\ f \in Commands /\ n \in Nodes /\ filter \in Setups /\ socketTx[h] \in Seq(Commands)
    BY DEF BusHost, AtSocket, SameRest, TypeInv, HostInv, SocketInv
  <1>2. f.node = n
    <2>1. 1 \in DOMAIN socketTx[h] /\ f = socketTx[h][1]
      BY <1>1, TailElements DEF AtSocket
    <2> QED BY <2>1 DEF Mine, RequestOf
  <1>3. ~Answered(h) /\ \A m \in Nodes, p \in Places : Serves(h, m) => ~At(m, p)
    BY <1>1 DEF Alone
  <1>4. Len(socketTx'[h]) <= 1 /\ ~AtSocket(h)'
    <2>1. socketTx[h] # <<>> /\ Len(socketTx[h]) <= 1
      BY <1>1 DEF Alone, AtSocket
    <2>2. socketTx'[h] = <<>>
      BY <1>1, <2>1, OneTail
    <2> QED BY <2>2 DEF AtSocket
  <1>5. ~Answered(h)' /\ OneAnswer(h)'
    BY <1>1, <1>3 DEF Answered, OneAnswer
  <1> HIDE DEF f, n
  <1>6. ASSUME NEW m \in Nodes, Serves(h, m)
        PROVE  /\ Len(dp1'[m]) <= 1 /\ OneRead(m)'
               /\ \A p \in Places : At(m, p)' => m = n /\ p = "rx"
    <2>1. SameInside(m) /\ tx_busy'[m] = tx_busy[m] /\ can_rx_msg'[m] = f
      BY DEF BusHost, f
    <2>2. Got(m)' => m = n
      BY <1>1, <1>2, <2>1, CanHlpUnitAssumption DEF Got, Addressed
    <2>3. \A p \in Places \ {"rx"} : At(m, p)' => At(m, p)
      BY <2>1 DEF SameInside, At, Places, AtDp0, AtTx, AtBus
    <2>4. \A p \in Places : At(m, p)' => m = n /\ p = "rx"
      BY <1>3, <1>6, <2>2, <2>3 DEF At, Places
    <2>5. dp1'[m] = dp1[m] /\ OneRead(m)' = OneRead(m)
      BY <2>1 DEF SameInside, OneRead
    <2> QED BY <1>6, <2>4, <2>5 DEF Alone
  <1>7. \A m \in Nodes : Serves(h, m)' = Serves(h, m)
    BY <1>1 DEF Serves
  <1> QED BY <1>4, <1>5, <1>6, <1>7 DEF Alone

-----------------------------------------------------------------------------
(***************************************************************************)
(* What is on its way is of the call.                                      *)
(***************************************************************************)
LEMMA ReplyAnswers ==
  ASSUME NEW c, NEW f \in Frame, NEW n \in Nodes
  PROVE  /\ f.req = c.req /\ c.kind = "readHlp" /\ Fresh(c, f) => AnswerTo(c, Reply(n, "READ_RESPONSE", f))
         /\ c.kind \in Single /\ RequestOf(c, f) /\ f.cmd = "WRITE_COMMAND"
              => AnswerTo(c, Reply(n, "WRITE_RESPONSE", f))
  <1>1. /\ Reply(n, "READ_RESPONSE", f).cmd = "READ_RESPONSE" /\ Reply(n, "READ_RESPONSE", f).req = f.req
        /\ Reply(n, "READ_RESPONSE", f).addr = f.addr /\ Reply(n, "READ_RESPONSE", f).data = f.data
        /\ Reply(n, "WRITE_RESPONSE", f).cmd = "WRITE_RESPONSE" /\ Reply(n, "WRITE_RESPONSE", f).req = f.req
        /\ Reply(n, "WRITE_RESPONSE", f).addr = f.addr
    BY ReplyFacts
  <1> QED BY <1>1 DEF AnswerTo, Fresh, RequestOf, Single

\* A step inside unit n.
LEMMA InsideMine ==
  ASSUME TypeInv, NEW n \in Nodes, Inside(n), NEW c \in Calls, c.kind \in Single, MineUnit(c, n),
         Reads(n) => Fresh(c, ResultOf(n, Head(dp0[n])))
  PROVE  MineUnit(c, n)'
  <1>0. /\ UnitInv(n) /\ BaseInv /\ dp0[n] \in Seq(Commands) /\ dp1[n] \in Seq(Results) /\ c.req \in Nat
    BY Bounds DEF TypeInv, BaseInv, Calls
  <1> USE DEF SameBus
  <1>1. CASE Ignores(n)
    BY <1>1 DEF Ignores, MineUnit, Got, Held, AtTx, AtBus
  <1>2. CASE TakesRead(n)
    BY <1>2 DEF TakesRead, MineUnit, Got, Held, AtTx, AtBus
  <1>3. CASE TakesWrite(n)
    <2>1. can_rx_msg[n] \in Commands /\ can_rx_msg[n] \in Frame
      BY <1>3, Numbers, CommandFacts DEF TakesWrite
    <2>2. AnswerTo(c, can_tx_msg'[n])
      BY <1>3, <2>1, ReplyAnswers DEF TakesWrite, MineUnit
    <2> QED BY <1>3, <2>2 DEF TakesWrite, MineUnit, Got, Held, AtBus
  <1>4. CASE TakesResult(n)
    <2>1. /\ Head(dp1[n]) \in Frame /\ 1 \in DOMAIN dp1[n] /\ Head(dp1[n]) = dp1[n][1]
          /\ \A i \in DOMAIN dp1'[n] : \E j \in DOMAIN dp1[n] : dp1'[n][i] = dp1[n][j]
      BY <1>0, <1>4, TailElements, TailFacts, ResultFacts DEF TakesResult
    <2>2. AnswerTo(c, can_tx_msg'[n])
      BY <1>4, <2>1, ReplyAnswers DEF TakesResult, MineUnit
    <2>3. /\ ~Held(n)' /\ Got(n)' = Got(n) /\ can_rx_msg'[n] = can_rx_msg[n] /\ dp0'[n] = dp0[n]
          /\ AtBus(n)' = AtBus(n) /\ tx_busy'[n] = tx_busy[n]
      BY <1>4 DEF TakesResult, Held, Got, Addressed, AtBus
    <2> QED BY <2>1, <2>2, <2>3 DEF MineUnit
  <1>5. CASE Notifies(n)
    <2>1. ~AtTx(n)'
      BY <1>5 DEF Notifies, Notices, AtTx, Answer
    <2>2. /\ ~Held(n)' /\ Got(n)' = Got(n) /\ can_rx_msg'[n] = can_rx_msg[n] /\ dp0'[n] = dp0[n] /\ dp1'[n] = dp1[n]
          /\ AtBus(n)' = AtBus(n) /\ tx_busy'[n] = tx_busy[n]
      BY <1>5 DEF Notifies, Held, Got, Addressed, AtBus
    <2> QED BY <2>1, <2>2 DEF MineUnit
  <1>6. CASE Pushes(n)
    <2>1. dp0_dt[n] \in Commands /\ dp0_dt[n].req \in Nat /\ Held(n) /\ dp0'[n] = Append(dp0[n], dp0_dt[n])
      BY <1>6, Numbers DEF Pushes
    <2>2. \A i \in DOMAIN dp0'[n] : (i \in DOMAIN dp0[n] /\ dp0'[n][i] = dp0[n][i]) \/ dp0'[n][i] = dp0_dt[n]
      BY <1>0, <2>1, AppendElements
    <2>3. RequestOf(c, dp0_dt[n]) /\ c.node = n /\ dp0_dt[n].req <= c.req
      BY <1>0, <2>1 DEF MineUnit, RequestOf
    <2>4. /\ ~Held(n)' /\ Got(n)' = Got(n) /\ can_rx_msg'[n] = can_rx_msg[n] /\ dp1'[n] = dp1[n]
          /\ AtTx(n)' = AtTx(n) /\ can_tx_msg'[n] = can_tx_msg[n]
          /\ AtBus(n)' = AtBus(n) /\ tx_busy'[n] = tx_busy[n]
      BY <1>6 DEF Pushes, Held, Got, Addressed, AtTx, AtBus
    <2>5. \A i \in DOMAIN dp0'[n] :
            /\ dp0'[n][i].req <= c.req
            /\ dp0'[n][i].cmd = "READ_COMMAND" => RequestOf(c, dp0'[n][i]) /\ c.node = n
      BY <2>2, <2>3 DEF MineUnit
    <2> QED BY <2>4, <2>5 DEF MineUnit
  <1>7. CASE Sends(n)
    <2>1. /\ ~Held(n)' /\ Got(n)' = Got(n) /\ can_rx_msg'[n] = can_rx_msg[n] /\ dp0'[n] = dp0[n] /\ dp1'[n] = dp1[n]
          /\ ~AtTx(n)' /\ (AtBus(n)' => AtTx(n)) /\ tx_busy'[n] = can_tx_msg[n]
      BY <1>7 DEF Sends, Held, Got, Addressed, AtTx, AtBus
    <2> QED BY <2>1 DEF MineUnit
  <1>8. CASE Writes(n) \/ Reads(n)
    <2>1. /\ dp0[n] # <<>> /\ dp0'[n] = Tail(dp0[n])
          /\ Held(n)' = Held(n) /\ dp0_dt'[n] = dp0_dt[n]
          /\ Got(n)' = Got(n) /\ can_rx_msg'[n] = can_rx_msg[n]
          /\ AtTx(n)' = AtTx(n) /\ can_tx_msg'[n] = can_tx_msg[n]
          /\ AtBus(n)' = AtBus(n) /\ tx_busy'[n] = tx_busy[n]
      BY <1>8 DEF Writes, Reads, SameFsm, Held, Got, Addressed, AtTx, AtBus
    <2>2. /\ \A i \in DOMAIN dp0'[n] : \E j \in DOMAIN dp0[n] : dp0'[n][i] = dp0[n][j]
          /\ 1 \in DOMAIN dp0[n] /\ Head(dp0[n]) = dp0[n][1] /\ Head(dp0[n]) \in Commands
      BY <1>0, <2>1, TailElements, TailFacts
    <2>3. \A i \in DOMAIN dp1'[n] : dp1'[n][i].req = c.req /\ c.kind = "readHlp" /\ Fresh(c, dp1'[n][i])
      <3>1. CASE Writes(n)
        BY <3>1 DEF Writes, MineUnit
      <3>2. CASE Reads(n)
        <4> DEFINE r == ResultOf(n, Head(dp0[n]))
        <4>1. RequestOf(c, Head(dp0[n])) /\ Head(dp0[n]).cmd = "READ_COMMAND"
          BY <2>2, <3>2 DEF Reads, MineUnit
        <4>2. r \in Results /\ r.req = Head(dp0[n]).req
          BY <1>0, <2>2, <3>2, ResultOfFacts DEF Reads
        <4>3. dp1'[n] = Append(dp1[n], r) /\ Fresh(c, r)
          BY <3>2 DEF Reads
        <4>4. r.req = c.req /\ c.kind = "readHlp"
          BY <4>1, <4>2 DEF RequestOf
        <4> HIDE DEF r
        <4>5. \A i \in DOMAIN dp1'[n] : (i \in DOMAIN dp1[n] /\ dp1'[n][i] = dp1[n][i]) \/ dp1'[n][i] = r
          BY <1>0, <4>2, <4>3, AppendElements
        <4> QED BY <4>3, <4>4, <4>5 DEF MineUnit
      <3> QED BY <1>8, <3>1, <3>2
    <2>4. \A i \in DOMAIN dp0'[n] :
            /\ dp0'[n][i].req <= c.req
            /\ dp0'[n][i].cmd = "READ_COMMAND" => RequestOf(c, dp0'[n][i]) /\ c.node = n
      BY <2>2 DEF MineUnit
    <2> QED BY <2>1, <2>3, <2>4 DEF MineUnit
  <1> QED BY <1>1, <1>2, <1>3, <1>4, <1>5, <1>6, <1>7, <1>8 DEF Inside

\* A read is carried out after the writes acknowledged before it was called.
LEMMA ReadIsFresh ==
  ASSUME TypeInv, NEW n \in Nodes, NEW h \in Hosts, Serves(h, n), Reads(n),
         OrderInv(n), AckInv(n), FloorInv(h), call[h].kind \in Single, Mine(h)
  PROVE  Fresh(call[h], ResultOf(n, Head(dp0[n])))
  <1> DEFINE f == Head(dp0[n])
             c == call[h]
  <1>1. /\ dp0[n] # <<>> /\ dp0[n] \in Seq(Commands) /\ 1 \in DOMAIN dp0[n] /\ f = dp0[n][1]
        /\ f \in Commands /\ f.cmd = "READ_COMMAND"
        /\ \A i \in DOMAIN dp0[n] : i \in Nat /\ i >= 1
    BY Numbers, TailElements, TailFacts DEF Reads
  <1>2. MineUnit(c, n)
    BY DEF Mine
  <1>3. RequestOf(c, f) /\ c.node = n /\ \A i \in DOMAIN dp0[n] : dp0[n][i].req <= c.req
    BY <1>1, <1>2 DEF MineUnit
  <1>4. f.addr = c.addr /\ f.req = c.req /\ c.kind = "readHlp" /\ c.addr \in Addresses
    BY <1>1, <1>3, CommandFacts DEF RequestOf
  <1>5. c.floor = acked[n][c.addr] /\ Landed(n, c.addr, c.floor) /\ c.floor \in Nat /\ c.req \in Nat
    <2>1. c.floor = acked[n][c.addr]
      BY <1>3, <1>4 DEF FloorInv
    <2>2. acked[n][c.addr] \in Nat /\ c.req \in Nat
      BY <1>4, Bounds DEF TypeInv, HostInv, Calls
    <2> QED BY <1>4, <2>1, <2>2 DEF AckInv
  <1>6. ASSUME NEW i \in DOMAIN dp0[n], dp0[n][i].cmd = "WRITE_COMMAND" PROVE FALSE
    <2>1. i # 1
      BY <1>1, <1>6
    <2>2. dp0[n][1].req < dp0[n][i].req
      <3>1. 1 < i
        BY <1>1, <2>1
      <3> QED BY <1>1, <3>1 DEF OrderInv, Increasing
    <2>3. dp0[n][i].req <= c.req /\ dp0[n][1].req = c.req /\ dp0[n][i].req \in Nat
      BY <1>1, <1>3, <1>4, Numbers
    <2> QED BY <1>5, <2>2, <2>3
  <1> HIDE DEF f, c
  <1>7. c.addr \in Unmapped \/ c.floor <= wb[n][c.addr]
    BY <1>5, <1>6 DEF Landed
  <1>8. IF f.addr \in Unmapped THEN ResultOf(n, f).addr = f.addr + ErrorBit
        ELSE ResultOf(n, f).addr = f.addr /\ ResultOf(n, f).data = wb[n][f.addr]
    BY <1>1, ResultOfFacts DEF TypeInv
  <1>9. wb[n][c.addr] \in Nat
    BY <1>4, Numbers
  <1>10. Fresh(c, ResultOf(n, f))
    BY <1>4, <1>5, <1>7, <1>8, <1>9 DEF Fresh
  <1> QED BY <1>10 DEF f, c

LEMMA SameMine ==
  ASSUME NEW n \in Nodes, NEW c, MineUnit(c, n), SameUnit(n)
  PROVE  MineUnit(c, n)'
  BY DEF MineUnit, SameUnit, Got, Held, Addressed, AtTx, AtBus

LEMMA InsideCall ==
  ASSUME TypeInv, AllOrder, AllAcks, AllFloors, NEW n \in Nodes, Apart(n), Inside(n),
         NEW h \in Hosts, CallInv(h)
  PROVE  CallInv(h)'
  <1>0. /\ call'[h] = call[h] /\ inStep'[h] = inStep[h] /\ filter' = filter
        /\ socketTx'[h] = socketTx[h] /\ socketRx'[h] = socketRx[h]
    BY DEF Apart, SameHost
  <1>1. ASSUME call[h].kind \in Single, inStep[h] PROVE Alone(h)' /\ Mine(h)'
    <2>1. Alone(h) /\ Mine(h) /\ call[h] \in Calls
      BY <1>1 DEF CallInv, TypeInv, HostInv
    <2>2. ASSUME NEW m \in Nodes, Serves(h, m), NEW c, c = call[h] PROVE MineUnit(c, m)'
      <3>1. MineUnit(c, m)
        BY <2>1, <2>2 DEF Mine
      <3>2. CASE m # n
        BY <3>1, <3>2, SameMine DEF Apart
      <3>3. CASE m = n
        <4>1. Reads(n) => Fresh(c, ResultOf(n, Head(dp0[n])))
          BY <1>1, <2>1, <2>2, <3>3, ReadIsFresh DEF AllOrder, AllAcks, AllFloors
        <4> QED BY <1>1, <2>1, <2>2, <3>1, <3>3, <4>1, InsideMine
      <3> QED BY <3>2, <3>3
    <2>3. Mine(h)'
      <3>1. \A m \in Nodes : Serves(h, m)' => MineUnit(call[h], m)'
        <4>1. \A m \in Nodes : Serves(h, m) => \A c : c = call[h] => MineUnit(c, m)'
          BY <2>2
        <4> QED BY <1>0, <4>1 DEF MineUnit, Serves
      <3> QED BY <1>0, <2>1, <3>1 DEF Mine
    <2> QED BY <2>1, <2>3, InsideAlone
  <1>2. ASSUME call[h].kind = "none", inStep[h] PROVE Clear(h)'
    <2>1. Clear(h)
      BY <1>2 DEF CallInv
    <2> QED BY <2>1, ClearAlone, InsideAlone
  <1> QED BY <1>0, <1>1, <1>2 DEF CallInv

LEMMA BusCall ==
  ASSUME TypeInv, Bus, NEW h \in Hosts, CallInv(h)
  PROVE  CallInv(h)'
  <1>0. /\ call'[h] = call[h] /\ inStep'[h] = inStep[h] /\ filter' = filter /\ filter \in Setups
        /\ socketTx[h] \in Seq(Commands) /\ socketRx[h] \in Seq(Frame \cup {ErrorFrame}) /\ SocketInv(h)
    BY DEF Bus, BusUnit, BusHost, FaultUnit, FaultHost, FaultSocket, SameHost, SameRest, TypeInv, HostInv
  <1>1. ASSUME call[h].kind \in Single, inStep[h] PROVE Alone(h)' /\ Mine(h)'
    <2>0. Alone(h) /\ Mine(h)
      BY <1>1 DEF CallInv
    <2>1. Alone(h)'
      BY <1>1, <2>0, BusAlone, SentAlone
    <2>2. \A i \in DOMAIN socketTx'[h] : RequestOf(call[h], socketTx'[h][i])
      <3>1. socketTx'[h] = socketTx[h] \/ (socketTx[h] # <<>> /\ socketTx'[h] = Tail(socketTx[h]))
        BY DEF Bus, BusUnit, BusHost, FaultUnit, FaultHost, FaultSocket, SameHost
      <3>2. \A i \in DOMAIN socketTx'[h] : \E j \in DOMAIN socketTx[h] : socketTx'[h][i] = socketTx[h][j]
        <4>1. CASE socketTx'[h] = socketTx[h]
          BY <4>1
        <4>2. CASE socketTx[h] # <<>> /\ socketTx'[h] = Tail(socketTx[h])
          BY <1>0, <4>2, TailElements
        <4> QED BY <3>1, <4>1, <4>2
      <3> QED BY <2>0, <3>2 DEF Mine
    <2>3. \A i \in DOMAIN socketRx'[h] : Answer(socketRx'[h][i]) => AnswerTo(call[h], socketRx'[h][i])
      <3>1. \/ socketRx'[h] = socketRx[h]
            \/ socketRx'[h] = Append(socketRx[h], ErrorFrame)
            \/ \E n \in Nodes : Serves(h, n) /\ BusUnit(n) /\ socketRx'[h] = Append(socketRx[h], tx_busy[n])
        BY DEF Bus, BusUnit, BusHost, FaultUnit, FaultHost, FaultSocket, SameHost
      <3>2. CASE socketRx'[h] = socketRx[h]
        BY <2>0, <3>2 DEF Mine
      <3>3. CASE socketRx'[h] = Append(socketRx[h], ErrorFrame)
        <4>1. ~Answer(ErrorFrame)
          BY DEF Answer, ErrorFrame
        <4>2. \A i \in DOMAIN socketRx'[h] : (i \in DOMAIN socketRx[h] /\ socketRx'[h][i] = socketRx[h][i])
                                             \/ socketRx'[h][i] = ErrorFrame
          BY <1>0, <3>3, AppendElements
        <4> QED BY <2>0, <4>1, <4>2 DEF Mine
      <3>4. ASSUME NEW n \in Nodes, Serves(h, n), BusUnit(n), socketRx'[h] = Append(socketRx[h], tx_busy[n])
            PROVE  \A i \in DOMAIN socketRx'[h] : Answer(socketRx'[h][i]) => AnswerTo(call[h], socketRx'[h][i])
        <4>1. tx_busy[n] \in Frame /\ tx_busy[n] # NoFrame
          BY <3>4, SentFacts DEF BusUnit
        <4>2. Answer(tx_busy[n]) => AnswerTo(call[h], tx_busy[n])
          BY <2>0, <3>4, <4>1 DEF Mine, MineUnit, AtBus
        <4>3. \A i \in DOMAIN socketRx'[h] : (i \in DOMAIN socketRx[h] /\ socketRx'[h][i] = socketRx[h][i])
                                             \/ socketRx'[h][i] = tx_busy[n]
          BY <1>0, <3>4, <4>1, AppendElements
        <4> QED BY <2>0, <4>2, <4>3 DEF Mine
      <3> QED BY <3>1, <3>2, <3>3, <3>4
    <2>4. ASSUME NEW m \in Nodes, Serves(h, m) PROVE MineUnit(call[h], m)'
      <3>0. MineUnit(call[h], m)
        BY <2>0, <2>4 DEF Mine
      <3>1. SameInside(m) /\ (tx_busy'[m] = tx_busy[m] \/ tx_busy'[m] = NoFrame)
        BY DEF Bus, BusUnit, BusHost, FaultUnit, FaultHost, FaultSocket, SameUnit, SameInside
      <3>2. \/ can_rx_msg'[m] = can_rx_msg[m] \/ ~Got(m)'
            \/ (BusHost(h) /\ can_rx_msg'[m] = Head(socketTx[h]))
        <4>1. ASSUME NEW n \in Nodes, BusUnit(n) PROVE can_rx_msg'[m] = can_rx_msg[m] \/ ~Got(m)'
          BY <4>1, SentFacts DEF BusUnit, Got
        <4>2. ASSUME NEW g \in Hosts, g # h, BusHost(g) PROVE ~Got(m)'
          <5>1. ~Serves(g, m)
            BY <1>0, <2>4, <4>2, OneServer
          <5> QED BY <4>2, <5>1 DEF BusHost, Got, Addressed
        <4>3. CASE BusHost(h)
          BY <4>3 DEF BusHost
        <4>4. ASSUME NEW n \in Nodes, FaultUnit(n) PROVE can_rx_msg'[m] = can_rx_msg[m]
          BY <4>4 DEF FaultUnit
        <4>5. ASSUME NEW g \in Hosts, FaultHost(g) \/ FaultSocket(g) PROVE can_rx_msg'[m] = can_rx_msg[m]
          BY <4>5 DEF FaultHost, FaultSocket, SameUnit
        <4> QED BY <4>1, <4>2, <4>3, <4>4, <4>5 DEF Bus
      <3>3. Got(m)' => RequestOf(call[h], can_rx_msg'[m]) /\ call[h].node = m
        <4>1. CASE can_rx_msg'[m] = can_rx_msg[m]
          BY <3>0, <4>1 DEF MineUnit, Got, Addressed
        <4>2. CASE BusHost(h) /\ can_rx_msg'[m] = Head(socketTx[h])
          <5>1. 1 \in DOMAIN socketTx[h] /\ Head(socketTx[h]) = socketTx[h][1]
            BY <1>0, <4>2, TailElements DEF BusHost
          <5>2. RequestOf(call[h], can_rx_msg'[m])
            BY <2>0, <4>2, <5>1 DEF Mine
          <5>3. call[h].node \in Nodes
            BY <1>0, <1>1 DEF SocketInv
          <5>4. Got(m)' => can_rx_msg'[m].node \in {m, Broadcast}
            BY DEF Got, Addressed
          <5> QED BY <5>2, <5>3, <5>4, CanHlpUnitAssumption DEF RequestOf
        <4> QED BY <3>2, <4>1, <4>2
      <3>4. AtBus(m)' => AnswerTo(call[h], tx_busy'[m])
        BY <3>0, <3>1 DEF AtBus, MineUnit
      <3> QED BY <1>0, <3>0, <3>1, <3>3, <3>4 DEF MineUnit, SameInside, Held, AtTx
    <2>5. \A m \in Nodes : Serves(h, m)' => MineUnit(call[h], m)'
      BY <1>0, <2>4 DEF Serves
    <2> QED BY <1>0, <2>1, <2>2, <2>3, <2>5 DEF Mine
  <1>2. ASSUME call[h].kind = "none", inStep[h] PROVE Clear(h)'
    <2>1. Clear(h)
      BY <1>2 DEF CallInv
    <2>2. ~BusHost(h)
      BY <2>1 DEF Clear, AtSocket, BusHost
    <2> QED BY <2>1, <2>2, ClearAlone, BusAlone
  <1> QED BY <1>0, <1>1, <1>2 DEF CallInv

\* The steps of other objects.
LEMMA OtherCall ==
  ASSUME NEW h \in Hosts, CallInv(h), SameHost(h), \A m \in Nodes : SameUnit(m)
  PROVE  CallInv(h)'
  <1>1. /\ \A m \in Nodes : Serves(h, m)' = Serves(h, m)
        /\ AtSocket(h)' = AtSocket(h) /\ Answered(h)' = Answered(h) /\ OneAnswer(h)' = OneAnswer(h)
    BY DEF SameHost, Serves, AtSocket, Answered, OneAnswer
  <1>2. /\ \A m \in Nodes, p \in Places : At(m, p)' = At(m, p)
        /\ \A m \in Nodes : Len(dp1'[m]) = Len(dp1[m]) /\ OneRead(m)' = OneRead(m)
    BY SameAt DEF SameUnit, OneRead
  <1>3. Alone(h) => Alone(h)'
    BY <1>1, <1>2 DEF Alone, SameHost
  <1>4. Clear(h) => Clear(h)'
    BY <1>1, <1>2 DEF Clear
  <1>5. Mine(h) => Mine(h)'
    <2>1. \A m \in Nodes : \A c : MineUnit(c, m) => MineUnit(c, m)'
      BY SameMine
    <2>2. ASSUME Mine(h) PROVE \A m \in Nodes : Serves(h, m)' => MineUnit(call[h], m)'
      <3>1. \A m \in Nodes : Serves(h, m)' => \A c : c = call[h] => MineUnit(c, m)'
        BY <1>1, <2>1, <2>2 DEF Mine
      <3> QED BY <3>1 DEF MineUnit, SameHost
    <2> QED BY <2>2 DEF Mine, SameHost
  <1> QED BY <1>3, <1>4, <1>5 DEF CallInv, SameHost

\* Nothing is on its way when the units have come to rest.
LEMMA RestIsClear ==
  ASSUME TypeInv, NEW h \in Hosts, SilentFor(h), socketRx[h] = <<>>
  PROVE  Clear(h)
  <1>1. ~AtSocket(h) /\ ~Answered(h)
    BY DEF SilentFor, AtSocket, Answered
  <1>2. ASSUME NEW n \in Nodes, Serves(h, n) PROVE \A p \in Places : ~At(n, p)
    <2>1. UnitInv(n) /\ UnitSilent(n)
      BY <1>2 DEF TypeInv, SilentFor, Serves
    <2>2. /\ hlp_state[n] = "IDLE" /\ can_rx_msg[n] = NoFrame /\ tx_busy[n] = NoFrame
          /\ dp0[n] = <<>> /\ dp1[n] = <<>> /\ can_tx_msg[n] = NoFrame
      BY <2>1 DEF UnitSilent, UnitInv
    <2>3. ~Got(n) /\ ~AtDp0(n) /\ ~AtTx(n) /\ ~AtBus(n)
      BY <2>2 DEF Got, AtDp0, AtTx, AtBus
    <2> QED BY <2>2, <2>3 DEF At, Places
  <1> QED BY <1>1, <1>2 DEF Clear

\* The frame that a call is given for its answer is its answer.
LEMMA GivenAnswer ==
  ASSUME TypeInv, NEW h \in Hosts, CallInv(h), inStep[h], call[h].kind \in Single, socketRx[h] # <<>>,
         Verdict(call[h], Head(socketRx[h])) = "none"
  PROVE  /\ Answer(Head(socketRx[h])) /\ AnswerTo(call[h], Head(socketRx[h])) /\ Head(socketRx[h]) # ErrorFrame
         /\ 1 \in DOMAIN socketRx[h] /\ Head(socketRx[h]) = socketRx[h][1]
         /\ Head(socketRx[h]).node = call[h].node
         /\ call[h].kind = "readHlp" => /\ Head(socketRx[h]).cmd = "READ_RESPONSE"
                                        /\ Head(socketRx[h]).addr = call[h].addr
         /\ call[h].kind = "writeHlp" => Head(socketRx[h]).cmd = "WRITE_RESPONSE"
  <1> DEFINE f == Head(socketRx[h])
  <1>1. 1 \in DOMAIN socketRx[h] /\ f = socketRx[h][1]
    BY TailElements DEF TypeInv, HostInv
  <1>2. /\ f # ErrorFrame /\ f.node = call[h].node
        /\ call[h].kind = "readHlp" => f.cmd = "READ_RESPONSE" /\ f.addr = call[h].addr
        /\ call[h].kind = "writeHlp" => f.cmd = "WRITE_RESPONSE"
    BY DEF Verdict, ReadVerdict, WriteVerdict, Single
  <1>3. Answer(f)
    BY <1>2 DEF Answer, Single
  <1>4. AnswerTo(call[h], f)
    BY <1>1, <1>3 DEF CallInv, Mine
  <1> QED BY <1>1, <1>2, <1>3, <1>4

LEMMA HostCall ==
  ASSUME TypeInv, NEW g \in Hosts, HostSide(g), NEW h \in Hosts, CallInv(h)
  PROVE  CallInv(h)'
  <1>1. HostFrame(g)
    BY DEF HostSide, IsAnswered, IsRefused, IsAnsweredByAll, HearsNothing, FlushStarts, FlushHears
  <1>2. CASE g # h
    BY <1>1, <1>2, OtherCall DEF HostFrame
  <1>3. CASE g = h
    <2>0. /\ \A m \in Nodes, p \in Places : At(m, p)' = At(m, p)
          /\ \A m \in Nodes : Serves(h, m)' = Serves(h, m)
          /\ AtSocket(h)' = AtSocket(h)
      BY <1>1, <1>3, SameAt DEF HostFrame, Serves, AtSocket
    <2>a. ASSUME Clear(h), socketRx'[h] = socketRx[h] PROVE Clear(h)'
      BY <2>0, <2>a DEF Clear, Answered
    <2>1. CASE IsAnswered(h)
      <3>1. call'[h].kind = "none" /\ inStep'[h] = inStep[h] /\ Verdict(call[h], Head(socketRx[h])) = "none"
        BY <2>1, IdleFacts DEF IsAnswered
      <3>2. ASSUME inStep[h] PROVE Clear(h)'
        <4>1. /\ call[h].kind \in Single /\ socketRx[h] # <<>> /\ socketRx'[h] = Tail(socketRx[h])
              /\ socketRx[h] \in Seq(Frame \cup {ErrorFrame})
          BY <2>1 DEF IsAnswered, Hears, TypeInv, HostInv
        <4>2. Answer(socketRx[h][1]) /\ 1 \in DOMAIN socketRx[h]
          BY <3>1, <3>2, <4>1, GivenAnswer
        <4>3. Alone(h) /\ Answered(h)
          BY <3>2, <4>1, <4>2 DEF CallInv, Answered
        <4>4. ~AtSocket(h) /\ \A m \in Nodes, p \in Places : Serves(h, m) => ~At(m, p)
          BY <4>3 DEF Alone
        <4>5. ~Answered(h)'
          <5>1. \A i \in DOMAIN socketRx'[h] : i \in Nat /\ i + 1 \in DOMAIN socketRx[h] /\ socketRx'[h][i] = socketRx[h][i + 1]
            BY <4>1, TailElements
          <5>2. \A i \in DOMAIN socketRx'[h] : i # 0
            BY <4>1, TailFacts
          <5>3. ASSUME NEW i \in DOMAIN socketRx'[h], Answer(socketRx'[h][i]) PROVE FALSE
            <6>1. i + 1 = 1
              BY <4>2, <4>3, <5>1, <5>3 DEF Alone, OneAnswer
            <6> QED BY <5>1, <5>2, <6>1
          <5> QED BY <5>3 DEF Answered
        <4> QED BY <2>0, <4>4, <4>5 DEF Clear
      <3> QED BY <3>1, <3>2 DEF CallInv, Single
    <2>2. CASE IsRefused(h)
      <3>1. ~(call'[h].kind \in Single) /\ ~inStep'[h]
        BY <2>2, IdleFacts DEF IsRefused, Single
      <3> QED BY <3>1 DEF CallInv
    <2>3. CASE IsAnsweredByAll(h) \/ FlushStarts(h) \/ FlushHears(h)
      <3>1. call'[h].kind \in ToAll \cup {"flushHLP"}
        BY <2>3 DEF IsAnsweredByAll, FlushStarts, FlushHears
      <3> QED BY <3>1 DEF CallInv, Single, ToAll
    <2>4. CASE HearsNothing(h)
      <3>1. /\ call'[h].kind = "none" /\ socketRx'[h] = socketRx[h] /\ socketRx[h] = <<>>
            /\ inStep'[h] => SilentFor(h)
        BY <2>4, IdleFacts DEF HearsNothing
      <3>2. inStep'[h] => Clear(h)'
        BY <2>a, <3>1, RestIsClear
      <3> QED BY <3>1, <3>2 DEF CallInv, Single
    <2> QED BY <1>3, <2>1, <2>2, <2>3, <2>4 DEF HostSide
  <1> QED BY <1>2, <1>3

LEMMA AsksCall ==
  ASSUME TypeInv, AllQueues, NEW g \in Hosts, NEW kind, NEW n, NEW cmd, NEW a,
         Asks(g, kind, n, cmd, a), NEW h \in Hosts, CallInv(h)
  PROVE  CallInv(h)'
  <1>1. CASE g # h
    BY <1>1, OtherCall DEF Asks
  <1>2. CASE g = h
    <2> DEFINE f == Order(n, cmd, a, nops + 1)
    <2>1. /\ call[h].kind = "none" /\ inStep'[h] = inStep[h]
          /\ filter' = filter /\ \A m \in Nodes : SameUnit(m)
          /\ kind \in Single \cup ToAll /\ call'[h].kind = kind /\ call'[h].req = nops + 1
          /\ call'[h].addr = a /\ call'[h].node = n
          /\ socketTx'[h] = Append(socketTx[h], f) /\ socketRx'[h] = socketRx[h]
          /\ socketTx[h] \in Seq(Commands) /\ nops \in Nat /\ f \in Commands
      BY <1>2, Bounds DEF Asks, TypeInv, HostInv
    <2>2. inStep[h] => Clear(h)
      BY <2>1 DEF CallInv
    <2>3. ASSUME kind \in Single, inStep[h] PROVE Alone(h)' /\ Mine(h)'
      <3>0. /\ \A m \in Nodes : Serves(h, m)' = Serves(h, m) /\ \A p \in Places : At(m, p)' = At(m, p)
            /\ \A m \in Nodes : dp1'[m] = dp1[m] /\ OneRead(m)' = OneRead(m)
            /\ Answered(h)' = Answered(h) /\ OneAnswer(h)' = OneAnswer(h)
        BY <2>1, SameAt DEF SameUnit, Serves, Answered, OneAnswer, OneRead
      <3>1. socketTx[h] = <<>> /\ Len(socketTx'[h]) = 1 /\ \A i \in DOMAIN socketTx'[h] : socketTx'[h][i] = f
        <4>1. socketTx[h] = <<>>
          BY <2>2, <2>3 DEF Clear, AtSocket
        <4>2. Len(socketTx'[h]) = 1 /\ DOMAIN socketTx'[h] = 1..1 /\ socketTx'[h][1] = f
          BY <2>1, <4>1, AppendFacts
        <4> QED BY <4>1, <4>2
      <3>2. \A m \in Nodes, p \in Places : Serves(h, m) => ~At(m, p)
        BY <2>2, <2>3 DEF Clear
      <3>3. Alone(h)
        BY <2>2, <2>3, ClearAlone
      <3>4. Alone(h)'
        BY <2>2, <2>3, <3>0, <3>1, <3>2, <3>3 DEF Alone, Clear
      <3>5. f.req = nops + 1 /\ f.addr = a /\ f.node = n /\ f.cmd = cmd
        BY DEF Order
      <3>6. RequestOf(call'[h], f)
        BY <1>2, <2>1, <2>3, <3>5 DEF Asks, RequestOf, Single
      <3>7. ASSUME NEW m \in Nodes, Serves(h, m)
            PROVE  MineUnit(call[h], m)'
        <4>0. SameUnit(m) /\ UnitInv(m)
          BY <2>1 DEF TypeInv
        <4>1. ~Got(m) /\ hlp_state[m] # "WB_READ_INITIATE" /\ ~AtDp0(m) /\ dp1[m] = <<>> /\ ~AtTx(m) /\ ~AtBus(m)
          BY <3>2, <3>7 DEF At, Places
        <4>2. ~Held(m)
          <5>1. ASSUME hlp_state[m] = "WB_WRITE_INITIATE" PROVE AtTx(m)
            <6>1. dp0_dt[m] \in Commands /\ can_tx_msg[m] = Reply(m, "WRITE_RESPONSE", dp0_dt[m])
              BY <4>0, <5>1 DEF UnitInv
            <6>2. dp0_dt[m] \in Frame /\ dp0_dt[m].req # 0
              BY <6>1, CommandFacts, Bounds
            <6> QED BY <6>1, <6>2, ReplyFacts DEF AtTx
          <5> QED BY <4>1, <5>1 DEF Held
        <4>3. \A i \in DOMAIN dp0[m] : dp0[m][i].req <= nops + 1 /\ dp0[m][i].cmd # "READ_COMMAND"
          <5>1. \A i \in DOMAIN dp0[m] : dp0[m][i].req < nops + 1 /\ dp0[m][i].req \in Nat
            BY Numbers DEF AllQueues, QueueInv, Before
          <5> QED BY <2>1, <4>1, <5>1 DEF AtDp0
        <4>4. ~Got(m)' /\ ~Held(m)' /\ ~AtTx(m)' /\ ~AtBus(m)' /\ dp0'[m] = dp0[m] /\ dp1'[m] = dp1[m]
          BY <4>0, <4>1, <4>2 DEF SameUnit, Got, Held, Addressed, AtTx, AtBus
        <4> QED BY <2>1, <4>1, <4>3, <4>4 DEF MineUnit
      <3>8. \A i \in DOMAIN socketRx'[h] : ~Answer(socketRx'[h][i])
        BY <2>1, <2>2, <2>3 DEF Clear, Answered
      <3>9. Mine(h)'
        BY <3>0, <3>1, <3>6, <3>7, <3>8 DEF Mine
      <3> QED BY <3>4, <3>9
    <2> QED BY <2>1, <2>3 DEF CallInv, Single, ToAll
  <1> QED BY <1>1, <1>2

-----------------------------------------------------------------------------
(***************************************************************************)
(* What has been acknowledged has been carried out, or will be first.      *)
(***************************************************************************)
LEMMA InsideLanded ==
  ASSUME TypeInv, NEW n \in Nodes, OrderInv(n), Inside(n), NEW a \in Addresses, NEW q \in Nat, Landed(n, a, q)
  PROVE  Landed(n, a, q)'
  <1>0. dp0[n] \in Seq(Commands) /\ wb[n][a] \in Nat /\ \A i \in DOMAIN dp0[n] : dp0[n][i].req \in Nat
    BY Numbers
  <1>1. CASE dp0'[n] = dp0[n] /\ wb'[n] = wb[n]
    BY <1>1 DEF Landed
  <1>2. CASE Pushes(n)
    <2>1. dp0'[n] = Append(dp0[n], dp0_dt[n]) /\ wb'[n] = wb[n] /\ dp0_dt[n] \in Commands
      BY <1>2, Numbers DEF Pushes
    <2>2. \A i \in DOMAIN dp0[n] : i \in DOMAIN dp0'[n] /\ dp0'[n][i] = dp0[n][i]
      BY <1>0, <2>1, AppendElements
    <2> QED BY <2>1, <2>2 DEF Landed
  <1>3. CASE Writes(n) \/ Reads(n)
    <2>1. dp0[n] # <<>> /\ dp0'[n] = Tail(dp0[n])
      BY <1>3 DEF Writes, Reads
    <2>2. /\ 1 \in DOMAIN dp0[n] /\ Head(dp0[n]) = dp0[n][1] /\ dp0[n][1] \in Commands
          /\ \A i \in DOMAIN dp0[n] : i = 1 \/ (i - 1 \in DOMAIN dp0'[n] /\ dp0'[n][i - 1] = dp0[n][i])
      BY <1>0, <2>1, TailElements, TailFacts
    <2>3. a \in Unmapped \/ wb[n][a] <= wb'[n][a]
      <3>1. CASE Reads(n)
        BY <1>0, <3>1 DEF Reads
      <3>2. CASE Writes(n)
        <4>1. dp0[n][1].data = dp0[n][1].req /\ wb[n][a] < dp0[n][1].req
          BY <2>2, <3>2, CommandFacts DEF Writes, OrderInv
        <4>2. wb[n] \in [Addresses -> 0..MaxOps]
          BY DEF TypeInv, BaseInv
        <4>3. wb'[n][a] = wb[n][a] \/ wb'[n][a] = dp0[n][1].req
          BY <2>2, <3>2, <4>1, <4>2 DEF Writes
        <4> QED BY <1>0, <2>2, <4>1, <4>3
      <3> QED BY <1>3, <3>1, <3>2
    <2>4. wb'[n][a] \in Nat
      BY TypeStep, <1>0, <1>3, <2>2, CommandFacts DEF Writes, Reads, TypeInv, BaseInv
    <2>5. ASSUME dp0[n][1].cmd = "WRITE_COMMAND", dp0[n][1].addr = a, q <= dp0[n][1].req
          PROVE  a \in Unmapped \/ q <= wb'[n][a]
      <3>1. Writes(n)
        BY <1>3, <2>2, <2>5 DEF Reads
      <3>2. dp0[n][1].data = dp0[n][1].req
        BY <2>2, <2>5, CommandFacts
      <3>3. wb[n] \in [Addresses -> 0..MaxOps]
        BY DEF TypeInv, BaseInv
      <3> QED BY <2>2, <2>5, <3>1, <3>2, <3>3 DEF Writes
    <2>6. CASE a \in Unmapped \/ q <= wb[n][a]
      BY <1>0, <2>3, <2>4, <2>6 DEF Landed
    <2>7. ASSUME NEW i \in DOMAIN dp0[n], dp0[n][i].cmd = "WRITE_COMMAND", dp0[n][i].addr = a, q <= dp0[n][i].req
          PROVE  Landed(n, a, q)'
      <3>1. CASE i = 1
        BY <2>5, <2>7, <3>1 DEF Landed
      <3>2. CASE i # 1
        BY <2>2, <2>7, <3>2 DEF Landed
      <3> QED BY <3>1, <3>2
    <2> QED BY <2>6, <2>7 DEF Landed
  <1>4. \/ dp0'[n] = dp0[n] /\ wb'[n] = wb[n]
        \/ Pushes(n) \/ Writes(n) \/ Reads(n)
    BY DEF Inside, Ignores, TakesRead, TakesWrite, TakesResult, Notifies, Sends, SameBus
  <1> QED BY <1>1, <1>2, <1>3, <1>4

LEMMA SameLanded ==
  ASSUME NEW n \in Nodes, dp0'[n] = dp0[n], wb'[n] = wb[n], NEW a, NEW q, Landed(n, a, q)
  PROVE  Landed(n, a, q)'
  BY DEF Landed

LEMMA InsideAcks ==
  ASSUME TypeInv, AllOrder, AllAcks, NEW n \in Nodes, Apart(n), Inside(n)
  PROVE  AllAcks'
  <1>0. /\ acked' = acked /\ \A h \in Hosts : socketRx'[h] = socketRx[h]
        /\ acked \in [Nodes -> [Addresses -> 0..MaxOps]]
        /\ \A h \in Hosts : socketRx[h] \in Seq(Frame \cup {ErrorFrame})
        /\ \A m \in Nodes : AckInv(m) /\ UnitInv(m) /\ OrderInv(m)
    BY DEF Apart, hostVars, SameHost, TypeInv, HostInv, AllAcks, AllOrder
  <1>1. ASSUME NEW m \in Nodes, NEW a \in Addresses, NEW q \in Nat, Landed(m, a, q) PROVE Landed(m, a, q)'
    <2>1. CASE m = n
      BY <1>0, <1>1, <2>1, InsideLanded
    <2>2. CASE m # n
      BY <1>1, <2>2, SameLanded DEF Apart, SameUnit
    <2> QED BY <2>1, <2>2
  <1>2. ASSUME NEW m \in Nodes, NEW f \in Frame, LandedFrame(m, f) PROVE LandedFrame(m, f)'
    <2>1. f.req \in Nat
      BY FieldFacts, Bounds
    <2> QED BY <1>1, <1>2, <2>1 DEF LandedFrame
  <1>3. ASSUME NEW m \in Nodes, NEW a \in Addresses, NEW q, q = acked[m][a] PROVE Landed(m, a, q)'
    <2>1. q \in Nat
      BY <1>0, <1>3, Bounds
    <2>2. Landed(m, a, q)
      BY <1>0, <1>3 DEF AckInv
    <2> QED BY <1>1, <2>1, <2>2
  <1>4. ASSUME NEW m \in Nodes, NEW h \in Hosts, NEW i \in DOMAIN socketRx[h], socketRx[h][i].node = m,
               NEW f, f = socketRx[h][i]
        PROVE  LandedFrame(m, f)'
    <2>1. f # ErrorFrame
      <3>1. ErrorFrame.node = AllNodes
        BY DEF ErrorFrame
      <3> QED BY <1>4, <3>1, CanHlpAssumption
    <2>2. f \in Frame
      BY <1>0, <1>4, <2>1, ElementOfSeq, LenProperties
    <2>3. LandedFrame(m, f)
      BY <1>0, <1>4 DEF AckInv
    <2> QED BY <1>2, <2>2, <2>3
  <1>5. ASSUME NEW m \in Nodes, hlp_state'[m] = "CAN_MSG_SEND", NEW f, f = can_tx_msg'[m]
        PROVE  LandedFrame(m, f)'
    <2>1. CASE hlp_state[m] = "CAN_MSG_SEND" /\ can_tx_msg'[m] = can_tx_msg[m]
      <3>1. f \in Frame /\ LandedFrame(m, f)
        BY <1>0, <1>5, <2>1, SentFacts DEF UnitInv, AckInv
      <3> QED BY <1>2, <3>1
    <2>2. CASE m = n /\ TakesResult(n)
      <3>1. Head(dp1[n]) \in Frame
        BY <2>2, TailFacts, ResultFacts DEF TakesResult, TypeInv, BaseInv
      <3>2. f.cmd = "READ_RESPONSE"
        BY <1>5, <2>2, <3>1, ReplyFacts DEF TakesResult
      <3> QED BY <3>2 DEF LandedFrame
    <2>3. CASE m = n /\ Notifies(n)
      <3>1. f.cmd # "WRITE_RESPONSE"
        BY <1>5, <2>3 DEF Notifies, Notices
      <3> QED BY <3>1 DEF LandedFrame
    <2>4. CASE m = n /\ Pushes(n)
      <3> DEFINE e == dp0_dt[n]
      <3>1. hlp_state[n] = "WB_WRITE_INITIATE" /\ can_tx_msg'[n] = can_tx_msg[n] /\ dp0'[n] = Append(dp0[n], e)
        BY <1>5, <2>4 DEF Pushes, Held
      <3>2. e \in Commands /\ e.cmd = "WRITE_COMMAND" /\ can_tx_msg[n] = Reply(n, "WRITE_RESPONSE", e)
        BY <1>0, <3>1 DEF UnitInv
      <3>3. f.addr = e.addr /\ f.req = e.req /\ e.addr \in Addresses /\ e.req \in Nat
        BY <1>5, <2>4, <3>1, <3>2, ReplyFacts, CommandFacts
      <3>4. \E i \in DOMAIN dp0'[n] : dp0'[n][i] = e
        <4>1. dp0[n] \in Seq(Commands)
          BY Numbers
        <4> HIDE DEF e
        <4> QED BY <3>1, <3>2, <4>1, AppendElements
      <3>5. Landed(n, f.addr, f.req)'
        BY <3>2, <3>3, <3>4 DEF Landed
      <3> QED BY <2>4, <3>3, <3>5 DEF LandedFrame
    <2>5. CASE m = n /\ (Ignores(n) \/ TakesRead(n) \/ TakesWrite(n) \/ Sends(n))
      BY <1>5, <2>5 DEF Ignores, TakesRead, TakesWrite, Sends
    <2>6. CASE m = n /\ (Writes(n) \/ Reads(n))
      BY <1>5, <2>1, <2>6 DEF Writes, Reads, SameFsm
    <2>7. CASE m # n
      BY <1>5, <2>1, <2>7 DEF Apart, SameUnit
    <2> QED BY <2>2, <2>3, <2>4, <2>5, <2>6, <2>7 DEF Inside
  <1>6. ASSUME NEW m \in Nodes, tx_busy'[m] # NoFrame, NEW f, f = tx_busy'[m]
        PROVE  LandedFrame(m, f)'
    <2>1. CASE tx_busy'[m] = tx_busy[m]
      <3>1. f \in Frame /\ LandedFrame(m, f)
        BY <1>0, <1>6, <2>1, SentFacts DEF UnitInv, AckInv
      <3> QED BY <1>2, <3>1
    <2>2. CASE m = n /\ Sends(n)
      <3>1. f \in Frame /\ LandedFrame(m, f)
        BY <1>0, <1>6, <2>2, SentFacts DEF Sends, UnitInv, AckInv
      <3> QED BY <1>2, <3>1
    <2>3. CASE m = n /\ ~Sends(n)
      <3>1. tx_busy'[n] = tx_busy[n]
        BY <2>3 DEF Inside, Ignores, TakesRead, TakesWrite, TakesResult, Notifies, Pushes, Writes, Reads, SameBus, SameFsm
      <3> QED BY <2>1, <2>3, <3>1
    <2>4. CASE m # n
      BY <2>1, <2>4 DEF Apart, SameUnit
    <2> QED BY <2>2, <2>3, <2>4
  <1>7. ASSUME NEW m \in Nodes PROVE AckInv(m)'
    <2>1. \A a \in Addresses : Landed(m, a, acked[m][a])'
      <3>1. \A a \in Addresses : \A q : q = acked[m][a] => Landed(m, a, q)'
        BY <1>3
      <3> QED BY <1>0, <3>1 DEF Landed
    <2>2. hlp_state'[m] = "CAN_MSG_SEND" => LandedFrame(m, can_tx_msg[m])'
      <3>1. hlp_state'[m] = "CAN_MSG_SEND" => \A f : f = can_tx_msg'[m] => LandedFrame(m, f)'
        BY <1>5
      <3> QED BY <3>1 DEF LandedFrame, Landed
    <2>3. tx_busy'[m] # NoFrame => LandedFrame(m, tx_busy[m])'
      <3>1. tx_busy'[m] # NoFrame => \A f : f = tx_busy'[m] => LandedFrame(m, f)'
        BY <1>6
      <3> QED BY <3>1 DEF LandedFrame, Landed
    <2>4. \A h \in Hosts : \A i \in DOMAIN socketRx'[h] : socketRx'[h][i].node = m => LandedFrame(m, socketRx[h][i])'
      <3>1. \A h \in Hosts : \A i \in DOMAIN socketRx[h] : socketRx[h][i].node = m =>
              \A f : f = socketRx[h][i] => LandedFrame(m, f)'
        BY <1>4
      <3>2. ASSUME NEW h \in Hosts, NEW i \in DOMAIN socketRx'[h], socketRx'[h][i].node = m
            PROVE  LandedFrame(m, socketRx[h][i])'
        <4>1. i \in DOMAIN socketRx[h] /\ socketRx[h][i].node = m /\ socketRx'[h][i] = socketRx[h][i]
          BY <1>0, <3>2
        <4>2. \A f : f = socketRx'[h][i] => LandedFrame(m, f)'
          BY <3>1, <4>1
        <4> QED BY <4>2 DEF LandedFrame, Landed
      <3> QED BY <3>2
    <2> QED BY <2>1, <2>2, <2>3, <2>4 DEF AckInv
  <1> QED BY <1>7 DEF AllAcks

\* A step outside the units: frames move, and a write may be acknowledged.
LEMMA OutsideAck ==
  ASSUME NEW m \in Nodes, AckInv(m), dp0'[m] = dp0[m], wb'[m] = wb[m],
         hlp_state'[m] = hlp_state[m], can_tx_msg'[m] = can_tx_msg[m],
         tx_busy'[m] = tx_busy[m] \/ tx_busy'[m] = NoFrame,
         \A a \in Addresses : acked'[m][a] = acked[m][a] \/ Landed(m, a, acked'[m][a]),
         \A h \in Hosts : \A i \in DOMAIN socketRx'[h] :
           \/ \E j \in DOMAIN socketRx[h] : socketRx'[h][i] = socketRx[h][j]
           \/ socketRx'[h][i].node # m
           \/ tx_busy[m] # NoFrame /\ socketRx'[h][i] = tx_busy[m]
  PROVE  AckInv(m)'
  <1>1. \A a, q : Landed(m, a, q) => Landed(m, a, q)'
    BY SameLanded
  <1>2. \A a \in Addresses : Landed(m, a, acked[m][a])'
    <2>1. \A a \in Addresses : Landed(m, a, acked'[m][a])
      BY DEF AckInv
    <2> QED BY <2>1 DEF Landed
  <1>3. \A f : LandedFrame(m, f) => LandedFrame(m, f)'
    BY <1>1 DEF LandedFrame
  <1>4. hlp_state'[m] = "CAN_MSG_SEND" => LandedFrame(m, can_tx_msg[m])'
    <2>1. hlp_state'[m] = "CAN_MSG_SEND" => \A f : f = can_tx_msg'[m] => LandedFrame(m, f)'
      BY <1>3 DEF AckInv
    <2> QED BY <2>1 DEF LandedFrame, Landed
  <1>5. tx_busy'[m] # NoFrame => LandedFrame(m, tx_busy[m])'
    <2>1. tx_busy'[m] # NoFrame => \A f : f = tx_busy'[m] => LandedFrame(m, f)'
      BY <1>3 DEF AckInv
    <2> QED BY <2>1 DEF LandedFrame, Landed
  <1>6. ASSUME NEW h \in Hosts, NEW i \in DOMAIN socketRx'[h], socketRx'[h][i].node = m
        PROVE  LandedFrame(m, socketRx[h][i])'
    <2>1. LandedFrame(m, socketRx'[h][i])
      BY <1>6 DEF AckInv
    <2>2. \A f : f = socketRx'[h][i] => LandedFrame(m, f)'
      BY <1>3, <2>1
    <2> QED BY <2>2 DEF LandedFrame, Landed
  <1> QED BY <1>2, <1>4, <1>5, <1>6 DEF AckInv

LEMMA BusAcks ==
  ASSUME TypeInv, AllAcks, Bus
  PROVE  AllAcks'
  <1> SUFFICES ASSUME NEW m \in Nodes PROVE AckInv(m)'
    BY DEF AllAcks
  <1>1. /\ AckInv(m) /\ SameInside(m) /\ acked' = acked
        /\ tx_busy'[m] = tx_busy[m] \/ tx_busy'[m] = NoFrame
    BY DEF AllAcks, Bus, BusUnit, BusHost, FaultUnit, FaultHost, FaultSocket, SameUnit, SameInside, SameRest
  <1>2. ASSUME NEW h \in Hosts, NEW i \in DOMAIN socketRx'[h]
        PROVE  \/ \E j \in DOMAIN socketRx[h] : socketRx'[h][i] = socketRx[h][j]
               \/ socketRx'[h][i].node # m
               \/ tx_busy[m] # NoFrame /\ socketRx'[h][i] = tx_busy[m]
    <2>0. socketRx[h] \in Seq(Frame \cup {ErrorFrame})
      BY DEF TypeInv, HostInv
    <2>1. \/ socketRx'[h] = socketRx[h]
          \/ socketRx'[h] = Append(socketRx[h], ErrorFrame)
          \/ \E n \in Nodes : BusUnit(n) /\ socketRx'[h] = Append(socketRx[h], tx_busy[n])
      BY DEF Bus, BusUnit, BusHost, FaultUnit, FaultHost, FaultSocket, SameHost
    <2>2. CASE socketRx'[h] = socketRx[h]
      BY <1>2, <2>2
    <2>3. CASE socketRx'[h] = Append(socketRx[h], ErrorFrame)
      <3>1. ErrorFrame.node # m
        <4>1. ErrorFrame.node = AllNodes
          BY DEF ErrorFrame
        <4> QED BY <4>1, CanHlpAssumption
      <3>2. (i \in DOMAIN socketRx[h] /\ socketRx'[h][i] = socketRx[h][i]) \/ socketRx'[h][i] = ErrorFrame
        BY <1>2, <2>0, <2>3, AppendElements
      <3> QED BY <3>1, <3>2
    <2>4. ASSUME NEW n \in Nodes, BusUnit(n), socketRx'[h] = Append(socketRx[h], tx_busy[n])
          PROVE  \/ \E j \in DOMAIN socketRx[h] : socketRx'[h][i] = socketRx[h][j]
                 \/ socketRx'[h][i].node # m
                 \/ tx_busy[m] # NoFrame /\ socketRx'[h][i] = tx_busy[m]
      <3>1. tx_busy[n] \in Frame /\ tx_busy[n] # NoFrame /\ tx_busy[n].node = n
        BY <2>4, SentFacts DEF BusUnit
      <3>2. (i \in DOMAIN socketRx[h] /\ socketRx'[h][i] = socketRx[h][i]) \/ socketRx'[h][i] = tx_busy[n]
        BY <1>2, <2>0, <2>4, <3>1, AppendElements
      <3> QED BY <3>1, <3>2
    <2> QED BY <2>1, <2>2, <2>3, <2>4
  <1> QED BY <1>1, <1>2, OutsideAck DEF SameInside

LEMMA HostAcks ==
  ASSUME TypeInv, AllAcks, AllCalls, NEW g \in Hosts, HostSide(g)
  PROVE  AllAcks'
  <1> SUFFICES ASSUME NEW m \in Nodes PROVE AckInv(m)'
    BY DEF AllAcks
  <1>1. AckInv(m) /\ HostFrame(g) /\ SameUnit(m) /\ acked \in [Nodes -> [Addresses -> 0..MaxOps]]
    BY DEF AllAcks, HostSide, IsAnswered, IsRefused, IsAnsweredByAll, HearsNothing, FlushStarts, FlushHears, HostFrame,
           TypeInv, HostInv
  <1>2. ASSUME NEW h \in Hosts, NEW i \in DOMAIN socketRx'[h]
        PROVE  \E j \in DOMAIN socketRx[h] : socketRx'[h][i] = socketRx[h][j]
    <2>1. socketRx'[h] = socketRx[h] \/ (socketRx[h] # <<>> /\ socketRx'[h] = Tail(socketRx[h]))
      BY <1>1 DEF HostSide, IsAnswered, IsRefused, IsAnsweredByAll, HearsNothing, FlushStarts, FlushHears, HostFrame,
                  SameHost, Hears
    <2>2. CASE socketRx'[h] = socketRx[h]
      BY <1>2, <2>2
    <2>3. CASE socketRx[h] # <<>> /\ socketRx'[h] = Tail(socketRx[h])
      <3>1. socketRx[h] \in Seq(Frame \cup {ErrorFrame})
        BY DEF TypeInv, HostInv
      <3> QED BY <1>2, <2>3, <3>1, TailElements
    <2> QED BY <2>1, <2>2, <2>3
  <1>3. ASSUME NEW a \in Addresses
        PROVE  acked'[m][a] = acked[m][a] \/ Landed(m, a, acked'[m][a])
    <2>1. CASE acked' = acked
      BY <2>1
    <2>2. CASE acked' # acked
      <3> DEFINE f == Head(socketRx[g])
                 c == call[g]
      <3>a. IsAnswered(g)
        BY <2>2 DEF HostSide, IsRefused, IsAnsweredByAll, HearsNothing, FlushStarts, FlushHears
      <3>1. /\ c.kind \in Single /\ c.kind = "writeHlp" /\ Verdict(c, f) = "none" /\ socketRx[g] # <<>> /\ inStep[g]
            /\ acked' = [acked EXCEPT ![c.node][c.addr] = c.req]
        BY <2>2, <3>a DEF IsAnswered, Hears
      <3>2. /\ AnswerTo(c, f) /\ f.cmd = "WRITE_RESPONSE" /\ f.node = c.node
            /\ 1 \in DOMAIN socketRx[g] /\ f = socketRx[g][1]
        BY <3>1, GivenAnswer DEF AllCalls
      <3>3. c.node \in Nodes /\ c.addr \in Addresses
        BY <3>1 DEF TypeInv, SocketInv
      <3>4. f.req = c.req /\ f.addr = c.addr
        BY <3>2 DEF AnswerTo
      <3>5. LandedFrame(c.node, f)
        BY <3>2, <3>3 DEF AllAcks, AckInv
      <3> HIDE DEF f, c
      <3>6. Landed(c.node, c.addr, c.req)
        BY <3>2, <3>4, <3>5 DEF LandedFrame
      <3>7. CASE m = c.node /\ a = c.addr
        <4>1. acked'[m][a] = c.req
          BY <1>1, <3>1, <3>3, <3>7
        <4> QED BY <3>6, <3>7, <4>1
      <3>8. CASE ~(m = c.node /\ a = c.addr)
        BY <1>1, <3>1, <3>3, <3>8
      <3> QED BY <3>7, <3>8
    <2> QED BY <2>1, <2>2
  <1> QED BY <1>1, <1>2, <1>3, OutsideAck DEF SameUnit

LEMMA AsksAcks ==
  ASSUME TypeInv, AllAcks, NEW g \in Hosts, NEW kind, NEW n, NEW cmd, NEW a, Asks(g, kind, n, cmd, a)
  PROVE  AllAcks'
  <1> SUFFICES ASSUME NEW m \in Nodes PROVE AckInv(m)'
    BY DEF AllAcks
  <1>1. AckInv(m) /\ SameUnit(m) /\ acked' = acked /\ \A h \in Hosts : socketRx'[h] = socketRx[h]
    BY DEF AllAcks, Asks, SameHost
  <1> QED BY <1>1, OutsideAck DEF SameUnit

LEMMA FloorStep ==
  ASSUME TypeInv, AllFloors, Next
  PROVE  AllFloors'
  <1> SUFFICES ASSUME NEW h \in Hosts, call'[h].kind = "readHlp"
               PROVE  call'[h].floor = acked'[call'[h].node][call'[h].addr]
    BY DEF AllFloors, FloorInv
  <1>0. FloorInv(h) /\ SocketInv(h) /\ filter \in Setups /\ acked \in [Nodes -> [Addresses -> 0..MaxOps]]
    BY DEF AllFloors, TypeInv, HostInv
  <1>1. CASE call'[h] = call[h] /\ acked' = acked
    BY <1>0, <1>1 DEF FloorInv
  <1>2. CASE \E n \in Nodes : Apart(n) /\ Inside(n)
    BY <1>1, <1>2 DEF Apart, SameHost, hostVars
  <1>3. CASE Bus
    BY <1>1, <1>3 DEF Bus, BusUnit, BusHost, FaultUnit, FaultHost, FaultSocket, SameHost, SameRest
  <1>4. ASSUME NEW g \in Hosts, HostSide(g) PROVE call'[h].floor = acked'[call'[h].node][call'[h].addr]
    <2>0. HostFrame(g)
      BY <1>4 DEF HostSide, IsAnswered, IsRefused, IsAnsweredByAll, HearsNothing, FlushStarts, FlushHears
    <2>1. g # h
      BY <1>4, IdleFacts DEF HostSide, IsAnswered, IsRefused, IsAnsweredByAll, HearsNothing, FlushStarts, FlushHears,
                             ToAll
    <2>2. call'[h] = call[h]
      BY <2>0, <2>1 DEF HostFrame, SameHost
    <2>3. CASE acked' = acked
      BY <1>1, <2>2, <2>3
    <2>4. CASE acked' # acked
      <3>1. /\ call[g].kind \in Single
            /\ acked' = [acked EXCEPT ![call[g].node][call[g].addr] = call[g].req]
        BY <1>4, <2>4 DEF HostSide, IsAnswered, IsRefused, IsAnsweredByAll, HearsNothing, FlushStarts, FlushHears
      <3>2. call[g].node \in Nodes /\ Serves(g, call[g].node)
        BY <3>1 DEF TypeInv, SocketInv
      <3>3. call[h].node \in Nodes /\ Serves(h, call[h].node)
        BY <1>0, <2>2 DEF SocketInv, Single
      <3>4. call[h].node # call[g].node
        BY <1>0, <2>1, <3>2, <3>3, OneServer
      <3>5. acked'[call[h].node] = acked[call[h].node]
        BY <1>0, <3>1, <3>3, <3>4
      <3> QED BY <1>0, <2>2, <3>5 DEF FloorInv
    <2> QED BY <2>3, <2>4
  <1>5. ASSUME NEW g \in Hosts, NEW kind, NEW n, NEW cmd, NEW a, Asks(g, kind, n, cmd, a)
        PROVE  call'[h].floor = acked'[call'[h].node][call'[h].addr]
    <2>1. CASE g # h
      BY <1>1, <1>5, <2>1 DEF Asks, SameHost
    <2>2. CASE g = h
      BY <1>5, <2>2 DEF Asks
    <2> QED BY <2>1, <2>2
  <1> QED BY <1>2, <1>3, <1>4, <1>5, Steps

-----------------------------------------------------------------------------
CallsInv == TypeInv /\ AllOrder /\ AllQueues /\ AllCalls /\ AllAcks /\ AllFloors

LEMMA InitCalls == Init => AllCalls /\ AllAcks /\ AllFloors
  <1> SUFFICES ASSUME Init PROVE AllCalls /\ AllAcks /\ AllFloors
    OBVIOUS
  <1>0. /\ TypeInv /\ \A h \in Hosts : call[h].kind = "none" /\ socketRx[h] = <<>> /\ socketTx[h] = <<>>
    BY InitType, IdleFacts DEF Init
  <1>1. ASSUME NEW h \in Hosts PROVE CallInv(h)
    <2>1. SilentFor(h)
      BY <1>0 DEF Init, FsmInit, SilentFor, UnitSilent
    <2>2. Clear(h)
      BY <1>0, <2>1, RestIsClear
    <2> QED BY <1>0, <2>2 DEF CallInv, Single
  <1>2. ASSUME NEW n \in Nodes PROVE AckInv(n)
    <2>1. \A a \in Addresses : acked[n][a] <= wb[n][a]
      BY DEF Init, FsmInit
    <2>2. hlp_state[n] = "IDLE" /\ tx_busy[n] = NoFrame
      BY DEF Init, FsmInit
    <2> QED BY <1>0, <2>1, <2>2 DEF AckInv, Landed
  <1>3. AllFloors
    BY <1>0 DEF AllFloors, FloorInv
  <1> QED BY <1>1, <1>2, <1>3 DEF AllCalls, AllAcks

LEMMA CallsStep ==
  ASSUME CallsInv, Next
  PROVE  CallsInv'
  <1> USE DEF CallsInv
  <1>1. TypeInv' /\ AllOrder' /\ AllQueues'
    BY TypeStep, OrderStep
  <1>2. AllFloors'
    BY FloorStep
  <1>3. ASSUME NEW h \in Hosts PROVE CallInv(h)'
    <2>1. CallInv(h)
      BY DEF AllCalls
    <2> QED BY <2>1, InsideCall, BusCall, HostCall, AsksCall, Steps
  <1>4. AllAcks'
    BY InsideAcks, BusAcks, HostAcks, AsksAcks, Steps
  <1> QED BY <1>1, <1>2, <1>3, <1>4 DEF AllCalls

LEMMA CallsAlways == Spec => []CallsInv
  <1>1. Init => CallsInv
    BY InitType, InitOrder, InitCalls DEF CallsInv
  <1>2. CallsInv /\ [Next]_vars => CallsInv'
    <2> SUFFICES ASSUME CallsInv, [Next]_vars PROVE CallsInv'
      OBVIOUS
    <2>1. CASE Next
      BY <2>1, CallsStep
    <2>2. CASE UNCHANGED vars
      <3>1. TypeInv' /\ AllOrder' /\ AllQueues'
        BY <2>2, TypeStep, OrderStep DEF CallsInv
      <3>2. ASSUME NEW h \in Hosts PROVE CallInv(h)' /\ FloorInv(h)'
        <4>1. CallInv(h) /\ FloorInv(h)
          BY DEF CallsInv, AllCalls, AllFloors
        <4>2. SameHost(h) /\ (\A m \in Nodes : SameUnit(m)) /\ acked' = acked
          BY <2>2 DEF vars, fsmVars, fsmRegs, hostVars, SameHost, SameUnit
        <4>3. FloorInv(h)'
          BY <4>1, <4>2 DEF FloorInv, SameHost
        <4> QED BY <4>1, <4>2, <4>3, OtherCall
      <3>3. ASSUME NEW m \in Nodes PROVE AckInv(m)'
        <4>1. AckInv(m) /\ acked' = acked /\ SameUnit(m) /\ socketRx' = socketRx
          BY <2>2 DEF CallsInv, AllAcks, vars, fsmVars, fsmRegs, hostVars, SameUnit
        <4> QED BY <4>1, OutsideAck DEF SameUnit
      <3> QED BY <3>1, <3>2, <3>3 DEF CallsInv, AllCalls, AllFloors, AllAcks
    <2> QED BY <2>1, <2>2
  <1> QED BY <1>1, <1>2, PTL DEF Spec

\* A call in step that returns normally was given the answer to its own request.
LEMMA EndsWithAnswer ==
  ASSUME CallsInv, NEW h \in Hosts, Accepts(h), inStep[h]
  PROVE  /\ AnswerTo(call[h], Head(socketRx[h]))
         /\ call[h].kind = "readHlp" => /\ Head(socketRx[h]).cmd = "READ_RESPONSE"
                                        /\ Head(socketRx[h]).addr = call[h].addr
                                        /\ call[h].addr \in Addresses
  <1> USE DEF CallsInv
  <1>1. /\ call[h].kind \in Single /\ socketRx[h] # <<>> /\ Verdict(call[h], Head(socketRx[h])) = "none"
        /\ CallInv(h) /\ SocketInv(h)
    BY DEF Accepts, AllCalls, TypeInv
  <1> QED BY <1>1, GivenAnswer DEF SocketInv

\* AnswerIsMine: readHlp and writeHlp: whatever callers do and however late
\* answers are, a call that is made in step and returns normally was given the
\* response of its own request, not that of an earlier one or of another
\* object's.
THEOREM AnswersMine == Spec => AnswerIsMine
  <1>1. CallsInv /\ [Next]_vars =>
          [\A h \in Hosts : Accepts(h) /\ inStep[h] => Head(socketRx[h]).req = call[h].req]_vars
    BY EndsWithAnswer DEF AnswerTo
  <1> QED BY <1>1, CallsAlways, PTL DEF Spec, AnswerIsMine

\* ReadSeesAckedWrites: a read in step that returns normally sees every write
\* to that register acknowledged in step before it was called.
THEOREM ReadsSeeWrites == Spec => ReadSeesAckedWrites
  <1>1. ASSUME CallsInv, NEW h \in Hosts, Accepts(h), call[h].kind = "readHlp", inStep[h]
        PROVE  Head(socketRx[h]).data >= call[h].floor
    <2> DEFINE f == Head(socketRx[h])
               c == call[h]
    <2>1. AnswerTo(c, f) /\ f.cmd = "READ_RESPONSE" /\ f.addr = c.addr /\ c.addr \in Addresses
      BY <1>1, EndsWithAnswer
    <2>2. c.addr \in Nat
      <3>1. c.addr \in 0..(ErrorBit - 1)
        BY <2>1, CanHlpUnitAssumption
      <3> QED BY <3>1, Bounds
    <2>3. c.addr # c.addr + ErrorBit
      BY <2>2, Bounds
    <2> QED BY <2>1, <2>3 DEF AnswerTo, Fresh
  <1>2. CallsInv /\ [Next]_vars =>
          [\A h \in Hosts : Accepts(h) /\ call[h].kind = "readHlp" /\ inStep[h]
                           => Head(socketRx[h]).data >= call[h].floor]_vars
    BY <1>1
  <1> QED BY <1>2, CallsAlways, PTL DEF Spec, ReadSeesAckedWrites
=============================================================================
