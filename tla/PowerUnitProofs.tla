-------------------------- MODULE PowerUnitProofs --------------------------
(***************************************************************************)
(* The power unit controller under its software, for any modules, bias     *)
(* channels, lists, faults and calls: every variable keeps its type, at    *)
(* most one read is under way, and after power_off_all with the interlock  *)
(* disabled everything is off and stays off once its writes are served.    *)
(* A power_on_modules that begins clean raises only after a fault.         *)
(***************************************************************************)
EXTENDS PowerUnit, TLAPS

Half == {"low", "high"}
Op == {"none", "wr", "rd", "poll"}
MainRequest == [op : Op, half : {"low"}, v : SUBSET Channel]
AuxRequest  == [op : Op, half : Half, v : SUBSET Module]

\* What a step of a program may do; the sets it carries are modules or channels.
PwStep    == [do : {"mask_pw", "aux", "read_aux"}, half : Half, v : SUBSET Module]
BiasStep  == [do : {"mask_bias", "main", "read_main"}, half : {"low"}, v : SUBSET Channel]
PlainStep == [do : {"pwr_on", "pwr_off", "temps", "arm_temps", "clear", "try", "armed", "fired", "check"},
              half : {"low"}, v : {{}}]
Step == PwStep \cup BiasStep \cup PlainStep

-----------------------------------------------------------------------------
(***************************************************************************)
(* The inductive invariant of types.  Software waits for a read before it  *)
(* sends another: there is one in a queue, in a machine or answered.       *)
(***************************************************************************)
UnitInv == pw \subseteq Module /\ bias \subseteq Channel /\ hot \subseteq Sensor
RegsInv == mon \subseteq Sensor \cup {"PWR"} /\ expPw \subseteq Module /\ expBias \subseteq Channel
SeenInv ==
  /\ nok \subseteq Sensor /\ prev \subseteq Sensor /\ enL \subseteq Module /\ biasL \subseteq Channel
  /\ valid \subseteq (IF "PWR" \in mon THEN {"pw", "bias"} ELSE {})
MainInv ==
  /\ main \in [at : {"IDLE", "WB", "BIAS", "OFF"} \cup Sensor, rq : MainRequest]
  /\ main.at = "OFF" => main.rq.op = "wr"
  /\ cntMain \in 0 .. WbLimit /\ reqMain \in Seq(MainRequest)
AuxInv ==
  /\ aux \in [at : {"IDLE", "WB", "OFF_low", "OFF_high", "READ"}, rq : AuxRequest]
  /\ aux.at \in {"OFF_low", "OFF_high"} => aux.rq.op = "wr"
  /\ cntAux \in 0 .. WbLimit /\ reqAux \in Seq(AuxRequest)
FlagInv ==
  /\ tripped \in BOOLEAN /\ lost \in BOOLEAN /\ faults \in 0 .. MaxFaults
  /\ guarded \in BOOLEAN /\ asked \in BOOLEAN /\ fresh \in BOOLEAN /\ failed \in BOOLEAN
  /\ call \in {"none", "on", "off", "plain_off"} /\ calls \in 0 .. MaxCalls
ProgInv ==
  /\ prog \in Seq(Step)
  /\ asked => prog # <<>> /\ Head(prog).do \in {"read_aux", "read_main"}
Reply == [ok : BOOLEAN, v : SUBSET (Module \cup Channel)]
ReplyInv == reply = <<>> \/ \E r \in Reply : reply = <<r>>

Reading(rq) == rq.op = "rd"
NoRead(q) == \A i \in DOMAIN q : ~Reading(q[i])
OneRead(q) == \A i, j \in DOMAIN q : Reading(q[i]) /\ Reading(q[j]) => i = j
ReadsInv ==
  /\ OneRead(reqMain) /\ OneRead(reqAux)
  /\ ~NoRead(reqMain) => asked /\ NoRead(reqAux) /\ ~Reading(main.rq) /\ ~Reading(aux.rq) /\ reply = <<>>
  /\ ~NoRead(reqAux) => asked /\ ~Reading(main.rq) /\ ~Reading(aux.rq) /\ reply = <<>>
  /\ Reading(main.rq) => asked /\ ~Reading(aux.rq) /\ reply = <<>>
  /\ Reading(aux.rq) => asked /\ reply = <<>>
  /\ reply # <<>> => asked

TypeInv == /\ UnitInv /\ RegsInv /\ SeenInv /\ MainInv /\ AuxInv
           /\ FlagInv /\ ProgInv /\ ReplyInv /\ ReadsInv

-----------------------------------------------------------------------------
(***************************************************************************)
(* Lemmas about queues.                                                    *)
(***************************************************************************)
\* The tail of a queue, element by element.
LEMMA TailOf ==
  ASSUME NEW S, NEW q \in Seq(S), q # <<>>
  PROVE  /\ Tail(q) \in Seq(S) /\ Head(q) \in S /\ Head(q) = q[1] /\ 1 \in DOMAIN q
         /\ \A i \in DOMAIN Tail(q) : i + 1 \in DOMAIN q /\ Tail(q)[i] = q[i + 1] /\ i \in Nat
         /\ \A i \in DOMAIN q : i # 1 => i - 1 \in DOMAIN Tail(q) /\ Tail(q)[i - 1] = q[i]
  OBVIOUS

\* A queue with one more element.
LEMMA AppendOf ==
  ASSUME NEW S, NEW q \in Seq(S), NEW r \in S
  PROVE  /\ Append(q, r) \in Seq(S) /\ Len(q) + 1 \in DOMAIN Append(q, r)
         /\ Append(q, r)[Len(q) + 1] = r
         /\ \A i \in DOMAIN q : i \in DOMAIN Append(q, r) /\ Append(q, r)[i] = q[i] /\ i < Len(q) + 1
         /\ \A i \in DOMAIN Append(q, r) : i \in DOMAIN q \/ i = Len(q) + 1
  OBVIOUS

\* Reads in the tail of a queue.
LEMMA TailReads ==
  ASSUME NEW S, NEW q \in Seq(S), q # <<>>, OneRead(q)
  PROVE  /\ OneRead(Tail(q))
         /\ NoRead(q) => NoRead(Tail(q)) /\ ~Reading(Head(q))
         /\ Reading(Head(q)) => NoRead(Tail(q))
  BY TailOf DEF OneRead, NoRead

\* Reads in a queue with one more element.
LEMMA AppendReads ==
  ASSUME NEW S, NEW q \in Seq(S), NEW r \in S, OneRead(q), NoRead(q) \/ ~Reading(r)
  PROVE  /\ OneRead(Append(q, r))
         /\ NoRead(q) /\ ~Reading(r) => NoRead(Append(q, r))
  BY AppendOf DEF OneRead, NoRead

-----------------------------------------------------------------------------
(***************************************************************************)
(* The types are kept by the two machines.                                 *)
(***************************************************************************)
\* The next measurement is one of a sensor in use, or the bias enables.
LEMMA TempIsSensor ==
  ASSUME RegsInv, NEW k \in 0 .. 3
  PROVE  TempAfter(k) \in Sensor \cup {"BIAS"}
  <1>1. CASE \E i \in k + 1 .. 3 : Order[i] \in mon
    <2>1. \E i \in k + 1 .. 3 : Order[i] \in mon /\ \A j \in k + 1 .. i - 1 : Order[j] \notin mon
      <3>1. CASE 1 \in k + 1 .. 3 /\ Order[1] \in mon
        BY <3>1
      <3>2. CASE ~(1 \in k + 1 .. 3 /\ Order[1] \in mon) /\ 2 \in k + 1 .. 3 /\ Order[2] \in mon
        BY <3>2
      <3>3. CASE ~(1 \in k + 1 .. 3 /\ Order[1] \in mon) /\ ~(2 \in k + 1 .. 3 /\ Order[2] \in mon)
        BY <3>3, <1>1
      <3> QED BY <3>1, <3>2, <3>3
    <2>2. PICK i \in 1 .. 3 : TempAfter(k) = Order[i] /\ Order[i] \in mon
      BY <1>1, <2>1 DEF TempAfter
    <2> QED BY <2>2 DEF RegsInv, Order
  <1>2. CASE ~\E i \in k + 1 .. 3 : Order[i] \in mon
    BY <1>2 DEF TempAfter
  <1> QED BY <1>1, <1>2

\* A machine that goes to a state without a request carries none.
LEMMA GotoType ==
  ASSUME NEW state
  PROVE  /\ Goto(state).at = state /\ ~Reading(Goto(state).rq) /\ Goto(state).rq.op = "none"
         /\ Goto(state).rq \in MainRequest /\ Goto(state).rq \in AuxRequest
         /\ Goto(state) = [at |-> state, rq |-> Goto(state).rq]
  BY DEF Goto, NoReq, Reading, MainRequest, AuxRequest, Op, Half

\* A fault is counted, or there is none.
LEMMA FaultType ==
  ASSUME FlagInv, Fault \/ Clean
  PROVE  faults' \in 0 .. MaxFaults
  BY PartsKnown DEF FlagInv, Fault, Clean

\* The latch stays a truth value.
LEMMA LatchType ==
  ASSUME Latch
  PROVE  tripped' \in BOOLEAN
  BY DEF Latch

\* What a machine that has carried out a request leaves.
LEMMA AnswerType ==
  ASSUME FlagInv, ReplyInv, NEW rq, NEW value \in SUBSET (Module \cup Channel), Answer(rq, value)
  PROVE  /\ lost' \in BOOLEAN /\ faults' \in 0 .. MaxFaults /\ ReplyInv'
         /\ ~Reading(rq) => reply' = reply
         /\ Reading(rq) => reply' # <<>>
  <1>1. lost' \in BOOLEAN
    BY DEF FlagInv, Answer
  <1>2. faults' \in 0 .. MaxFaults
    BY FaultType DEF Answer
  <1>3. /\ [ok |-> TRUE, v |-> value] \in Reply
        /\ [ok |-> FALSE, v |-> {}] \in Reply
    BY DEF Reply
  <1>4. ReplyInv'
    BY <1>3 DEF Answer, ReplyInv
  <1> QED BY <1>1, <1>2, <1>4 DEF Answer, Reading

\* The main machine goes on to a measurement.
LEMMA EnterType ==
  ASSUME RegsInv, MainInv, NEW k \in 0 .. 3, Enter(TempAfter(k)), UNCHANGED reqMain
  PROVE  MainInv' /\ ~Reading(main'.rq)
  <1>1. TempAfter(k) \in Sensor \cup {"BIAS"} /\ TempAfter(k) # "OFF"
    BY TempIsSensor, PartsKnown
  <1>2. cntMain' \in 0 .. WbLimit
    BY DEF Enter, MainInv, WbLimit
  <1> QED BY <1>1, <1>2, GotoType DEF Enter, MainInv

LEMMA MainIdleType ==
  ASSUME TypeInv, MainIdle, Latch, UNCHANGED swVars
  PROVE  TypeInv'
  <1> USE DEF TypeInv
  <1>1. UnitInv' /\ RegsInv' /\ SeenInv' /\ AuxInv' /\ ReplyInv' /\ ProgInv'
    BY DEF MainIdle, unit, regs, seen, auxFsm, swVars, UnitInv, RegsInv, SeenInv, AuxInv, ReplyInv, ProgInv
  <1>2. FlagInv'
    BY LatchType DEF MainIdle, swVars, FlagInv
  <1>3. CASE /\ MayServe(reqMain, cntMain)
             /\ main' = [at |-> "WB", rq |-> Head(reqMain)] /\ reqMain' = Tail(reqMain)
             /\ cntMain' = IF Temps = {} THEN cntMain ELSE cntMain + 1
    <2>1. /\ reqMain \in Seq(MainRequest) /\ reqMain # <<>> /\ cntMain < WbLimit
          /\ cntMain \in 0 .. WbLimit /\ WbLimit = 2
      BY <1>3 DEF MainInv, MayServe, WbLimit
    <2>2. MainInv'
      <3>1. Head(reqMain) \in MainRequest /\ reqMain' \in Seq(MainRequest)
        BY <1>3, <2>1, TailOf
      <3>2. cntMain' \in 0 .. WbLimit
        BY <1>3, <2>1
      <3> QED BY <1>3, <3>1, <3>2 DEF MainInv
    <2>3. ReadsInv'
      <3>1. /\ OneRead(Tail(reqMain))
            /\ NoRead(reqMain) => NoRead(Tail(reqMain)) /\ ~Reading(Head(reqMain))
            /\ Reading(Head(reqMain)) => NoRead(Tail(reqMain))
        BY <2>1, TailReads DEF ReadsInv
      <3>2. main'.rq = Head(reqMain)
        BY <1>3
      <3> QED BY <1>3, <3>1, <3>2 DEF ReadsInv, MainIdle, auxFsm, swVars
    <2> QED BY <1>1, <1>2, <2>2, <2>3
  <1>4. CASE UNCHANGED reqMain /\ Enter(TempAfter(0))
    <2>1. MainInv' /\ ~Reading(main'.rq)
      BY <1>4, EnterType
    <2>2. ReadsInv'
      BY <1>4, <2>1 DEF ReadsInv, MainIdle, auxFsm, swVars
    <2> QED BY <1>1, <1>2, <2>1, <2>2
  <1>5. CASE cntMain' = 0 /\ UNCHANGED <<main, reqMain>>
    <2>1. MainInv'
      BY <1>5 DEF MainInv, WbLimit
    <2>2. ReadsInv'
      BY <1>5 DEF ReadsInv, MainIdle, auxFsm, swVars
    <2> QED BY <1>1, <1>2, <2>1, <2>2
  <1> QED BY <1>3, <1>4, <1>5 DEF MainIdle

LEMMA MainWbType ==
  ASSUME TypeInv, MainWb, Latch, UNCHANGED swVars
  PROVE  TypeInv'
  <1> USE DEF TypeInv
  <1>1. RegsInv' /\ SeenInv' /\ AuxInv' /\ ProgInv'
    BY DEF MainWb, regs, seen, auxFsm, swVars, RegsInv, SeenInv, AuxInv, ProgInv
  <1>2. /\ lost' \in BOOLEAN /\ faults' \in 0 .. MaxFaults /\ ReplyInv'
        /\ ~Reading(main.rq) => reply' = reply
        /\ Reading(main.rq) => reply' # <<>>
    BY AnswerType DEF MainWb, UnitInv
  <1>3. FlagInv'
    BY <1>2, LatchType DEF MainWb, swVars, FlagInv
  <1>4. UnitInv'
    BY DEF MainWb, UnitInv, MainInv, MainRequest
  <1>5. main' = Goto("IDLE") /\ UNCHANGED <<cntMain, reqMain>>
    BY DEF MainWb
  <1>6. MainInv' /\ ~Reading(main'.rq)
    BY <1>5, GotoType DEF MainInv
  <1>7. ReadsInv'
    BY <1>2, <1>5, <1>6 DEF ReadsInv, MainWb, auxFsm, swVars
  <1> QED BY <1>1, <1>2, <1>3, <1>4, <1>6, <1>7

LEMMA MainTempType ==
  ASSUME TypeInv, MainTemp, Latch, UNCHANGED swVars
  PROVE  TypeInv'
  <1> USE DEF TypeInv
  <1>1. PICK k \in 1 .. 3 :
          /\ main.at = Order[k] /\ nok' \subseteq nok \cup {Order[k]} /\ prev' \subseteq prev \cup {Order[k]}
          /\ (Fault \/ Clean) /\ Enter(TempAfter(k))
          /\ UNCHANGED <<unit, regs, enL, biasL, valid, reqMain, auxFsm, reply, lost>>
    <2>1. PICK k \in {i \in 1 .. 3 : main.at = Order[i]} :
            /\ \/ Clean /\ prev' = (prev \ {Order[k]}) \cup (nok \cap {Order[k]})
                        /\ nok' = (nok \ {Order[k]}) \cup (hot \cap {Order[k]})
               \/ Fault /\ UNCHANGED <<nok, prev>>
               \/ Fault /\ nok' = nok \cup {Order[k]} /\ prev' = prev \cup {Order[k]}
            /\ Enter(TempAfter(k))
            /\ UNCHANGED <<unit, regs, enL, biasL, valid, reqMain, auxFsm, reply, lost>>
      BY DEF MainTemp
    <2> QED BY <2>1
  <1>2. Order[k] \in Sensor
    <2>1. Order[k] \in {"P0", "P1", "P2"}
      BY DEF Order
    <2> QED BY <1>1, <2>1 DEF MainInv
  <1>3. UnitInv' /\ RegsInv' /\ SeenInv' /\ AuxInv' /\ ReplyInv' /\ ProgInv'
    BY <1>1, <1>2 DEF unit, regs, auxFsm, swVars, UnitInv, RegsInv, SeenInv, AuxInv, ReplyInv, ProgInv
  <1>4. FlagInv'
    BY <1>1, FaultType, LatchType DEF swVars, FlagInv
  <1>5. MainInv' /\ ~Reading(main'.rq)
    BY <1>1, EnterType
  <1>6. ReadsInv'
    BY <1>1, <1>5 DEF ReadsInv, auxFsm, swVars
  <1> QED BY <1>3, <1>4, <1>5, <1>6

LEMMA MainCompareType ==
  ASSUME TypeInv, MainCompare, Latch, UNCHANGED swVars
  PROVE  TypeInv'
  <1> USE DEF TypeInv
  <1>1. UnitInv' /\ RegsInv' /\ SeenInv' /\ AuxInv' /\ ReplyInv' /\ ProgInv'
    BY DEF MainCompare, unit, regs, auxFsm, swVars, UnitInv, RegsInv, SeenInv, AuxInv, ReplyInv, ProgInv
  <1>2. FlagInv'
    BY FaultType, LatchType DEF MainCompare, swVars, FlagInv
  <1>3. MainInv' /\ ~Reading(main'.rq)
    <2>1. UNCHANGED <<cntMain, reqMain>>
      BY DEF MainCompare
    <2>2. CASE main' = Goto("IDLE")
      BY <2>1, <2>2, GotoType DEF MainInv
    <2>3. CASE main' = [at |-> "OFF", rq |-> [op |-> "wr", half |-> "low", v |-> KeepBias']]
      <3>1. KeepBias' \subseteq Channel
        BY <1>1 DEF KeepBias, RegsInv
      <3> QED BY <2>1, <2>3, <3>1 DEF MainInv, MainRequest, Op, Reading
    <2> QED BY <2>2, <2>3 DEF MainCompare
  <1>4. ReadsInv'
    BY <1>3 DEF MainCompare, ReadsInv, auxFsm, swVars
  <1> QED BY <1>1, <1>2, <1>3, <1>4

LEMMA MainOffType ==
  ASSUME TypeInv, MainOff, Latch, UNCHANGED swVars
  PROVE  TypeInv'
  <1> USE DEF TypeInv
  <1>1. RegsInv' /\ SeenInv' /\ AuxInv' /\ ReplyInv' /\ ProgInv'
    BY DEF MainOff, regs, seen, auxFsm, swVars, RegsInv, SeenInv, AuxInv, ReplyInv, ProgInv
  <1>2. FlagInv'
    BY FaultType, LatchType DEF MainOff, swVars, FlagInv
  <1>3. UnitInv'
    BY DEF MainOff, UnitInv, MainInv, MainRequest
  <1>4. MainInv' /\ ~Reading(main'.rq)
    BY GotoType DEF MainOff, MainInv
  <1>5. ReadsInv'
    BY <1>4 DEF MainOff, ReadsInv, auxFsm, swVars
  <1> QED BY <1>1, <1>2, <1>3, <1>4, <1>5

\* A turn-off of the interlock carries what one expander keeps.
LEMMA TurnOffType ==
  ASSUME RegsInv, NEW half \in Half
  PROVE  /\ TurnOff(half).at \in {"OFF_low", "OFF_high"}
         /\ TurnOff(half).rq \in AuxRequest /\ TurnOff(half).rq.op = "wr"
         /\ TurnOff(half) = [at |-> TurnOff(half).at, rq |-> TurnOff(half).rq]
  <1>1. KeepPw \cap Part(half) \in SUBSET Module
    BY DEF KeepPw, RegsInv
  <1> QED BY <1>1 DEF TurnOff, AuxRequest, Op

\* The state after a turn-off or a read is one of the auxiliary machine.
LEMMA AuxNext ==
  ASSUME RegsInv, AuxInv,
         \/ \E half \in Half : aux' = TurnOff(half)
         \/ aux' = Goto("READ") \/ aux' = Goto("IDLE"),
         cntAux' \in 0 .. WbLimit, UNCHANGED reqAux
  PROVE  AuxInv' /\ ~Reading(aux'.rq)
  <1>1. ASSUME NEW half \in Half, aux' = TurnOff(half) PROVE AuxInv' /\ ~Reading(aux'.rq)
    BY <1>1, TurnOffType DEF AuxInv, Reading
  <1>2. CASE aux' = Goto("READ") \/ aux' = Goto("IDLE")
    BY <1>2, GotoType DEF AuxInv
  <1> QED BY <1>1, <1>2

LEMMA AuxIdleType ==
  ASSUME TypeInv, AuxIdle, Latch, UNCHANGED swVars
  PROVE  TypeInv'
  <1> USE DEF TypeInv
  <1>1. UnitInv' /\ RegsInv' /\ SeenInv' /\ MainInv' /\ ReplyInv' /\ ProgInv'
    BY DEF AuxIdle, unit, regs, seen, mainFsm, swVars, UnitInv, RegsInv, SeenInv, MainInv, ReplyInv, ProgInv
  <1>2. FlagInv'
    BY LatchType DEF AuxIdle, swVars, FlagInv
  <1>3. CASE /\ MayServe(reqAux, cntAux)
             /\ aux' = [at |-> "WB", rq |-> Head(reqAux)] /\ reqAux' = Tail(reqAux)
             /\ cntAux' = IF OffHalves = {} THEN cntAux ELSE cntAux + 1
    <2>1. /\ reqAux \in Seq(AuxRequest) /\ reqAux # <<>> /\ cntAux < WbLimit
          /\ cntAux \in 0 .. WbLimit /\ WbLimit = 2
      BY <1>3 DEF AuxInv, MayServe, WbLimit
    <2>2. AuxInv'
      <3>1. Head(reqAux) \in AuxRequest /\ reqAux' \in Seq(AuxRequest)
        BY <1>3, <2>1, TailOf
      <3>2. cntAux' \in 0 .. WbLimit
        BY <1>3, <2>1
      <3> QED BY <1>3, <3>1, <3>2 DEF AuxInv
    <2>3. ReadsInv'
      <3>1. /\ OneRead(Tail(reqAux))
            /\ NoRead(reqAux) => NoRead(Tail(reqAux)) /\ ~Reading(Head(reqAux))
            /\ Reading(Head(reqAux)) => NoRead(Tail(reqAux))
        BY <2>1, TailReads DEF ReadsInv
      <3>2. aux'.rq = Head(reqAux)
        BY <1>3
      <3> QED BY <1>3, <3>1, <3>2 DEF ReadsInv, AuxIdle, mainFsm, swVars
    <2> QED BY <1>1, <1>2, <2>2, <2>3
  <1>4. CASE UNCHANGED <<aux, reqAux>> /\ cntAux' = 0
    <2>1. AuxInv'
      BY <1>4 DEF AuxInv, WbLimit
    <2>2. ReadsInv'
      BY <1>4 DEF ReadsInv, AuxIdle, mainFsm, swVars
    <2> QED BY <1>1, <1>2, <2>1, <2>2
  <1>5. CASE UNCHANGED reqAux /\ cntAux' = 0
             /\ (aux' = TurnOff("low") \/ aux' = TurnOff("high") \/ aux' = Goto("READ"))
    <2>1. cntAux' \in 0 .. WbLimit
      BY <1>5 DEF WbLimit
    <2>2. AuxInv' /\ ~Reading(aux'.rq)
      BY <1>5, <2>1, AuxNext DEF Half
    <2>3. ReadsInv'
      BY <1>5, <2>2 DEF ReadsInv, AuxIdle, mainFsm, swVars
    <2> QED BY <1>1, <1>2, <2>2, <2>3
  <1> QED BY <1>3, <1>4, <1>5 DEF AuxIdle

LEMMA AuxWbType ==
  ASSUME TypeInv, AuxWb, Latch, UNCHANGED swVars
  PROVE  TypeInv'
  <1> USE DEF TypeInv
  <1>1. RegsInv' /\ SeenInv' /\ MainInv' /\ ProgInv'
    BY DEF AuxWb, regs, seen, mainFsm, swVars, RegsInv, SeenInv, MainInv, ProgInv
  <1>2. /\ lost' \in BOOLEAN /\ faults' \in 0 .. MaxFaults /\ ReplyInv'
        /\ ~Reading(aux.rq) => reply' = reply
        /\ Reading(aux.rq) => reply' # <<>>
    <2>1. pw \cap Part(aux.rq.half) \in SUBSET (Module \cup Channel)
      BY DEF UnitInv
    <2> QED BY <2>1, AnswerType DEF AuxWb
  <1>3. FlagInv'
    BY <1>2, LatchType DEF AuxWb, swVars, FlagInv
  <1>4. UnitInv'
    BY DEF AuxWb, UnitInv, Expander, Part
  <1>5. aux' = Goto("IDLE") /\ UNCHANGED <<cntAux, reqAux>>
    BY DEF AuxWb
  <1>6. AuxInv' /\ ~Reading(aux'.rq)
    BY <1>5, AuxNext DEF AuxInv
  <1>7. ReadsInv'
    BY <1>2, <1>5, <1>6 DEF ReadsInv, AuxWb, mainFsm, swVars
  <1> QED BY <1>1, <1>2, <1>3, <1>4, <1>6, <1>7

LEMMA AuxOffType ==
  ASSUME TypeInv, AuxOff, Latch, UNCHANGED swVars
  PROVE  TypeInv'
  <1> USE DEF TypeInv
  <1>1. RegsInv' /\ SeenInv' /\ MainInv' /\ ReplyInv' /\ ProgInv'
    BY DEF AuxOff, regs, seen, mainFsm, swVars, RegsInv, SeenInv, MainInv, ReplyInv, ProgInv
  <1>2. FlagInv'
    BY FaultType, LatchType DEF AuxOff, swVars, FlagInv
  <1>3. UnitInv'
    BY DEF AuxOff, UnitInv, Expander, Part
  <1>4. UNCHANGED <<cntAux, reqAux>> /\ (aux' = TurnOff("high") \/ aux' = Goto("READ") \/ aux' = Goto("IDLE"))
    BY DEF AuxOff
  <1>5. AuxInv' /\ ~Reading(aux'.rq)
    BY <1>4, AuxNext DEF AuxInv, Half
  <1>6. ReadsInv'
    BY <1>4, <1>5 DEF AuxOff, ReadsInv, mainFsm, swVars
  <1> QED BY <1>1, <1>2, <1>3, <1>5, <1>6

LEMMA AuxReadType ==
  ASSUME TypeInv, AuxRead, Latch, UNCHANGED swVars
  PROVE  TypeInv'
  <1> USE DEF TypeInv
  <1>1. UnitInv' /\ RegsInv' /\ MainInv' /\ ReplyInv' /\ ProgInv'
    BY DEF AuxRead, unit, regs, mainFsm, swVars, UnitInv, RegsInv, MainInv, ReplyInv, ProgInv
  <1>2. FlagInv'
    BY FaultType, LatchType DEF AuxRead, swVars, FlagInv
  <1>3. SeenInv'
    BY DEF AuxRead, regs, SeenInv, UnitInv
  <1>4. AuxInv' /\ ~Reading(aux'.rq)
    BY AuxNext DEF AuxRead, AuxInv
  <1>5. ReadsInv'
    BY <1>4 DEF AuxRead, ReadsInv, mainFsm, swVars
  <1> QED BY <1>1, <1>2, <1>3, <1>4, <1>5

LEMMA WorldType ==
  ASSUME TypeInv, World
  PROVE  TypeInv'
  <1> USE DEF TypeInv
  <1>1. /\ UNCHANGED <<regs, seen, mainFsm, auxFsm, reply, lost, swVars>>
        /\ (Fault \/ Clean) /\ Latch
        /\ pw' \subseteq pw /\ bias' \subseteq bias /\ hot' \subseteq hot \cup Sensor
    <2>1. CASE ChannelTrips
      BY <2>1 DEF ChannelTrips, World
    <2>2. CASE Heats
      BY <2>2 DEF Heats, World
    <2>3. CASE Cools
      BY <2>3 DEF Cools, Clean, World
    <2> QED BY <2>1, <2>2, <2>3 DEF World
  <1>2. UnitInv' /\ RegsInv' /\ SeenInv' /\ MainInv' /\ AuxInv' /\ ReplyInv' /\ ProgInv'
    BY <1>1 DEF regs, seen, mainFsm, auxFsm, swVars, UnitInv, RegsInv, SeenInv, MainInv, AuxInv, ReplyInv, ProgInv
  <1>3. FlagInv'
    BY <1>1, FaultType, LatchType DEF swVars, FlagInv
  <1>4. ReadsInv'
    BY <1>1 DEF ReadsInv, mainFsm, auxFsm, swVars
  <1> QED BY <1>2, <1>3, <1>4

-----------------------------------------------------------------------------
(***************************************************************************)
(* The programs, and the types under the steps of software.                *)
(***************************************************************************)
\* What the steps of a program carry.
LEMMA StepType ==
  ASSUME NEW d \in Step
  PROVE  /\ d.do \in {"mask_pw", "aux", "read_aux"} => d.half \in Half /\ d.v \subseteq Module
         /\ d.do \in {"mask_bias", "main", "read_main"} => d.half = "low" /\ d.v \subseteq Channel
  BY DEF Step, PwStep, BiasStep, PlainStep

LEMMA DoType ==
  /\ \A half \in Half, S \in SUBSET Module : Do("aux", half, S) \in Step /\ Do("read_aux", half, S) \in Step
  /\ \A S \in SUBSET Module : Do("mask_pw", "low", S) \in Step
  /\ \A B \in SUBSET Channel : /\ Do("mask_bias", "low", B) \in Step /\ Do("main", "low", B) \in Step
                               /\ Do("read_main", "low", B) \in Step
  /\ \A what \in {"pwr_on", "pwr_off", "temps", "arm_temps", "clear", "try", "armed", "fired", "check"} :
       Do(what, "low", {}) \in Step
  <1>1. \A half \in Half, S \in SUBSET Module : Do("aux", half, S) \in PwStep /\ Do("read_aux", half, S) \in PwStep
    BY DEF Do, PwStep
  <1>2. \A S \in SUBSET Module : Do("mask_pw", "low", S) \in PwStep
    BY DEF Do, PwStep, Half
  <1>3. \A B \in SUBSET Channel : /\ Do("mask_bias", "low", B) \in BiasStep /\ Do("main", "low", B) \in BiasStep
                                  /\ Do("read_main", "low", B) \in BiasStep
    BY DEF Do, BiasStep
  <1>4. \A what \in {"pwr_on", "pwr_off", "temps", "arm_temps", "clear", "try", "armed", "fired", "check"} :
          Do(what, "low", {}) \in PlainStep
    BY DEF Do, PlainStep
  <1> QED BY <1>1, <1>2, <1>3, <1>4 DEF Step

LEMMA JoinType ==
  ASSUME NEW p \in Seq(Step), NEW q \in Seq(Step)
  PROVE  p \o q \in Seq(Step) /\ Len(p \o q) = Len(p) + Len(q)
  OBVIOUS

\* The programs from which the others are put together.
LEMMA SetPowerType ==
  ASSUME NEW S \in SUBSET Module
  PROVE  SetPower(S) \in Seq(Step) /\ Len(SetPower(S)) = 2
  BY DoType DEF SetPower, Half

LEMMA StatusType ==
  ASSUME NEW S \in SUBSET Module, NEW B \in SUBSET Channel
  PROVE  Status(S, B) \in Seq(Step) /\ Len(Status(S, B)) = 3
  BY DoType DEF Status, Half

LEMMA ArmType ==
  ASSUME NEW S \in SUBSET Module, NEW B \in SUBSET Channel
  PROVE  Arm(S, B) \in Seq(Step)
  BY DoType DEF Arm

LEMMA DisarmType == Disarm \in Seq(Step)
  BY DoType DEF Disarm

LEMMA PowerOffType ==
  ASSUME NEW disable \in BOOLEAN
  PROVE  PowerOff(disable) \in Seq(Step)
  <1>1. (IF disable THEN Disarm ELSE <<>>) \in Seq(Step)
    BY DisarmType
  <1>2. SetPower({}) \in Seq(Step)
    BY SetPowerType
  <1>3. <<Do("main", "low", {})>> \in Seq(Step)
    BY DoType
  <1> QED BY <1>1, <1>2, <1>3 DEF PowerOff

LEMMA PrepareType == Prepare \in Seq(Step)
  <1>1. <<Do("temps", "low", {})>> \in Seq(Step) /\ <<Do("arm_temps", "low", {}), Do("clear", "low", {})>> \in Seq(Step)
    BY DoType
  <1> QED BY <1>1, DisarmType DEF Prepare

LEMMA PowerOnType ==
  ASSUME NEW list \in Lists, NEW back \in Bias
  PROVE  PowerOn(list, back) \in Seq(Step)
  <1> DEFINE B == IF back THEN Range(list) \cap Channel ELSE {}
             S(k) == {list[i] : i \in 1 .. k}
             Five(k) == SetPower(S(k)) \o Status(S(k), B)
             Start == <<Do("armed", "low", {}), Do("fired", "low", {}), Do("try", "low", {})>>
             Backbias == IF back THEN <<Do("main", "low", B)>> \o Status({}, B) ELSE <<>>
             Modules == [i \in 1 .. 5 * Len(list) |-> Five(((i - 1) \div 5) + 1)[((i - 1) % 5) + 1]]
             Check == <<Do("check", "low", {})>>
             Fired == <<Do("fired", "low", {})>>
  <1>1. list \in Seq(Module) /\ back \in BOOLEAN
    BY CallsKnown
  <1>2. B \in SUBSET Channel
    OBVIOUS
  <1>3. Range(list) \in SUBSET Module
    BY <1>1 DEF Range
  <1>4. Start \in Seq(Step) /\ Check \in Seq(Step) /\ Fired \in Seq(Step)
    BY DoType
  <1>5. Backbias \in Seq(Step)
    <2>1. <<Do("main", "low", B)>> \in Seq(Step)
      BY <1>2, DoType
    <2>2. Status({}, B) \in Seq(Step)
      BY <1>2, StatusType
    <2> HIDE DEF B
    <2> QED BY <2>1, <2>2
  <1>6. Modules \in Seq(Step)
    <2>1. ASSUME NEW k \in 1 .. Len(list) PROVE Five(k) \in Seq(Step) /\ Len(Five(k)) = 5
      <3>1. S(k) \in SUBSET Module
        BY <1>1
      <3>2. /\ SetPower(S(k)) \in Seq(Step) /\ Len(SetPower(S(k))) = 2
            /\ Status(S(k), B) \in Seq(Step) /\ Len(Status(S(k), B)) = 3
        BY <1>2, <3>1, SetPowerType, StatusType
      <3>3. SetPower(S(k)) \o Status(S(k), B) \in Seq(Step)
        BY <3>2, JoinType
      <3>4. Len(SetPower(S(k)) \o Status(S(k), B)) = 2 + 3
        BY <3>2, JoinType
      <3> QED BY <3>3, <3>4
    <2>2. ASSUME NEW i \in 1 .. 5 * Len(list)
          PROVE  Five(((i - 1) \div 5) + 1)[((i - 1) % 5) + 1] \in Step
      <3>1. Len(list) \in Nat
        BY <1>1
      <3>2. ((i - 1) \div 5) + 1 \in 1 .. Len(list) /\ ((i - 1) % 5) + 1 \in 1 .. 5
        BY <3>1
      <3> HIDE DEF Five
      <3> QED BY <2>1, <3>2
    <2>3. 5 * Len(list) \in Nat
      BY <1>1
    <2> HIDE DEF Five
    <2> QED BY <2>2, <2>3
  <1>7. /\ Arm(Range(list), B) \in Seq(Step) /\ Status(Range(list), B) \in Seq(Step)
    BY <1>2, <1>3, ArmType, StatusType
  <1>8. PowerOn(list, back) = Start \o Backbias \o Modules \o Check \o Arm(Range(list), B)
                              \o Fired \o Status(Range(list), B) \o Check
    BY DEF PowerOn
  <1> HIDE DEF Start, Backbias, Modules, Check, Fired, B
  <1> QED BY <1>4, <1>5, <1>6, <1>7, <1>8

\* A step of a program is over, or the program raises.
LEMMA AdvanceType ==
  ASSUME FlagInv, prog \in Seq(Step), prog # <<>>, Advance
  PROVE  /\ prog' \in Seq(Step) /\ guarded' \in BOOLEAN /\ failed' \in BOOLEAN
         /\ call' \in {"none", "on", "off", "plain_off"}
  <1>1. prog' \in Seq(Step)
    BY DEF Advance
  <1>2. guarded' \in BOOLEAN
    BY DEF Advance
  <1> QED BY <1>1, <1>2 DEF Advance, FlagInv

LEMMA RaiseType ==
  ASSUME Raise
  PROVE  /\ prog' \in Seq(Step) /\ guarded' \in BOOLEAN /\ failed' \in BOOLEAN
         /\ call' \in {"none", "on", "off", "plain_off"}
  <1>1. PowerOff(FALSE) \in Seq(Step)
    BY PowerOffType
  <1>2. <<>> \in Seq(Step)
    OBVIOUS
  <1> QED BY <1>1, <1>2 DEF Raise

LEMMA CallsType ==
  ASSUME TypeInv, Calls
  PROVE  TypeInv'
  <1> USE DEF TypeInv
  <1>1. PICK p, name, starts :
          /\ Begin(p, name, starts) /\ p \in Seq(Step) /\ name \in {"none", "on", "off", "plain_off"}
          /\ starts \in BOOLEAN
    <2>1. CASE CallPowerOn
      <3>1. PICK list \in Lists, back \in Bias :
              Begin(PowerOn(list, back), "on", /\ pw = {} /\ bias = {} /\ "PWR" \notin mon /\ ~tripped
                                               /\ OffHalves = {} /\ Sensor \subseteq mon
                                               /\ main.at # "OFF" /\ aux.at \notin {"OFF_low", "OFF_high"})
        BY <2>1 DEF CallPowerOn
      <3> QED BY <3>1, PowerOnType
    <2>2. CASE CallPowerOff
      <3>1. PICK disable \in DisableOnOff :
              Begin(PowerOff(disable), IF disable THEN "off" ELSE "plain_off", FALSE)
        BY <2>2 DEF CallPowerOff
      <3>2. disable \in BOOLEAN
        BY CallsKnown
      <3> QED BY <3>1, <3>2, PowerOffType
    <2>3. CASE CallPrepare
      BY <2>3, PrepareType DEF CallPrepare
    <2> QED BY <2>1, <2>2, <2>3 DEF Calls
  <1>2. Latch
    BY DEF Calls
  <1>3. UnitInv' /\ RegsInv' /\ SeenInv' /\ MainInv' /\ AuxInv' /\ ReplyInv' /\ ReadsInv'
    BY <1>1 DEF Begin, unit, regs, seen, mainFsm, auxFsm,
                UnitInv, RegsInv, SeenInv, MainInv, AuxInv, ReplyInv, ReadsInv
  <1>4. ProgInv'
    BY <1>1 DEF Begin, ProgInv
  <1>5. FlagInv'
    <2>1. calls' \in 0 .. MaxCalls
      BY <1>1, CallsKnown DEF Begin, FlagInv
    <2>2. lost' \in BOOLEAN /\ tripped' \in BOOLEAN
      BY <1>1, <1>2, LatchType DEF Begin
    <2>3. fresh' \in BOOLEAN /\ failed' \in BOOLEAN
      BY <1>1 DEF Begin
    <2> QED BY <1>1, <2>1, <2>2, <2>3 DEF Begin, FlagInv
  <1> QED BY <1>3, <1>4, <1>5

LEMMA RegisterType ==
  ASSUME TypeInv, SwRegister
  PROVE  TypeInv'
  <1> USE DEF TypeInv
  <1> DEFINE d == Head(prog)
  <1>1. /\ prog \in Seq(Step) /\ prog # <<>> /\ d \in Step
        /\ UNCHANGED <<unit, nok, prev, enL, biasL, mainFsm, auxFsm, reply, lost, asked, fresh, calls>>
        /\ (Advance \/ Raise) /\ (Fault \/ Clean)
        /\ d.do \notin {"read_aux", "read_main"}
    BY TailOf DEF SwRegister, ProgInv, Clean
  <1>2. /\ prog' \in Seq(Step) /\ guarded' \in BOOLEAN /\ failed' \in BOOLEAN
        /\ call' \in {"none", "on", "off", "plain_off"}
    BY <1>1, AdvanceType, RaiseType
  <1>3. asked = FALSE
    BY <1>1 DEF ProgInv, FlagInv
  <1>4. ProgInv'
    BY <1>1, <1>2, <1>3 DEF ProgInv
  <1>5. RegsInv' /\ valid' \subseteq (IF "PWR" \in mon' THEN {"pw", "bias"} ELSE {})
    <2>1. CASE UNCHANGED <<regs, valid>>
      BY <2>1 DEF regs, RegsInv, SeenInv
    <2>2. CASE /\ expPw' = (IF d.do = "mask_pw" THEN d.v ELSE expPw)
               /\ expBias' = (IF d.do = "mask_bias" THEN d.v ELSE expBias)
               /\ mon' = (CASE d.do = "pwr_on" -> mon \cup {"PWR"}    [] d.do = "pwr_off" -> mon \ {"PWR"}
                            [] d.do = "temps" -> mon \ Sensor         [] d.do = "arm_temps" -> mon \cup Sensor
                            [] OTHER -> mon)
               /\ valid' = IF "PWR" \in mon' THEN valid ELSE {}
      <3>1. expPw' \subseteq Module /\ expBias' \subseteq Channel
        BY <1>1, <2>2, StepType DEF RegsInv
      <3>2. mon' \subseteq Sensor \cup {"PWR"}
        BY <2>2 DEF RegsInv
      <3>3. valid \subseteq {"pw", "bias"}
        BY DEF SeenInv
      <3> QED BY <2>2, <3>1, <3>2, <3>3 DEF RegsInv
    <2> QED BY <2>1, <2>2 DEF SwRegister
  <1>6. SeenInv'
    BY <1>1, <1>5 DEF SeenInv
  <1>7. UnitInv' /\ MainInv' /\ AuxInv' /\ ReplyInv' /\ ReadsInv'
    BY <1>1 DEF unit, mainFsm, auxFsm, UnitInv, MainInv, AuxInv, ReplyInv, ReadsInv
  <1>8. FlagInv'
    <2>1. tripped' \in BOOLEAN
      BY DEF SwRegister
    <2> QED BY <1>1, <1>2, <2>1, FaultType DEF FlagInv
  <1> QED BY <1>4, <1>5, <1>6, <1>7, <1>8

LEMMA SendType ==
  ASSUME TypeInv, SwSend
  PROVE  TypeInv'
  <1> USE DEF TypeInv
  <1> DEFINE d == Head(prog)
             rq == [op |-> IF d.do \in {"aux", "main"} THEN "wr" ELSE "rd", half |-> d.half,
                    v |-> IF d.do \in {"aux", "main"} THEN d.v ELSE {}]
  <1>1. /\ prog \in Seq(Step) /\ prog # <<>> /\ d \in Step /\ ~asked
        /\ d.do \in {"aux", "main", "read_aux", "read_main"}
        /\ UNCHANGED <<unit, regs, seen, main, cntMain, aux, cntAux, reply, tripped, lost, faults, fresh, calls>>
    BY TailOf DEF SwSend, ProgInv
  <1>2. /\ d.do \in {"aux", "read_aux"} => rq \in AuxRequest
        /\ d.do \in {"main", "read_main"} => rq \in MainRequest
    BY <1>1, StepType DEF AuxRequest, MainRequest, Op
  <1>3. /\ Reading(rq) <=> d.do \in {"read_aux", "read_main"}
        /\ asked' <=> Reading(rq)
        /\ asked' \in BOOLEAN
    BY <1>1 DEF SwSend, Reading
  <1>4. /\ d.do \in {"aux", "read_aux"} => reqAux' = Append(reqAux, rq) /\ UNCHANGED reqMain
        /\ d.do \in {"main", "read_main"} => reqMain' = Append(reqMain, rq) /\ UNCHANGED reqAux
    BY <1>1 DEF SwSend
  <1>5. UnitInv' /\ RegsInv' /\ SeenInv' /\ ReplyInv'
    BY <1>1 DEF unit, regs, seen, UnitInv, RegsInv, SeenInv, ReplyInv
  <1>6. MainInv' /\ AuxInv'
    <2>1. reqMain' \in Seq(MainRequest) /\ reqAux' \in Seq(AuxRequest)
      <3> HIDE DEF rq, d
      <3>1. reqMain \in Seq(MainRequest) /\ reqAux \in Seq(AuxRequest)
        BY DEF MainInv, AuxInv
      <3>2. CASE d.do \in {"aux", "read_aux"}
        <4>1. Append(reqAux, rq) \in Seq(AuxRequest)
          BY <1>2, <3>1, <3>2, AppendOf
        <4> QED BY <1>4, <3>1, <3>2, <4>1
      <3>3. CASE d.do \in {"main", "read_main"}
        <4>1. Append(reqMain, rq) \in Seq(MainRequest)
          BY <1>2, <3>1, <3>3, AppendOf
        <4> QED BY <1>4, <3>1, <3>3, <4>1
      <3> QED BY <1>1, <3>2, <3>3
    <2> QED BY <1>1, <2>1 DEF MainInv, AuxInv
  <1>7. ProgInv' /\ guarded' \in BOOLEAN /\ failed' \in BOOLEAN /\ call' \in {"none", "on", "off", "plain_off"}
    <2>1. CASE d.do \in {"aux", "main"}
      <3>1. Advance
        BY <2>1 DEF SwSend
      <3> QED BY <1>1, <1>3, <2>1, <3>1, AdvanceType DEF ProgInv
    <2>2. CASE d.do \in {"read_aux", "read_main"}
      <3>1. UNCHANGED <<prog, guarded, failed, call>>
        BY <2>2 DEF SwSend
      <3> QED BY <1>1, <2>2, <3>1 DEF ProgInv, FlagInv
    <2> QED BY <1>1, <2>1, <2>2
  <1>8. FlagInv'
    BY <1>1, <1>3, <1>7 DEF FlagInv
  <1>9. ReadsInv'
    <2> HIDE DEF rq, d
    <2>1. NoRead(reqMain) /\ NoRead(reqAux) /\ ~Reading(main.rq) /\ ~Reading(aux.rq) /\ reply = <<>>
      BY <1>1 DEF ReadsInv
    <2>2. CASE d.do \in {"aux", "read_aux"}
      <3>1. OneRead(Append(reqAux, rq)) /\ (~Reading(rq) => NoRead(Append(reqAux, rq)))
        BY <1>2, <2>1, <2>2, AppendReads DEF ReadsInv, AuxInv
      <3> QED BY <1>1, <1>3, <1>4, <2>1, <2>2, <3>1 DEF ReadsInv
    <2>3. CASE d.do \in {"main", "read_main"}
      <3>1. OneRead(Append(reqMain, rq)) /\ (~Reading(rq) => NoRead(Append(reqMain, rq)))
        BY <1>2, <2>1, <2>3, AppendReads DEF ReadsInv, MainInv
      <3> QED BY <1>1, <1>3, <1>4, <2>1, <2>3, <3>1 DEF ReadsInv
    <2> QED BY <1>1, <2>2, <2>3
  <1> QED BY <1>5, <1>6, <1>7, <1>8, <1>9

LEMMA ReplyType ==
  ASSUME TypeInv, SwReply
  PROVE  TypeInv'
  <1> USE DEF TypeInv
  <1>1. /\ asked /\ reply # <<>> /\ reply' = <<>> /\ asked' = FALSE /\ (Advance \/ Raise)
        /\ UNCHANGED <<unit, regs, seen, mainFsm, auxFsm, tripped, lost, faults, fresh, calls>>
    BY DEF SwReply
  <1>2. /\ prog' \in Seq(Step) /\ guarded' \in BOOLEAN /\ failed' \in BOOLEAN
        /\ call' \in {"none", "on", "off", "plain_off"}
    BY <1>1, AdvanceType, RaiseType DEF ProgInv
  <1>3. UnitInv' /\ RegsInv' /\ SeenInv' /\ MainInv' /\ AuxInv' /\ ReplyInv' /\ ProgInv'
    BY <1>1, <1>2 DEF unit, regs, seen, mainFsm, auxFsm,
                      UnitInv, RegsInv, SeenInv, MainInv, AuxInv, ReplyInv, ProgInv
  <1>4. FlagInv'
    BY <1>1, <1>2 DEF FlagInv
  <1>5. ReadsInv'
    BY <1>1 DEF ReadsInv, mainFsm, auxFsm
  <1> QED BY <1>3, <1>4, <1>5

LEMMA PollType ==
  ASSUME TypeInv, Poll
  PROVE  TypeInv'
  <1> USE DEF TypeInv
  <1> DEFINE rq == [op |-> "poll", half |-> "low", v |-> {}]
  <1>1. rq \in MainRequest /\ rq \in AuxRequest /\ ~Reading(rq)
    BY DEF MainRequest, AuxRequest, Op, Half, Reading
  <1>2. /\ \/ reqMain' = Append(reqMain, rq) /\ UNCHANGED reqAux
           \/ reqAux' = Append(reqAux, rq) /\ UNCHANGED reqMain
        /\ UNCHANGED <<unit, regs, seen, main, cntMain, aux, cntAux, reply, tripped, lost, faults, swVars>>
    BY DEF Poll
  <1> HIDE DEF rq
  <1>3. UnitInv' /\ RegsInv' /\ SeenInv' /\ ReplyInv' /\ ProgInv' /\ FlagInv'
    BY <1>2 DEF unit, regs, seen, swVars, UnitInv, RegsInv, SeenInv, ReplyInv, ProgInv, FlagInv
  <1>4. MainInv' /\ AuxInv'
    <2>1. reqMain' \in Seq(MainRequest) /\ reqAux' \in Seq(AuxRequest)
      <3>1. reqMain \in Seq(MainRequest) /\ reqAux \in Seq(AuxRequest)
        BY DEF MainInv, AuxInv
      <3>2. Append(reqMain, rq) \in Seq(MainRequest)
        BY <1>1, <3>1, AppendOf
      <3>3. Append(reqAux, rq) \in Seq(AuxRequest)
        BY <1>1, <3>1, AppendOf
      <3> QED BY <1>2, <3>1, <3>2, <3>3
    <2> QED BY <1>2, <2>1 DEF MainInv, AuxInv
  <1>5. ReadsInv'
    <2>1. CASE reqMain' = Append(reqMain, rq) /\ UNCHANGED reqAux
      <3>1. OneRead(reqMain') /\ (NoRead(reqMain) => NoRead(reqMain'))
        BY <1>1, <2>1, AppendReads DEF ReadsInv, MainInv
      <3> QED BY <1>2, <2>1, <3>1 DEF ReadsInv, swVars
    <2>2. CASE reqAux' = Append(reqAux, rq) /\ UNCHANGED reqMain
      <3>1. OneRead(reqAux') /\ (NoRead(reqAux) => NoRead(reqAux'))
        BY <1>1, <2>2, AppendReads DEF ReadsInv, AuxInv
      <3> QED BY <1>2, <2>2, <3>1 DEF ReadsInv, swVars
    <2> QED BY <1>2, <2>1, <2>2
  <1> QED BY <1>3, <1>4, <1>5

LEMMA InitType == Init => TypeInv
  <1> SUFFICES ASSUME Init PROVE TypeInv
    OBVIOUS
  <1>1. PICK monitors \in {Sensor, Sensor \cup {"PWR"}}, power \in SUBSET Module, back \in SUBSET Channel,
             known \in SUBSET {"pw", "bias"} :
          FwInit(monitors, power, back, known) /\ ("PWR" \notin monitors => known = {})
    <2>1. CASE FwInit(Sensor, {}, {}, {})
      BY <2>1
    <2>2. CASE \E list \in Lists, back \in Bias :
                 FwInit(Sensor \cup {"PWR"}, Range(list), IF back THEN Range(list) \cap Channel ELSE {}, {"pw", "bias"})
      <3>1. PICK list \in Lists, back \in Bias :
              FwInit(Sensor \cup {"PWR"}, Range(list), IF back THEN Range(list) \cap Channel ELSE {}, {"pw", "bias"})
        BY <2>2
      <3>2. Range(list) \in SUBSET Module
        BY CallsKnown DEF Range
      <3>3. (IF back THEN Range(list) \cap Channel ELSE {}) \in SUBSET Channel
        OBVIOUS
      <3> QED BY <3>1, <3>2, <3>3
    <2> QED BY <2>1, <2>2 DEF Init
  <1>2. UnitInv /\ RegsInv /\ SeenInv
    BY <1>1 DEF FwInit, UnitInv, RegsInv, SeenInv
  <1>3. NoReq \in MainRequest /\ NoReq \in AuxRequest /\ ~Reading(NoReq)
    BY DEF NoReq, MainRequest, AuxRequest, Op, Half, Reading
  <1>4. MainInv /\ AuxInv
    BY <1>1, <1>3 DEF FwInit, MainInv, AuxInv, WbLimit
  <1>5. FlagInv
    <2>1. tripped \in BOOLEAN /\ lost \in BOOLEAN /\ faults \in 0 .. MaxFaults
      <3>1. tripped = FALSE /\ lost = FALSE /\ faults = 0
        BY <1>1 DEF FwInit
      <3>2. 0 \in 0 .. MaxFaults
        BY PartsKnown
      <3> QED BY <3>1, <3>2
    <2>2. guarded \in BOOLEAN /\ asked \in BOOLEAN /\ fresh \in BOOLEAN /\ failed \in BOOLEAN
      BY DEF Init
    <2>3. call \in {"none", "on", "off", "plain_off"} /\ calls \in 0 .. MaxCalls
      BY CallsKnown DEF Init
    <2> QED BY <2>1, <2>2, <2>3 DEF FlagInv
  <1>6. ProgInv /\ ReplyInv
    BY <1>1 DEF FwInit, Init, ProgInv, ReplyInv
  <1>7. ReadsInv
    BY <1>1, <1>3 DEF FwInit, ReadsInv, NoRead, OneRead
  <1> QED BY <1>2, <1>4, <1>5, <1>6, <1>7 DEF TypeInv

LEMMA NextType == TypeInv /\ [Next]_vars => TypeInv'
  <1> SUFFICES ASSUME TypeInv, [Next]_vars PROVE TypeInv'
    OBVIOUS
  <1>1. CASE Firmware
    BY <1>1, MainIdleType, MainWbType, MainTempType, MainCompareType, MainOffType,
       AuxIdleType, AuxWbType, AuxOffType, AuxReadType DEF Firmware, MainStep, AuxStep
  <1>2. CASE World
    BY <1>2, WorldType
  <1>3. CASE Software
    BY <1>3, RegisterType, SendType, ReplyType DEF Software
  <1>4. CASE Calls
    BY <1>4, CallsType
  <1>5. CASE Poll
    BY <1>5, PollType
  <1>6. CASE UNCHANGED vars
    BY <1>6 DEF vars, fwVars, swVars, unit, regs, seen, mainFsm, auxFsm, TypeInv, UnitInv, RegsInv, SeenInv,
                MainInv, AuxInv, FlagInv, ProgInv, ReplyInv, ReadsInv
  <1> QED BY <1>1, <1>2, <1>3, <1>4, <1>5, <1>6 DEF Next

LEMMA TypeMeaning == TypeInv => TypeOK
  <1> SUFFICES ASSUME TypeInv PROVE TypeOK
    OBVIOUS
  <1> USE DEF TypeInv
  <1>1. MainRequest \subseteq Request /\ AuxRequest \subseteq Request
    BY DEF MainRequest, AuxRequest, Request, Op, Half
  <1>2. /\ main \in [at : {"IDLE", "WB", "BIAS", "OFF"} \cup Sensor, rq : Request]
        /\ aux \in [at : {"IDLE", "WB", "OFF_low", "OFF_high", "READ"}, rq : Request]
        /\ reqMain \in Seq(Request) /\ reqAux \in Seq(Request)
    BY <1>1 DEF MainInv, AuxInv
  <1>3. reply \in Seq(Reply) /\ Len(reply) <= 1
    <2>1. CASE reply = <<>>
      BY <2>1
    <2>2. ASSUME NEW r \in Reply, reply = <<r>> PROVE reply \in Seq(Reply) /\ Len(reply) <= 1
      BY <2>2
    <2> QED BY <2>1, <2>2 DEF ReplyInv
  <1>4. {cntMain, cntAux} \subseteq 0 .. WbLimit
    BY DEF MainInv, AuxInv
  <1>5. /\ {tripped, lost} \subseteq BOOLEAN /\ faults \in 0 .. MaxFaults
        /\ call \in {"none", "on", "off", "plain_off"} /\ calls \in 0 .. MaxCalls
    BY DEF FlagInv
  <1>6. {guarded, asked, fresh, failed} \subseteq BOOLEAN
    BY DEF FlagInv
  <1>7. (asked => prog # <<>> /\ Head(prog).do \in {"read_aux", "read_main"}) /\ (reply # <<>> => asked)
    BY DEF ProgInv, ReadsInv
  <1>8. FwTypeOK
    BY <1>2, <1>3, <1>4, <1>5 DEF FwTypeOK, UnitInv, RegsInv, SeenInv, Reply
  <1> QED BY <1>5, <1>6, <1>7, <1>8 DEF TypeOK

\* Every variable keeps its type, and at most one read of software is under
\* way: in a queue, in a machine or answered (i2c_pu_controller_wb.vhd).
THEOREM TypeCorrect == Spec => [](TypeOK /\ ReadsInv)
  <1>1. TypeInv => TypeOK /\ ReadsInv
    BY TypeMeaning DEF TypeInv
  <1> QED BY <1>1, InitType, NextType, PTL DEF Spec
-----------------------------------------------------------------------------
(***************************************************************************)
(* The inductive invariant of switching off.  After power_off_all with the *)
(* interlock disabled, the program left sets nothing, and the interlock    *)
(* expects nothing as soon as the masks are written, before any write to a *)
(* bus.  Of each expander, and of the bias channels, the last write is one *)
(* of nothing: it is still in the program, queued or in work, or it is     *)
(* done and neither a queued write nor a turn-off under way has more.      *)
(***************************************************************************)
OffSteps == {"pwr_off", "mask_pw", "mask_bias", "aux", "main", "temps", "arm_temps", "clear"}
Harmless(p) == \A i \in DOMAIN p : p[i].do \in OffSteps /\ p[i].v = {}
Comes(p, what, half) == \E i \in DOMAIN p : p[i].do = what /\ p[i].half = half
AllCome(p) == Comes(p, "main", "low") /\ \A half \in Half : Comes(p, "aux", half)
Masks(p, what) ==
  /\ \E i \in DOMAIN p : p[i].do = what /\ \A j \in DOMAIN p : p[j].do \in {"aux", "main"} => i < j
  /\ AllCome(p)
OffProg ==
  /\ Harmless(prog)
  /\ expPw # {} => Masks(prog, "mask_pw")
  /\ expBias # {} => Masks(prog, "mask_bias")

Write(rq, half) == rq.op = "wr" /\ rq.half = half
AllEmpty(q, half) == \A i \in DOMAIN q : Write(q[i], half) => q[i].v = {}
LastEmpty(q, half) == \E i \in DOMAIN q :
  Write(q[i], half) /\ q[i].v = {} /\ \A j \in DOMAIN q : i < j /\ Write(q[j], half) => q[j].v = {}
GoesOff(fsm, q, half, off) ==
  \/ LastEmpty(q, half)
  \/ fsm.at = "WB" /\ Write(fsm.rq, half) /\ fsm.rq.v = {} /\ AllEmpty(q, half)
  \/ off /\ AllEmpty(q, half) /\ (Write(fsm.rq, half) => fsm.rq.v = {})

PowerGoes(half) == GoesOff(aux, reqAux, half, pw \cap Part(half) = {})
BiasGoes == GoesOff(main, reqMain, "low", bias = {})

HalfInv(half) == lost \/ Comes(prog, "aux", half) \/ PowerGoes(half)
BiasInv == lost \/ Comes(prog, "main", "low") \/ BiasGoes
OffInv == call = "off" => OffProg /\ (\A half \in Half : HalfInv(half)) /\ BiasInv

-----------------------------------------------------------------------------
(***************************************************************************)
(* Lemmas about the program and the queues.                                *)
(***************************************************************************)
\* A step of the program is over.
LEMMA TailProgram ==
  ASSUME NEW p \in Seq(Step), p # <<>>
  PROVE  /\ Harmless(p) => Harmless(Tail(p)) /\ Head(p).do \in OffSteps /\ Head(p).v = {}
         /\ \A what \in OffSteps, half \in Half :
              Comes(p, what, half) => \/ Comes(Tail(p), what, half)
                                      \/ Head(p).do = what /\ Head(p).half = half
         /\ \A what \in OffSteps :
              Masks(p, what) => /\ Head(p).do \notin {"aux", "main"}
                                /\ Head(p).do = what \/ Masks(Tail(p), what)
  <1> USE TailOf
  <1>1. Harmless(p) => Harmless(Tail(p)) /\ Head(p).do \in OffSteps /\ Head(p).v = {}
    BY DEF Harmless
  <1>2. ASSUME NEW what \in OffSteps, NEW half \in Half, Comes(p, what, half)
        PROVE  Comes(Tail(p), what, half) \/ (Head(p).do = what /\ Head(p).half = half)
    <2>1. PICK i \in DOMAIN p : p[i].do = what /\ p[i].half = half
      BY <1>2 DEF Comes
    <2>2. CASE i = 1
      BY <2>1, <2>2
    <2>3. CASE i # 1
      BY <2>1, <2>3 DEF Comes
    <2> QED BY <2>2, <2>3
  <1>3. ASSUME NEW what \in OffSteps, Masks(p, what)
        PROVE  Head(p).do \notin {"aux", "main"} /\ (Head(p).do = what \/ Masks(Tail(p), what))
    <2>1. PICK i \in DOMAIN p : p[i].do = what /\ \A j \in DOMAIN p : p[j].do \in {"aux", "main"} => i < j
      BY <1>3 DEF Masks
    <2>2. Head(p).do \notin {"aux", "main"}
      BY <2>1
    <2>3. ASSUME i # 1 PROVE Masks(Tail(p), what)
      <3>1. i - 1 \in DOMAIN Tail(p) /\ Tail(p)[i - 1].do = what
        BY <2>1, <2>3
      <3>2. \A j \in DOMAIN Tail(p) : Tail(p)[j].do \in {"aux", "main"} => i - 1 < j
        BY <2>1
      <3>3. AllCome(Tail(p))
        BY <1>2, <1>3, <2>2 DEF Masks, AllCome, OffSteps, Half
      <3> QED BY <3>1, <3>2, <3>3 DEF Masks
    <2> QED BY <2>1, <2>2, <2>3
  <1> QED BY <1>1, <1>2, <1>3

\* power_off_all with the interlock disabled, step by step.
LEMMA PowerOffSteps ==
  LET p == PowerOff(TRUE)
  IN  Harmless(p) /\ Masks(p, "mask_pw") /\ Masks(p, "mask_bias") /\ AllCome(p)
  <1> DEFINE p == Disarm \o SetPower({}) \o <<Do("main", "low", {})>>
  <1>1. PowerOff(TRUE) = p
    BY DEF PowerOff
  <1>2. /\ DOMAIN p = 1 .. 6
        /\ p[1] = Do("pwr_off", "low", {}) /\ p[2] = Do("mask_pw", "low", {}) /\ p[3] = Do("mask_bias", "low", {})
        /\ p[4] = Do("aux", "low", {}) /\ p[5] = Do("aux", "high", {}) /\ p[6] = Do("main", "low", {})
    <2>1. /\ Disarm \in Seq(Step) /\ Len(Disarm) = 3
          /\ Disarm[1] = Do("pwr_off", "low", {}) /\ Disarm[2] = Do("mask_pw", "low", {})
          /\ Disarm[3] = Do("mask_bias", "low", {})
      BY DisarmType DEF Disarm
    <2>2. /\ SetPower({}) \in Seq(Step) /\ Len(SetPower({})) = 2
          /\ SetPower({})[1] = Do("aux", "low", {}) /\ SetPower({})[2] = Do("aux", "high", {})
      <3>1. {} \cap Part("low") = {} /\ {} \cap Part("high") = {}
        OBVIOUS
      <3> QED BY <3>1, SetPowerType DEF SetPower
    <2>3. Do("main", "low", {}) \in Step
      BY DoType
    <2>4. ASSUME NEW a \in Seq(Step), NEW b \in Seq(Step), NEW c \in Step, Len(a) = 3, Len(b) = 2
          PROVE  /\ DOMAIN (a \o b \o <<c>>) = 1 .. 6
                 /\ (a \o b \o <<c>>)[1] = a[1] /\ (a \o b \o <<c>>)[2] = a[2] /\ (a \o b \o <<c>>)[3] = a[3]
                 /\ (a \o b \o <<c>>)[4] = b[1] /\ (a \o b \o <<c>>)[5] = b[2] /\ (a \o b \o <<c>>)[6] = c
      <3>1. a \o b \in Seq(Step) /\ Len(a \o b) = 3 + 2
        BY <2>4, JoinType
      <3>2. \A i \in 1 .. Len(a) : (a \o b)[i] = a[i]
        OBVIOUS
      <3>3. \A i \in 1 .. Len(b) : (a \o b)[Len(a) + i] = b[i]
        OBVIOUS
      <3>4. DOMAIN (a \o b \o <<c>>) = 1 .. 6
        BY <3>1
      <3>5. (a \o b \o <<c>>)[6] = c
        BY <3>1
      <3>6. \A i \in 1 .. 5 : (a \o b \o <<c>>)[i] = (a \o b)[i]
        BY <3>1
      <3>7. (a \o b)[4] = b[1] /\ (a \o b)[5] = b[2]
        <4>1. 1 \in 1 .. Len(b) /\ 2 \in 1 .. Len(b) /\ Len(a) + 1 = 4 /\ Len(a) + 2 = 5
          BY <2>4
        <4> QED BY <3>3, <4>1, Zenon
      <3>8. (a \o b)[1] = a[1] /\ (a \o b)[2] = a[2] /\ (a \o b)[3] = a[3]
        <4>1. 1 \in 1 .. Len(a) /\ 2 \in 1 .. Len(a) /\ 3 \in 1 .. Len(a)
          BY <2>4
        <4> QED BY <3>2, <4>1, Zenon
      <3> QED BY <3>7, <3>8, <3>4, <3>5, <3>6
    <2>5. /\ DOMAIN p = 1 .. 6
          /\ p[1] = Disarm[1] /\ p[2] = Disarm[2] /\ p[3] = Disarm[3]
          /\ p[4] = SetPower({})[1] /\ p[5] = SetPower({})[2] /\ p[6] = Do("main", "low", {})
      BY <2>1, <2>2, <2>3, <2>4, Zenon
    <2> HIDE DEF p
    <2> QED BY <2>1, <2>2, <2>5
  <1> HIDE DEF p
  <1>3. \A i \in DOMAIN p : i \in {1, 2, 3, 4, 5, 6}
    BY <1>2
  <1>4. Harmless(p)
    BY <1>2, <1>3 DEF Harmless, Do, OffSteps
  <1>5. AllCome(p)
    BY <1>2 DEF AllCome, Comes, Do, Half
  <1>6. \A j \in DOMAIN p : p[j].do \in {"aux", "main"} => 3 < j
    BY <1>2, <1>3 DEF Do
  <1>7. Masks(p, "mask_pw")
    <2>1. 2 \in DOMAIN p /\ p[2].do = "mask_pw" /\ \A j \in DOMAIN p : p[j].do \in {"aux", "main"} => 2 < j
      BY <1>2, <1>3, <1>6 DEF Do
    <2> QED BY <1>5, <2>1 DEF Masks
  <1>8. Masks(p, "mask_bias")
    <2>1. 3 \in DOMAIN p /\ p[3].do = "mask_bias"
      BY <1>2 DEF Do
    <2> QED BY <1>5, <1>6, <2>1 DEF Masks
  <1> QED BY <1>1, <1>4, <1>5, <1>7, <1>8

\* The programs that run before a power-on write to no bus.
LEMMA PrepareHarmless == Harmless(Prepare)
  <1>1. ASSUME NEW p \in Seq(Step), NEW q \in Seq(Step), Harmless(p), Harmless(q) PROVE Harmless(p \o q)
    <2>1. \A i \in DOMAIN (p \o q) :
            (i \in DOMAIN p /\ (p \o q)[i] = p[i]) \/ (i - Len(p) \in DOMAIN q /\ (p \o q)[i] = q[i - Len(p)])
      OBVIOUS
    <2> QED BY <1>1, <2>1 DEF Harmless
  <1> DEFINE a == <<Do("temps", "low", {})>>
             c == <<Do("arm_temps", "low", {}), Do("clear", "low", {})>>
  <1>2. a \in Seq(Step) /\ Disarm \in Seq(Step) /\ c \in Seq(Step)
    BY DoType, DisarmType
  <1>3. Harmless(a) /\ Harmless(Disarm) /\ Harmless(c)
    BY DEF Harmless, Disarm, Do, OffSteps
  <1>4. Harmless(a \o Disarm) /\ a \o Disarm \in Seq(Step)
    BY <1>1, <1>2, <1>3, JoinType
  <1>5. Harmless(a \o Disarm \o c)
    BY <1>1, <1>2, <1>3, <1>4
  <1> QED BY <1>5 DEF Prepare

\* A request of software is queued: another one, or a write of nothing.
LEMMA AppendOff ==
  ASSUME NEW S, NEW q \in Seq(S), NEW r \in S, NEW fsm, NEW half, NEW off \in BOOLEAN
  PROVE  /\ GoesOff(fsm, q, half, off) /\ (Write(r, half) => r.v = {}) => GoesOff(fsm, Append(q, r), half, off)
         /\ Write(r, half) /\ r.v = {} => GoesOff(fsm, Append(q, r), half, off)
  <1> USE AppendOf
  <1>1. Len(q) \in Nat
    OBVIOUS
  <1>2. \A i \in DOMAIN q : i \in Nat /\ i <= Len(q)
    OBVIOUS
  <1>3. AllEmpty(q, half) /\ (Write(r, half) => r.v = {}) => AllEmpty(Append(q, r), half)
    BY DEF AllEmpty
  <1>4. LastEmpty(q, half) /\ (Write(r, half) => r.v = {}) => LastEmpty(Append(q, r), half)
    BY <1>1, <1>2 DEF LastEmpty
  <1>5. Write(r, half) /\ r.v = {} => LastEmpty(Append(q, r), half)
    BY <1>1, <1>2 DEF LastEmpty
  <1> QED BY <1>3, <1>4, <1>5 DEF GoesOff

\* A machine takes the next request.
LEMMA ServeOff ==
  ASSUME NEW S, NEW q \in Seq(S), q # <<>>, NEW fsm, NEW half, NEW off \in BOOLEAN,
         fsm.at = "IDLE", GoesOff(fsm, q, half, off)
  PROVE  GoesOff([at |-> "WB", rq |-> Head(q)], Tail(q), half, off)
  <1> USE TailOf
  <1>1. AllEmpty(q, half) => AllEmpty(Tail(q), half) /\ (Write(Head(q), half) => Head(q).v = {})
    BY DEF AllEmpty
  <1>2. ASSUME LastEmpty(q, half)
        PROVE  LastEmpty(Tail(q), half) \/ (Write(Head(q), half) /\ Head(q).v = {} /\ AllEmpty(Tail(q), half))
    <2>1. PICK i \in DOMAIN q :
            Write(q[i], half) /\ q[i].v = {} /\ \A j \in DOMAIN q : i < j /\ Write(q[j], half) => q[j].v = {}
      BY <1>2 DEF LastEmpty
    <2>2. CASE i = 1
      BY <2>1, <2>2 DEF AllEmpty
    <2>3. CASE i # 1
      <3>1. i - 1 \in DOMAIN Tail(q) /\ Tail(q)[i - 1] = q[i] /\ i \in Nat
        BY <2>3
      <3>2. \A j \in DOMAIN Tail(q) : i - 1 < j /\ Write(Tail(q)[j], half) => Tail(q)[j].v = {}
        BY <2>1, <3>1
      <3> QED BY <2>1, <3>1, <3>2 DEF LastEmpty
    <2> QED BY <2>2, <2>3
  <1> QED BY <1>1, <1>2 DEF GoesOff

\* A machine moves on without a request.
LEMMA MoveOff ==
  ASSUME NEW fsm, NEW next, NEW q, NEW half, NEW off \in BOOLEAN, NEW then \in BOOLEAN,
         GoesOff(fsm, q, half, off), fsm.at # "WB",
         off /\ (Write(fsm.rq, half) => fsm.rq.v = {}) => then,
         Write(next.rq, half) => next.rq.v = {}
  PROVE  GoesOff(next, q, half, then)
  BY DEF GoesOff

\* A machine has carried out a request.
LEMMA DoneOff ==
  ASSUME NEW fsm, NEW next, NEW q, NEW half, NEW off \in BOOLEAN, NEW then \in BOOLEAN,
         GoesOff(fsm, q, half, off),
         Write(fsm.rq, half) /\ fsm.rq.v = {} => then,
         off /\ ~Write(fsm.rq, half) => then,
         ~Write(next.rq, half)
  PROVE  GoesOff(next, q, half, then)
  BY DEF GoesOff

-----------------------------------------------------------------------------
(***************************************************************************)
(* The invariant of switching off is kept by the machines.                 *)
(***************************************************************************)
\* The two expanders share no module, and a write changes only its own.
LEMMA ExpanderOff ==
  ASSUME NEW h \in Half, NEW half \in Half, NEW S
  PROVE  /\ h = half /\ S = {} => Expander(h, S) \cap Part(half) = {}
         /\ h # half /\ pw \cap Part(half) = {} => Expander(h, S) \cap Part(half) = {}
  BY DEF Expander, Part, HalfOf, Half

\* With nothing expected a turn-off turns everything off.
LEMMA TurnOffAll ==
  ASSUME expPw = {}, NEW h \in Half
  PROVE  TurnOff(h).at # "WB" /\ TurnOff(h).rq.v = {}
  <1>1. KeepPw = {}
    BY DEF KeepPw
  <1>2. KeepPw \cap Part(h) = {}
    BY <1>1
  <1> QED BY <1>2 DEF TurnOff

LEMMA GotoNoWrite == \A state, half : ~Write(Goto(state).rq, half)
  BY GotoType DEF Write

LEMMA AuxIdleOff ==
  ASSUME TypeInv, AuxIdle, expPw = {}, NEW half \in Half, PowerGoes(half)
  PROVE  PowerGoes(half)'
  <1>1. aux.at = "IDLE" /\ pw' = pw /\ reqAux \in Seq(AuxRequest)
    BY DEF AuxIdle, unit, TypeInv, AuxInv
  <1>2. (pw \cap Part(half) = {}) \in BOOLEAN
    OBVIOUS
  <1>3. CASE reqAux # <<>> /\ aux' = [at |-> "WB", rq |-> Head(reqAux)] /\ reqAux' = Tail(reqAux)
    <2>1. GoesOff([at |-> "WB", rq |-> Head(reqAux)], Tail(reqAux), half, pw \cap Part(half) = {})
      BY <1>1, <1>2, <1>3, ServeOff DEF PowerGoes
    <2> QED BY <1>1, <1>3, <2>1 DEF PowerGoes
  <1>4. CASE UNCHANGED reqAux /\ (UNCHANGED aux \/ (Write(aux'.rq, half) => aux'.rq.v = {}))
    <2>1. CASE UNCHANGED aux
      BY <1>1, <1>4, <2>1 DEF PowerGoes
    <2>2. CASE Write(aux'.rq, half) => aux'.rq.v = {}
      <3>1. GoesOff(aux', reqAux, half, pw \cap Part(half) = {})
        BY <1>1, <1>2, <2>2, MoveOff DEF PowerGoes
      <3> QED BY <1>1, <1>4, <3>1 DEF PowerGoes
    <2> QED BY <1>4, <2>1, <2>2
  <1>5. /\ \A h \in Half : aux' = TurnOff(h) => aux'.rq.v = {}
        /\ \A state : aux' = Goto(state) => ~Write(aux'.rq, half)
    BY TurnOffAll, GotoNoWrite
  <1>6. \/ reqAux # <<>> /\ aux' = [at |-> "WB", rq |-> Head(reqAux)] /\ reqAux' = Tail(reqAux)
        \/ /\ UNCHANGED reqAux
           /\ \/ aux' = TurnOff("low") \/ aux' = TurnOff("high")
              \/ aux' = Goto("READ") \/ UNCHANGED aux
    BY DEF AuxIdle, MayServe
  <1>7. UNCHANGED reqAux => UNCHANGED aux \/ (Write(aux'.rq, half) => aux'.rq.v = {}) \/ PowerGoes(half)'
    <2>1. CASE aux' = TurnOff("low") \/ aux' = TurnOff("high") \/ aux' = Goto("READ") \/ UNCHANGED aux
      BY <1>5, <2>1 DEF Half
    <2>2. CASE reqAux # <<>> /\ aux' = [at |-> "WB", rq |-> Head(reqAux)] /\ reqAux' = Tail(reqAux)
      BY <1>3, <2>2
    <2> QED BY <1>6, <2>1, <2>2
  <1> QED BY <1>3, <1>4, <1>6, <1>7

\* A failed write of software is remembered.
LEMMA AnswerLost ==
  ASSUME NEW rq, NEW value, faults \in Nat, lost \in BOOLEAN, Answer(rq, value)
  PROVE  /\ lost => lost'
         /\ rq.op = "wr" /\ faults' # faults => lost'
         /\ ~(rq.op = "wr" /\ faults' = faults) => lost' \/ rq.op # "wr"
  BY DEF Answer, Fault, Clean

LEMMA AuxWbOff ==
  ASSUME TypeInv, AuxWb, expPw = {}, NEW half \in Half, PowerGoes(half)
  PROVE  lost' \/ PowerGoes(half)'
  <1>1. /\ aux.at = "WB" /\ aux' = Goto("IDLE") /\ UNCHANGED reqAux /\ aux.rq.half \in Half
        /\ pw' = IF aux.rq.op = "wr" /\ faults' = faults THEN Expander(aux.rq.half, aux.rq.v) ELSE pw
    BY DEF AuxWb, TypeInv, AuxInv, AuxRequest
  <1>2. ~(aux.rq.op = "wr" /\ faults' = faults) => lost' \/ aux.rq.op # "wr"
    BY AnswerLost, PartsKnown DEF AuxWb, TypeInv, FlagInv
  <1>3. (pw \cap Part(half) = {}) \in BOOLEAN /\ (pw' \cap Part(half) = {}) \in BOOLEAN
    OBVIOUS
  <1>4. ASSUME ~lost' PROVE PowerGoes(half)'
    <2>1. Write(aux.rq, half) /\ aux.rq.v = {} => pw' \cap Part(half) = {}
      BY <1>1, <1>2, <1>4, ExpanderOff DEF Write
    <2>2. pw \cap Part(half) = {} /\ ~Write(aux.rq, half) => pw' \cap Part(half) = {}
      BY <1>1, <1>2, <1>4, ExpanderOff DEF Write
    <2>3. GoesOff(aux', reqAux, half, pw' \cap Part(half) = {})
      BY <1>1, <1>3, <2>1, <2>2, GotoNoWrite, DoneOff DEF PowerGoes
    <2> QED BY <1>1, <2>3 DEF PowerGoes
  <1> QED BY <1>4

LEMMA AuxOffOff ==
  ASSUME TypeInv, AuxOff, expPw = {}, NEW half \in Half, PowerGoes(half)
  PROVE  PowerGoes(half)'
  <1>1. /\ aux.at \in {"OFF_low", "OFF_high"} /\ aux.rq.op = "wr" /\ aux.rq.half \in Half /\ UNCHANGED reqAux
        /\ pw' = Expander(aux.rq.half, aux.rq.v) \/ pw' = pw
    BY DEF AuxOff, TypeInv, AuxInv, AuxRequest
  <1>2. pw \cap Part(half) = {} /\ (Write(aux.rq, half) => aux.rq.v = {}) => pw' \cap Part(half) = {}
    BY <1>1, ExpanderOff DEF Write
  <1>3. Write(aux'.rq, half) => aux'.rq.v = {}
    BY TurnOffAll, GotoNoWrite DEF AuxOff, Half
  <1>4. (pw \cap Part(half) = {}) \in BOOLEAN /\ (pw' \cap Part(half) = {}) \in BOOLEAN
    OBVIOUS
  <1>5. GoesOff(aux', reqAux, half, pw' \cap Part(half) = {})
    BY <1>1, <1>2, <1>3, <1>4, MoveOff DEF PowerGoes
  <1> QED BY <1>1, <1>5 DEF PowerGoes

LEMMA AuxReadOff ==
  ASSUME AuxRead, NEW half \in Half, PowerGoes(half)
  PROVE  PowerGoes(half)'
  <1>1. aux.at = "READ" /\ UNCHANGED <<pw, reqAux>> /\ ~Write(aux'.rq, half)
    BY GotoNoWrite DEF AuxRead, unit
  <1>2. (pw \cap Part(half) = {}) \in BOOLEAN
    OBVIOUS
  <1>3. GoesOff(aux', reqAux, half, pw \cap Part(half) = {})
    BY <1>1, <1>2, MoveOff DEF PowerGoes
  <1> QED BY <1>1, <1>3 DEF PowerGoes

\* With nothing expected, COMPARE_TEMPS turns off every bias channel.
LEMMA MainOffSteps ==
  ASSUME TypeInv, MainStep, expBias = {}, BiasGoes
  PROVE  lost' \/ BiasGoes'
  <1>1. (bias = {}) \in BOOLEAN /\ (bias' = {}) \in BOOLEAN /\ reqMain \in Seq(MainRequest)
    BY DEF TypeInv, MainInv
  <1>2. ASSUME main.at # "WB", bias = {} => bias' = {} \/ (Write(main.rq, "low") /\ main.rq.v # {}),
               UNCHANGED reqMain, Write(main'.rq, "low") => main'.rq.v = {}
        PROVE  BiasGoes'
    <2>1. GoesOff(main', reqMain, "low", bias' = {})
      BY <1>1, <1>2, MoveOff DEF BiasGoes
    <2> QED BY <1>2, <2>1 DEF BiasGoes
  <1>3. \A k \in 0 .. 3 : Enter(TempAfter(k)) => ~Write(main'.rq, "low")
    BY GotoNoWrite DEF Enter
  <1>4. CASE MainIdle
    <2>1. main.at = "IDLE" /\ bias' = bias
      BY <1>4 DEF MainIdle, unit
    <2>2. CASE reqMain # <<>> /\ main' = [at |-> "WB", rq |-> Head(reqMain)] /\ reqMain' = Tail(reqMain)
      <3>1. GoesOff([at |-> "WB", rq |-> Head(reqMain)], Tail(reqMain), "low", bias = {})
        BY <1>1, <2>1, <2>2, ServeOff DEF BiasGoes
      <3> QED BY <2>1, <2>2, <3>1 DEF BiasGoes
    <2>3. CASE Enter(TempAfter(0)) /\ UNCHANGED reqMain
      BY <1>2, <1>3, <2>1, <2>3
    <2>4. CASE UNCHANGED <<main, reqMain>>
      BY <2>1, <2>4 DEF BiasGoes
    <2> QED BY <1>4, <2>2, <2>3, <2>4 DEF MainIdle, MayServe
  <1>5. CASE MainWb
    <2>1. /\ main.at = "WB" /\ main' = Goto("IDLE") /\ UNCHANGED reqMain /\ main.rq.half = "low"
          /\ bias' = IF main.rq.op = "wr" /\ faults' = faults THEN main.rq.v ELSE bias
      BY <1>5 DEF MainWb, TypeInv, MainInv, MainRequest
    <2>2. ~(main.rq.op = "wr" /\ faults' = faults) => lost' \/ main.rq.op # "wr"
      BY <1>5, AnswerLost, PartsKnown DEF MainWb, TypeInv, FlagInv
    <2>3. ASSUME ~lost' PROVE BiasGoes'
      <3>1. Write(main.rq, "low") /\ main.rq.v = {} => bias' = {}
        BY <2>1, <2>2, <2>3 DEF Write
      <3>2. bias = {} /\ ~Write(main.rq, "low") => bias' = {}
        BY <2>1, <2>2, <2>3 DEF Write
      <3>3. GoesOff(main', reqMain, "low", bias' = {})
        BY <1>1, <2>1, <3>1, <3>2, GotoNoWrite, DoneOff DEF BiasGoes
      <3> QED BY <2>1, <3>3 DEF BiasGoes
    <2> QED BY <2>3
  <1>6. CASE MainTemp
    <2>1. PICK k \in 1 .. 3 : main.at = Order[k] /\ Enter(TempAfter(k)) /\ UNCHANGED <<bias, reqMain>>
      BY <1>6 DEF MainTemp, unit
    <2>2. main.at # "WB"
      BY <2>1 DEF Order
    <2>3. ~Write(main'.rq, "low")
      BY <1>3, <2>1
    <2> QED BY <1>2, <2>1, <2>2, <2>3
  <1>7. CASE MainCompare
    <2>1. main.at = "BIAS" /\ UNCHANGED <<bias, reqMain, expBias>>
      BY <1>7 DEF MainCompare, unit, regs
    <2>2. KeepBias' = {}
      BY <2>1 DEF KeepBias
    <2>3. Write(main'.rq, "low") => main'.rq.v = {}
      BY <1>7, <2>2, GotoNoWrite DEF MainCompare
    <2> QED BY <1>2, <2>1, <2>3
  <1>8. CASE MainOff
    <2>1. /\ main.at = "OFF" /\ main.rq.op = "wr" /\ main.rq.half = "low" /\ UNCHANGED reqMain
          /\ bias' = main.rq.v \/ bias' = bias
      BY <1>8 DEF MainOff, TypeInv, MainInv, MainRequest
    <2>2. bias = {} => bias' = {} \/ (Write(main.rq, "low") /\ main.rq.v # {})
      BY <2>1 DEF Write
    <2>3. ~Write(main'.rq, "low")
      BY <1>8, GotoNoWrite DEF MainOff
    <2> QED BY <1>2, <2>1, <2>2, <2>3
  <1> QED BY <1>4, <1>5, <1>6, <1>7, <1>8 DEF MainStep

\* Neither a machine nor the power unit touches the program and the masks.
LEMMA OffFirmware ==
  ASSUME TypeInv, OffInv, UNCHANGED <<prog, call, regs>>, lost => lost',
         \A half \in Half : expPw = {} /\ PowerGoes(half) => lost' \/ PowerGoes(half)',
         expBias = {} /\ BiasGoes => lost' \/ BiasGoes'
  PROVE  OffInv'
  <1> SUFFICES ASSUME call = "off" PROVE OffProg' /\ (\A half \in Half : HalfInv(half)') /\ BiasInv'
    BY DEF OffInv
  <1>1. OffProg /\ (\A half \in Half : HalfInv(half)) /\ BiasInv
    BY DEF OffInv
  <1>2. OffProg'
    BY <1>1 DEF OffProg, regs
  <1>3. /\ \A half \in Half : ~Comes(prog, "aux", half) => expPw = {}
        /\ ~Comes(prog, "main", "low") => expBias = {}
    BY <1>1 DEF OffProg, Masks, AllCome
  <1>4. ASSUME NEW half \in Half PROVE HalfInv(half)'
    <2>1. CASE Comes(prog, "aux", half)
      BY <2>1 DEF HalfInv
    <2>2. CASE ~Comes(prog, "aux", half)
      BY <1>1, <1>3, <1>4, <2>2 DEF HalfInv
    <2> QED BY <2>1, <2>2
  <1>5. BiasInv'
    <2>1. CASE Comes(prog, "main", "low")
      BY <2>1 DEF BiasInv
    <2>2. CASE ~Comes(prog, "main", "low")
      BY <1>1, <1>3, <2>2 DEF BiasInv
    <2> QED BY <2>1, <2>2
  <1> QED BY <1>2, <1>4, <1>5

LEMMA FirmwareOff ==
  ASSUME TypeInv, OffInv, Firmware
  PROVE  OffInv'
  <1>1. UNCHANGED <<prog, call>>
    BY DEF Firmware, swVars
  <1>2. CASE MainStep
    <2>1. UNCHANGED <<regs, pw, auxFsm>> /\ (lost => lost')
      <3>1. CASE MainWb
        BY <3>1, AnswerLost, PartsKnown DEF MainWb, TypeInv, FlagInv
      <3>2. CASE ~MainWb
        BY <1>2, <3>2 DEF MainStep, MainIdle, MainTemp, MainCompare, MainOff, unit
      <3> QED BY <3>1, <3>2
    <2>2. \A half \in Half : PowerGoes(half) => PowerGoes(half)'
      BY <2>1 DEF PowerGoes, auxFsm
    <2> QED BY <1>1, <1>2, <2>1, <2>2, MainOffSteps, OffFirmware
  <1>3. CASE AuxStep
    <2>1. UNCHANGED <<regs, bias, mainFsm>> /\ (lost => lost')
      <3>1. CASE AuxWb
        BY <3>1, AnswerLost, PartsKnown DEF AuxWb, TypeInv, FlagInv
      <3>2. CASE ~AuxWb
        BY <1>3, <3>2 DEF AuxStep, AuxIdle, AuxOff, AuxRead, unit
      <3> QED BY <3>1, <3>2
    <2>2. BiasGoes => BiasGoes'
      BY <2>1 DEF BiasGoes, mainFsm
    <2>3. \A half \in Half : expPw = {} /\ PowerGoes(half) => lost' \/ PowerGoes(half)'
      BY <1>3, AuxIdleOff, AuxWbOff, AuxOffOff, AuxReadOff DEF AuxStep
    <2> QED BY <1>1, <2>1, <2>2, <2>3, OffFirmware
  <1> QED BY <1>2, <1>3 DEF Firmware

\* A channel that trips is off.
LEMMA WorldOff ==
  ASSUME TypeInv, OffInv, World
  PROVE  OffInv'
  <1>1. /\ UNCHANGED <<regs, mainFsm, auxFsm, lost, prog, call>>
        /\ pw' \subseteq pw /\ bias' \subseteq bias
    BY DEF World, ChannelTrips, Heats, Cools, swVars
  <1>2. ASSUME NEW half \in Half, PowerGoes(half) PROVE PowerGoes(half)'
    <2>1. UNCHANGED <<aux, reqAux>> /\ (pw \cap Part(half) = {} => pw' \cap Part(half) = {})
      BY <1>1 DEF auxFsm
    <2> QED BY <1>2, <2>1 DEF PowerGoes, GoesOff
  <1>3. BiasGoes => BiasGoes'
    <2>1. UNCHANGED <<main, reqMain>> /\ (bias = {} => bias' = {})
      BY <1>1 DEF mainFsm
    <2> QED BY <2>1 DEF BiasGoes, GoesOff
  <1> QED BY <1>1, <1>2, <1>3, OffFirmware

-----------------------------------------------------------------------------
(***************************************************************************)
(* The invariant of switching off is kept by software and its calls.       *)
(***************************************************************************)
LEMMA PollOff ==
  ASSUME TypeInv, OffInv, Poll
  PROVE  OffInv'
  <1> DEFINE rq == [op |-> "poll", half |-> "low", v |-> {}]
  <1>1. /\ \/ reqMain' = Append(reqMain, rq) /\ UNCHANGED reqAux
           \/ reqAux' = Append(reqAux, rq) /\ UNCHANGED reqMain
        /\ UNCHANGED <<pw, bias, main, aux, lost, prog, call, regs>>
    BY DEF Poll, unit, swVars
  <1>2. /\ reqMain \in Seq(MainRequest) /\ reqAux \in Seq(AuxRequest)
        /\ rq \in MainRequest /\ rq \in AuxRequest /\ \A half \in Half : ~Write(rq, half)
    BY DEF TypeInv, MainInv, AuxInv, MainRequest, AuxRequest, Op, Half, Write
  <1> HIDE DEF rq
  <1>3. ASSUME NEW half \in Half, PowerGoes(half) PROVE PowerGoes(half)'
    <2>1. (pw \cap Part(half) = {}) \in BOOLEAN
      OBVIOUS
    <2>2. GoesOff(aux, Append(reqAux, rq), half, pw \cap Part(half) = {})
      BY <1>2, <1>3, <2>1, AppendOff DEF PowerGoes
    <2> QED BY <1>1, <1>3, <2>2 DEF PowerGoes
  <1>4. ASSUME BiasGoes PROVE BiasGoes'
    <2>1. (bias = {}) \in BOOLEAN
      OBVIOUS
    <2>2. GoesOff(main, Append(reqMain, rq), "low", bias = {})
      BY <1>2, <1>4, <2>1, AppendOff DEF BiasGoes, Half
    <2> QED BY <1>1, <1>4, <2>2 DEF BiasGoes
  <1> QED BY <1>1, <1>3, <1>4, OffFirmware

\* A step that writes a register leaves the power unit and the queues alone.
LEMMA RegisterOff ==
  ASSUME TypeInv, OffInv, SwRegister
  PROVE  OffInv'
  <1> SUFFICES ASSUME call' = "off" PROVE OffProg' /\ (\A half \in Half : HalfInv(half)') /\ BiasInv'
    BY DEF OffInv
  <1> DEFINE d == Head(prog)
  <1>1. /\ prog \in Seq(Step) /\ prog # <<>> /\ UNCHANGED <<pw, bias, lost, main, reqMain, aux, reqAux>>
        /\ prog' = Tail(prog) /\ call = "off"
    BY DEF SwRegister, Advance, Raise, unit, mainFsm, auxFsm, TypeInv, ProgInv
  <1>2. OffProg /\ (\A half \in Half : HalfInv(half)) /\ BiasInv
    BY <1>1 DEF OffInv
  <1>3. d.do \in OffSteps /\ d.v = {} /\ Harmless(Tail(prog))
    BY <1>1, <1>2, TailProgram DEF OffProg
  <1>4. /\ d.do \notin {"aux", "main"}
        /\ expPw' = (IF d.do = "mask_pw" THEN d.v ELSE expPw)
        /\ expBias' = (IF d.do = "mask_bias" THEN d.v ELSE expBias)
    BY <1>3 DEF SwRegister, OffSteps
  <1>5. OffProg'
    <2>1. expPw' # {} => Masks(prog', "mask_pw")
      BY <1>1, <1>2, <1>3, <1>4, TailProgram DEF OffProg, OffSteps
    <2>2. expBias' # {} => Masks(prog', "mask_bias")
      BY <1>1, <1>2, <1>3, <1>4, TailProgram DEF OffProg, OffSteps
    <2> QED BY <1>1, <1>3, <2>1, <2>2 DEF OffProg
  <1>6. /\ \A half \in Half : Comes(prog, "aux", half) => Comes(prog', "aux", half)
        /\ Comes(prog, "main", "low") => Comes(prog', "main", "low")
    BY <1>1, <1>4, TailProgram DEF OffSteps, Half
  <1>7. BiasInv'
    BY <1>1, <1>2, <1>6 DEF BiasInv, BiasGoes
  <1>8. ASSUME NEW half \in Half PROVE HalfInv(half)'
    BY <1>1, <1>2, <1>6 DEF HalfInv, PowerGoes
  <1> QED BY <1>5, <1>7, <1>8

\* A request leaves the program as it enters a queue.
LEMMA SendOff ==
  ASSUME TypeInv, OffInv, SwSend
  PROVE  OffInv'
  <1> SUFFICES ASSUME call = "off" PROVE OffProg' /\ (\A half \in Half : HalfInv(half)') /\ BiasInv'
    BY DEF OffInv, SwSend, Advance
  <1> DEFINE d == Head(prog)
             rq == [op |-> "wr", half |-> d.half, v |-> d.v]
  <1>1. /\ prog \in Seq(Step) /\ prog # <<>> /\ d \in Step
        /\ UNCHANGED <<pw, bias, lost, main, aux, expPw, expBias>>
    BY TailOf DEF SwSend, unit, regs, TypeInv, ProgInv
  <1>2. OffProg /\ (\A half \in Half : HalfInv(half)) /\ BiasInv
    BY DEF OffInv
  <1>3. d.do \in OffSteps /\ d.v = {} /\ Harmless(Tail(prog))
    BY <1>1, <1>2, TailProgram DEF OffProg
  <1>4. /\ d.do \in {"aux", "main"} /\ prog' = Tail(prog)
        /\ d.do = "aux" => reqAux' = Append(reqAux, rq) /\ UNCHANGED reqMain
        /\ d.do = "main" => reqMain' = Append(reqMain, rq) /\ UNCHANGED reqAux
    BY <1>3 DEF SwSend, Advance, OffSteps
  <1>5. expPw = {} /\ expBias = {}
    BY <1>1, <1>2, <1>4, TailProgram DEF OffProg, OffSteps
  <1>6. OffProg'
    BY <1>1, <1>3, <1>4, <1>5 DEF OffProg
  <1>7. /\ reqMain \in Seq(MainRequest) /\ reqAux \in Seq(AuxRequest)
        /\ d.do = "aux" => rq \in AuxRequest
        /\ d.do = "main" => rq \in MainRequest /\ rq.half = "low"
        /\ rq.op = "wr" /\ rq.half = d.half /\ rq.v = {}
    BY <1>1, <1>3, StepType DEF TypeInv, MainInv, AuxInv, MainRequest, AuxRequest, Op
  <1>8. /\ \A half \in Half : Comes(prog, "aux", half) => \/ Comes(prog', "aux", half)
                                                          \/ d.do = "aux" /\ d.half = half
        /\ Comes(prog, "main", "low") => Comes(prog', "main", "low") \/ d.do = "main"
    BY <1>1, <1>4, TailProgram DEF OffSteps, Half
  <1> HIDE DEF rq, d
  <1>9. ASSUME NEW half \in Half PROVE HalfInv(half)'
    <2>1. (pw \cap Part(half) = {}) \in BOOLEAN
      OBVIOUS
    <2>2. CASE lost \/ Comes(prog', "aux", half)
      BY <1>1, <2>2 DEF HalfInv
    <2>3. CASE d.do = "aux" /\ (d.half = half \/ PowerGoes(half))
      <3>1. GoesOff(aux, Append(reqAux, rq), half, pw \cap Part(half) = {})
        BY <1>7, <2>1, <2>3, AppendOff DEF PowerGoes, Write
      <3> QED BY <1>1, <1>4, <2>3, <3>1 DEF HalfInv, PowerGoes
    <2>4. CASE d.do = "main" /\ PowerGoes(half)
      BY <1>1, <1>4, <2>4 DEF HalfInv, PowerGoes
    <2> QED BY <1>2, <1>4, <1>8, <2>2, <2>3, <2>4 DEF HalfInv
  <1>10. BiasInv'
    <2>1. (bias = {}) \in BOOLEAN
      OBVIOUS
    <2>2. CASE lost \/ Comes(prog', "main", "low")
      BY <1>1, <2>2 DEF BiasInv
    <2>3. CASE d.do = "main"
      <3>1. GoesOff(main, Append(reqMain, rq), "low", bias = {})
        BY <1>7, <2>1, <2>3, AppendOff DEF Write, Half
      <3> QED BY <1>1, <1>4, <2>3, <3>1 DEF BiasInv, BiasGoes
    <2>4. CASE d.do = "aux" /\ BiasGoes
      BY <1>1, <1>4, <2>4 DEF BiasInv, BiasGoes
    <2> QED BY <1>2, <1>4, <1>8, <2>2, <2>3, <2>4 DEF BiasInv
  <1> QED BY <1>6, <1>9, <1>10

\* A program that switches off waits for no answer.
LEMMA ReplyOff ==
  ASSUME TypeInv, OffInv, SwReply
  PROVE  OffInv'
  <1>1. /\ prog \in Seq(Step) /\ prog # <<>> /\ Head(prog).do \in {"read_aux", "read_main"}
        /\ Advance \/ Raise
    BY DEF SwReply, TypeInv, ProgInv
  <1>2. call' = "off" => call = "off"
    BY <1>1 DEF Advance, Raise
  <1>3. call = "off" => Head(prog).do \in OffSteps
    BY <1>1, TailProgram DEF OffInv, OffProg
  <1> QED BY <1>1, <1>2, <1>3 DEF OffInv, OffSteps

\* power_off_all starts over; the calls that prepare a power-on expect nothing.
LEMMA CallsOff ==
  ASSUME TypeInv, OffInv, Calls
  PROVE  OffInv'
  <1>1. CASE CallPowerOn
    BY <1>1 DEF CallPowerOn, Begin, OffInv
  <1>2. CASE CallPowerOff
    <2>1. PICK disable \in DisableOnOff :
            prog' = PowerOff(disable) /\ call' = (IF disable THEN "off" ELSE "plain_off")
      BY <1>2 DEF CallPowerOff, Begin
    <2>2. disable \in BOOLEAN
      BY CallsKnown
    <2>3. CASE disable = FALSE
      BY <2>1, <2>3 DEF OffInv
    <2>4. CASE disable = TRUE
      <3>1. Harmless(prog') /\ Masks(prog', "mask_pw") /\ Masks(prog', "mask_bias") /\ AllCome(prog')
        BY <2>1, <2>4, PowerOffSteps
      <3> QED BY <3>1 DEF OffInv, OffProg, HalfInv, BiasInv, AllCome
    <2> QED BY <2>2, <2>3, <2>4
  <1>3. CASE CallPrepare
    <2> SUFFICES ASSUME call' = "off" PROVE OffProg' /\ (\A half \in Half : HalfInv(half)') /\ BiasInv'
      BY DEF OffInv
    <2>1. /\ prog = <<>> /\ prog' = Prepare /\ call = "off" /\ lost' = (lost /\ TRUE)
          /\ UNCHANGED <<pw, bias, main, reqMain, aux, reqAux, expPw, expBias>>
      BY <1>3 DEF CallPrepare, Begin, unit, regs, mainFsm, auxFsm
    <2>2. \A what, half : ~Comes(prog, what, half) /\ ~Masks(prog, what)
      BY <2>1 DEF Comes, Masks
    <2>3. expPw = {} /\ expBias = {} /\ (\A half \in Half : lost \/ PowerGoes(half)) /\ (lost \/ BiasGoes)
      BY <2>1, <2>2 DEF OffInv, OffProg, HalfInv, BiasInv
    <2>4. OffProg'
      BY <2>1, <2>3, PrepareHarmless DEF OffProg
    <2>5. ASSUME NEW half \in Half PROVE HalfInv(half)'
      BY <2>1, <2>3 DEF HalfInv, PowerGoes
    <2>6. BiasInv'
      BY <2>1, <2>3 DEF BiasInv, BiasGoes
    <2> QED BY <2>4, <2>5, <2>6
  <1> QED BY <1>1, <1>2, <1>3 DEF Calls

LEMMA OffNext == TypeInv /\ OffInv /\ [Next]_vars => OffInv'
  <1> SUFFICES ASSUME TypeInv, OffInv, [Next]_vars PROVE OffInv'
    OBVIOUS
  <1>1. CASE UNCHANGED vars
    BY <1>1 DEF vars, fwVars, swVars, unit, regs, mainFsm, auxFsm,
                OffInv, OffProg, HalfInv, BiasInv, PowerGoes, BiasGoes
  <1>2. CASE Next
    BY <1>2, FirmwareOff, WorldOff, RegisterOff, SendOff, ReplyOff, CallsOff, PollOff DEF Next, Software
  <1> QED BY <1>1, <1>2

\* Once the calls and the writes are served nothing has more to turn off.
LEMMA OffMeaning == TypeInv /\ OffInv => OffStaysOff
  <1> SUFFICES ASSUME TypeInv, OffInv, call = "off", AllServed PROVE pw = {} /\ bias = {}
    BY DEF OffStaysOff
  <1>1. ~lost /\ \A what, half : ~Comes(prog, what, half)
    BY DEF AllServed, Comes
  <1>2. \A half \in Half : PowerGoes(half)
    BY <1>1 DEF OffInv, HalfInv
  <1>3. \A half \in Half : pw \cap Part(half) = {}
    BY <1>2 DEF PowerGoes, GoesOff, LastEmpty, Write, AllServed, Served
  <1>4. bias = {}
    BY <1>1 DEF OffInv, BiasInv, BiasGoes, GoesOff, LastEmpty, Write, AllServed, Served
  <1>5. pw = {}
    BY <1>3 DEF Part, HalfOf, Half, TypeInv, UnitInv
  <1> QED BY <1>4, <1>5

\* After power_off_all with the interlock disabled, when its program is done,
\* none of its writes was lost and all are served, no module and no bias
\* channel is on, and no turn-off still under way brings one back.
THEOREM SwitchedOff == Spec => []OffStaysOff
  <1>1. Init => OffInv
    BY DEF Init, OffInv
  <1> QED BY <1>1, InitType, NextType, OffNext, OffMeaning, PTL DEF Spec

-----------------------------------------------------------------------------
(***************************************************************************)
(* The inductive invariant of powering on.  A program sees a plan: what    *)
(* the buses will be set to once the writes queued are served, the masks,  *)
(* and of the flags "aux" and "main" (the writes to that bus are served),  *)
(* "armed" (the power interlock) and "tried" (the try block) those that    *)
(* hold.  Each of its steps changes the plan as After says.                *)
(***************************************************************************)
Flag == {"aux", "main", "armed", "tried"}
Plan == [pw : SUBSET Module, bias : SUBSET Channel, expPw : SUBSET Module, expBias : SUBSET Channel,
         is : SUBSET Flag]
After(d, x) ==
  [pw |-> IF d.do = "aux" THEN (x.pw \ Part(d.half)) \cup (d.v \cap Part(d.half)) ELSE x.pw,
   bias |-> IF d.do = "main" THEN d.v ELSE x.bias,
   expPw |-> IF d.do = "mask_pw" THEN d.v ELSE x.expPw,
   expBias |-> IF d.do = "mask_bias" THEN d.v ELSE x.expBias,
   is |-> CASE d.do = "aux" -> x.is \ {"aux"}             [] d.do = "main" -> x.is \ {"main"}
            [] d.do = "read_aux" -> x.is \cup {"aux"}     [] d.do = "read_main" -> x.is \cup {"main"}
            [] d.do = "pwr_on" -> x.is \cup {"armed"}     [] d.do = "pwr_off" -> x.is \ {"armed"}
            [] d.do = "try" -> x.is \cup {"tried"}        [] OTHER -> x.is]

\* Nothing but a switching off is left to be written.
Clears(x) == ("aux" \in x.is \/ x.pw = {}) /\ ("main" \in x.is \/ x.bias = {})
\* The masks are what is set.
Set(x) == x.pw = x.expPw /\ x.bias = x.expBias /\ {"aux", "main"} \subseteq x.is

OnSteps  == {"armed", "fired", "try", "main", "aux", "read_aux", "read_main", "check",
             "mask_pw", "mask_bias", "pwr_on"}
Watching == {"fired", "read_aux", "read_main", "check"}
Raising  == {"armed", "fired", "read_aux", "read_main", "check"}

\* A step that goes as planned; a step that may raise is in the try block or has
\* nothing behind it.
Fits(d, x) ==
  /\ d.do \in OnSteps
  /\ d.do = "read_aux" => d.v = x.pw \cap Part(d.half)
  /\ d.do = "read_main" => d.v = x.bias
  /\ d.do = "pwr_on" => Set(x)
  /\ "armed" \in x.is => d.do \in Watching
Allowed(d, x, smooth) ==
  /\ d.do \in Raising => "tried" \in x.is \/ Clears(x)
  /\ smooth => Fits(d, x)

\* A program that leads from plan x to plan y, by the plans e.
Along(p, e, x, y, smooth) ==
  /\ e \in [1 .. Len(p) + 1 -> Plan] /\ e[1] = x /\ e[Len(p) + 1] = y
  /\ \A i \in 1 .. Len(p) : Allowed(p[i], e[i], smooth) /\ e[i + 1] = After(p[i], e[i])
Leads(p, x, y, smooth) == \E e : Along(p, e, x, y, smooth)
Course(p, x, smooth) == \E y \in Plan : Clears(y) /\ Leads(p, x, y, smooth)

\* The last write to half of a bus that is queued or in work, if any, leaves S of R.
Doing(fsm, half) == fsm.at = "WB" /\ Write(fsm.rq, half)
NoneFor(q, half) == \A i \in DOMAIN q : ~Write(q[i], half)
Pending(fsm, q, half) == Doing(fsm, half) \/ ~NoneFor(q, half)
Left(fsm, q, half, R, S) ==
  \/ \E i \in DOMAIN q :
       Write(q[i], half) /\ q[i].v \cap R = S /\ \A j \in DOMAIN q : i < j => ~Write(q[j], half)
  \/ NoneFor(q, half) /\ (Doing(fsm, half) => fsm.rq.v \cap R = S)
NoWrite(q) == \A i \in DOMAIN q : q[i].op # "wr"
Settled(fsm, q) == NoWrite(q) /\ ~(fsm.at = "WB" /\ fsm.rq.op = "wr")

\* Plan x is the one of this state; and without a fault what is set is as planned.
AuxStands(x) ==
  /\ \A half \in Half : Left(aux, reqAux, half, Part(half), x.pw \cap Part(half))
  /\ "aux" \in x.is => Settled(aux, reqAux)
MainStands(x) ==
  /\ Left(main, reqMain, "low", Channel, x.bias)
  /\ "main" \in x.is => Settled(main, reqMain)
RegsStand(x) ==
  /\ x.expPw = expPw /\ x.expBias = expBias /\ ("armed" \in x.is <=> "PWR" \in mon)
  /\ "tried" \in x.is /\ prog # <<>> => guarded
AuxExact(x) == \A half \in Half : Pending(aux, reqAux, half) \/ pw \cap Part(half) = x.pw \cap Part(half)
MainExact(x) == Pending(main, reqMain, "low") \/ bias = x.bias
Stands(x) == AuxStands(x) /\ MainStands(x) /\ RegsStand(x)
Exact(x) == AuxExact(x) /\ MainExact(x) /\ ("armed" \in x.is => Set(x))

\* The read of software is in this bus, behind every write.
Answers(fsm, q, half, done) ==
  /\ \A i \in DOMAIN q : Reading(q[i]) =>
       q[i].half = half /\ \A j \in DOMAIN q : i < j => q[j].op # "wr"
  /\ Reading(fsm.rq) => fsm.at = "WB" /\ fsm.rq.half = half /\ NoWrite(q)
  /\ done => Settled(fsm, q)
Silent(fsm, q) == NoRead(q) /\ ~Reading(fsm.rq)
AskedInv == asked =>
  \/ /\ Head(prog).do = "read_aux" /\ Silent(main, reqMain)
     /\ Answers(aux, reqAux, Head(prog).half, reply # <<>>)
  \/ /\ Head(prog).do = "read_main" /\ Silent(aux, reqAux)
     /\ Answers(main, reqMain, "low", reply # <<>>)

\* The interlock sees nothing to turn off, and the answer is the one expected.
Quiet ==
  /\ hot = {} /\ nok = {} /\ prev = {} /\ ~tripped /\ ~failed /\ Sensor \subseteq mon
  /\ main.at # "OFF" /\ aux.at \notin {"OFF_low", "OFF_high"}
  /\ "pw" \in valid => enL = expPw
  /\ "bias" \in valid => biasL = expBias
  /\ asked /\ reply # <<>> => reply = <<[ok |-> TRUE, v |-> Head(prog).v]>>
Smooth == fresh /\ faults = 0
CoolInv == faults = 0 => hot = {} /\ nok = {} /\ prev = {}
CourseInv == \E x \in Plan : Course(prog, x, Smooth) /\ Stands(x) /\ (Smooth => Exact(x))
OnInv == AskedInv /\ CoolInv /\ CourseInv /\ (Smooth => Quiet)

-----------------------------------------------------------------------------
(***************************************************************************)
(* Lemmas about plans and programs.                                        *)
(***************************************************************************)
LEMMA AfterType ==
  ASSUME NEW d \in Step, NEW x \in Plan
  PROVE  After(d, x) \in Plan
  <1>1. /\ After(d, x).pw \subseteq Module /\ After(d, x).bias \subseteq Channel
        /\ After(d, x).expPw \subseteq Module /\ After(d, x).expBias \subseteq Channel
    BY StepType DEF After, Plan
  <1>2. After(d, x).is \subseteq Flag
    BY DEF After, Plan, Flag
  <1> QED BY <1>1, <1>2 DEF After, Plan

\* The first step of a program, and the others.
LEMMA LeadsTail ==
  ASSUME NEW p \in Seq(Step), p # <<>>, NEW x \in Plan, NEW y \in Plan, NEW smooth \in BOOLEAN,
         Leads(p, x, y, smooth)
  PROVE  /\ Allowed(Head(p), x, smooth) /\ After(Head(p), x) \in Plan
         /\ Leads(Tail(p), After(Head(p), x), y, smooth)
  <1>1. PICK e : Along(p, e, x, y, smooth)
    BY DEF Leads
  <1>2. /\ Tail(p) \in Seq(Step) /\ Len(Tail(p)) = Len(p) - 1 /\ Len(p) \in Nat \ {0}
        /\ \A i \in 1 .. Len(p) - 1 : Tail(p)[i] = p[i + 1]
        /\ Head(p) = p[1] /\ Head(p) \in Step
    OBVIOUS
  <1> DEFINE f == [i \in 1 .. Len(Tail(p)) + 1 |-> e[i + 1]]
  <1>3. f \in [1 .. Len(Tail(p)) + 1 -> Plan]
    BY <1>1, <1>2 DEF Along
  <1>4. Allowed(Head(p), x, smooth) /\ e[2] = After(Head(p), x)
    BY <1>1, <1>2 DEF Along
  <1>5. f[1] = After(Head(p), x) /\ f[Len(Tail(p)) + 1] = y
    BY <1>1, <1>2, <1>4 DEF Along
  <1>6. ASSUME NEW i \in 1 .. Len(Tail(p))
        PROVE  Allowed(Tail(p)[i], f[i], smooth) /\ f[i + 1] = After(Tail(p)[i], f[i])
    <2>1. i + 1 \in 1 .. Len(p) /\ i \in 1 .. Len(p) - 1 /\ f[i] = e[i + 1] /\ f[i + 1] = e[(i + 1) + 1]
      BY <1>2
    <2>2. Allowed(p[i + 1], e[i + 1], smooth) /\ e[(i + 1) + 1] = After(p[i + 1], e[i + 1])
      BY <1>1, <2>1 DEF Along
    <2>3. Tail(p)[i] = p[i + 1]
      BY <1>2, <2>1
    <2> HIDE DEF f
    <2> QED BY <2>1, <2>2, <2>3
  <1>7. After(Head(p), x) \in Plan
    BY <1>2, AfterType
  <1> HIDE DEF f
  <1>8. Along(Tail(p), f, After(Head(p), x), y, smooth)
    BY <1>3, <1>5, <1>6 DEF Along
  <1> QED BY <1>4, <1>7, <1>8 DEF Leads

\* A program without steps leads nowhere, one of a step where the step leads.
LEMMA LeadsNone ==
  ASSUME NEW x \in Plan, NEW y \in Plan, NEW smooth
  PROVE  Leads(<<>>, x, y, smooth) <=> x = y
  <1>1. Len(<<>>) = 0
    OBVIOUS
  <1>2. Leads(<<>>, x, y, smooth) => x = y
    BY <1>1 DEF Leads, Along
  <1>3. ASSUME x = y PROVE Leads(<<>>, x, y, smooth)
    <2> DEFINE e == [i \in 1 .. Len(<<>>) + 1 |-> x]
    <2>1. Along(<<>>, e, x, y, smooth)
      BY <1>1, <1>3 DEF Along
    <2> QED BY <2>1 DEF Leads
  <1> QED BY <1>2, <1>3

LEMMA LeadsOne ==
  ASSUME NEW d \in Step, NEW x \in Plan, NEW smooth, Allowed(d, x, smooth)
  PROVE  After(d, x) \in Plan /\ Leads(<<d>>, x, After(d, x), smooth)
  <1>1. Len(<<d>>) = 1 /\ <<d>>[1] = d
    OBVIOUS
  <1>2. After(d, x) \in Plan
    BY AfterType
  <1> DEFINE e == [i \in 1 .. Len(<<d>>) + 1 |-> IF i = 1 THEN x ELSE After(d, x)]
  <1>3. /\ e \in [1 .. Len(<<d>>) + 1 -> Plan] /\ e[1] = x /\ e[Len(<<d>>) + 1] = After(d, x)
        /\ \A i \in 1 .. Len(<<d>>) : i = 1
    BY <1>1, <1>2
  <1>4. e[2] = After(d, x)
    BY <1>1
  <1> HIDE DEF e
  <1>5. Along(<<d>>, e, x, After(d, x), smooth)
    BY <1>1, <1>3, <1>4 DEF Along
  <1> QED BY <1>2, <1>5 DEF Leads

\* A program and then another.
LEMMA LeadsJoin ==
  ASSUME NEW p \in Seq(Step), NEW q \in Seq(Step), NEW x \in Plan, NEW y \in Plan, NEW z \in Plan,
         NEW smooth, Leads(p, x, y, smooth), Leads(q, y, z, smooth)
  PROVE  p \o q \in Seq(Step) /\ Leads(p \o q, x, z, smooth)
  <1>1. PICK e : Along(p, e, x, y, smooth)
    BY DEF Leads
  <1>2. PICK f : Along(q, f, y, z, smooth)
    BY DEF Leads
  <1>3. /\ p \o q \in Seq(Step) /\ Len(p \o q) = Len(p) + Len(q) /\ Len(p) \in Nat /\ Len(q) \in Nat
        /\ \A i \in 1 .. Len(p) : (p \o q)[i] = p[i]
        /\ \A i \in 1 .. Len(q) : (p \o q)[Len(p) + i] = q[i]
    OBVIOUS
  <1> DEFINE g == [i \in 1 .. Len(p \o q) + 1 |-> IF i <= Len(p) THEN e[i] ELSE f[i - Len(p)]]
  <1>4. g \in [1 .. Len(p \o q) + 1 -> Plan]
    BY <1>1, <1>2, <1>3 DEF Along
  <1>5. /\ \A i \in 1 .. Len(p) + 1 : g[i] = e[i]
        /\ \A i \in 1 .. Len(q) + 1 : g[Len(p) + i] = f[i]
    BY <1>1, <1>2, <1>3 DEF Along
  <1>6. g[1] = x /\ g[Len(p \o q) + 1] = z
    <2>1. 1 \in 1 .. Len(p) + 1 /\ Len(q) + 1 \in 1 .. Len(q) + 1 /\ Len(p \o q) + 1 = Len(p) + (Len(q) + 1)
      BY <1>3
    <2> HIDE DEF g
    <2> QED BY <1>1, <1>2, <1>5, <2>1 DEF Along
  <1> HIDE DEF g
  <1>7. ASSUME NEW i \in 1 .. Len(p \o q)
        PROVE  Allowed((p \o q)[i], g[i], smooth) /\ g[i + 1] = After((p \o q)[i], g[i])
    <2>1. CASE i \in 1 .. Len(p)
      <3>1. (p \o q)[i] = p[i] /\ g[i] = e[i] /\ g[i + 1] = e[i + 1]
        BY <1>3, <1>5, <2>1
      <3> QED BY <1>1, <2>1, <3>1 DEF Along
    <2>2. CASE i \notin 1 .. Len(p)
      <3> DEFINE j == i - Len(p)
      <3>1. j \in 1 .. Len(q) /\ j \in 1 .. Len(q) + 1 /\ j + 1 \in 1 .. Len(q) + 1
            /\ i = Len(p) + j /\ i + 1 = Len(p) + (j + 1)
        BY <1>3, <2>2
      <3> HIDE DEF j
      <3>2. (p \o q)[i] = q[j] /\ g[i] = f[j] /\ g[i + 1] = f[j + 1]
        BY <1>3, <1>5, <3>1
      <3> QED BY <1>2, <3>1, <3>2 DEF Along
    <2> QED BY <2>1, <2>2
  <1>8. Along(p \o q, g, x, z, smooth)
    BY <1>4, <1>6, <1>7 DEF Along
  <1> QED BY <1>3, <1>8 DEF Leads

\* A course that goes as planned is a course.
LEMMA CourseWeaken ==
  ASSUME NEW p, NEW x, NEW smooth \in BOOLEAN, NEW less \in BOOLEAN, less => smooth, Course(p, x, smooth)
  PROVE  Course(p, x, less)
  BY DEF Course, Leads, Along, Allowed

LEMMA CourseTail ==
  ASSUME NEW p \in Seq(Step), p # <<>>, NEW x \in Plan, NEW smooth \in BOOLEAN, Course(p, x, smooth)
  PROVE  /\ Allowed(Head(p), x, smooth) /\ After(Head(p), x) \in Plan
         /\ Course(Tail(p), After(Head(p), x), smooth)
  BY LeadsTail DEF Course

LEMMA CourseNone ==
  ASSUME NEW x \in Plan, NEW smooth
  PROVE  Course(<<>>, x, smooth) <=> Clears(x)
  BY LeadsNone DEF Course

-----------------------------------------------------------------------------
(***************************************************************************)
(* Lemmas about a machine and its queue: what is left to be written, and   *)
(* the read of software behind it.                                         *)
(***************************************************************************)
\* A machine serves the next request, has carried one out, or does something else.
Serves(fsm, q, next, after) ==
  fsm.at = "IDLE" /\ q # <<>> /\ next = [at |-> "WB", rq |-> Head(q)] /\ after = Tail(q)
Finishes(fsm, q, next, after) == fsm.at = "WB" /\ next = Goto("IDLE") /\ after = q
Rests(fsm, q, next, after) == fsm.at # "WB" /\ next.at # "WB" /\ ~Reading(next.rq) /\ after = q

LEMMA ServeLeft ==
  ASSUME NEW T, NEW q \in Seq(T), NEW fsm, NEW next, NEW after, Serves(fsm, q, next, after), NEW half
  PROVE  /\ \A R, S : Left(fsm, q, half, R, S) => Left(next, after, half, R, S)
         /\ Pending(next, after, half) <=> Pending(fsm, q, half)
         /\ Settled(fsm, q) => Settled(next, after)
  <1>1. /\ fsm.at = "IDLE" /\ next.at = "WB" /\ next.rq = q[1] /\ after = Tail(q) /\ 1 \in DOMAIN q
        /\ \A i \in DOMAIN after : i + 1 \in DOMAIN q /\ after[i] = q[i + 1] /\ i \in Nat
        /\ \A i \in DOMAIN q : i # 1 => i - 1 \in DOMAIN after /\ after[i - 1] = q[i]
        /\ DOMAIN q \subseteq Nat /\ \A i \in DOMAIN q : i >= 1
    <2>1. q # <<>> /\ after = Tail(q) /\ next.rq = Head(q) /\ next.at = "WB" /\ fsm.at = "IDLE"
      BY DEF Serves
    <2>2. DOMAIN q \subseteq Nat /\ \A i \in DOMAIN q : i >= 1
      OBVIOUS
    <2> QED BY <2>1, <2>2, TailOf
  <1>2. ~Doing(fsm, half) /\ (Doing(next, half) <=> Write(q[1], half))
    BY <1>1 DEF Doing
  <1>3. ASSUME NEW R, NEW S, Left(fsm, q, half, R, S) PROVE Left(next, after, half, R, S)
    <2>1. CASE NoneFor(q, half)
      BY <1>1, <1>2, <2>1 DEF NoneFor, Left
    <2>2. ASSUME NEW i \in DOMAIN q, Write(q[i], half), q[i].v \cap R = S,
                 \A j \in DOMAIN q : i < j => ~Write(q[j], half)
          PROVE  Left(next, after, half, R, S)
      <3>1. CASE i = 1
        <4>1. \A j \in DOMAIN after : ~Write(after[j], half)
          BY <1>1, <2>2, <3>1
        <4> QED BY <1>1, <2>2, <3>1, <4>1 DEF Left, NoneFor
      <3>2. CASE i # 1
        <4>1. i - 1 \in DOMAIN after /\ after[i - 1] = q[i]
          BY <1>1, <3>2
        <4>2. \A j \in DOMAIN after : i - 1 < j => ~Write(after[j], half)
          BY <1>1, <2>2
        <4> QED BY <2>2, <4>1, <4>2 DEF Left
      <3> QED BY <3>1, <3>2
    <2> QED BY <1>3, <2>1, <2>2 DEF Left
  <1>4. Pending(next, after, half) <=> Pending(fsm, q, half)
    <2>1. Pending(next, after, half) => Pending(fsm, q, half)
      BY <1>1, <1>2 DEF Pending, NoneFor
    <2>2. ASSUME NEW i \in DOMAIN q, Write(q[i], half) PROVE Pending(next, after, half)
      <3>1. i # 1 => i - 1 \in DOMAIN after /\ after[i - 1] = q[i]
        BY <1>1
      <3>2. CASE i = 1
        BY <1>2, <2>2, <3>2 DEF Pending
      <3>3. CASE i # 1
        BY <2>2, <3>1, <3>3 DEF Pending, NoneFor
      <3> QED BY <3>2, <3>3
    <2> QED BY <1>2, <2>1, <2>2 DEF Pending, NoneFor
  <1>5. Settled(fsm, q) => Settled(next, after)
    BY <1>1 DEF Settled, NoWrite
  <1> QED BY <1>3, <1>4, <1>5

LEMMA FinishLeft ==
  ASSUME NEW q, NEW fsm, NEW next, NEW after, Finishes(fsm, q, next, after), NEW half
  PROVE  /\ \A R, S : Left(fsm, q, half, R, S) => Left(next, after, half, R, S)
         /\ Pending(next, after, half) => Pending(fsm, q, half)
         /\ Settled(fsm, q) => Settled(next, after)
         /\ \A R, S : Left(fsm, q, half, R, S) /\ Doing(fsm, half) =>
              Pending(next, after, half) \/ fsm.rq.v \cap R = S
         /\ ~Doing(fsm, half) /\ Pending(fsm, q, half) => Pending(next, after, half)
  <1>1. next.at = "IDLE" /\ after = q /\ ~Doing(next, half)
    BY GotoType DEF Finishes, Doing
  <1> QED BY <1>1 DEF Left, Pending, Settled, NoneFor

LEMMA RestLeft ==
  ASSUME NEW q, NEW fsm, NEW next, NEW after, Rests(fsm, q, next, after), NEW half
  PROVE  /\ \A R, S : Left(fsm, q, half, R, S) => Left(next, after, half, R, S)
         /\ Pending(next, after, half) <=> Pending(fsm, q, half)
         /\ Settled(fsm, q) => Settled(next, after)
  BY DEF Rests, Left, Pending, Settled, Doing

\* Nothing is left of what is served.
LEMMA SettledLeft ==
  ASSUME NEW q, NEW fsm, Settled(fsm, q), NEW half
  PROVE  ~Pending(fsm, q, half) /\ \A R, S : Left(fsm, q, half, R, S)
  BY DEF Settled, NoWrite, Pending, NoneFor, Doing, Write, Left

\* A request more is queued.
LEMMA AppendLeft ==
  ASSUME NEW T, NEW q \in Seq(T), NEW r \in T, NEW fsm, NEW half
  PROVE  /\ Write(r, half) => /\ \A R : Left(fsm, Append(q, r), half, R, r.v \cap R)
                              /\ Pending(fsm, Append(q, r), half)
         /\ ~Write(r, half) =>
              /\ \A R, S : Left(fsm, q, half, R, S) => Left(fsm, Append(q, r), half, R, S)
              /\ Pending(fsm, Append(q, r), half) <=> Pending(fsm, q, half)
         /\ r.op # "wr" /\ Settled(fsm, q) => Settled(fsm, Append(q, r))
  <1> USE AppendOf
  <1>1. /\ Len(q) \in Nat /\ \A i \in DOMAIN q : i \in Nat /\ i < Len(q) + 1
        /\ Len(q) + 1 \in DOMAIN Append(q, r) /\ Append(q, r)[Len(q) + 1] = r
        /\ \A i \in DOMAIN q : i \in DOMAIN Append(q, r) /\ Append(q, r)[i] = q[i]
        /\ \A i \in DOMAIN Append(q, r) : i \in DOMAIN q \/ i = Len(q) + 1
    OBVIOUS
  <1> HIDE AppendOf
  <1> DEFINE a == Append(q, r)
  <1> HIDE DEF a
  <1>2. /\ Len(q) + 1 \in DOMAIN a /\ a[Len(q) + 1] = r
        /\ \A i \in DOMAIN q : i \in DOMAIN a /\ a[i] = q[i]
        /\ \A i \in DOMAIN a : i \in DOMAIN q \/ i = Len(q) + 1
    BY <1>1 DEF a
  <1>3. ASSUME Write(r, half)
        PROVE  (\A R : Left(fsm, a, half, R, r.v \cap R)) /\ Pending(fsm, a, half)
    <2>1. \A j \in DOMAIN a : Len(q) + 1 < j => ~Write(a[j], half)
      BY <1>1, <1>2
    <2> QED BY <1>2, <1>3, <2>1 DEF Left, Pending, NoneFor
  <1>4. ASSUME ~Write(r, half), NEW R, NEW S, Left(fsm, q, half, R, S) PROVE Left(fsm, a, half, R, S)
    <2>1. CASE NoneFor(q, half)
      BY <1>2, <1>4, <2>1 DEF Left, NoneFor
    <2>2. ASSUME NEW i \in DOMAIN q, Write(q[i], half), q[i].v \cap R = S,
                 \A j \in DOMAIN q : i < j => ~Write(q[j], half)
          PROVE  Left(fsm, a, half, R, S)
      <3>1. i \in DOMAIN a /\ a[i] = q[i] /\ \A j \in DOMAIN a : i < j => ~Write(a[j], half)
        BY <1>2, <1>4, <2>2
      <3> QED BY <2>2, <3>1 DEF Left
    <2> QED BY <1>4, <2>1, <2>2 DEF Left
  <1>5. ~Write(r, half) => (Pending(fsm, a, half) <=> Pending(fsm, q, half))
    BY <1>2 DEF Pending, NoneFor
  <1>6. r.op # "wr" /\ Settled(fsm, q) => Settled(fsm, a)
    BY <1>2 DEF Settled, NoWrite
  <1> QED BY <1>3, <1>4, <1>5, <1>6 DEF a

\* The read of software goes through its bus, and no other comes.
LEMMA ServeAnswers ==
  ASSUME NEW T, NEW q \in Seq(T), NEW fsm, NEW next, NEW after, Serves(fsm, q, next, after),
         NEW half, NEW done \in BOOLEAN, OneRead(q)
  PROVE  /\ Answers(fsm, q, half, done) => Answers(next, after, half, done)
         /\ Silent(fsm, q) => Silent(next, after)
  <1>1. /\ next.at = "WB" /\ next.rq = q[1] /\ after = Tail(q) /\ 1 \in DOMAIN q
        /\ \A i \in DOMAIN after : i + 1 \in DOMAIN q /\ after[i] = q[i + 1] /\ i \in Nat /\ 1 < i + 1
    <2>1. q # <<>> /\ after = Tail(q) /\ next.rq = Head(q) /\ next.at = "WB"
      BY DEF Serves
    <2>2. \A i \in DOMAIN Tail(q) : 1 < i + 1
      BY <2>1
    <2> QED BY <2>1, <2>2, TailOf
  <1>2. ASSUME Answers(fsm, q, half, done) PROVE Answers(next, after, half, done)
    <2>1. \A i \in DOMAIN after : Reading(after[i]) =>
            after[i].half = half /\ \A j \in DOMAIN after : i < j => after[j].op # "wr"
      BY <1>1, <1>2 DEF Answers
    <2>2. Reading(next.rq) => next.rq.half = half /\ NoWrite(after)
      BY <1>1, <1>2 DEF Answers, NoWrite
    <2>3. done => Settled(next, after)
      BY <1>2, ServeLeft DEF Answers
    <2> QED BY <1>1, <2>1, <2>2, <2>3 DEF Answers
  <1>3. Silent(fsm, q) => Silent(next, after)
    BY <1>1 DEF Silent, NoRead
  <1> QED BY <1>2, <1>3

LEMMA FinishAnswers ==
  ASSUME NEW q, NEW fsm, NEW next, NEW after, Finishes(fsm, q, next, after),
         NEW half, NEW done \in BOOLEAN, NEW then \in BOOLEAN, then => done \/ Reading(fsm.rq)
  PROVE  /\ Answers(fsm, q, half, done) => Answers(next, after, half, then)
         /\ Silent(fsm, q) => Silent(next, after)
  <1>1. next.at = "IDLE" /\ after = q /\ ~Reading(next.rq)
    BY GotoType DEF Finishes
  <1>2. Answers(fsm, q, half, done) /\ then => Settled(next, after)
    BY <1>1 DEF Answers, Settled, Reading
  <1> QED BY <1>1, <1>2 DEF Answers, Silent

LEMMA RestAnswers ==
  ASSUME NEW q, NEW fsm, NEW next, NEW after, Rests(fsm, q, next, after), NEW half, NEW done \in BOOLEAN
  PROVE  /\ Answers(fsm, q, half, done) => Answers(next, after, half, done)
         /\ Silent(fsm, q) => Silent(next, after)
  <1>1. Answers(fsm, q, half, done) /\ done => Settled(next, after)
    BY RestLeft DEF Answers
  <1> QED BY <1>1 DEF Rests, Answers, Silent

\* Monitoring asks for something meanwhile.
LEMMA AppendAnswers ==
  ASSUME NEW T, NEW q \in Seq(T), NEW r \in T, r.op = "poll", NEW fsm, NEW half, NEW done \in BOOLEAN
  PROVE  /\ Answers(fsm, q, half, done) => Answers(fsm, Append(q, r), half, done)
         /\ Silent(fsm, q) => Silent(fsm, Append(q, r))
  <1>1. /\ \A i \in DOMAIN q : i \in DOMAIN Append(q, r) /\ Append(q, r)[i] = q[i]
        /\ \A i \in DOMAIN Append(q, r) : i \in DOMAIN q \/ Append(q, r)[i] = r
    BY AppendOf
  <1> DEFINE a == Append(q, r)
  <1> HIDE DEF a
  <1>2. /\ \A i \in DOMAIN a : (i \in DOMAIN q /\ a[i] = q[i]) \/ a[i] = r
        /\ r.op # "wr" /\ ~Reading(r)
    BY <1>1 DEF a, Reading
  <1>3. Settled(fsm, q) => Settled(fsm, a)
    BY <1>2 DEF Settled, NoWrite
  <1>4. ASSUME Answers(fsm, q, half, done) PROVE Answers(fsm, a, half, done)
    <2>1. NoWrite(q) => NoWrite(a)
      BY <1>2 DEF NoWrite
    <2>2. \A i \in DOMAIN a : Reading(a[i]) => a[i].half = half /\ \A j \in DOMAIN a : i < j => a[j].op # "wr"
      BY <1>2, <1>4 DEF Answers
    <2> QED BY <1>3, <1>4, <2>1, <2>2 DEF Answers
  <1>5. Silent(fsm, q) => Silent(fsm, a)
    BY <1>2 DEF Silent, NoRead
  <1> QED BY <1>4, <1>5 DEF a

\* Software asks.
LEMMA AskAnswers ==
  ASSUME NEW T, NEW q \in Seq(T), NEW r \in T, Reading(r), NEW fsm, Silent(fsm, q)
  PROVE  Answers(fsm, Append(q, r), r.half, FALSE)
  <1>1. /\ Len(q) \in Nat /\ \A i \in DOMAIN q : i \in Nat /\ i < Len(q) + 1
        /\ \A i \in DOMAIN Append(q, r) : (i \in DOMAIN q /\ Append(q, r)[i] = q[i])
                                          \/ (i = Len(q) + 1 /\ Append(q, r)[i] = r)
    <2>1. Len(q) \in Nat /\ \A i \in DOMAIN q : i \in Nat
      OBVIOUS
    <2> QED BY <2>1, AppendOf
  <1> DEFINE a == Append(q, r)
  <1> HIDE DEF a
  <1>2. \A i \in DOMAIN a : (i \in DOMAIN q /\ a[i] = q[i]) \/ (i = Len(q) + 1 /\ a[i] = r)
    BY <1>1 DEF a
  <1>3. \A i \in DOMAIN a : Reading(a[i]) => i = Len(q) + 1 /\ a[i] = r
    BY <1>2 DEF Silent, NoRead
  <1>4. \A j \in DOMAIN a : ~(Len(q) + 1 < j)
    BY <1>1, <1>2
  <1>5. Answers(fsm, a, r.half, FALSE)
    BY <1>3, <1>4 DEF Answers, Silent
  <1> QED BY <1>5 DEF a

-----------------------------------------------------------------------------
(***************************************************************************)
(* The programs, and the plans they lead through.                          *)
(***************************************************************************)
LEMMA AppendJoin ==
  ASSUME NEW p \in Seq(Step), NEW d \in Step
  PROVE  Append(p, d) = p \o <<d>>
  OBVIOUS

LEMMA LeadsTwo ==
  ASSUME NEW a \in Step, NEW b \in Step, NEW x \in Plan, NEW y \in Plan, NEW smooth,
         Allowed(a, x, smooth), Allowed(b, After(a, x), smooth), y = After(b, After(a, x))
  PROVE  <<a, b>> \in Seq(Step) /\ Leads(<<a, b>>, x, y, smooth)
  <1>1. After(a, x) \in Plan /\ Leads(<<a>>, x, After(a, x), smooth)
    BY LeadsOne
  <1>2. Leads(<<b>>, After(a, x), y, smooth)
    BY <1>1, LeadsOne
  <1>3. <<a>> \in Seq(Step) /\ <<b>> \in Seq(Step) /\ <<a, b>> = Append(<<a>>, b)
    OBVIOUS
  <1>4. <<a, b>> = <<a>> \o <<b>>
    BY <1>3, AppendJoin, Zenon
  <1>5. <<a>> \o <<b>> \in Seq(Step) /\ Leads(<<a>> \o <<b>>, x, y, smooth)
    BY <1>1, <1>2, <1>3, LeadsJoin
  <1> QED BY <1>4, <1>5, Zenon

LEMMA LeadsThree ==
  ASSUME NEW a \in Step, NEW b \in Step, NEW c \in Step, NEW x \in Plan, NEW y \in Plan, NEW smooth,
         Allowed(a, x, smooth), Allowed(b, After(a, x), smooth),
         Allowed(c, After(b, After(a, x)), smooth), y = After(c, After(b, After(a, x)))
  PROVE  <<a, b, c>> \in Seq(Step) /\ Leads(<<a, b, c>>, x, y, smooth)
  <1>1. After(a, x) \in Plan /\ After(b, After(a, x)) \in Plan
    BY AfterType
  <1>2. <<a, b>> \in Seq(Step) /\ Leads(<<a, b>>, x, After(b, After(a, x)), smooth)
    BY <1>1, LeadsTwo
  <1>3. Leads(<<c>>, After(b, After(a, x)), y, smooth)
    BY <1>1, LeadsOne
  <1>4. <<c>> \in Seq(Step) /\ <<a, b, c>> = Append(<<a, b>>, c)
    OBVIOUS
  <1>5. <<a, b, c>> = <<a, b>> \o <<c>>
    BY <1>2, <1>4, AppendJoin, Zenon
  <1>6. <<a, b>> \o <<c>> \in Seq(Step) /\ Leads(<<a, b>> \o <<c>>, x, y, smooth)
    BY <1>1, <1>2, <1>3, <1>4, LeadsJoin
  <1> QED BY <1>5, <1>6, Zenon

\* enable_power_with_mask sets both expanders.
LEMMA SetPowerLeads ==
  ASSUME NEW S \in SUBSET Module, NEW x \in Plan, NEW smooth \in BOOLEAN, smooth => "armed" \notin x.is
  PROVE  LET y == [x EXCEPT !.pw = S, !.is = x.is \ {"aux"}]
         IN  y \in Plan /\ Leads(SetPower(S), x, y, smooth)
  <1> DEFINE y == [x EXCEPT !.pw = S, !.is = x.is \ {"aux"}]
             a == Do("aux", "low", S \cap Part("low"))
             b == Do("aux", "high", S \cap Part("high"))
  <1>1. a \in Step /\ b \in Step
    BY DoType DEF Half
  <1>2. y \in Plan
    BY DEF Plan
  <1>3. Part("low") \cup Part("high") = Module /\ Part("low") \cap Part("high") = {}
    BY DEF Part, HalfOf
  <1>4. /\ a.do = "aux" /\ a.half = "low" /\ a.v = S \cap Part("low")
        /\ b.do = "aux" /\ b.half = "high" /\ b.v = S \cap Part("high")
    BY DEF Do
  <1> HIDE DEF a, b
  <1>5. Allowed(a, x, smooth) /\ Allowed(b, After(a, x), smooth)
    BY <1>4 DEF Allowed, Raising, Fits, OnSteps, After
  <1>6. y = After(b, After(a, x))
    <2>1. (x.pw \ Part("low")) \cup (S \cap Part("low") \cap Part("low")) \subseteq Module
      BY DEF Plan
    <2>2. After(b, After(a, x)).pw = S
      BY <1>3, <1>4, <2>1 DEF After, Plan
    <2>3. After(b, After(a, x)).is = x.is \ {"aux"}
      BY <1>4 DEF After
    <2>4. /\ After(b, After(a, x)).bias = x.bias /\ After(b, After(a, x)).expPw = x.expPw
          /\ After(b, After(a, x)).expBias = x.expBias
      BY <1>4 DEF After
    <2>5. After(b, After(a, x)) \in Plan
      BY <1>1, AfterType
    <2> HIDE DEF y
    <2>6. y.pw = S /\ y.is = x.is \ {"aux"} /\ y.bias = x.bias /\ y.expPw = x.expPw /\ y.expBias = x.expBias
      BY DEF y, Plan
    <2> QED BY <1>2, <2>2, <2>3, <2>4, <2>5, <2>6 DEF Plan
  <1>7. SetPower(S) = <<a, b>>
    BY DEF SetPower, a, b
  <1> QED BY <1>1, <1>2, <1>5, <1>6, <1>7, LeadsTwo

\* get_power_enable_status reads both back, with what is expected of them.
LEMMA StatusLeads ==
  ASSUME NEW S \in SUBSET Module, NEW B \in SUBSET Channel, NEW x \in Plan, NEW smooth \in BOOLEAN,
         "tried" \in x.is, smooth => x.pw = S /\ x.bias = B
  PROVE  LET y == [x EXCEPT !.is = x.is \cup {"aux", "main"}]
         IN  y \in Plan /\ Leads(Status(S, B), x, y, smooth)
  <1> DEFINE y == [x EXCEPT !.is = x.is \cup {"aux", "main"}]
             a == Do("read_aux", "low", S \cap Part("low"))
             b == Do("read_aux", "high", S \cap Part("high"))
             c == Do("read_main", "low", B)
  <1>1. a \in Step /\ b \in Step /\ c \in Step
    BY DoType DEF Half
  <1>2. y \in Plan
    BY DEF Plan, Flag
  <1>3. /\ a.do = "read_aux" /\ a.half = "low" /\ a.v = S \cap Part("low")
        /\ b.do = "read_aux" /\ b.half = "high" /\ b.v = S \cap Part("high")
        /\ c.do = "read_main" /\ c.v = B
    BY DEF Do
  <1>4. Status(S, B) = <<a, b, c>>
    BY DEF Status
  <1> HIDE DEF a, b, c
  <1> DEFINE x1 == After(a, x)
             x2 == After(b, x1)
  <1>5. /\ x1.pw = x.pw /\ x1.bias = x.bias /\ x1.is = x.is \cup {"aux"}
        /\ x2.pw = x.pw /\ x2.bias = x.bias /\ x2.is = x.is \cup {"aux"}
        /\ x2.expPw = x.expPw /\ x2.expBias = x.expBias
    BY <1>3 DEF After
  <1>6. Allowed(a, x, smooth) /\ Allowed(b, x1, smooth) /\ Allowed(c, x2, smooth)
    <2> HIDE DEF x1, x2
    <2> QED BY <1>3, <1>5 DEF Allowed, Fits, OnSteps, Watching
  <1>7. y = After(c, x2)
    <2>1. After(c, x2) \in Plan
      BY <1>1, AfterType
    <2> HIDE DEF y, x1, x2
    <2>2. /\ After(c, x2).pw = x.pw /\ After(c, x2).bias = x.bias /\ After(c, x2).expPw = x.expPw
          /\ After(c, x2).expBias = x.expBias /\ After(c, x2).is = x.is \cup {"aux", "main"}
      BY <1>3, <1>5 DEF After
    <2>3. /\ y.pw = x.pw /\ y.bias = x.bias /\ y.expPw = x.expPw /\ y.expBias = x.expBias
          /\ y.is = x.is \cup {"aux", "main"}
      BY DEF y, Plan
    <2> QED BY <1>2, <2>1, <2>2, <2>3 DEF Plan
  <1> QED BY <1>1, <1>2, <1>4, <1>6, <1>7, LeadsThree

\* enable_power_bias_interlock: the masks, and then the interlock.
LEMMA ArmLeads ==
  ASSUME NEW S \in SUBSET Module, NEW B \in SUBSET Channel, NEW x \in Plan, NEW smooth \in BOOLEAN,
         x.pw = S, x.bias = B, {"aux", "main"} \subseteq x.is, smooth => "armed" \notin x.is
  PROVE  LET y == [x EXCEPT !.expPw = S, !.expBias = B, !.is = x.is \cup {"armed"}]
         IN  y \in Plan /\ Leads(Arm(S, B), x, y, smooth)
  <1> DEFINE y == [x EXCEPT !.expPw = S, !.expBias = B, !.is = x.is \cup {"armed"}]
             a == Do("mask_pw", "low", S)
             b == Do("mask_bias", "low", B)
             c == Do("pwr_on", "low", {})
  <1>1. a \in Step /\ b \in Step /\ c \in Step
    BY DoType
  <1>2. y \in Plan
    BY DEF Plan, Flag
  <1>3. /\ a.do = "mask_pw" /\ a.v = S /\ b.do = "mask_bias" /\ b.v = B /\ c.do = "pwr_on"
    BY DEF Do
  <1>4. Arm(S, B) = <<a, b, c>>
    BY DEF Arm
  <1> HIDE DEF a, b, c
  <1> DEFINE x1 == After(a, x)
             x2 == After(b, x1)
  <1>5. /\ x1.is = x.is /\ x2.is = x.is /\ x2.pw = S /\ x2.bias = B /\ x2.expPw = S /\ x2.expBias = B
    BY <1>3 DEF After
  <1>6. Allowed(a, x, smooth) /\ Allowed(b, x1, smooth) /\ Allowed(c, x2, smooth)
    <2> HIDE DEF x1, x2
    <2> QED BY <1>3, <1>5 DEF Allowed, Fits, OnSteps, Raising, Set
  <1>7. y = After(c, x2)
    <2>1. After(c, x2) \in Plan
      BY <1>1, AfterType
    <2>2. /\ After(c, x2).pw = S /\ After(c, x2).bias = B /\ After(c, x2).expPw = S
          /\ After(c, x2).expBias = B /\ After(c, x2).is = x.is \cup {"armed"}
      BY <1>3 DEF After
    <2> HIDE DEF y, x1, x2
    <2>3. y.pw = S /\ y.bias = B /\ y.expPw = S /\ y.expBias = B /\ y.is = x.is \cup {"armed"}
      BY DEF y, Plan
    <2> QED BY <1>2, <2>1, <2>2, <2>3 DEF Plan
  <1> QED BY <1>1, <1>2, <1>4, <1>6, <1>7, LeadsThree

\* A step that cannot raise is allowed anywhere, when nothing is expected of it.
LEMMA PlainLeads ==
  ASSUME NEW d \in Step, d.do \notin Raising, NEW x \in Plan
  PROVE  After(d, x) \in Plan /\ Leads(<<d>>, x, After(d, x), FALSE)
  BY LeadsOne DEF Allowed

LEMMA DisarmLeads ==
  ASSUME NEW x \in Plan
  PROVE  \E y \in Plan : y.pw = x.pw /\ y.bias = x.bias /\ Leads(Disarm, x, y, FALSE)
  <1> DEFINE a == Do("pwr_off", "low", {})
             b == Do("mask_pw", "low", {})
             c == Do("mask_bias", "low", {})
             y == After(c, After(b, After(a, x)))
  <1>1. a \in Step /\ b \in Step /\ c \in Step
    BY DoType
  <1>2. a.do = "pwr_off" /\ b.do = "mask_pw" /\ c.do = "mask_bias"
    BY DEF Do
  <1>3. Disarm = <<a, b, c>>
    BY DEF Disarm
  <1> HIDE DEF a, b, c
  <1>4. y \in Plan
    BY <1>1, AfterType
  <1>5. y.pw = x.pw /\ y.bias = x.bias
    BY <1>2 DEF After
  <1>6. Allowed(a, x, FALSE) /\ Allowed(b, After(a, x), FALSE) /\ Allowed(c, After(b, After(a, x)), FALSE)
    BY <1>2 DEF Allowed, Raising
  <1>7. Leads(Disarm, x, y, FALSE)
    BY <1>1, <1>3, <1>4, <1>6, LeadsThree
  <1> HIDE DEF y
  <1> QED BY <1>4, <1>5, <1>7

\* power_off_all leaves nothing but a switching off to be written.
LEMMA PowerOffCourse ==
  ASSUME NEW disable \in BOOLEAN, NEW x \in Plan
  PROVE  Course(PowerOff(disable), x, FALSE)
  <1> DEFINE first == IF disable THEN Disarm ELSE <<>>
             d == Do("main", "low", {})
  <1>1. first \in Seq(Step) /\ SetPower({}) \in Seq(Step) /\ d \in Step /\ <<d>> \in Seq(Step)
    BY DisarmType, SetPowerType, DoType
  <1>2. PICK x1 \in Plan : Leads(first, x, x1, FALSE)
    <2>1. CASE disable
      BY <2>1, DisarmLeads
    <2>2. CASE ~disable
      BY <2>2, LeadsNone
    <2> QED BY <2>1, <2>2
  <1>3. PICK x2 \in Plan : x2.pw = {} /\ Leads(SetPower({}), x1, x2, FALSE)
    <2> DEFINE x2 == [x1 EXCEPT !.pw = {}, !.is = x1.is \ {"aux"}]
    <2>1. x2 \in Plan /\ Leads(SetPower({}), x1, x2, FALSE)
      BY SetPowerLeads
    <2>2. x2.pw = {}
      BY DEF Plan
    <2> QED BY <2>1, <2>2
  <1>4. d.do = "main" /\ d.v = {}
    BY DEF Do
  <1> HIDE DEF d, first
  <1>5. After(d, x2) \in Plan /\ Leads(<<d>>, x2, After(d, x2), FALSE)
    BY <1>1, <1>4, PlainLeads DEF Raising
  <1>6. Clears(After(d, x2))
    BY <1>3, <1>4 DEF Clears, After
  <1>7. first \o SetPower({}) \in Seq(Step) /\ Leads(first \o SetPower({}), x, x2, FALSE)
    BY <1>1, <1>2, <1>3, LeadsJoin
  <1>8. Leads(first \o SetPower({}) \o <<d>>, x, After(d, x2), FALSE)
    BY <1>1, <1>5, <1>7, LeadsJoin
  <1> QED BY <1>5, <1>6, <1>8 DEF Course, PowerOff, first, d

\* Nor do the calls that prepare a power-on.
LEMMA PrepareCourse ==
  ASSUME NEW x \in Plan, x.pw = {}, x.bias = {}
  PROVE  Course(Prepare, x, FALSE)
  <1> DEFINE a == Do("temps", "low", {})
             b == Do("arm_temps", "low", {})
             c == Do("clear", "low", {})
  <1>1. /\ a \in Step /\ b \in Step /\ c \in Step
        /\ <<a>> \in Seq(Step) /\ <<b, c>> \in Seq(Step) /\ Disarm \in Seq(Step)
    BY DoType, DisarmType
  <1>2. a.do = "temps" /\ b.do = "arm_temps" /\ c.do = "clear"
    BY DEF Do
  <1>3. Prepare = <<a>> \o Disarm \o <<b, c>>
    BY DEF Prepare
  <1> HIDE DEF a, b, c
  <1> DEFINE x1 == After(a, x)
  <1>4. x1 \in Plan /\ Leads(<<a>>, x, x1, FALSE) /\ x1.pw = {} /\ x1.bias = {}
    <2>1. x1.pw = {} /\ x1.bias = {}
      BY <1>2 DEF After
    <2> QED BY <1>1, <1>2, <2>1, PlainLeads DEF Raising
  <1> HIDE DEF x1
  <1>5. PICK x2 \in Plan : x2.pw = {} /\ x2.bias = {} /\ Leads(Disarm, x1, x2, FALSE)
    BY <1>4, DisarmLeads
  <1> DEFINE y == After(c, After(b, x2))
  <1>6. y \in Plan /\ y.pw = {} /\ y.bias = {}
    <2>1. y.pw = {} /\ y.bias = {}
      BY <1>2, <1>5 DEF After
    <2> QED BY <1>1, <2>1, AfterType
  <1>7. Leads(<<b, c>>, x2, y, FALSE)
    <2>1. Allowed(b, x2, FALSE) /\ Allowed(c, After(b, x2), FALSE)
      BY <1>2 DEF Allowed, Raising
    <2> QED BY <1>1, <1>6, <2>1, LeadsTwo
  <1> HIDE DEF y
  <1>8. <<a>> \o Disarm \in Seq(Step) /\ Leads(<<a>> \o Disarm, x, x2, FALSE)
    BY <1>1, <1>4, <1>5, LeadsJoin
  <1>9. Leads(<<a>> \o Disarm \o <<b, c>>, x, y, FALSE)
    BY <1>1, <1>6, <1>7, <1>8, LeadsJoin
  <1> QED BY <1>3, <1>6, <1>9 DEF Course, Clears

\* The modules of a list are powered on one after the other, in five steps each.
OnTill(list, k) == {list[i] : i \in 1 .. k}
FiveOf(list, B, k) == SetPower(OnTill(list, k)) \o Status(OnTill(list, k), B)
ModulesOf(list, B) == [i \in 1 .. 5 * Len(list) |-> FiveOf(list, B, ((i - 1) \div 5) + 1)[((i - 1) % 5) + 1]]

LEMMA FiveType ==
  ASSUME NEW list, NEW B \in SUBSET Channel, NEW k, OnTill(list, k) \in SUBSET Module
  PROVE  \A r \in 1 .. 5 : FiveOf(list, B, k)[r] \in Step
  <1> DEFINE a == SetPower(OnTill(list, k))
             b == Status(OnTill(list, k), B)
             c == a \o b
  <1>1. a \in Seq(Step) /\ b \in Seq(Step) /\ Len(a) = 2 /\ Len(b) = 3
    BY SetPowerType, StatusType
  <1> HIDE DEF a, b
  <1>2. c \in Seq(Step) /\ Len(c) = Len(a) + Len(b)
    BY <1>1, JoinType
  <1>3. 1 .. 5 = 1 .. Len(c)
    BY <1>1, <1>2
  <1> HIDE DEF c
  <1>4. \A r \in 1 .. Len(c) : c[r] \in Step
    <2>1. c \in Seq(Step)
      BY <1>2
    <2> QED BY <2>1
  <1> QED BY <1>3, <1>4 DEF FiveOf, a, b, c

\* The plan after k modules and r of the five steps of the next one.
OnIs(x, k) == IF k = 0 THEN x.is ELSE x.is \cup {"aux", "main"}
OnPlan(list, x, k, r) ==
  [pw |-> IF r = 0 THEN OnTill(list, k)
          ELSE IF r = 1 THEN (OnTill(list, k) \ Part("low")) \cup (OnTill(list, k + 1) \cap Part("low"))
          ELSE OnTill(list, k + 1),
   bias |-> x.bias, expPw |-> x.expPw, expBias |-> x.expBias,
   is |-> IF r = 0 THEN OnIs(x, k)
          ELSE IF r \in {1, 2} THEN OnIs(x, k) \ {"aux"} ELSE OnIs(x, k) \cup {"aux"}]

\* The five steps of a module that is powered on.
IsFive(d, r, S, B) ==
  /\ r = 0 => d.do = "aux" /\ d.half = "low" /\ d.v = S \cap Part("low")
  /\ r = 1 => d.do = "aux" /\ d.half = "high" /\ d.v = S \cap Part("high")
  /\ r = 2 => d.do = "read_aux" /\ d.half = "low" /\ d.v = S \cap Part("low")
  /\ r = 3 => d.do = "read_aux" /\ d.half = "high" /\ d.v = S \cap Part("high")
  /\ r = 4 => d.do = "read_main" /\ d.v = B

LEMMA FiveSteps ==
  ASSUME NEW S, NEW B, NEW r \in 0 .. 4, NEW d, d = (SetPower(S) \o Status(S, B))[r + 1]
  PROVE  IsFive(d, r, S, B)
  <1> DEFINE a1 == Do("aux", "low", S \cap Part("low"))
             a2 == Do("aux", "high", S \cap Part("high"))
             b1 == Do("read_aux", "low", S \cap Part("low"))
             b2 == Do("read_aux", "high", S \cap Part("high"))
             b3 == Do("read_main", "low", B)
             a == <<a1, a2>>
             b == <<b1, b2, b3>>
             U == {a1, a2, b1, b2, b3}
  <1>1. d = (a \o b)[r + 1]
    BY DEF SetPower, Status
  <1> HIDE DEF a1, a2, b1, b2, b3
  <1>2. a \in Seq(U) /\ b \in Seq(U) /\ Len(a) = 2 /\ Len(b) = 3
    OBVIOUS
  <1>3. a[1] = a1 /\ a[2] = a2 /\ b[1] = b1 /\ b[2] = b2 /\ b[3] = b3
    OBVIOUS
  <1> HIDE DEF a, b, U
  <1>4. /\ \A i \in 1 .. Len(a) : (a \o b)[i] = a[i]
        /\ \A i \in 1 .. Len(b) : (a \o b)[Len(a) + i] = b[i]
    <2>1. a \in Seq(U) /\ b \in Seq(U)
      BY <1>2
    <2> QED BY <2>1
  <1>5. /\ 1 \in 1 .. Len(a) /\ 2 \in 1 .. Len(a) /\ 1 \in 1 .. Len(b) /\ 2 \in 1 .. Len(b) /\ 3 \in 1 .. Len(b)
        /\ Len(a) + 1 = 3 /\ Len(a) + 2 = 4 /\ Len(a) + 3 = 5
    BY <1>2
  <1>6. /\ (a \o b)[1] = a[1] /\ (a \o b)[2] = a[2] /\ (a \o b)[3] = b[1] /\ (a \o b)[4] = b[2] /\ (a \o b)[5] = b[3]
    BY <1>4, <1>5, Zenon
  <1>7. r \in {0, 1, 2, 3, 4}
    OBVIOUS
  <1>8. /\ a1.do = "aux" /\ a1.half = "low" /\ a1.v = S \cap Part("low")
        /\ a2.do = "aux" /\ a2.half = "high" /\ a2.v = S \cap Part("high")
        /\ b1.do = "read_aux" /\ b1.half = "low" /\ b1.v = S \cap Part("low")
        /\ b2.do = "read_aux" /\ b2.half = "high" /\ b2.v = S \cap Part("high")
        /\ b3.do = "read_main" /\ b3.v = B
    BY DEF a1, a2, b1, b2, b3, Do
  <1>9. r = 0 => d = a1
    <2>1. r = 0 => r + 1 = 1
      OBVIOUS
    <2> QED BY <1>1, <1>3, <1>6, <2>1, Zenon
  <1>10. r = 1 => d = a2
    <2>1. r = 1 => r + 1 = 2
      OBVIOUS
    <2> QED BY <1>1, <1>3, <1>6, <2>1, Zenon
  <1>11. r = 2 => d = b1
    <2>1. r = 2 => r + 1 = 3
      OBVIOUS
    <2> QED BY <1>1, <1>3, <1>6, <2>1, Zenon
  <1>12. r = 3 => d = b2
    <2>1. r = 3 => r + 1 = 4
      OBVIOUS
    <2> QED BY <1>1, <1>3, <1>6, <2>1, Zenon
  <1>13. r = 4 => d = b3
    <2>1. r = 4 => r + 1 = 5
      OBVIOUS
    <2> QED BY <1>1, <1>3, <1>6, <2>1, Zenon
  <1> QED BY <1>7, <1>8, <1>9, <1>10, <1>11, <1>12, <1>13, Zenon DEF IsFive

\* The steps of the list.
LEMMA OnStep ==
  ASSUME NEW list \in Seq(Module), NEW x \in Plan, NEW k \in 0 .. Len(list) - 1, NEW r \in 0 .. 4,
         NEW d, d = FiveOf(list, x.bias, k + 1)[r + 1], NEW T, T = OnTill(list, k + 1)
  PROVE  /\ T \subseteq Module /\ OnTill(list, k) \subseteq Module /\ k + 1 # 0
         /\ IsFive(d, r, T, x.bias) /\ r \in {0, 1, 2, 3, 4}
  <1>1. Len(list) \in Nat /\ \A i \in 1 .. Len(list) : list[i] \in Module
    OBVIOUS
  <1>2. T \subseteq Module /\ OnTill(list, k) \subseteq Module /\ k + 1 # 0
    BY <1>1 DEF OnTill
  <1>3. d = (SetPower(T) \o Status(T, x.bias))[r + 1]
    BY DEF FiveOf
  <1>4. IsFive(d, r, T, x.bias)
    BY <1>3, FiveSteps
  <1>5. r \in {0, 1, 2, 3, 4}
    OBVIOUS
  <1> QED BY <1>2, <1>4, <1>5

LEMMA OnPlanAllowed ==
  ASSUME NEW list \in Seq(Module), NEW x \in Plan, NEW k \in 0 .. Len(list) - 1, NEW r \in 0 .. 4,
         NEW smooth \in BOOLEAN, "tried" \in x.is, smooth => "armed" \notin x.is,
         NEW d, d = FiveOf(list, x.bias, k + 1)[r + 1], NEW y, y = OnPlan(list, x, k, r)
  PROVE  Allowed(d, y, smooth)
  <1> DEFINE T == OnTill(list, k + 1)
  <1>1. "tried" \in y.is /\ (smooth => "armed" \notin y.is) /\ y.bias = x.bias
    BY DEF OnPlan, OnIs
  <1>2. /\ r \in {0, 1, 2, 3, 4} /\ d.do \in {"aux", "read_aux", "read_main"}
        /\ d.do = "read_aux" => r \in {2, 3} /\ d.v = T \cap Part(d.half)
        /\ d.do = "read_main" => d.v = x.bias
    <2>1. IsFive(d, r, T, x.bias) /\ r \in {0, 1, 2, 3, 4}
      BY OnStep
    <2> HIDE DEF T
    <2> QED BY <2>1 DEF IsFive
  <1>3. r \in {2, 3} => y.pw = T
    BY DEF OnPlan
  <1> HIDE DEF T
  <1> QED BY <1>1, <1>2, <1>3 DEF Allowed, Fits, OnSteps

\* The plan one step on.
OnPlanNext(list, x, k, r) == IF r = 4 THEN OnPlan(list, x, k + 1, 0) ELSE OnPlan(list, x, k, r + 1)

LEMMA OnPlanAfter ==
  ASSUME NEW list \in Seq(Module), NEW x \in Plan, NEW k \in 0 .. Len(list) - 1, NEW r \in 0 .. 4,
         NEW d, d = FiveOf(list, x.bias, k + 1)[r + 1], NEW y, y = OnPlan(list, x, k, r)
  PROVE  After(d, y) = OnPlanNext(list, x, k, r)
  <1> DEFINE S == OnTill(list, k)
             T == OnTill(list, k + 1)
  <1>1. /\ T \subseteq Module /\ S \subseteq Module /\ k + 1 # 0
        /\ r = 0 => d.do = "aux" /\ d.half = "low" /\ d.v = T \cap Part("low")
        /\ r = 1 => d.do = "aux" /\ d.half = "high" /\ d.v = T \cap Part("high")
        /\ r = 2 => d.do = "read_aux"
        /\ r = 3 => d.do = "read_aux"
        /\ r = 4 => d.do = "read_main"
        /\ r \in {0, 1, 2, 3, 4}
    <2> HIDE DEF S, T
    <2>1. T = OnTill(list, k + 1) /\ S = OnTill(list, k)
      BY DEF S, T
    <2>2. /\ T \subseteq Module /\ S \subseteq Module /\ k + 1 # 0
          /\ IsFive(d, r, T, x.bias) /\ r \in {0, 1, 2, 3, 4}
      BY <2>1, OnStep
    <2> QED BY <2>2 DEF IsFive
  <1>2. Part("low") \cup Part("high") = Module /\ Part("low") \cap Part("high") = {}
    BY DEF Part, HalfOf
  <1>3. ASSUME NEW z, z.pw = After(d, y).pw, z.is = After(d, y).is,
               z = [pw |-> z.pw, bias |-> x.bias, expPw |-> x.expPw, expBias |-> x.expBias, is |-> z.is]
        PROVE  After(d, y) = z
    <2>1. /\ After(d, y).bias = x.bias /\ After(d, y).expPw = x.expPw /\ After(d, y).expBias = x.expBias
      BY <1>1 DEF After, OnPlan
    <2>2. After(d, y) = [pw |-> After(d, y).pw, bias |-> After(d, y).bias, expPw |-> After(d, y).expPw,
                         expBias |-> After(d, y).expBias, is |-> After(d, y).is]
      BY DEF After
    <2> QED BY <1>3, <2>1, <2>2
  <1>4. \A kk, rr : LET z == OnPlan(list, x, kk, rr)
                  IN  z = [pw |-> z.pw, bias |-> x.bias, expPw |-> x.expPw, expBias |-> x.expBias, is |-> z.is]
    BY DEF OnPlan
  <1> DEFINE z == IF r = 4 THEN OnPlan(list, x, k + 1, 0) ELSE OnPlan(list, x, k, r + 1)
  <1>5. z.pw = After(d, y).pw
    <2>1. CASE r = 0
      <3>1. After(d, y).pw = (S \ Part("low")) \cup (T \cap Part("low") \cap Part("low"))
        BY <1>1, <2>1 DEF After, OnPlan
      <3>2. z.pw = (S \ Part("low")) \cup (T \cap Part("low"))
        BY <2>1 DEF OnPlan
      <3> QED BY <3>1, <3>2
    <2>2. CASE r = 1
      <3>1. After(d, y).pw = (((S \ Part("low")) \cup (T \cap Part("low"))) \ Part("high"))
                              \cup (T \cap Part("high") \cap Part("high"))
        BY <1>1, <2>2 DEF After, OnPlan
      <3>2. z.pw = T
        BY <2>2 DEF OnPlan
      <3> QED BY <1>1, <1>2, <3>1, <3>2
    <2>3. CASE r \in {2, 3, 4}
      <3>1. After(d, y).pw = T
        BY <1>1, <2>3 DEF After, OnPlan
      <3>2. z.pw = T
        BY <2>3 DEF OnPlan
      <3> QED BY <3>1, <3>2
    <2> QED BY <1>1, <2>1, <2>2, <2>3
  <1>6. z.is = After(d, y).is
    <2>1. CASE r \in {0, 1}
      <3>1. After(d, y).is = OnIs(x, k) \ {"aux"}
        BY <1>1, <2>1 DEF After, OnPlan
      <3>2. z.is = OnIs(x, k) \ {"aux"}
        BY <2>1 DEF OnPlan
      <3> QED BY <3>1, <3>2
    <2>2. CASE r \in {2, 3}
      <3>1. After(d, y).is = OnIs(x, k) \cup {"aux"}
        BY <1>1, <2>2 DEF After, OnPlan
      <3>2. z.is = OnIs(x, k) \cup {"aux"}
        BY <2>2 DEF OnPlan
      <3> QED BY <3>1, <3>2
    <2>3. CASE r = 4
      <3>1. After(d, y).is = (OnIs(x, k) \cup {"aux"}) \cup {"main"}
        BY <1>1, <2>3 DEF After, OnPlan
      <3>2. z.is = x.is \cup {"aux", "main"}
        BY <1>1, <2>3 DEF OnPlan, OnIs
      <3> QED BY <3>1, <3>2 DEF OnIs
    <2> QED BY <1>1, <2>1, <2>2, <2>3
  <1>7. z = [pw |-> z.pw, bias |-> x.bias, expPw |-> x.expPw, expBias |-> x.expBias, is |-> z.is]
    BY <1>4
  <1> HIDE DEF z
  <1>8. After(d, y) = z
    BY <1>3, <1>5, <1>6, <1>7
  <1> QED BY <1>8 DEF z, OnPlanNext

LEMMA ModulesLead ==
  ASSUME NEW list \in Seq(Module), list # <<>>, NEW x \in Plan, NEW smooth \in BOOLEAN,
         x.pw = {}, "tried" \in x.is, smooth => "armed" \notin x.is
  PROVE  LET y == OnPlan(list, x, Len(list), 0)
             p == ModulesOf(list, x.bias)
         IN  /\ y \in Plan /\ y.pw = Range(list) /\ y.bias = x.bias /\ y.is = x.is \cup {"aux", "main"}
             /\ p \in Seq(Step) /\ Leads(p, x, y, smooth)
  <1> DEFINE n == Len(list)
             p == ModulesOf(list, x.bias)
             e == [i \in 1 .. Len(p) + 1 |-> OnPlan(list, x, (i - 1) \div 5, (i - 1) % 5)]
             y == OnPlan(list, x, n, 0)
  <1>1. n \in Nat /\ n # 0 /\ \A i \in 1 .. n : list[i] \in Module
    OBVIOUS
  <1>2. \A k \in 0 .. n : OnTill(list, k) \in SUBSET Module
    BY <1>1 DEF OnTill
  <1>3. x.bias \in SUBSET Channel /\ x.is \subseteq Flag
    BY DEF Plan
  <1>4. \A k \in 0 .. n - 1, r \in 0 .. 4 : FiveOf(list, x.bias, k + 1)[r + 1] \in Step
    <2> TAKE k \in 0 .. n - 1, r \in 0 .. 4
    <2>1. k + 1 \in 0 .. n /\ r + 1 \in 1 .. 5
      BY <1>1
    <2>2. \A s \in 1 .. 5 : FiveOf(list, x.bias, k + 1)[s] \in Step
      BY <1>2, <1>3, <2>1, FiveType
    <2> QED BY <2>1, <2>2
  <1>5. ASSUME NEW i \in 1 .. 5 * n
        PROVE  /\ (i - 1) \div 5 \in 0 .. n - 1 /\ (i - 1) % 5 \in 0 .. 4
               /\ (i - 1) % 5 # 4 => i \div 5 = (i - 1) \div 5 /\ i % 5 = ((i - 1) % 5) + 1
               /\ (i - 1) % 5 = 4 => i \div 5 = ((i - 1) \div 5) + 1 /\ i % 5 = 0
    BY <1>1
  <1>6. p \in Seq(Step) /\ Len(p) = 5 * n
    <2>1. \A i \in 1 .. 5 * n : FiveOf(list, x.bias, ((i - 1) \div 5) + 1)[((i - 1) % 5) + 1] \in Step
      BY <1>4, <1>5
    <2>2. 5 * n \in Nat
      BY <1>1
    <2> QED BY <2>1, <2>2 DEF ModulesOf
  <1>7. \A i \in 1 .. 5 * n : p[i] = FiveOf(list, x.bias, ((i - 1) \div 5) + 1)[((i - 1) % 5) + 1]
    BY DEF ModulesOf
  <1> HIDE DEF p
  <1>8. \A k \in 0 .. n, r \in 0 .. 4 : k < n \/ r = 0 => OnPlan(list, x, k, r) \in Plan
    <2> TAKE k \in 0 .. n, r \in 0 .. 4
    <2> HAVE k < n \/ r = 0
    <2>1. OnTill(list, k) \subseteq Module /\ (r # 0 => OnTill(list, k + 1) \subseteq Module)
      <3>1. r # 0 => k + 1 \in 0 .. n
        BY <1>1
      <3> QED BY <1>2, <3>1
    <2>2. OnPlan(list, x, k, r).pw \subseteq Module
      BY <2>1 DEF OnPlan
    <2>3. OnPlan(list, x, k, r).is \subseteq Flag
      BY <1>3 DEF OnPlan, OnIs, Flag
    <2> QED BY <2>2, <2>3 DEF OnPlan, Plan
  <1>9. e \in [1 .. Len(p) + 1 -> Plan]
    <2>1. ASSUME NEW i \in 1 .. 5 * n + 1
          PROVE  /\ (i - 1) \div 5 \in 0 .. n /\ (i - 1) % 5 \in 0 .. 4
                 /\ (i - 1) \div 5 < n \/ (i - 1) % 5 = 0
      BY <1>1
    <2> QED BY <1>6, <1>8, <2>1
  <1>10. /\ e[1] = OnPlan(list, x, 0, 0) /\ e[Len(p) + 1] = y
    <2>1. 1 \in 1 .. Len(p) + 1 /\ Len(p) + 1 \in 1 .. Len(p) + 1
      BY <1>1, <1>6
    <2>2. /\ (1 - 1) \div 5 = 0 /\ (1 - 1) % 5 = 0
          /\ ((Len(p) + 1) - 1) \div 5 = n /\ ((Len(p) + 1) - 1) % 5 = 0
      BY <1>1, <1>6
    <2> QED BY <2>1, <2>2
  <1>11. OnPlan(list, x, 0, 0) = x
    <2>1. OnTill(list, 0) = {}
      BY DEF OnTill
    <2> QED BY <2>1 DEF OnPlan, OnIs, Plan
  <1>12. \A i \in 1 .. Len(p) + 1 : e[i] = OnPlan(list, x, (i - 1) \div 5, (i - 1) % 5)
    OBVIOUS
  <1> HIDE DEF e
  <1>13. ASSUME NEW i \in 1 .. Len(p)
         PROVE  Allowed(p[i], e[i], smooth) /\ e[i + 1] = After(p[i], e[i])
    <2> DEFINE k == (i - 1) \div 5
               r == (i - 1) % 5
    <2>1. i \in 1 .. 5 * n /\ k \in 0 .. n - 1 /\ r \in 0 .. 4 /\ i \in 1 .. Len(p) + 1 /\ i + 1 \in 1 .. Len(p) + 1
      BY <1>1, <1>5, <1>6
    <2>2. p[i] = FiveOf(list, x.bias, k + 1)[r + 1] /\ e[i] = OnPlan(list, x, k, r)
      BY <1>7, <1>12, <2>1
    <2>3. e[i + 1] = OnPlan(list, x, i \div 5, i % 5)
      <3>1. (i + 1) - 1 = i
        BY <2>1
      <3> QED BY <1>12, <2>1, <3>1
    <2>4. e[i + 1] = IF r = 4 THEN OnPlan(list, x, k + 1, 0) ELSE OnPlan(list, x, k, r + 1)
      BY <1>5, <2>1, <2>3
    <2> HIDE DEF k, r
    <2>5. Allowed(p[i], e[i], smooth)
      BY <2>1, <2>2, OnPlanAllowed
    <2>6. After(p[i], e[i]) = OnPlanNext(list, x, k, r)
      <3>1. list \in Seq(Module) /\ x \in Plan /\ k \in 0 .. Len(list) - 1 /\ r \in 0 .. 4
        BY <2>1
      <3>2. After(FiveOf(list, x.bias, k + 1)[r + 1], OnPlan(list, x, k, r)) = OnPlanNext(list, x, k, r)
        BY <3>1, OnPlanAfter
      <3> QED BY <2>2, <3>2
    <2> QED BY <2>4, <2>5, <2>6 DEF OnPlanNext
  <1>14. Along(p, e, x, y, smooth)
    BY <1>9, <1>10, <1>11, <1>13 DEF Along
  <1>15. y \in Plan /\ y.pw = Range(list) /\ y.bias = x.bias /\ y.is = x.is \cup {"aux", "main"}
    <2>1. y \in Plan
      BY <1>1, <1>8
    <2>2. OnTill(list, n) = Range(list)
      BY DEF OnTill, Range
    <2> QED BY <1>1, <2>1, <2>2 DEF OnPlan, OnIs
  <1> QED BY <1>6, <1>14, <1>15 DEF p, Leads


\* What power_on_modules does before the modules, and after them.
LEMMA StartLeads ==
  ASSUME NEW x \in Plan, Clears(x), NEW smooth \in BOOLEAN, smooth => "armed" \notin x.is
  PROVE  LET p == <<Do("armed", "low", {}), Do("fired", "low", {}), Do("try", "low", {})>>
         IN  p \in Seq(Step) /\ \E y \in Plan : /\ y.pw = x.pw /\ y.bias = x.bias /\ y.is = x.is \cup {"tried"}
                                                /\ Leads(p, x, y, smooth)
  <1> DEFINE a == Do("armed", "low", {})
             b == Do("fired", "low", {})
             c == Do("try", "low", {})
             x1 == After(a, x)
             x2 == After(b, x1)
             y == After(c, x2)
  <1>1. a \in Step /\ b \in Step /\ c \in Step
    BY DoType
  <1>2. a.do = "armed" /\ b.do = "fired" /\ c.do = "try"
    BY DEF Do
  <1> HIDE DEF a, b, c
  <1>3. /\ x1.pw = x.pw /\ x1.bias = x.bias /\ x1.is = x.is
        /\ x2.pw = x.pw /\ x2.bias = x.bias /\ x2.is = x.is
        /\ y.pw = x.pw /\ y.bias = x.bias /\ y.is = x.is \cup {"tried"}
    BY <1>2 DEF After
  <1>4. x1 \in Plan /\ x2 \in Plan /\ y \in Plan
    BY <1>1, AfterType
  <1>5. Allowed(a, x, smooth) /\ Allowed(b, x1, smooth) /\ Allowed(c, x2, smooth)
    <2> HIDE DEF x1, x2, y
    <2> QED BY <1>2, <1>3 DEF Allowed, Fits, OnSteps, Clears, Raising
  <1>6. <<a, b, c>> \in Seq(Step) /\ Leads(<<a, b, c>>, x, y, smooth)
    BY <1>1, <1>4, <1>5, LeadsThree
  <1> HIDE DEF y
  <1> QED BY <1>3, <1>4, <1>6 DEF a, b, c

BackbiasOf(B) == <<Do("main", "low", B)>> \o Status({}, B)
Reaches(p, x, S, B, flags, smooth) ==
  \E y \in Plan : y.pw = S /\ y.bias = B /\ y.is = flags /\ Leads(p, x, y, smooth)

LEMMA BackbiasLeads ==
  ASSUME NEW B \in SUBSET Channel, NEW x \in Plan, x.pw = {}, "tried" \in x.is,
         NEW smooth \in BOOLEAN, smooth => "armed" \notin x.is
  PROVE  /\ BackbiasOf(B) \in Seq(Step)
         /\ Reaches(BackbiasOf(B), x, {}, B, x.is \cup {"aux", "main"}, smooth)
  <1> DEFINE a == Do("main", "low", B)
             x1 == After(a, x)
             y == [x1 EXCEPT !.is = x1.is \cup {"aux", "main"}]
  <1>1. a \in Step /\ a.do = "main" /\ a.v = B
    <2>1. a \in Step
      BY DoType
    <2> QED BY <2>1 DEF Do
  <1> HIDE DEF a
  <1>2. x1.pw = {} /\ x1.bias = B /\ x1.is = x.is \ {"main"}
    BY <1>1 DEF After
  <1>3. Allowed(a, x, smooth)
    BY <1>1 DEF Allowed, Fits, OnSteps
  <1>4. x1 \in Plan /\ Leads(<<a>>, x, x1, smooth)
    BY <1>1, <1>3, LeadsOne
  <1> HIDE DEF x1
  <1>5. Status({}, B) \in Seq(Step) /\ y \in Plan /\ Leads(Status({}, B), x1, y, smooth)
    <2>1. {} \in SUBSET Module /\ "tried" \in x1.is /\ x1.pw = {} /\ x1.bias = B
      BY <1>2
    <2>2. y \in Plan /\ Leads(Status({}, B), x1, y, smooth)
      BY <1>4, <2>1, StatusLeads
    <2>3. Status({}, B) \in Seq(Step)
      BY <2>1, StatusType
    <2> QED BY <2>2, <2>3
  <1>6. y.pw = {} /\ y.bias = B /\ y.is = x.is \cup {"aux", "main"}
    BY <1>2, <1>4 DEF Plan
  <1> HIDE DEF y
  <1>7. <<a>> \in Seq(Step)
    BY <1>1
  <1>8. <<a>> \o Status({}, B) \in Seq(Step) /\ Leads(<<a>> \o Status({}, B), x, y, smooth)
    BY <1>4, <1>5, <1>7, LeadsJoin
  <1> QED BY <1>5, <1>6, <1>8 DEF a, BackbiasOf, Reaches

LEMMA CheckLeads ==
  ASSUME NEW what \in {"check", "fired"}, NEW x \in Plan, "tried" \in x.is, NEW smooth \in BOOLEAN
  PROVE  LET p == <<Do(what, "low", {})>>
         IN  p \in Seq(Step) /\ \E y \in Plan : /\ y.pw = x.pw /\ y.bias = x.bias /\ y.is = x.is
                                                /\ Leads(p, x, y, smooth)
  <1> DEFINE a == Do(what, "low", {})
             y == After(a, x)
  <1>1. a \in Step /\ a.do = what
    <2>1. a \in Step
      BY DoType
    <2> QED BY <2>1 DEF Do
  <1> HIDE DEF a
  <1>2. y.pw = x.pw /\ y.bias = x.bias /\ y.is = x.is
    BY <1>1 DEF After
  <1>3. Allowed(a, x, smooth)
    BY <1>1 DEF Allowed, Fits, OnSteps, Watching
  <1>4. y \in Plan /\ Leads(<<a>>, x, y, smooth)
    BY <1>1, <1>3, LeadsOne
  <1> HIDE DEF y
  <1> QED BY <1>1, <1>2, <1>4 DEF a

\* power_on_modules runs as planned when it starts with everything off.
LEMMA PowerOnCourse ==
  ASSUME NEW list \in Lists, NEW back \in Bias, NEW x \in Plan, x.pw = {}, x.bias = {},
         NEW smooth \in BOOLEAN, smooth => "armed" \notin x.is
  PROVE  Course(PowerOn(list, back), x, smooth)
  <1> DEFINE B == IF back THEN Range(list) \cap Channel ELSE {}
             R == Range(list)
             start == <<Do("armed", "low", {}), Do("fired", "low", {}), Do("try", "low", {})>>
             first == IF back THEN BackbiasOf(B) ELSE <<>>
             modules == ModulesOf(list, B)
             check == <<Do("check", "low", {})>>
             look == <<Do("fired", "low", {})>>
             arm == Arm(R, B)
             last == Status(R, B)
  <1>1. list \in Seq(Module) /\ list # <<>> /\ back \in BOOLEAN
    BY CallsKnown
  <1>2. B \in SUBSET Channel /\ R \in SUBSET Module
    BY <1>1 DEF Range
  <1>3. PowerOn(list, back) = start \o first \o modules \o check \o arm \o look \o last \o check
    BY DEF PowerOn, BackbiasOf, ModulesOf, FiveOf, OnTill
  <1>4. start \in Seq(Step) /\ first \in Seq(Step) /\ check \in Seq(Step) /\ look \in Seq(Step)
        /\ arm \in Seq(Step) /\ last \in Seq(Step)
    <2>1. start \in Seq(Step) /\ check \in Seq(Step) /\ look \in Seq(Step)
      BY DoType
    <2>2. last \in Seq(Step) /\ arm \in Seq(Step)
      BY <1>2, StatusType, ArmType
    <2>3. first \in Seq(Step)
      <3>1. <<Do("main", "low", B)>> \in Seq(Step) /\ Status({}, B) \in Seq(Step)
        BY <1>2, DoType, StatusType
      <3> HIDE DEF B
      <3> QED BY <3>1 DEF BackbiasOf
    <2> QED BY <2>1, <2>2, <2>3
  <1>5. PICK x1 \in Plan : /\ x1.pw = {} /\ x1.bias = {} /\ x1.is = x.is \cup {"tried"}
                           /\ Leads(start, x, x1, smooth)
    BY StartLeads DEF Clears
  <1>6. PICK x2 \in Plan : /\ x2.pw = {} /\ x2.bias = B /\ "tried" \in x2.is /\ (smooth => "armed" \notin x2.is)
                           /\ Leads(first, x1, x2, smooth)
    <2>1. CASE back
      <3>1. "tried" \in x1.is /\ (smooth => "armed" \notin x1.is) /\ x1.pw = {} /\ B \in SUBSET Channel
        BY <1>2, <1>5
      <3> HIDE DEF B, R, start, first, modules, check, look, arm, last
      <3>2. Reaches(BackbiasOf(B), x1, {}, B, x1.is \cup {"aux", "main"}, smooth)
        BY <3>1, BackbiasLeads
      <3>3. first = BackbiasOf(B)
        BY <2>1 DEF first
      <3> QED BY <3>1, <3>2, <3>3 DEF Reaches
    <2>2. CASE ~back
      <3>1. first = <<>> /\ B = {}
        BY <2>2
      <3> HIDE DEF first, B
      <3> QED BY <1>5, <3>1, LeadsNone
    <2> QED BY <1>1, <2>1, <2>2
  <1> HIDE DEF B, R, start, first, check, look, arm, last
  <1>7. PICK x3 \in Plan : /\ modules \in Seq(Step) /\ x3.pw = R /\ x3.bias = B
                           /\ x3.is = x2.is \cup {"aux", "main"} /\ Leads(modules, x2, x3, smooth)
    BY <1>1, <1>6, ModulesLead DEF R
  <1>8. PICK x4 \in Plan : /\ x4.pw = x3.pw /\ x4.bias = x3.bias /\ x4.is = x3.is /\ Leads(check, x3, x4, smooth)
    <2>1. "tried" \in x3.is
      BY <1>6, <1>7
    <2> QED BY <2>1, CheckLeads DEF check
  <1>9. PICK x5 \in Plan : /\ x5.pw = R /\ x5.bias = B /\ x5.is = x4.is \cup {"armed"}
                           /\ Leads(arm, x4, x5, smooth)
    <2> DEFINE y == [x4 EXCEPT !.expPw = R, !.expBias = B, !.is = x4.is \cup {"armed"}]
    <2>1. x4.pw = R /\ x4.bias = B /\ {"aux", "main"} \subseteq x4.is /\ (smooth => "armed" \notin x4.is)
      BY <1>6, <1>7, <1>8
    <2>2. y \in Plan /\ Leads(arm, x4, y, smooth)
      BY <1>2, <2>1, ArmLeads DEF arm
    <2>3. y.pw = R /\ y.bias = B /\ y.is = x4.is \cup {"armed"}
      BY <2>1 DEF Plan
    <2> HIDE DEF y
    <2> QED BY <2>2, <2>3
  <1>10. PICK x6 \in Plan : /\ x6.pw = x5.pw /\ x6.bias = x5.bias /\ x6.is = x5.is /\ Leads(look, x5, x6, smooth)
    <2>1. "tried" \in x5.is
      BY <1>6, <1>7, <1>8, <1>9
    <2> QED BY <2>1, CheckLeads DEF look
  <1>11. PICK x7 \in Plan : /\ x7.pw = R /\ x7.bias = B /\ x7.is = x6.is \cup {"aux", "main"}
                            /\ Leads(last, x6, x7, smooth)
    <2> DEFINE y == [x6 EXCEPT !.is = x6.is \cup {"aux", "main"}]
    <2>1. "tried" \in x6.is /\ x6.pw = R /\ x6.bias = B
      BY <1>6, <1>7, <1>8, <1>9, <1>10
    <2>2. y \in Plan /\ Leads(last, x6, y, smooth)
      BY <1>2, <2>1, StatusLeads DEF last
    <2>3. y.pw = R /\ y.bias = B /\ y.is = x6.is \cup {"aux", "main"}
      BY <2>1 DEF Plan
    <2> HIDE DEF y
    <2> QED BY <2>2, <2>3
  <1>12. PICK x8 \in Plan : /\ x8.is = x7.is /\ Leads(check, x7, x8, smooth)
    <2>1. "tried" \in x7.is
      BY <1>6, <1>7, <1>8, <1>9, <1>10, <1>11
    <2> QED BY <2>1, CheckLeads DEF check
  <1> HIDE DEF modules
  <1>13. start \o first \in Seq(Step) /\ Leads(start \o first, x, x2, smooth)
    BY <1>4, <1>5, <1>6, LeadsJoin
  <1> DEFINE p3 == start \o first \o modules
             p4 == p3 \o check
             p5 == p4 \o arm
             p6 == p5 \o look
             p7 == p6 \o last
  <1>14. p3 \in Seq(Step) /\ Leads(p3, x, x3, smooth)
    BY <1>7, <1>13, LeadsJoin
  <1> HIDE DEF p3
  <1>15. p4 \in Seq(Step) /\ Leads(p4, x, x4, smooth)
    BY <1>4, <1>8, <1>14, LeadsJoin
  <1> HIDE DEF p4
  <1>16. p5 \in Seq(Step) /\ Leads(p5, x, x5, smooth)
    BY <1>4, <1>9, <1>15, LeadsJoin
  <1> HIDE DEF p5
  <1>17. p6 \in Seq(Step) /\ Leads(p6, x, x6, smooth)
    BY <1>4, <1>10, <1>16, LeadsJoin
  <1> HIDE DEF p6
  <1>18. p7 \in Seq(Step) /\ Leads(p7, x, x7, smooth)
    BY <1>4, <1>11, <1>17, LeadsJoin
  <1> HIDE DEF p7
  <1>19. Leads(p7 \o check, x, x8, smooth)
    BY <1>4, <1>12, <1>18, LeadsJoin
  <1>20. Clears(x8)
    BY <1>11, <1>12 DEF Clears
  <1>21. PowerOn(list, back) = p7 \o check
    BY <1>3 DEF p3, p4, p5, p6, p7
  <1> QED BY <1>19, <1>20, <1>21 DEF Course

-----------------------------------------------------------------------------
(***************************************************************************)
(* The read of software passes through the machines.                       *)
(***************************************************************************)
\* A machine that carries a read carries it out.
LEMMA ReadingServed ==
  ASSUME TypeInv, AskedInv
  PROVE  (Reading(main.rq) => main.at = "WB") /\ (Reading(aux.rq) => aux.at = "WB")
  <1>1. Reading(main.rq) \/ Reading(aux.rq) => asked
    BY DEF TypeInv, ReadsInv
  <1> QED BY <1>1 DEF AskedInv, Answers, Silent

LEMMA MainMoves ==
  ASSUME TypeInv, AskedInv, MainStep
  PROVE  \/ Serves(main, reqMain, main', reqMain') /\ UNCHANGED <<bias, reply, nok, prev, biasL, valid>>
         \/ Finishes(main, reqMain, main', reqMain') /\ MainWb
         \/ /\ Rests(main, reqMain, main', reqMain') /\ UNCHANGED reply
            /\ main.at # "OFF" => UNCHANGED bias
  <1>1. \A rq \in MainRequest : rq.op = "wr" => ~Reading(rq)
    BY DEF Reading
  <1>2. CASE MainIdle
    <2>1. CASE /\ MayServe(reqMain, cntMain)
               /\ main' = [at |-> "WB", rq |-> Head(reqMain)] /\ reqMain' = Tail(reqMain)
      BY <1>2, <2>1 DEF MainIdle, MayServe, Serves, unit, seen
    <2>2. CASE Enter(TempAfter(0)) /\ UNCHANGED reqMain
      <3>1. TempAfter(0) \in Sensor \cup {"BIAS"} /\ TempAfter(0) # "WB"
        BY TempIsSensor, PartsKnown DEF TypeInv
      <3>2. main' = Goto(TempAfter(0)) /\ main.at = "IDLE" /\ UNCHANGED <<bias, reply>>
        BY <1>2, <2>2 DEF Enter, MainIdle, unit
      <3> QED BY <2>2, <3>1, <3>2, GotoType DEF Rests
    <2>3. CASE UNCHANGED <<main, reqMain>>
      <3>1. main.at = "IDLE" /\ UNCHANGED <<bias, reply>>
        BY <1>2 DEF MainIdle, unit
      <3> QED BY <2>3, <3>1, ReadingServed DEF Rests
    <2> QED BY <1>2, <2>1, <2>2, <2>3 DEF MainIdle
  <1>3. CASE MainWb
    BY <1>3 DEF MainWb, Finishes
  <1>4. CASE MainTemp
    <2>1. PICK k \in 1 .. 3 : main.at = Order[k] /\ Enter(TempAfter(k)) /\ UNCHANGED <<bias, reqMain, reply>>
      BY <1>4 DEF MainTemp, unit
    <2>2. main.at # "WB" /\ main.at # "OFF"
      BY <2>1 DEF Order
    <2>3. TempAfter(k) \in Sensor \cup {"BIAS"} /\ TempAfter(k) # "WB"
      BY TempIsSensor, PartsKnown DEF TypeInv
    <2>4. main' = Goto(TempAfter(k))
      BY <2>1 DEF Enter
    <2> QED BY <2>1, <2>2, <2>3, <2>4, GotoType DEF Rests
  <1>5. CASE MainCompare
    <2>1. main.at = "BIAS" /\ UNCHANGED <<bias, reqMain, reply>>
      BY <1>5 DEF MainCompare, unit
    <2>2. main'.at # "WB" /\ ~Reading(main'.rq)
      BY <1>5, GotoType DEF MainCompare, Reading
    <2> QED BY <2>1, <2>2 DEF Rests
  <1>6. CASE MainOff
    <2>1. main.at = "OFF" /\ main' = Goto("IDLE") /\ UNCHANGED <<reqMain, reply>>
      BY <1>6 DEF MainOff
    <2> QED BY <2>1, GotoType DEF Rests
  <1> QED BY <1>2, <1>3, <1>4, <1>5, <1>6 DEF MainStep

LEMMA AuxMoves ==
  ASSUME TypeInv, AskedInv, AuxStep
  PROVE  \/ Serves(aux, reqAux, aux', reqAux') /\ UNCHANGED <<pw, reply, enL, valid>>
         \/ Finishes(aux, reqAux, aux', reqAux') /\ AuxWb
         \/ /\ Rests(aux, reqAux, aux', reqAux') /\ UNCHANGED reply
            /\ aux.at \notin {"OFF_low", "OFF_high"} => UNCHANGED pw
  <1>1. \A half \in Half : TurnOff(half).at # "WB" /\ ~Reading(TurnOff(half).rq)
    BY DEF TurnOff, Reading
  <1>2. CASE AuxIdle
    <2>1. CASE /\ MayServe(reqAux, cntAux)
               /\ aux' = [at |-> "WB", rq |-> Head(reqAux)] /\ reqAux' = Tail(reqAux)
      BY <1>2, <2>1 DEF AuxIdle, MayServe, Serves, unit, seen
    <2>2. CASE UNCHANGED reqAux /\ (aux' = TurnOff("low") \/ aux' = TurnOff("high") \/ aux' = Goto("READ"))
      <3>1. aux.at = "IDLE" /\ UNCHANGED <<pw, reply>>
        BY <1>2 DEF AuxIdle, unit
      <3>2. aux'.at # "WB" /\ ~Reading(aux'.rq)
        BY <1>1, <2>2, GotoType DEF Half
      <3> QED BY <2>2, <3>1, <3>2 DEF Rests
    <2>3. CASE UNCHANGED <<aux, reqAux>>
      <3>1. aux.at = "IDLE" /\ UNCHANGED <<pw, reply>>
        BY <1>2 DEF AuxIdle, unit
      <3> QED BY <2>3, <3>1, ReadingServed DEF Rests
    <2> QED BY <1>2, <2>1, <2>2, <2>3 DEF AuxIdle
  <1>3. CASE AuxWb
    BY <1>3 DEF AuxWb, Finishes
  <1>4. CASE AuxOff
    <2>1. /\ aux.at \in {"OFF_low", "OFF_high"} /\ UNCHANGED <<reqAux, reply>>
          /\ aux' = TurnOff("high") \/ aux' = Goto("READ") \/ aux' = Goto("IDLE")
      BY <1>4 DEF AuxOff
    <2>2. aux'.at # "WB" /\ ~Reading(aux'.rq)
      BY <1>1, <2>1, GotoType DEF Half
    <2> QED BY <2>1, <2>2 DEF Rests
  <1>5. CASE AuxRead
    <2>1. aux.at = "READ" /\ aux' = Goto("IDLE") /\ UNCHANGED <<pw, reqAux, reply>>
      BY <1>5 DEF AuxRead, unit
    <2> QED BY <2>1, GotoType DEF Rests
  <1> QED BY <1>2, <1>3, <1>4, <1>5 DEF AuxStep

LEMMA MainAsked ==
  ASSUME TypeInv, AskedInv, MainStep, UNCHANGED swVars
  PROVE  AskedInv'
  <1>1. UNCHANGED <<prog, asked, aux, reqAux>>
    BY DEF MainStep, MainIdle, MainWb, MainTemp, MainCompare, MainOff, auxFsm, swVars
  <1> SUFFICES ASSUME asked PROVE AskedInv'
    BY <1>1 DEF AskedInv
  <1> DEFINE was == reply # <<>>
             is == reply' # <<>>
  <1>2. was \in BOOLEAN /\ is \in BOOLEAN
    OBVIOUS
  <1>3. reqMain \in Seq(MainRequest) /\ OneRead(reqMain)
    BY DEF TypeInv, MainInv, ReadsInv
  <1>4. /\ \A half : Answers(main, reqMain, half, was) => Answers(main', reqMain', half, is)
        /\ Silent(main, reqMain) => Silent(main', reqMain') /\ is = was
    <2>1. CASE Serves(main, reqMain, main', reqMain') /\ UNCHANGED reply
      <3>1. is = was
        BY <2>1
      <3> HIDE DEF is, was
      <3> QED BY <1>2, <1>3, <2>1, <3>1, ServeAnswers
    <2>2. CASE Finishes(main, reqMain, main', reqMain') /\ MainWb
      <3>1. (~Reading(main.rq) => reply' = reply) /\ (Reading(main.rq) => is)
        BY <2>2, AnswerType DEF MainWb, TypeInv, UnitInv
      <3>2. is => was \/ Reading(main.rq)
        BY <3>1
      <3>3. Silent(main, reqMain) => is = was
        BY <3>1 DEF Silent
      <3> HIDE DEF is, was
      <3> QED BY <1>2, <2>2, <3>2, <3>3, FinishAnswers
    <2>3. CASE Rests(main, reqMain, main', reqMain') /\ UNCHANGED reply
      <3>1. is = was
        BY <2>3
      <3> HIDE DEF is, was
      <3> QED BY <1>2, <2>3, <3>1, RestAnswers
    <2> QED BY <2>1, <2>2, <2>3, MainMoves
  <1> QED BY <1>1, <1>4 DEF AskedInv

LEMMA AuxAsked ==
  ASSUME TypeInv, AskedInv, AuxStep, UNCHANGED swVars
  PROVE  AskedInv'
  <1>1. UNCHANGED <<prog, asked, main, reqMain>>
    BY DEF AuxStep, AuxIdle, AuxWb, AuxOff, AuxRead, mainFsm, swVars
  <1> SUFFICES ASSUME asked PROVE AskedInv'
    BY <1>1 DEF AskedInv
  <1> DEFINE was == reply # <<>>
             is == reply' # <<>>
  <1>2. was \in BOOLEAN /\ is \in BOOLEAN
    OBVIOUS
  <1>3. reqAux \in Seq(AuxRequest) /\ OneRead(reqAux)
    BY DEF TypeInv, AuxInv, ReadsInv
  <1>4. /\ \A half : Answers(aux, reqAux, half, was) => Answers(aux', reqAux', half, is)
        /\ Silent(aux, reqAux) => Silent(aux', reqAux') /\ is = was
    <2>1. CASE Serves(aux, reqAux, aux', reqAux') /\ UNCHANGED reply
      <3>1. is = was
        BY <2>1
      <3> HIDE DEF is, was
      <3> QED BY <1>2, <1>3, <2>1, <3>1, ServeAnswers
    <2>2. CASE Finishes(aux, reqAux, aux', reqAux') /\ AuxWb
      <3>1. (~Reading(aux.rq) => reply' = reply) /\ (Reading(aux.rq) => is)
        <4>1. pw \cap Part(aux.rq.half) \in SUBSET (Module \cup Channel)
          BY DEF TypeInv, UnitInv
        <4> QED BY <2>2, <4>1, AnswerType DEF AuxWb, TypeInv
      <3>2. is => was \/ Reading(aux.rq)
        BY <3>1
      <3>3. Silent(aux, reqAux) => is = was
        BY <3>1 DEF Silent
      <3> HIDE DEF is, was
      <3> QED BY <1>2, <2>2, <3>2, <3>3, FinishAnswers
    <2>3. CASE Rests(aux, reqAux, aux', reqAux') /\ UNCHANGED reply
      <3>1. is = was
        BY <2>3
      <3> HIDE DEF is, was
      <3> QED BY <1>2, <2>3, <3>1, RestAnswers
    <2> QED BY <2>1, <2>2, <2>3, AuxMoves
  <1> QED BY <1>1, <1>4 DEF AskedInv

-----------------------------------------------------------------------------
(***************************************************************************)
(* Without a fault nothing is hot, and the interlock that reads back what  *)
(* it expects turns nothing off.                                           *)
(***************************************************************************)
LEMMA NoFault ==
  ASSUME TypeInv, faults' = 0
  PROVE  ~Fault
  BY PartsKnown DEF Fault, TypeInv, FlagInv

\* Faults are counted, and never forgotten.
LEMMA FaultsKept ==
  ASSUME TypeInv, Next \/ UNCHANGED vars, faults' = 0
  PROVE  faults = 0
  <1>1. CASE Firmware
    <2>1. CASE MainStep
      BY <2>1, NoFault DEF MainStep, MainIdle, MainWb, MainTemp, MainCompare, MainOff, Answer, Clean
    <2>2. CASE AuxStep
      BY <2>2, NoFault DEF AuxStep, AuxIdle, AuxWb, AuxOff, AuxRead, Answer, Clean
    <2> QED BY <1>1, <2>1, <2>2 DEF Firmware
  <1>2. CASE World
    BY <1>2, NoFault DEF World, ChannelTrips, Heats, Cools
  <1>3. CASE Software
    BY <1>3, NoFault DEF Software, SwRegister, SwSend, SwReply, Clean
  <1>4. CASE Calls
    BY <1>4 DEF Calls, CallPowerOn, CallPowerOff, CallPrepare, Begin
  <1>5. CASE Poll
    BY <1>5 DEF Poll
  <1>6. CASE UNCHANGED vars
    BY <1>6 DEF vars, fwVars
  <1> QED BY <1>1, <1>2, <1>3, <1>4, <1>5, <1>6 DEF Next

LEMMA CoolNext ==
  ASSUME TypeInv, CoolInv, Next \/ UNCHANGED vars
  PROVE  CoolInv'
  <1> SUFFICES ASSUME faults' = 0 PROVE hot' = {} /\ nok' = {} /\ prev' = {}
    BY DEF CoolInv
  <1>1. hot = {} /\ nok = {} /\ prev = {} /\ ~Fault
    BY FaultsKept, NoFault DEF CoolInv
  <1>2. CASE Firmware
    <2>1. CASE MainTemp
      <3>1. /\ \/ \E k \in 1 .. 3 : /\ prev' = (prev \ {Order[k]}) \cup (nok \cap {Order[k]})
                                    /\ nok' = (nok \ {Order[k]}) \cup (hot \cap {Order[k]})
               \/ UNCHANGED <<nok, prev>>
            /\ UNCHANGED hot
        BY <1>1, <2>1 DEF MainTemp, unit
      <3> QED BY <1>1, <3>1
    <2>2. CASE MainStep /\ ~MainTemp
      BY <1>1, <2>2 DEF MainStep, MainIdle, MainWb, MainCompare, MainOff, unit, seen
    <2>3. CASE AuxStep
      BY <1>1, <2>3 DEF AuxStep, AuxIdle, AuxWb, AuxOff, AuxRead, unit, seen
    <2> QED BY <1>2, <2>1, <2>2, <2>3 DEF Firmware
  <1>3. CASE World
    BY <1>1, <1>3 DEF World, ChannelTrips, Heats, Cools, seen
  <1>4. CASE Software
    BY <1>1, <1>4 DEF Software, SwRegister, SwSend, SwReply, unit, seen
  <1>5. CASE Calls
    BY <1>1, <1>5 DEF Calls, CallPowerOn, CallPowerOff, CallPrepare, Begin, unit, seen
  <1>6. CASE Poll
    BY <1>1, <1>6 DEF Poll, unit, seen
  <1>7. CASE UNCHANGED vars
    BY <1>1, <1>7 DEF vars, fwVars, unit, seen
  <1> QED BY <1>2, <1>3, <1>4, <1>5, <1>6, <1>7 DEF Next

\* What the interlock sees is what it expects.
Still ==
  /\ nok = {}
  /\ "pw" \in valid => enL = expPw
  /\ "bias" \in valid => biasL = expBias
NothingOff == OffHalves = {}

LEMMA StillOff == Still => NothingOff
  <1> SUFFICES ASSUME Still PROVE NothingOff
    OBVIOUS
  <1>1. HotHalves = {}
    <2>1. \A s : ~Over(s)
      BY DEF Over, Still
    <2> QED BY <2>1 DEF HotHalves
  <1>2. \A S : ~Differs(S)
    BY DEF Still, Differs
  <1>3. BadGroups = {}
    BY <1>2 DEF BadGroups, Still
  <1>4. Cut = {}
    BY <1>2, <1>3 DEF Cut
  <1> QED BY <1>1, <1>4 DEF OffHalves, NothingOff

LEMMA StillOffNext == Still' => NothingOff'
  <1>1. Still => NothingOff
    BY StillOff
  <1> QED BY <1>1, PTL

-----------------------------------------------------------------------------
(***************************************************************************)
(* The machines keep to the plan.                                          *)
(***************************************************************************)
LEMMA Apart ==
  ASSUME NEW half \in Half, NEW other \in Half, half # other
  PROVE  Part(half) \cap Part(other) = {}
  BY DEF Part, HalfOf

LEMMA MainKeepsPlan ==
  ASSUME TypeInv, AskedInv, MainStep, UNCHANGED swVars, NEW x \in Plan, Stands(x)
  PROVE  Stands(x)'
  <1>1. UNCHANGED <<aux, reqAux, regs, prog, guarded>>
    BY DEF MainStep, MainIdle, MainWb, MainTemp, MainCompare, MainOff, auxFsm, swVars
  <1>2. AuxStands(x)' /\ RegsStand(x)'
    BY <1>1 DEF Stands, AuxStands, RegsStand, regs
  <1>3. MainStands(x)'
    <2>1. reqMain \in Seq(MainRequest)
      BY DEF TypeInv, MainInv
    <2>2. /\ \A R, S : Left(main, reqMain, "low", R, S) => Left(main', reqMain', "low", R, S)
          /\ Settled(main, reqMain) => Settled(main', reqMain')
      BY <2>1, MainMoves, ServeLeft, FinishLeft, RestLeft
    <2> QED BY <2>2 DEF Stands, MainStands
  <1> QED BY <1>2, <1>3 DEF Stands

LEMMA AuxKeepsPlan ==
  ASSUME TypeInv, AskedInv, AuxStep, UNCHANGED swVars, NEW x \in Plan, Stands(x)
  PROVE  Stands(x)'
  <1>1. UNCHANGED <<main, reqMain, regs, prog, guarded>>
    BY DEF AuxStep, AuxIdle, AuxWb, AuxOff, AuxRead, mainFsm, swVars
  <1>2. MainStands(x)' /\ RegsStand(x)'
    BY <1>1 DEF Stands, MainStands, RegsStand, regs
  <1>3. AuxStands(x)'
    <2>1. reqAux \in Seq(AuxRequest)
      BY DEF TypeInv, AuxInv
    <2>2. ASSUME NEW half
          PROVE  /\ \A R, S : Left(aux, reqAux, half, R, S) => Left(aux', reqAux', half, R, S)
                 /\ Settled(aux, reqAux) => Settled(aux', reqAux')
      BY <2>1, AuxMoves, ServeLeft, FinishLeft, RestLeft
    <2> QED BY <2>2 DEF Stands, AuxStands
  <1> QED BY <1>2, <1>3 DEF Stands

\* A request carried out without a fault sets what it should.
LEMMA MainKeepsExact ==
  ASSUME TypeInv, AskedInv, MainStep, UNCHANGED swVars, faults' = 0, faults = 0, main.at # "OFF",
         NEW x \in Plan, Stands(x), Exact(x)
  PROVE  Exact(x)'
  <1>1. UNCHANGED <<aux, reqAux, pw>>
    BY DEF MainStep, MainIdle, MainWb, MainTemp, MainCompare, MainOff, auxFsm, unit
  <1>2. AuxExact(x)' /\ ("armed" \in x.is => Set(x))
    BY <1>1 DEF Exact, AuxExact
  <1>3. MainExact(x)'
    <2>1. reqMain \in Seq(MainRequest) /\ main.rq \in MainRequest
      BY DEF TypeInv, MainInv
    <2>2. MainExact(x) /\ Left(main, reqMain, "low", Channel, x.bias)
      BY DEF Exact, Stands, MainStands
    <2>3. CASE Serves(main, reqMain, main', reqMain') /\ UNCHANGED bias
      <3>1. Pending(main', reqMain', "low") <=> Pending(main, reqMain, "low")
        BY <2>1, <2>3, ServeLeft
      <3> QED BY <2>2, <2>3, <3>1 DEF MainExact
    <2>4. CASE Finishes(main, reqMain, main', reqMain') /\ MainWb
      <3>1. bias' = IF main.rq.op = "wr" THEN main.rq.v ELSE bias
        BY <2>4 DEF MainWb
      <3>2. main.rq.half = "low" /\ main.rq.v \subseteq Channel /\ main.at = "WB"
        BY <2>1, <2>4 DEF MainRequest, Finishes
      <3>3. Doing(main, "low") <=> main.rq.op = "wr"
        BY <3>2 DEF Doing, Write
      <3>4. /\ Doing(main, "low") => Pending(main', reqMain', "low") \/ main.rq.v \cap Channel = x.bias
            /\ ~Doing(main, "low") /\ Pending(main, reqMain, "low") => Pending(main', reqMain', "low")
        BY <2>2, <2>4, FinishLeft
      <3>5. main.rq.v \cap Channel = main.rq.v
        BY <3>2
      <3> QED BY <2>2, <3>1, <3>3, <3>4, <3>5 DEF MainExact
    <2>5. CASE Rests(main, reqMain, main', reqMain') /\ UNCHANGED bias
      <3>1. Pending(main', reqMain', "low") <=> Pending(main, reqMain, "low")
        BY <2>5, RestLeft
      <3> QED BY <2>2, <2>5, <3>1 DEF MainExact
    <2> QED BY <2>3, <2>4, <2>5, MainMoves
  <1> QED BY <1>2, <1>3 DEF Exact

LEMMA AuxKeepsExact ==
  ASSUME TypeInv, AskedInv, AuxStep, UNCHANGED swVars, faults' = 0, faults = 0,
         aux.at \notin {"OFF_low", "OFF_high"}, NEW x \in Plan, Stands(x), Exact(x)
  PROVE  Exact(x)'
  <1>1. UNCHANGED <<main, reqMain, bias>>
    BY DEF AuxStep, AuxIdle, AuxWb, AuxOff, AuxRead, mainFsm, unit
  <1>2. MainExact(x)' /\ ("armed" \in x.is => Set(x))
    BY <1>1 DEF Exact, MainExact
  <1>3. ASSUME NEW half \in Half
        PROVE  Pending(aux', reqAux', half) \/ pw' \cap Part(half) = x.pw \cap Part(half)
    <2>1. reqAux \in Seq(AuxRequest) /\ aux.rq \in AuxRequest
      BY DEF TypeInv, AuxInv
    <2>2. /\ Pending(aux, reqAux, half) \/ pw \cap Part(half) = x.pw \cap Part(half)
          /\ Left(aux, reqAux, half, Part(half), x.pw \cap Part(half))
      BY DEF Exact, AuxExact, Stands, AuxStands
    <2>3. CASE Serves(aux, reqAux, aux', reqAux') /\ UNCHANGED pw
      <3>1. Pending(aux', reqAux', half) <=> Pending(aux, reqAux, half)
        BY <2>1, <2>3, ServeLeft
      <3> QED BY <2>2, <2>3, <3>1
    <2>4. CASE Finishes(aux, reqAux, aux', reqAux') /\ AuxWb
      <3>1. pw' = IF aux.rq.op = "wr" THEN Expander(aux.rq.half, aux.rq.v) ELSE pw
        BY <2>4 DEF AuxWb
      <3>2. aux.rq.half \in Half /\ aux.at = "WB"
        BY <2>1, <2>4 DEF AuxRequest, Finishes
      <3>3. Doing(aux, half) <=> aux.rq.op = "wr" /\ aux.rq.half = half
        BY <3>2 DEF Doing, Write
      <3>4. /\ Doing(aux, half) => Pending(aux', reqAux', half) \/ aux.rq.v \cap Part(half) = x.pw \cap Part(half)
            /\ ~Doing(aux, half) /\ Pending(aux, reqAux, half) => Pending(aux', reqAux', half)
        BY <2>2, <2>4, FinishLeft
      <3>5. CASE aux.rq.op = "wr" /\ aux.rq.half = half
        <4>1. pw' \cap Part(half) = aux.rq.v \cap Part(half)
          BY <3>1, <3>5 DEF Expander
        <4> QED BY <3>3, <3>4, <3>5, <4>1
      <3>6. CASE aux.rq.op = "wr" /\ aux.rq.half # half
        <4>1. Part(aux.rq.half) \cap Part(half) = {}
          BY <3>2, <3>6, Apart
        <4>2. pw' \cap Part(half) = pw \cap Part(half)
          BY <3>1, <3>6, <4>1 DEF Expander
        <4> QED BY <2>2, <3>3, <3>4, <3>6, <4>2
      <3>7. CASE aux.rq.op # "wr"
        BY <2>2, <3>1, <3>3, <3>4, <3>7
      <3> QED BY <3>5, <3>6, <3>7
    <2>5. CASE Rests(aux, reqAux, aux', reqAux') /\ UNCHANGED pw
      <3>1. Pending(aux', reqAux', half) <=> Pending(aux, reqAux, half)
        BY <2>5, RestLeft
      <3> QED BY <2>2, <2>5, <3>1
    <2> QED BY <2>3, <2>4, <2>5, AuxMoves
  <1>4. AuxExact(x)'
    BY <1>3 DEF AuxExact
  <1> QED BY <1>2, <1>4 DEF Exact

\* Under the interlock, what is set is what it expects.
LEMMA ArmedExact ==
  ASSUME TypeInv, NEW x \in Plan, Stands(x), Exact(x), "PWR" \in mon
  PROVE  pw = expPw /\ bias = expBias
  <1>1. Set(x) /\ x.pw = expPw /\ x.bias = expBias
    BY DEF Stands, RegsStand, Exact, Set
  <1>2. Settled(main, reqMain) /\ Settled(aux, reqAux)
    BY <1>1 DEF Set, Stands, MainStands, AuxStands
  <1>3. bias = expBias
    BY <1>1, <1>2, SettledLeft DEF Exact, MainExact
  <1>4. \A half \in Half : pw \cap Part(half) = expPw \cap Part(half)
    BY <1>1, <1>2, SettledLeft DEF Exact, AuxExact
  <1>5. pw \subseteq Module /\ expPw \subseteq Module
    BY DEF TypeInv, UnitInv, RegsInv
  <1>6. Part("low") \cup Part("high") = Module
    BY DEF Part, HalfOf
  <1>7. pw = expPw
    BY <1>4, <1>5, <1>6 DEF Half
  <1> QED BY <1>3, <1>7

\* The answer that software gets is the one it expects.
LEMMA MainAnswers ==
  ASSUME TypeInv, AskedInv, NEW x \in Plan, Course(prog, x, TRUE), Exact(x), Reading(main.rq)
  PROVE  asked /\ bias = Head(prog).v
  <1>1. asked /\ ~Silent(main, reqMain) /\ prog \in Seq(Step)
    BY DEF TypeInv, ReadsInv, ProgInv, Silent
  <1>2. /\ Head(prog).do = "read_main" /\ Answers(main, reqMain, "low", reply # <<>>) /\ prog # <<>>
    BY <1>1 DEF AskedInv, TypeInv, ProgInv
  <1>3. ~Pending(main, reqMain, "low")
    BY <1>2 DEF Answers, NoWrite, Pending, NoneFor, Doing, Write, Reading
  <1>4. Fits(Head(prog), x)
    BY <1>1, <1>2, CourseTail DEF Allowed
  <1> QED BY <1>1, <1>2, <1>3, <1>4 DEF Exact, MainExact, Fits

LEMMA AuxAnswers ==
  ASSUME TypeInv, AskedInv, NEW x \in Plan, Course(prog, x, TRUE), Exact(x), Reading(aux.rq)
  PROVE  asked /\ pw \cap Part(aux.rq.half) = Head(prog).v
  <1>1. asked /\ ~Silent(aux, reqAux) /\ prog \in Seq(Step) /\ aux.rq.half \in Half
    BY DEF TypeInv, ReadsInv, ProgInv, Silent, AuxInv, AuxRequest
  <1>2. /\ Head(prog).do = "read_aux" /\ Answers(aux, reqAux, Head(prog).half, reply # <<>>) /\ prog # <<>>
    BY <1>1 DEF AskedInv, TypeInv, ProgInv
  <1>3. aux.rq.half = Head(prog).half /\ ~Pending(aux, reqAux, aux.rq.half)
    BY <1>2 DEF Answers, NoWrite, Pending, NoneFor, Doing, Write, Reading
  <1>4. Fits(Head(prog), x)
    BY <1>1, <1>2, CourseTail DEF Allowed
  <1> QED BY <1>1, <1>2, <1>3, <1>4 DEF Exact, AuxExact, Fits

LEMMA MainKeepsQuiet ==
  ASSUME TypeInv, AskedInv, CoolInv', Quiet, MainStep, Latch, UNCHANGED swVars, faults' = 0, faults = 0,
         NEW x \in Plan, Course(prog, x, TRUE), Stands(x), Exact(x)
  PROVE  Quiet'
  <1>1. /\ UNCHANGED <<prog, asked, failed, aux, mon, expPw, expBias, enL>> /\ ~Fault
        /\ hot' = {} /\ nok' = {} /\ prev' = {}
    BY NoFault DEF MainStep, MainIdle, MainWb, MainTemp, MainCompare, MainOff, auxFsm, regs, seen, swVars, CoolInv
  <1>2. Still'
    <2>1. /\ "pw" \in valid => enL = expPw
          /\ "bias" \in valid => biasL = expBias
      BY DEF Quiet
    <2>2. CASE MainCompare
      <3>1. /\ biasL' = bias /\ valid' = valid \cup (IF "PWR" \in mon THEN {"bias"} ELSE {})
        BY <1>1, <2>2 DEF MainCompare
      <3>2. CASE "PWR" \in mon
        <4>1. bias = expBias
          BY <3>2, ArmedExact
        <4> QED BY <1>1, <2>1, <3>1, <4>1 DEF Still
      <3>3. CASE "PWR" \notin mon
        <4>1. valid' = {}
          BY <3>1, <3>3 DEF TypeInv, SeenInv
        <4> QED BY <1>1, <4>1 DEF Still
      <3> QED BY <3>2, <3>3
    <2>3. CASE ~MainCompare
      <3>1. UNCHANGED <<biasL, valid>>
        BY <2>3 DEF MainStep, MainIdle, MainWb, MainTemp, MainOff, seen
      <3> QED BY <1>1, <2>1, <3>1 DEF Still
    <2> QED BY <2>2, <2>3
  <1>3. OffHalves' = {}
    BY <1>2, StillOffNext DEF NothingOff
  <1>4. ~tripped'
    BY <1>3 DEF Latch, Quiet
  <1>5. main'.at # "OFF"
    <2>1. ASSUME NEW k \in 0 .. 3, Enter(TempAfter(k)) PROVE main'.at # "OFF"
      <3>1. TempAfter(k) \in Sensor \cup {"BIAS"} /\ TempAfter(k) # "OFF"
        BY TempIsSensor, PartsKnown DEF TypeInv
      <3> QED BY <2>1, <3>1, GotoType DEF Enter
    <2>2. CASE MainIdle
      <3>1. main'.at = "WB" \/ Enter(TempAfter(0)) \/ main' = main
        BY <2>2 DEF MainIdle
      <3> QED BY <2>1, <3>1 DEF Quiet
    <2>3. CASE MainTemp
      <3>1. \E k \in 1 .. 3 : Enter(TempAfter(k))
        BY <2>3 DEF MainTemp
      <3> QED BY <2>1, <3>1
    <2>4. CASE MainCompare
      BY <1>3, <2>4, GotoType DEF MainCompare
    <2>5. CASE MainWb \/ MainOff
      BY <2>5, GotoType DEF MainWb, MainOff
    <2> QED BY <2>2, <2>3, <2>4, <2>5 DEF MainStep
  <1>6. asked' /\ reply' # <<>> => reply' = <<[ok |-> TRUE, v |-> Head(prog').v]>>
    <2>1. CASE reply' = reply
      BY <1>1, <2>1 DEF Quiet
    <2>2. CASE reply' # reply
      <3>1. MainWb
        BY <2>2 DEF MainStep, MainIdle, MainTemp, MainCompare, MainOff
      <3>2. Reading(main.rq) /\ reply' = <<[ok |-> TRUE, v |-> bias]>>
        BY <1>1, <2>2, <3>1 DEF MainWb, Answer, Reading
      <3>3. bias = Head(prog).v
        BY <3>2, MainAnswers
      <3> QED BY <1>1, <3>2, <3>3
    <2> QED BY <2>1, <2>2
  <1> QED BY <1>1, <1>2, <1>4, <1>5, <1>6 DEF Quiet, Still

LEMMA AuxKeepsQuiet ==
  ASSUME TypeInv, AskedInv, CoolInv', Quiet, AuxStep, Latch, UNCHANGED swVars, faults' = 0, faults = 0,
         NEW x \in Plan, Course(prog, x, TRUE), Stands(x), Exact(x)
  PROVE  Quiet'
  <1>1. /\ UNCHANGED <<prog, asked, failed, main, mon, expPw, expBias, biasL>> /\ ~Fault
        /\ hot' = {} /\ nok' = {} /\ prev' = {}
    BY NoFault DEF AuxStep, AuxIdle, AuxWb, AuxOff, AuxRead, mainFsm, regs, seen, swVars, CoolInv
  <1>2. Still'
    <2>1. /\ "pw" \in valid => enL = expPw
          /\ "bias" \in valid => biasL = expBias
      BY DEF Quiet
    <2>2. CASE AuxRead
      <3>1. enL' = pw /\ valid' = valid \cup (IF "PWR" \in mon THEN {"pw"} ELSE {})
        BY <1>1, <2>2 DEF AuxRead
      <3>2. CASE "PWR" \in mon
        <4>1. pw = expPw
          BY <3>2, ArmedExact
        <4> QED BY <1>1, <2>1, <3>1, <4>1 DEF Still
      <3>3. CASE "PWR" \notin mon
        <4>1. valid' = {}
          BY <3>1, <3>3 DEF TypeInv, SeenInv
        <4> QED BY <1>1, <4>1 DEF Still
      <3> QED BY <3>2, <3>3
    <2>3. CASE ~AuxRead
      <3>1. UNCHANGED <<enL, valid>>
        BY <2>3 DEF AuxStep, AuxIdle, AuxWb, AuxOff, seen
      <3> QED BY <1>1, <2>1, <3>1 DEF Still
    <2> QED BY <2>2, <2>3
  <1>3. OffHalves' = {} /\ OffHalves = {}
    BY <1>2, StillOffNext, StillOff DEF NothingOff, Quiet, Still
  <1>4. ~tripped'
    BY <1>3 DEF Latch, Quiet
  <1>5. aux'.at \notin {"OFF_low", "OFF_high"}
    <2>1. CASE AuxIdle
      <3>1. aux'.at = "WB" \/ aux' = Goto("READ") \/ aux' = aux
        BY <1>3, <2>1 DEF AuxIdle
      <3> QED BY <3>1, GotoType DEF Quiet
    <2>2. CASE AuxWb \/ AuxRead
      BY <2>2, GotoType DEF AuxWb, AuxRead
    <2>3. ~AuxOff
      BY DEF AuxOff, Quiet
    <2> QED BY <2>1, <2>2, <2>3 DEF AuxStep
  <1>6. asked' /\ reply' # <<>> => reply' = <<[ok |-> TRUE, v |-> Head(prog').v]>>
    <2>1. CASE reply' = reply
      BY <1>1, <2>1 DEF Quiet
    <2>2. CASE reply' # reply
      <3>1. AuxWb
        BY <2>2 DEF AuxStep, AuxIdle, AuxOff, AuxRead
      <3>2. Reading(aux.rq) /\ reply' = <<[ok |-> TRUE, v |-> pw \cap Part(aux.rq.half)]>>
        BY <1>1, <2>2, <3>1 DEF AuxWb, Answer, Reading
      <3>3. pw \cap Part(aux.rq.half) = Head(prog).v
        BY <3>2, AuxAnswers
      <3> QED BY <1>1, <3>2, <3>3
    <2> QED BY <2>1, <2>2
  <1> QED BY <1>1, <1>2, <1>4, <1>5, <1>6 DEF Quiet, Still

\* The course is the same, and goes as planned for no longer than before.
LEMMA SameCourse ==
  ASSUME TypeInv, Next \/ UNCHANGED vars, UNCHANGED <<prog, fresh>>, NEW x \in Plan, Course(prog, x, Smooth)
  PROVE  (Smooth' => Smooth) /\ Course(prog, x, Smooth)' /\ Smooth' \in BOOLEAN
  <1>1. Smooth' => Smooth
    BY FaultsKept DEF Smooth
  <1>2. Smooth \in BOOLEAN /\ Smooth' \in BOOLEAN
    BY DEF Smooth, TypeInv, FlagInv
  <1>3. Course(prog, x, Smooth')
    BY <1>1, <1>2, CourseWeaken
  <1> QED BY <1>1, <1>2, <1>3

LEMMA FirmwareOn ==
  ASSUME TypeInv, OnInv, Firmware
  PROVE  OnInv'
  <1>1. UNCHANGED swVars /\ Latch /\ UNCHANGED <<prog, fresh>> /\ Next /\ (MainStep \/ AuxStep)
    BY DEF Firmware, swVars, Next
  <1>2. PICK x \in Plan : Course(prog, x, Smooth) /\ Stands(x) /\ (Smooth => Exact(x))
    BY DEF OnInv, CourseInv
  <1>3. AskedInv /\ CoolInv /\ (Smooth => Quiet)
    BY DEF OnInv
  <1>4. CoolInv'
    BY <1>1, <1>3, CoolNext
  <1>5. AskedInv'
    BY <1>1, <1>3, MainAsked, AuxAsked
  <1>6. Stands(x)'
    BY <1>1, <1>2, <1>3, MainKeepsPlan, AuxKeepsPlan
  <1>7. (Smooth' => Smooth) /\ Course(prog, x, Smooth)'
    BY <1>1, <1>2, SameCourse
  <1>8. ASSUME Smooth' PROVE Exact(x)' /\ Quiet'
    <2>1. /\ faults = 0 /\ faults' = 0 /\ Course(prog, x, TRUE) /\ Exact(x) /\ Quiet
          /\ main.at # "OFF" /\ aux.at \notin {"OFF_low", "OFF_high"}
      <3>1. Smooth /\ faults' = 0 /\ Smooth = TRUE
        BY <1>7, <1>8 DEF Smooth, TypeInv, FlagInv
      <3> QED BY <1>2, <1>3, <3>1 DEF Smooth, Quiet
    <2>2. Exact(x)'
      BY <1>1, <1>2, <1>3, <2>1, MainKeepsExact, AuxKeepsExact
    <2>3. Quiet'
      BY <1>1, <1>2, <1>3, <1>4, <2>1, MainKeepsQuiet, AuxKeepsQuiet
    <2> QED BY <2>2, <2>3
  <1> QED BY <1>4, <1>5, <1>6, <1>7, <1>8 DEF OnInv, CourseInv

LEMMA WorldOn ==
  ASSUME TypeInv, OnInv, World
  PROVE  OnInv'
  <1>1. /\ UNCHANGED <<prog, fresh, guarded, asked, main, reqMain, aux, reqAux, regs, reply>> /\ Next
    BY DEF World, ChannelTrips, Heats, Cools, swVars, mainFsm, auxFsm, Next
  <1>2. PICK x \in Plan : Course(prog, x, Smooth) /\ Stands(x)
    BY DEF OnInv, CourseInv
  <1>3. AskedInv /\ CoolInv
    BY DEF OnInv
  <1>4. AskedInv'
    BY <1>1, <1>3 DEF AskedInv
  <1>5. CoolInv'
    BY <1>1, <1>3, CoolNext
  <1>6. Stands(x)'
    BY <1>1, <1>2 DEF Stands, AuxStands, MainStands, RegsStand, regs
  <1>7. (Smooth' => Smooth) /\ Course(prog, x, Smooth)'
    BY <1>1, <1>2, SameCourse
  <1>8. ~Smooth'
    <2>1. CASE faults' = 0
      <3>1. ~Fault /\ faults = 0
        BY <1>1, <2>1, NoFault, FaultsKept
      <3>2. hot = {}
        BY <1>3, <3>1 DEF CoolInv
      <3> QED BY <3>1, <3>2 DEF World, ChannelTrips, Heats, Cools
    <2> QED BY <2>1 DEF Smooth
  <1> QED BY <1>4, <1>5, <1>6, <1>7, <1>8 DEF OnInv, CourseInv

LEMMA PollOn ==
  ASSUME TypeInv, OnInv, Poll
  PROVE  OnInv'
  <1> DEFINE rq == [op |-> "poll", half |-> "low", v |-> {}]
  <1>1. /\ \/ reqMain' = Append(reqMain, rq) /\ UNCHANGED reqAux
           \/ reqAux' = Append(reqAux, rq) /\ UNCHANGED reqMain
        /\ UNCHANGED <<unit, regs, seen, main, aux, reply, tripped, lost, faults, prog, guarded, asked, fresh, failed>>
        /\ Next
    BY DEF Poll, swVars, Next
  <1>2. /\ reqMain \in Seq(MainRequest) /\ reqAux \in Seq(AuxRequest)
        /\ rq \in MainRequest /\ rq \in AuxRequest /\ rq.op = "poll" /\ \A half : ~Write(rq, half)
    BY DEF TypeInv, MainInv, AuxInv, MainRequest, AuxRequest, Op, Half, Write
  <1> HIDE DEF rq
  <1>3. PICK x \in Plan : Course(prog, x, Smooth) /\ Stands(x) /\ (Smooth => Exact(x))
    BY DEF OnInv, CourseInv
  <1>4. AskedInv /\ CoolInv /\ (Smooth => Quiet)
    BY DEF OnInv
  <1>5. CoolInv'
    BY <1>1, <1>4, CoolNext
  <1>6. AskedInv'
    <2> DEFINE was == reply # <<>>
    <2>1. was \in BOOLEAN /\ reply' = reply /\ prog' = prog /\ asked' = asked /\ main' = main /\ aux' = aux
      BY <1>1
    <2> HIDE DEF was
    <2>2. /\ \A half : Answers(main, reqMain, half, was) => Answers(main', reqMain', half, was)
          /\ Silent(main, reqMain) => Silent(main', reqMain')
      <3>1. CASE reqMain' = Append(reqMain, rq)
        BY <1>2, <2>1, <3>1, AppendAnswers
      <3>2. CASE UNCHANGED reqMain
        BY <2>1, <3>2
      <3> QED BY <1>1, <3>1, <3>2
    <2>3. /\ \A half : Answers(aux, reqAux, half, was) => Answers(aux', reqAux', half, was)
          /\ Silent(aux, reqAux) => Silent(aux', reqAux')
      <3>1. CASE reqAux' = Append(reqAux, rq)
        BY <1>2, <2>1, <3>1, AppendAnswers
      <3>2. CASE UNCHANGED reqAux
        BY <2>1, <3>2
      <3> QED BY <1>1, <3>1, <3>2
    <2> QED BY <1>4, <2>1, <2>2, <2>3 DEF AskedInv, was
  <1>7. (Smooth' => Smooth) /\ Course(prog, x, Smooth)'
    BY <1>1, <1>3, SameCourse
  <1>8. /\ \A half : /\ \A R, S : Left(main, reqMain, half, R, S) => Left(main', reqMain', half, R, S)
                     /\ Pending(main', reqMain', half) <=> Pending(main, reqMain, half)
        /\ Settled(main, reqMain) => Settled(main', reqMain')
    <2>1. CASE reqMain' = Append(reqMain, rq)
      BY <1>1, <1>2, <2>1, AppendLeft
    <2>2. CASE UNCHANGED reqMain
      BY <1>1, <2>2
    <2> QED BY <1>1, <2>1, <2>2
  <1>9. /\ \A half : /\ \A R, S : Left(aux, reqAux, half, R, S) => Left(aux', reqAux', half, R, S)
                     /\ Pending(aux', reqAux', half) <=> Pending(aux, reqAux, half)
        /\ Settled(aux, reqAux) => Settled(aux', reqAux')
    <2>1. CASE reqAux' = Append(reqAux, rq)
      BY <1>1, <1>2, <2>1, AppendLeft
    <2>2. CASE UNCHANGED reqAux
      BY <1>1, <2>2
    <2> QED BY <1>1, <2>1, <2>2
  <1>10. Stands(x)'
    BY <1>1, <1>3, <1>8, <1>9 DEF Stands, AuxStands, MainStands, RegsStand, regs
  <1>11. ASSUME Smooth' PROVE Exact(x)' /\ Quiet'
    <2>1. Exact(x)'
      BY <1>1, <1>3, <1>7, <1>8, <1>9, <1>11 DEF Exact, AuxExact, MainExact, unit
    <2>2. Quiet'
      BY <1>1, <1>4, <1>7, <1>11 DEF Quiet, unit, regs, seen
    <2> QED BY <2>1, <2>2
  <1> QED BY <1>5, <1>6, <1>7, <1>10, <1>11 DEF OnInv, CourseInv

-----------------------------------------------------------------------------
(***************************************************************************)
(* Software goes along its plan.                                           *)
(***************************************************************************)
\* A program that raises while nothing goes as planned has a course again.
LEMMA RaiseCourse ==
  ASSUME TypeInv, prog # <<>>, Raise, NEW x \in Plan, Course(prog, x, Smooth), Stands(x),
         Head(prog).do \in Raising, ~Smooth',
         UNCHANGED <<main, reqMain, aux, reqAux, regs>>, UNCHANGED <<mon, expPw, expBias>>
  PROVE  CourseInv'
  <1>1. prog \in Seq(Step) /\ guarded \in BOOLEAN /\ Smooth \in BOOLEAN
    BY DEF TypeInv, ProgInv, FlagInv, Smooth
  <1>2. "tried" \in x.is \/ Clears(x)
    BY <1>1, CourseTail DEF Allowed
  <1>3. Smooth' = FALSE
    BY DEF Smooth
  <1>4. CASE guarded
    <2> DEFINE y == [x EXCEPT !.is = x.is \ {"tried"}]
    <2>1. /\ y \in Plan /\ y.pw = x.pw /\ y.bias = x.bias /\ y.expPw = x.expPw /\ y.expBias = x.expBias
          /\ y.is = x.is \ {"tried"}
      BY DEF Plan
    <2> HIDE DEF y
    <2>2. Course(prog, y, Smooth)'
      BY <1>3, <1>4, <2>1, PowerOffCourse DEF Raise
    <2>3. Stands(y)'
      BY <2>1 DEF Stands, AuxStands, MainStands, RegsStand
    <2> QED BY <1>3, <2>1, <2>2, <2>3 DEF CourseInv
  <1>5. CASE ~guarded
    <2>1. Clears(x) /\ prog' = <<>>
      BY <1>2, <1>5 DEF Stands, RegsStand, Raise
    <2>2. Course(prog, x, Smooth)'
      BY <2>1, CourseNone
    <2>3. Stands(x)'
      BY <2>1 DEF Stands, AuxStands, MainStands, RegsStand
    <2> QED BY <1>3, <2>2, <2>3 DEF CourseInv
  <1> QED BY <1>4, <1>5

\* A step that is over leads to the next plan.
LEMMA AdvancePlan ==
  ASSUME TypeInv, prog # <<>>, Advance, NEW x \in Plan, Course(prog, x, Smooth), RegsStand(x),
         Smooth' => Smooth, Smooth' \in BOOLEAN, NEW y, y = After(Head(prog), x)
  PROVE  /\ y \in Plan /\ Course(prog, y, Smooth)' /\ Allowed(Head(prog), x, Smooth)
         /\ "tried" \in y.is /\ prog' # <<>> => guarded'
  <1>1. prog \in Seq(Step) /\ prog' = Tail(prog) /\ Smooth \in BOOLEAN
    BY DEF TypeInv, ProgInv, FlagInv, Smooth, Advance
  <1>2. y \in Plan /\ Course(Tail(prog), y, Smooth) /\ Allowed(Head(prog), x, Smooth)
    BY <1>1, CourseTail
  <1>3. Course(Tail(prog), y, Smooth')
    BY <1>1, <1>2, CourseWeaken
  <1>4. "tried" \in y.is => "tried" \in x.is \/ Head(prog).do = "try"
    BY DEF After
  <1>5. "tried" \in y.is /\ prog' # <<>> => guarded'
    BY <1>4 DEF RegsStand, Advance
  <1> QED BY <1>1, <1>2, <1>3, <1>5

\* A step that writes a register, or looks at one.
LEMMA RegisterOn ==
  ASSUME TypeInv, OnInv, SwRegister
  PROVE  OnInv'
  <1> DEFINE d == Head(prog)
  <1>1. /\ UNCHANGED <<pw, bias, hot, nok, prev, enL, biasL, main, reqMain, aux, reqAux, reply, asked, fresh>>
        /\ prog \in Seq(Step) /\ prog # <<>> /\ Next
        /\ d.do \notin {"read_aux", "read_main", "aux", "main"} /\ "PWR" \notin Sensor
    BY PartsKnown DEF SwRegister, unit, mainFsm, auxFsm, TypeInv, ProgInv, Next, Software
  <1>2. ~asked /\ ~asked'
    BY <1>1 DEF TypeInv, ProgInv, FlagInv
  <1>3. PICK x \in Plan : Course(prog, x, Smooth) /\ Stands(x) /\ (Smooth => Exact(x))
    BY DEF OnInv, CourseInv
  <1>4. AskedInv /\ CoolInv /\ (Smooth => Quiet)
    BY DEF OnInv
  <1>5. AskedInv' /\ CoolInv'
    BY <1>1, <1>2, <1>4, CoolNext DEF AskedInv
  <1>6. (Smooth' => Smooth) /\ Smooth \in BOOLEAN /\ Smooth' \in BOOLEAN
    BY <1>1, FaultsKept DEF Smooth, TypeInv, FlagInv
  <1>7. CASE Raise /\ d.do \in {"armed", "fired", "check"} /\ UNCHANGED regs /\ ~Smooth'
    <2>1. d.do \in Raising /\ UNCHANGED <<mon, expPw, expBias>>
      BY <1>7 DEF Raising, regs
    <2>2. CourseInv'
      BY <1>1, <1>3, <1>7, <2>1, RaiseCourse
    <2> QED BY <1>5, <1>7, <2>2 DEF OnInv
  <1>8. CASE /\ Advance
             /\ expPw' = (IF d.do = "mask_pw" THEN d.v ELSE expPw)
             /\ expBias' = (IF d.do = "mask_bias" THEN d.v ELSE expBias)
             /\ "PWR" \in mon' <=> d.do = "pwr_on" \/ ("PWR" \in mon /\ d.do # "pwr_off")
             /\ d.do # "temps" => Sensor \cap mon \subseteq mon'
             /\ valid' \subseteq valid /\ ("PWR" \notin mon' => valid' = {})
    <2>0. PICK y \in Plan : y = After(d, x)
      BY <1>1, AfterType, TailOf
    <2>1. /\ y.pw = x.pw /\ y.bias = x.bias
          /\ y.expPw = (IF d.do = "mask_pw" THEN d.v ELSE x.expPw)
          /\ y.expBias = (IF d.do = "mask_bias" THEN d.v ELSE x.expBias)
          /\ "aux" \in y.is <=> "aux" \in x.is
          /\ "main" \in y.is <=> "main" \in x.is
          /\ "armed" \in y.is <=> d.do = "pwr_on" \/ ("armed" \in x.is /\ d.do # "pwr_off")
      BY <1>1, <2>0 DEF After
    <2>2. /\ Course(prog, y, Smooth)' /\ Allowed(d, x, Smooth)
          /\ "tried" \in y.is /\ prog' # <<>> => guarded'
      BY <1>1, <1>3, <1>6, <1>8, <2>0, AdvancePlan DEF Stands
    <2> HIDE DEF d
    <2>3. Stands(y)'
      BY <1>1, <1>3, <1>8, <2>1, <2>2 DEF Stands, AuxStands, MainStands, RegsStand
    <2>4. ASSUME Smooth' PROVE Exact(y)' /\ Quiet'
      <3>1. /\ Fits(d, x) /\ Exact(x) /\ Quiet /\ RegsStand(x)
        BY <1>3, <1>4, <1>6, <2>2, <2>4 DEF Allowed, Stands
      <3>2. "armed" \in y.is => Set(y)
        <4>1. CASE d.do = "pwr_on"
          <5>1. Set(x)
            BY <3>1, <4>1 DEF Fits
          <5> QED BY <2>1, <4>1, <5>1 DEF Set
        <4>2. CASE d.do # "pwr_on" /\ "armed" \in x.is
          <5>1. Set(x) /\ d.do \notin {"mask_pw", "mask_bias"}
            BY <3>1, <4>2 DEF Exact, Fits, Watching
          <5> QED BY <2>1, <5>1 DEF Set
        <4> QED BY <2>1, <4>1, <4>2
      <3>3. Exact(y)'
        BY <1>1, <2>1, <3>1, <3>2 DEF Exact, AuxExact, MainExact
      <3>4. Still'
        <4>1. nok' = {}
          BY <1>1, <3>1 DEF Quiet
        <4>2. CASE "PWR" \in mon
          <5>1. d.do \in Watching
            BY <3>1, <4>2 DEF RegsStand, Fits
          <5>2. UNCHANGED <<expPw, expBias>>
            BY <1>8, <5>1 DEF Watching
          <5> QED BY <1>1, <1>8, <3>1, <4>1, <5>2 DEF Quiet, Still
        <4>3. CASE "PWR" \notin mon
          <5>1. valid' = {}
            BY <1>8, <4>3 DEF TypeInv, SeenInv
          <5> QED BY <4>1, <5>1 DEF Still
        <4> QED BY <4>2, <4>3
      <3>5. ~tripped'
        <4>1. OffHalves' = {}
          BY <3>4, StillOffNext DEF NothingOff
        <4> QED BY <3>1, <4>1 DEF SwRegister, Quiet
      <3>6. Sensor \subseteq mon'
        <4>1. d.do # "temps"
          BY <3>1 DEF Fits, OnSteps
        <4> QED BY <1>8, <3>1, <4>1 DEF Quiet
      <3>7. failed' = failed
        BY <1>8 DEF Advance
      <3> QED BY <1>1, <1>2, <3>1, <3>3, <3>4, <3>5, <3>6, <3>7 DEF Quiet, Still
    <2> QED BY <1>5, <2>2, <2>3, <2>4 DEF OnInv, CourseInv
  <1>9. CASE /\ d.do \in {"mask_pw", "mask_bias", "pwr_on", "pwr_off", "temps", "arm_temps", "clear", "try"}
             /\ expPw' = (IF d.do = "mask_pw" THEN d.v ELSE expPw)
             /\ expBias' = (IF d.do = "mask_bias" THEN d.v ELSE expBias)
             /\ mon' = (CASE d.do = "pwr_on" -> mon \cup {"PWR"}    [] d.do = "pwr_off" -> mon \ {"PWR"}
                          [] d.do = "temps" -> mon \ Sensor         [] d.do = "arm_temps" -> mon \cup Sensor
                          [] OTHER -> mon)
             /\ valid' = (IF "PWR" \in mon' THEN valid ELSE {})
             /\ Advance
    <2>1. "PWR" \in mon' <=> d.do = "pwr_on" \/ ("PWR" \in mon /\ d.do # "pwr_off")
      BY <1>1, <1>9
    <2>2. d.do # "temps" => Sensor \cap mon \subseteq mon'
      BY <1>1, <1>9
    <2>3. valid' \subseteq valid /\ ("PWR" \notin mon' => valid' = {})
      BY <1>9
    <2> QED BY <1>8, <1>9, <2>1, <2>2, <2>3
  <1>10. CASE Advance /\ d.do \in {"armed", "fired", "check"} /\ UNCHANGED <<regs, valid>>
    <2>1. UNCHANGED <<mon, expPw, expBias, valid>> /\ ("PWR" \notin mon => valid = {})
      BY <1>10 DEF regs, TypeInv, SeenInv
    <2> QED BY <1>8, <1>10, <2>1
  <1>11. CASE d.do = "armed" /\ (IF Sensor \subseteq mon THEN Advance ELSE Raise) /\ UNCHANGED <<regs, valid>>
    BY <1>4, <1>6, <1>7, <1>10, <1>11 DEF Quiet
  <1>12. CASE d.do = "fired" /\ (IF tripped THEN Raise ELSE Advance) /\ UNCHANGED <<regs, valid>>
    BY <1>4, <1>6, <1>7, <1>10, <1>12 DEF Quiet
  <1>13. CASE d.do = "check" /\ ((Clean /\ Advance) \/ (Fault /\ Raise)) /\ UNCHANGED <<regs, valid>>
    <2>1. Fault => ~Smooth'
      BY NoFault DEF Smooth
    <2> QED BY <1>7, <1>10, <1>13, <2>1
  <1> QED BY <1>9, <1>11, <1>12, <1>13 DEF SwRegister

\* A step that queues a write.
LEMMA WriteOn ==
  ASSUME TypeInv, OnInv, SwSend, Head(prog).do \in {"aux", "main"}
  PROVE  OnInv'
  <1> DEFINE d == Head(prog)
             rq == [op |-> "wr", half |-> d.half, v |-> d.v]
  <1>1. /\ UNCHANGED <<pw, bias, main, aux, regs, reply, fresh, faults>>
        /\ UNCHANGED <<hot, nok, prev, enL, biasL, valid, tripped, mon, expPw, expBias>>
        /\ prog \in Seq(Step) /\ prog # <<>> /\ Next /\ Advance /\ ~asked' /\ d \in Step
        /\ d.do = "aux" => reqAux' = Append(reqAux, rq) /\ UNCHANGED reqMain
        /\ d.do = "main" => reqMain' = Append(reqMain, rq) /\ UNCHANGED reqAux
    BY TailOf DEF SwSend, unit, regs, seen, TypeInv, ProgInv, Next, Software
  <1>2. /\ reqMain \in Seq(MainRequest) /\ reqAux \in Seq(AuxRequest)
        /\ d.do = "aux" => rq \in AuxRequest /\ d.half \in Half
        /\ d.do = "main" => rq \in MainRequest /\ d.half = "low" /\ d.v \subseteq Channel
        /\ rq.op = "wr" /\ rq.half = d.half /\ rq.v = d.v
    BY <1>1, StepType DEF TypeInv, MainInv, AuxInv, MainRequest, AuxRequest, Op
  <1>3. PICK x \in Plan : Course(prog, x, Smooth) /\ Stands(x) /\ (Smooth => Exact(x))
    BY DEF OnInv, CourseInv
  <1>4. AskedInv /\ CoolInv /\ (Smooth => Quiet)
    BY DEF OnInv
  <1>5. AskedInv' /\ CoolInv'
    BY <1>1, <1>4, CoolNext DEF AskedInv
  <1>6. (Smooth' <=> Smooth) /\ Smooth' \in BOOLEAN
    BY <1>1 DEF Smooth, TypeInv, FlagInv
  <1>14. PICK y \in Plan : y = After(d, x)
    BY <1>1, AfterType
  <1>7. /\ Course(prog, y, Smooth)' /\ Allowed(d, x, Smooth)
        /\ "tried" \in y.is /\ prog' # <<>> => guarded'
    BY <1>1, <1>3, <1>6, <1>14, AdvancePlan DEF Stands
  <1>8. /\ y.pw = (IF d.do = "aux" THEN (x.pw \ Part(d.half)) \cup (d.v \cap Part(d.half)) ELSE x.pw)
        /\ y.bias = (IF d.do = "main" THEN d.v ELSE x.bias)
        /\ y.expPw = x.expPw /\ y.expBias = x.expBias
        /\ y.is = x.is \ {d.do} /\ d.do \in {"aux", "main"}
    BY <1>14 DEF After
  <1> HIDE DEF d, rq
  <1>9. RegsStand(y)'
    BY <1>1, <1>3, <1>7, <1>8 DEF Stands, RegsStand
  <1>10. AuxStands(y)' /\ (AuxExact(x) => AuxExact(y)')
    <2>1. CASE d.do = "main"
      BY <1>1, <1>3, <1>8, <2>1 DEF Stands, AuxStands, AuxExact
    <2>2. CASE d.do = "aux"
      <3>1. "aux" \notin y.is
        BY <1>8, <2>2
      <3>2. ASSUME NEW half \in Half
            PROVE  /\ Left(aux, Append(reqAux, rq), half, Part(half), y.pw \cap Part(half))
                   /\ AuxExact(x) => \/ Pending(aux, Append(reqAux, rq), half)
                                     \/ pw \cap Part(half) = y.pw \cap Part(half)
        <4>1. CASE half = d.half
          <5>1. y.pw \cap Part(half) = rq.v \cap Part(half)
            BY <1>2, <1>8, <2>2, <4>1
          <5>2. Write(rq, half)
            BY <1>2, <4>1 DEF Write
          <5>3. /\ Left(aux, Append(reqAux, rq), half, Part(half), rq.v \cap Part(half))
                /\ Pending(aux, Append(reqAux, rq), half)
            BY <1>2, <2>2, <5>2, AppendLeft
          <5> QED BY <5>1, <5>3
        <4>2. CASE half # d.half
          <5>1. Part(d.half) \cap Part(half) = {}
            BY <1>2, <2>2, <3>2, <4>2, Apart
          <5>2. y.pw \cap Part(half) = x.pw \cap Part(half)
            BY <1>8, <2>2, <5>1
          <5>3. ~Write(rq, half)
            BY <1>2, <4>2 DEF Write
          <5>4. Left(aux, reqAux, half, Part(half), x.pw \cap Part(half))
            BY <1>3 DEF Stands, AuxStands
          <5>5. /\ Left(aux, Append(reqAux, rq), half, Part(half), x.pw \cap Part(half))
                /\ Pending(aux, Append(reqAux, rq), half) <=> Pending(aux, reqAux, half)
            BY <1>2, <2>2, <5>3, <5>4, AppendLeft
          <5> QED BY <5>2, <5>5 DEF AuxExact
        <4> QED BY <4>1, <4>2
      <3> QED BY <1>1, <2>2, <3>1, <3>2 DEF AuxStands, AuxExact
    <2> QED BY <1>8, <2>1, <2>2
  <1>11. MainStands(y)' /\ (MainExact(x) => MainExact(y)')
    <2>1. CASE d.do = "aux"
      BY <1>1, <1>3, <1>8, <2>1 DEF Stands, MainStands, MainExact
    <2>2. CASE d.do = "main"
      <3>1. "main" \notin y.is /\ y.bias = rq.v /\ rq.v \cap Channel = rq.v
        BY <1>2, <1>8, <2>2
      <3>2. Write(rq, "low")
        BY <1>2, <2>2 DEF Write
      <3>3. /\ Left(main, Append(reqMain, rq), "low", Channel, rq.v \cap Channel)
            /\ Pending(main, Append(reqMain, rq), "low")
        BY <1>2, <2>2, <3>2, AppendLeft
      <3> QED BY <1>1, <2>2, <3>1, <3>3 DEF MainStands, MainExact
    <2> QED BY <1>8, <2>1, <2>2
  <1>12. ASSUME Smooth' PROVE Exact(y)' /\ Quiet'
    <2>1. Fits(d, x) /\ Exact(x) /\ Quiet
      BY <1>3, <1>4, <1>6, <1>7, <1>12 DEF Allowed
    <2>2. "armed" \notin y.is
      BY <1>8, <2>1 DEF Fits, Watching
    <2>3. Exact(y)'
      BY <1>10, <1>11, <2>1, <2>2 DEF Exact
    <2>4. failed' = failed
      BY <1>1 DEF Advance
    <2>5. Quiet'
      BY <1>1, <2>1, <2>4 DEF Quiet
    <2> QED BY <2>3, <2>5
  <1> QED BY <1>5, <1>7, <1>9, <1>10, <1>11, <1>12 DEF OnInv, CourseInv, Stands

\* A step that queues a read, and waits.
LEMMA ReadOn ==
  ASSUME TypeInv, OnInv, SwSend, Head(prog).do \in {"read_aux", "read_main"}
  PROVE  OnInv'
  <1> DEFINE d == Head(prog)
             rq == [op |-> "rd", half |-> d.half, v |-> {}]
  <1>1. /\ UNCHANGED <<prog, guarded, failed, fresh, faults, main, aux, regs, reply, pw, bias>>
        /\ UNCHANGED <<hot, nok, prev, enL, biasL, valid, tripped, mon, expPw, expBias>>
        /\ prog \in Seq(Step) /\ prog # <<>> /\ Next /\ ~asked /\ asked' /\ d \in Step
        /\ d.do = "read_aux" => reqAux' = Append(reqAux, rq) /\ UNCHANGED reqMain
        /\ d.do = "read_main" => reqMain' = Append(reqMain, rq) /\ UNCHANGED reqAux
    BY TailOf DEF SwSend, unit, regs, seen, TypeInv, ProgInv, Next, Software
  <1>2. /\ reqMain \in Seq(MainRequest) /\ reqAux \in Seq(AuxRequest)
        /\ d.do = "read_aux" => rq \in AuxRequest
        /\ d.do = "read_main" => rq \in MainRequest /\ rq.half = "low"
        /\ rq.op = "rd" /\ Reading(rq) /\ rq.half = d.half /\ \A half : ~Write(rq, half)
    BY <1>1, StepType DEF TypeInv, MainInv, AuxInv, MainRequest, AuxRequest, Op, Reading, Write
  <1>3. PICK x \in Plan : Course(prog, x, Smooth) /\ Stands(x) /\ (Smooth => Exact(x))
    BY DEF OnInv, CourseInv
  <1>4. AskedInv /\ CoolInv /\ (Smooth => Quiet)
    BY DEF OnInv
  <1>5. CoolInv'
    BY <1>1, <1>4, CoolNext
  <1>6. reply = <<>> /\ Silent(main, reqMain) /\ Silent(aux, reqAux)
    BY <1>1 DEF TypeInv, ReadsInv, Silent
  <1>7. d.do \in {"read_aux", "read_main"}
    OBVIOUS
  <1>8. (Smooth' <=> Smooth) /\ Course(prog, x, Smooth)'
    BY <1>1, <1>3, SameCourse DEF Smooth
  <1> HIDE DEF rq
  <1>9. AskedInv'
    <2>1. reply' = <<>> /\ (reply' # <<>>) = FALSE
      BY <1>1, <1>6
    <2>2. CASE d.do = "read_aux"
      <3>1. Answers(aux, Append(reqAux, rq), d.half, FALSE)
        BY <1>2, <1>6, <2>2, AskAnswers
      <3> QED BY <1>1, <1>6, <2>1, <2>2, <3>1 DEF AskedInv
    <2>3. CASE d.do = "read_main"
      <3>1. Answers(main, Append(reqMain, rq), "low", FALSE)
        BY <1>2, <1>6, <2>3, AskAnswers
      <3> QED BY <1>1, <1>6, <2>1, <2>3, <3>1 DEF AskedInv
    <2> QED BY <1>7, <2>2, <2>3
  <1> HIDE DEF d
  <1>10. /\ \A half : /\ \A R, S : Left(main, reqMain, half, R, S) => Left(main', reqMain', half, R, S)
                      /\ Pending(main', reqMain', half) <=> Pending(main, reqMain, half)
         /\ Settled(main, reqMain) => Settled(main', reqMain')
    <2>1. CASE d.do = "read_main"
      <3>1. /\ rq \in MainRequest /\ reqMain \in Seq(MainRequest) /\ rq.op # "wr" /\ \A half : ~Write(rq, half)
            /\ main' = main /\ reqMain' = Append(reqMain, rq)
        BY <1>1, <1>2, <2>1
      <3> QED BY <3>1, AppendLeft
    <2>2. CASE d.do = "read_aux"
      BY <1>1, <2>2
    <2> QED BY <1>7, <2>1, <2>2
  <1>11. /\ \A half : /\ \A R, S : Left(aux, reqAux, half, R, S) => Left(aux', reqAux', half, R, S)
                      /\ Pending(aux', reqAux', half) <=> Pending(aux, reqAux, half)
         /\ Settled(aux, reqAux) => Settled(aux', reqAux')
    <2>1. CASE d.do = "read_aux"
      <3>1. /\ rq \in AuxRequest /\ reqAux \in Seq(AuxRequest) /\ rq.op # "wr" /\ \A half : ~Write(rq, half)
            /\ aux' = aux /\ reqAux' = Append(reqAux, rq)
        BY <1>1, <1>2, <2>1
      <3> QED BY <3>1, AppendLeft
    <2>2. CASE d.do = "read_main"
      BY <1>1, <2>2
    <2> QED BY <1>7, <2>1, <2>2
  <1>12. Stands(x)'
    BY <1>1, <1>3, <1>10, <1>11 DEF Stands, AuxStands, MainStands, RegsStand
  <1>13. ASSUME Smooth' PROVE Exact(x)' /\ Quiet'
    <2>1. Exact(x)'
      BY <1>1, <1>3, <1>8, <1>10, <1>11, <1>13 DEF Exact, AuxExact, MainExact
    <2>2. Quiet'
      BY <1>1, <1>4, <1>6, <1>8, <1>13 DEF Quiet
    <2> QED BY <2>1, <2>2
  <1> QED BY <1>5, <1>8, <1>9, <1>12, <1>13 DEF OnInv, CourseInv

\* The answer: every write before it is served.
LEMMA ReplyOn ==
  ASSUME TypeInv, OnInv, SwReply
  PROVE  OnInv'
  <1> DEFINE d == Head(prog)
  <1>1. /\ UNCHANGED <<fresh, faults, main, reqMain, aux, reqAux, regs, pw, bias>>
        /\ UNCHANGED <<hot, nok, prev, enL, biasL, valid, tripped, mon, expPw, expBias>>
        /\ prog \in Seq(Step) /\ prog # <<>> /\ Next /\ asked /\ ~asked' /\ d \in Step /\ reply # <<>>
        /\ d.do \in {"read_aux", "read_main"}
    BY TailOf DEF SwReply, unit, regs, seen, mainFsm, auxFsm, TypeInv, ProgInv, Next, Software
  <1>2. PICK x \in Plan : Course(prog, x, Smooth) /\ Stands(x) /\ (Smooth => Exact(x))
    BY DEF OnInv, CourseInv
  <1>3. AskedInv /\ CoolInv /\ (Smooth => Quiet)
    BY DEF OnInv
  <1>4. CoolInv' /\ AskedInv'
    BY <1>1, <1>3, CoolNext DEF AskedInv
  <1>5. (Smooth' <=> Smooth) /\ Smooth' \in BOOLEAN
    BY <1>1 DEF Smooth, TypeInv, FlagInv
  <1>6. Smooth => Advance
    <2>1. Smooth => reply = <<[ok |-> TRUE, v |-> Head(prog).v]>>
      BY <1>1, <1>3 DEF Quiet
    <2>2. Smooth => reply[1].ok /\ reply[1].v = Head(prog).v
      BY <2>1
    <2> QED BY <2>2 DEF SwReply
  <1>7. CASE Raise /\ ~Smooth
    <2>1. d.do \in Raising
      BY <1>1 DEF Raising
    <2>2. CourseInv'
      BY <1>1, <1>2, <1>5, <1>7, <2>1, RaiseCourse
    <2> QED BY <1>4, <1>5, <1>7, <2>2 DEF OnInv
  <1>8. CASE Advance
    <2>1. PICK y \in Plan : y = After(d, x)
      BY <1>1, AfterType
    <2>2. /\ y.pw = x.pw /\ y.bias = x.bias /\ y.expPw = x.expPw /\ y.expBias = x.expBias
          /\ y.is = x.is \cup (IF d.do = "read_aux" THEN {"aux"} ELSE {"main"})
      BY <1>1, <2>1 DEF After
    <2>3. /\ Course(prog, y, Smooth)' /\ Allowed(d, x, Smooth)
          /\ "tried" \in y.is /\ prog' # <<>> => guarded'
      BY <1>1, <1>2, <1>5, <1>8, <2>1, AdvancePlan DEF Stands
    <2>4. /\ d.do = "read_aux" => Settled(aux, reqAux)
          /\ d.do = "read_main" => Settled(main, reqMain)
      BY <1>1, <1>3 DEF AskedInv, Answers
    <2> HIDE DEF d
    <2>5. Stands(y)'
      BY <1>1, <1>2, <2>2, <2>3, <2>4 DEF Stands, AuxStands, MainStands, RegsStand
    <2>6. ASSUME Smooth' PROVE Exact(y)' /\ Quiet'
      <3>1. Exact(y)'
        BY <1>1, <1>2, <1>5, <2>2, <2>6 DEF Exact, AuxExact, MainExact, Set
      <3>2. failed' = failed
        BY <1>8 DEF Advance
      <3>3. Quiet'
        BY <1>1, <1>3, <1>5, <2>6, <3>2 DEF Quiet
      <3> QED BY <3>1, <3>3
    <2> QED BY <1>4, <2>3, <2>5, <2>6 DEF OnInv, CourseInv
  <1> QED BY <1>6, <1>7, <1>8 DEF SwReply

\* A call: what is set, or will be, is nothing.
LEMMA CallsOn ==
  ASSUME TypeInv, OnInv, Calls
  PROVE  OnInv'
  <1>1. PICK p, name, starts :
          /\ Begin(p, name, starts) /\ Latch
          /\ \/ /\ \E list \in Lists, back \in Bias : p = PowerOn(list, back)
                /\ starts = (/\ pw = {} /\ bias = {} /\ "PWR" \notin mon /\ ~tripped
                             /\ OffHalves = {} /\ Sensor \subseteq mon
                             /\ main.at # "OFF" /\ aux.at \notin {"OFF_low", "OFF_high"})
             \/ (\E disable \in DisableOnOff : p = PowerOff(disable)) /\ starts = FALSE
             \/ p = Prepare /\ starts = FALSE
    BY DEF Calls, CallPowerOn, CallPowerOff, CallPrepare
  <1>2. /\ UNCHANGED <<faults, main, reqMain, aux, reqAux, regs, pw, bias, asked, reply>>
        /\ UNCHANGED <<hot, nok, prev, enL, biasL, valid, mon, expPw, expBias>>
        /\ prog = <<>> /\ prog' = p /\ fresh' = starts /\ failed' = FALSE /\ Next /\ ~asked
    BY <1>1 DEF Begin, unit, regs, seen, mainFsm, auxFsm, TypeInv, ProgInv, FlagInv, Next
  <1>3. PICK x \in Plan : Course(prog, x, Smooth) /\ Stands(x)
    BY DEF OnInv, CourseInv
  <1>4. CoolInv /\ CoolInv' /\ AskedInv'
    BY <1>2, CoolNext DEF OnInv, AskedInv
  <1>5. Clears(x)
    BY <1>2, <1>3, CourseNone
  <1>6. expPw \subseteq Module /\ expBias \subseteq Channel
    BY DEF TypeInv, RegsInv
  <1>7. PICK y \in Plan : /\ y.pw = {} /\ y.bias = {} /\ y.expPw = expPw /\ y.expBias = expBias
                          /\ y.is = (IF "PWR" \in mon THEN {"armed"} ELSE {})
    <2> DEFINE z == [pw |-> {}, bias |-> {}, expPw |-> expPw, expBias |-> expBias,
                     is |-> IF "PWR" \in mon THEN {"armed"} ELSE {}]
    <2>1. z \in Plan
      BY <1>6 DEF Plan, Flag
    <2> QED BY <2>1
  <1>8. Stands(y)'
    <2>1. ASSUME NEW half \in Half PROVE Left(aux, reqAux, half, Part(half), {} \cap Part(half))
      <3>1. CASE "aux" \in x.is
        BY <1>3, <3>1, SettledLeft DEF Stands, AuxStands
      <3>2. CASE x.pw = {}
        BY <1>3, <3>2 DEF Stands, AuxStands
      <3> QED BY <1>5, <3>1, <3>2 DEF Clears
    <2>2. Left(main, reqMain, "low", Channel, {})
      <3>1. CASE "main" \in x.is
        BY <1>3, <3>1, SettledLeft DEF Stands, MainStands
      <3>2. CASE x.bias = {}
        BY <1>3, <3>2 DEF Stands, MainStands
      <3> QED BY <1>5, <3>1, <3>2 DEF Clears
    <2> QED BY <1>2, <1>7, <2>1, <2>2 DEF Stands, AuxStands, MainStands, RegsStand
  <1>9. Smooth' \in BOOLEAN /\ (Smooth' => starts)
    BY <1>1, <1>2 DEF Smooth
  <1>10. Course(p, y, Smooth')
    <2>1. CASE \E list \in Lists, back \in Bias : p = PowerOn(list, back)
      <3>1. Smooth' => "armed" \notin y.is
        <4>1. CASE "PWR" \in mon
          <5>1. ~Smooth'
            <6>1. starts => "PWR" \notin mon
              BY <1>1
            <6> QED BY <1>9, <4>1, <6>1
          <5> QED BY <5>1
        <4>2. CASE "PWR" \notin mon
          BY <1>7, <4>2
        <4> QED BY <4>1, <4>2
      <3> QED BY <1>7, <1>9, <2>1, <3>1, PowerOnCourse
    <2>2. CASE (\E disable \in DisableOnOff : p = PowerOff(disable)) /\ starts = FALSE
      <3>1. Smooth' = FALSE
        BY <1>9, <2>2
      <3> QED BY <2>2, <3>1, PowerOffCourse, CallsKnown
    <2>3. CASE p = Prepare /\ starts = FALSE
      <3>1. Smooth' = FALSE
        BY <1>9, <2>3
      <3> QED BY <1>7, <2>3, <3>1, PrepareCourse
    <2> QED BY <1>1, <2>1, <2>2, <2>3
  <1>11. ASSUME Smooth' PROVE Exact(y)' /\ Quiet'
    <2>1. /\ pw = {} /\ bias = {} /\ "PWR" \notin mon /\ ~tripped /\ OffHalves = {} /\ Sensor \subseteq mon
          /\ main.at # "OFF" /\ aux.at \notin {"OFF_low", "OFF_high"} /\ faults = 0
      BY <1>1, <1>2, <1>9, <1>11 DEF Smooth
    <2>2. Exact(y)'
      BY <1>2, <1>7, <2>1 DEF Exact, AuxExact, MainExact
    <2>3. hot = {} /\ nok = {} /\ prev = {} /\ valid = {}
      BY <1>4, <2>1 DEF CoolInv, TypeInv, SeenInv
    <2>4. ~tripped'
      <3>1. Still'
        BY <1>2, <2>3 DEF Still
      <3> QED BY <1>1, <2>1, <3>1, StillOffNext DEF NothingOff, Latch
    <2>5. Quiet'
      BY <1>2, <2>1, <2>3, <2>4 DEF Quiet
    <2> QED BY <2>2, <2>5
  <1> QED BY <1>2, <1>4, <1>8, <1>10, <1>11 DEF OnInv, CourseInv

LEMMA InitOn == Init => OnInv
  <1> SUFFICES ASSUME Init PROVE OnInv
    OBVIOUS
  <1>1. /\ prog = <<>> /\ asked = FALSE /\ fresh = FALSE /\ hot = {} /\ nok = {} /\ prev = {}
        /\ reqMain = <<>> /\ reqAux = <<>> /\ main.at = "IDLE" /\ aux.at = "IDLE"
    BY DEF Init, FwInit
  <1>2. TypeInv
    BY InitType
  <1>3. PICK y \in Plan : /\ y.pw = pw /\ y.bias = bias /\ y.expPw = expPw /\ y.expBias = expBias
                          /\ y.is = {"aux", "main"} \cup (IF "PWR" \in mon THEN {"armed"} ELSE {})
    <2> DEFINE z == [pw |-> pw, bias |-> bias, expPw |-> expPw, expBias |-> expBias,
                     is |-> {"aux", "main"} \cup (IF "PWR" \in mon THEN {"armed"} ELSE {})]
    <2>1. z \in Plan
      BY <1>2 DEF TypeInv, UnitInv, RegsInv, Plan, Flag
    <2> QED BY <2>1
  <1>4. Settled(main, reqMain) /\ Settled(aux, reqAux)
    BY <1>1 DEF Settled, NoWrite
  <1>5. Stands(y)
    BY <1>1, <1>3, <1>4, SettledLeft DEF Stands, AuxStands, MainStands, RegsStand
  <1>6. Course(prog, y, Smooth)
    BY <1>1, <1>3, CourseNone DEF Clears
  <1> QED BY <1>1, <1>5, <1>6 DEF OnInv, AskedInv, CoolInv, CourseInv, Smooth

LEMMA OnNext == TypeInv /\ OnInv /\ [Next]_vars => OnInv'
  <1> SUFFICES ASSUME TypeInv, OnInv, [Next]_vars PROVE OnInv'
    OBVIOUS
  <1>1. CASE UNCHANGED vars
    BY <1>1 DEF vars, fwVars, swVars, unit, regs, seen, mainFsm, auxFsm, OnInv, AskedInv, CoolInv, CourseInv,
                Smooth, Quiet, Stands, AuxStands, MainStands, RegsStand, Exact, AuxExact, MainExact
  <1>2. CASE SwSend
    BY <1>2, WriteOn, ReadOn DEF SwSend
  <1>3. CASE Next
    BY <1>2, <1>3, FirmwareOn, WorldOn, PollOn, RegisterOn, ReplyOn, CallsOn DEF Next, Software
  <1> QED BY <1>1, <1>3

\* A power-on that begins with everything off, no interlock enabled and no
\* turn-off of one under way does not raise unless there was a fault: the
\* interlock, enabled with the masks of what is on, never takes the modules that
\* power_on_modules turns on one after the other for a trip.
THEOREM CleanStart == Spec => []CleanPowerOn
  <1>2. TypeInv => faults \in Nat
    BY PartsKnown DEF TypeInv, FlagInv
  <1>3. TypeInv /\ OnInv => CleanPowerOn
    BY <1>2 DEF OnInv, Smooth, Quiet, CleanPowerOn
  <1> QED BY <1>3, InitType, NextType, InitOn, OnNext, PTL DEF Spec
=============================================================================
