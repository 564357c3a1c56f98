---------------------------- MODULE SwtLinkProofs ----------------------------
(***************************************************************************)
(* SwtLink is correct for any number of channels, addresses, commands of a *)
(* transaction, polls and transactions and for any modulus of the word     *)
(* counter: who holds the lock is who is in a transaction; with one user   *)
(* of the card every word goes over its channel and, until an answer came  *)
(* too late for a call, every call returns the answers to its own reads.   *)
(***************************************************************************)
EXTENDS SwtLink, TLAPS, SequenceTheorems

-----------------------------------------------------------------------------
\* Where a process holds the lock, and where its words are under way.
InTransaction == {"select", "send", "reselect", "avail", "prev", "pulse", "count", "low"}
ScaLocked == {"sca_tx", "sca_send", "sca_wait", "sca_rd"}
Locked == InTransaction \cup ScaLocked

\* The steps of an SCA call that FlxSwtCommunication does not have, and what
\* they all have in common.
ScaWork(p) == ScaLock(p) \/ ScaTxBusy(p) \/ ScaSend(p) \/ ScaWaitBusy(p) \/ ScaRd(p)
ScaPlaces == {"idle", "sca", "sca_reply"} \cup ScaLocked
ScaMoved(p) ==
  /\ pc[p] \in ScaPlaces \ {"idle"}
  /\ \E there \in ScaPlaces \ {"sca"} :
       /\ pc' = [pc EXCEPT ![p] = there]
       /\ there \in {"sca_tx", "sca_wait"} => retries'[p] < MaxScaPoll
       /\ \/ holder = None /\ holder' = p /\ there \in ScaLocked
          \/ UNCHANGED holder /\ pc[p] \in ScaLocked /\ there \in ScaLocked
          \/ holder' = None /\ pc[p] \in ScaLocked /\ there \notin ScaLocked
  /\ sca' \in ScaState
  /\ retries' \in [Procs -> (0..MaxPoll) \cup (0..MaxScaPoll)]
  /\ sca_sent' \in [Procs -> (Channels \cup {None}) \X (Channels \cup {None})]
  /\ UNCHANGED <<swtVars, objVars, op, nxt, prev_cnt, msg, outcome, nops>>

\* The type invariant also knows that a transaction has a channel, a command
\* to send, and a read to wait for, and an SCA poll one more read.
Placed(p) ==
  /\ pc[p] \in InTransaction => op[p].ch \in Channels /\ Len(op[p].cmds) > 0
  /\ pc[p] \in {"select", "send"} => nxt[p] <= Len(op[p].cmds) /\ msg[p] = <<>>
  /\ pc[p] \in InTransaction \ {"select", "send"} => Len(msg[p]) < Len(op[p].asked)
Typed == TypeOK /\ \A p \in Procs : Placed(p)
PollLeft(p) == pc[p] \in {"sca_tx", "sca_wait"} => retries[p] < MaxScaPoll
TypeInv == Typed /\ \A p \in Procs : PollLeft(p)

\* The lock is held by the process that is in a transaction.
LockHeld == \A p \in Procs : holder = p <=> pc[p] \in Locked

\* Who may rely on the channel that is remembered: the only process that opened
\* the card, or processes that never do and leave the SCA alone.
OneProcess == \A p, q \in Procs : p = q
SoundMemory == OneProcess \/ (AlwaysSet /\ ScaChannels = {})

LinkInv ==
  /\ \A p \in Procs : pc[p] \in InTransaction \ {"select"} => sc_link = op[p].ch
  /\ OneProcess => \A p \in Procs : selected_gbt_channel[p] \in {None, sc_link}

\* The counter that is remembered is the card's, and a pulse makes it differ.
CounterInv(p) ==
  /\ pc[p] # "count" => ~popping /\ prev_swt_cntr[p] \in {None, swt_cntr}
  /\ pc[p] \in {"prev", "pulse"} => fifo[sc_link] # <<>>
  /\ pc[p] = "pulse" => prev_cnt[p] = swt_cntr
  /\ pc[p] = "count" => IF popping THEN prev_cnt[p] = swt_cntr /\ fifo[sc_link] # <<>>
                                   ELSE swt_cntr = (prev_cnt[p] + 1) % CntrMod

\* The answers to the commands sent so far: those taken, the one the card
\* shows, those in the FIFO and those the unit owes, in this order.
Taken(p) == Len(msg[p])
Seen(p) == Taken(p) + IF pc[p] = "low" \/ (pc[p] = "count" /\ ~popping) THEN 1 ELSE 0
Arrived(p) == Seen(p) + Len(fifo[op[p].ch])
PipeInv(p) ==
  /\ \A c \in Channels : pc[p] \notin InTransaction \/ c # op[p].ch => fifo[c] = <<>> /\ ru[c] = <<>>
  /\ pc[p] = "select" => op[p].asked = <<>> /\ fifo[op[p].ch] = <<>> /\ ru[op[p].ch] = <<>>
  /\ pc[p] \in InTransaction =>
       /\ Arrived(p) + Len(ru[op[p].ch]) = Len(op[p].asked)
       /\ \A i \in 1..Taken(p) : msg[p][i] = Answer(op[p], i)
       /\ Seen(p) > Taken(p) => rx = Answer(op[p], Seen(p))
       /\ \A i \in DOMAIN fifo[op[p].ch] : fifo[op[p].ch][i] = Answer(op[p], Seen(p) + i)
       /\ \A i \in DOMAIN ru[op[p].ch] : ru[op[p].ch][i] = Answer(op[p], Arrived(p) + i)

Returned(p) == outcome[p].kind = "ok" /\ outcome[p].msg = Answers(outcome[p].op)
AnswersInv ==
  \A p \in Procs :
    outcome[p].late \/ (CounterInv(p) /\ PipeInv(p) /\ (outcome[p].kind = "none" \/ Returned(p)))
-----------------------------------------------------------------------------
\* What the queues' operators do, element by element.

LEMMA TailFacts ==
  ASSUME NEW S, NEW s \in Seq(S), s # <<>>
  PROVE  /\ Len(s) \in Nat \ {0} /\ DOMAIN s = 1..Len(s)
         /\ Head(s) = s[1] /\ Head(s) \in S
         /\ Tail(s) \in Seq(S) /\ Len(Tail(s)) = Len(s) - 1
         /\ DOMAIN Tail(s) = 1..(Len(s) - 1)
         /\ \A k \in 1..(Len(s) - 1) : Tail(s)[k] = s[k + 1]
BY EmptySeq, HeadTailProperties, LenProperties, ElementOfSeq

LEMMA AppendFacts ==
  ASSUME NEW S, NEW s \in Seq(S), NEW e \in S
  PROVE  /\ Len(s) \in Nat /\ DOMAIN s = 1..Len(s)
         /\ Append(s, e) \in Seq(S) /\ Append(s, e) # <<>> /\ Len(Append(s, e)) = Len(s) + 1
         /\ DOMAIN Append(s, e) = 1..(Len(s) + 1)
         /\ \A k \in 1..Len(s) : Append(s, e)[k] = s[k]
         /\ Append(s, e)[Len(s) + 1] = e
BY AppendProperties, LenProperties

\* The commands of a transaction are a sequence of commands.
LEMMA CommandFacts ==
  ASSUME NEW cmds \in Commands \cup {<<>>}
  PROVE  /\ cmds \in Seq(Addresses \cup {WriteCmd}) /\ Len(cmds) \in 0..MaxBatch
         /\ DOMAIN cmds = 1..Len(cmds)
         /\ \A i \in 1..Len(cmds) : cmds[i] \in Addresses \cup {WriteCmd}
         /\ cmds \in Commands => Len(cmds) > 0
<1>1. CASE cmds = <<>>
  <2>1. cmds \in Seq(Addresses \cup {WriteCmd}) /\ Len(cmds) = 0 /\ DOMAIN cmds = 1..0
    BY <1>1, EmptySeq
  <2>2. cmds \notin Commands
    <3> SUFFICES ASSUME NEW n \in 1..MaxBatch, cmds \in [1..n -> Addresses \cup {WriteCmd}]
                 PROVE  FALSE
      BY DEF Commands
    <3> QED
      BY <2>1, SwtLinkAssumption
  <2> QED
    BY <2>1, <2>2, SwtLinkAssumption
<1>2. CASE cmds \in Commands
  <2>1. PICK n \in 1..MaxBatch : cmds \in [1..n -> Addresses \cup {WriteCmd}]
    BY <1>2 DEF Commands
  <2>2. cmds \in Seq(Addresses \cup {WriteCmd}) /\ Len(cmds) = n /\ DOMAIN cmds = 1..n
    BY <2>1, SwtLinkAssumption
  <2> QED
    BY <2>1, <2>2, SwtLinkAssumption
<1> QED
  BY <1>1, <1>2

\* A step of a call ends it, or goes on in it.
LEMMA AskingFacts ==
  ASSUME NEW o \in Op, NEW i \in DOMAIN o.cmds
  PROVE  /\ Asking(o, o.cmds[i]) \in Op
         /\ Asking(o, o.cmds[i]).cmds = o.cmds /\ Asking(o, o.cmds[i]).ch = o.ch
         /\ Asking(o, o.cmds[i]).tag = o.tag
         /\ IF o.cmds[i] = WriteCmd
              THEN Asking(o, o.cmds[i]) = o
              ELSE /\ o.cmds[i] \in Addresses
                   /\ Asking(o, o.cmds[i]).asked = Append(o.asked, o.cmds[i])
<1>1. o.cmds \in Commands \cup {<<>>} /\ o.asked \in Seq(Addresses)
  BY DEF Op
<1>2. o.cmds[i] \in Addresses \cup {WriteCmd}
  BY <1>1, CommandFacts
<1>3. CASE o.cmds[i] = WriteCmd
  BY <1>3 DEF Asking, IsRead
<1>4. CASE o.cmds[i] # WriteCmd
  <2>1. Append(o.asked, o.cmds[i]) \in Seq(Addresses)
    BY <1>1, <1>2, <1>4, AppendFacts
  <2> QED
    BY <2>1, <1>2, <1>4 DEF Asking, IsRead, Op
<1> QED
  BY <1>3, <1>4

-----------------------------------------------------------------------------
\* Types.

LEMMA TypeInvInit == Init => TypeInv
<1> SUFFICES ASSUME Init PROVE TypeInv
  OBVIOUS
<1> USE SwtLinkAssumption DEF Init
<1>1. NoOp \in Op
  BY EmptySeq DEF NoOp, Op
<1>2. <<>> \in Seq(Word \cup {NoWord}) /\ <<>> \in Seq(Word)
  BY EmptySeq
<1>3. op \in [Procs -> Op] /\ outcome \in [Procs -> Outcome] /\ msg \in [Procs -> Seq(Word \cup {NoWord})]
  BY <1>1, <1>2 DEF Outcome, Kinds
<1>4. ru \in [Channels -> Seq(Word)] /\ fifo \in [Channels -> Seq(Word)]
  BY <1>2
<1>5. /\ pc \in [Procs -> Location] /\ nxt \in [Procs -> 1..MaxBatch + 1]
      /\ retries \in [Procs -> (0..MaxPoll) \cup (0..MaxScaPoll)] /\ prev_cnt \in [Procs -> 0..CntrMod - 1]
      /\ swt_cntr \in 0..CntrMod - 1 /\ nops \in 0..MaxOps /\ sca \in ScaState
  BY DEF Location, ScaState
<1>6. /\ selected_gbt_channel \in [Procs -> Channels \cup {None}]
      /\ prev_swt_cntr \in [Procs -> (0..CntrMod - 1) \cup {None}]
      /\ sca_selected \in [Procs -> Channels \cup {None}]
      /\ sca_sent \in [Procs -> (Channels \cup {None}) \X (Channels \cup {None})]
  OBVIOUS
<1>7. TypeOK
  BY <1>3, <1>4, <1>5, <1>6 DEF TypeOK
<1> QED
  BY <1>7 DEF TypeInv, Typed, Placed, PollLeft, InTransaction, Init

LEMMA ScaWorkStep ==
  ASSUME TypeInv, NEW p \in Procs, ScaWork(p)
  PROVE  ScaMoved(p)
<1> USE SwtLinkAssumption
<1> DEFINE T == [Procs -> (0..MaxPoll) \cup (0..MaxScaPoll)]
           S == [Procs -> (Channels \cup {None}) \X (Channels \cup {None})]
           Going(there) ==
             /\ pc' = [pc EXCEPT ![p] = there]
             /\ there \in {"sca_tx", "sca_wait"} => retries'[p] < MaxScaPoll
             /\ retries' \in T
           Holding(there) ==
             \/ holder = None /\ holder' = p /\ there \in ScaLocked
             \/ UNCHANGED holder /\ pc[p] \in ScaLocked /\ there \in ScaLocked
             \/ holder' = None /\ pc[p] \in ScaLocked /\ there \notin ScaLocked
           Moved == \E there \in ScaPlaces \ {"sca"} : Going(there) /\ Holding(there)
<1>1. /\ retries \in T /\ sca_sent \in S /\ sca \in ScaState /\ pc \in [Procs -> Location]
      /\ pc[p] \in {"sca_tx", "sca_wait"} => retries[p] < MaxScaPoll
  BY DEF TypeInv, Typed, TypeOK, PollLeft
<1>2. ASSUME NEW there \in ScaLocked, ScaGoOn(p, there), pc[p] \in ScaLocked
      PROVE  Moved
  <2>1. Going(there)
    BY <1>1, <1>2 DEF ScaGoOn
  <2> QED
    BY <1>2, <2>1 DEF ScaGoOn, ScaPlaces, ScaLocked
<1>3. ASSUME NEW there \in {"idle", "sca_reply"}, ScaUnlock(p, there), pc[p] \in ScaLocked
      PROVE  Moved
  <2>1. Going(there)
    BY <1>1, <1>3 DEF ScaUnlock
  <2> QED
    BY <1>3, <2>1 DEF ScaUnlock, ScaPlaces, ScaLocked
<1>4. ASSUME ScaPoll(p), ~LastPoll(p), pc[p] \in {"sca_tx", "sca_wait"}
      PROVE  Moved
  <2>1. retries[p] \in Nat /\ retries[p] < MaxScaPoll /\ retries[p] + 1 # MaxScaPoll
    BY <1>1, <1>4 DEF LastPoll
  <2>2. retries[p] + 1 \in 0..MaxScaPoll /\ retries[p] + 1 < MaxScaPoll
    BY <2>1
  <2>3. Going(pc[p])
    BY <1>1, <1>4, <2>2 DEF ScaPoll
  <2> QED
    BY <1>4, <2>3 DEF ScaPoll, ScaPlaces, ScaLocked
<1>5. CASE ScaLock(p)
  <2>1. PICK there \in {"sca_tx", "sca_rd"} :
          pc' = [pc EXCEPT ![p] = there] /\ pc[p] \in {"sca", "sca_reply"}
    BY <1>5 DEF ScaLock
  <2>2. Going(there)
    BY <1>1, <1>5, <2>1 DEF ScaLock
  <2>3. Moved
    BY <1>5, <2>1, <2>2 DEF ScaLock, ScaPlaces, ScaLocked
  <2> HIDE DEF Moved
  <2>4. UNCHANGED <<swtVars, objVars, op, nxt, prev_cnt, msg, outcome, nops, sca, sca_sent>>
    BY <1>5 DEF ScaLock, swtVars, cardVars, endVars
  <2>5. pc[p] \in ScaPlaces \ {"idle"}
    BY <2>1 DEF ScaPlaces
  <2>6. Moved /\ retries' \in T
    BY <2>3, <2>2
  <2> QED
    BY <1>1, <2>4, <2>5, <2>6 DEF ScaMoved, Moved
<1>6. ASSUME NEW here \in ScaLocked, InScaCall(p, here), Moved,
             sca' \in ScaState, sca_sent' \in S
      PROVE  ScaMoved(p)
  <2>1. pc[p] \in ScaPlaces \ {"idle"} /\ retries' \in T
    BY <1>6 DEF InScaCall, ScaPlaces, ScaLocked
  <2> QED
    BY <1>6, <2>1 DEF ScaMoved, InScaCall
<1> HIDE DEF Moved
<1>7. CASE ScaTxBusy(p)
  <2>1. InScaCall(p, "sca_tx") /\ "sca_tx" \in ScaLocked /\ "sca_send" \in ScaLocked
    BY <1>7 DEF ScaTxBusy, ScaLocked
  <2>2. pc[p] = "sca_tx" /\ UNCHANGED <<sca, sca_sent>>
    BY <1>7 DEF ScaTxBusy, InScaCall
  <2>3. \/ ScaGoOn(p, "sca_send")
        \/ ScaPoll(p) /\ ~LastPoll(p)
        \/ ScaUnlock(p, "idle")
    BY <1>7 DEF ScaTxBusy
  <2>4. Moved
    BY <2>1, <2>2, <2>3, <1>2, <1>3, <1>4
  <2> QED
    BY <1>1, <1>6, <2>1, <2>2, <2>4
<1>8. CASE ScaSend(p)
  <2>1. InScaCall(p, "sca_send") /\ "sca_send" \in ScaLocked /\ "sca_wait" \in ScaLocked
    BY <1>8 DEF ScaSend, ScaLocked
  <2>2. pc[p] = "sca_send" /\ sca' \in ScaState /\ ScaGoOn(p, "sca_wait")
        /\ sca_sent' = [sca_sent EXCEPT ![p] = <<op[p].ch, sc_link>>]
    BY <1>8 DEF ScaSend, InScaCall
  <2>3. <<op[p].ch, sc_link>> \in (Channels \cup {None}) \X (Channels \cup {None})
    <3>1. op[p] \in Op /\ sc_link \in Channels
      BY DEF TypeInv, Typed, TypeOK
    <3> QED
      BY <3>1 DEF Op
  <2>4. sca_sent' \in S
    BY <1>1, <2>2, <2>3
  <2>5. Moved
    BY <2>1, <2>2, <1>2
  <2> QED
    BY <1>6, <2>1, <2>2, <2>4, <2>5
<1>9. CASE ScaWaitBusy(p)
  <2>1. InScaCall(p, "sca_wait") /\ "sca_wait" \in ScaLocked
    BY <1>9 DEF ScaWaitBusy, ScaLocked
  <2>2. pc[p] = "sca_wait" /\ UNCHANGED <<sca, sca_sent>>
    BY <1>9 DEF ScaWaitBusy, InScaCall
  <2>3. \/ ScaPoll(p) /\ ~LastPoll(p)
        \/ \E there \in {"idle", "sca_reply"} : ScaUnlock(p, there)
    BY <1>9 DEF ScaWaitBusy
  <2>4. Moved
    BY <2>1, <2>2, <2>3, <1>3, <1>4
  <2> QED
    BY <1>1, <1>6, <2>1, <2>2, <2>4
<1>10. CASE ScaRd(p)
  <2>1. InScaCall(p, "sca_rd") /\ "sca_rd" \in ScaLocked
    BY <1>10 DEF ScaRd, ScaLocked
  <2>2. pc[p] = "sca_rd" /\ UNCHANGED <<sca, sca_sent>> /\ ScaUnlock(p, "idle")
    BY <1>10 DEF ScaRd, InScaCall
  <2>3. Moved
    BY <2>1, <2>2, <1>3
  <2> QED
    BY <1>1, <1>6, <2>1, <2>2, <2>3
<1> QED
  BY <1>5, <1>7, <1>8, <1>9, <1>10 DEF ScaWork

LEMMA TypedStep == TypeInv /\ [Next]_vars => Typed'
<1> SUFFICES ASSUME TypeInv, [Next]_vars
             PROVE  Typed'
  OBVIOUS
<1> USE SwtLinkAssumption
<1>1. CASE UNCHANGED vars
  BY <1>1 DEF TypeInv, Typed, TypeOK, Placed, vars, cardVars, objVars, callVars, endVars
<1>2. CASE Hardware
  <2>1. ASSUME NEW c \in Channels, RuAnswers(c)
        PROVE  Typed'
    <3>1. ru[c] \in Seq(Word) /\ fifo[c] \in Seq(Word) /\ ru[c] # <<>>
      BY <2>1 DEF RuAnswers, TypeInv, Typed, TypeOK
    <3>2. Tail(ru[c]) \in Seq(Word) /\ Append(fifo[c], Head(ru[c])) \in Seq(Word)
      BY <3>1, TailFacts, AppendFacts
    <3> QED
      BY <2>1, <3>2 DEF RuAnswers, TypeInv, Typed, TypeOK, Placed, objVars, callVars, endVars
  <2>2. CASE CardPops
    <3>1. CASE fifo[sc_link] = <<>>
      BY <2>2, <3>1 DEF CardPops, TypeInv, Typed, TypeOK, Placed, objVars, callVars, endVars
    <3>2. CASE fifo[sc_link] # <<>>
      <4>1. Head(fifo[sc_link]) \in Word /\ Tail(fifo[sc_link]) \in Seq(Word)
        BY <3>2, TailFacts DEF TypeInv, Typed, TypeOK
      <4>2. (swt_cntr + 1) % CntrMod \in 0..CntrMod - 1
        BY DEF TypeInv, Typed, TypeOK
      <4> QED
        <5>3. /\ rx' = Head(fifo[sc_link]) /\ swt_cntr' = (swt_cntr + 1) % CntrMod
              /\ popping' = FALSE /\ fifo' = [fifo EXCEPT ![sc_link] = Tail(@)]
          BY <2>2, <3>2 DEF CardPops
        <5>4. fifo' \in [Channels -> Seq(Word)]
          BY <4>1, <5>3 DEF TypeInv, Typed, TypeOK
        <5>1. /\ rx' \in Word /\ swt_cntr' \in 0..CntrMod - 1 /\ popping' = FALSE
              /\ fifo' \in [Channels -> Seq(Word)]
          BY <5>3, <5>4, <4>1, <4>2
        <5>2. UNCHANGED <<sc_link, ru, sca, holder, objVars, callVars, endVars>>
          BY <2>2 DEF CardPops
        <5> QED
          BY <5>1, <5>2 DEF TypeInv, Typed, TypeOK, Placed, objVars, callVars, endVars
    <3> QED
      BY <3>1, <3>2
  <2>3. CASE ScaProceeds
    BY <2>3 DEF ScaProceeds, TypeInv, Typed, TypeOK, Placed, swtVars, objVars, callVars, endVars
  <2> QED
    BY <1>2, <2>1, <2>2, <2>3 DEF Hardware
<1>3. ASSUME NEW p \in Procs, Begin(p)
      PROVE  Typed'
  <2>1. PICK c \in SwtChannels, cmds \in Commands :
          op' = [op EXCEPT ![p] = [ch |-> c, cmds |-> cmds, asked |-> <<>>,
                                   single |-> Len(cmds) = 1, tag |-> nops]]
    BY <1>3 DEF Begin
  <2>2. nops \in 0..MaxOps /\ nops < MaxOps /\ nops' = nops + 1
    BY <1>3 DEF Begin, TypeInv, Typed, TypeOK
  <2>3. <<>> \in Seq(Addresses) /\ <<>> \in Seq(Word \cup {NoWord})
    BY EmptySeq
  <2>4. op' \in [Procs -> Op]
    BY <2>1, <2>2, <2>3 DEF Op, TypeInv, Typed, TypeOK
  <2>5. Len(cmds) > 0 /\ Len(cmds) \in 0..MaxBatch
    BY CommandFacts
  <2>6. /\ pc' = [pc EXCEPT ![p] = "select"] /\ nxt' = [nxt EXCEPT ![p] = 1]
        /\ msg' = [msg EXCEPT ![p] = <<>>] /\ holder' = p
        /\ UNCHANGED <<cardVars, objVars, retries, prev_cnt, outcome, sca_sent>>
    BY <1>3 DEF Begin
  <2>7. /\ pc' \in [Procs -> Location] /\ nxt' \in [Procs -> 1..MaxBatch + 1]
        /\ msg' \in [Procs -> Seq(Word \cup {NoWord})]
    <3>1. "select" \in Location
      BY DEF Location
    <3>2. 1 \in 1..MaxBatch + 1
      BY SwtLinkAssumption
    <3>3. pc' \in [Procs -> Location]
      BY <2>6, <3>1 DEF TypeInv, Typed, TypeOK
    <3>4. nxt' \in [Procs -> 1..MaxBatch + 1]
      BY <2>6, <3>2 DEF TypeInv, Typed, TypeOK
    <3>5. msg' \in [Procs -> Seq(Word \cup {NoWord})]
      BY <2>3, <2>6 DEF TypeInv, Typed, TypeOK
    <3> QED
      BY <3>3, <3>4, <3>5
  <2>8. nops' \in 0..MaxOps
    BY <2>2, SwtLinkAssumption
  <2>9. TypeOK'
    BY <2>4, <2>6, <2>7, <2>8 DEF TypeInv, Typed, TypeOK, cardVars, objVars
  <2>10. op'[p].ch \in Channels /\ op'[p].cmds = cmds
    BY <2>1 DEF TypeInv, Typed, TypeOK
  <2>11. ASSUME NEW q \in Procs PROVE Placed(q)'
    <3>1. CASE q = p
      BY <2>5, <2>6, <2>10, <3>1 DEF TypeInv, Typed, TypeOK, Placed, InTransaction
    <3>2. CASE q # p
      BY <2>1, <2>6, <3>2 DEF TypeInv, Typed, TypeOK, Placed
    <3> QED
      BY <3>1, <3>2
  <2> QED
    BY <2>9, <2>11 DEF TypeInv, Typed
<1>4. ASSUME NEW p \in Procs, ResetScCore(p)
      PROVE  Typed'
  <2>1. fifo' \in [Channels -> Seq(Word)]
    BY <1>4, EmptySeq DEF ResetScCore
  <2>2. /\ nops < MaxOps /\ nops' = nops + 1
        /\ prev_swt_cntr' = [prev_swt_cntr EXCEPT ![p] = None]
        /\ UNCHANGED <<sc_link, ru, popping, rx, swt_cntr, sca, holder, selected_gbt_channel,
                       sca_selected, callVars, outcome, sca_sent>>
    BY <1>4 DEF ResetScCore
  <2>3. prev_swt_cntr' \in [Procs -> (0..CntrMod - 1) \cup {None}] /\ nops' \in 0..MaxOps
    BY <2>2 DEF TypeInv, Typed, TypeOK
  <2>4. TypeOK'
    BY <2>1, <2>2, <2>3 DEF TypeInv, Typed, TypeOK, callVars
  <2>5. UNCHANGED <<pc, op, nxt, msg>>
    BY <2>2 DEF callVars
  <2> QED
    BY <2>4, <2>5 DEF TypeInv, Typed, Placed
<1>5. ASSUME NEW p \in Procs, ScaCheckChannel(p)
      PROVE  Typed'
  <2>1. PICK c \in ScaChannels :
          /\ op' = [op EXCEPT ![p] = [NoOp EXCEPT !.ch = c]]
          /\ IF c # sca_selected[p]
               THEN SetGbtChannel(p, c)
               ELSE UNCHANGED <<selected_gbt_channel, sc_link>>
          /\ sca_selected' = [sca_selected EXCEPT ![p] = c]
    BY <1>5 DEF ScaCheckChannel
  <2>2. [NoOp EXCEPT !.ch = c] \in Op
    <3>1. NoOp \in Op /\ c \in Channels
      BY EmptySeq DEF NoOp, Op
    <3> QED
      BY <3>1 DEF Op
  <2>3. op' \in [Procs -> Op] /\ sca_selected' \in [Procs -> Channels \cup {None}]
    BY <2>1, <2>2 DEF TypeInv, Typed, TypeOK
  <2>4. sc_link' \in Channels /\ selected_gbt_channel' \in [Procs -> Channels \cup {None}]
    <3>1. \/ selected_gbt_channel' = [selected_gbt_channel EXCEPT ![p] = c] /\ sc_link' = c
          \/ UNCHANGED <<selected_gbt_channel, sc_link>>
      BY <2>1 DEF SetGbtChannel
    <3>2. c \in Channels
      OBVIOUS
    <3>3. CASE selected_gbt_channel' = [selected_gbt_channel EXCEPT ![p] = c] /\ sc_link' = c
      BY <3>2, <3>3 DEF TypeInv, Typed, TypeOK
    <3>4. CASE UNCHANGED <<selected_gbt_channel, sc_link>>
      BY <3>4 DEF TypeInv, Typed, TypeOK
    <3> QED
      BY <3>1, <3>3, <3>4
  <2>8. nops' \in 0..MaxOps
    <3>1. nops' = nops + 1 /\ nops < MaxOps /\ nops \in 0..MaxOps
      BY <1>5 DEF ScaCheckChannel, TypeInv, Typed, TypeOK
    <3> QED
      BY <3>1
  <2>5. /\ pc' = [pc EXCEPT ![p] = "sca"] /\ nxt' = [nxt EXCEPT ![p] = 1]
        /\ UNCHANGED <<ru, fifo, popping, rx, swt_cntr, sca, holder, prev_swt_cntr,
                       retries, prev_cnt, msg, outcome, sca_sent>>
    BY <1>5 DEF ScaCheckChannel
  <2>6. pc' \in [Procs -> Location] /\ nxt' \in [Procs -> 1..MaxBatch + 1]
    BY <2>5 DEF TypeInv, Typed, TypeOK, Location
  <2>7. TypeOK'
    BY <2>3, <2>4, <2>5, <2>6, <2>8 DEF TypeInv, Typed, TypeOK
  <2> QED
    BY <2>1, <2>5, <2>7 DEF TypeInv, Typed, TypeOK, Placed, InTransaction
<1>6. ASSUME NEW p \in Procs, Select(p)
      PROVE  Typed'
  <2>1. sc_link' \in Channels /\ selected_gbt_channel' \in [Procs -> Channels \cup {None}]
    BY <1>6 DEF Select, SelectChannel, SetGbtChannel, TypeInv, Typed, TypeOK, Placed, InTransaction
  <2>2. /\ \/ pc[p] = "select" /\ pc' = [pc EXCEPT ![p] = "send"]
           \/ pc[p] = "reselect" /\ pc' = [pc EXCEPT ![p] = "avail"]
        /\ UNCHANGED <<ru, fifo, popping, rx, swt_cntr, sca, holder, prev_swt_cntr, sca_selected,
                       op, nxt, retries, prev_cnt, msg, endVars>>
    BY <1>6 DEF Select
  <2>3. pc' \in [Procs -> Location]
    <3>1. pc' = [pc EXCEPT ![p] = "send"] \/ pc' = [pc EXCEPT ![p] = "avail"]
      BY <2>2
    <3> QED
      BY <3>1 DEF TypeInv, Typed, TypeOK, Location
  <2>4. TypeOK'
    BY <2>1, <2>2, <2>3 DEF TypeInv, Typed, TypeOK, endVars
  <2>5. /\ \A q \in Procs : q # p => pc'[q] = pc[q]
        /\ \/ pc[p] = "select" /\ pc'[p] = "send"
           \/ pc[p] = "reselect" /\ pc'[p] = "avail"
        /\ UNCHANGED <<op, nxt, msg>>
    BY <2>2 DEF TypeInv, Typed, TypeOK
  <2>6. ASSUME NEW q \in Procs PROVE Placed(q)'
    <3>1. Placed(q)
      BY DEF TypeInv, Typed
    <3> QED
      BY <2>5, <3>1 DEF Placed, InTransaction
  <2> QED
    BY <2>4, <2>6 DEF TypeInv, Typed
<1>7. ASSUME NEW p \in Procs, Send(p)
      PROVE  Typed'
  <2> DEFINE o == Asking(op[p], op[p].cmds[nxt[p]])
  <2>1. /\ op[p] \in Op /\ op[p].ch \in Channels /\ msg[p] = <<>>
        /\ nxt[p] \in 1..Len(op[p].cmds)
    BY <1>7 DEF Send, TypeInv, Typed, TypeOK, Placed, InTransaction
  <2>2. Len(op[p].cmds) \in 0..MaxBatch /\ DOMAIN op[p].cmds = 1..Len(op[p].cmds)
    BY <2>1, CommandFacts DEF Op
  <2>3. /\ o \in Op /\ o.cmds = op[p].cmds /\ o.ch = op[p].ch
        /\ IsRead(op[p].cmds[nxt[p]]) => op[p].cmds[nxt[p]] \in Addresses
    BY <2>1, <2>2, AskingFacts DEF IsRead
  <2>4. op' = [op EXCEPT ![p] = o] /\ op' \in [Procs -> Op] /\ op'[p] = o
    BY <1>7, <2>3 DEF Send, TypeInv, Typed, TypeOK
  <2>5. ru' \in [Channels -> Seq(Word)]
    <3>1. CASE IsRead(op[p].cmds[nxt[p]])
      <4> DEFINE w == [ch |-> sc_link, addr |-> op[p].cmds[nxt[p]], tag |-> op[p].tag]
      <4>1. w \in Word /\ ru[sc_link] \in Seq(Word)
        BY <2>1, <2>3, <3>1 DEF Word, Op, TypeInv, Typed, TypeOK
      <4>2. Append(ru[sc_link], w) \in Seq(Word)
        BY <4>1, AppendFacts
      <4>3. ru' = [ru EXCEPT ![sc_link] = Append(@, w)]
        BY <1>7, <3>1 DEF Send
      <4> QED
        BY <4>2, <4>3 DEF TypeInv, Typed, TypeOK
    <3>2. CASE ~IsRead(op[p].cmds[nxt[p]])
      BY <1>7, <3>2 DEF Send, TypeInv, Typed, TypeOK
    <3> QED
      BY <3>1, <3>2
  <2>10. /\ nxt' = [nxt EXCEPT ![p] = @ + 1]
         /\ UNCHANGED <<sc_link, fifo, popping, rx, swt_cntr, sca, objVars, prev_cnt, msg,
                        sca_sent, nops>>
    BY <1>7 DEF Send
  <2>11. nxt[p] + 1 \in 1..MaxBatch + 1
    BY <2>1, <2>2
  <2>12. nxt' \in [Procs -> 1..MaxBatch + 1]
    BY <2>10, <2>11 DEF TypeInv, Typed, TypeOK
  <2>6. nxt' \in [Procs -> 1..MaxBatch + 1] /\ nxt'[p] = nxt[p] + 1
        /\ UNCHANGED <<sc_link, fifo, popping, rx, swt_cntr, sca, objVars, prev_cnt, msg,
                       sca_sent, nops>>
    BY <2>10, <2>12 DEF TypeInv, Typed, TypeOK
  <2>13. ASSUME NEW q \in Procs, q # p, pc'[q] = pc[q]
         PROVE  Placed(q)'
    BY <2>4, <2>10, <2>13 DEF TypeInv, Typed, TypeOK, Placed
  <2>7. CASE nxt[p] < Len(op[p].cmds)
    <3>1. UNCHANGED <<pc, holder, outcome, retries>>
      BY <1>7, <2>7 DEF Send
    <3>2. TypeOK'
      BY <2>4, <2>5, <2>6, <3>1 DEF TypeInv, Typed, TypeOK, objVars
    <3>3. pc[p] = "send" /\ Placed(p)'
      BY <1>7, <2>1, <2>2, <2>3, <2>4, <2>6, <2>7, <3>1 DEF Send, Placed, InTransaction
    <3> QED
      BY <2>13, <3>1, <3>2, <3>3 DEF TypeInv, Typed
  <2>8. CASE nxt[p] = Len(op[p].cmds) /\ o.asked # <<>>
    <3>1. /\ pc' = [pc EXCEPT ![p] = "reselect"] /\ retries' = [retries EXCEPT ![p] = 0]
          /\ UNCHANGED <<holder, outcome>>
      BY <1>7, <2>4, <2>8 DEF Send
    <3>2. pc' \in [Procs -> Location] /\ retries' \in [Procs -> (0..MaxPoll) \cup (0..MaxScaPoll)]
      BY <3>1 DEF TypeInv, Typed, TypeOK, Location
    <3>3. TypeOK'
      BY <2>4, <2>5, <2>6, <3>1, <3>2 DEF TypeInv, Typed, TypeOK, objVars
    <3>4. Len(msg[p]) = 0 /\ Len(o.asked) > 0
      BY <2>1, <2>3, <2>8, EmptySeq DEF Op
    <3>5. pc'[p] = "reselect" /\ \A q \in Procs \ {p} : pc'[q] = pc[q]
      BY <3>1 DEF TypeInv, Typed, TypeOK
    <3>6. Placed(p)'
      BY <2>1, <2>2, <2>3, <2>4, <2>6, <3>4, <3>5 DEF Placed
    <3> QED
      BY <2>13, <3>3, <3>5, <3>6 DEF TypeInv, Typed
  <2>9. CASE nxt[p] = Len(op[p].cmds) /\ o.asked = <<>>
    <3>1. Finish(p, "ok", <<>>) /\ UNCHANGED retries
      BY <1>7, <2>4, <2>9, <2>1 DEF Send
    <3>2. /\ pc' = [pc EXCEPT ![p] = "idle"] /\ pc' \in [Procs -> Location]
          /\ holder' = None /\ outcome' \in [Procs -> Outcome]
      BY <3>1, <2>1, EmptySeq DEF Finish, Outcome, Kinds, Location, TypeInv, Typed, TypeOK
    <3>3. TypeOK'
      BY <2>4, <2>5, <2>6, <3>1, <3>2 DEF TypeInv, Typed, TypeOK, objVars
    <3>5. pc'[p] = "idle" /\ \A q \in Procs \ {p} : pc'[q] = pc[q]
      BY <3>2 DEF TypeInv, Typed, TypeOK
    <3>6. Placed(p)'
      BY <3>5 DEF Placed, InTransaction
    <3> QED
      BY <2>13, <3>3, <3>5, <3>6 DEF TypeInv, Typed
  <2> QED
    BY <2>1, <2>2, <2>7, <2>8, <2>9
<1>8. ASSUME NEW p \in Procs, PollAvail(p) \/ PollCounter(p)
      PROVE  Typed'
  <2>1. /\ UNCHANGED <<cardVars, selected_gbt_channel, sca_selected, op, nxt, prev_cnt, msg, sca_sent, nops>>
        /\ pc[p] \in {"avail", "count"}
    BY <1>8 DEF PollAvail, PollCounter, objVars
  <2>6. prev_swt_cntr' \in [Procs -> (0..CntrMod - 1) \cup {None}]
    BY <1>8 DEF PollAvail, PollCounter, TypeInv, Typed, TypeOK, objVars
  <2>7. retries' \in [Procs -> (0..MaxPoll) \cup (0..MaxScaPoll)]
    <3>1. \/ UNCHANGED retries
          \/ retries[p] < MaxPoll /\ retries' = [retries EXCEPT ![p] = @ + 1]
      BY <1>8 DEF PollAvail, PollCounter
    <3>2. retries[p] < MaxPoll => retries[p] + 1 \in 0..MaxPoll
      <4>1. retries[p] \in Nat
        BY DEF TypeInv, Typed, TypeOK
      <4> QED
        BY <4>1
    <3> QED
      BY <3>1, <3>2 DEF TypeInv, Typed, TypeOK
  <2>2. prev_swt_cntr' \in [Procs -> (0..CntrMod - 1) \cup {None}] /\ retries' \in [Procs -> (0..MaxPoll) \cup (0..MaxScaPoll)]
    BY <2>6, <2>7
  <2>8. \/ UNCHANGED <<holder, outcome>>
        \/ Finish(p, "no SWT available", msg[p]) \/ Finish(p, "counter did not change", msg[p])
    BY <1>8 DEF PollAvail, PollCounter
  <2>9. holder' \in Procs \cup {None} /\ outcome' \in [Procs -> Outcome]
    <3>1. op[p] \in Op /\ msg[p] \in Seq(Word \cup {NoWord})
      BY DEF TypeInv, Typed, TypeOK
    <3>2. ASSUME NEW kind \in {"no SWT available", "counter did not change"}, Finish(p, kind, msg[p])
          PROVE  holder' \in Procs \cup {None} /\ outcome' \in [Procs -> Outcome]
      <4> DEFINE end == [kind |-> kind, op |-> op[p], msg |-> msg[p],
                         late |-> outcome[p].late \/ (kind # "ok" /\ (popping \/ ru[sc_link] # <<>>))]
      <4>1. end \in Outcome
        BY <3>1 DEF Outcome, Kinds, TypeInv, Typed, TypeOK
      <4>2. holder' = None /\ outcome' = [outcome EXCEPT ![p] = end]
        BY <3>2 DEF Finish
      <4> QED
        BY <4>1, <4>2 DEF TypeInv, Typed, TypeOK
    <3> QED
      BY <2>8, <3>2 DEF TypeInv, Typed, TypeOK
  <2>3. /\ holder' \in Procs \cup {None} /\ outcome' \in [Procs -> Outcome]
        /\ pc' \in [Procs -> Location]
    <3>1. \/ UNCHANGED pc \/ pc' = [pc EXCEPT ![p] = "idle"]
          \/ pc' = [pc EXCEPT ![p] = "prev"] \/ pc' = [pc EXCEPT ![p] = "low"]
      BY <1>8 DEF PollAvail, PollCounter, Finish
    <3>2. pc' \in [Procs -> Location]
      BY <3>1 DEF Location, TypeInv, Typed, TypeOK
    <3> QED
      BY <2>9, <3>2
  <2>4. \/ UNCHANGED pc \/ pc' = [pc EXCEPT ![p] = "idle"]
        \/ pc' = [pc EXCEPT ![p] = "prev"] \/ pc' = [pc EXCEPT ![p] = "low"]
    BY <1>8 DEF PollAvail, PollCounter, Finish
  <2>5. TypeOK'
    BY <2>1, <2>2, <2>3 DEF TypeInv, Typed, TypeOK, cardVars
  <2> QED
    <3>1. ASSUME NEW q \in Procs PROVE Placed(q)'
      <4>1. CASE q = p
        BY <2>1, <2>4, <4>1 DEF TypeInv, Typed, TypeOK, Placed, InTransaction
      <4>2. CASE q # p
        BY <2>1, <2>4, <4>2 DEF TypeInv, Typed, TypeOK, Placed
      <4> QED
        BY <4>1, <4>2
    <3> QED
      BY <2>5, <3>1 DEF TypeInv, Typed
<1>9. ASSUME NEW p \in Procs, ReadPrev(p) \/ FifoReadEnable(p)
      PROVE  Typed'
  <2>1. prev_cnt' \in [Procs -> 0..CntrMod - 1] /\ retries' \in [Procs -> (0..MaxPoll) \cup (0..MaxScaPoll)]
    <3>1. CASE ReadPrev(p)
      <4>1. (IF prev_swt_cntr[p] = None THEN swt_cntr ELSE prev_swt_cntr[p]) \in 0..CntrMod - 1
        BY DEF TypeInv, Typed, TypeOK
      <4> QED
        BY <3>1, <4>1 DEF ReadPrev, endVars, TypeInv, Typed, TypeOK
    <3>2. CASE FifoReadEnable(p)
      BY <3>2 DEF FifoReadEnable, TypeInv, Typed, TypeOK
    <3> QED
      BY <1>9, <3>1, <3>2
  <2>2. /\ \/ pc[p] = "prev" /\ pc' = [pc EXCEPT ![p] = "pulse"]
           \/ pc[p] = "pulse" /\ pc' = [pc EXCEPT ![p] = "count"]
        /\ popping' \in BOOLEAN
        /\ UNCHANGED <<sc_link, ru, fifo, rx, swt_cntr, sca, holder, objVars, op, nxt, msg, endVars>>
    BY <1>9 DEF ReadPrev, FifoReadEnable, cardVars, TypeInv, Typed, TypeOK
  <2>3. pc' \in [Procs -> Location]
    <3>1. pc' = [pc EXCEPT ![p] = "pulse"] \/ pc' = [pc EXCEPT ![p] = "count"]
      BY <2>2
    <3> QED
      BY <3>1 DEF TypeInv, Typed, TypeOK, Location
  <2>4. TypeOK'
    BY <2>1, <2>2, <2>3 DEF TypeInv, Typed, TypeOK, objVars, endVars
  <2>5. /\ \A q \in Procs : q # p => pc'[q] = pc[q]
        /\ \/ pc[p] = "prev" /\ pc'[p] = "pulse"
           \/ pc[p] = "pulse" /\ pc'[p] = "count"
        /\ UNCHANGED <<op, nxt, msg>>
    BY <2>2 DEF TypeInv, Typed, TypeOK
  <2>6. ASSUME NEW q \in Procs PROVE Placed(q)'
    <3>1. Placed(q)
      BY DEF TypeInv, Typed
    <3> QED
      BY <2>5, <3>1 DEF Placed, InTransaction
  <2> QED
    BY <2>4, <2>6 DEF TypeInv, Typed
<1>10. ASSUME NEW p \in Procs, ReadLow(p)
      PROVE  Typed'
  <2> DEFINE words == Append(msg[p], rx)
  <2>1. words \in Seq(Word \cup {NoWord}) /\ Len(words) \in Nat /\ op[p] \in Op
    BY AppendFacts DEF TypeInv, Typed, TypeOK
  <2>2. msg' = [msg EXCEPT ![p] = words] /\ msg' \in [Procs -> Seq(Word \cup {NoWord})]
    BY <1>10, <2>1 DEF ReadLow, TypeInv, Typed, TypeOK
  <2>3. retries' \in [Procs -> (0..MaxPoll) \cup (0..MaxScaPoll)] /\ pc[p] = "low"
        /\ UNCHANGED <<cardVars, objVars, op, nxt, prev_cnt, sca_sent, nops>>
    BY <1>10 DEF ReadLow, TypeInv, Typed, TypeOK
  <2>4. CASE Len(words) < Len(op[p].asked)
    <3>1. pc' = [pc EXCEPT ![p] = "avail"] /\ UNCHANGED <<holder, outcome>>
      BY <1>10, <2>4 DEF ReadLow
    <3>2. pc' \in [Procs -> Location]
      BY <3>1 DEF TypeInv, Typed, TypeOK, Location
    <3>3. TypeOK'
      BY <2>2, <2>3, <3>1, <3>2 DEF TypeInv, Typed, TypeOK, cardVars, objVars
    <3> QED
      BY <2>2, <2>3, <2>4, <3>1, <3>3 DEF TypeInv, Typed, TypeOK, Placed, InTransaction
  <2>5. CASE ~(Len(words) < Len(op[p].asked))
    <3>1. Finish(p, Verdict(op[p], words), words)
      BY <1>10, <2>5 DEF ReadLow
    <3>2. Verdict(op[p], words) \in {"ok", "address mismatch"}
      BY DEF Verdict
    <3>3. /\ pc' = [pc EXCEPT ![p] = "idle"] /\ pc' \in [Procs -> Location]
          /\ holder' = None /\ outcome' \in [Procs -> Outcome]
      BY <2>1, <3>1, <3>2 DEF Finish, Outcome, Kinds, Location, TypeInv, Typed, TypeOK
    <3>4. TypeOK'
      BY <2>2, <2>3, <3>3 DEF TypeInv, Typed, TypeOK, cardVars, objVars
    <3> QED
      BY <2>2, <2>3, <3>3, <3>4 DEF TypeInv, Typed, TypeOK, Placed, InTransaction
  <2> QED
    BY <2>4, <2>5
<1>11. ASSUME NEW p \in Procs, ScaWork(p)
      PROVE  Typed'
  <2>0. ScaMoved(p)
    BY <1>11, ScaWorkStep
  <2>1. PICK there \in ScaPlaces \ {"sca"} :
          /\ pc' = [pc EXCEPT ![p] = there]
          /\ there \in {"sca_tx", "sca_wait"} => retries'[p] < MaxScaPoll
          /\ holder' \in {None, p, holder}
    BY <2>0 DEF ScaMoved
  <2>2. pc' \in [Procs -> Location] /\ holder' \in Procs \cup {None}
    BY <2>1 DEF TypeInv, Typed, TypeOK, Location, ScaPlaces, ScaLocked
  <2>3. /\ sca' \in ScaState
        /\ retries' \in [Procs -> (0..MaxPoll) \cup (0..MaxScaPoll)]
        /\ sca_sent' \in [Procs -> (Channels \cup {None}) \X (Channels \cup {None})]
        /\ UNCHANGED <<swtVars, objVars, op, nxt, prev_cnt, msg, outcome, nops>>
    BY <2>0 DEF ScaMoved
  <2>4. TypeOK'
    BY <2>2, <2>3 DEF TypeInv, Typed, TypeOK, swtVars, objVars
  <2>5. ASSUME NEW q \in Procs PROVE Placed(q)'
    <3>1. CASE q = p
      BY <2>1, <3>1 DEF TypeInv, Typed, TypeOK, Placed, InTransaction, ScaPlaces, ScaLocked
    <3>2. CASE q # p
      BY <2>1, <2>3, <3>2 DEF TypeInv, Typed, TypeOK, Placed
    <3> QED
      BY <3>1, <3>2
  <2> QED
    BY <2>4, <2>5 DEF TypeInv, Typed
<1> QED
  BY <1>1, <1>2, <1>3, <1>4, <1>5, <1>6, <1>7, <1>8, <1>9, <1>10, <1>11
  DEF Next, InCall, ScaWork, Call

LEMMA PollStepLeft == TypeInv /\ [Next]_vars => \A p \in Procs : PollLeft(p)'
<1> SUFFICES ASSUME TypeInv, [Next]_vars, NEW p \in Procs
             PROVE  PollLeft(p)'
  OBVIOUS
<1>1. PollLeft(p) /\ pc \in [Procs -> Location] /\ retries \in [Procs -> Nat]
  BY SwtLinkAssumption DEF TypeInv, Typed, TypeOK
<1>2. CASE UNCHANGED vars \/ Hardware
  <2>1. UNCHANGED <<pc, retries>>
    BY <1>2 DEF vars, callVars, Hardware, CardPops, RuAnswers, ScaProceeds
  <2> QED
    BY <1>1, <2>1 DEF PollLeft
<1>3. ASSUME NEW q \in Procs, ScaWork(q)
      PROVE  PollLeft(p)'
  <2>1. CASE q = p
    BY <1>1, <1>3, <2>1, ScaWorkStep DEF ScaMoved, PollLeft
  <2>2. CASE q # p
    <3>1. pc'[p] = pc[p] /\ retries'[p] = retries[p]
      BY <1>1, <1>3, <2>2 DEF ScaWork, ScaLock, ScaTxBusy, ScaSend, ScaWaitBusy, ScaRd, ScaGoOn,
                              ScaPoll, ScaUnlock
    <3> QED
      BY <1>1, <3>1 DEF PollLeft
  <2> QED
    BY <2>1, <2>2
<1>4. ASSUME NEW q \in Procs, Call(q) \/ InCall(q), ~ScaWork(q)
      PROVE  PollLeft(p)'
  <2>1. CASE q = p
    <3>1. \/ pc'[p] = pc[p] /\ retries'[p] = retries[p]
          \/ pc'[p] \notin {"sca_tx", "sca_wait"}
      BY <1>1, <1>4, <2>1
      DEF Call, InCall, ScaWork, Begin, ResetScCore, ScaCheckChannel, Select, Send, PollAvail, ReadPrev,
          FifoReadEnable, PollCounter, ReadLow, Finish, callVars
    <3> QED
      BY <1>1, <3>1 DEF PollLeft
  <2>2. CASE q # p
    <3>1. pc'[p] = pc[p] /\ retries'[p] = retries[p]
      BY <1>1, <1>4, <2>2
      DEF Call, InCall, ScaWork, Begin, ResetScCore, ScaCheckChannel, Select, Send, PollAvail, ReadPrev,
          FifoReadEnable, PollCounter, ReadLow, Finish, callVars
    <3> QED
      BY <1>1, <3>1 DEF PollLeft
  <2> QED
    BY <2>1, <2>2
<1> QED
  BY <1>2, <1>3, <1>4 DEF Next

LEMMA TypeInvStep == TypeInv /\ [Next]_vars => TypeInv'
BY TypedStep, PollStepLeft DEF TypeInv

LEMMA TypeInvHolds == Spec => []TypeInv
BY TypeInvInit, TypeInvStep, PTL DEF Spec

\* Every queue holds words of its readers' units, and every call is where the
\* control flow of FlxSwtCommunication and Sca_flx may be.
THEOREM TypeCorrect == Spec => []TypeOK
<1>1. TypeInv => TypeOK
  BY DEF TypeInv, Typed
<1> QED
  BY <1>1, TypeInvHolds, PTL
-----------------------------------------------------------------------------
\* The lock.

LEMMA LockStep == TypeInv /\ LockHeld /\ [Next]_vars => LockHeld'
<1> SUFFICES ASSUME TypeInv, LockHeld, [Next]_vars
             PROVE  LockHeld'
  OBVIOUS
<1> USE SwtLinkAssumption DEF Locked, ScaLocked, InTransaction, Location
<1>1. CASE UNCHANGED vars
  BY <1>1 DEF LockHeld, vars, callVars
<1>2. CASE Hardware
  BY <1>2 DEF LockHeld, Hardware, CardPops, RuAnswers, ScaProceeds, callVars
<1>3. ASSUME NEW p \in Procs, InCall(p) \/ Call(p)
      PROVE  LockHeld'
  <2>1. \/ UNCHANGED <<pc, holder>>
        \/ /\ holder = None /\ holder' = p
           /\ \E l \in Locked : pc' = [pc EXCEPT ![p] = l]
        \/ /\ holder' = None /\ pc[p] \in Locked
           /\ \E l \in Location \ Locked : pc' = [pc EXCEPT ![p] = l]
        \/ /\ UNCHANGED holder /\ pc[p] \in Locked
           /\ \E l \in Locked : pc' = [pc EXCEPT ![p] = l]
        \/ /\ UNCHANGED holder /\ pc[p] = "idle" /\ pc' = [pc EXCEPT ![p] = "sca"]
    <3>1. CASE Select(p)
      BY <3>1 DEF Select
    <3>2. CASE Send(p)
      BY <3>2 DEF Send, Finish
    <3>3. CASE PollAvail(p)
      BY <3>3 DEF PollAvail, Finish
    <3>4. CASE ReadPrev(p) \/ FifoReadEnable(p)
      BY <3>4 DEF ReadPrev, FifoReadEnable
    <3>5. CASE PollCounter(p)
      BY <3>5 DEF PollCounter, Finish
    <3>6. CASE ReadLow(p)
      BY <3>6 DEF ReadLow, Finish
    <3>7. CASE ScaWork(p)
      BY <3>7, ScaWorkStep DEF ScaMoved, ScaPlaces, ScaLocked, Location
    <3>8. CASE Begin(p) \/ ResetScCore(p)
      BY <3>8 DEF Begin, ResetScCore, callVars
    <3>9. CASE ScaCheckChannel(p)
      BY <3>9 DEF ScaCheckChannel
    <3> QED
      BY <1>3, <3>1, <3>2, <3>3, <3>4, <3>5, <3>6, <3>7, <3>8, <3>9
      DEF InCall, ScaWork, Call
  <2>2. ASSUME NEW q \in Procs
        PROVE  (holder = q <=> pc[q] \in Locked)'
    <3>1. q # None /\ p # None /\ (holder = q <=> pc[q] \in Locked) /\ (holder = p <=> pc[p] \in Locked)
      BY DEF LockHeld
    <3>2. pc \in [Procs -> Location]
      BY DEF TypeInv, Typed, TypeOK
    <3>3. CASE q = p
      BY <2>1, <3>1, <3>2, <3>3
    <3>4. CASE q # p
      BY <2>1, <3>1, <3>2, <3>4
    <3> QED
      BY <3>3, <3>4
  <2> QED
    BY <2>2 DEF LockHeld
<1> QED
  BY <1>1, <1>2, <1>3 DEF Next

LEMMA LockInvHolds == Spec => []LockHeld
<1>1. Init => LockHeld
  <2> SUFFICES ASSUME Init, NEW p \in Procs PROVE holder = p <=> pc[p] \in Locked
    BY DEF LockHeld
  <2>1. holder = None /\ pc[p] = "idle"
    BY DEF Init
  <2>2. holder # p
    BY <2>1, SwtLinkAssumption
  <2>3. pc[p] \notin Locked
    BY <2>1 DEF Locked, ScaLocked, InTransaction
  <2> QED
    BY <2>2, <2>3
<1> QED
  BY <1>1, LockStep, TypeInvHolds, PTL DEF Spec

\* No two processes are in a transaction with the card, or between the lock
\* and the unlock of an SCA command, at the same time.
THEOREM TransactionsExclusive ==
  Spec => [](\A p, q \in Procs : pc[p] \in Locked /\ pc[q] \in Locked => p = q)
<1>1. LockHeld => \A p, q \in Procs : pc[p] \in Locked /\ pc[q] \in Locked => p = q
  BY DEF LockHeld
<1> QED
  BY <1>1, LockInvHolds, PTL

-----------------------------------------------------------------------------
\* The channel.

LEMMA LinkStep ==
  ASSUME SoundMemory
  PROVE  TypeInv /\ LockHeld /\ LinkInv /\ [Next]_vars => LinkInv'
<1> SUFFICES ASSUME TypeInv, LockHeld, LinkInv, [Next]_vars
             PROVE  LinkInv'
  OBVIOUS
<1> USE SwtLinkAssumption
<1>1. CASE UNCHANGED vars
  BY <1>1 DEF LinkInv, vars, cardVars, objVars, callVars
<1>2. CASE Hardware
  BY <1>2 DEF LinkInv, Hardware, CardPops, RuAnswers, ScaProceeds, swtVars, objVars, callVars
<1>3. ASSUME NEW p \in Procs, Begin(p) \/ ResetScCore(p)
      PROVE  LinkInv'
  <2>1. UNCHANGED <<sc_link, selected_gbt_channel>>
    BY <1>3 DEF Begin, ResetScCore, cardVars, objVars
  <2>2. ASSUME NEW q \in Procs, pc'[q] \in InTransaction \ {"select"}
        PROVE  pc[q] = pc'[q] /\ op'[q] = op[q]
    BY <1>3, <2>2 DEF Begin, ResetScCore, callVars, TypeInv, Typed, TypeOK
  <2> QED
    BY <2>1, <2>2 DEF LinkInv
<1>4. ASSUME NEW p \in Procs, ScaCheckChannel(p)
      PROVE  LinkInv'
  <2>1. OneProcess
    BY <1>4 DEF ScaCheckChannel, SoundMemory
  <2>2. pc'[p] = "sca" /\ selected_gbt_channel'[p] \in {None, sc_link'}
    BY <1>4, <2>1 DEF ScaCheckChannel, SetGbtChannel, LinkInv, TypeInv, Typed, TypeOK
  <2> QED
    BY <2>1, <2>2 DEF LinkInv, OneProcess, InTransaction
<1>5. ASSUME NEW p \in Procs, Select(p)
      PROVE  LinkInv'
  <2>1. /\ op' = op /\ op[p].ch \in Channels /\ holder = p
        /\ pc[p] \in Locked
    BY <1>5 DEF Select, TypeInv, Typed, Placed, InTransaction, Locked, LockHeld
  <2>2. sc_link' = op[p].ch
    <3>1. CASE AlwaysSet \/ op[p].ch # selected_gbt_channel[p]
      BY <1>5, <3>1 DEF Select, SelectChannel, SetGbtChannel
    <3>2. CASE ~(AlwaysSet \/ op[p].ch # selected_gbt_channel[p])
      <4>1. sc_link' = sc_link /\ selected_gbt_channel[p] = op[p].ch
        BY <1>5, <3>2 DEF Select, SelectChannel
      <4> QED
        BY <2>1, <3>2, <4>1 DEF SoundMemory, LinkInv
    <3> QED
      BY <3>1, <3>2
  <2>3. ASSUME NEW q \in Procs, q # p
        PROVE  pc'[q] \notin InTransaction
    BY <1>5, <2>1, <2>3 DEF Select, LockHeld, Locked, TypeInv, Typed, TypeOK
  <2>4. OneProcess => \A q \in Procs : selected_gbt_channel'[q] \in {None, sc_link'}
    BY <1>5, <2>2 DEF Select, SelectChannel, SetGbtChannel, LinkInv, OneProcess, TypeInv, Typed, TypeOK
  <2> QED
    BY <2>1, <2>2, <2>3, <2>4 DEF LinkInv
<1>7. ASSUME NEW p \in Procs, ScaWork(p)
      PROVE  LinkInv'
  <2>1. ScaMoved(p)
    BY <1>7, ScaWorkStep
  <2>2. UNCHANGED <<sc_link, selected_gbt_channel, op>> /\ pc'[p] \notin InTransaction
        /\ \A q \in Procs \ {p} : pc'[q] = pc[q]
    BY <2>1 DEF ScaMoved, swtVars, objVars, ScaPlaces, ScaLocked, InTransaction, TypeInv, Typed, TypeOK
  <2> QED
    BY <2>2 DEF LinkInv
<1>6. ASSUME NEW p \in Procs, InCall(p), ~Select(p), ~ScaWork(p)
      PROVE  LinkInv'
  <2>1. UNCHANGED <<sc_link, selected_gbt_channel>>
    BY <1>6
    DEF InCall, ScaWork, Send, PollAvail, ReadPrev, FifoReadEnable, PollCounter, ReadLow,
        cardVars, objVars
  <2>2. ASSUME NEW q \in Procs PROVE op'[q].ch = op[q].ch
    <3>1. CASE Send(p)
      <4>1. op' = [op EXCEPT ![p] = Asking(@, op[p].cmds[nxt[p]])]
        BY <3>1 DEF Send
      <4>2. Asking(op[p], op[p].cmds[nxt[p]]).ch = op[p].ch
        BY DEF Asking, Op, TypeInv, Typed, TypeOK
      <4> QED
        BY <4>1, <4>2 DEF TypeInv, Typed, TypeOK
    <3>2. CASE ~Send(p)
      BY <1>6, <3>2
      DEF InCall, ScaWork, PollAvail, ReadPrev, FifoReadEnable, PollCounter, ReadLow
    <3> QED
      BY <3>1, <3>2
  <2>3. ASSUME NEW q \in Procs, pc'[q] \in InTransaction \ {"select"}
        PROVE  pc[q] \in InTransaction \ {"select"}
    <3>1. CASE q # p
      <4>1. pc'[q] = pc[q]
        BY <1>6, <3>1
        DEF InCall, ScaWork, Send, PollAvail, ReadPrev, FifoReadEnable, PollCounter, ReadLow,
            Finish, TypeInv, Typed, TypeOK
      <4> QED
        BY <2>3, <4>1
    <3>2. CASE q = p
      <4>2. CASE Send(p) \/ PollAvail(p) \/ ReadPrev(p) \/ FifoReadEnable(p) \/ PollCounter(p) \/ ReadLow(p)
        BY <3>2, <4>2
        DEF Send, PollAvail, ReadPrev, FifoReadEnable, PollCounter, ReadLow, InTransaction
      <4> QED
        BY <1>6, <4>2 DEF InCall, ScaWork
    <3> QED
      BY <3>1, <3>2
  <2> QED
    BY <2>1, <2>2, <2>3 DEF LinkInv
<1> QED
  BY <1>1, <1>2, <1>3, <1>4, <1>5, <1>6, <1>7 DEF Next, Call

LEMMA LinkInvHolds == ASSUME SoundMemory PROVE Spec => []LinkInv
<1>1. Init => LinkInv
  BY DEF Init, LinkInv, InTransaction
<1>2. TypeInv /\ LockHeld /\ LinkInv /\ [Next]_vars => LinkInv'
  BY LinkStep
<1> QED
  BY <1>1, <1>2, TypeInvHolds, LockInvHolds, PTL DEF Spec

\* Every word of a transaction goes over its channel as long as one process
\* uses the card, or all set the channel each time and none speaks to an SCA.
THEOREM ChannelKept == ASSUME SoundMemory PROVE Spec => []LinkSelected
<1>1. LinkInv => LinkSelected
  BY DEF LinkInv, LinkSelected, InTransaction
<1> QED
  BY <1>1, LinkInvHolds, PTL
-----------------------------------------------------------------------------
\* The answers.

\* The word counter is never the same after one step.
LEMMA NextDiffers ==
  ASSUME NEW m \in 0..CntrMod - 1
  PROVE  (m + 1) % CntrMod # m
<1>1. CASE m + 1 < CntrMod
  BY <1>1, SwtLinkAssumption
<1>2. CASE m + 1 = CntrMod
  <2>1. (m + 1) % CntrMod = 0
    BY <1>2, SwtLinkAssumption
  <2> QED
    BY <2>1, <1>2, SwtLinkAssumption
<1> QED
  BY <1>1, <1>2, SwtLinkAssumption

\* What TypeInv says of the queues of a process in a transaction.
LEMMA Queues ==
  ASSUME TypeInv, NEW p \in Procs
  PROVE  /\ msg[p] \in Seq(Word \cup {NoWord}) /\ op[p] \in Op /\ op[p].asked \in Seq(Addresses)
         /\ Taken(p) \in Nat /\ Seen(p) \in Nat /\ Len(op[p].asked) \in Nat
         /\ Seen(p) = Taken(p) \/ Seen(p) = Taken(p) + 1
         /\ \A c \in Channels : /\ fifo[c] \in Seq(Word) /\ ru[c] \in Seq(Word)
                                /\ Len(fifo[c]) \in Nat /\ Len(ru[c]) \in Nat
                                /\ DOMAIN fifo[c] = 1..Len(fifo[c]) /\ DOMAIN ru[c] = 1..Len(ru[c])
         /\ pc[p] \in InTransaction => op[p].ch \in Channels
<1>1. /\ msg[p] \in Seq(Word \cup {NoWord}) /\ op[p] \in Op /\ op[p].asked \in Seq(Addresses)
      /\ \A c \in Channels : fifo[c] \in Seq(Word) /\ ru[c] \in Seq(Word)
      /\ pc[p] \in InTransaction => op[p].ch \in Channels
  BY DEF TypeInv, Typed, TypeOK, Placed, Op
<1>2. Taken(p) \in Nat /\ Len(op[p].asked) \in Nat
  BY <1>1, LenProperties DEF Taken
<1>3. \A c \in Channels : /\ Len(fifo[c]) \in Nat /\ Len(ru[c]) \in Nat
                          /\ DOMAIN fifo[c] = 1..Len(fifo[c]) /\ DOMAIN ru[c] = 1..Len(ru[c])
  BY <1>1, LenProperties
<1> QED
  BY <1>1, <1>2, <1>3 DEF Seen

\* The pipe of a call without late answers, and how the call ended.
Whole(p) == CounterInv(p) /\ PipeInv(p) /\ (outcome[p].kind = "none" \/ Returned(p))

\* Nothing of the call changes but its place, which shows no more words.
LEMMA Moves ==
  ASSUME NEW p \in Procs, PipeInv(p),
         UNCHANGED <<ru, fifo, rx, op, msg>>,
         pc[p] \in InTransaction <=> pc'[p] \in InTransaction, pc'[p] # "select",
         Seen(p)' = Seen(p)
  PROVE  PipeInv(p)'
BY DEF PipeInv, Taken, Arrived, Answer, InTransaction

LEMMA HardwareStep ==
  ASSUME TypeInv, LinkInv, Hardware, NEW p \in Procs, Whole(p)
  PROVE  Whole(p)'
<1> DEFINE ch == op[p].ch
<1>1. CASE CardPops
  <2>1. /\ popping /\ pc[p] = "count" /\ prev_cnt[p] = swt_cntr /\ fifo[sc_link] # <<>>
        /\ ~popping' /\ pc[p] \in InTransaction
    BY <1>1 DEF CardPops, Whole, CounterInv, InTransaction
  <2>2. sc_link = ch /\ ch \in Channels
    BY <2>1, Queues DEF LinkInv, InTransaction
  <2>3. /\ rx' = Head(fifo[ch]) /\ fifo' = [fifo EXCEPT ![ch] = Tail(@)]
        /\ swt_cntr' = (swt_cntr + 1) % CntrMod
        /\ UNCHANGED <<sc_link, ru, holder, objVars, callVars, endVars>>
    BY <1>1, <2>1, <2>2 DEF CardPops
  <2>4. /\ fifo[ch] \in Seq(Word) /\ fifo[ch] # <<>> /\ fifo'[ch] = Tail(fifo[ch])
        /\ \A c \in Channels \ {ch} : fifo'[c] = fifo[c]
    BY <2>1, <2>2, <2>3, Queues DEF TypeInv, Typed, TypeOK
  <2>5. /\ rx' = fifo[ch][1] /\ 1 \in DOMAIN fifo[ch] /\ DOMAIN fifo[ch] = 1..Len(fifo[ch])
        /\ Len(fifo[ch]) \in Nat /\ Len(fifo'[ch]) = Len(fifo[ch]) - 1
        /\ DOMAIN fifo'[ch] = 1..(Len(fifo[ch]) - 1)
        /\ \A i \in 1..(Len(fifo[ch]) - 1) : fifo'[ch][i] = fifo[ch][i + 1]
    <3> DEFINE s == fifo[ch]
    <3> HIDE DEF s
    <3>1. s \in Seq(Word) /\ s # <<>>
      BY <2>4 DEF s
    <3>2. /\ Len(s) \in Nat \ {0} /\ DOMAIN s = 1..Len(s) /\ Head(s) = s[1]
          /\ Len(Tail(s)) = Len(s) - 1 /\ DOMAIN Tail(s) = 1..(Len(s) - 1)
          /\ \A k \in 1..(Len(s) - 1) : Tail(s)[k] = s[k + 1]
      BY <3>1, TailFacts
    <3>3. rx' = Head(s) /\ fifo'[ch] = Tail(s)
      BY <2>3, <2>4 DEF s
    <3>4. 1 \in 1..Len(s)
      BY <3>2
    <3> QED
      BY <3>2, <3>3, <3>4 DEF s
  <2>13. Taken(p) \in Nat
    BY Queues
  <2>14. UNCHANGED <<pc, op, msg>>
    BY <2>3 DEF callVars
  <2>6. /\ Seen(p) = Taken(p) /\ Seen(p)' = Taken(p) + 1 /\ Taken(p)' = Taken(p)
        /\ Taken(p) \in Nat
    <3>1. Seen(p) = Taken(p) + 0
      BY <2>1 DEF Seen
    <3>2. Taken(p)' = Taken(p)
      BY <2>14 DEF Taken
    <3>3. Seen(p)' = Taken(p)' + 1
      BY <2>1, <2>14 DEF Seen
    <3> QED
      BY <2>13, <3>1, <3>2, <3>3
  <2>7. Arrived(p)' = Arrived(p) /\ Arrived(p) \in Nat
    <3> DEFINE f == Len(fifo[ch])
    <3>1. Arrived(p) = Taken(p) + f /\ Arrived(p)' = Taken(p) + 1 + (f - 1) /\ f \in Nat
      BY <2>5, <2>6, <2>14 DEF Arrived
    <3> HIDE DEF f
    <3> QED
      BY <2>13, <3>1
  <2>8. CounterInv(p)'
    BY <2>1, <2>3 DEF CounterInv, callVars
  <2>9. PipeInv(p)
    BY DEF Whole
  <2>10. rx' = Answer(op[p], Seen(p) + 1)
    BY <2>1, <2>5, <2>9 DEF PipeInv
  <2>11. \A i \in DOMAIN fifo'[ch] : fifo'[ch][i] = Answer(op[p], Seen(p)' + i)
    <3> SUFFICES ASSUME NEW i \in 1..(Len(fifo[ch]) - 1)
                 PROVE  fifo'[ch][i] = Answer(op[p], Seen(p)' + i)
      BY <2>5
    <3> DEFINE f == Len(fifo[ch])
    <3>3. f \in Nat /\ i \in 1..(f - 1)
      BY <2>5
    <3>4. i + 1 \in 1..f
      <4> HIDE DEF f
      <4> QED
        BY <3>3
    <3>5. Seen(p) + (i + 1) = Seen(p)' + i
      BY <2>6, <3>3
    <3>1. i + 1 \in DOMAIN fifo[ch] /\ Seen(p) + (i + 1) = Seen(p)' + i
      BY <2>5, <3>4, <3>5
    <3>2. fifo[ch][i + 1] = Answer(op[p], Seen(p) + (i + 1))
      BY <2>1, <2>9, <3>1 DEF PipeInv
    <3> QED
      BY <2>5, <3>1, <3>2
  <2>12. PipeInv(p)'
    BY <2>1, <2>3, <2>4, <2>6, <2>7, <2>9, <2>10, <2>11 DEF PipeInv, Answer, callVars
  <2> QED
    BY <2>3, <2>8, <2>12 DEF Whole, Returned, Answers, Answer, endVars
<1>2. ASSUME NEW c \in Channels, RuAnswers(c)
      PROVE  Whole(p)'
  <2>1. /\ ru[c] # <<>> /\ ru' = [ru EXCEPT ![c] = Tail(@)]
        /\ fifo' = [fifo EXCEPT ![c] = Append(@, Head(ru[c]))]
        /\ UNCHANGED <<sc_link, popping, rx, swt_cntr, holder, objVars, callVars, endVars>>
    BY <1>2 DEF RuAnswers
  <2>2. c = ch /\ pc[p] \in InTransaction /\ pc[p] # "select"
    BY <2>1 DEF Whole, PipeInv, InTransaction
  <2>3. /\ fifo[c] \in Seq(Word) /\ ru[c] \in Seq(Word)
        /\ fifo'[c] = Append(fifo[c], Head(ru[c])) /\ ru'[c] = Tail(ru[c])
        /\ \A d \in Channels \ {c} : fifo'[d] = fifo[d] /\ ru'[d] = ru[d]
    BY <2>1, Queues DEF TypeInv, Typed, TypeOK
  <2> DEFINE f == Len(fifo[c])
             u == Len(ru[c])
  <2>4. /\ u \in Nat \ {0} /\ DOMAIN ru[c] = 1..u /\ Head(ru[c]) = ru[c][1] /\ Head(ru[c]) \in Word
        /\ Len(ru'[c]) = u - 1 /\ DOMAIN ru'[c] = 1..(u - 1)
        /\ \A i \in 1..(u - 1) : ru'[c][i] = ru[c][i + 1]
    <3> DEFINE s == ru[c]
    <3> HIDE DEF s
    <3>1. s \in Seq(Word) /\ s # <<>> /\ ru'[c] = Tail(s)
      BY <2>1, <2>3 DEF s
    <3>2. /\ Len(s) \in Nat \ {0} /\ DOMAIN s = 1..Len(s) /\ Head(s) = s[1] /\ Head(s) \in Word
          /\ Len(Tail(s)) = Len(s) - 1 /\ DOMAIN Tail(s) = 1..(Len(s) - 1)
          /\ \A k \in 1..(Len(s) - 1) : Tail(s)[k] = s[k + 1]
      BY <3>1, TailFacts
    <3> QED
      BY <3>1, <3>2 DEF s
  <2>5. /\ f \in Nat /\ DOMAIN fifo[c] = 1..f /\ fifo'[c] # <<>> /\ Len(fifo'[c]) = f + 1
        /\ DOMAIN fifo'[c] = 1..(f + 1) /\ \A i \in 1..f : fifo'[c][i] = fifo[c][i]
        /\ fifo'[c][f + 1] = ru[c][1]
    BY <2>3, <2>4, AppendFacts
  <2>6. Seen(p)' = Seen(p) /\ Taken(p)' = Taken(p) /\ Seen(p) \in Nat
    BY <2>1, Queues DEF Seen, Taken, callVars
  <2>7. Arrived(p) = Seen(p) + f /\ Arrived(p)' = Seen(p) + f + 1
    BY <2>1, <2>2, <2>5, <2>6 DEF Arrived, callVars
  <2>8. PipeInv(p)
    BY DEF Whole
  <2>9. /\ \A i \in 1..f : fifo[c][i] = Answer(op[p], Seen(p) + i)
        /\ \A i \in 1..u : ru[c][i] = Answer(op[p], Seen(p) + f + i)
    BY <2>2, <2>4, <2>5, <2>7, <2>8 DEF PipeInv
  <2>10. \A i \in 1..(f + 1) : fifo'[c][i] = Answer(op[p], Seen(p) + i)
    <3> SUFFICES ASSUME NEW i \in 1..(f + 1) PROVE fifo'[c][i] = Answer(op[p], Seen(p) + i)
      OBVIOUS
    <3>1. CASE i \in 1..f
      BY <2>5, <2>9, <3>1
    <3>2. CASE i = f + 1
      <4>1. ru[c][1] = Answer(op[p], Seen(p) + f + 1)
        BY <2>4, <2>9
      <4>2. Seen(p) + f + 1 = Seen(p) + i
        BY <2>5, <2>6, <3>2
      <4> QED
        BY <2>5, <3>2, <4>1, <4>2
    <3> QED
      BY <2>5, <3>1, <3>2
  <2>11. \A i \in 1..(u - 1) : ru'[c][i] = Answer(op[p], Seen(p) + f + 1 + i)
    <3> SUFFICES ASSUME NEW i \in 1..(u - 1) PROVE ru'[c][i] = Answer(op[p], Seen(p) + f + 1 + i)
      OBVIOUS
    <3> HIDE DEF f, u
    <3>1. u \in Nat /\ f \in Nat /\ Seen(p) \in Nat
      BY <2>4, <2>5, <2>6
    <3>2. i + 1 \in 1..u
      BY <3>1
    <3>3. Seen(p) + f + (i + 1) = Seen(p) + f + 1 + i
      BY <3>1
    <3> QED
      BY <2>4, <2>9, <3>2, <3>3
  <2>12. CounterInv(p)'
    BY <2>1, <2>2, <2>3, <2>5 DEF Whole, CounterInv, LinkInv, objVars, callVars, TypeInv, Typed, TypeOK
  <2>13. Arrived(p)' + Len(ru'[c]) = Len(op[p].asked)
    <3>1. Arrived(p) + u = Len(op[p].asked) /\ Len(ru'[c]) = u - 1
      BY <2>2, <2>4, <2>8 DEF PipeInv
    <3> HIDE DEF f, u
    <3> QED
      BY <2>4, <2>5, <2>6, <2>7, <3>1
  <2>14. PipeInv(p)'
    <3>1. UNCHANGED <<pc, op, msg, rx>>
      BY <2>1 DEF callVars
    <3>2. Seen(p)' > Taken(p)' => rx' = Answer(op[p], Seen(p)')
      BY <2>2, <2>6, <2>8, <3>1 DEF PipeInv
    <3>3. \A i \in DOMAIN fifo'[c] : fifo'[c][i] = Answer(op[p], Seen(p)' + i)
      BY <2>5, <2>6, <2>10
    <3>4. \A i \in DOMAIN ru'[c] : ru'[c][i] = Answer(op[p], Arrived(p)' + i)
      BY <2>4, <2>7, <2>11
    <3>5. \A d \in Channels : d # c => fifo'[d] = <<>> /\ ru'[d] = <<>>
      BY <2>2, <2>3, <2>8 DEF PipeInv
    <3>6. \A i \in 1..Taken(p)' : msg'[p][i] = Answer(op[p], i)
      BY <2>2, <2>6, <2>8, <3>1 DEF PipeInv
    <3>7. Answer(op[p], 1)' = Answer(op[p], 1) /\ op'[p] = op[p] /\ pc'[p] = pc[p]
      BY <3>1 DEF Answer
    <3> QED
      BY <2>2, <2>13, <3>2, <3>3, <3>4, <3>5, <3>6, <3>7 DEF PipeInv, Answer
  <2> QED
    BY <2>1, <2>12, <2>14 DEF Whole, Returned, Answers, Answer, endVars
<1>3. CASE ScaProceeds
  <2>1. UNCHANGED <<swtVars, holder, objVars, callVars, endVars>>
    BY <1>3 DEF ScaProceeds
  <2>2. Whole(p)' <=> Whole(p)
    BY <2>1 DEF Whole, CounterInv, PipeInv, Taken, Arrived, Seen, Answer, Answers, Returned,
         InTransaction, swtVars, objVars, callVars, endVars
  <2> QED
    BY <2>2
<1> QED
  BY <1>1, <1>2, <1>3 DEF Hardware

LEMMA CallsStep ==
  ASSUME TypeInv, NEW p \in Procs, Call(p), Whole(p)
  PROVE  Whole(p)'
<1>1. CASE Begin(p)
  <2>1. PICK c \in SwtChannels, cmds \in Commands :
          op' = [op EXCEPT ![p] = [ch |-> c, cmds |-> cmds, asked |-> <<>>,
                                   single |-> Len(cmds) = 1, tag |-> nops]]
    BY <1>1 DEF Begin
  <2>2. /\ op'[p].ch = c /\ op'[p].asked = <<>> /\ c \in Channels
        /\ pc[p] = "idle" /\ pc'[p] = "select" /\ msg'[p] = <<>>
        /\ UNCHANGED <<cardVars, objVars, retries, prev_cnt, outcome, sca_sent>>
    BY <1>1, <2>1, SwtLinkAssumption DEF Begin, TypeInv, Typed, TypeOK
  <2>3. \A d \in Channels : fifo'[d] = <<>> /\ ru'[d] = <<>>
    BY <2>2 DEF Whole, PipeInv, InTransaction, cardVars
  <2>4. CounterInv(p)'
    BY <2>2 DEF Whole, CounterInv, cardVars, objVars
  <2>5. Len(<<>>) = 0 /\ DOMAIN <<>> = 1..0
    OBVIOUS
  <2>6. Taken(p)' = 0 /\ Seen(p)' = 0 /\ Arrived(p)' = 0
    BY <2>2, <2>3, <2>5 DEF Taken, Seen, Arrived
  <2>7. PipeInv(p)'
    BY <2>2, <2>3, <2>5, <2>6 DEF PipeInv
  <2> QED
    BY <2>2, <2>4, <2>7 DEF Whole, Returned
<1>2. CASE ResetScCore(p)
  <2>1. /\ pc[p] = "idle" /\ fifo' = [c \in Channels |-> <<>>] /\ prev_swt_cntr'[p] = None
        /\ UNCHANGED <<sc_link, ru, popping, rx, swt_cntr, callVars, outcome>>
    BY <1>2 DEF ResetScCore, TypeInv, Typed, TypeOK
  <2>2. CounterInv(p)' /\ PipeInv(p)'
    BY <2>1 DEF Whole, CounterInv, PipeInv, InTransaction, callVars
  <2> QED
    BY <2>1, <2>2 DEF Whole, Returned
<1>3. CASE ScaCheckChannel(p)
  <2>1. /\ pc[p] = "idle" /\ pc'[p] = "sca"
        /\ UNCHANGED <<ru, fifo, popping, rx, swt_cntr, prev_swt_cntr, outcome>>
    BY <1>3 DEF ScaCheckChannel, TypeInv, Typed, TypeOK
  <2>2. CounterInv(p)' /\ PipeInv(p)'
    BY <2>1 DEF Whole, CounterInv, PipeInv, InTransaction
  <2> QED
    BY <2>1, <2>2 DEF Whole, Returned
<1> QED
  BY <1>1, <1>2, <1>3 DEF Call

\* A word sent is asked for: it is the last one of the pipe.
LEMMA SendStep ==
  ASSUME TypeInv, LinkInv, NEW p \in Procs, Send(p), Whole(p)
  PROVE  Whole(p)'
<1> DEFINE ch == op[p].ch
           cmd == op[p].cmds[nxt[p]]
           o == Asking(op[p], cmd)
<1>1. /\ pc[p] = "send" /\ op[p] \in Op /\ op[p].ch \in Channels /\ msg[p] = <<>>
      /\ nxt[p] \in DOMAIN op[p].cmds /\ sc_link = ch
  <2>1. /\ pc[p] = "send" /\ op[p] \in Op /\ op[p].ch \in Channels /\ msg[p] = <<>>
        /\ nxt[p] \in 1..Len(op[p].cmds) /\ sc_link = ch
    BY DEF Send, TypeInv, Typed, TypeOK, Placed, InTransaction, LinkInv
  <2>2. DOMAIN op[p].cmds = 1..Len(op[p].cmds)
    BY <2>1, CommandFacts DEF Op
  <2> QED
    BY <2>1, <2>2
<1>2. /\ op'[p] = o /\ o.ch = ch /\ o.tag = op[p].tag
      /\ IF cmd = WriteCmd THEN o = op[p]
                          ELSE cmd \in Addresses /\ o.asked = Append(op[p].asked, cmd)
  <2>1. op' = [op EXCEPT ![p] = o]
    BY DEF Send
  <2> QED
    BY <2>1, <1>1, AskingFacts DEF TypeInv, Typed, TypeOK
<1>3. UNCHANGED <<sc_link, fifo, popping, rx, swt_cntr, objVars, prev_cnt, msg>>
  BY DEF Send
<1>4. PipeInv(p) /\ CounterInv(p)
  BY DEF Whole
<1>5. /\ Taken(p) = 0 /\ Seen(p) = 0 /\ Arrived(p) = Len(fifo[ch])
      /\ Len(fifo[ch]) \in Nat /\ Len(ru[ch]) \in Nat /\ DOMAIN ru[ch] = 1..Len(ru[ch])
      /\ op[p].asked \in Seq(Addresses)
      /\ Len(fifo[ch]) + Len(ru[ch]) = Len(op[p].asked)
  <2>1. Taken(p) = 0
    BY <1>1 DEF Taken
  <2>2. Seen(p) = 0
    BY <1>1, <2>1 DEF Seen
  <2>3. Len(fifo[ch]) \in Nat /\ Len(ru[ch]) \in Nat /\ DOMAIN ru[ch] = 1..Len(ru[ch])
        /\ op[p].asked \in Seq(Addresses)
    BY <1>1, Queues
  <2>4. Arrived(p) = Len(fifo[ch])
    BY <2>2, <2>3 DEF Arrived
  <2> QED
    BY <1>1, <1>4, <2>1, <2>2, <2>3, <2>4 DEF PipeInv, InTransaction
\* The pipe ends with the word just asked for.
<1>6. /\ Len(fifo[ch]) + Len(ru'[ch]) = Len(o.asked)
      /\ \A i \in DOMAIN fifo[ch] : fifo[ch][i] = Answer(o, i)
      /\ \A i \in DOMAIN ru'[ch] : ru'[ch][i] = Answer(o, Len(fifo[ch]) + i)
      /\ \A c \in Channels : c # ch => ru'[c] = <<>>
  <2>1. CASE cmd = WriteCmd
    <3>1. ru' = ru /\ o = op[p]
      BY <2>1, <1>2 DEF Send, IsRead
    <3>2. \A i \in DOMAIN fifo[ch] : fifo[ch][i] = Answer(op[p], i)
      <4>1. \A i \in DOMAIN fifo[ch] : fifo[ch][i] = Answer(op[p], Seen(p) + i)
        BY <1>1, <1>4 DEF PipeInv, InTransaction
      <4>2. \A i \in DOMAIN fifo[ch] : Seen(p) + i = i
        BY <1>1, <1>5, Queues
      <4> QED
        BY <4>1, <4>2
    <3>3. \A i \in DOMAIN ru[ch] : ru[ch][i] = Answer(op[p], Len(fifo[ch]) + i)
      BY <1>1, <1>4, <1>5 DEF PipeInv, InTransaction
    <3>4. \A c \in Channels : c # ch => ru[c] = <<>>
      BY <1>4 DEF PipeInv
    <3> QED
      BY <1>5, <3>1, <3>2, <3>3, <3>4
  <2>2. CASE cmd # WriteCmd
    <3> DEFINE w == [ch |-> ch, addr |-> cmd, tag |-> op[p].tag]
               n == Len(op[p].asked)
               f == Len(fifo[ch])
               u == Len(ru[ch])
    <3>1. cmd \in Addresses /\ o.asked = Append(op[p].asked, cmd)
      BY <1>2, <2>2
    <3>2. w \in Word /\ ru[ch] \in Seq(Word)
      BY <1>1, <3>1, Queues DEF Word, Op
    <3>3. ru' = [ru EXCEPT ![ch] = Append(@, w)]
      BY <1>1, <2>2 DEF Send, IsRead
    <3>4. ru'[ch] = Append(ru[ch], w) /\ \A c \in Channels : c # ch => ru'[c] = ru[c]
      BY <1>1, <3>3 DEF TypeInv, Typed, TypeOK
    <3>5. /\ Len(ru'[ch]) = u + 1 /\ DOMAIN ru'[ch] = 1..(u + 1)
          /\ \A i \in 1..u : ru'[ch][i] = ru[ch][i]
          /\ ru'[ch][u + 1] = w
      BY <3>2, <3>4, AppendFacts
    <3>6. /\ Len(o.asked) = n + 1 /\ n \in Nat /\ \A i \in 1..n : o.asked[i] = op[p].asked[i]
          /\ o.asked[n + 1] = cmd
      BY <1>5, <3>1, AppendFacts
    <3>7. f \in Nat /\ u \in Nat /\ f + u = n
      BY <1>5
    <3>8. /\ \A i \in 1..n : Answer(o, i) = Answer(op[p], i)
          /\ Answer(o, n + 1) = w
      BY <1>2, <3>6 DEF Answer
    <3>9. /\ \A i \in 1..f : fifo[ch][i] = Answer(op[p], i)
          /\ \A i \in 1..u : ru[ch][i] = Answer(op[p], f + i)
          /\ DOMAIN fifo[ch] = 1..f
          /\ \A c \in Channels : c # ch => ru[c] = <<>>
      <4>1. DOMAIN fifo[ch] = 1..f
        BY <1>1, Queues
      <4>2. /\ \A i \in DOMAIN fifo[ch] : fifo[ch][i] = Answer(op[p], Seen(p) + i)
            /\ \A i \in DOMAIN ru[ch] : ru[ch][i] = Answer(op[p], Arrived(p) + i)
            /\ \A c \in Channels : c # ch => ru[c] = <<>>
        BY <1>1, <1>4 DEF PipeInv, InTransaction
      <4>3. \A i \in 1..f : Seen(p) + i = i
        BY <1>5
      <4> QED
        BY <1>5, <4>1, <4>2, <4>3
    <3> HIDE DEF w, n, f, u
    <3>10. \A i \in 1..f : fifo[ch][i] = Answer(o, i)
      BY <3>7, <3>8, <3>9
    <3>11. \A i \in 1..(u + 1) : ru'[ch][i] = Answer(o, f + i)
      <4> SUFFICES ASSUME NEW i \in 1..(u + 1) PROVE ru'[ch][i] = Answer(o, f + i)
        OBVIOUS
      <4>1. CASE i = u + 1
        <5>1. f + i = n + 1
          BY <3>7, <4>1
        <5> QED
          BY <3>5, <3>8, <4>1, <5>1
      <4>2. CASE i \in 1..u
        <5>1. f + i \in 1..n
          BY <3>7, <4>2
        <5> QED
          BY <3>5, <3>8, <3>9, <4>2, <5>1
      <4> QED
        BY <3>7, <4>1, <4>2
    <3>12. f + Len(ru'[ch]) = Len(o.asked)
      BY <3>5, <3>6, <3>7
    <3> QED
      BY <3>4, <3>5, <3>9, <3>10, <3>11, <3>12 DEF f
  <2> QED
    BY <2>1, <2>2
<1>7. CASE pc'[p] \in {"send", "reselect"} /\ outcome'[p] = outcome[p]
  <2>1. Taken(p)' = 0
    BY <1>1, <1>3 DEF Taken
  <2>2. Seen(p)' = 0
    BY <1>7, <2>1 DEF Seen
  <2>3. Arrived(p)' = Len(fifo[ch])
    BY <1>2, <1>3, <1>5, <2>2 DEF Arrived
  <2>4. \A i \in DOMAIN fifo[ch] : Seen(p)' + i = i
    BY <1>1, <2>2, Queues
  <2>5. \A c \in Channels : c # ch => fifo'[c] = <<>> /\ ru'[c] = <<>>
    BY <1>1, <1>3, <1>4, <1>6 DEF PipeInv
  <2>6. PipeInv(p)'
    <3>2. /\ Arrived(p)' + Len(ru'[ch]) = Len(o.asked)
          /\ \A i \in DOMAIN fifo'[ch] : fifo'[ch][i] = Answer(o, Seen(p)' + i)
          /\ \A i \in DOMAIN ru'[ch] : ru'[ch][i] = Answer(o, Arrived(p)' + i)
      BY <1>3, <1>6, <2>3, <2>4
    <3>3. op'[p] = o /\ o.ch = ch /\ pc'[p] \in {"send", "reselect"}
      BY <1>2, <1>7
    <3> HIDE DEF o
    <3> QED
      BY <2>1, <2>2, <2>5, <3>2, <3>3 DEF PipeInv, InTransaction
  <2>7. CounterInv(p)'
    BY <1>1, <1>3, <1>4, <1>7 DEF CounterInv, objVars
  <2> QED
    BY <1>7, <2>6, <2>7 DEF Whole, Returned
<1>8. CASE Finish(p, "ok", <<>>) /\ o.asked = <<>>
  <2>1. cmd = WriteCmd
    BY <1>2, <1>5, <1>8, AppendFacts
  <2>2. o = op[p] /\ ru' = ru
    BY <1>2, <2>1 DEF Send, IsRead
  <2>3. Len(fifo[ch]) = 0 /\ Len(ru[ch]) = 0
    <3> DEFINE f == Len(fifo[ch])
               u == Len(ru[ch])
    <3>3. op[p].asked = <<>>
      BY <1>8, <2>2
    <3>4. Len(op[p].asked) = 0
      BY <3>3
    <3>1. f \in Nat /\ u \in Nat /\ f + u = 0
      BY <1>5, <3>4
    <3> HIDE DEF f, u
    <3>2. f = 0 /\ u = 0
      BY <3>1
    <3> QED
      BY <3>2 DEF f, u
  <2>4. fifo[ch] = <<>> /\ ru[ch] = <<>>
    BY <1>1, <2>3, Queues, EmptySeq
  <2>5. /\ pc'[p] = "idle" /\ outcome'[p].kind = "ok" /\ outcome'[p].op = op[p]
        /\ outcome'[p].msg = <<>>
    BY <1>8 DEF Finish, TypeInv, Typed, TypeOK
  <2>6. PipeInv(p)'
    BY <1>1, <1>3, <1>4, <2>2, <2>4, <2>5 DEF PipeInv, InTransaction
  <2>7. CounterInv(p)'
    BY <1>1, <1>3, <1>4, <2>5 DEF CounterInv, objVars
  <2>8. Answers(op[p]) = <<>>
    BY <1>8, <2>2 DEF Answers
  <2>9. Returned(p)'
    BY <2>5, <2>8 DEF Returned, Answers, Answer
  <2> QED
    BY <2>6, <2>7, <2>9 DEF Whole
<1> QED
  <2>1. nxt[p] <= Len(op[p].cmds) /\ Len(op[p].cmds) \in Nat /\ nxt[p] \in Nat
    BY <1>1, CommandFacts DEF Op, TypeInv, Typed, TypeOK, Placed
  <2>2. CASE nxt[p] < Len(op[p].cmds)
    BY <1>1, <1>7, <2>2 DEF Send
  <2>3. CASE nxt[p] = Len(op[p].cmds) /\ o.asked # <<>>
    BY <1>2, <1>7, <2>3 DEF Send, TypeInv, Typed, TypeOK
  <2>4. CASE nxt[p] = Len(op[p].cmds) /\ o.asked = <<>>
    BY <1>2, <1>8, <2>1, <2>4 DEF Send
  <2> QED
    BY <2>1, <2>2, <2>3, <2>4

\* As long as nothing is late an empty FIFO means that the unit owes the word,
\* and a counter that stands still that the card has not seen the pulse.
LEMMA Waiting ==
  ASSUME TypeInv, LinkInv, NEW p \in Procs, Whole(p), pc[p] \in {"avail", "count"}
  PROVE  /\ pc[p] = "avail" /\ fifo[sc_link] = <<>> => ru[sc_link] # <<>>
         /\ pc[p] = "count" /\ swt_cntr = prev_cnt[p] => popping
<1> DEFINE ch == op[p].ch
<1>1. /\ pc[p] \in InTransaction /\ sc_link = ch /\ ch \in Channels /\ Taken(p) < Len(op[p].asked)
      /\ Taken(p) \in Nat /\ Len(op[p].asked) \in Nat
  BY Queues DEF TypeInv, Typed, Placed, LinkInv, InTransaction, Taken
<1>2. CounterInv(p) /\ PipeInv(p)
  BY DEF Whole
<1>3. ASSUME pc[p] = "avail", fifo[ch] = <<>>, ru[ch] = <<>>
      PROVE  FALSE
  <2>1. Len(fifo[ch]) = 0 /\ Len(ru[ch]) = 0
    BY <1>3
  <2>2. Seen(p) = Taken(p)
    BY <1>1, <1>3 DEF Seen
  <2>3. Arrived(p) = Taken(p)
    BY <1>1, <2>1, <2>2 DEF Arrived
  <2>4. Arrived(p) + Len(ru[ch]) = Len(op[p].asked)
    BY <1>1, <1>2 DEF PipeInv
  <2> QED
    BY <1>1, <2>1, <2>3, <2>4
<1>4. ASSUME pc[p] = "count", swt_cntr = prev_cnt[p], ~popping
      PROVE  FALSE
  <2>1. swt_cntr = (prev_cnt[p] + 1) % CntrMod
    BY <1>2, <1>4 DEF CounterInv
  <2> QED
    BY <1>4, <2>1, NextDiffers DEF TypeInv, Typed, TypeOK
<1> QED
  BY <1>1, <1>3, <1>4

\* A poll gives up only on a word that is still under way.
LEMMA PollStep ==
  ASSUME TypeInv, LinkInv, NEW p \in Procs, PollAvail(p) \/ PollCounter(p), Whole(p),
         ~outcome'[p].late
  PROVE  Whole(p)'
<1> DEFINE ch == op[p].ch
<1>1. /\ pc[p] \in {"avail", "count"} /\ pc[p] \in InTransaction
      /\ UNCHANGED <<cardVars, selected_gbt_channel, sca_selected, op, prev_cnt, msg>>
  BY DEF PollAvail, PollCounter, InTransaction, objVars
<1>3. CounterInv(p) /\ PipeInv(p)
  BY DEF Whole
<1>2. /\ pc[p] = "avail" /\ fifo[sc_link] = <<>> => ru[sc_link] # <<>>
      /\ pc[p] = "count" /\ swt_cntr = prev_cnt[p] => popping
  BY <1>1, Waiting
<1>4. ~Finish(p, "no SWT available", msg[p]) \/ pc[p] # "avail" \/ fifo[sc_link] # <<>>
  <2>1. ASSUME Finish(p, "no SWT available", msg[p])
        PROVE  ru[sc_link] = <<>>
    BY <2>1 DEF Finish, TypeInv, Typed, TypeOK
  <2> QED
    BY <1>2, <2>1
<1>5. ~Finish(p, "counter did not change", msg[p]) \/ pc[p] # "count" \/ swt_cntr # prev_cnt[p]
  <2>1. ASSUME Finish(p, "counter did not change", msg[p])
        PROVE  ~popping
    BY <2>1 DEF Finish, TypeInv, Typed, TypeOK
  <2> QED
    BY <1>2, <2>1
<1>6. CASE pc[p] = "avail"
  <2>1. PollAvail(p)
    BY <1>6 DEF PollCounter
  <2>2. /\ \/ pc'[p] = "avail"
           \/ pc'[p] = "prev" /\ fifo[sc_link] # <<>>
        /\ UNCHANGED <<outcome, prev_swt_cntr>>
    <3>1. CASE fifo[sc_link] # <<>> /\ pc' = [pc EXCEPT ![p] = "prev"] /\ UNCHANGED outcome
      BY <2>1, <3>1 DEF PollAvail, objVars, TypeInv, Typed, TypeOK
    <3>2. CASE UNCHANGED <<pc, outcome>>
      BY <1>6, <2>1, <3>2 DEF PollAvail, objVars
    <3>3. CASE fifo[sc_link] = <<>> /\ Finish(p, "no SWT available", msg[p])
      BY <1>4, <1>6, <3>3
    <3> QED
      BY <2>1, <3>1, <3>2, <3>3 DEF PollAvail
  <2>3. Seen(p)' = Seen(p)
    BY <1>1, <1>6, <2>2 DEF Seen, Taken
  <2>4. PipeInv(p)'
    BY <1>1, <1>3, <2>2, <2>3, Moves DEF cardVars, InTransaction
  <2>5. CounterInv(p)'
    BY <1>1, <1>3, <1>6, <2>2 DEF CounterInv, cardVars
  <2> QED
    BY <2>2, <2>4, <2>5 DEF Whole, Returned
<1>7. CASE pc[p] = "count"
  <2>1. PollCounter(p)
    BY <1>7 DEF PollAvail
  <2>2. /\ \/ pc'[p] = "count" /\ prev_swt_cntr' = prev_swt_cntr
           \/ pc'[p] = "low" /\ prev_swt_cntr'[p] = swt_cntr /\ swt_cntr # prev_cnt[p]
        /\ UNCHANGED outcome
    BY <1>5, <1>7, <2>1 DEF PollCounter, TypeInv, Typed, TypeOK
  <2>3. pc'[p] = "low" => ~popping
    BY <1>3, <1>7, <2>2 DEF CounterInv
  <2>4. Taken(p)' = Taken(p) /\ (popping <=> popping')
    BY <1>1 DEF Taken, cardVars
  <2>5. Seen(p)' = Seen(p)
    BY <1>7, <2>2, <2>3, <2>4 DEF Seen
  <2>6. PipeInv(p)'
    BY <1>1, <1>3, <2>2, <2>5, Moves DEF cardVars, InTransaction
  <2>7. CounterInv(p)'
    BY <1>1, <1>3, <1>7, <2>2, <2>3, <2>4 DEF CounterInv, cardVars
  <2> QED
    BY <2>2, <2>6, <2>7 DEF Whole, Returned
<1> QED
  BY <1>1, <1>6, <1>7

\* The word the card shows is the next answer, and the last one ends the call.
LEMMA ReadLowStep ==
  ASSUME TypeInv, NEW p \in Procs, ReadLow(p), Whole(p)
  PROVE  Whole(p)'
<1> DEFINE ch == op[p].ch
           n == Len(msg[p])
           words == Append(msg[p], rx)
<1>1. /\ pc[p] = "low" /\ pc[p] \in InTransaction /\ ch \in Channels
      /\ msg[p] \in Seq(Word \cup {NoWord}) /\ n \in Nat /\ op[p].asked \in Seq(Addresses)
      /\ Len(op[p].asked) \in Nat /\ n < Len(op[p].asked)
  BY Queues DEF ReadLow, InTransaction, TypeInv, Typed, Placed
<1>2. UNCHANGED <<cardVars, objVars, op, prev_cnt>> /\ msg'[p] = words
  BY DEF ReadLow, TypeInv, Typed, TypeOK
<1>3. CounterInv(p) /\ PipeInv(p)
  BY DEF Whole
<1>4. Taken(p) = n /\ Seen(p) = n + 1
  <2>1. Taken(p) = n
    BY DEF Taken
  <2> QED
    BY <1>1, <2>1 DEF Seen
<1>5. /\ Len(words) = n + 1 /\ DOMAIN words = 1..(n + 1)
      /\ \A i \in 1..(n + 1) : words[i] = Answer(op[p], i)
  <2>1. /\ Len(words) = n + 1 /\ DOMAIN words = 1..(n + 1)
        /\ \A i \in 1..n : words[i] = msg[p][i]
        /\ words[n + 1] = rx
    BY <1>1, AppendFacts DEF TypeInv, Typed, TypeOK
  <2>2. /\ \A i \in 1..n : msg[p][i] = Answer(op[p], i)
        /\ rx = Answer(op[p], n + 1)
    BY <1>1, <1>3, <1>4 DEF PipeInv
  <2> HIDE DEF words, n
  <2> QED
    BY <1>1, <2>1, <2>2
<1>6. CASE Len(words) < Len(op[p].asked)
  <2>1. pc'[p] = "avail" /\ UNCHANGED outcome
    BY <1>6 DEF ReadLow, TypeInv, Typed, TypeOK
  <2>2. Taken(p)' = n + 1
    BY <1>2, <1>5 DEF Taken
  <2>3. Seen(p)' = n + 1 /\ Arrived(p)' = Arrived(p)
    <3>1. Seen(p)' = n + 1
      BY <1>1, <2>1, <2>2 DEF Seen
    <3> QED
      BY <1>2, <1>4, <3>1 DEF Arrived, cardVars
  <2>4. PipeInv(p)'
    <3>1. /\ op'[p] = op[p] /\ ru' = ru /\ fifo' = fifo /\ Seen(p)' = Seen(p)
      BY <1>2, <1>4, <2>3 DEF cardVars
    <3>2. \A i \in 1..Taken(p)' : msg'[p][i] = Answer(op[p], i)
      BY <1>2, <1>5, <2>2
    <3>3. ~(Seen(p)' > Taken(p)')
      BY <1>1, <2>2, <2>3
    <3> QED
      BY <1>1, <1>3, <2>1, <2>3, <3>1, <3>2, <3>3 DEF PipeInv, InTransaction
  <2>5. CounterInv(p)'
    BY <1>1, <1>2, <1>3, <2>1 DEF CounterInv, cardVars, objVars
  <2> QED
    BY <2>1, <2>4, <2>5 DEF Whole, Returned
<1>7. CASE ~(Len(words) < Len(op[p].asked))
  <2>1. Finish(p, Verdict(op[p], words), words)
    BY <1>7 DEF ReadLow
  <2>2. n + 1 = Len(op[p].asked) /\ fifo[ch] = <<>> /\ ru[ch] = <<>>
    <3> DEFINE f == Len(fifo[ch])
               u == Len(ru[ch])
               a == Len(op[p].asked)
    <3>1. f \in Nat /\ u \in Nat /\ a \in Nat /\ ~(n + 1 < a)
      BY <1>1, <1>5, <1>7, Queues
    <3>2. n + 1 + f + u = a
      BY <1>1, <1>3, <1>4 DEF PipeInv, Arrived
    <3> HIDE DEF f, u, a, n
    <3>3. f = 0 /\ u = 0 /\ n + 1 = a
      BY <1>1, <3>1, <3>2
    <3>4. fifo[ch] \in Seq(Word) /\ ru[ch] \in Seq(Word)
      BY <1>1, Queues
    <3> QED
      BY <3>3, <3>4, EmptySeq DEF f, u, a
  <2>3. Verdict(op[p], words) = "ok"
    <3>1. words[1] = Answer(op[p], 1)
      BY <1>1, <1>5
    <3> QED
      BY <3>1 DEF Verdict, Answer
  <2>4. /\ pc'[p] = "idle" /\ outcome'[p].kind = "ok" /\ outcome'[p].op = op[p]
        /\ outcome'[p].msg = words
    BY <2>1, <2>3 DEF Finish, TypeInv, Typed, TypeOK
  <2>5. words = Answers(op[p])
    <3>1. words \in Seq(Word \cup {NoWord})
      BY <1>1, AppendFacts DEF TypeInv, Typed, TypeOK
    <3>2. DOMAIN words = 1..Len(op[p].asked) /\ words = [i \in DOMAIN words |-> words[i]]
      BY <1>5, <2>2, <3>1
    <3> HIDE DEF words
    <3> QED
      BY <1>5, <2>2, <3>2 DEF Answers
  <2>6. Returned(p)'
    BY <2>4, <2>5 DEF Returned
  <2>7. PipeInv(p)'
    BY <1>2, <1>3, <2>2, <2>4 DEF PipeInv, InTransaction, cardVars
  <2>8. CounterInv(p)'
    BY <1>1, <1>2, <1>3, <2>4 DEF CounterInv, cardVars, objVars
  <2> QED
    BY <2>6, <2>7, <2>8 DEF Whole
<1> QED
  BY <1>6, <1>7

LEMMA InCallStep ==
  ASSUME TypeInv, LinkInv, NEW p \in Procs, InCall(p), Whole(p), ~outcome'[p].late
  PROVE  Whole(p)'
<1>1. CounterInv(p) /\ PipeInv(p)
  BY DEF Whole
<1>2. CASE Select(p)
  <2>1. /\ \/ pc[p] = "select" /\ pc'[p] = "send"
           \/ pc[p] = "reselect" /\ pc'[p] = "avail"
        /\ UNCHANGED <<ru, fifo, popping, rx, swt_cntr, prev_swt_cntr, prev_cnt, op, msg, outcome>>
    BY <1>2 DEF Select, endVars, TypeInv, Typed, TypeOK
  <2>2. Seen(p)' = Seen(p)
    BY <2>1 DEF Seen, Taken
  <2>3. PipeInv(p)'
    BY <1>1, <2>1, <2>2, Moves DEF InTransaction
  <2>4. CounterInv(p)'
    BY <1>1, <2>1 DEF CounterInv
  <2> QED
    BY <2>1, <2>3, <2>4 DEF Whole, Returned
<1>3. CASE ReadPrev(p)
  <2>1. /\ pc[p] = "prev" /\ pc'[p] = "pulse"
        /\ prev_cnt'[p] = IF prev_swt_cntr[p] = None THEN swt_cntr ELSE prev_swt_cntr[p]
        /\ UNCHANGED <<cardVars, objVars, op, msg, outcome>>
    BY <1>3 DEF ReadPrev, endVars, TypeInv, Typed, TypeOK
  <2>2. Seen(p)' = Seen(p)
    BY <2>1 DEF Seen, Taken
  <2>3. PipeInv(p)'
    BY <1>1, <2>1, <2>2, Moves DEF cardVars, InTransaction
  <2>4. CounterInv(p)'
    BY <1>1, <2>1 DEF CounterInv, cardVars, objVars
  <2> QED
    BY <2>1, <2>3, <2>4 DEF Whole, Returned
<1>4. CASE FifoReadEnable(p)
  <2>1. /\ pc[p] = "pulse" /\ pc'[p] = "count" /\ popping' = TRUE
        /\ UNCHANGED <<sc_link, ru, fifo, rx, swt_cntr, objVars, op, prev_cnt, msg, outcome>>
    BY <1>4 DEF FifoReadEnable, endVars, TypeInv, Typed, TypeOK
  <2>2. Seen(p)' = Seen(p)
    BY <2>1 DEF Seen, Taken
  <2>3. PipeInv(p)'
    BY <1>1, <2>1, <2>2, Moves DEF InTransaction
  <2>4. CounterInv(p)'
    BY <1>1, <2>1 DEF CounterInv, objVars
  <2> QED
    BY <2>1, <2>3, <2>4 DEF Whole, Returned
<1>5. CASE ScaWork(p)
  <2>0. ScaMoved(p)
    BY <1>5, ScaWorkStep
  <2>1. /\ pc[p] \notin InTransaction /\ pc'[p] \notin InTransaction
        /\ UNCHANGED <<swtVars, objVars, op, msg, outcome>>
    BY <2>0 DEF ScaMoved, ScaPlaces, ScaLocked, InTransaction, TypeInv, Typed, TypeOK
  <2>2. CounterInv(p)' /\ PipeInv(p)'
    BY <1>1, <2>1 DEF CounterInv, PipeInv, InTransaction, swtVars, objVars
  <2> QED
    BY <2>1, <2>2 DEF Whole, Returned
<1> QED
  BY <1>2, <1>3, <1>4, <1>5, SendStep, PollStep, ReadLowStep DEF InCall, ScaWork

LEMMA AnswersStep ==
  ASSUME OneProcess
  PROVE  TypeInv /\ TypeInv' /\ LinkInv /\ AnswersInv /\ [Next]_vars => AnswersInv'
<1> SUFFICES ASSUME TypeInv, TypeInv', LinkInv, AnswersInv, [Next]_vars, NEW p \in Procs,
                    ~outcome'[p].late
             PROVE  Whole(p)'
  BY DEF AnswersInv, Whole
<1>1. ~outcome[p].late
  <2>1. outcome'[p].late \in BOOLEAN /\ outcome[p].late \in BOOLEAN
    BY DEF TypeInv, Typed, TypeOK, Outcome, Kinds
  <2>2. CASE outcome' = outcome
    BY <2>2
  <2>4. ASSUME NEW q \in Procs, ScaWork(q) PROVE outcome' = outcome
    BY <2>4, ScaWorkStep DEF ScaMoved
  <2>3. ASSUME NEW q \in Procs, NEW kind, NEW words, Finish(q, kind, words)
        PROVE  ~outcome[p].late
    BY <2>3 DEF Finish, TypeInv, Typed, TypeOK
  <2> QED
    BY <2>2, <2>3, <2>4
    DEF Next, vars, Hardware, CardPops, RuAnswers, ScaProceeds, InCall, ScaWork, Call, Begin,
        ResetScCore, ScaCheckChannel, Select, Send, PollAvail, ReadPrev, FifoReadEnable, PollCounter,
        ReadLow, endVars
<1>2. Whole(p)
  BY <1>1 DEF AnswersInv, Whole
<1>3. CASE UNCHANGED vars
  BY <1>2, <1>3
  DEF Whole, CounterInv, PipeInv, Arrived, Seen, Taken, Returned, Answers, Answer,
      vars, cardVars, objVars, callVars, endVars
<1>4. CASE Hardware
  BY <1>2, <1>4, HardwareStep
<1>5. ASSUME NEW q \in Procs, InCall(q) \/ Call(q)
      PROVE  Whole(p)'
  <2>1. q = p
    BY DEF OneProcess
  <2> QED
    BY <1>2, <1>5, <2>1, InCallStep, CallsStep
<1> QED
  BY <1>3, <1>4, <1>5 DEF Next

LEMMA AnswersInvHolds == ASSUME OneProcess PROVE Spec => []AnswersInv
<1>1. Init => AnswersInv
  <2> SUFFICES ASSUME Init, NEW p \in Procs PROVE Whole(p)
    BY DEF AnswersInv, Whole
  <2>1. /\ pc[p] = "idle" /\ ~popping /\ prev_swt_cntr[p] = None /\ outcome[p].kind = "none"
        /\ \A c \in Channels : fifo[c] = <<>> /\ ru[c] = <<>>
    BY DEF Init
  <2> QED
    BY <2>1 DEF Whole, CounterInv, PipeInv, InTransaction
<1>2. TypeInv /\ TypeInv' /\ LinkInv /\ AnswersInv /\ [Next]_vars => AnswersInv'
  BY AnswersStep
<1>3. Spec => []LinkInv
  BY LinkInvHolds DEF SoundMemory
<1> QED
  BY <1>1, <1>2, <1>3, TypeInvHolds, PTL DEF Spec

\* Until an answer came too late for a call of the only user of the card, every
\* call returns one answer per read command, in order, from its own unit and to
\* this very transaction, whatever words earlier calls have counted.
THEOREM CallsAnswered == ASSUME OneProcess PROVE Spec => []AnswersMatch
<1>1. AnswersInv => AnswersMatch
  BY DEF AnswersInv, AnswersMatch, Returned
<1> QED
  BY <1>1, AnswersInvHolds, PTL

\* When the polls outlast the card and the units, nothing is ever late: no poll
\* gives up, no address is mistaken, and every call returns its answers.
THEOREM NothingGivenUp ==
  ASSUME OneProcess, ~Late
  PROVE  Spec => [](\A p \in Procs : outcome[p].kind = "none" \/ Returned(p))
<1> DEFINE InTime == \A p \in Procs : ~outcome[p].late
<1>1. Init => InTime
  <2> SUFFICES ASSUME Init, NEW p \in Procs PROVE ~outcome[p].late
    OBVIOUS
  <2>1. outcome[p] = [kind |-> "none", op |-> NoOp, msg |-> <<>>, late |-> FALSE]
    BY DEF Init
  <2> QED
    BY <2>1
<1>2. TypeInv /\ LinkInv /\ AnswersInv /\ InTime /\ [Next]_vars => InTime'
  <2> SUFFICES ASSUME TypeInv, LinkInv, AnswersInv, InTime, [Next]_vars, NEW p \in Procs
               PROVE  ~outcome'[p].late
    OBVIOUS
  <2>1. Whole(p)
    BY DEF AnswersInv, Whole
  <2>2. CASE outcome' = outcome
    BY <2>2
  <2>3. CASE Send(p)
    <3>1. ASSUME Finish(p, "ok", <<>>)
          PROVE  ~outcome'[p].late
      <4>1. outcome' = [outcome EXCEPT ![p] = [kind |-> "ok", op |-> op[p], msg |-> <<>>,
              late |-> outcome[p].late \/ ("ok" # "ok" /\ (popping \/ ru[sc_link] # <<>>))]]
        BY <3>1 DEF Finish
      <4>2. outcome \in [Procs -> Outcome]
        BY DEF TypeInv, Typed, TypeOK
      <4>3. outcome'[p].late <=> outcome[p].late
        BY <4>1, <4>2
      <4> QED
        BY <4>3
    <3> QED
      BY <2>2, <2>3, <3>1 DEF Send
  <2>4. CASE PollAvail(p)
    <3>1. ~(fifo[sc_link] = <<>> /\ ru[sc_link] = <<>>)
      BY <2>1, <2>4, Waiting DEF PollAvail
    <3> QED
      BY <2>2, <2>4, <3>1 DEF PollAvail
  <2>5. CASE PollCounter(p)
    <3>1. ~(swt_cntr = prev_cnt[p] /\ ~popping)
      BY <2>1, <2>5, Waiting DEF PollCounter
    <3> QED
      BY <2>2, <2>5, <3>1 DEF PollCounter
  <2>6. CASE ReadLow(p)
    <3>1. outcome'[p].kind = "none" \/ outcome'[p].kind = "ok"
      BY <2>1, <2>6, ReadLowStep DEF Whole, Returned
    <3>2. ASSUME NEW kind, NEW words, Finish(p, kind, words), kind \in Kinds \ {"none"}
          PROVE  ~outcome'[p].late
      BY <3>1, <3>2 DEF Finish, Kinds, TypeInv, Typed, TypeOK
    <3> QED
      BY <2>2, <2>6, <3>2 DEF ReadLow, Verdict, Kinds
  <2>7. ASSUME NEW q \in Procs, InCall(q) \/ Call(q)
        PROVE  q = p
    BY DEF OneProcess
  <2>8. CASE ScaWork(p)
    BY <2>2, <2>8, ScaWorkStep DEF ScaMoved
  <2> QED
    BY <2>2, <2>3, <2>4, <2>5, <2>6, <2>7, <2>8
    DEF Next, vars, Hardware, CardPops, RuAnswers, ScaProceeds, InCall, ScaWork, Call, Begin,
        ResetScCore, ScaCheckChannel, Select, ReadPrev, FifoReadEnable, endVars
<1>3. AnswersInv /\ InTime => \A p \in Procs : outcome[p].kind = "none" \/ Returned(p)
  BY DEF AnswersInv
<1>4. Spec => []LinkInv
  BY LinkInvHolds DEF SoundMemory
<1>5. Spec => []AnswersInv
  BY AnswersInvHolds
<1> QED
  BY <1>1, <1>2, <1>3, <1>4, <1>5, TypeInvHolds, PTL DEF Spec
=============================================================================
