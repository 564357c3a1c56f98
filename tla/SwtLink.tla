------------------------------- MODULE SwtLink -------------------------------
(***************************************************************************)
(* Slow control through a FELIX card: FlxSwtCommunication (one object per  *)
(* readout unit), Sca_flx, and the FlxCard object they share, over the     *)
(* registers of the card.                                                  *)
(*                                                                         *)
(* A card serves one GBT channel at a time, the one in its link register.  *)
(* A process remembers the channel it selected last and the value the word *)
(* counter had at its last read, and relies on both.  Several processes    *)
(* may have opened the card; the LLA lock is the atomic mutex that         *)
(* CardLock implements.                                                    *)
(*                                                                         *)
(* The card and the readout units are external: a command word reaches the *)
(* unit on the selected channel, a read command is answered by one word in *)
(* that channel's FIFO, and a read-enable pulse makes the card show the    *)
(* FIFO's first word and step its word counter, some time later.  The SCA  *)
(* of the units is external too: a command may leave it busy, and its      *)
(* reply may stay away (error code 0x40) for as long as it likes.          *)
(***************************************************************************)
EXTENDS Integers, Sequences

CONSTANTS
  Procs,        \* processes that opened the card
  Channels,     \* GBT channels with a readout unit
  SwtChannels,  \* channels used through FlxSwtCommunication
  ScaChannels,  \* channels used through Sca_flx
  Addresses,    \* Wishbone addresses
  WriteCmd,     \* a write command: it is not answered
  MaxBatch,     \* bound: commands of a transaction
  None,         \* nothing remembered, nobody holds the lock
  CntrMod,      \* the word counter counts modulo this (16)
  MaxPoll,      \* max_poll_per_swt, max_poll_per_fifo_read (200)
  MaxScaPoll,   \* reads after which an SCA poll raises (1e5)
  MaxOps,       \* bound: transactions of a behaviour
  AlwaysSet,    \* always_set_gbt_channel
  Late          \* answers may take longer than the polls wait

ASSUME SwtLinkAssumption ==
  /\ SwtChannels \subseteq Channels /\ ScaChannels \subseteq Channels
  /\ CntrMod \in Nat \ {0, 1} /\ MaxPoll \in Nat \ {0} /\ MaxOps \in Nat
  /\ MaxScaPoll \in Nat \ {0} /\ MaxBatch \in Nat
  /\ AlwaysSet \in BOOLEAN /\ Late \in BOOLEAN
  /\ WriteCmd \notin Addresses /\ None \notin Procs \cup Channels

VARIABLES
  \* the card and the readout units (external)
  sc_link,   \* the selected channel
  ru,        \* per channel, read commands the unit has not answered
  fifo,      \* per channel, answers the card has not shown
  popping,   \* a read-enable pulse the card has not acted on
  rx,        \* the word shown in RX_LOW
  swt_cntr,  \* the word counter shown in RX_HI
  sca,       \* what RD_CTR_MON and RD_CMD_DATA show of the SCA
  \* the lock
  holder,
  \* per process: the FlxCard object and the class attribute of Sca_flx
  selected_gbt_channel,
  prev_swt_cntr,
  sca_selected,
  \* per process: the call in progress
  pc, op, nxt, retries, prev_cnt, msg,
  \* per process: how its last call ended; for the SCA, wanted and real channel
  outcome, sca_sent,
  nops       \* transactions begun so far

swtVars == <<sc_link, ru, fifo, popping, rx, swt_cntr>>
cardVars == <<sc_link, ru, fifo, popping, rx, swt_cntr, sca>>
objVars == <<selected_gbt_channel, prev_swt_cntr, sca_selected>>
callVars == <<pc, op, nxt, retries, prev_cnt, msg>>
endVars == <<outcome, sca_sent, nops>>
vars == <<cardVars, holder, objVars, callVars, endVars>>

\* A word names the unit it belongs to, the address and the transaction that
\* asked for it; the transaction stands for the 16 bits of data.
Word == [ch : Channels, addr : Addresses, tag : 0..MaxOps]
NoWord == [ch |-> None, addr |-> None, tag |-> 0]

\* The transactions: single_write and single_read send one command,
\* flush_and_read_results a buffer of reads and writes.
Commands == UNION {[1..n -> Addresses \cup {WriteCmd}] : n \in 1..MaxBatch}
NoOp == [ch |-> None, cmds |-> <<>>, asked |-> <<>>, single |-> FALSE, tag |-> 0]

\* A call: asked lists the addresses of the read commands sent so far, one
\* word of _read_bytes each.
Op == [ch : Channels \cup {None}, cmds : Commands \cup {<<>>}, asked : Seq(Addresses),
       single : BOOLEAN, tag : 0..MaxOps]
IsRead(cmd) == cmd # WriteCmd
Asking(o, cmd) == IF IsRead(cmd) THEN [o EXCEPT !.asked = Append(@, cmd)] ELSE o

Location == {"idle", "select", "send", "reselect", "avail", "prev", "pulse", "count",
             "low", "sca", "sca_tx", "sca_send", "sca_wait", "sca_reply", "sca_rd"}

\* The SCA: bit 30 of RD_CTR_MON (not bit 31) is set, bit 31 is set, neither
\* is but the reply has the error code 0x40, or the reply is there (error
\* code 0 or another one).
ScaState == {"tx busy", "busy", "again", "ready"}

Kinds == {"none", "ok", "no SWT available", "counter did not change", "address mismatch"}
Outcome == [kind : Kinds, op : Op, msg : Seq(Word \cup {NoWord}), late : BOOLEAN]

TypeOK ==
  /\ sc_link \in Channels
  /\ ru \in [Channels -> Seq(Word)] /\ fifo \in [Channels -> Seq(Word)]
  /\ popping \in BOOLEAN
  /\ rx \in Word \cup {NoWord} /\ swt_cntr \in 0..CntrMod - 1
  /\ sca \in ScaState
  /\ holder \in Procs \cup {None}
  /\ selected_gbt_channel \in [Procs -> Channels \cup {None}]
  /\ prev_swt_cntr \in [Procs -> (0..CntrMod - 1) \cup {None}]
  /\ sca_selected \in [Procs -> Channels \cup {None}]
  /\ pc \in [Procs -> Location]
  /\ op \in [Procs -> Op]
  /\ nxt \in [Procs -> 1..MaxBatch + 1]
  /\ retries \in [Procs -> (0..MaxPoll) \cup (0..MaxScaPoll)]
  /\ prev_cnt \in [Procs -> 0..CntrMod - 1]
  /\ msg \in [Procs -> Seq(Word \cup {NoWord})]
  /\ outcome \in [Procs -> Outcome]
  /\ sca_sent \in [Procs -> (Channels \cup {None}) \X (Channels \cup {None})]
  /\ nops \in 0..MaxOps

Init ==
  /\ sc_link \in Channels
  /\ ru = [c \in Channels |-> <<>>] /\ fifo = [c \in Channels |-> <<>>]
  /\ popping = FALSE /\ rx = NoWord /\ swt_cntr = 0
  /\ sca = "ready"
  /\ holder = None
  /\ selected_gbt_channel = [p \in Procs |-> None]
  /\ prev_swt_cntr = [p \in Procs |-> None]
  /\ sca_selected = [p \in Procs |-> None]
  /\ pc = [p \in Procs |-> "idle"]
  /\ op = [p \in Procs |-> NoOp]
  /\ nxt = [p \in Procs |-> 1]
  /\ retries = [p \in Procs |-> 0]
  /\ prev_cnt = [p \in Procs |-> 0]
  /\ msg = [p \in Procs |-> <<>>]
  /\ outcome = [p \in Procs |-> [kind |-> "none", op |-> NoOp, msg |-> <<>>, late |-> FALSE]]
  /\ sca_sent = [p \in Procs |-> <<None, None>>]
  /\ nops = 0

-----------------------------------------------------------------------------
\* The card and the readout units (external).

\* The unit on channel c answers its oldest read command.
RuAnswers(c) ==
  /\ ru[c] # <<>>
  /\ fifo' = [fifo EXCEPT ![c] = Append(@, Head(ru[c]))]
  /\ ru' = [ru EXCEPT ![c] = Tail(@)]
  /\ UNCHANGED <<sc_link, popping, rx, swt_cntr, sca, holder, objVars, callVars, endVars>>

\* The card acts on the read-enable pulse.
CardPops ==
  /\ popping
  /\ popping' = FALSE
  /\ IF fifo[sc_link] = <<>>
       THEN UNCHANGED <<fifo, rx, swt_cntr>>
       ELSE /\ rx' = Head(fifo[sc_link])
            /\ fifo' = [fifo EXCEPT ![sc_link] = Tail(@)]
            /\ swt_cntr' = (swt_cntr + 1) % CntrMod
  /\ UNCHANGED <<sc_link, ru, sca, holder, objVars, callVars, endVars>>

\* The SCA goes on with its command; nothing says that it ever ends.
ScaProceeds ==
  /\ sca # "ready"
  /\ sca' \in ScaState
  /\ UNCHANGED <<swtVars, holder, objVars, callVars, endVars>>

-----------------------------------------------------------------------------
\* FlxCard.set_gbt_channel: cache first, register second.
SetGbtChannel(p, c) ==
  /\ selected_gbt_channel' = [selected_gbt_channel EXCEPT ![p] = c]
  /\ sc_link' = c

\* FlxCard.reset_sc_core, under the lock: the FIFOs are emptied and the
\* counter is forgotten.
ResetScCore(p) ==
  /\ pc[p] = "idle" /\ holder = None /\ nops < MaxOps
  /\ nops' = nops + 1
  /\ fifo' = [c \in Channels |-> <<>>]
  /\ prev_swt_cntr' = [prev_swt_cntr EXCEPT ![p] = None]
  /\ UNCHANGED <<sc_link, ru, popping, rx, swt_cntr, sca, holder, selected_gbt_channel,
                 sca_selected, callVars, outcome, sca_sent>>

-----------------------------------------------------------------------------
\* FlxSwtCommunication: a transaction takes the lock, ...
Begin(p) ==
  /\ pc[p] = "idle" /\ holder = None /\ nops < MaxOps
  /\ \E c \in SwtChannels, cmds \in Commands :
       op' = [op EXCEPT ![p] = [ch |-> c, cmds |-> cmds, asked |-> <<>>,
                                single |-> Len(cmds) = 1, tag |-> nops]]
  /\ nops' = nops + 1
  /\ holder' = p
  /\ pc' = [pc EXCEPT ![p] = "select"]
  /\ nxt' = [nxt EXCEPT ![p] = 1]
  /\ msg' = [msg EXCEPT ![p] = <<>>]
  /\ UNCHANGED <<cardVars, objVars, retries, prev_cnt, outcome, sca_sent>>

\* ... _do_write_dp0 and _do_read_dp1 select the channel unless the card
\* object remembers it, ...
\* (Mutant: the channel is remembered but not written to the card.)
SelectChannelCacheOnly(p) ==
  /\ selected_gbt_channel' = [selected_gbt_channel EXCEPT ![p] = op[p].ch]
  /\ UNCHANGED sc_link

SelectChannel(p) ==
  IF AlwaysSet \/ op[p].ch # selected_gbt_channel[p]
    THEN SetGbtChannel(p, op[p].ch)
    ELSE UNCHANGED <<selected_gbt_channel, sc_link>>

Select(p) ==
  /\ \/ /\ pc[p] = "select" /\ pc' = [pc EXCEPT ![p] = "send"]
     \/ /\ pc[p] = "reselect" /\ pc' = [pc EXCEPT ![p] = "avail"]
  /\ SelectChannel(p)
  /\ UNCHANGED <<ru, fifo, popping, rx, swt_cntr, sca, holder, prev_swt_cntr, sca_selected,
                 op, nxt, retries, prev_cnt, msg, endVars>>

\* The call ends: the lock is released and the caller sees how it went.  (For
\* the properties: whether a call gave up on words that were still under way.)
Finish(p, kind, words) ==
  /\ pc' = [pc EXCEPT ![p] = "idle"]
  /\ holder' = None
  /\ outcome' = [outcome EXCEPT ![p] = [kind |-> kind, op |-> op[p], msg |-> words,
       late |-> outcome[p].late \/ (kind # "ok" /\ (popping \/ ru[sc_link] # <<>>))]]

\* ... _send_swt writes one word after the other, ...
Send(p) ==
  /\ pc[p] = "send"
  /\ LET cmd == op[p].cmds[nxt[p]] IN
       /\ ru' = IF IsRead(cmd)
                  THEN [ru EXCEPT ![sc_link] =
                          Append(@, [ch |-> sc_link, addr |-> cmd, tag |-> op[p].tag])]
                  ELSE ru
       /\ op' = [op EXCEPT ![p] = Asking(@, cmd)]
  /\ nxt' = [nxt EXCEPT ![p] = @ + 1]
  /\ CASE nxt[p] < Len(op[p].cmds) -> UNCHANGED <<pc, holder, outcome, retries>>
       [] nxt[p] = Len(op[p].cmds) /\ op'[p].asked # <<>> ->
            /\ pc' = [pc EXCEPT ![p] = "reselect"]
            /\ retries' = [retries EXCEPT ![p] = 0]
            /\ UNCHANGED <<holder, outcome>>
       [] OTHER -> Finish(p, "ok", <<>>) /\ UNCHANGED retries
  /\ UNCHANGED <<sc_link, fifo, popping, rx, swt_cntr, sca, objVars, prev_cnt, msg,
                 sca_sent, nops>>

\* ... and for every expected word _do_read_dp1 polls the FIFO, ...
PollAvail(p) ==
  /\ pc[p] = "avail"
  /\ \/ /\ fifo[sc_link] # <<>>
        /\ pc' = [pc EXCEPT ![p] = "prev"]
        /\ UNCHANGED <<holder, outcome, retries>>
     \/ /\ fifo[sc_link] = <<>> /\ retries[p] < MaxPoll
        /\ retries' = [retries EXCEPT ![p] = @ + 1]
        /\ UNCHANGED <<pc, holder, outcome>>
     \/ /\ fifo[sc_link] = <<>> /\ retries[p] = MaxPoll
        /\ Late \/ ru[sc_link] = <<>>
        /\ Finish(p, "no SWT available", msg[p])
        /\ UNCHANGED retries
  /\ UNCHANGED <<cardVars, objVars, op, nxt, prev_cnt, msg, sca_sent, nops>>

\* _read_swt takes the remembered counter, or reads it, ...
\* (Mutant: nothing remembered is not noticed.)
ReadPrevUnknown(p) ==
  /\ pc[p] = "prev"
  /\ prev_cnt' = [prev_cnt EXCEPT ![p] = prev_swt_cntr[p]]
  /\ pc' = [pc EXCEPT ![p] = "pulse"]
  /\ UNCHANGED <<cardVars, holder, objVars, op, nxt, retries, msg, endVars>>

ReadPrev(p) ==
  /\ pc[p] = "prev"
  /\ prev_cnt' = [prev_cnt EXCEPT ![p] =
                    IF prev_swt_cntr[p] = None THEN swt_cntr ELSE prev_swt_cntr[p]]
  /\ pc' = [pc EXCEPT ![p] = "pulse"]
  /\ UNCHANGED <<cardVars, holder, objVars, op, nxt, retries, msg, endVars>>

\* ... pulses the read enable, ...
FifoReadEnable(p) ==
  /\ pc[p] = "pulse"
  /\ popping' = TRUE
  /\ pc' = [pc EXCEPT ![p] = "count"]
  /\ retries' = [retries EXCEPT ![p] = 0]
  /\ UNCHANGED <<sc_link, ru, fifo, rx, swt_cntr, sca, holder, objVars, op, nxt,
                 prev_cnt, msg, endVars>>

\* Mutant of PollCounter: no wait for the counter.
PollCounterNoWait(p) ==
  /\ pc[p] = "count"
  /\ prev_swt_cntr' = [prev_swt_cntr EXCEPT ![p] = swt_cntr]
  /\ pc' = [pc EXCEPT ![p] = "low"]
  /\ UNCHANGED <<cardVars, holder, outcome, retries, selected_gbt_channel,
                 sca_selected, op, nxt, prev_cnt, msg, sca_sent, nops>>

\* ... waits until the counter differs and remembers it ...
PollCounter(p) ==
  /\ pc[p] = "count"
  /\ \/ /\ swt_cntr # prev_cnt[p]
        /\ prev_swt_cntr' = [prev_swt_cntr EXCEPT ![p] = swt_cntr]
        /\ pc' = [pc EXCEPT ![p] = "low"]
        /\ UNCHANGED <<holder, outcome, retries>>
     \/ /\ swt_cntr = prev_cnt[p] /\ retries[p] < MaxPoll
        /\ retries' = [retries EXCEPT ![p] = @ + 1]
        /\ UNCHANGED <<pc, holder, outcome, prev_swt_cntr>>
     \/ /\ swt_cntr = prev_cnt[p] /\ retries[p] = MaxPoll
        /\ Late \/ ~popping
        /\ Finish(p, "counter did not change", msg[p])
        /\ UNCHANGED <<retries, prev_swt_cntr>>
  /\ UNCHANGED <<cardVars, selected_gbt_channel, sca_selected, op, nxt, prev_cnt, msg,
                 sca_sent, nops>>

\* single_read raises AddressMismatchError; read_results does not look.
Verdict(o, words) ==
  IF o.single /\ words[1].addr # o.asked[1] THEN "address mismatch" ELSE "ok"

\* ... and takes RX_LOW.
ReadLow(p) ==
  /\ pc[p] = "low"
  /\ LET words == Append(msg[p], rx) IN
       /\ msg' = [msg EXCEPT ![p] = words]
       /\ IF Len(words) < Len(op[p].asked)
            THEN /\ pc' = [pc EXCEPT ![p] = "avail"]
                 /\ UNCHANGED <<holder, outcome>>
            ELSE Finish(p, Verdict(op[p], words), words)
  /\ retries' = [retries EXCEPT ![p] = 0]
  /\ UNCHANGED <<cardVars, objVars, op, nxt, prev_cnt, sca_sent, nops>>

-----------------------------------------------------------------------------
\* Sca_flx._wr: the channel is checked before the lock is taken, against a
\* memory of its own.
ScaCheckChannel(p) ==
  /\ pc[p] = "idle" /\ nops < MaxOps
  /\ nops' = nops + 1
  /\ \E c \in ScaChannels :
       /\ op' = [op EXCEPT ![p] = [NoOp EXCEPT !.ch = c]]
       /\ IF c # sca_selected[p]
            THEN SetGbtChannel(p, c)
            ELSE UNCHANGED <<selected_gbt_channel, sc_link>>
       /\ sca_selected' = [sca_selected EXCEPT ![p] = c]
  /\ nxt' = [nxt EXCEPT ![p] = 1]
  /\ pc' = [pc EXCEPT ![p] = "sca"]
  /\ UNCHANGED <<ru, fifo, popping, rx, swt_cntr, sca, holder, prev_swt_cntr,
                 retries, prev_cnt, msg, outcome, sca_sent>>

\* What the steps of an SCA call between lock and unlock have in common.
InScaCall(p, there) ==
  /\ pc[p] = there
  /\ UNCHANGED <<swtVars, objVars, op, nxt, prev_cnt, msg, outcome, nops>>

\* The lock is released: the call ends with or without an exception, or goes on
\* to the reply.
ScaUnlock(p, there) ==
  /\ holder' = None
  /\ pc' = [pc EXCEPT ![p] = there]
  /\ UNCHANGED retries

\* The process goes on at there, or polls once more.
ScaGoOn(p, there) ==
  /\ pc' = [pc EXCEPT ![p] = there]
  /\ retries' = [retries EXCEPT ![p] = 0]
  /\ UNCHANGED holder
ScaPoll(p) ==
  /\ retries' = [retries EXCEPT ![p] = @ + 1]
  /\ UNCHANGED <<pc, holder>>
LastPoll(p) == retries[p] + 1 = MaxScaPoll

\* The lock is taken for a command (_wr), and again for its reply (_rd).
ScaLock(p) ==
  /\ holder = None
  /\ holder' = p
  /\ \/ pc[p] = "sca" /\ pc' = [pc EXCEPT ![p] = "sca_tx"]
     \/ pc[p] = "sca_reply" /\ pc' = [pc EXCEPT ![p] = "sca_rd"]
  /\ retries' = [retries EXCEPT ![p] = 0]
  /\ UNCHANGED <<cardVars, objVars, op, nxt, prev_cnt, msg, endVars>>

\* _wr polls until RD_CTR_MON >> 30 is not 1: the last poll raises "SCA is
\* stuck" if it still is, ...
ScaTxBusy(p) ==
  /\ InScaCall(p, "sca_tx")
  /\ CASE sca # "tx busy" -> ScaGoOn(p, "sca_send")
       [] sca = "tx busy" /\ ~LastPoll(p) -> ScaPoll(p)
       [] OTHER -> ScaUnlock(p, "idle")
  /\ UNCHANGED <<sca, sca_sent>>

\* ... the command goes to the unit on the selected channel, ...
ScaSend(p) ==
  /\ InScaCall(p, "sca_send")
  /\ sca_sent' = [sca_sent EXCEPT ![p] = <<op[p].ch, sc_link>>]
  /\ sca' \in ScaState
  /\ ScaGoOn(p, "sca_wait")

\* Mutant of ScaWaitBusy: the exception leaves the lock taken.
ScaWaitBusyKeepsLock(p) ==
  /\ InScaCall(p, "sca_wait")
  /\ CASE LastPoll(p) -> ScaGoOn(p, "idle")
       [] ~LastPoll(p) /\ sca = "busy" -> ScaPoll(p)
       [] OTHER -> \E there \in {"idle", "sca_reply"} : ScaUnlock(p, there)
  /\ UNCHANGED <<sca, sca_sent>>

\* ... and waitBusy polls until bit 31 is clear: its last poll raises even if
\* it is.  The caller of _wr asks for the reply or does not.
ScaWaitBusy(p) ==
  /\ InScaCall(p, "sca_wait")
  /\ CASE LastPoll(p) -> ScaUnlock(p, "idle")
       [] ~LastPoll(p) /\ sca = "busy" -> ScaPoll(p)
       [] OTHER -> \E there \in {"idle", "sca_reply"} : ScaUnlock(p, there)
  /\ UNCHANGED <<sca, sca_sent>>

\* _rd, with the lock, reads RD_CMD_DATA until the error code is not 0x40 and
\* counts nothing: a read that sees 0x40 changes nothing here.  It returns the
\* reply or raises ScaBadErrorFlagError.
ScaRd(p) ==
  /\ InScaCall(p, "sca_rd")
  /\ sca = "ready"
  /\ ScaUnlock(p, "idle")
  /\ UNCHANGED <<sca, sca_sent>>

-----------------------------------------------------------------------------
\* What a process does inside a call.
InCall(p) ==
  \/ Select(p) \/ Send(p)
  \/ PollAvail(p) \/ ReadPrev(p) \/ FifoReadEnable(p) \/ PollCounter(p) \/ ReadLow(p)
  \/ ScaLock(p) \/ ScaTxBusy(p) \/ ScaSend(p) \/ ScaWaitBusy(p) \/ ScaRd(p)

Call(p) == Begin(p) \/ ResetScCore(p) \/ ScaCheckChannel(p)

Hardware == CardPops \/ ScaProceeds \/ \E c \in Channels : RuAnswers(c)

Next == Hardware \/ \E p \in Procs : InCall(p) \/ Call(p)

Spec == Init /\ [][Next]_vars

\* A process in a call runs on; card and units answer.  The SCA need not.
Fairness == /\ WF_vars(CardPops)
            /\ \A c \in Channels : WF_vars(RuAnswers(c))
            /\ \A p \in Procs : SF_vars(InCall(p))

FairSpec == Spec /\ Fairness

-----------------------------------------------------------------------------
\* The words a correct call returns: one answer per read command, in order,
\* from its own unit and to this very transaction.
Answer(o, i) == [ch |-> o.ch, addr |-> o.asked[i], tag |-> o.tag]
Answers(o) == [i \in 1..Len(o.asked) |-> Answer(o, i)]

\* "Perform a single read operation ... and reads back the result": a call
\* returns the answers to its own commands, although words of earlier calls may
\* be under way and the word counter wraps; until answers came too late for a
\* call, no poll gives up and no address is mistaken.
AnswersMatch ==
  \A p \in Procs :
    \/ outcome[p].kind = "none"
    \/ outcome[p].late
    \/ outcome[p].kind = "ok" /\ outcome[p].msg = Answers(outcome[p].op)

\* Every word a transaction sends or reads goes over the channel of its
\* communication object: the channel the card object remembers is the one
\* the card has.
LinkSelected ==
  \A p \in Procs :
    pc[p] \in {"send", "avail", "prev", "pulse", "count", "low"} => sc_link = op[p].ch

\* An SCA command reaches the unit it is meant for.
ScaOnItsChannel == \A p \in Procs : sca_sent[p][1] = sca_sent[p][2]

\* The holder of the lock waits for a reply of the SCA that is not there.
Unanswered == sca # "ready" /\ \E q \in Procs : pc[q] = "sca_rd"

\* Every call ends, with its words or with an exception, whatever the units and
\* the SCA do, unless an SCA never gives the reply that a process reads: _rd
\* has no bound (sca_flx.py:134), and keeps the lock from every other call.
CallEnds ==
  \A p \in Procs : pc[p] # "idle" ~> (pc[p] = "idle" \/ []Unanswered)
=============================================================================
