----------------------------- MODULE RegisterBank -----------------------------
(***************************************************************************)
(* Control registers as the software sees them: pairs of functions that    *)
(* set and get one quantity, an enable bit, a period, the lanes of a       *)
(* stave, that lives in some bits of some registers.  A setter either      *)
(* writes whole registers, or reads them first and keeps the bits it is    *)
(* not about.                                                              *)
(*                                                                         *)
(* Two consoles may work with one board.  On a readout unit every flush    *)
(* has the lock of the card; a read and the write that follows it are two  *)
(* flushes.  Commands that are not committed wait in the buffer of their   *)
(* console, and stay there when a flush raises.  The registers of a card   *)
(* in this computer are read and written at once.                          *)
(*                                                                         *)
(* A word, and the value of a quantity, is the set of its bits that are 1. *)
(***************************************************************************)
EXTENDS Integers, Sequences, FiniteSets, SequencesExt

CONSTANTS
  Consoles,  \* processes that use the registers
  Cases      \* the quantities and the calls a behaviour is about

VARIABLES
  case,      \* the member of Cases
  reg,       \* the registers
  buf,       \* writes registered and not flushed, by console
  copy,      \* what a setter has read and will write back, by console
  \* history
  want,      \* the registers as the setters were asked to leave them
  lost,      \* bits of registers that two consoles changed at the same time
  calls, upsets

vars == <<case, reg, buf, copy, want, lost, calls, upsets>>

-----------------------------------------------------------------------------
\* Where the bits of a value are: in one register, or in several from the
\* least significant word on.
Field(addr, low, width) == [b \in 0..(width - 1) |-> <<addr, low + b>>]
Wide(addrs, width) == [b \in 0..(width - 1) |-> <<addrs[b \div 16 + 1], b % 16>>]

\* A quantity and a setter for it: the bits the setter writes and those the
\* getter reads; the registers in the order they are written; the bits of a
\* register that are kept; the bits of the value it is about; the width an
\* assertion enforces, and the values it also refuses; the bits of other registers
\* that have to be set, or clear; the quantities that it also clears; the bits
\* of the value that are written in turn, each with a read of its own; a value
\* every turn writes before its own.
Quantity(name, bits, order, limit) ==
  [name |-> name, set |-> bits, get |-> bits, order |-> order, keeps |-> {}, only |-> DOMAIN bits,
   limit |-> limit, refuses |-> {}, needs |-> {}, forbids |-> {}, clears |-> {},
   flag |-> FALSE, pulse |-> FALSE, stepwise |-> FALSE, unary |-> FALSE, given |-> {},
   turns |-> <<>>, first |-> {}]

Unlimited == 1000
R(name, addr, low, width) == Quantity(name, Field(addr, low, width), <<addr>>, width)
Words(name, addrs, width) == Quantity(name, Wide(addrs, width), addrs, width)

\* No assertion and no mask: a value that is too large reaches higher bits.
Loose(q) == [q EXCEPT !.limit = Unlimited,
                      !.set = Field(q.order[1], q.set[0][2], 16 - q.set[0][2])]
\* No assertion, but the value is masked.
Masked(q) == [q EXCEPT !.limit = Unlimited]
\* The setter reads the registers and keeps what it is not about.
Kept(q) == [q EXCEPT !.keeps = 0..63]
\* The setter sets or clears the bits of a mask: all of them, or some of them
\* and keeps the others.
Flags(q) == [q EXCEPT !.flag = TRUE]
Lanes(q, mask) == [Kept(Flags(q)) EXCEPT !.only = mask, !.set = [b \in mask |-> q.set[b]]]
\* Several fields that get the same value, one after the other, each with a
\* read and a write of its own.
Repeated(name, places, width) ==
  LET bits == [b \in 0..(width * Len(places) - 1) |->
                 <<places[b \div width + 1][1], places[b \div width + 1][2] + (b % width)>>]
      Everywhere(v) == {b \in DOMAIN bits : (b % width) \in v}
  IN [Kept(Quantity(name, bits, [i \in DOMAIN places |-> places[i][1]], Unlimited)) EXCEPT
        !.turns = [i \in DOMAIN places |-> (width * (i - 1))..(width * i - 1)],
        !.given = {Everywhere(v) : v \in {{}, 0..(width - 1), {width - 1}}}]
\* One field, and the setter takes two turns: another value first, or the
\* value and then its end.
Twice(q, value) == [Kept(q) EXCEPT !.order = @ \o @, !.turns = <<q.only, q.only>>, !.first = {value}]
Through(q, value) == Twice(q, value)
Toggled(q) == [Twice(q, q.only) EXCEPT !.pulse = TRUE, !.given = {{}}]
\* The same for every field of q.
AllToggled(q) == LET n == Len(q.order) IN
  [q EXCEPT !.order = [i \in 1..(2 * n) |-> q.order[(i + 1) \div 2]],
            !.turns = [i \in 1..(2 * n) |-> q.turns[(i + 1) \div 2]],
            !.pulse = TRUE, !.first = {q.only}, !.given = {{}}]
\* One flush for each register.
Stepwise(q) == [q EXCEPT !.stepwise = TRUE]
\* Written and cleared again.
Pulse(q) == [q EXCEPT !.pulse = TRUE]
\* A number n is written as n bits that are 1.
Unary(q) == [q EXCEPT !.unary = TRUE]
\* The code has the values.
Given(q, values) == [q EXCEPT !.given = values]
\* Zero is refused.
Positive(q) == [q EXCEPT !.refuses = {{}}]
\* The setter also clears other quantities of its register.
Clears(q, names) == [q EXCEPT !.clears = names]
\* A register of the firmware that no setter is about.
Status(name, addr, low, width) == [R(name, addr, low, width) EXCEPT !.order = <<>>]
StatusWords(name, addrs, width) == [Words(name, addrs, width) EXCEPT !.order = <<>>]

Settable(q) == q.order # <<>>
AddrsOf(q) == {q.get[b][1] : b \in DOMAIN q.get} \cup ToSet(q.order)
AllAddrs(q) == AddrsOf(q) \cup {x[1] : x \in q.needs \cup q.forbids}

\* The word of one register for a value.
BitsAt(q, bits, addr) == {q.set[b][2] : b \in {c \in bits \cap DOMAIN q.set : q.set[c][1] = addr}}

-----------------------------------------------------------------------------
\* One write of the buffer.
Do(regs, cmd) == [regs EXCEPT ![cmd.addr] = cmd.word]
DoAll(regs, cmds) == FoldLeft(Do, regs, cmds)

\* Mutant: the setter writes zeros into the bits it should keep.
CommandsForget(q, value, old) ==
  [i \in DOMAIN q.order |-> [addr |-> q.order[i], word |-> BitsAt(q, value, q.order[i])]]

\* The writes of a setter, from the registers it has read.
Commands(q, value, old) ==
  [i \in DOMAIN q.order |->
     [addr |-> q.order[i],
      word |-> ((old[q.order[i]] \cap q.keeps) \ BitsAt(q, DOMAIN q.set, q.order[i]))
               \cup BitsAt(q, value, q.order[i])]]
Cleared(q) == [i \in DOMAIN q.order |-> [addr |-> q.order[i], word |-> {}]]

None == [of |-> "nothing"]
Copy(q, value, regs) == [of |-> "copy", quantity |-> q, value |-> value, at |-> 1,
                         old |-> [a \in ToSet(q.order) |-> regs[a]]]
Idle(c) == copy[c] = None
WordBits == 0..(case.width - 1)

\* What a setter that has read writes next: everything, or one turn.
InTurns(x) == x.quantity.turns # <<>>
AtLast(x) == ~InTurns(x) \/ x.at = Len(x.quantity.turns)
\* The turn writes the value that goes before.
Before(x) == x.quantity.first # {} /\ x.at % 2 = 1
ValueNow(x) == IF Before(x) THEN CHOOSE v \in x.quantity.first : TRUE ELSE x.value
BitsNow(x) == IF InTurns(x) THEN x.quantity.turns[x.at] ELSE DOMAIN x.quantity.set
Batch(x) ==
  IF InTurns(x) THEN SubSeq(Commands([x.quantity EXCEPT !.set = [b \in BitsNow(x) |-> @[b]]], ValueNow(x), x.old),
                            x.at, x.at)
  ELSE Commands(x.quantity, x.value, x.old)

\* Registers of which a console still holds an old word or a waiting write.
Held(c) == {cmd.addr : cmd \in ToSet(buf[c])}
           \cup (IF Idle(c) THEN {} ELSE
                   LET x == copy[c] IN IF InTurns(x) THEN {x.quantity.order[x.at]} ELSE ToSet(x.quantity.order))
Elsewhere(c) == UNION {Held(d) : d \in Consoles \ {c}}

\* What becomes lost when c writes these registers.
Disturbed(c, addrs) == (addrs \cap Elsewhere(c)) \X WordBits

\* flush: an exception comes before or after the commands went out, and in
\* both cases they stay in the buffer.
Flushes == {"done"} \cup (IF upsets < case.upsets THEN {"unsent", "sent"} ELSE {})
Flushed(c, cmds, how) ==
  /\ reg' = IF how = "unsent" THEN reg ELSE DoAll(reg, cmds)
  /\ buf' = [buf EXCEPT ![c] = IF how = "done" THEN <<>> ELSE cmds]
  /\ upsets' = IF how = "done" THEN upsets ELSE upsets + 1
Posted(c, cmds, commit) ==
  IF commit THEN \E how \in Flushes : Flushed(c, cmds, how)
  ELSE buf' = [buf EXCEPT ![c] = cmds] /\ UNCHANGED <<reg, upsets>>

\* The bits a setter of q is about, and those of the quantities it clears.
Owned(q) == {q.get[b] : b \in q.only \cap DOMAIN q.get}
OwnedBy(names) == UNION {Owned(p) : p \in {x \in case.quantities : x.name \in names}}
AskedOf(q, bits, value) ==
  LET ones == IF q.pulse THEN {} ELSE {q.get[b] : b \in value \cap bits \cap DOMAIN q.get}
      about == {q.get[b] : b \in q.only \cap bits \cap DOMAIN q.get} \cup OwnedBy(q.clears)
  IN [a \in DOMAIN want |-> {b \in WordBits :
        <<a, b>> \in ones \/ (b \in want[a] /\ <<a, b>> \notin about)}]
Asked(q, value) == AskedOf(q, DOMAIN q.get, value)

\* Some samples of a setter's argument: nothing, everything, the highest
\* bit, and a value one bit too large.
Samples(q) ==
  IF q.given # {} THEN q.given
  ELSE IF q.flag \/ q.only = {} THEN {{}, q.only}
  ELSE IF q.unary THEN {{}, {0}, 0..7}
  ELSE LET top == CHOOSE b \in q.only : \A c \in q.only : c <= b
       IN {{}, q.only, {top}, {top + 1}}

-----------------------------------------------------------------------------
Init ==
  /\ case \in Cases
  /\ reg \in {[a \in UNION {AllAddrs(q) : q \in case.quantities} |-> w] : w \in {{}, WordBits}}
  /\ buf = [c \in Consoles |-> <<>>] /\ copy = [c \in Consoles |-> None]
  /\ want = reg
  /\ lost = {}
  /\ calls = 0 /\ upsets = 0

Calling(c) == calls < case.calls /\ Idle(c)
Bit(x, regs) == x[2] \in regs[x[1]]
Accepts(c, q, value) ==
  /\ \A b \in value : b < q.limit
  /\ value \notin q.refuses
  /\ \A x \in q.needs : Bit(x, DoAll(reg, buf[c]))
  /\ \A x \in q.forbids : ~Bit(x, DoAll(reg, buf[c]))

\* An assertion refuses the value, or the state of the readout unit, which
\* is read for it.
Refuse(c, q, value) ==
  /\ Calling(c) /\ Settable(q) /\ ~Accepts(c, q, value)
  /\ calls' = calls + 1
  /\ IF q.needs \cup q.forbids = {} THEN UNCHANGED <<reg, buf, lost, upsets>>
     ELSE Flushed(c, buf[c], "done") /\ lost' = lost \cup Disturbed(c, Held(c))
  /\ UNCHANGED <<case, copy, want>>

\* A setter that writes whole registers, or toggles them, in one flush.
SetWhole(c, q, value, commit) ==
  /\ Calling(c) /\ Settable(q) /\ Accepts(c, q, value) /\ q.keeps = {} /\ ~q.stepwise
  /\ calls' = calls + 1
  /\ Posted(c, buf[c] \o Commands(q, value, reg) \o (IF q.pulse THEN Cleared(q) ELSE <<>>), commit)
  /\ want' = Asked(q, value)
  /\ lost' = (lost \ Owned(q)) \cup Disturbed(c, ToSet(q.order) \cup Held(c))
  /\ UNCHANGED <<case, copy>>

\* One flush for each of two registers, or for a pulse and its end: an
\* exception in the first leaves out the second.
SetStepwise(c, q, value) ==
  /\ Calling(c) /\ Settable(q) /\ Accepts(c, q, value) /\ q.stepwise
  /\ calls' = calls + 1
  /\ LET first == buf[c] \o SubSeq(Commands(q, value, reg), 1, 1)
         second == Tail(Commands(q, value, reg)) \o (IF q.pulse THEN Cleared(q) ELSE <<>>)
     IN \/ \E how \in Flushes \ {"done"} : Flushed(c, first, how) /\ want' = want
                                            /\ lost' = lost \cup Owned(q) \cup Disturbed(c, AddrsOf(q) \cup Held(c))
        \/ \E how \in Flushes :
             /\ IF how = "done"
                THEN /\ reg' = DoAll(reg, first \o second)
                     /\ buf' = [buf EXCEPT ![c] = <<>>] /\ UNCHANGED upsets
                ELSE /\ reg' = DoAll(reg, first \o (IF how = "sent" THEN second ELSE <<>>))
                     /\ buf' = [buf EXCEPT ![c] = second] /\ upsets' = upsets + 1
             /\ want' = Asked(q, value)
             /\ lost' = (lost \ Owned(q)) \cup Disturbed(c, AddrsOf(q) \cup Held(c))
  /\ UNCHANGED <<case, copy>>

\* A setter that keeps the other bits reads first, in a flush of its own.
ReadFirst(c, q, value) ==
  /\ Calling(c) /\ Settable(q) /\ Accepts(c, q, value) /\ q.keeps # {}
  /\ calls' = calls + 1
  /\ \E how \in Flushes :
       /\ Flushed(c, buf[c], how)
       /\ copy' = IF how # "done" THEN copy ELSE [copy EXCEPT ![c] = Copy(q, value, DoAll(reg, buf[c]))]
  /\ lost' = lost \cup Disturbed(c, Held(c))
  /\ UNCHANGED <<case, want>>

\* Then it writes, and reads the next register if it takes one at a time.
WriteBack(c, commit) ==
  /\ ~Idle(c)
  /\ LET x == copy[c] IN \E cmds \in {Batch(x)} :
       /\ Posted(c, buf[c] \o cmds, commit)
       /\ want' = IF Before(x) THEN want ELSE AskedOf(x.quantity, BitsNow(x), x.value)
       /\ LET here == {x.quantity.get[b] : b \in BitsNow(x) \cap x.quantity.only \cap DOMAIN x.quantity.get}
          IN lost' = (IF Before(x) THEN lost \cup here ELSE lost \ here)
                     \cup Disturbed(c, {cmd.addr : cmd \in ToSet(cmds)})
       /\ copy' = [copy EXCEPT ![c] = IF AtLast(x) THEN None
                    ELSE [Copy(x.quantity, x.value, reg') EXCEPT !.at = x.at + 1]]
  /\ UNCHANGED <<case, calls>>

\* Any other call that commits sends what is waiting.
Flush(c) ==
  /\ Idle(c) /\ buf[c] # <<>>
  /\ \E how \in Flushes : Flushed(c, buf[c], how)
  /\ lost' = lost \cup Disturbed(c, Held(c))
  /\ UNCHANGED <<case, copy, want, calls>>

Next == \E c \in case.consoles :
  \/ \E q \in case.quantities : \E value \in Samples(q) :
       \/ Refuse(c, q, value)
       \/ \E commit \in case.commits : SetWhole(c, q, value, commit)
       \/ SetStepwise(c, q, value)
       \/ ReadFirst(c, q, value)
  \/ \E commit \in case.commits : WriteBack(c, commit)
  \/ Flush(c)

Spec == Init /\ [][Next]_vars

-----------------------------------------------------------------------------
\* The registers once everything that waits is sent.
Settled == FoldSet(LAMBDA c, regs : DoAll(regs, buf[c]), reg, Consoles)

\* A getter returns what the setter of that quantity was given last: no
\* setter of another quantity, immediate or buffered, refused or interrupted
\* by a flush that raises, changes it.  The exception is named: two consoles
\* that changed one register at the same time.
SetIsRead == \A q \in case.quantities : \A b \in DOMAIN q.get :
  q.get[b] \in lost \/ (Bit(q.get[b], Settled) <=> Bit(q.get[b], want))
=============================================================================
