------------------------------ MODULE Prefetch ------------------------------
(***************************************************************************)
(* PrefetchCommunication: a program is recorded once; before it is run     *)
(* again its whole command sequence is sent in one packet, and the program *)
(* is then served from the answers.  Commands and answers are matched by   *)
(* address; a command that does not match ends prefetch mode, and the      *)
(* flush it belongs to is sent as usual.                                   *)
(*                                                                         *)
(* A program is any sequence of exchanges, each the flush of some commands *)
(* and the reading of their answers.  The transport below carries commands *)
(* out in order and keeps the answers until they are fetched.              *)
(***************************************************************************)
EXTENDS Integers, SequencesExt, FiniteSetsExt

CONSTANTS
  Addr,        \* Wishbone addresses in use
  Data,        \* values written
  Reset,       \* content of a register before that
  Unknown,     \* no promise
  MaxRetries,  \* max_retries of _read_all_bytes (10)
  Late,        \* a read of the transport may come before the answers
  MaxFlush,    \* bound: commands of a flush
  MaxCmds,     \* bound: commands of a behaviour
  MaxRounds    \* bound: calls of prefetch

PrefetchAssumption ==
  /\ Reset \notin Data /\ Unknown \notin Data \cup {Reset}
  /\ MaxRetries \in Nat \ {0} /\ Late \in BOOLEAN
  /\ MaxFlush \in Nat \ {0} /\ MaxCmds \in Nat /\ MaxRounds \in Nat

VARIABLES
  recording, sequence,
  pre,       \* prefetch_mode, prefetched_commands, _results and _read_buffer
  recorded,  \* the program's copy of the sequence
  exch,      \* the exchange in progress: answers wanted, words read, retries
  prefetching, \* inside prefetch, between its write and its read
  wb, dp1,   \* device: registers, answers not fetched
  \* history
  ref,       \* what the program wrote last to each register
  sure,      \* registers that hold this, as far as the program can know
  sound,     \* registers whose next answer shows it
  pos,       \* commands replayed of the sequence, -1 after a deviation
  ncmds, rounds
object  == <<recording, sequence, pre, recorded>>
device  == <<wb, dp1>>
history == <<ref, sure, sound, pos, ncmds, rounds>>
vars == <<object, exch, prefetching, device, history>>

Cmd == [addr : Addr, write : {TRUE}, data : Data] \cup [addr : Addr, write : {FALSE}, data : {Reset}]
Word == [addr : Addr, data : Data \cup {Reset}]
IsRead(c) == ~c.write
ReadsOf(cmds) == SelectSeq(cmds, IsRead)
NoExchange == [busy |-> FALSE, want |-> <<>>, ret |-> <<>>, retries |-> 0]
Nothing == [a \in Addr |-> <<>>]
Empty == [mode |-> FALSE, cmds |-> Nothing, res |-> Nothing, buf |-> <<>>]

Init ==
  /\ recording = TRUE /\ sequence = <<>> /\ pre = Empty
  /\ recorded = <<>> /\ exch = NoExchange /\ prefetching = FALSE
  /\ wb = [a \in Addr |-> Reset] /\ dp1 = <<>>
  /\ ref = wb /\ sure = Addr /\ sound = Addr /\ pos = -1 /\ ncmds = 0 /\ rounds = 0
Idle == ~exch.busy /\ ~prefetching

-----------------------------------------------------------------------------
\* The transport and the device (external): commands are carried out in order.
Answered(d, c) == IF c.write THEN [d EXCEPT !.wb[c.addr] = c.data]
                  ELSE [d EXCEPT !.dp1 = Append(@, [addr |-> c.addr, data |-> d.wb[c.addr]])]
CommWrites(cmds) == LET d == FoldLeft(Answered, [wb |-> wb, dp1 |-> dp1], cmds)
                    IN  wb' = d.wb /\ dp1' = d.dp1
\* How many of n words a read of the transport may return.
Fetched(n) == IF Late THEN {k \in 0..n : k <= Len(dp1)} ELSE {Min({n, Len(dp1)})}

-----------------------------------------------------------------------------
\* start_recording, stop_recording, load_sequence, stop_prefetch_mode
StartRecording == /\ Idle /\ recording' = TRUE /\ sequence' = <<>>
                  /\ UNCHANGED <<pre, recorded, exch, prefetching, device, ref, sure, sound, ncmds, rounds>>
                  /\ pos' = -1
StopRecording  == /\ Idle /\ recording /\ recording' = FALSE /\ recorded' = sequence
                  /\ UNCHANGED <<sequence, pre, exch, prefetching, device, history>>
LoadSequence   == /\ Idle /\ sequence' = recorded /\ recording' = FALSE
                  /\ pos' = IF sequence = recorded THEN pos ELSE -1
                  /\ UNCHANGED <<pre, recorded, exch, prefetching, device, ref, sure, sound, ncmds, rounds>>
StopPrefetchMode == /\ Idle /\ pre.mode /\ pre' = Empty /\ pos' = -1 /\ sound' = sure
                    /\ UNCHANGED <<recording, sequence, recorded, exch, prefetching, device,
                                   ref, sure, ncmds, rounds>>

\* prefetch: the commands are sorted by address and sent, ...
ByAddress(s, a) == LET Here(x) == x.addr = a IN SelectSeq(s, Here)
\* Mutant: what an earlier round left is not emptied.
RegisterMore == [pre EXCEPT !.cmds = [a \in Addr |->
  @[a] \o [i \in DOMAIN ByAddress(sequence, a) |-> ByAddress(sequence, a)[i].write]]]
Register == [Empty EXCEPT !.mode = pre.mode, !.cmds = [a \in Addr |->
  [i \in DOMAIN ByAddress(sequence, a) |-> ByAddress(sequence, a)[i].write]]]

Prefetch ==
  /\ Idle /\ rounds < MaxRounds /\ rounds' = rounds + 1
  /\ pre' = Register
  /\ CommWrites(sequence)
  /\ prefetching' = TRUE
  /\ pos' = 0 /\ sound' = sure
  /\ sure' = sure \ {sequence[i].addr : i \in {j \in DOMAIN sequence : sequence[j].write}}
  /\ UNCHANGED <<recording, sequence, recorded, exch, ref, ncmds>>

\* ... and the answers, as far as one read brings them, sorted the same way.
PrefetchAnswers ==
  /\ prefetching /\ prefetching' = FALSE
  /\ \E k \in Fetched(Len(ReadsOf(sequence))) :
       /\ pre' = [pre EXCEPT !.mode = TRUE,
                             !.res = [a \in Addr |-> ByAddress(SubSeq(dp1, 1, k), a)]]
       /\ dp1' = SubSeq(dp1, k + 1, Len(dp1))
  /\ UNCHANGED <<recording, sequence, recorded, exch, wb, history>>

\* _prefetch_write_dp0 with one command.  _prefetch_handle_error is Empty.
\* Mutant: the answers are handed out in the order they came, not by address.
MatchAny(p, c) ==
  LET q == p.cmds[c.addr]
      popped == [p EXCEPT !.cmds[c.addr] = Tail(q)]
      some == {a \in Addr : p.res[a] # <<>>}
  IN IF q = <<>> \/ Head(q) # c.write \/ (~c.write /\ some = {}) THEN Empty
     ELSE IF c.write THEN popped
     ELSE            LET a == CHOOSE x \in some : TRUE
                     IN [popped EXCEPT !.buf = Append(@, Head(p.res[a])), !.res[a] = Tail(@)]
Match(p, c) ==
  LET q == p.cmds[c.addr]
      popped == [p EXCEPT !.cmds[c.addr] = Tail(q)]
  IN IF q = <<>> \/ Head(q) # c.write \/ (~c.write /\ p.res[c.addr] = <<>>) THEN Empty
     ELSE IF c.write THEN popped
     ELSE [popped EXCEPT !.buf = Append(@, Head(p.res[c.addr])), !.res[c.addr] = Tail(@)]

\* History of an exchange: h is ref, sure, sound, the answers wanted and the
\* position; mode and follow say how the flush ends.
WrittenLater(a, p) == \E i \in DOMAIN sequence : i > p /\ sequence[i].write /\ sequence[i].addr = a
Expect(mode, follow, h, c) ==
  IF c.write
  THEN [h EXCEPT !.ref[c.addr] = c.data, !.pos = @ + 1,
                 !.sure = IF ~mode \/ (follow /\ ~WrittenLater(c.addr, h.pos + 1))
                          THEN @ \cup {c.addr} ELSE @ \ {c.addr},
                 !.sound = IF ~mode \/ follow THEN @ \cup {c.addr} ELSE @ \ {c.addr}]
  ELSE [h EXCEPT !.pos = @ + 1, !.want = Append(@,
          [addr |-> c.addr, data |-> IF c.addr \in h.sound THEN h.ref[c.addr] ELSE Unknown])]

\* Mutant: what ended prefetch mode is not sent.
SendNormal(cmds) == ~pre.mode
Send(cmds) == ~pre'.mode

\* _do_write_dp0
DoWriteDp0(cmds) ==
  /\ Idle /\ ncmds + Len(cmds) <= MaxCmds /\ ncmds' = ncmds + Len(cmds)
  /\ pre' = IF pre.mode THEN FoldLeft(Match, pre, cmds) ELSE pre
  /\ IF Send(cmds)
     THEN CommWrites(cmds) /\ sequence' = IF recording THEN sequence \o cmds ELSE sequence
     ELSE UNCHANGED <<device, sequence>>
  /\ LET follow == /\ pre'.mode /\ pos >= 0 /\ pos + Len(cmds) <= Len(sequence)
                    /\ cmds = SubSeq(sequence, pos + 1, pos + Len(cmds))
         h0 == [ref |-> ref, sure |-> sure, want |-> <<>>, pos |-> pos,
                sound |-> IF follow THEN sound ELSE sure]
         h == FoldLeft(LAMBDA x, c : Expect(pre'.mode, follow, x, c), h0, cmds)
     IN /\ ref' = h.ref /\ sure' = h.sure /\ sound' = h.sound
        /\ pos' = IF follow THEN h.pos ELSE -1
        /\ exch' = [NoExchange EXCEPT !.busy = TRUE, !.want = h.want]
  /\ UNCHANGED <<recording, recorded, prefetching, rounds>>

\* _do_read_dp1 in the loop of _read_all_bytes
DoReadDp1 ==
  LET missing == Len(exch.want) - Len(exch.ret)
      Got(words) == exch' = [exch EXCEPT !.ret = @ \o words, !.retries = @ + 1]
  IN /\ exch.busy /\ missing > 0 /\ exch.retries < MaxRetries
     /\ \/ /\ pre.mode /\ UNCHANGED dp1
           /\ IF Len(pre.buf) = missing
              THEN Got(pre.buf) /\ pre' = [pre EXCEPT !.buf = <<>>]
              ELSE Got(<<>>) /\ pre' = Empty
        \/ /\ ~pre.mode
           /\ \E k \in Fetched(missing) :
                Got(SubSeq(dp1, 1, k)) /\ dp1' = SubSeq(dp1, k + 1, Len(dp1))
           /\ UNCHANGED pre
  /\ UNCHANGED <<recording, sequence, recorded, prefetching, wb, history>>

ExchangeEnds ==
  /\ exch.busy /\ (Len(exch.ret) >= Len(exch.want) \/ exch.retries = MaxRetries)
  /\ exch' = [exch EXCEPT !.busy = FALSE]
  /\ UNCHANGED <<object, prefetching, device, history>>

Flushes == UNION {[1..n -> Cmd] : n \in 1..MaxFlush}
Next ==
  \/ StartRecording \/ StopRecording \/ LoadSequence \/ StopPrefetchMode
  \/ Prefetch \/ PrefetchAnswers
  \/ \E cmds \in Flushes : DoWriteDp0(cmds)
  \/ DoReadDp1 \/ ExchangeEnds

Spec == Init /\ [][Next]_vars

-----------------------------------------------------------------------------
\* Type correctness; what is prefetched of an address is never more than the
\* sequence has of it.
TypeOK ==
  /\ recording \in BOOLEAN /\ prefetching \in BOOLEAN
  /\ sequence \in Seq(Cmd) /\ recorded \in Seq(Cmd)
  /\ pre.mode \in BOOLEAN /\ pre.buf \in Seq(Word)
  /\ \A a \in Addr : Len(pre.res[a]) <= Len(pre.cmds[a]) /\ Len(pre.cmds[a]) <= MaxCmds
  /\ wb \in [Addr -> Data \cup {Reset}] /\ dp1 \in Seq(Word)
  /\ exch.retries \in 0..MaxRetries /\ pos \in -1..MaxCmds

\* _read_all_bytes through PrefetchCommunication: an exchange returns one word
\* for each of its reads, in order and of the right address, in prefetch mode,
\* out of it, and in the exchange that leaves it.  A program that repeats the
\* recorded one reads what it would have read without prefetching, and so does
\* any program a register that it cannot have been overtaken at.
ResultsMatch ==
  ~exch.busy =>
    /\ Len(exch.ret) = Len(exch.want)
    /\ \A i \in DOMAIN exch.want : /\ exch.ret[i].addr = exch.want[i].addr
                                   /\ exch.want[i].data \in {Unknown, exch.ret[i].data}

\* _do_write_dp0, "write normally to wishbone": a write of the program is in
\* its register, unless writes of the sequence that the program has still to
\* make went ahead of it, or it did not match the sequence in its data alone.
WritesArrive == ~prefetching => \A a \in sure : wb[a] = ref[a]
=============================================================================
