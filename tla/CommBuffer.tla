----------------------------- MODULE CommBuffer -----------------------------
(***************************************************************************)
(* Communication, the base class of every transport to a readout unit:     *)
(* commands are registered in a buffer and sent by flush, their answers    *)
(* collected by read_results; single_write, single_read and raw_sequence   *)
(* borrow that same buffer for a moment.                                   *)
(*                                                                         *)
(* The object is used by one thread.  What runs beside it is the device,   *)
(* which executes the commands in order and answers the reads, some time   *)
(* later (external).  A transport may raise an exception: when the lock is *)
(* taken, when it sends (and then the first commands, or all of them, may  *)
(* have gone out: PyUsbComm raises after the sending) or when it reads.    *)
(***************************************************************************)
EXTENDS Integers, Sequences

CONSTANTS
  MaxRetries,    \* max_retries of _read_all_bytes (10)
  MaxCmds,       \* bound: commands of a behaviour
  MaxBacklog,    \* bound: commands and answers under way after a sending that raises
  MaxRaw,        \* bound: calls of raw_sequence
  Fails,         \* the transport may raise
  Late,          \* answers may come after the last retry
  Orderly        \* callers collect results when they have sent all their reads
                 \* and before they call single_read

ASSUME CommBufferAssumption ==
  /\ MaxRetries \in Nat \ {0} /\ MaxCmds \in Nat /\ MaxRaw \in Nat
  /\ MaxBacklog \in Nat
  /\ Fails \in BOOLEAN /\ Late \in BOOLEAN /\ Orderly \in BOOLEAN

VARIABLES
  buffer,     \* _buffer: commands registered, not sent
  readBytes,  \* _read_bytes, in words
  pending,    \* device: commands it has to execute
  dp1,        \* device: answers not fetched
  call,       \* the reading call in progress
  \* history
  ncmds,      \* commands so far, the number of the latest
  sent,       \* commands of the sendings that returned
  registered, \* the numbers of those of register_write and register_read
  unread,     \* those of reads sent by flush whose results nobody collected
  result,     \* how the last reading call ended
  failed,     \* some call has raised
  raws        \* calls of raw_sequence that sent something

vars == <<buffer, readBytes, pending, dp1, call, ncmds, sent, registered,
          unread, result, failed, raws>>

\* A command is its number, what it does and who asked for it.
Cmd == [id : 1..MaxCmds, read : BOOLEAN, by : {"batch", "single", "raw"}]
NewCmd(n, rd, by) == [id |-> n, read |-> rd, by |-> by]
IdsOf(cmds) == {cmds[i].id : i \in DOMAIN cmds}
ReadsOf(cmds) == {cmds[i].id : i \in {k \in DOMAIN cmds : cmds[k].read}}
BatchOf(cmds) == {cmds[i].id : i \in {k \in DOMAIN cmds : cmds[k].by = "batch"}}

\* The reading call: what it put aside, the reads it wants and has.
Reading == [kind : {"none", "single_read", "read_results", "raw_sequence"},
            tmp : Seq(Cmd), tmpBytes : Nat, want : SUBSET (1..MaxCmds),
            ret : Seq(Cmd), retries : 0..MaxRetries]
Idle == [kind |-> "none", tmp |-> <<>>, tmpBytes |-> 0, want |-> {},
         ret |-> <<>>, retries |-> 0]

TypeOK ==
  /\ buffer \in Seq(Cmd) /\ readBytes \in Nat
  /\ pending \in Seq(Cmd) /\ dp1 \in Seq(Cmd)
  /\ call \in Reading
  /\ ncmds \in 0..MaxCmds /\ sent \in Seq(Cmd)
  /\ registered \subseteq 1..MaxCmds /\ unread \subseteq 1..MaxCmds
  /\ result \in [want : SUBSET (1..MaxCmds), ret : Seq(Cmd), trusted : BOOLEAN]
  /\ failed \in BOOLEAN /\ raws \in 0..MaxRaw

Init ==
  /\ buffer = <<>> /\ readBytes = 0
  /\ pending = <<>> /\ dp1 = <<>>
  /\ call = Idle
  /\ ncmds = 0 /\ sent = <<>> /\ registered = {} /\ unread = {}
  /\ result = [want |-> {}, ret |-> <<>>, trusted |-> FALSE]
  /\ failed = FALSE /\ raws = 0

Returned == call.kind = "none"

-----------------------------------------------------------------------------
\* The device (external) executes its oldest command; a read is answered.
DeviceExecutes ==
  /\ pending # <<>>
  /\ dp1' = IF Head(pending).read THEN Append(dp1, Head(pending)) ELSE dp1
  /\ pending' = Tail(pending)
  /\ UNCHANGED <<buffer, readBytes, call, ncmds, sent, registered, unread, result, failed, raws>>

\* _do_write_dp0: the transport hands the words to the device.
DoWriteDp0(cmds) ==
  /\ sent' = sent \o cmds
  /\ pending' = pending \o cmds

\* A _do_write_dp0 that raises: some commands may have gone out.
MayHaveSent(cmds) ==
  \E n \in 0..Len(cmds) :
    /\ n > 0 => Len(pending) + Len(dp1) + n <= MaxBacklog
    /\ pending' = pending \o SubSeq(cmds, 1, n)

\* _read_all_bytes begins.
BeginReading(kind, tmp, tmpBytes, want) ==
  call' = [kind |-> kind, tmp |-> tmp, tmpBytes |-> tmpBytes, want |-> want,
           ret |-> <<>>, retries |-> 0]

-----------------------------------------------------------------------------
\* register_write and register_read
Register(rd) ==
  /\ Returned /\ ncmds < MaxCmds
  /\ ncmds' = ncmds + 1
  /\ LET c == NewCmd(ncmds + 1, rd, "batch")
     IN buffer' = Append(buffer, c) /\ registered' = registered \cup {c.id}
  /\ readBytes' = IF rd THEN readBytes + 1 ELSE readBytes
  /\ UNCHANGED <<pending, dp1, call, sent, unread, result, failed, raws>>

\* Mutant: the buffer is not emptied.
FlushKeepsBuffer ==
  /\ Returned /\ buffer # <<>>
  /\ DoWriteDp0(buffer)
  /\ unread' = unread \cup ReadsOf(buffer)
  /\ UNCHANGED buffer
  /\ UNCHANGED <<readBytes, dp1, call, ncmds, registered, result, failed, raws>>

\* flush
Flush ==
  /\ Returned /\ buffer # <<>>
  /\ DoWriteDp0(buffer)
  /\ unread' = unread \cup ReadsOf(buffer)
  /\ buffer' = <<>>
  /\ UNCHANGED <<readBytes, dp1, call, ncmds, registered, result, failed, raws>>

\* The lock or the sending raises, here or in flush_and_read_results: the
\* commands stay in the buffer, those that went out included.
FlushRaises ==
  /\ Fails /\ Returned
  /\ MayHaveSent(buffer)
  /\ failed' = TRUE
  /\ UNCHANGED <<buffer, readBytes, dp1, call, ncmds, sent, registered, unread, result, raws>>

\* read_results, once the lock is taken
ReadResults ==
  /\ Returned /\ readBytes > 0
  /\ Orderly => ReadsOf(buffer) = {}
  /\ BeginReading("read_results", buffer, 0, unread)
  /\ unread' = {}
  /\ UNCHANGED <<buffer, readBytes, pending, dp1, ncmds, sent, registered, result, failed, raws>>

\* flush_and_read_results: the same two under one lock
FlushAndReadResults ==
  /\ Returned /\ buffer # <<>>
  /\ DoWriteDp0(buffer)
  /\ BeginReading("read_results", <<>>, 0, unread \cup ReadsOf(buffer))
  /\ buffer' = <<>> /\ unread' = {}
  /\ UNCHANGED <<readBytes, dp1, ncmds, registered, result, failed, raws>>

\* single_write puts the buffer aside, sends its own command and puts it back.
SingleWrite ==
  /\ Returned /\ ncmds < MaxCmds
  /\ ncmds' = ncmds + 1
  /\ DoWriteDp0(<<NewCmd(ncmds + 1, FALSE, "single")>>)
  /\ UNCHANGED <<buffer, readBytes, dp1, call, registered, unread, result, failed, raws>>

\* An exception leaves the buffer that was put aside behind: empty when the
\* lock raised, with single_write's own command when the sending did.
SingleWriteRaises ==
  /\ Fails /\ Returned /\ ncmds < MaxCmds
  /\ ncmds' = ncmds + 1
  /\ buffer' \in {<<>>, <<NewCmd(ncmds + 1, FALSE, "single")>>}
  /\ MayHaveSent(buffer')
  /\ failed' = TRUE
  /\ UNCHANGED <<readBytes, dp1, call, sent, registered, unread, result, raws>>

\* single_read puts the buffer and the count of reads aside.
SingleRead ==
  /\ Returned /\ ncmds < MaxCmds
  /\ Orderly => unread = {}
  /\ ncmds' = ncmds + 1
  /\ LET c == NewCmd(ncmds + 1, TRUE, "single")
     IN DoWriteDp0(<<c>>) /\ BeginReading("single_read", buffer, readBytes, {c.id})
  /\ buffer' = <<>> /\ readBytes' = 1
  /\ UNCHANGED <<dp1, registered, unread, result, failed, raws>>

\* Its sending raises: what was put aside is gone, its own command stays.
SingleReadRaises ==
  /\ Fails /\ Returned /\ ncmds < MaxCmds
  /\ ncmds' = ncmds + 1
  /\ buffer' = <<NewCmd(ncmds + 1, TRUE, "single")>> /\ readBytes' = 1
  /\ MayHaveSent(buffer')
  /\ failed' = TRUE
  /\ UNCHANGED <<dp1, call, sent, registered, unread, result, raws>>

\* raw_sequence means to put the buffer aside but assigns self.buffer: its
\* commands are appended to the registered ones, all of them are sent, and the
\* same list is put back into _buffer.
RawSequence ==
  /\ Returned /\ ncmds < MaxCmds /\ raws < MaxRaw
  /\ ncmds' = ncmds + 1
  /\ \E rd \in BOOLEAN :
       LET all == Append(buffer, NewCmd(ncmds + 1, rd, "raw"))
       IN /\ DoWriteDp0(all)
          /\ readBytes' = IF rd THEN readBytes + 1 ELSE readBytes
          /\ BeginReading("raw_sequence", all, 0, unread \cup ReadsOf(all))
          /\ buffer' = <<>>
  /\ unread' = {}
  /\ raws' = raws + 1
  /\ UNCHANGED <<dp1, registered, result, failed>>

\* Its sending raises: its command stays among the registered ones.
RawSequenceRaises ==
  /\ Fails /\ Returned /\ ncmds < MaxCmds /\ raws < MaxRaw
  /\ ncmds' = ncmds + 1
  /\ \E rd \in BOOLEAN :
       /\ buffer' = Append(buffer, NewCmd(ncmds + 1, rd, "raw"))
       /\ readBytes' = IF rd THEN readBytes + 1 ELSE readBytes
  /\ MayHaveSent(buffer')
  /\ raws' = raws + 1
  /\ failed' = TRUE
  /\ UNCHANGED <<dp1, call, sent, registered, unread, result>>

-----------------------------------------------------------------------------
\* Mutant: the retries are not counted against the limit.
RetryForever ==
  /\ ~Returned
  /\ Len(call.ret) < readBytes
  /\ Late \/ call.retries + 1 < MaxRetries \/ ReadsOf(pending) = {}
  /\ LET room == readBytes - Len(call.ret)
         n == IF Len(dp1) < room THEN Len(dp1) ELSE room
     IN /\ call' = [call EXCEPT !.ret = @ \o SubSeq(dp1, 1, n), !.retries = @ + 1]
        /\ dp1' = SubSeq(dp1, n + 1, Len(dp1))
  /\ UNCHANGED <<buffer, readBytes, pending, ncmds, sent, registered, unread, result, failed, raws>>

\* _read_all_bytes: a retry fetches what is there.  Unless Late, the device is
\* done before the last one.
Retry ==
  /\ ~Returned
  /\ Len(call.ret) < readBytes /\ call.retries < MaxRetries
  /\ Late \/ call.retries + 1 < MaxRetries \/ ReadsOf(pending) = {}
  /\ LET room == readBytes - Len(call.ret)
         n == IF Len(dp1) < room THEN Len(dp1) ELSE room
     IN /\ call' = [call EXCEPT !.ret = @ \o SubSeq(dp1, 1, n), !.retries = @ + 1]
        /\ dp1' = SubSeq(dp1, n + 1, Len(dp1))
  /\ UNCHANGED <<buffer, readBytes, pending, ncmds, sent, registered, unread, result, failed, raws>>

\* What the returned results are worth: nothing is claimed after an exception
\* or, but for its own results, after raw_sequence.
Trusted == ~failed /\ (raws = 0 \/ (raws = 1 /\ call.kind = "raw_sequence"))

\* Mutant: one attempt has to be enough.
FinishReadingAfterOne ==
  /\ ~Returned
  /\ Len(call.ret) >= readBytes \/ call.retries > 0
  /\ result' = [want |-> call.want, ret |-> call.ret, trusted |-> Trusted]
  /\ buffer' = IF call.kind = "read_results" THEN buffer ELSE call.tmp
  /\ readBytes' = call.tmpBytes
  /\ call' = Idle
  /\ UNCHANGED <<pending, dp1, ncmds, sent, registered, unread, failed, raws>>

\* The caller gets its results; single_read and raw_sequence put back what
\* they put aside.
FinishReading ==
  /\ ~Returned
  /\ Len(call.ret) >= readBytes \/ call.retries >= MaxRetries
  /\ result' = [want |-> call.want, ret |-> call.ret, trusted |-> Trusted]
  /\ buffer' = IF call.kind = "read_results" THEN buffer ELSE call.tmp
  /\ readBytes' = call.tmpBytes
  /\ call' = Idle
  /\ UNCHANGED <<pending, dp1, ncmds, sent, registered, unread, failed, raws>>

\* The transport raises while it reads: nothing is put back.
ReadRaises ==
  /\ Fails /\ ~Returned
  /\ call' = Idle
  /\ failed' = TRUE
  /\ UNCHANGED <<buffer, readBytes, pending, dp1, ncmds, sent, registered, unread, result, raws>>

Next ==
  \/ DeviceExecutes
  \/ \E rd \in BOOLEAN : Register(rd)
  \/ Flush \/ FlushRaises \/ ReadResults \/ FlushAndReadResults
  \/ SingleWrite \/ SingleWriteRaises \/ SingleRead \/ SingleReadRaises
  \/ RawSequence \/ RawSequenceRaises
  \/ Retry \/ FinishReading \/ ReadRaises

Spec == Init /\ [][Next]_vars

-----------------------------------------------------------------------------
\* The commands the object still has to send: while single_read or
\* raw_sequence reads, those are the ones it put aside.
Held == IF call.kind \in {"single_read", "raw_sequence"} THEN call.tmp ELSE buffer

\* What goes out in the end: the commands sent, then those held.
Outgoing == sent \o Held

\* Communication.flush and every call beside it: as long as no call has raised
\* every registered command was sent or is held; even after exceptions none is
\* in two sendings that returned, or overtakes another.  A sending that raised
\* may have brought commands to the device that the next flush sends again.
SentOnce ==
  raws = 0 =>
    /\ ~failed => registered = BatchOf(Outgoing)
    /\ \A i, j \in DOMAIN Outgoing : i < j =>
         /\ Outgoing[i].id # Outgoing[j].id
         /\ Outgoing[i].by = "batch" /\ Outgoing[j].by = "batch" => Outgoing[i].id < Outgoing[j].id

\* _read_all_bytes: a call returns the answers of its own reads, in order, and
\* no other call's.
ResultsMatch ==
  result.trusted =>
    /\ IdsOf(result.ret) = result.want
    /\ \A i, j \in DOMAIN result.ret : i < j => result.ret[i].id < result.ret[j].id
=============================================================================
