----------------------------- MODULE CanHlpComm -----------------------------
(***************************************************************************)
(* CanHlpComm, the transport over the CAN bus.  flush puts the requests    *)
(* into a queue and makes sure that a thread is alive which takes them out *)
(* one by one, runs the CAN transaction and puts the response of a read    *)
(* into a second queue; _do_read_dp1 polls that queue.                     *)
(*                                                                         *)
(* The main thread is the one that uses the object.  A worker thread ends  *)
(* when it finds the queue empty, and stays alive for a moment after that. *)
(* readHlp and writeHlp are one step here, which succeeds or raises; they  *)
(* are the subject of CanHlp.                                              *)
(***************************************************************************)
EXTENDS Integers, Sequences, FiniteSets

CONSTANTS
  MaxReqs,    \* bound: requests of a behaviour
  MaxBatch,   \* bound: requests of one flush
  MaxThreads, \* bound: worker threads started
  MaxClear    \* bound: calls of clear

ASSUME CanHlpCommAssumption ==
  /\ MaxReqs \in Nat /\ MaxBatch \in Nat \ {0}
  /\ MaxThreads \in Nat \ {0} /\ MaxClear \in Nat

Threads == 1..MaxThreads

VARIABLES
  dp0_wb_trx_request_queue,
  dp1_wb_trx_response_queue,
  flush_dp0_thread,  \* the thread started last, 0 for None
  tpc,               \* per thread: "none", "get", "trx", "put", "ending", "dead"
  msg,               \* per thread: the request or response in hand
  mpc,               \* main thread: "idle", "put", "flush", "read"
  todo,              \* main thread: requests of this flush still to put
  remaining,         \* main thread: responses _do_read_dp1 still waits for
  wb,                \* readout unit: the write it carried out last
  \* history
  nreqs,             \* requests so far, the number of the latest
  owed,              \* reads flushed whose responses nobody collected
  collected,         \* responses collected, in order
  reads,             \* the numbers of the reads flushed
  writes,            \* and of the writes
  failed,            \* a transaction raised
  cleared,           \* calls of clear
  missed             \* flush_dp0 left requests to a thread that had seen the queue empty

queues == <<dp0_wb_trx_request_queue, dp1_wb_trx_response_queue>>
threadVars == <<flush_dp0_thread, tpc, msg>>
mainVars == <<mpc, todo, remaining>>
asked == <<nreqs, reads, writes>>
vars == <<queues, threadVars, mainVars, wb, asked, owed, collected, failed, cleared, missed>>

Request == [id : 1..MaxReqs, write_request : BOOLEAN]
\* A response carries the register it read, here the write that set it.
Response == [id : 1..MaxReqs, data : 0..MaxReqs, rderr : BOOLEAN]
Nothing == [id |-> 0]

TypeOK ==
  /\ dp0_wb_trx_request_queue \in Seq(Request)
  /\ dp1_wb_trx_response_queue \in Seq(Response)
  /\ flush_dp0_thread \in Threads \cup {0}
  /\ tpc \in [Threads -> {"none", "get", "trx", "put", "ending", "dead"}]
  /\ msg \in [Threads -> Request \cup Response \cup {Nothing}]
  /\ mpc \in {"idle", "put", "flush", "read"}
  /\ todo \in Seq(Request) /\ remaining \in 0..MaxReqs
  /\ wb \in 0..MaxReqs /\ nreqs \in 0..MaxReqs /\ owed \in 0..MaxReqs
  /\ collected \in Seq(Response) /\ reads \subseteq 1..nreqs /\ writes \subseteq 1..nreqs
  /\ failed \in BOOLEAN /\ cleared \in 0..MaxClear /\ missed \in BOOLEAN

Init ==
  /\ dp0_wb_trx_request_queue = <<>> /\ dp1_wb_trx_response_queue = <<>>
  /\ flush_dp0_thread = 0
  /\ tpc = [t \in Threads |-> "none"] /\ msg = [t \in Threads |-> Nothing]
  /\ mpc = "idle" /\ todo = <<>> /\ remaining = 0
  /\ wb = 0
  /\ nreqs = 0 /\ owed = 0 /\ collected = <<>> /\ reads = {} /\ writes = {}
  /\ failed = FALSE /\ cleared = 0 /\ missed = FALSE

-----------------------------------------------------------------------------
\* The main thread.

\* flush: the registered commands become requests.
Batches == UNION {[1..n -> BOOLEAN] : n \in 1..MaxBatch}
Numbered(kinds) == [i \in DOMAIN kinds |-> [id |-> nreqs + i, write_request |-> kinds[i]]]
Reads(kinds) == {i \in DOMAIN kinds : ~kinds[i]}

DoWriteDp0(kinds) ==
  /\ mpc = "idle" /\ nreqs + Len(kinds) <= MaxReqs
  /\ mpc' = "put" /\ todo' = Numbered(kinds)
  /\ nreqs' = nreqs + Len(kinds)
  /\ reads' = reads \cup {nreqs + i : i \in Reads(kinds)}
  /\ owed' = owed + Cardinality(Reads(kinds))
  /\ writes' = writes \cup {nreqs + i : i \in DOMAIN kinds \ Reads(kinds)}
  /\ UNCHANGED <<queues, threadVars, remaining, wb, collected, failed, cleared, missed>>

PutRequest ==
  /\ mpc = "put"
  /\ dp0_wb_trx_request_queue' = Append(dp0_wb_trx_request_queue, Head(todo))
  /\ todo' = Tail(todo)
  /\ mpc' = IF todo' = <<>> THEN "flush" ELSE "put"
  /\ UNCHANGED <<dp1_wb_trx_response_queue, threadVars, remaining, wb, asked, owed,
                 collected, failed, cleared, missed>>

\* Mutant: every flush starts a thread.
IsAliveNever(t) == FALSE

\* flush_dp0: start a thread unless the last one is alive.
IsAlive(t) == t # 0 /\ tpc[t] \notin {"none", "dead"}

FlushDp0 ==
  /\ mpc = "flush" /\ mpc' = "idle"
  /\ \/ /\ IsAlive(flush_dp0_thread)
        /\ missed' = (missed \/ (tpc[flush_dp0_thread] = "ending"
                                   /\ dp0_wb_trx_request_queue # <<>>))
        /\ UNCHANGED threadVars
     \/ /\ ~IsAlive(flush_dp0_thread) /\ flush_dp0_thread < MaxThreads
        /\ flush_dp0_thread' = flush_dp0_thread + 1
        /\ tpc' = [tpc EXCEPT ![flush_dp0_thread'] = "get"]
        /\ UNCHANGED <<msg, missed>>
  /\ UNCHANGED <<queues, todo, remaining, wb, asked, owed, collected, failed, cleared>>

\* read_results asks for every read that was flushed.
DoReadDp1 ==
  /\ mpc = "idle" /\ owed > 0
  /\ mpc' = "read" /\ remaining' = owed /\ owed' = 0
  /\ UNCHANGED <<queues, threadVars, todo, wb, asked, collected, failed, cleared, missed>>

\* One response.  While the queue is empty the loop spins, and its variable
\* seconds does not move: there is no way out of it but a response.
GetResponse ==
  /\ mpc = "read" /\ dp1_wb_trx_response_queue # <<>>
  /\ collected' = Append(collected, Head(dp1_wb_trx_response_queue))
  /\ dp1_wb_trx_response_queue' = Tail(dp1_wb_trx_response_queue)
  /\ remaining' = remaining - 1
  /\ mpc' = IF remaining' = 0 THEN "idle" ELSE "read"
  /\ UNCHANGED <<dp0_wb_trx_request_queue, threadVars, todo, wb, asked, owed, failed,
                 cleared, missed>>

\* clear: the requests are dropped; the responses are not, another attribute
\* is assigned instead.
Clear ==
  /\ mpc = "idle" /\ cleared < MaxClear
  /\ cleared' = cleared + 1
  /\ dp0_wb_trx_request_queue' = <<>>
  /\ UNCHANGED <<dp1_wb_trx_response_queue, threadVars, mainVars, wb, asked, owed,
                 collected, failed, missed>>

-----------------------------------------------------------------------------
\* A worker thread.

\* get_nowait
GetRequest(t) ==
  /\ tpc[t] = "get" /\ dp0_wb_trx_request_queue # <<>>
  /\ msg' = [msg EXCEPT ![t] = Head(dp0_wb_trx_request_queue)]
  /\ dp0_wb_trx_request_queue' = Tail(dp0_wb_trx_request_queue)
  /\ tpc' = [tpc EXCEPT ![t] = "trx"]
  /\ UNCHANGED <<dp1_wb_trx_response_queue, flush_dp0_thread, mainVars, wb, asked, owed,
                 collected, failed, cleared, missed>>

\* queue.Empty
FoundEmpty(t) ==
  /\ tpc[t] = "get" /\ dp0_wb_trx_request_queue = <<>>
  /\ tpc' = [tpc EXCEPT ![t] = "ending"]
  /\ UNCHANGED <<queues, flush_dp0_thread, msg, mainVars, wb, asked, owed, collected,
                 failed, cleared, missed>>

\* The thread is gone.
ThreadEnds(t) ==
  /\ tpc[t] = "ending"
  /\ tpc' = [tpc EXCEPT ![t] = "dead"]
  /\ UNCHANGED <<queues, flush_dp0_thread, msg, mainVars, wb, asked, owed, collected,
                 failed, cleared, missed>>

\* writeHlp; an exception is logged, some are counted.
WriteTrx(t) ==
  /\ tpc[t] = "trx" /\ msg[t].write_request
  /\ \/ wb' = msg[t].id /\ UNCHANGED failed
     \/ failed' = TRUE /\ wb' \in {wb, msg[t].id}
  /\ tpc' = [tpc EXCEPT ![t] = "get"] /\ msg' = [msg EXCEPT ![t] = Nothing]
  /\ UNCHANGED <<queues, flush_dp0_thread, mainVars, asked, owed, collected, cleared, missed>>

\* Mutant: after an exception there is no response.
ReadTrxDrops(t) ==
  /\ tpc[t] = "trx" /\ ~msg[t].write_request
  /\ \/ /\ msg' = [msg EXCEPT ![t] = [id |-> @.id, data |-> wb, rderr |-> FALSE]]
        /\ UNCHANGED failed
     \/ /\ msg' = [msg EXCEPT ![t] = [id |-> @.id, data |-> 0, rderr |-> TRUE]]
        /\ failed' = TRUE
  /\ tpc' = [tpc EXCEPT ![t] = IF failed' # failed THEN "get" ELSE "put"]
  /\ UNCHANGED <<queues, flush_dp0_thread, mainVars, wb, asked, owed, collected, cleared, missed>>

\* readHlp; after an exception the response carries the error flag and 0.
ReadTrx(t) ==
  /\ tpc[t] = "trx" /\ ~msg[t].write_request
  /\ \/ /\ msg' = [msg EXCEPT ![t] = [id |-> @.id, data |-> wb, rderr |-> FALSE]]
        /\ UNCHANGED failed
     \/ /\ msg' = [msg EXCEPT ![t] = [id |-> @.id, data |-> 0, rderr |-> TRUE]]
        /\ failed' = TRUE
  /\ tpc' = [tpc EXCEPT ![t] = "put"]
  /\ UNCHANGED <<queues, flush_dp0_thread, mainVars, wb, asked, owed, collected, cleared, missed>>

\* Mutant: the message is cleared before it is put.
PutResponseEmpty(t) ==
  /\ tpc[t] = "put"
  /\ tpc' = [tpc EXCEPT ![t] = "get"] /\ msg' = [msg EXCEPT ![t] = Nothing]
  /\ dp1_wb_trx_response_queue' = Append(dp1_wb_trx_response_queue, msg'[t])
  /\ UNCHANGED <<dp0_wb_trx_request_queue, flush_dp0_thread, mainVars, wb, asked, owed,
                 collected, failed, cleared, missed>>

PutResponse(t) ==
  /\ tpc[t] = "put"
  /\ dp1_wb_trx_response_queue' = Append(dp1_wb_trx_response_queue, msg[t])
  /\ tpc' = [tpc EXCEPT ![t] = "get"] /\ msg' = [msg EXCEPT ![t] = Nothing]
  /\ UNCHANGED <<dp0_wb_trx_request_queue, flush_dp0_thread, mainVars, wb, asked, owed,
                 collected, failed, cleared, missed>>

MainGoesOn == PutRequest \/ FlushDp0 \/ GetResponse
Worker(t) == \/ GetRequest(t) \/ FoundEmpty(t) \/ ThreadEnds(t)
             \/ WriteTrx(t) \/ ReadTrx(t) \/ PutResponse(t)

Next ==
  \/ \E kinds \in Batches : DoWriteDp0(kinds)
  \/ MainGoesOn \/ DoReadDp1 \/ Clear
  \/ \E t \in Threads : Worker(t)

\* The operating system runs every thread that has something to do; callers
\* need not make another call.
Spec == Init /\ [][Next]_vars /\ WF_vars(MainGoesOn) /\ \A t \in Threads : WF_vars(Worker(t))

-----------------------------------------------------------------------------
\* _do_read_dp1: each response collected answers a read, and those collected
\* before it answer exactly the reads that were asked for before that one.
ResponsesInOrder ==
  cleared = 0 =>
    \A i \in DOMAIN collected :
      /\ collected[i].id \in reads
      /\ \A r \in reads :
           r < collected[i].id <=> \E j \in 1..(i - 1) : collected[j].id = r

\* The queue keeps program order between writes, which the main thread does
\* not wait for, and reads: unless a transaction raised, a read returns what
\* the last write before it left.
LastWriteBefore(id) == {w \in writes : w < id /\ \A v \in writes : v < id => v <= w}
ReadsSeeEarlierWrites ==
  ~failed /\ cleared = 0 =>
    \A i \in DOMAIN collected :
      LET last == LastWriteBefore(collected[i].id)
      IN IF last = {} THEN collected[i].data = 0 ELSE collected[i].data \in last

\* _do_read_dp1 returns, under the same condition and unless requests were cleared.
ReadReturns == mpc = "read" ~> mpc # "read" \/ missed \/ cleared > 0

=============================================================================
