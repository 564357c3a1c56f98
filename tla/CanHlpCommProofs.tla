-------------------------- MODULE CanHlpCommProofs --------------------------
(***************************************************************************)
(* CanHlpComm is correct for any number of requests, any size of a flush   *)
(* and any number of worker threads: at most one worker is at work, and as *)
(* long as nobody calls clear the responses collected are those of the     *)
(* reads, in order, and unless a transaction raised each shows what the    *)
(* last write before it left.                                              *)
(***************************************************************************)
EXTENDS CanHlpComm, TLAPS, SequenceTheorems, FiniteSetTheorems

-----------------------------------------------------------------------------
\* The type invariant also knows where the main thread is when it has
\* requests to put or responses to wait for, what a worker holds, and that no
\* more responses are owed than requests were made.
TypeInv ==
  /\ TypeOK
  /\ mpc = "put" <=> todo # <<>>
  /\ mpc = "read" <=> remaining > 0
  /\ owed + remaining <= nreqs
  /\ \A t \in Threads : /\ tpc[t] = "trx" => msg[t] \in Request
                        /\ tpc[t] = "put" => msg[t] \in Response

\* A worker that has not ended is the one started last.
OneWorker == \A t \in Threads : tpc[t] \notin {"none", "dead"} => t = flush_dp0_thread

\* The requests that left the queue, and those among them that are served.
Taken == nreqs - Len(todo) - Len(dp0_wb_trx_request_queue)
Served == IF \E t \in Threads : tpc[t] \in {"trx", "put"} THEN Taken - 1 ELSE Taken

\* Requests are numbered in the order they are served, and each is a write
\* or a read.
IsNext(r, n) == r.id = n /\ (r.write_request <=> n \in writes)
Numbering ==
  /\ reads \cap writes = {} /\ reads \cup writes = 1..nreqs
  /\ \A k \in DOMAIN todo : IsNext(todo[k], nreqs - Len(todo) + k)
  /\ \A k \in DOMAIN dp0_wb_trx_request_queue :
       IsNext(dp0_wb_trx_request_queue[k], Taken + k)
  /\ \A t \in Threads : /\ tpc[t] = "trx" => IsNext(msg[t], Taken)
                        /\ tpc[t] = "put" => msg[t].id = Taken /\ Taken \in reads

\* The responses made so far, those collected first.
Answers == Len(collected) + Len(dp1_wb_trx_response_queue)
Answer(i) == IF i <= Len(collected) THEN collected[i]
                                    ELSE dp1_wb_trx_response_queue[i - Len(collected)]

\* They answer the reads served so far, each once, in order.
Answered ==
  /\ \A i \in 1..Answers : Answer(i).id \in reads /\ Answer(i).id <= Served
  /\ \A i, j \in 1..Answers : i < j => Answer(i).id < Answer(j).id
  /\ \A r \in reads : r <= Served => \E i \in 1..Answers : Answer(i).id = r

\* What a read numbered n must return: the last write before it.
Fresh(data, n) == /\ data = 0 \/ (data \in writes /\ data < n)
                  /\ \A w \in writes : w < n => w <= data
AllFresh ==
  /\ Fresh(wb, Served + 1)
  /\ \A t \in Threads : tpc[t] = "put" => Fresh(msg[t].data, msg[t].id)
  /\ \A i \in 1..Answers : Fresh(Answer(i).data, Answer(i).id)

\* Clear takes requests out of the numbering.
OrderInv == cleared = 0 => Numbering /\ Answered
FreshInv == cleared = 0 /\ ~failed => AllFresh
-----------------------------------------------------------------------------
\* What the queues' operators do, element by element.

LEMMA TailFacts ==
  ASSUME NEW S, NEW s \in Seq(S), s # <<>>
  PROVE  /\ Len(s) \in Nat \ {0} /\ DOMAIN s = 1..Len(s)
         /\ Head(s) = s[1] /\ Head(s) \in S
         /\ Tail(s) \in Seq(S) /\ Len(Tail(s)) = Len(s) - 1
         /\ DOMAIN Tail(s) = 1..(Len(s) - 1)
         /\ \A k \in 1..(Len(s) - 1) : Tail(s)[k] = s[k + 1]
BY EmptySeq, HeadTailProperties, LenProperties, ElementOfSeq

LEMMA AppendFacts ==
  ASSUME NEW S, NEW s \in Seq(S), NEW e \in S
  PROVE  /\ Len(s) \in Nat /\ DOMAIN s = 1..Len(s)
         /\ Append(s, e) \in Seq(S) /\ Append(s, e) # <<>> /\ Len(Append(s, e)) = Len(s) + 1
         /\ DOMAIN Append(s, e) = 1..(Len(s) + 1)
         /\ \A k \in 1..Len(s) : Append(s, e)[k] = s[k]
         /\ Append(s, e)[Len(s) + 1] = e
BY AppendProperties, LenProperties

\* The kinds of a flush are a nonempty sequence, and its reads can be counted.
LEMMA BatchFacts ==
  ASSUME NEW kinds \in Batches
  PROVE  /\ kinds \in Seq(BOOLEAN) /\ Len(kinds) \in 1..MaxBatch
         /\ DOMAIN kinds = 1..Len(kinds)
         /\ Cardinality(Reads(kinds)) \in 0..Len(kinds)
<1>1. PICK n \in 1..MaxBatch : kinds \in [1..n -> BOOLEAN]
  BY DEF Batches
<1>2. kinds \in Seq(BOOLEAN) /\ Len(kinds) = n /\ DOMAIN kinds = 1..n
  BY <1>1, CanHlpCommAssumption
<1>3. IsFiniteSet(1..n) /\ Cardinality(1..n) = n
  BY FS_Interval, CanHlpCommAssumption
<1>4. Cardinality(Reads(kinds)) \in 0..n
  BY <1>2, <1>3, FS_Subset, FS_CardinalityType, Reads(kinds) \subseteq 1..n DEF Reads
<1> QED
  BY <1>1, <1>2, <1>4

-----------------------------------------------------------------------------
\* Types.

LEMMA TypeInvInit == Init => TypeInv
<1> SUFFICES ASSUME Init PROVE TypeInv
  OBVIOUS
<1> USE CanHlpCommAssumption DEF Init
<1>1. /\ dp0_wb_trx_request_queue \in Seq(Request) /\ todo \in Seq(Request)
      /\ dp1_wb_trx_response_queue \in Seq(Response) /\ collected \in Seq(Response)
  BY EmptySeq
<1>2. /\ tpc \in [Threads -> {"none", "get", "trx", "put", "ending", "dead"}]
      /\ msg \in [Threads -> Request \cup Response \cup {Nothing}]
      /\ \A t \in Threads : tpc[t] = "none"
  OBVIOUS
<1>3. flush_dp0_thread \in Threads \cup {0} /\ failed \in BOOLEAN /\ missed \in BOOLEAN
  OBVIOUS
<1>4. /\ remaining \in 0..MaxReqs /\ wb \in 0..MaxReqs /\ owed \in 0..MaxReqs
      /\ nreqs \in 0..MaxReqs /\ cleared \in 0..MaxClear
      /\ owed + remaining <= nreqs /\ ~(remaining > 0)
  OBVIOUS
<1>5. TypeOK
  BY <1>1, <1>2, <1>3, <1>4 DEF TypeOK
<1> QED
  BY <1>2, <1>4, <1>5 DEF TypeInv

LEMMA TypeInvStep == TypeInv /\ [Next]_vars => TypeInv'
<1> SUFFICES ASSUME TypeInv, [Next]_vars
             PROVE  TypeInv'
  OBVIOUS
<1> USE CanHlpCommAssumption
<1>1. CASE UNCHANGED vars
  BY <1>1 DEF TypeInv, TypeOK, vars, queues, threadVars, mainVars, asked
<1>2. ASSUME NEW kinds \in Batches, DoWriteDp0(kinds)
      PROVE  TypeInv'
  <2> DEFINE n == Len(kinds)
  <2>1. /\ n \in 1..MaxBatch /\ DOMAIN kinds = 1..n /\ kinds \in [1..n -> BOOLEAN]
        /\ Cardinality(Reads(kinds)) \in 0..n /\ Reads(kinds) \subseteq 1..n
    BY BatchFacts DEF Reads
  <2>2. nreqs + n <= MaxReqs /\ nreqs' = nreqs + n /\ nreqs \in Nat
    BY <1>2 DEF DoWriteDp0, TypeInv, TypeOK
  <2>3. todo' \in [1..n -> Request]
    BY <1>2, <2>1, <2>2 DEF DoWriteDp0, Numbered, Request
  <2>4. todo' \in Seq(Request) /\ todo' # <<>>
    BY <2>3, <2>1
  <2>5. owed' \in 0..MaxReqs /\ owed' + remaining' <= nreqs'
    BY <1>2, <2>1, <2>2 DEF DoWriteDp0, TypeInv, TypeOK
  <2>6. reads' \subseteq 1..nreqs' /\ writes' \subseteq 1..nreqs'
    <3>1. \A i \in DOMAIN kinds : nreqs + i \in 1..(nreqs + n)
      BY <2>1, <2>2
    <3>2. reads \subseteq 1..nreqs' /\ writes \subseteq 1..nreqs'
      BY <2>1, <2>2 DEF TypeInv, TypeOK
    <3> QED
      BY <1>2, <2>2, <3>1, <3>2 DEF DoWriteDp0, Reads
  <2> QED
    BY <1>2, <2>2, <2>4, <2>5, <2>6
    DEF DoWriteDp0, TypeInv, TypeOK, queues, threadVars
<1>3. CASE PutRequest
  <2>1. todo # <<>> /\ todo \in Seq(Request)
    BY <1>3 DEF PutRequest, TypeInv, TypeOK
  <2>2. /\ todo' \in Seq(Request)
        /\ dp0_wb_trx_request_queue' \in Seq(Request)
    BY <1>3, <2>1, TailFacts, AppendFacts DEF PutRequest, TypeInv, TypeOK
  <2> QED
    BY <1>3, <2>2 DEF PutRequest, TypeInv, TypeOK, threadVars, asked
<1>4. CASE FlushDp0
  <2>1. CASE UNCHANGED threadVars
    BY <1>4, <2>1 DEF FlushDp0, TypeInv, TypeOK, queues, threadVars, asked
  <2>2. CASE ~UNCHANGED threadVars
    <3>1. /\ flush_dp0_thread' \in Threads /\ missed' = missed /\ msg' = msg
          /\ tpc' = [tpc EXCEPT ![flush_dp0_thread'] = "get"]
      BY <1>4, <2>2 DEF FlushDp0, TypeInv, TypeOK, Threads
    <3> QED
      BY <1>4, <3>1 DEF FlushDp0, TypeInv, TypeOK, queues, asked
  <2> QED
    BY <2>1, <2>2
<1>5. CASE GetResponse
  <2>1. /\ dp1_wb_trx_response_queue' \in Seq(Response)
        /\ collected' \in Seq(Response)
    BY <1>5, TailFacts, AppendFacts DEF GetResponse, TypeInv, TypeOK
  <2> QED
    BY <1>5, <2>1 DEF GetResponse, TypeInv, TypeOK, threadVars, asked
<1>6. CASE DoReadDp1
  BY <1>6 DEF DoReadDp1, TypeInv, TypeOK, queues, threadVars, asked
<1>7. CASE Clear
  BY <1>7, EmptySeq DEF Clear, TypeInv, TypeOK, threadVars, mainVars, asked
<1>8. ASSUME NEW t \in Threads, Worker(t)
      PROVE  TypeInv'
  <2>1. CASE GetRequest(t)
    <3>1. /\ dp0_wb_trx_request_queue' \in Seq(Request)
          /\ Head(dp0_wb_trx_request_queue) \in Request
      BY <2>1, TailFacts DEF GetRequest, TypeInv, TypeOK
    <3> QED
      BY <2>1, <3>1 DEF GetRequest, TypeInv, TypeOK, mainVars, asked
  <2>2. CASE FoundEmpty(t)
    BY <2>2 DEF FoundEmpty, TypeInv, TypeOK, queues, mainVars, asked
  <2>3. CASE ThreadEnds(t)
    BY <2>3 DEF ThreadEnds, TypeInv, TypeOK, queues, mainVars, asked
  <2>4. CASE WriteTrx(t)
    <3>1. msg[t] \in Request /\ msg[t].id \in 0..MaxReqs
      BY <2>4 DEF WriteTrx, TypeInv, Request
    <3>2. wb' \in 0..MaxReqs /\ failed' \in BOOLEAN
      BY <2>4, <3>1 DEF WriteTrx, TypeInv, TypeOK
    <3> QED
      BY <2>4, <3>2 DEF WriteTrx, TypeInv, TypeOK, queues, mainVars, asked
  <2>5. CASE ReadTrx(t)
    <3>0. msg[t].id \in 1..MaxReqs /\ wb \in 0..MaxReqs /\ 0 \in 0..MaxReqs
      BY <2>5 DEF ReadTrx, TypeInv, TypeOK, Request
    <3>1. PICK r \in Response : msg' = [msg EXCEPT ![t] = r]
      BY <2>5, <3>0 DEF ReadTrx, Response
    <3>2. failed' \in BOOLEAN
      BY <2>5 DEF ReadTrx, TypeInv, TypeOK
    <3> QED
      BY <2>5, <3>1, <3>2 DEF ReadTrx, TypeInv, TypeOK, queues, mainVars, asked
  <2>6. CASE PutResponse(t)
    <3>1. dp1_wb_trx_response_queue' \in Seq(Response)
      BY <2>6, AppendFacts DEF PutResponse, TypeInv, TypeOK
    <3> QED
      BY <2>6, <3>1 DEF PutResponse, TypeInv, TypeOK, mainVars, asked
  <2> QED
    BY <1>8, <2>1, <2>2, <2>3, <2>4, <2>5, <2>6 DEF Worker
<1> QED
  BY <1>1, <1>2, <1>3, <1>4, <1>5, <1>6, <1>7, <1>8 DEF Next, MainGoesOn

LEMMA TypeInvariant == Spec => []TypeInv
BY TypeInvInit, TypeInvStep, PTL DEF Spec

\* Every variable keeps its type, for any number of requests and threads.
THEOREM TypeCorrect == Spec => []TypeOK
<1>1. TypeInv => TypeOK
  BY DEF TypeInv
<1> QED
  BY <1>1, TypeInvariant, PTL

-----------------------------------------------------------------------------
\* One worker.

LEMMA OneWorkerStep == TypeInv /\ OneWorker /\ [Next]_vars => OneWorker'
<1> SUFFICES ASSUME TypeInv, OneWorker, [Next]_vars
             PROVE  OneWorker'
  OBVIOUS
<1>1. ASSUME UNCHANGED threadVars
      PROVE  OneWorker'
  BY <1>1 DEF OneWorker, threadVars
<1>2. CASE FlushDp0
  <2>1. CASE UNCHANGED threadVars
    BY <1>1, <2>1
  <2>2. CASE ~UNCHANGED threadVars
    <3>1. /\ ~IsAlive(flush_dp0_thread) /\ flush_dp0_thread' \in Threads
          /\ tpc' = [tpc EXCEPT ![flush_dp0_thread'] = "get"]
      BY <1>2, <2>2, CanHlpCommAssumption DEF FlushDp0, TypeInv, TypeOK, Threads
    <3>2. \A t \in Threads : tpc[t] \in {"none", "dead"}
      BY <3>1 DEF OneWorker, IsAlive, Threads
    <3> QED
      BY <3>1, <3>2 DEF OneWorker, TypeInv, TypeOK
  <2> QED
    BY <2>1, <2>2
<1>3. ASSUME NEW t \in Threads, Worker(t)
      PROVE  OneWorker'
  <2>1. /\ tpc[t] \notin {"none", "dead"} /\ flush_dp0_thread' = flush_dp0_thread
        /\ \E l \in {"trx", "put", "get", "ending", "dead"} : tpc' = [tpc EXCEPT ![t] = l]
    BY <1>3 DEF Worker, GetRequest, FoundEmpty, ThreadEnds, WriteTrx, ReadTrx, PutResponse
  <2> QED
    BY <2>1 DEF OneWorker, TypeInv, TypeOK
<1>4. CASE UNCHANGED vars
  BY <1>1, <1>4 DEF vars, threadVars
<1> QED
  BY <1>1, <1>2, <1>3, <1>4
  DEF Next, MainGoesOn, DoWriteDp0, PutRequest, DoReadDp1, GetResponse, Clear

\* At most one worker thread is at work, whatever the main thread does: a
\* second one is started only when the first can no longer touch a queue.
THEOREM WorkersExclusive == Spec => []OneWorker
<1>1. Init => OneWorker
  BY DEF Init, OneWorker
<1> QED
  BY <1>1, TypeInvariant, OneWorkerStep, PTL DEF Spec

\* The worker that moves is the only one at work.
LEMMA Alone ==
  ASSUME OneWorker, NEW t \in Threads, tpc[t] \notin {"none", "dead"}
  PROVE  \A u \in Threads \ {t} : tpc[u] \in {"none", "dead"}
BY DEF OneWorker

-----------------------------------------------------------------------------
\* Order.

LEMMA CountTypes ==
  ASSUME TypeInv
  PROVE  /\ nreqs \in Nat /\ Taken \in Int /\ Served \in Int /\ Served <= Taken /\ Taken <= nreqs
         /\ Len(todo) \in Nat /\ Len(dp0_wb_trx_request_queue) \in Nat
         /\ Len(collected) \in Nat /\ Len(dp1_wb_trx_response_queue) \in Nat
         /\ Answers \in Nat
         /\ \A i \in 1..Answers : Answer(i) \in Response
         /\ DOMAIN todo = 1..Len(todo)
         /\ DOMAIN dp0_wb_trx_request_queue = 1..Len(dp0_wb_trx_request_queue)
<1>1. /\ nreqs \in Nat /\ Len(todo) \in Nat /\ Len(dp0_wb_trx_request_queue) \in Nat
      /\ Len(collected) \in Nat /\ Len(dp1_wb_trx_response_queue) \in Nat
      /\ DOMAIN todo = 1..Len(todo)
      /\ DOMAIN dp0_wb_trx_request_queue = 1..Len(dp0_wb_trx_request_queue)
  BY LenProperties DEF TypeInv, TypeOK
<1>2. /\ Taken \in Int /\ Served \in Int /\ Served <= Taken /\ Taken <= nreqs /\ Answers \in Nat
  BY <1>1 DEF Taken, Served, Answers
<1>3. ASSUME NEW i \in 1..Answers
      PROVE  Answer(i) \in Response
  <2>1. i <= Len(collected) => collected[i] \in Response
    BY <1>1, <1>3, ElementOfSeq DEF TypeInv, TypeOK
  <2>2. ~(i <= Len(collected)) => dp1_wb_trx_response_queue[i - Len(collected)] \in Response
    BY <1>1, <1>3, ElementOfSeq DEF TypeInv, TypeOK, Answers
  <2> QED
    BY <2>1, <2>2 DEF Answer
<1> QED
  BY <1>1, <1>2, <1>3

\* Collecting a response changes no answer; putting one adds it at the end.
SameAnswers == Answers' = Answers /\ \A i \in 1..Answers : Answer(i)' = Answer(i)

LEMMA Collecting ==
  ASSUME TypeInv, GetResponse
  PROVE  SameAnswers
<1>1. /\ dp1_wb_trx_response_queue \in Seq(Response) /\ dp1_wb_trx_response_queue # <<>>
      /\ collected \in Seq(Response)
      /\ collected' = Append(collected, Head(dp1_wb_trx_response_queue))
      /\ dp1_wb_trx_response_queue' = Tail(dp1_wb_trx_response_queue)
  BY DEF TypeInv, TypeOK, GetResponse
<1>2. /\ Len(collected) \in Nat /\ Len(collected') = Len(collected) + 1
      /\ \A k \in 1..Len(collected) : collected'[k] = collected[k]
      /\ collected'[Len(collected) + 1] = dp1_wb_trx_response_queue[1]
  BY <1>1, TailFacts, AppendFacts
<1>3. /\ Len(dp1_wb_trx_response_queue) \in Nat \ {0}
      /\ Len(dp1_wb_trx_response_queue') = Len(dp1_wb_trx_response_queue) - 1
      /\ \A k \in 1..(Len(dp1_wb_trx_response_queue) - 1) :
           dp1_wb_trx_response_queue'[k] = dp1_wb_trx_response_queue[k + 1]
  BY <1>1, TailFacts
<1>4. Answers' = Answers
  BY <1>2, <1>3 DEF Answers
<1>5. ASSUME NEW i \in 1..Answers
      PROVE  Answer(i)' = Answer(i)
  <2>1. CASE i <= Len(collected)
    BY <1>2, <1>5, <2>1 DEF Answer, Answers
  <2>2. CASE i = Len(collected) + 1
    BY <1>2, <2>2 DEF Answer
  <2>3. CASE i > Len(collected) + 1
    <3>1. /\ i - Len(collected') \in 1..(Len(dp1_wb_trx_response_queue) - 1)
          /\ i - Len(collected') + 1 = i - Len(collected)
      BY <1>2, <1>3, <1>5, <2>3 DEF Answers
    <3> QED
      BY <1>2, <1>3, <2>3, <3>1 DEF Answer
  <2> QED
    BY <1>2, <1>3, <2>1, <2>2, <2>3 DEF Answers
<1> QED
  BY <1>4, <1>5 DEF SameAnswers

LEMMA Putting ==
  ASSUME TypeInv, NEW t \in Threads, PutResponse(t)
  PROVE  /\ Answers' = Answers + 1
         /\ \A i \in 1..Answers : Answer(i)' = Answer(i)
         /\ Answer(Answers)' = msg[t]  \* the last one then
<1>1. /\ dp1_wb_trx_response_queue \in Seq(Response) /\ msg[t] \in Response
      /\ dp1_wb_trx_response_queue' = Append(dp1_wb_trx_response_queue, msg[t])
      /\ collected' = collected /\ Len(collected) \in Nat
  BY LenProperties DEF TypeInv, TypeOK, PutResponse
<1>2. /\ Len(dp1_wb_trx_response_queue) \in Nat
      /\ Len(dp1_wb_trx_response_queue') = Len(dp1_wb_trx_response_queue) + 1
      /\ \A k \in 1..Len(dp1_wb_trx_response_queue) :
           dp1_wb_trx_response_queue'[k] = dp1_wb_trx_response_queue[k]
      /\ dp1_wb_trx_response_queue'[Len(dp1_wb_trx_response_queue) + 1] = msg[t]
  BY <1>1, AppendFacts
<1>3. Answers' = Answers + 1
  BY <1>1, <1>2 DEF Answers
<1>4. Answer(Answers)' = msg[t]
  BY <1>1, <1>2, <1>3 DEF Answer, Answers
<1>5. ASSUME NEW i \in 1..Answers
      PROVE  Answer(i)' = Answer(i)
  BY <1>1, <1>2, <1>5 DEF Answer, Answers
<1> QED
  BY <1>3, <1>4, <1>5

\* What is answered stays answered, as long as no read is served silently.
LEMMA AnsweredKept ==
  ASSUME Answered, SameAnswers, reads \subseteq reads', Served <= Served',
         Served \in Int, Served' \in Int,
         Answers \in Nat, \A i \in 1..Answers : Answer(i) \in Response,
         \A r \in reads' : r <= Served' => r \in reads /\ r <= Served
  PROVE  Answered'
<1> USE DEF SameAnswers, Answered
<1>1. \A i \in 1..Answers : Answer(i).id \in Int
  BY DEF Response
<1>2. \A i \in 1..Answers' : Answer(i)'.id \in reads' /\ Answer(i)'.id <= Served'
  BY <1>1
<1>3. \A i, j \in 1..Answers' : i < j => Answer(i)'.id < Answer(j)'.id
  OBVIOUS
<1>4. \A r \in reads' : r <= Served' => \E i \in 1..Answers' : Answer(i)'.id = r
  OBVIOUS
<1> QED
  BY <1>2, <1>3, <1>4

\* Nothing but the queue of requests and its worker changes the count.
LEMMA NumberingStep ==
  ASSUME TypeInv, TypeInv', OneWorker, Numbering, Next, cleared' = 0
  PROVE  Numbering'
<1>0. /\ nreqs \in Nat /\ Taken \in Int /\ Taken <= nreqs
      /\ Len(todo) \in Nat /\ Len(dp0_wb_trx_request_queue) \in Nat
      /\ DOMAIN todo = 1..Len(todo)
      /\ DOMAIN dp0_wb_trx_request_queue = 1..Len(dp0_wb_trx_request_queue)
  BY CountTypes
<1> USE <1>0
<1>1. ASSUME NEW kinds \in Batches, DoWriteDp0(kinds)
      PROVE  Numbering'
  <2> DEFINE n == Len(kinds)
  <2>1. n \in 1..MaxBatch /\ DOMAIN kinds = 1..n /\ kinds \in Seq(BOOLEAN)
    BY BatchFacts
  <2>2. /\ todo = <<>> /\ Len(todo) = 0 /\ nreqs' = nreqs + n
        /\ todo' = [i \in 1..n |-> [id |-> nreqs + i, write_request |-> kinds[i]]]
        /\ Len(todo') = n /\ DOMAIN todo' = 1..n /\ UNCHANGED <<queues, tpc, msg>>
    BY <1>1, <2>1, EmptySeq, CanHlpCommAssumption DEF DoWriteDp0, Numbered, TypeInv, threadVars
  <2>3. /\ Taken' = Taken /\ Taken \in Int /\ Taken <= nreqs
        /\ dp0_wb_trx_request_queue' = dp0_wb_trx_request_queue
    BY <2>1, <2>2, CanHlpCommAssumption DEF Taken, queues
  <2>4. /\ reads' = reads \cup {nreqs + i : i \in {j \in 1..n : ~kinds[j]}}
        /\ writes' = writes \cup {nreqs + i : i \in {j \in 1..n : kinds[j]}}
    BY <1>1, <2>1 DEF DoWriteDp0, Reads
  <2>5. /\ nreqs \in Nat /\ reads \cap writes = {} /\ reads \cup writes = 1..nreqs
    BY DEF Numbering
  <2>6. \A i \in 1..n : /\ nreqs + i \in writes' <=> kinds[i]
                        /\ nreqs + i \in reads' <=> ~kinds[i]
    BY <2>1, <2>4, <2>5, CanHlpCommAssumption
  <2>7. \A k \in 1..nreqs : (k \in writes' <=> k \in writes) /\ (k \in reads' <=> k \in reads)
    BY <2>1, <2>4, <2>5, CanHlpCommAssumption
  <2>8. reads' \cap writes' = {} /\ reads' \cup writes' = 1..nreqs'
    <3>1. \A k \in 1..nreqs' : k \in 1..nreqs \/ \E i \in 1..n : k = nreqs + i
      <4>1. \A k \in 1..nreqs' : k \notin 1..nreqs => k - nreqs \in 1..n /\ k = nreqs + (k - nreqs)
        BY <2>1, <2>2, <2>5, CanHlpCommAssumption
      <4> QED
        BY <4>1
    <3>2. reads' \subseteq 1..nreqs' /\ writes' \subseteq 1..nreqs'
      BY DEF TypeInv, TypeOK
    <3> QED
      <4>1. ASSUME NEW k \in 1..nreqs' PROVE k \in reads' <=> k \notin writes'
        <5>1. CASE k \in 1..nreqs
          BY <2>5, <2>7, <5>1
        <5>2. ASSUME NEW i \in 1..n, k = nreqs + i PROVE k \in reads' <=> k \notin writes'
          BY <2>6, <5>2
        <5> QED
          BY <3>1, <5>1, <5>2
      <4> QED
        BY <3>2, <4>1
  <2>9. \A k \in DOMAIN todo' : IsNext(todo[k], nreqs - Len(todo) + k)'
    <3>1. ASSUME NEW k \in 1..n
          PROVE  /\ todo'[k].id = nreqs + k /\ (todo'[k].write_request <=> kinds[k])
                 /\ nreqs' - Len(todo') + k = nreqs + k
      BY <2>1, <2>2, <2>5, CanHlpCommAssumption
    <3> QED
      BY <2>2, <2>6, <3>1 DEF IsNext
  <2>10. \A k \in DOMAIN dp0_wb_trx_request_queue' : IsNext(dp0_wb_trx_request_queue[k], Taken + k)'
    <3>1. ASSUME NEW k \in DOMAIN dp0_wb_trx_request_queue
          PROVE  IsNext(dp0_wb_trx_request_queue[k], Taken + k) /\ Taken + k \in 1..nreqs
      <4>1. IsNext(dp0_wb_trx_request_queue[k], Taken + k)
        BY DEF Numbering
      <4>2. dp0_wb_trx_request_queue[k] \in Request
        BY ElementOfSeq DEF TypeInv, TypeOK
      <4>3. Taken + k <= nreqs /\ Taken + k \in Int
        BY <2>2 DEF Taken
      <4> QED
        BY <4>1, <4>2, <4>3 DEF IsNext, Request
    <3> QED
      BY <2>3, <2>7, <3>1 DEF IsNext
  <2>11. \A t \in Threads : /\ tpc'[t] = "trx" => IsNext(msg[t], Taken)'
                            /\ tpc'[t] = "put" => msg'[t].id = Taken' /\ Taken' \in reads'
    <3>1. ASSUME NEW t \in Threads, tpc[t] = "trx"
          PROVE  IsNext(msg[t], Taken) /\ Taken \in 1..nreqs
      <4>1. IsNext(msg[t], Taken) /\ msg[t] \in Request
        BY <3>1 DEF Numbering, TypeInv
      <4> QED
        BY <4>1, <2>3, <2>5 DEF IsNext, Request
    <3>2. ASSUME NEW t \in Threads, tpc[t] = "put"
          PROVE  msg[t].id = Taken /\ Taken \in reads
      BY <3>2 DEF Numbering
    <3> QED
      BY <2>2, <2>3, <2>4, <2>7, <3>1, <3>2 DEF IsNext
  <2> QED
    BY <2>8, <2>9, <2>10, <2>11 DEF Numbering
<1>2. CASE PutRequest
  <2>1. /\ todo \in Seq(Request) /\ todo # <<>> /\ todo' = Tail(todo)
        /\ dp0_wb_trx_request_queue \in Seq(Request)
        /\ dp0_wb_trx_request_queue' = Append(dp0_wb_trx_request_queue, Head(todo))
        /\ UNCHANGED <<nreqs, reads, writes, tpc, msg>>
    BY <1>2 DEF PutRequest, TypeInv, TypeOK, threadVars, asked
  <2>2. /\ Len(todo) \in Nat \ {0} /\ Len(todo') = Len(todo) - 1 /\ Head(todo) = todo[1]
        /\ DOMAIN todo = 1..Len(todo) /\ DOMAIN todo' = 1..(Len(todo) - 1)
        /\ Head(todo) \in Request
        /\ \A k \in 1..(Len(todo) - 1) : todo'[k] = todo[k + 1]
    BY <2>1, TailFacts
  <2>3. /\ Len(dp0_wb_trx_request_queue') = Len(dp0_wb_trx_request_queue) + 1
        /\ DOMAIN dp0_wb_trx_request_queue' = 1..(Len(dp0_wb_trx_request_queue) + 1)
        /\ \A k \in 1..Len(dp0_wb_trx_request_queue) :
             dp0_wb_trx_request_queue'[k] = dp0_wb_trx_request_queue[k]
        /\ dp0_wb_trx_request_queue'[Len(dp0_wb_trx_request_queue) + 1] = todo[1]
    BY <2>1, <2>2, AppendFacts
  <2>4. Taken' = Taken
    BY <2>1, <2>2, <2>3 DEF Taken
  <2>5. \A k \in DOMAIN todo' : IsNext(todo[k], nreqs - Len(todo) + k)'
    <3>1. \A k \in 1..(Len(todo) - 1) : IsNext(todo[k + 1], nreqs - Len(todo) + (k + 1))
      <4>1. \A k \in 1..(Len(todo) - 1) : k + 1 \in DOMAIN todo
        BY <2>2
      <4> QED
        BY <4>1 DEF Numbering
    <3>2. \A k \in 1..(Len(todo) - 1) : nreqs - Len(todo) + (k + 1) = nreqs' - Len(todo') + k
      BY <2>1, <2>2
    <3> QED
      BY <2>1, <2>2, <3>1, <3>2 DEF IsNext
  <2>6. \A k \in DOMAIN dp0_wb_trx_request_queue' : IsNext(dp0_wb_trx_request_queue[k], Taken + k)'
    <3>1. IsNext(todo[1], nreqs - Len(todo) + 1)
      BY <2>2 DEF Numbering
    <3>2. nreqs - Len(todo) + 1 = Taken' + (Len(dp0_wb_trx_request_queue) + 1)
      BY <2>2, <2>4 DEF Taken
    <3> QED
      BY <2>1, <2>3, <2>4, <3>1, <3>2 DEF IsNext, Numbering
  <2> QED
    BY <2>1, <2>4, <2>5, <2>6 DEF Numbering, IsNext
<1>3. CASE FlushDp0
  <2>1. UNCHANGED <<queues, todo, asked, msg>> /\ Taken' = Taken
    BY <1>3 DEF FlushDp0, Taken, queues, asked, threadVars
  <2>2. \A t \in Threads : tpc'[t] \in {"trx", "put"} => tpc[t] = tpc'[t]
    BY <1>3 DEF FlushDp0, TypeInv, TypeOK, threadVars
  <2> QED
    BY <2>1, <2>2 DEF Numbering, IsNext, queues, asked
<1>4. CASE GetResponse \/ DoReadDp1
  <2>1. UNCHANGED <<dp0_wb_trx_request_queue, todo, nreqs, reads, writes, msg, tpc>> /\ Taken' = Taken
    BY <1>4 DEF GetResponse, DoReadDp1, Taken, queues, asked, threadVars
  <2> QED
    BY <2>1 DEF Numbering, IsNext
<1>5. CASE Clear
  BY <1>5 DEF Clear, TypeInv, TypeOK
<1>6. ASSUME NEW t \in Threads, GetRequest(t)
      PROVE  Numbering'
  <2>1. /\ dp0_wb_trx_request_queue \in Seq(Request) /\ dp0_wb_trx_request_queue # <<>>
        /\ dp0_wb_trx_request_queue' = Tail(dp0_wb_trx_request_queue)
        /\ UNCHANGED <<nreqs, reads, writes, todo>>
        /\ msg' = [msg EXCEPT ![t] = Head(dp0_wb_trx_request_queue)]
        /\ tpc' = [tpc EXCEPT ![t] = "trx"]
    BY <1>6 DEF GetRequest, TypeInv, TypeOK, mainVars, asked
  <2>2. /\ Len(dp0_wb_trx_request_queue) \in Nat \ {0}
        /\ DOMAIN dp0_wb_trx_request_queue = 1..Len(dp0_wb_trx_request_queue)
        /\ DOMAIN dp0_wb_trx_request_queue' = 1..(Len(dp0_wb_trx_request_queue) - 1)
        /\ Len(dp0_wb_trx_request_queue') = Len(dp0_wb_trx_request_queue) - 1
        /\ Head(dp0_wb_trx_request_queue) = dp0_wb_trx_request_queue[1]
        /\ \A k \in 1..(Len(dp0_wb_trx_request_queue) - 1) :
             dp0_wb_trx_request_queue'[k] = dp0_wb_trx_request_queue[k + 1]
    BY <2>1, TailFacts
  <2>3. Taken' = Taken + 1
    BY <2>1, <2>2 DEF Taken
  <2>4. \A k \in DOMAIN dp0_wb_trx_request_queue' : IsNext(dp0_wb_trx_request_queue[k], Taken + k)'
    <3>1. \A k \in 1..(Len(dp0_wb_trx_request_queue) - 1) :
            IsNext(dp0_wb_trx_request_queue[k + 1], Taken + (k + 1))
      <4>1. \A k \in 1..(Len(dp0_wb_trx_request_queue) - 1) : k + 1 \in DOMAIN dp0_wb_trx_request_queue
        BY <2>2
      <4> QED
        BY <4>1 DEF Numbering
    <3>2. \A k \in 1..(Len(dp0_wb_trx_request_queue) - 1) : Taken + (k + 1) = Taken' + k
      BY <2>2, <2>3
    <3> QED
      BY <2>1, <2>2, <3>1, <3>2 DEF IsNext
  <2>5. IsNext(msg[t], Taken)'
    <3>1. IsNext(dp0_wb_trx_request_queue[1], Taken + 1)
      BY <2>2 DEF Numbering
    <3>2. msg'[t] = dp0_wb_trx_request_queue[1]
      BY <2>1, <2>2 DEF TypeInv, TypeOK
    <3> QED
      BY <2>1, <2>3, <3>1, <3>2 DEF IsNext
  <2>6. \A u \in Threads \ {t} : tpc'[u] \in {"none", "dead"}
    BY <1>6, <2>1, Alone DEF GetRequest, TypeInv, TypeOK
  <2>7. \A u \in Threads : /\ tpc'[u] = "trx" => IsNext(msg[u], Taken)'
                           /\ tpc'[u] = "put" => msg'[u].id = Taken' /\ Taken' \in reads'
    BY <2>1, <2>5, <2>6 DEF TypeInv, TypeOK
  <2> QED
    BY <2>1, <2>4, <2>7 DEF Numbering, IsNext
<1>7. ASSUME NEW t \in Threads, FoundEmpty(t) \/ ThreadEnds(t) \/ WriteTrx(t) \/ PutResponse(t)
      PROVE  Numbering'
  <2>1. UNCHANGED <<dp0_wb_trx_request_queue, todo, nreqs, reads, writes>> /\ Taken' = Taken
    BY <1>7 DEF FoundEmpty, ThreadEnds, WriteTrx, PutResponse, Taken, queues, asked, mainVars
  <2>2. \A u \in Threads : tpc'[u] \in {"trx", "put"} => tpc[u] = tpc'[u] /\ msg'[u] = msg[u]
    BY <1>7 DEF FoundEmpty, ThreadEnds, WriteTrx, PutResponse, TypeInv, TypeOK
  <2> QED
    BY <2>1, <2>2 DEF Numbering, IsNext
<1>8. ASSUME NEW t \in Threads, ReadTrx(t)
      PROVE  Numbering'
  <2>1. UNCHANGED <<dp0_wb_trx_request_queue, todo, nreqs, reads, writes>> /\ Taken' = Taken
    BY <1>8 DEF ReadTrx, Taken, queues, asked, mainVars
  <2>2. /\ tpc[t] = "trx" /\ msg'[t].id = msg[t].id
        /\ tpc' = [tpc EXCEPT ![t] = "put"]
    BY <1>8 DEF ReadTrx, TypeInv, TypeOK
  <2>3. msg[t].id = Taken /\ Taken \in 1..nreqs /\ Taken \notin writes
    <3>1. IsNext(msg[t], Taken) /\ msg[t] \in Request /\ ~msg[t].write_request
      BY <1>8, <2>2 DEF Numbering, TypeInv, ReadTrx
    <3> QED
      BY <3>1 DEF IsNext, Request
  <2>4. Taken \in reads
    BY <2>3 DEF Numbering
  <2>5. \A u \in Threads \ {t} : tpc'[u] \in {"none", "dead"}
    BY <2>2, Alone DEF TypeInv, TypeOK
  <2> QED
    BY <2>1, <2>2, <2>3, <2>4, <2>5 DEF Numbering, IsNext, TypeInv, TypeOK
<1> QED
  BY <1>1, <1>2, <1>3, <1>4, <1>5, <1>6, <1>7, <1>8 DEF Next, MainGoesOn, Worker

\* A request in the hands of the worker has been taken but not served.
LEMMA ServedWhile ==
  /\ \A t \in Threads : tpc[t] \in {"trx", "put"} => Served = Taken - 1
  /\ (\A t \in Threads : tpc[t] \notin {"trx", "put"}) => Served = Taken
BY DEF Served

\* The count of served requests moves when a write was tried or a response put.
LEMMA ServedStep ==
  ASSUME TypeInv, TypeInv', OneWorker, OneWorker', Next, cleared' = 0
  PROVE  \/ /\ \E t \in Threads : WriteTrx(t) \/ PutResponse(t)
            /\ Served' = Served + 1 /\ Taken' = Taken /\ Taken = Served'
         \/ /\ ~ \E t \in Threads : WriteTrx(t) \/ PutResponse(t)
            /\ Served' = Served
<1>0. /\ Taken \in Int /\ Served \in Int /\ nreqs \in Nat
      /\ Len(todo) \in Nat /\ Len(dp0_wb_trx_request_queue) \in Nat
  BY CountTypes
<1> USE <1>0
<1>a. ASSUME tpc' = tpc, Taken' = Taken
      PROVE  Served' = Served
  BY <1>a DEF Served
<1>b. ASSUME NEW t \in Threads, WriteTrx(t) \/ PutResponse(t)
      PROVE  tpc[t] \in {"trx", "put"} /\ tpc'[t] = "get"
  BY <1>b DEF WriteTrx, PutResponse, TypeInv, TypeOK
<1>1. ASSUME NEW kinds \in Batches, DoWriteDp0(kinds)
      PROVE  Served' = Served /\ tpc' = tpc
  <2>1. /\ todo = <<>> /\ Len(todo') = Len(kinds) /\ Len(kinds) \in Nat
        /\ nreqs' = nreqs + Len(kinds) /\ UNCHANGED <<queues, tpc>>
    BY <1>1, BatchFacts, CanHlpCommAssumption DEF DoWriteDp0, Numbered, TypeInv, threadVars
  <2>2. Len(todo) = 0
    BY <2>1, EmptySeq
  <2>3. Taken' = Taken
    BY <2>1, <2>2 DEF Taken, queues
  <2> QED
    BY <1>a, <2>1, <2>3
<1>2. CASE PutRequest
  <2>1. /\ Len(todo') = Len(todo) - 1 /\ nreqs' = nreqs /\ tpc' = tpc
        /\ Len(dp0_wb_trx_request_queue') = Len(dp0_wb_trx_request_queue) + 1
    BY <1>2, TailFacts, AppendFacts DEF PutRequest, TypeInv, TypeOK, threadVars, asked
  <2>2. Taken' = Taken
    BY <2>1 DEF Taken
  <2> QED
    BY <1>a, <1>b, <2>1, <2>2
<1>3. CASE FlushDp0
  <2>1. Taken' = Taken
    BY <1>3 DEF FlushDp0, Taken, queues, asked
  <2>2. CASE UNCHANGED threadVars
    BY <1>a, <1>b, <2>1, <2>2 DEF threadVars
  <2>3. CASE ~UNCHANGED threadVars
    <3>1. /\ ~IsAlive(flush_dp0_thread) /\ flush_dp0_thread' \in Threads
          /\ tpc' = [tpc EXCEPT ![flush_dp0_thread'] = "get"]
      BY <1>3, <2>3, CanHlpCommAssumption DEF FlushDp0, TypeInv, TypeOK, Threads
    <3>2. \A t \in Threads : tpc[t] \in {"none", "dead"}
      BY <3>1 DEF OneWorker, IsAlive, Threads
    <3>3. \A t \in Threads : tpc'[t] \notin {"trx", "put"}
      BY <3>1, <3>2 DEF TypeInv, TypeOK
    <3> QED
      BY <1>b, <2>1, <3>2, <3>3 DEF Served
  <2> QED
    BY <2>2, <2>3
<1>4. CASE GetResponse \/ DoReadDp1
  <2>1. tpc' = tpc /\ Taken' = Taken
    BY <1>4 DEF GetResponse, DoReadDp1, Taken, queues, asked, threadVars
  <2> QED
    BY <1>a, <1>b, <2>1
<1>5. CASE Clear
  BY <1>5 DEF Clear, TypeInv, TypeOK
<1>6. ASSUME NEW t \in Threads, Worker(t)
      PROVE  \/ (WriteTrx(t) \/ PutResponse(t)) /\ Served' = Served + 1 /\ Taken' = Taken
                /\ Taken = Served'
             \/ ~(WriteTrx(t) \/ PutResponse(t)) /\ Served' = Served /\ tpc[t] # tpc'[t]
                /\ ~(tpc[t] \in {"trx", "put"} /\ tpc'[t] = "get")
  <2>1. \A u \in Threads \ {t} : /\ tpc[u] \notin {"trx", "put"} /\ tpc'[u] = tpc[u]
    <3>1. tpc[t] \notin {"none", "dead"} /\ \E l : tpc' = [tpc EXCEPT ![t] = l]
      BY <1>6 DEF Worker, GetRequest, FoundEmpty, ThreadEnds, WriteTrx, ReadTrx, PutResponse
    <3> QED
      BY <3>1, Alone DEF TypeInv, TypeOK
  <2>2. CASE GetRequest(t)
    <3>1. /\ Len(dp0_wb_trx_request_queue') = Len(dp0_wb_trx_request_queue) - 1
          /\ UNCHANGED <<nreqs, todo>> /\ tpc[t] = "get" /\ tpc'[t] = "trx"
      BY <2>2, TailFacts DEF GetRequest, TypeInv, TypeOK, mainVars, asked
    <3>2. Taken' = Taken + 1
      BY <3>1 DEF Taken
    <3> QED
      BY <1>b, <2>1, <3>1, <3>2 DEF Served
  <2>3. CASE ~GetRequest(t)
    <3>1. Taken' = Taken
      BY <1>6, <2>3 DEF Worker, FoundEmpty, ThreadEnds, WriteTrx, ReadTrx, PutResponse, Taken,
                        queues, mainVars, asked
    <3>2. CASE WriteTrx(t) \/ PutResponse(t)
      BY <1>b, <2>1, <3>1, <3>2 DEF Served
    <3>3. CASE FoundEmpty(t) \/ ThreadEnds(t) \/ ReadTrx(t)
      <4>1. \/ tpc[t] \in {"get", "ending"} /\ tpc'[t] \in {"ending", "dead"} /\ tpc[t] # tpc'[t]
            \/ tpc[t] = "trx" /\ tpc'[t] = "put"
        BY <3>3 DEF FoundEmpty, ThreadEnds, ReadTrx, TypeInv, TypeOK
      <4> QED
        BY <1>b, <2>1, <3>1, <4>1 DEF Served
    <3> QED
      BY <1>6, <2>3, <3>2, <3>3 DEF Worker
  <2> QED
    BY <2>2, <2>3
<1>7. ASSUME NEW t \in Threads, Worker(t), ~(WriteTrx(t) \/ PutResponse(t)), NEW u \in Threads
      PROVE  ~(WriteTrx(u) \/ PutResponse(u))
  <2>1. CASE u = t
    BY <1>7, <2>1
  <2>2. CASE u # t
    <3>1. tpc[t] \notin {"none", "dead"}
      BY <1>7 DEF Worker, GetRequest, FoundEmpty, ThreadEnds, WriteTrx, ReadTrx, PutResponse
    <3> QED
      BY <1>b, <2>2, <3>1, Alone
  <2> QED
    BY <2>1, <2>2
<1> QED
  BY <1>1, <1>2, <1>3, <1>4, <1>5, <1>6, <1>7, <1>b DEF Next, MainGoesOn

LEMMA AnsweredStep ==
  ASSUME TypeInv, TypeInv', OneWorker, OneWorker', Numbering, Numbering', Answered, Next, cleared' = 0
  PROVE  Answered'
<1>0. /\ nreqs \in Nat /\ Taken \in Int /\ Served \in Int /\ Served <= Taken /\ Taken <= nreqs
      /\ Answers \in Nat /\ \A i \in 1..Answers : Answer(i) \in Response
  BY CountTypes
<1> USE <1>0
<1>1. ASSUME NEW t \in Threads, PutResponse(t)
      PROVE  Answered'
  <2>1. /\ Answers' = Answers + 1 /\ Answer(Answers)' = msg[t]
        /\ \A i \in 1..Answers : Answer(i)' = Answer(i)
    BY <1>1, Putting
  <2>2. Served' = Served + 1 /\ Taken = Served' /\ reads' = reads
    BY <1>1, ServedStep DEF PutResponse, asked
  <2>3. msg[t].id = Taken /\ Taken \in reads
    BY <1>1 DEF PutResponse, Numbering
  <2>4. \A i \in 1..Answers : Answer(i).id \in Int
    BY DEF Response
  <2>5. \A i \in 1..Answers' : Answer(i)'.id \in reads' /\ Answer(i)'.id <= Served'
    BY <2>1, <2>2, <2>3, <2>4 DEF Answered
  <2>6. \A i, j \in 1..Answers' : i < j => Answer(i)'.id < Answer(j)'.id
    <3>1. ASSUME NEW i \in 1..Answers', NEW j \in 1..Answers', i < j
          PROVE  Answer(i)'.id < Answer(j)'.id
      <4>1. i \in 1..Answers /\ Answer(i)' = Answer(i)
        BY <2>1, <3>1
      <4>2. CASE j = Answers + 1
        BY <2>1, <2>2, <2>3, <2>4, <4>1, <4>2 DEF Answered
      <4>3. CASE j # Answers + 1
        BY <2>1, <3>1, <4>1, <4>3 DEF Answered
      <4> QED
        BY <4>2, <4>3
    <3> QED
      BY <3>1
  <2>7. \A r \in reads' : r <= Served' => \E i \in 1..Answers' : Answer(i)'.id = r
    <3>1. ASSUME NEW r \in reads, r <= Taken
          PROVE  \E i \in 1..Answers' : Answer(i)'.id = r
      <4>0. r \in Int
        BY DEF Numbering
      <4>1. CASE r = Taken
        BY <2>1, <2>3, <4>1
      <4>2. CASE r # Taken
        <5>1. r <= Served
          BY <2>2, <3>1, <4>0, <4>2
        <5>2. PICK i \in 1..Answers : Answer(i).id = r
          BY <5>1 DEF Answered
        <5> QED
          BY <2>1, <5>2
      <4> QED
        BY <4>1, <4>2
    <3> QED
      BY <2>2, <3>1
  <2> QED
    BY <2>5, <2>6, <2>7 DEF Answered
<1>2. ASSUME \A t \in Threads : ~PutResponse(t)
      PROVE  Answered'
  <2>1. SameAnswers
    <3>1. CASE GetResponse
      BY <3>1, Collecting
    <3>2. CASE ~GetResponse
      <4>1. UNCHANGED <<dp1_wb_trx_response_queue, collected>>
        BY <1>2, <3>2
        DEF Next, MainGoesOn, DoWriteDp0, PutRequest, FlushDp0, DoReadDp1, Clear, Worker,
            GetRequest, FoundEmpty, ThreadEnds, WriteTrx, ReadTrx, queues
      <4> QED
        BY <4>1 DEF SameAnswers, Answers, Answer
    <3> QED
      BY <3>1, <3>2
  <2>2. reads \subseteq reads' /\ \A r \in reads' : r \in Int /\ (r <= nreqs => r \in reads)
    <3>1. CASE \E kinds \in Batches : DoWriteDp0(kinds)
      <4>1. PICK kinds \in Batches : DoWriteDp0(kinds)
        BY <3>1
      <4>2. reads' = reads \cup {nreqs + i : i \in Reads(kinds)} /\ Reads(kinds) \subseteq 1..Len(kinds)
            /\ Len(kinds) \in Nat
        BY <4>1, BatchFacts, CanHlpCommAssumption DEF DoWriteDp0, Reads
      <4> QED
        BY <4>2 DEF Numbering
    <3>2. CASE ~ \E kinds \in Batches : DoWriteDp0(kinds)
      <4>1. reads' = reads
        BY <3>2
        DEF Next, MainGoesOn, PutRequest, FlushDp0, DoReadDp1, GetResponse, Clear, Worker, PutResponse,
            GetRequest, FoundEmpty, ThreadEnds, WriteTrx, ReadTrx, asked
      <4> QED
        BY <4>1 DEF Numbering
    <3> QED
      BY <3>1, <3>2
  <2>3. CASE \E t \in Threads : WriteTrx(t)
    <3>1. PICK t \in Threads : WriteTrx(t)
      BY <2>3
    <3>2. Served' = Served + 1 /\ Taken = Served'
      BY <2>3, ServedStep
    <3>3. Taken \notin reads
      BY <3>1 DEF WriteTrx, Numbering, IsNext
    <3>4. \A r \in reads' : r <= Served' => r \in reads /\ r <= Served
      BY <2>2, <3>2, <3>3
    <3> QED
      BY <2>1, <2>2, <3>2, <3>4, AnsweredKept
  <2>4. CASE ~ \E t \in Threads : WriteTrx(t)
    <3>1. Served' = Served
      BY <1>2, <2>4, ServedStep
    <3>2. \A r \in reads' : r <= Served' => r \in reads /\ r <= Served
      BY <2>2, <3>1
    <3> QED
      BY <2>1, <2>2, <3>1, <3>2, AnsweredKept
  <2> QED
    BY <2>3, <2>4
<1> QED
  BY <1>1, <1>2

LEMMA OrderInvariant == Spec => []OrderInv
<1>1. Init => OrderInv
  <2> SUFFICES ASSUME Init PROVE Numbering /\ Answered
    BY DEF OrderInv
  <2>1. /\ Len(todo) = 0 /\ Len(dp0_wb_trx_request_queue) = 0 /\ nreqs = 0
        /\ Len(collected) = 0 /\ Len(dp1_wb_trx_response_queue) = 0
        /\ DOMAIN todo = 1..0 /\ DOMAIN dp0_wb_trx_request_queue = 1..0
        /\ \A t \in Threads : tpc[t] = "none"
    BY EmptySeq DEF Init
  <2>2. Taken = 0 /\ Served = 0 /\ Answers = 0
    BY <2>1 DEF Taken, Served, Answers
  <2> QED
    BY <2>1, <2>2 DEF Init, Numbering, Answered
<1>2. TypeInv /\ TypeInv' /\ OneWorker /\ OneWorker' /\ OrderInv /\ [Next]_vars => OrderInv'
  <2> SUFFICES ASSUME TypeInv, TypeInv', OneWorker, OneWorker', OrderInv, [Next]_vars, cleared' = 0
               PROVE  (Numbering /\ Answered)'
    BY DEF OrderInv
  <2>1. CASE UNCHANGED vars
    BY <2>1 DEF vars, queues, threadVars, mainVars, asked, OrderInv, Numbering, Answered,
                IsNext, Taken, Served, Answers, Answer
  <2>2. CASE Next
    <3>1. cleared = 0
      BY <2>2
      DEF Next, MainGoesOn, DoWriteDp0, PutRequest, FlushDp0, DoReadDp1, GetResponse, Clear,
          Worker, GetRequest, FoundEmpty, ThreadEnds, WriteTrx, ReadTrx, PutResponse,
          TypeInv, TypeOK
    <3>2. Numbering'
      BY <2>2, <3>1, NumberingStep DEF OrderInv
    <3> QED
      BY <2>2, <3>1, <3>2, AnsweredStep DEF OrderInv
  <2> QED
    BY <2>1, <2>2
<1> QED
  BY <1>1, <1>2, TypeInvariant, WorkersExclusive, PTL DEF Spec

\* The responses collected are those of the reads, in the order of the reads,
\* for any number of requests and threads, until requests are dropped.
THEOREM OrderKept == Spec => []ResponsesInOrder
<1>1. TypeInv /\ OrderInv => ResponsesInOrder
  <2> SUFFICES ASSUME TypeInv, cleared = 0, Answered, NEW i \in DOMAIN collected
               PROVE  /\ collected[i].id \in reads
                      /\ \A r \in reads :
                           r < collected[i].id <=> \E j \in 1..(i - 1) : collected[j].id = r
    BY DEF OrderInv, ResponsesInOrder
  <2>1. /\ Len(collected) \in Nat /\ DOMAIN collected = 1..Len(collected)
        /\ Answers \in Nat /\ Len(collected) <= Answers /\ Served \in Int
    BY CountTypes, LenProperties DEF Answers, TypeInv, TypeOK
  <2>2. \A j \in 1..Len(collected) : j \in 1..Answers /\ Answer(j) = collected[j]
    BY <2>1 DEF Answer
  <2>3. \A j \in 1..Answers : Answer(j).id \in Int
    BY CountTypes DEF Response
  <2>4. collected[i].id \in reads /\ collected[i].id <= Served
    BY <2>1, <2>2 DEF Answered
  <2>5. ASSUME NEW r \in reads, r < collected[i].id
        PROVE  \E j \in 1..(i - 1) : collected[j].id = r
    <3>1. r \in Int /\ r <= Served
      BY <2>1, <2>2, <2>3, <2>4, <2>5 DEF TypeInv, TypeOK
    <3>2. PICK j \in 1..Answers : Answer(j).id = r
      BY <3>1 DEF Answered
    <3>3. ~(i < j) /\ i # j
      BY <2>1, <2>2, <2>3, <2>5, <3>1, <3>2 DEF Answered
    <3> QED
      BY <2>1, <2>2, <3>2, <3>3
  <2>6. ASSUME NEW j \in 1..(i - 1)
        PROVE  collected[j].id < collected[i].id
    BY <2>1, <2>2 DEF Answered
  <2> QED
    BY <2>4, <2>5, <2>6
<1> QED
  BY <1>1, TypeInvariant, OrderInvariant, PTL

-----------------------------------------------------------------------------
\* What the reads return.

LEMMA FreshKept ==
  ASSUME NEW data, NEW n \in Int, Fresh(data, n), writes \subseteq writes',
         \A w \in writes' : w < n => w \in writes
  PROVE  Fresh(data, n)'
BY DEF Fresh

\* Writes are added above all numbers in use.
LEMMA WritesGrow ==
  ASSUME TypeInv, Next
  PROVE  /\ writes \subseteq writes'
         /\ \A w \in writes' : w \in Int /\ (w <= nreqs => w \in writes)
<1>0. nreqs \in Nat /\ writes \subseteq 1..nreqs
  BY DEF TypeInv, TypeOK
<1>1. ASSUME NEW kinds \in Batches, DoWriteDp0(kinds)
      PROVE  /\ writes \subseteq writes'
             /\ \A w \in writes' : w \in Int /\ (w <= nreqs => w \in writes)
  <2>1. /\ writes' = writes \cup {nreqs + i : i \in DOMAIN kinds \ Reads(kinds)}
        /\ DOMAIN kinds = 1..Len(kinds) /\ Len(kinds) \in Nat
    BY <1>1, BatchFacts, CanHlpCommAssumption DEF DoWriteDp0
  <2>2. \A i \in DOMAIN kinds : nreqs + i \in Int /\ ~(nreqs + i <= nreqs)
    BY <1>0, <2>1
  <2> QED
    BY <1>0, <2>1, <2>2
<1>2. CASE ~ \E kinds \in Batches : DoWriteDp0(kinds)
  <2>1. writes' = writes
    BY <1>2
    DEF Next, MainGoesOn, PutRequest, FlushDp0, DoReadDp1, GetResponse, Clear, Worker, PutResponse,
        GetRequest, FoundEmpty, ThreadEnds, WriteTrx, ReadTrx, asked
  <2> QED
    BY <1>0, <2>1
<1> QED
  BY <1>1, <1>2

LEMMA FreshStep ==
  ASSUME TypeInv, TypeInv', OneWorker, OneWorker', Numbering, Numbering', Answered, AllFresh,
         Next, cleared' = 0, ~failed'
  PROVE  AllFresh'
<1>0. /\ nreqs \in Nat /\ Taken \in Int /\ Served \in Int /\ Served <= Taken /\ Taken <= nreqs
      /\ Answers \in Nat /\ \A i \in 1..Answers : Answer(i) \in Response
      /\ writes \subseteq writes'
      /\ \A w \in writes' : w \in Int /\ (w <= nreqs => w \in writes)
  BY CountTypes, WritesGrow
<1> USE <1>0
<1>1. \A i \in 1..Answers : Fresh(Answer(i).data, Answer(i).id)'
                              \/ Answer(i)' # Answer(i)
  <2> SUFFICES ASSUME NEW i \in 1..Answers, Answer(i)' = Answer(i)
               PROVE  Fresh(Answer(i).data, Answer(i).id)'
    OBVIOUS
  <2>1. Answer(i).id \in Int /\ Answer(i).id <= nreqs /\ Fresh(Answer(i).data, Answer(i).id)
    BY DEF Response, Answered, AllFresh
  <2>2. \A w \in writes' : w < Answer(i).id => w \in writes
    BY <2>1
  <2> QED
    BY <2>1, <2>2 DEF Fresh
<1>2. ASSUME NEW t \in Threads, PutResponse(t)
      PROVE  AllFresh'
  <2>1. /\ Answers' = Answers + 1 /\ Answer(Answers)' = msg[t]
        /\ \A i \in 1..Answers : Answer(i)' = Answer(i)
    BY <1>2, Putting
  <2>2. Served' = Served + 1 /\ Taken = Served' /\ writes' = writes /\ wb' = wb
    BY <1>2, ServedStep DEF PutResponse, asked
  <2>3. Taken \in reads /\ Taken \notin writes /\ Fresh(msg[t].data, msg[t].id)
    BY <1>2 DEF PutResponse, Numbering, AllFresh
  <2>4. Fresh(wb, Served + 1)'
    BY <2>2, <2>3 DEF Fresh, AllFresh
  <2>5. \A i \in 1..Answers' : Fresh(Answer(i).data, Answer(i).id)'
    <3>1. ASSUME NEW i \in 1..Answers', i = Answers'
          PROVE  Fresh(Answer(i).data, Answer(i).id)'
      BY <2>1, <2>2, <2>3, <3>1 DEF Fresh
    <3>2. ASSUME NEW i \in 1..Answers', i # Answers'
          PROVE  Fresh(Answer(i).data, Answer(i).id)'
      BY <1>1, <2>1, <3>2
    <3> QED
      BY <3>1, <3>2
  <2>6. \A u \in Threads : tpc'[u] # "put"
    <3>1. tpc[t] = "put" /\ tpc' = [tpc EXCEPT ![t] = "get"]
      BY <1>2 DEF PutResponse
    <3> QED
      BY <3>1, Alone DEF TypeInv, TypeOK
  <2> QED
    BY <2>4, <2>5, <2>6 DEF AllFresh
<1>3. ASSUME \A t \in Threads : ~PutResponse(t)
      PROVE  AllFresh'
  <2>1. SameAnswers
    <3>1. CASE GetResponse
      BY <3>1, Collecting
    <3>2. CASE ~GetResponse
      <4>1. UNCHANGED <<dp1_wb_trx_response_queue, collected>>
        BY <1>3, <3>2
        DEF Next, MainGoesOn, DoWriteDp0, PutRequest, FlushDp0, DoReadDp1, Clear, Worker,
            GetRequest, FoundEmpty, ThreadEnds, WriteTrx, ReadTrx, queues
      <4> QED
        BY <4>1 DEF SameAnswers, Answers, Answer
    <3> QED
      BY <3>1, <3>2
  <2>2. \A i \in 1..Answers' : Fresh(Answer(i).data, Answer(i).id)'
    BY <1>1, <2>1 DEF SameAnswers
  <2>3. Fresh(wb, Served + 1)'
    <3>1. CASE \E t \in Threads : WriteTrx(t)
      <4>1. PICK t \in Threads : WriteTrx(t)
        BY <3>1
      <4>2. Served' = Taken
        BY <3>1, ServedStep
      <4>3. wb' = Taken /\ Taken \in writes /\ writes' = writes
        BY <4>1 DEF WriteTrx, Numbering, IsNext, asked
      <4> QED
        BY <4>2, <4>3 DEF Fresh
    <3>2. CASE ~ \E t \in Threads : WriteTrx(t)
      <4>1. Served' = Served
        BY <1>3, <3>2, ServedStep
      <4>2. wb' = wb
        BY <3>2
        DEF Next, MainGoesOn, DoWriteDp0, PutRequest, FlushDp0, DoReadDp1, GetResponse, Clear,
            Worker, GetRequest, FoundEmpty, ThreadEnds, ReadTrx, PutResponse
      <4>3. \A w \in writes' : w < Served + 1 => w \in writes
        OBVIOUS
      <4> QED
        BY <4>1, <4>2, <4>3 DEF Fresh, AllFresh
    <3> QED
      BY <3>1, <3>2
  <2>4. ASSUME NEW u \in Threads, tpc'[u] = "put"
        PROVE  Fresh(msg[u].data, msg[u].id)'
    <3>1. CASE ReadTrx(u)
      <4>1. msg'[u].data = wb /\ msg'[u].id = Taken /\ Taken = Served + 1 /\ writes' = writes
        <5>1. tpc[u] = "trx"
          BY <3>1 DEF ReadTrx
        <5>2. msg[u].id = Taken /\ Served = Taken - 1
          BY <5>1, ServedWhile DEF Numbering, IsNext
        <5>3. msg'[u].data = wb /\ msg'[u].id = msg[u].id
          <6>1. msg' = [msg EXCEPT ![u] = [id |-> @.id, data |-> wb, rderr |-> FALSE]]
            BY <3>1 DEF ReadTrx
          <6> QED
            BY <6>1 DEF TypeInv, TypeOK
        <5>4. writes' = writes
          BY <3>1 DEF ReadTrx, asked
        <5> QED
          BY <5>2, <5>3, <5>4
      <4> QED
        BY <4>1 DEF AllFresh, Fresh
    <3>2. CASE ~ReadTrx(u)
      <4>1. tpc[u] = "put" /\ msg'[u] = msg[u]
        <5>1. CASE MainGoesOn \/ DoReadDp1 \/ Clear \/ \E kinds \in Batches : DoWriteDp0(kinds)
          BY <2>4, <5>1
          DEF MainGoesOn, DoWriteDp0, PutRequest, FlushDp0, DoReadDp1, GetResponse, Clear, threadVars,
              TypeInv, TypeOK
        <5>2. ASSUME NEW t \in Threads, Worker(t), t # u
              PROVE  tpc'[u] = tpc[u] /\ msg'[u] = msg[u]
          BY <5>2
          DEF Worker, GetRequest, FoundEmpty, ThreadEnds, WriteTrx, ReadTrx, PutResponse, TypeInv, TypeOK
        <5>3. CASE Worker(u)
          BY <1>3, <2>4, <3>2, <5>3 DEF Worker, GetRequest, FoundEmpty, ThreadEnds, WriteTrx, TypeInv, TypeOK
        <5> QED
          BY <2>4, <5>1, <5>2, <5>3 DEF Next
      <4>2. Fresh(msg[u].data, msg[u].id) /\ msg[u].id = Taken
        BY <4>1 DEF AllFresh, Numbering
      <4> QED
        BY <4>1, <4>2 DEF Fresh
    <3> QED
      BY <3>1, <3>2
  <2> QED
    BY <2>2, <2>3, <2>4 DEF AllFresh
<1> QED
  BY <1>2, <1>3

\* Unless a transaction raised or requests were dropped, a read returns what
\* the last write before it left, for any number of requests and threads.
THEOREM ReadsFresh == Spec => []ReadsSeeEarlierWrites
<1>1. Init => FreshInv
  <2> SUFFICES ASSUME Init PROVE AllFresh
    BY DEF FreshInv
  <2>1. /\ Len(collected) = 0 /\ Len(dp1_wb_trx_response_queue) = 0
        /\ \A t \in Threads : tpc[t] = "none"
    BY EmptySeq DEF Init
  <2>2. Answers = 0
    BY <2>1 DEF Answers
  <2> QED
    BY <2>1, <2>2 DEF Init, AllFresh, Fresh
<1>2. /\ TypeInv /\ TypeInv' /\ OneWorker /\ OneWorker' /\ OrderInv /\ OrderInv' /\ FreshInv
      /\ [Next]_vars
      => FreshInv'
  <2> SUFFICES ASSUME TypeInv, TypeInv', OneWorker, OneWorker', OrderInv, OrderInv', FreshInv,
                      [Next]_vars, cleared' = 0, ~failed'
               PROVE  AllFresh'
    BY DEF FreshInv
  <2>1. CASE UNCHANGED vars
    BY <2>1 DEF vars, queues, threadVars, mainVars, asked, FreshInv, AllFresh, Fresh,
                Taken, Served, Answers, Answer
  <2>2. CASE Next
    <3>1. cleared = 0
      BY <2>2
      DEF Next, MainGoesOn, DoWriteDp0, PutRequest, FlushDp0, DoReadDp1, GetResponse, Clear,
          Worker, GetRequest, FoundEmpty, ThreadEnds, WriteTrx, ReadTrx, PutResponse,
          TypeInv, TypeOK
    <3>2. ~failed
      BY <2>2
      DEF Next, MainGoesOn, DoWriteDp0, PutRequest, FlushDp0, DoReadDp1, GetResponse, Clear,
          Worker, GetRequest, FoundEmpty, ThreadEnds, WriteTrx, ReadTrx, PutResponse
    <3>3. Numbering /\ Answered /\ Numbering' /\ AllFresh
      BY <3>1, <3>2 DEF OrderInv, FreshInv
    <3> QED
      BY <2>2, <3>3, FreshStep
  <2> QED
    BY <2>1, <2>2
<1>3. TypeInv /\ FreshInv => ReadsSeeEarlierWrites
  <2> SUFFICES ASSUME TypeInv, ~failed, cleared = 0, AllFresh, NEW i \in DOMAIN collected
               PROVE  LET last == LastWriteBefore(collected[i].id)
                      IN IF last = {} THEN collected[i].data = 0 ELSE collected[i].data \in last
    BY DEF FreshInv, ReadsSeeEarlierWrites
  <2>1. i \in 1..Answers /\ Answer(i) = collected[i] /\ collected[i] \in Response
    BY CountTypes, LenProperties, ElementOfSeq DEF Answers, Answer, TypeInv, TypeOK
  <2>2. Fresh(collected[i].data, collected[i].id)
    BY <2>1 DEF AllFresh
  <2>3. collected[i].id \in Int /\ collected[i].data \in Int /\ writes \subseteq 1..nreqs /\ nreqs \in Nat
    BY <2>1 DEF Response, TypeInv, TypeOK
  <2>4. CASE collected[i].data = 0
    <3>1. ASSUME NEW w \in writes
          PROVE  ~(w < collected[i].id)
      <4>1. w < collected[i].id => w <= 0
        BY <2>2, <2>4 DEF Fresh
      <4> QED
        BY <2>3, <4>1
    <3>2. LastWriteBefore(collected[i].id) = {}
      BY <3>1 DEF LastWriteBefore
    <3> QED
      BY <2>4, <3>2
  <2>5. CASE collected[i].data # 0
    <3>1. collected[i].data \in LastWriteBefore(collected[i].id)
      BY <2>2, <2>3, <2>5 DEF Fresh, LastWriteBefore
    <3> QED
      BY <3>1
  <2> QED
    BY <2>4, <2>5
<1> QED
  BY <1>1, <1>2, <1>3, OrderInvariant, TypeInvariant, WorkersExclusive, PTL DEF Spec
=============================================================================
