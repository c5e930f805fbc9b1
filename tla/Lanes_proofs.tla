----------------------------- MODULE Lanes_proofs -----------------------------
(***************************************************************************)
(* A process that exits by itself loses no request it took from stdin, for  *)
(* every number of requests, workers and places in the queues.              *)
(*                                                                         *)
(* Every request sent is somewhere: in stdin, in a queue, with a worker, in *)
(* the response channel, or answered (Accounted).  To keep it so, a worker  *)
(* may only end when its queue is closed and empty (Ended), and the writer  *)
(* only when every worker has (WriterState).                                *)
(***************************************************************************)
EXTENDS Lanes, TLAPS

Elems(q) == {q[i] : i \in 1..Len(q)}

LEMMA AppendElems ==
  ASSUME NEW S, NEW q \in Seq(S), NEW x \in S
  PROVE  Append(q, x) \in Seq(S) /\ Elems(Append(q, x)) = Elems(q) \cup {x}
<1>1. /\ Append(q, x) \in Seq(S) /\ Len(q) \in Nat /\ Len(Append(q, x)) = Len(q) + 1
      /\ Append(q, x)[Len(q) + 1] = x
      /\ \A i \in 1..Len(q) : Append(q, x)[i] = q[i]
  OBVIOUS
<1>2. 1..(Len(q) + 1) = (1..Len(q)) \cup {Len(q) + 1}
  BY <1>1
<1> QED BY <1>1, <1>2 DEF Elems

LEMMA TailElems ==
  ASSUME NEW S, NEW q \in Seq(S), q # <<>>
  PROVE  /\ Head(q) \in S /\ Tail(q) \in Seq(S)
         /\ Elems(q) = Elems(Tail(q)) \cup {Head(q)}
<1>1. /\ Len(q) \in Nat \ {0} /\ Head(q) = q[1] /\ Tail(q) \in Seq(S)
      /\ Len(Tail(q)) = Len(q) - 1
      /\ \A i \in 1..Len(Tail(q)) : Tail(q)[i] = q[i + 1]
      /\ \A i \in 1..Len(q) : q[i] \in S
  OBVIOUS
<1>2. ASSUME NEW i \in 1..Len(q), i # 1 PROVE i - 1 \in 1..Len(Tail(q)) /\ q[i] = Tail(q)[i - 1]
  BY <1>1, <1>2
<1>3. ASSUME NEW i \in 1..Len(Tail(q)) PROVE i + 1 \in 1..Len(q) /\ Tail(q)[i] = q[i + 1]
  BY <1>1, <1>3
<1>4. 1 \in 1..Len(q)
  BY <1>1
<1> QED BY <1>1, <1>2, <1>3, <1>4 DEF Elems

LEMMA NoElems == Elems(<<>>) = {}
BY DEF Elems

\* The workers are numbered from 1, each has a lane, and each lane a worker.
LEMMA WorkersFacts ==
  /\ Workers \in Nat
  /\ \A w \in Worker : LaneOf(w) \in Lane
  /\ \A l \in Lane : \E w \in Worker : LaneOf(w) = l
<1>1. WorkerPoolSize \in Nat \ {0} /\ LifecycleWorkers \in Nat \ {0}
  BY ConstantsOK DEF ConstantsOK
<1>2. /\ Workers \in Nat /\ 1 \in Worker /\ WorkerPoolSize + 1 \in Worker /\ Workers \in Worker
  BY <1>1 DEF Workers, Worker
<1>3. /\ LaneOf(1) = "general" /\ LaneOf(WorkerPoolSize + 1) = "lifecycle"
      /\ LaneOf(Workers) = "cancel"
  BY <1>1 DEF LaneOf, Workers
<1> QED BY <1>2, <1>3 DEF LaneOf, Lane

-----------------------------------------------------------------------------
(* Type correctness. *)

LEMMA TypeInit == Init => TypeOK
<1>1. /\ <<>> \in Seq(Line) /\ <<>> \in Seq(Request)
      /\ [l \in Lane |-> <<>>] \in [Lane -> Seq(Line)]
  OBVIOUS
<1>2. 0 \in 0..Workers
  BY WorkersFacts
<1> QED BY <1>1, <1>2 DEF Init, TypeOK

LEMMA TypeStep == ASSUME TypeOK, [Next]_vars PROVE TypeOK'
<1> USE DEF TypeOK
<1>0. /\ NoLine.method \notin Lane /\ \A w \in Worker : serving[w] # NoLine => serving[w] \in Line
      /\ \A line \in Line : line.method \in Lane /\ line.of \in Request
      /\ Workers \in Nat
  BY WorkersFacts DEF NoLine, Line, Lane
<1>1. ASSUME NEW r \in Request, HostSends(r) PROVE TypeOK'
  <2>1. [method |-> Method[r], of |-> r] \in Line
    BY ConstantsOK DEF ConstantsOK, Line, Lane
  <2>2. stdin' \in Seq(Line)
    BY <1>1, <2>1, AppendElems DEF HostSends
  <2> QED BY <1>1, <2>2 DEF HostSends, workVars, writeVars, mainVars
<1>2. ASSUME NEW r \in Request, HostCancels(r) PROVE TypeOK'
  <2>1. [method |-> "cancel", of |-> r] \in Line
    BY DEF Line, Lane
  <2>2. stdin' \in Seq(Line)
    BY <1>2, <2>1, AppendElems DEF HostCancels
  <2> QED BY <1>2, <2>2 DEF HostCancels, workVars, writeVars, mainVars
<1>3. CASE HostLeaves
  BY <1>3 DEF HostLeaves, readVars, workVars, writeVars, mainVars
<1>4. CASE Route
  <2>1. Head(stdin) \in Line /\ stdin' \in Seq(Line)
    BY <1>4, TailElems DEF Route
  <2>2. Append(queue[Head(stdin).method], Head(stdin)) \in Seq(Line)
    BY <1>0, <2>1, AppendElems
  <2>3. queue' \in [Lane -> Seq(Line)]
    BY <1>0, <1>4, <2>1, <2>2 DEF Route, LaneFor
  <2> QED BY <1>4, <2>1, <2>3 DEF Route, hostVars, workVars, writeVars, mainVars
<1>5. CASE EndOfInput \/ ReadError
  BY <1>5 DEF EndOfInput, ReadError, hostVars, workVars, writeVars
<1>6. ASSUME NEW w \in Worker, Receive(w) PROVE TypeOK'
  <2>1. LaneOf(w) \in Lane
    BY WorkersFacts
  <2>2. Head(queue[LaneOf(w)]) \in Line /\ Tail(queue[LaneOf(w)]) \in Seq(Line)
    BY <1>6, <2>1, TailElems DEF Receive
  <2>3. queue' \in [Lane -> Seq(Line)] /\ serving' \in [Worker -> Line \cup {NoLine}]
    BY <1>6, <2>1, <2>2 DEF Receive
  <2> QED BY <1>6, <2>3 DEF Receive, hostVars, writeVars, mainVars
<1>7. ASSUME NEW w \in Worker, QueueCloses(w) PROVE TypeOK'
  BY <1>7 DEF QueueCloses, readVars, hostVars, writeVars, mainVars
<1>8. ASSUME NEW w \in Worker, Respond(w) PROVE TypeOK'
  <2>1. serving[w].of \in Request
    BY <1>0, <1>8 DEF Respond
  <2>2. Append(responses, serving[w].of) \in Seq(Request)
    BY <2>1, AppendElems
  <2>3. responses' \in Seq(Request) /\ ended' \in SUBSET Worker
    BY <1>8, <2>2 DEF Respond
  <2> QED BY <1>8, <2>3 DEF Respond, readVars, hostVars, mainVars
<1>9. ASSUME NEW w \in Worker, DoCancel(w) PROVE TypeOK'
  <2>1. serving[w].of \in Request
    BY <1>0, <1>9 DEF DoCancel
  <2> QED BY <1>9, <2>1 DEF DoCancel, readVars, hostVars, writeVars, mainVars
<1>10. CASE Write
  <2>1. Head(responses) \in Request /\ responses' \in Seq(Request)
    BY <1>10, TailElems DEF Write
  <2>2. writer' \in {"up", "done", "broken"} /\ answered' \in SUBSET Request
    BY <1>10, <2>1 DEF Write
  <2> QED BY <1>10, <2>1, <2>2 DEF Write, hostVars, readVars, workVars, mainVars
<1>11. CASE WriterEnds \/ CleanupEnds
  BY <1>11 DEF WriterEnds, CleanupEnds, hostVars, readVars, workVars, writeVars, mainVars
<1>12. CASE GraceElapses \/ AllJoined \/ Exit
  BY <1>12 DEF GraceElapses, AllJoined, Exit, hostVars, readVars, workVars, writeVars
<1>13. CASE JoinWorker
  <2>1. joined + 1 \in 0..Workers /\ joined + 1 \in Worker
    BY <1>0, <1>13 DEF JoinWorker, Worker
  <2> QED BY <1>13, <2>1 DEF JoinWorker, hostVars, readVars, writeVars
<1>14. CASE UNCHANGED vars
  BY <1>14 DEF vars, hostVars, readVars, workVars, writeVars, mainVars
<1> QED BY <1>1, <1>2, <1>3, <1>4, <1>5, <1>6, <1>7, <1>8, <1>9, <1>10, <1>11, <1>12, <1>13, <1>14
        DEF Next, Host, Reader, Serve, Closing

\* The process's queues, workers and stages stay what they are meant to be.
THEOREM TypeCorrect == Spec => []TypeOK
<1>1. TypeOK /\ [Next]_vars => TypeOK'
  BY TypeStep
<1> QED BY TypeInit, <1>1, PTL DEF Spec

-----------------------------------------------------------------------------
(* No request is lost. *)

\* The line of a request, as the host sends it.
CallOf(r) == [method |-> Method[r], of |-> r]

\* A worker that has ended serves nothing, and unless it was aborted or the
\* writer broke, its queue is closed and empty.
Ended ==
  \A w \in ended :
    /\ serving[w] = NoLine
    /\ ~elapsed /\ writer # "broken" => reader = "ended" /\ queue[LaneOf(w)] = <<>>

\* The writer breaks with the host's end of stdout, ends with the last worker,
\* and main leaves neither behind before the deadline.
WriterState ==
  /\ writer = "broken" => host = "gone"
  /\ writer = "done" => responses = <<>> /\ ended = Worker
  /\ main = "exited" /\ ~elapsed => writer # "up"

\* Where a request that was sent can be.
Somewhere(r) ==
  \/ r \in answered
  \/ CallOf(r) \in Elems(stdin)
  \/ \E l \in Lane : CallOf(r) \in Elems(queue[l])
  \/ \E w \in Worker : serving[w] = CallOf(r)
  \/ r \in Elems(responses)

Accounted == ~elapsed /\ host # "gone" => \A r \in sent : Somewhere(r)

Inv == TypeOK /\ Ended /\ WriterState /\ Accounted

LEMMA InvInit == Init => Inv
BY TypeInit DEF Init, Inv, Ended, WriterState, Accounted

LEMMA CallFacts ==
  ASSUME NEW r \in Request
  PROVE  /\ CallOf(r) \in Line /\ CallOf(r).of = r /\ CallOf(r) # NoLine
         /\ CallOf(r).method = Method[r] /\ CallOf(r).method \in Lane \ {"cancel"}
BY ConstantsOK DEF ConstantsOK, CallOf, Line, Lane, NoLine

\* A worker ends for a reason that Ended allows.
LEMMA EndedStep == ASSUME Inv, [Next]_vars PROVE Ended'
<1> USE DEF Ended
<1>0. /\ queue \in [Lane -> Seq(Line)] /\ serving \in [Worker -> Line \cup {NoLine}]
      /\ ended \in SUBSET Worker /\ reader \in {"reading", "ended"} /\ stdin \in Seq(Line)
      /\ Ended /\ WriterState
      /\ \A w \in Worker : LaneOf(w) \in Lane
  BY WorkersFacts DEF Inv, TypeOK
<1>1. CASE Host
  <2>1. UNCHANGED <<reader, queue, workVars, writeVars, mainVars>>
    BY <1>1 DEF Host, HostSends, HostCancels, HostLeaves, readVars
  <2> QED BY <1>0, <2>1 DEF workVars, writeVars, mainVars
<1>2. CASE Route \/ EndOfInput \/ ReadError
  BY <1>0, <1>2 DEF Route, EndOfInput, ReadError, hostVars, workVars, writeVars, mainVars
<1>3. ASSUME NEW w \in Worker, Receive(w) PROVE Ended'
  <2> SUFFICES ASSUME NEW v \in ended
               PROVE  /\ serving'[v] = NoLine
                      /\ ~elapsed /\ writer # "broken" =>
                           reader = "ended" /\ queue'[LaneOf(v)] = <<>>
    BY <1>3 DEF Receive, writeVars, mainVars
  <2>1. serving'[v] = NoLine
    BY <1>0, <1>3 DEF Receive, Idle
  <2>2. queue[LaneOf(v)] = <<>> => LaneOf(v) # LaneOf(w)
    BY <1>3 DEF Receive
  <2>3. v \in Worker /\ LaneOf(v) \in Lane
    BY <1>0
  <2> QED BY <1>0, <1>3, <2>1, <2>2, <2>3 DEF Receive
<1>4. ASSUME NEW w \in Worker, QueueCloses(w) PROVE Ended'
  BY <1>0, <1>4 DEF QueueCloses, Idle, readVars, writeVars, mainVars
<1>5. ASSUME NEW w \in Worker, Respond(w) PROVE Ended'
  <2>1. w \notin ended
    BY <1>0, <1>5 DEF Respond
  <2>2. writer = "up" \/ writer = "broken"
    BY <1>0, <1>5, <2>1 DEF WriterState, Inv, TypeOK
  <2> QED BY <1>0, <1>5, <2>1, <2>2 DEF Respond, readVars, mainVars
<1>6. ASSUME NEW w \in Worker, DoCancel(w) PROVE Ended'
  BY <1>0, <1>6 DEF DoCancel, readVars, writeVars, mainVars
<1>7. CASE Write \/ WriterEnds \/ CleanupEnds
  BY <1>0, <1>7 DEF Write, WriterEnds, CleanupEnds, readVars, workVars, writeVars, mainVars
<1>8. CASE GraceElapses \/ AllJoined \/ Exit
  BY <1>0, <1>8 DEF GraceElapses, AllJoined, Exit, readVars, workVars, writeVars
<1>9. CASE JoinWorker
  <2>1. Workers \in Nat /\ joined \in 0..Workers
    BY WorkersFacts DEF Inv, TypeOK
  <2>2. joined + 1 \in Worker
    BY <1>9, <2>1 DEF JoinWorker, Worker
  <2> QED BY <1>0, <1>9, <2>2 DEF JoinWorker, readVars, writeVars
<1>10. CASE UNCHANGED vars
  BY <1>0, <1>10 DEF vars, readVars, workVars, writeVars, mainVars
<1> QED BY <1>1, <1>2, <1>3, <1>4, <1>5, <1>6, <1>7, <1>8, <1>9, <1>10
        DEF Next, Reader, Serve, Closing

LEMMA WriterStep == ASSUME Inv, [Next]_vars PROVE WriterState'
<1> USE DEF WriterState
<1>0. /\ WriterState /\ ended \in SUBSET Worker /\ Ended /\ responses \in Seq(Request)
      /\ writer \in {"up", "done", "broken"}
  BY DEF Inv, TypeOK
<1>1. CASE Host
  BY <1>0, <1>1 DEF Host, HostSends, HostCancels, HostLeaves, workVars, writeVars, mainVars, readVars
<1>2. CASE Route \/ EndOfInput \/ ReadError
  BY <1>0, <1>2 DEF Route, EndOfInput, ReadError, hostVars, workVars, writeVars, mainVars
<1>3. ASSUME NEW w \in Worker, Receive(w) \/ QueueCloses(w) \/ DoCancel(w) PROVE WriterState'
  BY <1>0, <1>3 DEF Receive, QueueCloses, DoCancel, Idle, hostVars, writeVars, mainVars
<1>4. ASSUME NEW w \in Worker, Respond(w) PROVE WriterState'
  <2>1. writer # "done"
    BY <1>0, <1>4 DEF Respond, Ended
  <2> QED BY <1>0, <1>4, <2>1 DEF Respond, hostVars, mainVars
<1>5. CASE Write \/ WriterEnds \/ CleanupEnds
  BY <1>0, <1>5 DEF Write, WriterEnds, CleanupEnds, hostVars, workVars, writeVars, mainVars
<1>6. CASE GraceElapses \/ AllJoined \/ Exit
  BY <1>0, <1>6 DEF GraceElapses, AllJoined, Exit, hostVars, workVars, writeVars
<1>7. CASE JoinWorker
  <2>1. Workers \in Nat /\ joined \in 0..Workers
    BY WorkersFacts DEF Inv, TypeOK
  <2>2. joined + 1 \in Worker
    BY <1>7, <2>1 DEF JoinWorker, Worker
  <2> QED BY <1>0, <1>7, <2>2 DEF JoinWorker, hostVars, writeVars
<1>8. CASE UNCHANGED vars
  BY <1>0, <1>8 DEF vars, hostVars, workVars, writeVars, mainVars
<1> QED BY <1>1, <1>2, <1>3, <1>4, <1>5, <1>6, <1>7, <1>8 DEF Next, Reader, Serve, Closing

\* A request that was somewhere is somewhere after the step.
LEMMA StillSomewhere ==
  ASSUME Inv, [Next]_vars, ~elapsed', host' # "gone", NEW r \in sent, Somewhere(r)
  PROVE  Somewhere(r)'
<1> USE DEF Somewhere
<1>0. /\ queue \in [Lane -> Seq(Line)] /\ serving \in [Worker -> Line \cup {NoLine}]
      /\ ended \in SUBSET Worker /\ stdin \in Seq(Line) /\ responses \in Seq(Request)
      /\ r \in Request /\ Ended /\ WriterState
      /\ \A w \in Worker : LaneOf(w) \in Lane
      /\ \A line \in Line : line.method \in Lane
      /\ NoLine \notin Line /\ writer \in {"up", "done", "broken"}
  BY WorkersFacts DEF Inv, TypeOK, Line, NoLine, Lane
<1>a. /\ CallOf(r) \in Line /\ CallOf(r).of = r /\ CallOf(r) # NoLine
      /\ CallOf(r).method # "cancel"
  BY <1>0, CallFacts
<1>1. CASE Host
  <2>1. Elems(stdin) \subseteq Elems(stdin')
    <3>1. ASSUME NEW q \in Request, HostSends(q) PROVE Elems(stdin) \subseteq Elems(stdin')
      BY <1>0, <3>1, CallFacts, AppendElems DEF HostSends, CallOf
    <3>2. ASSUME NEW q \in Request, HostCancels(q) PROVE Elems(stdin) \subseteq Elems(stdin')
      <4>1. [method |-> "cancel", of |-> q] \in Line
        BY DEF Line, Lane
      <4> QED BY <1>0, <3>2, <4>1, AppendElems DEF HostCancels
    <3>3. CASE HostLeaves
      BY <3>3 DEF HostLeaves, readVars
    <3> QED BY <1>1, <3>1, <3>2, <3>3 DEF Host
  <2>2. UNCHANGED <<answered, queue, serving, responses>>
    BY <1>1 DEF Host, HostSends, HostCancels, HostLeaves, readVars, workVars, writeVars
  <2> QED BY <2>1, <2>2
<1>2. CASE Route
  <2> DEFINE line == Head(stdin)
  <2>1. line \in Line /\ Elems(stdin) = Elems(stdin') \cup {line}
    BY <1>0, <1>2, TailElems DEF Route
  <2>2. Elems(Append(queue[line.method], line)) = Elems(queue[line.method]) \cup {line}
    BY <1>0, <2>1, AppendElems
  <2>3. /\ \A l \in Lane : Elems(queue[l]) \subseteq Elems(queue'[l])
        /\ line \in Elems(queue'[line.method])
    BY <1>0, <1>2, <2>1, <2>2 DEF Route, LaneFor
  <2>4. UNCHANGED <<answered, serving, responses>>
    BY <1>2 DEF Route, workVars, writeVars
  <2> QED BY <1>0, <2>1, <2>3, <2>4
<1>3. CASE EndOfInput \/ ReadError
  BY <1>3 DEF EndOfInput, ReadError, hostVars, workVars, writeVars
<1>4. ASSUME NEW w \in Worker, Receive(w) PROVE Somewhere(r)'
  <2>1. /\ LaneOf(w) \in Lane /\ queue[LaneOf(w)] \in Seq(Line)
        /\ queue[LaneOf(w)] # <<>>
    BY <1>0, <1>4 DEF Receive
  <2>2. Elems(queue[LaneOf(w)]) = Elems(queue'[LaneOf(w)]) \cup {serving'[w]}
    BY <1>0, <1>4, <2>1, TailElems DEF Receive
  <2>3. \A l \in Lane : Elems(queue[l]) \subseteq Elems(queue'[l]) \cup {serving'[w]}
    BY <1>0, <1>4, <2>1, <2>2 DEF Receive
  <2>4. \A v \in Worker : serving[v] = CallOf(r) => serving'[v] = CallOf(r)
    BY <1>0, <1>a, <1>4 DEF Receive, Idle
  <2>5. UNCHANGED <<answered, stdin, responses>>
    BY <1>4 DEF Receive, writeVars
  <2> QED BY <2>3, <2>4, <2>5
<1>5. ASSUME NEW w \in Worker, QueueCloses(w) PROVE Somewhere(r)'
  BY <1>5 DEF QueueCloses, readVars, writeVars
<1>6. ASSUME NEW w \in Worker, Respond(w) PROVE Somewhere(r)'
  <2>1. writer = "up"
    <3>1. w \notin ended /\ host = host'
      BY <1>0, <1>6 DEF Respond, Ended, hostVars
    <3> QED BY <1>0, <3>1 DEF WriterState
  <2>2. /\ serving' = [serving EXCEPT ![w] = NoLine]
        /\ responses' = Append(responses, serving[w].of)
        /\ UNCHANGED <<answered, stdin, queue>>
    BY <1>6, <2>1 DEF Respond, readVars
  <2>3. serving[w] \in Line /\ serving[w].of \in Request
    BY <1>0, <1>6 DEF Respond, Line
  <2>4. Elems(responses') = Elems(responses) \cup {serving[w].of}
    BY <1>0, <2>2, <2>3, AppendElems
  <2>5. \A v \in Worker : serving[v] = CallOf(r) => serving'[v] = CallOf(r) \/ r \in Elems(responses')
    BY <1>0, <1>a, <2>2, <2>4
  <2> QED BY <2>2, <2>4, <2>5
<1>7. ASSUME NEW w \in Worker, DoCancel(w) PROVE Somewhere(r)'
  <2>1. serving[w] # CallOf(r)
    BY <1>a, <1>7 DEF DoCancel
  <2>2. \A v \in Worker : serving[v] = CallOf(r) => serving'[v] = CallOf(r)
    BY <1>0, <1>7, <2>1 DEF DoCancel
  <2>3. UNCHANGED <<answered, stdin, queue, responses>>
    BY <1>7 DEF DoCancel, readVars, writeVars
  <2> QED BY <2>2, <2>3
<1>8. CASE Write
  <2>1. Elems(responses) = Elems(responses') \cup {Head(responses)}
    BY <1>0, <1>8, TailElems DEF Write
  <2>2. answered' = answered \cup {Head(responses)}
    BY <1>8 DEF Write, hostVars
  <2>3. UNCHANGED <<stdin, queue, serving>>
    BY <1>8 DEF Write, readVars, workVars
  <2> QED BY <2>1, <2>2, <2>3
<1>9. CASE WriterEnds \/ CleanupEnds
  BY <1>9 DEF WriterEnds, CleanupEnds, readVars, workVars, writeVars
<1>10. CASE GraceElapses \/ AllJoined \/ Exit
  BY <1>10 DEF GraceElapses, AllJoined, Exit, readVars, workVars, writeVars
<1>11. CASE JoinWorker
  <2>1. joined + 1 \in ended
    BY <1>11 DEF JoinWorker
  <2>2. serving' = serving
    BY <1>0, <1>11, <2>1 DEF JoinWorker, Ended
  <2> QED BY <1>11, <2>2 DEF JoinWorker, readVars, writeVars
<1>12. CASE UNCHANGED vars
  BY <1>12 DEF vars, readVars, workVars, writeVars
<1> QED BY <1>1, <1>2, <1>3, <1>4, <1>5, <1>6, <1>7, <1>8, <1>9, <1>10, <1>11, <1>12
        DEF Next, Reader, Serve, Closing

LEMMA AccountedStep == ASSUME Inv, [Next]_vars PROVE Accounted'
<1> SUFFICES ASSUME ~elapsed', host' # "gone", NEW r \in sent' PROVE Somewhere(r)'
  BY DEF Accounted
<1>1. ~elapsed /\ host # "gone"
  <2>1. CASE Host
    <3>1. UNCHANGED <<workVars, writeVars, mainVars>> /\ host = "up"
      BY <2>1 DEF Host, HostSends, HostCancels, HostLeaves
    <3> QED BY <3>1 DEF mainVars
  <2>2. CASE Reader \/ ReadError
    BY <2>2 DEF Reader, Route, EndOfInput, ReadError, hostVars, mainVars
  <2>3. ASSUME NEW w \in Worker, Serve(w) PROVE ~elapsed /\ host # "gone"
    BY <2>3 DEF Serve, Receive, QueueCloses, Respond, DoCancel, hostVars, mainVars
  <2>4. CASE Write \/ WriterEnds \/ CleanupEnds \/ Closing \/ UNCHANGED vars
    BY <2>4 DEF Write, WriterEnds, CleanupEnds, Closing, GraceElapses, JoinWorker, AllJoined,
         Exit, vars, hostVars, mainVars
  <2> QED BY <2>1, <2>2, <2>3, <2>4 DEF Next
<1>2. CASE r \in sent
  BY <1>1, <1>2, StillSomewhere DEF Inv, Accounted
<1>3. CASE r \notin sent
  <2>1. PICK q \in Request : HostSends(q) /\ r = q
    BY <1>3 DEF Next, Host, HostSends, HostCancels, HostLeaves, Reader, Route, EndOfInput,
         ReadError, Serve, Receive, QueueCloses, Respond, DoCancel, Write, WriterEnds,
         CleanupEnds, Closing, GraceElapses, JoinWorker, AllJoined, Exit, vars, hostVars
  <2>2. CallOf(r) \in Elems(stdin')
    BY <2>1, CallFacts, AppendElems DEF HostSends, CallOf, Inv, TypeOK
  <2> QED BY <2>2 DEF Somewhere
<1> QED BY <1>2, <1>3

\* Until the deadline or the host's end, whatever the process took from stdin is
\* queued, served, on its way to the writer, or answered (main.rs).
THEOREM Invariance == Spec => []Inv
<1>1. Inv /\ [Next]_vars => Inv'
  BY TypeStep, EndedStep, WriterStep, AccountedStep DEF Inv
<1> QED BY InvInit, <1>1, PTL DEF Spec

\* A process that exits before the deadline has answered every request it took from
\* stdin, if the host still read stdout (main.rs:176-213).
THEOREM NothingLost == Spec => []CleanExitAnswersAll
<1>1. Inv => CleanExitAnswersAll
  <2> SUFFICES ASSUME Inv, main = "exited", ~elapsed, host # "gone", NEW r \in sent, r \notin answered
               PROVE  r \in Unread
    BY DEF CleanExitAnswersAll
  <2>1. writer = "done" /\ responses = <<>> /\ ended = Worker
    BY DEF Inv, TypeOK, WriterState
  <2>2. \A w \in Worker : serving[w] = NoLine /\ queue[LaneOf(w)] = <<>>
    BY <2>1 DEF Inv, Ended
  <2>3. \A l \in Lane : Elems(queue[l]) = {}
    BY <2>2, WorkersFacts, NoElems
  <2>4. CallOf(r) # NoLine /\ CallOf(r).of = r
    BY CallFacts DEF Inv, TypeOK
  <2>5. CallOf(r) \in Elems(stdin)
    BY <2>1, <2>2, <2>3, <2>4, NoElems DEF Inv, Accounted, Somewhere
  <2> QED BY <2>4, <2>5 DEF Elems, Unread
<1> QED BY <1>1, Invariance, PTL
=============================================================================
