-------------------------------- MODULE Lanes --------------------------------
(***************************************************************************)
(* The process around the handlers: main.rs.  A reader routes the lines of *)
(* stdin into three bounded queues, workers serve each lane, a writer owns  *)
(* stdout, and on end of input main drains the workers for at most          *)
(* SHUTDOWN_GRACE before it aborts them.                                    *)
(*                                                                          *)
(* Workers are numbered in the order main spawns, and later joins, them.    *)
(* That the idle workers of a lane share one receiver behind a mutex only   *)
(* says that a line goes to one of them.  Main keeps the receivers alive,   *)
(* so a send never fails, it only waits.                                    *)
(***************************************************************************)
EXTENDS Naturals, Sequences, FiniteSets

CONSTANTS
  Request,           \* the requests of the host
  Method,            \* per request, the kind of method it calls
  Nature,            \* per request: its handler is "quick"; or "stuck" on its server
                     \* until cancelled; or "deaf", on a server that takes no cancel
  Impatient,         \* the requests whose timeout can fire at the host
  WorkerPoolSize,    \* workers of the general lane
  LifecycleWorkers,  \* workers of the lifecycle lane
  QueueCapacity,     \* of the queue of every lane
  Burst              \* how many requests of a lane the host leaves unanswered

Lane == {"general", "lifecycle", "cancel"}

ASSUME ConstantsOK ==
  /\ Method \in [Request -> {"general", "lifecycle"}]
  /\ Nature \in [Request -> {"quick", "stuck", "deaf"}]
  /\ Impatient \subseteq Request
  /\ WorkerPoolSize \in Nat \ {0}
  /\ LifecycleWorkers \in Nat \ {0}
  /\ QueueCapacity \in Nat \ {0}
  /\ Burst \in Nat \ {0}

Line == [method : Lane, of : Request]

Workers == WorkerPoolSize + LifecycleWorkers + 1
Worker  == 1..Workers

\* The lane a worker takes its lines from.
LaneOf(w) ==
  IF w <= WorkerPoolSize THEN "general"
  ELSE IF w <= WorkerPoolSize + LifecycleWorkers THEN "lifecycle"
  ELSE "cancel"

VARIABLES
  host,      \* the host is "up", has "closed" stdin, or is "gone", with stdout
  stdin,     \* the lines not yet in a queue, the one the reader is sending included
  sent,      \* the requests the host has sent
  asked,     \* the requests the host has sent a cancel for
  reader,    \* "reading" or "ended"
  queue,     \* per lane, its queue
  serving,   \* per worker, the line it serves, if any
  ended,     \* the workers whose task has ended
  handled,   \* the requests whose cancel was served
  freed,     \* those whose statement it found and cancelled
  responses, \* the channel to the writer
  writer,    \* "up", "done", or "broken"
  answered,  \* the requests whose response was written
  main,      \* "reading", "joining", "closing", "exited"
  joined,    \* how many workers main has joined
  elapsed,   \* whether SHUTDOWN_GRACE has elapsed
  cleanup    \* whether the cleanup task runs

hostVars  == <<host, sent, asked>>
readVars  == <<stdin, reader, queue>>
workVars  == <<serving, ended, handled, freed>>
writeVars == <<responses, writer, answered>>
mainVars  == <<main, joined, elapsed, cleanup>>
vars == <<hostVars, readVars, workVars, writeVars, mainVars>>

NoLine == [method |-> "none", of |-> "none"]

TypeOK ==
  /\ host \in {"up", "closed", "gone"}
  /\ stdin \in Seq(Line)
  /\ sent \in SUBSET Request
  /\ asked \in SUBSET Request
  /\ reader \in {"reading", "ended"}
  /\ queue \in [Lane -> Seq(Line)]
  /\ serving \in [Worker -> Line \cup {NoLine}]
  /\ ended \in SUBSET Worker
  /\ handled \in SUBSET Request
  /\ freed \in SUBSET Request
  /\ responses \in Seq(Request)
  /\ writer \in {"up", "done", "broken"}
  /\ answered \in SUBSET Request
  /\ main \in {"reading", "joining", "closing", "exited"}
  /\ joined \in 0..Workers
  /\ elapsed \in BOOLEAN
  /\ cleanup \in BOOLEAN

Init ==
  /\ host = "up"
  /\ stdin = <<>>
  /\ sent = {}
  /\ asked = {}
  /\ reader = "reading"
  /\ queue = [l \in Lane |-> <<>>]
  /\ serving = [w \in Worker |-> NoLine]
  /\ ended = {}
  /\ handled = {}
  /\ freed = {}
  /\ responses = <<>>
  /\ writer = "up"
  /\ answered = {}
  /\ main = "reading"
  /\ joined = 0
  /\ elapsed = FALSE
  /\ cleanup = TRUE

-----------------------------------------------------------------------------
(* The host. *)

Unanswered(m) == {r \in sent : Method[r] = m /\ r \notin answered}

\* A request; the host leaves at most Burst of a lane unanswered.
HostSends(r) ==
  /\ host = "up" /\ r \notin sent
  /\ Cardinality(Unanswered(Method[r])) < Burst
  /\ stdin' = Append(stdin, [method |-> Method[r], of |-> r])
  /\ sent' = sent \cup {r}
  /\ UNCHANGED <<host, asked, reader, queue, workVars,
                 writeVars, mainVars>>

\* The cancel notification, when the host's timeout for a call fires; no more
\* than Burst of them are waiting.
HostCancels(r) ==
  /\ host = "up" /\ r \in (sent \cap Impatient) \ (answered \cup asked)
  /\ Cardinality(asked \ handled) < Burst
  /\ stdin' = Append(stdin, [method |-> "cancel", of |-> r])
  /\ asked' = asked \cup {r}
  /\ UNCHANGED <<host, sent, reader, queue, workVars,
                 writeVars, mainVars>>

\* It closes stdin and still reads stdout, or it is gone.
HostLeaves ==
  /\ host = "up"
  /\ host' \in {"closed", "gone"}
  /\ UNCHANGED <<sent, asked, readVars, workVars, writeVars, mainVars>>

-----------------------------------------------------------------------------
(* run_reader. *)

\* Mutant of LaneFor: one queue for everything.
OneLane(m) == "general"

\* lane_for.
LaneFor(m) == m

\* The next line of stdin; the send waits while the lane's queue is full.
Route ==
  LET line == Head(stdin)
      l == LaneFor(line.method)
  IN
  /\ reader = "reading" /\ stdin # <<>>
  /\ Len(queue[l]) < QueueCapacity
  /\ queue' = [queue EXCEPT ![l] = Append(@, line)]
  /\ stdin' = Tail(stdin)
  /\ UNCHANGED <<reader, hostVars, workVars, writeVars, mainVars>>

\* End of input: the senders are dropped and the shutdown watch is set.
EndOfInput ==
  /\ reader = "reading"
  /\ host # "up" /\ stdin = <<>>
  /\ reader' = "ended"
  /\ main' = "joining"
  /\ UNCHANGED <<stdin, queue, hostVars, workVars, writeVars, joined, elapsed, cleanup>>

\* An error of stdin does the same with lines unread: here, a pipe that broke.
ReadError ==
  /\ reader = "reading" /\ host = "gone" /\ stdin # <<>>
  /\ reader' = "ended"
  /\ main' = "joining"
  /\ UNCHANGED <<stdin, queue, hostVars, workVars, writeVars, joined, elapsed, cleanup>>

-----------------------------------------------------------------------------
(* run_worker. *)

Idle(w) == serving[w] = NoLine /\ w \notin ended

Receive(w) ==
  LET l == LaneOf(w) IN
  /\ Idle(w) /\ queue[l] # <<>>
  /\ serving' = [serving EXCEPT ![w] = Head(queue[l])]
  /\ queue' = [queue EXCEPT ![l] = Tail(@)]
  /\ UNCHANGED <<stdin, reader, ended, handled, freed, hostVars, writeVars, mainVars>>

\* The channel is closed and empty: the worker's loop ends.
QueueCloses(w) ==
  /\ Idle(w) /\ reader = "ended" /\ queue[LaneOf(w)] = <<>>
  /\ ended' = ended \cup {w}
  /\ UNCHANGED <<readVars, serving, handled, freed, hostVars, writeVars, mainVars>>

\* Handlers return when the server lets them.
Returns(r) == Nature[r] = "quick" \/ r \in freed

\* handle_line returns a response; the worker ends if the writer is gone.
Respond(w) ==
  LET r == serving[w].of IN
  /\ serving[w] # NoLine /\ serving[w].method # "cancel"
  /\ Returns(r)
  /\ serving' = [serving EXCEPT ![w] = NoLine]
  /\ IF writer = "up"
       THEN responses' = Append(responses, r) /\ UNCHANGED ended
       ELSE ended' = ended \cup {w} /\ UNCHANGED responses
  /\ UNCHANGED <<readVars, handled, freed, hostVars, writer, answered, mainVars>>

Running(r) == \E w \in Worker : serving[w] = [method |-> Method[r], of |-> r]

\* The cancel notification has no response.  It may find the statement of a
\* request that is being served (when it does is the matter of Cancel), and
\* waits for a server that does not even answer a cancel.
DoCancel(w) ==
  LET r == serving[w].of IN
  /\ serving[w] # NoLine /\ serving[w].method = "cancel"
  /\ ~(Running(r) /\ Nature[r] = "deaf")
  /\ \/ UNCHANGED freed
     \/ Running(r) /\ freed' = freed \cup {r}
  /\ handled' = handled \cup {r}
  /\ serving' = [serving EXCEPT ![w] = NoLine]
  /\ UNCHANGED <<readVars, ended, hostVars, writeVars, mainVars>>

-----------------------------------------------------------------------------
(* run_writer and run_pool_cleanup. *)

Write ==
  /\ writer = "up" /\ responses # <<>>
  /\ IF host = "gone"
       THEN writer' = "broken" /\ UNCHANGED answered
       ELSE answered' = answered \cup {Head(responses)} /\ UNCHANGED writer
  /\ responses' = Tail(responses)
  /\ UNCHANGED <<hostVars, readVars, workVars, mainVars>>

\* All workers have ended, and with them the senders of the channel.
WriterEnds ==
  /\ writer = "up" /\ responses = <<>> /\ ended = Worker
  /\ writer' = "done"
  /\ UNCHANGED <<responses, answered, hostVars, readVars, workVars, mainVars>>

CleanupEnds ==
  /\ cleanup /\ main # "reading"
  /\ cleanup' = FALSE
  /\ UNCHANGED <<hostVars, readVars, workVars, writeVars, main, joined, elapsed>>

-----------------------------------------------------------------------------
(* The end of main. *)

GraceElapses ==
  /\ main \in {"joining", "closing"} /\ ~elapsed
  /\ elapsed' = TRUE
  /\ UNCHANGED <<hostVars, readVars, workVars, writeVars, main, joined, cleanup>>

\* Mutant of JoinWorker: after the deadline main keeps waiting.
AwaitWorker ==
  /\ main = "joining" /\ joined < Workers
  /\ joined + 1 \in ended
  /\ joined' = joined + 1
  /\ UNCHANGED <<hostVars, readVars, workVars, writeVars, main, elapsed, cleanup>>

\* Mutant of JoinWorker: it runs past the last worker.
JoinPastEnd ==
  /\ main = "joining" /\ joined <= Workers
  /\ joined + 1 \in ended \/ elapsed
  /\ ended' = ended \cup {joined + 1}
  /\ serving' = [serving EXCEPT ![joined + 1] = NoLine]
  /\ joined' = joined + 1
  /\ UNCHANGED <<hostVars, readVars, handled, freed, writeVars, main, elapsed, cleanup>>

\* timeout_at(deadline, handle): it has ended, or the deadline has passed and
\* it is aborted with whatever it holds.
JoinWorker ==
  /\ main = "joining" /\ joined < Workers
  /\ joined + 1 \in ended \/ elapsed
  /\ ended' = ended \cup {joined + 1}
  /\ serving' = [serving EXCEPT ![joined + 1] = NoLine]
  /\ joined' = joined + 1
  /\ UNCHANGED <<hostVars, readVars, handled, freed, writeVars, main, elapsed, cleanup>>

AllJoined ==
  /\ main = "joining" /\ joined = Workers
  /\ main' = "closing"
  /\ UNCHANGED <<hostVars, readVars, workVars, writeVars, joined, elapsed, cleanup>>

\* Mutant of Exit: main does not wait for the writer.
ExitAtOnce ==
  /\ main = "closing"
  /\ main' = "exited"
  /\ UNCHANGED <<hostVars, readVars, workVars, writeVars, joined, elapsed, cleanup>>

\* The writer and the cleanup task have ended, or the deadline has passed.
Exit ==
  /\ main = "closing"
  /\ (writer # "up" /\ ~cleanup) \/ elapsed
  /\ main' = "exited"
  /\ UNCHANGED <<hostVars, readVars, workVars, writeVars, joined, elapsed, cleanup>>

-----------------------------------------------------------------------------
Host == \/ \E r \in Request : HostSends(r) \/ HostCancels(r)
        \/ HostLeaves

Reader == Route \/ EndOfInput

Serve(w) == Receive(w) \/ QueueCloses(w) \/ Respond(w) \/ DoCancel(w)

Closing == GraceElapses \/ JoinWorker \/ AllJoined \/ Exit

\* Nothing happens any more once the process has exited.
Next ==
  /\ main # "exited"
  /\ \/ Host \/ Reader \/ ReadError
     \/ \E w \in Worker : Serve(w)
     \/ Write \/ WriterEnds \/ CleanupEnds
     \/ Closing

Spec == Init /\ [][Next]_vars

\* Tokio polls every task that can go on; the timer fires; the host owes nothing.
Fairness ==
  /\ WF_vars(main # "exited" /\ Reader)
  /\ \A w \in Worker : WF_vars(main # "exited" /\ Serve(w))
  /\ WF_vars(main # "exited" /\ (Write \/ WriterEnds))
  /\ WF_vars(Closing)

FairSpec == Spec /\ Fairness

-----------------------------------------------------------------------------
(* Safety. *)

Unread == {stdin[i].of : i \in 1..Len(stdin)}

\* main.rs:176-213: a process that exits before the deadline loses nothing it
\* took from stdin: queued or served, every such request was answered before
\* the workers, the writer and main ended, if the host still read stdout.
CleanExitAnswersAll ==
  main = "exited" /\ ~elapsed /\ host # "gone" => sent \ answered \subseteq Unread

(* Liveness, under FairSpec. *)

\* main.rs:79-131: once the host has left, the process ends, however many
\* handlers hang, on whatever.
ExitsAfterHost == host # "up" ~> main = "exited"

\* Calls of lane m whose handler does not return by itself.
Hanging(m) == {r \in sent : Method[r] = m /\ Nature[r] # "quick"}

\* main.rs:12-14: a cancel is served whatever the general workers are stuck
\* on, unless an earlier cancel hangs on a server that takes none.
CancelServed ==
  \A r \in Impatient :
    r \in asked ~> r \in handled \/ main # "reading" \/ \E d \in asked : Nature[d] = "deaf"

\* main.rs:59-62: a health check or connection test of a healthy database is
\* answered whatever the general workers are stuck on, as long as a worker of
\* its own lane is left.
LifecycleServed ==
  \A r \in {p \in Request : Method[p] = "lifecycle" /\ Nature[p] = "quick"} :
    r \in sent ~>
      \/ r \in answered
      \/ main # "reading" \/ host = "gone"
      \/ Cardinality(Hanging("lifecycle")) >= LifecycleWorkers
=============================================================================
