------------------------------- MODULE SulBLE -------------------------------
(***************************************************************************)
(* The bridge between the learner and the mapper (SulBLE.java): the        *)
(* learner's thread submits each Python call to a single-thread executor   *)
(* and waits for its future; a cleanup task closes the mapper and shuts    *)
(* the executor down.  The JVM ends when the learner's thread has ended    *)
(* and the executor has no thread, which is not a daemon.                  *)
(*                                                                         *)
(* External: ProtocolState-Fuzzer builds the SUL, calls pre, step and post *)
(* on it and runs the cleanup tasks when it is done or a call has thrown;  *)
(* something may interrupt the thread that waits.                          *)
(***************************************************************************)
EXTENDS Naturals, Sequences

CONSTANTS
  MaxCalls,       \* bound: calls of pre, step and post
  MaxInterrupts   \* bound: interrupts of the learner's thread

ASSUME SulBLEAssumption == MaxCalls \in Nat /\ MaxInterrupts \in Nat

ConstructorCalls == <<"SharedInterpreter", "path", "import", "SUL">>

QueryCalls == {"pre", "step", "post"}

Calls == {ConstructorCalls[k] : k \in 1 .. 4} \union QueryCalls \union {"close"}

VARIABLES
  main,             \* learner: "new", "idle", "waiting", "over", "ended"
  call,             \* the Python call it made last
  future,           \* what the future of that call holds
  interrupted,      \* its interrupt flag
  instanceCreated, cleanupTask,  \* cleanupTask: the task has been submitted
  queue, running,   \* executor: calls submitted, the call being executed
  worker,           \* its thread: "none", "alive" or "terminated"
  shutdown,         \* shutdown() was called
  b,                \* the mapper: "absent", "open" or "closed" serial port
  close_raised,     \* b.close() raised
  calls, interrupts \* counters of the bounds

learner_vars  == <<main, call, interrupted, instanceCreated, cleanupTask>>
executor_vars == <<queue, running, worker>>
count_vars    == <<calls, interrupts>>
vars == <<learner_vars, future, executor_vars, shutdown, b, close_raised,
          count_vars>>

Init ==
  /\ main = "new" /\ call = "none" /\ future = "none" /\ interrupted = FALSE
  /\ instanceCreated = FALSE /\ cleanupTask = FALSE
  /\ queue = <<>> /\ running = "none" /\ worker = "none" /\ shutdown = FALSE
  /\ b = "absent" /\ close_raised = FALSE
  /\ calls = 0 /\ interrupts = 0

-----------------------------------------------------------------------------
(* The learner's thread                                                    *)

\* interpThread.submit(task); the first task creates the executor's thread
pythonThreadRun(c) ==
  /\ main' = "waiting" /\ call' = c /\ future' = "pending"
  /\ queue' = Append(queue, c)
  /\ worker' = "alive"
  /\ UNCHANGED <<running, interrupted, shutdown, b, close_raised>>

\* new SulBLE(): the interpreter is set up on the executor's thread
NewSulBLE ==
  /\ main = "new" /\ ~instanceCreated
  /\ instanceCreated' = TRUE
  /\ pythonThreadRun(ConstructorCalls[1])
  /\ UNCHANGED <<cleanupTask, count_vars>>

\* a second SUL, as for -eqvThreads 2: IllegalStateException
SecondSulBLE ==
  /\ main = "idle" /\ calls = 0 /\ instanceCreated
  /\ main' = "over"
  /\ UNCHANGED <<call, future, interrupted, instanceCreated, cleanupTask,
                 executor_vars, shutdown, b, close_raised, count_vars>>

\* get() returns in the constructor; after the last call the cleanup task is
\* submitted
ConstructorGoesOn ==
  /\ main = "waiting" /\ future = "done"
  /\ \E k \in 1 .. 3 :
       /\ call = ConstructorCalls[k]
       /\ pythonThreadRun(ConstructorCalls[k + 1])
  /\ UNCHANGED <<instanceCreated, cleanupTask, count_vars>>

Constructed ==
  /\ main = "waiting" /\ future = "done" /\ call = ConstructorCalls[4]
  /\ main' = "idle" /\ cleanupTask' = TRUE
  /\ UNCHANGED <<call, future, interrupted, instanceCreated, executor_vars,
                 shutdown, b, close_raised, count_vars>>

\* pre(), step() or post()
QueryCall(c) ==
  /\ main = "idle" /\ calls < MaxCalls
  /\ calls' = calls + 1
  /\ pythonThreadRun(c)
  /\ UNCHANGED <<instanceCreated, cleanupTask, interrupts>>

QueryCallReturns ==
  /\ main = "waiting" /\ future = "done" /\ call \in QueryCalls
  /\ main' = "idle"
  /\ UNCHANGED <<call, future, interrupted, instanceCreated, cleanupTask,
                 executor_vars, shutdown, b, close_raised, count_vars>>

LearningDone ==
  /\ main = "idle"
  /\ main' = "over"
  /\ UNCHANGED <<call, future, interrupted, instanceCreated, cleanupTask,
                 executor_vars, shutdown, b, close_raised, count_vars>>

\* the exception of a call leaves pythonThreadRun(): learning is over, and a
\* cleanup task whose b.close() throws does not get to shutdown()
AfterException == IF call = "close" THEN "ended" ELSE "over"

\* ExecutionException
CallRaises ==
  /\ main = "waiting" /\ future = "raised"
  /\ main' = AfterException
  /\ UNCHANGED <<call, future, interrupted, instanceCreated, cleanupTask,
                 executor_vars, shutdown, b, close_raised, count_vars>>

\* Variant of CallInterrupted: the task is cancelled if it has not begun.
CallInterrupted_cancels ==
  /\ main = "waiting" /\ future = "pending" /\ interrupted
  /\ main' = AfterException
  /\ queue' = <<>>
  /\ UNCHANGED <<call, future, interrupted, instanceCreated, cleanupTask,
                 running, worker, shutdown, b, close_raised, count_vars>>

\* InterruptedException: the task stays with the executor and the flag is
\* set again
CallInterrupted ==
  /\ main = "waiting" /\ future = "pending" /\ interrupted
  /\ main' = AfterException
  /\ UNCHANGED <<call, future, interrupted, instanceCreated, cleanupTask,
                 executor_vars, shutdown, b, close_raised, count_vars>>

\* Variant of Cleanup: shutdown() comes first, so b.close() is rejected.
Cleanup_shutdown_first ==
  /\ main = "over" /\ cleanupTask
  /\ cleanupTask' = FALSE /\ main' = "ended" /\ shutdown' = TRUE
  /\ UNCHANGED <<call, future, interrupted, instanceCreated, executor_vars, b,
                 close_raised, count_vars>>

\* the cleanup task: b.close() ...
Cleanup ==
  /\ main = "over" /\ cleanupTask
  /\ cleanupTask' = FALSE
  /\ pythonThreadRun("close")
  /\ UNCHANGED <<instanceCreated, count_vars>>

\* Variant of Closed: shutdown() is not called.
Closed_without_shutdown ==
  /\ main = "waiting" /\ future = "done" /\ call = "close"
  /\ main' = "ended"
  /\ UNCHANGED <<call, future, interrupted, instanceCreated, cleanupTask,
                 executor_vars, shutdown, b, close_raised, count_vars>>

\* ... and then interpThread.shutdown()
Closed ==
  /\ main = "waiting" /\ future = "done" /\ call = "close"
  /\ main' = "ended" /\ shutdown' = TRUE
  /\ UNCHANGED <<call, future, interrupted, instanceCreated, cleanupTask,
                 executor_vars, b, close_raised, count_vars>>

NothingToClean ==
  /\ main = "over" /\ ~cleanupTask
  /\ main' = "ended"
  /\ UNCHANGED <<call, future, interrupted, instanceCreated, cleanupTask,
                 executor_vars, shutdown, b, close_raised, count_vars>>

Interrupt ==
  /\ main # "ended" /\ interrupts < MaxInterrupts
  /\ interrupted' = TRUE /\ interrupts' = interrupts + 1
  /\ UNCHANGED <<main, call, future, instanceCreated, cleanupTask,
                 executor_vars, shutdown, b, close_raised, calls>>

-----------------------------------------------------------------------------
(* The executor's thread                                                   *)

\* Variant of TakeTask: the newest task is taken first.
TakeTask_newest ==
  /\ worker = "alive" /\ running = "none" /\ queue # <<>>
  /\ running' = queue[Len(queue)] /\ queue' = SubSeq(queue, 1, Len(queue) - 1)
  /\ UNCHANGED <<learner_vars, future, worker, shutdown, b, close_raised,
                 count_vars>>

\* the tasks are executed one by one, in the order they were submitted
TakeTask ==
  /\ worker = "alive" /\ running = "none" /\ queue # <<>>
  /\ running' = Head(queue) /\ queue' = Tail(queue)
  /\ UNCHANGED <<learner_vars, future, worker, shutdown, b, close_raised,
                 count_vars>>

\* The learner waits for the task submitted last.
Resolve(outcome) == future' = IF queue = <<>> THEN outcome ELSE future

TaskReturns ==
  /\ running # "none"
  /\ running' = "none" /\ Resolve("done")
  /\ b' = CASE running = "SUL"   -> "open"
            [] running = "close" -> "closed"
            [] OTHER             -> b
  /\ UNCHANGED <<learner_vars, queue, worker, shutdown, close_raised, count_vars>>

TaskRaises ==
  /\ running # "none"
  /\ running' = "none" /\ Resolve("raised")
  /\ close_raised' = (running = "close")
  /\ UNCHANGED <<learner_vars, queue, worker, shutdown, b, count_vars>>

WorkerEnds ==
  /\ worker = "alive" /\ shutdown /\ running = "none" /\ queue = <<>>
  /\ worker' = "terminated"
  /\ UNCHANGED <<learner_vars, future, queue, running, shutdown, b,
                 close_raised, count_vars>>

-----------------------------------------------------------------------------
Learner ==
  \/ NewSulBLE \/ SecondSulBLE \/ ConstructorGoesOn \/ Constructed
  \/ \E c \in QueryCalls : QueryCall(c)
  \/ QueryCallReturns \/ LearningDone \/ CallRaises \/ CallInterrupted
  \/ Cleanup \/ Closed \/ NothingToClean

Executor == TakeTask \/ TaskReturns \/ TaskRaises \/ WorkerEnds

Next == Learner \/ Interrupt \/ Executor

Spec == Init /\ [][Next]_vars

\* Both threads run, and every Python call returns or raises: for the mapper
\* this is CallsReturn of BLESUL.
Fairness == WF_vars(Learner) /\ WF_vars(Executor)

FairSpec == Spec /\ Fairness

-----------------------------------------------------------------------------
\* The JVM has ended: no thread but daemons is left.
Exited == main = "ended" /\ worker \in {"none", "terminated"}

TypeOK ==
  /\ main \in {"new", "idle", "waiting", "over", "ended"}
  /\ call \in Calls \union {"none"}
  /\ future \in {"none", "pending", "done", "raised"}
  /\ interrupted \in BOOLEAN /\ instanceCreated \in BOOLEAN
  /\ cleanupTask \in BOOLEAN /\ shutdown \in BOOLEAN /\ close_raised \in BOOLEAN
  /\ queue \in Seq(Calls) /\ running \in Calls \union {"none"}
  /\ worker \in {"none", "alive", "terminated"}
  /\ b \in {"absent", "open", "closed"}
  /\ calls \in 0 .. MaxCalls /\ interrupts \in 0 .. MaxInterrupts

\* The process does not end with the serial port of the mapper open, whatever
\* was interrupted or raised before (SulBLE.java:47-53).
PortClosedAtExit == Exited => b # "open"

\* A call that its caller gave up on is never executed on a closed mapper:
\* b.close() (SulBLE.java:52) queues behind it.
CloseIsLast == b = "closed" => running = "none" /\ queue = <<>>

\* Once learning is over the port is closed, also when the thread that runs
\* the cleanup task is interrupted while a step is still being executed
\* (SulBLE.java:50-53, 58-66).  Two cases are excepted: an exception in
\* b.close(), and a constructor that threw before the task was submitted.
PortCloses == main = "over" /\ cleanupTask ~> b = "closed" \/ close_raised

\* When nothing is interrupted, the mapper was built and b.close() returns, the
\* executor's thread ends and with it the process (SulBLE.java:47-55).
ProcessEnds ==
  main = "over" /\ cleanupTask ~> Exited \/ close_raised \/ interrupted
=============================================================================
