---------------------------- MODULE SulBLEProofs ----------------------------
(* Proofs about SulBLE: what the executor still has to do is told by the   *)
(* future the learner holds, and b.close() is always the last of it.       *)
EXTENDS SulBLE, SequenceTheorems, TLAPS

\* The task submitted last is not completed, or nothing is left to do.
FutureInv ==
  IF future = "pending"
    THEN /\ call \in Calls
         /\ queue = <<>> => running = call
         /\ queue # <<>> => queue[Len(queue)] = call
    ELSE running = "none" /\ queue = <<>>

\* b.close() is submitted by the cleanup task only, behind everything else.
CloseInv ==
  /\ call = "close" => main \in {"waiting", "ended"}
  /\ running = "close" => queue = <<>> /\ call = "close"
  /\ \A k \in 1 .. Len(queue) :
       queue[k] = "close" => k = Len(queue) /\ call = "close"
  /\ b = "closed" => call = "close" /\ future # "pending"
  /\ future = "done" /\ call = "close" => b = "closed"

\* The executor's thread ends only by shutdown(), after b.close() returned.
ShutdownInv ==
  /\ worker = "none" => b = "absent" /\ running = "none" /\ queue = <<>>
  /\ worker = "terminated" => shutdown
  /\ shutdown => b = "closed"

IInv == TypeOK /\ FutureInv /\ CloseInv /\ ShutdownInv

-----------------------------------------------------------------------------
LEMMA CallFacts ==
  /\ \A k \in 1 .. 4 : ConstructorCalls[k] \in Calls /\ ConstructorCalls[k] # "close"
  /\ QueryCalls \subseteq Calls /\ "close" \notin QueryCalls
  /\ "close" \in Calls /\ "none" \notin Calls
<1>1. \A k \in 1 .. 4 :
        ConstructorCalls[k] \in {"SharedInterpreter", "path", "import", "SUL"}
  BY DEF ConstructorCalls
<1>2. \A k \in 1 .. 4 : ConstructorCalls[k] \in Calls
  BY DEF Calls
<1> QED
  BY <1>1, <1>2 DEF Calls, QueryCalls

\* A task that is submitted is the last one in the queue.
LEMMA SubmitStep ==
  ASSUME IInv, NEW c \in Calls, pythonThreadRun(c), b # "closed",
         call # "close"
  PROVE  FutureInv' /\ CloseInv' /\ ShutdownInv' /\ queue' \in Seq(Calls)
<1> USE DEF IInv, TypeOK, pythonThreadRun
<1>1. /\ queue' \in Seq(Calls) /\ Len(queue') = Len(queue) + 1
      /\ queue'[Len(queue) + 1] = c
      /\ \A k \in 1 .. Len(queue) : queue'[k] = queue[k]
  OBVIOUS
<1>2. queue' # <<>> /\ Len(queue) \in Nat
  BY <1>1
<1>3. FutureInv'
  BY <1>1, <1>2 DEF FutureInv
<1>4. \A k \in 1 .. Len(queue) : queue[k] # "close"
  BY DEF CloseInv
<1>5. running # "close"
  BY DEF CloseInv
<1>6. \A k \in 1 .. Len(queue') :
        queue'[k] = "close" => k = Len(queue') /\ call' = "close"
  BY <1>1, <1>2, <1>4
<1>7. CloseInv'
  BY <1>5, <1>6 DEF CloseInv
<1>8. ShutdownInv'
  BY DEF ShutdownInv
<1> QED
  BY <1>1, <1>3, <1>7, <1>8

LEMMA InitIInv == Init => IInv
<1> SUFFICES ASSUME Init PROVE IInv
  OBVIOUS
<1>1. calls \in 0 .. MaxCalls /\ interrupts \in 0 .. MaxInterrupts
  BY SulBLEAssumption DEF Init
<1>2. TypeOK
  <2>1. queue \in Seq(Calls) /\ running \in Calls \union {"none"}
    BY DEF Init
  <2> QED
    BY <1>1, <2>1 DEF Init, TypeOK
<1>3. FutureInv /\ CloseInv /\ ShutdownInv
  BY DEF Init, FutureInv, CloseInv, ShutdownInv
<1> QED
  BY <1>2, <1>3 DEF IInv

\* The steps of the learner that submit a Python call.
LEMMA SubmitIInv ==
  ASSUME IInv,
         NewSulBLE \/ ConstructorGoesOn \/ (\E c \in QueryCalls : QueryCall(c))
           \/ Cleanup
  PROVE  IInv'
<1> USE CallFacts
<1>1. ASSUME NEW c \in Calls, pythonThreadRun(c),
             main \in {"new", "idle", "over"} \/ call \in Calls \ {"close"},
             instanceCreated' \in BOOLEAN, cleanupTask' \in BOOLEAN,
             calls' \in 0 .. MaxCalls, interrupts' \in 0 .. MaxInterrupts
      PROVE  IInv'
  <2>1. call # "close" /\ b # "closed"
    BY <1>1 DEF IInv, CloseInv
  <2>2. FutureInv' /\ CloseInv' /\ ShutdownInv' /\ queue' \in Seq(Calls)
    BY <1>1, <2>1, SubmitStep
  <2>3. TypeOK'
    BY <1>1, <2>2 DEF IInv, TypeOK, pythonThreadRun
  <2> QED
    BY <2>2, <2>3 DEF IInv
<1>2. CASE NewSulBLE
  BY <1>1, <1>2 DEF NewSulBLE, IInv, TypeOK, count_vars
<1>3. CASE ConstructorGoesOn
  <2>1. PICK k \in 1 .. 3 :
          call = ConstructorCalls[k] /\ pythonThreadRun(ConstructorCalls[k + 1])
    BY <1>3 DEF ConstructorGoesOn
  <2>2. ConstructorCalls[k + 1] \in Calls /\ call \in Calls \ {"close"}
    BY <2>1
  <2> QED
    BY <1>1, <1>3, <2>1, <2>2 DEF ConstructorGoesOn, IInv, TypeOK, count_vars
<1>4. ASSUME NEW c \in QueryCalls, QueryCall(c) PROVE IInv'
  <2>1. calls' \in 0 .. MaxCalls
    BY <1>4, SulBLEAssumption DEF QueryCall, IInv, TypeOK
  <2>2. c \in Calls
    BY <1>4
  <2> QED
    BY <1>1, <1>4, <2>1, <2>2 DEF QueryCall, IInv, TypeOK
<1>5. CASE Cleanup
  BY <1>1, <1>5 DEF Cleanup, IInv, TypeOK, count_vars
<1> QED
  BY <1>2, <1>3, <1>4, <1>5

\* The other steps of the learner.
LEMMA LearnerIInv ==
  ASSUME IInv,
         SecondSulBLE \/ Constructed \/ QueryCallReturns \/ LearningDone
           \/ CallRaises \/ CallInterrupted \/ Closed \/ NothingToClean \/ Interrupt
  PROVE  IInv'
<1> USE DEF IInv, executor_vars, count_vars
<1>1. TypeOK'
  <2>1. CASE Interrupt
    <3>1. interrupts' \in 0 .. MaxInterrupts
      BY <2>1, SulBLEAssumption DEF Interrupt, TypeOK
    <3> QED
      BY <2>1, <3>1 DEF Interrupt, TypeOK
  <2>2. CASE CallRaises \/ CallInterrupted
    BY <2>2 DEF TypeOK, CallRaises, CallInterrupted, AfterException
  <2>3. CASE SecondSulBLE \/ Constructed \/ QueryCallReturns \/ LearningDone
    BY <2>3 DEF TypeOK, SecondSulBLE, Constructed, QueryCallReturns, LearningDone
  <2>4. CASE Closed \/ NothingToClean
    BY <2>4 DEF TypeOK, Closed, NothingToClean
  <2> QED
    BY <2>1, <2>2, <2>3, <2>4
<1>2. FutureInv'
  BY DEF FutureInv, SecondSulBLE, Constructed, QueryCallReturns, LearningDone,
     CallRaises, CallInterrupted, Closed, NothingToClean, Interrupt
<1>3. UNCHANGED <<call, future, queue, running, worker, b>>
  BY DEF SecondSulBLE, Constructed, QueryCallReturns, LearningDone, CallRaises,
     CallInterrupted, Closed, NothingToClean, Interrupt
<1>4. call = "close" => main' \in {"waiting", "ended"}
  <2> USE CallFacts DEF CloseInv
  <2>1. CASE Constructed
    <3>1. 4 \in 1 .. 4 /\ call = ConstructorCalls[4]
      BY <2>1 DEF Constructed
    <3>2. call # "close"
      BY <3>1
    <3> QED
      BY <3>2
  <2>2. CASE SecondSulBLE \/ QueryCallReturns \/ LearningDone
    BY <2>2 DEF SecondSulBLE, QueryCallReturns, LearningDone
  <2>3. CASE CallRaises \/ CallInterrupted
    BY <2>3 DEF CallRaises, CallInterrupted, AfterException
  <2>4. CASE Closed \/ NothingToClean \/ Interrupt
    BY <2>4 DEF Closed, NothingToClean, Interrupt
  <2> QED
    BY <2>1, <2>2, <2>3, <2>4
<1>5. CloseInv'
  BY <1>3, <1>4 DEF CloseInv
<1>6. shutdown' => b = "closed"
  BY DEF ShutdownInv, CloseInv, SecondSulBLE, Constructed, QueryCallReturns,
     LearningDone, CallRaises, CallInterrupted, Closed, NothingToClean, Interrupt
<1>7. shutdown => shutdown'
  BY DEF SecondSulBLE, Constructed, QueryCallReturns, LearningDone, CallRaises,
     CallInterrupted, Closed, NothingToClean, Interrupt
<1>8. ShutdownInv'
  BY <1>3, <1>6, <1>7 DEF ShutdownInv
<1> QED
  BY <1>1, <1>2, <1>5, <1>8

\* The executor's thread takes a task.
LEMMA TakeTaskIInv ==
  ASSUME IInv, TakeTask
  PROVE  IInv'
<1> USE DEF IInv, TakeTask, learner_vars, count_vars
<1>1. /\ queue \in Seq(Calls) /\ queue # <<>>
      /\ queue' = Tail(queue) /\ running' = queue[1]
  BY DEF TypeOK
<1>2. /\ Len(queue) \in Nat \ {0} /\ queue' \in Seq(Calls)
      /\ Len(queue') = Len(queue) - 1 /\ queue[1] \in Calls
      /\ \A k \in 1 .. Len(queue') : queue'[k] = queue[k + 1]
  BY <1>1
<1>3. TypeOK'
  BY <1>1, <1>2 DEF TypeOK
<1>4. future = "pending" /\ queue[Len(queue)] = call /\ call \in Calls
  BY <1>1 DEF FutureInv
<1>5. FutureInv'
  <2>1. CASE Len(queue) = 1
    BY <1>1, <1>2, <1>4, <2>1 DEF FutureInv
  <2>2. CASE Len(queue) # 1
    <3>1. Len(queue') \in 1 .. Len(queue') /\ Len(queue') + 1 = Len(queue)
      BY <1>2, <2>2
    <3>2. queue'[Len(queue')] = queue[Len(queue)]
      BY <1>2, <3>1
    <3>3. queue' # <<>>
      BY <3>1
    <3> QED
      BY <1>4, <3>2, <3>3 DEF FutureInv
  <2> QED
    BY <2>1, <2>2
<1>6. running' = "close" => queue' = <<>> /\ call = "close"
  <2> SUFFICES ASSUME running' = "close" PROVE queue' = <<>> /\ call = "close"
    OBVIOUS
  <2>1. 1 \in 1 .. Len(queue) /\ queue[1] = "close"
    BY <1>1, <1>2
  <2>2. 1 = Len(queue) /\ call = "close"
    BY <2>1 DEF CloseInv
  <2> QED
    BY <1>2, <2>2
<1>7. \A k \in 1 .. Len(queue') :
        queue'[k] = "close" => k = Len(queue') /\ call = "close"
  <2> TAKE k \in 1 .. Len(queue')
  <2> HAVE queue'[k] = "close"
  <2>1. k + 1 \in 1 .. Len(queue) /\ queue[k + 1] = "close"
    BY <1>2
  <2>2. k + 1 = Len(queue) /\ call = "close"
    BY <2>1 DEF CloseInv
  <2>3. k \in Nat /\ Len(queue') = Len(queue) - 1
    BY <1>2
  <2> QED
    BY <2>2, <2>3
<1>8. CloseInv'
  BY <1>4, <1>6, <1>7 DEF CloseInv
<1>9. ShutdownInv'
  BY DEF ShutdownInv
<1> QED
  BY <1>3, <1>5, <1>8, <1>9

\* A task is completed; if it is the last, the learner's future is.
LEMMA CompleteIInv ==
  ASSUME IInv, TaskReturns \/ TaskRaises
  PROVE  IInv'
<1> USE DEF IInv, TaskReturns, TaskRaises, Resolve, learner_vars, count_vars
<1>1. future = "pending" /\ call \in Calls
  BY DEF FutureInv
<1>2. TypeOK'
  BY DEF TypeOK
<1>3. FutureInv'
  BY <1>1 DEF FutureInv
<1>4. b # "closed" /\ worker # "none"
  BY <1>1 DEF CloseInv, ShutdownInv
<1>5. queue = <<>> => running = call
  BY <1>1 DEF FutureInv
<1>6. CASE TaskReturns
  <2>1. b' = "closed" <=> running = "close"
    BY <1>4, <1>6
  <2>2. CloseInv'
    BY <1>1, <1>5, <1>6, <2>1 DEF CloseInv
  <2>3. ShutdownInv'
    BY <1>4, <1>6 DEF ShutdownInv
  <2> QED
    BY <1>2, <1>3, <2>2, <2>3
<1>7. CASE TaskRaises
  <2>1. CloseInv'
    BY <1>1, <1>4, <1>7 DEF CloseInv
  <2>2. ShutdownInv'
    BY <1>4, <1>7 DEF ShutdownInv
  <2> QED
    BY <1>2, <1>3, <2>1, <2>2
<1> QED
  BY <1>6, <1>7

LEMMA NextIInv == IInv /\ [Next]_vars => IInv'
<1> SUFFICES ASSUME IInv, [Next]_vars PROVE IInv'
  OBVIOUS
<1>1. CASE Learner \/ Interrupt
  BY <1>1, SubmitIInv, LearnerIInv DEF Learner
<1>2. CASE TakeTask
  BY <1>2, TakeTaskIInv
<1>3. CASE TaskReturns \/ TaskRaises
  BY <1>3, CompleteIInv
<1>4. CASE WorkerEnds
  BY <1>4 DEF WorkerEnds, IInv, TypeOK, FutureInv, CloseInv, ShutdownInv,
     learner_vars, count_vars
<1>5. CASE UNCHANGED vars
  BY <1>5 DEF vars, IInv, TypeOK, FutureInv, CloseInv, ShutdownInv,
     learner_vars, executor_vars, count_vars
<1> QED
  BY <1>1, <1>2, <1>3, <1>4, <1>5 DEF Next, Executor

\* The process never ends with the serial port open (SulBLE.java:47-53): the
\* executor's thread outlives everything but a b.close() that returned.
THEOREM PortClosedAtExitCorrect == Spec => []PortClosedAtExit
<1>1. IInv => PortClosedAtExit
  BY DEF IInv, ShutdownInv, PortClosedAtExit, Exited
<1> QED
  BY InitIInv, NextIInv, <1>1, PTL DEF Spec

\* No call reaches a mapper that is closed (SulBLE.java:50-66), for every
\* number of calls and interrupts.
THEOREM CloseIsLastCorrect == Spec => []CloseIsLast
<1>1. IInv => CloseIsLast
  BY DEF IInv, FutureInv, CloseInv, CloseIsLast
<1> QED
  BY InitIInv, NextIInv, <1>1, PTL DEF Spec
=============================================================================
