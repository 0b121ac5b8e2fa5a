---------------------------- MODULE BLESULProofs ----------------------------
(* Proofs about BLESUL: its type invariant, and the agreement of the       *)
(* mapper's sequences with the learner's view of the query.                *)
EXTENDS BLESUL, SequenceTheorems, TLAPS

\* Where the thread is, or returns to when reset_device() is done.
Loc == IF pc \in {"reset_device", "run_cmd", "reopen"} THEN ret ELSE pc

\* reset_device() is called from these places only.
Callers == {"pre", "reset", "scan", "scan_receive", "receive"}

RetInv == pc \in {"reset_device", "run_cmd", "reopen"} => ret \in Callers

\* Loop counters are below their limit where the loop goes on.
LoopInv ==
  /\ Loc = "scan_receive" => scan_i < ScanTries
  /\ Loc = "receive" /\ ~is_retry_running => attempt = 0
  /\ pc = "retry" => attempt < RetryMax

\* The sequences between two calls of the learner.
ReadyInv ==
  /\ Loc \in {"idle", "ready"} => ~is_retry_running
  /\ pc = "ready" =>
       /\ input_sequence = asked
       /\ Len(reported) = Len(asked)
       /\ ~gave_up => filter_sequence(output_sequence) = reported

\* The sequences of a step the learner asked for.
StepInv ==
  Loc = "receive" /\ ~is_retry_running =>
    /\ asked = Append(input_sequence, sym)
    /\ Len(reported) = Len(input_sequence)
    /\ ~gave_up => filter_sequence(output_sequence) = reported

\* The sequences while a connection is set up.
SetupInv ==
  /\ ~is_retry_running /\ Loc \in {"pre", "reset", "scan", "scan_receive"} =>
       asked = <<>> /\ reported = <<>>
  /\ Loc \in {"scan", "scan_receive"} =>
       input_sequence = <<>> /\ output_sequence = <<>>

\* What retry_sequence() works from.
RetryInv ==
  /\ pc = "replay" => is_retry_running
  /\ pc = "retry" \/ (is_retry_running /\ pc \notin {"raised", "closed"}) =>
       /\ seq_in = asked
       /\ Len(seq_out) = Len(asked)
       /\ Len(asked) = Len(reported) + 1
       /\ ~gave_up => filter_sequence(Front(seq_out)) = reported

\* A replay is a prefix of the recorded sequence.
ReplayInv ==
  is_retry_running /\ Loc \in {"replay", "receive"} =>
    /\ Len(input_sequence) <= Len(seq_in)
    /\ \A k \in 1 .. Len(input_sequence) : input_sequence[k] = seq_in[k]
    /\ Loc = "receive" => /\ Len(input_sequence) < Len(seq_in)
                          /\ sym = seq_in[Len(input_sequence) + 1]

QueryInv ==
  /\ Len(input_sequence) = Len(output_sequence)
  /\ RetInv
  /\ LoopInv
  /\ ReadyInv
  /\ StepInv
  /\ SetupInv
  /\ RetryInv
  /\ ReplayInv

IInv == TypeOK /\ QueryInv

-----------------------------------------------------------------------------
(* Facts about sequences                                                   *)

\* filter_symbol never leaves the set of possible outputs.
LEMMA FilterSymbolType ==
  ASSUME NEW out \in Outputs
  PROVE  filter_symbol(out) \in Outputs
  BY BLESULAssumption DEF filter_symbol

\* Filtering a sequence keeps its length and the type of its elements.
LEMMA FilterSequenceType ==
  ASSUME NEW s \in Seq(Outputs)
  PROVE  filter_sequence(s) \in Seq(Outputs) /\ Len(filter_sequence(s)) = Len(s)
  BY FilterSymbolType DEF filter_sequence

\* Filtering is done symbol by symbol (BLESUL.py:522).
LEMMA FilterSequenceAppend ==
  ASSUME NEW s \in Seq(Outputs), NEW out \in Outputs
  PROVE  filter_sequence(Append(s, out)) =
           Append(filter_sequence(s), filter_symbol(out))
<1> DEFINE l == filter_sequence(Append(s, out))
           r == Append(filter_sequence(s), filter_symbol(out))
<1>1. filter_sequence(s) \in Seq(Outputs) /\ Len(filter_sequence(s)) = Len(s)
  BY FilterSequenceType
<1>2. Append(s, out) \in Seq(Outputs) /\ Len(Append(s, out)) = Len(s) + 1
  OBVIOUS
<1>3. l \in Seq(Outputs) /\ Len(l) = Len(s) + 1
  BY <1>2, FilterSequenceType
<1>4. r \in Seq(Outputs) /\ Len(r) = Len(s) + 1
  BY <1>1, FilterSymbolType
<1>5. ASSUME NEW k \in 1 .. Len(s) + 1 PROVE l[k] = r[k]
  <2>1. CASE k \in 1 .. Len(s)
    BY <2>1, <1>1, <1>2 DEF filter_sequence
  <2>2. CASE k = Len(s) + 1
    BY <2>2, <1>1, <1>2 DEF filter_sequence
  <2>3. Len(s) \in Nat
    OBVIOUS
  <2> HIDE DEF l, r
  <2> QED
    BY <1>5, <2>1, <2>2, <2>3
<1> QED
  BY <1>3, <1>4, <1>5

\* A non-empty sequence is its front and its last element.
LEMMA FrontLast ==
  ASSUME NEW S, NEW s \in Seq(S), s # <<>>
  PROVE  /\ Front(s) \in Seq(S) /\ Last(s) \in S
         /\ Len(Front(s)) = Len(s) - 1
         /\ s = Append(Front(s), Last(s))
<1>1. Len(s) \in Nat \ {0}
  OBVIOUS
<1>2. Front(s) \in Seq(S) /\ Len(Front(s)) = Len(s) - 1
  <2> DEFINE n == Len(s) - 1
  <2>1. n \in Nat /\ n \in Int /\ 1 \in Int
    BY <1>1
  <2>2. \A k \in 1 .. n : s[k] \in S
    BY <1>1
  <2> HIDE DEF n
  <2>3. /\ SubSeq(s, 1, n) \in Seq(S)
        /\ Len(SubSeq(s, 1, n)) = IF 1 <= n THEN n - 1 + 1 ELSE 0
    BY <2>1, <2>2, SubSeqProperties
  <2>4. Len(SubSeq(s, 1, n)) = n
    BY <2>1, <2>3
  <2> QED
    BY <2>3, <2>4 DEF Front, n
<1>3. Last(s) \in S
  BY <1>1 DEF Last
<1>4. Append(Front(s), Last(s)) \in Seq(S) /\ Len(Append(Front(s), Last(s))) = Len(s)
  BY <1>1, <1>2, <1>3
<1> DEFINE a == Append(Front(s), Last(s))
<1>5. ASSUME NEW k \in 1 .. Len(s) PROVE a[k] = s[k]
  <2>1. CASE k = Len(s)
    BY <2>1, <1>1, <1>2, <1>3 DEF Last
  <2>2. CASE k \in 1 .. Len(s) - 1
    BY <2>2, <1>1, <1>2, <1>3 DEF Front
  <2>3. k = Len(s) \/ k \in 1 .. Len(s) - 1
    BY <1>1, <1>5
  <2> QED
    BY <2>1, <2>2, <2>3
<1> QED
  BY <1>2, <1>3, <1>4, <1>5

\* Appending and taking the front again.
LEMMA FrontAppend ==
  ASSUME NEW S, NEW s \in Seq(S), NEW e \in S
  PROVE  Front(Append(s, e)) = s
  BY DEF Front
-----------------------------------------------------------------------------
(* Every step keeps the types                                              *)

LEMMA ControlStep ==
  ASSUME ControlType, RetInv, SequenceType, ReplayInv, RetryInv, Next
  PROVE  ControlType'
<1> USE DEF ControlType, Locations, RetInv, Callers, CallResetDevice
<1>1. CASE Learner
  BY <1>1 DEF Learner, StartQuery, Step, post, close
<1>2. CASE Reset
  BY <1>2 DEF Reset, pre, reset, ScanRequest, ScanRspReceived, ScanAnswered,
     ScanTimedOut, ScanExhausted
<1>3. CASE ResetDevice
  BY <1>3 DEF ResetDevice, ResetWithoutCmd, CloseForReset, ResetCmdSucceeds,
     ResetCmdFails, ReopenSucceeds, ReopenFails, ConfigFails
<1>4. CASE Exchange
  BY <1>4 DEF Exchange, RawReceived, ReadBlocks, StepAnswered
<1>5. CASE Retry
  <2>1. CASE Replay
    <3>1. seq_in[Len(input_sequence) + 1] \in Inputs
      BY <2>1 DEF Replay, SequenceType
    <3> QED
      BY <2>1, <3>1 DEF Replay
  <2>2. CASE RetryAttempt \/ RetryAgain \/ RetryReturns
    BY <2>2 DEF RetryAttempt, RetryAgain, RetryReturns
  <2> QED
    BY <1>5, <2>1, <2>2 DEF Retry
<1> QED
  BY <1>1, <1>2, <1>3, <1>4, <1>5 DEF Next

LEMMA CounterStep ==
  ASSUME CounterType, LoopInv, Next
  PROVE  CounterType'
<1> USE BLESULAssumption DEF CounterType, LoopInv, Loc, scan_vars, retry_vars
<1>1. CASE Learner
  BY <1>1 DEF Learner, StartQuery, Step, post, close
<1>2. CASE Reset
  BY <1>2 DEF Reset, pre, reset, ScanRequest, ScanRspReceived, ScanAnswered,
     ScanTimedOut, ScanExhausted
<1>3. CASE ResetDevice
  BY <1>3 DEF ResetDevice, ResetWithoutCmd, CloseForReset, ResetCmdSucceeds,
     ResetCmdFails, ReopenSucceeds, ReopenFails, ConfigFails
<1>4. CASE Exchange
  BY <1>4 DEF Exchange, RawReceived, ReadBlocks, StepAnswered
<1>5. CASE Retry
  BY <1>5 DEF Retry, RetryAttempt, Replay, RetryAgain, RetryReturns
<1> QED
  BY <1>1, <1>2, <1>3, <1>4, <1>5 DEF Next

LEMMA FlagStep ==
  ASSUME FlagType, Next
  PROVE  FlagType'
<1> USE DEF FlagType, scan_vars, retry_vars, query_vars, driver_vars
<1>1. CASE Learner
  BY <1>1 DEF Learner, StartQuery, Step, post, close
<1>2. CASE Reset
  BY <1>2 DEF Reset, pre, reset, ScanRequest, ScanRspReceived, ScanAnswered,
     ScanTimedOut, ScanExhausted
<1>3. CASE ResetDevice
  BY <1>3 DEF ResetDevice, ResetWithoutCmd, CloseForReset, ResetCmdSucceeds,
     ResetCmdFails, ReopenSucceeds, ReopenFails, ConfigFails
<1>4. CASE Exchange
  BY <1>4 DEF Exchange, RawReceived, ReadBlocks, StepAnswered
<1>5. CASE Retry
  BY <1>5 DEF Retry, RetryAttempt, Replay, RetryAgain, RetryReturns
<1> QED
  BY <1>1, <1>2, <1>3, <1>4, <1>5 DEF Next

LEMMA SequenceStep ==
  ASSUME ControlType, SequenceType, QueryInv, Next
  PROVE  SequenceType'
<1> USE DEF SequenceType, seq_vars, retry_vars, query_vars
<1>1. CASE Learner
  <2>1. CASE StartQuery
    BY <2>1 DEF StartQuery
  <2>2. ASSUME NEW in \in Inputs, Step(in) PROVE SequenceType'
    BY <2>2 DEF Step
  <2>3. CASE post \/ close
    BY <2>3 DEF post, close
  <2> QED
    BY <1>1, <2>1, <2>2, <2>3 DEF Learner
<1>2. CASE Reset
  <2>1. CASE reset
    BY <2>1 DEF reset
  <2>2. CASE ~reset
    BY <1>2, <2>2 DEF Reset, pre, ScanRequest, ScanRspReceived, ScanAnswered,
       ScanTimedOut, ScanExhausted
  <2> QED
    BY <2>1, <2>2
<1>3. CASE ResetDevice
  BY <1>3 DEF ResetDevice, ResetWithoutCmd, CloseForReset, ResetCmdSucceeds,
     ResetCmdFails, ReopenSucceeds, ReopenFails, ConfigFails
<1>4. CASE Exchange
  <2>1. CASE RawReceived \/ ReadBlocks
    BY <2>1 DEF RawReceived, ReadBlocks
  <2>2. ASSUME NEW out \in Outputs, StepAnswered(out) PROVE SequenceType'
    <3>1. filter_symbol(out) \in Outputs /\ sym \in Inputs
      BY FilterSymbolType DEF ControlType
    <3>2. /\ Append(input_sequence, sym) \in Seq(Inputs)
          /\ Append(output_sequence, out) \in Seq(Outputs)
          /\ Append(reported, filter_symbol(out)) \in Seq(Outputs)
      BY <3>1
    <3>3. input_sequence' \in Seq(Inputs) /\ output_sequence' \in Seq(Outputs)
      BY <2>2, <3>2 DEF StepAnswered
    <3>4. asked' \in Seq(Inputs) /\ reported' \in Seq(Outputs)
      BY <2>2, <3>2 DEF StepAnswered
    <3>5. seq_in' \in Seq(Inputs) /\ seq_out' \in Seq(Outputs)
      BY <2>2, <3>3 DEF StepAnswered
    <3> QED
      BY <3>3, <3>4, <3>5
  <2> QED
    BY <1>4, <2>1, <2>2 DEF Exchange
<1>5. CASE Retry
  <2>1. CASE RetryReturns
    <3>1. output_sequence # <<>>
      <4>1. Len(output_sequence) = Len(reported) + 1
        BY <2>1 DEF RetryReturns, Verdict, QueryInv, RetryInv
      <4> QED
        BY <4>1
    <3>2. filter_symbol(Last(output_sequence)) \in Outputs
      BY <3>1, FrontLast, FilterSymbolType
    <3> QED
      BY <2>1, <3>2 DEF RetryReturns
  <2>2. CASE ~RetryReturns
    BY <1>5, <2>2 DEF Retry, RetryAttempt, Replay, RetryAgain
  <2> QED
    BY <2>1, <2>2
<1> QED
  BY <1>1, <1>2, <1>3, <1>4, <1>5 DEF Next

LEMMA TypeStep ==
  ASSUME IInv, Next
  PROVE  TypeOK'
  BY ControlStep, CounterStep, FlagStep, SequenceStep DEF IInv, QueryInv, TypeOK

-----------------------------------------------------------------------------
(* The invariant is inductive                                              *)

LEMMA InitIInv == Init => IInv
<1> SUFFICES ASSUME Init PROVE IInv
  OBVIOUS
<1>1. TypeOK
  <2>1. ControlType
    BY DEF Init, ControlType, Locations
  <2>2. CounterType
    BY BLESULAssumption DEF Init, CounterType
  <2>3. FlagType
    BY DEF Init, FlagType
  <2>4. SequenceType
    BY DEF Init, SequenceType
  <2> QED
    BY <2>1, <2>2, <2>3, <2>4 DEF TypeOK
<1>2. QueryInv
  BY DEF Init, QueryInv, RetInv, LoopInv, ReadyInv, StepInv, SetupInv, RetryInv,
     ReplayInv, Loc
<1> QED
  BY <1>1, <1>2 DEF IInv

\* What the learner does: a query begins, a step begins, a query ends.
LEMMA LearnerIInv ==
  ASSUME IInv, Learner
  PROVE  QueryInv'
<1> USE DEF IInv, QueryInv, TypeOK, ControlType, CounterType, FlagType, SequenceType,
        RetInv, LoopInv, ReadyInv, StepInv, SetupInv,
        RetryInv, ReplayInv, Loc, Callers, Locations,
        scan_vars, seq_vars, retry_vars, query_vars
<1> USE BLESULAssumption
<1>1. CASE StartQuery
  <2>2. (Len(input_sequence) = Len(output_sequence))'
    BY <1>1 DEF StartQuery
  <2>3. RetInv'
    BY <1>1 DEF StartQuery
  <2>4. LoopInv'
    BY <1>1 DEF StartQuery
  <2>5. ReadyInv'
    BY <1>1 DEF StartQuery
  <2>6. StepInv'
    BY <1>1 DEF StartQuery
  <2>7. SetupInv'
    BY <1>1 DEF StartQuery
  <2>8. RetryInv'
    BY <1>1 DEF StartQuery
  <2>9. ReplayInv'
    BY <1>1 DEF StartQuery
  <2> QED
    BY <2>2, <2>3, <2>4, <2>5, <2>6, <2>7, <2>8, <2>9
<1>2. ASSUME NEW in \in Inputs, Step(in) PROVE QueryInv'
  BY <1>2 DEF Step
<1>3. CASE post
  BY <1>3 DEF post
<1>4. CASE close
  BY <1>4 DEF close
<1> QED
  BY <1>1, <1>2, <1>3, <1>4 DEF Learner

\* reset() and the scan requests of its sanity check.
LEMMA ResetIInv ==
  ASSUME IInv, Reset
  PROVE  QueryInv'
<1> USE DEF IInv, QueryInv, TypeOK, ControlType, CounterType, FlagType, SequenceType,
        RetInv, LoopInv, ReadyInv, StepInv, SetupInv,
        RetryInv, ReplayInv, Loc, Callers, Locations, CallResetDevice,
        scan_vars, seq_vars, retry_vars, query_vars
<1> USE BLESULAssumption
<1>1. CASE pre
  BY <1>1 DEF pre
<1>2. CASE reset
  <2>2. (Len(input_sequence) = Len(output_sequence))'
    BY <1>2 DEF reset
  <2>3. RetInv'
    BY <1>2 DEF reset
  <2>4. LoopInv'
    BY <1>2 DEF reset
  <2>5. ReadyInv'
    BY <1>2 DEF reset
  <2>6. StepInv'
    BY <1>2 DEF reset
  <2>7. SetupInv'
    BY <1>2 DEF reset
  <2>8. RetryInv'
    BY <1>2 DEF reset
  <2>9. ReplayInv'
    BY <1>2 DEF reset
  <2> QED
    BY <2>2, <2>3, <2>4, <2>5, <2>6, <2>7, <2>8, <2>9
<1>3. CASE ScanRequest
  <2>2. (Len(input_sequence) = Len(output_sequence))'
    BY <1>3 DEF ScanRequest
  <2>3. RetInv'
    BY <1>3 DEF ScanRequest
  <2>4. LoopInv'
    BY <1>3 DEF ScanRequest
  <2>5. ReadyInv'
    BY <1>3 DEF ScanRequest
  <2>6. StepInv'
    BY <1>3 DEF ScanRequest
  <2>7. SetupInv'
    BY <1>3 DEF ScanRequest
  <2>8. RetryInv'
    BY <1>3 DEF ScanRequest
  <2>9. ReplayInv'
    BY <1>3 DEF ScanRequest
  <2> QED
    BY <2>2, <2>3, <2>4, <2>5, <2>6, <2>7, <2>8, <2>9
<1>4. CASE ScanRspReceived
  BY <1>4 DEF ScanRspReceived
<1>5. CASE ScanAnswered
  BY <1>5 DEF ScanAnswered, filter_sequence
<1>6. CASE ScanTimedOut
  BY <1>6 DEF ScanTimedOut
<1>7. CASE ScanExhausted
  BY <1>7 DEF ScanExhausted
<1> QED
  BY <1>1, <1>2, <1>3, <1>4, <1>5, <1>6, <1>7 DEF Reset

\* NRF52.reset_device(), wherever it was called from.
LEMMA ResetDeviceIInv ==
  ASSUME IInv, ResetDevice
  PROVE  QueryInv'
<1> USE DEF IInv, QueryInv, TypeOK, ControlType, CounterType, FlagType, SequenceType,
        RetInv, LoopInv, ReadyInv, StepInv, SetupInv,
        RetryInv, ReplayInv, Loc, Callers, Locations,
        scan_vars, seq_vars, retry_vars, query_vars
<1>1. CASE ResetWithoutCmd
  BY <1>1 DEF ResetWithoutCmd
<1>2. CASE ResetCmdSucceeds
  BY <1>2 DEF ResetCmdSucceeds
<1>3. CASE ResetCmdFails
  BY <1>3 DEF ResetCmdFails
<1>4. CASE ReopenSucceeds
  BY <1>4 DEF ReopenSucceeds
<1>5. CASE ReopenFails
  BY <1>5 DEF ReopenFails
<1>6. CASE ConfigFails
  BY <1>6 DEF ConfigFails
<1>7. CASE CloseForReset
  BY <1>7 DEF CloseForReset
<1> QED
  BY <1>1, <1>2, <1>3, <1>4, <1>5, <1>6, <1>7 DEF ResetDevice

\* Exchanges with the peripheral and the answers they give.
LEMMA ExchangeIInv ==
  ASSUME IInv, Exchange
  PROVE  QueryInv'
<1> USE DEF IInv, QueryInv, TypeOK, ControlType, CounterType, FlagType,
        SequenceType, RetInv, LoopInv, ReadyInv, StepInv, SetupInv, RetryInv,
        ReplayInv, Loc, Callers, Locations,
        scan_vars, seq_vars, retry_vars, query_vars
<1>1. CASE RawReceived
  BY <1>1 DEF RawReceived, CallResetDevice
<1>2. ASSUME NEW out \in Outputs, StepAnswered(out) PROVE QueryInv'
  <2> USE <1>2
  <2>1. /\ Len(input_sequence') = Len(input_sequence) + 1
        /\ \A k \in 1 .. Len(input_sequence) : input_sequence'[k] = input_sequence[k]
        /\ input_sequence'[Len(input_sequence) + 1] = sym
        /\ Len(output_sequence') = Len(output_sequence) + 1
    BY DEF StepAnswered
  <2>2. filter_sequence(output_sequence') =
          Append(filter_sequence(output_sequence), filter_symbol(out))
    BY FilterSequenceAppend DEF StepAnswered
  <2>3. Front(output_sequence') = output_sequence
    BY FrontAppend DEF StepAnswered
  <2>4. CASE is_retry_running
    BY <2>1, <2>4 DEF StepAnswered
  <2>5. CASE ~is_retry_running /\ pc' = "retry"
    <3>1. RetryInv'
      BY <2>1, <2>3, <2>5 DEF StepAnswered
    <3>2. attempt' = 0 /\ attempt' < RetryMax
      BY <2>5, BLESULAssumption DEF StepAnswered
    <3>3. LoopInv'
      BY <2>5, <3>2 DEF StepAnswered
    <3>4. (Len(input_sequence) = Len(output_sequence))'
      BY <2>1
    <3>5. RetInv' /\ ReadyInv' /\ StepInv' /\ SetupInv' /\ ReplayInv'
      BY <2>5 DEF StepAnswered
    <3> QED
      BY <3>1, <3>3, <3>4, <3>5
  <2>6. CASE ~is_retry_running /\ pc' = "ready"
    BY <2>1, <2>2, <2>6 DEF StepAnswered
  <2> QED
    BY <2>4, <2>5, <2>6 DEF StepAnswered
<1>3. CASE ReadBlocks
  BY <1>3 DEF ReadBlocks
<1> QED
  BY <1>1, <1>2, <1>3 DEF Exchange

\* retry_sequence(): attempts, replayed symbols and the verdict.
LEMMA RetryIInv ==
  ASSUME IInv, Retry
  PROVE  QueryInv'
<1> USE DEF IInv, QueryInv, TypeOK, ControlType, CounterType, FlagType,
        SequenceType, RetInv, LoopInv, ReadyInv, StepInv, SetupInv, RetryInv,
        ReplayInv, Loc, Callers, Locations,
        scan_vars, seq_vars, retry_vars, query_vars
<1>1. CASE RetryAttempt
  BY <1>1 DEF RetryAttempt, CallResetDevice
<1>2. CASE Replay
  BY <1>2 DEF Replay
<1>3. CASE RetryAgain
  <2>1. attempt < RetryMax
    <3>1. attempt < RetryMax \/ attempt < RetrySuspicious
      BY <1>3 DEF RetryAgain
    <3> QED
      BY <3>1, BLESULAssumption
  <2>2. LoopInv'
    BY <1>3, <2>1 DEF RetryAgain
  <2>3. RetryInv'
    BY <1>3 DEF RetryAgain, Verdict
  <2>4. /\ (Len(input_sequence) = Len(output_sequence))'
        /\ RetInv' /\ ReadyInv' /\ StepInv' /\ SetupInv' /\ ReplayInv'
    BY <1>3 DEF RetryAgain, Verdict
  <2> QED
    BY <2>2, <2>3, <2>4
<1>4. CASE RetryReturns
  <2>1. input_sequence = seq_in
    BY <1>4 DEF RetryReturns, Verdict
  <2>2. /\ seq_in = asked
        /\ Len(seq_out) = Len(asked)
        /\ Len(asked) = Len(reported) + 1
        /\ ~gave_up => filter_sequence(Front(seq_out)) = reported
    BY <1>4 DEF RetryReturns, Verdict
  <2>3. output_sequence # <<>>
    <3>1. Len(output_sequence) = Len(reported) + 1
      BY <2>1, <2>2
    <3> QED
      BY <3>1
  <2>4. filter_sequence(output_sequence) =
          Append(filter_sequence(Front(output_sequence)),
                 filter_symbol(Last(output_sequence)))
    <3>1. /\ Front(output_sequence) \in Seq(Outputs)
          /\ Last(output_sequence) \in Outputs
          /\ output_sequence = Append(Front(output_sequence), Last(output_sequence))
      BY <2>3, FrontLast
    <3> QED
      BY <3>1, FilterSequenceAppend
  <2>5. ~gave_up' => filter_sequence(output_sequence) = reported'
    BY <1>4, <2>2, <2>4 DEF RetryReturns, SamePrefix
  <2>6. Len(reported') = Len(asked)
    BY <1>4, <2>2 DEF RetryReturns
  <2>7. ReadyInv'
    BY <1>4, <2>1, <2>2, <2>5, <2>6 DEF RetryReturns
  <2>8. /\ (Len(input_sequence) = Len(output_sequence))'
        /\ RetInv' /\ LoopInv' /\ StepInv' /\ SetupInv' /\ RetryInv' /\ ReplayInv'
    BY <1>4 DEF RetryReturns
  <2> QED
    BY <2>7, <2>8
<1> QED
  BY <1>1, <1>2, <1>3, <1>4 DEF Retry

LEMMA NextIInv == IInv /\ [Next]_vars => IInv'
<1> SUFFICES ASSUME IInv, [Next]_vars PROVE IInv'
  OBVIOUS
<1>1. CASE Next
  <2>1. TypeOK'
    BY <1>1, TypeStep
  <2>2. QueryInv'
    BY <1>1, LearnerIInv, ResetIInv, ResetDeviceIInv, ExchangeIInv, RetryIInv DEF Next
  <2> QED
    BY <2>1, <2>2 DEF IInv
<1>2. CASE UNCHANGED vars
  BY <1>2 DEF vars, IInv, QueryInv, TypeOK, ControlType, CounterType, FlagType,
     SequenceType, RetInv, LoopInv, ReadyInv, StepInv, SetupInv, RetryInv,
     ReplayInv, Loc, scan_vars, seq_vars, retry_vars, query_vars, driver_vars,
     filter_sequence, filter_symbol
<1> QED
  BY <1>1, <1>2

-----------------------------------------------------------------------------
\* The sequences and the counters of the mapper keep their types: scan_i never
\* leaves the loop of reset(), attempt never exceeds RetryMax (BLESUL.py:178,
\* 525), for every limit and every set of symbols.
THEOREM TypeCorrect == Spec => []TypeOK
<1>1. IInv => TypeOK
  BY DEF IInv
<1> QED
  BY InitIInv, NextIInv, <1>1, PTL DEF Spec

\* After every step(), the run of the device that the mapper is in is the run
\* the learner knows, up to filtered symbols (BLESUL.py:103-141, 499-542),
\* unless a retry ended in "cannot recover".
THEOREM HistoryCorrect == Spec => []HistoryConsistent
<1>1. IInv => HistoryConsistent
  BY DEF IInv, QueryInv, ReadyInv, HistoryConsistent
<1> QED
  BY InitIInv, NextIInv, <1>1, PTL DEF Spec

\* A replay never changes the sequences it replays (BLESUL.py:174-175, 502-503).
THEOREM ReplayKeepsSequenceCorrect == Spec => ReplayKeepsSequence
<1>1. IInv /\ [Next]_vars => [is_retry_running => UNCHANGED <<seq_in, seq_out>>]_vars
  <2> SUFFICES ASSUME IInv, Next, is_retry_running PROVE UNCHANGED <<seq_in, seq_out>>
    BY DEF vars
  <2>1. pc \notin {"idle", "ready"}
    BY DEF IInv, QueryInv, ReadyInv, Loc
  <2> USE DEF retry_vars
  <2>2. CASE Learner
    BY <2>1, <2>2 DEF Learner, StartQuery, Step, post, close
  <2>3. CASE Reset
    BY <2>3 DEF Reset, pre, reset, ScanRequest, ScanRspReceived, ScanAnswered,
       ScanTimedOut, ScanExhausted
  <2>4. CASE ResetDevice
    BY <2>4 DEF ResetDevice, ResetWithoutCmd, CloseForReset, ResetCmdSucceeds,
       ResetCmdFails, ReopenSucceeds, ReopenFails, ConfigFails
  <2>5. CASE Exchange
    BY <2>5 DEF Exchange, RawReceived, ReadBlocks, StepAnswered
  <2>6. CASE Retry
    BY <2>6 DEF Retry, RetryAttempt, Replay, RetryAgain, RetryReturns
  <2> QED
    BY <2>2, <2>3, <2>4, <2>5, <2>6 DEF Next
<1> QED
  BY InitIInv, NextIInv, <1>1, PTL DEF Spec, ReplayKeepsSequence
-----------------------------------------------------------------------------
(* The port, the sanity check and the suspicious answers                   *)

\* The port is closed only inside reset_device() with a command.
PortInv ==
  /\ PortOpenWhenUsed
  /\ pc = "reset_device" => port = "open"
  /\ pc \in {"run_cmd", "reopen"} => reset_cmd

\* A reset in the middle of receive() is due to a Raw packet.
CheckInv ==
  /\ Loc \in {"ready", "replay", "receive"} => checked \/ dirty
  /\ Loc = "scan_receive" /\ scan_rsp => checked \/ dirty
  /\ pc \in {"reset_device", "run_cmd", "reopen"} =>
       (ret \in {"receive", "scan_receive"} => dirty)

LEMMA PortStep ==
  ASSUME RetInv, PortInv, [Next]_vars
  PROVE  PortInv'
<1> USE DEF PortInv, PortOpenWhenUsed, RetInv, Callers, driver_vars, CallResetDevice
<1>1. CASE Learner
  BY <1>1 DEF Learner, StartQuery, Step, post, close
<1>2. CASE Reset
  BY <1>2 DEF Reset, pre, reset, ScanRequest, ScanRspReceived, ScanAnswered,
     ScanTimedOut, ScanExhausted
<1>3. CASE ResetDevice
  BY <1>3 DEF ResetDevice, ResetWithoutCmd, CloseForReset, ResetCmdSucceeds,
     ResetCmdFails, ReopenSucceeds, ReopenFails, ConfigFails
<1>4. CASE Exchange
  BY <1>4 DEF Exchange, RawReceived, ReadBlocks, StepAnswered
<1>5. CASE Retry
  BY <1>5 DEF Retry, RetryAttempt, Replay, RetryAgain, RetryReturns, Verdict
<1>6. CASE UNCHANGED vars
  BY <1>6 DEF vars
<1> QED
  BY <1>1, <1>2, <1>3, <1>4, <1>5, <1>6 DEF Next

LEMMA CheckStep ==
  ASSUME RetInv, CheckInv, [Next]_vars
  PROVE  CheckInv'
<1> USE DEF CheckInv, Loc, RetInv, Callers, scan_vars, CallResetDevice
<1>1. CASE Learner
  BY <1>1 DEF Learner, StartQuery, Step, post, close
<1>2. CASE Reset
  BY <1>2 DEF Reset, pre, reset, ScanRequest, ScanRspReceived, ScanAnswered,
     ScanTimedOut, ScanExhausted
<1>3. CASE ResetDevice
  <2>1. CASE ResetWithoutCmd \/ ReopenSucceeds
    BY <2>1 DEF ResetWithoutCmd, ReopenSucceeds
  <2>2. CASE CloseForReset \/ ReopenFails \/ ConfigFails
    BY <2>2 DEF CloseForReset, ReopenFails, ConfigFails
  <2>3. CASE ResetCmdSucceeds
    BY <2>3 DEF ResetCmdSucceeds
  <2>4. CASE ResetCmdFails
    BY <2>4 DEF ResetCmdFails
  <2> QED
    BY <1>3, <2>1, <2>2, <2>3, <2>4 DEF ResetDevice
<1>4. CASE Exchange
  BY <1>4 DEF Exchange, RawReceived, ReadBlocks, StepAnswered
<1>5. CASE Retry
  BY <1>5 DEF Retry, RetryAttempt, Replay, RetryAgain, RetryReturns, Verdict
<1>6. CASE UNCHANGED vars
  BY <1>6 DEF vars
<1> QED
  BY <1>1, <1>2, <1>3, <1>4, <1>5, <1>6 DEF Next

LEMMA SuspiciousStep ==
  ASSUME IInv, SuspiciousOnlyIfExhausted, [Next]_vars
  PROVE  SuspiciousOnlyIfExhausted'
<1> USE DEF SuspiciousOnlyIfExhausted, is_last_sym_suspicious, query_vars,
        seq_vars, retry_vars
<1>1. CASE Learner
  BY <1>1 DEF Learner, StartQuery, Step, post, close
<1>2. CASE Reset
  <2>1. CASE ScanAnswered
    BY <2>1 DEF ScanAnswered, IInv, QueryInv, SetupInv, Loc
  <2>2. CASE pre \/ reset \/ ScanRequest \/ ScanRspReceived \/ ScanTimedOut
             \/ ScanExhausted
    BY <2>2 DEF pre, reset, ScanRequest, ScanRspReceived, ScanTimedOut,
       ScanExhausted, CallResetDevice
  <2> QED
    BY <1>2, <2>1, <2>2 DEF Reset
<1>3. CASE ResetDevice
  BY <1>3 DEF ResetDevice, ResetWithoutCmd, CloseForReset, ResetCmdSucceeds,
     ResetCmdFails, ReopenSucceeds, ReopenFails, ConfigFails,
     IInv, QueryInv, RetInv, Callers
<1>4. CASE Exchange
  BY <1>4 DEF Exchange, RawReceived, ReadBlocks, StepAnswered, CallResetDevice
<1>5. CASE Retry
  <2>1. CASE RetryReturns
    <3>1. attempt >= RetrySuspicious \/ gave_up'
            \/ ~is_last_sym_suspicious(input_sequence, output_sequence)
      BY <2>1 DEF RetryReturns
    <3> QED
      BY <2>1, <3>1 DEF RetryReturns
  <2>2. CASE RetryAttempt \/ Replay \/ RetryAgain
    BY <2>2 DEF RetryAttempt, CallResetDevice, Replay, RetryAgain
  <2> QED
    BY <1>5, <2>1, <2>2 DEF Retry
<1>6. CASE UNCHANGED vars
  BY <1>6 DEF vars
<1> QED
  BY <1>1, <1>2, <1>3, <1>4, <1>5, <1>6 DEF Next

\* On every way through reset_device() (NRF52_Driver.py:167-193), with and
\* without a reset command, the port is open again before it is used.
THEOREM PortOpenCorrect == Spec => []PortOpenWhenUsed
<1>1. Init => PortInv
  BY DEF Init, PortInv, PortOpenWhenUsed
<1>2. IInv => RetInv
  BY DEF IInv, QueryInv
<1>3. PortInv => PortOpenWhenUsed
  BY DEF PortInv
<1> QED
  BY InitIInv, NextIInv, PortStep, <1>1, <1>2, <1>3, PTL DEF Spec

\* No symbol is sent to a device that has not passed the sanity check of
\* reset() (BLESUL.py:177-189) since it was last reset, Raw packets aside.
THEOREM CheckedDeviceCorrect == Spec => []SentToCheckedDevice
<1>1. Init => CheckInv
  BY DEF Init, CheckInv, Loc
<1>2. IInv => RetInv
  BY DEF IInv, QueryInv
<1>3. CheckInv => SentToCheckedDevice
  BY DEF CheckInv, SentToCheckedDevice, Loc
<1> QED
  BY InitIInv, NextIInv, CheckStep, <1>1, <1>2, <1>3, PTL DEF Spec

\* A suspicious answer reaches the learner only after RetrySuspicious replays
\* (BLESUL.py:499-542), whatever rule the flavour has.
THEOREM SuspiciousCorrect == Spec => []SuspiciousOnlyIfExhausted
<1>1. Init => SuspiciousOnlyIfExhausted
  BY DEF Init, SuspiciousOnlyIfExhausted
<1> QED
  BY InitIInv, NextIInv, SuspiciousStep, <1>1, PTL DEF Spec

-----------------------------------------------------------------------------
(* The refinement of QuerySpec                                             *)

\* The initial state is that of a session without a query.
LEMMA InitQuery == Init => Query!Init
  BY DEF Init, Query!Init, session

\* Each step of the mapper is a step of the session or is hidden from it.
LEMMA NextQuery ==
  ASSUME IInv, Next
  PROVE  Query!Next \/ UNCHANGED Query!vars
<1> USE DEF Query!vars, session, query_vars
<1>1. CASE Learner
  <2>1. CASE StartQuery
    <3>1. Query!Begin
      BY <2>1 DEF StartQuery, Query!Begin
    <3> QED
      BY <3>1 DEF Query!Next
  <2>2. ASSUME NEW in \in Inputs, Step(in) PROVE Query!Next
    <3>1. Query!Ask(in)
      BY <2>2 DEF Step, Query!Ask, Query!Answered, IInv, QueryInv, ReadyInv
    <3> QED
      BY <3>1 DEF Query!Next
  <2>3. CASE post
    <3>1. Query!End
      BY <2>3 DEF post, Query!End, Query!Answered, IInv, QueryInv, ReadyInv
    <3> QED
      BY <3>1 DEF Query!Next
  <2>4. CASE close
    <3>1. Query!Close
      BY <2>4 DEF close, Query!Close
    <3> QED
      BY <3>1 DEF Query!Next
  <2> QED
    BY <1>1, <2>1, <2>2, <2>3, <2>4 DEF Learner
<1>2. CASE Reset
  <2>1. CASE ScanAnswered
    <3>1. CASE is_retry_running
      BY <2>1, <3>1 DEF ScanAnswered
    <3>2. CASE ~is_retry_running
      <4>1. asked = <<>> /\ reported = <<>>
        BY <2>1, <3>2 DEF ScanAnswered, IInv, QueryInv, SetupInv, Loc
      <4>2. Query!Begun
        BY <2>1, <3>2, <4>1 DEF ScanAnswered, Query!Begun
      <4> QED
        BY <4>2 DEF Query!Next
    <3> QED
      BY <3>1, <3>2
  <2>2. CASE ScanExhausted
    <3>1. Query!Raise
      BY <2>2 DEF ScanExhausted, Query!Raise
    <3> QED
      BY <3>1 DEF Query!Next
  <2>3. CASE pre \/ reset \/ ScanRequest \/ ScanRspReceived \/ ScanTimedOut
    BY <2>3 DEF pre, reset, ScanRequest, ScanRspReceived, ScanTimedOut,
       CallResetDevice
  <2> QED
    BY <1>2, <2>1, <2>2, <2>3 DEF Reset
<1>3. CASE ResetDevice
  <2>1. CASE ResetCmdFails
    <3>1. Query!Raise
      BY <2>1 DEF ResetCmdFails, Query!Raise
    <3> QED
      BY <3>1 DEF Query!Next
  <2>2. CASE ResetWithoutCmd \/ ReopenSucceeds
    <3>1. ret \in Callers
      BY <2>2 DEF ResetWithoutCmd, ReopenSucceeds, IInv, QueryInv, RetInv
    <3> QED
      BY <2>2, <3>1 DEF ResetWithoutCmd, ReopenSucceeds, Callers
  <2>3. CASE CloseForReset \/ ResetCmdSucceeds \/ ReopenFails \/ ConfigFails
    BY <2>3 DEF CloseForReset, ResetCmdSucceeds, ReopenFails, ConfigFails
  <2> QED
    BY <1>3, <2>1, <2>2, <2>3 DEF ResetDevice
<1>4. CASE Exchange
  <2>1. CASE RawReceived \/ ReadBlocks
    BY <2>1 DEF RawReceived, ReadBlocks, CallResetDevice
  <2>2. ASSUME NEW out \in Outputs, StepAnswered(out)
        PROVE  Query!Next \/ UNCHANGED Query!vars
    <3>1. CASE pc' = "ready"
      <4>1. Len(reported) + 1 = Len(asked)
        BY <2>2, <3>1 DEF StepAnswered, IInv, QueryInv, StepInv, Loc, TypeOK,
           ControlType, SequenceType
      <4>2. Query!Answer(filter_symbol(out))
        BY <2>2, <3>1, <4>1 DEF StepAnswered, Query!Answer
      <4> QED
        BY <4>2 DEF Query!Next
    <3>2. CASE pc' \in {"retry", "replay"}
      BY <2>2, <3>2 DEF StepAnswered
    <3> QED
      BY <2>2, <3>1, <3>2 DEF StepAnswered
  <2> QED
    BY <1>4, <2>1, <2>2 DEF Exchange
<1>5. CASE Retry
  <2>1. CASE RetryReturns
    <3>1. Len(reported) + 1 = Len(asked) /\ Len(output_sequence) = Len(asked)
      BY <2>1 DEF RetryReturns, Verdict, IInv, QueryInv, RetryInv, TypeOK,
         SequenceType
    <3>2. Last(output_sequence) \in Outputs
      BY <3>1, FrontLast DEF IInv, TypeOK, SequenceType
    <3>3. Query!Answer(filter_symbol(Last(output_sequence)))
      BY <2>1, <3>1 DEF RetryReturns, Verdict, Query!Answer
    <3> QED
      BY <3>2, <3>3 DEF Query!Next
  <2>2. CASE RetryAttempt \/ Replay \/ RetryAgain
    BY <2>2 DEF RetryAttempt, CallResetDevice, Replay, RetryAgain, Verdict
  <2> QED
    BY <1>5, <2>1, <2>2 DEF Retry
<1> QED
  BY <1>1, <1>2, <1>3, <1>4, <1>5 DEF Next

\* The mapper implements QuerySpec: replays and reconnections
\* (BLESUL.py:143-189, 499-542) are invisible to the learner, who gets one
\* filtered answer for each symbol and never a revised one.
THEOREM QueryImplemented == Spec => ImplementsQuery
<1>1. IInv /\ [Next]_vars => [Query!Next]_(Query!vars)
  <2> SUFFICES ASSUME IInv, [Next]_vars PROVE Query!Next \/ UNCHANGED Query!vars
    OBVIOUS
  <2>1. CASE Next
    BY <2>1, NextQuery
  <2>2. CASE UNCHANGED vars
    BY <2>2 DEF vars, Query!vars, session, query_vars
  <2> QED
    BY <2>1, <2>2
<1> QED
  BY InitIInv, NextIInv, InitQuery, <1>1, PTL DEF Spec, ImplementsQuery, Query!Spec

=============================================================================
