------------------------------- MODULE BLESUL -------------------------------
(***************************************************************************)
(* The query engine of the mapper (py/BLESUL.py): pre/step/post as the     *)
(* learner calls them, reset() with its scan-request sanity check,         *)
(* reset_device() of the serial driver, and retry_sequence(), which        *)
(* replays a query whose last answer a flavour of the mapper finds         *)
(* suspicious.                                                             *)
(*                                                                         *)
(* An output symbol such as 'LL_DATA+SM_PAIRING_RSP' is the set of the     *)
(* symbols joined by '+'; NORESPONSE is the empty set.  The peripheral is  *)
(* unconstrained: any exchange may produce any member of Outputs.          *)
(***************************************************************************)
EXTENDS Naturals, SequencesExt

CONSTANTS
  Inputs,             \* input symbols of the learner's alphabet
  Outputs,            \* what one exchange can return: sets of symbols
  Filters,            \* output_symbol_filters
  IsSuspicious(_, _), \* is_last_sym_suspicious of a flavour
  ScanTries,          \* scan requests reset() makes before it raises (32)
  ScanResetFrom,      \* index of the first scan failure that resets (28)
  RetryResetFrom,     \* retry attempt from which the device is reset (4)
  RetrySuspicious,    \* attempts that may still look suspicious (6)
  RetryMax,           \* attempts in all (7)
  PeriodicReset,      \* the flavour resets the device every 8 h in pre()
  MaxRaw,             \* bound: Raw packets in one receive()
  MaxLen              \* bound: symbols in one query

ASSUME BLESULAssumption ==
  /\ \A out \in Outputs : out \ Filters \in Outputs
  /\ ScanTries \in Nat \ {0}
  /\ ScanResetFrom \in Nat
  /\ RetryResetFrom \in Nat
  /\ RetryMax \in Nat \ {0}
  /\ RetrySuspicious \in 0 .. RetryMax
  /\ PeriodicReset \in BOOLEAN
  /\ MaxRaw \in Nat
  /\ MaxLen \in Nat

VARIABLES
  pc,               \* where the interpreter thread is
  ret,              \* where reset_device() returns to, "idle" outside it
  scan_i,           \* i of the loop in reset()
  scan_rsp,         \* a BTLE_SCAN_RSP is among the packets received
  raws,             \* Raw packets seen by the running receive()
  sym,              \* input symbol of the running exchange
  input_sequence,   \* self.input_sequence
  output_sequence,  \* self.output_sequence
  is_retry_running, \* self.is_retry_running
  attempt,          \* attempts retry_sequence() made for the last symbol
  seq_in, seq_out,  \* the sequences retry_sequence() works from
  port,             \* the serial port of the driver
  reset_cmd,        \* the driver has a reset command (NRF52.reset_cmd)
  checked,          \* the device answered a scan request since its last reset
  dirty,            \* a Raw packet reset the device since reset() began
  asked, reported,  \* learner: symbols of this query and their answers
  gave_up           \* retry_sequence() could not recover in this query

scan_vars  == <<scan_i, scan_rsp>>
seq_vars   == <<input_sequence, output_sequence>>
retry_vars == <<is_retry_running, attempt, seq_in, seq_out>>
query_vars == <<asked, reported, gave_up>>
driver_vars == <<port, reset_cmd>>
vars == <<pc, ret, scan_vars, raws, sym, seq_vars, retry_vars, driver_vars,
          checked, dirty, query_vars>>

Locations == {"idle", "pre", "reset", "scan", "scan_receive", "ready", "receive",
              "blocked", "retry", "replay", "reset_device", "run_cmd", "reopen",
              "raised", "closed"}

\* filter_symbol(): the symbol without the filtered parts
filter_symbol(out) == out \ Filters

filter_sequence(s) == [k \in 1 .. Len(s) |-> filter_symbol(s[k])]

-----------------------------------------------------------------------------
(* The learner (SulBLE.java and ProtocolState-Fuzzer) drives pre, step,    *)
(* post and, at the end or after an exception, close.                      *)

Init ==
  /\ pc = "idle" /\ ret = "idle"
  /\ scan_i = 0 /\ scan_rsp = FALSE /\ raws = 0
  /\ sym \in Inputs
  /\ input_sequence = <<>> /\ output_sequence = <<>>
  /\ is_retry_running = FALSE /\ attempt = 0
  /\ seq_in = <<>> /\ seq_out = <<>>
  /\ port = "open" /\ reset_cmd \in BOOLEAN
  /\ checked = FALSE /\ dirty = FALSE
  /\ asked = <<>> /\ reported = <<>> /\ gave_up = FALSE

StartQuery ==
  /\ pc = "idle"
  /\ pc' = "pre"
  /\ asked' = <<>> /\ reported' = <<>> /\ gave_up' = FALSE
  /\ attempt' = 0 /\ seq_in' = <<>> /\ seq_out' = <<>>
  /\ UNCHANGED <<ret, scan_vars, raws, sym, seq_vars, is_retry_running,
                 driver_vars, checked, dirty>>

\* step(): the request is sent, receive() begins
Step(in) ==
  /\ pc = "ready" /\ Len(asked) < MaxLen
  /\ pc' = "receive" /\ sym' = in /\ raws' = 0
  /\ asked' = Append(asked, in)
  /\ attempt' = 0 /\ seq_in' = <<>> /\ seq_out' = <<>>
  /\ UNCHANGED <<ret, scan_vars, seq_vars, is_retry_running, driver_vars,
                 checked, dirty, reported, gave_up>>

post ==
  /\ pc = "ready"
  /\ pc' = "idle"
  /\ UNCHANGED <<ret, scan_vars, raws, sym, seq_vars, retry_vars, driver_vars,
                 checked, dirty, query_vars>>

close ==
  /\ pc \in {"idle", "raised"}
  /\ pc' = "closed" /\ port' = "closed"
  /\ UNCHANGED <<ret, scan_vars, raws, sym, seq_vars, retry_vars, checked,
                 dirty, query_vars, reset_cmd>>

-----------------------------------------------------------------------------
(* reset(): a new connection, proven to work by a scan response.           *)

CallResetDevice(from) == pc' = "reset_device" /\ ret' = from

\* pre(): the nRF52840 flavour resets the device when 8 h have passed
pre ==
  /\ pc = "pre"
  /\ \/ pc' = "reset" /\ UNCHANGED ret
     \/ PeriodicReset /\ CallResetDevice("reset")
  /\ UNCHANGED <<scan_vars, raws, sym, seq_vars, retry_vars, driver_vars,
                 checked, dirty, query_vars>>

\* Variant of reset: the lists are cleared in place, so seq_in is cleared too.
reset_clears_in_place ==
  /\ pc = "reset"
  /\ pc' = "scan" /\ scan_i' = 0
  /\ input_sequence' = <<>> /\ output_sequence' = <<>>
  /\ seq_in' = <<>> /\ seq_out' = <<>>
  /\ checked' = FALSE /\ dirty' = FALSE
  /\ UNCHANGED <<ret, scan_rsp, raws, sym, is_retry_running, attempt,
                 driver_vars, query_vars>>

\* TERMINATE_IND on the old connection, new addresses, new sequences
reset ==
  /\ pc = "reset"
  /\ pc' = "scan" /\ scan_i' = 0
  /\ input_sequence' = <<>> /\ output_sequence' = <<>>
  /\ checked' = FALSE /\ dirty' = FALSE
  /\ UNCHANGED <<ret, scan_rsp, raws, sym, retry_vars, driver_vars,
                 query_vars>>

ScanRequest ==
  /\ pc = "scan" /\ scan_i < ScanTries
  /\ pc' = "scan_receive" /\ scan_rsp' = FALSE /\ raws' = 0
  /\ UNCHANGED <<ret, scan_i, sym, seq_vars, retry_vars, driver_vars, checked,
                 dirty, query_vars>>

ScanRspReceived ==
  /\ pc = "scan_receive" /\ ~scan_rsp
  /\ scan_rsp' = TRUE /\ checked' = TRUE
  /\ UNCHANGED <<pc, ret, scan_i, raws, sym, seq_vars, retry_vars, driver_vars,
                 dirty, query_vars>>

ScanAnswered ==
  /\ pc = "scan_receive" /\ scan_rsp
  /\ pc' = IF is_retry_running THEN "replay" ELSE "ready"
  /\ UNCHANGED <<ret, scan_vars, raws, sym, seq_vars, retry_vars, driver_vars,
                 checked, dirty, query_vars>>

ScanTimedOut ==
  /\ pc = "scan_receive" /\ ~scan_rsp
  /\ scan_i' = scan_i + 1
  /\ IF scan_i >= ScanResetFrom
       THEN CallResetDevice("scan")
       ELSE pc' = "scan" /\ UNCHANGED ret
  /\ UNCHANGED <<scan_rsp, raws, sym, seq_vars, retry_vars, driver_vars,
                 checked, dirty, query_vars>>

\* Variant of ScanExhausted: the loop ends without raising.
ScanExhausted_falls_through ==
  /\ pc = "scan" /\ scan_i = ScanTries
  /\ pc' = IF is_retry_running THEN "replay" ELSE "ready"
  /\ UNCHANGED <<ret, scan_vars, raws, sym, seq_vars, retry_vars, driver_vars,
                 checked, dirty, query_vars>>

\* the for-else of reset(): RuntimeError, re-raised by pre() and step()
ScanExhausted ==
  /\ pc = "scan" /\ scan_i = ScanTries
  /\ pc' = "raised"
  /\ UNCHANGED <<ret, scan_vars, raws, sym, seq_vars, retry_vars, driver_vars,
                 checked, dirty, query_vars>>

-----------------------------------------------------------------------------
(* reset_device(): the port is closed, then a loop runs the reset command,  *)
(* opens the port and writes the configuration byte.  A failed command     *)
(* raises; a failed open or write starts the loop over, and only a failed  *)
(* open leaves the port closed.                                            *)

ResetWithoutCmd ==
  /\ pc = "reset_device" /\ ~reset_cmd
  /\ pc' = ret /\ ret' = "idle"
  /\ UNCHANGED <<scan_vars, raws, sym, seq_vars, retry_vars, driver_vars,
                 checked, dirty, query_vars>>

CloseForReset ==
  /\ pc = "reset_device" /\ reset_cmd
  /\ pc' = "run_cmd" /\ port' = "closed"
  /\ UNCHANGED <<ret, scan_vars, raws, sym, seq_vars, retry_vars, checked,
                 dirty, query_vars, reset_cmd>>

ResetCmdSucceeds ==
  /\ pc = "run_cmd"
  /\ pc' = "reopen" /\ checked' = FALSE
  /\ UNCHANGED <<ret, scan_vars, raws, sym, seq_vars, retry_vars, driver_vars,
                 dirty, query_vars>>

ResetCmdFails ==
  /\ pc = "run_cmd"
  /\ pc' = "raised" /\ ret' = "idle"
  /\ UNCHANGED <<scan_vars, raws, sym, seq_vars, retry_vars, driver_vars,
                 checked, dirty, query_vars>>

ReopenSucceeds ==
  /\ pc = "reopen" /\ port = "closed"
  /\ pc' = ret /\ ret' = "idle" /\ port' = "open"
  /\ UNCHANGED <<scan_vars, raws, sym, seq_vars, retry_vars, checked,
                 dirty, query_vars, reset_cmd>>

\* Variant of ReopenFails: the exception is swallowed and the loop left.
ReopenFails_gives_up ==
  /\ pc = "reopen"
  /\ pc' = ret /\ ret' = "idle"
  /\ UNCHANGED <<scan_vars, raws, sym, seq_vars, retry_vars, driver_vars,
                 checked, dirty, query_vars>>

\* serial.open() raises, as it always does on a port that is open already
ReopenFails ==
  /\ pc = "reopen"
  /\ pc' = "run_cmd"
  /\ UNCHANGED <<ret, scan_vars, raws, sym, seq_vars, retry_vars, driver_vars,
                 checked, dirty, query_vars>>

\* the port is open, but set_log_tx(0) raises
ConfigFails ==
  /\ pc = "reopen" /\ port = "closed"
  /\ pc' = "run_cmd" /\ port' = "open"
  /\ UNCHANGED <<ret, scan_vars, raws, sym, seq_vars, retry_vars, checked,
                 dirty, query_vars, reset_cmd>>

-----------------------------------------------------------------------------
(* step_internal() and retry_sequence()                                    *)

\* receive() met a packet it cannot parse and resets the device in its middle
RawReceived ==
  /\ pc \in {"receive", "scan_receive"} /\ raws < MaxRaw
  /\ raws' = raws + 1 /\ dirty' = TRUE
  /\ CallResetDevice(pc)
  /\ UNCHANGED <<scan_vars, sym, seq_vars, retry_vars, driver_vars, checked,
                 query_vars>>

\* raw_receive() read the first byte of a message and waits without a timeout
\* for the rest of it, which never comes
ReadBlocks ==
  /\ pc \in {"receive", "scan_receive"}
  /\ pc' = "blocked"
  /\ UNCHANGED <<ret, scan_vars, raws, sym, seq_vars, retry_vars, driver_vars,
                 checked, dirty, query_vars>>

\* is_last_sym_suspicious() on given values of the two sequences
is_last_sym_suspicious(ins, outs) == IsSuspicious(ins, outs)

StepAnswered(out) ==
  /\ pc = "receive"
  /\ input_sequence' = Append(input_sequence, sym)
  /\ output_sequence' = Append(output_sequence, out)
  /\ \/ /\ is_retry_running
        /\ pc' = "replay"
        /\ UNCHANGED <<seq_in, seq_out, reported>>
     \/ /\ ~is_retry_running
        /\ is_last_sym_suspicious(input_sequence', output_sequence')
        /\ pc' = "retry"
        /\ seq_in' = input_sequence' /\ seq_out' = output_sequence'
        /\ UNCHANGED reported
     \/ /\ ~is_retry_running
        /\ ~is_last_sym_suspicious(input_sequence', output_sequence')
        /\ pc' = "ready"
        /\ reported' = Append(reported, filter_symbol(out))
        /\ UNCHANGED <<seq_in, seq_out>>
  /\ UNCHANGED <<ret, scan_vars, raws, sym, is_retry_running, attempt,
                 driver_vars, checked, dirty, asked, gave_up>>

\* Variant of RetryAttempt: the attempts are not counted.
RetryAttempt_uncounted ==
  /\ pc = "retry"
  /\ is_retry_running' = TRUE
  /\ pc' = "pre"
  /\ UNCHANGED <<ret, scan_vars, raws, sym, seq_vars, attempt, seq_in, seq_out,
                 driver_vars, checked, dirty, query_vars>>

\* Variant of RetryAttempt: is_retry_running is not set.
RetryAttempt_unflagged ==
  /\ pc = "retry"
  /\ attempt' = attempt + 1
  /\ IF attempt + 1 >= RetryResetFrom
       THEN CallResetDevice("pre")
       ELSE pc' = "pre" /\ UNCHANGED ret
  /\ UNCHANGED <<scan_vars, raws, sym, seq_vars, is_retry_running, seq_in,
                 seq_out, driver_vars, checked, dirty, query_vars>>

\* the head of the loop: from RetryResetFrom on the device is reset first
RetryAttempt ==
  /\ pc = "retry"
  /\ attempt' = attempt + 1
  /\ is_retry_running' = TRUE
  /\ IF attempt + 1 >= RetryResetFrom
       THEN CallResetDevice("pre")
       ELSE pc' = "pre" /\ UNCHANGED ret
  /\ UNCHANGED <<scan_vars, raws, sym, seq_vars, seq_in, seq_out, driver_vars,
                 checked, dirty, query_vars>>

Replay ==
  /\ pc = "replay" /\ Len(input_sequence) < Len(seq_in)
  /\ pc' = "receive" /\ raws' = 0
  /\ sym' = seq_in[Len(input_sequence) + 1]
  /\ UNCHANGED <<ret, scan_vars, seq_vars, retry_vars, driver_vars, checked,
                 dirty, query_vars>>

\* Variant of SamePrefix: the earlier answers are not compared.
SamePrefix_unchecked == Len(seq_out) = Len(output_sequence)

\* the replay met the same answers up to the last one
SamePrefix ==
  filter_sequence(Front(seq_out)) = filter_sequence(Front(output_sequence))

Verdict ==
  pc = "replay" /\ Len(input_sequence) = Len(seq_in)

\* Variant of RetryAgain: no last attempt after a diverging prefix.
RetryAgain_unbounded ==
  /\ Verdict
  /\ \/ ~SamePrefix
     \/ /\ SamePrefix /\ attempt < RetrySuspicious
        /\ is_last_sym_suspicious(input_sequence, output_sequence)
  /\ pc' = "retry"
  /\ UNCHANGED <<ret, scan_vars, raws, sym, seq_vars, retry_vars, driver_vars,
                 checked, dirty, query_vars>>

RetryAgain ==
  /\ Verdict
  /\ \/ ~SamePrefix /\ attempt < RetryMax
     \/ /\ SamePrefix /\ attempt < RetrySuspicious
        /\ is_last_sym_suspicious(input_sequence, output_sequence)
  /\ pc' = "retry"
  /\ UNCHANGED <<ret, scan_vars, raws, sym, seq_vars, retry_vars, driver_vars,
                 checked, dirty, query_vars>>

\* Variant of RetryReturns: one attempt too few.
RetryReturns_early ==
  /\ Verdict
  /\ \/ ~SamePrefix /\ attempt >= RetryMax
     \/ /\ SamePrefix
        /\ \/ attempt + 1 >= RetrySuspicious
           \/ ~is_last_sym_suspicious(input_sequence, output_sequence)
  /\ is_retry_running' = FALSE
  /\ reported' = Append(reported, filter_symbol(Last(output_sequence)))
  /\ gave_up' = (gave_up \/ ~SamePrefix)
  /\ pc' = "ready"
  /\ UNCHANGED <<ret, scan_vars, raws, sym, seq_vars, attempt, seq_in, seq_out,
                 driver_vars, checked, dirty, asked>>

\* the loop breaks: an alternative was found, or the attempts are used up
RetryReturns ==
  /\ Verdict
  /\ \/ ~SamePrefix /\ attempt >= RetryMax
     \/ /\ SamePrefix
        /\ \/ attempt >= RetrySuspicious
           \/ ~is_last_sym_suspicious(input_sequence, output_sequence)
  /\ is_retry_running' = FALSE
  /\ reported' = Append(reported, filter_symbol(Last(output_sequence)))
  /\ gave_up' = (gave_up \/ ~SamePrefix)
  /\ pc' = "ready"
  /\ UNCHANGED <<ret, scan_vars, raws, sym, seq_vars, attempt, seq_in, seq_out,
                 driver_vars, checked, dirty, asked>>

-----------------------------------------------------------------------------
Learner == StartQuery \/ (\E in \in Inputs : Step(in)) \/ post \/ close

Reset == pre \/ reset \/ ScanRequest \/ ScanRspReceived \/ ScanAnswered
           \/ ScanTimedOut \/ ScanExhausted

ResetDevice == ResetWithoutCmd \/ CloseForReset \/ ResetCmdSucceeds
                 \/ ResetCmdFails \/ ReopenSucceeds \/ ReopenFails \/ ConfigFails

Exchange == RawReceived \/ ReadBlocks \/ (\E out \in Outputs : StepAnswered(out))

Retry == RetryAttempt \/ Replay \/ RetryAgain \/ RetryReturns

Next == Learner \/ Reset \/ ResetDevice \/ Exchange \/ Retry

Spec == Init /\ [][Next]_vars

\* The interpreter thread keeps running: os.system() returns, and a receive()
\* ends at its time limits or blocks inside a message.
ThreadFairness == WF_vars(Reset \/ ResetDevice \/ Exchange \/ Retry)

\* A closed port that is opened again and again does open and take the
\* configuration byte at some point.
PortFairness == SF_vars(ReopenSucceeds)

FairSpec == Spec /\ ThreadFairness /\ PortFairness

-----------------------------------------------------------------------------
ControlType == pc \in Locations /\ ret \in Locations /\ sym \in Inputs

CounterType ==
  /\ scan_i \in 0 .. ScanTries
  /\ attempt \in 0 .. RetryMax
  /\ raws \in 0 .. MaxRaw

FlagType ==
  /\ scan_rsp \in BOOLEAN /\ is_retry_running \in BOOLEAN
  /\ checked \in BOOLEAN /\ dirty \in BOOLEAN /\ gave_up \in BOOLEAN
  /\ port \in {"open", "closed"} /\ reset_cmd \in BOOLEAN

SequenceType ==
  /\ input_sequence \in Seq(Inputs) /\ output_sequence \in Seq(Outputs)
  /\ seq_in \in Seq(Inputs) /\ seq_out \in Seq(Outputs)
  /\ asked \in Seq(Inputs) /\ reported \in Seq(Outputs)

\* The counters of reset() and retry_sequence() stay within their loops, and
\* every other variable keeps the shape the code gives it.
TypeOK == ControlType /\ CounterType /\ FlagType /\ SequenceType

\* Whenever step() has returned (BLESUL.py:103-141), the sequences the mapper
\* keeps are the query as the learner knows it: the same inputs, and answers
\* that differ at most in filtered symbols - however many replays happened,
\* unless one of them ended in "cannot recover" (line 529).
HistoryConsistent ==
  pc = "ready" =>
    /\ input_sequence = asked
    /\ Len(reported) = Len(asked)
    /\ ~gave_up => filter_sequence(output_sequence) = reported

\* retry_sequence() (lines 499-542) hands a suspicious answer to the learner
\* only when RetrySuspicious replays did not get rid of it.
SuspiciousOnlyIfExhausted ==
  (/\ pc = "ready" /\ asked # <<>> /\ ~gave_up
   /\ is_last_sym_suspicious(input_sequence, output_sequence))
    => attempt >= RetrySuspicious

\* A symbol is only sent to a device that answered a scan request after its
\* last reset (the "sanity check" of lines 177-189), except when receive()
\* itself reset the device on a Raw packet (lines 470-473).
SentToCheckedDevice ==
  pc \in {"ready", "replay", "receive"} => checked \/ dirty

\* The port is open whenever a packet is sent or awaited, on every way back
\* from NRF52.reset_device (NRF52_Driver.py:167-193).
PortOpenWhenUsed ==
  pc \notin {"reset_device", "run_cmd", "reopen", "raised", "closed"}
    => port = "open"

\* A replay works on the sequences of the step that began it: reset() and the
\* replayed steps (lines 174-175, 136-140) never touch them, and a replay
\* never starts a replay of its own.
ReplayKeepsSequence ==
  [][is_retry_running => UNCHANGED <<seq_in, seq_out>>]_vars

\* What the learner sees of the interpreter thread.
session ==
  IF pc = "ready" THEN "open"
  ELSE IF pc \in {"idle", "raised", "closed"} THEN pc ELSE "busy"

Query == INSTANCE QuerySpec WITH
  Symbols <- Inputs, Answers <- {filter_symbol(out) : out \in Outputs}

\* Seen from the learner, pre() and step() (lines 96-110) answer every symbol
\* once, with a filtered answer, and never revise one: the symbols replayed by
\* retry_sequence() and the connections it sets up do not show.
ImplementsQuery == Query!Spec

\* The loop of reset_device() goes round with a port that is already open.
PortStuck == pc \in {"run_cmd", "reopen"} /\ port = "open"

\* Every pre() and step() the learner calls (lines 96-110) returns or raises,
\* with two exceptions the code has: a message that stops in its middle
\* (NRF52_Driver.py:120), and a configuration byte whose write failed behind a
\* successful open (NRF52_Driver.py:183-184).  Replays, resets and failed
\* opens come to an end.
CallsReturn ==
  session = "busy" ~> session # "busy" \/ pc = "blocked" \/ PortStuck

\* The comment at BLESUL.py:500-501: after retry_sequence() the state of the
\* SUL is the same as before, so the run it is in is the one the learner saw.
RetryRestoresState ==
  pc = "ready" => filter_sequence(output_sequence) = reported
=============================================================================
