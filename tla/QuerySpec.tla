----------------------------- MODULE QuerySpec ------------------------------
(***************************************************************************)
(* What the learner may rely on when it drives the mapper through          *)
(* pre/step/post (py/BLESUL.py): a query is a sequence of symbols, every   *)
(* symbol gets one answer before the next is asked, an answer once given   *)
(* stands, and a call ends by returning or raising.  Retries, replays and  *)
(* device resets must not show.                                            *)
(***************************************************************************)
EXTENDS Naturals, Sequences

CONSTANTS
  Symbols,   \* the learner's input alphabet
  Answers    \* the answers, without filtered symbols

VARIABLES
  session,   \* "idle", "busy" in a call, "open" between calls, "raised", "closed"
  asked,     \* the symbols of the query
  reported   \* their answers

vars == <<session, asked, reported>>

Init == session = "idle" /\ asked = <<>> /\ reported = <<>>

Answered == Len(reported) = Len(asked)

\* pre() is called ...
Begin ==
  /\ session = "idle" /\ session' = "busy"
  /\ asked' = <<>> /\ reported' = <<>>

\* ... and returns
Begun ==
  /\ session = "busy" /\ session' = "open"
  /\ asked = <<>> /\ reported = <<>>
  /\ UNCHANGED <<asked, reported>>

\* step() is called ...
Ask(in) ==
  /\ session = "open" /\ session' = "busy"
  /\ Answered
  /\ asked' = Append(asked, in) /\ UNCHANGED reported

\* ... and returns
Answer(out) ==
  /\ session = "busy" /\ session' = "open"
  /\ Len(reported) + 1 = Len(asked)
  /\ reported' = Append(reported, out) /\ UNCHANGED asked

Raise ==
  /\ session = "busy" /\ session' = "raised"
  /\ UNCHANGED <<asked, reported>>

End ==
  /\ session = "open" /\ session' = "idle"
  /\ Answered
  /\ UNCHANGED <<asked, reported>>

Close ==
  /\ session \in {"idle", "raised"} /\ session' = "closed"
  /\ UNCHANGED <<asked, reported>>

Next ==
  \/ Begin \/ Begun \/ Raise \/ End \/ Close
  \/ \E in \in Symbols : Ask(in)
  \/ \E out \in Answers : Answer(out)

Spec == Init /\ [][Next]_vars
=============================================================================
