----------------------------- MODULE TurnRepair -----------------------------
(***************************************************************************)
(* Crash repair of a session log (packages/core/session/src/repair.ts):    *)
(* from a log cut short anywhere, the synthetic events that answer its     *)
(* open calls and close its open step and turn.                            *)
(*                                                                         *)
(* Calls are numbered in model order, the insertion order of the code's    *)
(* map, and a call belongs to the open step, as the grammar demands.       *)
(***************************************************************************)
EXTENDS Integers, Sequences, SequencesExt

CONSTANT MaxCalls   \* bound: tool calls of one behaviour

ASSUME MaxCallsAssumption == MaxCalls \in Nat

Calls == 1 .. MaxCalls

\* Only the constant operators of the grammar are used here.
Grammar == INSTANCE SessionTrace WITH trace <- 0, last <- 0

Event(type, turn, step) == Grammar!Event(type, turn, step)
CallEvent(type, turn, step, c) == Grammar!CallEvent(type, turn, step, c)
Message(turn, step, calls) ==
  [Event("assistant/message", turn, step) EXCEPT !.calls = calls]

Balanced == [turn |-> 0, step |-> 0, pending |-> {}, recorded |-> {}]

(* Mutant: a call keeps pending after its result. *)
ScanEvent_KeepsAnswered(s, e) ==
  CASE e.type = "turn/start" -> [Balanced EXCEPT !.turn = e.turn]
    [] e.type = "turn/end"   -> Balanced
    [] e.type = "step/start" -> [s EXCEPT !.step = e.step]
    [] e.type = "step/end"   -> [Balanced EXCEPT !.turn = s.turn]
    [] e.type = "assistant/message" -> [s EXCEPT !.pending = @ \cup e.calls]
    [] e.type = "tool/call"  -> [s EXCEPT !.recorded = @ \cup e.calls]
    [] OTHER -> s

\* The loop over the log: the open turn and step, the calls still to answer,
\* and those of them with a recorded start.
ScanEvent(s, e) ==
  CASE e.type = "turn/start" -> [Balanced EXCEPT !.turn = e.turn]
    [] e.type = "turn/end"   -> Balanced
    [] e.type = "step/start" -> [s EXCEPT !.step = e.step]
    [] e.type = "step/end"   -> [Balanced EXCEPT !.turn = s.turn]
    [] e.type = "assistant/message" ->
         [s EXCEPT !.pending = @ \cup e.calls, !.recorded = @ \ e.calls]
    [] e.type = "tool/call"  ->
         [s EXCEPT !.recorded = @ \cup (e.calls \cap s.pending)]
    [] e.type \in {"tool/result", "tool/not-started", "tool/replaced"} ->
         [s EXCEPT !.pending = @ \ e.calls, !.recorded = @ \ e.calls]
    [] OTHER -> s

RepairScan(log) == FoldLeft(ScanEvent, Balanced, log)

\* A call with no recorded start never ran; the outcome of any other is unknown.
Answer(s, c) ==
  CallEvent(IF c \in s.recorded THEN "tool/result" ELSE "tool/not-started",
            s.turn, s.step, c)

(* Mutant: the open step is not closed before its turn. *)
interruptedTurnClosers_StepLeftOpen(log) ==
  LET s == RepairScan(log) IN
  IF s.turn = 0 THEN <<>>
  ELSE Append([i \in 1 .. 0 |-> i], Event("turn/end", s.turn, 0))

\* Calls in model order, the insertion order of the code's map.
InOrder(calls) ==
  CHOOSE order \in [1 .. Cardinality(calls) -> calls] :
    \A i, j \in DOMAIN order : i < j => order[i] < order[j]

interruptedTurnClosers(log) ==
  LET s == RepairScan(log)
      order == InOrder(s.pending)
      answers == [i \in DOMAIN order |-> Answer(s, order[i])]
      stepEnd == IF s.step = 0 THEN <<>> ELSE <<Event("step/end", s.turn, s.step)>>
  IN IF s.turn = 0 THEN <<>>
     ELSE answers \o stepEnd \o <<Event("turn/end", s.turn, 0)>>

-----------------------------------------------------------------------------
\* The grammar's state after a log, and whether it allowed every event.
Follow(s, e) == [ok |-> s.ok /\ Grammar!Allowed(s.trace, e),
                 trace |-> Grammar!Apply(s.trace, e)]
Replay(log) == FoldLeft(Follow, [ok |-> TRUE, trace |-> Grammar!Fresh], log)
=============================================================================
