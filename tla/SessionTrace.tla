---------------------------- MODULE SessionTrace ----------------------------
(***************************************************************************)
(* What a durable session log promises: the grammar of turn, step, tool    *)
(* and request events, as accepted by the runtime checker in               *)
(* packages/core/session/src/invariant.ts.  `Allowed' is validateEvent,    *)
(* `Apply' is applyTransition.  The number 0 stands for null.              *)
(*                                                                         *)
(* A tool/result has three forms there: the answer to a recorded call, the *)
(* synthetic answer of crash repair to a call that never started           *)
(* ("tool/not-started"), and a later surface replacement of an answer      *)
(* ("tool/replaced").                                                      *)
(*                                                                         *)
(* The variable `last' is the event most recently appended: a log that     *)
(* repeats or misplaces an event shows it in `last' even when the          *)
(* bookkeeping of `trace' does not change.                                 *)
(***************************************************************************)
EXTENDS Integers

CONSTANT Calls   \* identities of the tool calls a step may carry

VARIABLES trace, last

NoEvent == [type |-> "none", turn |-> 0, step |-> 0, calls |-> {}]

Event(type, turn, step) == [type |-> type, turn |-> turn, step |-> step, calls |-> {}]

CallEvent(type, turn, step, c) ==
    [type |-> type, turn |-> turn, step |-> step, calls |-> {c}]

StepEventTypes == {"step/end", "assistant/chunk", "assistant/message", "tool/call"}

EventTypes == {"turn/start", "turn/end", "step/start", "tool/result", "tool/not-started",
               "tool/replaced", "request/header"} \cup StepEventTypes

Events == [type: EventTypes, turn: Nat, step: Nat, calls: SUBSET Calls]

Fresh == [openTurn |-> 0, openStep |-> 0, nextTurn |-> 1, nextStep |-> 1,
          pending |-> {}]

Traces == [openTurn: Nat, openStep: Nat, nextTurn: Nat, nextStep: Nat,
           pending: SUBSET Calls]

NamesOpenStep(t, e) ==
    e.step # 0 /\ t.openTurn = e.turn /\ t.openStep = e.step

(* Turns and steps are numbered from 1: no event can name the null 0. *)
Allowed(t, e) ==
    /\ e.turn # 0
    /\ e.type = "turn/start"  => t.openTurn = 0 /\ e.turn = t.nextTurn
    /\ e.type = "turn/end"    => t.openTurn = e.turn /\ t.openStep = 0
    /\ e.type = "step/start"  => /\ t.openTurn = e.turn
                                 /\ t.openStep = 0
                                 /\ e.step = t.nextStep
    /\ e.type \in StepEventTypes => NamesOpenStep(t, e)
    /\ e.type = "tool/result" => NamesOpenStep(t, e) /\ e.calls \subseteq t.pending
    /\ e.type = "tool/not-started" => NamesOpenStep(t, e)
    /\ e.type \in {"request/header", "tool/replaced"} => t.openTurn # 0

Apply(t, e) ==
    CASE e.type = "turn/start"  -> [t EXCEPT !.openTurn = e.turn, !.nextStep = 1]
      [] e.type = "turn/end"    -> [t EXCEPT !.openTurn = 0, !.nextTurn = @ + 1]
      [] e.type = "step/start"  -> [t EXCEPT !.openStep = e.step]
      [] e.type = "step/end"    -> [t EXCEPT !.openStep = 0, !.nextStep = @ + 1,
                                             !.pending = {}]
      [] e.type = "tool/call"   -> [t EXCEPT !.pending = @ \cup e.calls]
      [] e.type \in {"tool/result", "tool/not-started"} -> [t EXCEPT !.pending = @ \ e.calls]
      [] OTHER                  -> t

Init == trace = Fresh /\ last = NoEvent

Append(e) == /\ e \in Events
             /\ Allowed(trace, e)
             /\ trace' = Apply(trace, e)
             /\ last' = e

Next == Append(last')

Spec == Init /\ [][Next]_<<trace, last>>
=============================================================================
