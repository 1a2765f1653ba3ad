----------------------------- MODULE ToolBatch -----------------------------
(***************************************************************************)
(* What executeToolCalls (packages/core/agent-loop/src/tool-calls.ts)      *)
(* promises the step that calls it, and all that AgentDriver assumes of    *)
(* it: `tool/call' and `tool/result' events are appended in model order,   *)
(* each call has at most one result and only after its call, a normal      *)
(* return (cancelled or not) leaves no call without its pair, and only a   *)
(* scheduler failure may leave the pairs incomplete.                       *)
(***************************************************************************)
EXTENDS Integers, Sequences

CONSTANT N        \* tool calls in the assistant message; call i is the i-th

VARIABLES called,   \* tool/call events appended: those of calls 1..called
          results,  \* the calls of the tool/result events, in log order
          outcome   \* "open", "returned" or "thrown"

vars == <<called, results, outcome>>

Init == called = 0 /\ results = <<>> /\ outcome = "open"

Call == /\ outcome = "open" /\ called < N
        /\ called' = called + 1
        /\ UNCHANGED <<results, outcome>>

Answer == /\ outcome = "open" /\ Len(results) < called
          /\ results' = Append(results, Len(results) + 1)
          /\ UNCHANGED <<called, outcome>>

Return == /\ outcome = "open" /\ called = N /\ Len(results) = N
          /\ outcome' = "returned"
          /\ UNCHANGED <<called, results>>

Throw == /\ outcome = "open"
         /\ outcome' = "thrown"
         /\ UNCHANGED <<called, results>>

(* The failure may come out of the append of the last result itself. *)
Next == Call \/ Answer \/ Return \/ Throw

Spec == Init /\ [][Next]_vars
=============================================================================
