---------------------------- MODULE AgentDriver ----------------------------
(***************************************************************************)
(* ReactLoopAgent (packages/core/agent-loop/src/agent.ts) with the pending *)
(* queues of its Inbox (packages/core/agent/src/inbox.ts): one driver that *)
(* walks a session through turns and steps, and the callers that send,     *)
(* cancel, edit the queue, run maintenance and dispose while it does.      *)
(*                                                                         *)
(* JavaScript runs to completion, so the unit of interleaving is a segment *)
(* between two awaits.  `pc' names the await (or the session.append) the   *)
(* driver is at.  `stack' holds the synchronous frames that are not yet    *)
(* finished: a listener called from inside send, cancel, or a status       *)
(* change may call back into the agent before its caller's remaining code  *)
(* runs, and the driver cannot resume until the stack is empty.            *)
(*                                                                         *)
(* Every session.append of a turn, step, tool or request event is one step *)
(* of this module (`Append'); none of them consults the grammar of         *)
(* SessionTrace, which the driver is shown to obey.                        *)
(***************************************************************************)
EXTENDS Integers, Sequences

CONSTANTS Msgs,      \* identities of user messages; each is sent at most once
          Calls,     \* identities of the tool calls of one step
          MaxStep,   \* bound: steps the listeners admit to one turn
          MaxDepth,  \* bound: synchronous frames nested by listeners
          MaxJobs    \* bound: maintenance tasks ever run

ASSUME BoundsAssumption == /\ MaxStep \in Nat \ {0}
                           /\ MaxDepth \in Nat
                           /\ MaxJobs \in Nat

VARIABLES
    phase,     \* the Phase record; `turn' is lastTurn while not running
    pc,        \* where the driver is; "none" when there is no driver
    turnEnds,  \* the local turnEnds of turn()
    stepEnd,   \* the outcome of step(), "thrown" when it threw
    batch,     \* the messages claimed for the proposed step
    todo,      \* tool calls of the step that the log does not hold yet
    inbox,     \* Inbox.state
    fate,      \* what the durable log says became of each message
    owner,     \* the turn that claimed a message from the next-turn queue
    stack,     \* unfinished synchronous frames, innermost first
    disposer,  \* the lifecycle's dispose(): "live", "draining", "drained"
    jobs,      \* maintenance tasks started
    trace,     \* the turn/step bookkeeping of the session log
    last       \* the event appended last

driverVars == <<pc, turnEnds, stepEnd, batch, todo>>
inboxVars  == <<inbox, fate, owner>>
logVars    == <<trace, last>>
vars == <<phase, driverVars, inboxVars, stack, disposer, jobs, logVars>>

Log == INSTANCE SessionTrace

Targets == {"next-turn", "next-step"}
Causes  == {"user", "disposed"}
Fates   == {"unsent", "pending", "claimed", "discarded", "delivered"}

(* "rejected", "nothingLeft" and "admitted" are the await of preStep() by    *)
(* turn() after preStep() has settled on that decision, "answered" is the  *)
(* await of step() after it has settled: callers still run in between.     *)
Decided == {"rejected", "nothingLeft", "admitted"}
AwaitPoints == {"preStep", "request", "stream", "requestError", "tools", "answered",
                "turnStopping", "again", "returned"} \cup Decided
AppendPoints == {"opened", "stepped", "closing", "closed"}
Pcs == {"none", "kick"} \cup AwaitPoints \cup AppendPoints

Frames == [op: {"wake"}, after: BOOLEAN] \cup [op: {"clear", "abort"}, cause: Causes]
          \cup [op: {"drive"}] \cup [op: {"replay"}, wake: BOOLEAN]

Phases == [kind: {"idle", "maintenance", "running"}, abort: Causes \cup {"none"},
           wake: BOOLEAN, turn: Nat, step: Nat]

Aborted    == phase.abort # "none"
OnTop(op)  == stack # <<>> /\ Head(stack).op = op
HasPending == inbox["next-turn"] # <<>> \/ inbox["next-step"] # <<>>
Elements(s) == {s[i] : i \in DOMAIN s}

(***************************************************************************)
(* Session appends.                                                        *)
(***************************************************************************)
AppendEvent(e) == trace' = Log!Apply(trace, e) /\ last' = e

AppendTurn(type, turn) == AppendEvent(Log!Event(type, turn, 0))
AppendStep(type)       == AppendEvent(Log!Event(type, phase.turn, phase.step))

(***************************************************************************)
(* Inbox.mutate: a normalized splice of one queue.                         *)
(***************************************************************************)
Insert(m, target) ==
    /\ inbox' = [inbox EXCEPT ![target] = Append(@, m)]
    /\ fate' = [fate EXCEPT ![m] = "pending"]
    /\ UNCHANGED owner

Discard(target, from, to) ==
    LET queue == inbox[target]
    IN  /\ inbox' = [inbox EXCEPT ![target] =
              SubSeq(queue, 1, from - 1) \o SubSeq(queue, to + 1, Len(queue))]
        /\ fate' = [m \in Msgs |-> IF \E i \in from..to : queue[i] = m
                                   THEN "discarded" ELSE fate[m]]
        /\ UNCHANGED owner

(***************************************************************************)
(* wakeDriver over the frames `rest' that remain below it.                 *)
(***************************************************************************)
Idle(turn) == [kind |-> "idle", abort |-> "none", wake |-> FALSE,
               turn |-> turn, step |-> 0]

(* The running status is announced before kick() runs. *)
StartDriver(rest) ==
    /\ phase' = [Idle(phase.turn) EXCEPT !.kind = "running"]
    /\ stack' = <<[op |-> "drive"]>> \o rest
    /\ pc' = "kick"

(* Mutant: every wake of a busy agent is latched, also one its driver will *)
(* meet at the next step boundary.                                         *)
WakeDriver_LatchesAll(after, rest) ==
    \/ /\ phase.kind # "idle"
       /\ phase' = [phase EXCEPT !.wake = @ \/ phase.abort # "disposed"]
       /\ stack' = rest
       /\ UNCHANGED pc
    \/ phase.kind = "idle" /\ StartDriver(rest)

WakeDriver(after, rest) ==
    \/ /\ phase.kind # "idle"
       /\ phase' = [phase EXCEPT !.wake =
             \/ @
             \/ phase.abort # "disposed" /\ (phase.kind = "maintenance" \/ after)]
       /\ stack' = rest
       /\ UNCHANGED pc
    \/ phase.kind = "idle" /\ StartDriver(rest)
-----------------------------------------------------------------------------
(***************************************************************************)
(* Callers.  They run from a task of their own while the driver awaits, or *)
(* from a listener while a frame is on the stack.  A synchronous observer  *)
(* of a session append may not append itself, so all it can complete is a  *)
(* cancel that splices nothing.                                            *)
(***************************************************************************)
AtAwait    == stack = <<>> /\ pc \in AwaitPoints \cup {"none"}
AtListener ==
    \/ stack # <<>> /\ Head(stack).op # "drive"
    \/ pc = "kick" /\ stack # <<>>
    \/ pc = "closing" /\ turnEnds = "error" /\ stack = <<>>
AtObserver ==
    /\ pc \in AppendPoints \ {"closing"}
    /\ stack = <<>> \/ OnTop("drive")

CanCall == Len(stack) < MaxDepth /\ (AtAwait \/ AtListener)

(* Messages are interchangeable: which one is sent next is fixed. *)
NextMessage == CHOOSE m \in Msgs : fate[m] = "unsent"

Send(m, target, wakeup) ==
    /\ CanCall
    /\ fate[m] = "unsent" /\ m = NextMessage
    /\ LET after == wakeup /\ phase.kind # "idle" /\ Aborted
       IN  /\ Insert(m, IF after THEN "next-turn" ELSE target)
           /\ stack' = IF wakeup THEN <<[op |-> "wake", after |-> after]>> \o stack
                       ELSE stack
    /\ UNCHANGED <<phase, driverVars, disposer, jobs, logVars>>

Wake ==
    /\ OnTop("wake")
    /\ WakeDriver(Head(stack).after, Tail(stack))
    /\ UNCHANGED <<turnEnds, stepEnd, batch, todo, inboxVars, disposer, jobs, logVars>>

(* Inbox.remove: the queue editor withdraws one pending message. *)
Remove(m) ==
    /\ CanCall
    /\ \E target \in Targets : \E i \in DOMAIN inbox[target] :
          inbox[target][i] = m /\ Discard(target, i, i)
    /\ UNCHANGED <<phase, driverVars, stack, disposer, jobs, logVars>>

(* Mutant: a later cancel replaces the cause of the first. *)
Abort_LastCause(cause, keep) ==
    phase' = IF phase.kind = "idle" THEN phase
             ELSE [phase EXCEPT !.abort = cause, !.wake = keep /\ @]

(* The tail of cancel(): the first cause to reach the controller stays. *)
Abort(cause, keep) ==
    phase' = IF phase.kind = "idle" THEN phase
             ELSE [phase EXCEPT !.abort = IF @ = "none" THEN cause ELSE @,
                                !.wake  = keep /\ @]

(* clear() of the next-turn queue and the rest of cancel(): the listeners   *)
(* of the discarded messages run before the abort does.                    *)
ClearTurns(cause, rest) ==
    \/ /\ inbox["next-turn"] # <<>>
       /\ Discard("next-turn", 1, Len(inbox["next-turn"]))
       /\ stack' = <<[op |-> "abort", cause |-> cause]>> \o rest
       /\ UNCHANGED phase
    \/ /\ inbox["next-turn"] = <<>>
       /\ Abort(cause, FALSE)
       /\ stack' = rest
       /\ UNCHANGED inboxVars

CancelCall(cause, keep) ==
    \/ keep /\ Abort(cause, TRUE) /\ UNCHANGED <<inboxVars, stack>>
    \/ /\ ~keep /\ inbox["next-step"] # <<>>
       /\ Discard("next-step", 1, Len(inbox["next-step"]))
       /\ stack' = <<[op |-> "clear", cause |-> cause]>> \o stack
       /\ UNCHANGED phase
    \/ ~keep /\ inbox["next-step"] = <<>> /\ ClearTurns(cause, stack)

Cancel(keep) ==
    /\ \/ CanCall
       \/ AtObserver /\ (keep \/ ~HasPending)
    /\ CancelCall("user", keep)
    /\ UNCHANGED <<driverVars, disposer, jobs, logVars>>

CancelResumes ==
    /\ \/ OnTop("clear") /\ ClearTurns(Head(stack).cause, Tail(stack))
       \/ /\ OnTop("abort")
          /\ Abort(Head(stack).cause, FALSE)
          /\ stack' = Tail(stack)
          /\ UNCHANGED inboxVars
    /\ UNCHANGED <<driverVars, disposer, jobs, logVars>>

(* The memoized dispose() of the lifecycle: a disposed-cause cancel, then  *)
(* whenIdle().  An activity promise settles when its driver has left       *)
(* kick(), and whenIdle() follows the promise that replaced it.            *)
Dispose ==
    /\ CanCall /\ disposer = "live"
    /\ disposer' = "draining"
    /\ CancelCall("disposed", FALSE)
    /\ UNCHANGED <<driverVars, jobs, logVars>>

WhenIdleReturns ==
    /\ disposer = "draining"
    /\ stack = <<>> /\ phase.kind = "idle"
    /\ disposer' = "drained"
    /\ UNCHANGED <<phase, driverVars, inboxVars, stack, jobs, logVars>>

(* runMaintenance(): neither end changes the public status, so neither     *)
(* notifies anybody.                                                       *)
RunMaintenance ==
    /\ CanCall /\ phase.kind = "idle" /\ jobs < MaxJobs
    /\ jobs' = jobs + 1
    /\ phase' = [phase EXCEPT !.kind = "maintenance", !.abort = "none", !.wake = FALSE]
    /\ UNCHANGED <<driverVars, inboxVars, stack, disposer, logVars>>

MaintenanceEnds ==
    /\ stack = <<>> /\ phase.kind = "maintenance"
    /\ IF phase.wake /\ HasPending
       THEN StartDriver(<<>>)
       ELSE phase' = Idle(phase.turn) /\ UNCHANGED <<stack, pc>>
    /\ UNCHANGED <<turnEnds, stepEnd, batch, todo, inboxVars, disposer, jobs, logVars>>
-----------------------------------------------------------------------------
(***************************************************************************)
(* The driver.                                                             *)
(***************************************************************************)
(* The driver runs as a task of its own, or inside wakeDriver until kick() *)
(* reaches its first await.                                                *)
Resume(at) == pc \in at /\ (stack = <<>> \/ OnTop("drive"))

Goto(p) ==
    /\ pc' = p
    /\ stack' = IF p \in AwaitPoints /\ stack # <<>> THEN Tail(stack) ELSE stack

callerVars == <<disposer, jobs>>

(* turn() up to turn/start; throwIfAborted comes before it. *)
StartTurn ==
    /\ Resume({"kick", "again"})
    /\ \/ Aborted /\ Goto("returned") /\ UNCHANGED <<phase, turnEnds, logVars>>
       \/ /\ ~Aborted
          /\ phase' = [phase EXCEPT !.turn = @ + 1]
          /\ AppendTurn("turn/start", phase.turn + 1)
          /\ turnEnds' = "none"
          /\ Goto("opened")
    /\ UNCHANGED <<stepEnd, batch, todo, inboxVars, callerVars>>

(* The catch clause of turn(): an abort decides the recorded reason, which *)
(* is its cause, even when the error that unwound had another source.      *)
Catch == turnEnds' = IF Aborted THEN phase.abort ELSE "error"

Unwind == Catch /\ Goto("closing")

(* Mutant: the claim takes the head of the next-turn queue and leaves it. *)
Claim_KeepsHead(target) ==
    LET taken == inbox["next-step"]
                 \o (IF target = "next-turn" /\ inbox["next-turn"] # <<>>
                     THEN <<Head(inbox["next-turn"])>> ELSE <<>>)
    IN  /\ batch' = taken
        /\ inbox' = [inbox EXCEPT !["next-step"] = <<>>]
        /\ fate' = [m \in Msgs |-> IF m \in Elements(taken) THEN "claimed" ELSE fate[m]]
        /\ UNCHANGED owner

(* The head of the step loop: throwIfAborted, then Inbox.claim. *)
Claim(target) ==
    LET turns == IF target = "next-turn" /\ inbox["next-turn"] # <<>>
                 THEN <<Head(inbox["next-turn"])>> ELSE <<>>
        taken == inbox["next-step"] \o turns
    IN  /\ batch' = taken
        /\ inbox' = [inbox EXCEPT !["next-step"] = <<>>,
                                  !["next-turn"] = IF turns = <<>> THEN @ ELSE Tail(@)]
        /\ fate' = [m \in Msgs |-> IF m \in Elements(taken) THEN "claimed" ELSE fate[m]]
        /\ owner' = [m \in Msgs |-> IF m \in Elements(turns) THEN phase.turn ELSE owner[m]]

(* Mutant: every step boundary claims as the first one of a turn does. *)
ProposeStep_AlwaysNextTurn(target) ==
    \/ Aborted /\ Unwind /\ UNCHANGED <<batch, inboxVars>>
    \/ ~Aborted /\ Claim("next-turn") /\ Goto("preStep") /\ UNCHANGED turnEnds

ProposeStep(target) ==
    \/ Aborted /\ Unwind /\ UNCHANGED <<batch, inboxVars>>
    \/ ~Aborted /\ Claim(target) /\ Goto("preStep") /\ UNCHANGED turnEnds

OpenFirstStep ==
    /\ Resume({"opened"})
    /\ ProposeStep("next-turn")
    /\ UNCHANGED <<phase, stepEnd, todo, callerVars, logVars>>

(* preStep(): assembly and the agent/pre-step waterfall.  Any of them may  *)
(* throw, and throwIfAborted does.                                         *)
PreStepFails ==
    /\ Resume({"preStep"})
    /\ Unwind
    /\ batch' = <<>>
    /\ UNCHANGED <<phase, stepEnd, todo, inboxVars, callerVars, logVars>>

(* The decision of the listeners: they may reject the step, drop claimed   *)
(* messages or add context.  An empty proposal opens no step when the turn *)
(* has an ending already or has run no step.                               *)
Decide ==
    \/ Goto("rejected") /\ batch' = <<>>
    \/ /\ turnEnds # "none" \/ phase.step = 0
       /\ Goto("nothingLeft") /\ batch' = <<>>
    \/ phase.step < MaxStep /\ Goto("admitted") /\ UNCHANGED batch

(* Mutant: preStep() returns its decision without the last throwIfAborted. *)
PreStepSettles_Unchecked ==
    /\ Resume({"preStep"})
    /\ Decide
    /\ UNCHANGED <<phase, turnEnds, stepEnd, todo, inboxVars, callerVars, logVars>>

PreStepSettles ==
    /\ Resume({"preStep"}) /\ ~Aborted
    /\ Decide
    /\ UNCHANGED <<phase, turnEnds, stepEnd, todo, inboxVars, callerVars, logVars>>

(* turn() goes on with the decision.  The two that open no step do not     *)
(* look at the signal again.                                               *)
TurnBlocked ==
    /\ Resume({"rejected"})
    /\ turnEnds' = "blocked"
    /\ Goto("closing")
    /\ UNCHANGED <<phase, stepEnd, batch, todo, inboxVars, callerVars, logVars>>

NoStepNeeded ==
    /\ Resume({"nothingLeft"})
    /\ turnEnds' = IF turnEnds = "none" THEN "completed" ELSE turnEnds
    /\ Goto("closing")
    /\ UNCHANGED <<phase, stepEnd, batch, todo, inboxVars, callerVars, logVars>>

(* `kept' are the claimed messages the decision still holds. *)
EnterStep(kept) ==
    /\ Resume({"admitted"})
    /\ batch' = <<>>
    /\ \/ Aborted /\ Unwind /\ UNCHANGED <<phase, fate, logVars>>
       \/ /\ ~Aborted
          /\ phase' = [phase EXCEPT !.step = @ + 1]
          /\ AppendEvent(Log!Event("step/start", phase.turn, phase.step + 1))
          /\ fate' = [m \in Msgs |-> IF m \in kept THEN "delivered" ELSE fate[m]]
          /\ Goto("request")
          /\ UNCHANGED turnEnds
    /\ UNCHANGED <<stepEnd, todo, inbox, owner, callerVars>>

(***************************************************************************)
(* step(): one model request and the tool calls it asks for.               *)
(***************************************************************************)
idleInStep == <<phase, turnEnds, batch, inboxVars, callerVars>>

(* Mutant: step/end is appended after step() returns, not in a finally. *)
StepReturns_NoFinally(outcome) ==
    stepEnd' = outcome /\ Goto(IF outcome = "thrown" THEN "stepped" ELSE "answered")

StepReturns(outcome) == stepEnd' = outcome /\ Goto("answered")

(* buildRequest(): the agent/request waterfall, prepareCall, and the       *)
(* request/header event when the header changed.                           *)
RequestBuilt ==
    /\ Resume({"request"}) /\ ~Aborted
    /\ \/ AppendTurn("request/header", phase.turn)
       \/ UNCHANGED logVars
    /\ Goto("stream")
    /\ UNCHANGED <<idleInStep, stepEnd, todo>>

StreamChunk ==
    /\ Resume({"stream"}) /\ ~Aborted
    /\ AppendStep("assistant/chunk")
    /\ UNCHANGED <<idleInStep, pc, stack, stepEnd, todo>>

StreamInterrupted ==
    /\ Resume({"stream"}) /\ Aborted
    /\ AppendStep("assistant/message")
    /\ StepReturns("thrown")
    /\ UNCHANGED <<idleInStep, todo>>

StreamReportsError ==
    /\ Resume({"stream"}) /\ ~Aborted
    /\ Goto("requestError")
    /\ UNCHANGED <<idleInStep, stepEnd, todo, logVars>>

(* The agent/request-error waterfall chose to retry. *)
RequestRetried ==
    /\ Resume({"requestError"}) /\ ~Aborted
    /\ Goto("request")
    /\ UNCHANGED <<idleInStep, stepEnd, todo, logVars>>

(* An awaited call rejected, or throwIfAborted found an abort. *)
StepThrows ==
    /\ Resume({"request", "stream", "requestError"})
    /\ StepReturns("thrown")
    /\ UNCHANGED <<idleInStep, todo, logVars>>

StreamAnswers(outcome) ==
    /\ Resume({"stream"}) /\ ~Aborted
    /\ AppendStep("assistant/message")
    /\ StepReturns(outcome)
    /\ UNCHANGED <<idleInStep, todo>>

StreamAsksForTools(calls) ==
    /\ Resume({"stream"}) /\ ~Aborted
    /\ AppendStep("assistant/message")
    /\ todo' = calls
    /\ Goto("tools")
    /\ UNCHANGED <<idleInStep, stepEnd>>

(* executeToolCalls(), as ToolBatch specifies it. *)
ToolCall(c) ==
    /\ Resume({"tools"}) /\ c \in todo
    /\ todo' = todo \ {c}
    /\ AppendEvent(Log!CallEvent("tool/call", phase.turn, phase.step, c))
    /\ UNCHANGED <<idleInStep, pc, stack, stepEnd>>

ToolResult(c) ==
    /\ Resume({"tools"}) /\ c \in trace.pending
    /\ AppendEvent(Log!CallEvent("tool/result", phase.turn, phase.step, c))
    /\ \/ UNCHANGED inboxVars
       \/ \E m \in Msgs : fate[m] = "unsent" /\ Insert(m, "next-step")
    /\ UNCHANGED <<phase, turnEnds, batch, callerVars, pc, stack, stepEnd, todo>>

ToolsReturn(outcome) ==
    /\ Resume({"tools"})
    /\ todo = {} /\ trace.pending = {}
    /\ StepReturns(outcome)
    /\ UNCHANGED <<idleInStep, todo, logVars>>

ToolsThrow ==
    /\ Resume({"tools"})
    /\ StepReturns("thrown")
    /\ todo' = {}
    /\ UNCHANGED <<idleInStep, logVars>>
-----------------------------------------------------------------------------
(* The max-tokens outcome of an earlier step is kept. *)
StickyEnd ==
    IF stepEnd = "thrown" \/ turnEnds = "max-tokens" THEN turnEnds ELSE stepEnd

CloseStep ==
    /\ Resume({"answered"})
    /\ AppendStep("step/end")
    /\ turnEnds' = StickyEnd
    /\ Goto("stepped")
    /\ UNCHANGED <<phase, stepEnd, batch, todo, inboxVars, callerVars>>

AfterStep ==
    /\ Resume({"stepped"})
    /\ stepEnd' = "none"
    /\ IF stepEnd = "thrown" \/ Aborted
       THEN Unwind /\ UNCHANGED <<batch, inboxVars>>
       ELSE IF turnEnds # "none" /\ inbox["next-step"] = <<>>
            THEN Goto("turnStopping") /\ UNCHANGED <<turnEnds, batch, inboxVars>>
            ELSE ProposeStep("next-step")
    /\ UNCHANGED <<phase, todo, callerVars, logVars>>

(* agent/turn-stopping settled; its listeners may have queued more input. *)
TurnStopping ==
    /\ Resume({"turnStopping"})
    /\ \/ Unwind /\ UNCHANGED <<batch, inboxVars>>
       \/ /\ ~Aborted
          /\ IF inbox["next-step"] = <<>>
             THEN Goto("closing") /\ UNCHANGED <<turnEnds, batch, inboxVars>>
             ELSE ProposeStep("next-step")
    /\ UNCHANGED <<phase, stepEnd, todo, callerVars, logVars>>

CloseTurn ==
    /\ Resume({"closing"})
    /\ AppendTurn("turn/end", phase.turn)
    /\ Goto("closed")
    /\ UNCHANGED <<phase, turnEnds, stepEnd, batch, todo, inboxVars, callerVars>>

(* The exits of turn() that skip the look at the queues. *)
Leaves == turnEnds \in {"blocked", "error"} \cup Causes \/ phase.step = 0

AfterTurn ==
    /\ Resume({"closed"})
    /\ IF Leaves \/ ~HasPending
       THEN Goto("returned") /\ UNCHANGED phase
       ELSE /\ phase' = [phase EXCEPT !.abort = "none", !.wake = FALSE, !.step = 0]
            /\ Goto("again")
    /\ UNCHANGED <<turnEnds, stepEnd, batch, todo, inboxVars, callerVars, logVars>>

(* Mutant: the driver retires only when its last turn returned normally. *)
Retire_NoFinally ==
    /\ Resume({"returned"}) /\ turnEnds \notin {"error"} \cup Causes
    /\ phase' = Idle(phase.turn)
    /\ stack' = <<[op |-> "replay", wake |-> phase.wake]>>
    /\ pc' = "none"
    /\ turnEnds' = "none"
    /\ UNCHANGED <<stepEnd, batch, todo, inboxVars, callerVars, logVars>>

(* Mutant: wakeRequested is read from the phase that replaced the driver's. *)
Retire_ForgetsWake ==
    /\ Resume({"returned"})
    /\ phase' = Idle(phase.turn)
    /\ stack' = <<[op |-> "replay", wake |-> FALSE]>>
    /\ pc' = "none"
    /\ turnEnds' = "none"
    /\ UNCHANGED <<stepEnd, batch, todo, inboxVars, callerVars, logVars>>

(* The finally clause of kick(): listeners of the idle status run before   *)
(* the latched wake is replayed.                                           *)
Retire ==
    /\ Resume({"returned"})
    /\ phase' = Idle(phase.turn)
    /\ stack' = <<[op |-> "replay", wake |-> phase.wake]>>
    /\ pc' = "none"
    /\ turnEnds' = "none"
    /\ UNCHANGED <<stepEnd, batch, todo, inboxVars, callerVars, logVars>>

Replay ==
    /\ OnTop("replay")
    /\ IF Head(stack).wake /\ HasPending
       THEN WakeDriver(FALSE, Tail(stack))
       ELSE stack' = Tail(stack) /\ UNCHANGED <<phase, pc>>
    /\ UNCHANGED <<turnEnds, stepEnd, batch, todo, inboxVars, callerVars, logVars>>
-----------------------------------------------------------------------------
Init ==
    /\ phase = Idle(0)
    /\ pc = "none" /\ turnEnds = "none" /\ stepEnd = "none"
    /\ batch = <<>> /\ todo = {}
    /\ inbox = [t \in Targets |-> <<>>]
    /\ fate = [m \in Msgs |-> "unsent"]
    /\ owner = [m \in Msgs |-> 0]
    /\ stack = <<>> /\ disposer = "live" /\ jobs = 0
    /\ trace = Log!Fresh /\ last = Log!NoEvent

Call ==
    \/ \E m \in Msgs, target \in Targets, wakeup \in BOOLEAN : Send(m, target, wakeup)
    \/ \E m \in Msgs : Remove(m)
    \/ \E keep \in BOOLEAN : Cancel(keep)
    \/ Dispose
    \/ RunMaintenance

(* The rest of a synchronous call that listeners interrupted. *)
Unfinished == Wake \/ CancelResumes \/ Replay

DriveTurn ==
    \/ StartTurn \/ OpenFirstStep
    \/ PreStepFails \/ PreStepSettles \/ TurnBlocked \/ NoStepNeeded
    \/ \E kept \in SUBSET Elements(batch) : EnterStep(kept)
    \/ CloseStep \/ AfterStep \/ TurnStopping \/ CloseTurn \/ AfterTurn \/ Retire

DriveStep ==
    \/ RequestBuilt \/ StreamChunk \/ StreamInterrupted \/ StreamReportsError
    \/ RequestRetried \/ StepThrows
    \/ \E outcome \in {"max-tokens", "completed"} : StreamAnswers(outcome)
    \/ \E calls \in SUBSET Calls \ {{}} : StreamAsksForTools(calls)
    \/ \E c \in Calls : ToolCall(c) \/ ToolResult(c)
    \/ \E outcome \in {"completed", "none"} : ToolsReturn(outcome)
    \/ ToolsThrow

Driver == DriveTurn \/ DriveStep

Next == Call \/ Unfinished \/ Driver \/ MaintenanceEnds \/ WhenIdleReturns

Fairness == WF_vars(Unfinished \/ Driver \/ MaintenanceEnds)

Spec == Init /\ [][Next]_vars

FairSpec == Spec /\ Fairness
-----------------------------------------------------------------------------
(***************************************************************************)
(* Properties.                                                             *)
(***************************************************************************)
(* Every variable keeps its type. *)
TypeOK ==
    /\ phase \in Phases
    /\ pc \in Pcs
    /\ turnEnds \in {"none", "completed", "max-tokens", "blocked", "error"} \cup Causes
    /\ stepEnd \in {"none", "completed", "max-tokens", "thrown"}
    /\ batch \in Seq(Msgs)
    /\ todo \subseteq Calls
    /\ inbox \in [Targets -> Seq(Msgs)]
    /\ fate \in [Msgs -> Fates]
    /\ owner \in [Msgs -> Nat]
    /\ stack \in Seq(Frames)
    /\ disposer \in {"live", "draining", "drained"}
    /\ jobs \in 0..MaxJobs
    /\ trace \in Log!Traces
    /\ last \in Log!Events \cup {Log!NoEvent}

(* A message the durable log shows as pending is in exactly one queue,     *)
(* once, and no queue holds anything else: sends, claims, removals and     *)
(* cancels interrupted by listeners neither lose nor double a message.  And *)
(* a followup `becomes the sole ordinary message of its own turn'          *)
(* (runtime-types.ts): no turn claims two messages of the next-turn queue. *)
Copies(m) == UNION {{<<t, i>> : i \in {i \in DOMAIN inbox[t] : inbox[t][i] = m}} :
                      t \in Targets}

PendingExactlyOnce ==
    /\ \A m \in Msgs : IF fate[m] = "pending" THEN \E x \in Copies(m) : Copies(m) = {x}
                       ELSE Copies(m) = {}
    /\ \A m, n \in Msgs : owner[m] # 0 /\ owner[m] = owner[n] => m = n

(* The wake latch is held only by an activity that cannot deliver the wake *)
(* itself: maintenance, or a driver whose controller is aborted.  A latch  *)
(* that outlives its controller would start a turn nobody asked for.       *)
LatchOnlyWhenBlocked ==
    phase.wake => phase.kind = "maintenance" \/ (phase.kind = "running" /\ Aborted)

(* A cancel that reaches an open turn before its driver's last look at the *)
(* signal decides how the turn ends: whatever the driver awaits, throws or *)
(* unwinds afterwards, it goes on to close the turn with that cause, the   *)
(* first one if more follow, and the cause stays until turn/end records    *)
(* it.  No other turn is recorded as aborted.  Deaf to a cancel are only   *)
(* the turn that has its reason, and the one whose preStep() settled on a  *)
(* decision that opens no step (agent.ts 274 to 284).                      *)
Hears == trace.openTurn # 0 /\ pc \notin {"rejected", "nothingLeft", "closing"}

AbortedTurnSaysSo ==
    [][ /\ Hears /\ Aborted =>
              /\ phase'.abort = phase.abort
              /\ Hears' \/ (pc' = "closing" /\ turnEnds' = phase.abort)
        /\ turnEnds' \in Causes /\ turnEnds # turnEnds' =>
              Hears /\ turnEnds' = phase.abort
        /\ pc = "closing" => turnEnds' = turnEnds ]_vars

(* `Durable turn/end records the outcome as aborted, so the cancel cause   *)
(* lands in the terminal result' (docs/subsystems/core.md): an aborted     *)
(* turn does not close as if nobody had cancelled it.  Only an error that  *)
(* came first keeps its own reason.                                        *)
CancelCauseLands == pc = "closing" /\ Aborted => turnEnds \in Causes \cup {"error"}

(* The driver's position and the durable log agree about which turn and    *)
(* step are open: an idle agent has neither.                               *)
LogAgrees ==
    LET t == trace IN
    /\ phase.kind # "running" <=> pc = "none"
    /\ pc \in {"none", "kick", "again", "opened"} => phase.step = 0
    /\ pc \in {"none", "kick", "again", "returned"} =>
          t.openTurn = 0 /\ t.openStep = 0 /\ t.nextTurn = phase.turn + 1
    /\ pc = "closed" =>
          t.openTurn = 0 /\ t.openStep = 0 /\ t.nextTurn = phase.turn + 1
    /\ pc \in {"opened", "preStep", "stepped", "turnStopping", "closing"} \cup Decided =>
          /\ t.openTurn = phase.turn /\ t.openStep = 0 /\ phase.turn > 0
          /\ t.nextTurn = phase.turn /\ t.nextStep = phase.step + 1
    /\ pc \in {"request", "stream", "requestError", "tools", "answered"} =>
          /\ t.openTurn = phase.turn /\ t.openStep = phase.step /\ phase.turn > 0
          /\ t.nextTurn = phase.turn /\ t.nextStep = phase.step /\ phase.step > 0

(* The log the driver writes is a log the session invariant accepts.       *)
LogWellFormed == Log!Spec

(* Cancel converges: an aborted driver retires, or hands its queue to a    *)
(* fresh controller; it is never one for good.                             *)
CancelConverges == []<>~(phase.kind = "running" /\ Aborted)

(* A latched wake whose message is still queued is replayed: a turn claims *)
(* the queue, unless the queue is emptied or a later cancel comes first:   *)
(* it stops the replayed driver, or drops the latch after the listeners of *)
(* what it discarded ran, with whatever they sent (agent.ts 144).          *)
LatchedWakeReplays ==
    phase.wake /\ HasPending /\ stack = <<>>
      ~> pc = "preStep" \/ ~HasPending \/ OnTop("clear") \/ OnTop("abort")
         \/ (phase.kind = "running" /\ Aborted /\ ~phase.wake)
=============================================================================
