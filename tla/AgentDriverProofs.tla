------------------------- MODULE AgentDriverProofs -------------------------
(***************************************************************************)
(* Proofs about AgentDriver, for every set of messages and every bound:    *)
(* its type invariant, the agreement between the driver's position and the *)
(* durable log, the theorem that the driver writes only logs that          *)
(* SessionTrace accepts; then the wake latch, the recorded reason of an    *)
(* aborted turn, and the one place of every pending message.  The latch    *)
(* and the queues are not inductive as stated; their sections first state  *)
(* what is carried with them.                                              *)
(***************************************************************************)
EXTENDS AgentDriver, TLAPS, SequenceTheorems

(***************************************************************************)
(* The stack is a sequence of frames; reading and popping its top keeps    *)
(* the types.                                                              *)
(***************************************************************************)
LEMMA TopOfStack ==
    ASSUME stack \in Seq(Frames), stack # <<>>
    PROVE  /\ Head(stack) \in Frames
           /\ Tail(stack) \in Seq(Frames)
           /\ Head(stack).op \in {"clear", "abort"} => Head(stack).cause \in Causes
           /\ Head(stack).op = "wake" => Head(stack).after \in BOOLEAN
           /\ Head(stack).op = "replay" => Head(stack).wake \in BOOLEAN
<1>1. Head(stack) \in Frames /\ Tail(stack) \in Seq(Frames)
  BY HeadTailProperties
<1>2. QED
  BY <1>1 DEF Frames

LEMMA PushFrame ==
    ASSUME NEW f \in Frames, NEW s \in Seq(Frames)
    PROVE  <<f>> \o s \in Seq(Frames)
  BY ConcatProperties

LEMMA FrameTypes ==
    /\ [op |-> "drive"] \in Frames
    /\ \A b \in BOOLEAN : [op |-> "wake", after |-> b] \in Frames
    /\ \A b \in BOOLEAN : [op |-> "replay", wake |-> b] \in Frames
    /\ \A c \in Causes : /\ [op |-> "clear", cause |-> c] \in Frames
                         /\ [op |-> "abort", cause |-> c] \in Frames
  BY DEF Frames

(* A splice that inserts or removes keeps the queues sequences of messages. *)
LEMMA InsertType ==
    ASSUME TypeOK, NEW m \in Msgs, NEW target \in Targets, Insert(m, target)
    PROVE  inbox' \in [Targets -> Seq(Msgs)] /\ fate' \in [Msgs -> Fates] /\ owner' = owner
<1>1. inbox[target] \in Seq(Msgs)
  BY DEF TypeOK
<1>2. Append(inbox[target], m) \in Seq(Msgs)
  BY <1>1, AppendProperties
<1>3. QED
  BY <1>2 DEF TypeOK, Insert, Fates

LEMMA DiscardType ==
    ASSUME TypeOK, NEW target \in Targets,
           NEW from \in 1..(Len(inbox[target]) + 1), NEW to \in 0..Len(inbox[target]),
           Discard(target, from, to)
    PROVE  inbox' \in [Targets -> Seq(Msgs)] /\ fate' \in [Msgs -> Fates] /\ owner' = owner
<1> DEFINE q == inbox[target]
<1>1. q \in Seq(Msgs)
  BY DEF TypeOK
<1>2. SubSeq(q, 1, from - 1) \in Seq(Msgs)
  BY <1>1, SubSeqProperties, LenProperties
<1>3. SubSeq(q, to + 1, Len(q)) \in Seq(Msgs)
  BY <1>1, SubSeqProperties, LenProperties
<1>4. SubSeq(q, 1, from - 1) \o SubSeq(q, to + 1, Len(q)) \in Seq(Msgs)
  BY <1>2, <1>3, ConcatProperties
<1>5. QED
  BY <1>4 DEF TypeOK, Discard, Fates

LEMMA CleanSplice ==
    ASSUME TypeOK, NEW target \in Targets, Discard(target, 1, Len(inbox[target]))
    PROVE  inbox' \in [Targets -> Seq(Msgs)] /\ fate' \in [Msgs -> Fates] /\ owner' = owner
<1>1. inbox[target] \in Seq(Msgs)
  BY DEF TypeOK
<1>2. Len(inbox[target]) \in Nat
  BY <1>1, LenProperties
<1>3. 1 \in 1..(Len(inbox[target]) + 1) /\ Len(inbox[target]) \in 0..Len(inbox[target])
  BY <1>2
<1>4. QED
  BY <1>3, DiscardType

(* Every append keeps the types of the log variables. *)
LEMMA AppendEventType ==
    ASSUME TypeOK, NEW e \in Log!Events, AppendEvent(e)
    PROVE  trace' \in Log!Traces /\ last' \in Log!Events
<1>1. trace \in Log!Traces
  BY DEF TypeOK
<1>2. e.turn \in Nat /\ e.step \in Nat /\ e.calls \subseteq Calls
  BY DEF Log!Events
<1>3. trace.nextTurn + 1 \in Nat /\ trace.nextStep + 1 \in Nat
  BY <1>1 DEF Log!Traces
<1>4. Log!Apply(trace, e) \in Log!Traces
  BY <1>1, <1>2, <1>3 DEF Log!Apply, Log!Traces
<1>5. QED
  BY <1>4 DEF AppendEvent

LEMMA EventTypes ==
    ASSUME NEW type \in Log!EventTypes, NEW turn \in Nat, NEW step \in Nat
    PROVE  /\ Log!Event(type, turn, step) \in Log!Events
           /\ \A c \in Calls : Log!CallEvent(type, turn, step, c) \in Log!Events
  BY DEF Log!Event, Log!CallEvent, Log!Events

LEMMA GotoType ==
    ASSUME TypeOK, NEW p \in Pcs, Goto(p)
    PROVE  pc' \in Pcs /\ stack' \in Seq(Frames)
<1>1. stack \in Seq(Frames)
  BY DEF TypeOK
<1>2. stack # <<>> => Tail(stack) \in Seq(Frames)
  BY <1>1, HeadTailProperties
<1>3. QED
  BY <1>1, <1>2 DEF Goto

LEMMA StartDriverType ==
    ASSUME TypeOK, NEW rest \in Seq(Frames), StartDriver(rest)
    PROVE  phase' \in Phases /\ pc' \in Pcs /\ stack' \in Seq(Frames)
<1>1. <<[op |-> "drive"]>> \o rest \in Seq(Frames)
  BY FrameTypes, PushFrame
<1>2. phase.turn \in Nat
  BY DEF TypeOK, Phases
<1>3. phase' \in Phases
  BY <1>2 DEF StartDriver, Idle, Phases
<1>4. QED
  BY <1>1, <1>3 DEF StartDriver, Pcs

LEMMA WakeDriverType ==
    ASSUME TypeOK, NEW after \in BOOLEAN, NEW rest \in Seq(Frames),
           WakeDriver(after, rest)
    PROVE  phase' \in Phases /\ pc' \in Pcs /\ stack' \in Seq(Frames)
<1>1. phase \in Phases /\ pc \in Pcs
  BY DEF TypeOK
<1>2. CASE phase.kind # "idle"
  <2>1. phase.wake \in BOOLEAN
    BY <1>1 DEF Phases
  <2>2. PICK b \in BOOLEAN : phase' = [phase EXCEPT !.wake = b]
    <3> DEFINE b == \/ phase.wake
                    \/ phase.abort # "disposed" /\ (phase.kind = "maintenance" \/ after)
    <3>1. b \in BOOLEAN
      BY Zenon
    <3>2. phase' = [phase EXCEPT !.wake = b]
      BY <1>2, Zenon DEF WakeDriver
    <3>3. QED
      BY <3>1, <3>2
  <2>3. phase' \in Phases
    BY <1>1, <2>2 DEF Phases
  <2>4. QED
    BY <1>1, <1>2, <2>3 DEF WakeDriver
<1>3. CASE phase.kind = "idle"
  <2>1. StartDriver(rest)
    BY <1>3, Zenon DEF WakeDriver
  <2>2. QED
    BY <2>1, StartDriverType
<1>4. QED
  BY <1>2, <1>3

LEMMA AbortType ==
    ASSUME TypeOK, NEW cause \in Causes, NEW keep \in BOOLEAN, Abort(cause, keep)
    PROVE  phase' \in Phases
<1>1. phase \in Phases
  BY DEF TypeOK
<1>2. phase.wake \in BOOLEAN /\ phase.abort \in Causes \cup {"none"}
  BY <1>1 DEF Phases
<1>3. (keep /\ phase.wake) \in BOOLEAN
  BY <1>2
<1>4. PICK b \in BOOLEAN, a \in Causes \cup {"none"} :
        phase' = phase \/ phase' = [phase EXCEPT !.abort = a, !.wake = b]
  BY <1>2, <1>3 DEF Abort
<1>5. QED
  BY <1>1, <1>4 DEF Phases

LEMMA ClearTurnsType ==
    ASSUME TypeOK, NEW cause \in Causes, NEW rest \in Seq(Frames),
           ClearTurns(cause, rest)
    PROVE  /\ inbox' \in [Targets -> Seq(Msgs)] /\ fate' \in [Msgs -> Fates]
           /\ owner' = owner /\ phase' \in Phases /\ stack' \in Seq(Frames)
<1>1. "next-turn" \in Targets
  BY DEF Targets
<1>2. CASE Discard("next-turn", 1, Len(inbox["next-turn"])) /\ UNCHANGED phase
           /\ stack' = <<[op |-> "abort", cause |-> cause]>> \o rest
  <2>1. stack' \in Seq(Frames)
    BY <1>2, FrameTypes, PushFrame
  <2>2. QED
    BY <1>1, <1>2, <2>1, CleanSplice DEF TypeOK
<1>3. CASE Abort(cause, FALSE) /\ stack' = rest /\ UNCHANGED inboxVars
  BY <1>3, AbortType DEF TypeOK, inboxVars
<1>4. QED
  BY <1>2, <1>3 DEF ClearTurns

LEMMA CancelCallType ==
    ASSUME TypeOK, NEW cause \in Causes, NEW keep \in BOOLEAN, CancelCall(cause, keep)
    PROVE  /\ inbox' \in [Targets -> Seq(Msgs)] /\ fate' \in [Msgs -> Fates]
           /\ owner' = owner /\ phase' \in Phases /\ stack' \in Seq(Frames)
<1>1. "next-step" \in Targets /\ stack \in Seq(Frames)
  BY DEF Targets, TypeOK
<1>2. CASE Abort(cause, TRUE) /\ UNCHANGED <<inboxVars, stack>>
  BY <1>1, <1>2, AbortType DEF TypeOK, inboxVars
<1>3. CASE Discard("next-step", 1, Len(inbox["next-step"])) /\ UNCHANGED phase
           /\ stack' = <<[op |-> "clear", cause |-> cause]>> \o stack
  <2>1. stack' \in Seq(Frames)
    BY <1>1, <1>3, FrameTypes, PushFrame
  <2>2. QED
    BY <1>1, <1>3, <2>1, CleanSplice DEF TypeOK
<1>4. CASE ClearTurns(cause, stack)
  BY <1>1, <1>4, ClearTurnsType
<1>5. QED
  BY <1>2, <1>3, <1>4 DEF CancelCall

LEMMA ProposeStepType ==
    ASSUME TypeOK, NEW target \in Targets, ProposeStep(target)
    PROVE  /\ inbox' \in [Targets -> Seq(Msgs)] /\ fate' \in [Msgs -> Fates]
           /\ owner' \in [Msgs -> Nat] /\ batch' \in Seq(Msgs)
           /\ pc' \in Pcs /\ stack' \in Seq(Frames)
           /\ turnEnds' \in {turnEnds, "error"} \cup Causes
<1>1. inbox["next-turn"] \in Seq(Msgs) /\ inbox["next-step"] \in Seq(Msgs) /\ phase.turn \in Nat
  BY DEF TypeOK, Targets, Phases
<1>2. CASE Unwind /\ UNCHANGED <<batch, inboxVars>>
  <2>1. "closing" \in Pcs
    BY DEF Pcs, AppendPoints
  <2>2. QED
    BY <1>2, <2>1, GotoType DEF Unwind, Catch, Aborted, Phases, TypeOK, inboxVars
<1>3. CASE Claim(target) /\ Goto("preStep") /\ UNCHANGED turnEnds
  <2> DEFINE turns == IF target = "next-turn" /\ inbox["next-turn"] # <<>>
                      THEN <<Head(inbox["next-turn"])>> ELSE <<>>
  <2>1. inbox["next-turn"] # <<>> => /\ Head(inbox["next-turn"]) \in Msgs
                                     /\ Tail(inbox["next-turn"]) \in Seq(Msgs)
    BY <1>1, HeadTailProperties
  <2>2. turns \in Seq(Msgs)
    BY <2>1
  <2>3. inbox["next-step"] \o turns \in Seq(Msgs)
    BY <1>1, <2>2, ConcatProperties
  <2>4. batch' \in Seq(Msgs) /\ fate' \in [Msgs -> Fates] /\ owner' \in [Msgs -> Nat]
    BY <1>1, <1>3, <2>3 DEF Claim, TypeOK, Fates
  <2>5. inbox' \in [Targets -> Seq(Msgs)]
    <3>1. (IF turns = <<>> THEN inbox["next-turn"] ELSE Tail(inbox["next-turn"])) \in Seq(Msgs)
      BY <1>1, <2>1
    <3>2. inbox' = [inbox EXCEPT !["next-step"] = <<>>,
                      !["next-turn"] = IF turns = <<>> THEN @ ELSE Tail(@)]
      BY <1>3 DEF Claim
    <3>3. <<>> \in Seq(Msgs)
      BY EmptySeq
    <3>4. QED
      BY <3>1, <3>2, <3>3 DEF TypeOK, Targets
  <2>6. "preStep" \in Pcs
    BY DEF Pcs, AwaitPoints
  <2>7. QED
    BY <1>3, <2>4, <2>5, <2>6, GotoType
<1>4. QED
  BY <1>2, <1>3 DEF ProposeStep
-----------------------------------------------------------------------------
LEMMA PcTypes ==
    /\ AwaitPoints \subseteq Pcs /\ AppendPoints \subseteq Pcs
    /\ \A p \in {"preStep", "request", "stream", "requestError", "tools",
                 "turnStopping", "again", "returned", "opened", "answered",
                 "rejected", "nothingLeft", "admitted",
                 "stepped", "closing", "closed", "none", "kick"} : p \in Pcs
  BY DEF Pcs, AwaitPoints, AppendPoints, Decided

LEMMA EventKinds ==
    \A type \in {"turn/start", "turn/end", "step/start", "tool/result", "request/header",
                 "step/end", "assistant/chunk", "assistant/message", "tool/call"} :
        type \in Log!EventTypes
  BY DEF Log!EventTypes, Log!StepEventTypes

(* One lemma for the callers and the frames they leave, one for the turn   *)
(* loop, one for the step.                                                 *)
LEMMA CallTypeOK ==
    ASSUME TypeOK, Call \/ Unfinished \/ MaintenanceEnds \/ WhenIdleReturns
    PROVE  TypeOK'
<1> USE DEF driverVars, inboxVars, logVars
<1>0. stack \in Seq(Frames) /\ phase \in Phases /\ pc \in Pcs
  BY DEF TypeOK
<1>1. ASSUME NEW m \in Msgs, NEW target \in Targets, NEW wakeup \in BOOLEAN,
             Send(m, target, wakeup)
      PROVE  TypeOK'
  <2> DEFINE after == wakeup /\ phase.kind # "idle" /\ Aborted
             where == IF after THEN "next-turn" ELSE target
  <2>1. after \in BOOLEAN /\ where \in Targets
    BY DEF Targets
  <2>2. Insert(m, where) /\ stack' \in Seq(Frames)
    <3>1. Insert(m, where)
          /\ stack' = IF wakeup THEN <<[op |-> "wake", after |-> after]>> \o stack
                      ELSE stack
      BY <1>1 DEF Send
    <3>2. [op |-> "wake", after |-> after] \in Frames
      BY <2>1, FrameTypes
    <3>3. QED
      BY <1>0, <3>1, <3>2, PushFrame
  <2>3. inbox' \in [Targets -> Seq(Msgs)] /\ fate' \in [Msgs -> Fates] /\ owner' = owner
    BY <2>1, <2>2, InsertType
  <2>4. QED
    BY <1>1, <2>2, <2>3 DEF TypeOK, Send
<1>2. ASSUME NEW m \in Msgs, Remove(m) PROVE TypeOK'
  <2>0. PICK target \in Targets : \E i \in DOMAIN inbox[target] : Discard(target, i, i)
    BY <1>2 DEF Remove
  <2>1. PICK i \in DOMAIN inbox[target] : Discard(target, i, i)
    BY <2>0
  <2>2. inbox[target] \in Seq(Msgs)
    BY DEF TypeOK
  <2>3. i \in 1..(Len(inbox[target]) + 1) /\ i \in 0..Len(inbox[target])
    BY <2>2, LenProperties
  <2>4. inbox' \in [Targets -> Seq(Msgs)] /\ fate' \in [Msgs -> Fates] /\ owner' = owner
    BY <2>1, <2>3, DiscardType
  <2>5. QED
    BY <1>2, <2>4 DEF TypeOK, Remove
<1>3. ASSUME NEW keep \in BOOLEAN, Cancel(keep) PROVE TypeOK'
  <2>1. "user" \in Causes
    BY DEF Causes
  <2>2. QED
    BY <1>3, <2>1, CancelCallType DEF TypeOK, Cancel
<1>4. CASE Dispose
  <2>1. "disposed" \in Causes
    BY DEF Causes
  <2>2. QED
    BY <1>4, <2>1, CancelCallType DEF TypeOK, Dispose
<1>5. CASE RunMaintenance
  <2>1. phase' \in Phases
    BY <1>0, <1>5 DEF RunMaintenance, Phases
  <2>2. jobs' \in 0..MaxJobs
    BY <1>5, BoundsAssumption DEF RunMaintenance, TypeOK
  <2>3. QED
    BY <1>5, <2>1, <2>2 DEF TypeOK, RunMaintenance
<1>6. CASE Wake
  <2>1. stack # <<>> /\ Head(stack).op = "wake" /\ WakeDriver(Head(stack).after, Tail(stack))
    BY <1>6 DEF Wake, OnTop
  <2>2. phase' \in Phases /\ pc' \in Pcs /\ stack' \in Seq(Frames)
    BY <1>0, <2>1, TopOfStack, WakeDriverType
  <2>3. QED
    BY <1>6, <2>2 DEF TypeOK, Wake
<1>7. CASE CancelResumes
  <2>1. stack # <<>> /\ Head(stack).op \in {"clear", "abort"}
    BY <1>7 DEF CancelResumes, OnTop
  <2>2. Head(stack).cause \in Causes /\ Tail(stack) \in Seq(Frames)
    BY <1>0, <2>1, TopOfStack
  <2>3. CASE ClearTurns(Head(stack).cause, Tail(stack))
    BY <1>7, <2>2, <2>3, ClearTurnsType DEF TypeOK, CancelResumes
  <2>4. CASE Abort(Head(stack).cause, FALSE) /\ stack' = Tail(stack) /\ UNCHANGED inboxVars
    BY <1>7, <2>2, <2>4, AbortType DEF TypeOK, CancelResumes
  <2>5. QED
    BY <1>7, <2>3, <2>4 DEF CancelResumes
<1>8. CASE Replay
  <2>1. stack # <<>> /\ Head(stack).op = "replay" /\ Tail(stack) \in Seq(Frames)
    BY <1>0, <1>8, TopOfStack DEF Replay, OnTop
  <2>2. CASE WakeDriver(FALSE, Tail(stack))
    <3>1. phase' \in Phases /\ pc' \in Pcs /\ stack' \in Seq(Frames)
      BY <2>1, <2>2, WakeDriverType
    <3>2. UNCHANGED <<turnEnds, stepEnd, batch, todo, inboxVars, disposer, jobs, logVars>>
      BY <1>8, Zenon DEF Replay, callerVars
    <3>3. QED
      BY <3>1, <3>2 DEF TypeOK
  <2>3. CASE stack' = Tail(stack) /\ UNCHANGED <<phase, pc>>
    <3>1. UNCHANGED <<turnEnds, stepEnd, batch, todo, inboxVars, disposer, jobs, logVars>>
      BY <1>8, Zenon DEF Replay, callerVars
    <3>2. QED
      BY <2>1, <2>3, <3>1 DEF TypeOK
  <2>4. QED
    BY <1>8, <2>2, <2>3 DEF Replay
<1>9. CASE MaintenanceEnds
  <2>1. CASE phase.wake /\ HasPending
    <3>1. StartDriver(<<>>)
      BY <1>9, <2>1 DEF MaintenanceEnds
    <3>2. phase' \in Phases /\ stack' \in Seq(Frames) /\ pc' \in Pcs
      BY <3>1, EmptySeq, StartDriverType
    <3>3. QED
      BY <1>9, <3>2 DEF TypeOK, MaintenanceEnds
  <2>2. CASE ~(phase.wake /\ HasPending)
    <3>1. phase' = Idle(phase.turn) /\ UNCHANGED <<stack, pc>>
      BY <1>9, <2>2, Zenon DEF MaintenanceEnds
    <3>2. phase' \in Phases
      BY <1>0, <3>1 DEF Phases, Idle
    <3>3. QED
      BY <1>9, <3>1, <3>2 DEF TypeOK, MaintenanceEnds
  <2>3. QED
    BY <2>1, <2>2
<1>10. CASE WhenIdleReturns
  BY <1>10 DEF TypeOK, WhenIdleReturns
<1>11. QED
  BY <1>1, <1>2, <1>3, <1>4, <1>5, <1>6, <1>7, <1>8, <1>9, <1>10 DEF Call, Unfinished

LEMMA TurnTypeOK ==
    ASSUME TypeOK, DriveTurn
    PROVE  TypeOK'
<1> USE DEF inboxVars, logVars, callerVars
<1>0. stack \in Seq(Frames) /\ phase \in Phases /\ pc \in Pcs /\ phase.turn \in Nat
      /\ phase.step \in Nat
  BY DEF TypeOK, Phases
<1>1. CASE StartTurn
  <2>1. CASE Aborted /\ Goto("returned") /\ UNCHANGED <<phase, turnEnds, logVars>>
    BY <1>1, <2>1, PcTypes, GotoType DEF TypeOK, StartTurn
  <2>2. CASE ~Aborted /\ AppendTurn("turn/start", phase.turn + 1) /\ Goto("opened")
             /\ phase' = [phase EXCEPT !.turn = @ + 1] /\ turnEnds' = "none"
    <3>1. phase' \in Phases
      BY <1>0, <2>2 DEF Phases
    <3> DEFINE e == Log!Event("turn/start", phase.turn + 1, 0)
    <3>a. e \in Log!Events
      BY <1>0, EventKinds, EventTypes
    <3>b. AppendEvent(e)
      BY <2>2 DEF AppendTurn
    <3>2. trace' \in Log!Traces /\ last' \in Log!Events
      BY <3>a, <3>b, AppendEventType
    <3>3. pc' \in Pcs /\ stack' \in Seq(Frames)
      BY <2>2, PcTypes, GotoType
    <3>4. QED
      BY <1>1, <2>2, <3>1, <3>2, <3>3 DEF TypeOK, StartTurn
  <2>3. QED
    BY <1>1, <2>1, <2>2 DEF StartTurn
<1>2. CASE OpenFirstStep
  BY <1>2, ProposeStepType DEF TypeOK, OpenFirstStep, Targets
<1>a. ASSUME Unwind
      PROVE  /\ pc' \in Pcs /\ stack' \in Seq(Frames)
             /\ turnEnds' \in {"error"} \cup Causes
  BY <1>0, <1>a, PcTypes, GotoType DEF Unwind, Catch, Aborted, Phases
<1>3. CASE PreStepFails
  BY <1>3, <1>a, EmptySeq DEF TypeOK, PreStepFails
<1>4. CASE PreStepSettles
  <2>1. PICK p \in Decided : Goto(p) /\ batch' \in {batch, <<>>}
    BY <1>4 DEF PreStepSettles, Decide, Decided
  <2>2. pc' \in Pcs /\ stack' \in Seq(Frames) /\ batch' \in Seq(Msgs)
    BY <2>1, PcTypes, GotoType, EmptySeq DEF Decided, TypeOK
  <2>3. QED
    BY <1>4, <2>2 DEF TypeOK, PreStepSettles
<1>5. CASE TurnBlocked \/ NoStepNeeded
  BY <1>5, PcTypes, GotoType DEF TypeOK, TurnBlocked, NoStepNeeded
<1>6. ASSUME NEW kept \in SUBSET Elements(batch), EnterStep(kept)
      PROVE  TypeOK'
  <2>1. CASE Unwind /\ UNCHANGED <<phase, fate, logVars>>
    BY <1>6, <1>a, <2>1, EmptySeq DEF TypeOK, EnterStep
  <2>2. CASE /\ phase' = [phase EXCEPT !.step = @ + 1]
             /\ AppendEvent(Log!Event("step/start", phase.turn, phase.step + 1))
             /\ fate' = [m \in Msgs |-> IF m \in kept THEN "delivered" ELSE fate[m]]
             /\ Goto("request") /\ UNCHANGED turnEnds
    <3>1. phase' \in Phases
      BY <1>0, <2>2 DEF Phases
    <3>2. trace' \in Log!Traces /\ last' \in Log!Events
      BY <1>0, <2>2, EventKinds, EventTypes, AppendEventType
    <3>3. pc' \in Pcs /\ stack' \in Seq(Frames)
      BY <2>2, PcTypes, GotoType
    <3>4. fate' \in [Msgs -> Fates]
      BY <2>2 DEF TypeOK, Fates
    <3>5. QED
      BY <1>6, <2>2, <3>1, <3>2, <3>3, <3>4, EmptySeq DEF TypeOK, EnterStep
  <2>3. QED
    BY <1>6, <2>1, <2>2 DEF EnterStep
<1>7. CASE CloseStep
  <2>1. trace' \in Log!Traces /\ last' \in Log!Events
    BY <1>0, <1>7, EventKinds, EventTypes, AppendEventType DEF CloseStep, AppendStep
  <2>2. pc' \in Pcs /\ stack' \in Seq(Frames)
    BY <1>7, PcTypes, GotoType DEF CloseStep
  <2>3. QED
    BY <1>7, <2>1, <2>2 DEF TypeOK, CloseStep, StickyEnd
<1>8. CASE AfterStep
  <2>1. CASE Unwind /\ UNCHANGED <<batch, inboxVars>>
    BY <1>8, <1>a, <2>1 DEF TypeOK, AfterStep
  <2>2. CASE Goto("turnStopping") /\ UNCHANGED <<turnEnds, batch, inboxVars>>
    BY <1>8, <2>2, PcTypes, GotoType DEF TypeOK, AfterStep
  <2>3. CASE ProposeStep("next-step")
    BY <1>8, <2>3, ProposeStepType DEF TypeOK, AfterStep, Targets
  <2>4. QED
    BY <1>8, <2>1, <2>2, <2>3 DEF AfterStep
<1>9. CASE TurnStopping
  <2>1. CASE Unwind /\ UNCHANGED <<batch, inboxVars>>
    BY <1>9, <1>a, <2>1 DEF TypeOK, TurnStopping
  <2>2. CASE Goto("closing") /\ UNCHANGED <<turnEnds, batch, inboxVars>>
    BY <1>9, <2>2, PcTypes, GotoType DEF TypeOK, TurnStopping
  <2>3. CASE ProposeStep("next-step")
    BY <1>9, <2>3, ProposeStepType DEF TypeOK, TurnStopping, Targets
  <2>4. QED
    BY <1>9, <2>1, <2>2, <2>3 DEF TurnStopping
<1>10. CASE CloseTurn
  <2>1. trace' \in Log!Traces /\ last' \in Log!Events
    BY <1>0, <1>10, EventKinds, EventTypes, AppendEventType DEF CloseTurn, AppendTurn
  <2>2. pc' \in Pcs /\ stack' \in Seq(Frames)
    BY <1>10, PcTypes, GotoType DEF CloseTurn
  <2>3. QED
    BY <1>10, <2>1, <2>2 DEF TypeOK, CloseTurn
<1>11. CASE AfterTurn
  <2>1. CASE Goto("returned") /\ UNCHANGED phase
    BY <1>11, <2>1, PcTypes, GotoType DEF TypeOK, AfterTurn
  <2>2. CASE Goto("again")
             /\ phase' = [phase EXCEPT !.abort = "none", !.wake = FALSE, !.step = 0]
    <3>1. phase' \in Phases
      BY <1>0, <2>2 DEF Phases
    <3>2. QED
      BY <1>11, <2>2, <3>1, PcTypes, GotoType DEF TypeOK, AfterTurn
  <2>3. QED
    BY <1>11, <2>1, <2>2 DEF AfterTurn
<1>12. CASE Retire
  <2>1. phase' \in Phases
    BY <1>0, <1>12 DEF Retire, Idle, Phases
  <2>2. phase.wake \in BOOLEAN
    BY <1>0 DEF Phases
  <2>3. stack' \in Seq(Frames)
    BY <1>12, <2>2, FrameTypes DEF Retire
  <2>4. QED
    BY <1>12, <2>1, <2>3, PcTypes DEF TypeOK, Retire
<1>13. QED
  BY <1>1, <1>2, <1>3, <1>4, <1>5, <1>6, <1>7, <1>8, <1>9, <1>10, <1>11, <1>12 DEF DriveTurn

LEMMA StepTypeOK ==
    ASSUME TypeOK, DriveStep
    PROVE  TypeOK'
<1> USE DEF inboxVars, logVars, callerVars, idleInStep
<1>0. stack \in Seq(Frames) /\ pc \in Pcs /\ phase.turn \in Nat /\ phase.step \in Nat
  BY DEF TypeOK, Phases
<1>a. ASSUME NEW type \in {"assistant/chunk", "assistant/message"}, AppendStep(type)
      PROVE  trace' \in Log!Traces /\ last' \in Log!Events
  BY <1>0, <1>a, EventKinds, EventTypes, AppendEventType DEF AppendStep
<1>b. ASSUME NEW outcome, StepReturns(outcome)
      PROVE  stepEnd' = outcome /\ pc' \in Pcs /\ stack' \in Seq(Frames)
  BY <1>b, PcTypes, GotoType DEF StepReturns
<1>1. CASE RequestBuilt
  <2>1. (trace' \in Log!Traces /\ last' \in Log!Events) \/ UNCHANGED logVars
    BY <1>0, <1>1, EventKinds, EventTypes, AppendEventType DEF RequestBuilt, AppendTurn
  <2>2. QED
    BY <1>1, <2>1, PcTypes, GotoType DEF TypeOK, RequestBuilt
<1>2. CASE StreamChunk
  <2>1. trace' \in Log!Traces /\ last' \in Log!Events
    BY <1>2, <1>a DEF StreamChunk
  <2>2. QED
    BY <1>2, <2>1 DEF TypeOK, StreamChunk
<1>3. CASE StreamInterrupted
  <2>1. trace' \in Log!Traces /\ last' \in Log!Events
    BY <1>3, <1>a DEF StreamInterrupted
  <2>2. stepEnd' = "thrown" /\ pc' \in Pcs /\ stack' \in Seq(Frames)
    BY <1>3, <1>b DEF StreamInterrupted
  <2>3. QED
    BY <1>3, <2>1, <2>2 DEF TypeOK, StreamInterrupted
<1>4. CASE StreamReportsError
  BY <1>4, PcTypes, GotoType DEF TypeOK, StreamReportsError
<1>5. CASE RequestRetried
  BY <1>5, PcTypes, GotoType DEF TypeOK, RequestRetried
<1>6. CASE StepThrows
  <2>1. stepEnd' = "thrown" /\ pc' \in Pcs /\ stack' \in Seq(Frames)
    BY <1>6, <1>b DEF StepThrows
  <2>2. QED
    BY <1>6, <2>1 DEF TypeOK, StepThrows
<1>7. ASSUME NEW outcome \in {"max-tokens", "completed"}, StreamAnswers(outcome)
      PROVE  TypeOK'
  <2>1. trace' \in Log!Traces /\ last' \in Log!Events
    BY <1>7, <1>a DEF StreamAnswers
  <2>2. stepEnd' = outcome /\ pc' \in Pcs /\ stack' \in Seq(Frames)
    BY <1>7, <1>b DEF StreamAnswers
  <2>3. QED
    BY <1>7, <2>1, <2>2 DEF TypeOK, StreamAnswers
<1>8. ASSUME NEW calls \in SUBSET Calls, StreamAsksForTools(calls) PROVE TypeOK'
  <2>1. trace' \in Log!Traces /\ last' \in Log!Events
    BY <1>8, <1>a DEF StreamAsksForTools
  <2>2. pc' \in Pcs /\ stack' \in Seq(Frames)
    BY <1>8, PcTypes, GotoType DEF StreamAsksForTools
  <2>3. QED
    BY <1>8, <2>1, <2>2 DEF TypeOK, StreamAsksForTools
<1>9. ASSUME NEW c \in Calls, ToolCall(c) PROVE TypeOK'
  <2>1. trace' \in Log!Traces /\ last' \in Log!Events
    BY <1>0, <1>9, EventKinds, EventTypes, AppendEventType DEF ToolCall
  <2>2. QED
    BY <1>9, <2>1 DEF TypeOK, ToolCall
<1>10. ASSUME NEW c \in Calls, ToolResult(c) PROVE TypeOK'
  <2>1. trace' \in Log!Traces /\ last' \in Log!Events
    BY <1>0, <1>10, EventKinds, EventTypes, AppendEventType DEF ToolResult
  <2>2. /\ inbox' \in [Targets -> Seq(Msgs)] /\ fate' \in [Msgs -> Fates]
        /\ owner' = owner
    <3>1. "next-step" \in Targets
      BY DEF Targets
    <3>2. CASE UNCHANGED inboxVars
      BY <3>2 DEF TypeOK
    <3>3. ASSUME NEW m \in Msgs, Insert(m, "next-step")
          PROVE  /\ inbox' \in [Targets -> Seq(Msgs)] /\ fate' \in [Msgs -> Fates]
                 /\ owner' = owner
      BY <3>1, <3>3, InsertType
    <3>4. QED
      BY <1>10, <3>2, <3>3 DEF ToolResult
  <2>3. QED
    BY <1>10, <2>1, <2>2 DEF TypeOK, ToolResult
<1>11. ASSUME NEW outcome \in {"completed", "none"}, ToolsReturn(outcome) PROVE TypeOK'
  <2>1. stepEnd' = outcome /\ pc' \in Pcs /\ stack' \in Seq(Frames)
    BY <1>11, <1>b DEF ToolsReturn
  <2>2. QED
    BY <1>11, <2>1 DEF TypeOK, ToolsReturn
<1>12. CASE ToolsThrow
  <2>1. stepEnd' = "thrown" /\ pc' \in Pcs /\ stack' \in Seq(Frames)
    BY <1>12, <1>b DEF ToolsThrow
  <2>2. QED
    BY <1>12, <2>1 DEF TypeOK, ToolsThrow
<1>13. QED
  BY <1>1, <1>2, <1>3, <1>4, <1>5, <1>6, <1>7, <1>8, <1>9, <1>10, <1>11, <1>12 DEF DriveStep

(* Every variable keeps its type, in every state of every behaviour of the *)
(* agent and its callers.                                                  *)
THEOREM TypeCorrect == Spec => []TypeOK
<1>1. Init => TypeOK
  BY BoundsAssumption, EmptySeq
     DEF Init, TypeOK, Idle, Phases, Pcs, Targets, Fates, Log!Fresh, Log!Traces
<1>2. TypeOK /\ [Next]_vars => TypeOK'
  <2>1. ASSUME TypeOK, Next PROVE TypeOK'
    BY <2>1, CallTypeOK, TurnTypeOK, StepTypeOK DEF Next, Driver
  <2>2. ASSUME TypeOK, UNCHANGED vars PROVE TypeOK'
    BY <2>2 DEF TypeOK, vars, driverVars, inboxVars, logVars
  <2>3. QED
    BY <2>1, <2>2
<1>3. QED
  BY <1>1, <1>2, PTL DEF Spec
-----------------------------------------------------------------------------
(***************************************************************************)
(* The driver's position and the log.  LogAgrees is inductive once the     *)
(* types are known, and it is exactly what makes each append legal: the    *)
(* open turn and step the grammar asks for are the ones the driver names.  *)
(***************************************************************************)
LogStep == Log!Next \/ UNCHANGED logVars

(* What a caller may do to the driver: nothing but start it, mark it       *)
(* aborted or latched, or put an idle agent under maintenance.             *)
CallerStep ==
    /\ phase'.turn = phase.turn
    /\ phase'.step = phase.step \/ (pc = "none" /\ phase'.step = 0)
    /\ \/ pc' = pc /\ (phase'.kind = "running" <=> phase.kind = "running")
       \/ pc = "none" /\ pc' = "kick" /\ phase'.kind = "running"
    /\ UNCHANGED logVars

LEMMA CallersLeaveTheLog ==
    ASSUME TypeOK, LogAgrees, Call \/ Unfinished \/ MaintenanceEnds \/ WhenIdleReturns
    PROVE  CallerStep
<1> USE DEF driverVars, logVars
<1>0. phase \in Phases /\ (phase.kind # "running" <=> pc = "none")
  BY DEF TypeOK, LogAgrees
<1>1. ASSUME NEW cause, NEW keep \in BOOLEAN, Abort(cause, keep)
      PROVE  phase'.turn = phase.turn /\ phase'.step = phase.step /\ phase'.kind = phase.kind
  BY <1>0, <1>1 DEF Abort, Phases
<1>2. ASSUME NEW cause, NEW rest, ClearTurns(cause, rest)
      PROVE  phase'.turn = phase.turn /\ phase'.step = phase.step /\ phase'.kind = phase.kind
  BY <1>1, <1>2 DEF ClearTurns
<1>3. ASSUME NEW cause, NEW keep \in BOOLEAN, CancelCall(cause, keep)
      PROVE  phase'.turn = phase.turn /\ phase'.step = phase.step /\ phase'.kind = phase.kind
  BY <1>1, <1>2, <1>3 DEF CancelCall
<1>4. ASSUME NEW rest, StartDriver(rest)
      PROVE  /\ phase'.turn = phase.turn /\ phase'.step = 0
             /\ phase'.kind = "running" /\ pc' = "kick"
  BY <1>4 DEF StartDriver, Idle
<1>5. ASSUME NEW after \in BOOLEAN, NEW rest, WakeDriver(after, rest), UNCHANGED logVars
      PROVE  CallerStep
  <2>1. CASE phase.kind # "idle" /\ UNCHANGED pc
    <3>1. PICK b : phase' = [phase EXCEPT !.wake = b]
      BY <2>1, <1>5, Zenon DEF WakeDriver
    <3>2. QED
      BY <1>0, <1>5, <2>1, <3>1 DEF CallerStep, Phases
  <2>2. CASE phase.kind = "idle" /\ StartDriver(rest)
    BY <1>0, <1>4, <1>5, <2>2 DEF CallerStep
  <2>3. QED
    BY <1>5, <2>1, <2>2, Zenon DEF WakeDriver
<1>6. ASSUME NEW m \in Msgs, NEW target \in Targets, NEW wakeup \in BOOLEAN,
             Send(m, target, wakeup)
      PROVE  CallerStep
  BY <1>6 DEF Send, CallerStep
<1>7. ASSUME NEW m \in Msgs, Remove(m) PROVE CallerStep
  BY <1>7 DEF Remove, CallerStep
<1>8. ASSUME NEW keep \in BOOLEAN, Cancel(keep) PROVE CallerStep
  BY <1>3, <1>8 DEF Cancel, CallerStep
<1>9. CASE Dispose
  BY <1>3, <1>9 DEF Dispose, CallerStep
<1>10. CASE RunMaintenance
  BY <1>0, <1>10 DEF RunMaintenance, CallerStep, Phases
<1>11. CASE Wake
  <2>1. Head(stack).after \in BOOLEAN
    BY <1>11, TopOfStack DEF Wake, OnTop, TypeOK
  <2>2. QED
    BY <1>5, <1>11, <2>1 DEF Wake
<1>12. CASE CancelResumes
  BY <1>1, <1>2, <1>12 DEF CancelResumes, CallerStep
<1>13. CASE Replay
  <2>1. CASE WakeDriver(FALSE, Tail(stack)) /\ UNCHANGED logVars
    BY <1>5, <2>1
  <2>2. CASE UNCHANGED <<phase, pc, logVars>>
    BY <2>2 DEF CallerStep
  <2>3. QED
    BY <1>13, <2>1, <2>2, Zenon DEF Replay
<1>14. CASE MaintenanceEnds
  <2>1. phase.kind = "maintenance" /\ UNCHANGED logVars
    BY <1>14 DEF MaintenanceEnds
  <2>2. CASE StartDriver(<<>>)
    BY <1>0, <1>4, <2>1, <2>2 DEF CallerStep
  <2>3. CASE phase' = Idle(phase.turn) /\ UNCHANGED <<stack, pc>>
    BY <1>0, <2>1, <2>3 DEF CallerStep, Idle
  <2>4. QED
    BY <1>14, <2>2, <2>3, Zenon DEF MaintenanceEnds
<1>15. CASE WhenIdleReturns
  BY <1>15 DEF WhenIdleReturns, CallerStep
<1>16. QED
  BY <1>6, <1>7, <1>8, <1>9, <1>10, <1>11, <1>12, <1>13, <1>14, <1>15 DEF Call, Unfinished

LEMMA CallerAgrees ==
    ASSUME TypeOK, LogAgrees, CallerStep
    PROVE  LogAgrees'
  BY DEF LogAgrees, CallerStep, logVars, Decided

(* Moves of the driver that append nothing keep the log's position when    *)
(* they stay inside the group of locations with that position.             *)
Between == {"none", "kick", "again", "returned", "closed"}
InTurn  == {"opened", "preStep", "rejected", "nothingLeft", "admitted", "stepped",
            "turnStopping", "closing"}
InStep  == {"request", "stream", "requestError", "tools", "answered"}

LEMMA SilentMove ==
    ASSUME TypeOK, LogAgrees, UNCHANGED <<phase, logVars>>,
           \/ pc \in Between \ {"none"} /\ pc' \in {"closed", "returned"}
           \/ pc \in InTurn /\ pc' \in InTurn \ {"opened"}
           \/ pc \in InStep /\ pc' \in InStep
    PROVE  LogAgrees' /\ LogStep
  BY DEF LogAgrees, LogStep, logVars, Between, InTurn, InStep, Decided

(* An append is a step of SessionTrace when the grammar allows it. *)
LEMMA LegalAppend ==
    ASSUME NEW e \in Log!Events, AppendEvent(e), Log!Allowed(trace, e)
    PROVE  LogStep
<1>1. last' = e /\ trace' = Log!Apply(trace, e)
  BY DEF AppendEvent
<1>2. QED
  BY <1>1 DEF LogStep, Log!Next, Log!Append

LEMMA ProposeStepPc ==
    ASSUME NEW target, ProposeStep(target)
    PROVE  pc' \in {"closing", "preStep"}
  BY DEF ProposeStep, Unwind, Goto

LEMMA TurnAgrees ==
    ASSUME TypeOK, LogAgrees, DriveTurn
    PROVE  LogAgrees' /\ LogStep
<1> USE DEF logVars, inboxVars, callerVars, Decided
<1>0. phase \in Phases /\ trace \in Log!Traces /\ phase.turn \in Nat /\ phase.step \in Nat
  BY DEF TypeOK, Phases
<1>1. CASE StartTurn
  <2>1. CASE Aborted /\ Goto("returned") /\ UNCHANGED <<phase, turnEnds, logVars>>
    BY <1>1, <2>1, SilentMove DEF StartTurn, Resume, Goto, Between
  <2>2. CASE AppendTurn("turn/start", phase.turn + 1) /\ Goto("opened")
             /\ phase' = [phase EXCEPT !.turn = @ + 1]
    <3> DEFINE e == Log!Event("turn/start", phase.turn + 1, 0)
    <3>a. "turn/start" \in Log!EventTypes /\ phase.turn + 1 \in Nat /\ 0 \in Nat
      BY <1>0, EventKinds
    <3>1. e \in Log!Events /\ AppendEvent(e)
      BY <2>2, <3>a, EventTypes DEF AppendTurn
    <3>2. pc \in {"kick", "again"} /\ pc' = "opened"
      BY <1>1, <2>2 DEF StartTurn, Resume, Goto
    <3>3. /\ trace.openTurn = 0 /\ trace.openStep = 0 /\ trace.nextTurn = phase.turn + 1
          /\ phase.kind = "running" /\ phase.step = 0
      BY <3>2 DEF LogAgrees
    <3>4. Log!Allowed(trace, e)
      BY <1>0, <3>3 DEF Log!Allowed, Log!Event, Log!StepEventTypes
    <3>5. trace' = [trace EXCEPT !.openTurn = phase.turn + 1, !.nextStep = 1]
      BY <3>1 DEF AppendEvent, Log!Apply, Log!Event
    <3>6. /\ phase'.turn = phase.turn + 1 /\ phase'.step = 0 /\ phase'.kind = "running"
      BY <1>0, <2>2, <3>3 DEF Phases
    <3>7. LogAgrees'
      BY <1>0, <3>2, <3>3, <3>5, <3>6 DEF LogAgrees, Log!Traces
    <3>8. QED
      BY <3>1, <3>4, <3>7, LegalAppend
  <2>3. QED
    BY <1>1, <2>1, <2>2 DEF StartTurn
<1>2. CASE OpenFirstStep
  BY <1>2, ProposeStepPc, SilentMove DEF OpenFirstStep, Resume, InTurn
<1>3. CASE PreStepFails \/ TurnBlocked \/ NoStepNeeded
  BY <1>3, SilentMove
     DEF PreStepFails, TurnBlocked, NoStepNeeded, Unwind, Resume, Goto, InTurn
<1>b. CASE PreStepSettles
  BY <1>b, SilentMove DEF PreStepSettles, Decide, Resume, Goto, InTurn
<1>4. ASSUME NEW kept, EnterStep(kept), ~Unwind
      PROVE  LogAgrees' /\ LogStep
  <2> DEFINE e == Log!Event("step/start", phase.turn, phase.step + 1)
  <2>1. e \in Log!Events /\ AppendEvent(e)
    <3>1. phase.step + 1 \in Nat
      BY <1>0
    <3>2. QED
      BY <1>0, <1>4, <3>1, EventKinds, EventTypes DEF EnterStep
  <2>2. pc = "admitted" /\ pc' = "request" /\ phase' = [phase EXCEPT !.step = @ + 1]
    BY <1>4 DEF EnterStep, Resume, Goto
  <2>3. /\ trace.openTurn = phase.turn /\ trace.openStep = 0 /\ phase.turn > 0
        /\ trace.nextTurn = phase.turn /\ trace.nextStep = phase.step + 1
        /\ phase.kind = "running"
    BY <2>2 DEF LogAgrees
  <2>4. Log!Allowed(trace, e)
    BY <1>0, <2>3 DEF Log!Allowed, Log!Event, Log!StepEventTypes
  <2>5. trace' = [trace EXCEPT !.openStep = phase.step + 1]
    BY <2>1 DEF AppendEvent, Log!Apply, Log!Event
  <2>6. phase'.turn = phase.turn /\ phase'.step = phase.step + 1 /\ phase'.kind = "running"
    BY <1>0, <2>2, <2>3 DEF Phases
  <2>7. LogAgrees'
    BY <1>0, <2>2, <2>3, <2>5, <2>6 DEF LogAgrees, Log!Traces
  <2>8. QED
    BY <2>1, <2>4, <2>7, LegalAppend
<1>c. ASSUME NEW kept, EnterStep(kept), Unwind
      PROVE  LogAgrees' /\ LogStep
  <2>1. pc = "admitted" /\ pc' = "closing"
    BY <1>c DEF EnterStep, Resume, Unwind, Goto
  <2>2. UNCHANGED <<phase, logVars>>
    BY <1>c, <2>1 DEF EnterStep, Goto
  <2>3. QED
    BY <2>1, <2>2, SilentMove DEF InTurn
<1>5. CASE CloseStep
  <2> DEFINE e == Log!Event("step/end", phase.turn, phase.step)
  <2>1. e \in Log!Events /\ AppendEvent(e) /\ UNCHANGED phase
    BY <1>0, <1>5, EventKinds, EventTypes DEF CloseStep, AppendStep
  <2>2. pc = "answered" /\ pc' = "stepped"
    BY <1>5 DEF CloseStep, Resume, Goto
  <2>3. /\ trace.openTurn = phase.turn /\ trace.openStep = phase.step /\ phase.turn > 0
        /\ trace.nextTurn = phase.turn /\ trace.nextStep = phase.step /\ phase.step > 0
        /\ phase.kind = "running"
    BY <2>2 DEF LogAgrees
  <2>4. Log!Allowed(trace, e)
    BY <1>0, <2>3 DEF Log!Allowed, Log!Event, Log!StepEventTypes, Log!NamesOpenStep
  <2>5. trace' = [trace EXCEPT !.openStep = 0, !.nextStep = @ + 1, !.pending = {}]
    BY <2>1 DEF AppendEvent, Log!Apply, Log!Event
  <2>6. LogAgrees'
    BY <1>0, <2>1, <2>2, <2>3, <2>5 DEF LogAgrees, Log!Traces
  <2>7. QED
    BY <2>1, <2>4, <2>6, LegalAppend
<1>6. CASE AfterStep
  <2>1. pc = "stepped" /\ UNCHANGED <<phase, logVars>>
    BY <1>6 DEF AfterStep, Resume
  <2>2. pc' \in {"closing", "turnStopping", "preStep"}
    BY <1>6, ProposeStepPc DEF AfterStep, Unwind, Goto
  <2>3. QED
    BY <2>1, <2>2, SilentMove DEF InTurn
<1>7. CASE TurnStopping
  <2>1. pc = "turnStopping" /\ UNCHANGED <<phase, logVars>>
    BY <1>7 DEF TurnStopping, Resume
  <2>2. pc' \in {"closing", "preStep"}
    BY <1>7, ProposeStepPc DEF TurnStopping, Unwind, Goto
  <2>3. QED
    BY <2>1, <2>2, SilentMove DEF InTurn
<1>8. CASE CloseTurn
  <2> DEFINE e == Log!Event("turn/end", phase.turn, 0)
  <2>1. e \in Log!Events /\ AppendEvent(e) /\ UNCHANGED phase
    BY <1>0, <1>8, EventKinds, EventTypes DEF CloseTurn, AppendTurn
  <2>2. pc = "closing" /\ pc' = "closed"
    BY <1>8 DEF CloseTurn, Resume, Goto
  <2>3. /\ trace.openTurn = phase.turn /\ trace.openStep = 0 /\ phase.turn > 0
        /\ trace.nextTurn = phase.turn /\ phase.kind = "running"
    BY <2>2 DEF LogAgrees
  <2>4. Log!Allowed(trace, e)
    BY <1>0, <2>3 DEF Log!Allowed, Log!Event, Log!StepEventTypes
  <2>5. trace' = [trace EXCEPT !.openTurn = 0, !.nextTurn = @ + 1]
    BY <2>1 DEF AppendEvent, Log!Apply, Log!Event
  <2>6. LogAgrees'
    BY <1>0, <2>1, <2>2, <2>3, <2>5 DEF LogAgrees, Log!Traces
  <2>7. QED
    BY <2>1, <2>4, <2>6, LegalAppend
<1>9. CASE AfterTurn
  <2>1. pc = "closed" /\ UNCHANGED logVars
    BY <1>9 DEF AfterTurn, Resume
  <2>2. CASE Goto("returned") /\ UNCHANGED phase
    BY <2>1, <2>2, SilentMove DEF Goto, Between
  <2>3. CASE Goto("again")
             /\ phase' = [phase EXCEPT !.abort = "none", !.wake = FALSE, !.step = 0]
    <3>1. pc' = "again" /\ phase'.turn = phase.turn /\ phase'.kind = phase.kind
          /\ phase'.step = 0
      BY <1>0, <2>3 DEF Goto, Phases
    <3>2. QED
      BY <2>1, <3>1 DEF LogAgrees, LogStep
  <2>4. QED
    BY <1>9, <2>2, <2>3 DEF AfterTurn
<1>10. CASE Retire
  <2>1. pc = "returned" /\ pc' = "none" /\ UNCHANGED logVars
        /\ phase'.turn = phase.turn /\ phase'.kind = "idle" /\ phase'.step = 0
    BY <1>10 DEF Retire, Resume, Idle
  <2>2. QED
    BY <2>1 DEF LogAgrees, LogStep
<1>11. QED
  BY <1>1, <1>2, <1>3, <1>b, <1>4, <1>c, <1>5, <1>6, <1>7, <1>8, <1>9, <1>10
     DEF DriveTurn

(* Inside a step the driver names its own open turn and step, so whatever  *)
(* it appends there is legal and moves neither of them.                    *)
LEMMA StepEvent ==
    ASSUME TypeOK, LogAgrees, pc \in InStep, pc' \in InStep, UNCHANGED phase,
           NEW e \in Log!Events, AppendEvent(e),
           e.turn = phase.turn, e.calls \subseteq trace.pending \/ e.type = "tool/call",
           \/ /\ e.type \in {"assistant/chunk", "assistant/message", "tool/call", "tool/result"}
              /\ e.step = phase.step
           \/ e.type = "request/header"
    PROVE  LogAgrees' /\ LogStep
<1>0. phase.turn \in Nat /\ phase.step \in Nat /\ trace \in Log!Traces
  BY DEF TypeOK, Phases
<1>1. /\ trace.openTurn = phase.turn /\ trace.openStep = phase.step /\ phase.turn > 0
      /\ trace.nextTurn = phase.turn /\ trace.nextStep = phase.step /\ phase.step > 0
      /\ phase.kind = "running"
  BY DEF LogAgrees, InStep
<1>2. Log!Allowed(trace, e)
  BY <1>0, <1>1 DEF Log!Allowed, Log!StepEventTypes, Log!NamesOpenStep
<1>3. /\ trace'.openTurn = trace.openTurn /\ trace'.openStep = trace.openStep
      /\ trace'.nextTurn = trace.nextTurn /\ trace'.nextStep = trace.nextStep
  BY <1>0 DEF AppendEvent, Log!Apply, Log!Traces
<1>4. LogAgrees'
  BY <1>1, <1>3 DEF LogAgrees, InStep, Decided
<1>5. QED
  BY <1>2, <1>4, LegalAppend

LEMMA StepAgrees ==
    ASSUME TypeOK, LogAgrees, DriveStep
    PROVE  LogAgrees' /\ LogStep
<1> USE DEF logVars, idleInStep
<1>0. phase.turn \in Nat /\ phase.step \in Nat
  BY DEF TypeOK, Phases
<1>a. ASSUME NEW type \in {"assistant/chunk", "assistant/message"}, AppendStep(type),
             pc \in InStep, pc' \in InStep, UNCHANGED phase
      PROVE  LogAgrees' /\ LogStep
  <2> DEFINE e == Log!Event(type, phase.turn, phase.step)
  <2>1. e \in Log!Events /\ AppendEvent(e)
    BY <1>0, <1>a, EventKinds, EventTypes DEF AppendStep
  <2>2. e.type = type /\ e.turn = phase.turn /\ e.step = phase.step /\ e.calls = {}
    BY DEF Log!Event
  <2>3. QED
    BY <1>a, <2>1, <2>2, StepEvent
<1>1. CASE RequestBuilt
  <2>1. pc = "request" /\ pc' = "stream" /\ UNCHANGED phase
    BY <1>1 DEF RequestBuilt, Resume, Goto
  <2>2. CASE AppendTurn("request/header", phase.turn)
    <3> DEFINE e == Log!Event("request/header", phase.turn, 0)
    <3>1. e \in Log!Events /\ AppendEvent(e)
      BY <1>0, <2>2, EventKinds, EventTypes DEF AppendTurn
    <3>2. e.type = "request/header" /\ e.turn = phase.turn /\ e.calls = {}
      BY DEF Log!Event
    <3>3. QED
      BY <2>1, <3>1, <3>2, StepEvent DEF InStep
  <2>3. CASE UNCHANGED logVars
    BY <2>1, <2>3, SilentMove DEF InStep
  <2>4. QED
    BY <1>1, <2>2, <2>3 DEF RequestBuilt
<1>2. CASE StreamChunk
  <2>1. pc = "stream" /\ pc' = "stream" /\ UNCHANGED phase /\ AppendStep("assistant/chunk")
    BY <1>2 DEF StreamChunk, Resume
  <2>2. QED
    BY <1>a, <2>1 DEF InStep
<1>3. CASE StreamInterrupted
  <2>1. pc = "stream" /\ pc' = "answered" /\ UNCHANGED phase /\ AppendStep("assistant/message")
    BY <1>3 DEF StreamInterrupted, Resume, StepReturns, Goto
  <2>2. QED
    BY <1>a, <2>1 DEF InStep
<1>4. CASE StreamReportsError \/ RequestRetried \/ StepThrows \/ ToolsThrow
  BY <1>4, SilentMove DEF StreamReportsError, RequestRetried, StepThrows, ToolsThrow,
                          StepReturns, Resume, Goto, InStep
<1>5. ASSUME NEW outcome, StreamAnswers(outcome) PROVE LogAgrees' /\ LogStep
  <2>1. pc = "stream" /\ pc' = "answered" /\ UNCHANGED phase /\ AppendStep("assistant/message")
    BY <1>5 DEF StreamAnswers, Resume, StepReturns, Goto
  <2>2. QED
    BY <1>a, <2>1 DEF InStep
<1>6. ASSUME NEW calls, StreamAsksForTools(calls) PROVE LogAgrees' /\ LogStep
  <2>1. pc = "stream" /\ pc' = "tools" /\ UNCHANGED phase /\ AppendStep("assistant/message")
    BY <1>6 DEF StreamAsksForTools, Resume, Goto
  <2>2. QED
    BY <1>a, <2>1 DEF InStep
<1>7. ASSUME NEW c \in Calls, ToolCall(c) PROVE LogAgrees' /\ LogStep
  <2> DEFINE e == Log!CallEvent("tool/call", phase.turn, phase.step, c)
  <2>1. e \in Log!Events /\ AppendEvent(e) /\ pc = "tools" /\ pc' = "tools" /\ UNCHANGED phase
    BY <1>0, <1>7, EventKinds, EventTypes DEF ToolCall, Resume
  <2>2. e.type = "tool/call" /\ e.turn = phase.turn /\ e.step = phase.step
    BY DEF Log!CallEvent
  <2>3. QED
    BY <2>1, <2>2, StepEvent DEF InStep
<1>8. ASSUME NEW c \in Calls, ToolResult(c) PROVE LogAgrees' /\ LogStep
  <2> DEFINE e == Log!CallEvent("tool/result", phase.turn, phase.step, c)
  <2>1. e \in Log!Events /\ AppendEvent(e) /\ pc = "tools" /\ pc' = "tools" /\ UNCHANGED phase
        /\ c \in trace.pending
    BY <1>0, <1>8, EventKinds, EventTypes DEF ToolResult, Resume
  <2>2. e.type = "tool/result" /\ e.turn = phase.turn /\ e.step = phase.step /\ e.calls = {c}
    BY DEF Log!CallEvent
  <2>3. QED
    BY <2>1, <2>2, StepEvent DEF InStep
<1>9. ASSUME NEW outcome, ToolsReturn(outcome) PROVE LogAgrees' /\ LogStep
  BY <1>9, SilentMove DEF ToolsReturn, StepReturns, Resume, Goto, InStep
<1>10. QED
  BY <1>1, <1>2, <1>3, <1>4, <1>5, <1>6, <1>7, <1>8, <1>9 DEF DriveStep

LEMMA NextAgrees ==
    ASSUME TypeOK, LogAgrees, [Next]_vars
    PROVE  LogAgrees' /\ LogStep
<1>1. CASE Call \/ Unfinished \/ MaintenanceEnds \/ WhenIdleReturns
  BY <1>1, CallersLeaveTheLog, CallerAgrees DEF CallerStep, LogStep
<1>2. CASE Driver
  BY <1>2, TurnAgrees, StepAgrees DEF Driver
<1>3. CASE UNCHANGED vars
  BY <1>3 DEF LogAgrees, LogStep, vars, logVars, driverVars
<1>4. QED
  BY <1>1, <1>2, <1>3 DEF Next

LEMMA InitAgrees == Init => LogAgrees
  BY DEF Init, LogAgrees, Idle, Log!Fresh, Decided

(* Whenever the driver is between turns the log has no open turn, and      *)
(* while it is in one, the log's open turn and step are the driver's: no   *)
(* cancel, listener or failing await leaves a turn or step open.           *)
THEOREM PositionAgreesWithLog == Spec => []LogAgrees
<1>1. TypeOK /\ LogAgrees /\ [Next]_vars => LogAgrees'
  BY NextAgrees
<1>2. QED
  BY <1>1, InitAgrees, TypeCorrect, PTL DEF Spec

(* Every log the driver writes, whatever its callers do, is a log the      *)
(* session's invariant checker accepts: the driver implements SessionTrace.*)
THEOREM DriverWritesLegalLog == Spec => LogWellFormed
<1>1. Init => Log!Init
  BY DEF Init, Log!Init
<1>2. TypeOK /\ LogAgrees /\ [Next]_vars => [Log!Next]_logVars
  BY NextAgrees DEF LogStep
<1>3. QED
  BY <1>1, <1>2, TypeCorrect, PositionAgreesWithLog, PTL
     DEF Spec, LogWellFormed, Log!Spec, logVars


(***************************************************************************)
(* The wake latch.  A wake call that found its agent aborted will set the  *)
(* latch when its listeners return, so until then the agent has to stay    *)
(* aborted: nothing resets the controller while the call is on the stack.  *)
(* The driver does reset it, in AfterTurn and Retire, but only as the      *)
(* innermost frame, and no such call ever waits underneath the driver.     *)
(***************************************************************************)
IsLate(f) == f.op = "wake" /\ f.after

NoLate(s) == \A i \in DOMAIN s : ~IsLate(s[i])

LateAboveDriver(s) ==
    \A i, j \in DOMAIN s : IsLate(s[i]) /\ j < i => s[j].op # "drive"

LatchInv ==
    /\ LatchOnlyWhenBlocked
    /\ LateAboveDriver(stack)
    /\ NoLate(stack) \/ (phase.kind # "idle" /\ Aborted)

LEMMA PushKeepsOrder ==
    ASSUME NEW s \in Seq(Frames), NEW f \in Frames, f.op # "drive"
    PROVE  /\ LateAboveDriver(s) => LateAboveDriver(<<f>> \o s)
           /\ NoLate(s) /\ ~IsLate(f) => NoLate(<<f>> \o s)
<1> DEFINE q == <<f>> \o s
<1>1. /\ Len(q) = Len(s) + 1 /\ q[1] = f
      /\ \A i \in 2..Len(q) : q[i] = s[i - 1] /\ i - 1 \in DOMAIN s
      /\ DOMAIN q = 1..Len(q)
  BY ConcatProperties, LenProperties
<1>2. ASSUME LateAboveDriver(s) PROVE LateAboveDriver(q)
  <2> SUFFICES ASSUME NEW i \in DOMAIN q, NEW j \in DOMAIN q, IsLate(q[i]), j < i
               PROVE  q[j].op # "drive"
    BY DEF LateAboveDriver
  <2>1. i \in 2..Len(q) /\ IsLate(s[i - 1]) /\ i - 1 \in DOMAIN s
    BY <1>1
  <2>2. CASE j = 1
    BY <1>1, <2>2
  <2>3. CASE j # 1
    <3>1. j \in 2..Len(q) /\ q[j] = s[j - 1] /\ j - 1 \in DOMAIN s /\ j - 1 < i - 1
      BY <1>1, <2>1, <2>3
    <3> QED BY <1>2, <2>1, <3>1 DEF LateAboveDriver
  <2> QED BY <2>2, <2>3
<1>3. ASSUME NoLate(s), ~IsLate(f) PROVE NoLate(q)
  <2> SUFFICES ASSUME NEW i \in DOMAIN q PROVE ~IsLate(q[i])
    BY DEF NoLate
  <2> QED BY <1>1, <1>3 DEF NoLate
<1> QED BY <1>2, <1>3

LEMMA PopKeepsOrder ==
    ASSUME NEW s \in Seq(Frames), s # <<>>
    PROVE  /\ LateAboveDriver(s) => LateAboveDriver(Tail(s))
           /\ NoLate(s) => NoLate(Tail(s))
<1>1. \A i \in DOMAIN Tail(s) : i + 1 \in DOMAIN s /\ Tail(s)[i] = s[i + 1] /\ i \in Int
  BY HeadTailProperties, LenProperties
<1> QED BY <1>1 DEF LateAboveDriver, NoLate

(* The driver runs as the innermost frame, so nothing late is below it. *)
LEMMA NothingLateUnderDriver ==
    ASSUME TypeOK, LatchInv, stack = <<>> \/ OnTop("drive")
    PROVE  NoLate(stack)
<1>1. stack \in Seq(Frames)
  BY DEF TypeOK
<1>2. CASE stack = <<>>
  BY <1>2 DEF NoLate
<1>3. CASE OnTop("drive")
  <2>1. 1 \in DOMAIN stack /\ stack[1].op = "drive" /\ \A i \in DOMAIN stack : i = 1 \/ 1 < i
    BY <1>1, <1>3, HeadTailProperties, LenProperties DEF OnTop
  <2> QED BY <2>1 DEF LatchInv, LateAboveDriver, NoLate, IsLate
<1> QED BY <1>2, <1>3

(* What a step of the driver does to the phase and to the stack. *)
Stepped ==
    /\ stack = <<>> \/ OnTop("drive")
    /\ \/ stack' = stack
       \/ stack # <<>> /\ stack' = Tail(stack)
       \/ \E w \in BOOLEAN : stack' = <<[op |-> "replay", wake |-> w]>>
    /\ \/ /\ phase'.wake = phase.wake /\ phase'.abort = phase.abort
          /\ phase'.kind = phase.kind
       \/ ~phase'.wake

LEMMA GotoStack ==
    ASSUME NEW p, Goto(p)
    PROVE  pc' = p /\ (stack' = stack \/ (stack # <<>> /\ stack' = Tail(stack)))
  BY DEF Goto

LEMMA ProposeStepMoves ==
    ASSUME NEW target, ProposeStep(target)
    PROVE  stack' = stack \/ (stack # <<>> /\ stack' = Tail(stack))
  BY GotoStack DEF ProposeStep, Unwind

LEMMA DriverSteps ==
    ASSUME TypeOK, Driver
    PROVE  Stepped
<1> USE DEF Resume, Stepped
<1>0. phase \in Phases /\ phase.wake \in BOOLEAN
  BY DEF TypeOK, Phases
<1>1. CASE StartTurn
  BY <1>0, <1>1, GotoStack DEF StartTurn, Phases
<1>2. CASE OpenFirstStep \/ AfterStep \/ TurnStopping
  BY <1>2, GotoStack, ProposeStepMoves DEF OpenFirstStep, AfterStep, TurnStopping, Unwind
<1>3. CASE \/ PreStepFails \/ PreStepSettles \/ TurnBlocked \/ NoStepNeeded
           \/ CloseStep \/ CloseTurn
  BY <1>3, GotoStack
     DEF PreStepFails, PreStepSettles, Decide, TurnBlocked, NoStepNeeded, CloseStep,
         CloseTurn, Unwind
<1>4. ASSUME NEW kept, EnterStep(kept)
      PROVE  Stepped
  BY <1>0, <1>4, GotoStack DEF EnterStep, Unwind, Phases
<1>5. CASE AfterTurn
  BY <1>0, <1>5, GotoStack DEF AfterTurn, Phases
<1>6. CASE Retire
  BY <1>0, <1>6 DEF Retire, Idle
<1>7. CASE DriveStep
  BY <1>7, GotoStack
     DEF DriveStep, RequestBuilt, StreamChunk, StreamInterrupted, StreamReportsError,
         RequestRetried, StepThrows, StreamAnswers, StreamAsksForTools, ToolCall,
         ToolResult, ToolsReturn, ToolsThrow, StepReturns, idleInStep
<1> QED BY <1>1, <1>2, <1>3, <1>4, <1>5, <1>6, <1>7 DEF Driver, DriveTurn

LEMMA DriverLatch ==
    ASSUME TypeOK, LatchInv, Driver
    PROVE  LatchInv'
<1>1. Stepped /\ NoLate(stack) /\ stack \in Seq(Frames)
  BY DriverSteps, NothingLateUnderDriver DEF Stepped, TypeOK
<1>2. NoLate(stack')
  <2>1. ASSUME NEW w \in BOOLEAN, stack' = <<[op |-> "replay", wake |-> w]>>
        PROVE  NoLate(stack')
    BY <2>1 DEF NoLate, IsLate
  <2> QED BY <1>1, <2>1, PopKeepsOrder DEF Stepped
<1>3. LateAboveDriver(stack)'
  BY <1>2 DEF LateAboveDriver, NoLate
<1>4. LatchOnlyWhenBlocked'
  BY <1>1 DEF Stepped, LatchInv, LatchOnlyWhenBlocked, Aborted
<1> QED BY <1>2, <1>3, <1>4 DEF LatchInv, NoLate

(* A driver starts only for an idle agent, and that one has nothing late. *)
LEMMA StartDriverLatch ==
    ASSUME TypeOK, NEW rest \in Seq(Frames), NoLate(rest), StartDriver(rest)
    PROVE  LatchInv'
<1> DEFINE q == <<[op |-> "drive"]>> \o rest
<1>1. /\ DOMAIN q = 1..Len(q) /\ q[1] = [op |-> "drive"]
      /\ \A i \in 2..Len(q) : q[i] = rest[i - 1] /\ i - 1 \in DOMAIN rest
  BY FrameTypes, ConcatProperties, LenProperties
<1>2. NoLate(q)
  <2> SUFFICES ASSUME NEW i \in DOMAIN q PROVE ~IsLate(q[i])
    BY DEF NoLate
  <2>1. CASE i = 1
    BY <1>1, <2>1 DEF IsLate
  <2>2. CASE i # 1
    <3>1. i \in 2..Len(q)
      BY <1>1, <2>2
    <3> QED BY <1>1, <3>1 DEF NoLate
  <2> QED BY <2>1, <2>2
<1>3. stack' = q /\ phase'.wake = FALSE
  BY DEF StartDriver, Idle
<1> QED BY <1>2, <1>3 DEF LatchInv, LatchOnlyWhenBlocked, LateAboveDriver, NoLate

LEMMA WakeDriverLatch ==
    ASSUME TypeOK, LatchInv, NEW after \in BOOLEAN, stack # <<>>,
           after => phase.kind # "idle" /\ Aborted, WakeDriver(after, Tail(stack))
    PROVE  LatchInv'
<1>0. stack \in Seq(Frames) /\ Tail(stack) \in Seq(Frames) /\ phase \in Phases
      /\ phase.wake \in BOOLEAN /\ phase.kind \in {"idle", "maintenance", "running"}
  BY TopOfStack DEF TypeOK, Phases
<1>1. LateAboveDriver(Tail(stack)) /\ (NoLate(stack) => NoLate(Tail(stack)))
  BY <1>0, PopKeepsOrder DEF LatchInv
<1>2. CASE phase.kind # "idle"
  <2> DEFINE b == \/ phase.wake
                  \/ phase.abort # "disposed" /\ (phase.kind = "maintenance" \/ after)
  <2>1. phase' = [phase EXCEPT !.wake = b] /\ stack' = Tail(stack)
    BY <1>2, Zenon DEF WakeDriver
  <2>2. phase'.wake <=> b
    BY <1>0, <2>1 DEF Phases
  <2>3. phase'.kind = phase.kind /\ phase'.abort = phase.abort
    BY <1>0, <2>1 DEF Phases
  <2>4. LatchOnlyWhenBlocked'
    BY <1>0, <1>2, <2>2, <2>3 DEF LatchInv, LatchOnlyWhenBlocked, Aborted
  <2> QED BY <1>1, <1>2, <2>1, <2>3, <2>4 DEF LatchInv, Aborted
<1>3. CASE phase.kind = "idle"
  <2>1. StartDriver(Tail(stack))
    BY <1>3, Zenon DEF WakeDriver
  <2>2. NoLate(Tail(stack))
    BY <1>1, <1>3 DEF LatchInv
  <2> QED BY <1>0, <2>1, <2>2, StartDriverLatch
<1> QED BY <1>2, <1>3

LEMMA AbortLatch ==
    ASSUME TypeOK, LatchInv, NEW cause \in Causes, NEW keep \in BOOLEAN, Abort(cause, keep)
    PROVE  /\ LatchOnlyWhenBlocked'
           /\ phase.kind # "idle" /\ Aborted => phase'.kind # "idle" /\ Aborted'
           /\ phase.kind = "idle" => phase' = phase
<1>0. phase \in Phases /\ phase.wake \in BOOLEAN
  BY DEF TypeOK, Phases
<1>1. CASE phase.kind = "idle"
  <2>1. phase' = phase
    BY <1>1 DEF Abort
  <2> QED BY <1>1, <2>1 DEF LatchInv, LatchOnlyWhenBlocked, Aborted
<1>2. CASE phase.kind # "idle"
  <2> DEFINE a == IF phase.abort = "none" THEN cause ELSE phase.abort
             b == keep /\ phase.wake
  <2>1. phase' = [phase EXCEPT !.abort = a, !.wake = b]
    BY <1>2 DEF Abort
  <2>2. phase'.kind = phase.kind /\ phase'.abort = a /\ a # "none"
    BY <1>0, <2>1 DEF Phases, Causes
  <2>3. phase'.kind \in {"maintenance", "running"}
    BY <1>0, <1>2, <2>2 DEF Phases
  <2> QED BY <1>2, <2>2, <2>3 DEF LatchOnlyWhenBlocked, Aborted
<1> QED BY <1>1, <1>2

(* The two ways the stack of a call changes keep what is on it in order. *)
LEMMA SameStackLatch ==
    ASSUME TypeOK, LatchInv, LatchOnlyWhenBlocked',
           phase.kind # "idle" /\ Aborted => phase'.kind # "idle" /\ Aborted',
           \/ stack' = stack
           \/ stack # <<>> /\ stack' = Tail(stack)
           \/ \E f \in Frames : /\ f.op \notin {"drive", "wake"}
                                /\ \/ stack' = <<f>> \o stack
                                   \/ stack # <<>> /\ stack' = <<f>> \o Tail(stack)
    PROVE  LatchInv'
<1>0. /\ stack \in Seq(Frames)
      /\ stack # <<>> => /\ Tail(stack) \in Seq(Frames)
                         /\ LateAboveDriver(Tail(stack))
                         /\ NoLate(stack) => NoLate(Tail(stack))
  BY PopKeepsOrder, TopOfStack DEF TypeOK, LatchInv
<1>1. CASE stack' = stack \/ (stack # <<>> /\ stack' = Tail(stack))
  BY <1>0, <1>1 DEF LatchInv
<1>2. ASSUME NEW f \in Frames, f.op \notin {"drive", "wake"},
             \/ stack' = <<f>> \o stack
             \/ stack # <<>> /\ stack' = <<f>> \o Tail(stack)
      PROVE  LatchInv'
  <2>1. ~IsLate(f)
    BY <1>2 DEF IsLate
  <2>2. LateAboveDriver(stack') /\ (NoLate(stack) => NoLate(stack'))
    <3>1. CASE stack' = <<f>> \o stack
      BY <1>0, <1>2, <2>1, <3>1, PushKeepsOrder DEF LatchInv
    <3>2. CASE stack # <<>> /\ stack' = <<f>> \o Tail(stack)
      BY <1>0, <1>2, <2>1, <3>2, PushKeepsOrder
    <3> QED BY <1>2, <3>1, <3>2
  <2> QED BY <2>2 DEF LatchInv
<1> QED BY <1>1, <1>2

LEMMA CancelLatch ==
    ASSUME TypeOK, LatchInv, NEW cause \in Causes, NEW rest,
           \/ \E keep \in BOOLEAN : rest = stack /\ CancelCall(cause, keep)
           \/ stack # <<>> /\ rest = Tail(stack) /\ ClearTurns(cause, rest)
           \/ stack # <<>> /\ rest = Tail(stack) /\ Abort(cause, FALSE) /\ stack' = rest
    PROVE  LatchInv'
<1>0. \A op \in {"clear", "abort"} : [op |-> op, cause |-> cause] \in Frames
  BY FrameTypes
<1>1. /\ \/ UNCHANGED phase
         \/ \E keep \in BOOLEAN : Abort(cause, keep)
      /\ \/ stack' = rest
         \/ \E op \in {"clear", "abort"} : stack' = <<[op |-> op, cause |-> cause]>> \o rest
      /\ rest = stack \/ (stack # <<>> /\ rest = Tail(stack))
  BY DEF CancelCall, ClearTurns
<1>2. /\ LatchOnlyWhenBlocked'
      /\ phase.kind # "idle" /\ Aborted => phase'.kind # "idle" /\ Aborted'
  BY <1>1, AbortLatch DEF LatchInv, LatchOnlyWhenBlocked, Aborted
<1>3. \/ stack' = stack
      \/ stack # <<>> /\ stack' = Tail(stack)
      \/ \E f \in Frames : /\ f.op \notin {"drive", "wake"}
                           /\ \/ stack' = <<f>> \o stack
                              \/ stack # <<>> /\ stack' = <<f>> \o Tail(stack)
  BY <1>0, <1>1
<1> QED BY <1>2, <1>3, SameStackLatch

LEMMA CallLatch ==
    ASSUME TypeOK, LatchInv,
           Call \/ Unfinished \/ MaintenanceEnds \/ WhenIdleReturns
    PROVE  LatchInv'
<1>0. stack \in Seq(Frames) /\ phase \in Phases
  BY DEF TypeOK
<1>1. ASSUME NEW m \in Msgs, NEW target \in Targets, NEW wakeup \in BOOLEAN,
             Send(m, target, wakeup)
      PROVE  LatchInv'
  <2> DEFINE after == wakeup /\ phase.kind # "idle" /\ Aborted
             f == [op |-> "wake", after |-> after]
  <2>1. f \in Frames /\ f.op = "wake" /\ (IsLate(f) => phase.kind # "idle" /\ Aborted)
    BY FrameTypes DEF IsLate
  <2>2. UNCHANGED phase /\ stack' = IF wakeup THEN <<f>> \o stack ELSE stack
    BY <1>1 DEF Send
  <2>3. LateAboveDriver(stack') /\ (NoLate(stack) /\ ~IsLate(f) => NoLate(stack'))
    BY <1>0, <2>1, <2>2, PushKeepsOrder DEF LatchInv
  <2> QED BY <2>1, <2>2, <2>3 DEF LatchInv, LatchOnlyWhenBlocked, Aborted
<1>2. CASE (\E m \in Msgs : Remove(m)) \/ WhenIdleReturns
  <2>1. UNCHANGED <<phase, stack>>
    BY <1>2 DEF Remove, WhenIdleReturns
  <2> QED BY <2>1 DEF LatchInv, LatchOnlyWhenBlocked, Aborted
<1>3. ASSUME NEW keep \in BOOLEAN, Cancel(keep) PROVE LatchInv'
  BY <1>3, CancelLatch DEF Cancel, Causes
<1>4. CASE Dispose
  BY <1>4, CancelLatch DEF Dispose, Causes
<1>5. CASE RunMaintenance
  <2>1. phase' = [phase EXCEPT !.kind = "maintenance", !.abort = "none", !.wake = FALSE]
        /\ phase.kind = "idle" /\ UNCHANGED stack
    BY <1>5 DEF RunMaintenance
  <2>2. phase'.wake = FALSE
    BY <1>0, <2>1 DEF Phases
  <2> QED BY <2>1, <2>2 DEF LatchInv, LatchOnlyWhenBlocked
<1>6. CASE Wake
  <2>1. /\ stack # <<>> /\ WakeDriver(Head(stack).after, Tail(stack))
        /\ Head(stack).op = "wake" /\ Head(stack).after \in BOOLEAN
    BY <1>0, <1>6, TopOfStack DEF Wake, OnTop
  <2>2. Head(stack).after => phase.kind # "idle" /\ Aborted
    <3>1. 1 \in DOMAIN stack /\ stack[1] = Head(stack)
      BY <1>0, <2>1, HeadTailProperties, LenProperties
    <3> QED BY <2>1, <3>1 DEF LatchInv, NoLate, IsLate
  <2> QED BY <2>1, <2>2, WakeDriverLatch
<1>7. CASE CancelResumes
  <2>1. stack # <<>> /\ Head(stack).cause \in Causes
    BY <1>0, <1>7, TopOfStack DEF CancelResumes, OnTop
  <2> QED BY <1>7, <2>1, CancelLatch DEF CancelResumes
<1>8. CASE Replay
  <2>1. CASE stack # <<>> /\ WakeDriver(FALSE, Tail(stack))
    BY <2>1, WakeDriverLatch
  <2>2. CASE stack # <<>> /\ stack' = Tail(stack) /\ UNCHANGED phase
    BY <2>2, SameStackLatch DEF LatchInv, LatchOnlyWhenBlocked, Aborted
  <2> QED BY <1>8, <2>1, <2>2, Zenon DEF Replay, OnTop
<1>9. CASE MaintenanceEnds
  <2>1. stack = <<>> /\ <<>> \in Seq(Frames) /\ NoLate(<<>>)
    BY <1>9, EmptySeq DEF MaintenanceEnds, NoLate
  <2>2. CASE StartDriver(<<>>)
    BY <2>1, <2>2, StartDriverLatch
  <2>3. CASE phase' = Idle(phase.turn) /\ UNCHANGED stack
    <3>1. phase'.wake = FALSE
      BY <2>3 DEF Idle
    <3> QED BY <2>1, <2>3, <3>1 DEF LatchInv, LatchOnlyWhenBlocked, NoLate
  <2> QED BY <1>9, <2>2, <2>3, Zenon DEF MaintenanceEnds
<1> QED BY <1>1, <1>2, <1>3, <1>4, <1>5, <1>6, <1>7, <1>8, <1>9 DEF Call, Unfinished

(* The latch of a wake that has to wait is held by maintenance or by a     *)
(* driver whose controller is aborted, and by nobody else: no sequence of  *)
(* nested sends and cancels leaves a latch that would start a turn nobody  *)
(* asked for.                                                              *)
THEOREM LatchIsHeldByTheBlocked == Spec => []LatchOnlyWhenBlocked
<1>1. Init => LatchInv
  BY DEF Init, Idle, LatchInv, LatchOnlyWhenBlocked, LateAboveDriver, NoLate
<1>2. TypeOK /\ LatchInv /\ [Next]_vars => LatchInv'
  <2>1. ASSUME TypeOK, LatchInv, UNCHANGED vars PROVE LatchInv'
    BY <2>1 DEF vars, LatchInv, LatchOnlyWhenBlocked, Aborted
  <2> QED BY <2>1, CallLatch, DriverLatch DEF Next
<1>3. LatchInv => LatchOnlyWhenBlocked
  BY DEF LatchInv
<1> QED BY <1>1, <1>2, <1>3, TypeCorrect, PTL DEF Spec
-----------------------------------------------------------------------------
(***************************************************************************)
(* The recorded reason.  A turn that is open has a driver, so its phase is *)
(* neither idle nor maintenance and its controller can only gain its first *)
(* cause; and from every position that still looks at the signal the       *)
(* driver moves to another such position or unwinds through the catch      *)
(* clause.  The two decisions that open no step are reached only with a    *)
(* controller that nobody has aborted yet.                                 *)
(***************************************************************************)
Hearing == (InTurn \ {"rejected", "nothingLeft", "closing"}) \cup InStep

LEMMA HearsAt ==
    ASSUME TypeOK, LogAgrees
    PROVE  Hears <=> pc \in Hearing
<1>1. pc \in Between \cup InTurn \cup InStep
  BY DEF TypeOK, Pcs, AwaitPoints, AppendPoints, Decided, Between, InTurn, InStep
<1>2. pc \in Between => trace.openTurn = 0
  BY DEF LogAgrees, Between
<1>3. pc \in InTurn \cup InStep => trace.openTurn # 0
  BY DEF TypeOK, Phases, LogAgrees, Decided, InTurn, InStep
<1> QED BY <1>1, <1>2, <1>3 DEF Hears, Hearing, Between, InTurn, InStep

(* The same of the state a step leads to. *)
LEMMA HearsAtNext ==
    ASSUME TypeOK', LogAgrees'
    PROVE  Hears' <=> pc' \in Hearing
<1>1. pc' \in Between \cup InTurn \cup InStep
  BY DEF TypeOK, Pcs, AwaitPoints, AppendPoints, Decided, Between, InTurn, InStep
<1>2. pc' \in Between => trace'.openTurn = 0
  BY DEF LogAgrees, Between
<1>3. pc' \in InTurn \cup InStep => trace'.openTurn # 0
  BY DEF TypeOK, Phases, LogAgrees, Decided, InTurn, InStep
<1> QED BY <1>1, <1>2, <1>3 DEF Hears, Hearing, Between, InTurn, InStep

(* AbortedTurnSaysSo over positions. *)
Recorded ==
    /\ pc \in Hearing /\ Aborted =>
          /\ phase'.abort = phase.abort
          /\ pc' \in Hearing \/ (pc' = "closing" /\ turnEnds' = phase.abort)
    /\ turnEnds' \in Causes /\ turnEnds # turnEnds' =>
          pc \in Hearing /\ turnEnds' = phase.abort
    /\ pc = "closing" => turnEnds' = turnEnds

LEMMA CallersKeepTheCause ==
    ASSUME TypeOK, LogAgrees, Call \/ Unfinished \/ MaintenanceEnds \/ WhenIdleReturns
    PROVE  Recorded
<1> USE DEF driverVars
<1>0. phase \in Phases /\ (pc \in Hearing => phase.kind = "running")
  BY DEF TypeOK, LogAgrees, Hearing, InTurn, InStep
<1>1. turnEnds' = turnEnds
  <2>1. CASE Call
    BY <2>1 DEF Call, Send, Remove, Cancel, Dispose, RunMaintenance
  <2>2. CASE Unfinished
    BY <2>2, Zenon DEF Unfinished, Wake, CancelResumes, Replay
  <2>3. CASE MaintenanceEnds \/ WhenIdleReturns
    BY <2>3, Zenon DEF MaintenanceEnds, WhenIdleReturns
  <2> QED BY <2>1, <2>2, <2>3
<1>2. pc \in Hearing => pc' = pc
  BY CallersLeaveTheLog DEF CallerStep, Hearing, InTurn, InStep
<1>3. ASSUME pc \in Hearing, Aborted
      PROVE  phase'.abort = phase.abort
  <2>0. phase.kind = "running" /\ phase.abort # "none"
    BY <1>0, <1>3 DEF Aborted
  <2>1. ASSUME NEW cause, NEW keep \in BOOLEAN, Abort(cause, keep)
        PROVE  phase'.abort = phase.abort
    BY <1>0, <2>0, <2>1 DEF Abort, Phases
  <2>2. ASSUME NEW cause, NEW rest, ClearTurns(cause, rest)
        PROVE  phase'.abort = phase.abort
    BY <2>1, <2>2 DEF ClearTurns
  <2>3. ASSUME NEW cause, NEW keep \in BOOLEAN, CancelCall(cause, keep)
        PROVE  phase'.abort = phase.abort
    BY <2>1, <2>2, <2>3 DEF CancelCall
  <2>4. ASSUME NEW after, NEW rest, WakeDriver(after, rest)
        PROVE  phase'.abort = phase.abort
    <3>1. PICK b : phase' = [phase EXCEPT !.wake = b]
      BY <2>0, <2>4, Zenon DEF WakeDriver
    <3> QED BY <1>0, <3>1 DEF Phases
  <2>5. CASE Call
    BY <2>0, <2>3, <2>5 DEF Call, Send, Remove, Cancel, Dispose, RunMaintenance
  <2>6. CASE Unfinished
    <3>1. CASE CancelResumes
      BY <2>1, <2>2, <3>1 DEF CancelResumes
    <3>2. CASE Wake \/ Replay
      <4>1. (\E after, rest : WakeDriver(after, rest)) \/ UNCHANGED phase
        BY <3>2, Zenon DEF Wake, Replay
      <4> QED BY <2>4, <4>1
    <3> QED BY <2>6, <3>1, <3>2 DEF Unfinished
  <2>7. CASE MaintenanceEnds \/ WhenIdleReturns
    BY <2>0, <2>7, Zenon DEF MaintenanceEnds, WhenIdleReturns
  <2> QED BY <2>5, <2>6, <2>7
<1> QED BY <1>1, <1>2, <1>3 DEF Recorded

(* The catch clause records the cause of the controller. *)
LEMMA UnwindRecords ==
    ASSUME TypeOK, Unwind, UNCHANGED phase, pc \in Hearing
    PROVE  Recorded
<1>1. pc' = "closing" /\ turnEnds' = IF Aborted THEN phase.abort ELSE "error"
  BY DEF Unwind, Catch, Goto
<1>2. "error" \notin Causes /\ pc # "closing"
  BY DEF Causes, Hearing, InTurn, InStep
<1> QED BY <1>1, <1>2 DEF Recorded

(* A move between positions that look at the signal, with no cause written, *)
(* or one of a turn nobody has aborted.                                     *)
LEMMA QuietRecords ==
    ASSUME pc # "closing", turnEnds' = turnEnds \/ turnEnds' \notin Causes,
           \/ pc \notin Hearing \/ ~Aborted
           \/ pc' \in Hearing /\ phase'.abort = phase.abort
    PROVE  Recorded
  BY DEF Recorded

LEMMA ProposeStepRecords ==
    ASSUME TypeOK, NEW target, ProposeStep(target), UNCHANGED phase, pc \in Hearing
    PROVE  Recorded
<1>1. CASE Unwind
  BY <1>1, UnwindRecords
<1>2. CASE Goto("preStep") /\ UNCHANGED turnEnds
  BY <1>2, QuietRecords DEF Goto, Hearing, InTurn, InStep
<1> QED BY <1>1, <1>2 DEF ProposeStep

LEMMA DriverRecords ==
    ASSUME TypeOK, Driver
    PROVE  Recorded
<1> USE DEF Resume, Hearing, InTurn, InStep
<1>0. phase \in Phases
  BY DEF TypeOK
<1>1. CASE StartTurn \/ AfterTurn \/ Retire
  <2>1. pc \in {"kick", "again", "closed", "returned"}
    BY <1>1 DEF StartTurn, AfterTurn, Retire
  <2>2. turnEnds' \in {turnEnds, "none"}
    BY <1>1 DEF StartTurn, AfterTurn, Retire
  <2> QED BY <2>1, <2>2, QuietRecords DEF Causes
<1>2. CASE OpenFirstStep
  BY <1>2, ProposeStepRecords DEF OpenFirstStep
<1>3. CASE PreStepFails
  BY <1>3, UnwindRecords DEF PreStepFails
<1>4. CASE PreStepSettles
  BY <1>4, QuietRecords DEF PreStepSettles
<1>5. CASE TurnBlocked \/ NoStepNeeded
  <2>1. pc \in {"rejected", "nothingLeft"} /\ turnEnds' \in {turnEnds, "blocked", "completed"}
    BY <1>5 DEF TurnBlocked, NoStepNeeded
  <2> QED BY <2>1, QuietRecords DEF Causes
<1>6. ASSUME NEW kept, EnterStep(kept)
      PROVE  Recorded
  <2>1. CASE Unwind /\ UNCHANGED phase
    BY <1>6, <2>1, UnwindRecords DEF EnterStep
  <2>2. CASE ~Aborted /\ UNCHANGED turnEnds
    BY <1>6, <2>2, QuietRecords DEF EnterStep
  <2> QED BY <1>6, <2>1, <2>2 DEF EnterStep
<1>7. CASE CloseStep
  <2>1. pc = "answered" /\ pc' = "stepped" /\ UNCHANGED phase /\ turnEnds' = StickyEnd
    BY <1>7 DEF CloseStep, Goto
  <2>2. turnEnds' = turnEnds \/ turnEnds' \notin Causes
    BY <2>1 DEF TypeOK, StickyEnd, Causes
  <2> QED BY <2>1, <2>2, QuietRecords
<1>8. CASE AfterStep
  <2>1. pc = "stepped" /\ UNCHANGED phase
    BY <1>8 DEF AfterStep
  <2>2. CASE Unwind
    BY <2>1, <2>2, UnwindRecords
  <2>3. CASE Goto("turnStopping") /\ UNCHANGED turnEnds
    BY <2>1, <2>3, QuietRecords DEF Goto
  <2>4. CASE ProposeStep("next-step")
    BY <2>1, <2>4, ProposeStepRecords
  <2> QED BY <1>8, <2>2, <2>3, <2>4 DEF AfterStep
<1>9. CASE TurnStopping
  <2>1. pc = "turnStopping" /\ UNCHANGED phase
    BY <1>9 DEF TurnStopping
  <2>2. CASE Unwind
    BY <2>1, <2>2, UnwindRecords
  <2>3. CASE ~Aborted /\ Goto("closing") /\ UNCHANGED turnEnds
    BY <2>1, <2>3, QuietRecords
  <2>4. CASE ProposeStep("next-step")
    BY <2>1, <2>4, ProposeStepRecords
  <2> QED BY <1>9, <2>2, <2>3, <2>4 DEF TurnStopping
<1>10. CASE CloseTurn
  BY <1>10 DEF CloseTurn, Recorded
<1>11. CASE DriveStep
  <2>1. /\ pc \in InStep /\ UNCHANGED <<phase, turnEnds>>
        /\ \/ \E p \in InStep : Goto(p)
           \/ pc' = pc
    BY <1>11
       DEF DriveStep, RequestBuilt, StreamChunk, StreamInterrupted, StreamReportsError,
           RequestRetried, StepThrows, StreamAnswers, StreamAsksForTools, ToolCall,
           ToolResult, ToolsReturn, ToolsThrow, StepReturns, idleInStep
  <2> QED BY <2>1, QuietRecords DEF Goto
<1> QED BY <1>1, <1>2, <1>3, <1>4, <1>5, <1>6, <1>7, <1>8, <1>9, <1>10, <1>11
        DEF Driver, DriveTurn

(* A cancel that reaches an open turn before its driver's last look at the *)
(* signal is the reason its turn/end records, first cause first, whichever *)
(* frame of the stack asked for it; and no other turn says so.             *)
THEOREM AbortIsRecorded == Spec => AbortedTurnSaysSo
<1>1. ASSUME TypeOK, LogAgrees, TypeOK', LogAgrees', [Next]_vars
      PROVE  \/ UNCHANGED vars
             \/ /\ Hears /\ Aborted =>
                      /\ phase'.abort = phase.abort
                      /\ Hears' \/ (pc' = "closing" /\ turnEnds' = phase.abort)
                /\ turnEnds' \in Causes /\ turnEnds # turnEnds' =>
                      Hears /\ turnEnds' = phase.abort
                /\ pc = "closing" => turnEnds' = turnEnds
  <2>1. CASE Next
    <3>1. Recorded
      BY <1>1, <2>1, CallersKeepTheCause, DriverRecords DEF Next
    <3>2. (Hears <=> pc \in Hearing) /\ (Hears' <=> pc' \in Hearing)
      <4>1. Hears <=> pc \in Hearing
        BY <1>1, HearsAt
      <4>2. Hears' <=> pc' \in Hearing
        BY <1>1, HearsAtNext
      <4> QED BY <4>1, <4>2
    <3> QED BY <3>1, <3>2 DEF Recorded
  <2> QED BY <1>1, <2>1
<1> QED BY <1>1, TypeCorrect, PositionAgreesWithLog, PTL DEF Spec, AbortedTurnSaysSo
-----------------------------------------------------------------------------
(***************************************************************************)
(* The queues.  Read position by position: what stands in a queue is       *)
(* pending and stands nowhere else, what is pending stands somewhere, and  *)
(* the messages of the proposed step are claimed, so that delivering them  *)
(* takes nothing from a queue.                                             *)
(***************************************************************************)
QueueInv ==
    /\ \A t \in Targets : \A i \in DOMAIN inbox[t] : fate[inbox[t][i]] = "pending"
    /\ \A t, u \in Targets : \A i \in DOMAIN inbox[t], j \in DOMAIN inbox[u] :
          inbox[t][i] = inbox[u][j] => t = u /\ i = j
    /\ \A m \in Msgs : fate[m] = "pending" =>
          \E t \in Targets : \E i \in DOMAIN inbox[t] : inbox[t][i] = m
    /\ \A i \in DOMAIN batch : fate[batch[i]] = "claimed"

(* No turn so far owns a message the next turn could claim as its first.   *)
OwnerInv ==
    /\ \A m, n \in Msgs : owner[m] # 0 /\ owner[m] = owner[n] => m = n
    /\ \A m \in Msgs : owner[m] <= phase.turn
    /\ pc = "opened" => \A m \in Msgs : owner[m] # phase.turn

(* The ways one step may change the queues. *)
Emptied(t) == Discard(t, 1, Len(inbox[t]))
Withdrawn(t) == \E i \in DOMAIN inbox[t] : Discard(t, i, i)

MessageStep ==
    \/ UNCHANGED inboxVars /\ batch' \in {batch, <<>>}
    \/ /\ \E m \in Msgs, t \in Targets : fate[m] = "unsent" /\ Insert(m, t)
       /\ UNCHANGED batch
    \/ \E t \in Targets : (Emptied(t) \/ Withdrawn(t)) /\ UNCHANGED batch
    \/ \E kept \in SUBSET Elements(batch) :
          /\ fate' = [m \in Msgs |-> IF m \in kept THEN "delivered" ELSE fate[m]]
          /\ batch' = <<>> /\ UNCHANGED <<inbox, owner>>
    \/ \E t \in Targets : /\ Claim(t) /\ UNCHANGED phase /\ pc' = "preStep"
                          /\ t = "next-turn" => pc = "opened"

TurnStep ==
    \/ phase'.turn = phase.turn /\ (pc' = "opened" => pc = "opened")
    \/ phase'.turn = phase.turn + 1 /\ UNCHANGED owner

LEMMA CallMessages ==
    ASSUME TypeOK, LogAgrees, Call \/ Unfinished \/ MaintenanceEnds \/ WhenIdleReturns
    PROVE  MessageStep /\ TurnStep
<1> USE DEF inboxVars, driverVars
<1>0. TurnStep
  BY CallersLeaveTheLog DEF CallerStep, TurnStep
<1>a. "next-turn" \in Targets /\ "next-step" \in Targets
  BY DEF Targets
<1>1. ASSUME NEW m \in Msgs, NEW target \in Targets, NEW wakeup \in BOOLEAN,
             Send(m, target, wakeup)
      PROVE  MessageStep
  <2>1. fate[m] = "unsent" /\ UNCHANGED batch /\ \E t \in Targets : Insert(m, t)
    BY <1>1, <1>a DEF Send
  <2> QED BY <2>1 DEF MessageStep
<1>2. ASSUME NEW m \in Msgs, Remove(m)
      PROVE  MessageStep
  <2>1. (\E t \in Targets : Withdrawn(t)) /\ UNCHANGED batch
    BY <1>2 DEF Remove, Withdrawn
  <2> QED BY <2>1 DEF MessageStep
<1>3. ASSUME NEW cause, NEW rest, ClearTurns(cause, rest), UNCHANGED batch
      PROVE  MessageStep
  BY <1>3, <1>a DEF ClearTurns, MessageStep, Emptied
<1>4. ASSUME NEW cause \in Causes, NEW keep \in BOOLEAN,
             CancelCall(cause, keep), UNCHANGED batch
      PROVE  MessageStep
  BY <1>4, <1>3, <1>a DEF CancelCall, MessageStep, Emptied
<1>5. CASE Dispose \/ \E keep \in BOOLEAN : Cancel(keep)
  <2>1. \E cause \in Causes, keep \in BOOLEAN : CancelCall(cause, keep)
    BY <1>5 DEF Dispose, Cancel, Causes
  <2>2. UNCHANGED batch
    BY <1>5 DEF Dispose, Cancel
  <2> QED BY <1>0, <1>4, <2>1, <2>2
<1>6. CASE CancelResumes
  <2>1. /\ UNCHANGED batch
        /\ ClearTurns(Head(stack).cause, Tail(stack)) \/ UNCHANGED inboxVars
    BY <1>6 DEF CancelResumes
  <2> QED BY <1>0, <1>3, <2>1 DEF MessageStep
<1>7. CASE RunMaintenance \/ Wake \/ Replay \/ MaintenanceEnds \/ WhenIdleReturns
  <2>1. UNCHANGED inboxVars /\ UNCHANGED batch
    BY <1>7, Zenon DEF RunMaintenance, Wake, Replay, MaintenanceEnds, WhenIdleReturns
  <2> QED BY <1>0, <2>1, Zenon DEF MessageStep
<1>8. MessageStep
  BY <1>1, <1>2, <1>5, <1>6, <1>7 DEF Call, Unfinished
<1> QED BY <1>0, <1>8

LEMMA DriverMessages ==
    ASSUME TypeOK, Driver
    PROVE  MessageStep /\ TurnStep
<1> USE DEF inboxVars, callerVars, Resume
<1>0. phase \in Phases /\ "next-turn" \in Targets /\ "next-step" \in Targets
  BY DEF TypeOK, Targets
<1>a. ASSUME NEW t \in Targets, ProposeStep(t), t = "next-turn" => pc = "opened",
             UNCHANGED phase
      PROVE  MessageStep /\ TurnStep
  BY <1>a DEF ProposeStep, Unwind, Goto, MessageStep, TurnStep
<1>1. CASE StartTurn
  BY <1>0, <1>1 DEF StartTurn, Goto, Phases, MessageStep, TurnStep
<1>2. CASE OpenFirstStep
  <2>1. pc = "opened" /\ ProposeStep("next-turn") /\ UNCHANGED phase
    BY <1>2 DEF OpenFirstStep
  <2> QED BY <1>0, <1>a, <2>1
<1>3. CASE \/ PreStepFails \/ PreStepSettles \/ TurnBlocked \/ NoStepNeeded
           \/ CloseStep \/ CloseTurn
  <2>1. /\ UNCHANGED <<phase, inboxVars>> /\ batch' \in {batch, <<>>}
        /\ pc' # "opened"
    BY <1>3
       DEF PreStepFails, PreStepSettles, Decide, TurnBlocked, NoStepNeeded, CloseStep,
           CloseTurn, Unwind, Goto
  <2> QED BY <2>1 DEF MessageStep, TurnStep
<1>4. ASSUME NEW kept \in SUBSET Elements(batch), EnterStep(kept)
      PROVE  MessageStep /\ TurnStep
  <2>1. CASE Unwind /\ UNCHANGED <<phase, fate, logVars>>
    BY <1>4, <2>1 DEF EnterStep, Unwind, Goto, MessageStep, TurnStep
  <2>2. CASE /\ phase' = [phase EXCEPT !.step = @ + 1]
             /\ fate' = [m \in Msgs |-> IF m \in kept THEN "delivered" ELSE fate[m]]
             /\ Goto("request")
    <3>1. phase'.turn = phase.turn /\ pc' = "request"
      BY <1>0, <2>2 DEF Goto, Phases
    <3> QED BY <1>4, <2>2, <3>1 DEF EnterStep, MessageStep, TurnStep
  <2> QED BY <1>4, <2>1, <2>2 DEF EnterStep
<1>5. CASE AfterStep
  <2>1. UNCHANGED phase /\ \/ ProposeStep("next-step")
                           \/ /\ UNCHANGED <<batch, inboxVars>>
                              /\ pc' \in {"closing", "turnStopping"}
    BY <1>5 DEF AfterStep, Unwind, Goto
  <2> QED BY <1>0, <1>a, <2>1 DEF MessageStep, TurnStep
<1>6. CASE TurnStopping
  <2>1. UNCHANGED phase /\ \/ ProposeStep("next-step")
                           \/ UNCHANGED <<batch, inboxVars>> /\ pc' = "closing"
    BY <1>6 DEF TurnStopping, Unwind, Goto
  <2> QED BY <1>0, <1>a, <2>1 DEF MessageStep, TurnStep
<1>7. CASE AfterTurn \/ Retire
  <2>1. UNCHANGED <<batch, inboxVars>> /\ pc' \in {"returned", "again", "none"}
    BY <1>7 DEF AfterTurn, Retire, Goto
  <2>2. CASE AfterTurn
    <3>1. phase'.turn = phase.turn
      BY <1>0, <2>2 DEF AfterTurn, Phases
    <3> QED BY <2>1, <3>1 DEF MessageStep, TurnStep
  <2>3. CASE Retire
    <3>1. phase'.turn = phase.turn
      BY <2>3 DEF Retire, Idle
    <3> QED BY <2>1, <3>1 DEF MessageStep, TurnStep
  <2> QED BY <1>7, <2>2, <2>3
<1>8. ASSUME NEW c \in Calls, ToolResult(c)
      PROVE  MessageStep /\ TurnStep
  BY <1>0, <1>8 DEF ToolResult, MessageStep, TurnStep
<1>9. ASSUME NEW c \in Calls, ToolCall(c)
      PROVE  MessageStep /\ TurnStep
  BY <1>9 DEF ToolCall, idleInStep, MessageStep, TurnStep
<1>10. CASE \/ RequestBuilt \/ StreamChunk \/ StreamInterrupted \/ StreamReportsError
            \/ RequestRetried \/ StepThrows \/ ToolsThrow
            \/ \E outcome \in {"max-tokens", "completed"} : StreamAnswers(outcome)
            \/ \E calls \in SUBSET Calls \ {{}} : StreamAsksForTools(calls)
            \/ \E outcome \in {"completed", "none"} : ToolsReturn(outcome)
  <2>1. UNCHANGED <<phase, batch, inboxVars>> /\ pc' # "opened"
    BY <1>10
       DEF RequestBuilt, StreamChunk, StreamInterrupted, StreamReportsError,
           RequestRetried, StepThrows, StreamAnswers, StreamAsksForTools,
           ToolsReturn, ToolsThrow, StepReturns, idleInStep, Goto
  <2> QED BY <2>1 DEF MessageStep, TurnStep
<1> QED BY <1>1, <1>2, <1>3, <1>4, <1>5, <1>6, <1>7, <1>8, <1>9, <1>10
        DEF Driver, DriveTurn, DriveStep

-----------------------------------------------------------------------------
LEMMA InsertQueue ==
    ASSUME TypeOK, QueueInv, NEW m \in Msgs, NEW t \in Targets,
           fate[m] = "unsent", Insert(m, t), UNCHANGED batch
    PROVE  QueueInv'
<1> DEFINE q == inbox[t]
<1>1. q \in Seq(Msgs) /\ \A u \in Targets : inbox[u] \in Seq(Msgs)
  BY DEF TypeOK
<1>2. /\ DOMAIN inbox'[t] = DOMAIN q \cup {Len(q) + 1}
      /\ Len(q) + 1 \notin DOMAIN q
      /\ \A i \in DOMAIN q : inbox'[t][i] = q[i]
      /\ inbox'[t][Len(q) + 1] = m
      /\ \A u \in Targets : u # t => inbox'[u] = inbox[u]
  <2>1. inbox'[t] = Append(q, m) /\ \A u \in Targets : u # t => inbox'[u] = inbox[u]
    BY DEF TypeOK, Insert
  <2> QED BY <1>1, <2>1, AppendProperties, LenProperties
<1>3. fate'[m] = "pending" /\ \A n \in Msgs : n # m => fate'[n] = fate[n]
  BY DEF TypeOK, Insert
<1>4. \A u \in Targets : \A i \in DOMAIN inbox[u] : inbox[u][i] \in Msgs /\ inbox[u][i] # m
  BY <1>1, ElementOfSeq DEF QueueInv
<1>5. \A i \in DOMAIN batch : batch[i] \in Msgs /\ batch[i] # m
  BY ElementOfSeq DEF TypeOK, QueueInv
<1>6. \A u \in Targets : \A i \in DOMAIN inbox'[u] :
          \/ u = t /\ i = Len(q) + 1 /\ inbox'[u][i] = m
          \/ i \in DOMAIN inbox[u] /\ inbox'[u][i] = inbox[u][i]
  BY <1>2
<1>7. \A u \in Targets : \A i \in DOMAIN inbox[u] :
          i \in DOMAIN inbox'[u] /\ inbox'[u][i] = inbox[u][i]
  BY <1>2
<1>8. \A u \in Targets : \A i \in DOMAIN inbox'[u] : fate'[inbox'[u][i]] = "pending"
  BY <1>3, <1>4, <1>6 DEF QueueInv
<1>9. \A u, v \in Targets : \A i \in DOMAIN inbox'[u], j \in DOMAIN inbox'[v] :
          inbox'[u][i] = inbox'[v][j] => u = v /\ i = j
  BY <1>4, <1>6 DEF QueueInv
<1>10. \A n \in Msgs : fate'[n] = "pending" =>
          \E u \in Targets : \E i \in DOMAIN inbox'[u] : inbox'[u][i] = n
  BY <1>2, <1>3, <1>7 DEF QueueInv
<1>11. \A i \in DOMAIN batch' : fate'[batch'[i]] = "claimed"
  BY <1>3, <1>5 DEF QueueInv
<1> QED BY <1>8, <1>9, <1>10, <1>11 DEF QueueInv

(* A splice as a renumbering: each position that remains was one before.   *)
Renumbers(t, Gone, Old) ==
    /\ \A i, j \in DOMAIN inbox'[t] : Old[i] = Old[j] => i = j
    /\ \A k \in DOMAIN inbox[t] \ Gone : \E i \in DOMAIN inbox'[t] : Old[i] = k
    /\ \A i \in DOMAIN inbox'[t] : inbox'[t][i] = inbox[t][Old[i]]
    /\ \A u \in Targets : u # t => inbox'[u] = inbox[u]
    /\ \A m \in Msgs : IF \E k \in Gone : inbox[t][k] = m
                       THEN fate'[m] # "pending" ELSE fate'[m] = fate[m]

LEMMA SpliceQueue ==
    ASSUME TypeOK, QueueInv, NEW t \in Targets,
           \E Gone \in SUBSET DOMAIN inbox[t] :
               \E Old \in [DOMAIN inbox'[t] -> DOMAIN inbox[t] \ Gone] :
                   Renumbers(t, Gone, Old)
    PROVE  /\ \A u \in Targets : \A i \in DOMAIN inbox'[u] : fate'[inbox'[u][i]] = "pending"
           /\ \A u, v \in Targets : \A i \in DOMAIN inbox'[u], j \in DOMAIN inbox'[v] :
                 inbox'[u][i] = inbox'[v][j] => u = v /\ i = j
           /\ \A m \in Msgs : fate'[m] = "pending" =>
                 \E u \in Targets : \E i \in DOMAIN inbox'[u] : inbox'[u][i] = m
<1>0. PICK Gone \in SUBSET DOMAIN inbox[t] :
         \E Old \in [DOMAIN inbox'[t] -> DOMAIN inbox[t] \ Gone] : Renumbers(t, Gone, Old)
  OBVIOUS
<1>a. PICK Old \in [DOMAIN inbox'[t] -> DOMAIN inbox[t] \ Gone] : Renumbers(t, Gone, Old)
  BY <1>0
<1> DEFINE Was(u, i) == IF u = t THEN Old[i] ELSE i
<1>1. \A u \in Targets : \A i \in DOMAIN inbox[u] : inbox[u][i] \in Msgs
  BY ElementOfSeq DEF TypeOK
<1>2. \A u \in Targets : \A i \in DOMAIN inbox'[u] :
          /\ Was(u, i) \in DOMAIN inbox[u] /\ inbox'[u][i] = inbox[u][Was(u, i)]
          /\ u = t => Was(u, i) \notin Gone
  BY <1>a DEF Renumbers
<1>3. \A u \in Targets : \A i \in DOMAIN inbox'[u] : fate'[inbox'[u][i]] = "pending"
  <2> SUFFICES ASSUME NEW u \in Targets, NEW i \in DOMAIN inbox'[u]
               PROVE  fate'[inbox'[u][i]] = "pending"
    OBVIOUS
  <2> DEFINE m == inbox'[u][i]
  <2>1. m \in Msgs /\ fate[m] = "pending"
    BY <1>1, <1>2 DEF QueueInv
  <2>2. ASSUME NEW k \in Gone, inbox[t][k] = m PROVE FALSE
    <3>1. t = u /\ k = Was(u, i)
      BY <1>2, <2>2 DEF QueueInv
    <3> QED BY <1>2, <3>1
  <2> QED BY <1>a, <2>1, <2>2 DEF Renumbers
<1>4. ASSUME NEW u \in Targets, NEW v \in Targets, NEW i \in DOMAIN inbox'[u],
             NEW j \in DOMAIN inbox'[v], inbox'[u][i] = inbox'[v][j]
      PROVE  u = v /\ i = j
  <2>1. u = v /\ Was(u, i) = Was(v, j)
    BY <1>2, <1>4 DEF QueueInv
  <2> QED BY <1>a, <2>1 DEF Renumbers
<1>5. ASSUME NEW m \in Msgs, fate'[m] = "pending"
      PROVE  \E u \in Targets : \E i \in DOMAIN inbox'[u] : inbox'[u][i] = m
  <2>1. fate[m] = "pending" /\ ~\E k \in Gone : inbox[t][k] = m
    BY <1>a, <1>5 DEF Renumbers
  <2>2. PICK u \in Targets : \E k \in DOMAIN inbox[u] : inbox[u][k] = m
    BY <2>1 DEF QueueInv
  <2>3. PICK k \in DOMAIN inbox[u] : inbox[u][k] = m
    BY <2>2
  <2>4. CASE u # t
    BY <1>a, <2>3, <2>4 DEF Renumbers
  <2>5. CASE u = t
    <3>1. PICK i \in DOMAIN inbox'[t] : Old[i] = k
      BY <1>a, <2>1, <2>3, <2>5 DEF Renumbers
    <3>2. inbox'[t][i] = m
      BY <1>a, <2>3, <2>5, <3>1 DEF Renumbers
    <3> QED BY <3>2
  <2> QED BY <2>4, <2>5
<1> QED BY <1>3, <1>4, <1>5

LEMMA DiscardQueue ==
    ASSUME TypeOK, QueueInv, NEW t \in Targets, Emptied(t) \/ Withdrawn(t), UNCHANGED batch
    PROVE  QueueInv'
<1> DEFINE q == inbox[t]
<1>1. q \in Seq(Msgs) /\ Len(q) \in Nat /\ DOMAIN q = 1..Len(q)
  BY LenProperties DEF TypeOK
<1>2. PICK from \in Int, to \in Int :
         /\ Discard(t, from, to) /\ 1 <= from /\ to <= Len(q) /\ from <= to + 1
  <2>1. CASE Emptied(t)
    BY <1>1, <2>1 DEF Emptied
  <2>2. CASE Withdrawn(t)
    BY <1>1, <2>2 DEF Withdrawn
  <2> QED BY <2>1, <2>2
<1> DEFINE k == to - from + 1
           a == SubSeq(q, 1, from - 1)
           b == SubSeq(q, to + 1, Len(q))
           r == a \o b
           Gone == from..to
           Old == [i \in DOMAIN r |-> IF i < from THEN i ELSE i + k]
<1>a. a \in Seq(Msgs) /\ Len(a) = from - 1 /\ \A i \in 1..(from - 1) : a[i] = q[i]
  BY <1>1, <1>2, SubSeqProperties
<1>b. b \in Seq(Msgs) /\ Len(b) = Len(q) - to /\ \A i \in 1..(Len(q) - to) : b[i] = q[to + i]
  <2>1. to + 1 \in 1..(Len(q) + 1) /\ Len(q) \in to..Len(q)
    BY <1>1, <1>2
  <2>2. b \in Seq(Msgs) /\ Len(b) = Len(q) - to
    BY <1>1, <1>2, <2>1, SubSeqProperties
  <2>3. ASSUME NEW i \in 1..(Len(q) - to) PROVE b[i] = q[to + i]
    <3>1. b[i] = q[(to + 1) + i - 1]
      BY <1>1, <1>2, <2>1, SubSeqProperties
    <3> QED BY <1>1, <1>2, <3>1
  <2> QED BY <2>2, <2>3
<1>3. /\ DOMAIN r = 1..(Len(q) - k) /\ k \in Nat
      /\ \A i \in DOMAIN r : r[i] = q[IF i < from THEN i ELSE i + k]
  <2> HIDE DEF a, b
  <2>1. Len(r) = Len(a) + Len(b) /\ DOMAIN r = 1..Len(r)
    BY <1>a, <1>b, ConcatProperties, LenProperties
  <2>2. k \in Nat /\ DOMAIN r = 1..(Len(q) - k)
    BY <1>1, <1>2, <1>a, <1>b, <2>1
  <2>3. ASSUME NEW i \in DOMAIN r, i < from PROVE r[i] = q[i]
    <3>1. i \in 1..(from - 1) /\ i \in 1..Len(a)
      BY <1>1, <1>2, <1>a, <2>2, <2>3
    <3>2. r[i] = a[i]
      BY <1>a, <1>b, <3>1, ConcatProperties
    <3> QED BY <1>a, <3>1, <3>2
  <2>4. ASSUME NEW i \in DOMAIN r, ~(i < from) PROVE r[i] = q[i + k]
    <3>1. /\ i \in 1..(Len(a) + Len(b)) /\ i > Len(a) /\ i - Len(a) \in 1..(Len(q) - to)
          /\ to + (i - Len(a)) = i + k
      BY <1>1, <1>2, <1>a, <1>b, <2>2, <2>4
    <3>2. r[i] = b[i - Len(a)]
      BY <1>a, <1>b, <3>1, ConcatProperties
    <3> QED BY <1>b, <3>1, <3>2
  <2> QED BY <2>2, <2>3, <2>4
<1>4. inbox'[t] = r /\ \A u \in Targets : u # t => inbox'[u] = inbox[u]
  BY <1>2 DEF TypeOK, Discard
<1>5. Gone \subseteq DOMAIN q /\ Old \in [DOMAIN r -> DOMAIN q \ Gone]
  <2> HIDE DEF r
  <2>1. Gone \subseteq DOMAIN q
    BY <1>1, <1>2
  <2>2. \A i \in DOMAIN r : (IF i < from THEN i ELSE i + k) \in DOMAIN q \ Gone
    BY <1>1, <1>2, <1>3
  <2> QED BY <2>1, <2>2
<1>6. \A i, j \in DOMAIN r : Old[i] = Old[j] => i = j
  <2> HIDE DEF r
  <2> QED BY <1>2, <1>3
<1>7. ASSUME NEW p \in DOMAIN q \ Gone PROVE \E i \in DOMAIN r : Old[i] = p
  <2> HIDE DEF r
  <2>0. p \in 1..Len(q) /\ (p < from \/ p > to)
    BY <1>1, <1>2
  <2>1. CASE p < from
    <3>1. p \in DOMAIN r /\ Old[p] = p
      BY <1>1, <1>2, <1>3, <2>0, <2>1
    <3> QED BY <3>1
  <2>2. CASE p > to
    <3>1. p - k \in DOMAIN r /\ Old[p - k] = p
      BY <1>1, <1>2, <1>3, <2>0, <2>2
    <3> QED BY <3>1
  <2> QED BY <2>0, <2>1, <2>2
<1>8. \A m \in Msgs : fate'[m] = IF \E i \in from..to : q[i] = m THEN "discarded" ELSE fate[m]
  BY <1>2 DEF Discard
<1>9. \A i \in DOMAIN r : r[i] = q[Old[i]]
  BY <1>3
<1>10. \A i \in DOMAIN batch' : fate'[batch'[i]] = "claimed"
  <2>1. \A i \in DOMAIN batch : batch[i] \in Msgs /\ fate[batch[i]] = "claimed"
    BY ElementOfSeq DEF TypeOK, QueueInv
  <2>2. \A i \in from..to : fate[q[i]] = "pending"
    BY <1>5 DEF QueueInv
  <2> QED BY <1>8, <2>1, <2>2
<1>11. \A m \in Msgs : IF \E i \in Gone : q[i] = m THEN fate'[m] # "pending"
                       ELSE fate'[m] = fate[m]
  BY <1>8
<1> HIDE DEF Old, Gone, r
<1>12. /\ \A u \in Targets : \A i \in DOMAIN inbox'[u] : fate'[inbox'[u][i]] = "pending"
       /\ \A u, v \in Targets : \A i \in DOMAIN inbox'[u], j \in DOMAIN inbox'[v] :
             inbox'[u][i] = inbox'[v][j] => u = v /\ i = j
       /\ \A m \in Msgs : fate'[m] = "pending" =>
             \E u \in Targets : \E i \in DOMAIN inbox'[u] : inbox'[u][i] = m
  <2>1. Renumbers(t, Gone, Old)
    BY <1>4, <1>6, <1>7, <1>9, <1>11 DEF Renumbers
  <2> QED BY <1>4, <1>5, <2>1, SpliceQueue
<1> QED BY <1>10, <1>12 DEF QueueInv

(* A claim takes all of one queue and at most the head of the other. *)
LEMMA ClaimQueue ==
    ASSUME TypeOK, QueueInv, NEW target \in Targets, Claim(target)
    PROVE  QueueInv'
<1> DEFINE S == inbox["next-step"]
           q == inbox["next-turn"]
           takes == target = "next-turn" /\ q # <<>>
           turns == IF takes THEN <<Head(q)>> ELSE <<>>
           taken == S \o turns
           k == IF takes THEN 1 ELSE 0
<1>0. Targets = {"next-turn", "next-step"}
  BY DEF Targets
<1>1. S \in Seq(Msgs) /\ q \in Seq(Msgs) /\ \A u \in Targets : inbox[u] \in Seq(Msgs)
  BY <1>0 DEF TypeOK
<1>2. takes => /\ Head(q) = q[1] /\ 1 \in DOMAIN q /\ Tail(q) \in Seq(Msgs)
               /\ Len(Tail(q)) = Len(q) - 1
               /\ \A i \in 1..(Len(q) - 1) : Tail(q)[i] = q[i + 1]
  BY <1>1, HeadTailProperties, LenProperties
<1>3. \A m : m \in Elements(taken) <=>
          (\E i \in DOMAIN S : S[i] = m) \/ (takes /\ m = q[1])
  <2>1. turns \in Seq(Msgs) /\ Len(turns) = k /\ (takes => turns[1] = q[1])
    BY <1>1, <1>2, ElementOfSeq, LenProperties
  <2>2. /\ taken \in Seq(Msgs) /\ Len(taken) = Len(S) + k /\ DOMAIN taken = 1..Len(taken)
        /\ \A i \in 1..Len(taken) : taken[i] = IF i <= Len(S) THEN S[i] ELSE turns[i - Len(S)]
    <3>1. taken \in Seq(Msgs) /\ Len(taken) = Len(S) + Len(turns)
      BY <1>1, <2>1, ConcatProperties
    <3>2. DOMAIN taken = 1..Len(taken)
      BY <3>1, LenProperties
    <3>3. \A i \in 1..(Len(S) + Len(turns)) :
             taken[i] = IF i <= Len(S) THEN S[i] ELSE turns[i - Len(S)]
      BY <1>1, <2>1, ConcatProperties
    <3> QED BY <2>1, <3>1, <3>2, <3>3
  <2>3. DOMAIN S = 1..Len(S) /\ Len(S) \in Nat
    BY <1>1, LenProperties
  <2> HIDE DEF S, taken, turns, takes
  <2>4. ASSUME NEW i \in DOMAIN taken
        PROVE  (\E j \in DOMAIN S : S[j] = taken[i]) \/ (takes /\ taken[i] = q[1])
    <3>1. CASE i <= Len(S)
      BY <2>2, <2>3, <3>1
    <3>2. CASE ~(i <= Len(S))
      <4>1. takes /\ i - Len(S) = 1
        BY <2>2, <2>3, <3>2
      <4> QED BY <2>1, <2>2, <3>2, <4>1
    <3> QED BY <3>1, <3>2
  <2>5. ASSUME NEW j \in DOMAIN S PROVE j \in DOMAIN taken /\ taken[j] = S[j]
    BY <2>2, <2>3
  <2>6. ASSUME takes PROVE Len(S) + 1 \in DOMAIN taken /\ taken[Len(S) + 1] = q[1]
    BY <2>1, <2>2, <2>3, <2>6
  <2> QED BY <2>4, <2>5, <2>6 DEF Elements
<1>4. /\ inbox'["next-step"] = <<>>
      /\ inbox'["next-turn"] = IF takes THEN Tail(q) ELSE q
      /\ batch' = taken
      /\ \A m \in Msgs : fate'[m] = IF m \in Elements(taken) THEN "claimed" ELSE fate[m]
  BY <1>0, <1>2 DEF Claim, TypeOK
<1>5. /\ DOMAIN inbox'["next-turn"] = 1..(Len(q) - k)
      /\ \A i \in 1..(Len(q) - k) : /\ inbox'["next-turn"][i] = q[i + k]
                                    /\ i \in Int /\ i + k \in DOMAIN q /\ i + k > k
  <2>1. DOMAIN q = 1..Len(q) /\ Len(q) \in Nat
    BY <1>1, LenProperties
  <2>2. CASE takes
    <3>1. inbox'["next-turn"] = Tail(q) /\ DOMAIN Tail(q) = 1..(Len(q) - 1) /\ k = 1
      BY <1>2, <1>4, <2>2, LenProperties
    <3> QED BY <1>2, <2>1, <2>2, <3>1
  <2>3. CASE ~takes
    <3>1. inbox'["next-turn"] = q /\ k = 0
      BY <1>4, <2>3
    <3> HIDE DEF q, k
    <3>2. Len(q) - k = Len(q) /\ \A i \in 1..Len(q) : i + k = i /\ i > k /\ i \in Int
      BY <2>1, <3>1
    <3> QED BY <2>1, <3>1, <3>2
  <2> QED BY <2>2, <2>3
<1>6. DOMAIN inbox'["next-step"] = {}
  BY <1>4
<1>7. \A i \in DOMAIN q : q[i] \in Msgs /\ fate[q[i]] = "pending"
  BY <1>0, <1>1, ElementOfSeq DEF QueueInv
<1> HIDE DEF S, q, takes, turns, taken, k
<1>8. k \in {0, 1} /\ (takes <=> k = 1)
  BY DEF k
<1>9. ASSUME NEW i \in DOMAIN q, i > k PROVE q[i] \notin Elements(taken)
  <2>1. ASSUME NEW j \in DOMAIN S PROVE S[j] # q[i]
    BY <1>0 DEF QueueInv, S, q
  <2>2. takes => q[1] # q[i]
    BY <1>0, <1>2, <1>8, <1>9 DEF QueueInv, q
  <2> QED BY <1>3, <2>1, <2>2
<1>10. \A u \in Targets : \A i \in DOMAIN inbox'[u] : fate'[inbox'[u][i]] = "pending"
  <2> SUFFICES ASSUME NEW i \in DOMAIN inbox'["next-turn"]
               PROVE  fate'[inbox'["next-turn"][i]] = "pending"
    BY <1>0, <1>6
  <2>1. i + k \in DOMAIN q /\ i + k > k /\ inbox'["next-turn"][i] = q[i + k]
    BY <1>5
  <2>2. q[i + k] \in Msgs /\ fate[q[i + k]] = "pending" /\ q[i + k] \notin Elements(taken)
    BY <1>7, <1>9, <2>1
  <2> QED BY <1>4, <2>1, <2>2
<1>11. \A u, v \in Targets : \A i \in DOMAIN inbox'[u], j \in DOMAIN inbox'[v] :
          inbox'[u][i] = inbox'[v][j] => u = v /\ i = j
  <2> SUFFICES ASSUME NEW i \in 1..(Len(q) - k), NEW j \in 1..(Len(q) - k),
                      inbox'["next-turn"][i] = inbox'["next-turn"][j]
               PROVE  i = j
    BY <1>0, <1>5, <1>6
  <2>1. q[i + k] = q[j + k] /\ i + k \in DOMAIN q /\ j + k \in DOMAIN q
    BY <1>5
  <2>2. i + k = j + k
    BY <1>0, <2>1 DEF QueueInv, q
  <2> QED BY <1>5, <1>8, <2>2
<1>12. ASSUME NEW m \in Msgs, fate'[m] = "pending"
       PROVE  \E u \in Targets : \E i \in DOMAIN inbox'[u] : inbox'[u][i] = m
  <2>1. fate[m] = "pending" /\ m \notin Elements(taken)
    BY <1>4, <1>12
  <2>2. PICK u \in Targets : \E i \in DOMAIN inbox[u] : inbox[u][i] = m
    BY <2>1 DEF QueueInv
  <2>3. PICK i \in DOMAIN q : q[i] = m /\ (takes => i # 1)
    BY <1>0, <1>3, <2>1, <2>2 DEF S, q
  <2>4. i - k \in 1..(Len(q) - k) /\ (i - k) + k = i
    BY <1>1, <1>8, <2>3, LenProperties
  <2> QED BY <1>0, <1>5, <2>3, <2>4
<1>13. \A i \in DOMAIN batch' : fate'[batch'[i]] = "claimed"
  <2>1. \A i \in DOMAIN taken : taken[i] \in Elements(taken)
    BY DEF Elements
  <2>2. \A m \in Elements(taken) : m \in Msgs
    BY <1>1, <1>2, <1>3, <1>7, ElementOfSeq
  <2> QED BY <1>4, <2>1, <2>2
<1> QED BY <1>10, <1>11, <1>12, <1>13 DEF QueueInv

LEMMA DeliverQueue ==
    ASSUME TypeOK, QueueInv, NEW kept \in SUBSET Elements(batch),
           fate' = [m \in Msgs |-> IF m \in kept THEN "delivered" ELSE fate[m]],
           batch' = <<>>, UNCHANGED inbox
    PROVE  QueueInv'
<1>1. \A m \in kept : fate[m] = "claimed"
  BY DEF QueueInv, Elements
<1>2. \A u \in Targets : \A i \in DOMAIN inbox[u] : inbox[u][i] \in Msgs
  BY ElementOfSeq DEF TypeOK
<1>3. \A m \in Msgs : fate'[m] = "pending" <=> fate[m] = "pending"
  BY <1>1
<1> QED BY <1>2, <1>3 DEF QueueInv

LEMMA NextQueue ==
    ASSUME TypeOK, QueueInv, MessageStep
    PROVE  QueueInv'
<1>1. CASE UNCHANGED inboxVars /\ batch' \in {batch, <<>>}
  BY <1>1 DEF QueueInv, inboxVars
<1>2. CASE (\E m \in Msgs, t \in Targets : fate[m] = "unsent" /\ Insert(m, t)) /\ UNCHANGED batch
  BY <1>2, InsertQueue
<1>3. CASE \E t \in Targets : (Emptied(t) \/ Withdrawn(t)) /\ UNCHANGED batch
  BY <1>3, DiscardQueue
<1>4. CASE \E kept \in SUBSET Elements(batch) :
              /\ fate' = [m \in Msgs |-> IF m \in kept THEN "delivered" ELSE fate[m]]
              /\ batch' = <<>> /\ UNCHANGED <<inbox, owner>>
  BY <1>4, DeliverQueue
<1>5. CASE \E t \in Targets : Claim(t)
  BY <1>5, ClaimQueue
<1> QED BY <1>1, <1>2, <1>3, <1>4, <1>5 DEF MessageStep

-----------------------------------------------------------------------------
LEMMA NextOwner ==
    ASSUME TypeOK, LogAgrees, OwnerInv, MessageStep, TurnStep
    PROVE  OwnerInv'
<1>0. phase.turn \in Nat /\ \A m \in Msgs : owner[m] \in Nat
  BY DEF TypeOK, Phases
<1>1. CASE UNCHANGED owner
  BY <1>0, <1>1 DEF OwnerInv, TurnStep
<1>2. ASSUME NEW t \in Targets, Claim(t), UNCHANGED phase, pc' = "preStep",
             t = "next-turn" => pc = "opened"
      PROVE  OwnerInv'
  <2>1. CASE t # "next-turn" \/ inbox["next-turn"] = <<>>
    <3>1. \A m \in Msgs : owner'[m] = owner[m]
      BY <1>2, <2>1 DEF Claim, Elements
    <3> QED BY <1>2, <3>1 DEF OwnerInv
  <2>2. CASE t = "next-turn" /\ inbox["next-turn"] # <<>>
    <3> DEFINE h == Head(inbox["next-turn"])
    <3>1. Elements(<<h>>) = {h}
      BY DEF Elements
    <3>2. /\ owner' = [m \in Msgs |-> IF m \in Elements(<<h>>) THEN phase.turn ELSE owner[m]]
      BY <1>2, <2>2 DEF Claim
    <3>3. \A m \in Msgs : owner'[m] = IF m = h THEN phase.turn ELSE owner[m]
      BY <3>1, <3>2
    <3>4. \A m \in Msgs : owner[m] # phase.turn
      BY <1>2, <2>2 DEF OwnerInv
    <3>5. \A m, n \in Msgs : owner'[m] # 0 /\ owner'[m] = owner'[n] => m = n
      BY <3>3, <3>4 DEF OwnerInv
    <3>6. \A m \in Msgs : owner'[m] <= phase'.turn
      BY <1>0, <1>2, <3>3 DEF OwnerInv
    <3> QED BY <1>2, <3>5, <3>6 DEF OwnerInv
  <2> QED BY <2>1, <2>2
<1>3. ASSUME NEW t \in Targets, Emptied(t) \/ Withdrawn(t) PROVE UNCHANGED owner
  BY <1>3 DEF Emptied, Withdrawn, Discard
<1>4. ASSUME NEW m \in Msgs, NEW t \in Targets, Insert(m, t) PROVE UNCHANGED owner
  BY <1>4 DEF Insert
<1> QED BY <1>1, <1>2, <1>3, <1>4 DEF MessageStep, inboxVars

(* The property, read off the positions. *)
LEMMA CopiesOfMessage ==
    ASSUME TypeOK, QueueInv, OwnerInv
    PROVE  PendingExactlyOnce
<1>1. \A m \in Msgs : \A x : x \in Copies(m) <=>
          \E t \in Targets : \E i \in DOMAIN inbox[t] : inbox[t][i] = m /\ x = <<t, i>>
  BY DEF Copies
<1>2. ASSUME NEW m \in Msgs, fate[m] = "pending"
      PROVE  \E x \in Copies(m) : Copies(m) = {x}
  <2>1. PICK t \in Targets : \E i \in DOMAIN inbox[t] : inbox[t][i] = m
    BY <1>2 DEF QueueInv
  <2>2. PICK i \in DOMAIN inbox[t] : inbox[t][i] = m
    BY <2>1
  <2>3. <<t, i>> \in Copies(m)
    BY <1>1, <2>2
  <2>4. ASSUME NEW y \in Copies(m) PROVE y = <<t, i>>
    <3>1. PICK u \in Targets : \E j \in DOMAIN inbox[u] : inbox[u][j] = m /\ y = <<u, j>>
      BY <1>1
    <3>2. PICK j \in DOMAIN inbox[u] : inbox[u][j] = m /\ y = <<u, j>>
      BY <3>1
    <3>3. u = t /\ j = i
      BY <2>2, <3>2 DEF QueueInv
    <3> QED BY <3>2, <3>3
  <2>5. Copies(m) = {<<t, i>>}
    BY <2>3, <2>4
  <2> QED BY <2>3, <2>5
<1>3. ASSUME NEW m \in Msgs, fate[m] # "pending"
      PROVE  Copies(m) = {}
  <2> SUFFICES ASSUME NEW y \in Copies(m) PROVE FALSE
    OBVIOUS
  <2>1. PICK t \in Targets : \E i \in DOMAIN inbox[t] : inbox[t][i] = m
    BY <1>1
  <2> QED BY <1>3, <2>1 DEF QueueInv
<1> QED BY <1>2, <1>3 DEF PendingExactlyOnce, OwnerInv

(* Whatever order sends, claims, withdrawals and interrupted cancels come  *)
(* in, each pending message stands in exactly one queue, once, and no turn *)
(* claims two messages of the next-turn queue.                             *)
THEOREM MessagesAreKept == Spec => []PendingExactlyOnce
<1>1. Init => QueueInv /\ OwnerInv
  <2> SUFFICES ASSUME Init PROVE QueueInv /\ OwnerInv
    OBVIOUS
  <2>1. \A t \in Targets : DOMAIN inbox[t] = {}
    BY DEF Init
  <2>2. \A m \in Msgs : fate[m] = "unsent" /\ owner[m] = 0
    BY DEF Init
  <2>3. phase.turn = 0 /\ pc = "none" /\ DOMAIN batch = {}
    BY DEF Init, Idle
  <2> QED BY <2>1, <2>2, <2>3 DEF QueueInv, OwnerInv
<1>2. TypeOK /\ LogAgrees /\ QueueInv /\ OwnerInv /\ [Next]_vars => QueueInv' /\ OwnerInv'
  <2>1. ASSUME QueueInv, OwnerInv, UNCHANGED vars PROVE QueueInv' /\ OwnerInv'
    BY <2>1 DEF vars, inboxVars, driverVars, QueueInv, OwnerInv
  <2>2. ASSUME TypeOK, LogAgrees, Next PROVE MessageStep /\ TurnStep
    BY <2>2, CallMessages, DriverMessages DEF Next
  <2> QED BY <2>1, <2>2, NextQueue, NextOwner
<1>3. TypeOK /\ QueueInv /\ OwnerInv => PendingExactlyOnce
  BY CopiesOfMessage
<1> QED BY <1>1, <1>2, <1>3, TypeCorrect, PositionAgreesWithLog, PTL DEF Spec
=============================================================================
