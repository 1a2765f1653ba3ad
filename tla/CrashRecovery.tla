--------------------------- MODULE CrashRecovery ---------------------------
(***************************************************************************)
(* From an effect to its record, across crashes: one session's turn loop,  *)
(* the checkpoint policy that holds model requests and tool bodies back    *)
(* until what names them is durable (session-checkpoint-policy/src), the   *)
(* JSONL file, and the load that repairs an interrupted log and resumes.   *)
(*                                                                         *)
(* The loop is the part of module AgentDriver that decides which events    *)
(* are in the log when an effect happens; calls of a step run in any       *)
(* order, as module ToolCalls shows they may.  The write controller keeps  *)
(* what WriteBehind proves: it hands the backend the events it has not     *)
(* stored yet, in order, and a flush answers when the events it was asked  *)
(* for are stored or a write is refused.                                   *)
(***************************************************************************)
EXTENDS JsonlLog, FiniteSets

CONSTANT MaxTurns   \* bound: turns opened in one behaviour

ASSUME RecoveryAssumption == MaxTurns \in Nat

Checkpoints == {0} \cup Calls   \* the loop's own, and that of each call

VARIABLES
  up,         \* the process runs the session, or is down and loads it
  live,       \* session.events
  acked,      \* the events the coordinator knows stored: its cursor's prefix
  stored,     \* state.materialized
  flush,      \* each session/flush awaited: "none", "wait", "ok", "failed"
  want,       \* the length of the log when it was called
  at,         \* where the turn loop stands
  turn, step, \* its counters
  stage,      \* each tool call
  cancelled,  \* the turn's signal is aborted
  requested,  \* requests sent to a model: the steps they were sent in
  ran         \* calls whose body was invoked

memory == <<live, flush, want, at, turn, step, stage, cancelled>>
effects == <<requested, ran>>
vars == <<jsonlVars, memory, effects, up, acked, stored>>

CallStages == {"new", "asked", "checkpoint", "running", "answered",
               "throwing", "failed"}
Places == {"idle", "pre-step", "building", "request", "streaming", "tools"}

Init ==
  /\ JsonlInit
  /\ up = TRUE /\ live = <<>> /\ acked = <<>> /\ stored = FALSE
  /\ flush = [k \in Checkpoints |-> "none"] /\ want = [k \in Checkpoints |-> 0]
  /\ at = "idle" /\ turn = 0 /\ step = 0
  /\ stage = [c \in Calls |-> "new"] /\ cancelled = FALSE
  /\ requested = {} /\ ran = {}

-----------------------------------------------------------------------------
(* Flushes and the write controller.                                       *)

\* A flush with nothing left to store answers at once.
Flush(k, log) ==
  /\ flush' = [flush EXCEPT ![k] = IF Len(acked) = Len(log) THEN "ok" ELSE "wait"]
  /\ want' = [want EXCEPT ![k] = Len(log)]

Answered(k) == flush' = [flush EXCEPT ![k] = "none"] /\ UNCHANGED want

StartWrite ==
  /\ up /\ Len(acked) < Len(live)
  /\ AppendBatch(SubSeq(live, Len(acked) + 1, Len(live)), Len(acked), stored)
  /\ UNCHANGED <<memory, effects, up, acked, stored>>

\* Coordinator.ensureMaterialized, for a session with nothing to store yet.
EnsureMaterialized ==
  /\ up /\ ~stored /\ live = <<>>
  /\ MaterializeHeader
  /\ UNCHANGED <<memory, effects, up, acked, stored>>

\* appendCore after the backend settled; the refused batch is kept.
Settle ==
  /\ op.stage \in {"ok", "failed", "refused"}
  /\ op' = NoOp
  /\ LET ok == op.stage = "ok"
         n == Len(acked) + Len(op.lines)
         news(k) == IF flush[k] # "wait" THEN flush[k]
                    ELSE IF ~ok THEN "failed"
                    ELSE IF want[k] <= n THEN "ok" ELSE "wait"
     IN IF up
        THEN /\ flush' = [k \in Checkpoints |-> news(k)]
             /\ acked' = IF ok THEN SubSeq(live, 1, n) ELSE acked
             /\ stored' = (stored \/ ok)
        ELSE UNCHANGED <<flush, acked, stored>>
  /\ UNCHANGED <<compression, file, media, entry, upsets, live, want, at, turn, step, stage,
                 cancelled, effects, up>>

StorageStep ==
  /\ FileStep
  /\ UNCHANGED <<memory, effects, up, acked, stored>>

-----------------------------------------------------------------------------
(* The turn loop.  `Log' appends events; Leave ends the turn with them.    *)

loopFrame == <<jsonlVars, up, acked, stored>>

Log(events) == live' = live \o events

TurnEnd == Event("turn/end", turn, 0)
StepEnd == Event("step/end", turn, step)

Leave(events) ==
  /\ Log(events \o <<TurnEnd>>)
  /\ at' = "idle" /\ step' = 0 /\ cancelled' = FALSE
  /\ UNCHANGED <<turn, stage>>

StartTurn ==
  /\ up /\ at = "idle" /\ turn < MaxTurns
  /\ LET log == Append(live, Event("turn/start", turn + 1, 0)) IN
     live' = log /\ Flush(0, log)
  /\ turn' = turn + 1 /\ step' = 0 /\ at' = "pre-step"
  /\ UNCHANGED <<loopFrame, stage, cancelled, effects>>

\* The agent/pre-step checkpoint.
PreStepSettled ==
  /\ at = "pre-step" /\ flush[0] \in {"ok", "failed"}
  /\ Answered(0)
  /\ IF flush[0] = "failed" \/ cancelled
     THEN Leave(<<>>)
     ELSE /\ step' = step + 1 /\ at' = "building"
          /\ Log(<<Event("step/start", turn, step + 1)>>)
          /\ UNCHANGED <<turn, stage, cancelled>>
  /\ UNCHANGED <<loopFrame, effects>>

\* The request is built and logged; llm/stream flushes before its first chunk.
LogRequest ==
  /\ at = "building"
  /\ IF cancelled
     THEN Leave(<<StepEnd>>) /\ UNCHANGED <<flush, want>>
     ELSE /\ at' = "request"
          /\ LET log == Append(live, Event("request/header", turn, step)) IN
             live' = log /\ Flush(0, log)
          /\ UNCHANGED <<turn, step, stage, cancelled>>
  /\ UNCHANGED <<loopFrame, effects>>

(* Mutant: the request goes out although its checkpoint failed. *)
SendRequest_Unchecked ==
  /\ at = "request" /\ flush[0] \in {"ok", "failed"}
  /\ Answered(0)
  /\ at' = "streaming"
  /\ requested' = requested \cup {<<turn, step>>}
  /\ UNCHANGED <<loopFrame, live, turn, step, stage, cancelled, ran>>

\* afterCheckpoint: a refused checkpoint fails the step, and with it the turn.
SendRequest ==
  /\ at = "request" /\ flush[0] \in {"ok", "failed"}
  /\ Answered(0)
  /\ IF flush[0] = "failed"
     THEN Leave(<<StepEnd>>) /\ UNCHANGED effects
     ELSE /\ at' = "streaming"
          /\ requested' = requested \cup {<<turn, step>>}
          /\ UNCHANGED <<live, turn, step, stage, cancelled, ran>>
  /\ UNCHANGED loopFrame

\* The model answers, with tool calls or without, or the stream fails.
StreamEnds ==
  /\ at = "streaming"
  /\ \/ Leave(<<StepEnd>>)
     \/ ~cancelled /\ Leave(<<Message(turn, step, {}), StepEnd>>)
     \/ /\ ~cancelled
        /\ \E n \in {c \in Calls : stage[c] = "new"} :
             LET calls == {c \in 1 .. n : stage[c] = "new"} IN
             /\ Log(<<Message(turn, step, calls)>>)
             /\ stage' = [c \in Calls |-> IF c \in calls THEN "asked" ELSE stage[c]]
        /\ at' = "tools"
        /\ UNCHANGED <<turn, step, cancelled>>
  /\ UNCHANGED <<loopFrame, flush, want, effects>>

CallLogged(c) == CallEvent("tool/call", turn, step, c)
ResultOf(c) == CallEvent("tool/result", turn, step, c)

\* A policy, a finalizer or a listener of the step threw: module ToolCalls.
StepFails == \E c \in Calls : stage[c] = "throwing"

\* A call is recorded and its tools/execute checkpoint starts; once the step is
\* aborted a call that has not started is recorded with a synthetic result.
StartCall(c) ==
  /\ at = "tools" /\ stage[c] = "asked" /\ ~StepFails
  /\ IF cancelled
     THEN /\ Log(<<CallLogged(c), ResultOf(c)>>)
          /\ stage' = [stage EXCEPT ![c] = "answered"]
          /\ UNCHANGED <<flush, want>>
     ELSE /\ LET log == Append(live, CallLogged(c)) IN
             live' = log /\ Flush(c, log)
          /\ stage' = [stage EXCEPT ![c] = "checkpoint"]
  /\ UNCHANGED <<loopFrame, at, turn, step, cancelled, effects>>

(* Mutant: the body does not wait for the checkpoint. *)
DispatchCall_Eager(c) ==
  /\ stage[c] = "checkpoint"
  /\ Answered(c)
  /\ stage' = [stage EXCEPT ![c] = "running"] /\ ran' = ran \cup {c}
  /\ UNCHANGED <<loopFrame, live, at, turn, step, cancelled, requested>>

\* The tools/execute wrapper: a refused checkpoint becomes an error result, an
\* abort during the checkpoint a result that says so.
DispatchCall(c) ==
  /\ stage[c] = "checkpoint" /\ flush[c] \in {"ok", "failed"}
  /\ Answered(c)
  /\ IF flush[c] = "failed" \/ cancelled
     THEN /\ Log(<<ResultOf(c)>>)
          /\ stage' = [stage EXCEPT ![c] = "answered"]
          /\ UNCHANGED ran
     ELSE /\ stage' = [stage EXCEPT ![c] = "running"]
          /\ ran' = ran \cup {c}
          /\ UNCHANGED live
  /\ UNCHANGED <<loopFrame, at, turn, step, cancelled, requested>>

BodyEnds(c) ==
  /\ stage[c] = "running"
  /\ Log(<<ResultOf(c)>>)
  /\ stage' = [stage EXCEPT ![c] = "answered"]
  /\ UNCHANGED <<loopFrame, flush, want, at, turn, step, cancelled, effects>>

\* The scheduler fails over a call: it has no result, no other call starts, and
\* the step throws once the running ones have settled.
CallFails(c) ==
  /\ stage[c] = "running"
  /\ stage' = [stage EXCEPT ![c] = "throwing"]
  /\ UNCHANGED <<loopFrame, live, flush, want, at, turn, step, cancelled, effects>>

StepThrows ==
  /\ at = "tools" /\ StepFails
  /\ \A c \in Calls : stage[c] \notin {"checkpoint", "running"}
  /\ Log(<<StepEnd, TurnEnd>>)
  /\ at' = "idle" /\ step' = 0 /\ cancelled' = FALSE
  /\ stage' = [c \in Calls |->
                IF stage[c] \in {"asked", "throwing"} THEN "failed" ELSE stage[c]]
  /\ UNCHANGED <<loopFrame, turn, flush, want, effects>>

\* Every call of the step is answered: on to the next step, or out.
StepDone ==
  /\ at = "tools"
  /\ \A c \in Calls : stage[c] \in {"new", "answered", "failed"}
  /\ IF cancelled
     THEN Leave(<<StepEnd>>) /\ UNCHANGED <<flush, want>>
     ELSE /\ LET log == Append(live, StepEnd) IN live' = log /\ Flush(0, log)
          /\ at' = "pre-step"
          /\ UNCHANGED <<turn, step, stage, cancelled>>
  /\ UNCHANGED <<loopFrame, effects>>

Cancel ==
  /\ up /\ at # "idle" /\ ~cancelled
  /\ cancelled' = TRUE
  /\ UNCHANGED <<loopFrame, live, flush, want, at, turn, step, stage, effects>>

LoopStep ==
  \/ StartTurn \/ PreStepSettled \/ LogRequest \/ SendRequest \/ StreamEnds
  \/ StepDone \/ StepThrows \/ Cancel
  \/ \E c \in Calls : StartCall(c) \/ DispatchCall(c) \/ BodyEnds(c) \/ CallFails(c)

-----------------------------------------------------------------------------
(* Crash and resume.                                                       *)

Forget ==
  /\ live' = <<>> /\ at' = "idle" /\ step' = 0 /\ cancelled' = FALSE
  /\ flush' = [k \in Checkpoints |-> "none"]
  /\ want' = [k \in Checkpoints |-> 0]
  /\ stage' = [c \in Calls |->
                IF stage[c] \in {"new", "failed"} THEN stage[c] ELSE "answered"]

Crash ==
  /\ LoseUnsynced
  /\ Forget
  /\ up' = FALSE
  /\ UNCHANGED <<turn, effects, acked, stored>>

LastTurn(log) == Replay(log).trace.nextTurn - 1

Resume(log, exists) ==
  /\ up' = TRUE /\ live' = log /\ acked' = log /\ stored' = exists
  /\ turn' = LastTurn(log)
  /\ UNCHANGED <<jsonlVars, flush, want, at, step, stage, cancelled>>

\* prepareCore and commitPrepared: a repair is committed and the log is read
\* again; a log that needs none becomes the session's history.
Load ==
  /\ ~up /\ op = NoOp /\ ~Corrupt(file)
  /\ LET log == StoredEvents(file)
         closers == interruptedTurnClosers(log)
     IN IF entry = "none" THEN Resume(<<>>, FALSE)
        ELSE IF tornMarker(file) \/ closers # <<>>
        THEN CommitRepair(closers) /\ UNCHANGED <<memory, up, acked, stored>>
        ELSE Resume(log, TRUE)
  /\ UNCHANGED effects

Next ==
  \/ StartWrite \/ EnsureMaterialized \/ StorageStep \/ Settle
  \/ LoopStep \/ Crash \/ Load

Spec == Init /\ [][Next]_vars

-----------------------------------------------------------------------------
TypeOK ==
  /\ JsonlTypeOK
  /\ up \in BOOLEAN /\ stored \in BOOLEAN /\ cancelled \in BOOLEAN
  /\ IsPrefix(acked, live) \/ ~up
  /\ flush \in [Checkpoints -> {"none", "wait", "ok", "failed"}]
  /\ want \in [Checkpoints -> Nat]
  /\ at \in Places /\ turn \in 0 .. MaxTurns /\ step \in Nat
  /\ stage \in [Calls -> CallStages] /\ ran \subseteq Calls
  /\ requested \subseteq (1 .. MaxTurns) \X (1 .. MaxCalls + 1)

\* What was reported durable is what any later load reads first, whatever calls
\* failed and wherever the machine stopped (appendBatch's promise).
\* The type invariant is its first part.
AckedSurvives == TypeOK /\ ~Corrupt(file) /\ IsPrefix(acked, StoredEvents(file))

\* A retried batch never stores an event twice: every complete line carries the
\* number of its place (appendLines: "would create duplicate sequence numbers").
SequenceOnce == \A i \in DOMAIN file : file[i].whole => file[i].seq = i

Answers(log, c) ==
  {i \in DOMAIN log : log[i].type \in {"tool/result", "tool/not-started"}
                      /\ c \in log[i].calls}

Asked(log) ==
  UNION {log[i].calls : i \in {j \in DOMAIN log : log[j].type = "assistant/message"}}

\* A log that was interrupted anywhere, repaired and continued is still one the
\* session grammar accepts.  Between turns it has no turn open, and every call a
\* model asked for has exactly one answer, so the transcript is one a provider
\* accepts (repair.ts:1-6): only a step whose scheduler failed leaves calls
\* without one, and repair adds no second.
RepairedLogIsLegal ==
  LET replay == Replay(live) IN
  /\ replay.ok
  /\ at = "idle" => replay.trace.openTurn = 0
  /\ up /\ at = "idle" =>
       \A c \in Asked(live) :
         LET n == Cardinality(Answers(live, c)) IN
         n = 1 \/ (n = 0 /\ stage[c] = "failed")

\* A call that the log says never started has not run: retrying it is safe
\* (checkpoint policy with repair.ts:105).
NotStartedNeverRan ==
  \A i \in DOMAIN live : live[i].type = "tool/not-started" => live[i].calls \cap ran = {}

\* No request reaches a model, and no tool body runs, before the event that
\* names it would survive a crash (session-checkpoint-policy/src/index.ts).
EffectsAreOnRecord ==
  LET log == StoredEvents(file) IN
  /\ \A r \in requested : \E i \in DOMAIN log :
       log[i] = Event("request/header", r[1], r[2])
  /\ \A c \in ran : \E i \in DOMAIN log :
       log[i].type = "tool/call" /\ c \in log[i].calls

\* The load that follows a committed repair finds nothing left to repair: the
\* coordinator repairs and reads again until it does (commitPrepared).
RepairIsFinal ==
  op.kind = "repair" /\ op.stage = "ok" =>
    ~tornMarker(file) /\ interruptedTurnClosers(StoredEvents(file)) = <<>>
=============================================================================
