---------------------------- MODULE WriteBehind ----------------------------
(***************************************************************************)
(* SessionWriteBehind: the queue between a live session and its durable    *)
(* log. Events are batched behind one fixed deadline, at most one batch is *)
(* being written, a batch the backend refuses goes back to the head of the *)
(* queue and automatic writing pauses, and flush is a barrier that drains  *)
(* to quiescence (session-persistence/src/write-behind.ts).                *)
(*                                                                         *)
(* The code is single-threaded, so an action is what runs between two      *)
(* awaits. A promise that settled has its handlers queued as jobs; every   *)
(* queued job runs before the next timer callback, and producers may run   *)
(* between two jobs.                                                       *)
(***************************************************************************)
EXTENDS Naturals, Sequences

CONSTANTS Callers,   \* the concurrent callers of session/flush
          MaxEvents  \* bound: events accepted in one behaviour

ASSUME WriteBehindAssumption == MaxEvents \in Nat

VARIABLES
  accepted,         \* events enqueued so far: the k-th is the number k
  stored,           \* what the backend holds durably
  pending,          \* the queue
  timer,            \* the batching deadline is armed
  deadlineExpired,  \* it fired while a write was active
  automaticPaused,  \* a refused write waits for a new event or a flush
  active,           \* the write in progress and how far its promise got
  batch,            \* the events it took from the queue
  background,       \* it was started by the deadline, not by a barrier
  continuation,     \* continueAutomatic is queued
  barrier,          \* where drainBarrier is
  asking,           \* callers between cancelAutomaticWait and flush
  outcome, want     \* each caller's promise; events accepted when it was made

queue == <<pending, timer, deadlineExpired, automaticPaused>>
write == <<active, batch, background>>
callers == <<asking, outcome, want>>
vars == <<accepted, stored, queue, write, continuation, barrier, callers>>

Actives == {"none", "writing", "stored", "retained"}
Barriers == {"none", "overlap", "overlapSettled", "write", "writeDone",
             "writeFailed"}
Outcomes == {"idle", "waiting", "ok", "failed"}

TypeOK ==
  /\ accepted \in 0 .. MaxEvents
  /\ stored \in Seq(Nat) /\ pending \in Seq(Nat) /\ batch \in Seq(Nat)
  /\ timer \in BOOLEAN /\ deadlineExpired \in BOOLEAN
  /\ automaticPaused \in BOOLEAN /\ background \in BOOLEAN
  /\ continuation \in BOOLEAN
  /\ active \in Actives
  /\ barrier \in Barriers
  /\ asking \in SUBSET Callers
  /\ outcome \in [Callers -> Outcomes]
  /\ want \in [Callers -> Nat]

Init ==
  /\ accepted = 0 /\ stored = <<>>
  /\ pending = <<>> /\ timer = FALSE
  /\ deadlineExpired = FALSE /\ automaticPaused = FALSE
  /\ active = "none" /\ batch = <<>> /\ background = FALSE
  /\ continuation = FALSE
  /\ barrier = "none"
  /\ asking = {}
  /\ outcome = [c \in Callers |-> "idle"]
  /\ want = [c \in Callers |-> 0]

-----------------------------------------------------------------------------
Waiting == {c \in Callers : outcome[c] = "waiting"}

\* Every caller of one barrier holds the same promise.
Settled(r) == [c \in Callers |-> IF c \in Waiting THEN r ELSE outcome[c]]

\* No promise job is queued: only then does the event loop fire a timer.
JobsDone ==
  /\ ~continuation
  /\ active \in {"none", "writing"}
  /\ barrier \in {"none", "overlap", "write"}

\* startWrite: the batch is the whole queue, and the deadline it waited for
\* is spent.
StartWrite(inBackground) ==
  /\ batch' = pending
  /\ pending' = <<>>
  /\ timer' = FALSE
  /\ deadlineExpired' = FALSE
  /\ active' = "writing"
  /\ background' = inBackground

\* Mutant: the first event after a refusal ends the pause but arms nothing.
OpensWindow_OnlyIfIdle == barrier = "none" /\ pending = <<>>

\* enqueue opens a batching window for the first event of an idle queue, and
\* for the first event after a refused write; behind a barrier it only queues.
OpensWindow == barrier = "none" /\ (automaticPaused \/ pending = <<>>)

Enqueue ==
  /\ accepted < MaxEvents
  /\ accepted' = accepted + 1
  /\ pending' = Append(pending, accepted + 1)
  /\ timer' = (timer \/ OpensWindow)
  /\ IF barrier = "none" /\ automaticPaused
       THEN automaticPaused' = FALSE /\ deadlineExpired' = FALSE
       ELSE UNCHANGED <<automaticPaused, deadlineExpired>>
  /\ UNCHANGED <<stored, write, continuation, barrier, callers>>

\* The coordinator's flush stops the deadline, then awaits the session's
\* initialization before it calls the controller.
CancelAutomaticWait(c) ==
  /\ c \notin asking \cup Waiting
  /\ asking' = asking \cup {c}
  /\ timer' = FALSE
  /\ deadlineExpired' = FALSE
  /\ UNCHANGED <<accepted, stored, pending, automaticPaused, write,
                 continuation, barrier, outcome, want>>

\* drainBarrier's loop: write what is queued, or settle every caller in the
\* job that found the queue empty.
DrainWrites(waiters) ==
  /\ pending # <<>>
  /\ StartWrite(FALSE)
  /\ barrier' = "write"
  /\ outcome' = waiters

DrainEnds(waiters) ==
  /\ pending = <<>>
  /\ barrier' = "none"
  /\ outcome' = [c \in Callers |->
                   IF waiters[c] = "waiting" THEN "ok" ELSE waiters[c]]
  /\ UNCHANGED <<pending, write>>

\* Mutant: a flush with an empty queue does not wait for the active write.
Flush_IgnoresActive(c) ==
  /\ c \in asking
  /\ asking' = asking \ {c}
  /\ want' = [want EXCEPT ![c] = accepted]
  /\ \/ /\ barrier # "none"
        /\ outcome' = [outcome EXCEPT ![c] = "waiting"]
        /\ UNCHANGED <<queue, write, barrier>>
     \/ /\ barrier = "none"
        /\ timer' = FALSE /\ deadlineExpired' = FALSE
        /\ automaticPaused' = FALSE
        /\ \/ /\ active # "none" /\ pending # <<>>
              /\ barrier' = "overlap"
              /\ outcome' = [outcome EXCEPT ![c] = "waiting"]
              /\ UNCHANGED <<pending, write>>
           \/ LET waiters == [outcome EXCEPT ![c] = "waiting"] IN
                (active = "none" /\ DrainWrites(waiters)) \/ DrainEnds(waiters)
  /\ UNCHANGED <<accepted, stored, continuation>>

Flush(c) ==
  /\ c \in asking
  /\ asking' = asking \ {c}
  /\ want' = [want EXCEPT ![c] = accepted]
  /\ \/ /\ barrier # "none"
        /\ outcome' = [outcome EXCEPT ![c] = "waiting"]
        /\ UNCHANGED <<queue, write, barrier>>
     \/ /\ barrier = "none"
        /\ timer' = FALSE /\ deadlineExpired' = FALSE
        /\ automaticPaused' = FALSE
        /\ \/ /\ active # "none"
              /\ barrier' = "overlap"
              /\ outcome' = [outcome EXCEPT ![c] = "waiting"]
              /\ UNCHANGED <<pending, write>>
           \/ /\ active = "none"
              /\ LET waiters == [outcome EXCEPT ![c] = "waiting"] IN
                   DrainWrites(waiters) \/ DrainEnds(waiters)
  /\ UNCHANGED <<accepted, stored, continuation>>

-----------------------------------------------------------------------------
\* The backend's promise: the batch is durable in order, or it is not at all.
WriteStored ==
  /\ active = "writing" /\ ~continuation
  /\ stored' = stored \o batch
  /\ batch' = <<>>
  /\ active' = "stored"
  /\ UNCHANGED <<accepted, queue, background, continuation, barrier, callers>>

\* Mutant: the refused batch goes behind the events admitted meanwhile.
WriteRefused_ToTheTail ==
  /\ active = "writing" /\ ~continuation
  /\ pending' = pending \o batch
  /\ batch' = <<>>
  /\ timer' = FALSE
  /\ deadlineExpired' = FALSE
  /\ automaticPaused' = TRUE
  /\ active' = "retained"
  /\ UNCHANGED <<accepted, stored, background, continuation, barrier, callers>>

\* Mutant: the follow-up batch's deadline survives the refusal.
WriteRefused_KeepsTimer ==
  /\ active = "writing" /\ ~continuation
  /\ pending' = batch \o pending
  /\ batch' = <<>>
  /\ automaticPaused' = TRUE
  /\ active' = "retained"
  /\ UNCHANGED <<accepted, stored, timer, deadlineExpired, background,
                 continuation, barrier, callers>>

\* Mutant: only a background refusal pauses.
WriteRefused_BarrierNeverPauses ==
  /\ active = "writing" /\ ~continuation
  /\ pending' = batch \o pending
  /\ batch' = <<>>
  /\ timer' = FALSE
  /\ deadlineExpired' = FALSE
  /\ automaticPaused' = (automaticPaused \/ background)
  /\ active' = "retained"
  /\ UNCHANGED <<accepted, stored, background, continuation, barrier, callers>>

\* The catch handler puts the refused batch back ahead of younger events.
WriteRefused ==
  /\ active = "writing" /\ ~continuation
  /\ pending' = batch \o pending
  /\ batch' = <<>>
  /\ timer' = FALSE
  /\ deadlineExpired' = FALSE
  /\ automaticPaused' = TRUE
  /\ active' = "retained"
  /\ UNCHANGED <<accepted, stored, background, continuation, barrier, callers>>

\* Mutant: a barrier's failed write resumes nobody.
Finally_FailsSilently ==
  /\ active \in {"stored", "retained"}
  /\ active' = "none"
  /\ continuation' = (continuation \/ (background /\ active = "stored"))
  /\ \/ barrier = "none" /\ UNCHANGED barrier
     \/ barrier = "overlap" /\ barrier' = "overlapSettled"
     \/ barrier = "write" /\ active = "stored" /\ barrier' = "writeDone"
     \/ barrier = "write" /\ active = "retained" /\ UNCHANGED barrier
  /\ UNCHANGED <<accepted, stored, queue, batch, background, callers>>

\* The finally handler frees the slot; whoever awaits the write is queued.
Finally ==
  /\ active \in {"stored", "retained"}
  /\ active' = "none"
  /\ continuation' = (continuation \/ (background /\ active = "stored"))
  /\ \/ barrier = "none" /\ UNCHANGED barrier
     \/ barrier = "overlap" /\ barrier' = "overlapSettled"
     \/ barrier = "write" /\ active = "stored" /\ barrier' = "writeDone"
     \/ barrier = "write" /\ active = "retained" /\ barrier' = "writeFailed"
  /\ UNCHANGED <<accepted, stored, queue, batch, background, callers>>

\* Mutant: the expired deadline of the follow-up batch is forgotten.
ContinueAutomatic_DropsTail ==
  /\ continuation
  /\ continuation' = FALSE
  /\ UNCHANGED <<accepted, stored, queue, write, barrier, callers>>

\* A follow-up batch whose own deadline expired during the write starts now;
\* otherwise it keeps its timer.
ContinueAutomatic ==
  /\ continuation
  /\ continuation' = FALSE
  /\ \/ /\ barrier = "none" /\ pending # <<>> /\ deadlineExpired
        /\ StartWrite(TRUE)
        /\ UNCHANGED automaticPaused
     \/ /\ ~(barrier = "none" /\ pending # <<>> /\ deadlineExpired)
        /\ UNCHANGED <<queue, write>>
  /\ UNCHANGED <<accepted, stored, barrier, callers>>

\* Mutant: the deadline does not look at the active write.
OnDeadline_Unchecked ==
  /\ timer /\ JobsDone
  /\ StartWrite(TRUE)
  /\ UNCHANGED <<accepted, stored, automaticPaused, continuation, barrier, callers>>

OnDeadline ==
  /\ timer /\ JobsDone
  /\ \/ /\ active # "none"
        /\ timer' = FALSE
        /\ deadlineExpired' = TRUE
        /\ UNCHANGED <<pending, write>>
     \/ /\ active = "none"
        /\ StartWrite(TRUE)
  /\ UNCHANGED <<accepted, stored, automaticPaused, continuation, barrier, callers>>

\* drainBarrier after the write it found in progress, and after its own.
DrainLoops ==
  \/ DrainWrites(outcome)
  \/ DrainEnds(outcome) /\ UNCHANGED <<timer, deadlineExpired>>

DrainResumes ==
  /\ \/ barrier = "overlapSettled" /\ automaticPaused' = FALSE /\ DrainLoops
     \/ barrier = "writeDone" /\ UNCHANGED automaticPaused /\ DrainLoops
     \/ /\ barrier = "writeFailed"
        /\ barrier' = "none"
        /\ outcome' = Settled("failed")
        /\ UNCHANGED <<queue, write>>
  /\ UNCHANGED <<accepted, stored, continuation, asking, want>>

WriteSettles == WriteStored \/ WriteRefused

Next ==
  \/ Enqueue
  \/ \E c \in Callers : CancelAutomaticWait(c) \/ Flush(c)
  \/ WriteSettles \/ Finally \/ ContinueAutomatic \/ OnDeadline \/ DrainResumes

Spec == Init /\ [][Next]_vars

\* Timers fire, a backend call settles, queued jobs run, and a caller that
\* stopped the deadline goes on to flush. Producers and callers owe nothing.
Fairness ==
  /\ WF_vars(OnDeadline) /\ WF_vars(WriteSettles) /\ WF_vars(Finally)
  /\ WF_vars(ContinueAutomatic) /\ WF_vars(DrainResumes)
  /\ \A c \in Callers : WF_vars(Flush(c))

FairSpec == Spec /\ Fairness

-----------------------------------------------------------------------------
(***************************************************************************)
(* Properties                                                              *)
(***************************************************************************)
InFlight == IF active = "writing" THEN batch ELSE <<>>

FirstEvents(n) == [i \in 1 .. n |-> i]

\* Every accepted event is, in its order and once, durable, in the batch being
\* written, or queued: refusals, barriers and events admitted during a write
\* never lose, duplicate or reorder one (write-behind.ts:139-158).
Conserved == stored \o InFlight \o pending = FirstEvents(accepted)

\* Whoever is told that a flush succeeded finds everything accepted before the
\* call durable, though the barrier was opened by another caller, overlapped
\* a background write, or retried a refused one (write-behind.ts:63-72).
FlushMeansDurable ==
  [][\A c \in Callers :
       outcome[c] # "ok" /\ outcome'[c] = "ok" => want'[c] <= Len(stored)]_vars

\* One batch at a time: a second write would be appended concurrently, and its
\* finally handler would free the other's slot (write-behind.ts:93-106,153-155).
WritesNeverOverlap ==
  [][active' = "writing" /\ batch' # batch => active = "none"]_vars

\* A queued event always has someone who will write it: a deadline, the active
\* write that follows up, a barrier, a caller about to open one, or the
\* documented pause after a refusal (write-behind.ts:45-56,109-115,132-135).
NeverStranded ==
  pending # <<>> =>
    \/ timer \/ automaticPaused \/ barrier # "none" \/ asking # {}
    \/ deadlineExpired /\ (active # "none" \/ continuation)

\* The barrier, the write and the continuation are never out of step: a
\* barrier waits only for a write that is still to settle, resumes only when
\* the slot is free, a barrier's own write is its alone, and nobody waits
\* without a barrier (write-behind.ts:109-136,153-155).
BarrierTracksWrite ==
  /\ barrier \in {"overlap", "write"} => active # "none"
  /\ barrier \in {"overlapSettled", "writeDone", "writeFailed"} => active = "none"
  /\ active # "none" => (background <=> barrier # "write")
  /\ active = "writing" <=> batch # <<>>
  /\ continuation => active = "none" \/ (active = "writing" /\ barrier = "write")
  /\ active = "retained" => ~deadlineExpired
  /\ active = "retained" /\ barrier = "write" => automaticPaused
  /\ barrier = "writeFailed" => automaticPaused
  /\ barrier = "none" => Waiting = {}
  /\ asking \cap Waiting = {}
  /\ \A c \in Callers : want[c] <= accepted

\* The armed deadline is the only one, and it is for work it may write: a
\* window is never opened over another, during a pause or behind a barrier
\* (write-behind.ts:49-55,147-148).
TimerHasWork == timer => pending # <<>> /\ ~automaticPaused /\ barrier = "none"

\* After a refusal nothing is written automatically until a new event or a
\* flush ends the pause (session-persistence/README.md:90).
PauseHolds ==
  [][automaticPaused /\ active = "none" /\ active' = "writing"
       => ~background']_vars

\* The controller keeps the promise of DurableLog.
Log == INSTANCE DurableLog

ImplementsDurableLog == Log!Spec

\* Every flush promise settles.
FlushSettles == \A c \in Callers : (c \in asking) ~> (c \notin asking \cup Waiting)

\* What was accepted becomes durable without any flush, unless a refusal
\* paused the controller.
EventuallyStored ==
  \A n \in 1 .. MaxEvents :
    (accepted >= n) ~> (Len(stored) >= n \/ automaticPaused)
=============================================================================
