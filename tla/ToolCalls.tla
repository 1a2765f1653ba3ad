----------------------------- MODULE ToolCalls -----------------------------
(***************************************************************************)
(* The scheduler of one assistant step's tool calls,                       *)
(* packages/core/agent-loop/src/tool-calls.ts, over the staged view of the *)
(* tool registry it drives (prepare, dispatch, finalize, finish in         *)
(* packages/core/tools/src/index.ts).                                      *)
(*                                                                         *)
(* Calls are named by their model order.  `pc' names the await the         *)
(* scheduler is at; tools, listeners and the abort run in between.  The    *)
(* indices of runGroup are kept relative to the whole message: the group   *)
(* holds the calls after `base'.                                           *)
(***************************************************************************)
EXTENDS Integers, Sequences, FiniteSets

CONSTANTS N,            \* tool calls of the message
          MaxCap,       \* bound: values of the maxParallelToolCalls setting
          Retried       \* bound: calls whose tools/execute wrapper may call next() twice

ASSUME SizesAssumption == /\ N \in Nat \ {0}
                          /\ MaxCap \in Nat \ {0}
                          /\ Retried \subseteq 1..N

VARIABLES
    pc,        \* where the scheduler is
    signal,    \* the step's AbortSignal
    aborted,   \* the local `aborted' of runGroup
    failure,   \* schedulerFailure is set
    base,      \* planned calls consumed by the groups before this one
    mode,      \* the mode this group was opened with
    cap,       \* maxParallelToolCalls as runGroup read it
    called,    \* tool/call events appended
    results,   \* the calls of the tool/result events, in log order
    committed, \* calls whose result the scheduler has committed
    inFlight,  \* dispatch promises not yet taken by the race
    stage,     \* how far each call is in the registry's pipeline
    result,    \* the outcome of each call so far
    needsPost, \* calls whose slot still needs post-execute
    ran,       \* calls whose tool body was ever invoked
    attempts   \* next() calls of the tools/execute wrappers, per call

groupVars == <<base, mode, cap>>
toolVars  == <<result, needsPost, ran, attempts>>
vars == <<pc, signal, aborted, failure, groupVars, called, results, committed,
          inFlight, stage, toolVars>>

Calls   == 1..N
Modes   == {"parallel", "exclusive"}
Stages  == {"unstarted", "preparing", "allowed", "wrapper", "body",
            "settled", "rejected", "recorded"}
Results == {"none", "ok", "error", "aborted", "notDispatched"}
Pcs     == {"classify", "prepare", "started", "commit", "finalize", "committed",
            "race", "drain", "skip", "skipResult", "returned", "thrown", "impossible"}

GroupEnd(m, b) == IF m = "parallel" THEN N ELSE b + 1

(* A dispatch promise settles with its slot, which may be committed before *)
(* the race takes the promise.                                             *)
Settled(c) == stage[c] \in {"settled", "recorded", "rejected"}

(* Calls whose dispatch is under way: their tools/execute wrappers or body. *)
Running == {c \in Calls : stage[c] \in {"wrapper", "body"}}
-----------------------------------------------------------------------------
(***************************************************************************)
(* The scheduler.                                                          *)
(***************************************************************************)
(* Mutant: an aborted group forgets that the message has later calls. *)
EndGroup_SkipsNothing(ab) ==
    pc' = IF ab THEN "returned" ELSE IF committed # called THEN "impossible" ELSE "classify"

(* The code behind the drained pool: an aborted group skips all that is    *)
(* left of the message, another one has committed what it started.         *)
EndGroup(ab) ==
    pc' = IF ab THEN "skip" ELSE IF committed # called THEN "impossible" ELSE "classify"

StartCall(c) ==
    /\ called' = c
    /\ stage' = [stage EXCEPT ![c] = "preparing"]
    /\ pc' = "prepare"

(* Mutant: the loop bound of fillPool is one too large. *)
HasRoom_OneMore(ab, b, m, k) ==
    ~ab /\ called <= GroupEnd(m, b) /\ Cardinality(inFlight) < k

(* Mutant: later calls of a message join the pool of an exclusive call. *)
HasRoom_NoBarrier(ab, b, m, k) == ~ab /\ called < N /\ Cardinality(inFlight) < k

HasRoom(ab, b, m, k) ==
    ~ab /\ called < GroupEnd(m, b) /\ Cardinality(inFlight) < k

(* fillPool() from the loop head to the next await or to its return.  A    *)
(* later call of a parallel group is classified again, and the registry    *)
(* may have made it exclusive.                                             *)
FillPool(ab, b, m, k) ==
    \/ HasRoom(ab, b, m, k) /\ StartCall(called + 1)
    \/ /\ HasRoom(ab, b, m, k) => m = "parallel" /\ called > b
       /\ IF inFlight # {} THEN pc' = "race" ELSE EndGroup(ab)
       /\ UNCHANGED <<called, stage>>

(* The loop of executeToolCalls, and runGroup up to its first await. *)
NextGroup ==
    /\ pc = "classify" /\ called < N
    /\ base' = called
    /\ mode' \in Modes /\ cap' \in 1..MaxCap
    /\ aborted' = signal
    /\ FillPool(signal, called, mode', cap')
    /\ UNCHANGED <<signal, failure, results, committed, inFlight, toolVars>>

AllGroupsDone ==
    /\ pc \in {"classify", "skip"} /\ called = N
    /\ pc' = "returned"
    /\ UNCHANGED <<signal, aborted, failure, groupVars, called, results, committed,
                   inFlight, stage, toolVars>>

(* Mutant: startCall dispatches without looking at schedulerFailure. *)
PrepareSettles_Unchecked ==
    /\ pc = "prepare" /\ stage[called] \in {"allowed", "settled", "rejected"}
    /\ \/ /\ stage[called] = "rejected"
          /\ failure' = TRUE /\ pc' = "drain"
          /\ UNCHANGED <<inFlight, stage>>
       \/ /\ stage[called] = "allowed"
          /\ stage' = [stage EXCEPT ![called] = "wrapper"]
          /\ inFlight' = inFlight \cup {called}
          /\ pc' = "started"
          /\ UNCHANGED failure
       \/ /\ stage[called] = "settled"
          /\ pc' = "started"
          /\ UNCHANGED <<failure, inFlight, stage>>
    /\ UNCHANGED <<signal, aborted, groupVars, called, results, committed, toolVars>>

(* The rest of startCall. *)
PrepareSettles ==
    /\ pc = "prepare" /\ stage[called] \in {"allowed", "settled", "rejected"}
    /\ \/ /\ failure \/ stage[called] = "rejected"
          /\ failure' = TRUE /\ pc' = "drain"
          /\ UNCHANGED <<inFlight, stage>>
       \/ /\ ~failure /\ stage[called] = "allowed"
          /\ stage' = [stage EXCEPT ![called] = "wrapper"]
          /\ inFlight' = inFlight \cup {called}
          /\ pc' = "started"
          /\ UNCHANGED failure
       \/ /\ ~failure /\ stage[called] = "settled"
          /\ pc' = "started"
          /\ UNCHANGED <<failure, inFlight, stage>>
    /\ UNCHANGED <<signal, aborted, groupVars, called, results, committed, toolVars>>

Started ==
    /\ pc = "started"
    /\ pc' = IF failure THEN "drain" ELSE "commit"
    /\ UNCHANGED <<signal, aborted, failure, groupVars, called, results, committed,
                   inFlight, stage, toolVars>>

(* Append the result and hand its context to the inbox. *)
Record(c) ==
    /\ results' = Append(results, c)
    /\ stage' = [stage EXCEPT ![c] = "recorded"]
    /\ \/ committed' = c /\ pc' = "commit" /\ UNCHANGED failure
       \/ failure' = TRUE /\ pc' = "drain" /\ UNCHANGED committed

(* Mutant: results are committed as they settle. *)
Ready_AsSettled(c) == stage[c] = "settled"

(* commitReady advances over contiguous slots only. *)
Ready(c) == c = committed + 1 /\ stage[c] = "settled"

CommitFinal ==
    /\ pc = "commit"
    /\ \E c \in Calls : Ready(c) /\ c \notin needsPost /\ Record(c)
    /\ UNCHANGED <<signal, aborted, groupVars, called, inFlight, toolVars>>

CommitAwaits ==
    /\ pc = "commit"
    /\ \E c \in Calls : Ready(c) /\ c \in needsPost
    /\ pc' = "finalize"
    /\ UNCHANGED <<signal, aborted, failure, groupVars, called, results, committed,
                   inFlight, stage, toolVars>>

CommitReturns ==
    /\ pc = "commit"
    /\ \A c \in Calls : ~Ready(c)
    /\ pc' = "committed"
    /\ UNCHANGED <<signal, aborted, failure, groupVars, called, results, committed,
                   inFlight, stage, toolVars>>

(* Mutant: the code of a cancelled call ignores whether its body ran. *)
Cancelled_Forgetful(c) == "notDispatched"

(* cancellationResult: the code is selected by whether the body started. *)
Cancelled(c) == IF c \in ran THEN "aborted" ELSE "notDispatched"

OrCancelled(c, r) == IF signal /\ r = "ok" THEN Cancelled(c) ELSE r

(* finalize(): the tools/post-execute waterfall may block the result. *)
FinalizeSettles ==
    /\ pc = "finalize"
    /\ \E c \in Calls :
          /\ Ready(c)
          /\ \E r \in {result[c], "error"} :
                result' = [result EXCEPT ![c] = OrCancelled(c, r)]
          /\ Record(c)
    /\ UNCHANGED <<signal, aborted, groupVars, called, inFlight, needsPost, ran, attempts>>

FinalizeRejects ==
    /\ pc = "finalize"
    /\ failure' = TRUE /\ pc' = "drain"
    /\ UNCHANGED <<signal, aborted, groupVars, called, results, committed, inFlight,
                   stage, toolVars>>

(* Mutant: the abort is not looked at again after a commit. *)
Committed_KeepsGoing ==
    /\ pc = "committed"
    /\ \/ /\ failure /\ pc' = "drain"
          /\ UNCHANGED <<aborted, called, stage>>
       \/ /\ ~failure
          /\ UNCHANGED aborted
          /\ FillPool(aborted, base, mode, cap)
    /\ UNCHANGED <<signal, failure, groupVars, results, committed, inFlight, toolVars>>

Committed ==
    /\ pc = "committed"
    /\ \/ /\ failure /\ pc' = "drain"
          /\ UNCHANGED <<aborted, called, stage>>
       \/ /\ ~failure
          /\ aborted' = (aborted \/ signal)
          /\ FillPool(aborted \/ signal, base, mode, cap)
    /\ UNCHANGED <<signal, failure, groupVars, results, committed, inFlight, toolVars>>

(* Mutant: the race is followed by the next start, not by a commit. *)
Race_SkipsCommit(c) ==
    /\ pc = "race" /\ c \in inFlight /\ Settled(c)
    /\ inFlight' = inFlight \ {c}
    /\ pc' = IF failure THEN "drain" ELSE "committed"
    /\ UNCHANGED <<signal, aborted, failure, groupVars, called, results, committed,
                   stage, toolVars>>

(* Mutant: the settled promise stays in the map and wins every race. *)
Race_KeepsPromise(c) ==
    /\ pc = "race" /\ c \in inFlight /\ Settled(c)
    /\ pc' = IF failure THEN "drain" ELSE "commit"
    /\ UNCHANGED <<signal, aborted, failure, groupVars, called, results, committed,
                   inFlight, stage, toolVars>>

Race(c) ==
    /\ pc = "race" /\ c \in inFlight /\ Settled(c)
    /\ inFlight' = inFlight \ {c}
    /\ pc' = IF failure THEN "drain" ELSE "commit"
    /\ UNCHANGED <<signal, aborted, failure, groupVars, called, results, committed,
                   stage, toolVars>>

(* Mutant: the failure surfaces without waiting for started dispatches. *)
Drain_AtOnce ==
    /\ pc = "drain"
    /\ pc' = "thrown"
    /\ UNCHANGED <<signal, aborted, failure, groupVars, called, results, committed,
                   inFlight, stage, toolVars>>

(* Promise.allSettled over the dispatches still in flight. *)
Drain ==
    /\ pc = "drain"
    /\ \A c \in inFlight : Settled(c)
    /\ pc' = "thrown"
    /\ UNCHANGED <<signal, aborted, failure, groupVars, called, results, committed,
                   inFlight, stage, toolVars>>

(* appendSkippedToolCall for every remaining call of the message. *)
SkipCall ==
    /\ pc = "skip" /\ called < N
    /\ called' = called + 1
    /\ pc' = "skipResult"
    /\ UNCHANGED <<signal, aborted, failure, groupVars, results, committed, inFlight,
                   stage, toolVars>>

SkipResult ==
    /\ pc = "skipResult"
    /\ results' = Append(results, called)
    /\ committed' = called
    /\ stage' = [stage EXCEPT ![called] = "recorded"]
    /\ result' = [result EXCEPT ![called] = "notDispatched"]
    /\ pc' = "skip"
    /\ UNCHANGED <<signal, aborted, failure, groupVars, called, inFlight, needsPost,
                   ran, attempts>>
-----------------------------------------------------------------------------
(***************************************************************************)
(* The registry's pipeline and whoever cancels the step.                   *)
(***************************************************************************)
schedulerVars == <<pc, aborted, failure, groupVars, called, results, committed, inFlight>>

Abort ==
    /\ ~signal /\ pc \notin {"returned", "thrown"}
    /\ signal' = TRUE
    /\ UNCHANGED <<schedulerVars, stage, toolVars>>

(* prepare(): policy denies or fails the call, the abort is found, or the  *)
(* call is allowed; the last look at the signal comes before the promise   *)
(* of prepare() resolves.                                                  *)
PrepareAllows(c) ==
    /\ stage[c] = "preparing" /\ ~signal
    /\ stage' = [stage EXCEPT ![c] = "allowed"]
    /\ UNCHANGED <<schedulerVars, signal, toolVars>>

PrepareAnswers(c, r, post) ==
    /\ stage[c] = "preparing"
    /\ r = "notDispatched" => signal
    /\ stage' = [stage EXCEPT ![c] = "settled"]
    /\ result' = [result EXCEPT ![c] = r]
    /\ needsPost' = IF post THEN needsPost \cup {c} ELSE needsPost
    /\ UNCHANGED <<schedulerVars, signal, ran, attempts>>

PrepareRejects(c) ==
    /\ stage[c] = "preparing"
    /\ stage' = [stage EXCEPT ![c] = "rejected"]
    /\ UNCHANGED <<schedulerVars, signal, toolVars>>

MaxAttempts(c) == IF c \in Retried THEN 2 ELSE 1

(* Mutant: dispatchToolBody invokes the body of an aborted call. *)
CallNext_Unchecked(c) ==
    /\ stage[c] = "wrapper" /\ attempts[c] < MaxAttempts(c)
    /\ attempts' = [attempts EXCEPT ![c] = @ + 1]
    /\ \/ result' = [result EXCEPT ![c] = "error"] /\ UNCHANGED <<stage, ran>>
       \/ /\ ran' = ran \cup {c}
          /\ stage' = [stage EXCEPT ![c] = "body"]
          /\ UNCHANGED result
    /\ UNCHANGED <<schedulerVars, signal, needsPost>>

(* The innermost next() of tools/execute: dispatchToolBody finds the abort, *)
(* finds no tool, or invokes the body.                                     *)
CallNext(c) ==
    /\ stage[c] = "wrapper" /\ attempts[c] < MaxAttempts(c)
    /\ attempts' = [attempts EXCEPT ![c] = @ + 1]
    /\ \/ /\ result' = [result EXCEPT ![c] = IF signal THEN "notDispatched" ELSE "error"]
          /\ UNCHANGED <<stage, ran>>
       \/ /\ ~signal
          /\ ran' = ran \cup {c}
          /\ stage' = [stage EXCEPT ![c] = "body"]
          /\ UNCHANGED result
    /\ UNCHANGED <<schedulerVars, signal, needsPost>>

BodySettles(c) ==
    /\ stage[c] = "body"
    /\ stage' = [stage EXCEPT ![c] = "wrapper"]
    /\ \E r \in {"error", IF signal THEN "aborted" ELSE "ok"} :
          result' = [result EXCEPT ![c] = r]
    /\ UNCHANGED <<schedulerVars, signal, needsPost, ran, attempts>>

(* The tools/execute waterfall returns what next() gave it or an outcome   *)
(* of its own, or throws, which dispatch() turns into a final error.       *)
DispatchSettles(c) ==
    /\ stage[c] = "wrapper"
    /\ stage' = [stage EXCEPT ![c] = "settled"]
    /\ \/ /\ needsPost' = needsPost \cup {c}
          /\ \E r \in {result[c], "ok", "error"} \ {"none"} :
                result' = [result EXCEPT ![c] = OrCancelled(c, r)]
       \/ /\ UNCHANGED needsPost
          /\ result' = [result EXCEPT ![c] = "error"]
    /\ UNCHANGED <<schedulerVars, signal, ran, attempts>>

DispatchRejects(c) ==
    /\ stage[c] = "wrapper"
    /\ stage' = [stage EXCEPT ![c] = "rejected"]
    /\ failure' = TRUE
    /\ UNCHANGED <<pc, signal, aborted, groupVars, called, results, committed, inFlight,
                   toolVars>>
-----------------------------------------------------------------------------
Init ==
    /\ pc = "classify" /\ signal = FALSE /\ aborted = FALSE /\ failure = FALSE
    /\ base = 0 /\ mode = "exclusive" /\ cap = 1
    /\ called = 0 /\ results = <<>> /\ committed = 0 /\ inFlight = {}
    /\ stage = [c \in Calls |-> "unstarted"]
    /\ result = [c \in Calls |-> "none"]
    /\ needsPost = {} /\ ran = {}
    /\ attempts = [c \in Calls |-> 0]

Scheduler ==
    \/ NextGroup \/ AllGroupsDone \/ PrepareSettles \/ Started
    \/ CommitFinal \/ CommitAwaits \/ CommitReturns \/ FinalizeSettles \/ FinalizeRejects
    \/ Committed \/ (\E c \in Calls : Race(c)) \/ Drain \/ SkipCall \/ SkipResult

Prepare(c) ==
    \/ PrepareAllows(c)
    \/ \E r \in {"error", "notDispatched"}, post \in BOOLEAN : PrepareAnswers(c, r, post)
    \/ PrepareRejects(c)

Dispatch(c) == CallNext(c) \/ BodySettles(c) \/ DispatchSettles(c) \/ DispatchRejects(c)

Pipeline(c) == Prepare(c) \/ Dispatch(c)

Next == Scheduler \/ Abort \/ \E c \in Calls : Pipeline(c)

(* The promises of policy, wrappers and tool bodies settle: tools are      *)
(* required to reach quiescence, and next() is called a bounded number of  *)
(* times.                                                                  *)
Fairness == WF_vars(Scheduler) /\ \A c \in Calls : WF_vars(Pipeline(c))

Spec == Init /\ [][Next]_vars

FairSpec == Spec /\ Fairness
-----------------------------------------------------------------------------
(***************************************************************************)
(* Properties.                                                             *)
(***************************************************************************)
(* Every variable keeps its type. *)
TypeOK ==
    /\ pc \in Pcs
    /\ signal \in BOOLEAN /\ aborted \in BOOLEAN /\ failure \in BOOLEAN
    /\ base \in 0..(N - 1) /\ mode \in Modes /\ cap \in 1..MaxCap
    /\ called \in 0..N /\ committed \in 0..N
    /\ results \in Seq(Calls)
    /\ inFlight \subseteq Calls
    /\ stage \in [Calls -> Stages]
    /\ result \in [Calls -> Results]
    /\ needsPost \subseteq Calls /\ ran \subseteq Calls
    /\ attempts \in [Calls -> 0..2]

(* What the step relies on: model order, one result per call, and a normal *)
(* return, cancelled or not, only when every call has its pair; the batch  *)
(* never reaches `unreachable: a non-aborted group commits every started   *)
(* call'.                                                                  *)
Batch == INSTANCE ToolBatch WITH
             outcome <- IF pc \in {"returned", "thrown", "impossible"} THEN pc
                        ELSE "open"

ImplementsToolBatch == Batch!Spec

(* The variables keep their types, and an exclusive call runs alone:       *)
(* nothing overlaps it, not even a call that the registry reclassified     *)
(* while the pool was open; a parallel group never runs more dispatches    *)
(* than the setting it read; and no dispatch outlives the batch: at a      *)
(* barrier, at a return and at a surfaced failure all have settled.        *)
BarriersAndPool ==
    /\ TypeOK
    /\ Cardinality(Running) <= cap
    /\ mode = "exclusive" => Running \subseteq {base + 1}
    /\ \A c \in Running : base < c
    /\ pc \in {"classify", "skip", "skipResult", "returned", "thrown"} => Running = {}

(* A result that says the call was aborted before dispatch is never given  *)
(* to a call whose tool body ran: whoever reads the log may repeat it.  The *)
(* exception is a call whose wrapper went on to retry: the second next()   *)
(* looks at the signal alone.                                              *)
NotDispatchedMeansNotRun ==
    \A c \in Calls : stage[c] = "recorded" /\ result[c] = "notDispatched"
                        => c \notin ran \/ attempts[c] > 1

(* A cancelled step invokes no further tool body, the scheduler opens no   *)
(* further call once it has seen the abort at a commit, and after a failure *)
(* nothing new is dispatched.                                              *)
NothingStartsLate ==
    [][/\ signal => ran' = ran
       /\ signal /\ pc = "committed" => pc' # "prepare"
       /\ failure => Running' \subseteq Running]_vars

(* Cancelled, failed or not, the batch ends. *)
BatchEnds == <>(pc \in {"returned", "thrown"})
=============================================================================
