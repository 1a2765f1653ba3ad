--------------------------- MODULE BackgroundJobs ---------------------------
(***************************************************************************)
(* The process-local job registry (jobs/jobs-local/src/index.ts) with the  *)
(* completion notices of tool-jobs (jobs/tool-jobs/src/index.ts): starting *)
(* background work, reading, waiting for and killing it, its settlement,   *)
(* and the teardown of an owning agent and of the service.                 *)
(*                                                                         *)
(* An action is a synchronous call of the registry or one job of the event *)
(* loop.  The owners are agents that succeed one another under one session *)
(* id, so each of them passes the access check of the others' jobs; calls  *)
(* from other sessions are refused and change nothing.  A job's output is  *)
(* left out, and of its end only whether the producer or a teardown        *)
(* decided it.                                                             *)
(***************************************************************************)
EXTENDS Naturals, FiniteSets

CONSTANTS
  Owners,   \* agent instances
  Waits,    \* bound: calls of wait
  MaxJobs,  \* bound: jobs started
  maxConcurrentJobsPerOwner

ASSUME JobsAssumption ==
  /\ MaxJobs \in Nat /\ maxConcurrentJobsPerOwner \in Nat \ {0}
  /\ "nobody" \notin Owners /\ "service" \notin Owners

Jobs == 1..MaxJobs
Nobody == "nobody"    \* the owner of unowned work, and an empty registry
Service == "service"  \* whose teardown takes every job

VARIABLES
  reg,       \* the instance AgentRegistry holds for the id
  scope,     \* the scope fiber of each agent
  service,   \* the fiber of the registry; listenersClosed unless open
  mounted,   \* tool-jobs is mounted: a controller and a listener
  cleanup,   \* ownerCleanups
  awaited,   \* the jobs each teardown awaits
  owner, status, reported,  \* TrackedTask
  store,     \* the ids in the store
  done,      \* the promise of each producer, and its reaction
  wait,      \* each wait: its job and how far it is
  seen,      \* the statuses change observers last listed
  notices,   \* notices sent for each job
  claimed,   \* jobs whose report a kill or a teardown took
  unheard    \* jobs that settled with nobody to tell

lives == <<reg, scope, service, mounted>>
teardown == <<cleanup, awaited>>
reports == <<reported, wait, notices, claimed, unheard>>
vars == <<lives, teardown, owner, status, store, seen, done, reports>>

Init ==
  /\ reg = Nobody /\ scope = [o \in Owners |-> "new"]
  /\ service = "open" /\ mounted = TRUE
  /\ cleanup = {} /\ awaited = [t \in Owners \cup {Service} |-> {}]
  /\ owner = [j \in Jobs |-> Nobody] /\ status = [j \in Jobs |-> "none"]
  /\ store = {} /\ seen = [j \in Jobs |-> "none"]
  /\ done = [j \in Jobs |-> "pending"]
  /\ wait = [w \in Waits |-> [job |-> 0, at |-> "none"]]
  /\ reported = {} /\ claimed = {} /\ unheard = {}
  /\ notices = [j \in Jobs |-> 0]

-----------------------------------------------------------------------------
(* Records.                                                                *)

isActive(j) == status[j] \in {"running", "stopping"}
isTerminal(j) == status[j] \in {"ended", "failed"}

Owned(o) == {j \in store : owner[j] = o}
activeTaskCount(o) == Cardinality({j \in Owned(o) : isActive(j)})

WaitsAt(j, places) == {w \in Waits : wait[w].job = j /\ wait[w].at \in places}

(* Mutant: an aborted wait is still counted. *)
HasWaiters_Aborted(j) == WaitsAt(j, {"waiting", "timed out", "rejected"}) # {}

\* A wait that timed out is counted until its promise is handled, an aborted
\* one no longer.
HasWaiters(j) == WaitsAt(j, {"waiting", "timed out"}) # {}

\* What list() shows of j.
Shown(j) == IF j \in store THEN status[j] ELSE "none"

\* The observers of these owners list their jobs again.
notifyChanged(owners) ==
  seen' = [j \in Jobs |-> IF owner'[j] \in owners THEN Shown(j)' ELSE seen[j]]

\* settle() of each of S, still active, when the jobs in before are already
\* reported: status' is the caller's.
settle(S, before) ==
  LET quiet == {j \in S : j \in before \/ HasWaiters(j)}
      owed == {j \in S \ quiet : owner[j] # Nobody}
      heard == {j \in owed : mounted' /\ service' = "open"}
  IN
  /\ reported' = before \cup quiet
  /\ wait' = [w \in Waits |->
       IF wait[w].job \in S /\ wait[w].at = "waiting"
         THEN [wait[w] EXCEPT !.at = "released"] ELSE wait[w]]
  /\ notices' = [j \in Jobs |-> IF j \in heard THEN notices[j] + 1 ELSE notices[j]]
  /\ unheard' = unheard \cup (owed \ heard)

-----------------------------------------------------------------------------
(* Starting work.                                                          *)

(* Mutant: a job is accepted for any registered owner, its scope unwinding. *)
ensureOwnerCleanup_AnyScope(o) == o # Nobody => reg = o

\* The owner is the registered instance, and its scope has or takes the effect.
ensureOwnerCleanup(o) ==
  o # Nobody => reg = o /\ (o \in cleanup \/ scope[o] = "active")

\* The cleanup is attached before the limit is looked at and the producer run.
Admitted(o) ==
  /\ mounted /\ service = "open"
  /\ ensureOwnerCleanup(o)
  /\ cleanup' = cleanup \cup ({o} \ {Nobody})
  /\ UNCHANGED <<lives, awaited>>

start(o) ==
  /\ Admitted(o)
  /\ activeTaskCount(o) < maxConcurrentJobsPerOwner
  /\ \E j \in Jobs :
       /\ status[j] = "none" /\ \A i \in 1..(j - 1) : status[i] # "none"
       /\ owner' = [owner EXCEPT ![j] = o]
       /\ status' = [status EXCEPT ![j] = "running"]
       /\ store' = store \cup {j}
  /\ notifyChanged({o})
  /\ UNCHANGED <<done, reports>>

\* The limit is reached, or run() throws.
StartFails(o) == Admitted(o) /\ UNCHANGED <<owner, status, store, seen, done, reports>>

-----------------------------------------------------------------------------
(* Settlement.                                                             *)

\* The producer's done promise resolves or rejects.
ProducerSettles(j) ==
  /\ status[j] # "none" /\ done[j] = "pending"
  /\ done' = [done EXCEPT ![j] = "settled"]
  /\ UNCHANGED <<lives, teardown, owner, status, store, seen, reports>>

\* Its reaction runs: a job that is already terminal keeps its first outcome.
DoneReaction(j) ==
  /\ done[j] = "settled" /\ done' = [done EXCEPT ![j] = "over"]
  /\ UNCHANGED <<lives, teardown, owner, store, claimed>>
  /\ \/ /\ isActive(j)
        /\ status' = [status EXCEPT ![j] = "ended"]
        /\ settle({j}, reported)
        /\ notifyChanged({owner[j]})
     \/ ~isActive(j) /\ UNCHANGED <<status, seen, reported, wait, notices, unheard>>

-----------------------------------------------------------------------------
(* Reading, killing, waiting: calls on a job in the store.                 *)

Callable(j) == service = "open" /\ j \in store

read(j) ==
  /\ Callable(j) /\ isTerminal(j)
  /\ reported' = reported \cup {j}
  /\ UNCHANGED <<lives, teardown, owner, status, store, seen, done, wait, notices,
                 claimed, unheard>>

\* A cancel that throws leaves everything as it was.
kill(j) ==
  /\ Callable(j)
  /\ reported' = reported \cup {j}
  /\ \/ isTerminal(j) /\ UNCHANGED <<status, seen, claimed>>
     \/ /\ isActive(j)
        /\ status' = [status EXCEPT ![j] = "stopping"]
        /\ claimed' = claimed \cup {j}
        /\ UNCHANGED <<owner, store>>
        /\ notifyChanged({owner[j]})
  /\ UNCHANGED <<lives, teardown, owner, store, done, wait, notices, unheard>>

await(w, j) ==
  /\ Callable(j) /\ wait[w].at = "none"
  /\ \/ /\ isActive(j)
        /\ wait' = [wait EXCEPT ![w] = [job |-> j, at |-> "waiting"]]
        /\ UNCHANGED reported
     \/ /\ isTerminal(j)
        /\ wait' = [wait EXCEPT ![w] = [job |-> j, at |-> "late"]]
        /\ reported' = reported \cup {j}
  /\ UNCHANGED <<lives, teardown, owner, status, store, seen, done, notices, claimed,
                 unheard>>

\* The caller's signal fires: the wait rejects, and is uncounted at once.
Abort(w) ==
  /\ wait[w].at = "waiting"
  /\ wait' = [wait EXCEPT ![w].at = "rejected"]
  /\ UNCHANGED <<lives, teardown, owner, status, store, seen, done, reported, notices,
                 claimed, unheard>>

Timeout(w) ==
  /\ wait[w].at = "waiting"
  /\ wait' = [wait EXCEPT ![w].at = "timed out"]
  /\ UNCHANGED <<lives, teardown, owner, status, store, seen, done, reported, notices,
                 claimed, unheard>>

\* wait() goes on after its promise and returns what the record says by then.
Resume(w) ==
  LET j == wait[w].job IN
  /\ wait[w].at \in {"released", "timed out"}
  /\ \/ /\ isTerminal(j)
        /\ wait' = [wait EXCEPT ![w].at = "told"]
        /\ reported' = reported \cup {j}
     \/ /\ isActive(j)
        /\ wait' = [wait EXCEPT ![w].at = "live"]
        /\ UNCHANGED reported
  /\ UNCHANGED <<lives, teardown, owner, status, store, seen, done, notices, claimed,
                 unheard>>

-----------------------------------------------------------------------------
(* Teardown.                                                               *)

(* Mutant: a throwing cancel is logged and its job left as it is. *)
cancelForTeardown_Kept(S, throws) ==
  LET live == {j \in S : isActive(j)} IN
  /\ claimed' = claimed \cup live
  /\ status' = [j \in Jobs |-> IF j \in live \ throws THEN "stopping" ELSE status[j]]
  /\ settle({}, reported \cup live)
  /\ notifyChanged({owner[j] : j \in live})

(* Mutant: the report is claimed after the cancel returned. *)
cancelForTeardown_Late(S, throws) ==
  LET live == {j \in S : isActive(j)}
      failed == live \cap throws IN
  /\ claimed' = claimed \cup live
  /\ status' = [j \in Jobs |-> IF j \in failed THEN "failed"
                               ELSE IF j \in live THEN "stopping" ELSE status[j]]
  /\ settle(failed, reported \cup (live \ failed))
  /\ notifyChanged({owner[j] : j \in live})

\* Every active job is claimed, then cancelled; one whose cancel throws is
\* settled as failed.
cancelForTeardown(S, throws) ==
  LET live == {j \in S : isActive(j)}
      failed == live \cap throws IN
  /\ claimed' = claimed \cup live
  /\ status' = [j \in Jobs |-> IF j \in failed THEN "failed"
                               ELSE IF j \in live THEN "stopping" ELSE status[j]]
  /\ settle(failed, reported \cup live)
  /\ notifyChanged({owner[j] : j \in live})

\* The scope of o reaches the registry's effect: disposeOwned up to its await.
OwnerCleanup(o) ==
  /\ scope[o] = "unloading" /\ scope' = [scope EXCEPT ![o] = "draining"]
  /\ UNCHANGED <<reg, service, mounted, owner, store, done>>
  /\ cleanup' = cleanup \ {o}
  /\ \E S \in {IF o \in cleanup THEN Owned(o) ELSE {}}, throws \in SUBSET Jobs :
       /\ throws \subseteq {j \in S : isActive(j)}
       /\ awaited' = [awaited EXCEPT ![o] = S]
       /\ cancelForTeardown(S, throws)

(* Mutant: the removal is not announced. *)
OwnerDrained_Silent(o) ==
  /\ scope[o] = "draining" /\ \A j \in awaited[o] : isTerminal(j)
  /\ scope' = [scope EXCEPT ![o] = "gone"]
  /\ store' = store \ awaited[o]
  /\ UNCHANGED <<reg, service, mounted, teardown, owner, status, done, reports, seen>>

\* disposeOwned after its await.
OwnerDrained(o) ==
  /\ scope[o] = "draining" /\ \A j \in awaited[o] : isTerminal(j)
  /\ scope' = [scope EXCEPT ![o] = "gone"]
  /\ store' = store \ awaited[o]
  /\ UNCHANGED <<reg, service, mounted, teardown, owner, status, done, reports>>
  /\ notifyChanged(IF awaited[o] = {} THEN {} ELSE {o})

\* disposeAll up to its await.  tool-jobs requires the service and goes with it.
DisposeAll ==
  /\ service = "open" /\ service' = "draining" /\ mounted' = FALSE
  /\ UNCHANGED <<reg, scope, cleanup, owner, store, done>>
  /\ awaited' = [awaited EXCEPT ![Service] = store]
  /\ \E throws \in SUBSET {j \in store : isActive(j)} :
       cancelForTeardown(store, throws)

\* disposeAll after its await; the detached cleanups find nothing to drop.
AllDrained ==
  /\ service = "draining" /\ \A j \in awaited[Service] : isTerminal(j)
  /\ service' = "closed" /\ store' = {} /\ cleanup' = {}
  /\ UNCHANGED <<reg, scope, mounted, awaited, owner, status, done, reports>>
  /\ notifyChanged({owner[j] : j \in awaited[Service]})

-----------------------------------------------------------------------------
(* The agents, and tool-jobs.                                              *)

\* The id is free, or was: an agent enters.
Register(o) ==
  /\ reg = Nobody /\ scope[o] = "new"
  /\ reg' = o /\ scope' = [scope EXCEPT ![o] = "active"]
  /\ UNCHANGED <<service, mounted, teardown, owner, status, store, seen, done, reports>>

\* An agent leaves the registry: after its scope in an orderly dispose, before
\* it when the dispose fails on the way.
Unregister(o) ==
  /\ reg = o /\ reg' = Nobody
  /\ UNCHANGED <<scope, service, mounted, teardown, owner, status, store, seen, done,
                 reports>>

UnloadScope(o) ==
  /\ scope[o] = "active" /\ scope' = [scope EXCEPT ![o] = "unloading"]
  /\ UNCHANGED <<reg, service, mounted, teardown, owner, status, store, seen, done,
                 reports>>

\* tool-jobs is mounted or unmounted.
Mount ==
  /\ service = "open" /\ mounted' = ~mounted
  /\ UNCHANGED <<reg, scope, service, teardown, owner, status, store, seen, done,
                 reports>>

-----------------------------------------------------------------------------
Next ==
  \/ \E o \in Owners \cup {Nobody} : start(o) \/ StartFails(o)
  \/ \E j \in Jobs : ProducerSettles(j) \/ DoneReaction(j) \/ read(j) \/ kill(j)
  \/ \E w \in Waits :
       (\E j \in Jobs : await(w, j)) \/ Abort(w) \/ Timeout(w) \/ Resume(w)
  \/ \E o \in Owners :
       \/ Register(o) \/ Unregister(o) \/ UnloadScope(o)
       \/ OwnerCleanup(o) \/ OwnerDrained(o)
  \/ DisposeAll \/ AllDrained \/ Mount

\* What the event loop, a deadline or a producer that was cancelled will do.
Due ==
  \/ \E j \in Jobs :
       DoneReaction(j) \/ (status[j] = "stopping" /\ ProducerSettles(j))
  \/ \E w \in Waits : Timeout(w) \/ Resume(w)
  \/ \E o \in Owners : OwnerCleanup(o) \/ OwnerDrained(o)
  \/ AllDrained

Spec == Init /\ [][Next]_vars
FairSpec == Spec /\ WF_vars(Due)

-----------------------------------------------------------------------------
Answered(j) == j \in claimed \/ WaitsAt(j, {"released", "timed out", "told"}) # {}

(* Every completion reaches its owner's side exactly once: a job that      *)
(* settled is announced, or a kill, a teardown or a wait that was counted  *)
(* and returns its terminal record took the report, and never both.  Only  *)
(* a job that settled unclaimed with no listener mounted goes unheard      *)
(* (jobs-local 244 to 276, 422, 515).                                      *)
CompletionHeard ==
  \A j \in Jobs : isTerminal(j) /\ owner[j] # Nobody =>
    /\ j \in unheard => ~Answered(j)
    /\ notices[j] = IF j \in unheard \/ Answered(j) THEN 0 ELSE 1

Statuses == {"none", "running", "stopping", "ended", "failed"}
WaitStates == [job : 0..MaxJobs, at : {"none", "waiting", "released", "timed out",
                                       "told", "live", "rejected", "late"}]

TypeOK ==
  /\ reg \in Owners \cup {Nobody}
  /\ scope \in [Owners -> {"new", "active", "unloading", "draining", "gone"}]
  /\ service \in {"open", "draining", "closed"} /\ mounted \in BOOLEAN
  /\ cleanup \subseteq Owners
  /\ awaited \in [Owners \cup {Service} -> SUBSET Jobs]
  /\ owner \in [Jobs -> Owners \cup {Nobody}]
  /\ status \in [Jobs -> Statuses]
  /\ store \subseteq Jobs /\ reported \subseteq Jobs
  /\ claimed \subseteq Jobs /\ unheard \subseteq Jobs
  /\ done \in [Jobs -> {"pending", "settled", "over"}]
  /\ wait \in [Waits -> WaitStates]
  /\ seen \in [Jobs -> Statuses]
  /\ notices \in [Jobs -> Nat]

(* An agent whose scope is gone and a closed service leave no job running  *)
(* and no record behind, whatever was started while they unwound and       *)
(* whichever cancel threw; and no record goes any other way (jobs-local    *)
(* 457 to 499).  The type invariant is the first part.                     *)
TeardownTakesAll ==
  /\ TypeOK
  /\ \A j \in Jobs : status[j] # "none" =>
       IF j \in store
         THEN service # "closed" /\ (owner[j] \in Owners => scope[owner[j]] # "gone")
         ELSE /\ isTerminal(j)
              /\ service = "closed" \/ (owner[j] \in Owners /\ scope[owner[j]] = "gone")

(* Whoever lists the jobs again on every change notification shows what    *)
(* list() would return now, through settlements, cancellations and the     *)
(* removals of both teardowns (jobs-local 402 to 409, 473, 493).  Shown is *)
(* the job and its status: it leaves out the `reported' of a record, which *)
(* read(), wait() and a kill() that comes late set silently (211, 219,     *)
(* 277).                                                                   *)
ObserverIsCurrent == \A j \in Jobs : seen[j] = Shown(j)

\* No wait and no teardown is under way.
AtRest ==
  /\ \A w \in Waits : wait[w].at \notin {"waiting", "released", "timed out"}
  /\ \A o \in Owners : scope[o] \notin {"unloading", "draining"}
  /\ service # "draining"

(* Every wait ends, and so does the teardown of an owner and of the        *)
(* service, when a producer that accepted its cancellation settles: none   *)
(* is left hanging on a job (jobs-local 469, 489, 501 to 506).             *)
JobsSettle == []<>AtRest
=============================================================================
