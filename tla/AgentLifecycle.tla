-------------------------- MODULE AgentLifecycle --------------------------
(***************************************************************************)
(* The lifecycles that share one agent/session id: how the agent loop      *)
(* prepares, publishes and tears down an agent (agent-loop/src/index.ts)   *)
(* in the two registries that arbitrate the id (agent/src/index.ts and     *)
(* session/src/index.ts).                                                  *)
(*                                                                         *)
(* Publication and the removal from the registries run synchronously, but  *)
(* each of their events calls listeners, which may call back into the      *)
(* factory: `frame' is the stack of dispatches under way.  Everything else *)
(* is a job of the event loop and needs an empty stack.  The driver is     *)
(* reduced to whether it runs (module AgentDriver has the rest), a fiber   *)
(* to whether it is unloading, the log of a session to the dispatch of one *)
(* append.                                                                 *)
(***************************************************************************)
EXTENDS Naturals, Sequences

CONSTANTS
  MaxLives,  \* bound: calls of create, createAgent, resume and start-up entries
  MaxDepth,  \* bound: dispatches nested in one another when a call begins
  MaxSends,  \* bound: messages that start a driver
  Pending    \* an agent may be disposed from a session/event listener while
             \* messages are queued

ASSUME LifecycleAssumption ==
  MaxLives \in Nat /\ MaxDepth \in Nat /\ MaxSends \in Nat /\ Pending \in BOOLEAN

Lives == 1..MaxLives
None == 0                      \* no lifecycle: what an empty registry holds
Owners == {"plugin", "loop"}   \* the fiber of a caller, and the factory's own

VARIABLES
  pc, kind, by, \* where each call stands, what was called, the owning fiber
  stop,         \* prepare's AbortController fused with the caller's signal
  down,         \* how far dispose() has come
  drv,          \* the machine
  own,          \* the effect the call holds on its owner's fiber
  joined,       \* lifecycles whose dispose() the owner's unload awaits
  liveAgents,   \* FactoryOwnership.liveAgents
  awaited,      \* what FactoryOwnership.dispose() collected to await
  fiber,        \* the owners' fibers
  sess, agnt,   \* the entry of the id in SessionStore and in AgentRegistry
  announced,    \* entries whose announcement began
  deferred,     \* session entries with detachRequested
  released,     \* start-up entries whose wait for the id is over
  frame,        \* the dispatches under way, innermost last
  edge,         \* the lifecycle event dispatched last
  sends

call == <<pc, kind, by>>
teardown == <<stop, down, drv>>
owners == <<own, joined, liveAgents, awaited, fiber>>
registries == <<sess, agnt, announced, deferred, released, edge>>
vars == <<call, teardown, owners, registries, frame, sends>>

Init ==
  /\ pc = [l \in Lives |-> "none"] /\ kind = [l \in Lives |-> "none"]
  /\ by = [l \in Lives |-> "loop"]
  /\ stop = [l \in Lives |-> FALSE] /\ down = [l \in Lives |-> "no"]
  /\ drv = [l \in Lives |-> "none"] /\ own = [l \in Lives |-> "none"]
  /\ joined = {} /\ liveAgents = {} /\ awaited = {}
  /\ fiber = [o \in Owners |-> "active"]
  /\ sess = None /\ agnt = None /\ announced = {} /\ deferred = {} /\ released = {}
  /\ frame = <<>> /\ edge = <<"none", None>> /\ sends = 0

-----------------------------------------------------------------------------
(* Dispatches.                                                             *)

Top == frame[Len(frame)]
Rest == SubSeq(frame, 1, Len(frame) - 1)
Dispatch(f, l, at) == Append(f, [life |-> l, at |-> at])
InDispatch(l, at) == frame # <<>> /\ Top = [life |-> l, at |-> at]
Appending(l) == \E i \in DOMAIN frame : frame[i] = [life |-> l, at |-> "append"]

Job == frame = <<>>

\* Code that is not the factory's may run: between jobs, and in a listener.
Free == ~(frame # <<>> /\ Top.at = "leaving")

\* Free, and another dispatch may begin.
Nested == Free /\ Len(frame) < MaxDepth

\* The calls are numbered in the order they are made.
Fresh(l) == pc[l] = "none" /\ \A k \in 1..(l - 1) : pc[k] # "none"

Settled(l) == pc[l] \in {"none", "live", "rejected"}

\* Mutant: the wait does not listen for the session's disposal.
checkReleased_AgentOnly(s, a) == released

\* agent/disposed and session/disposed listeners of the start-up entries that
\* wait for the id: each looks whether both registries are empty.
checkReleased(s, a) ==
  IF s = None /\ a = None
  THEN released \cup {l \in Lives : pc[l] = "waiting"} ELSE released

-----------------------------------------------------------------------------
(* Teardown.                                                               *)

\* dispose() of each of S up to its first await, for those where it has not
\* begun: the signal aborts and the machine, if there is one, is cancelled.
dispose(S) ==
  LET T == {l \in S : down[l] = "no"} IN
  /\ stop' = [l \in Lives |-> stop[l] \/ l \in T]
  /\ down' = [l \in Lives |->
       IF l \notin T THEN down[l]
       ELSE IF drv'[l] = "none" THEN "minting"
       ELSE IF drv'[l] = "absent" THEN "unwind" ELSE "drain"]

\* Mutant: the agent's disposal is told although its creation never was.
LeaveAgents_Unheard(l) ==
  /\ agnt' = IF agnt = l THEN None ELSE agnt
  /\ IF agnt = l
     THEN edge' = <<"agent/disposed", l>> /\ frame' = Dispatch(frame, l, "agent gone")
     ELSE edge' = edge /\ frame' = Dispatch(frame, l, "leaving")

\* The agent's entry goes, and observers hear of it if its announcement began.
LeaveAgents(l) ==
  /\ agnt' = IF agnt = l THEN None ELSE agnt
  /\ IF agnt = l /\ <<"agent", l>> \in announced
     THEN edge' = <<"agent/disposed", l>> /\ frame' = Dispatch(frame, l, "agent gone")
     ELSE edge' = edge /\ frame' = Dispatch(frame, l, "leaving")

\* Mutant: prepare() resolves machineReady only when the machine was built.
MachineReady_OnlyBuilt(l) ==
  /\ Job /\ down[l] = "minting" /\ drv[l] \notin {"none", "absent"}
  /\ down' = [down EXCEPT ![l] = "drain"]
  /\ UNCHANGED <<call, stop, drv, owners, registries, frame, sends>>

\* The machine exists: the dispose() that came while its scope was minted goes on.
MachineReady(l) ==
  /\ Job /\ down[l] = "minting" /\ drv[l] # "none"
  /\ down' = [down EXCEPT ![l] = IF drv[l] = "absent" THEN "unwind" ELSE "drain"]
  /\ UNCHANGED <<call, stop, drv, owners, registries, frame, sends>>

\* Mutant: dispose() cancels the machine and does not wait for it.
Drained_Unawaited(l) ==
  /\ Job /\ down[l] = "drain"
  /\ down' = [down EXCEPT ![l] = "unwind"]
  /\ UNCHANGED <<call, stop, drv, owners, registries, frame, sends>>

\* whenIdle() answers: the scope is unwound next.
Drained(l) ==
  /\ Job /\ down[l] = "drain" /\ drv[l] = "idle"
  /\ down' = [down EXCEPT ![l] = "unwind"]
  /\ UNCHANGED <<call, stop, drv, owners, registries, frame, sends>>

\* scope.dispose() settles, and the finally block runs to its end.
Unwound(l) ==
  /\ Job /\ down[l] = "unwind"
  /\ down' = [down EXCEPT ![l] = "session"]
  /\ LeaveAgents(l)
  /\ UNCHANGED <<call, stop, drv, owners, sess, announced, deferred, released, sends>>

\* Then the session's entry, unless an append of it is being dispatched.
LeaveSessions(l) ==
  /\ frame # <<>> /\ Top.life = l /\ down[l] = "session"
  /\ Top.at \in {"agent gone", "leaving"}
  /\ down' = [down EXCEPT ![l] = "release"]
  /\ LET there == sess = l /\ ~Appending(l)
         heard == there /\ <<"session", l>> \in announced IN
     /\ deferred' = IF sess = l /\ Appending(l) THEN deferred \cup {l} ELSE deferred
     /\ sess' = IF there THEN None ELSE sess
     /\ edge' = IF heard THEN <<"session/disposed", l>> ELSE edge
     /\ frame' = Dispatch(Rest, l, IF heard THEN "session gone" ELSE "leaving")
     /\ released' \in {released, checkReleased(sess', agnt)}
     /\ heard \/ released' = released
  /\ UNCHANGED <<call, stop, drv, owners, agnt, announced, sends>>

\* The last listeners have run; untrack, and take the effect off the owner,
\* which does nothing now that dispose() has begun.
Release(l) ==
  /\ frame # <<>> /\ Top.life = l /\ down[l] \in {"release", "down"}
  /\ Top.at \in {"session gone", "leaving"}
  /\ frame' = Rest
  /\ released' = IF Top.at = "session gone" THEN checkReleased(sess, agnt) ELSE released
  /\ down' = [down EXCEPT ![l] = "down"]
  /\ liveAgents' = liveAgents \ {l}
  /\ joined' = joined \ {l} /\ awaited' = awaited \ {<<"agent", l>>}
  /\ own' = [own EXCEPT ![l] = "none"]
  /\ by' = [by EXCEPT ![l] = "loop"]
  /\ kind' = [kind EXCEPT ![l] = IF Settled(l) THEN "none" ELSE @]
  /\ UNCHANGED <<pc, stop, drv, fiber, sess, agnt, announced, deferred, edge, sends>>

\* The holder of a returned handle disposes it.  From a listener of the
\* session's own append, the cancellation of queued messages throws (an append
\* may not be nested), and the finally block runs at once.
HandleDispose(l) ==
  /\ Free /\ pc[l] = "live" /\ kind[l] \in {"createAgent", "resume"} /\ down[l] = "no"
  /\ UNCHANGED drv
  /\ IF Pending /\ Appending(l)
     THEN /\ stop' = [stop EXCEPT ![l] = TRUE]
          /\ down' = [down EXCEPT ![l] = "session"]
          /\ LeaveAgents(l)
     ELSE dispose({l}) /\ UNCHANGED <<agnt, edge, frame>>
  /\ UNCHANGED <<call, owners, sess, announced, deferred, released, sends>>

-----------------------------------------------------------------------------
(* Publication.                                                            *)

\* A call that ends without an agent; a start-up entry then looks whether the
\* artifact exists.
Failed(l) ==
  IF kind[l] = "configured" /\ fiber["loop"] = "active" THEN "listing" ELSE "rejected"

\* A call that leaves no lifecycle behind; who made it matters no more.
Ends(l, calls) ==
  /\ pc' = [calls EXCEPT ![l] = Failed(l)]
  /\ kind' = [kind EXCEPT ![l] = "none"] /\ by' = [by EXCEPT ![l] = "loop"]

\* publish() threw: the asynchronous callers await the teardown first.
PublishFails(l, f) ==
  /\ frame' = f
  /\ dispose({l})
  /\ pc' = [pc EXCEPT ![l] = IF kind[l] = "create" THEN "rejected" ELSE "rollback"]
  /\ UNCHANGED <<agnt, announced, edge>>

\* Mutant: publish() does not look whether the id was taken meanwhile.
Enter_Overwrites(l, f) ==
  IF stop[l]
  THEN PublishFails(l, f) /\ UNCHANGED sess
  ELSE /\ sess' = l
       /\ IF agnt # None
          THEN PublishFails(l, f)
          ELSE /\ agnt' = l
               /\ announced' = announced \cup {<<"session", l>>}
               /\ edge' = <<"session/created", l>>
               /\ frame' = Dispatch(f, l, "session")
               /\ pc' = [pc EXCEPT ![l] = "publish"]
               /\ UNCHANGED <<stop, down>>

\* publish() up to the listeners of session/created.
Enter(l, f) ==
  IF stop[l] \/ sess # None
  THEN PublishFails(l, f) /\ UNCHANGED sess
  ELSE /\ sess' = l
       /\ IF agnt # None
          THEN PublishFails(l, f)
          ELSE /\ agnt' = l
               /\ announced' = announced \cup {<<"session", l>>}
               /\ edge' = <<"session/created", l>>
               /\ frame' = Dispatch(f, l, "session")
               /\ pc' = [pc EXCEPT ![l] = "publish"]
               /\ UNCHANGED <<stop, down>>

\* The session is announced; a listener may throw or abort the call.
SessionAnnounced(l) ==
  /\ InDispatch(l, "session")
  /\ UNCHANGED drv
  /\ \E veto \in BOOLEAN :
       IF veto \/ stop[l]
       THEN PublishFails(l, Rest)
       ELSE /\ announced' = announced \cup {<<"agent", l>>}
            /\ edge' = <<"agent/created", l>>
            /\ frame' = Dispatch(Rest, l, "agent")
            /\ UNCHANGED <<pc, stop, down, agnt>>
  /\ UNCHANGED <<kind, by, owners, sess, deferred, released, sends>>

AgentAnnounced(l) ==
  /\ InDispatch(l, "agent")
  /\ UNCHANGED drv
  /\ \E veto \in BOOLEAN :
       IF veto \/ stop[l]
       THEN PublishFails(l, Rest)
       ELSE /\ frame' = Dispatch(Rest, l, "start")
            /\ UNCHANGED <<pc, stop, down, agnt, announced, edge>>
  /\ UNCHANGED <<kind, by, owners, sess, deferred, released, sends>>

\* agent/session-start is contained; the handle is returned.
SessionStarted(l) ==
  /\ InDispatch(l, "start")
  /\ UNCHANGED drv
  /\ IF stop[l]
     THEN PublishFails(l, Rest)
     ELSE /\ frame' = Rest
          /\ pc' = [pc EXCEPT ![l] = "live"]
          /\ UNCHANGED <<stop, down, agnt, announced, edge>>
  /\ UNCHANGED <<kind, by, owners, sess, deferred, released, sends>>

-----------------------------------------------------------------------------
(* Preparation.                                                            *)

\* prepare() up to the minting of the scope, whose fiber other plugins see.
Prepare(l, calls) ==
  /\ pc' = [calls EXCEPT ![l] = "mint"]
  /\ own' = [own EXCEPT ![l] = "life"]
  /\ liveAgents' = liveAgents \cup {l}
  /\ frame' = Dispatch(frame, l, "mint")

\* sessions.prepare() refuses an id that is live, prepare() an inactive owner.
Begin(l, k, o, calls) ==
  /\ Fresh(l)
  /\ IF sess = None /\ fiber[o] = "active" /\ fiber["loop"] = "active"
     THEN /\ kind' = [kind EXCEPT ![l] = k] /\ by' = [by EXCEPT ![l] = o]
          /\ Prepare(l, calls)
     ELSE Ends(l, calls) /\ UNCHANGED <<own, liveAgents, frame>>
  /\ UNCHANGED <<teardown, joined, awaited, fiber, registries, sends>>

create(l) == Nested /\ \E o \in Owners : Begin(l, "create", o, pc)

createAgent(l) == Nested /\ \E o \in Owners : Begin(l, "createAgent", o, pc)

\* The scope exists, or its minting threw.  createAgent and resume go on to
\* their set-up, create publishes at once.
Minted(l) ==
  /\ InDispatch(l, "mint")
  /\ \E ok \in BOOLEAN :
       /\ drv' = [drv EXCEPT ![l] = IF ok THEN "idle" ELSE "absent"]
       /\ IF ~ok \/ stop[l]
          THEN /\ dispose({l}) /\ frame' = Rest
               /\ pc' = [pc EXCEPT ![l] = Failed(l)]
               /\ UNCHANGED <<sess, agnt, announced, edge>>
          ELSE IF kind[l] = "create"
          THEN Enter(l, Rest)
          ELSE /\ frame' = Rest /\ pc' = [pc EXCEPT ![l] = "setup"]
               /\ UNCHANGED <<stop, down, sess, agnt, announced, edge>>
  /\ UNCHANGED <<kind, by, owners, deferred, released, sends>>

\* The set-up settles, or an abort ends the wait for it.
SetupEnds(l) ==
  /\ Job /\ pc[l] = "setup"
  /\ UNCHANGED drv
  /\ \/ Enter(l, frame)
     \/ PublishFails(l, frame) /\ UNCHANGED sess
  /\ UNCHANGED <<kind, by, owners, deferred, released, sends>>

\* The teardown a failed call awaited is over.
RolledBack(l) ==
  /\ Job /\ pc[l] = "rollback" /\ down[l] = "down"
  /\ Ends(l, pc)
  /\ UNCHANGED <<teardown, owners, registries, frame, sends>>

-----------------------------------------------------------------------------
(* Resumption and start-up entries.                                        *)

\* resumeWith() up to its load, which the owner's unload may abort.
Load(l) ==
  /\ pc' = [pc EXCEPT ![l] = "loading"] /\ own' = [own EXCEPT ![l] = "load"]

resume(l) ==
  /\ Free /\ Fresh(l)
  /\ \E o \in Owners :
       IF fiber[o] = "active" /\ fiber["loop"] = "active"
       THEN Load(l) /\ kind' = [kind EXCEPT ![l] = "resume"] /\ by' = [by EXCEPT ![l] = o]
       ELSE Ends(l, pc) /\ UNCHANGED own
  /\ UNCHANGED <<teardown, joined, liveAgents, awaited, fiber, registries, frame, sends>>

\* The load settles, or an abort ends the wait for it.
LoadEnds(l) ==
  /\ Job /\ pc[l] = "loading"
  /\ own' = [own EXCEPT ![l] = "none"]
  /\ \/ pc' = [pc EXCEPT ![l] = "loaded"] /\ UNCHANGED <<kind, by>>
     \/ Ends(l, pc)
  /\ UNCHANGED <<teardown, joined, liveAgents, awaited, fiber, registries,
                 frame, sends>>

\* Mutant: after the load, only the factory is looked at again.
Loaded_OwnerUnchecked(l) ==
  /\ Job /\ pc[l] = "loaded"
  /\ IF fiber["loop"] = "active" /\ ~stop[l]
     THEN Prepare(l, pc) /\ UNCHANGED <<kind, by>>
     ELSE Ends(l, pc) /\ UNCHANGED <<own, liveAgents, frame>>
  /\ UNCHANGED <<teardown, joined, awaited, fiber, registries, sends>>

\* One job later the owner and the factory are looked at again.
Loaded(l) ==
  /\ Job /\ pc[l] = "loaded"
  /\ IF fiber[by[l]] = "active" /\ fiber["loop"] = "active" /\ ~stop[l]
     THEN Prepare(l, pc) /\ UNCHANGED <<kind, by>>
     ELSE Ends(l, pc) /\ UNCHANGED <<own, liveAgents, frame>>
  /\ UNCHANGED <<teardown, joined, awaited, fiber, registries, sends>>

\* A configured entry waits while a lifecycle holds its id.
restoreOrCreateConfigured(l) ==
  /\ Free /\ Fresh(l) /\ fiber["loop"] = "active"
  /\ kind' = [kind EXCEPT ![l] = "configured"]
  /\ pc' = [pc EXCEPT ![l] = "waiting"]
  /\ released' = IF sess = None /\ agnt = None THEN released \cup {l} ELSE released
  /\ UNCHANGED <<by, teardown, owners, sess, agnt, announced, deferred, edge, frame, sends>>

WaitEnds(l) ==
  /\ Job /\ pc[l] = "waiting" /\ (l \in released \/ fiber["loop"] \notin {"active", "unloading"})
  /\ IF fiber["loop"] = "active"
     THEN Load(l) /\ UNCHANGED <<kind, by>>
     ELSE Ends(l, pc) /\ UNCHANGED own
  /\ UNCHANGED <<teardown, joined, liveAgents, awaited, fiber, registries,
                 frame, sends>>

\* The artifact exists and the failure is reported, or it is created now, as a
\* lifecycle of its own.
Listed(l) ==
  /\ Job /\ pc[l] = "listing"
  /\ \/ /\ pc' = [pc EXCEPT ![l] = "rejected"]
        /\ UNCHANGED <<kind, by, teardown, owners, registries, frame, sends>>
     \/ \E k \in Lives : Begin(k, "create", "loop", [pc EXCEPT ![l] = "rejected"])

-----------------------------------------------------------------------------
(* Owners.                                                                 *)

\* The caller's signal aborts before the call has settled.
CallerAborts(l) ==
  /\ Free /\ ~Settled(l) /\ kind[l] \in {"createAgent", "resume"} /\ ~stop[l]
  /\ down[l] = "no"
  /\ stop' = [stop EXCEPT ![l] = TRUE]
  /\ UNCHANGED <<call, down, drv, owners, registries, frame, sends>>

\* A fiber is disposed; its effects run as jobs of their own.
OwnerUnload(o) ==
  /\ Free /\ fiber[o] = "active"
  /\ fiber' = [fiber EXCEPT ![o] = "unloading"]
  /\ UNCHANGED <<call, teardown, own, joined, liveAgents, awaited, registries, frame, sends>>

\* The effect of one call on its unloading owner: a job, or run by a listener
\* of the call's own publication, as the tests do, which it then aborts.
OwnerEffect(l) ==
  /\ own[l] # "none" /\ fiber[by[l]] # "active"
  /\ frame # <<>> => Top.life = l /\ Top.at \in {"mint", "session", "agent", "start"}
  /\ own' = [own EXCEPT ![l] = "none"]
  /\ UNCHANGED drv
  /\ IF own[l] = "load"
     THEN stop' = [stop EXCEPT ![l] = TRUE] /\ UNCHANGED <<down, joined>>
     ELSE dispose({l}) /\ joined' = IF down[l] = "no" THEN joined \cup {l} ELSE joined
  /\ UNCHANGED <<call, liveAgents, awaited, fiber, registries, frame, sends>>

\* Mutant: create and resume calls under way are not joined.
FactoryDispose_Unjoined ==
  /\ Job /\ fiber["loop"] = "unloading"
  /\ fiber' = [fiber EXCEPT !["loop"] = "disposing"]
  /\ UNCHANGED drv
  /\ LET T == {l \in liveAgents : down[l] = "no"} IN
     /\ stop' = [l \in Lives |-> stop[l] \/ l \in T \/ pc[l] = "loading"]
     /\ down' = [l \in Lives |-> IF l \in T THEN "drain" ELSE down[l]]
  /\ awaited' = {"agent"} \X liveAgents
  /\ UNCHANGED <<call, own, joined, liveAgents, registries, frame, sends>>

\* FactoryOwnership.dispose(): every signal aborts, every live lifecycle is
\* disposed, and the calls under way are collected.
FactoryDispose ==
  /\ Job /\ fiber["loop"] = "unloading"
  /\ fiber' = [fiber EXCEPT !["loop"] = "disposing"]
  /\ UNCHANGED drv
  /\ LET T == {l \in liveAgents : down[l] = "no"} IN
     /\ stop' = [l \in Lives |-> stop[l] \/ l \in T \/ pc[l] = "loading"]
     /\ down' = [l \in Lives |-> IF l \in T THEN "drain" ELSE down[l]]
  /\ awaited' = ({"agent"} \X liveAgents)
       \cup ({"task"} \X {l \in Lives : ~Settled(l) /\ kind[l] # "create"})
  /\ UNCHANGED <<call, own, joined, liveAgents, registries, frame, sends>>

\* The effects of a fiber have settled.
Gone(o) ==
  /\ Job /\ fiber[o] = IF o = "loop" THEN "disposing" ELSE "unloading"
  /\ \A l \in Lives : by[l] = o => /\ own[l] = "none"
                                   /\ l \notin joined
  /\ o = "loop" => \A w \in awaited : w[1] = "task" /\ Settled(w[2])
  /\ fiber' = [fiber EXCEPT ![o] = "gone"]
  /\ UNCHANGED joined
  /\ awaited' = IF o = "loop" THEN {} ELSE awaited
  /\ UNCHANGED <<call, teardown, own, liveAgents, registries, frame, sends>>

-----------------------------------------------------------------------------
(* The driver.                                                             *)

\* Whoever finds the agent in the registry may start its driver, until the
\* teardown has seen it idle: a later message is its sender's mistake.
send(l) ==
  /\ Free /\ agnt = l /\ drv[l] = "idle" /\ down[l] \in {"no", "drain"}
  /\ sends < MaxSends
  /\ sends' = sends + 1
  /\ drv' = [drv EXCEPT ![l] = "started"]
  /\ UNCHANGED <<call, stop, down, owners, registries, frame>>

\* The driver appends an event; the listeners of a live session hear it.
append(l) ==
  /\ Job /\ drv[l] = "started"
  /\ drv' = [drv EXCEPT ![l] = "running"]
  /\ frame' = IF sess = l THEN Dispatch(frame, l, "append") ELSE frame
  /\ UNCHANGED <<call, stop, down, owners, registries, sends>>

\* The dispatch of the append ends, and with it a detach that waited for it.
Appended(l) ==
  /\ InDispatch(l, "append")
  /\ LET late == l \in deferred IN
     /\ deferred' = deferred \ {l}
     /\ sess' = IF late THEN None ELSE sess
     /\ edge' = IF late THEN <<"session/disposed", l>> ELSE edge
     /\ frame' = IF late THEN Dispatch(Rest, l, "session gone") ELSE Rest
  /\ UNCHANGED <<call, teardown, owners, agnt, announced, released, sends>>

DriverStops(l) ==
  /\ Job /\ drv[l] = "running"
  /\ drv' = [drv EXCEPT ![l] = "idle"]
  /\ UNCHANGED <<call, stop, down, owners, registries, frame, sends>>

-----------------------------------------------------------------------------

Publishing(l) == SessionAnnounced(l) \/ AgentAnnounced(l) \/ SessionStarted(l)
Leaving(l) == Unwound(l) \/ LeaveSessions(l) \/ Release(l)

Next ==
  \/ \E l \in Lives :
       \/ create(l) \/ createAgent(l) \/ resume(l) \/ restoreOrCreateConfigured(l)
       \/ LoadEnds(l) \/ Loaded(l) \/ WaitEnds(l) \/ Listed(l)
       \/ Minted(l) \/ SetupEnds(l) \/ RolledBack(l)
       \/ SessionAnnounced(l) \/ AgentAnnounced(l) \/ SessionStarted(l)
       \/ CallerAborts(l) \/ HandleDispose(l) \/ OwnerEffect(l)
       \/ MachineReady(l) \/ Drained(l)
       \/ Unwound(l) \/ LeaveSessions(l) \/ Release(l)
       \/ send(l) \/ append(l) \/ Appended(l) \/ DriverStops(l)
  \/ FactoryDispose
  \/ \E o \in Owners : OwnerUnload(o) \/ Gone(o)

Spec == Init /\ [][Next]_vars

\* What is bound to happen: a listener returns, a job that is due runs, the
\* drain of a cancelled driver and of its scope ends, and the wait for a load or
\* a set-up ends when its call is aborted.
Due ==
  \/ \E l \in Lives :
       \/ Minted(l) \/ Publishing(l) \/ Appended(l) \/ Leaving(l)
       \/ MachineReady(l) \/ Drained(l) \/ append(l) \/ (down[l] # "no" /\ DriverStops(l))
       \/ (stop[l] /\ LoadEnds(l)) \/ (stop[l] /\ SetupEnds(l))
       \/ Loaded(l) \/ WaitEnds(l) \/ Listed(l) \/ RolledBack(l) \/ OwnerEffect(l)
  \/ FactoryDispose
  \/ \E o \in Owners : Gone(o)

FairSpec == Spec /\ WF_vars(Due)

-----------------------------------------------------------------------------
(* Properties.                                                             *)

Running(l) == drv[l] \in {"started", "running"}

Moments == {"mint", "session", "agent", "start", "append", "agent gone", "session gone",
            "leaving"}
Dispatches == [life : Lives, at : Moments]

TypeOK ==
  /\ pc \in [Lives -> {"none", "mint", "setup", "publish", "rollback", "loading",
                       "loaded", "waiting", "listing", "live", "rejected"}]
  /\ kind \in [Lives -> {"none", "create", "createAgent", "resume", "configured"}]
  /\ by \in [Lives -> Owners]
  /\ stop \in [Lives -> BOOLEAN]
  /\ down \in [Lives -> {"no", "minting", "drain", "unwind", "session", "release", "down"}]
  /\ drv \in [Lives -> {"none", "absent", "idle", "started", "running"}]
  /\ own \in [Lives -> {"none", "load", "life"}]
  /\ joined \subseteq Lives /\ liveAgents \subseteq Lives
  /\ awaited \subseteq {"agent", "task"} \X Lives
  /\ fiber \in [Owners -> {"active", "unloading", "disposing", "gone"}]
  /\ sess \in Lives \cup {None} /\ agnt \in Lives \cup {None}
  /\ announced \subseteq {"session", "agent"} \X Lives
  /\ deferred \subseteq Lives /\ released \subseteq Lives
  /\ frame \in Seq(Dispatches)
  /\ edge \in {"none", "session/created", "agent/created", "agent/disposed",
               "session/disposed"} \X (Lives \cup {None})
  /\ sends \in 0..MaxSends

\* An agent that can be looked up has its session in the store, and
\* while a driver runs (even one that a listener of its own creation started,
\* or that is being cancelled) its agent and session are the registered ones:
\* what the request invariant of agent-loop/src/invariant.ts asks of every
\* model call, and what persistence needs to see every event.
SessionLiveWhileRunning ==
  /\ agnt # None => sess = agnt
  /\ \A l \in Lives : Running(l) => sess = l /\ agnt = l

\* What an observer of one id may be told after e.
Follows(e, f) ==
  \/ /\ f[1] = "session/created" /\ e[1] \in {"none", "session/disposed"}
     /\ <<"session", f[2]>> \notin announced
  \/ f[1] = "agent/created" /\ e = <<"session/created", f[2]>>
  \/ f[1] = "agent/disposed" /\ e = <<"agent/created", f[2]>>
  \/ /\ f[1] = "session/disposed"
     /\ e \in {<<"session/created", f[2]>>, <<"agent/disposed", f[2]>>}

\* To a listener registered first, the lifecycles of one id are intervals
\* that never overlap, the agent's inside its session's, each edge told once,
\* and nothing is told of an entry that was rolled back before its
\* announcement: however calls collide, listeners veto, and teardowns race.
LifecyclesNest == [][edge' # edge => Follows(edge, edge')]_vars

\* A start-up entry that waits for an id waits for an entry that is there: no
\* path out of the registries forgets to wake it, not even that of a
\* publication rolled back between its announcements.
NoMissedRelease ==
  Job => \A l \in Lives : pc[l] = "waiting" /\ l \notin released => sess # None

\* Once the factory's unload has settled no call is under way and nothing of it
\* runs or holds an id.  Once a caller's has, whatever it owned and is still
\* registered is being torn down, at the request of someone else.  (The type
\* invariant is its first part.)
UnloadIsQuiescent ==
  /\ TypeOK
  /\ fiber["loop"] = "gone" =>
       /\ sess = None /\ agnt = None /\ liveAgents = {}
       /\ \A l \in Lives : Settled(l) /\ ~Running(l) /\ own[l] = "none"
  /\ fiber["plugin"] = "gone" =>
       \A l \in Lives : by[l] = "plugin" =>
         /\ own[l] = "none"
         /\ l \in {sess, agnt} => down[l] # "no"

\* Nobody waits on himself or on another in a ring: with the calls bounded,
\* there is always a later state in which every teardown that began has ended,
\* every unloading fiber is gone and every aborted call has settled.
TeardownSettles ==
  []<>(/\ \A l \in Lives : down[l] \in {"no", "down"} /\ (stop[l] => Settled(l))
       /\ \A o \in Owners : fiber[o] \in {"active", "gone"})
=============================================================================
