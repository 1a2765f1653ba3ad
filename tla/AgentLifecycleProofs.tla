----------------------- MODULE AgentLifecycleProofs -----------------------
(***************************************************************************)
(* For every number of calls, of nested dispatches and of messages: the    *)
(* two registries agree and a driver runs only while both hold it, the     *)
(* lifecycles told of one id nest, nobody waits for an id that is free,    *)
(* and an unload leaves nothing behind.  Four inductive invariants:        *)
(* LifecycleInv, NestInv on top of it, and WakeInv and UnloadInv, each on  *)
(* top of NestInv.                                                         *)
(***************************************************************************)
EXTENDS AgentLifecycle, SequenceTheorems, TLAPS

\* What is needed of the types.
Shape ==
  /\ stop \in [Lives -> BOOLEAN]
  /\ down \in [Lives -> {"no", "minting", "drain", "unwind", "session", "release", "down"}]
  /\ drv \in [Lives -> {"none", "absent", "idle", "started", "running"}]

\* dispose() runs only behind an aborted signal, which no publication passes.
Aborted == \A l \in Lives : down[l] # "no" => stop[l]

\* The agent leaves its registry before its session and never returns; a
\* session whose removal waits for an append is still the registered one.
Left ==
  /\ \A l \in Lives : down[l] \in {"session", "release", "down"} => agnt # l
  /\ \A l \in deferred \cap Lives : down[l] \in {"release", "down"} /\ sess = l

\* The scope is unwound, and the registries are left, behind an idle machine.
Stopped ==
  \A l \in Lives :
    down[l] \in {"unwind", "session", "release", "down"} => ~Running(l)

LifecycleInv == Shape /\ Aborted /\ Left /\ Stopped /\ SessionLiveWhileRunning

-----------------------------------------------------------------------------
(* Steps that go through the same code. *)

LEMMA NobodyIsNone ==
  ASSUME NEW l \in Lives
  PROVE  l # None
BY LifecycleAssumption DEF Lives, None

\* A step that leaves machines, teardowns and registries alone may abort calls.
LEMMA CallsOnly ==
  ASSUME LifecycleInv, stop' \in [Lives -> BOOLEAN],
         \A l \in Lives : stop[l] => stop'[l],
         UNCHANGED <<down, drv, sess, agnt, deferred>>
  PROVE  LifecycleInv'
BY DEF LifecycleInv, Shape, Aborted, Left, Stopped, SessionLiveWhileRunning, Running

NoneStarts ==
  /\ drv' \in [Lives -> {"none", "absent", "idle", "started", "running"}]
  /\ \A l \in Lives : Running(l)' => Running(l)

LEMMA SameMachines ==
  ASSUME LifecycleInv, UNCHANGED drv
  PROVE  NoneStarts
BY DEF LifecycleInv, Shape, NoneStarts, Running

\* dispose() before its first await: nothing is unregistered yet.
LEMMA DisposeBegins ==
  ASSUME LifecycleInv, NEW S, dispose(S), NoneStarts, UNCHANGED <<sess, agnt, deferred>>
  PROVE  LifecycleInv'
<1> USE DEF LifecycleInv, dispose
<1>1. Shape' /\ Aborted'
  BY DEF Shape, Aborted, NoneStarts
<1>2. Left'
  BY DEF Shape, Left
<1>3. Stopped'
  BY DEF Shape, Stopped, Running, NoneStarts
<1>4. SessionLiveWhileRunning'
  BY DEF SessionLiveWhileRunning, NoneStarts
<1> QED BY <1>1, <1>2, <1>3, <1>4

\* publish() as far as the announcement of the session, or its failure.
LEMMA Enters ==
  ASSUME LifecycleInv, NEW l \in Lives, NEW f, Enter(l, f), NoneStarts, UNCHANGED deferred
  PROVE  LifecycleInv'
<1>1. CASE stop[l] \/ sess # None
  BY <1>1, DisposeBegins DEF Enter, PublishFails
<1>2. CASE ~stop[l] /\ sess = None
  <2>1. agnt = None /\ \A k \in Lives : ~Running(k)'
    BY <1>2, NobodyIsNone DEF LifecycleInv, SessionLiveWhileRunning, NoneStarts
  <2>2. sess' = l /\ agnt' = l /\ UNCHANGED <<stop, down>>
    BY <1>2, <2>1 DEF Enter
  <2>3. down[l] = "no"
    BY <1>2 DEF LifecycleInv, Aborted
  <2>4. Shape' /\ Aborted' /\ Stopped'
    BY <2>1, <2>2 DEF LifecycleInv, Shape, Aborted, Stopped, NoneStarts
  <2>5. deferred' \cap Lives = {}
    BY <1>2, NobodyIsNone DEF LifecycleInv, Left
  <2>6. Left'
    BY <2>2, <2>3, <2>5 DEF LifecycleInv, Left
  <2>7. SessionLiveWhileRunning'
    BY <2>1, <2>2 DEF SessionLiveWhileRunning
  <2> QED BY <2>4, <2>6, <2>7 DEF LifecycleInv
<1> QED BY <1>1, <1>2

\* The agent leaves once its machine has stopped.
LEMMA AgentLeaves ==
  ASSUME LifecycleInv, NEW l \in Lives, down[l] = "unwind",
         down' = [down EXCEPT ![l] = "session"], LeaveAgents(l),
         UNCHANGED <<stop, drv, sess, deferred>>
  PROVE  LifecycleInv'
<1> USE DEF LifecycleInv
<1>1. ~Running(l) /\ agnt' # l /\ (agnt' = agnt \/ agnt' = None)
  BY NobodyIsNone DEF Stopped, LeaveAgents
<1>2. Shape' /\ Aborted'
  BY DEF Shape, Aborted
<1>3. Left'
  BY <1>1, NobodyIsNone DEF Shape, Left
<1>4. Stopped'
  BY <1>1 DEF Shape, Stopped, Running
<1>5. SessionLiveWhileRunning'
  <2>1. agnt # agnt' => agnt = l
    BY DEF LeaveAgents
  <2> QED BY <1>1, <2>1 DEF SessionLiveWhileRunning, Running
<1> QED BY <1>2, <1>3, <1>4, <1>5

-----------------------------------------------------------------------------
(* One lemma per group of actions. *)

LEMMA Calls ==
  ASSUME LifecycleInv, NEW l \in Lives,
         \/ create(l) \/ createAgent(l) \/ resume(l) \/ restoreOrCreateConfigured(l)
         \/ LoadEnds(l) \/ Loaded(l) \/ WaitEnds(l) \/ Listed(l) \/ RolledBack(l)
  PROVE  LifecycleInv'
<1>1. UNCHANGED <<stop, down, drv, sess, agnt, deferred>>
  BY DEF create, createAgent, Begin, resume, restoreOrCreateConfigured, LoadEnds, Loaded,
         WaitEnds, Listed, RolledBack, teardown, registries
<1> QED BY <1>1, CallsOnly DEF LifecycleInv, Shape

LEMMA Publications ==
  ASSUME LifecycleInv, NEW l \in Lives,
         \/ Minted(l) \/ SetupEnds(l)
         \/ SessionAnnounced(l) \/ AgentAnnounced(l) \/ SessionStarted(l)
  PROVE  LifecycleInv'
<1>1. CASE Minted(l)
  <2>1. PICK ok \in BOOLEAN : drv' = [drv EXCEPT ![l] = IF ok THEN "idle" ELSE "absent"]
    BY <1>1 DEF Minted
  <2>2. NoneStarts
    BY <2>1 DEF LifecycleInv, Shape, NoneStarts, Running
  <2>3. UNCHANGED deferred
    BY <1>1 DEF Minted
  <2>4. \/ dispose({l}) /\ UNCHANGED <<sess, agnt>>
        \/ Enter(l, Rest)
        \/ UNCHANGED <<stop, down, sess, agnt>>
    BY <1>1 DEF Minted
  <2>5. CASE UNCHANGED <<stop, down, sess, agnt>>
    BY <2>2, <2>3, <2>5 DEF LifecycleInv, Shape, Aborted, Left, Stopped,
       SessionLiveWhileRunning, NoneStarts
  <2> QED BY <2>2, <2>3, <2>4, <2>5, DisposeBegins, Enters
<1>2. CASE SetupEnds(l)
  <2>1. NoneStarts /\ UNCHANGED deferred
    BY <1>2, SameMachines DEF SetupEnds
  <2>2. Enter(l, frame) \/ (dispose({l}) /\ UNCHANGED <<sess, agnt>>)
    BY <1>2 DEF SetupEnds, PublishFails
  <2> QED BY <2>1, <2>2, DisposeBegins, Enters
<1>3. CASE SessionAnnounced(l) \/ AgentAnnounced(l) \/ SessionStarted(l)
  <2>1. UNCHANGED <<drv, sess, deferred>>
    BY <1>3 DEF SessionAnnounced, AgentAnnounced, SessionStarted
  <2>2. (dispose({l}) /\ UNCHANGED agnt) \/ UNCHANGED <<stop, down, agnt>>
    BY <1>3 DEF SessionAnnounced, AgentAnnounced, SessionStarted, PublishFails
  <2> QED BY <2>1, <2>2, SameMachines, DisposeBegins, CallsOnly DEF LifecycleInv, Shape
<1> QED BY <1>1, <1>2, <1>3

\* Only this lemma needs that no agent is disposed from a listener of its own
\* append while messages are queued.
LEMMA HandleDisposed ==
  ASSUME LifecycleInv, NEW l \in Lives, HandleDispose(l), ~Pending
  PROVE  LifecycleInv'
<1>1. dispose({l}) /\ UNCHANGED <<drv, sess, agnt, deferred>>
  BY DEF HandleDispose
<1> QED BY <1>1, SameMachines, DisposeBegins

LEMMA OwnersAct ==
  ASSUME LifecycleInv, NEW l \in Lives, CallerAborts(l) \/ OwnerEffect(l)
  PROVE  LifecycleInv'
<1>1. UNCHANGED <<drv, sess, agnt, deferred>>
  BY DEF CallerAborts, OwnerEffect, registries
<1>2. \/ stop' = [stop EXCEPT ![l] = TRUE] /\ UNCHANGED down
      \/ dispose({l})
  BY DEF CallerAborts, OwnerEffect
<1> QED BY <1>1, <1>2, CallsOnly, SameMachines, DisposeBegins DEF LifecycleInv, Shape

LEMMA FactoryDisposes ==
  ASSUME LifecycleInv, FactoryDispose
  PROVE  LifecycleInv'
<1> USE DEF LifecycleInv
<1>1. UNCHANGED <<drv, sess, agnt, deferred>>
  BY DEF FactoryDispose, registries
<1>2. /\ stop' \in [Lives -> BOOLEAN]
      /\ down' \in [Lives -> {"no", "minting", "drain", "unwind", "session", "release", "down"}]
      /\ \A l \in Lives : (stop[l] => stop'[l])
                        /\ (down'[l] = down[l] \/ (down'[l] = "drain" /\ stop'[l] /\ down[l] = "no"))
  BY DEF FactoryDispose, Shape
<1>3. Shape' /\ Aborted' /\ Stopped'
  BY <1>1, <1>2 DEF Shape, Aborted, Stopped, Running
<1>4. Left'
  BY <1>1, <1>2 DEF Shape, Left
<1>5. SessionLiveWhileRunning'
  BY <1>1 DEF SessionLiveWhileRunning, Running
<1> QED BY <1>3, <1>4, <1>5

LEMMA Teardowns ==
  ASSUME LifecycleInv, NEW l \in Lives,
         MachineReady(l) \/ Drained(l) \/ Unwound(l) \/ LeaveSessions(l) \/ Release(l)
  PROVE  LifecycleInv'
<1>1. CASE MachineReady(l) \/ Drained(l)
  <2>1. UNCHANGED <<stop, drv, sess, agnt, deferred>>
    BY <1>1 DEF MachineReady, Drained, registries
  <2>2. PICK d \in {"unwind", "drain"} :
          down' = [down EXCEPT ![l] = d] /\ (d = "unwind" => ~Running(l)) /\ down[l] # "no"
    BY <1>1 DEF MachineReady, Drained, Running
  <2>3. Shape' /\ Aborted' /\ Stopped'
    BY <2>1, <2>2 DEF LifecycleInv, Shape, Aborted, Stopped, Running
  <2>4. down[l] \notin {"session", "release", "down"}
    BY <1>1 DEF MachineReady, Drained
  <2>5. Left'
    BY <2>1, <2>2, <2>4 DEF LifecycleInv, Shape, Left
  <2>6. SessionLiveWhileRunning'
    BY <2>1 DEF LifecycleInv, SessionLiveWhileRunning, Running
  <2> QED BY <2>3, <2>5, <2>6 DEF LifecycleInv
<1>2. CASE Unwound(l)
  BY <1>2, AgentLeaves DEF Unwound
<1>3. CASE LeaveSessions(l)
  <2>1. /\ down[l] = "session" /\ down' = [down EXCEPT ![l] = "release"]
        /\ \/ deferred' = deferred \cup {l} /\ sess = l /\ sess' = sess
           \/ deferred' = deferred /\ sess' = (IF sess = l THEN None ELSE sess)
        /\ UNCHANGED <<stop, drv, agnt>>
    BY <1>3 DEF LeaveSessions
  <2>2. agnt # l /\ ~Running(l) /\ stop[l]
    BY <2>1 DEF LifecycleInv, Left, Stopped, Aborted
  <2>3. Shape' /\ Aborted' /\ Stopped'
    BY <2>1, <2>2 DEF LifecycleInv, Shape, Aborted, Stopped, Running
  <2>4. Left'
    BY <2>1, <2>2 DEF LifecycleInv, Shape, Left
  <2>5. SessionLiveWhileRunning'
    BY <2>1, <2>2, NobodyIsNone DEF LifecycleInv, SessionLiveWhileRunning, Running
  <2> QED BY <2>3, <2>4, <2>5 DEF LifecycleInv
<1>4. CASE Release(l)
  <2>1. /\ down[l] \in {"release", "down"} /\ down' = [down EXCEPT ![l] = "down"]
        /\ UNCHANGED <<stop, drv, sess, agnt, deferred>>
    BY <1>4 DEF Release
  <2> QED BY <2>1 DEF LifecycleInv, Shape, Aborted, Left, Stopped,
             SessionLiveWhileRunning, Running
<1> QED BY <1>1, <1>2, <1>3, <1>4

LEMMA DriverSteps ==
  ASSUME LifecycleInv, NEW l \in Lives,
         send(l) \/ append(l) \/ Appended(l) \/ DriverStops(l)
  PROVE  LifecycleInv'
<1>1. CASE send(l)
  <2>1. /\ agnt = l /\ down[l] \in {"no", "drain"} /\ drv' = [drv EXCEPT ![l] = "started"]
        /\ UNCHANGED <<stop, down, sess, agnt, deferred>>
    BY <1>1 DEF send, registries
  <2>2. Shape' /\ Aborted' /\ Left' /\ Stopped'
    BY <2>1 DEF LifecycleInv, Shape, Aborted, Left, Stopped, Running
  <2>3. SessionLiveWhileRunning'
    BY <2>1, NobodyIsNone DEF LifecycleInv, Shape, SessionLiveWhileRunning, Running
  <2> QED BY <2>2, <2>3 DEF LifecycleInv
<1>2. CASE append(l) \/ DriverStops(l)
  <2>1. PICK d \in {"running", "idle"} :
          drv' = [drv EXCEPT ![l] = d] /\ (d = "running" => Running(l))
    BY <1>2 DEF append, DriverStops, Running
  <2>2. NoneStarts
    BY <2>1 DEF LifecycleInv, Shape, NoneStarts, Running
  <2>3. UNCHANGED <<stop, down, sess, agnt, deferred>>
    BY <1>2 DEF append, DriverStops, registries
  <2> QED BY <2>2, <2>3 DEF LifecycleInv, Shape, Aborted, Left, Stopped,
             SessionLiveWhileRunning, NoneStarts
<1>3. CASE Appended(l)
  <2>1. /\ deferred' = deferred \ {l}
        /\ sess' = IF l \in deferred THEN None ELSE sess
        /\ UNCHANGED <<stop, down, drv, agnt>>
    BY <1>3 DEF Appended, teardown
  <2>2. l \in deferred => agnt # l /\ sess = l
    BY DEF LifecycleInv, Left
  <2> QED BY <2>1, <2>2, NobodyIsNone DEF LifecycleInv, Shape, Aborted, Left, Stopped,
             SessionLiveWhileRunning, Running
<1> QED BY <1>1, <1>2, <1>3

-----------------------------------------------------------------------------

LEMMA LifecycleInit == Init => LifecycleInv
<1> SUFFICES ASSUME Init PROVE LifecycleInv
  OBVIOUS
<1>1. Shape /\ Aborted
  BY DEF Init, Shape, Aborted
<1>2. Left /\ Stopped /\ SessionLiveWhileRunning
  BY DEF Init, Left, Stopped, SessionLiveWhileRunning, Running
<1> QED BY <1>1, <1>2 DEF LifecycleInv

LEMMA LifecycleNext ==
  ASSUME LifecycleInv, [Next]_vars, ~Pending
  PROVE  LifecycleInv'
<1>1. CASE UNCHANGED vars
  BY <1>1, CallsOnly DEF vars, teardown, registries, LifecycleInv, Shape
<1>2. ASSUME NEW o \in Owners, OwnerUnload(o) \/ Gone(o)
      PROVE  LifecycleInv'
  BY <1>2, CallsOnly DEF OwnerUnload, Gone, teardown, registries, LifecycleInv, Shape
<1>3. CASE FactoryDispose
  BY <1>3, FactoryDisposes
<1> QED
  BY <1>1, <1>2, <1>3, Calls, Publications, HandleDisposed, OwnersAct, Teardowns, DriverSteps
  DEF Next

\* When no agent is disposed from a listener of its own append with messages
\* queued, an agent in its registry has its session in the store, and a driver
\* runs only while both are registered, whatever calls share the id.
THEOREM DriversAreRegistered == ~Pending => (Spec => []SessionLiveWhileRunning)
<1> SUFFICES ASSUME ~Pending PROVE Spec => []SessionLiveWhileRunning
  OBVIOUS
<1>1. LifecycleInv /\ [Next]_vars => LifecycleInv'
  BY LifecycleNext
<1>2. LifecycleInv => SessionLiveWhileRunning
  BY DEF LifecycleInv
<1> QED BY LifecycleInit, <1>1, <1>2, PTL DEF Spec

-----------------------------------------------------------------------------
(* Lifecycles nest: what the last event told says of the registries. *)

\* Whether an agent was ever announced, and whether it is still there, decide
\* which event of the registered session's lifecycle was the last.
EdgeOK ==
  /\ sess = None => edge[1] \in {"none", "session/disposed"}
  /\ sess # None =>
       /\ <<"session", sess>> \in announced
       /\ <<"agent", sess>> \notin announced => edge = <<"session/created", sess>>
       /\ <<"agent", sess>> \in announced =>
            edge = <<IF agnt = sess THEN "agent/created" ELSE "agent/disposed", sess>>

\* An entry is announced at most once: its call never enters again.
Past == {"publish", "rollback", "live", "rejected", "listing"}

Entered ==
  /\ pc \in [Lives -> Past \cup {"none", "mint", "setup", "loading", "loaded", "waiting"}]
  /\ \A l \in Lives, r \in {"session", "agent"} : <<r, l>> \in announced => pc[l] \in Past

\* The dispatches during which a call is under way.
Calling == {"mint", "session", "agent", "start"}

\* A call is in one such dispatch at a time, and its state says in which half
\* of them; the session being announced is the registered one, with its agent,
\* which is yet to be announced.
Frames ==
  /\ frame \in Seq(Dispatches)
  /\ \A i \in 1..Len(frame) : frame[i].at \in Calling =>
       /\ pc[frame[i].life] = IF frame[i].at = "mint" THEN "mint" ELSE "publish"
       /\ \A j \in 1..Len(frame) :
            frame[j].at \in Calling /\ frame[j].life = frame[i].life => j = i
  /\ \A i \in 1..Len(frame) : frame[i].at = "session" =>
       sess = frame[i].life /\ agnt = sess /\ <<"agent", sess>> \notin announced

NestInv == LifecycleInv /\ EdgeOK /\ Entered /\ Frames

-----------------------------------------------------------------------------
(* Dispatches begin and return at the end of a sequence. *)

LEMMA Extended ==
  ASSUME NEW S, NEW f \in Seq(S), NEW d \in S
  PROVE  /\ Append(f, d) \in Seq(S) /\ Len(Append(f, d)) = Len(f) + 1
         /\ \A i \in 1..Len(f) : Append(f, d)[i] = f[i]
         /\ Append(f, d)[Len(f) + 1] = d
BY AppendProperties

LEMMA OneLess ==
  ASSUME NEW n \in Nat \ {0}, NEW m, m = IF 1 <= n - 1 THEN (n - 1) - 1 + 1 ELSE 0
  PROVE  m = n - 1
OBVIOUS

LEMMA Shortened ==
  ASSUME NEW S, NEW f \in Seq(S), f # <<>>
  PROVE  /\ Len(f) \in Nat \ {0}
         /\ SubSeq(f, 1, Len(f) - 1) \in Seq(S)
         /\ Len(SubSeq(f, 1, Len(f) - 1)) = Len(f) - 1
         /\ \A i \in 1..(Len(f) - 1) : SubSeq(f, 1, Len(f) - 1)[i] = f[i]
<1>1. Len(f) \in Nat \ {0}
  BY EmptySeq
<1>2. \A i \in 1..(Len(f) - 1) : f[i] \in S
  BY <1>1, ElementOfSeq
<1>3. SubSeq(f, 1, Len(f) - 1) \in Seq(S)
  BY <1>1, <1>2, SubSeqProperties
<1>4. Len(SubSeq(f, 1, Len(f) - 1)) = IF 1 <= Len(f) - 1 THEN (Len(f) - 1) - 1 + 1 ELSE 0
  BY <1>1, <1>2, SubSeqProperties
<1>5. Len(SubSeq(f, 1, Len(f) - 1)) = Len(f) - 1
  BY <1>1, <1>4, OneLess, Zenon
<1>6. \A i \in 1..(Len(f) - 1) : SubSeq(f, 1, Len(f) - 1)[i] = f[i]
  BY <1>1, <1>2, SubSeqProperties
<1> QED BY <1>1, <1>3, <1>5, <1>6

LEMMA Pushed ==
  ASSUME NEW f \in Seq(Dispatches), NEW l \in Lives,
         NEW k \in Moments
  PROVE  /\ Dispatch(f, l, k) \in Seq(Dispatches)
         /\ Len(Dispatch(f, l, k)) = Len(f) + 1
         /\ \A i \in 1..Len(f) : Dispatch(f, l, k)[i] = f[i]
         /\ Dispatch(f, l, k)[Len(f) + 1].life = l
         /\ Dispatch(f, l, k)[Len(f) + 1].at = k
<1>1. PICK d \in Dispatches : d.life = l /\ d.at = k /\ Dispatch(f, l, k) = Append(f, d)
  <2>1. [life |-> l, at |-> k] \in Dispatches
    BY DEF Dispatches
  <2> QED BY <2>1 DEF Dispatch
<1>2. /\ Append(f, d) \in Seq(Dispatches) /\ Len(Append(f, d)) = Len(f) + 1
      /\ \A i \in 1..Len(f) : Append(f, d)[i] = f[i]
      /\ Append(f, d)[Len(f) + 1] = d
  BY Extended, Zenon
<1> QED BY <1>1, <1>2, Zenon

\* The dispatches that are left when nothing or the innermost one returns.
Below(f) ==
  /\ f \in Seq(Dispatches) /\ Len(f) \in Nat /\ Len(f) <= Len(frame)
  /\ \A i \in 1..Len(f) : f[i] = frame[i]

LEMMA Popped ==
  ASSUME Frames, frame # <<>>
  PROVE  /\ Len(frame) \in Nat \ {0} /\ Top = frame[Len(frame)]
         /\ Below(Rest) /\ Len(Rest) = Len(frame) - 1
<1>1. frame \in Seq(Dispatches)
  BY DEF Frames
<1>2. /\ Len(frame) \in Nat \ {0}
      /\ Rest \in Seq(Dispatches) /\ Len(Rest) = Len(frame) - 1
      /\ \A i \in 1..(Len(frame) - 1) : Rest[i] = frame[i]
  BY <1>1, Shortened, Zenon DEF Rest
<1>3. Len(Rest) \in Nat /\ Len(Rest) <= Len(frame)
  BY <1>2
<1> QED BY <1>2, <1>3, Zenon DEF Below, Top

LEMMA BelowAll == Frames => Below(frame)
BY LenProperties DEF Frames, Below

LEMMA Apart == ASSUME NEW m \in Nat PROVE m # m + 1
OBVIOUS

LEMMA NoIndices == ASSUME NEW n, n = 0 PROVE \A i \in 1..n : FALSE
OBVIOUS

\* Indices of what is left, and of what may have been added.
LEMMA Indices ==
  ASSUME NEW n \in Nat, NEW m \in Nat, m <= n, NEW p, p = m \/ p = m + 1
  PROVE  /\ p \in Nat
         /\ \A i \in 1..m : i \in 1..n /\ i \in 1..p
         /\ \A i \in 1..p : i \in 1..m \/ (i = p /\ p = m + 1)
OBVIOUS

\* A step after which the dispatches f are left, and at most one begins.
LEMMA FramesKept ==
  ASSUME Frames, NEW f, Below(f), NEW l \in Lives, NEW k \in Moments,
         frame' = f \/ frame' = Dispatch(f, l, k),
         \A i \in 1..Len(f) :
           frame[i].at \in Calling => pc'[frame[i].life] = pc[frame[i].life],
         \A i \in 1..Len(f) : frame[i].at = "session" =>
           sess' = sess /\ agnt' = agnt /\ <<"agent", sess>> \notin announced',
         k \in Calling =>
           /\ pc'[l] = IF k = "mint" THEN "mint" ELSE "publish"
           /\ \A i \in 1..Len(f) : ~(frame[i].at \in Calling /\ frame[i].life = l),
         k = "session" => sess' = l /\ agnt' = l /\ <<"agent", l>> \notin announced'
  PROVE  Frames'
<1> DEFINE n == Len(frame)  m == Len(f)  p == Len(frame')
<1>1. n \in Nat /\ m \in Nat /\ m <= n /\ f \in Seq(Dispatches)
      /\ \A i \in 1..m : f[i] = frame[i]
  BY LenProperties, Zenon DEF Frames, Below
<1>2. /\ frame' \in Seq(Dispatches)
      /\ \A i \in 1..m : frame'[i] = frame[i]
      /\ p = m \/ (p = m + 1 /\ frame'[p].life = l /\ frame'[p].at = k)
  <2>1. CASE frame' = f
    BY <1>1, <2>1, Zenon
  <2>2. CASE frame' = Dispatch(f, l, k)
    <3>1. /\ Dispatch(f, l, k) \in Seq(Dispatches) /\ Len(Dispatch(f, l, k)) = m + 1
          /\ \A i \in 1..m : Dispatch(f, l, k)[i] = f[i]
          /\ Dispatch(f, l, k)[m + 1].life = l /\ Dispatch(f, l, k)[m + 1].at = k
      <4>1. f \in Seq(Dispatches) /\ l \in Lives /\ k \in Moments
        BY <1>1, Zenon
      <4>2. /\ Dispatch(f, l, k) \in Seq(Dispatches) /\ Len(Dispatch(f, l, k)) = Len(f) + 1
            /\ \A i \in 1..Len(f) : Dispatch(f, l, k)[i] = f[i]
            /\ Dispatch(f, l, k)[Len(f) + 1].life = l
            /\ Dispatch(f, l, k)[Len(f) + 1].at = k
        BY ONLY <4>1, Pushed, Zenon
      <4> QED BY ONLY <4>2, Zenon
    <3> QED BY <1>1, <2>2, <3>1, Zenon
  <2> QED BY <2>1, <2>2, Zenon
<1>7. p = m + 1 => frame'[p].life = l /\ frame'[p].at = k
  BY <1>1, <1>2, Apart, Zenon
<1>3. /\ \A i \in 1..m : i \in 1..n /\ i \in 1..p
      /\ \A i \in 1..p : i \in 1..m \/ (i = p /\ p = m + 1)
  BY <1>1, <1>2, Indices, Zenon
<1>4. ASSUME NEW i \in 1..p, frame'[i].at \in Calling
      PROVE  /\ pc'[frame'[i].life] = IF frame'[i].at = "mint" THEN "mint" ELSE "publish"
             /\ \A j \in 1..p :
                  frame'[j].at \in Calling /\ frame'[j].life = frame'[i].life => j = i
  <2>1. CASE i \in 1..m
    <3>1. frame'[i] = frame[i] /\ i \in 1..n
      BY <1>2, <1>3, <2>1, Zenon
    <3>2. pc[frame[i].life] = IF frame[i].at = "mint" THEN "mint" ELSE "publish"
      BY <1>4, <3>1, Zenon DEF Frames
    <3>3. pc'[frame[i].life] = pc[frame[i].life]
      BY <1>4, <2>1, <3>1, Zenon
    <3>4. pc'[frame'[i].life] = IF frame'[i].at = "mint" THEN "mint" ELSE "publish"
      BY <3>1, <3>2, <3>3
    <3>5. ASSUME NEW j \in 1..p, frame'[j].at \in Calling, frame'[j].life = frame'[i].life
          PROVE  j = i
      <4>1. CASE j \in 1..m
        BY <1>2, <1>3, <1>4, <3>1, <3>5, <4>1, Zenon DEF Frames
      <4>2. CASE j = p /\ p = m + 1
        <5>1. frame'[j].at = k /\ frame'[j].life = l
          BY <1>7, <4>2, Zenon
        <5>2. k \in Calling /\ frame[i].at \in Calling /\ frame[i].life = l
          BY <1>4, <3>1, <3>5, <5>1, Zenon
        <5> QED BY <2>1, <5>2, Zenon
      <4> QED BY <1>3, <4>1, <4>2, Zenon
    <3> QED BY <3>4, <3>5, Zenon
  <2>2. CASE i = p /\ p = m + 1
    <3>1. frame'[i].at = k /\ frame'[i].life = l
      BY <1>7, <2>2, Zenon
    <3>2. k \in Calling
      BY <1>4, <3>1, Zenon
    <3>3. pc'[frame'[i].life] = IF frame'[i].at = "mint" THEN "mint" ELSE "publish"
      BY <3>1, <3>2
    <3>4. ASSUME NEW j \in 1..p, frame'[j].at \in Calling, frame'[j].life = frame'[i].life
          PROVE  j = i
      <4>1. CASE j \in 1..m
        <5>1. frame[j].at \in Calling /\ frame[j].life = l
          BY <1>2, <3>1, <3>4, <4>1, Zenon
        <5> QED BY <3>2, <4>1, <5>1, Zenon
      <4>2. CASE j = p /\ p = m + 1
        BY <2>2, <4>2, Zenon
      <4> QED BY <1>3, <4>1, <4>2, Zenon
    <3> QED BY <3>3, <3>4, Zenon
  <2> QED BY <1>3, <2>1, <2>2, Zenon
<1>5. ASSUME NEW i \in 1..p, frame'[i].at = "session"
      PROVE  sess' = frame'[i].life /\ agnt' = sess' /\ <<"agent", sess'>> \notin announced'
  <2>1. CASE i \in 1..m
    <3>1. frame'[i] = frame[i] /\ i \in 1..n
      BY <1>2, <1>3, <2>1, Zenon
    <3>2. sess = frame[i].life /\ agnt = sess
      BY <1>5, <3>1, Zenon DEF Frames
    <3> QED BY <1>5, <2>1, <3>1, <3>2, Zenon
  <2>2. CASE i = p /\ p = m + 1
    <3>1. frame'[i].at = k /\ frame'[i].life = l
      BY <1>7, <2>2, Zenon
    <3> QED BY <1>5, <3>1, Zenon
  <2> QED BY <1>3, <2>1, <2>2, Zenon
<1> QED BY <1>2, <1>4, <1>5, Zenon DEF Frames

-----------------------------------------------------------------------------
(* What each step does to the order of the events and to what it rests on. *)

NestStep ==
  Entered' /\ EdgeOK' /\ Frames' /\ (edge' = edge \/ Follows(edge, edge'))

\* Whose call is in no such dispatch may go on.
LEMMA Outside ==
  ASSUME Frames, NEW l \in Lives, pc[l] \notin {"mint", "publish"}
  PROVE  \A i \in 1..Len(frame) : ~(frame[i].at \in Calling /\ frame[i].life = l)
BY DEF Frames

\* Nor is, below the innermost one, the call whose dispatch that is.
LEMMA TopAlone ==
  ASSUME Frames, NEW l \in Lives, NEW k \in Calling, InDispatch(l, k)
  PROVE  /\ Below(Rest)
         /\ \A i \in 1..Len(Rest) : ~(frame[i].at \in Calling /\ frame[i].life = l)
         /\ pc[l] = IF k = "mint" THEN "mint" ELSE "publish"
         /\ k = "session" => sess = l /\ agnt = l /\ <<"agent", l>> \notin announced
<1> DEFINE n == Len(frame)
<1>1. /\ n \in Nat \ {0} /\ Top = frame[n] /\ Below(Rest) /\ Len(Rest) = n - 1
      /\ Top.life = l /\ Top.at = k
  <2>1. frame # <<>> /\ Top = [life |-> l, at |-> k]
    BY Zenon DEF InDispatch
  <2>2. Top.life = l /\ Top.at = k
    BY ONLY <2>1
  <2> QED BY <2>1, <2>2, Popped, Zenon
<1> HIDE DEF n
<1>2. n \in 1..n /\ \A i \in 1..Len(Rest) : i \in 1..n /\ i # n
  BY ONLY <1>1
<1>3. frame[n].at = k /\ frame[n].life = l
  BY <1>1, Zenon
<1>4. pc[l] = IF k = "mint" THEN "mint" ELSE "publish"
  <2>1. pc[frame[n].life] = IF frame[n].at = "mint" THEN "mint" ELSE "publish"
    BY <1>2, <1>3, Zenon DEF Frames, n
  <2> QED BY ONLY <1>3, <2>1
<1>5. \A i \in 1..Len(Rest) : ~(frame[i].at \in Calling /\ frame[i].life = l)
  BY <1>2, <1>3, Zenon DEF Frames, n
<1>6. k = "session" => sess = l /\ agnt = l /\ <<"agent", l>> \notin announced
  BY <1>2, <1>3, Zenon DEF Frames, n
<1> QED BY <1>1, <1>4, <1>5, <1>6, Zenon

\* A call keeps behind it that it has entered.
Onward(q) ==
  /\ q \in [Lives -> Past \cup {"none", "mint", "setup", "loading", "loaded", "waiting"}]
  /\ \A l \in Lives : pc[l] \in Past => q[l] \in Past

\* A step that tells nothing.
LEMMA Quiet ==
  ASSUME NestInv, UNCHANGED <<sess, agnt, announced, edge>>, Onward(pc'),
         NEW f, Below(f), NEW l \in Lives, NEW k \in Moments,
         frame' = f \/ frame' = Dispatch(f, l, k),
         \A i \in 1..Len(f) :
           frame[i].at \in Calling => pc'[frame[i].life] = pc[frame[i].life],
         k \in Calling =>
           /\ k # "session" /\ pc'[l] = IF k = "mint" THEN "mint" ELSE "publish"
           /\ \A i \in 1..Len(f) : ~(frame[i].at \in Calling /\ frame[i].life = l)
  PROVE  NestStep
<1>1. Entered' /\ EdgeOK'
  BY DEF NestInv, Entered, EdgeOK, Onward
<1>2. \A i \in 1..Len(f) : frame[i].at = "session" => <<"agent", sess>> \notin announced'
  <2> SUFFICES ASSUME NEW i \in 1..Len(f), frame[i].at = "session"
               PROVE  <<"agent", sess>> \notin announced'
    OBVIOUS
  <2>1. i \in 1..Len(frame)
    <3>1. Len(f) \in Nat /\ Len(f) <= Len(frame) /\ Len(frame) \in Nat
      BY LenProperties, Zenon DEF Below, NestInv, Frames
    <3> QED BY <3>1
  <2> QED BY <2>1, Zenon DEF NestInv, Frames
<1>3. k \in Calling => k # "session"
  OBVIOUS
<1>4. k # "session"
  BY <1>3 DEF Calling
<1>5. Frames'
  <2>1. sess' = sess /\ agnt' = agnt
    OBVIOUS
  <2> QED BY <1>2, <1>4, <2>1, FramesKept, Zenon DEF NestInv
<1> QED BY <1>1, <1>5 DEF NestStep

LEMMA LifeOf ==
  ASSUME Frames, NEW i \in 1..Len(frame)
  PROVE  frame[i].life \in Lives
<1>1. frame[i] \in Dispatches
  BY ElementOfSeq, Zenon DEF Frames
<1> QED BY ONLY <1>1 DEF Dispatches

\* A call that is in no dispatch moves on, and may begin its first.
LEMMA CallMoves ==
  ASSUME NestInv, UNCHANGED <<sess, agnt, announced, edge>>, Onward(pc'), NEW l \in Lives,
         \A k \in Lives : pc[k] \in {"mint", "publish"} => pc'[k] = pc[k],
         \/ frame' = frame
         \/ /\ frame' = Dispatch(frame, l, "mint")
            /\ pc'[l] = "mint" /\ pc[l] \notin {"mint", "publish"}
  PROVE  NestStep
<1>1. Frames /\ Below(frame)
  BY BelowAll, Zenon DEF NestInv
<1>2. "mint" \in Moments /\ "leaving" \in Moments /\ "leaving" \notin Calling
  BY DEF Moments, Calling
<1>3. ASSUME NEW i \in 1..Len(frame), frame[i].at \in Calling
      PROVE  pc'[frame[i].life] = pc[frame[i].life]
  <2>1. pc[frame[i].life] = IF frame[i].at = "mint" THEN "mint" ELSE "publish"
    BY <1>1, <1>3, Zenon DEF Frames
  <2>2. pc[frame[i].life] \in {"mint", "publish"}
    BY ONLY <2>1
  <2> QED BY <1>1, <2>2, LifeOf, Zenon
<1>4. CASE frame' = frame
  BY <1>1, <1>2, <1>3, <1>4, Quiet, Zenon
<1>5. CASE frame' = Dispatch(frame, l, "mint") /\ pc'[l] = "mint"
           /\ pc[l] \notin {"mint", "publish"}
  <2> DEFINE k == "mint"
  <2>1. k \in Moments /\ frame' = Dispatch(frame, l, k)
    BY <1>2, <1>5, Zenon
  <2>2. k \in Calling => /\ k # "session"
                         /\ pc'[l] = IF k = "mint" THEN "mint" ELSE "publish"
    BY <1>5
  <2>3. \A i \in 1..Len(frame) : ~(frame[i].at \in Calling /\ frame[i].life = l)
    BY <1>1, <1>5, Outside, Zenon
  <2> HIDE DEF k
  <2> QED BY <1>1, <1>3, <2>1, <2>2, <2>3, Quiet, Zenon
<1> QED BY <1>4, <1>5, Zenon

\* The calls before their first dispatch, between two, and after the last.
LEMMA CallsNest ==
  ASSUME NestInv, NEW l \in Lives,
         \/ create(l) \/ createAgent(l) \/ resume(l) \/ restoreOrCreateConfigured(l)
         \/ LoadEnds(l) \/ Loaded(l) \/ WaitEnds(l) \/ Listed(l) \/ RolledBack(l)
  PROVE  NestStep
<1>1. UNCHANGED <<sess, agnt, announced, edge>>
  BY DEF create, createAgent, Begin, resume, restoreOrCreateConfigured, LoadEnds, Loaded,
         WaitEnds, Listed, RolledBack, registries
<1>2. pc \in [Lives -> Past \cup {"none", "mint", "setup", "loading", "loaded", "waiting"}]
  BY DEF NestInv, Entered
<1>3. \A k \in Lives : Failed(k) \in {"rejected", "listing"}
  BY DEF Failed
<1>4. CASE \/ resume(l) \/ restoreOrCreateConfigured(l)
           \/ LoadEnds(l) \/ WaitEnds(l) \/ RolledBack(l)
  <2>1. /\ frame' = frame
        /\ pc[l] \in {"none", "loading", "waiting", "rollback"}
        /\ \/ pc' = [pc EXCEPT ![l] = Failed(l)]
           \/ /\ pc[l] # "rollback"
              /\ \E q \in {"loading", "loaded", "waiting"} : pc' = [pc EXCEPT ![l] = q]
    BY <1>4 DEF resume, restoreOrCreateConfigured, LoadEnds, WaitEnds, RolledBack, Ends,
                Load, Fresh
  <2>2. Onward(pc') /\ \A k \in Lives : pc[k] \in {"mint", "publish"} => pc'[k] = pc[k]
    BY <1>2, <1>3, <2>1 DEF Onward, Past
  <2> QED BY <1>1, <2>1, <2>2, CallMoves, Zenon
<1>5. CASE create(l) \/ createAgent(l) \/ Loaded(l)
  <2>1. /\ pc[l] \in {"none", "loaded"}
        /\ \/ pc' = [pc EXCEPT ![l] = Failed(l)] /\ frame' = frame
           \/ pc' = [pc EXCEPT ![l] = "mint"] /\ frame' = Dispatch(frame, l, "mint")
    BY <1>5 DEF create, createAgent, Begin, Loaded, Prepare, Ends, Fresh
  <2>2. Onward(pc') /\ \A k \in Lives : pc[k] \in {"mint", "publish"} => pc'[k] = pc[k]
    BY <1>2, <1>3, <2>1 DEF Onward, Past
  <2>3. \/ frame' = frame
        \/ /\ frame' = Dispatch(frame, l, "mint")
           /\ pc'[l] = "mint" /\ pc[l] \notin {"mint", "publish"}
    BY <1>2, <2>1
  <2> QED BY <1>1, <2>2, <2>3, CallMoves, Zenon
<1>6. CASE Listed(l)
  <2>1. pc[l] = "listing"
    BY <1>6 DEF Listed
  <2>2. CASE pc' = [pc EXCEPT ![l] = "rejected"] /\ frame' = frame
    <3>1. Onward(pc') /\ \A k \in Lives : pc[k] \in {"mint", "publish"} => pc'[k] = pc[k]
      BY <1>2, <2>1, <2>2 DEF Onward, Past
    <3> QED BY <1>1, <2>2, <3>1, CallMoves, Zenon
  <2>3. ASSUME NEW k \in Lives, Begin(k, "create", "loop", [pc EXCEPT ![l] = "rejected"])
        PROVE  NestStep
    <3>1. /\ pc[k] = "none"
          /\ \/ pc' = [[pc EXCEPT ![l] = "rejected"] EXCEPT ![k] = Failed(k)] /\ frame' = frame
             \/ /\ pc' = [[pc EXCEPT ![l] = "rejected"] EXCEPT ![k] = "mint"]
                /\ frame' = Dispatch(frame, k, "mint")
      BY <2>3 DEF Begin, Prepare, Ends, Fresh
    <3>2. Onward(pc') /\ \A j \in Lives : pc[j] \in {"mint", "publish"} => pc'[j] = pc[j]
      BY <1>2, <1>3, <2>1, <3>1 DEF Onward, Past
    <3>3. \/ frame' = frame
          \/ /\ frame' = Dispatch(frame, k, "mint")
             /\ pc'[k] = "mint" /\ pc[k] \notin {"mint", "publish"}
      BY <1>2, <3>1
    <3> QED BY <1>1, <3>2, <3>3, CallMoves, Zenon
  <2> QED BY <1>6, <2>2, <2>3 DEF Listed
<1> QED BY <1>4, <1>5, <1>6

\* The dispatches f are left, and in none of them the call of l is under way.
Alone(f, l) ==
  /\ Below(f)
  /\ \A i \in 1..Len(f) : ~(frame[i].at \in Calling /\ frame[i].life = l)

\* The rest of the calls stay in their dispatches.
LEMMA OthersStay ==
  ASSUME Frames, NEW f, NEW l \in Lives, Alone(f, l),
         \A j \in Lives : j # l => pc'[j] = pc[j]
  PROVE  \A i \in 1..Len(f) : frame[i].at \in Calling => pc'[frame[i].life] = pc[frame[i].life]
<1> SUFFICES ASSUME NEW i \in 1..Len(f), frame[i].at \in Calling
             PROVE  pc'[frame[i].life] = pc[frame[i].life]
  OBVIOUS
<1>1. i \in 1..Len(frame)
  <2>1. Len(f) \in Nat /\ Len(f) <= Len(frame) /\ Len(frame) \in Nat
    BY LenProperties, Zenon DEF Alone, Below, Frames
  <2> QED BY <2>1
<1>2. frame[i].life \in Lives
  BY <1>1, LifeOf, Zenon
<1>3. frame[i].life # l
  BY Zenon DEF Alone
<1> QED BY <1>2, <1>3, Zenon

\* The call of l goes on from a dispatch of its own and tells nothing.
LEMMA CallContinues ==
  ASSUME NestInv, UNCHANGED <<sess, agnt, announced, edge>>, NEW l \in Lives,
         NEW q \in Past \cup {"setup"}, pc' = [pc EXCEPT ![l] = q], pc[l] \in Past => q \in Past,
         NEW f, Alone(f, l), NEW k \in Moments,
         frame' = f \/ frame' = Dispatch(f, l, k),
         k \in Calling => k \notin {"mint", "session"} /\ q = "publish"
  PROVE  NestStep
<1>1. pc \in [Lives -> Past \cup {"none", "mint", "setup", "loading", "loaded", "waiting"}]
  BY DEF NestInv, Entered
<1>2. Onward(pc') /\ pc'[l] = q /\ \A j \in Lives : j # l => pc'[j] = pc[j]
  BY <1>1 DEF Onward
<1>3. Frames /\ Below(f)
  BY Zenon DEF Alone, NestInv
<1>4. \A i \in 1..Len(f) : frame[i].at \in Calling => pc'[frame[i].life] = pc[frame[i].life]
  BY <1>2, <1>3, OthersStay, Zenon
<1>5. k \in Calling => k # "session" /\ pc'[l] = IF k = "mint" THEN "mint" ELSE "publish"
  BY <1>2
<1>6. \A i \in 1..Len(f) : ~(frame[i].at \in Calling /\ frame[i].life = l)
  BY Zenon DEF Alone
<1> QED BY <1>2, <1>3, <1>4, <1>5, <1>6, Quiet, Zenon

LEMMA FailureNests ==
  ASSUME NestInv, NEW l \in Lives, NEW f, PublishFails(l, f), UNCHANGED sess, Alone(f, l)
  PROVE  NestStep
<1>1. /\ UNCHANGED <<sess, agnt, announced, edge>> /\ frame' = f
      /\ \E q \in {"rejected", "rollback"} : pc' = [pc EXCEPT ![l] = q]
  BY DEF PublishFails
<1>2. PICK q \in {"rejected", "rollback"} : pc' = [pc EXCEPT ![l] = q]
  BY <1>1
<1>3. q \in Past /\ q \in Past \cup {"setup"}
  BY DEF Past
<1>4. "leaving" \in Moments /\ "leaving" \notin Calling
  BY DEF Moments, Calling
<1> QED BY <1>1, <1>2, <1>3, <1>4, CallContinues, Zenon

LEMMA EntryNests ==
  ASSUME NestInv, NEW l \in Lives, NEW f, Enter(l, f), Alone(f, l), pc[l] \in {"mint", "setup"}
  PROVE  NestStep
<1>1. CASE stop[l] \/ sess # None
  BY <1>1, FailureNests DEF Enter
<1>2. CASE ~stop[l] /\ sess = None
  <2>1. agnt = None
    BY <1>2, NobodyIsNone DEF NestInv, LifecycleInv, SessionLiveWhileRunning
  <2>2. /\ sess' = l /\ agnt' = l /\ announced' = announced \cup {<<"session", l>>}
        /\ edge' = <<"session/created", l>> /\ frame' = Dispatch(f, l, "session")
        /\ pc' = [pc EXCEPT ![l] = "publish"]
    BY <1>2, <2>1 DEF Enter
  <2>3. pc \in [Lives -> Past \cup {"none", "mint", "setup", "loading", "loaded", "waiting"}]
    BY DEF NestInv, Entered
  <2>4. pc[l] \notin Past /\ "publish" \in Past
    BY DEF Past
  <2>5. <<"session", l>> \notin announced /\ <<"agent", l>> \notin announced
    BY <2>4 DEF NestInv, Entered
  <2>6. <<"agent", l>> \notin announced'
    BY <2>2, <2>5
  <2>7. Entered'
    BY <2>2, <2>3, <2>4 DEF NestInv, Entered
  <2>8. EdgeOK'
    BY <2>2, <2>6, NobodyIsNone DEF EdgeOK
  <2>9. Follows(edge, edge')
    BY <1>2, <2>2, <2>5 DEF Follows, NestInv, EdgeOK
  <2>10. Frames'
    <3> DEFINE k == "session"
    <3>1. k \in Moments /\ frame' = Dispatch(f, l, k)
      BY <2>2 DEF Moments
    <3>2. pc'[l] = "publish" /\ \A j \in Lives : j # l => pc'[j] = pc[j]
      BY <2>2, <2>3
    <3>3. pc'[l] = IF k = "mint" THEN "mint" ELSE "publish"
      BY <3>2
    <3>4. Frames /\ Below(f)
      BY Zenon DEF NestInv, Alone
    <3>5. \A i \in 1..Len(f) : frame[i].at \in Calling => pc'[frame[i].life] = pc[frame[i].life]
      BY <3>2, <3>4, OthersStay, Zenon
    <3>6. \A i \in 1..Len(f) : frame[i].at # "session"
      <4> SUFFICES ASSUME NEW i \in 1..Len(f), frame[i].at = "session" PROVE FALSE
        OBVIOUS
      <4>1. i \in 1..Len(frame)
        <5>1. Len(f) \in Nat /\ Len(f) <= Len(frame) /\ Len(frame) \in Nat
          BY <3>4, LenProperties, Zenon DEF Below, Frames
        <5> QED BY <5>1
      <4>2. frame[i].life \in Lives /\ sess = frame[i].life
        BY <3>4, <4>1, LifeOf, Zenon DEF Frames
      <4> QED BY <1>2, <4>2, NobodyIsNone, Zenon
    <3>7. \A i \in 1..Len(f) : ~(frame[i].at \in Calling /\ frame[i].life = l)
      BY Zenon DEF Alone
    <3> HIDE DEF k
    <3> QED BY <2>2, <2>6, <3>1, <3>3, <3>4, <3>5, <3>6, <3>7, FramesKept, Zenon
  <2> QED BY <2>7, <2>8, <2>9, <2>10 DEF NestStep
<1> QED BY <1>1, <1>2

LEMMA PublicationsNest ==
  ASSUME NestInv, NEW l \in Lives,
         \/ Minted(l) \/ SetupEnds(l)
         \/ SessionAnnounced(l) \/ AgentAnnounced(l) \/ SessionStarted(l)
  PROVE  NestStep
<1>1. /\ "leaving" \in Moments /\ "agent" \in Moments /\ "start" \in Moments
      /\ "leaving" \notin Calling
      /\ "mint" \in Calling /\ "session" \in Calling /\ "agent" \in Calling /\ "start" \in Calling
  BY DEF Moments, Calling
<1>2. ASSUME NEW k \in Calling, InDispatch(l, k)
      PROVE  /\ Alone(Rest, l) /\ pc[l] = IF k = "mint" THEN "mint" ELSE "publish"
             /\ k = "session" => sess = l /\ agnt = l /\ <<"agent", l>> \notin announced
  BY <1>2, TopAlone, Zenon DEF NestInv, Alone
<1>3. CASE Minted(l)
  <2>1. Alone(Rest, l) /\ pc[l] = "mint"
    BY <1>1, <1>2, <1>3 DEF Minted
  <2>2. \/ Enter(l, Rest)
        \/ /\ UNCHANGED <<sess, agnt, announced, edge>> /\ frame' = Rest
           /\ \E q \in {"rejected", "listing", "setup"} : pc' = [pc EXCEPT ![l] = q]
    BY <1>3 DEF Minted, Failed
  <2>3. ASSUME UNCHANGED <<sess, agnt, announced, edge>>, frame' = Rest,
               NEW q \in {"rejected", "listing", "setup"}, pc' = [pc EXCEPT ![l] = q]
        PROVE  NestStep
    <3>1. q \in Past \cup {"setup"} /\ (pc[l] \in Past => q \in Past)
      BY <2>1 DEF Past
    <3> QED BY <1>1, <2>1, <2>3, <3>1, CallContinues, Zenon
  <2>4. CASE Enter(l, Rest)
    BY <2>1, <2>4, EntryNests
  <2> QED BY <2>2, <2>3, <2>4
<1>4. CASE SetupEnds(l)
  <2>1. pc[l] = "setup" /\ Alone(frame, l)
    BY <1>4, BelowAll, Outside DEF SetupEnds, NestInv, Alone
  <2> QED BY <1>4, <2>1, FailureNests, EntryNests DEF SetupEnds
<1>5. CASE SessionAnnounced(l)
  <2>1. /\ Alone(Rest, l) /\ pc[l] = "publish"
        /\ sess = l /\ agnt = l /\ <<"agent", l>> \notin announced
    BY <1>1, <1>2, <1>5 DEF SessionAnnounced
  <2>2. CASE PublishFails(l, Rest)
    BY <1>5, <2>1, <2>2, FailureNests DEF SessionAnnounced
  <2>3. CASE ~PublishFails(l, Rest)
    <3>1. /\ announced' = announced \cup {<<"agent", l>>} /\ edge' = <<"agent/created", l>>
          /\ frame' = Dispatch(Rest, l, "agent") /\ UNCHANGED <<pc, sess, agnt>>
      BY <1>5, <2>3 DEF SessionAnnounced
    <3>2. Entered'
      BY <2>1, <3>1 DEF NestInv, Entered, Past
    <3>3. EdgeOK' /\ Follows(edge, edge')
      BY <2>1, <3>1, NobodyIsNone DEF NestInv, EdgeOK, Follows
    <3>4. Frames'
      <4> DEFINE k == "agent"
      <4>1. k \in Moments /\ frame' = Dispatch(Rest, l, k) /\ k # "session"
        BY <1>1, <3>1
      <4>2. pc' = pc /\ pc'[l] = IF k = "mint" THEN "mint" ELSE "publish"
        BY <2>1, <3>1
      <4>3. Frames /\ Below(Rest) /\ \A i \in 1..Len(Rest) : ~(frame[i].at \in Calling /\ frame[i].life = l)
        BY <2>1, Zenon DEF NestInv, Alone
      <4>4. \A i \in 1..Len(Rest) : frame[i].at # "session"
        <5> SUFFICES ASSUME NEW i \in 1..Len(Rest), frame[i].at = "session" PROVE FALSE
          OBVIOUS
        <5>1. i \in 1..Len(frame)
          <6>1. Len(Rest) \in Nat /\ Len(Rest) <= Len(frame) /\ Len(frame) \in Nat
            BY <4>3, LenProperties, Zenon DEF Below, Frames
          <6> QED BY <6>1
        <5>2. sess = frame[i].life
          BY <4>3, <5>1, Zenon DEF Frames
        <5> QED BY <1>1, <2>1, <4>3, <5>2, Zenon
      <4> HIDE DEF k
      <4> QED BY <4>1, <4>2, <4>3, <4>4, FramesKept, Zenon
    <3> QED BY <3>2, <3>3, <3>4 DEF NestStep
  <2> QED BY <2>2, <2>3
<1>6. CASE AgentAnnounced(l) \/ SessionStarted(l)
  <2>1. Alone(Rest, l) /\ pc[l] = "publish"
    BY <1>1, <1>2, <1>6 DEF AgentAnnounced, SessionStarted
  <2>2. pc \in [Lives -> Past \cup {"none", "mint", "setup", "loading", "loaded", "waiting"}]
    BY DEF NestInv, Entered
  <2>3. "publish" \in Past /\ "live" \in Past
    BY DEF Past
  <2>4. UNCHANGED sess
    BY <1>6 DEF AgentAnnounced, SessionStarted
  <2>5. CASE PublishFails(l, Rest)
    BY <2>1, <2>4, <2>5, FailureNests
  <2>6. CASE ~PublishFails(l, Rest)
    <3>1. /\ UNCHANGED <<sess, agnt, announced, edge>>
          /\ \/ pc' = pc /\ frame' = Dispatch(Rest, l, "start")
             \/ pc' = [pc EXCEPT ![l] = "live"] /\ frame' = Rest
      BY <1>6, <2>6 DEF AgentAnnounced, SessionStarted
    <3>2. CASE pc' = pc /\ frame' = Dispatch(Rest, l, "start")
      <4> DEFINE k == "start"  q == "publish"
      <4>1. /\ k \in Moments /\ frame' = Dispatch(Rest, l, k)
            /\ k \in Calling => k \notin {"mint", "session"} /\ q = "publish"
        BY <1>1, <3>2
      <4>2. q \in Past \cup {"setup"} /\ pc' = [pc EXCEPT ![l] = q] /\ (pc[l] \in Past => q \in Past)
        BY <2>1, <2>2, <2>3, <3>2
      <4> HIDE DEF k, q
      <4> QED BY <2>1, <3>1, <4>1, <4>2, CallContinues, Zenon
    <3>3. CASE pc' = [pc EXCEPT ![l] = "live"] /\ frame' = Rest
      <4>1. "live" \in Past \cup {"setup"}
        BY <2>3
      <4> QED BY <1>1, <2>1, <2>3, <3>1, <3>3, <4>1, CallContinues, Zenon
    <3> QED BY <3>1, <3>2, <3>3
  <2> QED BY <2>5, <2>6
<1> QED BY <1>3, <1>4, <1>5, <1>6

\* Steps that change neither a call nor a registry.
LEMMA Uneventful ==
  ASSUME NestInv, UNCHANGED <<pc, sess, agnt, announced, edge>>,
         \/ frame' = frame
         \/ frame # <<>> /\ frame' = Rest
         \/ \E l \in Lives : frame' = Dispatch(frame, l, "append")
  PROVE  NestStep
<1>1. Frames /\ Below(frame) /\ Onward(pc')
  BY BelowAll DEF NestInv, Entered, Onward
<1>2. /\ "append" \in Moments /\ "leaving" \in Moments
      /\ "append" \notin Calling /\ "leaving" \notin Calling
  BY DEF Moments, Calling
<1>3. \A i : pc'[frame[i].life] = pc[frame[i].life]
  OBVIOUS
<1>4. ASSUME NEW l \in Lives, frame' = Dispatch(frame, l, "append")
      PROVE  NestStep
  BY <1>1, <1>2, <1>3, <1>4, Quiet, Zenon
<1>5. CASE frame # <<>> /\ frame' = Rest
  <2>1. Below(Rest) /\ Len(frame) \in Nat \ {0}
    BY <1>1, <1>5, Popped, Zenon
  <2>2. Len(frame) \in 1..Len(frame)
    BY ONLY <2>1
  <2>3. frame[Len(frame)].life \in Lives
    BY <1>1, <2>2, LifeOf, Zenon
  <2> QED BY <1>1, <1>2, <1>3, <1>5, <2>1, <2>3, Quiet, Zenon
<1>6. CASE frame' = frame
  <2>1. CASE frame = <<>>
    <3>1. Entered' /\ EdgeOK'
      BY DEF NestInv, Entered, EdgeOK
    <3>2. Frames'
      BY <1>1, <1>6 DEF Frames
    <3> QED BY <3>1, <3>2 DEF NestStep
  <2>2. CASE frame # <<>>
    <3>1. Len(frame) \in Nat \ {0}
      BY <1>1, <2>2, Popped, Zenon
    <3>2. Len(frame) \in 1..Len(frame)
      BY ONLY <3>1
    <3>3. frame[Len(frame)].life \in Lives
      BY <1>1, <3>2, LifeOf, Zenon
    <3> QED BY <1>1, <1>2, <1>3, <1>6, <3>3, Quiet, Zenon
  <2> QED BY <2>1, <2>2
<1> QED BY <1>4, <1>5, <1>6

\* While the session announced keeps its entry and its agent, a step may tell
\* of others.
LEMMA FramesLeft ==
  ASSUME NestInv, UNCHANGED <<pc, announced>>, NEW f, Below(f), NEW l \in Lives, NEW k \in Moments,
         k \notin Calling, frame' = f \/ frame' = Dispatch(f, l, k),
         sess = agnt => UNCHANGED <<sess, agnt>>
  PROVE  Frames'
<1>1. Frames
  BY Zenon DEF NestInv
<1>2. k # "session"
  BY DEF Calling
<1>3. ASSUME NEW i \in 1..Len(f), frame[i].at = "session"
      PROVE  sess' = sess /\ agnt' = agnt /\ <<"agent", sess>> \notin announced'
  <2>1. i \in 1..Len(frame)
    <3>1. Len(f) \in Nat /\ Len(f) <= Len(frame) /\ Len(frame) \in Nat
      BY <1>1, LenProperties, Zenon DEF Below, Frames
    <3> QED BY <3>1
  <2>2. agnt = sess /\ <<"agent", sess>> \notin announced
    BY <1>1, <1>3, <2>1, Zenon DEF Frames
  <2> QED BY <2>2
<1>4. \A i \in 1..Len(f) : pc'[frame[i].life] = pc[frame[i].life]
  OBVIOUS
<1> QED BY <1>1, <1>2, <1>3, <1>4, FramesKept, Zenon

LEMMA TeardownsNest ==
  ASSUME NestInv, NEW l \in Lives,
         Unwound(l) \/ LeaveSessions(l) \/ Release(l) \/ Appended(l)
  PROVE  NestStep
<1>1. /\ "agent gone" \in Moments /\ "session gone" \in Moments /\ "leaving" \in Moments
      /\ "agent gone" \notin Calling /\ "session gone" \notin Calling /\ "leaving" \notin Calling
  BY DEF Moments, Calling
<1>2. Frames /\ Left /\ EdgeOK /\ Entered /\ SessionLiveWhileRunning
  BY DEF NestInv, LifecycleInv
<1>3. frame # <<>> => Below(Rest)
  BY <1>2, Popped, Zenon
<1>4. CASE Unwound(l)
  <2>1. /\ frame = <<>> /\ UNCHANGED <<pc, sess, announced>>
        /\ agnt' = IF agnt = l THEN None ELSE agnt
        /\ IF agnt = l /\ <<"agent", l>> \in announced
           THEN edge' = <<"agent/disposed", l>> /\ frame' = Dispatch(frame, l, "agent gone")
           ELSE edge' = edge /\ frame' = Dispatch(frame, l, "leaving")
    BY <1>4 DEF Unwound, Job, LeaveAgents, call
  <2>2. Entered'
    BY <1>2, <2>1 DEF Entered
  <2>3. EdgeOK' /\ (edge' = edge \/ Follows(edge, edge'))
    <3>1. agnt # None => sess = agnt
      BY <1>2 DEF SessionLiveWhileRunning
    <3>2. CASE agnt = l /\ <<"agent", l>> \in announced
      <4>1. sess = l /\ sess # None /\ edge = <<"agent/created", l>>
        BY <1>2, <3>1, <3>2, NobodyIsNone DEF EdgeOK
      <4>2. sess' = l /\ agnt' = None /\ announced' = announced /\ edge' = <<"agent/disposed", l>>
        BY <2>1, <3>2, <4>1
      <4>3. EdgeOK'
        BY <1>2, <3>2, <4>1, <4>2, NobodyIsNone DEF EdgeOK
      <4> QED BY <4>1, <4>2, <4>3 DEF Follows
    <3>3. CASE ~(agnt = l /\ <<"agent", l>> \in announced)
      <4>1. sess' = sess /\ announced' = announced /\ edge' = edge
        BY <2>1, <3>3
      <4>2. agnt' = agnt \/ (agnt = l /\ sess = l /\ <<"agent", sess>> \notin announced)
        BY <2>1, <3>1, <3>3, NobodyIsNone
      <4>3. EdgeOK'
        BY <1>2, <4>1, <4>2 DEF EdgeOK
      <4> QED BY <4>1, <4>3
    <3> QED BY <3>2, <3>3
  <2>4. PICK k \in {"agent gone", "leaving"} : frame' = Dispatch(frame, l, k)
    BY <2>1
  <2>5. Frames'
    <3>1. k \in Moments /\ k \notin Calling /\ Below(frame)
      BY <1>1, <1>2, BelowAll
    <3>2. Len(frame) = 0
      BY <2>1
    <3>3. \A i \in 1..Len(frame) : FALSE
      BY <3>2, NoIndices, Zenon
    <3>4. k # "session"
      BY <3>1 DEF Calling
    <3> QED BY <1>2, <2>4, <3>1, <3>3, <3>4, FramesKept, Zenon
  <2> QED BY <2>2, <2>3, <2>5 DEF NestStep
<1>5. CASE LeaveSessions(l)
  <2>1. /\ frame # <<>> /\ down[l] = "session" /\ UNCHANGED <<pc, agnt, announced>>
        /\ \/ sess' = sess /\ edge' = edge
           \/ /\ sess = l /\ sess' = None
              /\ edge' = IF <<"session", l>> \in announced THEN <<"session/disposed", l>> ELSE edge
        /\ \E k \in {"session gone", "leaving"} : frame' = Dispatch(Rest, l, k)
    BY <1>5 DEF LeaveSessions, call
  <2>2. agnt # l
    BY <1>2, <2>1 DEF Left
  <2>3. Entered'
    BY <1>2, <2>1 DEF Entered
  <2>4. EdgeOK' /\ (edge' = edge \/ Follows(edge, edge'))
    <3>1. CASE sess' = sess /\ edge' = edge
      BY <1>2, <2>1, <3>1 DEF EdgeOK
    <3>2. CASE ~(sess' = sess /\ edge' = edge)
      <4>1. sess = l /\ sess # None /\ sess' = None
        BY <2>1, <3>2, NobodyIsNone
      <4>2. edge \in {<<"session/created", l>>, <<"agent/disposed", l>>}
            /\ <<"session", l>> \in announced
        BY <1>2, <2>2, <4>1 DEF EdgeOK
      <4>3. edge' = <<"session/disposed", l>>
        BY <2>1, <3>2, <4>2
      <4> QED BY <4>1, <4>2, <4>3 DEF EdgeOK, Follows
    <3> QED BY <3>1, <3>2
  <2>5. PICK k \in {"session gone", "leaving"} : frame' = Dispatch(Rest, l, k)
    BY <2>1
  <2>6. Frames'
    <3>1. k \in Moments /\ k \notin Calling /\ Below(Rest)
      BY <1>1, <1>3, <2>1
    <3>2. UNCHANGED <<pc, announced>> /\ (sess = agnt => UNCHANGED <<sess, agnt>>)
      BY <2>1, <2>2
    <3> QED BY <2>5, <3>1, <3>2, FramesLeft, Zenon
  <2> QED BY <2>3, <2>4, <2>6 DEF NestStep
<1>6. CASE Release(l)
  BY <1>6, Uneventful DEF Release
<1>7. CASE Appended(l)
  <2>1. /\ frame # <<>> /\ UNCHANGED <<pc, agnt, announced>>
        /\ sess' = IF l \in deferred THEN None ELSE sess
        /\ edge' = IF l \in deferred THEN <<"session/disposed", l>> ELSE edge
        /\ frame' = IF l \in deferred THEN Dispatch(Rest, l, "session gone") ELSE Rest
    BY <1>7 DEF Appended, InDispatch, call
  <2>2. CASE l \notin deferred
    BY <2>1, <2>2, Uneventful
  <2>3. CASE l \in deferred
    <3>1. sess = l /\ agnt # l
      BY <1>2, <2>3 DEF Left
    <3>2. Entered'
      BY <1>2, <2>1 DEF Entered
    <3>3. EdgeOK' /\ Follows(edge, edge')
      BY <1>2, <2>1, <2>3, <3>1, NobodyIsNone DEF EdgeOK, Follows
    <3>4. Frames'
      <4>1. Below(Rest) /\ UNCHANGED <<pc, announced>> /\ sess # agnt
        BY <1>3, <2>1, <3>1
      <4>2. frame' = Dispatch(Rest, l, "session gone")
        BY <2>1, <2>3
      <4> QED BY <1>1, <4>1, <4>2, FramesLeft, Zenon
    <3> QED BY <3>2, <3>3, <3>4 DEF NestStep
  <2> QED BY <2>2, <2>3
<1> QED BY <1>4, <1>5, <1>6, <1>7

LEMMA NestNext ==
  ASSUME NestInv, [Next]_vars, ~Pending
  PROVE  NestStep
<1>1. CASE UNCHANGED vars
  BY <1>1, Uneventful DEF vars, call, registries
<1>2. CASE FactoryDispose \/ \E o \in Owners : OwnerUnload(o) \/ Gone(o)
  <2>1. UNCHANGED <<pc, sess, agnt, announced, edge, frame>>
    BY <1>2 DEF FactoryDispose, OwnerUnload, Gone, call, registries
  <2> QED BY <2>1, Uneventful
<1>3. ASSUME NEW l \in Lives,
             \/ CallerAborts(l) \/ HandleDispose(l) \/ OwnerEffect(l)
             \/ MachineReady(l) \/ Drained(l) \/ send(l) \/ append(l) \/ DriverStops(l)
      PROVE  NestStep
  <2>1. UNCHANGED <<pc, sess, agnt, announced, edge>>
    BY <1>3 DEF CallerAborts, HandleDispose, OwnerEffect, MachineReady, Drained, send, append,
       DriverStops, call, registries
  <2>2. frame' = frame \/ frame' = Dispatch(frame, l, "append")
    BY <1>3 DEF CallerAborts, HandleDispose, OwnerEffect, MachineReady, Drained, send, append,
       DriverStops
  <2> QED BY <2>1, <2>2, Uneventful
<1>4. ASSUME NEW l \in Lives,
             Unwound(l) \/ LeaveSessions(l) \/ Release(l) \/ Appended(l)
      PROVE  NestStep
  BY <1>4, TeardownsNest
<1> QED
  BY <1>1, <1>2, <1>3, <1>4, CallsNest, PublicationsNest DEF Next

LEMMA NestInit == Init => NestInv
<1> SUFFICES ASSUME Init PROVE NestInv
  OBVIOUS
<1>1. Entered /\ EdgeOK
  BY DEF Init, Entered, EdgeOK
<1>2. Frames
  BY DEF Init, Frames
<1> QED BY <1>1, <1>2, LifecycleInit DEF NestInv

\* When no agent is disposed from a listener of its own append with messages
\* queued, an observer of the id hears of lifecycles one after the other, each
\* agent within its session, every edge once, whatever calls share the id.
THEOREM LifecyclesAreNested == ~Pending => (Spec => LifecyclesNest)
<1> SUFFICES ASSUME ~Pending PROVE Spec => LifecyclesNest
  OBVIOUS
<1>1. NestInv /\ [Next]_vars => NestInv'
  BY LifecycleNext, NestNext DEF NestInv, NestStep
<1>2. NestInv /\ [Next]_vars => [edge' # edge => Follows(edge, edge')]_vars
  BY NestNext DEF NestStep
<1> QED BY NestInit, <1>1, <1>2, PTL DEF Spec, LifecyclesNest

-----------------------------------------------------------------------------
(* Nobody waits for an entry that is gone. *)

Waits == \A l \in Lives : pc[l] = "waiting" /\ l \notin released => sess # None

\* The removal of a session is being told: its last listeners wake who waits.
Telling(f) == \E i \in 1..Len(f) : f[i].at = "session gone"

WakeInv == NestInv /\ (Waits \/ Telling(frame))

\* A step that ends no such dispatch.
TellsOn ==
  \/ frame' = frame
  \/ \E l \in Lives, k \in Moments : frame' = Dispatch(frame, l, k)
  \/ /\ frame # <<>> /\ Top.at # "session gone"
     /\ frame' = Rest \/ \E l \in Lives, k \in Moments : frame' = Dispatch(Rest, l, k)

LEMMA TellingGoesOn ==
  ASSUME Frames, TellsOn, Telling(frame)
  PROVE  Telling(frame)'
<1>1. PICK i \in 1..Len(frame) : frame[i].at = "session gone"
  BY DEF Telling
<1>2. ASSUME NEW f, Below(f), i \in 1..Len(f),
             \/ frame' = f
             \/ \E l \in Lives, k \in Moments : frame' = Dispatch(f, l, k)
      PROVE  Telling(frame)'
  <2>1. f[i] = frame[i] /\ f \in Seq(Dispatches) /\ Len(f) \in Nat
    BY <1>2, Zenon DEF Below
  <2>2. CASE frame' = f
    BY <1>1, <1>2, <2>1, <2>2, Zenon DEF Telling
  <2>3. ASSUME NEW l \in Lives, NEW k \in Moments, frame' = Dispatch(f, l, k)
        PROVE  Telling(frame)'
    <3>1. Len(frame') = Len(f) + 1 /\ frame'[i] = frame[i]
      BY <1>2, <2>1, <2>3, Pushed, Zenon
    <3>2. i \in 1..Len(frame')
      BY <1>2, <2>1, <3>1
    <3> QED BY <1>1, <3>1, <3>2, Zenon DEF Telling
  <2> QED BY <1>2, <2>2, <2>3, Zenon
<1>3. CASE frame' = frame \/ \E l \in Lives, k \in Moments : frame' = Dispatch(frame, l, k)
  BY <1>1, <1>2, <1>3, BelowAll, Zenon
<1>4. CASE /\ frame # <<>> /\ Top.at # "session gone"
           /\ frame' = Rest \/ \E l \in Lives, k \in Moments : frame' = Dispatch(Rest, l, k)
  <2> DEFINE n == Len(frame)
  <2>1. n \in Nat \ {0} /\ Top = frame[n] /\ Below(Rest) /\ Len(Rest) = n - 1
    BY <1>4, Popped, Zenon
  <2>2. i # n
    BY <1>1, <1>4, <2>1, Zenon
  <2>3. i \in 1..n
    OBVIOUS
  <2> HIDE DEF n
  <2>4. i \in 1..Len(Rest)
    BY ONLY <2>1, <2>2, <2>3
  <2> QED BY <1>2, <1>4, <2>1, <2>4, Zenon
<1> QED BY <1>3, <1>4, Zenon DEF TellsOn

LEMMA TellingBegins ==
  ASSUME NEW f, Below(f), NEW l \in Lives, frame' = Dispatch(f, l, "session gone")
  PROVE  Telling(frame)'
<1> DEFINE m == Len(f)
<1>1. "session gone" \in Moments
  BY DEF Moments
<1>2. f \in Seq(Dispatches) /\ m \in Nat
  BY Zenon DEF Below
<1>3. Len(frame') = m + 1 /\ frame'[m + 1].at = "session gone"
  BY <1>1, <1>2, Pushed, Zenon
<1> HIDE DEF m
<1>4. m + 1 \in 1..Len(frame')
  <2>1. m \in Nat /\ Len(frame') = m + 1
    BY <1>2, <1>3, Zenon
  <2> QED BY ONLY <2>1
<1> QED BY <1>3, <1>4, Zenon DEF Telling

LEMMA WakeStep ==
  ASSUME WakeInv, TellsOn,
         Waits => Waits' \/ Telling(frame)'
  PROVE  Waits' \/ Telling(frame)'
BY TellingGoesOn DEF WakeInv, NestInv

\* Steps that begin no wait and leave the registries or register a session.
LEMMA NoWaitBegins ==
  ASSUME Waits, released' = released, sess' = sess \/ sess' # None,
         \A l \in Lives : pc'[l] = "waiting" => pc[l] = "waiting"
  PROVE  Waits'
BY DEF Waits

LEMMA WakeNext ==
  ASSUME WakeInv, [Next]_vars, ~Pending
  PROVE  Waits' \/ Telling(frame)'
<1>0. Frames /\ Left /\ EdgeOK /\ SessionLiveWhileRunning
  BY DEF WakeInv, NestInv, LifecycleInv
<1>1. /\ agnt # None => sess = agnt
      /\ pc \in [Lives -> Past \cup {"none", "mint", "setup", "loading", "loaded", "waiting"}]
  BY DEF WakeInv, NestInv, LifecycleInv, SessionLiveWhileRunning, Entered
<1>11. frame # <<>> => Below(Rest)
  BY <1>0, Popped, Zenon
<1>2. \A l \in Lives : Failed(l) # "waiting"
  BY DEF Failed
<1>3. ASSUME NEW l \in Lives,
             \/ create(l) \/ createAgent(l) \/ resume(l) \/ LoadEnds(l) \/ Loaded(l)
             \/ WaitEnds(l) \/ Listed(l) \/ RolledBack(l)
      PROVE  Waits' \/ Telling(frame)'
  <2>1. UNCHANGED <<sess, released>>
    BY <1>3 DEF create, createAgent, Begin, resume, LoadEnds, Loaded, WaitEnds, Listed,
       RolledBack, registries
  <2>2. frame' = frame \/ \E k \in Lives : frame' = Dispatch(frame, k, "mint")
    BY <1>3 DEF create, createAgent, Begin, Prepare, resume, LoadEnds, Loaded, WaitEnds, Listed,
       RolledBack
  <2>3. \A k \in Lives : pc'[k] = "waiting" => pc[k] = "waiting"
    BY <1>1, <1>2, <1>3 DEF create, createAgent, Begin, Prepare, Ends, resume, Load, LoadEnds,
       Loaded, WaitEnds, Listed, RolledBack
  <2>4. TellsOn
    BY <2>2 DEF TellsOn, Moments
  <2> QED BY <2>1, <2>3, <2>4, NoWaitBegins, WakeStep
<1>4. ASSUME NEW l \in Lives, restoreOrCreateConfigured(l)
      PROVE  Waits' \/ Telling(frame)'
  <2>1. /\ pc' = [pc EXCEPT ![l] = "waiting"] /\ UNCHANGED <<sess, agnt, frame>>
        /\ released' = IF sess = None /\ agnt = None THEN released \cup {l} ELSE released
    BY <1>4 DEF restoreOrCreateConfigured
  <2>2. Waits => Waits'
    <3> SUFFICES ASSUME Waits, NEW k \in Lives, pc'[k] = "waiting", k \notin released'
                 PROVE  sess # None
      BY <2>1 DEF Waits
    <3>1. CASE k = l
      BY <1>1, <2>1, <3>1
    <3>2. CASE k # l
      BY <1>1, <2>1, <3>2 DEF Waits
    <3> QED BY <3>1, <3>2
  <2> QED BY <2>1, <2>2, WakeStep DEF TellsOn
<1>5. ASSUME NEW l \in Lives,
             \/ Minted(l) \/ SetupEnds(l)
             \/ SessionAnnounced(l) \/ AgentAnnounced(l) \/ SessionStarted(l)
      PROVE  Waits' \/ Telling(frame)'
  <2>1. released' = released /\ (sess' = sess \/ sess' # None)
    BY <1>5, NobodyIsNone DEF Minted, SetupEnds, SessionAnnounced, AgentAnnounced,
       SessionStarted, Enter
  <2>2. \A k \in Lives : pc'[k] = "waiting" => pc[k] = "waiting"
    BY <1>1, <1>2, <1>5 DEF Minted, SetupEnds, SessionAnnounced, AgentAnnounced,
       SessionStarted, Enter, PublishFails
  <2>3. TellsOn
    <3>1. CASE SetupEnds(l)
      BY <3>1 DEF SetupEnds, Enter, PublishFails, TellsOn, Moments
    <3>2. CASE Minted(l) \/ SessionAnnounced(l) \/ AgentAnnounced(l) \/ SessionStarted(l)
      <4>1. frame # <<>> /\ Top.at # "session gone"
        <5>1. PICK k \in {"mint", "session", "agent", "start"} : InDispatch(l, k)
          BY <3>2 DEF Minted, SessionAnnounced, AgentAnnounced, SessionStarted
        <5>2. frame # <<>> /\ Top = [life |-> l, at |-> k]
          BY <5>1, Zenon DEF InDispatch
        <5> QED BY <5>2
      <4>2. frame' = Rest \/ \E k \in Moments : frame' = Dispatch(Rest, l, k)
        BY <3>2 DEF Minted, SessionAnnounced, AgentAnnounced, SessionStarted, Enter,
           PublishFails, Moments
      <4> QED BY <4>1, <4>2 DEF TellsOn
    <3> QED BY <1>5, <3>1, <3>2
  <2> QED BY <2>1, <2>2, <2>3, NoWaitBegins, WakeStep
<1>6. ASSUME NEW l \in Lives,
             \/ CallerAborts(l) \/ HandleDispose(l) \/ OwnerEffect(l) \/ Unwound(l)
             \/ MachineReady(l) \/ Drained(l) \/ send(l) \/ append(l) \/ DriverStops(l)
      PROVE  Waits' \/ Telling(frame)'
  <2>1. UNCHANGED <<pc, sess, released>>
    BY <1>6 DEF CallerAborts, HandleDispose, OwnerEffect, Unwound, MachineReady, Drained, send,
       append, DriverStops, call, registries
  <2>2. TellsOn
    BY <1>6 DEF CallerAborts, HandleDispose, OwnerEffect, Unwound, MachineReady, Drained, send,
       append, DriverStops, LeaveAgents, TellsOn, Moments
  <2> QED BY <2>1, <2>2, NoWaitBegins, WakeStep
<1>7. ASSUME NEW l \in Lives, LeaveSessions(l)
      PROVE  Waits' \/ Telling(frame)'
  <2>1. /\ frame # <<>> /\ Top.at # "session gone" /\ UNCHANGED pc
        /\ \E k \in Moments : frame' = Dispatch(Rest, l, k)
        /\ released \subseteq released'
    BY <1>7 DEF LeaveSessions, call, Moments, checkReleased
  <2>2. CASE sess' = sess
    <3>1. Waits => Waits'
      BY <2>1, <2>2 DEF Waits
    <3> QED BY <2>1, <2>2, <3>1, WakeStep DEF TellsOn
  <2>3. CASE sess' # sess
    <3>1. sess = l /\ <<"session", l>> \in announced
      <4>1. sess = l
        BY <1>7, <2>3 DEF LeaveSessions
      <4> QED BY <1>0, <4>1, NobodyIsNone DEF EdgeOK
    <3>2. frame' = Dispatch(Rest, l, "session gone")
      BY <1>7, <2>3, <3>1 DEF LeaveSessions
    <3> QED BY <1>11, <2>1, <3>2, TellingBegins, Zenon
  <2> QED BY <2>2, <2>3
<1>8. ASSUME NEW l \in Lives, Release(l)
      PROVE  Waits' \/ Telling(frame)'
  <2>1. frame # <<>> /\ frame' = Rest /\ UNCHANGED <<pc, sess>>
    BY <1>8 DEF Release
  <2>2. CASE Top.at # "session gone"
    <3>1. released' = released
      BY <1>8, <2>2 DEF Release
    <3> QED BY <2>1, <2>2, <3>1, NoWaitBegins, WakeStep DEF TellsOn
  <2>3. CASE Top.at = "session gone"
    <3>1. released' = checkReleased(sess, agnt)
      BY <1>8, <2>3 DEF Release
    <3>2. Waits'
      <4> SUFFICES ASSUME NEW k \in Lives, pc[k] = "waiting", sess = None
                   PROVE  k \in released'
        BY <2>1 DEF Waits
      <4> QED BY <1>1, <3>1 DEF checkReleased
    <3> QED BY <3>2
  <2> QED BY <2>2, <2>3
<1>9. ASSUME NEW l \in Lives, Appended(l)
      PROVE  Waits' \/ Telling(frame)'
  <2>1. /\ frame # <<>> /\ Top.at # "session gone" /\ UNCHANGED <<pc, released>>
        /\ sess' = IF l \in deferred THEN None ELSE sess
        /\ frame' = IF l \in deferred THEN Dispatch(Rest, l, "session gone") ELSE Rest
    BY <1>9 DEF Appended, InDispatch, call
  <2>2. CASE l \notin deferred
    BY <2>1, <2>2, NoWaitBegins, WakeStep DEF TellsOn
  <2>3. CASE l \in deferred
    <3>1. frame' = Dispatch(Rest, l, "session gone") /\ Below(Rest)
      BY <1>11, <2>1, <2>3
    <3> QED BY <3>1, TellingBegins, Zenon
  <2> QED BY <2>2, <2>3
<1>10. CASE UNCHANGED vars \/ FactoryDispose \/ \E o \in Owners : OwnerUnload(o) \/ Gone(o)
  <2>1. UNCHANGED <<pc, sess, released, frame>>
    BY <1>10 DEF vars, FactoryDispose, OwnerUnload, Gone, call, registries
  <2> QED BY <2>1, NoWaitBegins, WakeStep DEF TellsOn
<1> QED
  BY <1>3, <1>4, <1>5, <1>6, <1>7, <1>8, <1>9, <1>10 DEF Next

\* When no agent is disposed from a listener of its own append with messages
\* queued, no start-up entry is left waiting for an id that is free.
THEOREM NobodyIsForgotten == ~Pending => (Spec => []NoMissedRelease)
<1> SUFFICES ASSUME ~Pending PROVE Spec => []NoMissedRelease
  OBVIOUS
<1>1. Init => WakeInv
  <2> SUFFICES ASSUME Init PROVE WakeInv
    OBVIOUS
  <2>1. Waits
    BY DEF Init, Waits
  <2> QED BY <2>1, NestInit DEF WakeInv
<1>2. WakeInv /\ [Next]_vars => WakeInv'
  <2> SUFFICES ASSUME WakeInv, [Next]_vars PROVE WakeInv'
    OBVIOUS
  <2>1. NestInv'
    BY LifecycleNext, NestNext DEF WakeInv, NestInv, NestStep
  <2> QED BY <2>1, WakeNext DEF WakeInv
<1>3. WakeInv => NoMissedRelease
  <2> SUFFICES ASSUME WakeInv, Job PROVE Waits
    BY DEF NoMissedRelease, Waits
  <2>1. Len(frame) = 0
    BY DEF Job
  <2>2. ~Telling(frame)
    BY <2>1, NoIndices, Zenon DEF Telling
  <2> QED BY <2>2 DEF WakeInv
<1> QED BY <1>1, <1>2, <1>3, PTL DEF Spec

-----------------------------------------------------------------------------
(* Types. *)

Stages ==
  {"none", "mint", "setup", "publish", "rollback", "loading",
   "loaded", "waiting", "listing", "live", "rejected"}
Downs == {"no", "minting", "drain", "unwind", "session", "release", "down"}
Machines == {"none", "absent", "idle", "started", "running"}
Kinds == {"none", "create", "createAgent", "resume", "configured"}
Edges ==
  {"none", "session/created", "agent/created", "agent/disposed",
   "session/disposed"} \X (Lives \cup {None})

USE DEF Stages, Downs, Machines, Kinds, Edges

LEMMA Pushes ==
  ASSUME NEW f \in Seq(Dispatches), NEW l \in Lives, NEW k \in Moments
  PROVE  Dispatch(f, l, k) \in Seq(Dispatches)
BY Pushed, Zenon

LEMMA Pops ==
  ASSUME TypeOK, frame # <<>>
  PROVE  Rest \in Seq(Dispatches)
BY Shortened, Zenon DEF Rest, TypeOK

LEMMA DisposeTypes ==
  ASSUME TypeOK, NEW S, dispose(S)
  PROVE  /\ stop' \in [Lives -> BOOLEAN]
         /\ down' \in [Lives -> Downs]
BY DEF TypeOK, dispose

LEMMA LeaveTypes ==
  ASSUME TypeOK, NEW l \in Lives, LeaveAgents(l)
  PROVE  /\ agnt' \in Lives \cup {None} /\ frame' \in Seq(Dispatches)
         /\ edge' \in Edges
<1>1. frame \in Seq(Dispatches) /\ "agent gone" \in Moments /\ "leaving" \in Moments
  BY DEF TypeOK, Moments
<1>2. /\ Dispatch(frame, l, "agent gone") \in Seq(Dispatches)
      /\ Dispatch(frame, l, "leaving") \in Seq(Dispatches)
  BY <1>1, Pushes
<1>3. /\ edge' = edge \/ edge' = <<"agent/disposed", l>>
      /\ agnt' = agnt \/ agnt' = None
  BY DEF LeaveAgents
<1>4. frame' \in Seq(Dispatches)
  BY <1>2 DEF LeaveAgents
<1> QED BY <1>3, <1>4 DEF TypeOK

LEMMA FailTypes ==
  ASSUME TypeOK, NEW l \in Lives, NEW f \in Seq(Dispatches), PublishFails(l, f),
         UNCHANGED <<kind, by, drv, owners, sess, deferred, released, sends>>
  PROVE  TypeOK'
<1>1. /\ stop' \in [Lives -> BOOLEAN]
      /\ down' \in [Lives -> Downs]
  BY DisposeTypes DEF PublishFails
<1> QED BY <1>1 DEF PublishFails, TypeOK, owners

LEMMA FailedTypes ==
  ASSUME TypeOK, NEW l \in Lives, NEW calls,
         calls = pc \/ \E k \in Lives : calls = [pc EXCEPT ![k] = "rejected"]
  PROVE /\ calls \in [Lives -> Stages]
        /\ Ends(l, calls) =>
            /\ pc' \in [Lives -> Stages]
            /\ kind' \in [Lives -> Kinds]
            /\ by' \in [Lives -> Owners]
<1>1. Failed(l) = "listing" \/ Failed(l) = "rejected"
  BY DEF Failed
<1>2. calls \in [Lives -> Stages]
  BY DEF TypeOK
<1> HIDE DEF Failed
<1> QED BY <1>1, <1>2 DEF TypeOK, Ends, Owners

LEMMA BeginTypes ==
  ASSUME TypeOK, NEW l \in Lives, NEW k \in {"create", "createAgent"}, NEW o \in Owners,
         NEW calls, calls = pc \/ \E m \in Lives : calls = [pc EXCEPT ![m] = "rejected"],
         Begin(l, k, o, calls)
  PROVE  TypeOK'
<1>1. "mint" \in Moments /\ frame \in Seq(Dispatches)
  BY DEF Moments, TypeOK
<1>2. Dispatch(frame, l, "mint") \in Seq(Dispatches)
  BY <1>1, Pushes
<1>3. UNCHANGED <<teardown, joined, awaited, fiber, registries, sends>>
  BY DEF Begin
<1>4. CASE Prepare(l, calls) /\ kind' = [kind EXCEPT ![l] = k] /\ by' = [by EXCEPT ![l] = o]
  BY <1>2, <1>3, <1>4, FailedTypes DEF Prepare, TypeOK, teardown, registries
<1>5. CASE Ends(l, calls) /\ UNCHANGED <<own, liveAgents, frame>>
  BY <1>3, <1>5, FailedTypes DEF TypeOK, teardown, registries
<1> QED BY <1>4, <1>5 DEF Begin

LEMMA EnterTypes ==
  ASSUME TypeOK, NEW l \in Lives, NEW f \in Seq(Dispatches), Enter(l, f),
         drv' \in [Lives -> Machines],
         UNCHANGED <<kind, by, owners, deferred, released, sends>>
  PROVE  TypeOK'
<1>1. "session" \in Moments
  BY DEF Moments
<1>2. Dispatch(f, l, "session") \in Seq(Dispatches)
  BY <1>1, Pushes
<1>3. CASE PublishFails(l, f) /\ sess' \in Lives \cup {None}
  <2>1. /\ stop' \in [Lives -> BOOLEAN]
        /\ down' \in [Lives -> Downs]
    BY <1>3, DisposeTypes DEF PublishFails
  <2> QED BY <1>3, <2>1 DEF PublishFails, TypeOK, owners
<1>4. CASE /\ sess' = l /\ agnt' = l /\ announced' = announced \cup {<<"session", l>>}
           /\ edge' = <<"session/created", l>> /\ frame' = Dispatch(f, l, "session")
           /\ pc' = [pc EXCEPT ![l] = "publish"] /\ UNCHANGED <<stop, down>>
  BY <1>2, <1>4 DEF TypeOK, owners
<1> QED BY <1>3, <1>4 DEF Enter, TypeOK

LEMMA CallTypes ==
  ASSUME TypeOK, NEW l \in Lives,
         \/ create(l) \/ createAgent(l) \/ resume(l) \/ restoreOrCreateConfigured(l)
         \/ LoadEnds(l) \/ Loaded(l) \/ WaitEnds(l) \/ Listed(l) \/ RolledBack(l)
  PROVE  TypeOK'
<1>1. CASE create(l) \/ createAgent(l)
  BY <1>1, BeginTypes DEF create, createAgent
<1>2. CASE Listed(l)
  <2>1. CASE \E k \in Lives : Begin(k, "create", "loop", [pc EXCEPT ![l] = "rejected"])
    BY <2>1, BeginTypes DEF Owners
  <2>2. CASE /\ pc' = [pc EXCEPT ![l] = "rejected"]
             /\ UNCHANGED <<kind, by, teardown, owners, registries, frame, sends>>
    BY <2>2 DEF TypeOK, teardown, owners, registries
  <2> QED BY <1>2, <2>1, <2>2 DEF Listed
<1>3. CASE resume(l)
  <2>1. UNCHANGED <<teardown, joined, liveAgents, awaited, fiber, registries, frame, sends>>
    BY <1>3 DEF resume
  <2>2. CASE Ends(l, pc) /\ UNCHANGED own
    BY <2>1, <2>2, FailedTypes DEF TypeOK, teardown, registries
  <2>3. ASSUME NEW o \in Owners, Load(l), kind' = [kind EXCEPT ![l] = "resume"],
               by' = [by EXCEPT ![l] = o]
        PROVE  TypeOK'
    BY <2>1, <2>3 DEF Load, TypeOK, teardown, registries
  <2> QED BY <1>3, <2>2, <2>3 DEF resume
<1>4. CASE restoreOrCreateConfigured(l)
  BY <1>4 DEF restoreOrCreateConfigured, TypeOK, teardown, owners
<1>5. CASE LoadEnds(l)
  BY <1>5, FailedTypes DEF LoadEnds, TypeOK, teardown, registries
<1>6. CASE Loaded(l)
  <2>1. "mint" \in Moments /\ frame \in Seq(Dispatches)
    BY DEF Moments, TypeOK
  <2>2. Dispatch(frame, l, "mint") \in Seq(Dispatches)
    BY <2>1, Pushes
  <2> QED BY <1>6, <2>2, FailedTypes DEF Loaded, Prepare, TypeOK, teardown, registries
<1>7. CASE WaitEnds(l)
  <2>1. UNCHANGED <<teardown, joined, liveAgents, awaited, fiber, registries, frame, sends>>
    BY <1>7 DEF WaitEnds
  <2>2. CASE Ends(l, pc) /\ UNCHANGED own
    BY <2>1, <2>2, FailedTypes DEF TypeOK, teardown, registries
  <2>3. CASE Load(l) /\ UNCHANGED <<kind, by>>
    BY <2>1, <2>3 DEF Load, TypeOK, teardown, registries
  <2> QED BY <1>7, <2>2, <2>3 DEF WaitEnds
<1>8. CASE RolledBack(l)
  BY <1>8, FailedTypes DEF RolledBack, TypeOK, teardown, owners, registries
<1> QED BY <1>1, <1>2, <1>3, <1>4, <1>5, <1>6, <1>7, <1>8

LEMMA PublicationTypes ==
  ASSUME TypeOK, NEW l \in Lives,
         \/ Minted(l) \/ SetupEnds(l)
         \/ SessionAnnounced(l) \/ AgentAnnounced(l) \/ SessionStarted(l)
  PROVE  TypeOK'
<1>1. frame # <<>> => Rest \in Seq(Dispatches)
  BY Pops
<1>2. "agent" \in Moments /\ "start" \in Moments
  BY DEF Moments
<1>3. CASE Minted(l)
  <2>1. /\ Rest \in Seq(Dispatches)
        /\ drv' \in [Lives -> Machines]
        /\ UNCHANGED <<kind, by, owners, deferred, released, sends>>
    BY <1>1, <1>3 DEF Minted, InDispatch, TypeOK
  <2>2. CASE /\ dispose({l}) /\ frame' = Rest
             /\ pc' = [pc EXCEPT ![l] = Failed(l)]
             /\ UNCHANGED <<sess, agnt, announced, edge>>
    BY <2>1, <2>2, DisposeTypes DEF Failed, TypeOK, owners
  <2>3. CASE Enter(l, Rest)
    BY <2>1, <2>3, EnterTypes
  <2>4. CASE /\ frame' = Rest /\ pc' = [pc EXCEPT ![l] = "setup"]
             /\ UNCHANGED <<stop, down, sess, agnt, announced, edge>>
    BY <2>1, <2>4 DEF TypeOK, owners
  <2> QED BY <1>3, <2>2, <2>3, <2>4 DEF Minted
<1>4. CASE SetupEnds(l)
  <2>1. frame \in Seq(Dispatches) /\ drv \in [Lives -> Machines]
        /\ UNCHANGED <<drv, kind, by, owners, deferred, released, sends>>
    BY <1>4 DEF SetupEnds, TypeOK
  <2> QED BY <1>4, <2>1, EnterTypes, FailTypes DEF SetupEnds
<1>5. CASE SessionAnnounced(l) \/ AgentAnnounced(l) \/ SessionStarted(l)
  <2>1. /\ Rest \in Seq(Dispatches)
        /\ UNCHANGED <<drv, kind, by, owners, sess, deferred, released, sends>>
    BY <1>1, <1>5 DEF SessionAnnounced, AgentAnnounced, SessionStarted, InDispatch
  <2>2. CASE PublishFails(l, Rest)
    BY <2>1, <2>2, FailTypes
  <2>3. /\ Dispatch(Rest, l, "agent") \in Seq(Dispatches)
        /\ Dispatch(Rest, l, "start") \in Seq(Dispatches)
    BY <1>2, <2>1, Pushes
  <2>4. CASE ~PublishFails(l, Rest)
    <3>1. /\ UNCHANGED <<stop, down, agnt>>
          /\ \/ /\ announced' = announced \cup {<<"agent", l>>}
                /\ edge' = <<"agent/created", l>> /\ pc' = pc
                /\ frame' = Dispatch(Rest, l, "agent")
             \/ /\ frame' = Dispatch(Rest, l, "start")
                /\ UNCHANGED <<pc, announced, edge>>
             \/ /\ frame' = Rest /\ pc' = [pc EXCEPT ![l] = "live"]
                /\ UNCHANGED <<announced, edge>>
      BY <1>5, <2>4 DEF SessionAnnounced, AgentAnnounced, SessionStarted
    <3>2. frame' \in Seq(Dispatches)
      BY <2>1, <2>3, <3>1
    <3>3. /\ announced' \subseteq {"session", "agent"} \X Lives
          /\ edge' \in Edges
      BY <3>1 DEF TypeOK
    <3>4. pc' \in [Lives -> Stages]
      BY <3>1 DEF TypeOK
    <3> QED BY <2>1, <3>1, <3>2, <3>3, <3>4 DEF TypeOK, owners
  <2> QED BY <2>2, <2>4
<1> QED BY <1>3, <1>4, <1>5

LEMMA TeardownTypes ==
  ASSUME TypeOK, NEW l \in Lives,
         \/ MachineReady(l) \/ Drained(l) \/ Unwound(l) \/ LeaveSessions(l) \/ Release(l)
         \/ HandleDispose(l) \/ OwnerEffect(l) \/ CallerAborts(l)
  PROVE  TypeOK'
<1>1. frame # <<>> => Rest \in Seq(Dispatches)
  BY Pops
<1>2. CASE MachineReady(l) \/ Drained(l) \/ CallerAborts(l)
  BY <1>2 DEF MachineReady, Drained, CallerAborts, TypeOK, call, owners, registries
<1>3. CASE Unwound(l)
  BY <1>3, LeaveTypes DEF Unwound, TypeOK, call, owners
<1>4. CASE LeaveSessions(l)
  <2>1. Rest \in Seq(Dispatches) /\ "session gone" \in Moments /\ "leaving" \in Moments
    BY <1>1, <1>4 DEF LeaveSessions, Moments
  <2>2. /\ Dispatch(Rest, l, "session gone") \in Seq(Dispatches)
        /\ Dispatch(Rest, l, "leaving") \in Seq(Dispatches)
    BY <2>1, Pushes
  <2>3. frame' \in Seq(Dispatches)
    BY <1>4, <2>2 DEF LeaveSessions
  <2>4. released' \subseteq Lives /\ deferred' \subseteq Lives /\ sess' \in Lives \cup {None}
    BY <1>4 DEF LeaveSessions, checkReleased, TypeOK
  <2>5. edge' \in Edges
    BY <1>4 DEF LeaveSessions, TypeOK
  <2> QED BY <1>4, <2>3, <2>4, <2>5 DEF LeaveSessions, TypeOK, call, owners
<1>5. CASE Release(l)
  <2>1. frame' \in Seq(Dispatches) /\ released' \subseteq Lives
    BY <1>1, <1>5 DEF Release, checkReleased, TypeOK
  <2>2. /\ kind' \in [Lives -> Kinds]
        /\ by' \in [Lives -> Owners]
    BY <1>5 DEF Release, TypeOK, Owners
  <2> QED BY <1>5, <2>1, <2>2 DEF Release, TypeOK
<1>6. CASE HandleDispose(l)
  BY <1>6, LeaveTypes, DisposeTypes DEF HandleDispose, TypeOK, call, owners
<1>7. CASE OwnerEffect(l)
  <2>1. /\ own' = [own EXCEPT ![l] = "none"]
        /\ UNCHANGED <<drv, call, liveAgents, awaited, fiber, registries, frame, sends>>
    BY <1>7 DEF OwnerEffect
  <2>2. CASE stop' = [stop EXCEPT ![l] = TRUE] /\ UNCHANGED <<down, joined>>
    BY <2>1, <2>2 DEF TypeOK, call, registries
  <2>3. CASE dispose({l}) /\ joined' \subseteq Lives
    BY <2>1, <2>3, DisposeTypes DEF TypeOK, call, registries
  <2>4. joined \subseteq Lives
    BY DEF TypeOK
  <2> QED BY <1>7, <2>2, <2>3, <2>4 DEF OwnerEffect
<1> QED BY <1>2, <1>3, <1>4, <1>5, <1>6, <1>7

LEMMA DriverTypes ==
  ASSUME TypeOK, NEW l \in Lives,
         send(l) \/ append(l) \/ Appended(l) \/ DriverStops(l)
  PROVE  TypeOK'
<1>1. frame \in Seq(Dispatches) /\ "append" \in Moments /\ "session gone" \in Moments
  BY DEF TypeOK, Moments
<1>2. CASE send(l)
  BY <1>2, LifecycleAssumption DEF send, TypeOK, call, owners, registries
<1>3. CASE append(l) \/ DriverStops(l)
  <2>1. Dispatch(frame, l, "append") \in Seq(Dispatches)
    BY <1>1, Pushes
  <2>2. /\ \E d \in {"running", "idle"} : drv' = [drv EXCEPT ![l] = d]
        /\ frame' = frame \/ frame' = Dispatch(frame, l, "append")
        /\ UNCHANGED <<call, stop, down, owners, registries, sends>>
    BY <1>3 DEF append, DriverStops
  <2> QED BY <2>1, <2>2 DEF TypeOK, call, owners, registries
<1>4. CASE Appended(l)
  <2>1. Rest \in Seq(Dispatches)
    BY <1>4, Pops DEF Appended, InDispatch
  <2>2. Dispatch(Rest, l, "session gone") \in Seq(Dispatches)
    BY <1>1, <2>1, Pushes
  <2> QED BY <1>4, <2>1, <2>2 DEF Appended, TypeOK, call, teardown, owners
<1> QED BY <1>2, <1>3, <1>4

LEMMA NextTypes == TypeOK /\ [Next]_vars => TypeOK'
<1> SUFFICES ASSUME TypeOK, [Next]_vars PROVE TypeOK'
  OBVIOUS
<1>1. CASE FactoryDispose
  <2>1. /\ stop' \in [Lives -> BOOLEAN]
        /\ down' \in [Lives -> Downs]
        /\ awaited' \subseteq {"agent", "task"} \X Lives
    BY <1>1 DEF FactoryDispose, TypeOK
  <2> QED BY <1>1, <2>1 DEF FactoryDispose, TypeOK, call, registries
<1>2. ASSUME NEW o \in Owners, OwnerUnload(o) \/ Gone(o)
      PROVE  TypeOK'
  BY <1>2 DEF OwnerUnload, Gone, TypeOK, call, teardown, registries
<1>3. CASE UNCHANGED vars
  BY <1>3 DEF vars, call, teardown, owners, registries, TypeOK
<1> QED BY <1>1, <1>2, <1>3, CallTypes, PublicationTypes, TeardownTypes, DriverTypes DEF Next

LEMMA InitTypes == Init => TypeOK
<1> SUFFICES ASSUME Init PROVE TypeOK
  OBVIOUS
<1>1. frame \in Seq(Dispatches)
  BY EmptySeq DEF Init
<1>2. sends \in 0..MaxSends
  BY LifecycleAssumption DEF Init
<1> QED BY <1>1, <1>2 DEF Init, TypeOK, Owners

\* Every variable keeps its type, also when agents are disposed from listeners
\* of their own appends.
THEOREM TypeCorrect == Spec => []TypeOK
BY InitTypes, NextTypes, PTL DEF Spec

-----------------------------------------------------------------------------
(* An unload leaves nothing behind. *)

\* Who is being minted or published is in a dispatch, and a removal is put off
\* only while an append of the session is being dispatched.
Standing(l, K) == \E i \in 1..Len(frame) : frame[i].life = l /\ frame[i].at \in K

Traced ==
  /\ \A l \in Lives : pc[l] \in {"mint", "publish"} => Standing(l, Calling)
  /\ \A l \in deferred \cap Lives : Standing(l, {"append"})

\* What a call holds says how far it is.
Effects ==
  \A l \in Lives :
    /\ pc[l] \in {"none", "waiting"} => by[l] = "loop"
    /\ own[l] = "load" => pc[l] = "loading"
    /\ own[l] = "life" => l \in liveAgents
                          /\ pc[l] \notin {"none", "waiting", "loading", "loaded"}
    /\ kind[l] = "create" => Settled(l) \/ pc[l] \in {"mint", "publish"}

\* Whatever may become or is registered has somebody who will tear it down, or
\* is being torn down.
Charged ==
  \A l \in Lives :
    /\ pc[l] \in {"mint", "setup"} => l \in liveAgents \/ down[l] # "no"
    /\ l \in liveAgents => own[l] = "life" \/ down[l] # "no"
    /\ sess = l => l \in liveAgents \/ l \in deferred
    /\ sess = l /\ down[l] \in {"release", "down"} => l \in deferred

\* The factory's unload waits for all there is; a caller's leaves no effect.
Waited ==
  /\ fiber["loop"] \in {"disposing", "gone"} =>
       \A l \in Lives :
         /\ l \in liveAgents => down[l] # "no" /\ <<"agent", l>> \in awaited
         /\ ~Settled(l) => <<"task", l>> \in awaited
  /\ fiber["loop"] = "gone" => awaited = {} /\ sess = None
  /\ fiber["plugin"] = "gone" => \A l \in Lives : by[l] = "plugin" => own[l] = "none"

Guarded == Charged /\ Waited

UnloadInv == NestInv /\ TypeOK /\ Traced /\ Effects /\ Guarded

-----------------------------------------------------------------------------
(* Dispatches that are under way stay so until they return. *)

\* What is left of the dispatches: all of them, or all but the innermost.
Remaining(f) == f = frame \/ (frame # <<>> /\ f = Rest)

LEMMA StandsOn ==
  ASSUME Frames, NEW f, Remaining(f), NEW l \in Lives, NEW k \in Moments,
         frame' = f \/ frame' = Dispatch(f, l, k),
         NEW m, NEW K, Standing(m, K),
         f = frame \/ ~(Top.life = m /\ Top.at \in K)
  PROVE  Standing(m, K)'
<1> DEFINE n == Len(frame)  p == Len(frame')
<1>1. Below(f) /\ n \in Nat /\ (f = frame \/ (Len(f) = n - 1 /\ Top = frame[n]))
  <2>1. n \in Nat
    BY LenProperties DEF Frames
  <2>2. CASE f = frame
    BY <2>1, <2>2, BelowAll
  <2>3. CASE frame # <<>> /\ f = Rest
    BY <2>1, <2>3, Popped, Zenon
  <2> QED BY <2>2, <2>3, Zenon DEF Remaining
<1>2. PICK i \in 1..n : frame[i].life = m /\ frame[i].at \in K
  BY DEF Standing
<1>3. i \in 1..Len(f)
  <2>1. CASE f = frame
    BY <2>1, <1>2
  <2>2. CASE f # frame
    <3>1. Len(f) = n - 1 /\ i # n
      BY <1>1, <1>2, <2>2
    <3> HIDE DEF n
    <3> QED BY <3>1, <1>1, <1>2
  <2> QED BY <2>1, <2>2
<1>4. f \in Seq(Dispatches) /\ Len(f) \in Nat /\ f[i] = frame[i]
  BY <1>1, <1>3, Zenon DEF Below
<1>5. /\ p = Len(f) \/ p = Len(f) + 1
      /\ frame'[i] = f[i]
  <2>1. CASE frame' = f
    BY <2>1
  <2>2. CASE frame' = Dispatch(f, l, k)
    <3>1. f \in Seq(Dispatches) /\ i \in 1..Len(f)
      BY <1>3, <1>4
    <3>2. Len(Dispatch(f, l, k)) = Len(f) + 1
      BY <3>1, Pushed, Zenon
    <3>3. \A j \in 1..Len(f) : Dispatch(f, l, k)[j] = f[j]
      BY <3>1, Pushed, Zenon
    <3> QED BY <2>2, <3>1, <3>2, <3>3
  <2> QED BY <2>1, <2>2, Zenon
<1>6. i \in 1..p
  <2> HIDE DEF p
  <2> QED BY <1>3, <1>4, <1>5
<1> QED BY <1>2, <1>4, <1>5, <1>6, Zenon DEF Standing

LEMMA StandsNow ==
  ASSUME NEW f \in Seq(Dispatches), NEW l \in Lives, NEW k \in Moments,
         frame' = Dispatch(f, l, k), NEW K, k \in K
  PROVE  Standing(l, K)'
<1>1. /\ Len(frame') = Len(f) + 1 /\ frame'[Len(f) + 1].life = l
      /\ frame'[Len(f) + 1].at = k
  BY Pushed, Zenon
<1>2. Len(f) \in Nat
  BY LenProperties
<1>3. Len(f) + 1 \in 1..(Len(f) + 1)
  BY <1>2
<1> QED BY <1>1, <1>3, Zenon DEF Standing

LEMMA TracedStep ==
  ASSUME Frames, Traced, NEW f, Remaining(f), NEW l \in Lives, NEW k \in Moments,
         frame' = f \/ frame' = Dispatch(f, l, k),
         \A m \in Lives : pc'[m] \in {"mint", "publish"} =>
           \/ pc[m] \in {"mint", "publish"} /\ (f = frame \/ Top.at \notin Calling \/ Top.life # m)
           \/ frame' = Dispatch(f, l, k) /\ m = l /\ k \in Calling,
         \A m \in deferred' \cap Lives :
           /\ m \in deferred \/ Standing(m, {"append"})
           /\ f = frame \/ Top.at # "append" \/ Top.life # m
  PROVE  Traced'
<1>1. ASSUME NEW m \in Lives, pc'[m] \in {"mint", "publish"}
      PROVE  Standing(m, Calling)'
  <2>1. CASE pc[m] \in {"mint", "publish"}
             /\ (f = frame \/ Top.at \notin Calling \/ Top.life # m)
    <3>1. Standing(m, Calling)
      BY <2>1, Zenon DEF Traced
    <3> QED BY <2>1, <3>1, StandsOn, Zenon
  <2>2. CASE frame' = Dispatch(f, l, k) /\ m = l /\ k \in Calling
    <3>1. f \in Seq(Dispatches)
      BY BelowAll, Popped, Zenon DEF Remaining, Below
    <3> QED BY <2>2, <3>1, StandsNow, Zenon
  <2> QED BY <1>1, <2>1, <2>2, Zenon
<1>2. ASSUME NEW m \in deferred' \cap Lives
      PROVE  Standing(m, {"append"})'
  <2>1. Standing(m, {"append"})
    BY Zenon DEF Traced
  <2>2. f = frame \/ ~(Top.life = m /\ Top.at \in {"append"})
    OBVIOUS
  <2> QED BY <2>1, <2>2, StandsOn, Zenon
<1> QED BY <1>1, <1>2, Zenon DEF Traced

LEMMA AtTop ==
  ASSUME NEW l, NEW k, InDispatch(l, k)
  PROVE  frame # <<>> /\ Top.life = l /\ Top.at = k
<1>1. frame # <<>> /\ Top = [life |-> l, at |-> k]
  BY Zenon DEF InDispatch
<1>2. Top.life = l /\ Top.at = k
  BY ONLY <1>1
<1> QED BY <1>1, <1>2

LEMMA TracedCalls ==
  ASSUME NestInv, TypeOK, Traced, NEW l \in Lives,
         \/ create(l) \/ createAgent(l) \/ resume(l) \/ restoreOrCreateConfigured(l)
         \/ LoadEnds(l) \/ Loaded(l) \/ WaitEnds(l) \/ Listed(l) \/ RolledBack(l)
  PROVE  Traced'
<1>1. Frames /\ Remaining(frame) /\ "mint" \in Moments /\ "mint" \in Calling
  BY DEF NestInv, Remaining, Moments, Calling
<1>2. deferred' = deferred
  BY DEF create, createAgent, Begin, resume, restoreOrCreateConfigured, LoadEnds, Loaded,
         WaitEnds, Listed, RolledBack, registries
<1>3. ASSUME NEW k \in Lives, frame' = frame \/ frame' = Dispatch(frame, k, "mint"),
             \A m \in Lives : pc'[m] \in {"mint", "publish"} =>
               \/ pc[m] \in {"mint", "publish"}
               \/ frame' = Dispatch(frame, k, "mint") /\ m = k
      PROVE  Traced'
  BY <1>1, <1>2, <1>3, TracedStep, Zenon
<1>4. ASSUME NEW k \in Lives, NEW calls, NEW kd, NEW o, Begin(k, kd, o, calls),
             calls = pc \/ calls = [pc EXCEPT ![l] = "rejected"]
      PROVE  Traced'
  <2>1. Failed(k) \notin {"mint", "publish"}
    BY DEF Failed
  <2>2. CASE Prepare(k, calls)
    BY <1>3, <1>4, <2>2 DEF Prepare, TypeOK
  <2>3. CASE Ends(k, calls) /\ frame' = frame
    BY <1>3, <1>4, <2>1, <2>3 DEF Ends, TypeOK
  <2> QED BY <1>4, <2>2, <2>3 DEF Begin
<1>5. CASE create(l) \/ createAgent(l)
  BY <1>4, <1>5 DEF create, createAgent
<1>6. CASE Listed(l)
  BY <1>3, <1>4, <1>6 DEF Listed, TypeOK
<1>7. CASE Loaded(l)
  <2>1. Failed(l) \notin {"mint", "publish"}
    BY DEF Failed
  <2>2. CASE Prepare(l, pc)
    BY <1>3, <2>2 DEF Prepare, TypeOK
  <2>3. CASE Ends(l, pc) /\ frame' = frame
    BY <1>3, <2>1, <2>3 DEF Ends, TypeOK
  <2> QED BY <1>7, <2>2, <2>3 DEF Loaded
<1>8. CASE resume(l) \/ restoreOrCreateConfigured(l) \/ LoadEnds(l) \/ WaitEnds(l) \/ RolledBack(l)
  <2>1. Failed(l) \notin {"mint", "publish"}
    BY DEF Failed
  <2>2. /\ frame' = frame
        /\ \E q : q \notin {"mint", "publish"} /\ pc' = [pc EXCEPT ![l] = q]
    BY <1>8, <2>1 DEF resume, restoreOrCreateConfigured, LoadEnds, WaitEnds, RolledBack, Ends, Load
  <2> QED BY <1>3, <2>2 DEF TypeOK
<1> QED BY <1>5, <1>6, <1>7, <1>8

LEMMA TracedEnters ==
  ASSUME NestInv, TypeOK, Traced, NEW l \in Lives, NEW f, Remaining(f), Enter(l, f),
         f = frame \/ (Top.at \in Calling /\ Top.life = l),
         pc[l] \in {"mint", "setup"}, UNCHANGED deferred
  PROVE  Traced'
<1>1. Frames /\ "session" \in Moments /\ "session" \in Calling /\ "append" \notin Calling
  BY DEF NestInv, Moments, Calling
<1>2. \/ frame' = f /\ pc'[l] \notin {"mint", "publish"}
      \/ frame' = Dispatch(f, l, "session")
  BY DEF Enter, PublishFails, TypeOK
<1>3. \A m \in Lives \ {l} : pc'[m] = pc[m]
  BY DEF Enter, PublishFails, TypeOK
<1>4. \A m \in Lives : pc'[m] \in {"mint", "publish"} =>
        \/ pc[m] \in {"mint", "publish"} /\ (f = frame \/ Top.at \notin Calling \/ Top.life # m)
        \/ frame' = Dispatch(f, l, "session") /\ m = l /\ "session" \in Calling
  BY <1>1, <1>2, <1>3
<1>5. \A m \in deferred' \cap Lives :
        /\ m \in deferred \/ Standing(m, {"append"})
        /\ f = frame \/ Top.at # "append" \/ Top.life # m
  BY <1>1
<1>6. frame' = f \/ frame' = Dispatch(f, l, "session")
  BY <1>2
<1> DEFINE k == "session"
<1>7. /\ k \in Moments /\ (frame' = f \/ frame' = Dispatch(f, l, k))
      /\ \A m \in Lives : pc'[m] \in {"mint", "publish"} =>
           \/ pc[m] \in {"mint", "publish"} /\ (f = frame \/ Top.at \notin Calling \/ Top.life # m)
           \/ frame' = Dispatch(f, l, k) /\ m = l /\ k \in Calling
  BY <1>1, <1>4, <1>6
<1> HIDE DEF k
<1> QED BY ONLY Remaining(f), Traced, l \in Lives, <1>1, <1>5, <1>7, TracedStep

LEMMA TracedPublications ==
  ASSUME NestInv, TypeOK, Traced, NEW l \in Lives,
         \/ Minted(l) \/ SetupEnds(l)
         \/ SessionAnnounced(l) \/ AgentAnnounced(l) \/ SessionStarted(l)
  PROVE  Traced'
<1>1. /\ Frames /\ {"agent", "start"} \subseteq Moments
      /\ Calling = {"mint", "session", "agent", "start"}
  BY DEF NestInv, Moments, Calling
<1>2. ASSUME frame # <<>>, Top.at \in Calling, Top.life = l, deferred' = deferred,
             \A m \in Lives \ {l} : pc'[m] = pc[m],
             NEW k \in {"agent", "start"},
             frame' = Dispatch(Rest, l, k) \/ (frame' = Rest /\ pc'[l] \notin {"mint", "publish"})
      PROVE  Traced'
  <2>1. Remaining(Rest) /\ k \in Moments /\ k \in Calling /\ "append" \notin Calling
    BY <1>1, <1>2 DEF Remaining
  <2>2. \A m \in Lives : pc'[m] \in {"mint", "publish"} =>
          \/ pc[m] \in {"mint", "publish"} /\ (Rest = frame \/ Top.at \notin Calling \/ Top.life # m)
          \/ frame' = Dispatch(Rest, l, k) /\ m = l /\ k \in Calling
    BY <1>2, <2>1
  <2>3. \A m \in deferred' \cap Lives :
          /\ m \in deferred \/ Standing(m, {"append"})
          /\ Rest = frame \/ Top.at # "append" \/ Top.life # m
    BY <1>2, <2>1
  <2>4. frame' = Rest \/ frame' = Dispatch(Rest, l, k)
    BY <1>2
  <2> QED BY <1>1, <2>1, <2>2, <2>3, <2>4, TracedStep, Zenon
<1>3. CASE Minted(l)
  <2>1. InDispatch(l, "mint") /\ deferred' = deferred
    BY <1>3 DEF Minted
  <2>2. frame # <<>> /\ Top.life = l /\ Top.at = "mint" /\ pc[l] = "mint"
    BY <2>1, <1>1, AtTop, TopAlone
  <2>3. Remaining(Rest)
    BY <2>2 DEF Remaining
  <2>4. Failed(l) \notin {"mint", "publish"}
    BY DEF Failed
  <2>5. CASE Enter(l, Rest)
    BY <1>1, <2>1, <2>2, <2>3, <2>5, TracedEnters
  <2>6. CASE frame' = Rest /\ \E q : q \notin {"mint", "publish"} /\ pc' = [pc EXCEPT ![l] = q]
    <3>1. pc'[l] \notin {"mint", "publish"} /\ \A m \in Lives \ {l} : pc'[m] = pc[m]
      BY <2>6 DEF TypeOK
    <3> QED BY <1>1, <1>2, <2>1, <2>2, <2>6, <3>1
  <2> QED BY <1>3, <2>4, <2>5, <2>6 DEF Minted
<1>4. CASE SetupEnds(l)
  <2>1. Remaining(frame) /\ pc[l] = "setup" /\ deferred' = deferred
    BY <1>4 DEF SetupEnds, Remaining
  <2>2. CASE Enter(l, frame)
    BY <2>1, <2>2, TracedEnters
  <2>3. CASE PublishFails(l, frame)
    <3>1. \A m \in Lives : pc'[m] \in {"mint", "publish"} => pc[m] \in {"mint", "publish"}
      BY <2>3 DEF PublishFails, TypeOK
    <3>2. frame' = frame /\ "agent" \in Moments
      BY <1>1, <2>3 DEF PublishFails
    <3> QED BY <1>1, <2>1, <3>1, <3>2, TracedStep, Zenon
  <2> QED BY <1>4, <2>2, <2>3 DEF SetupEnds
<1>5. CASE SessionAnnounced(l) \/ AgentAnnounced(l) \/ SessionStarted(l)
  <2>1. frame # <<>> /\ Top.life = l /\ Top.at \in Calling
    BY <1>1, <1>5, AtTop DEF SessionAnnounced, AgentAnnounced, SessionStarted
  <2>2. deferred' = deferred
    BY <1>5 DEF SessionAnnounced, AgentAnnounced, SessionStarted
  <2>3. CASE PublishFails(l, Rest)
    <3>1. /\ frame' = Rest /\ pc'[l] \notin {"mint", "publish"}
          /\ \A m \in Lives \ {l} : pc'[m] = pc[m]
      BY <2>3 DEF PublishFails, TypeOK
    <3> QED BY <1>2, <2>1, <2>2, <3>1
  <2>4. CASE frame' = Rest /\ pc' = [pc EXCEPT ![l] = "live"]
    <3>1. pc'[l] \notin {"mint", "publish"} /\ \A m \in Lives \ {l} : pc'[m] = pc[m]
      BY <2>4 DEF TypeOK
    <3> QED BY <1>2, <2>1, <2>2, <2>4, <3>1
  <2>5. CASE pc' = pc /\ \E k \in {"agent", "start"} : frame' = Dispatch(Rest, l, k)
    BY <1>2, <2>1, <2>2, <2>5
  <2> QED BY <1>5, <2>3, <2>4, <2>5 DEF SessionAnnounced, AgentAnnounced, SessionStarted
<1> QED BY <1>3, <1>4, <1>5

LEMMA AppendStands ==
  ASSUME Frames, NEW l, Appending(l)
  PROVE  Standing(l, {"append"})
<1>1. PICK i \in DOMAIN frame : frame[i] = [life |-> l, at |-> "append"]
  BY DEF Appending
<1>2. frame[i].life = l /\ frame[i].at = "append"
  BY <1>1
<1>3. DOMAIN frame = 1..Len(frame)
  BY LenProperties DEF Frames
<1> QED BY <1>1, <1>2, <1>3 DEF Standing

LEMMA TracedTeardowns ==
  ASSUME NestInv, TypeOK, Traced, NEW l \in Lives, ~Pending,
         \/ Unwound(l) \/ LeaveSessions(l) \/ Release(l) \/ append(l) \/ Appended(l)
         \/ MachineReady(l) \/ Drained(l) \/ HandleDispose(l) \/ OwnerEffect(l)
         \/ CallerAborts(l) \/ send(l) \/ DriverStops(l)
  PROVE  Traced'
<1>1. /\ Frames /\ {"agent gone", "leaving", "session gone", "append"} \subseteq Moments
      /\ Calling = {"mint", "session", "agent", "start"}
  BY DEF NestInv, Moments, Calling
<1>2. pc' = pc
  BY DEF Unwound, LeaveSessions, Release, append, Appended, MachineReady, Drained,
         HandleDispose, OwnerEffect, CallerAborts, send, DriverStops, call
<1>3. ASSUME NEW k \in Moments, frame' = frame \/ frame' = Dispatch(frame, l, k),
             deferred' = deferred
      PROVE  Traced'
  <2>1. Remaining(frame)
    BY DEF Remaining
  <2> QED BY <1>1, <1>2, <1>3, <2>1, TracedStep, Zenon
<1>4. ASSUME NEW k \in Moments, frame # <<>>, frame' = Rest \/ frame' = Dispatch(Rest, l, k),
             Top.life = l, Top.at \notin Calling,
             \A m \in deferred' \cap Lives :
               /\ m \in deferred \/ Standing(m, {"append"})
               /\ Top.at # "append" \/ m # l
      PROVE  Traced'
  <2>1. Remaining(Rest)
    BY <1>4 DEF Remaining
  <2> QED BY <1>1, <1>2, <1>4, <2>1, TracedStep, Zenon
<1>5. CASE Unwound(l)
  <2>1. deferred' = deferred /\ \E k \in {"agent gone", "leaving"} : frame' = Dispatch(frame, l, k)
    BY <1>5 DEF Unwound, LeaveAgents
  <2> QED BY <1>1, <1>3, <2>1
<1>6. CASE LeaveSessions(l)
  <2>1. frame # <<>> /\ Top.life = l /\ Top.at \in {"agent gone", "leaving"}
        /\ \E k \in {"session gone", "leaving"} : frame' = Dispatch(Rest, l, k)
    BY <1>6 DEF LeaveSessions
  <2>2. deferred' = deferred \/ (deferred' = deferred \cup {l} /\ Appending(l))
    BY <1>6 DEF LeaveSessions
  <2>3. \A m \in deferred' \cap Lives : m \in deferred \/ Standing(m, {"append"})
    BY <1>1, <2>2, AppendStands
  <2> QED BY <1>1, <1>4, <2>1, <2>3
<1>7. CASE Release(l)
  <2>1. /\ frame # <<>> /\ Top.life = l /\ Top.at \in {"session gone", "leaving"}
        /\ frame' = Rest /\ deferred' = deferred
    BY <1>7 DEF Release
  <2> QED BY <1>1, <1>4, <2>1
<1>8. CASE Appended(l)
  <2>1. frame # <<>> /\ Top.life = l /\ Top.at = "append"
    BY <1>8, AtTop DEF Appended
  <2>2. deferred' = deferred \ {l} /\ (frame' = Rest \/ frame' = Dispatch(Rest, l, "session gone"))
    BY <1>8 DEF Appended
  <2> QED BY <1>1, <1>4, <2>1, <2>2
<1>9. CASE append(l) \/ MachineReady(l) \/ Drained(l) \/ HandleDispose(l) \/ OwnerEffect(l)
           \/ CallerAborts(l) \/ send(l) \/ DriverStops(l)
  <2>1. frame' = frame \/ frame' = Dispatch(frame, l, "append")
    BY <1>9 DEF append, MachineReady, Drained, HandleDispose, OwnerEffect, CallerAborts, send, DriverStops
  <2>2. deferred' = deferred
    BY <1>9 DEF append, MachineReady, Drained, HandleDispose, OwnerEffect, CallerAborts, send, DriverStops,
       registries
  <2> QED BY <1>1, <1>3, <2>1, <2>2
<1> QED BY <1>5, <1>6, <1>7, <1>8, <1>9

LEMMA TracedNext ==
  ASSUME NestInv, TypeOK, Traced, [Next]_vars, ~Pending
  PROVE  Traced'
<1>1. CASE UNCHANGED <<pc, frame, deferred>>
  BY <1>1 DEF Traced, Standing
<1>2. CASE UNCHANGED vars
  BY <1>1, <1>2 DEF vars, call, registries
<1>3. CASE FactoryDispose \/ \E o \in Owners : OwnerUnload(o) \/ Gone(o)
  BY <1>1, <1>3 DEF FactoryDispose, OwnerUnload, Gone, call, registries
<1> QED BY <1>2, <1>3, TracedCalls, TracedPublications, TracedTeardowns DEF Next

-----------------------------------------------------------------------------
(* What a call holds. *)

Effect(l) ==
  /\ pc[l] \in {"none", "waiting"} => by[l] = "loop"
  /\ own[l] = "load" => pc[l] = "loading"
  /\ own[l] = "life" => l \in liveAgents
                        /\ pc[l] \notin {"none", "waiting", "loading", "loaded"}
  /\ kind[l] = "create" => Settled(l) \/ pc[l] \in {"mint", "publish"}

\* The others are as they were.
LEMMA OneEffect ==
  ASSUME Effects, NEW l \in Lives, Effect(l)',
         \A m \in Lives \ {l} :
           /\ pc'[m] = pc[m] /\ by'[m] = by[m] /\ own'[m] = own[m] /\ kind'[m] = kind[m]
           /\ m \in liveAgents => m \in liveAgents'
  PROVE  Effects'
<1>1. ASSUME NEW m \in Lives \ {l} PROVE Effect(m)'
  BY <1>1 DEF Effects, Effect, Settled
<1> QED BY <1>1 DEF Effects, Effect

LEMMA SameEffects ==
  ASSUME Effects, UNCHANGED <<pc, kind, by, own, liveAgents>>
  PROVE  Effects'
BY DEF Effects, Settled

LEMMA EndsEffect ==
  ASSUME Effects, TypeOK, NEW l \in Lives, NEW calls, Ends(l, calls),
         calls \in [Lives -> Stages],
         own'[l] = "none"
  PROVE  Effect(l)'
<1>1. Failed(l) = "listing" \/ Failed(l) = "rejected"
  BY DEF Failed
<1>2. pc'[l] = Failed(l) /\ kind'[l] = "none" /\ by'[l] = "loop"
  BY DEF Ends, TypeOK
<1> QED BY <1>1, <1>2 DEF Effect, Settled

LEMMA PrepareEffect ==
  ASSUME Effects, TypeOK, NEW l \in Lives, NEW calls, Prepare(l, calls),
         calls \in [Lives -> Stages]
  PROVE  Effect(l)'
<1>1. pc'[l] = "mint" /\ own'[l] = "life" /\ l \in liveAgents'
  BY DEF Prepare, TypeOK
<1> QED BY <1>1 DEF Effect, Settled

LEMMA BeginEffects ==
  ASSUME Effects, TypeOK, NEW k \in Lives, NEW kd, NEW o, NEW calls, Begin(k, kd, o, calls),
         calls = pc \/ \E l \in Lives : pc[l] = "listing" /\ calls = [pc EXCEPT ![l] = "rejected"]
  PROVE  Effects'
<1>1. calls \in [Lives -> Stages]
  BY FailedTypes
<1>2. pc[k] = "none"
  BY DEF Begin, Fresh
<1>3. own[k] = "none"
  BY <1>2 DEF Effects, TypeOK
<1>4. Effect(k)'
  BY <1>1, <1>3, EndsEffect, PrepareEffect DEF Begin
<1>5. \A m \in Lives \ {k} :
        /\ pc'[m] = calls[m] /\ by'[m] = by[m] /\ own'[m] = own[m] /\ kind'[m] = kind[m]
        /\ m \in liveAgents => m \in liveAgents'
  BY <1>1 DEF Begin, Prepare, Ends, TypeOK
<1>6. ASSUME NEW m \in Lives \ {k} PROVE Effect(m)'
  <2>1. pc'[m] = pc[m] \/ (pc[m] = "listing" /\ pc'[m] = "rejected")
    BY <1>5 DEF TypeOK
  <2> QED BY <1>5, <2>1 DEF Effects, Effect, Settled
<1> QED BY <1>4, <1>6 DEF Effects, Effect

LEMMA CallEffects ==
  ASSUME Effects, TypeOK, NEW l \in Lives,
         \/ create(l) \/ createAgent(l) \/ resume(l) \/ restoreOrCreateConfigured(l)
         \/ LoadEnds(l) \/ Loaded(l) \/ WaitEnds(l) \/ Listed(l) \/ RolledBack(l)
  PROVE  Effects'
<1>1. pc \in [Lives -> Stages]
  BY DEF TypeOK
<1>2. CASE create(l) \/ createAgent(l)
  BY <1>2, BeginEffects DEF create, createAgent
<1>3. CASE Listed(l)
  <2>1. pc[l] = "listing"
    BY <1>3 DEF Listed
  <2>2. CASE \E k \in Lives : Begin(k, "create", "loop", [pc EXCEPT ![l] = "rejected"])
    BY <2>1, <2>2, BeginEffects
  <2>3. CASE pc' = [pc EXCEPT ![l] = "rejected"] /\ UNCHANGED <<kind, by, owners>>
    <3>1. Effect(l)'
      BY <2>1, <2>3 DEF Effects, Effect, Settled, TypeOK, owners
    <3> QED BY <2>3, <3>1, OneEffect DEF TypeOK, owners
  <2> QED BY <1>3, <2>2, <2>3 DEF Listed
<1>4. CASE resume(l)
  <2>1. pc[l] = "none" /\ liveAgents' = liveAgents
    BY <1>4 DEF resume, Fresh
  <2>2. own[l] = "none"
    BY <2>1 DEF Effects, TypeOK
  <2>3. Effect(l)'
    <3>1. CASE Ends(l, pc) /\ UNCHANGED own
      BY <1>1, <2>2, <3>1, EndsEffect
    <3>2. CASE Load(l) /\ kind' = [kind EXCEPT ![l] = "resume"]
      BY <3>2 DEF Load, Effect, Settled, TypeOK
    <3> QED BY <1>4, <3>1, <3>2 DEF resume
  <2>4. \A m \in Lives \ {l} :
          pc'[m] = pc[m] /\ by'[m] = by[m] /\ own'[m] = own[m] /\ kind'[m] = kind[m]
    BY <1>4 DEF resume, Ends, Load, TypeOK
  <2> QED BY <2>1, <2>3, <2>4, OneEffect
<1>5. CASE restoreOrCreateConfigured(l)
  <2>1. /\ pc[l] = "none" /\ kind' = [kind EXCEPT ![l] = "configured"]
        /\ pc' = [pc EXCEPT ![l] = "waiting"] /\ UNCHANGED <<by, own, liveAgents>>
    BY <1>5 DEF restoreOrCreateConfigured, Fresh, owners
  <2>2. Effect(l)'
    BY <2>1 DEF Effects, Effect, Settled, TypeOK
  <2> QED BY <2>1, <2>2, OneEffect DEF TypeOK
<1>6. CASE LoadEnds(l)
  <2>1. pc[l] = "loading" /\ own' = [own EXCEPT ![l] = "none"] /\ liveAgents' = liveAgents
    BY <1>6 DEF LoadEnds
  <2>2. kind[l] # "create"
    BY <2>1 DEF Effects, Settled
  <2>3. Effect(l)'
    <3>1. own'[l] = "none"
      BY <2>1 DEF TypeOK
    <3>2. CASE Ends(l, pc)
      BY <1>1, <3>1, <3>2, EndsEffect
    <3>3. CASE pc' = [pc EXCEPT ![l] = "loaded"] /\ UNCHANGED <<kind, by>>
      BY <2>2, <3>1, <3>3 DEF Effect, Settled, TypeOK
    <3> QED BY <1>6, <3>2, <3>3 DEF LoadEnds
  <2>4. \A m \in Lives \ {l} :
          pc'[m] = pc[m] /\ by'[m] = by[m] /\ own'[m] = own[m] /\ kind'[m] = kind[m]
    BY <1>6, <2>1 DEF LoadEnds, Ends, TypeOK
  <2> QED BY <2>1, <2>3, <2>4, OneEffect
<1>7. CASE Loaded(l)
  <2>1. own[l] = "none"
    BY <1>7 DEF Loaded, Effects, TypeOK
  <2>2. Effect(l)'
    <3>1. CASE Ends(l, pc) /\ UNCHANGED own
      BY <1>1, <2>1, <3>1, EndsEffect
    <3>2. CASE Prepare(l, pc)
      BY <1>1, <3>2, PrepareEffect
    <3> QED BY <1>7, <3>1, <3>2 DEF Loaded
  <2>3. \A m \in Lives \ {l} :
          /\ pc'[m] = pc[m] /\ by'[m] = by[m] /\ own'[m] = own[m] /\ kind'[m] = kind[m]
          /\ m \in liveAgents => m \in liveAgents'
    BY <1>7 DEF Loaded, Ends, Prepare, TypeOK
  <2> QED BY <2>2, <2>3, OneEffect
<1>8. CASE WaitEnds(l)
  <2>1. pc[l] = "waiting" /\ liveAgents' = liveAgents
    BY <1>8 DEF WaitEnds
  <2>2. own[l] = "none" /\ kind[l] # "create"
    BY <2>1 DEF Effects, TypeOK, Settled
  <2>3. Effect(l)'
    <3>1. CASE Ends(l, pc) /\ UNCHANGED own
      BY <1>1, <2>2, <3>1, EndsEffect
    <3>2. CASE Load(l) /\ UNCHANGED <<kind, by>>
      BY <2>2, <3>2 DEF Load, Effect, Settled, TypeOK
    <3> QED BY <1>8, <3>1, <3>2 DEF WaitEnds
  <2>4. \A m \in Lives \ {l} :
          pc'[m] = pc[m] /\ by'[m] = by[m] /\ own'[m] = own[m] /\ kind'[m] = kind[m]
    BY <1>8 DEF WaitEnds, Ends, Load, TypeOK
  <2> QED BY <2>1, <2>3, <2>4, OneEffect
<1>9. CASE RolledBack(l)
  <2>1. pc[l] = "rollback" /\ UNCHANGED <<own, liveAgents>> /\ Ends(l, pc)
    BY <1>9 DEF RolledBack, owners
  <2>2. Failed(l) = "listing" \/ Failed(l) = "rejected"
    BY DEF Failed
  <2>3. pc'[l] = Failed(l) /\ kind'[l] = "none" /\ by'[l] = "loop"
    BY <2>1 DEF Ends, TypeOK
  <2>4. Effect(l)'
    BY <2>1, <2>2, <2>3 DEF Effects, Effect, Settled
  <2> QED BY <2>1, <2>4, OneEffect DEF Ends, TypeOK
<1> QED BY <1>2, <1>3, <1>4, <1>5, <1>6, <1>7, <1>8, <1>9

LEMMA PublicationEffects ==
  ASSUME NestInv, Effects, TypeOK, NEW l \in Lives,
         \/ Minted(l) \/ SetupEnds(l)
         \/ SessionAnnounced(l) \/ AgentAnnounced(l) \/ SessionStarted(l)
  PROVE  Effects'
<1>1. UNCHANGED <<kind, by, own, liveAgents>>
  BY DEF Minted, SetupEnds, SessionAnnounced, AgentAnnounced, SessionStarted, owners
<1>2. Frames /\ Calling = {"mint", "session", "agent", "start"}
  BY DEF NestInv, Calling
<1>3. pc[l] \in {"mint", "setup", "publish"} /\ (pc[l] = "setup" => kind[l] # "create")
  <2>1. CASE SetupEnds(l)
    BY <2>1 DEF SetupEnds, Effects, Settled
  <2>2. CASE Minted(l)
    BY <1>2, <2>2, TopAlone DEF Minted
  <2>3. CASE SessionAnnounced(l)
    BY <1>2, <2>3, TopAlone DEF SessionAnnounced
  <2>4. CASE AgentAnnounced(l)
    BY <1>2, <2>4, TopAlone DEF AgentAnnounced
  <2>5. CASE SessionStarted(l)
    BY <1>2, <2>5, TopAlone DEF SessionStarted
  <2> QED BY <2>1, <2>2, <2>3, <2>4, <2>5
<1>4. PICK q : /\ pc' = [pc EXCEPT ![l] = q]
               /\ q \in {"setup", "publish", "rollback", "listing", "live", "rejected"}
               /\ q \in {"setup", "rollback", "listing"} => kind[l] # "create"
  <2>1. Failed(l) = "rejected" \/ (Failed(l) = "listing" /\ kind[l] # "create")
    BY DEF Failed
  <2>2. PublishFails(l, frame) \/ PublishFails(l, Rest) \/ Enter(l, frame) \/ Enter(l, Rest) =>
          \E q \in {"publish", "rollback", "rejected"} :
            pc' = [pc EXCEPT ![l] = q] /\ (q = "rollback" => kind[l] # "create")
    BY DEF PublishFails, Enter
  <2>3. CASE Minted(l)
    <3>1. \/ pc' = [pc EXCEPT ![l] = Failed(l)]
          \/ Enter(l, Rest)
          \/ pc' = [pc EXCEPT ![l] = "setup"] /\ kind[l] # "create"
      BY <2>3 DEF Minted
    <3> QED BY <2>1, <2>2, <3>1
  <2>4. CASE SetupEnds(l)
    BY <2>2, <2>4 DEF SetupEnds
  <2>5. CASE SessionAnnounced(l) \/ AgentAnnounced(l) \/ SessionStarted(l)
    <3>1. PublishFails(l, Rest) \/ pc' = pc \/ pc' = [pc EXCEPT ![l] = "live"]
      BY <2>5 DEF SessionAnnounced, AgentAnnounced, SessionStarted
    <3>2. pc[l] = "publish"
      BY <1>2, <2>5, TopAlone DEF SessionAnnounced, AgentAnnounced, SessionStarted
    <3>3. CASE pc' = pc
      <4>1. pc' = [pc EXCEPT ![l] = "publish"]
        BY <3>2, <3>3 DEF TypeOK
      <4>2. /\ "publish" \in {"setup", "publish", "rollback", "listing", "live", "rejected"}
            /\ "publish" \in {"setup", "rollback", "listing"} => kind[l] # "create"
        OBVIOUS
      <4> QED BY <4>1, <4>2, Zenon
    <3> QED BY <2>2, <3>1, <3>3
  <2> QED BY <2>3, <2>4, <2>5
<1>5. Effect(l)'
  BY <1>1, <1>3, <1>4 DEF Effects, Effect, Settled, TypeOK
<1> QED BY <1>1, <1>4, <1>5, OneEffect DEF TypeOK

LEMMA EffectsNext ==
  ASSUME NestInv, Effects, TypeOK, [Next]_vars
  PROVE  Effects'
<1>1. CASE UNCHANGED vars
  BY <1>1, SameEffects DEF vars, call, owners
<1>2. CASE FactoryDispose \/ \E o \in Owners : OwnerUnload(o) \/ Gone(o)
  BY <1>2, SameEffects DEF FactoryDispose, OwnerUnload, Gone, call
<1>3. ASSUME NEW l \in Lives,
             \/ MachineReady(l) \/ Drained(l) \/ Unwound(l) \/ LeaveSessions(l)
             \/ HandleDispose(l) \/ CallerAborts(l)
             \/ send(l) \/ append(l) \/ Appended(l) \/ DriverStops(l)
      PROVE  Effects'
  BY <1>3, SameEffects DEF MachineReady, Drained, Unwound, LeaveSessions, HandleDispose,
     CallerAborts, send, append, Appended, DriverStops, call, owners
<1>4. ASSUME NEW l \in Lives, OwnerEffect(l) PROVE Effects'
  <2>1. own' = [own EXCEPT ![l] = "none"] /\ UNCHANGED <<pc, kind, by, liveAgents>>
    BY <1>4 DEF OwnerEffect, call
  <2>2. Effect(l)'
    BY <2>1 DEF Effects, Effect, Settled, TypeOK
  <2> QED BY <2>1, <2>2, OneEffect DEF TypeOK
<1>5. ASSUME NEW l \in Lives, Release(l) PROVE Effects'
  <2>1. /\ pc' = pc /\ liveAgents' = liveAgents \ {l}
        /\ own' = [own EXCEPT ![l] = "none"] /\ by' = [by EXCEPT ![l] = "loop"]
        /\ \A m \in Lives \ {l} : kind'[m] = kind[m]
        /\ kind'[l] = "none" \/ kind'[l] = kind[l]
    BY <1>5 DEF Release, TypeOK
  <2>2. Effect(l)'
    BY <2>1 DEF Effects, Effect, Settled, TypeOK
  <2> QED BY <2>1, <2>2, OneEffect DEF TypeOK
<1> QED BY <1>1, <1>2, <1>3, <1>4, <1>5, CallEffects, PublicationEffects DEF Next

-----------------------------------------------------------------------------
(* Who tears down, and who waits for it. *)

\* No teardown is undone, and no session's entry leaves the store.
GoesOn ==
  \A m \in Lives : /\ down[m] # "no" => down'[m] # "no"
                   /\ down'[m] \in {"release", "down"} => down[m] \in {"release", "down"}

LEMMA DisposeGoesOn ==
  ASSUME TypeOK, NEW S, dispose(S)
  PROVE  GoesOn /\ \A m \in S \cap Lives : down'[m] # "no"
BY DEF TypeOK, dispose, GoesOn

LEMMA ChargeKept ==
  ASSUME Charged, GoesOn, UNCHANGED <<sess, deferred>>,
         \A m \in Lives :
           /\ pc'[m] \in {"mint", "setup"} => pc[m] \in {"mint", "setup"} \/ m \in liveAgents'
           /\ m \in liveAgents => m \in liveAgents'
           /\ m \in liveAgents' => \/ m \in liveAgents /\ own'[m] = own[m]
                                   \/ own'[m] = "life" \/ down'[m] # "no"
  PROVE  Charged'
BY DEF Charged, GoesOn

\* Once the factory unloads nothing begins; once a caller does, nothing of his.
NothingBegins ==
  /\ fiber["loop"] # "active" =>
       \A m \in Lives : /\ m \in liveAgents' => m \in liveAgents
                        /\ Settled(m) => Settled(m)'
  /\ fiber["plugin"] # "active" =>
       \A m \in Lives : by'[m] = "plugin" =>
         by[m] = "plugin" /\ (own[m] = "none" => own'[m] = "none")

LEMMA WaitKept ==
  ASSUME Waited, TypeOK, GoesOn, UNCHANGED <<fiber, awaited>>, NothingBegins,
         sess' = sess \/ sess' = None \/ fiber["loop"] # "gone"
  PROVE  Waited'
<1>1. fiber["loop"] \in {"disposing", "gone"} =>
        \A m \in Lives :
          /\ m \in liveAgents' => down'[m] # "no" /\ <<"agent", m>> \in awaited
          /\ ~(Settled(m)') => <<"task", m>> \in awaited
  BY DEF Waited, GoesOn, NothingBegins
<1>2. fiber["loop"] = "gone" => awaited = {} /\ sess' = None
  BY DEF Waited
<1>3. fiber["plugin"] = "gone" => \A m \in Lives : by'[m] = "plugin" => own'[m] = "none"
  BY DEF Waited, NothingBegins
<1> QED BY <1>1, <1>2, <1>3 DEF Waited

LEMMA BeginGuarded ==
  ASSUME Guarded, TypeOK, NEW k \in Lives, NEW kd, NEW o \in Owners, NEW calls,
         Begin(k, kd, o, calls),
         calls = pc \/ \E l \in Lives : calls = [pc EXCEPT ![l] = "rejected"]
  PROVE  Guarded'
<1>1. calls \in [Lives -> Stages]
  BY FailedTypes
<1>2. \A m \in Lives : calls[m] = pc[m] \/ calls[m] = "rejected"
  BY DEF TypeOK
<1>3. UNCHANGED <<stop, down, sess, deferred, fiber, awaited>>
  BY DEF Begin, teardown, registries
<1>4. GoesOn
  BY <1>3 DEF GoesOn
<1>5. CASE /\ fiber[o] = "active" /\ fiber["loop"] = "active"
           /\ by' = [by EXCEPT ![k] = o] /\ Prepare(k, calls)
  <2>1. /\ pc'[k] = "mint" /\ own'[k] = "life" /\ liveAgents' = liveAgents \cup {k}
        /\ by'[k] = o
        /\ \A m \in Lives \ {k} : pc'[m] = calls[m] /\ own'[m] = own[m] /\ by'[m] = by[m]
    BY <1>1, <1>5 DEF Prepare, TypeOK
  <2>2. Charged'
    BY <1>2, <1>3, <1>4, <2>1, ChargeKept DEF Guarded
  <2>3. NothingBegins
    BY <1>5, <2>1 DEF NothingBegins
  <2> QED BY <1>3, <1>4, <2>2, <2>3, WaitKept DEF Guarded
<1>6. CASE Ends(k, calls) /\ UNCHANGED <<own, liveAgents>>
  <2>1. Failed(k) = "rejected" \/ (Failed(k) = "listing" /\ fiber["loop"] = "active")
    BY DEF Failed
  <2>2. /\ pc'[k] = Failed(k) /\ by'[k] = "loop"
        /\ \A m \in Lives \ {k} : pc'[m] = calls[m] /\ by'[m] = by[m]
    BY <1>1, <1>6 DEF Ends, TypeOK
  <2>3. Charged'
    BY <1>2, <1>3, <1>4, <1>6, <2>1, <2>2, ChargeKept DEF Guarded
  <2>4. NothingBegins
    BY <1>2, <1>6, <2>1, <2>2 DEF NothingBegins, Settled
  <2> QED BY <1>3, <1>4, <2>3, <2>4, WaitKept DEF Guarded
<1> QED BY <1>5, <1>6 DEF Begin

LEMMA CallsGuarded ==
  ASSUME Guarded, Effects, TypeOK, NEW l \in Lives,
         \/ create(l) \/ createAgent(l) \/ resume(l) \/ restoreOrCreateConfigured(l)
         \/ LoadEnds(l) \/ Loaded(l) \/ WaitEnds(l) \/ Listed(l) \/ RolledBack(l)
  PROVE  Guarded'
<1>1. CASE create(l) \/ createAgent(l)
  BY <1>1, BeginGuarded DEF create, createAgent
<1>2. CASE \E k \in Lives : Begin(k, "create", "loop", [pc EXCEPT ![l] = "rejected"])
  BY <1>2, BeginGuarded DEF Owners
<1>3. CASE \/ resume(l) \/ restoreOrCreateConfigured(l) \/ LoadEnds(l) \/ Loaded(l)
           \/ WaitEnds(l) \/ RolledBack(l)
           \/ /\ pc[l] = "listing" /\ pc' = [pc EXCEPT ![l] = "rejected"]
              /\ UNCHANGED <<kind, by, teardown, owners, registries, frame, sends>>
  <2>1. UNCHANGED <<down, sess, deferred, fiber, awaited>>
    BY <1>3 DEF resume, restoreOrCreateConfigured, LoadEnds, Loaded, WaitEnds, RolledBack,
       teardown, owners, registries
  <2>2. GoesOn
    BY <2>1 DEF GoesOn
  <2>3. Failed(l) = "rejected" \/ (Failed(l) = "listing" /\ fiber["loop"] = "active")
    BY DEF Failed
  <2>4. CASE Loaded(l) /\ Prepare(l, pc)
    <3>1. /\ pc'[l] = "mint" /\ own'[l] = "life" /\ liveAgents' = liveAgents \cup {l}
          /\ by' = by /\ fiber[by[l]] = "active" /\ fiber["loop"] = "active"
          /\ \A m \in Lives \ {l} : pc'[m] = pc[m] /\ own'[m] = own[m]
      <4>1. pc[l] = "loaded"
        BY <2>4 DEF Loaded
      <4>2. pc'[l] = "mint" /\ Failed(l) # "mint"
        BY <2>3, <2>4 DEF Prepare, TypeOK
      <4>3. ~Ends(l, pc)
        BY <4>2 DEF Ends, TypeOK
      <4> QED BY <2>4, <4>3 DEF Loaded, Prepare, TypeOK
    <3>2. Charged'
      BY <2>1, <2>2, <3>1, ChargeKept DEF Guarded
    <3>3. NothingBegins
      BY <3>1 DEF NothingBegins
    <3> QED BY <2>1, <2>2, <3>2, <3>3, WaitKept DEF Guarded
  <2>5. CASE /\ liveAgents' = liveAgents
             /\ \A m \in Lives \ {l} : pc'[m] = pc[m] /\ own'[m] = own[m] /\ by'[m] = by[m]
             /\ pc'[l] \notin {"mint", "setup"}
             /\ own'[l] # own[l] => own[l] # "life"
             /\ fiber["loop"] # "active" => (Settled(l) => Settled(l)')
             /\ fiber["plugin"] # "active" => (by'[l] = "plugin" =>
                  by[l] = "plugin" /\ (own[l] = "none" => own'[l] = "none"))
    <3>1. Charged'
      <4>1. \A m \in Lives : m \in liveAgents' =>
              \/ m \in liveAgents /\ own'[m] = own[m]
              \/ own'[m] = "life" \/ down'[m] # "no"
        BY <2>1, <2>5 DEF Guarded, Charged
      <4> QED BY <2>1, <2>2, <2>5, <4>1, ChargeKept DEF Guarded
    <3>2. NothingBegins
      BY <2>5 DEF NothingBegins, Settled
    <3> QED BY <2>1, <2>2, <3>1, <3>2, WaitKept DEF Guarded
  <2>6. ASSUME Ends(l, pc)
        PROVE  /\ \A m \in Lives \ {l} : pc'[m] = pc[m] /\ by'[m] = by[m]
               /\ pc'[l] = Failed(l) /\ by'[l] = "loop"
    BY <2>6 DEF Ends, TypeOK
  <2>7. CASE resume(l)
    <3>1. pc[l] = "none" /\ liveAgents' = liveAgents
      BY <2>7 DEF resume, Fresh
    <3>2. own[l] = "none"
      BY <3>1 DEF Effects, TypeOK
    <3>3. CASE Ends(l, pc) /\ UNCHANGED own
      BY <2>3, <2>5, <2>6, <3>1, <3>3 DEF Settled
    <3>4. ASSUME NEW o \in Owners, fiber[o] = "active", fiber["loop"] = "active", Load(l),
                 by' = [by EXCEPT ![l] = o]
          PROVE  Guarded'
      <4>1. /\ \A m \in Lives \ {l} : pc'[m] = pc[m] /\ own'[m] = own[m] /\ by'[m] = by[m]
            /\ pc'[l] = "loading" /\ by'[l] = o
        BY <3>4 DEF Load, TypeOK
      <4> QED BY <2>5, <3>1, <3>2, <3>4, <4>1
    <3> QED BY <2>7, <3>3, <3>4 DEF resume
  <2>8. CASE restoreOrCreateConfigured(l)
    <3>1. /\ liveAgents' = liveAgents /\ own' = own /\ by' = by /\ fiber["loop"] = "active"
          /\ pc'[l] = "waiting" /\ \A m \in Lives \ {l} : pc'[m] = pc[m]
      BY <2>8 DEF restoreOrCreateConfigured, owners, TypeOK
    <3> QED BY <2>5, <3>1
  <2>9. CASE LoadEnds(l)
    <3>1. /\ liveAgents' = liveAgents /\ pc[l] = "loading" /\ own'[l] = "none"
          /\ \A m \in Lives \ {l} : own'[m] = own[m]
      BY <2>9 DEF LoadEnds, TypeOK
    <3>2. own[l] # "life" /\ ~Settled(l)
      BY <3>1 DEF Effects, Settled
    <3>3. CASE Ends(l, pc)
      BY <2>3, <2>5, <2>6, <3>1, <3>2, <3>3
    <3>4. CASE pc' = [pc EXCEPT ![l] = "loaded"] /\ UNCHANGED <<kind, by>>
      BY <2>5, <3>1, <3>2, <3>4 DEF TypeOK
    <3> QED BY <2>9, <3>3, <3>4 DEF LoadEnds
  <2>10. CASE WaitEnds(l)
    <3>1. liveAgents' = liveAgents /\ pc[l] = "waiting"
      BY <2>10 DEF WaitEnds
    <3>2. own[l] = "none" /\ ~Settled(l) /\ by[l] = "loop"
      BY <3>1 DEF Effects, Settled, TypeOK
    <3>3. CASE Ends(l, pc) /\ UNCHANGED own
      BY <2>3, <2>5, <2>6, <3>1, <3>2, <3>3
    <3>4. CASE Load(l) /\ UNCHANGED <<kind, by>>
      BY <2>5, <3>1, <3>2, <3>4 DEF Load, TypeOK
    <3> QED BY <2>10, <3>3, <3>4 DEF WaitEnds
  <2>11. CASE RolledBack(l)
    <3>1. liveAgents' = liveAgents /\ own' = own /\ Ends(l, pc) /\ pc[l] = "rollback"
      BY <2>11 DEF RolledBack, owners
    <3>2. ~Settled(l)
      BY <3>1 DEF Settled
    <3> QED BY <2>3, <2>5, <2>6, <3>1, <3>2
  <2>12. CASE Loaded(l) /\ Ends(l, pc) /\ UNCHANGED <<own, liveAgents>>
    <3>1. ~Settled(l)
      BY <2>12 DEF Loaded, Settled
    <3> QED BY <2>3, <2>5, <2>6, <2>12, <3>1
  <2>13. CASE /\ pc[l] = "listing" /\ pc' = [pc EXCEPT ![l] = "rejected"]
              /\ UNCHANGED <<kind, by, owners>>
    <3>1. /\ UNCHANGED <<own, liveAgents, by>> /\ pc'[l] = "rejected" /\ ~Settled(l)
          /\ \A m \in Lives \ {l} : pc'[m] = pc[m]
      BY <2>13 DEF TypeOK, owners, Settled
    <3> QED BY <2>5, <3>1
  <2> QED BY <1>3, <2>4, <2>7, <2>8, <2>9, <2>10, <2>11, <2>12, <2>13 DEF Loaded
<1> QED BY <1>1, <1>2, <1>3 DEF Listed

\* The session that is entered has somebody to tear it down.
LEMMA EnterGuarded ==
  ASSUME Guarded, LifecycleInv, TypeOK, NEW l \in Lives, NEW f, Enter(l, f),
         pc[l] \in {"mint", "setup"}, UNCHANGED <<by, owners, deferred>>
  PROVE  Guarded'
<1>1. UNCHANGED <<own, liveAgents, awaited, fiber>>
  BY DEF owners
<1>2. ~Settled(l)
  BY DEF Settled
<1>3. NothingBegins
  <2>1. \A m \in Lives \ {l} : pc'[m] = pc[m]
    BY DEF Enter, PublishFails, TypeOK
  <2> QED BY <1>1, <1>2, <2>1 DEF NothingBegins, Settled
<1>4. pc'[l] \notin {"mint", "setup"} /\ \A m \in Lives \ {l} : pc'[m] = pc[m]
  BY DEF Enter, PublishFails, TypeOK
<1>5. CASE PublishFails(l, f) /\ UNCHANGED sess
  <2>1. GoesOn
    BY <1>5, DisposeGoesOn DEF PublishFails
  <2>2. Charged'
    BY <1>1, <1>4, <1>5, <2>1, ChargeKept DEF Guarded
  <2> QED BY <1>1, <1>3, <1>5, <2>1, <2>2, WaitKept DEF Guarded
<1>6. CASE ~stop[l] /\ sess = None /\ sess' = l
  <2>1. agnt = None
    BY <1>6, NobodyIsNone DEF LifecycleInv, SessionLiveWhileRunning
  <2>2. UNCHANGED <<stop, down>>
    BY <1>6, <2>1 DEF Enter
  <2>3. down[l] = "no" /\ l \in liveAgents
    BY <1>6 DEF LifecycleInv, Aborted, Guarded, Charged
  <2>4. GoesOn
    BY <2>2 DEF GoesOn
  <2>5. Charged'
    BY <1>1, <1>4, <1>6, <2>2, <2>3 DEF Guarded, Charged
  <2>6. fiber["loop"] # "gone"
    BY <1>2 DEF Guarded, Waited
  <2> QED BY <1>1, <1>3, <2>4, <2>5, <2>6, WaitKept DEF Guarded
<1> QED BY <1>5, <1>6 DEF Enter

LEMMA PublicationsGuarded ==
  ASSUME Guarded, NestInv, TypeOK, NEW l \in Lives,
         \/ Minted(l) \/ SetupEnds(l)
         \/ SessionAnnounced(l) \/ AgentAnnounced(l) \/ SessionStarted(l)
  PROVE  Guarded'
<1>1. UNCHANGED <<kind, by, owners, deferred>> /\ LifecycleInv /\ Frames
  BY DEF Minted, SetupEnds, SessionAnnounced, AgentAnnounced, SessionStarted, NestInv
<1>2. Calling = {"mint", "session", "agent", "start"}
  BY DEF Calling
<1>3. pc[l] \in {"mint", "setup", "publish"}
      /\ (Minted(l) => pc[l] = "mint") /\ (SetupEnds(l) => pc[l] = "setup")
  <2>1. Minted(l) => pc[l] = "mint"
    BY <1>1, <1>2, TopAlone DEF Minted
  <2>2. SetupEnds(l) => pc[l] = "setup"
    BY DEF SetupEnds
  <2>3. SessionAnnounced(l) => pc[l] = "publish"
    BY <1>1, <1>2, TopAlone DEF SessionAnnounced
  <2>4. AgentAnnounced(l) => pc[l] = "publish"
    BY <1>1, <1>2, TopAlone DEF AgentAnnounced
  <2>5. SessionStarted(l) => pc[l] = "publish"
    BY <1>1, <1>2, TopAlone DEF SessionStarted
  <2> QED BY <2>1, <2>2, <2>3, <2>4, <2>5
<1>4. ASSUME sess' = sess, dispose({l}) \/ UNCHANGED down,
             \A m \in Lives \ {l} : pc'[m] = pc[m],
             pc'[l] \in {"mint", "setup"} => pc[l] \in {"mint", "setup"}
      PROVE  Guarded'
  <2>1. GoesOn
    BY <1>4, DisposeGoesOn DEF GoesOn
  <2>2. UNCHANGED <<own, liveAgents, awaited, fiber, by>>
    BY <1>1 DEF owners
  <2>3. Charged'
    BY <1>1, <1>4, <2>1, <2>2, ChargeKept DEF Guarded
  <2>4. ~Settled(l)
    BY <1>3 DEF Settled
  <2>5. NothingBegins
    BY <1>4, <2>2, <2>4 DEF NothingBegins, Settled
  <2> QED BY <1>4, <2>1, <2>2, <2>3, <2>5, WaitKept DEF Guarded
<1>5. ASSUME NEW f, PublishFails(l, f), sess' = sess
      PROVE  Guarded'
  <2>1. pc'[l] \notin {"mint", "setup"} /\ \A m \in Lives \ {l} : pc'[m] = pc[m]
    BY <1>5 DEF PublishFails, TypeOK
  <2>2. dispose({l})
    BY <1>5 DEF PublishFails
  <2> QED BY <1>4, <1>5, <2>1, <2>2
<1>6. CASE Minted(l)
  <2>1. CASE Enter(l, Rest)
    BY <1>1, <1>3, <1>6, <2>1, EnterGuarded
  <2>2. CASE /\ dispose({l}) \/ UNCHANGED down
             /\ pc' = [pc EXCEPT ![l] = Failed(l)] \/ pc' = [pc EXCEPT ![l] = "setup"]
             /\ sess' = sess
    <3>1. \A m \in Lives \ {l} : pc'[m] = pc[m]
      BY <2>2 DEF TypeOK
    <3> QED BY <1>3, <1>4, <1>6, <2>2, <3>1
  <2> QED BY <1>6, <2>1, <2>2 DEF Minted
<1>7. CASE SetupEnds(l)
  <2>1. CASE Enter(l, frame)
    BY <1>1, <1>3, <1>7, <2>1, EnterGuarded
  <2> QED BY <1>5, <1>7, <2>1 DEF SetupEnds
<1>8. CASE SessionAnnounced(l) \/ AgentAnnounced(l) \/ SessionStarted(l)
  <2>1. sess' = sess
    BY <1>8 DEF SessionAnnounced, AgentAnnounced, SessionStarted
  <2>2. CASE UNCHANGED down /\ (pc' = pc \/ pc' = [pc EXCEPT ![l] = "live"])
    <3>1. /\ \A m \in Lives \ {l} : pc'[m] = pc[m]
          /\ pc'[l] \in {"mint", "setup"} => pc[l] \in {"mint", "setup"}
      BY <2>2 DEF TypeOK
    <3> QED BY <1>4, <2>1, <2>2, <3>1
  <2>3. PublishFails(l, Rest) \/ (UNCHANGED down /\ (pc' = pc \/ pc' = [pc EXCEPT ![l] = "live"]))
    BY <1>8 DEF SessionAnnounced, AgentAnnounced, SessionStarted
  <2> QED BY <1>5, <2>1, <2>2, <2>3
<1> QED BY <1>6, <1>7, <1>8

LEMMA TeardownsGuarded ==
  ASSUME Guarded, LifecycleInv, TypeOK, ~Pending, NEW l \in Lives,
         \/ MachineReady(l) \/ Drained(l) \/ Unwound(l) \/ LeaveSessions(l) \/ Release(l)
         \/ HandleDispose(l) \/ OwnerEffect(l) \/ CallerAborts(l)
         \/ send(l) \/ append(l) \/ Appended(l) \/ DriverStops(l)
  PROVE  Guarded'
<1>1. pc' = pc
  BY DEF MachineReady, Drained, Unwound, LeaveSessions, Release, HandleDispose, OwnerEffect,
         CallerAborts, send, append, Appended, DriverStops, call
<1>2. ASSUME UNCHANGED <<sess, deferred, by, own, liveAgents, awaited, fiber>>, GoesOn
      PROVE  Guarded'
  <2>1. Charged'
    BY <1>1, <1>2, ChargeKept DEF Guarded
  <2>2. NothingBegins
    BY <1>1, <1>2 DEF NothingBegins, Settled
  <2> QED BY <1>2, <2>1, <2>2, WaitKept DEF Guarded
<1>3. CASE MachineReady(l) \/ Drained(l) \/ Unwound(l) \/ HandleDispose(l) \/ CallerAborts(l)
           \/ send(l) \/ append(l) \/ DriverStops(l)
  <2>1. UNCHANGED <<sess, deferred, by, own, liveAgents, awaited, fiber>>
    BY <1>3 DEF MachineReady, Drained, Unwound, HandleDispose, CallerAborts, send, append,
       DriverStops, call, owners, registries
  <2>2. \/ dispose({l}) \/ UNCHANGED down
        \/ \E d \in {"unwind", "drain", "session"} :
             down[l] # "no" /\ down' = [down EXCEPT ![l] = d]
    BY <1>3 DEF MachineReady, Drained, Unwound, HandleDispose, CallerAborts, send, append,
       DriverStops
  <2>3. GoesOn
    BY <2>2, DisposeGoesOn DEF GoesOn, TypeOK
  <2> QED BY <1>2, <2>1, <2>3
<1>4. CASE OwnerEffect(l)
  <2>1. /\ own[l] # "none" /\ own' = [own EXCEPT ![l] = "none"]
        /\ UNCHANGED <<sess, deferred, by, liveAgents, awaited, fiber>>
    BY <1>4 DEF OwnerEffect, call, registries
  <2>2. GoesOn /\ (own[l] = "life" => down'[l] # "no")
    <3>1. CASE own[l] = "load" /\ UNCHANGED down
      BY <3>1 DEF GoesOn
    <3>2. CASE dispose({l})
      BY <3>2, DisposeGoesOn
    <3> QED BY <1>4, <3>1, <3>2 DEF OwnerEffect
  <2>3. \A m \in Lives : m \in liveAgents' =>
          \/ m \in liveAgents /\ own'[m] = own[m]
          \/ own'[m] = "life" \/ down'[m] # "no"
    BY <2>1, <2>2 DEF Guarded, Charged, GoesOn, TypeOK
  <2>4. Charged'
    BY <1>1, <2>1, <2>2, <2>3, ChargeKept DEF Guarded
  <2>5. NothingBegins
    BY <1>1, <2>1 DEF NothingBegins, Settled, TypeOK
  <2> QED BY <2>1, <2>2, <2>4, <2>5, WaitKept DEF Guarded
<1>5. CASE LeaveSessions(l)
  <2>1. /\ down[l] = "session" /\ down' = [down EXCEPT ![l] = "release"]
        /\ \/ deferred' = deferred \cup {l} /\ sess = l /\ sess' = sess
           \/ deferred' = deferred /\ sess' = (IF sess = l THEN None ELSE sess)
        /\ UNCHANGED <<own, by, liveAgents, awaited, fiber>>
    BY <1>5 DEF LeaveSessions, call, owners
  <2>2. \A m \in Lives : /\ down'[m] # "no" <=> down[m] # "no"
                         /\ m # l => down'[m] = down[m]
    BY <2>1 DEF TypeOK
  <2>3. Charged'
    BY <1>1, <2>1, <2>2, NobodyIsNone DEF Guarded, Charged
  <2>4. Waited'
    BY <1>1, <2>1, <2>2 DEF Guarded, Waited, Settled
  <2> QED BY <2>3, <2>4 DEF Guarded
<1>6. CASE Appended(l)
  <2>1. /\ deferred' = deferred \ {l}
        /\ sess' = IF l \in deferred THEN None ELSE sess
        /\ UNCHANGED <<down, own, by, liveAgents, awaited, fiber>>
    BY <1>6 DEF Appended, call, teardown, owners
  <2>2. Charged'
    BY <1>1, <2>1, NobodyIsNone DEF Guarded, Charged
  <2>3. Waited'
    BY <1>1, <2>1 DEF Guarded, Waited, Settled
  <2> QED BY <2>2, <2>3 DEF Guarded
<1>7. CASE Release(l)
  <2>1. /\ down[l] \in {"release", "down"} /\ liveAgents' = liveAgents \ {l}
        /\ down'[l] = "down" /\ own'[l] = "none" /\ by'[l] = "loop"
        /\ \A m \in Lives \ {l} : down'[m] = down[m] /\ own'[m] = own[m] /\ by'[m] = by[m]
        /\ awaited' = awaited \ {<<"agent", l>>}
        /\ UNCHANGED <<sess, deferred, fiber>>
    BY <1>7 DEF Release, TypeOK
  <2>2. Charged'
    BY <1>1, <2>1 DEF Guarded, Charged
  <2>3. Waited'
    <3>1. fiber["loop"] \in {"disposing", "gone"} =>
            \A m \in Lives :
              /\ m \in liveAgents' => down'[m] # "no" /\ <<"agent", m>> \in awaited'
              /\ ~(Settled(m)') => <<"task", m>> \in awaited'
      BY <1>1, <2>1 DEF Guarded, Waited, Settled
    <3>2. fiber["loop"] = "gone" => awaited' = {} /\ sess' = None
      BY <2>1 DEF Guarded, Waited
    <3>3. fiber["plugin"] = "gone" => \A m \in Lives : by'[m] = "plugin" => own'[m] = "none"
      BY <2>1 DEF Guarded, Waited
    <3> QED BY <2>1, <3>1, <3>2, <3>3 DEF Waited
  <2> QED BY <2>2, <2>3 DEF Guarded
<1> QED BY <1>3, <1>4, <1>5, <1>6, <1>7

\* Between jobs no call is inside prepare() or publish(), and no removal waits
\* for an append.
LEMMA BetweenJobs ==
  ASSUME Traced, Job
  PROVE  /\ \A m \in Lives : pc[m] \notin {"mint", "publish"}
         /\ deferred \cap Lives = {}
<1>1. Len(frame) = 0
  BY DEF Job
<1>2. \A i \in 1..Len(frame) : FALSE
  BY <1>1, NoIndices, Zenon
<1>3. ASSUME NEW m, NEW K PROVE ~Standing(m, K)
  BY <1>2, Zenon DEF Standing
<1>4. \A m \in Lives : pc[m] \notin {"mint", "publish"}
  BY <1>3, Zenon DEF Traced
<1>5. \A m \in deferred \cap Lives : FALSE
  BY <1>3, Zenon DEF Traced
<1> QED BY <1>4, <1>5

LEMMA FactoryGuarded ==
  ASSUME Guarded, Traced, Effects, TypeOK, FactoryDispose
  PROVE  Guarded'
<1>1. /\ Job /\ fiber["loop"] = "unloading"
      /\ fiber' = [fiber EXCEPT !["loop"] = "disposing"]
      /\ UNCHANGED <<pc, kind, by, own, liveAgents, sess, deferred>>
      /\ awaited' = ({"agent"} \X liveAgents)
           \cup ({"task"} \X {l \in Lives : ~Settled(l) /\ kind[l] # "create"})
      /\ \A m \in Lives : /\ m \in liveAgents => down'[m] # "no"
                          /\ down'[m] = down[m] \/ (down[m] = "no" /\ down'[m] = "drain")
  BY DEF FactoryDispose, TypeOK, call, registries
<1>2. fiber'["loop"] = "disposing" /\ fiber'["plugin"] = fiber["plugin"]
  BY <1>1 DEF TypeOK, Owners
<1>3. \A m \in Lives : ~Settled(m) => kind[m] # "create"
  BY <1>1, BetweenJobs DEF Effects
<1>4. \A m \in Lives :
        /\ m \in liveAgents => <<"agent", m>> \in awaited'
        /\ ~Settled(m) => <<"task", m>> \in awaited'
  BY <1>1, <1>3
<1>5. GoesOn
  BY <1>1 DEF GoesOn
<1>6. Charged'
  BY <1>1, <1>5, ChargeKept DEF Guarded
<1>7. Waited'
  <2>1. \A m \in Lives : Settled(m)' <=> Settled(m)
    BY <1>1 DEF Settled
  <2>2. fiber'["loop"] \in {"disposing", "gone"} =>
          \A m \in Lives :
            /\ m \in liveAgents' => down'[m] # "no" /\ <<"agent", m>> \in awaited'
            /\ ~(Settled(m)') => <<"task", m>> \in awaited'
    BY <1>1, <1>4, <2>1
  <2>3. fiber'["plugin"] = "gone" => \A m \in Lives : by'[m] = "plugin" => own'[m] = "none"
    BY <1>1, <1>2 DEF Guarded, Waited
  <2> QED BY <1>2, <2>2, <2>3 DEF Waited
<1> QED BY <1>6, <1>7 DEF Guarded

LEMMA FibersGuarded ==
  ASSUME Guarded, Traced, TypeOK, NEW o \in Owners, OwnerUnload(o) \/ Gone(o)
  PROVE  Guarded'
<1>1. UNCHANGED <<pc, kind, by, own, liveAgents, sess, deferred, down>>
  BY DEF OwnerUnload, Gone, call, teardown, registries
<1>2. Charged'
  <2>1. GoesOn
    BY <1>1 DEF GoesOn
  <2> QED BY <1>1, <2>1, ChargeKept DEF Guarded
<1>3. \A m \in Lives : Settled(m)' <=> Settled(m)
  BY <1>1 DEF Settled
<1>4. CASE OwnerUnload(o)
  <2>1. awaited' = awaited /\ fiber[o] = "active" /\ fiber' = [fiber EXCEPT ![o] = "unloading"]
    BY <1>4 DEF OwnerUnload
  <2>2. \A p \in {"loop", "plugin"} : fiber'[p] = fiber[p] \/ fiber'[p] = "unloading"
    BY <2>1 DEF TypeOK, Owners
  <2>3. fiber'["loop"] \in {"disposing", "gone"} => fiber["loop"] = fiber'["loop"]
    BY <2>2
  <2>4. fiber'["plugin"] = "gone" => fiber["plugin"] = "gone"
    BY <2>2
  <2>5. Waited'
    BY <1>1, <1>3, <2>1, <2>3, <2>4 DEF Guarded, Waited
  <2> QED BY <1>2, <2>5 DEF Guarded
<1>5. CASE Gone(o) /\ o = "loop"
  <2>1. /\ Job /\ fiber["loop"] = "disposing" /\ awaited' = {}
        /\ \A w \in awaited : w[1] = "task" /\ Settled(w[2])
        /\ fiber' = [fiber EXCEPT !["loop"] = "gone"]
    BY <1>5 DEF Gone
  <2>2. fiber'["loop"] = "gone" /\ fiber'["plugin"] = fiber["plugin"]
    BY <2>1 DEF TypeOK, Owners
  <2>3. \A m \in Lives : <<"agent", m>> \notin awaited
    BY <2>1
  <2>4. \A m \in Lives : <<"task", m>> \in awaited => Settled(m)
    BY <2>1
  <2>5. \A m \in Lives : m \notin liveAgents /\ Settled(m)
    BY <2>1, <2>3, <2>4 DEF Guarded, Waited
  <2>6. sess = None
    BY <2>1, <2>5, BetweenJobs DEF Guarded, Charged, TypeOK
  <2>7. fiber'["plugin"] = "gone" => \A m \in Lives : by'[m] = "plugin" => own'[m] = "none"
    BY <1>1, <2>2 DEF Guarded, Waited
  <2>8. Waited'
    BY <1>1, <1>3, <2>1, <2>5, <2>6, <2>7 DEF Waited
  <2> QED BY <1>2, <2>8 DEF Guarded
<1>6. CASE Gone(o) /\ o = "plugin"
  <2>1. /\ \A m \in Lives : by[m] = "plugin" => own[m] = "none"
        /\ awaited' = awaited /\ fiber' = [fiber EXCEPT !["plugin"] = "gone"]
    BY <1>6 DEF Gone
  <2>2. fiber'["loop"] = fiber["loop"]
    BY <2>1 DEF TypeOK, Owners
  <2>3. Waited'
    BY <1>1, <1>3, <2>1, <2>2 DEF Guarded, Waited
  <2> QED BY <1>2, <2>3 DEF Guarded
<1> QED BY <1>4, <1>5, <1>6 DEF Owners

LEMMA GuardedNext ==
  ASSUME Guarded, NestInv, TypeOK, Traced, Effects, ~Pending, [Next]_vars
  PROVE  Guarded'
<1>1. CASE UNCHANGED vars
  BY <1>1 DEF vars, call, teardown, owners, registries, Guarded, Charged, Waited, Settled
<1> QED
  BY <1>1, CallsGuarded, PublicationsGuarded, TeardownsGuarded, FactoryGuarded, FibersGuarded
  DEF Next, NestInv

LEMMA QuiescentWhenGone ==
  ASSUME UnloadInv
  PROVE  UnloadIsQuiescent
<1> USE DEF UnloadInv, Guarded
<1>1. ASSUME fiber["loop"] = "gone"
      PROVE  /\ sess = None /\ agnt = None /\ liveAgents = {}
             /\ \A l \in Lives : Settled(l) /\ ~Running(l) /\ own[l] = "none"
  <2>1. sess = None /\ \A l \in Lives : l \notin liveAgents /\ Settled(l)
    BY <1>1 DEF Waited
  <2>2. liveAgents = {}
    BY <2>1 DEF TypeOK
  <2>3. agnt = None /\ \A l \in Lives : ~Running(l)
    BY <2>1, NobodyIsNone DEF NestInv, LifecycleInv, SessionLiveWhileRunning
  <2>4. ASSUME NEW l \in Lives PROVE own[l] = "none"
    BY <2>1 DEF Effects, TypeOK, Settled
  <2> QED BY <2>1, <2>2, <2>3, <2>4
<1>2. ASSUME fiber["plugin"] = "gone", NEW l \in Lives, by[l] = "plugin"
      PROVE  own[l] = "none" /\ (l \in {sess, agnt} => down[l] # "no")
  <2>1. own[l] = "none"
    BY <1>2 DEF Waited
  <2>2. l = agnt => l = sess
    BY NobodyIsNone DEF NestInv, LifecycleInv, SessionLiveWhileRunning
  <2>3. l = sess => down[l] # "no"
    BY <2>1 DEF Charged, NestInv, LifecycleInv, Left
  <2> QED BY <2>1, <2>2, <2>3
<1> QED BY <1>1, <1>2 DEF UnloadIsQuiescent

\* When no agent is disposed from a listener of its own append with messages
\* queued: once the factory's unload has settled, nothing of it runs, is under
\* way or holds an id; once a caller's has, what it owned is being torn down.
THEOREM UnloadsAreQuiescent == ~Pending => (Spec => []UnloadIsQuiescent)
<1> SUFFICES ASSUME ~Pending PROVE Spec => []UnloadIsQuiescent
  OBVIOUS
<1>1. Init => UnloadInv
  <2> SUFFICES ASSUME Init PROVE UnloadInv
    OBVIOUS
  <2>1. Traced /\ Effects
    BY DEF Init, Traced, Effects, Settled
  <2>2. Charged /\ Waited
    BY NobodyIsNone DEF Init, Charged, Waited, Owners
  <2> QED BY <2>1, <2>2, NestInit, InitTypes DEF UnloadInv, Guarded
<1>2. UnloadInv /\ [Next]_vars => UnloadInv'
  <2> SUFFICES ASSUME UnloadInv, [Next]_vars PROVE UnloadInv'
    OBVIOUS
  <2>1. NestInv'
    BY LifecycleNext, NestNext DEF UnloadInv, NestInv, NestStep
  <2>2. TypeOK'
    BY NextTypes DEF UnloadInv
  <2>3. Traced' /\ Effects' /\ Guarded'
    BY TracedNext, EffectsNext, GuardedNext DEF UnloadInv
  <2> QED BY <2>1, <2>2, <2>3 DEF UnloadInv
<1>3. UnloadInv => UnloadIsQuiescent
  BY QuiescentWhenGone
<1> QED BY <1>1, <1>2, <1>3, PTL DEF Spec

=============================================================================
