----------------------- MODULE BackgroundJobsProofs -----------------------
(***************************************************************************)
(* The job registry for every number of agents, jobs and waits and every   *)
(* limit: a teardown takes every job, observers of changes show what the   *)
(* registry lists, and each completion is heard once.  Two inductive       *)
(* invariants over the types: RecordsInv for the store and who tears it    *)
(* down, ReportsInv for who is told.                                       *)
(***************************************************************************)
EXTENDS BackgroundJobs, TLAPS

\* What a teardown awaits was started, by its owner, and is all there is.
Covered ==
  /\ \A j \in store : status[j] # "none"
  /\ \A o \in Owners : \A j \in awaited[o] : owner[j] = o /\ status[j] # "none"
  /\ \A o \in Owners : scope[o] = "draining" => Owned(o) \subseteq awaited[o]
  /\ service = "draining" => store \subseteq awaited[Service]

\* An owner with a stored job still has its cleanup, or is awaiting it.
Attached ==
  /\ \A o \in cleanup : scope[o] \in {"active", "unloading"}
  /\ \A j \in store : owner[j] \in Owners =>
       owner[j] \in cleanup \/ scope[owner[j]] = "draining"

RecordsInv == TeardownTakesAll /\ Covered /\ Attached /\ ObserverIsCurrent

\* Until a job ends only a kill or a teardown marks it reported, and nobody has
\* been told.
OwedUntilEnd ==
  \A j \in Jobs : ~isTerminal(j) =>
    /\ notices[j] = 0 /\ j \notin unheard
    /\ j \in reported <=> j \in claimed
    /\ WaitsAt(j, {"released", "told"}) = {}

\* A wait that still waits is for a job that has not ended.
WaitsAreForActive ==
  \A w \in Waits :
    /\ wait[w].at # "none" => wait[w].job \in Jobs
    /\ wait[w].at = "waiting" => isActive(wait[w].job)

ReportsInv == TypeOK /\ OwedUntilEnd /\ WaitsAreForActive /\ CompletionHeard

-----------------------------------------------------------------------------
(* Settlement, job by job, and types.                                      *)

\* j settles unreported, with an owner to tell.
Owes(j, S, before) ==
  j \in S /\ j \notin before /\ ~HasWaiters(j) /\ owner[j] # Nobody

LEMMA SettleEffect ==
  ASSUME TypeOK, NEW S \in SUBSET Jobs, NEW before \in SUBSET Jobs, settle(S, before)
  PROVE  /\ reported' \subseteq Jobs /\ unheard' \subseteq Jobs
         /\ wait' \in [Waits -> WaitStates] /\ notices' \in [Jobs -> Nat]
         /\ \A w \in Waits :
              /\ wait'[w].job = wait[w].job
              /\ wait'[w].at = IF wait[w].job \in S /\ wait[w].at = "waiting"
                                 THEN "released" ELSE wait[w].at
         /\ \A j \in Jobs :
              /\ j \in reported' <=> j \in before \/ (j \in S /\ HasWaiters(j))
              /\ notices'[j] = IF Owes(j, S, before) /\ mounted' /\ service' = "open"
                                 THEN notices[j] + 1 ELSE notices[j]
              /\ j \in unheard' <=>
                   j \in unheard
                     \/ (Owes(j, S, before) /\ ~(mounted' /\ service' = "open"))
<1>1. reported' \subseteq Jobs
      /\ \A j \in Jobs : j \in reported' <=> j \in before \/ (j \in S /\ HasWaiters(j))
  BY DEF settle
<1>2. /\ wait' \in [Waits -> WaitStates]
      /\ \A w \in Waits :
           /\ wait'[w].job = wait[w].job
           /\ wait'[w].at = IF wait[w].job \in S /\ wait[w].at = "waiting"
                              THEN "released" ELSE wait[w].at
  BY DEF settle, TypeOK, WaitStates
<1>3. /\ notices' \in [Jobs -> Nat]
      /\ \A j \in Jobs :
           notices'[j] = IF Owes(j, S, before) /\ mounted' /\ service' = "open"
                           THEN notices[j] + 1 ELSE notices[j]
  BY DEF settle, Owes, TypeOK
<1>4. unheard' \subseteq Jobs
      /\ \A j \in Jobs : j \in unheard' <=>
           j \in unheard \/ (Owes(j, S, before) /\ ~(mounted' /\ service' = "open"))
  BY DEF settle, Owes, TypeOK
<1> QED BY <1>1, <1>2, <1>3, <1>4

\* Observers are current again when every job that changed was announced.
LEMMA NotifyTypes ==
  ASSUME TypeOK, NEW owners, notifyChanged(owners), status' \in [Jobs -> Statuses]
  PROVE  seen' \in [Jobs -> Statuses]
BY DEF notifyChanged, Shown, TypeOK, Statuses

LEMMA NotifyObservers ==
  ASSUME TypeOK, ObserverIsCurrent, NEW owners, notifyChanged(owners),
         \A j \in Jobs : owner'[j] \in owners \/ Shown(j)' = Shown(j)
  PROVE  ObserverIsCurrent'
BY DEF notifyChanged, ObserverIsCurrent, TypeOK

\* What cancelForTeardown leaves of a job.
LEMMA CancelEffect ==
  ASSUME TypeOK, NEW S \in SUBSET Jobs, NEW throws, cancelForTeardown(S, throws)
  PROVE  /\ status' \in [Jobs -> Statuses]
         /\ claimed' \subseteq Jobs
         /\ \A j \in Jobs :
              /\ status'[j] = IF j \notin S \/ ~isActive(j) THEN status[j]
                              ELSE IF j \in throws THEN "failed" ELSE "stopping"
              /\ j \in claimed' <=> j \in claimed \/ (j \in S /\ isActive(j))
BY DEF cancelForTeardown, TypeOK, Statuses

LEMMA InitTypes == Init => TypeOK
<1> SUFFICES ASSUME Init PROVE TypeOK
  OBVIOUS
<1>1. wait \in [Waits -> WaitStates]
  BY JobsAssumption DEF Init, WaitStates
<1>2. status \in [Jobs -> Statuses] /\ seen \in [Jobs -> Statuses]
      /\ notices \in [Jobs -> Nat] /\ awaited \in [Owners \cup {Service} -> SUBSET Jobs]
  BY DEF Init, Statuses
<1> QED BY <1>1, <1>2 DEF Init, TypeOK

LEMMA TeardownTypes ==
  ASSUME TypeOK, NEW S \in SUBSET Jobs, NEW throws, cancelForTeardown(S, throws)
  PROVE  /\ claimed' \subseteq Jobs /\ reported' \subseteq Jobs /\ unheard' \subseteq Jobs
         /\ status' \in [Jobs -> Statuses]
         /\ seen' \in [Jobs -> Statuses]
         /\ wait' \in [Waits -> WaitStates]
         /\ notices' \in [Jobs -> Nat]
<1> DEFINE live == {j \in S : isActive(j)}
           failed == live \cap throws
<1>1. /\ settle(failed, reported \cup live)
      /\ notifyChanged({owner[j] : j \in live})
  BY DEF cancelForTeardown
<1>2. failed \in SUBSET Jobs /\ reported \cup live \in SUBSET Jobs
  BY DEF TypeOK
<1> HIDE DEF live, failed
<1>3. /\ reported' \subseteq Jobs /\ unheard' \subseteq Jobs
      /\ wait' \in [Waits -> WaitStates] /\ notices' \in [Jobs -> Nat]
  BY <1>1, <1>2, SettleEffect
<1>4. seen' \in [Jobs -> Statuses]
  BY <1>1, CancelEffect, NotifyTypes
<1> QED BY <1>3, <1>4, CancelEffect

LEMMA StartTypes ==
  ASSUME TypeOK, NEW o \in Owners \cup {Nobody}, start(o) \/ StartFails(o)
  PROVE  TypeOK'
<1>1. CASE start(o)
  <2>1. status' \in [Jobs -> Statuses]
    BY <1>1 DEF start, TypeOK, Statuses
  <2>2. seen' \in [Jobs -> Statuses]
    BY <1>1, <2>1, NotifyTypes DEF start
  <2> QED BY <1>1, <2>1, <2>2 DEF start, Admitted, TypeOK, lives, reports
<1>2. CASE StartFails(o)
  BY <1>2 DEF StartFails, Admitted, TypeOK, lives, reports
<1> QED BY <1>1, <1>2

LEMMA CallTypes ==
  ASSUME TypeOK, NEW j \in Jobs, read(j) \/ kill(j)
  PROVE  TypeOK'
<1>1. CASE read(j)
  BY <1>1 DEF read, TypeOK, lives, teardown
<1>2. CASE kill(j)
  <2>1. status' \in [Jobs -> Statuses]
    BY <1>2 DEF kill, TypeOK, Statuses
  <2>2. seen' \in [Jobs -> Statuses]
    BY <1>2, <2>1, NotifyTypes DEF kill, TypeOK
  <2> QED BY <1>2, <2>1, <2>2 DEF kill, TypeOK, lives, teardown
<1> QED BY <1>1, <1>2

\* The life of a wait.
LEMMA WaitTypes ==
  ASSUME TypeOK, NEW w \in Waits,
         \/ (\E j \in Jobs : await(w, j)) \/ Abort(w) \/ Timeout(w)
         \/ Resume(w) /\ wait[w].job \in Jobs
  PROVE  TypeOK'
<1>1. CASE \E j \in Jobs : await(w, j)
  <2>1. PICK j \in Jobs : await(w, j)
    BY <1>1
  <2>2. j \in 0..MaxJobs
    BY JobsAssumption DEF Jobs
  <2>3. /\ [job |-> j, at |-> "waiting"] \in WaitStates
        /\ [job |-> j, at |-> "late"] \in WaitStates
    BY <2>2 DEF WaitStates
  <2> QED BY <2>1, <2>3 DEF await, TypeOK, lives, teardown
<1>2. CASE Abort(w) \/ Timeout(w)
  <2>1. wait' \in [Waits -> WaitStates]
    BY <1>2 DEF Abort, Timeout, TypeOK, WaitStates
  <2> QED BY <1>2, <2>1 DEF Abort, Timeout, TypeOK, lives, teardown
<1>3. CASE Resume(w) /\ wait[w].job \in Jobs
  <2>1. wait' \in [Waits -> WaitStates] /\ reported' \subseteq Jobs
    BY <1>3 DEF Resume, TypeOK, WaitStates
  <2> QED BY <1>3, <2>1 DEF Resume, TypeOK, lives, teardown
<1> QED BY <1>1, <1>2, <1>3

LEMMA SettlementTypes ==
  ASSUME TypeOK, NEW j \in Jobs, ProducerSettles(j) \/ DoneReaction(j)
  PROVE  TypeOK'
<1>1. CASE ProducerSettles(j)
  BY <1>1 DEF ProducerSettles, TypeOK, lives, teardown, reports
<1>2. CASE DoneReaction(j) /\ ~isActive(j)
  BY <1>2 DEF DoneReaction, TypeOK, lives, teardown
<1>3. CASE DoneReaction(j) /\ isActive(j)
  <2>1. settle({j}, reported) /\ notifyChanged({owner[j]})
    BY <1>3 DEF DoneReaction
  <2>2. status' \in [Jobs -> Statuses]
    BY <1>3 DEF DoneReaction, TypeOK, Statuses
  <2>3. seen' \in [Jobs -> Statuses]
    BY <2>1, <2>2, NotifyTypes
  <2>4. {j} \in SUBSET Jobs /\ reported \in SUBSET Jobs
    BY DEF TypeOK
  <2>5. /\ reported' \subseteq Jobs /\ unheard' \subseteq Jobs
        /\ notices' \in [Jobs -> Nat] /\ wait' \in [Waits -> WaitStates]
    BY <2>1, <2>4, SettleEffect
  <2>6. done' \in [Jobs -> {"pending", "settled", "over"}]
    BY <1>3 DEF DoneReaction, TypeOK
  <2> QED BY <1>3, <2>2, <2>3, <2>5, <2>6 DEF DoneReaction, TypeOK, lives, teardown
<1> QED BY <1>1, <1>2, <1>3

\* Teardown, agents and tool-jobs.
LEMMA OwnerTypes ==
  ASSUME TypeOK, NEW o \in Owners,
         \/ OwnerCleanup(o) \/ OwnerDrained(o)
         \/ Register(o) \/ Unregister(o) \/ UnloadScope(o)
  PROVE  TypeOK'
<1>1. CASE OwnerCleanup(o)
  <2>1. PICK S \in {IF o \in cleanup THEN Owned(o) ELSE {}}, throws \in SUBSET Jobs :
          awaited' = [awaited EXCEPT ![o] = S] /\ cancelForTeardown(S, throws)
    BY <1>1 DEF OwnerCleanup
  <2>2. S \in SUBSET Jobs
    BY DEF Owned, TypeOK
  <2>3. /\ claimed' \subseteq Jobs /\ reported' \subseteq Jobs /\ unheard' \subseteq Jobs
        /\ status' \in [Jobs -> Statuses]
        /\ seen' \in [Jobs -> Statuses]
        /\ wait' \in [Waits -> WaitStates]
        /\ notices' \in [Jobs -> Nat]
    BY <2>1, <2>2, TeardownTypes
  <2> QED BY <1>1, <2>1, <2>2, <2>3 DEF OwnerCleanup, TypeOK
<1>2. CASE OwnerDrained(o)
  <2>1. seen' \in [Jobs -> Statuses]
    BY <1>2, NotifyTypes DEF OwnerDrained, TypeOK
  <2> QED BY <1>2, <2>1 DEF OwnerDrained, TypeOK, teardown, reports
<1>3. CASE Register(o)
  BY <1>3 DEF Register, TypeOK, teardown, reports
<1>4. CASE Unregister(o)
  BY <1>4 DEF Unregister, TypeOK, teardown, reports
<1>5. CASE UnloadScope(o)
  BY <1>5 DEF UnloadScope, TypeOK, teardown, reports
<1> QED BY <1>1, <1>2, <1>3, <1>4, <1>5

LEMMA ServiceTypes == TypeOK /\ (DisposeAll \/ AllDrained \/ Mount) => TypeOK'
<1> SUFFICES ASSUME TypeOK, DisposeAll \/ AllDrained \/ Mount PROVE TypeOK'
  OBVIOUS
<1>1. CASE DisposeAll
  <2>1. PICK throws : cancelForTeardown(store, throws)
    BY <1>1 DEF DisposeAll
  <2>2. store \in SUBSET Jobs
    BY DEF TypeOK
  <2>3. /\ claimed' \subseteq Jobs /\ reported' \subseteq Jobs /\ unheard' \subseteq Jobs
        /\ status' \in [Jobs -> Statuses]
        /\ seen' \in [Jobs -> Statuses]
        /\ wait' \in [Waits -> WaitStates]
        /\ notices' \in [Jobs -> Nat]
    BY <2>1, <2>2, TeardownTypes
  <2> QED BY <1>1, <2>2, <2>3 DEF DisposeAll, TypeOK
<1>2. CASE AllDrained
  <2>1. seen' \in [Jobs -> Statuses]
    BY <1>2, NotifyTypes DEF AllDrained, TypeOK
  <2> QED BY <1>2, <2>1 DEF AllDrained, TypeOK, reports
<1>3. CASE Mount
  BY <1>3 DEF Mount, TypeOK, teardown, reports
<1> QED BY <1>1, <1>2, <1>3

-----------------------------------------------------------------------------
(* The store and its teardowns.                                            *)

LEMMA InitRecords == Init => RecordsInv
<1> SUFFICES ASSUME Init PROVE RecordsInv
  OBVIOUS
<1>1. TeardownTakesAll
  BY InitTypes DEF Init, TeardownTakesAll
<1>2. Covered /\ Attached
  BY DEF Init, Covered, Attached, Owned
<1>3. ObserverIsCurrent
  BY DEF Init, ObserverIsCurrent, Shown
<1> QED BY <1>1, <1>2, <1>3 DEF RecordsInv

\* Steps at which jobs that are in the store only move between statuses.
LEMMA StatusMoves ==
  ASSUME RecordsInv, TypeOK', UNCHANGED <<owner, store>>,
         \A j \in Jobs : status'[j] # status[j] => isActive(j) /\ status'[j] # "none",
         UNCHANGED <<scope, service, cleanup, awaited>>
  PROVE  /\ TeardownTakesAll' /\ Covered' /\ Attached'
         /\ \A j \in Jobs : status'[j] # status[j] => j \in store
<1>1. \A j \in Jobs : isActive(j) => j \in store
  BY DEF RecordsInv, TeardownTakesAll, isActive, isTerminal
<1>2. TeardownTakesAll'
  BY <1>1 DEF RecordsInv, TeardownTakesAll, isActive, isTerminal
<1>3. Covered' /\ Attached'
  BY <1>1 DEF RecordsInv, TeardownTakesAll, TypeOK, Covered, Attached, Owned
<1> QED BY <1>1, <1>2, <1>3

LEMMA StartRecords ==
  ASSUME RecordsInv, NEW o \in Owners \cup {Nobody}, start(o), TypeOK'
  PROVE  RecordsInv'
<1> USE DEF lives, reports
<1>1. PICK j \in Jobs :
        /\ status[j] = "none" /\ owner' = [owner EXCEPT ![j] = o]
        /\ status' = [status EXCEPT ![j] = "running"] /\ store' = store \cup {j}
  BY DEF start
<1>2. /\ service = "open" /\ service' = "open" /\ notifyChanged({o})
      /\ UNCHANGED <<scope, awaited>> /\ cleanup' = cleanup \cup ({o} \ {Nobody})
      /\ o # Nobody => o \in cleanup \/ scope[o] = "active"
  BY DEF start, Admitted, ensureOwnerCleanup
<1>3. TypeOK /\ Nobody \notin Owners
  BY JobsAssumption DEF RecordsInv, TeardownTakesAll, Nobody
<1>4. /\ owner'[j] = o /\ status'[j] = "running"
      /\ \A i \in Jobs : i # j => owner'[i] = owner[i] /\ status'[i] = status[i]
  BY <1>1, <1>3 DEF TypeOK
<1>5. o \in Owners => o \in cleanup' /\ scope[o] \in {"active", "unloading"}
  BY <1>2, <1>3 DEF RecordsInv, Attached
<1>6. TeardownTakesAll'
  BY <1>1, <1>2, <1>4, <1>5 DEF RecordsInv, TeardownTakesAll, isTerminal
<1>7. Covered'
  <2>1. \A i \in store' : i \in Jobs /\ status'[i] # "none"
    BY <1>1, <1>3, <1>4 DEF RecordsInv, Covered, TypeOK
  <2>2. \A q \in Owners : \A i \in awaited[q] : i # j /\ i \in Jobs
    BY <1>1, <1>3 DEF RecordsInv, Covered, TypeOK
  <2>3. ASSUME NEW q \in Owners, scope'[q] = "draining" PROVE Owned(q)' \subseteq awaited'[q]
    <3>1. q # o
      BY <1>2, <1>5, <2>3
    <3>2. Owned(q)' \subseteq Owned(q)
      BY <1>1, <1>3, <1>4, <3>1 DEF Owned, TypeOK
    <3> QED BY <1>2, <2>3, <3>2 DEF RecordsInv, Covered
  <2> QED BY <1>2, <1>4, <2>1, <2>2, <2>3 DEF RecordsInv, Covered
<1>8. Attached'
  <2>1. \A q \in cleanup' : scope'[q] \in {"active", "unloading"}
    BY <1>2, <1>3, <1>5 DEF RecordsInv, Attached
  <2>2. ASSUME NEW i \in store', owner'[i] \in Owners
        PROVE  owner'[i] \in cleanup' \/ scope'[owner'[i]] = "draining"
    <3>1. CASE i = j
      BY <1>4, <1>5, <2>2, <3>1
    <3>2. CASE i # j
      <4>1. i \in store /\ owner'[i] = owner[i]
        BY <1>1, <1>3, <1>4, <3>2 DEF TypeOK
      <4> QED BY <1>2, <2>2, <4>1 DEF RecordsInv, Attached
    <3> QED BY <3>1, <3>2
  <2> QED BY <2>1, <2>2 DEF Attached
<1>9. ObserverIsCurrent'
  <2>1. \A i \in Jobs : owner'[i] \in {o} \/ Shown(i)' = Shown(i)
    BY <1>1, <1>4 DEF Shown
  <2> QED BY <1>2, <1>3, <2>1, NotifyObservers DEF RecordsInv
<1> QED BY <1>6, <1>7, <1>8, <1>9 DEF RecordsInv

\* Calls and settlements: a job that changes is announced to its owner's side.
LEMMA CallRecords ==
  ASSUME RecordsInv, NEW j \in Jobs, kill(j) \/ DoneReaction(j), TypeOK'
  PROVE  RecordsInv'
<1> USE DEF lives, teardown
<1>1. TypeOK
  BY DEF RecordsInv, TeardownTakesAll
<1>2. UNCHANGED <<scope, service, cleanup, awaited, owner, store>>
  BY DEF kill, DoneReaction
<1>3. \A i \in Jobs : status'[i] # status[i] => i = j /\ isActive(i) /\ status'[i] # "none"
  BY <1>1 DEF kill, DoneReaction, TypeOK
<1>4. ObserverIsCurrent'
  <2>1. CASE notifyChanged({owner[j]})
    <3>1. \A i \in Jobs : owner'[i] \in {owner[j]} \/ Shown(i)' = Shown(i)
      BY <1>2, <1>3 DEF Shown
    <3> QED BY <1>1, <2>1, <3>1, NotifyObservers DEF RecordsInv
  <2>2. CASE UNCHANGED <<status, seen>>
    BY <1>2, <2>2 DEF RecordsInv, ObserverIsCurrent, Shown
  <2> QED BY <2>1, <2>2 DEF kill, DoneReaction
<1> QED BY <1>2, <1>3, <1>4, StatusMoves DEF RecordsInv

\* What a cancellation for a teardown changes, its owner's side hears.
LEMMA CancelRecords ==
  ASSUME RecordsInv, NEW S \in SUBSET Jobs, NEW throws, cancelForTeardown(S, throws),
         UNCHANGED <<owner, store>>
  PROVE  /\ ObserverIsCurrent'
         /\ \A j \in Jobs : /\ status'[j] = "none" <=> status[j] = "none"
                            /\ isTerminal(j) => isTerminal(j)'
                            /\ status'[j] # status[j] => j \in S /\ isActive(j)
<1>1. TypeOK
  BY DEF RecordsInv, TeardownTakesAll
<1>2. \A j \in Jobs : /\ status'[j] = "none" <=> status[j] = "none"
                      /\ isTerminal(j) => isTerminal(j)'
                      /\ status'[j] # status[j] => j \in S /\ isActive(j)
  BY <1>1, CancelEffect DEF isActive, isTerminal
<1>3. notifyChanged({owner[j] : j \in {i \in S : isActive(i)}})
  BY DEF cancelForTeardown
<1>4. \A j \in Jobs : \/ owner'[j] \in {owner[i] : i \in {k \in S : isActive(k)}}
                      \/ Shown(j)' = Shown(j)
  BY <1>2 DEF Shown
<1> QED BY <1>1, <1>2, <1>3, <1>4, NotifyObservers DEF RecordsInv

LEMMA OwnerRecords ==
  ASSUME RecordsInv, NEW o \in Owners, OwnerCleanup(o) \/ OwnerDrained(o), TypeOK'
  PROVE  RecordsInv'
<1>1. TypeOK /\ Service \notin Owners /\ Nobody \notin Owners
  BY JobsAssumption DEF RecordsInv, TeardownTakesAll, Service, Nobody
<1>2. CASE OwnerCleanup(o)
  <2>1. PICK S \in {IF o \in cleanup THEN Owned(o) ELSE {}}, throws \in SUBSET Jobs :
          awaited' = [awaited EXCEPT ![o] = S] /\ cancelForTeardown(S, throws)
    BY <1>2 DEF OwnerCleanup
  <2>2. S \in SUBSET Jobs /\ S \subseteq Owned(o)
    BY <1>1 DEF Owned, TypeOK
  <2>3. /\ scope[o] = "unloading" /\ scope' = [scope EXCEPT ![o] = "draining"]
        /\ UNCHANGED <<service, owner, store>> /\ cleanup' = cleanup \ {o}
    BY <1>2 DEF OwnerCleanup
  <2>4. /\ ObserverIsCurrent'
        /\ \A j \in Jobs : /\ status'[j] = "none" <=> status[j] = "none"
                           /\ isTerminal(j) => isTerminal(j)'
                           /\ status'[j] # status[j] => j \in S /\ isActive(j)
    BY <2>1, <2>2, <2>3, CancelRecords
  <2>5. Owned(o) = S
    BY <1>1, <2>1, <2>3 DEF RecordsInv, Attached, Owned
  <2>6. /\ scope'[o] = "draining" /\ awaited'[o] = S
        /\ \A q \in Owners : q # o => scope'[q] = scope[q] /\ awaited'[q] = awaited[q]
        /\ awaited'[Service] = awaited[Service]
    BY <1>1, <2>1, <2>3 DEF TypeOK
  <2>7. TeardownTakesAll'
    BY <1>1, <2>3, <2>4, <2>6 DEF RecordsInv, TeardownTakesAll, TypeOK
  <2>8. Covered'
    <3>1. \A q \in Owners : Owned(q)' = Owned(q)
      BY <2>3 DEF Owned
    <3>2. \A j \in store' : status'[j] # "none"
      BY <1>1, <2>3, <2>4 DEF RecordsInv, Covered, TypeOK
    <3>3. \A q \in Owners : \A j \in awaited'[q] : owner'[j] = q /\ status'[j] # "none"
      <4> SUFFICES ASSUME NEW q \in Owners, NEW j \in awaited'[q]
                   PROVE  owner'[j] = q /\ status'[j] # "none"
        OBVIOUS
      <4>1. CASE q = o
        <5>1. j \in store /\ j \in Jobs /\ owner[j] = o
          BY <1>1, <2>5, <2>6, <4>1 DEF Owned, TypeOK
        <5> QED BY <2>3, <3>2, <4>1, <5>1
      <4>2. CASE q # o
        <5>1. j \in awaited[q] /\ j \in Jobs
          BY <1>1, <2>6, <4>2 DEF TypeOK
        <5> QED BY <2>3, <2>4, <5>1 DEF RecordsInv, Covered
      <4> QED BY <4>1, <4>2
    <3>4. \A q \in Owners : scope'[q] = "draining" => Owned(q)' \subseteq awaited'[q]
      BY <2>5, <2>6, <3>1 DEF RecordsInv, Covered
    <3> QED BY <2>3, <2>6, <3>2, <3>3, <3>4 DEF RecordsInv, Covered
  <2>9. Attached'
    BY <1>1, <2>3, <2>6 DEF RecordsInv, Attached, TypeOK
  <2> QED BY <2>4, <2>7, <2>8, <2>9 DEF RecordsInv
<1>3. CASE OwnerDrained(o)
  <2>1. /\ scope[o] = "draining" /\ \A j \in awaited[o] : isTerminal(j)
        /\ scope' = [scope EXCEPT ![o] = "gone"] /\ store' = store \ awaited[o]
        /\ UNCHANGED <<service, cleanup, awaited, owner, status>>
        /\ notifyChanged(IF awaited[o] = {} THEN {} ELSE {o})
    BY <1>3 DEF OwnerDrained, teardown
  <2>2. /\ scope'[o] = "gone"
        /\ \A q \in Owners : q # o => scope'[q] = scope[q]
    BY <1>1, <2>1 DEF TypeOK
  <2>3. Owned(o) \subseteq awaited[o] /\ (\A j \in awaited[o] : owner[j] = o)
    BY <2>1 DEF RecordsInv, Covered
  <2>4. TeardownTakesAll'
    <3> SUFFICES ASSUME NEW j \in Jobs, status[j] # "none"
                 PROVE  IF j \in store'
                          THEN /\ service # "closed"
                               /\ owner[j] \in Owners => scope'[owner[j]] # "gone"
                          ELSE /\ isTerminal(j)
                               /\ \/ service = "closed"
                                  \/ owner[j] \in Owners /\ scope'[owner[j]] = "gone"
      BY <2>1 DEF TeardownTakesAll, isTerminal
    <3>1. CASE j \in awaited[o]
      BY <2>1, <2>2, <2>3, <3>1
    <3>2. CASE j \notin awaited[o] /\ j \in store
      BY <2>1, <2>2, <2>3, <3>2 DEF RecordsInv, TeardownTakesAll, Owned
    <3>3. CASE j \notin store
      BY <2>1, <2>2, <3>3 DEF RecordsInv, TeardownTakesAll
    <3> QED BY <3>1, <3>2, <3>3
  <2>5. Covered'
    BY <2>1, <2>2 DEF RecordsInv, Covered, Owned
  <2>6. Attached'
    <3>1. \A j \in store' : owner[j] # o /\ j \in store
      BY <2>1, <2>3 DEF Owned
    <3>2. o \notin cleanup
      BY <2>1 DEF RecordsInv, Attached
    <3>3. cleanup \subseteq Owners
      BY <1>1 DEF TypeOK
    <3> QED BY <2>1, <2>2, <3>1, <3>2, <3>3 DEF RecordsInv, Attached
  <2>7. ObserverIsCurrent'
    <3> DEFINE told == IF awaited[o] = {} THEN {} ELSE {o}
    <3>1. \A j \in Jobs : owner'[j] \in told \/ Shown(j)' = Shown(j)
      BY <2>1, <2>3 DEF Shown
    <3> QED BY <1>1, <2>1, <3>1, NotifyObservers DEF RecordsInv
  <2> QED BY <2>4, <2>5, <2>6, <2>7 DEF RecordsInv
<1> QED BY <1>2, <1>3

LEMMA ServiceRecords ==
  ASSUME RecordsInv, DisposeAll \/ AllDrained, TypeOK'
  PROVE  RecordsInv'
<1>1. TypeOK /\ Service \notin Owners
  BY JobsAssumption DEF RecordsInv, TeardownTakesAll, Service
<1>2. CASE DisposeAll
  <2>1. PICK throws : cancelForTeardown(store, throws)
    BY <1>2 DEF DisposeAll
  <2>2. /\ service = "open" /\ service' = "draining"
        /\ UNCHANGED <<scope, cleanup, owner, store>>
        /\ awaited' = [awaited EXCEPT ![Service] = store]
    BY <1>2 DEF DisposeAll
  <2>3. /\ awaited'[Service] = store
        /\ \A o \in Owners : awaited'[o] = awaited[o]
    BY <1>1, <2>2 DEF TypeOK
  <2>4. /\ ObserverIsCurrent'
        /\ \A j \in Jobs : /\ status'[j] = "none" <=> status[j] = "none"
                           /\ isTerminal(j) => isTerminal(j)'
                           /\ status'[j] # status[j] => j \in store /\ isActive(j)
    BY <1>1, <2>1, <2>2, CancelRecords DEF TypeOK
  <2>5. TeardownTakesAll'
    BY <2>2, <2>4 DEF RecordsInv, TeardownTakesAll
  <2>6. Covered'
    BY <1>1, <2>2, <2>3, <2>4 DEF RecordsInv, Covered, Owned, TypeOK
  <2>7. Attached'
    BY <2>2 DEF RecordsInv, Attached
  <2> QED BY <2>4, <2>5, <2>6, <2>7 DEF RecordsInv
<1>3. CASE AllDrained
  <2>1. /\ service = "draining" /\ \A j \in awaited[Service] : isTerminal(j)
        /\ service' = "closed" /\ store' = {} /\ cleanup' = {}
        /\ UNCHANGED <<scope, awaited, owner, status>>
        /\ notifyChanged({owner[j] : j \in awaited[Service]})
        /\ store \subseteq awaited[Service]
    BY <1>3 DEF AllDrained, RecordsInv, Covered
  <2>2. TeardownTakesAll'
    BY <2>1 DEF RecordsInv, TeardownTakesAll, isTerminal
  <2>3. Covered' /\ Attached'
    BY <2>1 DEF RecordsInv, Covered, Attached, Owned
  <2>4. ObserverIsCurrent'
    <3>1. \A j \in Jobs : \/ owner'[j] \in {owner[i] : i \in awaited[Service]}
                          \/ Shown(j)' = Shown(j)
      BY <2>1 DEF Shown
    <3> QED BY <1>1, <2>1, <3>1, NotifyObservers DEF RecordsInv
  <2> QED BY <2>2, <2>3, <2>4 DEF RecordsInv
<1> QED BY <1>2, <1>3

LEMMA AgentRecords ==
  ASSUME RecordsInv, NEW o \in Owners, Register(o) \/ UnloadScope(o), TypeOK'
  PROVE  RecordsInv'
<1>1. TypeOK
  BY DEF RecordsInv, TeardownTakesAll
<1>2. PICK s \in {"active", "unloading"} :
        /\ scope' = [scope EXCEPT ![o] = s] /\ scope[o] \in {"new", "active"}
  BY DEF Register, UnloadScope
<1>3. /\ scope'[o] = s /\ \A q \in Owners : q # o => scope'[q] = scope[q]
  BY <1>1, <1>2 DEF TypeOK
<1>4. UNCHANGED <<service, cleanup, awaited, owner, status, store, seen>>
  BY DEF Register, UnloadScope, teardown
<1>5. \A q \in Owners : /\ scope'[q] = "gone" <=> scope[q] = "gone"
                        /\ scope'[q] = "draining" <=> scope[q] = "draining"
                        /\ scope[q] \in {"active", "unloading"} =>
                             scope'[q] \in {"active", "unloading"}
  BY <1>2, <1>3
<1>6. TeardownTakesAll'
  BY <1>4, <1>5 DEF RecordsInv, TeardownTakesAll, isTerminal
<1>7. Covered'
  BY <1>4, <1>5 DEF RecordsInv, Covered, Owned
<1>8. Attached'
  BY <1>1, <1>4, <1>5 DEF RecordsInv, Attached, TypeOK
<1> QED BY <1>4, <1>6, <1>7, <1>8 DEF RecordsInv, ObserverIsCurrent, Shown

\* Each remaining action leaves the records and their teardown alone.
LEMMA NextRecords == RecordsInv /\ TypeOK' /\ [Next]_vars => RecordsInv'
<1> SUFFICES ASSUME RecordsInv, TypeOK', [Next]_vars PROVE RecordsInv'
  OBVIOUS
<1>1. ASSUME UNCHANGED <<scope, service, awaited, owner, status, store, seen>>,
             \A o \in cleanup' : o \in cleanup \/ scope[o] = "active",
             cleanup \subseteq cleanup'
      PROVE  RecordsInv'
  BY <1>1 DEF RecordsInv, TeardownTakesAll, Covered, Attached, Owned, ObserverIsCurrent,
              Shown, isTerminal
<1>2. ASSUME NEW o \in Owners \cup {Nobody}, StartFails(o) PROVE RecordsInv'
  <2>1. \A q \in cleanup' : q \in cleanup \/ scope[q] = "active"
    BY <1>2 DEF StartFails, Admitted, ensureOwnerCleanup
  <2> QED BY <1>1, <1>2, <2>1 DEF StartFails, Admitted, lives
<1>3. ASSUME NEW j \in Jobs, ProducerSettles(j) \/ read(j) PROVE RecordsInv'
  BY <1>1, <1>3 DEF ProducerSettles, read, lives, teardown
<1>4. ASSUME NEW w \in Waits,
             (\E j \in Jobs : await(w, j)) \/ Abort(w) \/ Timeout(w) \/ Resume(w)
      PROVE  RecordsInv'
  BY <1>1, <1>4 DEF await, Abort, Timeout, Resume, lives, teardown
<1>5. ASSUME NEW o \in Owners, Unregister(o) PROVE RecordsInv'
  BY <1>1, <1>5 DEF Unregister, teardown
<1>6. CASE Mount \/ UNCHANGED vars
  BY <1>1, <1>6 DEF Mount, vars, lives, teardown
<1> QED BY <1>2, <1>3, <1>4, <1>5, <1>6, StartRecords, CallRecords, OwnerRecords,
           ServiceRecords, AgentRecords DEF Next

-----------------------------------------------------------------------------
(* Who is told.                                                            *)

LEMMA InitReports == Init => ReportsInv
<1> SUFFICES ASSUME Init PROVE ReportsInv
  OBVIOUS
<1>1. OwedUntilEnd /\ WaitsAreForActive /\ CompletionHeard
  BY DEF Init, OwedUntilEnd, WaitsAreForActive, CompletionHeard, isTerminal, isActive, WaitsAt
<1> QED BY <1>1, InitTypes DEF ReportsInv

\* The core: jobs of S settle, with the reports in before already taken, while
\* claims are only taken for jobs that have not ended.
LEMMA SettleReports ==
  ASSUME ReportsInv, TypeOK', NEW S \in SUBSET Jobs, NEW before \in SUBSET Jobs,
         settle(S, before), owner' = owner,
         \A j \in S : isActive(j) /\ isTerminal(j)',
         \A j \in Jobs : j \notin S =>
           /\ isActive(j) <=> isActive(j)'
           /\ isTerminal(j) <=> isTerminal(j)',
         \A j \in Jobs : IF isTerminal(j) THEN j \in claimed' <=> j \in claimed
                         ELSE j \in before <=> j \in claimed'
  PROVE  ReportsInv'
<1> USE DEF ReportsInv
<1>1. /\ \A w \in Waits :
           /\ wait'[w].job = wait[w].job
           /\ wait'[w].at = IF wait[w].job \in S /\ wait[w].at = "waiting"
                              THEN "released" ELSE wait[w].at
      /\ \A j \in Jobs :
           /\ j \in reported' <=> j \in before \/ (j \in S /\ HasWaiters(j))
           /\ notices'[j] = IF Owes(j, S, before) /\ mounted' /\ service' = "open"
                              THEN notices[j] + 1 ELSE notices[j]
           /\ j \in unheard' <=>
                j \in unheard \/ (Owes(j, S, before) /\ ~(mounted' /\ service' = "open"))
  BY SettleEffect
<1>2. \A j \in Jobs : isActive(j) => ~isTerminal(j)
  BY DEF isActive, isTerminal
<1>3. \A j \in Jobs \ S : \A w \in Waits :
        wait[w].job = j \/ wait'[w].job = j => wait'[w].at = wait[w].at
  BY <1>1
<1>4. OwedUntilEnd'
  <2> SUFFICES ASSUME NEW j \in Jobs, ~isTerminal(j)'
               PROVE  /\ notices'[j] = 0 /\ j \notin unheard'
                      /\ j \in reported' <=> j \in claimed'
                      /\ WaitsAt(j, {"released", "told"})' = {}
    BY DEF OwedUntilEnd
  <2>1. j \notin S /\ ~isTerminal(j)
    OBVIOUS
  <2>2. WaitsAt(j, {"released", "told"})' = WaitsAt(j, {"released", "told"})
    BY <1>1, <1>3, <2>1 DEF WaitsAt
  <2>3. notices'[j] = notices[j] /\ (j \in unheard' <=> j \in unheard)
        /\ (j \in reported' <=> j \in claimed')
    BY <1>1, <2>1 DEF Owes
  <2> QED BY <2>1, <2>2, <2>3 DEF OwedUntilEnd
<1>5. WaitsAreForActive'
  BY <1>1 DEF WaitsAreForActive
<1>6. CompletionHeard'
  <2> SUFFICES ASSUME NEW j \in Jobs, isTerminal(j)', owner[j] # Nobody
               PROVE  /\ j \in unheard' => ~Answered(j)'
                      /\ notices'[j] = IF j \in unheard' \/ Answered(j)' THEN 0 ELSE 1
    BY DEF CompletionHeard
  <2>1. CASE j \notin S
    <3>1. isTerminal(j)
      BY <2>1
    <3>2. WaitsAt(j, {"released", "timed out", "told"})'
            = WaitsAt(j, {"released", "timed out", "told"})
      BY <1>1, <1>3, <2>1 DEF WaitsAt
    <3>3. Answered(j)' <=> Answered(j)
      BY <3>1, <3>2 DEF Answered
    <3>4. notices'[j] = notices[j] /\ (j \in unheard' <=> j \in unheard)
      BY <1>1, <2>1 DEF Owes
    <3> QED BY <3>1, <3>3, <3>4 DEF CompletionHeard
  <2>2. CASE j \in S
    <3>1. ~isTerminal(j) /\ notices[j] = 0 /\ j \notin unheard
          /\ WaitsAt(j, {"released", "told"}) = {}
      BY <1>2, <2>2 DEF OwedUntilEnd
    <3>2. WaitsAt(j, {"released", "timed out", "told"})' = WaitsAt(j, {"waiting", "timed out"})
      <4>1. ASSUME NEW w \in Waits
            PROVE  wait'[w].job = j /\ wait'[w].at \in {"released", "timed out", "told"}
                     <=> wait[w].job = j /\ wait[w].at \in {"waiting", "timed out"}
        BY <1>1, <2>2, <3>1 DEF WaitsAt
      <4> QED BY <4>1 DEF WaitsAt
    <3>3. Answered(j)' <=> j \in before \/ HasWaiters(j)
      BY <3>1, <3>2 DEF Answered, HasWaiters
    <3>4. Owes(j, S, before) <=> ~Answered(j)'
      BY <2>2, <3>3 DEF Owes
    <3> QED BY <1>1, <3>1, <3>4
  <2> QED BY <2>1, <2>2
<1> QED BY <1>4, <1>5, <1>6

\* Steps at which no job ends and no report is taken of one that has not.
LEMMA QuietReports ==
  ASSUME ReportsInv, TypeOK', UNCHANGED <<wait, notices, unheard>>,
         \A j \in Jobs : isActive(j) => isActive(j)',
         \A j \in Jobs : isTerminal(j)' => isTerminal(j) /\ owner'[j] = owner[j],
         \A j \in Jobs : isTerminal(j) => isTerminal(j)' /\ (j \in claimed' <=> j \in claimed),
         \A j \in Jobs : ~isTerminal(j) => (j \in reported' <=> j \in claimed')
  PROVE  ReportsInv'
<1>1. OwedUntilEnd'
  BY DEF ReportsInv, OwedUntilEnd, WaitsAt
<1>2. WaitsAreForActive'
  BY DEF ReportsInv, WaitsAreForActive
<1>3. CompletionHeard'
  BY DEF ReportsInv, CompletionHeard, Answered, WaitsAt
<1> QED BY <1>1, <1>2, <1>3 DEF ReportsInv

LEMMA StartReports ==
  ASSUME ReportsInv, TypeOK', NEW o, start(o) \/ StartFails(o)
  PROVE  ReportsInv'
<1>1. CASE start(o)
  <2>1. PICK i \in Jobs : /\ status[i] = "none" /\ owner' = [owner EXCEPT ![i] = o]
                          /\ status' = [status EXCEPT ![i] = "running"]
    BY <1>1 DEF start
  <2>2. /\ status'[i] = "running"
        /\ \A q \in Jobs : q # i => status'[q] = status[q] /\ owner'[q] = owner[q]
    BY <2>1 DEF ReportsInv, TypeOK
  <2>3. UNCHANGED <<wait, notices, unheard, reported, claimed>>
    BY <1>1 DEF start, reports
  <2> QED BY <2>1, <2>2, <2>3, QuietReports DEF isActive, isTerminal, ReportsInv, OwedUntilEnd
<1>2. CASE StartFails(o)
  <2>1. UNCHANGED <<wait, notices, unheard, reported, claimed, owner, status>>
    BY <1>2 DEF StartFails, reports
  <2> QED BY <2>1, QuietReports DEF isActive, isTerminal, ReportsInv, OwedUntilEnd
<1> QED BY <1>1, <1>2

LEMMA CallReports ==
  ASSUME ReportsInv, TypeOK', NEW j \in Jobs,
         ProducerSettles(j) \/ DoneReaction(j) \/ read(j) \/ kill(j)
  PROVE  ReportsInv'
<1>1. TypeOK
  BY DEF ReportsInv
<1>2. CASE ProducerSettles(j)
  <2>1. UNCHANGED <<wait, notices, unheard, reported, claimed, owner, status>>
    BY <1>2 DEF ProducerSettles, reports
  <2> QED BY <2>1, QuietReports DEF isActive, isTerminal, ReportsInv, OwedUntilEnd
<1>3. CASE read(j)
  <2>1. /\ UNCHANGED <<wait, notices, unheard, claimed, owner, status>>
        /\ isTerminal(j) /\ reported' = reported \cup {j}
    BY <1>3 DEF read
  <2> QED BY <2>1, QuietReports DEF isActive, isTerminal, ReportsInv, OwedUntilEnd
<1>4. CASE kill(j)
  <2>1. CASE isTerminal(j) /\ UNCHANGED <<status, claimed>>
    <3>1. UNCHANGED <<wait, notices, unheard, owner>> /\ reported' = reported \cup {j}
      BY <1>4 DEF kill
    <3> QED BY <2>1, <3>1, QuietReports DEF isActive, isTerminal, ReportsInv, OwedUntilEnd
  <2>2. CASE /\ isActive(j) /\ status' = [status EXCEPT ![j] = "stopping"]
             /\ claimed' = claimed \cup {j}
    <3>1. UNCHANGED <<wait, notices, unheard, owner>> /\ reported' = reported \cup {j}
      BY <1>4 DEF kill
    <3>2. /\ status'[j] = "stopping"
          /\ \A i \in Jobs : i # j => status'[i] = status[i]
      BY <1>1, <2>2 DEF TypeOK
    <3> QED BY <2>2, <3>1, <3>2, QuietReports
            DEF isActive, isTerminal, ReportsInv, OwedUntilEnd
  <2> QED BY <1>4, <2>1, <2>2 DEF kill
<1>5. CASE DoneReaction(j)
  <2>1. CASE ~isActive(j)
    <3>1. UNCHANGED <<wait, notices, unheard, reported, claimed, owner, status>>
      BY <1>5, <2>1 DEF DoneReaction
    <3> QED BY <3>1, QuietReports DEF isActive, isTerminal, ReportsInv, OwedUntilEnd
  <2>2. CASE isActive(j)
    <3>1. /\ settle({j}, reported) /\ owner' = owner /\ claimed' = claimed
          /\ status' = [status EXCEPT ![j] = "ended"]
      BY <1>5, <2>2 DEF DoneReaction
    <3>2. /\ status'[j] = "ended"
          /\ \A i \in Jobs : i # j => status'[i] = status[i]
      BY <1>1, <3>1 DEF TypeOK
    <3>3. reported \in SUBSET Jobs /\ {j} \in SUBSET Jobs
      BY <1>1 DEF TypeOK
    <3>4. \A i \in Jobs : ~isTerminal(i) => (i \in reported <=> i \in claimed)
      BY DEF ReportsInv, OwedUntilEnd
    <3>5. \A i \in Jobs : i \notin {j} =>
            /\ isActive(i) <=> isActive(i)'
            /\ isTerminal(i) <=> isTerminal(i)'
      BY <3>2 DEF isActive, isTerminal
    <3>6. isTerminal(j)'
      BY <3>2 DEF isTerminal
    <3> QED BY <2>2, <3>1, <3>3, <3>4, <3>5, <3>6, SettleReports
  <2> QED BY <2>1, <2>2
<1> QED BY <1>2, <1>3, <1>4, <1>5

\* A wait moves; which of its places count as an answer is decided by then.
LEMMA WaitReports ==
  ASSUME ReportsInv, TypeOK', NEW w \in Waits,
         (\E j \in Jobs : await(w, j)) \/ Abort(w) \/ Timeout(w) \/ Resume(w)
  PROVE  ReportsInv'
<1>1. TypeOK
  BY DEF ReportsInv
<1>2. UNCHANGED <<owner, status, notices, claimed, unheard>>
      /\ (\A v \in Waits : v # w => wait'[v] = wait[v])
  BY <1>1 DEF await, Abort, Timeout, Resume, TypeOK
<1>3. \A i \in Jobs : i \in reported' <=> i \in reported \/ (i \in reported' /\ isTerminal(i))
  BY <1>1 DEF await, Abort, Timeout, Resume, ReportsInv, WaitsAreForActive
<1>4. /\ wait'[w].job \in Jobs
      /\ \/ wait[w].at = "none" /\ wait'[w].at = "waiting" /\ isActive(wait'[w].job)
         \/ wait[w].at = "none" /\ wait'[w].at = "late"
         \/ /\ wait'[w].job = wait[w].job
            /\ \/ wait[w].at = "waiting" /\ wait'[w].at \in {"rejected", "timed out"}
               \/ /\ wait[w].at \in {"released", "timed out"}
                  /\ \/ wait'[w].at = "told" /\ isTerminal(wait[w].job)
                     \/ wait'[w].at = "live" /\ isActive(wait[w].job)
  <2>1. CASE \E j \in Jobs : await(w, j)
    <3>1. PICK j \in Jobs : await(w, j)
      BY <2>1
    <3>2. \/ isActive(j) /\ wait'[w] = [job |-> j, at |-> "waiting"]
          \/ wait'[w] = [job |-> j, at |-> "late"]
      BY <1>1, <3>1 DEF await, TypeOK
    <3>3. wait[w].at = "none"
      BY <3>1 DEF await
    <3> QED BY <3>2, <3>3
  <2>2. CASE Abort(w) \/ Timeout(w)
    <3>1. PICK s \in {"rejected", "timed out"} : wait' = [wait EXCEPT ![w].at = s]
      BY <2>2 DEF Abort, Timeout
    <3>2. wait'[w].job = wait[w].job /\ wait'[w].at = s
      BY <1>1, <3>1 DEF TypeOK, WaitStates
    <3>3. wait[w].at = "waiting" /\ wait[w].job \in Jobs
      BY <2>2 DEF Abort, Timeout, ReportsInv, WaitsAreForActive
    <3> QED BY <3>2, <3>3
  <2>3. CASE Resume(w)
    <3>1. PICK s \in {"told", "live"} :
            /\ wait' = [wait EXCEPT ![w].at = s]
            /\ IF s = "told" THEN isTerminal(wait[w].job) ELSE isActive(wait[w].job)
      BY <2>3 DEF Resume
    <3>2. wait'[w].job = wait[w].job /\ wait'[w].at = s
      BY <1>1, <3>1 DEF TypeOK, WaitStates
    <3>3. wait[w].at \in {"released", "timed out"} /\ wait[w].job \in Jobs
      BY <2>3 DEF Resume, ReportsInv, WaitsAreForActive
    <3> QED BY <3>1, <3>2, <3>3
  <2> QED BY <2>1, <2>2, <2>3
<1>5. \A i \in Jobs : isActive(i) => ~isTerminal(i)
  BY DEF isActive, isTerminal
<1>6. OwedUntilEnd'
  <2> SUFFICES ASSUME NEW i \in Jobs, ~isTerminal(i)
               PROVE  /\ notices[i] = 0 /\ i \notin unheard
                      /\ i \in reported' <=> i \in claimed
                      /\ WaitsAt(i, {"released", "told"})' = {}
    BY <1>2 DEF OwedUntilEnd, isTerminal
  <2>1. /\ notices[i] = 0 /\ i \notin unheard /\ (i \in reported <=> i \in claimed)
        /\ WaitsAt(i, {"released", "told"}) = {}
    BY DEF ReportsInv, OwedUntilEnd
  <2>2. WaitsAt(i, {"released", "told"})' = {}
    BY <1>2, <1>4, <2>1 DEF WaitsAt
  <2> QED BY <1>3, <2>1, <2>2
<1>7. WaitsAreForActive'
  BY <1>2, <1>4 DEF ReportsInv, WaitsAreForActive, isActive
<1>8. CompletionHeard'
  <2> DEFINE answers == {"released", "timed out", "told"}
  <2>1. \A i \in Jobs : isTerminal(i) => WaitsAt(i, answers)' = WaitsAt(i, answers)
    <3> SUFFICES ASSUME NEW i \in Jobs, isTerminal(i), NEW v \in Waits
                 PROVE  (wait'[v].job = i /\ wait'[v].at \in answers) <=>
                        (wait[v].job = i /\ wait[v].at \in answers)
      BY DEF WaitsAt
    <3>1. CASE v # w
      BY <1>2, <3>1
    <3>2. CASE v = w
      <4>1. wait[w].at = "waiting" => wait[w].job # i
        BY <1>5 DEF ReportsInv, WaitsAreForActive
      <4> QED BY <1>4, <1>5, <3>2, <4>1
    <3> QED BY <3>1, <3>2
  <2>2. \A i \in Jobs : isTerminal(i) => (Answered(i)' <=> Answered(i))
    BY <1>2, <2>1 DEF Answered
  <2> QED BY <1>2, <2>2 DEF ReportsInv, CompletionHeard, isTerminal
<1> QED BY <1>6, <1>7, <1>8 DEF ReportsInv

LEMMA CancelReports ==
  ASSUME ReportsInv, TypeOK', NEW S \in SUBSET Jobs, NEW throws,
         cancelForTeardown(S, throws), owner' = owner
  PROVE  ReportsInv'
<1> DEFINE live == {j \in S : isActive(j)}
           failed == live \cap throws
<1>1. TypeOK
  BY DEF ReportsInv
<1>2. settle(failed, reported \cup live)
  BY DEF cancelForTeardown
<1>3. failed \in SUBSET Jobs /\ reported \cup live \in SUBSET Jobs
  BY <1>1 DEF TypeOK
<1>4. \A j \in Jobs :
        /\ status'[j] = IF j \notin S \/ ~isActive(j) THEN status[j]
                        ELSE IF j \in throws THEN "failed" ELSE "stopping"
        /\ j \in claimed' <=> j \in claimed \/ (j \in S /\ isActive(j))
  BY <1>1, CancelEffect
<1>5. \A j \in failed : isActive(j) /\ isTerminal(j)'
  BY <1>4 DEF isTerminal
<1>6. \A j \in Jobs : j \notin failed =>
        /\ isActive(j) <=> isActive(j)'
        /\ isTerminal(j) <=> isTerminal(j)'
  BY <1>4 DEF isActive, isTerminal
<1>7. \A j \in Jobs : IF isTerminal(j) THEN j \in claimed' <=> j \in claimed
                      ELSE j \in reported \cup live <=> j \in claimed'
  BY <1>4 DEF ReportsInv, OwedUntilEnd, isActive, isTerminal
<1> HIDE DEF live, failed
<1> QED BY <1>2, <1>3, <1>5, <1>6, <1>7, SettleReports

LEMMA LifeReports ==
  ASSUME ReportsInv, TypeOK', NEW o,
         \/ OwnerCleanup(o) \/ OwnerDrained(o) \/ DisposeAll \/ AllDrained
         \/ Register(o) \/ Unregister(o) \/ UnloadScope(o) \/ Mount
  PROVE  ReportsInv'
<1>1. CASE OwnerCleanup(o)
  <2>1. PICK S \in {IF o \in cleanup THEN Owned(o) ELSE {}}, throws \in SUBSET Jobs :
          cancelForTeardown(S, throws)
    BY <1>1 DEF OwnerCleanup
  <2>2. S \in SUBSET Jobs
    BY DEF Owned, ReportsInv, TypeOK
  <2> QED BY <1>1, <2>1, <2>2, CancelReports DEF OwnerCleanup
<1>2. CASE DisposeAll
  <2>1. PICK throws : cancelForTeardown(store, throws)
    BY <1>2 DEF DisposeAll
  <2>2. store \in SUBSET Jobs
    BY DEF ReportsInv, TypeOK
  <2> QED BY <1>2, <2>1, <2>2, CancelReports DEF DisposeAll
<1>3. CASE OwnerDrained(o) \/ AllDrained \/ Register(o) \/ Unregister(o) \/ UnloadScope(o)
           \/ Mount
  <2>1. UNCHANGED <<wait, notices, unheard, reported, claimed, owner, status>>
    BY <1>3 DEF OwnerDrained, AllDrained, Register, Unregister, UnloadScope, Mount, reports
  <2> QED BY <2>1, QuietReports DEF isActive, isTerminal, ReportsInv, OwedUntilEnd
<1> QED BY <1>1, <1>2, <1>3

-----------------------------------------------------------------------------
(* The theorems.                                                           *)

Inv == RecordsInv /\ ReportsInv

LEMMA NextTypes == ReportsInv /\ [Next]_vars => TypeOK'
<1> SUFFICES ASSUME ReportsInv, [Next]_vars PROVE TypeOK'
  OBVIOUS
<1>1. TypeOK
  BY DEF ReportsInv
<1>2. ASSUME NEW w \in Waits,
             (\E j \in Jobs : await(w, j)) \/ Abort(w) \/ Timeout(w) \/ Resume(w)
      PROVE  TypeOK'
  <2>1. Resume(w) => wait[w].job \in Jobs
    BY DEF ReportsInv, WaitsAreForActive, Resume
  <2> QED BY <1>1, <1>2, <2>1, WaitTypes
<1>3. CASE UNCHANGED vars
  BY <1>1, <1>3 DEF vars, TypeOK, lives, teardown, reports
<1> QED BY <1>1, <1>2, <1>3, StartTypes, CallTypes, SettlementTypes, OwnerTypes,
           ServiceTypes DEF Next

LEMMA NextReports == ReportsInv /\ TypeOK' /\ [Next]_vars => ReportsInv'
<1> SUFFICES ASSUME ReportsInv, TypeOK', [Next]_vars PROVE ReportsInv'
  OBVIOUS
<1>1. CASE UNCHANGED vars
  BY <1>1, QuietReports
     DEF vars, reports, isActive, isTerminal, ReportsInv, OwedUntilEnd
<1> QED BY <1>1, StartReports, CallReports, WaitReports, LifeReports DEF Next

\* Every variable keeps its type.
THEOREM TypeCorrect == Spec => []TypeOK
<1>1. ReportsInv /\ [Next]_vars => ReportsInv'
  BY NextTypes, NextReports
<1>2. ReportsInv => TypeOK
  BY DEF ReportsInv
<1> QED BY <1>1, <1>2, InitReports, PTL DEF Spec

\* Every completion is heard once: announced, or taken by a kill, a teardown or
\* a wait that returns it, and never both.
THEOREM CompletionsAreHeard == Spec => []CompletionHeard
<1>1. ReportsInv /\ [Next]_vars => ReportsInv'
  BY NextTypes, NextReports
<1>2. ReportsInv => CompletionHeard
  BY DEF ReportsInv
<1> QED BY <1>1, <1>2, InitReports, PTL DEF Spec

LEMMA RecordsInvariant == Spec => []RecordsInv
<1>1. RecordsInv /\ TypeOK' /\ [Next]_vars => RecordsInv'
  BY NextRecords
<1> QED BY <1>1, InitRecords, TypeCorrect, PTL DEF Spec

\* A teardown leaves no job running and no record behind, and no record goes any
\* other way.
THEOREM TeardownIsComplete == Spec => []TeardownTakesAll
BY RecordsInvariant, PTL DEF RecordsInv

\* Observers of changes always show what list() returns.
THEOREM ObserversStayCurrent == Spec => []ObserverIsCurrent
BY RecordsInvariant, PTL DEF RecordsInv

=============================================================================
