-------------------------- MODULE ToolCallsProofs --------------------------
(***************************************************************************)
(* The scheduler for every number of calls and every pool size: exclusive  *)
(* calls run alone, the pool is never exceeded, no dispatch outlives the   *)
(* batch, results tell the truth about what ran, and the scheduler         *)
(* implements ToolBatch, so its `unreachable' branch is unreachable.       *)
(***************************************************************************)
EXTENDS ToolCalls, FiniteSetTheorems, SequenceTheorems, TLAPS

FirstCalls(n) == [i \in 1..n |-> i]

\* The failure surfaces: nothing more is committed or started.
Failed == failure /\ pc \in {"drain", "thrown"}

\* The log and its counters.  A result that was appended by an append that
\* threw is not counted as committed.
Order ==
    /\ results = FirstCalls(Len(results)) /\ Len(results) <= called
    /\ base <= committed
    /\ committed = Len(results) \/ (committed + 1 = Len(results) /\ Failed)
    /\ pc \in {"classify", "skip", "returned"} => called = committed
    /\ pc = "returned" => called = N
    /\ pc = "skipResult" => called = committed + 1

\* The slot of each call, against those counters.
Slots ==
    /\ \A c \in Calls :
         /\ stage[c] = "recorded" <=> c <= Len(results)
         /\ stage[c] = "unstarted" <=> c > called \/ (pc = "skipResult" /\ c = called)
         /\ stage[c] = "preparing" => pc = "prepare" /\ c = called
         /\ stage[c] = "allowed" => c = called /\ (pc = "prepare" \/ Failed)
         /\ stage[c] = "rejected" => failure \/ (pc = "prepare" /\ c = called)
         /\ c \in Running => c \in inFlight
    /\ pc = "prepare" =>
         /\ called > committed
         /\ stage[called] \in {"preparing", "allowed", "settled", "rejected"}

\* The promises the race still holds, and what the scheduler may assume of them.
Pool ==
    /\ \A c \in inFlight : base < c /\ c <= called /\ (Settled(c) \/ c \in Running)
    /\ mode = "exclusive" => inFlight \subseteq {base + 1}
    /\ Cardinality(inFlight) <= cap
    /\ pc = "prepare" =>
         /\ called \notin inFlight /\ Cardinality(inFlight) < cap
         /\ mode = "exclusive" => called = base + 1
    /\ pc \in {"classify", "skip", "skipResult", "returned"} => inFlight = {}
    /\ pc = "thrown" => \A c \in inFlight : Settled(c)
    /\ pc = "committed" /\ committed < called => failure \/ committed + 1 \in inFlight
    /\ pc # "impossible"

IInv == TypeOK /\ Order /\ Slots /\ Pool

-----------------------------------------------------------------------------
(* Types.                                                                  *)

LEMMA InitTypes == Init => TypeOK
<1> SUFFICES ASSUME Init PROVE TypeOK
  OBVIOUS
<1>1. results \in Seq(Calls)
  BY EmptySeq DEF Init
<1>2. base \in 0..(N - 1) /\ cap \in 1..MaxCap /\ called \in 0..N /\ committed \in 0..N
  BY SizesAssumption DEF Init
<1>3. /\ stage \in [Calls -> Stages] /\ result \in [Calls -> Results]
      /\ attempts \in [Calls -> 0..2]
  BY DEF Init, Stages, Results
<1> QED BY <1>1, <1>2, <1>3 DEF Init, TypeOK, Pcs, Modes

LEMMA FillPoolTypes ==
  ASSUME TypeOK, NEW ab, NEW b \in 0..(N - 1), NEW m, NEW k, FillPool(ab, b, m, k)
  PROVE  called' \in 0..N /\ stage' \in [Calls -> Stages] /\ pc' \in Pcs
<1>1. CASE HasRoom(ab, b, m, k) /\ StartCall(called + 1)
  <2>1. called + 1 \in 0..N
    BY <1>1, SizesAssumption DEF TypeOK, HasRoom, GroupEnd
  <2> QED BY <1>1, <2>1 DEF StartCall, TypeOK, Stages, Pcs
<1>2. CASE UNCHANGED <<called, stage>> /\ (pc' = "race" \/ EndGroup(ab))
  BY <1>2 DEF EndGroup, TypeOK, Pcs
<1> QED BY <1>1, <1>2 DEF FillPool

LEMMA RecordTypes ==
  ASSUME TypeOK, NEW c \in Calls, Record(c)
  PROVE  /\ results' \in Seq(Calls) /\ stage' \in [Calls -> Stages]
         /\ committed' \in 0..N /\ failure' \in BOOLEAN /\ pc' \in Pcs
<1>1. results' \in Seq(Calls)
  BY AppendProperties DEF TypeOK, Record
<1>2. c \in 0..N
  BY SizesAssumption DEF Calls
<1> QED BY <1>1, <1>2 DEF TypeOK, Record, Stages, Pcs

LEMMA SchedulerTypes ==
  ASSUME TypeOK, Order, Slots, Scheduler
  PROVE  TypeOK'
<1> USE SizesAssumption DEF groupVars, toolVars
<1>1. CASE NextGroup
  <2>1. /\ called \in 0..(N - 1) /\ signal \in BOOLEAN
        /\ mode' \in Modes /\ cap' \in 1..MaxCap
    BY <1>1 DEF NextGroup, TypeOK
  <2>2. called' \in 0..N /\ stage' \in [Calls -> Stages] /\ pc' \in Pcs
    BY <1>1, <2>1, FillPoolTypes DEF NextGroup
  <2> QED BY <1>1, <2>1, <2>2 DEF NextGroup, TypeOK
<1>2. CASE AllGroupsDone
  BY <1>2 DEF AllGroupsDone, TypeOK, Pcs
<1>3. CASE PrepareSettles
  <2>1. pc' \in Pcs /\ failure' \in BOOLEAN /\ stage' \in [Calls -> Stages]
    BY <1>3 DEF PrepareSettles, TypeOK, Pcs, Stages
  <2>2. inFlight' \subseteq Calls
    <3>1. called \in Calls
      BY <1>3 DEF PrepareSettles, Slots, TypeOK, Calls
    <3> QED BY <1>3, <3>1 DEF PrepareSettles, TypeOK
  <2> QED BY <1>3, <2>1, <2>2 DEF PrepareSettles, TypeOK
<1>4. CASE Started
  BY <1>4 DEF Started, TypeOK, Pcs
<1>5. CASE CommitFinal
  BY <1>5, RecordTypes DEF CommitFinal, TypeOK
<1>6. CASE CommitAwaits
  BY <1>6 DEF CommitAwaits, TypeOK, Pcs
<1>7. CASE CommitReturns
  BY <1>7 DEF CommitReturns, TypeOK, Pcs
<1>8. CASE FinalizeSettles
  <2>1. PICK c \in Calls : /\ Record(c)
                           /\ \E r \in {result[c], "error"} :
                                result' = [result EXCEPT ![c] = OrCancelled(c, r)]
    BY <1>8 DEF FinalizeSettles
  <2>2. result' \in [Calls -> Results]
    BY <2>1 DEF TypeOK, Results, OrCancelled, Cancelled
  <2> QED BY <1>8, <2>1, <2>2, RecordTypes DEF FinalizeSettles, TypeOK
<1>9. CASE FinalizeRejects
  BY <1>9 DEF FinalizeRejects, TypeOK, Pcs
<1>10. CASE Committed
  <2>1. CASE failure
    BY <1>10, <2>1 DEF Committed, TypeOK, Pcs
  <2>2. CASE ~failure
    <3>1. (aborted \/ signal) \in BOOLEAN /\ aborted' \in BOOLEAN
      BY <1>10, <2>2 DEF Committed, TypeOK
    <3>2. called' \in 0..N /\ stage' \in [Calls -> Stages] /\ pc' \in Pcs
      BY <1>10, <2>2, <3>1, FillPoolTypes DEF Committed, TypeOK
    <3> QED BY <1>10, <2>2, <3>1, <3>2 DEF Committed, TypeOK
  <2> QED BY <2>1, <2>2
<1>11. ASSUME NEW c \in Calls, Race(c) PROVE TypeOK'
  BY <1>11 DEF Race, TypeOK, Pcs
<1>12. CASE Drain
  BY <1>12 DEF Drain, TypeOK, Pcs
<1>13. CASE SkipCall
  BY <1>13 DEF SkipCall, TypeOK, Pcs
<1>14. CASE SkipResult
  <2>1. called \in Calls
    BY <1>14 DEF SkipResult, Order, TypeOK, Calls
  <2>2. results' \in Seq(Calls)
    BY <1>14, <2>1, AppendProperties DEF SkipResult, TypeOK
  <2> QED BY <1>14, <2>1, <2>2 DEF SkipResult, TypeOK, Pcs, Stages, Results
<1> QED BY <1>1, <1>2, <1>3, <1>4, <1>5, <1>6, <1>7, <1>8, <1>9, <1>10, <1>11, <1>12,
           <1>13, <1>14 DEF Scheduler

LEMMA PipelineTypes ==
  ASSUME TypeOK, NEW c \in Calls, Pipeline(c)
  PROVE  TypeOK'
<1> USE DEF schedulerVars, groupVars, toolVars
<1>1. CASE PrepareAllows(c)
  BY <1>1 DEF PrepareAllows, TypeOK, Stages
<1>2. ASSUME NEW r \in {"error", "notDispatched"}, NEW post \in BOOLEAN,
             PrepareAnswers(c, r, post)
      PROVE  TypeOK'
  BY <1>2 DEF PrepareAnswers, TypeOK, Stages, Results
<1>3. CASE PrepareRejects(c)
  BY <1>3 DEF PrepareRejects, TypeOK, Stages
<1>4. CASE CallNext(c)
  <2>1. attempts' \in [Calls -> 0..2]
    BY <1>4 DEF CallNext, MaxAttempts, TypeOK
  <2>2. /\ result' \in [Calls -> Results] /\ stage' \in [Calls -> Stages]
        /\ ran' \subseteq Calls
    BY <1>4 DEF CallNext, TypeOK, Stages, Results
  <2> QED BY <1>4, <2>1, <2>2 DEF CallNext, TypeOK
<1>5. CASE BodySettles(c)
  BY <1>5 DEF BodySettles, TypeOK, Stages, Results
<1>6. CASE DispatchSettles(c)
  <2>1. result' \in [Calls -> Results]
    BY <1>6 DEF DispatchSettles, TypeOK, Results, OrCancelled, Cancelled
  <2> QED BY <1>6, <2>1 DEF DispatchSettles, TypeOK, Stages
<1>7. CASE DispatchRejects(c)
  BY <1>7 DEF DispatchRejects, TypeOK, Stages
<1> QED BY <1>1, <1>2, <1>3, <1>4, <1>5, <1>6, <1>7 DEF Pipeline, Prepare, Dispatch

LEMMA AbortTypes == TypeOK /\ Abort => TypeOK'
BY DEF Abort, TypeOK, schedulerVars, groupVars, toolVars

-----------------------------------------------------------------------------
(* The inductive invariant.                                                *)

LEMMA FirstCallsAppend ==
  ASSUME NEW n \in Nat
  PROVE  /\ FirstCalls(n) \in Seq(Nat) /\ Len(FirstCalls(n)) = n
         /\ Append(FirstCalls(n), n + 1) = FirstCalls(n + 1)
BY DEF FirstCalls

LEMMA InFlightFinite ==
  ASSUME TypeOK
  PROVE  IsFiniteSet(inFlight) /\ Cardinality(inFlight) \in Nat
<1>1. IsFiniteSet(Calls)
  BY SizesAssumption, FS_Interval DEF Calls
<1> QED BY <1>1, FS_Subset, FS_CardinalityType DEF TypeOK

LEMMA InitInv == Init => IInv
<1> SUFFICES ASSUME Init PROVE IInv
  OBVIOUS
<1>1. Len(results) = 0 /\ results = FirstCalls(0)
  BY EmptySeq DEF Init, FirstCalls
<1>2. Order
  BY <1>1 DEF Init, Order
<1>3. Slots
  BY <1>1, SizesAssumption DEF Init, Slots, Calls, Running
<1>4. Pool
  BY FS_EmptySet DEF Init, Pool
<1> QED BY <1>2, <1>3, <1>4, InitTypes DEF IInv

\* fillPool starts a call, or ends in a race or, the pool drained, the group.
LEMMA FillPoolCases ==
  ASSUME IInv, NEW ab, NEW b \in 0..(N - 1), NEW m, NEW k, FillPool(ab, b, m, k),
         inFlight = {} => committed = called
  PROVE  \/ HasRoom(ab, b, m, k) /\ StartCall(called + 1) /\ called < N
         \/ /\ UNCHANGED <<called, stage>>
            /\ \/ pc' = "race"
               \/ pc' \in {"skip", "classify"} /\ inFlight = {} /\ committed = called
<1>1. HasRoom(ab, b, m, k) => called < N
  BY SizesAssumption DEF HasRoom, GroupEnd, IInv, TypeOK
<1> QED BY <1>1 DEF FillPool, EndGroup

\* The next call of a group opens.
LEMMA StartKeeps ==
  ASSUME IInv, pc \in {"classify", "committed"}, called < N, StartCall(called + 1),
         UNCHANGED <<failure, results, committed, inFlight>>,
         base' \in 0..(N - 1), base' <= committed, \A c \in inFlight : base' < c,
         Cardinality(inFlight) < cap', cap' \in Nat,
         mode' = "exclusive" => inFlight \subseteq {base' + 1} /\ called = base'
  PROVE  (Order /\ Slots /\ Pool)'
<1> USE DEF IInv
<1>1. called' = called + 1 /\ called + 1 \in Calls /\ pc' = "prepare" /\ called \in 0..N
  BY SizesAssumption DEF StartCall, TypeOK, Calls
<1>2. /\ stage'[called + 1] = "preparing"
      /\ \A c \in Calls : c # called + 1 => stage'[c] = stage[c]
  BY <1>1 DEF StartCall, TypeOK
<1>3. committed <= called /\ Len(results) <= called /\ Len(results) \in Nat /\ committed \in Nat
      /\ committed = Len(results)
  BY LenProperties DEF Order, TypeOK, Failed
<1>4. Order'
  BY <1>1, <1>3 DEF Order, TypeOK, Failed
<1>5. Slots'
  <2> SUFFICES ASSUME NEW c \in Calls
               PROVE  /\ stage'[c] = "recorded" <=> c <= Len(results')
                      /\ stage'[c] = "unstarted" <=> c > called'
                      /\ stage'[c] = "preparing" => c = called'
                      /\ stage'[c] = "allowed" => c = called'
                      /\ stage'[c] = "rejected" => failure' \/ c = called'
                      /\ stage'[c] \in {"wrapper", "body"} => c \in inFlight'
    BY <1>1, <1>2, <1>3 DEF Slots, Running
  <2>1. c \in Int
    BY DEF Calls
  <2>2. CASE c = called + 1
    BY <1>1, <1>2, <1>3, <2>1, <2>2
  <2>3. CASE c # called + 1
    <3>1. /\ stage[c] = "recorded" <=> c <= Len(results)
          /\ stage[c] = "unstarted" <=> c > called
          /\ stage[c] # "preparing" /\ stage[c] # "allowed"
          /\ stage[c] = "rejected" => failure
          /\ stage[c] \in {"wrapper", "body"} => c \in inFlight
      BY DEF Slots, Running, Failed
    <3> QED BY <1>1, <1>2, <1>3, <2>1, <2>3, <3>1
  <2> QED BY <2>2, <2>3
<1>6. Pool'
  <2>1. \A c \in inFlight' : base' < c /\ c <= called' /\ (Settled(c) \/ c \in Running)'
    <3> SUFFICES ASSUME NEW c \in inFlight
                 PROVE  base' < c /\ c <= called' /\ (Settled(c) \/ c \in Running)'
      OBVIOUS
    <3>1. c \in Calls /\ c \in Int /\ c <= called /\ (Settled(c) \/ c \in Running)
      BY DEF Pool, TypeOK, Calls
    <3>2. stage'[c] = stage[c]
      BY <1>1, <1>2, <3>1
    <3> QED BY <1>1, <3>1, <3>2 DEF Settled, Running
  <2>2. called' \notin inFlight'
    BY <1>1 DEF Pool
  <2>3. Cardinality(inFlight') < cap' /\ Cardinality(inFlight') <= cap'
    BY InFlightFinite
  <2> QED BY <1>1, <2>1, <2>2, <2>3 DEF Pool
<1> QED BY <1>4, <1>5, <1>6

\* Steps of the scheduler that touch neither the slots nor the pool.
LEMMA MoveKeeps ==
  ASSUME IInv, UNCHANGED <<called, results, committed, inFlight, stage>>,
         pc # "prepare" /\ ~Failed, pc # "skipResult",
         \/ base' = base /\ mode' = mode /\ cap' = cap
         \/ inFlight = {} /\ base' <= committed /\ base' \in Nat /\ cap' \in Nat,
         failure => failure',
         \/ pc' \in {"race", "commit", "finalize", "started"}
         \/ pc' = "drain" /\ failure'
         \/ pc' = "committed" /\ (committed < called => failure \/ committed + 1 \in inFlight)
         \/ pc' \in {"skip", "classify", "returned"} /\ inFlight = {} /\ committed = called
            /\ (pc' = "returned" => called = N)
  PROVE  (Order /\ Slots /\ Pool)'
<1> USE DEF IInv
<1>1. Order'
  BY DEF Order, Failed
<1>2. Slots'
  BY DEF Slots, Running, Failed
<1>3. Pool'
  BY FS_EmptySet DEF Pool, Settled, Running
<1> QED BY <1>1, <1>2, <1>3

LEMMA PrepareSettlesKeeps ==
  ASSUME IInv, PrepareSettles
  PROVE  (Order /\ Slots /\ Pool)'
<1> USE DEF IInv, groupVars, toolVars
<1>1. /\ called \in Calls /\ committed < called /\ called \notin inFlight
      /\ Cardinality(inFlight) < cap /\ cap \in Nat
      /\ mode = "exclusive" => called = base + 1
      /\ called \in Int /\ base \in Nat /\ committed \in Nat /\ base <= committed
  BY SizesAssumption DEF PrepareSettles, Slots, Pool, Order, TypeOK, Calls
<1>2. UNCHANGED <<called, results, committed, base, mode, cap>>
  BY DEF PrepareSettles
<1>3. CASE (failure \/ stage[called] = "rejected") /\ failure' = TRUE /\ pc' = "drain"
           /\ UNCHANGED <<inFlight, stage>>
  <2>1. Order'
    BY <1>2, <1>3 DEF PrepareSettles, Order, Failed
  <2>2. Slots'
    BY <1>2, <1>3 DEF PrepareSettles, Slots, Failed, Running
  <2>3. Pool'
    BY <1>2, <1>3 DEF Pool, Settled, Running
  <2> QED BY <2>1, <2>2, <2>3
<1>4. CASE ~failure /\ stage[called] = "settled" /\ pc' = "started"
           /\ UNCHANGED <<failure, inFlight, stage>>
  <2>1. Order'
    BY <1>2, <1>4 DEF PrepareSettles, Order, Failed
  <2>2. Slots'
    BY <1>1, <1>2, <1>4 DEF Slots, Failed, Running, Calls
  <2>3. Pool'
    BY <1>2, <1>4 DEF Pool, Settled, Running
  <2> QED BY <2>1, <2>2, <2>3
<1>5. CASE /\ ~failure /\ stage[called] = "allowed"
           /\ stage' = [stage EXCEPT ![called] = "wrapper"]
           /\ inFlight' = inFlight \cup {called}
           /\ pc' = "started" /\ UNCHANGED failure
  <2>1. Order'
    BY <1>2, <1>5 DEF PrepareSettles, Order, Failed
  <2>2. /\ stage'[called] = "wrapper"
        /\ \A c \in Calls : c # called => stage'[c] = stage[c]
    BY <1>1, <1>5 DEF TypeOK
  <2>3. Slots'
    <3> SUFFICES ASSUME NEW c \in Calls
                 PROVE  /\ stage'[c] = "recorded" <=> c <= Len(results')
                        /\ stage'[c] = "unstarted" <=> c > called'
                        /\ stage'[c] # "preparing" /\ stage'[c] # "allowed"
                        /\ stage'[c] = "rejected" => failure'
                        /\ stage'[c] \in {"wrapper", "body"} => c \in inFlight'
      BY <1>5 DEF Slots, Running
    <3>1. CASE c = called
      <4>1. stage[c] # "recorded"
        BY <1>5, <3>1
      <4> QED BY <1>1, <1>2, <1>5, <2>2, <3>1, <4>1 DEF Slots
    <3>2. CASE c # called
      BY <1>2, <1>5, <2>2, <3>2 DEF Slots, Running, Failed, PrepareSettles
    <3> QED BY <3>1, <3>2
  <2>4. Pool'
    <3>1. \A c \in inFlight' : base < c /\ c <= called /\ (Settled(c) \/ c \in Running)'
      <4> SUFFICES ASSUME NEW c \in inFlight'
                   PROVE  base < c /\ c <= called /\ (Settled(c) \/ c \in Running)'
        OBVIOUS
      <4>1. CASE c = called
        BY <1>1, <2>2, <4>1 DEF Running
      <4>2. CASE c # called
        <5>1. c \in inFlight /\ c \in Calls
          BY <1>5, <4>2 DEF TypeOK
        <5> QED BY <2>2, <4>2, <5>1 DEF Pool, Settled, Running
      <4> QED BY <4>1, <4>2
    <3>2. Cardinality(inFlight') <= cap
      BY <1>1, <1>5, InFlightFinite, FS_AddElement
    <3>3. mode = "exclusive" => inFlight' \subseteq {base + 1}
      BY <1>1, <1>5 DEF Pool
    <3> QED BY <1>2, <1>5, <3>1, <3>2, <3>3 DEF Pool
  <2> QED BY <2>1, <2>3, <2>4
<1> QED BY <1>3, <1>4, <1>5 DEF PrepareSettles

\* A result is appended in its place, whether or not the append then throws.
LEMMA RecordKeeps ==
  ASSUME IInv, NEW c \in Calls, Ready(c), Record(c), pc \in {"commit", "finalize"},
         UNCHANGED <<called, base, mode, cap, inFlight>>
  PROVE  (Order /\ Slots /\ Pool)'
<1> USE DEF IInv
<1>1. /\ c = committed + 1 /\ committed = Len(results) /\ Len(results) \in Nat
      /\ stage[c] = "settled" /\ c <= called /\ called \in Nat
  BY LenProperties, SizesAssumption DEF Ready, Order, Failed, Slots, TypeOK, Calls
<1>2. results' = FirstCalls(c) /\ Len(results') = c
  <2>1. results' = Append(FirstCalls(Len(results)), Len(results) + 1)
    BY <1>1 DEF Record, Order
  <2>2. Append(FirstCalls(Len(results)), Len(results) + 1) = FirstCalls(Len(results) + 1)
    BY <1>1, FirstCallsAppend
  <2>3. c = Len(results) + 1 /\ c \in Nat
    BY <1>1
  <2>4. results' = FirstCalls(c) /\ Len(FirstCalls(c)) = c
    BY <2>1, <2>2, <2>3, FirstCallsAppend
  <2> QED BY <2>4
<1>3. /\ stage'[c] = "recorded"
      /\ \A d \in Calls : d # c => stage'[d] = stage[d]
  BY DEF Record, TypeOK
<1>4. \/ committed' = c /\ pc' = "commit" /\ failure' = failure
      \/ failure' = TRUE /\ pc' = "drain" /\ committed' = committed
  BY DEF Record
<1>5. Order'
  BY <1>1, <1>2, <1>4 DEF Order, Failed, TypeOK
<1>6. Slots'
  <2> SUFFICES ASSUME NEW d \in Calls
               PROVE  /\ stage'[d] = "recorded" <=> d <= Len(results')
                      /\ stage'[d] = "unstarted" <=> d > called'
                      /\ stage'[d] # "preparing" /\ stage'[d] # "allowed"
                      /\ stage'[d] = "rejected" => failure'
                      /\ stage'[d] \in {"wrapper", "body"} => d \in inFlight'
    BY <1>4 DEF Slots, Running
  <2>1. CASE d = c
    BY <1>1, <1>2, <1>3, <2>1
  <2>2. CASE d # c
    <3>1. d \in Int /\ c \in Int
      BY DEF Calls
    <3>2. /\ stage[d] = "recorded" <=> d <= Len(results)
          /\ stage[d] = "unstarted" <=> d > called
          /\ stage[d] # "preparing" /\ stage[d] # "allowed"
          /\ stage[d] = "rejected" => failure
          /\ stage[d] \in {"wrapper", "body"} => d \in inFlight
      BY DEF Slots, Running, Failed
    <3> QED BY <1>1, <1>2, <1>3, <1>4, <2>2, <3>1, <3>2
  <2> QED BY <2>1, <2>2
<1>7. Pool'
  <2>1. \A d \in inFlight : (Settled(d) \/ d \in Running)'
    <3> SUFFICES ASSUME NEW d \in inFlight PROVE (Settled(d) \/ d \in Running)'
      OBVIOUS
    <3>1. d \in Calls /\ (Settled(d) \/ d \in Running)
      BY DEF Pool, TypeOK
    <3> QED BY <1>3, <3>1 DEF Settled, Running
  <2> QED BY <1>4, <2>1 DEF Pool
<1> QED BY <1>5, <1>6, <1>7

LEMMA RaceKeeps ==
  ASSUME IInv, NEW c \in Calls, Race(c)
  PROVE  (Order /\ Slots /\ Pool)'
<1> USE DEF IInv, groupVars, toolVars
<1>1. /\ inFlight' = inFlight \ {c} /\ Settled(c) /\ c \in inFlight
      /\ pc = "race" /\ (pc' = "commit" \/ (pc' = "drain" /\ failure'))
      /\ UNCHANGED <<failure, base, mode, cap, called, results, committed, stage>>
  BY DEF Race
<1>2. Order'
  BY <1>1 DEF Order, Failed
<1>3. Slots'
  BY <1>1 DEF Slots, Failed, Running, Settled
<1>4. Pool'
  <2>1. Cardinality(inFlight') <= cap
    <3>1. Cardinality(inFlight') = Cardinality(inFlight) - 1
      BY <1>1, InFlightFinite, FS_RemoveElement
    <3>2. cap \in Nat /\ Cardinality(inFlight) <= cap
      BY SizesAssumption DEF Pool, TypeOK
    <3> QED BY <3>1, <3>2, InFlightFinite
  <2> QED BY <1>1, <2>1 DEF Pool, Settled, Running
<1> QED BY <1>2, <1>3, <1>4

\* Calls of an aborted message that were never started.
LEMMA SkipKeeps ==
  ASSUME IInv, SkipCall \/ SkipResult
  PROVE  (Order /\ Slots /\ Pool)'
<1> USE DEF IInv, groupVars, toolVars
<1>1. committed \in Nat /\ called \in Nat /\ Len(results) \in Nat /\ committed = Len(results)
      /\ inFlight = {} /\ base \in Nat
  BY LenProperties, SizesAssumption DEF Order, Failed, Pool, TypeOK, SkipCall, SkipResult
<1>2. CASE SkipCall
  <2>1. Order'
    BY <1>1, <1>2 DEF SkipCall, Order, Failed
  <2>2. Slots'
    BY <1>1, <1>2 DEF SkipCall, Slots, Failed, Running, Calls, Order
  <2>3. Pool'
    BY <1>1, <1>2 DEF SkipCall, Pool
  <2> QED BY <2>1, <2>2, <2>3
<1>3. CASE SkipResult
  <2>1. called = Len(results) + 1 /\ called \in Calls
    BY <1>1, <1>3 DEF SkipResult, Order, TypeOK, Calls
  <2>2. results' = FirstCalls(called) /\ Len(results') = called
    BY <1>1, <1>3, <2>1, FirstCallsAppend DEF SkipResult, Order
  <2>3. /\ stage'[called] = "recorded"
        /\ \A c \in Calls : c # called => stage'[c] = stage[c]
    BY <1>3, <2>1 DEF SkipResult, TypeOK
  <2>4. Order'
    BY <1>1, <1>3, <2>1, <2>2 DEF SkipResult, Order
  <2>5. Slots'
    <3> SUFFICES ASSUME NEW c \in Calls
                 PROVE  /\ stage'[c] = "recorded" <=> c <= Len(results')
                        /\ stage'[c] = "unstarted" <=> c > called'
                        /\ stage'[c] # "preparing" /\ stage'[c] # "allowed"
                        /\ stage'[c] = "rejected" => failure'
                        /\ stage'[c] \notin {"wrapper", "body"}
      BY <1>3 DEF SkipResult, Slots, Running
    <3>1. c \in Int
      BY DEF Calls
    <3> QED BY <1>1, <1>3, <2>1, <2>2, <2>3, <3>1
            DEF SkipResult, Slots, Running, Failed
  <2>6. Pool'
    BY <1>1, <1>3 DEF SkipResult, Pool
  <2> QED BY <2>4, <2>5, <2>6
<1> QED BY <1>2, <1>3

LEMMA SchedulerKeeps ==
  ASSUME IInv, Scheduler
  PROVE  (Order /\ Slots /\ Pool)'
<1> USE DEF groupVars, toolVars
<1>1. CASE NextGroup
  <2>1. /\ pc = "classify" /\ called \in 0..(N - 1) /\ inFlight = {} /\ committed = called
        /\ base' = called /\ cap' \in Nat /\ cap' > 0
    BY <1>1, SizesAssumption DEF NextGroup, IInv, TypeOK, Order, Pool
  <2>2. \/ HasRoom(signal, called, mode', cap') /\ StartCall(called + 1) /\ called < N
        \/ /\ UNCHANGED <<called, stage>>
           /\ \/ pc' = "race"
              \/ pc' \in {"skip", "classify"} /\ inFlight = {} /\ committed = called
    BY <1>1, <2>1, FillPoolCases DEF NextGroup
  <2>3. UNCHANGED <<failure, results, committed, inFlight>>
    BY <1>1 DEF NextGroup
  <2>4. CASE HasRoom(signal, called, mode', cap') /\ StartCall(called + 1) /\ called < N
    <3>1. Cardinality(inFlight) = 0
      BY <2>1, FS_EmptySet
    <3> QED BY <2>1, <2>3, <2>4, <3>1, StartKeeps
  <2>5. CASE UNCHANGED <<called, stage>> /\
             (pc' = "race" \/ (pc' \in {"skip", "classify"} /\ inFlight = {}
                               /\ committed = called))
    BY <2>1, <2>3, <2>5, MoveKeeps DEF Failed
  <2> QED BY <2>2, <2>4, <2>5
<1>2. CASE AllGroupsDone
  BY <1>2, MoveKeeps DEF AllGroupsDone, IInv, Order, Pool, Failed
<1>3. CASE PrepareSettles
  BY <1>3, PrepareSettlesKeeps
<1>4. CASE Started
  BY <1>4, MoveKeeps DEF Started, Failed
<1>5. CASE CommitFinal
  BY <1>5, RecordKeeps DEF CommitFinal
<1>6. CASE CommitAwaits
  BY <1>6, MoveKeeps DEF CommitAwaits, Failed
<1>7. CASE CommitReturns
  <2>1. committed < called => failure \/ committed + 1 \in inFlight
    <3> SUFFICES ASSUME committed < called PROVE failure \/ committed + 1 \in inFlight
      OBVIOUS
    <3> DEFINE c == committed + 1
    <3>1. c \in Calls /\ c <= called /\ c > Len(results) /\ stage[c] # "settled"
      BY <1>7, SizesAssumption
         DEF CommitReturns, Ready, IInv, TypeOK, Order, Failed, Calls
    <3>2. stage[c] \in {"wrapper", "body", "rejected"}
      BY <1>7, <3>1 DEF CommitReturns, IInv, TypeOK, Slots, Failed, Stages, Calls
    <3> QED BY <1>7, <3>1, <3>2 DEF CommitReturns, IInv, Slots, Running
  <2> QED BY <1>7, <2>1, MoveKeeps DEF CommitReturns, Failed
<1>8. CASE FinalizeSettles
  BY <1>8, RecordKeeps DEF FinalizeSettles
<1>9. CASE FinalizeRejects
  BY <1>9, MoveKeeps DEF FinalizeRejects, Failed
<1>10. CASE Committed
  <2>1. CASE failure
    BY <1>10, <2>1, MoveKeeps DEF Committed, Failed
  <2>2. CASE ~failure
    <3>1. /\ base \in 0..(N - 1) /\ base <= committed /\ committed <= called
          /\ inFlight = {} => committed = called
          /\ called \in Nat /\ committed \in Nat
      BY <1>10, <2>2, SizesAssumption DEF Committed, IInv, TypeOK, Order, Pool, Failed
    <3>2. FillPool(aborted \/ signal, base, mode, cap)
          /\ UNCHANGED <<failure, results, committed, inFlight, base, mode, cap>>
      BY <1>10, <2>2 DEF Committed
    <3>3. \/ HasRoom(aborted \/ signal, base, mode, cap) /\ StartCall(called + 1) /\ called < N
          \/ /\ UNCHANGED <<called, stage>>
             /\ \/ pc' = "race"
                \/ pc' \in {"skip", "classify"} /\ inFlight = {} /\ committed = called
      BY <3>1, <3>2, FillPoolCases
    <3>4. CASE HasRoom(aborted \/ signal, base, mode, cap) /\ StartCall(called + 1)
               /\ called < N
      <4>1. Cardinality(inFlight) < cap /\ (mode = "exclusive" => called = base)
        BY <3>1, <3>4 DEF HasRoom, GroupEnd
      <4>2. /\ cap \in Nat /\ \A c \in inFlight : base < c
            /\ mode = "exclusive" => inFlight \subseteq {base + 1}
        BY SizesAssumption DEF IInv, TypeOK, Pool
      <4> QED BY <1>10, <3>1, <3>2, <3>4, <4>1, <4>2, StartKeeps DEF Committed
    <3>5. CASE UNCHANGED <<called, stage>> /\
               (pc' = "race" \/ (pc' \in {"skip", "classify"} /\ inFlight = {}
                                 /\ committed = called))
      BY <1>10, <3>2, <3>5, MoveKeeps DEF Committed, Failed
    <3> QED BY <3>3, <3>4, <3>5
  <2> QED BY <2>1, <2>2
<1>11. ASSUME NEW c \in Calls, Race(c) PROVE (Order /\ Slots /\ Pool)'
  BY <1>11, RaceKeeps
<1>12. CASE Drain
  <2>1. Order'
    BY <1>12 DEF Drain, IInv, Order, Failed
  <2>2. Slots'
    BY <1>12 DEF Drain, IInv, Slots, Failed, Running
  <2>3. Pool'
    BY <1>12 DEF Drain, IInv, Pool, Settled, Running
  <2> QED BY <2>1, <2>2, <2>3
<1>13. CASE SkipCall
  BY <1>13, SkipKeeps
<1>14. CASE SkipResult
  BY <1>14, SkipKeeps
<1> QED BY <1>1, <1>2, <1>3, <1>4, <1>5, <1>6, <1>7, <1>8, <1>9, <1>10, <1>11, <1>12,
           <1>13, <1>14 DEF Scheduler

\* The registry moves one slot; the scheduler's counters stand still.
LEMMA SlotMoveKeeps ==
  ASSUME IInv, NEW c \in Calls, NEW s, stage' = [stage EXCEPT ![c] = s],
         UNCHANGED <<pc, base, mode, cap, called, results, committed, inFlight>>,
         failure => failure',
         \/ stage[c] = "preparing" /\ s \in {"allowed", "settled", "rejected"}
         \/ stage[c] \in {"wrapper", "body"} /\ s \in {"wrapper", "body", "settled"}
         \/ stage[c] = "wrapper" /\ s = "rejected" /\ failure'
  PROVE  (Order /\ Slots /\ Pool)'
<1> USE DEF IInv
<1>1. /\ stage'[c] = s
      /\ \A d \in Calls : d # c => stage'[d] = stage[d]
  BY DEF TypeOK
<1>2. Order'
  BY DEF Order, Failed
<1>3. stage[c] # "recorded" /\ stage[c] # "unstarted"
      /\ (stage[c] = "preparing" => pc = "prepare" /\ c = called)
      /\ (stage[c] \in {"wrapper", "body"} => c \in inFlight)
  BY DEF Slots, Running
<1>4. Slots'
  <2>1. ASSUME NEW d \in Calls
        PROVE  /\ stage'[d] = "recorded" <=> d <= Len(results')
               /\ stage'[d] = "unstarted" <=>
                    d > called' \/ (pc' = "skipResult" /\ d = called')
               /\ stage'[d] = "preparing" => pc' = "prepare" /\ d = called'
               /\ stage'[d] = "allowed" => d = called' /\ (pc' = "prepare" \/ Failed')
               /\ stage'[d] = "rejected" => failure' \/ (pc' = "prepare" /\ d = called')
               /\ stage'[d] \in {"wrapper", "body"} => d \in inFlight'
    <3>1. CASE d = c
      BY <1>1, <1>3, <3>1 DEF Slots
    <3>2. CASE d # c
      BY <1>1, <3>2 DEF Slots, Running, Failed
    <3> QED BY <3>1, <3>2
  <2>2. pc' = "prepare" =>
          /\ called' > committed'
          /\ stage'[called'] \in {"preparing", "allowed", "settled", "rejected"}
    <3> SUFFICES ASSUME pc = "prepare"
                 PROVE  /\ called > committed
                        /\ stage'[called] \in {"preparing", "allowed", "settled", "rejected"}
      OBVIOUS
    <3>1. /\ called > committed /\ called \in Calls /\ called \notin inFlight
          /\ stage[called] \in {"preparing", "allowed", "settled", "rejected"}
      BY SizesAssumption DEF Slots, Pool, TypeOK, Calls
    <3> QED BY <1>1, <1>3, <3>1
  <2> QED BY <2>1, <2>2 DEF Slots, Running
<1>5. Pool'
  <2>1. \A d \in inFlight : (Settled(d) \/ d \in Running)'
                            /\ (Settled(d) => Settled(d)')
    <3> SUFFICES ASSUME NEW d \in inFlight
                 PROVE  (Settled(d) \/ d \in Running)' /\ (Settled(d) => Settled(d)')
      OBVIOUS
    <3>1. d \in Calls /\ (Settled(d) \/ d \in Running)
      BY DEF Pool, TypeOK
    <3> QED BY <1>1, <3>1 DEF Settled, Running
  <2> QED BY <2>1 DEF Pool
<1> QED BY <1>2, <1>4, <1>5

LEMMA PipelineKeeps ==
  ASSUME IInv, NEW c \in Calls, Pipeline(c)
  PROVE  (Order /\ Slots /\ Pool)'
<1> USE DEF schedulerVars, groupVars, toolVars
<1>1. CASE PrepareAllows(c)
  BY <1>1, SlotMoveKeeps DEF PrepareAllows
<1>2. ASSUME NEW r \in {"error", "notDispatched"}, NEW post \in BOOLEAN,
             PrepareAnswers(c, r, post)
      PROVE  (Order /\ Slots /\ Pool)'
  BY <1>2, SlotMoveKeeps DEF PrepareAnswers
<1>3. CASE PrepareRejects(c)
  BY <1>3, SlotMoveKeeps DEF PrepareRejects
<1>4. CASE CallNext(c)
  <2>1. CASE stage' = stage
    <3>1. stage' = [stage EXCEPT ![c] = "wrapper"]
      BY <1>4, <2>1 DEF CallNext, IInv, TypeOK
    <3> QED BY <1>4, <3>1, SlotMoveKeeps DEF CallNext
  <2>2. CASE stage' = [stage EXCEPT ![c] = "body"]
    BY <1>4, <2>2, SlotMoveKeeps DEF CallNext
  <2> QED BY <1>4, <2>1, <2>2 DEF CallNext
<1>5. CASE BodySettles(c)
  BY <1>5, SlotMoveKeeps DEF BodySettles
<1>6. CASE DispatchSettles(c)
  BY <1>6, SlotMoveKeeps DEF DispatchSettles
<1>7. CASE DispatchRejects(c)
  BY <1>7, SlotMoveKeeps DEF DispatchRejects
<1> QED BY <1>1, <1>2, <1>3, <1>4, <1>5, <1>6, <1>7 DEF Pipeline, Prepare, Dispatch

LEMMA NextInv == IInv /\ [Next]_vars => IInv'
<1> SUFFICES ASSUME IInv, [Next]_vars PROVE IInv'
  OBVIOUS
<1>1. CASE Scheduler
  BY <1>1, SchedulerTypes, SchedulerKeeps DEF IInv
<1>2. ASSUME NEW c \in Calls, Pipeline(c) PROVE IInv'
  BY <1>2, PipelineTypes, PipelineKeeps DEF IInv
<1>3. CASE Abort
  <2>1. UNCHANGED <<pc, failure, base, mode, cap, called, results, committed, inFlight, stage>>
    BY <1>3 DEF Abort, schedulerVars, groupVars
  <2> QED BY <1>3, <2>1, AbortTypes DEF IInv, Order, Slots, Pool, Failed, Settled, Running
<1>4. CASE UNCHANGED vars
  <2>1. UNCHANGED <<pc, failure, base, mode, cap, called, results, committed, inFlight, stage>>
    BY <1>4 DEF vars, groupVars
  <2>2. TypeOK'
    BY <1>4 DEF IInv, TypeOK, vars, groupVars, toolVars
  <2> QED BY <2>1, <2>2 DEF IInv, Order, Slots, Pool, Failed, Settled, Running
<1> QED BY <1>1, <1>2, <1>3, <1>4 DEF Next

THEOREM InductiveInvariant == Spec => []IInv
BY InitInv, NextInv, PTL DEF Spec

-----------------------------------------------------------------------------
(* What follows for the pool and for the log.                              *)

LEMMA PoolBarriers == IInv => BarriersAndPool
<1> SUFFICES ASSUME IInv PROVE BarriersAndPool
  OBVIOUS
<1> USE DEF IInv
<1>1. Running \subseteq inFlight
  BY DEF Slots, Running
<1>2. Cardinality(Running) <= cap
  <2>1. Cardinality(Running) \in Nat /\ Cardinality(Running) <= Cardinality(inFlight)
    BY <1>1, InFlightFinite, FS_Subset, FS_CardinalityType
  <2> QED BY <2>1, InFlightFinite, SizesAssumption DEF Pool, TypeOK
<1>3. pc \in {"classify", "skip", "skipResult", "returned", "thrown"} => Running = {}
  BY <1>1 DEF Pool, Settled, Running
<1>4. mode = "exclusive" => Running \subseteq {base + 1}
  BY <1>1 DEF Pool
<1>5. \A c \in Running : base < c
  BY <1>1 DEF Pool
<1> QED BY <1>2, <1>3, <1>4, <1>5 DEF BarriersAndPool

\* An exclusive call runs alone, a parallel group keeps within the setting it
\* read, and no dispatch outlives the batch.
THEOREM PoolIsBounded == Spec => []BarriersAndPool
BY InductiveInvariant, PoolBarriers, PTL

\* A cancelled step invokes no further body, an observed abort opens no call and
\* a failure dispatches nothing new.
THEOREM NoLateStart == Spec => NothingStartsLate
<1> DEFINE A == /\ signal => ran' = ran
                /\ signal /\ pc = "committed" => pc' # "prepare"
                /\ failure => Running' \subseteq Running
<1>1. ASSUME IInv, Next PROVE A
  <2> USE DEF groupVars, toolVars, schedulerVars
  <2>1. CASE Scheduler
    <3>1. ran' = ran
      BY <2>1 DEF Scheduler, NextGroup, AllGroupsDone, PrepareSettles, Started, CommitFinal,
         CommitAwaits, CommitReturns, FinalizeSettles, FinalizeRejects, Committed, Race, Drain,
         SkipCall, SkipResult
    <3>2. signal /\ pc = "committed" => pc' # "prepare"
      BY <2>1 DEF Scheduler, NextGroup, AllGroupsDone, PrepareSettles, Started, CommitFinal,
         CommitAwaits, CommitReturns, FinalizeSettles, FinalizeRejects, Committed, Race, Drain,
         SkipCall, SkipResult, FillPool, HasRoom, EndGroup
    <3>3. failure => Running' \subseteq Running
      <4>1. CASE \E c \in Calls : \E s \in Stages \ {"wrapper", "body"} :
                   stage' = [stage EXCEPT ![c] = s]
        BY <1>1, <4>1 DEF Running, IInv, TypeOK
      <4>2. CASE stage' = stage
        BY <4>2 DEF Running
      <4>3. CASE NextGroup \/ Committed
        <5>1. stage' = stage \/ stage' = [stage EXCEPT ![called + 1] = "preparing"]
          BY <4>3 DEF NextGroup, Committed, FillPool, StartCall
        <5>2. \A c \in Calls : stage'[c] = stage[c] \/ stage'[c] = "preparing"
          BY <1>1, <5>1 DEF IInv, TypeOK
        <5> QED BY <5>2 DEF Running
      <4>4. CASE CommitFinal \/ FinalizeSettles
        BY <4>1, <4>4 DEF CommitFinal, FinalizeSettles, Record, Stages
      <4>5. CASE SkipResult
        BY <1>1, <4>5 DEF SkipResult, Running, IInv, TypeOK
      <4>6. CASE PrepareSettles
        BY <4>2, <4>6 DEF PrepareSettles
      <4> QED BY <2>1, <4>2, <4>3, <4>4, <4>5, <4>6
              DEF Scheduler, AllGroupsDone, Started, CommitAwaits, CommitReturns,
                  FinalizeRejects, Race, Drain, SkipCall
    <3> QED BY <3>1, <3>2, <3>3
  <2>2. ASSUME NEW c \in Calls, Pipeline(c) PROVE A
    <3>1. (signal => ran' = ran) /\ pc' = pc
      BY <2>2 DEF Pipeline, Prepare, Dispatch, PrepareAllows, PrepareAnswers, PrepareRejects,
         CallNext, BodySettles, DispatchSettles, DispatchRejects
    <3>2. Running' \subseteq Running
      <4>1. \/ stage' = stage
            \/ stage[c] \in {"wrapper", "body"} /\ \E s \in Stages : stage' = [stage EXCEPT ![c] = s]
            \/ \E s \in Stages \ {"wrapper", "body"} : stage' = [stage EXCEPT ![c] = s]
        BY <2>2 DEF Pipeline, Prepare, Dispatch, PrepareAllows, PrepareAnswers, PrepareRejects,
           CallNext, BodySettles, DispatchSettles, DispatchRejects, Stages
      <4>2. \A d \in Calls :
              stage'[d] \in {"wrapper", "body"} => stage[d] \in {"wrapper", "body"}
        BY <1>1, <4>1 DEF IInv, TypeOK
      <4> QED BY <4>2 DEF Running
    <3> QED BY <3>1, <3>2
  <2>3. CASE Abort
    BY <2>3 DEF Abort, Running
  <2> QED BY <1>1, <2>1, <2>2, <2>3 DEF Next
<1>2. IInv /\ [Next]_vars => [A]_vars
  BY <1>1
<1> QED BY <1>2, InductiveInvariant, PTL DEF Spec, NothingStartsLate

-----------------------------------------------------------------------------
(* Results tell the truth about what ran.                                  *)

\* Told of one call, by what it reads.
ToldOf(s, r, n, started) ==
    /\ started => n > 0
    /\ s \in {"unstarted", "preparing", "allowed"} => ~started /\ r = "none"
    /\ r = "notDispatched" => ~started \/ n > 1
    /\ r = "notDispatched" /\ s \in {"wrapper", "body"} => n > 0

Told == \A c \in Calls : ToldOf(stage[c], result[c], attempts[c], c \in ran)

LEMMA InitTold == Init => Told
BY DEF Init, Told, ToldOf

\* A slot that moves on without a new outcome.
LEMMA StageMoveTells ==
  ASSUME IInv, Told, NEW c \in Calls, NEW s, stage' = [stage EXCEPT ![c] = s],
         UNCHANGED <<result, ran, attempts>>,
         \/ stage[c] = "unstarted" /\ s = "preparing"
         \/ stage[c] = "preparing" /\ s = "allowed"
         \/ stage[c] = "allowed" /\ s = "wrapper"
         \/ s \in {"settled", "rejected", "recorded"}
  PROVE  Told'
<1>1. stage'[c] = s /\ \A d \in Calls : d # c => stage'[d] = stage[d]
  BY DEF IInv, TypeOK
<1> SUFFICES ASSUME NEW d \in Calls
             PROVE  ToldOf(stage'[d], result[d], attempts[d], d \in ran)
  BY DEF Told
<1>2. ToldOf(stage[d], result[d], attempts[d], d \in ran)
  BY DEF Told
<1> QED BY <1>1, <1>2 DEF ToldOf

\* A slot that moves on, or not, with a new outcome for a body as it is.
LEMMA OutcomeTells ==
  ASSUME IInv, Told, NEW c \in Calls, NEW s, NEW r,
         stage' = [stage EXCEPT ![c] = s], result' = [result EXCEPT ![c] = r],
         UNCHANGED <<ran, attempts>>,
         s \in {"wrapper", "settled", "recorded"}, s = "wrapper" => r # "notDispatched",
         r = "notDispatched" => c \notin ran \/ r = result[c]
  PROVE  Told'
<1>1. /\ stage'[c] = s /\ \A d \in Calls : d # c => stage'[d] = stage[d]
      /\ result'[c] = r /\ \A d \in Calls : d # c => result'[d] = result[d]
  BY DEF IInv, TypeOK
<1> SUFFICES ASSUME NEW d \in Calls
             PROVE  ToldOf(stage'[d], result'[d], attempts[d], d \in ran)
  BY DEF Told
<1>2. ToldOf(stage[d], result[d], attempts[d], d \in ran)
  BY DEF Told
<1> QED BY <1>1, <1>2 DEF ToldOf

LEMMA OrCancelledTells ==
  ASSUME NEW c, NEW r, OrCancelled(c, r) = "notDispatched"
  PROVE  c \notin ran \/ r = "notDispatched"
BY DEF OrCancelled, Cancelled

LEMMA SchedulerTells ==
  ASSUME IInv, Told, Scheduler
  PROVE  Told'
<1> USE DEF groupVars, toolVars
<1>1. CASE NextGroup \/ Committed
  <2>1. UNCHANGED <<result, ran, attempts>>
    BY <1>1 DEF NextGroup, Committed
  <2>2. CASE stage' = stage
    BY <2>1, <2>2 DEF Told
  <2>3. CASE called < N /\ stage' = [stage EXCEPT ![called + 1] = "preparing"]
    <3>1. called + 1 \in Calls /\ called + 1 > called
      BY <2>3, SizesAssumption DEF IInv, TypeOK, Calls
    <3>2. stage[called + 1] = "unstarted"
      BY <3>1 DEF IInv, Slots
    <3> QED BY <2>1, <2>3, <3>1, <3>2, StageMoveTells
  <2>4. stage' = stage \/ (called < N /\ stage' = [stage EXCEPT ![called + 1] = "preparing"])
    <3>1. \A ab, b, m, k : b \in 0..(N - 1) /\ FillPool(ab, b, m, k) =>
            stage' = stage \/ (called < N /\ stage' = [stage EXCEPT ![called + 1] = "preparing"])
      BY SizesAssumption DEF FillPool, StartCall, HasRoom, GroupEnd, IInv, TypeOK
    <3>2. called < N => called \in 0..(N - 1)
      BY SizesAssumption DEF IInv, TypeOK
    <3> QED BY <1>1, <3>1, <3>2 DEF NextGroup, Committed, IInv, TypeOK
  <2> QED BY <2>2, <2>3, <2>4
<1>2. CASE PrepareSettles
  <2>1. CASE stage' = stage
    BY <1>2, <2>1 DEF PrepareSettles, Told
  <2>2. CASE stage[called] = "allowed" /\ stage' = [stage EXCEPT ![called] = "wrapper"]
    <3>1. called \in Calls
      BY <1>2, SizesAssumption DEF PrepareSettles, IInv, Slots, TypeOK, Calls
    <3> QED BY <1>2, <2>2, <3>1, StageMoveTells DEF PrepareSettles
  <2> QED BY <1>2, <2>1, <2>2 DEF PrepareSettles
<1>3. CASE CommitFinal
  BY <1>3, StageMoveTells DEF CommitFinal, Record
<1>4. CASE FinalizeSettles
  <2>1. PICK c \in Calls : \E r \in {result[c], "error"} :
           Record(c) /\ result' = [result EXCEPT ![c] = OrCancelled(c, r)]
    BY <1>4 DEF FinalizeSettles
  <2>2. PICK r \in {result[c], "error"} : result' = [result EXCEPT ![c] = OrCancelled(c, r)]
    BY <2>1
  <2>3. OrCancelled(c, r) = "notDispatched" =>
          c \notin ran \/ OrCancelled(c, r) = result[c]
    BY OrCancelledTells
  <2> QED BY <1>4, <2>1, <2>2, <2>3, OutcomeTells DEF FinalizeSettles, Record
<1>5. CASE SkipResult
  <2>1. called \in Calls
    BY <1>5, SizesAssumption DEF SkipResult, IInv, TypeOK, Order, Calls
  <2>2. stage[called] = "unstarted"
    BY <1>5, <2>1 DEF SkipResult, IInv, Slots
  <2>3. called \notin ran
    BY <2>1, <2>2 DEF Told, ToldOf
  <2> QED BY <1>5, <2>1, <2>3, OutcomeTells DEF SkipResult
<1>6. ASSUME UNCHANGED <<stage, result, ran, attempts>> PROVE Told'
  BY <1>6 DEF Told
<1> QED BY <1>1, <1>2, <1>3, <1>4, <1>5, <1>6
        DEF Scheduler, AllGroupsDone, Started, CommitAwaits, CommitReturns, FinalizeRejects,
            Race, Drain, SkipCall

LEMMA PipelineTells ==
  ASSUME IInv, Told, NEW c \in Calls, Pipeline(c)
  PROVE  Told'
<1> USE DEF schedulerVars, groupVars, toolVars
<1>1. CASE PrepareAllows(c) \/ PrepareRejects(c) \/ DispatchRejects(c)
  BY <1>1, StageMoveTells DEF PrepareAllows, PrepareRejects, DispatchRejects
<1>2. ASSUME NEW r \in {"error", "notDispatched"}, NEW post \in BOOLEAN,
             PrepareAnswers(c, r, post)
      PROVE  Told'
  <2>1. c \notin ran
    BY <1>2 DEF PrepareAnswers, Told, ToldOf
  <2> QED BY <1>2, <2>1, OutcomeTells DEF PrepareAnswers
<1>3. CASE CallNext(c)
  <2>1. /\ attempts'[c] = attempts[c] + 1
        /\ \A d \in Calls : d # c => attempts'[d] = attempts[d]
        /\ attempts[c] \in Nat /\ stage[c] = "wrapper"
    BY <1>3 DEF CallNext, IInv, TypeOK
  <2>2. \A d \in Calls : d # c =>
          stage'[d] = stage[d] /\ result'[d] = result[d] /\ (d \in ran' <=> d \in ran)
    BY <1>3 DEF CallNext, IInv, TypeOK
  <2>3. \/ stage'[c] = "wrapper" /\ (c \in ran' <=> c \in ran)
        \/ stage'[c] = "body" /\ c \in ran' /\ result'[c] = result[c]
    BY <1>3, <2>1 DEF CallNext, IInv, TypeOK
  <2> SUFFICES ASSUME NEW d \in Calls
               PROVE  ToldOf(stage'[d], result'[d], attempts'[d], d \in ran')
    BY DEF Told
  <2>4. ToldOf(stage[d], result[d], attempts[d], d \in ran)
    BY DEF Told
  <2>5. CASE d # c
    BY <2>1, <2>2, <2>4, <2>5 DEF ToldOf
  <2>6. CASE d = c
    BY <2>1, <2>3, <2>4, <2>6 DEF ToldOf
  <2> QED BY <2>5, <2>6
<1>4. CASE BodySettles(c)
  BY <1>4, OutcomeTells DEF BodySettles
<1>5. CASE DispatchSettles(c)
  <2>1. PICK r : result' = [result EXCEPT ![c] = r] /\
                 (r = "notDispatched" => c \notin ran \/ r = result[c])
    BY <1>5, OrCancelledTells DEF DispatchSettles
  <2> QED BY <1>5, <2>1, OutcomeTells DEF DispatchSettles
<1> QED BY <1>1, <1>2, <1>3, <1>4, <1>5 DEF Pipeline, Prepare, Dispatch

\* A result that says the call was aborted before dispatch is given to no call
\* whose body ran, unless its wrapper went on to retry.
THEOREM ResultsTellTruth == Spec => []NotDispatchedMeansNotRun
<1>1. IInv /\ Told /\ [Next]_vars => Told'
  <2>1. ASSUME UNCHANGED <<stage, result, ran, attempts>>, Told PROVE Told'
    BY <2>1 DEF Told
  <2> QED BY <2>1, SchedulerTells, PipelineTells
          DEF Next, Abort, vars, toolVars
<1>2. Told => NotDispatchedMeansNotRun
  BY DEF Told, ToldOf, NotDispatchedMeansNotRun
<1> QED BY <1>1, <1>2, InitTold, InductiveInvariant, PTL DEF Spec

-----------------------------------------------------------------------------
(* Refinement.                                                             *)

LEMMA SchedulerRefines ==
  ASSUME IInv, IInv', Scheduler
  PROVE  [Batch!Next]_(Batch!vars)
<1> USE DEF groupVars, toolVars, Batch!vars, Batch!Next
<1>1. called \in 0..N /\ called' \in 0..N /\ Len(results) \in Nat /\ pc' # "impossible"
  BY LenProperties, SizesAssumption DEF IInv, TypeOK, Pool
<1>2. CASE NextGroup \/ Committed
  <2>1. /\ pc \notin {"returned", "thrown", "impossible"} /\ results' = results
        /\ pc' \notin {"returned", "thrown", "impossible"}
    BY <1>1, <1>2 DEF NextGroup, Committed, FillPool, StartCall, EndGroup
  <2>2. called' = called \/ called' = called + 1
    BY <1>2 DEF NextGroup, Committed, FillPool, StartCall
  <2> QED BY <1>1, <2>1, <2>2, SizesAssumption DEF Batch!Call
<1>3. CASE AllGroupsDone
  <2>1. Len(results) = N
    BY <1>3 DEF AllGroupsDone, IInv, Order, Failed
  <2> QED BY <1>3, <2>1 DEF AllGroupsDone, Batch!Return
<1>4. CASE CommitFinal \/ FinalizeSettles
  <2>1. PICK c \in Calls : Ready(c) /\ Record(c)
    BY <1>4 DEF CommitFinal, FinalizeSettles
  <2>2. c = Len(results) + 1 /\ c <= called
    BY <1>4, <2>1, SizesAssumption
       DEF CommitFinal, FinalizeSettles, Ready, IInv, Order, Slots, Failed, TypeOK, Calls
  <2>3. results' = Append(results, Len(results) + 1) /\ Len(results) < called
    BY <1>1, <2>1, <2>2 DEF Record
  <2> QED BY <1>4, <2>1, <2>3 DEF CommitFinal, FinalizeSettles, Record, Batch!Answer
<1>5. CASE Drain
  BY <1>5 DEF Drain, Batch!Throw
<1>6. CASE SkipCall
  BY <1>6 DEF SkipCall, Batch!Call
<1>7. CASE SkipResult
  <2>1. called = Len(results) + 1
    BY <1>7 DEF SkipResult, IInv, Order, Failed
  <2> QED BY <1>1, <1>7, <2>1 DEF SkipResult, Batch!Answer
<1>8. CASE PrepareSettles \/ Started \/ CommitAwaits \/ CommitReturns \/ FinalizeRejects
           \/ \E c \in Calls : Race(c)
  BY <1>8 DEF PrepareSettles, Started, CommitAwaits, CommitReturns, FinalizeRejects, Race
<1> QED BY <1>2, <1>3, <1>4, <1>5, <1>6, <1>7, <1>8 DEF Scheduler

\* The scheduler does what ToolBatch promises the step, and its `unreachable'
\* branch is.
THEOREM Refinement == Spec => ImplementsToolBatch
<1>1. Init => Batch!Init
  BY DEF Init, Batch!Init
<1>2. IInv /\ IInv' /\ [Next]_vars => [Batch!Next]_(Batch!vars)
  <2>1. UNCHANGED <<pc, called, results>> => UNCHANGED Batch!vars
    BY DEF Batch!vars
  <2>2. ASSUME NEW c \in Calls, Pipeline(c) PROVE UNCHANGED <<pc, called, results>>
    BY <2>2 DEF Pipeline, Prepare, Dispatch, PrepareAllows, PrepareAnswers, PrepareRejects,
       CallNext, BodySettles, DispatchSettles, DispatchRejects, schedulerVars
  <2>3. Abort \/ UNCHANGED vars => UNCHANGED <<pc, called, results>>
    BY DEF Abort, vars, schedulerVars
  <2> QED BY <2>1, <2>2, <2>3, SchedulerRefines DEF Next
<1> QED BY <1>1, <1>2, InductiveInvariant, PTL DEF Spec, ImplementsToolBatch, Batch!Spec

=============================================================================
