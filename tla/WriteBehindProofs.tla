------------------------- MODULE WriteBehindProofs -------------------------
(***************************************************************************)
(* The write controller, for every number of callers and events: nothing   *)
(* is lost or reordered, a flush that succeeds means durable, writes never *)
(* overlap, nothing is stranded, and the controller implements DurableLog. *)
(***************************************************************************)
EXTENDS WriteBehind, SequenceTheorems, TLAPS

-----------------------------------------------------------------------------
(* Sequences *)

LEMMA FirstEventsSeq ==
  ASSUME NEW n \in Nat
  PROVE  FirstEvents(n) \in Seq(Nat) /\ Len(FirstEvents(n)) = n
BY DEF FirstEvents

\* A new event extends the accepted ones.
LEMMA FirstEventsAppend ==
  ASSUME NEW n \in Nat
  PROVE  Append(FirstEvents(n), n + 1) = FirstEvents(n + 1)
BY DEF FirstEvents

\* A prefix of the accepted events is the events up to its length.
LEMMA PrefixOfFirst ==
  ASSUME NEW n \in Nat, NEW s \in Seq(Nat), NEW t \in Seq(Nat),
         s \o t = FirstEvents(n)
  PROVE  s = FirstEvents(Len(s)) /\ Len(s) \in 0 .. n
<1>1. Len(s) + Len(t) = n /\ Len(s) \in Nat /\ Len(t) \in Nat
  BY FirstEventsSeq, ConcatProperties, LenProperties
<1>2. \A i \in 1 .. Len(s) : s[i] = i
  <2> SUFFICES ASSUME NEW i \in 1 .. Len(s) PROVE s[i] = i
    OBVIOUS
  <2>1. (s \o t)[i] = s[i]
    BY <1>1, ConcatProperties
  <2>2. FirstEvents(n)[i] = i
    BY <1>1 DEF FirstEvents
  <2> QED BY <2>1, <2>2
<1>3. FirstEvents(Len(s)) \in Seq(Nat) /\ Len(FirstEvents(Len(s))) = Len(s)
  BY <1>1, FirstEventsSeq
<1>4. \A i \in 1 .. Len(s) : s[i] = FirstEvents(Len(s))[i]
  BY <1>1, <1>2 DEF FirstEvents
<1>5. s = FirstEvents(Len(s))
  BY <1>3, <1>4, SeqEqual
<1> QED BY <1>1, <1>5

LEMMA RegroupParts ==
  ASSUME NEW s \in Seq(Nat), NEW t \in Seq(Nat), NEW u \in Seq(Nat)
  PROVE  (s \o t) \o u = s \o (t \o u)
BY ConcatAssociative

\* The first of three parts that make up the accepted events is a prefix.
LEMMA FirstPartIsPrefix ==
  ASSUME NEW n \in Nat, NEW s \in Seq(Nat), NEW t \in Seq(Nat), NEW u \in Seq(Nat),
         (s \o t) \o u = FirstEvents(n)
  PROVE  s = FirstEvents(Len(s)) /\ Len(s) \in 0 .. n
<1>1. (s \o t) \o u = s \o (t \o u)
  BY RegroupParts
<1>2. t \o u \in Seq(Nat)
  BY ConcatProperties
<1> QED BY <1>1, <1>2, PrefixOfFirst

-----------------------------------------------------------------------------
(* Types *)

LEMMA InitTypes == Init => TypeOK
<1> SUFFICES ASSUME Init PROVE TypeOK
  OBVIOUS
<1>1. <<>> \in Seq(Nat)
  BY EmptySeq
<1>2. outcome \in [Callers -> Outcomes] /\ want \in [Callers -> Nat]
  BY DEF Init, Outcomes
<1>3. accepted \in 0 .. MaxEvents
  BY WriteBehindAssumption DEF Init
<1>4. stored \in Seq(Nat) /\ pending \in Seq(Nat) /\ batch \in Seq(Nat)
  BY <1>1 DEF Init
<1> QED BY <1>2, <1>3, <1>4 DEF Init, TypeOK, Actives, Barriers

LEMMA StartWriteTypes ==
  ASSUME TypeOK, NEW b \in BOOLEAN, StartWrite(b)
  PROVE  /\ pending' \in Seq(Nat) /\ batch' \in Seq(Nat)
         /\ timer' \in BOOLEAN /\ deadlineExpired' \in BOOLEAN
         /\ active' \in Actives /\ background' \in BOOLEAN
BY EmptySeq DEF TypeOK, StartWrite, Actives

LEMMA NextTypes == TypeOK /\ [Next]_vars => TypeOK'
<1> SUFFICES ASSUME TypeOK, [Next]_vars PROVE TypeOK'
  OBVIOUS
<1> USE DEF queue, write, callers
<1>1. CASE Enqueue
  <2>1. Append(pending, accepted + 1) \in Seq(Nat)
    BY AppendProperties, WriteBehindAssumption DEF TypeOK
  <2>2. accepted + 1 \in 0 .. MaxEvents
    BY <1>1, WriteBehindAssumption DEF Enqueue, TypeOK
  <2>3. timer' \in BOOLEAN
    BY <1>1 DEF Enqueue, TypeOK
  <2>4. automaticPaused' \in BOOLEAN /\ deadlineExpired' \in BOOLEAN
    BY <1>1 DEF Enqueue, TypeOK
  <2> QED BY <1>1, <2>1, <2>2, <2>3, <2>4 DEF Enqueue, TypeOK
<1>2. ASSUME NEW c \in Callers, CancelAutomaticWait(c) PROVE TypeOK'
  BY <1>2 DEF CancelAutomaticWait, TypeOK
<1>3. ASSUME NEW c \in Callers, Flush(c) PROVE TypeOK'
  <2> DEFINE waiters == [outcome EXCEPT ![c] = "waiting"]
  <2>1. waiters \in [Callers -> Outcomes] /\ want' \in [Callers -> Nat]
    BY <1>3, WriteBehindAssumption DEF Flush, TypeOK, Outcomes
  <2>2. asking' \in SUBSET Callers /\ UNCHANGED <<accepted, stored, continuation>>
    BY <1>3 DEF Flush, TypeOK
  <2>3. CASE barrier # "none"
    BY <1>3, <2>1, <2>2, <2>3 DEF Flush, TypeOK
  <2>4. CASE barrier = "none" /\ active # "none"
    BY <1>3, <2>1, <2>2, <2>4 DEF Flush, TypeOK, Barriers
  <2>5. CASE barrier = "none" /\ DrainWrites(waiters)
    BY <1>3, <2>1, <2>2, <2>5, StartWriteTypes
       DEF Flush, DrainWrites, TypeOK, Barriers
  <2>6. CASE barrier = "none" /\ DrainEnds(waiters)
    <3>1. outcome' \in [Callers -> Outcomes]
      BY <2>1, <2>6 DEF DrainEnds, Outcomes
    <3> QED BY <1>3, <2>1, <2>2, <2>6, <3>1 DEF Flush, DrainEnds, TypeOK, Barriers
  <2> QED BY <1>3, <2>3, <2>4, <2>5, <2>6 DEF Flush
<1>4. CASE WriteStored
  BY <1>4, ConcatProperties, EmptySeq DEF WriteStored, TypeOK, Actives
<1>5. CASE WriteRefused
  BY <1>5, ConcatProperties, EmptySeq DEF WriteRefused, TypeOK, Actives
<1>6. CASE Finally
  <2>1. continuation' \in BOOLEAN
    BY <1>6 DEF Finally, TypeOK
  <2>2. barrier' \in Barriers
    BY <1>6 DEF Finally, TypeOK, Barriers
  <2> QED BY <1>6, <2>1, <2>2 DEF Finally, TypeOK, Actives
<1>7. CASE ContinueAutomatic
  BY <1>7, StartWriteTypes DEF ContinueAutomatic, TypeOK
<1>8. CASE OnDeadline
  BY <1>8, StartWriteTypes DEF OnDeadline, TypeOK
<1>9. CASE DrainResumes
  <2>1. CASE DrainWrites(outcome)
    BY <1>9, <2>1, StartWriteTypes
       DEF DrainResumes, DrainLoops, DrainWrites, TypeOK, Barriers
  <2>2. CASE DrainEnds(outcome) /\ UNCHANGED <<timer, deadlineExpired>>
    <3>1. outcome' \in [Callers -> Outcomes]
      BY <2>2 DEF DrainEnds, TypeOK, Outcomes
    <3> QED BY <1>9, <2>2, <3>1 DEF DrainResumes, DrainEnds, TypeOK, Barriers
  <2>3. CASE barrier = "writeFailed"
    <3>1. outcome' \in [Callers -> Outcomes]
      BY <1>9, <2>3 DEF DrainResumes, Settled, TypeOK, Outcomes
    <3> QED BY <1>9, <2>3, <3>1 DEF DrainResumes, TypeOK, Barriers
  <2> QED BY <1>9, <2>1, <2>2, <2>3 DEF DrainResumes, DrainLoops
<1>10. CASE UNCHANGED vars
  BY <1>10 DEF vars, TypeOK
<1> QED BY <1>1, <1>2, <1>3, <1>4, <1>5, <1>6, <1>7, <1>8, <1>9, <1>10
       DEF Next, WriteSettles

\* The controller's state keeps its types.
THEOREM TypeCorrect == Spec => []TypeOK
BY InitTypes, NextTypes, PTL DEF Spec

-----------------------------------------------------------------------------
(* The barrier and the write *)

LEMMA InitTracks == Init => BarrierTracksWrite
BY DEF Init, BarrierTracksWrite, Waiting

\* A write is started only on a free slot and a non-empty queue.
LEMMA StartWriteTracks ==
  ASSUME TypeOK, BarrierTracksWrite, NEW b \in BOOLEAN, StartWrite(b),
         active = "none", pending # <<>>, want' = want, accepted' = accepted,
         asking' \cap Waiting' = {},
         \/ /\ b = TRUE /\ barrier = "none" /\ UNCHANGED <<barrier, outcome>>
            /\ continuation' = FALSE
         \/ /\ b = FALSE /\ barrier' = "write"
  PROVE  BarrierTracksWrite'
BY DEF TypeOK, BarrierTracksWrite, StartWrite, Waiting

LEMMA NextTracks ==
  ASSUME TypeOK, BarrierTracksWrite, TimerHasWork, [Next]_vars
  PROVE  BarrierTracksWrite'
<1> USE DEF queue, write, callers
<1> DEFINE Wanted == \A c \in Callers : want[c] <= accepted
<1>w. Wanted /\ accepted \in Nat
  BY WriteBehindAssumption DEF BarrierTracksWrite, TypeOK
<1>1. CASE Enqueue
  <2>1. \A c \in Callers : want'[c] <= accepted'
    BY <1>1, <1>w DEF Enqueue, TypeOK
  <2>2. active = "retained" => ~deadlineExpired'
    BY <1>1 DEF Enqueue, BarrierTracksWrite
  <2>3. barrier # "none" => automaticPaused' = automaticPaused
    BY <1>1 DEF Enqueue
  <2> QED BY <1>1, <2>1, <2>2, <2>3 DEF Enqueue, BarrierTracksWrite, Waiting
<1>2. ASSUME NEW c \in Callers, CancelAutomaticWait(c) PROVE BarrierTracksWrite'
  BY <1>2 DEF CancelAutomaticWait, BarrierTracksWrite, Waiting
<1>3. ASSUME NEW c \in Callers, Flush(c) PROVE BarrierTracksWrite'
  <2> DEFINE waiters == [outcome EXCEPT ![c] = "waiting"]
  <2>1. \A d \in Callers : want'[d] <= accepted'
    BY <1>3, <1>w DEF Flush, TypeOK
  <2>a. outcome' = waiters => asking' \cap Waiting' = {}
    BY <1>3 DEF Flush, BarrierTracksWrite, Waiting, TypeOK
  <2>2. CASE barrier # "none"
    <3>1. outcome' = waiters
      BY <1>3, <2>2 DEF Flush
    <3> QED BY <1>3, <2>1, <2>2, <2>a, <3>1 DEF Flush, BarrierTracksWrite
  <2>3. CASE barrier = "none" /\ active # "none"
    <3>1. /\ barrier' = "overlap" /\ active' = active /\ batch' = batch
          /\ background' = background /\ deadlineExpired' = FALSE
          /\ continuation' = continuation
      BY <1>3, <2>3 DEF Flush
    <3>2. background /\ ~continuation
      BY <2>3 DEF BarrierTracksWrite
    <3>3. active' = "writing" <=> batch' # <<>>
      BY <3>1 DEF BarrierTracksWrite
    <3>4. asking' \cap Waiting' = {}
      BY <1>3, <2>3, <2>a DEF Flush
    <3> QED BY <2>1, <2>3, <3>1, <3>2, <3>3, <3>4 DEF BarrierTracksWrite
  <2>4. CASE barrier = "none" /\ active = "none" /\ DrainWrites(waiters)
    BY <1>3, <2>1, <2>4, <2>a DEF Flush, DrainWrites, StartWrite, BarrierTracksWrite
  <2>5. CASE barrier = "none" /\ active = "none" /\ DrainEnds(waiters)
    <3>1. Waiting' = {}
      BY <2>5 DEF DrainEnds, Waiting
    <3> QED BY <1>3, <2>1, <2>5, <3>1 DEF Flush, DrainEnds, BarrierTracksWrite
  <2> QED BY <1>3, <2>2, <2>3, <2>4, <2>5 DEF Flush
<1>4. CASE WriteStored
  BY <1>4 DEF WriteStored, BarrierTracksWrite, Waiting
<1>5. CASE WriteRefused
  BY <1>5 DEF WriteRefused, BarrierTracksWrite, Waiting
<1>6. CASE Finally
  <2>1. continuation' => active' = "none"
    BY <1>6 DEF Finally
  <2>2. batch' = <<>>
    BY <1>6 DEF Finally, BarrierTracksWrite
  <2>3. barrier' = "writeFailed" => automaticPaused'
    BY <1>6 DEF Finally, BarrierTracksWrite
  <2>4. barrier' = "none" => Waiting' = {}
    BY <1>6 DEF Finally, BarrierTracksWrite, Waiting
  <2>5. barrier' \notin {"overlap", "write"}
    BY <1>6 DEF Finally
  <2>6. asking' \cap Waiting' = {}
    BY <1>6 DEF Finally, BarrierTracksWrite, Waiting
  <2> QED BY <1>6, <2>1, <2>2, <2>3, <2>4, <2>5, <2>6 DEF Finally, BarrierTracksWrite
<1>7. CASE ContinueAutomatic
  <2>1. CASE barrier = "none" /\ pending # <<>> /\ deadlineExpired /\ StartWrite(TRUE)
    <3>1. active = "none"
      BY <1>7, <2>1 DEF ContinueAutomatic, BarrierTracksWrite
    <3>2. asking' \cap Waiting' = {}
      BY <1>7 DEF ContinueAutomatic, BarrierTracksWrite, Waiting
    <3> QED BY <1>7, <2>1, <3>1, <3>2, StartWriteTracks DEF ContinueAutomatic
  <2>2. CASE UNCHANGED <<queue, write>>
    BY <1>7, <2>2 DEF ContinueAutomatic, BarrierTracksWrite, Waiting
  <2> QED BY <1>7, <2>1, <2>2 DEF ContinueAutomatic
<1>8. CASE OnDeadline
  <2>1. pending # <<>> /\ barrier = "none" /\ continuation = FALSE
    BY <1>8 DEF OnDeadline, TimerHasWork, JobsDone, TypeOK
  <2>2. CASE active = "none" /\ StartWrite(TRUE)
    <3>1. asking' \cap Waiting' = {}
      BY <1>8 DEF OnDeadline, BarrierTracksWrite, Waiting
    <3> QED BY <1>8, <2>1, <2>2, <3>1, StartWriteTracks DEF OnDeadline
  <2>3. CASE active # "none" /\ UNCHANGED <<pending, write>>
    BY <1>8, <2>1, <2>3 DEF OnDeadline, JobsDone, BarrierTracksWrite, Waiting
  <2> QED BY <1>8, <2>2, <2>3 DEF OnDeadline
<1>9. CASE DrainResumes
  <2>1. active = "none"
    BY <1>9 DEF DrainResumes, BarrierTracksWrite
  <2>2. CASE DrainWrites(outcome)
    <3>1. asking' \cap Waiting' = {}
      BY <1>9, <2>2 DEF DrainResumes, DrainWrites, BarrierTracksWrite, Waiting
    <3> QED BY <1>9, <2>1, <2>2, <3>1, StartWriteTracks DEF DrainResumes, DrainWrites
  <2>3. CASE DrainEnds(outcome)
    <3>1. Waiting' = {}
      BY <2>3 DEF DrainEnds, Waiting
    <3> QED BY <1>9, <2>1, <2>3, <3>1 DEF DrainResumes, DrainEnds, BarrierTracksWrite
  <2>4. CASE barrier = "writeFailed" /\ barrier' = "none"
                /\ outcome' = Settled("failed") /\ UNCHANGED <<queue, write>>
    <3>1. Waiting' = {}
      BY <2>4 DEF Settled, Waiting
    <3> QED BY <1>9, <2>1, <2>4, <3>1 DEF DrainResumes, BarrierTracksWrite
  <2> QED BY <1>9, <2>2, <2>3, <2>4 DEF DrainResumes, DrainLoops
<1>10. CASE UNCHANGED vars
  BY <1>10 DEF vars, BarrierTracksWrite, Waiting
<1> QED BY <1>1, <1>2, <1>3, <1>4, <1>5, <1>6, <1>7, <1>8, <1>9, <1>10
       DEF Next, WriteSettles

-----------------------------------------------------------------------------
(* The deadline *)

LEMMA NextTimer ==
  ASSUME TypeOK, TimerHasWork, [Next]_vars
  PROVE  TimerHasWork'
<1> USE DEF queue, write, callers
<1>1. CASE Enqueue
  <2>1. pending' # <<>>
    BY <1>1, AppendProperties, WriteBehindAssumption DEF Enqueue, TypeOK
  <2>2. timer' => barrier = "none" /\ barrier' = "none"
    BY <1>1 DEF Enqueue, OpensWindow, TimerHasWork
  <2>3. barrier = "none" => ~automaticPaused'
    BY <1>1 DEF Enqueue
  <2> QED BY <2>1, <2>2, <2>3 DEF TimerHasWork
<1>2. ASSUME NEW c \in Callers, CancelAutomaticWait(c) PROVE TimerHasWork'
  BY <1>2 DEF CancelAutomaticWait, TimerHasWork
<1>3. ASSUME NEW c \in Callers, Flush(c) PROVE TimerHasWork'
  BY <1>3 DEF Flush, TimerHasWork
<1>4. CASE WriteStored
  BY <1>4 DEF WriteStored, TimerHasWork
<1>5. CASE WriteRefused
  BY <1>5 DEF WriteRefused, TimerHasWork
<1>6. CASE Finally
  BY <1>6 DEF Finally, TimerHasWork
<1>7. CASE ContinueAutomatic
  BY <1>7 DEF ContinueAutomatic, StartWrite, TimerHasWork
<1>8. CASE OnDeadline
  BY <1>8 DEF OnDeadline, StartWrite, TimerHasWork
<1>9. CASE DrainResumes
  BY <1>9 DEF DrainResumes, DrainLoops, DrainWrites, DrainEnds, StartWrite, TimerHasWork
<1>10. CASE UNCHANGED vars
  BY <1>10 DEF vars, TimerHasWork
<1> QED BY <1>1, <1>2, <1>3, <1>4, <1>5, <1>6, <1>7, <1>8, <1>9, <1>10
       DEF Next, WriteSettles

-----------------------------------------------------------------------------
(* Nobody is stranded *)

LEMMA NextStranded ==
  ASSUME TypeOK, BarrierTracksWrite, TimerHasWork, NeverStranded, [Next]_vars
  PROVE  NeverStranded'
<1> USE DEF queue, write, callers
<1>1. CASE Enqueue
  BY <1>1 DEF Enqueue, OpensWindow, NeverStranded
<1>2. ASSUME NEW c \in Callers, CancelAutomaticWait(c) PROVE NeverStranded'
  BY <1>2 DEF CancelAutomaticWait, NeverStranded
<1>3. ASSUME NEW c \in Callers, Flush(c) PROVE NeverStranded'
  BY <1>3 DEF Flush, DrainWrites, DrainEnds, StartWrite, NeverStranded
<1>4. CASE WriteStored
  BY <1>4 DEF WriteStored, NeverStranded
<1>5. CASE WriteRefused
  BY <1>5 DEF WriteRefused, NeverStranded
<1>6. CASE Finally
  <2>1. CASE active = "stored" /\ background
    BY <1>6, <2>1 DEF Finally, NeverStranded
  <2>2. CASE active = "retained" \/ ~background
    BY <1>6, <2>2 DEF Finally, NeverStranded, BarrierTracksWrite
  <2> QED BY <1>6, <2>1, <2>2 DEF Finally
<1>7. CASE ContinueAutomatic
  BY <1>7 DEF ContinueAutomatic, StartWrite, NeverStranded
<1>8. CASE OnDeadline
  BY <1>8 DEF OnDeadline, StartWrite, NeverStranded
<1>9. CASE DrainResumes
  BY <1>9 DEF DrainResumes, DrainLoops, DrainWrites, DrainEnds, StartWrite,
              NeverStranded, BarrierTracksWrite
<1>10. CASE UNCHANGED vars
  BY <1>10 DEF vars, NeverStranded
<1> QED BY <1>1, <1>2, <1>3, <1>4, <1>5, <1>6, <1>7, <1>8, <1>9, <1>10
       DEF Next, WriteSettles

-----------------------------------------------------------------------------
(* Nothing is lost, duplicated or reordered *)

\* Moving the seam between two adjacent parts leaves the whole as it was.
LEMMA StartWriteConserves ==
  ASSUME TypeOK, Conserved, NEW b \in BOOLEAN, StartWrite(b),
         active # "writing", accepted' = accepted, stored' = stored
  PROVE  Conserved'
<1>1. InFlight = <<>> /\ InFlight' = pending /\ pending' = <<>>
  BY DEF StartWrite, InFlight
<1>2. pending \in Seq(Nat) /\ stored \in Seq(Nat)
  BY DEF TypeOK
<1>3. stored \o <<>> = stored /\ stored \o pending \in Seq(Nat)
  BY <1>2, ConcatEmptySeq, ConcatProperties
<1>4. (stored \o pending) \o <<>> = stored \o pending
  BY <1>3, ConcatEmptySeq
<1> QED BY <1>1, <1>3, <1>4 DEF Conserved

LEMMA NextConserves ==
  ASSUME TypeOK, BarrierTracksWrite, Conserved, [Next]_vars
  PROVE  Conserved'
<1> USE DEF queue, write, callers
<1>t. /\ stored \in Seq(Nat) /\ pending \in Seq(Nat) /\ batch \in Seq(Nat)
      /\ InFlight \in Seq(Nat) /\ accepted \in Nat
  BY EmptySeq, WriteBehindAssumption DEF TypeOK, InFlight
<1>1. CASE Enqueue
  <2>1. InFlight' = InFlight /\ stored' = stored /\ accepted' = accepted + 1
    BY <1>1 DEF Enqueue, InFlight
  <2>2. pending' = pending \o <<accepted + 1>>
    BY <1>1, <1>t, AppendIsConcat DEF Enqueue
  <2>3. stored \o InFlight \in Seq(Nat) /\ <<accepted + 1>> \in Seq(Nat)
    BY <1>t, ConcatProperties
  <2>a. (stored \o InFlight) \o (pending \o <<accepted + 1>>)
          = ((stored \o InFlight) \o pending) \o <<accepted + 1>>
    BY <1>t, <2>3, RegroupParts
  <2>4. (stored \o InFlight) \o (pending \o <<accepted + 1>>)
          = FirstEvents(accepted) \o <<accepted + 1>>
    BY <2>a DEF Conserved
  <2>5. FirstEvents(accepted) \o <<accepted + 1>> = FirstEvents(accepted + 1)
    <3>1. Append(FirstEvents(accepted), accepted + 1)
            = FirstEvents(accepted) \o <<accepted + 1>>
      <4>1. FirstEvents(accepted) \in Seq(Nat) /\ accepted + 1 \in Nat
        BY <1>t, FirstEventsSeq
      <4> QED BY <4>1, AppendIsConcat
    <3> QED BY <1>t, <3>1, FirstEventsAppend
  <2> QED BY <2>1, <2>2, <2>4, <2>5 DEF Conserved
<1>2. ASSUME NEW c \in Callers, CancelAutomaticWait(c) PROVE Conserved'
  BY <1>2 DEF CancelAutomaticWait, Conserved, InFlight
<1>3. ASSUME NEW c \in Callers, Flush(c) PROVE Conserved'
  <2> DEFINE waiters == [outcome EXCEPT ![c] = "waiting"]
  <2>1. CASE UNCHANGED <<pending, write>>
    BY <1>3, <2>1 DEF Flush, Conserved, InFlight
  <2>2. CASE active = "none" /\ DrainWrites(waiters)
    BY <1>3, <2>2, StartWriteConserves DEF Flush, DrainWrites
  <2>3. CASE DrainEnds(waiters)
    BY <1>3, <2>3 DEF Flush, DrainEnds, Conserved, InFlight
  <2> QED BY <1>3, <2>1, <2>2, <2>3 DEF Flush
<1>4. CASE WriteStored
  <2>1. InFlight = batch /\ InFlight' = <<>> /\ pending' = pending
        /\ stored' = stored \o batch /\ accepted' = accepted
    BY <1>4 DEF WriteStored, InFlight
  <2>2. (stored \o batch) \o <<>> = stored \o batch
    BY <1>t, ConcatProperties, ConcatEmptySeq
  <2> QED BY <2>1, <2>2 DEF Conserved
<1>5. CASE WriteRefused
  <2>1. InFlight = batch /\ InFlight' = <<>> /\ pending' = batch \o pending
        /\ stored' = stored /\ accepted' = accepted
    BY <1>5 DEF WriteRefused, InFlight
  <2>2. stored \o <<>> = stored
    BY <1>t, ConcatEmptySeq
  <2>3. stored \o (batch \o pending) = (stored \o batch) \o pending
    BY <1>t, RegroupParts
  <2> QED BY <2>1, <2>2, <2>3 DEF Conserved
<1>6. CASE Finally
  BY <1>6 DEF Finally, Conserved, InFlight
<1>7. CASE ContinueAutomatic
  <2>1. CASE barrier = "none" /\ StartWrite(TRUE)
    BY <1>7, <2>1, StartWriteConserves DEF ContinueAutomatic, BarrierTracksWrite
  <2>2. CASE UNCHANGED <<queue, write>>
    BY <1>7, <2>2 DEF ContinueAutomatic, Conserved, InFlight
  <2> QED BY <1>7, <2>1, <2>2 DEF ContinueAutomatic
<1>8. CASE OnDeadline
  <2>1. CASE active = "none" /\ StartWrite(TRUE)
    BY <1>8, <2>1, StartWriteConserves DEF OnDeadline
  <2>2. CASE UNCHANGED <<pending, write>>
    BY <1>8, <2>2 DEF OnDeadline, Conserved, InFlight
  <2> QED BY <1>8, <2>1, <2>2 DEF OnDeadline
<1>9. CASE DrainResumes
  <2>1. active = "none"
    BY <1>9 DEF DrainResumes, BarrierTracksWrite
  <2>2. CASE DrainWrites(outcome)
    BY <1>9, <2>1, <2>2, StartWriteConserves DEF DrainResumes, DrainWrites
  <2>3. CASE UNCHANGED <<pending, write>>
    BY <1>9, <2>3 DEF DrainResumes, Conserved, InFlight
  <2> QED BY <1>9, <2>2, <2>3 DEF DrainResumes, DrainLoops, DrainEnds
<1>10. CASE UNCHANGED vars
  BY <1>10 DEF vars, Conserved, InFlight
<1> QED BY <1>1, <1>2, <1>3, <1>4, <1>5, <1>6, <1>7, <1>8, <1>9, <1>10
       DEF Next, WriteSettles

-----------------------------------------------------------------------------
(* The inductive invariant *)

IInv == /\ TypeOK /\ BarrierTracksWrite /\ TimerHasWork
        /\ NeverStranded /\ Conserved

LEMMA InitInv == Init => IInv
<1> SUFFICES ASSUME Init PROVE IInv
  OBVIOUS
<1>1. TimerHasWork /\ NeverStranded
  BY DEF Init, TimerHasWork, NeverStranded
<1>2. Conserved
  <2>1. FirstEvents(0) = <<>>
    BY DEF FirstEvents
  <2>2. <<>> \o <<>> = <<>>
    BY EmptySeq, ConcatEmptySeq
  <2> QED BY <2>1, <2>2 DEF Init, Conserved, InFlight
<1> QED BY <1>1, <1>2, InitTypes, InitTracks DEF IInv

LEMMA NextInv == IInv /\ [Next]_vars => IInv'
BY NextTypes, NextTracks, NextTimer, NextStranded, NextConserves DEF IInv

THEOREM InductiveInvariant == Spec => []IInv
BY InitInv, NextInv, PTL DEF Spec

\* Every accepted event is durable, in the batch being written, or queued:
\* once, and in its order.
THEOREM EventsConserved == Spec => []Conserved
<1>1. IInv => Conserved
  BY DEF IInv
<1> QED BY <1>1, InductiveInvariant, PTL

\* A queued event always has someone who will write it.
THEOREM NobodyStranded == Spec => []NeverStranded
<1>1. IInv => NeverStranded
  BY DEF IInv
<1> QED BY <1>1, InductiveInvariant, PTL

\* The barrier, the write and the continuation are never out of step.
THEOREM BarrierInStep == Spec => []BarrierTracksWrite
<1>1. IInv => BarrierTracksWrite
  BY DEF IInv
<1> QED BY <1>1, InductiveInvariant, PTL

-----------------------------------------------------------------------------
(* Steps *)

\* What an empty queue and a free slot mean.
LEMMA QuiescentIsDurable ==
  ASSUME IInv, active = "none", pending = <<>>
  PROVE  stored = FirstEvents(accepted) /\ Len(stored) = accepted
<1>1. stored \in Seq(Nat) /\ accepted \in Nat
  BY WriteBehindAssumption DEF IInv, TypeOK
<1>2. (stored \o <<>>) \o <<>> = stored
  BY <1>1, ConcatEmptySeq
<1> QED BY <1>1, <1>2, FirstEventsSeq DEF IInv, Conserved, InFlight

\* A flush resolves only in the job that found the slot free and the queue
\* empty, and then everything accepted is durable.
LEMMA FlushStep ==
  ASSUME IInv, [Next]_vars, NEW c \in Callers, outcome[c] # "ok", outcome'[c] = "ok"
  PROVE  want'[c] <= Len(stored)
<1> USE DEF queue, write, callers
<1>1. want[c] <= accepted /\ accepted \in Nat
  BY WriteBehindAssumption DEF IInv, BarrierTracksWrite, TypeOK
<1>2. ASSUME NEW d \in Callers, Flush(d) PROVE want'[c] <= Len(stored)
  <2> DEFINE waiters == [outcome EXCEPT ![d] = "waiting"]
  <2>1. outcome' # waiters
    BY DEF IInv, TypeOK
  <2>2. active = "none" /\ DrainEnds(waiters)
    BY <1>2, <2>1 DEF Flush, DrainWrites
  <2>3. Len(stored) = accepted
    BY <2>2, QuiescentIsDurable DEF DrainEnds
  <2>4. want'[c] <= accepted
    BY <1>1, <1>2 DEF Flush, IInv, TypeOK
  <2> QED BY <2>3, <2>4
<1>3. CASE DrainResumes
  <2>1. active = "none" /\ want' = want
    BY <1>3 DEF DrainResumes, IInv, BarrierTracksWrite
  <2>2. DrainEnds(outcome)
    BY <1>3 DEF DrainResumes, DrainLoops, DrainWrites, Settled
  <2>3. Len(stored) = accepted
    BY <2>1, <2>2, QuiescentIsDurable DEF DrainEnds
  <2> QED BY <1>1, <2>1, <2>3
<1>4. outcome' = outcome \/ DrainResumes \/ \E d \in Callers : Flush(d)
  BY DEF Next, WriteSettles, WriteStored, WriteRefused, Enqueue,
         CancelAutomaticWait, Finally, ContinueAutomatic, OnDeadline, vars
<1> QED BY <1>2, <1>3, <1>4

\* Whoever is told that a flush succeeded finds everything accepted before
\* the call durable.
THEOREM FlushIsDurable == Spec => FlushMeansDurable
<1>1. IInv /\ [Next]_vars =>
        [\A c \in Callers :
           outcome[c] # "ok" /\ outcome'[c] = "ok" => want'[c] <= Len(stored)]_vars
  BY FlushStep
<1> QED BY <1>1, InductiveInvariant, PTL DEF Spec, FlushMeansDurable

\* At most one batch is being written.
THEOREM OneWriteAtATime == Spec => WritesNeverOverlap
<1>1. ASSUME IInv, [Next]_vars, active' = "writing", batch' # batch
      PROVE  active = "none"
  <2> USE DEF queue, write, callers
  <2>1. CASE ContinueAutomatic
    BY <1>1, <2>1 DEF ContinueAutomatic, IInv, BarrierTracksWrite
  <2>2. CASE DrainResumes
    BY <2>2, <1>1 DEF DrainResumes, IInv, BarrierTracksWrite
  <2>3. CASE OnDeadline
    BY <1>1, <2>3 DEF OnDeadline
  <2>4. ASSUME NEW c \in Callers, Flush(c) PROVE active = "none"
    BY <1>1, <2>4 DEF Flush
  <2> QED BY <1>1, <2>1, <2>2, <2>3, <2>4
          DEF Next, WriteSettles, WriteStored, WriteRefused, Enqueue,
              CancelAutomaticWait, Finally, vars
<1>2. IInv /\ [Next]_vars =>
        [active' = "writing" /\ batch' # batch => active = "none"]_vars
  BY <1>1
<1> QED BY <1>2, InductiveInvariant, PTL DEF Spec, WritesNeverOverlap

-----------------------------------------------------------------------------
(* The pause after a refusal *)

\* A pause and an expired deadline never stand together: the refusal spends
\* the deadline, a timer is armed only once the pause is over, and the event
\* that ends the pause clears both.
PauseSpendsDeadline == automaticPaused => ~deadlineExpired

LEMMA NextPause ==
  ASSUME IInv, PauseSpendsDeadline, [Next]_vars
  PROVE  PauseSpendsDeadline'
<1> USE DEF queue, write, callers, PauseSpendsDeadline
<1>1. CASE Enqueue
  BY <1>1 DEF Enqueue
<1>2. ASSUME NEW c \in Callers, CancelAutomaticWait(c) PROVE PauseSpendsDeadline'
  BY <1>2 DEF CancelAutomaticWait
<1>3. ASSUME NEW c \in Callers, Flush(c) PROVE PauseSpendsDeadline'
  BY <1>3 DEF Flush
<1>4. CASE WriteSettles \/ Finally
  BY <1>4 DEF WriteSettles, WriteStored, WriteRefused, Finally
<1>5. CASE ContinueAutomatic
  BY <1>5 DEF ContinueAutomatic, StartWrite
<1>6. CASE OnDeadline
  BY <1>6 DEF OnDeadline, IInv, TimerHasWork
<1>7. CASE DrainResumes
  BY <1>7 DEF DrainResumes, DrainLoops, DrainWrites, DrainEnds, StartWrite
<1>8. CASE UNCHANGED vars
  BY <1>8 DEF vars
<1> QED BY <1>1, <1>2, <1>3, <1>4, <1>5, <1>6, <1>7, <1>8 DEF Next

\* During a pause only a barrier starts a write: the deadline is not armed and
\* has not expired, so neither automatic path is open.
LEMMA PauseStep ==
  ASSUME IInv, PauseSpendsDeadline, [Next]_vars,
         automaticPaused, active = "none", active' = "writing"
  PROVE  ~background'
<1> USE DEF queue, write, callers, StartWrite
<1>1. ~OnDeadline
  BY DEF OnDeadline, IInv, TimerHasWork
<1>2. ~ContinueAutomatic
  BY DEF ContinueAutomatic, PauseSpendsDeadline
<1>3. ASSUME NEW c \in Callers, Flush(c) PROVE ~background'
  BY <1>3 DEF Flush, DrainWrites, DrainEnds
<1>4. CASE DrainResumes
  BY <1>4 DEF DrainResumes, DrainLoops, DrainWrites, DrainEnds
<1> QED BY <1>1, <1>2, <1>3, <1>4
        DEF Next, WriteSettles, WriteStored, WriteRefused, Enqueue,
            CancelAutomaticWait, Finally, vars

\* After a refusal nothing is written automatically until a new event or a
\* flush ends the pause.
THEOREM RefusalPauses == Spec => PauseHolds
<1>1. Init => PauseSpendsDeadline
  BY DEF Init, PauseSpendsDeadline
<1>2. IInv /\ PauseSpendsDeadline /\ [Next]_vars => PauseSpendsDeadline'
  BY NextPause
<1>3. IInv /\ PauseSpendsDeadline /\ [Next]_vars =>
        [automaticPaused /\ active = "none" /\ active' = "writing"
           => ~background']_vars
  BY PauseStep
<1> QED BY <1>1, <1>2, <1>3, InductiveInvariant, PTL DEF Spec, PauseHolds

-----------------------------------------------------------------------------
(* Refinement *)

LEMMA InitRefines == Init => Log!Init
BY DEF Init, Log!Init

LEMMA NextRefines == IInv /\ IInv' /\ [Next]_vars => [Log!Next]_(Log!vars)
<1> SUFFICES ASSUME IInv, IInv', [Next]_vars PROVE [Log!Next]_(Log!vars)
  OBVIOUS
<1> USE DEF queue, write, callers, Log!vars
<1>1. CASE Enqueue
  BY <1>1 DEF Enqueue, Log!Next, Log!Accept
<1>2. ASSUME NEW c \in Callers, CancelAutomaticWait(c) PROVE UNCHANGED Log!vars
  BY <1>2 DEF CancelAutomaticWait
<1>3. ASSUME NEW c \in Callers, Flush(c) PROVE Log!Flush(c)
  <2> DEFINE waiters == [outcome EXCEPT ![c] = "waiting"]
  <2>1. want' = [want EXCEPT ![c] = accepted] /\ UNCHANGED <<accepted, stored>>
    BY <1>3 DEF Flush
  <2>2. c \notin Log!Waiting
    BY <1>3 DEF Flush, IInv, BarrierTracksWrite, Waiting, Log!Waiting
  <2>3. CASE outcome' = waiters
    BY <2>1, <2>2, <2>3 DEF Log!Flush
  <2>4. CASE barrier = "none" /\ active = "none" /\ DrainEnds(waiters)
    <3>1. Len(stored) = accepted
      BY <2>4, QuiescentIsDurable DEF DrainEnds
    <3>2. outcome \in [Callers -> Outcomes] /\ Waiting = {}
      BY <2>4 DEF IInv, TypeOK, BarrierTracksWrite
    <3>3. \A d \in Callers : outcome[d] # "waiting"
      BY <3>2 DEF Waiting
    <3>4. \A d \in Callers :
            (IF waiters[d] = "waiting" THEN "ok" ELSE waiters[d])
              = [outcome EXCEPT ![c] = "ok"][d]
      BY <3>2, <3>3
    <3>5. outcome' = [outcome EXCEPT ![c] = "ok"]
      BY <2>4, <3>2, <3>4 DEF DrainEnds
    <3> QED BY <2>1, <2>2, <3>1, <3>5 DEF Log!Flush
  <2> QED BY <1>3, <2>3, <2>4 DEF Flush, DrainWrites
<1>4. CASE WriteStored
  <2>1. /\ stored' \in Seq(Nat) /\ pending' \in Seq(Nat) /\ InFlight' \in Seq(Nat)
        /\ accepted' \in Nat
    BY EmptySeq, WriteBehindAssumption DEF IInv, TypeOK, InFlight
  <2>2. (stored' \o InFlight') \o pending' = FirstEvents(accepted')
    BY DEF IInv, Conserved
  <2>3. stored' = FirstEvents(Len(stored')) /\ Len(stored') \in 0 .. accepted'
    BY <2>1, <2>2, FirstPartIsPrefix
  <2>4. Len(stored') = Len(stored) + Len(batch) /\ Len(batch) \in Nat
        /\ Len(stored) \in Nat
    BY <1>4, ConcatProperties, LenProperties DEF WriteStored, IInv, TypeOK
  <2>5. accepted' = accepted /\ UNCHANGED <<outcome, want>>
    BY <1>4 DEF WriteStored
  <2>6. Len(stored') \in Len(stored) .. accepted
    BY <2>3, <2>4, <2>5
  <2>7. stored' = Log!FirstEvents(Len(stored'))
    BY <2>3 DEF FirstEvents, Log!FirstEvents
  <2> QED BY <2>5, <2>6, <2>7 DEF Log!Next, Log!Store
<1>5. CASE DrainResumes
  <2>1. UNCHANGED <<accepted, stored, want>>
    BY <1>5 DEF DrainResumes
  <2>2. CASE DrainWrites(outcome)
    BY <2>1, <2>2 DEF DrainWrites
  <2>3. CASE DrainEnds(outcome)
    <3>1. active = "none"
      BY <1>5 DEF DrainResumes, IInv, BarrierTracksWrite
    <3>2. Len(stored) = accepted
      BY <2>3, <3>1, QuiescentIsDurable DEF DrainEnds
    <3>3. \A d \in Callers : want[d] <= Len(stored)
      BY <3>2 DEF IInv, BarrierTracksWrite
    <3>4. outcome' = Log!Settled("ok")
      BY <2>3 DEF DrainEnds, Log!Settled, Log!Waiting
    <3> QED BY <2>1, <3>3, <3>4 DEF Log!Next, Log!Answer, Log!Waiting
  <2>4. CASE outcome' = Settled("failed")
    <3>1. outcome' = Log!Settled("failed")
      BY <2>4 DEF Settled, Waiting, Log!Settled, Log!Waiting
    <3> QED BY <2>1, <3>1 DEF Log!Next, Log!Answer
  <2> QED BY <1>5, <2>2, <2>3, <2>4 DEF DrainResumes, DrainLoops
<1>6. CASE WriteRefused \/ Finally \/ ContinueAutomatic \/ OnDeadline
  BY <1>6 DEF WriteRefused, Finally, ContinueAutomatic, OnDeadline
<1>7. CASE UNCHANGED vars
  BY <1>7 DEF vars
<1> QED BY <1>1, <1>2, <1>3, <1>4, <1>5, <1>6, <1>7
       DEF Next, WriteSettles, Log!Next

\* The controller keeps the promise of DurableLog.
THEOREM Refinement == Spec => ImplementsDurableLog
<1>1. Init => Log!Init
  BY InitRefines
<1>2. IInv /\ IInv' /\ [Next]_vars => [Log!Next]_(Log!vars)
  BY NextRefines
<1> QED BY <1>1, <1>2, InductiveInvariant, PTL
       DEF Spec, ImplementsDurableLog, Log!Spec
=============================================================================
