---------------------- MODULE SessionPersistenceProofs ----------------------
(***************************************************************************)
(* Theorems about module SessionPersistence, for any number of sessions,   *)
(* callers, events and upsets: the coordinator's maps keep their shapes,   *)
(* and a reserved preparation is one call's, and is the log, until that    *)
(* call publishes or releases it.                                          *)
(*                                                                         *)
(* The shapes of the coordinator's maps are inductive only with Lifecycle  *)
(* and Backlog: which sessions a queued operation can still be for, and    *)
(* that what a controller holds are seqs of its session's history.         *)
(*                                                                         *)
(* A reservation is exclusive because whoever holds the entry committed it *)
(* alone, and current because every other operation of the id either waits *)
(* behind the commit, finds the entry reserved and refuses, or was         *)
(* registered before the preparation was read.                             *)
(***************************************************************************)
EXTENDS SessionPersistence, FiniteSetTheorems, SequenceTheorems, TLAPS

-----------------------------------------------------------------------------
(* Numbers and sequences *)

\* A set of numbers up to n has a least element: what Newborn and
\* FreeGeneration choose.
LEMMA Least ==
  ASSUME NEW n \in Nat, NEW T \in SUBSET (1 .. n), T # {}
  PROVE  \E x \in T : \A y \in T : x <= y
<1> DEFINE Below == {1 .. x : x \in T}
<1>1. IsFiniteSet(1 .. n)
  BY FS_Interval
<1>2. Below # {}
  OBVIOUS
<1>3. Below \subseteq FiniteSubsetsOf(1 .. n)
  <2>1. SUFFICES ASSUME NEW x \in T PROVE 1 .. x \in FiniteSubsetsOf(1 .. n)
    OBVIOUS
  <2>2. x \in 1 .. n /\ 1 .. x \subseteq 1 .. n
    OBVIOUS
  <2>3. IsFiniteSet(1 .. x)
    BY <2>2, FS_Interval
  <2> QED BY <2>2, <2>3 DEF FiniteSubsetsOf
<1>4. PICK X \in Below : \A Y \in Below : <<Y, X>> \notin StrictSubsetOrdering(1 .. n)
  BY <1>2, <1>3, FS_StrictSubsetOrderingWellFounded, WFMin
<1>5. PICK x \in T : X = 1 .. x
  OBVIOUS
<1>6. ASSUME NEW y \in T, y < x PROVE FALSE
  <2>1. (1 .. y) \subseteq (1 .. x) /\ x \notin 1 .. y /\ x \in 1 .. x
    BY <1>6
  <2>2. <<1 .. y, X>> \in StrictSubsetOrdering(1 .. n)
    BY <1>5, <2>1 DEF StrictSubsetOrdering
  <2> QED BY <1>4, <2>2
<1> QED BY <1>6

\* A generation is a positive number, and so is a session.
LEMMA Ids ==
  /\ MaxSessions \in Nat \ {0} /\ MaxUpsets \in Nat
  /\ Cardinality(Callers) + 2 \in Nat
  /\ Generations \subseteq Nat \ {0} /\ 0 \notin Generations
  /\ Sessions \subseteq Nat \ {0} /\ Nobody \notin Sessions
  /\ Recovery \notin Sessions /\ Outside \notin Sessions
  /\ Recovery # Outside
<1>1. Cardinality(Callers) \in Nat
  BY PersistenceAssumption, FS_CardinalityType
<1> QED
  BY <1>1, PersistenceAssumption
     DEF Generations, Sessions, Nobody, Recovery, Outside

\* What is left of a sequence when its head is gone.
LEMMA TailFacts ==
  ASSUME NEW S, NEW q \in Seq(S), q # <<>>
  PROVE  /\ Len(q) \in Nat \ {0} /\ q[1] \in S /\ 1 \in DOMAIN q
         /\ Tail(q) \in Seq(S) /\ Len(Tail(q)) = Len(q) - 1
         /\ \A i \in DOMAIN Tail(q) : i + 1 \in DOMAIN q /\ Tail(q)[i] = q[i + 1]
         /\ DOMAIN q = 1 .. Len(q) /\ DOMAIN Tail(q) = 1 .. Len(q) - 1
<1>1. Len(q) \in Nat /\ DOMAIN q = 1 .. Len(q)
  BY LenProperties
<1>2. Len(q) # 0
  BY EmptySeq
<1> QED BY <1>1, <1>2, HeadTailProperties, LenProperties, ElementOfSeq

LEMMA AppendFacts ==
  ASSUME NEW S, NEW q \in Seq(S), NEW e \in S
  PROVE  /\ Append(q, e) \in Seq(S) /\ Len(Append(q, e)) = Len(q) + 1
         /\ DOMAIN Append(q, e) = 1 .. Len(q) + 1 /\ DOMAIN q = 1 .. Len(q)
         /\ \A i \in DOMAIN q : Append(q, e)[i] = q[i]
         /\ Append(q, e)[Len(q) + 1] = e
         /\ Append(q, e) # <<>> /\ Len(q) \in Nat
BY AppendProperties, LenProperties

\* The parts of a sequence keep its elements, and the bounds may be empty.
LEMMA SubSeqFacts ==
  ASSUME NEW S, NEW q \in Seq(S), NEW m \in Nat \ {0}, NEW n \in Nat,
         n <= Len(q)
  PROVE  /\ SubSeq(q, m, n) \in Seq(S)
         /\ Len(SubSeq(q, m, n)) = IF m <= n THEN n - m + 1 ELSE 0
         /\ DOMAIN SubSeq(q, m, n) = 1 .. Len(SubSeq(q, m, n))
         /\ \A i \in 1 .. n - m + 1 : SubSeq(q, m, n)[i] = q[m + i - 1]
<1>1. Len(q) \in Nat /\ DOMAIN q = 1 .. Len(q)
  BY LenProperties
<1>2. CASE m <= n
  <2>1. \A i \in m .. n : q[i] \in S
    BY <1>1, <1>2, ElementOfSeq
  <2> QED BY <1>2, <2>1, SubSeqProperties, LenProperties
<1>3. CASE m > n
  <2>1. SubSeq(q, m, n) = <<>>
    BY <1>3, SubSeqEmpty
  <2> QED BY <1>3, <2>1, EmptySeq
<1> QED BY <1>1, <1>2, <1>3

LEMMA RemoveFacts ==
  ASSUME NEW S, NEW q \in Seq(S), NEW k \in DOMAIN q
  PROVE  /\ RemoveAt(q, k) \in Seq(S) /\ Len(RemoveAt(q, k)) = Len(q) - 1
         /\ DOMAIN RemoveAt(q, k) = 1 .. Len(q) - 1
         /\ DOMAIN q = 1 .. Len(q) /\ Len(q) \in Nat
         /\ \A i \in DOMAIN RemoveAt(q, k) :
              RemoveAt(q, k)[i] = IF i < k THEN q[i] ELSE q[i + 1]
<1>1. Len(q) \in Nat /\ DOMAIN q = 1 .. Len(q) /\ k \in 1 .. Len(q)
  BY LenProperties
<1> DEFINE a == SubSeq(q, 1, k - 1)
           b == SubSeq(q, k + 1, Len(q))
<1>2. a \in Seq(S) /\ Len(a) = k - 1 /\ \A i \in 1 .. k - 1 : a[i] = q[i]
  BY <1>1, SubSeqFacts
<1>3. /\ b \in Seq(S) /\ Len(b) = Len(q) - k
      /\ \A i \in 1 .. Len(q) - k : b[i] = q[k + i]
  <2>1. k + 1 \in Nat \ {0} /\ Len(q) <= Len(q)
    BY <1>1
  <2>2. \A i \in 1 .. Len(q) - (k + 1) + 1 : b[i] = q[k + 1 + i - 1]
    BY <1>1, <2>1, SubSeqFacts
  <2>3. b \in Seq(S) /\ Len(b) = IF k + 1 <= Len(q) THEN Len(q) - (k + 1) + 1 ELSE 0
    BY <1>1, <2>1, SubSeqFacts
  <2>4. Len(b) = Len(q) - k
    BY <1>1, <2>3
  <2>5. ASSUME NEW i \in 1 .. Len(q) - k PROVE b[i] = q[k + i]
    <3>1. i \in 1 .. Len(q) - (k + 1) + 1 /\ k + 1 + i - 1 = k + i
      BY <1>1
    <3> QED BY <2>2, <3>1
  <2> HIDE DEF b
  <2> QED BY <2>3, <2>4, <2>5
<1> HIDE DEF a, b
<1>4. RemoveAt(q, k) = a \o b
  BY DEF RemoveAt, a, b
<1>5. /\ a \o b \in Seq(S) /\ Len(a \o b) = Len(a) + Len(b)
      /\ \A i \in 1 .. Len(a) + Len(b) :
           (a \o b)[i] = IF i <= Len(a) THEN a[i] ELSE b[i - Len(a)]
  BY <1>2, <1>3, ConcatProperties
<1>6. Len(a \o b) = Len(q) - 1
  BY <1>1, <1>2, <1>3, <1>5
<1>7. DOMAIN (a \o b) = 1 .. Len(q) - 1
  BY <1>5, <1>6, LenProperties
<1>8. ASSUME NEW i \in 1 .. Len(q) - 1
      PROVE  (a \o b)[i] = IF i < k THEN q[i] ELSE q[i + 1]
  <2>1. (a \o b)[i] = IF i <= Len(a) THEN a[i] ELSE b[i - Len(a)]
    BY <1>1, <1>2, <1>3, <1>5
  <2>2. CASE i < k
    BY <1>1, <1>2, <2>1, <2>2
  <2>3. CASE ~ i < k
    <3>1. i - Len(a) \in 1 .. Len(q) - k /\ k + (i - Len(a)) = i + 1 /\ ~ i <= Len(a)
      BY <1>1, <1>2, <2>3
    <3> QED BY <1>3, <2>1, <2>3, <3>1
  <2> QED BY <2>2, <2>3
<1> QED BY <1>1, <1>4, <1>5, <1>6, <1>7, <1>8

LEMMA ConcatFacts ==
  ASSUME NEW S, NEW p \in Seq(S), NEW q \in Seq(S)
  PROVE  /\ p \o q \in Seq(S) /\ Len(p \o q) = Len(p) + Len(q)
         /\ Len(p) \in Nat /\ Len(q) \in Nat
         /\ IsPrefix(p, p \o q)
<1>1. /\ p \o q \in Seq(S) /\ Len(p \o q) = Len(p) + Len(q)
      /\ \A i \in 1 .. Len(p) + Len(q) :
           (p \o q)[i] = IF i <= Len(p) THEN p[i] ELSE q[i - Len(p)]
  BY ConcatProperties
<1>2. Len(p) \in Nat /\ Len(q) \in Nat
  BY LenProperties
<1>3. SubSeq(p, 1, Len(p)) = SubSeq(p \o q, 1, Len(p))
  <2>1. /\ SubSeq(p, 1, Len(p)) \in Seq(S) /\ Len(SubSeq(p, 1, Len(p))) = Len(p)
        /\ \A i \in 1 .. Len(p) : SubSeq(p, 1, Len(p))[i] = p[i]
    BY <1>2, SubSeqFacts
  <2>2. /\ SubSeq(p \o q, 1, Len(p)) \in Seq(S)
        /\ Len(SubSeq(p \o q, 1, Len(p))) = Len(p)
        /\ \A i \in 1 .. Len(p) : SubSeq(p \o q, 1, Len(p))[i] = (p \o q)[i]
    BY <1>1, <1>2, SubSeqFacts
  <2> QED BY <1>1, <1>2, <2>1, <2>2, SeqEqual
<1> QED BY <1>1, <1>2, <1>3 DEF IsPrefix

LEMMA PrefixRefl ==
  ASSUME NEW S, NEW p \in Seq(S)
  PROVE  IsPrefix(p, p)
BY LenProperties DEF IsPrefix

-----------------------------------------------------------------------------
(* Logs *)

LEMMA EventFacts ==
  /\ \A w \in Sessions \cup {Recovery, Outside}, k \in Kinds :
       [by |-> w, kind |-> k] \in Events
  /\ <<>> \in Seq(Events)
  /\ \A e \in Events : <<e>> \in Seq(Events) /\ Len(<<e>>) = 1 /\ <<e>>[1] = e
  /\ "end" \in Kinds /\ "mark" \in Kinds /\ "note" \in Kinds /\ "start" \in Kinds
BY DEF Events, Kinds

\* Recovery leaves a balanced log as it is, and closes an open one once.
LEMMA BalancedFacts ==
  ASSUME NEW log \in Seq(Events)
  PROVE  /\ Balanced(log) \in Seq(Events) /\ IsPrefix(log, Balanced(log))
         /\ ~ Open(Balanced(log))
         /\ ~ Open(log) => Balanced(log) = log
<1> DEFINE closer == [by |-> Recovery, kind |-> "end"]
<1>1. closer \in Events /\ closer.kind = "end"
  BY EventFacts
<1>2. CASE ~ Open(log)
  <2>1. Balanced(log) = log
    BY <1>2, ConcatEmptySeq DEF Balanced, Closers
  <2> QED BY <1>2, <2>1, PrefixRefl
<1>3. CASE Open(log)
  <2>1. Balanced(log) = log \o <<closer>>
    BY <1>3 DEF Balanced, Closers
  <2> HIDE DEF closer
  <2>2. <<closer>> \in Seq(Events) /\ Len(<<closer>>) = 1 /\ <<closer>>[1] = closer
    BY <1>1, EventFacts
  <2>3. /\ Balanced(log) \in Seq(Events) /\ IsPrefix(log, Balanced(log))
        /\ Len(Balanced(log)) = Len(log) + 1 /\ Len(log) \in Nat
    BY <2>1, <2>2, ConcatFacts
  <2>4. Balanced(log)[Len(log) + 1] = closer
    <3>1. \A i \in 1 .. Len(log) + Len(<<closer>>) :
            Balanced(log)[i] = IF i <= Len(log) THEN log[i] ELSE <<closer>>[i - Len(log)]
      BY <2>1, <2>2, ConcatProperties
    <3> QED BY <2>2, <2>3, <3>1
  <2>5. DOMAIN Balanced(log) = 1 .. Len(log) + 1
    BY <2>3, LenProperties
  <2>6. ~ Open(Balanced(log))
    <3>1. SUFFICES ASSUME NEW i \in 1 .. Len(log) + 1, Balanced(log)[i].kind = "start",
                          \A j \in i + 1 .. Len(log) + 1 : Balanced(log)[j].kind # "end"
                   PROVE  FALSE
      BY <2>3, <2>5 DEF Open
    <3>2. i # Len(log) + 1
      BY <1>1, <2>4, <3>1
    <3> QED BY <1>1, <2>3, <2>4, <3>1, <3>2
  <2> QED BY <1>3, <2>3, <2>6
<1> QED BY <1>2, <1>3

LEMMA MarkedFacts ==
  ASSUME NEW log \in Seq(Events), NEW s \in Sessions
  PROVE  Marked(log, s) \in Seq(Events) /\ IsPrefix(log, Marked(log, s))
<1>1. CASE log # <<>> /\ log[Len(log)].kind = "mark"
  BY <1>1, PrefixRefl DEF Marked
<1>2. CASE ~ (log # <<>> /\ log[Len(log)].kind = "mark")
  <2> DEFINE mark == [by |-> s, kind |-> "mark"]
  <2>1. mark \in Events /\ <<mark>> \in Seq(Events)
    BY EventFacts
  <2>2. Marked(log, s) = log \o <<mark>>
    BY <1>2, <2>1, AppendIsConcat DEF Marked
  <2> HIDE DEF mark
  <2> QED BY <2>1, <2>2, ConcatFacts
<1> QED BY <1>1, <1>2

-----------------------------------------------------------------------------
(* Shapes *)

LEMMA EmptyShapes ==
  /\ Absent \in Disks /\ NoState \in StateType /\ NoEntry \in EntryType
  /\ NoLive \in LiveType /\ NoCall \in CallType
<1>1. <<>> \in Seq(Events) /\ <<>> \in Seq(Nat)
  OBVIOUS
<1>2. Absent \in Disks
  BY <1>1 DEF Absent, Disks
<1> QED BY <1>1, <1>2
        DEF NoState, StateType, NoEntry, EntryType, NoLive, LiveType, NoCall,
            CallType, Modes, Nobody

LEMMA NewbornFacts ==
  ASSUME Unborn # {}
  PROVE  Newborn \in Sessions /\ life[Newborn] = "unborn"
<1>1. Unborn \in SUBSET (1 .. MaxSessions) /\ MaxSessions \in Nat
  BY Ids DEF Unborn, Sessions
<1>2. \E s \in Unborn : \A t \in Unborn : s <= t
  BY <1>1, Least
<1>3. Newborn \in Unborn
  BY <1>2 DEF Newborn
<1> QED BY <1>3 DEF Unborn

LEMMA GenerationFacts ==
  ASSUME FreeGenerations # {}
  PROVE  FreeGeneration \in FreeGenerations /\ FreeGeneration \in Generations
<1>1. /\ FreeGenerations \in SUBSET (1 .. Cardinality(Callers) + 2)
      /\ Cardinality(Callers) + 2 \in Nat
  BY Ids DEF FreeGenerations, Generations
<1>2. \E g \in FreeGenerations : \A h \in FreeGenerations : g <= h
  BY <1>1, Least
<1>3. FreeGeneration \in FreeGenerations
  BY <1>2 DEF FreeGeneration
<1> QED BY <1>1, <1>3 DEF Generations

SessionOps == {"created", "suffix", "seed", "write", "release", "header"}
OpKinds == {"prepare", "check", "commit", "append", "create"} \cup SessionOps

\* What a queued operation is for follows from what it is.
LEMMA OpFacts ==
  ASSUME NEW o \in Operations
  PROVE  /\ o.op \in OpKinds /\ o.events \in Seq(Events) /\ o.from \in Nat
         /\ o.op = "prepare" => o.for \in Generations
         /\ o.op \in {"check", "commit"} => o.for \in Callers
         /\ o.op \in SessionOps => o.for \in Sessions
BY DEF Operations, OpsOf, OpKinds, SessionOps

LEMMA NewOps ==
  /\ \A g \in Generations : Op("prepare", g) \in Operations
  /\ \A c \in Callers : Op("check", c) \in Operations /\ Op("commit", c) \in Operations
  /\ \A s \in Sessions, k \in SessionOps : Op(k, s) \in Operations
  /\ \A s \in Sessions, k \in {"suffix", "seed"}, e \in Seq(Events), n \in Nat :
       [op |-> k, for |-> s, events |-> e, from |-> n] \in Operations
  /\ Op("create", Outside) \in Operations
  /\ \A e \in Seq(Events), n \in Nat :
       [op |-> "append", for |-> Outside, events |-> e, from |-> n] \in Operations
<1>1. <<>> \in Seq(Events) /\ 0 \in Nat
  OBVIOUS
<1> QED BY <1>1 DEF Op, Operations, OpsOf, SessionOps

LEMMA OpShape ==
  \A k, x : Op(k, x).op = k /\ Op(k, x).for = x
BY DEF Op

-----------------------------------------------------------------------------
(* The coordinator's helpers return what they should *)

LEMMA EntryShapes ==
  ASSUME TypeOK, NEW g
  PROVE  DropEntry(g) \in EntryType /\ MakeReady(g) \in EntryType
<1>1. entry \in EntryType
  BY DEF TypeOK
<1>2. [entry EXCEPT !.phase = "ready"] \in EntryType
  BY <1>1 DEF EntryType
<1> QED BY <1>1, <1>2, EmptyShapes DEF DropEntry, MakeReady

LEMMA CallerShapes ==
  ASSUME TypeOK, NEW c \in Callers
  PROVE  /\ HangUp(c) \in [Callers -> CallType]
         /\ TryAgain(c) \in [Callers -> CallType]
         /\ \A pc \in {"returned", "reserved"}, view \in Seq(Events) :
              Answer(c, pc, view) \in [Callers -> CallType]
<1>1. caller \in [Callers -> CallType] /\ caller[c] \in CallType
  BY DEF TypeOK
<1>2. HangUp(c) \in [Callers -> CallType]
  BY <1>1, EmptyShapes DEF HangUp
<1>3. retirement \in Sessions \cup {Nobody} /\ Absent \in Disks
  BY EmptyShapes DEF TypeOK
<1>4. TryAgain(c) \in [Callers -> CallType]
  <2>1. [caller[c] EXCEPT !.pc = "retire", !.gen = 0, !.source = Absent,
                          !.waits = retirement] \in CallType
    BY <1>1, <1>3 DEF CallType
  <2> QED BY <1>1, <1>2, <2>1 DEF TryAgain
<1>5. ASSUME NEW pc \in {"returned", "reserved"}, NEW view \in Seq(Events)
      PROVE  Answer(c, pc, view) \in [Callers -> CallType]
  <2>1. [caller[c] EXCEPT !.pc = pc, !.view = view] \in CallType
    BY <1>1 DEF CallType
  <2> QED BY <1>1, <2>1 DEF Answer
<1> QED BY <1>2, <1>4, <1>5

LEMMA LoadShapes ==
  ASSUME TypeOK, NEW g
  PROVE  /\ \A source \in Disks : LoadFulfills(g, source) \in [Callers -> CallType]
         /\ LoadRejects(g) \in [Callers -> CallType]
<1>1. \A c \in Callers : caller[c] \in CallType
  BY DEF TypeOK
<1>2. \A c \in Callers, source \in Disks :
        [caller[c] EXCEPT !.pc = "loaded", !.source = source] \in CallType
  BY <1>1 DEF CallType
<1> QED BY <1>1, <1>2, EmptyShapes DEF LoadFulfills, LoadRejects

-----------------------------------------------------------------------------
(* What the shapes rest on *)

InitOps == {"created", "suffix", "seed"}

\* The store and the lifecycles agree; an unborn session left no trace; a
\* disposed one retires, and gives the id up only with nothing left to write.
Lifecycle ==
  \A s \in Sessions :
    /\ life[s] = "live" <=> store = s
    /\ life[s] = "unborn" => live[s] = NoLive /\ hist[s] = <<>>
    /\ live[s].retiring # "no" => life[s] = "over"
    /\ live[s].retiring = "releasing" =>
         live[s].queue = <<>> /\ live[s].writing = 0 /\ live[s].init = "ok"

\* A controller holds seqs of its session's history.
Backlog ==
  \A s \in Sessions :
    /\ live[s].seed <= Len(hist[s])
    /\ \A i \in DOMAIN live[s].queue : live[s].queue[i] < Len(hist[s])

\* A queued operation is still awaited, if these are the live sessions ...
Watched == InitOps \cup {"write", "release"}
Expected(l, o) ==
  /\ o.op = "write" => l[o.for].writing > 0
  /\ o.op = "release" => l[o.for].retiring = "releasing"
  /\ o.op \in InitOps => l[o.for].init = "pending"

\* ... and is the only one of its sort for its session.
Apart(o, p) ==
  o.for = p.for =>
    /\ ~ (o.op = "write" /\ p.op = "write")
    /\ ~ (o.op = "release" /\ p.op = "release")
    /\ ~ (o.op \in InitOps /\ p.op \in InitOps)

Queued ==
  /\ \A i \in DOMAIN chain : Expected(live, chain[i])
  /\ \A i, j \in DOMAIN chain : i # j => Apart(chain[i], chain[j])

Shaped == TypeOK /\ Lifecycle /\ Backlog /\ Queued

\* The head operation and what follows it.
LEMMA HeadFacts ==
  ASSUME TypeOK, chain # <<>>
  PROVE  /\ chain[1] \in Operations /\ Len(chain) \in Nat \ {0} /\ 1 \in DOMAIN chain
         /\ Tail(chain) \in Seq(Operations)
         /\ \A i \in DOMAIN Tail(chain) :
              i + 1 \in DOMAIN chain /\ i + 1 # 1 /\ Tail(chain)[i] = chain[i + 1]
         /\ chain[1].op \in OpKinds /\ chain[1].events \in Seq(Events)
         /\ chain[1].from \in Nat
         /\ chain[1].op = "prepare" => chain[1].for \in Generations
         /\ chain[1].op \in {"check", "commit"} => chain[1].for \in Callers
         /\ chain[1].op \in SessionOps => chain[1].for \in Sessions
<1>1. chain \in Seq(Operations)
  BY DEF TypeOK
<1>2. /\ Len(chain) \in Nat \ {0} /\ chain[1] \in Operations /\ 1 \in DOMAIN chain
      /\ Tail(chain) \in Seq(Operations)
      /\ \A i \in DOMAIN Tail(chain) : i + 1 \in DOMAIN chain /\ Tail(chain)[i] = chain[i + 1]
      /\ DOMAIN Tail(chain) = 1 .. Len(chain) - 1
  BY <1>1, TailFacts
<1>3. \A i \in DOMAIN Tail(chain) : i + 1 # 1
  BY <1>2
<1> QED BY <1>2, <1>3, OpFacts

LEMMA Busy ==
  ASSUME TypeOK, stage # "queued"
  PROVE  chain # <<>>
BY DEF TypeOK

LEMMA FinishShapes ==
  ASSUME TypeOK, chain # <<>>, Finish
  PROVE  /\ chain' \in Seq(Operations) /\ stage' = "queued" /\ batch' = <<>>
         /\ batch' \in Seq(Events)
BY HeadFacts, EventFacts DEF Finish

LEMMA SerializeShapes ==
  ASSUME TypeOK, \E o \in Operations : Serialize(o)
  PROVE  chain' \in Seq(Operations) /\ chain' # <<>>
<1>1. PICK o \in Operations : Serialize(o)
  OBVIOUS
<1>2. chain \in Seq(Operations)
  BY DEF TypeOK
<1> QED BY <1>1, <1>2, AppendFacts DEF Serialize

\* What an outcome changes of the live sessions.
LEMMA SettledFacts ==
  ASSUME TypeOK, chain # <<>>, NEW ok \in BOOLEAN
  PROVE  /\ Settled(ok) \in [Sessions -> LiveType]
         /\ \A s \in Sessions :
              LET l == live[s]  m == Settled(ok)[s]
                  mine == chain[1].op = "write" /\ chain[1].for = s
              IN
              /\ m.on = l.on /\ m.seed = l.seed /\ m.retiring = l.retiring
              /\ ~ mine => m.queue = l.queue /\ m.writing = l.writing /\ m.flush = l.flush
              /\ mine => /\ m.writing = 0 /\ m.init = l.init
                         /\ m.queue = IF ok THEN SubSeq(l.queue, l.writing + 1, Len(l.queue))
                                            ELSE l.queue
              /\ IF chain[1].op \in InitOps /\ chain[1].for = s
                 THEN m.init = IF ok THEN "ok" ELSE "failed"
                 ELSE m.init = l.init
<1>1. live \in [Sessions -> LiveType] /\ \A s \in Sessions : live[s] \in LiveType
  BY DEF TypeOK
<1>2. /\ chain[1].op \in InitOps => chain[1].for \in Sessions
      /\ chain[1].op = "write" => chain[1].for \in Sessions
  BY HeadFacts DEF InitOps, SessionOps
<1>3. \A s \in Sessions :
        /\ live[s].queue \in Seq(Nat) /\ live[s].writing \in Nat
        /\ live[s].writing <= Len(live[s].queue)
  BY <1>1 DEF LiveType, TypeOK
<1>4. \A s \in Sessions : SubSeq(live[s].queue, live[s].writing + 1, Len(live[s].queue)) \in Seq(Nat)
  <2>1. SUFFICES ASSUME NEW s \in Sessions
                 PROVE  SubSeq(live[s].queue, live[s].writing + 1, Len(live[s].queue)) \in Seq(Nat)
    OBVIOUS
  <2>2. Len(live[s].queue) \in Nat /\ live[s].writing + 1 \in Nat \ {0}
    BY <1>3, LenProperties
  <2> QED BY <1>3, <2>2, SubSeqFacts
<1>5. CASE chain[1].op \in InitOps
  <2> DEFINE s == chain[1].for
             m == [live[s] EXCEPT !.init = IF ok THEN "ok" ELSE "failed"]
  <2>1. s \in Sessions /\ live[s] \in LiveType
    BY <1>1, <1>2, <1>5
  <2>2. m \in LiveType
    BY <2>1 DEF LiveType
  <2>3. Settled(ok) = [live EXCEPT ![s] = m] /\ chain[1].op # "write"
    BY <1>5 DEF Settled, InitOps
  <2>4. /\ m.on = live[s].on /\ m.seed = live[s].seed /\ m.retiring = live[s].retiring
        /\ m.queue = live[s].queue /\ m.writing = live[s].writing /\ m.flush = live[s].flush
        /\ m.init = IF ok THEN "ok" ELSE "failed"
    BY <2>1 DEF LiveType
  <2> HIDE DEF m
  <2> QED BY <1>1, <1>5, <2>1, <2>2, <2>3, <2>4
<1>6. CASE chain[1].op = "write"
  <2> DEFINE s == chain[1].for
             q == IF ok THEN SubSeq(live[s].queue, live[s].writing + 1, Len(live[s].queue))
                        ELSE live[s].queue
             f == IF live[s].flush # "writing" THEN live[s].flush
                  ELSE IF ok THEN "none" ELSE "refused"
             m == [live[s] EXCEPT !.queue = q, !.writing = 0, !.flush = f]
  <2>1. s \in Sessions /\ live[s] \in LiveType
    BY <1>1, <1>2, <1>6
  <2>2. q \in Seq(Nat) /\ f \in {"none", "writing", "refused"}
    BY <1>3, <1>4, <2>1 DEF LiveType
  <2>3. Settled(ok) = [live EXCEPT ![s] = m] /\ chain[1].op \notin InitOps
    BY <1>1, <1>6, <2>1 DEF Settled, InitOps
  <2> HIDE DEF q, f
  <2>4. /\ m.on = live[s].on /\ m.seed = live[s].seed /\ m.retiring = live[s].retiring
        /\ m.queue = q /\ m.writing = 0 /\ m.init = live[s].init
    BY <2>1 DEF LiveType
  <2>5. m \in LiveType
    BY <2>1, <2>2 DEF LiveType
  <2> HIDE DEF m
  <2> QED BY <1>1, <1>6, <2>1, <2>3, <2>4, <2>5 DEF q
<1>7. CASE chain[1].op \notin InitOps /\ chain[1].op # "write"
  <2>1. Settled(ok) = live
    BY <1>7 DEF Settled, InitOps
  <2> QED BY <1>1, <1>7, <2>1
<1> QED BY <1>5, <1>6, <1>7

\* What is left to write was held before.
LEMMA SettledQueues ==
  ASSUME TypeOK, chain # <<>>, NEW ok \in BOOLEAN, NEW s \in Sessions
  PROVE  /\ Settled(ok)[s].writing <= Len(Settled(ok)[s].queue)
         /\ \A i \in DOMAIN Settled(ok)[s].queue :
              \E j \in DOMAIN live[s].queue : Settled(ok)[s].queue[i] = live[s].queue[j]
<1> DEFINE l == live[s]  m == Settled(ok)[s]
<1>1. /\ l.queue \in Seq(Nat) /\ l.writing \in Nat /\ l.writing <= Len(l.queue)
      /\ Len(l.queue) \in Nat /\ DOMAIN l.queue = 1 .. Len(l.queue)
  BY LenProperties DEF TypeOK, LiveType
<1>2. \/ m.queue = l.queue /\ (m.writing = 0 \/ m.writing = l.writing)
      \/ m.queue = SubSeq(l.queue, l.writing + 1, Len(l.queue)) /\ m.writing = 0
  BY SettledFacts
<1>3. CASE m.queue = l.queue
  <2>1. m.writing = 0 \/ m.writing = l.writing
    BY <1>2
  <2> HIDE DEF l, m
  <2>2. m.writing <= Len(m.queue)
    BY <1>1, <1>3, <2>1
  <2>3. \A i \in DOMAIN m.queue : \E j \in DOMAIN l.queue : m.queue[i] = l.queue[j]
    BY <1>3
  <2> QED BY <2>2, <2>3 DEF l, m
<1>4. CASE m.queue = SubSeq(l.queue, l.writing + 1, Len(l.queue)) /\ m.writing = 0
  <2> HIDE DEF l, m
  <2>1. l.writing + 1 \in Nat \ {0}
    BY <1>1
  <2> DEFINE n == Len(l.queue)  w == l.writing + 1
  <2>2. n \in Nat /\ w \in Nat \ {0} /\ n <= Len(l.queue) /\ l.queue \in Seq(Nat)
    BY <1>1, <2>1
  <2> HIDE DEF n, w
  <2>3. /\ SubSeq(l.queue, w, n) \in Seq(Nat)
        /\ DOMAIN SubSeq(l.queue, w, n) = 1 .. Len(SubSeq(l.queue, w, n))
        /\ Len(SubSeq(l.queue, w, n)) = IF w <= n THEN n - w + 1 ELSE 0
    BY <2>2, SubSeqFacts
  <2>4. \A i \in 1 .. n - w + 1 : SubSeq(l.queue, w, n)[i] = l.queue[w + i - 1]
    BY <2>2, SubSeqFacts
  <2>5. m.queue = SubSeq(l.queue, w, n)
    BY <1>4 DEF w, n
  <2>6. /\ DOMAIN m.queue = 1 .. Len(m.queue)
        /\ Len(m.queue) = IF w <= n THEN n - w + 1 ELSE 0
        /\ \A i \in 1 .. n - w + 1 : m.queue[i] = l.queue[w + i - 1]
    BY <2>3, <2>4, <2>5
  <2>7. ASSUME NEW i \in DOMAIN m.queue
        PROVE  \E j \in DOMAIN l.queue : m.queue[i] = l.queue[j]
    <3>1. i \in 1 .. n - w + 1
      BY <2>2, <2>6
    <3>2. w + i - 1 \in DOMAIN l.queue
      BY <1>1, <2>2, <3>1 DEF n
    <3> QED BY <2>6, <3>1, <3>2
  <2>8. m.writing <= Len(m.queue)
    <3>1. Len(m.queue) \in Nat
      BY <2>3, <2>5, LenProperties
    <3>2. m.writing = 0
      BY <1>4
    <3>3. 0 <= Len(m.queue)
      BY <3>1
    <3> QED BY <3>2, <3>3
  <2> QED BY <2>7, <2>8 DEF l, m
<1> QED BY <1>2, <1>3, <1>4

LEMMA SettledShapes ==
  ASSUME TypeOK, chain # <<>>
  PROVE  \A ok \in BOOLEAN :
           /\ Settled(ok) \in [Sessions -> LiveType]
           /\ \A s \in Sessions : Settled(ok)[s].writing <= Len(Settled(ok)[s].queue)
BY SettledFacts, SettledQueues

LEMMA TrackedFacts ==
  \A n \in Nat, m \in BOOLEAN, o \in Sessions \cup {Nobody} :
    /\ Tracked(n, m, o) \in StateType
    /\ Tracked(n, m, o).tracked /\ Tracked(n, m, o).cursor = n
    /\ Tracked(n, m, o).owner = o
BY DEF Tracked, StateType

LEMMA UpsetFacts ==
  ASSUME TypeOK, Upset
  PROVE  upsets' \in 0 .. MaxUpsets
BY Ids DEF TypeOK, Upset, CanUpset

LEMMA SeedType ==
  ASSUME Shaped, chain # <<>>, chain[1].op = "created"
  PROVE  /\ chain[1].for \in Sessions /\ Seed \in Seq(Events)
         /\ Len(Seed) = live[chain[1].for].seed /\ Len(Seed) <= Len(hist[chain[1].for])
         /\ Len(Seed) \in Nat
<1> DEFINE s == chain[1].for
<1>1. s \in Sessions
  BY HeadFacts DEF Shaped, SessionOps
<1>2. /\ hist[s] \in Seq(Events) /\ live[s].seed \in Nat /\ live[s].seed <= Len(hist[s])
  BY <1>1 DEF Shaped, TypeOK, LiveType, Backlog
<1> HIDE DEF s
<1>3. /\ SubSeq(hist[s], 1, live[s].seed) \in Seq(Events)
      /\ Len(SubSeq(hist[s], 1, live[s].seed)) = live[s].seed
  BY <1>2, SubSeqFacts
<1> QED BY <1>1, <1>2, <1>3 DEF Seed, s

LEMMA BindShapes ==
  ASSUME Shaped, chain # <<>>, chain[1].op = "created",
         \E n \in Nat : BindSeed(chain[1].for, Seed, n)
  PROVE  /\ chain' \in Seq(Operations) /\ stage' = "queued"
         /\ batch' \in Seq(Events) /\ live' \in [Sessions -> LiveType]
         /\ \A s \in Sessions : live'[s].writing <= Len(live'[s].queue)
<1>1. PICK n \in Nat : BindSeed(chain[1].for, Seed, n)
  OBVIOUS
<1>2. TypeOK /\ live \in [Sessions -> LiveType] /\ batch \in Seq(Events)
  BY DEF Shaped, TypeOK
<1>3. CASE Len(Seed) = n
  <2>1. live' = Settled(TRUE) /\ Finish
    BY <1>1, <1>3 DEF BindSeed
  <2> QED BY <1>2, <2>1, FinishShapes, SettledShapes
<1>4. CASE Len(Seed) # n
  <2> DEFINE e == SubSeq(Seed, n + 1, Len(Seed))
             o == [op |-> "seed", for |-> chain[1].for, from |-> n, events |-> e]
  <2>1. e \in Seq(Events)
    BY <1>1, SeedType, SubSeqFacts
  <2> HIDE DEF e
  <2>2. o \in Operations
    BY <1>1, <2>1, SeedType, NewOps
  <2> HIDE DEF o
  <2>3. chain' = <<o>> \o Tail(chain) /\ stage' = "queued" /\ UNCHANGED <<live, batch>>
    BY <1>1, <1>4 DEF BindSeed, GoOn, e, o
  <2>4. chain' \in Seq(Operations)
    BY <1>2, <2>2, <2>3, HeadFacts, ConcatProperties
  <2>5. \A s \in Sessions : live[s].writing <= Len(live[s].queue)
    BY <1>2 DEF TypeOK
  <2> QED BY <1>2, <2>3, <2>4, <2>5
<1> QED BY <1>3, <1>4

\* What is handed over are events of the history.
LEMMA PayloadType ==
  ASSUME Shaped, chain # <<>>
  PROVE  Payload.events \in Seq(Events)
<1>1. CASE chain[1].op # "write"
  BY <1>1, HeadFacts DEF Shaped, Payload
<1>2. CASE chain[1].op = "write"
  <2> DEFINE s == chain[1].for
             q == live[s].queue
             n == live[s].writing
             low == IF state.cursor > q[1] THEN state.cursor ELSE q[1]
  <2>1. s \in Sessions /\ n > 0
    BY <1>2, HeadFacts DEF Shaped, SessionOps, Queued, Expected
  <2>2. /\ q \in Seq(Nat) /\ n \in Nat /\ n <= Len(q) /\ hist[s] \in Seq(Events)
        /\ state.cursor \in Nat
    BY <2>1 DEF Shaped, TypeOK, LiveType, StateType
  <2>3. \A i \in DOMAIN q : q[i] < Len(hist[s])
    BY <2>1 DEF Shaped, Backlog
  <2> HIDE DEF q, n, s
  <2>4. 1 \in DOMAIN q /\ n \in DOMAIN q
    BY <2>1, <2>2, LenProperties
  <2>5. q[1] \in Nat /\ q[n] \in Nat /\ q[n] + 1 <= Len(hist[s])
    BY <2>2, <2>3, <2>4, ElementOfSeq, LenProperties
  <2>6. low + 1 \in Nat \ {0}
    BY <2>2, <2>5
  <2> HIDE DEF low
  <2>7. SubSeq(hist[s], low + 1, q[n] + 1) \in Seq(Events)
    BY <2>2, <2>5, <2>6, SubSeqFacts
  <2> QED BY <1>2, <2>7 DEF Payload, Fresh, low, q, n, s
<1> QED BY <1>1, <1>2

LEMMA TypeInit == Init => TypeOK
<1> SUFFICES ASSUME Init PROVE TypeOK
  OBVIOUS
<1>1. \A s \in Sessions : NoLive \in LiveType /\ NoLive.writing <= Len(NoLive.queue)
  BY EmptyShapes DEF NoLive
<1>2. <<>> \in Seq(Events) /\ <<>> \in Seq(Operations) /\ 0 \in 0 .. MaxUpsets
  BY Ids
<1> QED BY <1>1, <1>2, EmptyShapes, Ids DEF Init, TypeOK

\* One step of a call leaves the shapes.
LEMMA TypeCalls ==
  ASSUME Shaped, NEW c \in Callers,
         \/ \E m \in Modes : Begin(c, m)
         \/ CallStep(c) \/ Abort(c) \/ SetupAppends(c) \/ Release(c)
  PROVE  TypeOK'
<1> USE DEF storage, sessions
<1>0. TypeOK /\ caller[c] \in CallType
  BY DEF Shaped, TypeOK
<1>1. CASE \E m \in Modes : Begin(c, m)
  <2>1. PICK m \in Modes : Begin(c, m)
    BY <1>1
  <2>2. disk.log \in Seq(Events) /\ Tails \in SUBSET [of : Sessions, log : Seq(Events)]
    BY <1>0 DEF Tails, TypeOK, Disks
  <2>3. [NoCall EXCEPT !.pc = "retire", !.mode = m, !.waits = retirement, !.owed = disk.log,
                       !.tails = Tails] \in CallType
    BY <1>0, <2>2, EmptyShapes DEF TypeOK, CallType
  <2> QED BY <1>0, <2>1, <2>3 DEF Begin, TypeOK
<1>2. CASE FindsLive(c)
  BY <1>0, <1>2, CallerShapes DEF FindsLive, TypeOK
<1>3. CASE FindsCold(c)
  <2>1. CASE /\ entry # NoEntry
             /\ caller' = [caller EXCEPT
                  ![c].pc = IF entry.phase = "loading" THEN "loading" ELSE "loaded",
                  ![c].gen = entry.gen, ![c].source = entry.source]
             /\ UNCHANGED <<chain, entry>>
    <3> DEFINE p == IF entry.phase = "loading" THEN "loading" ELSE "loaded"
               k == [caller[c] EXCEPT !.pc = p, !.gen = entry.gen, !.source = entry.source]
    <3>1. p \in {"loading", "loaded"} /\ entry.gen \in Generations \cup {0} /\ entry.source \in Disks
      BY <1>0 DEF TypeOK, EntryType
    <3>2. caller' = [caller EXCEPT ![c] = k]
      BY <1>0, <2>1 DEF TypeOK
    <3> HIDE DEF p
    <3>3. k \in CallType
      BY <1>0, <3>1 DEF CallType
    <3> HIDE DEF k
    <3> QED BY <1>0, <1>3, <2>1, <3>2, <3>3 DEF FindsCold, TypeOK
  <2>2. CASE /\ entry = NoEntry /\ FreeGenerations # {}
             /\ caller' = [caller EXCEPT ![c].pc = "loading", ![c].gen = FreeGeneration]
             /\ entry' = [NoEntry EXCEPT !.gen = FreeGeneration, !.phase = "loading"]
             /\ Serialize(Op("prepare", FreeGeneration))
    <3>1. FreeGeneration \in Generations
      BY <2>2, GenerationFacts
    <3>2. [caller[c] EXCEPT !.pc = "loading", !.gen = FreeGeneration] \in CallType
      BY <1>0, <3>1 DEF CallType
    <3>3. entry' \in EntryType
      BY <2>2, <3>1, EmptyShapes DEF EntryType
    <3>4. chain' \in Seq(Operations) /\ chain' # <<>>
      <4>1. Op("prepare", FreeGeneration) \in Operations
        BY <3>1, NewOps
      <4> QED BY <1>0, <2>2, <4>1, SerializeShapes
    <3> QED BY <1>0, <1>3, <2>2, <3>2, <3>3, <3>4 DEF FindsCold, TypeOK
  <2> QED BY <1>3, <2>1, <2>2 DEF FindsCold
<1>4. CASE Reserve(c)
  <2>1. chain' \in Seq(Operations) /\ chain' # <<>>
    <3>1. Op("commit", c) \in Operations
      BY NewOps
    <3> QED BY <1>0, <1>4, <3>1, SerializeShapes DEF Reserve
  <2>2. [entry EXCEPT !.phase = "committing"] \in EntryType
    BY <1>0 DEF TypeOK, EntryType
  <2>3. [caller[c] EXCEPT !.pc = "committing"] \in CallType
    BY <1>0 DEF CallType
  <2> QED BY <1>0, <1>4, <2>1, <2>2, <2>3 DEF Reserve, TypeOK
<1>5. CASE Invalidated(c)
  BY <1>0, <1>5, CallerShapes DEF Invalidated, TypeOK
<1>6. CASE Inspects(c)
  <2>1. CASE store # Nobody
    BY <1>0, <1>6, <2>1, CallerShapes DEF Inspects, TypeOK
  <2>2. CASE store = Nobody
    <3>1. chain' \in Seq(Operations) /\ chain' # <<>>
      <4>1. Op("check", c) \in Operations
        BY NewOps
      <4> QED BY <1>0, <1>6, <2>2, <4>1, SerializeShapes DEF Inspects
    <3>2. [caller[c] EXCEPT !.pc = "checking"] \in CallType
      BY <1>0 DEF CallType
    <3> QED BY <1>0, <1>6, <2>2, <3>1, <3>2 DEF Inspects, TypeOK
  <2> QED BY <2>1, <2>2
<1>7. CASE EndCall(c)
  BY <1>0, <1>7, CallerShapes DEF EndCall, TypeOK
<1>8. CASE Abort(c)
  <2>1. CASE caller' = HangUp(c) /\ UNCHANGED <<chain, entry>>
    BY <1>0, <1>8, <2>1, CallerShapes DEF Abort, TypeOK
  <2>2. CASE \E i \in DOMAIN chain :
               IF i = 1
               THEN caller' = [caller EXCEPT ![c].aborted = TRUE] /\ UNCHANGED <<chain, entry>>
               ELSE /\ caller' = HangUp(c)
                    /\ chain' = RemoveAt(chain, i)
                    /\ entry' = IF caller[c].pc = "committing"
                                THEN DropEntry(caller[c].gen) ELSE entry
    <3>1. CASE caller' = [caller EXCEPT ![c].aborted = TRUE] /\ UNCHANGED <<chain, entry>>
      <4>1. [caller[c] EXCEPT !.aborted = TRUE] \in CallType
        BY <1>0 DEF CallType
      <4> QED BY <1>0, <1>8, <3>1, <4>1 DEF Abort, TypeOK
    <3>2. ASSUME NEW i \in DOMAIN chain, i # 1, caller' = HangUp(c),
                 chain' = RemoveAt(chain, i),
                 entry' = IF caller[c].pc = "committing"
                          THEN DropEntry(caller[c].gen) ELSE entry
          PROVE  TypeOK'
      <4>1. chain \in Seq(Operations) /\ entry \in EntryType
        BY <1>0 DEF TypeOK
      <4>2. chain' \in Seq(Operations) /\ Len(chain') = Len(chain) - 1
            /\ Len(chain) \in Nat /\ i \in 1 .. Len(chain)
        BY <3>2, <4>1, RemoveFacts
      <4>3. chain' # <<>>
        BY <3>2, <4>2, EmptySeq
      <4>4. entry' \in EntryType
        BY <1>0, <3>2, <4>1, EntryShapes
      <4> QED BY <1>0, <1>8, <3>2, <4>2, <4>3, <4>4, CallerShapes DEF Abort, TypeOK
    <3> QED BY <2>2, <3>1, <3>2
  <2> QED BY <1>8, <2>1, <2>2 DEF Abort
<1>9. CASE SetupAppends(c)
  <2>1. <<[by |-> Newborn, kind |-> "note"]>> \in Seq(Events)
    BY <1>9, NewbornFacts, EventFacts DEF SetupAppends
  <2>2. [caller[c] EXCEPT !.extra = <<[by |-> Newborn, kind |-> "note"]>>] \in CallType
    BY <1>0, <2>1 DEF CallType
  <2> QED BY <1>0, <1>9, <2>2 DEF SetupAppends, TypeOK
<1>10. CASE Release(c)
  BY <1>0, <1>10, CallerShapes, EntryShapes DEF Release, TypeOK
<1> QED BY <1>1, <1>2, <1>3, <1>4, <1>5, <1>6, <1>7, <1>8, <1>9, <1>10 DEF CallStep

\* The head operation settles, or goes on, and leaves the shapes.
LEMMA TypeHead ==
  ASSUME Shaped, ChainStep
  PROVE  TypeOK'
<1> USE DEF storage, sessions
<1>0. /\ TypeOK /\ disk \in Disks /\ entry \in EntryType /\ state \in StateType
      /\ live \in [Sessions -> LiveType] /\ disk.log \in Seq(Events) /\ batch \in Seq(Events)
      /\ Len(disk.log) \in Nat /\ state.cursor \in Nat /\ Balanced(disk.log) \in Seq(Events)
  BY LenProperties, BalancedFacts DEF Shaped, TypeOK, Disks, StateType
<1>1. CASE PrepareCore
  <2>1. chain # <<>> /\ Finish
    BY <1>1 DEF PrepareCore, AtHead
  <2>2. caller' \in [Callers -> CallType] /\ entry' \in EntryType
    <3>1. CASE disk.exists /\ store = Nobody
      <4>1. [entry EXCEPT !.phase = "ready", !.source = disk] \in EntryType
        BY <1>0 DEF EntryType
      <4> QED BY <1>0, <1>1, <3>1, <4>1, LoadShapes DEF PrepareCore
    <3>2. CASE ~ (disk.exists /\ store = Nobody)
      BY <1>0, <1>1, <3>2, LoadShapes, EntryShapes DEF PrepareCore
    <3> QED BY <3>1, <3>2
  <2> QED BY <1>0, <1>1, <2>1, <2>2, FinishShapes DEF PrepareCore, TypeOK
<1>2. CASE Check
  <2>1. chain # <<>> /\ Finish /\ chain[1].for \in Callers
    BY <1>0, <1>2, HeadFacts DEF Check, AtHead
  <2>2. Balanced(Source(chain[1].for).log) \in Seq(Events)
    BY <1>0, <2>1, BalancedFacts DEF Source, TypeOK, CallType, Disks
  <2>3. caller' \in [Callers -> CallType]
    BY <1>0, <1>2, <2>1, <2>2, CallerShapes DEF Check
  <2>4. entry' \in EntryType
    BY <1>0, <1>2, EntryShapes DEF Check
  <2> QED BY <1>0, <1>2, <2>1, <2>3, <2>4, FinishShapes DEF Check, TypeOK
<1>3. CASE CommitThrows
  <2>1. chain # <<>> /\ Finish /\ chain[1].for \in Callers
    BY <1>0, <1>3, HeadFacts DEF CommitThrows, AtHead
  <2> QED BY <1>0, <1>3, <2>1, FinishShapes, CallerShapes, EntryShapes DEF CommitThrows, TypeOK
<1>4. CASE CommitStale
  <2>1. chain # <<>> /\ Finish /\ chain[1].for \in Callers
    BY <1>0, <1>4, HeadFacts DEF CommitStale, AtHead
  <2> QED BY <1>0, <1>4, <2>1, FinishShapes, CallerShapes, EntryShapes DEF CommitStale, TypeOK
<1>5. CASE CommitRepairs
  BY <1>0, <1>5 DEF CommitRepairs, AtHead, TypeOK
<1>6. CASE Commit
  <2>1. chain # <<>> /\ Finish /\ chain[1].for \in Callers
    BY <1>0, <1>6, HeadFacts DEF Commit, AtHead
  <2>2. Balanced(Source(chain[1].for).log) \in Seq(Events)
    BY <1>0, <2>1, BalancedFacts DEF Source, TypeOK, CallType, Disks
  <2>3. state' \in StateType
    BY <1>0, <1>6, TrackedFacts DEF Commit
  <2>4. [entry EXCEPT !.phase = "reserved"] \in EntryType
    BY <1>0 DEF EntryType
  <2>5. caller' \in [Callers -> CallType]
    BY <1>0, <1>6, <2>1, <2>2, CallerShapes DEF Commit
  <2>6. entry' \in EntryType
    BY <1>0, <1>6, <2>4, EntryShapes, EmptyShapes DEF Commit
  <2> QED BY <1>0, <1>6, <2>1, <2>3, <2>5, <2>6, FinishShapes DEF Commit, TypeOK
<1>7. CASE RepairTruncates
  <2>1. [disk EXCEPT !.torn = FALSE] \in Disks
    BY <1>0 DEF Disks
  <2> QED BY <1>0, <1>7, <2>1 DEF RepairTruncates, TypeOK
<1>8. CASE RepairEnds
  <2>1. chain # <<>>
    BY <1>0, <1>8, Busy DEF RepairEnds
  <2>2. disk' \in Disks
    <3>1. [disk EXCEPT !.log = Balanced(@)] \in Disks
      BY <1>0 DEF Disks
    <3> QED BY <1>0, <1>8, <3>1 DEF RepairEnds
  <2>3. CASE chain[1].op = "commit"
    <3>1. chain[1].for \in Callers
      BY <1>0, <2>1, <2>3, HeadFacts
    <3> QED BY <1>0, <1>8, <2>1, <2>2, <2>3, <3>1, FinishShapes, CallerShapes, EntryShapes
            DEF RepairEnds, TypeOK
  <2>4. CASE chain[1].op # "commit"
    BY <1>0, <1>8, <2>1, <2>2, <2>4 DEF RepairEnds, TypeOK
  <2> QED BY <2>3, <2>4
<1>9. CASE AppendRefused
  <2>1. chain # <<>> /\ Finish /\ live' = Settled(FALSE)
    BY <1>9 DEF AppendRefused, AppendAtHead, AtHead
  <2> QED BY <1>0, <1>9, <2>1, FinishShapes, SettledShapes
          DEF AppendRefused, TypeOK
<1>10. CASE AppendAdopts
  <2>1. chain # <<>>
    BY <1>10 DEF AppendAdopts, AppendAtHead, AtHead
  <2>2. entry' \in EntryType
    BY <1>0, <1>10, EmptyShapes DEF AppendAdopts
  <2>3. state' \in StateType /\ stage' \in {"queued", "repair", "write", "header"}
    <3>1. \/ UNCHANGED <<state, stage>>
          \/ stage' = "repair" /\ UNCHANGED state
          \/ state' = Tracked(Len(disk.log), TRUE, Nobody) /\ UNCHANGED stage
      BY <1>10 DEF AppendAdopts
    <3>2. Tracked(Len(disk.log), TRUE, Nobody) \in StateType
      BY <1>0, TrackedFacts
    <3> QED BY <1>0, <3>1, <3>2 DEF TypeOK
  <2> QED BY <1>0, <1>10, <2>1, <2>2, <2>3 DEF AppendAdopts, TypeOK
<1>11. CASE AppendWrites
  <2>1. chain # <<>>
    BY <1>11 DEF AppendWrites, AppendAtHead, AtHead
  <2>2. batch' \in Seq(Events) /\ stage' = "write"
    BY <1>11, <2>1, PayloadType DEF AppendWrites
  <2> QED BY <1>0, <1>11, <2>1, <2>2 DEF AppendWrites, TypeOK
<1>12. CASE WriteStored
  <2>1. chain # <<>> /\ Finish /\ live' = Settled(TRUE)
    BY <1>0, <1>12, Busy DEF WriteStored
  <2>2. disk.log \o batch \in Seq(Events) /\ Len(batch) \in Nat
    BY <1>0, ConcatFacts
  <2>3. disk' \in Disks
    BY <1>12, <2>2 DEF WriteStored, Disks
  <2>4. state' \in StateType
    <3>1. state.cursor + Len(batch) \in Nat
      BY <1>0, <2>2
    <3> QED BY <1>0, <1>12, <3>1 DEF WriteStored, StateType
  <2> QED BY <1>0, <1>12, <2>1, <2>3, <2>4, FinishShapes, SettledShapes, EmptyShapes
          DEF WriteStored, TypeOK
<1>13. CASE Claims
  <2>1. chain # <<>> /\ chain[1].op = "created" /\ \E n \in Nat : BindSeed(chain[1].for, Seed, n)
    BY <1>0, <1>13 DEF Claims, CreatedAtHead, AtHead
  <2>2. state' \in StateType
    BY <1>0, <1>13, <2>1, SeedType DEF Claims, StateType
  <2> QED BY <1>0, <1>13, <2>1, <2>2, BindShapes DEF Claims, TypeOK
<1>14. CASE Reclaims
  BY <1>0, <1>14, EmptyShapes DEF Reclaims, TypeOK
<1>15. CASE Collides
  <2>1. chain # <<>> /\ Finish /\ live' = Settled(FALSE)
    BY <1>15 DEF Collides, CreatedAtHead, AtHead
  <2> QED BY <1>0, <1>15, <2>1, FinishShapes, SettledShapes
          DEF Collides, TypeOK
<1>16. CASE AdoptsLivePrefix
  <2>1. chain # <<>> /\ chain[1].op = "created"
    BY <1>16 DEF AdoptsLivePrefix, CreatedAtHead, AtHead
  <2>2. CASE disk.torn
    BY <1>0, <1>16, <2>1, <2>2 DEF AdoptsLivePrefix, TypeOK
  <2>3. CASE ~ disk.torn
    <3>1. /\ \E n \in Nat : BindSeed(chain[1].for, Seed, n)
          /\ state' = Tracked(Len(disk.log), TRUE, chain[1].for)
      BY <1>0, <1>16, <2>3 DEF AdoptsLivePrefix
    <3>2. state' \in StateType
      BY <1>0, <2>1, <3>1, SeedType, TrackedFacts
    <3> QED BY <1>0, <1>16, <2>1, <3>1, <3>2, BindShapes DEF AdoptsLivePrefix, TypeOK
  <2> QED BY <2>2, <2>3
<1>17. CASE RegistersNew
  <2>1. chain # <<>> /\ chain[1].op = "created" /\ \E n \in Nat : BindSeed(chain[1].for, Seed, n)
    BY <1>17 DEF RegistersNew, CreatedAtHead, AtHead
  <2>2. state' \in StateType
    BY <1>17, <2>1, SeedType, TrackedFacts DEF RegistersNew
  <2> QED BY <1>0, <1>17, <2>1, <2>2, BindShapes DEF RegistersNew, TypeOK
<1>18. CASE ReleaseOwner
  <2>1. chain # <<>> /\ Finish /\ chain[1].for \in Sessions
    BY <1>0, <1>18, HeadFacts DEF ReleaseOwner, AtHead, SessionOps
  <2> DEFINE m == [NoLive EXCEPT !.retiring = "released"]
  <2>2. m \in LiveType /\ m.writing = 0 /\ m.queue = <<>> /\ Len(m.queue) = 0
    BY EmptyShapes DEF LiveType, NoLive
  <2>3. live' = [live EXCEPT ![chain[1].for] = m]
    BY <1>18 DEF ReleaseOwner
  <2> HIDE DEF m
  <2>4. /\ live' \in [Sessions -> LiveType]
        /\ \A s \in Sessions : live'[s].writing <= Len(live'[s].queue)
    BY <1>0, <2>1, <2>2, <2>3 DEF TypeOK
  <2>5. hist' \in [Sessions -> Seq(Events)]
    BY <1>0, <1>18, <2>1, EventFacts DEF ReleaseOwner, TypeOK
  <2>6. retirement' \in Sessions \cup {Nobody} /\ state' \in StateType
    BY <1>0, <1>18, EmptyShapes DEF ReleaseOwner, Forget, TypeOK
  <2> QED BY <1>0, <1>18, <2>1, <2>4, <2>5, <2>6, FinishShapes DEF ReleaseOwner, TypeOK
<1>19. CASE HeaderDecides
  <2>1. chain # <<>>
    BY <1>19 DEF HeaderDecides, AtHead
  <2> QED BY <1>0, <1>19, <2>1, FinishShapes DEF HeaderDecides, TypeOK
<1>20. CASE HeaderStored
  <2>1. chain # <<>>
    BY <1>0, <1>20, Busy DEF HeaderStored
  <2>2. disk' \in Disks /\ state' \in StateType
    BY <1>0, <1>20 DEF HeaderStored, Disks, StateType
  <2> QED BY <1>0, <1>20, <2>1, <2>2, FinishShapes, EmptyShapes DEF HeaderStored, TypeOK
<1>21. CASE CreateCore
  <2>1. chain # <<>>
    BY <1>21 DEF CreateCore, AtHead
  <2>2. state' \in StateType
    BY <1>0, <1>21, TrackedFacts DEF CreateCore
  <2> QED BY <1>0, <1>21, <2>1, <2>2, FinishShapes DEF CreateCore, TypeOK
<1> QED BY <1>1, <1>2, <1>3, <1>4, <1>5, <1>6, <1>7, <1>8, <1>9, <1>10, <1>11, <1>12,
           <1>13, <1>14, <1>15, <1>16, <1>17, <1>18, <1>19, <1>20, <1>21 DEF ChainStep

LEMMA TypeRefusal ==
  ASSUME Shaped, Refusal
  PROVE  TypeOK'
<1> USE DEF storage, sessions
<1>0. TypeOK
  BY DEF Shaped
<1>1. CASE RepairFails
  <2>1. chain # <<>> /\ Finish
    BY <1>0, <1>1, Busy DEF RepairFails
  <2>2. CASE chain[1].op = "commit"
    <3>1. chain[1].for \in Callers
      BY <1>0, <2>1, <2>2, HeadFacts
    <3> QED BY <1>0, <1>1, <2>1, <2>2, <3>1, FinishShapes, CallerShapes, EntryShapes, UpsetFacts
            DEF RepairFails, TypeOK
  <2>3. CASE chain[1].op # "commit"
    BY <1>0, <1>1, <2>1, <2>3, FinishShapes, SettledShapes, UpsetFacts
       DEF RepairFails, TypeOK
  <2> QED BY <2>2, <2>3
<1>2. CASE ReadFails
  <2>1. chain # <<>> /\ Finish
    BY <1>2 DEF ReadFails, AtHead
  <2>2. caller' \in [Callers -> CallType] /\ entry' \in EntryType
    <3>1. chain[1].op \in {"check", "commit"} => chain[1].for \in Callers
      BY <1>0, <2>1, HeadFacts
    <3>2. caller \in [Callers -> CallType] /\ entry \in EntryType
      BY <1>0 DEF TypeOK
    <3> QED BY <1>0, <1>2, <3>1, <3>2, LoadShapes, CallerShapes, EntryShapes DEF ReadFails, AtHead
  <2>3. /\ live' \in [Sessions -> LiveType]
        /\ \A s \in Sessions : live'[s].writing <= Len(live'[s].queue)
    <3>1. live' = live \/ live' = Settled(FALSE)
      BY <1>2 DEF ReadFails
    <3> QED BY <1>0, <2>1, <3>1, SettledShapes DEF TypeOK
  <2> QED BY <1>0, <1>2, <2>1, <2>2, <2>3, FinishShapes, UpsetFacts DEF ReadFails, TypeOK
<1>3. CASE WriteRefused
  <2>1. chain # <<>> /\ Finish /\ live' = Settled(FALSE)
    BY <1>0, <1>3, Busy DEF WriteRefused
  <2> QED BY <1>0, <1>3, <2>1, FinishShapes, SettledShapes, UpsetFacts
          DEF WriteRefused, TypeOK
<1>4. CASE HeaderRefused
  <2>1. chain # <<>>
    BY <1>0, <1>4, Busy DEF HeaderRefused
  <2> QED BY <1>0, <1>4, <2>1, FinishShapes, UpsetFacts DEF HeaderRefused, TypeOK
<1> QED BY <1>1, <1>2, <1>3, <1>4 DEF Refusal

\* A session that is new enters with an empty controller.
LEMMA NewLive ==
  /\ \A n \in Nat : [NoLive EXCEPT !.on = TRUE, !.init = "pending", !.seed = n] \in LiveType
  /\ \A i \in {"ok", "pending"} : [NoLive EXCEPT !.on = TRUE, !.init = i] \in LiveType
  /\ NoLive \in LiveType /\ NoLive.queue = <<>> /\ NoLive.writing = 0
  /\ 0 <= Len(<<>>)
<1>1. Len(<<>>) = 0
  OBVIOUS
<1>2. 0 <= Len(<<>>)
  BY <1>1
<1> QED BY <1>2, EmptyShapes DEF LiveType, NoLive

\* Sessions coming and going, and the calls that need no preparation.
LEMMA TypeSessions ==
  ASSUME Shaped,
         \/ \E s \in Sessions : RetireStep(s)
         \/ \E replay \in BOOLEAN : CreateSession(replay)
         \/ \E c \in Callers : Publish(c)
         \/ SessionAppends \/ Dispose \/ EnsureMaterialized
         \/ CreateCall \/ AppendCall \/ Evict
  PROVE  TypeOK'
<1> USE DEF storage, sessions
<1>0. /\ TypeOK /\ live \in [Sessions -> LiveType] /\ disk.log \in Seq(Events)
      /\ state \in StateType /\ hist \in [Sessions -> Seq(Events)]
      /\ \A s \in Sessions : /\ live[s] \in LiveType /\ live[s].queue \in Seq(Nat)
                             /\ live[s].writing \in Nat
                             /\ live[s].writing <= Len(live[s].queue)
  BY DEF Shaped, TypeOK, Disks, LiveType
<1>1. ASSUME NEW s \in Sessions, StartWrite(s) PROVE TypeOK'
  <2> DEFINE f == IF Flushing(s) THEN "writing" ELSE "none"
             m == [live[s] EXCEPT !.writing = Len(live[s].queue), !.flush = f]
  <2>1. chain' \in Seq(Operations) /\ chain' # <<>>
    <3>1. Op("write", s) \in Operations
      BY NewOps DEF SessionOps
    <3> QED BY <1>0, <1>1, <3>1, SerializeShapes DEF StartWrite
  <2>2. f \in {"none", "writing"} /\ Len(live[s].queue) \in Nat
    BY <1>0, LenProperties
  <2>3. live' = [live EXCEPT ![s] = m]
    BY <1>0, <1>1 DEF StartWrite
  <2> HIDE DEF f
  <2>4. m \in LiveType /\ m.queue = live[s].queue /\ m.writing = Len(live[s].queue)
    BY <1>0, <2>2 DEF LiveType
  <2> HIDE DEF m
  <2>5. m.writing <= Len(m.queue)
    BY <2>2, <2>4
  <2> QED BY <1>0, <1>1, <2>1, <2>3, <2>4, <2>5 DEF StartWrite, TypeOK
<1>2. ASSUME NEW s \in Sessions, RetireFails(s) PROVE TypeOK'
  <2> DEFINE m == [live[s] EXCEPT !.retiring = "failed"]
  <2>1. live' = [live EXCEPT ![s] = m] /\ m \in LiveType /\ m.writing <= Len(m.queue)
    BY <1>0, <1>2 DEF RetireFails, LiveType
  <2> HIDE DEF m
  <2> QED BY <1>0, <1>2, <2>1 DEF RetireFails, Forget, TypeOK
<1>3. ASSUME NEW s \in Sessions, RetireFlushed(s) PROVE TypeOK'
  <2> DEFINE m == [live[s] EXCEPT !.retiring = "releasing"]
  <2>1. live' = [live EXCEPT ![s] = m] /\ m \in LiveType /\ m.writing <= Len(m.queue)
    BY <1>0, <1>3 DEF RetireFlushed, LiveType
  <2> HIDE DEF m
  <2>2. chain' \in Seq(Operations) /\ chain' # <<>>
    <3>1. Op("release", s) \in Operations
      BY NewOps DEF SessionOps
    <3> QED BY <1>0, <1>3, <3>1, SerializeShapes DEF RetireFlushed
  <2> QED BY <1>0, <1>3, <2>1, <2>2 DEF RetireFlushed, TypeOK
<1>4. ASSUME NEW replay \in BOOLEAN, CreateSession(replay) PROVE TypeOK'
  <2> DEFINE s == Newborn
             history == IF replay THEN Marked(disk.log, s) ELSE <<>>
             m == [NoLive EXCEPT !.on = TRUE, !.init = "pending", !.seed = Len(history)]
  <2>1. s \in Sessions
    BY <1>4, NewbornFacts DEF CreateSession
  <2>2. history \in Seq(Events) /\ Len(history) \in Nat
    BY <1>0, <2>1, MarkedFacts, EventFacts, LenProperties
  <2>3. /\ Enters(s, history)
        /\ IF running THEN live' = [live EXCEPT ![s] = m] /\ Serialize(Op("created", s))
           ELSE UNCHANGED <<live, chain>>
    BY <1>4 DEF CreateSession
  <2>4. m \in LiveType /\ m.writing = 0 /\ m.queue = <<>> /\ 0 <= Len(m.queue)
    BY <2>2, NewLive, EmptyShapes DEF LiveType
  <2> HIDE DEF s, history, m
  <2>5. /\ chain' \in Seq(Operations) /\ (chain' = <<>> => stage = "queued")
        /\ live' \in [Sessions -> LiveType]
        /\ \A t \in Sessions : live'[t].writing <= Len(live'[t].queue)
    <3>1. CASE running
      <4>1. Op("created", s) \in Operations
        BY <2>1, NewOps DEF SessionOps
      <4>2. chain' \in Seq(Operations) /\ chain' # <<>>
        BY <1>0, <2>3, <3>1, <4>1, SerializeShapes
      <4>3. live' \in [Sessions -> LiveType] /\ m.writing <= Len(m.queue)
        BY <1>0, <2>1, <2>3, <2>4, <3>1
      <4> QED BY <1>0, <2>1, <2>3, <3>1, <4>2, <4>3
    <3>2. CASE ~ running
      BY <1>0, <2>3, <3>2 DEF TypeOK
    <3> QED BY <3>1, <3>2
  <2> QED BY <1>0, <1>4, <2>1, <2>2, <2>3, <2>5 DEF CreateSession, Enters, TypeOK
<1>5. ASSUME NEW c \in Callers, Publish(c) PROVE TypeOK'
  <2> DEFINE s == Newborn
             history == Marked(caller[c].view, s) \o caller[c].extra
             suffix == SubSeq(history, state.cursor + 1, Len(history))
             i == IF suffix = <<>> THEN "ok" ELSE "pending"
             m == [NoLive EXCEPT !.on = TRUE, !.init = i]
             o == [op |-> "suffix", for |-> s, events |-> suffix, from |-> state.cursor]
  <2>1. s \in Sessions
    BY <1>5, NewbornFacts DEF Publish
  <2>2. history \in Seq(Events) /\ Len(history) \in Nat
    <3>1. caller[c].view \in Seq(Events) /\ caller[c].extra \in Seq(Events)
      BY <1>0 DEF TypeOK, CallType
    <3>2. Marked(caller[c].view, s) \in Seq(Events)
      BY <2>1, <3>1, MarkedFacts
    <3> QED BY <3>1, <3>2, ConcatFacts, LenProperties
  <2>3. /\ Enters(s, history) /\ live' = [live EXCEPT ![s] = m]
        /\ IF suffix = <<>> THEN UNCHANGED chain ELSE Serialize(o)
        /\ state' = [state EXCEPT !.owner = s] /\ entry' = NoEntry
        /\ caller' = HangUp(c)
        /\ UNCHANGED <<running, disk, stage, batch, upsets, retirement, made>>
    BY <1>5 DEF Publish
  <2> HIDE DEF history
  <2>4. suffix \in Seq(Events) /\ state.cursor \in Nat
    <3>1. state.cursor \in Nat /\ state.cursor + 1 \in Nat \ {0}
      BY <1>0 DEF StateType
    <3> QED BY <2>2, <3>1, SubSeqFacts
  <2> HIDE DEF suffix, s
  <2>5. m \in LiveType /\ m.writing = 0 /\ m.queue = <<>> /\ 0 <= Len(m.queue)
    <3>1. i \in {"ok", "pending"}
      OBVIOUS
    <3> HIDE DEF i
    <3> QED BY <3>1, NewLive, EmptyShapes DEF LiveType
  <2> HIDE DEF m
  <2>6. chain' \in Seq(Operations) /\ (chain' = <<>> => stage = "queued")
    <3>1. CASE suffix = <<>>
      BY <1>0, <2>3, <3>1 DEF TypeOK
    <3>2. CASE suffix # <<>>
      <4>1. o \in Operations
        BY <2>1, <2>4, NewOps
      <4> HIDE DEF o
      <4> QED BY <1>0, <2>3, <3>2, <4>1, SerializeShapes
    <3> QED BY <3>1, <3>2
  <2>7. state' \in StateType
    BY <1>0, <2>1, <2>3 DEF StateType
  <2>8. /\ live' \in [Sessions -> LiveType]
        /\ \A t \in Sessions : live'[t].writing <= Len(live'[t].queue)
    BY <1>0, <2>1, <2>3, <2>5
  <2> HIDE DEF o, i
  <2>9. caller' \in [Callers -> CallType] /\ entry' \in EntryType
    BY <1>0, <2>3, CallerShapes, EmptyShapes
  <2> QED BY <1>0, <2>1, <2>2, <2>3, <2>6, <2>7, <2>8, <2>9 DEF Enters, TypeOK
<1>6. CASE SessionAppends
  <2> DEFINE h == hist[store]
             e == [by |-> store, kind |-> IF Open(h) THEN "end" ELSE "start"]
             q == Append(live[store].queue, Len(h))
             m == [live[store] EXCEPT !.queue = q]
  <2>1. store \in Sessions /\ h \in Seq(Events) /\ Len(h) \in Nat
    BY <1>0, <1>6, LenProperties DEF SessionAppends, TypeOK
  <2>2. e \in Events
    BY <2>1, EventFacts
  <2>3. hist' = [hist EXCEPT ![store] = Append(h, e)]
        /\ live' = IF running THEN [live EXCEPT ![store] = m] ELSE live
    BY <1>0, <1>6, <2>1 DEF SessionAppends
  <2> HIDE DEF e
  <2>4. Append(h, e) \in Seq(Events) /\ q \in Seq(Nat) /\ Len(q) = Len(live[store].queue) + 1
    BY <1>0, <2>1, <2>2, AppendFacts
  <2>5. Len(live[store].queue) \in Nat
    BY <1>0, <2>1, LenProperties
  <2> HIDE DEF h, q
  <2>6. m \in LiveType /\ m.writing = live[store].writing /\ m.queue = q
    BY <1>0, <2>1, <2>4 DEF LiveType
  <2>7. m.writing <= Len(m.queue)
    BY <1>0, <2>1, <2>4, <2>5, <2>6
  <2> HIDE DEF m
  <2>8. hist' \in [Sessions -> Seq(Events)]
    BY <1>0, <2>1, <2>3, <2>4
  <2>9. /\ live' \in [Sessions -> LiveType]
        /\ \A t \in Sessions : live'[t].writing <= Len(live'[t].queue)
    BY <1>0, <2>1, <2>3, <2>6, <2>7
  <2> QED BY <1>0, <1>6, <2>8, <2>9 DEF SessionAppends, TypeOK
<1>7. CASE Dispose
  <2> DEFINE m == [live[store] EXCEPT !.retiring = "flushing"]
  <2>1. store \in Sessions
    BY <1>0, <1>7 DEF Dispose, TypeOK
  <2>2. m \in LiveType /\ m.writing <= Len(m.queue)
    BY <1>0, <2>1 DEF LiveType
  <2>3. live' = live \/ live' = [live EXCEPT ![store] = m]
    BY <1>0, <1>7, <2>1 DEF Dispose
  <2> HIDE DEF m
  <2>4. /\ live' \in [Sessions -> LiveType]
        /\ \A t \in Sessions : live'[t].writing <= Len(live'[t].queue)
    BY <1>0, <2>1, <2>2, <2>3
  <2>5. retirement' \in Sessions \cup {Nobody} /\ life' \in [Sessions -> {"unborn", "live", "over"}]
    BY <1>0, <1>7, <2>1 DEF Dispose, TypeOK
  <2> QED BY <1>0, <1>7, <2>4, <2>5 DEF Dispose, TypeOK
<1>8. CASE EnsureMaterialized
  <2>1. Op("header", store) \in Operations
    BY <1>0, <1>8, NewOps DEF EnsureMaterialized, SessionOps, TypeOK
  <2>2. chain' \in Seq(Operations) /\ chain' # <<>>
    BY <1>0, <1>8, <2>1, SerializeShapes DEF EnsureMaterialized
  <2> QED BY <1>0, <1>8, <2>2 DEF EnsureMaterialized, Makes, TypeOK
<1>9. CASE CreateCall
  <2>1. chain' \in Seq(Operations) /\ chain' # <<>>
    BY <1>0, <1>9, NewOps, SerializeShapes DEF CreateCall
  <2> QED BY <1>0, <1>9, <2>1 DEF CreateCall, Makes, TypeOK
<1>10. CASE AppendCall
  <2> DEFINE e == <<[by |-> Outside, kind |-> "note"]>>
             n == Len(Balanced(disk.log))
             o == [op |-> "append", for |-> Outside, events |-> e, from |-> n]
  <2>1. e \in Seq(Events) /\ n \in Nat
    BY <1>0, EventFacts, BalancedFacts, LenProperties
  <2>2. Serialize(o)
    BY <1>10 DEF AppendCall
  <2> HIDE DEF e, n
  <2>3. o \in Operations
    BY <2>1, NewOps
  <2> HIDE DEF o
  <2>4. chain' \in Seq(Operations) /\ chain' # <<>>
    BY <1>0, <2>2, <2>3, SerializeShapes
  <2> QED BY <1>0, <1>10, <2>4 DEF AppendCall, Makes, TypeOK
<1>11. CASE Evict
  BY <1>0, <1>11, EmptyShapes DEF Evict, TypeOK
<1> QED BY <1>1, <1>2, <1>3, <1>4, <1>5, <1>6, <1>7, <1>8, <1>9, <1>10, <1>11 DEF RetireStep

\* What a crash leaves is a log.
LEMMA LeftoverShapes ==
  ASSUME TypeOK, NEW d \in Leftovers
  PROVE  d \in Disks /\ (disk.exists \/ disk.log = <<>> => IsPrefix(disk.log, d.log))
<1>1. /\ disk \in Disks /\ disk.log \in Seq(Events) /\ disk.exists \in BOOLEAN
      /\ disk.torn \in BOOLEAN /\ batch \in Seq(Events) /\ Balanced(disk.log) \in Seq(Events)
      /\ IsPrefix(disk.log, Balanced(disk.log)) /\ IsPrefix(disk.log, disk.log)
  BY BalancedFacts, PrefixRefl DEF TypeOK, Disks
<1> DEFINE left(n, t) == [exists |-> TRUE, log |-> disk.log \o SubSeq(batch, 1, n), torn |-> t]
<1>2. ASSUME NEW n \in 0 .. Len(batch), NEW t \in BOOLEAN, disk.exists, d = left(n, t)
      PROVE  d \in Disks /\ IsPrefix(disk.log, d.log)
  <2>1. n \in Nat /\ n <= Len(batch)
    BY <1>1, LenProperties
  <2>2. SubSeq(batch, 1, n) \in Seq(Events)
    BY <1>1, <2>1, SubSeqFacts
  <2>3. /\ disk.log \o SubSeq(batch, 1, n) \in Seq(Events)
        /\ IsPrefix(disk.log, disk.log \o SubSeq(batch, 1, n))
    BY <1>1, <2>2, ConcatFacts
  <2> QED BY <1>2, <2>3 DEF Disks
<1>3. ASSUME ~ disk.exists, d = [exists |-> TRUE, log |-> batch, torn |-> FALSE]
      PROVE  d \in Disks /\ (disk.log = <<>> => IsPrefix(disk.log, d.log))
  <2>1. batch = <<>> \o batch /\ IsPrefix(<<>>, <<>> \o batch)
    BY <1>1, EventFacts, ConcatEmptySeq, ConcatFacts
  <2> QED BY <1>1, <1>3, <2>1 DEF Disks
<1>4. ASSUME d \in {disk, [disk EXCEPT !.exists = TRUE], [disk EXCEPT !.log = Balanced(@)],
                    [disk EXCEPT !.torn = TRUE], [disk EXCEPT !.torn = FALSE]}
      PROVE  d \in Disks /\ IsPrefix(disk.log, d.log)
  BY <1>1, <1>4 DEF Disks
<1> DEFINE Appended == {left(n, t) : n \in 0 .. Len(batch), t \in BOOLEAN}
           First == {[exists |-> TRUE, log |-> batch, torn |-> FALSE]}
           Same == {disk, [disk EXCEPT !.exists = TRUE], [disk EXCEPT !.log = Balanced(@)],
                    [disk EXCEPT !.torn = TRUE], [disk EXCEPT !.torn = FALSE]}
<1>5. Leftovers \subseteq Same \cup (IF stage = "write" /\ disk.exists THEN Appended ELSE {})
                              \cup (IF stage = "write" /\ ~ disk.exists THEN First ELSE {})
  <2> HIDE DEF Appended, First
  <2>1. Leftovers = {disk} \cup
          (IF stage = "write" /\ disk.exists THEN Appended
           ELSE IF stage = "write" THEN First
           ELSE IF stage = "header" THEN {[disk EXCEPT !.exists = TRUE]}
           ELSE IF stage = "repair" /\ chain[1].op # "created" /\ ~ disk.torn
           THEN {[disk EXCEPT !.log = Balanced(@)], [disk EXCEPT !.torn = TRUE]}
           ELSE IF stage = "repair" THEN {[disk EXCEPT !.torn = FALSE]}
           ELSE {})
    BY DEF Leftovers, Appended, First
  <2> QED BY <2>1
<1>6. CASE d \in Same
  BY <1>4, <1>6
<1>7. CASE d \in Appended /\ disk.exists
  <2> HIDE DEF left
  <2>1. PICK n \in 0 .. Len(batch), t \in BOOLEAN : d = left(n, t)
    BY <1>7
  <2>2. d \in Disks /\ IsPrefix(disk.log, d.log)
    BY <1>2, <1>7, <2>1
  <2> QED BY <2>2
<1>8. CASE d \in First /\ ~ disk.exists
  BY <1>3, <1>8
<1> HIDE DEF Appended, First, Same
<1> QED BY <1>5, <1>6, <1>7, <1>8

LEMMA TypeUpsets ==
  ASSUME Shaped, Stop \/ Start \/ Crash
  PROVE  TypeOK'
<1> USE DEF storage, sessions
<1>0. /\ TypeOK /\ live \in [Sessions -> LiveType] /\ hist \in [Sessions -> Seq(Events)]
      /\ \A s \in Sessions : /\ live[s] \in LiveType /\ Len(hist[s]) \in Nat
                             /\ live[s].writing <= Len(live[s].queue)
  BY LenProperties DEF Shaped, TypeOK
<1>1. CASE Stop
  <2>1. \A s \in Sessions :
          live'[s] = [live[s] EXCEPT !.flush = IF @ = "refused" THEN "none" ELSE @]
    BY <1>1 DEF Stop
  <2>2. \A s \in Sessions : /\ live'[s] \in LiveType
                            /\ live'[s].writing = live[s].writing /\ live'[s].queue = live[s].queue
    BY <1>0, <2>1 DEF LiveType
  <2>3. live' = [s \in Sessions |-> live'[s]]
    BY <1>1 DEF Stop
  <2>4. live' \in [Sessions -> LiveType]
    BY <2>2, <2>3
  <2> QED BY <1>0, <1>1, <2>2, <2>4, UpsetFacts DEF Stop, TypeOK
<1>2. CASE Start
  <2>1. \A s \in Sessions :
          live'[s] = IF s = store THEN [NoLive EXCEPT !.on = TRUE, !.init = "pending",
                                                      !.seed = Len(hist[s])]
                     ELSE NoLive
    BY <1>2 DEF Start
  <2> DEFINE born(n) == [NoLive EXCEPT !.on = TRUE, !.init = "pending", !.seed = n]
  <2>2. \A n \in Nat : born(n) \in LiveType /\ born(n).writing = 0 /\ born(n).queue = <<>>
    BY NewLive DEF NoLive
  <2>7. \A s \in Sessions : live'[s] = NoLive \/ live'[s] = born(Len(hist[s]))
    BY <2>1
  <2> HIDE DEF born
  <2>8. \A s \in Sessions : /\ live'[s] \in LiveType
                            /\ live'[s].writing = 0 /\ live'[s].queue = <<>>
    BY <1>0, <2>2, <2>7, NewLive
  <2>3. live' = [s \in Sessions |-> live'[s]]
    BY <1>2 DEF Start
  <2>4. live' \in [Sessions -> LiveType] /\ \A s \in Sessions : live'[s].writing <= Len(live'[s].queue)
    <3>1. \A s \in Sessions : 0 <= Len(live'[s].queue)
      BY <2>8, NewLive
    <3>2. \A s \in Sessions : live'[s].writing <= Len(live'[s].queue)
      BY <2>8, <3>1
    <3> QED BY <2>3, <2>8, <3>2
  <2>5. hist' \in [Sessions -> Seq(Events)]
    BY <1>0, <1>2, EventFacts DEF Start
  <2>6. chain' \in Seq(Operations) /\ stage = "queued"
    <3>1. store # Nobody => <<Op("created", store)>> \in Seq(Operations)
      <4>1. store # Nobody => Op("created", store) \in Operations
        BY <1>0, NewOps DEF SessionOps, TypeOK
      <4> QED BY <4>1
    <3>2. <<>> \in Seq(Operations)
      OBVIOUS
    <3> QED BY <1>0, <1>2, <3>1, <3>2 DEF Start, TypeOK
  <2> QED BY <1>0, <1>2, <2>4, <2>5, <2>6, EmptyShapes DEF Start, TypeOK
<1>3. CASE Crash
  <2>1. disk' \in Disks /\ upsets' \in 0 .. MaxUpsets
    BY <1>0, <1>3, LeftoverShapes, UpsetFacts DEF Crash
  <2>2. /\ live' \in [Sessions -> LiveType]
        /\ \A s \in Sessions : live'[s].writing <= Len(live'[s].queue)
    <3>1. NoLive.writing <= Len(NoLive.queue)
      BY NewLive
    <3> QED BY <1>3, <3>1, NewLive DEF Crash
  <2>3. hist' \in [Sessions -> Seq(Events)] /\ caller' \in [Callers -> CallType]
    BY <1>3, EventFacts, EmptyShapes DEF Crash
  <2>4. life' \in [Sessions -> {"unborn", "live", "over"}]
    BY <1>0, <1>3 DEF Crash, TypeOK
  <2>5. chain' \in Seq(Operations) /\ stage' = "queued" /\ batch' \in Seq(Events)
    BY <1>3 DEF Crash
  <2> QED BY <1>0, <1>3, <2>1, <2>2, <2>3, <2>4, <2>5, EmptyShapes DEF Crash, TypeOK
<1> QED BY <1>1, <1>2, <1>3

LEMMA TypeStep ==
  ASSUME Shaped, [Next]_vars
  PROVE  TypeOK'
<1>1. CASE Next
  BY <1>1, TypeHead, TypeRefusal, TypeCalls, TypeSessions, TypeUpsets DEF Next
<1>2. CASE UNCHANGED vars
  BY <1>2 DEF Shaped, vars, TypeOK
<1> QED BY <1>1, <1>2

-----------------------------------------------------------------------------
(* The chain: what is queued afterwards was queued before *)

\* Every operation of these kinds on the next chain is one of this chain's, in
\* the same order, and none of those dropped.
From(kinds, dropped) ==
  \A i, j \in DOMAIN chain' :
    (chain'[i].op \in kinds /\ chain'[j].op \in kinds) =>
      \E k, m \in DOMAIN chain \ dropped :
        /\ chain'[i] = chain[k] /\ chain'[j] = chain[m]
        /\ i # j => k # m
        /\ i < j => k < m

LEMMA FromSame ==
  ASSUME UNCHANGED chain
  PROVE  \A kinds : From(kinds, {})
BY DEF From

LEMMA FromTail ==
  ASSUME TypeOK, chain # <<>>, chain' = Tail(chain)
  PROVE  \A kinds : From(kinds, {1})
<1>1. \A i \in DOMAIN chain' :
        i + 1 \in DOMAIN chain \ {1} /\ i \in Nat /\ chain'[i] = chain[i + 1]
  <2>1. chain \in Seq(Operations)
    BY DEF TypeOK
  <2> QED BY <2>1, TailFacts
<1>2. \A i, j \in DOMAIN chain' : (i < j => i + 1 < j + 1) /\ (i # j => i + 1 # j + 1)
  BY <1>1
<1> QED BY <1>1, <1>2 DEF From

LEMMA FromRemoved ==
  ASSUME TypeOK, NEW n \in DOMAIN chain, chain' = RemoveAt(chain, n)
  PROVE  \A kinds : From(kinds, {n})
<1> DEFINE at(i) == IF i < n THEN i ELSE i + 1
<1>1. chain \in Seq(Operations)
  BY DEF TypeOK
<1>2. /\ DOMAIN chain = 1 .. Len(chain) /\ DOMAIN chain' = 1 .. Len(chain) - 1
      /\ Len(chain) \in Nat /\ n \in 1 .. Len(chain)
      /\ \A i \in DOMAIN chain' : chain'[i] = IF i < n THEN chain[i] ELSE chain[i + 1]
  BY <1>1, RemoveFacts
<1>3. \A i \in DOMAIN chain' : at(i) \in DOMAIN chain \ {n} /\ chain'[i] = chain[at(i)]
  BY <1>2
<1>4. \A i, j \in DOMAIN chain' : (i < j => at(i) < at(j)) /\ (i # j => at(i) # at(j))
  BY <1>2
<1> HIDE DEF at
<1> QED BY <1>3, <1>4 DEF From

LEMMA FromAppended ==
  ASSUME TypeOK, NEW kinds, \E o \in Operations : o.op \notin kinds /\ Serialize(o)
  PROVE  From(kinds, {})
<1>1. PICK o \in Operations : o.op \notin kinds /\ Serialize(o)
  OBVIOUS
<1>2. chain \in Seq(Operations)
  BY DEF TypeOK
<1>3. /\ DOMAIN chain' = 1 .. Len(chain) + 1 /\ DOMAIN chain = 1 .. Len(chain)
      /\ \A i \in DOMAIN chain : chain'[i] = chain[i]
      /\ chain'[Len(chain) + 1] = o /\ Len(chain) \in Nat
  BY <1>1, <1>2, AppendFacts DEF Serialize
<1>4. \A i \in DOMAIN chain' : chain'[i].op \in kinds =>
        i \in DOMAIN chain /\ chain'[i] = chain[i]
  BY <1>1, <1>3
<1> QED BY <1>4 DEF From

\* Nothing watched is added, and what is kept is still expected.
LEMMA QueuedKept ==
  ASSUME Shaped, NEW dropped, From(Watched, dropped),
         \A k \in DOMAIN chain \ dropped : Expected(live', chain[k])
  PROVE  Queued'
<1>1. \A i, j \in DOMAIN chain : i # j => Apart(chain[i], chain[j])
  BY DEF Shaped, Queued
<1>2. ASSUME NEW i \in DOMAIN chain' PROVE Expected(live', chain'[i])
  <2>1. CASE chain'[i].op \in Watched
    <3>1. PICK k \in DOMAIN chain \ dropped : chain'[i] = chain[k]
      BY <2>1 DEF From
    <3> QED BY <3>1
  <2>2. CASE chain'[i].op \notin Watched
    BY <2>2 DEF Expected, Watched
  <2> QED BY <2>1, <2>2
<1>3. ASSUME NEW i \in DOMAIN chain', NEW j \in DOMAIN chain', i # j
      PROVE  Apart(chain'[i], chain'[j])
  <2>1. CASE chain'[i].op \in Watched /\ chain'[j].op \in Watched
    <3>1. PICK k, m \in DOMAIN chain \ dropped :
            /\ chain'[i] = chain[k] /\ chain'[j] = chain[m]
            /\ k # m
      BY <1>3, <2>1 DEF From
    <3> QED BY <1>1, <3>1
  <2>2. CASE ~ (chain'[i].op \in Watched /\ chain'[j].op \in Watched)
    BY <2>2 DEF Apart, Watched
  <2> QED BY <2>1, <2>2
<1> QED BY <1>2, <1>3 DEF Queued

\* The chain gains an operation that is expected, and the first of its sort.
LEMMA QueuedPlus ==
  ASSUME Shaped, \A k \in DOMAIN chain : Expected(live', chain[k]),
         \E o \in Operations : /\ Serialize(o) /\ Expected(live', o)
                               /\ \A k \in DOMAIN chain : Apart(chain[k], o)
  PROVE  Queued'
<1>1. PICK o \in Operations : /\ Serialize(o) /\ Expected(live', o)
                              /\ \A k \in DOMAIN chain : Apart(chain[k], o)
  OBVIOUS
<1>2. chain \in Seq(Operations) /\ \A i, j \in DOMAIN chain : i # j => Apart(chain[i], chain[j])
  BY DEF Shaped, TypeOK, Queued
<1>3. /\ DOMAIN chain' = 1 .. Len(chain) + 1 /\ DOMAIN chain = 1 .. Len(chain)
      /\ \A i \in DOMAIN chain : chain'[i] = chain[i]
      /\ chain'[Len(chain) + 1] = o /\ Len(chain) \in Nat
  BY <1>1, <1>2, AppendFacts DEF Serialize
<1>4. \A i \in DOMAIN chain' : i \in DOMAIN chain \/ i = Len(chain) + 1
  BY <1>3
<1>5. \A i \in DOMAIN chain' : Expected(live', chain'[i])
  BY <1>1, <1>3, <1>4
<1>6. \A k \in DOMAIN chain : Apart(o, chain[k])
  BY <1>1 DEF Apart
<1>7. \A i, j \in DOMAIN chain' : i # j => Apart(chain'[i], chain'[j])
  BY <1>1, <1>2, <1>3, <1>4, <1>6
<1> QED BY <1>5, <1>7 DEF Queued

\* The head goes on as an operation of its own sort.
LEMMA QueuedOn ==
  ASSUME Shaped, chain # <<>>, UNCHANGED live, chain[1].op \in InitOps,
         \E o \in Operations : /\ o.op \in InitOps /\ o.for = chain[1].for
                               /\ chain' = <<o>> \o Tail(chain)
  PROVE  Queued'
<1>1. PICK o \in Operations : /\ o.op \in InitOps /\ o.for = chain[1].for
                              /\ chain' = <<o>> \o Tail(chain)
  OBVIOUS
<1>2. TypeOK /\ chain \in Seq(Operations)
  BY DEF Shaped, TypeOK
<1>3. /\ Tail(chain) \in Seq(Operations) /\ Len(Tail(chain)) = Len(chain) - 1
      /\ DOMAIN chain = 1 .. Len(chain) /\ Len(chain) \in Nat \ {0}
      /\ \A i \in 1 .. Len(chain) - 1 : Tail(chain)[i] = chain[i + 1]
  BY <1>2, TailFacts
<1>4. <<o>> \in Seq(Operations) /\ Len(<<o>>) = 1 /\ <<o>>[1] = o
  OBVIOUS
<1>5. /\ chain' \in Seq(Operations) /\ Len(chain') = Len(<<o>>) + Len(Tail(chain))
      /\ \A i \in 1 .. Len(<<o>>) + Len(Tail(chain)) :
           chain'[i] = IF i <= Len(<<o>>) THEN <<o>>[i] ELSE Tail(chain)[i - Len(<<o>>)]
  BY <1>1, <1>3, <1>4, ConcatProperties
<1>6. DOMAIN chain' = DOMAIN chain
  BY <1>3, <1>4, <1>5, LenProperties
<1>7. chain'[1] = o
  BY <1>3, <1>4, <1>5
<1>8. ASSUME NEW i \in DOMAIN chain, i # 1 PROVE chain'[i] = chain[i]
  <2>1. i - 1 \in 1 .. Len(chain) - 1 /\ i - 1 + 1 = i /\ ~ (i <= 1)
    BY <1>3, <1>8
  <2> QED BY <1>3, <1>4, <1>5, <1>6, <2>1
<1>9. /\ Expected(live, chain[1]) /\ \A i \in DOMAIN chain : Expected(live, chain[i])
      /\ \A i, j \in DOMAIN chain : i # j => Apart(chain[i], chain[j])
  BY <1>3 DEF Shaped, Queued
<1>10. Expected(live', o)
  BY <1>1, <1>9 DEF Expected, InitOps
<1>11. \A i \in DOMAIN chain \ {1} : Apart(o, chain[i]) /\ Apart(chain[i], o)
  <2>1. SUFFICES ASSUME NEW i \in DOMAIN chain \ {1}
                 PROVE  Apart(o, chain[i]) /\ Apart(chain[i], o)
    OBVIOUS
  <2>2. Apart(chain[1], chain[i]) /\ Apart(chain[i], chain[1])
    BY <1>3, <1>9
  <2> QED BY <1>1, <2>2 DEF Apart, InitOps
<1>12. \A i \in DOMAIN chain' : Expected(live', chain'[i])
  BY <1>6, <1>7, <1>8, <1>9, <1>10
<1>13. \A i, j \in DOMAIN chain' : i # j => Apart(chain'[i], chain'[j])
  BY <1>6, <1>7, <1>8, <1>9, <1>11
<1> QED BY <1>12, <1>13 DEF Queued

-----------------------------------------------------------------------------
(* Lifecycle, Backlog and Queued from step to step *)

Kept == Lifecycle' /\ Backlog' /\ Queued'

LEMMA KeptQuiet ==
  ASSUME Shaped, UNCHANGED <<store, life, hist, live>>, \E d : From(Watched, d)
  PROVE  Kept
<1>1. Lifecycle' /\ Backlog'
  BY DEF Shaped, Lifecycle, Backlog
<1>2. \A k \in DOMAIN chain : Expected(live', chain[k])
  BY DEF Shaped, Queued
<1>3. PICK d : From(Watched, d)
  OBVIOUS
<1>4. Queued'
  BY <1>2, <1>3, QueuedKept
<1> QED BY <1>1, <1>4 DEF Kept

LEMMA SameLive ==
  ASSUME NEW l \in LiveType, NEW m \in LiveType,
         m.on = l.on, m.seed = l.seed, m.retiring = l.retiring, m.queue = l.queue,
         m.writing = l.writing, m.flush = l.flush, m.init = l.init
  PROVE  m = l
BY DEF LiveType

\* An outcome is heard by the session that still awaits it.
LEMMA KeptSettled ==
  ASSUME Shaped, chain # <<>>, Finish, live' \in {Settled(TRUE), Settled(FALSE)},
         UNCHANGED <<store, life, hist>>
  PROVE  Kept
<1>0. TypeOK /\ Lifecycle /\ Backlog /\ Queued /\ chain' = Tail(chain)
  BY DEF Shaped, Finish
<1> DEFINE s0 == chain[1].for
<1>1. PICK ok \in BOOLEAN : live' = Settled(ok)
  OBVIOUS
<1>2. ASSUME NEW s \in Sessions
      PROVE  /\ live'[s] \in LiveType /\ live[s] \in LiveType
             /\ live'[s].on = live[s].on /\ live'[s].seed = live[s].seed
             /\ live'[s].retiring = live[s].retiring
             /\ ~ (chain[1].op = "write" /\ s0 = s) =>
                  /\ live'[s].queue = live[s].queue /\ live'[s].writing = live[s].writing
                  /\ live'[s].flush = live[s].flush
             /\ ~ (chain[1].op \in InitOps /\ s0 = s) => live'[s].init = live[s].init
  <2>1. live[s] \in LiveType
    BY <1>0 DEF TypeOK
  <2>2. Settled(ok)[s] \in LiveType
    BY <1>0, SettledFacts
  <2> QED BY <1>0, <1>1, <2>1, <2>2, SettledFacts
<1>3. /\ 1 \in DOMAIN chain /\ Expected(live, chain[1])
      /\ \A k \in DOMAIN chain \ {1} : Apart(chain[1], chain[k]) /\ Expected(live, chain[k])
  BY <1>0, HeadFacts DEF Queued
<1>4. Queued'
  <2>1. ASSUME NEW k \in DOMAIN chain \ {1} PROVE Expected(live', chain[k])
    <3>1. chain[k] \in Operations
      BY <1>0, ElementOfSeq, LenProperties DEF TypeOK
    <3>2. Expected(live, chain[k]) /\ Apart(chain[1], chain[k])
      BY <1>3
    <3>3. chain[k].op \in Watched => chain[k].for \in Sessions
      BY <3>1, OpFacts DEF Watched, InitOps, SessionOps
    <3>4. CASE chain[k].op = "write"
      BY <1>2, <3>2, <3>3, <3>4 DEF Expected, Apart, Watched, InitOps
    <3>5. CASE chain[k].op = "release"
      BY <1>2, <3>2, <3>3, <3>5 DEF Expected, Apart, Watched, InitOps
    <3>6. CASE chain[k].op \in InitOps
      BY <1>2, <3>2, <3>3, <3>6 DEF Expected, Apart, Watched, InitOps
    <3>7. CASE chain[k].op \notin Watched
      BY <3>7 DEF Expected, Watched
    <3> QED BY <3>4, <3>5, <3>6, <3>7 DEF Watched
  <2> QED BY <1>0, <2>1, FromTail, QueuedKept
<1>5. Lifecycle'
  <2>1. SUFFICES ASSUME NEW s \in Sessions
                 PROVE  /\ life[s] = "live" <=> store = s
                        /\ life[s] = "unborn" => live'[s] = NoLive /\ hist[s] = <<>>
                        /\ live'[s].retiring # "no" => life[s] = "over"
                        /\ live'[s].retiring = "releasing" =>
                             /\ live'[s].queue = <<>> /\ live'[s].writing = 0
                             /\ live'[s].init = "ok"
    BY DEF Lifecycle
  <2>2. /\ life[s] = "live" <=> store = s
        /\ life[s] = "unborn" => live[s] = NoLive /\ hist[s] = <<>>
        /\ live[s].retiring # "no" => life[s] = "over"
        /\ live[s].retiring = "releasing" =>
             live[s].queue = <<>> /\ live[s].writing = 0 /\ live[s].init = "ok"
    BY <1>0 DEF Lifecycle
  <2>3. CASE chain[1].op = "write" /\ s0 = s
    <3>1. live[s].writing > 0
      BY <1>3, <2>3 DEF Expected
    <3>2. live[s] # NoLive /\ live[s].retiring # "releasing"
      BY <2>2, <3>1 DEF NoLive
    <3> QED BY <1>2, <2>2, <3>2
  <2>4. CASE chain[1].op \in InitOps /\ s0 = s
    <3>1. live[s].init = "pending"
      BY <1>3, <2>4 DEF Expected
    <3>2. live[s] # NoLive /\ live[s].retiring # "releasing"
      BY <2>2, <3>1 DEF NoLive
    <3> QED BY <1>2, <2>2, <3>2
  <2>5. CASE ~ (chain[1].op = "write" /\ s0 = s) /\ ~ (chain[1].op \in InitOps /\ s0 = s)
    <3>1. live'[s] = live[s]
      BY <1>2, <2>5, SameLive
    <3> QED BY <2>2, <3>1
  <2> QED BY <2>3, <2>4, <2>5
<1>6. Backlog'
  <2>1. SUFFICES ASSUME NEW s \in Sessions
                 PROVE  /\ live'[s].seed <= Len(hist[s])
                        /\ \A i \in DOMAIN live'[s].queue : live'[s].queue[i] < Len(hist[s])
    BY DEF Backlog
  <2>2. /\ live[s].seed <= Len(hist[s])
        /\ \A i \in DOMAIN live[s].queue : live[s].queue[i] < Len(hist[s])
    BY <1>0 DEF Backlog
  <2>3. \A i \in DOMAIN live'[s].queue :
          \E j \in DOMAIN live[s].queue : live'[s].queue[i] = live[s].queue[j]
    BY <1>0, <1>1, SettledQueues
  <2> QED BY <1>2, <2>2, <2>3
<1> QED BY <1>4, <1>5, <1>6 DEF Kept

LEMMA KeptBound ==
  ASSUME Shaped, chain # <<>>, chain[1].op = "created",
         \E n \in Nat : BindSeed(chain[1].for, Seed, n),
         UNCHANGED <<store, life, hist>>
  PROVE  Kept
<1>1. PICK n \in Nat : BindSeed(chain[1].for, Seed, n)
  OBVIOUS
<1>2. CASE Len(Seed) = n
  BY <1>1, <1>2, KeptSettled DEF BindSeed
<1>3. CASE Len(Seed) # n
  <2> DEFINE e == SubSeq(Seed, n + 1, Len(Seed))
             o == [op |-> "seed", for |-> chain[1].for, from |-> n, events |-> e]
  <2>1. e \in Seq(Events)
    BY <1>1, SeedType, SubSeqFacts
  <2>2. o.op = "seed" /\ o.for = chain[1].for
    OBVIOUS
  <2> HIDE DEF e
  <2>3. o \in Operations
    BY <1>1, <2>1, SeedType, NewOps
  <2> HIDE DEF o
  <2>4. chain' = <<o>> \o Tail(chain) /\ UNCHANGED live
    BY <1>1, <1>3 DEF BindSeed, GoOn, e, o
  <2>5. Queued'
    BY <2>2, <2>3, <2>4, QueuedOn DEF InitOps
  <2>6. Lifecycle' /\ Backlog'
    BY <2>4 DEF Shaped, Lifecycle, Backlog
  <2> QED BY <2>5, <2>6 DEF Kept
<1> QED BY <1>2, <1>3

\* The facts a session's own step starts from.
LEMMA SessionFacts ==
  ASSUME Shaped, NEW s \in Sessions
  PROVE  /\ live \in [Sessions -> LiveType] /\ live[s] \in LiveType
         /\ hist \in [Sessions -> Seq(Events)] /\ hist[s] \in Seq(Events)
         /\ live[s].queue \in Seq(Nat) /\ live[s].writing \in Nat /\ Len(hist[s]) \in Nat
         /\ life[s] = "live" <=> store = s
         /\ life[s] = "unborn" => live[s] = NoLive /\ hist[s] = <<>>
         /\ live[s].retiring # "no" => life[s] = "over"
         /\ live[s].retiring = "releasing" =>
              live[s].queue = <<>> /\ live[s].writing = 0 /\ live[s].init = "ok"
         /\ live[s].seed <= Len(hist[s])
         /\ \A i \in DOMAIN live[s].queue : live[s].queue[i] < Len(hist[s])
         /\ \A k \in DOMAIN chain : Expected(live, chain[k]) /\ chain[k] \in Operations
<1>1. TypeOK /\ Lifecycle /\ Backlog /\ Queued /\ chain \in Seq(Operations)
  BY DEF Shaped, TypeOK
<1>2. live[s] \in LiveType /\ hist[s] \in Seq(Events)
  BY <1>1 DEF TypeOK
<1>3. live[s].queue \in Seq(Nat) /\ live[s].writing \in Nat /\ Len(hist[s]) \in Nat
  BY <1>2, LenProperties DEF LiveType
<1>4. \A k \in DOMAIN chain : chain[k] \in Operations
  BY <1>1, ElementOfSeq, LenProperties
<1> QED BY <1>1, <1>2, <1>3, <1>4 DEF TypeOK, Lifecycle, Backlog, Queued

\* A session with nothing initializing, written or released has nothing queued.
LEMMA NothingQueued ==
  ASSUME Shaped, NEW s \in Sessions, live[s].writing = 0, live[s].init # "pending",
         live[s].retiring # "releasing"
  PROVE  \A k \in DOMAIN chain : chain[k].op \in Watched => chain[k].for # s
BY SessionFacts DEF Expected, Watched

\* The sessions' parts after one session's live state and history changed.
LEMMA KeptOne ==
  ASSUME Shaped, NEW s \in Sessions,
         \A t \in Sessions \ {s} :
           /\ live'[t] = live[t] /\ hist'[t] = hist[t] /\ life'[t] = life[t]
           /\ store' = t <=> store = t,
         life'[s] = "live" <=> store' = s,
         life'[s] # "unborn",
         live'[s].retiring # "no" => life'[s] = "over",
         live'[s].retiring = "releasing" =>
           live'[s].queue = <<>> /\ live'[s].writing = 0 /\ live'[s].init = "ok",
         live'[s].seed <= Len(hist'[s]),
         \A i \in DOMAIN live'[s].queue : live'[s].queue[i] < Len(hist'[s])
  PROVE  Lifecycle' /\ Backlog'
<1>1. Lifecycle /\ Backlog
  BY DEF Shaped
<1>2. \A t \in Sessions \ {s} : live'[t] = live[t] /\ hist'[t] = hist[t] /\ life'[t] = life[t]
  OBVIOUS
<1>3. Lifecycle'
  BY <1>1, <1>2 DEF Lifecycle
<1>4. Backlog'
  BY <1>1, <1>2 DEF Backlog
<1> QED BY <1>3, <1>4

LEMMA KeptStartWrite ==
  ASSUME Shaped, NEW s \in Sessions, StartWrite(s)
  PROVE  Kept
<1> DEFINE n == Len(live[s].queue)
           f == IF Flushing(s) THEN "writing" ELSE "none"
           m == [live[s] EXCEPT !.writing = n, !.flush = f]
<1>1. /\ live[s].queue \in Seq(Nat) /\ live[s].queue # <<>> /\ live[s].writing = 0
      /\ live[s].init = "ok" /\ live[s].retiring # "releasing"
  BY SessionFacts DEF StartWrite
<1>2. n \in Nat \ {0}
  <2>1. n \in Nat /\ n # 0
    BY <1>1, EmptySeq, LenProperties
  <2> QED BY <2>1
<1>3. live' = [live EXCEPT ![s] = m] /\ UNCHANGED <<store, life, hist>>
  BY SessionFacts DEF StartWrite, sessions
<1> HIDE DEF n, f
<1>4. /\ m.writing = n /\ m.queue = live[s].queue /\ m.init = "ok" /\ m.seed = live[s].seed
      /\ m.retiring = live[s].retiring
  BY <1>1, SessionFacts DEF LiveType
<1>5. live'[s] = m /\ \A t \in Sessions \ {s} : live'[t] = live[t]
  BY <1>3, SessionFacts
<1> HIDE DEF m
<1>6. life[s] # "unborn"
  BY <1>1, SessionFacts DEF NoLive
<1>7. Lifecycle' /\ Backlog'
  BY <1>1, <1>3, <1>4, <1>5, <1>6, SessionFacts, KeptOne
<1>8. Queued'
  <2>1. Op("write", s) \in Operations /\ Op("write", s).op = "write" /\ Op("write", s).for = s
    BY NewOps, OpShape DEF SessionOps
  <2>2. \A k \in DOMAIN chain : chain[k].op \in Watched => chain[k].for # s /\ chain[k].for \in Sessions
    BY <1>1, NothingQueued, SessionFacts, OpFacts DEF Watched, InitOps, SessionOps
  <2>3. \A k \in DOMAIN chain : Expected(live', chain[k])
    BY <1>5, <2>2, SessionFacts DEF Expected, Watched
  <2>4. \A k \in DOMAIN chain : Apart(chain[k], Op("write", s))
    BY <2>1, <2>2 DEF Apart, Watched
  <2>5. Expected(live', Op("write", s))
    BY <1>2, <1>4, <1>5, <2>1 DEF Expected, InitOps
  <2>6. Serialize(Op("write", s))
    BY DEF StartWrite
  <2> QED BY <2>1, <2>3, <2>4, <2>5, <2>6, QueuedPlus
<1> QED BY <1>7, <1>8 DEF Kept

LEMMA KeptRetire ==
  ASSUME Shaped, NEW s \in Sessions, RetireFails(s) \/ RetireFlushed(s)
  PROVE  Kept
<1> DEFINE r == IF RetireFails(s) THEN "failed" ELSE "releasing"
           m == [live[s] EXCEPT !.retiring = r]
<1>1. /\ live[s].retiring = "flushing" /\ UNCHANGED <<store, life, hist>>
      /\ live' = [live EXCEPT ![s] = m] /\ r \in {"failed", "releasing"}
      /\ r = "failed" => UNCHANGED chain
      /\ r = "releasing" => /\ live[s].init = "ok" /\ live[s].queue = <<>> /\ live[s].writing = 0
                            /\ Serialize(Op("release", s))
  <2>1. CASE RetireFails(s)
    BY <2>1, SessionFacts DEF RetireFails, sessions
  <2>2. CASE ~ RetireFails(s)
    <3>1. RetireFlushed(s)
      BY <2>2
    <3> QED BY <2>2, <3>1, SessionFacts DEF RetireFlushed, sessions
  <2> QED BY <2>1, <2>2
<1> HIDE DEF r
<1>2. /\ m.writing = live[s].writing /\ m.queue = live[s].queue /\ m.init = live[s].init
      /\ m.seed = live[s].seed /\ m.retiring = r
  BY SessionFacts DEF LiveType
<1>3. live'[s] = m /\ \A t \in Sessions \ {s} : live'[t] = live[t]
  BY <1>1, SessionFacts
<1> HIDE DEF m
<1>4. life[s] = "over"
  BY <1>1, SessionFacts
<1>5. Lifecycle' /\ Backlog'
  BY <1>1, <1>2, <1>3, <1>4, SessionFacts, KeptOne
<1>6. \A k \in DOMAIN chain : Expected(live', chain[k])
  <2>1. SUFFICES ASSUME NEW k \in DOMAIN chain PROVE Expected(live', chain[k])
    OBVIOUS
  <2>2. chain[k].op \in Watched => chain[k].for \in Sessions
    BY SessionFacts, OpFacts DEF Watched, InitOps, SessionOps
  <2>3. Expected(live, chain[k])
    BY SessionFacts
  <2> QED BY <1>1, <1>2, <1>3, <2>2, <2>3 DEF Expected, Watched
<1>7. Queued'
  <2>1. CASE r = "failed"
    BY <1>1, <1>6, <2>1, FromSame, QueuedKept
  <2>2. CASE r = "releasing"
    <3>1. Op("release", s) \in Operations /\ Op("release", s).op = "release" /\ Op("release", s).for = s
      BY NewOps, OpShape DEF SessionOps
    <3>2. \A k \in DOMAIN chain : chain[k].op \in Watched => chain[k].for # s
      BY <1>1, <2>2, NothingQueued
    <3>3. \A k \in DOMAIN chain : Apart(chain[k], Op("release", s))
      BY <3>1, <3>2 DEF Apart, Watched
    <3>4. Expected(live', Op("release", s))
      BY <1>2, <1>3, <2>2, <3>1 DEF Expected, InitOps
    <3> QED BY <1>1, <1>6, <2>2, <3>1, <3>3, <3>4, QueuedPlus
  <2> QED BY <1>1, <2>1, <2>2
<1> QED BY <1>5, <1>7 DEF Kept

LEMMA KeptReleased ==
  ASSUME Shaped, ReleaseOwner
  PROVE  Kept
<1> DEFINE s == chain[1].for
           m == [NoLive EXCEPT !.retiring = "released"]
<1>0. TypeOK /\ chain # <<>> /\ chain[1].op = "release" /\ chain' = Tail(chain)
  BY DEF ReleaseOwner, AtHead, Shaped, Finish
<1>1. s \in Sessions /\ 1 \in DOMAIN chain /\ Expected(live, chain[1])
  BY <1>0, HeadFacts DEF SessionOps, Shaped, Queued
<1>2. live[s].retiring = "releasing" /\ live[s].writing = 0 /\ live[s].init = "ok" /\ life[s] = "over"
  BY <1>0, <1>1, SessionFacts DEF Expected
<1>3. /\ live' = [live EXCEPT ![s] = m] /\ hist' = [hist EXCEPT ![s] = <<>>]
      /\ UNCHANGED <<store, life>>
  BY DEF ReleaseOwner
<1>4. m.retiring = "released" /\ m.queue = <<>> /\ m.seed = 0
  BY DEF NoLive
<1>5. /\ live'[s] = m /\ hist'[s] = <<>>
      /\ \A t \in Sessions \ {s} : live'[t] = live[t] /\ hist'[t] = hist[t]
  BY <1>1, <1>3, SessionFacts
<1>6. Len(<<>>) = 0 /\ 0 <= Len(<<>>)
  <2>1. Len(<<>>) = 0
    OBVIOUS
  <2> QED BY <2>1
<1>7. \A k \in DOMAIN chain \ {1} : chain[k].op \in Watched => chain[k].for # s /\ chain[k].for \in Sessions
  <2>1. SUFFICES ASSUME NEW k \in DOMAIN chain \ {1}, chain[k].op \in Watched
                 PROVE  chain[k].for # s /\ chain[k].for \in Sessions
    OBVIOUS
  <2>2. Apart(chain[1], chain[k]) /\ Expected(live, chain[k])
    BY <1>1 DEF Shaped, Queued
  <2>3. chain[k] \in Operations
    BY <1>1, SessionFacts
  <2> QED BY <1>0, <1>2, <2>1, <2>2, <2>3, OpFacts
          DEF Apart, Expected, Watched, InitOps, SessionOps
<1> HIDE DEF m, s
<1>8. Lifecycle' /\ Backlog'
  <2>1. life'[s] = "over" /\ store' # s
    BY <1>1, <1>2, <1>3, SessionFacts
  <2>2. live'[s].seed <= Len(hist'[s]) /\ \A i \in DOMAIN live'[s].queue : live'[s].queue[i] < Len(hist'[s])
    BY <1>4, <1>5, <1>6
  <2> QED BY <1>1, <1>3, <1>4, <1>5, <2>1, <2>2, KeptOne
<1>9. \A k \in DOMAIN chain \ {1} : Expected(live', chain[k])
  BY <1>1, <1>5, <1>7, SessionFacts DEF Expected, Watched
<1>10. Queued'
  BY <1>0, <1>9, FromTail, QueuedKept
<1> QED BY <1>8, <1>10 DEF Kept

\* A session enters with nothing queued, and no one has queued anything for it.
LEMMA KeptEnters ==
  ASSUME Shaped, store = Nobody,
         \E s \in Sessions, h \in Seq(Events), m \in LiveType :
           /\ life[s] = "unborn" /\ Enters(s, h) /\ live' = [live EXCEPT ![s] = m]
           /\ m.queue = <<>> /\ m.retiring = "no" /\ m.seed <= Len(h)
           /\ \/ UNCHANGED chain
              \/ \E o \in Operations : /\ o.op \in InitOps /\ o.for = s
                                       /\ m.init = "pending" /\ Serialize(o)
  PROVE  Kept
<1>1. PICK s \in Sessions, h \in Seq(Events), m \in LiveType :
        /\ life[s] = "unborn" /\ Enters(s, h) /\ live' = [live EXCEPT ![s] = m]
        /\ m.queue = <<>> /\ m.retiring = "no" /\ m.seed <= Len(h)
        /\ \/ UNCHANGED chain
           \/ \E o \in Operations : /\ o.op \in InitOps /\ o.for = s
                                    /\ m.init = "pending" /\ Serialize(o)
  OBVIOUS
<1>2. /\ live'[s] = m /\ hist'[s] = h /\ life'[s] = "live" /\ store' = s
      /\ \A t \in Sessions \ {s} : /\ live'[t] = live[t] /\ hist'[t] = hist[t] /\ life'[t] = life[t]
  BY <1>1, SessionFacts DEF Enters, Shaped, TypeOK
<1>3. \A t \in Sessions \ {s} : store' = t <=> store = t
  BY <1>1, <1>2, Ids
<1>4. Lifecycle' /\ Backlog'
  BY <1>1, <1>2, <1>3, KeptOne
<1>5. live[s].writing = 0 /\ live[s].init = "none" /\ live[s].retiring = "no"
  BY <1>1, SessionFacts DEF NoLive
<1>6. \A k \in DOMAIN chain : chain[k].op \in Watched => chain[k].for # s /\ chain[k].for \in Sessions
  BY <1>5, NothingQueued, SessionFacts, OpFacts DEF Watched, InitOps, SessionOps
<1>7. \A k \in DOMAIN chain : Expected(live', chain[k])
  BY <1>2, <1>6, SessionFacts DEF Expected, Watched
<1>8. Queued'
  <2>1. CASE UNCHANGED chain
    BY <1>7, <2>1, FromSame, QueuedKept
  <2>2. ASSUME NEW o \in Operations, o.op \in InitOps, o.for = s, m.init = "pending", Serialize(o)
        PROVE  Queued'
    <3>1. Expected(live', o)
      BY <1>2, <2>2 DEF Expected, InitOps
    <3>2. \A k \in DOMAIN chain : Apart(chain[k], o)
      BY <1>6, <2>2 DEF Apart, Watched, InitOps
    <3> QED BY <1>7, <2>2, <3>1, <3>2, QueuedPlus
  <2> QED BY <1>1, <2>1, <2>2
<1> QED BY <1>4, <1>8 DEF Kept

LEMMA KeptCreate ==
  ASSUME Shaped, \E replay \in BOOLEAN : CreateSession(replay)
  PROVE  Kept
<1>1. PICK replay \in BOOLEAN : CreateSession(replay)
  OBVIOUS
<1> DEFINE s == Newborn
           h == IF replay THEN Marked(disk.log, s) ELSE <<>>
           m == IF running THEN [NoLive EXCEPT !.on = TRUE, !.init = "pending", !.seed = Len(h)]
                ELSE NoLive
<1>2. s \in Sessions /\ life[s] = "unborn" /\ store = Nobody
  BY <1>1, NewbornFacts DEF CreateSession
<1>3. disk.log \in Seq(Events)
  BY DEF Shaped, TypeOK, Disks
<1>4. h \in Seq(Events) /\ Len(h) \in Nat
  BY <1>2, <1>3, MarkedFacts, EventFacts, LenProperties
<1>5. /\ Enters(s, h)
      /\ IF running THEN live' = [live EXCEPT ![s] = m] /\ Serialize(Op("created", s))
         ELSE UNCHANGED <<live, chain>>
  BY <1>1 DEF CreateSession
<1>6. live[s] = NoLive /\ live \in [Sessions -> LiveType]
  BY <1>2, SessionFacts
<1> HIDE DEF s, h
<1>7. /\ m \in LiveType /\ m.queue = <<>> /\ m.retiring = "no" /\ m.seed <= Len(h)
      /\ running => m.init = "pending"
  <2>1. 0 <= Len(h) /\ Len(h) <= Len(h)
    BY <1>4
  <2> QED BY <1>4, <2>1, NewLive DEF NoLive
<1>8. live' = [live EXCEPT ![s] = m]
  <2>1. CASE running
    BY <1>5, <2>1
  <2>2. CASE ~ running
    BY <1>5, <1>6, <2>2
  <2> QED BY <2>1, <2>2
<1> HIDE DEF m
<1>9. Op("created", s) \in Operations /\ Op("created", s).op \in InitOps /\ Op("created", s).for = s
  BY <1>2, NewOps, OpShape DEF SessionOps, InitOps
<1>10. UNCHANGED chain \/ (m.init = "pending" /\ Serialize(Op("created", s)))
  BY <1>5, <1>7
<1> QED BY <1>2, <1>4, <1>5, <1>7, <1>8, <1>9, <1>10, KeptEnters

LEMMA KeptPublish ==
  ASSUME Shaped, \E c \in Callers : Publish(c)
  PROVE  Kept
<1>1. PICK c \in Callers : Publish(c)
  OBVIOUS
<1> DEFINE s == Newborn
           history == Marked(caller[c].view, s) \o caller[c].extra
           suffix == SubSeq(history, state.cursor + 1, Len(history))
           i == IF suffix = <<>> THEN "ok" ELSE "pending"
           m == [NoLive EXCEPT !.on = TRUE, !.init = i]
           o == [op |-> "suffix", for |-> s, events |-> suffix, from |-> state.cursor]
<1>2. s \in Sessions /\ life[s] = "unborn" /\ store = Nobody
  BY <1>1, NewbornFacts DEF Publish
<1>3. history \in Seq(Events) /\ Len(history) \in Nat
  <2>1. caller[c].view \in Seq(Events) /\ caller[c].extra \in Seq(Events)
    BY DEF Shaped, TypeOK, CallType
  <2>2. Marked(caller[c].view, s) \in Seq(Events)
    BY <1>2, <2>1, MarkedFacts
  <2> QED BY <2>1, <2>2, ConcatFacts, LenProperties
<1>4. /\ Enters(s, history) /\ live' = [live EXCEPT ![s] = m]
      /\ IF suffix = <<>> THEN UNCHANGED chain ELSE Serialize(o)
  BY <1>1 DEF Publish
<1>5. suffix \in Seq(Events) /\ state.cursor \in Nat
  <2>1. state.cursor \in Nat /\ state.cursor + 1 \in Nat \ {0}
    BY DEF Shaped, TypeOK, StateType
  <2> HIDE DEF history
  <2> QED BY <1>3, <2>1, SubSeqFacts
<1> HIDE DEF history, suffix, s
<1>6. i \in {"ok", "pending"} /\ (suffix # <<>> => i = "pending")
  OBVIOUS
<1>7. o \in Operations /\ o.op \in InitOps /\ o.for = s
  BY <1>2, <1>5, NewOps DEF InitOps
<1> HIDE DEF i, o
<1>8. /\ m \in LiveType /\ m.queue = <<>> /\ m.retiring = "no" /\ m.seed = 0 /\ m.init = i
  BY <1>6, NewLive DEF NoLive
<1>9. m.seed <= Len(history)
  BY <1>3, <1>8
<1>10. UNCHANGED chain \/ (m.init = "pending" /\ Serialize(o))
  BY <1>4, <1>6, <1>8
<1> HIDE DEF m
<1> QED BY <1>2, <1>3, <1>4, <1>7, <1>8, <1>9, <1>10, KeptEnters

LEMMA KeptAppends ==
  ASSUME Shaped, SessionAppends
  PROVE  Kept
<1> DEFINE s == store
           h == hist[s]
           e == [by |-> s, kind |-> IF Open(h) THEN "end" ELSE "start"]
           q == Append(live[s].queue, Len(h))
           m == IF running THEN [live[s] EXCEPT !.queue = q] ELSE live[s]
<1>1. s \in Sessions /\ UNCHANGED <<store, life, chain>>
  BY DEF SessionAppends, Shaped, TypeOK
<1>2. e \in Events
  BY <1>1, EventFacts
<1>3. hist' = [hist EXCEPT ![s] = Append(h, e)] /\ live' = [live EXCEPT ![s] = m]
  BY <1>1, SessionFacts DEF SessionAppends
<1> HIDE DEF e
<1>4. h \in Seq(Events) /\ Len(h) \in Nat /\ live[s].queue \in Seq(Nat)
  BY <1>1, SessionFacts
<1>5. Len(Append(h, e)) = Len(h) + 1
  BY <1>2, <1>4, AppendFacts
<1>6. /\ q \in Seq(Nat) /\ DOMAIN q = 1 .. Len(live[s].queue) + 1
      /\ \A i \in DOMAIN live[s].queue : q[i] = live[s].queue[i]
      /\ q[Len(live[s].queue) + 1] = Len(h)
      /\ DOMAIN live[s].queue = 1 .. Len(live[s].queue) /\ Len(live[s].queue) \in Nat
  BY <1>4, AppendFacts
<1>7. /\ \A i \in DOMAIN live[s].queue : live[s].queue[i] < Len(h)
      /\ life[s] = "live" /\ live[s].retiring = "no" /\ live[s].seed <= Len(h)
      /\ live[s].seed \in Nat /\ live[s] \in LiveType
  <2>1. life[s] = "live"
    BY <1>1, SessionFacts
  <2>2. live[s] \in LiveType /\ live[s].seed \in Nat
    BY <1>1, SessionFacts DEF LiveType
  <2> QED BY <1>1, <2>1, <2>2, SessionFacts
<1>8. \A i \in DOMAIN q : q[i] < Len(h) + 1
  <2>1. SUFFICES ASSUME NEW i \in DOMAIN q PROVE q[i] < Len(h) + 1
    OBVIOUS
  <2>2. CASE i \in DOMAIN live[s].queue
    <3>1. live[s].queue[i] < Len(h) /\ live[s].queue[i] \in Nat
      BY <1>4, <1>7, <2>2, ElementOfSeq, <1>6
    <3> QED BY <1>4, <1>6, <2>2, <3>1
  <2>3. CASE i = Len(live[s].queue) + 1
    BY <1>4, <1>6, <2>3
  <2> QED BY <1>6, <2>1, <2>2, <2>3
<1> HIDE DEF h, q
<1>9. /\ m.seed = live[s].seed /\ m.retiring = "no" /\ m.init = live[s].init
      /\ m.writing = live[s].writing /\ m.queue \in {q, live[s].queue}
  BY <1>7 DEF LiveType
<1>10. live'[s] = m /\ hist'[s] = Append(h, e)
       /\ \A t \in Sessions \ {s} : live'[t] = live[t] /\ hist'[t] = hist[t]
  BY <1>1, <1>3, SessionFacts
<1> HIDE DEF m
<1>11. m.seed <= Len(h) + 1 /\ \A i \in DOMAIN m.queue : m.queue[i] < Len(h) + 1
  <2>1. \A i \in DOMAIN live[s].queue : live[s].queue[i] < Len(h) + 1
    <3>1. \A i \in DOMAIN live[s].queue : live[s].queue[i] \in Nat
      BY <1>4, <1>6, ElementOfSeq
    <3> QED BY <1>4, <1>7, <3>1
  <2> QED BY <1>4, <1>7, <1>8, <1>9, <2>1
<1> HIDE DEF s
<1>12. Lifecycle' /\ Backlog'
  <2>1. life'[s] = "live" /\ store' = s
    BY <1>1, <1>7 DEF s
  <2> QED BY <1>1, <1>5, <1>7, <1>9, <1>10, <1>11, <2>1, KeptOne
<1>13. \A k \in DOMAIN chain : Expected(live', chain[k])
  <2>1. SUFFICES ASSUME NEW k \in DOMAIN chain PROVE Expected(live', chain[k])
    OBVIOUS
  <2>2. chain[k].op \in Watched => chain[k].for \in Sessions
    BY <1>1, SessionFacts, OpFacts DEF Watched, InitOps, SessionOps
  <2>3. Expected(live, chain[k])
    BY <1>1, SessionFacts
  <2> QED BY <1>7, <1>9, <1>10, <2>2, <2>3 DEF Expected, Watched
<1>14. Queued'
  BY <1>1, <1>13, FromSame, QueuedKept
<1> QED BY <1>12, <1>14 DEF Kept

LEMMA KeptDispose ==
  ASSUME Shaped, Dispose
  PROVE  Kept
<1> DEFINE s == store
           m == IF running THEN [live[s] EXCEPT !.retiring = "flushing"] ELSE live[s]
<1>1. s \in Sessions /\ UNCHANGED <<chain, hist>> /\ store' = Nobody /\ life' = [life EXCEPT ![s] = "over"]
  BY DEF Dispose, Shaped, TypeOK
<1>2. live' = [live EXCEPT ![s] = m]
  BY <1>1, SessionFacts DEF Dispose
<1>3. /\ life[s] = "live" /\ live[s].retiring = "no" /\ live[s] \in LiveType
      /\ \A t \in Sessions \ {s} : store' = t <=> store = t
  <2>1. life[s] = "live"
    BY <1>1, SessionFacts
  <2> QED BY <1>1, <2>1, SessionFacts, Ids
<1>4. /\ m.seed = live[s].seed /\ m.init = live[s].init /\ m.retiring # "releasing"
      /\ m.writing = live[s].writing /\ m.queue = live[s].queue
  BY <1>3 DEF LiveType
<1>5. /\ live'[s] = m /\ life'[s] = "over" /\ hist'[s] = hist[s] /\ store' # s
      /\ \A t \in Sessions \ {s} : live'[t] = live[t] /\ hist'[t] = hist[t] /\ life'[t] = life[t]
  BY <1>1, <1>2, SessionFacts, Ids DEF Shaped, TypeOK
<1> HIDE DEF m
<1>6. Lifecycle' /\ Backlog'
  <2>1. life'[s] # "unborn" /\ ~ (life'[s] = "live") /\ ~ (store' = s)
    BY <1>5
  <2>2. live[s].seed <= Len(hist[s]) /\ \A i \in DOMAIN live[s].queue : live[s].queue[i] < Len(hist[s])
    BY <1>1, SessionFacts
  <2> HIDE DEF s
  <2> QED BY <1>1, <1>3, <1>4, <1>5, <2>1, <2>2, KeptOne
<1>7. \A k \in DOMAIN chain : Expected(live', chain[k])
  <2>1. SUFFICES ASSUME NEW k \in DOMAIN chain PROVE Expected(live', chain[k])
    OBVIOUS
  <2>2. chain[k].op \in Watched => chain[k].for \in Sessions
    BY <1>1, SessionFacts, OpFacts DEF Watched, InitOps, SessionOps
  <2>3. Expected(live, chain[k])
    BY <1>1, SessionFacts
  <2> QED BY <1>3, <1>4, <1>5, <2>2, <2>3 DEF Expected, Watched
<1>8. Queued'
  BY <1>1, <1>7, FromSame, QueuedKept
<1> QED BY <1>6, <1>8 DEF Kept

LEMMA KeptStop ==
  ASSUME Shaped, Stop
  PROVE  Kept
<1>1. /\ UNCHANGED <<store, life, hist, chain>>
      /\ \A s \in Sessions : live'[s] = [live[s] EXCEPT !.flush = IF @ = "refused" THEN "none" ELSE @]
  BY DEF Stop, sessions
<1>2. ASSUME NEW s \in Sessions
      PROVE  /\ live'[s].queue = live[s].queue /\ live'[s].writing = live[s].writing
             /\ live'[s].init = live[s].init /\ live'[s].seed = live[s].seed
             /\ live'[s].retiring = live[s].retiring
             /\ live[s] = NoLive => live'[s] = NoLive
  <2>1. live[s] \in LiveType
    BY SessionFacts
  <2>2. live'[s] = [live[s] EXCEPT !.flush = IF @ = "refused" THEN "none" ELSE @]
    BY <1>1
  <2>3. ASSUME live[s] = NoLive PROVE live'[s] = NoLive
    BY <2>2, <2>3 DEF NoLive
  <2>4. /\ live'[s].queue = live[s].queue /\ live'[s].writing = live[s].writing
        /\ live'[s].init = live[s].init /\ live'[s].seed = live[s].seed
        /\ live'[s].retiring = live[s].retiring
    BY <2>1, <2>2 DEF LiveType
  <2> QED BY <2>3, <2>4
<1>3. Lifecycle /\ Backlog
  BY DEF Shaped
<1>4. Lifecycle'
  BY <1>1, <1>2, <1>3 DEF Lifecycle
<1>5. Backlog'
  BY <1>1, <1>2, <1>3 DEF Backlog
<1>6. \A k \in DOMAIN chain : Expected(live', chain[k])
  <2>1. SUFFICES ASSUME NEW k \in DOMAIN chain PROVE Expected(live', chain[k])
    OBVIOUS
  <2>2. Expected(live, chain[k]) /\ chain[k] \in Operations
    BY DEF Shaped, Queued, TypeOK
  <2>3. chain[k].op \in Watched => chain[k].for \in Sessions
    BY <2>2, OpFacts DEF Watched, InitOps, SessionOps
  <2> QED BY <1>2, <2>2, <2>3 DEF Expected, Watched
<1>7. Queued'
  BY <1>1, <1>6, FromSame, QueuedKept
<1> QED BY <1>4, <1>5, <1>7 DEF Kept

LEMMA KeptStart ==
  ASSUME Shaped, Start
  PROVE  Kept
<1>1. /\ UNCHANGED <<store, life>> /\ store \in Sessions \cup {Nobody}
      /\ \A s \in Sessions : hist'[s] = IF s = store THEN hist[s] ELSE <<>>
      /\ \A s \in Sessions \ {store} : live'[s] = NoLive
      /\ store # Nobody => live'[store] = [NoLive EXCEPT !.on = TRUE, !.init = "pending",
                                                         !.seed = Len(hist[store])]
      /\ chain' = IF store = Nobody THEN <<>> ELSE <<Op("created", store)>>
  BY DEF Start, Shaped, TypeOK
<1>2. \A s \in Sessions : /\ live'[s].queue = <<>> /\ live'[s].retiring = "no"
                          /\ live'[s].seed = IF s = store THEN Len(hist[s]) ELSE 0
  <2>1. SUFFICES ASSUME NEW s \in Sessions
                 PROVE  /\ live'[s].queue = <<>> /\ live'[s].retiring = "no"
                        /\ live'[s].seed = IF s = store THEN Len(hist[s]) ELSE 0
    OBVIOUS
  <2>2. CASE s = store
    <3>1. live'[s] = [NoLive EXCEPT !.on = TRUE, !.init = "pending", !.seed = Len(hist[s])]
      BY <1>1, <2>2, Ids
    <3> QED BY <2>2, <3>1 DEF NoLive
  <2>3. CASE s # store
    <3>1. live'[s] = NoLive
      BY <1>1, <2>3
    <3> QED BY <2>3, <3>1 DEF NoLive
  <2> QED BY <2>2, <2>3
<1>3. \A s \in Sessions : Len(hist[s]) \in Nat /\ (life[s] = "live" <=> store = s)
  BY SessionFacts
<1>4. Lifecycle'
  BY <1>1, <1>2, <1>3 DEF Lifecycle
<1>5. Backlog'
  <2>1. Len(<<>>) = 0
    OBVIOUS
  <2>2. 0 <= Len(<<>>)
    BY <2>1
  <2>3. \A s \in Sessions : live'[s].seed <= Len(hist'[s])
    BY <1>1, <1>2, <1>3, <2>2
  <2> QED BY <1>2, <2>3 DEF Backlog
<1>6. Queued'
  <2>1. CASE store = Nobody
    BY <1>1, <2>1 DEF Queued
  <2>2. CASE store # Nobody
    <3>1. chain' = <<Op("created", store)>> /\ Op("created", store).op = "created"
          /\ Op("created", store).for = store
      BY <1>1, <2>2, OpShape
    <3>2. live'[store].init = "pending"
      BY <1>1, <2>2 DEF NoLive
    <3>3. DOMAIN chain' = {1} /\ chain'[1] = Op("created", store)
      BY <3>1
    <3>4. Expected(live', chain'[1])
      BY <3>1, <3>2, <3>3 DEF Expected, InitOps
    <3> QED BY <3>3, <3>4 DEF Queued
  <2> QED BY <2>1, <2>2
<1> QED BY <1>4, <1>5, <1>6 DEF Kept

LEMMA KeptCrash ==
  ASSUME Shaped, Crash
  PROVE  Kept
<1>1. /\ store' = Nobody /\ chain' = <<>>
      /\ \A s \in Sessions : /\ live'[s] = NoLive /\ hist'[s] = <<>>
                             /\ life'[s] = IF life[s] = "live" THEN "over" ELSE life[s]
  BY DEF Crash
<1>2. Lifecycle'
  BY <1>1, Ids DEF Lifecycle, NoLive
<1>3. Backlog'
  <2>1. Len(<<>>) = 0
    OBVIOUS
  <2>2. 0 <= Len(<<>>)
    BY <2>1
  <2>3. NoLive.seed = 0 /\ NoLive.queue = <<>>
    BY DEF NoLive
  <2> QED BY <1>1, <2>2, <2>3 DEF Backlog
<1>4. Queued'
  BY <1>1 DEF Queued
<1> QED BY <1>2, <1>3, <1>4 DEF Kept

\* What a step of the chain, a refusal or a call does to the sessions.
LEMMA KeptHead ==
  ASSUME Shaped, ChainStep
  PROVE  Kept
<1> USE DEF sessions
<1>0. TypeOK
  BY DEF Shaped
<1>1. CASE PrepareCore \/ Check \/ CommitThrows \/ CommitStale \/ Commit \/ HeaderStored \/ CreateCore
  <2>1. UNCHANGED <<store, life, hist, live>>
    BY <1>1 DEF PrepareCore, Check, CommitThrows, CommitStale, Commit, HeaderStored, CreateCore
  <2>2. chain # <<>> /\ chain' = Tail(chain)
    BY <1>0, <1>1, Busy DEF PrepareCore, Check, CommitThrows, CommitStale, Commit, HeaderStored,
       CreateCore, AtHead, Finish
  <2> QED BY <1>0, <2>1, <2>2, FromTail, KeptQuiet
<1>2. CASE CommitRepairs \/ RepairTruncates \/ AppendAdopts \/ AppendWrites \/ Reclaims
  <2>1. UNCHANGED <<store, life, hist, live, chain>>
    BY <1>2 DEF CommitRepairs, RepairTruncates, AppendAdopts, AppendWrites, Reclaims
  <2> QED BY <2>1, FromSame, KeptQuiet
<1>3. CASE RepairEnds \/ HeaderDecides
  <2>1. UNCHANGED <<store, life, hist, live>> /\ chain # <<>>
    BY <1>0, <1>3, Busy DEF RepairEnds, HeaderDecides, AtHead
  <2>2. UNCHANGED chain \/ chain' = Tail(chain)
    BY <1>3 DEF RepairEnds, HeaderDecides, Finish
  <2> QED BY <1>0, <2>1, <2>2, FromTail, FromSame, KeptQuiet
<1>4. CASE AppendRefused \/ WriteStored \/ Collides
  <2>1. UNCHANGED <<store, life, hist>> /\ chain # <<>> /\ Finish
    BY <1>0, <1>4, Busy DEF AppendRefused, WriteStored, Collides, AppendAtHead, CreatedAtHead, AtHead
  <2>2. live' \in {Settled(TRUE), Settled(FALSE)}
    BY <1>4 DEF AppendRefused, WriteStored, Collides
  <2> QED BY <2>1, <2>2, KeptSettled
<1>5. CASE Claims \/ RegistersNew
  <2>1. UNCHANGED <<store, life, hist>> /\ chain # <<>> /\ chain[1].op = "created"
    BY <1>5 DEF Claims, RegistersNew, CreatedAtHead, AtHead
  <2>2. state.cursor \in Nat
    BY <1>0 DEF TypeOK, StateType
  <2>3. \E n \in Nat : BindSeed(chain[1].for, Seed, n)
    BY <1>5, <2>2 DEF Claims, RegistersNew
  <2> QED BY <2>1, <2>3, KeptBound
<1>6. CASE AdoptsLivePrefix
  <2>1. UNCHANGED <<store, life, hist>> /\ chain # <<>> /\ chain[1].op = "created"
    BY <1>6 DEF AdoptsLivePrefix, CreatedAtHead, AtHead
  <2>2. CASE disk.torn
    <3>1. UNCHANGED <<live, chain>>
      BY <1>6, <2>2 DEF AdoptsLivePrefix
    <3> QED BY <2>1, <3>1, FromSame, KeptQuiet
  <2>3. CASE ~ disk.torn
    <3>1. Len(disk.log) \in Nat
      BY <1>0, LenProperties DEF TypeOK, Disks
    <3>2. \E n \in Nat : BindSeed(chain[1].for, Seed, n)
      BY <1>6, <2>3, <3>1 DEF AdoptsLivePrefix
    <3> QED BY <2>1, <3>2, KeptBound
  <2> QED BY <2>2, <2>3
<1> QED BY <1>1, <1>2, <1>3, <1>4, <1>5, <1>6, KeptReleased DEF ChainStep

LEMMA KeptRefusal ==
  ASSUME Shaped, Refusal
  PROVE  Kept
<1>1. TypeOK
  BY DEF Shaped
<1>2. UNCHANGED <<store, life, hist>> /\ chain # <<>> /\ Finish
  BY <1>1, Busy DEF Refusal, RepairFails, ReadFails, WriteRefused, HeaderRefused, AtHead, sessions
<1>3. UNCHANGED live \/ live' = Settled(FALSE)
  BY DEF Refusal, RepairFails, ReadFails, WriteRefused, HeaderRefused
<1>4. CASE UNCHANGED live
  BY <1>1, <1>2, <1>4, FromTail, KeptQuiet DEF Finish
<1>5. CASE live' = Settled(FALSE)
  BY <1>2, <1>5, KeptSettled
<1> QED BY <1>3, <1>4, <1>5

LEMMA KeptCalls ==
  ASSUME Shaped,
         \/ \E c \in Callers : \/ \E m \in Modes : Begin(c, m)
                               \/ CallStep(c) \/ Abort(c) \/ SetupAppends(c) \/ Release(c)
         \/ EnsureMaterialized \/ CreateCall \/ AppendCall \/ Evict
  PROVE  Kept
<1> USE DEF sessions
<1>0. TypeOK /\ store \in Sessions \cup {Nobody}
  BY DEF Shaped, TypeOK
<1>1. CASE EnsureMaterialized \/ CreateCall \/ AppendCall \/ Evict
  <2>1. UNCHANGED <<store, life, hist, live>>
    BY <1>1 DEF EnsureMaterialized, CreateCall, AppendCall, Evict
  <2>2. CASE EnsureMaterialized
    <3>1. Op("header", store) \in Operations /\ Op("header", store).op \notin Watched
      BY <1>0, <2>2, NewOps, OpShape DEF EnsureMaterialized, SessionOps, Watched, InitOps
    <3> QED BY <1>0, <2>1, <2>2, <3>1, FromAppended, KeptQuiet DEF EnsureMaterialized
  <2>3. CASE CreateCall
    <3>1. Op("create", Outside) \in Operations /\ Op("create", Outside).op \notin Watched
      BY NewOps, OpShape DEF Watched, InitOps
    <3> QED BY <1>0, <2>1, <2>3, <3>1, FromAppended, KeptQuiet DEF CreateCall
  <2>4. CASE AppendCall
    <3> DEFINE e == <<[by |-> Outside, kind |-> "note"]>>
               n == Len(Balanced(disk.log))
               o == [op |-> "append", for |-> Outside, events |-> e, from |-> n]
    <3>1. e \in Seq(Events) /\ n \in Nat
      BY <1>0, EventFacts, BalancedFacts, LenProperties DEF TypeOK, Disks
    <3>2. Serialize(o)
      BY <2>4 DEF AppendCall
    <3> HIDE DEF e, n
    <3>3. o \in Operations /\ o.op \notin Watched
      BY <3>1, NewOps DEF Watched, InitOps
    <3> HIDE DEF o
    <3> QED BY <1>0, <2>1, <3>2, <3>3, FromAppended, KeptQuiet
  <2>5. CASE Evict
    BY <2>1, <2>5, FromSame, KeptQuiet DEF Evict
  <2> QED BY <1>1, <2>2, <2>3, <2>4, <2>5
<1>2. ASSUME NEW c \in Callers,
             \/ \E m \in Modes : Begin(c, m)
             \/ CallStep(c) \/ Abort(c) \/ SetupAppends(c) \/ Release(c)
      PROVE  Kept
  <2>1. UNCHANGED <<store, life, hist, live>>
    BY <1>2 DEF Begin, CallStep, FindsLive, FindsCold, Reserve, Invalidated, Inspects, EndCall,
       Abort, SetupAppends, Release
  <2>2. \E d : From(Watched, d)
    <3>1. CASE UNCHANGED chain
      BY <3>1, FromSame
    <3>2. CASE FindsCold(c) /\ ~ UNCHANGED chain
      <4>1. FreeGenerations # {} /\ Serialize(Op("prepare", FreeGeneration))
        BY <3>2 DEF FindsCold
      <4>2. Op("prepare", FreeGeneration) \in Operations
            /\ Op("prepare", FreeGeneration).op \notin Watched
        BY <4>1, GenerationFacts, NewOps, OpShape DEF Watched, InitOps
      <4> QED BY <1>0, <4>1, <4>2, FromAppended
    <3>3. CASE (Reserve(c) \/ Inspects(c)) /\ ~ UNCHANGED chain
      <4>1. Serialize(Op("commit", c)) \/ Serialize(Op("check", c))
        BY <3>3 DEF Reserve, Inspects
      <4>2. /\ Op("commit", c) \in Operations /\ Op("commit", c).op \notin Watched
            /\ Op("check", c) \in Operations /\ Op("check", c).op \notin Watched
        BY NewOps, OpShape DEF Watched, InitOps
      <4> QED BY <1>0, <4>1, <4>2, FromAppended
    <3>4. CASE Abort(c) /\ ~ UNCHANGED chain
      <4>1. \E i \in DOMAIN chain : chain' = RemoveAt(chain, i)
        BY <3>4 DEF Abort
      <4> QED BY <1>0, <4>1, FromRemoved
    <3> QED BY <1>2, <3>1, <3>2, <3>3, <3>4
            DEF Begin, CallStep, FindsLive, Invalidated, EndCall, SetupAppends, Release
  <2> QED BY <2>1, <2>2, KeptQuiet
<1> QED BY <1>1, <1>2

LEMMA ShapedInit == Init => Shaped
<1> SUFFICES ASSUME Init PROVE Shaped
  OBVIOUS
<1>1. TypeOK
  BY TypeInit
<1>2. \A s \in Sessions : live[s] = NoLive /\ hist[s] = <<>> /\ life[s] = "unborn"
  BY DEF Init
<1>3. store = Nobody /\ chain = <<>>
  BY DEF Init
<1>4. Lifecycle
  BY <1>2, <1>3, Ids DEF Lifecycle, NoLive
<1>5. Backlog
  <2>1. Len(<<>>) = 0
    OBVIOUS
  <2>2. 0 <= Len(<<>>)
    BY <2>1
  <2>3. NoLive.seed = 0 /\ NoLive.queue = <<>>
    BY DEF NoLive
  <2> QED BY <1>2, <2>2, <2>3 DEF Backlog
<1>6. Queued
  BY <1>3 DEF Queued
<1> QED BY <1>1, <1>4, <1>5, <1>6 DEF Shaped

LEMMA ShapedStep ==
  ASSUME Shaped, [Next]_vars
  PROVE  Shaped'
<1>1. TypeOK'
  BY TypeStep
<1>2. Kept
  <2>1. CASE Next
    <3>1. CASE \E s \in Sessions : RetireStep(s)
      BY <3>1, KeptStartWrite, KeptRetire DEF RetireStep
    <3>2. CASE ~ \E s \in Sessions : RetireStep(s)
      BY <2>1, <3>2, KeptHead, KeptRefusal, KeptCalls, KeptCreate, KeptPublish, KeptAppends,
         KeptDispose, KeptStop, KeptStart, KeptCrash DEF Next
    <3> QED BY <3>1, <3>2
  <2>2. CASE UNCHANGED vars
    BY <2>2, FromSame, KeptQuiet DEF vars
  <2> QED BY <2>1, <2>2
<1> QED BY <1>1, <1>2 DEF Shaped, Kept

\* Every variable keeps its type in every behaviour: the coordinator's maps,
\* the operations on the chain and what each caller holds.
THEOREM TypeCorrect == Spec => []TypeOK
<1>1. Spec => []Shaped
  BY ShapedInit, ShapedStep, PTL DEF Spec
<1>2. Shaped => TypeOK
  BY DEF Shaped
<1> QED BY <1>1, <1>2, PTL

-----------------------------------------------------------------------------
(* The log only grows *)

\* Before the first write is linked into place, there is no log.
Unstored == ~ disk.exists => disk.log = <<>>

\* What each writer of the log leaves of it.
LEMMA LogStep ==
  ASSUME TypeOK, Unstored, [Next]_vars
  PROVE  IsPrefix(disk.log, disk'.log) /\ Unstored'
<1> USE DEF storage, sessions
<1>0. /\ disk \in Disks /\ disk.log \in Seq(Events) /\ batch \in Seq(Events)
      /\ Balanced(disk.log) \in Seq(Events) /\ IsPrefix(disk.log, Balanced(disk.log))
      /\ IsPrefix(disk.log, disk.log) /\ IsPrefix(disk.log, disk.log \o batch)
  BY BalancedFacts, PrefixRefl, ConcatFacts DEF TypeOK, Disks
<1>1. CASE RepairTruncates
  <2>1. disk'.log = disk.log /\ disk'.exists = disk.exists
    BY <1>0, <1>1 DEF RepairTruncates, Disks
  <2> QED BY <1>0, <2>1 DEF Unstored
<1>2. CASE RepairEnds
  <2>1. CASE UNCHANGED disk
    BY <1>0, <2>1 DEF Unstored
  <2>2. CASE disk' = [disk EXCEPT !.log = Balanced(@)]
    <3>1. disk'.log = Balanced(disk.log) /\ disk'.exists = disk.exists
      BY <1>0, <2>2 DEF Disks
    <3>2. disk.log = <<>> => ~ Open(disk.log)
      BY DEF Open
    <3> QED BY <1>0, <3>1, <3>2, BalancedFacts DEF Unstored
  <2> QED BY <1>2, <2>1, <2>2 DEF RepairEnds
<1>3. CASE WriteStored
  <2>1. disk'.log = disk.log \o batch /\ disk'.exists
    BY <1>3 DEF WriteStored
  <2> QED BY <1>0, <2>1 DEF Unstored
<1>4. CASE HeaderStored
  <2>1. disk'.log = disk.log /\ disk'.exists
    BY <1>0, <1>4 DEF HeaderStored, Disks
  <2> QED BY <1>0, <2>1 DEF Unstored
<1>5. CASE Crash
  <2>1. disk' \in Leftovers
    BY <1>5 DEF Crash
  <2>2. IsPrefix(disk.log, disk'.log)
    BY <2>1, LeftoverShapes DEF Unstored
  <2>3. Unstored'
    <3>1. \A d \in Leftovers : d.exists \/ (d.exists = disk.exists /\ d.log = disk.log)
                               \/ (~ d.exists /\ ~ disk.exists /\ d.log = Balanced(disk.log))
      <4> DEFINE left(n, t) == [exists |-> TRUE, log |-> disk.log \o SubSeq(batch, 1, n), torn |-> t]
                 Appended == {left(n, t) : n \in 0 .. Len(batch), t \in BOOLEAN}
      <4>1. \A n \in 0 .. Len(batch), t \in BOOLEAN : left(n, t).exists
        OBVIOUS
      <4> HIDE DEF left
      <4>2. \A d \in Appended : d.exists
        BY <4>1
      <4> HIDE DEF Appended
      <4>3. Leftovers = {disk} \cup
              (IF stage = "write" /\ disk.exists THEN Appended
               ELSE IF stage = "write" THEN {[exists |-> TRUE, log |-> batch, torn |-> FALSE]}
               ELSE IF stage = "header" THEN {[disk EXCEPT !.exists = TRUE]}
               ELSE IF stage = "repair" /\ chain[1].op # "created" /\ ~ disk.torn
               THEN {[disk EXCEPT !.log = Balanced(@)], [disk EXCEPT !.torn = TRUE]}
               ELSE IF stage = "repair" THEN {[disk EXCEPT !.torn = FALSE]}
               ELSE {})
        BY DEF Leftovers, Appended, left
      <4> QED BY <1>0, <4>2, <4>3 DEF Disks
    <3>2. disk.log = <<>> => Balanced(disk.log) = <<>>
      <4>1. disk.log = <<>> => ~ Open(disk.log)
        BY DEF Open
      <4> QED BY <1>0, <4>1, BalancedFacts
    <3> QED BY <2>1, <3>1, <3>2 DEF Unstored
  <2> QED BY <2>2, <2>3
<1>6. CASE ~ (RepairTruncates \/ RepairEnds \/ WriteStored \/ HeaderStored \/ Crash)
  <2>1. UNCHANGED disk
    BY <1>6 DEF Next, vars, ChainStep, PrepareCore, Check, CommitThrows, CommitStale, CommitRepairs,
       Commit, AppendRefused, AppendAdopts, AppendWrites, Claims, Reclaims, Collides,
       AdoptsLivePrefix, RegistersNew, ReleaseOwner, HeaderDecides, CreateCore, Refusal, RepairFails,
       ReadFails, WriteRefused, HeaderRefused, CallStep, FindsLive, FindsCold, Reserve, Invalidated,
       Inspects, EndCall, RetireStep, StartWrite, RetireFails, RetireFlushed, Stop, Start, Evict,
       Begin, Abort, Publish, SetupAppends, Release, CreateSession, SessionAppends, Dispose,
       EnsureMaterialized, CreateCall, AppendCall
  <2> QED BY <1>0, <2>1 DEF Unstored
<1> QED BY <1>1, <1>2, <1>3, <1>4, <1>5, <1>6

-----------------------------------------------------------------------------
(* Reservations.                                                           *)


Holds == {"committing", "reserved"}

\* What a call holds of the preparation: its source while it is the id's, and
\* the entry itself from Reserve to Publish or Release.
Calls ==
  \A c \in Callers :
    /\ caller[c].pc \in {"idle", "retire"} => caller[c].gen = 0 /\ caller[c].source = Absent
    /\ caller[c].pc \in {"loading", "loaded", "checking"} \cup Holds => caller[c].gen # 0
    /\ ~ running => caller[c].pc = "idle"
    /\ caller[c].gen # 0 /\ entry.gen = caller[c].gen => entry.source = caller[c].source
    /\ caller[c].pc \in Holds /\ entry.gen = caller[c].gen => entry.phase \in Holds
    /\ caller[c].pc = "reserved" => entry.gen = caller[c].gen /\ entry.phase = "reserved"

\* No two calls hold one preparation.
Exclusive ==
  \A c, d \in Callers :
    (/\ caller[c].pc \in Holds /\ caller[d].pc \in Holds
     /\ caller[c].gen = caller[d].gen) => c = d

Entries == entry.gen = 0 => entry = NoEntry

\* A read that is queued is of a preparation still loading, for whoever shares
\* it; a commit and a check are of the one call that waits for it.
Serves(o) ==
  /\ o.op = "prepare" =>
       /\ entry.gen = o.for => entry.phase = "loading"
       /\ \A c \in Callers : caller[c].gen = o.for => caller[c].pc = "loading"
  /\ o.op = "commit" => caller[o.for].pc = "committing"
  /\ o.op = "check" => caller[o.for].pc = "checking"
Differ(o, p) ==
  /\ o.op = "prepare" /\ p.op = "prepare" => o.for # p.for
  /\ o.op \in {"commit", "check"} /\ p.op \in {"commit", "check"} => o.for # p.for
Served ==
  /\ \A i \in DOMAIN chain : Serves(chain[i])
  /\ \A i, j \in DOMAIN chain : i # j => Differ(chain[i], chain[j])

\* A session that was created before an id's preparation began is registered
\* before the preparation is read.
Births ==
  \A i \in DOMAIN chain : chain[i].op = "created" =>
    /\ entry = NoEntry \/ entry.phase = "loading"
    /\ \A j \in DOMAIN chain :
         (chain[j].op = "prepare" /\ chain[j].for = entry.gen) => i < j

\* No write is under way while a preparation is reserved.
Undisturbed == entry.phase = "reserved" => stage = "queued"

Reservations ==
  /\ Calls /\ Exclusive /\ Entries /\ Served /\ Births /\ Undisturbed
  /\ ReservationIsCurrent

-----------------------------------------------------------------------------
(* Steps that leave the calls where they are *)

Bound == {"prepare", "commit", "check", "created"}

\* A reservation is not disturbed by this step.
Respects ==
  entry'.phase = "reserved" => stage' = "queued" /\ UNCHANGED <<disk, state>>

LEMMA BoundFacts ==
  ASSUME TypeOK
  PROVE  \A i \in DOMAIN chain :
           /\ i \in Nat /\ chain[i] \in Operations
           /\ chain[i].op = "prepare" => chain[i].for \in Generations
           /\ chain[i].op \in {"check", "commit"} => chain[i].for \in Callers
<1>1. chain \in Seq(Operations)
  BY DEF TypeOK
<1>2. \A i \in DOMAIN chain : i \in Nat /\ chain[i] \in Operations
  BY <1>1, ElementOfSeq, LenProperties
<1> QED BY <1>2, OpFacts

\* What a queued operation is for is still so after this step.
ServesNext(o) ==
  /\ o.op = "prepare" =>
       /\ entry'.gen = o.for => entry'.phase = "loading"
       /\ \A c \in Callers : caller'[c].gen = o.for => caller'[c].pc = "loading"
  /\ o.op = "commit" => caller'[o.for].pc = "committing"
  /\ o.op = "check" => caller'[o.for].pc = "checking"

\* The chain's part follows when what is left on it still serves its calls.
LEMMA ServedKept ==
  ASSUME Served, NEW d, From(Bound, d),
         \A k \in DOMAIN chain \ d : ServesNext(chain[k])
  PROVE  Served'
<1>1. ASSUME NEW i \in DOMAIN chain' PROVE Serves(chain[i])'
  <2>1. CASE chain'[i].op \in Bound
    <3>1. PICK k \in DOMAIN chain \ d : chain'[i] = chain[k]
      BY <2>1 DEF From
    <3> QED BY <3>1 DEF Serves, ServesNext
  <2>2. CASE chain'[i].op \notin Bound
    BY <2>2 DEF Serves, Bound
  <2> QED BY <2>1, <2>2
<1>2. ASSUME NEW i \in DOMAIN chain', NEW j \in DOMAIN chain', i # j
      PROVE  Differ(chain'[i], chain'[j])
  <2>1. CASE chain'[i].op \in Bound /\ chain'[j].op \in Bound
    <3>1. PICK k, m \in DOMAIN chain \ d :
            chain'[i] = chain[k] /\ chain'[j] = chain[m] /\ k # m
      BY <1>2, <2>1 DEF From
    <3> QED BY <3>1 DEF Served
  <2>2. CASE ~ (chain'[i].op \in Bound /\ chain'[j].op \in Bound)
    BY <2>2 DEF Differ, Bound
  <2> QED BY <2>1, <2>2
<1> QED BY <1>1, <1>2 DEF Served

\* No session was created meanwhile, and the entry is the same or gone.
LEMMA BirthsKept ==
  ASSUME TypeOK, chain' \in Seq(Operations), Births, NEW d, From(Bound, d),
         \/ entry'.gen = entry.gen /\ (entry.phase = "loading" => entry'.phase = "loading")
            /\ (entry = NoEntry => entry' = NoEntry)
         \/ entry' = NoEntry
         \/ \A i \in DOMAIN chain \ d : chain[i].op # "created"
  PROVE  Births'
<1>1. SUFFICES ASSUME NEW i \in DOMAIN chain', chain'[i].op = "created"
               PROVE  /\ entry' = NoEntry \/ entry'.phase = "loading"
                      /\ \A j \in DOMAIN chain' :
                           (chain'[j].op = "prepare" /\ chain'[j].for = entry'.gen) => i < j
  BY DEF Births
<1>2. PICK k \in DOMAIN chain \ d : chain'[i] = chain[k]
  BY <1>1 DEF From, Bound
<1>3. CASE entry' = NoEntry
  <2>1. ASSUME NEW j \in DOMAIN chain', chain'[j].op = "prepare"
        PROVE  chain'[j].for # 0
    <3>1. PICK m \in DOMAIN chain \ d : chain'[j] = chain[m]
      BY <2>1 DEF From, Bound
    <3> QED BY <2>1, <3>1, BoundFacts, Ids
  <2> QED BY <1>3, <2>1 DEF NoEntry
<1>4. CASE /\ entry' # NoEntry /\ entry'.gen = entry.gen
           /\ (entry.phase = "loading" => entry'.phase = "loading")
           /\ (entry = NoEntry => entry' = NoEntry)
  <2>1. chain[k].op = "created" /\ entry.phase = "loading"
    BY <1>1, <1>2, <1>4 DEF Births
  <2>2. ASSUME NEW j \in DOMAIN chain', chain'[j].op = "prepare", chain'[j].for = entry'.gen
        PROVE  i < j
    <3>1. PICK m, n \in DOMAIN chain \ d :
            /\ chain'[j] = chain[m] /\ chain'[i] = chain[n]
            /\ j < i => m < n
            /\ j # i => m # n
      BY <1>1, <2>2 DEF From, Bound
    <3>2. n < m
      BY <1>1, <1>4, <2>2, <3>1 DEF Births
    <3>3. m \in Nat /\ n \in Nat
      BY BoundFacts
    <3>4. ~ (j < i) /\ j # i
      BY <1>1, <2>2, <3>1, <3>2, <3>3
    <3>5. i \in Nat /\ j \in Nat
      BY LenProperties
    <3> QED BY <3>4, <3>5
  <2> QED BY <1>4, <2>1, <2>2
<1>5. CASE \A m \in DOMAIN chain \ d : chain[m].op # "created"
  BY <1>1, <1>2, <1>5
<1> QED BY <1>3, <1>4, <1>5

\* A call that neither moves nor changes what it holds.
Stays(c) ==
  /\ caller'[c].pc = caller[c].pc /\ caller'[c].gen = caller[c].gen
  /\ caller'[c].source = caller[c].source

LEMMA Unreserved ==
  ASSUME Reservations, entry.phase # "reserved"
  PROVE  \A c \in Callers : caller[c].pc # "reserved"
BY DEF Reservations, Calls

\* The calls stay, and the entry stays or, if no one holds it, goes.
LEMMA QuietReservations ==
  ASSUME TypeOK, TypeOK', Reservations, \E d : From(Bound, d),
         \A c \in Callers : Stays(c),
         entry' = entry \/ (entry' = NoEntry /\ entry.phase # "reserved"),
         ~ running' => ~ running \/ \A c \in Callers : caller[c].pc = "idle",
         Respects
  PROVE  Reservations'
<1>0. /\ Calls /\ Exclusive /\ Entries /\ Served /\ Births /\ Undisturbed /\ ReservationIsCurrent
      /\ NoEntry.gen = 0 /\ NoEntry.phase = "none"
  BY DEF Reservations, NoEntry
<1>1. \A c \in Callers : caller'[c].pc = caller[c].pc /\ caller'[c].gen = caller[c].gen
                         /\ caller'[c].source = caller[c].source
  BY DEF Stays
<1>2. Calls'
  <2>1. CASE entry' = entry
    BY <1>0, <1>1, <2>1 DEF Calls
  <2>2. CASE entry' = NoEntry /\ entry.phase # "reserved"
    BY <1>0, <1>1, <2>2, Unreserved DEF Calls
  <2> QED BY <2>1, <2>2
<1>3. Exclusive'
  BY <1>0, <1>1 DEF Exclusive
<1>4. Entries'
  BY <1>0 DEF Entries
<1>5. PICK d : From(Bound, d)
  OBVIOUS
<1>6. Served'
  <2>1. ASSUME NEW k \in DOMAIN chain
        PROVE  ServesNext(chain[k])
    <3>1. Serves(chain[k])
      BY <1>0 DEF Served
    <3>2. /\ chain[k].op = "prepare" => chain[k].for # 0
          /\ chain[k].op \in {"check", "commit"} => chain[k].for \in Callers
      BY BoundFacts, Ids
    <3> QED BY <1>0, <1>1, <3>1, <3>2 DEF Serves, ServesNext
  <2> QED BY <1>0, <1>5, <2>1, ServedKept
<1>7. Births'
  <2>1. chain' \in Seq(Operations)
    BY DEF TypeOK
  <2>2. \/ entry'.gen = entry.gen /\ (entry.phase = "loading" => entry'.phase = "loading")
           /\ (entry = NoEntry => entry' = NoEntry)
        \/ entry' = NoEntry
    OBVIOUS
  <2> QED BY <1>0, <1>5, <2>1, <2>2, BirthsKept
<1>8. Undisturbed' /\ ReservationIsCurrent'
  BY <1>0 DEF Undisturbed, ReservationIsCurrent, Respects
<1> QED BY <1>2, <1>3, <1>4, <1>6, <1>7, <1>8 DEF Reservations

\* A call lets go of its preparation: it hangs up, goes round again or returns,
\* and drops the entry or makes it ready only if no one else holds it.
Leaves(c) ==
  /\ \A d \in Callers \ {c} : caller'[d] = caller[d]
  /\ \/ /\ caller'[c].pc \in {"idle", "retire"}
        /\ caller'[c].gen = 0 /\ caller'[c].source = Absent
     \/ /\ caller'[c].pc = "returned" /\ caller[c].pc \in {"checking", "committing"}
        /\ caller'[c].gen = caller[c].gen /\ caller'[c].source = caller[c].source
  /\ caller'[c].pc # "idle" => running

\* Nothing on the chain is left for a call that left.
LeftIn(c, d) ==
  \A k \in DOMAIN chain \ d : chain[k].op \in {"check", "commit"} => chain[k].for # c

LEMMA LetGo ==
  ASSUME TypeOK, TypeOK', Reservations, UNCHANGED running, NEW c \in Callers, Leaves(c),
         \E d : From(Bound, d) /\ LeftIn(c, d),
         \/ entry' = entry
         \/ entry' = NoEntry
         \/ /\ entry.gen = caller[c].gen /\ entry' = [entry EXCEPT !.phase = "ready"]
            /\ caller[c].pc \in Holds,
         entry' # entry =>
           \A d \in Callers \ {c} : caller[d].pc \in Holds => caller[d].gen # entry.gen,
         Respects
  PROVE  Reservations'
<1>0. /\ Calls /\ Exclusive /\ Entries /\ Served /\ Births /\ Undisturbed /\ ReservationIsCurrent
      /\ NoEntry.gen = 0 /\ NoEntry.phase = "none" /\ entry \in EntryType
  BY DEF Reservations, NoEntry, TypeOK
<1>1. entry' # entry => \A d \in Callers \ {c} : caller[d].pc # "reserved"
  BY <1>0 DEF Calls, Holds
<1>2. \/ entry' = entry
      \/ entry' = NoEntry
      \/ /\ entry'.gen = entry.gen /\ entry'.source = entry.source /\ entry'.phase = "ready"
         /\ entry.gen = caller[c].gen /\ caller[c].pc \in Holds
  BY <1>0 DEF EntryType
<1>3. Calls'
  <2>1. SUFFICES ASSUME NEW d \in Callers
        PROVE /\ caller'[d].pc \in {"idle", "retire"} => caller'[d].gen = 0 /\ caller'[d].source = Absent
              /\ caller'[d].pc \in {"loading", "loaded", "checking"} \cup Holds => caller'[d].gen # 0
              /\ ~ running' => caller'[d].pc = "idle"
              /\ caller'[d].gen # 0 /\ entry'.gen = caller'[d].gen => entry'.source = caller'[d].source
              /\ caller'[d].pc \in Holds /\ entry'.gen = caller'[d].gen => entry'.phase \in Holds
              /\ caller'[d].pc = "reserved" => entry'.gen = caller'[d].gen /\ entry'.phase = "reserved"
    BY DEF Calls
  <2>2. CASE d = c
    BY <1>0, <1>2, <2>2 DEF Leaves, Calls, Holds
  <2>3. CASE d # c
    <3>1. caller'[d] = caller[d]
      BY <2>3 DEF Leaves
    <3>2. entry' # entry /\ caller[d].pc \in Holds => caller[d].gen # entry'.gen
      BY <1>0, <1>2, <2>3 DEF Calls
    <3> QED BY <1>0, <1>1, <1>2, <2>3, <3>1, <3>2 DEF Calls
  <2> QED BY <2>2, <2>3
<1>4. Exclusive'
  BY <1>0 DEF Exclusive, Leaves, Holds
<1>5. Entries'
  <2>1. caller[c].pc \in Holds => caller[c].gen # 0
    BY <1>0 DEF Calls
  <2> QED BY <1>0, <1>2, <2>1 DEF Entries
<1>6. PICK d : From(Bound, d) /\ LeftIn(c, d)
  OBVIOUS
<1>7. Served'
  <2>1. ASSUME NEW k \in DOMAIN chain \ d
        PROVE  ServesNext(chain[k])
    <3>1. Serves(chain[k])
      BY <1>0 DEF Served
    <3>2. /\ chain[k].op = "prepare" => chain[k].for # 0
          /\ chain[k].op \in {"check", "commit"} => chain[k].for \in Callers \ {c}
      BY <1>6, BoundFacts, Ids DEF LeftIn
    <3>3. CASE chain[k].op = "prepare"
      <4>1. /\ entry.gen = chain[k].for => entry.phase = "loading"
            /\ \A e \in Callers : caller[e].gen = chain[k].for => caller[e].pc = "loading"
        BY <3>1, <3>3 DEF Serves
      <4>2. ASSUME NEW e \in Callers, caller'[e].gen = chain[k].for
            PROVE  caller'[e].pc = "loading"
        <5>1. CASE e = c
          BY <3>2, <3>3, <4>1, <4>2, <5>1 DEF Leaves
        <5>2. CASE e # c
          BY <4>1, <4>2, <5>2 DEF Leaves
        <5> QED BY <5>1, <5>2
      <4>3. entry'.gen = chain[k].for => entry'.phase = "loading"
        BY <1>0, <1>2, <3>2, <3>3, <4>1 DEF Holds
      <4> QED BY <3>3, <4>2, <4>3 DEF ServesNext
    <3>4. CASE chain[k].op \in {"commit", "check"}
      BY <3>1, <3>2, <3>4 DEF Serves, ServesNext, Leaves
    <3> QED BY <3>3, <3>4 DEF ServesNext
  <2> QED BY <1>0, <1>6, <2>1, ServedKept
<1>8. Births'
  <2>1. chain' \in Seq(Operations)
    BY DEF TypeOK
  <2>2. \/ entry'.gen = entry.gen /\ (entry.phase = "loading" => entry'.phase = "loading")
           /\ (entry = NoEntry => entry' = NoEntry)
        \/ entry' = NoEntry
        \/ entry.phase \in Holds
    BY <1>0, <1>2 DEF Calls
  <2>3. CASE entry.phase \in Holds
    <3>1. \A i \in DOMAIN chain : chain[i].op # "created"
      BY <1>0, <2>3 DEF Births, Holds
    <3> QED BY <1>0, <1>6, <2>1, <3>1, BirthsKept
  <2> QED BY <1>0, <1>6, <2>1, <2>2, <2>3, BirthsKept
<1>9. Undisturbed' /\ ReservationIsCurrent'
  <2>1. entry'.phase = "reserved" => entry' = entry
    BY <1>0, <1>2
  <2> QED BY <1>0, <2>1 DEF Undisturbed, ReservationIsCurrent, Respects
<1> QED BY <1>3, <1>4, <1>5, <1>7, <1>8, <1>9 DEF Reservations

LEMMA AllStay ==
  ASSUME UNCHANGED caller
  PROVE  \A c \in Callers : Stays(c)
BY DEF Stays

LEMMA BoundTail ==
  ASSUME TypeOK, chain # <<>>, chain' = Tail(chain)
  PROVE  \E d : From(Bound, d)
BY FromTail

LEMMA BoundSame ==
  ASSUME UNCHANGED chain
  PROVE  \E d : From(Bound, d)
BY FromSame

LEMMA BoundAppended ==
  ASSUME TypeOK, \E o \in Operations : o.op \notin Bound /\ Serialize(o)
  PROVE  \E d : From(Bound, d)
BY FromAppended

\* The seed of a session takes the place of its registration.
LEMMA FromSeeded ==
  ASSUME Shaped, chain # <<>>, chain[1].op = "created",
         \E n \in Nat : BindSeed(chain[1].for, Seed, n)
  PROVE  (\A kinds : "seed" \notin kinds => From(kinds, {1})) /\ stage' = "queued"
<1>0. TypeOK
  BY DEF Shaped
<1>1. PICK n \in Nat : BindSeed(chain[1].for, Seed, n)
  OBVIOUS
<1>2. CASE Len(Seed) = n
  <2>1. Finish
    BY <1>1, <1>2 DEF BindSeed
  <2> QED BY <1>0, <2>1, FromTail DEF Finish
<1>3. CASE Len(Seed) # n
  <2> DEFINE e == SubSeq(Seed, n + 1, Len(Seed))
             o == [op |-> "seed", for |-> chain[1].for, from |-> n, events |-> e]
  <2>1. e \in Seq(Events)
    BY <1>1, SeedType, SubSeqFacts
  <2>2. o.op = "seed"
    OBVIOUS
  <2> HIDE DEF e
  <2>3. o \in Operations
    BY <1>1, <2>1, SeedType, NewOps
  <2> HIDE DEF o
  <2>4. chain' = <<o>> \o Tail(chain) /\ stage' = "queued"
    BY <1>1, <1>3 DEF BindSeed, GoOn, e, o
  <2>5. /\ Tail(chain) \in Seq(Operations) /\ Len(Tail(chain)) = Len(chain) - 1
        /\ DOMAIN chain = 1 .. Len(chain) /\ Len(chain) \in Nat \ {0}
        /\ \A i \in 1 .. Len(chain) - 1 : Tail(chain)[i] = chain[i + 1]
    BY <1>0, TailFacts DEF TypeOK
  <2>6. <<o>> \in Seq(Operations) /\ Len(<<o>>) = 1 /\ <<o>>[1] = o
    BY <2>3
  <2>7. /\ chain' \in Seq(Operations) /\ Len(chain') = Len(<<o>>) + Len(Tail(chain))
        /\ \A i \in 1 .. Len(<<o>>) + Len(Tail(chain)) :
             chain'[i] = IF i <= Len(<<o>>) THEN <<o>>[i] ELSE Tail(chain)[i - Len(<<o>>)]
    BY <2>4, <2>5, <2>6, ConcatProperties
  <2>8. DOMAIN chain' = DOMAIN chain
    BY <2>5, <2>6, <2>7, LenProperties
  <2>9. chain'[1] = o
    BY <2>5, <2>6, <2>7
  <2>10. ASSUME NEW i \in DOMAIN chain', chain'[i].op # "seed"
         PROVE  i \in DOMAIN chain \ {1} /\ chain'[i] = chain[i]
    <3>1. i # 1
      BY <2>2, <2>9, <2>10
    <3>2. i - 1 \in 1 .. Len(chain) - 1 /\ i - 1 + 1 = i /\ ~ (i <= 1)
      BY <2>5, <2>8, <3>1
    <3> QED BY <2>5, <2>6, <2>7, <2>8, <3>1, <3>2
  <2>11. \A kinds : "seed" \notin kinds => From(kinds, {1})
    BY <2>10 DEF From
  <2> QED BY <2>4, <2>11
<1> QED BY <1>2, <1>3

LEMMA BoundSeeded ==
  ASSUME Shaped, chain # <<>>, chain[1].op = "created",
         \E n \in Nat : BindSeed(chain[1].for, Seed, n)
  PROVE  (\E d : From(Bound, d)) /\ stage' = "queued"
BY FromSeeded DEF Bound

\* Steps of the head that no call and no reservation has a part in.
LEMMA ReservedHead ==
  ASSUME Shaped, TypeOK', Reservations,
         \/ CommitRepairs \/ RepairTruncates \/ AppendRefused \/ AppendAdopts \/ AppendWrites
         \/ WriteStored \/ Claims \/ Reclaims \/ Collides \/ AdoptsLivePrefix \/ RegistersNew
         \/ ReleaseOwner \/ HeaderDecides \/ HeaderStored \/ CreateCore
         \/ WriteRefused \/ HeaderRefused
         \/ (RepairEnds \/ RepairFails \/ ReadFails) /\ UNCHANGED <<caller, entry>>
  PROVE  Reservations'
<1> USE DEF sessions, storage
<1>0. /\ TypeOK /\ Births /\ Undisturbed /\ ReservationIsCurrent
      /\ Nobody \notin Sessions
      /\ entry.phase = "reserved" => state = Tracked(Len(disk.log), TRUE, Nobody)
  BY Ids DEF Shaped, Reservations, ReservationIsCurrent
<1>1. Tracked(Len(disk.log), TRUE, Nobody).owner = Nobody
      /\ Tracked(Len(disk.log), TRUE, Nobody).tracked
      /\ Tracked(Len(disk.log), TRUE, Nobody).materialized
  BY DEF Tracked
<1>2. UNCHANGED <<running, caller>>
  BY DEF CommitRepairs, RepairTruncates, AppendRefused, AppendAdopts, AppendWrites, WriteStored,
     Claims, Reclaims, Collides, AdoptsLivePrefix, RegistersNew, ReleaseOwner, HeaderDecides,
     HeaderStored, CreateCore, WriteRefused, HeaderRefused, RepairEnds, RepairFails, ReadFails
<1>3. entry' = entry \/ (entry' = NoEntry /\ entry.phase # "reserved")
  <2>1. WriteStored \/ HeaderStored => entry.phase # "reserved"
    BY <1>0 DEF WriteStored, HeaderStored, Undisturbed
  <2>2. AppendAdopts => entry.phase # "reserved"
    BY DEF AppendAdopts, Writable
  <2> QED BY <2>1, <2>2 DEF CommitRepairs, RepairTruncates, AppendRefused, AppendAdopts, AppendWrites,
     WriteStored, Claims, Reclaims, Collides, AdoptsLivePrefix, RegistersNew, ReleaseOwner,
     HeaderDecides, HeaderStored, CreateCore, WriteRefused, HeaderRefused
<1>4. \E d : From(Bound, d)
  <2>1. CASE Claims \/ RegistersNew \/ (AdoptsLivePrefix /\ ~ disk.torn)
    <3>1. chain # <<>> /\ chain[1].op = "created" /\ state.cursor \in Nat /\ Len(disk.log) \in Nat
      BY <1>0, <2>1, LenProperties
         DEF Claims, RegistersNew, AdoptsLivePrefix, CreatedAtHead, AtHead, TypeOK, StateType, Disks
    <3>2. \E n \in Nat : BindSeed(chain[1].for, Seed, n)
      BY <2>1, <3>1 DEF Claims, RegistersNew, AdoptsLivePrefix
    <3> QED BY <3>1, <3>2, BoundSeeded
  <2>2. CASE UNCHANGED chain
    BY <2>2, BoundSame
  <2>3. CASE chain # <<>> /\ chain' = Tail(chain)
    BY <1>0, <2>3, BoundTail
  <2>4. stage # "queued" => chain # <<>>
    BY <1>0, Busy
  <2> QED BY <2>1, <2>2, <2>3, <2>4
          DEF CommitRepairs, RepairTruncates, AppendRefused, AppendAdopts, AppendWrites,
              WriteStored, Reclaims, Collides, AdoptsLivePrefix, ReleaseOwner, HeaderDecides,
              HeaderStored, CreateCore, WriteRefused, HeaderRefused, RepairEnds, RepairFails,
              ReadFails, AppendAtHead, CreatedAtHead, AtHead, Finish
<1>5. Respects
  <2>1. SUFFICES ASSUME entry'.phase = "reserved"
                 PROVE  stage' = "queued" /\ UNCHANGED <<disk, state>>
    BY DEF Respects
  <2>2. entry' = entry /\ entry.phase = "reserved" /\ stage = "queued"
    BY <1>0, <1>3, <2>1 DEF NoEntry, Undisturbed
  <2>3. /\ state.tracked /\ state.owner = Nobody /\ state.materialized /\ ~ disk.torn
        /\ ~ NeedsRepair(disk) /\ ~ Writable
    BY <1>0, <1>1, <2>2 DEF ReservationIsCurrent, NeedsRepair, Writable
  <2>4. ~ CreatedAtHead
    <3>1. SUFFICES ASSUME chain # <<>>, chain[1].op = "created" PROVE FALSE
      BY DEF CreatedAtHead, AtHead
    <3>2. 1 \in DOMAIN chain
      BY <1>0, <3>1, HeadFacts
    <3> QED BY <1>0, <2>2, <3>1, <3>2 DEF Births, NoEntry
  <2>5. ReleaseOwner => UNCHANGED <<disk, state>> /\ stage' = "queued"
    <3>1. ReleaseOwner => chain[1].for \in Sessions
      BY <1>0, HeadFacts DEF ReleaseOwner, AtHead, SessionOps
    <3> QED BY <1>0, <2>3, <3>1 DEF ReleaseOwner, Finish
  <2>6. CASE CommitRepairs \/ RepairTruncates \/ AppendAdopts \/ AppendWrites \/ WriteStored
             \/ Claims \/ Reclaims \/ Collides \/ AdoptsLivePrefix \/ RegistersNew
             \/ HeaderStored \/ WriteRefused \/ HeaderRefused \/ RepairEnds \/ RepairFails
    BY <2>2, <2>3, <2>4, <2>6
       DEF CommitRepairs, RepairTruncates, AppendAdopts, AppendWrites, WriteStored, Claims, Reclaims,
           Collides, AdoptsLivePrefix, RegistersNew, HeaderStored, WriteRefused, HeaderRefused,
           RepairEnds, RepairFails
  <2>7. CASE AppendRefused \/ HeaderDecides \/ CreateCore \/ ReadFails
    BY <2>2, <2>3, <2>7 DEF AppendRefused, HeaderDecides, CreateCore, ReadFails, Finish, AtHead
  <2> QED BY <2>5, <2>6, <2>7
<1> QED BY <1>0, <1>2, <1>3, <1>4, <1>5, AllStay, QuietReservations


-----------------------------------------------------------------------------
(* Steps of the sessions and of the service's other callers *)

\* What a chain gains beside the operations of these kinds.
LEMMA FromGained ==
  ASSUME TypeOK, NEW kinds, \E o : o.op \notin kinds /\ Serialize(o)
  PROVE  From(kinds, {})
<1>1. PICK o : o.op \notin kinds /\ Serialize(o)
  OBVIOUS
<1>2. chain \in Seq(Operations)
  BY DEF TypeOK
<1>3. chain \in Seq(Operations \cup {o}) /\ o \in Operations \cup {o}
  BY <1>2
<1>4. /\ DOMAIN chain' = 1 .. Len(chain) + 1 /\ DOMAIN chain = 1 .. Len(chain)
      /\ \A i \in DOMAIN chain : chain'[i] = chain[i]
      /\ chain'[Len(chain) + 1] = o /\ Len(chain) \in Nat
  BY <1>1, <1>3, AppendFacts DEF Serialize
<1>5. \A i \in DOMAIN chain' : chain'[i].op \in kinds =>
        i \in DOMAIN chain /\ chain'[i] = chain[i]
  BY <1>1, <1>4
<1> QED BY <1>5 DEF From

LEMMA ReservedAside ==
  ASSUME Shaped, TypeOK', Reservations,
         \/ \E s \in Sessions : RetireStep(s)
         \/ SessionAppends \/ Dispose \/ EnsureMaterialized \/ CreateCall \/ AppendCall
         \/ Evict \/ Stop \/ UNCHANGED vars
         \/ \E c \in Callers : SetupAppends(c)
  PROVE  Reservations'
<1> USE DEF sessions, storage
<1>0. TypeOK /\ Undisturbed /\ Calls
  BY DEF Shaped, Reservations
<1>1. UNCHANGED <<disk, state, stage>> /\ (entry' = entry \/ (Evict /\ entry' = NoEntry))
  BY DEF RetireStep, StartWrite, RetireFails, RetireFlushed, SessionAppends, Dispose,
     EnsureMaterialized, CreateCall, AppendCall, Evict, Stop, vars, SetupAppends
<1>2. Evict => entry.phase # "reserved"
  BY DEF Evict
<1>3. Respects
  BY <1>0, <1>1 DEF Respects, Undisturbed, NoEntry
<1>4. ~ running' => ~ running \/ \A c \in Callers : caller[c].pc = "idle"
  BY DEF RetireStep, StartWrite, RetireFails, RetireFlushed, SessionAppends, Dispose,
     EnsureMaterialized, CreateCall, AppendCall, Evict, Stop, vars, SetupAppends
<1>5. \A c \in Callers : Stays(c)
  <2>1. CASE \E c \in Callers : SetupAppends(c)
    <3>1. PICK c \in Callers : SetupAppends(c)
      BY <2>1
    <3>2. caller \in [Callers -> CallType]
      BY <1>0 DEF TypeOK
    <3>3. \A d \in Callers :
            /\ caller'[d].pc = caller[d].pc /\ caller'[d].gen = caller[d].gen
            /\ caller'[d].source = caller[d].source
      <4>1. ASSUME NEW d \in Callers
            PROVE  /\ caller'[d].pc = caller[d].pc /\ caller'[d].gen = caller[d].gen
                   /\ caller'[d].source = caller[d].source
        <5>1. CASE d # c
          BY <3>1, <3>2, <5>1 DEF SetupAppends
        <5>2. CASE d = c
          BY <3>1, <3>2, <5>2 DEF SetupAppends, CallType
        <5> QED BY <5>1, <5>2
      <4> QED BY <4>1
    <3> QED BY <3>3 DEF Stays
  <2>2. CASE UNCHANGED caller
    BY <2>2, AllStay
  <2> QED BY <2>1, <2>2 DEF RetireStep, StartWrite, RetireFails, RetireFlushed, SessionAppends,
          Dispose, EnsureMaterialized, CreateCall, AppendCall, Evict, Stop, vars
<1>6. \E d : From(Bound, d)
  <2>1. CASE UNCHANGED chain
    BY <2>1, BoundSame
  <2>2. CASE \E s \in Sessions : StartWrite(s) \/ RetireFlushed(s)
    <3>1. PICK s \in Sessions : StartWrite(s) \/ RetireFlushed(s)
      BY <2>2
    <3>2. Serialize(Op("write", s)) \/ Serialize(Op("release", s))
      BY <3>1 DEF StartWrite, RetireFlushed
    <3>3. Op("write", s).op \notin Bound /\ Op("release", s).op \notin Bound
      BY OpShape DEF Bound
    <3> QED BY <1>0, <3>2, <3>3, FromGained
  <2>3. CASE EnsureMaterialized \/ CreateCall
    <3>1. Serialize(Op("header", store)) \/ Serialize(Op("create", Outside))
      BY <2>3 DEF EnsureMaterialized, CreateCall
    <3>2. Op("header", store).op \notin Bound /\ Op("create", Outside).op \notin Bound
      BY OpShape DEF Bound
    <3> QED BY <1>0, <3>1, <3>2, FromGained
  <2>4. CASE AppendCall
    <3> DEFINE e == <<[by |-> Outside, kind |-> "note"]>>
               n == Len(Balanced(disk.log))
               o == [op |-> "append", for |-> Outside, events |-> e, from |-> n]
    <3>1. Serialize(o)
      BY <2>4 DEF AppendCall
    <3> HIDE DEF e, n
    <3>2. o.op \notin Bound
      BY DEF Bound
    <3> HIDE DEF o
    <3> QED BY <1>0, <3>1, <3>2, FromGained
  <2> QED BY <2>1, <2>2, <2>3, <2>4 DEF RetireStep, RetireFails, SessionAppends, Dispose,
          Evict, Stop, vars, SetupAppends
<1> QED BY <1>0, <1>1, <1>2, <1>3, <1>4, <1>5, <1>6, QuietReservations

-----------------------------------------------------------------------------
(* Calls that let go of their preparation *)

\* The one operation that waits is the head, or there is none.
LEMMA HeadLeaves ==
  ASSUME TypeOK, Served, chain # <<>>, chain[1].op \in {"check", "commit"}
  PROVE  LeftIn(chain[1].for, {1})
<1>1. 1 \in DOMAIN chain
  BY HeadFacts
<1>2. \A k \in DOMAIN chain \ {1} : Differ(chain[1], chain[k])
  BY <1>1 DEF Served
<1> QED BY <1>2 DEF LeftIn, Differ

LEMMA NoneLeaves ==
  ASSUME Served, NEW c \in Callers, caller[c].pc \notin {"checking", "committing"}
  PROVE  LeftIn(c, {})
BY DEF Served, Serves, LeftIn

\* What a call that goes leaves behind.
LEMMA Left ==
  ASSUME TypeOK, Calls, NEW c \in Callers, caller[c].pc # "idle",
         \/ caller' = HangUp(c)
         \/ caller' = TryAgain(c)
         \/ /\ caller[c].pc \in {"checking", "committing"}
            /\ \E view : caller' = Answer(c, "returned", view)
  PROVE  Leaves(c)
<1>1. caller \in [Callers -> CallType] /\ running
  BY DEF TypeOK, Calls
<1>2. CASE caller' = HangUp(c)
  BY <1>1, <1>2 DEF HangUp, Leaves, NoCall
<1>3. CASE caller' = TryAgain(c) /\ ~ caller[c].aborted
  BY <1>1, <1>3 DEF TryAgain, Leaves, CallType
<1>4. CASE caller' = TryAgain(c) /\ caller[c].aborted
  BY <1>2, <1>4 DEF TryAgain
<1>5. CASE /\ caller[c].pc \in {"checking", "committing"}
           /\ \E view : caller' = Answer(c, "returned", view)
  <2>1. PICK view : caller' = Answer(c, "returned", view)
    BY <1>5
  <2>2. caller' = [caller EXCEPT ![c].pc = "returned", ![c].view = view]
    BY <2>1 DEF Answer
  <2>3. \A d \in Callers \ {c} : caller'[d] = caller[d]
    BY <1>1, <2>2
  <2>4. /\ caller'[c].pc = "returned" /\ caller'[c].gen = caller[c].gen
        /\ caller'[c].source = caller[c].source
    BY <1>1, <2>2 DEF CallType
  <2> QED BY <1>1, <1>5, <2>3, <2>4 DEF Leaves
<1> QED BY <1>2, <1>3, <1>4, <1>5

\* Whoever holds the id's preparation holds it alone, and it is not ready.
LEMMA HeldAlone ==
  ASSUME Reservations, NEW c \in Callers, caller[c].gen = entry.gen,
         caller[c].pc \in Holds \/ entry.phase = "ready"
  PROVE  \A d \in Callers \ {c} : caller[d].pc \in Holds => caller[d].gen # entry.gen
BY DEF Reservations, Exclusive, Calls, Holds

LEMMA ReservedGone ==
  ASSUME Shaped, TypeOK', Reservations, NEW c \in Callers,
         \/ FindsLive(c) \/ Invalidated(c) \/ (Inspects(c) /\ store # Nobody)
         \/ Release(c) \/ EndCall(c) \/ Publish(c)
  PROVE  Reservations'
<1> USE DEF sessions, storage
<1>0. TypeOK /\ Calls /\ Served /\ Undisturbed /\ Exclusive
  BY DEF Shaped, Reservations
<1>1. /\ caller[c].pc \notin {"idle", "checking", "committing"} /\ UNCHANGED running
      /\ caller' = HangUp(c) \/ caller' = TryAgain(c)
  BY DEF FindsLive, Invalidated, Inspects, Loaded, Release, EndCall, Publish
<1>2. Leaves(c)
  BY <1>0, <1>1, Left
<1>3. LeftIn(c, {})
  BY <1>0, <1>1, NoneLeaves
<1>4. From(Bound, {})
  <2>1. CASE UNCHANGED chain
    BY <2>1, FromSame
  <2>2. CASE Publish(c) /\ ~ UNCHANGED chain
    <3> DEFINE s == Newborn
               history == Marked(caller[c].view, s) \o caller[c].extra
               suffix == SubSeq(history, state.cursor + 1, Len(history))
               o == [op |-> "suffix", for |-> s, events |-> suffix, from |-> state.cursor]
    <3>1. Serialize(o)
      BY <2>2 DEF Publish
    <3> HIDE DEF s, suffix
    <3>2. o.op \notin Bound
      BY DEF Bound
    <3> HIDE DEF o
    <3> QED BY <1>0, <3>1, <3>2, FromGained
  <2> QED BY <2>1, <2>2 DEF FindsLive, Invalidated, Inspects, Release, EndCall
<1>5. CASE Release(c) \/ Publish(c)
  <2>1. caller[c].pc = "reserved" /\ entry.gen = caller[c].gen /\ entry.phase = "reserved"
    BY <1>0, <1>5 DEF Release, Publish, Calls
  <2>2. entry' = NoEntry \/ entry' = [entry EXCEPT !.phase = "ready"]
    BY <1>5, <2>1 DEF Release, Publish, MakeReady, DropEntry
  <2>3. \A d \in Callers \ {c} : caller[d].pc \in Holds => caller[d].gen # entry.gen
    BY <2>1, HeldAlone DEF Holds
  <2>4. entry'.phase # "reserved"
    BY <1>0, <2>2 DEF NoEntry, TypeOK, EntryType
  <2>5. Respects
    BY <2>4 DEF Respects
  <2> QED BY <1>0, <1>1, <1>2, <1>3, <1>4, <2>1, <2>2, <2>3, <2>5, LetGo DEF Holds
<1>6. CASE ~ (Release(c) \/ Publish(c))
  <2>1. UNCHANGED <<entry, disk, state, stage>>
    BY <1>6 DEF FindsLive, Invalidated, Inspects, EndCall
  <2>2. Respects
    BY <1>0, <2>1 DEF Respects, Undisturbed
  <2> QED BY <1>0, <1>1, <1>2, <1>3, <1>4, <2>1, <2>2, LetGo
<1> QED BY <1>5, <1>6

\* The head of the chain ends the call it was for, unless it reserves.
LEMMA ReservedEnds ==
  ASSUME Shaped, TypeOK', Reservations, chain # <<>>, chain[1].op \in {"check", "commit"},
         \/ Check \/ CommitThrows \/ CommitStale
         \/ Commit /\ caller'[chain[1].for].pc # "reserved"
         \/ (RepairEnds \/ RepairFails) /\ chain[1].op = "commit"
         \/ ReadFails
  PROVE  Reservations'
<1> USE DEF sessions, storage
<1> DEFINE c == chain[1].for
           g == caller[c].gen
<1>0. /\ TypeOK /\ Calls /\ Served /\ Undisturbed /\ Exclusive /\ ReservationIsCurrent
      /\ c \in Callers /\ 1 \in DOMAIN chain /\ caller \in [Callers -> CallType]
      /\ entry \in EntryType
  BY HeadFacts DEF Shaped, Reservations, TypeOK
<1>1. /\ chain[1].op = "check" => caller[c].pc = "checking"
      /\ chain[1].op = "commit" => caller[c].pc = "committing"
  BY <1>0 DEF Served, Serves
<1>2. Finish /\ UNCHANGED running
  BY DEF Check, CommitThrows, CommitStale, Commit, RepairEnds, RepairFails, ReadFails
<1>3. From(Bound, {1}) /\ LeftIn(c, {1})
  BY <1>0, <1>2, FromTail, HeadLeaves DEF Finish
<1>4. \/ caller' = HangUp(c) \/ caller' = TryAgain(c)
      \/ \E view : caller' = Answer(c, "returned", view)
  <2>1. CASE Commit /\ caller'[chain[1].for].pc # "reserved"
    <3>1. ASSUME NEW view, caller' = Answer(c, "reserved", view) PROVE FALSE
      <4>1. caller'[c].pc = "reserved"
        BY <1>0, <3>1 DEF Answer, CallType
      <4> QED BY <2>1, <4>1
    <3> HIDE DEF c
    <3> QED BY <2>1, <3>1 DEF Commit, c
  <2>2. CASE Check \/ CommitThrows \/ CommitStale \/ ReadFails
             \/ ((RepairEnds \/ RepairFails) /\ chain[1].op = "commit")
    BY <2>2 DEF Check, CommitThrows, CommitStale, RepairEnds, RepairFails, ReadFails, AtHead
  <2> QED BY <2>1, <2>2
<1>5. Leaves(c)
  BY <1>0, <1>1, <1>4, Left
<1>6. \/ entry' = entry
      \/ /\ entry.gen = g /\ entry' \in {NoEntry, [entry EXCEPT !.phase = "ready"]}
         /\ caller[c].pc \in Holds
      \/ entry.gen = g /\ entry' = NoEntry /\ entry.phase = "ready"
  <2>1. CASE Check
    BY <2>1 DEF Check, DropEntry, Ready
  <2>2. CASE CommitThrows \/ CommitStale \/ ReadFails
             \/ ((RepairEnds \/ RepairFails) /\ chain[1].op = "commit")
    BY <1>1, <2>2 DEF CommitThrows, CommitStale, RepairEnds, RepairFails, ReadFails,
       DropEntry, Holds, AtHead
  <2>3. CASE Commit /\ caller'[chain[1].for].pc # "reserved"
    <3>1. ASSUME NEW view, caller' = Answer(c, "reserved", view) PROVE FALSE
      <4>1. caller'[c].pc = "reserved"
        BY <1>0, <3>1 DEF Answer, CallType
      <4> QED BY <2>3, <4>1
    <3>2. caller[c].pc \in Holds
      BY <1>1, <2>3 DEF Commit, AtHead, Holds
    <3> HIDE DEF c
    <3> QED BY <2>3, <3>1, <3>2 DEF Commit, MakeReady, c
  <2> QED BY <2>1, <2>2, <2>3
<1>7. entry' # entry => \A d \in Callers \ {c} : caller[d].pc \in Holds => caller[d].gen # entry.gen
  BY <1>0, <1>6, HeldAlone
<1>8. Respects
  <2>1. SUFFICES ASSUME entry'.phase = "reserved"
                 PROVE  stage' = "queued" /\ UNCHANGED <<disk, state>>
    BY DEF Respects
  <2>2. entry' = entry
    BY <1>0, <1>6, <2>1 DEF NoEntry, EntryType
  <2>3. stage = "queued" /\ state = Tracked(Len(disk.log), TRUE, Nobody)
    BY <1>0, <2>1, <2>2 DEF Undisturbed, ReservationIsCurrent
  <2> QED BY <1>2, <2>3 DEF Finish, Check, CommitThrows, CommitStale, Commit, RepairEnds,
             RepairFails, ReadFails
<1>9. \/ entry' = entry \/ entry' = NoEntry
      \/ /\ entry.gen = g /\ entry' = [entry EXCEPT !.phase = "ready"]
         /\ caller[c].pc \in Holds
  BY <1>6
<1> HIDE DEF c
<1> QED BY <1>0, <1>2, <1>3, <1>5, <1>7, <1>8, <1>9, LetGo

-----------------------------------------------------------------------------
(* Calls that begin, share, reserve or check a preparation *)

LEMMA ReservedBegins ==
  ASSUME Shaped, TypeOK', Reservations, NEW c \in Callers,
         (\E m \in Modes : Begin(c, m)) \/ Abort(c)
  PROVE  Reservations'
<1> USE DEF sessions, storage
<1>0. /\ TypeOK /\ Calls /\ Served /\ Undisturbed /\ Exclusive /\ entry \in EntryType
      /\ caller \in [Callers -> CallType]
  BY DEF Shaped, Reservations, TypeOK
<1>1. CASE \E m \in Modes : Begin(c, m)
  <2>1. PICK m \in Modes : Begin(c, m)
    BY <1>1
  <2> DEFINE call == [NoCall EXCEPT !.pc = "retire", !.mode = m, !.waits = retirement,
                                    !.owed = disk.log, !.tails = Tails]
  <2>2. call.pc = "retire" /\ call.gen = 0 /\ call.source = Absent
    BY DEF NoCall
  <2>3. caller' = [caller EXCEPT ![c] = call] /\ running /\ caller[c].pc = "idle"
    BY <2>1 DEF Begin
  <2> HIDE DEF call
  <2>4. Leaves(c)
    BY <1>0, <2>2, <2>3 DEF Leaves
  <2>5. LeftIn(c, {})
    BY <1>0, <2>3, NoneLeaves
  <2>6. From(Bound, {})
    BY <2>1, FromSame DEF Begin
  <2>7. Respects
    BY <1>0, <2>1 DEF Begin, Respects, Undisturbed
  <2> QED BY <1>0, <2>1, <2>4, <2>5, <2>6, <2>7, LetGo DEF Begin
<1>2. CASE Abort(c)
  <2>1. UNCHANGED <<running, state, disk, stage>>
    BY <1>2 DEF Abort
  <2>2. CASE caller[c].pc \in {"retire", "loading"}
    <3>1. caller' = HangUp(c) /\ UNCHANGED <<chain, entry>>
      BY <1>2, <2>2 DEF Abort
    <3>2. Leaves(c)
      BY <1>0, <2>2, <3>1, Left
    <3>3. LeftIn(c, {})
      BY <1>0, <2>2, NoneLeaves
    <3>4. From(Bound, {})
      BY <3>1, FromSame
    <3>5. Respects
      BY <1>0, <2>1, <3>1 DEF Respects, Undisturbed
    <3> QED BY <1>0, <2>1, <3>1, <3>2, <3>3, <3>4, <3>5, LetGo
  <2>3. CASE caller[c].pc \notin {"retire", "loading"}
    <3>1. PICK i \in DOMAIN chain :
            /\ caller[c].pc \in {"checking", "committing"}
            /\ chain[i].op \in {"check", "commit"} /\ chain[i].for = c
            /\ IF i = 1
               THEN /\ caller' = [caller EXCEPT ![c].aborted = TRUE]
                    /\ UNCHANGED <<chain, entry>>
               ELSE /\ caller' = HangUp(c)
                    /\ chain' = RemoveAt(chain, i)
                    /\ entry' = IF caller[c].pc = "committing"
                                THEN DropEntry(caller[c].gen) ELSE entry
      BY <1>2, <2>3 DEF Abort
    <3>2. CASE i = 1
      <4>1. \A d \in Callers :
              /\ caller'[d].pc = caller[d].pc /\ caller'[d].gen = caller[d].gen
              /\ caller'[d].source = caller[d].source
        <5>1. ASSUME NEW d \in Callers
              PROVE  /\ caller'[d].pc = caller[d].pc /\ caller'[d].gen = caller[d].gen
                     /\ caller'[d].source = caller[d].source
          <6>1. CASE d # c
            BY <1>0, <3>1, <3>2, <6>1
          <6>2. CASE d = c
            BY <1>0, <3>1, <3>2, <6>2 DEF CallType
          <6> QED BY <6>1, <6>2
        <5> QED BY <5>1
      <4>2. \A d \in Callers : Stays(d)
        BY <4>1 DEF Stays
      <4>3. Respects
        BY <1>0, <2>1, <3>1, <3>2 DEF Respects, Undisturbed
      <4> QED BY <1>0, <2>1, <3>1, <3>2, <4>2, <4>3, BoundSame, QuietReservations
    <3>3. CASE i # 1
      <4>1. Leaves(c)
        BY <1>0, <3>1, <3>3, Left
      <4>2. From(Bound, {i})
        BY <1>0, <3>1, <3>3, FromRemoved
      <4>3. LeftIn(c, {i})
        <5>1. \A k \in DOMAIN chain \ {i} : Differ(chain[i], chain[k])
          BY <1>0 DEF Served
        <5> QED BY <3>1, <5>1 DEF LeftIn, Differ
      <4>4. entry' = entry \/ (entry' = NoEntry /\ entry.gen = caller[c].gen
                               /\ caller[c].pc \in Holds)
        BY <3>1, <3>3 DEF DropEntry, Holds
      <4>5. entry' # entry =>
              \A d \in Callers \ {c} : caller[d].pc \in Holds => caller[d].gen # entry.gen
        BY <4>4, HeldAlone
      <4>6. Respects
        BY <1>0, <2>1, <4>4 DEF Respects, Undisturbed, NoEntry
      <4> QED BY <1>0, <2>1, <4>1, <4>2, <4>3, <4>4, <4>5, <4>6, LetGo
    <3> QED BY <3>2, <3>3
  <2> QED BY <2>2, <2>3
<1> QED BY <1>1, <1>2

\* The chain gains an operation that serves its call, and the first that does.
LEMMA ServedPlus ==
  ASSUME TypeOK, Served, \A k \in DOMAIN chain : ServesNext(chain[k]),
         \E o : /\ Serialize(o) /\ ServesNext(o)
                /\ \A k \in DOMAIN chain : Differ(chain[k], o)
  PROVE  Served'
<1>1. PICK o : /\ Serialize(o) /\ ServesNext(o)
               /\ \A k \in DOMAIN chain : Differ(chain[k], o)
  OBVIOUS
<1>2. chain \in Seq(Operations \cup {o}) /\ o \in Operations \cup {o}
  BY DEF TypeOK
<1>3. /\ DOMAIN chain' = 1 .. Len(chain) + 1 /\ DOMAIN chain = 1 .. Len(chain)
      /\ \A i \in DOMAIN chain : chain'[i] = chain[i]
      /\ chain'[Len(chain) + 1] = o /\ Len(chain) \in Nat
  BY <1>1, <1>2, AppendFacts DEF Serialize
<1>4. \A i \in DOMAIN chain' : i \in DOMAIN chain \/ i = Len(chain) + 1
  BY <1>3
<1>5. \A i \in DOMAIN chain' : ServesNext(chain'[i])
  BY <1>1, <1>3, <1>4
<1>6. \A i \in DOMAIN chain' : Serves(chain[i])'
  BY <1>5 DEF Serves, ServesNext
<1>7. \A k \in DOMAIN chain : Differ(o, chain[k])
  BY <1>1 DEF Differ
<1>8. \A i, j \in DOMAIN chain : i # j => Differ(chain[i], chain[j])
  BY DEF Served
<1>9. \A i, j \in DOMAIN chain' : i # j => Differ(chain'[i], chain'[j])
  BY <1>1, <1>3, <1>4, <1>7, <1>8
<1> QED BY <1>6, <1>9 DEF Served

LEMMA ReservedFinds ==
  ASSUME Shaped, TypeOK', Reservations, NEW c \in Callers, FindsCold(c)
  PROVE  Reservations'
<1> USE DEF sessions, storage
<1>0. /\ TypeOK /\ Calls /\ Served /\ Undisturbed /\ Exclusive /\ Entries /\ Births
      /\ ReservationIsCurrent /\ entry \in EntryType /\ chain \in Seq(Operations)
      /\ caller \in [Callers -> CallType] /\ caller[c] \in CallType
  BY DEF Shaped, Reservations, TypeOK
<1>1. /\ caller[c].pc = "retire" /\ running /\ caller[c].gen = 0 /\ caller[c].source = Absent
      /\ UNCHANGED <<running, state, disk, stage>>
  BY <1>0 DEF FindsCold, Calls
<1>2. \A k \in DOMAIN chain :
        /\ Serves(chain[k])
        /\ chain[k].op = "prepare" => chain[k].for \in Generations
        /\ chain[k].op \in {"check", "commit"} => chain[k].for \in Callers
  BY <1>0, BoundFacts DEF Served
<1>3. CASE entry # NoEntry /\ UNCHANGED <<chain, entry>>
  <2> DEFINE pc == IF entry.phase = "loading" THEN "loading" ELSE "loaded"
  <2>1. entry.gen # 0
    BY <1>0, <1>3 DEF Entries
  <2>2. caller' = [caller EXCEPT ![c].pc = pc, ![c].gen = entry.gen, ![c].source = entry.source]
    BY <1>3 DEF FindsCold
  <2>3. /\ caller'[c].pc = pc /\ caller'[c].gen = entry.gen /\ caller'[c].source = entry.source
        /\ \A d \in Callers \ {c} : caller'[d] = caller[d]
    BY <1>0, <2>2 DEF CallType
  <2>4. Calls'
    BY <1>0, <1>1, <1>3, <2>1, <2>3 DEF Calls, Holds
  <2>5. Exclusive' /\ Entries' /\ Undisturbed' /\ ReservationIsCurrent'
    BY <1>0, <1>1, <1>3, <2>3 DEF Exclusive, Holds, Entries, Undisturbed, ReservationIsCurrent
  <2>6. \A k \in DOMAIN chain : ServesNext(chain[k])
    BY <1>0, <1>1, <1>2, <1>3, <2>3 DEF Serves, ServesNext
  <2>7. Served' /\ Births'
    BY <1>0, <1>3, <2>6, FromSame, ServedKept DEF Births
  <2> QED BY <2>4, <2>5, <2>7 DEF Reservations
<1>4. CASE /\ entry = NoEntry /\ FreeGenerations # {}
           /\ caller' = [caller EXCEPT ![c].pc = "loading", ![c].gen = FreeGeneration]
           /\ entry' = [NoEntry EXCEPT !.gen = FreeGeneration, !.phase = "loading"]
           /\ Serialize(Op("prepare", FreeGeneration))
  <2> DEFINE g == FreeGeneration
             o == Op("prepare", g)
  <2>1. /\ g \in Generations /\ g # 0
        /\ \A d \in Callers : caller[d].gen # g
        /\ \A k \in DOMAIN chain : chain[k].op = "prepare" => chain[k].for # g
    BY <1>4, GenerationFacts, Ids DEF FreeGenerations
  <2>2. o.op = "prepare" /\ o.for = g /\ o \in Operations
    BY <2>1, NewOps, OpShape
  <2> HIDE DEF g
  <2>3. /\ caller'[c].pc = "loading" /\ caller'[c].gen = g /\ caller'[c].source = Absent
        /\ \A d \in Callers \ {c} : caller'[d] = caller[d]
    BY <1>0, <1>1, <1>4 DEF CallType, g
  <2>4. entry'.gen = g /\ entry'.phase = "loading" /\ entry'.source = Absent
    BY <1>4 DEF NoEntry, g
  <2>5. entry.phase = "none" /\ entry.gen = 0
    BY <1>4 DEF NoEntry
  <2>6. Calls'
    BY <1>0, <1>1, <2>1, <2>3, <2>4, <2>5 DEF Calls, Holds
  <2>7. Exclusive' /\ Entries' /\ Undisturbed' /\ ReservationIsCurrent'
    BY <1>0, <2>1, <2>3, <2>4 DEF Exclusive, Holds, Entries, Undisturbed, ReservationIsCurrent
  <2>8. \A k \in DOMAIN chain : ServesNext(chain[k])
    BY <1>1, <1>2, <2>1, <2>3, <2>4, Ids DEF Serves, ServesNext
  <2>9. ServesNext(o)
    BY <2>1, <2>2, <2>3, <2>4 DEF ServesNext
  <2>10. \A k \in DOMAIN chain : Differ(chain[k], o)
    BY <2>1, <2>2 DEF Differ
  <2>11. Serialize(o)
    BY <1>4 DEF g
  <2>12. /\ DOMAIN chain' = 1 .. Len(chain) + 1 /\ DOMAIN chain = 1 .. Len(chain)
         /\ \A i \in DOMAIN chain : chain'[i] = chain[i]
         /\ chain'[Len(chain) + 1] = o /\ Len(chain) \in Nat
    BY <1>0, <2>2, <2>11, AppendFacts DEF Serialize
  <2> HIDE DEF o
  <2>13. Served'
    BY <1>0, <2>8, <2>9, <2>10, <2>11, ServedPlus
  <2>14. Births'
    <3>1. \A i \in DOMAIN chain' : chain'[i].op = "created" => i \in 1 .. Len(chain)
      BY <2>2, <2>12
    <3>2. \A j \in DOMAIN chain' :
            chain'[j].op = "prepare" /\ chain'[j].for = g => j = Len(chain) + 1
      <4>1. \A j \in DOMAIN chain' : j \in DOMAIN chain \/ j = Len(chain) + 1
        BY <2>12
      <4> QED BY <2>1, <2>12, <4>1
    <3>3. \A i \in 1 .. Len(chain) : i < Len(chain) + 1
      BY <2>12
    <3> QED BY <2>4, <3>1, <3>2, <3>3 DEF Births
  <2> QED BY <2>6, <2>7, <2>13, <2>14 DEF Reservations
<1> QED BY <1>3, <1>4 DEF FindsCold

\* A call takes the ready preparation, or borrows one to inspect.
LEMMA ReservedTakes ==
  ASSUME Shaped, TypeOK', Reservations, NEW c \in Callers,
         Reserve(c) \/ (Inspects(c) /\ store = Nobody)
  PROVE  Reservations'
<1> USE DEF sessions, storage
<1> DEFINE pc == IF Reserve(c) THEN "committing" ELSE "checking"
           o == IF Reserve(c) THEN Op("commit", c) ELSE Op("check", c)
<1>0. /\ TypeOK /\ Calls /\ Served /\ Undisturbed /\ Exclusive /\ Entries /\ Births
      /\ ReservationIsCurrent /\ entry \in EntryType /\ chain \in Seq(Operations)
      /\ caller \in [Callers -> CallType] /\ caller[c] \in CallType
  BY DEF Shaped, Reservations, TypeOK
<1>1. /\ caller[c].pc = "loaded" /\ running /\ caller[c].gen # 0
      /\ UNCHANGED <<running, state, disk, stage>> /\ Serialize(o)
      /\ caller' = [caller EXCEPT ![c].pc = pc]
      /\ IF Reserve(c) THEN /\ entry.gen = caller[c].gen /\ entry.phase = "ready"
                            /\ entry' = [entry EXCEPT !.phase = "committing"]
         ELSE UNCHANGED entry
  BY <1>0 DEF Reserve, Inspects, Loaded, Ready, Calls
<1>2. \A k \in DOMAIN chain :
        /\ Serves(chain[k])
        /\ chain[k].op = "prepare" => chain[k].for \in Generations
        /\ chain[k].op \in {"check", "commit"} => chain[k].for \in Callers
  BY <1>0, BoundFacts DEF Served
<1>3. /\ caller'[c].pc = pc /\ caller'[c].gen = caller[c].gen
      /\ caller'[c].source = caller[c].source
      /\ \A d \in Callers \ {c} : caller'[d] = caller[d]
  BY <1>0, <1>1 DEF CallType
<1>4. /\ entry'.gen = entry.gen /\ entry'.source = entry.source
      /\ entry' = entry \/ (/\ entry.phase = "ready" /\ entry'.phase = "committing"
                            /\ entry.gen = caller[c].gen /\ pc = "committing")
      /\ pc = "committing" => entry'.phase = "committing" /\ entry.gen = caller[c].gen
                              /\ entry.phase = "ready"
  BY <1>0, <1>1 DEF EntryType
<1>5. /\ o.op \in {"commit", "check"} /\ o.for = c
      /\ o.op = "commit" <=> pc = "committing"
      /\ o.op = "check" <=> pc = "checking"
      /\ o \in Operations
  BY NewOps, OpShape
<1>6. pc \in {"checking", "committing"}
  OBVIOUS
<1> HIDE DEF pc, o
<1>7. Calls'
  BY <1>0, <1>1, <1>3, <1>4, <1>6 DEF Calls, Holds
<1>8. Exclusive'
  BY <1>0, <1>1, <1>3, <1>4, <1>6 DEF Calls, Exclusive, Holds
<1>9. Entries' /\ Undisturbed' /\ ReservationIsCurrent'
  BY <1>0, <1>1, <1>4 DEF Entries, Undisturbed, ReservationIsCurrent
<1>10. \A k \in DOMAIN chain : ServesNext(chain[k])
  BY <1>0, <1>1, <1>2, <1>3, <1>4 DEF Serves, ServesNext
<1>11. LeftIn(c, {})
  BY <1>0, <1>1, NoneLeaves
<1>12. ServesNext(o) /\ \A k \in DOMAIN chain : Differ(chain[k], o)
  BY <1>3, <1>5, <1>11 DEF ServesNext, Differ, LeftIn
<1>13. Served'
  BY <1>0, <1>1, <1>10, <1>12, ServedPlus
<1>14. Births'
  <2>1. /\ DOMAIN chain' = 1 .. Len(chain) + 1 /\ DOMAIN chain = 1 .. Len(chain)
        /\ \A i \in DOMAIN chain : chain'[i] = chain[i]
        /\ chain'[Len(chain) + 1] = o /\ Len(chain) \in Nat
    BY <1>0, <1>1, <1>5, AppendFacts DEF Serialize
  <2>2. \A i \in DOMAIN chain' : chain'[i].op \in {"created", "prepare"} =>
          i \in DOMAIN chain /\ chain'[i] = chain[i]
    BY <1>5, <2>1
  <2>3. CASE entry' = entry
    BY <1>0, <2>2, <2>3 DEF Births
  <2>4. CASE entry.phase = "ready"
    <3>1. \A i \in DOMAIN chain : chain[i].op # "created"
      BY <1>0, <2>4 DEF Births, NoEntry
    <3> QED BY <2>2, <3>1 DEF Births
  <2> QED BY <1>4, <2>3, <2>4
<1> QED BY <1>7, <1>8, <1>9, <1>13, <1>14 DEF Reservations

LEMMA ReservedCreates ==
  ASSUME Shaped, TypeOK', Reservations, \E replay \in BOOLEAN : CreateSession(replay)
  PROVE  Reservations'
<1> USE DEF sessions, storage
<1> DEFINE o == Op("created", Newborn)
<1>0. TypeOK /\ Calls /\ Served /\ Undisturbed /\ Exclusive /\ Entries /\ ReservationIsCurrent
  BY DEF Shaped, Reservations
<1>1. /\ UNCHANGED <<running, state, disk, stage, entry, caller>>
      /\ \/ running /\ entry = NoEntry /\ Serialize(o)
         \/ ~ running /\ UNCHANGED chain
  BY DEF CreateSession
<1>2. CASE ~ running /\ UNCHANGED chain
  <2>1. Respects
    BY <1>0, <1>1 DEF Respects, Undisturbed
  <2> QED BY <1>0, <1>1, <1>2, <2>1, BoundSame, AllStay, QuietReservations
<1>3. CASE running /\ entry = NoEntry /\ Serialize(o)
  <2>1. Calls' /\ Exclusive' /\ Entries' /\ Undisturbed' /\ ReservationIsCurrent'
    BY <1>0, <1>1 DEF Calls, Exclusive, Entries, Undisturbed, ReservationIsCurrent
  <2>2. o.op = "created"
    BY OpShape
  <2> HIDE DEF o
  <2>3. ServesNext(o) /\ \A k \in DOMAIN chain : Differ(chain[k], o)
    BY <2>2 DEF ServesNext, Differ
  <2>4. \A k \in DOMAIN chain : ServesNext(chain[k])
    BY <1>0, <1>1 DEF Served, Serves, ServesNext
  <2>5. Served'
    BY <1>0, <1>3, <2>3, <2>4, ServedPlus
  <2>6. Births'
    <3>1. \A j \in DOMAIN chain' : chain'[j].op = "prepare" => chain'[j].for \in Generations
      <4>1. chain' \in Seq(Operations)
        BY DEF TypeOK
      <4>2. \A j \in DOMAIN chain' : chain'[j] \in Operations
        BY <4>1, ElementOfSeq, LenProperties
      <4> QED BY <4>2, OpFacts
    <3>2. entry' = NoEntry /\ NoEntry.gen = 0
      BY <1>1, <1>3 DEF NoEntry
    <3> QED BY <3>1, <3>2, Ids DEF Births
  <2> QED BY <2>1, <2>5, <2>6 DEF Reservations
<1> QED BY <1>1, <1>2, <1>3

-----------------------------------------------------------------------------
(* A load settles, and a commit reserves *)

LEMMA ReservedLoads ==
  ASSUME Shaped, TypeOK', Reservations,
         PrepareCore \/ (ReadFails /\ chain[1].op = "prepare")
  PROVE  Reservations'
<1> USE DEF sessions, storage
<1> DEFINE g == chain[1].for
<1>0. /\ TypeOK /\ Calls /\ Served /\ Undisturbed /\ Exclusive /\ Entries /\ Births
      /\ ReservationIsCurrent /\ entry \in EntryType /\ caller \in [Callers -> CallType]
      /\ chain' \in Seq(Operations) /\ disk \in Disks
      /\ \A c \in Callers : caller[c] \in CallType
  BY DEF Shaped, Reservations, TypeOK
<1>1. /\ chain # <<>> /\ chain[1].op = "prepare" /\ Finish
      /\ UNCHANGED <<running, disk, state>>
  BY DEF PrepareCore, ReadFails, AtHead
<1>2. /\ g \in Generations /\ g # 0 /\ 1 \in DOMAIN chain /\ Serves(chain[1])
      /\ From(Bound, {1})
  BY <1>0, <1>1, HeadFacts, Ids, FromTail DEF Served, Finish
<1>3. /\ entry.gen = g => entry.phase = "loading"
      /\ \A c \in Callers : caller[c].gen = g => caller[c].pc = "loading"
  BY <1>1, <1>2 DEF Serves
<1>4. \/ /\ caller' = LoadFulfills(g, disk)
         /\ entry' = IF entry.gen = g
                     THEN [entry EXCEPT !.phase = "ready", !.source = disk] ELSE entry
      \/ caller' = LoadRejects(g) /\ entry' = DropEntry(g)
  BY <1>1 DEF PrepareCore, ReadFails, AtHead
<1> HIDE DEF g
<1>5. \A c \in Callers : caller[c].gen # g => caller'[c] = caller[c]
  BY <1>4 DEF LoadFulfills, LoadRejects
<1>6. \/ \A c \in Callers : caller[c].gen = g =>
           /\ caller'[c].pc = "loaded" /\ caller'[c].gen = g /\ caller'[c].source = disk
           /\ entry'.gen = g => entry'.source = disk
      \/ \A c \in Callers : caller[c].gen = g =>
           caller'[c].pc = "idle" /\ caller'[c].gen = 0 /\ caller'[c].source = Absent
  <2>1. CASE caller' = LoadRejects(g)
    BY <2>1 DEF LoadRejects, NoCall
  <2>2. CASE /\ caller' = LoadFulfills(g, disk)
             /\ entry' = IF entry.gen = g
                         THEN [entry EXCEPT !.phase = "ready", !.source = disk] ELSE entry
    <3>1. ASSUME NEW c \in Callers, caller[c].gen = g
          PROVE  caller'[c].pc = "loaded" /\ caller'[c].gen = g /\ caller'[c].source = disk
      <4>1. caller'[c] = [caller[c] EXCEPT !.pc = "loaded", !.source = disk]
        BY <2>2, <3>1 DEF LoadFulfills
      <4>2. caller[c] \in CallType
        BY <1>0
      <4> QED BY <3>1, <4>1, <4>2 DEF CallType
    <3>2. entry'.gen = g => entry'.source = disk
      BY <1>0, <2>2 DEF EntryType
    <3> QED BY <3>1, <3>2
  <2> QED BY <1>4, <2>1, <2>2
<1>7. /\ entry.gen # g => entry' = entry
      /\ entry.gen = g => entry' = NoEntry \/ (entry'.gen = g /\ entry'.phase = "ready")
  BY <1>0, <1>4 DEF DropEntry, EntryType
<1>8. Calls'
  BY <1>0, <1>1, <1>2, <1>3, <1>5, <1>6, <1>7 DEF Calls, Holds, NoEntry
<1>9. Exclusive'
  BY <1>0, <1>3, <1>5, <1>6 DEF Exclusive, Holds
<1>10. Entries' /\ Undisturbed' /\ ReservationIsCurrent'
  <2>1. Entries'
    BY <1>0, <1>2, <1>7 DEF Entries
  <2>2. Undisturbed'
    BY <1>1 DEF Undisturbed, Finish
  <2>3. entry'.phase = "reserved" => entry' = entry
    BY <1>7 DEF NoEntry
  <2>4. ReservationIsCurrent'
    BY <1>0, <1>1, <2>3 DEF ReservationIsCurrent
  <2> QED BY <2>1, <2>2, <2>4
<1>11. Served'
  <2>1. ASSUME NEW k \in DOMAIN chain \ {1}
        PROVE  ServesNext(chain[k])
    <3>1. /\ Serves(chain[k]) /\ Differ(chain[1], chain[k])
          /\ chain[k].op = "prepare" => chain[k].for # 0
          /\ chain[k].op \in {"check", "commit"} => chain[k].for \in Callers
      BY <1>0, <1>2, BoundFacts, Ids DEF Served
    <3>2. chain[k].op = "prepare" => chain[k].for # g
      BY <1>1, <3>1 DEF Differ, g
    <3>3. chain[k].op \in {"check", "commit"} => caller'[chain[k].for] = caller[chain[k].for]
      BY <1>3, <1>5, <3>1 DEF Serves
    <3>4. ASSUME chain[k].op = "prepare"
          PROVE  /\ entry'.gen = chain[k].for => entry'.phase = "loading"
                 /\ \A c \in Callers : caller'[c].gen = chain[k].for => caller'[c].pc = "loading"
      <4>1. /\ entry.gen = chain[k].for => entry.phase = "loading"
            /\ \A c \in Callers : caller[c].gen = chain[k].for => caller[c].pc = "loading"
        BY <3>1, <3>4 DEF Serves
      <4>2. chain[k].for # g /\ chain[k].for # 0
        BY <3>1, <3>2, <3>4
      <4>3. NoEntry.gen = 0
        BY DEF NoEntry
      <4> QED BY <1>5, <1>6, <1>7, <4>1, <4>2, <4>3
    <3> QED BY <3>1, <3>3, <3>4 DEF Serves, ServesNext
  <2> QED BY <1>0, <1>2, <2>1, ServedKept
<1>12. Births'
  <2>1. CASE entry.gen = g
    <3>1. ASSUME NEW i \in DOMAIN chain \ {1} PROVE chain[i].op # "created"
      <4>1. i \in Nat /\ ~ (i < 1)
        <5>1. chain \in Seq(Operations)
          BY <1>0 DEF TypeOK
        <5> QED BY <5>1, LenProperties
      <4> QED BY <1>1, <1>2, <2>1, <3>1, <4>1, <1>0 DEF Births, g
    <3> QED BY <1>0, <1>2, <3>1, BirthsKept
  <2>2. CASE entry.gen # g
    BY <1>0, <1>2, <1>7, <2>2, BirthsKept
  <2> QED BY <2>1, <2>2
<1> QED BY <1>8, <1>9, <1>10, <1>11, <1>12 DEF Reservations

\* The commit sets the durable cursor on the log it read, and nothing that was
\* queued before it is left to move either.
LEMMA ReservedCommits ==
  ASSUME Shaped, TypeOK', Reservations, Commit, caller'[chain[1].for].pc = "reserved"
  PROVE  Reservations'
<1> USE DEF sessions, storage
<1> DEFINE c == chain[1].for
           g == caller[c].gen
<1>0. /\ TypeOK /\ Calls /\ Served /\ Undisturbed /\ Exclusive /\ Entries /\ Births
      /\ ReservationIsCurrent /\ entry \in EntryType /\ caller \in [Callers -> CallType]
      /\ chain' \in Seq(Operations)
      /\ \A d \in Callers : caller[d] \in CallType
  BY DEF Shaped, Reservations, TypeOK
<1>1. /\ chain # <<>> /\ chain[1].op = "commit" /\ Finish
      /\ UNCHANGED <<running, disk>> /\ Source(c) = disk /\ ~ NeedsRepair(disk)
      /\ state' = Tracked(Len(disk.log), TRUE, Nobody)
  BY DEF Commit, AtHead
<1>2. c \in Callers /\ 1 \in DOMAIN chain /\ From(Bound, {1}) /\ LeftIn(c, {1})
  BY <1>0, <1>1, HeadFacts, FromTail, HeadLeaves DEF Finish
<1>3. caller[c].pc = "committing"
  BY <1>0, <1>1, <1>2 DEF Served, Serves
<1>4. /\ entry.gen = g /\ entry' = [entry EXCEPT !.phase = "reserved"]
      /\ \E view : caller' = Answer(c, "reserved", view)
  <2>1. HangUp(c)[c].pc = "idle" /\ TryAgain(c)[c].pc \in {"idle", "retire"}
    BY <1>0, <1>2 DEF HangUp, TryAgain, NoCall, CallType
  <2>2. \A view : Answer(c, "returned", view)[c].pc = "returned"
    BY <1>0, <1>2 DEF Answer, CallType
  <2>3. caller'[c].pc = "reserved"
    OBVIOUS
  <2> HIDE DEF c
  <2> QED BY <2>1, <2>2, <2>3 DEF Commit, c
<1>5. PICK view : caller' = Answer(c, "reserved", view)
  BY <1>4
<1> HIDE DEF c
<1>6. /\ caller'[c].pc = "reserved" /\ caller'[c].gen = g /\ caller'[c].source = caller[c].source
      /\ \A d \in Callers \ {c} : caller'[d] = caller[d]
  BY <1>0, <1>2, <1>5 DEF Answer, CallType
<1>7. /\ entry'.gen = g /\ entry'.phase = "reserved" /\ entry'.source = disk
      /\ entry.phase \in Holds /\ g # 0 /\ entry.source = disk
  BY <1>0, <1>1, <1>2, <1>3, <1>4 DEF Calls, Holds, Source, EntryType
<1>8. \A d \in Callers \ {c} : caller[d].pc \in Holds => caller[d].gen # g
  BY <1>0, <1>2, <1>3 DEF Exclusive, Holds
<1>9. Calls'
  BY <1>0, <1>1, <1>2, <1>3, <1>4, <1>6, <1>7, <1>8 DEF Calls, Holds
<1>10. Exclusive'
  BY <1>0, <1>2, <1>6, <1>8 DEF Exclusive
<1>11. Entries' /\ Undisturbed'
  BY <1>1, <1>7 DEF Entries, Undisturbed, Finish
<1>12. ReservationIsCurrent'
  BY <1>1, <1>7 DEF ReservationIsCurrent, NeedsRepair
<1>13. Served'
  <2>1. ASSUME NEW k \in DOMAIN chain \ {1}
        PROVE  ServesNext(chain[k])
    <3>1. /\ Serves(chain[k])
          /\ chain[k].op \in {"check", "commit"} => chain[k].for \in Callers \ {c}
      BY <1>0, <1>2, BoundFacts DEF Served, LeftIn
    <3>2. chain[k].op = "prepare" => chain[k].for # g
      BY <1>2, <1>3, <3>1 DEF Serves
    <3> QED BY <1>2, <1>6, <1>7, <3>1, <3>2 DEF Serves, ServesNext
  <2> QED BY <1>0, <1>2, <2>1, ServedKept
<1>14. Births'
  <2>1. \A i \in DOMAIN chain \ {1} : chain[i].op # "created"
    BY <1>0, <1>7 DEF Births, Holds, NoEntry
  <2> QED BY <1>0, <1>2, <2>1, BirthsKept
<1> QED BY <1>9, <1>10, <1>11, <1>12, <1>13, <1>14 DEF Reservations

-----------------------------------------------------------------------------
(* The theorems *)

\* No call and no preparation: a coordinator that has just been loaded.
Unused ==
  /\ entry = NoEntry /\ \A c \in Callers : caller[c] = NoCall
  /\ \A i \in DOMAIN chain : chain[i].op = "created"

LEMMA UnusedReservations == Unused => Reservations
<1>1. /\ NoEntry.gen = 0 /\ NoEntry.phase = "none"
      /\ NoCall.pc = "idle" /\ NoCall.gen = 0 /\ NoCall.source = Absent
  BY DEF NoEntry, NoCall
<1> QED BY <1>1 DEF Unused, Reservations, Calls, Exclusive, Entries, Served, Serves, Differ, Births,
          Undisturbed, ReservationIsCurrent, Holds

LEMMA ReservedUpsets ==
  ASSUME Shaped, TypeOK', Reservations, Start \/ Crash
  PROVE  Reservations'
<1>1. CASE Crash
  <2>1. entry' = NoEntry /\ chain' = <<>> /\ \A c \in Callers : caller'[c] = NoCall
    BY <1>1 DEF Crash
  <2>2. Unused'
    BY <2>1 DEF Unused
  <2> QED BY <2>2, UnusedReservations, PTL
<1>2. CASE Start
  <2>1. /\ \A c \in Callers : caller[c].pc = "idle" /\ caller[c].gen = 0 /\ caller[c].source = Absent
        /\ UNCHANGED caller /\ entry' = NoEntry
        /\ chain' = <<>> \/ chain' = <<Op("created", store)>>
    BY <1>2 DEF Start, Reservations, Calls
  <2>2. \A i \in DOMAIN chain' : chain'[i].op = "created"
    <3>1. \A i \in DOMAIN <<Op("created", store)>> : i = 1
      OBVIOUS
    <3>2. <<Op("created", store)>>[1].op = "created"
      BY OpShape
    <3> QED BY <2>1, <3>1, <3>2
  <2>3. NoEntry.gen = 0 /\ NoEntry.phase = "none"
    BY DEF NoEntry
  <2> QED BY <2>1, <2>2, <2>3 DEF Reservations, Calls, Exclusive, Entries, Served, Serves, Differ,
             Births, Undisturbed, ReservationIsCurrent, Holds
<1> QED BY <1>1, <1>2

LEMMA ReservationsStep ==
  ASSUME Shaped, Reservations, [Next]_vars
  PROVE  Reservations'
<1>0. TypeOK' /\ TypeOK
  BY TypeStep DEF Shaped
<1>1. CASE UNCHANGED vars \/ SessionAppends \/ Dispose \/ EnsureMaterialized \/ CreateCall
           \/ AppendCall \/ Evict \/ Stop \/ \E s \in Sessions : RetireStep(s)
  BY <1>0, <1>1, ReservedAside
<1>2. CASE \E replay \in BOOLEAN : CreateSession(replay)
  BY <1>0, <1>2, ReservedCreates
<1>3. CASE Start \/ Crash
  BY <1>0, <1>3, ReservedUpsets
<1>4. ASSUME NEW c \in Callers,
             \/ \E m \in Modes : Begin(c, m)
             \/ CallStep(c) \/ Abort(c)
             \/ Publish(c) \/ SetupAppends(c) \/ Release(c)
      PROVE  Reservations'
  <2>1. CASE (\E m \in Modes : Begin(c, m)) \/ Abort(c)
    BY <1>0, <2>1, ReservedBegins
  <2>2. CASE SetupAppends(c)
    BY <1>0, <2>2, ReservedAside
  <2>3. CASE FindsCold(c)
    BY <1>0, <2>3, ReservedFinds
  <2>4. CASE Reserve(c) \/ (Inspects(c) /\ store = Nobody)
    BY <1>0, <2>4, ReservedTakes
  <2>5. CASE \/ FindsLive(c) \/ Invalidated(c) \/ (Inspects(c) /\ store # Nobody)
             \/ Release(c) \/ EndCall(c) \/ Publish(c)
    BY <1>0, <2>5, ReservedGone
  <2> QED BY <1>4, <2>1, <2>2, <2>3, <2>4, <2>5 DEF CallStep
<1>5. CASE ChainStep \/ Refusal
  <2>1. CASE PrepareCore
    BY <1>0, <2>1, ReservedLoads
  <2>2. CASE Commit
    <3>1. chain # <<>> /\ chain[1].op = "commit"
      BY <2>2 DEF Commit, AtHead
    <3> QED BY <1>0, <2>2, <3>1, ReservedCommits, ReservedEnds
  <2>3. CASE Check \/ CommitThrows \/ CommitStale
    <3>1. chain # <<>> /\ chain[1].op \in {"check", "commit"}
      BY <2>3 DEF Check, CommitThrows, CommitStale, AtHead
    <3> QED BY <1>0, <2>3, <3>1, ReservedEnds
  <2>4. CASE RepairEnds \/ RepairFails
    <3>1. chain # <<>>
      BY <1>0, <2>4, Busy DEF RepairEnds, RepairFails
    <3>2. chain[1].op # "commit" => UNCHANGED <<caller, entry>>
      BY <2>4 DEF RepairEnds, RepairFails
    <3> QED BY <1>0, <2>4, <3>1, <3>2, ReservedEnds, ReservedHead
  <2>5. CASE ReadFails
    <3>1. CASE chain[1].op = "prepare"
      BY <1>0, <2>5, <3>1, ReservedLoads
    <3>2. CASE chain[1].op \in {"check", "commit"}
      <4>1. chain # <<>>
        BY <2>5 DEF ReadFails, AtHead
      <4> QED BY <1>0, <2>5, <3>2, <4>1, ReservedEnds
    <3>3. CASE chain[1].op \notin {"prepare", "check", "commit"}
      <4>1. UNCHANGED <<caller, entry>>
        BY <2>5, <3>3 DEF ReadFails, AtHead
      <4> QED BY <1>0, <2>5, <4>1, ReservedHead
    <3> QED BY <3>1, <3>2, <3>3
  <2>6. CASE \/ CommitRepairs \/ RepairTruncates \/ AppendRefused \/ AppendAdopts \/ AppendWrites
             \/ WriteStored \/ Claims \/ Reclaims \/ Collides \/ AdoptsLivePrefix \/ RegistersNew
             \/ ReleaseOwner \/ HeaderDecides \/ HeaderStored \/ CreateCore
             \/ WriteRefused \/ HeaderRefused
    BY <1>0, <2>6, ReservedHead
  <2> QED BY <1>5, <2>1, <2>2, <2>3, <2>4, <2>5, <2>6 DEF ChainStep, Refusal
<1> QED BY <1>1, <1>2, <1>3, <1>4, <1>5 DEF Next

LEMMA ReservationsHold == Spec => [](Shaped /\ Reservations)
<1>1. Init => Shaped /\ Reservations
  <2>1. Init => Unused
    BY DEF Init, Unused
  <2> QED BY <2>1, ShapedInit, UnusedReservations
<1>2. Shaped /\ Reservations /\ [Next]_vars => (Shaped /\ Reservations)'
  BY ShapedStep, ReservationsStep
<1> QED BY <1>1, <1>2, PTL DEF Spec

\* Resumes of one id are exclusive: the preparation that a call holds reserved
\* is no other call's until it is published or released (reserve, commitPrepared).
THEOREM ReservationsAreExclusive == Spec => []OneReservation
<1>1. Reservations => OneReservation
  BY DEF Reservations, Calls, Exclusive, Holds, OneReservation
<1> QED BY <1>1, ReservationsHold, PTL

\* A reserved preparation is the log, to the event: whoever publishes it
\* publishes what is durable (commitPrepared, assertWritable, onCreated).
THEOREM ReservationsAreCurrent == Spec => []ReservationIsCurrent
<1>1. Reservations => ReservationIsCurrent
  BY DEF Reservations
<1> QED BY <1>1, ReservationsHold, PTL
=============================================================================
