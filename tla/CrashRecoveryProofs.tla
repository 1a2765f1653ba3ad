------------------------- MODULE CrashRecoveryProofs -------------------------
(***************************************************************************)
(* For every number of calls, turns and failures, every set of calls of    *)
(* the file system that may fail (close excepted) and both file formats:   *)
(* what was acknowledged survives, no effect is without its record, and    *)
(* what crash repair leaves is a legal log that needs no second repair.    *)
(*                                                                         *)
(* The file is a log that is read back through folds (the reader's scan,   *)
(* the repair's scan, the grammar's replay), so the first part shows what  *)
(* a fold computes step by step, and which logs are legal; the second what *)
(* the file holds at each stage of an append, a creation and a repair; the *)
(* third what the loop has recorded at each place. IInv is their           *)
(* conjunction. The theorems assume that neither closing a file nor the    *)
(* rollback, which closes and reopens it, fails ("close" \notin Faults):   *)
(* CloseFails.cfg shows what happens otherwise.                            *)
(***************************************************************************)
EXTENDS CrashRecovery, FiniteSetTheorems, SequenceTheorems, WellFoundedInduction, TLAPS

-----------------------------------------------------------------------------
(* Numbers *)

\* Induction up to n, for a set of numbers: a number outside it would have a
\* least one below which everything is inside.
LEMMA Climb ==
  ASSUME NEW n \in Nat, NEW T, 0 \in T,
         \A i \in 0 .. n - 1 : i \in T => i + 1 \in T
  PROVE  \A i \in 0 .. n : i \in T
<1> DEFINE Out == {i \in 0 .. n : i \notin T}
           Below == {0 .. x : x \in Out}
<1>1. SUFFICES ASSUME Out # {} PROVE FALSE
  OBVIOUS
<1>2. Below # {}
  BY <1>1
<1>3. Below \subseteq FiniteSubsetsOf(0 .. n)
  <2>1. SUFFICES ASSUME NEW x \in Out PROVE 0 .. x \in FiniteSubsetsOf(0 .. n)
    OBVIOUS
  <2>2. x \in 0 .. n /\ 0 .. x \subseteq 0 .. n
    OBVIOUS
  <2>3. IsFiniteSet(0 .. x)
    BY <2>2, FS_Interval
  <2> QED BY <2>2, <2>3 DEF FiniteSubsetsOf
<1>4. PICK X \in Below : \A Y \in Below : <<Y, X>> \notin StrictSubsetOrdering(0 .. n)
  <2>1. IsFiniteSet(0 .. n)
    BY FS_Interval
  <2> QED BY <2>1, <1>2, <1>3, FS_StrictSubsetOrderingWellFounded, WFMin
<1>5. PICK x \in Out : X = 0 .. x
  OBVIOUS
<1>6. x \in 1 .. n /\ x - 1 \in 0 .. n - 1
  BY <1>5
<1>7. x - 1 \notin T
  BY <1>5, <1>6
<1>8. x - 1 \in Out /\ 0 .. x - 1 \in Below
  BY <1>6, <1>7
<1>9. 0 .. x - 1 \subseteq 0 .. x /\ x \notin 0 .. x - 1 /\ x \in 0 .. x
  BY <1>6
<1>10. <<0 .. x - 1, X>> \in StrictSubsetOrdering(0 .. n)
  <2>1. 0 .. x - 1 \subseteq 0 .. n /\ 0 .. x \subseteq 0 .. n
    BY <1>6
  <2> QED BY <2>1, <1>5, <1>9 DEF StrictSubsetOrdering
<1> QED BY <1>4, <1>8, <1>10

\* A set of numbers up to n has a least and a greatest element.
LEMMA Extremes ==
  ASSUME NEW n \in Nat, NEW T \in SUBSET (1 .. n), T # {}
  PROVE  /\ Max(T) \in T /\ \A y \in T : y <= Max(T)
         /\ Min(T) \in T /\ \A y \in T : Min(T) <= y
<1> DEFINE High == {i \in 0 .. n : (\E y \in T : y > n - i) =>
                                     \E x \in T : \A y \in T : x >= y}
           Low == {i \in 0 .. n : (\E y \in T : y < i + 1) =>
                                    \E x \in T : \A y \in T : x <= y}
<1>1. \E x \in T : \A y \in T : x >= y
  <2>1. 0 \in High
    OBVIOUS
  <2>2. ASSUME NEW i \in 0 .. n - 1, i \in High PROVE i + 1 \in High
    <3>1. SUFFICES ASSUME \E y \in T : y > n - (i + 1)
                   PROVE  \E x \in T : \A y \in T : x >= y
      OBVIOUS
    <3>2. CASE \E y \in T : y > n - i
      BY <2>2, <3>2
    <3>3. CASE \A y \in T : ~(y > n - i)
      <4>1. PICK x \in T : x > n - (i + 1)
        BY <3>1
      <4>2. \A y \in T : x >= y
        BY <3>3, <4>1
      <4> QED BY <4>2
    <3> QED BY <3>2, <3>3
  <2> HIDE DEF High
  <2>3. n \in High
    BY <2>1, <2>2, Climb
  <2>4. PICK y \in T : TRUE
    OBVIOUS
  <2>5. y > n - n /\ n \in 0 .. n
    OBVIOUS
  <2> QED BY <2>3, <2>5 DEF High
<1>2. \E x \in T : \A y \in T : x <= y
  <2>1. 0 \in Low
    OBVIOUS
  <2>2. ASSUME NEW i \in 0 .. n - 1, i \in Low PROVE i + 1 \in Low
    <3>1. SUFFICES ASSUME \E y \in T : y < i + 2
                   PROVE  \E x \in T : \A y \in T : x <= y
      OBVIOUS
    <3>2. CASE \E y \in T : y < i + 1
      BY <2>2, <3>2
    <3>3. CASE \A y \in T : ~(y < i + 1)
      <4>1. PICK x \in T : x < i + 2
        BY <3>1
      <4>2. \A y \in T : x <= y
        BY <3>3, <4>1
      <4> QED BY <4>2
    <3> QED BY <3>2, <3>3
  <2> HIDE DEF Low
  <2>3. n \in Low
    BY <2>1, <2>2, Climb
  <2>4. PICK y \in T : TRUE
    OBVIOUS
  <2>5. y < n + 1 /\ n \in 0 .. n
    OBVIOUS
  <2> QED BY <2>3, <2>5 DEF Low
<1>3. Max(T) \in T /\ \A y \in T : Max(T) >= y
  BY <1>1 DEF Max
<1>4. Min(T) \in T /\ \A y \in T : Min(T) <= y
  BY <1>2 DEF Min
<1> QED BY <1>3, <1>4

\* The last of the first n numbers, and what is left without it.
LEMMA MaxInterval ==
  ASSUME NEW n \in Nat \ {0}
  PROVE  Max(1 .. n) = n /\ (1 .. n) \ {n} = 1 .. n - 1
<1>1. Max(1 .. n) \in 1 .. n /\ \A y \in 1 .. n : y <= Max(1 .. n)
  <2>1. 1 .. n \in SUBSET (1 .. n) /\ 1 .. n # {}
    OBVIOUS
  <2> QED BY <2>1, Extremes
<1> QED BY <1>1

-----------------------------------------------------------------------------
(* The two loops over a log.  A fold over a sequence is a function on the   *)
(* sets of its places, defined by recursion on the greatest place.         *)

ScanEq(log, n, g) ==
  g = [T \in SUBSET (1 .. n) |->
         IF T = {} THEN Balanced ELSE ScanEvent(g[T \ {Max(T)}], log[Max(T)])]

ScanFold(log) ==
  CHOOSE g : g = [T \in SUBSET DOMAIN log |->
                    IF T = {} THEN Balanced
                    ELSE ScanEvent(g[T \ {Max(T)}], log[Max(T)])]

\* The scan of interruptedTurnClosers is the function below, at the whole log.
LEMMA ScanIsFold ==
  ASSUME NEW log PROVE RepairScan(log) = ScanFold(log)[DOMAIN log]
BY DEF RepairScan, FoldLeft, MapThenFoldSet, ScanFold

\* A function that scans m events extends to one that scans the next, too.
LEMMA ScanStep ==
  ASSUME NEW log, NEW m \in Nat, NEW g, ScanEq(log, m, g)
  PROVE  \E h : ScanEq(log, m + 1, h)
<1> DEFINE k == m + 1
           h == [T \in SUBSET (1 .. k) |->
                   IF k \in T THEN ScanEvent(g[T \ {k}], log[k]) ELSE g[T]]
           H(T) == IF T = {} THEN Balanced ELSE ScanEvent(h[T \ {Max(T)}], log[Max(T)])
<1>1. ASSUME NEW T \in SUBSET (1 .. k) PROVE h[T] = H(T)
  <2>1. CASE k \in T
    <3>1. Max(T) = k
      <4>1. Max(T) \in T /\ \A y \in T : y <= Max(T)
        <5>1. k \in Nat /\ T # {}
          BY <2>1
        <5> HIDE DEF k
        <5> QED BY <5>1, Extremes
      <4>2. Max(T) \in 1 .. k
        BY <4>1
      <4>3. k >= Max(T) /\ Max(T) \in Nat /\ k \in Nat
        BY <4>2
      <4> HIDE DEF k
      <4> QED BY <2>1, <4>1, <4>3
    <3>2. T \ {k} \in SUBSET (1 .. m) /\ T \ {k} \in SUBSET (1 .. k) /\ k \notin T \ {k}
      OBVIOUS
    <3>3. h[T \ {k}] = g[T \ {k}]
      BY <3>2
    <3>4. h[T] = ScanEvent(g[T \ {k}], log[k])
      BY <2>1
    <3> QED BY <2>1, <3>1, <3>3, <3>4
  <2>2. CASE T = {}
    <3>1. g[T] = Balanced
      BY <2>2 DEF ScanEq
    <3> QED BY <2>2, <3>1
  <2>3. CASE k \notin T /\ T # {}
    <3>1. T \in SUBSET (1 .. m)
      BY <2>3
    <3>2. Max(T) \in T
      BY <3>1, <2>3, Extremes
    <3>3. T \ {Max(T)} \in SUBSET (1 .. k) /\ k \notin T \ {Max(T)}
      BY <2>3
    <3>4. h[T \ {Max(T)}] = g[T \ {Max(T)}] /\ h[T] = g[T]
      BY <3>3, <2>3
    <3>5. g[T] = ScanEvent(g[T \ {Max(T)}], log[Max(T)])
      BY <3>1, <2>3 DEF ScanEq
    <3> QED BY <2>3, <3>4, <3>5
  <2> QED BY <2>1, <2>2, <2>3
<1>2. h = [T \in SUBSET (1 .. k) |-> h[T]]
  OBVIOUS
<1>3. h = [T \in SUBSET (1 .. k) |-> H(T)]
  <2> HIDE DEF h, H
  <2> QED BY <1>1, <1>2
<1>4. ScanEq(log, m + 1, h)
  BY <1>3 DEF ScanEq
<1> QED BY <1>4

\* There is a function that scans a log of any length.
LEMMA ScanExists ==
  ASSUME NEW log, NEW n \in Nat, DOMAIN log = 1 .. n
  PROVE  ScanEq(log, n, ScanFold(log))
<1> DEFINE Has == {m \in 0 .. n : \E g : ScanEq(log, m, g)}
<1>1. 0 \in Has
  <2> DEFINE g == [T \in SUBSET (1 .. 0) |-> Balanced]
  <2>1. ASSUME NEW T \in SUBSET (1 .. 0) PROVE T = {}
    OBVIOUS
  <2>2. g = [T \in SUBSET (1 .. 0) |->
         IF T = {} THEN Balanced ELSE ScanEvent(g[T \ {Max(T)}], log[Max(T)])]
    BY <2>1
  <2>3. ScanEq(log, 0, g)
    BY <2>2 DEF ScanEq
  <2> QED BY <2>3
<1>2. ASSUME NEW i \in 0 .. n - 1, i \in Has PROVE i + 1 \in Has
  <2>1. PICK g : ScanEq(log, i, g)
    BY <1>2
  <2>2. \E h : ScanEq(log, i + 1, h)
    BY <2>1, ScanStep
  <2> QED BY <2>2
<1>3. \E g : ScanEq(log, n, g)
  <2> HIDE DEF Has
  <2>1. n \in 0 .. n
    OBVIOUS
  <2>2. n \in Has
    BY <1>1, <1>2, <2>1, Climb
  <2> QED BY <2>2 DEF Has
<1>4. ScanFold(log) = CHOOSE g : ScanEq(log, n, g)
  BY DEF ScanFold, ScanEq
<1> QED BY <1>3, <1>4

\* The scan, event by event: the loop of repair.ts over the log.
LEMMA ScanRec ==
  ASSUME NEW log, NEW n \in Nat, DOMAIN log = 1 .. n
  PROVE  /\ ScanFold(log)[{}] = Balanced
         /\ \A m \in 1 .. n :
              ScanFold(log)[1 .. m] = ScanEvent(ScanFold(log)[1 .. m - 1], log[m])
<1>1. ScanEq(log, n, ScanFold(log))
  BY ScanExists
<1>2. ScanFold(log)[{}] = Balanced
  BY <1>1 DEF ScanEq
<1>3. ASSUME NEW m \in 1 .. n
      PROVE  ScanFold(log)[1 .. m] = ScanEvent(ScanFold(log)[1 .. m - 1], log[m])
  <2>1. Max(1 .. m) = m /\ (1 .. m) \ {m} = 1 .. m - 1
    BY MaxInterval
  <2>2. 1 .. m \subseteq 1 .. n /\ m \in 1 .. m
    OBVIOUS
  <2> QED BY <1>1, <2>1, <2>2 DEF ScanEq
<1> QED BY <1>2, <1>3

\* Scanning a log that one event was appended to.
LEMMA ScanAppend ==
  ASSUME NEW S, NEW log \in Seq(S), NEW e \in S
  PROVE  /\ RepairScan(<<>>) = Balanced
         /\ RepairScan(Append(log, e)) = ScanEvent(RepairScan(log), e)
<1> DEFINE n == Len(log)
           more == Append(log, e)
           Same == {m \in 0 .. n : ScanFold(more)[1 .. m] = ScanFold(log)[1 .. m]}
<1>1. /\ n \in Nat /\ n + 1 \in Nat
      /\ DOMAIN log = 1 .. n /\ DOMAIN more = 1 .. n + 1
      /\ more[n + 1] = e /\ \A i \in 1 .. n : more[i] = log[i]
  OBVIOUS
<1>2. /\ ScanFold(log)[{}] = Balanced
      /\ \A m \in 1 .. n :
           ScanFold(log)[1 .. m] = ScanEvent(ScanFold(log)[1 .. m - 1], log[m])
  BY <1>1, ScanRec
<1>3. /\ ScanFold(more)[{}] = Balanced
      /\ \A m \in 1 .. n + 1 :
           ScanFold(more)[1 .. m] = ScanEvent(ScanFold(more)[1 .. m - 1], more[m])
  <2> HIDE DEF more, n
  <2> QED BY <1>1, ScanRec
<1> HIDE DEF more, n
<1>4. 0 \in Same
  <2>1. 1 .. 0 = {}
    OBVIOUS
  <2> QED BY <1>1, <1>2, <1>3, <2>1
<1>5. ASSUME NEW i \in 0 .. n - 1, i \in Same PROVE i + 1 \in Same
  <2>1. i + 1 \in 1 .. n /\ i + 1 \in 1 .. n + 1 /\ (i + 1) - 1 = i /\ i + 1 \in 0 .. n
    BY <1>1
  <2>2. ScanFold(more)[1 .. i + 1] = ScanEvent(ScanFold(more)[1 .. i], more[i + 1])
    BY <2>1, <1>3
  <2>3. ScanFold(log)[1 .. i + 1] = ScanEvent(ScanFold(log)[1 .. i], log[i + 1])
    BY <2>1, <1>2
  <2> QED BY <1>1, <1>5, <2>1, <2>2, <2>3
<1>6. ScanFold(more)[1 .. n] = ScanFold(log)[1 .. n]
  <2>1. n \in 0 .. n
    BY <1>1
  <2> HIDE DEF Same
  <2>2. n \in Same
    BY <1>1, <1>4, <1>5, <2>1, Climb
  <2> QED BY <2>2 DEF Same
<1>7. RepairScan(more) = ScanFold(more)[1 .. n + 1] /\ RepairScan(log) = ScanFold(log)[1 .. n]
  BY <1>1, ScanIsFold
<1>8. ScanFold(more)[1 .. n + 1] = ScanEvent(ScanFold(more)[1 .. n], e)
  <2>1. n + 1 \in 1 .. n + 1 /\ (n + 1) - 1 = n
    BY <1>1
  <2> QED BY <2>1, <1>1, <1>3
<1>9. RepairScan(<<>>) = Balanced
  <2>1. DOMAIN <<>> = 1 .. 0 /\ 0 \in Nat /\ 1 .. 0 = {}
    OBVIOUS
  <2>2. ScanFold(<<>>)[{}] = Balanced
    BY <2>1, ScanRec
  <2> QED BY <2>1, <2>2, ScanIsFold
<1> QED BY <1>6, <1>7, <1>8, <1>9 DEF more

\* The same for the grammar.
Started == [ok |-> TRUE, trace |-> Grammar!Fresh]

FollowEq(log, n, g) ==
  g = [T \in SUBSET (1 .. n) |->
         IF T = {} THEN Started ELSE Follow(g[T \ {Max(T)}], log[Max(T)])]

FollowFold(log) ==
  CHOOSE g : g = [T \in SUBSET DOMAIN log |->
                    IF T = {} THEN Started
                    ELSE Follow(g[T \ {Max(T)}], log[Max(T)])]

\* The replay of the grammar is the function below, at the whole log.
LEMMA FollowIsFold ==
  ASSUME NEW log PROVE Replay(log) = FollowFold(log)[DOMAIN log]
BY DEF Replay, FoldLeft, MapThenFoldSet, FollowFold, Started

\* A function that replays m events extends to one that replays the next, too.
LEMMA FollowStep ==
  ASSUME NEW log, NEW m \in Nat, NEW g, FollowEq(log, m, g)
  PROVE  \E h : FollowEq(log, m + 1, h)
<1> DEFINE k == m + 1
           h == [T \in SUBSET (1 .. k) |->
                   IF k \in T THEN Follow(g[T \ {k}], log[k]) ELSE g[T]]
           H(T) == IF T = {} THEN Started ELSE Follow(h[T \ {Max(T)}], log[Max(T)])
<1>1. ASSUME NEW T \in SUBSET (1 .. k) PROVE h[T] = H(T)
  <2>1. CASE k \in T
    <3>1. Max(T) = k
      <4>1. Max(T) \in T /\ \A y \in T : y <= Max(T)
        <5>1. k \in Nat /\ T # {}
          BY <2>1
        <5> HIDE DEF k
        <5> QED BY <5>1, Extremes
      <4>2. Max(T) \in 1 .. k
        BY <4>1
      <4>3. k >= Max(T) /\ Max(T) \in Nat /\ k \in Nat
        BY <4>2
      <4> HIDE DEF k
      <4> QED BY <2>1, <4>1, <4>3
    <3>2. T \ {k} \in SUBSET (1 .. m) /\ T \ {k} \in SUBSET (1 .. k) /\ k \notin T \ {k}
      OBVIOUS
    <3>3. h[T \ {k}] = g[T \ {k}]
      BY <3>2
    <3>4. h[T] = Follow(g[T \ {k}], log[k])
      BY <2>1
    <3> QED BY <2>1, <3>1, <3>3, <3>4
  <2>2. CASE T = {}
    <3>1. g[T] = Started
      BY <2>2 DEF FollowEq
    <3> QED BY <2>2, <3>1
  <2>3. CASE k \notin T /\ T # {}
    <3>1. T \in SUBSET (1 .. m)
      BY <2>3
    <3>2. Max(T) \in T
      BY <3>1, <2>3, Extremes
    <3>3. T \ {Max(T)} \in SUBSET (1 .. k) /\ k \notin T \ {Max(T)}
      BY <2>3
    <3>4. h[T \ {Max(T)}] = g[T \ {Max(T)}] /\ h[T] = g[T]
      BY <3>3, <2>3
    <3>5. g[T] = Follow(g[T \ {Max(T)}], log[Max(T)])
      BY <3>1, <2>3 DEF FollowEq
    <3> QED BY <2>3, <3>4, <3>5
  <2> QED BY <2>1, <2>2, <2>3
<1>2. h = [T \in SUBSET (1 .. k) |-> h[T]]
  OBVIOUS
<1>3. h = [T \in SUBSET (1 .. k) |-> H(T)]
  <2> HIDE DEF h, H
  <2> QED BY <1>1, <1>2
<1>4. FollowEq(log, m + 1, h)
  BY <1>3 DEF FollowEq
<1> QED BY <1>4

\* There is a function that replays a log of any length.
LEMMA FollowExists ==
  ASSUME NEW log, NEW n \in Nat, DOMAIN log = 1 .. n
  PROVE  FollowEq(log, n, FollowFold(log))
<1> DEFINE Has == {m \in 0 .. n : \E g : FollowEq(log, m, g)}
<1>1. 0 \in Has
  <2> DEFINE g == [T \in SUBSET (1 .. 0) |-> Started]
  <2>1. ASSUME NEW T \in SUBSET (1 .. 0) PROVE T = {}
    OBVIOUS
  <2>2. g = [T \in SUBSET (1 .. 0) |->
         IF T = {} THEN Started ELSE Follow(g[T \ {Max(T)}], log[Max(T)])]
    BY <2>1
  <2>3. FollowEq(log, 0, g)
    BY <2>2 DEF FollowEq
  <2> QED BY <2>3
<1>2. ASSUME NEW i \in 0 .. n - 1, i \in Has PROVE i + 1 \in Has
  <2>1. PICK g : FollowEq(log, i, g)
    BY <1>2
  <2>2. \E h : FollowEq(log, i + 1, h)
    BY <2>1, FollowStep
  <2> QED BY <2>2
<1>3. \E g : FollowEq(log, n, g)
  <2> HIDE DEF Has
  <2>1. n \in 0 .. n
    OBVIOUS
  <2>2. n \in Has
    BY <1>1, <1>2, <2>1, Climb
  <2> QED BY <2>2 DEF Has
<1>4. FollowFold(log) = CHOOSE g : FollowEq(log, n, g)
  BY DEF FollowFold, FollowEq
<1> QED BY <1>3, <1>4

\* The replay, event by event: the grammar's machine over the log.
LEMMA FollowRec ==
  ASSUME NEW log, NEW n \in Nat, DOMAIN log = 1 .. n
  PROVE  /\ FollowFold(log)[{}] = Started
         /\ \A m \in 1 .. n :
              FollowFold(log)[1 .. m] = Follow(FollowFold(log)[1 .. m - 1], log[m])
<1>1. FollowEq(log, n, FollowFold(log))
  BY FollowExists
<1>2. FollowFold(log)[{}] = Started
  BY <1>1 DEF FollowEq
<1>3. ASSUME NEW m \in 1 .. n
      PROVE  FollowFold(log)[1 .. m] = Follow(FollowFold(log)[1 .. m - 1], log[m])
  <2>1. Max(1 .. m) = m /\ (1 .. m) \ {m} = 1 .. m - 1
    BY MaxInterval
  <2>2. 1 .. m \subseteq 1 .. n /\ m \in 1 .. m
    OBVIOUS
  <2> QED BY <1>1, <2>1, <2>2 DEF FollowEq
<1> QED BY <1>2, <1>3

\* Following a log that one event was appended to.
LEMMA FollowAppend ==
  ASSUME NEW S, NEW log \in Seq(S), NEW e \in S
  PROVE  /\ Replay(<<>>) = Started
         /\ Replay(Append(log, e)) = Follow(Replay(log), e)
<1> DEFINE n == Len(log)
           more == Append(log, e)
           Same == {m \in 0 .. n : FollowFold(more)[1 .. m] = FollowFold(log)[1 .. m]}
<1>1. /\ n \in Nat /\ n + 1 \in Nat
      /\ DOMAIN log = 1 .. n /\ DOMAIN more = 1 .. n + 1
      /\ more[n + 1] = e /\ \A i \in 1 .. n : more[i] = log[i]
  OBVIOUS
<1>2. /\ FollowFold(log)[{}] = Started
      /\ \A m \in 1 .. n :
           FollowFold(log)[1 .. m] = Follow(FollowFold(log)[1 .. m - 1], log[m])
  BY <1>1, FollowRec
<1>3. /\ FollowFold(more)[{}] = Started
      /\ \A m \in 1 .. n + 1 :
           FollowFold(more)[1 .. m] = Follow(FollowFold(more)[1 .. m - 1], more[m])
  <2> HIDE DEF more, n
  <2> QED BY <1>1, FollowRec
<1> HIDE DEF more, n
<1>4. 0 \in Same
  <2>1. 1 .. 0 = {}
    OBVIOUS
  <2> QED BY <1>1, <1>2, <1>3, <2>1
<1>5. ASSUME NEW i \in 0 .. n - 1, i \in Same PROVE i + 1 \in Same
  <2>1. i + 1 \in 1 .. n /\ i + 1 \in 1 .. n + 1 /\ (i + 1) - 1 = i /\ i + 1 \in 0 .. n
    BY <1>1
  <2>2. FollowFold(more)[1 .. i + 1] = Follow(FollowFold(more)[1 .. i], more[i + 1])
    BY <2>1, <1>3
  <2>3. FollowFold(log)[1 .. i + 1] = Follow(FollowFold(log)[1 .. i], log[i + 1])
    BY <2>1, <1>2
  <2> QED BY <1>1, <1>5, <2>1, <2>2, <2>3
<1>6. FollowFold(more)[1 .. n] = FollowFold(log)[1 .. n]
  <2>1. n \in 0 .. n
    BY <1>1
  <2> HIDE DEF Same
  <2>2. n \in Same
    BY <1>1, <1>4, <1>5, <2>1, Climb
  <2> QED BY <2>2 DEF Same
<1>7. Replay(more) = FollowFold(more)[1 .. n + 1] /\ Replay(log) = FollowFold(log)[1 .. n]
  BY <1>1, FollowIsFold
<1>8. FollowFold(more)[1 .. n + 1] = Follow(FollowFold(more)[1 .. n], e)
  <2>1. n + 1 \in 1 .. n + 1 /\ (n + 1) - 1 = n
    BY <1>1
  <2> QED BY <2>1, <1>1, <1>3
<1>9. Replay(<<>>) = Started
  <2>1. DOMAIN <<>> = 1 .. 0 /\ 0 \in Nat /\ 1 .. 0 = {}
    OBVIOUS
  <2>2. FollowFold(<<>>)[{}] = Started
    BY <2>1, FollowRec
  <2> QED BY <2>1, <2>2, FollowIsFold
<1> QED BY <1>6, <1>7, <1>8, <1>9 DEF more

-----------------------------------------------------------------------------
(* The file.  What a reader finds in it: m whole lines numbered by their    *)
(* place, then fragments, of which the last says where it starts.          *)

Logs == Seq(Grammar!Events)

Line == [seq : Nat \ {0}, event : Grammar!Events \cup {Grammar!NoEvent}, whole : BOOLEAN]

Reads(f, m) ==
  /\ f \in Seq(Line) /\ m \in 0 .. Len(f)
  /\ \A i \in 1 .. m : f[i].whole /\ f[i].seq = i /\ f[i].event \in Grammar!Events
  /\ \A i \in m + 1 .. Len(f) : ~f[i].whole /\ f[i].event = Grammar!NoEvent
  /\ m < Len(f) => f[Len(f)].seq <= m + 1

Readable(f) == Reads(f, committed(f))

Whole(f) == committed(f) = Len(f)

\* The lines that were in the file before its last batch: truncateTo.
Sure(f, comp) ==
  IF comp = "none" THEN committed(f)
  ELSE IF Torn(f) THEN f[Len(f)].seq - 1 ELSE Len(f)

EventsOf(ls) == [i \in DOMAIN ls |-> ls[i].event]

\* A line, built from its parts, is a line with these parts.
LEMMA LineIs ==
  ASSUME NEW s \in Nat \ {0}, NEW e \in Grammar!Events \cup {Grammar!NoEvent}, NEW w \in BOOLEAN
  PROVE  /\ [seq |-> s, event |-> e, whole |-> w] \in Line
         /\ [seq |-> s, event |-> e, whole |-> w].seq = s
         /\ [seq |-> s, event |-> e, whole |-> w].event = e
         /\ [seq |-> s, event |-> e, whole |-> w].whole = w
BY DEF Line

\* A file that reads up to m ends its committed part there.
LEMMA ReadsCommits ==
  ASSUME NEW f, NEW m, Reads(f, m)
  PROVE  committed(f) = m /\ (Torn(f) <=> m < Len(f)) /\ Readable(f)
<1>1. /\ f \in Seq(Line) /\ m \in 0 .. Len(f) /\ Len(f) \in Nat /\ DOMAIN f = 1 .. Len(f)
      /\ \A i \in 1 .. m : f[i].whole /\ f[i].seq = i
      /\ \A i \in m + 1 .. Len(f) : ~f[i].whole
  BY DEF Reads
<1>2. Broken(f) = m + 1 .. Len(f)
  BY <1>1 DEF Broken
<1>3. CASE m = Len(f)
  <2>1. Broken(f) = {}
    BY <1>1, <1>2, <1>3
  <2>2. ~Torn(f)
    BY <1>1, <1>3 DEF Torn, Last
  <2> QED BY <1>1, <1>3, <2>1, <2>2 DEF committed, Readable
<1>4. CASE m # Len(f)
  <2>0. m < Len(f) /\ Len(f) \in m + 1 .. Len(f) /\ f # <<>> /\ m + 1 \in m + 1 .. Len(f)
    <3>1. m < Len(f)
      <4>1. m \in 0 .. Len(f) /\ Len(f) \in Nat
        BY <1>1
      <4> QED BY <4>1, <1>4
    <3>2. f # <<>>
      <4>1. Len(f) # 0
        BY <1>1, <3>1
      <4> QED BY <4>1, EmptySeq
    <3> QED BY <1>1, <3>1, <3>2
  <2>1. m + 1 \in Broken(f) /\ Broken(f) \in SUBSET (1 .. Len(f)) /\ Broken(f) # {}
    BY <1>1, <1>2, <2>0
  <2>2. Min(Broken(f)) \in Broken(f) /\ \A y \in Broken(f) : Min(Broken(f)) <= y
    BY <1>1, <2>1, Extremes
  <2>3. Min(Broken(f)) = m + 1
    BY <1>1, <1>2, <2>1, <2>2
  <2>4. committed(f) = m
    <3>1. committed(f) = Min(Broken(f)) - 1
      BY <2>1 DEF committed
    <3> QED BY <1>1, <2>3, <3>1
  <2>5. Torn(f)
    BY <1>1, <2>0 DEF Torn, Last
  <2> QED BY <2>0, <2>4, <2>5 DEF Readable
<1> QED BY <1>3, <1>4

\* A readable file: numbered whole lines, then torn ones the reader drops.
LEMMA ReadableFacts ==
  ASSUME NEW f, Readable(f)
  PROVE  /\ f \in Seq(Line) /\ Len(f) \in Nat /\ committed(f) \in 0 .. Len(f)
         /\ \A i \in 1 .. committed(f) :
              f[i].whole /\ f[i].seq = i /\ f[i].event \in Grammar!Events
         /\ \A i \in committed(f) + 1 .. Len(f) :
              ~f[i].whole /\ f[i].event = Grammar!NoEvent
         /\ Torn(f) <=> committed(f) < Len(f)
         /\ Torn(f) => f[Len(f)].seq \in 1 .. committed(f) + 1
         /\ StoredEvents(f) \in Logs /\ Len(StoredEvents(f)) = committed(f)
         /\ \A i \in 1 .. committed(f) : StoredEvents(f)[i] = f[i].event
<1>1. /\ f \in Seq(Line) /\ Len(f) \in Nat /\ committed(f) \in 0 .. Len(f)
      /\ \A i \in 1 .. committed(f) :
           f[i].whole /\ f[i].seq = i /\ f[i].event \in Grammar!Events
      /\ \A i \in committed(f) + 1 .. Len(f) :
              ~f[i].whole /\ f[i].event = Grammar!NoEvent
      /\ Torn(f) <=> committed(f) < Len(f)
  BY ReadsCommits DEF Readable, Reads
<1>2. Torn(f) => f[Len(f)].seq \in 1 .. committed(f) + 1
  <2>1. SUFFICES ASSUME Torn(f) PROVE f[Len(f)].seq \in 1 .. committed(f) + 1
    OBVIOUS
  <2>2. Len(f) \in 1 .. Len(f) /\ f[Len(f)] \in Line
    BY <1>1, <2>1
  <2>3. f[Len(f)].seq <= committed(f) + 1
    BY <1>1, <2>1 DEF Readable, Reads
  <2>4. f[Len(f)].seq \in Nat \ {0}
    BY <2>2 DEF Line
  <2> QED BY <1>1, <2>3, <2>4
<1>3. /\ StoredEvents(f) \in Logs /\ Len(StoredEvents(f)) = committed(f)
      /\ \A i \in 1 .. committed(f) : StoredEvents(f)[i] = f[i].event
  BY <1>1 DEF StoredEvents, Logs
<1> QED BY <1>1, <1>2, <1>3

\* What surely survives lies within what the reader accepts.
LEMMA SureFacts ==
  ASSUME NEW f, Readable(f), NEW comp
  PROVE  /\ Sure(f, comp) \in 0 .. committed(f)
         /\ Whole(f) => Sure(f, comp) = Len(f)
         /\ Whole(f) <=> ~Torn(f)
         /\ Sure(f, comp) = Len(f) => Whole(f)
BY ReadableFacts DEF Sure, Whole

\* The code's own reader agrees: nothing readable is taken for damage.
LEMMA ReaderAgrees ==
  ASSUME NEW f, Readable(f)
  PROVE  /\ truncateTo(f) = Sure(f, compression) /\ ~Corrupt(f)
         /\ tornMarker(f) <=> Torn(f)
<1>1. truncateTo(f) = Sure(f, compression)
  BY DEF truncateTo, Sure, Last
<1>2. ~Corrupt(f)
  <2>1. SUFFICES ASSUME NEW i \in committed(f) + 1 .. Len(f)
                 PROVE  ~(f[i].whole /\ f[i].event.type = "turn/end") /\ Torn(f) /\ i >= Last(f).seq
    BY DEF Corrupt
  <2> QED BY ReadableFacts DEF Last
<1>3. tornMarker(f) <=> Torn(f)
  BY <1>1, ReadableFacts, SureFacts DEF tornMarker, Whole
<1> QED BY <1>1, <1>2, <1>3

\* The lines of a batch are whole, numbered on from the file's end.
LEMMA LinesFacts ==
  ASSUME NEW L \in Logs, NEW b \in Nat
  PROVE  /\ Lines(L, b) \in Seq(Line) /\ Len(Lines(L, b)) = Len(L) /\ Len(L) \in Nat
         /\ \A i \in 1 .. Len(L) : /\ Lines(L, b)[i].seq = b + i
                                   /\ Lines(L, b)[i].event = L[i]
                                   /\ Lines(L, b)[i].whole = TRUE
         /\ EventsOf(Lines(L, b)) = L
<1>1. Len(L) \in Nat /\ DOMAIN L = 1 .. Len(L) /\ \A i \in 1 .. Len(L) : L[i] \in Grammar!Events
  BY DEF Logs
<1>2. \A i \in 1 .. Len(L) : [seq |-> b + i, event |-> L[i], whole |-> TRUE] \in Line
  BY <1>1 DEF Line
<1>3. Lines(L, b) = [i \in 1 .. Len(L) |-> [seq |-> b + i, event |-> L[i], whole |-> TRUE]]
  BY <1>1 DEF Lines
<1>4. Lines(L, b) \in Seq(Line) /\ Len(Lines(L, b)) = Len(L)
  BY <1>1, <1>2, <1>3
<1>5. EventsOf(Lines(L, b)) = [i \in 1 .. Len(L) |-> L[i]]
  BY <1>1, <1>3 DEF EventsOf
<1>6. [i \in 1 .. Len(L) |-> L[i]] = L
  BY <1>1 DEF Logs
<1> QED BY <1>1, <1>3, <1>4, <1>5, <1>6

\* A file without fragments is the lines of its log.
LEMMA WholeIsLines ==
  ASSUME NEW L \in Logs
  PROVE  /\ Readable(Lines(L, 0)) /\ Whole(Lines(L, 0)) /\ StoredEvents(Lines(L, 0)) = L
         /\ committed(Lines(L, 0)) = Len(L) /\ Len(Lines(L, 0)) = Len(L)
<1> DEFINE f == Lines(L, 0)
<1>1. /\ f \in Seq(Line) /\ Len(f) = Len(L) /\ Len(L) \in Nat
      /\ \A i \in 1 .. Len(L) : f[i].seq = 0 + i /\ f[i].event = L[i] /\ f[i].whole = TRUE
  BY LinesFacts
<1>2. \A i \in 1 .. Len(L) : L[i] \in Grammar!Events
  BY DEF Logs
<1> HIDE DEF f
<1>3. Reads(f, Len(L))
  BY <1>1, <1>2 DEF Reads
<1>4. Readable(f) /\ committed(f) = Len(L) /\ Whole(f)
  BY <1>1, <1>3, ReadsCommits DEF Whole
<1>5. StoredEvents(f) = L
  <2>1. /\ StoredEvents(f) \in Logs /\ Len(StoredEvents(f)) = Len(L)
        /\ \A i \in 1 .. Len(L) : StoredEvents(f)[i] = L[i]
    BY <1>1, <1>4, ReadableFacts
  <2> QED BY <2>1, SeqEqual DEF Logs
<1> QED BY <1>1, <1>4, <1>5 DEF f

\* A batch written in one piece after a whole file leaves a whole file.
LEMMA WriteWhole ==
  ASSUME NEW f, Readable(f), Whole(f), NEW L \in Logs
  PROVE  LET g == f \o Lines(L, Len(f)) IN
         /\ Readable(g) /\ Whole(g) /\ Len(g) = Len(f) + Len(L)
         /\ StoredEvents(g) = StoredEvents(f) \o L
<1> DEFINE g == f \o Lines(L, Len(f))
<1>1. /\ f \in Seq(Line) /\ Len(f) \in Nat /\ committed(f) = Len(f)
      /\ \A i \in 1 .. Len(f) : f[i].whole /\ f[i].seq = i /\ f[i].event \in Grammar!Events
      /\ StoredEvents(f) \in Logs /\ Len(StoredEvents(f)) = Len(f)
      /\ \A i \in 1 .. Len(f) : StoredEvents(f)[i] = f[i].event
  BY ReadableFacts DEF Whole
<1>2. /\ Lines(L, Len(f)) \in Seq(Line) /\ Len(Lines(L, Len(f))) = Len(L) /\ Len(L) \in Nat
      /\ \A i \in 1 .. Len(L) : /\ Lines(L, Len(f))[i].seq = Len(f) + i
                                /\ Lines(L, Len(f))[i].event = L[i]
                                /\ Lines(L, Len(f))[i].whole = TRUE
  BY <1>1, LinesFacts
<1>3. \A i \in 1 .. Len(L) : L[i] \in Grammar!Events
  BY DEF Logs
<1>4. /\ g \in Seq(Line) /\ Len(g) = Len(f) + Len(L)
      /\ \A i \in 1 .. Len(f) + Len(L) :
           g[i] = IF i <= Len(f) THEN f[i] ELSE Lines(L, Len(f))[i - Len(f)]
  BY <1>1, <1>2, ConcatProperties
<1> HIDE DEF g
<1>5. ASSUME NEW i \in 1 .. Len(g)
      PROVE  g[i].whole /\ g[i].seq = i /\ g[i].event \in Grammar!Events
  <2>1. CASE i <= Len(f)
    BY <1>1, <1>4, <2>1
  <2>2. CASE ~(i <= Len(f))
    <3>1. i - Len(f) \in 1 .. Len(L) /\ Len(f) + (i - Len(f)) = i
      BY <1>1, <1>2, <1>4, <2>2
    <3> QED BY <1>1, <1>2, <1>3, <1>4, <2>2, <3>1
  <2> QED BY <2>1, <2>2
<1>6. Reads(g, Len(g))
  BY <1>1, <1>2, <1>4, <1>5 DEF Reads
<1>7. Readable(g) /\ Whole(g)
  BY <1>6, ReadsCommits DEF Whole
<1>8. StoredEvents(g) = StoredEvents(f) \o L
  <2>1. /\ StoredEvents(g) \in Logs /\ Len(StoredEvents(g)) = Len(g)
        /\ \A i \in 1 .. Len(g) : StoredEvents(g)[i] = g[i].event
    BY <1>7, ReadableFacts DEF Whole
  <2>2. /\ StoredEvents(f) \o L \in Logs /\ Len(StoredEvents(f) \o L) = Len(g)
        /\ \A i \in 1 .. Len(f) + Len(L) : (StoredEvents(f) \o L)[i] =
              IF i <= Len(f) THEN StoredEvents(f)[i] ELSE L[i - Len(f)]
    BY <1>1, <1>4, ConcatProperties DEF Logs
  <2>3. ASSUME NEW i \in 1 .. Len(g) PROVE StoredEvents(g)[i] = (StoredEvents(f) \o L)[i]
    <3>1. CASE i <= Len(f)
      BY <1>1, <1>2, <1>4, <2>1, <2>2, <3>1
    <3>2. CASE ~(i <= Len(f))
      <4>1. i - Len(f) \in 1 .. Len(L)
        BY <1>1, <1>2, <1>4, <3>2
      <4>2. g[i] = Lines(L, Len(f))[i - Len(f)]
        BY <1>4, <3>2
      <4>3. (StoredEvents(f) \o L)[i] = L[i - Len(f)] /\ StoredEvents(g)[i] = g[i].event
        BY <1>4, <2>1, <2>2, <3>2
      <4> QED BY <1>2, <4>1, <4>2, <4>3
    <3> QED BY <3>1, <3>2
  <2> QED BY <2>1, <2>2, <2>3, SeqEqual DEF Logs
<1> QED BY <1>4, <1>7, <1>8 DEF g

\* ftruncate to an accepted line leaves the lines up to it.
LEMMA CutShort ==
  ASSUME NEW f, Readable(f), NEW k \in 0 .. committed(f)
  PROVE  LET g == SubSeq(f, 1, k) IN
         /\ Readable(g) /\ Whole(g) /\ Len(g) = k /\ committed(g) = k
         /\ StoredEvents(g) = SubSeq(StoredEvents(f), 1, k)
         /\ \A i \in 1 .. k : g[i] = f[i]
<1> DEFINE g == SubSeq(f, 1, k)
<1>1. /\ f \in Seq(Line) /\ Len(f) \in Nat /\ committed(f) \in 0 .. Len(f)
      /\ \A i \in 1 .. committed(f) :
           f[i].whole /\ f[i].seq = i /\ f[i].event \in Grammar!Events
      /\ StoredEvents(f) \in Logs /\ Len(StoredEvents(f)) = committed(f)
      /\ \A i \in 1 .. committed(f) : StoredEvents(f)[i] = f[i].event
  BY ReadableFacts
<1>2. g \in Seq(Line) /\ Len(g) = k /\ \A i \in 1 .. k : g[i] = f[i]
  <2>1. \A i \in 1 .. k : f[i] \in Line
    BY <1>1
  <2> QED BY <1>1, <2>1, SubSeqProperties
<1>3. /\ SubSeq(StoredEvents(f), 1, k) \in Logs /\ Len(SubSeq(StoredEvents(f), 1, k)) = k
      /\ \A i \in 1 .. k : SubSeq(StoredEvents(f), 1, k)[i] = StoredEvents(f)[i]
  <2>1. \A i \in 1 .. k : StoredEvents(f)[i] \in Grammar!Events
    BY <1>1
  <2> QED BY <1>1, <2>1, SubSeqProperties DEF Logs
<1> HIDE DEF g
<1>4. Reads(g, k)
  BY <1>1, <1>2 DEF Reads
<1>5. Readable(g) /\ committed(g) = k /\ Whole(g)
  BY <1>2, <1>4, ReadsCommits DEF Whole
<1>6. StoredEvents(g) = SubSeq(StoredEvents(f), 1, k)
  <2>1. /\ StoredEvents(g) \in Logs /\ Len(StoredEvents(g)) = k
        /\ \A i \in 1 .. k : StoredEvents(g)[i] = g[i].event
    BY <1>5, ReadableFacts
  <2>2. \A i \in 1 .. k : StoredEvents(g)[i] = SubSeq(StoredEvents(f), 1, k)[i]
    BY <1>1, <1>2, <1>3, <2>1
  <2> QED BY <1>3, <2>1, <2>2, SeqEqual DEF Logs
<1> QED BY <1>2, <1>5, <1>6 DEF g

-----------------------------------------------------------------------------
(* What a crash or a failed write leaves of a file. *)

\* A fragment after a file's last line is a torn tail the reader drops.
LEMMA Appended ==
  ASSUME NEW f, Readable(f), NEW s \in 1 .. committed(f) + 1
  PROVE  LET g == Append(f, Fragment(s)) IN
         /\ Readable(g) /\ committed(g) = committed(f) /\ Len(g) = Len(f) + 1
         /\ Torn(g) /\ g[Len(g)].seq = s /\ StoredEvents(g) = StoredEvents(f)
<1> DEFINE g == Append(f, Fragment(s))
<1>1. /\ f \in Seq(Line) /\ Len(f) \in Nat /\ committed(f) \in 0 .. Len(f)
      /\ \A i \in 1 .. committed(f) :
           f[i].whole /\ f[i].seq = i /\ f[i].event \in Grammar!Events
      /\ \A i \in committed(f) + 1 .. Len(f) :
              ~f[i].whole /\ f[i].event = Grammar!NoEvent
      /\ StoredEvents(f) \in Logs /\ Len(StoredEvents(f)) = committed(f)
      /\ \A i \in 1 .. committed(f) : StoredEvents(f)[i] = f[i].event
  BY ReadableFacts
<1>2. s \in Nat \ {0} /\ s <= committed(f) + 1
  BY <1>1
<1>3. /\ Fragment(s) \in Line /\ Fragment(s).seq = s /\ Fragment(s).whole = FALSE
      /\ Fragment(s).event = Grammar!NoEvent
  BY <1>2, LineIs DEF Fragment
<1>4. /\ g \in Seq(Line) /\ Len(g) = Len(f) + 1
      /\ \A i \in 1 .. Len(f) : g[i] = f[i]
      /\ g[Len(f) + 1] = Fragment(s)
  BY <1>1, <1>3, AppendProperties
<1> HIDE DEF g
<1>5. ASSUME NEW i \in 1 .. committed(f)
      PROVE  g[i].whole /\ g[i].seq = i /\ g[i].event \in Grammar!Events
  <2>1. i \in 1 .. Len(f)
    BY <1>1
  <2> QED BY <2>1, <1>1, <1>4
<1>6. ASSUME NEW i \in committed(f) + 1 .. Len(g)
      PROVE  ~g[i].whole /\ g[i].event = Grammar!NoEvent
  <2>1. CASE i \in 1 .. Len(f)
    BY <2>1, <1>1, <1>4
  <2>2. CASE i = Len(f) + 1
    BY <2>2, <1>3, <1>4
  <2>3. Len(g) \in Nat /\ i \in 1 .. Len(g)
    BY <1>1, <1>4
  <2> QED BY <1>1, <1>4, <2>1, <2>2, <2>3
<1>7. committed(f) \in 0 .. Len(g) /\ Len(g) \in Nat /\ committed(f) < Len(g)
  BY <1>1, <1>4
<1>8. g[Len(g)].seq = s
  BY <1>3, <1>4
<1>9. Reads(g, committed(f))
  BY <1>2, <1>4, <1>5, <1>6, <1>7, <1>8 DEF Reads
<1>10. Readable(g) /\ committed(g) = committed(f) /\ Torn(g)
  BY <1>7, <1>9, ReadsCommits
<1>11. StoredEvents(g) = StoredEvents(f)
  <2>1. /\ StoredEvents(g) \in Logs /\ Len(StoredEvents(g)) = committed(f)
        /\ \A i \in 1 .. committed(f) : StoredEvents(g)[i] = g[i].event
    BY <1>10, ReadableFacts
  <2>2. ASSUME NEW i \in 1 .. committed(f) PROVE StoredEvents(g)[i] = StoredEvents(f)[i]
    <3>1. i \in 1 .. Len(f)
      BY <1>1
    <3> QED BY <3>1, <1>1, <1>4, <2>1
  <2> QED BY <1>1, <2>1, <2>2, SeqEqual DEF Logs
<1> QED BY <1>4, <1>8, <1>10, <1>11 DEF g

\* Prefixes of logs.
LEMMA PrefixOf ==
  ASSUME NEW L \in Logs, NEW k \in 0 .. Len(L)
  PROVE  /\ SubSeq(L, 1, k) \in Logs /\ Len(SubSeq(L, 1, k)) = k
         /\ \A i \in 1 .. k : SubSeq(L, 1, k)[i] = L[i]
         /\ IsPrefix(SubSeq(L, 1, k), L)
         /\ \A j \in 0 .. k : SubSeq(SubSeq(L, 1, k), 1, j) = SubSeq(L, 1, j)
         /\ SubSeq(L, 1, Len(L)) = L
<1>1. Len(L) \in Nat /\ \A i \in 1 .. Len(L) : L[i] \in Grammar!Events
  BY DEF Logs
<1>2. ASSUME NEW j \in 0 .. Len(L)
      PROVE  /\ SubSeq(L, 1, j) \in Seq(Grammar!Events) /\ Len(SubSeq(L, 1, j)) = j
             /\ \A i \in 1 .. j : SubSeq(L, 1, j)[i] = L[i]
  <2>1. \A i \in 1 .. j : L[i] \in Grammar!Events
    BY <1>1
  <2> QED BY <1>1, <2>1, SubSeqProperties
<1>3. ASSUME NEW j \in 0 .. k
      PROVE  SubSeq(SubSeq(L, 1, k), 1, j) = SubSeq(L, 1, j)
  <2> DEFINE M == SubSeq(L, 1, k)
  <2>1. M \in Seq(Grammar!Events) /\ Len(M) = k /\ \A i \in 1 .. k : M[i] = L[i]
    BY <1>2
  <2>2. j \in 0 .. Len(L) /\ j \in Nat /\ j <= k
    BY <1>1
  <2>3. /\ SubSeq(L, 1, j) \in Seq(Grammar!Events) /\ Len(SubSeq(L, 1, j)) = j
        /\ \A i \in 1 .. j : SubSeq(L, 1, j)[i] = L[i]
    BY <1>2, <2>2
  <2>4. \A i \in 1 .. j : M[i] \in Grammar!Events
    BY <1>1, <2>1
  <2> HIDE DEF M
  <2>5. /\ SubSeq(M, 1, j) \in Seq(Grammar!Events) /\ Len(SubSeq(M, 1, j)) = j
        /\ \A i \in 1 .. j : SubSeq(M, 1, j)[i] = M[i]
    BY <2>2, <2>4, SubSeqProperties
  <2>6. SubSeq(M, 1, j) = SubSeq(L, 1, j)
    BY <2>1, <2>2, <2>3, <2>5, SeqEqual
  <2> QED BY <2>6 DEF M
<1>4. SubSeq(L, 1, k) \in Logs /\ Len(SubSeq(L, 1, k)) = k
  BY <1>2 DEF Logs
<1>5. SubSeq(SubSeq(L, 1, k), 1, k) = SubSeq(L, 1, k)
  BY <1>1, <1>3
<1>6. SubSeq(L, 1, Len(L)) = L
  BY SubSeqFull DEF Logs
<1> QED BY <1>1, <1>2, <1>3, <1>4, <1>5, <1>6 DEF IsPrefix

\* A prefix of a log, by its length.
LEMMA PrefixFacts ==
  ASSUME NEW P \in Logs, NEW L \in Logs
  PROVE  /\ IsPrefix(P, L) <=> /\ Len(P) \in 0 .. Len(L)
                               /\ P = SubSeq(L, 1, Len(P))
         /\ IsPrefix(L, L)
         /\ Len(P) \in Nat
         /\ IsPrefix(P, L) => \A i \in 1 .. Len(P) : P[i] = L[i]
<1>1. Len(P) \in Nat /\ Len(L) \in Nat
  BY DEF Logs
<1>2. SubSeq(P, 1, Len(P)) = P
  BY SubSeqFull DEF Logs
<1>3. IsPrefix(P, L) <=> Len(P) \in 0 .. Len(L) /\ P = SubSeq(L, 1, Len(P))
  BY <1>1, <1>2 DEF IsPrefix
<1>4. IsPrefix(L, L)
  BY <1>1 DEF IsPrefix
<1>5. ASSUME IsPrefix(P, L) PROVE \A i \in 1 .. Len(P) : P[i] = L[i]
  BY <1>3, <1>5, PrefixOf
<1> QED BY <1>1, <1>3, <1>4, <1>5

\* Prefixes of prefixes, and two prefixes of one log.
LEMMA PrefixChain ==
  ASSUME NEW P \in Logs, NEW Q \in Logs, NEW L \in Logs
  PROVE  /\ IsPrefix(P, Q) /\ IsPrefix(Q, L) => IsPrefix(P, L)
         /\ IsPrefix(P, L) /\ IsPrefix(Q, L) /\ Len(P) <= Len(Q) => IsPrefix(P, Q)
<1>1. Len(P) \in Nat /\ Len(Q) \in Nat /\ Len(L) \in Nat
  BY DEF Logs
<1>2. ASSUME IsPrefix(P, Q), IsPrefix(Q, L) PROVE IsPrefix(P, L)
  <2>1. /\ Len(P) \in 0 .. Len(Q) /\ P = SubSeq(Q, 1, Len(P))
        /\ Len(Q) \in 0 .. Len(L) /\ Q = SubSeq(L, 1, Len(Q))
    BY <1>2, PrefixFacts
  <2>2. SubSeq(SubSeq(L, 1, Len(Q)), 1, Len(P)) = SubSeq(L, 1, Len(P))
    BY <2>1, PrefixOf
  <2>3. Len(P) \in 0 .. Len(L)
    BY <1>1, <2>1
  <2> QED BY <2>1, <2>2, <2>3, PrefixFacts
<1>3. ASSUME IsPrefix(P, L), IsPrefix(Q, L), Len(P) <= Len(Q) PROVE IsPrefix(P, Q)
  <2>1. /\ Len(P) \in 0 .. Len(L) /\ P = SubSeq(L, 1, Len(P))
        /\ Len(Q) \in 0 .. Len(L) /\ Q = SubSeq(L, 1, Len(Q))
    BY <1>3, PrefixFacts
  <2>2. Len(P) \in 0 .. Len(Q)
    BY <1>1, <1>3
  <2>3. SubSeq(SubSeq(L, 1, Len(Q)), 1, Len(P)) = SubSeq(L, 1, Len(P))
    BY <2>1, <2>2, PrefixOf
  <2> QED BY <2>1, <2>2, <2>3, PrefixFacts
<1> QED BY <1>2, <1>3

\* A log that grew has the old one as its prefix.
LEMMA ConcatPrefix ==
  ASSUME NEW P \in Logs, NEW Q \in Logs
  PROVE  /\ P \o Q \in Logs /\ Len(P \o Q) = Len(P) + Len(Q)
         /\ IsPrefix(P, P \o Q) /\ P \o <<>> = P
         /\ \A k \in 0 .. Len(P) : SubSeq(P \o Q, 1, k) = SubSeq(P, 1, k)
<1>1. /\ P \o Q \in Logs /\ Len(P \o Q) = Len(P) + Len(Q)
      /\ Len(P) \in Nat /\ Len(Q) \in Nat
      /\ \A i \in 1 .. Len(P) + Len(Q) :
           (P \o Q)[i] = IF i <= Len(P) THEN P[i] ELSE Q[i - Len(P)]
  BY ConcatProperties DEF Logs
<1> DEFINE L == P \o Q
<1>2. ASSUME NEW k \in 0 .. Len(P) PROVE SubSeq(L, 1, k) = SubSeq(P, 1, k)
  <2>1. k \in 0 .. Len(L)
    BY <1>1
  <2>2. /\ SubSeq(P, 1, k) \in Logs /\ Len(SubSeq(P, 1, k)) = k
        /\ \A i \in 1 .. k : SubSeq(P, 1, k)[i] = P[i]
    BY PrefixOf
  <2>3. \A i \in 1 .. k : L[i] = P[i]
    BY <1>1
  <2> HIDE DEF L
  <2>4. /\ SubSeq(L, 1, k) \in Logs /\ Len(SubSeq(L, 1, k)) = k
        /\ \A i \in 1 .. k : SubSeq(L, 1, k)[i] = L[i]
    BY <1>1, <2>1, PrefixOf DEF L
  <2> QED BY <2>2, <2>3, <2>4, SeqEqual DEF Logs
<1>3. IsPrefix(P, L)
  <2>1. Len(P) \in 0 .. Len(P) /\ Len(P) <= Len(L)
    BY <1>1
  <2>2. SubSeq(L, 1, Len(P)) = SubSeq(P, 1, Len(P))
    BY <1>2, <2>1
  <2> HIDE DEF L
  <2> QED BY <2>1, <2>2 DEF IsPrefix
<1>4. P \o <<>> = P
  BY ConcatEmptySeq DEF Logs
<1> QED BY <1>1, <1>2, <1>3, <1>4

\* A cut keeps everything that was in the file before its last batch, and
\* nothing that was not in it.
LEMMA CutsRead ==
  ASSUME NEW f, Readable(f), compression \in {"none", "zstd"},
         NEW n \in 0 .. Len(f), n = Len(f) \/ Len(f) <= committed(f) + 1,
         NEW a \in 0 .. n, a <= Sure(f, compression),
         NEW g \in Cuts(f, n)
  PROVE  /\ Readable(g) /\ a <= Sure(g, compression)
         /\ IsPrefix(StoredEvents(g), StoredEvents(f))
         /\ Whole(f) => Len(g) <= committed(g) + 1
<1> DEFINE m == committed(f)
           Good(h) == /\ Readable(h) /\ a <= Sure(h, compression)
                      /\ IsPrefix(StoredEvents(h), StoredEvents(f))
                      /\ Whole(f) => Len(h) <= committed(h) + 1
<1>1. /\ f \in Seq(Line) /\ Len(f) \in Nat /\ m \in 0 .. Len(f)
      /\ StoredEvents(f) \in Logs /\ Len(StoredEvents(f)) = m
  BY ReadableFacts
<1>2. n \in Nat /\ a \in Nat /\ n <= Len(f) /\ a <= n
  BY <1>1
<1>3. Good(f)
  <2>1. IsPrefix(StoredEvents(f), StoredEvents(f))
    BY <1>1, PrefixFacts
  <2>2. Whole(f) => Len(f) <= m + 1
    BY <1>1 DEF Whole
  <2> QED BY <2>1, <2>2
<1>4. ASSUME NEW k \in n .. Len(f)
      PROVE  /\ Readable(SubSeq(f, 1, k)) /\ Len(SubSeq(f, 1, k)) = k
             /\ \/ /\ k <= m /\ Whole(SubSeq(f, 1, k)) /\ committed(SubSeq(f, 1, k)) = k
                   /\ StoredEvents(SubSeq(f, 1, k)) = SubSeq(StoredEvents(f), 1, k)
                \/ k = Len(f) /\ SubSeq(f, 1, k) = f
  <2>0. k \in Nat /\ n <= k /\ k <= Len(f)
    BY <1>2
  <2>1. CASE k <= m
    <3>1. k \in 0 .. m
      BY <2>0, <2>1
    <3> QED BY <2>1, <3>1, CutShort
  <2>2. CASE ~(k <= m)
    <3>1. k = Len(f)
      BY <1>1, <1>2, <2>0, <2>2
    <3>2. SubSeq(f, 1, k) = f
      BY <1>1, <3>1, SubSeqFull
    <3> QED BY <3>1, <3>2
  <2> QED BY <2>1, <2>2
<1>5. ASSUME NEW k \in n .. Len(f)
      PROVE  /\ IsPrefix(StoredEvents(SubSeq(f, 1, k)), StoredEvents(f))
             /\ Good(SubSeq(f, 1, k))
  <2> DEFINE h == SubSeq(f, 1, k)
  <2>1. CASE k = Len(f) /\ h = f
    BY <1>3, <2>1
  <2>2. CASE k <= m /\ Whole(h) /\ committed(h) = k /\ StoredEvents(h) = SubSeq(StoredEvents(f), 1, k)
    <3>1. k \in 0 .. m /\ a <= k
      BY <1>2, <2>2
    <3>2. IsPrefix(StoredEvents(h), StoredEvents(f))
      BY <1>1, <2>2, <3>1, PrefixOf
    <3>3. Readable(h) /\ Len(h) = k
      BY <1>4
    <3> HIDE DEF h
    <3>4. Sure(h, compression) = k
      BY <2>2, <3>3, SureFacts
    <3>5. Len(h) <= committed(h) + 1
      BY <2>2, <3>1, <3>3
    <3> QED BY <3>1, <3>2, <3>3, <3>4, <3>5 DEF h
  <2> QED BY <1>4, <2>1, <2>2
<1>6. ASSUME NEW k \in n .. Len(f), n < Len(f), NEW s,
             \/ compression = "none" /\ s = k + 1 /\ k < Len(f)
             \/ compression # "none" /\ s = n + 1
      PROVE  Good(Append(SubSeq(f, 1, k), Fragment(s)))
  <2> DEFINE h == SubSeq(f, 1, k)
             e == Append(h, Fragment(s))
  <2>0. Len(f) <= m + 1 /\ n <= m /\ k \in Nat /\ n <= k /\ k <= Len(f)
    BY <1>1, <1>2, <1>6
  <2>1. CASE k <= m
    <3>1. Readable(h) /\ committed(h) = k /\ Len(h) = k
      <4>1. k \in 0 .. m
        BY <2>0, <2>1
      <4> QED BY <4>1, CutShort
    <3>2. IsPrefix(StoredEvents(h), StoredEvents(f))
      BY <1>5
    <3> HIDE DEF h
    <3>3. s \in 1 .. committed(h) + 1
      BY <1>2, <1>6, <2>0, <3>1
    <3>4. /\ Readable(e) /\ committed(e) = k /\ Len(e) = k + 1
          /\ Torn(e) /\ e[Len(e)].seq = s /\ StoredEvents(e) = StoredEvents(h)
      BY <3>1, <3>3, Appended
    <3> HIDE DEF e
    <3>5. a <= Sure(e, compression)
      <4>1. CASE compression = "none"
        BY <1>2, <2>0, <3>4, <4>1 DEF Sure
      <4>2. CASE compression # "none"
        BY <1>2, <1>6, <2>0, <3>4, <4>2 DEF Sure
      <4> QED BY <4>1, <4>2
    <3>6. Len(e) <= committed(e) + 1
      BY <2>0, <3>4
    <3> QED BY <3>2, <3>4, <3>5, <3>6 DEF e, h
  <2>2. CASE ~(k <= m)
    <3>1. k = Len(f) /\ k = m + 1 /\ h = f
      <4>1. k = Len(f) /\ k = m + 1
        BY <1>1, <2>0, <2>2
      <4> QED BY <1>1, <4>1, SubSeqFull
    <3>2. s = n + 1 /\ compression # "none"
      BY <1>6, <3>1
    <3> HIDE DEF h
    <3>3. s \in 1 .. m + 1
      BY <1>1, <1>2, <2>0, <3>2
    <3>4. /\ Readable(e) /\ committed(e) = m
          /\ Torn(e) /\ e[Len(e)].seq = s /\ StoredEvents(e) = StoredEvents(f)
      BY <3>1, <3>3, Appended
    <3>5. ~Whole(f)
      BY <1>1, <3>1 DEF Whole
    <3>6. IsPrefix(StoredEvents(e), StoredEvents(f))
      BY <3>4, <1>1, PrefixFacts
    <3> HIDE DEF e
    <3>7. a <= Sure(e, compression)
      BY <1>2, <3>2, <3>4 DEF Sure
    <3> QED BY <3>4, <3>5, <3>6, <3>7 DEF e, h
  <2> QED BY <2>1, <2>2
<1> HIDE DEF Good
<1>7. Good(g)
  <2>1. CASE g = f
    BY <1>3, <2>1
  <2>2. CASE g = SubSeq(f, 1, n)
    <3>1. n \in n .. Len(f)
      BY <1>2
    <3> QED BY <1>5, <2>2, <3>1
  <2>3. CASE \E k \in n .. Len(f) : g = SubSeq(f, 1, k)
    BY <1>5, <2>3
  <2>4. ASSUME compression = "none",
               NEW k \in n .. Len(f) - 1, g = Append(SubSeq(f, 1, k), Fragment(k + 1))
        PROVE  Good(g)
    <3>1. k \in n .. Len(f) /\ n < Len(f) /\ k < Len(f)
      BY <1>1, <1>2
    <3> QED BY <1>6, <2>4, <3>1
  <2>5. ASSUME compression # "none", n < Len(f),
               NEW k \in n .. Len(f), g = Append(SubSeq(f, 1, k), Fragment(n + 1))
        PROVE  Good(g)
    BY <1>6, <2>5
  <2> QED BY <2>1, <2>2, <2>3, <2>4, <2>5 DEF Cuts
<1> QED BY <1>7 DEF Good

\* The longest common prefix of two files is as long as any other.
LEMMA CommonLength ==
  ASSUME NEW f \in Seq(Line), NEW g \in Seq(Line),
         NEW a \in 0 .. Len(f), a <= Len(g), SubSeq(f, 1, a) = SubSeq(g, 1, a)
  PROVE  LET n == Len(LongestCommonPrefix({f, g})) IN
         /\ n \in 0 .. Len(f) /\ a <= n
         /\ f = g => n = Len(f)
<1> DEFINE S == {f, g}
           C == CommonPrefixes(S)
           Lens == {k \in 1 .. Len(f) + 1 : \E p \in C : Len(p) = k - 1}
<1>0. Len(f) \in Nat /\ Len(g) \in Nat
  OBVIOUS
<1>1. ASSUME NEW h \in S, NEW k \in 0 .. Len(h)
      PROVE  SubSeq(h, 1, k) \in Seq(Line) /\ Len(SubSeq(h, 1, k)) = k
  <2>1. h \in Seq(Line) /\ \A i \in 1 .. k : h[i] \in Line
    OBVIOUS
  <2>2. k \in Nat
    BY <2>1
  <2> QED BY <2>1, <2>2, SubSeqProperties
<1>2. ASSUME NEW p \in C PROVE Len(p) \in 0 .. Len(f)
  <2>1. PICK h \in S : \E k \in 0 .. Len(h) : p = SubSeq(h, 1, k)
    BY DEF CommonPrefixes, Prefixes
  <2>2. Len(p) \in Nat
    BY <1>1, <2>1
  <2>3. Len(p) <= Len(f)
    BY DEF CommonPrefixes, IsPrefix
  <2> QED BY <1>0, <2>2, <2>3
<1>3. ASSUME NEW k \in 0 .. Len(f), k <= Len(g), SubSeq(f, 1, k) = SubSeq(g, 1, k)
      PROVE  \E p \in C : Len(p) = k
  <2> DEFINE p == SubSeq(f, 1, k)
  <2>1. p \in Seq(Line) /\ Len(p) = k
    BY <1>1
  <2>2. p \in UNION {Prefixes(seq) : seq \in S}
    BY DEF Prefixes
  <2> HIDE DEF p
  <2>3. SubSeq(p, 1, k) = p
    BY <2>1, SubSeqFull
  <2>4. IsPrefix(p, f) /\ IsPrefix(p, g)
    BY <1>3, <2>1, <2>3 DEF IsPrefix, p
  <2> QED BY <2>1, <2>2, <2>4 DEF CommonPrefixes
<1> HIDE DEF C
<1>4. PICK l \in C : \A o \in C : Len(o) <= Len(l)
  <2>1. a + 1 \in Lens
    BY <1>0, <1>3
  <2>2. Lens \in SUBSET (1 .. Len(f) + 1) /\ Lens # {} /\ Len(f) + 1 \in Nat
    <3>1. Lens \in SUBSET (1 .. Len(f) + 1)
      OBVIOUS
    <3> HIDE DEF Lens
    <3> QED BY <1>0, <2>1, <3>1
  <2>3. Max(Lens) \in Lens /\ \A y \in Lens : y <= Max(Lens)
    BY <2>2, Extremes
  <2>4. PICK l \in C : Len(l) = Max(Lens) - 1
    BY <2>3
  <2>5. ASSUME NEW o \in C PROVE Len(o) <= Len(l)
    <3>1. Len(o) \in 0 .. Len(f)
      BY <1>2
    <3>2. Len(o) + 1 \in Lens
      BY <1>0, <3>1
    <3>3. Len(o) + 1 <= Max(Lens) /\ Max(Lens) \in 1 .. Len(f) + 1
      BY <2>3, <3>2
    <3> QED BY <1>0, <2>4, <3>1, <3>3
  <2> QED BY <2>5
<1>5. /\ LongestCommonPrefix(S) \in C
      /\ \A o \in C : Len(o) <= Len(LongestCommonPrefix(S))
  <2> DEFINE P(x) == \A o \in C : Len(o) <= Len(x)
  <2>1. LongestCommonPrefix(S) = CHOOSE x \in C : P(x)
    BY DEF LongestCommonPrefix, C
  <2>2. \E x \in C : P(x)
    BY <1>4
  <2> HIDE DEF P
  <2>3. LongestCommonPrefix(S) \in C /\ P(LongestCommonPrefix(S))
    BY <2>1, <2>2
  <2> QED BY <2>3 DEF P
<1>6. PICK p \in C : Len(p) = a
  BY <1>3
<1>7. a <= Len(LongestCommonPrefix(S)) /\ Len(LongestCommonPrefix(S)) \in 0 .. Len(f)
  BY <1>2, <1>5, <1>6
<1>8. ASSUME f = g PROVE Len(LongestCommonPrefix(S)) = Len(f)
  <2>1. Len(f) \in 0 .. Len(f) /\ Len(f) <= Len(g)
    BY <1>0, <1>8
  <2>2. PICK q \in C : Len(q) = Len(f)
    BY <1>3, <1>8, <2>1
  <2>3. Len(f) <= Len(LongestCommonPrefix(S))
    BY <1>5, <2>2
  <2> QED BY <1>0, <1>7, <2>3
<1> QED BY <1>7, <1>8

-----------------------------------------------------------------------------
(* The log.  Where the repair scan and the grammar stand after it: the open *)
(* turn and step, the calls still to answer, those of them with a recorded  *)
(* start, and the numbers of the next turn and step.                       *)

Stands(p, n, m, P, R, nn, nm) ==
  /\ RepairScan(p) = [turn |-> n, step |-> m, pending |-> P, recorded |-> R]
  /\ Replay(p) = [ok |-> TRUE,
                  trace |-> [openTurn |-> n, openStep |-> m, nextTurn |-> nn,
                             nextStep |-> nm, pending |-> R]]

Fits(n, m, P, R, nn, nm) ==
  /\ n \in 0 .. MaxTurns /\ m \in Nat /\ P \in SUBSET Calls /\ R \in SUBSET P
  /\ n = 0 => m = 0
  /\ m = 0 => P = {}
  /\ m # 0 => nm = m
  /\ n # 0 => nn = n
  /\ nn \in 1 .. MaxTurns + 1 /\ nm \in Nat \ {0}

Recorded(p) == UNION {p[i].calls : i \in {j \in DOMAIN p : p[j].type = "tool/call"}}

NotStarted(p) == UNION {p[i].calls : i \in {j \in DOMAIN p : p[j].type = "tool/not-started"}}

\* What a log may say of one call: it is answered at most once, and once a later
\* event took it out of the pending ones it was answered, unless its step failed.
CallLegal(p, P, R, F, c) ==
  /\ c \in P => /\ c \in Asked(p) /\ Answers(p, c) = {}
                /\ c \in Recorded(p) => c \in R
  /\ c \in Asked(p) /\ c \notin P => Answers(p, c) # {} \/ c \in F
  /\ c \in Recorded(p) \/ Answers(p, c) # {} => c \in Asked(p)
  /\ \A i, j \in Answers(p, c) : i = j
  /\ ~(c \in Recorded(p) /\ c \in NotStarted(p))

Legal(p, F) ==
  \E n, m, P, R, nn, nm :
    /\ Stands(p, n, m, P, R, nn, nm)
    /\ Fits(n, m, P, R, nn, nm)
    /\ \A c \in Calls : CallLegal(p, P, R, F, c)

\* A log all of whose prefixes are legal: wherever it is cut, what is left can
\* be repaired.
LogOK(L, F, U) ==
  /\ L \in Logs
  /\ \A k \in 0 .. Len(L) : Legal(SubSeq(L, 1, k), F)
  /\ Asked(L) \subseteq U

\* Every event the code appends is one of the grammar's, with these parts.
LEMMA EventIs ==
  /\ \A type \in Grammar!EventTypes, n \in Nat, m \in Nat :
       /\ Event(type, n, m) \in Grammar!Events
       /\ Event(type, n, m).type = type /\ Event(type, n, m).turn = n
       /\ Event(type, n, m).step = m /\ Event(type, n, m).calls = {}
       /\ \A c \in Calls :
            /\ CallEvent(type, n, m, c) \in Grammar!Events
            /\ CallEvent(type, n, m, c).type = type /\ CallEvent(type, n, m, c).turn = n
            /\ CallEvent(type, n, m, c).step = m /\ CallEvent(type, n, m, c).calls = {c}
  /\ \A n \in Nat, m \in Nat, C \in SUBSET Calls :
       /\ Message(n, m, C) \in Grammar!Events
       /\ Message(n, m, C).type = "assistant/message" /\ Message(n, m, C).turn = n
       /\ Message(n, m, C).step = m /\ Message(n, m, C).calls = C
  /\ {"turn/start", "turn/end", "step/start", "step/end", "tool/call", "tool/result",
      "tool/not-started", "request/header", "assistant/message"} \subseteq Grammar!EventTypes
  /\ \A e \in Grammar!Events : /\ e.calls \in SUBSET Calls /\ e.turn \in Nat /\ e.step \in Nat
                               /\ e.type \in Grammar!EventTypes /\ e.type # "none"
  /\ Grammar!NoEvent.type = "none"
<1>1. {"turn/start", "turn/end", "step/start", "step/end", "tool/call", "tool/result",
      "tool/not-started", "request/header", "assistant/message"} \subseteq Grammar!EventTypes
  BY DEF Grammar!EventTypes, Grammar!StepEventTypes
<1>2. ASSUME NEW type \in Grammar!EventTypes, NEW n \in Nat, NEW m \in Nat
      PROVE
       /\ Event(type, n, m) \in Grammar!Events
       /\ Event(type, n, m).type = type /\ Event(type, n, m).turn = n
       /\ Event(type, n, m).step = m /\ Event(type, n, m).calls = {}
       /\ \A c \in Calls :
            /\ CallEvent(type, n, m, c) \in Grammar!Events
            /\ CallEvent(type, n, m, c).type = type /\ CallEvent(type, n, m, c).turn = n
            /\ CallEvent(type, n, m, c).step = m /\ CallEvent(type, n, m, c).calls = {c}
  BY DEF Event, CallEvent, Grammar!Event, Grammar!CallEvent, Grammar!Events
<1>3. ASSUME NEW n \in Nat, NEW m \in Nat, NEW C \in SUBSET Calls
      PROVE
       /\ Message(n, m, C) \in Grammar!Events
       /\ Message(n, m, C).type = "assistant/message" /\ Message(n, m, C).turn = n
       /\ Message(n, m, C).step = m /\ Message(n, m, C).calls = C
  BY <1>1 DEF Event, Message, Grammar!Event, Grammar!Events
<1>4. ASSUME NEW e \in Grammar!Events
      PROVE /\ e.calls \in SUBSET Calls /\ e.turn \in Nat /\ e.step \in Nat
            /\ e.type \in Grammar!EventTypes /\ e.type # "none"
  BY DEF Grammar!Events, Grammar!EventTypes, Grammar!StepEventTypes
<1>5. Grammar!NoEvent.type = "none"
  BY DEF Grammar!NoEvent
<1> QED BY <1>1, <1>2, <1>3, <1>4, <1>5

\* A log says only one thing.
LEMMA LegalAt ==
  ASSUME NEW p, NEW F, Legal(p, F),
         NEW n, NEW m, NEW P, NEW R, NEW nn, NEW nm, Stands(p, n, m, P, R, nn, nm)
  PROVE  Fits(n, m, P, R, nn, nm) /\ \A c \in Calls : CallLegal(p, P, R, F, c)
<1>1. PICK n1, m1, P1, R1, nn1, nm1 :
        /\ Stands(p, n1, m1, P1, R1, nn1, nm1)
        /\ Fits(n1, m1, P1, R1, nn1, nm1)
        /\ \A c \in Calls : CallLegal(p, P1, R1, F, c)
  BY DEF Legal
<1>2. n = n1 /\ m = m1 /\ P = P1 /\ R = R1 /\ nn = nn1 /\ nm = nm1
  <2>1. [turn |-> n, step |-> m, pending |-> P, recorded |-> R]
        = [turn |-> n1, step |-> m1, pending |-> P1, recorded |-> R1]
    BY <1>1 DEF Stands
  <2>2. [openTurn |-> n, openStep |-> m, nextTurn |-> nn, nextStep |-> nm, pending |-> R]
        = [openTurn |-> n1, openStep |-> m1, nextTurn |-> nn1, nextStep |-> nm1, pending |-> R1]
    <3>1. [ok |-> TRUE, trace |-> [openTurn |-> n, openStep |-> m, nextTurn |-> nn, nextStep |-> nm, pending |-> R]]
        = [ok |-> TRUE, trace |-> [openTurn |-> n1, openStep |-> m1, nextTurn |-> nn1, nextStep |-> nm1, pending |-> R1]]
      BY <1>1 DEF Stands
    <3> QED BY <3>1
  <2> QED BY <2>1, <2>2
<1> QED BY <1>1, <1>2

\* A new session's log is legal, and stands between turns.
LEMMA EmptyLegal ==
  ASSUME NEW F, NEW U
  PROVE  /\ LogOK(<<>>, F, U) /\ Stands(<<>>, 0, 0, {}, {}, 1, 1)
         /\ <<>> \in Logs
<1>1. <<>> \in Logs /\ Len(<<>>) = 0 /\ DOMAIN <<>> = {}
  BY EmptySeq DEF Logs
<1>2. Stands(<<>>, 0, 0, {}, {}, 1, 1)
  <2>1. RepairScan(<<>>) = Balanced /\ Replay(<<>>) = Started
    <3>1. <<>> \in Seq(Nat) /\ 0 \in Nat
      OBVIOUS
    <3> QED BY <3>1, ScanAppend, FollowAppend
  <2> QED BY <2>1 DEF Stands, Balanced, Started, Grammar!Fresh
<1>3. Fits(0, 0, {}, {}, 1, 1)
  BY RecoveryAssumption DEF Fits
<1>4. Asked(<<>>) = {} /\ Recorded(<<>>) = {} /\ \A c : Answers(<<>>, c) = {}
  BY <1>1 DEF Asked, Recorded, Answers
<1>5. Legal(<<>>, F)
  <2>1. \A c \in Calls : CallLegal(<<>>, {}, {}, F, c)
    BY <1>4 DEF CallLegal
  <2> QED BY <1>2, <1>3, <2>1 DEF Legal
<1>6. SubSeq(<<>>, 1, 0) = <<>>
  BY <1>1, PrefixOf
<1>7. \A k \in 0 .. Len(<<>>) : Legal(SubSeq(<<>>, 1, k), F)
  <2>1. \A k \in 0 .. Len(<<>>) : k = 0
    BY <1>1
  <2> QED BY <1>5, <1>6, <2>1
<1> QED BY <1>1, <1>2, <1>4, <1>7 DEF LogOK

\* The calls of a log that one event was appended to.
LEMMA CallsAppend ==
  ASSUME NEW p \in Logs, NEW e \in Grammar!Events
  PROVE  LET q == Append(p, e) IN
         /\ q \in Logs /\ Len(q) = Len(p) + 1 /\ Len(p) \in Nat
         /\ Asked(q) = Asked(p) \cup (IF e.type = "assistant/message" THEN e.calls ELSE {})
         /\ Recorded(q) = Recorded(p) \cup (IF e.type = "tool/call" THEN e.calls ELSE {})
         /\ NotStarted(q) = NotStarted(p) \cup
                              (IF e.type = "tool/not-started" THEN e.calls ELSE {})
         /\ \A c : Answers(q, c) = Answers(p, c) \cup
                     (IF e.type \in {"tool/result", "tool/not-started"} /\ c \in e.calls
                      THEN {Len(q)} ELSE {})
<1> DEFINE q == Append(p, e)
<1>1. /\ q \in Logs /\ Len(q) = Len(p) + 1 /\ Len(p) \in Nat
      /\ DOMAIN p = 1 .. Len(p) /\ DOMAIN q = 1 .. Len(p) + 1
      /\ q[Len(p) + 1] = e /\ \A i \in 1 .. Len(p) : q[i] = p[i]
  BY DEF Logs
<1> HIDE DEF q
<1>2. ASSUME NEW T
      PROVE  {j \in DOMAIN q : q[j].type \in T} =
             {j \in DOMAIN p : p[j].type \in T} \cup
               (IF e.type \in T THEN {Len(p) + 1} ELSE {})
  BY <1>1
<1>3. ASSUME NEW T
      PROVE  UNION {q[i].calls : i \in {j \in DOMAIN q : q[j].type \in T}} =
             (UNION {p[i].calls : i \in {j \in DOMAIN p : p[j].type \in T}}) \cup
               (IF e.type \in T THEN e.calls ELSE {})
  <2>1. ASSUME NEW c PROVE (\E i \in DOMAIN q : q[i].type \in T /\ c \in q[i].calls) <=>
             \/ \E i \in DOMAIN p : p[i].type \in T /\ c \in p[i].calls
             \/ e.type \in T /\ c \in e.calls
    <3>1. \A i \in DOMAIN q : i \in DOMAIN p \/ i = Len(p) + 1
      BY <1>1
    <3>2. Len(p) + 1 \in DOMAIN q /\ DOMAIN p \subseteq DOMAIN q
      BY <1>1
    <3> QED BY <1>1, <3>1, <3>2
  <2> QED BY <2>1
<1>4. ASSUME NEW r \in Logs
      PROVE  /\ Asked(r) = UNION {r[i].calls : i \in {j \in DOMAIN r : r[j].type \in {"assistant/message"}}}
             /\ Recorded(r) = UNION {r[i].calls : i \in {j \in DOMAIN r : r[j].type \in {"tool/call"}}}
             /\ NotStarted(r) = UNION {r[i].calls : i \in {j \in DOMAIN r : r[j].type \in {"tool/not-started"}}}
  BY DEF Asked, Recorded, NotStarted
<1>5. Asked(q) = Asked(p) \cup (IF e.type = "assistant/message" THEN e.calls ELSE {})
  BY <1>1, <1>3, <1>4
<1>6. Recorded(q) = Recorded(p) \cup (IF e.type = "tool/call" THEN e.calls ELSE {})
  BY <1>1, <1>3, <1>4
<1>7. NotStarted(q) = NotStarted(p) \cup (IF e.type = "tool/not-started" THEN e.calls ELSE {})
  BY <1>1, <1>3, <1>4
<1>8. ASSUME NEW c
      PROVE  Answers(q, c) = Answers(p, c) \cup
                     (IF e.type \in {"tool/result", "tool/not-started"} /\ c \in e.calls
                      THEN {Len(q)} ELSE {})
  BY <1>1 DEF Answers
<1> QED BY <1>1, <1>5, <1>6, <1>7, <1>8 DEF q

\* A log that stays legal with one more event stays well-formed.
LEMMA Extend ==
  ASSUME NEW L, NEW F, NEW U, LogOK(L, F, U), NEW e \in Grammar!Events,
         Legal(Append(L, e), F), e.type = "assistant/message" => e.calls \subseteq U
  PROVE  LogOK(Append(L, e), F, U)
<1> DEFINE M == Append(L, e)
<1>1. L \in Logs /\ M \in Logs /\ Len(M) = Len(L) + 1 /\ Len(L) \in Nat /\ Asked(M) \subseteq U
  BY CallsAppend DEF LogOK
<1>2. ASSUME NEW k \in 0 .. Len(M) PROVE Legal(SubSeq(M, 1, k), F)
  <2>1. CASE k = Len(M)
    <3>1. SubSeq(M, 1, Len(M)) = M
      <4> HIDE DEF M
      <4> QED BY <1>1, SubSeqFull DEF Logs
    <3> QED BY <2>1, <3>1
  <2>2. CASE k \in 0 .. Len(L)
    <3>1. M = L \o <<e>> /\ <<e>> \in Logs
      BY <1>1, AppendIsConcat DEF Logs
    <3>2. SubSeq(M, 1, k) = SubSeq(L, 1, k)
      <4> HIDE DEF M
      <4> QED BY <1>1, <2>2, <3>1, ConcatPrefix
    <3> QED BY <2>2, <3>2 DEF LogOK
  <2> QED BY <1>1, <2>1, <2>2
<1> QED BY <1>1, <1>2 DEF LogOK

\* The two loops take one event in.
LEMMA OneMore ==
  ASSUME NEW L \in Logs, NEW n, NEW m, NEW P, NEW R, NEW nn, NEW nm,
         Stands(L, n, m, P, R, nn, nm), NEW e \in Grammar!Events
  PROVE  LET s == [turn |-> n, step |-> m, pending |-> P, recorded |-> R]
             t == [openTurn |-> n, openStep |-> m, nextTurn |-> nn,
                   nextStep |-> nm, pending |-> R]
         IN /\ RepairScan(Append(L, e)) = ScanEvent(s, e)
            /\ Replay(Append(L, e)) = [ok |-> Grammar!Allowed(t, e),
                                       trace |-> Grammar!Apply(t, e)]
<1>1. /\ RepairScan(Append(L, e)) = ScanEvent(RepairScan(L), e)
      /\ Replay(Append(L, e)) = Follow(Replay(L), e)
  BY ScanAppend, FollowAppend DEF Logs
<1>2. Grammar!Allowed([openTurn |-> n, openStep |-> m, nextTurn |-> nn,
                   nextStep |-> nm, pending |-> R], e) \in BOOLEAN
  BY DEF Grammar!Allowed
<1> QED BY <1>1, <1>2 DEF Stands, Follow

\* A call with a synthetic answer has an answer.
LEMMA NotStartedAnswers ==
  ASSUME NEW p, NEW c \in NotStarted(p) PROVE Answers(p, c) # {}
BY DEF NotStarted, Answers

\* A turn opens.
LEMMA TurnStarts ==
  ASSUME NEW L, NEW F, NEW U, LogOK(L, F, U), NEW nn, NEW nm,
         Stands(L, 0, 0, {}, {}, nn, nm), nn <= MaxTurns
  PROVE  LET M == Append(L, Event("turn/start", nn, 0)) IN
         /\ LogOK(M, F, U) /\ Stands(M, nn, 0, {}, {}, nn, 1)
         /\ Event("turn/start", nn, 0) \in Grammar!Events
<1> DEFINE e == Event("turn/start", nn, 0)
           M == Append(L, e)
<1>1. L \in Logs /\ Legal(L, F) /\ Asked(L) \subseteq U
  <2>1. L \in Logs /\ Len(L) \in 0 .. Len(L)
    BY DEF LogOK, Logs
  <2>2. SubSeq(L, 1, Len(L)) = L
    BY <2>1, PrefixOf
  <2> QED BY <2>1, <2>2 DEF LogOK
<1>2. Fits(0, 0, {}, {}, nn, nm) /\ \A c \in Calls : CallLegal(L, {}, {}, F, c)
  BY <1>1, LegalAt
<1>3. e \in Grammar!Events /\ e.type = "turn/start" /\ e.turn = nn /\ e.step = 0 /\ e.calls = {}
  BY <1>2, EventIs DEF Fits
<1> HIDE DEF e
<1>4. Fits(nn, 0, {}, {}, nn, 1)
  BY <1>2, RecoveryAssumption DEF Fits
<1>5. Stands(M, nn, 0, {}, {}, nn, 1)
  <2>1. /\ RepairScan(M) = ScanEvent([turn |-> 0, step |-> 0, pending |-> {}, recorded |-> {}], e)
        /\ Replay(M) = [ok |-> Grammar!Allowed([openTurn |-> 0, openStep |-> 0, nextTurn |-> nn, nextStep |-> nm, pending |-> {}], e),
                        trace |-> Grammar!Apply([openTurn |-> 0, openStep |-> 0, nextTurn |-> nn, nextStep |-> nm, pending |-> {}], e)]
    BY <1>1, <1>3, OneMore
  <2>2. ScanEvent([turn |-> 0, step |-> 0, pending |-> {}, recorded |-> {}], e)
        = [turn |-> nn, step |-> 0, pending |-> {}, recorded |-> {}]
    BY <1>2, <1>3 DEF ScanEvent, Balanced, Fits
  <2>3. Grammar!Allowed([openTurn |-> 0, openStep |-> 0, nextTurn |-> nn, nextStep |-> nm, pending |-> {}], e)
    BY <1>2, <1>3 DEF Grammar!Allowed, Grammar!NamesOpenStep, Grammar!StepEventTypes, Fits
  <2>4. Grammar!Apply([openTurn |-> 0, openStep |-> 0, nextTurn |-> nn, nextStep |-> nm, pending |-> {}], e)
        = [openTurn |-> nn, openStep |-> 0, nextTurn |-> nn, nextStep |-> 1, pending |-> {}]
    BY <1>2, <1>3 DEF Grammar!Apply, Fits
  <2> QED BY <2>1, <2>2, <2>3, <2>4 DEF Stands
<1>6. /\ Asked(M) = Asked(L) \cup (IF e.type = "assistant/message" THEN e.calls ELSE {})
      /\ Recorded(M) = Recorded(L) \cup (IF e.type = "tool/call" THEN e.calls ELSE {})
      /\ NotStarted(M) = NotStarted(L) \cup
                              (IF e.type = "tool/not-started" THEN e.calls ELSE {})
      /\ \A c : Answers(M, c) = Answers(L, c) \cup
                     (IF e.type \in {"tool/result", "tool/not-started"} /\ c \in e.calls
                      THEN {Len(M)} ELSE {})
  BY <1>1, <1>3, CallsAppend
<1> HIDE DEF M
<1>7. ASSUME NEW d \in Calls PROVE CallLegal(M, {}, {}, F, d)
  BY <1>2, <1>3, <1>6 DEF CallLegal, Fits
<1>8. Legal(M, F)
  BY <1>4, <1>5, <1>7 DEF Legal
<1>9. LogOK(M, F, U)
  BY <1>3, <1>8, Extend DEF M
<1> QED BY <1>3, <1>5, <1>9 DEF M, e

\* A turn closes; its step is closed.
LEMMA TurnEnds ==
  ASSUME NEW L, NEW F, NEW U, LogOK(L, F, U), NEW n, NEW nm,
         Stands(L, n, 0, {}, {}, n, nm), n # 0
  PROVE  LET M == Append(L, Event("turn/end", n, 0)) IN
         /\ LogOK(M, F, U) /\ Stands(M, 0, 0, {}, {}, n + 1, nm)
         /\ Event("turn/end", n, 0) \in Grammar!Events
<1> DEFINE e == Event("turn/end", n, 0)
           M == Append(L, e)
<1>1. L \in Logs /\ Legal(L, F) /\ Asked(L) \subseteq U
  <2>1. L \in Logs /\ Len(L) \in 0 .. Len(L)
    BY DEF LogOK, Logs
  <2>2. SubSeq(L, 1, Len(L)) = L
    BY <2>1, PrefixOf
  <2> QED BY <2>1, <2>2 DEF LogOK
<1>2. Fits(n, 0, {}, {}, n, nm) /\ \A c \in Calls : CallLegal(L, {}, {}, F, c)
  BY <1>1, LegalAt
<1>3. e \in Grammar!Events /\ e.type = "turn/end" /\ e.turn = n /\ e.step = 0 /\ e.calls = {}
  BY <1>2, EventIs DEF Fits
<1> HIDE DEF e
<1>4. Fits(0, 0, {}, {}, n + 1, nm)
  BY <1>2, RecoveryAssumption DEF Fits
<1>5. Stands(M, 0, 0, {}, {}, n + 1, nm)
  <2>1. /\ RepairScan(M) = ScanEvent([turn |-> n, step |-> 0, pending |-> {}, recorded |-> {}], e)
        /\ Replay(M) = [ok |-> Grammar!Allowed([openTurn |-> n, openStep |-> 0, nextTurn |-> n, nextStep |-> nm, pending |-> {}], e),
                        trace |-> Grammar!Apply([openTurn |-> n, openStep |-> 0, nextTurn |-> n, nextStep |-> nm, pending |-> {}], e)]
    BY <1>1, <1>3, OneMore
  <2>2. ScanEvent([turn |-> n, step |-> 0, pending |-> {}, recorded |-> {}], e)
        = [turn |-> 0, step |-> 0, pending |-> {}, recorded |-> {}]
    BY <1>2, <1>3 DEF ScanEvent, Balanced, Fits
  <2>3. Grammar!Allowed([openTurn |-> n, openStep |-> 0, nextTurn |-> n, nextStep |-> nm, pending |-> {}], e)
    BY <1>2, <1>3 DEF Grammar!Allowed, Grammar!NamesOpenStep, Grammar!StepEventTypes, Fits
  <2>4. Grammar!Apply([openTurn |-> n, openStep |-> 0, nextTurn |-> n, nextStep |-> nm, pending |-> {}], e)
        = [openTurn |-> 0, openStep |-> 0, nextTurn |-> n + 1, nextStep |-> nm, pending |-> {}]
    BY <1>2, <1>3 DEF Grammar!Apply, Fits
  <2> QED BY <2>1, <2>2, <2>3, <2>4 DEF Stands
<1>6. /\ Asked(M) = Asked(L) \cup (IF e.type = "assistant/message" THEN e.calls ELSE {})
      /\ Recorded(M) = Recorded(L) \cup (IF e.type = "tool/call" THEN e.calls ELSE {})
      /\ NotStarted(M) = NotStarted(L) \cup
                              (IF e.type = "tool/not-started" THEN e.calls ELSE {})
      /\ \A c : Answers(M, c) = Answers(L, c) \cup
                     (IF e.type \in {"tool/result", "tool/not-started"} /\ c \in e.calls
                      THEN {Len(M)} ELSE {})
  BY <1>1, <1>3, CallsAppend
<1> HIDE DEF M
<1>7. ASSUME NEW d \in Calls PROVE CallLegal(M, {}, {}, F, d)
  BY <1>2, <1>3, <1>6 DEF CallLegal, Fits
<1>8. Legal(M, F)
  BY <1>4, <1>5, <1>7 DEF Legal
<1>9. LogOK(M, F, U)
  BY <1>3, <1>8, Extend DEF M
<1> QED BY <1>3, <1>5, <1>9 DEF M, e

\* A step opens.
LEMMA StepStarts ==
  ASSUME NEW L, NEW F, NEW U, LogOK(L, F, U), NEW n, NEW nm,
         Stands(L, n, 0, {}, {}, n, nm), n # 0
  PROVE  LET M == Append(L, Event("step/start", n, nm)) IN
         /\ LogOK(M, F, U) /\ Stands(M, n, nm, {}, {}, n, nm)
         /\ Event("step/start", n, nm) \in Grammar!Events
<1> DEFINE e == Event("step/start", n, nm)
           M == Append(L, e)
<1>1. L \in Logs /\ Legal(L, F) /\ Asked(L) \subseteq U
  <2>1. L \in Logs /\ Len(L) \in 0 .. Len(L)
    BY DEF LogOK, Logs
  <2>2. SubSeq(L, 1, Len(L)) = L
    BY <2>1, PrefixOf
  <2> QED BY <2>1, <2>2 DEF LogOK
<1>2. Fits(n, 0, {}, {}, n, nm) /\ \A c \in Calls : CallLegal(L, {}, {}, F, c)
  BY <1>1, LegalAt
<1>3. e \in Grammar!Events /\ e.type = "step/start" /\ e.turn = n /\ e.step = nm /\ e.calls = {}
  BY <1>2, EventIs DEF Fits
<1> HIDE DEF e
<1>4. Fits(n, nm, {}, {}, n, nm)
  BY <1>2, RecoveryAssumption DEF Fits
<1>5. Stands(M, n, nm, {}, {}, n, nm)
  <2>1. /\ RepairScan(M) = ScanEvent([turn |-> n, step |-> 0, pending |-> {}, recorded |-> {}], e)
        /\ Replay(M) = [ok |-> Grammar!Allowed([openTurn |-> n, openStep |-> 0, nextTurn |-> n, nextStep |-> nm, pending |-> {}], e),
                        trace |-> Grammar!Apply([openTurn |-> n, openStep |-> 0, nextTurn |-> n, nextStep |-> nm, pending |-> {}], e)]
    BY <1>1, <1>3, OneMore
  <2>2. ScanEvent([turn |-> n, step |-> 0, pending |-> {}, recorded |-> {}], e)
        = [turn |-> n, step |-> nm, pending |-> {}, recorded |-> {}]
    BY <1>2, <1>3 DEF ScanEvent, Balanced, Fits
  <2>3. Grammar!Allowed([openTurn |-> n, openStep |-> 0, nextTurn |-> n, nextStep |-> nm, pending |-> {}], e)
    BY <1>2, <1>3 DEF Grammar!Allowed, Grammar!NamesOpenStep, Grammar!StepEventTypes, Fits
  <2>4. Grammar!Apply([openTurn |-> n, openStep |-> 0, nextTurn |-> n, nextStep |-> nm, pending |-> {}], e)
        = [openTurn |-> n, openStep |-> nm, nextTurn |-> n, nextStep |-> nm, pending |-> {}]
    BY <1>2, <1>3 DEF Grammar!Apply, Fits
  <2> QED BY <2>1, <2>2, <2>3, <2>4 DEF Stands
<1>6. /\ Asked(M) = Asked(L) \cup (IF e.type = "assistant/message" THEN e.calls ELSE {})
      /\ Recorded(M) = Recorded(L) \cup (IF e.type = "tool/call" THEN e.calls ELSE {})
      /\ NotStarted(M) = NotStarted(L) \cup
                              (IF e.type = "tool/not-started" THEN e.calls ELSE {})
      /\ \A c : Answers(M, c) = Answers(L, c) \cup
                     (IF e.type \in {"tool/result", "tool/not-started"} /\ c \in e.calls
                      THEN {Len(M)} ELSE {})
  BY <1>1, <1>3, CallsAppend
<1> HIDE DEF M
<1>7. ASSUME NEW d \in Calls PROVE CallLegal(M, {}, {}, F, d)
  BY <1>2, <1>3, <1>6 DEF CallLegal, Fits
<1>8. Legal(M, F)
  BY <1>4, <1>5, <1>7 DEF Legal
<1>9. LogOK(M, F, U)
  BY <1>3, <1>8, Extend DEF M
<1> QED BY <1>3, <1>5, <1>9 DEF M, e

\* A step closes: a call it leaves pending is one of a failed step.
LEMMA StepEnds ==
  ASSUME NEW L, NEW F, NEW U, LogOK(L, F, U), NEW n, NEW m, NEW P, NEW R,
         Stands(L, n, m, P, R, n, m), m # 0, P \subseteq F
  PROVE  LET M == Append(L, Event("step/end", n, m)) IN
         /\ LogOK(M, F, U) /\ Stands(M, n, 0, {}, {}, n, m + 1)
         /\ Event("step/end", n, m) \in Grammar!Events
<1> DEFINE e == Event("step/end", n, m)
           M == Append(L, e)
<1>1. L \in Logs /\ Legal(L, F) /\ Asked(L) \subseteq U
  <2>1. L \in Logs /\ Len(L) \in 0 .. Len(L)
    BY DEF LogOK, Logs
  <2>2. SubSeq(L, 1, Len(L)) = L
    BY <2>1, PrefixOf
  <2> QED BY <2>1, <2>2 DEF LogOK
<1>2. Fits(n, m, P, R, n, m) /\ \A c \in Calls : CallLegal(L, P, R, F, c)
  BY <1>1, LegalAt
<1>3. e \in Grammar!Events /\ e.type = "step/end" /\ e.turn = n /\ e.step = m /\ e.calls = {}
  BY <1>2, EventIs DEF Fits
<1> HIDE DEF e
<1>4. Fits(n, 0, {}, {}, n, m + 1)
  BY <1>2, RecoveryAssumption DEF Fits
<1>5. Stands(M, n, 0, {}, {}, n, m + 1)
  <2>1. /\ RepairScan(M) = ScanEvent([turn |-> n, step |-> m, pending |-> P, recorded |-> R], e)
        /\ Replay(M) = [ok |-> Grammar!Allowed([openTurn |-> n, openStep |-> m, nextTurn |-> n, nextStep |-> m, pending |-> R], e),
                        trace |-> Grammar!Apply([openTurn |-> n, openStep |-> m, nextTurn |-> n, nextStep |-> m, pending |-> R], e)]
    BY <1>1, <1>3, OneMore
  <2>2. ScanEvent([turn |-> n, step |-> m, pending |-> P, recorded |-> R], e)
        = [turn |-> n, step |-> 0, pending |-> {}, recorded |-> {}]
    BY <1>2, <1>3 DEF ScanEvent, Balanced, Fits
  <2>3. Grammar!Allowed([openTurn |-> n, openStep |-> m, nextTurn |-> n, nextStep |-> m, pending |-> R], e)
    BY <1>2, <1>3 DEF Grammar!Allowed, Grammar!NamesOpenStep, Grammar!StepEventTypes, Fits
  <2>4. Grammar!Apply([openTurn |-> n, openStep |-> m, nextTurn |-> n, nextStep |-> m, pending |-> R], e)
        = [openTurn |-> n, openStep |-> 0, nextTurn |-> n, nextStep |-> m + 1, pending |-> {}]
    BY <1>2, <1>3 DEF Grammar!Apply, Fits
  <2> QED BY <2>1, <2>2, <2>3, <2>4 DEF Stands
<1>6. /\ Asked(M) = Asked(L) \cup (IF e.type = "assistant/message" THEN e.calls ELSE {})
      /\ Recorded(M) = Recorded(L) \cup (IF e.type = "tool/call" THEN e.calls ELSE {})
      /\ NotStarted(M) = NotStarted(L) \cup
                              (IF e.type = "tool/not-started" THEN e.calls ELSE {})
      /\ \A c : Answers(M, c) = Answers(L, c) \cup
                     (IF e.type \in {"tool/result", "tool/not-started"} /\ c \in e.calls
                      THEN {Len(M)} ELSE {})
  BY <1>1, <1>3, CallsAppend
<1> HIDE DEF M
<1>7. ASSUME NEW d \in Calls PROVE CallLegal(M, {}, {}, F, d)
  BY <1>2, <1>3, <1>6 DEF CallLegal, Fits
<1>8. Legal(M, F)
  BY <1>4, <1>5, <1>7 DEF Legal
<1>9. LogOK(M, F, U)
  BY <1>3, <1>8, Extend DEF M
<1> QED BY <1>3, <1>5, <1>9 DEF M, e

\* The request is logged.
LEMMA RequestLogged ==
  ASSUME NEW L, NEW F, NEW U, LogOK(L, F, U), NEW n, NEW m, NEW P, NEW R,
         Stands(L, n, m, P, R, n, m), m # 0
  PROVE  LET M == Append(L, Event("request/header", n, m)) IN
         /\ LogOK(M, F, U) /\ Stands(M, n, m, P, R, n, m)
         /\ Event("request/header", n, m) \in Grammar!Events
<1> DEFINE e == Event("request/header", n, m)
           M == Append(L, e)
<1>1. L \in Logs /\ Legal(L, F) /\ Asked(L) \subseteq U
  <2>1. L \in Logs /\ Len(L) \in 0 .. Len(L)
    BY DEF LogOK, Logs
  <2>2. SubSeq(L, 1, Len(L)) = L
    BY <2>1, PrefixOf
  <2> QED BY <2>1, <2>2 DEF LogOK
<1>2. Fits(n, m, P, R, n, m) /\ \A c \in Calls : CallLegal(L, P, R, F, c)
  BY <1>1, LegalAt
<1>3. e \in Grammar!Events /\ e.type = "request/header" /\ e.turn = n /\ e.step = m /\ e.calls = {}
  BY <1>2, EventIs DEF Fits
<1> HIDE DEF e
<1>4. Fits(n, m, P, R, n, m)
  BY <1>2, RecoveryAssumption DEF Fits
<1>5. Stands(M, n, m, P, R, n, m)
  <2>1. /\ RepairScan(M) = ScanEvent([turn |-> n, step |-> m, pending |-> P, recorded |-> R], e)
        /\ Replay(M) = [ok |-> Grammar!Allowed([openTurn |-> n, openStep |-> m, nextTurn |-> n, nextStep |-> m, pending |-> R], e),
                        trace |-> Grammar!Apply([openTurn |-> n, openStep |-> m, nextTurn |-> n, nextStep |-> m, pending |-> R], e)]
    BY <1>1, <1>3, OneMore
  <2>2. ScanEvent([turn |-> n, step |-> m, pending |-> P, recorded |-> R], e)
        = [turn |-> n, step |-> m, pending |-> P, recorded |-> R]
    BY <1>2, <1>3 DEF ScanEvent, Balanced, Fits
  <2>3. Grammar!Allowed([openTurn |-> n, openStep |-> m, nextTurn |-> n, nextStep |-> m, pending |-> R], e)
    BY <1>2, <1>3 DEF Grammar!Allowed, Grammar!NamesOpenStep, Grammar!StepEventTypes, Fits
  <2>4. Grammar!Apply([openTurn |-> n, openStep |-> m, nextTurn |-> n, nextStep |-> m, pending |-> R], e)
        = [openTurn |-> n, openStep |-> m, nextTurn |-> n, nextStep |-> m, pending |-> R]
    BY <1>2, <1>3 DEF Grammar!Apply, Fits
  <2> QED BY <2>1, <2>2, <2>3, <2>4 DEF Stands
<1>6. /\ Asked(M) = Asked(L) \cup (IF e.type = "assistant/message" THEN e.calls ELSE {})
      /\ Recorded(M) = Recorded(L) \cup (IF e.type = "tool/call" THEN e.calls ELSE {})
      /\ NotStarted(M) = NotStarted(L) \cup
                              (IF e.type = "tool/not-started" THEN e.calls ELSE {})
      /\ \A c : Answers(M, c) = Answers(L, c) \cup
                     (IF e.type \in {"tool/result", "tool/not-started"} /\ c \in e.calls
                      THEN {Len(M)} ELSE {})
  BY <1>1, <1>3, CallsAppend
<1> HIDE DEF M
<1>7. ASSUME NEW d \in Calls PROVE CallLegal(M, P, R, F, d)
  BY <1>2, <1>3, <1>6 DEF CallLegal, Fits
<1>8. Legal(M, F)
  BY <1>4, <1>5, <1>7 DEF Legal
<1>9. LogOK(M, F, U)
  BY <1>3, <1>8, Extend DEF M
<1> QED BY <1>3, <1>5, <1>9 DEF M, e

\* The model's message asks for calls.
LEMMA MessageLogged ==
  ASSUME NEW L, NEW F, NEW U, LogOK(L, F, U), NEW n, NEW m, NEW C \in SUBSET Calls,
         Stands(L, n, m, {}, {}, n, m), m # 0, C \subseteq U, C \cap Asked(L) = {}
  PROVE  LET M == Append(L, Message(n, m, C)) IN
         /\ LogOK(M, F, U) /\ Stands(M, n, m, C, {}, n, m)
         /\ Message(n, m, C) \in Grammar!Events
<1> DEFINE e == Message(n, m, C)
           M == Append(L, e)
<1>1. L \in Logs /\ Legal(L, F) /\ Asked(L) \subseteq U
  <2>1. L \in Logs /\ Len(L) \in 0 .. Len(L)
    BY DEF LogOK, Logs
  <2>2. SubSeq(L, 1, Len(L)) = L
    BY <2>1, PrefixOf
  <2> QED BY <2>1, <2>2 DEF LogOK
<1>2. Fits(n, m, {}, {}, n, m) /\ \A c \in Calls : CallLegal(L, {}, {}, F, c)
  BY <1>1, LegalAt
<1>3. e \in Grammar!Events /\ e.type = "assistant/message" /\ e.turn = n /\ e.step = m /\ e.calls = C
  BY <1>2, EventIs DEF Fits
<1> HIDE DEF e
<1>4. Fits(n, m, C, {}, n, m)
  BY <1>2, RecoveryAssumption DEF Fits
<1>5. Stands(M, n, m, C, {}, n, m)
  <2>1. /\ RepairScan(M) = ScanEvent([turn |-> n, step |-> m, pending |-> {}, recorded |-> {}], e)
        /\ Replay(M) = [ok |-> Grammar!Allowed([openTurn |-> n, openStep |-> m, nextTurn |-> n, nextStep |-> m, pending |-> {}], e),
                        trace |-> Grammar!Apply([openTurn |-> n, openStep |-> m, nextTurn |-> n, nextStep |-> m, pending |-> {}], e)]
    BY <1>1, <1>3, OneMore
  <2>2. ScanEvent([turn |-> n, step |-> m, pending |-> {}, recorded |-> {}], e)
        = [turn |-> n, step |-> m, pending |-> C, recorded |-> {}]
    BY <1>2, <1>3 DEF ScanEvent, Balanced, Fits
  <2>3. Grammar!Allowed([openTurn |-> n, openStep |-> m, nextTurn |-> n, nextStep |-> m, pending |-> {}], e)
    BY <1>2, <1>3 DEF Grammar!Allowed, Grammar!NamesOpenStep, Grammar!StepEventTypes, Fits
  <2>4. Grammar!Apply([openTurn |-> n, openStep |-> m, nextTurn |-> n, nextStep |-> m, pending |-> {}], e)
        = [openTurn |-> n, openStep |-> m, nextTurn |-> n, nextStep |-> m, pending |-> {}]
    BY <1>2, <1>3 DEF Grammar!Apply, Fits
  <2> QED BY <2>1, <2>2, <2>3, <2>4 DEF Stands
<1>6. /\ Asked(M) = Asked(L) \cup (IF e.type = "assistant/message" THEN e.calls ELSE {})
      /\ Recorded(M) = Recorded(L) \cup (IF e.type = "tool/call" THEN e.calls ELSE {})
      /\ NotStarted(M) = NotStarted(L) \cup
                              (IF e.type = "tool/not-started" THEN e.calls ELSE {})
      /\ \A c : Answers(M, c) = Answers(L, c) \cup
                     (IF e.type \in {"tool/result", "tool/not-started"} /\ c \in e.calls
                      THEN {Len(M)} ELSE {})
  BY <1>1, <1>3, CallsAppend
<1> HIDE DEF M
<1>7. ASSUME NEW d \in Calls PROVE CallLegal(M, C, {}, F, d)
  BY <1>2, <1>3, <1>6 DEF CallLegal, Fits
<1>8. Legal(M, F)
  BY <1>4, <1>5, <1>7 DEF Legal
<1>9. LogOK(M, F, U)
  BY <1>3, <1>8, Extend DEF M
<1> QED BY <1>3, <1>5, <1>9 DEF M, e

\* A pending call is recorded as started.
LEMMA CallRecorded ==
  ASSUME NEW L, NEW F, NEW U, LogOK(L, F, U), NEW n, NEW m, NEW P, NEW R, NEW c,
         Stands(L, n, m, P, R, n, m), c \in P, m # 0
  PROVE  LET M == Append(L, CallEvent("tool/call", n, m, c)) IN
         /\ LogOK(M, F, U) /\ Stands(M, n, m, P, R \cup {c}, n, m)
         /\ CallEvent("tool/call", n, m, c) \in Grammar!Events
<1> DEFINE e == CallEvent("tool/call", n, m, c)
           M == Append(L, e)
<1>1. L \in Logs /\ Legal(L, F) /\ Asked(L) \subseteq U
  <2>1. L \in Logs /\ Len(L) \in 0 .. Len(L)
    BY DEF LogOK, Logs
  <2>2. SubSeq(L, 1, Len(L)) = L
    BY <2>1, PrefixOf
  <2> QED BY <2>1, <2>2 DEF LogOK
<1>2. Fits(n, m, P, R, n, m) /\ \A x \in Calls : CallLegal(L, P, R, F, x)
  BY <1>1, LegalAt
<1>3. c \in Calls /\ e \in Grammar!Events /\ e.type = "tool/call" /\ e.turn = n /\ e.step = m /\ e.calls = {c}
  BY <1>2, EventIs DEF Fits
<1> HIDE DEF e
<1>4. Fits(n, m, P, R \cup {c}, n, m)
  BY <1>2, RecoveryAssumption DEF Fits
<1>5. Stands(M, n, m, P, R \cup {c}, n, m)
  <2>1. /\ RepairScan(M) = ScanEvent([turn |-> n, step |-> m, pending |-> P, recorded |-> R], e)
        /\ Replay(M) = [ok |-> Grammar!Allowed([openTurn |-> n, openStep |-> m, nextTurn |-> n, nextStep |-> m, pending |-> R], e),
                        trace |-> Grammar!Apply([openTurn |-> n, openStep |-> m, nextTurn |-> n, nextStep |-> m, pending |-> R], e)]
    BY <1>1, <1>3, OneMore
  <2>2. ScanEvent([turn |-> n, step |-> m, pending |-> P, recorded |-> R], e)
        = [turn |-> n, step |-> m, pending |-> P, recorded |-> R \cup {c}]
    BY <1>2, <1>3 DEF ScanEvent, Balanced, Fits
  <2>3. Grammar!Allowed([openTurn |-> n, openStep |-> m, nextTurn |-> n, nextStep |-> m, pending |-> R], e)
    BY <1>2, <1>3 DEF Grammar!Allowed, Grammar!NamesOpenStep, Grammar!StepEventTypes, Fits
  <2>4. Grammar!Apply([openTurn |-> n, openStep |-> m, nextTurn |-> n, nextStep |-> m, pending |-> R], e)
        = [openTurn |-> n, openStep |-> m, nextTurn |-> n, nextStep |-> m, pending |-> R \cup {c}]
    BY <1>2, <1>3 DEF Grammar!Apply, Fits
  <2> QED BY <2>1, <2>2, <2>3, <2>4 DEF Stands
<1>6. /\ Asked(M) = Asked(L) \cup (IF e.type = "assistant/message" THEN e.calls ELSE {})
      /\ Recorded(M) = Recorded(L) \cup (IF e.type = "tool/call" THEN e.calls ELSE {})
      /\ NotStarted(M) = NotStarted(L) \cup
                              (IF e.type = "tool/not-started" THEN e.calls ELSE {})
      /\ \A x : Answers(M, x) = Answers(L, x) \cup
                     (IF e.type \in {"tool/result", "tool/not-started"} /\ x \in e.calls
                      THEN {Len(M)} ELSE {})
  BY <1>1, <1>3, CallsAppend
<1> HIDE DEF M
<1>7. ASSUME NEW d \in Calls PROVE CallLegal(M, P, R \cup {c}, F, d)
  <2>1. CallLegal(L, P, R, F, d) /\ CallLegal(L, P, R, F, c) /\ R \subseteq P
    BY <1>2, <1>3 DEF Fits
  <2>2. /\ Asked(M) = Asked(L) /\ Recorded(M) = Recorded(L) \cup {c}
        /\ NotStarted(M) = NotStarted(L)
        /\ Answers(M, d) = Answers(L, d)
    BY <1>3, <1>6
  <2>3. CASE d = c
    BY <1>3, <2>1, <2>2, <2>3, NotStartedAnswers DEF CallLegal
  <2>4. CASE d # c
    BY <1>3, <2>1, <2>2, <2>4 DEF CallLegal
  <2> QED BY <2>3, <2>4
<1>8. Legal(M, F)
  BY <1>4, <1>5, <1>7 DEF Legal
<1>9. LogOK(M, F, U)
  BY <1>3, <1>8, Extend DEF M
<1> QED BY <1>3, <1>5, <1>9 DEF M, e

\* A recorded call is answered.
LEMMA CallAnswered ==
  ASSUME NEW L, NEW F, NEW U, LogOK(L, F, U), NEW n, NEW m, NEW P, NEW R, NEW c,
         Stands(L, n, m, P, R, n, m), c \in R, m # 0
  PROVE  LET M == Append(L, CallEvent("tool/result", n, m, c)) IN
         /\ LogOK(M, F, U) /\ Stands(M, n, m, P \ {c}, R \ {c}, n, m)
         /\ CallEvent("tool/result", n, m, c) \in Grammar!Events
<1> DEFINE e == CallEvent("tool/result", n, m, c)
           M == Append(L, e)
<1>1. L \in Logs /\ Legal(L, F) /\ Asked(L) \subseteq U
  <2>1. L \in Logs /\ Len(L) \in 0 .. Len(L)
    BY DEF LogOK, Logs
  <2>2. SubSeq(L, 1, Len(L)) = L
    BY <2>1, PrefixOf
  <2> QED BY <2>1, <2>2 DEF LogOK
<1>2. Fits(n, m, P, R, n, m) /\ \A x \in Calls : CallLegal(L, P, R, F, x)
  BY <1>1, LegalAt
<1>3. c \in Calls /\ c \in P /\ e \in Grammar!Events /\ e.type = "tool/result" /\ e.turn = n /\ e.step = m /\ e.calls = {c}
  BY <1>2, EventIs DEF Fits
<1> HIDE DEF e
<1>4. Fits(n, m, P \ {c}, R \ {c}, n, m)
  BY <1>2, RecoveryAssumption DEF Fits
<1>5. Stands(M, n, m, P \ {c}, R \ {c}, n, m)
  <2>1. /\ RepairScan(M) = ScanEvent([turn |-> n, step |-> m, pending |-> P, recorded |-> R], e)
        /\ Replay(M) = [ok |-> Grammar!Allowed([openTurn |-> n, openStep |-> m, nextTurn |-> n, nextStep |-> m, pending |-> R], e),
                        trace |-> Grammar!Apply([openTurn |-> n, openStep |-> m, nextTurn |-> n, nextStep |-> m, pending |-> R], e)]
    BY <1>1, <1>3, OneMore
  <2>2. ScanEvent([turn |-> n, step |-> m, pending |-> P, recorded |-> R], e)
        = [turn |-> n, step |-> m, pending |-> P \ {c}, recorded |-> R \ {c}]
    BY <1>2, <1>3 DEF ScanEvent, Balanced, Fits
  <2>3. Grammar!Allowed([openTurn |-> n, openStep |-> m, nextTurn |-> n, nextStep |-> m, pending |-> R], e)
    BY <1>2, <1>3 DEF Grammar!Allowed, Grammar!NamesOpenStep, Grammar!StepEventTypes, Fits
  <2>4. Grammar!Apply([openTurn |-> n, openStep |-> m, nextTurn |-> n, nextStep |-> m, pending |-> R], e)
        = [openTurn |-> n, openStep |-> m, nextTurn |-> n, nextStep |-> m, pending |-> R \ {c}]
    BY <1>2, <1>3 DEF Grammar!Apply, Fits
  <2> QED BY <2>1, <2>2, <2>3, <2>4 DEF Stands
<1>6. /\ Asked(M) = Asked(L) \cup (IF e.type = "assistant/message" THEN e.calls ELSE {})
      /\ Recorded(M) = Recorded(L) \cup (IF e.type = "tool/call" THEN e.calls ELSE {})
      /\ NotStarted(M) = NotStarted(L) \cup
                              (IF e.type = "tool/not-started" THEN e.calls ELSE {})
      /\ \A x : Answers(M, x) = Answers(L, x) \cup
                     (IF e.type \in {"tool/result", "tool/not-started"} /\ x \in e.calls
                      THEN {Len(M)} ELSE {})
  BY <1>1, <1>3, CallsAppend
<1> HIDE DEF M
<1>7. ASSUME NEW d \in Calls PROVE CallLegal(M, P \ {c}, R \ {c}, F, d)
  <2>1. CallLegal(L, P, R, F, d) /\ CallLegal(L, P, R, F, c) /\ R \subseteq P
    BY <1>2, <1>3 DEF Fits
  <2>2. /\ Asked(M) = Asked(L) /\ Recorded(M) = Recorded(L)
        /\ NotStarted(M) = NotStarted(L)
        /\ Answers(M, d) = Answers(L, d) \cup (IF d = c THEN {Len(M)} ELSE {})
    BY <1>3, <1>6
  <2>3. CASE d = c
    BY <1>3, <2>1, <2>2, <2>3 DEF CallLegal
  <2>4. CASE d # c
    BY <1>3, <2>1, <2>2, <2>4 DEF CallLegal
  <2> QED BY <2>3, <2>4
<1>8. Legal(M, F)
  BY <1>4, <1>5, <1>7 DEF Legal
<1>9. LogOK(M, F, U)
  BY <1>3, <1>8, Extend DEF M
<1> QED BY <1>3, <1>5, <1>9 DEF M, e

\* Repair answers a call that has no recorded start.
LEMMA CallNotStarted ==
  ASSUME NEW L, NEW F, NEW U, LogOK(L, F, U), NEW n, NEW m, NEW P, NEW R, NEW c,
         Stands(L, n, m, P, R, n, m), c \in P, c \notin R, m # 0
  PROVE  LET M == Append(L, CallEvent("tool/not-started", n, m, c)) IN
         /\ LogOK(M, F, U) /\ Stands(M, n, m, P \ {c}, R, n, m)
         /\ CallEvent("tool/not-started", n, m, c) \in Grammar!Events
<1> DEFINE e == CallEvent("tool/not-started", n, m, c)
           M == Append(L, e)
<1>1. L \in Logs /\ Legal(L, F) /\ Asked(L) \subseteq U
  <2>1. L \in Logs /\ Len(L) \in 0 .. Len(L)
    BY DEF LogOK, Logs
  <2>2. SubSeq(L, 1, Len(L)) = L
    BY <2>1, PrefixOf
  <2> QED BY <2>1, <2>2 DEF LogOK
<1>2. Fits(n, m, P, R, n, m) /\ \A x \in Calls : CallLegal(L, P, R, F, x)
  BY <1>1, LegalAt
<1>3. c \in Calls /\ e \in Grammar!Events /\ e.type = "tool/not-started" /\ e.turn = n /\ e.step = m /\ e.calls = {c}
  BY <1>2, EventIs DEF Fits
<1> HIDE DEF e
<1>4. Fits(n, m, P \ {c}, R, n, m)
  BY <1>2, RecoveryAssumption DEF Fits
<1>5. Stands(M, n, m, P \ {c}, R, n, m)
  <2>1. /\ RepairScan(M) = ScanEvent([turn |-> n, step |-> m, pending |-> P, recorded |-> R], e)
        /\ Replay(M) = [ok |-> Grammar!Allowed([openTurn |-> n, openStep |-> m, nextTurn |-> n, nextStep |-> m, pending |-> R], e),
                        trace |-> Grammar!Apply([openTurn |-> n, openStep |-> m, nextTurn |-> n, nextStep |-> m, pending |-> R], e)]
    BY <1>1, <1>3, OneMore
  <2>2. ScanEvent([turn |-> n, step |-> m, pending |-> P, recorded |-> R], e)
        = [turn |-> n, step |-> m, pending |-> P \ {c}, recorded |-> R]
    BY <1>2, <1>3 DEF ScanEvent, Balanced, Fits
  <2>3. Grammar!Allowed([openTurn |-> n, openStep |-> m, nextTurn |-> n, nextStep |-> m, pending |-> R], e)
    BY <1>2, <1>3 DEF Grammar!Allowed, Grammar!NamesOpenStep, Grammar!StepEventTypes, Fits
  <2>4. Grammar!Apply([openTurn |-> n, openStep |-> m, nextTurn |-> n, nextStep |-> m, pending |-> R], e)
        = [openTurn |-> n, openStep |-> m, nextTurn |-> n, nextStep |-> m, pending |-> R]
    BY <1>2, <1>3 DEF Grammar!Apply, Fits
  <2> QED BY <2>1, <2>2, <2>3, <2>4 DEF Stands
<1>6. /\ Asked(M) = Asked(L) \cup (IF e.type = "assistant/message" THEN e.calls ELSE {})
      /\ Recorded(M) = Recorded(L) \cup (IF e.type = "tool/call" THEN e.calls ELSE {})
      /\ NotStarted(M) = NotStarted(L) \cup
                              (IF e.type = "tool/not-started" THEN e.calls ELSE {})
      /\ \A x : Answers(M, x) = Answers(L, x) \cup
                     (IF e.type \in {"tool/result", "tool/not-started"} /\ x \in e.calls
                      THEN {Len(M)} ELSE {})
  BY <1>1, <1>3, CallsAppend
<1> HIDE DEF M
<1>7. ASSUME NEW d \in Calls PROVE CallLegal(M, P \ {c}, R, F, d)
  <2>1. CallLegal(L, P, R, F, d) /\ CallLegal(L, P, R, F, c) /\ R \subseteq P
    BY <1>2, <1>3 DEF Fits
  <2>2. /\ Asked(M) = Asked(L) /\ Recorded(M) = Recorded(L)
        /\ NotStarted(M) = NotStarted(L) \cup {c}
        /\ Answers(M, d) = Answers(L, d) \cup (IF d = c THEN {Len(M)} ELSE {})
    BY <1>3, <1>6
  <2>3. CASE d = c
    BY <1>3, <2>1, <2>2, <2>3 DEF CallLegal
  <2>4. CASE d # c
    BY <1>3, <2>1, <2>2, <2>4 DEF CallLegal
  <2> QED BY <2>3, <2>4
<1>8. Legal(M, F)
  BY <1>4, <1>5, <1>7 DEF Legal
<1>9. LogOK(M, F, U)
  BY <1>3, <1>8, Extend DEF M
<1> QED BY <1>3, <1>5, <1>9 DEF M, e

-----------------------------------------------------------------------------
(* Repair. *)

\* The calls of a set in increasing order: each of them once.
LEMMA Ordered ==
  ASSUME NEW S \in SUBSET Calls
  PROVE  /\ Cardinality(S) \in Nat
         /\ InOrder(S) \in [1 .. Cardinality(S) -> S]
         /\ \A i, j \in 1 .. Cardinality(S) : InOrder(S)[i] = InOrder(S)[j] => i = j
         /\ \A c \in S : \E i \in 1 .. Cardinality(S) : InOrder(S)[i] = c
<1> DEFINE Low(n) == {c \in S : c <= n}
           Up(f) == \A i, j \in DOMAIN f : i < j => f[i] < f[j]
           Good == {n \in 0 .. MaxCalls : \E f \in [1 .. Cardinality(Low(n)) -> Low(n)] : Up(f)}
<1>0. /\ MaxCalls \in Nat /\ S \subseteq 1 .. MaxCalls
      /\ \A c \in S : c \in Nat /\ 1 <= c /\ c <= MaxCalls
  BY MaxCallsAssumption DEF Calls
<1>1. ASSUME NEW T \in SUBSET S PROVE IsFiniteSet(T) /\ Cardinality(T) \in Nat
  <2>1. IsFiniteSet(1 .. MaxCalls)
    BY <1>0, FS_Interval
  <2>2. IsFiniteSet(T)
    BY <1>0, <2>1, FS_Subset
  <2> QED BY <2>2, FS_CardinalityType
<1>2. 0 \in Good
  <2>1. Low(0) = {}
    <3>1. \A c \in S : ~(c <= 0)
      BY <1>0
    <3> QED BY <3>1
  <2>2. Cardinality({}) = 0
    BY FS_EmptySet
  <2> DEFINE f == [i \in 1 .. 0 |-> 0]
  <2>3. f \in [1 .. 0 -> {}] /\ Up(f)
    OBVIOUS
  <2> HIDE DEF f, Up
  <2>4. \E g \in [1 .. Cardinality(Low(0)) -> Low(0)] : Up(g)
    BY <2>1, <2>2, <2>3
  <2> QED BY <1>0, <2>4
<1>3. ASSUME NEW n \in 0 .. MaxCalls - 1, n \in Good PROVE n + 1 \in Good
  <2>1. PICK f \in [1 .. Cardinality(Low(n)) -> Low(n)] : Up(f)
    BY <1>3
  <2> DEFINE k == Cardinality(Low(n))
  <2>2. k \in Nat /\ IsFiniteSet(Low(n))
    BY <1>1
  <2>3. CASE n + 1 \in S
    <3>1. Low(n + 1) = Low(n) \cup {n + 1} /\ n + 1 \notin Low(n)
      <4>1. \A c \in S : c <= n + 1 <=> c <= n \/ c = n + 1
        BY <1>0
      <4>2. n + 1 <= n + 1 /\ ~(n + 1 <= n)
        BY <1>0
      <4> QED BY <2>3, <4>1, <4>2
    <3>2. Cardinality(Low(n + 1)) = k + 1
      <4> HIDE DEF Low
      <4> QED BY <2>2, <3>1, FS_AddElement
    <3> DEFINE g == [i \in 1 .. k + 1 |-> IF i = k + 1 THEN n + 1 ELSE f[i]]
    <3>3. ASSUME NEW i \in 1 .. k PROVE f[i] \in Low(n) /\ f[i] < n + 1 /\ g[i] = f[i]
      <4>1. i # k + 1 /\ i \in 1 .. k + 1
        BY <2>2
      <4>2. f[i] \in S /\ f[i] <= n
        BY <2>1
      <4>3. f[i] \in Nat
        <5> DEFINE y == f[i]
        <5>1. y \in S
          BY <4>2
        <5> HIDE DEF y
        <5>2. y \in Nat
          BY <1>0, <5>1
        <5> QED BY <5>2 DEF y
      <4>4. n \in Nat
        BY <1>0
      <4> QED BY <4>1, <4>2, <4>3, <4>4
    <3>4. g[k + 1] = n + 1
      BY <2>2
    <3>5. g \in [1 .. k + 1 -> Low(n + 1)]
      <4> HIDE DEF Low
      <4>1. ASSUME NEW i \in 1 .. k + 1
            PROVE  (IF i = k + 1 THEN n + 1 ELSE f[i]) \in Low(n + 1)
        <5>1. CASE i = k + 1
          BY <3>1, <5>1
        <5>2. CASE i # k + 1
          <6>1. i \in 1 .. k
            BY <2>2, <5>2
          <6> QED BY <3>1, <3>3, <5>2, <6>1
        <5> QED BY <5>1, <5>2
      <4> QED BY <4>1
    <3>6. Up(g)
      <4> SUFFICES ASSUME NEW i \in 1 .. k + 1, NEW j \in 1 .. k + 1, i < j
                   PROVE  g[i] < g[j]
        OBVIOUS
      <4>1. i \in 1 .. k /\ (j \in 1 .. k \/ j = k + 1)
        BY <2>2
      <4>2. CASE j \in 1 .. k
        <5>1. f[i] < f[j]
          BY <2>1, <4>1, <4>2
        <5> HIDE DEF g
        <5> QED BY <3>3, <4>1, <4>2, <5>1
      <4>3. CASE j = k + 1
        <5> HIDE DEF g
        <5> QED BY <3>3, <3>4, <4>1, <4>3
      <4> QED BY <4>1, <4>2, <4>3
    <3> HIDE DEF g, Up, Low
    <3>7. \E h \in [1 .. Cardinality(Low(n + 1)) -> Low(n + 1)] : Up(h)
      BY <3>2, <3>5, <3>6
    <3> QED BY <1>0, <3>7
  <2>4. CASE n + 1 \notin S
    <3>1. Low(n + 1) = Low(n)
      <4>1. \A c \in S : c <= n + 1 <=> c <= n
        BY <1>0, <2>4
      <4> QED BY <4>1
    <3> HIDE DEF Low, Up
    <3> QED BY <1>0, <2>1, <3>1
  <2> QED BY <2>3, <2>4
<1>4. \E f \in [1 .. Cardinality(S) -> S] : Up(f)
  <2>0. MaxCalls \in 0 .. MaxCalls
    BY <1>0
  <2>1. MaxCalls \in 0 .. MaxCalls /\ Low(MaxCalls) = S
    BY <1>0, <2>0
  <2> HIDE DEF Good
  <2>2. MaxCalls \in Good
    BY <1>0, <1>2, <1>3, <2>1, Climb
  <2> HIDE DEF Up, Low
  <2> QED BY <2>1, <2>2 DEF Good
<1>5. InOrder(S) \in [1 .. Cardinality(S) -> S] /\ Up(InOrder(S))
  BY <1>4 DEF InOrder
<1> DEFINE f == InOrder(S)
           k == Cardinality(S)
<1>6. k \in Nat /\ IsFiniteSet(S)
  BY <1>1
<1>7. ASSUME NEW i \in 1 .. k, NEW j \in 1 .. k, f[i] = f[j] PROVE i = j
  <2>0. DOMAIN f = 1 .. k /\ f[i] \in S /\ f[j] \in S
    BY <1>5
  <2>1. DOMAIN f = 1 .. k /\ f[i] \in Nat /\ f[j] \in Nat
    <3> HIDE DEF f, k
    <3> QED BY <1>0, <2>0
  <2>2. ~(f[i] < f[j]) /\ ~(f[j] < f[i])
    BY <1>7, <2>1
  <2>3. ~(i < j) /\ ~(j < i)
    BY <1>5, <2>1, <2>2
  <2> QED BY <1>6, <2>3
<1> HIDE DEF f, k
<1>8. f \in Injection(1 .. k, S)
  BY <1>5, <1>7 DEF Injection, f, k, IsInjective
<1>9. f \in Surjection(1 .. k, S)
  <2>1. Cardinality(1 .. k) = k
    BY <1>6, FS_Interval
  <2> QED BY <1>6, <1>8, <2>1, FS_Injection DEF k
<1>10. \A c \in S : \E i \in 1 .. k : f[i] = c
  BY <1>9 DEF Surjection
<1> QED BY <1>5, <1>6, <1>7, <1>10 DEF f, k

\* An event appended to the second part is appended to the whole.
LEMMA ConcatAppend ==
  ASSUME NEW L \in Logs, NEW M \in Logs, NEW e \in Grammar!Events
  PROVE  L \o Append(M, e) = Append(L \o M, e) /\ Append(M, e) \in Logs /\ <<e>> \in Logs
<1>1. /\ L \in Seq(Grammar!Events) /\ M \in Seq(Grammar!Events)
      /\ <<e>> \in Seq(Grammar!Events)
  BY DEF Logs
<1>2. L \o M \in Seq(Grammar!Events)
  BY <1>1, ConcatProperties
<1>3. Append(M, e) = M \o <<e>> /\ Append(M, e) \in Seq(Grammar!Events)
  BY <1>1, AppendIsConcat, AppendProperties
<1>4. Append(L \o M, e) = (L \o M) \o <<e>>
  BY <1>2, AppendIsConcat
<1> DEFINE w == <<e>>
<1> HIDE DEF w
<1>5. (L \o M) \o w = L \o (M \o w)
  BY <1>1, ConcatAssociative DEF w
<1> QED BY <1>1, <1>3, <1>4, <1>5 DEF w, Logs

\* A well-formed log, and where it stands.
LEMMA LogFacts ==
  ASSUME NEW L, NEW F, NEW U, LogOK(L, F, U)
  PROVE  /\ L \in Logs /\ Legal(L, F) /\ Asked(L) \subseteq U
         /\ \E n, m, P, R, nn, nm :
              /\ Stands(L, n, m, P, R, nn, nm) /\ Fits(n, m, P, R, nn, nm)
              /\ RepairScan(L).turn = n
<1>1. L \in Logs /\ Len(L) \in 0 .. Len(L)
  BY DEF LogOK, Logs
<1>2. SubSeq(L, 1, Len(L)) = L
  BY <1>1, PrefixOf
<1>3. Legal(L, F) /\ Asked(L) \subseteq U
  BY <1>1, <1>2 DEF LogOK
<1>4. PICK n, m, P, R, nn, nm : Stands(L, n, m, P, R, nn, nm) /\ Fits(n, m, P, R, nn, nm)
  BY <1>3 DEF Legal
<1>5. RepairScan(L).turn = n
  BY <1>4 DEF Stands
<1> QED BY <1>1, <1>3, <1>4, <1>5

\* Calls that failed since, and calls asked for since, change nothing.
LEMMA LogLater ==
  ASSUME NEW L, NEW F, NEW U, LogOK(L, F, U), NEW F2, F \subseteq F2, NEW U2, U \subseteq U2
  PROVE  LogOK(L, F2, U2)
<1>1. ASSUME NEW p, Legal(p, F) PROVE Legal(p, F2)
  <2>1. PICK n, m, P, R, nn, nm :
          /\ Stands(p, n, m, P, R, nn, nm) /\ Fits(n, m, P, R, nn, nm)
          /\ \A c \in Calls : CallLegal(p, P, R, F, c)
    BY <1>1 DEF Legal
  <2>2. \A c \in Calls : CallLegal(p, P, R, F2, c)
    BY <2>1 DEF CallLegal
  <2> QED BY <2>1, <2>2 DEF Legal
<1> QED BY <1>1 DEF LogOK

\* What a crash leaves of a well-formed log is well-formed.
LEMMA LogPrefix ==
  ASSUME NEW L, NEW F, NEW U, LogOK(L, F, U), NEW p \in Logs, IsPrefix(p, L)
  PROVE  LogOK(p, F, U) /\ Asked(p) \subseteq Asked(L) /\ Recorded(p) \subseteq Recorded(L)
<1>1. /\ L \in Logs /\ Len(L) \in Nat /\ Len(p) \in 0 .. Len(L) /\ p = SubSeq(L, 1, Len(p))
      /\ \A i \in 1 .. Len(p) : p[i] = L[i]
      /\ DOMAIN p = 1 .. Len(p) /\ DOMAIN L = 1 .. Len(L)
  BY PrefixFacts DEF LogOK, Logs
<1>2. \A k \in 0 .. Len(p) : SubSeq(p, 1, k) = SubSeq(L, 1, k) /\ k \in 0 .. Len(L)
  BY <1>1, PrefixOf
<1>3. Asked(p) \subseteq Asked(L) /\ Recorded(p) \subseteq Recorded(L)
  <2>1. \A i \in DOMAIN p : i \in DOMAIN L /\ p[i] = L[i]
    BY <1>1
  <2> QED BY <2>1 DEF Asked, Recorded
<1> QED BY <1>1, <1>2, <1>3 DEF LogOK

\* The answers repair gives to the pending calls.
AnswersOf(s, order) == [i \in DOMAIN order |-> Answer(s, order[i])]

\* interruptedTurnClosers answers the pending calls one by one: the log stays
\* legal, and afterwards nobody waits for an answer.
LEMMA Answering ==
  ASSUME NEW L, NEW F, NEW U, LogOK(L, F, U),
         NEW n, NEW m, NEW P, NEW R, NEW nm, Stands(L, n, m, P, R, n, nm), n # 0,
         NEW k \in Nat, NEW order \in [1 .. k -> P],
         \A i, j \in 1 .. k : order[i] = order[j] => i = j,
         \A c \in P : \E i \in 1 .. k : order[i] = c
  PROVE  LET answers == AnswersOf(RepairScan(L), order) IN
         /\ answers \in Logs
         /\ LogOK(L \o answers, F, U)
         /\ Stands(L \o answers, n, m, {}, {}, n, nm)
<1> DEFINE s == RepairScan(L)
           A == AnswersOf(RepairScan(L), order)
           Done(i) == {order[j] : j \in 1 .. i}
           Good == {i \in 0 .. k : /\ LogOK(L \o SubSeq(A, 1, i), F, U)
                                   /\ Stands(L \o SubSeq(A, 1, i), n, m, P \ Done(i), R \ Done(i), n, nm)}
<1>1. L \in Logs /\ Fits(n, m, P, R, n, nm)
  BY LogFacts, LegalAt
<1>2. s.turn = n /\ s.step = m /\ s.recorded = R
  BY DEF Stands
<1>3. P \in SUBSET Calls /\ R \subseteq P /\ n \in Nat /\ m \in Nat
  BY <1>1, RecoveryAssumption DEF Fits
<1>4. ASSUME NEW i \in 1 .. k
      PROVE  /\ A[i] = CallEvent(IF order[i] \in R THEN "tool/result" ELSE "tool/not-started",
                                 n, m, order[i])
             /\ A[i] \in Grammar!Events
  <2>1. order[i] \in Calls /\ i \in DOMAIN order
    BY <1>3
  <2>2. A[i] = Answer(s, order[i])
    BY <2>1 DEF AnswersOf
  <2> HIDE DEF A
  <2>3. A[i] = CallEvent(IF order[i] \in R THEN "tool/result" ELSE "tool/not-started",
                                 n, m, order[i])
    BY <1>2, <2>2 DEF Answer
  <2>4. (IF order[i] \in R THEN "tool/result" ELSE "tool/not-started") \in Grammar!EventTypes
    BY EventIs
  <2> DEFINE ty == IF order[i] \in R THEN "tool/result" ELSE "tool/not-started"
  <2> HIDE DEF ty
  <2>5. CallEvent(ty, n, m, order[i]) \in Grammar!Events
    BY <1>3, <2>1, <2>4, EventIs DEF ty
  <2> QED BY <2>3, <2>5 DEF ty
<1>5. A \in Logs /\ Len(A) = k
  <2>1. A = [i \in 1 .. k |-> A[i]]
    BY DEF AnswersOf
  <2> HIDE DEF A
  <2>2. A \in Seq(Grammar!Events) /\ Len(A) = k
    BY <1>4, <2>1
  <2> QED BY <2>2 DEF Logs
<1> HIDE DEF A
<1>6. 0 \in Good
  <2>1. SubSeq(A, 1, 0) = <<>>
    BY SubSeqEmpty
  <2>2. L \o <<>> = L
    BY <1>1, ConcatEmptySeq DEF Logs
  <2>3. Done(0) = {}
    OBVIOUS
  <2>4. P \ {} = P /\ R \ {} = R
    OBVIOUS
  <2> HIDE DEF Done
  <2>5. /\ LogOK(L \o SubSeq(A, 1, 0), F, U)
        /\ Stands(L \o SubSeq(A, 1, 0), n, m, P \ Done(0), R \ Done(0), n, nm)
    BY <2>1, <2>2, <2>3, <2>4
  <2>6. 0 \in 0 .. k
    OBVIOUS
  <2> QED BY <2>5, <2>6
<1>7. ASSUME NEW i \in 0 .. k - 1, i \in Good PROVE i + 1 \in Good
  <2> DEFINE c == order[i + 1]
             M == L \o SubSeq(A, 1, i)
  <2>1. i + 1 \in 1 .. k /\ i \in 0 .. Len(A) /\ i + 1 \in 1 .. Len(A) /\ i + 1 \in 0 .. k
    BY <1>5
  <2>2. L \o SubSeq(A, 1, i + 1) = Append(M, A[i + 1])
    <3>1. SubSeq(A, 1, i) \in Logs /\ A[i + 1] \in Grammar!Events
      BY <1>4, <1>5, <2>1, PrefixOf
    <3>2. SubSeq(A, 1, i + 1) = Append(SubSeq(A, 1, i), A[i + 1])
      <4>1. 1 \in 1 .. Len(A) /\ (i + 1) - 1 = i /\ i + 1 \in 1 .. Len(A)
        BY <2>1, <1>5
      <4>2. SubSeq(A, 1, i + 1) = SubSeq(A, 1, (i + 1) - 1) \o <<A[i + 1]>>
        BY <1>5, <4>1, SubSeqRecursiveSecond DEF Logs
      <4> QED BY <3>1, <4>1, <4>2, AppendIsConcat DEF Logs
    <3> QED BY <1>1, <3>1, <3>2, ConcatAppend
  <2>3. LogOK(M, F, U) /\ Stands(M, n, m, P \ Done(i), R \ Done(i), n, nm)
    BY <1>7
  <2>4. c \in P /\ c \notin Done(i) /\ Done(i + 1) = Done(i) \cup {c}
    <3>1. c \in P
      BY <2>1
    <3>2. c \notin Done(i)
      BY <2>1
    <3>3. \A j : j \in 1 .. i + 1 <=> j \in 1 .. i \/ j = i + 1
      BY <2>1
    <3> QED BY <3>1, <3>2, <3>3
  <2> HIDE DEF Done, M
  <2>5. m # 0 /\ nm = m
    BY <1>1, <2>4 DEF Fits
  <2>6. /\ LogOK(Append(M, A[i + 1]), F, U)
        /\ Stands(Append(M, A[i + 1]), n, m, P \ Done(i + 1), R \ Done(i + 1), n, nm)
    <3>1. CASE c \in R
      <4>1. A[i + 1] = CallEvent("tool/result", n, m, c) /\ c \in R \ Done(i)
        BY <1>4, <2>1, <2>4, <3>1
      <4>2. /\ LogOK(Append(M, CallEvent("tool/result", n, m, c)), F, U)
            /\ Stands(Append(M, CallEvent("tool/result", n, m, c)), n, m, (P \ Done(i)) \ {c}, (R \ Done(i)) \ {c}, n, m)
        <5> HIDE DEF c
        <5> QED BY <2>3, <2>5, <4>1, CallAnswered
      <4>3. (P \ Done(i)) \ {c} = P \ Done(i + 1) /\ (R \ Done(i)) \ {c} = R \ Done(i + 1)
        BY <2>4
      <4> QED BY <2>5, <4>1, <4>2, <4>3
    <3>2. CASE c \notin R
      <4>1. A[i + 1] = CallEvent("tool/not-started", n, m, c) /\ c \in P \ Done(i) /\ c \notin R \ Done(i)
        BY <1>4, <2>1, <2>4, <3>2
      <4>2. /\ LogOK(Append(M, CallEvent("tool/not-started", n, m, c)), F, U)
            /\ Stands(Append(M, CallEvent("tool/not-started", n, m, c)), n, m, (P \ Done(i)) \ {c}, R \ Done(i), n, m)
        <5> HIDE DEF c
        <5> QED BY <2>3, <2>5, <4>1, CallNotStarted
      <4>3. (P \ Done(i)) \ {c} = P \ Done(i + 1) /\ R \ Done(i) = R \ Done(i + 1)
        BY <2>4, <3>2
      <4> QED BY <2>5, <4>1, <4>2, <4>3
    <3> QED BY <3>1, <3>2
  <2> QED BY <2>1, <2>2, <2>6
<1>8. k \in Good
  <2>1. k \in 0 .. k
    OBVIOUS
  <2> HIDE DEF Good
  <2> QED BY <1>6, <1>7, <2>1, Climb
<1>9. SubSeq(A, 1, k) = A
  BY <1>5, SubSeqFull DEF Logs
<1>10. P \ Done(k) = {} /\ R \ Done(k) = {}
  BY <1>3
<1> HIDE DEF Done
<1>11. LogOK(L \o A, F, U) /\ Stands(L \o A, n, m, {}, {}, n, nm)
  BY <1>8, <1>9, <1>10
<1> QED BY <1>5, <1>11 DEF A

\* Appending is associative.
LEMMA LogAssoc ==
  \A A, B, C \in Logs : A \o (B \o C) = (A \o B) \o C /\ A \o B \in Logs
BY ConcatAssociative, ConcatProperties DEF Logs

\* A cut log followed by its closers is legal again, and has no turn open.
LEMMA Closers ==
  ASSUME NEW L, NEW F, NEW U, LogOK(L, F, U)
  PROVE  LET closers == interruptedTurnClosers(L) IN
         /\ closers \in Logs
         /\ LogOK(L \o closers, F, U) /\ RepairScan(L \o closers).turn = 0
         /\ closers = <<>> <=> RepairScan(L).turn = 0
<1> DEFINE s == RepairScan(L)
           closers == interruptedTurnClosers(L)
<1>1. L \in Logs
  BY LogFacts
<1>2. PICK n, m, P, R, nn, nm :
        Stands(L, n, m, P, R, nn, nm) /\ Fits(n, m, P, R, nn, nm) /\ s.turn = n
  BY LogFacts
<1>3. s.turn = n /\ s.step = m /\ s.pending = P
  BY <1>2 DEF Stands
<1>4. CASE n = 0
  <2>1. closers = <<>>
    BY <1>3, <1>4 DEF interruptedTurnClosers
  <2>2. L \o <<>> = L /\ <<>> \in Logs
    BY <1>1, ConcatEmptySeq, EmptySeq DEF Logs
  <2> HIDE DEF closers
  <2> QED BY <1>3, <1>4, <2>1, <2>2 DEF closers
<1>5. CASE n # 0
  <2> DEFINE order == InOrder(P)
             answers == AnswersOf(RepairScan(L), order)
             stepEnd == IF m = 0 THEN <<>> ELSE <<Event("step/end", n, m)>>
             turnEnd == <<Event("turn/end", n, 0)>>
             A == L \o answers
             B == A \o stepEnd
  <2>1. closers = (answers \o stepEnd) \o turnEnd
    BY <1>3, <1>5 DEF interruptedTurnClosers, AnswersOf
  <2>2. nn = n /\ n \in Nat /\ m \in Nat /\ P \in SUBSET Calls
    BY <1>2, <1>5, RecoveryAssumption DEF Fits
  <2>3. answers \in Logs /\ LogOK(A, F, U) /\ Stands(A, n, m, {}, {}, n, nm)
    <3>1. /\ Cardinality(P) \in Nat
          /\ order \in [1 .. Cardinality(P) -> P]
          /\ \A i, j \in 1 .. Cardinality(P) : order[i] = order[j] => i = j
          /\ \A c \in P : \E i \in 1 .. Cardinality(P) : order[i] = c
      BY <2>2, Ordered
    <3> HIDE DEF order
    <3>2. Stands(L, n, m, P, R, n, nm)
      BY <1>2, <2>2
    <3> DEFINE k == Cardinality(P)
    <3>3. /\ k \in Nat /\ order \in [1 .. k -> P]
          /\ \A i, j \in 1 .. k : order[i] = order[j] => i = j
          /\ \A c \in P : \E i \in 1 .. k : order[i] = c
      BY <3>1
    <3> HIDE DEF k, A, B, stepEnd, turnEnd
    <3>4. /\ answers \in Logs /\ LogOK(L \o answers, F, U)
          /\ Stands(L \o answers, n, m, {}, {}, n, nm)
      BY <1>5, <3>2, <3>3, Answering
    <3> QED BY <3>4 DEF A
  <2>4. /\ Event("step/end", n, m) \in Grammar!Events
        /\ Event("turn/end", n, 0) \in Grammar!Events
    BY <2>2, EventIs
  <2>5. stepEnd \in Logs /\ turnEnd \in Logs
    BY <1>1, <2>3, <2>4, ConcatAppend, EmptySeq DEF Logs
  <2> HIDE DEF answers, order
  <2>6. A \in Logs
    BY <2>3, LogFacts
  <2>7. LogOK(B, F, U) /\ \E nm2 : Stands(B, n, 0, {}, {}, n, nm2)
    <3>1. CASE m = 0
      <4>1. B = A
        BY <2>6, <3>1, ConcatEmptySeq DEF Logs
      <4> QED BY <2>3, <3>1, <4>1
    <3>2. CASE m # 0
      <4>1. B = Append(A, Event("step/end", n, m))
        BY <2>4, <2>6, <3>2, AppendIsConcat DEF Logs
      <4>2. nm = m
        BY <1>2, <3>2 DEF Fits
      <4>3. {} \subseteq F
        OBVIOUS
      <4> HIDE DEF A, B
      <4>4. /\ LogOK(Append(A, Event("step/end", n, m)), F, U)
            /\ Stands(Append(A, Event("step/end", n, m)), n, 0, {}, {}, n, m + 1)
        BY <2>3, <3>2, <4>2, <4>3, StepEnds
      <4> QED BY <4>1, <4>4
    <3> QED BY <3>1, <3>2
  <2>8. B \in Logs
    BY <2>7, LogFacts
  <2>9. L \o closers = B \o turnEnd
    <3> HIDE DEF closers, stepEnd, turnEnd
    <3>1. answers \o stepEnd \in Logs
      BY <2>3, <2>5, ConcatPrefix
    <3>2. L \o ((answers \o stepEnd) \o turnEnd) = (L \o (answers \o stepEnd)) \o turnEnd
      BY <1>1, <2>5, <3>1, LogAssoc
    <3>3. L \o (answers \o stepEnd) = (L \o answers) \o stepEnd
      BY <1>1, <2>3, <2>5, LogAssoc
    <3> QED BY <2>1, <3>2, <3>3
  <2> HIDE DEF A, B
  <2>10. B \o turnEnd = Append(B, Event("turn/end", n, 0))
    BY <2>4, <2>8, AppendIsConcat DEF Logs
  <2>11. /\ LogOK(L \o closers, F, U) /\ \E nm2 : Stands(L \o closers, 0, 0, {}, {}, n + 1, nm2)
    <3>1. PICK nm2 : Stands(B, n, 0, {}, {}, n, nm2)
      BY <2>7
    <3>2. /\ LogOK(Append(B, Event("turn/end", n, 0)), F, U)
          /\ Stands(Append(B, Event("turn/end", n, 0)), 0, 0, {}, {}, n + 1, nm2)
      BY <1>5, <2>7, <3>1, TurnEnds
    <3> QED BY <2>9, <2>10, <3>2
  <2>12. RepairScan(L \o closers).turn = 0
    BY <2>11 DEF Stands
  <2>13. closers \in Logs /\ closers # <<>>
    <3>1. answers \o stepEnd \in Logs
      BY <2>3, <2>5, ConcatPrefix
    <3>2. /\ (answers \o stepEnd) \o turnEnd \in Logs
          /\ Len((answers \o stepEnd) \o turnEnd) = Len(answers \o stepEnd) + Len(turnEnd)
          /\ Len(answers \o stepEnd) \in Nat
      BY <2>5, <3>1, ConcatPrefix DEF Logs
    <3>3. Len(turnEnd) = 1
      OBVIOUS
    <3>4. Len(closers) # 0
      BY <2>1, <3>2, <3>3
    <3> QED BY <2>1, <3>2, <3>4, EmptySeq
  <2> QED BY <1>3, <1>5, <2>11, <2>12, <2>13
<1> QED BY <1>4, <1>5

-----------------------------------------------------------------------------
(* The inductive invariant. *)

Failed == {c \in Calls : stage[c] = "failed"}
Used == {c \in Calls : stage[c] # "new"}
InStep == {c \in Calls : stage[c] \in {"asked", "checkpoint", "running", "throwing"}}
Begun == {c \in Calls : stage[c] \in {"checkpoint", "running", "throwing"}}

\* What a session is kept in, in memory.
Memory ==
  /\ compression \in Compressions /\ entry \in {"none", "linked", "durable"}
  /\ upsets \in 0 .. MaxUpsets
  /\ live \in Logs /\ acked \in Logs
  /\ up \in BOOLEAN /\ stored \in BOOLEAN /\ cancelled \in BOOLEAN
  /\ flush \in [Checkpoints -> {"none", "wait", "ok", "failed"}]
  /\ want \in [Checkpoints -> Nat]
  /\ at \in Places /\ turn \in 0 .. MaxTurns /\ step \in Nat
  /\ stage \in [Calls -> CallStages] /\ ran \subseteq Calls
  /\ requested \subseteq (1 .. MaxTurns) \X (1 .. MaxCalls + 1)

\* An operation's lines are numbered from where they belong.
Operation ==
  /\ op \in [kind : Kinds, stage : Stages, lines : Seq(Line), before : Nat]
  /\ EventsOf(op.lines) \in Logs
  /\ op.lines = Lines(EventsOf(op.lines), op.before)

\* A file can be read, what was acknowledged is beyond the reach of a torn
\* batch, and what is read is a legal log.
Kept(f, comp, L, F, U) ==
  /\ Readable(f) /\ Len(L) <= Sure(f, comp)
  /\ IsPrefix(L, StoredEvents(f)) /\ LogOK(StoredEvents(f), F, U)

\* Both are true of the file and of what is on the disk; only a crash leaves
\* more than one fragment, and then both are the same.
Files ==
  /\ Kept(file, compression, acked, Failed, Used)
  /\ Kept(media, compression, acked, Failed, Used)
  /\ file = media \/ Len(file) <= committed(file) + 1

\* The first b events of the file are on the disk too.
Backed(b, f, m, comp) ==
  /\ b \in 0 .. committed(f) /\ b <= Sure(m, comp)
  /\ SubSeq(StoredEvents(m), 1, b) = SubSeq(StoredEvents(f), 1, b)

\* The file is its events, and they are these.
Holds(f, L) == Whole(f) /\ StoredEvents(f) = L

\* A batch of the controller holds the next events of the session.
Batch ==
  /\ up /\ op.before = Len(acked)
  /\ IsPrefix(acked \o EventsOf(op.lines), live)

Appending ==
  op.kind = "append" =>
    /\ Batch /\ stored
    /\ op.stage \in {"write", "sync", "close", "undo", "undone", "ok", "failed"}
    /\ op.stage \in {"write", "undone", "failed"} => Holds(file, acked)
    /\ op.stage \in {"sync", "close", "ok"} => Holds(file, acked \o EventsOf(op.lines))
    /\ op.stage \in {"close", "ok"} => media = file

Creating ==
  op.kind = "create" =>
    /\ Batch /\ ~stored
    /\ op.stage \in {"temp", "link", "syncdir", "ok", "failed", "refused"}
    /\ op.stage = "link" => entry = "none"
    /\ op.stage \in {"syncdir", "ok"} => file = op.lines /\ media = file
    /\ op.stage = "syncdir" => entry = "linked"
    /\ op.stage = "ok" => entry = "durable"

\* The log a repair is to leave.
Target(f, o) == SubSeq(StoredEvents(f), 1, o.before) \o EventsOf(o.lines)

Repairing ==
  op.kind = "repair" =>
    /\ ~up /\ entry = "durable"
    /\ op.stage \in {"truncate", "truncated", "write", "sync", "close", "undo", "undone",
                     "ok", "failed"}
    /\ op.stage \in {"truncate", "truncated", "write"} =>
         LogOK(Target(file, op), Failed, Used) /\ RepairScan(Target(file, op)).turn = 0
    /\ op.stage = "truncate" => op.before = Sure(file, compression)
    /\ op.stage \in {"truncated", "write", "undone"} => Whole(file) /\ Len(file) = op.before
    /\ op.stage \in {"sync", "close", "ok"} =>
         Whole(file) /\ RepairScan(StoredEvents(file)).turn = 0
    /\ op.stage \in {"close", "ok"} => media = file
    /\ op.stage \notin {"close", "ok", "failed"} =>
         Backed(op.before, file, media, compression) /\ Len(acked) <= op.before
    /\ op.stage = "failed" => Backed(Sure(file, compression), file, media, compression)

Disk ==
  /\ entry = "none" => file = <<>> /\ media = <<>>
  /\ entry = "linked" => up /\ ~stored
  /\ ~stored => acked = <<>>
  /\ stored /\ up => entry = "durable"
  /\ up /\ stored /\ op.kind = "none" => Holds(file, acked)
  /\ ~up /\ op.kind = "none" => Backed(Sure(file, compression), file, media, compression)
  /\ ~up => op.kind \in {"none", "repair"}
  /\ op.kind = "none" => op = NoOp

\* What took effect is named by an acknowledged event.
Effects ==
  /\ \A r \in requested : \E i \in DOMAIN acked : acked[i] = Event("request/header", r[1], r[2])
  /\ ran \subseteq Recorded(acked)
  /\ up => IsPrefix(acked, live)
  /\ \A k \in Checkpoints : want[k] <= Len(live) /\ (flush[k] = "ok" => want[k] <= Len(acked))
  /\ at = "request" => want[0] # 0 /\ live[want[0]] = Event("request/header", turn, step)
  /\ \A c \in Calls : stage[c] = "checkpoint" => want[c] # 0 /\ live[want[c]] = CallLogged(c)

Position ==
  /\ LogOK(live, Failed, Used)
  /\ ~up => live = <<>> /\ at = "idle"
  /\ at = "idle" => step = 0 /\ (up => \E nm : Stands(live, 0, 0, {}, {}, turn + 1, nm))
  /\ at # "idle" => turn # 0
  /\ at = "pre-step" => Stands(live, turn, 0, {}, {}, turn, step + 1)
  /\ at \in {"building", "request", "streaming"} =>
       step # 0 /\ Stands(live, turn, step, {}, {}, turn, step)
  /\ at = "tools" => step # 0 /\ Stands(live, turn, step, InStep, Begun, turn, step)
  /\ at # "tools" => InStep = {}

\* Calls are used in order, at least one by every step but the open one.
Steps ==
  \E k \in 0 .. MaxCalls :
    /\ Used = 1 .. k
    /\ step <= k + (IF at \in {"building", "request", "streaming"} THEN 1 ELSE 0)

Storage == Appending /\ Creating /\ Repairing /\ Disk
IInv == Memory /\ Operation /\ Files /\ Storage /\ Effects /\ Position /\ Steps
-----------------------------------------------------------------------------
(* A file between two operations. *)

\* There are two encodings.
LEMMA Comp == compression \in Compressions => compression \in {"none", "zstd"}
BY JsonlAssumption

\* A file cut back to one of its lines.
LEMMA CutKept ==
  ASSUME NEW f, NEW comp, NEW L \in Logs, NEW F, NEW U, Kept(f, comp, L, F, U),
         NEW k \in 0 .. committed(f), Len(L) <= k
  PROVE  LET g == SubSeq(f, 1, k) IN
         /\ Kept(g, comp, L, F, U) /\ Whole(g) /\ Len(g) = k
         /\ StoredEvents(g) = SubSeq(StoredEvents(f), 1, k)
<1> DEFINE g == SubSeq(f, 1, k)
<1>1. Readable(f) /\ IsPrefix(L, StoredEvents(f)) /\ LogOK(StoredEvents(f), F, U)
  BY DEF Kept
<1>2. StoredEvents(f) \in Logs /\ Len(StoredEvents(f)) = committed(f)
  BY <1>1, ReadableFacts
<1>3. /\ Readable(g) /\ Whole(g) /\ Len(g) = k /\ committed(g) = k
      /\ StoredEvents(g) = SubSeq(StoredEvents(f), 1, k)
  BY <1>1, CutShort
<1>4. Sure(g, comp) = k
  BY <1>3, SureFacts
<1>5. /\ StoredEvents(g) \in Logs /\ Len(StoredEvents(g)) = k
      /\ IsPrefix(StoredEvents(g), StoredEvents(f))
  <2>1. k \in 0 .. Len(StoredEvents(f))
    BY <1>2
  <2>2. LET P == SubSeq(StoredEvents(f), 1, k) IN
        P \in Logs /\ Len(P) = k /\ IsPrefix(P, StoredEvents(f))
    BY <1>2, <2>1, PrefixOf
  <2> QED BY <1>3, <2>2
<1>6. IsPrefix(L, StoredEvents(g))
  BY <1>1, <1>2, <1>5, PrefixChain
<1>7. LogOK(StoredEvents(g), F, U)
  BY <1>1, <1>5, LogPrefix
<1> QED BY <1>3, <1>4, <1>6, <1>7 DEF Kept

\* A batch written to the end of a file without fragments.
LEMMA WriteKept ==
  ASSUME NEW f, NEW L \in Logs, NEW F, NEW U, NEW comp, Kept(f, comp, L, F, U),
         Whole(f), NEW E \in Logs, LogOK(StoredEvents(f) \o E, F, U)
  PROVE  LET g == f \o Lines(E, Len(f)) IN
         /\ Kept(g, comp, L, F, U) /\ Whole(g) /\ StoredEvents(g) = StoredEvents(f) \o E
         /\ committed(f) = Len(StoredEvents(f)) /\ Len(f) = committed(f)
<1> DEFINE g == f \o Lines(E, Len(f))
<1>1. Readable(f) /\ IsPrefix(L, StoredEvents(f)) /\ Len(L) <= Sure(f, comp)
  BY DEF Kept
<1>2. /\ StoredEvents(f) \in Logs /\ Len(StoredEvents(f)) = committed(f)
      /\ committed(f) = Len(f) /\ Len(f) \in Nat /\ Sure(f, comp) = Len(f)
  BY <1>1, ReadableFacts, SureFacts DEF Whole
<1>3. Readable(g) /\ Whole(g) /\ Len(g) = Len(f) + Len(E) /\ StoredEvents(g) = StoredEvents(f) \o E
  BY <1>1, WriteWhole
<1>4. Sure(g, comp) = Len(g)
  BY <1>3, SureFacts
<1>5. Len(L) \in Nat /\ Len(E) \in Nat
  BY DEF Logs
<1>6. Len(L) <= Sure(g, comp)
  BY <1>1, <1>2, <1>3, <1>4, <1>5
<1>7. IsPrefix(L, StoredEvents(g))
  BY <1>1, <1>2, <1>3, ConcatPrefix, PrefixChain
<1> QED BY <1>2, <1>3, <1>6, <1>7 DEF Kept

\* What a failed write of that batch leaves.
LEMMA CutWrite ==
  ASSUME NEW f, NEW L \in Logs, NEW F, NEW U, Kept(f, compression, L, F, U),
         compression \in {"none", "zstd"},
         Whole(f), NEW E \in Logs, LogOK(StoredEvents(f) \o E, F, U),
         NEW g \in Cuts(f \o Lines(E, Len(f)), Len(f))
  PROVE  /\ Kept(g, compression, L, F, U)
         /\ Len(g) <= committed(g) + 1
         /\ Len(f) <= committed(g)
         /\ SubSeq(StoredEvents(g), 1, Len(f)) = StoredEvents(f)
<1> DEFINE w == f \o Lines(E, Len(f))
<1>1. /\ Kept(w, compression, L, F, U) /\ Whole(w) /\ StoredEvents(w) = StoredEvents(f) \o E
      /\ committed(f) = Len(StoredEvents(f)) /\ Len(f) = committed(f)
  BY WriteKept
<1>2. Readable(f) /\ IsPrefix(L, StoredEvents(f)) /\ Len(L) <= Sure(f, compression)
  BY DEF Kept
<1>3. /\ StoredEvents(f) \in Logs /\ Len(f) \in Nat /\ Sure(f, compression) = Len(f)
  BY <1>2, ReadableFacts, SureFacts
<1>4. Readable(w) /\ Len(w) = Len(f) + Len(E) /\ LogOK(StoredEvents(w), F, U)
  BY <1>1, <1>2, WriteWhole DEF Kept
<1>5. Len(E) \in Nat /\ Len(L) \in Nat
  BY DEF Logs
<1>6. Len(f) \in 0 .. Len(w) /\ Len(w) \in Nat
  BY <1>3, <1>4, <1>5
<1>7. Sure(w, compression) = Len(w) /\ committed(w) = Len(w)
  BY <1>1, <1>4, SureFacts DEF Whole
<1> HIDE DEF w
<1>8. /\ Readable(g) /\ Len(f) <= Sure(g, compression)
      /\ IsPrefix(StoredEvents(g), StoredEvents(w))
      /\ Len(g) <= committed(g) + 1
  <2>1. Len(f) \in 0 .. Len(f) /\ Len(f) <= Sure(w, compression)
    BY <1>3, <1>6, <1>7
  <2>2. Len(w) <= committed(w) + 1
    BY <1>6, <1>7
  <2>3. g \in Cuts(w, Len(f))
    BY DEF w
  <2> QED BY <1>1, <1>4, <1>6, <2>1, <2>2, <2>3, CutsRead
<1>9. /\ StoredEvents(g) \in Logs /\ Len(StoredEvents(g)) = committed(g) /\ committed(g) \in Nat
      /\ Sure(g, compression) \in 0 .. committed(g)
  BY <1>8, ReadableFacts, SureFacts
<1>10. Len(f) <= committed(g) /\ Len(L) <= Sure(g, compression)
  BY <1>2, <1>3, <1>5, <1>8, <1>9
<1>11. StoredEvents(w) \in Logs /\ IsPrefix(StoredEvents(f), StoredEvents(w))
  BY <1>1, <1>3, ConcatPrefix
<1>12. IsPrefix(StoredEvents(f), StoredEvents(g))
  BY <1>1, <1>3, <1>8, <1>9, <1>10, <1>11, PrefixChain
<1>13. IsPrefix(L, StoredEvents(g))
  BY <1>2, <1>3, <1>9, <1>12, PrefixChain
<1>14. LogOK(StoredEvents(g), F, U)
  BY <1>4, <1>8, <1>9, LogPrefix
<1>15. SubSeq(StoredEvents(g), 1, Len(f)) = StoredEvents(f)
  BY <1>1, <1>3, <1>9, <1>12, PrefixFacts
<1> QED BY <1>8, <1>10, <1>13, <1>14, <1>15 DEF Kept

\* A file written at once.
LEMMA NewKept ==
  ASSUME NEW E, NEW F, NEW U, LogOK(E, F, U), NEW comp
  PROVE  Kept(Lines(E, 0), comp, <<>>, F, U) /\ Holds(Lines(E, 0), E)
<1>1. E \in Logs /\ <<>> \in Logs
  BY LogFacts, EmptyLegal
<1>2. /\ Readable(Lines(E, 0)) /\ Whole(Lines(E, 0)) /\ StoredEvents(Lines(E, 0)) = E
      /\ Len(Lines(E, 0)) = Len(E)
  BY <1>1, WholeIsLines
<1>3. Len(<<>>) = 0 /\ Len(E) \in Nat
  BY <1>1 DEF Logs
<1>4. Sure(Lines(E, 0), comp) = Len(E)
  BY <1>2, SureFacts
<1>5. IsPrefix(<<>>, E)
  BY <1>1, <1>3, PrefixFacts, PrefixOf
<1> QED BY <1>2, <1>3, <1>4, <1>5 DEF Kept, Holds

\* A stage is entered; the rest of the operation stays.
LEMMA StageIs ==
  ASSUME Operation, NEW s \in Stages, Stage(s)
  PROVE  /\ Operation'
         /\ op'.kind = op.kind /\ op'.lines = op.lines /\ op'.before = op.before
         /\ op'.stage = s
<1>1. op \in [kind : Kinds, stage : Stages, lines : Seq(Line), before : Nat]
  BY DEF Operation
<1>2. op' = [op EXCEPT !.stage = s]
  BY DEF Stage
<1>3. /\ op' \in [kind : Kinds, stage : Stages, lines : Seq(Line), before : Nat]
      /\ op'.kind = op.kind /\ op'.lines = op.lines /\ op'.before = op.before
      /\ op'.stage = s
  BY <1>1, <1>2
<1> QED BY <1>3 DEF Operation

-----------------------------------------------------------------------------
(* The file system calls. *)

\* What a call leaves alone.
Aside == UNCHANGED <<memory, effects, up, acked, stored, compression>>

\* A call of the file system leaves the loop alone, and what it remembers.
LEMMA AsideKeeps ==
  ASSUME IInv, Aside
  PROVE  /\ Effects' /\ Position' /\ Steps'
         /\ Failed' = Failed /\ Used' = Used
<1>1. /\ live' = live /\ flush' = flush /\ want' = want /\ at' = at /\ turn' = turn
      /\ step' = step /\ stage' = stage /\ cancelled' = cancelled
      /\ requested' = requested /\ ran' = ran /\ up' = up /\ acked' = acked
  BY DEF Aside, memory, effects
<1>2. Failed' = Failed /\ Used' = Used /\ InStep' = InStep /\ Begun' = Begun
  BY <1>1 DEF Failed, Used, InStep, Begun
<1>3. Effects'
  BY <1>1 DEF IInv, Effects, CallLogged
<1>4. Position'
  BY <1>1, <1>2 DEF IInv, Position
<1>5. Steps'
  BY <1>1, <1>2 DEF IInv, Steps
<1> QED BY <1>2, <1>3, <1>4, <1>5

\* The operation in progress, by the stage it is in.
LEMMA KindIs ==
  ASSUME IInv
  PROVE  /\ op.stage \in {"truncate", "truncated"} => op.kind = "repair"
         /\ op.stage \in {"temp", "link", "syncdir", "refused"} => op.kind = "create"
         /\ op.stage \in {"write", "sync", "close", "undo", "undone"} =>
              op.kind \in {"append", "repair"}
         /\ op.stage \in {"ok", "failed"} => op.kind \in {"append", "create", "repair"}
<1>1. op.kind \in {"none", "append", "create", "repair"}
  BY DEF IInv, Operation, Kinds
<1>2. CASE op.kind = "none"
  BY <1>2 DEF IInv, Storage, Disk, NoOp
<1>3. CASE op.kind = "append"
  BY <1>3 DEF IInv, Storage, Appending
<1>4. CASE op.kind = "create"
  BY <1>4 DEF IInv, Storage, Creating
<1>5. CASE op.kind = "repair"
  BY <1>5 DEF IInv, Storage, Repairing
<1> QED BY <1>1, <1>2, <1>3, <1>4, <1>5

\* What the invariant says of the file, with the lengths as numbers.
LEMMA FileIs ==
  ASSUME IInv
  PROVE  /\ compression \in {"none", "zstd"}
         /\ Kept(file, compression, acked, Failed, Used)
         /\ Kept(media, compression, acked, Failed, Used)
         /\ acked \in Logs /\ Len(acked) \in Nat
         /\ EventsOf(op.lines) \in Logs /\ op.before \in Nat
         /\ op.lines = Lines(EventsOf(op.lines), op.before)
         /\ StoredEvents(file) \in Logs /\ Len(StoredEvents(file)) = committed(file)
         /\ StoredEvents(media) \in Logs
         /\ Len(file) \in Nat /\ committed(file) \in 0 .. Len(file)
         /\ Sure(file, compression) \in 0 .. committed(file)
         /\ Len(acked) <= Sure(file, compression) /\ IsPrefix(acked, StoredEvents(file))
         /\ Readable(file) /\ Readable(media)
<1>1. compression \in {"none", "zstd"} /\ acked \in Logs
  BY Comp DEF IInv, Memory
<1>2. Kept(file, compression, acked, Failed, Used) /\ Kept(media, compression, acked, Failed, Used)
  BY DEF IInv, Files
<1>3. Readable(file) /\ Readable(media) /\ IsPrefix(acked, StoredEvents(file))
      /\ Len(acked) <= Sure(file, compression)
  BY <1>2 DEF Kept
<1>4. Len(acked) \in Nat
  BY <1>1 DEF Logs
<1>5. /\ EventsOf(op.lines) \in Logs /\ op.before \in Nat
      /\ op.lines = Lines(EventsOf(op.lines), op.before)
  BY DEF IInv, Operation
<1> QED BY <1>1, <1>2, <1>3, <1>4, <1>5, ReadableFacts, SureFacts

\* A file that ends with its last acknowledged line.
LEMMA AtAcked ==
  ASSUME IInv, Whole(file), Len(file) = Len(acked)
  PROVE  StoredEvents(file) = acked
<1>1. Len(StoredEvents(file)) = Len(acked)
  BY FileIs DEF Whole
<1>2. StoredEvents(file) \in Logs /\ acked \in Logs /\ IsPrefix(acked, StoredEvents(file))
  BY FileIs
<1>3. acked = SubSeq(StoredEvents(file), 1, Len(StoredEvents(file)))
  BY <1>1, <1>2, PrefixFacts
<1> QED BY <1>2, <1>3, PrefixOf, PrefixFacts

\* What every file system call has to restore.
FileGoal ==
  /\ Operation' /\ Files' /\ Storage'
  /\ entry' \in {"none", "linked", "durable"} /\ upsets' \in 0 .. MaxUpsets

\* A call that fails is one that may, and failures are counted.
LEMMA Upsets ==
  ASSUME IInv
  PROVE  /\ Succeeds => upsets' \in 0 .. MaxUpsets
         /\ \A call : Fails(call) => call \in Faults /\ upsets' \in 0 .. MaxUpsets
BY JsonlAssumption DEF IInv, Memory, Succeeds, Fails

\* The repair cuts the torn tail off.
LEMMA TruncateStep ==
  ASSUME IInv, Aside, "close" \notin Faults, Truncate
  PROVE  FileGoal
<1>1. op.kind = "repair" /\ op.stage = "truncate"
  BY KindIs DEF Truncate
<1>2. /\ ~up /\ entry = "durable"
      /\ LogOK(Target(file, op), Failed, Used) /\ RepairScan(Target(file, op)).turn = 0
      /\ op.before = Sure(file, compression)
      /\ Backed(op.before, file, media, compression) /\ Len(acked) <= op.before
  BY <1>1 DEF IInv, Storage, Repairing
<1>3. /\ media' = media /\ entry' = entry /\ up' = up /\ stored' = stored /\ acked' = acked
      /\ compression' = compression /\ Failed' = Failed /\ Used' = Used
  BY AsideKeeps DEF Truncate, Aside
<1>4. entry \in {"none", "linked", "durable"} /\ Disk
  BY DEF IInv, Memory, Storage
<1>5. CASE file' = SubSeq(file, 1, op.before) /\ Stage("truncated") /\ Succeeds
  <2>1. /\ Operation' /\ op'.kind = op.kind /\ op'.lines = op.lines /\ op'.before = op.before
        /\ op'.stage = "truncated"
    BY <1>5, StageIs DEF IInv, Stages
  <2>2. op.before \in 0 .. committed(file)
    BY <1>2 DEF Backed
  <2>3. /\ Kept(file', compression, acked, Failed, Used) /\ Whole(file')
        /\ Len(file') = op.before /\ StoredEvents(file') = SubSeq(StoredEvents(file), 1, op.before)
    <3>1. Kept(file, compression, acked, Failed, Used) /\ acked \in Logs
      BY FileIs
    <3>2. LET g == SubSeq(file, 1, op.before) IN
          /\ Kept(g, compression, acked, Failed, Used) /\ Whole(g) /\ Len(g) = op.before
          /\ StoredEvents(g) = SubSeq(StoredEvents(file), 1, op.before)
      BY <1>2, <2>2, <3>1, CutKept
    <3> QED BY <1>5, <3>2
  <2>4. committed(file') = op.before
    BY <2>3 DEF Whole
  <2>5. SubSeq(StoredEvents(file'), 1, op.before) = SubSeq(StoredEvents(file), 1, op.before)
    <3>1. op.before \in 0 .. Len(StoredEvents(file)) /\ op.before \in 0 .. op.before
      BY <2>2, FileIs
    <3> QED BY <2>3, <3>1, FileIs, PrefixOf
  <2>6. Backed(op.before, file', media, compression)
    BY <1>2, <2>2, <2>4, <2>5 DEF Backed
  <2>7. Target(file', op') = Target(file, op)
    BY <2>1, <2>5 DEF Target
  <2>8. Files'
    BY <1>3, <2>2, <2>3, <2>4, FileIs DEF Files
  <2>9. Repairing'
    BY <1>1, <1>2, <1>3, <2>1, <2>3, <2>6, <2>7 DEF Repairing
  <2>10. Appending' /\ Creating'
    BY <1>1, <2>1 DEF Appending, Creating
  <2>11. Disk'
    BY <1>1, <1>2, <1>3, <1>4, <2>1 DEF Disk
  <2> QED BY <1>3, <1>4, <1>5, <2>1, <2>8, <2>9, <2>10, <2>11, Upsets DEF FileGoal, Storage
<1>6. CASE Fails("write") /\ Stage("failed") /\ UNCHANGED file
  <2>1. /\ Operation' /\ op'.kind = op.kind /\ op'.lines = op.lines /\ op'.before = op.before
        /\ op'.stage = "failed"
    BY <1>6, StageIs DEF IInv, Stages
  <2>2. Files'
    BY <1>3, <1>6 DEF IInv, Files
  <2>3. Repairing'
    BY <1>1, <1>2, <1>3, <1>6, <2>1 DEF Repairing
  <2>4. Appending' /\ Creating'
    BY <1>1, <2>1 DEF Appending, Creating
  <2>5. Disk'
    BY <1>1, <1>2, <1>3, <1>4, <1>6, <2>1 DEF Disk
  <2> QED BY <1>3, <1>4, <1>6, <2>1, <2>2, <2>3, <2>4, <2>5, Upsets DEF FileGoal, Storage
<1> QED BY <1>5, <1>6 DEF Truncate

\* What a call of the file system leaves alone.
LEMMA Frame ==
  ASSUME IInv, Aside
  PROVE  /\ up' = up /\ stored' = stored /\ acked' = acked /\ live' = live
         /\ compression' = compression /\ Failed' = Failed /\ Used' = Used
         /\ entry \in {"none", "linked", "durable"} /\ Disk
         /\ Appending /\ Creating /\ Repairing /\ Files
BY AsideKeeps DEF Aside, memory, IInv, Memory, Storage

\* The whole file is on the disk once it is synced.
LEMMA BackedBySync ==
  ASSUME NEW f, NEW comp, Readable(f), NEW b \in 0 .. Sure(f, comp)
  PROVE  Backed(b, f, f, comp)
<1>1. Sure(f, comp) \in 0 .. committed(f) /\ committed(f) \in Nat
  BY ReadableFacts, SureFacts
<1> QED BY <1>1 DEF Backed

\* Only an empty batch writes no line.
LEMMA NoEvents ==
  ASSUME NEW E \in Logs, NEW b \in Nat, Lines(E, b) = <<>>
  PROVE  E = <<>>
<1>1. Len(E) = Len(Lines(E, b))
  BY LinesFacts
<1>2. Len(E) = 0
  BY <1>1
<1> QED BY <1>2 DEF Logs

\* The sync after the repair's truncation: the cut is on the disk, or the
\* repair failed.
LEMMA SyncTruncatedStep ==
  ASSUME IInv, Aside, "close" \notin Faults, SyncTruncated
  PROVE  FileGoal
<1>1. op.kind = "repair" /\ op.stage = "truncated"
  BY KindIs DEF SyncTruncated
<1>2. /\ ~up /\ entry = "durable"
      /\ LogOK(Target(file, op), Failed, Used) /\ RepairScan(Target(file, op)).turn = 0
      /\ Whole(file) /\ Len(file) = op.before
      /\ Backed(op.before, file, media, compression) /\ Len(acked) <= op.before
  BY <1>1, Frame DEF Repairing
<1>3. file' = file /\ entry' = entry
  BY DEF SyncTruncated
<1>4. Sure(file, compression) = op.before /\ op.before \in 0 .. Sure(file, compression)
  BY <1>2, FileIs, SureFacts
<1>5. CASE media' = file /\ Succeeds /\ Stage(IF op.lines = <<>> THEN "ok" ELSE "write")
  <2>1. /\ Operation' /\ op'.kind = op.kind /\ op'.lines = op.lines /\ op'.before = op.before
        /\ op'.stage = IF op.lines = <<>> THEN "ok" ELSE "write"
    <3>1. CASE op.lines = <<>>
      BY <1>5, <3>1, StageIs DEF IInv, Stages
    <3>2. CASE op.lines # <<>>
      BY <1>5, <3>2, StageIs DEF IInv, Stages
    <3> QED BY <3>1, <3>2
  <2>2. Files'
    BY <1>3, <1>5, Frame DEF Files
  <2>3. Backed(op.before, file, file, compression)
    BY <1>4, FileIs, BackedBySync
  <2>4. op.lines = <<>> => RepairScan(StoredEvents(file)).turn = 0
    <3>1. SUFFICES ASSUME op.lines = <<>> PROVE Target(file, op) = StoredEvents(file)
      BY <1>2
    <3>2. EventsOf(op.lines) = <<>>
      BY <3>1, FileIs, NoEvents
    <3>3. Len(StoredEvents(file)) = op.before
      BY <1>2, FileIs DEF Whole
    <3>4. SubSeq(StoredEvents(file), 1, op.before) = StoredEvents(file)
      BY <3>3, FileIs, PrefixOf
    <3>5. StoredEvents(file) \o <<>> = StoredEvents(file)
      BY FileIs, EmptyLegal, ConcatPrefix
    <3> QED BY <3>2, <3>4, <3>5 DEF Target
  <2>5. Target(file', op') = Target(file, op)
    BY <1>3, <2>1 DEF Target
  <2>6. Repairing'
    BY <1>1, <1>2, <1>3, <1>5, <2>1, <2>3, <2>4, <2>5, Frame DEF Repairing
  <2>7. Appending' /\ Creating'
    BY <1>1, <2>1 DEF Appending, Creating
  <2>8. Disk'
    BY <1>1, <1>2, <1>3, <2>1, Frame DEF Disk
  <2> QED BY <1>2, <1>3, <1>5, <2>1, <2>2, <2>6, <2>7, <2>8, Upsets DEF FileGoal, Storage
<1>6. CASE Fails("sync") /\ Stage("failed") /\ UNCHANGED media
  <2>1. /\ Operation' /\ op'.kind = op.kind /\ op'.lines = op.lines /\ op'.before = op.before
        /\ op'.stage = "failed"
    BY <1>6, StageIs DEF IInv, Stages
  <2>2. Files'
    BY <1>3, <1>6, Frame DEF Files
  <2>3. Repairing'
    BY <1>1, <1>2, <1>3, <1>4, <1>6, <2>1, Frame DEF Repairing
  <2>4. Appending' /\ Creating'
    BY <1>1, <2>1 DEF Appending, Creating
  <2>5. Disk'
    BY <1>1, <1>2, <1>3, <1>6, <2>1, Frame DEF Disk
  <2> QED BY <1>2, <1>3, <1>6, <2>1, <2>2, <2>3, <2>4, <2>5, Upsets DEF FileGoal, Storage
<1> QED BY <1>5, <1>6 DEF SyncTruncated

\* Where a batch is about to be written.
LEMMA WriteReady ==
  ASSUME IInv, op.stage = "write"
  PROVE  /\ op.kind \in {"append", "repair"}
         /\ Whole(file) /\ Len(file) = op.before /\ Len(acked) <= op.before
         /\ LogOK(StoredEvents(file) \o EventsOf(op.lines), Failed, Used)
         /\ op.kind = "append" => up /\ stored /\ StoredEvents(file) = acked
         /\ op.kind = "repair" =>
              /\ ~up /\ Target(file, op) = StoredEvents(file) \o EventsOf(op.lines)
              /\ RepairScan(Target(file, op)).turn = 0
              /\ Backed(op.before, file, media, compression)
         /\ entry = "durable"
<1>1. op.kind \in {"append", "repair"}
  BY KindIs
<1>2. Disk /\ Appending /\ Repairing
  BY DEF IInv, Storage
<1>3. CASE op.kind = "append"
  <2>1. Batch /\ stored /\ Holds(file, acked)
    BY <1>2, <1>3 DEF Appending
  <2>2. Whole(file) /\ StoredEvents(file) = acked /\ up /\ op.before = Len(acked)
        /\ IsPrefix(acked \o EventsOf(op.lines), live)
    BY <2>1 DEF Holds, Batch
  <2>3. Len(file) = Len(acked)
    BY <2>2, FileIs DEF Whole
  <2>4. LogOK(live, Failed, Used)
    BY DEF IInv, Position
  <2>5. acked \o EventsOf(op.lines) \in Logs
    BY FileIs, ConcatPrefix
  <2>6. LogOK(acked \o EventsOf(op.lines), Failed, Used)
    BY <2>2, <2>4, <2>5, LogPrefix
  <2>7. entry = "durable"
    BY <1>2, <2>1, <2>2 DEF Disk
  <2> QED BY <1>3, <2>1, <2>2, <2>3, <2>6, <2>7, FileIs
<1>4. CASE op.kind = "repair"
  <2>1. /\ ~up /\ entry = "durable"
        /\ LogOK(Target(file, op), Failed, Used) /\ RepairScan(Target(file, op)).turn = 0
        /\ Whole(file) /\ Len(file) = op.before
        /\ Backed(op.before, file, media, compression) /\ Len(acked) <= op.before
    BY <1>2, <1>4 DEF Repairing
  <2>2. Len(StoredEvents(file)) = op.before
    BY <2>1, FileIs DEF Whole
  <2>3. SubSeq(StoredEvents(file), 1, op.before) = StoredEvents(file)
    BY <2>2, FileIs, PrefixOf
  <2>4. Target(file, op) = StoredEvents(file) \o EventsOf(op.lines)
    BY <2>3 DEF Target
  <2> QED BY <1>4, <2>1, <2>4
<1> QED BY <1>1, <1>3, <1>4

\* Writing the batch: all of it, some of it, or none.
LEMMA WriteStep ==
  ASSUME IInv, Aside, "close" \notin Faults, Write
  PROVE  FileGoal
<1> DEFINE E == EventsOf(op.lines)
           w == file \o op.lines
<1>1. op.stage = "write"
  BY DEF Write
<1>2. /\ op.kind \in {"append", "repair"}
      /\ Whole(file) /\ Len(file) = op.before /\ Len(acked) <= op.before
      /\ LogOK(StoredEvents(file) \o E, Failed, Used)
      /\ op.kind = "append" => up /\ stored /\ StoredEvents(file) = acked
      /\ op.kind = "repair" =>
           /\ ~up /\ Target(file, op) = StoredEvents(file) \o E
           /\ RepairScan(Target(file, op)).turn = 0
           /\ Backed(op.before, file, media, compression)
      /\ entry = "durable"
  BY <1>1, WriteReady
<1>3. media' = media /\ entry' = entry
  BY DEF Write
<1>4. Join(file, op.lines) = w
  BY <1>2, FileIs, SureFacts DEF Join
<1>5. w = file \o Lines(E, Len(file)) /\ E \in Logs
  BY <1>2, FileIs
<1>6. /\ StoredEvents(file) \in Logs /\ Len(StoredEvents(file)) = op.before
      /\ op.before \in 0 .. op.before /\ op.before \in Nat
      /\ SubSeq(StoredEvents(file), 1, op.before) = StoredEvents(file)
  BY <1>2, FileIs, PrefixOf DEF Whole
<1> HIDE DEF E, w
<1>7. CASE file' = Join(file, op.lines) /\ Stage("sync") /\ Succeeds
  <2>1. /\ Operation' /\ op'.kind = op.kind /\ op'.lines = op.lines /\ op'.before = op.before
        /\ op'.stage = "sync"
    BY <1>7, StageIs DEF IInv, Stages
  <2>2. /\ Kept(file', compression, acked, Failed, Used) /\ Whole(file')
        /\ StoredEvents(file') = StoredEvents(file) \o E
    <3>1. LET g == file \o Lines(E, Len(file)) IN
          /\ Kept(g, compression, acked, Failed, Used) /\ Whole(g)
          /\ StoredEvents(g) = StoredEvents(file) \o E
      BY <1>2, <1>5, FileIs, WriteKept
    <3> QED BY <1>4, <1>5, <1>7, <3>1
  <2>3. /\ Len(StoredEvents(file')) = committed(file') /\ committed(file') \in 0 .. Len(file')
        /\ Len(file') \in Nat
    BY <2>2, ReadableFacts DEF Kept
  <2>4. Files'
    <3>1. Len(file') <= committed(file') + 1
      BY <2>2, <2>3 DEF Whole
    <3> QED BY <1>3, <2>2, <3>1, Frame DEF Files
  <2>5. /\ SubSeq(StoredEvents(file'), 1, op.before) = StoredEvents(file)
        /\ op.before <= committed(file')
    <3>1. /\ SubSeq(StoredEvents(file) \o E, 1, op.before) = SubSeq(StoredEvents(file), 1, op.before)
          /\ Len(StoredEvents(file) \o E) = op.before + Len(E)
      BY <1>5, <1>6, ConcatPrefix
    <3>2. Len(E) \in Nat
      BY <1>5 DEF Logs
    <3> QED BY <1>6, <2>2, <2>3, <3>1, <3>2
  <2>6. op.kind = "repair" => Backed(op.before, file', media, compression)
    BY <1>2, <1>6, <2>3, <2>5 DEF Backed
  <2>7. Repairing'
    <3>1. op.kind = "repair" => RepairScan(StoredEvents(file')).turn = 0
      BY <1>2, <2>2
    <3> QED BY <1>2, <1>3, <2>1, <2>2, <2>6, <3>1, Frame DEF Repairing
  <2>8. Appending'
    <3>1. op.kind = "append" => Holds(file', acked \o E)
      BY <1>2, <2>2 DEF Holds
    <3>2. Batch => Batch'
      BY <2>1, Frame DEF Batch
    <3> QED BY <1>2, <1>3, <2>1, <3>1, <3>2, Frame DEF Appending, E
  <2>9. Creating'
    BY <1>2, <2>1 DEF Creating
  <2>10. Disk'
    BY <1>2, <1>3, <2>1, Frame DEF Disk
  <2> QED BY <1>2, <1>3, <1>7, <2>1, <2>4, <2>7, <2>8, <2>9, <2>10, Upsets DEF FileGoal, Storage
<1>8. CASE Fails("write") /\ Stage("undo") /\ file' \in Cuts(Join(file, op.lines), Len(file))
  <2>1. /\ Operation' /\ op'.kind = op.kind /\ op'.lines = op.lines /\ op'.before = op.before
        /\ op'.stage = "undo"
    BY <1>8, StageIs DEF IInv, Stages
  <2>2. file' \in Cuts(file \o Lines(E, Len(file)), Len(file))
    BY <1>4, <1>5, <1>8
  <2>3. /\ Kept(file', compression, acked, Failed, Used)
        /\ Len(file') <= committed(file') + 1
        /\ op.before <= committed(file')
        /\ SubSeq(StoredEvents(file'), 1, op.before) = StoredEvents(file)
    BY <1>2, <1>5, <2>2, FileIs, CutWrite
  <2>4. Files'
    BY <1>3, <2>3, Frame DEF Files
  <2>5. committed(file') \in Nat
    BY <2>3, ReadableFacts DEF Kept
  <2>6. op.kind = "repair" => Backed(op.before, file', media, compression)
    BY <1>2, <1>6, <2>3, <2>5 DEF Backed
  <2>7. Repairing'
    BY <1>2, <1>3, <2>1, <2>6, Frame DEF Repairing
  <2>8. Appending'
    <3>2. Batch => Batch'
      BY <2>1, Frame DEF Batch
    <3> QED BY <1>2, <1>3, <2>1, <3>2, Frame DEF Appending
  <2>9. Creating'
    BY <1>2, <2>1 DEF Creating
  <2>10. Disk'
    BY <1>2, <1>3, <2>1, Frame DEF Disk
  <2> QED BY <1>2, <1>3, <1>8, <2>1, <2>4, <2>7, <2>8, <2>9, <2>10, Upsets DEF FileGoal, Storage
<1> QED BY <1>7, <1>8 DEF Write

\* The sync after the write: the batch is on the disk, or it is undone.
LEMMA SyncStep ==
  ASSUME IInv, Aside, "close" \notin Faults, Sync
  PROVE  FileGoal
<1>1. op.stage = "sync" /\ op.kind \in {"append", "repair"} /\ file' = file /\ entry' = entry
  BY KindIs DEF Sync
<1>2. CASE media' = file /\ Stage("close") /\ Succeeds
  <2>1. /\ Operation' /\ op'.kind = op.kind /\ op'.lines = op.lines /\ op'.before = op.before
        /\ op'.stage = "close"
    BY <1>2, StageIs DEF IInv, Stages
  <2>2. Files'
    BY <1>1, <1>2, Frame DEF Files
  <2>3. Repairing' /\ Creating'
    BY <1>1, <1>2, <2>1, Frame DEF Repairing, Creating
  <2>4. Appending'
    <3>1. Batch => Batch'
      BY <2>1, Frame DEF Batch
    <3> QED BY <1>1, <1>2, <2>1, <3>1, Frame DEF Appending
  <2>5. Disk'
    BY <1>1, <1>2, <2>1, Frame DEF Disk
  <2> QED BY <1>1, <1>2, <2>1, <2>2, <2>3, <2>4, <2>5, Frame, Upsets DEF FileGoal, Storage
<1>3. CASE Fails("sync") /\ Stage("undo") /\ UNCHANGED media
  <2>1. /\ Operation' /\ op'.kind = op.kind /\ op'.lines = op.lines /\ op'.before = op.before
        /\ op'.stage = "undo"
    BY <1>3, StageIs DEF IInv, Stages
  <2>2. Files'
    BY <1>1, <1>3, Frame DEF Files
  <2>3. Repairing' /\ Creating'
    BY <1>1, <1>3, <2>1, Frame DEF Repairing, Creating
  <2>4. Appending'
    <3>1. Batch => Batch'
      BY <2>1, Frame DEF Batch
    <3> QED BY <1>1, <1>3, <2>1, <3>1, Frame DEF Appending
  <2>5. Disk'
    BY <1>1, <1>3, <2>1, Frame DEF Disk
  <2> QED BY <1>1, <1>3, <2>1, <2>2, <2>3, <2>4, <2>5, Frame, Upsets DEF FileGoal, Storage
<1> QED BY <1>2, <1>3 DEF Sync

\* Closing the file, which here does not fail: the operation has succeeded.
LEMMA CloseStep ==
  ASSUME IInv, Aside, "close" \notin Faults, Close
  PROVE  FileGoal
<1>1. op.stage = "close" /\ op.kind \in {"append", "repair"}
      /\ file' = file /\ media' = media /\ entry' = entry
  BY KindIs DEF Close
<1>2. Stage("ok") /\ Succeeds
  BY DEF Close, Fails
<1>3. /\ Operation' /\ op'.kind = op.kind /\ op'.lines = op.lines /\ op'.before = op.before
      /\ op'.stage = "ok"
  BY <1>2, StageIs DEF IInv, Stages
<1>4. Files'
  BY <1>1, Frame DEF Files
<1>5. Repairing' /\ Creating'
  BY <1>1, <1>3, Frame DEF Repairing, Creating
<1>6. Appending'
  <2>1. Batch => Batch'
    BY <1>3, Frame DEF Batch
  <2> QED BY <1>1, <1>3, <2>1, Frame DEF Appending
<1>7. Disk'
  BY <1>1, <1>3, Frame DEF Disk
<1> QED BY <1>1, <1>2, <1>3, <1>4, <1>5, <1>6, <1>7, Frame, Upsets DEF FileGoal, Storage

\* Truncating a failed append back to where it began.
LEMMA UndoStep ==
  ASSUME IInv, Aside, "close" \notin Faults, Undo
  PROVE  FileGoal
<1>1. op.stage = "undo" /\ op.kind \in {"append", "repair"}
      /\ media' = media /\ entry' = entry
  BY KindIs DEF Undo
<1>2. file' = SubSeq(file, 1, op.before) /\ Stage("undone") /\ Succeeds
  BY DEF Undo, Fails
<1>3. /\ Operation' /\ op'.kind = op.kind /\ op'.lines = op.lines /\ op'.before = op.before
      /\ op'.stage = "undone"
  BY <1>2, StageIs DEF IInv, Stages
<1>4. /\ op.before \in 0 .. committed(file) /\ Len(acked) <= op.before
      /\ op.kind = "append" => up /\ stored /\ op.before = Len(acked)
      /\ op.kind = "repair" => ~up /\ Backed(op.before, file, media, compression)
      /\ entry = "durable"
  <2>1. CASE op.kind = "append"
    <3>1. up /\ stored /\ op.before = Len(acked)
      BY <2>1, Frame DEF Appending, Batch
    <3>2. Len(acked) \in 0 .. committed(file)
      BY FileIs
    <3>3. Len(acked) <= op.before
      BY <3>1, FileIs
    <3> QED BY <2>1, <3>1, <3>2, <3>3, Frame DEF Disk
  <2>2. CASE op.kind = "repair"
    BY <1>1, <2>2, Frame DEF Repairing, Backed
  <2> QED BY <1>1, <2>1, <2>2
<1>5. /\ Kept(file', compression, acked, Failed, Used) /\ Whole(file')
      /\ Len(file') = op.before /\ StoredEvents(file') = SubSeq(StoredEvents(file), 1, op.before)
  <2>1. Kept(file, compression, acked, Failed, Used) /\ acked \in Logs
    BY FileIs
  <2>2. LET g == SubSeq(file, 1, op.before) IN
        /\ Kept(g, compression, acked, Failed, Used) /\ Whole(g) /\ Len(g) = op.before
        /\ StoredEvents(g) = SubSeq(StoredEvents(file), 1, op.before)
    <3>1. op.before \in 0 .. committed(file) /\ Len(acked) <= op.before
      BY <1>4
    <3> QED BY <2>1, <3>1, CutKept
  <2> QED BY <1>2, <2>2
<1>6. committed(file') = op.before /\ op.before \in Nat
  BY <1>4, <1>5, FileIs DEF Whole
<1>7. Files'
  BY <1>1, <1>5, <1>6, Frame DEF Files
<1>8. Repairing'
  <2>1. SubSeq(StoredEvents(file'), 1, op.before) = SubSeq(StoredEvents(file), 1, op.before)
    <3>1. op.before \in 0 .. Len(StoredEvents(file)) /\ op.before \in 0 .. op.before
      BY <1>4, FileIs
    <3> QED BY <1>5, <3>1, FileIs, PrefixOf
  <2>2. op.kind = "repair" => Backed(op.before, file', media, compression)
    BY <1>4, <1>6, <2>1 DEF Backed
  <2> QED BY <1>1, <1>3, <1>4, <1>5, <2>2, Frame DEF Repairing
<1>9. Appending'
  <2>1. Batch => Batch'
    BY <1>3, Frame DEF Batch
  <2>2. op.kind = "append" => Holds(file', acked)
    BY <1>4, <1>5, FileIs, PrefixFacts DEF Holds
  <2> QED BY <1>1, <1>3, <2>1, <2>2, Frame DEF Appending
<1>10. Creating'
  BY <1>1, <1>3 DEF Creating
<1>11. Disk'
  BY <1>1, <1>3, <1>4, Frame DEF Disk
<1> QED BY <1>1, <1>2, <1>3, <1>7, <1>8, <1>9, <1>10, <1>11, Frame, Upsets DEF FileGoal, Storage

\* The sync after that truncation.
LEMMA SyncUndoneStep ==
  ASSUME IInv, Aside, "close" \notin Faults, SyncUndone
  PROVE  FileGoal
<1>1. op.stage = "undone" /\ op.kind \in {"append", "repair"}
      /\ file' = file /\ entry' = entry /\ Stage("failed")
  BY KindIs DEF SyncUndone
<1>2. media' = file \/ media' = media
  BY DEF SyncUndone
<1>3. upsets' \in 0 .. MaxUpsets
  BY Upsets DEF SyncUndone
<1>4. /\ Operation' /\ op'.kind = op.kind /\ op'.lines = op.lines /\ op'.before = op.before
      /\ op'.stage = "failed"
  BY <1>1, StageIs DEF IInv, Stages
<1>5. Files'
  BY <1>1, <1>2, Frame DEF Files
<1>6. Repairing'
  <2>1. SUFFICES ASSUME op.kind = "repair" PROVE Repairing'
    BY <1>4 DEF Repairing
  <2>2. /\ ~up /\ entry = "durable" /\ Whole(file) /\ Len(file) = op.before
        /\ Backed(op.before, file, media, compression)
    BY <1>1, <2>1, Frame DEF Repairing
  <2>3. Sure(file, compression) = op.before /\ op.before \in 0 .. Sure(file, compression)
    BY <2>2, FileIs, SureFacts
  <2>4. Backed(op.before, file, file, compression)
    BY <2>3, FileIs, BackedBySync
  <2> QED BY <1>1, <1>2, <1>4, <2>1, <2>2, <2>3, <2>4, Frame DEF Repairing
<1>7. Appending'
  <2>1. Batch => Batch'
    BY <1>4, Frame DEF Batch
  <2> QED BY <1>1, <1>2, <1>4, <2>1, Frame DEF Appending
<1>8. Creating'
  BY <1>1, <1>4 DEF Creating
<1>9. Disk'
  BY <1>1, <1>2, <1>4, Frame DEF Disk
<1> QED BY <1>1, <1>3, <1>4, <1>5, <1>6, <1>7, <1>8, <1>9, Frame DEF FileGoal, Storage

\* Creating the session's file under a temporary name.
LEMMA WriteTempStep ==
  ASSUME IInv, Aside, "close" \notin Faults, WriteTemp
  PROVE  FileGoal
<1>1. op.stage = "temp" /\ op.kind = "create"
      /\ file' = file /\ media' = media /\ entry' = entry
  BY KindIs DEF WriteTemp
<1>2. \E s \in {"link", "refused", "failed"} : Stage(s) /\ (s = "link" => entry = "none")
  BY DEF WriteTemp
<1>3. PICK s \in {"link", "refused", "failed"} : Stage(s) /\ (s = "link" => entry = "none")
  BY <1>2
<1>4. upsets' \in 0 .. MaxUpsets
  BY Upsets DEF WriteTemp
<1>5. /\ Operation' /\ op'.kind = op.kind /\ op'.lines = op.lines /\ op'.before = op.before
      /\ op'.stage = s
  BY <1>3, StageIs DEF IInv, Stages
<1>6. Files'
  BY <1>1, Frame DEF Files
<1>7. Repairing' /\ Appending'
  BY <1>1, <1>5 DEF Repairing, Appending
<1>8. Creating'
  <2>1. Batch => Batch'
    BY <1>5, Frame DEF Batch
  <2> QED BY <1>1, <1>3, <1>5, <2>1, Frame DEF Creating
<1>9. Disk'
  BY <1>1, <1>5, Frame DEF Disk
<1> QED BY <1>1, <1>4, <1>5, <1>6, <1>7, <1>8, <1>9, Frame DEF FileGoal, Storage

\* Linking the new file to its name, unless the name is taken.
LEMMA LinkStep ==
  ASSUME IInv, Aside, "close" \notin Faults, Link
  PROVE  FileGoal
<1>1. op.stage = "link" /\ op.kind = "create"
  BY KindIs DEF Link
<1>2. Batch /\ ~stored /\ entry = "none" /\ up
  BY <1>1, Frame DEF Creating, Batch
<1>3. CASE Fails("link") /\ Stage("failed") /\ UNCHANGED <<file, media, entry>>
  <2>1. /\ Operation' /\ op'.kind = op.kind /\ op'.lines = op.lines /\ op'.before = op.before
        /\ op'.stage = "failed"
    BY <1>3, StageIs DEF IInv, Stages
  <2>2. Files'
    BY <1>3, Frame DEF Files
  <2>3. Repairing' /\ Appending'
    BY <1>1, <2>1 DEF Repairing, Appending
  <2>4. Creating'
    <3>1. Batch'
      BY <1>2, <2>1, Frame DEF Batch
    <3> QED BY <1>1, <1>2, <2>1, <3>1, Frame DEF Creating
  <2>5. Disk'
    BY <1>1, <1>3, <2>1, Frame DEF Disk
  <2> QED BY <1>3, <2>1, <2>2, <2>3, <2>4, <2>5, Frame, Upsets DEF FileGoal, Storage
<1>4. CASE /\ entry' = "linked" /\ file' = op.lines /\ media' = op.lines
           /\ Stage("syncdir") /\ Succeeds
  <2>1. /\ Operation' /\ op'.kind = op.kind /\ op'.lines = op.lines /\ op'.before = op.before
        /\ op'.stage = "syncdir"
    BY <1>4, StageIs DEF IInv, Stages
  <2>2. acked = <<>> /\ op.before = 0
    <3>1. acked = <<>>
      BY <1>2, Frame DEF Disk
    <3> QED BY <1>2, <3>1 DEF Batch
  <2>3. op.lines = Lines(EventsOf(op.lines), 0) /\ EventsOf(op.lines) \in Logs
    BY <2>2, FileIs
  <2>4. LogOK(EventsOf(op.lines), Failed, Used)
    <3>1. <<>> \o EventsOf(op.lines) = EventsOf(op.lines)
      BY <2>3 DEF Logs
    <3>2. IsPrefix(EventsOf(op.lines), live)
      BY <1>2, <2>2, <3>1 DEF Batch
    <3> QED BY <2>3, <3>2, LogPrefix DEF IInv, Position
  <2>5. Kept(op.lines, compression, acked, Failed, Used)
    BY <2>2, <2>3, <2>4, NewKept
  <2>6. Files'
    BY <1>4, <2>5, Frame DEF Files
  <2>7. Repairing' /\ Appending'
    BY <1>1, <2>1 DEF Repairing, Appending
  <2>8. Creating'
    <3>1. Batch'
      BY <1>2, <2>1, Frame DEF Batch
    <3> QED BY <1>1, <1>2, <1>4, <2>1, <3>1, Frame DEF Creating
  <2>9. Disk'
    BY <1>1, <1>2, <1>4, <2>1, Frame DEF Disk
  <2> QED BY <1>4, <2>1, <2>6, <2>7, <2>8, <2>9, Upsets DEF FileGoal, Storage
<1> QED BY <1>3, <1>4 DEF Link

\* The sync of the directory, after which the new file outlives a crash.
LEMMA SyncDirStep ==
  ASSUME IInv, Aside, "close" \notin Faults, SyncDir
  PROVE  FileGoal
<1>1. op.stage = "syncdir" /\ op.kind = "create" /\ file' = file /\ media' = media
  BY KindIs DEF SyncDir
<1>2. Batch /\ ~stored /\ up /\ file = op.lines /\ media = file /\ entry = "linked"
  BY <1>1, Frame DEF Creating, Batch
<1>3. PICK s \in {"ok", "failed"} : Stage(s) /\ entry' = IF s = "ok" THEN "durable" ELSE entry
  BY DEF SyncDir
<1>4. upsets' \in 0 .. MaxUpsets
  BY Upsets DEF SyncDir
<1>5. /\ Operation' /\ op'.kind = op.kind /\ op'.lines = op.lines /\ op'.before = op.before
      /\ op'.stage = s
  BY <1>3, StageIs DEF IInv, Stages
<1>6. Files'
  BY <1>1, Frame DEF Files
<1>7. Repairing' /\ Appending'
  BY <1>1, <1>5 DEF Repairing, Appending
<1>8. Creating'
  <2>1. Batch'
    BY <1>2, <1>5, Frame DEF Batch
  <2> QED BY <1>1, <1>2, <1>3, <1>5, <2>1, Frame DEF Creating
<1>9. Disk'
  BY <1>1, <1>2, <1>3, <1>5, Frame DEF Disk
<1>10. entry' \in {"none", "linked", "durable"}
  BY <1>2, <1>3
<1> QED BY <1>4, <1>5, <1>6, <1>7, <1>8, <1>9, <1>10 DEF FileGoal, Storage

\* Every file system call keeps the invariant.
LEMMA StorageSteps ==
  ASSUME IInv, "close" \notin Faults, StorageStep
  PROVE  IInv'
<1>1. Aside
  BY DEF StorageStep, FileStep, Aside
<1>2. FileGoal
  BY <1>1, TruncateStep, SyncTruncatedStep, WriteStep, SyncStep, CloseStep, UndoStep,
     SyncUndoneStep, WriteTempStep, LinkStep, SyncDirStep DEF StorageStep, FileStep
<1>3. Memory'
  BY <1>1, <1>2 DEF FileGoal, Aside, memory, effects, Memory, IInv
<1> QED BY <1>1, <1>2, <1>3, AsideKeeps DEF FileGoal, IInv

-----------------------------------------------------------------------------
(* The write controller and the coordinator. *)

\* What follows a prefix.
LEMMA RestOf ==
  ASSUME NEW P \in Logs, NEW L \in Logs, IsPrefix(P, L)
  PROVE  LET E == SubSeq(L, Len(P) + 1, Len(L)) IN
         E \in Logs /\ P \o E = L /\ IsPrefix(P \o E, L)
<1> DEFINE E == SubSeq(L, Len(P) + 1, Len(L))
<1>1. Len(P) \in 0 .. Len(L) /\ P = SubSeq(L, 1, Len(P)) /\ IsPrefix(L, L)
  BY PrefixFacts
<1>2. E \in Logs /\ P \o E = L
  BY <1>1 DEF Logs
<1> QED BY <1>1, <1>2

\* The backend at rest.
LEMMA NoOpIs ==
  /\ NoOp \in [kind : Kinds, stage : Stages, lines : Seq(Line), before : Nat]
  /\ NoOp.kind = "none" /\ NoOp.stage = "none"
  /\ EventsOf(NoOp.lines) \in Logs /\ NoOp.lines = Lines(EventsOf(NoOp.lines), NoOp.before)
<1>1. NoOp.lines = <<>> /\ NoOp.before = 0 /\ NoOp.kind = "none" /\ NoOp.stage = "none"
  BY DEF NoOp
<1>2. EventsOf(<<>>) = <<>> /\ Lines(<<>>, 0) = <<>> /\ <<>> \in Logs
  <2>1. <<>> \in Logs
    BY EmptyLegal
  <2>2. Len(Lines(<<>>, 0)) = 0 /\ Lines(<<>>, 0) \in Seq(Line) /\ EventsOf(Lines(<<>>, 0)) = <<>>
    BY <2>1, LinesFacts
  <2>3. Lines(<<>>, 0) = <<>>
    BY <2>2
  <2> QED BY <2>1, <2>2, <2>3
<1>3. NoOp \in [kind : Kinds, stage : Stages, lines : Seq(Line), before : Nat]
  BY DEF NoOp, Kinds, Stages
<1> QED BY <1>1, <1>2, <1>3

\* A batch or, for a session that has none, a file of the first events starts.
LEMMA BatchStarts ==
  ASSUME IInv, Aside, up, NEW E \in Logs, IsPrefix(acked \o E, live),
         AppendBatch(E, Len(acked), stored)
  PROVE  IInv'
<1>1. op.kind = "none" /\ file' = file /\ media' = media /\ entry' = entry /\ upsets' = upsets
  BY DEF AppendBatch
<1>2. op' = IF stored
            THEN [kind |-> "append", stage |-> "write", before |-> Len(file),
                  lines |-> Lines(E, Len(acked))]
            ELSE [kind |-> "create", stage |-> "temp", before |-> 0,
                  lines |-> Lines(E, Len(acked))]
  BY DEF AppendBatch
<1>3. Lines(E, Len(acked)) \in Seq(Line) /\ EventsOf(Lines(E, Len(acked))) = E
  BY FileIs, LinesFacts
<1>4. /\ stored => Holds(file, acked) /\ entry = "durable" /\ Len(file) = Len(acked)
      /\ ~stored => acked = <<>> /\ Len(acked) = 0
  <2>1. stored => Holds(file, acked) /\ entry = "durable"
    BY <1>1, Frame DEF Disk
  <2>2. stored => Len(file) = Len(acked)
    BY <2>1, FileIs DEF Holds, Whole
  <2>3. ~stored => acked = <<>>
    BY Frame DEF Disk
  <2> QED BY <2>1, <2>2, <2>3
<1>5. /\ op' \in [kind : Kinds, stage : Stages, lines : Seq(Line), before : Nat]
      /\ op'.lines = Lines(E, Len(acked)) /\ op'.before = Len(acked)
      /\ stored => op'.kind = "append" /\ op'.stage = "write"
      /\ ~stored => op'.kind = "create" /\ op'.stage = "temp"
  <2>1. CASE stored
    BY <1>2, <1>3, <1>4, <2>1, FileIs DEF Kinds, Stages
  <2>2. CASE ~stored
    BY <1>2, <1>3, <1>4, <2>2, FileIs DEF Kinds, Stages
  <2> QED BY <2>1, <2>2
<1>6. Operation'
  BY <1>3, <1>5 DEF Operation
<1>7. Files'
  BY <1>1, Frame DEF Files
<1>8. Batch'
  BY <1>3, <1>5, Frame DEF Batch
<1>9. Appending'
  BY <1>1, <1>4, <1>5, <1>8, Frame DEF Appending
<1>10. Creating'
  BY <1>1, <1>4, <1>5, <1>8, Frame DEF Creating
<1>11. Repairing'
  BY <1>5 DEF Repairing
<1>12. Disk'
  BY <1>1, <1>5, Frame DEF Disk
<1>13. Memory'
  BY <1>1 DEF Aside, memory, effects, Memory, IInv
<1> QED BY <1>6, <1>7, <1>9, <1>10, <1>11, <1>12, <1>13, AsideKeeps DEF IInv, Storage

\* The controller's drain hands a batch to the backend.
LEMMA StartWriteKeeps ==
  ASSUME IInv, StartWrite PROVE IInv'
<1> DEFINE E == SubSeq(live, Len(acked) + 1, Len(live))
<1>1. Aside /\ up /\ AppendBatch(E, Len(acked), stored)
  BY DEF StartWrite, AppendBatch, Aside
<1>2. acked \in Logs /\ live \in Logs /\ IsPrefix(acked, live)
  BY <1>1 DEF IInv, Memory, Effects
<1>3. E \in Logs /\ IsPrefix(acked \o E, live)
  BY <1>2, RestOf
<1> QED BY <1>1, <1>3, BatchStarts

\* The controller has the session's file created.
LEMMA EnsureMaterializedKeeps ==
  ASSUME IInv, EnsureMaterialized PROVE IInv'
<1>1. Aside /\ up /\ ~stored /\ live = <<>> /\ AppendBatch(<<>>, 0, FALSE)
  BY DEF EnsureMaterialized, MaterializeHeader, AppendBatch, Aside
<1>2. acked = <<>>
  BY <1>1 DEF IInv, Storage, Disk
<1>3. AppendBatch(<<>>, Len(acked), stored)
  <2>1. Len(acked) = 0 /\ stored = FALSE
    BY <1>1, <1>2 DEF IInv, Memory
  <2> QED BY <1>1, <2>1
<1>4. <<>> \in Logs /\ IsPrefix(acked \o <<>>, live)
  BY <1>1, <1>2, EmptyLegal, ConcatPrefix
<1> QED BY <1>1, <1>3, <1>4, BatchStarts

\* What the backend acknowledged is stored.
LEMMA SettledWell ==
  ASSUME IInv, up, op.stage = "ok"
  PROVE  /\ IsPrefix(acked \o EventsOf(op.lines), live)
         /\ Holds(file, acked \o EventsOf(op.lines)) /\ media = file /\ entry = "durable"
         /\ op.kind \in {"append", "create"}
<1> DEFINE E == EventsOf(op.lines)
<1>0. Disk /\ Appending /\ Creating /\ Repairing
  BY DEF IInv, Storage
<1>1. op.kind \in {"append", "create"}
  BY <1>0, KindIs DEF Repairing
<1>2. CASE op.kind = "append"
  BY <1>0, <1>2 DEF Appending, Batch, Disk
<1>3. CASE op.kind = "create"
  <2>1. Batch /\ ~stored /\ file = op.lines /\ media = file /\ entry = "durable"
    BY <1>0, <1>3 DEF Creating
  <2>2. acked = <<>> /\ op.before = 0
    <3>1. acked = <<>>
      BY <1>0, <2>1 DEF Disk
    <3> QED BY <2>1, <3>1 DEF Batch
  <2>3. op.lines = Lines(E, 0) /\ E \in Logs
    BY <2>2, FileIs
  <2>4. acked \o E = E
    BY <2>2, <2>3 DEF Logs
  <2>5. Whole(file) /\ StoredEvents(file) = E
    BY <2>1, <2>3, WholeIsLines
  <2> QED BY <1>3, <2>1, <2>4, <2>5 DEF Batch, Holds
<1> QED BY <1>1, <1>2, <1>3

\* An operation settles: what was acknowledged is in the file for good, and
\* the waiting flushes are told.
LEMMA SettleKeeps ==
  ASSUME IInv, Settle PROVE IInv'
<1> DEFINE E == EventsOf(op.lines)
           n == Len(acked) + Len(op.lines)
           ok == op.stage = "ok"
<1>1. /\ op.stage \in {"ok", "failed", "refused"} /\ op' = NoOp
      /\ compression' = compression /\ file' = file /\ media' = media /\ entry' = entry
      /\ upsets' = upsets /\ live' = live /\ want' = want /\ at' = at /\ turn' = turn
      /\ step' = step /\ stage' = stage /\ cancelled' = cancelled
      /\ requested' = requested /\ ran' = ran /\ up' = up
  BY DEF Settle, effects
<1>2. op'.kind = "none" /\ op'.stage = "none" /\ Operation'
  BY <1>1, NoOpIs DEF Operation
<1>3. Failed' = Failed /\ Used' = Used /\ InStep' = InStep /\ Begun' = Begun
  BY <1>1 DEF Failed, Used, InStep, Begun
<1>4. Position' /\ Steps'
  <2>1. Position'
    BY <1>1, <1>3 DEF IInv, Position
  <2>2. Steps'
    BY <1>1, <1>3 DEF IInv, Steps
  <2> QED BY <2>1, <2>2
<1>5. Appending' /\ Creating' /\ Repairing'
  BY <1>2 DEF Appending, Creating, Repairing
<1>6. /\ Memory /\ Files /\ Effects /\ Disk /\ Appending /\ Creating /\ Repairing /\ Position
  BY DEF IInv, Storage
<1>7. CASE ~up
  <2>1. flush' = flush /\ acked' = acked /\ stored' = stored
    BY <1>7 DEF Settle
  <2>2. Memory'
    BY <1>1, <1>6, <2>1 DEF Memory
  <2>3. Files'
    BY <1>1, <1>3, <1>6, <2>1 DEF Files
  <2>4. Effects'
    BY <1>1, <1>6, <2>1 DEF Effects, CallLogged
  <2>5. Backed(Sure(file, compression), file, media, compression)
    <3>1. op.kind = "repair" /\ op.stage \in {"ok", "failed"}
      BY <1>1, <1>6, <1>7, KindIs DEF Disk
    <3>2. CASE op.stage = "failed"
      BY <1>6, <3>1, <3>2 DEF Repairing
    <3>3. CASE op.stage = "ok"
      <4>1. media = file
        BY <1>6, <3>1, <3>3 DEF Repairing
      <4>2. Sure(file, compression) \in 0 .. Sure(file, compression)
        BY FileIs
      <4> QED BY <4>1, <4>2, FileIs, BackedBySync
    <3> QED BY <3>1, <3>2, <3>3
  <2>6. Disk'
    BY <1>1, <1>2, <1>6, <1>7, <2>1, <2>5 DEF Disk
  <2> QED BY <1>2, <1>4, <1>5, <2>2, <2>3, <2>4, <2>6 DEF IInv, Storage
<1>8. CASE up
  <2>1. /\ acked' = IF ok THEN SubSeq(live, 1, n) ELSE acked
        /\ stored' = (stored \/ ok)
        /\ flush' = [k \in Checkpoints |->
                       IF flush[k] # "wait" THEN flush[k]
                       ELSE IF ~ok THEN "failed"
                       ELSE IF want[k] <= n THEN "ok" ELSE "wait"]
    BY <1>8 DEF Settle
  <2>2. /\ E \in Logs /\ acked \in Logs /\ Len(acked) \in Nat /\ live \in Logs
        /\ Len(op.lines) = Len(E) /\ Len(E) \in Nat /\ n \in Nat
    <3>1. E \in Logs /\ acked \in Logs /\ Len(acked) \in Nat /\ live \in Logs
      BY <1>6, FileIs DEF Memory
    <3>2. Len(op.lines) = Len(E) /\ Len(E) \in Nat
      <4>1. op.lines = Lines(E, op.before) /\ op.before \in Nat
        BY FileIs
      <4>2. Len(Lines(E, op.before)) = Len(E) /\ Len(E) \in Nat
        BY <3>1, <4>1, LinesFacts
      <4> QED BY <4>1, <4>2
    <3> QED BY <3>1, <3>2
  <2>3. IsPrefix(acked, live) /\ LogOK(live, Failed, Used)
    BY <1>6, <1>8 DEF Effects, Position
  <2>4. /\ ok => acked' = acked \o E
        /\ acked' \in Logs /\ IsPrefix(acked, acked') /\ IsPrefix(acked', live)
        /\ ok => Len(acked') = n
    <3>1. CASE ok
      <4>1. IsPrefix(acked \o E, live)
        BY <1>8, <3>1, SettledWell
      <4>2. acked \o E \in Logs /\ Len(acked \o E) = n /\ IsPrefix(acked, acked \o E)
        BY <2>2, ConcatPrefix
      <4>3. acked \o E = SubSeq(live, 1, n)
        BY <2>2, <4>1, <4>2, PrefixFacts
      <4> QED BY <2>1, <3>1, <4>1, <4>2, <4>3
    <3>2. CASE ~ok
      BY <2>1, <2>2, <2>3, <3>2, PrefixFacts
    <3> QED BY <3>1, <3>2
  <2> HIDE DEF E
  <2>5. Memory'
    <3>1. flush' \in [Checkpoints -> {"none", "wait", "ok", "failed"}]
      BY <1>6, <2>1 DEF Memory
    <3>2. stored' \in BOOLEAN
      BY <2>1
    <3> QED BY <1>1, <1>6, <2>4, <3>1, <3>2 DEF Memory
  <2>6. /\ ok => Holds(file, acked') /\ media = file /\ entry = "durable"
        /\ ok => op.kind \in {"append", "create"}
    BY <1>8, <2>4, SettledWell DEF E
  <2>7. Files'
    <3>1. CASE ~ok
      BY <1>1, <1>3, <1>6, <2>1, <3>1 DEF Files
    <3>2. CASE ok
      <4>1. Whole(file) /\ StoredEvents(file) = acked' /\ media = file
        BY <2>6, <3>2 DEF Holds
      <4>2. Sure(file, compression) = Len(acked') /\ Len(acked') \in Nat
        BY <4>1, FileIs, SureFacts DEF Whole
      <4>3. LogOK(StoredEvents(file), Failed, Used)
        BY <1>6 DEF Files, Kept
      <4>4. IsPrefix(acked', StoredEvents(file))
        BY <2>4, <4>1, PrefixFacts
      <4>5. Kept(file, compression, acked', Failed, Used)
        BY <4>2, <4>3, <4>4, FileIs DEF Kept
      <4> QED BY <1>1, <1>3, <4>1, <4>5 DEF Files
    <3> QED BY <3>1, <3>2
  <2>8. Disk'
    <3>1. CASE op.kind = "append"
      <4>1. stored /\ (~ok => Holds(file, acked)) /\ stored' /\ entry = "durable"
        BY <1>1, <1>6, <1>8, <2>1, <3>1 DEF Appending, Disk
      <4>2. Holds(file, acked')
        BY <2>1, <2>6, <4>1
      <4> QED BY <1>1, <1>2, <1>6, <1>8, <2>1, <4>1, <4>2 DEF Disk
    <3>2. CASE op.kind = "create"
      BY <1>1, <1>2, <1>6, <1>8, <2>1, <2>6, <3>2 DEF Disk, Creating
    <3> QED BY <1>1, <1>6, <1>8, <3>1, <3>2, KindIs DEF Repairing
  <2>9. Effects'
    <3>1. Len(acked') \in Nat /\ Len(acked) <= Len(acked')
          /\ \A i \in 1 .. Len(acked) : acked'[i] = acked[i]
      BY <2>2, <2>4, PrefixFacts
    <3>2. \A r \in requested : \E i \in DOMAIN acked' :
            acked'[i] = Event("request/header", r[1], r[2])
      <4>1. DOMAIN acked = 1 .. Len(acked) /\ DOMAIN acked' = 1 .. Len(acked')
        BY <2>2, <2>4 DEF Logs
      <4>2. \A r \in requested : \E i \in DOMAIN acked :
              acked[i] = Event("request/header", r[1], r[2])
        BY <1>6 DEF Effects
      <4>3. \A i \in DOMAIN acked : i \in DOMAIN acked' /\ acked'[i] = acked[i]
        BY <2>2, <3>1, <4>1
      <4> QED BY <4>2, <4>3
    <3>3. ran \subseteq Recorded(acked')
      <4>1. LogOK(acked', Failed, Used)
        BY <2>3, <2>4, LogPrefix
      <4>2. Recorded(acked) \subseteq Recorded(acked')
        BY <2>2, <2>4, <4>1, LogPrefix
      <4> QED BY <1>6, <4>2 DEF Effects
    <3>4. \A k \in Checkpoints : want[k] <= Len(live) /\ (flush'[k] = "ok" => want[k] <= Len(acked'))
      <4>1. SUFFICES ASSUME NEW k \in Checkpoints, flush'[k] = "ok" PROVE want[k] <= Len(acked')
        BY <1>6 DEF Effects
      <4>2. want[k] \in Nat
        BY <1>6 DEF Memory
      <4>3. CASE flush[k] # "wait"
        <5>1. flush[k] = "ok"
          BY <2>1, <4>1, <4>3
        <5>2. want[k] <= Len(acked)
          BY <1>6, <5>1 DEF Effects
        <5> QED BY <2>2, <3>1, <4>2, <5>2
      <4>4. CASE flush[k] = "wait"
        <5>1. ok /\ want[k] <= n
          BY <2>1, <4>1, <4>4
        <5> QED BY <2>4, <5>1
      <4> QED BY <4>3, <4>4
    <3> QED BY <1>1, <1>6, <2>4, <3>2, <3>3, <3>4 DEF Effects, CallLogged
  <2> QED BY <1>2, <1>4, <1>5, <2>5, <2>7, <2>8, <2>9 DEF IInv, Storage
<1> QED BY <1>7, <1>8

-----------------------------------------------------------------------------
(* A crash, and the load that follows. *)

\* Two files that both hold the acknowledged lines begin with them.
LEMMA SameLines ==
  ASSUME NEW f, NEW g, NEW L \in Logs, NEW comp, NEW F, NEW U,
         Kept(f, comp, L, F, U), Kept(g, comp, L, F, U)
  PROVE  /\ f \in Seq(Line) /\ g \in Seq(Line) /\ Len(f) \in Nat /\ Len(L) \in Nat
         /\ Len(L) \in 0 .. Len(f) /\ Len(L) <= Len(g)
         /\ SubSeq(f, 1, Len(L)) = SubSeq(g, 1, Len(L))
<1>1. \A h : Kept(h, comp, L, F, U) =>
        /\ h \in Seq(Line) /\ Len(h) \in Nat /\ Len(L) \in 0 .. Len(h)
        /\ \A i \in 1 .. Len(L) : h[i].whole /\ h[i].seq = i /\ h[i].event = L[i]
  <2>1. SUFFICES ASSUME NEW h, Kept(h, comp, L, F, U)
        PROVE  /\ h \in Seq(Line) /\ Len(h) \in Nat /\ Len(L) \in 0 .. Len(h)
               /\ \A i \in 1 .. Len(L) : h[i].whole /\ h[i].seq = i /\ h[i].event = L[i]
    OBVIOUS
  <2>2. Readable(h) /\ Len(L) <= Sure(h, comp) /\ IsPrefix(L, StoredEvents(h))
    BY <2>1 DEF Kept
  <2>3. /\ h \in Seq(Line) /\ Len(h) \in Nat /\ committed(h) \in 0 .. Len(h)
        /\ StoredEvents(h) \in Logs
        /\ \A i \in 1 .. committed(h) : h[i].whole /\ h[i].seq = i
        /\ \A i \in 1 .. committed(h) : StoredEvents(h)[i] = h[i].event
        /\ Sure(h, comp) \in 0 .. committed(h)
    BY <2>2, ReadableFacts, SureFacts
  <2>4. Len(L) \in Nat /\ \A i \in 1 .. Len(L) : StoredEvents(h)[i] = L[i]
    BY <2>2, <2>3, PrefixFacts
  <2>5. Len(L) <= committed(h) /\ Len(L) \in 0 .. Len(h)
    BY <2>2, <2>3, <2>4
  <2>6. \A i \in 1 .. Len(L) : i \in 1 .. committed(h)
    BY <2>3, <2>4, <2>5
  <2> QED BY <2>3, <2>4, <2>5, <2>6
<1>2. /\ f \in Seq(Line) /\ g \in Seq(Line) /\ Len(f) \in Nat /\ Len(L) \in 0 .. Len(f)
      /\ Len(g) \in Nat /\ Len(L) \in 0 .. Len(g) /\ Len(L) \in Nat
      /\ \A i \in 1 .. Len(L) : f[i].whole /\ f[i].seq = i /\ f[i].event = L[i]
      /\ \A i \in 1 .. Len(L) : g[i].whole /\ g[i].seq = i /\ g[i].event = L[i]
  BY <1>1 DEF Logs
<1>3. \A i \in 1 .. Len(L) : f[i] = g[i]
  <2>1. SUFFICES ASSUME NEW i \in 1 .. Len(L) PROVE f[i] = g[i]
    OBVIOUS
  <2>2. f[i] \in Line /\ g[i] \in Line
    BY <1>2
  <2>3. f[i].seq = g[i].seq /\ f[i].event = g[i].event /\ f[i].whole = g[i].whole
    <3>1. f[i].whole \in BOOLEAN /\ g[i].whole \in BOOLEAN
      BY <2>2 DEF Line
    <3> QED BY <1>2, <3>1
  <2> QED BY <2>2, <2>3 DEF Line
<1>4. SubSeq(f, 1, Len(L)) = SubSeq(g, 1, Len(L))
  <2>1. /\ SubSeq(f, 1, Len(L)) = [i \in 1 .. Len(L) |-> f[i]]
        /\ SubSeq(g, 1, Len(L)) = [i \in 1 .. Len(L) |-> g[i]]
    BY <1>2
  <2> QED BY <1>3, <2>1
<1> QED BY <1>2, <1>4

\* What survives a power loss still holds what was acknowledged.
LEMMA SurvivorKept ==
  ASSUME IInv, NEW g \in Survivors
  PROVE  Kept(g, compression, acked, Failed, Used)
<1>1. CASE g = media
  BY <1>1, FileIs
<1>2. CASE g \in Cuts(file, Len(LongestCommonPrefix({file, media})))
  <2> DEFINE n == Len(LongestCommonPrefix({file, media}))
  <2>1. /\ file \in Seq(Line) /\ media \in Seq(Line) /\ Len(file) \in Nat /\ Len(acked) \in Nat
        /\ Len(acked) \in 0 .. Len(file) /\ Len(acked) <= Len(media)
        /\ SubSeq(file, 1, Len(acked)) = SubSeq(media, 1, Len(acked))
    BY FileIs, SameLines
  <2>2. n \in 0 .. Len(file) /\ Len(acked) <= n /\ (file = media => n = Len(file))
    BY <2>1, CommonLength
  <2>3. n = Len(file) \/ Len(file) <= committed(file) + 1
    BY <2>2 DEF IInv, Files
  <2> HIDE DEF n
  <2>4. Len(acked) \in 0 .. n
    BY <2>1, <2>2
  <2>5. g \in Cuts(file, n)
    BY <1>2 DEF n
  <2>6. /\ Readable(g) /\ Len(acked) <= Sure(g, compression)
        /\ IsPrefix(StoredEvents(g), StoredEvents(file))
    BY <2>2, <2>3, <2>4, <2>5, FileIs, CutsRead
  <2>7. StoredEvents(g) \in Logs /\ Len(StoredEvents(g)) = committed(g)
        /\ Sure(g, compression) \in 0 .. committed(g) /\ committed(g) \in Nat
    BY <2>6, ReadableFacts, SureFacts
  <2>8. Len(acked) <= Len(StoredEvents(g))
    BY <2>1, <2>6, <2>7
  <2>9. IsPrefix(acked, StoredEvents(g))
    BY <2>6, <2>7, <2>8, FileIs, PrefixChain
  <2>10. LogOK(StoredEvents(file), Failed, Used)
    BY FileIs DEF Kept
  <2>11. LogOK(StoredEvents(g), Failed, Used)
    BY <2>6, <2>7, <2>10, LogPrefix
  <2> QED BY <2>6, <2>9, <2>11 DEF Kept
<1> QED BY <1>1, <1>2 DEF Survivors

\* An empty file has nothing to lose in a crash.
LEMMA EmptySurvivor ==
  ASSUME file = <<>>, media = <<>>, compression \in {"none", "zstd"}, NEW g \in Survivors
  PROVE  g = <<>>
<1>1. file \in Seq(Line) /\ media \in Seq(Line) /\ Len(file) = 0
  <2>1. <<>> \in Seq(Line)
    OBVIOUS
  <2> QED BY <2>1
<1>2. Len(LongestCommonPrefix({file, media})) = 0
  <2>1. 0 \in 0 .. Len(file) /\ 0 <= Len(media) /\ SubSeq(file, 1, 0) = SubSeq(media, 1, 0)
    BY <1>1
  <2>2. Len(LongestCommonPrefix({file, media})) \in 0 .. Len(file)
    BY <1>1, <2>1, CommonLength
  <2> QED BY <1>1, <2>2
<1>3. CASE g \in Cuts(file, 0)
  <2>1. SubSeq(<<>>, 1, 0) = <<>>
    OBVIOUS
  <2>2. \A m \in 0 .. Len(file) : m = 0
    BY <1>1
  <2>3. \A m \in 0 .. Len(file) - 1 : FALSE
    BY <1>1
  <2>4. \A m \in {k \in 0 .. Len(file) : 0 < Len(file)} : FALSE
    BY <1>1
  <2>5. CASE compression = "none"
    BY <1>3, <2>1, <2>2, <2>3, <2>5 DEF Cuts
  <2>6. CASE compression = "zstd"
    BY <1>3, <2>1, <2>4, <2>6 DEF Cuts
  <2> QED BY <2>5, <2>6
<1> QED BY <1>2, <1>3 DEF Survivors

\* An empty file has kept the empty log.
LEMMA EmptyKept ==
  ASSUME NEW F, NEW U, NEW comp
  PROVE  Kept(<<>>, comp, <<>>, F, U)
<1>1. LogOK(<<>>, F, U) /\ <<>> \in Logs
  BY EmptyLegal
<1>2. Lines(<<>>, 0) = <<>>
  <2>1. Len(Lines(<<>>, 0)) = 0 /\ Lines(<<>>, 0) \in Seq(Line)
    BY <1>1, LinesFacts
  <2> QED BY <2>1
<1> QED BY <1>1, <1>2, NewKept

\* A crash leaves the disk, or any part of what was not yet synced: all that
\* was acknowledged is among it.
LEMMA CrashKeeps ==
  ASSUME IInv, Crash PROVE IInv'
<1>1. /\ op' = NoOp /\ media' = file' /\ compression' = compression
      /\ upsets < MaxUpsets /\ upsets' = upsets + 1
      /\ turn' = turn /\ requested' = requested /\ ran' = ran /\ acked' = acked
      /\ stored' = stored /\ up' = FALSE
      /\ live' = <<>> /\ at' = "idle" /\ step' = 0 /\ cancelled' = FALSE
      /\ flush' = [k \in Checkpoints |-> "none"]
      /\ want' = [k \in Checkpoints |-> 0]
      /\ stage' = [c \in Calls |->
                     IF stage[c] \in {"new", "failed"} THEN stage[c] ELSE "answered"]
  BY DEF Crash, LoseUnsynced, Forget, effects
<1>2. /\ Memory /\ Files /\ Effects /\ Disk /\ Steps
  BY DEF IInv, Storage
<1>3. Failed' = Failed /\ Used' = Used /\ InStep' = {}
  <2>1. \A c \in Calls : stage'[c] = IF stage[c] \in {"new", "failed"} THEN stage[c] ELSE "answered"
    BY <1>1
  <2>2. Failed' = Failed
    BY <2>1 DEF Failed
  <2>3. Used' = Used
    BY <2>1 DEF Used
  <2>4. InStep' = {}
    BY <2>1 DEF InStep
  <2> QED BY <2>2, <2>3, <2>4
<1>4. /\ Kept(file', compression, acked, Failed, Used)
      /\ entry' \in {"none", "durable"} /\ (entry' = "none" => file' = <<>>)
      /\ ~stored' => acked = <<>>
  <2>1. CASE entry = "linked" /\ entry' = "none" /\ file' = <<>>
    <3>1. acked = <<>>
      BY <1>2, <2>1 DEF Disk
    <3> QED BY <2>1, <3>1, EmptyKept
  <2>2. CASE entry' = (IF entry = "linked" THEN "durable" ELSE entry) /\ file' \in Survivors
    <3>1. Kept(file', compression, acked, Failed, Used)
      BY <2>2, SurvivorKept
    <3>2. entry = "none" => file' = <<>>
      <4>1. SUFFICES ASSUME entry = "none" PROVE file' = <<>>
        OBVIOUS
      <4>2. file = <<>> /\ media = <<>>
        BY <1>2, <4>1 DEF Disk
      <4> QED BY <2>2, <4>2, FileIs, EmptySurvivor
    <3>3. entry \in {"none", "linked", "durable"}
      BY <1>2 DEF Memory
    <3> QED BY <1>1, <1>2, <2>2, <3>1, <3>2, <3>3 DEF Disk
  <2> QED BY <1>1, <1>2, <2>1, <2>2 DEF Crash, LoseUnsynced, Disk
<1>5. Files'
  BY <1>1, <1>3, <1>4 DEF Files
<1>6. Operation' /\ op'.kind = "none"
  BY <1>1, NoOpIs DEF Operation
<1>7. Appending' /\ Creating' /\ Repairing'
  BY <1>6 DEF Appending, Creating, Repairing
<1>8. Disk'
  <2>1. Readable(file') /\ Sure(file', compression) \in 0 .. committed(file')
    BY <1>4, SureFacts DEF Kept
  <2>2. Sure(file', compression) \in 0 .. Sure(file', compression)
    BY <2>1
  <2>3. Backed(Sure(file', compression), file', file', compression)
    BY <2>1, <2>2, BackedBySync
  <2> QED BY <1>1, <1>4, <1>6, <2>3 DEF Disk
<1>9. Effects'
  <2>1. \A k \in Checkpoints : want'[k] = 0 /\ flush'[k] = "none"
    BY <1>1
  <2>2. \A c \in Calls : stage'[c] # "checkpoint"
    BY <1>1
  <2>3. Len(live') = 0
    BY <1>1
  <2> QED BY <1>1, <1>2, <2>1, <2>2, <2>3 DEF Effects
<1>10. Position'
  <2>1. LogOK(<<>>, Failed, Used)
    BY EmptyLegal
  <2> QED BY <1>1, <1>3, <2>1 DEF Position
<1>11. Steps'
  <2>1. PICK k \in 0 .. MaxCalls : Used = 1 .. k
    BY <1>2 DEF Steps
  <2>2. k \in Nat
    BY MaxCallsAssumption
  <2>3. step' <= k + (IF at' \in {"building", "request", "streaming"} THEN 1 ELSE 0)
    BY <1>1, <2>2
  <2> QED BY <1>3, <2>1, <2>3 DEF Steps
<1>12. Memory'
  <2>1. upsets' \in 0 .. MaxUpsets
    BY <1>1, <1>2, JsonlAssumption DEF Memory
  <2>2. live' \in Logs
    BY <1>1, EmptyLegal
  <2>3. /\ flush' \in [Checkpoints -> {"none", "wait", "ok", "failed"}]
        /\ want' \in [Checkpoints -> Nat]
    BY <1>1
  <2>4. stage' \in [Calls -> CallStages]
    BY <1>1, <1>2 DEF Memory, CallStages
  <2>5. entry' \in {"none", "linked", "durable"} /\ at' \in Places /\ step' \in Nat
    BY <1>1, <1>4 DEF Places
  <2> QED BY <1>1, <1>2, <2>1, <2>2, <2>3, <2>4, <2>5 DEF Memory
<1> QED BY <1>5, <1>6, <1>7, <1>8, <1>9, <1>10, <1>11, <1>12 DEF IInv, Storage

\* A log without an open turn: the session goes on after its last one.
LEMMA BetweenTurns ==
  ASSUME NEW L, NEW F, NEW U, LogOK(L, F, U), RepairScan(L).turn = 0
  PROVE  /\ LastTurn(L) \in 0 .. MaxTurns
         /\ \E nm : Stands(L, 0, 0, {}, {}, LastTurn(L) + 1, nm)
<1>1. PICK n, m, P, R, nn, nm :
        /\ Stands(L, n, m, P, R, nn, nm) /\ Fits(n, m, P, R, nn, nm)
        /\ RepairScan(L).turn = n
  BY LogFacts
<1>2. n = 0 /\ m = 0 /\ P = {} /\ R = {} /\ nn \in 1 .. MaxTurns + 1
  <2>1. n = 0
    BY <1>1
  <2>2. /\ n = 0 => m = 0
        /\ m = 0 => P = {}
        /\ R \in SUBSET P /\ nn \in 1 .. MaxTurns + 1
    BY <1>1 DEF Fits
  <2> QED BY <2>1, <2>2
<1>3. LastTurn(L) = nn - 1
  BY <1>1 DEF Stands, LastTurn
<1>4. LastTurn(L) \in 0 .. MaxTurns /\ LastTurn(L) + 1 = nn
  BY <1>2, <1>3, RecoveryAssumption
<1> QED BY <1>1, <1>2, <1>4

\* A session that is resumed from a log that ends between turns.
LEMMA ResumeKeeps ==
  ASSUME IInv, ~up, op = NoOp, UNCHANGED effects,
         NEW L, LogOK(L, Failed, Used), RepairScan(L).turn = 0, IsPrefix(acked, L),
         NEW exists \in BOOLEAN, Resume(L, exists),
         Kept(file, compression, L, Failed, Used), Kept(media, compression, L, Failed, Used),
         exists => Holds(file, L) /\ entry = "durable",
         ~exists => L = <<>> /\ entry = "none"
  PROVE  IInv'
<1>1. /\ up' = TRUE /\ live' = L /\ acked' = L /\ stored' = exists /\ turn' = LastTurn(L)
      /\ compression' = compression /\ file' = file /\ media' = media /\ entry' = entry
      /\ op' = NoOp /\ upsets' = upsets /\ flush' = flush /\ want' = want /\ at' = at
      /\ step' = step /\ stage' = stage /\ cancelled' = cancelled
      /\ requested' = requested /\ ran' = ran
  BY DEF Resume, jsonlVars, effects
<1>2. /\ Memory /\ Files /\ Effects /\ Disk /\ Steps /\ Position /\ Operation
  BY DEF IInv, Storage
<1>3. Failed' = Failed /\ Used' = Used /\ InStep' = InStep
  BY <1>1 DEF Failed, Used, InStep
<1>4. at = "idle" /\ live = <<>> /\ InStep = {} /\ step = 0
  BY <1>2 DEF Position
<1>5. L \in Logs /\ Len(L) \in Nat
  BY LogFacts DEF Logs
<1>6. LastTurn(L) \in 0 .. MaxTurns /\ \E nm : Stands(L, 0, 0, {}, {}, LastTurn(L) + 1, nm)
  BY BetweenTurns
<1>7. Memory'
  BY <1>1, <1>2, <1>5, <1>6 DEF Memory
<1>8. Operation' /\ op'.kind = "none"
  BY <1>1, NoOpIs DEF Operation
<1>9. Files'
  BY <1>1, <1>2, <1>3 DEF Files
<1>10. Appending' /\ Creating' /\ Repairing'
  BY <1>8 DEF Appending, Creating, Repairing
<1>11. Disk'
  BY <1>1, <1>2, <1>8 DEF Disk
<1>12. Effects'
  <2>1. IsPrefix(L, L) /\ \A i \in 1 .. Len(acked) : acked[i] = L[i] /\ i \in 1 .. Len(L)
    <3>1. acked \in Logs /\ Len(acked) \in Nat
      BY FileIs
    <3>2. Len(acked) \in 0 .. Len(L) /\ \A i \in 1 .. Len(acked) : acked[i] = L[i]
      BY <1>5, <3>1, PrefixFacts
    <3> QED BY <1>5, <3>1, <3>2, PrefixFacts
  <2>2. DOMAIN acked = 1 .. Len(acked) /\ DOMAIN L = 1 .. Len(L)
    BY <1>5, FileIs DEF Logs
  <2>3. \A r \in requested : \E i \in DOMAIN L : L[i] = Event("request/header", r[1], r[2])
    <3>1. \A r \in requested : \E i \in DOMAIN acked :
            acked[i] = Event("request/header", r[1], r[2])
      BY <1>2 DEF Effects
    <3> QED BY <2>1, <2>2, <3>1
  <2>4. ran \subseteq Recorded(L)
    <3>1. Recorded(acked) \subseteq Recorded(L)
      BY FileIs, LogPrefix
    <3> QED BY <1>2, <3>1 DEF Effects
  <2>5. \A k \in Checkpoints : want[k] = 0
    <3>1. \A k \in Checkpoints : want[k] \in Nat /\ want[k] <= 0
      BY <1>2, <1>4 DEF Memory, Effects
    <3> QED BY <3>1
  <2>6. \A c \in Calls : stage[c] # "checkpoint"
    BY <1>4 DEF InStep
  <2> QED BY <1>1, <1>4, <1>5, <2>1, <2>3, <2>4, <2>5, <2>6 DEF Effects
<1>13. Position'
  BY <1>1, <1>3, <1>4, <1>6 DEF Position
<1>14. Steps'
  BY <1>1, <1>2, <1>3 DEF Steps
<1> QED BY <1>7, <1>8, <1>9, <1>10, <1>11, <1>12, <1>13, <1>14 DEF IInv, Storage

\* The closers of an interrupted log are handed to the backend.
LEMMA CommitRepairKeeps ==
  ASSUME IInv, ~up, op = NoOp, entry # "none", Aside,
         CommitRepair(interruptedTurnClosers(StoredEvents(file)))
  PROVE  IInv'
<1> DEFINE L == StoredEvents(file)
           closers == interruptedTurnClosers(L)
           b == Sure(file, compression)
           E == recoveredEvents(file) \o closers
<1>1. /\ file' = file /\ media' = media /\ entry' = entry /\ upsets' = upsets
      /\ op' = [kind |-> "repair", stage |-> IF tornMarker(file) THEN "truncate" ELSE "write",
                before |-> truncateTo(file), lines |-> Lines(E, truncateTo(file))]
  BY DEF CommitRepair
<1>2. truncateTo(file) = b /\ (tornMarker(file) <=> Torn(file))
  BY FileIs, ReaderAgrees
<1>3. LogOK(L, Failed, Used)
  BY FileIs DEF Kept
<1>4. closers \in Logs /\ LogOK(L \o closers, Failed, Used) /\ RepairScan(L \o closers).turn = 0
  BY <1>3, Closers
<1>5. /\ L \in Logs /\ Len(L) = committed(file) /\ b \in 0 .. Len(L) /\ b \in Nat
      /\ Len(acked) <= b
  BY FileIs
<1>6. recoveredEvents(file) = SubSeq(L, b + 1, Len(L))
  BY <1>2, <1>5 DEF recoveredEvents
<1>7. SubSeq(L, 1, b) \in Logs /\ Len(SubSeq(L, 1, b)) = b /\ IsPrefix(SubSeq(L, 1, b), L)
  BY <1>5, PrefixOf
<1> HIDE DEF L, closers, b
<1>8. recoveredEvents(file) \in Logs /\ SubSeq(L, 1, b) \o recoveredEvents(file) = L
  <2>1. LET P == SubSeq(L, 1, b)
            R == SubSeq(L, Len(P) + 1, Len(L))
        IN R \in Logs /\ P \o R = L
    BY <1>5, <1>7, RestOf
  <2> QED BY <1>6, <1>7, <2>1
<1>9. E \in Logs /\ SubSeq(L, 1, b) \o E = L \o closers
  <2>1. /\ \A P, R, C \in Logs : P \o (R \o C) = (P \o R) \o C
        /\ \A R, C \in Logs : R \o C \in Logs
    BY LogAssoc
  <2>2. SubSeq(L, 1, b) \o E = (SubSeq(L, 1, b) \o recoveredEvents(file)) \o closers
    BY <1>4, <1>7, <1>8, <2>1
  <2> QED BY <1>4, <1>8, <2>1, <2>2
<1> HIDE DEF E
<1>10. Lines(E, b) \in Seq(Line) /\ EventsOf(Lines(E, b)) = E
  BY <1>5, <1>9, LinesFacts
<1>11. /\ op' \in [kind : Kinds, stage : Stages, lines : Seq(Line), before : Nat]
       /\ op'.kind = "repair" /\ op'.lines = Lines(E, b) /\ op'.before = b
       /\ op'.stage = IF Torn(file) THEN "truncate" ELSE "write"
  <2>1. op' = [kind |-> "repair", stage |-> IF Torn(file) THEN "truncate" ELSE "write",
               before |-> b, lines |-> Lines(E, b)]
    BY <1>1, <1>2
  <2>2. CASE Torn(file)
    BY <1>5, <1>10, <2>1, <2>2 DEF Kinds, Stages
  <2>3. CASE ~Torn(file)
    BY <1>5, <1>10, <2>1, <2>3 DEF Kinds, Stages
  <2> QED BY <2>2, <2>3
<1>12. Operation'
  BY <1>9, <1>10, <1>11 DEF Operation
<1>13. entry = "durable" /\ Backed(b, file, media, compression)
  <2>1. entry \in {"none", "linked", "durable"} /\ Disk
    BY Frame
  <2>2. op.kind = "none"
    BY NoOpIs
  <2> QED BY <2>1, <2>2 DEF Disk, b
<1>14. Target(file, op') = L \o closers
  <2>1. Target(file, op') = SubSeq(L, 1, b) \o E
    BY <1>10, <1>11 DEF Target, L
  <2> QED BY <1>9, <2>1
<1>15. ~Torn(file) => Whole(file) /\ Len(file) = b
  BY FileIs, SureFacts DEF b
<1>16. Repairing'
  BY <1>1, <1>4, <1>5, <1>11, <1>13, <1>14, <1>15, Frame DEF Repairing, b
<1>17. Files'
  BY <1>1, Frame DEF Files
<1>18. Appending' /\ Creating'
  BY <1>11 DEF Appending, Creating
<1>19. Disk'
  BY <1>1, <1>11, <1>13, Frame DEF Disk
<1>20. Memory'
  BY <1>1 DEF Aside, memory, effects, Memory, IInv
<1> QED BY <1>12, <1>16, <1>17, <1>18, <1>19, <1>20, AsideKeeps DEF IInv, Storage

\* A restart: nothing to load, a log to take as it is, or one to repair.
LEMMA LoadKeeps ==
  ASSUME IInv, Load PROVE IInv'
<1> DEFINE L == StoredEvents(file)
           closers == interruptedTurnClosers(L)
<1>1. ~up /\ op = NoOp /\ UNCHANGED effects /\ Disk
  BY DEF Load, IInv, Storage
<1>2. LogOK(L, Failed, Used) /\ IsPrefix(acked, L) /\ L \in Logs
      /\ LogOK(<<>>, Failed, Used)
  BY FileIs, EmptyLegal DEF Kept
<1>3. CASE entry = "none" /\ Resume(<<>>, FALSE)
  <2>1. file = <<>> /\ media = <<>>
    BY <1>1, <1>3 DEF Disk
  <2>2. Kept(<<>>, compression, <<>>, Failed, Used)
    BY EmptyKept
  <2>3. StoredEvents(<<>>) = <<>>
    <3>1. Len(StoredEvents(<<>>)) = committed(<<>>) /\ committed(<<>>) \in 0 .. Len(<<>>)
          /\ StoredEvents(<<>>) \in Logs
      BY <2>2, ReadableFacts DEF Kept
    <3>2. Len(StoredEvents(<<>>)) = 0
      BY <3>1
    <3> QED BY <3>1, <3>2 DEF Logs
  <2>4. IsPrefix(acked, <<>>)
    BY <1>2, <2>1, <2>3
  <2>5. RepairScan(<<>>).turn = 0
    BY EmptyLegal DEF Stands
  <2> QED BY <1>1, <1>2, <1>3, <2>1, <2>2, <2>4, <2>5, ResumeKeeps
<1>4. CASE entry # "none" /\ CommitRepair(closers) /\ UNCHANGED <<memory, up, acked, stored>>
  <2>1. Aside
    BY <1>1, <1>4 DEF Aside, CommitRepair
  <2> QED BY <1>1, <1>4, <2>1, CommitRepairKeeps
<1>5. CASE entry # "none" /\ ~tornMarker(file) /\ closers = <<>> /\ Resume(L, TRUE)
  <2>1. ~Torn(file)
    BY <1>5, FileIs, ReaderAgrees
  <2>2. Whole(file) /\ Sure(file, compression) = Len(file) /\ Len(L) = Len(file)
    BY <2>1, FileIs, SureFacts DEF Whole
  <2>3. RepairScan(L).turn = 0
    BY <1>2, <1>5, Closers
  <2>4. entry = "durable" /\ Backed(Sure(file, compression), file, media, compression)
    <3>1. entry \in {"none", "linked", "durable"}
      BY DEF IInv, Memory
    <3> QED BY <1>1, <1>5, <3>1, NoOpIs DEF Disk
  <2>5. Len(L) <= Sure(media, compression) /\ SubSeq(StoredEvents(media), 1, Len(L)) = L
    <3>1. SubSeq(L, 1, Len(L)) = L
      BY <1>2, PrefixOf, PrefixFacts
    <3> QED BY <2>2, <2>4, <3>1 DEF Backed
  <2>6. Kept(file, compression, L, Failed, Used)
    BY <1>2, <2>2, FileIs, PrefixFacts DEF Kept
  <2>7. Kept(media, compression, L, Failed, Used)
    <3>1. /\ Readable(media) /\ StoredEvents(media) \in Logs
          /\ LogOK(StoredEvents(media), Failed, Used)
      BY FileIs DEF Kept
    <3>2. Len(L) \in 0 .. Len(StoredEvents(media))
      <4>1. Sure(media, compression) \in 0 .. committed(media)
            /\ Len(StoredEvents(media)) = committed(media) /\ committed(media) \in Nat
        BY <3>1, ReadableFacts, SureFacts
      <4>2. Len(L) \in Nat
        BY <1>2 DEF Logs
      <4> QED BY <2>5, <4>1, <4>2
    <3>3. IsPrefix(L, StoredEvents(media))
      BY <1>2, <2>5, <3>1, <3>2, PrefixFacts
    <3> QED BY <2>5, <3>1, <3>3 DEF Kept
  <2> HIDE DEF L
  <2>8. Holds(file, L)
    BY <2>2 DEF Holds, L
  <2> QED BY <1>1, <1>2, <1>5, <2>3, <2>4, <2>6, <2>7, <2>8, ResumeKeeps
<1> QED BY <1>3, <1>4, <1>5 DEF Load

-----------------------------------------------------------------------------
(* The turn loop. *)

\* Two events make a sequence of two.
LEMMA Pair ==
  ASSUME NEW S, NEW d \in S, NEW e \in S PROVE <<d>> \o <<e>> = <<d, e>>
<1>1. /\ <<d>> \in Seq(S) /\ <<e>> \in Seq(S) /\ <<d, e>> \in Seq(S)
      /\ Len(<<d>>) = 1 /\ Len(<<e>>) = 1 /\ Len(<<d, e>>) = 2
  OBVIOUS
<1>2. <<d>> \o <<e>> \in Seq(S) /\ Len(<<d>> \o <<e>>) = 2
  BY <1>1
<1>3. (<<d>> \o <<e>>)[1] = d /\ (<<d>> \o <<e>>)[2] = e
  BY <1>1
<1>4. <<d, e>>[1] = d /\ <<d, e>>[2] = e
  OBVIOUS
<1>5. \A i \in 1 .. 2 : i = 1 \/ i = 2
  OBVIOUS
<1> QED BY <1>1, <1>2, <1>3, <1>4, <1>5, SeqEqual

\* The events of one step of the loop, appended one by one.
LEMMA LogIs ==
  ASSUME NEW L \in Logs, NEW d \in Grammar!Events
  PROVE  /\ Append(L, d) \in Logs /\ Len(Append(L, d)) = Len(L) + 1 /\ Len(L) \in Nat
         /\ Append(L, d)[Len(L) + 1] = d
         /\ IsPrefix(L, Append(L, d)) /\ IsPrefix(L, L)
         /\ L \o <<d>> = Append(L, d) /\ L \o (<<>> \o <<d>>) = Append(L, d)
         /\ \A e \in Grammar!Events :
              /\ Append(Append(L, d), e) \in Logs /\ IsPrefix(L, Append(Append(L, d), e))
              /\ L \o <<d, e>> = Append(Append(L, d), e)
              /\ L \o (<<d>> \o <<e>>) = Append(Append(L, d), e)
         /\ \A e, h \in Grammar!Events :
              /\ Append(Append(Append(L, d), e), h) \in Logs
              /\ IsPrefix(L, Append(Append(Append(L, d), e), h))
              /\ L \o (<<d, e>> \o <<h>>) = Append(Append(Append(L, d), e), h)
<1>1. \A M \in Logs, e \in Grammar!Events :
        /\ M \o <<e>> = Append(M, e) /\ Append(M, e) \in Logs /\ IsPrefix(M, Append(M, e))
        /\ Len(M) \in Nat /\ Len(Append(M, e)) = Len(M) + 1 /\ Append(M, e)[Len(M) + 1] = e
  <2>1. SUFFICES ASSUME NEW M \in Logs, NEW e \in Grammar!Events
        PROVE  /\ M \o <<e>> = Append(M, e) /\ Append(M, e) \in Logs /\ IsPrefix(M, Append(M, e))
               /\ Len(M) \in Nat /\ Len(Append(M, e)) = Len(M) + 1 /\ Append(M, e)[Len(M) + 1] = e
    OBVIOUS
  <2>2. /\ M \o <<e>> = Append(M, e) /\ Append(M, e) \in Logs /\ <<e>> \in Logs
        /\ Len(M) \in Nat /\ Len(Append(M, e)) = Len(M) + 1 /\ Append(M, e)[Len(M) + 1] = e
    BY DEF Logs
  <2>3. IsPrefix(M, M \o <<e>>)
    BY <2>2, ConcatPrefix
  <2> QED BY <2>2, <2>3
<1>2. \A e \in Grammar!Events : <<e>> \in Logs /\ <<>> \o <<e>> = <<e>>
  BY DEF Logs
<1>3. \A A, B, C \in Logs : A \o (B \o C) = (A \o B) \o C
  BY LogAssoc
<1>4. \A e \in Grammar!Events :
        /\ Append(Append(L, d), e) \in Logs /\ IsPrefix(L, Append(Append(L, d), e))
        /\ L \o <<d, e>> = Append(Append(L, d), e)
        /\ L \o (<<d>> \o <<e>>) = Append(Append(L, d), e)
  <2>1. SUFFICES ASSUME NEW e \in Grammar!Events
        PROVE  /\ Append(Append(L, d), e) \in Logs /\ IsPrefix(L, Append(Append(L, d), e))
               /\ L \o <<d, e>> = Append(Append(L, d), e)
               /\ L \o (<<d>> \o <<e>>) = Append(Append(L, d), e)
    OBVIOUS
  <2>2. Append(L, d) \in Logs /\ IsPrefix(L, Append(L, d))
    BY <1>1
  <2>3. Append(Append(L, d), e) \in Logs /\ IsPrefix(Append(L, d), Append(Append(L, d), e))
    BY <1>1, <2>2
  <2>4. IsPrefix(L, Append(Append(L, d), e))
    BY <2>2, <2>3, PrefixChain
  <2>5. L \o (<<d>> \o <<e>>) = (L \o <<d>>) \o <<e>>
    BY <1>2, <1>3
  <2>6. (L \o <<d>>) \o <<e>> = Append(Append(L, d), e)
    BY <1>1, <2>2
  <2>7. <<d>> \o <<e>> = <<d, e>>
    BY Pair
  <2> QED BY <2>3, <2>4, <2>5, <2>6, <2>7
<1>5. \A e, h \in Grammar!Events :
        /\ Append(Append(Append(L, d), e), h) \in Logs
        /\ IsPrefix(L, Append(Append(Append(L, d), e), h))
        /\ L \o (<<d, e>> \o <<h>>) = Append(Append(Append(L, d), e), h)
  <2>1. SUFFICES ASSUME NEW e \in Grammar!Events, NEW h \in Grammar!Events
        PROVE  /\ Append(Append(Append(L, d), e), h) \in Logs
               /\ IsPrefix(L, Append(Append(Append(L, d), e), h))
               /\ L \o (<<d, e>> \o <<h>>) = Append(Append(Append(L, d), e), h)
    OBVIOUS
  <2>2. /\ Append(Append(L, d), e) \in Logs /\ IsPrefix(L, Append(Append(L, d), e))
        /\ L \o <<d, e>> = Append(Append(L, d), e)
    BY <1>4
  <2>3. /\ Append(Append(Append(L, d), e), h) \in Logs
        /\ IsPrefix(Append(Append(L, d), e), Append(Append(Append(L, d), e), h))
        /\ Append(Append(L, d), e) \o <<h>> = Append(Append(Append(L, d), e), h)
    BY <1>1, <2>2
  <2>4. IsPrefix(L, Append(Append(Append(L, d), e), h))
    BY <2>2, <2>3, PrefixChain
  <2>5. <<d, e>> \in Logs
    BY DEF Logs
  <2>6. L \o (<<d, e>> \o <<h>>) = (L \o <<d, e>>) \o <<h>>
    BY <1>2, <1>3, <2>5
  <2> QED BY <2>2, <2>3, <2>4, <2>6
<1> QED BY <1>1, <1>2, <1>4, <1>5, PrefixFacts

\* The log grows: what is on the disk, and the operation that writes it, need
\* not care.
LEMMA StorageGrows ==
  ASSUME IInv, up, UNCHANGED loopFrame, live' \in Logs, IsPrefix(live, live'),
         Failed \subseteq Failed', Used \subseteq Used'
  PROVE  Operation' /\ Files' /\ Storage' /\ IsPrefix(acked', live')
<1>1. /\ compression' = compression /\ file' = file /\ media' = media /\ entry' = entry
      /\ op' = op /\ upsets' = upsets /\ up' = up /\ acked' = acked /\ stored' = stored
  BY DEF loopFrame, jsonlVars
<1>2. /\ Memory /\ Files /\ Effects /\ Disk /\ Operation /\ Appending /\ Creating /\ Repairing
  BY DEF IInv, Storage
<1>3. /\ live \in Logs /\ acked \in Logs /\ EventsOf(op.lines) \in Logs
      /\ acked \o EventsOf(op.lines) \in Logs
  BY <1>2, FileIs, ConcatPrefix DEF Memory
<1>4. IsPrefix(acked, live')
  BY <1>2, <1>3, PrefixChain DEF Effects
<1>5. Batch => Batch'
  BY <1>1, <1>3, PrefixChain DEF Batch
<1>6. \A f : Kept(f, compression, acked, Failed, Used) => Kept(f, compression, acked, Failed', Used')
  <2>1. SUFFICES ASSUME NEW f, Kept(f, compression, acked, Failed, Used)
        PROVE  LogOK(StoredEvents(f), Failed', Used')
    BY DEF Kept
  <2>2. LogOK(StoredEvents(f), Failed, Used)
    BY <2>1 DEF Kept
  <2> QED BY <2>2, LogLater
<1>7. Files'
  BY <1>1, <1>2, <1>6 DEF Files
<1>8. Operation'
  BY <1>1, <1>2 DEF Operation
<1>9. Appending'
  BY <1>1, <1>2, <1>5 DEF Appending
<1>10. Creating'
  BY <1>1, <1>2, <1>5 DEF Creating
<1>11. Repairing'
  BY <1>1, <1>2 DEF Repairing
<1>12. Disk'
  BY <1>1, <1>2 DEF Disk
<1> QED BY <1>1, <1>4, <1>7, <1>8, <1>9, <1>10, <1>11, <1>12 DEF Storage

\* Each flush that answered "ok" found its events acknowledged.
Flushing ==
  \/ UNCHANGED <<flush, want>>
  \/ \E k \in Checkpoints : Flush(k, live') \/ Answered(k)

\* Appending to the live log keeps the flushes that wait, and those settled.
LEMMA FlushKeeps ==
  ASSUME IInv, acked' = acked, live' \in Logs, IsPrefix(live, live'), Flushing
  PROVE  /\ flush' \in [Checkpoints -> {"none", "wait", "ok", "failed"}]
         /\ want' \in [Checkpoints -> Nat]
         /\ \A k \in Checkpoints : want'[k] <= Len(live') /\ (flush'[k] = "ok" => want'[k] <= Len(acked))
<1>1. /\ flush \in [Checkpoints -> {"none", "wait", "ok", "failed"}]
      /\ want \in [Checkpoints -> Nat] /\ live \in Logs /\ acked \in Logs
      /\ \A k \in Checkpoints : want[k] <= Len(live) /\ (flush[k] = "ok" => want[k] <= Len(acked))
  BY DEF IInv, Memory, Effects
<1>2. Len(live) \in Nat /\ Len(live') \in Nat /\ Len(live) <= Len(live') /\ Len(acked) \in Nat
  BY <1>1, PrefixFacts
<1>3. CASE UNCHANGED <<flush, want>>
  BY <1>1, <1>2, <1>3
<1>4. CASE \E k \in Checkpoints : Flush(k, live')
  <2>1. PICK k \in Checkpoints : Flush(k, live')
    BY <1>4
  <2>2. /\ flush' = [flush EXCEPT ![k] = IF Len(acked) = Len(live') THEN "ok" ELSE "wait"]
        /\ want' = [want EXCEPT ![k] = Len(live')]
    BY <2>1 DEF Flush
  <2> QED BY <1>1, <1>2, <2>2
<1>5. CASE \E k \in Checkpoints : Answered(k)
  <2>1. PICK k \in Checkpoints : flush' = [flush EXCEPT ![k] = "none"] /\ want' = want
    BY <1>5 DEF Answered
  <2> QED BY <1>1, <1>2, <2>1
<1> QED BY <1>3, <1>4, <1>5 DEF Flushing

\* What a step of the loop has to show.
LEMMA LoopKeeps ==
  ASSUME IInv, up, UNCHANGED loopFrame, live' \in Logs, IsPrefix(live, live'),
         Failed \subseteq Failed', Used \subseteq Used', Flushing,
         \A r \in requested' :
           r \in requested \/ \E i \in DOMAIN acked : acked[i] = Event("request/header", r[1], r[2]),
         ran' \subseteq ran \cup Recorded(acked),
         at' = "request" => want'[0] # 0 /\ live'[want'[0]] = Event("request/header", turn', step'),
         \A c \in Calls : stage'[c] = "checkpoint" =>
           want'[c] # 0 /\ live'[want'[c]] = CallEvent("tool/call", turn', step', c),
         at' \in Places, turn' \in 0 .. MaxTurns, step' \in Nat, cancelled' \in BOOLEAN,
         stage' \in [Calls -> CallStages], ran' \subseteq Calls,
         requested' \subseteq (1 .. MaxTurns) \X (1 .. MaxCalls + 1),
         Position', Steps'
  PROVE  IInv'
<1>1. Operation' /\ Files' /\ Storage' /\ IsPrefix(acked', live')
  BY StorageGrows
<1>2. /\ compression' = compression /\ entry' = entry /\ upsets' = upsets /\ up' = up
      /\ acked' = acked /\ stored' = stored
  BY DEF loopFrame, jsonlVars
<1>3. /\ flush' \in [Checkpoints -> {"none", "wait", "ok", "failed"}]
      /\ want' \in [Checkpoints -> Nat]
      /\ \A k \in Checkpoints : want'[k] <= Len(live') /\ (flush'[k] = "ok" => want'[k] <= Len(acked))
  BY <1>2, FlushKeeps
<1>4. Memory'
  BY <1>2, <1>3 DEF IInv, Memory
<1>5. Effects'
  <2>1. /\ \A r \in requested : \E i \in DOMAIN acked :
             acked[i] = Event("request/header", r[1], r[2])
        /\ ran \subseteq Recorded(acked)
    BY DEF IInv, Effects
  <2>2. \A r \in requested' : \E i \in DOMAIN acked' :
          acked'[i] = Event("request/header", r[1], r[2])
    BY <1>2, <2>1
  <2>3. ran' \subseteq Recorded(acked')
    BY <1>2, <2>1
  <2> QED BY <1>1, <1>2, <1>3, <2>2, <2>3 DEF Effects, CallLogged
<1> QED BY <1>1, <1>4, <1>5 DEF IInv

\* What the loop knows where it stands.
LEMMA Here ==
  ASSUME IInv
  PROVE  /\ LogOK(live, Failed, Used) /\ live \in Logs /\ acked \in Logs
         /\ at # "idle" => up
         /\ turn \in 0 .. MaxTurns /\ step \in Nat /\ stage \in [Calls -> CallStages]
         /\ cancelled \in BOOLEAN /\ ran \subseteq Calls
         /\ requested \subseteq (1 .. MaxTurns) \X (1 .. MaxCalls + 1)
         /\ at \in Places /\ up \in BOOLEAN
         /\ Event("turn/end", turn, 0) \in Grammar!Events
         /\ Event("step/end", turn, step) \in Grammar!Events
         /\ IsPrefix(live, live)
         /\ 0 \in Checkpoints /\ \A c \in Calls : c \in Checkpoints
         /\ \A c \in Calls : stage[c] = "checkpoint" =>
              want[c] # 0 /\ live[want[c]] = CallEvent("tool/call", turn, step, c)
         /\ Position /\ Steps
<1>1. Memory /\ Position /\ Steps /\ Effects
  BY DEF IInv
<1>2. turn \in Nat /\ step \in Nat
  BY <1>1, RecoveryAssumption DEF Memory
<1>3. /\ Event("turn/end", turn, 0) \in Grammar!Events
      /\ Event("step/end", turn, step) \in Grammar!Events
  <2>1. "turn/end" \in Grammar!EventTypes /\ "step/end" \in Grammar!EventTypes /\ 0 \in Nat
    BY EventIs
  <2> QED BY <1>2, <2>1, EventIs
<1>4. live \in Logs /\ IsPrefix(live, live)
  BY <1>1, PrefixFacts DEF Memory
<1>5. at # "idle" => up
  BY <1>1 DEF Position, Memory
<1> QED BY <1>1, <1>3, <1>4, <1>5 DEF Memory, Position, Effects, CallLogged, Checkpoints

\* Leaving a turn.
LEMMA LeavePosition ==
  ASSUME IInv, at # "tools", stage' = stage, turn' = turn, up' = up, up,
         at' = "idle", step' = 0, turn # 0,
         NEW M, LogOK(M, Failed, Used), NEW nm, Stands(M, turn, 0, {}, {}, turn, nm),
         live' = Append(M, TurnEnd)
  PROVE  Position' /\ Steps' /\ Failed' = Failed /\ Used' = Used
<1>1. Failed' = Failed /\ Used' = Used /\ InStep' = InStep /\ InStep = {}
  BY Here DEF Failed, Used, InStep, Position
<1>2. LogOK(live', Failed, Used) /\ Stands(live', 0, 0, {}, {}, turn + 1, nm)
  BY TurnEnds DEF TurnEnd
<1>3. Position'
  BY <1>1, <1>2 DEF Position
<1>4. Steps'
  <2>1. PICK k \in 0 .. MaxCalls : Used = 1 .. k
    BY Here DEF Steps
  <2>2. k \in Nat
    BY MaxCallsAssumption
  <2>3. step' <= k + (IF at' \in {"building", "request", "streaming"} THEN 1 ELSE 0)
    BY <2>2
  <2> QED BY <1>1, <2>1, <2>3 DEF Steps
<1> QED BY <1>1, <1>3, <1>4

\* Outside the calls of a step no call moves.
LEMMA Quiet ==
  ASSUME IInv, at # "tools", stage' = stage
  PROVE  /\ Failed' = Failed /\ Used' = Used /\ InStep' = {}
         /\ \A c \in Calls : stage'[c] # "checkpoint"
         /\ stage' \in [Calls -> CallStages]
         /\ \E k \in 0 .. MaxCalls :
              /\ k \in Nat /\ Used' = 1 .. k /\ step \in Nat
              /\ step <= k + (IF at \in {"building", "request", "streaming"} THEN 1 ELSE 0)
<1>1. InStep = {} /\ Steps /\ stage \in [Calls -> CallStages] /\ step \in Nat
  BY Here DEF Position
<1>2. Failed' = Failed /\ Used' = Used /\ InStep' = {}
  BY <1>1 DEF Failed, Used, InStep
<1>3. \A c \in Calls : stage[c] # "checkpoint"
  BY <1>1 DEF InStep
<1>4. \E k \in 0 .. MaxCalls :
        /\ k \in Nat /\ Used = 1 .. k
        /\ step <= k + (IF at \in {"building", "request", "streaming"} THEN 1 ELSE 0)
  BY <1>1, MaxCallsAssumption DEF Steps
<1> QED BY <1>1, <1>2, <1>3, <1>4

\* A turn starts.
LEMMA StartTurnKeeps ==
  ASSUME IInv, StartTurn PROVE IInv'
<1> DEFINE e == Event("turn/start", turn + 1, 0)
<1>1. /\ up /\ at = "idle" /\ turn < MaxTurns /\ live' = Append(live, e) /\ Flush(0, live')
      /\ turn' = turn + 1 /\ step' = 0 /\ at' = "pre-step"
      /\ UNCHANGED loopFrame /\ stage' = stage /\ cancelled' = cancelled
      /\ requested' = requested /\ ran' = ran
  BY DEF StartTurn, effects
<1>2. /\ Failed' = Failed /\ Used' = Used /\ InStep' = {}
      /\ \A c \in Calls : stage'[c] # "checkpoint"
      /\ stage' \in [Calls -> CallStages]
      /\ \E k \in 0 .. MaxCalls : k \in Nat /\ Used' = 1 .. k
  BY <1>1, Quiet
<1>3. turn \in 0 .. MaxTurns /\ turn + 1 \in 0 .. MaxTurns /\ turn + 1 # 0
  BY <1>1, Here, RecoveryAssumption
<1>4. PICK nm : Stands(live, 0, 0, {}, {}, turn + 1, nm)
  BY <1>1, Here DEF Position
<1>5. /\ LogOK(live', Failed, Used) /\ Stands(live', turn + 1, 0, {}, {}, turn + 1, 1)
      /\ e \in Grammar!Events
  BY <1>1, <1>3, <1>4, Here, TurnStarts
<1>6. live' \in Logs /\ IsPrefix(live, live')
  BY <1>1, <1>5, Here, LogIs
<1>7. Position'
  <2>1. Stands(live', turn', 0, {}, {}, turn', step' + 1)
    BY <1>1, <1>5
  <2>2. up'
    BY <1>1 DEF loopFrame
  <2> QED BY <1>1, <1>2, <1>3, <1>5, <2>1, <2>2 DEF Position
<1>8. Steps'
  BY <1>1, <1>2 DEF Steps
<1>9. Flushing
  BY <1>1, Here DEF Flushing
<1>10. at' \in Places /\ step' \in Nat
  BY <1>1 DEF Places
<1> QED BY <1>1, <1>2, <1>3, <1>6, <1>7, <1>8, <1>9, <1>10, Here, LoopKeeps

\* Leaving a turn whose step is closed by the events logged first.
LEMMA LeaveKeeps ==
  ASSUME IInv, at # "tools", at # "idle", UNCHANGED loopFrame, UNCHANGED effects,
         NEW M, LogOK(M, Failed, Used), IsPrefix(live, M),
         NEW nm, Stands(M, turn, 0, {}, {}, turn, nm),
         live' = Append(M, TurnEnd), at' = "idle", step' = 0, cancelled' = FALSE,
         turn' = turn, stage' = stage,
         Flushing
  PROVE  IInv'
<1>1. turn # 0 /\ up /\ up' = up /\ live \in Logs
  BY Here DEF Position, loopFrame
<1>2. Position' /\ Steps' /\ Failed' = Failed /\ Used' = Used
  BY <1>1, LeavePosition
<1>3. /\ \A c \in Calls : stage'[c] # "checkpoint"
      /\ stage' \in [Calls -> CallStages]
  BY Quiet
<1>4. M \in Logs
  BY LogFacts
<1>5. live' \in Logs /\ IsPrefix(live, live')
  <2>1. TurnEnd \in Grammar!Events
    BY Here DEF TurnEnd
  <2> QED BY <1>1, <1>4, <2>1, LogIs, PrefixChain
<1>6. requested' = requested /\ ran' = ran
  BY DEF effects
<1>7. at' \in Places /\ step' \in Nat
  BY DEF Places
<1> QED BY <1>1, <1>2, <1>3, <1>5, <1>6, <1>7, Here, LoopKeeps

\* The checkpoint before a step is settled: the step starts, or the turn ends.
LEMMA PreStepSettledKeeps ==
  ASSUME IInv, PreStepSettled PROVE IInv'
<1>1. /\ at = "pre-step" /\ Answered(0) /\ UNCHANGED loopFrame /\ UNCHANGED effects
      /\ requested' = requested /\ ran' = ran /\ up
  BY Here DEF PreStepSettled, effects
<1>2. /\ turn # 0 /\ Stands(live, turn, 0, {}, {}, turn, step + 1) /\ LogOK(live, Failed, Used)
      /\ live \in Logs /\ IsPrefix(live, live)
  BY <1>1, Here DEF Position
<1>3. Flushing
  BY <1>1, Here DEF Flushing
<1>4. CASE Leave(<<>>)
  <2>1. /\ live' = live \o (<<>> \o <<TurnEnd>>) /\ at' = "idle" /\ step' = 0
        /\ cancelled' = FALSE /\ turn' = turn /\ stage' = stage
    BY <1>4 DEF Leave, Log
  <2>2. live' = Append(live, TurnEnd)
    BY <2>1, Here, LogIs DEF TurnEnd
  <2> QED BY <1>1, <1>2, <1>3, <2>1, <2>2, LeaveKeeps
<1>5. CASE /\ step' = step + 1 /\ at' = "building"
           /\ Log(<<Event("step/start", turn, step + 1)>>)
           /\ UNCHANGED <<turn, stage, cancelled>>
  <2> DEFINE e == Event("step/start", turn, step + 1)
  <2>1. live' = live \o <<e>> /\ turn' = turn /\ stage' = stage /\ cancelled' = cancelled
    BY <1>5 DEF Log
  <2>2. /\ LogOK(Append(live, e), Failed, Used) /\ e \in Grammar!Events
        /\ Stands(Append(live, e), turn, step + 1, {}, {}, turn, step + 1)
    BY <1>2, StepStarts
  <2>3. live' = Append(live, e) /\ live' \in Logs /\ IsPrefix(live, live')
    BY <1>2, <2>1, <2>2, LogIs
  <2>4. /\ Failed' = Failed /\ Used' = Used /\ InStep' = {}
        /\ \A c \in Calls : stage'[c] # "checkpoint"
        /\ stage' \in [Calls -> CallStages]
        /\ \E k \in 0 .. MaxCalls :
             /\ k \in Nat /\ Used' = 1 .. k /\ step \in Nat
             /\ step <= k
    BY <1>1, <2>1, Quiet
  <2>5. step' \in Nat /\ step' # 0 /\ at' \in Places
    BY <1>5, <2>4 DEF Places
  <2>6. Position'
    <3>1. up' = up
      BY <1>1 DEF loopFrame
    <3>2. Stands(live', turn', step', {}, {}, turn', step') /\ LogOK(live', Failed', Used')
      BY <1>5, <2>1, <2>2, <2>3, <2>4
    <3> QED BY <1>1, <1>2, <1>5, <2>1, <2>4, <2>5, <3>1, <3>2 DEF Position
  <2>7. Steps'
    <3>1. PICK k \in 0 .. MaxCalls : k \in Nat /\ Used' = 1 .. k /\ step \in Nat /\ step <= k
      BY <2>4
    <3>2. step' <= k + (IF at' \in {"building", "request", "streaming"} THEN 1 ELSE 0)
      BY <1>5, <3>1
    <3> QED BY <3>1, <3>2 DEF Steps
  <2> QED BY <1>1, <1>3, <1>5, <2>1, <2>3, <2>4, <2>5, <2>6, <2>7, Here, LoopKeeps
<1> QED BY <1>4, <1>5 DEF PreStepSettled

\* A step without calls closes, and its turn with it.
LEMMA StepLeft ==
  ASSUME IInv, at \in {"building", "request", "streaming"}, Leave(<<StepEnd>>),
         UNCHANGED loopFrame, UNCHANGED effects, Flushing
  PROVE  IInv'
<1>1. /\ live' = live \o (<<StepEnd>> \o <<TurnEnd>>) /\ at' = "idle" /\ step' = 0
      /\ cancelled' = FALSE /\ turn' = turn /\ stage' = stage
  BY DEF Leave, Log
<1>2. /\ step # 0 /\ turn # 0 /\ Stands(live, turn, step, {}, {}, turn, step)
      /\ LogOK(live, Failed, Used) /\ live \in Logs
  BY Here DEF Position
<1>3. /\ LogOK(Append(live, StepEnd), Failed, Used)
      /\ Stands(Append(live, StepEnd), turn, 0, {}, {}, turn, step + 1)
  BY <1>2, StepEnds DEF StepEnd
<1>4. StepEnd \in Grammar!Events /\ TurnEnd \in Grammar!Events
  BY Here DEF StepEnd, TurnEnd
<1>5. live' = Append(Append(live, StepEnd), TurnEnd) /\ IsPrefix(live, Append(live, StepEnd))
  BY <1>1, <1>2, <1>4, LogIs
<1> QED BY <1>1, <1>3, <1>5, LeaveKeeps

\* The request is recorded, and its flush awaited.
LEMMA LogRequestKeeps ==
  ASSUME IInv, LogRequest PROVE IInv'
<1>1. /\ at = "building" /\ UNCHANGED loopFrame /\ UNCHANGED effects
      /\ requested' = requested /\ ran' = ran /\ up
  BY Here DEF LogRequest, effects
<1>2. CASE Leave(<<StepEnd>>) /\ UNCHANGED <<flush, want>>
  BY <1>1, <1>2, StepLeft DEF Flushing
<1>3. CASE /\ at' = "request"
           /\ LET log == Append(live, Event("request/header", turn, step)) IN
              live' = log /\ Flush(0, log)
           /\ UNCHANGED <<turn, step, stage, cancelled>>
  <2> DEFINE e == Event("request/header", turn, step)
  <2>1. /\ live' = Append(live, e) /\ Flush(0, live') /\ turn' = turn /\ step' = step
        /\ stage' = stage /\ cancelled' = cancelled
    BY <1>3
  <2>2. /\ step # 0 /\ turn # 0 /\ Stands(live, turn, step, {}, {}, turn, step)
        /\ LogOK(live, Failed, Used) /\ live \in Logs
    BY <1>1, Here DEF Position
  <2>3. /\ LogOK(live', Failed, Used) /\ e \in Grammar!Events
        /\ Stands(live', turn, step, {}, {}, turn, step)
    BY <2>1, <2>2, RequestLogged
  <2>4. /\ live' \in Logs /\ IsPrefix(live, live') /\ Len(live') = Len(live) + 1
        /\ Len(live) \in Nat /\ live'[Len(live) + 1] = e
    BY <2>1, <2>2, <2>3, LogIs
  <2>5. /\ Failed' = Failed /\ Used' = Used /\ InStep' = {}
        /\ \A c \in Calls : stage'[c] # "checkpoint"
        /\ stage' \in [Calls -> CallStages]
        /\ \E k \in 0 .. MaxCalls :
             /\ k \in Nat /\ Used' = 1 .. k /\ step \in Nat
             /\ step <= k + 1
    BY <1>1, <2>1, Quiet
  <2>6. want'[0] # 0 /\ live'[want'[0]] = Event("request/header", turn', step')
    <3>1. want' = [want EXCEPT ![0] = Len(live')] /\ want \in [Checkpoints -> Nat]
      BY <2>1 DEF Flush, IInv, Memory
    <3>2. want'[0] = Len(live')
      BY <3>1, Here
    <3> QED BY <2>1, <2>4, <3>2
  <2>7. Flushing
    BY <2>1, Here DEF Flushing
  <2>8. Position'
    <3>1. up' = up
      BY <1>1 DEF loopFrame
    <3> QED BY <1>1, <1>3, <2>1, <2>2, <2>3, <2>5, <3>1 DEF Position
  <2>9. Steps'
    BY <1>3, <2>1, <2>5 DEF Steps
  <2>10. at' \in Places
    BY <1>3 DEF Places
  <2> QED BY <1>1, <2>1, <2>4, <2>5, <2>6, <2>7, <2>8, <2>9, <2>10, Here, LoopKeeps
<1> QED BY <1>2, <1>3 DEF LogRequest

\* The request is sent once its record is durable, or the step gives up.
LEMMA SendRequestKeeps ==
  ASSUME IInv, SendRequest PROVE IInv'
<1>1. /\ at = "request" /\ flush[0] \in {"ok", "failed"} /\ Answered(0)
      /\ UNCHANGED loopFrame /\ up
  BY Here DEF SendRequest
<1>2. Flushing
  BY <1>1, Here DEF Flushing
<1>3. CASE flush[0] = "failed"
  BY <1>1, <1>2, <1>3, StepLeft DEF SendRequest
<1>4. CASE flush[0] = "ok"
  <2>1. /\ at' = "streaming" /\ requested' = requested \cup {<<turn, step>>} /\ live' = live
        /\ turn' = turn /\ step' = step /\ stage' = stage /\ cancelled' = cancelled /\ ran' = ran
    BY <1>4 DEF SendRequest
  <2>2. /\ step # 0 /\ turn # 0 /\ Stands(live, turn, step, {}, {}, turn, step)
    BY <1>1, Here DEF Position
  <2>3. /\ Failed' = Failed /\ Used' = Used /\ InStep' = {}
        /\ \A c \in Calls : stage'[c] # "checkpoint"
        /\ stage' \in [Calls -> CallStages]
        /\ \E k \in 0 .. MaxCalls :
             /\ k \in Nat /\ Used' = 1 .. k /\ step \in Nat
             /\ step <= k + 1
    BY <1>1, <2>1, Quiet
  <2>4. \E i \in DOMAIN acked : acked[i] = Event("request/header", turn, step)
    <3>1. /\ want[0] # 0 /\ live[want[0]] = Event("request/header", turn, step)
          /\ want[0] <= Len(acked) /\ want[0] \in Nat /\ IsPrefix(acked, live)
      BY <1>1, <1>4, Here DEF IInv, Effects, Memory
    <3>2. DOMAIN acked = 1 .. Len(acked) /\ Len(acked) \in Nat
          /\ \A i \in 1 .. Len(acked) : acked[i] = live[i]
      <4>1. DOMAIN acked = 1 .. Len(acked) /\ Len(acked) \in Nat
        BY Here DEF Logs
      <4> QED BY <3>1, <4>1, Here, PrefixFacts
    <3>3. want[0] \in 1 .. Len(acked)
      BY <3>1, <3>2
    <3> QED BY <3>1, <3>2, <3>3
  <2>5. \A r \in requested' :
          r \in requested \/ \E i \in DOMAIN acked : acked[i] = Event("request/header", r[1], r[2])
    <3>1. SUFFICES ASSUME NEW r \in requested', r \notin requested
          PROVE  \E i \in DOMAIN acked : acked[i] = Event("request/header", r[1], r[2])
      OBVIOUS
    <3>2. r = <<turn, step>>
      BY <2>1, <3>1
    <3>3. r[1] = turn /\ r[2] = step
      BY <3>2
    <3> QED BY <2>4, <3>3
  <2>6. requested' \subseteq (1 .. MaxTurns) \X (1 .. MaxCalls + 1)
    <3>1. turn \in 1 .. MaxTurns
      BY <2>2, Here, RecoveryAssumption
    <3>2. step \in 1 .. MaxCalls + 1
      <4>1. PICK k \in 0 .. MaxCalls : k \in Nat /\ step \in Nat /\ step <= k + 1
        BY <2>3
      <4> QED BY <2>2, <4>1, MaxCallsAssumption
    <3> QED BY <2>1, <3>1, <3>2, Here
  <2>7. Position'
    <3>1. up' = up
      BY <1>1 DEF loopFrame
    <3> QED BY <1>1, <2>1, <2>2, <2>3, <3>1, Here DEF Position
  <2>8. Steps'
    BY <2>1, <2>3 DEF Steps
  <2>9. at' \in Places /\ live' \in Logs /\ IsPrefix(live, live')
    BY <2>1, Here DEF Places
  <2> QED BY <1>1, <1>2, <2>1, <2>3, <2>5, <2>6, <2>7, <2>8, <2>9, Here, LoopKeeps
<1> QED BY <1>1, <1>3, <1>4

\* A cancel, at any moment of a turn.
LEMMA CancelKeeps ==
  ASSUME IInv, Cancel PROVE IInv'
<1>1. /\ up /\ cancelled' = TRUE /\ UNCHANGED loopFrame
      /\ live' = live /\ flush' = flush /\ want' = want /\ at' = at /\ turn' = turn
      /\ step' = step /\ stage' = stage /\ requested' = requested /\ ran' = ran
  BY DEF Cancel, effects
<1>2. Failed' = Failed /\ Used' = Used /\ InStep' = InStep /\ Begun' = Begun
  BY <1>1 DEF Failed, Used, InStep, Begun
<1>3. Position'
  <2>1. up' = up
    BY <1>1 DEF loopFrame
  <2> QED BY <1>1, <1>2, <2>1, Here DEF Position
<1>4. Steps'
  BY <1>1, <1>2, Here DEF Steps
<1>5. Flushing
  BY <1>1 DEF Flushing
<1>6. at' = "request" => want'[0] # 0 /\ live'[want'[0]] = Event("request/header", turn', step')
  BY <1>1 DEF IInv, Effects
<1>7. \A c \in Calls : stage'[c] = "checkpoint" =>
        want'[c] # 0 /\ live'[want'[c]] = CallEvent("tool/call", turn', step', c)
  BY <1>1, Here
<1> QED BY <1>1, <1>2, <1>3, <1>4, <1>5, <1>6, <1>7, Here, LoopKeeps

\* The model's answer, without calls.
LEMMA AnswerKeeps ==
  ASSUME IInv, at = "streaming", Leave(<<Message(turn, step, {}), StepEnd>>),
         UNCHANGED loopFrame, UNCHANGED effects, UNCHANGED <<flush, want>>
  PROVE  IInv'
<1> DEFINE m == Message(turn, step, {})
           M == Append(live, m)
           N == Append(M, StepEnd)
<1>1. /\ live' = live \o (<<m, StepEnd>> \o <<TurnEnd>>) /\ at' = "idle" /\ step' = 0
      /\ cancelled' = FALSE /\ turn' = turn /\ stage' = stage
  BY DEF Leave, Log
<1>2. /\ step # 0 /\ turn # 0 /\ Stands(live, turn, step, {}, {}, turn, step)
      /\ LogOK(live, Failed, Used) /\ live \in Logs
  BY Here DEF Position
<1>3. /\ LogOK(M, Failed, Used) /\ Stands(M, turn, step, {}, {}, turn, step)
      /\ m \in Grammar!Events
  <2>1. {} \in SUBSET Calls /\ {} \subseteq Used /\ {} \cap Asked(live) = {}
    OBVIOUS
  <2> QED BY <1>2, <2>1, MessageLogged
<1>4. StepEnd \in Grammar!Events /\ TurnEnd \in Grammar!Events
  BY Here DEF StepEnd, TurnEnd
<1>5. live' = Append(N, TurnEnd) /\ IsPrefix(live, N)
  BY <1>1, <1>2, <1>3, <1>4, LogIs
<1> HIDE DEF m, M
<1>6. LogOK(N, Failed, Used) /\ Stands(N, turn, 0, {}, {}, turn, step + 1)
  BY <1>2, <1>3, StepEnds DEF StepEnd
<1>7. Flushing
  BY DEF Flushing
<1> HIDE DEF N
<1> QED BY <1>1, <1>5, <1>6, <1>7, LeaveKeeps

\* The model's answer, with the calls up to the n-th.
LEMMA CallsAskedKeeps ==
  ASSUME IInv, at = "streaming", UNCHANGED loopFrame, UNCHANGED effects,
         UNCHANGED <<flush, want>>, NEW n \in Calls, stage[n] = "new",
         NEW C, C = {c \in 1 .. n : stage[c] = "new"},
         Log(<<Message(turn, step, C)>>),
         stage' = [c \in Calls |-> IF c \in C THEN "asked" ELSE stage[c]],
         at' = "tools", UNCHANGED <<turn, step, cancelled>>
  PROVE  IInv'
<1> DEFINE m == Message(turn, step, C)
<1>1. /\ live' = live \o <<m>> /\ turn' = turn /\ step' = step /\ cancelled' = cancelled
      /\ requested' = requested /\ ran' = ran
  BY DEF Log, effects
<1>2. /\ step # 0 /\ turn # 0 /\ Stands(live, turn, step, {}, {}, turn, step)
      /\ LogOK(live, Failed, Used) /\ live \in Logs /\ InStep = {} /\ up
  BY Here DEF Position
<1>3. n \in 1 .. MaxCalls /\ MaxCalls \in Nat
  BY MaxCallsAssumption DEF Calls
<1>4. C \subseteq Calls /\ n \in C /\ \A c \in C : stage[c] = "new"
  BY <1>3 DEF Calls
<1>5. /\ \A c \in Calls : stage'[c] = IF c \in C THEN "asked" ELSE stage[c]
      /\ stage' \in [Calls -> CallStages]
  BY Here DEF CallStages
<1>6. Failed' = Failed /\ Used' = Used \cup C /\ InStep' = C /\ Begun' = {}
  <2>1. Failed' = Failed
    BY <1>4, <1>5 DEF Failed
  <2>2. Used' = Used \cup C
    BY <1>4, <1>5 DEF Used
  <2>3. \A c \in Calls : stage[c] \notin {"asked", "checkpoint", "running", "throwing"}
    BY <1>2 DEF InStep
  <2>4. InStep' = C
    BY <1>4, <1>5, <2>3 DEF InStep
  <2>5. Begun' = {}
    BY <1>4, <1>5, <2>3 DEF Begun
  <2> QED BY <2>1, <2>2, <2>4, <2>5
<1>7. C \cap Asked(live) = {}
  <2>1. Asked(live) \subseteq Used
    BY <1>2, LogFacts
  <2> QED BY <1>4, <2>1 DEF Used
<1>8. LogOK(live, Failed, Used')
  BY <1>2, <1>6, LogLater
<1>9. /\ LogOK(Append(live, m), Failed, Used') /\ Stands(Append(live, m), turn, step, C, {}, turn, step)
      /\ m \in Grammar!Events
  <2>1. C \in SUBSET Calls /\ C \subseteq Used'
    BY <1>4, <1>6
  <2> QED BY <1>2, <1>7, <1>8, <2>1, MessageLogged
<1> HIDE DEF m
<1>10. live' = Append(live, m) /\ live' \in Logs /\ IsPrefix(live, live')
  BY <1>1, <1>2, <1>9, LogIs
<1>11. Position'
  <2>1. up' = up
    BY DEF loopFrame
  <2> QED BY <1>1, <1>2, <1>6, <1>9, <1>10, <2>1 DEF Position
<1>12. Steps'
  <2>1. PICK k \in 0 .. MaxCalls : Used = 1 .. k /\ step <= k + 1
    BY Here DEF Steps
  <2>2. k \in Nat /\ step \in Nat /\ k <= MaxCalls
    BY <1>3, <2>1, Here
  <2>3. \A c \in Calls : stage[c] = "new" <=> c \notin 1 .. k
    BY <2>1 DEF Used
  <2>4. k + 1 <= n
    BY <1>3, <2>2, <2>3
  <2>5. Used' = 1 .. n
    <3>1. Used' = (1 .. k) \cup C
      BY <1>6, <2>1
    <3>2. \A c \in 1 .. n : c \in 1 .. k \/ c \in C
      BY <1>3, <2>3 DEF Calls
    <3>3. \A c \in 1 .. k : c \in 1 .. n
      BY <1>3, <2>2, <2>4
    <3>4. \A c \in C : c \in 1 .. n
      OBVIOUS
    <3> QED BY <3>1, <3>2, <3>3, <3>4
  <2>6. step' <= n + (IF at' \in {"building", "request", "streaming"} THEN 1 ELSE 0)
    BY <1>1, <1>3, <2>1, <2>2, <2>4
  <2>7. n \in 0 .. MaxCalls
    BY <1>3
  <2> QED BY <2>5, <2>6, <2>7 DEF Steps
<1>13. \A c \in Calls : stage'[c] # "checkpoint"
  <2>1. \A c \in Calls : stage[c] # "checkpoint"
    BY <1>2 DEF InStep
  <2> QED BY <1>5, <2>1
<1>14. Flushing /\ at' \in Places
  BY DEF Flushing, Places
<1> QED BY <1>1, <1>2, <1>5, <1>6, <1>10, <1>11, <1>12, <1>13, <1>14, Here, LoopKeeps

\* The answer arrives, and asks for calls or for none.
LEMMA StreamEndsKeeps ==
  ASSUME IInv, StreamEnds PROVE IInv'
<1>1. /\ at = "streaming" /\ UNCHANGED loopFrame /\ UNCHANGED effects
      /\ UNCHANGED <<flush, want>> /\ Flushing
  BY DEF StreamEnds, Flushing
<1>2. CASE Leave(<<StepEnd>>)
  BY <1>1, <1>2, StepLeft
<1>3. CASE Leave(<<Message(turn, step, {}), StepEnd>>)
  BY <1>1, <1>3, AnswerKeeps
<1>4. CASE /\ \E n \in {c \in Calls : stage[c] = "new"} :
                LET calls == {c \in 1 .. n : stage[c] = "new"} IN
                /\ Log(<<Message(turn, step, calls)>>)
                /\ stage' = [c \in Calls |-> IF c \in calls THEN "asked" ELSE stage[c]]
           /\ at' = "tools"
           /\ UNCHANGED <<turn, step, cancelled>>
  <2>1. PICK n \in {c \in Calls : stage[c] = "new"} :
                LET calls == {c \in 1 .. n : stage[c] = "new"} IN
                /\ Log(<<Message(turn, step, calls)>>)
                /\ stage' = [c \in Calls |-> IF c \in calls THEN "asked" ELSE stage[c]]
    BY <1>4
  <2> DEFINE C == {c \in 1 .. n : stage[c] = "new"}
  <2>2. n \in Calls /\ stage[n] = "new"
    OBVIOUS
  <2>3. /\ Log(<<Message(turn, step, C)>>)
        /\ stage' = [c \in Calls |-> IF c \in C THEN "asked" ELSE stage[c]]
    BY <2>1
  <2> QED BY <1>1, <1>4, <2>2, <2>3, CallsAskedKeeps
<1> QED BY <1>2, <1>3, <1>4 DEF StreamEnds

\* Where the loop stands while calls run.
LEMMA AtTools ==
  ASSUME IInv, at = "tools"
  PROVE  /\ turn # 0 /\ step # 0 /\ Stands(live, turn, step, InStep, Begun, turn, step)
         /\ LogOK(live, Failed, Used) /\ live \in Logs /\ up
         /\ turn \in Nat /\ step \in Nat
         /\ \E k \in 0 .. MaxCalls : k \in Nat /\ Used = 1 .. k /\ step <= k
<1>1. Position /\ Steps /\ live \in Logs /\ LogOK(live, Failed, Used) /\ up
      /\ turn \in 0 .. MaxTurns /\ step \in Nat
  BY Here
<1>2. turn \in Nat
  BY <1>1, RecoveryAssumption
<1>3. turn # 0 /\ step # 0 /\ Stands(live, turn, step, InStep, Begun, turn, step)
  BY <1>1 DEF Position
<1>4. PICK k \in 0 .. MaxCalls :
        Used = 1 .. k /\ step <= k + (IF at \in {"building", "request", "streaming"} THEN 1 ELSE 0)
  BY <1>1 DEF Steps
<1>5. k \in Nat /\ k + 0 = k
  BY MaxCallsAssumption
<1> QED BY <1>1, <1>2, <1>3, <1>4, <1>5

\* A call under way belongs to the step's batch.
LEMMA InStepAtTools ==
  ASSUME IInv, NEW c \in Calls, stage[c] \in {"asked", "checkpoint", "running", "throwing"}
  PROVE  at = "tools" /\ c \in InStep
<1>1. c \in InStep
  BY DEF InStep
<1> QED BY <1>1, Here DEF Position

\* A call of the step moves on.
LEMMA MoveCall ==
  ASSUME IInv, NEW c \in Calls, c \in InStep,
         NEW s \in {"checkpoint", "running", "throwing", "answered"},
         stage' = [stage EXCEPT ![c] = s]
  PROVE  /\ Failed' = Failed /\ Used' = Used /\ stage' \in [Calls -> CallStages]
         /\ \A d \in Calls : stage'[d] = IF d = c THEN s ELSE stage[d]
         /\ InStep' = IF s = "answered" THEN InStep \ {c} ELSE InStep
         /\ Begun' = IF s = "answered" THEN Begun \ {c} ELSE Begun \cup {c}
<1>1. /\ \A d \in Calls : stage'[d] = IF d = c THEN s ELSE stage[d]
      /\ stage' \in [Calls -> CallStages]
  BY Here DEF CallStages
<1>2. stage[c] \in {"asked", "checkpoint", "running", "throwing"}
  BY DEF InStep
<1>3. Failed' = Failed
  BY <1>1, <1>2 DEF Failed
<1>4. Used' = Used
  BY <1>1, <1>2 DEF Used
<1>5. InStep' = IF s = "answered" THEN InStep \ {c} ELSE InStep
  BY <1>1, <1>2 DEF InStep
<1>6. Begun' = IF s = "answered" THEN Begun \ {c} ELSE Begun \cup {c}
  BY <1>1, <1>2 DEF Begun
<1> QED BY <1>1, <1>3, <1>4, <1>5, <1>6

\* A call whose checkpoint was asked for is still the event it waits for.
LEMMA StillWaits ==
  ASSUME IInv, live' \in Logs, IsPrefix(live, live'), turn' = turn, step' = step,
         NEW d \in Calls, stage[d] = "checkpoint", want'[d] = want[d]
  PROVE  want'[d] # 0 /\ live'[want'[d]] = CallEvent("tool/call", turn', step', d)
<1>1. want[d] # 0 /\ live[want[d]] = CallEvent("tool/call", turn, step, d)
  BY Here
<1>2. want[d] <= Len(live) /\ want[d] \in Nat /\ live \in Logs
  BY Here DEF IInv, Memory, Effects
<1>3. Len(live) \in Nat /\ \A i \in 1 .. Len(live) : live[i] = live'[i]
  BY <1>2, PrefixFacts
<1>4. want[d] \in 1 .. Len(live)
  BY <1>1, <1>2, <1>3
<1> QED BY <1>1, <1>3, <1>4

\* What a step of a call has to show.
LEMMA CallKeeps ==
  ASSUME IInv, at = "tools", UNCHANGED loopFrame, NEW c \in Calls, c \in InStep,
         NEW s \in {"checkpoint", "running", "throwing", "answered"},
         stage' = [stage EXCEPT ![c] = s],
         at' = at, turn' = turn, step' = step, cancelled' = cancelled, requested' = requested,
         LogOK(live', Failed, Used), IsPrefix(live, live'),
         s = "answered" => Stands(live', turn, step, InStep \ {c}, Begun \ {c}, turn, step),
         s # "answered" => Stands(live', turn, step, InStep, Begun \cup {c}, turn, step),
         Flushing,
         \A d \in Calls : d # c => want'[d] = want[d],
         s = "checkpoint" => want'[c] # 0 /\ live'[want'[c]] = CallEvent("tool/call", turn, step, c),
         ran' \subseteq Calls, ran' \subseteq ran \cup Recorded(acked)
  PROVE  IInv'
<1>1. /\ Failed' = Failed /\ Used' = Used /\ stage' \in [Calls -> CallStages]
      /\ \A d \in Calls : stage'[d] = IF d = c THEN s ELSE stage[d]
      /\ InStep' = IF s = "answered" THEN InStep \ {c} ELSE InStep
      /\ Begun' = IF s = "answered" THEN Begun \ {c} ELSE Begun \cup {c}
  BY MoveCall
<1>2. live' \in Logs /\ up /\ up' = up
  BY AtTools, LogFacts DEF loopFrame
<1>3. Position'
  <2>1. Stands(live', turn', step', InStep', Begun', turn', step')
    BY <1>1
  <2> QED BY <1>1, <1>2, <2>1, AtTools DEF Position
<1>4. Steps'
  BY <1>1, Here DEF Steps
<1>5. \A d \in Calls : stage'[d] = "checkpoint" =>
        want'[d] # 0 /\ live'[want'[d]] = CallEvent("tool/call", turn', step', d)
  <2>1. SUFFICES ASSUME NEW d \in Calls, stage'[d] = "checkpoint"
        PROVE  want'[d] # 0 /\ live'[want'[d]] = CallEvent("tool/call", turn', step', d)
    OBVIOUS
  <2>2. CASE d = c
    BY <1>1, <2>1, <2>2
  <2>3. CASE d # c
    BY <1>1, <1>2, <2>1, <2>3, StillWaits
  <2> QED BY <2>2, <2>3
<1>6. at' # "request"
  OBVIOUS
<1> QED BY <1>1, <1>2, <1>3, <1>4, <1>5, <1>6, Here, LoopKeeps

\* A call is recorded and its checkpoint awaited, or it is answered unstarted.
LEMMA StartCallKeeps ==
  ASSUME IInv, NEW c \in Calls, StartCall(c) PROVE IInv'
<1> DEFINE e == CallEvent("tool/call", turn, step, c)
           r == CallEvent("tool/result", turn, step, c)
           M == Append(live, e)
<1>1. /\ at = "tools" /\ stage[c] = "asked" /\ UNCHANGED loopFrame /\ at' = at /\ turn' = turn
      /\ step' = step /\ cancelled' = cancelled /\ requested' = requested /\ ran' = ran
      /\ c \in InStep /\ c \notin Begun
  BY InStepAtTools DEF StartCall, effects, Begun
<1>2. /\ turn # 0 /\ step # 0 /\ Stands(live, turn, step, InStep, Begun, turn, step)
      /\ LogOK(live, Failed, Used) /\ live \in Logs
  BY <1>1, AtTools
<1>3. /\ LogOK(M, Failed, Used) /\ Stands(M, turn, step, InStep, Begun \cup {c}, turn, step)
      /\ e \in Grammar!Events
  BY <1>1, <1>2, CallRecorded
<1>4. /\ M \in Logs /\ IsPrefix(live, M) /\ Len(M) = Len(live) + 1 /\ Len(live) \in Nat
      /\ M[Len(live) + 1] = e
  BY <1>2, <1>3, LogIs
<1> HIDE DEF e, M
<1>5. CASE Log(<<CallLogged(c), ResultOf(c)>>) /\ stage' = [stage EXCEPT ![c] = "answered"]
           /\ UNCHANGED <<flush, want>>
  <2>1. /\ LogOK(Append(M, r), Failed, Used)
        /\ Stands(Append(M, r), turn, step, InStep \ {c}, (Begun \cup {c}) \ {c}, turn, step)
        /\ r \in Grammar!Events
    <3>1. c \in Begun \cup {c}
      OBVIOUS
    <3> QED BY <1>2, <1>3, <3>1, CallAnswered
  <2>2. (Begun \cup {c}) \ {c} = Begun \ {c}
    OBVIOUS
  <2> HIDE DEF r
  <2>3. live' = live \o <<e, r>>
    BY <1>5 DEF Log, CallLogged, ResultOf, e, r
  <2>4. live' = Append(M, r) /\ IsPrefix(live, live')
    <3>1. live \in Logs /\ e \in Grammar!Events /\ r \in Grammar!Events
      BY <1>2, <1>3, <2>1
    <3>2. /\ live \o <<e, r>> = Append(Append(live, e), r)
          /\ IsPrefix(live, Append(Append(live, e), r))
      BY <3>1, LogIs
    <3> QED BY <2>3, <3>2 DEF M
  <2>5. Flushing /\ want' = want
    BY <1>5 DEF Flushing
  <2>6. /\ LogOK(live', Failed, Used)
        /\ Stands(live', turn, step, InStep \ {c}, Begun \ {c}, turn, step)
    BY <2>1, <2>2, <2>4
  <2> QED BY <1>1, <1>5, <2>4, <2>5, <2>6, Here, CallKeeps
<1>6. CASE /\ LET log == Append(live, CallLogged(c)) IN
              live' = log /\ Flush(c, log)
           /\ stage' = [stage EXCEPT ![c] = "checkpoint"]
  <2>1. live' = M /\ Flush(c, live')
    BY <1>6 DEF M, e, CallLogged
  <2>2. want' = [want EXCEPT ![c] = Len(live')] /\ want \in [Checkpoints -> Nat]
    BY <2>1 DEF Flush, IInv, Memory
  <2>3. want'[c] = Len(live) + 1 /\ \A d \in Calls : d # c => want'[d] = want[d]
    BY <1>4, <2>1, <2>2, Here
  <2>4. want'[c] # 0 /\ live'[want'[c]] = CallEvent("tool/call", turn, step, c)
    BY <1>4, <2>1, <2>3 DEF e
  <2>5. Flushing
    BY <2>1, Here DEF Flushing
  <2> QED BY <1>1, <1>3, <1>4, <1>6, <2>1, <2>3, <2>4, <2>5, Here, CallKeeps
<1> QED BY <1>5, <1>6 DEF StartCall

\* A result is recorded.
LEMMA ResultKeeps ==
  ASSUME IInv, at = "tools", UNCHANGED loopFrame, NEW c \in Calls, c \in Begun,
         Log(<<ResultOf(c)>>), stage' = [stage EXCEPT ![c] = "answered"],
         at' = at, turn' = turn, step' = step, cancelled' = cancelled, requested' = requested,
         ran' = ran, Flushing, want' = want
  PROVE  IInv'
<1> DEFINE r == CallEvent("tool/result", turn, step, c)
<1>1. c \in InStep
  BY DEF InStep, Begun
<1>2. /\ turn # 0 /\ step # 0 /\ Stands(live, turn, step, InStep, Begun, turn, step)
      /\ LogOK(live, Failed, Used) /\ live \in Logs
  BY AtTools
<1>3. /\ LogOK(Append(live, r), Failed, Used) /\ r \in Grammar!Events
      /\ Stands(Append(live, r), turn, step, InStep \ {c}, Begun \ {c}, turn, step)
  BY <1>2, CallAnswered
<1> HIDE DEF r
<1>4. live' = live \o <<r>>
  BY DEF Log, ResultOf, r
<1>5. live' = Append(live, r) /\ IsPrefix(live, live')
  <2>1. live \in Logs /\ r \in Grammar!Events
    BY <1>2, <1>3
  <2>2. live \o <<r>> = Append(live, r) /\ IsPrefix(live, Append(live, r))
    BY <2>1, LogIs
  <2> QED BY <1>4, <2>2
<1> QED BY <1>1, <1>3, <1>5, Here, CallKeeps

\* The body runs once its record is durable, or the call gets an error.
LEMMA DispatchCallKeeps ==
  ASSUME IInv, NEW c \in Calls, DispatchCall(c) PROVE IInv'
<1>1. /\ at = "tools" /\ stage[c] = "checkpoint" /\ flush[c] \in {"ok", "failed"} /\ Answered(c)
      /\ UNCHANGED loopFrame /\ at' = at /\ turn' = turn /\ want' = want
      /\ step' = step /\ cancelled' = cancelled /\ requested' = requested
      /\ c \in InStep /\ c \in Begun
  BY InStepAtTools DEF DispatchCall, Begun, Answered
<1>2. Flushing
  BY <1>1, Here DEF Flushing
<1>3. CASE Log(<<ResultOf(c)>>) /\ stage' = [stage EXCEPT ![c] = "answered"] /\ UNCHANGED ran
  BY <1>1, <1>2, <1>3, ResultKeeps
<1>4. CASE /\ flush[c] = "ok" /\ stage' = [stage EXCEPT ![c] = "running"]
           /\ ran' = ran \cup {c} /\ UNCHANGED live
  <2>1. /\ Stands(live, turn, step, InStep, Begun, turn, step)
        /\ LogOK(live, Failed, Used) /\ live \in Logs /\ up
    BY <1>1, AtTools
  <2>2. Begun \cup {c} = Begun
    BY <1>1
  <2>3. c \in Recorded(acked)
    <3>1. /\ want[c] # 0 /\ live[want[c]] = CallEvent("tool/call", turn, step, c)
          /\ want[c] <= Len(acked) /\ want[c] \in Nat /\ IsPrefix(acked, live)
      BY <1>1, <1>4, <2>1, Here DEF IInv, Effects, Memory
    <3>2. DOMAIN acked = 1 .. Len(acked) /\ Len(acked) \in Nat
          /\ \A i \in 1 .. Len(acked) : acked[i] = live[i]
      <4>1. DOMAIN acked = 1 .. Len(acked) /\ Len(acked) \in Nat
        BY Here DEF Logs
      <4> QED BY <3>1, <4>1, Here, PrefixFacts
    <3>3. want[c] \in DOMAIN acked /\ acked[want[c]] = CallEvent("tool/call", turn, step, c)
      BY <3>1, <3>2
    <3>4. /\ CallEvent("tool/call", turn, step, c).type = "tool/call"
          /\ CallEvent("tool/call", turn, step, c).calls = {c}
      BY <1>1, AtTools, EventIs
    <3> QED BY <3>3, <3>4 DEF Recorded
  <2>4. ran' \subseteq Calls /\ ran' \subseteq ran \cup Recorded(acked)
    BY <1>4, <2>3, Here
  <2>5. IsPrefix(live, live') /\ LogOK(live', Failed, Used)
        /\ Stands(live', turn, step, InStep, Begun \cup {c}, turn, step)
    BY <1>4, <2>1, <2>2, Here
  <2> QED BY <1>1, <1>2, <1>4, <2>4, <2>5, CallKeeps
<1> QED BY <1>1, <1>3, <1>4 DEF DispatchCall

\* A body ends with its result.
LEMMA BodyEndsKeeps ==
  ASSUME IInv, NEW c \in Calls, BodyEnds(c) PROVE IInv'
<1>1. /\ at = "tools" /\ UNCHANGED loopFrame /\ at' = at /\ turn' = turn /\ want' = want
      /\ step' = step /\ cancelled' = cancelled /\ requested' = requested /\ ran' = ran
      /\ c \in Begun /\ Log(<<ResultOf(c)>>) /\ stage' = [stage EXCEPT ![c] = "answered"]
      /\ Flushing
  BY InStepAtTools DEF BodyEnds, Begun, effects, Flushing
<1> QED BY <1>1, ResultKeeps

\* A call fails before its body runs.
LEMMA CallFailsKeeps ==
  ASSUME IInv, NEW c \in Calls, CallFails(c) PROVE IInv'
<1>1. /\ at = "tools" /\ UNCHANGED loopFrame /\ at' = at /\ turn' = turn /\ want' = want
      /\ step' = step /\ cancelled' = cancelled /\ requested' = requested /\ ran' = ran
      /\ c \in Begun /\ c \in InStep /\ live' = live
      /\ stage' = [stage EXCEPT ![c] = "throwing"] /\ Flushing
  BY InStepAtTools DEF CallFails, Begun, effects, Flushing
<1>2. /\ Stands(live, turn, step, InStep, Begun, turn, step)
      /\ LogOK(live, Failed, Used)
  BY <1>1, AtTools
<1>3. Begun \cup {c} = Begun
  BY <1>1
<1>4. IsPrefix(live, live') /\ LogOK(live', Failed, Used)
      /\ Stands(live', turn, step, InStep, Begun \cup {c}, turn, step)
  BY <1>1, <1>2, <1>3, Here
<1> QED BY <1>1, <1>4, Here, CallKeeps

\* All calls of a step are answered: the step ends, and the turn may.
LEMMA StepDoneKeeps ==
  ASSUME IInv, StepDone PROVE IInv'
<1>1. /\ at = "tools" /\ UNCHANGED loopFrame /\ UNCHANGED effects
      /\ requested' = requested /\ ran' = ran
      /\ \A c \in Calls : stage[c] \in {"new", "answered", "failed"}
  BY DEF StepDone, effects
<1>2. InStep = {} /\ Begun = {}
  BY <1>1 DEF InStep, Begun
<1>3. /\ turn # 0 /\ step # 0 /\ Stands(live, turn, step, {}, {}, turn, step)
      /\ LogOK(live, Failed, Used) /\ live \in Logs /\ up
      /\ turn \in Nat /\ step \in Nat
      /\ \E k \in 0 .. MaxCalls : k \in Nat /\ Used = 1 .. k /\ step <= k
  BY <1>1, <1>2, AtTools
<1>4. /\ LogOK(Append(live, StepEnd), Failed, Used) /\ StepEnd \in Grammar!Events
      /\ Stands(Append(live, StepEnd), turn, 0, {}, {}, turn, step + 1)
  BY <1>3, StepEnds DEF StepEnd
<1>5. TurnEnd \in Grammar!Events
  BY Here DEF TurnEnd
<1>6. stage' = stage /\ turn' = turn /\ at' # "tools" /\ at' # "request"
      /\ at' \notin {"building", "request", "streaming"} /\ at' \in Places
      /\ cancelled' \in BOOLEAN /\ step' \in Nat /\ (step' = 0 \/ step' = step)
  <2>1. CASE Leave(<<StepEnd>>)
    BY <2>1 DEF Leave, Places
  <2>2. CASE at' = "pre-step" /\ UNCHANGED <<turn, step, stage, cancelled>>
    <3>1. step \in Nat /\ cancelled \in BOOLEAN
      BY Here
    <3> QED BY <2>2, <3>1 DEF Places
  <2> QED BY <2>1, <2>2 DEF StepDone
<1>7. Failed' = Failed /\ Used' = Used /\ InStep' = {}
  BY <1>2, <1>6 DEF Failed, Used, InStep
<1>8. \A c \in Calls : stage'[c] # "checkpoint"
  BY <1>1, <1>6
<1>9. Steps'
  <2>1. PICK k \in 0 .. MaxCalls : k \in Nat /\ Used = 1 .. k /\ step <= k
    BY <1>3
  <2>2. step' <= k + (IF at' \in {"building", "request", "streaming"} THEN 1 ELSE 0)
    BY <1>3, <1>6, <2>1
  <2> QED BY <1>7, <2>1, <2>2 DEF Steps
<1>10. up' = up
  BY <1>1 DEF loopFrame
<1>11. CASE Leave(<<StepEnd>>) /\ UNCHANGED <<flush, want>>
  <2> DEFINE M == Append(live, StepEnd)
  <2>1. live' = live \o (<<StepEnd>> \o <<TurnEnd>>) /\ at' = "idle" /\ step' = 0
    BY <1>11 DEF Leave, Log
  <2>2. live' = Append(M, TurnEnd) /\ live' \in Logs /\ IsPrefix(live, live')
    <3>1. /\ live \o (<<StepEnd>> \o <<TurnEnd>>) = Append(Append(live, StepEnd), TurnEnd)
          /\ IsPrefix(live, Append(Append(live, StepEnd), TurnEnd))
          /\ Append(Append(live, StepEnd), TurnEnd) \in Logs
      BY <1>3, <1>4, <1>5, LogIs
    <3> QED BY <2>1, <3>1
  <2> HIDE DEF M
  <2>3. LogOK(M, Failed, Used) /\ Stands(M, turn, 0, {}, {}, turn, step + 1)
    BY <1>4 DEF M
  <2>4. /\ LogOK(live', Failed, Used)
        /\ Stands(live', 0, 0, {}, {}, turn + 1, step + 1)
    BY <1>3, <2>2, <2>3, TurnEnds DEF TurnEnd
  <2>5. Position'
    BY <1>3, <1>6, <1>7, <1>10, <2>1, <2>4 DEF Position
  <2>6. Flushing
    BY <1>11 DEF Flushing
  <2> QED BY <1>1, <1>3, <1>6, <1>7, <1>8, <1>9, <2>2, <2>5, <2>6, Here, LoopKeeps
<1>12. CASE /\ LET log == Append(live, StepEnd) IN live' = log /\ Flush(0, log)
            /\ at' = "pre-step"
            /\ UNCHANGED <<turn, step, stage, cancelled>>
  <2>1. live' = Append(live, StepEnd) /\ Flush(0, live') /\ step' = step
    BY <1>12
  <2>2. live' \in Logs /\ IsPrefix(live, live')
    BY <1>3, <1>4, <2>1, LogIs
  <2>3. Position'
    <3>1. Stands(live', turn', 0, {}, {}, turn', step' + 1) /\ LogOK(live', Failed', Used')
      BY <1>4, <1>6, <1>7, <2>1
    <3> QED BY <1>3, <1>6, <1>7, <1>10, <1>12, <3>1 DEF Position
  <2>4. Flushing
    BY <2>1, Here DEF Flushing
  <2> QED BY <1>1, <1>3, <1>6, <1>7, <1>8, <1>9, <2>2, <2>3, <2>4, Here, LoopKeeps
<1> QED BY <1>11, <1>12 DEF StepDone

\* A failed checkpoint ends the step and the turn with their calls answered.
LEMMA StepThrowsKeeps ==
  ASSUME IInv, StepThrows PROVE IInv'
<1> DEFINE M == Append(live, StepEnd)
<1>1. /\ at = "tools" /\ UNCHANGED loopFrame /\ requested' = requested /\ ran' = ran
      /\ \A c \in Calls : stage[c] \notin {"checkpoint", "running"}
      /\ live' = live \o <<StepEnd, TurnEnd>> /\ at' = "idle" /\ step' = 0
      /\ cancelled' = FALSE /\ turn' = turn /\ flush' = flush /\ want' = want
      /\ stage' = [c \in Calls |->
                     IF stage[c] \in {"asked", "throwing"} THEN "failed" ELSE stage[c]]
  BY DEF StepThrows, Log, effects
<1>2. /\ turn # 0 /\ step # 0 /\ Stands(live, turn, step, InStep, Begun, turn, step)
      /\ LogOK(live, Failed, Used) /\ live \in Logs /\ up
      /\ turn \in Nat /\ step \in Nat
      /\ \E k \in 0 .. MaxCalls : k \in Nat /\ Used = 1 .. k /\ step <= k
  BY <1>1, AtTools
<1>3. /\ \A c \in Calls :
           stage'[c] = IF stage[c] \in {"asked", "throwing"} THEN "failed" ELSE stage[c]
      /\ stage' \in [Calls -> CallStages]
  BY <1>1, Here DEF CallStages
<1>4. Failed \subseteq Failed' /\ InStep \subseteq Failed'
  BY <1>1, <1>3 DEF Failed, InStep
<1>5. Used' = Used
  BY <1>3 DEF Used
<1>6. InStep' = {}
  BY <1>1, <1>3 DEF InStep
<1>7. \A c \in Calls : stage'[c] # "checkpoint"
  BY <1>1, <1>3
<1>8. StepEnd \in Grammar!Events /\ TurnEnd \in Grammar!Events
  BY Here DEF StepEnd, TurnEnd
<1>9. live' = Append(M, TurnEnd) /\ live' \in Logs /\ IsPrefix(live, live')
  <2>1. /\ live \o <<StepEnd, TurnEnd>> = Append(Append(live, StepEnd), TurnEnd)
        /\ IsPrefix(live, Append(Append(live, StepEnd), TurnEnd))
        /\ Append(Append(live, StepEnd), TurnEnd) \in Logs
    BY <1>2, <1>8, LogIs
  <2> QED BY <1>1, <2>1
<1>10. LogOK(live, Failed', Used)
  BY <1>2, <1>4, LogLater
<1>11. LogOK(M, Failed', Used) /\ Stands(M, turn, 0, {}, {}, turn, step + 1)
  BY <1>2, <1>4, <1>10, StepEnds DEF StepEnd
<1> HIDE DEF M
<1>12. /\ LogOK(live', Failed', Used)
       /\ Stands(live', 0, 0, {}, {}, turn + 1, step + 1)
  BY <1>2, <1>9, <1>11, TurnEnds DEF TurnEnd
<1>13. Position'
  <2>1. up' = up
    BY <1>1 DEF loopFrame
  <2> QED BY <1>1, <1>2, <1>5, <1>6, <1>12, <2>1 DEF Position
<1>14. Steps'
  <2>1. PICK k \in 0 .. MaxCalls : k \in Nat /\ Used = 1 .. k /\ step <= k
    BY <1>2
  <2>2. step' <= k + (IF at' \in {"building", "request", "streaming"} THEN 1 ELSE 0)
    BY <1>1, <2>1
  <2> QED BY <1>5, <2>1, <2>2 DEF Steps
<1>15. Flushing /\ at' \in Places /\ step' \in Nat /\ cancelled' \in BOOLEAN
  BY <1>1 DEF Flushing, Places
<1> QED BY <1>1, <1>2, <1>3, <1>4, <1>5, <1>7, <1>9, <1>13, <1>14, <1>15, Here, LoopKeeps

-----------------------------------------------------------------------------
(* The invariant. *)

\* A new session satisfies the invariant.
LEMMA InitHolds == Init => IInv
<1> SUFFICES ASSUME Init PROVE IInv
  OBVIOUS
<1>1. /\ compression \in Compressions /\ file = <<>> /\ media = <<>> /\ entry = "none"
      /\ op = NoOp /\ upsets = 0 /\ up = TRUE /\ live = <<>> /\ acked = <<>> /\ stored = FALSE
      /\ flush = [k \in Checkpoints |-> "none"] /\ want = [k \in Checkpoints |-> 0]
      /\ at = "idle" /\ turn = 0 /\ step = 0
      /\ stage = [c \in Calls |-> "new"] /\ cancelled = FALSE
      /\ requested = {} /\ ran = {}
  BY DEF Init, JsonlInit
<1>2. /\ LogOK(<<>>, Failed, Used) /\ Stands(<<>>, 0, 0, {}, {}, 1, 1) /\ <<>> \in Logs
  BY EmptyLegal
<1>3. Memory
  <2>1. 0 \in 0 .. MaxUpsets /\ 0 \in 0 .. MaxTurns
    BY JsonlAssumption, RecoveryAssumption
  <2>2. /\ flush \in [Checkpoints -> {"none", "wait", "ok", "failed"}]
        /\ want \in [Checkpoints -> Nat] /\ stage \in [Calls -> CallStages]
    BY <1>1 DEF CallStages
  <2> QED BY <1>1, <1>2, <2>1, <2>2 DEF Memory, Places
<1>4. Operation /\ op.kind = "none"
  BY <1>1, NoOpIs DEF Operation
<1>5. Files
  BY <1>1, EmptyKept DEF Files
<1>6. Appending /\ Creating /\ Repairing
  BY <1>4 DEF Appending, Creating, Repairing
<1>7. Disk
  BY <1>1, <1>4 DEF Disk
<1>8. Effects
  <2>1. IsPrefix(<<>>, <<>>) /\ Len(<<>>) = 0
    BY <1>2, PrefixFacts
  <2> QED BY <1>1, <2>1 DEF Effects
<1>9. Position
  <2>1. InStep = {}
    BY <1>1 DEF InStep
  <2>2. Stands(live, 0, 0, {}, {}, turn + 1, 1)
    BY <1>1, <1>2
  <2> QED BY <1>1, <1>2, <2>1, <2>2 DEF Position
<1>10. Steps
  <2>1. Used = {} /\ 1 .. 0 = {}
    BY <1>1 DEF Used
  <2>2. 0 \in 0 .. MaxCalls
    BY MaxCallsAssumption
  <2> QED BY <1>1, <2>1, <2>2 DEF Steps
<1> QED BY <1>3, <1>4, <1>5, <1>6, <1>7, <1>8, <1>9, <1>10 DEF IInv, Storage

\* Every step of the loop keeps the invariant.
LEMMA LoopStepKeeps ==
  ASSUME IInv, LoopStep PROVE IInv'
<1>1. CASE \E c \in Calls : StartCall(c) \/ DispatchCall(c) \/ BodyEnds(c) \/ CallFails(c)
  BY <1>1, StartCallKeeps, DispatchCallKeeps, BodyEndsKeeps, CallFailsKeeps
<1> QED BY <1>1, StartTurnKeeps, PreStepSettledKeeps, LogRequestKeeps, SendRequestKeeps,
        StreamEndsKeeps, StepDoneKeeps, StepThrowsKeeps, CancelKeeps DEF LoopStep

\* Nothing happens, and nothing changes.
LEMMA StutterKeeps ==
  ASSUME IInv, UNCHANGED vars PROVE IInv'
<1>1. /\ Aside /\ file' = file /\ media' = media /\ entry' = entry /\ op' = op
      /\ upsets' = upsets
  BY DEF vars, jsonlVars, Aside
<1>2. Effects' /\ Position' /\ Steps' /\ Failed' = Failed /\ Used' = Used
  BY <1>1, AsideKeeps
<1>3. /\ live' = live /\ up' = up /\ acked' = acked /\ stored' = stored
      /\ compression' = compression /\ Memory'
  BY <1>1 DEF Aside, memory, effects, IInv, Memory
<1>4. Operation' /\ Files'
  BY <1>1, <1>2, <1>3 DEF IInv, Operation, Files
<1>5. Appending' /\ Creating'
  BY <1>1, <1>3 DEF IInv, Storage, Appending, Creating, Batch
<1>6. Repairing' /\ Disk'
  BY <1>1, <1>2, <1>3 DEF IInv, Storage, Repairing, Disk
<1> QED BY <1>2, <1>3, <1>4, <1>5, <1>6 DEF IInv, Storage

\* The invariant is inductive where closing a file does not fail.
LEMMA Inductive ==
  "close" \notin Faults => (IInv /\ [Next]_vars => IInv')
<1> SUFFICES ASSUME "close" \notin Faults, IInv, [Next]_vars PROVE IInv'
  OBVIOUS
<1>1. CASE Next
  BY <1>1, StartWriteKeeps, EnsureMaterializedKeeps, StorageSteps, SettleKeeps,
     LoopStepKeeps, CrashKeeps, LoadKeeps DEF Next
<1>2. CASE UNCHANGED vars
  BY <1>2, StutterKeeps
<1> QED BY <1>1, <1>2
-----------------------------------------------------------------------------
(* What it implies. *)

\* A readable file is made of lines.
LEMMA ReadableLines ==
  ASSUME NEW f, Readable(f) PROVE AreLines(f)
<1>1. SUFFICES ASSUME NEW i \in DOMAIN f
      PROVE  f[i].seq > 0 /\ (f[i].whole = (f[i].event.type # "none"))
  BY DEF AreLines
<1>2. /\ f \in Seq(Line) /\ Len(f) \in Nat /\ committed(f) \in 0 .. Len(f)
      /\ \A j \in 1 .. committed(f) : f[j].whole /\ f[j].event \in Grammar!Events
      /\ \A j \in committed(f) + 1 .. Len(f) : ~f[j].whole /\ f[j].event = Grammar!NoEvent
  BY ReadableFacts
<1>3. f[i] \in Line /\ i \in 1 .. Len(f)
  BY <1>2
<1>4. f[i].seq > 0 /\ f[i].whole \in BOOLEAN
  BY <1>3 DEF Line
<1>5. CASE i \in 1 .. committed(f)
  <2>1. f[i].whole /\ f[i].event.type # "none"
    BY <1>2, <1>5, EventIs
  <2> QED BY <1>4, <2>1
<1>6. CASE i \in committed(f) + 1 .. Len(f)
  <2>1. ~f[i].whole /\ f[i].event.type = "none"
    BY <1>2, <1>6, EventIs
  <2> QED BY <1>4, <2>1
<1> QED BY <1>2, <1>3, <1>5, <1>6

\* The batch in progress is made of lines.
LEMMA OperationLines ==
  ASSUME Operation PROVE AreLines(op.lines)
<1>1. /\ EventsOf(op.lines) \in Logs /\ op.before \in Nat
      /\ op.lines = Lines(EventsOf(op.lines), op.before)
  BY DEF Operation
<1>2. /\ op.lines \in Seq(Line) /\ Len(op.lines) = Len(EventsOf(op.lines))
      /\ \A i \in 1 .. Len(EventsOf(op.lines)) :
           /\ op.lines[i].seq = op.before + i
           /\ op.lines[i].event = EventsOf(op.lines)[i] /\ op.lines[i].whole = TRUE
  <2>1. \A E \in Logs, b \in Nat :
          /\ Lines(E, b) \in Seq(Line) /\ Len(Lines(E, b)) = Len(E)
          /\ \A i \in 1 .. Len(E) : /\ Lines(E, b)[i].seq = b + i
                                    /\ Lines(E, b)[i].event = E[i]
                                    /\ Lines(E, b)[i].whole = TRUE
    BY LinesFacts
  <2> DEFINE N == EventsOf(op.lines)
  <2>2. N \in Logs /\ op.lines = Lines(N, op.before)
    BY <1>1
  <2> HIDE DEF N
  <2>3. /\ op.lines \in Seq(Line) /\ Len(op.lines) = Len(N)
        /\ \A i \in 1 .. Len(N) :
             /\ op.lines[i].seq = op.before + i
             /\ op.lines[i].event = N[i] /\ op.lines[i].whole = TRUE
    BY <1>1, <2>1, <2>2
  <2> QED BY <2>3 DEF N
<1>3. \A i \in 1 .. Len(EventsOf(op.lines)) : EventsOf(op.lines)[i] \in Grammar!Events
  BY <1>1 DEF Logs
<1>4. SUFFICES ASSUME NEW i \in DOMAIN op.lines
      PROVE  op.lines[i].seq > 0 /\ (op.lines[i].whole = (op.lines[i].event.type # "none"))
  BY DEF AreLines
<1>5. i \in 1 .. Len(EventsOf(op.lines))
  BY <1>2
<1>6. op.lines[i].event.type # "none" /\ op.lines[i].whole = TRUE
  BY <1>2, <1>3, <1>5, EventIs
<1>7. op.lines[i].seq > 0
  BY <1>1, <1>2, <1>5
<1> QED BY <1>6, <1>7

\* What is acknowledged is among the lines that surely survive.
LEMMA ImpliesAcked == IInv => AckedSurvives
<1> SUFFICES ASSUME IInv PROVE AckedSurvives
  OBVIOUS
<1>1. AreLines(file) /\ AreLines(media) /\ AreLines(op.lines)
  BY FileIs, ReadableLines, OperationLines DEF IInv
<1>2. JsonlTypeOK
  BY <1>1 DEF IInv, Memory, Operation, JsonlTypeOK
<1>3. TypeOK
  BY <1>2 DEF IInv, Memory, Effects, TypeOK
<1>4. ~Corrupt(file)
  BY FileIs, ReaderAgrees
<1> QED BY <1>3, <1>4, FileIs DEF AckedSurvives

\* A readable file numbers its lines in order.
LEMMA ImpliesOnce == IInv => SequenceOnce
<1> SUFFICES ASSUME IInv, NEW i \in DOMAIN file, file[i].whole PROVE file[i].seq = i
  BY DEF SequenceOnce
<1>1. /\ file \in Seq(Line) /\ Len(file) \in Nat /\ committed(file) \in 0 .. Len(file)
      /\ \A j \in 1 .. committed(file) : file[j].seq = j
      /\ \A j \in committed(file) + 1 .. Len(file) : ~file[j].whole
  BY FileIs, ReadableFacts
<1>2. i \in 1 .. Len(file)
  BY <1>1
<1>3. i \in 1 .. committed(file)
  BY <1>1, <1>2
<1> QED BY <1>1, <1>3

\* Requests and bodies wait for their checkpoint, which waits for the disk.
LEMMA ImpliesOnRecord == IInv => EffectsAreOnRecord
<1> SUFFICES ASSUME IInv PROVE EffectsAreOnRecord
  OBVIOUS
<1> DEFINE log == StoredEvents(file)
<1>1. /\ acked \in Logs /\ log \in Logs /\ IsPrefix(acked, log) /\ LogOK(log, Failed, Used)
  BY FileIs DEF Kept
<1>2. /\ \A r \in requested : \E i \in DOMAIN acked :
           acked[i] = Event("request/header", r[1], r[2])
      /\ ran \subseteq Recorded(acked)
  BY DEF IInv, Effects
<1> HIDE DEF log
<1>3. \A i \in DOMAIN acked : i \in DOMAIN log /\ log[i] = acked[i]
  <2>1. /\ DOMAIN acked = 1 .. Len(acked) /\ DOMAIN log = 1 .. Len(log)
        /\ Len(acked) \in Nat /\ Len(log) \in Nat
    BY <1>1 DEF Logs
  <2>2. Len(acked) \in 0 .. Len(log) /\ \A i \in 1 .. Len(acked) : acked[i] = log[i]
    BY <1>1, PrefixFacts
  <2> QED BY <2>1, <2>2
<1>4. \A r \in requested : \E i \in DOMAIN log : log[i] = Event("request/header", r[1], r[2])
  BY <1>2, <1>3
<1>5. Recorded(acked) \subseteq Recorded(log)
  BY <1>1, LogPrefix
<1>6. \A c \in ran : \E i \in DOMAIN log : log[i].type = "tool/call" /\ c \in log[i].calls
  BY <1>2, <1>5 DEF Recorded
<1> QED BY <1>4, <1>6 DEF EffectsAreOnRecord, log

\* The repair's target ends between turns, and so does what was loaded.
LEMMA ImpliesFinal == IInv => RepairIsFinal
<1> SUFFICES ASSUME IInv, op.kind = "repair", op.stage = "ok"
    PROVE  ~tornMarker(file) /\ interruptedTurnClosers(StoredEvents(file)) = <<>>
  BY DEF RepairIsFinal
<1>1. Whole(file) /\ RepairScan(StoredEvents(file)).turn = 0
  BY DEF IInv, Storage, Repairing
<1>2. ~tornMarker(file)
  BY <1>1, FileIs, ReaderAgrees, SureFacts
<1>3. LogOK(StoredEvents(file), Failed, Used)
  BY FileIs DEF Kept
<1>4. interruptedTurnClosers(StoredEvents(file)) = <<>>
  BY <1>1, <1>3, Closers
<1> QED BY <1>2, <1>4

\* A call the log says never started has no record a body could wait for.
LEMMA ImpliesNeverRan == IInv => NotStartedNeverRan
<1> SUFFICES ASSUME IInv, NEW i \in DOMAIN live, live[i].type = "tool/not-started",
                    NEW c \in live[i].calls, c \in ran
    PROVE  FALSE
  BY DEF NotStartedNeverRan
<1>1. c \in NotStarted(live)
  BY DEF NotStarted
<1>2. up
  <2>1. live # <<>>
    OBVIOUS
  <2> QED BY <2>1, Here DEF Position
<1>3. /\ IsPrefix(acked, live) /\ ran \subseteq Recorded(acked) /\ acked \in Logs
      /\ LogOK(live, Failed, Used) /\ c \in Calls
  BY <1>2, Here DEF IInv, Effects
<1>4. c \in Recorded(live)
  BY <1>3, LogPrefix
<1>5. PICK n, m, P, R, nn, nm :
        Stands(live, n, m, P, R, nn, nm) /\ \A d \in Calls : CallLegal(live, P, R, Failed, d)
  BY <1>3, LogFacts DEF Legal
<1>6. CallLegal(live, P, R, Failed, c)
  BY <1>3, <1>5
<1> QED BY <1>1, <1>4, <1>6 DEF CallLegal

\* A well-formed log obeys the grammar.
LEMMA ImpliesLegal == IInv => RepairedLogIsLegal
<1> SUFFICES ASSUME IInv PROVE RepairedLogIsLegal
  OBVIOUS
<1>1. LogOK(live, Failed, Used) /\ Position
  BY Here
<1>2. Replay(live).ok
  <2>1. PICK n, m, P, R, nn, nm : Stands(live, n, m, P, R, nn, nm)
    BY <1>1, LogFacts
  <2> QED BY <2>1 DEF Stands
<1>3. at = "idle" => Replay(live).trace.openTurn = 0
  <2>1. SUFFICES ASSUME at = "idle" PROVE Replay(live).trace.openTurn = 0
    OBVIOUS
  <2>2. \E nn, nm : Stands(live, 0, 0, {}, {}, nn, nm)
    BY <1>1, <2>1, EmptyLegal DEF Position
  <2>3. PICK nn, nm : Stands(live, 0, 0, {}, {}, nn, nm)
    BY <2>2
  <2> QED BY <2>3 DEF Stands
<1>4. ASSUME up, at = "idle", NEW c \in Asked(live)
      PROVE  \/ Cardinality(Answers(live, c)) = 1
             \/ Cardinality(Answers(live, c)) = 0 /\ stage[c] = "failed"
  <2>1. PICK nm : Stands(live, 0, 0, {}, {}, turn + 1, nm)
    BY <1>1, <1>4 DEF Position
  <2>2. c \in Calls
    BY <1>1, <1>4, LogFacts DEF Used
  <2>3. Legal(live, Failed)
    BY <1>1, LogFacts
  <2>4. CallLegal(live, {}, {}, Failed, c)
    BY <2>1, <2>2, <2>3, LegalAt
  <2>5. /\ Answers(live, c) # {} \/ c \in Failed
        /\ \A i, j \in Answers(live, c) : i = j
    BY <1>4, <2>4 DEF CallLegal
  <2>6. CASE Answers(live, c) = {}
    <3>1. Cardinality(Answers(live, c)) = 0
      BY <2>6, FS_EmptySet
    <3> QED BY <2>5, <2>6, <3>1 DEF Failed
  <2>7. CASE Answers(live, c) # {}
    <3>1. PICK i : i \in Answers(live, c)
      BY <2>7
    <3>2. Answers(live, c) = {i}
      BY <2>5, <3>1
    <3> QED BY <3>2, FS_Singleton
  <2> QED BY <2>6, <2>7
<1> QED BY <1>2, <1>3, <1>4 DEF RepairedLogIsLegal

\* appendBatch's promise: what was reported durable is a prefix of what any later
\* load reads, and the file is never corrupt, whichever write, sync or link failed,
\* wherever the machine stopped, and whether a repair was under way. Where neither
\* closing the file nor its rollback fails.
THEOREM AcknowledgedEventsSurvive == "close" \notin Faults => (Spec => []AckedSurvives)
<1> SUFFICES ASSUME "close" \notin Faults PROVE Spec => []AckedSurvives
  OBVIOUS
<1>1. IInv /\ [Next]_vars => IInv'
  BY Inductive
<1> QED BY InitHolds, <1>1, ImpliesAcked, PTL DEF Spec

\* A retried batch stores no event twice: appendLines cuts a failed batch off again,
\* so every complete line carries the number of its place. Where neither closing
\* the file nor its rollback fails: otherwise CloseFails.cfg refutes it.
THEOREM EventsAreStoredOnce == "close" \notin Faults => (Spec => []SequenceOnce)
<1> SUFFICES ASSUME "close" \notin Faults PROVE Spec => []SequenceOnce
  OBVIOUS
<1>1. IInv /\ [Next]_vars => IInv'
  BY Inductive
<1> QED BY InitHolds, <1>1, ImpliesOnce, PTL DEF Spec

\* The checkpoint policy of session-checkpoint-policy/src/index.ts: a request that
\* reached a model, and a tool body that ran, is named by an event in the file, at
\* every moment and after every crash. Where neither closing the file nor its
\* rollback fails.
THEOREM NoEffectBeforeItsRecord == "close" \notin Faults => (Spec => []EffectsAreOnRecord)
<1> SUFFICES ASSUME "close" \notin Faults PROVE Spec => []EffectsAreOnRecord
  OBVIOUS
<1>1. IInv /\ [Next]_vars => IInv'
  BY Inductive
<1> QED BY InitHolds, <1>1, ImpliesOnRecord, PTL DEF Spec

\* The load after a committed repair finds nothing left to repair: commitRepair has
\* removed the torn tail, and interruptedTurnClosers of the stored log is empty.
\* Where neither closing the file nor its rollback fails.
THEOREM OneRepairIsEnough == "close" \notin Faults => (Spec => []RepairIsFinal)
<1> SUFFICES ASSUME "close" \notin Faults PROVE Spec => []RepairIsFinal
  OBVIOUS
<1>1. IInv /\ [Next]_vars => IInv'
  BY Inductive
<1> QED BY InitHolds, <1>1, ImpliesFinal, PTL DEF Spec

\* A call that the log says never started (repair.ts) has not run, before the crash
\* or after the resume: retrying it is safe. Where neither closing the file nor its
\* rollback fails.
THEOREM UnstartedCallsNeverRan == "close" \notin Faults => (Spec => []NotStartedNeverRan)
<1> SUFFICES ASSUME "close" \notin Faults PROVE Spec => []NotStartedNeverRan
  OBVIOUS
<1>1. IInv /\ [Next]_vars => IInv'
  BY Inductive
<1> QED BY InitHolds, <1>1, ImpliesNeverRan, PTL DEF Spec

\* A log interrupted anywhere, repaired by interruptedTurnClosers and continued is
\* one the session grammar accepts, has no turn open between turns, and answers
\* every call a model asked for exactly once, unless the step's scheduler failed.
\* Where neither closing the file nor its rollback fails.
THEOREM RepairedLogsAreLegal == "close" \notin Faults => (Spec => []RepairedLogIsLegal)
<1> SUFFICES ASSUME "close" \notin Faults PROVE Spec => []RepairedLogIsLegal
  OBVIOUS
<1>1. IInv /\ [Next]_vars => IInv'
  BY Inductive
<1> QED BY InitHolds, <1>1, ImpliesLegal, PTL DEF Spec
=============================================================================
