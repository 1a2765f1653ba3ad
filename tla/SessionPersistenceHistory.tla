---------------------- MODULE SessionPersistenceHistory ---------------------
(***************************************************************************)
(* Theorems about module SessionPersistence, for any number of sessions,   *)
(* callers, events and upsets: the log of an owned id is the history of    *)
(* its session, the log and what its controller holds lose nothing, no     *)
(* repair closes the turn of a session that is live, and what a call       *)
(* answers with holds all that was in the log, or draining, when it began. *)
(*                                                                         *)
(* The invariant follows an event from the session to the log.  What a     *)
(* controller holds is the end of its session's history (Owners); the      *)
(* seed, the suffix and the batches on the chain go on where the log ends  *)
(* and lead up to there (Queue); the batch being written is the next of    *)
(* them (Writing); and the view that a resume publishes is the log it read *)
(* (Views, Cursors).  On top of it: who authored what the log still lacks  *)
(* (Authors, Begins), and that nothing which could repair the log is       *)
(* queued while a live session's turn is open in it (Spared).  And for     *)
(* the answers: the order in which the sessions of the id end (Ranks);     *)
(* that what a call is owed is in the log, or drains while the call waits  *)
(* or while its session holds the id, or was refused (Owing); and that a   *)
(* preparation that was read stays the log (Cached).                       *)
(***************************************************************************)
EXTENDS SessionPersistenceProofs

\* The cursor is the end of the log while the coordinator tracks the id, and
\* without an owner there is nothing to recover.
Cursors ==
  /\ ~ disk.exists => disk = Absent
  /\ ~ state.tracked => state.owner = Nobody
  /\ state.tracked => state.cursor = Len(disk.log) /\ ~ disk.torn
  /\ state.tracked /\ state.owner = Nobody => ~ Open(disk.log)
  /\ stage = "repair" => ~ state.tracked /\ disk.exists

\* What the controller of a session holds is the end of its history, from here.
Base(s) == Len(hist[s]) - Len(live[s].queue)
Held(s) ==
  /\ Len(live[s].queue) <= Len(hist[s])
  /\ \A i \in DOMAIN live[s].queue : live[s].queue[i] = Base(s) + i - 1

\* The owner is watched, and its history goes on where the log ends; it loses
\* the id only with nothing queued.
Owner(s) ==
  /\ state.owner = s => live[s].on /\ IsPrefix(disk.log, hist[s])
  /\ (live[s].on /\ live[s].init = "ok" /\ state.owner # s) =>
       life[s] = "over" /\ live[s].queue = <<>>
  /\ running /\ live[s].on => Held(s)
  /\ (running /\ live[s].on /\ live[s].init = "ok" /\ state.owner = s) =>
       Len(disk.log) = Base(s)
Owners == \A s \in Sessions : Owner(s)

\* What is queued for a session extends the log to where its controller goes
\* on; no session or resume overtakes an append that is queued.
Extended(o) ==
  /\ o.op \in {"suffix", "seed"} =>
       /\ state.owner = o.for /\ o.from = Len(disk.log)
       /\ IsPrefix(disk.log \o o.events, hist[o.for])
       /\ running => Len(disk.log) + Len(o.events) = Base(o.for)
  /\ o.op = "suffix" => state.materialized
  /\ o.op = "write" => state.owner = o.for /\ live[o.for].init = "ok"
  /\ o.op = "created" =>
       /\ state.owner # o.for /\ live[o.for].on
       /\ state.owner # Nobody => life[state.owner] = "over"
       /\ running => live[o.for].seed = Base(o.for)
  /\ o.op = "append" =>
       /\ state.owner = Nobody /\ entry.phase # "reserved"
       /\ \A i \in DOMAIN o.events : o.events[i].kind = "note"
Follows(o, p) ==
  /\ o.op = "created" /\ p.op = "created" => life[o.for] = "over"
  /\ o.op = "created" => p.op # "seed" /\ p.op # "append"
  /\ o.op = "commit" /\ p.op = "append" => caller[o.for].gen # entry.gen
Queue ==
  /\ \A i \in DOMAIN chain : Extended(chain[i])
  /\ \A i, j \in DOMAIN chain : i < j => Follows(chain[i], chain[j])

\* The batch being written extends the log as its operation does.
Writing ==
  stage = "write" =>
    /\ state.tracked /\ chain[1].op \in Appends
    /\ chain[1].op # "append" => IsPrefix(disk.log \o batch, hist[chain[1].for])
    /\ chain[1].op = "append" => \A i \in DOMAIN batch : batch[i].kind = "note"
    /\ chain[1].op \in {"suffix", "seed"} => batch = chain[1].events
    /\ chain[1].op = "write" /\ running => Len(batch) = live[chain[1].for].writing

\* The history of a reserved call is the log it read.
Views ==
  \A c \in Callers :
    caller[c].pc = "reserved" => caller[c].view = Balanced(caller[c].source.log)

Histories == Cursors /\ Owners /\ Queue /\ Writing /\ Views

-----------------------------------------------------------------------------
(* Steps of the chain *)

\* The operations that write the log, or decide whose it is.
Ordered == {"created", "suffix", "seed", "write", "append", "commit"}

ExtendedNext(o) ==
  /\ o.op \in {"suffix", "seed"} =>
       /\ state'.owner = o.for /\ o.from = Len(disk'.log)
       /\ IsPrefix(disk'.log \o o.events, hist'[o.for])
       /\ running' => Len(disk'.log) + Len(o.events) = Len(hist'[o.for]) - Len(live'[o.for].queue)
  /\ o.op = "suffix" => state'.materialized
  /\ o.op = "write" => state'.owner = o.for /\ live'[o.for].init = "ok"
  /\ o.op = "created" =>
       /\ state'.owner # o.for /\ live'[o.for].on
       /\ state'.owner # Nobody => life'[state'.owner] = "over"
       /\ running' => live'[o.for].seed = Len(hist'[o.for]) - Len(live'[o.for].queue)
  /\ o.op = "append" =>
       /\ state'.owner = Nobody /\ entry'.phase # "reserved"
       /\ \A i \in DOMAIN o.events : o.events[i].kind = "note"
FollowsNext(o, p) ==
  /\ o.op = "created" /\ p.op = "created" => life'[o.for] = "over"
  /\ o.op = "created" => p.op # "seed" /\ p.op # "append"
  /\ o.op = "commit" /\ p.op = "append" => caller'[o.for].gen # entry'.gen

LEMMA QueueKept ==
  ASSUME Queue, NEW d, From(Ordered, d),
         \A k \in DOMAIN chain \ d : ExtendedNext(chain[k]),
         \A k, m \in DOMAIN chain \ d : k < m => FollowsNext(chain[k], chain[m])
  PROVE  Queue'
<1>1. ASSUME NEW i \in DOMAIN chain' PROVE Extended(chain[i])'
  <2>1. CASE chain'[i].op \in Ordered
    <3>1. PICK k \in DOMAIN chain \ d : chain'[i] = chain[k]
      BY <2>1 DEF From
    <3> QED BY <3>1 DEF Extended, ExtendedNext, Base
  <2>2. CASE chain'[i].op \notin Ordered
    BY <2>2 DEF Extended, Ordered
  <2> QED BY <2>1, <2>2
<1>2. ASSUME NEW i \in DOMAIN chain', NEW j \in DOMAIN chain', i < j
      PROVE  Follows(chain[i], chain[j])'
  <2>1. CASE chain'[i].op \in Ordered /\ chain'[j].op \in Ordered
    <3>1. PICK k, m \in DOMAIN chain \ d :
            chain'[i] = chain[k] /\ chain'[j] = chain[m] /\ k < m
      BY <1>2, <2>1 DEF From
    <3> QED BY <3>1 DEF Follows, FollowsNext
  <2>2. CASE ~ (chain'[i].op \in Ordered /\ chain'[j].op \in Ordered)
    BY <2>2 DEF Follows, Ordered
  <2> QED BY <2>1, <2>2
<1> QED BY <1>1, <1>2 DEF Queue

LEMMA QueuePlus ==
  ASSUME TypeOK, Queue, \A k \in DOMAIN chain : ExtendedNext(chain[k]),
         \A k, m \in DOMAIN chain : k < m => FollowsNext(chain[k], chain[m]),
         \E o : /\ Serialize(o) /\ ExtendedNext(o)
                /\ \A k \in DOMAIN chain : FollowsNext(chain[k], o)
  PROVE  Queue'
<1>1. PICK o : /\ Serialize(o) /\ ExtendedNext(o)
               /\ \A k \in DOMAIN chain : FollowsNext(chain[k], o)
  OBVIOUS
<1>2. chain \in Seq(Operations \cup {o}) /\ o \in Operations \cup {o}
  BY DEF TypeOK
<1>3. /\ DOMAIN chain' = 1 .. Len(chain) + 1 /\ DOMAIN chain = 1 .. Len(chain)
      /\ \A i \in DOMAIN chain : chain'[i] = chain[i]
      /\ chain'[Len(chain) + 1] = o /\ Len(chain) \in Nat
  BY <1>1, <1>2, AppendFacts DEF Serialize
<1>4. \A i \in DOMAIN chain' : i \in DOMAIN chain \/ i = Len(chain) + 1
  BY <1>3
<1>5. \A i \in DOMAIN chain' : ExtendedNext(chain'[i])
  BY <1>1, <1>3, <1>4
<1>6. \A i \in DOMAIN chain' : Extended(chain[i])'
  BY <1>5 DEF Extended, ExtendedNext, Base
<1>7. \A i, j \in DOMAIN chain' : i < j => i \in DOMAIN chain
  BY <1>3
<1>8. \A i, j \in DOMAIN chain' : i < j => FollowsNext(chain'[i], chain'[j])
  BY <1>1, <1>3, <1>4, <1>7
<1>9. \A i, j \in DOMAIN chain' : i < j => Follows(chain[i], chain[j])'
  BY <1>8 DEF Follows, FollowsNext
<1> QED BY <1>6, <1>9 DEF Queue

\* The head of the chain goes on as the seed that is left to store.
LEMMA QueueOn ==
  ASSUME TypeOK, Queue, chain # <<>>, chain[1].op = "created",
         \A k \in DOMAIN chain \ {1} : ExtendedNext(chain[k]),
         \A k, m \in DOMAIN chain \ {1} : k < m => FollowsNext(chain[k], chain[m]),
         \E o \in Operations : /\ ExtendedNext(o) /\ o.op = "seed"
                               /\ chain' = <<o>> \o Tail(chain)
  PROVE  Queue'
<1>1. PICK o \in Operations : /\ ExtendedNext(o) /\ o.op = "seed"
                              /\ chain' = <<o>> \o Tail(chain)
  OBVIOUS
<1>2. chain \in Seq(Operations)
  BY DEF TypeOK
<1>3. /\ Tail(chain) \in Seq(Operations) /\ Len(Tail(chain)) = Len(chain) - 1
      /\ DOMAIN chain = 1 .. Len(chain) /\ Len(chain) \in Nat \ {0}
      /\ \A i \in 1 .. Len(chain) - 1 : Tail(chain)[i] = chain[i + 1]
  BY <1>2, TailFacts
<1>4. <<o>> \in Seq(Operations) /\ Len(<<o>>) = 1 /\ <<o>>[1] = o
  OBVIOUS
<1>5. /\ chain' \in Seq(Operations) /\ Len(chain') = Len(<<o>>) + Len(Tail(chain))
      /\ \A i \in 1 .. Len(<<o>>) + Len(Tail(chain)) :
           chain'[i] = IF i <= Len(<<o>>) THEN <<o>>[i] ELSE Tail(chain)[i - Len(<<o>>)]
  BY <1>1, <1>3, <1>4, ConcatProperties
<1>6. DOMAIN chain' = DOMAIN chain
  BY <1>3, <1>4, <1>5, LenProperties
<1>7. chain'[1] = o
  BY <1>3, <1>4, <1>5
<1>8. ASSUME NEW i \in DOMAIN chain', i # 1 PROVE i \in DOMAIN chain \ {1} /\ chain'[i] = chain[i]
  <2>1. i - 1 \in 1 .. Len(chain) - 1 /\ i - 1 + 1 = i /\ ~ (i <= 1)
    BY <1>3, <1>6, <1>8
  <2> QED BY <1>3, <1>4, <1>5, <1>6, <1>8, <2>1
<1>9. \A i \in DOMAIN chain' : ExtendedNext(chain'[i])
  BY <1>1, <1>6, <1>7, <1>8
<1>10. \A i \in DOMAIN chain' : Extended(chain[i])'
  BY <1>9 DEF Extended, ExtendedNext, Base
<1>11. \A i, j \in DOMAIN chain' : i < j => j # 1
  BY <1>3, <1>6
<1>12. \A j \in DOMAIN chain' : FollowsNext(o, chain'[j])
  BY <1>1 DEF FollowsNext
<1>13. \A i, j \in DOMAIN chain' : i < j => FollowsNext(chain'[i], chain'[j])
  BY <1>7, <1>8, <1>11, <1>12
<1>14. \A i, j \in DOMAIN chain' : i < j => Follows(chain[i], chain[j])'
  BY <1>13 DEF Follows, FollowsNext
<1> QED BY <1>10, <1>14 DEF Queue

-----------------------------------------------------------------------------
(* Steps that leave the histories alone, and the log of an owned id *)

Still ==
  /\ UNCHANGED <<running, hist, live, life>> /\ state'.owner = state.owner
  /\ \/ state.owner = Nobody
     \/ disk'.log = disk.log /\ (state.materialized => state'.materialized)

\* What is queued, and for whom.
LEMMA QueueFacts ==
  ASSUME TypeOK, Queue, NEW k \in DOMAIN chain
  PROVE  /\ Extended(chain[k]) /\ chain[k] \in Operations /\ k \in Nat
         /\ chain[k].op \in SessionOps => chain[k].for \in Sessions /\ chain[k].for # Nobody
         /\ chain[k].op \in {"check", "commit"} => chain[k].for \in Callers
         /\ chain[k].events \in Seq(Events)
         /\ \A m \in DOMAIN chain : k < m => Follows(chain[k], chain[m])
<1>1. chain \in Seq(Operations)
  BY DEF TypeOK
<1>2. chain[k] \in Operations /\ k \in Nat
  BY <1>1, ElementOfSeq, LenProperties
<1> QED BY <1>2, OpFacts, Ids DEF Queue

LEMMA StillOwners ==
  ASSUME Owners, Still
  PROVE  Owners'
<1> SUFFICES ASSUME NEW s \in Sessions PROVE Owner(s)'
  BY DEF Owners
<1>1. Owner(s) /\ s # Nobody
  BY Ids DEF Owners
<1>2. Held(s)' <=> Held(s)
  BY DEF Held, Base, Still
<1> QED BY <1>1, <1>2 DEF Owner, Still, Base

LEMMA StillExtended ==
  ASSUME TypeOK, Queue, Still, NEW k \in DOMAIN chain,
         chain[k].op = "append" => entry'.phase # "reserved"
  PROVE  ExtendedNext(chain[k])
<1>1. /\ Extended(chain[k])
      /\ chain[k].op \in SessionOps => chain[k].for # Nobody
  BY QueueFacts
<1> QED BY <1>1 DEF Extended, ExtendedNext, Still, SessionOps, Base

\* A commit that is left on the chain is still the same call's, and does not
\* come to hold an entry that it did not.
Calm(d) ==
  \A k \in DOMAIN chain \ d :
    chain[k].op = "commit" =>
      /\ caller'[chain[k].for].gen = caller[chain[k].for].gen
      /\ entry'.gen = entry.gen \/ entry'.gen # caller[chain[k].for].gen

LEMMA StillFollows ==
  ASSUME Queue, UNCHANGED life, NEW d, Calm(d)
  PROVE  \A k, m \in DOMAIN chain \ d : k < m => FollowsNext(chain[k], chain[m])
BY DEF Queue, Follows, FollowsNext, Calm

LEMMA StillWriting ==
  ASSUME Writing, Still,
         \/ stage' # "write"
         \/ stage = "write" /\ UNCHANGED <<disk, state, batch>> /\ chain'[1] = chain[1]
  PROVE  Writing'
BY DEF Writing, Still

LEMMA StillHistories ==
  ASSUME TypeOK, Histories, Still, Cursors', Views',
         \E d : /\ From(Ordered, d) /\ Calm(d)
                /\ \A k \in DOMAIN chain \ d :
                     chain[k].op = "append" => entry'.phase # "reserved",
         \/ stage' # "write"
         \/ stage = "write" /\ UNCHANGED <<disk, state, batch>> /\ chain'[1] = chain[1]
  PROVE  Histories'
<1>0. Owners /\ Queue /\ Writing
  BY DEF Histories
<1>1. Owners' /\ Writing'
  BY <1>0, StillOwners, StillWriting
<1>2. PICK d : /\ From(Ordered, d) /\ Calm(d)
               /\ \A k \in DOMAIN chain \ d :
                    chain[k].op = "append" => entry'.phase # "reserved"
  OBVIOUS
<1>3. \A k \in DOMAIN chain \ d : ExtendedNext(chain[k])
  BY <1>0, <1>2, StillExtended
<1>4. \A k, m \in DOMAIN chain \ d : k < m => FollowsNext(chain[k], chain[m])
  BY <1>0, <1>2, StillFollows DEF Still
<1>5. Queue'
  BY <1>0, <1>2, <1>3, <1>4, QueueKept
<1> QED BY <1>1, <1>5 DEF Histories

-----------------------------------------------------------------------------
(* The calls and the service's other callers *)

LEMMA CalmCalls ==
  ASSUME TypeOK, Reservations, NEW d,
         \A c \in Callers : \/ caller'[c].gen = caller[c].gen
                            \/ caller[c].pc # "committing"
                            \/ LeftIn(c, d),
         \/ entry'.gen = entry.gen
         \/ \A c \in Callers : caller[c].pc = "committing" => entry'.gen # caller[c].gen
  PROVE  Calm(d)
<1> SUFFICES ASSUME NEW k \in DOMAIN chain \ d, chain[k].op = "commit"
             PROVE  /\ caller'[chain[k].for].gen = caller[chain[k].for].gen
                    /\ entry'.gen = entry.gen \/ entry'.gen # caller[chain[k].for].gen
  BY DEF Calm
<1>1. chain[k].for \in Callers /\ caller[chain[k].for].pc = "committing"
  BY BoundFacts DEF Reservations, Served, Serves
<1> QED BY <1>1 DEF LeftIn

\* An entry that was dropped is no call's.
LEMMA NoGeneration ==
  ASSUME Reservations
  PROVE  \A c \in Callers : caller[c].pc \in {"checking", "committing"} => NoEntry.gen # caller[c].gen
BY DEF Reservations, Calls, NoEntry, Holds

LEMMA HeadKept ==
  ASSUME TypeOK, chain # <<>>,
         \/ UNCHANGED chain
         \/ \E o : Serialize(o)
         \/ \E i \in DOMAIN chain : i # 1 /\ chain' = RemoveAt(chain, i)
  PROVE  chain'[1] = chain[1]
<1>1. chain \in Seq(Operations) /\ 1 \in DOMAIN chain
  BY HeadFacts DEF TypeOK
<1>2. ASSUME NEW o, Serialize(o) PROVE chain'[1] = chain[1]
  <2>1. chain \in Seq(Operations \cup {o}) /\ o \in Operations \cup {o}
    BY <1>1
  <2> QED BY <1>1, <1>2, <2>1, AppendFacts DEF Serialize
<1>3. ASSUME NEW i \in DOMAIN chain, i # 1, chain' = RemoveAt(chain, i) PROVE chain'[1] = chain[1]
  <2>1. /\ DOMAIN chain' = 1 .. Len(chain) - 1 /\ Len(chain) \in Nat /\ DOMAIN chain = 1 .. Len(chain)
        /\ \A j \in DOMAIN chain' : chain'[j] = IF j < i THEN chain[j] ELSE chain[j + 1]
    BY <1>1, <1>3, RemoveFacts
  <2>2. 1 \in DOMAIN chain' /\ 1 < i
    BY <1>3, <2>1
  <2> QED BY <2>1, <2>2
<1> QED BY <1>2, <1>3

LEMMA StillCalls ==
  ASSUME Shaped, Reservations, Histories, NEW c \in Callers,
         \/ \E m \in Modes : Begin(c, m)
         \/ FindsLive(c) \/ FindsCold(c) \/ Invalidated(c) \/ Inspects(c) \/ EndCall(c)
         \/ Abort(c) \/ SetupAppends(c) \/ Release(c)
  PROVE  Histories'
<1> USE DEF sessions, storage
<1>0. /\ TypeOK /\ Calls /\ Served /\ Cursors /\ Views /\ Queue /\ entry \in EntryType
      /\ caller \in [Callers -> CallType] /\ caller[c] \in CallType
      /\ NoEntry.gen = 0 /\ NoEntry.phase = "none"
  BY DEF Shaped, Reservations, Histories, TypeOK, NoEntry
<1>1. UNCHANGED <<running, disk, state, stage, batch, store, life, hist, live>>
  BY DEF Begin, FindsLive, FindsCold, Invalidated, Inspects, EndCall, Abort, SetupAppends, Release
<1>2. Still /\ Cursors'
  BY <1>0, <1>1 DEF Still, Cursors
<1>3. /\ \A e \in Callers \ {c} : caller'[e] = caller[e]
      /\ \/ caller'[c].pc # "reserved"
         \/ /\ caller'[c].pc = caller[c].pc /\ caller'[c].view = caller[c].view
            /\ caller'[c].source = caller[c].source /\ caller'[c].gen = caller[c].gen
  <2>1. CASE SetupAppends(c)
    BY <1>0, <2>1 DEF SetupAppends, CallType
  <2>2. CASE Abort(c)
    <3>1. CASE caller' = HangUp(c)
      BY <1>0, <3>1 DEF HangUp, NoCall
    <3>2. CASE caller' = [caller EXCEPT ![c].aborted = TRUE]
      BY <1>0, <3>2 DEF CallType
    <3> QED BY <2>2, <3>1, <3>2 DEF Abort
  <2>3. CASE caller' = HangUp(c)
    BY <1>0, <2>3 DEF HangUp, NoCall
  <2>4. CASE caller' = TryAgain(c) /\ ~ caller[c].aborted
    BY <1>0, <2>4 DEF TryAgain, CallType
  <2>5. CASE caller' = TryAgain(c) /\ caller[c].aborted
    BY <2>3, <2>5 DEF TryAgain
  <2>6. CASE Inspects(c) /\ caller' # HangUp(c)
    BY <1>0, <2>6 DEF Inspects, CallType
  <2>7. CASE FindsCold(c)
    <3> DEFINE pc == IF entry.phase = "loading" THEN "loading" ELSE "loaded"
    <3>1. CASE caller' = [caller EXCEPT ![c].pc = pc, ![c].gen = entry.gen,
                                        ![c].source = entry.source]
      BY <1>0, <3>1 DEF CallType
    <3>2. CASE caller' = [caller EXCEPT ![c].pc = "loading", ![c].gen = FreeGeneration]
      BY <1>0, <3>2 DEF CallType
    <3> QED BY <2>7, <3>1, <3>2 DEF FindsCold
  <2>8. CASE \E m \in Modes : Begin(c, m)
    <3>1. PICK m \in Modes : Begin(c, m)
      BY <2>8
    <3> DEFINE call == [NoCall EXCEPT !.pc = "retire", !.mode = m, !.waits = retirement,
                                      !.owed = disk.log, !.tails = Tails]
    <3>2. caller' = [caller EXCEPT ![c] = call] /\ call.pc = "retire"
      BY <3>1 DEF Begin, NoCall
    <3> HIDE DEF call
    <3> QED BY <1>0, <3>2
  <2> QED BY <2>1, <2>2, <2>3, <2>4, <2>5, <2>6, <2>7, <2>8
          DEF FindsLive, Invalidated, EndCall, Release
<1>4. Views'
  BY <1>0, <1>3 DEF Views
<1>5. entry' = entry \/ entry' = NoEntry \/ (FindsCold(c) /\ entry'.phase = "loading")
      \/ (Release(c) /\ entry'.gen = entry.gen /\ entry'.phase = "ready")
  BY <1>0 DEF Begin, FindsLive, FindsCold, Invalidated, Inspects, EndCall, Abort, SetupAppends, Release,
     DropEntry, MakeReady, EntryType, NoEntry
<1>6. FindsCold(c) /\ entry' # entry => \A e \in Callers : entry'.gen # caller[e].gen
  <2>1. SUFFICES ASSUME FindsCold(c), entry' # entry
                 PROVE  \A e \in Callers : entry'.gen # caller[e].gen
    OBVIOUS
  <2>2. FreeGenerations # {} /\ entry'.gen = FreeGeneration
    BY <2>1 DEF FindsCold, NoEntry
  <2> QED BY <2>2, GenerationFacts DEF FreeGenerations
<1>7. \/ entry'.gen = entry.gen
      \/ \A e \in Callers : caller[e].pc = "committing" => entry'.gen # caller[e].gen
  BY <1>5, <1>6, NoGeneration
<1>8. \A k \in DOMAIN chain : chain[k].op = "append" => entry'.phase # "reserved"
  BY <1>0, <1>5, QueueFacts DEF Extended
<1>9. stage = "write" => chain # <<>>
  BY <1>0, Busy
<1>10. CASE Abort(c) /\ ~ UNCHANGED chain
  <2>1. PICK i \in DOMAIN chain :
          /\ chain[i].op \in {"check", "commit"} /\ chain[i].for = c /\ i # 1
          /\ chain' = RemoveAt(chain, i)
    BY <1>10 DEF Abort
  <2>2. From(Ordered, {i})
    BY <1>0, <2>1, FromRemoved
  <2>3. LeftIn(c, {i})
    <3>1. \A k \in DOMAIN chain \ {i} : Differ(chain[i], chain[k])
      BY <1>0 DEF Served
    <3> QED BY <2>1, <3>1 DEF LeftIn, Differ
  <2>4. Calm({i})
    BY <1>0, <1>3, <1>7, <2>3, CalmCalls
  <2>5. stage = "write" => chain'[1] = chain[1]
    BY <1>0, <1>9, <2>1, HeadKept
  <2> QED BY <1>0, <1>1, <1>2, <1>4, <1>8, <2>2, <2>4, <2>5, StillHistories
<1>11. CASE ~ (Abort(c) /\ ~ UNCHANGED chain)
  <2>1. UNCHANGED chain \/ \E o : o.op \notin Ordered /\ Serialize(o)
    <3>1. Op("prepare", FreeGeneration).op \notin Ordered /\ Op("check", c).op \notin Ordered
      BY OpShape DEF Ordered
    <3> QED BY <1>11, <3>1 DEF Begin, FindsLive, FindsCold, Invalidated, Inspects, EndCall, SetupAppends,
               Release
  <2>2. From(Ordered, {})
    BY <1>0, <2>1, FromSame, FromGained
  <2>3. caller[c].pc # "committing" \/ caller'[c].gen = caller[c].gen \/ LeftIn(c, {})
    <3>1. Abort(c) => caller[c].pc # "committing" \/ caller'[c].gen = caller[c].gen
      <4>1. SUFFICES ASSUME Abort(c), caller[c].pc = "committing" PROVE caller'[c].gen = caller[c].gen
        OBVIOUS
      <4>2. caller' = [caller EXCEPT ![c].aborted = TRUE] \/ ~ UNCHANGED chain
        BY <4>1, <1>0, RemoveFacts DEF Abort, TypeOK
      <4>3. caller' = [caller EXCEPT ![c].aborted = TRUE]
        BY <1>11, <4>1, <4>2
      <4> QED BY <1>0, <4>3 DEF CallType
    <3> QED BY <3>1 DEF Begin, FindsLive, FindsCold, Invalidated, Inspects, EndCall, SetupAppends,
               Release, Loaded
  <2>4. Calm({})
    BY <1>0, <1>3, <1>7, <2>3, CalmCalls
  <2>5. stage = "write" => chain'[1] = chain[1]
    BY <1>0, <1>9, <2>1, HeadKept
  <2> QED BY <1>0, <1>1, <1>2, <1>4, <1>8, <2>2, <2>4, <2>5, StillHistories
<1> QED BY <1>10, <1>11

LEMMA StillReserve ==
  ASSUME Shaped, Reservations, Histories, NEW c \in Callers, Reserve(c)
  PROVE  Histories'
<1> USE DEF sessions, storage
<1>0. /\ TypeOK /\ Calls /\ Cursors /\ Views /\ Owners /\ Queue /\ Writing /\ entry \in EntryType
      /\ caller \in [Callers -> CallType] /\ caller[c] \in CallType
  BY DEF Shaped, Reservations, Histories, TypeOK
<1>1. /\ UNCHANGED <<running, disk, state, stage, batch, store, life, hist, live>>
      /\ Serialize(Op("commit", c)) /\ caller[c].pc = "loaded"
      /\ caller' = [caller EXCEPT ![c].pc = "committing"]
      /\ entry' = [entry EXCEPT !.phase = "committing"]
  BY DEF Reserve, Loaded
<1>2. Still /\ Cursors'
  BY <1>0, <1>1 DEF Still, Cursors
<1>3. /\ \A e \in Callers \ {c} : caller'[e] = caller[e]
      /\ caller'[c].pc = "committing" /\ caller'[c].gen = caller[c].gen
      /\ entry'.gen = entry.gen /\ entry'.phase = "committing"
  BY <1>0, <1>1 DEF CallType, EntryType
<1>4. Views' /\ Owners'
  BY <1>0, <1>2, <1>3, StillOwners DEF Views
<1>5. stage = "write" => chain # <<>> /\ chain'[1] = chain[1]
  BY <1>0, <1>1, Busy, HeadKept
<1>6. Writing'
  BY <1>0, <1>1, <1>2, <1>5, StillWriting
<1>7. Calm({})
  BY <1>0, <1>3, CalmCalls
<1>8. \A k \in DOMAIN chain : ExtendedNext(chain[k])
  BY <1>0, <1>2, <1>3, StillExtended
<1>9. \A k, m \in DOMAIN chain : k < m => FollowsNext(chain[k], chain[m])
  BY <1>0, <1>1, <1>7, StillFollows
<1> DEFINE o == Op("commit", c)
<1>10. o.op = "commit"
  BY OpShape
<1> HIDE DEF o
<1>11. ExtendedNext(o) /\ \A k \in DOMAIN chain : FollowsNext(chain[k], o)
  BY <1>10 DEF ExtendedNext, FollowsNext
<1>12. Queue'
  <2>1. Serialize(o)
    BY <1>1 DEF o
  <2> QED BY <1>0, <1>8, <1>9, <1>11, <2>1, QueuePlus
<1> QED BY <1>2, <1>4, <1>6, <1>12 DEF Histories

\* Steps of the service and of the cache.
LEMMA StillService ==
  ASSUME Shaped, Reservations, Histories,
         EnsureMaterialized \/ CreateCall \/ Evict \/ UNCHANGED vars
  PROVE  Histories'
<1> USE DEF sessions, storage
<1>0. TypeOK /\ Cursors /\ Views /\ Queue /\ NoEntry.phase = "none"
  BY DEF Shaped, Histories, NoEntry
<1>1. /\ UNCHANGED <<running, disk, state, stage, batch, store, life, hist, live, caller>>
      /\ entry' = entry \/ entry' = NoEntry
  BY DEF EnsureMaterialized, CreateCall, Evict, vars
<1>2. Still /\ Cursors' /\ Views'
  BY <1>0, <1>1 DEF Still, Cursors, Views
<1>3. UNCHANGED chain \/ \E o : o.op \notin Ordered /\ Serialize(o)
  <2>1. Op("header", store).op \notin Ordered /\ Op("create", Outside).op \notin Ordered
    BY OpShape DEF Ordered
  <2> QED BY <2>1 DEF EnsureMaterialized, CreateCall, Evict, vars
<1>4. From(Ordered, {})
  BY <1>0, <1>3, FromSame, FromGained
<1>5. stage = "write" => chain'[1] = chain[1]
  BY <1>0, <1>3, Busy, HeadKept
<1>6. Calm({})
  BY <1>0, <1>1, NoGeneration, CalmCalls
<1>7. \A k \in DOMAIN chain : chain[k].op = "append" => entry'.phase # "reserved"
  BY <1>0, <1>1, QueueFacts DEF Extended
<1> QED BY <1>0, <1>1, <1>2, <1>4, <1>5, <1>6, <1>7, StillHistories

\* append(): no session owns the id, none is to be registered, and no resume
\* holds its preparation.
LEMMA StillAppend ==
  ASSUME Shaped, Reservations, Histories, AppendCall
  PROVE  Histories'
<1> USE DEF sessions, storage
<1>0. TypeOK /\ Calls /\ Served /\ Cursors /\ Views /\ Owners /\ Queue /\ Writing
  BY DEF Shaped, Reservations, Histories
<1>1. UNCHANGED <<running, disk, state, stage, batch, store, life, hist, live, caller, entry>>
  BY DEF AppendCall
<1>2. Still /\ Cursors' /\ Views'
  BY <1>0, <1>1 DEF Still, Cursors, Views
<1> DEFINE e == <<[by |-> Outside, kind |-> "note"]>>
           n == Len(Balanced(disk.log))
           o == [op |-> "append", for |-> Outside, events |-> e, from |-> n]
<1>3. Serialize(o)
  BY DEF AppendCall
<1>4. \A i \in DOMAIN e : e[i].kind = "note"
  <2>1. \A i \in DOMAIN e : i = 1
    OBVIOUS
  <2> QED BY <2>1
<1> HIDE DEF e, n
<1>5. o.op = "append" /\ o.events = e
  OBVIOUS
<1> HIDE DEF o
<1>6. Writable /\ \A s \in Sessions : ~ live[s].on
  BY DEF AppendCall, Unheld
<1>7. state.owner = Nobody
  BY <1>0, <1>6 DEF Owners, Owner, TypeOK, StateType
<1>8. ExtendedNext(o)
  BY <1>1, <1>4, <1>5, <1>6, <1>7 DEF ExtendedNext, Writable
<1>9. ASSUME NEW k \in DOMAIN chain PROVE FollowsNext(chain[k], o)
  <2>1. Extended(chain[k]) /\ (chain[k].op = "created" => chain[k].for \in Sessions)
    BY <1>0, QueueFacts DEF SessionOps
  <2>2. chain[k].op # "created"
    BY <1>6, <2>1 DEF Extended
  <2>3. chain[k].op = "commit" => caller[chain[k].for].gen # entry.gen
    <3>1. SUFFICES ASSUME chain[k].op = "commit" PROVE caller[chain[k].for].gen # entry.gen
      OBVIOUS
    <3>2. chain[k].for \in Callers /\ caller[chain[k].for].pc = "committing"
      BY <1>0, <3>1, BoundFacts DEF Served, Serves
    <3> QED BY <1>0, <1>6, <3>2 DEF Calls, Holds, Writable
  <2> QED BY <1>1, <1>5, <2>2, <2>3 DEF FollowsNext
<1>10. \A k \in DOMAIN chain : ExtendedNext(chain[k])
  <2>1. \A k \in DOMAIN chain : chain[k].op = "append" => entry'.phase # "reserved"
    BY <1>0, <1>1, QueueFacts DEF Extended
  <2> QED BY <1>0, <1>2, <2>1, StillExtended
<1>11. Calm({})
  BY <1>0, <1>1, CalmCalls
<1>12. \A k, m \in DOMAIN chain : k < m => FollowsNext(chain[k], chain[m])
  BY <1>0, <1>1, <1>11, StillFollows
<1>13. Queue'
  BY <1>0, <1>3, <1>8, <1>9, <1>10, <1>12, QueuePlus
<1>14. stage = "write" => chain'[1] = chain[1]
  BY <1>0, <1>3, Busy, HeadKept
<1>15. Owners' /\ Writing'
  BY <1>0, <1>1, <1>2, <1>14, StillOwners, StillWriting
<1> QED BY <1>2, <1>13, <1>15 DEF Histories

-----------------------------------------------------------------------------
(* Steps of the head that no session has a part in *)

LEMMA EmptyIsClosed == ~ Open(<<>>)
BY DEF Open

\* What has no "start" in it opens no turn.
LEMMA NotesKeepClosed ==
  ASSUME NEW log \in Seq(Events), NEW notes \in Seq(Events), ~ Open(log),
         \A i \in DOMAIN notes : notes[i].kind = "note"
  PROVE  ~ Open(log \o notes)
<1>1. /\ Len(log \o notes) = Len(log) + Len(notes) /\ Len(log) \in Nat /\ Len(notes) \in Nat
      /\ \A i \in 1 .. Len(log) + Len(notes) :
           (log \o notes)[i] = IF i <= Len(log) THEN log[i] ELSE notes[i - Len(log)]
      /\ log \o notes \in Seq(Events)
  BY ConcatProperties, LenProperties
<1>2. DOMAIN (log \o notes) = 1 .. Len(log) + Len(notes) /\ DOMAIN log = 1 .. Len(log)
      /\ DOMAIN notes = 1 .. Len(notes)
  BY <1>1, LenProperties
<1> SUFFICES ASSUME NEW i \in DOMAIN (log \o notes), (log \o notes)[i].kind = "start",
                    \A j \in i + 1 .. Len(log \o notes) : (log \o notes)[j].kind # "end"
             PROVE  FALSE
  BY DEF Open
<1>3. CASE i <= Len(log)
  <2>1. i \in DOMAIN log /\ log[i].kind = "start"
    BY <1>1, <1>2, <1>3
  <2>2. ASSUME NEW j \in i + 1 .. Len(log) PROVE log[j].kind # "end"
    BY <1>1, <1>2, <2>2
  <2> QED BY <2>1, <2>2 DEF Open
<1>4. CASE i > Len(log)
  <2>1. i - Len(log) \in DOMAIN notes /\ (log \o notes)[i] = notes[i - Len(log)]
    BY <1>1, <1>2, <1>4
  <2> QED BY <2>1
<1> QED BY <1>1, <1>2, <1>3, <1>4

\* Without an owner, and with owner and log as they were.
Heads ==
  \/ PrepareCore \/ Check \/ CommitThrows \/ CommitStale \/ CommitRepairs \/ Commit
  \/ RepairTruncates \/ RepairEnds \/ HeaderDecides \/ HeaderStored \/ HeaderRefused
  \/ CreateCore \/ AppendAdopts
  \/ (RepairFails \/ ReadFails \/ AppendRefused \/ WriteRefused) /\ UNCHANGED live
  \/ WriteStored /\ chain[1].op = "append"

LEMMA StillCursors ==
  ASSUME Shaped, Histories, Heads
  PROVE  Cursors' /\ Still
<1> USE DEF sessions, storage
<1>0. /\ TypeOK /\ Cursors /\ Writing /\ Queue /\ disk \in Disks /\ state \in StateType
      /\ disk.log \in Seq(Events) /\ Len(disk.log) \in Nat /\ batch \in Seq(Events)
      /\ Absent.log = <<>> /\ ~ Absent.torn /\ ~ Absent.exists /\ Len(<<>>) = 0
  BY LenProperties DEF Shaped, Histories, TypeOK, Disks, Absent
<1>1. UNCHANGED <<running, hist, life>>
  BY DEF Heads, PrepareCore, Check, CommitThrows, CommitStale, CommitRepairs, Commit, RepairTruncates,
     RepairEnds, HeaderDecides, HeaderStored, HeaderRefused, CreateCore, AppendAdopts, RepairFails,
     ReadFails, AppendRefused, WriteRefused, WriteStored
<1>2. CASE \/ PrepareCore \/ Check \/ CommitThrows \/ CommitStale \/ HeaderDecides \/ HeaderRefused
           \/ (RepairFails \/ ReadFails \/ AppendRefused \/ WriteRefused) /\ UNCHANGED live
  <2>1. UNCHANGED <<disk, state, live>> /\ stage' # "repair"
    BY <1>2 DEF PrepareCore, Check, CommitThrows, CommitStale, HeaderDecides, HeaderRefused,
       RepairFails, ReadFails, AppendRefused, WriteRefused, Finish, AtHead
  <2> QED BY <1>0, <1>1, <2>1 DEF Cursors, Still
<1>3. CASE CommitRepairs
  <2>1. /\ state.owner = Nobody /\ NeedsRepair(disk) /\ UNCHANGED <<disk, state, live>>
        /\ stage' = "repair"
    BY <1>3 DEF CommitRepairs
  <2>2. ~ state.tracked
    BY <1>0, <2>1 DEF Cursors, NeedsRepair
  <2>3. disk.exists
    BY <1>0, <2>1, EmptyIsClosed DEF Cursors, NeedsRepair
  <2> QED BY <1>0, <1>1, <2>1, <2>2, <2>3 DEF Cursors, Still
<1>4. CASE Commit
  <2>1. /\ state.owner = Nobody /\ ~ NeedsRepair(disk) /\ UNCHANGED <<disk, live>>
        /\ state' = Tracked(Len(disk.log), TRUE, Nobody) /\ stage' = "queued"
    BY <1>4 DEF Commit, Finish
  <2> QED BY <1>0, <1>1, <2>1 DEF Cursors, Still, Tracked, NeedsRepair
<1>5. CASE RepairTruncates \/ RepairEnds
  <2>1. stage = "repair" /\ UNCHANGED <<state, live>>
    BY <1>5 DEF RepairTruncates, RepairEnds
  <2>2. ~ state.tracked /\ state.owner = Nobody
    BY <1>0, <2>1 DEF Cursors
  <2>3. CASE RepairTruncates
    <3>1. disk.torn /\ disk' = [disk EXCEPT !.torn = FALSE]
      BY <2>3 DEF RepairTruncates
    <3>2. disk.exists /\ disk'.exists
      BY <1>0, <3>1 DEF Cursors, Disks
    <3> QED BY <1>1, <2>1, <2>2, <3>2 DEF Cursors, Still
  <2>4. CASE RepairEnds /\ disk' = [disk EXCEPT !.log = Balanced(@)]
    <3>1. disk'.exists = disk.exists
      BY <1>0, <2>4 DEF Disks
    <3>2. ~ disk.exists => disk' = disk
      <4>1. Balanced(<<>>) = <<>>
        BY EmptyIsClosed, BalancedFacts, EventFacts
      <4>2. disk.log = <<>> => [disk EXCEPT !.log = <<>>] = disk
        BY <1>0 DEF Disks
      <4> QED BY <1>0, <2>4, <4>1, <4>2 DEF Cursors
    <3> QED BY <1>0, <1>1, <2>1, <2>2, <3>1, <3>2 DEF Cursors, Still
  <2>5. CASE RepairEnds /\ UNCHANGED disk
    BY <1>0, <1>1, <2>1, <2>2, <2>5 DEF Cursors, Still
  <2> QED BY <1>5, <2>3, <2>4, <2>5 DEF RepairEnds
<1>6. CASE HeaderStored
  <2>1. /\ disk' = [disk EXCEPT !.exists = TRUE] /\ state' = [state EXCEPT !.materialized = TRUE]
        /\ stage' = "queued" /\ UNCHANGED live
    BY <1>6 DEF HeaderStored, Finish
  <2>2. /\ disk'.exists /\ disk'.log = disk.log /\ disk'.torn = disk.torn
        /\ state'.tracked = state.tracked /\ state'.owner = state.owner
        /\ state'.cursor = state.cursor /\ state'.materialized
    BY <1>0, <2>1 DEF Disks, StateType
  <2> QED BY <1>0, <1>1, <2>1, <2>2 DEF Cursors, Still
<1>7. CASE CreateCore
  <2>1. UNCHANGED <<disk, live>> /\ stage' = "queued"
    BY <1>7 DEF CreateCore, Finish
  <2>2. CASE UNCHANGED state
    BY <1>0, <1>1, <2>1, <2>2 DEF Cursors, Still
  <2>3. CASE state' = Tracked(0, FALSE, Nobody) /\ ~ state.tracked /\ ~ disk.exists
    BY <1>0, <1>1, <2>1, <2>3, EmptyIsClosed DEF Cursors, Still, Tracked
  <2> QED BY <1>7, <2>2, <2>3 DEF CreateCore
<1>8. CASE AppendAdopts
  <2>1. UNCHANGED <<disk, live>> /\ ~ state.tracked /\ state.owner = Nobody /\ disk.exists
    BY <1>0, <1>8 DEF AppendAdopts, Cursors
  <2>2. CASE UNCHANGED state
    BY <1>0, <1>1, <2>1, <2>2 DEF Cursors, Still
  <2>3. CASE state' = Tracked(Len(disk.log), TRUE, Nobody) /\ ~ NeedsRepair(disk) /\ UNCHANGED stage
    <3>1. stage # "repair"
      <4>1. stage = "queued"
        BY <1>8 DEF AppendAdopts, AppendAtHead, AtHead
      <4> QED BY <4>1
    <3> QED BY <1>0, <1>1, <2>1, <2>3, <3>1 DEF Cursors, Still, Tracked, NeedsRepair
  <2> QED BY <1>8, <2>2, <2>3 DEF AppendAdopts
<1>9. CASE WriteStored /\ chain[1].op = "append"
  <2>1. /\ disk' = [exists |-> TRUE, log |-> disk.log \o batch, torn |-> FALSE]
        /\ state' = [state EXCEPT !.materialized = TRUE, !.cursor = @ + Len(batch)]
        /\ stage' = "queued" /\ stage = "write"
    BY <1>9 DEF WriteStored, Finish
  <2>2. live' = live
    BY <1>9 DEF WriteStored, Settled
  <2>3. state.tracked /\ \A i \in DOMAIN batch : batch[i].kind = "note"
    BY <1>0, <1>9, <2>1 DEF Writing
  <2>4. state.owner = Nobody
    <3>1. 1 \in DOMAIN chain
      BY <1>0, <2>1, HeadFacts, Busy
    <3> QED BY <1>0, <1>9, <3>1, QueueFacts DEF Extended
  <2>5. /\ state'.tracked /\ state'.owner = Nobody
        /\ state'.cursor = state.cursor + Len(batch)
    BY <1>0, <2>1, <2>3, <2>4 DEF StateType
  <2>6. /\ disk'.exists /\ ~ disk'.torn /\ Len(disk'.log) = Len(disk.log) + Len(batch)
        /\ ~ Open(disk'.log)
    <3>1. ~ Open(disk.log)
      BY <1>0, <2>3, <2>4 DEF Cursors
    <3> QED BY <1>0, <2>1, <2>3, <3>1, NotesKeepClosed, ConcatFacts
  <2> QED BY <1>0, <1>1, <2>1, <2>2, <2>3, <2>4, <2>5, <2>6 DEF Cursors, Still
<1> QED BY <1>2, <1>3, <1>4, <1>5, <1>6, <1>7, <1>8, <1>9 DEF Heads

\* What becomes of the calls: the head's own call goes or reserves, and a load
\* is shared.
LEMMA StillCallers ==
  ASSUME Shaped, Reservations, Histories, Heads
  PROVE  /\ \A c \in Callers : \/ caller'[c].gen = caller[c].gen
                               \/ caller[c].pc # "committing"
                               \/ /\ chain # <<>> /\ chain[1].op \in {"check", "commit"}
                                  /\ c = chain[1].for
         /\ Views'
<1>0. /\ TypeOK /\ Views /\ Served /\ caller \in [Callers -> CallType]
      /\ \A c \in Callers : caller[c] \in CallType
  BY DEF Shaped, Histories, Reservations, TypeOK
<1>1. CASE UNCHANGED caller
  BY <1>0, <1>1 DEF Views
<1>2. CASE /\ chain # <<>> /\ chain[1].op = "prepare"
           /\ caller' = LoadFulfills(chain[1].for, disk) \/ caller' = LoadRejects(chain[1].for)
  <2> DEFINE g == chain[1].for
  <2>1. \A c \in Callers : caller[c].gen = g => caller[c].pc = "loading"
    <3>1. Serves(chain[1])
      BY <1>0, <1>2, HeadFacts DEF Served
    <3> QED BY <1>2, <3>1 DEF Serves
  <2>2. \A c \in Callers :
          \/ caller'[c] = caller[c]
          \/ caller[c].gen = g /\ caller'[c].pc \in {"idle", "loaded"}
    <3>1. CASE caller' = LoadRejects(g)
      BY <3>1 DEF LoadRejects, NoCall
    <3>2. CASE caller' = LoadFulfills(g, disk)
      <4>1. \A c \in Callers : [caller[c] EXCEPT !.pc = "loaded", !.source = disk].pc = "loaded"
        BY <1>0 DEF CallType
      <4> QED BY <3>2, <4>1 DEF LoadFulfills
    <3> QED BY <1>2, <3>1, <3>2
  <2> HIDE DEF g
  <2> QED BY <1>0, <2>1, <2>2 DEF Views
<1>3. CASE /\ chain # <<>> /\ chain[1].op \in {"check", "commit"}
           /\ \/ caller' = HangUp(chain[1].for) \/ caller' = TryAgain(chain[1].for)
              \/ \E view : caller' = Answer(chain[1].for, "returned", view)
              \/ caller' = Answer(chain[1].for, "reserved", Balanced(Source(chain[1].for).log))
  <2> DEFINE c == chain[1].for
  <2>1. c \in Callers
    BY <1>0, <1>3, HeadFacts
  <2>2. /\ \A d \in Callers \ {c} : caller'[d] = caller[d]
        /\ \/ caller'[c].pc # "reserved"
           \/ caller'[c].view = Balanced(caller[c].source.log) /\ caller'[c].source = caller[c].source
    <3>1. CASE caller' = HangUp(c)
      BY <1>0, <2>1, <3>1 DEF HangUp, NoCall
    <3>2. CASE caller' = TryAgain(c) /\ ~ caller[c].aborted
      BY <1>0, <2>1, <3>2 DEF TryAgain, CallType
    <3>3. CASE caller' = TryAgain(c) /\ caller[c].aborted
      BY <3>1, <3>3 DEF TryAgain
    <3>4. ASSUME NEW view, caller' = Answer(c, "returned", view) PROVE <2>2!1 /\ <2>2!2
      BY <1>0, <2>1, <3>4 DEF Answer, CallType
    <3>5. CASE caller' = Answer(c, "reserved", Balanced(Source(c).log))
      BY <1>0, <2>1, <3>5 DEF Answer, CallType, Source
    <3> QED BY <1>3, <3>1, <3>2, <3>3, <3>4, <3>5
  <2> HIDE DEF c
  <2>3. Views'
    BY <1>0, <2>1, <2>2 DEF Views
  <2> QED BY <1>3, <2>2, <2>3 DEF c
<1>4. CASE PrepareCore \/ ReadFails
  BY <1>1, <1>2, <1>3, <1>4 DEF PrepareCore, ReadFails, AtHead
<1>5. CASE Check \/ CommitThrows \/ CommitStale \/ Commit
  BY <1>3, <1>5 DEF Check, CommitThrows, CommitStale, Commit, AtHead
<1>6. CASE RepairEnds \/ RepairFails
  <2>1. chain # <<>>
    BY <1>0, <1>6, Busy DEF RepairEnds, RepairFails
  <2> QED BY <1>1, <1>3, <1>6, <2>1 DEF RepairEnds, RepairFails
<1> QED BY <1>1, <1>4, <1>5, <1>6 DEF Heads, CommitRepairs, RepairTruncates, HeaderDecides,
        HeaderStored, HeaderRefused, CreateCore, AppendAdopts, AppendRefused, WriteRefused, WriteStored

LEMMA StillHead ==
  ASSUME Shaped, Reservations, Histories, Heads
  PROVE  Histories'
<1> USE DEF sessions, storage
<1>0. /\ TypeOK /\ Queue /\ Served /\ Calls /\ entry \in EntryType /\ NoEntry.phase = "none"
      /\ NoEntry.gen = 0
  BY DEF Shaped, Histories, Reservations, TypeOK, NoEntry
<1>1. Cursors' /\ Still /\ Views'
  BY StillCursors, StillCallers
<1>2. stage' # "write"
  BY DEF Heads, PrepareCore, Check, CommitThrows, CommitStale, CommitRepairs, Commit, RepairTruncates,
     RepairEnds, HeaderDecides, HeaderStored, HeaderRefused, CreateCore, AppendAdopts, RepairFails,
     ReadFails, AppendRefused, WriteRefused, WriteStored, Finish, AppendAtHead, AtHead
<1>3. stage # "queued" => chain # <<>>
  BY <1>0, Busy
<1>4. \/ UNCHANGED chain /\ caller' = caller
      \/ chain # <<>> /\ chain' = Tail(chain)
  BY <1>3 DEF Heads, PrepareCore, Check, CommitThrows, CommitStale, CommitRepairs, Commit, RepairTruncates,
     RepairEnds, HeaderDecides, HeaderStored, HeaderRefused, CreateCore, AppendAdopts, RepairFails,
     ReadFails, AppendRefused, WriteRefused, WriteStored, Finish, AppendAtHead, AtHead
<1>5. \/ entry'.gen = entry.gen \/ entry' = NoEntry
  BY <1>0 DEF Heads, PrepareCore, Check, CommitThrows, CommitStale, CommitRepairs, Commit, RepairTruncates,
     RepairEnds, HeaderDecides, HeaderStored, HeaderRefused, CreateCore, AppendAdopts, RepairFails,
     ReadFails, AppendRefused, WriteRefused, WriteStored, DropEntry, MakeReady, EntryType
<1>6. \/ entry'.gen = entry.gen
      \/ \A c \in Callers : caller[c].pc = "committing" => entry'.gen # caller[c].gen
  BY <1>5, NoGeneration
<1>7. entry'.phase = "reserved" =>
        \/ entry.phase = "reserved"
        \/ AtHead("commit") /\ entry.gen = caller[chain[1].for].gen /\ chain' = Tail(chain)
  <2>1. CASE PrepareCore
    BY <1>0, <2>1 DEF PrepareCore, DropEntry, EntryType
  <2>2. CASE Commit
    BY <1>0, <2>2 DEF Commit, MakeReady, EntryType, Finish
  <2>3. CASE \/ Check \/ CommitThrows \/ CommitStale \/ RepairEnds
             \/ (RepairFails \/ ReadFails) /\ UNCHANGED live
    BY <1>0, <2>3 DEF Check, CommitThrows, CommitStale, RepairEnds, RepairFails, ReadFails, DropEntry
  <2>4. CASE \/ CommitRepairs \/ RepairTruncates \/ HeaderDecides \/ HeaderStored \/ HeaderRefused
             \/ CreateCore \/ AppendAdopts
             \/ (AppendRefused \/ WriteRefused) /\ UNCHANGED live
             \/ WriteStored /\ chain[1].op = "append"
    BY <1>0, <2>4 DEF CommitRepairs, RepairTruncates, HeaderDecides, HeaderStored, HeaderRefused,
       CreateCore, AppendAdopts, AppendRefused, WriteRefused, WriteStored
  <2> QED BY <2>1, <2>2, <2>3, <2>4 DEF Heads
<1>8. CASE UNCHANGED chain /\ caller' = caller
  <2>1. From(Ordered, {}) /\ Calm({})
    BY <1>0, <1>6, <1>8, FromSame, CalmCalls
  <2>2. \A k \in DOMAIN chain : chain[k].op = "append" => entry'.phase # "reserved"
    <3>1. entry'.phase = "reserved" => entry.phase = "reserved"
      <4>1. AtHead("commit") => chain' # Tail(chain)
        <5>1. AtHead("commit") => Len(Tail(chain)) = Len(chain) - 1 /\ Len(chain) \in Nat
          BY <1>0, TailFacts DEF AtHead, TypeOK
        <5> QED BY <1>8, <5>1
      <4> QED BY <1>7, <4>1
    <3> QED BY <1>0, <3>1, QueueFacts DEF Extended
  <2> QED BY <1>0, <1>1, <1>2, <2>1, <2>2, StillHistories
<1>9. CASE chain # <<>> /\ chain' = Tail(chain)
  <2>1. From(Ordered, {1})
    BY <1>0, <1>9, FromTail
  <2>2. Calm({1})
    <3>1. chain[1].op \in {"check", "commit"} => LeftIn(chain[1].for, {1})
      BY <1>0, <1>9, HeadLeaves
    <3>2. \A c \in Callers : \/ caller'[c].gen = caller[c].gen
                             \/ caller[c].pc # "committing"
                             \/ LeftIn(c, {1})
      BY <3>1, StillCallers
    <3> QED BY <1>0, <1>6, <3>2, CalmCalls
  <2>3. ASSUME NEW k \in DOMAIN chain \ {1}, chain[k].op = "append" PROVE entry'.phase # "reserved"
    <3>1. entry.phase # "reserved"
      BY <1>0, <2>3, QueueFacts DEF Extended
    <3>2. AtHead("commit") => entry.gen # caller[chain[1].for].gen
      <4>1. 1 \in DOMAIN chain /\ k \in Nat /\ 1 < k
        <5>1. chain \in Seq(Operations)
          BY <1>0 DEF TypeOK
        <5> QED BY <5>1, LenProperties
      <4> QED BY <1>0, <2>3, <4>1, QueueFacts DEF Follows, AtHead
    <3> QED BY <1>7, <3>1, <3>2
  <2> QED BY <1>0, <1>1, <1>2, <2>1, <2>2, <2>3, StillHistories
<1> QED BY <1>4, <1>8, <1>9

-----------------------------------------------------------------------------
(* Steps of the sessions that leave the histories where they are *)

\* Every session keeps its history and what its controller holds of it.
Steady ==
  /\ UNCHANGED <<disk, state, hist>> /\ (running' => running)
  /\ \A s \in Sessions :
       /\ live'[s].on = live[s].on /\ live'[s].seed = live[s].seed
       /\ live'[s].queue = live[s].queue
       /\ live'[s].init = live[s].init \/ (live'[s].init = "failed" /\ live[s].init = "pending")
       /\ life[s] = "over" => life'[s] = "over"

LEMMA SteadyOwners ==
  ASSUME Owners, Steady
  PROVE  Owners'
<1> SUFFICES ASSUME NEW s \in Sessions PROVE Owner(s)'
  BY DEF Owners
<1>1. Owner(s)
  BY DEF Owners
<1>2. /\ live'[s].on = live[s].on /\ live'[s].queue = live[s].queue
      /\ live'[s].init = "ok" => live[s].init = "ok"
      /\ life[s] = "over" => life'[s] = "over"
      /\ UNCHANGED <<disk, state, hist>> /\ (running' => running)
  BY DEF Steady
<1>3. Held(s)' <=> Held(s)
  BY <1>2 DEF Held, Base
<1> QED BY <1>1, <1>2, <1>3 DEF Owner, Base

LEMMA SteadyExtended ==
  ASSUME Shaped, Queue, Steady, UNCHANGED entry, NEW k \in DOMAIN chain,
         chain[k].op = "write" => live'[chain[k].for].init = live[chain[k].for].init
  PROVE  ExtendedNext(chain[k])
<1>1. /\ Extended(chain[k]) /\ TypeOK
      /\ chain[k].op \in SessionOps => chain[k].for \in Sessions
  BY QueueFacts DEF Shaped
<1>2. state.owner # Nobody => state.owner \in Sessions
  BY <1>1 DEF TypeOK, StateType
<1>3. UNCHANGED <<disk, state, hist>> /\ (running' => running)
  BY DEF Steady
<1>4. CASE chain[k].op \in {"suffix", "seed"}
  <2>1. live'[chain[k].for].queue = live[chain[k].for].queue
    BY <1>1, <1>4 DEF Steady, SessionOps
  <2> QED BY <1>1, <1>3, <1>4, <2>1 DEF Extended, ExtendedNext, Base
<1>5. CASE chain[k].op = "write"
  BY <1>1, <1>3, <1>5 DEF Extended, ExtendedNext
<1>6. CASE chain[k].op = "created"
  <2>1. /\ live'[chain[k].for].queue = live[chain[k].for].queue
        /\ live'[chain[k].for].seed = live[chain[k].for].seed
        /\ live'[chain[k].for].on = live[chain[k].for].on
    BY <1>1, <1>6 DEF Steady, SessionOps
  <2>2. state.owner # Nobody => life'[state.owner] = "over"
    BY <1>1, <1>2, <1>6 DEF Steady, Extended
  <2> QED BY <1>1, <1>3, <1>6, <2>1, <2>2 DEF Extended, ExtendedNext, Base
<1>7. CASE chain[k].op \notin {"suffix", "seed", "write", "created"}
  BY <1>1, <1>3, <1>7 DEF Extended, ExtendedNext
<1> QED BY <1>4, <1>5, <1>6, <1>7

LEMMA SteadyFollows ==
  ASSUME TypeOK, Queue, Steady, UNCHANGED <<entry, caller>>
  PROVE  \A k, m \in DOMAIN chain : k < m => FollowsNext(chain[k], chain[m])
<1> SUFFICES ASSUME NEW k \in DOMAIN chain, NEW m \in DOMAIN chain, k < m
             PROVE  FollowsNext(chain[k], chain[m])
  OBVIOUS
<1>1. /\ Follows(chain[k], chain[m])
      /\ chain[k].op = "created" => chain[k].for \in Sessions
  BY QueueFacts DEF SessionOps
<1> QED BY <1>1 DEF Follows, FollowsNext, Steady

LEMMA SteadySessions ==
  ASSUME Shaped, Reservations, Histories,
         \/ \E s \in Sessions : RetireFails(s) \/ RetireFlushed(s)
         \/ Dispose \/ Stop
  PROVE  Histories'
<1> USE DEF sessions, storage
<1>0. TypeOK /\ Cursors /\ Views /\ Queue /\ Writing /\ Owners /\ live \in [Sessions -> LiveType]
      /\ \A s \in Sessions : live[s] \in LiveType
  BY DEF Shaped, TypeOK, Histories
<1>1. UNCHANGED <<disk, state, stage, batch, hist, entry, caller>> /\ (running' => running)
  BY DEF RetireFails, RetireFlushed, Dispose, Stop
<1>2. \A s \in Sessions : /\ live'[s].on = live[s].on /\ live'[s].seed = live[s].seed
                          /\ live'[s].queue = live[s].queue /\ live'[s].init = live[s].init
                          /\ live'[s].writing = live[s].writing
  <2>1. ASSUME NEW s \in Sessions, NEW r \in {"failed", "releasing", "flushing"},
               live' = [live EXCEPT ![s].retiring = r]
        PROVE  <1>2
    <3>1. \A t \in Sessions \ {s} : live'[t] = live[t]
      BY <1>0, <2>1
    <3>2. live'[s] = [live[s] EXCEPT !.retiring = r]
      BY <1>0, <2>1
    <3>3. live[s] \in LiveType
      BY <1>0
    <3>4. /\ live'[s].on = live[s].on /\ live'[s].seed = live[s].seed
          /\ live'[s].queue = live[s].queue /\ live'[s].init = live[s].init
          /\ live'[s].writing = live[s].writing
      BY <3>2, <3>3 DEF LiveType
    <3> QED BY <3>1, <3>4
  <2>2. CASE Stop
    <3>1. SUFFICES ASSUME NEW s \in Sessions
                   PROVE  /\ live'[s].on = live[s].on /\ live'[s].seed = live[s].seed
                          /\ live'[s].queue = live[s].queue /\ live'[s].init = live[s].init
                          /\ live'[s].writing = live[s].writing
      OBVIOUS
    <3>2. live'[s] = [live[s] EXCEPT !.flush = IF @ = "refused" THEN "none" ELSE @]
      BY <2>2 DEF Stop
    <3>3. live[s] \in LiveType
      BY <1>0
    <3> QED BY <3>2, <3>3 DEF LiveType
  <2>3. CASE Dispose
    <3>1. store \in Sessions
      BY <1>0, <2>3 DEF Dispose, TypeOK
    <3> QED BY <2>1, <2>3, <3>1 DEF Dispose
  <2>4. CASE \E s \in Sessions : RetireFails(s) \/ RetireFlushed(s)
    BY <2>1, <2>4 DEF RetireFails, RetireFlushed
  <2> QED BY <2>2, <2>3, <2>4
<1>3. \A s \in Sessions : life[s] = "over" => life'[s] = "over"
  BY <1>0 DEF RetireFails, RetireFlushed, Dispose, Stop, TypeOK
<1>4. Steady
  BY <1>1, <1>2, <1>3 DEF Steady
<1>5. Owners'
  BY <1>0, <1>4, SteadyOwners
<1>6. \A k \in DOMAIN chain : ExtendedNext(chain[k])
  <2>1. \A k \in DOMAIN chain : chain[k].op = "write" => live'[chain[k].for].init = live[chain[k].for].init
    BY <1>0, <1>2, QueueFacts DEF SessionOps
  <2> QED BY <1>0, <1>1, <1>4, <2>1, SteadyExtended
<1>7. \A k, m \in DOMAIN chain : k < m => FollowsNext(chain[k], chain[m])
  BY <1>0, <1>1, <1>4, SteadyFollows
<1>8. UNCHANGED chain \/ \E o : o.op \notin Ordered /\ Serialize(o)
  <2>1. \A s : Op("release", s).op \notin Ordered
    BY OpShape DEF Ordered
  <2> QED BY <2>1 DEF RetireFails, RetireFlushed, Dispose, Stop
<1>9. Queue'
  <2>1. From(Ordered, {})
    BY <1>0, <1>8, FromSame, FromGained
  <2> QED BY <1>0, <1>6, <1>7, <2>1, QueueKept
<1>10. Writing'
  <2>1. SUFFICES ASSUME stage = "write" PROVE Writing'
    BY <1>1 DEF Writing
  <2>2. chain # <<>> /\ chain'[1] = chain[1] /\ 1 \in DOMAIN chain
    BY <1>0, <1>8, <2>1, Busy, HeadKept, HeadFacts
  <2>3. chain[1].op = "write" => live'[chain[1].for].writing = live[chain[1].for].writing
    BY <1>0, <1>2, <2>2, QueueFacts DEF SessionOps
  <2> QED BY <1>0, <1>1, <2>1, <2>2, <2>3 DEF Writing
<1>11. Cursors' /\ Views'
  BY <1>0, <1>1 DEF Cursors, Views
<1> QED BY <1>5, <1>9, <1>10, <1>11 DEF Histories

\* A write is handed over only by the owner: it alone has anything queued.
LEMMA StartsWriting ==
  ASSUME Shaped, Histories, NEW s \in Sessions, StartWrite(s)
  PROVE  Histories'
<1> USE DEF sessions, storage
<1>0. TypeOK /\ Cursors /\ Views /\ Queue /\ Writing /\ Owners /\ live \in [Sessions -> LiveType]
      /\ live[s] \in LiveType
  BY DEF Shaped, TypeOK, Histories
<1>1. /\ UNCHANGED <<running, disk, state, stage, batch, hist, life, entry, caller>>
      /\ Serialize(Op("write", s))
      /\ live[s].on /\ live[s].init = "ok" /\ live[s].queue # <<>> /\ live[s].writing = 0
  BY DEF StartWrite
<1>2. state.owner = s
  BY <1>0, <1>1 DEF Owners, Owner
<1>3. /\ \A t \in Sessions \ {s} : live'[t] = live[t]
      /\ live'[s].on = live[s].on /\ live'[s].seed = live[s].seed
      /\ live'[s].queue = live[s].queue /\ live'[s].init = "ok"
  <2> DEFINE n == Len(live[s].queue)
             f == IF Flushing(s) THEN "writing" ELSE "none"
  <2>1. live' = [live EXCEPT ![s].writing = n, ![s].flush = f]
    BY DEF StartWrite
  <2> HIDE DEF n, f
  <2>2. live'[s] = [live[s] EXCEPT !.writing = n, !.flush = f]
    BY <1>0, <2>1
  <2> QED BY <1>0, <1>1, <2>1, <2>2 DEF LiveType
<1>4. Steady
  BY <1>1, <1>3 DEF Steady
<1>5. Owners'
  BY <1>0, <1>4, SteadyOwners
<1>6. \A k \in DOMAIN chain : ExtendedNext(chain[k])
  <2>1. \A k \in DOMAIN chain : chain[k].op = "write" => live'[chain[k].for].init = live[chain[k].for].init
    BY <1>0, <1>1, <1>3, QueueFacts DEF SessionOps
  <2> QED BY <1>0, <1>1, <1>4, <2>1, SteadyExtended
<1>7. \A k, m \in DOMAIN chain : k < m => FollowsNext(chain[k], chain[m])
  BY <1>0, <1>1, <1>4, SteadyFollows
<1> DEFINE o == Op("write", s)
<1>8. o.op = "write" /\ o.for = s
  BY OpShape
<1>9. Serialize(o)
  BY <1>1
<1> HIDE DEF o
<1>10. ExtendedNext(o) /\ \A k \in DOMAIN chain : FollowsNext(chain[k], o)
  BY <1>1, <1>2, <1>3, <1>8 DEF ExtendedNext, FollowsNext
<1>11. Queue'
  BY <1>0, <1>6, <1>7, <1>9, <1>10, QueuePlus
<1>12. Writing'
  <2>1. SUFFICES ASSUME stage = "write" PROVE Writing'
    BY <1>1 DEF Writing
  <2>2. chain # <<>> /\ chain'[1] = chain[1] /\ 1 \in DOMAIN chain
    BY <1>0, <1>9, <2>1, Busy, HeadKept, HeadFacts
  <2>3. chain[1].op = "write" => chain[1].for \in Sessions \ {s}
    <3>1. Expected(live, chain[1])
      BY <2>2 DEF Shaped, Queued
    <3> QED BY <1>0, <1>1, <2>2, <3>1, QueueFacts DEF SessionOps, Expected
  <2> QED BY <1>0, <1>1, <1>3, <2>1, <2>2, <2>3 DEF Writing
<1>13. Cursors' /\ Views'
  BY <1>0, <1>1 DEF Cursors, Views
<1> QED BY <1>5, <1>11, <1>12, <1>13 DEF Histories

\* What is refused, or collides, leaves the log and its owner alone.
LEMMA SteadyRefused ==
  ASSUME Shaped, Reservations, Histories,
         \/ AppendRefused \/ WriteRefused \/ Collides
         \/ (RepairFails \/ ReadFails) /\ ~ UNCHANGED live
  PROVE  Histories'
<1> USE DEF sessions
<1>0. TypeOK /\ Cursors /\ Views /\ Queue /\ Writing /\ Owners
  BY DEF Shaped, Histories
<1>1. /\ UNCHANGED <<running, disk, state, hist, life, entry, caller>>
      /\ chain' = Tail(chain) /\ stage' = "queued" /\ live' = Settled(FALSE) /\ chain # <<>>
  <2>1. chain # <<>>
    BY <1>0, Busy DEF AppendRefused, WriteRefused, Collides, RepairFails, ReadFails, AppendAtHead,
       AtHead, CreatedAtHead
  <2>2. /\ UNCHANGED <<running, disk, state, hist, life, entry, caller>>
        /\ chain' = Tail(chain) /\ stage' = "queued" /\ live' = Settled(FALSE)
    BY DEF AppendRefused, WriteRefused, Collides, RepairFails, ReadFails, Finish
  <2> QED BY <2>1, <2>2
<1>2. /\ 1 \in DOMAIN chain /\ Expected(live, chain[1]) /\ Extended(chain[1])
      /\ chain[1].op \in InitOps => chain[1].for \in Sessions
  BY <1>0, <1>1, HeadFacts, QueueFacts DEF Shaped, Queued, InitOps, SessionOps
<1>3. \A s \in Sessions :
        /\ live'[s].on = live[s].on /\ live'[s].seed = live[s].seed
        /\ live'[s].queue = live[s].queue
        /\ \/ live'[s].init = live[s].init
           \/ chain[1].op \in InitOps /\ chain[1].for = s /\ live'[s].init = "failed"
  <2>1. FALSE \in BOOLEAN
    OBVIOUS
  <2> QED BY <1>0, <1>1, <2>1, SettledFacts
<1>4. \A s \in Sessions :
        live'[s].init = live[s].init \/ (live'[s].init = "failed" /\ live[s].init = "pending")
  BY <1>2, <1>3 DEF Expected
<1>5. Cursors' /\ Views' /\ Writing'
  BY <1>0, <1>1 DEF Cursors, Views, Writing
<1>6. Steady
  BY <1>1, <1>3, <1>4 DEF Steady
<1>7. Owners'
  BY <1>0, <1>6, SteadyOwners
<1>8. \A k \in DOMAIN chain : ExtendedNext(chain[k])
  <2>1. SUFFICES ASSUME NEW k \in DOMAIN chain, chain[k].op = "write"
                 PROVE  live'[chain[k].for].init = live[chain[k].for].init
    BY <1>0, <1>1, <1>6, SteadyExtended
  <2>2. chain[k].for \in Sessions /\ live[chain[k].for].init = "ok"
    BY <1>0, <2>1, QueueFacts DEF SessionOps, Extended
  <2> QED BY <1>4, <2>2
<1>9. Queue'
  <2>1. From(Ordered, {1})
    BY <1>0, <1>1, FromTail
  <2>2. \A k, m \in DOMAIN chain : k < m => FollowsNext(chain[k], chain[m])
    BY <1>0, <1>1, <1>6, SteadyFollows
  <2> QED BY <1>0, <1>8, <2>1, <2>2, QueueKept
<1> QED BY <1>5, <1>7, <1>9 DEF Histories

-----------------------------------------------------------------------------
(* Prefixes *)

LEMMA PrefixFacts ==
  ASSUME NEW S, NEW p \in Seq(S), NEW q \in Seq(S)
  PROVE  IsPrefix(p, q) <=>
           /\ Len(p) <= Len(q)
           /\ \A i \in 1 .. Len(p) : p[i] = q[i]
<1>1. Len(p) \in Nat /\ Len(q) \in Nat
  BY LenProperties
<1>2. CASE Len(p) <= Len(q)
  <2>1. /\ SubSeq(p, 1, Len(p)) \in Seq(S) /\ Len(SubSeq(p, 1, Len(p))) = Len(p)
        /\ \A i \in 1 .. Len(p) : SubSeq(p, 1, Len(p))[i] = p[i]
    BY <1>1, SubSeqFacts
  <2>2. /\ SubSeq(q, 1, Len(p)) \in Seq(S) /\ Len(SubSeq(q, 1, Len(p))) = Len(p)
        /\ \A i \in 1 .. Len(p) : SubSeq(q, 1, Len(p))[i] = q[i]
    BY <1>1, <1>2, SubSeqFacts
  <2>3. SubSeq(p, 1, Len(p)) = SubSeq(q, 1, Len(p)) <=> \A i \in 1 .. Len(p) : p[i] = q[i]
    BY <2>1, <2>2, SeqEqual
  <2> QED BY <1>2, <2>3 DEF IsPrefix
<1>3. CASE ~ (Len(p) <= Len(q))
  BY <1>3 DEF IsPrefix
<1> QED BY <1>2, <1>3

LEMMA PrefixTrans ==
  ASSUME NEW S, NEW p \in Seq(S), NEW q \in Seq(S), NEW r \in Seq(S),
         IsPrefix(p, q), IsPrefix(q, r)
  PROVE  IsPrefix(p, r)
<1>1. Len(p) \in Nat /\ Len(q) \in Nat /\ Len(r) \in Nat
  BY LenProperties
<1>2. /\ Len(p) <= Len(q) /\ \A i \in 1 .. Len(p) : p[i] = q[i]
      /\ Len(q) <= Len(r) /\ \A i \in 1 .. Len(q) : q[i] = r[i]
  BY PrefixFacts
<1>3. Len(p) <= Len(r) /\ \A i \in 1 .. Len(p) : p[i] = r[i]
  BY <1>1, <1>2
<1> QED BY <1>3, PrefixFacts

LEMMA AppendPrefix ==
  ASSUME NEW S, NEW p \in Seq(S), NEW q \in Seq(S), NEW e \in S, IsPrefix(p, q)
  PROVE  IsPrefix(p, Append(q, e))
<1>1. /\ Append(q, e) \in Seq(S) /\ Len(Append(q, e)) = Len(q) + 1 /\ DOMAIN q = 1 .. Len(q)
      /\ \A i \in DOMAIN q : Append(q, e)[i] = q[i]
  BY AppendFacts
<1>2. Len(p) \in Nat /\ Len(q) \in Nat
  BY LenProperties
<1>3. Len(q) <= Len(Append(q, e)) /\ \A i \in 1 .. Len(q) : q[i] = Append(q, e)[i]
  BY <1>1, <1>2
<1>4. IsPrefix(q, Append(q, e))
  BY <1>1, <1>3, PrefixFacts
<1> QED BY <1>1, <1>4, PrefixTrans

\* The beginning of a sequence is a prefix of it, and nothing is one of any.
LEMMA StartPrefix ==
  ASSUME NEW S, NEW q \in Seq(S), NEW n \in Nat, n <= Len(q)
  PROVE  IsPrefix(SubSeq(q, 1, n), q) /\ IsPrefix(<<>>, q)
<1>1. /\ SubSeq(q, 1, n) \in Seq(S) /\ Len(SubSeq(q, 1, n)) = n
      /\ \A i \in 1 .. n : SubSeq(q, 1, n)[i] = q[i]
  BY SubSeqFacts
<1>2. <<>> \in Seq(S) /\ Len(<<>>) = 0 /\ Len(q) \in Nat
  BY LenProperties
<1>3. IsPrefix(SubSeq(q, 1, n), q)
  BY <1>1, PrefixFacts
<1>4. Len(<<>>) <= Len(q) /\ \A i \in 1 .. Len(<<>>) : <<>>[i] = q[i]
  BY <1>2
<1> QED BY <1>2, <1>3, <1>4, PrefixFacts

\* A prefix of a sequence goes on with what follows it there.
LEMMA PrefixOn ==
  ASSUME NEW S, NEW p \in Seq(S), NEW q \in Seq(S), NEW n \in Nat, IsPrefix(p, q),
         Len(p) <= n, n <= Len(q)
  PROVE  /\ SubSeq(q, Len(p) + 1, n) \in Seq(S)
         /\ Len(SubSeq(q, Len(p) + 1, n)) = n - Len(p)
         /\ p \o SubSeq(q, Len(p) + 1, n) \in Seq(S)
         /\ Len(p \o SubSeq(q, Len(p) + 1, n)) = n
         /\ IsPrefix(p \o SubSeq(q, Len(p) + 1, n), q)
<1> DEFINE k == Len(p)  r == SubSeq(q, k + 1, n)
<1>1. k \in Nat /\ Len(q) \in Nat /\ k + 1 \in Nat \ {0}
  BY LenProperties
<1>2. r \in Seq(S) /\ Len(r) = n - k /\ \A i \in 1 .. n - k : r[i] = q[k + i]
  <2>1. /\ r \in Seq(S) /\ Len(r) = IF k + 1 <= n THEN n - (k + 1) + 1 ELSE 0
        /\ \A i \in 1 .. n - (k + 1) + 1 : r[i] = q[k + 1 + i - 1]
    <3> HIDE DEF k
    <3> QED BY <1>1, SubSeqFacts
  <2>2. Len(r) = n - k
    BY <1>1, <2>1
  <2>3. ASSUME NEW i \in 1 .. n - k PROVE r[i] = q[k + i]
    <3>1. i \in 1 .. n - (k + 1) + 1 /\ k + 1 + i - 1 = k + i
      BY <1>1
    <3> QED BY <2>1, <3>1
  <2> QED BY <2>1, <2>2, <2>3
<1> HIDE DEF r
<1>3. /\ p \o r \in Seq(S) /\ Len(p \o r) = Len(p) + Len(r)
      /\ \A i \in 1 .. Len(p) + Len(r) : (p \o r)[i] = IF i <= Len(p) THEN p[i] ELSE r[i - Len(p)]
  BY <1>2, ConcatProperties
<1>4. Len(p \o r) = n
  BY <1>1, <1>2, <1>3
<1>5. \A i \in 1 .. Len(p) : p[i] = q[i]
  BY PrefixFacts
<1>6. ASSUME NEW i \in 1 .. n PROVE (p \o r)[i] = q[i]
  <2>1. CASE i <= Len(p)
    BY <1>1, <1>2, <1>3, <1>5, <2>1
  <2>2. CASE ~ (i <= Len(p))
    <3>1. i - Len(p) \in 1 .. n - k /\ k + (i - Len(p)) = i
      BY <1>1, <2>2
    <3>2. (p \o r)[i] = r[i - Len(p)]
      BY <1>1, <1>2, <1>3, <2>2
    <3> QED BY <1>2, <3>1, <3>2
  <2> QED BY <2>1, <2>2
<1>7. IsPrefix(p \o r, q)
  BY <1>3, <1>4, <1>6, PrefixFacts
<1> QED BY <1>2, <1>3, <1>4, <1>7 DEF r, k

\* What is left of a sequence after its first elements.
LEMMA RestFacts ==
  ASSUME NEW S, NEW q \in Seq(S), NEW n \in Nat, n <= Len(q)
  PROVE  /\ SubSeq(q, n + 1, Len(q)) \in Seq(S)
         /\ Len(SubSeq(q, n + 1, Len(q))) = Len(q) - n
         /\ DOMAIN SubSeq(q, n + 1, Len(q)) = 1 .. Len(q) - n
         /\ \A i \in 1 .. Len(q) - n : SubSeq(q, n + 1, Len(q))[i] = q[n + i]
<1> DEFINE m == n + 1  k == Len(q)  r == SubSeq(q, m, k)
<1>1. m \in Nat \ {0} /\ k \in Nat /\ k <= Len(q)
  BY LenProperties
<1> HIDE DEF m, k
<1>2. /\ r \in Seq(S) /\ Len(r) = (IF m <= k THEN k - m + 1 ELSE 0)
      /\ DOMAIN r = 1 .. Len(r) /\ \A i \in 1 .. k - m + 1 : r[i] = q[m + i - 1]
  BY <1>1, SubSeqFacts
<1> HIDE DEF r
<1>3. Len(r) = k - n
  BY <1>1, <1>2 DEF m, k
<1>4. ASSUME NEW i \in 1 .. k - n PROVE r[i] = q[n + i]
  <2>1. i \in 1 .. k - m + 1 /\ m + i - 1 = n + i
    BY <1>1 DEF m
  <2> QED BY <1>2, <2>1
<1> QED BY <1>2, <1>3, <1>4 DEF m, k, r

-----------------------------------------------------------------------------
(* Sessions that begin and go on *)

\* The facts of the session that an operation is for, and of the owner.
LEMMA OwnerFacts ==
  ASSUME Shaped, Histories
  PROVE  /\ \A s \in Sessions : life[s] = "unborn" => ~ live[s].on /\ state.owner # s
         /\ state.owner # Nobody =>
              /\ state.owner \in Sessions /\ live[state.owner].on
              /\ life[state.owner] = "over" \/ store = state.owner
         /\ store = Nobody => \A s \in Sessions : live[s].on => life[s] = "over"
<1>1. Owners /\ TypeOK
  BY DEF Shaped, Histories
<1>2. \A s \in Sessions : life[s] \in {"unborn", "live", "over"}
  BY <1>1 DEF TypeOK
<1>3. \A s \in Sessions : /\ life[s] = "unborn" => ~ live[s].on
                          /\ life[s] = "live" <=> store = s
  BY SessionFacts DEF NoLive
<1>4. \A s \in Sessions : state.owner = s => live[s].on
  BY <1>1 DEF Owners, Owner
<1>5. state.owner # Nobody => state.owner \in Sessions
  BY <1>1 DEF TypeOK, StateType
<1>6. Nobody \notin Sessions
  BY Ids
<1> QED BY <1>2, <1>3, <1>4, <1>5, <1>6

\* A new session has nothing queued, and is behind whatever else is created.
LEMMA BeginsHistory ==
  ASSUME Shaped, Reservations, Histories, \E replay \in BOOLEAN : CreateSession(replay)
  PROVE  Histories'
<1> USE DEF sessions, storage
<1>0. /\ TypeOK /\ Cursors /\ Views /\ Queue /\ Writing /\ Owners
      /\ live \in [Sessions -> LiveType] /\ life \in [Sessions -> {"unborn", "live", "over"}]
      /\ hist \in [Sessions -> Seq(Events)] /\ Nobody \notin Sessions
  BY Ids DEF Shaped, TypeOK, Histories
<1>1. PICK replay \in BOOLEAN : CreateSession(replay)
  OBVIOUS
<1> DEFINE s == Newborn
           h == IF replay THEN Marked(disk.log, s) ELSE <<>>
           m == [NoLive EXCEPT !.on = TRUE, !.init = "pending", !.seed = Len(h)]
           o == Op("created", s)
<1>2. s \in Sessions /\ life[s] = "unborn" /\ store = Nobody
  BY <1>1, NewbornFacts DEF CreateSession
<1>3. h \in Seq(Events) /\ Len(h) \in Nat
  <2>1. disk.log \in Seq(Events)
    BY <1>0 DEF TypeOK, Disks
  <2> QED BY <1>2, <2>1, MarkedFacts, EventFacts, LenProperties
<1>4. /\ UNCHANGED <<running, disk, state, stage, batch, entry, caller>>
      /\ life' = [life EXCEPT ![s] = "live"] /\ hist' = [hist EXCEPT ![s] = h]
      /\ IF running THEN live' = [live EXCEPT ![s] = m] /\ Serialize(o)
         ELSE UNCHANGED <<live, chain>>
  BY <1>1 DEF CreateSession, Enters
<1>5. /\ m.on /\ m.init = "pending" /\ m.seed = Len(h) /\ m.queue = <<>> /\ Len(<<>>) = 0
      /\ o.op = "created" /\ o.for = s
  BY OpShape DEF NoLive
<1> HIDE DEF s, h, m, o
<1>6. /\ ~ live[s].on /\ state.owner # s /\ live[s].queue = <<>>
      /\ \A t \in Sessions : live[t].on => life[t] = "over" /\ t # s
      /\ state.owner # Nobody => state.owner \in Sessions /\ life[state.owner] = "over"
  <2>1. live[s].queue = <<>>
    BY <1>2, SessionFacts DEF NoLive
  <2> QED BY <1>2, <2>1, OwnerFacts
<1>7. /\ \A t \in Sessions \ {s} : live'[t] = live[t] /\ life'[t] = life[t] /\ hist'[t] = hist[t]
      /\ life'[s] = "live" /\ hist'[s] = h
      /\ running => live'[s] = m
      /\ ~ running => live'[s] = live[s]
  BY <1>0, <1>2, <1>4
<1>8. Owners'
  <2>1. SUFFICES ASSUME NEW t \in Sessions PROVE Owner(t)'
    BY DEF Owners
  <2>2. CASE t # s
    <3>1. Owner(t) /\ (Held(t)' <=> Held(t))
      BY <1>0, <1>7, <2>2 DEF Owners, Held, Base
    <3> QED BY <1>4, <1>7, <2>2, <3>1 DEF Owner, Base
  <2>3. CASE t = s
    <3>1. ~ (live'[t].on /\ live'[t].init = "ok")
      BY <1>5, <1>6, <1>7, <2>3
    <3>2. running => Held(t)'
      <4>1. SUFFICES ASSUME running PROVE Held(t)'
        OBVIOUS
      <4>2. live'[t].queue = <<>> /\ hist'[t] = h
        BY <1>5, <1>7, <2>3, <4>1
      <4>3. Len(live'[t].queue) <= Len(hist'[t]) /\ DOMAIN live'[t].queue = {}
        <5>1. 0 <= Len(h)
          BY <1>3
        <5> QED BY <1>5, <4>2, <5>1
      <4> QED BY <4>3 DEF Held
    <3>3. state'.owner # t /\ running' = running
      BY <1>4, <1>6, <2>3
    <3> QED BY <3>1, <3>2, <3>3 DEF Owner
  <2> QED BY <2>2, <2>3
<1>9. ASSUME NEW k \in DOMAIN chain PROVE ExtendedNext(chain[k])
  <2>1. /\ Extended(chain[k])
        /\ chain[k].op \in SessionOps => chain[k].for \in Sessions
    BY <1>0, QueueFacts
  <2>2. chain[k].op \in {"suffix", "seed", "write", "created"} => chain[k].for \in Sessions \ {s}
    BY <1>6, <2>1 DEF Extended, SessionOps
  <2>3. state.owner # Nobody => life'[state.owner] = "over"
    BY <1>6, <1>7
  <2> QED BY <1>4, <1>7, <2>1, <2>2, <2>3 DEF Extended, ExtendedNext, Base
<1>10. ASSUME NEW k \in DOMAIN chain, chain[k].op = "created" PROVE life'[chain[k].for] = "over"
  <2>1. Extended(chain[k]) /\ chain[k].for \in Sessions
    BY <1>0, <1>10, QueueFacts DEF SessionOps
  <2> QED BY <1>6, <1>7, <1>10, <2>1 DEF Extended
<1>11. \A k, j \in DOMAIN chain : k < j => FollowsNext(chain[k], chain[j])
  <2>1. \A k, j \in DOMAIN chain : k < j => Follows(chain[k], chain[j])
    BY <1>0 DEF Queue
  <2> QED BY <1>4, <1>10, <2>1 DEF Follows, FollowsNext
<1>12. Queue'
  <2>1. CASE ~ running
    <3>1. From(Ordered, {})
      BY <1>4, <2>1, FromSame
    <3> QED BY <1>0, <1>9, <1>11, <3>1, QueueKept
  <2>2. CASE running
    <3>1. Serialize(o)
      BY <1>4, <2>2
    <3>2. live'[s].seed = Len(hist'[s]) - Len(live'[s].queue)
      BY <1>3, <1>5, <1>7, <2>2
    <3>3. ExtendedNext(o)
      BY <1>4, <1>5, <1>6, <1>7, <2>2, <3>2 DEF ExtendedNext
    <3>4. \A k \in DOMAIN chain : FollowsNext(chain[k], o)
      BY <1>5, <1>10 DEF FollowsNext
    <3> QED BY <1>0, <1>9, <1>11, <3>1, <3>3, <3>4, QueuePlus
  <2> QED BY <2>1, <2>2
<1>13. Writing'
  <2>1. SUFFICES ASSUME stage = "write" PROVE Writing'
    BY <1>4 DEF Writing
  <2>2. chain # <<>> /\ 1 \in DOMAIN chain
    BY <1>0, <2>1, Busy, HeadFacts
  <2>3. chain'[1] = chain[1]
    BY <1>0, <1>4, <2>2, HeadKept
  <2>4. chain[1].op \in {"suffix", "seed", "write"} => chain[1].for \in Sessions \ {s}
    BY <1>0, <1>6, <2>2, QueueFacts DEF Extended, SessionOps
  <2>5. chain[1].op \in Appends /\ (chain[1].op # "append" => chain[1].op \in {"suffix", "seed", "write"})
    BY <1>0, <2>1 DEF Writing, Appends
  <2> QED BY <1>0, <1>4, <1>7, <2>1, <2>3, <2>4, <2>5 DEF Writing
<1>14. Cursors' /\ Views'
  BY <1>0, <1>4 DEF Cursors, Views
<1> QED BY <1>8, <1>12, <1>13, <1>14 DEF Histories

\* A published session is the log that was reserved and what is not stored yet.
LEMMA PublishesHistory ==
  ASSUME Shaped, Reservations, Histories, NEW c \in Callers, Publish(c)
  PROVE  Histories'
<1> USE DEF sessions, storage
<1>0. /\ TypeOK /\ Cursors /\ Views /\ Queue /\ Owners /\ Calls /\ Births /\ Undisturbed
      /\ ReservationIsCurrent /\ caller[c] \in CallType /\ caller \in [Callers -> CallType]
      /\ live \in [Sessions -> LiveType] /\ life \in [Sessions -> {"unborn", "live", "over"}]
      /\ hist \in [Sessions -> Seq(Events)] /\ disk.log \in Seq(Events) /\ Nobody \notin Sessions
  BY Ids DEF Shaped, TypeOK, Disks, Histories, Reservations
<1>1. PICK s \in Sessions : s = Newborn /\ life[s] = "unborn"
  BY NewbornFacts DEF Publish
<1> DEFINE n == Len(disk.log)
           h == Marked(caller[c].view, s) \o caller[c].extra
           e == SubSeq(h, state.cursor + 1, Len(h))
           m == [NoLive EXCEPT !.on = TRUE, !.init = IF e = <<>> THEN "ok" ELSE "pending"]
           o == [op |-> "suffix", for |-> s, events |-> e, from |-> state.cursor]
<1>2. /\ disk.exists \in BOOLEAN /\ ~ disk.torn /\ stage = "queued" /\ entry.phase = "reserved"
      /\ state = Tracked(n, TRUE, Nobody) /\ caller[c].view = disk.log
  <2>1. entry.phase = "reserved" /\ caller[c].pc = "reserved"
    BY DEF Publish
  <2>2. entry.source = disk /\ ~ disk.torn /\ ~ Open(disk.log) /\ state = Tracked(n, TRUE, Nobody)
    BY <1>0, <2>1 DEF ReservationIsCurrent
  <2>3. caller[c].gen # 0 /\ entry.gen = caller[c].gen
    BY <1>0, <2>1 DEF Calls, Holds
  <2>4. caller[c].source = disk
    BY <1>0, <2>2, <2>3 DEF Calls
  <2>5. caller[c].view = disk.log
    BY <1>0, <2>1, <2>2, <2>4, BalancedFacts DEF Views
  <2> QED BY <1>0, <2>1, <2>2, <2>5 DEF Undisturbed, TypeOK, Disks
<1>3. state.tracked /\ state.cursor = n /\ state.materialized /\ state.owner = Nobody
  BY <1>2 DEF Tracked
<1>4. h \in Seq(Events) /\ IsPrefix(disk.log, h) /\ Len(h) \in Nat /\ n \in Nat /\ n <= Len(h)
  <2>1. caller[c].extra \in Seq(Events)
    BY <1>0 DEF CallType
  <2>2. Marked(disk.log, s) \in Seq(Events) /\ IsPrefix(disk.log, Marked(disk.log, s))
    BY <1>0, MarkedFacts
  <2>3. /\ h \in Seq(Events) /\ IsPrefix(Marked(disk.log, s), h)
    BY <1>2, <2>1, <2>2, ConcatFacts
  <2> HIDE DEF h
  <2>4. IsPrefix(disk.log, h)
    BY <1>0, <2>2, <2>3, PrefixTrans
  <2> QED BY <1>0, <2>3, <2>4, LenProperties, PrefixFacts
<1>5. /\ UNCHANGED <<running, disk, stage, batch>>
      /\ state' = [state EXCEPT !.owner = s]
      /\ life' = [life EXCEPT ![s] = "live"] /\ hist' = [hist EXCEPT ![s] = h]
      /\ live' = [live EXCEPT ![s] = m]
      /\ IF e = <<>> THEN UNCHANGED chain ELSE Serialize(o)
      /\ caller' = HangUp(c)
  BY <1>1 DEF Publish, Enters
<1>6. /\ o.op = "suffix" /\ o.for = s /\ o.events = e /\ o.from = n
      /\ m.on /\ m.queue = <<>> /\ m.init = IF e = <<>> THEN "ok" ELSE "pending"
  BY <1>3 DEF NoLive
<1>7. /\ e \in Seq(Events) /\ Len(e) = Len(h) - n
      /\ IsPrefix(disk.log \o e, h) /\ n + Len(e) = Len(h)
  <2> HIDE DEF h
  <2>1. Len(h) <= Len(h)
    BY <1>4
  <2> DEFINE f == SubSeq(h, Len(disk.log) + 1, Len(h))
  <2>4. e = f
    BY <1>3
  <2>5. /\ f \in Seq(Events) /\ Len(f) = Len(h) - n /\ IsPrefix(disk.log \o f, h)
    <3> HIDE DEF e
    <3>1. /\ disk.log \in Seq(Events) /\ h \in Seq(Events) /\ Len(h) \in Nat
          /\ IsPrefix(disk.log, h) /\ Len(disk.log) <= Len(h) /\ Len(h) <= Len(h)
      BY <1>0, <1>4, <2>1
    <3> QED BY <3>1, PrefixOn
  <2> HIDE DEF f, e
  <2>2. /\ e \in Seq(Events) /\ Len(e) = Len(h) - n /\ IsPrefix(disk.log \o e, h)
    BY <2>4, <2>5
  <2>3. n + (Len(h) - n) = Len(h)
    BY <1>4
  <2> QED BY <2>2, <2>3
<1> HIDE DEF h, e, m, o, n
<1>8. /\ \A t \in Sessions \ {s} : live'[t] = live[t] /\ life'[t] = life[t] /\ hist'[t] = hist[t]
      /\ hist'[s] = h /\ live'[s] = m
      /\ state'.tracked /\ state'.cursor = n /\ state'.materialized /\ state'.owner = s
  <2>1. state \in StateType
    BY <1>0 DEF TypeOK
  <2>2. state'.tracked /\ state'.cursor = n /\ state'.materialized /\ state'.owner = s
    BY <1>3, <1>5, <2>1 DEF StateType
  <2> QED BY <1>0, <1>5, <2>2
<1>9. Owners'
  <2>1. SUFFICES ASSUME NEW t \in Sessions PROVE Owner(t)'
    BY DEF Owners
  <2>2. CASE t # s
    <3>1. Owner(t) /\ (Held(t)' <=> Held(t))
      BY <1>0, <1>8, <2>2 DEF Owners, Held, Base
    <3>2. state.owner # t /\ state'.owner # t
      BY <1>0, <1>3, <1>8, <2>2
    <3> QED BY <1>5, <1>8, <2>2, <3>1, <3>2 DEF Owner, Base
  <2>3. CASE t = s
    <3>1. live'[s].queue = <<>> /\ Len(<<>>) = 0 /\ DOMAIN <<>> = {} /\ 0 <= Len(h)
      BY <1>4, <1>6, <1>8
    <3>2. Held(s)'
      BY <1>8, <3>1 DEF Held
    <3>3. live'[s].init = "ok" => Len(disk'.log) = Len(hist'[s]) - Len(live'[s].queue)
      <4>1. SUFFICES ASSUME live'[s].init = "ok" PROVE n = Len(h) - 0
        BY <1>5, <1>8, <3>1 DEF n
      <4>2. e = <<>>
        BY <1>6, <1>8, <4>1
      <4>3. Len(e) = 0
        BY <3>1, <4>2
      <4> QED BY <1>4, <1>7, <4>3
    <3>4. live'[s].on /\ IsPrefix(disk'.log, hist'[s])
      BY <1>4, <1>5, <1>6, <1>8
    <3> QED BY <1>8, <2>3, <3>2, <3>3, <3>4 DEF Owner, Base
  <2> QED BY <2>2, <2>3
<1>10. \A k \in DOMAIN chain :
         chain[k].op \notin {"suffix", "seed", "write", "created", "append"}
  <2>1. SUFFICES ASSUME NEW k \in DOMAIN chain
                 PROVE chain[k].op \notin {"suffix", "seed", "write", "created", "append"}
    OBVIOUS
  <2>2. /\ Extended(chain[k])
        /\ chain[k].op \in SessionOps => chain[k].for \in Sessions
    BY <1>0, QueueFacts
  <2>3. chain[k].op \notin {"suffix", "seed", "write"}
    BY <1>0, <1>3, <2>2 DEF Extended, SessionOps
  <2>4. chain[k].op # "append"
    BY <1>2, <2>2 DEF Extended
  <2>5. chain[k].op # "created"
    BY <1>0, <1>2 DEF Births, NoEntry
  <2> QED BY <2>3, <2>4, <2>5
<1>11. /\ \A k \in DOMAIN chain : ExtendedNext(chain[k])
       /\ \A k, j \in DOMAIN chain : k < j => FollowsNext(chain[k], chain[j])
  BY <1>10 DEF ExtendedNext, FollowsNext
<1>12. Queue'
  <2>1. CASE e = <<>>
    <3>1. From(Ordered, {})
      BY <1>5, <2>1, FromSame
    <3> QED BY <1>0, <1>11, <3>1, QueueKept
  <2>2. CASE e # <<>>
    <3>1. Serialize(o)
      BY <1>5, <2>2
    <3>2. n + Len(e) = Len(hist'[s]) - Len(live'[s].queue)
      <4>1. Len(live'[s].queue) = 0
        BY <1>6, <1>8
      <4> QED BY <1>4, <1>7, <1>8, <4>1
    <3>3. ExtendedNext(o)
      BY <1>5, <1>6, <1>7, <1>8, <3>2 DEF ExtendedNext, n
    <3>4. \A k \in DOMAIN chain : FollowsNext(chain[k], o)
      BY <1>6 DEF FollowsNext
    <3> QED BY <1>0, <1>11, <3>1, <3>3, <3>4, QueuePlus
  <2> QED BY <2>1, <2>2
<1>13. Writing'
  BY <1>2, <1>5 DEF Writing
<1>14. Views'
  <2>1. /\ \A d \in Callers \ {c} : caller'[d] = caller[d]
        /\ caller'[c].pc # "reserved"
    BY <1>0, <1>5 DEF HangUp, NoCall
  <2> QED BY <1>0, <2>1 DEF Views
<1>15. Cursors'
  BY <1>0, <1>2, <1>5, <1>8 DEF Cursors, n
<1> QED BY <1>9, <1>12, <1>13, <1>14, <1>15 DEF Histories

\* A live session's event goes to its history and to what its controller holds.
LEMMA GrowsHistory ==
  ASSUME Shaped, Reservations, Histories, SessionAppends
  PROVE  Histories'
<1> USE DEF sessions, storage
<1>0. /\ TypeOK /\ Cursors /\ Views /\ Queue /\ Writing /\ Owners
      /\ live \in [Sessions -> LiveType] /\ hist \in [Sessions -> Seq(Events)]
      /\ disk.log \in Seq(Events) /\ batch \in Seq(Events)
  BY DEF Shaped, TypeOK, Disks, Histories
<1>1. PICK s \in Sessions : s = store /\ life[s] = "live"
  <2>1. store \in Sessions
    BY <1>0 DEF SessionAppends, TypeOK
  <2> QED BY <2>1, SessionFacts
<1> DEFINE h == hist[s]
           e == [by |-> s, kind |-> IF Open(h) THEN "end" ELSE "start"]
           q == live[s].queue
           m == IF running THEN [live[s] EXCEPT !.queue = Append(q, Len(h))] ELSE live[s]
<1>2. e \in Events
  BY EventFacts
<1>3. /\ UNCHANGED <<running, disk, state, stage, batch, chain, life, entry, caller>>
      /\ hist' = [hist EXCEPT ![s] = Append(h, e)]
      /\ live' = [live EXCEPT ![s] = m]
  <2>1. /\ UNCHANGED <<running, disk, state, stage, batch, chain, life, entry, caller>>
        /\ hist' = [hist EXCEPT ![s] = Append(h, e)]
    BY <1>1 DEF SessionAppends
  <2>2. live' = [live EXCEPT ![s] = m]
    BY <1>0, <1>1 DEF SessionAppends
  <2> QED BY <2>1, <2>2
<1> HIDE DEF e
<1>4. /\ h \in Seq(Events) /\ q \in Seq(Nat) /\ live[s] \in LiveType
      /\ Len(h) \in Nat /\ Len(q) \in Nat /\ Append(h, e) \in Seq(Events)
      /\ Len(Append(h, e)) = Len(h) + 1
      /\ DOMAIN Append(q, Len(h)) = 1 .. Len(q) + 1 /\ DOMAIN q = 1 .. Len(q)
      /\ Len(Append(q, Len(h))) = Len(q) + 1
      /\ \A i \in DOMAIN q : Append(q, Len(h))[i] = q[i]
      /\ Append(q, Len(h))[Len(q) + 1] = Len(h)
  <2>1. h \in Seq(Events) /\ q \in Seq(Nat) /\ live[s] \in LiveType /\ Len(h) \in Nat
    BY SessionFacts
  <2> HIDE DEF h, q
  <2> QED BY <1>2, <2>1, AppendFacts
<1>5. /\ m.on = live[s].on /\ m.init = live[s].init /\ m.seed = live[s].seed
      /\ m.writing = live[s].writing
      /\ running => m.queue = Append(q, Len(h))
  BY <1>4 DEF LiveType
<1>6. /\ \A t \in Sessions \ {s} : live'[t] = live[t] /\ hist'[t] = hist[t]
      /\ live'[s] = m /\ hist'[s] = Append(h, e)
  BY <1>0, <1>3
<1> HIDE DEF m, q
<1>7. running => Len(hist'[s]) - Len(live'[s].queue) = Len(h) - Len(q)
  <2>1. running => Len(hist'[s]) = Len(h) + 1 /\ Len(live'[s].queue) = Len(q) + 1
    BY <1>4, <1>5, <1>6
  <2>2. Len(h) \in Nat /\ Len(q) \in Nat
    BY <1>4
  <2>3. \A i, j \in Nat : (i + 1) - (j + 1) = i - j
    OBVIOUS
  <2> HIDE DEF h
  <2> QED BY <2>1, <2>2, <2>3
<1>8. /\ \A t \in Sessions : /\ live'[t].on = live[t].on /\ live'[t].init = live[t].init
                             /\ live'[t].seed = live[t].seed /\ live'[t].writing = live[t].writing
      /\ \A t \in Sessions :
           running => Len(hist'[t]) - Len(live'[t].queue) = Len(hist[t]) - Len(live[t].queue)
  BY <1>5, <1>6, <1>7 DEF q
<1>9. \A p \in Seq(Events), t \in Sessions : IsPrefix(p, hist[t]) => IsPrefix(p, hist'[t])
  <2>1. \A p \in Seq(Events) : IsPrefix(p, h) => IsPrefix(p, Append(h, e))
    <3> HIDE DEF h
    <3> QED BY <1>2, <1>4, AppendPrefix
  <2> QED BY <1>6, <2>1
<1>10. Owners'
  <2>1. SUFFICES ASSUME NEW t \in Sessions PROVE Owner(t)'
    BY DEF Owners
  <2>2. Owner(t)
    BY <1>0 DEF Owners
  <2>3. (live'[t].on /\ live'[t].init = "ok" /\ state'.owner # t) =>
          life'[t] = "over" /\ live'[t].queue = <<>>
    <3>1. CASE t # s
      BY <1>3, <1>6, <2>2, <3>1 DEF Owner
    <3>2. CASE t = s
      BY <1>1, <1>3, <1>8, <2>2, <3>2 DEF Owner
    <3> QED BY <3>1, <3>2
  <2>4. running /\ live[t].on => Held(t)'
    <3>1. CASE t # s
      BY <1>6, <2>2, <3>1 DEF Owner, Held, Base
    <3>2. CASE t = s
      <4>1. SUFFICES ASSUME running, live[s].on PROVE Held(t)'
        BY <3>2
      <4>2. Len(q) <= Len(h) /\ \A i \in DOMAIN q : q[i] = (Len(h) - Len(q)) + i - 1
        BY <2>2, <3>2, <4>1 DEF Owner, Held, Base, q
      <4>3. live'[t].queue = Append(q, Len(h)) /\ hist'[t] = Append(h, e)
        BY <1>5, <1>6, <3>2, <4>1
      <4>4. \A i \in DOMAIN live'[t].queue : live'[t].queue[i] = (Len(h) - Len(q)) + i - 1
        <5>1. Len(h) = (Len(h) - Len(q)) + (Len(q) + 1) - 1
          BY <1>4
        <5>2. \A i \in DOMAIN live'[t].queue : i \in DOMAIN q \/ i = Len(q) + 1
          BY <1>4, <4>3
        <5> QED BY <1>4, <4>2, <4>3, <5>1, <5>2
      <4>5. Len(live'[t].queue) <= Len(hist'[t])
        BY <1>4, <4>2, <4>3
      <4> QED BY <1>7, <3>2, <4>1, <4>4, <4>5 DEF Held, Base
    <3> QED BY <3>1, <3>2
  <2>5. state.owner = t => IsPrefix(disk.log, hist'[t])
    BY <1>0, <1>9, <2>2 DEF Owner
  <2> QED BY <1>3, <1>8, <2>2, <2>3, <2>4, <2>5 DEF Owner, Base
<1>11. ASSUME NEW k \in DOMAIN chain PROVE ExtendedNext(chain[k])
  <2>1. /\ Extended(chain[k]) /\ chain[k].events \in Seq(Events)
        /\ chain[k].op \in SessionOps => chain[k].for \in Sessions
    BY <1>0, QueueFacts
  <2>2. CASE chain[k].op \in {"suffix", "seed"}
    <3>1. disk.log \o chain[k].events \in Seq(Events)
      BY <1>0, <2>1, ConcatFacts
    <3>2. IsPrefix(disk.log \o chain[k].events, hist'[chain[k].for])
      BY <1>9, <2>1, <2>2, <3>1 DEF Extended, SessionOps
    <3>3. running => Len(hist'[chain[k].for]) - Len(live'[chain[k].for].queue) = Base(chain[k].for)
      BY <1>8, <2>1, <2>2 DEF Base, SessionOps
    <3> QED BY <1>3, <2>1, <2>2, <3>2, <3>3 DEF Extended, ExtendedNext
  <2>3. CASE chain[k].op = "write"
    <3>1. live'[chain[k].for].init = live[chain[k].for].init
      BY <1>8, <2>1, <2>3 DEF SessionOps
    <3> QED BY <1>3, <2>1, <2>3, <3>1 DEF Extended, ExtendedNext
  <2>4. CASE chain[k].op = "created"
    <3>1. /\ running => Len(hist'[chain[k].for]) - Len(live'[chain[k].for].queue) = Base(chain[k].for)
          /\ live'[chain[k].for].on = live[chain[k].for].on
          /\ live'[chain[k].for].seed = live[chain[k].for].seed
      BY <1>8, <2>1, <2>4 DEF Base, SessionOps
    <3> QED BY <1>3, <2>1, <2>4, <3>1 DEF Extended, ExtendedNext
  <2>5. CASE chain[k].op \notin {"suffix", "seed", "write", "created"}
    BY <1>3, <2>1, <2>5 DEF Extended, ExtendedNext
  <2> QED BY <2>2, <2>3, <2>4, <2>5
<1>12. Queue'
  <2>1. From(Ordered, {})
    BY <1>3, FromSame
  <2>2. \A k, j \in DOMAIN chain : k < j => FollowsNext(chain[k], chain[j])
    BY <1>0, <1>3 DEF Queue, Follows, FollowsNext
  <2> QED BY <1>0, <1>11, <2>1, <2>2, QueueKept
<1>13. Writing'
  <2>1. SUFFICES ASSUME stage = "write" PROVE Writing'
    BY <1>3 DEF Writing
  <2>2. chain # <<>> /\ 1 \in DOMAIN chain
    BY <1>0, <2>1, Busy, HeadFacts
  <2>3. chain[1].op # "append" => chain[1].for \in Sessions
    BY <1>0, <2>1, <2>2, QueueFacts DEF Writing, Appends, SessionOps
  <2>4. disk.log \o batch \in Seq(Events)
    BY <1>0, ConcatFacts
  <2>5. chain[1].op # "append" => IsPrefix(disk.log \o batch, hist'[chain[1].for])
    BY <1>0, <1>9, <2>1, <2>3, <2>4 DEF Writing
  <2>6. chain[1].op = "write" => live'[chain[1].for].writing = live[chain[1].for].writing
    BY <1>8, <2>3
  <2> QED BY <1>0, <1>3, <2>1, <2>5, <2>6 DEF Writing
<1>14. Cursors' /\ Views'
  BY <1>0, <1>3 DEF Cursors, Views
<1> QED BY <1>10, <1>12, <1>13, <1>14 DEF Histories

-----------------------------------------------------------------------------
(* Steps of the head that write, or decide whose the log is *)

\* A batch is written: what was handed over is the end of the history.
LEMMA TakesBatch ==
  ASSUME Shaped, Reservations, Histories, AppendWrites
  PROVE  Histories'
<1> USE DEF sessions
<1>0. /\ TypeOK /\ Cursors /\ Views /\ Queue /\ Owners /\ Backlog /\ Queued
      /\ disk.log \in Seq(Events) /\ chain # <<>> /\ state.tracked /\ state.cursor = Len(disk.log)
      /\ stage = "queued" /\ chain[1].op \in Appends /\ 1 \in DOMAIN chain
  <2>1. TypeOK /\ chain # <<>> /\ stage = "queued" /\ chain[1].op \in Appends /\ state.tracked
    BY DEF Shaped, AppendWrites, AppendAtHead, AtHead
  <2>2. 1 \in DOMAIN chain
    BY <2>1, HeadFacts
  <2> QED BY <2>1, <2>2 DEF Shaped, TypeOK, Disks, Histories, Cursors
<1>1. /\ UNCHANGED <<running, disk, state, chain, hist, live, life, entry, caller>>
      /\ batch' = Payload.events /\ stage' = "write" /\ Payload.from = state.cursor
  BY DEF AppendWrites
<1>2. /\ Extended(chain[1]) /\ Expected(live, chain[1])
      /\ chain[1].op # "append" => chain[1].for \in Sessions
  BY <1>0, QueueFacts DEF Queued, Appends, SessionOps
<1>3. Cursors' /\ Views' /\ Owners' /\ Queue'
  <2>1. Cursors' /\ Views' /\ Still
    BY <1>0, <1>1 DEF Cursors, Views, Still
  <2>2. From(Ordered, {}) /\ Calm({})
    BY <1>1, FromSame DEF Calm
  <2>3. \A k \in DOMAIN chain : chain[k].op = "append" => entry'.phase # "reserved"
    BY <1>0, <1>1, QueueFacts DEF Extended
  <2>4. \A k \in DOMAIN chain : ExtendedNext(chain[k])
    BY <1>0, <2>1, <2>3, StillExtended
  <2>5. \A k, m \in DOMAIN chain : k < m => FollowsNext(chain[k], chain[m])
    BY <1>0, <1>1, <2>2, StillFollows
  <2> QED BY <1>0, <2>1, <2>2, <2>4, <2>5, StillOwners, QueueKept
<1>4. CASE chain[1].op # "write"
  <2>1. batch' = chain[1].events
    BY <1>1, <1>4 DEF Payload
  <2>2. /\ chain[1].op # "append" => IsPrefix(disk.log \o batch', hist[chain[1].for])
        /\ chain[1].op = "append" => \A i \in DOMAIN batch' : batch'[i].kind = "note"
    BY <1>0, <1>2, <1>4, <2>1 DEF Extended, Appends
  <2>3. Writing'
    BY <1>0, <1>1, <1>4, <2>1, <2>2 DEF Writing
  <2> QED BY <1>3, <2>3 DEF Histories
<1>5. CASE chain[1].op = "write"
  <2> DEFINE s == chain[1].for
             q == live[s].queue
             n == live[s].writing
             low == IF state.cursor > q[1] THEN state.cursor ELSE q[1]
             k == q[n] + 1
             e == SubSeq(hist[s], Len(disk.log) + 1, k)
  <2>1. /\ state.owner = s /\ s \in Sessions /\ live[s].init = "ok" /\ n > 0 /\ Owner(s)
    BY <1>0, <1>2, <1>5 DEF Extended, Expected, Owners, Appends
  <2>2. /\ q \in Seq(Nat) /\ n \in Nat /\ n <= Len(q) /\ hist[s] \in Seq(Events)
        /\ live[s].on /\ IsPrefix(disk.log, hist[s]) /\ Len(hist[s]) \in Nat
        /\ \A i \in DOMAIN q : q[i] < Len(hist[s])
    <3>1. live[s].writing <= Len(live[s].queue)
      BY <1>0, <2>1 DEF TypeOK
    <3> QED BY <2>1, <3>1, SessionFacts DEF Owner
  <2>3. Payload.from = low /\ Payload.events = SubSeq(hist[s], low + 1, q[n] + 1)
    BY <1>5 DEF Payload, Fresh
  <2> HIDE DEF q, n
  <2>4. n \in DOMAIN q /\ q[n] \in Nat /\ 1 \in DOMAIN q /\ q[1] \in Nat /\ Len(q) \in Nat
    <3>1. n \in DOMAIN q /\ 1 \in DOMAIN q /\ Len(q) \in Nat
      BY <2>1, <2>2, LenProperties
    <3> QED BY <2>2, <3>1, ElementOfSeq, LenProperties
  <2>5. low = Len(disk.log) /\ Len(disk.log) \in Nat /\ q[1] <= Len(disk.log)
    <3>1. low = state.cursor
      BY <1>1, <2>3
    <3>2. Len(disk.log) \in Nat
      BY <1>0, LenProperties
    <3> QED BY <1>0, <2>4, <3>1, <3>2
  <2> HIDE DEF low
  <2>6. batch' = e
    BY <1>1, <2>3, <2>5
  <2>7. k \in Nat /\ k <= Len(hist[s])
    BY <2>2, <2>4
  <2>8. IsPrefix(disk.log \o batch', hist[s])
    <3>1. CASE Len(disk.log) <= k
      <4> HIDE DEF k, s
      <4> QED BY <1>0, <2>2, <2>6, <2>7, <3>1, PrefixOn
    <3>2. CASE Len(disk.log) > k
      <4>1. k < Len(disk.log) + 1 /\ Len(disk.log) + 1 \in Int /\ k \in Int
        BY <2>5, <2>7, <3>2
      <4>2. e = <<>>
        <5> HIDE DEF k, s
        <5> QED BY <4>1, SubSeqEmpty
      <4> QED BY <1>0, <2>2, <2>6, <4>2, ConcatEmptySeq
    <3> QED BY <2>5, <2>7, <3>1, <3>2
  <2>9. running => Len(batch') = n
    <3>1. SUFFICES ASSUME running PROVE Len(batch') = n
      OBVIOUS
    <3>2. Held(s) /\ Len(disk.log) = Base(s)
      BY <2>1, <2>2, <3>1 DEF Owner
    <3>3. q[n] = Len(disk.log) + n - 1
      BY <2>4, <3>2 DEF Held, q
    <3>4. Len(disk.log) <= k /\ k - Len(disk.log) = n
      BY <2>1, <2>2, <2>5, <3>3
    <3> HIDE DEF k, s
    <3>5. Len(e) = k - Len(disk.log)
      <4>1. /\ disk.log \in Seq(Events) /\ hist[s] \in Seq(Events) /\ k \in Nat
            /\ IsPrefix(disk.log, hist[s]) /\ Len(disk.log) <= k /\ k <= Len(hist[s])
        BY <1>0, <2>2, <2>7, <3>4
      <4> QED BY <4>1, PrefixOn
    <3> QED BY <2>6, <3>4, <3>5
  <2>10. Writing'
    BY <1>0, <1>1, <1>5, <2>8, <2>9 DEF Writing, Appends, n
  <2> QED BY <1>3, <2>10 DEF Histories
<1> QED BY <1>4, <1>5

\* Nobody else had anything queued for the log when this owner stores to it.
LEMMA OwnedQueue ==
  ASSUME Shaped, Histories, chain # <<>>, chain[1].op \in {"suffix", "seed", "write"}
  PROVE  /\ chain[1].for \in Sessions /\ state.owner = chain[1].for
         /\ \A k \in DOMAIN chain \ {1} :
              /\ chain[k].op \notin {"suffix", "seed", "append"}
              /\ chain[k].op = "write" => chain[1].op = "write" /\ chain[k].for = chain[1].for
<1>0. TypeOK /\ Queue /\ Queued /\ 1 \in DOMAIN chain
  BY HeadFacts DEF Shaped, Histories
<1>1. /\ chain[1].for \in Sessions /\ state.owner = chain[1].for /\ Nobody \notin Sessions
      /\ Extended(chain[1]) /\ Expected(live, chain[1])
  BY <1>0, QueueFacts, Ids DEF Extended, Queued, SessionOps
<1>2. ASSUME NEW k \in DOMAIN chain \ {1}
      PROVE  /\ chain[k].op \notin {"suffix", "seed", "append"}
             /\ chain[k].op = "write" => chain[1].op = "write" /\ chain[k].for = chain[1].for
  <2>1. /\ Extended(chain[k]) /\ Expected(live, chain[k]) /\ Apart(chain[1], chain[k])
    BY <1>0, QueueFacts DEF Queued
  <2>2. chain[k].op # "append"
    BY <1>1, <2>1 DEF Extended
  <2>3. chain[k].op \in {"suffix", "seed", "write"} => chain[k].for = chain[1].for
    BY <1>1, <2>1 DEF Extended
  <2>4. CASE chain[1].op = "write"
    BY <1>1, <2>1, <2>2, <2>3, <2>4 DEF Extended, Expected, InitOps
  <2>5. CASE chain[1].op \in {"suffix", "seed"}
    BY <1>1, <2>1, <2>2, <2>3, <2>5 DEF Extended, Expected, Apart, InitOps
  <2> QED BY <2>4, <2>5
<1> QED BY <1>1, <1>2

\* The stored batch moves the log to where the owner's controller goes on.
LEMMA StoresBatch ==
  ASSUME Shaped, Reservations, Histories, WriteStored, chain[1].op # "append"
  PROVE  Histories'
<1> USE DEF sessions
<1>0. /\ TypeOK /\ Cursors /\ Views /\ Queue /\ Writing /\ Owners /\ Queued
      /\ disk.log \in Seq(Events) /\ batch \in Seq(Events) /\ chain # <<>> /\ stage = "write"
  <2>1. TypeOK /\ stage = "write"
    BY DEF Shaped, WriteStored
  <2> QED BY <2>1, Busy DEF Shaped, TypeOK, Disks, Histories
<1>1. chain[1].op \in {"suffix", "seed", "write"} /\ state.tracked /\ state.cursor = Len(disk.log)
  BY <1>0 DEF Writing, Appends, Cursors
<1>2. PICK s \in Sessions : s = chain[1].for /\ state.owner = s
  BY <1>0, <1>1, OwnedQueue
<1>3. /\ UNCHANGED <<running, hist, life, caller>> /\ entry' = NoEntry
      /\ disk' = [exists |-> TRUE, log |-> disk.log \o batch, torn |-> FALSE]
      /\ state' = [state EXCEPT !.materialized = TRUE, !.cursor = @ + Len(batch)]
      /\ live' = Settled(TRUE) /\ chain' = Tail(chain) /\ stage' = "queued"
  BY DEF WriteStored, Finish
<1>4. /\ state'.tracked /\ state'.owner = s /\ state'.materialized
      /\ state'.cursor = Len(disk.log) + Len(batch)
      /\ Len(disk'.log) = Len(disk.log) + Len(batch) /\ disk'.log = disk.log \o batch
      /\ Len(disk.log) \in Nat /\ Len(batch) \in Nat
  <2>1. state \in StateType
    BY <1>0 DEF TypeOK
  <2>2. /\ state'.tracked /\ state'.owner = s /\ state'.materialized
        /\ state'.cursor = Len(disk.log) + Len(batch)
    BY <1>1, <1>2, <1>3, <2>1 DEF StateType
  <2> QED BY <1>0, <1>3, <2>2, ConcatFacts
<1>5. /\ \A t \in Sessions : /\ live'[t].on = live[t].on /\ live'[t].seed = live[t].seed
                             /\ t # s => /\ live'[t].queue = live[t].queue
                                         /\ live'[t].init = live[t].init
      /\ chain[1].op = "write" =>
           /\ live'[s].init = live[s].init
           /\ live'[s].queue = SubSeq(live[s].queue, live[s].writing + 1, Len(live[s].queue))
      /\ chain[1].op # "write" => live'[s].queue = live[s].queue
  <2>1. TRUE \in BOOLEAN
    OBVIOUS
  <2> QED BY <1>0, <1>1, <1>2, <1>3, <2>1, SettledFacts
<1>6. /\ Extended(chain[1]) /\ Expected(live, chain[1]) /\ Owner(s)
      /\ live[s].on /\ IsPrefix(disk'.log, hist[s])
  <2>1. Extended(chain[1]) /\ Expected(live, chain[1]) /\ Owner(s)
    BY <1>0, <1>2, HeadFacts DEF Queue, Queued, Owners
  <2> QED BY <1>0, <1>1, <1>2, <1>4, <2>1 DEF Owner, Writing
<1>7. running => Held(s)' /\ Len(disk'.log) = Base(s)'
  <2>1. SUFFICES ASSUME running PROVE Held(s)' /\ Len(disk'.log) = Base(s)'
    OBVIOUS
  <2>2. Held(s)
    BY <1>6, <2>1 DEF Owner
  <2>3. CASE chain[1].op # "write"
    <3>1. batch = chain[1].events
      BY <1>0, <1>1, <2>3 DEF Writing
    <3>2. Len(disk'.log) = Base(s)
      BY <1>1, <1>2, <1>4, <1>6, <2>1, <2>3, <3>1 DEF Extended
    <3> QED BY <1>3, <1>5, <2>2, <2>3, <3>2 DEF Held, Base
  <2>4. CASE chain[1].op = "write"
    <3> DEFINE q == live[s].queue
               n == live[s].writing
               h == Len(hist[s])
    <3>1. Len(batch) = n /\ Len(disk.log) = h - Len(q)
      <4>1. live[s].init = "ok"
        BY <1>2, <1>6, <2>4 DEF Extended
      <4> QED BY <1>0, <1>2, <1>6, <2>1, <2>4, <4>1 DEF Writing, Owner, Base
    <3>2. /\ Len(q) <= h /\ \A i \in DOMAIN q : q[i] = (h - Len(q)) + i - 1
          /\ q \in Seq(Nat) /\ h \in Nat /\ n \in Nat /\ n <= Len(q) /\ Len(q) \in Nat
          /\ DOMAIN q = 1 .. Len(q)
      <4>1. live[s].writing <= Len(live[s].queue)
        BY <1>0 DEF TypeOK
      <4>2. q \in Seq(Nat) /\ h \in Nat /\ n \in Nat
        BY SessionFacts
      <4> QED BY <2>2, <4>1, <4>2, LenProperties DEF Held, Base
    <3> DEFINE r == SubSeq(q, n + 1, Len(q))
    <3>3. live'[s].queue = r
      BY <1>5, <2>4
    <3> HIDE DEF q, n, h
    <3>4. /\ DOMAIN r = 1 .. Len(q) - n /\ Len(r) = Len(q) - n
          /\ \A i \in 1 .. Len(q) - n : r[i] = q[n + i]
      BY <3>2, RestFacts
    <3> HIDE DEF r
    <3>5. h - Len(r) = (h - Len(q)) + n
      BY <3>2, <3>4
    <3>6. \A i \in DOMAIN r : r[i] = (h - Len(r)) + i - 1
      <4>1. SUFFICES ASSUME NEW i \in 1 .. Len(q) - n PROVE r[i] = (h - Len(r)) + i - 1
        BY <3>4
      <4>2. n + i \in DOMAIN q
        BY <3>2
      <4>3. r[i] = (h - Len(q)) + (n + i) - 1
        BY <3>2, <3>4, <4>2
      <4>4. (h - Len(q)) + (n + i) - 1 = ((h - Len(q)) + n) + i - 1
        BY <3>2
      <4> QED BY <3>5, <4>3, <4>4
    <3>7. Len(r) <= h
      BY <3>2, <3>4
    <3>8. Len(disk'.log) = h - Len(r)
      BY <1>4, <3>1, <3>5
    <3> QED BY <1>3, <3>3, <3>6, <3>7, <3>8 DEF Held, Base, h
  <2> QED BY <2>3, <2>4
<1>8. Owners'
  <2>1. SUFFICES ASSUME NEW t \in Sessions PROVE Owner(t)'
    BY DEF Owners
  <2>2. CASE t = s
    BY <1>2, <1>3, <1>4, <1>5, <1>6, <1>7, <2>2 DEF Owner
  <2>3. CASE t # s
    <3>1. Owner(t) /\ (Held(t)' <=> Held(t))
      BY <1>0, <1>3, <1>5, <2>3 DEF Owners, Held, Base
    <3> QED BY <1>2, <1>3, <1>4, <1>5, <2>3, <3>1 DEF Owner
  <2> QED BY <2>2, <2>3
<1>9. \A k \in DOMAIN chain \ {1} : ExtendedNext(chain[k])
  <2>1. SUFFICES ASSUME NEW k \in DOMAIN chain \ {1} PROVE ExtendedNext(chain[k])
    OBVIOUS
  <2>2. /\ Extended(chain[k])
        /\ chain[k].op \in SessionOps => chain[k].for \in Sessions
        /\ chain[k].op \notin {"suffix", "seed", "append"}
        /\ chain[k].op = "write" => chain[1].op = "write" /\ chain[k].for = s
    BY <1>0, <1>1, <1>2, QueueFacts, OwnedQueue
  <2>3. CASE chain[k].op = "created"
    <3>1. chain[k].for \in Sessions \ {s} /\ life[s] = "over"
      BY <1>2, <2>2, <2>3, Ids DEF Extended, SessionOps
    <3> QED BY <1>3, <1>4, <1>5, <2>2, <2>3, <3>1 DEF Extended, ExtendedNext, Base
  <2>4. CASE chain[k].op = "write"
    BY <1>4, <1>5, <2>2, <2>4 DEF Extended, ExtendedNext
  <2>5. CASE chain[k].op \notin {"suffix", "seed", "append", "created", "write"}
    BY <2>5 DEF ExtendedNext
  <2> QED BY <2>2, <2>3, <2>4, <2>5
<1>10. Queue'
  <2>1. From(Ordered, {1})
    BY <1>0, <1>3, FromTail
  <2>2. \A k, m \in DOMAIN chain \ {1} : k < m => FollowsNext(chain[k], chain[m])
    <3>1. \A m \in DOMAIN chain \ {1} : chain[m].op # "append"
      BY <1>0, <1>1, OwnedQueue
    <3> QED BY <1>0, <1>3, <3>1 DEF Queue, Follows, FollowsNext
  <2> QED BY <1>0, <1>9, <2>1, <2>2, QueueKept
<1>11. Cursors' /\ Views' /\ Writing'
  <2>1. Views' /\ Writing'
    BY <1>0, <1>3 DEF Views, Writing
  <2>2. Cursors'
    <3>1. disk'.exists /\ ~ disk'.torn /\ s # Nobody /\ stage' # "repair"
      BY <1>3, Ids
    <3> QED BY <1>4, <3>1 DEF Cursors
  <2> QED BY <2>1, <2>2
<1> QED BY <1>8, <1>10, <1>11 DEF Histories

\* A session takes the id: its seed begins with the log, and what it seeded
\* past the log is stored next.
LEMMA TakesLog ==
  ASSUME Shaped, Reservations, Histories, chain # <<>>, chain[1].op = "created",
         UNCHANGED <<running, disk, hist, life, entry, caller>>,
         state.owner = Nobody, ~ disk.torn, IsPrefix(disk.log, Seed),
         state'.tracked, state'.owner = chain[1].for, state'.cursor = Len(disk.log),
         BindSeed(chain[1].for, Seed, Len(disk.log)),
         ~ disk.exists => disk = Absent
  PROVE  Histories'
<1>0. /\ TypeOK /\ Cursors /\ Views /\ Queue /\ Owners /\ Queued /\ 1 \in DOMAIN chain
      /\ disk.log \in Seq(Events)
  BY HeadFacts DEF Shaped, TypeOK, Disks, Histories
<1>1. PICK s \in Sessions : s = chain[1].for /\ hist[s] \in Seq(Events) /\ live[s].seed <= Len(hist[s])
  BY SeedType, SessionFacts
<1>2. /\ Extended(chain[1]) /\ Expected(live, chain[1]) /\ Owner(s) /\ s # Nobody
      /\ Len(disk.log) \in Nat /\ live[s].on /\ live[s].init = "pending"
      /\ running => live[s].seed = Base(s)
  BY <1>0, <1>1, LenProperties, Ids DEF Queue, Queued, Owners, Extended, Expected, InitOps
<1>3. /\ Seed \in Seq(Events) /\ Len(Seed) = live[s].seed /\ Len(Seed) \in Nat
      /\ IsPrefix(Seed, hist[s]) /\ IsPrefix(disk.log, hist[s]) /\ Len(disk.log) <= Len(Seed)
  <2>1. Seed \in Seq(Events) /\ Len(Seed) = live[s].seed /\ Len(Seed) \in Nat
    BY <1>1, SeedType
  <2>2. IsPrefix(Seed, hist[s])
    BY <1>1, <2>1, StartPrefix DEF Seed
  <2>3. IsPrefix(disk.log, hist[s]) /\ Len(disk.log) <= Len(Seed)
    BY <1>0, <1>1, <2>1, <2>2, PrefixTrans, PrefixFacts
  <2> QED BY <2>1, <2>2, <2>3
<1>4. /\ stage' = "queued"
      /\ \A t \in Sessions : /\ live'[t].on = live[t].on /\ live'[t].seed = live[t].seed
                             /\ live'[t].queue = live[t].queue
                             /\ t # s => live'[t].init = live[t].init
      /\ live'[s].init = "ok" => Len(disk.log) = Len(Seed)
  <2>1. CASE Len(Seed) = Len(disk.log)
    <3>1. live' = Settled(TRUE) /\ stage' = "queued"
      BY <2>1 DEF BindSeed, Finish
    <3>2. TRUE \in BOOLEAN
      OBVIOUS
    <3> QED BY <1>0, <1>1, <2>1, <3>1, <3>2, SettledFacts DEF InitOps
  <2>2. CASE Len(Seed) # Len(disk.log)
    <3>1. live' = live /\ stage' = "queued"
      BY <2>2 DEF BindSeed, GoOn
    <3> QED BY <1>2, <3>1
  <2> QED BY <2>1, <2>2
<1>5. Owners'
  <2>1. SUFFICES ASSUME NEW t \in Sessions PROVE Owner(t)'
    BY DEF Owners
  <2>2. Owner(t) /\ (Held(t)' <=> Held(t)) /\ t # Nobody
    BY <1>0, <1>4, Ids DEF Owners, Held, Base
  <2>3. CASE t = s
    <3>1. (running /\ live'[t].init = "ok") => Len(disk.log) = Base(t)
      BY <1>2, <1>3, <1>4, <2>3
    <3> QED BY <1>1, <1>2, <1>3, <1>4, <2>2, <2>3, <3>1 DEF Owner, Base
  <2>4. CASE t # s
    BY <1>1, <1>4, <2>2, <2>4 DEF Owner
  <2> QED BY <2>3, <2>4
<1>6. \A k \in DOMAIN chain \ {1} : ExtendedNext(chain[k]) /\ chain[k].op # "append"
  <2>1. SUFFICES ASSUME NEW k \in DOMAIN chain \ {1}
                 PROVE  ExtendedNext(chain[k]) /\ chain[k].op # "append"
    OBVIOUS
  <2>2. /\ Extended(chain[k]) /\ Follows(chain[1], chain[k]) /\ Apart(chain[1], chain[k])
        /\ chain[k].op \in SessionOps => chain[k].for \in Sessions /\ chain[k].for # Nobody
    <3>1. 1 < k
      BY <1>0, QueueFacts, LenProperties DEF TypeOK
    <3> QED BY <1>0, <3>1, QueueFacts DEF Queued
  <2>3. chain[k].op \notin {"suffix", "seed", "write", "append"}
    BY <2>2 DEF Extended, Follows, SessionOps
  <2>4. CASE chain[k].op = "created"
    <3>1. chain[k].for \in Sessions \ {s} /\ life[s] = "over"
      BY <1>1, <2>2, <2>4 DEF Follows, Apart, SessionOps, InitOps
    <3> QED BY <1>1, <1>4, <2>2, <2>4, <3>1 DEF Extended, ExtendedNext, Base
  <2>5. CASE chain[k].op # "created"
    BY <2>3, <2>5 DEF ExtendedNext
  <2> QED BY <2>3, <2>4, <2>5
<1>7. \A k, m \in DOMAIN chain \ {1} : k < m => FollowsNext(chain[k], chain[m])
  BY <1>0, <1>6 DEF Queue, Follows, FollowsNext
<1>8. Queue'
  <2>1. CASE Len(Seed) = Len(disk.log)
    <3>1. From(Ordered, {1})
      BY <1>0, <2>1, FromTail DEF BindSeed, Finish
    <3> QED BY <1>0, <1>6, <1>7, <3>1, QueueKept
  <2>2. CASE Len(Seed) # Len(disk.log)
    <3> DEFINE n == Len(disk.log)
               e == SubSeq(Seed, Len(disk.log) + 1, Len(Seed))
               o == [op |-> "seed", for |-> s, from |-> n, events |-> e]
    <3>1. chain' = <<o>> \o Tail(chain)
      BY <1>1, <2>2 DEF BindSeed, GoOn
    <3>2. o.op = "seed" /\ o.for = s /\ o.from = n /\ o.events = e
      OBVIOUS
    <3>3. /\ e \in Seq(Events) /\ Len(e) = Len(Seed) - n
          /\ disk.log \o e \in Seq(Events) /\ IsPrefix(disk.log \o e, Seed)
      <4>1. Len(Seed) <= Len(Seed)
        BY <1>3
      <4> QED BY <1>0, <1>3, <4>1, PrefixOn
    <3> HIDE DEF e
    <3>4. o \in Operations
      BY <1>2, <3>3, NewOps
    <3> HIDE DEF o
    <3>5. IsPrefix(disk.log \o e, hist[s])
      BY <1>1, <1>3, <3>3, PrefixTrans
    <3>6. running => n + Len(e) = Base(s)
      BY <1>2, <1>3, <3>3
    <3>7. ExtendedNext(o)
      BY <1>1, <1>4, <3>2, <3>5, <3>6 DEF ExtendedNext, Base
    <3> QED BY <1>0, <1>6, <1>7, <3>1, <3>2, <3>4, <3>7, QueueOn
  <2> QED BY <2>1, <2>2
<1>9. Cursors' /\ Views' /\ Writing'
  BY <1>0, <1>1, <1>2, <1>4 DEF Cursors, Views, Writing
<1> QED BY <1>5, <1>8, <1>9 DEF Histories

LEMMA TakesOver ==
  ASSUME Shaped, Reservations, Histories, Claims \/ RegistersNew \/ (AdoptsLivePrefix /\ ~ disk.torn)
  PROVE  Histories'
<1> USE DEF sessions
<1>0. /\ TypeOK /\ Cursors /\ disk.log \in Seq(Events) /\ state \in StateType
      /\ Seed \in Seq(Events) /\ chain # <<>> /\ chain[1].op = "created"
      /\ Absent.log = <<>> /\ ~ Absent.torn /\ Len(<<>>) = 0 /\ Len(Seed) \in Nat /\ 0 <= Len(Seed)
      /\ ~ disk.exists => disk = Absent
  <2>1. chain # <<>> /\ chain[1].op = "created"
    BY DEF Claims, RegistersNew, AdoptsLivePrefix, CreatedAtHead, AtHead
  <2>2. Seed \in Seq(Events) /\ Len(Seed) \in Nat /\ 0 <= Len(Seed)
    BY <2>1, SeedType
  <2> QED BY <2>1, <2>2 DEF Shaped, TypeOK, Disks, Histories, Cursors, Absent
<1>1. IsPrefix(<<>>, Seed)
  <2>1. 0 \in Nat
    OBVIOUS
  <2> QED BY <1>0, <2>1, StartPrefix
<1>2. UNCHANGED <<running, disk, hist, life, entry, caller>>
  BY DEF Claims, RegistersNew, AdoptsLivePrefix
<1>3. CASE Claims
  <2>1. /\ state.tracked /\ state.owner = Nobody /\ state.cursor = Len(disk.log) /\ ~ disk.torn
        /\ state' = [state EXCEPT !.owner = chain[1].for]
        /\ BindSeed(chain[1].for, Seed, Len(disk.log))
    BY <1>0, <1>3 DEF Claims, Cursors
  <2>2. IsPrefix(disk.log, Seed)
    <3>1. CASE Len(disk.log) = 0
      <4>1. disk.log = <<>>
        BY <1>0, <3>1, EmptySeq
      <4> QED BY <1>1, <4>1
    <3>2. CASE Len(disk.log) # 0
      <4>1. SubSeq(disk.log, 1, Len(disk.log)) = disk.log
        BY <1>0, SubSeqFull
      <4> QED BY <1>3, <2>1, <3>2, <4>1 DEF Claims
    <3> QED BY <3>1, <3>2
  <2>3. state'.tracked /\ state'.owner = chain[1].for /\ state'.cursor = Len(disk.log)
    BY <1>0, <2>1 DEF StateType
  <2> QED BY <1>0, <1>2, <2>1, <2>2, <2>3, TakesLog
<1>4. CASE RegistersNew
  <2>1. ~ state.tracked /\ disk = Absent /\ state' = Tracked(0, FALSE, chain[1].for)
        /\ BindSeed(chain[1].for, Seed, 0)
    BY <1>0, <1>4 DEF RegistersNew
  <2>2. /\ state.owner = Nobody /\ ~ disk.torn /\ Len(disk.log) = 0 /\ IsPrefix(disk.log, Seed)
        /\ state'.tracked /\ state'.owner = chain[1].for /\ state'.cursor = 0
    BY <1>0, <1>1, <2>1 DEF Cursors, Tracked
  <2> QED BY <1>0, <1>2, <2>1, <2>2, TakesLog
<1>5. CASE AdoptsLivePrefix /\ ~ disk.torn
  <2>1. /\ ~ state.tracked /\ IsPrefix(disk.log, Seed)
        /\ state' = Tracked(Len(disk.log), TRUE, chain[1].for)
        /\ BindSeed(chain[1].for, Seed, Len(disk.log))
    BY <1>5 DEF AdoptsLivePrefix
  <2>2. /\ state.owner = Nobody
        /\ state'.tracked /\ state'.owner = chain[1].for /\ state'.cursor = Len(disk.log)
    BY <1>0, <2>1 DEF Cursors, Tracked
  <2> QED BY <1>0, <1>2, <1>5, <2>1, <2>2, TakesLog
<1> QED BY <1>3, <1>4, <1>5

\* A fragment is to be repaired first: nothing else has happened.
LEMMA RepairsFirst ==
  ASSUME Shaped, Reservations, Histories, AdoptsLivePrefix, disk.torn
  PROVE  Histories'
<1> USE DEF sessions
<1>0. TypeOK /\ Cursors /\ Views /\ Queue
  BY DEF Shaped, Histories
<1>1. /\ UNCHANGED <<running, disk, state, chain, hist, live, life, entry, caller>>
      /\ stage' = "repair" /\ ~ state.tracked /\ disk.exists
  BY DEF AdoptsLivePrefix
<1>2. Still /\ Cursors' /\ Views'
  BY <1>0, <1>1 DEF Still, Cursors, Views
<1>3. From(Ordered, {}) /\ Calm({})
  BY <1>1, FromSame DEF Calm
<1>4. \A k \in DOMAIN chain : chain[k].op = "append" => entry'.phase # "reserved"
  BY <1>0, <1>1, QueueFacts DEF Extended
<1> QED BY <1>0, <1>1, <1>2, <1>3, <1>4, StillHistories

\* An owner that gives way has nothing queued, here or on the chain.
LEMMA GivesWay ==
  ASSUME Shaped, Reservations, Histories, Reclaims
  PROVE  Histories'
<1> USE DEF sessions
<1>0. /\ TypeOK /\ Cursors /\ Views /\ Queue /\ Owners /\ Queued /\ 1 \in DOMAIN chain
      /\ chain[1].op = "created" /\ stage = "queued" /\ state.owner # Nobody /\ Nobody \notin Sessions
  <2>1. TypeOK /\ chain # <<>> /\ stage = "queued" /\ chain[1].op = "created"
    BY DEF Shaped, Reclaims, CreatedAtHead, AtHead
  <2> QED BY <2>1, HeadFacts, Ids DEF Shaped, Histories, Reclaims
<1>1. /\ UNCHANGED <<running, disk, chain, stage, batch, hist, live, life, entry, caller>>
      /\ state' = NoState /\ ~ state.materialized
  BY DEF Reclaims, Abandoned
<1>2. ~ NoState.tracked /\ NoState.owner = Nobody
  BY DEF NoState
<1>3. PICK s \in Sessions : state.owner = s /\ Owner(s) /\ live[s].on
  BY <1>0, OwnerFacts DEF Owners
<1>4. live[s].queue = <<>> /\ life[s] = "over" /\ live[s].writing = 0
  <2>1. live[s].queue = <<>>
    BY <1>3 DEF Reclaims, Abandoned
  <2>2. live[s].writing \in Nat /\ live[s].writing <= Len(live[s].queue)
    BY <1>0, SessionFacts DEF TypeOK
  <2>3. Len(<<>>) = 0
    OBVIOUS
  <2>4. live[s].writing = 0
    BY <2>1, <2>2, <2>3
  <2>5. Extended(chain[1])
    BY <1>0 DEF Queue
  <2>6. life[s] = "over"
    BY <1>0, <1>3, <2>5 DEF Extended
  <2> QED BY <2>1, <2>4, <2>6
<1>5. Owners'
  <2>1. SUFFICES ASSUME NEW t \in Sessions PROVE Owner(t)'
    BY DEF Owners
  <2>2. Owner(t) /\ (Held(t)' <=> Held(t)) /\ t # Nobody
    BY <1>0, <1>1 DEF Owners, Held, Base
  <2>3. CASE t = s
    BY <1>1, <1>2, <1>4, <2>2, <2>3 DEF Owner
  <2>4. CASE t # s
    BY <1>1, <1>2, <1>3, <2>2, <2>4 DEF Owner
  <2> QED BY <2>3, <2>4
<1>6. ASSUME NEW k \in DOMAIN chain PROVE ExtendedNext(chain[k])
  <2>1. /\ Extended(chain[k]) /\ Expected(live, chain[k])
        /\ chain[k].op \in SessionOps => chain[k].for \in Sessions
        /\ k # 1 => Follows(chain[1], chain[k])
    <3>1. k # 1 => 1 < k
      BY <1>0, QueueFacts, LenProperties DEF TypeOK
    <3> QED BY <1>0, <3>1, QueueFacts DEF Queued
  <2>2. chain[k].op # "seed" /\ chain[k].op # "append"
    BY <1>0, <2>1 DEF Extended, Follows
  <2>3. chain[k].op # "suffix" /\ chain[k].op # "write"
    BY <1>1, <1>3, <1>4, <2>1 DEF Extended, Expected
  <2>4. chain[k].op = "created" => chain[k].for # Nobody
    BY <1>0, <2>1 DEF SessionOps
  <2> QED BY <1>1, <1>2, <2>1, <2>2, <2>3, <2>4 DEF Extended, ExtendedNext, Base
<1>7. Queue'
  <2>1. From(Ordered, {})
    BY <1>1, FromSame
  <2>2. \A k, m \in DOMAIN chain : k < m => FollowsNext(chain[k], chain[m])
    BY <1>0, <1>1 DEF Queue, Follows, FollowsNext
  <2> QED BY <1>0, <1>6, <2>1, <2>2, QueueKept
<1>8. Cursors' /\ Views' /\ Writing'
  BY <1>0, <1>1, <1>2 DEF Cursors, Views, Writing
<1> QED BY <1>5, <1>7, <1>8 DEF Histories

\* A session that is released has nothing queued, here or on the chain.
LEMMA LetsGoHistory ==
  ASSUME Shaped, Reservations, Histories, ReleaseOwner
  PROVE  Histories'
<1> USE DEF sessions
<1>0. /\ TypeOK /\ Cursors /\ Views /\ Queue /\ Owners /\ Queued /\ 1 \in DOMAIN chain /\ chain # <<>>
      /\ chain[1].op = "release" /\ stage = "queued" /\ chain' = Tail(chain) /\ stage' = "queued"
  <2>1. TypeOK /\ chain # <<>> /\ stage = "queued" /\ chain[1].op = "release"
    BY DEF Shaped, ReleaseOwner, AtHead
  <2> QED BY <2>1, HeadFacts DEF Shaped, Histories, ReleaseOwner, Finish
<1>1. PICK s \in Sessions : s = chain[1].for
  BY <1>0, HeadFacts DEF SessionOps
<1>2. live[s].retiring = "releasing" /\ live[s].writing = 0 /\ live[s].init = "ok" /\ s # Nobody
  BY <1>0, <1>1, SessionFacts, Ids DEF Expected
<1> DEFINE m == [NoLive EXCEPT !.retiring = "released"]
<1>3. /\ UNCHANGED <<running, disk, life, entry, caller>>
      /\ live' = [live EXCEPT ![s] = m] /\ hist' = [hist EXCEPT ![s] = <<>>]
      /\ state' = IF state.tracked /\ state.owner = s THEN NoState ELSE state
  BY <1>1 DEF ReleaseOwner
<1>4. ~ m.on
  BY DEF NoLive
<1> HIDE DEF m
<1>5. /\ ~ live'[s].on
      /\ \A t \in Sessions \ {s} : live'[t] = live[t] /\ hist'[t] = hist[t]
  BY <1>1, <1>3, <1>4, SessionFacts
<1>6. /\ ~ NoState.tracked /\ NoState.owner = Nobody
      /\ ~ state.tracked => state.owner = Nobody
      /\ state'.owner # s /\ (state'.owner = Nobody \/ state' = state)
      /\ \A t \in Sessions \ {s} : state'.owner = t <=> state.owner = t
  <2>1. ~ NoState.tracked /\ NoState.owner = Nobody /\ (~ state.tracked => state.owner = Nobody)
    BY <1>0 DEF NoState, Cursors
  <2> QED BY <1>2, <1>3, <2>1, Ids
<1>7. Owners'
  <2>1. SUFFICES ASSUME NEW t \in Sessions PROVE Owner(t)'
    BY DEF Owners
  <2>2. CASE t = s
    BY <1>5, <1>6, <2>2 DEF Owner
  <2>3. CASE t # s
    <3>1. /\ Owner(t) /\ live'[t] = live[t] /\ hist'[t] = hist[t]
          /\ state'.owner = t <=> state.owner = t
      BY <1>0, <1>5, <1>6, <2>3 DEF Owners
    <3> QED BY <1>3, <3>1 DEF Owner, Held, Base
  <2> QED BY <2>2, <2>3
<1>8. ASSUME NEW k \in DOMAIN chain \ {1} PROVE ExtendedNext(chain[k])
  <2>1. /\ Extended(chain[k]) /\ Expected(live, chain[k]) /\ Apart(chain[1], chain[k])
        /\ chain[k].op \in SessionOps => chain[k].for \in Sessions /\ chain[k].for # Nobody
    BY <1>0, QueueFacts DEF Queued
  <2>2. CASE chain[k].op \in {"suffix", "seed", "write", "created"}
    <3>1. chain[k].for \in Sessions \ {s}
      BY <1>0, <1>1, <1>2, <2>1, <2>2 DEF Expected, InitOps, SessionOps
    <3>2. /\ live'[chain[k].for] = live[chain[k].for] /\ hist'[chain[k].for] = hist[chain[k].for]
          /\ state'.owner = chain[k].for <=> state.owner = chain[k].for
          /\ state'.owner = Nobody \/ state' = state
      BY <1>5, <1>6, <3>1
    <3>3. state.owner = chain[k].for => state' = state
      BY <1>6, <2>1, <2>2, <3>2 DEF SessionOps
    <3> QED BY <1>3, <2>1, <2>2, <3>2, <3>3 DEF Extended, ExtendedNext, Base
  <2>3. CASE chain[k].op \notin {"suffix", "seed", "write", "created"}
    BY <1>3, <1>6, <2>1, <2>3 DEF Extended, ExtendedNext
  <2> QED BY <2>2, <2>3
<1>9. \A k, n \in DOMAIN chain \ {1} : k < n => FollowsNext(chain[k], chain[n])
  BY <1>0, <1>3 DEF Queue, Follows, FollowsNext
<1>10. Queue'
  <2>1. From(Ordered, {1})
    BY <1>0, FromTail
  <2> QED BY <1>0, <1>8, <1>9, <2>1, QueueKept
<1>11. Cursors' /\ Views' /\ Writing'
  BY <1>0, <1>3, <1>6 DEF Cursors, Views, Writing
<1> QED BY <1>7, <1>10, <1>11 DEF Histories

-----------------------------------------------------------------------------
(* Reloads, crashes, and the theorems *)

\* The next coordinator owns nothing yet, and is told of the session that is live.
LEMMA StartsHistory ==
  ASSUME Shaped, Reservations, Histories, Start
  PROVE  Histories'
<1> USE DEF storage
<1>0. /\ TypeOK /\ Cursors /\ Views /\ chain = <<>> /\ stage = "queued"
      /\ UNCHANGED <<disk, stage, store, caller>> /\ state' = NoState
      /\ hist \in [Sessions -> Seq(Events)] /\ store \in Sessions \cup {Nobody}
  BY DEF Shaped, Histories, Start, TypeOK
<1>1. /\ \A s \in Sessions : hist'[s] = IF s = store THEN hist[s] ELSE <<>>
      /\ \A s \in Sessions \ {store} : live'[s] = NoLive
      /\ store # Nobody => live'[store] = [NoLive EXCEPT !.on = TRUE, !.init = "pending",
                                                         !.seed = Len(hist[store])]
      /\ chain' = IF store = Nobody THEN <<>> ELSE <<Op("created", store)>>
  BY DEF Start, Shaped, TypeOK
<1>2. NoLive.init # "ok" /\ NoLive.queue = <<>> /\ ~ NoState.tracked /\ NoState.owner = Nobody
      /\ Len(<<>>) = 0 /\ DOMAIN <<>> = {}
  BY DEF NoLive, NoState
<1>3. \A s \in Sessions : live'[s].queue = <<>> /\ live'[s].init # "ok"
  <2>1. store # Nobody => live'[store].queue = <<>> /\ live'[store].init # "ok"
    BY <1>1 DEF NoLive
  <2> QED BY <1>1, <1>2, <2>1, Ids
<1>4. Owners'
  <2>1. SUFFICES ASSUME NEW s \in Sessions PROVE Owner(s)'
    BY DEF Owners
  <2>2. Len(hist'[s]) \in Nat
    <3>1. hist'[s] \in Seq(Events)
      BY <1>0, <1>1, EventFacts
    <3> QED BY <3>1, LenProperties
  <2>3. live'[s].queue = <<>> /\ live'[s].init # "ok" /\ s # Nobody /\ 0 <= Len(hist'[s])
    BY <1>3, <2>2, Ids
  <2>4. Held(s)'
    BY <1>2, <2>3 DEF Held
  <2> QED BY <1>0, <1>2, <2>3, <2>4 DEF Owner
<1>5. Queue'
  <2>1. CASE store = Nobody
    BY <1>1, <1>2, <2>1 DEF Queue
  <2>2. CASE store # Nobody
    <3> DEFINE o == Op("created", store)
    <3>1. o.op = "created" /\ o.for = store
      BY OpShape
    <3> HIDE DEF o
    <3>2. chain' = <<o>>
      BY <1>1, <2>2 DEF o
    <3>3. DOMAIN chain' = {1} /\ chain'[1] = o
      BY <3>2
    <3>4. store \in Sessions /\ hist'[store] = hist[store] /\ Len(hist[store]) \in Nat
      BY <1>0, <1>1, <2>2, SessionFacts
    <3>5. live'[store].on /\ live'[store].seed = Len(hist[store]) /\ live'[store].queue = <<>>
      BY <1>1, <2>2 DEF NoLive
    <3>6. live'[store].seed = Len(hist'[store]) - Len(live'[store].queue)
      BY <1>2, <3>4, <3>5
    <3>7. ExtendedNext(o)
      BY <1>0, <1>2, <2>2, <3>1, <3>5, <3>6 DEF ExtendedNext
    <3>8. Extended(chain[1])'
      BY <3>3, <3>7 DEF Extended, ExtendedNext, Base
    <3>9. \A i, j \in DOMAIN chain' : ~ (i < j)
      BY <3>3
    <3> QED BY <3>3, <3>8, <3>9 DEF Queue
  <2> QED BY <2>1, <2>2
<1>6. Cursors' /\ Views' /\ Writing'
  BY <1>0, <1>2 DEF Cursors, Views, Writing
<1> QED BY <1>4, <1>5, <1>6 DEF Histories

\* A crash leaves a log, whole or torn, or no artifact at all.
LEMMA CrashesHistory ==
  ASSUME Shaped, Reservations, Histories, Crash
  PROVE  Histories'
<1>0. TypeOK /\ Cursors /\ disk \in Disks
  BY DEF Shaped, Histories, TypeOK
<1>1. \A d \in Leftovers : d = disk \/ d.exists
  <2> DEFINE left(n, t) == [exists |-> TRUE, log |-> disk.log \o SubSeq(batch, 1, n), torn |-> t]
             Appended == {left(n, t) : n \in 0 .. Len(batch), t \in BOOLEAN}
  <2>1. \A n \in 0 .. Len(batch), t \in BOOLEAN : left(n, t).exists
    OBVIOUS
  <2> HIDE DEF left
  <2>2. \A d \in Appended : d.exists
    BY <2>1
  <2> HIDE DEF Appended
  <2>3. Leftovers = {disk} \cup
          (IF stage = "write" /\ disk.exists THEN Appended
           ELSE IF stage = "write" THEN {[exists |-> TRUE, log |-> batch, torn |-> FALSE]}
           ELSE IF stage = "header" THEN {[disk EXCEPT !.exists = TRUE]}
           ELSE IF stage = "repair" /\ chain[1].op # "created" /\ ~ disk.torn
           THEN {[disk EXCEPT !.log = Balanced(@)], [disk EXCEPT !.torn = TRUE]}
           ELSE IF stage = "repair" THEN {[disk EXCEPT !.torn = FALSE]}
           ELSE {})
    BY DEF Leftovers, Appended, left
  <2>4. stage = "repair" => disk.exists
    BY <1>0 DEF Cursors
  <2> QED BY <1>0, <2>2, <2>3, <2>4 DEF Disks
<1>2. ~ disk'.exists => disk' = Absent
  BY <1>0, <1>1 DEF Crash, Cursors
<1>3. /\ chain' = <<>> /\ stage' = "queued" /\ state' = NoState
      /\ caller' = [c \in Callers |-> NoCall] /\ live' = [s \in Sessions |-> NoLive]
  BY DEF Crash
<1>4. \A s \in Sessions : live'[s] = NoLive /\ ~ live'[s].on /\ s # Nobody
  BY <1>3, Ids DEF NoLive
<1>5. ~ state'.tracked /\ state'.owner = Nobody /\ DOMAIN chain' = {}
  BY <1>3 DEF NoState
<1>6. \A c \in Callers : caller'[c].pc # "reserved"
  BY <1>3 DEF NoCall
<1>7. Owners'
  BY <1>4, <1>5 DEF Owners, Owner
<1>8. Queue' /\ Cursors' /\ Views' /\ Writing'
  BY <1>2, <1>3, <1>5, <1>6 DEF Queue, Cursors, Views, Writing
<1> QED BY <1>7, <1>8 DEF Histories

LEMMA HistoriesInit == Init => Histories
<1>1. SUFFICES ASSUME Init PROVE Histories
  OBVIOUS
<1>2. \A s \in Sessions : live[s] = NoLive /\ ~ live[s].on /\ s # Nobody
  BY <1>1, Ids DEF Init, NoLive
<1>3. ~ state.tracked /\ state.owner = Nobody /\ DOMAIN chain = {}
  BY <1>1 DEF Init, NoState
<1>4. \A c \in Callers : caller[c].pc # "reserved"
  BY <1>1 DEF Init, NoCall
<1>5. Owners
  BY <1>2, <1>3 DEF Owners, Owner
<1>6. Queue /\ Cursors /\ Views /\ Writing
  BY <1>1, <1>3, <1>4 DEF Init, Queue, Cursors, Views, Writing
<1> QED BY <1>5, <1>6 DEF Histories

LEMMA HistoriesStep ==
  ASSUME Shaped, Reservations, [Next]_vars, Histories
  PROVE  Histories'
<1>1. CASE UNCHANGED vars \/ EnsureMaterialized \/ CreateCall \/ Evict
  BY <1>1, StillService
<1>2. CASE AppendCall
  BY <1>2, StillAppend
<1>3. CASE SessionAppends
  BY <1>3, GrowsHistory
<1>4. CASE Dispose \/ Stop
  BY <1>4, SteadySessions
<1>5. CASE \E s \in Sessions : RetireStep(s)
  BY <1>5, SteadySessions, StartsWriting DEF RetireStep
<1>6. CASE \E replay \in BOOLEAN : CreateSession(replay)
  BY <1>6, BeginsHistory
<1>7. CASE Start \/ Crash
  BY <1>7, StartsHistory, CrashesHistory
<1>8. ASSUME NEW c \in Callers,
             \/ \E m \in Modes : Begin(c, m)
             \/ CallStep(c) \/ Abort(c)
             \/ Publish(c) \/ SetupAppends(c) \/ Release(c)
      PROVE  Histories'
  <2>1. CASE Reserve(c)
    BY <2>1, StillReserve
  <2>2. CASE Publish(c)
    BY <2>2, PublishesHistory
  <2>3. CASE ~ (Reserve(c) \/ Publish(c))
    BY <1>8, <2>3, StillCalls DEF CallStep
  <2> QED BY <2>1, <2>2, <2>3
<1>9. CASE ChainStep \/ Refusal
  <2>1. CASE Claims \/ RegistersNew \/ AdoptsLivePrefix
    BY <2>1, TakesOver, RepairsFirst
  <2>2. CASE Reclaims \/ ReleaseOwner
    BY <2>2, GivesWay, LetsGoHistory
  <2>3. CASE AppendWrites
    BY <2>3, TakesBatch
  <2>4. CASE WriteStored
    BY <2>4, StoresBatch, StillHead DEF Heads
  <2>5. CASE AppendRefused \/ WriteRefused \/ Collides
    BY <2>5, SteadyRefused
  <2>6. CASE RepairFails \/ ReadFails
    BY <2>6, SteadyRefused, StillHead DEF Heads
  <2>7. CASE \/ PrepareCore \/ Check \/ CommitThrows \/ CommitStale \/ CommitRepairs \/ Commit
             \/ RepairTruncates \/ RepairEnds \/ AppendAdopts \/ HeaderDecides \/ HeaderStored
             \/ HeaderRefused \/ CreateCore
    BY <2>7, StillHead DEF Heads
  <2> QED BY <1>9, <2>1, <2>2, <2>3, <2>4, <2>5, <2>6, <2>7 DEF ChainStep, Refusal
<1> QED BY <1>1, <1>2, <1>3, <1>4, <1>5, <1>6, <1>7, <1>8, <1>9 DEF Next

LEMMA HistoriesHold == Spec => [](Shaped /\ Reservations /\ Histories)
<1>1. Init => Histories
  BY HistoriesInit
<1>2. Shaped /\ Reservations /\ [Next]_vars /\ Histories => Histories'
  BY HistoriesStep
<1> QED BY <1>1, <1>2, ReservationsHold, PTL DEF Spec

\* Nothing forks: the log of an owned id never holds an event that its live
\* session does not have at the same seq, whichever way the session came to
\* own it (onCreated, attachPrepared, commitRepair).
THEOREM HistoryIsOne == Spec => []OneHistory
<1>1. Shaped /\ Histories => OneHistory
  <2>1. SUFFICES ASSUME Shaped, Histories PROVE OneHistory
    OBVIOUS
  <2>2. TypeOK /\ Owners /\ (state.owner # Nobody => state.owner \in Sessions)
    BY <2>1 DEF Shaped, Histories, TypeOK, StateType
  <2> QED BY <2>2 DEF Owners, Owner, OneHistory
<1> QED BY <1>1, HistoriesHold, PTL

\* What is queued for the owner is what its log still lacks.
LEMMA LogAndPending ==
  ASSUME Shaped, Histories, NEW s \in Sessions,
         running, live[s].on, live[s].init = "ok", state.owner = s
  PROVE  disk.log \o Pending(s) = hist[s]
<1> DEFINE q == live[s].queue  p == Pending(s)  n == Len(disk.log)  h == hist[s]
<1>1. /\ TypeOK /\ Owner(s) /\ h \in Seq(Events) /\ disk.log \in Seq(Events)
      /\ q \in Seq(Nat) /\ Len(h) \in Nat /\ n \in Nat /\ Len(q) \in Nat /\ DOMAIN q = 1 .. Len(q)
  <2>1. TypeOK /\ Owners /\ h \in Seq(Events) /\ q \in Seq(Nat) /\ disk.log \in Seq(Events)
    BY SessionFacts DEF Shaped, Histories, TypeOK, Disks
  <2> QED BY <2>1, LenProperties DEF Owners
<1>2. /\ IsPrefix(disk.log, h) /\ Len(q) <= Len(h) /\ n = Len(h) - Len(q)
      /\ \A i \in 1 .. Len(q) : q[i] = Len(h) - Len(q) + i - 1
  BY <1>1 DEF Owner, Held, Base
<1>3. p = [i \in 1 .. Len(q) |-> h[q[i] + 1]]
  BY <1>1 DEF Pending
<1>4. \A i \in 1 .. Len(h) : h[i] \in Events
  BY <1>1, ElementOfSeq
<1>5. \A i \in 1 .. n : disk.log[i] = h[i]
  <2>1. disk.log \in Seq(Events) /\ hist[s] \in Seq(Events) /\ IsPrefix(disk.log, hist[s])
    BY <1>1, <1>2
  <2>2. \A i \in 1 .. Len(disk.log) : disk.log[i] = hist[s][i]
    BY <2>1, PrefixFacts
  <2> QED BY <2>2
<1> HIDE DEF q, p, n, h
<1>6. \A i \in 1 .. Len(q) : q[i] + 1 = n + i /\ n + i \in 1 .. Len(h)
  BY <1>1, <1>2
<1>7. \A i \in 1 .. Len(q) : p[i] = h[n + i]
  BY <1>3, <1>6
<1>8. p \in Seq(Events) /\ Len(p) = Len(q)
  <2>1. p \in [1 .. Len(q) -> Events]
    BY <1>3, <1>4, <1>6
  <2>2. p \in Seq(Events)
    BY <1>1, <2>1
  <2>3. DOMAIN p = 1 .. Len(q) /\ DOMAIN p = 1 .. Len(p) /\ Len(p) \in Nat
    BY <2>1, <2>2, LenProperties
  <2> QED BY <1>1, <2>2, <2>3
<1>9. /\ disk.log \o p \in Seq(Events) /\ Len(disk.log \o p) = n + Len(p)
      /\ \A i \in 1 .. n + Len(p) : (disk.log \o p)[i] = IF i <= n THEN disk.log[i] ELSE p[i - n]
  <2>0. disk.log \in Seq(Events) /\ p \in Seq(Events)
    BY <1>1, <1>8
  <2>1. /\ disk.log \o p \in Seq(Events) /\ Len(disk.log \o p) = Len(disk.log) + Len(p)
        /\ \A i \in 1 .. Len(disk.log) + Len(p) :
             (disk.log \o p)[i] = IF i <= Len(disk.log) THEN disk.log[i] ELSE p[i - Len(disk.log)]
    BY <2>0, ConcatProperties
  <2> QED BY <2>1 DEF n
<1>10. Len(disk.log \o p) = Len(h)
  BY <1>1, <1>2, <1>8, <1>9
<1>11. ASSUME NEW i \in 1 .. Len(h) PROVE (disk.log \o p)[i] = h[i]
  <2>1. i \in 1 .. n + Len(p)
    BY <1>1, <1>9, <1>10
  <2>2. CASE i <= n
    BY <1>1, <1>5, <1>9, <2>1, <2>2
  <2>3. CASE ~ (i <= n)
    <3>1. i - n \in 1 .. Len(q) /\ n + (i - n) = i
      BY <1>1, <1>2, <2>3
    <3> QED BY <1>7, <1>9, <2>1, <2>3, <3>1
  <2> QED BY <2>2, <2>3
<1>12. disk.log \o p = h
  BY <1>1, <1>9, <1>10, <1>11, SeqEqual
<1> QED BY <1>12 DEF p, h

\* Nothing is lost, and nothing is stored twice: once an owner's initialization
\* is done, the log followed by what its controller holds is its history
\* (persistInitialSuffix, appendLiveBatch, the drain of a disposed session).
THEOREM NothingIsLost == Spec => []NothingLost
<1>1. Shaped /\ Histories => NothingLost
  BY LogAndPending DEF NothingLost
<1> QED BY <1>1, HistoriesHold, PTL

-----------------------------------------------------------------------------
(* What may still be stored, and by whom *)

\* A session starts its own turns, and recovery's closers come from the log.
Begun(s) == [by |-> s, kind |-> "start"]
Authored(s, e) == e.by # Recovery /\ (e.kind = "start" => e = Begun(s))
Authors ==
  \A s \in Sessions : \A i \in DOMAIN hist[s] :
    i > Len(disk.log) => Authored(s, hist[s][i])

\* A turn in the log that a session began is in its history, until it is over.
Begins ==
  \A s \in Sessions : life[s] # "over" =>
    \A i \in DOMAIN disk.log : disk.log[i] = Begun(s) => i \in DOMAIN hist[s]

\* What setup and the callers of append() add is neither a turn nor recovery's.
Foreign(log) == \A i \in DOMAIN log : log[i].kind = "note" /\ log[i].by # Recovery
Added ==
  /\ \A c \in Callers : Foreign(caller[c].extra)
  /\ \A k \in DOMAIN chain : chain[k].op = "append" => Foreign(chain[k].events)
  /\ stage = "write" /\ chain[1].op = "append" => Foreign(batch)

\* The operations that repair a cold log.
Cold == {"commit", "append"}
Repairing == stage = "repair" => chain[1].op \in Cold \cup {"created"}

\* While a session is live whose turn the log holds open and that does not own
\* the id, nothing that could repair the log is queued, or can be.
Unowned ==
  /\ store # Nobody /\ state.owner # store
  /\ Open(disk.log) /\ IsPrefix(disk.log, hist[store])
Clear ==
  /\ \A c \in Callers : caller[c].pc \in {"idle", "retire"}
  /\ \A k \in DOMAIN chain : chain[k].op \notin Cold
Spared == Unowned => Clear

Sparing == Authors /\ Begins /\ Added /\ Repairing /\ Spared

-----------------------------------------------------------------------------
(* The chain and the calls *)

\* A chain that a step leaves alone, takes the head of, or adds to.
LEMMA ChainMoves ==
  ASSUME Shaped, [Next]_vars, NEW kinds \in SUBSET {"prepare", "commit", "append"}
  PROVE  \/ From(kinds, {})
         \/ AppendCall
         \/ \E c \in Callers : Reserve(c)
         \/ \E c \in Callers : FindsCold(c) /\ Serialize(Op("prepare", FreeGeneration))
<1> USE DEF sessions, storage
<1>0. TypeOK /\ \A d : (From(kinds, d) => From(kinds, {}))
  BY DEF Shaped, From
<1>1. ASSUME UNCHANGED chain PROVE From(kinds, {})
  BY <1>1, FromSame
<1>2. ASSUME chain # <<>>, Finish PROVE From(kinds, {})
  BY <1>0, <1>2, FromTail DEF Finish
<1>3. ASSUME \E k, x : k \notin kinds /\ Serialize(Op(k, x)) PROVE From(kinds, {})
  <2>1. PICK k, x : k \notin kinds /\ Serialize(Op(k, x))
    BY <1>3
  <2>2. Op(k, x).op \notin kinds
    BY <2>1, OpShape
  <2> QED BY <1>0, <2>1, <2>2, FromGained
<1>4. CASE chain' = <<>>
  BY <1>4 DEF From
<1>5. CASE Start
  <2>1. store # Nobody => DOMAIN chain' = {1} /\ chain'[1] = Op("created", store)
    <3>1. store # Nobody => chain' = <<Op("created", store)>>
      BY <1>5 DEF Start
    <3>2. \A o : DOMAIN <<o>> = {1} /\ <<o>>[1] = o
      OBVIOUS
    <3> QED BY <3>1, <3>2
  <2>2. Op("created", store).op \notin kinds
    BY OpShape
  <2>3. store = Nobody => chain' = <<>>
    BY <1>5 DEF Start
  <2> QED BY <2>1, <2>2, <2>3 DEF From
<1>6. ASSUME chain # <<>>, chain[1].op = "created", \E n \in Nat : BindSeed(chain[1].for, Seed, n)
      PROVE  From(kinds, {})
  <2>1. From(kinds, {1})
    <3>1. "seed" \notin kinds
      OBVIOUS
    <3> QED BY <1>6, <3>1, FromSeeded
  <2> QED BY <1>0, <2>1
<1>7. CASE ChainStep \/ Refusal
  <2>1. chain # <<>>
    BY <1>0, <1>7, Busy DEF ChainStep, Refusal, PrepareCore, Check, CommitThrows, CommitStale,
       CommitRepairs, Commit, RepairTruncates, RepairEnds, AppendRefused, AppendAdopts, AppendWrites,
       AppendAtHead, WriteStored, CreatedAtHead, Claims, Reclaims, Collides, AdoptsLivePrefix,
       RegistersNew, ReleaseOwner, HeaderDecides, HeaderStored, CreateCore, RepairFails, ReadFails,
       WriteRefused, HeaderRefused, AtHead
  <2>2. CASE Claims \/ AdoptsLivePrefix \/ RegistersNew
    <3>1. chain[1].op = "created"
      BY <2>2 DEF Claims, AdoptsLivePrefix, RegistersNew, CreatedAtHead, AtHead
    <3>2. state.cursor \in Nat /\ Len(disk.log) \in Nat /\ 0 \in Nat
      BY <1>0, LenProperties DEF TypeOK, StateType, Disks
    <3>3. UNCHANGED chain \/ \E n \in Nat : BindSeed(chain[1].for, Seed, n)
      BY <2>2, <3>2 DEF Claims, AdoptsLivePrefix, RegistersNew
    <3> QED BY <1>1, <1>6, <2>1, <3>1, <3>3
  <2>3. CASE ~ (Claims \/ AdoptsLivePrefix \/ RegistersNew)
    <3>1. UNCHANGED chain \/ Finish
      BY <1>7, <2>3 DEF ChainStep, Refusal, PrepareCore, Check, CommitThrows, CommitStale,
         CommitRepairs, Commit, RepairTruncates, RepairEnds, AppendRefused, AppendAdopts,
         AppendWrites, WriteStored, Reclaims, Collides, ReleaseOwner, HeaderDecides, HeaderStored,
         CreateCore, RepairFails, ReadFails, WriteRefused, HeaderRefused
    <3> QED BY <1>1, <1>2, <2>1, <3>1
  <2> QED BY <2>2, <2>3
<1>8. ASSUME NEW c \in Callers,
             \/ \E m \in Modes : Begin(c, m)
             \/ CallStep(c) \/ Abort(c)
             \/ Publish(c) \/ SetupAppends(c) \/ Release(c)
      PROVE  \/ From(kinds, {}) \/ Reserve(c)
             \/ FindsCold(c) /\ Serialize(Op("prepare", FreeGeneration))
  <2>1. CASE Abort(c)
    <3>1. UNCHANGED chain \/ \E i \in DOMAIN chain : chain' = RemoveAt(chain, i)
      BY <2>1 DEF Abort
    <3>2. ASSUME NEW i \in DOMAIN chain, chain' = RemoveAt(chain, i) PROVE From(kinds, {})
      <4>1. From(kinds, {i})
        BY <1>0, <3>2, FromRemoved
      <4> QED BY <1>0, <4>1
    <3> QED BY <1>1, <3>1, <3>2
  <2>2. CASE Publish(c)
    <3> DEFINE h == Marked(caller[c].view, Newborn) \o caller[c].extra
               o == [op |-> "suffix", for |-> Newborn, from |-> state.cursor,
                     events |-> SubSeq(h, state.cursor + 1, Len(h))]
    <3>1. UNCHANGED chain \/ Serialize(o)
      BY <2>2 DEF Publish
    <3>2. o.op \notin kinds
      OBVIOUS
    <3> HIDE DEF o
    <3> QED BY <1>0, <1>1, <3>1, <3>2, FromGained
  <2>3. CASE CallStep(c)
    <3>1. \/ UNCHANGED chain \/ Reserve(c) \/ Serialize(Op("check", c))
          \/ FindsCold(c) /\ Serialize(Op("prepare", FreeGeneration))
      BY <2>3 DEF CallStep, FindsLive, FindsCold, Invalidated, Inspects, EndCall
    <3>2. "check" \notin kinds
      OBVIOUS
    <3>3. CASE UNCHANGED chain
      BY <1>1, <3>3
    <3>4. CASE Serialize(Op("check", c))
      BY <1>3, <3>2, <3>4
    <3> QED BY <3>1, <3>3, <3>4
  <2>4. CASE SetupAppends(c) \/ Release(c)
    BY <1>1, <2>4 DEF SetupAppends, Release
  <2>5. CASE \E m \in Modes : Begin(c, m)
    BY <1>1, <2>5 DEF Begin
  <2> QED BY <1>8, <2>1, <2>2, <2>3, <2>4, <2>5
<1>9. CASE \E s \in Sessions : RetireStep(s)
  <2>1. PICK s \in Sessions : RetireStep(s)
    BY <1>9
  <2>2. UNCHANGED chain \/ Serialize(Op("write", s)) \/ Serialize(Op("release", s))
    BY <2>1 DEF RetireStep, StartWrite, RetireFails, RetireFlushed
  <2>3. "write" \notin kinds /\ "release" \notin kinds
    OBVIOUS
  <2> QED BY <1>1, <1>3, <2>2, <2>3
<1>10. CASE (\E replay \in BOOLEAN : CreateSession(replay)) \/ EnsureMaterialized \/ CreateCall
  <2>1. \/ UNCHANGED chain \/ Serialize(Op("created", Newborn))
        \/ Serialize(Op("header", store)) \/ Serialize(Op("create", Outside))
    BY <1>10 DEF CreateSession, EnsureMaterialized, CreateCall
  <2>2. "created" \notin kinds /\ "header" \notin kinds /\ "create" \notin kinds
    OBVIOUS
  <2> QED BY <1>1, <1>3, <2>1, <2>2
<1>11. CASE SessionAppends \/ Dispose \/ Evict \/ Stop \/ UNCHANGED vars
  BY <1>1, <1>11 DEF SessionAppends, Dispose, Evict, Stop, vars
<1>12. CASE Crash
  BY <1>4, <1>12 DEF Crash
<1> QED BY <1>5, <1>7, <1>8, <1>9, <1>10, <1>11, <1>12 DEF Next

\* What could repair the log is added by append() and by a resume alone.
LEMMA ColdChain ==
  ASSUME Shaped, [Next]_vars
  PROVE  \/ From(Cold, {})
         \/ AppendCall
         \/ \E c \in Callers : Reserve(c)
<1>1. \A o : o.op \notin Cold /\ Serialize(o) => From(Cold, {})
  BY FromGained DEF Shaped
<1>2. Op("prepare", FreeGeneration).op \notin Cold
  BY OpShape DEF Cold
<1>3. Cold \in SUBSET {"prepare", "commit", "append"}
  BY DEF Cold
<1> QED BY <1>1, <1>2, <1>3, ChainMoves

-----------------------------------------------------------------------------
(* What a step adds to the log *)

\* A step closes the turn that a cold log was left with ...
Closes ==
  /\ chain # <<>> /\ chain[1].op \in Cold /\ state.owner = Nobody
  /\ Open(disk.log) /\ disk'.log = Balanced(disk.log)

\* ... or stores what the owner, or a caller of append(), has next.
Continues(i, e) ==
  /\ e.by # Recovery
  /\ e.kind = "start" =>
       /\ state.owner \in Sessions /\ e = Begun(state.owner)
       /\ i \in DOMAIN hist[state.owner] /\ hist[state.owner][i] = e
Stores ==
  \A i \in DOMAIN disk'.log : i > Len(disk.log) => Continues(i, disk'.log[i])

\* The closer is the one event that recovery adds, and an end.
LEMMA CloserFacts ==
  ASSUME NEW log \in Seq(Events), Open(log)
  PROVE  \A i \in DOMAIN Balanced(log) : i > Len(log) => Balanced(log)[i].kind = "end"
<1> DEFINE closer == [by |-> Recovery, kind |-> "end"]
<1>1. closer \in Events /\ closer.kind = "end"
  BY EventFacts
<1>2. Balanced(log) = log \o <<closer>>
  BY DEF Balanced, Closers
<1> HIDE DEF closer
<1>3. <<closer>> \in Seq(Events) /\ Len(<<closer>>) = 1 /\ <<closer>>[1] = closer
  BY <1>1, EventFacts
<1>4. /\ Balanced(log) \in Seq(Events) /\ Len(Balanced(log)) = Len(log) + 1 /\ Len(log) \in Nat
      /\ \A i \in 1 .. Len(log) + 1 :
           Balanced(log)[i] = IF i <= Len(log) THEN log[i] ELSE <<closer>>[i - Len(log)]
  BY <1>2, <1>3, ConcatProperties, LenProperties
<1>5. \A i \in DOMAIN Balanced(log) : i > Len(log) => i = Len(log) + 1
  BY <1>4, LenProperties
<1>6. Balanced(log)[Len(log) + 1] = closer
  BY <1>3, <1>4
<1> QED BY <1>1, <1>5, <1>6

LEMMA BatchFacts ==
  ASSUME Shaped, Histories, Authors, Added, stage = "write"
  PROVE  \A i \in 1 .. Len(batch) : Continues(Len(disk.log) + i, batch[i])
<1>0. /\ TypeOK /\ chain # <<>> /\ Writing /\ Queue /\ disk.log \in Seq(Events)
      /\ batch \in Seq(Events) /\ Len(disk.log) \in Nat /\ Len(batch) \in Nat
  <2>1. TypeOK /\ disk.log \in Seq(Events) /\ batch \in Seq(Events)
    BY DEF Shaped, TypeOK, Disks
  <2> QED BY <2>1, Busy, LenProperties DEF Histories
<1>1. CASE chain[1].op = "append"
  <2>1. Foreign(batch) /\ DOMAIN batch = 1 .. Len(batch)
    BY <1>0, <1>1, LenProperties DEF Added
  <2> QED BY <2>1 DEF Foreign, Continues
<1>2. CASE chain[1].op # "append"
  <2>1. chain[1].op \in {"suffix", "seed", "write"} /\ IsPrefix(disk.log \o batch, hist[chain[1].for])
    BY <1>0, <1>2 DEF Writing, Appends
  <2>2. PICK s \in Sessions : s = chain[1].for /\ state.owner = s
    BY <1>0, <2>1, OwnedQueue
  <2>3. hist[s] \in Seq(Events) /\ DOMAIN hist[s] = 1 .. Len(hist[s]) /\ Len(hist[s]) \in Nat
    BY SessionFacts, LenProperties
  <2>4. /\ disk.log \o batch \in Seq(Events) /\ Len(disk.log \o batch) = Len(disk.log) + Len(batch)
        /\ \A j \in 1 .. Len(disk.log) + Len(batch) :
             (disk.log \o batch)[j] = IF j <= Len(disk.log) THEN disk.log[j] ELSE batch[j - Len(disk.log)]
    BY <1>0, ConcatProperties
  <2>5. /\ Len(disk.log \o batch) <= Len(hist[s])
        /\ \A j \in 1 .. Len(disk.log \o batch) : (disk.log \o batch)[j] = hist[s][j]
    <3>1. IsPrefix(disk.log \o batch, hist[s]) /\ disk.log \o batch \in Seq(Events)
      BY <2>1, <2>2, <2>4
    <3>2. \A p, q \in Seq(Events) :
            IsPrefix(p, q) => Len(p) <= Len(q) /\ \A j \in 1 .. Len(p) : p[j] = q[j]
      BY PrefixFacts
    <3> QED BY <2>3, <3>1, <3>2
  <2>6. SUFFICES ASSUME NEW i \in 1 .. Len(batch) PROVE Continues(Len(disk.log) + i, batch[i])
    OBVIOUS
  <2> DEFINE n == Len(disk.log)
  <2>7. n + i \in 1 .. Len(disk.log \o batch) /\ ~ (n + i <= n) /\ (n + i) - n = i /\ n + i > n
    BY <1>0, <2>4
  <2>8. n + i \in DOMAIN hist[s] /\ hist[s][n + i] = batch[i]
    <3>1. n + i \in 1 .. Len(hist[s]) /\ (disk.log \o batch)[n + i] = hist[s][n + i]
      BY <1>0, <2>3, <2>4, <2>5, <2>7
    <3>2. (disk.log \o batch)[n + i] = batch[(n + i) - n]
      BY <1>0, <2>4, <2>7
    <3> QED BY <2>3, <2>7, <3>1, <3>2
  <2>9. Authored(s, batch[i])
    BY <2>7, <2>8 DEF Authors
  <2> QED BY <2>2, <2>8, <2>9 DEF Continues, Authored
<1> QED BY <1>1, <1>2

\* The log goes on with the beginning of the batch.
LEMMA BatchStored ==
  ASSUME Shaped, Histories, Authors, Added, stage = "write",
         NEW n \in 0 .. Len(batch), disk'.log = disk.log \o SubSeq(batch, 1, n)
  PROVE  Stores
<1>0. disk.log \in Seq(Events) /\ batch \in Seq(Events) /\ Len(disk.log) \in Nat /\ Len(batch) \in Nat
  <2>1. disk.log \in Seq(Events) /\ batch \in Seq(Events)
    BY DEF Shaped, TypeOK, Disks
  <2> QED BY <2>1, LenProperties
<1> DEFINE b == SubSeq(batch, 1, n)
<1>1. b \in Seq(Events) /\ Len(b) = n /\ \A i \in 1 .. n : b[i] = batch[i]
  <2>1. n \in Nat /\ n <= Len(batch)
    BY <1>0
  <2> QED BY <1>0, <2>1, SubSeqFacts
<1> HIDE DEF b
<1>2. /\ disk.log \o b \in Seq(Events) /\ Len(disk.log \o b) = Len(disk.log) + n
      /\ \A i \in 1 .. Len(disk.log) + n :
           (disk.log \o b)[i] = IF i <= Len(disk.log) THEN disk.log[i] ELSE b[i - Len(disk.log)]
  BY <1>0, <1>1, ConcatProperties
<1>3. SUFFICES ASSUME NEW i \in DOMAIN disk'.log, i > Len(disk.log) PROVE Continues(i, disk'.log[i])
  BY DEF Stores
<1>4. disk'.log = disk.log \o b /\ i \in 1 .. Len(disk.log) + n
  <2>1. disk'.log = disk.log \o b
    BY DEF b
  <2> QED BY <1>2, <2>1, LenProperties
<1>5. i - Len(disk.log) \in 1 .. n /\ Len(disk.log) + (i - Len(disk.log)) = i /\ ~ (i <= Len(disk.log))
  BY <1>0, <1>3, <1>4
<1>6. disk'.log[i] = batch[i - Len(disk.log)] /\ i - Len(disk.log) \in 1 .. Len(batch)
  BY <1>0, <1>1, <1>2, <1>4, <1>5
<1>7. Continues(Len(disk.log) + (i - Len(disk.log)), batch[i - Len(disk.log)])
  BY <1>6, BatchFacts
<1> QED BY <1>5, <1>6, <1>7

LEMMA LogGrows ==
  ASSUME Shaped, Histories, Authors, Added, Repairing, [Next]_vars
  PROVE  Closes \/ Stores
<1> USE DEF sessions, storage
<1>0. /\ TypeOK /\ Cursors /\ disk \in Disks /\ disk.log \in Seq(Events) /\ batch \in Seq(Events)
      /\ Len(disk.log) \in Nat /\ DOMAIN disk.log = 1 .. Len(disk.log) /\ Len(batch) \in Nat
  <2>1. TypeOK /\ Cursors /\ disk \in Disks /\ disk.log \in Seq(Events) /\ batch \in Seq(Events)
    BY DEF Shaped, TypeOK, Disks, Histories
  <2> QED BY <2>1, LenProperties
<1>1. ASSUME disk'.log = disk.log PROVE Stores
  BY <1>0, <1>1 DEF Stores
<1>2. SubSeq(batch, 1, Len(batch)) = batch
  <2>1. /\ SubSeq(batch, 1, Len(batch)) \in Seq(Events) /\ Len(SubSeq(batch, 1, Len(batch))) = Len(batch)
        /\ \A i \in 1 .. Len(batch) : SubSeq(batch, 1, Len(batch))[i] = batch[i]
    BY <1>0, SubSeqFacts
  <2> QED BY <1>0, <2>1, SeqEqual
<1>3. ASSUME stage = "repair", chain[1].op # "created", disk'.log = Balanced(disk.log)
      PROVE  Closes \/ Stores
  <2>1. chain # <<>> /\ chain[1].op \in Cold /\ state.owner = Nobody
    BY <1>0, <1>3, Busy DEF Repairing, Cursors
  <2>2. CASE Open(disk.log)
    BY <1>3, <2>1, <2>2 DEF Closes
  <2>3. CASE ~ Open(disk.log)
    BY <1>0, <1>1, <1>3, <2>3, BalancedFacts
  <2> QED BY <2>2, <2>3
<1>4. CASE RepairEnds
  <2>1. CASE chain[1].op = "created"
    BY <1>1, <1>4, <2>1 DEF RepairEnds
  <2>2. CASE chain[1].op # "created"
    <3>1. stage = "repair" /\ disk'.log = Balanced(disk.log)
      BY <1>0, <1>4, <2>2 DEF RepairEnds, Disks
    <3> QED BY <1>3, <2>2, <3>1
  <2> QED BY <2>1, <2>2
<1>5. CASE WriteStored
  <2>1. stage = "write" /\ disk'.log = disk.log \o SubSeq(batch, 1, Len(batch))
    BY <1>2, <1>5 DEF WriteStored
  <2>2. Len(batch) \in 0 .. Len(batch)
    BY <1>0
  <2> QED BY <2>1, <2>2, BatchStored
<1>6. CASE RepairTruncates \/ HeaderStored
  <2>1. disk'.log = disk.log
    BY <1>0, <1>6 DEF RepairTruncates, HeaderStored, Disks
  <2> QED BY <1>1, <2>1
<1>7. CASE Crash
  <2> DEFINE left(n, t) == [exists |-> TRUE, log |-> disk.log \o SubSeq(batch, 1, n), torn |-> t]
             Appended == {left(n, t) : n \in 0 .. Len(batch), t \in BOOLEAN}
             First == {[exists |-> TRUE, log |-> batch, torn |-> FALSE]}
             Same == {disk, [disk EXCEPT !.exists = TRUE], [disk EXCEPT !.torn = TRUE],
                      [disk EXCEPT !.torn = FALSE]}
             Closed == [disk EXCEPT !.log = Balanced(@)]
  <2> DEFINE ext(n) == disk.log \o SubSeq(batch, 1, n)
  <2>1. \A n \in 0 .. Len(batch), t \in BOOLEAN : left(n, t).log = ext(n)
    OBVIOUS
  <2> HIDE DEF left, ext
  <2>2. \A d \in Appended : \E n \in 0 .. Len(batch) : d.log = ext(n)
    BY <2>1
  <2>3. /\ \A d \in Same : d.log = disk.log
        /\ Closed.log = Balanced(disk.log)
        /\ \A d \in First : d.log = batch
    BY <1>0 DEF Disks
  <2> HIDE DEF Appended, First, Same, Closed
  <2>4. Leftovers = {disk} \cup
          (IF stage = "write" /\ disk.exists THEN Appended
           ELSE IF stage = "write" THEN First
           ELSE IF stage = "header" THEN {[disk EXCEPT !.exists = TRUE]}
           ELSE IF stage = "repair" /\ chain[1].op # "created" /\ ~ disk.torn
           THEN {Closed, [disk EXCEPT !.torn = TRUE]}
           ELSE IF stage = "repair" THEN {[disk EXCEPT !.torn = FALSE]}
           ELSE {})
    BY DEF Leftovers, Appended, First, Closed, left
  <2>5. disk' \in Leftovers
    BY <1>7 DEF Crash
  <2>6. \/ disk' \in Same
        \/ disk' = Closed /\ stage = "repair" /\ chain[1].op # "created"
        \/ disk' \in Appended /\ stage = "write"
        \/ disk' \in First /\ stage = "write" /\ ~ disk.exists
    BY <2>4, <2>5 DEF Same
  <2>7. CASE disk' \in Same
    BY <1>1, <2>3, <2>7
  <2>8. CASE disk' = Closed /\ stage = "repair" /\ chain[1].op # "created"
    BY <1>3, <2>3, <2>8
  <2>9. CASE disk' \in Appended /\ stage = "write"
    <3>1. PICK n \in 0 .. Len(batch) : disk'.log = ext(n)
      BY <2>2, <2>9
    <3> QED BY <2>9, <3>1, BatchStored DEF ext
  <2>10. CASE disk' \in First /\ stage = "write" /\ ~ disk.exists
    <3>1. disk.log = <<>>
      BY <1>0, <2>10 DEF Cursors, Absent
    <3>2. disk'.log = disk.log \o SubSeq(batch, 1, Len(batch)) /\ Len(batch) \in 0 .. Len(batch)
      BY <1>0, <1>2, <2>3, <2>10, <3>1, ConcatEmptySeq
    <3> QED BY <2>10, <3>2, BatchStored
  <2> QED BY <2>6, <2>7, <2>8, <2>9, <2>10
<1>8. CASE ~ (RepairTruncates \/ RepairEnds \/ WriteStored \/ HeaderStored \/ Crash)
  <2>1. UNCHANGED disk
    BY <1>8 DEF Next, vars, ChainStep, PrepareCore, Check, CommitThrows, CommitStale, CommitRepairs,
       Commit, AppendRefused, AppendAdopts, AppendWrites, Claims, Reclaims, Collides,
       AdoptsLivePrefix, RegistersNew, ReleaseOwner, HeaderDecides, CreateCore, Refusal, RepairFails,
       ReadFails, WriteRefused, HeaderRefused, CallStep, FindsLive, FindsCold, Reserve, Invalidated,
       Inspects, EndCall, RetireStep, StartWrite, RetireFails, RetireFlushed, Stop, Start, Evict,
       Begin, Abort, Publish, SetupAppends, Release, CreateSession, SessionAppends, Dispose,
       EnsureMaterialized, CreateCall, AppendCall
  <2> QED BY <1>1, <2>1
<1> QED BY <1>4, <1>5, <1>6, <1>7, <1>8

-----------------------------------------------------------------------------
(* What becomes of a history *)

LEMMA MarkedNext ==
  ASSUME NEW log \in Seq(Events), NEW s \in Sessions
  PROVE  /\ Marked(log, s) \in Seq(Events)
         /\ \A i \in DOMAIN Marked(log, s) : i > Len(log) => Authored(s, Marked(log, s)[i])
<1>1. CASE log # <<>> /\ log[Len(log)].kind = "mark"
  <2>1. Marked(log, s) = log /\ DOMAIN log = 1 .. Len(log) /\ Len(log) \in Nat
    BY <1>1, LenProperties DEF Marked
  <2> QED BY <2>1
<1>2. CASE ~ (log # <<>> /\ log[Len(log)].kind = "mark")
  <2> DEFINE mark == [by |-> s, kind |-> "mark"]
  <2>1. mark \in Events /\ Authored(s, mark)
    BY Ids, EventFacts DEF Authored
  <2>2. Marked(log, s) = Append(log, mark)
    BY <1>2 DEF Marked
  <2> HIDE DEF mark
  <2>3. /\ Append(log, mark) \in Seq(Events) /\ DOMAIN Append(log, mark) = 1 .. Len(log) + 1
        /\ Append(log, mark)[Len(log) + 1] = mark /\ Len(log) \in Nat
    BY <2>1, AppendFacts
  <2>4. \A i \in DOMAIN Append(log, mark) : i > Len(log) => i = Len(log) + 1
    BY <2>3
  <2> QED BY <2>1, <2>2, <2>3, <2>4
<1> QED BY <1>1, <1>2

\* Setup's events follow the mark.
LEMMA ExtraNext ==
  ASSUME NEW log \in Seq(Events), NEW extra \in Seq(Events), NEW s \in Sessions, Foreign(extra)
  PROVE  \A i \in DOMAIN (Marked(log, s) \o extra) :
           i > Len(log) => Authored(s, (Marked(log, s) \o extra)[i])
<1> DEFINE m == Marked(log, s)
<1>1. /\ m \in Seq(Events) /\ DOMAIN m = 1 .. Len(m) /\ Len(m) \in Nat
      /\ DOMAIN extra = 1 .. Len(extra) /\ Len(extra) \in Nat
      /\ \A i \in DOMAIN m : i > Len(log) => Authored(s, m[i])
  BY MarkedNext, LenProperties
<1> HIDE DEF m
<1>2. /\ m \o extra \in Seq(Events) /\ Len(m \o extra) = Len(m) + Len(extra)
      /\ \A i \in 1 .. Len(m) + Len(extra) :
           (m \o extra)[i] = IF i <= Len(m) THEN m[i] ELSE extra[i - Len(m)]
  BY <1>1, ConcatProperties
<1>3. DOMAIN (m \o extra) = 1 .. Len(m) + Len(extra)
  BY <1>2, LenProperties
<1>4. ASSUME NEW i \in 1 .. Len(m) + Len(extra), i > Len(log)
      PROVE  Authored(s, (m \o extra)[i])
  <2>1. CASE i <= Len(m)
    BY <1>1, <1>2, <1>4, <2>1
  <2>2. CASE ~ (i <= Len(m))
    <3>1. i - Len(m) \in DOMAIN extra /\ (m \o extra)[i] = extra[i - Len(m)]
      BY <1>1, <1>2, <1>4, <2>2
    <3> QED BY <3>1 DEF Foreign, Authored
  <2> QED BY <2>1, <2>2
<1> QED BY <1>3, <1>4 DEF m

\* A session goes on with its history, and with what it has authored.
Lives(s) ==
  /\ life'[s] # "over" => life[s] # "over" /\ DOMAIN hist[s] \subseteq DOMAIN hist'[s]
  /\ \A i \in DOMAIN hist'[s] : i > Len(disk.log) =>
       \/ i \in DOMAIN hist[s] /\ hist'[s][i] = hist[s][i]
       \/ Authored(s, hist'[s][i])

LEMMA LivesOn ==
  ASSUME Shaped, Reservations, Histories, Sparing, [Next]_vars, NEW s \in Sessions
  PROVE  Lives(s)
<1> USE DEF sessions, storage
<1>0. /\ TypeOK /\ Lifecycle /\ hist \in [Sessions -> Seq(Events)]
      /\ life \in [Sessions -> {"unborn", "live", "over"}]
      /\ hist[s] \in Seq(Events) /\ disk.log \in Seq(Events) /\ Len(disk.log) \in Nat
      /\ life[s] = "unborn" => hist[s] = <<>>
      /\ life[s] = "live" <=> store = s
      /\ DOMAIN <<>> = {} /\ s # Nobody
  <2>1. disk.log \in Seq(Events) /\ TypeOK
    BY DEF Shaped, TypeOK, Disks
  <2> QED BY <2>1, SessionFacts, LenProperties, Ids DEF Shaped, TypeOK
<1>1. ASSUME hist'[s] = hist[s], life'[s] # "over" => life[s] # "over" PROVE Lives(s)
  BY <1>1 DEF Lives
<1>2. CASE \E replay \in BOOLEAN : CreateSession(replay)
  <2>1. PICK replay \in BOOLEAN : CreateSession(replay)
    BY <1>2
  <2>2. PICK b \in Sessions : b = Newborn /\ life[b] = "unborn"
    BY <2>1, NewbornFacts DEF CreateSession
  <2>3. /\ life' = [life EXCEPT ![b] = "live"]
        /\ hist' = [hist EXCEPT ![b] = IF replay THEN Marked(disk.log, b) ELSE <<>>]
    BY <2>1, <2>2 DEF CreateSession, Enters
  <2>4. CASE s = b
    <3>1. hist'[s] = (IF replay THEN Marked(disk.log, s) ELSE <<>>) /\ hist[s] = <<>>
      BY <1>0, <2>2, <2>3, <2>4
    <3>2. \A i \in DOMAIN hist'[s] : i > Len(disk.log) => Authored(s, hist'[s][i])
      <4>1. CASE replay
        BY <1>0, <3>1, <4>1, MarkedNext
      <4>2. CASE ~ replay
        BY <1>0, <3>1, <4>2
      <4> QED BY <4>1, <4>2
    <3> QED BY <1>0, <2>2, <2>4, <3>1, <3>2 DEF Lives
  <2>5. CASE s # b
    BY <1>0, <1>1, <2>3, <2>5
  <2> QED BY <2>4, <2>5
<1>3. CASE \E c \in Callers : Publish(c)
  <2>1. PICK c \in Callers : Publish(c)
    BY <1>3
  <2>2. PICK b \in Sessions : b = Newborn /\ life[b] = "unborn"
    BY <2>1, NewbornFacts DEF Publish
  <2>3. caller[c].view = disk.log
    <3>1. /\ Views /\ Calls /\ ReservationIsCurrent /\ entry.phase = "reserved"
          /\ caller[c].pc = "reserved"
      BY <2>1 DEF Histories, Reservations, Publish
    <3>2. entry.source = disk /\ ~ Open(disk.log) /\ caller[c].gen # 0 /\ entry.gen = caller[c].gen
      BY <3>1 DEF ReservationIsCurrent, Calls, Holds
    <3>3. caller[c].source = disk
      BY <3>1, <3>2 DEF Calls
    <3> QED BY <1>0, <3>1, <3>2, <3>3, BalancedFacts DEF Views
  <2>4. /\ life' = [life EXCEPT ![b] = "live"]
        /\ hist' = [hist EXCEPT ![b] = Marked(disk.log, b) \o caller[c].extra]
    BY <2>1, <2>2, <2>3 DEF Publish, Enters
  <2>5. CASE s = b
    <3>1. hist'[s] = Marked(disk.log, s) \o caller[c].extra /\ hist[s] = <<>>
      BY <1>0, <2>2, <2>4, <2>5
    <3>2. caller[c].extra \in Seq(Events) /\ Foreign(caller[c].extra)
      BY <1>0 DEF TypeOK, CallType, Sparing, Added
    <3>3. \A i \in DOMAIN hist'[s] : i > Len(disk.log) => Authored(s, hist'[s][i])
      BY <1>0, <3>1, <3>2, ExtraNext
    <3> QED BY <1>0, <2>2, <2>5, <3>1, <3>3 DEF Lives
  <2>6. CASE s # b
    BY <1>0, <1>1, <2>4, <2>6
  <2> QED BY <2>5, <2>6
<1>4. CASE SessionAppends
  <2>1. UNCHANGED <<life, store>> /\ store \in Sessions
    BY <1>0, <1>4 DEF SessionAppends, TypeOK
  <2>2. CASE s # store
    <3>1. hist'[s] = hist[s]
      BY <1>0, <1>4, <2>2 DEF SessionAppends
    <3> QED BY <1>1, <2>1, <3>1
  <2>3. CASE s = store
    <3> DEFINE e == [by |-> s, kind |-> IF Open(hist[s]) THEN "end" ELSE "start"]
    <3>1. hist'[s] = Append(hist[s], e)
      BY <1>0, <1>4, <2>3 DEF SessionAppends
    <3>2. e \in Events /\ Authored(s, e)
      BY Ids, EventFacts DEF Authored, Begun
    <3> HIDE DEF e
    <3>3. /\ DOMAIN hist'[s] = 1 .. Len(hist[s]) + 1 /\ DOMAIN hist[s] = 1 .. Len(hist[s])
          /\ \A i \in DOMAIN hist[s] : hist'[s][i] = hist[s][i]
          /\ hist'[s][Len(hist[s]) + 1] = e /\ Len(hist[s]) \in Nat
      BY <1>0, <3>1, <3>2, AppendFacts
    <3>4. \A i \in DOMAIN hist'[s] : i \in DOMAIN hist[s] \/ i = Len(hist[s]) + 1
      BY <3>3
    <3>5. DOMAIN hist[s] \subseteq DOMAIN hist'[s]
      BY <3>3
    <3> QED BY <2>1, <3>2, <3>3, <3>4, <3>5 DEF Lives
  <2> QED BY <2>2, <2>3
<1>5. CASE ReleaseOwner
  <2>1. /\ chain[1].for \in Sessions /\ Expected(live, chain[1]) /\ chain[1].op = "release"
        /\ hist' = [hist EXCEPT ![chain[1].for] = <<>>] /\ UNCHANGED life
    <3>1. chain # <<>> /\ chain[1].op = "release"
      BY <1>5 DEF ReleaseOwner, AtHead
    <3> QED BY <1>0, <1>5, <3>1, HeadFacts DEF ReleaseOwner, SessionOps, Shaped, Queued
  <2>2. CASE s = chain[1].for
    <3>1. life[s] = "over"
      BY <2>1, <2>2, SessionFacts DEF Expected
    <3>2. hist'[s] = <<>>
      BY <1>0, <2>1, <2>2
    <3> QED BY <1>0, <2>1, <3>1, <3>2 DEF Lives
  <2>3. CASE s # chain[1].for
    BY <1>0, <1>1, <2>1, <2>3
  <2> QED BY <2>2, <2>3
<1>6. CASE Start \/ Crash
  <2>1. /\ life'[s] # "over" => life[s] # "over" /\ (life[s] = "unborn" \/ (Start /\ s = store))
        /\ hist'[s] = <<>> \/ (Start /\ s = store /\ hist'[s] = hist[s])
    BY <1>0, <1>6 DEF Start, Crash
  <2>2. CASE Start /\ s = store
    <3>1. hist'[s] = hist[s] /\ UNCHANGED life
      BY <2>2 DEF Start
    <3> QED BY <1>1, <3>1
  <2>3. CASE ~ (Start /\ s = store)
    BY <1>0, <2>1, <2>3 DEF Lives
  <2> QED BY <2>2, <2>3
<1>7. CASE Dispose
  <2>1. UNCHANGED hist /\ life' = [life EXCEPT ![store] = "over"]
    BY <1>7 DEF Dispose
  <2>2. life'[s] # "over" => life[s] # "over"
    BY <1>0, <2>1
  <2> QED BY <1>1, <2>1, <2>2
<1>8. CASE ~ ((\E replay \in BOOLEAN : CreateSession(replay)) \/ (\E c \in Callers : Publish(c))
              \/ SessionAppends \/ ReleaseOwner \/ Start \/ Crash \/ Dispose)
  <2>1. UNCHANGED <<hist, life>>
    BY <1>8 DEF Next, vars, ChainStep, PrepareCore, Check, CommitThrows, CommitStale, CommitRepairs,
       Commit, RepairTruncates, RepairEnds, AppendRefused, AppendAdopts, AppendWrites, WriteStored,
       Claims, Reclaims, Collides, AdoptsLivePrefix, RegistersNew, HeaderDecides, HeaderStored,
       CreateCore, Refusal, RepairFails, ReadFails, WriteRefused, HeaderRefused, CallStep, FindsLive,
       FindsCold, Reserve, Invalidated, Inspects, EndCall, RetireStep, StartWrite, RetireFails,
       RetireFlushed, Stop, Evict, Begin, Abort, SetupAppends, Release, EnsureMaterialized,
       CreateCall, AppendCall
  <2> QED BY <1>1, <2>1
<1> QED BY <1>2, <1>3, <1>4, <1>5, <1>6, <1>7, <1>8

\* The log goes on, and so do whoever's events it lacks.
LEMMA AuthorsStep ==
  ASSUME Shaped, Reservations, Histories, Sparing, [Next]_vars
  PROVE  Authors' /\ Begins' /\ IsPrefix(disk.log, disk'.log) /\ (Closes \/ Stores)
<1>0. TypeOK /\ TypeOK' /\ Authors /\ Begins /\ Added /\ Repairing /\ Unstored
  BY TypeStep DEF Shaped, Sparing, Histories, Cursors, Unstored, Absent
<1>1. (Closes \/ Stores) /\ IsPrefix(disk.log, disk'.log)
  BY <1>0, LogGrows, LogStep
<1>2. /\ disk.log \in Seq(Events) /\ disk'.log \in Seq(Events) /\ Len(disk.log) \in Nat
      /\ Len(disk'.log) \in Nat /\ DOMAIN disk.log = 1 .. Len(disk.log)
      /\ DOMAIN disk'.log = 1 .. Len(disk'.log)
  <2>1. disk.log \in Seq(Events) /\ disk'.log \in Seq(Events)
    BY <1>0 DEF TypeOK, Disks
  <2> QED BY <2>1, LenProperties
<1>3. Len(disk.log) <= Len(disk'.log) /\ \A i \in DOMAIN disk.log : disk'.log[i] = disk.log[i]
  BY <1>1, <1>2, PrefixFacts
<1>4. Authors'
  <2>1. SUFFICES ASSUME NEW s \in Sessions, NEW i \in DOMAIN hist'[s], i > Len(disk'.log)
                 PROVE  Authored(s, hist'[s][i])
    BY DEF Authors, Authored, Begun
  <2>2. i \in Nat /\ hist'[s] \in Seq(Events)
    <3>1. hist'[s] \in Seq(Events)
      BY <1>0 DEF TypeOK
    <3> QED BY <3>1, LenProperties
  <2>3. i > Len(disk.log) /\ Lives(s)
    BY <1>2, <1>3, <2>1, <2>2, LivesOn
  <2> QED BY <1>0, <2>3 DEF Lives, Authors
<1>5. Begins'
  <2>1. SUFFICES ASSUME NEW s \in Sessions, life'[s] # "over", NEW i \in DOMAIN disk'.log,
                        disk'.log[i] = Begun(s)
                 PROVE  i \in DOMAIN hist'[s]
    BY DEF Begins, Begun
  <2>2. life[s] # "over" /\ DOMAIN hist[s] \subseteq DOMAIN hist'[s]
    BY <2>1, LivesOn DEF Lives
  <2>3. CASE i \in DOMAIN disk.log
    BY <1>0, <1>3, <2>1, <2>2, <2>3 DEF Begins
  <2>4. CASE i \notin DOMAIN disk.log
    <3>1. i > Len(disk.log) /\ Begun(s).kind = "start" /\ Begun(s).by = s
      BY <1>2, <2>4 DEF Begun
    <3>2. CASE Stores
      <4>1. Continues(i, disk'.log[i])
        BY <2>1, <3>1, <3>2 DEF Stores
      <4>2. state.owner \in Sessions /\ Begun(s) = Begun(state.owner) /\ i \in DOMAIN hist[state.owner]
        BY <2>1, <3>1, <4>1 DEF Continues
      <4>3. state.owner = s
        BY <3>1, <4>2 DEF Begun
      <4> QED BY <2>2, <4>2, <4>3
    <3>3. CASE Closes
      <4>1. disk'.log[i].kind # "start"
        BY <1>2, <3>1, <3>3, CloserFacts DEF Closes
      <4> QED BY <2>1, <3>1, <4>1
    <3> QED BY <1>1, <3>2, <3>3
  <2> QED BY <2>3, <2>4
<1> QED BY <1>1, <1>4, <1>5

-----------------------------------------------------------------------------
(* What becomes of the head, and of a call *)

LEMMA HeadStays ==
  ASSUME Shaped, [Next]_vars, stage' # "queued"
  PROVE  \/ /\ stage # "queued" /\ stage' = stage /\ batch' = batch /\ chain'[1] = chain[1]
         \/ CommitRepairs \/ AppendAdopts \/ AppendWrites \/ AdoptsLivePrefix \/ HeaderDecides
<1> USE DEF sessions, storage
<1>0. TypeOK /\ (stage # "queued" => chain # <<>>)
  BY Busy DEF Shaped
<1>1. CASE ChainStep \/ Refusal
  BY <1>1 DEF ChainStep, Refusal, PrepareCore, Check, CommitThrows, CommitStale, Commit,
     RepairTruncates, RepairEnds, AppendRefused, AppendAtHead, WriteStored, CreatedAtHead, Claims,
     Reclaims, Collides, RegistersNew, ReleaseOwner, HeaderStored, CreateCore, RepairFails,
     ReadFails, WriteRefused, HeaderRefused, AtHead, BindSeed, GoOn, Finish
<1>2. CASE Start \/ Crash
  BY <1>0, <1>2 DEF Start, Crash
<1>3. ASSUME UNCHANGED <<stage, batch>>,
             \/ UNCHANGED chain
             \/ \E o : Serialize(o)
             \/ \E i \in DOMAIN chain : i # 1 /\ chain' = RemoveAt(chain, i)
      PROVE  stage # "queued" /\ stage' = stage /\ batch' = batch /\ chain'[1] = chain[1]
  BY <1>0, <1>3, HeadKept
<1>4. CASE ~ (ChainStep \/ Refusal \/ Start \/ Crash)
  <2>1. UNCHANGED <<stage, batch>>
    BY <1>4 DEF Next, vars, CallStep, FindsLive, FindsCold, Reserve, Invalidated,
       Inspects, EndCall, RetireStep, StartWrite, RetireFails, RetireFlushed, Stop, Evict,
       Begin, Abort, Publish, SetupAppends, Release, CreateSession, SessionAppends, Dispose,
       EnsureMaterialized, CreateCall, AppendCall
  <2>2. \/ UNCHANGED chain
        \/ \E o : Serialize(o)
        \/ \E i \in DOMAIN chain : i # 1 /\ chain' = RemoveAt(chain, i)
    <3>1. CASE \E c \in Callers : Abort(c)
      BY <3>1 DEF Abort
    <3>2. CASE ~ (\E c \in Callers : Abort(c))
      BY <1>4, <3>2 DEF Next, vars, CallStep, FindsLive, FindsCold, Reserve, Invalidated,
         Inspects, EndCall, RetireStep, StartWrite, RetireFails, RetireFlushed, Stop, Evict,
         Begin, Publish, SetupAppends, Release, CreateSession, SessionAppends, Dispose,
         EnsureMaterialized, CreateCall, AppendCall
    <3> QED BY <3>1, <3>2
  <2> QED BY <1>3, <2>1, <2>2
<1> QED BY <1>1, <1>2, <1>4

\* What a step makes of a call.
Goes(c) == caller'[c] \in {caller[c], NoCall, [caller[c] EXCEPT !.aborted = TRUE]}
Retries(c) ==
  /\ caller[c].pc \in {"loaded", "checking", "committing"}
  /\ caller'[c] = [caller[c] EXCEPT !.pc = "retire", !.gen = 0, !.source = Absent,
                                    !.waits = retirement]
Loads(c) ==
  /\ PrepareCore /\ caller[c].gen = chain[1].for /\ disk.exists
  /\ caller'[c] = [caller[c] EXCEPT !.pc = "loaded", !.source = disk]
Answers(c) ==
  /\ Check \/ Commit
  /\ c = chain[1].for /\ caller[c].pc \in {"checking", "committing"}
  /\ \E pc \in {"returned", "reserved"} :
       caller'[c] = [caller[c] EXCEPT !.pc = pc, !.view = Balanced(caller[c].source.log)]
Moves(c) ==
  \/ Goes(c) \/ Retries(c) \/ Loads(c) \/ Answers(c)
  \/ \E m \in Modes : Begin(c, m)
  \/ FindsCold(c) \/ Reserve(c) \/ Inspects(c) \/ SetupAppends(c)

LEMMA CallMoves ==
  ASSUME Shaped, Reservations, [Next]_vars, NEW c \in Callers
  PROVE  Moves(c)
<1> USE DEF sessions, storage
<1>0. TypeOK /\ caller \in [Callers -> CallType] /\ Served
  BY DEF Shaped, TypeOK, Reservations
<1>1. ASSUME NEW d \in Callers, caller' = HangUp(d) PROVE Goes(c)
  BY <1>0, <1>1 DEF HangUp, Goes
<1>2. ASSUME NEW d \in Callers, caller[d].pc \in {"loaded", "checking", "committing"},
             caller' = TryAgain(d)
      PROVE  Goes(c) \/ Retries(c)
  <2>1. CASE caller[d].aborted
    BY <1>1, <1>2, <2>1 DEF TryAgain
  <2>2. CASE ~ caller[d].aborted
    BY <1>0, <1>2, <2>2 DEF TryAgain, Goes, Retries
  <2> QED BY <2>1, <2>2
<1>3. ASSUME UNCHANGED caller PROVE Goes(c)
  BY <1>3 DEF Goes
<1>4. ASSUME NEW g, caller' = LoadRejects(g) PROVE Goes(c)
  BY <1>4 DEF LoadRejects, Goes
<1>5. ASSUME chain # <<>>, chain[1].op \in {"commit", "check"}
      PROVE  /\ chain[1].for \in Callers
             /\ chain[1].op = "check" => caller[chain[1].for].pc = "checking"
             /\ chain[1].op = "commit" => caller[chain[1].for].pc = "committing"
  BY <1>0, <1>5, HeadFacts DEF Served, Serves
<1>6. CASE PrepareCore
  <2>1. CASE disk.exists /\ caller' = LoadFulfills(chain[1].for, disk)
    BY <1>3, <1>6, <2>1 DEF LoadFulfills, Goes, Loads, Moves
  <2>2. CASE caller' = LoadRejects(chain[1].for)
    BY <1>4, <2>2 DEF Moves
  <2> QED BY <1>6, <2>1, <2>2 DEF PrepareCore
<1>7. CASE Check \/ Commit
  <2>1. chain # <<>> /\ chain[1].op \in {"commit", "check"}
    BY <1>7 DEF Check, Commit, AtHead
  <2> DEFINE d == chain[1].for
  <2>2. d \in Callers /\ caller[d].pc \in {"checking", "committing"}
    BY <1>5, <2>1
  <2>3. \/ caller' = HangUp(d) \/ caller' = TryAgain(d)
        \/ \E pc \in {"returned", "reserved"} : caller' = Answer(d, pc, Balanced(caller[d].source.log))
    BY <1>7 DEF Check, Commit, Source
  <2>4. CASE caller' = HangUp(d) \/ caller' = TryAgain(d)
    BY <1>1, <1>2, <2>2, <2>4 DEF Moves
  <2>5. CASE \E pc \in {"returned", "reserved"} : caller' = Answer(d, pc, Balanced(caller[d].source.log))
    <3> HIDE DEF d
    <3>1. PICK pc \in {"returned", "reserved"} : caller' = Answer(d, pc, Balanced(caller[d].source.log))
      BY <2>5
    <3>2. CASE c = d
      <4>1. caller'[c] = [caller[c] EXCEPT !.pc = pc, !.view = Balanced(caller[c].source.log)]
        BY <1>0, <3>1, <3>2 DEF Answer
      <4> QED BY <1>7, <2>2, <3>1, <3>2, <4>1 DEF Answers, Moves, d
    <3>3. CASE c # d
      BY <1>0, <2>2, <3>1, <3>3 DEF Answer, Goes, Moves
    <3> QED BY <3>2, <3>3
  <2> QED BY <2>3, <2>4, <2>5
<1>8. CASE CommitThrows \/ CommitStale \/ RepairEnds \/ RepairFails \/ ReadFails
  <2>1. chain # <<>>
    BY <1>0, <1>8, Busy DEF CommitThrows, CommitStale, RepairEnds, RepairFails, ReadFails, AtHead
  <2> DEFINE d == chain[1].for
  <2>2. \/ UNCHANGED caller \/ caller' = LoadRejects(d)
        \/ /\ chain[1].op \in {"commit", "check"}
           /\ caller' = HangUp(d) \/ caller' = TryAgain(d)
    BY <1>8 DEF CommitThrows, CommitStale, RepairEnds, RepairFails, ReadFails, AtHead
  <2>3. CASE chain[1].op \in {"commit", "check"} /\ (caller' = HangUp(d) \/ caller' = TryAgain(d))
    <3>1. d \in Callers /\ caller[d].pc \in {"checking", "committing"}
      BY <1>5, <2>1, <2>3
    <3> HIDE DEF d
    <3> QED BY <1>1, <1>2, <2>3, <3>1 DEF Moves
  <2> QED BY <1>3, <1>4, <2>2, <2>3 DEF Moves
<1>9. ASSUME NEW d \in Callers,
             \/ \E m \in Modes : Begin(d, m)
             \/ CallStep(d) \/ Abort(d)
             \/ Publish(d) \/ SetupAppends(d) \/ Release(d)
      PROVE  Moves(c)
  <2>1. CASE FindsLive(d) \/ EndCall(d) \/ Publish(d) \/ Release(d)
    BY <1>1, <2>1 DEF FindsLive, EndCall, Publish, Release, Moves
  <2>2. CASE Invalidated(d)
    BY <1>2, <2>2 DEF Invalidated, Loaded, Moves
  <2>3. CASE Abort(d)
    <3>1. \/ caller' = HangUp(d) \/ caller' = [caller EXCEPT ![d].aborted = TRUE]
      BY <2>3 DEF Abort
    <3>2. CASE caller' = [caller EXCEPT ![d].aborted = TRUE]
      BY <1>0, <3>2 DEF Goes, Moves
    <3> QED BY <1>1, <3>1, <3>2 DEF Moves
  <2>4. CASE (\E m \in Modes : Begin(d, m)) \/ FindsCold(d) \/ Reserve(d) \/ Inspects(d) \/ SetupAppends(d)
    <3>1. CASE c = d
      BY <2>4, <3>1 DEF Moves
    <3>2. CASE c # d
      <4>1. caller'[c] = caller[c]
        BY <1>0, <2>4, <3>2 DEF Begin, FindsCold, Reserve, Inspects, SetupAppends, HangUp
      <4> QED BY <4>1 DEF Goes, Moves
    <3> QED BY <3>1, <3>2
  <2> QED BY <1>9, <2>1, <2>2, <2>3, <2>4 DEF CallStep
<1>10. CASE Crash
  BY <1>10 DEF Crash, Goes, Moves
<1>11. CASE ~ \/ PrepareCore \/ Check \/ Commit \/ CommitThrows \/ CommitStale \/ RepairEnds
              \/ RepairFails \/ ReadFails \/ Crash
              \/ \E d \in Callers : \/ \E m \in Modes : Begin(d, m)
                                    \/ CallStep(d) \/ Abort(d)
                                    \/ Publish(d) \/ SetupAppends(d) \/ Release(d)
  <2>1. UNCHANGED caller
    BY <1>11 DEF Next, vars, ChainStep, CommitRepairs, RepairTruncates, AppendRefused, AppendAdopts,
       AppendWrites, WriteStored, Claims, Reclaims, Collides, AdoptsLivePrefix, RegistersNew,
       ReleaseOwner, HeaderDecides, HeaderStored, CreateCore, Refusal, WriteRefused, HeaderRefused,
       RetireStep, StartWrite, RetireFails, RetireFlushed, Stop, Start, Evict, CreateSession,
       SessionAppends, Dispose, EnsureMaterialized, CreateCall, AppendCall
  <2> QED BY <1>3, <2>1 DEF Moves
<1> QED BY <1>6, <1>7, <1>8, <1>9, <1>10, <1>11

LEMMA AddedStep ==
  ASSUME Shaped, Reservations, Histories, Added, Repairing, [Next]_vars
  PROVE  Added' /\ Repairing'
<1> USE DEF sessions, storage
<1>0. /\ TypeOK /\ caller \in [Callers -> CallType] /\ Foreign(<<>>)
      /\ NoCall.extra = <<>> /\ chain \in Seq(Operations)
  BY DEF Shaped, TypeOK, Foreign, NoCall
<1>1. ASSUME NEW c \in Callers PROVE Foreign(caller'[c].extra)
  <2>0. caller[c] \in CallType /\ Foreign(caller[c].extra)
    BY <1>0 DEF Added
  <2>1. CASE SetupAppends(c)
    <3> DEFINE e == [by |-> Newborn, kind |-> "note"]
    <3>1. e.kind = "note" /\ e.by # Recovery
      BY <2>1, NewbornFacts, Ids DEF SetupAppends
    <3>2. caller'[c].extra = <<e>>
      BY <1>0, <2>0, <2>1 DEF SetupAppends, CallType
    <3> HIDE DEF e
    <3>3. DOMAIN <<e>> = {1} /\ <<e>>[1] = e
      OBVIOUS
    <3> QED BY <3>1, <3>2, <3>3 DEF Foreign
  <2>2. CASE ~ SetupAppends(c)
    <3>1. caller'[c].extra = caller[c].extra \/ caller'[c].extra = <<>>
      <4>1. Moves(c)
        BY CallMoves
      <4>2. CASE Goes(c)
        BY <1>0, <2>0, <4>2 DEF Goes, CallType
      <4>3. CASE Retries(c) \/ Loads(c) \/ Answers(c)
        BY <1>0, <2>0, <4>3 DEF Retries, Loads, Answers, CallType
      <4>4. CASE \E m \in Modes : Begin(c, m)
        BY <1>0, <4>4 DEF Begin, NoCall
      <4>5. CASE FindsCold(c) \/ Reserve(c) \/ Inspects(c)
        BY <1>0, <2>0, <4>5 DEF FindsCold, Reserve, Inspects, HangUp, CallType
      <4> QED BY <2>2, <4>1, <4>2, <4>3, <4>4, <4>5 DEF Moves
    <3> QED BY <1>0, <2>0, <3>1
  <2> QED BY <2>1, <2>2
<1>2. ASSUME NEW k \in DOMAIN chain', chain'[k].op = "append" PROVE Foreign(chain'[k].events)
  <2>1. ASSUME NEW o, Serialize(o), o.op = "append" => Foreign(o.events)
        PROVE  Foreign(chain'[k].events)
    <3>1. chain \in Seq(Operations \cup {o}) /\ o \in Operations \cup {o}
      BY <1>0
    <3>2. /\ DOMAIN chain' = 1 .. Len(chain) + 1 /\ DOMAIN chain = 1 .. Len(chain)
          /\ \A i \in DOMAIN chain : chain'[i] = chain[i]
          /\ chain'[Len(chain) + 1] = o /\ Len(chain) \in Nat
      BY <2>1, <3>1, AppendFacts DEF Serialize
    <3>3. k \in DOMAIN chain \/ k = Len(chain) + 1
      BY <3>2
    <3> QED BY <1>2, <2>1, <3>2, <3>3 DEF Added
  <2>2. CASE From(Cold, {})
    <3>1. PICK i \in DOMAIN chain : chain'[k] = chain[i]
      BY <1>2, <2>2 DEF From, Cold
    <3> QED BY <1>2, <3>1 DEF Added
  <2>3. CASE AppendCall
    <3> DEFINE n == [by |-> Outside, kind |-> "note"]
               o == [op |-> "append", for |-> Outside, events |-> <<n>>,
                     from |-> Len(Balanced(disk.log))]
    <3>1. Serialize(o) /\ o.events = <<n>>
      BY <2>3 DEF AppendCall
    <3>2. n.kind = "note" /\ n.by # Recovery
      BY Ids
    <3> HIDE DEF o, n
    <3>3. DOMAIN <<n>> = {1} /\ <<n>>[1] = n
      OBVIOUS
    <3>4. Foreign(o.events)
      BY <3>1, <3>2, <3>3 DEF Foreign
    <3> QED BY <2>1, <3>1, <3>4
  <2>4. CASE \E c \in Callers : Reserve(c)
    <3>1. PICK c \in Callers : Serialize(Op("commit", c))
      BY <2>4 DEF Reserve
    <3> QED BY <2>1, <3>1, OpShape
  <2> QED BY <2>2, <2>3, <2>4, ColdChain
<1>3. ASSUME stage' = "write", chain'[1].op = "append" PROVE Foreign(batch')
  <2>1. CASE AppendWrites
    <3>1. chain # <<>> /\ chain' = chain /\ batch' = Payload.events
      BY <2>1 DEF AppendWrites, AppendAtHead, AtHead
    <3>2. chain[1].op = "append" /\ 1 \in DOMAIN chain /\ Payload.events = chain[1].events
      BY <1>0, <1>3, <3>1, HeadFacts DEF Payload
    <3> QED BY <3>1, <3>2 DEF Added
  <2>2. CASE CommitRepairs \/ AppendAdopts \/ AdoptsLivePrefix \/ HeaderDecides
    BY <1>0, <1>3, <2>2 DEF CommitRepairs, AppendAdopts, AdoptsLivePrefix, HeaderDecides, Finish,
       BindSeed, GoOn, AtHead, AppendAtHead, CreatedAtHead
  <2>3. CASE stage' = stage /\ batch' = batch /\ chain'[1] = chain[1]
    BY <1>3, <2>3 DEF Added
  <2> QED BY <1>3, <2>1, <2>2, <2>3, HeadStays
<1>4. ASSUME stage' = "repair" PROVE chain'[1].op \in Cold \cup {"created"}
  <2>1. CASE AppendAdopts
    <3>1. chain # <<>> /\ chain' = chain /\ chain[1].op \in Appends /\ ~ state.tracked
      BY <2>1 DEF AppendAdopts, AppendAtHead, AtHead
    <3>2. state.owner = Nobody /\ Nobody \notin Sessions
      BY <3>1, Ids DEF Histories, Cursors
    <3>3. chain[1].op \notin {"suffix", "seed", "write"}
      BY <3>1, <3>2, OwnedQueue
    <3> QED BY <3>1, <3>3 DEF Appends, Cold
  <2>2. CASE CommitRepairs \/ AdoptsLivePrefix
    BY <1>4, <2>2 DEF CommitRepairs, AdoptsLivePrefix, Finish, BindSeed, GoOn, AtHead,
       CreatedAtHead, Cold
  <2>3. CASE AppendWrites \/ HeaderDecides
    BY <1>4, <2>3 DEF AppendWrites, HeaderDecides, Finish
  <2>4. CASE stage' = stage /\ batch' = batch /\ chain'[1] = chain[1]
    BY <1>4, <2>4 DEF Repairing
  <2> QED BY <1>4, <2>1, <2>2, <2>3, <2>4, HeadStays
<1>5. Added'
  BY <1>1, <1>2, <1>3 DEF Added, Foreign
<1>6. Repairing'
  BY <1>4 DEF Repairing, Cold
<1> QED BY <1>5, <1>6

-----------------------------------------------------------------------------
(* While a live session's turn is open in the log *)

LEMMA ClearStays ==
  ASSUME Shaped, Reservations, Clear, store # Nobody, [Next]_vars
  PROVE  Clear'
<1> USE DEF sessions, storage
<1>0. /\ TypeOK /\ caller \in [Callers -> CallType] /\ Calls
      /\ NoCall.pc = "idle" /\ chain \in Seq(Operations)
  BY DEF Shaped, TypeOK, NoCall, Reservations
<1>1. ASSUME NEW c \in Callers PROVE caller'[c].pc \in {"idle", "retire"}
  <2>0. caller[c] \in CallType /\ caller[c].pc \in {"idle", "retire"} /\ caller[c].gen = 0
    BY <1>0 DEF Clear, Calls
  <2>1. CASE Goes(c)
    BY <1>0, <2>0, <2>1 DEF Goes, CallType
  <2>2. ~ Loads(c)
    <3>1. PrepareCore => chain # <<>> /\ chain[1].op = "prepare"
      BY DEF PrepareCore, AtHead
    <3>2. PrepareCore => chain[1].for \in Generations
      BY <1>0, <3>1, HeadFacts
    <3>3. 0 \notin Generations
      BY DEF Generations
    <3> QED BY <2>0, <3>2, <3>3 DEF Loads
  <2>3. ~ (Retries(c) \/ Answers(c) \/ FindsCold(c) \/ Reserve(c) \/ Inspects(c) \/ SetupAppends(c))
    BY <2>0 DEF Retries, Answers, FindsCold, Reserve, Inspects, Loaded, SetupAppends
  <2>4. CASE \E m \in Modes : Begin(c, m)
    BY <1>0, <2>4 DEF Begin, NoCall
  <2> QED BY <2>1, <2>2, <2>3, <2>4, CallMoves DEF Moves
<1>2. ASSUME NEW k \in DOMAIN chain', chain'[k].op \in Cold PROVE FALSE
  <2>1. ~ AppendCall /\ \A c \in Callers : ~ Reserve(c)
    BY DEF AppendCall, Unheld, Reserve, Loaded, Clear
  <2>2. From(Cold, {})
    BY <2>1, ColdChain
  <2>3. PICK i \in DOMAIN chain : chain'[k] = chain[i]
    BY <1>2, <2>2 DEF From
  <2> QED BY <1>2, <2>3 DEF Clear
<1> QED BY <1>1, <1>2 DEF Clear, Cold

\* An owner keeps the id until it is released, or gives way to another session.
LEMMA OwnerKept ==
  ASSUME Shaped, Histories, [Next]_vars, ~ Start, ~ Crash,
         NEW s \in Sessions, state.owner = s
  PROVE  state'.owner = s \/ Reclaims \/ (ReleaseOwner /\ chain[1].for = s)
<1> USE DEF sessions, storage
<1>0. TypeOK /\ state \in StateType /\ state.tracked /\ s # Nobody
  <2>1. TypeOK /\ Cursors /\ state \in StateType
    BY DEF Shaped, TypeOK, Histories
  <2> QED BY <2>1, Ids DEF Cursors
<1>1. CASE UNCHANGED state
  BY <1>1
<1>2. CASE WriteStored \/ HeaderStored
  BY <1>0, <1>2 DEF WriteStored, HeaderStored, StateType
<1>3. CASE ReleaseOwner
  BY <1>3 DEF ReleaseOwner
<1>4. ~ (Commit \/ Claims \/ AdoptsLivePrefix \/ RegistersNew)
  BY <1>0 DEF Commit, Claims, AdoptsLivePrefix, RegistersNew
<1>5. ~ \E c \in Callers : Publish(c)
  BY <1>0 DEF Publish
<1>6. CASE CreateCore \/ AppendAdopts
  BY <1>0, <1>6 DEF CreateCore, AppendAdopts
<1>7. CASE ~ (WriteStored \/ HeaderStored \/ ReleaseOwner \/ CreateCore \/ AppendAdopts \/ Reclaims)
  <2>1. UNCHANGED state
    BY <1>4, <1>5, <1>7 DEF Next, vars, ChainStep, PrepareCore, Check, CommitThrows,
       CommitStale, CommitRepairs, RepairTruncates, RepairEnds, AppendRefused, AppendWrites,
       Collides, HeaderDecides, Refusal, RepairFails, ReadFails, WriteRefused, HeaderRefused,
       CallStep, FindsLive, FindsCold, Reserve, Invalidated, Inspects, EndCall, RetireStep,
       StartWrite, RetireFails, RetireFlushed, Stop, Evict, Begin, Abort, SetupAppends, Release,
       CreateSession, SessionAppends, Dispose, EnsureMaterialized, CreateCall, AppendCall
  <2> QED BY <1>1, <2>1
<1> QED BY <1>2, <1>3, <1>6, <1>7

\* A session that is released is over.
LEMMA ReleasedIsOver ==
  ASSUME Shaped, ReleaseOwner
  PROVE  /\ chain # <<>> /\ chain[1].for \in Sessions
         /\ live[chain[1].for].retiring = "releasing" /\ life[chain[1].for] = "over"
<1>1. TypeOK /\ chain # <<>> /\ chain[1].op = "release"
  BY DEF ReleaseOwner, AtHead, Shaped
<1>2. chain[1].for \in Sessions /\ Expected(live, chain[1])
  BY <1>1, HeadFacts DEF SessionOps, Shaped, Queued
<1> QED BY <1>1, <1>2, SessionFacts DEF Expected

\* The live owner keeps it.
LEMMA OwnerStays ==
  ASSUME Shaped, Histories, [Next]_vars, ~ Start, ~ Crash,
         store # Nobody, state.owner = store
  PROVE  state'.owner = store
<1>0. TypeOK /\ Queue /\ store \in Sessions /\ life[store] = "live"
  <2>1. TypeOK /\ Queue /\ store \in Sessions
    BY DEF Shaped, TypeOK, Histories
  <2> QED BY <2>1, SessionFacts
<1>1. ~ Reclaims
  <2>1. SUFFICES ASSUME Reclaims PROVE FALSE
    OBVIOUS
  <2>2. chain # <<>> /\ chain[1].op = "created"
    BY <2>1 DEF Reclaims, CreatedAtHead, AtHead
  <2>3. Extended(chain[1])
    BY <1>0, <2>2, HeadFacts, QueueFacts
  <2> QED BY <1>0, <2>2, <2>3 DEF Extended
<1> QED BY <1>0, <1>1, OwnerKept, ReleasedIsOver

\* A log that a step opens holds a new start.
LEMMA OpensWith ==
  ASSUME NEW p \in Seq(Events), NEW q \in Seq(Events), IsPrefix(p, q), ~ Open(p), Open(q)
  PROVE  \E i \in DOMAIN q : i > Len(p) /\ q[i].kind = "start"
<1>1. /\ Len(p) \in Nat /\ Len(q) \in Nat /\ Len(p) <= Len(q)
      /\ DOMAIN p = 1 .. Len(p) /\ DOMAIN q = 1 .. Len(q)
      /\ \A i \in 1 .. Len(p) : p[i] = q[i]
  BY LenProperties, PrefixFacts
<1>2. PICK i \in DOMAIN q : q[i].kind = "start" /\ \A j \in i + 1 .. Len(q) : q[j].kind # "end"
  BY DEF Open
<1>3. CASE i <= Len(p)
  <2>1. i \in DOMAIN p /\ p[i].kind = "start" /\ \A j \in i + 1 .. Len(p) : p[j].kind # "end"
    BY <1>1, <1>2, <1>3
  <2> QED BY <2>1 DEF Open
<1>4. CASE ~ (i <= Len(p))
  BY <1>1, <1>2, <1>4
<1> QED BY <1>3, <1>4

\* A session's next event is not already the end of an open log that it lacks.
LEMMA LacksNothing ==
  ASSUME Shaped, Begins, SessionAppends, Open(disk.log), IsPrefix(disk.log, hist'[store])
  PROVE  IsPrefix(disk.log, hist[store])
<1> DEFINE h == hist[store]
           e == [by |-> store, kind |-> IF Open(h) THEN "end" ELSE "start"]
<1>0. /\ store \in Sessions /\ TypeOK /\ h \in Seq(Events) /\ hist \in [Sessions -> Seq(Events)]
      /\ disk.log \in Seq(Events) /\ life[store] # "over"
  <2>1. TypeOK /\ store \in Sessions
    BY DEF Shaped, TypeOK, SessionAppends
  <2> QED BY <2>1, SessionFacts DEF TypeOK, Disks
<1>1. e \in Events
  BY <1>0, EventFacts
<1>2. hist'[store] = Append(h, e) /\ e.kind = (IF Open(h) THEN "end" ELSE "start") /\ e.by = store
  BY <1>0 DEF SessionAppends
<1>3. e.kind = "start" => e = Begun(store)
  BY DEF Begun
<1> HIDE DEF e, h
<1>4. /\ Append(h, e) \in Seq(Events) /\ Len(Append(h, e)) = Len(h) + 1
      /\ DOMAIN h = 1 .. Len(h) /\ Len(h) \in Nat
      /\ \A i \in DOMAIN h : Append(h, e)[i] = h[i]
      /\ Append(h, e)[Len(h) + 1] = e
  BY <1>0, <1>1, AppendFacts
<1>5. /\ Len(disk.log) \in Nat /\ DOMAIN disk.log = 1 .. Len(disk.log)
      /\ Len(disk.log) <= Len(h) + 1
      /\ \A i \in 1 .. Len(disk.log) : disk.log[i] = Append(h, e)[i]
  <2>1. IsPrefix(disk.log, Append(h, e)) /\ h = hist[store]
    BY <1>2 DEF h
  <2>2. /\ Len(disk.log) <= Len(Append(h, e))
        /\ \A i \in 1 .. Len(disk.log) : disk.log[i] = Append(h, e)[i]
    <3>1. \A p, q \in Seq(Events) :
            IsPrefix(p, q) => Len(p) <= Len(q) /\ \A i \in 1 .. Len(p) : p[i] = q[i]
      BY PrefixFacts
    <3> QED BY <1>0, <1>4, <2>1, <3>1
  <2> QED BY <1>0, <1>4, <2>2, LenProperties
<1>6. CASE Len(disk.log) <= Len(h)
  <2>1. \A i \in 1 .. Len(disk.log) : disk.log[i] = h[i]
    BY <1>4, <1>5, <1>6
  <2>2. IsPrefix(disk.log, h)
    BY <1>0, <1>6, <2>1, PrefixFacts
  <2> QED BY <2>2 DEF h
<1>7. CASE Len(disk.log) = Len(h) + 1
  <2>1. disk.log[Len(disk.log)] = e /\ Len(disk.log) \in DOMAIN disk.log
    BY <1>4, <1>5, <1>7
  <2>2. CASE e.kind = "start"
    <3>1. Len(disk.log) \in DOMAIN h
      BY <1>0, <1>3, <2>1, <2>2 DEF Begins, h
    <3> QED BY <1>4, <1>5, <1>7, <3>1
  <2>3. CASE e.kind = "end"
    <3>1. PICK i \in DOMAIN disk.log : /\ disk.log[i].kind = "start"
                                       /\ \A j \in i + 1 .. Len(disk.log) : disk.log[j].kind # "end"
      BY DEF Open
    <3>2. i # Len(disk.log)
      BY <2>1, <2>3, <3>1
    <3>3. Len(disk.log) \in i + 1 .. Len(disk.log)
      BY <1>5, <3>2
    <3> QED BY <2>1, <2>3, <3>1, <3>3
  <2> QED BY <1>2, <2>2, <2>3
<1> QED BY <1>4, <1>5, <1>6, <1>7

\* A live session's history changes when it begins and when it goes on.
LEMMA StoreStays ==
  ASSUME Shaped, [Next]_vars, store' # Nobody, ~ Start,
         \A replay \in BOOLEAN : ~ CreateSession(replay), \A c \in Callers : ~ Publish(c)
  PROVE  store' = store /\ (hist'[store] = hist[store] \/ SessionAppends)
<1> USE DEF sessions, storage
<1>1. CASE ReleaseOwner
  <2>1. /\ UNCHANGED store /\ hist' = [hist EXCEPT ![chain[1].for] = <<>>]
        /\ hist \in [Sessions -> Seq(Events)] /\ life[chain[1].for] = "over"
    BY <1>1, ReleasedIsOver DEF ReleaseOwner, Shaped, TypeOK
  <2>2. store \in Sessions => life[store] = "live"
    BY SessionFacts
  <2>3. chain[1].for # store
    BY <1>1, <2>1, <2>2, ReleasedIsOver
  <2> QED BY <2>1, <2>3
<1>2. ~ Crash /\ ~ Dispose
  BY DEF Crash, Dispose
<1>3. CASE SessionAppends
  BY <1>3 DEF SessionAppends
<1>4. CASE ~ (ReleaseOwner \/ SessionAppends)
  <2>1. UNCHANGED <<store, hist>>
    BY <1>2, <1>4 DEF Next, vars, ChainStep, PrepareCore, Check, CommitThrows, CommitStale,
       CommitRepairs, Commit, RepairTruncates, RepairEnds, AppendRefused, AppendAdopts,
       AppendWrites, WriteStored, Claims, Reclaims, Collides, AdoptsLivePrefix, RegistersNew,
       HeaderDecides, HeaderStored, CreateCore, Refusal, RepairFails, ReadFails, WriteRefused,
       HeaderRefused, CallStep, FindsLive, FindsCold, Reserve, Invalidated, Inspects, EndCall,
       RetireStep, StartWrite, RetireFails, RetireFlushed, Stop, Evict, Begin, Abort, SetupAppends,
       Release, EnsureMaterialized, CreateCall, AppendCall
  <2> QED BY <2>1
<1> QED BY <1>1, <1>3, <1>4

LEMMA SparedStep ==
  ASSUME Shaped, Reservations, Histories, Sparing, [Next]_vars
  PROVE  Spared'
<1> USE DEF sessions, storage
<1>0. /\ TypeOK /\ TypeOK' /\ Cursors /\ Authors /\ Begins /\ Spared
      /\ hist \in [Sessions -> Seq(Events)] /\ hist' \in [Sessions -> Seq(Events)]
      /\ disk.log \in Seq(Events) /\ disk'.log \in Seq(Events) /\ Len(disk.log) \in Nat
      /\ store \in Sessions \cup {Nobody} /\ store' \in Sessions \cup {Nobody}
  <2>1. TypeOK /\ TypeOK'
    BY TypeStep DEF Shaped
  <2>2. disk.log \in Seq(Events) /\ disk'.log \in Seq(Events)
    BY <2>1 DEF TypeOK, Disks
  <2> QED BY <2>1, <2>2, LenProperties DEF TypeOK, Sparing, Histories
<1>1. SUFFICES ASSUME Unowned' PROVE Clear'
  BY DEF Spared, Unowned, Clear, Cold
<1>2. /\ store' # Nobody /\ store' \in Sessions /\ state'.owner # store'
      /\ Open(disk'.log) /\ IsPrefix(disk'.log, hist'[store'])
  BY <1>0, <1>1 DEF Unowned
<1>3. CASE Start
  <2>1. /\ UNCHANGED caller /\ \A c \in Callers : caller[c].pc = "idle"
        /\ chain' = <<>> \/ chain' = <<Op("created", store)>>
    BY <1>3 DEF Start, Reservations, Calls
  <2>2. \A o : DOMAIN <<o>> = {1} /\ <<o>>[1] = o
    OBVIOUS
  <2>3. \A k \in DOMAIN chain' : chain'[k].op \notin Cold
    <3>1. CASE chain' = <<>>
      BY <3>1
    <3>2. CASE chain' = <<Op("created", store)>>
      BY <2>2, <3>2, OpShape DEF Cold
    <3> QED BY <2>1, <3>1, <3>2
  <2> QED BY <2>1, <2>3 DEF Clear, Cold
<1>4. \A replay \in BOOLEAN : ~ CreateSession(replay)
  <2>1. SUFFICES ASSUME NEW replay \in BOOLEAN, CreateSession(replay) PROVE FALSE
    OBVIOUS
  <2>2. PICK b \in Sessions : b = Newborn
    BY <2>1, NewbornFacts DEF CreateSession
  <2>3. /\ store' = b /\ UNCHANGED disk
        /\ hist' = [hist EXCEPT ![b] = IF replay THEN Marked(disk.log, b) ELSE <<>>]
    BY <2>1, <2>2 DEF CreateSession, Enters
  <2>4. CASE replay
    BY <1>2, <2>1, <2>3, <2>4 DEF CreateSession
  <2>5. CASE ~ replay
    <3>1. IsPrefix(disk.log, <<>>) /\ <<>> \in Seq(Events)
      BY <1>0, <1>2, <2>3, <2>5
    <3>2. Len(disk.log) <= 0
      <4>1. \A p, q \in Seq(Events) : IsPrefix(p, q) => Len(p) <= Len(q)
        BY PrefixFacts
      <4> QED BY <1>0, <3>1, <4>1
    <3>3. disk.log = <<>>
      BY <1>0, <3>2, EmptySeq
    <3> QED BY <1>2, <2>3, <3>3, EmptyIsClosed
  <2> QED BY <2>4, <2>5
<1>5. \A c \in Callers : ~ Publish(c)
  <2>1. \A c \in Callers : Publish(c) => store' = Newborn /\ state'.owner = Newborn
    BY <1>0 DEF Publish, Enters, TypeOK, StateType
  <2> QED BY <1>2, <2>1
<1>6. CASE ~ Start
  <2>1. /\ store' = store /\ store \in Sessions /\ store # Nobody
        /\ hist'[store] = hist[store] \/ SessionAppends
    BY <1>0, <1>2, <1>4, <1>5, <1>6, StoreStays
  <2>2. state.owner # store
    <3>1. ~ Crash
      BY <1>2 DEF Crash
    <3> QED BY <1>2, <1>6, <2>1, <3>1, OwnerStays
  <2>3. IsPrefix(disk.log, disk'.log) /\ (Closes \/ Stores)
    BY AuthorsStep
  <2>4. IsPrefix(disk.log, hist'[store])
    <3>1. \A p, q, r \in Seq(Events) : IsPrefix(p, q) /\ IsPrefix(q, r) => IsPrefix(p, r)
      BY PrefixTrans
    <3> QED BY <1>0, <1>2, <2>1, <2>3, <3>1
  <2>5. Open(disk.log)
    <3>1. SUFFICES ASSUME ~ Open(disk.log) PROVE FALSE
      OBVIOUS
    <3>2. Stores
      BY <2>3, <3>1 DEF Closes
    <3>3. PICK i \in DOMAIN disk'.log : i > Len(disk.log) /\ disk'.log[i].kind = "start"
      BY <1>0, <1>2, <2>3, <3>1, OpensWith
    <3>4. /\ state.owner \in Sessions /\ disk'.log[i] = Begun(state.owner)
          /\ hist'[store] = hist[store]
      <4>1. ~ SessionAppends
        BY <1>2, <3>1 DEF SessionAppends
      <4> QED BY <2>1, <3>2, <3>3, <4>1 DEF Stores, Continues
    <3>5. i \in DOMAIN hist[store] /\ hist[store][i] = disk'.log[i]
      <4>1. DOMAIN disk'.log = 1 .. Len(disk'.log) /\ Len(disk'.log) \in Nat
        BY <1>0, LenProperties
      <4>2. \A p, q \in Seq(Events) :
              IsPrefix(p, q) => Len(p) <= Len(q) /\ \A j \in 1 .. Len(p) : p[j] = q[j]
        BY PrefixFacts
      <4>3. /\ hist[store] \in Seq(Events) /\ DOMAIN hist[store] = 1 .. Len(hist[store])
            /\ Len(hist[store]) \in Nat /\ IsPrefix(disk'.log, hist[store])
        BY <1>0, <1>2, <2>1, <3>4, LenProperties
      <4>4. /\ Len(disk'.log) <= Len(hist[store])
            /\ \A j \in 1 .. Len(disk'.log) : disk'.log[j] = hist[store][j]
        BY <1>0, <4>2, <4>3
      <4> QED BY <4>1, <4>3, <4>4
    <3>6. Authored(store, hist[store][i]) /\ hist[store][i].kind = "start"
      BY <1>0, <2>1, <3>3, <3>5 DEF Authors
    <3>7. Begun(store) = Begun(state.owner)
      BY <3>4, <3>5, <3>6 DEF Authored
    <3> QED BY <2>2, <3>7 DEF Begun
  <2>6. IsPrefix(disk.log, hist[store])
    BY <1>0, <2>1, <2>4, <2>5, LacksNothing
  <2>7. Clear
    BY <1>0, <2>1, <2>2, <2>5, <2>6 DEF Spared, Unowned
  <2> QED BY <2>1, <2>7, ClearStays
<1> QED BY <1>3, <1>6

LEMMA SparingInit == Init => Sparing
<1> SUFFICES ASSUME Init PROVE Sparing
  OBVIOUS
<1>1. DOMAIN <<>> = {} /\ Foreign(<<>>)
  BY DEF Foreign
<1>2. disk.log = <<>> /\ \A s \in Sessions : hist[s] = <<>>
  BY DEF Init, Absent
<1>3. \A c \in Callers : caller[c].extra = <<>>
  BY DEF Init, NoCall
<1>4. chain = <<>> /\ stage = "queued" /\ store = Nobody
  BY DEF Init
<1> QED BY <1>1, <1>2, <1>3, <1>4 DEF Sparing, Authors, Begins, Added, Repairing, Spared, Unowned

LEMMA SparingStep ==
  ASSUME Shaped, Reservations, Histories, Sparing, [Next]_vars
  PROVE  Sparing'
<1>1. Authors' /\ Begins'
  BY AuthorsStep
<1>2. Added' /\ Repairing'
  BY AddedStep DEF Sparing
<1>3. Spared'
  BY SparedStep
<1> QED BY <1>1, <1>2, <1>3 DEF Sparing

\* Repair spares the living: no closer is stored after a log that is still the
\* beginning of a live session's history, whether a resume, an append() or a
\* crash repairs it (commitRepair, adopt, onCreated).
THEOREM LiveTurnsAreSpared == Spec => RepairSparesLive
<1> DEFINE Spares ==
      (/\ Len(disk'.log) > Len(disk.log)
       /\ disk'.log[Len(disk'.log)].by = Recovery)
        => ~ (store # Nobody /\ IsPrefix(disk.log, hist[store]))
<1>1. Shaped /\ Reservations /\ Histories /\ Sparing /\ [Next]_vars => Spares
  <2>1. SUFFICES ASSUME Shaped, Reservations, Histories, Sparing, [Next]_vars,
                        Len(disk'.log) > Len(disk.log),
                        disk'.log[Len(disk'.log)].by = Recovery,
                        store # Nobody, IsPrefix(disk.log, hist[store])
                 PROVE  FALSE
    OBVIOUS
  <2>2. TypeOK /\ TypeOK'
    BY <2>1, TypeStep DEF Shaped
  <2>3. /\ disk'.log \in Seq(Events) /\ Len(disk'.log) \in Nat /\ Len(disk.log) \in Nat
        /\ DOMAIN disk'.log = 1 .. Len(disk'.log)
    <3>1. disk.log \in Seq(Events) /\ disk'.log \in Seq(Events)
      BY <2>2 DEF TypeOK, Disks
    <3> QED BY <3>1, LenProperties
  <2>4. Len(disk'.log) \in DOMAIN disk'.log
    BY <2>1, <2>3
  <2>5. Closes
    BY <2>1, <2>4, AuthorsStep DEF Stores, Continues
  <2>6. Unowned /\ 1 \in DOMAIN chain
    BY <2>1, <2>2, <2>5, HeadFacts DEF Closes, Unowned
  <2> QED BY <2>1, <2>5, <2>6 DEF Closes, Sparing, Spared, Clear
<1>2. Init => Sparing
  BY SparingInit
<1>3. Shaped /\ Reservations /\ Histories /\ Sparing /\ [Next]_vars => Sparing'
  BY SparingStep
<1>4. Shaped /\ Reservations /\ Histories /\ Sparing /\ [Next]_vars => [Spares]_vars
  BY <1>1
<1> QED BY <1>2, <1>3, <1>4, HistoriesHold, PTL DEF Spec, RepairSparesLive, Spares

-----------------------------------------------------------------------------
(* What whoever waits for a retirement will find in the log *)

\* A session that lost the id left its history in the log ...
Stored ==
  \A s \in Sessions :
    (running /\ live[s].on /\ live[s].init = "ok" /\ state.owner # s)
      => IsPrefix(hist[s], disk.log)
\* ... a live one is watched, and one whose retirement is waited for drains.
Watching == running /\ store # Nobody => live[store].on
Draining(s) == live[s].on /\ live[s].retiring \in {"flushing", "releasing"}
Retiring == retirement # Nobody => Draining(retirement)

\* A preparation that was read is the log; who shares it does so once it is read.
Read(e) == e.phase \notin {"none", "loading"}
Cached ==
  /\ Read(entry) => entry.source.log = disk.log
  /\ ~ Read(entry) /\ entry # NoEntry => entry.phase = "loading"
  /\ \A c \in Callers :
       (caller[c].pc \in {"loaded", "checking", "committing"} /\ entry.gen = caller[c].gen)
         => Read(entry)

\* A commit is of the id's entry, or comes before the read of the one that
\* replaced it; the repair of an append() left no entry that was read.
Precede ==
  \A i \in DOMAIN chain : chain[i].op = "commit" =>
    \/ entry.gen = caller[chain[i].for].gen
    \/ entry = NoEntry
    \/ /\ entry.phase = "loading"
       /\ \A j \in DOMAIN chain :
            (chain[j].op = "prepare" /\ chain[j].for = entry.gen) => i < j
Discards == stage = "repair" /\ chain[1].op = "append" => ~ Read(entry)

-----------------------------------------------------------------------------
(* What becomes of the entry *)

ReadsEntry ==
  /\ PrepareCore /\ entry.gen = chain[1].for
  /\ entry' = [entry EXCEPT !.phase = "ready", !.source = disk]
TakesEntry(c) ==
  /\ Reserve(c) /\ entry.phase = "ready"
  /\ entry' = [entry EXCEPT !.phase = "committing"]
LoadsEntry(c) ==
  /\ FindsCold(c) /\ entry = NoEntry /\ FreeGenerations # {}
  /\ Serialize(Op("prepare", FreeGeneration))
  /\ entry' = [NoEntry EXCEPT !.gen = FreeGeneration, !.phase = "loading"]
PassesEntry ==
  /\ entry.phase \in Holds
  /\ entry' \in {[entry EXCEPT !.phase = "ready"], [entry EXCEPT !.phase = "reserved"]}
EntryMoves ==
  \/ entry' = entry \/ entry' = NoEntry
  \/ ReadsEntry \/ PassesEntry
  \/ \E c \in Callers : TakesEntry(c) \/ LoadsEntry(c)

LEMMA EntryStep ==
  ASSUME Shaped, Reservations, [Next]_vars
  PROVE  EntryMoves
<1> USE DEF sessions, storage
<1>0. TypeOK /\ Calls /\ Served
  BY DEF Shaped, Reservations
<1>1. ASSUME NEW g, entry' = DropEntry(g) PROVE EntryMoves
  BY <1>1 DEF DropEntry, EntryMoves
<1>2. CASE PrepareCore
  <2>1. \/ entry' = entry \/ entry' = DropEntry(chain[1].for)
        \/ ReadsEntry
    BY <1>2 DEF PrepareCore, ReadsEntry
  <2> QED BY <1>1, <2>1 DEF EntryMoves
<1>3. CASE Commit
  <2> DEFINE c == chain[1].for
  <2>1. chain # <<>> /\ chain[1].op = "commit"
    BY <1>3 DEF Commit, AtHead
  <2>2. c \in Callers /\ caller[c].pc = "committing"
    BY <1>0, <2>1, HeadFacts DEF Served, Serves
  <2>3. entry.gen = caller[c].gen => entry.phase \in Holds
    BY <1>0, <2>2 DEF Calls, Holds
  <2>4. \/ entry' = entry \/ entry' = NoEntry \/ entry' = MakeReady(caller[c].gen)
        \/ entry.gen = caller[c].gen /\ entry' = [entry EXCEPT !.phase = "reserved"]
    BY <1>3 DEF Commit
  <2> QED BY <2>3, <2>4 DEF MakeReady, EntryMoves, PassesEntry
<1>4. ASSUME NEW c \in Callers, Release(c) PROVE EntryMoves
  <2>1. entry.phase \in Holds
    BY <1>0, <1>4 DEF Release, Calls, Holds
  <2>2. entry' = MakeReady(caller[c].gen) \/ entry' = DropEntry(caller[c].gen)
    BY <1>4 DEF Release
  <2> QED BY <1>1, <2>1, <2>2 DEF MakeReady, EntryMoves, PassesEntry
<1>5. ASSUME NEW c \in Callers, Reserve(c) PROVE EntryMoves
  BY <1>5 DEF Reserve, Ready, TakesEntry, EntryMoves
<1>6. ASSUME NEW c \in Callers, FindsCold(c) PROVE EntryMoves
  BY <1>6 DEF FindsCold, LoadsEntry, EntryMoves
<1>7. CASE \/ Check \/ CommitThrows \/ CommitStale \/ RepairEnds \/ RepairFails \/ ReadFails
           \/ \E c \in Callers : Abort(c)
  <2>1. entry' = entry \/ \E g : entry' = DropEntry(g)
    BY <1>7 DEF Check, CommitThrows, CommitStale, RepairEnds, RepairFails, ReadFails, Abort
  <2> QED BY <1>1, <2>1 DEF EntryMoves
<1>8. CASE AppendAdopts \/ WriteStored \/ HeaderStored \/ Start \/ Crash \/ Evict
           \/ \E c \in Callers : Publish(c)
  <2>1. entry' = entry \/ entry' = NoEntry
    BY <1>8 DEF AppendAdopts, WriteStored, HeaderStored, Start, Crash, Evict, Publish
  <2> QED BY <2>1 DEF EntryMoves
<1>9. CASE ~ (\/ PrepareCore \/ Commit \/ Check \/ CommitThrows \/ CommitStale \/ RepairEnds
              \/ RepairFails \/ ReadFails \/ AppendAdopts \/ WriteStored \/ HeaderStored \/ Start
              \/ Crash \/ Evict
              \/ \E c \in Callers : Publish(c) \/ Abort(c) \/ Release(c) \/ Reserve(c) \/ FindsCold(c))
  <2>1. UNCHANGED entry
    BY <1>9 DEF Next, vars, ChainStep, CommitRepairs, RepairTruncates, AppendRefused, AppendWrites,
       Claims, Reclaims, Collides, AdoptsLivePrefix, RegistersNew, ReleaseOwner, HeaderDecides,
       CreateCore, Refusal, WriteRefused, HeaderRefused, CallStep, FindsLive, Invalidated, Inspects,
       EndCall, RetireStep, StartWrite, RetireFails, RetireFlushed, Stop, Begin, SetupAppends,
       CreateSession, SessionAppends, Dispose, EnsureMaterialized, CreateCall, AppendCall
  <2> QED BY <2>1 DEF EntryMoves
<1> QED BY <1>2, <1>3, <1>4, <1>5, <1>6, <1>7, <1>8, <1>9

\* Whoever writes the log leaves no entry that was read before.
LEMMA WritesDiscard ==
  ASSUME Shaped, Reservations, Histories, Repairing, Cached, Precede, Discards, [Next]_vars
  PROVE  disk'.log = disk.log \/ entry' = NoEntry \/ (entry' = entry /\ ~ Read(entry))
<1> USE DEF sessions, storage
<1>0. TypeOK /\ disk \in Disks /\ disk.log \in Seq(Events)
  BY DEF Shaped, TypeOK, Disks
<1>1. CASE RepairEnds
  <2>0. chain # <<>> /\ 1 \in DOMAIN chain /\ stage = "repair"
    BY <1>0, <1>1, Busy, HeadFacts DEF RepairEnds
  <2>1. CASE chain[1].op = "created"
    BY <1>1, <2>1 DEF RepairEnds
  <2>2. CASE chain[1].op = "commit"
    <3> DEFINE c == chain[1].for
    <3>1. c \in Callers /\ entry' = DropEntry(caller[c].gen)
      BY <1>0, <1>1, <2>0, <2>2, HeadFacts DEF RepairEnds
    <3>2. entry.gen = caller[c].gen \/ entry = NoEntry \/ entry.phase = "loading"
      BY <2>0, <2>2 DEF Precede
    <3> QED BY <3>1, <3>2 DEF DropEntry, Read, NoEntry
  <2>3. CASE chain[1].op = "append"
    BY <1>1, <2>0, <2>3 DEF RepairEnds, Discards
  <2> QED BY <2>0, <2>1, <2>2, <2>3 DEF Repairing, Cold
<1>2. CASE WriteStored \/ Crash
  BY <1>2 DEF WriteStored, Crash
<1>3. CASE RepairTruncates \/ HeaderStored
  BY <1>0, <1>3 DEF RepairTruncates, HeaderStored, Disks
<1>4. CASE ~ (RepairTruncates \/ RepairEnds \/ WriteStored \/ HeaderStored \/ Crash)
  <2>1. UNCHANGED disk
    BY <1>4 DEF Next, vars, ChainStep, PrepareCore, Check, CommitThrows, CommitStale, CommitRepairs,
       Commit, AppendRefused, AppendAdopts, AppendWrites, Claims, Reclaims, Collides,
       AdoptsLivePrefix, RegistersNew, ReleaseOwner, HeaderDecides, CreateCore, Refusal, RepairFails,
       ReadFails, WriteRefused, HeaderRefused, CallStep, FindsLive, FindsCold, Reserve, Invalidated,
       Inspects, EndCall, RetireStep, StartWrite, RetireFails, RetireFlushed, Stop, Start, Evict,
       Begin, Abort, Publish, SetupAppends, Release, CreateSession, SessionAppends, Dispose,
       EnsureMaterialized, CreateCall, AppendCall
  <2> QED BY <2>1
<1> QED BY <1>1, <1>2, <1>3, <1>4

LEMMA FreeFacts ==
  ASSUME Shaped, FreeGenerations # {}
  PROVE  /\ \A c \in Callers : caller[c].gen # FreeGeneration
         /\ \A i \in DOMAIN chain : ~ (chain[i].op = "prepare" /\ chain[i].for = FreeGeneration)
BY GenerationFacts DEF FreeGenerations

LEMMA CachedStep ==
  ASSUME Shaped, Reservations, Reservations', Histories, Repairing, Cached, Precede, Discards,
         [Next]_vars
  PROVE  Cached'
<1> USE DEF sessions, storage
<1>0. /\ TypeOK /\ TypeOK' /\ entry \in EntryType /\ caller \in [Callers -> CallType]
      /\ EntryMoves /\ Calls /\ Calls' /\ ~ Read(NoEntry) /\ NoEntry.gen = 0
      /\ disk \in Disks
  BY TypeStep, EntryStep DEF Shaped, TypeOK, Reservations, Read, NoEntry
<1>1. ASSUME Read(entry') PROVE entry'.source.log = disk'.log
  <2>1. CASE ReadsEntry
    BY <1>0, <2>1 DEF ReadsEntry, PrepareCore, EntryType
  <2>2. CASE ~ ReadsEntry
    <3>1. Read(entry) /\ entry'.source = entry.source
      BY <1>0, <1>1, <2>2 DEF EntryMoves, TakesEntry, LoadsEntry, PassesEntry, Read, Holds,
         EntryType, NoEntry
    <3>2. disk'.log = disk.log
      BY <1>0, <1>1, <3>1, WritesDiscard
    <3> QED BY <3>1, <3>2 DEF Cached
  <2> QED BY <2>1, <2>2
<1>2. ~ Read(entry') /\ entry' # NoEntry => entry'.phase = "loading"
  BY <1>0 DEF EntryMoves, ReadsEntry, TakesEntry, LoadsEntry, PassesEntry, Read, Cached, EntryType,
     NoEntry
<1>3. ASSUME NEW c \in Callers, caller'[c].pc \in {"loaded", "checking", "committing"},
             entry'.gen = caller'[c].gen
      PROVE  Read(entry')
  <2>1. SUFFICES ASSUME ~ Read(entry') PROVE FALSE
    OBVIOUS
  <2>2. entry' # NoEntry
    BY <1>0, <1>3 DEF Calls, Holds
  <2>3. entry' = entry \/ \E d \in Callers : LoadsEntry(d)
    BY <1>0, <2>1, <2>2 DEF EntryMoves, ReadsEntry, TakesEntry, PassesEntry, Read, EntryType
  <2>4. caller[c] \in CallType
    BY <1>0
  <2>5. CASE FindsCold(c)
    <3>1. CASE entry # NoEntry /\ entry' = entry
      <4>1. caller'[c].pc = IF entry.phase = "loading" THEN "loading" ELSE "loaded"
        BY <1>0, <2>4, <2>5, <3>1 DEF FindsCold, CallType
      <4> QED BY <1>3, <2>1, <3>1, <4>1 DEF Cached
    <3>2. CASE ~ (entry # NoEntry /\ entry' = entry)
      <4>1. caller'[c].pc = "loading"
        BY <1>0, <2>4, <2>5, <3>2 DEF FindsCold, CallType
      <4> QED BY <1>3, <4>1
    <3> QED BY <3>1, <3>2
  <2>6. CASE ~ FindsCold(c) /\ ~ Loads(c)
    <3>1. /\ caller'[c].gen = caller[c].gen
          /\ caller[c].pc \in {"loaded", "checking", "committing"}
      <4>1. Moves(c)
        BY CallMoves
      <4>2. CASE Goes(c)
        BY <1>3, <2>4, <4>2 DEF Goes, CallType, NoCall
      <4>3. ~ (Retries(c) \/ Answers(c) \/ SetupAppends(c) \/ \E m \in Modes : Begin(c, m))
        <5>1. Retries(c) => caller'[c].pc = "retire"
          BY <2>4 DEF Retries, CallType
        <5>2. Answers(c) => caller'[c].pc \in {"returned", "reserved"}
          BY <2>4 DEF Answers, CallType
        <5>3. SetupAppends(c) => caller'[c].pc = "reserved"
          BY <1>0, <2>4 DEF SetupAppends, CallType
        <5>4. (\E m \in Modes : Begin(c, m)) => caller'[c].pc = "retire"
          BY <1>0 DEF Begin, NoCall
        <5> QED BY <1>3, <5>1, <5>2, <5>3, <5>4
      <4>4. CASE Reserve(c) \/ Inspects(c)
        BY <1>0, <1>3, <2>4, <4>4 DEF Reserve, Inspects, Loaded, HangUp, CallType, NoCall
      <4> QED BY <2>6, <4>1, <4>2, <4>3, <4>4 DEF Moves
    <3>2. CASE entry' = entry
      BY <1>3, <2>1, <3>1, <3>2 DEF Cached
    <3>3. CASE \E d \in Callers : LoadsEntry(d)
      <4>1. entry'.gen = FreeGeneration /\ FreeGenerations # {}
        BY <3>3 DEF LoadsEntry, NoEntry
      <4> QED BY <1>3, <3>1, <4>1, FreeFacts
    <3> QED BY <2>3, <3>2, <3>3
  <2>7. CASE Loads(c)
    <3>1. PrepareCore /\ caller'[c].gen = chain[1].for
      BY <2>4, <2>7 DEF Loads, CallType
    <3>2. CASE entry.gen = chain[1].for /\ entry' = entry
      <4>1. disk.exists /\ store = Nobody
        <5>1. caller' # LoadRejects(chain[1].for)
          <6>1. caller[c].gen = chain[1].for /\ NoCall.pc = "idle"
            BY <2>7 DEF Loads, NoCall
          <6>2. caller' = LoadRejects(chain[1].for) => caller'[c] = NoCall
            BY <6>1 DEF LoadRejects
          <6> QED BY <1>3, <6>1, <6>2
        <5> QED BY <3>1, <5>1 DEF PrepareCore
      <4>2. entry'.phase = "ready"
        BY <1>0, <3>1, <3>2, <4>1 DEF PrepareCore, EntryType
      <4> QED BY <2>1, <4>2 DEF Read
    <3>3. CASE \E d \in Callers : LoadsEntry(d)
      <4>1. entry'.gen = FreeGeneration /\ FreeGenerations # {}
        BY <3>3 DEF LoadsEntry, NoEntry
      <4>2. caller[c].gen = FreeGeneration
        BY <1>3, <2>7, <3>1, <4>1 DEF Loads
      <4> QED BY <4>1, <4>2, FreeFacts
    <3> QED BY <1>3, <2>3, <3>1, <3>2, <3>3
  <2> QED BY <2>5, <2>6, <2>7
<1> QED BY <1>1, <1>2, <1>3 DEF Cached, Read, NoEntry

LEMMA DiscardsStep ==
  ASSUME Shaped, Reservations, Histories, Cached, Discards, [Next]_vars
  PROVE  Discards'
<1> USE DEF sessions, storage
<1>0. EntryMoves /\ entry \in EntryType /\ Entries
  BY EntryStep DEF Shaped, TypeOK, Reservations
<1>1. SUFFICES ASSUME stage' = "repair", chain'[1].op = "append" PROVE ~ Read(entry')
  BY DEF Discards, Read
<1>2. CASE AppendAdopts
  BY <1>0, <1>2 DEF AppendAdopts, Writable, Ready, Read, EntryType, NoEntry
<1>3. CASE CommitRepairs \/ AdoptsLivePrefix \/ AppendWrites \/ HeaderDecides
  BY <1>1, <1>3 DEF CommitRepairs, AdoptsLivePrefix, AppendWrites, HeaderDecides, Finish, BindSeed,
     GoOn, AtHead, CreatedAtHead
<1>4. CASE stage = "repair" /\ chain[1].op = "append"
  <2>1. ~ Read(entry)
    BY <1>4 DEF Discards
  <2>2. ~ ReadsEntry /\ ~ PassesEntry /\ \A c \in Callers : ~ TakesEntry(c)
    BY <1>4, <2>1 DEF ReadsEntry, PrepareCore, AtHead, PassesEntry, TakesEntry, Holds, Read
  <2>3. (\E c \in Callers : LoadsEntry(c)) => entry'.phase = "loading"
    BY DEF LoadsEntry, NoEntry
  <2>4. entry' = entry \/ entry' = NoEntry \/ entry'.phase = "loading"
    BY <1>0, <2>2, <2>3 DEF EntryMoves
  <2> QED BY <2>1, <2>4 DEF Read, NoEntry
<1> QED BY <1>1, <1>2, <1>3, <1>4, HeadStays

\* A call whose commit stays on the chain keeps its preparation.
LEMMA CommittingKeeps ==
  ASSUME Shaped, Reservations, [Next]_vars, NEW c \in Callers, caller'[c].pc = "committing"
  PROVE  caller'[c].gen = caller[c].gen
<1> USE DEF sessions, storage
<1>0. caller[c] \in CallType /\ caller \in [Callers -> CallType]
  BY DEF Shaped, TypeOK
<1>1. CASE Goes(c)
  BY <1>0, <1>1 DEF Goes, CallType, NoCall
<1>2. CASE Reserve(c)
  BY <1>0, <1>2 DEF Reserve, CallType
<1>3. ~ (Retries(c) \/ Loads(c) \/ Answers(c) \/ FindsCold(c) \/ Inspects(c) \/ SetupAppends(c)
         \/ \E m \in Modes : Begin(c, m))
  <2>1. Retries(c) => caller'[c].pc = "retire"
    BY <1>0 DEF Retries, CallType
  <2>2. Loads(c) => caller'[c].pc = "loaded"
    BY <1>0 DEF Loads, CallType
  <2>3. Answers(c) => caller'[c].pc \in {"returned", "reserved"}
    BY <1>0 DEF Answers, CallType
  <2>4. FindsCold(c) => caller'[c].pc \in {"loading", "loaded"}
    BY <1>0 DEF FindsCold, CallType
  <2>5. Inspects(c) => caller'[c].pc \in {"checking", "idle"}
    BY <1>0 DEF Inspects, HangUp, CallType, NoCall
  <2>6. SetupAppends(c) => caller'[c].pc = "reserved"
    BY <1>0 DEF SetupAppends, CallType
  <2>7. (\E m \in Modes : Begin(c, m)) => caller'[c].pc = "retire"
    BY <1>0 DEF Begin, NoCall
  <2> QED BY <2>1, <2>2, <2>3, <2>4, <2>5, <2>6, <2>7
<1> QED BY <1>1, <1>2, <1>3, CallMoves DEF Moves

LEMMA PrecedeStep ==
  ASSUME Shaped, Reservations, Reservations', Cached, Precede, [Next]_vars
  PROVE  Precede'
<1> USE DEF sessions, storage
<1> DEFINE Paired == {"prepare", "commit"}
<1>0. /\ TypeOK /\ TypeOK' /\ entry \in EntryType /\ EntryMoves /\ Served /\ Served' /\ Entries
      /\ chain \in Seq(Operations) /\ NoEntry.phase = "none" /\ NoEntry.gen = 0
      /\ 0 \notin Generations
  BY TypeStep, EntryStep DEF Shaped, TypeOK, Reservations, NoEntry, Generations
<1> DEFINE Ahead(k) ==
      \/ entry'.gen = caller'[chain'[k].for].gen
      \/ entry' = NoEntry
      \/ /\ entry'.phase = "loading"
         /\ \A j \in DOMAIN chain' :
              (chain'[j].op = "prepare" /\ chain'[j].for = entry'.gen) => k < j
<1>1. SUFFICES ASSUME NEW i \in DOMAIN chain', chain'[i].op = "commit" PROVE Ahead(i)
  BY DEF Precede, NoEntry
<1> DEFINE c == chain'[i].for
<1>2. /\ c \in Callers /\ caller'[c].gen = caller[c].gen
      /\ DOMAIN chain' = 1 .. Len(chain') /\ Len(chain') \in Nat
  <2>1. chain' \in Seq(Operations)
    BY <1>0 DEF TypeOK
  <2>2. chain'[i] \in Operations
    BY <1>1, <2>1, ElementOfSeq, LenProperties
  <2>3. c \in Callers
    BY <1>1, <2>2, OpFacts
  <2>4. caller'[c].pc = "committing"
    BY <1>0, <1>1 DEF Served, Serves
  <2> QED BY <2>1, <2>3, <2>4, CommittingKeeps, LenProperties
<1> HIDE DEF c
<1>3. ASSUME NEW o, Serialize(o)
      PROVE  /\ DOMAIN chain' = 1 .. Len(chain) + 1 /\ DOMAIN chain = 1 .. Len(chain)
             /\ \A k \in DOMAIN chain : chain'[k] = chain[k]
             /\ chain'[Len(chain) + 1] = o /\ Len(chain) \in Nat
  <2>1. chain \in Seq(Operations \cup {o}) /\ o \in Operations \cup {o}
    BY <1>0
  <2> QED BY <1>3, <2>1, AppendFacts DEF Serialize
\* The read of a new preparation comes after every commit.
<1>4. CASE \E d \in Callers : LoadsEntry(d)
  <2>1. /\ Serialize(Op("prepare", FreeGeneration)) /\ FreeGenerations # {}
        /\ entry' = [NoEntry EXCEPT !.gen = FreeGeneration, !.phase = "loading"]
    BY <1>4 DEF LoadsEntry
  <2>2. entry'.phase = "loading" /\ entry'.gen = FreeGeneration
    BY <2>1 DEF NoEntry
  <2>3. i \in 1 .. Len(chain) /\ Len(chain) \in Nat
    BY <1>1, <1>3, <2>1, OpShape
  <2>4. ASSUME NEW j \in DOMAIN chain', chain'[j].op = "prepare", chain'[j].for = entry'.gen
        PROVE  i < j
    <3>1. j \notin DOMAIN chain
      BY <1>3, <2>1, <2>2, <2>4, FreeFacts
    <3> QED BY <1>3, <2>1, <2>3, <3>1
  <2> QED BY <2>2, <2>4
<1>5. ASSUME NEW d \in Callers, Reserve(d) PROVE Ahead(i)
  <2>1. /\ Serialize(Op("commit", d)) /\ entry.gen = caller[d].gen /\ entry.phase = "ready"
        /\ entry'.gen = entry.gen
    BY <1>0, <1>5 DEF Reserve, Ready, EntryType
  <2>2. CASE i \in DOMAIN chain
    <3>1. chain[i] = chain'[i]
      BY <1>3, <2>1, <2>2
    <3>2. entry.gen = caller[c].gen
      BY <1>0, <1>1, <2>1, <2>2, <3>1 DEF Precede, c
    <3> QED BY <1>2, <2>1, <3>2 DEF c
  <2>3. CASE i \notin DOMAIN chain
    <3>1. chain'[i] = Op("commit", d)
      BY <1>1, <1>3, <2>1, <2>3
    <3> QED BY <1>2, <2>1, <3>1, OpShape DEF c
  <2> QED BY <2>2, <2>3
<1>6. CASE (\A d \in Callers : ~ LoadsEntry(d)) /\ From(Paired, {})
  <2>1. ASSUME NEW k \in DOMAIN chain, chain'[i] = chain[k], entry.gen # caller[c].gen, entry # NoEntry
        PROVE  /\ entry.phase = "loading"
               /\ \A j \in DOMAIN chain :
                    (chain[j].op = "prepare" /\ chain[j].for = entry.gen) => k < j
    BY <1>1, <2>1 DEF Precede, c
  <2>2. PICK k \in DOMAIN chain : chain'[i] = chain[k]
    BY <1>1, <1>6 DEF From
  <2>3. CASE entry' = NoEntry
    BY <2>3
  <2>4. CASE entry.gen = caller[c].gen
    <3>1. entry' = NoEntry \/ entry'.gen = entry.gen
      BY <1>0, <1>6 DEF EntryMoves, ReadsEntry, TakesEntry, PassesEntry, EntryType
    <3> QED BY <1>2, <2>4, <3>1 DEF c
  <2>5. CASE entry.gen # caller[c].gen /\ entry = NoEntry
    <3>1. ~ ReadsEntry
      <4>1. ReadsEntry => chain # <<>> /\ chain[1].op = "prepare" /\ entry.gen = chain[1].for
        BY DEF ReadsEntry, PrepareCore, AtHead
      <4> QED BY <1>0, <2>5, <4>1, HeadFacts
    <3>2. entry' = NoEntry
      BY <1>0, <1>6, <2>5, <3>1 DEF EntryMoves, TakesEntry, PassesEntry, Holds
    <3> QED BY <3>2
  <2>6. CASE entry.gen # caller[c].gen /\ entry # NoEntry /\ entry' # NoEntry
    <3>1. entry.phase = "loading"
      BY <2>1, <2>2, <2>6
    <3>2. ~ ReadsEntry
      <4>1. ReadsEntry => /\ chain # <<>> /\ chain[1].op = "prepare" /\ entry.gen = chain[1].for
        BY DEF ReadsEntry, PrepareCore, AtHead
      <4>2. chain # <<>> => 1 \in DOMAIN chain /\ k \in Nat \ {0}
        BY <1>0, HeadFacts, LenProperties
      <4>3. ~ (k < 1)
        BY <1>0, LenProperties
      <4> QED BY <2>1, <2>2, <2>6, <4>1, <4>2, <4>3
    <3>3. entry' = entry
      BY <1>0, <1>6, <2>6, <3>1, <3>2 DEF EntryMoves, TakesEntry, PassesEntry, Holds
    <3>4. ASSUME NEW j \in DOMAIN chain', chain'[j].op = "prepare", chain'[j].for = entry'.gen
          PROVE  i < j
      <4>1. PICK m \in DOMAIN chain, n \in DOMAIN chain :
              chain'[j] = chain[m] /\ chain'[i] = chain[n] /\ (j < i => m < n)
        BY <1>1, <1>6, <3>4 DEF From
      <4>2. n < m
        BY <2>1, <2>6, <3>3, <3>4, <4>1
      <4>3. i # j /\ i \in Nat /\ j \in Nat /\ m \in Nat /\ n \in Nat
        BY <1>0, <1>1, <1>2, <3>4, LenProperties
      <4> QED BY <4>1, <4>2, <4>3
    <3> QED BY <3>1, <3>3, <3>4
  <2> QED BY <2>3, <2>4, <2>5, <2>6
<1>7. CASE AppendCall
  <2>1. PICK o : Serialize(o) /\ o.op = "append" /\ UNCHANGED entry
    BY <1>7 DEF AppendCall
  <2>2. From(Paired, {}) /\ \A d \in Callers : ~ LoadsEntry(d)
    BY <1>0, <2>1, FromGained DEF LoadsEntry, NoEntry
  <2> QED BY <1>6, <2>2
<1>8. ASSUME NEW d \in Callers, FindsCold(d), Serialize(Op("prepare", FreeGeneration)) PROVE LoadsEntry(d)
  <2>1. chain' # chain
    BY <1>3, <1>8
  <2> QED BY <1>8, <2>1 DEF FindsCold, LoadsEntry
<1>9. Paired \in SUBSET {"prepare", "commit", "append"}
  OBVIOUS
<1> QED BY <1>4, <1>5, <1>6, <1>7, <1>8, <1>9, ChainMoves

-----------------------------------------------------------------------------
(* What becomes of a session's controller *)

\* Its retirement and its initialization stay as they are, or end.
Stands(s) ==
  /\ live'[s].on = live[s].on /\ live'[s].retiring = live[s].retiring
  /\ live'[s].init = live[s].init \/ (live'[s].init = "ok" => state'.owner = s)
Drains(s) ==
  /\ live'[s].on = live[s].on /\ live'[s].init = live[s].init
  /\ live[s].retiring = "flushing"
  /\ \/ live'[s].retiring = "releasing"
     \/ live'[s].retiring = "failed" /\ retirement' = Forget(s)
Released(s) ==
  /\ ReleaseOwner /\ chain[1].for = s
  /\ ~ live'[s].on /\ retirement' = Forget(s)
Disposes(s) ==
  /\ Dispose /\ running /\ store = s
  /\ live'[s].on = live[s].on /\ live'[s].init = live[s].init
  /\ live'[s].retiring = "flushing"
Arrives(s) ==
  /\ life[s] = "unborn" /\ store' = s
  /\ live'[s].on /\ (live'[s].init = "ok" => state'.owner = s)
LiveMoves(s) == Stands(s) \/ Drains(s) \/ Released(s) \/ Disposes(s) \/ Arrives(s)

LEMMA SettledMoves ==
  ASSUME Shaped, chain # <<>>, NEW ok \in BOOLEAN, live' = Settled(ok), NEW s \in Sessions,
         ok /\ chain[1].op \in InitOps => state'.owner = chain[1].for
  PROVE  Stands(s)
<1>1. CASE chain[1].op \in InitOps /\ chain[1].for = s
  BY <1>1, SettledFacts DEF Stands, Shaped
<1>2. CASE ~ (chain[1].op \in InitOps /\ chain[1].for = s)
  BY <1>2, SettledFacts DEF Stands, Shaped
<1> QED BY <1>1, <1>2

LEMMA LiveStep ==
  ASSUME Shaped, Histories, [Next]_vars, ~ Start, ~ Crash, NEW s \in Sessions
  PROVE  LiveMoves(s)
<1> USE DEF sessions, storage
<1>0. /\ TypeOK /\ live \in [Sessions -> LiveType] /\ live[s] \in LiveType /\ Queue
      /\ s # Nobody /\ state \in StateType
  BY SessionFacts, Ids DEF Shaped, Histories, TypeOK
<1>1. ASSUME UNCHANGED live PROVE LiveMoves(s)
  BY <1>1 DEF LiveMoves, Stands
<1>2. CASE AppendRefused \/ WriteRefused \/ RepairFails \/ ReadFails \/ Collides
  <2>1. chain # <<>>
    BY <1>0, <1>2, Busy DEF AppendRefused, AppendAtHead, WriteRefused, RepairFails, ReadFails,
       Collides, CreatedAtHead, AtHead
  <2>2. live' = Settled(FALSE) \/ UNCHANGED live
    BY <1>2 DEF AppendRefused, WriteRefused, RepairFails, ReadFails, Collides
  <2> QED BY <1>1, <2>1, <2>2, SettledMoves DEF LiveMoves
<1>3. CASE WriteStored
  <2>1. chain # <<>> /\ live' = Settled(TRUE) /\ state'.owner = state.owner
    BY <1>0, <1>3, Busy DEF WriteStored, StateType
  <2>2. chain[1].op \in InitOps => state.owner = chain[1].for
    <3>1. chain[1].op \in Appends
      BY <1>3 DEF WriteStored, Histories, Writing
    <3> QED BY <2>1, <3>1, OwnedQueue DEF InitOps, Appends
  <2> QED BY <2>1, <2>2, SettledMoves DEF LiveMoves
<1>4. CASE Claims \/ AdoptsLivePrefix \/ RegistersNew
  <2>1. chain # <<>>
    BY <1>4 DEF Claims, AdoptsLivePrefix, RegistersNew, CreatedAtHead, AtHead
  <2>2. Claims => state'.owner = chain[1].for
    BY <1>0 DEF Claims, StateType
  <2>3. RegistersNew => state'.owner = chain[1].for
    BY DEF RegistersNew, Tracked
  <2>4. AdoptsLivePrefix => UNCHANGED live \/ state'.owner = chain[1].for
    BY DEF AdoptsLivePrefix, Tracked
  <2>5. UNCHANGED live \/ live' = Settled(TRUE)
    BY <1>4 DEF Claims, AdoptsLivePrefix, RegistersNew, BindSeed
  <2> QED BY <1>1, <1>4, <2>1, <2>2, <2>3, <2>4, <2>5, SettledMoves DEF LiveMoves
<1>5. CASE ReleaseOwner
  <2>1. CASE chain[1].for = s
    BY <1>0, <1>5, <2>1 DEF ReleaseOwner, LiveMoves, Released, NoLive
  <2>2. CASE chain[1].for # s
    <3>1. live'[s] = live[s]
      BY <1>0, <1>5, <2>2 DEF ReleaseOwner
    <3> QED BY <3>1 DEF LiveMoves, Stands
  <2> QED BY <2>1, <2>2
<1>6. CASE \E t \in Sessions : RetireStep(t)
  <2>1. PICK t \in Sessions : RetireStep(t)
    BY <1>6
  <2>2. CASE StartWrite(t)
    <3>1. /\ live'[s].on = live[s].on /\ live'[s].retiring = live[s].retiring
          /\ live'[s].init = live[s].init
      BY <1>0, <2>2 DEF StartWrite, LiveType
    <3> QED BY <3>1 DEF LiveMoves, Stands
  <2>3. CASE RetireFails(t) \/ RetireFlushed(t)
    <3>1. CASE t = s
      BY <1>0, <2>3, <3>1 DEF RetireFails, RetireFlushed, LiveMoves, Drains, LiveType
    <3>2. CASE t # s
      <4>1. live'[s] = live[s]
        BY <1>0, <2>3, <3>2 DEF RetireFails, RetireFlushed
      <4> QED BY <4>1 DEF LiveMoves, Stands
    <3> QED BY <3>1, <3>2
  <2> QED BY <2>1, <2>2, <2>3 DEF RetireStep
<1>7. CASE (\E replay \in BOOLEAN : CreateSession(replay)) \/ \E c \in Callers : Publish(c)
  <2>1. PICK b \in Sessions : b = Newborn /\ life[b] = "unborn"
    BY <1>7, NewbornFacts DEF CreateSession, Publish
  <2>2. CASE b # s
    <3>1. live'[s] = live[s]
      BY <1>0, <1>7, <2>1, <2>2 DEF CreateSession, Publish
    <3> QED BY <3>1 DEF LiveMoves, Stands
  <2>3. CASE b = s
    <3>1. CASE \E c \in Callers : Publish(c)
      <4>1. store' = s /\ state'.owner = s
        BY <1>0, <2>1, <2>3, <3>1 DEF Publish, Enters, StateType
      <4>2. \E i : live' = [live EXCEPT ![s] = [NoLive EXCEPT !.on = TRUE, !.init = i]]
        <5>1. PICK c \in Callers : Publish(c)
          BY <3>1
        <5> DEFINE h == Marked(caller[c].view, Newborn) \o caller[c].extra
                   i == IF SubSeq(h, state.cursor + 1, Len(h)) = <<>> THEN "ok" ELSE "pending"
        <5>2. live' = [live EXCEPT ![Newborn] = [NoLive EXCEPT !.on = TRUE, !.init = i]]
          BY <5>1 DEF Publish
        <5> HIDE DEF i
        <5> QED BY <2>1, <2>3, <5>2
      <4>3. live'[s].on
        BY <1>0, <4>2 DEF NoLive
      <4> QED BY <2>1, <2>3, <4>1, <4>3 DEF LiveMoves, Arrives
    <3>2. CASE \E replay \in BOOLEAN : CreateSession(replay)
      <4>1. CASE running
        <5>1. store' = s
          BY <2>1, <2>3, <3>2 DEF CreateSession, Enters
        <5>2. \E n : live' = [live EXCEPT ![s] = [NoLive EXCEPT
                               !.on = TRUE, !.init = "pending", !.seed = n]]
          BY <2>1, <2>3, <3>2, <4>1 DEF CreateSession
        <5>3. live'[s].on /\ live'[s].init = "pending"
          BY <1>0, <5>2 DEF NoLive
        <5> QED BY <2>1, <2>3, <5>1, <5>3 DEF LiveMoves, Arrives
      <4>2. CASE ~ running
        <5>1. UNCHANGED live
          BY <3>2, <4>2 DEF CreateSession
        <5> QED BY <1>1, <5>1
      <4> QED BY <4>1, <4>2
    <3> QED BY <1>7, <3>1, <3>2
  <2> QED BY <2>2, <2>3
<1>8. CASE SessionAppends \/ Stop
  <2>1. /\ live'[s].on = live[s].on /\ live'[s].retiring = live[s].retiring
        /\ live'[s].init = live[s].init
    <3>1. CASE SessionAppends
      BY <1>0, <3>1 DEF SessionAppends, LiveType
    <3>2. CASE Stop
      <4>1. \E f : live'[s] = [live[s] EXCEPT !.flush = f]
        BY <1>0, <3>2 DEF Stop
      <4> QED BY <1>0, <4>1 DEF LiveType
    <3> QED BY <1>8, <3>1, <3>2
  <2> QED BY <2>1 DEF LiveMoves, Stands
<1>9. CASE Dispose
  <2>1. CASE running /\ store = s
    BY <1>0, <1>9, <2>1 DEF Dispose, LiveMoves, Disposes, LiveType
  <2>2. CASE ~ (running /\ store = s)
    <3>1. live'[s] = live[s]
      BY <1>0, <1>9, <2>2 DEF Dispose
    <3> QED BY <3>1 DEF LiveMoves, Stands
  <2> QED BY <2>1, <2>2
<1>10. CASE ~ (\/ AppendRefused \/ WriteRefused \/ RepairFails \/ ReadFails \/ Collides \/ WriteStored
               \/ Claims \/ AdoptsLivePrefix \/ RegistersNew \/ ReleaseOwner
               \/ (\E t \in Sessions : RetireStep(t)) \/ (\E replay \in BOOLEAN : CreateSession(replay))
               \/ (\E c \in Callers : Publish(c)) \/ SessionAppends \/ Stop \/ Dispose)
  <2>1. UNCHANGED live
    BY <1>10 DEF Next, vars, ChainStep, PrepareCore, Check, CommitThrows, CommitStale, CommitRepairs,
       Commit, RepairTruncates, RepairEnds, AppendAdopts, AppendWrites, Reclaims, HeaderDecides,
       HeaderStored, CreateCore, Refusal, HeaderRefused, CallStep, FindsLive, FindsCold, Reserve,
       Invalidated, Inspects, EndCall, Evict, Begin, Abort, SetupAppends, Release,
       EnsureMaterialized, CreateCall, AppendCall
  <2> QED BY <1>1, <2>1
<1> QED BY <1>2, <1>3, <1>4, <1>5, <1>6, <1>7, <1>8, <1>9, <1>10

\* What a session that is over has in its history stays until it is released.
LEMMA OverKeeps ==
  ASSUME Shaped, [Next]_vars, ~ Start, ~ Crash, NEW s \in Sessions, life[s] = "over"
  PROVE  hist'[s] = hist[s] \/ (ReleaseOwner /\ chain[1].for = s)
<1> USE DEF sessions, storage
<1>0. hist \in [Sessions -> Seq(Events)] /\ store # s
  BY SessionFacts DEF Shaped, TypeOK
<1>1. CASE (\E replay \in BOOLEAN : CreateSession(replay)) \/ \E c \in Callers : Publish(c)
  <2>1. PICK b \in Sessions : b = Newborn /\ life[b] = "unborn"
    BY <1>1, NewbornFacts DEF CreateSession, Publish
  <2> QED BY <1>0, <1>1, <2>1 DEF CreateSession, Publish, Enters
<1>2. CASE SessionAppends \/ ReleaseOwner
  BY <1>0, <1>2 DEF SessionAppends, ReleaseOwner
<1>3. CASE ~ (\/ (\E replay \in BOOLEAN : CreateSession(replay)) \/ (\E c \in Callers : Publish(c))
              \/ SessionAppends \/ ReleaseOwner)
  <2>1. UNCHANGED hist
    BY <1>3 DEF Next, vars, ChainStep, PrepareCore, Check, CommitThrows, CommitStale, CommitRepairs,
       Commit, RepairTruncates, RepairEnds, AppendRefused, AppendAdopts, AppendWrites, WriteStored,
       Claims, Reclaims, Collides, AdoptsLivePrefix, RegistersNew, HeaderDecides, HeaderStored,
       CreateCore, Refusal, RepairFails, ReadFails, WriteRefused, HeaderRefused, CallStep, FindsLive,
       FindsCold, Reserve, Invalidated, Inspects, EndCall, RetireStep, StartWrite, RetireFails,
       RetireFlushed, Stop, Evict, Begin, Abort, SetupAppends, Release, Dispose,
       EnsureMaterialized, CreateCall, AppendCall
  <2> QED BY <2>1
<1> QED BY <1>1, <1>2, <1>3

LEMMA RetirementStep ==
  ASSUME [Next]_vars
  PROVE  \/ retirement' \in {retirement, Nobody}
         \/ Dispose /\ running /\ retirement' = store
<1> USE DEF sessions, storage
<1>1. CASE Dispose
  BY <1>1 DEF Dispose
<1>2. CASE ReleaseOwner \/ Start \/ Crash \/ \E s \in Sessions : RetireStep(s)
  BY <1>2 DEF ReleaseOwner, Start, Crash, RetireStep, StartWrite, RetireFails, RetireFlushed, Forget
<1>3. CASE ~ (Dispose \/ ReleaseOwner \/ Start \/ Crash \/ \E s \in Sessions : RetireStep(s))
  <2>1. UNCHANGED retirement
    BY <1>3 DEF Next, vars, ChainStep, PrepareCore, Check, CommitThrows, CommitStale, CommitRepairs,
       Commit, RepairTruncates, RepairEnds, AppendRefused, AppendAdopts, AppendWrites, WriteStored,
       Claims, Reclaims, Collides, AdoptsLivePrefix, RegistersNew, HeaderDecides, HeaderStored,
       CreateCore, Refusal, RepairFails, ReadFails, WriteRefused, HeaderRefused, CallStep, FindsLive,
       FindsCold, Reserve, Invalidated, Inspects, EndCall, Stop, Evict, Begin, Abort, Publish,
       SetupAppends, Release, CreateSession, SessionAppends, EnsureMaterialized, CreateCall,
       AppendCall
  <2> QED BY <2>1
<1> QED BY <1>1, <1>2, <1>3

\* The log of a drained session holds its history.
LEMMA DrainedIsStored ==
  ASSUME Shaped, Histories, Stored, running, NEW s \in Sessions,
         live[s].on, live[s].init = "ok", live[s].queue = <<>>
  PROVE  IsPrefix(hist[s], disk.log)
<1>1. CASE state.owner # s
  BY <1>1 DEF Stored
<1>2. CASE state.owner = s
  <2>1. hist[s] \in Seq(Events) /\ disk.log \in Seq(Events) /\ Len(hist[s]) \in Nat
    BY SessionFacts DEF Shaped, TypeOK, Disks
  <2>2. IsPrefix(disk.log, hist[s]) /\ Len(disk.log) = Base(s) /\ Len(live[s].queue) = 0
    BY <1>2, EmptySeq DEF Histories, Owners, Owner
  <2>3. Len(disk.log) = Len(hist[s])
    BY <2>1, <2>2 DEF Base
  <2>4. \A p, q \in Seq(Events) :
          IsPrefix(p, q) <=> (Len(p) <= Len(q) /\ \A j \in 1 .. Len(p) : p[j] = q[j])
    BY PrefixFacts
  <2>5. \A j \in 1 .. Len(disk.log) : disk.log[j] = hist[s][j]
    BY <2>1, <2>2, <2>4
  <2> QED BY <2>1, <2>3, <2>4, <2>5
<1> QED BY <1>1, <1>2

-----------------------------------------------------------------------------
(* What a call must answer with *)

LEMMA LogKept ==
  ASSUME Shaped, Histories, [Next]_vars
  PROVE  /\ disk.log \in Seq(Events) /\ disk'.log \in Seq(Events) /\ IsPrefix(disk.log, disk'.log)
         /\ \A p \in Seq(Events) : IsPrefix(p, disk.log) => IsPrefix(p, disk'.log)
<1>1. TypeOK /\ TypeOK' /\ Unstored
  BY TypeStep DEF Shaped, Histories, Cursors, Unstored, Absent
<1>2. disk.log \in Seq(Events) /\ disk'.log \in Seq(Events) /\ IsPrefix(disk.log, disk'.log)
  BY <1>1, LogStep DEF TypeOK, Disks
<1>3. \A p, q, r \in Seq(Events) : IsPrefix(p, q) /\ IsPrefix(q, r) => IsPrefix(p, r)
  BY PrefixTrans
<1> QED BY <1>2, <1>3

LEMMA RunsOn ==
  ASSUME [Next]_vars, ~ Start, ~ Crash, running'
  PROVE  running
<1> USE DEF sessions, storage
<1>1. running' = running
  BY DEF Next, vars, ChainStep, PrepareCore, Check, CommitThrows, CommitStale,
     CommitRepairs, Commit, RepairTruncates, RepairEnds, AppendRefused, AppendAdopts, AppendWrites,
     WriteStored, Claims, Reclaims, Collides, AdoptsLivePrefix, RegistersNew, ReleaseOwner,
     HeaderDecides, HeaderStored, CreateCore, Refusal, RepairFails, ReadFails, WriteRefused,
     HeaderRefused, CallStep, FindsLive, FindsCold, Reserve, Invalidated, Inspects, EndCall,
     RetireStep, StartWrite, RetireFails, RetireFlushed, Stop, Evict, Begin, Abort, Publish,
     SetupAppends, Release, CreateSession, SessionAppends, Dispose, EnsureMaterialized, CreateCall,
     AppendCall
<1> QED BY <1>1

LEMMA StoredStep ==
  ASSUME Shaped, Histories, Stored, [Next]_vars
  PROVE  Stored'
<1> USE DEF sessions, storage
<1>1. SUFFICES ASSUME NEW s \in Sessions, running', live'[s].on, live'[s].init = "ok",
                      state'.owner # s
               PROVE  IsPrefix(hist'[s], disk'.log)
  BY DEF Stored
<1>2. ~ Start /\ ~ Crash
  <2>1. Start => live'[s].init \in {"pending", "none"}
    <3>1. CASE s = store
      BY <3>1 DEF Start, NoLive
    <3>2. CASE s # store
      <4>1. Start => live'[s] = NoLive
        BY <3>2 DEF Start
      <4> QED BY <4>1 DEF NoLive
    <3> QED BY <3>1, <3>2
  <2>2. Crash => live'[s].init = "none"
    BY DEF Crash, NoLive
  <2> QED BY <1>1, <2>1, <2>2
<1>3. running
  BY <1>1, <1>2, RunsOn
<1>4. live[s].on /\ live[s].init = "ok" /\ ~ (ReleaseOwner /\ chain[1].for = s)
  <2>1. LiveMoves(s) /\ live \in [Sessions -> LiveType]
    BY <1>2, LiveStep, SessionFacts
  <2>2. live[s].on /\ live[s].init = "ok"
    BY <1>1, <2>1 DEF LiveMoves, Stands, Drains, Released, Disposes, Arrives
  <2>3. ReleaseOwner /\ chain[1].for = s => ~ live'[s].on
    BY <2>1 DEF ReleaseOwner, NoLive
  <2> QED BY <1>1, <2>2, <2>3
<1>5. hist[s] \in Seq(Events)
  BY SessionFacts
<1>6. CASE state.owner # s
  <2>1. life[s] = "over"
    BY <1>4, <1>6 DEF Histories, Owners, Owner
  <2>2. hist'[s] = hist[s]
    BY <1>2, <1>4, <2>1, OverKeeps
  <2>3. IsPrefix(hist[s], disk.log)
    BY <1>3, <1>4, <1>6 DEF Stored
  <2> QED BY <1>5, <2>2, <2>3, LogKept
<1>7. CASE state.owner = s
  <2>1. Reclaims
    BY <1>1, <1>2, <1>4, <1>7, OwnerKept
  <2>2. live[s].queue = <<>> /\ hist'[s] = hist[s] /\ disk' = disk
    BY <1>4, <1>7, <2>1 DEF Reclaims, Abandoned
  <2> QED BY <1>3, <1>4, <2>2, DrainedIsStored
<1> QED BY <1>6, <1>7

LEMMA WatchingStep ==
  ASSUME Shaped, Histories, Watching, [Next]_vars
  PROVE  Watching'
<1> USE DEF sessions, storage
<1>0. TypeOK /\ live \in [Sessions -> LiveType] /\ store \in Sessions \cup {Nobody}
  BY DEF Shaped, TypeOK
<1>1. SUFFICES ASSUME running', store' # Nobody PROVE live'[store'].on
  BY DEF Watching
<1>2. CASE Start
  BY <1>0, <1>1, <1>2 DEF Start, NoLive
<1>3. ~ Crash
  BY <1>1 DEF Crash
<1>4. CASE (\E replay \in BOOLEAN : CreateSession(replay)) \/ \E c \in Callers : Publish(c)
  <2>1. PICK b \in Sessions : b = Newborn
    BY <1>4, NewbornFacts DEF CreateSession, Publish
  <2>2. store' = b /\ running
    BY <1>1, <1>4, <2>1 DEF CreateSession, Publish, Enters
  <2>3. live'[b].on
    <3>1. CASE \E replay \in BOOLEAN : CreateSession(replay)
      <4>1. \E n : live' = [live EXCEPT ![b] = [NoLive EXCEPT
                             !.on = TRUE, !.init = "pending", !.seed = n]]
        BY <2>1, <2>2, <3>1 DEF CreateSession
      <4> QED BY <1>0, <2>1, <4>1 DEF NoLive
    <3>2. CASE \E c \in Callers : Publish(c)
      <4>1. PICK c \in Callers : Publish(c)
        BY <3>2
      <4> DEFINE h == Marked(caller[c].view, Newborn) \o caller[c].extra
                 i == IF SubSeq(h, state.cursor + 1, Len(h)) = <<>> THEN "ok" ELSE "pending"
      <4>2. live' = [live EXCEPT ![Newborn] = [NoLive EXCEPT !.on = TRUE, !.init = i]]
        BY <4>1 DEF Publish
      <4> HIDE DEF i
      <4> QED BY <1>0, <2>1, <4>2 DEF NoLive
    <3> QED BY <1>4, <3>1, <3>2
  <2> QED BY <2>2, <2>3
<1>5. CASE ~ (Start \/ (\E replay \in BOOLEAN : CreateSession(replay)) \/ \E c \in Callers : Publish(c))
  <2>1. store' = store /\ store \in Sessions
    BY <1>0, <1>1, <1>5, StoreStays
  <2>2. live[store].on /\ life[store] = "live"
    <3>1. running
      BY <1>1, <1>3, <1>5, RunsOn
    <3> QED BY <1>1, <2>1, <3>1, SessionFacts DEF Watching
  <2>3. LiveMoves(store)
    BY <1>3, <1>5, <2>1, LiveStep
  <2>4. ~ Released(store)
    BY <2>2, ReleasedIsOver DEF Released
  <2> QED BY <2>1, <2>2, <2>3, <2>4 DEF LiveMoves, Stands, Drains, Disposes, Arrives
<1> QED BY <1>2, <1>4, <1>5

LEMMA RetiringStep ==
  ASSUME Shaped, Histories, Watching, Retiring, [Next]_vars
  PROVE  Retiring'
<1> USE DEF sessions, storage
<1>0. TypeOK /\ live \in [Sessions -> LiveType] /\ store \in Sessions \cup {Nobody}
      /\ retirement \in Sessions \cup {Nobody}
  BY DEF Shaped, TypeOK
<1>1. SUFFICES ASSUME retirement' # Nobody
               PROVE  live'[retirement'].on /\ live'[retirement'].retiring \in {"flushing", "releasing"}
  BY DEF Retiring, Draining
<1>2. ~ Start /\ ~ Crash
  BY <1>1 DEF Start, Crash
<1>3. CASE Dispose /\ running /\ retirement' = store
  <2>1. /\ store \in Sessions /\ live[store] \in LiveType /\ live[store].on
        /\ live' = [live EXCEPT ![store].retiring = "flushing"]
    BY <1>0, <1>1, <1>3 DEF Dispose, Watching
  <2>2. live'[store] = [live[store] EXCEPT !.retiring = "flushing"]
    BY <1>0, <2>1
  <2> QED BY <1>3, <2>1, <2>2 DEF LiveType
<1>4. CASE retirement' = retirement
  <2>1. retirement \in Sessions /\ Draining(retirement) /\ LiveMoves(retirement)
    BY <1>0, <1>1, <1>2, <1>4, LiveStep DEF Retiring
  <2>2. retirement' # Forget(retirement)
    BY <1>1, <1>4 DEF Forget
  <2>3. life[retirement] # "unborn"
    BY <2>1, SessionFacts DEF Draining, NoLive
  <2> QED
    BY <1>4, <2>1, <2>2, <2>3
       DEF LiveMoves, Draining, Stands, Drains, Released, Disposes, Arrives
<1> QED BY <1>1, <1>3, <1>4, RetirementStep

-----------------------------------------------------------------------------
(* How the sessions of the id follow one another *)

Ended(s) == live[s].retiring \in {"failed", "released"}

\* What was refused is still held, and a drain that failed was refused ...
Refusing ==
  \A s \in Sessions :
    /\ running /\ live[s].flush = "refused" => live[s].queue # <<>> /\ live[s].writing = 0
    /\ running /\ live[s].retiring = "failed" => Refused(s)
\* ... a session that is not registered yet has that queued ...
Initializing ==
  \A s \in Sessions : running /\ live[s].on =>
    /\ live[s].init # "none"
    /\ live[s].init = "pending" =>
         \E k \in DOMAIN chain : chain[k].op \in InitOps /\ chain[k].for = s
\* ... and no later session is refused, or has ended, before its turn came ...
InTurn ==
  \A k \in DOMAIN chain : running /\ chain[k].op = "created" =>
    \A t \in Sessions : t > chain[k].for =>
      /\ ~ Refused(t) /\ ~ Ended(t)
      /\ \A j \in DOMAIN chain : chain[j].op \in Watched /\ chain[j].for = t => k < j
\* ... a disposed session that drains is the one whose retirement is noted,
\* unless a later one took its place, or took it and ended ...
Noted ==
  \A s \in Sessions : running /\ life[s] = "over" /\ live[s].on =>
    retirement >= s \/ \E t \in Sessions : t >= s /\ Ended(t)
\* ... and once it has ended nobody refers to its history.
Ends ==
  \A s \in Sessions : running /\ life[s] = "over" =>
    IF live[s].on THEN live[s].retiring \in {"flushing", "releasing", "failed"}
    ELSE hist[s] = <<>>
\* The lifecycles of the id follow one another.
Succession == \A s, t \in Sessions : s < t /\ life[t] # "unborn" => life[s] = "over"
Titled == stage = "header" => chain[1].op = "header"

Ranks == Refusing /\ Initializing /\ InTurn /\ Noted /\ Ends /\ Succession /\ Titled

\* What an outcome makes of a flush that awaits it.
LEMMA SettledFlush ==
  ASSUME TypeOK, chain # <<>>, NEW ok \in BOOLEAN, NEW s \in Sessions
  PROVE  Settled(ok)[s].flush =
           IF chain[1].op = "write" /\ chain[1].for = s /\ live[s].flush = "writing"
           THEN IF ok THEN "none" ELSE "refused" ELSE live[s].flush
<1>1. live \in [Sessions -> LiveType] /\ live[s] \in LiveType
  BY DEF TypeOK
<1>2. CASE chain[1].op \in InitOps
  <2>1. Settled(ok) = [live EXCEPT ![chain[1].for].init = IF ok THEN "ok" ELSE "failed"]
        /\ chain[1].op # "write"
    BY <1>2 DEF Settled, InitOps
  <2> QED BY <1>1, <2>1 DEF LiveType
<1>3. CASE chain[1].op = "write"
  <2> DEFINE t == chain[1].for
             q == IF ok THEN SubSeq(live[t].queue, live[t].writing + 1, Len(live[t].queue))
                        ELSE live[t].queue
             f == IF live[t].flush # "writing" THEN live[t].flush
                  ELSE IF ok THEN "none" ELSE "refused"
             m == [live[t] EXCEPT !.queue = q, !.writing = 0, !.flush = f]
  <2>1. t \in Sessions /\ live[t] \in LiveType
    BY <1>1, <1>3, HeadFacts DEF SessionOps
  <2>2. Settled(ok) = [live EXCEPT ![t] = m]
    BY <1>1, <1>3, <2>1 DEF Settled, InitOps
  <2> HIDE DEF q, f
  <2>3. m.flush = f
    BY <2>1 DEF LiveType
  <2> HIDE DEF m, t
  <2>4. s = t => Settled(ok)[s].flush = f
    BY <1>1, <2>1, <2>2, <2>3
  <2>5. s # t => Settled(ok)[s] = live[s]
    BY <1>1, <2>2
  <2> QED BY <1>3, <2>4, <2>5 DEF f, t
<1>4. CASE chain[1].op \notin InitOps /\ chain[1].op # "write"
  BY <1>4 DEF Settled, InitOps
<1> QED BY <1>2, <1>3, <1>4

\* What a step makes of a session's controller, in full.
Outcome == chain # <<>> /\ Finish /\ \E ok \in BOOLEAN : live' = Settled(ok)
HandsOver(s) ==
  /\ StartWrite(s)
  /\ \E f \in {"writing", "none"} :
       live'[s] = [live[s] EXCEPT !.writing = Len(live[s].queue), !.flush = f]
Fails(s) ==
  RetireFails(s) /\ live'[s] = [live[s] EXCEPT !.retiring = "failed"]
Flushed(s) ==
  RetireFlushed(s) /\ live'[s] = [live[s] EXCEPT !.retiring = "releasing"]
LetsGo(s) ==
  ReleaseOwner /\ chain[1].for = s /\ live'[s] = [NoLive EXCEPT !.retiring = "released"]
Retires(s) ==
  Dispose /\ running /\ store = s /\ live'[s] = [live[s] EXCEPT !.retiring = "flushing"]
Born(s) ==
  /\ life[s] = "unborn" /\ live'[s].on
  /\ live'[s].flush = "none" /\ live'[s].retiring = "no" /\ live'[s].init \in {"ok", "pending"}
  /\ live'[s].init = "pending" =>
       \E o \in Operations : o.op \in InitOps /\ o.for = s /\ Serialize(o)
Grows(s) ==
  store = s /\ \E n \in Nat : live'[s] = [live[s] EXCEPT !.queue = Append(live[s].queue, n)]
Changes(s) ==
  \/ live'[s] = live[s] \/ Outcome
  \/ HandsOver(s) \/ Fails(s) \/ Flushed(s) \/ LetsGo(s) \/ Retires(s) \/ Born(s) \/ Grows(s)

LEMMA BornFacts ==
  ASSUME Shaped, [Next]_vars, NEW s \in Sessions, running,
         \/ \E replay \in BOOLEAN : CreateSession(replay)
         \/ \E c \in Callers : Publish(c),
         s = Newborn
  PROVE  Born(s)
<1>0. TypeOK /\ live \in [Sessions -> LiveType] /\ life[s] = "unborn"
  BY NewbornFacts DEF Shaped, TypeOK, CreateSession, Publish
<1>1. ASSUME NEW replay \in BOOLEAN, CreateSession(replay) PROVE Born(s)
  <2>1. (\E n : live' = [live EXCEPT ![s] = [NoLive EXCEPT !.on = TRUE, !.init = "pending", !.seed = n]])
        /\ Serialize(Op("created", s))
    BY <1>1 DEF CreateSession
  <2>2. /\ live'[s].on /\ live'[s].flush = "none" /\ live'[s].retiring = "no"
        /\ live'[s].init = "pending"
    BY <1>0, <2>1 DEF NoLive
  <2>3. Op("created", s) \in Operations /\ Op("created", s).op \in InitOps /\ Op("created", s).for = s
    BY NewOps, OpShape DEF SessionOps, InitOps
  <2> QED BY <1>0, <2>1, <2>2, <2>3 DEF Born
<1>2. ASSUME NEW c \in Callers, Publish(c) PROVE Born(s)
  <2> DEFINE h == Marked(caller[c].view, s) \o caller[c].extra
             e == SubSeq(h, state.cursor + 1, Len(h))
             i == IF e = <<>> THEN "ok" ELSE "pending"
             o == [op |-> "suffix", for |-> s, events |-> e, from |-> state.cursor]
  <2>1. live' = [live EXCEPT ![s] = [NoLive EXCEPT !.on = TRUE, !.init = i]]
        /\ (e # <<>> => Serialize(o))
    BY <1>2 DEF Publish
  <2>2. state.cursor \in Nat /\ e \in Seq(Events)
    <3>1. state.cursor \in Nat /\ caller[c].view \in Seq(Events) /\ caller[c].extra \in Seq(Events)
      BY <1>0 DEF TypeOK, StateType, CallType
    <3>2. h \in Seq(Events)
      BY <3>1, MarkedFacts, ConcatProperties
    <3> HIDE DEF h
    <3>3. Len(h) \in Nat /\ state.cursor + 1 \in Nat \ {0}
      BY <3>1, <3>2, LenProperties
    <3> QED BY <3>1, <3>2, <3>3, SubSeqFacts
  <2>3. o.op = "suffix" /\ o.for = s
    OBVIOUS
  <2> HIDE DEF e
  <2>4. o \in Operations
    BY <2>2, NewOps
  <2> HIDE DEF o
  <2>5. i \in {"ok", "pending"} /\ (i = "pending" => Serialize(o) /\ o.op \in InitOps)
    BY <2>1, <2>3 DEF InitOps
  <2> HIDE DEF i
  <2>6. /\ live'[s].on /\ live'[s].flush = "none" /\ live'[s].retiring = "no"
        /\ live'[s].init = i
    BY <1>0, <2>1 DEF NoLive
  <2> QED BY <1>0, <2>3, <2>4, <2>5, <2>6 DEF Born
<1> QED BY <1>1, <1>2

LEMMA LiveChanges ==
  ASSUME Shaped, [Next]_vars, ~ Start, ~ Crash, running', NEW s \in Sessions
  PROVE  Changes(s)
<1> USE DEF sessions, storage
<1>0. /\ TypeOK /\ live \in [Sessions -> LiveType] /\ live[s] \in LiveType /\ s # Nobody
      /\ running
  BY SessionFacts, Ids, RunsOn DEF Shaped, TypeOK
<1>1. ASSUME UNCHANGED live PROVE Changes(s)
  BY <1>1 DEF Changes
<1>2. CASE AppendRefused \/ WriteRefused \/ RepairFails \/ ReadFails \/ Collides \/ WriteStored
  <2>1. chain # <<>>
    BY <1>0, <1>2, Busy DEF AppendRefused, AppendAtHead, WriteRefused, RepairFails, ReadFails,
       Collides, CreatedAtHead, AtHead, WriteStored
  <2>2. UNCHANGED live \/ (Finish /\ live' \in {Settled(FALSE), Settled(TRUE)})
    BY <1>2 DEF AppendRefused, WriteRefused, RepairFails, ReadFails, Collides, WriteStored
  <2> QED BY <1>1, <2>1, <2>2 DEF Changes, Outcome
<1>3. CASE Claims \/ AdoptsLivePrefix \/ RegistersNew
  <2>1. chain # <<>>
    BY <1>3 DEF Claims, AdoptsLivePrefix, RegistersNew, CreatedAtHead, AtHead
  <2>2. UNCHANGED live \/ (Finish /\ live' = Settled(TRUE))
    BY <1>3 DEF Claims, AdoptsLivePrefix, RegistersNew, BindSeed
  <2> QED BY <1>1, <2>1, <2>2 DEF Changes, Outcome
<1>4. CASE ReleaseOwner
  <2>1. live' = [live EXCEPT ![chain[1].for] = [NoLive EXCEPT !.retiring = "released"]]
    BY <1>4 DEF ReleaseOwner
  <2> QED BY <1>0, <1>4, <2>1 DEF Changes, LetsGo
<1>5. CASE \E t \in Sessions : RetireStep(t)
  <2>1. PICK t \in Sessions : RetireStep(t)
    BY <1>5
  <2>2. CASE t # s
    <3>1. live'[s] = live[s]
      BY <1>0, <2>1, <2>2 DEF RetireStep, StartWrite, RetireFails, RetireFlushed
    <3> QED BY <3>1 DEF Changes
  <2>3. CASE t = s
    <3>1. CASE StartWrite(s)
      <4> DEFINE f == IF Flushing(s) THEN "writing" ELSE "none"
      <4>1. live'[s] = [live[s] EXCEPT !.writing = Len(live[s].queue), !.flush = f]
            /\ f \in {"writing", "none"}
        BY <1>0, <3>1 DEF StartWrite
      <4> HIDE DEF f
      <4> QED BY <3>1, <4>1 DEF Changes, HandsOver
    <3>2. CASE RetireFails(s)
      BY <1>0, <3>2 DEF RetireFails, Changes, Fails
    <3>3. CASE RetireFlushed(s)
      BY <1>0, <3>3 DEF RetireFlushed, Changes, Flushed
    <3> QED BY <2>1, <2>3, <3>1, <3>2, <3>3 DEF RetireStep
  <2> QED BY <2>2, <2>3
<1>6. CASE (\E replay \in BOOLEAN : CreateSession(replay)) \/ \E c \in Callers : Publish(c)
  <2>1. CASE s = Newborn
    BY <1>0, <1>6, <2>1, BornFacts DEF Changes
  <2>2. CASE s # Newborn
    <3>1. live'[s] = live[s]
      BY <1>0, <1>6, <2>2 DEF CreateSession, Publish
    <3> QED BY <3>1 DEF Changes
  <2> QED BY <2>1, <2>2
<1>7. CASE SessionAppends
  <2>1. Len(hist[store]) \in Nat
    BY <1>7, SessionFacts DEF SessionAppends, Shaped, TypeOK
  <2>2. live' = [live EXCEPT ![store].queue = Append(live[store].queue, Len(hist[store]))]
    BY <1>0, <1>7 DEF SessionAppends
  <2>3. CASE store = s
    <3>1. live'[s] = [live[s] EXCEPT !.queue = Append(live[s].queue, Len(hist[store]))]
      BY <1>0, <2>2, <2>3
    <3> QED BY <2>1, <2>3, <3>1 DEF Changes, Grows
  <2>4. CASE store # s
    BY <1>0, <2>2, <2>4 DEF Changes
  <2> QED BY <2>3, <2>4
<1>8. CASE Dispose
  <2>1. live' = [live EXCEPT ![store].retiring = "flushing"]
    BY <1>0, <1>8 DEF Dispose
  <2> QED BY <1>0, <1>8, <2>1 DEF Changes, Retires
<1>9. ~ Stop
  BY DEF Stop
<1>10. CASE ~ (\/ AppendRefused \/ WriteRefused \/ RepairFails \/ ReadFails \/ Collides \/ WriteStored
               \/ Claims \/ AdoptsLivePrefix \/ RegistersNew \/ ReleaseOwner
               \/ (\E t \in Sessions : RetireStep(t)) \/ (\E replay \in BOOLEAN : CreateSession(replay))
               \/ (\E c \in Callers : Publish(c)) \/ SessionAppends \/ Dispose)
  <2>1. UNCHANGED live
    BY <1>9, <1>10 DEF Next, vars, ChainStep, PrepareCore, Check, CommitThrows, CommitStale, CommitRepairs,
       Commit, RepairTruncates, RepairEnds, AppendAdopts, AppendWrites, Reclaims, HeaderDecides,
       HeaderStored, CreateCore, Refusal, HeaderRefused, CallStep, FindsLive, FindsCold, Reserve,
       Invalidated, Inspects, EndCall, Evict, Begin, Abort, SetupAppends, Release,
       EnsureMaterialized, CreateCall, AppendCall
  <2> QED BY <1>1, <2>1
<1> QED BY <1>2, <1>3, <1>4, <1>5, <1>6, <1>7, <1>8, <1>10

\* What was refused stays refused, and what ended stays ended; either comes of an
\* operation of the session's own that the chain runs.
LEMMA Fates ==
  ASSUME Shaped, Refusing, [Next]_vars, ~ Start, ~ Crash, running', NEW s \in Sessions
  PROVE  /\ Refused(s) => Refused(s)'
         /\ live'[s].flush = "refused" => live'[s].queue # <<>> /\ live'[s].writing = 0
         /\ live'[s].retiring = "failed" => Refused(s)'
         /\ Ended(s) => Ended(s)'
         /\ Refused(s)' \/ Ended(s)' =>
              \/ Refused(s) \/ Ended(s)
              \/ chain # <<>> /\ chain[1].op \in Watched /\ chain[1].for = s
<1> DEFINE Fate ==
      /\ Refused(s) => Refused(s)'
      /\ live'[s].flush = "refused" => live'[s].queue # <<>> /\ live'[s].writing = 0
      /\ live'[s].retiring = "failed" => Refused(s)'
      /\ Ended(s) => Ended(s)'
      /\ Refused(s)' \/ Ended(s)' =>
           \/ Refused(s) \/ Ended(s)
           \/ chain # <<>> /\ chain[1].op \in Watched /\ chain[1].for = s
<1>0. /\ TypeOK /\ running /\ live[s] \in LiveType
      /\ live[s].flush = "refused" => live[s].queue # <<>> /\ live[s].writing = 0
      /\ live[s].retiring = "failed" => Refused(s)
      /\ live[s].retiring # "no" => life[s] = "over"
      /\ live[s].retiring = "releasing" => live[s].queue = <<>> /\ live[s].init = "ok"
      /\ life[s] = "live" <=> store = s
      /\ life[s] = "unborn" => live[s] = NoLive
  BY RunsOn, SessionFacts DEF Refusing, Shaped
<1>1. CASE live'[s] = live[s]
  BY <1>0, <1>1 DEF Refused, Ended
<1>2. CASE Outcome
  <2>1. PICK ok \in BOOLEAN : chain # <<>> /\ live' = Settled(ok)
    BY <1>2 DEF Outcome
  <2> DEFINE m == Settled(ok)[s]
             mine == chain[1].op = "write" /\ chain[1].for = s
             begins == chain[1].op \in InitOps /\ chain[1].for = s
  <2>2. /\ live'[s] = m /\ m.retiring = live[s].retiring
        /\ ~ mine => m.queue = live[s].queue /\ m.writing = live[s].writing
        /\ mine => m.writing = 0 /\ (~ ok => m.queue = live[s].queue)
        /\ m.init = IF begins THEN IF ok THEN "ok" ELSE "failed" ELSE live[s].init
        /\ m.flush = IF mine /\ live[s].flush = "writing"
                     THEN IF ok THEN "none" ELSE "refused" ELSE live[s].flush
    BY <1>0, <2>1, SettledFacts, SettledFlush
  <2>3. /\ mine => live[s].writing > 0 /\ live[s].queue # <<>>
        /\ begins => live[s].init = "pending"
    <3>1. Expected(live, chain[1])
      BY <1>0, <2>1, HeadFacts, SessionFacts
    <3>2. live[s].writing <= Len(live[s].queue) /\ Len(<<>>) = 0 /\ live[s].writing \in Nat
      BY <1>0 DEF TypeOK, LiveType
    <3> QED BY <3>1, <3>2 DEF Expected
  <2>4. mine \/ begins => chain[1].op \in Watched /\ chain[1].for = s
    BY DEF Watched
  <2> HIDE DEF m, mine, begins
  <2>5. Refused(s) => Refused(s)'
    BY <1>0, <2>2, <2>3 DEF Refused
  <2>6. live'[s].flush = "refused" => live'[s].queue # <<>> /\ live'[s].writing = 0
    BY <1>0, <2>2, <2>3
  <2>7. live'[s].retiring = "failed" => Refused(s)'
    BY <1>0, <2>2, <2>5
  <2>8. Ended(s) <=> Ended(s)'
    BY <2>2 DEF Ended
  <2>9. Refused(s)' => Refused(s) \/ mine \/ begins
    BY <2>2 DEF Refused
  <2> QED BY <2>1, <2>4, <2>5, <2>6, <2>7, <2>8, <2>9
<1>3. CASE HandsOver(s)
  <2>1. PICK f \in {"writing", "none"} :
          live'[s] = [live[s] EXCEPT !.writing = Len(live[s].queue), !.flush = f]
    BY <1>3 DEF HandsOver
  <2>2. live'[s].flush = f /\ live'[s].init = live[s].init /\ live'[s].retiring = live[s].retiring
    BY <1>0, <2>1 DEF LiveType
  <2>3. live[s].flush = "none" /\ live[s].init = "ok"
    BY <1>3 DEF HandsOver, StartWrite
  <2> QED BY <1>0, <2>2, <2>3 DEF Refused, Ended
<1>4. CASE Fails(s)
  <2>1. /\ live'[s].flush = live[s].flush /\ live'[s].init = live[s].init
        /\ live'[s].queue = live[s].queue /\ live'[s].writing = live[s].writing
        /\ live'[s].retiring = "failed" /\ Refused(s)
    BY <1>0, <1>4 DEF Fails, RetireFails, LiveType, Refused
  <2> QED BY <1>0, <2>1 DEF Refused, Ended
<1>5. CASE Flushed(s) \/ Retires(s)
  <2>1. /\ live'[s].flush = live[s].flush /\ live'[s].init = live[s].init
        /\ live'[s].queue = live[s].queue /\ live'[s].writing = live[s].writing
        /\ live'[s].retiring \in {"releasing", "flushing"} /\ ~ Ended(s)
    BY <1>0, <1>5 DEF Flushed, Retires, RetireFlushed, LiveType, Ended
  <2> QED BY <1>0, <2>1 DEF Refused, Ended
<1>6. CASE LetsGo(s)
  <2>1. /\ live'[s].flush = "none" /\ live'[s].init = "none" /\ live'[s].retiring = "released"
        /\ chain # <<>> /\ chain[1].op = "release" /\ chain[1].for = s
        /\ live[s].retiring = "releasing"
    BY <1>6, ReleasedIsOver DEF LetsGo, NoLive, ReleaseOwner, AtHead
  <2> QED BY <1>0, <2>1 DEF Refused, Ended, Watched
<1>7. CASE Born(s)
  <2>1. live[s].flush = "none" /\ live[s].init = "none" /\ live[s].retiring = "no"
    BY <1>0, <1>7 DEF Born, NoLive
  <2> QED BY <1>7, <2>1 DEF Born, Refused, Ended
<1>8. CASE Grows(s)
  <2>1. PICK n \in Nat : live'[s] = [live[s] EXCEPT !.queue = Append(live[s].queue, n)]
    BY <1>8 DEF Grows
  <2>2. /\ live'[s].flush = live[s].flush /\ live'[s].init = live[s].init
        /\ live'[s].writing = live[s].writing /\ live'[s].retiring = live[s].retiring
        /\ live'[s].queue = Append(live[s].queue, n) /\ live[s].queue \in Seq(Nat)
    BY <1>0, <2>1 DEF LiveType
  <2>3. live'[s].queue # <<>>
    BY <2>2
  <2> QED BY <1>0, <2>2, <2>3 DEF Refused, Ended
<1>9. Changes(s)
  BY LiveChanges
<1> QED BY <1>1, <1>2, <1>3, <1>4, <1>5, <1>6, <1>7, <1>8, <1>9 DEF Changes

LEMMA RefusingStep ==
  ASSUME Shaped, Refusing, [Next]_vars
  PROVE  Refusing'
<1>1. SUFFICES ASSUME NEW s \in Sessions, running'
               PROVE  /\ live'[s].flush = "refused" => live'[s].queue # <<>> /\ live'[s].writing = 0
                      /\ live'[s].retiring = "failed" => Refused(s)'
  BY DEF Refusing
<1>2. CASE Start \/ Crash
  <2>1. \/ live'[s] = NoLive
        \/ \E n : live'[s] = [NoLive EXCEPT !.on = TRUE, !.init = "pending", !.seed = n]
    BY <1>2 DEF Start, Crash
  <2>2. live'[s] = NoLive => live'[s].flush = "none" /\ live'[s].retiring = "no"
    BY DEF NoLive
  <2>3. ASSUME NEW n, live'[s] = [NoLive EXCEPT !.on = TRUE, !.init = "pending", !.seed = n]
        PROVE  live'[s].flush = "none" /\ live'[s].retiring = "no"
    BY <2>3 DEF NoLive
  <2> QED BY <2>1, <2>2, <2>3
<1>3. CASE ~ Start /\ ~ Crash
  BY <1>1, <1>3, Fates
<1> QED BY <1>2, <1>3

LEMMA TitledStep ==
  ASSUME Shaped, Titled, [Next]_vars
  PROVE  Titled'
<1>1. SUFFICES ASSUME stage' = "header" PROVE chain'[1].op = "header"
  BY DEF Titled
<1>2. CASE stage' = stage /\ chain'[1] = chain[1]
  BY <1>1, <1>2 DEF Titled
<1>3. CASE CommitRepairs \/ AppendAdopts \/ AppendWrites \/ AdoptsLivePrefix
  BY <1>1, <1>3 DEF CommitRepairs, AppendAdopts, AppendAtHead, AppendWrites, AdoptsLivePrefix,
     CreatedAtHead, AtHead, BindSeed, Finish, GoOn
<1>4. CASE HeaderDecides
  BY <1>1, <1>4 DEF HeaderDecides, AtHead, Finish
<1> QED BY <1>1, <1>2, <1>3, <1>4, HeadStays

\* What a step makes of the chain: an operation is added, or given up, or the head
\* ends, or goes on by storing a seed.
Adds ==
  \E o : Serialize(o) /\ (o.op = "created" => o.for = Newborn /\ Unborn # {})
GivesUp == \E i \in DOMAIN chain : chain' = RemoveAt(chain, i) /\ chain[i].op \notin Watched
HeadEnds == chain # <<>> /\ Finish /\ (chain[1].op \in InitOps => Outcome)
HeadSeeds ==
  /\ chain # <<>> /\ chain[1].op = "created"
  /\ DOMAIN chain' = DOMAIN chain
  /\ chain'[1].op = "seed" /\ chain'[1].for = chain[1].for
  /\ \A i \in DOMAIN chain \ {1} : chain'[i] = chain[i]

LEMMA BindEnds ==
  ASSUME Shaped, chain # <<>>, chain[1].op = "created",
         \E n \in Nat : BindSeed(chain[1].for, Seed, n)
  PROVE  HeadEnds \/ HeadSeeds
<1>0. TypeOK
  BY DEF Shaped
<1>1. PICK n \in Nat : BindSeed(chain[1].for, Seed, n)
  OBVIOUS
<1>2. CASE Len(Seed) = n
  BY <1>1, <1>2 DEF BindSeed, HeadEnds, Outcome
<1>3. CASE Len(Seed) # n
  <2> DEFINE e == SubSeq(Seed, n + 1, Len(Seed))
             o == [op |-> "seed", for |-> chain[1].for, from |-> n, events |-> e]
  <2>1. e \in Seq(Events)
    BY <1>1, SeedType, SubSeqFacts
  <2>2. o.op = "seed" /\ o.for = chain[1].for
    OBVIOUS
  <2> HIDE DEF e
  <2>3. o \in Operations
    BY <1>1, <2>1, SeedType, NewOps
  <2> HIDE DEF o
  <2>4. chain' = <<o>> \o Tail(chain)
    BY <1>1, <1>3 DEF BindSeed, GoOn, e, o
  <2>5. /\ Tail(chain) \in Seq(Operations) /\ Len(Tail(chain)) = Len(chain) - 1
        /\ DOMAIN chain = 1 .. Len(chain) /\ Len(chain) \in Nat \ {0}
        /\ \A i \in 1 .. Len(chain) - 1 : Tail(chain)[i] = chain[i + 1]
    BY <1>0, TailFacts DEF TypeOK
  <2>6. <<o>> \in Seq(Operations) /\ Len(<<o>>) = 1 /\ <<o>>[1] = o
    BY <2>3
  <2>7. /\ chain' \in Seq(Operations) /\ Len(chain') = Len(<<o>>) + Len(Tail(chain))
        /\ \A i \in 1 .. Len(<<o>>) + Len(Tail(chain)) :
             chain'[i] = IF i <= Len(<<o>>) THEN <<o>>[i] ELSE Tail(chain)[i - Len(<<o>>)]
    BY <2>4, <2>5, <2>6, ConcatProperties
  <2>8. DOMAIN chain' = DOMAIN chain
    BY <2>5, <2>6, <2>7, LenProperties
  <2>9. chain'[1] = o
    BY <2>5, <2>6, <2>7
  <2>10. ASSUME NEW i \in DOMAIN chain \ {1} PROVE chain'[i] = chain[i]
    <3>1. i - 1 \in 1 .. Len(chain) - 1 /\ i - 1 + 1 = i /\ ~ (i <= 1)
      BY <2>5, <2>8
    <3> QED BY <2>5, <2>6, <2>7, <2>8, <3>1
  <2> QED BY <2>2, <2>8, <2>9, <2>10 DEF HeadSeeds
<1> QED BY <1>2, <1>3

LEMMA ChainChanges ==
  ASSUME Shaped, Titled, [Next]_vars, ~ Start, ~ Crash
  PROVE  UNCHANGED chain \/ Adds \/ GivesUp \/ HeadEnds \/ HeadSeeds
<1> USE DEF sessions, storage
<1>0. TypeOK
  BY DEF Shaped
<1>1. ASSUME \E k, x : Serialize(Op(k, x)) /\ k # "created" PROVE Adds
  BY <1>1, OpShape DEF Adds
<1>2. CASE Claims \/ AdoptsLivePrefix \/ RegistersNew
  <2>1. chain # <<>> /\ chain[1].op = "created"
    BY <1>2 DEF Claims, AdoptsLivePrefix, RegistersNew, CreatedAtHead, AtHead
  <2>2. state.cursor \in Nat /\ Len(disk.log) \in Nat /\ 0 \in Nat
    BY <1>0, LenProperties DEF TypeOK, StateType, Disks
  <2>3. UNCHANGED chain \/ \E n \in Nat : BindSeed(chain[1].for, Seed, n)
    BY <1>2, <2>2 DEF Claims, AdoptsLivePrefix, RegistersNew
  <2> QED BY <2>1, <2>3, BindEnds
<1>3. CASE \/ PrepareCore \/ Check \/ CommitThrows \/ CommitStale \/ Commit \/ ReleaseOwner
           \/ HeaderDecides \/ CreateCore
  <2>1. chain # <<>> /\ chain[1].op \notin InitOps
    BY <1>3 DEF PrepareCore, Check, CommitThrows, CommitStale, Commit, ReleaseOwner, HeaderDecides,
       CreateCore, AtHead, InitOps
  <2>2. UNCHANGED chain \/ Finish
    BY <1>3 DEF PrepareCore, Check, CommitThrows, CommitStale, Commit, ReleaseOwner, HeaderDecides,
       CreateCore
  <2> QED BY <2>1, <2>2 DEF HeadEnds
<1>4. CASE HeaderStored \/ HeaderRefused
  <2>1. chain # <<>> /\ chain[1].op \notin InitOps /\ Finish
    BY <1>0, <1>4, Busy DEF HeaderStored, HeaderRefused, Titled, InitOps
  <2> QED BY <2>1 DEF HeadEnds
<1>5. CASE AppendRefused \/ WriteRefused \/ Collides \/ WriteStored
  <2>1. chain # <<>> /\ Finish /\ live' \in {Settled(TRUE), Settled(FALSE)}
    BY <1>0, <1>5, Busy DEF AppendRefused, AppendAtHead, WriteRefused, Collides, CreatedAtHead,
       AtHead, WriteStored
  <2> QED BY <2>1 DEF HeadEnds, Outcome
<1>6. CASE RepairEnds \/ RepairFails \/ ReadFails
  <2>1. chain # <<>>
    BY <1>0, <1>6, Busy DEF RepairEnds, RepairFails, ReadFails, AtHead
  <2>2. \/ UNCHANGED chain
        \/ Finish /\ (chain[1].op \notin InitOps \/ live' = Settled(FALSE))
    BY <1>6 DEF RepairEnds, RepairFails, ReadFails, AtHead, InitOps
  <2> QED BY <2>1, <2>2 DEF HeadEnds, Outcome
<1>7. ASSUME NEW c \in Callers, CallStep(c) \/ Abort(c) \/ Publish(c)
      PROVE  UNCHANGED chain \/ Adds \/ GivesUp
  <2>1. CASE Abort(c)
    <3>1. UNCHANGED chain
          \/ \E i \in DOMAIN chain : chain' = RemoveAt(chain, i) /\ chain[i].op \in {"check", "commit"}
      BY <2>1 DEF Abort
    <3> QED BY <3>1 DEF GivesUp, Watched, InitOps
  <2>2. CASE Publish(c)
    <3> DEFINE h == Marked(caller[c].view, Newborn) \o caller[c].extra
               o == [op |-> "suffix", for |-> Newborn, from |-> state.cursor,
                     events |-> SubSeq(h, state.cursor + 1, Len(h))]
    <3>1. UNCHANGED chain \/ Serialize(o)
      BY <2>2 DEF Publish
    <3>2. o.op # "created"
      OBVIOUS
    <3> HIDE DEF o
    <3> QED BY <3>1, <3>2 DEF Adds
  <2>3. CASE CallStep(c)
    <3>1. \/ UNCHANGED chain \/ Serialize(Op("commit", c)) \/ Serialize(Op("check", c))
          \/ Serialize(Op("prepare", FreeGeneration))
      BY <2>3 DEF CallStep, FindsLive, FindsCold, Invalidated, Inspects, EndCall, Reserve
    <3> QED BY <1>1, <3>1
  <2> QED BY <1>7, <2>1, <2>2, <2>3
<1>8. CASE (\E s \in Sessions : RetireStep(s)) \/ EnsureMaterialized \/ CreateCall
  <2>1. \/ UNCHANGED chain \/ \E s \in Sessions : Serialize(Op("write", s)) \/ Serialize(Op("release", s))
        \/ Serialize(Op("header", store)) \/ Serialize(Op("create", Outside))
    BY <1>8 DEF RetireStep, StartWrite, RetireFails, RetireFlushed, EnsureMaterialized, CreateCall
  <2> QED BY <1>1, <2>1
<1>9. CASE \E replay \in BOOLEAN : CreateSession(replay)
  <2>1. UNCHANGED chain \/ (Unborn # {} /\ Serialize(Op("created", Newborn)))
    BY <1>9 DEF CreateSession
  <2> QED BY <2>1, OpShape DEF Adds
<1>10. CASE AppendCall
  <2>1. \E o : Serialize(o) /\ o.op = "append"
    <3> DEFINE o == [op |-> "append", for |-> Outside,
                     events |-> <<[by |-> Outside, kind |-> "note"]>>,
                     from |-> Len(Balanced(disk.log))]
    <3>1. Serialize(o) /\ o.op = "append"
      BY <1>10 DEF AppendCall
    <3> QED BY <3>1
  <2> QED BY <2>1 DEF Adds
<1>11. CASE \/ CommitRepairs \/ RepairTruncates \/ AppendAdopts \/ AppendWrites \/ Reclaims
            \/ SessionAppends \/ Dispose \/ Evict \/ Stop \/ UNCHANGED vars
            \/ \E c \in Callers : SetupAppends(c) \/ Release(c) \/ \E m \in Modes : Begin(c, m)
  <2>1. UNCHANGED chain
    BY <1>11 DEF CommitRepairs, RepairTruncates, AppendAdopts, AppendWrites, Reclaims, SessionAppends,
       Dispose, Evict, Stop, vars, SetupAppends, Release, Begin
  <2> QED BY <2>1
<1> QED BY <1>2, <1>3, <1>4, <1>5, <1>6, <1>7, <1>8, <1>9, <1>10, <1>11
       DEF Next, ChainStep, Refusal

\* The next session of the id is the first of those that were not born yet.
LEMMA NewbornLeast ==
  ASSUME Unborn # {}
  PROVE  Newborn \in Unborn /\ \A t \in Unborn : Newborn <= t
<1>1. Unborn \in SUBSET (1 .. MaxSessions) /\ MaxSessions \in Nat
  BY Ids DEF Unborn, Sessions
<1>2. \E s \in Unborn : \A t \in Unborn : s <= t
  BY <1>1, Least
<1> QED BY <1>2 DEF Newborn

LEMMA LifeMoves ==
  ASSUME Shaped, [Next]_vars
  PROVE  \/ UNCHANGED life
         \/ /\ (\E replay \in BOOLEAN : CreateSession(replay)) \/ \E c \in Callers : Publish(c)
            /\ store = Nobody /\ Unborn # {} /\ life' = [life EXCEPT ![Newborn] = "live"]
         \/ Dispose /\ store \in Sessions /\ life' = [life EXCEPT ![store] = "over"]
         \/ Crash /\ life' = [s \in Sessions |-> IF life[s] = "live" THEN "over" ELSE life[s]]
<1> USE DEF sessions, storage
<1>1. CASE (\E replay \in BOOLEAN : CreateSession(replay)) \/ \E c \in Callers : Publish(c)
  <2>1. store = Nobody /\ Unborn # {} /\ life' = [life EXCEPT ![Newborn] = "live"]
    BY <1>1 DEF CreateSession, Publish, Enters
  <2> QED BY <1>1, <2>1
<1>2. CASE Dispose
  BY <1>2 DEF Dispose, Shaped, TypeOK
<1>3. CASE Crash
  BY <1>3 DEF Crash
<1>4. CASE ~ ((\E replay \in BOOLEAN : CreateSession(replay)) \/ (\E c \in Callers : Publish(c))
              \/ Dispose \/ Crash)
  <2>1. UNCHANGED life
    BY <1>4 DEF Next, vars, ChainStep, PrepareCore, Check, CommitThrows, CommitStale, CommitRepairs,
       Commit, RepairTruncates, RepairEnds, AppendRefused, AppendAdopts, AppendWrites, WriteStored,
       Claims, Reclaims, Collides, AdoptsLivePrefix, RegistersNew, ReleaseOwner, HeaderDecides,
       HeaderStored, CreateCore, Refusal, RepairFails, ReadFails, WriteRefused, HeaderRefused,
       CallStep, FindsLive, FindsCold, Reserve, Invalidated, Inspects, EndCall, RetireStep,
       StartWrite, RetireFails, RetireFlushed, Stop, Start, Evict, Begin, Abort, SetupAppends,
       Release, SessionAppends, EnsureMaterialized, CreateCall, AppendCall
  <2> QED BY <2>1
<1> QED BY <1>1, <1>2, <1>3, <1>4

LEMMA SuccessionStep ==
  ASSUME Shaped, Succession, [Next]_vars
  PROVE  Succession'
<1>0. /\ life \in [Sessions -> {"unborn", "live", "over"}] /\ Sessions \subseteq Nat
      /\ \A s \in Sessions : life[s] = "live" <=> store = s
  BY SessionFacts, Ids DEF Shaped, TypeOK
<1>1. SUFFICES ASSUME NEW s \in Sessions, NEW t \in Sessions, s < t, life'[t] # "unborn"
               PROVE  life'[s] = "over"
  BY DEF Succession
<1>2. CASE UNCHANGED life
  BY <1>1, <1>2 DEF Succession
<1>3. CASE store = Nobody /\ Unborn # {} /\ life' = [life EXCEPT ![Newborn] = "live"]
  <2>1. Newborn \in Sessions /\ life[Newborn] = "unborn"
    BY <1>3, NewbornFacts
  <2>2. CASE t = Newborn
    <3>1. s \notin Unborn
      <4>1. s \in Unborn => Newborn <= s
        BY <1>3, NewbornLeast
      <4> QED BY <1>0, <1>1, <2>2, <4>1
    <3>2. life[s] # "live" /\ s # Newborn
      BY <1>0, <1>1, <1>3, <2>2, Ids
    <3> QED BY <1>0, <1>3, <2>1, <3>1, <3>2 DEF Unborn
  <2>3. CASE t # Newborn
    <3>1. life[s] = "over"
      BY <1>0, <1>1, <1>3, <2>1, <2>3 DEF Succession
    <3> QED BY <1>0, <1>3, <2>1, <3>1
  <2> QED BY <2>2, <2>3
<1>4. CASE store \in Sessions /\ life' = [life EXCEPT ![store] = "over"]
  <2>1. life[t] # "unborn"
    BY <1>0, <1>1, <1>4
  <2> QED BY <1>0, <1>1, <1>4, <2>1 DEF Succession
<1>5. CASE life' = [r \in Sessions |-> IF life[r] = "live" THEN "over" ELSE life[r]]
  BY <1>0, <1>1, <1>5 DEF Succession
<1> QED BY <1>2, <1>3, <1>4, <1>5, LifeMoves

LEMMA EndsStep ==
  ASSUME Shaped, Watching, Refusing, Ends, [Next]_vars
  PROVE  Ends'
<1> DEFINE Draws(s) ==
      IF live'[s].on THEN live'[s].retiring \in {"flushing", "releasing", "failed"}
      ELSE hist'[s] = <<>>
<1>1. SUFFICES ASSUME NEW s \in Sessions, running', life'[s] = "over" PROVE Draws(s)
  BY DEF Ends
<1>2. CASE Crash
  BY <1>2 DEF Crash, NoLive
<1>3. CASE Start
  <2>1. s # store
    BY <1>1, <1>3, SessionFacts DEF Start
  <2>2. live'[s] = NoLive /\ hist'[s] = <<>>
    BY <1>3, <2>1 DEF Start
  <2> QED BY <2>2 DEF NoLive
<1>4. CASE ~ Crash /\ ~ Start
  <2>0. /\ running /\ Changes(s) /\ live[s] \in LiveType /\ TypeOK
        /\ life[s] = "live" <=> store = s
        /\ live[s].retiring # "no" => life[s] = "over"
    BY <1>1, <1>4, RunsOn, LiveChanges, SessionFacts DEF Shaped
  <2>1. CASE Retires(s)
    <3>1. live[s].on /\ live'[s] = [live[s] EXCEPT !.retiring = "flushing"]
      BY <1>1, <2>0, <2>1, Ids DEF Retires, Watching
    <3> QED BY <2>0, <3>1 DEF LiveType
  <2>2. CASE ~ Retires(s)
    <3>1. life[s] = "over"
      <4>1. ASSUME store = s, Dispose PROVE FALSE
        <5>1. live' = [live EXCEPT ![s].retiring = "flushing"] /\ live \in [Sessions -> LiveType]
          BY <2>0, <4>1 DEF Dispose, TypeOK
        <5> QED BY <2>0, <2>2, <4>1, <5>1 DEF Retires
      <4>2. Unborn # {} => Newborn \in Sessions /\ life[Newborn] = "unborn"
        BY NewbornFacts
      <4>3. life \in [Sessions -> {"unborn", "live", "over"}]
        BY <2>0 DEF TypeOK
      <4> QED BY <1>1, <1>4, <4>1, <4>2, <4>3, LifeMoves
    <3>2. IF live[s].on THEN live[s].retiring \in {"flushing", "releasing", "failed"}
          ELSE hist[s] = <<>>
      BY <2>0, <3>1 DEF Ends
    <3>3. CASE ReleaseOwner /\ chain[1].for = s
      <4>1. live'[s] = [NoLive EXCEPT !.retiring = "released"] /\ hist'[s] = <<>>
        BY <2>0, <3>3 DEF ReleaseOwner, TypeOK
      <4> QED BY <4>1 DEF NoLive
    <3>4. CASE ~ (ReleaseOwner /\ chain[1].for = s)
      <4>1. hist'[s] = hist[s]
        BY <1>4, <3>1, <3>4, OverKeeps
      <4>2. CASE Fails(s) \/ Flushed(s)
        <5>1. live'[s].retiring \in {"failed", "releasing"}
          BY <2>0, <4>2 DEF Fails, Flushed, LiveType
        <5>2. live'[s].on = live[s].on
          BY <2>0, <4>2 DEF Fails, Flushed, LiveType
        <5> QED BY <3>2, <4>1, <5>1, <5>2
      <4>3. CASE live'[s] = live[s]
        BY <3>2, <4>1, <4>3
      <4>4. CASE Outcome
        <5>1. live'[s].on = live[s].on /\ live'[s].retiring = live[s].retiring
          BY <2>0, <4>4, SettledFacts DEF Outcome
        <5> QED BY <3>2, <4>1, <5>1
      <4>5. CASE HandsOver(s)
        <5>1. live'[s].on = live[s].on /\ live'[s].retiring = live[s].retiring
          BY <2>0, <4>5 DEF HandsOver, LiveType
        <5> QED BY <3>2, <4>1, <5>1
      <4>6. CASE Grows(s) \/ Born(s)
        BY <2>0, <3>1, <4>6 DEF Grows, Born
      <4> QED BY <2>0, <2>2, <3>4, <4>2, <4>3, <4>4, <4>5, <4>6 DEF Changes, LetsGo
    <3> QED BY <3>3, <3>4
  <2> QED BY <2>1, <2>2
<1> QED BY <1>2, <1>3, <1>4

\* A retirement that is forgotten has ended.
LEMMA Forgotten ==
  ASSUME Shaped, Retiring, [Next]_vars, ~ Start, ~ Crash
  PROVE  \/ retirement' = retirement
         \/ Dispose /\ running /\ store \in Sessions /\ retirement' = store
         \/ \E t \in Sessions : retirement = t /\ Ended(t)'
<1> USE DEF sessions, storage
<1>0. TypeOK /\ live \in [Sessions -> LiveType]
  BY DEF Shaped, TypeOK
<1>1. CASE Dispose
  BY <1>0, <1>1 DEF Dispose, TypeOK
<1>2. ASSUME NEW s \in Sessions, RetireStep(s), retirement' # retirement
      PROVE  \E t \in Sessions : retirement = t /\ Ended(t)'
  <2>1. RetireFails(s) /\ retirement = s
    BY <1>2 DEF RetireStep, StartWrite, RetireFails, RetireFlushed, Forget
  <2>2. live'[s].retiring = "failed"
    BY <1>0, <2>1 DEF RetireFails, LiveType
  <2> QED BY <2>1, <2>2 DEF Ended
<1>3. ASSUME ReleaseOwner, retirement' # retirement
      PROVE  \E t \in Sessions : retirement = t /\ Ended(t)'
  <2>1. retirement = chain[1].for /\ chain[1].for \in Sessions
    BY <1>3, ReleasedIsOver DEF ReleaseOwner, Forget
  <2>2. live'[chain[1].for].retiring = "released"
    BY <1>0, <1>3, <2>1 DEF ReleaseOwner, NoLive
  <2> QED BY <2>1, <2>2 DEF Ended
<1>4. CASE ~ (Dispose \/ ReleaseOwner \/ \E s \in Sessions : RetireStep(s))
  <2>1. UNCHANGED retirement
    BY <1>4 DEF Next, vars, ChainStep, PrepareCore, Check, CommitThrows, CommitStale, CommitRepairs,
       Commit, RepairTruncates, RepairEnds, AppendRefused, AppendAdopts, AppendWrites, WriteStored,
       Claims, Reclaims, Collides, AdoptsLivePrefix, RegistersNew, HeaderDecides, HeaderStored,
       CreateCore, Refusal, RepairFails, ReadFails, WriteRefused, HeaderRefused, CallStep, FindsLive,
       FindsCold, Reserve, Invalidated, Inspects, EndCall, Stop, Evict, Begin, Abort, Publish,
       SetupAppends, Release, CreateSession, SessionAppends, EnsureMaterialized, CreateCall,
       AppendCall
  <2> QED BY <2>1
<1> QED BY <1>1, <1>2, <1>3, <1>4

LEMMA NotedStep ==
  ASSUME Shaped, Refusing, Retiring, Succession, Noted, [Next]_vars
  PROVE  Noted'
<1>1. SUFFICES ASSUME NEW s \in Sessions, running', life'[s] = "over", live'[s].on
               PROVE  retirement' >= s \/ \E t \in Sessions : t >= s /\ Ended(t)'
  BY DEF Noted, Ended
<1>0. Sessions \subseteq Nat /\ TypeOK /\ s # Nobody
  BY Ids DEF Shaped
<1>2. ~ Crash
  BY <1>1 DEF Crash, NoLive
<1>3. ~ Start
  <2>1. Start => s # store
    BY <1>1, SessionFacts DEF Start
  <2>2. Start /\ s # store => live'[s] = NoLive
    BY DEF Start
  <2> QED BY <1>1, <2>1, <2>2 DEF NoLive
<1>4. running /\ Changes(s) /\ (life[s] = "live" <=> store = s)
  BY <1>1, <1>2, <1>3, RunsOn, LiveChanges, SessionFacts
<1>5. CASE Dispose
  <2>1. retirement' = store /\ store \in Sessions
    BY <1>0, <1>4, <1>5 DEF Dispose, TypeOK
  <2>2. store >= s
    <3>1. SUFFICES ASSUME store < s PROVE FALSE
      BY <1>0, <2>1
    <3>2. life[s] # "unborn"
      <4>1. life' = [life EXCEPT ![store] = "over"] /\ life \in [Sessions -> {"unborn", "live", "over"}]
        BY <1>0, <1>5 DEF Dispose, TypeOK
      <4> QED BY <1>0, <1>1, <2>1, <3>1, <4>1
    <3>3. life[store] = "live"
      BY <2>1, SessionFacts
    <3> QED BY <2>1, <3>1, <3>2, <3>3 DEF Succession
  <2> QED BY <2>1, <2>2
<1>6. CASE ~ Dispose
  <2>1. life[s] = "over"
    <3>1. Unborn # {} => Newborn \in Sessions
      BY NewbornFacts
    <3>2. life \in [Sessions -> {"unborn", "live", "over"}]
      BY <1>0 DEF TypeOK
    <3> QED BY <1>1, <1>2, <1>6, <3>1, <3>2, LifeMoves
  <2>2. live[s].on
    <3>1. live \in [Sessions -> LiveType] /\ live[s] \in LiveType
      BY SessionFacts
    <3>2. CASE Outcome
      BY <1>0, <1>1, <3>2, SettledFacts DEF Outcome
    <3>3. CASE HandsOver(s)
      BY <1>1, <3>1, <3>3 DEF HandsOver, LiveType
    <3>4. CASE Fails(s) \/ Flushed(s)
      BY <1>1, <3>1, <3>4 DEF Fails, Flushed, LiveType
    <3>5. CASE LetsGo(s)
      BY <1>1, <3>5 DEF LetsGo, NoLive
    <3>6. CASE Grows(s) \/ Born(s) \/ Retires(s)
      BY <1>4, <2>1, <3>6 DEF Grows, Born, Retires
    <3> QED BY <1>1, <1>4, <3>2, <3>3, <3>4, <3>5, <3>6 DEF Changes
  <2>3. CASE \E t \in Sessions : t >= s /\ Ended(t)
    <3>1. PICK t \in Sessions : t >= s /\ Ended(t)
      BY <2>3
    <3>2. Ended(t)'
      BY <1>1, <1>2, <1>3, <3>1, Fates
    <3> QED BY <3>1, <3>2
  <2>4. CASE retirement >= s /\ ~ \E t \in Sessions : t >= s /\ Ended(t)
    BY <1>2, <1>3, <1>6, <2>4, Forgotten
  <2> QED BY <1>4, <2>1, <2>2, <2>3, <2>4 DEF Noted
<1> QED BY <1>5, <1>6

\* The operation that registers a session or stores its seed stays on the chain
\* until its outcome is known.
LEMMA InitStays ==
  ASSUME Shaped, Titled, [Next]_vars, ~ Start, ~ Crash, NEW s \in Sessions,
         NEW k \in DOMAIN chain, chain[k].op \in InitOps, chain[k].for = s
  PROVE  \/ \E i \in DOMAIN chain' : chain'[i].op \in InitOps /\ chain'[i].for = s
         \/ Outcome /\ chain[1].op \in InitOps /\ chain[1].for = s
<1>0. TypeOK /\ chain \in Seq(Operations) /\ chain # <<>>
  <2>1. TypeOK /\ chain \in Seq(Operations)
    BY DEF Shaped, TypeOK
  <2> QED BY <2>1, EmptySeq
<1>1. CASE UNCHANGED chain
  BY <1>1
<1>2. CASE Adds
  <2>1. PICK o : Serialize(o)
    BY <1>2 DEF Adds
  <2>2. chain \in Seq(Operations \cup {o}) /\ o \in Operations \cup {o}
    BY <1>0
  <2>3. k \in DOMAIN chain' /\ chain'[k] = chain[k]
    BY <2>1, <2>2, AppendFacts DEF Serialize
  <2> QED BY <2>3
<1>3. CASE GivesUp
  <2>1. PICK i \in DOMAIN chain : chain' = RemoveAt(chain, i) /\ chain[i].op \notin Watched
    BY <1>3 DEF GivesUp
  <2>2. /\ DOMAIN chain = 1 .. Len(chain) /\ DOMAIN chain' = 1 .. Len(chain) - 1
        /\ Len(chain) \in Nat
        /\ \A n \in DOMAIN chain' : chain'[n] = IF n < i THEN chain[n] ELSE chain[n + 1]
    BY <1>0, <2>1, RemoveFacts
  <2>3. i # k
    BY <2>1 DEF Watched
  <2>4. CASE k < i
    <3>1. k \in DOMAIN chain' /\ chain'[k] = chain[k]
      BY <2>2, <2>4
    <3> QED BY <3>1
  <2>5. CASE ~ (k < i)
    <3>1. k - 1 \in DOMAIN chain' /\ ~ (k - 1 < i) /\ k - 1 + 1 = k
      BY <2>2, <2>3, <2>5
    <3>2. chain'[k - 1] = chain[k]
      BY <2>2, <3>1
    <3> QED BY <3>1, <3>2
  <2> QED BY <2>4, <2>5
<1>4. CASE HeadEnds
  <2>1. CASE k = 1
    BY <1>4, <2>1 DEF HeadEnds
  <2>2. CASE k # 1
    <3>1. chain' = Tail(chain)
      BY <1>4 DEF HeadEnds, Finish
    <3>2. /\ DOMAIN chain = 1 .. Len(chain) /\ DOMAIN chain' = 1 .. Len(chain) - 1
          /\ Len(chain) \in Nat
          /\ \A n \in DOMAIN chain' : chain'[n] = chain[n + 1]
      BY <1>0, <3>1, TailFacts
    <3>3. k - 1 \in DOMAIN chain' /\ k - 1 + 1 = k
      BY <2>2, <3>2
    <3>4. chain'[k - 1] = chain[k]
      BY <3>2, <3>3
    <3> QED BY <3>3, <3>4
  <2> QED BY <2>1, <2>2
<1>5. CASE HeadSeeds
  BY <1>5 DEF HeadSeeds, InitOps
<1> QED BY <1>1, <1>2, <1>3, <1>4, <1>5, ChainChanges

LEMMA InitializingStep ==
  ASSUME Shaped, Titled, Initializing, [Next]_vars
  PROVE  Initializing'
<1> DEFINE Registers(s) == \E k \in DOMAIN chain' : chain'[k].op \in InitOps /\ chain'[k].for = s
<1>1. SUFFICES ASSUME NEW s \in Sessions, running', live'[s].on
               PROVE  live'[s].init # "none" /\ (live'[s].init = "pending" => Registers(s))
  BY DEF Initializing
<1>2. ~ Crash
  BY <1>1 DEF Crash, NoLive
<1>3. CASE Start
  <2>1. s = store
    <3>1. s # store => live'[s] = NoLive
      BY <1>3 DEF Start
    <3> QED BY <1>1, <3>1 DEF NoLive
  <2>2. live'[s] = [NoLive EXCEPT !.on = TRUE, !.init = "pending", !.seed = Len(hist[s])]
        /\ chain' = <<Op("created", s)>>
    BY <1>3, <2>1, Ids DEF Start
  <2>3. live'[s].init = "pending"
    BY <2>2 DEF NoLive
  <2>4. 1 \in DOMAIN chain' /\ chain'[1] = Op("created", s)
    BY <2>2
  <2> QED BY <2>3, <2>4, OpShape DEF InitOps
<1>4. CASE ~ Start
  <2>0. /\ TypeOK /\ running /\ Changes(s) /\ live[s] \in LiveType /\ chain \in Seq(Operations)
    BY <1>1, <1>2, <1>4, RunsOn, LiveChanges, SessionFacts DEF Shaped, TypeOK
  <2>1. CASE Born(s)
    <3>1. live'[s].init = "pending" => \E o \in Operations : o.op \in InitOps /\ o.for = s /\ Serialize(o)
      BY <2>1 DEF Born
    <3>2. ASSUME NEW o \in Operations, o.op \in InitOps, o.for = s, Serialize(o) PROVE Registers(s)
      <4>1. Len(chain) + 1 \in DOMAIN chain' /\ chain'[Len(chain) + 1] = o
        BY <2>0, <3>2, AppendFacts DEF Serialize
      <4> QED BY <3>2, <4>1
    <3> QED BY <2>1, <3>1, <3>2 DEF Born
  <2>3. CASE Outcome
    <3>1. PICK ok \in BOOLEAN : chain # <<>> /\ live' = Settled(ok)
      BY <2>3 DEF Outcome
    <3>2. /\ live'[s].on = live[s].on
          /\ IF chain[1].op \in InitOps /\ chain[1].for = s
             THEN live'[s].init = IF ok THEN "ok" ELSE "failed"
             ELSE live'[s].init = live[s].init
      BY <2>0, <3>1, SettledFacts
    <3> QED BY <1>1, <1>2, <1>4, <2>0, <3>2, InitStays DEF Initializing
  <2>4. ASSUME live'[s].on = live[s].on, live'[s].init = live[s].init, ~ Outcome
        PROVE  live'[s].init # "none" /\ (live'[s].init = "pending" => Registers(s))
    BY <1>1, <1>2, <1>4, <2>0, <2>4, InitStays DEF Initializing
  <2>5. CASE live'[s] = live[s] \/ HandsOver(s) \/ Fails(s) \/ Flushed(s) \/ Retires(s) \/ Grows(s)
    <3>1. live'[s].on = live[s].on /\ live'[s].init = live[s].init
      BY <2>0, <2>5 DEF HandsOver, Fails, Flushed, Retires, Grows, LiveType
    <3> QED BY <2>3, <2>4, <3>1
  <2>6. ~ LetsGo(s)
    BY <1>1 DEF LetsGo, NoLive
  <2> QED BY <2>0, <2>1, <2>3, <2>5, <2>6 DEF Changes
<1> QED BY <1>2, <1>3, <1>4

\* A registration that stays queued keeps its place before what came after it.
LEMMA CreatedStays ==
  ASSUME Shaped, Titled, [Next]_vars, ~ Start, ~ Crash, NEW k \in DOMAIN chain', chain'[k].op = "created"
  PROVE  \/ /\ chain'[k].for = Newborn /\ Unborn # {}
            /\ \A j \in DOMAIN chain' :
                 j # k => \E m \in DOMAIN chain : chain'[j] = chain[m]
         \/ \E n \in DOMAIN chain :
              /\ chain[n] = chain'[k]
              /\ \A j \in DOMAIN chain' : chain'[j].op \in Watched =>
                   \/ k < j
                   \/ \E m \in DOMAIN chain :
                        /\ chain[m].op \in Watched /\ chain[m].for = chain'[j].for
                        /\ n < m => k < j
<1> DEFINE Precedes(n, j) ==
      \/ k < j
      \/ \E m \in DOMAIN chain :
           /\ chain[m].op \in Watched /\ chain[m].for = chain'[j].for
           /\ n < m => k < j
<1>0. TypeOK /\ chain \in Seq(Operations)
  BY DEF Shaped, TypeOK
<1>1. CASE UNCHANGED chain
  BY <1>1
<1>2. CASE Adds
  <2>1. PICK o : Serialize(o) /\ (o.op = "created" => o.for = Newborn /\ Unborn # {})
    BY <1>2 DEF Adds
  <2>2. chain \in Seq(Operations \cup {o}) /\ o \in Operations \cup {o}
    BY <1>0
  <2>3. /\ DOMAIN chain' = 1 .. Len(chain) + 1 /\ DOMAIN chain = 1 .. Len(chain)
        /\ \A i \in DOMAIN chain : chain'[i] = chain[i]
        /\ chain'[Len(chain) + 1] = o /\ Len(chain) \in Nat
    BY <2>1, <2>2, AppendFacts DEF Serialize
  <2>4. \A i \in DOMAIN chain' : i # Len(chain) + 1 => i \in DOMAIN chain /\ i < Len(chain) + 1
    BY <2>3
  <2>5. CASE k = Len(chain) + 1
    BY <2>1, <2>3, <2>4, <2>5
  <2>6. CASE k # Len(chain) + 1
    <3>1. k \in DOMAIN chain /\ k < Len(chain) + 1 /\ chain[k] = chain'[k]
      BY <2>3, <2>4, <2>6
    <3>2. ASSUME NEW j \in DOMAIN chain', chain'[j].op \in Watched PROVE Precedes(k, j)
      BY <2>3, <2>4, <3>1, <3>2
    <3> QED BY <3>1, <3>2
  <2> QED BY <2>5, <2>6
<1>3. ASSUME NEW d, From(Watched, d) PROVE \E n \in DOMAIN chain :
         chain[n] = chain'[k] /\ \A j \in DOMAIN chain' : chain'[j].op \in Watched => Precedes(n, j)
  <2>1. chain'[k].op \in Watched
    BY DEF Watched, InitOps
  <2>2. PICK n \in DOMAIN chain : chain[n] = chain'[k]
    BY <1>3, <2>1 DEF From
  <2>3. ASSUME NEW j \in DOMAIN chain', chain'[j].op \in Watched PROVE Precedes(n, j)
    <3>1. PICK i, m \in DOMAIN chain :
            chain'[j] = chain[i] /\ chain'[k] = chain[m] /\ (j # k => i # m) /\ (j < k => i < m)
      BY <1>3, <2>1, <2>3 DEF From
    <3>2. n = m
      <4>1. Apart(chain[n], chain[m]) \/ n = m
        BY DEF Shaped, Queued
      <4> QED BY <2>2, <3>1, <4>1 DEF Apart, InitOps
    <3>3. j \in Nat /\ k \in Nat /\ i \in Nat /\ m \in Nat
      BY <1>0, LenProperties
    <3>4. j = k => i = m
      <4>1. Apart(chain[i], chain[m]) \/ i = m
        BY DEF Shaped, Queued
      <4> QED BY <3>1, <4>1 DEF Apart, InitOps
    <3>5. n < i => k < j
      BY <3>1, <3>2, <3>3, <3>4
    <3> QED BY <2>3, <3>1, <3>5
  <2> QED BY <2>2, <2>3
<1>4. CASE GivesUp \/ HeadEnds
  <2>1. \E d : From(Watched, d)
    BY <1>0, <1>4, FromRemoved, FromTail DEF GivesUp, HeadEnds, Finish
  <2> QED BY <1>3, <2>1
<1>5. CASE HeadSeeds
  <2>1. k # 1 /\ k \in DOMAIN chain /\ chain[k] = chain'[k] /\ 1 \in DOMAIN chain
    BY <1>0, <1>5, TailFacts DEF HeadSeeds
  <2>2. ASSUME NEW j \in DOMAIN chain', chain'[j].op \in Watched PROVE Precedes(k, j)
    <3>1. CASE j = 1
      BY <1>5, <2>1, <3>1 DEF HeadSeeds, Watched, InitOps
    <3>2. CASE j # 1
      BY <1>5, <2>2, <3>2 DEF HeadSeeds
    <3> QED BY <3>1, <3>2
  <2> QED BY <2>1, <2>2
<1> QED BY <1>1, <1>2, <1>4, <1>5, ChainChanges

LEMMA InTurnStep ==
  ASSUME Shaped, Titled, Refusing, Succession, InTurn, [Next]_vars
  PROVE  InTurn'
<1> DEFINE Behind(k, t) ==
      /\ ~ Refused(t)' /\ ~ Ended(t)'
      /\ \A j \in DOMAIN chain' : chain'[j].op \in Watched /\ chain'[j].for = t => k < j
<1>0. Sessions \subseteq Nat /\ TypeOK /\ chain \in Seq(Operations)
  BY Ids DEF Shaped, TypeOK
<1>1. SUFFICES ASSUME NEW k \in DOMAIN chain', running', chain'[k].op = "created",
                      NEW t \in Sessions, t > chain'[k].for
               PROVE  Behind(k, t)
  BY DEF InTurn, Refused, Ended
<1>2. ~ Crash
  <2>1. Crash => DOMAIN chain' = {}
    BY DEF Crash
  <2> QED BY <1>1, <2>1
<1>3. CASE Start
  <2>1. chain' = <<Op("created", store)>>
    <3>1. store = Nobody => chain' = <<>>
      BY <1>3 DEF Start
    <3>2. DOMAIN <<>> = {}
      OBVIOUS
    <3>3. store # Nobody
      BY <1>1, <3>1, <3>2
    <3> QED BY <1>3, <3>3 DEF Start
  <2>2. \A j \in DOMAIN chain' : chain'[j].for = store
    BY <2>1, OpShape
  <2>3. t # store
    <3>1. t > store
      BY <1>1, <2>2
    <3> QED BY <1>0, <3>1
  <2>4. live'[t] = NoLive
    BY <1>3, <2>3 DEF Start
  <2>5. ~ Refused(t)' /\ ~ Ended(t)'
    BY <2>4 DEF Refused, Ended, NoLive
  <2> QED BY <2>2, <2>3, <2>5
<1>4. CASE ~ Start
  <2>0. running /\ (life[t] = "unborn" => live[t] = NoLive)
        /\ \A j \in DOMAIN chain : Expected(live, chain[j])
    BY <1>1, <1>2, <1>4, RunsOn, SessionFacts
  <2>1. /\ Refused(t)' \/ Ended(t)' =>
             \/ Refused(t) \/ Ended(t)
             \/ chain # <<>> /\ chain[1].op \in Watched /\ chain[1].for = t
        /\ chain # <<>> => 1 \in DOMAIN chain
    BY <1>0, <1>1, <1>2, <1>4, Fates, TailFacts
  <2>2. CASE /\ chain'[k].for = Newborn /\ Unborn # {}
             /\ \A j \in DOMAIN chain' :
                  j # k => \E m \in DOMAIN chain : chain'[j] = chain[m]
    <3>1. Newborn \in Sessions /\ life[Newborn] = "unborn"
      BY <2>2, NewbornFacts
    <3>2. life[t] = "unborn"
      <4>1. Newborn < t
        BY <1>0, <1>1, <2>2, <3>1
      <4> QED BY <3>1, <4>1 DEF Succession
    <3>3. live[t] = NoLive
      BY <2>0, <3>2
    <3>4. ~ Refused(t) /\ ~ Ended(t)
      BY <3>3 DEF Refused, Ended, NoLive
    <3>5. \A j \in DOMAIN chain : chain[j].op \in Watched => chain[j].for # t
      BY <2>0, <3>3 DEF Expected, Watched, NoLive
    <3>6. chain'[k].for # t
      BY <1>0, <1>1, <2>2, <3>1
    <3>7. \A j \in DOMAIN chain' : ~ (chain'[j].op \in Watched /\ chain'[j].for = t)
      BY <2>2, <3>5, <3>6
    <3> QED BY <2>1, <3>4, <3>5, <3>7
  <2>3. ASSUME NEW n \in DOMAIN chain, chain[n] = chain'[k],
               \A j \in DOMAIN chain' : chain'[j].op \in Watched =>
                 \/ k < j
                 \/ \E m \in DOMAIN chain :
                      /\ chain[m].op \in Watched /\ chain[m].for = chain'[j].for
                      /\ n < m => k < j
        PROVE  Behind(k, t)
    <3>1. /\ ~ Refused(t) /\ ~ Ended(t)
          /\ \A j \in DOMAIN chain : chain[j].op \in Watched /\ chain[j].for = t => n < j
      BY <1>1, <2>0, <2>3 DEF InTurn
    <3>2. ~ (n < 1)
      BY <1>0, LenProperties
    <3>3. ~ Refused(t)' /\ ~ Ended(t)'
      BY <2>1, <3>1, <3>2
    <3> QED BY <2>3, <3>1, <3>3
  <2> QED BY <1>1, <1>2, <1>4, <2>2, <2>3, CreatedStays
<1> QED BY <1>3, <1>4

LEMMA RanksInit == Init => Ranks
<1> SUFFICES ASSUME Init PROVE Ranks
  OBVIOUS
<1>1. /\ live = [s \in Sessions |-> NoLive] /\ hist = [s \in Sessions |-> <<>>]
      /\ life = [s \in Sessions |-> "unborn"] /\ chain = <<>> /\ stage = "queued"
  BY DEF Init
<1>2. \A s \in Sessions : ~ live[s].on /\ live[s].flush = "none" /\ live[s].retiring = "no"
  BY <1>1 DEF NoLive
<1>3. Refusing /\ Initializing /\ Noted /\ Ends /\ Succession /\ Titled
  BY <1>1, <1>2 DEF Refusing, Initializing, Noted, Ends, Succession, Titled
<1>4. InTurn
  BY <1>1 DEF InTurn
<1> QED BY <1>3, <1>4 DEF Ranks

LEMMA RanksStep ==
  ASSUME Shaped, Watching, Retiring, Ranks, [Next]_vars
  PROVE  Ranks'
<1>1. Refusing' /\ Titled' /\ Succession' /\ Ends'
  BY RefusingStep, TitledStep, SuccessionStep, EndsStep DEF Ranks
<1>2. Noted' /\ Initializing' /\ InTurn'
  BY NotedStep, InitializingStep, InTurnStep DEF Ranks
<1> QED BY <1>1, <1>2 DEF Ranks

-----------------------------------------------------------------------------
(* What a call waits for *)

\* An operation that registers a session is what keeps it pending, if the id is
\* not its own yet, and no later session has ended then.
LEMMA PendingFirst ==
  ASSUME Shaped, Histories, Ranks, running, NEW s \in Sessions,
         live[s].on, live[s].init = "pending", state.owner # s
  PROVE  \A t \in Sessions : t > s => ~ Ended(t)
<1>1. PICK k \in DOMAIN chain : chain[k].op \in InitOps /\ chain[k].for = s
  BY DEF Ranks, Initializing
<1>2. chain[k].op = "created"
  <2>1. Extended(chain[k])
    BY DEF Histories, Queue
  <2> QED BY <1>1, <2>1 DEF Extended, InitOps
<1> QED BY <1>1, <1>2 DEF Ranks, InTurn

\* The drain of a session goes on until its history is stored, or is refused.
LEMMA DrainsOn ==
  ASSUME Shaped, Histories, Stored, Ranks, [Next]_vars, ~ Start, ~ Crash, running',
         NEW s \in Sessions, Draining(s)
  PROVE  \/ Refused(s)' \/ IsPrefix(hist[s], disk.log)
         \/ Draining(s)' /\ hist'[s] = hist[s]
<1>1. LiveMoves(s) /\ live[s] \in LiveType /\ life[s] = "over" /\ store # s /\ running
  BY LiveStep, SessionFacts, RunsOn DEF Draining
<1>2. CASE ReleaseOwner /\ chain[1].for = s
  <2>1. live[s].queue = <<>> /\ live[s].init = "ok"
    BY <1>2, ReleasedIsOver, SessionFacts
  <2> QED BY <1>1, <2>1, DrainedIsStored DEF Draining
<1>3. CASE ~ (ReleaseOwner /\ chain[1].for = s)
  <2>1. hist'[s] = hist[s]
    BY <1>1, <1>3, OverKeeps
  <2>2. live'[s].retiring = "failed" => Refused(s)'
    BY Fates DEF Ranks
  <2> QED BY <1>1, <1>3, <2>1, <2>2
          DEF LiveMoves, Draining, Stands, Drains, Released, Disposes, Arrives
<1> QED BY <1>2, <1>3

\* While it drains, the id stays its own.
LEMMA OwnerDrains ==
  ASSUME Shaped, Histories, Stored, Ranks, [Next]_vars, ~ Start, ~ Crash, running',
         NEW s \in Sessions, Draining(s), state.owner = s
  PROVE  Refused(s)' \/ IsPrefix(hist[s], disk.log) \/ state'.owner = s
<1>0. running /\ live[s].on /\ live[s] \in LiveType /\ (Refused(s) => Refused(s)')
  BY SessionFacts, RunsOn, Fates DEF Draining, Ranks
<1>1. CASE Reclaims
  <2>1. ~ state.materialized /\ live[s].queue = <<>> /\ 1 \in DOMAIN chain /\ chain[1].op = "created"
    <3>1. chain # <<>> /\ chain[1].op = "created"
      BY <1>1 DEF Reclaims, CreatedAtHead, AtHead
    <3> QED BY <1>0, <1>1, <3>1, HeadFacts DEF Reclaims, Abandoned, Shaped
  <2>2. live[s].init # "pending"
    <3>1. SUFFICES ASSUME NEW k \in DOMAIN chain, chain[k].op \in InitOps, chain[k].for = s
                   PROVE  FALSE
      BY <1>0 DEF Ranks, Initializing
    <3>2. Extended(chain[k]) /\ (1 < k => Follows(chain[1], chain[k]))
      BY <2>1 DEF Histories, Queue
    <3>3. k = 1 \/ 1 < k
      BY LenProperties DEF Shaped, TypeOK
    <3> QED BY <2>1, <3>1, <3>2, <3>3 DEF Extended, Follows, InitOps
  <2>3. CASE live[s].init = "ok"
    BY <1>0, <2>1, <2>3, DrainedIsStored
  <2>4. CASE live[s].init # "ok"
    BY <1>0, <2>2, <2>4 DEF Ranks, Initializing, LiveType, Refused
  <2> QED BY <2>3, <2>4
<1>2. CASE ReleaseOwner /\ chain[1].for = s
  <2>1. live[s].queue = <<>> /\ live[s].init = "ok"
    BY <1>2, ReleasedIsOver, SessionFacts
  <2> QED BY <1>0, <2>1, DrainedIsStored
<1> QED BY <1>1, <1>2, OwnerKept

\* Or it becomes its own, once its registration is through.
LEMMA PendingDrains ==
  ASSUME Shaped, Histories, Ranks, [Next]_vars, ~ Start, ~ Crash, running',
         NEW s \in Sessions, Draining(s), Draining(s)', live[s].init = "pending"
  PROVE  Refused(s)' \/ live'[s].init = "pending" \/ state'.owner = s
<1>1. LiveMoves(s) /\ life[s] = "over" /\ store # s
  BY LiveStep, SessionFacts DEF Draining
<1>2. live'[s] \in LiveType /\ live'[s].init # "none"
  <2>1. Shaped' /\ Initializing'
    BY ShapedStep, InitializingStep DEF Ranks
  <2> QED BY <2>1 DEF Shaped, TypeOK, Initializing, Draining
<1>3. CASE Stands(s)
  BY <1>2, <1>3 DEF Stands, Refused, LiveType
<1>4. CASE Drains(s)
  BY <1>4 DEF Drains
<1> QED BY <1>1, <1>3, <1>4 DEF LiveMoves, Released, Disposes, Arrives, Draining

\* A call that goes on is kept from answering too early: an inspect by the wait
\* for the last retirement, any other by the session's hold on the id ...
Blocks(c, s) ==
  IF caller[c].mode = "inspect" THEN caller[c].pc = "retire" /\ caller[c].waits = s
  ELSE \/ state.owner = s
       \/ /\ caller[c].pc = "retire" /\ caller[c].waits >= s
          /\ live[s].init = "pending"
\* ... so that what it found draining is stored first, unless it is refused.
Owes(c, t) ==
  \/ Refused(t.of) \/ IsPrefix(t.log, disk.log)
  \/ Draining(t.of) /\ t.log = hist[t.of] /\ Blocks(c, t.of)
Owing ==
  \A c \in Callers : caller[c].pc # "idle" =>
    /\ IsPrefix(caller[c].owed, disk.log)
    /\ \A t \in caller[c].tails :
         (caller[c].mode = "inspect" /\ Overtaken(c, t)) \/ Owes(c, t)
\* Only an inspect checks.
Checking == \A c \in Callers : caller[c].pc = "checking" => caller[c].mode = "inspect"

LEMMA CheckingStep ==
  ASSUME Shaped, Reservations, Checking, [Next]_vars
  PROVE  Checking'
<1>1. SUFFICES ASSUME NEW c \in Callers, caller'[c].pc = "checking"
               PROVE  caller'[c].mode = "inspect"
  BY DEF Checking
<1>2. caller[c] \in CallType /\ caller \in [Callers -> CallType] /\ NoCall.pc = "idle" /\ Moves(c)
  BY CallMoves DEF Shaped, TypeOK, NoCall
<1>3. CASE Goes(c) \/ SetupAppends(c)
  <2>1. caller'[c].pc = caller[c].pc /\ caller'[c].mode = caller[c].mode
    BY <1>1, <1>2, <1>3 DEF Goes, SetupAppends, CallType
  <2> QED BY <1>1, <2>1 DEF Checking
<1>4. CASE Inspects(c)
  BY <1>1, <1>2, <1>4 DEF Inspects, HangUp, CallType
<1>5. ~ (Retries(c) \/ Loads(c) \/ Answers(c) \/ Reserve(c))
  <2>1. Retries(c) => caller'[c].pc = "retire"
    BY <1>2 DEF Retries, CallType
  <2>2. Loads(c) => caller'[c].pc = "loaded"
    BY <1>2 DEF Loads, CallType
  <2>3. Answers(c) => caller'[c].pc \in {"returned", "reserved"}
    BY <1>2 DEF Answers, CallType
  <2>4. Reserve(c) => caller'[c].pc = "committing"
    BY <1>2 DEF Reserve, CallType
  <2> QED BY <1>1, <2>1, <2>2, <2>3, <2>4
<1>6. ~ ((\E m \in Modes : Begin(c, m)) \/ FindsCold(c))
  <2>1. \A m \in Modes : Begin(c, m) => caller'[c].pc = "retire"
    BY <1>2 DEF Begin, NoCall
  <2>2. FindsCold(c) => caller'[c].pc \in {"loading", "loaded"}
    BY <1>2 DEF FindsCold, CallType
  <2> QED BY <1>1, <2>1, <2>2
<1> QED BY <1>2, <1>3, <1>4, <1>5, <1>6 DEF Moves

\* What a waiting call is owed stays owed, until it is in the log.
LEMMA OwesStep ==
  ASSUME Shaped, Histories, Stored, Ranks, [Next]_vars, ~ Start, ~ Crash, running',
         NEW c \in Callers, NEW t \in [of : Sessions, log : Seq(Events)], Owes(c, t),
         caller'[c].mode = caller[c].mode,
         caller[c].pc = "retire" =>
           \/ caller'[c].pc = "retire" /\ caller'[c].waits = caller[c].waits
           \/ caller[c].waits \in Sessions => live[caller[c].waits].retiring = "released",
         caller[c].waits \in Sessions \cup {Nobody}
  PROVE  Owes(c, t)'
<1> DEFINE s == t.of
<1>0. s \in Sessions /\ t.log \in Seq(Events) /\ running /\ Sessions \subseteq Nat /\ Nobody \in Nat
      /\ \A r \in Sessions : r > Nobody
  BY RunsOn, Ids DEF Nobody
<1> HIDE DEF s
<1>1. CASE Refused(s)
  <2>1. Refused(s)'
    BY <1>0, <1>1, Fates DEF Ranks
  <2> QED BY <2>1 DEF Owes, s
<1>2. ASSUME IsPrefix(t.log, disk.log) PROVE Owes(c, t)'
  <2>1. IsPrefix(t.log, disk'.log)
    BY <1>0, <1>2, LogKept
  <2> QED BY <2>1 DEF Owes
<1>3. CASE Draining(s) /\ t.log = hist[s] /\ Blocks(c, s)
  <2>1. CASE Refused(s)' \/ IsPrefix(hist[s], disk.log)
    BY <1>2, <1>3, <2>1 DEF Owes, s
  <2>2. CASE Draining(s)' /\ hist'[s] = hist[s] /\ ~ Refused(s)' /\ ~ IsPrefix(hist[s], disk.log)
    <3>1. live[s].retiring # "released" /\ live[s].on /\ ~ Ended(s)
      BY <1>3 DEF Draining, Ended
    <3>2. CASE caller[c].mode = "inspect"
      <4>1. caller[c].pc = "retire" /\ caller[c].waits = s
        BY <1>3, <3>2 DEF Blocks
      <4>2. caller'[c].pc = "retire" /\ caller'[c].waits = s
        BY <1>0, <3>1, <4>1
      <4>3. Blocks(c, s)'
        BY <3>2, <4>2 DEF Blocks
      <4> QED BY <1>3, <2>2, <4>3 DEF Owes, s
    <3>3. CASE caller[c].mode # "inspect" /\ state.owner = s
      <4>1. state'.owner = s
        BY <1>0, <1>3, <2>2, <3>3, OwnerDrains
      <4>2. Blocks(c, s)'
        BY <3>3, <4>1 DEF Blocks
      <4> QED BY <1>3, <2>2, <4>2 DEF Owes, s
    <3>4. CASE caller[c].mode # "inspect" /\ state.owner # s
      <4>1. caller[c].pc = "retire" /\ caller[c].waits >= s /\ live[s].init = "pending"
        BY <1>3, <3>4 DEF Blocks
      <4>2. \A r \in Sessions : r > s => ~ Ended(r)
        BY <1>0, <3>1, <3>4, <4>1, PendingFirst
      <4>3. caller[c].waits \in Sessions
        BY <1>0, <4>1
      <4>4. live[caller[c].waits].retiring # "released"
        <5>1. caller[c].waits = s \/ caller[c].waits > s
          <6>1. caller[c].waits \in Nat /\ s \in Nat
            BY <1>0, <4>3
          <6> QED BY <4>1, <6>1
        <5> QED BY <3>1, <4>2, <4>3, <5>1 DEF Ended
      <4>5. caller'[c].pc = "retire" /\ caller'[c].waits >= s
        BY <4>1, <4>3, <4>4
      <4>6. live'[s].init = "pending" \/ state'.owner = s
        BY <1>0, <1>3, <2>2, <4>1, PendingDrains
      <4>7. Blocks(c, s)'
        BY <3>4, <4>5, <4>6 DEF Blocks
      <4> QED BY <1>3, <2>2, <4>7 DEF Owes, s
    <3> QED BY <3>2, <3>3, <3>4
  <2> QED BY <1>0, <1>3, <2>1, <2>2, DrainsOn
<1> QED BY <1>1, <1>2, <1>3 DEF Owes, s

\* A call is owed what is durable when it begins, and what drains then.
LEMMA OwesBegin ==
  ASSUME Shaped, Histories, Stored, Retiring, Ranks, running, NEW c \in Callers,
         NEW m \in Modes, Begin(c, m), NEW t \in Tails
  PROVE  (m = "inspect" /\ \E u \in Tails : u.of > t.of) \/ Owes(c, t)'
<1> USE DEF sessions, storage
<1>1. PICK s \in Sessions : t = [of |-> s, log |-> hist[s]] /\ life[s] = "over"
  BY DEF Tails
<1>2. t.of = s /\ t.log = hist[s]
  BY <1>1
<1>3. /\ caller'[c].pc = "retire" /\ caller'[c].waits = retirement /\ caller'[c].mode = m
      /\ UNCHANGED <<live, hist, disk, state>>
  BY DEF Begin, NoCall, Shaped, TypeOK
<1>4. /\ Sessions \subseteq Nat /\ s \in Nat /\ live[s] \in LiveType
      /\ retirement \in Sessions \cup {Nobody} /\ Nobody = 0
      /\ disk.log \in Seq(Events) /\ s > 0
  BY Ids, SessionFacts DEF Shaped, TypeOK, Disks, Nobody
<1>5. CASE ~ live[s].on
  <2>1. hist[s] = <<>>
    BY <1>1, <1>5 DEF Ranks, Ends
  <2>2. IsPrefix(t.log, disk'.log)
    <3>1. IsPrefix(<<>>, disk.log)
      BY <1>4, StartPrefix, LenProperties
    <3> QED BY <1>2, <1>3, <2>1, <3>1
  <2> QED BY <2>2 DEF Owes
<1>6. CASE live[s].on /\ live[s].retiring = "failed"
  <2>1. Refused(s)'
    BY <1>3, <1>6 DEF Ranks, Refusing, Refused
  <2> QED BY <1>2, <2>1 DEF Owes
<1>7. CASE live[s].on /\ live[s].retiring # "failed"
  <2>1. Draining(s) /\ ~ Ended(s) /\ Draining(s)' /\ t.log = hist'[s]
    BY <1>1, <1>2, <1>3, <1>7 DEF Ranks, Ends, Draining, Ended
  <2>2. retirement >= s \/ \E r \in Sessions : r >= s /\ Ended(r)
    BY <1>1, <1>7 DEF Ranks, Noted
  <2>3. ASSUME NEW r \in Sessions, r >= s, Ended(r) PROVE r > s
    <3>1. r # s /\ r \in Nat
      BY <1>4, <2>1, <2>3
    <3> QED BY <1>4, <2>3, <3>1
  <2>4. CASE m = "inspect"
    <3>1. ASSUME NEW r \in Sessions, r > s, life[r] = "over"
          PROVE  \E u \in Tails : u.of > t.of
      <4>1. [of |-> r, log |-> hist[r]] \in Tails
        BY <3>1 DEF Tails
      <4> QED BY <1>2, <3>1, <4>1
    <3>2. \A r \in Sessions : Ended(r) \/ Draining(r) => life[r] = "over"
      BY SessionFacts DEF Ended, Draining
    <3>3. CASE \E r \in Sessions : r >= s /\ Ended(r)
      BY <2>3, <2>4, <3>1, <3>2, <3>3
    <3>4. CASE retirement > s
      <4>1. retirement \in Sessions /\ Draining(retirement)
        BY <1>4, <3>4, Ids DEF Retiring
      <4> QED BY <2>4, <3>1, <3>2, <3>4, <4>1
    <3>5. CASE retirement = s
      <4>1. Blocks(c, s)'
        BY <1>3, <2>4, <3>5 DEF Blocks
      <4> QED BY <1>2, <2>1, <4>1 DEF Owes
    <3> QED BY <1>4, <2>2, <3>3, <3>4, <3>5
  <2>5. CASE m # "inspect"
    <3>1. CASE state.owner = s
      <4>1. Blocks(c, s)'
        BY <1>3, <2>5, <3>1 DEF Blocks
      <4> QED BY <1>2, <2>1, <4>1 DEF Owes
    <3>2. CASE state.owner # s /\ live[s].init = "ok"
      <4>1. IsPrefix(t.log, disk'.log)
        BY <1>2, <1>3, <1>7, <3>2 DEF Stored
      <4> QED BY <4>1 DEF Owes
    <3>3. CASE live[s].init = "failed"
      <4>1. Refused(s)'
        BY <1>3, <3>3 DEF Refused
      <4> QED BY <1>2, <4>1 DEF Owes
    <3>4. CASE state.owner # s /\ live[s].init = "pending"
      <4>1. retirement >= s
        BY <1>7, <2>2, <2>3, <3>4, PendingFirst
      <4>2. Blocks(c, s)'
        BY <1>3, <2>5, <3>4, <4>1 DEF Blocks
      <4> QED BY <1>2, <2>1, <4>2 DEF Owes
    <3> QED BY <1>4, <1>7, <3>1, <3>2, <3>3, <3>4 DEF Ranks, Initializing, LiveType
  <2> QED BY <2>4, <2>5
<1> QED BY <1>5, <1>6, <1>7

LEMMA OwingStep ==
  ASSUME Shaped, Reservations, Reservations', Histories, Stored, Retiring, Ranks, Owing, [Next]_vars
  PROVE  Owing'
<1> USE DEF sessions, storage
<1> DEFINE Due(c) ==
      /\ IsPrefix(caller'[c].owed, disk'.log)
      /\ \A t \in caller'[c].tails :
           (caller'[c].mode = "inspect" /\ Overtaken(c, t)') \/ Owes(c, t)'
<1>1. SUFFICES ASSUME NEW c \in Callers, caller'[c].pc # "idle"
               PROVE  Due(c)
  BY DEF Owing, Owes, Overtaken, Blocks, Refused, Draining
<1>2. TypeOK /\ caller[c] \in CallType /\ caller \in [Callers -> CallType] /\ NoCall.pc = "idle"
  BY DEF Shaped, TypeOK, NoCall
<1>3. ~ Start /\ ~ Crash /\ running /\ running'
  <2>1. running'
    BY <1>1 DEF Reservations, Calls
  <2>2. ~ Crash
    BY <1>1, <1>2 DEF Crash
  <2>3. ~ Start
    BY <1>1 DEF Start, Reservations, Calls
  <2> QED BY <2>1, <2>2, <2>3, RunsOn
<1>4. ASSUME caller[c].pc # "idle", caller'[c].owed = caller[c].owed,
             caller'[c].tails = caller[c].tails, caller'[c].mode = caller[c].mode,
             caller[c].pc = "retire" =>
               \/ caller'[c].pc = "retire" /\ caller'[c].waits = caller[c].waits
               \/ caller[c].waits \in Sessions => live[caller[c].waits].retiring = "released"
      PROVE  Due(c)
  <2>1. /\ caller[c].owed \in Seq(Events) /\ caller[c].waits \in Sessions \cup {Nobody}
        /\ \A t \in caller[c].tails : t \in [of : Sessions, log : Seq(Events)]
    BY <1>2 DEF CallType
  <2>2. IsPrefix(caller'[c].owed, disk'.log)
    BY <1>4, <2>1, LogKept DEF Owing
  <2>3. ASSUME NEW t \in caller[c].tails
        PROVE  (caller'[c].mode = "inspect" /\ Overtaken(c, t)') \/ Owes(c, t)'
    <3>1. (caller[c].mode = "inspect" /\ Overtaken(c, t)) \/ Owes(c, t)
      BY <1>4, <2>3 DEF Owing
    <3>2. CASE caller[c].mode = "inspect" /\ Overtaken(c, t)
      BY <1>4, <3>2 DEF Overtaken
    <3>3. CASE Owes(c, t)
      BY <1>3, <1>4, <2>1, <2>3, <3>3, OwesStep
    <3> QED BY <3>1, <3>2, <3>3
  <2> QED BY <1>4, <2>2, <2>3
<1>5. CASE Goes(c)
  <2>1. caller'[c] \in {caller[c], [caller[c] EXCEPT !.aborted = TRUE]}
    BY <1>1, <1>2, <1>5 DEF Goes
  <2>2. /\ caller'[c].owed = caller[c].owed /\ caller'[c].pc = caller[c].pc
        /\ caller'[c].waits = caller[c].waits /\ caller'[c].tails = caller[c].tails
        /\ caller'[c].mode = caller[c].mode
    BY <1>2, <2>1 DEF CallType
  <2> QED BY <1>1, <1>4, <2>2
<1>6. CASE Retries(c)
  <2>1. /\ caller'[c].owed = caller[c].owed /\ caller[c].pc \notin {"idle", "retire"}
        /\ caller'[c].tails = caller[c].tails /\ caller'[c].mode = caller[c].mode
    BY <1>2, <1>6 DEF Retries, CallType
  <2> QED BY <1>4, <2>1
<1>7. CASE Loads(c)
  <2>1. /\ caller'[c].owed = caller[c].owed /\ caller'[c].tails = caller[c].tails
        /\ caller'[c].mode = caller[c].mode
    BY <1>2, <1>7 DEF Loads, CallType
  <2>2. caller[c].gen \in Generations
    BY <1>2, <1>7, HeadFacts DEF Loads, PrepareCore, AtHead
  <2>3. caller[c].pc \notin {"idle", "retire"}
    BY <2>2, Ids DEF Reservations, Calls
  <2> QED BY <1>4, <2>1, <2>3
<1>8. CASE Answers(c)
  <2>1. /\ caller'[c].owed = caller[c].owed /\ caller[c].pc \notin {"idle", "retire"}
        /\ caller'[c].tails = caller[c].tails /\ caller'[c].mode = caller[c].mode
    BY <1>2, <1>8 DEF Answers, CallType
  <2> QED BY <1>4, <2>1
<1>9. CASE Reserve(c) \/ Inspects(c)
  <2>1. /\ caller'[c].owed = caller[c].owed /\ caller[c].pc \notin {"idle", "retire"}
        /\ caller'[c].tails = caller[c].tails /\ caller'[c].mode = caller[c].mode
    BY <1>1, <1>2, <1>9 DEF Reserve, Inspects, Loaded, HangUp, CallType
  <2> QED BY <1>4, <2>1
<1>10. CASE SetupAppends(c)
  <2>1. /\ caller'[c].owed = caller[c].owed /\ caller[c].pc \notin {"idle", "retire"}
        /\ caller'[c].tails = caller[c].tails /\ caller'[c].mode = caller[c].mode
    BY <1>2, <1>10 DEF SetupAppends, CallType
  <2> QED BY <1>4, <2>1
<1>11. CASE FindsCold(c)
  <2>1. /\ caller'[c].owed = caller[c].owed /\ caller[c].pc = "retire"
        /\ caller'[c].tails = caller[c].tails /\ caller'[c].mode = caller[c].mode
    BY <1>2, <1>11 DEF FindsCold, CallType
  <2>2. caller[c].waits \in Sessions => live[caller[c].waits].retiring = "released"
    BY <1>11, Ids DEF FindsCold
  <2> QED BY <1>4, <2>1, <2>2
<1>12. ASSUME NEW m \in Modes, Begin(c, m) PROVE Due(c)
  <2>1. /\ caller'[c].owed = disk.log /\ caller'[c].tails = Tails /\ caller'[c].mode = m
        /\ disk' = disk
    BY <1>2, <1>12 DEF Begin, NoCall
  <2>2. disk.log \in Seq(Events)
    BY LogKept
  <2>3. IsPrefix(caller'[c].owed, disk'.log)
    BY <2>1, <2>2, PrefixRefl
  <2>4. ASSUME NEW t \in Tails
        PROVE  (caller'[c].mode = "inspect" /\ Overtaken(c, t)') \/ Owes(c, t)'
    <3>1. (m = "inspect" /\ \E u \in Tails : u.of > t.of) \/ Owes(c, t)'
      BY <1>3, <1>12, OwesBegin
    <3> QED BY <2>1, <3>1 DEF Overtaken
  <2> QED BY <2>1, <2>3, <2>4
<1>13. Moves(c)
  BY CallMoves
<1> QED BY <1>5, <1>6, <1>7, <1>8, <1>9, <1>10, <1>11, <1>12, <1>13 DEF Moves

-----------------------------------------------------------------------------
(* What a call answers with *)

\* Whatever a call answers with it has just read, or shares with whoever has.
LEMMA AnswersWithLog ==
  ASSUME Shaped, Reservations, Cached, NEW c \in Callers, Answers(c)
  PROVE  caller[c].source.log = disk.log
<1>1. TypeOK /\ caller[c] \in CallType /\ caller \in [Callers -> CallType] /\ c = chain[1].for
  BY DEF Shaped, TypeOK, Answers
<1>2. CASE Commit
  BY <1>1, <1>2 DEF Commit, Source
<1>3. CASE Check
  <2>1. chain # <<>> /\ chain[1].op = "check" /\ caller[c].pc = "checking"
    BY <1>1, <1>3, HeadFacts DEF Check, AtHead, Reservations, Served, Serves
  <2>2. caller'[c].pc \in {"returned", "reserved"}
    BY <1>1 DEF Answers, CallType
  <2>3. caller' # HangUp(c)
    BY <1>1, <2>2 DEF HangUp, NoCall
  <2>4. caller' # TryAgain(c)
    BY <1>1, <2>2, <2>3 DEF TryAgain, CallType
  <2>5. caller[c].source = disk \/ entry.gen = caller[c].gen
    BY <1>1, <1>3, <2>3, <2>4 DEF Check, Source
  <2>6. CASE entry.gen = caller[c].gen
    <3>1. entry.source = caller[c].source
      BY <2>1, <2>6 DEF Reservations, Calls
    <3> QED BY <2>1, <2>6, <3>1 DEF Cached
  <2> QED BY <2>5, <2>6
<1> QED BY <1>2, <1>3 DEF Answers

LEMMA ViewStep ==
  ASSUME Shaped, Reservations, Reservations', Histories, Cached, Ranks, Owing, Checking,
         ViewReachesTail, [Next]_vars
  PROVE  ViewReachesTail'
<1> DEFINE Fits(c) ==
      /\ IsPrefix(caller'[c].owed, caller'[c].view)
      /\ \A t \in caller'[c].tails :
           \/ caller'[c].mode = "inspect" /\ Overtaken(c, t)'
           \/ Refused(t.of)' \/ IsPrefix(t.log, caller'[c].view)
<1>1. SUFFICES ASSUME NEW c \in Callers, caller'[c].pc \in {"returned", "reserved"}
               PROVE  Fits(c)
  BY DEF ViewReachesTail, Reaches, Refused, Overtaken
<1>2. /\ TypeOK /\ caller[c] \in CallType /\ caller \in [Callers -> CallType]
      /\ disk.log \in Seq(Events) /\ NoCall.pc = "idle"
      /\ \A t \in caller[c].tails : t.of \in Sessions /\ t.log \in Seq(Events)
  BY DEF Shaped, TypeOK, Disks, NoCall, CallType
<1>3. ~ Start /\ ~ Crash /\ running'
  <2>1. ~ Crash
    BY <1>1, <1>2 DEF Crash
  <2>2. ~ Start
    BY <1>1 DEF Start, Reservations, Calls
  <2> QED BY <1>1, <2>1, <2>2 DEF Reservations, Calls
<1>4. \A t \in caller[c].tails : Refused(t.of) => Refused(t.of)'
  BY <1>2, <1>3, Fates DEF Ranks
<1>5. CASE Goes(c) \/ SetupAppends(c)
  <2>1. /\ caller'[c].pc = caller[c].pc /\ caller'[c].owed = caller[c].owed
        /\ caller'[c].view = caller[c].view /\ caller'[c].tails = caller[c].tails
        /\ caller'[c].mode = caller[c].mode
    BY <1>1, <1>2, <1>5 DEF Goes, SetupAppends, CallType
  <2>2. IsPrefix(caller[c].owed, caller[c].view)
        /\ \A t \in caller[c].tails :
             (caller[c].mode = "inspect" /\ Overtaken(c, t)) \/ Reaches(c, t)
    BY <1>1, <2>1 DEF ViewReachesTail
  <2> QED BY <1>4, <2>1, <2>2 DEF Reaches, Overtaken
<1>6. CASE Answers(c)
  <2>1. /\ caller'[c].owed = caller[c].owed /\ caller[c].pc \in {"checking", "committing"}
        /\ caller'[c].tails = caller[c].tails /\ caller'[c].mode = caller[c].mode
        /\ caller'[c].view = Balanced(disk.log) /\ caller[c].owed \in Seq(Events)
    BY <1>2, <1>6, AnswersWithLog DEF Answers, CallType
  <2>2. \A p \in Seq(Events) : IsPrefix(p, disk.log) => IsPrefix(p, caller'[c].view)
    BY <1>2, <2>1, BalancedFacts, PrefixTrans
  <2>3. IsPrefix(caller[c].owed, disk.log)
        /\ \A t \in caller[c].tails :
             (caller[c].mode = "inspect" /\ Overtaken(c, t)) \/ Owes(c, t)
    BY <2>1 DEF Owing
  <2>4. ASSUME NEW t \in caller[c].tails PROVE ~ Blocks(c, t.of)
    <3>1. caller[c].pc # "retire"
      BY <2>1
    <3>2. CASE caller[c].mode = "inspect"
      BY <3>1, <3>2 DEF Blocks
    <3>3. CASE caller[c].mode # "inspect"
      <4>1. Commit
        <5>1. Check => caller[c].pc = "checking"
          BY <1>2, <1>6, HeadFacts DEF Check, AtHead, Answers, Reservations, Served, Serves
        <5> QED BY <1>6, <3>3, <5>1 DEF Answers, Checking
      <4>2. state.owner = Nobody
        BY <4>1 DEF Commit
      <4> QED BY <1>2, <2>4, <3>1, <3>3, <4>2, Ids DEF Blocks
    <3> QED BY <3>2, <3>3
  <2>5. \A t \in caller[c].tails :
          \/ caller[c].mode = "inspect" /\ Overtaken(c, t)
          \/ Refused(t.of) \/ IsPrefix(t.log, disk.log)
    BY <2>3, <2>4 DEF Owes
  <2> QED BY <1>2, <1>4, <2>1, <2>2, <2>3, <2>5 DEF Overtaken
<1>7. ~ (Retries(c) \/ Loads(c) \/ Reserve(c))
  <2>1. Retries(c) => caller'[c].pc = "retire"
    BY <1>2 DEF Retries, CallType
  <2>2. Loads(c) => caller'[c].pc = "loaded"
    BY <1>2 DEF Loads, CallType
  <2>3. Reserve(c) => caller'[c].pc = "committing"
    BY <1>2 DEF Reserve, CallType
  <2> QED BY <1>1, <2>1, <2>2, <2>3
<1>8. CASE (\E m \in Modes : Begin(c, m)) \/ FindsCold(c) \/ Inspects(c)
  <2>1. (\E m \in Modes : Begin(c, m)) => caller'[c].pc = "retire"
    BY <1>2 DEF Begin, NoCall
  <2>2. FindsCold(c) => caller'[c].pc \in {"loading", "loaded"}
    BY <1>2 DEF FindsCold, CallType
  <2>3. Inspects(c) => caller'[c].pc \in {"idle", "checking"}
    BY <1>2 DEF Inspects, HangUp, NoCall, CallType
  <2> QED BY <1>1, <1>8, <2>1, <2>2, <2>3
<1> QED BY <1>5, <1>6, <1>7, <1>8, CallMoves DEF Moves

Reaching ==
  /\ Stored /\ Watching /\ Retiring /\ Ranks /\ Owing /\ Checking
  /\ Cached /\ Precede /\ Discards /\ ViewReachesTail

LEMMA ReachingInit == Init => Reaching
<1> SUFFICES ASSUME Init PROVE Reaching
  OBVIOUS
<1>1. Stored /\ Watching /\ Retiring
  BY DEF Init, Stored, Watching, Retiring, NoLive
<1>2. Owing /\ ViewReachesTail /\ Checking
  BY DEF Init, Owing, ViewReachesTail, Checking, NoCall
<1>3. Cached
  BY DEF Init, Cached, Read, NoEntry, NoCall
<1>4. Precede /\ Discards
  BY DEF Init, Precede, Discards
<1> QED BY <1>1, <1>2, <1>3, <1>4, RanksInit DEF Reaching

LEMMA ReachingStep ==
  ASSUME Shaped, Reservations, Histories, Repairing, Reaching, [Next]_vars
  PROVE  Reaching'
<1>1. Reservations'
  BY ReservationsStep
<1>2. Stored' /\ Watching' /\ Retiring' /\ Ranks' /\ Owing' /\ Checking'
  BY <1>1, StoredStep, WatchingStep, RetiringStep, RanksStep, OwingStep, CheckingStep DEF Reaching
<1>3. Cached' /\ Precede' /\ Discards' /\ ViewReachesTail'
  BY <1>1, CachedStep, PrecedeStep, DiscardsStep, ViewStep DEF Reaching
<1> QED BY <1>2, <1>3 DEF Reaching

\* An answer reaches the tail: what prepare(), load() and inspect() answer with
\* begins with all that was stored when the call began, and with the history of
\* every disposed session that drained then, whatever the map of retirements
\* held, unless that drain was refused; an inspect, of the last one disposed
\* (waitForRetirement, retire, commitPrepared).
THEOREM AnswersReachTheTail == Spec => []ViewReachesTail
<1>1. Init => Sparing /\ Reaching
  BY SparingInit, ReachingInit
<1>2. Shaped /\ Reservations /\ Histories /\ Sparing /\ [Next]_vars => Sparing'
  BY SparingStep
<1>3. Shaped /\ Reservations /\ Histories /\ Sparing /\ Reaching /\ [Next]_vars => Reaching'
  BY ReachingStep DEF Sparing
<1>4. Reaching => ViewReachesTail
  BY DEF Reaching
<1> QED BY <1>1, <1>2, <1>3, <1>4, HistoriesHold, PTL DEF Spec
=============================================================================
