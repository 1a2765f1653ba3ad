------------------------ MODULE SessionPersistence ------------------------
(***************************************************************************)
(* The persistence coordinator, for one session id: the durable log, the   *)
(* live sessions that come and go under the id, the chain that serializes  *)
(* the id's operations, and the shared preparation a resume reserves       *)
(* (session-persistence/src/coordinator.ts and preparations.ts).           *)
(*                                                                         *)
(* An event keeps its author and the little of its type recovery needs: it *)
(* opens a turn, closes it, marks the end of a seed, or is neutral. A      *)
(* session's write controller keeps what module WriteBehind proves of it:  *)
(* it hands over what it queued, in order, one batch at a time. An action  *)
(* is what runs between two awaits; reads are atomic, because writers of   *)
(* the id are behind them on the chain; a write takes two steps, and the   *)
(* process may die between them.                                           *)
(***************************************************************************)
EXTENDS Naturals, Sequences, FiniteSets, SequencesExt

CONSTANTS MaxSessions,  \* bound: lifecycles under the id, numbered in order
          Callers,      \* concurrent prepare, load and inspect calls
          MaxEvents,    \* bound: events one lifecycle publishes
          MaxUpsets,    \* bound: refused backend calls, crashes and reloads
          Detached      \* bound: the service calls of which one is made besides

ASSUME PersistenceAssumption ==
  /\ MaxSessions \in Nat \ {0} /\ MaxEvents \in Nat /\ MaxUpsets \in Nat
  /\ IsFiniteSet(Callers)
  /\ Detached \subseteq {"create", "append", "header"}

Sessions == 1 .. MaxSessions
Nobody == 0
Recovery == MaxSessions + 1
Outside == MaxSessions + 2

Kinds == {"start", "end", "mark", "note"}
Events == [by : Sessions \cup {Recovery, Outside}, kind : Kinds]
Modes == {"prepare", "load", "inspect"}

VARIABLES
  running,     \* the coordinator's plugin is loaded
  disk,        \* the id's artifact: its events, and whether a fragment follows
  state,       \* states.get(id): absent, or cursor, materialized and owner
  chain,       \* operations queued for the id; the head is running
  stage,       \* what the head waits for
  batch,       \* the events it is writing
  store,       \* the live session of the id in SessionStore
  life,        \* each lifecycle: unborn, live or over
  hist,        \* session.events of each lifecycle still referred to
  live,        \* the coordinator's LiveSessionState of each lifecycle
  retirement,  \* retirements.get(id)
  entry,       \* the preparation of the id, and the source it holds
  made,        \* whether the one detached service call was made
  caller,      \* each call in progress
  upsets       \* upsets so far

storage == <<disk, stage, batch, upsets>>
sessions == <<store, life, hist>>
vars == <<running, disk, state, chain, stage, batch, store, life, hist, live,
          retirement, entry, made, caller, upsets>>

\* Bound: entry objects of the id that anyone still refers to.
Generations == 1 .. Cardinality(Callers) + 2
NoState == [tracked |-> FALSE, cursor |-> 0, materialized |-> FALSE,
            owner |-> Nobody]
Tracked(c, m, o) == [tracked |-> TRUE, cursor |-> c, materialized |-> m,
                     owner |-> o]
Absent == [exists |-> FALSE, log |-> <<>>, torn |-> FALSE]
NoEntry == [gen |-> 0, phase |-> "none", source |-> Absent]
NoLive == [on |-> FALSE, init |-> "none", seed |-> 0, queue |-> <<>>,
           writing |-> 0, flush |-> "none", retiring |-> "no"]
NoCall == [pc |-> "idle", mode |-> "load", gen |-> 0, waits |-> Nobody,
           source |-> Absent, aborted |-> FALSE, extra |-> <<>>,
           owed |-> <<>>, tails |-> {}, view |-> <<>>]

Init ==
  /\ running = TRUE
  /\ disk = Absent
  /\ state = NoState
  /\ chain = <<>> /\ stage = "queued" /\ batch = <<>>
  /\ store = Nobody
  /\ life = [s \in Sessions |-> "unborn"]
  /\ hist = [s \in Sessions |-> <<>>]
  /\ live = [s \in Sessions |-> NoLive]
  /\ retirement = Nobody
  /\ entry = NoEntry
  /\ made = FALSE
  /\ caller = [c \in Callers |-> NoCall]
  /\ upsets = 0

-----------------------------------------------------------------------------
(* Logs *)

Open(log) ==
  \E i \in DOMAIN log : /\ log[i].kind = "start"
                        /\ \A j \in i + 1 .. Len(log) : log[j].kind # "end"

\* interruptedTurnClosers: nothing for a log that ends between turns.
Closers(log) ==
  IF Open(log) THEN <<[by |-> Recovery, kind |-> "end"]>> ELSE <<>>
Balanced(log) == log \o Closers(log)

\* The Session constructor ends its seed with one session/end-seed.
Marked(log, s) ==
  IF log # <<>> /\ log[Len(log)].kind = "mark" THEN log
  ELSE Append(log, [by |-> s, kind |-> "mark"])

Unborn == {s \in Sessions : life[s] = "unborn"}
Newborn == CHOOSE s \in Unborn : \A t \in Unborn : s <= t

-----------------------------------------------------------------------------
(* The chain: an operation runs when the one before it has settled. *)

Op(k, x) == [op |-> k, for |-> x, events |-> <<>>, from |-> 0]
AtHead(k) == chain # <<>> /\ stage = "queued" /\ chain[1].op = k
Serialize(o) == chain' = Append(chain, o)
Finish == chain' = Tail(chain) /\ stage' = "queued" /\ batch' = <<>>
\* The operation goes on, as o.
GoOn(o) == chain' = <<o>> \o Tail(chain) /\ stage' = "queued"

CanUpset == upsets < MaxUpsets
Upset == CanUpset /\ upsets' = upsets + 1

-----------------------------------------------------------------------------
(* Preparations *)

DropEntry(g) == IF entry.gen = g THEN NoEntry ELSE entry
MakeReady(g) ==
  IF entry.gen = g THEN [entry EXCEPT !.phase = "ready"] ELSE entry
Ready(g) == entry.gen = g /\ entry.phase = "ready"
Writable == entry.phase \notin {"committing", "reserved"}
Source(c) == caller[c].source
NeedsRepair_TornOnly(source) == source.torn
NeedsRepair_OpenOnly(source) == Open(source.log)
NeedsRepair(source) == source.torn \/ Open(source.log)

FreeGenerations ==
  {g \in Generations :
     /\ entry.gen # g
     /\ \A c \in Callers : caller[c].gen # g
     /\ \A i \in DOMAIN chain : ~ (chain[i].op = "prepare" /\ chain[i].for = g)}
FreeGeneration ==
  CHOOSE g \in FreeGenerations : \A h \in FreeGenerations : g <= h

HangUp(c) == [caller EXCEPT ![c] = NoCall]
Answer(c, pc, view) ==
  [caller EXCEPT ![c].pc = pc, ![c].view = view]
\* The loop's next round; a cancelled caller throws at its start.
TryAgain(c) ==
  IF caller[c].aborted THEN HangUp(c)
  ELSE [caller EXCEPT ![c].pc = "retire", ![c].gen = 0,
                      ![c].source = Absent, ![c].waits = retirement]

\* The histories of the disposed sessions, as far as anyone still refers to
\* them, whatever the coordinator's map of retirements says.
Tails == {[of |-> s, log |-> hist[s]] : s \in {t \in Sessions : life[t] = "over"}}

Begin_WithoutWaiting(c, m) ==
  /\ running
  /\ caller[c].pc = "idle"
  /\ caller' = [caller EXCEPT ![c] = [NoCall EXCEPT
       !.pc = "retire", !.mode = m, !.owed = disk.log, !.tails = Tails]]
  /\ UNCHANGED <<running, state, chain, storage, sessions, live, retirement,
                 entry, made>>
\* A call waits for the retirement it finds. What the log holds now, and what
\* is draining into it, is noted beside.
Begin(c, m) ==
  /\ running
  /\ caller[c].pc = "idle"
  /\ caller' = [caller EXCEPT ![c] = [NoCall EXCEPT
       !.pc = "retire", !.mode = m, !.waits = retirement, !.owed = disk.log,
       !.tails = Tails]]
  /\ UNCHANGED <<running, state, chain, storage, sessions, live, retirement,
                 entry, made>>

RetirementOver(s) ==
  s # Nobody => live[s].retiring \in {"released", "failed"}

\* prepare rejects for a live id; load and inspect answer from the session.
FindsLive(c) ==
  /\ caller[c].pc = "retire" /\ RetirementOver(caller[c].waits)
  /\ \/ store # Nobody
     \/ caller[c].waits # Nobody /\ live[caller[c].waits].retiring = "failed"
  /\ caller' = HangUp(c)
  /\ UNCHANGED <<running, state, chain, storage, sessions, live, retirement,
                 entry, made>>

FindsCold(c) ==
  /\ caller[c].pc = "retire" /\ RetirementOver(caller[c].waits)
  /\ caller[c].waits # Nobody => live[caller[c].waits].retiring = "released"
  /\ store = Nobody
  /\ \/ /\ entry # NoEntry
        /\ caller' = [caller EXCEPT
             ![c].pc = IF entry.phase = "loading" THEN "loading" ELSE "loaded",
             ![c].gen = entry.gen, ![c].source = entry.source]
        /\ UNCHANGED <<chain, entry>>
     \/ /\ entry = NoEntry /\ FreeGenerations # {}
        /\ caller' = [caller EXCEPT ![c].pc = "loading",
                                    ![c].gen = FreeGeneration]
        /\ entry' = [NoEntry EXCEPT !.gen = FreeGeneration,
                                    !.phase = "loading"]
        /\ Serialize(Op("prepare", FreeGeneration))
  /\ UNCHANGED <<running, state, storage, sessions, live, retirement, made>>

\* The load settles for every call that shares it.
LoadFulfills(g, source) ==
  [c \in Callers |-> IF caller[c].gen = g
                     THEN [caller[c] EXCEPT !.pc = "loaded", !.source = source]
                     ELSE caller[c]]
LoadRejects(g) ==
  [c \in Callers |-> IF caller[c].gen = g THEN NoCall ELSE caller[c]]

\* The chained read of a cold source; a live session's id cannot be prepared.
PrepareCore ==
  /\ AtHead("prepare")
  /\ LET g == chain[1].for IN
     IF disk.exists /\ store = Nobody
     THEN /\ caller' = LoadFulfills(g, disk)
          /\ entry' = IF entry.gen = g
                      THEN [entry EXCEPT !.phase = "ready", !.source = disk]
                      ELSE entry
     ELSE caller' = LoadRejects(g) /\ entry' = DropEntry(g)
  /\ Finish
  /\ UNCHANGED <<running, disk, state, sessions, live, retirement, made,
                 upsets>>

Loaded(c) == caller[c].pc = "loaded"

Reserve_WithoutWaiting(c) ==
  /\ Loaded(c) /\ caller[c].mode # "inspect" /\ entry.gen = caller[c].gen
  /\ entry' = [entry EXCEPT !.phase = "committing"]
  /\ caller' = [caller EXCEPT ![c].pc = "committing"]
  /\ Serialize(Op("commit", c))
  /\ UNCHANGED <<running, state, storage, sessions, live, retirement, made>>
\* Another caller's commit or reservation is waited for.
Reserve(c) ==
  /\ Loaded(c) /\ caller[c].mode # "inspect" /\ Ready(caller[c].gen)
  /\ entry' = [entry EXCEPT !.phase = "committing"]
  /\ caller' = [caller EXCEPT ![c].pc = "committing"]
  /\ Serialize(Op("commit", c))
  /\ UNCHANGED <<running, state, storage, sessions, live, retirement, made>>

Invalidated_NeverWakes(c) ==
  /\ Loaded(c) /\ caller[c].mode # "inspect" /\ entry = NoEntry
  /\ caller[c].aborted
  /\ caller' = TryAgain(c)
  /\ UNCHANGED <<running, state, chain, storage, sessions, live, retirement,
                 entry, made>>
\* The entry was invalidated before this caller could reserve it.
Invalidated(c) ==
  /\ Loaded(c) /\ caller[c].mode # "inspect" /\ entry.gen # caller[c].gen
  /\ caller' = TryAgain(c)
  /\ UNCHANGED <<running, state, chain, storage, sessions, live, retirement,
                 entry, made>>

Inspects(c) ==
  /\ Loaded(c) /\ caller[c].mode = "inspect"
  /\ IF store # Nobody
     THEN caller' = HangUp(c) /\ UNCHANGED chain
     ELSE /\ caller' = [caller EXCEPT ![c].pc = "checking"]
          /\ Serialize(Op("check", c))
  /\ UNCHANGED <<running, state, storage, sessions, live, retirement, entry,
                 made>>

\* A stale ready source is dropped and read again; a reserved one is borrowed.
Check ==
  /\ AtHead("check") /\ Finish
  /\ LET c == chain[1].for
         g == caller[c].gen
         stays == Source(c) = disk \/ (entry.gen = g /\ ~ Ready(g))
     IN
     /\ caller' = IF store # Nobody THEN HangUp(c)
                  ELSE IF stays THEN Answer(c, "returned", Balanced(Source(c).log))
                  ELSE TryAgain(c)
     /\ entry' = IF store = Nobody /\ ~ stays THEN DropEntry(g) ELSE entry
  /\ UNCHANGED <<running, disk, state, sessions, live, retirement, made,
                 upsets>>

-----------------------------------------------------------------------------
(* commitPrepared *)

CommitThrows ==
  /\ AtHead("commit") /\ state.owner # Nobody /\ Finish
  /\ entry' = DropEntry(caller[chain[1].for].gen)
  /\ caller' = HangUp(chain[1].for)
  /\ UNCHANGED <<running, disk, state, sessions, live, retirement, made,
                 upsets>>

CommitStale ==
  /\ AtHead("commit") /\ state.owner = Nobody /\ Finish
  /\ Source(chain[1].for) # disk
  /\ entry' = DropEntry(caller[chain[1].for].gen)
  /\ caller' = TryAgain(chain[1].for)
  /\ UNCHANGED <<running, disk, state, sessions, live, retirement, made,
                 upsets>>

CommitRepairs ==
  /\ AtHead("commit") /\ state.owner = Nobody
  /\ Source(chain[1].for) = disk /\ NeedsRepair(disk)
  /\ stage' = "repair"
  /\ UNCHANGED <<running, disk, state, chain, batch, sessions, live,
                 retirement, entry, made, caller, upsets>>

\* The durable cursor is set; then the reservation, if it still may be.
Commit ==
  /\ AtHead("commit") /\ state.owner = Nobody /\ Finish
  /\ LET c == chain[1].for
         g == caller[c].gen
         view == Balanced(Source(c).log)
     IN
     /\ Source(c) = disk /\ ~ NeedsRepair(disk)
     /\ state' = Tracked(Len(disk.log), TRUE, Nobody)
     /\ IF caller[c].aborted
        THEN entry' = MakeReady(g) /\ caller' = HangUp(c)
        ELSE IF entry.gen # g
        THEN entry' = entry /\ caller' = TryAgain(c)
        ELSE IF store # Nobody
        THEN entry' = NoEntry /\ caller' = HangUp(c)
        ELSE IF caller[c].mode = "load"
        THEN entry' = NoEntry /\ caller' = Answer(c, "returned", view)
        ELSE /\ entry' = [entry EXCEPT !.phase = "reserved"]
             /\ caller' = Answer(c, "reserved", view)
  /\ UNCHANGED <<running, disk, sessions, live, retirement, made, upsets>>

-----------------------------------------------------------------------------
(* Backend writes *)

Settled_KeepsSlot(ok) ==
  LET o == chain[1]  s == o.for IN
  IF o.op \in {"suffix", "seed", "created"}
  THEN [live EXCEPT ![s].init = IF ok THEN "ok" ELSE "failed"]
  ELSE IF o.op = "write"
  THEN [live EXCEPT
          ![s].queue = IF ok THEN SubSeq(@, live[s].writing + 1, Len(@)) ELSE @,
          ![s].flush = IF @ # "writing" THEN @
                       ELSE IF ok THEN "none" ELSE "refused"]
  ELSE live
Settled_DropsRefused(ok) ==
  LET o == chain[1]  s == o.for IN
  IF o.op \in {"suffix", "seed", "created"}
  THEN [live EXCEPT ![s].init = IF ok THEN "ok" ELSE "failed"]
  ELSE IF o.op = "write"
  THEN [live EXCEPT
          ![s].queue = SubSeq(@, live[s].writing + 1, Len(@)),
          ![s].writing = 0,
          ![s].flush = IF @ # "writing" THEN @
                       ELSE IF ok THEN "none" ELSE "refused"]
  ELSE live
\* What became of the head operation, recorded where its promise is awaited.
Settled(ok) ==
  LET o == chain[1]  s == o.for IN
  IF o.op \in {"suffix", "seed", "created"}
  THEN [live EXCEPT ![s].init = IF ok THEN "ok" ELSE "failed"]
  ELSE IF o.op = "write"
  THEN [live EXCEPT
          ![s].queue = IF ok THEN SubSeq(@, live[s].writing + 1, Len(@)) ELSE @,
          ![s].writing = 0,
          ![s].flush = IF @ # "writing" THEN @
                       ELSE IF ok THEN "none" ELSE "refused"]
  ELSE live

\* commitRepair, first step: truncate the fragment.
RepairTruncates ==
  /\ stage = "repair" /\ disk.torn
  /\ disk' = [disk EXCEPT !.torn = FALSE]
  /\ UNCHANGED <<running, state, chain, stage, batch, sessions, live,
                 retirement, entry, made, caller, upsets>>

\* Second step: the closers, which live adoption does not write. A committed
\* repair changed the revision, so a preparation reads the log again.
RepairEnds ==
  /\ stage = "repair" /\ ~ disk.torn
  /\ IF chain[1].op = "created" THEN UNCHANGED disk
     ELSE disk' = [disk EXCEPT !.log = Balanced(@)]
  /\ IF chain[1].op = "commit"
     THEN /\ Finish
          /\ entry' = DropEntry(caller[chain[1].for].gen)
          /\ caller' = TryAgain(chain[1].for)
     ELSE stage' = "queued" /\ UNCHANGED <<chain, batch, entry, caller>>
  /\ UNCHANGED <<running, state, sessions, live, retirement, made, upsets>>

RepairFails ==
  /\ stage = "repair" /\ Upset /\ Finish
  /\ IF chain[1].op = "commit"
     THEN /\ entry' = DropEntry(caller[chain[1].for].gen)
          /\ caller' = HangUp(chain[1].for)
          /\ UNCHANGED live
     ELSE live' = Settled(FALSE) /\ UNCHANGED <<entry, caller>>
  /\ UNCHANGED <<running, disk, state, sessions, retirement, made>>

\* The backend reads stored prefixes and revisions before it decides anything.
ReadFails ==
  /\ stage = "queued" /\ Upset
  /\ \/ /\ AtHead("prepare")
        /\ caller' = LoadRejects(chain[1].for)
        /\ entry' = DropEntry(chain[1].for)
        /\ UNCHANGED live
     \/ /\ AtHead("commit")
        /\ entry' = DropEntry(caller[chain[1].for].gen)
        /\ caller' = HangUp(chain[1].for)
        /\ UNCHANGED live
     \/ /\ AtHead("check")
        /\ caller' = HangUp(chain[1].for)
        /\ UNCHANGED <<live, entry>>
     \/ /\ AtHead("created")
        /\ state.tracked => state.owner = Nobody /\ state.cursor # 0
        /\ live' = Settled(FALSE)
        /\ UNCHANGED <<entry, caller>>
  /\ Finish
  /\ UNCHANGED <<running, disk, state, sessions, retirement, made>>

Appends == {"append", "suffix", "seed", "write"}
AppendAtHead == \E k \in Appends : AtHead(k)

\* appendLiveBatch drops what initialization already stored.
Fresh ==
  LET q == live[chain[1].for].queue
      n == live[chain[1].for].writing
      low == IF state.cursor > q[1] THEN state.cursor ELSE q[1]
  IN [from |-> low,
      events |-> SubSeq(hist[chain[1].for], low + 1, q[n] + 1)]

\* The events the head appends, and the seq of the first.
Payload ==
  IF chain[1].op = "write" THEN Fresh
  ELSE [from |-> chain[1].from, events |-> chain[1].events]

AppendRefused ==
  /\ AppendAtHead /\ Payload.events # <<>>
  /\ \/ ~ Writable
     \/ state.tracked /\ Payload.from # state.cursor
     \/ /\ ~ state.tracked
        /\ ~ disk.exists \/ (store # Nobody /\ ~ Ready(entry.gen))
  /\ live' = Settled(FALSE) /\ Finish
  /\ UNCHANGED <<running, disk, state, sessions, retirement, entry, made,
                 caller, upsets>>

\* adopt: takeReady or a cold read, then commitPrepared, until it holds.
AppendAdopts ==
  /\ AppendAtHead /\ Payload.events # <<>> /\ Writable
  /\ ~ state.tracked /\ disk.exists /\ (store = Nobody \/ Ready(entry.gen))
  /\ entry' = IF Ready(entry.gen) THEN NoEntry ELSE entry
  /\ LET source == IF Ready(entry.gen) THEN entry.source ELSE disk IN
     \/ source # disk /\ UNCHANGED <<state, stage>>
     \/ /\ source = disk /\ NeedsRepair(disk)
        /\ stage' = "repair" /\ UNCHANGED state
     \/ /\ source = disk /\ ~ NeedsRepair(disk)
        /\ state' = Tracked(Len(disk.log), TRUE, Nobody) /\ UNCHANGED stage
  /\ UNCHANGED <<running, disk, chain, batch, sessions, live, retirement,
                 made, caller, upsets>>

AppendWrites ==
  /\ AppendAtHead /\ Payload.events # <<>> /\ Writable
  /\ state.tracked /\ Payload.from = state.cursor
  /\ stage' = "write" /\ batch' = Payload.events
  /\ UNCHANGED <<running, disk, state, chain, sessions, live, retirement,
                 entry, made, caller, upsets>>

WriteStored ==
  /\ stage = "write"
  /\ disk' = [exists |-> TRUE, log |-> disk.log \o batch, torn |-> FALSE]
  /\ state' = [state EXCEPT !.materialized = TRUE, !.cursor = @ + Len(batch)]
  /\ entry' = NoEntry
  /\ live' = Settled(TRUE) /\ Finish
  /\ UNCHANGED <<running, sessions, retirement, made, caller, upsets>>

WriteRefused ==
  /\ stage = "write" /\ Upset
  /\ live' = Settled(FALSE) /\ Finish
  /\ UNCHANGED <<running, disk, state, sessions, retirement, entry, made,
                 caller>>

-----------------------------------------------------------------------------
(* Live sessions *)

\* The head operation of s goes on by persisting the seed past n events.
BindSeed(s, seed, n) ==
  IF Len(seed) = n
  THEN live' = Settled(TRUE) /\ Finish
  ELSE /\ GoOn([op |-> "seed", for |-> s, from |-> n,
                events |-> SubSeq(seed, n + 1, Len(seed))])
       /\ UNCHANGED <<live, batch>>

CreatedAtHead == AtHead("created")
Seed == SubSeq(hist[chain[1].for], 1, live[chain[1].for].seed)

Claims_Unchecked ==
  /\ CreatedAtHead /\ state.tracked /\ state.owner = Nobody
  /\ state' = [state EXCEPT !.owner = chain[1].for]
  /\ BindSeed(chain[1].for, Seed, state.cursor)
  /\ UNCHANGED <<running, disk, sessions, retirement, entry, made, caller,
                 upsets>>
\* onCreated, case 1: a session claims ownerless state that its seed matches.
Claims ==
  /\ CreatedAtHead /\ state.tracked /\ state.owner = Nobody
  /\ state.cursor # 0 => IsPrefix(SubSeq(disk.log, 1, state.cursor), Seed)
  /\ state' = [state EXCEPT !.owner = chain[1].for]
  /\ BindSeed(chain[1].for, Seed, state.cursor)
  /\ UNCHANGED <<running, disk, sessions, retirement, entry, made, caller,
                 upsets>>

\* Case 1: an owner that stored nothing and has nothing queued gives way.
Abandoned ==
  /\ ~ state.materialized
  /\ ~ live[state.owner].on \/ live[state.owner].queue = <<>>
Reclaims ==
  /\ CreatedAtHead /\ state.tracked /\ state.owner # Nobody
  /\ Abandoned
  /\ state' = NoState
  /\ UNCHANGED <<running, disk, chain, stage, batch, sessions, live,
                 retirement, entry, made, caller, upsets>>

\* Cases 1 and 3, and createCore: the id is taken.
Collides ==
  /\ CreatedAtHead
  /\ \/ /\ state.tracked /\ state.owner = Nobody /\ state.cursor # 0
        /\ ~ IsPrefix(SubSeq(disk.log, 1, state.cursor), Seed)
     \/ state.tracked /\ state.owner # Nobody /\ ~ Abandoned
     \/ ~ state.tracked /\ disk.exists /\ ~ IsPrefix(disk.log, Seed)
     \/ ~ state.tracked /\ ~ disk.exists /\ entry # NoEntry
  /\ live' = Settled(FALSE) /\ Finish
  /\ UNCHANGED <<running, disk, state, sessions, retirement, entry, made,
                 caller, upsets>>

AdoptsLivePrefix_Recovers ==
  /\ CreatedAtHead /\ ~ state.tracked
  /\ disk.exists /\ IsPrefix(disk.log, Seed)
  /\ disk' = [disk EXCEPT !.log = Balanced(@), !.torn = FALSE]
  /\ state' = Tracked(Len(disk'.log), TRUE, chain[1].for)
  /\ live' = Settled(TRUE) /\ Finish
  /\ UNCHANGED <<running, sessions, retirement, entry, made, caller, upsets>>
\* Case 2: the live session is the authority; only a fragment is repaired.
AdoptsLivePrefix ==
  /\ CreatedAtHead /\ ~ state.tracked
  /\ disk.exists /\ IsPrefix(disk.log, Seed)
  /\ IF disk.torn
     THEN stage' = "repair" /\ UNCHANGED <<state, chain, batch, live>>
     ELSE /\ state' = Tracked(Len(disk.log), TRUE, chain[1].for)
          /\ BindSeed(chain[1].for, Seed, Len(disk.log))
  /\ UNCHANGED <<running, disk, sessions, retirement, entry, made, caller,
                 upsets>>

\* Case 4: a new session; nothing is written before its first events.
RegistersNew ==
  /\ CreatedAtHead /\ ~ state.tracked /\ ~ disk.exists /\ entry = NoEntry
  /\ state' = Tracked(0, FALSE, chain[1].for)
  /\ BindSeed(chain[1].for, Seed, 0)
  /\ UNCHANGED <<running, disk, sessions, retirement, entry, made, caller,
                 upsets>>

\* SessionStore publishes s with this history; initFor builds its live state.
Enters(s, history) ==
  /\ store' = s
  /\ life' = [life EXCEPT ![s] = "live"]
  /\ hist' = [hist EXCEPT ![s] = history]

CreateSession_NoVeto(replay) ==
  /\ store = Nobody /\ Unborn # {}
  /\ replay => disk.exists /\ ~ Open(disk.log)
  /\ LET s == Newborn
         history == IF replay THEN Marked(disk.log, s) ELSE <<>>
     IN
     /\ Enters(s, history)
     /\ IF running
        THEN /\ live' = [live EXCEPT ![s] = [NoLive EXCEPT
                  !.on = TRUE, !.init = "pending", !.seed = Len(history)]]
             /\ Serialize(Op("created", s))
        ELSE UNCHANGED <<live, chain>>
  /\ UNCHANGED <<running, state, storage, retirement, entry, made, caller>>
\* A fresh or replayed session. An id under preparation vetoes publication.
CreateSession(replay) ==
  /\ store = Nobody /\ Unborn # {}
  /\ running => entry = NoEntry
  /\ replay => disk.exists /\ ~ Open(disk.log)
  /\ LET s == Newborn
         history == IF replay THEN Marked(disk.log, s) ELSE <<>>
     IN
     /\ Enters(s, history)
     /\ IF running
        THEN /\ live' = [live EXCEPT ![s] = [NoLive EXCEPT
                  !.on = TRUE, !.init = "pending", !.seed = Len(history)]]
             /\ Serialize(Op("created", s))
        ELSE UNCHANGED <<live, chain>>
  /\ UNCHANGED <<running, state, storage, retirement, entry, made, caller>>

\* attachPrepared: publishes the exact reserved session and its suffix.
Publish(c) ==
  /\ caller[c].pc = "reserved" /\ store = Nobody /\ Unborn # {}
  /\ entry.gen = caller[c].gen /\ entry.phase = "reserved"
  /\ state.owner = Nobody /\ state.cursor = Len(caller[c].view)
  /\ LET s == Newborn
         history == Marked(caller[c].view, s) \o caller[c].extra
         suffix == SubSeq(history, state.cursor + 1, Len(history))
     IN
     /\ Enters(s, history)
     /\ state' = [state EXCEPT !.owner = s]
     /\ live' = [live EXCEPT ![s] = [NoLive EXCEPT
          !.on = TRUE, !.init = IF suffix = <<>> THEN "ok" ELSE "pending"]]
     /\ IF suffix = <<>> THEN UNCHANGED chain
        ELSE Serialize([op |-> "suffix", for |-> s, events |-> suffix,
                        from |-> state.cursor])
  /\ entry' = NoEntry
  /\ caller' = HangUp(c)
  /\ UNCHANGED <<running, storage, retirement, made>>

\* Setup runs against the unpublished session and may append to it.
SetupAppends(c) ==
  /\ caller[c].pc = "reserved" /\ caller[c].extra = <<>> /\ Unborn # {}
  /\ caller' = [caller EXCEPT
       ![c].extra = <<[by |-> Newborn, kind |-> "note"]>>]
  /\ UNCHANGED <<running, state, chain, storage, sessions, live, retirement,
                 entry, made>>

\* Rolled back: an untouched preparation returns to the cache.
Release(c) ==
  /\ caller[c].pc = "reserved"
  /\ entry' = IF caller[c].extra = <<>> THEN MakeReady(caller[c].gen)
              ELSE DropEntry(caller[c].gen)
  /\ caller' = HangUp(c)
  /\ UNCHANGED <<running, state, chain, storage, sessions, live, retirement,
                 made>>

EndCall(c) ==
  /\ caller[c].pc = "returned"
  /\ caller' = HangUp(c)
  /\ UNCHANGED <<running, state, chain, storage, sessions, live, retirement,
                 entry, made>>

Own(s) == {i \in DOMAIN hist[s] :
             hist[s][i].by = s /\ hist[s][i].kind \in {"start", "end"}}

\* session/event: the session's log grows and its controller keeps the seq.
SessionAppends ==
  /\ store # Nobody
  /\ Cardinality(Own(store)) < MaxEvents
  /\ LET h == hist[store]
         kind == IF Open(h) THEN "end" ELSE "start"
     IN
     /\ hist' = [hist EXCEPT ![store] =
                   Append(h, [by |-> store, kind |-> kind])]
     /\ live' = IF running
                THEN [live EXCEPT ![store].queue = Append(@, Len(h))]
                ELSE live
  /\ UNCHANGED <<running, state, chain, storage, store, life, retirement,
                 entry, made, caller>>

\* The controller hands its queue to the chain once initialization is done:
\* on its deadline, or for the flush of a retirement or of teardown.
Flushing(s) == live[s].retiring = "flushing" \/ ~ running
StartWrite(s) ==
  /\ live[s].on /\ live[s].init = "ok"
  /\ live[s].writing = 0 /\ live[s].queue # <<>> /\ live[s].flush = "none"
  /\ s = store \/ Flushing(s)
  /\ live' = [live EXCEPT ![s].writing = Len(live[s].queue),
                          ![s].flush = IF Flushing(s) THEN "writing" ELSE "none"]
  /\ Serialize(Op("write", s))
  /\ UNCHANGED <<running, state, storage, sessions, retirement, entry, made,
                 caller>>

Dispose_Unrecorded ==
  /\ store # Nobody
  /\ store' = Nobody
  /\ life' = [life EXCEPT ![store] = "over"]
  /\ live' = IF running THEN [live EXCEPT ![store].retiring = "flushing"] ELSE live
  /\ UNCHANGED <<running, state, chain, storage, hist, retirement, entry, made,
                 caller>>
\* session/disposed, and retire: the tail is flushed before the id is free.
Dispose ==
  /\ store # Nobody
  /\ store' = Nobody
  /\ life' = [life EXCEPT ![store] = "over"]
  /\ IF running
     THEN /\ live' = [live EXCEPT ![store].retiring = "flushing"]
          /\ retirement' = store
     ELSE UNCHANGED <<live, retirement>>
  /\ UNCHANGED <<running, state, chain, storage, hist, entry, made, caller>>

Forget_Any(s) == Nobody
\* Only the retirement that is still the id's current one is forgotten.
Forget(s) == IF retirement = s THEN Nobody ELSE retirement

RetireFails_InitOnly(s) ==
  /\ live[s].retiring = "flushing"
  /\ live[s].init = "failed"
  /\ live' = [live EXCEPT ![s].retiring = "failed"]
  /\ retirement' = Forget(s)
  /\ UNCHANGED <<running, state, chain, storage, sessions, entry, made,
                 caller>>
RetireFails(s) ==
  /\ live[s].retiring = "flushing"
  /\ live[s].init = "failed" \/ live[s].flush = "refused"
  /\ live' = [live EXCEPT ![s].retiring = "failed"]
  /\ retirement' = Forget(s)
  /\ UNCHANGED <<running, state, chain, storage, sessions, entry, made,
                 caller>>

RetireFlushed(s) ==
  /\ live[s].retiring = "flushing" /\ live[s].init = "ok"
  /\ live[s].queue = <<>> /\ live[s].writing = 0
  /\ live' = [live EXCEPT ![s].retiring = "releasing"]
  /\ Serialize(Op("release", s))
  /\ UNCHANGED <<running, state, storage, sessions, retirement, entry, made,
                 caller>>

\* The chained end of retireCore: the id is free if s still owns it.
ReleaseOwner ==
  /\ AtHead("release") /\ Finish
  /\ LET s == chain[1].for IN
     /\ live' = [live EXCEPT ![s] = [NoLive EXCEPT !.retiring = "released"]]
     /\ state' = IF state.tracked /\ state.owner = s THEN NoState ELSE state
     /\ retirement' = Forget(s)
     /\ hist' = [hist EXCEPT ![s] = <<>>]
  /\ UNCHANGED <<running, disk, store, life, entry, made, caller, upsets>>

\* A service call the bound allows.
Makes(k) == k \in Detached /\ ~ made /\ made' = TRUE

\* ensureMaterialized: a flush, then a chained header-only artifact.
EnsureMaterialized ==
  /\ Makes("header") /\ running /\ store # Nobody
  /\ live[store].init = "ok"
  /\ live[store].queue = <<>> /\ live[store].writing = 0
  /\ Serialize(Op("header", store))
  /\ UNCHANGED <<running, state, storage, sessions, live, retirement, entry,
                 caller>>

HeaderDecides ==
  /\ AtHead("header")
  /\ IF state.tracked /\ ~ state.materialized
     THEN stage' = "header" /\ UNCHANGED <<chain, batch>>
     ELSE Finish
  /\ UNCHANGED <<running, disk, state, sessions, live, retirement, entry,
                 made, caller, upsets>>

HeaderStored ==
  /\ stage = "header" /\ Finish
  /\ disk' = [disk EXCEPT !.exists = TRUE]
  /\ state' = [state EXCEPT !.materialized = TRUE]
  /\ entry' = NoEntry
  /\ UNCHANGED <<running, sessions, live, retirement, made, caller, upsets>>

HeaderRefused ==
  /\ stage = "header" /\ Upset /\ Finish
  /\ UNCHANGED <<running, disk, state, sessions, live, retirement, entry,
                 made, caller>>

-----------------------------------------------------------------------------
(* The detached service calls, the cache, reloads and crashes *)

CreateCall ==
  /\ Makes("create") /\ running
  /\ Serialize(Op("create", Outside))
  /\ UNCHANGED <<running, state, storage, sessions, live, retirement, entry,
                 caller>>

CreateCore ==
  /\ AtHead("create") /\ Finish
  /\ state' = IF state.tracked \/ entry # NoEntry \/ disk.exists THEN state
              ELSE Tracked(0, FALSE, Nobody)
  /\ UNCHANGED <<running, disk, sessions, live, retirement, entry, made,
                 caller, upsets>>

\* append(): whoever calls it holds neither a session nor a preparation of the
\* id, has read the log, and appends once.
Unheld ==
  /\ running /\ store = Nobody /\ retirement = Nobody /\ Writable
  /\ \A s \in Sessions : ~ live[s].on
AppendCall ==
  /\ Makes("append") /\ Unheld
  /\ disk.exists \/ state.tracked
  /\ Serialize([op |-> "append", for |-> Outside,
                events |-> <<[by |-> Outside, kind |-> "note"]>>,
                from |-> Len(Balanced(disk.log))])
  /\ UNCHANGED <<running, state, storage, sessions, live, retirement, entry,
                 caller>>

\* The LRU drops a ready entry when other ids need the room.
Evict ==
  /\ entry.phase = "ready"
  /\ entry' = NoEntry
  /\ UNCHANGED <<running, state, chain, storage, sessions, live, retirement,
                 made, caller>>

\* The caller's signal: prompt unless its operation has started. One that has
\* not throws when it runs, so it leaves the chain.
Abort(c) ==
  /\ caller[c].mode # "load" /\ ~ caller[c].aborted
  /\ \/ /\ caller[c].pc \in {"retire", "loading"}
        /\ caller' = HangUp(c) /\ UNCHANGED <<chain, entry>>
     \/ /\ caller[c].pc \in {"checking", "committing"}
        /\ \E i \in DOMAIN chain :
             /\ chain[i].op \in {"check", "commit"} /\ chain[i].for = c
             /\ IF i = 1
                THEN /\ caller' = [caller EXCEPT ![c].aborted = TRUE]
                     /\ UNCHANGED <<chain, entry>>
                ELSE /\ caller' = HangUp(c)
                     /\ chain' = RemoveAt(chain, i)
                     /\ entry' = IF caller[c].pc = "committing"
                                 THEN DropEntry(caller[c].gen) ELSE entry
  /\ UNCHANGED <<running, state, storage, sessions, live, retirement, made>>

\* Plugin reload: admission closes, every live tail is flushed ...
Stop ==
  /\ running /\ Upset
  /\ \A c \in Callers : caller[c].pc = "idle"
  /\ running' = FALSE
  /\ live' = [s \in Sessions |->
       [live[s] EXCEPT !.flush = IF @ = "refused" THEN "none" ELSE @]]
  /\ UNCHANGED <<disk, state, chain, stage, batch, sessions, retirement,
                 entry, made, caller>>

Drained(s) ==
  \/ ~ live[s].on \/ live[s].init = "failed" \/ live[s].flush = "refused"
  \/ live[s].init = "ok" /\ live[s].queue = <<>>

\* ... and the next coordinator adopts the session that is still live.
Start ==
  /\ ~ running /\ chain = <<>> /\ \A s \in Sessions : Drained(s)
  /\ running' = TRUE
  /\ state' = NoState /\ entry' = NoEntry /\ retirement' = Nobody
  /\ live' = [s \in Sessions |->
       IF s = store THEN [NoLive EXCEPT !.on = TRUE, !.init = "pending",
                                        !.seed = Len(hist[s])]
       ELSE NoLive]
  /\ chain' = IF store = Nobody THEN <<>> ELSE <<Op("created", store)>>
  /\ hist' = [s \in Sessions |-> IF s = store THEN hist[s] ELSE <<>>]
  /\ UNCHANGED <<storage, store, life, made, caller>>

\* What a crash leaves of the write in progress. A first batch is linked into
\* place with its header; a later one may leave whole lines and a fragment.
Leftovers ==
  {disk} \cup
  (IF stage = "write" /\ disk.exists
   THEN {[exists |-> TRUE, log |-> disk.log \o SubSeq(batch, 1, n), torn |-> t]
           : n \in 0 .. Len(batch), t \in BOOLEAN}
   ELSE IF stage = "write"
   THEN {[exists |-> TRUE, log |-> batch, torn |-> FALSE]}
   ELSE IF stage = "header" THEN {[disk EXCEPT !.exists = TRUE]}
   ELSE IF stage = "repair" /\ chain[1].op # "created" /\ ~ disk.torn
   THEN {[disk EXCEPT !.log = Balanced(@)], [disk EXCEPT !.torn = TRUE]}
   ELSE IF stage = "repair" THEN {[disk EXCEPT !.torn = FALSE]}
   ELSE {})

Crash ==
  /\ Upset
  /\ disk' \in Leftovers
  /\ running' = TRUE
  /\ state' = NoState
  /\ chain' = <<>> /\ stage' = "queued" /\ batch' = <<>>
  /\ store' = Nobody
  /\ life' = [s \in Sessions |-> IF life[s] = "live" THEN "over" ELSE life[s]]
  /\ hist' = [s \in Sessions |-> <<>>]
  /\ live' = [s \in Sessions |-> NoLive]
  /\ retirement' = Nobody
  /\ entry' = NoEntry
  /\ caller' = [c \in Callers |-> NoCall]
  /\ UNCHANGED made

-----------------------------------------------------------------------------
ChainStep ==
  \/ PrepareCore \/ Check
  \/ CommitThrows \/ CommitStale \/ CommitRepairs \/ Commit
  \/ RepairTruncates \/ RepairEnds
  \/ AppendRefused \/ AppendAdopts \/ AppendWrites
  \/ WriteStored
  \/ Claims \/ Reclaims \/ Collides \/ AdoptsLivePrefix \/ RegistersNew
  \/ ReleaseOwner \/ HeaderDecides \/ HeaderStored \/ CreateCore

Refusal == RepairFails \/ ReadFails \/ WriteRefused \/ HeaderRefused

CallStep(c) ==
  \/ FindsLive(c) \/ FindsCold(c) \/ Reserve(c)
  \/ Invalidated(c) \/ Inspects(c) \/ EndCall(c)

RetireStep(s) == StartWrite(s) \/ RetireFails(s) \/ RetireFlushed(s)

Next ==
  \/ ChainStep \/ Refusal \/ Crash \/ Stop \/ Start \/ Evict
  \/ \E c \in Callers :
       \/ \E m \in Modes : Begin(c, m)
       \/ CallStep(c) \/ Abort(c)
       \/ Publish(c) \/ SetupAppends(c) \/ Release(c)
  \/ \E s \in Sessions : RetireStep(s)
  \/ \E replay \in BOOLEAN : CreateSession(replay)
  \/ SessionAppends \/ Dispose \/ EnsureMaterialized
  \/ CreateCall \/ AppendCall

Spec == Init /\ [][Next]_vars

\* Fairness: backend calls settle, so the chain moves on; awaits of settled
\* promises resume; a deadline or flush hands over what is queued; an owner of
\* a preparation publishes or releases it. Reserve is strongly fair because the
\* waiters of a reservation resume in the order they came.
FairSpec ==
  /\ Spec
  /\ WF_vars(ChainStep)
  /\ \A c \in Callers : /\ WF_vars(CallStep(c)) /\ SF_vars(Reserve(c))
                         /\ WF_vars(Publish(c) \/ Release(c))
  /\ \A s \in Sessions : WF_vars(RetireStep(s))

-----------------------------------------------------------------------------
(* Properties *)

Disks == [exists : BOOLEAN, log : Seq(Events), torn : BOOLEAN]
StateType ==
  [tracked : BOOLEAN, cursor : Nat, materialized : BOOLEAN,
   owner : Sessions \cup {Nobody}]
EntryType ==
  [gen : Generations \cup {0}, source : Disks,
   phase : {"none", "loading", "ready", "committing", "reserved"}]
LiveType ==
  [on : BOOLEAN, init : {"none", "pending", "ok", "failed"}, seed : Nat,
   queue : Seq(Nat), writing : Nat, flush : {"none", "writing", "refused"},
   retiring : {"no", "flushing", "releasing", "released", "failed"}]
CallType ==
  [pc : {"idle", "retire", "loading", "loaded", "checking", "committing",
         "reserved", "returned"},
   mode : Modes, gen : Generations \cup {0}, waits : Sessions \cup {Nobody},
   source : Disks, aborted : BOOLEAN, extra : Seq(Events), owed : Seq(Events),
   tails : SUBSET [of : Sessions, log : Seq(Events)], view : Seq(Events)]
OpsOf(kinds, whom) ==
  [op : kinds, for : whom, events : Seq(Events), from : Nat]
Operations ==
  OpsOf({"prepare"}, Generations) \cup OpsOf({"check", "commit"}, Callers)
    \cup OpsOf({"created", "suffix", "seed", "write", "release", "header"}, Sessions)
    \cup OpsOf({"append", "create"}, {Outside})

\* Every variable keeps its type: the shapes of the coordinator's maps, of the
\* operations on the chain and of what each caller holds.
TypeOK ==
  /\ running \in BOOLEAN /\ made \in BOOLEAN
  /\ disk \in Disks
  /\ state \in StateType
  /\ stage \in {"queued", "repair", "write", "header"}
  /\ chain \in Seq(Operations) /\ (chain = <<>> => stage = "queued")
  /\ batch \in Seq(Events)
  /\ store \in Sessions \cup {Nobody}
  /\ life \in [Sessions -> {"unborn", "live", "over"}]
  /\ hist \in [Sessions -> Seq(Events)]
  /\ live \in [Sessions -> LiveType]
  /\ \A s \in Sessions : live[s].writing <= Len(live[s].queue)
  /\ retirement \in Sessions \cup {Nobody}
  /\ entry \in EntryType
  /\ caller \in [Callers -> CallType]
  /\ upsets \in 0 .. MaxUpsets

\* The log of an owned id never holds an event that its live session does not
\* have at the same seq: adoption, claims and repairs cannot fork a history.
\* (The type invariant is its first part.)
OneHistory ==
  /\ TypeOK
  /\ state.owner # Nobody => IsPrefix(disk.log, hist[state.owner])

Pending(s) ==
  [i \in DOMAIN live[s].queue |-> hist[s][live[s].queue[i] + 1]]

\* Once an owner's initialization is done, the log followed by what its
\* controller holds is exactly the session's history: nothing is lost between
\* the seed, the suffix and the buffered events, and nothing is stored twice.
NothingLost ==
  \A s \in Sessions :
    (running /\ live[s].on /\ live[s].init = "ok" /\ state.owner = s)
      => disk.log \o Pending(s) = hist[s]

\* A reserved preparation is the log: no append, repair or session came between
\* its read and its publication (commitPrepared, assertWritable).
ReservationIsCurrent ==
  entry.phase = "reserved" =>
    /\ entry.source = disk /\ ~ disk.torn /\ ~ Open(disk.log)
    /\ state = Tracked(Len(disk.log), TRUE, Nobody)

\* The drain of s failed: what it was to store is not stored.
Refused(s) == live[s].init = "failed" \/ live[s].flush = "refused"
\* A later session of the id had been disposed when the call began.
Overtaken(c, t) == \E u \in caller[c].tails : u.of > t.of
Reaches(c, t) == Refused(t.of) \/ IsPrefix(t.log, caller[c].view)

\* What a call answers with holds all that was durable when the call began, and
\* the whole history of every disposed session that was draining then, unless
\* that drain was refused. An inspect is promised this of the session that was
\* the last to be disposed (see InspectReachesTail).
ViewReachesTail ==
  \A c \in Callers :
    caller[c].pc \in {"returned", "reserved"} =>
      /\ IsPrefix(caller[c].owed, caller[c].view)
      /\ \A t \in caller[c].tails :
           (caller[c].mode = "inspect" /\ Overtaken(c, t)) \/ Reaches(c, t)

\* The coordinator's comment on its map of retirements: it holds the "exact
\* disposed lifecycles whose buffered tail is still draining", so an inspect
\* waits for each of them and answers with its tail.
InspectReachesTail ==
  \A c \in Callers :
    caller[c].pc = "returned" /\ caller[c].mode = "inspect"
      => \A t \in caller[c].tails : Reaches(c, t)

\* Resumes of one id are exclusive: at most one unpublished session is out.
OneReservation ==
  \A c, d \in Callers :
    (caller[c].pc = "reserved" /\ caller[d].pc = "reserved") => c = d

\* Repair closes only a cold session's turn: no closer is stored after the log
\* of a session that is live and may still append the real end.
RepairSparesLive ==
  [][ (/\ Len(disk'.log) > Len(disk.log)
       /\ disk'.log[Len(disk'.log)].by = Recovery)
      => ~ (store # Nobody /\ IsPrefix(disk.log, hist[store])) ]_vars

\* README: a backend teardown retries what a refused write left behind. When
\* the next coordinator starts, no session the last one owned holds events that
\* the teardown did not at least try to write.
TeardownRetries ==
  [][ Start => \A s \in Sessions :
        (state.owner = s /\ live[s].queue # <<>>) => live[s].flush = "refused"
    ]_vars

\* A disposed session's final drain ends, so whoever waits for the id goes on.
RetirementSettles ==
  \A s \in Sessions :
    live[s].retiring = "flushing" ~> live[s].retiring # "flushing"

\* Unless new calls keep coming, every prepare, load and inspect returns: the
\* waits for a retirement, a shared load, another call's reservation and the
\* chain never deadlock, the drain of a disposed session ends, and the revision
\* retries converge.
CallsSettle ==
  /\ (<>[][\A c \in Callers, m \in Modes : ~ Begin(c, m)]_vars)
       => \A c \in Callers : caller[c].pc # "idle" ~> caller[c].pc = "idle"
  /\ RetirementSettles
=============================================================================
