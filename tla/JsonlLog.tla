------------------------------ MODULE JsonlLog ------------------------------
(***************************************************************************)
(* The file of one session under the JSONL backend                         *)
(* (session-persistence-jsonl/src/index.ts and format.ts): materializing   *)
(* it, appending a batch with rollback, reading it back after a crash and  *)
(* committing a repair.  The coordinator runs one of these operations at a *)
(* time; an action is one file system call that can fail, or after which   *)
(* the machine can stop.                                                   *)
(*                                                                         *)
(* A line is an event with its sequence number, counted from 1.  A file    *)
(* that ends inside a line or, under Zstandard, inside the frame that      *)
(* holds a whole batch, ends with a fragment; its number is the place      *)
(* where the broken line or frame starts.  The header, which is published  *)
(* together with the first batch, is not counted.                          *)
(***************************************************************************)
EXTENDS TurnRepair, FiniteSetsExt

CONSTANTS Compressions,  \* the encodings configured: "none", "zstd" or both
          Faults,        \* the file system calls that may fail
          MaxUpsets      \* bound: failed calls and crashes in one behaviour

ASSUME JsonlAssumption ==
  /\ Compressions \subseteq {"none", "zstd"}
  /\ Faults \subseteq {"write", "sync", "close", "link", "syncdir"}
  /\ MaxUpsets \in Nat

VARIABLES
  compression,  \* the backend's encoding, the same for a whole behaviour
  file,     \* the lines every reader sees
  media,    \* the lines as of the last successful sync
  entry,    \* the directory entry: "none", "linked" or, once synced, "durable"
  op,       \* the operation in progress
  upsets    \* failed calls and crashes so far

jsonlVars == <<compression, file, media, entry, op, upsets>>

NoOp == [kind |-> "none", stage |-> "none", lines |-> <<>>, before |-> 0]

Kinds == {"none", "append", "create", "repair"}
Stages == {"none", "truncate", "truncated", "write", "sync", "close", "undo",
           "undone", "temp", "link", "syncdir", "ok", "failed", "refused"}

(* Mutant: a batch is numbered from the event before it. *)
Lines_FromBefore(events, from) ==
  [i \in DOMAIN events |->
     [seq |-> from + i - 1, event |-> events[i], whole |-> TRUE]]

\* Events numbered from `from + 1', as the lines of one batch.
Lines(events, from) ==
  [i \in DOMAIN events |-> [seq |-> from + i, event |-> events[i], whole |-> TRUE]]

Fragment(start) == [seq |-> start, event |-> Grammar!NoEvent, whole |-> FALSE]

Torn(f) == f # <<>> /\ ~Last(f).whole

\* Bytes after a fragment complete its line, or vanish in its frame.
Join(f, lines) ==
  IF ~Torn(f) THEN f \o lines
  ELSE IF compression = "zstd" THEN f ELSE f \o Tail(lines)

\* What may be left of a file of which only the first n lines, all batches but
\* the last, surely reached the disk.
Cuts(f, n) ==
  LET first(m) == SubSeq(f, 1, m) IN
  {first(n), f}
  \cup IF compression = "none"
       THEN {first(m) : m \in n .. Len(f)}
            \cup {Append(first(m), Fragment(m + 1)) : m \in n .. Len(f) - 1}
       ELSE {Append(first(m), Fragment(n + 1)) : m \in {k \in n .. Len(f) : n < Len(f)}}

-----------------------------------------------------------------------------
(* Reading: the scanner keeps the contiguous prefix.  A broken line that a *)
(* turn/end or, under Zstandard, a complete frame vouches for is damage.   *)

Broken(f) == {i \in DOMAIN f : ~(f[i].whole /\ f[i].seq = i)}

committed(f) == IF Broken(f) = {} THEN Len(f) ELSE Min(Broken(f)) - 1

Corrupt(f) ==
  \E i \in committed(f) + 1 .. Len(f) :
    \/ f[i].whole /\ f[i].event.type = "turn/end"
    \/ /\ compression = "zstd"
       /\ ~(Torn(f) /\ i >= Last(f).seq)

truncateTo(f) ==
  IF compression = "none" THEN committed(f)
  ELSE IF Torn(f) THEN Last(f).seq - 1 ELSE Len(f)

StoredEvents(f) == [i \in 1 .. committed(f) |-> f[i].event]

recoveredEvents(f) == SubSeq(StoredEvents(f), truncateTo(f) + 1, committed(f))

tornMarker(f) == truncateTo(f) < Len(f)

-----------------------------------------------------------------------------
Stage(s) == op' = [op EXCEPT !.stage = s]

Fails(call) ==
  /\ call \in Faults /\ upsets < MaxUpsets
  /\ upsets' = upsets + 1

Succeeds == UNCHANGED upsets

\* appendBatch: lines for an existing file, or a file for the first lines.
AppendBatch(events, from, isMaterialized) ==
  /\ op.kind = "none"
  /\ op' = IF isMaterialized
           THEN [kind |-> "append", stage |-> "write", before |-> Len(file),
                 lines |-> Lines(events, from)]
           ELSE [kind |-> "create", stage |-> "temp", before |-> 0,
                 lines |-> Lines(events, from)]
  /\ UNCHANGED <<compression, file, media, entry, upsets>>

MaterializeHeader == AppendBatch(<<>>, 0, FALSE)

(* Mutant: events decoded from a torn frame are dropped with the frame. *)
CommitRepair_DropsRecovered(closers) ==
  LET at == truncateTo(file) IN
  /\ op.kind = "none"
  /\ op' = [kind |-> "repair", stage |-> IF tornMarker(file) THEN "truncate" ELSE "write",
            before |-> at, lines |-> Lines(closers, committed(file))]
  /\ UNCHANGED <<compression, file, media, entry, upsets>>

CommitRepair(closers) ==
  LET at == truncateTo(file) IN
  /\ op.kind = "none"
  /\ op' = [kind |-> "repair", stage |-> IF tornMarker(file) THEN "truncate" ELSE "write",
            before |-> at,
            lines |-> Lines(recoveredEvents(file) \o closers, at)]
  /\ UNCHANGED <<compression, file, media, entry, upsets>>

-----------------------------------------------------------------------------
(* commitRepair's first half: cut the torn tail off and sync. *)

Truncate ==
  /\ op.stage = "truncate"
  /\ \/ file' = SubSeq(file, 1, op.before) /\ Stage("truncated") /\ Succeeds
     \/ Fails("write") /\ Stage("failed") /\ UNCHANGED file
  /\ UNCHANGED <<media, entry>>

SyncTruncated ==
  /\ op.stage = "truncated"
  /\ \/ /\ media' = file /\ Succeeds
        /\ Stage(IF op.lines = <<>> THEN "ok" ELSE "write")
     \/ Fails("sync") /\ Stage("failed") /\ UNCHANGED media
  /\ UNCHANGED <<file, entry>>

(* appendLines: write, sync and close; a failed write or sync is undone.   *)

Write ==
  /\ op.stage = "write"
  /\ \/ file' = Join(file, op.lines) /\ Stage("sync") /\ Succeeds
     \/ /\ Fails("write") /\ Stage("undo")
        /\ file' \in Cuts(Join(file, op.lines), Len(file))
  /\ UNCHANGED <<media, entry>>

(* Mutant: a failed sync is not undone. *)
Sync_NoUndo ==
  /\ op.stage = "sync"
  /\ \/ media' = file /\ Stage("close") /\ Succeeds
     \/ Fails("sync") /\ Stage("failed") /\ UNCHANGED media
  /\ UNCHANGED <<file, entry>>

Sync ==
  /\ op.stage = "sync"
  /\ \/ media' = file /\ Stage("close") /\ Succeeds
     \/ Fails("sync") /\ Stage("undo") /\ UNCHANGED media
  /\ UNCHANGED <<file, entry>>

\* The finally block closes the handle outside the try that rolls back.
Close ==
  /\ op.stage = "close"
  /\ \/ Stage("ok") /\ Succeeds
     \/ Fails("close") /\ Stage("failed")
  /\ UNCHANGED <<file, media, entry>>

\* The handle is closed and the file reopened to be cut back: if that fails the
\* file keeps what was written.
Undo ==
  /\ op.stage = "undo"
  /\ \/ file' = SubSeq(file, 1, op.before) /\ Stage("undone") /\ Succeeds
     \/ Fails("close") /\ Stage("failed") /\ UNCHANGED file
  /\ UNCHANGED <<media, entry>>

SyncUndone ==
  /\ op.stage = "undone"
  /\ Stage("failed")
  /\ \/ media' = file /\ Succeeds
     \/ Fails("sync") /\ UNCHANGED media
  /\ UNCHANGED <<file, entry>>

(* materialize: a synced temporary file is linked under the final name.    *)

WriteTemp ==
  /\ op.stage = "temp"
  /\ \/ /\ Stage(IF entry = "none" THEN "link" ELSE "refused") /\ Succeeds
     \/ entry = "none" /\ Fails("write") /\ Stage("failed")
  /\ UNCHANGED <<file, media, entry>>

(* Mutant: the log is written under its final name without a temporary. *)
Link_Unsynced ==
  /\ op.stage = "link"
  /\ \/ /\ entry' = "linked" /\ file' = op.lines /\ media' = <<>>
        /\ Stage("syncdir") /\ Succeeds
     \/ Fails("link") /\ Stage("failed") /\ UNCHANGED <<file, media, entry>>

Link ==
  /\ op.stage = "link"
  /\ \/ /\ entry' = "linked" /\ file' = op.lines /\ media' = op.lines
        /\ Stage("syncdir") /\ Succeeds
     \/ Fails("link") /\ Stage("failed") /\ UNCHANGED <<file, media, entry>>

SyncDir ==
  /\ op.stage = "syncdir"
  /\ \/ entry' = "durable" /\ Stage("ok") /\ Succeeds
     \/ Fails("syncdir") /\ Stage("failed") /\ UNCHANGED entry
  /\ UNCHANGED <<file, media>>

FileStep ==
  /\ \/ Truncate \/ SyncTruncated \/ Write \/ Sync \/ Close \/ Undo \/ SyncUndone
     \/ WriteTemp \/ Link \/ SyncDir
  /\ UNCHANGED compression

-----------------------------------------------------------------------------
\* A power loss keeps what was synced, and any part of what was not; an
\* unsynced truncation may be lost, and so may an unsynced directory entry.
Survivors ==
  {media} \cup Cuts(file, Len(LongestCommonPrefix({file, media})))

LoseUnsynced ==
  /\ upsets < MaxUpsets /\ upsets' = upsets + 1
  /\ \/ entry = "linked" /\ entry' = "none" /\ file' = <<>>
     \/ /\ entry' = IF entry = "linked" THEN "durable" ELSE entry
        /\ file' \in Survivors
  /\ media' = file'
  /\ op' = NoOp
  /\ UNCHANGED compression

JsonlInit ==
  /\ compression \in Compressions
  /\ file = <<>> /\ media = <<>> /\ entry = "none" /\ op = NoOp /\ upsets = 0

AreLines(f) == \A i \in DOMAIN f :
  f[i].seq > 0 /\ (f[i].whole = (f[i].event.type # "none"))

JsonlTypeOK ==
  /\ compression \in Compressions
  /\ AreLines(file) /\ AreLines(media)
  /\ entry \in {"none", "linked", "durable"}
  /\ op.kind \in Kinds /\ op.stage \in Stages
  /\ AreLines(op.lines) /\ op.before \in Nat
  /\ upsets \in 0 .. MaxUpsets
=============================================================================
