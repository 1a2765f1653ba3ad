----------------------------- MODULE DurableLog -----------------------------
(***************************************************************************)
(* What one live session may expect of its write controller, whatever the  *)
(* batching: accepted events become durable in the order they were         *)
(* accepted, each once, and a flush that resolves has made durable         *)
(* everything accepted before it was called (write-behind.ts,              *)
(* session-persistence/README.md "durable writes").                        *)
(***************************************************************************)
EXTENDS Naturals, Sequences

CONSTANTS Callers,   \* the concurrent callers of session/flush
          MaxEvents  \* bound: events accepted in one behaviour

VARIABLES accepted,  \* how many events the producer handed over: 1, 2, ...
          stored,    \* the events the backend holds durably, in its order
          outcome,   \* what each caller's flush promise is
          want       \* events accepted when that flush was called

vars == <<accepted, stored, outcome, want>>

FirstEvents(n) == [i \in 1 .. n |-> i]

Waiting == {c \in Callers : outcome[c] = "waiting"}

Settled(r) == [c \in Callers |-> IF c \in Waiting THEN r ELSE outcome[c]]

Init ==
  /\ accepted = 0
  /\ stored = <<>>
  /\ outcome = [c \in Callers |-> "idle"]
  /\ want = [c \in Callers |-> 0]

Accept ==
  /\ accepted < MaxEvents
  /\ accepted' = accepted + 1
  /\ UNCHANGED <<stored, outcome, want>>

\* Any longer prefix of what was accepted may become durable.
Store ==
  /\ \E n \in Len(stored) .. accepted : stored' = FirstEvents(n)
  /\ UNCHANGED <<accepted, outcome, want>>

\* A flush with nothing left to write resolves on the spot.
Flush(c) ==
  /\ c \notin Waiting
  /\ \E r \in {"waiting", "ok"} :
       /\ r = "ok" => Len(stored) = accepted
       /\ outcome' = [outcome EXCEPT ![c] = r]
  /\ want' = [want EXCEPT ![c] = accepted]
  /\ UNCHANGED <<accepted, stored>>

\* Concurrent callers share one barrier and hear the same answer.
Answer ==
  /\ \E r \in {"ok", "failed"} :
       /\ r = "ok" => \A c \in Waiting : want[c] <= Len(stored)
       /\ outcome' = Settled(r)
  /\ UNCHANGED <<accepted, stored, want>>

Next == Accept \/ Store \/ (\E c \in Callers : Flush(c)) \/ Answer

Spec == Init /\ [][Next]_vars
=============================================================================
