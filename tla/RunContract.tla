---------------------------- MODULE RunContract -----------------------------
(***************************************************************************)
(* What the run queue promises whoever submits a run and whoever listens   *)
(* for its end, with no leases, tokens, clocks or retries: a request with  *)
(* a known key adds nothing, the runs of a session are worked on one at a  *)
(* time, an interrupted run goes back to the queue, a finished run is      *)
(* never touched again, and its end is announced at most once.             *)
(***************************************************************************)
CONSTANTS Runs, SessionOf, NoKey, KeyOf

VARIABLES
  state,     \* the status of each run
  announced  \* the runs whose end has been announced

vars == <<state, announced>>

Init ==
  /\ state = [r \in Runs |-> "absent"]
  /\ announced = {}

\* RunStore.enqueue
Submit(r) ==
  /\ state[r] = "absent"
  /\ KeyOf[r] # NoKey => \A q \in Runs : KeyOf[q] = KeyOf[r] => state[q] = "absent"
  /\ state' = [state EXCEPT ![r] = "pending"]
  /\ UNCHANGED announced

\* RunStore.claim and RunStore.claimById
Start(r) ==
  /\ state[r] = "pending"
  /\ \A q \in Runs : SessionOf[q] = SessionOf[r] => state[q] # "running"
  /\ state' = [state EXCEPT ![r] = "running"]
  /\ UNCHANGED announced

\* RunStore.releaseLease, and a retry after RunStore.fail or a reap
Requeue(r) ==
  /\ state[r] = "running"
  /\ state' = [state EXCEPT ![r] = "pending"]
  /\ UNCHANGED announced

\* RunStore.complete, or a run parked by RunStore.fail or by the reaper
Finish(r) ==
  /\ state[r] = "running"
  /\ \E outcome \in {"done", "failed"} : state' = [state EXCEPT ![r] = outcome]
  /\ UNCHANGED announced

\* RunStore.onTerminal
Announce(r) ==
  /\ state[r] \in {"done", "failed"}
  /\ r \notin announced
  /\ announced' = announced \cup {r}
  /\ UNCHANGED state

Next ==
  \E r \in Runs : Submit(r) \/ Start(r) \/ Requeue(r) \/ Finish(r) \/ Announce(r)

Spec == Init /\ [][Next]_vars
=============================================================================
