------------------------------ MODULE RunStore ------------------------------
(***************************************************************************)
(* The durable run queue: the table behind runs/run-store.ts, as the       *)
(* Postgres store implements it (runs/postgres-run-store.ts).  The memory  *)
(* store has the same operations, each in one step; its behaviours are     *)
(* among the ones below.                                                   *)
(*                                                                         *)
(* The clients are the most general ones: whoever was once handed a lease  *)
(* token may use it at any later time, in any order, as a worker that      *)
(* stalled, lost its lease or was cut off from the database may do.        *)
(* Statements that the code issues one after the other with an await in    *)
(* between are separate actions, so other clients run in between.          *)
(*                                                                         *)
(* A lease token is a fresh UUID in the code.  Tokens are only compared    *)
(* within one run, so the token of the n-th claim of a run is n here.      *)
(*                                                                         *)
(* Time is relative: leaseLeft is lease_expires_at - now in ticks, and a   *)
(* reaper's entry counts in `wait' the ticks since it read the table.      *)
(* The processes' clocks are taken to agree.                               *)
(***************************************************************************)
EXTENDS Integers, FiniteSets

CONSTANTS
  Runs,         \* the enqueue requests; each makes at most one row
  Sessions,     \* the conversation threads runs belong to
  SessionOf,    \* the session of each run
  Keys,         \* idempotency keys
  NoKey,        \* the key of a request without one
  KeyOf,        \* the idempotency key of each request
  MaxAttempts,  \* errors after which a run is parked
  MaxClaims,    \* claims after which a run is parked instead of retried
  LeaseTtl,     \* ticks a lease lasts
  MaxWait,      \* bound: ticks a sweep may last from its SELECT to its UPDATEs
  MaxReleases,  \* bound: times a run is handed back by a draining worker
  MaxRetiring   \* bound: retire() calls under way at once

ASSUME RunsAssumption ==
  /\ SessionOf \in [Runs -> Sessions]
  /\ NoKey \notin Keys
  /\ KeyOf \in [Runs -> Keys \cup {NoKey}]

ASSUME BudgetAssumption ==
  /\ MaxAttempts \in Nat \ {0}
  /\ MaxClaims \in Nat \ {0}
  /\ LeaseTtl \in Nat \ {0}
  /\ MaxWait \in Nat
  /\ MaxReleases \in Nat
  /\ MaxRetiring \in Nat

VARIABLES
  runs,      \* the table, one row per request
  claiming,  \* the rows an uncommitted claim has locked, and by which call
  retiring,  \* retire() calls under way, each with the row it read
  toSettle,  \* rows made terminal whose listeners have not been called yet
  settled,   \* rows whose listeners have been called
  stamp      \* the newest created_at

vars == <<runs, claiming, retiring, toSettle, settled, stamp>>

NoToken == 0

Status == {"absent", "pending", "running", "done", "failed"}

Row == [status: Status, attempts: Nat, errorAttempts: Nat, leaseToken: Nat,
        leaseLeft: Int, createdAt: Nat, releases: Nat]

NoRow == [status |-> "absent", attempts |-> 0, errorAttempts |-> 0,
          leaseToken |-> NoToken, leaseLeft |-> 0, createdAt |-> 0,
          releases |-> 0]

\* A retire() call: the row as fail() or reapExpired() read it, whether a
\* retry is wanted, and for the reaper the ticks since its SELECT and, as
\* history, whether the lease it read has been renewed since.
Retirement == [run: Runs, token: Nat, attempts: Nat, errorAttempts: Nat,
               retry: BOOLEAN, reap: BOOLEAN, wait: 0..MaxWait, renewed: BOOLEAN]

isTerminal(status) == status \in {"done", "failed"}

SessionRunning(s) == \E r \in Runs : SessionOf[r] = s /\ runs[r].status = "running"

\* The WHERE clause of heartbeat, releaseLease and retire.
Holds(r, token) == runs[r].status = "running" /\ runs[r].leaseToken = token

leaseLapsed(r) == runs[r].status = "running" /\ runs[r].leaseLeft <= 0

\* The tokens a client of run r may hold: one for each claim so far.
Tokens(r) == 1..runs[r].attempts

\* Mutant of Leased: the token is the run's, not the claim's.
LeasedSameToken(row) ==
  [row EXCEPT !.status = "running", !.attempts = @ + 1, !.leaseToken = 1,
              !.leaseLeft = LeaseTtl]

\* What the UPDATE of a claim makes of a row.
Leased(row) ==
  [row EXCEPT !.status = "running", !.attempts = @ + 1,
              !.leaseToken = row.attempts + 1, !.leaseLeft = LeaseTtl]

\* Mutant of Unleased: the token is left in the row.
UnleasedKeepsToken(row, status) == [row EXCEPT !.status = status, !.leaseLeft = 0]

\* What the UPDATEs that end a lease make of a row.
Unleased(row, status) ==
  [row EXCEPT !.status = status, !.leaseToken = NoToken, !.leaseLeft = 0]

Init ==
  /\ runs = [r \in Runs |-> NoRow]
  /\ claiming = [r \in Runs |-> "no"]
  /\ retiring = {}
  /\ toSettle = {}
  /\ settled = {}
  /\ stamp = 0

-----------------------------------------------------------------------------
(* Enqueueing and claiming.                                                *)

\* INSERT ... ON CONFLICT (idempotency_key) DO NOTHING: a request whose key
\* has a row already gets that row and changes nothing.  Two rows may carry
\* the same created_at, a time in milliseconds.
enqueue(r) ==
  /\ runs[r].status = "absent"
  /\ KeyOf[r] # NoKey =>
       \A q \in Runs : KeyOf[q] = KeyOf[r] => runs[q].status = "absent"
  /\ stamp' \in (IF stamp = 0 THEN {1} ELSE {stamp, stamp + 1})
  /\ runs' = [runs EXCEPT ![r] = [NoRow EXCEPT !.status = "pending",
                                               !.createdAt = stamp']]
  /\ UNCHANGED <<claiming, retiring, toSettle, settled>>

\* A row the sub-SELECT of a claim may lock: SKIP LOCKED passes over the
\* rows that other uncommitted claims hold.
Claimable(r) ==
  /\ runs[r].status = "pending"
  /\ ~SessionRunning(SessionOf[r])
  /\ claiming[r] = "no"

\* claim(): the sub-SELECT, which locks the oldest claimable row.
claim(r) ==
  /\ Claimable(r)
  /\ \A q \in Runs : Claimable(q) => runs[r].createdAt <= runs[q].createdAt
  /\ claiming' = [claiming EXCEPT ![r] = "claim"]
  /\ UNCHANGED <<runs, retiring, toSettle, settled, stamp>>

\* claimById(): the same for the one row asked for.
claimById(r) ==
  /\ Claimable(r)
  /\ claiming' = [claiming EXCEPT ![r] = "claimById"]
  /\ UNCHANGED <<runs, retiring, toSettle, settled, stamp>>

\* Mutant of lease: the table has no unique index.
leaseNoIndex(r) ==
  /\ claiming[r] # "no"
  /\ claiming' = [claiming EXCEPT ![r] = "no"]
  /\ runs' = [runs EXCEPT ![r] = Leased(@)]
  /\ UNCHANGED <<retiring, toSettle, settled, stamp>>

\* The UPDATE of a claim: it goes through if the unique index on the running
\* row of a session admits it.
lease(r) ==
  /\ claiming[r] # "no"
  /\ ~SessionRunning(SessionOf[r])
  /\ claiming' = [claiming EXCEPT ![r] = "no"]
  /\ runs' = [runs EXCEPT ![r] = Leased(@)]
  /\ UNCHANGED <<retiring, toSettle, settled, stamp>>

\* The UPDATE of a claim fails: the index reports a unique violation, or the
\* connection is lost and the transaction rolled back.
claimRefused(r) ==
  /\ claiming[r] # "no"
  /\ claiming' = [claiming EXCEPT ![r] = "no"]
  /\ UNCHANGED <<runs, retiring, toSettle, settled, stamp>>

-----------------------------------------------------------------------------
(* What the holder of a lease does.                                        *)

\* History: the sweeps that have read this lease.
Renewed(r, token) ==
  {IF e.reap /\ e.run = r /\ e.token = token THEN [e EXCEPT !.renewed = TRUE] ELSE e : e \in retiring}

\* A heartbeat renews a lease even after it lapsed, until it is reaped.
heartbeat(r, token) ==
  /\ Holds(r, token)
  /\ runs' = [runs EXCEPT ![r].leaseLeft = LeaseTtl]
  /\ retiring' = Renewed(r, token)
  /\ UNCHANGED <<claiming, toSettle, settled, stamp>>

Released(row) == [Unleased(row, "pending") EXCEPT !.releases = @ + 1]

\* Mutant of releaseLease: the row is updated by its id alone.
releaseLeaseById(r, token) ==
  /\ runs[r].releases < MaxReleases
  /\ runs' = [runs EXCEPT ![r] = Released(@)]
  /\ UNCHANGED <<claiming, retiring, toSettle, settled, stamp>>

\* The hand-back of a draining worker.
releaseLease(r, token) ==
  /\ Holds(r, token)
  /\ runs[r].releases < MaxReleases
  /\ runs' = [runs EXCEPT ![r] = Released(@)]
  /\ UNCHANGED <<claiming, retiring, toSettle, settled, stamp>>

\* Mutant of complete: the token is not tested either.
completeById(r, token) ==
  /\ runs' = [runs EXCEPT ![r] = Unleased(@, "done")]
  /\ toSettle' = toSettle \cup {r}
  /\ UNCHANGED <<claiming, retiring, settled, stamp>>

\* complete() tests the token only, not the status.
complete(r, token) ==
  /\ runs[r].leaseToken = token
  /\ runs' = [runs EXCEPT ![r] = Unleased(@, "done")]
  /\ toSettle' = toSettle \cup {r}
  /\ UNCHANGED <<claiming, retiring, settled, stamp>>

ReadRow(r, retry, reap) ==
  [run |-> r, token |-> runs[r].leaseToken, attempts |-> runs[r].attempts,
   errorAttempts |-> runs[r].errorAttempts, retry |-> retry, reap |-> reap,
   wait |-> 0, renewed |-> FALSE]

\* fail() reads the row and goes on to retire() if the token still matches.
fail(r, token, retry) ==
  /\ runs[r].leaseToken = token
  /\ \A e \in retiring : e.run = r /\ e.token = token => e.reap
  /\ Cardinality(retiring) < MaxRetiring
  /\ retiring' = retiring \cup {ReadRow(r, retry, FALSE)}
  /\ UNCHANGED <<runs, claiming, toSettle, settled, stamp>>

-----------------------------------------------------------------------------
(* The reaper, retire() and settle().                                      *)

\* The SELECT of reapExpired(): the lapsed rows, of which those over the age
\* cap are not to be retried.
reapExpired ==
  LET lapsed == {r \in Runs : leaseLapsed(r)} IN
  /\ lapsed # {}
  /\ Cardinality(retiring) + Cardinality(lapsed) <= MaxRetiring
  /\ \E tooOld \in SUBSET lapsed :
       retiring' = retiring \cup {ReadRow(r, r \notin tooOld, TRUE) : r \in lapsed}
  /\ UNCHANGED <<runs, claiming, toSettle, settled, stamp>>

\* Mutants of Requeues: the errors allowed, or the claims, are one too many.
RequeuesOneMoreError(e) ==
  e.retry /\ e.errorAttempts + (IF e.reap THEN 0 ELSE 1) <= MaxAttempts
    /\ e.attempts < MaxClaims

RequeuesOneMoreClaim(e) ==
  e.retry /\ e.errorAttempts + (IF e.reap THEN 0 ELSE 1) < MaxAttempts
    /\ e.attempts <= MaxClaims

\* The decision of retire(), taken on the row as it was read.
Requeues(e) ==
  LET errorAttemptsAfter == e.errorAttempts + IF e.reap THEN 0 ELSE 1
      overClaimed == e.attempts >= MaxClaims
  IN  e.retry /\ errorAttemptsAfter < MaxAttempts /\ ~overClaimed

\* Mutant of RetireApplies: the expiry is compared with the time of the UPDATE.
RetireAppliesNow(e) ==
  /\ Holds(e.run, e.token)
  /\ e.reap => runs[e.run].leaseLeft <= 0

\* The WHERE clause of retire()'s UPDATE, on the row as it is now; with
\* ifExpiredAt the lease must have lapsed by the time of the SELECT.
RetireApplies(e) ==
  /\ Holds(e.run, e.token)
  /\ e.reap => runs[e.run].leaseLeft + e.wait <= 0

\* Mutant of Retired: a parked run gets a status the table does not know.
RetiredParked(e) ==
  [Unleased(runs[e.run], IF Requeues(e) THEN "pending" ELSE "parked")
     EXCEPT !.errorAttempts = @ + IF e.reap THEN 0 ELSE 1]

Retired(e) ==
  [Unleased(runs[e.run], IF Requeues(e) THEN "pending" ELSE "failed")
     EXCEPT !.errorAttempts = @ + IF e.reap THEN 0 ELSE 1]

\* retire()'s UPDATE finds the row.
retire(e) ==
  /\ RetireApplies(e)
  /\ runs' = [runs EXCEPT ![e.run] = Retired(e)]
  /\ toSettle' = IF Requeues(e) THEN toSettle ELSE toSettle \cup {e.run}
  /\ retiring' = retiring \ {e}
  /\ UNCHANGED <<claiming, settled, stamp>>

\* retire()'s UPDATE changes no row, or its process dies before it.
retireMisses(e) ==
  /\ retiring' = retiring \ {e}
  /\ UNCHANGED <<runs, claiming, toSettle, settled, stamp>>

\* settle(): the row is read again and its listeners are called.
settle(r) ==
  /\ r \in toSettle
  /\ isTerminal(runs[r].status)
  /\ toSettle' = toSettle \ {r}
  /\ settled' = settled \cup {r}
  /\ UNCHANGED <<runs, claiming, retiring, stamp>>

\* The process dies after the UPDATE and before it calls the listeners.
settleLost(r) ==
  /\ r \in toSettle
  /\ toSettle' = toSettle \ {r}
  /\ UNCHANGED <<runs, claiming, retiring, settled, stamp>>

-----------------------------------------------------------------------------
Ticked(row) ==
  IF row.status = "running" /\ row.leaseLeft > -MaxWait
  THEN [row EXCEPT !.leaseLeft = @ - 1]
  ELSE row

\* Time passes.  No sweep lasts longer than MaxWait.
Tick ==
  /\ \A e \in retiring : e.reap => e.wait < MaxWait
  /\ runs' = [r \in Runs |-> Ticked(runs[r])]
  /\ retiring' = {IF e.reap THEN [e EXCEPT !.wait = @ + 1] ELSE e : e \in retiring}
  /\ UNCHANGED <<claiming, toSettle, settled, stamp>>

HolderStep(r) ==
  \E token \in Tokens(r) :
    \/ heartbeat(r, token)
    \/ releaseLease(r, token)
    \/ complete(r, token)
    \/ \E retry \in BOOLEAN : fail(r, token, retry)

Next ==
  \/ \E r \in Runs :
       \/ enqueue(r)
       \/ claim(r)
       \/ claimById(r)
       \/ lease(r)
       \/ claimRefused(r)
       \/ HolderStep(r)
       \/ settle(r)
       \/ settleLost(r)
  \/ reapExpired
  \/ \E e \in retiring : retire(e) \/ retireMisses(e)
  \/ Tick

Spec == Init /\ [][Next]_vars

-----------------------------------------------------------------------------
(* Properties.                                                             *)

TypeOK ==
  /\ runs \in [Runs -> Row]
  /\ claiming \in [Runs -> {"no", "claim", "claimById"}]
  /\ retiring \subseteq Retirement
  /\ toSettle \subseteq Runs
  /\ settled \subseteq Runs
  /\ stamp \in Nat

\* Two claims that locked rows of one session at the same time never both
\* take effect: a session has at most one running run.
OneRunningPerSession ==
  \A q, r \in Runs :
    /\ runs[q].status = "running"
    /\ runs[r].status = "running"
    /\ SessionOf[q] = SessionOf[r]
    => q = r

\* Only the newest claim's token opens a row, and only while it runs: every
\* earlier holder, however late, is fenced off.
NewestClaimHolds ==
  \A r \in Runs :
    IF runs[r].status = "running"
    THEN runs[r].leaseToken = runs[r].attempts /\ runs[r].attempts > 0
    ELSE runs[r].leaseToken = NoToken

\* fail() decides on a row it read earlier, and the row may have been
\* retired, reclaimed and retired again before it writes.  The error budget
\* is exact all the same: no run is retried once it is spent, and no run
\* collects more errors than it.
ErrorBudget ==
  \A r \in Runs :
    /\ runs[r].errorAttempts <= MaxAttempts
    /\ runs[r].status \in {"pending", "running"} => runs[r].errorAttempts < MaxAttempts

\* While the token that a retire() call read still opens the row, the budget
\* the call decides on is the row's: a decision on a stale read never lands.
SnapshotsAgree ==
  \A e \in retiring :
    /\ e.token \in Tokens(e.run)
    /\ Holds(e.run, e.token) =>
         /\ e.attempts = runs[e.run].attempts
         /\ e.errorAttempts = runs[e.run].errorAttempts

\* A run is claimed at most MaxClaims times, plus once for every time that a
\* draining worker handed it back: releaseLease() alone requeues without
\* asking the claim cap.
ClaimCap ==
  \A r \in Runs :
    /\ runs[r].attempts <= MaxClaims + runs[r].releases
    /\ runs[r].status = "pending" => runs[r].attempts < MaxClaims + runs[r].releases

\* A terminal run stays as it is, and its listeners are called for it at most
\* once, whatever stale holders, late retire() calls and sweeps do after.
TerminalOnce ==
  [][\A r \in Runs :
       /\ isTerminal(runs[r].status) => runs'[r] = runs[r]
       /\ r \in toSettle' \ toSettle => ~isTerminal(runs[r].status)
       /\ r \in settled' \ settled => isTerminal(runs[r].status)]_vars

\* However long a sweep takes from the SELECT that found a lease lapsed to the
\* UPDATE that retires the run, a holder who has renewed the lease in between
\* keeps its run, even if the lease has lapsed again by then.
SweepSparesRenewed ==
  [][\A e \in retiring : e.reap /\ e.renewed => ~retire(e)]_vars

\* claim() hands out the runs of a session in the order they were enqueued.
SessionFifo ==
  [][\A q, r \in Runs :
       /\ claiming[r] = "claim"
       /\ lease(r)
       /\ SessionOf[q] = SessionOf[r]
       /\ runs[q].status = "pending"
       => runs[r].createdAt <= runs[q].createdAt]_vars

\* The queue keeps the contract of RunContract.
Contract == INSTANCE RunContract WITH
              state <- [r \in Runs |-> runs[r].status], announced <- settled

KeepsContract == Contract!Spec
=============================================================================
