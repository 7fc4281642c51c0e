-------------------------- MODULE RunWorkersProofs --------------------------
(***************************************************************************)
(* The processes use the run table and the session leases as their         *)
(* contracts allow, for any number of processes, runs and sessions: what   *)
(* RunStoreProofs and SessionLeasesProofs show of any client holds of the  *)
(* workers and the reaper.                                                 *)
(***************************************************************************)
EXTENDS RunWorkers, TLAPS

RSP == INSTANCE RunStoreProofs
SLP == INSTANCE SessionLeasesProofs

\* The process has claimed a run, and processRun() or the look at the stop flag
\* before it is under way.
Leased(w) == At(w, "leased") \/ InFlight(w)

\* What a process remembers of its claim.
ClaimKnown(w) ==
  /\ At(w, "claiming") => Run(w) \in Runs
  /\ worker[w].pc \in {"down", "idle", "claiming"} => Token(w) = 0
  /\ Leased(w) => Token(w) # 0
  /\ Token(w) # 0 => Run(w) \in Runs /\ Token(w) \in RS!Tokens(Run(w))
  /\ worker[w].drain # "no" => InFlight(w) \/ At(w, "exited")
  /\ worker[w].drain # "no" => Token(w) # 0

\* What the stores hold for a process at each stage.
StageBacked(w) ==
  /\ At(w, "claiming") => claiming[Run(w)] # "no"
  /\ At(w, "turn") => worker[w].lease \in 1..granted[Session(w)]
  /\ At(w, "retiring") =>
       \E e \in retiring : e.run = Run(w) /\ e.token = Token(w) /\ ~e.reap
  /\ At(w, "settling") => Run(w) \in toSettle

\* A missed beat is counted only during the turn and only of a lost run.
MissedIsLost(w) ==
  worker[w].lost > 0 => worker[w].pc \in {"resolving", "turn"} /\ ~Owns(w)

\* A worker that has handed its run back owns nothing, and neither does one that
\* has left its loop, as long as no call has failed.
LeftNothing(w) ==
  /\ worker[w].drain = "done" => ~Owns(w)
  /\ faults = 0 /\ At(w, "exited") => ~Owns(w)

\* No two processes have one claim, one row to lock or one run to announce.
Apart(v, w) ==
  /\ Leased(v) /\ Leased(w) /\ Run(v) = Run(w) => Token(v) # Token(w)
  /\ At(v, "claiming") /\ At(w, "claiming") => Run(v) # Run(w)
  /\ At(v, "settling") /\ At(w, "settling") => Run(v) # Run(w)

\* The run the sweep is announcing is its own.
ParkedIsOwn ==
  reaper.parked # NoRun =>
    reaper.parked \in toSettle /\ \A w \in Workers : At(w, "settling") => Run(w) # reaper.parked

WorkerInv(w) == ClaimKnown(w) /\ StageBacked(w) /\ MissedIsLost(w) /\ LeftNothing(w)

\* The inductive invariant.
WorkersInv ==
  /\ TypeOK
  /\ RSP!RunStoreInv
  /\ SLP!LeasesInv
  /\ \A w \in Workers : WorkerInv(w)
  /\ \A v, w \in Workers : v # w => Apart(v, w)
  /\ ParkedIsOwn

-----------------------------------------------------------------------------
(* The stores' lemmas are about the stores' definitions as the proof       *)
(* modules have them; these are the same.                                  *)

LEMMA StoreAssumptions ==
  /\ SessionOf \in [Runs -> Sessions]
  /\ NoKey \notin Keys
  /\ KeyOf \in [Runs -> Keys \cup {NoKey}]
  /\ MaxAttempts \in Nat \ {0} /\ MaxClaims \in Nat \ {0} /\ LeaseTtl \in Nat \ {0}
  /\ MaxWait \in Nat /\ MaxReleases \in Nat /\ MaxRetiring \in Nat
  /\ SessionTtl \in Nat \ {0} /\ MaxGrants \in Nat
  BY WorkersAssumption
     DEF RS!RunsAssumption, RS!BudgetAssumption, SL!SessionTtlAssumption

LEMMA SameCardinality ==
  /\ \A S : RS!Cardinality(S) = Cardinality(S)
  /\ \A S : RSP!Cardinality(S) = Cardinality(S)
<1>1. ASSUME NEW S PROVE RS!Cardinality(S) = Cardinality(S)
  BY Zenon DEF RS!Cardinality, Cardinality
<1>2. ASSUME NEW S PROVE RSP!Cardinality(S) = Cardinality(S)
  BY Zenon DEF RSP!Cardinality, Cardinality
<1> QED BY <1>1, <1>2

LEMMA SameSweep == RS!reapExpired <=> RSP!reapExpired
<1>1. \A r \in Runs : RS!leaseLapsed(r) <=> RSP!leaseLapsed(r)
  BY DEF RS!leaseLapsed, RSP!leaseLapsed
<1>2. \A r, retry, reap : RS!ReadRow(r, retry, reap) = RSP!ReadRow(r, retry, reap)
  BY DEF RS!ReadRow, RSP!ReadRow
<1>3. {r \in Runs : RS!leaseLapsed(r)} = {r \in Runs : RSP!leaseLapsed(r)}
  BY <1>1
<1> DEFINE lapsed == {r \in Runs : RS!leaseLapsed(r)}
           read(tooOld) == {RS!ReadRow(r, r \notin tooOld, TRUE) : r \in lapsed}
           sweep1 == /\ lapsed # {}
                     /\ Cardinality(retiring) + Cardinality(lapsed) <= MaxRetiring
                     /\ \E tooOld \in SUBSET lapsed : retiring' = retiring \cup read(tooOld)
                     /\ UNCHANGED <<runs, claiming, toSettle, settled, stamp>>
<1>4. RS!reapExpired <=> sweep1
  BY SameCardinality DEF RS!reapExpired
<1>5. RSP!reapExpired <=> sweep1
  <2>1. {r \in Runs : RSP!leaseLapsed(r)} = lapsed
    BY <1>3
  <2> HIDE DEF lapsed
  <2>2. ASSUME NEW tooOld
        PROVE  {RSP!ReadRow(r, r \notin tooOld, TRUE) : r \in lapsed} = read(tooOld)
    BY <1>2
  <2> HIDE DEF read
  <2> QED BY <2>1, <2>2, SameCardinality DEF RSP!reapExpired
<1> QED BY <1>4, <1>5

LEMMA SameRowStep ==
  ASSUME NEW r \in Runs
  PROVE  /\ RS!enqueue(r) <=> RSP!enqueue(r)
         /\ RS!claim(r) <=> RSP!claim(r)
         /\ RS!claimById(r) <=> RSP!claimById(r)
         /\ RS!lease(r) <=> RSP!lease(r)
         /\ RS!claimRefused(r) <=> RSP!claimRefused(r)
         /\ RS!settle(r) <=> RSP!settle(r)
         /\ RS!settleLost(r) <=> RSP!settleLost(r)
<1>1. \A q \in Runs : RS!Claimable(q) <=> RSP!Claimable(q)
  BY DEF RS!Claimable, RSP!Claimable, RS!SessionRunning, RSP!SessionRunning
<1>2. RS!enqueue(r) <=> RSP!enqueue(r)
  BY DEF RS!enqueue, RSP!enqueue, RS!NoRow, RSP!NoRow, RS!NoToken, RSP!NoToken
<1>3. /\ RS!claim(r) <=> RSP!claim(r)
      /\ RS!claimById(r) <=> RSP!claimById(r)
  BY <1>1 DEF RS!claim, RSP!claim, RS!claimById, RSP!claimById
<1>4. /\ RS!lease(r) <=> RSP!lease(r)
      /\ RS!claimRefused(r) <=> RSP!claimRefused(r)
  BY DEF RS!lease, RSP!lease, RS!Leased, RSP!Leased, RS!SessionRunning, RSP!SessionRunning,
         RS!claimRefused, RSP!claimRefused
<1>5. /\ RS!settle(r) <=> RSP!settle(r)
      /\ RS!settleLost(r) <=> RSP!settleLost(r)
  BY DEF RS!settle, RSP!settle, RS!settleLost, RSP!settleLost, RS!isTerminal, RSP!isTerminal
<1> QED BY <1>2, <1>3, <1>4, <1>5

LEMMA SameHolderStep ==
  ASSUME NEW r \in Runs
  PROVE  RS!HolderStep(r) <=> RSP!HolderStep(r)
<1>0. RS!Tokens(r) = RSP!Tokens(r)
  BY DEF RS!Tokens, RSP!Tokens
<1>1. ASSUME NEW n PROVE RS!heartbeat(r, n) <=> RSP!heartbeat(r, n)
  BY DEF RS!heartbeat, RSP!heartbeat, RS!Holds, RSP!Holds, RS!Renewed, RSP!Renewed
<1>2. ASSUME NEW n PROVE RS!releaseLease(r, n) <=> RSP!releaseLease(r, n)
  BY DEF RS!releaseLease, RSP!releaseLease, RS!Holds, RSP!Holds, RS!Released, RSP!Released,
         RS!Unleased, RSP!Unleased, RS!NoToken, RSP!NoToken
<1>3. ASSUME NEW n PROVE RS!complete(r, n) <=> RSP!complete(r, n)
  BY DEF RS!complete, RSP!complete, RS!Unleased, RSP!Unleased, RS!NoToken, RSP!NoToken
<1>4. ASSUME NEW n, NEW retry PROVE RS!fail(r, n, retry) <=> RSP!fail(r, n, retry)
  <2>1. RS!ReadRow(r, retry, FALSE) = RSP!ReadRow(r, retry, FALSE)
    BY DEF RS!ReadRow, RSP!ReadRow
  <2> QED BY <2>1, SameCardinality DEF RS!fail, RSP!fail
<1> QED BY <1>0, <1>1, <1>2, <1>3, <1>4 DEF RS!HolderStep, RSP!HolderStep

LEMMA SameRetirement ==
  ASSUME NEW e \in retiring
  PROVE  (RS!retire(e) <=> RSP!retire(e)) /\ (RS!retireMisses(e) <=> RSP!retireMisses(e))
<1>1. RS!Requeues(e) <=> RSP!Requeues(e)
  BY DEF RS!Requeues, RSP!Requeues
<1>2. RS!Retired(e) = RSP!Retired(e)
  BY <1>1 DEF RS!Retired, RSP!Retired, RS!Unleased, RSP!Unleased, RS!NoToken, RSP!NoToken
<1>3. RS!RetireApplies(e) <=> RSP!RetireApplies(e)
  BY DEF RS!RetireApplies, RSP!RetireApplies, RS!Holds, RSP!Holds
<1> QED BY <1>1, <1>2, <1>3
        DEF RS!retire, RSP!retire, RS!retireMisses, RSP!retireMisses

LEMMA SameTick == RS!Tick <=> RSP!Tick
<1>1. \A row : RS!Ticked(row) = RSP!Ticked(row)
  BY DEF RS!Ticked, RSP!Ticked
<1>2. [r \in Runs |-> RS!Ticked(runs[r])] = [r \in Runs |-> RSP!Ticked(runs[r])]
  BY <1>1
<1> QED BY <1>2 DEF RS!Tick, RSP!Tick

\* A step of the run table as RunStoreProofs sees it.
LEMMA SameStoreStep == [RS!Next]_storeVars <=> [RSP!Next]_(RSP!vars)
<1>1. RS!Next <=> RSP!Next
  BY SameSweep, SameRowStep, SameHolderStep, SameRetirement, SameTick
     DEF RS!Next, RSP!Next
<1>2. UNCHANGED storeVars <=> UNCHANGED RSP!vars
  BY DEF storeVars, RSP!vars
<1> QED BY <1>1, <1>2

\* A step of the session leases as SessionLeasesProofs sees it.
LEMMA SameLeaseStep == [SL!Next]_leaseVars <=> [SLP!Next]_(SLP!vars)
<1>1. ASSUME NEW s \in Sessions
      PROVE  SL!acquireLease(s) <=> SLP!acquireLease(s)
  BY DEF SL!acquireLease, SLP!acquireLease, SL!Acquirable, SLP!Acquirable
<1>2. ASSUME NEW s \in Sessions, NEW token
      PROVE  /\ SL!append(s, token) <=> SLP!append(s, token)
             /\ SL!releaseLease(s, token) <=> SLP!releaseLease(s, token)
  BY DEF SL!append, SLP!append, SL!releaseLease, SLP!releaseLease, SL!ValidFor, SLP!ValidFor,
         SL!NoLease, SLP!NoLease
<1>3. ASSUME NEW s \in Sessions
      PROVE  SL!forceReleaseLease(s) <=> SLP!forceReleaseLease(s)
  BY DEF SL!forceReleaseLease, SLP!forceReleaseLease, SL!NoLease, SLP!NoLease
<1>4. SL!Tick <=> SLP!Tick
  BY DEF SL!Tick, SLP!Tick
<1>5. SL!Next <=> SLP!Next
  BY <1>1, <1>2, <1>3, <1>4 DEF SL!Next, SLP!Next
<1>6. UNCHANGED leaseVars <=> UNCHANGED SLP!vars
  BY DEF leaseVars, SLP!vars
<1> QED BY <1>5, <1>6

-----------------------------------------------------------------------------
(* What the stores keep for their clients.                                 *)

\* The run table, in its own terms.
LEMMA StoreFacts ==
  ASSUME RSP!RunStoreInv
  PROVE  /\ RS!TypeOK
         /\ \A r \in Runs : runs[r].status # "running" => runs[r].leaseToken = 0
         /\ \A r \in toSettle : runs[r].status \in {"done", "failed"}
         /\ \A r \in Runs : claiming[r] # "no" => runs[r].status = "pending"
<1>1. RS!TypeOK
  BY DEF RSP!RunStoreInv, RSP!TypeOK, RS!TypeOK, RSP!Row, RS!Row, RSP!Status, RS!Status,
         RSP!Retirement, RS!Retirement
<1>2. \A r \in Runs : runs[r].status # "running" => runs[r].leaseToken = 0
  BY DEF RSP!RunStoreInv, RSP!NewestClaimHolds, RSP!NoToken
<1>3. \A r \in toSettle : runs[r].status \in {"done", "failed"}
  BY DEF RSP!RunStoreInv, RSP!SettledAreTerminal, RSP!isTerminal
<1>4. \A r \in Runs : claiming[r] # "no" => runs[r].status = "pending"
  BY DEF RSP!RunStoreInv, RSP!ClaimedArePending
<1> QED BY <1>1, <1>2, <1>3, <1>4

\* No client's token is forgotten, and none that was fenced off opens its row
\* again.
LEMMA StoreKept ==
  ASSUME RSP!RunStoreInv, [RS!Next]_storeVars
  PROVE  /\ RSP!RunStoreInv'
         /\ \A r \in Runs : RS!Tokens(r) \subseteq RS!Tokens(r)'
         /\ \A r \in Runs : \A n \in RS!Tokens(r) : RS!Holds(r, n)' => RS!Holds(r, n)
<1>1. [RSP!Next]_(RSP!vars)
  BY SameStoreStep
<1>2. RSP!RunStoreInv'
  BY <1>1, RSP!InvPreserved, StoreAssumptions
<1>3. ASSUME NEW r \in Runs
      PROVE  /\ RS!Tokens(r) \subseteq RS!Tokens(r)'
             /\ \A n \in RS!Tokens(r) : RS!Holds(r, n)' => RS!Holds(r, n)
  <2>1. /\ RSP!Tokens(r) \subseteq RSP!Tokens(r)'
        /\ \A n \in RSP!Tokens(r) : RSP!Holds(r, n)' => RSP!Holds(r, n)
    BY <1>1, RSP!TokensSpent, StoreAssumptions
  <2>2. RS!Tokens(r) = RSP!Tokens(r) /\ RS!Tokens(r)' = RSP!Tokens(r)'
    BY DEF RS!Tokens, RSP!Tokens
  <2>3. ASSUME NEW n
        PROVE  (RS!Holds(r, n) <=> RSP!Holds(r, n)) /\ (RS!Holds(r, n)' <=> RSP!Holds(r, n)')
    BY DEF RS!Holds, RSP!Holds
  <2> QED BY <2>1, <2>2, <2>3
<1> QED BY <1>2, <1>3

\* No grant is forgotten.
LEMMA LeasesKept ==
  ASSUME SLP!LeasesInv, [SL!Next]_leaseVars
  PROVE  /\ SLP!LeasesInv' /\ SL!TypeOK /\ SL!TypeOK'
         /\ \A s \in Sessions : 1..granted[s] \subseteq 1..granted'[s]
<1>1. [SLP!Next]_(SLP!vars)
  BY SameLeaseStep
<1>2. SLP!LeasesInv'
  BY <1>1, SLP!LeasesInvPreserved, StoreAssumptions
<1>3. SL!TypeOK /\ SL!TypeOK'
  BY <1>2 DEF SLP!LeasesInv, SLP!TypeOK, SL!TypeOK, SLP!Lease, SL!Lease
<1>4. \A s \in Sessions : 1..granted[s] \subseteq 1..granted'[s]
  <2>1. \/ \E s \in Sessions : granted' = [granted EXCEPT ![s] = @ + 1]
        \/ UNCHANGED granted
    BY DEF SL!Next, SL!acquireLease, SL!append, SL!releaseLease, SL!forceReleaseLease,
           SL!Tick, leaseVars
  <2>2. granted \in [Sessions -> Nat]
    BY <1>3 DEF SL!TypeOK
  <2> QED BY <2>1, <2>2
<1> QED BY <1>2, <1>3, <1>4

-----------------------------------------------------------------------------
(* What the steps of a process change of its own state.                    *)

\* Process w alone moves.
OnlyMoves(w) ==
  /\ worker' \in [Workers -> WorkerState]
  /\ \A v \in Workers : v # w => worker'[v] = worker[v]

\* It moves within its claim.
SameClaim(w) ==
  /\ Run(w)' = Run(w) /\ Token(w)' = Token(w)
  /\ worker'[w].stopped = worker[w].stopped

LEMMA WorkerMoves ==
  ASSUME worker \in [Workers -> WorkerState], NEW w \in Workers, NEW new \in WorkerState,
         worker' = [worker EXCEPT ![w] = new]
  PROVE  OnlyMoves(w) /\ worker'[w] = new
  BY DEF OnlyMoves

LEMMA FreshState ==
  /\ Fresh \in WorkerState /\ Down \in WorkerState
  /\ Fresh.pc = "idle" /\ Fresh.token = 0 /\ Fresh.lost = 0 /\ Fresh.drain = "no"
  /\ Down.pc = "down" /\ Down.token = 0 /\ Down.lost = 0 /\ Down.drain = "no"
<1>1. /\ Fresh \in WorkerState
      /\ Fresh.pc = "idle" /\ Fresh.token = 0 /\ Fresh.lost = 0 /\ Fresh.drain = "no"
  BY WorkersAssumption DEF Fresh, WorkerState, Pcs, Drains
<1>2. /\ Down \in WorkerState
      /\ Down.pc = "down" /\ Down.token = 0 /\ Down.lost = 0 /\ Down.drain = "no"
  <2> HIDE DEF Fresh
  <2> QED BY <1>1 DEF Down, WorkerState, Pcs
<1> QED BY <1>1, <1>2

LEMMA GotoMoves ==
  ASSUME worker \in [Workers -> WorkerState], NEW w \in Workers, NEW pc \in Pcs, Goto(w, pc)
  PROVE  /\ OnlyMoves(w) /\ SameClaim(w)
         /\ worker'[w].pc = pc /\ worker'[w].lease = worker[w].lease
         /\ worker'[w].lost = worker[w].lost /\ worker'[w].drain = worker[w].drain
<1> DEFINE new == [worker[w] EXCEPT !.pc = pc]
<1>1. worker' = [worker EXCEPT ![w] = new]
  BY DEF Goto
<1>2. /\ new \in WorkerState /\ new.pc = pc /\ new.run = worker[w].run
      /\ new.token = worker[w].token /\ new.lease = worker[w].lease
      /\ new.lost = worker[w].lost /\ new.drain = worker[w].drain
      /\ new.stopped = worker[w].stopped
  BY DEF WorkerState
<1> HIDE DEF new
<1> QED BY <1>1, <1>2, WorkerMoves DEF SameClaim, Run, Token

LEMMA ClaimingMoves ==
  ASSUME worker \in [Workers -> WorkerState], NEW w \in Workers, NEW r \in Runs, Claiming(w, r)
  PROVE  /\ OnlyMoves(w)
         /\ worker'[w].pc = "claiming" /\ Run(w)' = r /\ Token(w)' = Token(w)
         /\ worker'[w].lost = worker[w].lost /\ worker'[w].drain = worker[w].drain
<1> DEFINE a == [worker[w] EXCEPT !.pc = "claiming"]
           new == [a EXCEPT !.run = r]
<1>1. worker' = [worker EXCEPT ![w] = new]
  BY DEF Claiming
<1>2. /\ a \in WorkerState /\ a.pc = "claiming" /\ a.token = worker[w].token
      /\ a.lost = worker[w].lost /\ a.drain = worker[w].drain
  BY DEF WorkerState, Pcs
<1>3. /\ new \in WorkerState /\ new.pc = a.pc /\ new.run = r /\ new.token = a.token
      /\ new.lost = a.lost /\ new.drain = a.drain
  <2> HIDE DEF a
  <2> QED BY <1>2 DEF WorkerState
<1> HIDE DEF a, new
<1> QED BY <1>1, <1>2, <1>3, WorkerMoves DEF Run, Token

LEMMA LeasedMoves ==
  ASSUME worker \in [Workers -> WorkerState], NEW w \in Workers, NEW n \in Nat,
         worker' = [worker EXCEPT ![w].pc = "leased", ![w].token = n]
  PROVE  /\ OnlyMoves(w)
         /\ worker'[w].pc = "leased" /\ Run(w)' = Run(w) /\ Token(w)' = n
         /\ worker'[w].lost = worker[w].lost /\ worker'[w].drain = worker[w].drain
<1> DEFINE a == [worker[w] EXCEPT !.pc = "leased"]
           new == [a EXCEPT !.token = n]
<1>1. worker' = [worker EXCEPT ![w] = new]
  OBVIOUS
<1>2. /\ a \in WorkerState /\ a.pc = "leased" /\ a.run = worker[w].run
      /\ a.lost = worker[w].lost /\ a.drain = worker[w].drain
  BY DEF WorkerState, Pcs
<1>3. /\ new \in WorkerState /\ new.pc = a.pc /\ new.run = a.run /\ new.token = n
      /\ new.lost = a.lost /\ new.drain = a.drain
  <2> HIDE DEF a
  <2> QED BY <1>2 DEF WorkerState
<1> HIDE DEF a, new
<1> QED BY <1>1, <1>2, <1>3, WorkerMoves DEF Run, Token

LEMMA BeatMoves ==
  ASSUME worker \in [Workers -> WorkerState], NEW w \in Workers,
         NEW n \in 0..LeaseLostConsecutive, worker' = [worker EXCEPT ![w].lost = n]
  PROVE  /\ OnlyMoves(w) /\ SameClaim(w)
         /\ worker'[w].pc = worker[w].pc /\ worker'[w].lease = worker[w].lease
         /\ worker'[w].lost = n /\ worker'[w].drain = worker[w].drain
<1> DEFINE new == [worker[w] EXCEPT !.lost = n]
<1>1. worker' = [worker EXCEPT ![w] = new]
  OBVIOUS
<1>2. /\ new \in WorkerState /\ new.pc = worker[w].pc /\ new.run = worker[w].run
      /\ new.token = worker[w].token /\ new.lease = worker[w].lease
      /\ new.lost = n /\ new.drain = worker[w].drain
      /\ new.stopped = worker[w].stopped
  BY DEF WorkerState
<1> HIDE DEF new
<1> QED BY <1>1, <1>2, WorkerMoves DEF SameClaim, Run, Token

LEMMA TurnMoves ==
  ASSUME worker \in [Workers -> WorkerState], NEW w \in Workers, NEW n \in Nat,
         worker' = [worker EXCEPT ![w].pc = "turn", ![w].lease = n]
  PROVE  /\ OnlyMoves(w) /\ SameClaim(w)
         /\ worker'[w].pc = "turn" /\ worker'[w].lease = n
         /\ worker'[w].lost = worker[w].lost /\ worker'[w].drain = worker[w].drain
<1> DEFINE a == [worker[w] EXCEPT !.pc = "turn"]
           new == [a EXCEPT !.lease = n]
<1>1. worker' = [worker EXCEPT ![w] = new]
  OBVIOUS
<1>2. /\ a \in WorkerState /\ a.pc = "turn" /\ a.run = worker[w].run
      /\ a.token = worker[w].token /\ a.stopped = worker[w].stopped
      /\ a.lost = worker[w].lost /\ a.drain = worker[w].drain
  BY DEF WorkerState, Pcs
<1>3. /\ new \in WorkerState /\ new.pc = a.pc /\ new.run = a.run /\ new.token = a.token
      /\ new.stopped = a.stopped /\ new.lease = n /\ new.lost = a.lost /\ new.drain = a.drain
  <2> HIDE DEF a
  <2> QED BY <1>2 DEF WorkerState
<1> HIDE DEF a, new
<1> QED BY <1>1, <1>2, <1>3, WorkerMoves DEF SameClaim, Run, Token

\* The turn is over, with a result or an error.
LEMMA TurnEndMoves ==
  ASSUME worker \in [Workers -> WorkerState], NEW w \in Workers,
         Returns(w) \/ \E retry \in BOOLEAN : Throws(w, retry)
  PROVE  /\ OnlyMoves(w) /\ SameClaim(w)
         /\ worker'[w].pc \in {"completing", "failing"}
         /\ worker'[w].lost = 0 /\ worker'[w].drain = worker[w].drain
<1> DEFINE Ended(a) == [[a EXCEPT !.lease = 0] EXCEPT !.lost = 0]
           done == [worker[w] EXCEPT !.pc = "completing"]
           threw == [worker[w] EXCEPT !.pc = "failing"]
           failed(retry) == [threw EXCEPT !.retry = retry]
           From(a) == /\ a \in WorkerState /\ a.pc \in {"completing", "failing"}
                      /\ a.run = worker[w].run /\ a.token = worker[w].token
                      /\ a.stopped = worker[w].stopped /\ a.drain = worker[w].drain
<1>1. \/ worker' = [worker EXCEPT ![w] = Ended(done)]
      \/ \E retry \in BOOLEAN : worker' = [worker EXCEPT ![w] = Ended(failed(retry))]
  BY DEF Returns, Throws
<1>2. From(done) /\ From(threw)
  BY DEF WorkerState, Pcs
<1>3. \A retry \in BOOLEAN : From(failed(retry))
  <2> HIDE DEF threw
  <2> QED BY <1>2 DEF WorkerState
<1> HIDE DEF done, failed
<1>4. ASSUME NEW a, From(a) PROVE From(Ended(a)) /\ Ended(a).lost = 0
  <2> DEFINE b == [a EXCEPT !.lease = 0]
  <2>1. From(b)
    BY <1>4 DEF WorkerState
  <2> HIDE DEF b
  <2>2. [b EXCEPT !.lost = 0].lost = 0 /\ From([b EXCEPT !.lost = 0])
    BY <2>1, WorkersAssumption DEF WorkerState
  <2> QED BY <2>2 DEF b
<1> HIDE DEF Ended
<1>5. PICK new : worker' = [worker EXCEPT ![w] = new] /\ From(new) /\ new.lost = 0
  BY <1>1, <1>2, <1>3, <1>4
<1> QED BY <1>5, WorkerMoves DEF SameClaim, Run, Token

LEMMA EndOfRunMoves ==
  ASSUME worker \in [Workers -> WorkerState], NEW w \in Workers, EndOfRun(w)
  PROVE  /\ OnlyMoves(w)
         /\ \/ /\ worker'[w].pc = "exited" /\ SameClaim(w)
               /\ worker'[w].lost = worker[w].lost /\ worker'[w].drain = worker[w].drain
            \/ worker'[w] = Fresh
<1>1. CASE worker[w].stopped
  <2> DEFINE a == [worker[w] EXCEPT !.pc = "exited"]
             new == [a EXCEPT !.retry = TRUE]
  <2>1. worker' = [worker EXCEPT ![w] = new]
    BY <1>1 DEF EndOfRun
  <2>2. /\ a \in WorkerState /\ a.pc = "exited" /\ a.run = worker[w].run
        /\ a.token = worker[w].token /\ a.stopped = worker[w].stopped
        /\ a.lost = worker[w].lost /\ a.drain = worker[w].drain
    BY DEF WorkerState, Pcs
  <2>3. /\ new \in WorkerState /\ new.pc = a.pc /\ new.run = a.run /\ new.token = a.token
        /\ new.stopped = a.stopped /\ new.lost = a.lost /\ new.drain = a.drain
    <3> HIDE DEF a
    <3> QED BY <2>2 DEF WorkerState
  <2> HIDE DEF a, new
  <2> QED BY <2>1, <2>2, <2>3, WorkerMoves DEF SameClaim, Run, Token
<1>2. CASE ~worker[w].stopped
  <2>1. worker' = [worker EXCEPT ![w] = Fresh]
    BY <1>2 DEF EndOfRun
  <2> QED BY <2>1, FreshState, WorkerMoves
<1> QED BY <1>1, <1>2

LEMMA StopMoves ==
  ASSUME worker \in [Workers -> WorkerState], NEW w \in Workers,
         worker' = [worker EXCEPT ![w].stopped = TRUE,
                                  ![w].pc = IF @ = "idle" THEN "exited" ELSE @]
  PROVE  /\ OnlyMoves(w)
         /\ worker'[w].pc = (IF worker[w].pc = "idle" THEN "exited" ELSE worker[w].pc)
         /\ Run(w)' = Run(w) /\ Token(w)' = Token(w) /\ worker'[w].lease = worker[w].lease
         /\ worker'[w].lost = worker[w].lost /\ worker'[w].drain = worker[w].drain
<1> DEFINE a == [worker[w] EXCEPT !.stopped = TRUE]
           pc == IF worker[w].pc = "idle" THEN "exited" ELSE worker[w].pc
           new == [a EXCEPT !.pc = pc]
<1>1. /\ a \in WorkerState /\ a.pc = worker[w].pc /\ a.run = worker[w].run
      /\ a.token = worker[w].token /\ a.lease = worker[w].lease
      /\ a.lost = worker[w].lost /\ a.drain = worker[w].drain
  BY DEF WorkerState
<1>2. worker' = [worker EXCEPT ![w] = new]
  BY <1>1
<1>3. pc \in Pcs
  BY DEF WorkerState, Pcs
<1>4. /\ new \in WorkerState /\ new.pc = pc /\ new.run = a.run /\ new.token = a.token
      /\ new.lease = a.lease /\ new.lost = a.lost /\ new.drain = a.drain
  <2> HIDE DEF a, pc
  <2> QED BY <1>1, <1>3 DEF WorkerState
<1> HIDE DEF a, new
<1>5. OnlyMoves(w) /\ worker'[w] = new
  BY <1>2, <1>4, WorkerMoves
<1> QED BY <1>1, <1>4, <1>5 DEF Run, Token

LEMMA DrainMoves ==
  ASSUME worker \in [Workers -> WorkerState], NEW w \in Workers,
         NEW d \in Drains \ {"no"}, worker' = [worker EXCEPT ![w].drain = d]
  PROVE  /\ OnlyMoves(w) /\ SameClaim(w)
         /\ worker'[w].pc = worker[w].pc /\ worker'[w].lease = worker[w].lease
         /\ worker'[w].lost = worker[w].lost /\ worker'[w].drain = d
<1> DEFINE new == [worker[w] EXCEPT !.drain = d]
<1>1. worker' = [worker EXCEPT ![w] = new]
  OBVIOUS
<1>2. /\ new \in WorkerState /\ new.pc = worker[w].pc /\ new.run = worker[w].run
      /\ new.token = worker[w].token /\ new.lease = worker[w].lease
      /\ new.lost = worker[w].lost /\ new.drain = d
      /\ new.stopped = worker[w].stopped
  BY DEF WorkerState, Drains
<1> HIDE DEF new
<1> QED BY <1>1, <1>2, WorkerMoves DEF SameClaim, Run, Token

-----------------------------------------------------------------------------
(* What a step leaves the processes that do not take it.                   *)

\* What the stores promise every client of a step.
Forward ==
  /\ RSP!RunStoreInv' /\ SLP!LeasesInv' /\ SL!TypeOK'
  /\ \A r \in Runs : RS!Tokens(r) \subseteq RS!Tokens(r)'
  /\ \A r \in Runs : \A n \in RS!Tokens(r) : RS!Holds(r, n)' => RS!Holds(r, n)
  /\ \A s \in Sessions : 1..granted[s] \subseteq 1..granted'[s]
  /\ faults' \in 0..MaxFaults /\ (faults' = 0 => faults = 0)

LEMMA StoresForward ==
  ASSUME WorkersInv, [RS!Next]_storeVars, [SL!Next]_leaseVars, UNCHANGED faults \/ Fault
  PROVE  Forward
<1>1. faults' \in 0..MaxFaults /\ (faults' = 0 => faults = 0)
  BY WorkersAssumption DEF WorkersInv, TypeOK, Fault
<1> QED BY <1>1, StoreKept, LeasesKept DEF WorkersInv, Forward

\* A process whose claim is as it was does not get its run back.
LEMMA OwnsNoMore ==
  ASSUME WorkersInv, Forward, NEW w \in Workers,
         Run(w)' = Run(w), Token(w)' = Token(w), Owns(w)'
  PROVE  Owns(w)
<1>1. Token(w) # 0 /\ RS!Holds(Run(w), Token(w))'
  BY DEF Owns, RS!Holds
<1>2. Run(w) \in Runs /\ Token(w) \in RS!Tokens(Run(w))
  BY <1>1 DEF WorkersInv, WorkerInv, ClaimKnown
<1> QED BY <1>1, <1>2 DEF Forward, Owns

\* The stores still hold what process v counts on.
Spared(v) ==
  /\ At(v, "claiming") => claiming'[Run(v)] # "no"
  /\ At(v, "retiring") =>
       \A e \in retiring : e.run = Run(v) /\ e.token = Token(v) /\ ~e.reap => e \in retiring'
  /\ At(v, "settling") => Run(v) \in toSettle'

LEMMA SparedWorker ==
  ASSUME WorkersInv, Forward, NEW v \in Workers, worker'[v] = worker[v], Spared(v)
  PROVE  WorkerInv(v)'
<1>0. /\ Run(v)' = Run(v) /\ Token(v)' = Token(v)
      /\ \A pc : At(v, pc)' <=> At(v, pc)
      /\ (Leased(v)' <=> Leased(v)) /\ (InFlight(v)' <=> InFlight(v))
  BY DEF Run, Token, At, Leased, InFlight
<1>1. WorkerInv(v)
  BY DEF WorkersInv
<1>2. ClaimKnown(v)'
  <2>1. Token(v) # 0 => Run(v) \in Runs /\ Token(v) \in 1..runs'[Run(v)].attempts
    BY <1>1 DEF WorkerInv, ClaimKnown, Forward, RS!Tokens
  <2> QED BY <1>0, <1>1, <2>1 DEF WorkerInv, ClaimKnown, RS!Tokens
<1>3. StageBacked(v)'
  <2>1. At(v, "turn") => worker[v].lease \in 1..granted'[Session(v)]
    <3>1. At(v, "turn") => Run(v) \in Runs /\ worker[v].lease \in 1..granted[Session(v)]
      BY <1>1 DEF WorkerInv, ClaimKnown, StageBacked, Leased, InFlight, At
    <3>2. At(v, "turn") => Session(v) \in Sessions
      BY <3>1, StoreAssumptions DEF Session, Run
    <3> QED BY <3>1, <3>2 DEF Forward
  <2>2. Session(v)' = Session(v)
    BY DEF Session
  <2> QED BY <1>0, <1>1, <2>1, <2>2 DEF WorkerInv, StageBacked, Spared
<1>4. MissedIsLost(v)' /\ LeftNothing(v)'
  <2>1. Owns(v)' => Owns(v)
    BY <1>0, OwnsNoMore
  <2> QED BY <1>0, <1>1, <2>1 DEF WorkerInv, MissedIsLost, LeftNothing, Forward
<1> QED BY <1>2, <1>3, <1>4 DEF WorkerInv

\* The same of the reaper.
SweepSpared ==
  UNCHANGED reaper /\ (reaper.parked # NoRun => reaper.parked \in toSettle')

\* Process w takes up nothing that another process may have.
NoGain(w) ==
  /\ Leased(w)' => Leased(w) /\ Run(w)' = Run(w) /\ Token(w)' = Token(w)
  /\ At(w, "claiming")' => At(w, "claiming") /\ Run(w)' = Run(w)
  /\ At(w, "settling")' => /\ Run(w)' = Run(w)
                           /\ At(w, "settling") \/ Run(w) \notin toSettle

\* The processes and the reaper stay apart from process w.
StaysApart(w) ==
  /\ \A v \in Workers : v # w => Apart(v, w)'
  /\ ParkedIsOwn'

LEMMA NoGainApart ==
  ASSUME WorkersInv, NEW w \in Workers, OnlyMoves(w), NoGain(w), SweepSpared
  PROVE  StaysApart(w)
<1>1. ASSUME NEW v \in Workers, v # w PROVE Apart(v, w)'
  <2>1. /\ Run(v)' = Run(v) /\ Token(v)' = Token(v)
        /\ \A pc : At(v, pc)' <=> At(v, pc)
        /\ Leased(v)' <=> Leased(v)
    BY <1>1 DEF OnlyMoves, Run, Token, At, Leased, InFlight
  <2>2. Apart(v, w) /\ (At(v, "settling") => Run(v) \in toSettle)
    BY <1>1 DEF WorkersInv, WorkerInv, StageBacked
  <2> QED BY <2>1, <2>2 DEF NoGain, Apart
<1>2. ParkedIsOwn'
  <2> SUFFICES ASSUME reaper'.parked # NoRun
               PROVE  /\ reaper'.parked \in toSettle'
                      /\ \A v \in Workers : At(v, "settling")' => Run(v)' # reaper'.parked
    BY DEF ParkedIsOwn, At, Run
  <2>1. /\ reaper'.parked \in toSettle' /\ reaper'.parked = reaper.parked
        /\ reaper.parked \in toSettle
        /\ \A v \in Workers : At(v, "settling") => Run(v) # reaper.parked
    BY DEF SweepSpared, WorkersInv, ParkedIsOwn
  <2>2. ASSUME NEW v \in Workers, v # w
        PROVE  (At(v, "settling")' <=> At(v, "settling")) /\ Run(v)' = Run(v)
    BY <2>2 DEF OnlyMoves, At, Run
  <2> QED BY <2>1, <2>2 DEF NoGain
<1> QED BY <1>1, <1>2 DEF StaysApart

\* The rest of the state is well formed.
RestTyped ==
  stops' \in 0..MaxStops /\ heldFor' \in [Sessions -> Runs \cup {NoRun}]

\* A step of process w preserves the invariant if it preserves its own part.
LEMMA WorkerStep ==
  ASSUME WorkersInv, Forward, RestTyped, NEW w \in Workers, OnlyMoves(w),
         \A v \in Workers : v # w => Spared(v),
         UNCHANGED reaper, WorkerInv(w)', StaysApart(w)
  PROVE  WorkersInv'
<1>1. \A v \in Workers : WorkerInv(v)'
  BY SparedWorker DEF OnlyMoves
<1>2. TypeOK'
  <2>1. RS!TypeOK'
    <3>1. RSP!RunStoreInv'
      BY DEF Forward
    <3> QED
      BY <3>1 DEF RSP!RunStoreInv, RSP!TypeOK, RS!TypeOK, RSP!Row, RS!Row, RSP!Status,
                  RS!Status, RSP!Retirement, RS!Retirement
  <2>2. reaper' \in [retired: SUBSET Sessions, parked: Runs \cup {NoRun}, dead: BOOLEAN]
    BY DEF WorkersInv, TypeOK
  <2> QED BY <2>1, <2>2 DEF TypeOK, Forward, OnlyMoves, RestTyped
<1>3. ASSUME NEW u \in Workers, NEW v \in Workers, u # v PROVE Apart(u, v)'
  <2>1. CASE v = w
    BY <1>3, <2>1 DEF StaysApart
  <2>2. CASE u = w
    <3>1. Apart(v, u)'
      BY <1>3, <2>2 DEF StaysApart
    <3> QED BY <3>1 DEF Apart
  <2>3. CASE u # w /\ v # w
    <3>1. Apart(u, v)
      BY <1>3 DEF WorkersInv
    <3>2. worker'[u] = worker[u] /\ worker'[v] = worker[v]
      BY <2>3 DEF OnlyMoves
    <3> QED BY <3>1, <3>2 DEF Apart, Leased, InFlight, At, Run, Token
  <2> QED BY <2>1, <2>2, <2>3
<1> QED BY <1>1, <1>2, <1>3 DEF WorkersInv, Forward, StaysApart

-----------------------------------------------------------------------------
(* Every statement a process sends to the run table is one its contract    *)
(* allows, and takes nothing away that another process counts on.          *)

Harmless(w) ==
  /\ [RS!Next]_storeVars
  /\ \A v \in Workers : v # w => Spared(v)
  /\ reaper.parked # NoRun => reaper.parked \in toSettle'

\* Where the others stand.
LEMMA OthersBacked ==
  ASSUME WorkersInv
  PROVE  /\ \A v \in Workers :
              /\ At(v, "claiming") => Run(v) \in Runs /\ claiming[Run(v)] # "no"
              /\ At(v, "settling") => Run(v) \in toSettle
              /\ Token(v) # 0 => Run(v) \in Runs /\ Token(v) \in RS!Tokens(Run(v))
         /\ reaper.parked # NoRun => reaper.parked \in toSettle
         /\ RS!TypeOK
  BY DEF WorkersInv, WorkerInv, ClaimKnown, StageBacked, ParkedIsOwn, TypeOK

LEMMA QuietHarmless ==
  ASSUME WorkersInv, NEW w \in Workers, UNCHANGED storeVars
  PROVE  Harmless(w) /\ Spared(w)
  BY OthersBacked DEF storeVars, Harmless, Spared

\* The statements of the holder of a lease.
LEMMA HolderHarmless ==
  ASSUME WorkersInv, NEW w \in Workers, Token(w) # 0,
         \/ RS!heartbeat(Run(w), Token(w))
         \/ RS!releaseLease(Run(w), Token(w))
         \/ RS!complete(Run(w), Token(w))
         \/ \E retry \in BOOLEAN : RS!fail(Run(w), Token(w), retry)
  PROVE  Harmless(w) /\ Spared(w)
<1>1. Run(w) \in Runs /\ Token(w) \in RS!Tokens(Run(w))
  BY OthersBacked
<1>2. RS!HolderStep(Run(w))
  BY <1>1 DEF RS!HolderStep
<1>3. /\ UNCHANGED claiming /\ toSettle \subseteq toSettle'
      /\ \A e \in retiring : ~e.reap => e \in retiring'
  BY DEF RS!heartbeat, RS!Renewed, RS!releaseLease, RS!complete, RS!fail
<1> QED BY <1>1, <1>2, <1>3, OthersBacked DEF Harmless, Spared, RS!Next

\* The enqueueing of a run, and a claim's SELECT.
LEMMA ClaimHarmless ==
  ASSUME WorkersInv, NEW w \in Workers, NEW r \in Runs,
         RS!enqueue(r) \/ RS!claim(r) \/ RS!claimById(r)
  PROVE  Harmless(w) /\ Spared(w)
<1>1. UNCHANGED <<retiring, toSettle>>
  BY DEF RS!enqueue, RS!claim, RS!claimById
<1>2. \A q \in Runs : claiming[q] # "no" => claiming'[q] # "no"
  BY OthersBacked DEF RS!enqueue, RS!claim, RS!claimById, RS!TypeOK
<1> QED BY <1>1, <1>2, OthersBacked DEF Harmless, Spared, RS!Next

\* The end of a claim.
LEMMA ClaimEndHarmless ==
  ASSUME WorkersInv, NEW w \in Workers, At(w, "claiming"),
         RS!lease(Run(w)) \/ RS!claimRefused(Run(w))
  PROVE  Harmless(w)
<1>1. UNCHANGED <<retiring, toSettle>> /\ claiming' = [claiming EXCEPT ![Run(w)] = "no"]
  BY DEF RS!lease, RS!claimRefused
<1>2. \A v \in Workers : v # w /\ At(v, "claiming") => Run(v) # Run(w)
  BY DEF WorkersInv, Apart
<1>3. \A v \in Workers : v # w /\ At(v, "claiming") => claiming'[Run(v)] # "no"
  BY <1>1, <1>2, OthersBacked DEF RS!TypeOK
<1>4. Run(w) \in Runs
  BY OthersBacked
<1>5. RS!Next
  BY <1>4 DEF RS!Next
<1> QED BY <1>1, <1>3, <1>5, OthersBacked DEF Harmless, Spared

\* The entry that fail() made for the process.
LEMMA OwnEntry ==
  ASSUME WorkersInv, NEW w \in Workers, At(w, "retiring")
  PROVE  LET e == OwnRetirement(w) IN
         /\ e \in retiring /\ e.run = Run(w) /\ e.token = Token(w) /\ ~e.reap
         /\ Run(w) \in Runs /\ Token(w) # 0
<1>1. \E e \in retiring : e.run = Run(w) /\ e.token = Token(w) /\ ~e.reap
  BY DEF WorkersInv, WorkerInv, StageBacked
<1>2. Run(w) \in Runs /\ Token(w) # 0
  BY DEF WorkersInv, WorkerInv, ClaimKnown, Leased, InFlight, At
<1> QED BY <1>1, <1>2 DEF OwnRetirement

\* The end of a fail().
LEMMA RetireHarmless ==
  ASSUME WorkersInv, NEW w \in Workers, At(w, "retiring"),
         RS!retire(OwnRetirement(w)) \/ RS!retireMisses(OwnRetirement(w))
  PROVE  Harmless(w)
<1> DEFINE e == OwnRetirement(w)
<1>1. e \in retiring /\ e.run = Run(w) /\ e.token = Token(w)
  BY OwnEntry
<1> HIDE DEF e
<1>2. RS!retire(e) \/ RS!retireMisses(e)
  BY DEF e
<1>3. UNCHANGED claiming /\ retiring' = retiring \ {e} /\ toSettle \subseteq toSettle'
  BY <1>2 DEF RS!retire, RS!retireMisses
<1>4. ASSUME NEW v \in Workers, v # w, At(v, "retiring"),
             NEW f \in retiring, f.run = Run(v), f.token = Token(v)
      PROVE  f \in retiring'
  <2>1. Apart(v, w) /\ Leased(v) /\ Leased(w)
    BY <1>4 DEF WorkersInv, Leased, InFlight, At
  <2>2. f # e
    BY <1>1, <1>4, <2>1 DEF Apart
  <2> QED BY <1>3, <2>2
<1>5. RS!Next
  BY <1>1, <1>2 DEF RS!Next
<1> QED BY <1>3, <1>4, <1>5, OthersBacked DEF Harmless, Spared

\* The announcement of a run that ended.
LEMMA SettleHarmless ==
  ASSUME WorkersInv, NEW w \in Workers, At(w, "settling"),
         RS!settle(Run(w)) \/ RS!settleLost(Run(w))
  PROVE  Harmless(w)
<1>1. UNCHANGED <<claiming, retiring>> /\ toSettle' = toSettle \ {Run(w)}
  BY DEF RS!settle, RS!settleLost
<1>2. \A v \in Workers : v # w /\ At(v, "settling") => Run(v) # Run(w)
  BY DEF WorkersInv, Apart
<1>3. reaper.parked # NoRun => Run(w) # reaper.parked
  BY DEF WorkersInv, ParkedIsOwn
<1>4. Run(w) \in Runs
  BY OthersBacked DEF RS!TypeOK
<1>5. RS!Next
  BY <1>4 DEF RS!Next
<1> QED BY <1>1, <1>2, <1>3, <1>5, OthersBacked DEF Harmless, Spared

-----------------------------------------------------------------------------
(* What the process that takes a step keeps of its own part.               *)

\* It goes on within processRun().
LEMMA InFlightInv ==
  ASSUME WorkersInv, Forward, NEW w \in Workers, SameClaim(w), Leased(w), InFlight(w)',
         StageBacked(w)', MissedIsLost(w)',
         worker'[w].drain = "done" => worker[w].drain = "done" \/ ~Owns(w)'
  PROVE  WorkerInv(w)'
<1>1. WorkerInv(w)
  BY DEF WorkersInv
<1>2. ClaimKnown(w)'
  <2>1. Token(w) # 0 /\ Run(w) \in Runs /\ Token(w) \in 1..runs'[Run(w)].attempts
    BY <1>1 DEF WorkerInv, ClaimKnown, Forward, RS!Tokens
  <2>2. worker'[w].pc \notin {"down", "idle", "claiming"}
    BY DEF InFlight
  <2> QED BY <2>1, <2>2 DEF ClaimKnown, SameClaim, RS!Tokens, At
<1>3. LeftNothing(w)'
  <2>1. Owns(w)' => Owns(w)
    BY OwnsNoMore DEF SameClaim
  <2>2. ~At(w, "exited")'
    BY DEF InFlight, At
  <2> QED BY <1>1, <2>1, <2>2 DEF WorkerInv, LeftNothing, Forward
<1> QED BY <1>2, <1>3 DEF WorkerInv

\* It starts over, or is down.
LEMMA FreshInv ==
  ASSUME NEW w \in Workers, worker'[w] \in {Fresh, Down}
  PROVE  WorkerInv(w)' /\ NoGain(w)
<1>1. /\ worker'[w].pc \in {"idle", "down"} /\ worker'[w].token = 0 /\ worker'[w].lost = 0
      /\ worker'[w].drain = "no"
  BY FreshState
<1>2. ClaimKnown(w)' /\ StageBacked(w)' /\ NoGain(w)
  BY <1>1 DEF ClaimKnown, StageBacked, NoGain, Leased, InFlight, At, Token
<1>3. MissedIsLost(w)' /\ LeftNothing(w)'
  BY <1>1 DEF MissedIsLost, LeftNothing, At
<1> QED BY <1>2, <1>3 DEF WorkerInv

\* The step leaves it without a run of its own,
Gone(w) ==
  \/ Token(w) = 0
  \/ runs'[Run(w)].status # "running"
  \/ runs'[Run(w)].leaseToken # Token(w)

\* unless a call failed.
LetGo(w) == faults' = 0 => Gone(w)

LEMMA EndOfRunInv ==
  ASSUME WorkersInv, Forward, NEW w \in Workers, EndOfRun(w),
         worker[w].pc \notin {"resolving", "turn"}, LetGo(w)
  PROVE  OnlyMoves(w) /\ WorkerInv(w)' /\ NoGain(w)
<1>0. worker \in [Workers -> WorkerState]
  BY DEF WorkersInv, TypeOK
<1>1. OnlyMoves(w)
  BY <1>0, EndOfRunMoves
<1>2. CASE worker'[w] = Fresh
  BY <1>1, <1>2, FreshInv
<1>3. CASE /\ worker'[w].pc = "exited" /\ SameClaim(w)
           /\ worker'[w].lost = worker[w].lost /\ worker'[w].drain = worker[w].drain
  <2>1. WorkerInv(w)
    BY DEF WorkersInv
  <2>2. ClaimKnown(w)' /\ StageBacked(w)' /\ NoGain(w)
    <3>1. Token(w) # 0 => Run(w) \in Runs /\ Token(w) \in 1..runs'[Run(w)].attempts
      BY <2>1 DEF WorkerInv, ClaimKnown, Forward, RS!Tokens
    <3>2. ClaimKnown(w)'
      BY <1>3, <2>1, <3>1 DEF WorkerInv, ClaimKnown, SameClaim, RS!Tokens, At, Leased, InFlight
    <3> QED BY <1>3, <3>2 DEF StageBacked, NoGain, Leased, InFlight, At
  <2>3. MissedIsLost(w)'
    BY <1>3, <2>1 DEF WorkerInv, MissedIsLost
  <2>4. LeftNothing(w)'
    <3>1. Owns(w)' => Owns(w)
      BY <1>3, OwnsNoMore DEF SameClaim
    <3>2. worker'[w].drain = "done" => ~Owns(w)'
      BY <1>3, <2>1, <3>1 DEF WorkerInv, LeftNothing
    <3>3. faults' = 0 => ~Owns(w)'
      BY <1>3 DEF LetGo, Gone, Owns, RS!Holds, SameClaim
    <3> QED BY <3>2, <3>3 DEF LeftNothing
  <2> QED BY <1>1, <2>2, <2>3, <2>4 DEF WorkerInv
<1> QED BY <1>0, <1>2, <1>3, EndOfRunMoves

\* It stays where it is, its drain apart.
LEMMA SameStageInv ==
  ASSUME WorkersInv, Forward, NEW w \in Workers, Spared(w),
         Run(w)' = Run(w), Token(w)' = Token(w), worker'[w].pc = worker[w].pc,
         worker'[w].lease = worker[w].lease, worker'[w].lost = worker[w].lost,
         \/ worker'[w].drain = worker[w].drain
         \/ /\ InFlight(w) \/ At(w, "exited")
            /\ Token(w) # 0
            /\ worker'[w].drain = "done" => ~Owns(w)'
  PROVE  WorkerInv(w)' /\ NoGain(w)
<1>0. /\ \A pc : At(w, pc)' <=> At(w, pc)
      /\ (Leased(w)' <=> Leased(w)) /\ (InFlight(w)' <=> InFlight(w))
  BY DEF At, Leased, InFlight
<1>1. WorkerInv(w)
  BY DEF WorkersInv
<1>2. ClaimKnown(w)'
  <2>1. Token(w) # 0 => Run(w) \in Runs /\ Token(w) \in 1..runs'[Run(w)].attempts
    BY <1>1 DEF WorkerInv, ClaimKnown, Forward, RS!Tokens
  <2> QED BY <1>0, <1>1, <2>1 DEF WorkerInv, ClaimKnown, RS!Tokens
<1>3. StageBacked(w)'
  <2>1. At(w, "turn") => worker[w].lease \in 1..granted'[Session(w)]
    <3>1. At(w, "turn") => Run(w) \in Runs /\ worker[w].lease \in 1..granted[Session(w)]
      BY <1>1 DEF WorkerInv, ClaimKnown, StageBacked, Leased, InFlight, At
    <3>2. At(w, "turn") => Session(w) \in Sessions
      BY <3>1, StoreAssumptions DEF Session, Run
    <3> QED BY <3>1, <3>2 DEF Forward
  <2>2. Session(w)' = Session(w)
    BY DEF Session, Run
  <2> QED BY <1>0, <1>1, <2>1, <2>2 DEF WorkerInv, StageBacked, Spared
<1>4. MissedIsLost(w)' /\ LeftNothing(w)'
  <2>1. Owns(w)' => Owns(w)
    BY OwnsNoMore
  <2> QED BY <1>0, <1>1, <2>1 DEF WorkerInv, MissedIsLost, LeftNothing, Forward
<1>5. NoGain(w)
  BY <1>0 DEF NoGain
<1> QED BY <1>2, <1>3, <1>4, <1>5 DEF WorkerInv

-----------------------------------------------------------------------------
(* The steps of a process.                                                 *)

\* What a step must be for the stores' contracts and the invariant to hold.
Refines == [RS!Next]_storeVars /\ [SL!Next]_leaseVars

\* A process takes a step and gains nothing that another may have.
LEMMA StepInv ==
  ASSUME WorkersInv, NEW w \in Workers, Harmless(w), [SL!Next]_leaseVars,
         UNCHANGED reaper, RestTyped, Forward, OnlyMoves(w), WorkerInv(w)', NoGain(w)
  PROVE  WorkersInv' /\ Refines
<1>1. SweepSpared
  BY DEF SweepSpared, Harmless
<1>2. StaysApart(w)
  BY <1>1, NoGainApart
<1> QED BY <1>2, WorkerStep DEF Harmless, Refines

LEMMA RestKept ==
  ASSUME WorkersInv, UNCHANGED <<stops, heldFor>>
  PROVE  RestTyped
  BY DEF WorkersInv, TypeOK, RestTyped

\* The SELECT of a claim.
LEMMA ClaimInv ==
  ASSUME WorkersInv, NEW w \in Workers, claim(w) \/ claimById(w)
  PROVE  WorkersInv' /\ Refines
<1>1. PICK r \in Runs : /\ RS!claim(r) \/ RS!claimById(r)
                        /\ Claiming(w, r)
  BY DEF claim, claimById
<1>2. /\ At(w, "idle") /\ UNCHANGED leaseVars /\ UNCHANGED <<reaper, stops, heldFor, faults>>
  BY DEF claim, claimById, StoreOnly
<1>3. Harmless(w) /\ \A v \in Workers : Spared(v)
  BY <1>1, ClaimHarmless DEF Harmless
<1>4. [SL!Next]_leaseVars
  BY <1>2
<1>5. Forward
  BY <1>2, <1>3, <1>4, StoresForward DEF Harmless
<1>6. worker \in [Workers -> WorkerState]
  BY DEF WorkersInv, TypeOK
<1>7. /\ OnlyMoves(w)
      /\ worker'[w].pc = "claiming" /\ Run(w)' = r /\ Token(w)' = Token(w)
      /\ worker'[w].lost = worker[w].lost /\ worker'[w].drain = worker[w].drain
  BY <1>1, <1>6, ClaimingMoves
<1>8. WorkerInv(w)
  BY DEF WorkersInv
<1>9. Token(w) = 0 /\ worker[w].drain = "no" /\ worker[w].lost = 0
  <2>1. Token(w) = 0 /\ worker[w].drain = "no"
    BY <1>2, <1>8 DEF WorkerInv, ClaimKnown, At, InFlight
  <2>2. worker[w].lost \in Nat
    BY <1>6, WorkersAssumption DEF WorkerState
  <2>3. worker[w].lost = 0
    BY <1>2, <1>8, <2>2 DEF WorkerInv, MissedIsLost, At
  <2> QED BY <2>1, <2>3
<1>10. claiming[r] = "no" /\ claiming'[r] # "no"
  BY <1>1, OthersBacked DEF RS!claim, RS!claimById, RS!Claimable, RS!TypeOK
<1>11. WorkerInv(w)'
  <2>1. ClaimKnown(w)'
    BY <1>7, <1>9 DEF ClaimKnown, At, Leased, InFlight
  <2>2. StageBacked(w)'
    BY <1>7, <1>10 DEF StageBacked, At
  <2>3. MissedIsLost(w)' /\ LeftNothing(w)'
    BY <1>7, <1>9 DEF MissedIsLost, LeftNothing, At
  <2> QED BY <2>1, <2>2, <2>3 DEF WorkerInv
<1>12. StaysApart(w)
  <2>1. ASSUME NEW v \in Workers, v # w PROVE Apart(v, w)'
    <3>1. At(v, "claiming")' => At(v, "claiming") /\ Run(v)' = Run(v)
      BY <1>7, <2>1 DEF OnlyMoves, At, Run
    <3>2. At(v, "claiming")' => Run(v)' # r
      BY <1>10, <3>1, OthersBacked
    <3> QED BY <1>7, <3>2 DEF Apart, At, Leased, InFlight
  <2>2. ParkedIsOwn'
    <3>1. \A v \in Workers : At(v, "settling")' => At(v, "settling") /\ Run(v)' = Run(v)
      BY <1>7 DEF OnlyMoves, At, Run
    <3> QED BY <1>2, <1>3, <3>1 DEF WorkersInv, ParkedIsOwn, Harmless, At, Run
  <2> QED BY <2>1, <2>2 DEF StaysApart
<1>13. RestTyped
  BY <1>2, RestKept
<1> QED BY <1>2, <1>3, <1>4, <1>5, <1>7, <1>11, <1>12, <1>13, WorkerStep
        DEF Harmless, Refines

\* The UPDATE of a claim: the token is one that no process ever had.
LEMMA LeasedInv ==
  ASSUME WorkersInv, NEW w \in Workers, leased(w)
  PROVE  WorkersInv' /\ Refines
<1> DEFINE n == runs[Run(w)].attempts + 1
<1>1. /\ At(w, "claiming") /\ RS!lease(Run(w))
      /\ UNCHANGED leaseVars /\ UNCHANGED <<reaper, stops, heldFor, faults>>
      /\ worker' = [worker EXCEPT ![w].pc = "leased", ![w].token = n]
  BY DEF leased, StoreOnly
<1>2. Harmless(w)
  BY <1>1, ClaimEndHarmless
<1>3. [SL!Next]_leaseVars
  BY <1>1
<1>4. Forward
  BY <1>1, <1>2, <1>3, StoresForward DEF Harmless
<1>5. worker \in [Workers -> WorkerState] /\ RS!TypeOK
  BY DEF WorkersInv, TypeOK
<1>6. Run(w) \in Runs
  BY <1>1, OthersBacked
<1>7. n \in Nat /\ n > 0 /\ runs[Run(w)].attempts \in Nat
  BY <1>5, <1>6 DEF RS!TypeOK, RS!Row
<1>8. runs'[Run(w)].attempts = n
  <2>1. runs'[Run(w)] = RS!Leased(runs[Run(w)])
    BY <1>1, <1>5, <1>6 DEF RS!lease, RS!TypeOK
  <2>2. runs[Run(w)] \in RSP!Row
    BY <1>6 DEF WorkersInv, RSP!RunStoreInv, RSP!TypeOK
  <2>3. RS!Leased(runs[Run(w)]) = RSP!Leased(runs[Run(w)])
    BY DEF RS!Leased, RSP!Leased
  <2> QED BY <2>1, <2>2, <2>3, RSP!LeasedRow, StoreAssumptions
<1> HIDE DEF n
<1>9. /\ OnlyMoves(w)
      /\ worker'[w].pc = "leased" /\ Run(w)' = Run(w) /\ Token(w)' = n
      /\ worker'[w].lost = worker[w].lost /\ worker'[w].drain = worker[w].drain
  BY <1>1, <1>5, <1>7, LeasedMoves
<1>10. WorkerInv(w)
  BY DEF WorkersInv
<1>11. worker[w].drain = "no" /\ worker[w].lost = 0
  <2>1. worker[w].drain = "no"
    BY <1>1, <1>10 DEF WorkerInv, ClaimKnown, At, InFlight
  <2>2. worker[w].lost \in Nat
    BY <1>5, WorkersAssumption DEF WorkerState
  <2>3. worker[w].lost = 0
    BY <1>1, <1>10, <2>2 DEF WorkerInv, MissedIsLost, At
  <2> QED BY <2>1, <2>3
<1>12. WorkerInv(w)'
  <2>1. n \in 1..runs'[Run(w)].attempts
    BY <1>7, <1>8
  <2>2. ClaimKnown(w)'
    BY <1>6, <1>7, <1>9, <1>11, <2>1 DEF ClaimKnown, At, Leased, InFlight, RS!Tokens
  <2>3. StageBacked(w)'
    BY <1>9 DEF StageBacked, At
  <2>4. MissedIsLost(w)' /\ LeftNothing(w)'
    BY <1>9, <1>11 DEF MissedIsLost, LeftNothing, At
  <2> QED BY <2>2, <2>3, <2>4 DEF WorkerInv
<1>13. StaysApart(w)
  <2>1. ASSUME NEW v \in Workers, v # w PROVE Apart(v, w)'
    <3>1. Leased(v)' => Leased(v) /\ Run(v)' = Run(v) /\ Token(v)' = Token(v)
      BY <1>9, <2>1 DEF OnlyMoves, At, Run, Token, Leased, InFlight
    <3>2. Leased(v) /\ Run(v) = Run(w) => Token(v) \in 1..runs[Run(w)].attempts
      BY DEF WorkersInv, WorkerInv, ClaimKnown, RS!Tokens
    <3>3. Leased(v)' /\ Run(v)' = Run(w)' => Token(v)' # Token(w)'
      BY <1>7, <1>9, <3>1, <3>2 DEF n
    <3> QED BY <1>9, <3>3 DEF Apart, At
  <2>2. ParkedIsOwn'
    <3>1. \A v \in Workers : At(v, "settling")' => At(v, "settling") /\ Run(v)' = Run(v)
      BY <1>9 DEF OnlyMoves, At, Run
    <3> QED BY <1>1, <1>2, <3>1 DEF WorkersInv, ParkedIsOwn, Harmless, At, Run
  <2> QED BY <2>1, <2>2 DEF StaysApart
<1>14. RestTyped
  BY <1>1, RestKept
<1> QED BY <1>1, <1>2, <1>3, <1>4, <1>9, <1>12, <1>13, <1>14, WorkerStep
        DEF Harmless, Refines

\* What the UPDATEs that end a lease leave of the row's status.
LEMMA ReleasedStatus ==
  ASSUME WorkersInv, NEW r \in Runs, NEW n, RS!releaseLease(r, n)
  PROVE  runs'[r].status = "pending"
<1>1. runs[r] \in RSP!Row /\ runs' = [runs EXCEPT ![r] = RS!Released(runs[r])]
  BY DEF WorkersInv, RSP!RunStoreInv, RSP!TypeOK, RS!releaseLease
<1>2. RS!Released(runs[r]) = RSP!Released(runs[r])
  BY DEF RS!Released, RSP!Released, RS!Unleased, RSP!Unleased, RS!NoToken, RSP!NoToken
<1>3. RSP!Released(runs[r]).status = "pending"
  BY <1>1, RSP!ReleasedRow, StoreAssumptions
<1> QED BY <1>1, <1>2, <1>3 DEF WorkersInv, RSP!RunStoreInv, RSP!TypeOK

LEMMA RetiredStatus ==
  ASSUME WorkersInv, NEW e \in retiring, RS!retire(e)
  PROVE  /\ e.run \in Runs /\ runs[e.run].status = "running" /\ e.run \notin toSettle
         /\ runs'[e.run].status # "running"
         /\ ~RS!Requeues(e) => e.run \in toSettle'
<1>1. /\ e.run \in Runs /\ runs \in [Runs -> RSP!Row] /\ retiring \subseteq RSP!Retirement
      /\ RSP!TypeOK
  BY DEF WorkersInv, RSP!RunStoreInv, RSP!TypeOK, RSP!Retirement
<1>2. runs[e.run].status = "running" /\ runs' = [runs EXCEPT ![e.run] = RS!Retired(e)]
  BY DEF RS!retire, RS!RetireApplies, RS!Holds
<1>3. RS!Retired(e) = RSP!Retired(e)
  <2>1. RS!Requeues(e) <=> RSP!Requeues(e)
    BY DEF RS!Requeues, RSP!Requeues
  <2> QED BY <2>1 DEF RS!Retired, RSP!Retired, RS!Unleased, RSP!Unleased, RS!NoToken, RSP!NoToken
<1>4. RSP!Retired(e).status \in {"pending", "failed"}
  <2>1. RSP!Retired(e).status = (IF RSP!Requeues(e) THEN "pending" ELSE "failed")
    BY <1>1, RSP!RetiredRow, StoreAssumptions
  <2> QED BY <2>1
<1>5. e.run \notin toSettle
  BY <1>2, StoreFacts DEF WorkersInv
<1> QED BY <1>1, <1>2, <1>3, <1>4, <1>5 DEF RS!retire

\* A row whose token is a process's own is running.
LEMMA TokenOpens ==
  ASSUME WorkersInv, NEW w \in Workers, Token(w) # 0, runs[Run(w)].leaseToken = Token(w)
  PROVE  Run(w) \in Runs /\ runs[Run(w)].status = "running" /\ Run(w) \notin toSettle
<1>1. Run(w) \in Runs
  BY OthersBacked
<1>2. runs[Run(w)].status = "running"
  BY <1>1, StoreFacts DEF WorkersInv
<1> QED BY <1>1, <1>2, StoreFacts DEF WorkersInv

\* A process is done with its run.
LEMMA EndStep ==
  ASSUME WorkersInv, NEW w \in Workers, Harmless(w), StoreOnly, UNCHANGED faults \/ Fault,
         EndOfRun(w), worker[w].pc \notin {"resolving", "turn"}, LetGo(w)
  PROVE  WorkersInv' /\ Refines
<1>1. UNCHANGED leaseVars /\ UNCHANGED <<reaper, stops, heldFor>>
  BY DEF StoreOnly
<1>2. [SL!Next]_leaseVars
  BY <1>1
<1>3. Forward
  BY <1>2, StoresForward DEF Harmless
<1>4. OnlyMoves(w) /\ WorkerInv(w)' /\ NoGain(w)
  BY <1>3, EndOfRunInv
<1>5. RestTyped
  BY <1>1, RestKept
<1> QED BY <1>1, <1>2, <1>3, <1>4, <1>5, StepInv

\* The same of one whose run is not its own.
LEMMA EndLost ==
  ASSUME WorkersInv, NEW w \in Workers, UNCHANGED storeVars, ~Owns(w)
  PROVE  Gone(w) /\ LetGo(w)
  BY DEF LetGo, Gone, Owns, RS!Holds, storeVars

LEMMA ClaimRefusedInv ==
  ASSUME WorkersInv, NEW w \in Workers, claimRefused(w)
  PROVE  WorkersInv' /\ Refines
<1>1. /\ At(w, "claiming") /\ RS!claimRefused(Run(w)) /\ EndOfRun(w) /\ StoreOnly
      /\ UNCHANGED faults \/ Fault
  BY DEF claimRefused
<1>2. Harmless(w)
  BY <1>1, ClaimEndHarmless
<1>3. LetGo(w) /\ worker[w].pc \notin {"resolving", "turn"}
  BY <1>1 DEF LetGo, Gone, WorkersInv, WorkerInv, ClaimKnown, At
<1> QED BY <1>1, <1>2, <1>3, EndStep

\* A failed call excuses an orphan.
LEMMA FaultLetsGo ==
  ASSUME WorkersInv, NEW w \in Workers, Fault
  PROVE  LetGo(w)
  BY WorkersAssumption DEF WorkersInv, TypeOK, Fault, LetGo

\* A process goes on within processRun().
LEMMA InFlightStep ==
  ASSUME WorkersInv, NEW w \in Workers, Harmless(w), [SL!Next]_leaseVars, UNCHANGED reaper,
         RestTyped, UNCHANGED faults \/ Fault, OnlyMoves(w), SameClaim(w), Leased(w),
         InFlight(w)', StageBacked(w)', MissedIsLost(w)', worker'[w].drain = worker[w].drain,
         At(w, "settling")' => Run(w) \notin toSettle
  PROVE  WorkersInv' /\ Refines
<1>1. Forward
  BY StoresForward DEF Harmless
<1>2. WorkerInv(w)'
  BY <1>1, InFlightInv
<1>3. NoGain(w)
  BY DEF NoGain, SameClaim, Leased, InFlight, At
<1> QED BY <1>1, <1>2, <1>3, StepInv

\* The claim returns.
LEMMA ClaimedInv ==
  ASSUME WorkersInv, NEW w \in Workers, claimed(w)
  PROVE  WorkersInv' /\ Refines
<1>0. /\ At(w, "leased") /\ StoreOnly /\ worker \in [Workers -> WorkerState]
      /\ worker[w].pc \notin {"resolving", "turn"} /\ Leased(w)
      /\ Token(w) # 0 /\ Run(w) \in Runs
  BY DEF claimed, WorkersInv, TypeOK, WorkerInv, ClaimKnown, Leased, At
<1>1. CASE Goto(w, "resolving") /\ UNCHANGED <<storeVars, faults>>
  <2>1. /\ OnlyMoves(w) /\ SameClaim(w) /\ worker'[w].pc = "resolving"
        /\ worker'[w].lost = worker[w].lost /\ worker'[w].drain = worker[w].drain
    BY <1>0, <1>1, GotoMoves DEF Pcs
  <2>2. InFlight(w)' /\ StageBacked(w)' /\ ~At(w, "settling")'
    BY <2>1 DEF InFlight, StageBacked, At
  <2>3. MissedIsLost(w)'
    <3>1. worker[w].lost \in Nat /\ ~(worker[w].lost > 0)
      BY <1>0, WorkersAssumption DEF WorkersInv, WorkerInv, MissedIsLost, WorkerState, At
    <3> QED BY <2>1, <3>1 DEF MissedIsLost
  <2>4. Harmless(w)
    BY <1>1, QuietHarmless
  <2>5. UNCHANGED leaseVars /\ UNCHANGED <<reaper, stops, heldFor>>
    BY <1>0 DEF StoreOnly
  <2>6. RestTyped
    BY <2>5, RestKept
  <2> QED BY <1>0, <1>1, <2>1, <2>2, <2>3, <2>4, <2>5, <2>6, InFlightStep
<1>2. CASE /\ IF RS!Holds(Run(w), Token(w)) THEN RS!releaseLease(Run(w), Token(w))
                                            ELSE UNCHANGED storeVars
           /\ EndOfRun(w) /\ UNCHANGED faults
  <2>1. CASE RS!releaseLease(Run(w), Token(w))
    <3>1. Harmless(w)
      BY <1>0, <2>1, HolderHarmless
    <3>2. LetGo(w)
      BY <1>0, <2>1, ReleasedStatus DEF LetGo, Gone
    <3> QED BY <1>0, <1>2, <3>1, <3>2, EndStep
  <2>2. CASE ~RS!Holds(Run(w), Token(w)) /\ UNCHANGED storeVars
    <3>1. Harmless(w)
      BY <2>2, QuietHarmless
    <3>2. LetGo(w)
      BY <2>2, EndLost DEF Owns
    <3> QED BY <1>0, <1>2, <3>1, <3>2, EndStep
  <2> QED BY <1>2, <2>1, <2>2
<1>3. CASE Fault /\ EndOfRun(w) /\ UNCHANGED storeVars
  BY <1>0, <1>3, FaultLetsGo, QuietHarmless, EndStep
<1> QED BY <1>1, <1>2, <1>3 DEF claimed

\* A beat: a miss is counted only when the row is not the process's own.
LEMMA HeartbeatInv ==
  ASSUME WorkersInv, NEW w \in Workers, heartbeat(w)
  PROVE  WorkersInv' /\ Refines
<1>0. /\ worker[w].pc \in {"resolving", "turn"} /\ worker[w].lost < LeaseLostConsecutive
      /\ StoreOnly /\ worker \in [Workers -> WorkerState] /\ WorkerInv(w)
  BY DEF heartbeat, Beating, WorkersInv, TypeOK
<1>1. /\ Leased(w) /\ InFlight(w) /\ Token(w) # 0
      /\ worker[w].lost \in 0..LeaseLostConsecutive
  BY <1>0 DEF Leased, InFlight, WorkerInv, ClaimKnown, WorkerState
<1>2. UNCHANGED leaseVars /\ UNCHANGED <<reaper, stops, heldFor>>
  BY <1>0 DEF StoreOnly
<1>3. RestTyped
  BY <1>2, RestKept
<1> DEFINE beats(n) == worker' = [worker EXCEPT ![w].lost = n]
<1>4. ASSUME NEW n \in 0..LeaseLostConsecutive, beats(n),
             Harmless(w), UNCHANGED faults \/ Fault,
             n > 0 => UNCHANGED storeVars /\ ~RS!Holds(Run(w), Token(w))
      PROVE  WorkersInv' /\ Refines
  <2>1. /\ OnlyMoves(w) /\ SameClaim(w)
        /\ worker'[w].pc = worker[w].pc /\ worker'[w].lease = worker[w].lease
        /\ worker'[w].lost = n /\ worker'[w].drain = worker[w].drain
    BY <1>0, <1>4, BeatMoves
  <2>2. InFlight(w)' /\ ~At(w, "settling")'
    BY <1>0, <2>1 DEF InFlight, At
  <2>3. StageBacked(w)'
    <3>1. Session(w)' = Session(w) /\ granted' = granted
      BY <1>2, <2>1 DEF Session, SameClaim, Run, leaseVars
    <3> QED BY <1>0, <2>1, <3>1 DEF WorkerInv, StageBacked, At
  <2>4. MissedIsLost(w)'
    <3>1. n > 0 => ~Owns(w)'
      BY <1>4, <2>1 DEF Owns, RS!Holds, storeVars, SameClaim
    <3> QED BY <1>0, <2>1, <3>1 DEF MissedIsLost
  <2> QED BY <1>1, <1>2, <1>3, <1>4, <2>1, <2>2, <2>3, <2>4, InFlightStep
<1>5. CASE /\ RS!heartbeat(Run(w), Token(w))
           /\ worker' = [worker EXCEPT ![w].lost = 0]
           /\ UNCHANGED faults
  <2>1. beats(0) /\ Harmless(w)
    BY <1>1, <1>5, HolderHarmless
  <2>2. 0 \in 0..LeaseLostConsecutive /\ ~(0 > 0)
    BY WorkersAssumption
  <2> HIDE DEF beats
  <2> QED BY <1>4, <1>5, <2>1, <2>2
<1>6. CASE /\ ~RS!Holds(Run(w), Token(w))
           /\ worker' = [worker EXCEPT ![w].lost = Missed(@)]
           /\ UNCHANGED <<storeVars, faults>>
  <2>1. Missed(worker[w].lost) \in 0..LeaseLostConsecutive
    BY <1>0, <1>1, WorkersAssumption DEF Missed
  <2>2. beats(Missed(worker[w].lost)) /\ Harmless(w)
    BY <1>6, QuietHarmless
  <2> HIDE DEF beats
  <2> QED BY <1>4, <1>6, <2>1, <2>2
<1>7. CASE /\ Fault
           /\ worker' = [worker EXCEPT ![w].lost = Thrown(@)]
           /\ UNCHANGED storeVars
  <2>1. beats(0) /\ Harmless(w)
    BY <1>7, QuietHarmless DEF Thrown
  <2>2. 0 \in 0..LeaseLostConsecutive /\ ~(0 > 0)
    BY WorkersAssumption
  <2> HIDE DEF beats
  <2> QED BY <1>4, <1>7, <2>1, <2>2
<1> QED BY <1>5, <1>6, <1>7 DEF heartbeat

\* The turn takes its session: its lease is the newest grant.
LEMMA AcquireInv ==
  ASSUME WorkersInv, NEW w \in Workers, acquireLease(w)
  PROVE  WorkersInv' /\ Refines
<1> DEFINE n == granted[Session(w)] + 1
<1>0. /\ At(w, "resolving") /\ SL!acquireLease(Session(w)) /\ WorkerInv(w)
      /\ worker' = [worker EXCEPT ![w].pc = "turn", ![w].lease = n]
      /\ heldFor' = [heldFor EXCEPT ![Session(w)] = Run(w)]
      /\ UNCHANGED storeVars /\ UNCHANGED <<reaper, stops, faults>>
      /\ worker \in [Workers -> WorkerState] /\ SL!TypeOK
  BY DEF acquireLease, LeaseOnly, WorkersInv, TypeOK
<1>1. Leased(w) /\ Run(w) \in Runs /\ Session(w) \in Sessions
  BY <1>0, StoreAssumptions DEF Leased, InFlight, At, WorkerInv, ClaimKnown, Session, Run
<1>2. n \in Nat /\ n \in 1..granted'[Session(w)]
  BY <1>0, <1>1 DEF SL!acquireLease, SL!TypeOK
<1> HIDE DEF n
<1>3. /\ OnlyMoves(w) /\ SameClaim(w) /\ worker'[w].pc = "turn" /\ worker'[w].lease = n
      /\ worker'[w].lost = worker[w].lost /\ worker'[w].drain = worker[w].drain
  BY <1>0, <1>2, TurnMoves
<1>4. InFlight(w)' /\ ~At(w, "settling")'
  BY <1>3 DEF InFlight, At
<1>5. StageBacked(w)'
  <2>1. Session(w)' = Session(w)
    BY <1>3 DEF Session, SameClaim, Run
  <2> QED BY <1>2, <1>3, <2>1 DEF StageBacked, At
<1>6. MissedIsLost(w)'
  <2>1. Owns(w)' <=> Owns(w)
    BY <1>0, <1>3 DEF Owns, SameClaim, RS!Holds, storeVars
  <2> QED BY <1>0, <1>3, <2>1 DEF WorkerInv, MissedIsLost
<1>7. Harmless(w)
  BY <1>0, QuietHarmless
<1>8. [SL!Next]_leaseVars
  BY <1>0, <1>1 DEF SL!Next
<1>9. RestTyped
  BY <1>0, <1>1 DEF RestTyped, WorkersInv, TypeOK
<1> QED BY <1>0, <1>1, <1>3, <1>4, <1>5, <1>6, <1>7, <1>8, <1>9, InFlightStep

\* The turn is over.
LEMMA TurnEndStep ==
  ASSUME WorkersInv, NEW w \in Workers, Leased(w), UNCHANGED storeVars, [SL!Next]_leaseVars,
         UNCHANGED <<reaper, stops, heldFor>>, UNCHANGED faults \/ Fault,
         Returns(w) \/ \E retry \in BOOLEAN : Throws(w, retry)
  PROVE  WorkersInv' /\ Refines
<1>0. worker \in [Workers -> WorkerState]
  BY DEF WorkersInv, TypeOK
<1>1. /\ OnlyMoves(w) /\ SameClaim(w) /\ worker'[w].pc \in {"completing", "failing"}
      /\ worker'[w].lost = 0 /\ worker'[w].drain = worker[w].drain
  BY <1>0, TurnEndMoves
<1>2. InFlight(w)' /\ StageBacked(w)' /\ ~At(w, "settling")' /\ MissedIsLost(w)'
  BY <1>1 DEF InFlight, StageBacked, At, MissedIsLost
<1>3. Harmless(w)
  BY QuietHarmless
<1>4. RestTyped
  BY RestKept
<1> QED BY <1>1, <1>2, <1>3, <1>4, InFlightStep

\* A turn that has no session yet, or has it and ends.
LEMMA TurnInv ==
  ASSUME WorkersInv, NEW w \in Workers,
         refused(w) \/ resolveThrows(w) \/ appendThrows(w) \/ turnEnds(w) \/ releaseThrows(w)
  PROVE  WorkersInv' /\ Refines
<1>1. worker[w].pc \in {"resolving", "turn"}
  BY DEF refused, resolveThrows, appendThrows, turnEnds, releaseThrows, At
<1>2. Leased(w)
  BY <1>1 DEF Leased, InFlight
<1>3. UNCHANGED storeVars /\ UNCHANGED <<reaper, stops, heldFor>>
  BY DEF refused, resolveThrows, appendThrows, turnEnds, releaseThrows, LeaseOnly
<1>4. UNCHANGED faults \/ Fault
  BY DEF refused, resolveThrows, appendThrows, turnEnds, releaseThrows
<1>5. Returns(w) \/ \E retry \in BOOLEAN : Throws(w, retry)
  BY DEF refused, resolveThrows, appendThrows, turnEnds, releaseThrows
<1>6. [SL!Next]_leaseVars
  <2>1. CASE UNCHANGED leaseVars
    BY <2>1
  <2>2. CASE turnEnds(w) /\ SL!releaseLease(Session(w), worker[w].lease)
    <3>1. /\ worker[w].lease \in 1..granted[Session(w)]
          /\ Run(w) \in Runs
      BY <2>2 DEF turnEnds, WorkersInv, WorkerInv, StageBacked, ClaimKnown, Leased, InFlight, At
    <3>2. Session(w) \in Sessions
      BY <3>1, StoreAssumptions DEF Session, Run
    <3> QED BY <2>2, <3>1, <3>2 DEF SL!Next
  <2> QED
    BY <2>1, <2>2 DEF refused, resolveThrows, appendThrows, turnEnds, releaseThrows
<1> QED BY <1>2, <1>3, <1>4, <1>5, <1>6, TurnEndStep

\* The turn writes its transcript.
LEMMA AppendInv ==
  ASSUME WorkersInv, NEW w \in Workers, append(w)
  PROVE  WorkersInv' /\ Refines
<1>1. /\ At(w, "turn") /\ SL!append(Session(w), worker[w].lease) /\ UNCHANGED storeVars
      /\ UNCHANGED <<worker, reaper, stops, heldFor, faults>>
  BY DEF append, LeaseOnly
<1>2. worker[w].lease \in 1..granted[Session(w)] /\ Run(w) \in Runs
  BY <1>1 DEF WorkersInv, WorkerInv, StageBacked, ClaimKnown, Leased, InFlight, At
<1>3. Session(w) \in Sessions
  BY <1>2, StoreAssumptions DEF Session, Run
<1>4. [SL!Next]_leaseVars
  BY <1>1, <1>2, <1>3 DEF SL!Next
<1>5. Harmless(w) /\ Spared(w)
  BY <1>1, QuietHarmless
<1>6. Forward
  BY <1>1, <1>4, <1>5, StoresForward DEF Harmless
<1>7. OnlyMoves(w)
  BY <1>1 DEF OnlyMoves, WorkersInv, TypeOK
<1>8. WorkerInv(w)' /\ NoGain(w)
  BY <1>1, <1>5, <1>6, SameStageInv DEF Run, Token
<1>9. RestTyped
  BY <1>1, RestKept
<1> QED BY <1>1, <1>4, <1>5, <1>6, <1>7, <1>8, <1>9, StepInv

\* The process announces the run it ended.
LEMMA ToSettling ==
  ASSUME WorkersInv, NEW w \in Workers, Harmless(w), StoreOnly, UNCHANGED faults,
         Goto(w, "settling"), Leased(w), worker[w].pc \notin {"resolving", "turn"},
         Run(w) \notin toSettle, Run(w) \in toSettle'
  PROVE  WorkersInv' /\ Refines
<1>0. worker \in [Workers -> WorkerState]
  BY DEF WorkersInv, TypeOK
<1>1. /\ OnlyMoves(w) /\ SameClaim(w) /\ worker'[w].pc = "settling"
      /\ worker'[w].lost = worker[w].lost /\ worker'[w].drain = worker[w].drain
  BY <1>0, GotoMoves DEF Pcs
<1>2. InFlight(w)' /\ StageBacked(w)'
  BY <1>1 DEF InFlight, StageBacked, At, SameClaim
<1>3. MissedIsLost(w)'
  <2>1. ~(worker[w].lost > 0)
    BY DEF WorkersInv, WorkerInv, MissedIsLost
  <2> QED BY <1>1, <2>1 DEF MissedIsLost
<1>4. UNCHANGED leaseVars /\ UNCHANGED <<reaper, stops, heldFor>>
  BY DEF StoreOnly
<1>5. RestTyped
  BY <1>4, RestKept
<1> QED BY <1>1, <1>2, <1>3, <1>4, <1>5, InFlightStep

LEMMA CompleteInv ==
  ASSUME WorkersInv, NEW w \in Workers, complete(w)
  PROVE  WorkersInv' /\ Refines
<1>0. /\ At(w, "completing") /\ StoreOnly /\ Leased(w) /\ Token(w) # 0
      /\ worker[w].pc \notin {"resolving", "turn"}
  BY DEF complete, Leased, InFlight, At, WorkersInv, WorkerInv, ClaimKnown
<1>1. CASE RS!complete(Run(w), Token(w)) /\ Goto(w, "settling") /\ UNCHANGED faults
  <2>1. Harmless(w)
    BY <1>0, <1>1, HolderHarmless
  <2>2. Run(w) \notin toSettle /\ Run(w) \in toSettle'
    BY <1>0, <1>1, TokenOpens DEF RS!complete
  <2> QED BY <1>0, <1>1, <2>1, <2>2, ToSettling
<1>2. CASE /\ runs[Run(w)].leaseToken # Token(w)
           /\ EndOfRun(w) /\ UNCHANGED <<storeVars, faults>>
  <2>1. ~Owns(w)
    BY <1>2 DEF Owns, RS!Holds
  <2> QED BY <1>0, <1>2, <2>1, EndLost, QuietHarmless, EndStep
<1>3. CASE Fault /\ Throws(w, TRUE) /\ UNCHANGED storeVars
  <2>1. UNCHANGED leaseVars /\ UNCHANGED <<reaper, stops, heldFor>>
    BY <1>0 DEF StoreOnly
  <2> QED BY <1>0, <1>3, <2>1, TurnEndStep
<1> QED BY <1>1, <1>2, <1>3 DEF complete

LEMMA SettleInv ==
  ASSUME WorkersInv, NEW w \in Workers, settle(w)
  PROVE  WorkersInv' /\ Refines
<1>1. /\ At(w, "settling") /\ EndOfRun(w) /\ StoreOnly
      /\ \/ RS!settle(Run(w)) /\ UNCHANGED faults
         \/ RS!settleLost(Run(w)) /\ Fault
      /\ worker[w].pc \notin {"resolving", "turn"}
  BY DEF settle, At
<1>2. Harmless(w)
  BY <1>1, SettleHarmless
<1>3. LetGo(w)
  BY <1>1, FaultLetsGo DEF LetGo, Gone, RS!settle, RS!isTerminal
<1> QED BY <1>1, <1>2, <1>3, EndStep

\* fail() reads the row: the entry is the process's own.
LEMMA FailInv ==
  ASSUME WorkersInv, NEW w \in Workers, fail(w)
  PROVE  WorkersInv' /\ Refines
<1>0. /\ At(w, "failing") /\ StoreOnly /\ Leased(w) /\ Token(w) # 0
      /\ worker[w].pc \notin {"resolving", "turn"} /\ worker \in [Workers -> WorkerState]
  BY DEF fail, Leased, InFlight, At, WorkersInv, WorkerInv, ClaimKnown, TypeOK
<1>1. CASE /\ RS!fail(Run(w), Token(w), worker[w].retry)
           /\ Goto(w, "retiring") /\ UNCHANGED faults
  <2>1. worker[w].retry \in BOOLEAN
    BY <1>0 DEF WorkerState
  <2>2. Harmless(w)
    BY <1>0, <1>1, <2>1, HolderHarmless
  <2>3. /\ OnlyMoves(w) /\ SameClaim(w) /\ worker'[w].pc = "retiring"
        /\ worker'[w].lost = worker[w].lost /\ worker'[w].drain = worker[w].drain
    BY <1>0, <1>1, GotoMoves DEF Pcs
  <2>4. \E e \in retiring' : e.run = Run(w) /\ e.token = Token(w) /\ ~e.reap
    <3> DEFINE e == RS!ReadRow(Run(w), worker[w].retry, FALSE)
    <3>1. e \in retiring' /\ e.run = Run(w) /\ e.token = Token(w) /\ ~e.reap
      BY <1>1 DEF RS!fail, RS!ReadRow
    <3> QED BY <3>1
  <2>5. InFlight(w)' /\ StageBacked(w)' /\ ~At(w, "settling")'
    BY <2>3, <2>4 DEF InFlight, StageBacked, At, SameClaim
  <2>6. MissedIsLost(w)'
    <3>1. ~(worker[w].lost > 0)
      BY <1>0 DEF WorkersInv, WorkerInv, MissedIsLost
    <3> QED BY <2>3, <3>1 DEF MissedIsLost
  <2>7. UNCHANGED leaseVars /\ UNCHANGED <<reaper, stops, heldFor>>
    BY <1>0 DEF StoreOnly
  <2>8. RestTyped
    BY <2>7, RestKept
  <2> QED BY <1>0, <1>1, <2>2, <2>3, <2>5, <2>6, <2>7, <2>8, InFlightStep
<1>2. CASE /\ runs[Run(w)].leaseToken # Token(w)
           /\ EndOfRun(w) /\ UNCHANGED <<storeVars, faults>>
  <2>1. ~Owns(w)
    BY <1>2 DEF Owns, RS!Holds
  <2> QED BY <1>0, <1>2, <2>1, EndLost, QuietHarmless, EndStep
<1>3. CASE Fault /\ EndOfRun(w) /\ UNCHANGED storeVars
  BY <1>0, <1>3, FaultLetsGo, QuietHarmless, EndStep
<1> QED BY <1>1, <1>2, <1>3 DEF fail

\* fail() writes what it decided.
LEMMA RetireInv ==
  ASSUME WorkersInv, NEW w \in Workers, retire(w)
  PROVE  WorkersInv' /\ Refines
<1> DEFINE e == OwnRetirement(w)
<1>0. /\ At(w, "retiring") /\ StoreOnly /\ Leased(w)
      /\ worker[w].pc \notin {"resolving", "turn"}
  BY DEF retire, Leased, InFlight, At
<1>1. e \in retiring /\ e.run = Run(w) /\ e.token = Token(w) /\ ~e.reap
  BY <1>0, OwnEntry
<1>2. CASE /\ RS!retire(e)
           /\ IF RS!Requeues(e) THEN EndOfRun(w) ELSE Goto(w, "settling")
           /\ UNCHANGED faults
  <2>1. Harmless(w)
    BY <1>0, <1>2, RetireHarmless
  <2> HIDE DEF e
  <2>2. /\ Run(w) \notin toSettle /\ runs'[Run(w)].status # "running"
        /\ ~RS!Requeues(e) => Run(w) \in toSettle'
    BY <1>1, <1>2, RetiredStatus
  <2>3. CASE EndOfRun(w)
    BY <1>0, <1>2, <2>1, <2>2, <2>3, EndStep DEF LetGo, Gone
  <2>4. CASE ~RS!Requeues(e) /\ Goto(w, "settling")
    BY <1>0, <1>2, <2>1, <2>2, <2>4, ToSettling
  <2> QED BY <1>2, <2>3, <2>4
<1>3. CASE /\ RS!retireMisses(e) /\ EndOfRun(w)
           /\ \/ ~RS!RetireApplies(e) /\ UNCHANGED faults
              \/ Fault
  <2>1. Harmless(w)
    BY <1>0, <1>3, RetireHarmless
  <2> HIDE DEF e
  <2>2. LetGo(w)
    <3>1. CASE ~RS!RetireApplies(e)
      BY <1>1, <1>3, <3>1 DEF RS!RetireApplies, RS!Holds, RS!retireMisses, LetGo, Gone
    <3>2. CASE Fault
      BY <3>2, FaultLetsGo
    <3> QED BY <1>3, <3>1, <3>2
  <2> QED BY <1>0, <1>3, <2>1, <2>2, EndStep
<1> QED BY <1>2, <1>3 DEF retire

-----------------------------------------------------------------------------
(* Shutdown and crash.                                                     *)

LEMMA StopInv ==
  ASSUME WorkersInv, NEW w \in Workers, stop(w)
  PROVE  WorkersInv' /\ Refines
<1>0. /\ UNCHANGED storeVars /\ UNCHANGED leaseVars /\ UNCHANGED <<reaper, faults, heldFor>>
      /\ worker \in [Workers -> WorkerState] /\ WorkerInv(w)
  BY DEF stop, WorkersInv, TypeOK
<1>1. /\ OnlyMoves(w)
      /\ worker'[w].pc = (IF worker[w].pc = "idle" THEN "exited" ELSE worker[w].pc)
      /\ Run(w)' = Run(w) /\ Token(w)' = Token(w) /\ worker'[w].lease = worker[w].lease
      /\ worker'[w].lost = worker[w].lost /\ worker'[w].drain = worker[w].drain
  BY <1>0, StopMoves DEF stop
<1>2. RestTyped
  <2>1. stops' \in 0..MaxStops
    BY WorkersAssumption DEF stop, WorkersInv, TypeOK
  <2> QED BY <1>0, <2>1 DEF RestTyped, WorkersInv, TypeOK
<1>3. Harmless(w) /\ Spared(w)
  BY <1>0, QuietHarmless
<1>4. [SL!Next]_leaseVars
  BY <1>0
<1>5. Forward
  BY <1>0, <1>3, <1>4, StoresForward DEF Harmless
<1>6. WorkerInv(w)' /\ NoGain(w)
  <2>1. CASE worker[w].pc # "idle"
    <3>1. worker'[w].pc = worker[w].pc
      BY <1>1, <2>1
    <3> QED BY <1>1, <1>3, <1>5, <3>1, SameStageInv
  <2>2. CASE worker[w].pc = "idle"
    <3>1. Token(w) = 0 /\ worker[w].drain = "no" /\ ~(worker[w].lost > 0)
      BY <1>0, <2>2 DEF WorkerInv, ClaimKnown, MissedIsLost, InFlight, At
    <3>2. worker'[w].pc = "exited"
      BY <1>1, <2>2
    <3>3. ClaimKnown(w)' /\ StageBacked(w)' /\ NoGain(w)
      BY <1>1, <3>1, <3>2 DEF ClaimKnown, StageBacked, NoGain, Leased, InFlight, At
    <3>4. MissedIsLost(w)' /\ LeftNothing(w)'
      BY <1>1, <3>1 DEF MissedIsLost, LeftNothing, Owns
    <3> QED BY <3>3, <3>4 DEF WorkerInv
  <2> QED BY <2>1, <2>2
<1> QED BY <1>0, <1>1, <1>2, <1>3, <1>4, <1>5, <1>6, StepInv

\* A step of releaseInFlight().
DrainTo(w, d) == worker' = [worker EXCEPT ![w].drain = d]

LEMMA DrainStep ==
  ASSUME WorkersInv, NEW w \in Workers, NEW d \in Drains \ {"no"},
         DrainTo(w, d), Harmless(w), Spared(w), [SL!Next]_leaseVars,
         UNCHANGED <<reaper, stops, heldFor>>, UNCHANGED faults \/ Fault,
         InFlight(w) \/ At(w, "exited"), Token(w) # 0, d = "done" => Gone(w)
  PROVE  WorkersInv' /\ Refines
<1>0. worker \in [Workers -> WorkerState]
  BY DEF WorkersInv, TypeOK
<1>1. /\ OnlyMoves(w) /\ SameClaim(w)
      /\ worker'[w].pc = worker[w].pc /\ worker'[w].lease = worker[w].lease
      /\ worker'[w].lost = worker[w].lost /\ worker'[w].drain = d
  BY <1>0, DrainMoves DEF DrainTo
<1>2. Forward
  BY StoresForward DEF Harmless
<1>3. d = "done" => ~Owns(w)'
  BY <1>1 DEF Gone, Owns, RS!Holds, SameClaim
<1>4. WorkerInv(w)' /\ NoGain(w)
  BY <1>1, <1>2, <1>3, SameStageInv DEF SameClaim
<1>5. RestTyped
  BY RestKept
<1> QED BY <1>1, <1>2, <1>4, <1>5, StepInv

\* The stages in which releaseInFlight() has something to do.
LEMMA DrainOpen ==
  ASSUME WorkersInv, NEW w \in Workers, InFlight(w) \/ worker[w].drain # "no"
  PROVE  (InFlight(w) \/ At(w, "exited")) /\ Token(w) # 0 /\ Run(w) \in Runs
  BY DEF WorkersInv, WorkerInv, ClaimKnown, Leased

LEMMA DrainInv ==
  ASSUME WorkersInv, NEW w \in Workers,
         releaseInFlight(w) \/ drainUnlock(w) \/ handBack(w) \/ drainThrows(w)
  PROVE  WorkersInv' /\ Refines
<1>0. (InFlight(w) \/ At(w, "exited")) /\ Token(w) # 0 /\ Run(w) \in Runs
  BY DrainOpen DEF releaseInFlight, drainUnlock, handBack, drainThrows
<1>1. CASE releaseInFlight(w)
  <2>1. UNCHANGED leaseVars /\ UNCHANGED <<reaper, stops, heldFor, faults>>
    BY <1>1 DEF releaseInFlight, StoreOnly
  <2>2. CASE RS!heartbeat(Run(w), Token(w)) /\ DrainTo(w, "unlock")
    <3>1. Harmless(w) /\ Spared(w)
      BY <1>0, <2>2, HolderHarmless
    <3> QED BY <1>0, <2>1, <2>2, <3>1, DrainStep DEF Drains
  <2>3. CASE /\ ~RS!Holds(Run(w), Token(w)) /\ DrainTo(w, "done") /\ UNCHANGED storeVars
    <3>1. Harmless(w) /\ Spared(w) /\ Gone(w)
      BY <2>3, QuietHarmless, EndLost DEF Owns
    <3> QED BY <1>0, <2>1, <2>3, <3>1, DrainStep DEF Drains
  <2> QED BY <1>1, <2>2, <2>3 DEF releaseInFlight, DrainTo
<1>2. CASE drainUnlock(w)
  <2>1. /\ UNCHANGED storeVars /\ UNCHANGED <<reaper, stops, heldFor, faults>>
        /\ DrainTo(w, "handback") /\ SL!forceReleaseLease(Session(w))
    BY <1>2 DEF drainUnlock, LeaseOnly, DrainTo
  <2>2. Harmless(w) /\ Spared(w)
    BY <2>1, QuietHarmless
  <2>3. Session(w) \in Sessions
    BY <1>0, StoreAssumptions DEF Session, Run
  <2>4. [SL!Next]_leaseVars
    BY <2>1, <2>3 DEF SL!Next
  <2> QED BY <1>0, <2>1, <2>2, <2>4, DrainStep DEF Drains
<1>3. CASE handBack(w)
  <2>1. /\ UNCHANGED leaseVars /\ UNCHANGED <<reaper, stops, heldFor, faults>>
        /\ DrainTo(w, "done")
    BY <1>3 DEF handBack, StoreOnly, DrainTo
  <2>2. CASE RS!releaseLease(Run(w), Token(w))
    <3>1. Harmless(w) /\ Spared(w)
      BY <1>0, <2>2, HolderHarmless
    <3>2. Gone(w)
      BY <1>0, <2>2, ReleasedStatus DEF Gone
    <3> QED BY <1>0, <2>1, <3>1, <3>2, DrainStep DEF Drains
  <2>3. CASE ~RS!Holds(Run(w), Token(w)) /\ UNCHANGED storeVars
    <3>1. Harmless(w) /\ Spared(w) /\ Gone(w)
      BY <2>3, QuietHarmless, EndLost DEF Owns
    <3> QED BY <1>0, <2>1, <3>1, DrainStep DEF Drains
  <2> QED BY <1>3, <2>2, <2>3 DEF handBack
<1>4. CASE drainThrows(w)
  <2>1. /\ UNCHANGED leaseVars /\ UNCHANGED <<reaper, stops, heldFor>> /\ Fault
        /\ DrainTo(w, "failed") /\ UNCHANGED storeVars
    BY <1>4 DEF drainThrows, StoreOnly, DrainTo
  <2>2. Harmless(w) /\ Spared(w)
    BY <2>1, QuietHarmless
  <2> QED BY <1>0, <2>1, <2>2, DrainStep DEF Drains
<1> QED BY <1>1, <1>2, <1>3, <1>4

\* A process dies, exits or comes back.
LEMMA DieInv ==
  ASSUME WorkersInv, NEW w \in Workers, crash(w) \/ exit(w) \/ forcedExit(w) \/ restart(w)
  PROVE  WorkersInv' /\ Refines
<1>0. worker \in [Workers -> WorkerState]
  BY DEF WorkersInv, TypeOK
<1>1. /\ UNCHANGED leaseVars /\ UNCHANGED <<reaper, stops, heldFor>>
      /\ UNCHANGED faults \/ Fault
  BY DEF crash, exit, forcedExit, restart, Die, StoreOnly
<1>2. PICK new \in {Fresh, Down} : worker' = [worker EXCEPT ![w] = new]
  BY DEF crash, exit, forcedExit, restart, Die
<1>3. OnlyMoves(w) /\ worker'[w] \in {Fresh, Down}
  BY <1>0, <1>2, FreshState, WorkerMoves
<1>4. WorkerInv(w)' /\ NoGain(w)
  BY <1>3, FreshInv
<1>5. Harmless(w)
  <2>1. CASE restart(w)
    BY <2>1, QuietHarmless DEF restart
  <2>2. CASE Die(w)
    <3>1. CASE At(w, "claiming")
      <4>1. RS!claimRefused(Run(w))
        BY <2>2, <3>1 DEF Die, At
      <4> QED BY <3>1, <4>1, ClaimEndHarmless
    <3>2. CASE At(w, "retiring")
      <4>1. RS!retireMisses(OwnRetirement(w))
        BY <2>2, <3>2 DEF Die, At
      <4> QED BY <3>2, <4>1, RetireHarmless
    <3>3. CASE At(w, "settling")
      <4>1. RS!settleLost(Run(w))
        BY <2>2, <3>3 DEF Die, At
      <4> QED BY <3>3, <4>1, SettleHarmless
    <3>4. CASE ~At(w, "claiming") /\ ~At(w, "retiring") /\ ~At(w, "settling")
      <4>1. UNCHANGED storeVars
        BY <2>2, <3>4 DEF Die
      <4> QED BY <4>1, QuietHarmless
    <3> QED BY <3>1, <3>2, <3>3, <3>4
  <2> QED BY <2>1, <2>2 DEF crash, exit, forcedExit
<1>6. [SL!Next]_leaseVars
  BY <1>1
<1>7. Forward
  BY <1>1, <1>5, <1>6, StoresForward DEF Harmless
<1>8. RestTyped
  BY <1>1, RestKept
<1> QED BY <1>1, <1>3, <1>4, <1>5, <1>6, <1>7, <1>8, StepInv

-----------------------------------------------------------------------------
(* The reaper, the requests and time.                                      *)

ReaperState == [retired: SUBSET Sessions, parked: Runs \cup {NoRun}, dead: BOOLEAN]

\* A step in which no process moves.
LEMMA EnvStep ==
  ASSUME WorkersInv, [RS!Next]_storeVars, [SL!Next]_leaseVars, UNCHANGED faults \/ Fault,
         UNCHANGED <<worker, stops, heldFor>>,
         \A v \in Workers : Spared(v),
         reaper' \in ReaperState, ParkedIsOwn'
  PROVE  WorkersInv' /\ Refines
<1>1. Forward
  BY StoresForward
<1>2. \A v \in Workers : WorkerInv(v)'
  BY <1>1, SparedWorker
<1>3. TypeOK'
  <2>1. RS!TypeOK'
    <3>1. RSP!RunStoreInv'
      BY <1>1 DEF Forward
    <3> QED
      BY <3>1 DEF RSP!RunStoreInv, RSP!TypeOK, RS!TypeOK, RSP!Row, RS!Row, RSP!Status,
                  RS!Status, RSP!Retirement, RS!Retirement
  <2> QED BY <1>1, <2>1 DEF TypeOK, Forward, WorkersInv, ReaperState
<1>4. \A u, v \in Workers : u # v => Apart(u, v)'
  BY DEF WorkersInv, Apart, Leased, InFlight, At, Run, Token
<1> QED BY <1>1, <1>2, <1>3, <1>4 DEF WorkersInv, Forward, Refines

LEMMA EnqueueInv ==
  ASSUME WorkersInv, NEW r \in Runs, enqueue(r)
  PROVE  WorkersInv' /\ Refines
<1>1. /\ RS!enqueue(r) /\ UNCHANGED leaseVars
      /\ UNCHANGED <<reaper, stops, heldFor, worker, faults>>
  BY DEF enqueue, StoreOnly
<1>2. \A v \in Workers : Spared(v)
  BY <1>1, ClaimHarmless
<1>3. RS!Next /\ UNCHANGED toSettle
  BY <1>1 DEF RS!Next, RS!enqueue
<1>4. reaper' \in ReaperState /\ ParkedIsOwn'
  BY <1>1, <1>3 DEF WorkersInv, TypeOK, ReaperState, ParkedIsOwn, At, Run
<1> QED BY <1>1, <1>2, <1>3, <1>4, EnvStep

\* No process announces a run that is still running.
LEMMA SettlingIsOver ==
  ASSUME WorkersInv, NEW v \in Workers, At(v, "settling")
  PROVE  Run(v) \in toSettle /\ Run(v) \in Runs /\ runs[Run(v)].status # "running"
<1>1. Run(v) \in toSettle
  BY OthersBacked
<1> QED BY <1>1, StoreFacts DEF WorkersInv, RS!TypeOK

\* The SELECT of a sweep.
LEMMA SweepInv ==
  ASSUME WorkersInv, sweep
  PROVE  WorkersInv' /\ Refines
<1>1. /\ RS!reapExpired /\ UNCHANGED leaseVars
      /\ UNCHANGED <<worker, reaper, faults, stops, heldFor>>
  BY DEF sweep
<1>2. UNCHANGED <<claiming, toSettle>> /\ retiring \subseteq retiring'
  BY <1>1 DEF RS!reapExpired
<1>3. \A v \in Workers : Spared(v)
  BY <1>2, OthersBacked DEF Spared
<1>4. reaper' \in ReaperState /\ ParkedIsOwn'
  BY <1>1, <1>2 DEF WorkersInv, TypeOK, ReaperState, ParkedIsOwn, At, Run
<1>5. RS!Next
  BY <1>1 DEF RS!Next
<1> QED BY <1>1, <1>3, <1>4, <1>5, EnvStep

\* A sweep removes an entry of its own.
LEMMA SweptSpares ==
  ASSUME WorkersInv, NEW e \in Swept, RS!retire(e) \/ RS!retireMisses(e)
  PROVE  RS!Next /\ (\A v \in Workers : Spared(v)) /\ toSettle \subseteq toSettle'
<1>1. e \in retiring /\ e.reap
  BY DEF Swept
<1>2. UNCHANGED claiming /\ retiring' = retiring \ {e} /\ toSettle \subseteq toSettle'
  BY DEF RS!retire, RS!retireMisses
<1>3. RS!Next
  BY <1>1 DEF RS!Next
<1> QED BY <1>1, <1>2, <1>3, OthersBacked DEF Spared

LEMMA SweepRetireInv ==
  ASSUME WorkersInv, sweepRetire
  PROVE  WorkersInv' /\ Refines
<1>0. /\ UNCHANGED leaseVars /\ UNCHANGED <<worker, faults, stops, heldFor>>
      /\ reaper \in ReaperState
  BY DEF sweepRetire, WorkersInv, TypeOK, ReaperState
<1>1. ASSUME NEW e \in Swept, RS!retire(e),
             reaper' = [reaper EXCEPT !.retired = @ \cup {SessionOf[e.run]},
                                      !.parked = IF RS!Requeues(e) THEN NoRun ELSE e.run]
      PROVE  WorkersInv' /\ Refines
  <2>1. RS!Next /\ (\A v \in Workers : Spared(v))
    BY <1>1, SweptSpares
  <2>2. /\ e.run \in Runs /\ runs[e.run].status = "running" /\ e.run \notin toSettle
        /\ ~RS!Requeues(e) => e.run \in toSettle'
    BY <1>1, RetiredStatus DEF Swept
  <2>3. reaper' \in ReaperState /\ reaper'.parked = (IF RS!Requeues(e) THEN NoRun ELSE e.run)
    <3> DEFINE p == IF RS!Requeues(e) THEN NoRun ELSE e.run
               a == [reaper EXCEPT !.retired = @ \cup {SessionOf[e.run]}]
    <3>1. p \in Runs \cup {NoRun} /\ SessionOf[e.run] \in Sessions
      BY <2>2, StoreAssumptions
    <3>2. a \in ReaperState
      BY <1>0, <3>1 DEF ReaperState
    <3>3. reaper' = [a EXCEPT !.parked = p]
      BY <1>1
    <3> HIDE DEF p, a
    <3>4. reaper' \in ReaperState /\ reaper'.parked = p
      BY <3>1, <3>2, <3>3 DEF ReaperState
    <3> QED BY <3>4 DEF p
  <2>4. ParkedIsOwn'
    <3>1. \A v \in Workers : At(v, "settling") => Run(v) # e.run
      BY <2>2, OthersBacked
    <3> QED BY <1>0, <2>2, <2>3, <3>1 DEF ParkedIsOwn, At, Run
  <2> QED BY <1>0, <2>1, <2>3, <2>4, EnvStep
<1>2. ASSUME NEW e \in Swept, RS!retireMisses(e), UNCHANGED reaper
      PROVE  WorkersInv' /\ Refines
  <2>1. RS!Next /\ (\A v \in Workers : Spared(v)) /\ toSettle \subseteq toSettle'
    BY <1>2, SweptSpares
  <2>2. reaper' \in ReaperState /\ ParkedIsOwn'
    BY <1>0, <1>2, <2>1 DEF WorkersInv, ParkedIsOwn, At, Run
  <2> QED BY <1>0, <2>1, <2>2, EnvStep
<1> QED BY <1>1, <1>2 DEF sweepRetire

\* The announcement of a parked run, made or lost.
LEMMA ParkedSettles ==
  ASSUME WorkersInv, reaper.parked # NoRun,
         RS!settle(reaper.parked) \/ RS!settleLost(reaper.parked)
  PROVE  RS!Next /\ (\A v \in Workers : Spared(v))
<1>1. reaper.parked \in Runs
  BY DEF WorkersInv, TypeOK
<1>2. UNCHANGED <<claiming, retiring>> /\ toSettle' = toSettle \ {reaper.parked}
  BY DEF RS!settle, RS!settleLost
<1>3. RS!Next
  BY <1>1 DEF RS!Next
<1>4. \A v \in Workers : At(v, "settling") => Run(v) # reaper.parked
  BY DEF WorkersInv, ParkedIsOwn
<1> QED BY <1>2, <1>3, <1>4, OthersBacked DEF Spared

LEMMA SweepEndInv ==
  ASSUME WorkersInv,
         sweepSettle \/ sweepDies \/ sweepForgotten \/ \E s \in Sessions : sweepUnlock(s)
  PROVE  WorkersInv' /\ Refines
<1>0. /\ UNCHANGED <<worker, stops, heldFor>>
      /\ UNCHANGED faults \/ Fault
      /\ reaper \in ReaperState
  BY DEF sweepSettle, sweepDies, sweepForgotten, sweepUnlock, WorkersInv, TypeOK, ReaperState
<1>a. UNCHANGED storeVars => \A v \in Workers : Spared(v)
  BY QuietHarmless
<1>1. CASE sweepSettle
  <2>1. RS!Next /\ (\A v \in Workers : Spared(v)) /\ UNCHANGED leaseVars
    BY <1>1, ParkedSettles DEF sweepSettle
  <2>2. reaper' \in ReaperState /\ reaper'.parked = NoRun
    BY <1>0, <1>1 DEF sweepSettle, ReaperState
  <2>3. ParkedIsOwn'
    BY <2>2 DEF ParkedIsOwn
  <2> QED BY <1>0, <2>1, <2>2, <2>3, EnvStep
<1>2. CASE sweepDies
  <2>1. reaper' \in ReaperState /\ reaper'.parked = NoRun /\ UNCHANGED leaseVars
    BY <1>2 DEF sweepDies, ReaperState
  <2>2. ParkedIsOwn'
    BY <2>1 DEF ParkedIsOwn
  <2>3. [RS!Next]_storeVars /\ (\A v \in Workers : Spared(v))
    BY <1>2, <1>a, ParkedSettles DEF sweepDies
  <2> QED BY <1>0, <2>1, <2>2, <2>3, EnvStep
<1>3. CASE sweepForgotten
  <2>1. PICK e \in Swept : RS!retireMisses(e) /\ reaper' = [reaper EXCEPT !.dead = Swept # {e}]
    BY <1>3 DEF sweepForgotten
  <2>2. RS!Next /\ (\A v \in Workers : Spared(v)) /\ toSettle \subseteq toSettle'
    BY <2>1, SweptSpares
  <2>3. reaper' \in ReaperState /\ reaper'.parked = reaper.parked /\ UNCHANGED leaseVars
    BY <1>0, <1>3, <2>1 DEF ReaperState, sweepForgotten
  <2>4. ParkedIsOwn'
    BY <1>0, <2>2, <2>3 DEF WorkersInv, ParkedIsOwn, At, Run
  <2> QED BY <1>0, <2>2, <2>3, <2>4, EnvStep
<1>4. ASSUME NEW s \in Sessions, sweepUnlock(s) PROVE WorkersInv' /\ Refines
  <2>1. /\ SL!Next /\ UNCHANGED storeVars
    BY <1>4 DEF sweepUnlock, SL!Next
  <2>2. reaper' \in ReaperState /\ reaper'.parked = NoRun
    BY <1>0, <1>4 DEF sweepUnlock, ReaperState
  <2>3. ParkedIsOwn'
    BY <2>2 DEF ParkedIsOwn
  <2> QED BY <1>0, <1>a, <2>1, <2>2, <2>3, EnvStep
<1> QED BY <1>1, <1>2, <1>3, <1>4

LEMMA TickInv ==
  ASSUME WorkersInv, Tick
  PROVE  WorkersInv' /\ Refines
<1>1. /\ RS!Tick /\ SL!Tick /\ UNCHANGED <<worker, reaper, faults, stops, heldFor>>
  BY DEF Tick
<1>2. /\ UNCHANGED <<claiming, toSettle>>
      /\ \A e \in retiring : ~e.reap => e \in retiring'
  BY <1>1 DEF RS!Tick
<1>3. \A v \in Workers : Spared(v)
  BY <1>2, OthersBacked DEF Spared
<1>4. reaper' \in ReaperState /\ ParkedIsOwn'
  BY <1>1, <1>2 DEF WorkersInv, TypeOK, ReaperState, ParkedIsOwn, At, Run
<1>5. RS!Next /\ SL!Next
  BY <1>1 DEF RS!Next, SL!Next
<1> QED BY <1>1, <1>3, <1>4, <1>5, EnvStep

-----------------------------------------------------------------------------
(* The theorems.                                                           *)

\* Every step of a process, of the reaper or of time preserves the invariant
\* and is a step that the stores' contracts allow.
LEMMA NextInv == WorkersInv /\ [Next]_vars => WorkersInv' /\ Refines
<1> SUFFICES ASSUME WorkersInv, [Next]_vars PROVE WorkersInv' /\ Refines
  OBVIOUS
<1>1. ASSUME NEW w \in Workers,
             Claim(w) \/ claim(w) \/ claimById(w) \/ heartbeat(w) \/ Start(w) \/ Turn(w)
      PROVE  WorkersInv' /\ Refines
  BY <1>1, ClaimInv, LeasedInv, ClaimRefusedInv, ClaimedInv, HeartbeatInv, AcquireInv, TurnInv,
     AppendInv DEF Claim, Start, Turn
<1>2. ASSUME NEW w \in Workers,
             Outcome(w) \/ stop(w) \/ Shutdown(w) \/ crash(w) \/ restart(w)
      PROVE  WorkersInv' /\ Refines
  BY <1>2, CompleteInv, SettleInv, FailInv, RetireInv, StopInv, DrainInv, DieInv
     DEF Outcome, Shutdown
<1>3. ASSUME Reaper PROVE WorkersInv' /\ Refines
  BY <1>3, SweepInv, SweepRetireInv, SweepEndInv DEF Reaper
<1>4. CASE UNCHANGED vars
  <2>1. /\ UNCHANGED storeVars /\ UNCHANGED leaseVars
        /\ UNCHANGED <<worker, reaper, faults, stops, heldFor>>
    BY <1>4 DEF vars
  <2>2. \A v \in Workers : Spared(v)
    BY <2>1, QuietHarmless
  <2>3. reaper' \in ReaperState /\ ParkedIsOwn'
    BY <2>1 DEF WorkersInv, TypeOK, ReaperState, ParkedIsOwn, At, Run, storeVars
  <2> QED BY <2>1, <2>2, <2>3, EnvStep
<1> QED BY <1>1, <1>2, <1>3, <1>4, EnqueueInv, TickInv DEF Next

LEMMA InitInv == Init => WorkersInv /\ RS!Init /\ SL!Init
<1> SUFFICES ASSUME Init PROVE WorkersInv /\ RS!Init /\ SL!Init
  OBVIOUS
<1>0. /\ RS!Init /\ SL!Init /\ worker = [w \in Workers |-> Fresh]
      /\ reaper = [retired |-> {}, parked |-> NoRun, dead |-> FALSE]
      /\ faults = 0 /\ stops = 0 /\ heldFor = [s \in Sessions |-> NoRun]
  BY DEF Init
<1>1. RSP!RunStoreInv
  <2>1. RSP!Init
    BY <1>0 DEF RS!Init, RSP!Init, RS!NoRow, RSP!NoRow, RS!NoToken, RSP!NoToken
  <2> QED BY <2>1, RSP!InitInv, StoreAssumptions
<1>2. SLP!LeasesInv /\ SL!TypeOK
  BY <1>0, StoreAssumptions
     DEF SL!Init, SLP!LeasesInv, SLP!TypeOK, SLP!NewestGrantHolds, SLP!Lease, SL!NoLease,
         SL!TypeOK, SL!Lease
<1>3. \A w \in Workers : worker[w] = Fresh
  BY <1>0
<1>4. ASSUME NEW w \in Workers PROVE WorkerInv(w)
  <2>1. /\ worker[w].pc = "idle" /\ worker[w].token = 0 /\ worker[w].lost = 0
        /\ worker[w].drain = "no"
    BY <1>3, FreshState
  <2>2. ClaimKnown(w) /\ StageBacked(w)
    BY <2>1 DEF ClaimKnown, StageBacked, Leased, InFlight, At, Token
  <2>3. MissedIsLost(w) /\ LeftNothing(w)
    BY <2>1 DEF MissedIsLost, LeftNothing, At
  <2> QED BY <2>2, <2>3 DEF WorkerInv
<1>5. ASSUME NEW v \in Workers, NEW w \in Workers PROVE Apart(v, w)
  <2>1. worker[v].pc = "idle"
    BY <1>3, FreshState
  <2> QED BY <2>1 DEF Apart, Leased, InFlight, At
<1>6. TypeOK /\ ParkedIsOwn
  <2>1. worker \in [Workers -> WorkerState]
    BY <1>0, FreshState
  <2>2. RS!TypeOK
    BY <1>1, StoreFacts
  <2> QED BY <1>0, <1>2, <2>1, <2>2, WorkersAssumption DEF TypeOK, ParkedIsOwn
<1> QED BY <1>0, <1>1, <1>2, <1>4, <1>5, <1>6 DEF WorkersInv

\* The invariant holds in every state.
LEMMA WorkersInvariance == Spec => []WorkersInv
  BY InitInv, NextInv, PTL DEF Spec

\* The processes' state has its type, whichever of them die, stop and come back.
THEOREM WorkerTypes == Spec => []TypeOK
  BY WorkersInvariance, PTL DEF WorkersInv

\* The workers, the requests that drive their runs, the shutdowns and the reaper
\* never send the run table a statement its contract does not allow: what
\* RunStoreProofs shows for any client holds of them.
THEOREM WorkersKeepStore == Spec => KeepsStore
<1>1. Init => RS!Init
  BY InitInv
<1>2. WorkersInv /\ [Next]_vars => [RS!Next]_(RS!vars)
  <2>1. [RS!Next]_storeVars => [RS!Next]_(RS!vars)
    BY DEF storeVars, RS!vars
  <2> QED BY <2>1, NextInv DEF Refines
<1> QED BY <1>1, <1>2, WorkersInvariance, PTL DEF Spec, KeepsStore, RS!Spec

\* The same of the session leases: a turn appends and releases with a lease that
\* was granted.
THEOREM WorkersKeepLeases == Spec => KeepsLeases
<1>1. Init => SL!Init
  BY InitInv
<1>2. WorkersInv /\ [Next]_vars => [SL!Next]_(SL!vars)
  <2>1. [SL!Next]_leaseVars => [SL!Next]_(SL!vars)
    BY DEF leaseVars, SL!vars
  <2> QED BY <2>1, NextInv DEF Refines
<1> QED BY <1>1, <1>2, WorkersInvariance, PTL DEF Spec, KeepsLeases, SL!Spec

\* A turn is cancelled only when its run was taken away from it for good.
THEOREM OnlyLostTurnsAreCancelled == Spec => []CancelledIsFenced
<1>1. WorkersInv => CancelledIsFenced
  BY DEF WorkersInv, WorkerInv, MissedIsLost, CancelledIsFenced
<1> QED BY <1>1, WorkersInvariance, PTL

\* A process that exits before the backstop cuts it off leaves its run marked
\* running only if the claim had not returned, the hand-back failed, or a
\* statement failed with which the loop would have ended the run.
THEOREM ShutdownStrands == Spec => ExitStrands
<1> DEFINE Strands == \A w \in Workers :
       exit(w) /\ Owns(w) =>
         \/ At(w, "leased")
         \/ worker[w].drain = "failed"
         \/ At(w, "exited") /\ faults > 0
<1>1. WorkersInv /\ [Next]_vars => [Strands]_vars
  <2> SUFFICES ASSUME WorkersInv, NEW w \in Workers, exit(w), Owns(w),
                      ~At(w, "leased"), worker[w].drain # "failed"
               PROVE  At(w, "exited") /\ faults > 0
    OBVIOUS
  <2>1. WorkerInv(w) /\ worker \in [Workers -> WorkerState] /\ faults \in Nat
    BY WorkersAssumption DEF WorkersInv, TypeOK
  <2>2. worker[w].drain # "done"
    BY <2>1 DEF WorkerInv, LeftNothing
  <2>3. ~InFlight(w)
    BY <2>2 DEF exit, Released
  <2>4. worker[w].pc \in {"down", "idle", "claiming", "exited"}
    BY <2>1, <2>3 DEF InFlight, WorkerState, Pcs, At
  <2>5. worker[w].pc = "exited"
    BY <2>1, <2>4 DEF WorkerInv, ClaimKnown, Owns
  <2> QED BY <2>1, <2>5 DEF WorkerInv, LeftNothing, At
<1> QED BY <1>1, WorkersInvariance, PTL DEF Spec, ExitStrands

-----------------------------------------------------------------------------
(* What the processes inherit from the stores.                             *)

\* No two processes at work own runs of one session.
OneOwnerPerSession ==
  \A v, w \in Workers :
    v # w /\ Leased(v) /\ Leased(w) /\ Owns(v) /\ Owns(w) => Session(v) # Session(w)

\* However the workers and the requests interleave, no two of them own runs of
\* the same session.  A process whose run was taken away may still be in its
\* turn beside the next one's: it owns nothing, so that neither its beats nor
\* its outcome change the row (worker.ts, processRun).
THEOREM OneOwnerInProcesses == Spec => []OneOwnerPerSession
<1>1. WorkersInv => OneOwnerPerSession
  <2> SUFFICES ASSUME WorkersInv, NEW v \in Workers, NEW w \in Workers, v # w,
                      Leased(v), Leased(w), Owns(v), Owns(w), Session(v) = Session(w)
               PROVE  FALSE
    BY DEF OneOwnerPerSession
  <2>1. Run(v) \in Runs /\ Run(w) \in Runs
    BY OthersBacked DEF Owns
  <2>2. /\ runs[Run(v)].status = "running" /\ runs[Run(v)].leaseToken = Token(v)
        /\ runs[Run(w)].status = "running" /\ runs[Run(w)].leaseToken = Token(w)
    BY DEF Owns, RS!Holds
  <2>3. Run(v) = Run(w)
    BY <2>1, <2>2 DEF WorkersInv, RSP!RunStoreInv, RSP!OneRunningPerSession, Session, Run
  <2> QED BY <2>2, <2>3 DEF WorkersInv, Apart
<1> QED BY <1>1, WorkersInvariance, PTL

\* A turn that lost its session to a later one appends nothing more, also when
\* the two run in different processes.
THEOREM WorkersFenced == Spec => SL!TranscriptFenced
<1> DEFINE Step == \A s \in Sessions :
                     log'[s] # log[s] => log'[s] = granted[s] /\ log'[s] > log[s]
<1>1. SLP!LeasesInv /\ [SLP!Next]_(SLP!vars) => [Step]_(SL!vars)
  <2>1. SLP!LeasesInv /\ SLP!Next => Step
    <3> SUFFICES ASSUME SLP!LeasesInv, SLP!Next PROVE Step
      OBVIOUS
    <3>1. ASSUME NEW s \in Sessions, NEW token \in 1..granted[s], SLP!append(s, token)
          PROVE  Step
      BY <3>1 DEF SLP!append, SLP!ValidFor, SLP!LeasesInv, SLP!TypeOK, SLP!NewestGrantHolds
    <3>2. ASSUME UNCHANGED log PROVE Step
      BY <3>2
    <3> HIDE DEF Step
    <3> QED BY <3>1, <3>2 DEF SLP!Next, SLP!acquireLease, SLP!releaseLease, SLP!forceReleaseLease, SLP!Tick
  <2>2. UNCHANGED SLP!vars => UNCHANGED SL!vars
    BY DEF SLP!vars, SL!vars
  <2> HIDE DEF Step
  <2> QED BY <2>1, <2>2
<1>2. WorkersInv /\ [Next]_vars => SLP!LeasesInv /\ [SLP!Next]_(SLP!vars)
  BY NextInv, SameLeaseStep DEF Refines, WorkersInv
<1> QED BY <1>1, <1>2, WorkersInvariance, PTL DEF Spec, SL!TranscriptFenced

\* The processes are clients of the run table as RunStoreProofs has it.
LEMMA WorkersAreClients == Spec => RSP!Spec
<1>1. Init => RSP!Init
  <2>1. Init => RS!Init
    BY InitInv
  <2>2. RS!Init => RSP!Init
    BY DEF RS!Init, RSP!Init, RS!NoRow, RSP!NoRow, RS!NoToken, RSP!NoToken
  <2> QED BY <2>1, <2>2
<1>2. WorkersInv /\ [Next]_vars => [RSP!Next]_(RSP!vars)
  BY NextInv, SameStoreStep DEF Refines
<1> QED BY <1>1, <1>2, WorkersInvariance, PTL DEF Spec, RSP!Spec

\* The processes keep what the run table promises its callers: a run is accepted,
\* worked on, handed back or ended as RunContract allows, and ends once.
THEOREM WorkersKeepContract == Spec => RSP!KeepsContract
<1>1. RSP!Spec => RSP!KeepsContract
  BY RSP!Refinement, StoreAssumptions
<1> QED BY <1>1, WorkersAreClients, PTL

\* The reaper's sweeps, however slow, spare the run of a worker or of a shutdown
\* that has renewed the lease since the sweep read it.
THEOREM WorkersSparedByReaper == Spec => SweepSparesRenewed
<1> DEFINE Spares == \A e \in retiring : e.reap /\ e.renewed => ~RS!retire(e)
           SparesP == \A e \in retiring : e.reap /\ e.renewed => ~RSP!retire(e)
<1>1. RSP!Spec => RSP!SweepSparesRenewed
  BY RSP!SlowSweepsSpareRenewed, StoreAssumptions
<1>2. [SparesP]_(RSP!vars) => [Spares]_(RS!vars)
  BY SameRetirement DEF RSP!vars, RS!vars
<1> HIDE DEF Spares, SparesP
<1>3. [][SparesP]_(RSP!vars) => [][Spares]_(RS!vars)
  BY <1>2, PTL
<1>4. RSP!SweepSparesRenewed => [][SparesP]_(RSP!vars)
  BY DEF RSP!SweepSparesRenewed, SparesP
<1>5. [][Spares]_(RS!vars) => SweepSparesRenewed
  BY DEF SweepSparesRenewed, RS!SweepSparesRenewed, Spares
<1> QED BY <1>1, <1>3, <1>4, <1>5, WorkersAreClients, PTL
=============================================================================
