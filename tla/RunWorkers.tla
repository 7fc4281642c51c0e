----------------------------- MODULE RunWorkers -----------------------------
(***************************************************************************)
(* The processes that work the queue: the worker loop and the turn it runs *)
(* (runs/worker.ts, and the turn's session lease in core/orchestrator.ts), *)
(* the inline execution of a run by the request that enqueued it           *)
(* (drive() in api/app-helpers.ts), the hand-back on shutdown, and the     *)
(* reaper (runs/reaper.ts), over the run table and the session leases.     *)
(*                                                                         *)
(* Every statement a process sends to a store is an action of RunStore or  *)
(* of SessionLeases; what this module adds is which process sends which    *)
(* statement when, what it remembers in between, and how it dies.          *)
(*                                                                         *)
(* A fault is the loss of a process or a store call that throws.  Faults   *)
(* and shutdowns are bounded; when they happen is not.                     *)
(***************************************************************************)
EXTENDS Integers, FiniteSets

CONSTANTS
  Runs, Sessions, SessionOf, Keys, NoKey, KeyOf, MaxAttempts, MaxClaims,
  LeaseTtl, MaxWait, MaxReleases, MaxRetiring,  \* as in RunStore
  SessionTtl, MaxGrants,                        \* as in SessionLeases
  Workers,               \* the processes that execute runs
  Inline,                \* those of them that are requests driving their run
  NoRun,                 \* no run
  LeaseLostConsecutive,  \* missed heartbeats after which a turn is cancelled
  MaxFaults,             \* bound: process losses and store errors
  MaxStops               \* bound: graceful shutdowns

VARIABLES
  runs, claiming, retiring, toSettle, settled, stamp,  \* RunStore
  leases, granted, log,                                \* SessionLeases
  worker,   \* what each process is doing
  reaper,   \* what the reaper is doing
  faults,   \* faults so far
  stops,    \* shutdowns so far
  heldFor   \* history: the run whose turn took the session's newest lease

RS == INSTANCE RunStore
SL == INSTANCE SessionLeases

ASSUME WorkersAssumption ==
  /\ RS!RunsAssumption /\ RS!BudgetAssumption /\ SL!SessionTtlAssumption
  /\ Inline \subseteq Workers
  /\ NoRun \notin Runs
  /\ LeaseLostConsecutive \in Nat \ {0}
  /\ MaxFaults \in Nat
  /\ MaxStops \in Nat

storeVars == <<runs, claiming, retiring, toSettle, settled, stamp>>
leaseVars == <<leases, granted, log>>
vars == <<storeVars, leaseVars, worker, reaper, faults, stops, heldFor>>

Pcs == {"down", "idle", "claiming", "leased", "resolving", "turn", "completing",
        "settling", "failing", "retiring", "exited"}

Drains == {"no", "unlock", "handback", "done", "failed"}

\* pc: where the loop is; run and token: what it claimed; lease: the turn's
\* session lease; lost: consecutiveLost; retry: whether fail() may retry;
\* stopped: stop() was called; drain: how far releaseInFlight() is.
WorkerState ==
  [pc: Pcs, run: Runs \cup {NoRun}, token: Nat, lease: Nat, lost: 0..LeaseLostConsecutive,
   retry: BOOLEAN, stopped: BOOLEAN, drain: Drains]

Fresh == [pc |-> "idle", run |-> NoRun, token |-> 0, lease |-> 0, lost |-> 0,
          retry |-> TRUE, stopped |-> FALSE, drain |-> "no"]

Down == [Fresh EXCEPT !.pc = "down"]

Init ==
  /\ RS!Init
  /\ SL!Init
  /\ worker = [w \in Workers |-> Fresh]
  /\ reaper = [retired |-> {}, parked |-> NoRun, dead |-> FALSE]
  /\ faults = 0
  /\ stops = 0
  /\ heldFor = [s \in Sessions |-> NoRun]

Run(w) == worker[w].run
Token(w) == worker[w].token
Session(w) == SessionOf[worker[w].run]

At(w, pc) == worker[w].pc = pc

Goto(w, pc) == worker' = [worker EXCEPT ![w].pc = pc]

\* The loop goes round, or ends if the worker was stopped, in which case the
\* shutdown may still be handing the run back.  A request that drove its run is
\* over, and the next one takes its place.
EndOfRun(w) ==
  worker' = [worker EXCEPT ![w] =
               IF @.stopped THEN [@ EXCEPT !.pc = "exited", !.retry = TRUE] ELSE Fresh]

\* processRun() is under way: inFlight is set.
InFlight(w) ==
  worker[w].pc \in {"resolving", "turn", "completing", "settling", "failing", "retiring"}

Fault == faults < MaxFaults /\ faults' = faults + 1

\* The rest of the state, for actions of a process that touch one store or none.
StoreOnly == UNCHANGED <<leaseVars, reaper, stops, heldFor>>
LeaseOnly == UNCHANGED <<storeVars, reaper, stops>>

-----------------------------------------------------------------------------
(* Claiming.                                                               *)

\* A request, a schedule or a webhook enqueues a run.
enqueue(r) ==
  /\ RS!enqueue(r)
  /\ StoreOnly
  /\ UNCHANGED <<worker, faults>>

Claiming(w, r) == worker' = [worker EXCEPT ![w].pc = "claiming", ![w].run = r]

\* The loop asks for the next run.
claim(w) ==
  /\ w \notin Inline /\ At(w, "idle")
  /\ \E r \in Runs : RS!claim(r) /\ Claiming(w, r)
  /\ StoreOnly
  /\ UNCHANGED faults

\* drive(): a request asks for the run it enqueued.  If it does not get it, it
\* waits for whoever does.
claimById(w) ==
  /\ w \in Inline /\ At(w, "idle")
  /\ \E r \in Runs : RS!claimById(r) /\ Claiming(w, r)
  /\ StoreOnly
  /\ UNCHANGED faults

leased(w) ==
  /\ At(w, "claiming")
  /\ RS!lease(Run(w))
  /\ worker' = [worker EXCEPT ![w].pc = "leased", ![w].token = runs[Run(w)].attempts + 1]
  /\ StoreOnly
  /\ UNCHANGED faults

\* Mutant of claimRefused: the error ends the loop.
claimRefusedFatal(w) ==
  /\ At(w, "claiming")
  /\ \/ RS!SessionRunning(Session(w)) /\ UNCHANGED faults
     \/ Fault
  /\ RS!claimRefused(Run(w))
  /\ Goto(w, "exited")
  /\ StoreOnly

\* Another run of the session got in first, or the statement failed.
claimRefused(w) ==
  /\ At(w, "claiming")
  /\ \/ RS!SessionRunning(Session(w)) /\ UNCHANGED faults
     \/ Fault
  /\ RS!claimRefused(Run(w))
  /\ EndOfRun(w)
  /\ StoreOnly

\* The claim returns.  A worker stopped meanwhile hands the run back at once;
\* an error of that call is swallowed.
claimed(w) ==
  /\ At(w, "leased")
  /\ \/ /\ ~worker[w].stopped
        /\ Goto(w, "resolving")
        /\ UNCHANGED <<storeVars, faults>>
     \/ /\ worker[w].stopped
        /\ IF RS!Holds(Run(w), Token(w)) THEN RS!releaseLease(Run(w), Token(w))
                                         ELSE UNCHANGED storeVars
        /\ EndOfRun(w)
        /\ UNCHANGED faults
     \/ /\ worker[w].stopped
        /\ Fault
        /\ EndOfRun(w)
        /\ UNCHANGED storeVars
  /\ StoreOnly

-----------------------------------------------------------------------------
(* The turn.                                                               *)

\* Mutant of Beating: the timer is not cleared.
BeatingOn(w) == worker[w].pc \in {"resolving", "turn"}

\* The timer of processRun() runs during the turn, until the lease is known to
\* be lost.
Beating(w) ==
  /\ worker[w].pc \in {"resolving", "turn"}
  /\ worker[w].lost < LeaseLostConsecutive

\* Mutant of Missed: the count starts over with every beat.
MissedOnce(lost) == 1

\* consecutiveLost after a beat that found the run taken away,
Missed(lost) == lost + 1

\* Mutant of Thrown: a beat that throws counts as a miss.
ThrownIsMissed(lost) == lost + 1

\* and after one that threw: an error says nothing about the lease.
Thrown(lost) == 0

heartbeat(w) ==
  /\ Beating(w)
  /\ \/ /\ RS!heartbeat(Run(w), Token(w))
        /\ worker' = [worker EXCEPT ![w].lost = 0]
        /\ UNCHANGED faults
     \/ /\ ~RS!Holds(Run(w), Token(w))
        /\ worker' = [worker EXCEPT ![w].lost = Missed(@)]
        /\ UNCHANGED <<storeVars, faults>>
     \/ /\ Fault
        /\ worker' = [worker EXCEPT ![w].lost = Thrown(@)]
        /\ UNCHANGED storeVars
  /\ StoreOnly

\* cancel.abort() has been called.
Cancelled(w) == worker[w].lost = LeaseLostConsecutive

acquireLease(w) ==
  /\ At(w, "resolving")
  /\ SL!acquireLease(Session(w))
  /\ worker' = [worker EXCEPT ![w].pc = "turn", ![w].lease = granted[Session(w)] + 1]
  /\ heldFor' = [heldFor EXCEPT ![Session(w)] = Run(w)]
  /\ LeaseOnly
  /\ UNCHANGED faults

\* The turn is over: its timer is cleared and its result recorded.
Returns(w) ==
  worker' = [worker EXCEPT ![w].pc = "completing", ![w].lease = 0, ![w].lost = 0]

Throws(w, retry) ==
  worker' = [worker EXCEPT ![w].pc = "failing", ![w].retry = retry,
                           ![w].lease = 0, ![w].lost = 0]

\* "session busy": the turn is refused, and the run completed with that result.
refused(w) ==
  /\ At(w, "resolving")
  /\ ~SL!Acquirable(Session(w))
  /\ Returns(w)
  /\ UNCHANGED <<leaseVars, heldFor, faults>>
  /\ LeaseOnly

\* The turn throws before it has the session.
resolveThrows(w) ==
  /\ At(w, "resolving")
  /\ \E retry \in BOOLEAN : Throws(w, retry)
  /\ UNCHANGED <<leaseVars, heldFor, faults>>
  /\ LeaseOnly

\* Mutant of append: the transcript is written without asking for the lease.
appendUnfenced(w) ==
  /\ At(w, "turn")
  /\ log' = [log EXCEPT ![Session(w)] = worker[w].lease]
  /\ UNCHANGED <<leases, granted, worker, heldFor, faults>>
  /\ LeaseOnly

append(w) ==
  /\ At(w, "turn")
  /\ SL!append(Session(w), worker[w].lease)
  /\ UNCHANGED <<worker, heldFor, faults>>
  /\ LeaseOnly

\* The session was taken away: the append throws.
appendThrows(w) ==
  /\ At(w, "turn")
  /\ ~SL!ValidFor(Session(w), worker[w].lease)
  /\ Throws(w, TRUE)
  /\ UNCHANGED <<leaseVars, heldFor, faults>>
  /\ LeaseOnly

\* The turn returns or throws, by itself or because it was cancelled; either
\* way the `finally' block gives the session back.
turnEnds(w) ==
  /\ At(w, "turn")
  /\ Returns(w) \/ \E retry \in BOOLEAN : Throws(w, retry)
  /\ IF SL!ValidFor(Session(w), worker[w].lease)
     THEN SL!releaseLease(Session(w), worker[w].lease)
     ELSE UNCHANGED leaseVars
  /\ UNCHANGED <<heldFor, faults>>
  /\ LeaseOnly

\* Giving the session back throws, which replaces the turn's outcome.
releaseThrows(w) ==
  /\ At(w, "turn")
  /\ Fault
  /\ Throws(w, TRUE)
  /\ UNCHANGED <<leaseVars, heldFor>>
  /\ LeaseOnly

-----------------------------------------------------------------------------
(* The outcome.                                                            *)

\* Mutant of complete: the listeners are called whether or not a row changed.
completeAnyway(w) ==
  /\ At(w, "completing")
  /\ \/ RS!complete(Run(w), Token(w))
     \/ /\ runs[Run(w)].leaseToken # Token(w)
        /\ toSettle' = toSettle \cup {Run(w)}
        /\ UNCHANGED <<runs, claiming, retiring, settled, stamp>>
  /\ Goto(w, "settling")
  /\ StoreOnly
  /\ UNCHANGED faults

complete(w) ==
  /\ At(w, "completing")
  /\ \/ /\ RS!complete(Run(w), Token(w))
        /\ Goto(w, "settling")
        /\ UNCHANGED faults
     \/ /\ runs[Run(w)].leaseToken # Token(w)
        /\ EndOfRun(w)
        /\ UNCHANGED <<storeVars, faults>>
     \/ /\ Fault
        /\ Throws(w, TRUE)
        /\ UNCHANGED storeVars
  /\ StoreOnly

\* The row is read again and the listeners are called, unless that throws.  (The
\* fail() that follows then finds another token and changes nothing.)
settle(w) ==
  /\ At(w, "settling")
  /\ \/ RS!settle(Run(w)) /\ UNCHANGED faults
     \/ RS!settleLost(Run(w)) /\ Fault
  /\ EndOfRun(w)
  /\ StoreOnly

\* fail() reads the row; a throw is swallowed by the loop.
fail(w) ==
  /\ At(w, "failing")
  /\ \/ /\ RS!fail(Run(w), Token(w), worker[w].retry)
        /\ Goto(w, "retiring")
        /\ UNCHANGED faults
     \/ /\ runs[Run(w)].leaseToken # Token(w)
        /\ EndOfRun(w)
        /\ UNCHANGED <<storeVars, faults>>
     \/ /\ Fault
        /\ EndOfRun(w)
        /\ UNCHANGED storeVars
  /\ StoreOnly

OwnRetirement(w) ==
  CHOOSE e \in retiring : e.run = Run(w) /\ e.token = Token(w) /\ ~e.reap

\* Mutant of retire: a parked run is not announced.
retireSilently(w) ==
  /\ At(w, "retiring")
  /\ LET e == OwnRetirement(w) IN IF RS!RetireApplies(e) THEN RS!retire(e) ELSE RS!retireMisses(e)
  /\ EndOfRun(w)
  /\ StoreOnly
  /\ UNCHANGED faults

\* fail() writes what it decided.
retire(w) ==
  /\ At(w, "retiring")
  /\ LET e == OwnRetirement(w) IN
       \/ /\ RS!retire(e)
          /\ IF RS!Requeues(e) THEN EndOfRun(w) ELSE Goto(w, "settling")
          /\ UNCHANGED faults
       \/ /\ RS!retireMisses(e)
          /\ EndOfRun(w)
          /\ \/ ~RS!RetireApplies(e) /\ UNCHANGED faults
             \/ Fault
  /\ StoreOnly

-----------------------------------------------------------------------------
(* Shutdown and crash.                                                     *)

\* stop(): an idle loop ends at its next look at the flag.
stop(w) ==
  /\ w \notin Inline
  /\ worker[w].pc \notin {"down", "exited"} /\ ~worker[w].stopped
  /\ stops < MaxStops
  /\ stops' = stops + 1
  /\ worker' = [worker EXCEPT ![w].stopped = TRUE,
                              ![w].pc = IF @ = "idle" THEN "exited" ELSE @]
  /\ UNCHANGED <<storeVars, leaseVars, reaper, faults, heldFor>>

\* releaseInFlight(), once the drain budget is spent, and again for the backstop
\* if it failed: a heartbeat tells whether the run is still this worker's.  The
\* turn goes on meanwhile.
releaseInFlight(w) ==
  /\ worker[w].stopped /\ worker[w].drain \in {"no", "failed"} /\ InFlight(w)
  /\ \/ /\ RS!heartbeat(Run(w), Token(w))
        /\ worker' = [worker EXCEPT ![w].drain = "unlock"]
     \/ /\ ~RS!Holds(Run(w), Token(w))
        /\ worker' = [worker EXCEPT ![w].drain = "done"]
        /\ UNCHANGED storeVars
  /\ StoreOnly
  /\ UNCHANGED faults

\* Its second step: the session is unlocked.
drainUnlock(w) ==
  /\ worker[w].drain = "unlock"
  /\ SL!forceReleaseLease(Session(w))
  /\ worker' = [worker EXCEPT ![w].drain = "handback"]
  /\ LeaseOnly
  /\ UNCHANGED <<heldFor, faults>>

\* Its third: the run goes back to the queue.
handBack(w) ==
  /\ worker[w].drain = "handback"
  /\ worker' = [worker EXCEPT ![w].drain = "done"]
  /\ IF RS!Holds(Run(w), Token(w)) THEN RS!releaseLease(Run(w), Token(w))
                                   ELSE UNCHANGED storeVars
  /\ StoreOnly
  /\ UNCHANGED faults

\* Any of them throws; releaseInFlight() swallows it, and the run stays in flight.
drainThrows(w) ==
  /\ worker[w].stopped
  /\ \/ worker[w].drain \in {"no", "failed"} /\ InFlight(w)
     \/ worker[w].drain \in {"unlock", "handback"}
  /\ Fault
  /\ worker' = [worker EXCEPT ![w].drain = "failed"]
  /\ UNCHANGED storeVars
  /\ StoreOnly

\* A process dies: the database rolls an open claim back, a fail() or a settle()
\* under way goes no further.
Die(w) ==
  /\ worker' = [worker EXCEPT ![w] = Down]
  /\ CASE At(w, "claiming") -> RS!claimRefused(Run(w))
       [] At(w, "retiring") -> RS!retireMisses(OwnRetirement(w))
       [] At(w, "settling") -> RS!settleLost(Run(w))
       [] OTHER -> UNCHANGED storeVars
  /\ StoreOnly

crash(w) ==
  /\ ~At(w, "down")
  /\ Fault
  /\ Die(w)

\* Mutant of exit: the shutdown does not wait for releaseInFlight().
exitAtOnce(w) ==
  /\ worker[w].stopped
  /\ Die(w)
  /\ UNCHANGED faults

\* The calls of releaseInFlight() have returned.  With no run in flight there is
\* nothing to release, and a claim that has not returned yet is not in flight.
Released(w) ==
  \/ worker[w].drain \in {"done", "failed"}
  \/ worker[w].drain = "no" /\ ~InFlight(w)

\* process.exit() at the end of a shutdown, whatever the turn is doing.
exit(w) ==
  /\ worker[w].stopped /\ Released(w)
  /\ Die(w)
  /\ UNCHANGED faults

\* The backstop's limit: process.exit() with the hand-back unfinished.
forcedExit(w) ==
  /\ worker[w].stopped /\ ~Released(w)
  /\ Die(w)
  /\ UNCHANGED faults

restart(w) ==
  /\ At(w, "down")
  /\ worker' = [worker EXCEPT ![w] = Fresh]
  /\ StoreOnly
  /\ UNCHANGED <<storeVars, faults>>

-----------------------------------------------------------------------------
(* The reaper.  One sweep runs at a time, under the leader lease.          *)

Swept == {e \in retiring : e.reap}

SweepUnderWay == Swept # {} \/ reaper # [retired |-> {}, parked |-> NoRun, dead |-> FALSE]

sweep ==
  /\ ~SweepUnderWay
  /\ RS!reapExpired
  /\ UNCHANGED <<leaseVars, worker, reaper, faults, stops, heldFor>>

\* The loop over the lapsed runs.
sweepRetire ==
  /\ ~reaper.dead /\ reaper.parked = NoRun
  /\ \E e \in Swept :
       \/ /\ RS!retire(e)
          /\ reaper' = [reaper EXCEPT !.retired = @ \cup {SessionOf[e.run]},
                                      !.parked = IF RS!Requeues(e) THEN NoRun ELSE e.run]
       \/ /\ ~RS!RetireApplies(e)
          /\ RS!retireMisses(e)
          /\ UNCHANGED reaper
  /\ UNCHANGED <<leaseVars, worker, faults, stops, heldFor>>

\* settle() of a run the sweep parked.
sweepSettle ==
  /\ reaper.parked # NoRun
  /\ RS!settle(reaper.parked)
  /\ reaper' = [reaper EXCEPT !.parked = NoRun]
  /\ UNCHANGED <<leaseVars, worker, faults, stops, heldFor>>

\* releaseStrandedSessionLeases(), after the last of the runs.
sweepUnlock(s) ==
  /\ Swept = {} /\ reaper.parked = NoRun
  /\ s \in reaper.retired
  /\ SL!forceReleaseLease(s)
  /\ reaper' = [reaper EXCEPT !.retired = @ \ {s}]
  /\ UNCHANGED <<storeVars, worker, faults, stops, heldFor>>

\* The sweep's process dies or one of its statements throws: nothing that was
\* left to do is done, the unlocking included.
sweepDies ==
  /\ SweepUnderWay /\ ~reaper.dead
  /\ Fault
  /\ IF reaper.parked # NoRun THEN RS!settleLost(reaper.parked) ELSE UNCHANGED storeVars
  /\ reaper' = [retired |-> {}, parked |-> NoRun, dead |-> Swept # {}]
  /\ UNCHANGED <<leaseVars, worker, stops, heldFor>>

\* What a dead sweep had read is gone.
sweepForgotten ==
  /\ reaper.dead
  /\ \E e \in Swept : RS!retireMisses(e) /\ reaper' = [reaper EXCEPT !.dead = Swept # {e}]
  /\ UNCHANGED <<leaseVars, worker, faults, stops, heldFor>>

-----------------------------------------------------------------------------
Tick ==
  /\ RS!Tick
  /\ SL!Tick
  /\ UNCHANGED <<worker, reaper, faults, stops, heldFor>>

Claim(w) == leased(w) \/ claimRefused(w) \/ claimed(w)

Start(w) == acquireLease(w) \/ refused(w) \/ resolveThrows(w)

Turn(w) == append(w) \/ appendThrows(w) \/ turnEnds(w) \/ releaseThrows(w)

Outcome(w) == complete(w) \/ settle(w) \/ fail(w) \/ retire(w)

Shutdown(w) ==
  releaseInFlight(w) \/ drainUnlock(w) \/ handBack(w) \/ drainThrows(w) \/ exit(w) \/ forcedExit(w)

Reaper ==
  \/ sweep \/ sweepRetire \/ sweepSettle \/ sweepDies \/ sweepForgotten
  \/ \E s \in Sessions : sweepUnlock(s)

Next ==
  \/ \E r \in Runs : enqueue(r)
  \/ \E w \in Workers :
       \/ claim(w) \/ claimById(w) \/ Claim(w) \/ heartbeat(w) \/ Start(w) \/ Turn(w) \/ Outcome(w)
       \/ stop(w) \/ Shutdown(w) \/ crash(w) \/ restart(w)
  \/ Reaper
  \/ Tick

Spec == Init /\ [][Next]_vars

\* A process that is up goes on executing, a process manager restarts one that
\* is down, the timers fire, and time passes.
Fairness ==
  /\ \A w \in Workers :
       /\ WF_vars(Claim(w))
       /\ WF_vars(heartbeat(w))
       /\ WF_vars(Start(w))
       /\ WF_vars(Outcome(w))
       /\ WF_vars(Shutdown(w))
       /\ WF_vars(restart(w))
       /\ WF_vars(turnEnds(w) /\ Cancelled(w))
  /\ \A w \in Workers : WF_vars(claim(w))
  /\ WF_vars(Reaper)
  /\ WF_vars(Tick)

\* Turns may hang; a cancelled one ends.
HangSpec == Spec /\ Fairness

\* Turns end: the harness bounds them.
LiveSpec == HangSpec /\ \A w \in Workers : WF_vars(turnEnds(w))

-----------------------------------------------------------------------------
(* Properties.                                                             *)

\* The run that process w claimed is still its own.
Owns(w) == Token(w) # 0 /\ RS!Holds(Run(w), Token(w))

TypeOK ==
  /\ RS!TypeOK
  /\ SL!TypeOK
  /\ worker \in [Workers -> WorkerState]
  /\ reaper \in [retired: SUBSET Sessions, parked: Runs \cup {NoRun}, dead: BOOLEAN]
  /\ faults \in 0..MaxFaults
  /\ stops \in 0..MaxStops
  /\ heldFor \in [Sessions -> Runs \cup {NoRun}]

\* The processes use the stores as their contracts allow: what is shown of the
\* run table and of the session leases for any client holds under these.
KeepsStore == RS!Spec
KeepsLeases == SL!Spec

\* A turn is cancelled only if its run is lost for good: a missed beat is never
\* counted while, and never before, the worker's token opens the row.
CancelledIsFenced ==
  \A w \in Workers : worker[w].lost > 0 => ~Owns(w)

\* A process that exits before the backstop cuts it off leaves a run of its own
\* marked running in three cases only: the claim had not returned yet, so that
\* nobody knew of it; the hand-back failed and was not repeated; or a statement
\* failed with which the loop would have ended the run.  Whatever the turn does
\* between the steps of releaseInFlight(), a hand-back that went through leaves
\* nothing behind.
ExitStrands ==
  [][\A w \in Workers :
       exit(w) /\ Owns(w) =>
         \/ At(w, "leased")
         \/ worker[w].drain = "failed"
         \/ At(w, "exited") /\ faults > 0]_vars

\* As in RunStore: no sweep of the reaper, however slow, takes a run from a
\* worker or a shutdown that has renewed its lease since the sweep read it.
SweepSparesRenewed == RS!SweepSparesRenewed

\* Every enqueued run ends, whichever process dies or is shut down when.
EveryRunEnds ==
  \A r \in Runs : runs[r].status = "pending" ~> RS!isTerminal(runs[r].status)

\* A session is never locked for good: a lease that its turn did not give back
\* is released by the reaper or expires.
SessionsUnlock ==
  \A s \in Sessions : ~SL!Acquirable(s) ~> SL!Acquirable(s)

\* The listeners of a run that ended are called, unless a process went down or a
\* statement failed; even then no call stays outstanding.
EndIsAnnounced ==
  \A r \in Runs :
    RS!isTerminal(runs[r].status) ~> (r \in settled \/ (r \notin toSettle /\ faults + stops > 0))

\* A turn that hangs after its run was taken away from it does not go on for
\* good: the heartbeats find out and cancel it.
LostTurnStops ==
  \A w \in Workers, r \in Runs, n \in 1..(MaxClaims + MaxReleases) :
    LET working == At(w, "turn") /\ Run(w) = r /\ Token(w) = n /\ ~RS!Holds(r, n) IN
    working ~> ~working

\* A retry is not refused because of the lease that an earlier attempt at the
\* same run left behind.
RetryCanReacquire ==
  [][\A w \in Workers : refused(w) => heldFor[Session(w)] # Run(w)]_vars

\* A shutdown does not take away the session lease of another process's turn.
HandBackSparesOthers ==
  [][\A v, w \in Workers :
       /\ v # w
       /\ drainUnlock(v)
       /\ At(w, "turn") /\ Session(w) = Session(v) /\ SL!ValidFor(Session(w), worker[w].lease)
       => ~Owns(w)]_vars
=============================================================================
