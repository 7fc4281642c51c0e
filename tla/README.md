# TLA+ models of the run queue, its schedules and its deliveries

This directory holds TLA+ specifications of the part of the system that decides
which turn of which conversation runs where, what happens when the process running
it stalls, crashes or is shut down, how a user's message reaches a turn that is
already under way, how scheduled jobs fire, how a long transcript is summarised while
turns go on, and how an answer reaches the user. The specifications are translated
from the TypeScript sources in `src/`; the TLC configurations check them on small
instances, and TLAPS proves the main results for every size.

## 1. The system

A message, a schedule or a webhook becomes a *run*, a row of a durable queue. A run
belongs to a *session* (a conversation thread). Workers, or the HTTP request itself,
claim runs under a lease, execute a *turn* (a call of the orchestrator, which holds a
second lease on the session while it writes the transcript), and record the outcome.
A reaper retires runs whose lease lapsed. While a turn runs, further messages of the
user are stored as *signals* for it.

| component | state | operations | hard because |
|---|---|---|---|
| run store (`runs/*-run-store.ts`) | `runs` table; terminal listeners | enqueue, claim, claimById, heartbeat, releaseLease, complete, fail, reapExpired, settle | statements of many processes interleave; fail and the sweep decide on rows read earlier; leases lapse while their holders live |
| session store (`sessions/`) | session lease, transcript | acquireLease, append, releaseLease, forceReleaseLease | stale turns keep writing; two callers unlock without a token |
| workers (`runs/worker.ts`, `drive()` in `api/app-helpers.ts`) | claimed run, missed beats, drain state | loop, processRun, stop, releaseInFlight | timer, turn and shutdown interleave in one process; crash anywhere |
| reaper (`runs/reaper.ts`) | the batch it read, the sessions to unlock | sweep | slow sweeps, errors half way |
| run signals (`runs/run-signal-store.ts`, `signalRun()`, `replayOrphanedRunSignals()`) | stored and consumed signals | send, takePending, drain, stop, replay, sweep | up to five takers race with the end of the run |
| context compaction (`core/orchestrator/compaction.ts`) | pending flag and queue of each process; the summaries in the transcript | compactContextIfNeeded, scheduleBackgroundCompaction, writeCompaction | planned on a snapshot without a lease, written after others wrote |
| cron scheduler (`cron/`) | jobs with next and last fire time; the queue | claimSlot, fire, unclaimSlot, markFired, reconcile, tick | crash between claim and fire; edits meanwhile; processes in two modes |
| idempotency store | committed keys | once | effect before record |
| delivery outbox (`delivery/`, `slack/deliveries.ts`, `slack/core-bridge.ts`) | deliveries with claims; a tracker per process; pinned runs | enqueue, claim, post, ack | post and ack are two steps; recovery copy races with the inline post |
| leader lease (`persistence/leader-lease.ts`) | advisory locks on a connection | hold | connection lost under a leader |
| deploy drain (`runs/drain.ts`) | superseded, protection flag | sweep, noteBusy | flag read before an await |

Interaction: the workers call the run store and, inside a turn, the session store;
the reaper calls both; the run store's terminal listeners (`wiring.ts`) start the
replay of signals, the recovery delivery and the session state events; the signal
poll runs inside a turn and reads the signal store; compaction takes the session lease
like a turn; a fire runs its trigger under once(), keyed by its slot. Everything else that the
repository holds (surfaces, harnesses, sandboxes, credentials, memory, skills,
deployments) is listed in `PROJECT.json` with the reason why it is not modelled.

What makes each part correct:

* run store: one running run per session, fencing of stale holders, exact budgets,
  terminal runs immutable and announced at most once, nobody reaped by a sweep who
  has renewed the lease since that sweep looked;
* session leases: the transcript is written by one turn at a time, by the newest;
* workers and reaper: every run ends, sessions unlock, a turn that lost its run
  stops; a shutdown leaves a run marked running only when a claim was on its way, a
  call failed or the process was forced to exit, and then the reaper gets it;
* signals: nothing delivered twice, nothing stranded, order kept;
* compaction: no summary hides more recent work behind an older one, no request is
  swallowed;
* scheduler: in a steady deployment a slot fires once and no two fires are closer than
  the interval, but for the failures named in section 3; every due slot fires unless it
  is given up in one of the ways the code knows;
* outbox: an answer arrives, is called delivered only if it was shown or its reply is on
  the way, and is shown twice only when one of the failures or delays listed in section 3
  came in between.

## 2. The modules

| module | models |
|---|---|
| `RunContract` | the abstract specification: what the queue promises, without leases, tokens, clocks or retries |
| `RunStore` | the Postgres run store, one action per statement |
| `SessionLeases` | the session lease and the fenced transcript |
| `RunWorkers` | worker loop, inline request, turn, shutdown, crash and reaper over an instance of each of the two stores |
| `RunSignals` | signalRun(), the signal poll, the replays and the sweeper |
| `Compaction` | a turn's and the background's compaction as further clients of `SessionLeases`, which it extends |
| `CronSchedule` | scheduler, cron store, job queue, tick lease and once() |
| `Outbox` | delivery store, recovery copy, pollers with their trackers, and the handler that posts a turn's answer |
| `RunStoreProofs`, `SessionLeasesProofs`, `CompactionProofs`, `RunWorkersProofs`, `RunSignalsProofs`, `CronScheduleProofs`, `OutboxProofs` | theorems about the module of that name |
| `MC*` | instances for TLC |

**RunStore.** `runs` is the table; a row keeps the columns that decide anything
(status, attempts, errorAttempts, leaseToken, lease expiry, createdAt) and a history
counter of hand-backs. A claim is two steps, the sub-SELECT that locks a row
(`claim`, `claimById`) and the UPDATE (`lease`), because the snapshot and the SKIP
LOCKED of the one and the unique index of the other let concurrent claims see
different things. `fail` and `reapExpired` put what they read into `retiring`;
`retire` is the UPDATE that follows. The terminal UPDATE and the call of the
listeners are separate (`toSettle`, `settle`). Clients are most general: any token
ever handed out may be used at any time. Tokens are UUIDs in the code and compared
within a row only; here the n-th claim of a run has token n. Time is relative to the
expiry of a lease; a sweep's entry counts the ticks since its SELECT, which is the
`ifExpiredAt` of the code, and remembers (`renewed`, history) whether the lease it read
was renewed since. `RunContract`'s actions are the memory store's operations,
which run in one step each, without the lease.

**SessionLeases.** `leases` is the lease table, `log` the grant that wrote the newest
transcript entry, `granted` numbers the grants. `append` stands for append() and
appendTape(), one transaction under a row lock each.

**RunWorkers.** Every store statement is an action of an INSTANCE of the store
modules; that the composition is a behaviour of each store is itself checked and
proved (`KeepsStore`, `KeepsLeases`), so what is proved of the stores holds in it. `worker`
holds what a process remembers between statements. The heartbeat timer runs
alongside the turn, and releaseInFlight() alongside both. A turn may append, return,
throw, be refused as busy, hang, or lose its session. A hand-back that throws leaves the
run in flight and may be repeated, as the backstop of the shutdown does; the process
exits once the calls returned (`exit`) or, at the backstop's limit, with the hand-back
unfinished (`forcedExit`). `heldFor` is a history variable.

**RunSignals.** One run, several attempts at it. `stored` is the table and
`taken` how many of its rows, always the oldest ones, are consumed;
`poll` has the variables of startSignalPoll(); `replay` has one entry for each caller
of replayOrphanedRunSignals(). A replay submits the steer as a turn, which becomes a run
or, if the thread has a live run again, a signal to that one; a replay that throws or is
refused loses the steer and counts as a fault. `delivered`, `replayed`, `lost` and `ignored` record
where a signal ended.

**Compaction.** Extends SessionLeases; every step that touches a lease is an action of
that module, so the other clients (`leaseStep`, `work`) remain the general ones. An
entry of `transcript` is 0, or the number of the entry a summary reaches up to. A
`jobs` entry is one compaction: a turn's goes from its plan to the write under the
turn's lease, a background one reads and plans without a lease (`read`; `readFails` when
the session or its entries cannot be read), waits for one
(`acquireLeaseWithin`), looks for summaries written since its snapshot (`check`) and
writes. `writeCompaction` and `appendTape` throw or skip when the lease is gone. The
token counts that decide whether and how far to summarise are any outcome.

**CronSchedule.** `crons` is the durable map, `jobs` the queue, `committed` the
recorded keys, `lease` the tick lease. `fires` has one entry per fire under way, with
what it read when it started (`seen`, `slot`, `at`), and one step per await. A process
whose queue started claims slots (`fireJob`, `claimSlot`, `unclaimSlot`,
`enqueueNext`); one whose queue did not ticks under the lease (`tick`, `fireDue`,
`markFired`, `endTick`); `Modes` lets both kinds of process coexist, which the lease
guard is for. A fire can throw in its action, in recording its key or, the key recorded,
in recordFire() or setEnabled(); its slot is then given back. A job that comes before its
slot is enqueued again by the code; with the common clock assumed here the queue never
hands one out early, and the branch is left out. The variables `done`, `twice`, `unsure`,
`undone`, `owed`, `claims` and `upset` are history: `unsure` are the slots carried out
whose key could not be recorded, `undone` those given back although it was. `Steady` says
when the first two safety properties are claimed: no edits, no lost lease, one mode, and
no two slots of a job claimed at the same instant.

**Outbox.** A key is one message. Its run ends, `announce` enqueues the recovery copy
(the terminal listener), the handler that waited for the run posts the answer itself
and acknowledges the copy by key, in the order its kind has, and the pollers of all
processes claim, verify, post and acknowledge what is left. There are five kinds: replies
and refusals, which have a handler; results of panels, which have none; notices, posted to
a channel or group by schedules and other triggers; and direct messages. Only the first
three are of a run and are looked for before they are posted (`verifyFirst`); a notice
carries a key, so that its post is looked for after an error but not before (`Unverified`);
a direct message carries none. `Skipped` is the pin of
`inFlightRuns` and the grace period; `tracker` is the memory of each process of what it
posted, how often it failed and what it gave up on. Posts may fail before or after
Slack shows the message. `overtaken` and `lost` are history: the known ways in which a
second post or no post happens; a notice or a direct message is overtaken, for instance,
when the process that remembers posting it, or giving it up, crashes before the row is
acknowledged.

Definitions whose comment begins with "Mutant of" are deliberate errors; they are
used by no specification, only to show that the properties notice them
(`PROJECT.json`, "mutants").

## 3. The runs

| run | shows | bounds |
|---|---|---|
| `run_store` | the safety of the queue and its refinement of `RunContract` | 2 runs of one session, 2 errors, 3 claims, 1 hand-back, 2 retire() calls at once |
| `session_leases` | fencing of the transcript, with turns and compactions; summaries advance; requests are served or fail with an error | 1 session, 2 processes, 1 compacting turn, 3 grants, 3 entries and the summaries |
| `run_workers` | crashes and errors: every run ends and is announced, sessions unlock, cancellation is justified | 1 run, a worker and a request, 1 fault |
| `shutdown` | shutdown at any point, forced or not, with one fault and slow sweeps: what it leaves behind, and that every run ends | the same, 1 shutdown, 1 hand-back, sweeps that last a tick |
| `lost_turn` | a hanging turn that lost its run is cancelled | the same, 2 missed beats, 1 fault |
| `run_signals` | signals are in one place, in order, and land | a steer and an abort, 2 attempts, 1 fault |
| `cron` | a slot fires, and in a steady deployment once and in its time | 1 job of 3 kinds of schedule, 2 processes in every mix of modes, time 0..2, 1 edit, 1 fault |
| `outbox` | answers arrive, once but for the cases `PostedOnce` lists, and are not called delivered before | 2 messages in 3 mixes of the 5 kinds, 2 processes, 2 attempts, 2 acknowledgement tries, 2 faults |
| `session_fifo` | **violation**: overlapping claims invert the order of a session | 2 runs |
| `retry_refused` | **violation**: a retry is refused because of its own earlier attempt's session lease | 1 run |
| `hand_back_yanks` | **violation**: a draining worker unlocks a session under another process's turn | 2 runs, 1 shutdown |
| `replayed_answer` | **violation**: a consumed steer is reported as replayed | no fault |

Why the bounds are enough to see the interesting cases: two runs of a session are
what exclusion and order are about (runs of different sessions only share the FIFO
of `claim`); with three claims and one hand-back a run is claimed up to four times, so
a holder can be three claims behind and the error budget runs out before the claim
cap does; two concurrent retire() calls are a sweep and a fail() on one run, or two
overlapping sweeps. In `run_store` a sweep is over before the next tick (`MaxWait` is
0), so a lease can be renewed under it but not lapse again; in `shutdown` a sweep lasts
up to a tick, in which a lease of that length is renewed and lapses again, and the theorem
`SlowSweepsSpareRenewed` holds for every `MaxWait`. One fault at any point
includes each single crash and each single failing statement; combinations of two
are covered for the stores, whose clients are unconstrained, but not for the
liveness results. One session with two processes and a turn has every pair of writers
that can overtake each other, and three grants let a compaction lose its lease, be
replaced and be replaced again. Two processes are what a job needs to be claimed,
ticked or carried out twice; with the clock at 2 a job has three slots, so a slot can be
given back after the next one was claimed (what could follow from that later is left to
the theorems, which hold for every `MaxTime`); one fault and one edit suffice for each of
the races listed as hazards. Two messages make a batch in which the first outlives the
claim of the second; two faults let a poster fail and its acknowledgement too, or a
process crash after another gave up. `run_store` uses the symmetry of the two runs (no liveness is
checked there). Idempotency keys are not exercised by TLC but are part of the
refinement theorem. `CHECK_DEADLOCK FALSE` is set where the system may come to rest:
all runs terminal and nothing to settle, all signals taken, the clock at its bound, no
grant left, every message delivered.

The bounds as constants: `MaxWait`, `MaxReleases`, `MaxRetiring`, `MaxGrants`,
`MaxFaults`, `MaxStops`, `MaxTurns`, `MaxEntries`, `MaxTime`, `MaxEdits`. `MaxAttempts`,
`MaxClaims`, `MaxAcks`, `LeaseTtl`, `SessionTtl`, `ClaimMs`, `GraceMs` and
`LeaseLostConsecutive` are the code's own parameters.

**The four violations** are disagreements between what a test or a comment says and
what the code does under concurrency; `PROJECT.json`, "findings", quotes both. None
of them corrupts state: the properties of the passing runs hold in the same models.

**Fairness.** `Fairness` in RunWorkers: a process that is up goes on executing the
statements of its loop, its timers fire, the process manager restarts it, the
reaper's interval fires, time passes. The request of drive() is not assumed to come,
only to go on once it claimed. `HangSpec` assumes nothing of a turn except that a
cancelled one ends (the abort signal ends the model call); `LiveSpec` adds that turns
end, which the harness time limits provide. In RunSignals the poll's and the
sweeper's timers fire, calls go on, and turns stop; no signal need be sent. `CSpec`
assumes only that a compaction that was requested goes on in its process's queue; that
it gets the lease is not assumed, since it may give up. `LiveSpec` of CronSchedule: a
fire takes its next step (an action that hangs is cut off by the harness limits), the
queue is reconciled by its interval and worked on, ticks come round, time passes; users,
errors and crashes are under no fairness. In Outbox the listener, the handler and a
poll that has begun go on, every process polls by its interval, and time passes; a run
need not end, and no fault need happen.

**Behaviours the models show that have no run of their own.** The properties of the
`cron` and `outbox` runs exclude the following by name (`Steady`, `owed`, `overtaken`,
`lost`), because the code really does them:

* unclaimSlot() recognises its own claim by the time it was made
  (`cron/cron-store.ts:162`). Two overdue slots of a calendar job that are claimed in
  the same millisecond look alike, so the failure of the first gives back a slot after
  the second was claimed, and the second can be carried out again. It is not enough to
  look at the newest claim: with more slots in flight the twin may lie below it, so
  `upset` compares a claim with all earlier ones (`claims`);
* unclaimSlot() after an edit of the schedule restores the slot of the old one, and
  markFired() merges a next slot computed from the job it read before;
* a fire that was recorded fails in recordFire() or setEnabled() and gives its slot back;
  a fire that had read the job earlier claims the slot as of that time. It carries nothing
  out, since the key is recorded, but the next slot is then counted from the earlier time,
  closer to the fire than the interval (`undone`; the instance needs an interval of 2);
* a poll outlives the 15 seconds of its claim, or a handler its grace, and another
  process posts the message beside it; or the acknowledgement of a reply fails for good;
* a poller works through a batch it claimed earlier; a row acknowledged since is posted
  again if its message is not looked for;
* messages that are not of a run are posted without a look (`slack/deliveries.ts:222`):
  when the answer to the post is lost, or the process that posted one crashes or gives up
  before the row is acknowledged, the next one to claim the row posts it again;
* a process whose tracker gave a delivery up goes on claiming it, which keeps it from
  the others while the claim lasts, and never posts it;
* a reply is acknowledged before it is posted (`slack/core-bridge.ts:168`): if the post
  fails or the process dies in between, nothing delivers it.

## 4. The proofs

`RunStoreProofs` proves for all constants that satisfy the assumptions of `RunStore`
(finite or not, any budgets, any sessions and keys):

* the inductive invariant `RunStoreInv` (`Invariance`): the type invariant, the five
  invariants that TLC checks, and three facts that make them inductive: a row locked
  by a claim is pending (`ClaimedArePending`; else `lease` could revive a terminal
  run), rows to settle or settled are terminal and the two sets are disjoint
  (`SettledAreTerminal`; else an end could be announced twice), and a row that was
  not inserted has no attempts (`AbsentAreUnclaimed`);
* from it `SessionExclusion`, `Fencing`, `StaleReadsMiss`, `ErrorBudgetKept`,
  `ClaimCapKept`; the central argument is that the token of a read row is the number
  of its claim, so a row that still carries it has not been claimed, hence not failed,
  since; `ErrorBudgetKept` rests on that, as fail() decides on the row it read;
* the action properties `TerminalStays` and `SlowSweepsSpareRenewed`. The latter is about
  a lease renewed after a sweep read it: it expires later than the moment of the sweep's
  SELECT, and stays so while time passes for both (`RenewedIsFresh`), so the UPDATE, which
  compares with that moment and not with the present one, misses the row even if the
  lease has lapsed again;
* `Refinement`: RunStore implements RunContract, by one step per action.

`SessionLeasesProofs` proves `LeaseTypes`, `NewestGrant` and, from it, `Fenced`.

`CompactionProofs` proves, for any sessions, processes, compacting turns, grants and
entries, that compactions and turns are clients of the session leases
(`CompactionKeepsLeases`, hence `CompactionFenced`), `CompactionTypes`, and
`SummariesReachFurther` (the property `SummariesAdvance`). A background compaction plans
on a snapshot it read without a lease, so its plan is ahead of that snapshot only
(`PlansAreAhead`); the check under the lease extends this to the whole transcript, and
it stays so until the write because nobody else holds a valid token meanwhile
(`WritesAreAhead`), for which no two compactions of a session may share a token
(`TokensGranted`, `TokensApart`).

`RunWorkersProofs` proves, for any number of processes, runs, sessions and faults:

* `WorkersKeepStore` and `WorkersKeepLeases`: every step of a worker, a request, a
  shutdown, a crash or a sweep is a step of each store, or leaves it alone. By instances
  of the two stores' proof modules their theorems then hold of the composition; three of
  them are stated: `WorkersFenced`, `WorkersSparedByReaper` and `WorkersKeepContract`,
  which makes a chain of two refinements, processes to table to contract;
* `OneOwnerInProcesses`: no two processes own runs of one session. It does not say that no
  two are in turns of one: a turn whose run was reaped goes on beside the next one until
  its heartbeats cancel it, but it owns no row and, once the session lease was taken over,
  appends nothing;
* `WorkerTypes`, `OnlyLostTurnsAreCancelled` (`CancelledIsFenced`) and
  `ShutdownStrands` (`ExitStrands`), the complete list of what an exit before the
  backstop's limit leaves behind.

The invariant `WorkersInv` joins the stores' own invariants with what ties a process to
them: the run and token it remembers are a claim that was handed out (`ClaimKnown`); at
each stage the stores hold what the next call needs (`StageBacked`: a locked row, a
retirement read, a run to settle); a beat is missed only of a run that is lost for good,
since a token that no longer opens its row never does again (`MissedIsLost`); who handed
its run back owns nothing (`LeftNothing`); and no two processes, nor the sweep, have the
same claim or announcement in hand (`Apart`, `ParkedIsOwn`).

`RunSignalsProofs` proves, for any signals, attempts and faults, `SignalTypes`,
`EverySignalInOnePlace` (`InOnePlace`) and `SignalsInOrder` (`DeliveredInOrder`). The
consumed rows are a prefix of the table and are partitioned among the drains, the replays
and the four ends (`TakenOnce`); a drain or replay that has not taken anything holds
nothing, so that taking overwrites nothing (`IdleHoldsNothing`); a call stores its signal
once (`StoredOnce`); and what was delivered was stored before what the drain of the
current turn holds (`InOrder`), which is before what is not yet taken.

`CronScheduleProofs` proves, for any jobs, schedules, processes, concurrent fires, faults
and edits, `CronTypes`, `SlotsFireOnce` (`FiresOnce`) and `FiresKeepTheirDistance`
(`SpacedFires`). `CronInv` has three parts:

* the shape of schedules and fires (`ShapeInv`): who can have started a fire that is at a
  step, not before its slot and not in the future;
* while every process works on the queue (`QueueInv`): the claims of a job stack up. Each
  starts at the slot where the claim before it left the schedule, and `lastFiredAt` and
  `nextFireAt` are what some claim wrote (`AllTold`); the time of a claim tells its slot
  (`TimesTell`), so only the topmost one is ever undone, and what remains below it is
  further back by the period or the interval (`Stacked`). A slot is thus claimed by
  one fire at a time, and not again once it was carried out for certain (`ClaimedAlone`);
* while every process ticks (`TickInv`): the lease admits one tick (`OneTick`), which alone
  moves the schedules, so the slots in its batch are still due (`SlotsAreNext`); what it
  carried out is recorded, or its key is unsure (`Recorded`), and the schedule moves past
  it (`Marked`).

`FiresOnce` and `SpacedFires` are implications from `Steady`, and so are the last two
parts. Slots in `unsure`, and for the distance those in `undone`, are excepted; the latter
are all recorded (`UndoneIsRecorded`), so nobody carries them out again.

`OutboxProofs` proves, for any messages and mixes of kinds, any number of processes and
faults and any limits, `OutboxTypes`, `DeliveredIsShown` (the property `AckedIsShown`)
and `ShownOnce` (`PostedOnce`). A row is acknowledged by a handler's retry loop or by a
poller, and either may be steps away from the post it stands for, so the invariant
`OutboxInv` follows the promise back to there: a handler that has tries left is one whose
message is shown, about to be posted or lost (`AckingIsAccounted`); what a poller is about
to acknowledge, or what a tracker remembers as posted, is shown (`PostedIsShown`); and a
poller that is at work knows at what (`BusyPollerHasKey`). Crashes keep it since a reply
cut off in its post joins `lost`. `ShownOnce` needs a second invariant, `PostedInv`: of a
message that nothing overtook, one poll at most has it in hand, a poller sets out for it
only when its handler is through and nothing is shown, a handler that is still answering
has its run pinned or its row acknowledged, and a message that is not looked for is
acknowledged or about to be, or some process remembers it.

Two attempts at a proof corrected a model whose bounds were too small to show the gap:
the message posted without a look and then forgotten, and the claim below the newest one,
both listed in section 3.

Only model-checked is what the prover cannot do, liveness under fairness:
`RequestsServed`, `EveryRunEnds`, `SessionsUnlock`, `EndIsAnnounced`, `LostTurnStops`,
`EverySteerLands`, `EverySlotFires` and `EveryAnswerArrives`. Every invariant, action
property and refinement of the passing runs is stated by a theorem. The four violations
are counterexamples, which are TLC's to find.

Assumptions beyond the code: the processes' clocks agree; Postgres executes each
statement atomically under the locks described; UUIDs do not repeat.

## 5. Not modelled

* `setDeliveryState`, `waitFor`, the list queries, the tool ledger; `deleteSession`.
* The crash of the worker loop after 20 consecutive failing claims: a crash like any
  other.
* `canClaim()`: a draining build does not claim; in the model claiming is not urgent.
* The contents of messages, prompts, tool calls and approvals.
* Compaction: token counts, the text of summaries, the time acquireLeaseWithin() waits.
* Cron: creating and deleting jobs, the fire log, the cap on fires per tick, the input
  text and the mention roster, and the pruning of keys after 14 days. Croner is external
  and stands for a periodic calendar.
* Outbox: shadow deliveries, edits of an earlier message in place of a post, reactions,
  attachments, the cap of 1000 on the tracker's memory, and the window of recent messages
  in which a posted key is looked for (here it is always found). Whether a result is
  worth a delivery is decided before the model begins.
* Deploy drain (`runs/drain.ts`): the scale-in protection is read by the container
  platform alone and asked for again by every sweep; the hazard is listed without a
  property.
* Leader lease: several leases on one connection. The reaper's lease is one sweep at a
  time in RunWorkers and any number in RunStore, the scheduler's can be lost.
* The surfaces, harnesses, sandboxes, credentials, memory, skills and the command-line
  tools: drivers of external services, presentation and document storage, without the
  protocols this project is about. They make up most of the repository's lines.

## 6. Plan

1. `DeployDrain`: the superseded flag and the scale-in protection.
2. The panel driver as a client of the run queue and the outbox; monitors and their
   processes.
3. Proofs: the safety half of the liveness results, i.e. that what is owed (a slot, a
   steer, an answer) always has somebody who will take the next step for it.
