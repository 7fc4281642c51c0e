---------------------------- MODULE CronSchedule ----------------------------
(***************************************************************************)
(* Scheduled jobs: cron/scheduler.ts over cron/cron-store.ts, the durable  *)
(* queue of cron/job-queue.ts, the tick lease of                           *)
(* persistence/leader-lease.ts and once() of                               *)
(* idempotency/idempotency-store.ts, which runTrigger() calls with the     *)
(* slot's fire key.                                                        *)
(*                                                                         *)
(* A process whose job queue starts fires the jobs of the queue, which     *)
(* claim their slot first; one whose queue does not start falls back to    *)
(* interval ticks under the lease, which advance the schedule last.  Each  *)
(* await of a fire is a point where the others' steps come in between.     *)
(*                                                                         *)
(* `enabled' stands for "exists, is enabled and is not archived".  Times   *)
(* are ticks; a calendar schedule (Croner, external) fires at the          *)
(* multiples of its period.  The fire log is left out: nothing reads it    *)
(* back.  Keys are kept for 14 days, beyond any behaviour modelled here.   *)
(***************************************************************************)
EXTENDS Integers

CONSTANTS
  Crons,
  Procs,
  Handlers,    \* the fires a process can be in at once (cronFireConcurrency)
  ProcOf,      \* the process of each handler
  Schedules,   \* the schedules users ask for
  Modes,       \* the processes whose job queue starts
  NoTime,      \* undefined
  NoProc,
  MaxTime,     \* bound: the clock
  MaxEdits,    \* bound: what users do to jobs, manual runs included
  MaxFaults    \* bound: crashes, errors, refusals and lost leases

ASSUME CronAssumption ==
  /\ ProcOf \in [Handlers -> Procs]
  /\ NoProc \notin Procs
  /\ NoTime \notin Nat
  /\ Schedules \subseteq [kind: {"once", "every", "calendar"}, every: Nat, first: Nat \cup {NoTime}]
  /\ \A s \in Schedules : s.kind # "once" => s.every > 0
  /\ Modes \subseteq [Procs -> BOOLEAN]
  /\ {MaxTime, MaxEdits, MaxFaults} \subseteq Nat

VARIABLES
  clock,
  crons,      \* the durable map of jobs
  jobs,       \* the queue: at most one job waits per singleton key
  committed,  \* the fire keys once() has recorded
  lease,      \* the process that holds the tick lease
  queueOn,    \* whether the job queue of each process started
  fires,      \* the fire each handler is in
  done,       \* history: the slots whose action was carried out, and when
  twice,      \* history: keys whose action was carried out again
  unsure,     \* history: keys whose action was carried out but not recorded
  undone,     \* history: keys that were recorded and whose slot was given back
  owed,       \* history: slots a fire was started for that are neither carried out
              \* and recorded nor given up
  claims,     \* history: the slots that were claimed, and when
  upset,      \* history: the lease was lost, or a slot was claimed at the instant
              \* another one was
  edits, faults   \* the bounded counters

store == <<crons, jobs, committed>>
hist == <<done, twice, unsure, undone, owed>>
bounds == <<edits, faults>>
vars == <<clock, store, lease, queueOn, fires, hist, claims, upset, bounds>>

Times == Nat \cup {NoTime}

-----------------------------------------------------------------------------
(* cron/schedule.ts *)

nextCalendarFireAfter(schedule, after) == (after \div schedule.every + 1) * schedule.every

\* A schedule as it is stored, with its first fire time made explicit.
normalizeSchedule(input, now) ==
  IF input.kind = "calendar"
  THEN [schedule |-> input, nextFireAt |-> nextCalendarFireAfter(input, now)]
  ELSE LET first == IF input.first # NoTime THEN input.first
                    ELSE IF input.kind = "every" THEN now + input.every ELSE now
       IN [schedule |-> [input EXCEPT !.first = first], nextFireAt |-> first]

\* The slot a job is due at next, or NoTime.
recoverNextFireAt(cron) ==
  CASE cron.nextFireAt # NoTime -> cron.nextFireAt
    [] cron.nextFireAt = NoTime /\ cron.schedule.kind = "calendar" ->
         nextCalendarFireAfter(cron.schedule, IF cron.lastFiredAt = NoTime THEN cron.createdAt
                                              ELSE cron.lastFiredAt)
    [] cron.nextFireAt = NoTime /\ cron.schedule.kind # "calendar" /\ cron.lastFiredAt = NoTime ->
         cron.schedule.first
    [] OTHER -> IF cron.schedule.kind = "once" THEN NoTime ELSE cron.lastFiredAt + cron.schedule.every

\* Mutant of advanceNextFireAt: after a late fire an interval job catches up.
advanceFromSlot(schedule, slot, at) ==
  CASE schedule.kind = "calendar" -> nextCalendarFireAfter(schedule, slot)
    [] schedule.kind = "every" -> slot + schedule.every
    [] OTHER -> NoTime

\* The slot after one that was fired: a calendar schedule goes on from the slot,
\* an interval from the time of the fire.
advanceNextFireAt(schedule, slot, at) ==
  CASE schedule.kind = "calendar" -> nextCalendarFireAfter(schedule, slot)
    [] schedule.kind = "every" -> at + schedule.every
    [] OTHER -> NoTime

nextSlot(c) == recoverNextFireAt(crons[c])

Due(c) == crons[c].enabled /\ nextSlot(c) # NoTime /\ nextSlot(c) <= clock

-----------------------------------------------------------------------------
(* The fire a handler is in: started `by' the queue, a tick or a user, at a *)
(* time `at', with the job as `seen' then.  `next' is what markFired() is   *)
(* about to write, `batch' the rest of a tick.                              *)

Remembered == [once: BOOLEAN, lastFiredAt: Times]

FireState ==
  [pc: {"idle", "claim", "fire", "commit", "fired", "failed", "next", "batch", "mark"},
   by: {"none", "job", "tick", "user"}, cron: Crons \cup {NoTime}, slot: Times, at: Times,
   seen: Remembered \cup {NoTime}, next: Times,
   batch: SUBSET [cron: Crons, slot: Nat, seen: Remembered]]

Idle == [pc |-> "idle", by |-> "none", cron |-> NoTime, slot |-> NoTime, at |-> NoTime,
         seen |-> NoTime, next |-> NoTime, batch |-> {}]

At(h, pc) == fires[h].pc = pc

By(h, who) == fires[h].by = who

Goto(h, pc) == fires' = [fires EXCEPT ![h].pc = pc]

Finish(h) == fires' = [fires EXCEPT ![h] = Idle]

\* Back in the loop of the tick, with what is left of its batch.
Resume(h, batch) ==
  fires' = [fires EXCEPT ![h] = [Idle EXCEPT !.pc = "batch", !.by = "tick", !.at = fires[h].at,
                                             !.batch = batch]]

Key(f) == <<f.cron, f.slot>>

\* The slot of a fire and the time of the fire.
Fired(f) == [cron |-> f.cron, slot |-> f.slot, at |-> f.at]

\* What a fire remembers of the job it read.
Seen(c) == [once |-> crons[c].schedule.kind = "once", lastFiredAt |-> crons[c].lastFiredAt]

\* The slot a job is due at, as a set: none without one within the bound.
Slot(c) == {<<c, nextSlot(c)>>} \cap ({c} \X (0..MaxTime))

Init ==
  /\ clock = 0
  /\ crons \in [Crons -> {[enabled |-> TRUE, createdAt |-> 0, lastFiredAt |-> NoTime,
                           schedule |-> normalizeSchedule(s, 0).schedule,
                           nextFireAt |-> normalizeSchedule(s, 0).nextFireAt] : s \in Schedules}]
  /\ jobs = {}
  /\ committed = {}
  /\ lease = NoProc
  /\ queueOn \in Modes
  /\ fires = [h \in Handlers |-> Idle]
  /\ done = {}
  /\ twice = {}
  /\ unsure = {}
  /\ undone = {}
  /\ owed = {}
  /\ claims = {}
  /\ upset = FALSE
  /\ edits = 0 /\ faults = 0

\* Nobody edits a job, no lease is lost, no two slots of a job are claimed at
\* the same instant (unclaimSlot() tells claims apart by their time) and no
\* process has fallen back to ticks while another works on the queue.
Steady == edits = 0 /\ ~upset /\ \A p, q \in Procs : queueOn[p] = queueOn[q]

\* The record of what was carried out is kept while the deployment is steady.
Kept(set) == IF Steady THEN set ELSE {}

Forget == done' = {} /\ twice' = {} /\ unsure' = {} /\ undone' = {} /\ claims' = {}

Fault == faults < MaxFaults /\ faults' = faults + 1

-----------------------------------------------------------------------------
(* The queue *)

\* Mutant of Enqueued: a job without a next slot is added too.
EnqueuedAnyway(c) == jobs \cup {<<c, nextSlot(c)>>}

\* Mutant of Enqueued: a slot that has come up already is passed over.
EnqueuedAhead(c) == IF crons[c].enabled THEN jobs \cup {s \in Slot(c) : s[2] > clock} ELSE jobs

\* reconcile(), enqueueNext() and notifyChanged(): the next slot of a job goes
\* into the queue; one that waits there already is not added again, and one
\* beyond the clock's bound would never be handed out.
Enqueued(c) ==
  IF crons[c].enabled THEN jobs \cup Slot(c) ELSE jobs

reconcile(c) ==
  /\ \E p \in Procs : queueOn[p]
  /\ jobs' = Enqueued(c)
  /\ UNCHANGED <<clock, crons, committed, lease, queueOn, fires, hist, claims, upset, bounds>>

\* The queue hands out a job from its slot's time on (startAfter).  fireJob()
\* returns at once if the job is disabled or its next slot is another one.  All
\* processes and the queue read one clock here; a process whose clock is behind
\* puts a job that comes before its slot back, which only delays it.
fireJob(h) ==
  /\ queueOn[ProcOf[h]] /\ At(h, "idle")
  /\ \E j \in jobs :
       LET c == j[1] IN
       /\ j[2] <= clock
       /\ jobs' = jobs \ {j}
       /\ IF crons[c].enabled /\ nextSlot(c) = j[2]
          THEN fires' = [fires EXCEPT ![h] =
                           [Idle EXCEPT !.pc = "claim", !.by = "job", !.cron = c, !.slot = j[2], !.at = clock,
                                        !.seen = Seen(c)]]
          ELSE UNCHANGED fires
  /\ UNCHANGED <<clock, crons, committed, lease, queueOn, hist, claims, upset, bounds>>

Claimable(h) == crons[fires[h].cron].enabled /\ nextSlot(fires[h].cron) = fires[h].slot

\* One update under a row lock: the schedule advances before the job runs.
claimSlot(h) ==
  LET f == fires[h] c == f.cron IN
  /\ At(h, "claim")
  /\ IF Claimable(h)
     THEN /\ crons' = [crons EXCEPT
                         ![c].lastFiredAt = f.at,
                         ![c].nextFireAt = advanceNextFireAt(crons[c].schedule, f.slot, f.at)]
          /\ Goto(h, "fire")
          /\ claims' = Kept(claims \cup {Fired(f)})
          /\ upset' = (upset \/ \E d \in claims : d.cron = c /\ d.at = f.at /\ d.slot # f.slot)
          /\ owed' = owed \cup ({Key(f)} \ committed)
     ELSE Finish(h) /\ UNCHANGED <<crons, claims, upset, owed>>
  /\ UNCHANGED <<clock, jobs, committed, lease, queueOn, done, twice, unsure, undone, bounds>>

\* unclaimSlot() acts only on the claim it undoes, told by its time.
Restored(h) == crons[fires[h].cron].lastFiredAt = fires[h].at

\* A fire that failed gives its slot back, and with it overwrites what an edit
\* has put there since.  If a later slot was claimed meanwhile it does nothing.
\* (Only a calendar comes back to the slot that follows the restored one.)
unclaimSlot(h) ==
  LET f == fires[h]
      c == f.cron
      follows == crons[c].schedule.kind = "calendar" /\ nextSlot(c) = nextCalendarFireAfter(crons[c].schedule, f.slot)
  IN
  /\ At(h, "failed")
  /\ crons' = IF Restored(h)
              THEN [crons EXCEPT ![c].lastFiredAt = f.seen.lastFiredAt, ![c].nextFireAt = f.slot]
              ELSE crons
  /\ owed' = IF crons[c].lastFiredAt # f.at THEN owed \ {Key(f)}
             ELSE IF follows THEN owed
             ELSE owed \ Slot(c)
  /\ undone' = IF Restored(h) THEN Kept(undone \cup ({Key(f)} \cap committed)) ELSE undone
  /\ Finish(h)
  /\ UNCHANGED <<clock, jobs, committed, lease, queueOn, done, twice, unsure, claims, upset, bounds>>

enqueueNext(h) ==
  /\ At(h, "next") /\ By(h, "job")
  /\ jobs' = Enqueued(fires[h].cron)
  /\ Finish(h)
  /\ UNCHANGED <<clock, crons, committed, lease, queueOn, hist, claims, upset, bounds>>

-----------------------------------------------------------------------------
(* Interval ticks under the lease *)

\* tick(): hold() wins the lease if nobody has it; due() is read under it.
tick(h) ==
  /\ ~queueOn[ProcOf[h]] /\ At(h, "idle")
  /\ lease = NoProc
  /\ \A g \in Handlers : ProcOf[g] = ProcOf[h] => ~By(g, "tick")
  /\ \E c \in Crons : Due(c)
  /\ lease' = ProcOf[h]
  /\ fires' = [fires EXCEPT ![h] =
                 [Idle EXCEPT !.pc = "batch", !.by = "tick", !.at = clock,
                              !.batch = {[cron |-> c, slot |-> nextSlot(c), seen |-> Seen(c)] :
                                           c \in {d \in Crons : Due(d)}}]]
  /\ owed' = owed \cup (UNION {Slot(c) : c \in {d \in Crons : Due(d)}} \ committed)
  /\ UNCHANGED <<clock, store, queueOn, done, twice, unsure, undone, claims, upset, bounds>>

\* The loop of fireDue().
fireDue(h) ==
  /\ At(h, "batch")
  /\ \E d \in fires[h].batch :
       fires' = [fires EXCEPT ![h].pc = "fire", ![h].cron = d.cron, ![h].slot = d.slot,
                              ![h].seen = d.seen, ![h].batch = @ \ {d}]
  /\ UNCHANGED <<clock, store, lease, queueOn, hist, claims, upset, bounds>>

\* The end of the tick gives the lease back, unless it was lost on the way.
Unheld(h) == IF lease = ProcOf[h] THEN NoProc ELSE lease

endTick(h) ==
  /\ At(h, "batch") /\ fires[h].batch = {}
  /\ lease' = Unheld(h)
  /\ Finish(h)
  /\ UNCHANGED <<clock, store, queueOn, hist, claims, upset, bounds>>

\* markFired() reads the job ...
markFired(h) ==
  LET f == fires[h] IN
  /\ At(h, "next") /\ By(h, "tick")
  /\ fires' = [fires EXCEPT ![h].pc = "mark",
                            ![h].next = advanceNextFireAt(crons[f.cron].schedule, f.slot, f.at)]
  /\ UNCHANGED <<clock, store, lease, queueOn, hist, claims, upset, bounds>>

\* ... and merges what it computed, whatever has become of the job since.
markFiredMerge(h) ==
  LET f == fires[h] c == f.cron IN
  /\ At(h, "mark")
  /\ crons' = [crons EXCEPT ![c].lastFiredAt = f.at, ![c].nextFireAt = f.next]
  /\ owed' = owed \ Slot(c)
  /\ Resume(h, f.batch)
  /\ UNCHANGED <<clock, jobs, committed, lease, queueOn, done, twice, unsure, undone, claims, upset, bounds>>

-----------------------------------------------------------------------------
(* fire() and runTrigger() *)

\* runNow(): a fire of its own key, which claims no slot and marks none.
runNow(h) ==
  /\ At(h, "idle") /\ edits < MaxEdits
  /\ \E c \in Crons :
       /\ crons[c].enabled
       /\ fires' = [fires EXCEPT ![h] =
                      [Idle EXCEPT !.pc = "fire", !.by = "user", !.cron = c, !.at = clock, !.seen = Seen(c)]]
  /\ edits' = edits + 1
  /\ Forget
  /\ UNCHANGED <<clock, store, lease, queueOn, owed, upset, faults>>

\* Nobody may act for the job any more: it is disabled.
authzFails(h) ==
  /\ At(h, "fire") /\ Fault
  /\ crons' = [crons EXCEPT ![fires[h].cron].enabled = FALSE]
  /\ CASE By(h, "job") -> Goto(h, "failed")
       [] By(h, "tick") -> Resume(h, fires[h].batch)
       [] By(h, "user") -> Finish(h)
  /\ UNCHANGED <<clock, jobs, committed, lease, queueOn, hist, claims, upset, edits>>

\* The keys the process of a handler is working on.
inflight(h) ==
  {Key(fires[g]) : g \in {g \in Handlers \ {h} : ProcOf[g] = ProcOf[h]
                                                /\ fires[g].pc = "commit"}}

\* Mutant of Skipped: the keys that are recorded are not looked up.
SkippedInFlight(h) == ~By(h, "user") /\ Key(fires[h]) \in inflight(h)

\* once() does not run an action whose key it has recorded, or which the same
\* process is running.  The key of a manual run is new.
Skipped(h) == ~By(h, "user") /\ Key(fires[h]) \in committed \cup inflight(h)

\* The action is the turn or the delivery the fire is for.
once(h) ==
  LET f == fires[h] IN
  /\ At(h, "fire")
  /\ IF By(h, "user") \/ Skipped(h)
     THEN Goto(h, IF Skipped(h) THEN "fired" ELSE "commit") /\ UNCHANGED <<done, twice>>
     ELSE /\ done' = Kept(done \cup {Fired(f)})
          /\ twice' = Kept(twice \cup ({Key(f)} \cap {Key(d) : d \in done}))
          /\ Goto(h, "commit")
  /\ UNCHANGED <<clock, store, lease, queueOn, unsure, undone, owed, claims, upset, bounds>>

Record(h) == IF By(h, "user") THEN committed ELSE committed \cup {Key(fires[h])}

commit(h) ==
  /\ At(h, "commit")
  /\ committed' = Record(h)
  /\ owed' = owed \ Record(h)
  /\ Goto(h, "fired")
  /\ UNCHANGED <<clock, crons, jobs, lease, queueOn, done, twice, unsure, undone, claims, upset, bounds>>

Unsure(hs) == {Key(fires[h]) : h \in {g \in hs : At(g, "commit") /\ ~By(g, "user")}}

\* The action throws, or recording its key does, or, once the key is recorded,
\* recordFire() or setEnabled(): the fire fails, and a tick leaves the rest of
\* its batch to the next.  (A statement of claimSlot(), unclaimSlot(),
\* markFired() or enqueueNext() that throws ends the fire there, as crash does.)
throws(h) ==
  /\ fires[h].pc \in {"fire", "commit", "fired"} /\ Fault
  /\ unsure' = Kept(unsure \cup Unsure({h}))
  /\ CASE By(h, "job") -> Goto(h, "failed")
       [] By(h, "tick") -> Resume(h, {})
       [] By(h, "user") -> Finish(h)
  /\ UNCHANGED <<clock, store, lease, queueOn, done, twice, undone, owed, claims, upset, edits>>

\* A one-shot job, as the fire read it, is disabled once it has fired.
fired(h) ==
  /\ At(h, "fired")
  /\ crons' = IF fires[h].seen.once
              THEN [crons EXCEPT ![fires[h].cron].enabled = FALSE] ELSE crons
  /\ IF By(h, "user") THEN Finish(h) ELSE Goto(h, "next")
  /\ UNCHANGED <<clock, jobs, committed, lease, queueOn, hist, claims, upset, bounds>>

-----------------------------------------------------------------------------
(* Users, the lease's connection, crashes and time *)

\* update() with a schedule: the slots the old one had come to are given up.
update(c) ==
  /\ edits < MaxEdits
  /\ edits' = edits + 1
  /\ \E s \in Schedules :
       LET n == normalizeSchedule(s, clock) IN
       crons' = [crons EXCEPT ![c].schedule = n.schedule, ![c].nextFireAt = n.nextFireAt]
  /\ owed' = {o \in owed : o[1] # c}
  /\ Forget
  /\ UNCHANGED <<clock, jobs, committed, lease, queueOn, fires, upset, faults>>

setEnabled(c) ==
  /\ edits < MaxEdits
  /\ edits' = edits + 1
  /\ crons' = [crons EXCEPT ![c].enabled = ~@]
  /\ Forget
  /\ UNCHANGED <<clock, jobs, committed, lease, queueOn, fires, owed, upset, faults>>

\* leaseGuard: while its queue is healthy a process keeps the others' ticks out
\* (nobody's, and left out, when every queue has started).
leaseGuard(p) ==
  /\ queueOn[p] /\ lease = NoProc
  /\ \E q \in Procs : ~queueOn[q]
  /\ lease' = p
  /\ UNCHANGED <<clock, store, queueOn, fires, hist, claims, upset, bounds>>

\* The connection that holds the lease breaks, or the guard lets go because its
\* queue is unhealthy.  tick() does not look at `lost' and goes on.
loseLease ==
  /\ lease # NoProc /\ Fault
  /\ lease' = NoProc
  /\ upset' = TRUE
  /\ Forget
  /\ UNCHANGED <<clock, store, queueOn, fires, owed, edits>>

HeldBy(p) == {h \in Handlers : ProcOf[h] = p /\ fires[h].pc # "idle"}

\* A process dies and comes back: its fires are gone, a job it was working on
\* is not retried (retryLimit 0), Postgres frees its lease.
crash(p) ==
  LET dropped == {h \in HeldBy(p) :
                    By(h, "job") /\ fires[h].pc \in {"fire", "commit", "failed"}} IN
  /\ HeldBy(p) # {} /\ Fault
  /\ fires' = [h \in Handlers |-> IF h \in HeldBy(p) THEN Idle ELSE fires[h]]
  /\ lease' = IF lease = p THEN NoProc ELSE lease
  /\ unsure' = Kept(unsure \cup Unsure(HeldBy(p)))
  /\ owed' = owed \ {Key(fires[h]) : h \in dropped}
  /\ UNCHANGED <<clock, store, queueOn, done, twice, undone, claims, upset, edits>>

advance ==
  /\ clock < MaxTime
  /\ clock' = clock + 1
  /\ UNCHANGED <<store, lease, queueOn, fires, hist, claims, upset, bounds>>

Fire(h) ==
  \/ claimSlot(h) \/ unclaimSlot(h) \/ enqueueNext(h)
  \/ fireDue(h) \/ endTick(h) \/ markFired(h) \/ markFiredMerge(h)
  \/ once(h) \/ commit(h) \/ fired(h)

Next ==
  \/ \E c \in Crons : reconcile(c) \/ update(c) \/ setEnabled(c)
  \/ \E h \in Handlers : fireJob(h) \/ tick(h) \/ runNow(h) \/ Fire(h) \/ authzFails(h) \/ throws(h)
  \/ \E p \in Procs : leaseGuard(p) \/ crash(p)
  \/ loseLease
  \/ advance

Spec == Init /\ [][Next]_vars

\* Timers, pg-boss and the event loop go on: a fire takes its next step, the
\* queue is reconciled and read, ticks come round and time passes.
LiveSpec ==
  /\ Spec
  /\ \A h \in Handlers : WF_vars(Fire(h))
  /\ WF_vars(\E h \in Handlers : fireJob(h) \/ tick(h))
  /\ \A c \in Crons : WF_vars(reconcile(c))
  /\ WF_vars(advance)

-----------------------------------------------------------------------------
Schedule == [kind: {"once", "every", "calendar"}, every: Nat, first: Times]

Cron == [enabled: BOOLEAN, createdAt: Nat, lastFiredAt: Times, nextFireAt: Times, schedule: Schedule]

Slots == Crons \X Nat

Fires == [cron: Crons, slot: Nat, at: Nat]

\* Types; a fire that has begun knows its job, its time and, unless a user
\* started it, its slot.
TypeOK ==
  /\ clock \in Nat
  /\ crons \in [Crons -> Cron]
  /\ jobs \subseteq Slots
  /\ committed \subseteq Slots
  /\ lease \in Procs \cup {NoProc}
  /\ queueOn \in [Procs -> BOOLEAN]
  /\ fires \in [Handlers -> FireState]
  /\ \A h \in Handlers : fires[h].pc \notin {"idle", "batch"} =>
       /\ fires[h].cron \in Crons /\ fires[h].at \in Nat /\ fires[h].seen \in Remembered
       /\ By(h, "user") \/ fires[h].slot \in Nat
  /\ done \subseteq Fires /\ claims \subseteq Fires
  /\ twice \subseteq Slots /\ unsure \subseteq Slots /\ undone \subseteq Slots /\ owed \subseteq Slots
  /\ upset \in BOOLEAN
  /\ edits \in 0..MaxEdits /\ faults \in 0..MaxFaults

\* "No slot fires twice" (test/cron-queue.test.ts:104): in a steady deployment
\* the action of a slot is carried out once, whatever crashes and fails, unless
\* it was carried out and its key could not be recorded.  Steady excludes edits,
\* a lost lease, processes in both modes and two slots claimed at one instant.
FiresOnce == Steady => twice \subseteq unsure

\* "A recurring cron fires once per interval after the last fire"
\* (test/cron-store.test.ts:89): in a steady deployment retries, late fires and
\* slots claimed while an earlier fire is still at work never bring two fires
\* closer together than the interval, but for slots whose key could not be
\* recorded and slots that were given back although their key was (recordFire()
\* failed): who had read such a slot earlier claims it as of that earlier time.
SpacedFires ==
  Steady => \A d, e \in done :
              LET sched == crons[d.cron].schedule IN
              (/\ d.cron = e.cron /\ sched.kind = "every" /\ d.slot < e.slot
               /\ {Key(d), Key(e)} \cap (unsure \cup undone) = {})
              => e.at >= d.at + sched.every

\* In the end no enabled job has a slot that is overdue, or one that a fire was
\* started for and that was not carried out and recorded, whatever crashes,
\* refusals, edits, lost leases and processes in both modes came in between.
\* The ways a slot is given up are the ones the actions take out of `owed': its
\* claimant died, it failed after a later slot was claimed, the schedule was
\* edited, or the end of another fire overwrote it.
EverySlotFires == <>[](\A c \in Crons : crons[c].enabled => ~Due(c) /\ \A o \in owed : o[1] # c)
=============================================================================
