------------------------- MODULE CronScheduleProofs -------------------------
(***************************************************************************)
(* A slot of a job fires once and the fires of a job keep their distance,  *)
(* for any number of jobs, processes, handlers, faults and edits.          *)
(***************************************************************************)
EXTENDS CronSchedule, TLAPS

USE CronAssumption

-----------------------------------------------------------------------------
(* The inductive invariant *)

\* A fire, at each of its steps, was started by whom it can have been, in a
\* process of that mode, no earlier than its slot and no later than now.
Sound(h, f, on, n, now) ==
  /\ f \in FireState
  /\ f.pc \notin {"idle", "batch"} => f.cron \in Crons /\ f.seen \in Remembered
  /\ f.pc = "idle" <=> f.by = "none"
  /\ f.pc \in {"claim", "failed"} => f.by = "job"
  /\ f.pc \in {"batch", "mark"} => f.by = "tick"
  /\ f.pc = "next" => f.by # "user"
  /\ f.by = "job" => on[ProcOf[h]]
  /\ f.by = "tick" => ~on[ProcOf[h]]
  /\ f.by = "user" => n > 0
  /\ f.pc # "idle" => f.at \in Nat /\ f.at <= now
  /\ f.pc \notin {"idle", "batch"} /\ f.by # "user" => f.slot \in Nat /\ f.slot <= f.at
  /\ \A d \in f.batch : d.slot <= f.at

SoundFires == fires \in [Handlers -> FireState] /\ \A h \in Handlers : Sound(h, fires[h], queueOn, edits, clock)

\* A repeating schedule has a period, and a job without a next slot is a
\* one-shot job that was fired, unless somebody has edited it.
Periodic ==
  \A c \in Crons :
    /\ crons[c].schedule.kind # "once" => crons[c].schedule.every > 0
    /\ edits = 0 /\ crons[c].nextFireAt = NoTime =>
         crons[c].schedule.kind = "once" /\ crons[c].lastFiredAt # NoTime

\* What a tick is about to write leaves a job without a next slot only if it is
\* a one-shot job, unless somebody has edited it.
MarksNext ==
  \A h \in Handlers : edits = 0 /\ fires[h].pc = "mark" /\ fires[h].next = NoTime =>
    crons[fires[h].cron].schedule.kind = "once"

\* A fire that has carried out its action did so no earlier than its slot.
InTime == \A d \in done : d.slot <= d.at /\ d.at <= clock

ShapeInv == TypeOK /\ SoundFires /\ Periodic /\ MarksNext /\ InTime

\* The slot that follows a fire.
After(d) == advanceNextFireAt(crons[d.cron].schedule, d.slot, d.at)

\* The slot n is not before the one that follows d.
Beyond(n, d) == n = NoTime \/ (After(d) # NoTime /\ n >= After(d))

(* The queue.  Claims stack up: each starts where the one before it left    *)
(* the schedule, and only the topmost can be undone.                        *)

Claimed(h) == By(h, "job") /\ fires[h].pc \in {"fire", "commit", "fired", "failed"}

\* The claims that are worked on, and the fires whose claim was not undone.
Standing == {Fired(fires[h]) : h \in {g \in Handlers : Claimed(g)}}
            \cup {d \in done : Key(d) \notin unsure \cup undone}

\* If a job was fired last at l and its next slot is n then some claim said so.
Told(c, l, n) == l # NoTime => \E d \in claims : d.cron = c /\ d.at = l /\ n = After(d)

\* The time of a claim tells its slot.
TimesTell == \A d, e \in claims : d.cron = e.cron /\ d.at = e.at => d.slot = e.slot

AllTold ==
  /\ \A c \in Crons : Told(c, crons[c].lastFiredAt, crons[c].nextFireAt)
  /\ \A h \in Handlers : fires[h].pc = "claim" \/ Claimed(h) =>
       Told(fires[h].cron, fires[h].seen.lastFiredAt, fires[h].slot)
  /\ \A h \in Handlers : Claimed(h) => Fired(fires[h]) \in claims

\* A job's next slot comes after all that stands, and so does each slot after
\* the ones below it.
Stacked ==
  /\ \A d \in Standing : Beyond(crons[d.cron].nextFireAt, d)
  /\ \A d, e \in Standing : d.cron = e.cron =>
       (d.slot = e.slot => d = e) /\ (d.slot < e.slot => Beyond(e.slot, d))

\* Nobody else has the slot of a claim, and if it was carried out before then it
\* is unsure, or recorded.
ClaimedAlone ==
  /\ \A g, h \in Handlers : g # h /\ Claimed(g) /\ Claimed(h) => Key(fires[g]) # Key(fires[h])
  /\ \A h \in Handlers : Claimed(h) /\ fires[h].pc # "commit" =>
       \A d \in done : Key(d) = Key(fires[h]) => Key(d) \in unsure \cup committed

UndoneIsRecorded == undone \subseteq committed

QueueInv == TimesTell /\ AllTold /\ Stacked /\ ClaimedAlone /\ UndoneIsRecorded

(* The ticks.  There is one at a time, and it alone moves the schedules.    *)

OneTick ==
  /\ \A h \in Handlers : By(h, "tick") => lease = ProcOf[h]
  /\ \A g, h \in Handlers : By(g, "tick") /\ By(h, "tick") => g = h

\* The slots a tick has before it are the ones its jobs are due at.
SlotsAreNext ==
  \A h \in Handlers : By(h, "tick") =>
    /\ \A d \in fires[h].batch : d.slot = crons[d.cron].nextFireAt
    /\ \A d, e \in fires[h].batch : d.cron = e.cron => d = e
    /\ fires[h].pc # "batch" => /\ fires[h].slot = crons[fires[h].cron].nextFireAt
                                /\ \A d \in fires[h].batch : d.cron # fires[h].cron
    /\ fires[h].pc = "mark" => fires[h].next = After(Fired(fires[h]))

\* What was carried out is recorded, unsure or about to be recorded.
Recorded ==
  \A d \in done : \/ Key(d) \in committed \cup unsure
                  \/ \E h \in Handlers : At(h, "commit") /\ Key(fires[h]) = Key(d)

\* What was carried out is not after the next slot, and if it is before that
\* the interval has been added.
Marked ==
  /\ \A d \in done, h \in Handlers : By(h, "tick") => d.at <= fires[h].at
  /\ \A d \in done : crons[d.cron].schedule.kind = "every" =>
       LET next == crons[d.cron].nextFireAt IN d.slot <= next /\ (d.slot < next => Beyond(next, d))
  /\ \A d, e \in done : d.cron = e.cron /\ crons[d.cron].schedule.kind = "every" /\ d.slot < e.slot =>
       Beyond(e.slot, d)

TickInv == OneTick /\ SlotsAreNext /\ Recorded /\ Marked

\* Every process works on the queue, or every process ticks.
OnQueue == \A p \in Procs : queueOn[p]
OnTicks == \A p \in Procs : ~queueOn[p]

CronInv ==
  /\ ShapeInv
  /\ FiresOnce
  /\ Steady /\ OnQueue => QueueInv
  /\ Steady /\ OnTicks => TickInv

-----------------------------------------------------------------------------
(* Schedules *)

\* The next multiple of a period is later.
LEMMA NextMultiple ==
  ASSUME NEW a \in Nat, NEW b \in Nat \ {0}
  PROVE  (a \div b + 1) * b \in Nat /\ (a \div b + 1) * b > a
<1> DEFINE q == a \div b
<1>1. q \in Nat /\ a = b * q + (a % b) /\ a % b \in 0..(b - 1)
  OBVIOUS
<1> HIDE DEF q
<1>2. (q + 1) * b = b * q + b
  BY <1>1
<1>3. b * q \in Nat
  BY <1>1
<1> QED BY <1>1, <1>2, <1>3 DEF q

\* A schedule that repeats has a period.
Sane(s) == s \in Schedule /\ (s.kind # "once" => s.every > 0)

LEMMA CalendarType ==
  ASSUME NEW s, Sane(s), s.kind # "once", NEW a \in Nat
  PROVE  nextCalendarFireAfter(s, a) \in Nat /\ nextCalendarFireAfter(s, a) > a
<1>1. s.every \in Nat \ {0}
  BY DEF Sane, Schedule
<1> QED BY <1>1, NextMultiple DEF nextCalendarFireAfter

\* The slot after a fire is a later one; only a one-shot job has none.
LEMMA AdvanceType ==
  ASSUME NEW s, Sane(s), NEW slot \in Nat, NEW at \in Nat, slot <= at
  PROVE  LET n == advanceNextFireAt(s, slot, at)
         IN /\ n \in Times
            /\ n = NoTime <=> s.kind = "once"
            /\ n # NoTime => n \in Nat /\ n > slot
            /\ s.kind = "every" => n = at + s.every
<1>1. s.kind \in {"once", "every", "calendar"} /\ s.every \in Nat
  BY DEF Sane, Schedule
<1>2. CASE s.kind = "calendar"
  <2>1. advanceNextFireAt(s, slot, at) = nextCalendarFireAfter(s, slot)
    BY <1>2 DEF advanceNextFireAt
  <2> QED BY <1>2, <2>1, CalendarType DEF Times
<1>3. CASE s.kind = "every"
  <2>1. advanceNextFireAt(s, slot, at) = at + s.every
    BY <1>3 DEF advanceNextFireAt
  <2>2. at + s.every \in Nat /\ at + s.every > slot
    BY <1>1, <1>3 DEF Sane
  <2> QED BY <1>3, <2>1, <2>2 DEF Times
<1>4. CASE s.kind = "once"
  BY <1>4 DEF advanceNextFireAt, Times
<1> QED BY <1>1, <1>2, <1>3, <1>4

\* The form in which a schedule is stored.
LEMMA NormalType ==
  ASSUME NEW s \in Schedules, NEW now \in Nat
  PROVE  LET n == normalizeSchedule(s, now)
         IN Sane(n.schedule) /\ n.nextFireAt \in Nat
<1>1. s \in Schedule /\ Sane(s)
  BY DEF Sane, Schedule, Times
<1>2. CASE s.kind = "calendar"
  BY <1>1, <1>2, CalendarType DEF normalizeSchedule
<1>3. CASE s.kind # "calendar"
  <2> DEFINE first == IF s.first # NoTime THEN s.first
                      ELSE IF s.kind = "every" THEN now + s.every ELSE now
             new == [s EXCEPT !.first = first]
  <2>1. first \in Nat
    BY <1>1 DEF Schedule, Times
  <2>2. normalizeSchedule(s, now) = [schedule |-> new, nextFireAt |-> first]
    BY <1>3 DEF normalizeSchedule
  <2> HIDE DEF first
  <2>3. new \in Schedule /\ new.kind = s.kind /\ new.every = s.every
    BY <1>1, <2>1 DEF Schedule, Times
  <2> QED BY <1>1, <2>1, <2>2, <2>3 DEF Sane
<1> QED BY <1>2, <1>3

\* What is known of a stored job.
LEMMA CronType ==
  ASSUME ShapeInv, NEW c \in Crons
  PROVE  /\ crons[c] \in Cron /\ Sane(crons[c].schedule)
         /\ crons[c].lastFiredAt \in Times /\ crons[c].nextFireAt \in Times
         /\ nextSlot(c) \in Times
         /\ edits = 0 => nextSlot(c) = crons[c].nextFireAt
         /\ Slot(c) \subseteq Slots
         /\ Seen(c) \in Remembered
<1> DEFINE cron == crons[c]
<1>1. cron \in Cron /\ Sane(cron.schedule)
  BY DEF ShapeInv, TypeOK, Periodic, Sane, Cron
<1>2. /\ cron.lastFiredAt \in Times /\ cron.nextFireAt \in Times /\ cron.createdAt \in Nat
      /\ cron.schedule.first \in Times /\ cron.schedule.every \in Nat
      /\ cron.schedule.kind \in {"once", "every", "calendar"}
  BY <1>1 DEF Cron, Sane, Schedule
<1>3. edits = 0 /\ cron.nextFireAt = NoTime => cron.schedule.kind = "once" /\ cron.lastFiredAt # NoTime
  BY DEF ShapeInv, Periodic
<1> HIDE DEF cron
<1>4. recoverNextFireAt(cron) \in Times
  <2>1. CASE cron.nextFireAt # NoTime
    BY <1>2, <2>1 DEF recoverNextFireAt
  <2>2. CASE cron.nextFireAt = NoTime /\ cron.schedule.kind = "calendar"
    <3> DEFINE after == IF cron.lastFiredAt = NoTime THEN cron.createdAt ELSE cron.lastFiredAt
    <3>1. after \in Nat
      BY <1>2 DEF Times
    <3>2. recoverNextFireAt(cron) = nextCalendarFireAfter(cron.schedule, after)
      BY <2>2 DEF recoverNextFireAt
    <3> HIDE DEF after
    <3> QED BY <1>1, <2>2, <3>1, <3>2, CalendarType DEF Times
  <2>3. CASE cron.nextFireAt = NoTime /\ cron.schedule.kind # "calendar" /\ cron.lastFiredAt = NoTime
    BY <1>2, <2>3 DEF recoverNextFireAt
  <2>4. CASE cron.nextFireAt = NoTime /\ cron.schedule.kind # "calendar" /\ cron.lastFiredAt # NoTime
    <3>1. cron.lastFiredAt + cron.schedule.every \in Nat
      BY <1>2, <2>4 DEF Times
    <3> QED BY <2>4, <3>1 DEF recoverNextFireAt, Times
  <2> QED BY <2>1, <2>2, <2>3, <2>4
<1>5. edits = 0 => recoverNextFireAt(cron) = cron.nextFireAt
  <2>1. CASE cron.nextFireAt # NoTime
    BY <2>1 DEF recoverNextFireAt
  <2>2. CASE cron.nextFireAt = NoTime /\ cron.schedule.kind = "once" /\ cron.lastFiredAt # NoTime
    BY <2>2 DEF recoverNextFireAt
  <2> QED BY <1>3, <2>1, <2>2
<1>6. Seen(c) \in Remembered
  BY <1>2 DEF Seen, Remembered, cron
<1>7. Slot(c) \subseteq Slots
  BY DEF Slot, Slots
<1> QED BY <1>1, <1>2, <1>4, <1>5, <1>6, <1>7 DEF nextSlot, cron

-----------------------------------------------------------------------------
(* The step of a fire, and what it leaves alone *)

PCs == {"idle", "claim", "fire", "commit", "fired", "failed", "next", "batch", "mark"}

\* Only the fire of h moves.
Alone(h) == fires' \in [Handlers -> FireState] /\ \A g \in Handlers : g # h => fires'[g] = fires[g]

\* The fire of h is the one it was.
SameFire(h) ==
  LET f == fires[h] n == fires'[h] IN
  n.by = f.by /\ n.cron = f.cron /\ n.slot = f.slot /\ n.at = f.at /\ n.seen = f.seen

LEMMA IdleFacts ==
  /\ Idle \in FireState /\ Idle.pc = "idle" /\ Idle.by = "none" /\ Idle.batch = {} /\ Idle.slot = NoTime
  /\ \A h, on, n, now : Sound(h, Idle, on, n, now)
<1>1. Idle \in FireState /\ Idle.pc = "idle" /\ Idle.by = "none" /\ Idle.batch = {} /\ Idle.slot = NoTime
  BY DEF Idle, FireState, Times
<1> QED BY <1>1 DEF Sound

LEMMA GotoFacts ==
  ASSUME fires \in [Handlers -> FireState], NEW h \in Handlers, NEW x \in PCs, Goto(h, x)
  PROVE  /\ Alone(h) /\ SameFire(h) /\ fires'[h].pc = x
         /\ fires'[h].next = fires[h].next /\ fires'[h].batch = fires[h].batch
<1> DEFINE f == fires[h]
           n == [f EXCEPT !.pc = x]
<1>1. f \in FireState
  OBVIOUS
<1>2. fires' = [fires EXCEPT ![h] = n]
  BY DEF Goto
<1> HIDE DEF f
<1>3. /\ n \in FireState /\ n.pc = x /\ n.next = f.next /\ n.batch = f.batch
      /\ n.by = f.by /\ n.cron = f.cron /\ n.slot = f.slot /\ n.at = f.at /\ n.seen = f.seen
  BY <1>1 DEF FireState, PCs
<1> HIDE DEF n
<1>4. fires'[h] = n /\ Alone(h)
  BY <1>2, <1>3 DEF Alone
<1> QED BY <1>3, <1>4 DEF SameFire, f

LEMMA FinishFacts ==
  ASSUME fires \in [Handlers -> FireState], NEW h \in Handlers, Finish(h)
  PROVE  Alone(h) /\ fires'[h] = Idle
BY IdleFacts DEF Finish, Alone

LEMMA ResumeFacts ==
  ASSUME fires \in [Handlers -> FireState], NEW h \in Handlers,
         NEW b \in SUBSET [cron: Crons, slot: Nat, seen: Remembered], Resume(h, b)
  PROVE  /\ Alone(h) /\ fires'[h].pc = "batch" /\ fires'[h].by = "tick" /\ fires'[h].at = fires[h].at
         /\ fires'[h].batch = b
<1> DEFINE a == fires[h].at
           n == [Idle EXCEPT !.pc = "batch", !.by = "tick", !.at = a, !.batch = b]
<1>1. a \in Times
  BY DEF FireState
<1>2. fires' = [fires EXCEPT ![h] = n]
  BY DEF Resume
<1> HIDE DEF a
<1>3. n \in FireState /\ n.pc = "batch" /\ n.by = "tick" /\ n.at = a /\ n.batch = b
  BY <1>1 DEF FireState, Idle, Times
<1> HIDE DEF n
<1>4. fires'[h] = n /\ Alone(h)
  BY <1>2, <1>3 DEF Alone
<1> QED BY <1>3, <1>4 DEF a

\* The fire of h starts.
Starts(h, f) == fires' = [fires EXCEPT ![h] = f]

\* A fire of the queue, as it starts.
Started(c, slot, at, seen) ==
  [Idle EXCEPT !.pc = "claim", !.by = "job", !.cron = c, !.slot = slot, !.at = at, !.seen = seen]

LEMMA StartFacts ==
  ASSUME fires \in [Handlers -> FireState], NEW h \in Handlers, NEW f \in FireState, Starts(h, f)
  PROVE  Alone(h) /\ fires'[h] = f
BY DEF Starts, Alone

LEMMA StartedFacts ==
  ASSUME NEW c \in Crons, NEW slot \in Times, NEW at \in Nat, NEW seen \in Remembered
  PROVE  LET f == Started(c, slot, at, seen)
         IN /\ f \in FireState /\ f.pc = "claim" /\ f.by = "job" /\ f.cron = c /\ f.slot = slot /\ f.at = at
            /\ f.seen = seen /\ f.batch = {} /\ f.next = NoTime
BY DEF Started, Idle, FireState, Times

LEMMA FireJobFacts ==
  ASSUME ShapeInv, NEW h \in Handlers, fireJob(h)
  PROVE  \/ UNCHANGED fires
         \/ \E c \in Crons :
              /\ Alone(h) /\ fires'[h] = Started(c, nextSlot(c), clock, Seen(c))
              /\ nextSlot(c) \in Nat /\ nextSlot(c) <= clock /\ crons[c].enabled
<1>1. fires \in [Handlers -> FireState] /\ jobs \subseteq Slots /\ clock \in Nat
  BY DEF ShapeInv, TypeOK
<1>2. PICK j \in jobs : /\ j[2] <= clock
                        /\ \/ UNCHANGED fires
                           \/ /\ crons[j[1]].enabled /\ nextSlot(j[1]) = j[2]
                              /\ Starts(h, Started(j[1], j[2], clock, Seen(j[1])))
  BY DEF fireJob, Started, Starts
<1>3. j[1] \in Crons /\ j[2] \in Nat
  BY <1>1 DEF Slots
<1>4. CASE UNCHANGED fires
  BY <1>4
<1>5. CASE /\ crons[j[1]].enabled /\ nextSlot(j[1]) = j[2]
           /\ Starts(h, Started(j[1], j[2], clock, Seen(j[1])))
  <2>1. Seen(j[1]) \in Remembered
    BY <1>3, CronType
  <2>2. Started(j[1], j[2], clock, Seen(j[1])) \in FireState
    <3>1. j[2] \in Times
      BY <1>3 DEF Times
    <3> QED BY <1>1, <1>3, <2>1, <3>1, StartedFacts
  <2> QED BY <1>1, <1>2, <1>3, <1>5, <2>2, StartFacts
<1> QED BY <1>2, <1>4, <1>5

\* The jobs a tick finds due, as it reads them.
Batch == {[cron |-> c, slot |-> nextSlot(c), seen |-> Seen(c)] : c \in {d \in Crons : Due(d)}}

LEMMA TickFacts ==
  ASSUME ShapeInv, NEW h \in Handlers, tick(h)
  PROVE  /\ Batch \in SUBSET [cron: Crons, slot: Nat, seen: Remembered]
         /\ \A d \in Batch : d.slot = nextSlot(d.cron) /\ d.slot <= clock
         /\ Alone(h) /\ fires'[h].pc = "batch" /\ fires'[h].by = "tick" /\ fires'[h].at = clock
         /\ fires'[h].batch = Batch
<1>1. fires \in [Handlers -> FireState] /\ clock \in Nat
  BY DEF ShapeInv, TypeOK
<1>2. ASSUME NEW c \in Crons, Due(c)
      PROVE  nextSlot(c) \in Nat /\ nextSlot(c) <= clock /\ Seen(c) \in Remembered
  BY <1>2, CronType DEF Due, Times
<1>3. Batch \in SUBSET [cron: Crons, slot: Nat, seen: Remembered]
  BY <1>2 DEF Batch
<1>4. \A d \in Batch : d.slot = nextSlot(d.cron) /\ d.slot <= clock
  BY <1>2 DEF Batch
<1> DEFINE n == [Idle EXCEPT !.pc = "batch", !.by = "tick", !.at = clock, !.batch = Batch]
<1>5. Starts(h, n)
  BY DEF tick, Starts, Batch
<1>6. n \in FireState /\ n.pc = "batch" /\ n.by = "tick" /\ n.at = clock /\ n.batch = Batch
  BY <1>1, <1>3 DEF FireState, Idle, Times
<1> HIDE DEF n
<1>7. Alone(h) /\ fires'[h] = n
  BY <1>1, <1>5, <1>6, StartFacts
<1> QED BY <1>3, <1>4, <1>6, <1>7

LEMMA FireDueFacts ==
  ASSUME ShapeInv, NEW h \in Handlers, fireDue(h)
  PROVE  \E d \in fires[h].batch :
           /\ d \in [cron: Crons, slot: Nat, seen: Remembered]
           /\ Alone(h) /\ fires'[h].pc = "fire" /\ fires'[h].cron = d.cron /\ fires'[h].slot = d.slot
           /\ fires'[h].seen = d.seen /\ fires'[h].batch = fires[h].batch \ {d}
           /\ fires'[h].by = fires[h].by /\ fires'[h].at = fires[h].at
<1>1. fires \in [Handlers -> FireState] /\ fires[h] \in FireState
  BY DEF ShapeInv, TypeOK
<1> DEFINE f == fires[h]
<1>2. PICK d \in f.batch :
        fires' = [fires EXCEPT ![h].pc = "fire", ![h].cron = d.cron, ![h].slot = d.slot,
                               ![h].seen = d.seen, ![h].batch = @ \ {d}]
  BY DEF fireDue
<1>3. d \in [cron: Crons, slot: Nat, seen: Remembered]
  BY <1>1 DEF FireState
<1> DEFINE a == [f EXCEPT !.pc = "fire"]
           b == [a EXCEPT !.cron = d.cron]
           e == [b EXCEPT !.slot = d.slot]
           s == [e EXCEPT !.seen = d.seen]
           n == [s EXCEPT !.batch = f.batch \ {d}]
<1>4. Starts(h, n)
  BY <1>1, <1>2 DEF Starts, FireState
<1>5. f \in FireState
  BY <1>1
<1> HIDE DEF f
<1>6. a \in FireState /\ a.pc = "fire" /\ a.by = f.by /\ a.at = f.at /\ a.batch = f.batch
  BY <1>5 DEF FireState
<1> HIDE DEF a
<1>7. /\ b \in FireState /\ b.pc = "fire" /\ b.by = f.by /\ b.at = f.at /\ b.batch = f.batch
      /\ b.cron = d.cron
  BY <1>3, <1>6 DEF FireState
<1> HIDE DEF b
<1>8. /\ e \in FireState /\ e.pc = "fire" /\ e.by = f.by /\ e.at = f.at /\ e.batch = f.batch
      /\ e.cron = d.cron /\ e.slot = d.slot
  BY <1>3, <1>7 DEF FireState, Times
<1> HIDE DEF e
<1>9. /\ s \in FireState /\ s.pc = "fire" /\ s.by = f.by /\ s.at = f.at /\ s.batch = f.batch
      /\ s.cron = d.cron /\ s.slot = d.slot /\ s.seen = d.seen
  BY <1>3, <1>8 DEF FireState
<1> HIDE DEF s
<1>10. /\ n \in FireState /\ n.pc = "fire" /\ n.by = f.by /\ n.at = f.at /\ n.batch = f.batch \ {d}
       /\ n.cron = d.cron /\ n.slot = d.slot /\ n.seen = d.seen
  BY <1>3, <1>5, <1>9 DEF FireState
<1> HIDE DEF n
<1>11. Alone(h) /\ fires'[h] = n
  BY <1>1, <1>4, <1>10, StartFacts
<1> QED BY <1>3, <1>10, <1>11 DEF f

LEMMA MarkFiredFacts ==
  ASSUME ShapeInv, NEW h \in Handlers, markFired(h)
  PROVE  /\ Alone(h) /\ SameFire(h) /\ fires'[h].pc = "mark" /\ fires'[h].batch = fires[h].batch
         /\ fires'[h].next = advanceNextFireAt(crons[fires[h].cron].schedule, fires[h].slot, fires[h].at)
<1> DEFINE f == fires[h]
           x == advanceNextFireAt(crons[f.cron].schedule, f.slot, f.at)
<1>1. fires \in [Handlers -> FireState] /\ f \in FireState /\ Sound(h, f, queueOn, edits, clock)
  BY DEF ShapeInv, TypeOK, SoundFires
<1>2. f.pc = "next" /\ f.by = "tick"
  BY DEF markFired, At, By
<1>3. x \in Times
  <2>1. f.cron \in Crons /\ f.slot \in Nat /\ f.at \in Nat /\ f.slot <= f.at
    BY <1>1, <1>2 DEF Sound
  <2>2. Sane(crons[f.cron].schedule)
    BY <2>1, CronType
  <2> QED BY <2>1, <2>2, AdvanceType
<1> DEFINE a == [f EXCEPT !.pc = "mark"]
           n == [a EXCEPT !.next = x]
<1>4. Starts(h, n)
  BY <1>1 DEF Starts, FireState, markFired
<1> HIDE DEF f, x
<1>5. /\ a \in FireState /\ a.pc = "mark" /\ a.by = f.by /\ a.cron = f.cron /\ a.slot = f.slot
      /\ a.at = f.at /\ a.seen = f.seen /\ a.batch = f.batch
  BY <1>1 DEF FireState
<1> HIDE DEF a
<1>6. /\ n \in FireState /\ n.pc = "mark" /\ n.by = f.by /\ n.cron = f.cron /\ n.slot = f.slot
      /\ n.at = f.at /\ n.seen = f.seen /\ n.batch = f.batch /\ n.next = x
  BY <1>3, <1>5 DEF FireState
<1> HIDE DEF n
<1>7. Alone(h) /\ fires'[h] = n
  BY <1>1, <1>4, <1>6, StartFacts
<1> QED BY <1>6, <1>7 DEF SameFire, f, x

-----------------------------------------------------------------------------
(* What a step does to the jobs *)

Retimed(c, l, n) == crons' = [crons EXCEPT ![c].lastFiredAt = l, ![c].nextFireAt = n]

Turned(c, b) == crons' = [crons EXCEPT ![c].enabled = b]

OtherCrons(c) == crons' \in [Crons -> Cron] /\ \A d \in Crons : d # c => crons'[d] = crons[d]

LEMMA RetimedFacts ==
  ASSUME ShapeInv, NEW c \in Crons, NEW l \in Times, NEW n \in Times, Retimed(c, l, n)
  PROVE  /\ OtherCrons(c) /\ crons'[c].lastFiredAt = l /\ crons'[c].nextFireAt = n
         /\ crons'[c].schedule = crons[c].schedule
<1> DEFINE f == crons[c]
           a == [f EXCEPT !.lastFiredAt = l]
           b == [a EXCEPT !.nextFireAt = n]
<1>1. crons \in [Crons -> Cron] /\ f \in Cron
  BY DEF ShapeInv, TypeOK
<1>2. crons' = [crons EXCEPT ![c] = b]
  BY <1>1 DEF Retimed, Cron
<1> HIDE DEF f
<1>3. a \in Cron /\ a.lastFiredAt = l /\ a.schedule = f.schedule
  BY <1>1 DEF Cron
<1> HIDE DEF a
<1>4. b \in Cron /\ b.lastFiredAt = l /\ b.nextFireAt = n /\ b.schedule = f.schedule
  BY <1>3 DEF Cron
<1> HIDE DEF b
<1>5. crons'[c] = b /\ OtherCrons(c)
  BY <1>1, <1>2, <1>4 DEF OtherCrons
<1> QED BY <1>4, <1>5 DEF f

LEMMA TurnedFacts ==
  ASSUME ShapeInv, NEW c \in Crons, NEW b \in BOOLEAN, Turned(c, b)
  PROVE  /\ OtherCrons(c) /\ crons'[c].lastFiredAt = crons[c].lastFiredAt
         /\ crons'[c].nextFireAt = crons[c].nextFireAt /\ crons'[c].schedule = crons[c].schedule
<1> DEFINE f == crons[c]
           a == [f EXCEPT !.enabled = b]
<1>1. crons \in [Crons -> Cron] /\ f \in Cron
  BY DEF ShapeInv, TypeOK
<1>2. crons' = [crons EXCEPT ![c] = a]
  BY <1>1 DEF Turned
<1> HIDE DEF f
<1>3. a \in Cron /\ a.lastFiredAt = f.lastFiredAt /\ a.nextFireAt = f.nextFireAt /\ a.schedule = f.schedule
  BY <1>1 DEF Cron
<1> HIDE DEF a
<1>4. crons'[c] = a /\ OtherCrons(c)
  BY <1>1, <1>2, <1>3 DEF OtherCrons
<1> QED BY <1>3, <1>4 DEF f

LEMMA UpdateFacts ==
  ASSUME ShapeInv, NEW c \in Crons, update(c)
  PROVE  /\ OtherCrons(c) /\ Sane(crons'[c].schedule) /\ edits' # 0
<1> DEFINE f == crons[c]
<1>1. crons \in [Crons -> Cron] /\ f \in Cron /\ clock \in Nat /\ edits \in Nat
  BY DEF ShapeInv, TypeOK
<1>2. edits' # 0
  BY <1>1 DEF update
<1>3. PICK s \in Schedules :
        crons' = [crons EXCEPT ![c].schedule = normalizeSchedule(s, clock).schedule,
                               ![c].nextFireAt = normalizeSchedule(s, clock).nextFireAt]
  BY DEF update
<1> DEFINE sc == normalizeSchedule(s, clock).schedule
           nx == normalizeSchedule(s, clock).nextFireAt
           a == [f EXCEPT !.schedule = sc]
           b == [a EXCEPT !.nextFireAt = nx]
<1>4. Sane(sc) /\ nx \in Nat
  BY <1>1, NormalType
<1>5. crons' = [crons EXCEPT ![c] = b]
  BY <1>1, <1>3 DEF Cron
<1> HIDE DEF f, sc, nx
<1>6. a \in Cron /\ a.schedule = sc
  BY <1>1, <1>4 DEF Cron, Sane
<1> HIDE DEF a
<1>7. b \in Cron /\ b.schedule = sc
  BY <1>4, <1>6 DEF Cron, Times
<1> HIDE DEF b
<1>8. crons'[c] = b /\ OtherCrons(c)
  BY <1>1, <1>5, <1>7 DEF OtherCrons
<1> QED BY <1>2, <1>4, <1>7, <1>8

-----------------------------------------------------------------------------
(* Types *)

\* Every fire is sound, and one that marks computed what it marks in this step or
\* did nothing.
FiresGood ==
  SoundFires' /\ \A g \in Handlers : fires'[g].pc = "mark" => fires'[g] = fires[g] \/ markFired(g)

LEMMA SoundStep ==
  ASSUME ShapeInv, NEW h \in Handlers, Alone(h), queueOn' = queueOn,
         edits' \in Nat, edits' >= edits, clock' \in Nat, clock' >= clock,
         Sound(h, fires'[h], queueOn, edits', clock'), fires'[h].pc = "mark" => markFired(h)
  PROVE  FiresGood
<1>1. /\ fires \in [Handlers -> FireState] /\ edits \in Nat /\ clock \in Nat
      /\ \A g \in Handlers : Sound(g, fires[g], queueOn, edits, clock)
  BY DEF ShapeInv, TypeOK, SoundFires
<1>2. ASSUME NEW g \in Handlers PROVE Sound(g, fires'[g], queueOn, edits', clock')
  <2>1. CASE g = h
    BY <2>1
  <2>2. CASE g # h
    <3>1. fires'[g] = fires[g] /\ Sound(g, fires[g], queueOn, edits, clock)
      BY <1>1, <2>2 DEF Alone
    <3> QED BY <1>1, <3>1 DEF Sound
  <2> QED BY <2>1, <2>2
<1> QED BY <1>2 DEF FiresGood, SoundFires, Alone

LEMMA SoundStill ==
  ASSUME ShapeInv, UNCHANGED <<fires, queueOn>>,
         edits' \in Nat, edits' >= edits, clock' \in Nat, clock' >= clock
  PROVE  FiresGood
<1>1. /\ fires \in [Handlers -> FireState] /\ edits \in Nat /\ clock \in Nat
      /\ \A g \in Handlers : Sound(g, fires[g], queueOn, edits, clock)
  BY DEF ShapeInv, TypeOK, SoundFires
<1>2. ASSUME NEW g \in Handlers PROVE Sound(g, fires[g], queueOn, edits', clock')
  BY <1>1 DEF Sound
<1> QED BY <1>1, <1>2 DEF FiresGood, SoundFires

\* What is known of a fire.
LEMMA FireType ==
  ASSUME ShapeInv, NEW h \in Handlers
  PROVE  /\ fires \in [Handlers -> FireState] /\ fires[h] \in FireState
         /\ Sound(h, fires[h], queueOn, edits, clock)
         /\ edits \in Nat /\ faults \in Nat /\ clock \in Nat
BY DEF ShapeInv, TypeOK, SoundFires

LEMMA SoundGoto ==
  ASSUME ShapeInv, NEW h \in Handlers, NEW x \in {"fire", "commit", "fired", "failed", "next"}, Goto(h, x),
         UNCHANGED <<queueOn, edits, clock>>, fires[h].pc \notin {"idle", "batch"},
         x = "failed" => By(h, "job"), x = "next" => ~By(h, "user")
  PROVE  FiresGood
<1>1. /\ fires \in [Handlers -> FireState] /\ fires[h] \in FireState
      /\ Sound(h, fires[h], queueOn, edits, clock) /\ edits \in Nat /\ clock \in Nat
  BY FireType
<1>2. x \in PCs
  BY DEF PCs
<1>3. /\ Alone(h) /\ SameFire(h) /\ fires'[h].pc = x
      /\ fires'[h].next = fires[h].next /\ fires'[h].batch = fires[h].batch
  BY <1>1, <1>2, GotoFacts
<1>4. fires'[h] \in FireState
  BY <1>3 DEF Alone
<1>5. Sound(h, fires'[h], queueOn, edits, clock)
  BY <1>1, <1>3, <1>4 DEF Sound, SameFire, By
<1> QED BY <1>1, <1>3, <1>5, SoundStep

LEMMA SoundFinish ==
  ASSUME ShapeInv, NEW h \in Handlers, Finish(h), UNCHANGED <<queueOn, edits, clock>>
  PROVE  FiresGood
<1>1. fires \in [Handlers -> FireState] /\ edits \in Nat /\ clock \in Nat
  BY FireType
<1>2. Alone(h) /\ fires'[h] = Idle
  BY <1>1, FinishFacts
<1>3. Sound(h, fires'[h], queueOn, edits, clock) /\ fires'[h].pc # "mark"
  BY <1>2, IdleFacts
<1> QED BY <1>1, <1>2, <1>3, SoundStep

LEMMA SoundResume ==
  ASSUME ShapeInv, NEW h \in Handlers, NEW b \in SUBSET fires[h].batch, Resume(h, b),
         UNCHANGED <<queueOn, edits, clock>>, By(h, "tick")
  PROVE  FiresGood
<1>1. /\ fires \in [Handlers -> FireState] /\ fires[h] \in FireState
      /\ Sound(h, fires[h], queueOn, edits, clock) /\ edits \in Nat /\ clock \in Nat
  BY FireType
<1>2. b \in SUBSET [cron: Crons, slot: Nat, seen: Remembered]
  BY <1>1 DEF FireState
<1>3. /\ Alone(h) /\ fires'[h].pc = "batch" /\ fires'[h].by = "tick" /\ fires'[h].at = fires[h].at
      /\ fires'[h].batch = b
  BY <1>1, <1>2, ResumeFacts
<1>4. fires'[h] \in FireState
  BY <1>3 DEF Alone
<1>5. Sound(h, fires'[h], queueOn, edits, clock)
  BY <1>1, <1>3, <1>4 DEF Sound, By
<1> QED BY <1>1, <1>3, <1>5, SoundStep

\* How a fire ends early, by who started it.
Breaks(h, b) ==
  CASE By(h, "job") -> Goto(h, "failed")
    [] By(h, "tick") -> Resume(h, b)
    [] By(h, "user") -> Finish(h)

LEMMA SoundFailure ==
  ASSUME ShapeInv, NEW h \in Handlers, NEW b \in SUBSET fires[h].batch,
         UNCHANGED <<queueOn, edits, clock>>, fires[h].pc \in {"fire", "commit", "fired"}, Breaks(h, b)
  PROVE  FiresGood
<1>1. fires[h] \in FireState /\ Sound(h, fires[h], queueOn, edits, clock)
  BY FireType
<1>2. By(h, "job") \/ By(h, "tick") \/ By(h, "user")
  BY <1>1 DEF By, FireState, Sound
<1>3. CASE By(h, "job")
  <2>1. Goto(h, "failed")
    BY <1>3 DEF Breaks, By
  <2> QED BY <1>3, <2>1, SoundGoto
<1>4. CASE By(h, "tick")
  <2>1. Resume(h, b)
    BY <1>4 DEF By, Breaks
  <2> QED BY <1>4, <2>1, SoundResume
<1>5. CASE By(h, "user")
  <2>1. Finish(h)
    BY <1>5 DEF By, Breaks
  <2> QED BY <1>5, <2>1, SoundFinish
<1> QED BY <1>2, <1>3, <1>4, <1>5

LEMMA SoundNext ==
  ASSUME ShapeInv, [Next]_vars
  PROVE  FiresGood
<1>1. edits \in Nat /\ clock \in Nat /\ fires \in [Handlers -> FireState]
  BY DEF ShapeInv, TypeOK
<1>2. ASSUME UNCHANGED fires, UNCHANGED queueOn, edits' = edits \/ edits' = edits + 1,
             clock' = clock \/ clock' = clock + 1
      PROVE  FiresGood
  BY <1>1, <1>2, SoundStill
<1>3. CASE UNCHANGED vars
  BY <1>2, <1>3 DEF vars, bounds
<1>4. CASE \E c \in Crons : reconcile(c) \/ update(c) \/ setEnabled(c)
  <2>1. UNCHANGED fires /\ UNCHANGED queueOn /\ UNCHANGED clock
    BY <1>4 DEF reconcile, update, setEnabled, bounds
  <2>2. edits' = edits \/ edits' = edits + 1
    BY <1>4 DEF reconcile, update, setEnabled, bounds
  <2> QED BY <1>2, <2>1, <2>2
<1>5. CASE loseLease \/ advance \/ \E p \in Procs : leaseGuard(p)
  BY <1>2, <1>5 DEF loseLease, advance, leaseGuard, bounds
<1>6. ASSUME NEW h \in Handlers, fireJob(h) PROVE FiresGood
  <2>1. UNCHANGED <<queueOn, edits, clock>> /\ queueOn[ProcOf[h]]
    BY <1>6 DEF fireJob, bounds
  <2>2. CASE UNCHANGED fires
    BY <1>2, <2>1, <2>2
  <2>3. CASE \E c \in Crons :
               /\ Alone(h) /\ fires'[h] = Started(c, nextSlot(c), clock, Seen(c))
               /\ nextSlot(c) \in Nat /\ nextSlot(c) <= clock /\ crons[c].enabled
    <3>1. PICK c \in Crons :
               /\ Alone(h) /\ fires'[h] = Started(c, nextSlot(c), clock, Seen(c))
               /\ nextSlot(c) \in Nat /\ nextSlot(c) <= clock
      BY <2>3
    <3>2. Seen(c) \in Remembered /\ nextSlot(c) \in Times
      BY CronType
    <3>3. LET f == fires'[h] IN
            /\ f \in FireState /\ f.pc = "claim" /\ f.by = "job" /\ f.cron = c /\ f.slot = nextSlot(c) /\ f.at = clock
            /\ f.seen = Seen(c) /\ f.batch = {}
      BY <1>1, <3>1, <3>2, StartedFacts
    <3>4. Sound(h, fires'[h], queueOn, edits, clock)
      BY <1>1, <2>1, <3>1, <3>2, <3>3 DEF Sound
    <3> QED BY <1>1, <2>1, <3>1, <3>3, <3>4, SoundStep
  <2> QED BY <1>6, <2>2, <2>3, FireJobFacts
<1>7. ASSUME NEW h \in Handlers, tick(h) PROVE FiresGood
  <2>1. UNCHANGED <<queueOn, edits, clock>> /\ ~queueOn[ProcOf[h]]
    BY <1>7 DEF tick, bounds
  <2>2. /\ \A d \in Batch : d.slot <= clock
        /\ Alone(h) /\ fires'[h].pc = "batch" /\ fires'[h].by = "tick" /\ fires'[h].at = clock
        /\ fires'[h].batch = Batch
    BY <1>7, TickFacts
  <2>3. fires'[h] \in FireState
    BY <2>2 DEF Alone
  <2>4. Sound(h, fires'[h], queueOn, edits, clock)
    BY <1>1, <2>1, <2>2, <2>3 DEF Sound
  <2> QED BY <1>1, <2>1, <2>2, <2>4, SoundStep
<1>8. ASSUME NEW h \in Handlers, runNow(h) PROVE FiresGood
  <2>1. UNCHANGED <<queueOn, clock>> /\ edits' = edits + 1
    BY <1>8 DEF runNow
  <2>2. PICK c \in Crons :
          Starts(h, [Idle EXCEPT !.pc = "fire", !.by = "user", !.cron = c, !.at = clock, !.seen = Seen(c)])
    BY <1>8 DEF runNow, Starts
  <2> DEFINE s == Seen(c)
             f == [Idle EXCEPT !.pc = "fire", !.by = "user", !.cron = c, !.at = clock, !.seen = s]
  <2>3. s \in Remembered
    BY CronType
  <2> HIDE DEF s
  <2>4. /\ f \in FireState /\ f.pc = "fire" /\ f.by = "user" /\ f.cron = c /\ f.at = clock
        /\ f.seen = s /\ f.batch = {}
    BY <1>1, <2>3 DEF Idle, FireState, Times
  <2> HIDE DEF f
  <2>5. Starts(h, f)
    BY <2>2 DEF f, s
  <2>6. Alone(h) /\ fires'[h] = f
    BY <1>1, <2>4, <2>5, StartFacts
  <2>7. Sound(h, fires'[h], queueOn, edits', clock)
    BY <1>1, <2>1, <2>3, <2>4, <2>6 DEF Sound
  <2> QED BY <1>1, <2>1, <2>4, <2>6, <2>7, SoundStep
<1>9. ASSUME NEW h \in Handlers, Fire(h) \/ authzFails(h) \/ throws(h) PROVE FiresGood
  <2>1. fires[h] \in FireState /\ Sound(h, fires[h], queueOn, edits, clock)
    BY FireType
  <2>2. UNCHANGED <<queueOn, edits, clock>>
    BY <1>9 DEF Fire, authzFails, throws, claimSlot, unclaimSlot, enqueueNext, fireDue, endTick, markFired,
                markFiredMerge, once, commit, fired, bounds
  <2>3. CASE claimSlot(h)
    <3>1. CASE Goto(h, "fire")
      BY <2>2, <2>3, <3>1, SoundGoto DEF claimSlot, At
    <3>2. CASE Finish(h)
      BY <2>2, <3>2, SoundFinish
    <3> QED BY <2>3, <3>1, <3>2 DEF claimSlot
  <2>4. CASE unclaimSlot(h) \/ enqueueNext(h) \/ endTick(h)
    <3>1. Finish(h)
      BY <2>4 DEF unclaimSlot, enqueueNext, endTick
    <3> QED BY <2>2, <3>1, SoundFinish
  <2>5. CASE fireDue(h)
    <3>1. PICK d \in fires[h].batch :
           /\ d \in [cron: Crons, slot: Nat, seen: Remembered]
           /\ Alone(h) /\ fires'[h].pc = "fire" /\ fires'[h].cron = d.cron /\ fires'[h].slot = d.slot
           /\ fires'[h].seen = d.seen /\ fires'[h].batch = fires[h].batch \ {d}
           /\ fires'[h].by = fires[h].by /\ fires'[h].at = fires[h].at
      BY <2>5, FireDueFacts
    <3>2. fires[h].pc = "batch" /\ fires'[h] \in FireState
      BY <2>5, <3>1 DEF fireDue, At, Alone
    <3>3. Sound(h, fires'[h], queueOn, edits, clock)
      BY <2>1, <3>1, <3>2 DEF Sound
    <3> QED BY <1>1, <2>2, <3>1, <3>3, SoundStep
  <2>6. CASE markFired(h)
    <3>1. /\ Alone(h) /\ SameFire(h) /\ fires'[h].pc = "mark" /\ fires'[h].batch = fires[h].batch
      BY <2>6, MarkFiredFacts
    <3>2. fires[h].pc = "next" /\ fires[h].by = "tick" /\ fires'[h] \in FireState
      BY <2>6, <3>1 DEF markFired, At, By, Alone
    <3>3. Sound(h, fires'[h], queueOn, edits, clock)
      BY <2>1, <3>1, <3>2 DEF Sound, SameFire
    <3> QED BY <1>1, <2>2, <2>6, <3>1, <3>3, SoundStep
  <2>7. CASE markFiredMerge(h)
    <3>1. Resume(h, fires[h].batch) /\ By(h, "tick")
      BY <2>1, <2>7 DEF markFiredMerge, At, By, Sound
    <3> QED BY <2>2, <3>1, SoundResume
  <2>8. CASE once(h)
    <3>1. PICK x \in {"fired", "commit"} : Goto(h, x)
      BY <2>8 DEF once
    <3> QED BY <2>2, <2>8, <3>1, SoundGoto DEF once, At
  <2>9. CASE commit(h)
    BY <2>2, <2>9, SoundGoto DEF commit, At
  <2>10. CASE fired(h)
    <3>1. CASE By(h, "user")
      <4>1. Finish(h)
        BY <2>10, <3>1 DEF fired
      <4> QED BY <2>2, <4>1, SoundFinish
    <3>2. CASE ~By(h, "user")
      BY <2>2, <2>10, <3>2, SoundGoto DEF fired, At
    <3> QED BY <3>1, <3>2
  <2>11. CASE authzFails(h)
    <3> DEFINE b == fires[h].batch
    <3>1. Breaks(h, b)
      BY <2>11 DEF authzFails, Breaks
    <3>2. fires[h].pc = "fire"
      BY <2>11 DEF authzFails, At
    <3> HIDE DEF b
    <3> QED BY <2>2, <3>1, <3>2, SoundFailure DEF b
  <2>12. CASE throws(h)
    <3> DEFINE b == {}
    <3>1. Breaks(h, b)
      BY <2>12 DEF throws, Breaks
    <3>2. fires[h].pc \in {"fire", "commit", "fired"}
      BY <2>12 DEF throws
    <3> HIDE DEF b
    <3> QED BY <2>2, <3>1, <3>2, SoundFailure DEF b
  <2> QED BY <1>9, <2>3, <2>4, <2>5, <2>6, <2>7, <2>8, <2>9, <2>10, <2>11, <2>12 DEF Fire
<1>10. ASSUME NEW p \in Procs, crash(p) PROVE FiresGood
  <2>1. UNCHANGED <<queueOn, edits, clock>>
    BY <1>10 DEF crash
  <2>2. fires' = [h \in Handlers |-> IF h \in HeldBy(p) THEN Idle ELSE fires[h]]
    BY <1>10 DEF crash
  <2>3. ASSUME NEW h \in Handlers
        PROVE  fires'[h] \in FireState /\ Sound(h, fires'[h], queueOn, edits, clock)
    <3>1. fires[h] \in FireState /\ Sound(h, fires[h], queueOn, edits, clock)
      BY FireType
    <3>2. fires'[h] = Idle \/ fires'[h] = fires[h]
      BY <2>2
    <3> QED BY <3>1, <3>2, IdleFacts
  <2>4. fires' \in [Handlers -> FireState]
    BY <2>2, <2>3
  <2> QED BY <2>1, <2>2, <2>3, <2>4, IdleFacts DEF FiresGood, SoundFires
<1> QED BY <1>3, <1>4, <1>5, <1>6, <1>7, <1>8, <1>9, <1>10 DEF Next

\* The schedules stay what they were, unless somebody edits a job.
SameSchedules == \A c \in Crons : crons'[c].schedule = crons[c].schedule

CronsGood == crons' \in [Crons -> Cron] /\ Periodic' /\ (edits' = 0 => SameSchedules)

LEMMA RetimedGood ==
  ASSUME ShapeInv, NEW c \in Crons, NEW l \in Times, NEW n \in Times, Retimed(c, l, n), UNCHANGED edits,
         edits = 0 /\ n = NoTime => crons[c].schedule.kind = "once" /\ l # NoTime
  PROVE  CronsGood
<1>1. /\ OtherCrons(c) /\ crons'[c].lastFiredAt = l /\ crons'[c].nextFireAt = n
      /\ crons'[c].schedule = crons[c].schedule
  BY RetimedFacts
<1>2. SameSchedules
  BY <1>1 DEF OtherCrons, SameSchedules
<1>3. Periodic
  BY DEF ShapeInv
<1>4. Periodic'
  BY <1>1, <1>2, <1>3 DEF Periodic, OtherCrons, SameSchedules
<1> QED BY <1>1, <1>2, <1>4 DEF CronsGood, OtherCrons

LEMMA TurnedGood ==
  ASSUME ShapeInv, NEW c \in Crons, NEW b \in BOOLEAN, Turned(c, b),
         edits' = edits \/ edits' = edits + 1
  PROVE  CronsGood
<1>1. /\ OtherCrons(c) /\ crons'[c].lastFiredAt = crons[c].lastFiredAt
      /\ crons'[c].nextFireAt = crons[c].nextFireAt /\ crons'[c].schedule = crons[c].schedule
  BY TurnedFacts
<1>2. SameSchedules
  BY <1>1 DEF OtherCrons, SameSchedules
<1>3. Periodic /\ edits \in Nat
  BY DEF ShapeInv, TypeOK
<1>4. Periodic'
  BY <1>1, <1>2, <1>3 DEF Periodic, OtherCrons, SameSchedules
<1> QED BY <1>1, <1>2, <1>4 DEF CronsGood, OtherCrons

LEMMA StillGood ==
  ASSUME ShapeInv, UNCHANGED crons, edits' = edits \/ edits' = edits + 1
  PROVE  CronsGood
<1>1. Periodic /\ edits \in Nat /\ crons \in [Crons -> Cron]
  BY DEF ShapeInv, TypeOK
<1> QED BY <1>1 DEF CronsGood, Periodic, SameSchedules

\* The slot of a fire that claims, failed or marks, and the one after it.
LEMMA SlotType ==
  ASSUME ShapeInv, NEW h \in Handlers, fires[h].pc \notin {"idle", "batch"}, ~By(h, "user")
  PROVE  LET f == fires[h] n == advanceNextFireAt(crons[f.cron].schedule, f.slot, f.at)
         IN /\ f.cron \in Crons /\ f.slot \in Nat /\ f.at \in Nat /\ f.slot <= f.at /\ f.at <= clock
            /\ f.seen \in Remembered /\ f.seen.lastFiredAt \in Times
            /\ n \in Times /\ (n = NoTime <=> crons[f.cron].schedule.kind = "once")
            /\ n # NoTime => n \in Nat /\ n > f.slot
            /\ crons[f.cron].schedule.kind = "every" => n = f.at + crons[f.cron].schedule.every
<1> DEFINE f == fires[h]
<1>1. Sound(h, f, queueOn, edits, clock)
  BY FireType
<1>2. /\ f.cron \in Crons /\ f.slot \in Nat /\ f.at \in Nat /\ f.slot <= f.at /\ f.at <= clock
      /\ f.seen \in Remembered
  BY <1>1 DEF Sound, By
<1>3. f.seen.lastFiredAt \in Times
  BY <1>2 DEF Remembered
<1> HIDE DEF f
<1>4. Sane(crons[f.cron].schedule)
  BY <1>2, CronType
<1> QED BY <1>2, <1>3, <1>4, AdvanceType DEF f

LEMMA CronsNext ==
  ASSUME ShapeInv, [Next]_vars
  PROVE  CronsGood
<1>1. edits \in Nat
  BY DEF ShapeInv, TypeOK
<1>2. CASE UNCHANGED vars
  <2>1. UNCHANGED crons /\ UNCHANGED edits
    BY <1>2 DEF vars, store, bounds
  <2> QED BY <2>1, StillGood
<1>3. ASSUME NEW c \in Crons, reconcile(c) PROVE CronsGood
  BY <1>3, StillGood DEF reconcile, bounds
<1>4. ASSUME NEW c \in Crons, update(c) PROVE CronsGood
  <2>1. OtherCrons(c) /\ Sane(crons'[c].schedule) /\ edits' # 0
    BY <1>4, UpdateFacts
  <2>2. Periodic
    BY DEF ShapeInv
  <2>3. Periodic'
    BY <2>1, <2>2 DEF Periodic, OtherCrons, Sane
  <2> QED BY <2>1, <2>3 DEF CronsGood, OtherCrons
<1>5. ASSUME NEW c \in Crons, setEnabled(c) PROVE CronsGood
  <2>1. (~crons[c].enabled) \in BOOLEAN
    OBVIOUS
  <2>2. Turned(c, ~crons[c].enabled) /\ edits' = edits + 1
    BY <1>5 DEF setEnabled, Turned
  <2> QED BY <2>1, <2>2, TurnedGood
<1>6. ASSUME NEW h \in Handlers, fireJob(h) \/ tick(h) \/ runNow(h) PROVE CronsGood
  <2>1. UNCHANGED crons
    BY <1>6 DEF fireJob, tick, runNow, store
  <2>2. edits' = edits \/ edits' = edits + 1
    BY <1>6 DEF fireJob, tick, runNow, bounds
  <2> QED BY <2>1, <2>2, StillGood
<1>7. ASSUME NEW h \in Handlers, Fire(h) PROVE CronsGood
  <2> DEFINE f == fires[h]
             n == advanceNextFireAt(crons[f.cron].schedule, f.slot, f.at)
  <2>1. Sound(h, f, queueOn, edits, clock)
    BY FireType
  <2>2. UNCHANGED edits
    BY <1>7 DEF Fire, claimSlot, unclaimSlot, enqueueNext, fireDue, endTick, markFired,
                markFiredMerge, once, commit, fired, bounds
  <2>3. CASE claimSlot(h)
    <3>1. f.pc = "claim" /\ ~By(h, "user")
      BY <2>1, <2>3 DEF claimSlot, At, By, Sound
    <3>2. /\ f.cron \in Crons /\ f.at \in Nat /\ n \in Times
          /\ n = NoTime => crons[f.cron].schedule.kind = "once"
      BY <3>1, SlotType
    <3>3. f.at \in Times /\ f.at # NoTime
      BY <3>2 DEF Times
    <3>4. CASE Retimed(f.cron, f.at, n)
      BY <2>2, <3>2, <3>3, <3>4, RetimedGood
    <3>5. CASE UNCHANGED crons
      BY <2>2, <3>5, StillGood
    <3> QED BY <2>3, <3>4, <3>5 DEF claimSlot, Retimed
  <2>4. CASE unclaimSlot(h)
    <3>1. f.pc = "failed" /\ ~By(h, "user")
      BY <2>1, <2>4 DEF unclaimSlot, At, By, Sound
    <3>2. f.cron \in Crons /\ f.slot \in Nat /\ f.seen.lastFiredAt \in Times
      BY <3>1, SlotType
    <3>3. f.slot \in Times /\ f.slot # NoTime
      BY <3>2 DEF Times
    <3>4. CASE Retimed(f.cron, f.seen.lastFiredAt, f.slot)
      BY <2>2, <3>2, <3>3, <3>4, RetimedGood
    <3>5. CASE UNCHANGED crons
      BY <2>2, <3>5, StillGood
    <3> QED BY <2>4, <3>4, <3>5 DEF unclaimSlot, Retimed
  <2>5. CASE enqueueNext(h) \/ fireDue(h) \/ endTick(h) \/ markFired(h) \/ once(h) \/ commit(h)
    <3>1. UNCHANGED crons
      BY <2>5 DEF enqueueNext, fireDue, endTick, markFired, once, commit, store
    <3> QED BY <2>2, <3>1, StillGood
  <2>6. CASE markFiredMerge(h)
    <3>1. f.pc = "mark" /\ ~By(h, "user") /\ f \in FireState
      BY <2>1, <2>6 DEF markFiredMerge, At, By, Sound
    <3>2. f.cron \in Crons /\ f.at \in Nat
      BY <3>1, SlotType
    <3>3. f.at \in Times /\ f.at # NoTime /\ f.next \in Times
      BY <3>1, <3>2 DEF Times, FireState
    <3>4. edits = 0 /\ f.next = NoTime => crons[f.cron].schedule.kind = "once"
      BY <3>1 DEF ShapeInv, MarksNext
    <3>5. Retimed(f.cron, f.at, f.next)
      BY <2>6 DEF markFiredMerge, Retimed
    <3> QED BY <2>2, <3>2, <3>3, <3>4, <3>5, RetimedGood
  <2>7. CASE fired(h)
    <3>1. f.cron \in Crons
      BY <2>1, <2>7 DEF fired, At, Sound
    <3>2. CASE Turned(f.cron, FALSE)
      BY <2>2, <3>1, <3>2, TurnedGood
    <3>3. CASE UNCHANGED crons
      BY <2>2, <3>3, StillGood
    <3> QED BY <2>7, <3>2, <3>3 DEF fired, Turned
  <2> QED BY <1>7, <2>3, <2>4, <2>5, <2>6, <2>7 DEF Fire
<1>8. ASSUME NEW h \in Handlers, authzFails(h) PROVE CronsGood
  <2>1. Sound(h, fires[h], queueOn, edits, clock)
    BY FireType
  <2>2. fires[h].cron \in Crons
    BY <1>8, <2>1 DEF authzFails, At, Sound
  <2>3. Turned(fires[h].cron, FALSE) /\ UNCHANGED edits
    BY <1>8 DEF authzFails, Turned
  <2> QED BY <2>2, <2>3, TurnedGood
<1>9. ASSUME NEW h \in Handlers, throws(h) PROVE CronsGood
  BY <1>9, StillGood DEF throws, store
<1>10. ASSUME NEW p \in Procs, leaseGuard(p) \/ crash(p) PROVE CronsGood
  <2>1. UNCHANGED <<crons, edits>>
    BY <1>10 DEF leaseGuard, crash, store, bounds
  <2> QED BY <2>1, StillGood
<1>11. CASE loseLease \/ advance
  <2>1. UNCHANGED <<crons, edits>>
    BY <1>11 DEF loseLease, advance, store, bounds
  <2> QED BY <2>1, StillGood
<1> QED BY <1>2, <1>3, <1>4, <1>5, <1>6, <1>7, <1>8, <1>9, <1>10, <1>11 DEF Next

\* The counters and the modes.
LEMMA PlainNext ==
  ASSUME ShapeInv, [Next]_vars
  PROVE  /\ clock' \in Nat /\ clock' >= clock /\ lease' \in Procs \cup {NoProc} /\ queueOn' = queueOn
         /\ upset' \in BOOLEAN /\ (upset => upset')
         /\ edits' \in 0..MaxEdits /\ edits' >= edits /\ faults' \in 0..MaxFaults
<1>1. /\ clock \in Nat /\ lease \in Procs \cup {NoProc} /\ upset \in BOOLEAN
      /\ edits \in 0..MaxEdits /\ faults \in 0..MaxFaults
  BY DEF ShapeInv, TypeOK
<1>2. CASE UNCHANGED vars
  BY <1>1, <1>2 DEF vars, bounds
<1>3. CASE \E c \in Crons : reconcile(c) \/ update(c) \/ setEnabled(c)
  BY <1>1, <1>3 DEF reconcile, update, setEnabled, bounds
<1>4. ASSUME NEW h \in Handlers, fireJob(h) \/ tick(h) \/ runNow(h)
      PROVE  /\ UNCHANGED <<clock, queueOn, upset, faults>> /\ lease' \in Procs \cup {NoProc}
             /\ edits' \in 0..MaxEdits /\ edits' >= edits
  <2>1. UNCHANGED <<clock, queueOn, upset, faults>>
    BY <1>4 DEF fireJob, tick, runNow, bounds
  <2>2. lease' = lease \/ lease' = ProcOf[h]
    BY <1>4 DEF fireJob, tick, runNow
  <2>3. UNCHANGED edits \/ (edits < MaxEdits /\ edits' = edits + 1)
    BY <1>4 DEF fireJob, tick, runNow, bounds
  <2> QED BY <1>1, <2>1, <2>2, <2>3
<1>5. ASSUME NEW h \in Handlers, Fire(h)
      PROVE  /\ UNCHANGED <<clock, queueOn, faults, edits>> /\ lease' \in Procs \cup {NoProc}
             /\ upset' \in BOOLEAN /\ (upset => upset')
  <2>1. UNCHANGED <<clock, queueOn, faults, edits>>
    BY <1>5 DEF Fire, claimSlot, unclaimSlot, enqueueNext, fireDue, endTick, markFired,
                markFiredMerge, once, commit, fired, bounds
  <2>2. lease' \in Procs \cup {NoProc}
    BY <1>1, <1>5 DEF Fire, claimSlot, unclaimSlot, enqueueNext, fireDue, endTick, markFired,
                      markFiredMerge, once, commit, fired, Unheld
  <2>3. upset' \in BOOLEAN /\ (upset => upset')
    <3>1. CASE claimSlot(h)
      <4>1. \/ UNCHANGED upset
            \/ upset' = (upset \/ \E d \in claims : d.cron = fires[h].cron /\ d.at = fires[h].at
                                                     /\ d.slot # fires[h].slot)
        BY <3>1 DEF claimSlot
      <4> QED BY <1>1, <4>1
    <3>2. CASE ~claimSlot(h)
      BY <1>1, <1>5, <3>2 DEF Fire, unclaimSlot, enqueueNext, fireDue, endTick, markFired,
                              markFiredMerge, once, commit, fired
    <3> QED BY <3>1, <3>2
  <2> QED BY <2>1, <2>2, <2>3
<1>6. ASSUME NEW h \in Handlers, authzFails(h) \/ throws(h)
      PROVE  UNCHANGED <<clock, queueOn, lease, upset, edits>> /\ faults' \in 0..MaxFaults
  <2>1. UNCHANGED <<clock, queueOn, lease, upset, edits>> /\ Fault
    BY <1>6 DEF authzFails, throws
  <2> QED BY <1>1, <2>1 DEF Fault
<1>7. ASSUME NEW p \in Procs, leaseGuard(p) \/ crash(p)
      PROVE  /\ UNCHANGED <<clock, queueOn, upset, edits>> /\ faults' \in 0..MaxFaults
             /\ lease' \in Procs \cup {NoProc}
  <2>1. UNCHANGED <<clock, queueOn, upset, edits>> /\ (UNCHANGED faults \/ Fault)
    BY <1>7 DEF leaseGuard, crash, bounds
  <2>2. lease' \in {p, NoProc, lease}
    BY <1>7 DEF leaseGuard, crash
  <2> QED BY <1>1, <2>1, <2>2 DEF Fault
<1>8. CASE loseLease \/ advance
  <2>1. UNCHANGED <<queueOn, edits>> /\ (UNCHANGED faults \/ Fault)
    BY <1>8 DEF loseLease, advance, bounds
  <2>2. (clock' = clock + 1 \/ UNCHANGED clock) /\ lease' \in {NoProc, lease}
    BY <1>8 DEF loseLease, advance
  <2>3. upset' = TRUE \/ UNCHANGED upset
    BY <1>8 DEF loseLease, advance
  <2>4. upset' \in BOOLEAN /\ (upset => upset')
    BY <1>1, <2>3
  <2>5. faults' \in 0..MaxFaults
    BY <1>1, <2>1 DEF Fault
  <2>6. /\ clock' \in Nat /\ clock' >= clock /\ lease' \in Procs \cup {NoProc} /\ queueOn' = queueOn
        /\ edits' \in 0..MaxEdits /\ edits' >= edits
    BY <1>1, <2>1, <2>2
  <2> QED BY <2>4, <2>5, <2>6
<1> QED BY <1>1, <1>2, <1>3, <1>4, <1>5, <1>6, <1>7, <1>8 DEF Next

LEMMA KeyType ==
  ASSUME ShapeInv, NEW h \in Handlers, fires[h].pc \notin {"idle", "batch"}, ~By(h, "user")
  PROVE  Key(fires[h]) \in Slots /\ Fired(fires[h]) \in Fires
BY SlotType DEF Key, Fired, Slots, Fires

LEMMA StoreNext ==
  ASSUME ShapeInv, [Next]_vars
  PROVE  jobs' \subseteq Slots /\ committed' \subseteq Slots /\ owed' \subseteq Slots
<1>1. jobs \subseteq Slots /\ committed \subseteq Slots /\ owed \subseteq Slots
  BY DEF ShapeInv, TypeOK
<1>2. \A c \in Crons : Slot(c) \subseteq Slots /\ Enqueued(c) \subseteq Slots
  BY <1>1, CronType DEF Enqueued
<1>3. CASE UNCHANGED vars
  BY <1>1, <1>3 DEF vars, store, hist
<1>4. CASE \E c \in Crons : reconcile(c) \/ update(c) \/ setEnabled(c)
  BY <1>1, <1>2, <1>4 DEF reconcile, update, setEnabled, hist
<1>5. ASSUME NEW h \in Handlers, fireJob(h) \/ tick(h) \/ runNow(h)
      PROVE  jobs' \subseteq Slots /\ committed' \subseteq Slots /\ owed' \subseteq Slots
  <2>1. jobs' \subseteq Slots /\ UNCHANGED committed
    BY <1>1, <1>5 DEF fireJob, tick, runNow, store
  <2>2. \/ UNCHANGED owed
        \/ owed' = owed \cup (UNION {Slot(c) : c \in {d \in Crons : Due(d)}} \ committed)
    BY <1>5 DEF fireJob, tick, runNow, hist
  <2>3. owed' \subseteq Slots
    BY <1>1, <1>2, <2>2
  <2> QED BY <1>1, <2>1, <2>3
<1>6. ASSUME NEW h \in Handlers, Fire(h)
      PROVE  jobs' \subseteq Slots /\ committed' \subseteq Slots /\ owed' \subseteq Slots
  <2>1. Sound(h, fires[h], queueOn, edits, clock)
    BY FireType
  <2>2. CASE claimSlot(h)
    <3>1. Key(fires[h]) \in Slots
      BY <2>1, <2>2, KeyType DEF claimSlot, At, By, Sound
    <3> QED BY <1>1, <2>2, <3>1 DEF claimSlot
  <2>3. CASE commit(h)
    <3>1. By(h, "user") \/ Key(fires[h]) \in Slots
      BY <2>3, KeyType DEF commit, At
    <3> QED BY <1>1, <2>3, <3>1 DEF commit, Record
  <2>4. CASE enqueueNext(h)
    <3>1. fires[h].cron \in Crons
      BY <2>1, <2>4 DEF enqueueNext, At, Sound
    <3> QED BY <1>1, <1>2, <2>4, <3>1 DEF enqueueNext, hist
  <2>5. CASE unclaimSlot(h) \/ markFiredMerge(h)
    BY <1>1, <2>5 DEF unclaimSlot, markFiredMerge
  <2>6. CASE fireDue(h) \/ endTick(h) \/ markFired(h) \/ once(h) \/ fired(h)
    BY <1>1, <2>6 DEF fireDue, endTick, markFired, once, fired, store, hist
  <2> QED BY <1>6, <2>2, <2>3, <2>4, <2>5, <2>6 DEF Fire
<1>7. ASSUME NEW h \in Handlers, authzFails(h) \/ throws(h)
      PROVE  UNCHANGED <<jobs, committed, owed>>
  BY <1>7 DEF authzFails, throws, store, hist
<1>8. CASE \E p \in Procs : leaseGuard(p) \/ crash(p)
  BY <1>1, <1>8 DEF leaseGuard, crash, store, hist
<1>9. CASE loseLease \/ advance
  BY <1>1, <1>9 DEF loseLease, advance, store, hist
<1> QED BY <1>1, <1>3, <1>4, <1>5, <1>6, <1>7, <1>8, <1>9 DEF Next

HistGood ==
  /\ done' \subseteq Fires /\ claims' \subseteq Fires /\ twice' \subseteq Slots /\ unsure' \subseteq Slots
  /\ undone' \subseteq Slots
  /\ InTime'

LEMMA HistNext ==
  ASSUME ShapeInv, [Next]_vars
  PROVE  HistGood
<1>1. /\ done \subseteq Fires /\ claims \subseteq Fires /\ twice \subseteq Slots /\ unsure \subseteq Slots
      /\ undone \subseteq Slots /\ committed \subseteq Slots /\ clock \in Nat /\ InTime
  BY DEF ShapeInv, TypeOK
<1>2. clock' \in Nat /\ clock' >= clock
  BY PlainNext
<1>3. ASSUME UNCHANGED done PROVE InTime'
  <2>1. \A d \in done : d.at \in Nat
    BY <1>1 DEF Fires
  <2> QED BY <1>1, <1>2, <1>3, <2>1 DEF InTime
<1>4. ASSUME UNCHANGED <<done, twice, unsure, undone, claims>> PROVE HistGood
  BY <1>1, <1>3, <1>4 DEF HistGood
<1>5. ASSUME Forget PROVE HistGood
  BY <1>5 DEF HistGood, Forget, InTime
<1>6. CASE UNCHANGED vars
  BY <1>4, <1>6 DEF vars, hist
<1>7. ASSUME NEW c \in Crons, reconcile(c) \/ update(c) \/ setEnabled(c) PROVE HistGood
  BY <1>4, <1>5, <1>7 DEF reconcile, update, setEnabled, hist
<1>8. ASSUME NEW h \in Handlers, fireJob(h) \/ tick(h) \/ runNow(h) PROVE HistGood
  BY <1>4, <1>5, <1>8 DEF fireJob, tick, runNow, hist
<1>9. ASSUME NEW h \in Handlers, claimSlot(h) PROVE HistGood
  <2>1. Sound(h, fires[h], queueOn, edits, clock)
    BY FireType
  <2>2. Fired(fires[h]) \in Fires
    BY <1>9, <2>1, KeyType DEF claimSlot, At, By, Sound
  <2>3. UNCHANGED <<done, twice, unsure, undone>> /\ claims' \subseteq claims \cup {Fired(fires[h])}
    BY <1>9 DEF claimSlot, Kept
  <2> QED BY <1>1, <1>3, <2>2, <2>3 DEF HistGood
<1>10. ASSUME NEW h \in Handlers, once(h) PROVE HistGood
  <2> DEFINE f == fires[h]
  <2>1. CASE UNCHANGED <<done, twice>>
    BY <1>4, <1>10, <2>1 DEF once
  <2>2. CASE ~(UNCHANGED <<done, twice>>)
    <3>1. ~By(h, "user") /\ f.pc = "fire"
      BY <1>10, <2>2 DEF once, At
    <3>2. /\ done' \subseteq done \cup {Fired(f)} /\ twice' \subseteq twice \cup {Key(f)}
          /\ UNCHANGED <<unsure, undone, claims, clock>>
      BY <1>10, <2>2 DEF once, Kept
    <3>3. Key(f) \in Slots /\ Fired(f) \in Fires
      BY <3>1, KeyType
    <3>4. f.slot <= f.at /\ f.at <= clock
      BY <3>1, SlotType
    <3>5. Fired(f).slot <= Fired(f).at /\ Fired(f).at <= clock
      BY <3>4 DEF Fired
    <3> HIDE DEF f
    <3> QED BY <1>1, <3>2, <3>3, <3>5 DEF HistGood, InTime
  <2> QED BY <2>1, <2>2
<1>11. ASSUME NEW h \in Handlers, throws(h) PROVE HistGood
  <2>1. UNCHANGED <<done, twice, undone, claims>> /\ unsure' \subseteq unsure \cup Unsure({h})
    BY <1>11 DEF throws, Kept
  <2>2. Unsure({h}) \subseteq Slots
    BY KeyType DEF Unsure, At
  <2> QED BY <1>1, <1>3, <2>1, <2>2 DEF HistGood
<1>12. ASSUME NEW p \in Procs, crash(p) PROVE HistGood
  <2>1. UNCHANGED <<done, twice, undone, claims>> /\ unsure' \subseteq unsure \cup Unsure(HeldBy(p))
    BY <1>12 DEF crash, Kept
  <2>2. Unsure(HeldBy(p)) \subseteq Slots
    BY KeyType DEF Unsure, At, HeldBy
  <2> QED BY <1>1, <1>3, <2>1, <2>2 DEF HistGood
<1>13. ASSUME NEW h \in Handlers,
              \/ enqueueNext(h) \/ fireDue(h) \/ endTick(h) \/ markFired(h) \/ markFiredMerge(h)
              \/ commit(h) \/ fired(h) \/ authzFails(h)
       PROVE  HistGood
  BY <1>4, <1>13 DEF enqueueNext, fireDue, endTick, markFired, markFiredMerge, commit, fired,
                     authzFails, hist
<1>14. ASSUME NEW p \in Procs, leaseGuard(p) PROVE HistGood
  BY <1>4, <1>14 DEF leaseGuard, hist
<1>15. CASE loseLease \/ advance
  BY <1>4, <1>5, <1>15 DEF loseLease, advance, hist
<1>16. ASSUME NEW h \in Handlers, unclaimSlot(h) PROVE HistGood
  <2>1. UNCHANGED <<done, twice, unsure, claims>> /\ undone' \subseteq undone \cup committed
    BY <1>16 DEF unclaimSlot, Kept
  <2> QED BY <1>1, <1>3, <2>1 DEF HistGood
<1> QED BY <1>6, <1>7, <1>8, <1>9, <1>10, <1>11, <1>12, <1>13, <1>14, <1>15, <1>16 DEF Next, Fire

LEMMA ShapeInit == Init => ShapeInv
<1> SUFFICES ASSUME Init PROVE ShapeInv
  OBVIOUS
<1>1. \A c \in Crons : \E s \in Schedules :
        crons[c] = [enabled |-> TRUE, createdAt |-> 0, lastFiredAt |-> NoTime,
                    schedule |-> normalizeSchedule(s, 0).schedule,
                    nextFireAt |-> normalizeSchedule(s, 0).nextFireAt]
  BY DEF Init
<1>2. \A c \in Crons : /\ crons[c] \in Cron /\ Sane(crons[c].schedule) /\ crons[c].nextFireAt # NoTime
                       /\ crons[c].lastFiredAt = NoTime
  <2> SUFFICES ASSUME NEW c \in Crons
               PROVE  /\ crons[c] \in Cron /\ Sane(crons[c].schedule) /\ crons[c].nextFireAt # NoTime
                      /\ crons[c].lastFiredAt = NoTime
    OBVIOUS
  <2>1. PICK s \in Schedules :
          crons[c] = [enabled |-> TRUE, createdAt |-> 0, lastFiredAt |-> NoTime,
                      schedule |-> normalizeSchedule(s, 0).schedule,
                      nextFireAt |-> normalizeSchedule(s, 0).nextFireAt]
    BY <1>1
  <2>2. Sane(normalizeSchedule(s, 0).schedule) /\ normalizeSchedule(s, 0).nextFireAt \in Nat
    BY NormalType
  <2> QED BY <2>1, <2>2 DEF Cron, Sane, Times
<1>3. crons \in [Crons -> Cron] /\ Periodic
  <2>1. DOMAIN crons = Crons /\ crons = [c \in Crons |-> crons[c]]
    BY DEF Init
  <2> QED BY <1>2, <2>1 DEF Periodic, Sane
<1>4. fires = [h \in Handlers |-> Idle] /\ fires \in [Handlers -> FireState]
  BY IdleFacts DEF Init
<1>5. SoundFires /\ MarksNext
  BY <1>4, IdleFacts DEF SoundFires, MarksNext
<1>6. InTime
  BY DEF InTime, Init
<1>7. TypeOK
  <2>1. \A h \in Handlers : fires[h].pc = "idle"
    BY <1>4, IdleFacts
  <2>2. queueOn \in [Procs -> BOOLEAN]
    BY DEF Init
  <2>3. /\ clock \in Nat /\ jobs \subseteq Slots /\ committed \subseteq Slots /\ lease \in Procs \cup {NoProc}
        /\ done \subseteq Fires /\ claims \subseteq Fires
        /\ twice \subseteq Slots /\ unsure \subseteq Slots /\ undone \subseteq Slots
        /\ owed \subseteq Slots /\ upset \in BOOLEAN
    BY DEF Init
  <2>4. edits \in 0..MaxEdits /\ faults \in 0..MaxFaults
    BY DEF Init
  <2> QED BY <1>3, <1>4, <2>1, <2>2, <2>3, <2>4 DEF TypeOK
<1> QED BY <1>3, <1>5, <1>6, <1>7 DEF ShapeInv

LEMMA ShapeNext ==
  ASSUME ShapeInv, [Next]_vars
  PROVE  ShapeInv'
<1>1. CronsGood /\ FiresGood /\ HistGood
  BY CronsNext, SoundNext, HistNext
<1>2. jobs' \subseteq Slots /\ committed' \subseteq Slots /\ owed' \subseteq Slots
  BY StoreNext
<1>3. /\ clock' \in Nat /\ lease' \in Procs \cup {NoProc} /\ queueOn' = queueOn /\ upset' \in BOOLEAN
      /\ edits' \in 0..MaxEdits /\ edits' >= edits /\ faults' \in 0..MaxFaults /\ edits \in Nat
  BY PlainNext DEF ShapeInv, TypeOK
<1>4. queueOn \in [Procs -> BOOLEAN]
  BY DEF ShapeInv, TypeOK
<1>5. \A h \in Handlers : fires'[h].pc \notin {"idle", "batch"} =>
        /\ fires'[h].cron \in Crons /\ fires'[h].at \in Nat /\ fires'[h].seen \in Remembered
        /\ fires'[h].by = "user" \/ fires'[h].slot \in Nat
  BY <1>1 DEF FiresGood, SoundFires, Sound
<1>6. fires' \in [Handlers -> FireState] /\ crons' \in [Crons -> Cron]
  BY <1>1 DEF FiresGood, SoundFires, CronsGood
<1>7. TypeOK'
  BY <1>1, <1>2, <1>3, <1>4, <1>5, <1>6 DEF TypeOK, HistGood, By
<1>8. MarksNext'
  <2> SUFFICES ASSUME NEW h \in Handlers, edits' = 0, fires'[h].pc = "mark", fires'[h].next = NoTime
               PROVE  crons'[fires'[h].cron].schedule.kind = "once"
    BY DEF MarksNext
  <2>1. edits = 0 /\ SameSchedules
    BY <1>1, <1>3 DEF CronsGood
  <2>2. fires'[h].cron \in Crons
    BY <1>5
  <2>3. CASE fires'[h] = fires[h]
    <3>1. crons[fires[h].cron].schedule.kind = "once"
      BY <2>1, <2>3 DEF ShapeInv, MarksNext
    <3> QED BY <2>1, <2>2, <2>3, <3>1 DEF SameSchedules
  <2>4. CASE markFired(h)
    <3>1. /\ fires'[h].next = advanceNextFireAt(crons[fires[h].cron].schedule, fires[h].slot, fires[h].at)
          /\ fires'[h].cron = fires[h].cron
      BY <2>4, MarkFiredFacts DEF SameFire
    <3>2. fires[h].pc = "next" /\ ~By(h, "user")
      BY <2>4 DEF markFired, At, By
    <3>3. crons[fires[h].cron].schedule.kind = "once"
      BY <3>1, <3>2, SlotType
    <3> QED BY <2>1, <2>2, <3>1, <3>3 DEF SameSchedules
  <2> QED BY <1>1, <2>3, <2>4 DEF FiresGood
<1> QED BY <1>1, <1>7, <1>8 DEF ShapeInv, CronsGood, FiresGood, HistGood

\* The jobs, the queue, the record of keys and the fires have the shape the code
\* relies on: a fire past its start knows its job, its time, what it read and,
\* unless a user started it, its slot.
THEOREM CronTypes == Spec => []TypeOK
<1>1. ShapeInv => TypeOK
  BY DEF ShapeInv
<1> QED BY <1>1, ShapeInit, ShapeNext, PTL DEF Spec

-----------------------------------------------------------------------------
(* Steady deployments *)

LEMMA SteadyBack ==
  ASSUME ShapeInv, [Next]_vars, Steady'
  PROVE  /\ Steady /\ edits = 0 /\ edits' = 0 /\ ~upset /\ ~upset' /\ SameSchedules
         /\ queueOn' = queueOn
<1>1. /\ edits' \in Nat /\ edits' >= edits /\ edits \in Nat /\ (upset => upset') /\ queueOn' = queueOn
  BY PlainNext DEF ShapeInv, TypeOK
<1>2. edits' = 0 /\ ~upset' /\ \A p, q \in Procs : queueOn'[p] = queueOn'[q]
  BY DEF Steady
<1>3. edits = 0 /\ ~upset
  BY <1>1, <1>2
<1>4. SameSchedules
  BY <1>2, CronsNext DEF CronsGood
<1> QED BY <1>1, <1>2, <1>3, <1>4 DEF Steady

LEMMA OneMode ==
  ASSUME ShapeInv, Steady
  PROVE  OnQueue \/ OnTicks
<1>1. queueOn \in [Procs -> BOOLEAN]
  BY DEF ShapeInv, TypeOK
<1> QED BY <1>1 DEF Steady, OnQueue, OnTicks

\* What a job's fire says of its next slot is the same as long as the schedule is.
LEMMA AfterSame ==
  ASSUME SameSchedules, NEW d \in Fires, NEW n
  PROVE  After(d)' = After(d) /\ Beyond(n, d)' = Beyond(n, d)
<1>1. crons'[d.cron].schedule = crons[d.cron].schedule
  BY DEF SameSchedules, Fires
<1> QED BY <1>1 DEF After, Beyond

LEMMA StandingType ==
  ASSUME ShapeInv, NEW d \in Standing
  PROVE  /\ d \in Fires /\ d.cron \in Crons /\ d.slot \in Nat /\ d.at \in Nat /\ d.slot <= d.at
         /\ After(d) \in Times /\ (After(d) # NoTime => After(d) \in Nat /\ After(d) > d.slot)
         /\ crons[d.cron].schedule.kind = "every" => After(d) = d.at + crons[d.cron].schedule.every
<1>1. d \in Fires /\ d.slot <= d.at
  <2>1. CASE d \in done
    BY <2>1 DEF ShapeInv, TypeOK, InTime
  <2>2. CASE \E h \in Handlers : Claimed(h) /\ d = Fired(fires[h])
    <3>1. PICK h \in Handlers : Claimed(h) /\ d = Fired(fires[h])
      BY <2>2
    <3>2. fires[h].pc \notin {"idle", "batch"} /\ ~By(h, "user")
      BY <3>1 DEF Claimed, By
    <3>3. Fired(fires[h]) \in Fires /\ fires[h].slot <= fires[h].at
      BY <3>2, KeyType, SlotType
    <3> QED BY <3>1, <3>3 DEF Fired
  <2> QED BY <2>1, <2>2 DEF Standing
<1>2. d.cron \in Crons /\ d.slot \in Nat /\ d.at \in Nat
  BY <1>1 DEF Fires
<1>3. Sane(crons[d.cron].schedule)
  BY <1>2, CronType
<1> QED BY <1>1, <1>2, <1>3, AdvanceType DEF After

-----------------------------------------------------------------------------
(* The queue *)

\* In a steady deployment that works on the queue, a fire is a job's.
LEMMA JobsFire ==
  ASSUME ShapeInv, Steady, OnQueue, NEW h \in Handlers
  PROVE  /\ fires[h].pc = "idle" \/ By(h, "job")
         /\ ~By(h, "user") /\ ~By(h, "tick")
<1>1. Sound(h, fires[h], queueOn, edits, clock) /\ fires[h] \in FireState
  BY FireType
<1>2. edits = 0 /\ queueOn[ProcOf[h]]
  BY DEF Steady, OnQueue
<1>3. fires[h].by \in {"none", "job", "tick", "user"}
  BY <1>1 DEF FireState
<1> QED BY <1>1, <1>2, <1>3 DEF Sound, By

SameTimes ==
  \A c \in Crons : /\ crons'[c].lastFiredAt = crons[c].lastFiredAt
                   /\ crons'[c].nextFireAt = crons[c].nextFireAt

FewerClaims == \A h \in Handlers : Claimed(h)' => Claimed(h) /\ SameFire(h)

ClaimsTold ==
  \A h \in Handlers : fires'[h].pc = "claim" => Told(fires'[h].cron, fires'[h].seen.lastFiredAt, fires'[h].slot)

NothingNew == \A d \in done' : Key(d) \notin unsure' \cup undone' => d \in Standing

StillExcused ==
  /\ UndoneIsRecorded'
  /\ \A h \in Handlers : Claimed(h)' /\ fires'[h].pc # "commit" =>
       \A d \in done' : Key(d) = Key(fires'[h]) => Key(d) \in unsure' \cup committed'

\* A step that claims nothing and undoes no claim.
LEMMA QueueStill ==
  ASSUME ShapeInv, QueueInv, SameSchedules, SameTimes, claims' = claims,
         FewerClaims, ClaimsTold, NothingNew, StillExcused
  PROVE  QueueInv'
<1>1. claims \subseteq Fires
  BY DEF ShapeInv, TypeOK
<1>2. ASSUME NEW c, NEW l, NEW n, Told(c, l, n) PROVE Told(c, l, n)'
  <2>1. CASE l = NoTime
    BY <2>1 DEF Told
  <2>2. CASE l # NoTime
    <3>1. PICK d \in claims : d.cron = c /\ d.at = l /\ n = After(d)
      BY <1>2, <2>2 DEF Told
    <3>2. After(d)' = After(d)
      BY <1>1, AfterSame
    <3> QED BY <3>1, <3>2 DEF Told
  <2> QED BY <2>1, <2>2
<1>3. ASSUME NEW d \in Standing' PROVE d \in Standing
  <2>1. CASE d \in done' /\ Key(d) \notin unsure' \cup undone'
    BY <2>1 DEF NothingNew
  <2>2. CASE \E h \in Handlers : Claimed(h)' /\ d = Fired(fires'[h])
    <3>1. PICK h \in Handlers : Claimed(h)' /\ d = Fired(fires'[h])
      BY <2>2
    <3>2. Claimed(h) /\ d = Fired(fires[h])
      BY <3>1 DEF FewerClaims, SameFire, Fired
    <3> QED BY <3>2 DEF Standing
  <2> QED BY <2>1, <2>2 DEF Standing
<1>4. TimesTell'
  BY DEF QueueInv, TimesTell
<1>5. AllTold'
  <2>1. \A c \in Crons : Told(c, crons'[c].lastFiredAt, crons'[c].nextFireAt)
    BY DEF QueueInv, AllTold, SameTimes
  <2>2. \A h \in Handlers : fires'[h].pc = "claim" \/ Claimed(h)' =>
          Told(fires'[h].cron, fires'[h].seen.lastFiredAt, fires'[h].slot)
    <3> SUFFICES ASSUME NEW h \in Handlers, fires'[h].pc = "claim" \/ Claimed(h)'
                 PROVE  Told(fires'[h].cron, fires'[h].seen.lastFiredAt, fires'[h].slot)
      OBVIOUS
    <3>1. CASE fires'[h].pc = "claim"
      BY <3>1 DEF ClaimsTold
    <3>2. CASE Claimed(h)'
      <4>1. Claimed(h) /\ SameFire(h)
        BY <3>2 DEF FewerClaims
      <4>2. Told(fires[h].cron, fires[h].seen.lastFiredAt, fires[h].slot)
        BY <4>1 DEF QueueInv, AllTold
      <4> QED BY <4>1, <4>2 DEF SameFire
    <3> QED BY <3>1, <3>2
  <2>3. \A h \in Handlers : Claimed(h)' => Fired(fires'[h]) \in claims'
    BY DEF FewerClaims, QueueInv, AllTold, SameFire, Fired
  <2>4. \A c \in Crons : Told(c, crons[c].lastFiredAt, crons[c].nextFireAt)'
    BY <1>2, <2>1
  <2>5. \A h \in Handlers : (fires[h].pc = "claim" \/ Claimed(h))' =>
          Told(fires[h].cron, fires[h].seen.lastFiredAt, fires[h].slot)'
    BY <1>2, <2>2
  <2> QED BY <2>3, <2>4, <2>5 DEF AllTold
<1>6. Stacked'
  <2>1. Stacked
    BY DEF QueueInv
  <2>2. ASSUME NEW d \in Standing' PROVE Beyond(crons[d.cron].nextFireAt, d)'
    <3>1. d \in Standing /\ d \in Fires /\ d.cron \in Crons
      BY <1>3, StandingType
    <3>2. Beyond(crons[d.cron].nextFireAt, d)
      BY <2>1, <3>1 DEF Stacked
    <3>3. After(d)' = After(d)
      BY <3>1, AfterSame
    <3> QED BY <3>1, <3>2, <3>3 DEF SameTimes, Beyond
  <2>3. ASSUME NEW d \in Standing', NEW e \in Standing', d.cron = e.cron
        PROVE  (d.slot = e.slot => d = e) /\ (d.slot < e.slot => Beyond(e.slot, d)')
    <3>1. d \in Standing /\ e \in Standing /\ d \in Fires
      BY <1>3, StandingType
    <3>2. (d.slot = e.slot => d = e) /\ (d.slot < e.slot => Beyond(e.slot, d))
      BY <2>1, <2>3, <3>1 DEF Stacked
    <3>3. After(d)' = After(d)
      BY <3>1, AfterSame
    <3> QED BY <3>2, <3>3 DEF Beyond
  <2> QED BY <2>2, <2>3 DEF Stacked
<1>7. ClaimedAlone'
  <2>1. ASSUME NEW g \in Handlers, NEW h \in Handlers, g # h, Claimed(g)', Claimed(h)'
        PROVE  Key(fires'[g]) # Key(fires'[h])
    BY <2>1 DEF FewerClaims, QueueInv, ClaimedAlone, SameFire, Key
  <2> QED BY <2>1 DEF ClaimedAlone, StillExcused
<1> QED BY <1>4, <1>5, <1>6, <1>7 DEF QueueInv, StillExcused

\* A claim goes on top of the stack.
LEMMA ClaimOnTop ==
  ASSUME ShapeInv, QueueInv, [Next]_vars, Steady', NEW h \in Handlers, claimSlot(h), Claimable(h)
  PROVE  QueueInv'
<1> DEFINE f == fires[h]
           c == f.cron
           next == crons[c].nextFireAt
<1>1. /\ Steady /\ edits = 0 /\ ~upset' /\ SameSchedules
  BY SteadyBack
<1>2. f.pc = "claim" /\ By(h, "job") /\ fires \in [Handlers -> FireState]
  BY FireType DEF claimSlot, At, By, Sound
<1>3. ~By(h, "user")
  BY <1>2 DEF By
<1> PICK top \in Fires : top = Fired(f)
  BY <1>2, <1>3, KeyType
<1>4. /\ c \in Crons /\ f.slot \in Nat /\ f.at \in Nat /\ f.slot <= f.at
      /\ After(top) \in Times /\ (After(top) # NoTime => After(top) \in Nat /\ After(top) > f.slot)
      /\ top.cron = c /\ top.slot = f.slot /\ top.at = f.at /\ top \in Fires
  BY <1>2, <1>3, SlotType, KeyType DEF After, Fired
<1>5. Retimed(c, f.at, After(top)) /\ Goto(h, "fire") /\ UNCHANGED <<done, unsure, undone, committed>>
  BY <1>4 DEF claimSlot, Retimed, After
<1>6. claims' = claims \cup {top}
  BY <1>1 DEF claimSlot, Kept
<1>7. \A d \in claims : ~(d.cron = c /\ d.at = f.at /\ d.slot # f.slot)
  <2>1. upset' = (upset \/ \E d \in claims : d.cron = c /\ d.at = f.at /\ d.slot # f.slot)
    BY DEF claimSlot
  <2> QED BY <1>1, <2>1
<1>8. f.slot = next
  BY <1>1, <1>4, CronType DEF Claimable
<1>9. /\ OtherCrons(c) /\ crons'[c].lastFiredAt = f.at /\ crons'[c].nextFireAt = After(top)
  <2>1. f.at \in Times
    BY <1>4 DEF Times
  <2> QED BY <1>4, <1>5, <2>1, RetimedFacts
<1>10. Alone(h) /\ SameFire(h) /\ fires'[h].pc = "fire"
  <2>1. "fire" \in PCs
    BY DEF PCs
  <2> QED BY <1>2, <1>5, <2>1, GotoFacts
<1>11. ~Claimed(h) /\ Claimed(h)' /\ Fired(fires'[h]) = top
  BY <1>2, <1>10 DEF Claimed, By, SameFire, Fired
<1>12. \A g \in Handlers : g # h => fires'[g] = fires[g] /\ (Claimed(g)' <=> Claimed(g))
  BY <1>10 DEF Alone, Claimed, By
<1>13. ASSUME NEW d \in Standing' PROVE d \in Standing \/ d = top
  <2>1. CASE d \in done' /\ Key(d) \notin unsure' \cup undone'
    BY <1>5, <2>1 DEF Standing
  <2>2. CASE \E g \in Handlers : Claimed(g)' /\ d = Fired(fires'[g])
    BY <1>11, <1>12, <2>2 DEF Standing
  <2> QED BY <2>1, <2>2 DEF Standing
<1>14. claims \subseteq Fires
  BY DEF ShapeInv, TypeOK
<1> HIDE DEF f, c, next
\* What stands has been left behind.
<1>15. ASSUME NEW d \in Standing, d.cron = c
       PROVE  /\ After(d) \in Nat /\ After(d) <= f.slot /\ d.slot < f.slot
  <2>1. Beyond(next, d)
    BY <1>15 DEF QueueInv, Stacked, next
  <2>2. d.slot \in Nat /\ After(d) \in Times /\ (After(d) # NoTime => After(d) \in Nat /\ After(d) > d.slot)
    BY StandingType
  <2>3. f.slot # NoTime
    BY <1>4
  <2> QED BY <1>4, <1>8, <2>1, <2>2, <2>3 DEF Beyond
<1>16. TimesTell'
  <2>1. TimesTell
    BY DEF QueueInv
  <2> QED BY <1>4, <1>6, <1>7, <2>1 DEF TimesTell
<1>17. ASSUME NEW b, NEW l, NEW n, Told(b, l, n) PROVE Told(b, l, n)'
  <2>1. CASE l = NoTime
    BY <2>1 DEF Told
  <2>2. CASE l # NoTime
    <3>1. PICK d \in claims : d.cron = b /\ d.at = l /\ n = After(d)
      BY <1>17, <2>2 DEF Told
    <3>2. After(d)' = After(d)
      BY <1>1, <1>14, AfterSame
    <3> QED BY <1>6, <3>1, <3>2 DEF Told
  <2> QED BY <2>1, <2>2
<1>18. After(top)' = After(top)
  BY <1>1, <1>4, AfterSame
<1>19. AllTold'
  <2>1. AllTold
    BY DEF QueueInv
  <2>2. ASSUME NEW b \in Crons PROVE Told(b, crons[b].lastFiredAt, crons[b].nextFireAt)'
    <3>1. CASE b = c
      <4>1. top \in claims' /\ top.cron = b /\ top.at = crons'[b].lastFiredAt /\ crons'[b].nextFireAt = After(top)'
        BY <1>4, <1>6, <1>9, <1>18, <3>1
      <4> QED BY <4>1 DEF Told
    <3>2. CASE b # c
      <4>1. Told(b, crons[b].lastFiredAt, crons[b].nextFireAt) /\ crons'[b] = crons[b]
        BY <1>9, <2>1, <3>2 DEF AllTold, OtherCrons
      <4> QED BY <1>17, <4>1
    <3> QED BY <3>1, <3>2
  <2>3. ASSUME NEW g \in Handlers, (fires[g].pc = "claim" \/ Claimed(g))'
        PROVE  Told(fires[g].cron, fires[g].seen.lastFiredAt, fires[g].slot)'
    <3>1. fires[g].pc = "claim" \/ Claimed(g)
      BY <1>2, <1>12, <2>3 DEF f
    <3>2. Told(fires[g].cron, fires[g].seen.lastFiredAt, fires[g].slot)
      BY <2>1, <3>1 DEF AllTold
    <3>3. /\ fires'[g].cron = fires[g].cron /\ fires'[g].seen = fires[g].seen
          /\ fires'[g].slot = fires[g].slot
      BY <1>10 DEF SameFire, Alone
    <3> QED BY <1>17, <3>2, <3>3
  <2>4. ASSUME NEW g \in Handlers, Claimed(g)' PROVE Fired(fires'[g]) \in claims'
    BY <1>6, <1>11, <1>12, <2>1, <2>4 DEF AllTold
  <2> QED BY <2>2, <2>3, <2>4 DEF AllTold
<1>20. Stacked'
  <2>1. Stacked
    BY DEF QueueInv
  <2>2. ASSUME NEW d \in Standing' PROVE Beyond(crons[d.cron].nextFireAt, d)'
    <3>1. CASE d = top
      BY <1>4, <1>9, <1>18, <3>1 DEF Beyond, Times
    <3>2. CASE d \in Standing /\ d.cron = c
      <4>1. After(d)' = After(d)
        BY <1>1, <3>2, StandingType, AfterSame
      <4>2. After(d) \in Nat /\ After(d) <= f.slot
        BY <1>15, <3>2
      <4>3. After(top) = NoTime \/ (After(top) >= After(d) /\ After(d) # NoTime)
        BY <1>4, <4>2
      <4> QED BY <1>9, <3>2, <4>1, <4>3 DEF Beyond
    <3>3. CASE d \in Standing /\ d.cron # c
      <4>1. After(d)' = After(d) /\ d.cron \in Crons
        BY <1>1, <3>3, StandingType, AfterSame
      <4>2. Beyond(crons[d.cron].nextFireAt, d) /\ crons'[d.cron] = crons[d.cron]
        BY <1>9, <2>1, <3>3, <4>1 DEF Stacked, OtherCrons
      <4> QED BY <4>1, <4>2 DEF Beyond
    <3> QED BY <1>13, <3>1, <3>2, <3>3
  <2>3. ASSUME NEW d \in Standing', NEW e \in Standing', d.cron = e.cron
        PROVE  (d.slot = e.slot => d = e) /\ (d.slot < e.slot => Beyond(e.slot, d)')
    <3>1. CASE d \in Standing /\ e \in Standing
      <4>1. (d.slot = e.slot => d = e) /\ (d.slot < e.slot => Beyond(e.slot, d))
        BY <2>1, <2>3, <3>1 DEF Stacked
      <4>2. After(d)' = After(d)
        BY <1>1, <3>1, StandingType, AfterSame
      <4> QED BY <4>1, <4>2 DEF Beyond
    <3>2. CASE d \in Standing /\ e = top
      <4>1. d.slot < f.slot /\ After(d) \in Nat /\ After(d) <= f.slot /\ d.slot \in Nat
        BY <1>4, <1>15, <2>3, <3>2, StandingType
      <4>2. After(d)' = After(d)
        BY <1>1, <3>2, StandingType, AfterSame
      <4> QED BY <1>4, <3>2, <4>1, <4>2 DEF Beyond
    <3>3. CASE d = top /\ e \in Standing
      <4>1. e.slot < f.slot /\ e.slot \in Nat
        BY <1>4, <1>15, <2>3, <3>3, StandingType
      <4> QED BY <1>4, <3>3, <4>1
    <3>4. CASE d = top /\ e = top
      BY <1>4, <3>4
    <3> QED BY <1>13, <3>1, <3>2, <3>3, <3>4
  <2> QED BY <2>2, <2>3 DEF Stacked
<1>21. ClaimedAlone'
  <2>1. ClaimedAlone
    BY DEF QueueInv
  <2>2. ASSUME NEW g \in Handlers, Claimed(g) PROVE Key(fires[g]) # <<c, f.slot>>
    <3>1. Fired(fires[g]) \in Standing
      BY <2>2 DEF Standing
    <3>2. Fired(fires[g]).cron = c => Fired(fires[g]).slot < f.slot /\ Fired(fires[g]).slot \in Nat
      BY <1>15, <3>1, StandingType
    <3> QED BY <1>4, <3>2 DEF Fired, Key
  <2>3. Key(fires'[h]) = <<c, f.slot>>
    BY <1>10 DEF SameFire, Key, f, c
  <2>4. ASSUME NEW g \in Handlers, NEW i \in Handlers, g # i, Claimed(g)', Claimed(i)'
        PROVE  Key(fires'[g]) # Key(fires'[i])
    BY <1>12, <2>1, <2>2, <2>3, <2>4 DEF ClaimedAlone
  <2>5. ASSUME NEW g \in Handlers, Claimed(g)', fires'[g].pc # "commit",
               NEW d \in done', Key(d) = Key(fires'[g])
        PROVE  Key(d) \in unsure' \cup committed'
    <3>1. CASE g # h
      BY <1>5, <1>12, <2>1, <2>5, <3>1 DEF ClaimedAlone
    <3>2. CASE g = h
      <4>1. d.cron = c /\ d.slot = f.slot
        BY <2>3, <2>5, <3>2 DEF Key
      <4>2. d \notin Standing
        BY <1>4, <1>15, <4>1
      <4> QED BY <1>5, <2>5, <4>2 DEF Standing, QueueInv, UndoneIsRecorded
    <3> QED BY <3>1, <3>2
  <2> QED BY <2>4, <2>5 DEF ClaimedAlone
<1>22. UndoneIsRecorded'
  BY <1>5 DEF QueueInv, UndoneIsRecorded
<1> QED BY <1>16, <1>19, <1>20, <1>21, <1>22 DEF QueueInv

\* Only the topmost claim is undone, and with it the stack is what it was.
LEMMA UnclaimTop ==
  ASSUME ShapeInv, QueueInv, [Next]_vars, Steady', NEW h \in Handlers, unclaimSlot(h), Restored(h)
  PROVE  QueueInv'
<1> DEFINE f == fires[h]
           c == f.cron
           next == crons[c].nextFireAt
<1>1. Steady /\ SameSchedules
  BY SteadyBack
<1>2. f.pc = "failed" /\ By(h, "job") /\ fires \in [Handlers -> FireState] /\ Claimed(h)
  BY FireType DEF unclaimSlot, At, By, Sound, Claimed
<1>3. ~By(h, "user")
  BY <1>2 DEF By
<1> PICK top \in Fires : top = Fired(f)
  BY <1>2, <1>3, KeyType
<1>4. /\ c \in Crons /\ f.slot \in Nat /\ f.at \in Nat /\ f.seen.lastFiredAt \in Times
      /\ top.cron = c /\ top.slot = f.slot /\ top.at = f.at
  BY <1>2, <1>3, SlotType DEF Fired
<1>5. /\ Retimed(c, f.seen.lastFiredAt, f.slot) /\ Finish(h) /\ UNCHANGED <<done, unsure, claims, committed>>
      /\ undone' = undone \cup ({Key(f)} \cap committed)
      /\ crons[c].lastFiredAt = f.at
  BY <1>1 DEF unclaimSlot, Retimed, Restored, Kept
<1>6. OtherCrons(c) /\ crons'[c].lastFiredAt = f.seen.lastFiredAt /\ crons'[c].nextFireAt = f.slot
  <2>1. f.slot \in Times
    BY <1>4 DEF Times
  <2> QED BY <1>4, <1>5, <2>1, RetimedFacts
<1>7. Alone(h) /\ fires'[h].pc = "idle"
  BY <1>2, <1>5, FinishFacts, IdleFacts
<1>8. ~Claimed(h)'
  BY <1>7 DEF Claimed
<1>9. \A g \in Handlers : g # h => fires'[g] = fires[g] /\ (Claimed(g)' <=> Claimed(g))
  BY <1>7 DEF Alone, Claimed, By
<1>10. Key(f) = Key(top) /\ top \in Standing
  BY <1>2 DEF Standing, Key, Fired
<1>11. claims \subseteq Fires
  BY DEF ShapeInv, TypeOK
<1>12. Told(c, f.seen.lastFiredAt, f.slot) /\ top \in claims
  BY <1>2 DEF QueueInv, AllTold
\* The job was last fired by the claim that is undone.
<1>13. next = After(top)
  <2>1. f.at # NoTime
    BY <1>4
  <2>2. PICK d \in claims : d.cron = c /\ d.at = f.at /\ next = After(d)
    BY <1>4, <1>5, <2>1 DEF QueueInv, AllTold, Told
  <2>3. d.slot = f.slot
    BY <1>4, <1>12, <2>2 DEF QueueInv, TimesTell
  <2> QED BY <1>4, <2>2, <2>3 DEF After
<1> HIDE DEF f, c, next
<1>14. ASSUME NEW d \in Standing' PROVE d \in Standing /\ (d.cron = c => d.slot # f.slot)
  <2>1. CASE d \in done' /\ Key(d) \notin unsure' \cup undone'
    <3>1. d \in Standing
      BY <1>5, <2>1 DEF Standing
    <3>2. Key(d) # Key(f)
      BY <1>2, <1>5, <2>1 DEF QueueInv, ClaimedAlone, f
    <3> QED BY <3>1, <3>2 DEF Key, c
  <2>2. CASE \E g \in Handlers : Claimed(g)' /\ d = Fired(fires'[g])
    <3>1. PICK g \in Handlers : g # h /\ Claimed(g) /\ d = Fired(fires[g])
      BY <1>8, <1>9, <2>2
    <3>2. Key(fires[g]) # Key(f)
      BY <1>2, <3>1 DEF QueueInv, ClaimedAlone, f
    <3> QED BY <3>1, <3>2 DEF Standing, Key, Fired, c
  <2> QED BY <2>1, <2>2 DEF Standing
\* What stands besides it is below it.
<1>15. ASSUME NEW d \in Standing, d.cron = c, d.slot # f.slot PROVE Beyond(f.slot, d)
  <2>1. d.slot \in Nat /\ (After(d) # NoTime => After(d) \in Nat /\ After(d) > d.slot)
    BY StandingType
  <2>2. After(top) # NoTime => After(top) \in Nat
    BY <1>10, StandingType
  <2>3. CASE d.slot < f.slot
    BY <1>4, <1>10, <1>15, <2>3 DEF QueueInv, Stacked
  <2>4. CASE d.slot > f.slot
    <3>1. Beyond(d.slot, top)
      BY <1>4, <1>10, <1>15, <2>4 DEF QueueInv, Stacked
    <3>2. Beyond(next, d)
      BY <1>15 DEF QueueInv, Stacked, next
    <3>3. d.slot # NoTime
      BY <2>1
    <3> QED BY <1>13, <2>1, <2>2, <3>1, <3>2, <3>3 DEF Beyond
  <2> QED BY <1>4, <1>15, <2>1, <2>3, <2>4
<1>16. TimesTell'
  BY <1>5 DEF QueueInv, TimesTell
<1>17. ASSUME NEW b, NEW l, NEW n, Told(b, l, n) PROVE Told(b, l, n)'
  <2>1. CASE l = NoTime
    BY <2>1 DEF Told
  <2>2. CASE l # NoTime
    <3>1. PICK d \in claims : d.cron = b /\ d.at = l /\ n = After(d)
      BY <1>17, <2>2 DEF Told
    <3>2. After(d)' = After(d)
      BY <1>1, <1>11, AfterSame
    <3> QED BY <1>5, <3>1, <3>2 DEF Told
  <2> QED BY <2>1, <2>2
<1>18. AllTold'
  <2>1. AllTold
    BY DEF QueueInv
  <2>2. ASSUME NEW b \in Crons PROVE Told(b, crons[b].lastFiredAt, crons[b].nextFireAt)'
    <3>1. Told(b, crons'[b].lastFiredAt, crons'[b].nextFireAt)
      BY <1>6, <1>12, <2>1 DEF AllTold, OtherCrons
    <3> QED BY <1>17, <3>1
  <2>3. ASSUME NEW g \in Handlers, (fires[g].pc = "claim" \/ Claimed(g))'
        PROVE  Told(fires[g].cron, fires[g].seen.lastFiredAt, fires[g].slot)'
    <3>1. g # h
      BY <1>7, <1>8, <2>3
    <3>2. fires'[g] = fires[g] /\ (fires[g].pc = "claim" \/ Claimed(g))
      BY <1>9, <2>3, <3>1
    <3>3. Told(fires[g].cron, fires[g].seen.lastFiredAt, fires[g].slot)
      BY <2>1, <3>2 DEF AllTold
    <3> QED BY <1>17, <3>2, <3>3
  <2>4. ASSUME NEW g \in Handlers, Claimed(g)' PROVE Fired(fires'[g]) \in claims'
    BY <1>5, <1>8, <1>9, <2>1, <2>4 DEF AllTold
  <2> QED BY <2>2, <2>3, <2>4 DEF AllTold
<1>19. Stacked'
  <2>1. Stacked
    BY DEF QueueInv
  <2>2. ASSUME NEW d \in Standing' PROVE Beyond(crons[d.cron].nextFireAt, d)'
    <3>1. d \in Standing /\ d \in Fires /\ d.cron \in Crons
      BY <1>14, StandingType
    <3>2. After(d)' = After(d)
      BY <1>1, <3>1, AfterSame
    <3>3. CASE d.cron = c
      <4>1. Beyond(f.slot, d)
        BY <1>14, <1>15, <3>1, <3>3
      <4> QED BY <1>6, <3>2, <3>3, <4>1 DEF Beyond
    <3>4. CASE d.cron # c
      <4>1. Beyond(crons[d.cron].nextFireAt, d) /\ crons'[d.cron] = crons[d.cron]
        BY <1>6, <2>1, <3>1, <3>4 DEF Stacked, OtherCrons
      <4> QED BY <3>2, <4>1 DEF Beyond
    <3> QED BY <3>3, <3>4
  <2>3. ASSUME NEW d \in Standing', NEW e \in Standing', d.cron = e.cron
        PROVE  (d.slot = e.slot => d = e) /\ (d.slot < e.slot => Beyond(e.slot, d)')
    <3>1. d \in Standing /\ e \in Standing /\ d \in Fires
      BY <1>14, StandingType
    <3>2. (d.slot = e.slot => d = e) /\ (d.slot < e.slot => Beyond(e.slot, d))
      BY <2>1, <2>3, <3>1 DEF Stacked
    <3>3. After(d)' = After(d)
      BY <1>1, <3>1, AfterSame
    <3> QED BY <3>2, <3>3 DEF Beyond
  <2> QED BY <2>2, <2>3 DEF Stacked
<1>20. ClaimedAlone'
  <2>1. ClaimedAlone
    BY DEF QueueInv
  <2>2. \A g \in Handlers : Claimed(g)' => Claimed(g) /\ fires'[g] = fires[g]
    BY <1>8, <1>9
  <2> QED BY <1>5, <2>1, <2>2 DEF ClaimedAlone
<1>21. UndoneIsRecorded'
  BY <1>5 DEF QueueInv, UndoneIsRecorded
<1> QED BY <1>16, <1>18, <1>19, <1>20, <1>21 DEF QueueInv

\* A step of one fire that gives its claim up or keeps it.
LEMMA QueueMove ==
  ASSUME ShapeInv, QueueInv, SameSchedules, SameTimes, claims' = claims, done' = done,
         unsure \subseteq unsure', undone' = undone, committed \subseteq committed', NEW h \in Handlers, Alone(h), fires'[h].pc # "claim",
         Claimed(h)' => /\ Claimed(h) /\ SameFire(h)
                        /\ fires'[h].pc # "commit" =>
                             fires[h].pc # "commit" \/ Key(fires[h]) \in unsure' \cup committed'
  PROVE  QueueInv'
<1>1. \A g \in Handlers : g # h => fires'[g] = fires[g] /\ (Claimed(g)' <=> Claimed(g))
  BY DEF Alone, Claimed, By
<1>2. FewerClaims
  BY <1>1 DEF FewerClaims, SameFire
<1>3. ClaimsTold
  BY <1>1 DEF ClaimsTold, QueueInv, AllTold
<1>4. NothingNew
  BY DEF NothingNew, Standing
<1>5. StillExcused
  <2> SUFFICES ASSUME NEW g \in Handlers, Claimed(g)', fires'[g].pc # "commit",
                      NEW d \in done, Key(d) = Key(fires'[g])
               PROVE  Key(d) \in unsure' \cup committed'
    BY DEF StillExcused, QueueInv, UndoneIsRecorded
  <2>1. CASE g # h
    BY <1>1, <2>1 DEF QueueInv, ClaimedAlone
  <2>2. CASE g = h
    <3>1. Key(fires'[h]) = Key(fires[h]) /\ Claimed(h)
      BY <2>2 DEF SameFire, Key
    <3>2. CASE fires[h].pc # "commit"
      BY <2>2, <3>1, <3>2 DEF QueueInv, ClaimedAlone
    <3>3. CASE fires[h].pc = "commit"
      BY <2>2, <3>1, <3>3
    <3> QED BY <3>2, <3>3
  <2> QED BY <2>1, <2>2
<1> QED BY <1>2, <1>3, <1>4, <1>5, QueueStill

LEMMA TimesKept ==
  ASSUME ShapeInv, UNCHANGED crons \/ \E c \in Crons : Turned(c, FALSE)
  PROVE  SameTimes
<1>1. CASE UNCHANGED crons
  BY <1>1 DEF SameTimes
<1>2. CASE \E c \in Crons : Turned(c, FALSE)
  <2>1. PICK c \in Crons : Turned(c, FALSE)
    BY <1>2
  <2>2. /\ OtherCrons(c) /\ crons'[c].lastFiredAt = crons[c].lastFiredAt
        /\ crons'[c].nextFireAt = crons[c].nextFireAt
    BY <2>1, TurnedFacts
  <2> QED BY <2>2 DEF SameTimes, OtherCrons
<1> QED BY <1>1, <1>2

\* once() carries out the action of a claim.
LEMMA QueueActs ==
  ASSUME ShapeInv, QueueInv, [Next]_vars, Steady', OnQueue, FiresOnce, NEW h \in Handlers, once(h), ~Skipped(h)
  PROVE  QueueInv' /\ FiresOnce'
<1> DEFINE f == fires[h]
<1>1. Steady /\ SameSchedules
  BY SteadyBack
<1>2. fires \in [Handlers -> FireState] /\ f.pc = "fire"
  BY FireType DEF once, At
<1>3. By(h, "job") /\ ~By(h, "user") /\ Claimed(h)
  BY <1>1, <1>2, JobsFire DEF Claimed
<1>4. /\ done' = done \cup {Fired(f)} /\ twice' = twice \cup ({Key(f)} \cap {Key(d) : d \in done})
      /\ Goto(h, "commit") /\ UNCHANGED <<crons, unsure, undone, committed, claims>>
  BY <1>1, <1>3 DEF once, Kept, store
<1>5. Alone(h) /\ SameFire(h) /\ fires'[h].pc = "commit"
  <2>1. "commit" \in PCs
    BY DEF PCs
  <2> QED BY <1>2, <1>4, <2>1, GotoFacts
<1>6. \A g \in Handlers : g # h => fires'[g] = fires[g] /\ (Claimed(g)' <=> Claimed(g))
  BY <1>5 DEF Alone, Claimed, By
<1>7. SameTimes
  BY <1>4 DEF SameTimes
<1>8. FewerClaims
  BY <1>3, <1>5, <1>6 DEF FewerClaims, SameFire
<1>9. ClaimsTold
  BY <1>5, <1>6 DEF ClaimsTold, QueueInv, AllTold
<1>10. NothingNew
  BY <1>3, <1>4 DEF NothingNew, Standing
<1>11. StillExcused
  <2> SUFFICES ASSUME NEW g \in Handlers, Claimed(g)', fires'[g].pc # "commit",
                      NEW d \in done', Key(d) = Key(fires'[g])
               PROVE  Key(d) \in unsure' \cup committed'
    BY <1>4 DEF StillExcused, QueueInv, UndoneIsRecorded
  <2>1. g # h /\ fires'[g] = fires[g] /\ Claimed(g)
    BY <1>5, <1>6
  <2>2. CASE d \in done
    BY <1>4, <2>1, <2>2 DEF QueueInv, ClaimedAlone
  <2>3. CASE d = Fired(f)
    <3>1. Key(d) = Key(f)
      BY <2>3 DEF Key, Fired
    <3> QED BY <1>3, <2>1, <3>1 DEF QueueInv, ClaimedAlone
  <2> QED BY <1>4, <2>2, <2>3
<1>12. QueueInv'
  BY <1>1, <1>4, <1>7, <1>8, <1>9, <1>10, <1>11, QueueStill
<1>13. twice \subseteq unsure
  BY <1>1 DEF FiresOnce
<1>14. {Key(f)} \cap {Key(d) : d \in done} \subseteq unsure
  <2>1. Key(f) \notin committed
    BY <1>3 DEF Skipped
  <2> QED BY <1>2, <1>3, <2>1 DEF QueueInv, ClaimedAlone
<1> QED BY <1>4, <1>12, <1>13, <1>14 DEF FiresOnce

LEMMA QueueNext ==
  ASSUME ShapeInv, QueueInv, [Next]_vars, Steady', OnQueue, FiresOnce
  PROVE  QueueInv' /\ FiresOnce'
<1>1. Steady /\ SameSchedules /\ edits = 0 /\ edits' = 0 /\ ~upset'
  BY SteadyBack
<1>2. ASSUME twice' = twice, unsure \subseteq unsure' PROVE FiresOnce'
  BY <1>1, <1>2 DEF FiresOnce
<1>3. fires \in [Handlers -> FireState] /\ edits \in Nat
  BY DEF ShapeInv, TypeOK
<1>4. ASSUME UNCHANGED <<crons, fires, done, unsure, undone, committed, claims, twice>> PROVE QueueInv' /\ FiresOnce'
  <2>1. SameTimes /\ FewerClaims
    BY <1>4 DEF SameTimes, FewerClaims, Claimed, By, SameFire
  <2>2. ClaimsTold /\ NothingNew
    BY <1>4 DEF ClaimsTold, NothingNew, QueueInv, AllTold, Standing
  <2>3. StillExcused
    BY <1>4 DEF StillExcused, QueueInv, ClaimedAlone, UndoneIsRecorded, Claimed, By
  <2>4. QueueInv'
    BY <1>1, <1>4, <2>1, <2>2, <2>3, QueueStill
  <2> QED BY <1>2, <1>4, <2>4
<1>5. ASSUME NEW h \in Handlers, Goto(h, "failed") \/ Goto(h, "fired") \/ Goto(h, "next") \/ Finish(h),
             UNCHANGED crons \/ \E c \in Crons : Turned(c, FALSE),
             UNCHANGED <<done, undone, claims, twice>>, unsure \subseteq unsure', committed \subseteq committed',
             fires'[h].pc \in {"fired", "failed"} =>
               Claimed(h) /\ (fires[h].pc # "commit" \/ Key(fires[h]) \in unsure' \cup committed')
      PROVE  QueueInv' /\ FiresOnce'
  <2>1. SameTimes
    BY <1>5, TimesKept
  <2>2. /\ Alone(h) /\ fires'[h].pc # "claim"
        /\ Claimed(h)' => /\ Claimed(h) /\ SameFire(h)
                          /\ fires'[h].pc # "commit" =>
                               fires[h].pc # "commit" \/ Key(fires[h]) \in unsure' \cup committed'
    <3>1. "failed" \in PCs /\ "fired" \in PCs /\ "next" \in PCs
      BY DEF PCs
    <3>2. CASE Goto(h, "failed")
      <4>1. Alone(h) /\ SameFire(h) /\ fires'[h].pc = "failed"
        BY <1>3, <3>1, <3>2, GotoFacts
      <4> QED BY <1>5, <4>1
    <3>3. CASE Goto(h, "fired")
      <4>1. Alone(h) /\ SameFire(h) /\ fires'[h].pc = "fired"
        BY <1>3, <3>1, <3>3, GotoFacts
      <4> QED BY <1>5, <4>1
    <3>4. CASE Goto(h, "next")
      <4>1. Alone(h) /\ SameFire(h) /\ fires'[h].pc = "next"
        BY <1>3, <3>1, <3>4, GotoFacts
      <4> QED BY <4>1 DEF Claimed
    <3>5. CASE Finish(h)
      <4>1. Alone(h) /\ fires'[h].pc = "idle"
        BY <1>3, <3>5, FinishFacts, IdleFacts
      <4> QED BY <4>1 DEF Claimed
    <3> QED BY <1>5, <3>2, <3>3, <3>4, <3>5
  <2>3. QueueInv'
    BY <1>1, <1>5, <2>1, <2>2, QueueMove
  <2> QED BY <1>2, <1>5, <2>3
<1>6. CASE UNCHANGED vars
  BY <1>4, <1>6 DEF vars, store, hist
<1>7. ASSUME NEW c \in Crons, reconcile(c) \/ update(c) \/ setEnabled(c) PROVE QueueInv' /\ FiresOnce'
  <2>1. reconcile(c)
    BY <1>1, <1>7 DEF update, setEnabled
  <2> QED BY <1>4, <2>1 DEF reconcile, hist
<1>8. ASSUME NEW h \in Handlers, tick(h) \/ runNow(h) \/ fireDue(h) \/ endTick(h) \/ markFired(h) \/ markFiredMerge(h)
      PROVE  FALSE
  <2>1. ~runNow(h)
    BY <1>1 DEF runNow
  <2>2. ~tick(h)
    BY DEF tick, OnQueue
  <2>3. ~By(h, "tick") /\ Sound(h, fires[h], queueOn, edits, clock)
    BY <1>1, JobsFire, FireType
  <2>4. fires[h].pc \notin {"batch", "mark"}
    BY <2>3 DEF Sound, By
  <2> QED BY <1>8, <2>1, <2>2, <2>3, <2>4 DEF fireDue, endTick, markFired, markFiredMerge, At
<1>9. ASSUME NEW h \in Handlers, fireJob(h) PROVE QueueInv' /\ FiresOnce'
  <2>1. UNCHANGED <<crons, done, unsure, undone, committed, claims, twice>> /\ fires[h].pc = "idle"
    BY <1>9 DEF fireJob, hist, At
  <2>2. CASE UNCHANGED fires
    BY <1>4, <2>1, <2>2
  <2>3. CASE \E c \in Crons :
               /\ Alone(h) /\ fires'[h] = Started(c, nextSlot(c), clock, Seen(c))
               /\ nextSlot(c) \in Nat /\ nextSlot(c) <= clock /\ crons[c].enabled
    <3>1. PICK c \in Crons :
               /\ Alone(h) /\ fires'[h] = Started(c, nextSlot(c), clock, Seen(c))
      BY <2>3
    <3>2. /\ Seen(c) \in Remembered /\ nextSlot(c) \in Times /\ clock \in Nat
          /\ nextSlot(c) = crons[c].nextFireAt /\ Seen(c).lastFiredAt = crons[c].lastFiredAt
      BY <1>1, CronType DEF Seen, ShapeInv, TypeOK
    <3>3. LET f == fires'[h] IN
            /\ f.pc = "claim" /\ f.cron = c /\ f.slot = nextSlot(c) /\ f.seen = Seen(c)
      BY <3>1, <3>2, StartedFacts
    <3>4. ~Claimed(h)'
      BY <3>3 DEF Claimed
    <3>5. \A g \in Handlers : g # h => fires'[g] = fires[g] /\ (Claimed(g)' <=> Claimed(g))
      BY <3>1 DEF Alone, Claimed, By
    <3>6. SameTimes /\ FewerClaims
      BY <2>1, <3>4, <3>5 DEF SameTimes, FewerClaims, SameFire
    <3>7. ClaimsTold
      <4>1. Told(fires'[h].cron, fires'[h].seen.lastFiredAt, fires'[h].slot)
        BY <3>2, <3>3 DEF QueueInv, AllTold
      <4> QED BY <3>5, <4>1 DEF ClaimsTold, QueueInv, AllTold
    <3>8. NothingNew
      BY <2>1 DEF NothingNew, Standing
    <3>9. StillExcused
      BY <2>1, <3>4, <3>5 DEF StillExcused, QueueInv, ClaimedAlone, UndoneIsRecorded
    <3>10. QueueInv'
      BY <1>1, <2>1, <3>6, <3>7, <3>8, <3>9, QueueStill
    <3> QED BY <1>2, <2>1, <3>10
  <2> QED BY <1>9, <2>2, <2>3, FireJobFacts
<1>10. ASSUME NEW h \in Handlers, Finish(h) PROVE fires'[h].pc = "idle"
  BY <1>3, <1>10, FinishFacts, IdleFacts
<1>11. ASSUME NEW h \in Handlers, claimSlot(h) PROVE QueueInv' /\ FiresOnce'
  <2>1. UNCHANGED <<done, twice, unsure, undone, committed>>
    BY <1>11 DEF claimSlot
  <2>2. CASE Claimable(h)
    BY <1>2, <1>11, <2>1, <2>2, ClaimOnTop
  <2>3. CASE ~Claimable(h)
    <3>1. Finish(h) /\ UNCHANGED <<crons, claims>>
      BY <1>11, <2>3 DEF claimSlot
    <3> QED BY <1>5, <1>10, <2>1, <3>1
  <2> QED BY <2>2, <2>3
<1>12. ASSUME NEW h \in Handlers, unclaimSlot(h) PROVE QueueInv' /\ FiresOnce'
  <2>1. UNCHANGED <<done, twice, unsure, claims, committed>> /\ Finish(h)
    BY <1>12 DEF unclaimSlot
  <2>2. CASE Restored(h)
    BY <1>2, <1>12, <2>1, <2>2, UnclaimTop
  <2>3. CASE ~Restored(h)
    <3>1. UNCHANGED <<crons, undone>>
      BY <1>12, <2>3 DEF unclaimSlot
    <3> QED BY <1>5, <1>10, <2>1, <3>1
  <2> QED BY <2>2, <2>3
<1>13. ASSUME NEW h \in Handlers, enqueueNext(h) PROVE QueueInv' /\ FiresOnce'
  BY <1>5, <1>10, <1>13 DEF enqueueNext, hist
<1>14. ASSUME NEW h \in Handlers, NEW x \in {"fired", "failed", "next"}, Goto(h, x) PROVE fires'[h].pc = x
  <2>1. x \in PCs
    BY DEF PCs
  <2> QED BY <1>3, <1>14, <2>1, GotoFacts
<1>15. ASSUME NEW h \in Handlers, once(h) PROVE QueueInv' /\ FiresOnce'
  <2>1. CASE ~Skipped(h)
    BY <1>15, <2>1, QueueActs
  <2>2. CASE Skipped(h)
    <3>1. Goto(h, "fired") /\ UNCHANGED <<crons, done, twice, unsure, undone, committed, claims>> /\ fires[h].pc = "fire"
      BY <1>15, <2>2 DEF once, store, At
    <3>2. Claimed(h)
      BY <1>1, <3>1, JobsFire DEF Claimed
    <3> QED BY <1>5, <3>1, <3>2
  <2> QED BY <2>1, <2>2
<1>16. ASSUME NEW h \in Handlers, commit(h) PROVE QueueInv' /\ FiresOnce'
  <2>1. /\ Goto(h, "fired") /\ UNCHANGED <<crons, done, twice, unsure, undone, claims>> /\ fires[h].pc = "commit"
        /\ committed' = Record(h)
    BY <1>16 DEF commit, At
  <2>2. Claimed(h) /\ ~By(h, "user")
    BY <1>1, <2>1, JobsFire DEF Claimed
  <2>3. committed \subseteq committed' /\ Key(fires[h]) \in committed'
    BY <2>1, <2>2 DEF Record
  <2> QED BY <1>5, <2>1, <2>2, <2>3
<1>17. ASSUME NEW h \in Handlers, fired(h) PROVE QueueInv' /\ FiresOnce'
  <2>1. fires[h].cron \in Crons
    BY <1>17, FireType DEF fired, At, Sound
  <2>2. ~By(h, "user")
    BY <1>1, JobsFire
  <2>3. Goto(h, "next") /\ UNCHANGED <<done, twice, unsure, undone, committed, claims>>
    BY <1>17, <2>2 DEF fired, hist
  <2>4. UNCHANGED crons \/ Turned(fires[h].cron, FALSE)
    BY <1>17 DEF fired, Turned
  <2> QED BY <1>5, <1>14, <2>1, <2>3, <2>4
<1>18. ASSUME NEW h \in Handlers, authzFails(h) \/ throws(h) PROVE QueueInv' /\ FiresOnce'
  <2>1. fires[h].pc \in {"fire", "commit", "fired"} /\ UNCHANGED <<done, twice, undone, committed, claims>>
    BY <1>18 DEF authzFails, throws, At, hist, store
  <2>2. By(h, "job") /\ Claimed(h) /\ fires[h].cron \in Crons /\ ~By(h, "user")
    BY <1>1, <2>1, JobsFire, FireType DEF Claimed, Sound
  <2>3. Goto(h, "failed")
    <3>1. CASE authzFails(h)
      BY <2>2, <3>1 DEF authzFails, By
    <3>2. CASE throws(h)
      BY <2>2, <3>2 DEF throws, By
    <3> QED BY <1>18, <3>1, <3>2
  <2>4. UNCHANGED crons \/ Turned(fires[h].cron, FALSE)
    BY <1>18 DEF authzFails, throws, store, Turned
  <2>5. unsure \subseteq unsure' /\ (fires[h].pc # "commit" \/ Key(fires[h]) \in unsure')
    <3>1. CASE authzFails(h)
      BY <3>1 DEF authzFails, hist, At
    <3>2. CASE throws(h)
      BY <1>1, <2>2, <3>2 DEF throws, Kept, Unsure, At
    <3> QED BY <1>18, <3>1, <3>2
  <2> QED BY <1>5, <2>1, <2>2, <2>3, <2>4, <2>5
<1>19. ASSUME NEW p \in Procs, leaseGuard(p) PROVE QueueInv' /\ FiresOnce'
  BY <1>4, <1>19 DEF leaseGuard, store, hist
<1>20. ASSUME NEW p \in Procs, crash(p) PROVE QueueInv' /\ FiresOnce'
  <2>1. /\ UNCHANGED <<crons, done, twice, undone, committed, claims>> /\ unsure \subseteq unsure'
        /\ fires' = [h \in Handlers |-> IF h \in HeldBy(p) THEN Idle ELSE fires[h]]
    BY <1>1, <1>20 DEF crash, store, Kept
  <2>2. \A h \in Handlers : fires'[h].pc = "idle" \/ fires'[h] = fires[h]
    BY <2>1, IdleFacts
  <2>3. \A h \in Handlers : Claimed(h)' => Claimed(h) /\ fires'[h] = fires[h]
    BY <2>2 DEF Claimed, By
  <2>4. SameTimes /\ FewerClaims
    BY <2>1, <2>3 DEF SameTimes, FewerClaims, SameFire
  <2>5. ClaimsTold
    BY <2>2 DEF ClaimsTold, QueueInv, AllTold
  <2>6. NothingNew
    BY <2>1 DEF NothingNew, Standing
  <2>7. StillExcused
    BY <2>1, <2>3 DEF StillExcused, QueueInv, ClaimedAlone, UndoneIsRecorded
  <2>8. QueueInv'
    BY <1>1, <2>1, <2>4, <2>5, <2>6, <2>7, QueueStill
  <2> QED BY <1>2, <2>1, <2>8
<1>21. CASE loseLease \/ advance
  <2>1. advance
    BY <1>1, <1>21 DEF loseLease
  <2> QED BY <1>4, <2>1 DEF advance, store, hist
<1> QED BY <1>6, <1>7, <1>8, <1>9, <1>11, <1>12, <1>13, <1>15, <1>16, <1>17, <1>18, <1>19, <1>20, <1>21
        DEF Next, Fire

-----------------------------------------------------------------------------
(* The ticks *)

\* In a steady deployment without the queue, a fire is a tick's.
LEMMA TicksFire ==
  ASSUME ShapeInv, Steady, OnTicks, NEW h \in Handlers
  PROVE  (fires[h].pc = "idle" <=> ~By(h, "tick")) /\ ~By(h, "user") /\ ~By(h, "job")
<1>1. Sound(h, fires[h], queueOn, edits, clock) /\ fires[h] \in FireState
  BY FireType
<1>2. edits = 0 /\ ~queueOn[ProcOf[h]]
  BY DEF Steady, OnTicks
<1>3. fires[h].by \in {"none", "job", "tick", "user"}
  BY <1>1 DEF FireState
<1> QED BY <1>1, <1>2, <1>3 DEF Sound, By

\* The places of the slots of h's tick after a step.
Placed(h) ==
  LET n == fires'[h] IN
  /\ n.batch \subseteq fires[h].batch
  /\ n.pc # "batch" => n.slot = crons[n.cron].nextFireAt /\ n.cron \in Crons /\ \A d \in n.batch : d.cron # n.cron
  /\ n.pc = "mark" => n.next = After(Fired(n))

LEMMA MarkedStill ==
  ASSUME ShapeInv, Marked, SameSchedules, SameTimes, done' = done,
         \A h \in Handlers : By(h, "tick")' => By(h, "tick") /\ fires'[h].at = fires[h].at
  PROVE  Marked'
<1>1. done \subseteq Fires
  BY DEF ShapeInv, TypeOK
<1>2. \A d \in done, h \in Handlers : By(h, "tick")' => d.at <= fires'[h].at
  BY DEF Marked
<1>3. \A d \in done : /\ d.cron \in Crons /\ After(d)' = After(d)
                      /\ crons'[d.cron].schedule = crons[d.cron].schedule
                      /\ crons'[d.cron].nextFireAt = crons[d.cron].nextFireAt
  BY <1>1, AfterSame DEF Fires, SameSchedules, SameTimes
<1>4. ASSUME NEW d \in done, crons'[d.cron].schedule.kind = "every"
      PROVE  /\ d.slot <= crons'[d.cron].nextFireAt
             /\ d.slot < crons'[d.cron].nextFireAt => Beyond(crons[d.cron].nextFireAt, d)'
  BY <1>3, <1>4 DEF Marked, Beyond
<1>5. ASSUME NEW d \in done, NEW e \in done,
             d.cron = e.cron, crons'[d.cron].schedule.kind = "every", d.slot < e.slot
      PROVE  Beyond(e.slot, d)'
  BY <1>3, <1>5 DEF Marked, Beyond
<1> QED BY <1>2, <1>4, <1>5 DEF Marked

\* A step of the tick that moves no schedule and carries out nothing.
LEMMA TickMove ==
  ASSUME ShapeInv, TickInv, SameSchedules, SameTimes, lease' = lease, done' = done,
         committed \subseteq committed', unsure \subseteq unsure', NEW h \in Handlers, Alone(h),
         By(h, "tick"), By(h, "tick")', fires'[h].at = fires[h].at, Placed(h),
         At(h, "commit") => Key(fires[h]) \in committed' \cup unsure'
  PROVE  TickInv'
<1>1. OneTick /\ SlotsAreNext /\ Recorded /\ Marked
  BY DEF TickInv
<1>2. \A g \in Handlers : g # h => fires'[g] = fires[g]
  BY DEF Alone
<1>3. \A g \in Handlers : By(g, "tick")' => g = h
  BY <1>1, <1>2 DEF OneTick, By
<1>4. OneTick'
  BY <1>1, <1>3 DEF OneTick
<1>5. SlotsAreNext'
  <2> DEFINE n == fires'[h]
  <2>1. fires[h] \in FireState
    BY FireType
  <2>2. \A d \in n.batch : d \in fires[h].batch /\ d.cron \in Crons
    BY <2>1 DEF Placed, FireState
  <2>3. /\ \A d \in n.batch : d.slot = crons'[d.cron].nextFireAt
        /\ \A d, e \in n.batch : d.cron = e.cron => d = e
    BY <1>1, <2>2 DEF SlotsAreNext, SameTimes
  <2>4. n.pc # "batch" => n.slot = crons'[n.cron].nextFireAt /\ \A d \in n.batch : d.cron # n.cron
    BY DEF Placed, SameTimes
  <2>5. ASSUME n.pc = "mark" PROVE n.next = After(Fired(fires[h]))'
    <3>1. n.cron \in Crons /\ n.next = After(Fired(n))
      BY <2>5 DEF Placed
    <3>2. crons'[n.cron].schedule = crons[n.cron].schedule
      BY <3>1 DEF SameSchedules
    <3> QED BY <3>1, <3>2 DEF After, Fired
  <2> QED BY <1>3, <2>3, <2>4, <2>5 DEF SlotsAreNext
<1>6. Recorded'
  <2> SUFFICES ASSUME NEW d \in done
               PROVE  \/ Key(d) \in committed' \cup unsure'
                      \/ \E g \in Handlers : At(g, "commit")' /\ Key(fires'[g]) = Key(d)
    BY DEF Recorded
  <2>1. CASE Key(d) \in committed \cup unsure
    BY <2>1
  <2>2. CASE \E g \in Handlers : At(g, "commit") /\ Key(fires[g]) = Key(d)
    <3>1. PICK g \in Handlers : At(g, "commit") /\ Key(fires[g]) = Key(d)
      BY <2>2
    <3>2. CASE g = h
      BY <3>1, <3>2
    <3>3. CASE g # h
      BY <1>2, <3>1, <3>3 DEF At
    <3> QED BY <3>2, <3>3
  <2> QED BY <1>1, <2>1, <2>2 DEF Recorded
<1>7. Marked'
  <2>1. \A g \in Handlers : By(g, "tick")' => By(g, "tick") /\ fires'[g].at = fires[g].at
    BY <1>3
  <2> QED BY <1>1, <2>1, MarkedStill
<1> QED BY <1>4, <1>5, <1>6, <1>7 DEF TickInv

\* Steps after which no tick is under way.
LEMMA TicksEnd ==
  ASSUME ShapeInv, TickInv, SameSchedules, UNCHANGED <<crons, done, committed>>, unsure \subseteq unsure',
         NEW Hs \in SUBSET Handlers,
         \A g \in Handlers : g \in Hs \/ fires'[g] = fires[g],
         \A g \in Hs : fires'[g].pc = "idle" /\ fires'[g].by = "none",
         \A g \in Hs : At(g, "commit") => Key(fires[g]) \in unsure',
         \A g \in Handlers \ Hs : By(g, "tick") => lease' = lease
  PROVE  TickInv'
<1>1. OneTick /\ SlotsAreNext /\ Recorded /\ Marked
  BY DEF TickInv
<1>2. \A g \in Handlers : By(g, "tick")' => g \notin Hs /\ By(g, "tick") /\ fires'[g] = fires[g]
  BY DEF By
<1>3. OneTick'
  BY <1>1, <1>2 DEF OneTick
<1>4. SlotsAreNext'
  BY <1>1, <1>2 DEF SlotsAreNext, After
<1>5. Recorded'
  <2> SUFFICES ASSUME NEW d \in done
               PROVE  \/ Key(d) \in committed \cup unsure'
                      \/ \E g \in Handlers : At(g, "commit")' /\ Key(fires'[g]) = Key(d)
    BY DEF Recorded
  <2>1. CASE Key(d) \in committed \cup unsure
    BY <2>1
  <2>2. CASE \E g \in Handlers : At(g, "commit") /\ Key(fires[g]) = Key(d)
    <3>1. PICK g \in Handlers : At(g, "commit") /\ Key(fires[g]) = Key(d)
      BY <2>2
    <3>2. CASE g \in Hs
      BY <3>1, <3>2
    <3>3. CASE g \notin Hs
      BY <3>1, <3>3 DEF At
    <3> QED BY <3>2, <3>3
  <2> QED BY <1>1, <2>1, <2>2 DEF Recorded
<1>6. Marked'
  <2>1. \A g \in Handlers : By(g, "tick")' => By(g, "tick") /\ fires'[g].at = fires[g].at
    BY <1>2
  <2>2. SameTimes
    BY DEF SameTimes
  <2> QED BY <1>1, <2>1, <2>2, MarkedStill
<1> QED BY <1>3, <1>4, <1>5, <1>6 DEF TickInv

\* A tick begins.
LEMMA TickStarts ==
  ASSUME ShapeInv, TickInv, Steady, SameSchedules, OnTicks, NEW h \in Handlers, tick(h)
  PROVE  TickInv'
<1>1. OneTick /\ SlotsAreNext /\ Recorded /\ Marked
  BY DEF TickInv
<1>2. /\ lease = NoProc /\ lease' = ProcOf[h] /\ At(h, "idle") /\ edits = 0
      /\ UNCHANGED <<crons, committed, done, unsure>>
  BY DEF tick, store, Steady
<1>3. /\ Batch \in SUBSET [cron: Crons, slot: Nat, seen: Remembered]
      /\ \A d \in Batch : d.slot = nextSlot(d.cron) /\ d.slot <= clock
      /\ Alone(h) /\ fires'[h].pc = "batch" /\ fires'[h].by = "tick" /\ fires'[h].at = clock
      /\ fires'[h].batch = Batch
  BY TickFacts
<1>4. \A g \in Handlers : ~By(g, "tick")
  BY <1>1, <1>2 DEF OneTick
<1>5. \A g \in Handlers : By(g, "tick")' => g = h
  BY <1>3, <1>4 DEF Alone, By
<1>6. OneTick'
  BY <1>2, <1>5 DEF OneTick
<1>7. SlotsAreNext'
  <2>1. \A d \in Batch : d.slot = crons[d.cron].nextFireAt
    BY <1>2, <1>3, CronType
  <2>2. \A d, e \in Batch : d.cron = e.cron => d = e
    BY DEF Batch
  <2> QED BY <1>2, <1>3, <1>5, <2>1, <2>2 DEF SlotsAreNext
<1>8. Recorded'
  BY <1>1, <1>2, <1>3 DEF Recorded, At, Alone
<1>9. Marked'
  <2>1. done \subseteq Fires /\ \A d \in done : d.at <= clock
    BY DEF ShapeInv, TypeOK, InTime
  <2>2. \A d \in done, g \in Handlers : By(g, "tick")' => d.at <= fires'[g].at
    BY <1>3, <1>5, <2>1
  <2>3. \A d \in done : After(d)' = After(d)
    BY <2>1, AfterSame
  <2>4. ASSUME NEW d \in done, crons[d.cron].schedule.kind = "every"
        PROVE  /\ d.slot <= crons'[d.cron].nextFireAt
               /\ d.slot < crons'[d.cron].nextFireAt => Beyond(crons[d.cron].nextFireAt, d)'
    BY <1>1, <1>2, <2>3, <2>4 DEF Marked, Beyond
  <2>5. ASSUME NEW d \in done, NEW e \in done,
               d.cron = e.cron, crons[d.cron].schedule.kind = "every", d.slot < e.slot
        PROVE  Beyond(e.slot, d)'
    BY <1>1, <2>3, <2>5 DEF Marked, Beyond
  <2> QED BY <1>2, <2>2, <2>4, <2>5 DEF Marked
<1> QED BY <1>6, <1>7, <1>8, <1>9 DEF TickInv

\* A tick moves the schedule of the job it has fired.
LEMMA TickMarks ==
  ASSUME ShapeInv, TickInv, SameSchedules, NEW h \in Handlers, markFiredMerge(h)
  PROVE  TickInv'
<1> DEFINE f == fires[h]
           c == f.cron
<1>1. OneTick /\ SlotsAreNext /\ Recorded /\ Marked
  BY DEF TickInv
<1>2. /\ f.pc = "mark" /\ f \in FireState /\ By(h, "tick") /\ fires \in [Handlers -> FireState]
  BY FireType DEF markFiredMerge, At, Sound, By
<1>3. ~By(h, "user")
  BY <1>2 DEF By
<1>4. /\ c \in Crons /\ f.slot \in Nat /\ f.at \in Nat
      /\ f.slot = crons[c].nextFireAt /\ \A d \in f.batch : d.cron # c
      /\ f.next = advanceNextFireAt(crons[c].schedule, f.slot, f.at) /\ f.next \in Times
      /\ f.next # NoTime => f.next > f.slot
      /\ crons[c].schedule.kind = "every" => f.next = f.at + crons[c].schedule.every
  BY <1>1, <1>2, <1>3, SlotType DEF SlotsAreNext, After, Fired
<1>5. Retimed(c, f.at, f.next) /\ Resume(h, f.batch) /\ UNCHANGED <<committed, lease, done, unsure>>
  BY DEF markFiredMerge, Retimed
<1>6. OtherCrons(c) /\ crons'[c].nextFireAt = f.next
  <2>1. f.at \in Times
    BY <1>4 DEF Times
  <2> QED BY <1>4, <1>5, <2>1, RetimedFacts
<1>7. f.batch \in SUBSET [cron: Crons, slot: Nat, seen: Remembered]
  BY <1>2 DEF FireState
<1>8. /\ Alone(h) /\ fires'[h].pc = "batch" /\ fires'[h].by = "tick" /\ fires'[h].at = f.at
      /\ fires'[h].batch = f.batch
  BY <1>2, <1>5, <1>7, ResumeFacts
<1>9. \A g \in Handlers : By(g, "tick")' => g = h
  BY <1>1, <1>2, <1>8 DEF OneTick, By, Alone
<1>10. OneTick'
  BY <1>1, <1>2, <1>5, <1>9 DEF OneTick
<1>11. SlotsAreNext'
  <2>1. \A d \in f.batch : d.slot = crons'[d.cron].nextFireAt
    BY <1>1, <1>2, <1>4, <1>6, <1>7 DEF SlotsAreNext, OtherCrons
  <2>2. \A d, e \in f.batch : d.cron = e.cron => d = e
    BY <1>1, <1>2 DEF SlotsAreNext
  <2> QED BY <1>8, <1>9, <2>1, <2>2 DEF SlotsAreNext
<1>12. Recorded'
  BY <1>1, <1>2, <1>5, <1>8 DEF Recorded, At, Alone
<1>13. Marked'
  <2>1. done \subseteq Fires
    BY DEF ShapeInv, TypeOK
  <2>2. \A d \in done, g \in Handlers : By(g, "tick")' => d.at <= fires'[g].at
    BY <1>1, <1>2, <1>8, <1>9 DEF Marked
  <2>3. \A d \in done : /\ d.cron \in Crons /\ d.slot \in Nat /\ d.at \in Nat /\ After(d)' = After(d)
                        /\ crons'[d.cron].schedule = crons[d.cron].schedule
    BY <2>1, AfterSame DEF Fires, SameSchedules
  <2>4. ASSUME NEW d \in done, crons[d.cron].schedule.kind = "every"
        PROVE  /\ d.slot <= crons'[d.cron].nextFireAt
               /\ d.slot < crons'[d.cron].nextFireAt => Beyond(crons[d.cron].nextFireAt, d)'
    <3>1. CASE d.cron # c
      BY <1>1, <1>6, <2>3, <2>4, <3>1 DEF Marked, Beyond, OtherCrons
    <3>2. CASE d.cron = c
      <4>1. d.slot <= f.slot /\ d.at <= f.at
        BY <1>1, <1>2, <1>4, <2>4, <3>2 DEF Marked
      <4>2. crons[c].schedule.every \in Nat
        BY <1>4, CronType DEF Sane, Schedule
      <4>3. /\ f.next \in Nat /\ f.next # NoTime /\ f.next > f.slot
            /\ f.next = f.at + crons[c].schedule.every
        BY <1>4, <2>4, <3>2, <4>2
      <4>4. After(d) = d.at + crons[c].schedule.every
        BY <2>4, <3>2 DEF After, advanceNextFireAt
      <4>5. After(d) \in Nat /\ After(d) # NoTime /\ f.next >= After(d)
        BY <1>4, <2>3, <4>1, <4>2, <4>3, <4>4
      <4> QED BY <1>4, <1>6, <2>3, <3>2, <4>1, <4>3, <4>5 DEF Beyond
    <3> QED BY <3>1, <3>2
  <2>5. ASSUME NEW d \in done, NEW e \in done,
               d.cron = e.cron, crons[d.cron].schedule.kind = "every", d.slot < e.slot
        PROVE  Beyond(e.slot, d)'
    BY <1>1, <2>3, <2>5 DEF Marked, Beyond
  <2> QED BY <1>5, <2>2, <2>3, <2>4, <2>5 DEF Marked
<1> QED BY <1>10, <1>11, <1>12, <1>13 DEF TickInv

\* once() carries out the action of a slot of the tick.
LEMMA TickActs ==
  ASSUME ShapeInv, TickInv, [Next]_vars, Steady', OnTicks, FiresOnce, NEW h \in Handlers, once(h), ~Skipped(h)
  PROVE  TickInv' /\ FiresOnce'
<1> DEFINE f == fires[h]
           c == f.cron
<1>1. Steady /\ SameSchedules
  BY SteadyBack
<1>2. OneTick /\ SlotsAreNext /\ Recorded /\ Marked
  BY DEF TickInv
<1>3. fires \in [Handlers -> FireState] /\ f \in FireState /\ f.pc = "fire" /\ By(h, "tick") /\ ~By(h, "user")
  BY <1>1, FireType, TicksFire DEF once, At
<1> PICK new \in Fires : new = Fired(f)
  BY <1>3, KeyType
<1>4. /\ c \in Crons /\ f.slot \in Nat /\ f.at \in Nat
      /\ new.cron = c /\ new.slot = f.slot /\ new.at = f.at /\ Key(new) = Key(f)
      /\ f.slot = crons[c].nextFireAt /\ \A d \in f.batch : d.cron # c
  BY <1>2, <1>3, SlotType DEF SlotsAreNext, Fired, Key
<1>5. /\ done' = done \cup {new} /\ twice' = twice \cup ({Key(f)} \cap {Key(d) : d \in done})
      /\ Goto(h, "commit") /\ UNCHANGED <<crons, committed, unsure, lease>>
  BY <1>1, <1>3 DEF once, Kept, store
<1>6. Alone(h) /\ SameFire(h) /\ fires'[h].pc = "commit" /\ fires'[h].batch = f.batch
  <2>1. "commit" \in PCs
    BY DEF PCs
  <2> QED BY <1>3, <1>5, <2>1, GotoFacts
<1>7. \A g \in Handlers : g # h => fires'[g] = fires[g]
  BY <1>6 DEF Alone
<1>8. By(h, "tick")' /\ \A g \in Handlers : By(g, "tick")' => g = h
  BY <1>2, <1>3, <1>6, <1>7 DEF OneTick, By, SameFire
<1>9. OneTick'
  BY <1>2, <1>3, <1>5, <1>8 DEF OneTick
<1>10. SlotsAreNext'
  <2>1. \A d \in f.batch : d.slot = crons[d.cron].nextFireAt
    BY <1>2, <1>3 DEF SlotsAreNext
  <2>2. \A d, e \in f.batch : d.cron = e.cron => d = e
    BY <1>2, <1>3 DEF SlotsAreNext
  <2>3. fires'[h].slot = f.slot /\ fires'[h].cron = c
    BY <1>6 DEF SameFire
  <2> QED BY <1>4, <1>5, <1>6, <1>8, <2>1, <2>2, <2>3 DEF SlotsAreNext
<1>11. Recorded'
  <2>1. At(h, "commit")' /\ Key(fires'[h]) = Key(new)
    BY <1>4, <1>6 DEF At, SameFire, Key
  <2>2. ASSUME NEW d \in done
        PROVE  \/ Key(d) \in committed' \cup unsure'
               \/ \E g \in Handlers : At(g, "commit")' /\ Key(fires'[g]) = Key(d)
    <3>1. CASE Key(d) \in committed \cup unsure
      BY <1>5, <3>1
    <3>2. CASE \E g \in Handlers : At(g, "commit") /\ Key(fires[g]) = Key(d)
      BY <1>3, <1>7, <3>2 DEF At
    <3> QED BY <1>2, <3>1, <3>2 DEF Recorded
  <2> QED BY <1>5, <2>1, <2>2 DEF Recorded
<1>12. Marked'
  <2>1. done \subseteq Fires
    BY DEF ShapeInv, TypeOK
  <2>2. \A d \in done : d.cron \in Crons /\ d.slot \in Nat /\ d.at \in Nat
    BY <2>1 DEF Fires
  <2>3. \A d \in done \cup {new} : After(d)' = After(d)
    BY <1>1, <2>1, AfterSame
  <2>4. \A d \in done', g \in Handlers : By(g, "tick")' => d.at <= fires'[g].at
    <3>1. fires'[h].at = f.at /\ f.at <= f.at
      BY <1>4, <1>6 DEF SameFire
    <3>2. \A d \in done : d.at <= f.at
      BY <1>2, <1>3 DEF Marked
    <3> QED BY <1>4, <1>5, <1>8, <3>1, <3>2
  <2>5. ASSUME NEW d \in done', crons[d.cron].schedule.kind = "every"
        PROVE  /\ d.slot <= crons'[d.cron].nextFireAt
               /\ d.slot < crons'[d.cron].nextFireAt => Beyond(crons[d.cron].nextFireAt, d)'
    <3>1. CASE d \in done
      BY <1>2, <1>5, <2>3, <2>5, <3>1 DEF Marked, Beyond
    <3>2. CASE d = new
      BY <1>4, <1>5, <3>2
    <3> QED BY <1>5, <3>1, <3>2
  <2>6. ASSUME NEW d \in done', NEW e \in done',
               d.cron = e.cron, crons[d.cron].schedule.kind = "every", d.slot < e.slot
        PROVE  Beyond(e.slot, d)'
    <3>1. CASE d \in done /\ e \in done
      BY <1>2, <2>3, <2>6, <3>1 DEF Marked, Beyond
    <3>2. CASE d \in done /\ e = new
      <4>1. Beyond(crons[c].nextFireAt, d)
        BY <1>2, <1>4, <2>6, <3>2 DEF Marked
      <4> QED BY <1>4, <2>3, <3>2, <4>1 DEF Beyond
    <3>3. CASE d = new /\ e \in done
      <4>1. e.slot <= f.slot
        BY <1>2, <1>4, <2>6, <3>3 DEF Marked
      <4> QED BY <1>4, <2>2, <2>6, <3>3, <4>1
    <3>4. CASE d = new /\ e = new
      BY <1>4, <2>6, <3>4
    <3> QED BY <1>5, <3>1, <3>2, <3>3, <3>4
  <2> QED BY <1>5, <2>4, <2>5, <2>6 DEF Marked
<1>13. {Key(f)} \cap {Key(d) : d \in done} \subseteq unsure
  <2> SUFFICES ASSUME NEW d \in done, Key(d) = Key(f) PROVE Key(f) \in unsure
    OBVIOUS
  <2>1. Key(f) \notin committed
    BY <1>3 DEF Skipped
  <2>2. ~ \E g \in Handlers : At(g, "commit")
    <3> SUFFICES ASSUME NEW g \in Handlers, At(g, "commit") PROVE FALSE
      OBVIOUS
    <3>1. By(g, "tick")
      BY <1>1, TicksFire DEF At
    <3> QED BY <1>2, <1>3, <3>1 DEF OneTick, At
  <2> QED BY <1>2, <2>1, <2>2 DEF Recorded
<1>14. twice \subseteq unsure
  BY <1>1 DEF FiresOnce
<1>15. FiresOnce'
  BY <1>5, <1>13, <1>14 DEF FiresOnce
<1> QED BY <1>9, <1>10, <1>11, <1>12, <1>15 DEF TickInv

LEMMA TickNext ==
  ASSUME ShapeInv, TickInv, [Next]_vars, Steady', OnTicks, FiresOnce
  PROVE  TickInv' /\ FiresOnce'
<1>1. Steady /\ SameSchedules /\ edits = 0 /\ edits' = 0 /\ ~upset'
  BY SteadyBack
<1>2. ASSUME twice' = twice, unsure \subseteq unsure' PROVE FiresOnce'
  BY <1>1, <1>2 DEF FiresOnce
<1>3. fires \in [Handlers -> FireState] /\ edits \in Nat /\ OneTick /\ SlotsAreNext
  BY DEF ShapeInv, TypeOK, TickInv
<1>4. ASSUME UNCHANGED <<crons, fires, done, unsure, committed, twice, lease>> PROVE TickInv' /\ FiresOnce'
  <2>1. TickInv'
    BY <1>4 DEF TickInv, OneTick, SlotsAreNext, Recorded, Marked, By, At, After, Beyond
  <2> QED BY <1>2, <1>4, <2>1
\* A step of the tick that stays on its slot.
<1>5. ASSUME NEW h \in Handlers, NEW x \in {"fired", "next"}, Goto(h, x), fires[h].pc # "batch", By(h, "tick"),
             UNCHANGED crons \/ \E c \in Crons : Turned(c, FALSE),
             UNCHANGED <<done, twice, unsure, lease>>, committed \subseteq committed',
             At(h, "commit") => Key(fires[h]) \in committed'
      PROVE  TickInv' /\ FiresOnce'
  <2>1. SameTimes
    BY <1>5, TimesKept
  <2>2. x \in PCs
    BY DEF PCs
  <2>3. /\ Alone(h) /\ SameFire(h) /\ fires'[h].pc = x /\ fires'[h].batch = fires[h].batch
    BY <1>3, <1>5, <2>2, GotoFacts
  <2>4. fires[h].cron \in Crons
    BY <1>3, <1>5, FireType DEF Sound, By
  <2>5. Placed(h)
    BY <1>3, <1>5, <2>3, <2>4 DEF Placed, SameFire, SlotsAreNext
  <2>6. By(h, "tick")' /\ fires'[h].at = fires[h].at
    BY <1>5, <2>3 DEF By, SameFire
  <2>7. At(h, "commit") => Key(fires[h]) \in committed' \cup unsure'
    BY <1>5
  <2>8. TickInv'
    BY <1>1, <1>5, <2>1, <2>3, <2>5, <2>6, <2>7, TickMove
  <2> QED BY <1>2, <1>5, <2>8
\* A fire of the tick breaks off.
<1>6. ASSUME NEW h \in Handlers, NEW b \in SUBSET fires[h].batch, Resume(h, b), By(h, "tick"),
             UNCHANGED crons \/ \E c \in Crons : Turned(c, FALSE),
             UNCHANGED <<done, twice, committed, lease>>, unsure \subseteq unsure',
             At(h, "commit") => Key(fires[h]) \in unsure'
      PROVE  TickInv' /\ FiresOnce'
  <2>1. SameTimes
    BY <1>6, TimesKept
  <2>2. b \in SUBSET [cron: Crons, slot: Nat, seen: Remembered]
    BY <1>3 DEF FireState
  <2>3. /\ Alone(h) /\ fires'[h].pc = "batch" /\ fires'[h].by = "tick" /\ fires'[h].at = fires[h].at
        /\ fires'[h].batch = b
    BY <1>3, <1>6, <2>2, ResumeFacts
  <2>4. Placed(h) /\ By(h, "tick")'
    BY <2>3 DEF Placed, By
  <2>5. At(h, "commit") => Key(fires[h]) \in committed' \cup unsure'
    BY <1>6
  <2>6. committed \subseteq committed'
    BY <1>6
  <2>7. TickInv'
    BY <1>1, <1>6, <2>1, <2>3, <2>4, <2>5, <2>6, TickMove
  <2> QED BY <1>2, <1>6, <2>7
<1>7. CASE UNCHANGED vars
  BY <1>4, <1>7 DEF vars, store, hist
<1>8. ASSUME NEW c \in Crons, reconcile(c) \/ update(c) \/ setEnabled(c) PROVE TickInv' /\ FiresOnce'
  <2>1. reconcile(c)
    BY <1>1, <1>8 DEF update, setEnabled
  <2> QED BY <2>1 DEF reconcile, OnTicks
<1>9. ASSUME NEW h \in Handlers, runNow(h) \/ fireJob(h) \/ claimSlot(h) \/ unclaimSlot(h) \/ enqueueNext(h)
      PROVE  FALSE
  <2>1. ~runNow(h)
    BY <1>1 DEF runNow
  <2>2. ~fireJob(h)
    BY DEF fireJob, OnTicks
  <2>3. ~By(h, "job") /\ Sound(h, fires[h], queueOn, edits, clock)
    BY <1>1, TicksFire, FireType
  <2>4. fires[h].pc \notin {"claim", "failed"}
    BY <2>3 DEF Sound, By
  <2> QED BY <1>9, <2>1, <2>2, <2>3, <2>4 DEF claimSlot, unclaimSlot, enqueueNext, At
<1>10. ASSUME NEW h \in Handlers, tick(h) PROVE TickInv' /\ FiresOnce'
  <2>1. UNCHANGED <<twice, unsure>>
    BY <1>10 DEF tick
  <2> QED BY <1>1, <1>2, <1>10, <2>1, TickStarts
<1>11. ASSUME NEW h \in Handlers, fireDue(h) PROVE TickInv' /\ FiresOnce'
  <2>1. UNCHANGED <<crons, committed, lease, done, twice, unsure>> /\ fires[h].pc = "batch"
    BY <1>11 DEF fireDue, store, hist, At
  <2>2. By(h, "tick")
    BY <2>1, FireType DEF Sound, By
  <2>3. PICK d \in fires[h].batch :
           /\ d \in [cron: Crons, slot: Nat, seen: Remembered]
           /\ Alone(h) /\ fires'[h].pc = "fire" /\ fires'[h].cron = d.cron /\ fires'[h].slot = d.slot
           /\ fires'[h].seen = d.seen /\ fires'[h].batch = fires[h].batch \ {d}
           /\ fires'[h].by = fires[h].by /\ fires'[h].at = fires[h].at
    BY <1>11, FireDueFacts
  <2>4. Placed(h)
    BY <1>3, <2>2, <2>3 DEF Placed, SlotsAreNext
  <2>5. By(h, "tick")' /\ SameTimes /\ ~At(h, "commit")
    BY <2>1, <2>2, <2>3 DEF By, SameTimes, At
  <2>6. committed \subseteq committed' /\ unsure \subseteq unsure'
    BY <2>1
  <2>7. TickInv'
    BY <1>1, <2>1, <2>2, <2>3, <2>4, <2>5, <2>6, TickMove
  <2> QED BY <1>2, <2>1, <2>7
<1>12. ASSUME NEW h \in Handlers, endTick(h) PROVE TickInv' /\ FiresOnce'
  <2>1. UNCHANGED <<crons, committed, done, twice, unsure>> /\ fires[h].pc = "batch" /\ Finish(h)
    BY <1>12 DEF endTick, store, hist, At
  <2>2. By(h, "tick")
    BY <2>1, FireType DEF Sound, By
  <2>3. Alone(h) /\ fires'[h].pc = "idle" /\ fires'[h].by = "none"
    BY <1>3, <2>1, FinishFacts, IdleFacts
  <2> DEFINE Hs == {h}
  <2>4. \A g \in Handlers : g \in Hs \/ fires'[g] = fires[g]
    BY <2>3 DEF Alone
  <2>5. \A g \in Hs : fires'[g].pc = "idle" /\ fires'[g].by = "none"
    BY <2>3
  <2>6. \A g \in Hs : At(g, "commit") => Key(fires[g]) \in unsure'
    BY <2>1 DEF At
  <2>7. \A g \in Handlers \ Hs : By(g, "tick") => lease' = lease
    BY <1>3, <2>2 DEF OneTick
  <2>8. Hs \in SUBSET Handlers
    OBVIOUS
  <2> HIDE DEF Hs
  <2>9. TickInv'
    BY <1>1, <2>1, <2>4, <2>5, <2>6, <2>7, <2>8, TicksEnd
  <2> QED BY <1>2, <2>1, <2>9
<1>13. ASSUME NEW h \in Handlers, markFired(h) PROVE TickInv' /\ FiresOnce'
  <2>1. /\ UNCHANGED <<crons, committed, lease, done, twice, unsure>> /\ fires[h].pc = "next"
        /\ By(h, "tick")
    BY <1>13 DEF markFired, store, hist, At
  <2>2. /\ Alone(h) /\ SameFire(h) /\ fires'[h].pc = "mark" /\ fires'[h].batch = fires[h].batch
        /\ fires'[h].next = advanceNextFireAt(crons[fires[h].cron].schedule, fires[h].slot, fires[h].at)
    BY <1>13, MarkFiredFacts
  <2>3. fires[h].cron \in Crons
    BY <2>1, FireType DEF Sound
  <2>4. Placed(h)
    BY <1>3, <2>1, <2>2, <2>3 DEF Placed, SameFire, SlotsAreNext, After, Fired
  <2>5. By(h, "tick")' /\ SameTimes /\ ~At(h, "commit") /\ fires'[h].at = fires[h].at
    BY <2>1, <2>2 DEF By, SameTimes, At, SameFire
  <2>6. committed \subseteq committed' /\ unsure \subseteq unsure'
    BY <2>1
  <2>7. TickInv'
    BY <1>1, <2>1, <2>2, <2>4, <2>5, <2>6, TickMove
  <2> QED BY <1>2, <2>1, <2>7
<1>14. ASSUME NEW h \in Handlers, markFiredMerge(h) PROVE TickInv' /\ FiresOnce'
  <2>1. UNCHANGED <<twice, unsure>>
    BY <1>14 DEF markFiredMerge
  <2> QED BY <1>1, <1>2, <1>14, <2>1, TickMarks
<1>15. ASSUME NEW h \in Handlers, once(h) PROVE TickInv' /\ FiresOnce'
  <2>1. CASE ~Skipped(h)
    BY <1>15, <2>1, TickActs
  <2>2. CASE Skipped(h)
    <3>1. Goto(h, "fired") /\ UNCHANGED <<crons, done, twice, unsure, lease, committed>> /\ fires[h].pc = "fire"
      BY <1>15, <2>2 DEF once, store, At
    <3>2. By(h, "tick") /\ ~At(h, "commit")
      BY <1>1, <3>1, TicksFire DEF At
    <3> QED BY <1>5, <3>1, <3>2
  <2> QED BY <2>1, <2>2
<1>16. ASSUME NEW h \in Handlers, commit(h) PROVE TickInv' /\ FiresOnce'
  <2>1. /\ Goto(h, "fired") /\ UNCHANGED <<crons, done, twice, unsure, lease>> /\ fires[h].pc = "commit"
        /\ committed' = Record(h)
    BY <1>16 DEF commit, At
  <2>2. By(h, "tick") /\ ~By(h, "user")
    BY <1>1, <2>1, TicksFire
  <2>3. committed \subseteq committed' /\ Key(fires[h]) \in committed'
    BY <2>1, <2>2 DEF Record
  <2> QED BY <1>5, <2>1, <2>2, <2>3
<1>17. ASSUME NEW h \in Handlers, fired(h) PROVE TickInv' /\ FiresOnce'
  <2>1. fires[h].pc = "fired" /\ UNCHANGED <<done, twice, unsure, lease, committed>>
    BY <1>17 DEF fired, hist, At
  <2>2. By(h, "tick") /\ ~By(h, "user") /\ ~At(h, "commit")
    BY <1>1, <2>1, TicksFire DEF At
  <2>3. fires[h].cron \in Crons
    BY <2>1, FireType DEF Sound
  <2>4. Goto(h, "next")
    BY <1>17, <2>2 DEF fired
  <2>5. UNCHANGED crons \/ Turned(fires[h].cron, FALSE)
    BY <1>17 DEF fired, Turned
  <2> QED BY <1>5, <2>1, <2>2, <2>3, <2>4, <2>5
<1>18. ASSUME NEW h \in Handlers, authzFails(h) \/ throws(h) PROVE TickInv' /\ FiresOnce'
  <2>1. fires[h].pc \in {"fire", "commit", "fired"} /\ UNCHANGED <<done, twice, committed, lease>>
    BY <1>18 DEF authzFails, throws, At, hist, store
  <2>2. By(h, "tick") /\ ~By(h, "job") /\ ~By(h, "user") /\ fires[h].cron \in Crons
    BY <1>1, <2>1, TicksFire, FireType DEF Sound
  <2>3. PICK b \in SUBSET fires[h].batch : Resume(h, b)
    <3>1. CASE authzFails(h)
      BY <2>2, <3>1 DEF authzFails
    <3>2. CASE throws(h)
      BY <2>2, <3>2 DEF throws
    <3> QED BY <1>18, <3>1, <3>2
  <2>4. UNCHANGED crons \/ Turned(fires[h].cron, FALSE)
    BY <1>18 DEF authzFails, throws, store, Turned
  <2>5. unsure \subseteq unsure' /\ (At(h, "commit") => Key(fires[h]) \in unsure')
    <3>1. CASE authzFails(h)
      BY <3>1 DEF authzFails, hist, At
    <3>2. CASE throws(h)
      BY <1>1, <2>2, <3>2 DEF throws, Kept, Unsure
    <3> QED BY <1>18, <3>1, <3>2
  <2> QED BY <1>6, <2>1, <2>2, <2>3, <2>4, <2>5
<1>19. ASSUME NEW p \in Procs, leaseGuard(p) PROVE TickInv' /\ FiresOnce'
  BY <1>19 DEF leaseGuard, OnTicks
<1>20. ASSUME NEW p \in Procs, crash(p) PROVE TickInv' /\ FiresOnce'
  <2>1. /\ UNCHANGED <<crons, committed, done, twice>>
        /\ fires' = [h \in Handlers |-> IF h \in HeldBy(p) THEN Idle ELSE fires[h]]
        /\ unsure' = unsure \cup Unsure(HeldBy(p))
        /\ lease' = IF lease = p THEN NoProc ELSE lease
    BY <1>1, <1>20 DEF crash, store, Kept
  <2> DEFINE Hs == HeldBy(p)
  <2>2. Hs \in SUBSET Handlers
    BY DEF HeldBy
  <2>3. \A g \in Handlers : g \in Hs \/ fires'[g] = fires[g]
    BY <2>1
  <2>4. \A g \in Hs : fires'[g].pc = "idle" /\ fires'[g].by = "none"
    BY <2>1, <2>2, IdleFacts
  <2>5. \A g \in Hs : At(g, "commit") => Key(fires[g]) \in unsure'
    BY <1>1, <2>1, <2>2, TicksFire DEF Unsure
  <2>6. \A g \in Handlers \ Hs : By(g, "tick") => lease' = lease
    <3> SUFFICES ASSUME NEW g \in Handlers \ Hs, By(g, "tick") PROVE lease' = lease
      OBVIOUS
    <3>1. fires[g].pc # "idle"
      BY <1>1, TicksFire
    <3>2. ProcOf[g] # p
      BY <3>1 DEF HeldBy
    <3> QED BY <1>3, <2>1, <3>2 DEF OneTick
  <2>7. unsure \subseteq unsure'
    BY <2>1
  <2> HIDE DEF Hs
  <2>8. TickInv'
    BY <1>1, <2>1, <2>2, <2>3, <2>4, <2>5, <2>6, <2>7, TicksEnd
  <2> QED BY <1>2, <2>1, <2>7, <2>8
<1>21. CASE loseLease \/ advance
  <2>1. advance
    BY <1>1, <1>21 DEF loseLease
  <2> QED BY <1>4, <2>1 DEF advance, store, hist
<1> QED BY <1>7, <1>8, <1>9, <1>10, <1>11, <1>12, <1>13, <1>14, <1>15, <1>16, <1>17, <1>18, <1>19, <1>20, <1>21
        DEF Next, Fire

-----------------------------------------------------------------------------
(* The theorems *)

LEMMA CronInit == Init => CronInv
<1> SUFFICES ASSUME Init PROVE CronInv
  OBVIOUS
<1>1. ShapeInv
  BY ShapeInit
<1>2. \A h \in Handlers : fires[h].pc = "idle" /\ fires[h].by = "none"
  BY IdleFacts DEF Init
<1>3. /\ done = {} /\ claims = {} /\ twice = {} /\ undone = {}
      /\ \A c \in Crons : crons[c].lastFiredAt = NoTime
  BY DEF Init
<1>4. \A h \in Handlers : ~Claimed(h)
  BY <1>2 DEF Claimed
<1>5. Standing = {}
  BY <1>3, <1>4 DEF Standing
<1>6. QueueInv
  BY <1>2, <1>3, <1>4, <1>5 DEF QueueInv, TimesTell, AllTold, Told, Stacked, ClaimedAlone,
                                         UndoneIsRecorded
<1>7. TickInv
  BY <1>2, <1>3 DEF TickInv, OneTick, SlotsAreNext, Recorded, Marked, By
<1> QED BY <1>1, <1>3, <1>6, <1>7 DEF CronInv, FiresOnce

LEMMA CronNext ==
  ASSUME CronInv, [Next]_vars
  PROVE  CronInv'
<1>1. ShapeInv /\ FiresOnce /\ ShapeInv'
  BY ShapeNext DEF CronInv
<1>2. CASE ~Steady'
  BY <1>1, <1>2 DEF CronInv, FiresOnce
<1>3. CASE Steady'
  <2>1. Steady /\ queueOn' = queueOn
    BY <1>1, <1>3, SteadyBack
  <2>2. (OnQueue' <=> OnQueue) /\ (OnTicks' <=> OnTicks)
    BY <2>1 DEF OnQueue, OnTicks
  <2>3. OnQueue => QueueInv' /\ FiresOnce'
    BY <1>1, <1>3, <2>1, QueueNext DEF CronInv
  <2>4. OnTicks => TickInv' /\ FiresOnce'
    BY <1>1, <1>3, <2>1, TickNext DEF CronInv
  <2>5. OnQueue \/ OnTicks
    BY <1>1, <2>1, OneMode
  <2> QED BY <1>1, <2>2, <2>3, <2>4, <2>5 DEF CronInv
<1> QED BY <1>2, <1>3

LEMMA CronInvariance == Spec => []CronInv
BY CronInit, CronNext, PTL DEF Spec

\* No slot fires twice: in a deployment that nobody edits, whose processes all
\* work on the queue or all tick, and which keeps its lease, the action of a slot
\* is carried out again only if its key could not be recorded, however many
\* processes fire at once, crash or fail.
THEOREM SlotsFireOnce == Spec => []FiresOnce
<1>1. CronInv => FiresOnce
  BY DEF CronInv
<1> QED BY <1>1, CronInvariance, PTL

\* In a deployment that nobody edits, that keeps its lease, whose processes all
\* work on the queue or all tick, and where no two slots of a job are claimed at
\* the same instant, an interval job's fires are an interval apart, but for slots
\* whose key was not recorded or which were given back: for the queue because
\* claims stack up, and for the ticks because a mark adds the interval to the
\* time of the fire.
THEOREM FiresKeepTheirDistance == Spec => []SpacedFires
<1>1. ASSUME CronInv PROVE SpacedFires
  <2> SUFFICES ASSUME Steady, NEW d \in done, NEW e \in done, d.cron = e.cron,
                      crons[d.cron].schedule.kind = "every", d.slot < e.slot,
                      {Key(d), Key(e)} \cap (unsure \cup undone) = {}
               PROVE  e.at >= d.at + crons[d.cron].schedule.every
    BY DEF SpacedFires
  <2>1. ShapeInv /\ done \subseteq Fires /\ e.slot <= e.at
    BY <1>1 DEF CronInv, ShapeInv, TypeOK, InTime
  <2>2. Beyond(e.slot, d)
    <3>1. CASE OnQueue
      <4>1. d \in Standing /\ e \in Standing
        BY DEF Standing
      <4> QED BY <1>1, <3>1, <4>1 DEF CronInv, QueueInv, Stacked
    <3>2. CASE OnTicks
      BY <1>1, <3>2 DEF CronInv, TickInv, Marked
    <3> QED BY <2>1, <3>1, <3>2, OneMode
  <2>3. After(d) = d.at + crons[d.cron].schedule.every
    BY DEF After, advanceNextFireAt
  <2>4. e.slot \in Nat /\ e.at \in Nat /\ d.at \in Nat /\ d.cron \in Crons /\ e.slot # NoTime
    BY <2>1 DEF Fires
  <2>5. crons[d.cron].schedule.every \in Nat
    BY <2>1, <2>4, CronType DEF Sane, Schedule
  <2> QED BY <2>1, <2>2, <2>3, <2>4, <2>5 DEF Beyond
<1> QED BY <1>1, CronInvariance, PTL
=============================================================================
