----------------------------- MODULE Compaction -----------------------------
(***************************************************************************)
(* Context compaction: core/orchestrator/compaction.ts with the plan of    *)
(* harness/context-compaction.ts, over the session leases.  A turn that    *)
(* finds its context too long writes a summary under its own lease; after  *)
(* a turn its process may do so in the background, which reads and         *)
(* summarises without a lease and takes one to write.                      *)
(*                                                                         *)
(* Turns and the other clients of the lease stay the general ones of       *)
(* SessionLeases.  An entry of a transcript is 0, or the number of the     *)
(* entry its summary reaches up to.  Which entries are long enough to be   *)
(* summarised is a matter of tokens: any prefix that leaves an entry may   *)
(* be, or none.                                                            *)
(***************************************************************************)
EXTENDS SessionLeases, Sequences, FiniteSets, FiniteSetsExt

CONSTANTS
  Procs,      \* processes, each with its queue of background compactions
  Turns,      \* turns that compact under their own lease
  MaxEntries  \* bound: the entries of a transcript that are not summaries

ASSUME CompactionAssumption == Procs \cap Turns = {} /\ MaxEntries \in Nat

VARIABLES
  transcript,  \* the entries of each session
  pending,     \* compactionPending of each process
  jobs,        \* the compaction each process or turn is in, by session
  unserved     \* history: a request that no reading of the transcript followed yet,
               \* and none that failed with an error

cvars == <<vars, transcript, pending, jobs, unserved>>

leaseVars == vars

Writers == Procs \cup Turns

NoJob == [pc |-> "idle", snapshot |-> 0, through |-> 0, token |-> 0]

CInit ==
  /\ Init
  /\ transcript = [s \in Sessions |-> <<>>]
  /\ pending = [p \in Procs |-> [s \in Sessions |-> FALSE]]
  /\ jobs = [w \in Writers |-> [s \in Sessions |-> NoJob]]
  /\ unserved = [p \in Procs |-> [s \in Sessions |-> FALSE]]

At(w, s, pc) == jobs[w][s].pc = pc

Goto(w, s, pc) == jobs' = [jobs EXCEPT ![w][s].pc = pc]

Finish(w, s) == jobs' = [jobs EXCEPT ![w][s] = NoJob]

-----------------------------------------------------------------------------
(* harness/context-compaction.ts *)

\* contextSummaryPayload() of the latest summary: what it reaches up to.
Covered(entries) ==
  LET summaries == {i \in DOMAIN entries : entries[i] # 0}
  IN IF summaries = {} THEN 0 ELSE entries[Max(summaries)]

\* Mutant of planCompaction: a plan with nothing to summarise is not refused.
planCompactionOfNothing(entries) ==
  {-1} \cup {i \in DOMAIN entries : entries[i] = 0 /\ i > Covered(entries)}

\* planCompaction() and compactionThroughSeq(): the new summary takes in the
\* latest one and some of the entries after what that covers.
planCompaction(entries) ==
  LET afterSummary == {i \in DOMAIN entries : entries[i] = 0 /\ i > Covered(entries)}
  IN IF afterSummary = {} THEN {} ELSE afterSummary \ {Max(afterSummary)}

-----------------------------------------------------------------------------
(* Turns and other writers *)

\* append() of an entry that is not a summary.
work(s, token) ==
  /\ Cardinality({i \in DOMAIN transcript[s] : transcript[s][i] = 0}) < MaxEntries
  /\ append(s, token)
  /\ transcript' = [transcript EXCEPT ![s] = Append(@, 0)]
  /\ UNCHANGED <<pending, jobs, unserved>>

leaseStep(s) ==
  /\ \/ acquireLease(s)
     \/ \E token \in 1..granted[s] : releaseLease(s, token)
     \/ forceReleaseLease(s)
  /\ UNCHANGED <<transcript, pending, jobs, unserved>>

\* compactContextIfNeeded(): the turn holds the lease when it reads and plans.
\* (A token is one turn's or one compaction's.)
compactContextIfNeeded(t, s, token) ==
  /\ At(t, s, "idle") /\ ValidFor(s, token)
  /\ \A w \in Writers : jobs[w][s].token # token
  /\ \E through \in planCompaction(transcript[s]) :
       jobs' = [jobs EXCEPT ![t][s] =
                  [pc |-> "write", snapshot |-> Len(transcript[s]), through |-> through, token |-> token]]
  /\ UNCHANGED <<leaseVars, transcript, pending, unserved>>

-----------------------------------------------------------------------------
(* Background compaction *)

\* Mutant of Requested: a request also joins a compaction that is running.
RequestedWhenIdle(p, s) == IF At(p, s, "idle") THEN [pending EXCEPT ![p][s] = TRUE] ELSE pending

\* A request joins the one that waits, if there is one.
Requested(p, s) == [pending EXCEPT ![p][s] = TRUE]

scheduleBackgroundCompaction(p, s) ==
  /\ pending' = Requested(p, s)
  /\ unserved' = [unserved EXCEPT ![p][s] = TRUE]
  /\ UNCHANGED <<leaseVars, transcript, jobs>>

\* The keyed queue runs the compactions of a session one after another.
start(p, s) ==
  /\ pending[p][s] /\ At(p, s, "idle")
  /\ pending' = [pending EXCEPT ![p][s] = FALSE]
  /\ Goto(p, s, "read")
  /\ UNCHANGED <<leaseVars, transcript, unserved>>

\* getEntries() and the plan: nothing to do, or a summary to ask a model for.
read(p, s) ==
  /\ At(p, s, "read")
  /\ unserved' = [unserved EXCEPT ![p][s] = FALSE]
  /\ \/ Finish(p, s)
     \/ \E through \in planCompaction(transcript[s]) :
          jobs' = [jobs EXCEPT ![p][s] =
                     [pc |-> "lease", snapshot |-> Len(transcript[s]), through |-> through, token |-> 0]]
  /\ UNCHANGED <<leaseVars, transcript, pending>>

\* sessions.get() or getEntries() throws: the error is recorded and the request
\* given up.
readFails(p, s) ==
  /\ At(p, s, "read")
  /\ Finish(p, s)
  /\ unserved' = [unserved EXCEPT ![p][s] = FALSE]
  /\ UNCHANGED <<leaseVars, transcript, pending>>

\* The model call fails, or acquireLeaseWithin() runs out of time.
giveUp(p, s) ==
  /\ At(p, s, "lease")
  /\ Finish(p, s)
  /\ UNCHANGED <<leaseVars, transcript, pending, unserved>>

acquireLeaseWithin(p, s) ==
  /\ At(p, s, "lease")
  /\ acquireLease(s)
  /\ jobs' = [jobs EXCEPT ![p][s].pc = "check", ![p][s].token = granted[s] + 1]
  /\ UNCHANGED <<transcript, pending, unserved>>

\* Mutant of Superseded: the entries since the snapshot are not read again.
SupersededNever(p, s) == FALSE

\* Another summary has been written since the snapshot.
Superseded(p, s) == \E i \in DOMAIN transcript[s] : i > jobs[p][s].snapshot /\ transcript[s][i] # 0

check(p, s) ==
  /\ At(p, s, "check")
  /\ Goto(p, s, IF Superseded(p, s) THEN "release" ELSE "write")
  /\ UNCHANGED <<leaseVars, transcript, pending, unserved>>

\* writeCompaction(): the summary is appended, or the lease is gone and it throws.
writeCompaction(w, s) ==
  LET j == jobs[w][s] IN
  /\ At(w, s, "write")
  /\ IF ValidFor(s, j.token)
     THEN /\ append(s, j.token)
          /\ transcript' = [transcript EXCEPT ![s] = Append(@, j.through)]
          /\ Goto(w, s, "tape")
     ELSE /\ IF w \in Procs THEN Goto(w, s, "release") ELSE Finish(w, s)
          /\ UNCHANGED <<leaseVars, transcript>>
  /\ UNCHANGED <<pending, unserved>>

\* The tape's records of it renew the lease; without it they are left out.
appendTape(w, s) ==
  /\ At(w, s, "tape")
  /\ IF ValidFor(s, jobs[w][s].token) THEN append(s, jobs[w][s].token) ELSE UNCHANGED leaseVars
  /\ IF w \in Procs THEN Goto(w, s, "release") ELSE Finish(w, s)
  /\ UNCHANGED <<transcript, pending, unserved>>

\* The finally block.
release(p, s) ==
  /\ At(p, s, "release")
  /\ IF ValidFor(s, jobs[p][s].token) THEN releaseLease(s, jobs[p][s].token) ELSE UNCHANGED leaseVars
  /\ Finish(p, s)
  /\ UNCHANGED <<transcript, pending, unserved>>

crash(p) ==
  /\ pending' = [pending EXCEPT ![p] = [s \in Sessions |-> FALSE]]
  /\ unserved' = [unserved EXCEPT ![p] = [s \in Sessions |-> FALSE]]
  /\ jobs' = [jobs EXCEPT ![p] = [s \in Sessions |-> NoJob]]
  /\ UNCHANGED <<leaseVars, transcript>>

tick == Tick /\ UNCHANGED <<transcript, pending, jobs, unserved>>

Job(p, s) ==
  \/ start(p, s) \/ read(p, s) \/ readFails(p, s) \/ giveUp(p, s) \/ acquireLeaseWithin(p, s)
  \/ check(p, s) \/ writeCompaction(p, s) \/ appendTape(p, s) \/ release(p, s)

CNext ==
  \/ \E s \in Sessions :
       \/ leaseStep(s)
       \/ \E token \in 1..granted[s] :
            work(s, token) \/ \E t \in Turns : compactContextIfNeeded(t, s, token)
       \/ \E t \in Turns : writeCompaction(t, s) \/ appendTape(t, s)
       \/ \E p \in Procs : scheduleBackgroundCompaction(p, s) \/ Job(p, s)
  \/ \E p \in Procs : crash(p)
  \/ tick

\* A compaction that was started goes on.
CSpec == CInit /\ [][CNext]_cvars /\ \A p \in Procs, s \in Sessions : WF_cvars(Job(p, s))

-----------------------------------------------------------------------------
JobRecord == [pc: {"idle", "read", "lease", "check", "write", "tape", "release"},
              snapshot: Nat, through: Nat, token: Nat]

CTypeOK ==
  /\ transcript \in [Sessions -> Seq(Nat)]
  /\ pending \in [Procs -> [Sessions -> BOOLEAN]]
  /\ jobs \in [Writers -> [Sessions -> JobRecord]]
  /\ unserved \in [Procs -> [Sessions -> BOOLEAN]]

\* The latest summary decides what the next turn sees, so no summary may reach
\* less far than one before it: a compaction in the background, planned on a
\* snapshot and written after turns, other processes' compactions, expired and
\* torn-away leases came in between, never puts an older summary in front.
SummariesAdvance ==
  \A s \in Sessions : \A i, j \in DOMAIN transcript[s] :
    i < j /\ transcript[s][i] # 0 /\ transcript[s][j] # 0 => transcript[s][i] < transcript[s][j]

\* A request made while a compaction of the session is running is not lost in
\* the one that runs: the transcript is read again after it, or the attempt to
\* read it fails with an error that is recorded, or the process dies.
RequestsServed == \A p \in Procs, s \in Sessions : unserved[p][s] ~> ~unserved[p][s]
=============================================================================
