-------------------------- MODULE CompactionProofs --------------------------
(***************************************************************************)
(* Compaction keeps to the session leases, and the summaries of a          *)
(* transcript reach further and further, for any number of sessions,       *)
(* processes, compacting turns, grants and entries.                        *)
(***************************************************************************)
EXTENDS Compaction, SessionLeasesProofs, SequenceTheorems, WellFoundedInduction

USE CompactionAssumption, SessionTtlAssumption

-----------------------------------------------------------------------------
(* The inductive invariant *)

\* A compaction that has reached its check carries a token that was granted.
TokensGranted ==
  \A w \in Writers, s \in Sessions :
    /\ jobs[w][s].token <= granted[s]
    /\ jobs[w][s].pc \in {"check", "write", "tape", "release"} => jobs[w][s].token > 0

\* No two compactions of a session write under the same grant.
TokensApart ==
  \A v, w \in Writers, s \in Sessions :
    v # w /\ jobs[v][s].token # 0 => jobs[v][s].token # jobs[w][s].token

\* A plan reaches further than every summary of the transcript it was made on.
PlansAreAhead ==
  \A w \in Writers, s \in Sessions :
    /\ jobs[w][s].pc \in {"lease", "check", "write"} => jobs[w][s].through > 0
    /\ jobs[w][s].pc \in {"lease", "check"} =>
         /\ jobs[w][s].snapshot <= Len(transcript[s])
         /\ \A i \in DOMAIN transcript[s] :
              i <= jobs[w][s].snapshot => transcript[s][i] < jobs[w][s].through

\* A compaction that is about to write, and whose lease still holds, reaches
\* further than every summary there is now.
WritesAreAhead ==
  \A w \in Writers, s \in Sessions :
    jobs[w][s].pc = "write" /\ ValidFor(s, jobs[w][s].token) =>
      \A i \in DOMAIN transcript[s] : transcript[s][i] < jobs[w][s].through

CompactionInv ==
  /\ LeasesInv
  /\ CTypeOK
  /\ TokensGranted
  /\ TokensApart
  /\ PlansAreAhead
  /\ WritesAreAhead
  /\ SummariesAdvance

-----------------------------------------------------------------------------
(* The plan *)

\* A non-empty set of positions of a sequence has a greatest element.
LEMMA MaxOfPositions ==
  ASSUME NEW n \in Nat, NEW S \in SUBSET (1..n), S # {}
  PROVE  Max(S) \in S /\ \A i \in S : i <= Max(S)
<1> DEFINE R == OpToRel(<, Nat)
           T == {n - i : i \in S}
<1>1. IsWellFoundedOn(R, Nat)
  BY NatLessThanWellFounded
<1> HIDE DEF R
<1>2. T \subseteq Nat /\ T # {}
  <2>1. PICK i \in S : TRUE
    OBVIOUS
  <2>2. n - i \in T
    OBVIOUS
  <2> QED BY <2>2
<1>3. \E x \in T : \A y \in T : ~(<<y, x>> \in R)
  <2> HIDE DEF T
  <2> QED BY <1>1, <1>2, WFMin
<1>4. PICK x \in T : \A y \in T : ~(<<y, x>> \in R)
  BY <1>3
<1>5. \A y \in T : ~(y < x)
  BY <1>2, <1>4 DEF R, OpToRel
<1>6. PICK m \in S : x = n - m
  OBVIOUS
<1>7. ASSUME NEW i \in S PROVE m >= i
  <2>1. n - i \in T
    OBVIOUS
  <2>2. ~(n - i < n - m)
    BY <1>5, <1>6, <2>1
  <2>3. i \in 1..n /\ m \in 1..n
    OBVIOUS
  <2> QED BY <2>2, <2>3
<1> QED BY <1>7 DEF Max

\* While the summaries advance, a plan reaches further than all of them.
LEMMA PlanIsAhead ==
  ASSUME NEW entries \in Seq(Nat), NEW through \in planCompaction(entries),
         \A i, j \in DOMAIN entries :
           i < j /\ entries[i] # 0 /\ entries[j] # 0 => entries[i] < entries[j]
  PROVE  through \in Nat /\ through > 0 /\ \A i \in DOMAIN entries : entries[i] < through
<1> DEFINE summaries == {i \in DOMAIN entries : entries[i] # 0}
           afterSummary == {i \in DOMAIN entries : entries[i] = 0 /\ i > Covered(entries)}
<1>1. DOMAIN entries = 1..Len(entries) /\ Len(entries) \in Nat
      /\ \A i \in DOMAIN entries : entries[i] \in Nat
  BY LenProperties, ElementOfSeq
<1>2. through \in DOMAIN entries /\ through > Covered(entries)
  BY DEF planCompaction
<1>3. CASE summaries = {}
  BY <1>1, <1>2, <1>3
<1>4. CASE summaries # {}
  <2>1. summaries \in SUBSET (1..Len(entries))
    BY <1>1
  <2>2. PICK last \in summaries : last = Max(summaries) /\ \A i \in summaries : i <= last
    BY <1>1, <1>4, <2>1, MaxOfPositions
  <2>3. Covered(entries) = entries[last]
    BY <1>4, <2>2 DEF Covered
  <2>4. ASSUME NEW i \in summaries PROVE entries[i] <= Covered(entries)
    <3>1. i \in 1..Len(entries) /\ last \in 1..Len(entries) /\ i <= last
      BY <1>1, <2>2
    <3>2. i < last => entries[i] < entries[last]
      OBVIOUS
    <3> QED BY <1>1, <2>3, <3>1, <3>2
  <2>5. Covered(entries) \in Nat
    BY <1>1, <2>3
  <2>6. ASSUME NEW i \in DOMAIN entries PROVE entries[i] < through
    <3>1. entries[i] = 0 \/ entries[i] <= Covered(entries)
      BY <2>4
    <3>2. through \in Nat /\ entries[i] \in Nat
      BY <1>1, <1>2
    <3> QED BY <1>2, <2>5, <3>1, <3>2
  <2> QED BY <1>1, <1>2, <2>5, <2>6
<1> QED BY <1>3, <1>4

-----------------------------------------------------------------------------
(* Steps *)

\* What a statement on the lease table does to the tokens: a row keeps its
\* token, loses it, or gets one that was never granted before.
LEMMA LeaseMoves ==
  ASSUME LeasesInv, [Next]_vars
  PROVE  \A s \in Sessions :
           /\ granted'[s] >= granted[s]
           /\ leases'[s].token \in {0, leases[s].token, granted[s] + 1}
<1> USE DEF LeasesInv, TypeOK, Lease, NoLease
<1>1. ASSUME NEW s \in Sessions, acquireLease(s)
      PROVE  \A t \in Sessions : /\ granted'[t] >= granted[t]
                                 /\ leases'[t].token \in {0, leases[t].token, granted[t] + 1}
  BY <1>1 DEF acquireLease
<1>2. ASSUME NEW s \in Sessions, NEW token, append(s, token)
      PROVE  \A t \in Sessions : granted'[t] >= granted[t] /\ leases'[t].token = leases[t].token
  BY <1>2 DEF append
<1>3. ASSUME NEW s \in Sessions, leases' = [leases EXCEPT ![s] = NoLease], UNCHANGED granted
      PROVE  \A t \in Sessions : granted'[t] >= granted[t] /\ leases'[t].token \in {0, leases[t].token}
  BY <1>3
<1>4. ASSUME Tick
      PROVE  \A t \in Sessions : granted'[t] >= granted[t] /\ leases'[t].token = leases[t].token
  BY <1>4 DEF Tick
<1>5. ASSUME UNCHANGED vars
      PROVE  \A t \in Sessions : granted'[t] >= granted[t] /\ leases'[t].token = leases[t].token
  BY <1>5 DEF vars
<1> QED BY <1>1, <1>2, <1>3, <1>4, <1>5 DEF Next, releaseLease, forceReleaseLease

\* A job that stays as it is or ends.
Kept(v, t) == jobs'[v][t] \in {jobs[v][t], NoJob}

\* What a job must come to for the invariant to hold after a step that writes
\* no entry.
Sound(w, s) ==
  LET j == jobs'[w][s] IN
  /\ j.token <= granted'[s]
  /\ j.pc \in {"check", "write", "tape", "release"} => j.token > 0
  /\ j.token # 0 => \A v \in Writers \ {w} : jobs[v][s].token # j.token
  /\ j.pc \in {"lease", "check", "write"} => j.through > 0
  /\ j.pc \in {"lease", "check"} =>
       /\ j.snapshot <= Len(transcript[s])
       /\ \A i \in DOMAIN transcript[s] : i <= j.snapshot => transcript[s][i] < j.through
  /\ j.pc = "write" /\ leases'[s].token = j.token =>
       \A i \in DOMAIN transcript[s] : transcript[s][i] < j.through

\* The only job that may have gone on is this one, soundly.
OnlyMoves(w, s) ==
  \A v \in Writers, t \in Sessions : Kept(v, t) \/ (v = w /\ t = s /\ Sound(v, t))

\* A step that writes no entry and moves on at most one job.
LEMMA JobKeeps ==
  ASSUME CompactionInv, [Next]_vars, UNCHANGED transcript,
         pending' \in [Procs -> [Sessions -> BOOLEAN]],
         unserved' \in [Procs -> [Sessions -> BOOLEAN]],
         jobs' \in [Writers -> [Sessions -> JobRecord]],
         NEW w, NEW s, OnlyMoves(w, s)
  PROVE  CompactionInv'
<1>1. LeasesInv'
  BY LeasesInvPreserved DEF CompactionInv
<1>2. CTypeOK'
  BY DEF CompactionInv, CTypeOK
<1>3. \A t \in Sessions : /\ granted'[t] >= granted[t]
                         /\ leases'[t].token \in {0, leases[t].token, granted[t] + 1}
  BY LeaseMoves DEF CompactionInv
<1>4. \A t \in Sessions : granted[t] \in Nat /\ granted'[t] \in Nat
  BY <1>1 DEF CompactionInv, LeasesInv, TypeOK
<1>5. \A v \in Writers, t \in Sessions : jobs[v][t].token \in Nat /\ jobs'[v][t].token \in Nat
  BY DEF CompactionInv, CTypeOK, JobRecord
<1>6. \A v \in Writers, t \in Sessions :
        \/ jobs'[v][t] = jobs[v][t]
        \/ jobs'[v][t].pc = "idle" /\ jobs'[v][t].token = 0
        \/ v = w /\ t = s /\ Sound(v, t)
  BY DEF OnlyMoves, Kept, NoJob
<1>7. TokensGranted'
  <2> SUFFICES ASSUME NEW v \in Writers, NEW t \in Sessions
               PROVE  /\ jobs'[v][t].token <= granted'[t]
                      /\ jobs'[v][t].pc \in {"check", "write", "tape", "release"} => jobs'[v][t].token > 0
    BY DEF TokensGranted
  <2>1. CASE Sound(v, t)
    BY <2>1 DEF Sound
  <2>2. CASE ~Sound(v, t)
    <3>1. jobs[v][t].token <= granted[t]
      BY DEF CompactionInv, TokensGranted
    <3> QED BY <1>3, <1>4, <1>5, <1>6, <2>2, <3>1 DEF CompactionInv, TokensGranted
  <2> QED BY <2>1, <2>2
<1>8. TokensApart'
  <2> SUFFICES ASSUME NEW v \in Writers, NEW u \in Writers, NEW t \in Sessions, v # u,
                      jobs'[v][t].token # 0
               PROVE  jobs'[v][t].token # jobs'[u][t].token
    BY DEF TokensApart
  <2>1. CASE t = s /\ v = w /\ Sound(v, t)
    BY <1>6, <2>1 DEF Sound
  <2>2. CASE t = s /\ u = w /\ Sound(u, t)
    BY <1>6, <2>2 DEF Sound
  <2>3. CASE ~(t = s /\ v = w /\ Sound(v, t)) /\ ~(t = s /\ u = w /\ Sound(u, t))
    BY <1>6, <2>3 DEF CompactionInv, TokensApart
  <2> QED BY <2>1, <2>2, <2>3
<1>9. PlansAreAhead'
  BY <1>6 DEF CompactionInv, PlansAreAhead, Sound
<1>10. WritesAreAhead'
  <2> SUFFICES ASSUME NEW v \in Writers, NEW t \in Sessions, jobs'[v][t].pc = "write",
                      leases'[t].token = jobs'[v][t].token
               PROVE  \A i \in DOMAIN transcript[t] : transcript[t][i] < jobs'[v][t].through
    BY DEF WritesAreAhead, ValidFor
  <2>1. CASE Sound(v, t)
    BY <2>1 DEF Sound
  <2>2. CASE ~Sound(v, t)
    <3>1. jobs'[v][t] = jobs[v][t]
      BY <1>6, <2>2
    <3>2. jobs[v][t].token > 0 /\ jobs[v][t].token <= granted[t]
      BY <3>1 DEF CompactionInv, TokensGranted
    <3>3. leases[t].token = jobs[v][t].token
      BY <1>3, <1>4, <1>5, <3>1, <3>2
    <3> QED BY <3>1, <3>3 DEF CompactionInv, WritesAreAhead, ValidFor
  <2> QED BY <2>1, <2>2
<1>11. SummariesAdvance'
  BY DEF CompactionInv, SummariesAdvance
<1> QED BY <1>1, <1>2, <1>7, <1>8, <1>9, <1>10, <1>11 DEF CompactionInv

\* An entry appended under a grant keeps the invariant if it is no summary, or
\* the summary of the one compaction that has the grant.
LEMMA EntryKeeps ==
  ASSUME CompactionInv, UNCHANGED <<pending, unserved>>,
         NEW s \in Sessions, NEW token \in 1..granted[s], append(s, token),
         NEW e \in Nat, transcript' = [transcript EXCEPT ![s] = Append(@, e)],
         \/ e = 0 /\ UNCHANGED jobs
         \/ \E w \in Writers :
              /\ jobs[w][s].token = token
              /\ \A i \in DOMAIN transcript[s] : transcript[s][i] < e
              /\ jobs' = [jobs EXCEPT ![w][s].pc = "tape"]
  PROVE  CompactionInv'
<1> DEFINE old == transcript[s]
           new == Append(old, e)
<1>1. Next
  BY DEF Next
<1>2. LeasesInv'
  BY <1>1, LeasesInvPreserved DEF CompactionInv
<1>3. /\ \A t \in Sessions : leases'[t].token = leases[t].token
      /\ granted' = granted /\ leases[s].token = token
  BY DEF append, ValidFor, CompactionInv, LeasesInv, TypeOK, Lease
<1>4. old \in Seq(Nat) /\ Len(old) \in Nat /\ DOMAIN old = 1..Len(old)
      /\ \A i \in DOMAIN old : old[i] \in Nat
  BY LenProperties, ElementOfSeq DEF CompactionInv, CTypeOK
<1>5. /\ new \in Seq(Nat) /\ Len(new) = Len(old) + 1 /\ DOMAIN new = 1..(Len(old) + 1)
      /\ \A i \in DOMAIN old : new[i] = old[i]
      /\ new[Len(old) + 1] = e
  BY <1>4, AppendProperties, LenProperties
<1>6. transcript'[s] = new /\ \A t \in Sessions \ {s} : transcript'[t] = transcript[t]
  BY DEF CompactionInv, CTypeOK
<1> HIDE DEF new
<1>7. \A i \in DOMAIN new : (i \in DOMAIN old /\ new[i] = old[i]) \/ (i = Len(old) + 1 /\ new[i] = e)
  BY <1>4, <1>5
<1>8. /\ jobs' \in [Writers -> [Sessions -> JobRecord]]
      /\ \A v \in Writers, t \in Sessions :
           /\ jobs[v][t] \in JobRecord /\ jobs'[v][t] \in JobRecord
           /\ jobs'[v][t].token = jobs[v][t].token
           /\ jobs'[v][t].snapshot = jobs[v][t].snapshot
           /\ jobs'[v][t].through = jobs[v][t].through
           /\ \/ jobs'[v][t].pc = jobs[v][t].pc
              \/ jobs'[v][t].pc = "tape" /\ t = s /\ jobs[v][t].token = token
  <2>1. jobs \in [Writers -> [Sessions -> JobRecord]]
    BY DEF CompactionInv, CTypeOK
  <2>2. CASE UNCHANGED jobs
    BY <2>1, <2>2
  <2>3. ASSUME NEW w \in Writers, jobs[w][s].token = token, jobs' = [jobs EXCEPT ![w][s].pc = "tape"]
        PROVE  <1>8
    <3> DEFINE job == [jobs[w][s] EXCEPT !.pc = "tape"]
    <3>1. jobs[w][s] \in JobRecord
      BY <2>1
    <3>2. /\ job \in JobRecord /\ job.pc = "tape" /\ job.token = jobs[w][s].token
          /\ job.snapshot = jobs[w][s].snapshot /\ job.through = jobs[w][s].through
      BY <3>1 DEF JobRecord
    <3>3. jobs' = [jobs EXCEPT ![w] = [jobs[w] EXCEPT ![s] = job]]
      BY <2>1, <2>3
    <3> HIDE DEF job
    <3> QED BY <2>1, <2>3, <3>2, <3>3
  <2> QED BY <2>2, <2>3
<1>9. CTypeOK'
  <2>1. jobs' \in [Writers -> [Sessions -> JobRecord]]
    BY <1>8
  <2>2. transcript' \in [Sessions -> Seq(Nat)]
    BY <1>5 DEF CompactionInv, CTypeOK, new
  <2> QED BY <2>1, <2>2 DEF CompactionInv, CTypeOK
<1>10. TokensGranted'
  BY <1>3, <1>8 DEF CompactionInv, TokensGranted
<1>11. TokensApart'
  BY <1>8 DEF CompactionInv, TokensApart
<1>12. PlansAreAhead'
  <2> SUFFICES ASSUME NEW v \in Writers, NEW t \in Sessions, jobs'[v][t].pc \in {"lease", "check", "write"}
               PROVE  /\ jobs'[v][t].through > 0
                      /\ jobs'[v][t].pc # "write" =>
                           /\ jobs'[v][t].snapshot <= Len(transcript'[t])
                           /\ \A i \in DOMAIN transcript'[t] :
                                i <= jobs'[v][t].snapshot => transcript'[t][i] < jobs'[v][t].through
    BY DEF PlansAreAhead
  <2>1. jobs'[v][t].pc = jobs[v][t].pc
    BY <1>8
  <2>2. /\ jobs[v][t].through > 0
        /\ jobs'[v][t].pc # "write" =>
             /\ jobs[v][t].snapshot <= Len(transcript[t])
             /\ \A i \in DOMAIN transcript[t] :
                  i <= jobs[v][t].snapshot => transcript[t][i] < jobs[v][t].through
    BY <2>1 DEF CompactionInv, PlansAreAhead
  <2>3. CASE t # s
    BY <1>6, <1>8, <2>2, <2>3
  <2>4. CASE t = s
    <3>1. jobs[v][s].snapshot \in Nat
      BY <1>8 DEF JobRecord
    <3>2. \A i \in DOMAIN new : i <= jobs[v][s].snapshot /\ jobs[v][s].snapshot <= Len(old) =>
            i \in DOMAIN old /\ new[i] = old[i]
      <4> SUFFICES ASSUME NEW i \in DOMAIN new, i <= jobs[v][s].snapshot, jobs[v][s].snapshot <= Len(old)
                   PROVE  i # Len(old) + 1
        BY <1>7
      <4> QED BY <1>4, <1>5, <3>1
    <3>3. jobs[v][s].snapshot <= Len(old) => jobs[v][s].snapshot <= Len(new)
      BY <1>4, <1>5, <3>1
    <3> QED BY <1>6, <1>8, <2>2, <2>4, <3>2, <3>3
  <2> QED BY <2>3, <2>4
<1>13. WritesAreAhead'
  <2> SUFFICES ASSUME NEW v \in Writers, NEW t \in Sessions, jobs'[v][t].pc = "write",
                      leases'[t].token = jobs'[v][t].token
               PROVE  \A i \in DOMAIN transcript'[t] : transcript'[t][i] < jobs'[v][t].through
    BY DEF WritesAreAhead, ValidFor
  <2>1. jobs[v][t].pc = "write" /\ leases[t].token = jobs[v][t].token
        /\ jobs'[v][t].through = jobs[v][t].through /\ jobs[v][t].through > 0
    BY <1>3, <1>8 DEF CompactionInv, PlansAreAhead
  <2>2. \A i \in DOMAIN transcript[t] : transcript[t][i] < jobs[v][t].through
    BY <2>1 DEF CompactionInv, WritesAreAhead, ValidFor
  <2>3. CASE t # s
    BY <1>6, <2>1, <2>2, <2>3
  <2>4. CASE t = s
    <3>1. e = 0
      <4> SUFFICES ASSUME NEW w \in Writers, jobs[w][s].token = token,
                          jobs' = [jobs EXCEPT ![w][s].pc = "tape"]
                   PROVE  FALSE
        OBVIOUS
      <4>1. jobs'[w][s].pc = "tape"
        BY DEF CompactionInv, CTypeOK, JobRecord
      <4>2. v # w
        BY <2>4, <4>1
      <4>3. jobs[v][s].token = token /\ token # 0
        BY <1>3, <2>1, <2>4 DEF CompactionInv, LeasesInv, TypeOK
      <4> QED BY <4>2, <4>3 DEF CompactionInv, TokensApart
    <3> QED BY <1>6, <1>7, <2>1, <2>2, <2>4, <3>1
  <2> QED BY <2>3, <2>4
<1>14. SummariesAdvance'
  <2> SUFFICES ASSUME NEW t \in Sessions, NEW i \in DOMAIN transcript'[t], NEW j \in DOMAIN transcript'[t],
                      i < j, transcript'[t][i] # 0, transcript'[t][j] # 0
               PROVE  transcript'[t][i] < transcript'[t][j]
    BY DEF SummariesAdvance
  <2>1. CASE t # s
    BY <1>6, <2>1 DEF CompactionInv, SummariesAdvance
  <2>2. CASE t = s
    <3>1. i \in DOMAIN old /\ new[i] = old[i]
      BY <1>4, <1>5, <1>6, <1>7, <2>2
    <3>2. CASE j \in DOMAIN old /\ new[j] = old[j]
      BY <1>6, <2>2, <3>1, <3>2 DEF CompactionInv, SummariesAdvance
    <3>3. CASE new[j] = e
      BY <1>6, <2>2, <3>1, <3>3
    <3> QED BY <1>6, <1>7, <2>2, <3>2, <3>3
  <2> QED BY <2>1, <2>2
<1> QED BY <1>2, <1>9, <1>10, <1>11, <1>12, <1>13, <1>14 DEF CompactionInv

JobTo(w, s, new) == jobs' = [jobs EXCEPT ![w][s] = new]

\* A job that moves on leaves the others alone.
LEMMA JobMoves ==
  ASSUME CTypeOK, NEW w \in Writers, NEW s \in Sessions, NEW new \in JobRecord,
         JobTo(w, s, new)
  PROVE  /\ jobs' \in [Writers -> [Sessions -> JobRecord]]
         /\ jobs'[w][s] = new
         /\ \A v \in Writers, t \in Sessions : Kept(v, t) \/ (v = w /\ t = s)
  BY DEF CTypeOK, JobTo, Kept

\* A step that moves on one job, whose token it keeps, to a place where nothing
\* is asked of the plan, or ends it.
LEMMA LateJobKeeps ==
  ASSUME CompactionInv, [Next]_vars, UNCHANGED transcript,
         pending' \in [Procs -> [Sessions -> BOOLEAN]],
         unserved' \in [Procs -> [Sessions -> BOOLEAN]],
         NEW w \in Writers, NEW s \in Sessions,
         \/ Finish(w, s)
         \/ Goto(w, s, "read")
         \/ Goto(w, s, "release") /\ jobs[w][s].token > 0
  PROVE  CompactionInv'
<1>1. CTypeOK /\ jobs[w][s] \in JobRecord
  BY DEF CompactionInv, CTypeOK
<1>2. CASE Finish(w, s)
  <2>1. NoJob \in JobRecord
    BY DEF NoJob, JobRecord
  <2>2. JobTo(w, s, NoJob)
    BY <1>2 DEF Finish, JobTo
  <2>3. /\ jobs' \in [Writers -> [Sessions -> JobRecord]]
        /\ \A v \in Writers, t \in Sessions : Kept(v, t)
    BY <1>1, <2>1, <2>2, JobMoves DEF Kept
  <2>4. OnlyMoves(w, s)
    BY <2>3 DEF OnlyMoves
  <2> QED BY <2>3, <2>4, JobKeeps
<1>3. ASSUME NEW pc \in {"read", "release"}, Goto(w, s, pc), pc = "release" => jobs[w][s].token > 0
      PROVE  CompactionInv'
  <2> DEFINE new == [jobs[w][s] EXCEPT !.pc = pc]
  <2>1. new \in JobRecord /\ new.pc = pc /\ new.token = jobs[w][s].token
    BY <1>1 DEF JobRecord
  <2>2. JobTo(w, s, new)
    BY <1>1, <1>3 DEF Goto, CTypeOK, JobTo
  <2> HIDE DEF new
  <2>3. /\ jobs' \in [Writers -> [Sessions -> JobRecord]]
        /\ jobs'[w][s] = new
        /\ \A v \in Writers, t \in Sessions : Kept(v, t) \/ (v = w /\ t = s)
    BY <1>1, <2>1, <2>2, JobMoves
  <2>4. new.token <= granted'[s]
    <3>1. LeasesInv /\ LeasesInv'
      BY LeasesInvPreserved DEF CompactionInv
    <3>2. granted[s] \in Nat /\ granted'[s] \in Nat
      BY <3>1 DEF LeasesInv, TypeOK
    <3>3. granted'[s] >= granted[s]
      BY <3>1, LeaseMoves
    <3>4. jobs[w][s].token <= granted[s] /\ jobs[w][s].token \in Nat
      BY <1>1 DEF CompactionInv, TokensGranted, JobRecord
    <3> QED BY <2>1, <3>2, <3>3, <3>4
  <2>5. new.token # 0 => \A v \in Writers \ {w} : jobs[v][s].token # new.token
    BY <2>1 DEF CompactionInv, TokensApart
  <2>6. Sound(w, s)
    BY <1>3, <2>1, <2>3, <2>4, <2>5 DEF Sound
  <2>7. OnlyMoves(w, s)
    BY <2>3, <2>6 DEF OnlyMoves
  <2>8. jobs' \in [Writers -> [Sessions -> JobRecord]]
    BY <2>3
  <2> QED BY <2>7, <2>8, JobKeeps
<1> QED BY <1>2, <1>3

\* A step that leaves the jobs alone, or ends the ones of a process.
LEMMA QuietKeeps ==
  ASSUME CompactionInv, [Next]_vars, UNCHANGED transcript,
         pending' \in [Procs -> [Sessions -> BOOLEAN]],
         unserved' \in [Procs -> [Sessions -> BOOLEAN]],
         jobs' \in [Writers -> [Sessions -> JobRecord]],
         \A v \in Writers, t \in Sessions : Kept(v, t)
  PROVE  CompactionInv'
<1>1. OnlyMoves(0, 0)
  BY DEF OnlyMoves
<1> QED BY <1>1, JobKeeps

\* Every step preserves the invariant and is a step of the session leases.
LEMMA CompactionStep ==
  ASSUME CompactionInv, [CNext]_cvars
  PROVE  CompactionInv' /\ [Next]_vars
<1> USE DEF leaseVars
<1>1. /\ LeasesInv /\ CTypeOK
      /\ Procs \subseteq Writers /\ Turns \subseteq Writers
      /\ jobs \in [Writers -> [Sessions -> JobRecord]]
      /\ transcript \in [Sessions -> Seq(Nat)]
      /\ pending \in [Procs -> [Sessions -> BOOLEAN]]
      /\ unserved \in [Procs -> [Sessions -> BOOLEAN]]
  BY DEF CompactionInv, CTypeOK, Writers
<1>2. \A w \in Writers, s \in Sessions : jobs[w][s].token \in Nat /\ granted[s] \in Nat
  BY <1>1 DEF LeasesInv, TypeOK, JobRecord
\* The leases' part of a step that leaves them alone or goes through a token.
<1>3. ASSUME UNCHANGED leaseVars PROVE [Next]_vars
  BY <1>3
<1>4. ASSUME NEW w \in Writers, NEW s \in Sessions,
             jobs[w][s].pc \in {"check", "write", "tape", "release"},
             append(s, jobs[w][s].token) \/ releaseLease(s, jobs[w][s].token)
      PROVE  Next /\ jobs[w][s].token \in 1..granted[s]
  <2>1. jobs[w][s].token \in 1..granted[s]
    BY <1>2, <1>4 DEF CompactionInv, TokensGranted
  <2> QED BY <1>4, <2>1 DEF Next
<1>5. ASSUME NEW s \in Sessions, NEW token \in 1..granted[s], work(s, token)
      PROVE  CompactionInv' /\ [Next]_vars
  <2>1. append(s, token) /\ transcript' = [transcript EXCEPT ![s] = Append(@, 0)]
        /\ UNCHANGED <<pending, jobs, unserved>>
    BY <1>5 DEF work
  <2>2. CompactionInv'
    BY <2>1, EntryKeeps
  <2> QED BY <2>1, <2>2 DEF Next
<1>6. ASSUME NEW s \in Sessions, leaseStep(s)
      PROVE  CompactionInv' /\ [Next]_vars
  <2>1. Next /\ UNCHANGED <<transcript, pending, jobs, unserved>>
    BY <1>6 DEF leaseStep, Next
  <2>2. \A v \in Writers, t \in Sessions : Kept(v, t)
    BY <2>1 DEF Kept
  <2> QED BY <1>1, <2>1, <2>2, QuietKeeps
<1>7. ASSUME NEW t \in Turns, NEW s \in Sessions, NEW token \in 1..granted[s],
             compactContextIfNeeded(t, s, token)
      PROVE  CompactionInv' /\ [Next]_vars
  <2>1. PICK through \in planCompaction(transcript[s]) :
          JobTo(t, s, [pc |-> "write", snapshot |-> Len(transcript[s]), through |-> through, token |-> token])
    BY <1>7 DEF compactContextIfNeeded, JobTo
  <2> DEFINE new == [pc |-> "write", snapshot |-> Len(transcript[s]), through |-> through, token |-> token]
  <2>2. /\ through \in Nat /\ through > 0 /\ Len(transcript[s]) \in Nat
        /\ \A i \in DOMAIN transcript[s] : transcript[s][i] < through
    BY <1>1, PlanIsAhead, LenProperties DEF CompactionInv, SummariesAdvance
  <2>3. new \in JobRecord /\ new.pc = "write" /\ new.token = token /\ new.through = through
        /\ token <= granted[s] /\ token > 0
    BY <1>2, <2>2 DEF JobRecord
  <2>4. JobTo(t, s, new)
    BY <2>1
  <2>5. UNCHANGED <<leaseVars, transcript, pending, unserved>>
        /\ \A v \in Writers : jobs[v][s].token # token
    BY <1>7 DEF compactContextIfNeeded
  <2> HIDE DEF new
  <2>6. /\ jobs' \in [Writers -> [Sessions -> JobRecord]] /\ jobs'[t][s] = new
        /\ \A v \in Writers, u \in Sessions : Kept(v, u) \/ (v = t /\ u = s)
    BY <1>1, <2>3, <2>4, JobMoves
  <2>7. Sound(t, s)
    BY <2>2, <2>3, <2>5, <2>6 DEF Sound, vars
  <2>8. OnlyMoves(t, s)
    BY <2>6, <2>7 DEF OnlyMoves
  <2>9. /\ jobs' \in [Writers -> [Sessions -> JobRecord]] /\ [Next]_vars
        /\ UNCHANGED transcript /\ pending' = pending /\ unserved' = unserved
    BY <1>3, <2>5, <2>6
  <2> QED BY <1>1, <2>8, <2>9, JobKeeps
<1>8. ASSUME NEW p \in Procs, NEW s \in Sessions, scheduleBackgroundCompaction(p, s)
      PROVE  CompactionInv' /\ [Next]_vars
  <2>1. UNCHANGED <<leaseVars, transcript, jobs>>
        /\ pending' \in [Procs -> [Sessions -> BOOLEAN]]
        /\ unserved' \in [Procs -> [Sessions -> BOOLEAN]]
    BY <1>1, <1>8 DEF scheduleBackgroundCompaction, Requested
  <2>2. \A v \in Writers, t \in Sessions : Kept(v, t)
    BY <2>1 DEF Kept
  <2> QED BY <1>1, <1>3, <2>1, <2>2, QuietKeeps
<1>9. ASSUME NEW p \in Procs, NEW s \in Sessions, start(p, s)
      PROVE  CompactionInv' /\ [Next]_vars
  <2>1. Goto(p, s, "read") /\ UNCHANGED <<leaseVars, transcript, unserved>>
        /\ pending' \in [Procs -> [Sessions -> BOOLEAN]]
    BY <1>1, <1>9 DEF start
  <2> QED BY <1>1, <1>3, <2>1, LateJobKeeps
<1>10. ASSUME NEW p \in Procs, NEW s \in Sessions, read(p, s)
       PROVE  CompactionInv' /\ [Next]_vars
  <2>1. UNCHANGED <<leaseVars, transcript, pending>>
        /\ unserved' \in [Procs -> [Sessions -> BOOLEAN]]
    BY <1>1, <1>10 DEF read
  <2>2. CASE Finish(p, s)
    BY <1>1, <1>3, <2>1, <2>2, LateJobKeeps
  <2>3. ASSUME NEW through \in planCompaction(transcript[s]),
               JobTo(p, s, [pc |-> "lease", snapshot |-> Len(transcript[s]), through |-> through, token |-> 0])
        PROVE  CompactionInv'
    <3> DEFINE new == [pc |-> "lease", snapshot |-> Len(transcript[s]), through |-> through, token |-> 0]
    <3>1. /\ through \in Nat /\ through > 0 /\ Len(transcript[s]) \in Nat
          /\ \A i \in DOMAIN transcript[s] : transcript[s][i] < through
      BY <1>1, PlanIsAhead, LenProperties DEF CompactionInv, SummariesAdvance
    <3>2. new \in JobRecord /\ new.pc = "lease" /\ new.token = 0 /\ new.through = through
          /\ new.snapshot <= Len(transcript[s])
      BY <3>1 DEF JobRecord
    <3>3. JobTo(p, s, new)
      BY <2>3
    <3> HIDE DEF new
    <3>4. /\ jobs' \in [Writers -> [Sessions -> JobRecord]] /\ jobs'[p][s] = new
          /\ \A v \in Writers, t \in Sessions : Kept(v, t) \/ (v = p /\ t = s)
      BY <1>1, <3>2, <3>3, JobMoves
    <3>5. Sound(p, s)
      BY <1>1, <1>2, <2>1, <3>1, <3>2, <3>4 DEF Sound, vars
    <3>6. OnlyMoves(p, s)
      BY <3>4, <3>5 DEF OnlyMoves
    <3>7. /\ jobs' \in [Writers -> [Sessions -> JobRecord]] /\ [Next]_vars
          /\ UNCHANGED transcript /\ pending' = pending
      BY <1>3, <2>1, <3>4
    <3> QED BY <1>1, <2>1, <3>6, <3>7, JobKeeps
  <2> QED BY <1>3, <1>10, <2>1, <2>2, <2>3 DEF read, JobTo
<1>11. ASSUME NEW p \in Procs, NEW s \in Sessions, giveUp(p, s)
       PROVE  CompactionInv' /\ [Next]_vars
  <2>1. Finish(p, s) /\ UNCHANGED <<leaseVars, transcript, pending, unserved>>
    BY <1>11 DEF giveUp
  <2> QED BY <1>1, <1>3, <2>1, LateJobKeeps
<1>12. ASSUME NEW p \in Procs, NEW s \in Sessions, acquireLeaseWithin(p, s)
       PROVE  CompactionInv' /\ [Next]_vars
  <2> DEFINE new == [jobs[p][s] EXCEPT !.pc = "check", !.token = granted[s] + 1]
  <2>1. At(p, s, "lease") /\ acquireLease(s) /\ UNCHANGED <<transcript, pending, unserved>>
    BY <1>12 DEF acquireLeaseWithin
  <2>2. JobTo(p, s, new)
    BY <1>1, <1>12 DEF acquireLeaseWithin, JobTo
  <2>3. jobs[p][s] \in JobRecord /\ jobs[p][s].pc = "lease" /\ granted[s] + 1 \in Nat
    BY <1>1, <2>1 DEF At, LeasesInv, TypeOK
  <2>4. /\ new \in JobRecord /\ new.pc = "check" /\ new.token = granted[s] + 1
        /\ new.through = jobs[p][s].through /\ new.snapshot = jobs[p][s].snapshot
    BY <2>3 DEF JobRecord
  <2>5. granted'[s] = granted[s] + 1 /\ Next
    BY <1>1, <2>1 DEF acquireLease, LeasesInv, TypeOK, Next
  <2> HIDE DEF new
  <2>6. /\ jobs' \in [Writers -> [Sessions -> JobRecord]] /\ jobs'[p][s] = new
        /\ \A v \in Writers, t \in Sessions : Kept(v, t) \/ (v = p /\ t = s)
    BY <1>1, <2>2, <2>4, JobMoves
  <2>7. \A v \in Writers : jobs[v][s].token <= granted[s]
    BY DEF CompactionInv, TokensGranted
  <2>8. /\ jobs[p][s].through > 0 /\ jobs[p][s].snapshot <= Len(transcript[s])
        /\ \A i \in DOMAIN transcript[s] : i <= jobs[p][s].snapshot => transcript[s][i] < jobs[p][s].through
    BY <1>1, <2>3 DEF CompactionInv, PlansAreAhead
  <2>9. Sound(p, s)
    BY <1>1, <1>2, <2>4, <2>5, <2>6, <2>7, <2>8 DEF Sound
  <2>10. OnlyMoves(p, s)
    BY <2>6, <2>9 DEF OnlyMoves
  <2>11. /\ jobs' \in [Writers -> [Sessions -> JobRecord]] /\ [Next]_vars
         /\ UNCHANGED transcript /\ pending' = pending /\ unserved' = unserved
    BY <2>1, <2>5, <2>6
  <2> QED BY <1>1, <2>10, <2>11, JobKeeps
<1>13. ASSUME NEW p \in Procs, NEW s \in Sessions, check(p, s)
       PROVE  CompactionInv' /\ [Next]_vars
  <2>1. At(p, s, "check") /\ UNCHANGED <<leaseVars, transcript, pending, unserved>>
    BY <1>13 DEF check
  <2>2. jobs[p][s] \in JobRecord /\ jobs[p][s].pc = "check" /\ jobs[p][s].token > 0
    BY <1>1, <2>1 DEF At, CompactionInv, TokensGranted
  <2>3. CASE Superseded(p, s)
    <3>1. Goto(p, s, "release")
      BY <1>13, <2>3 DEF check
    <3> QED BY <1>1, <1>3, <2>1, <2>2, <3>1, LateJobKeeps
  <2>4. CASE ~Superseded(p, s)
    <3> DEFINE new == [jobs[p][s] EXCEPT !.pc = "write"]
    <3>1. JobTo(p, s, new)
      BY <1>1, <1>13, <2>4 DEF check, Goto, JobTo
    <3>2. /\ new \in JobRecord /\ new.pc = "write" /\ new.token = jobs[p][s].token
          /\ new.through = jobs[p][s].through
      BY <2>2 DEF JobRecord
    <3> HIDE DEF new
    <3>3. /\ jobs' \in [Writers -> [Sessions -> JobRecord]] /\ jobs'[p][s] = new
          /\ \A v \in Writers, t \in Sessions : Kept(v, t) \/ (v = p /\ t = s)
      BY <1>1, <3>1, <3>2, JobMoves
    <3>4. /\ jobs[p][s].through > 0
          /\ \A i \in DOMAIN transcript[s] : i <= jobs[p][s].snapshot => transcript[s][i] < jobs[p][s].through
      BY <1>1, <2>2 DEF CompactionInv, PlansAreAhead
    <3>5. \A i \in DOMAIN transcript[s] : transcript[s][i] < jobs[p][s].through
      <4> SUFFICES ASSUME NEW i \in DOMAIN transcript[s] PROVE transcript[s][i] < jobs[p][s].through
        OBVIOUS
      <4>1. i \in Nat /\ jobs[p][s].snapshot \in Nat
        BY <1>1, <2>2, LenProperties DEF JobRecord
      <4>2. i > jobs[p][s].snapshot => transcript[s][i] = 0
        BY <2>4 DEF Superseded
      <4> QED BY <3>4, <4>1, <4>2
    <3>6. jobs[p][s].token <= granted[s] /\ \A v \in Writers \ {p} : jobs[v][s].token # jobs[p][s].token
      BY <1>1, <2>2 DEF CompactionInv, TokensGranted, TokensApart
    <3>7. Sound(p, s)
      BY <2>1, <2>2, <3>2, <3>3, <3>4, <3>5, <3>6 DEF Sound, vars
    <3>8. OnlyMoves(p, s)
      BY <3>3, <3>7 DEF OnlyMoves
    <3>9. /\ jobs' \in [Writers -> [Sessions -> JobRecord]] /\ [Next]_vars
          /\ UNCHANGED transcript /\ pending' = pending /\ unserved' = unserved
      BY <1>3, <2>1, <3>3
    <3> QED BY <1>1, <3>8, <3>9, JobKeeps
  <2> QED BY <2>3, <2>4
<1>14. ASSUME NEW w \in Writers, NEW s \in Sessions, writeCompaction(w, s)
       PROVE  CompactionInv' /\ [Next]_vars
  <2>1. jobs[w][s].pc = "write" /\ UNCHANGED <<pending, unserved>> /\ jobs[w][s].token > 0
    BY <1>14 DEF writeCompaction, At, CompactionInv, TokensGranted
  <2>2. CASE ValidFor(s, jobs[w][s].token)
    <3>1. /\ append(s, jobs[w][s].token)
          /\ transcript' = [transcript EXCEPT ![s] = Append(@, jobs[w][s].through)]
          /\ jobs' = [jobs EXCEPT ![w][s].pc = "tape"]
      BY <1>14, <2>2 DEF writeCompaction, Goto
    <3>2. jobs[w][s].through \in Nat
      BY <1>1 DEF JobRecord
    <3>3. \A i \in DOMAIN transcript[s] : transcript[s][i] < jobs[w][s].through
      BY <2>1, <2>2 DEF CompactionInv, WritesAreAhead
    <3>4. Next /\ jobs[w][s].token \in 1..granted[s]
      BY <1>4, <2>1, <3>1
    <3>5. \E v \in Writers :
             /\ jobs[v][s].token = jobs[w][s].token
             /\ \A i \in DOMAIN transcript[s] : transcript[s][i] < jobs[w][s].through
             /\ jobs' = [jobs EXCEPT ![v][s].pc = "tape"]
      BY <3>1, <3>3
    <3>6. CompactionInv'
      BY <2>1, <3>1, <3>2, <3>4, <3>5, EntryKeeps
    <3> QED BY <3>4, <3>6
  <2>3. CASE ~ValidFor(s, jobs[w][s].token)
    <3>1. UNCHANGED <<leaseVars, transcript>> /\ (Goto(w, s, "release") \/ Finish(w, s))
      BY <1>14, <2>3 DEF writeCompaction
    <3> QED BY <1>1, <1>3, <2>1, <3>1, LateJobKeeps
  <2> QED BY <2>2, <2>3
<1>15. ASSUME NEW w \in Writers, NEW s \in Sessions, appendTape(w, s) \/ (w \in Procs /\ release(w, s))
       PROVE  CompactionInv' /\ [Next]_vars
  <2>1. /\ jobs[w][s].pc \in {"tape", "release"} /\ UNCHANGED <<transcript, pending, unserved>>
        /\ Goto(w, s, "release") \/ Finish(w, s)
        /\ \/ append(s, jobs[w][s].token) \/ releaseLease(s, jobs[w][s].token)
           \/ UNCHANGED leaseVars
    BY <1>15 DEF appendTape, release, At
  <2>2. jobs[w][s].token > 0
    BY <2>1 DEF CompactionInv, TokensGranted
  <2>3. [Next]_vars
    BY <1>3, <1>4, <2>1
  <2> QED BY <1>1, <2>1, <2>2, <2>3, LateJobKeeps
<1>16. ASSUME NEW p \in Procs, crash(p)
       PROVE  CompactionInv' /\ [Next]_vars
  <2>1. UNCHANGED <<leaseVars, transcript>>
        /\ pending' \in [Procs -> [Sessions -> BOOLEAN]]
        /\ unserved' \in [Procs -> [Sessions -> BOOLEAN]]
    BY <1>1, <1>16 DEF crash
  <2>2. jobs' = [jobs EXCEPT ![p] = [s \in Sessions |-> NoJob]] /\ NoJob \in JobRecord
    BY <1>16 DEF crash, NoJob, JobRecord
  <2>3. jobs' \in [Writers -> [Sessions -> JobRecord]]
        /\ \A v \in Writers, t \in Sessions : Kept(v, t)
    BY <1>1, <2>2 DEF Kept
  <2> QED BY <1>3, <2>1, <2>3, QuietKeeps
<1>17. ASSUME tick PROVE CompactionInv' /\ [Next]_vars
  <2>1. Next /\ UNCHANGED <<transcript, pending, jobs, unserved>>
    BY <1>17 DEF tick, Next
  <2>2. \A v \in Writers, t \in Sessions : Kept(v, t)
    BY <2>1 DEF Kept
  <2> QED BY <1>1, <2>1, <2>2, QuietKeeps
<1>18. ASSUME NEW p \in Procs, NEW s \in Sessions, readFails(p, s)
       PROVE  CompactionInv' /\ [Next]_vars
  <2>1. Finish(p, s) /\ UNCHANGED <<leaseVars, transcript, pending>>
        /\ unserved' \in [Procs -> [Sessions -> BOOLEAN]]
    BY <1>1, <1>18 DEF readFails
  <2> QED BY <1>1, <1>3, <2>1, LateJobKeeps
<1>19. ASSUME UNCHANGED cvars PROVE CompactionInv' /\ [Next]_vars
  <2>1. UNCHANGED <<leaseVars, transcript, pending, jobs, unserved>>
    BY <1>19 DEF cvars
  <2>2. \A v \in Writers, t \in Sessions : Kept(v, t)
    BY <2>1 DEF Kept
  <2> QED BY <1>1, <1>3, <2>1, <2>2, QuietKeeps
<1> QED BY <1>1, <1>5, <1>6, <1>7, <1>8, <1>9, <1>10, <1>11, <1>12, <1>13, <1>14, <1>15, <1>16, <1>17, <1>18,
          <1>19 DEF CNext, Job

\* The invariant holds in every state, and every step keeps to the leases.
LEMMA CompactionInvariance == CSpec => []CompactionInv /\ [][Next]_vars
<1>1. CInit => CompactionInv
  <2> SUFFICES ASSUME CInit PROVE CompactionInv
    OBVIOUS
  <2>1. LeasesInv
    BY DEF CInit, Init, LeasesInv, TypeOK, NewestGrantHolds, Lease, NoLease
  <2>2. NoJob \in JobRecord /\ NoJob.pc = "idle" /\ NoJob.token = 0 /\ <<>> \in Seq(Nat)
    BY DEF NoJob, JobRecord
  <2>3. /\ jobs \in [Writers -> [Sessions -> JobRecord]]
        /\ \A w \in Writers, s \in Sessions : jobs[w][s] = NoJob
        /\ transcript \in [Sessions -> Seq(Nat)]
        /\ \A s \in Sessions : transcript[s] = <<>> /\ granted[s] = 0
    BY <2>2 DEF CInit, Init
  <2>4. CTypeOK
    BY <2>3 DEF CInit, CTypeOK
  <2>5. TokensGranted /\ TokensApart /\ PlansAreAhead /\ WritesAreAhead
    BY <2>2, <2>3 DEF TokensGranted, TokensApart, PlansAreAhead, WritesAreAhead
  <2>6. SummariesAdvance
    BY <2>3 DEF SummariesAdvance
  <2> QED BY <2>1, <2>4, <2>5, <2>6 DEF CompactionInv
<1>2. CompactionInv /\ [CNext]_cvars => CompactionInv' /\ [Next]_vars
  BY CompactionStep
<1> QED BY <1>1, <1>2, PTL DEF CSpec

-----------------------------------------------------------------------------
(* Results *)

\* Turns, compactions under a turn's lease and background ones use the session
\* leases as SessionLeases says: compaction.ts is one more of its clients.
THEOREM CompactionKeepsLeases == CSpec => Spec
<1>1. CInit => Init
  BY DEF CInit
<1> QED BY <1>1, CompactionInvariance, PTL DEF CSpec, Spec

\* The transcripts, the requests and the jobs of every process have their types.
THEOREM CompactionTypes == CSpec => []CTypeOK
  BY CompactionInvariance, PTL DEF CompactionInv

\* A summary never reaches less far than one before it: not the summary of a
\* background compaction that read the transcript without a lease, and not the
\* one of a turn that lost its lease and found it again.
THEOREM SummariesReachFurther == CSpec => []SummariesAdvance
  BY CompactionInvariance, PTL DEF CompactionInv

\* With compactions among the writers, too, only the newest grant of a session
\* writes its transcript.
THEOREM CompactionFenced == CSpec => TranscriptFenced
  BY CompactionKeepsLeases, Fenced, PTL
=============================================================================
