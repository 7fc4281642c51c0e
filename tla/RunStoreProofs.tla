--------------------------- MODULE RunStoreProofs ---------------------------
(***************************************************************************)
(* The properties of RunStore for any number of runs and sessions, and any *)
(* budgets.                                                                *)
(***************************************************************************)
EXTENDS RunStore, TLAPS

\* A row locked by a claim is pending until that claim is decided.
ClaimedArePending ==
  \A r \in Runs : claiming[r] # "no" => runs[r].status = "pending"

\* Only terminal rows are announced, each from one of the two sets.
SettledAreTerminal ==
  /\ \A r \in toSettle \cup settled : isTerminal(runs[r].status)
  /\ toSettle \cap settled = {}

\* A request that made no row was never claimed.
AbsentAreUnclaimed ==
  \A r \in Runs : runs[r].status = "absent" => runs[r].attempts = 0

\* The inductive invariant.
RunStoreInv ==
  /\ TypeOK
  /\ OneRunningPerSession
  /\ NewestClaimHolds
  /\ ErrorBudget
  /\ SnapshotsAgree
  /\ ClaimCap
  /\ ClaimedArePending
  /\ SettledAreTerminal
  /\ AbsentAreUnclaimed

USE RunsAssumption, BudgetAssumption

-----------------------------------------------------------------------------
\* The empty table satisfies the invariant.
LEMMA InitInv == Init => RunStoreInv
  BY DEF Init, RunStoreInv, TypeOK, OneRunningPerSession, NewestClaimHolds,
         ErrorBudget, SnapshotsAgree, ClaimCap, ClaimedArePending,
         SettledAreTerminal, AbsentAreUnclaimed, NoRow, Row, Status, NoToken

-----------------------------------------------------------------------------
(* The columns that each UPDATE writes and the ones it leaves alone.       *)

\* A fresh row, as enqueue inserts it.
LEMMA EnqueuedRow ==
  ASSUME NEW t \in Nat
  PROVE  LET row == [NoRow EXCEPT !.status = "pending", !.createdAt = t] IN
         /\ row \in Row
         /\ row.status = "pending" /\ row.leaseToken = NoToken
         /\ row.attempts = 0 /\ row.errorAttempts = 0 /\ row.releases = 0
<1> DEFINE a == [NoRow EXCEPT !.status = "pending"]
           b == [a EXCEPT !.createdAt = t]
<1>1. a = [status |-> "pending", attempts |-> 0, errorAttempts |-> 0,
           leaseToken |-> 0, leaseLeft |-> 0, createdAt |-> 0, releases |-> 0]
  BY DEF NoRow, NoToken
<1>2. /\ a \in Row /\ a.status = "pending" /\ a.leaseToken = 0
      /\ a.attempts = 0 /\ a.errorAttempts = 0 /\ a.releases = 0
  <2> HIDE DEF a
  <2> QED BY <1>1 DEF Row, Status
<1>3. /\ b \in Row /\ b.status = a.status /\ b.leaseToken = a.leaseToken
      /\ b.attempts = a.attempts /\ b.errorAttempts = a.errorAttempts
      /\ b.releases = a.releases
  <2> HIDE DEF a
  <2> QED BY <1>2 DEF Row
<1>4. [NoRow EXCEPT !.status = "pending", !.createdAt = t] = b
  OBVIOUS
<1> HIDE DEF a, b
<1> QED BY <1>2, <1>3, <1>4 DEF NoToken

\* A claimed row.
LEMMA LeasedRow ==
  ASSUME NEW row \in Row
  PROVE  /\ Leased(row) \in Row
         /\ Leased(row).status = "running"
         /\ Leased(row).attempts = row.attempts + 1
         /\ Leased(row).leaseToken = row.attempts + 1
         /\ Leased(row).errorAttempts = row.errorAttempts
         /\ Leased(row).releases = row.releases
<1> DEFINE a == [row EXCEPT !.status = "running"]
           b == [a EXCEPT !.attempts = row.attempts + 1]
           c == [b EXCEPT !.leaseToken = row.attempts + 1]
           d == [c EXCEPT !.leaseLeft = LeaseTtl]
<1>0. row.attempts + 1 \in Nat
  BY DEF Row
<1>1. /\ a \in Row /\ a.status = "running" /\ a.attempts = row.attempts
      /\ a.errorAttempts = row.errorAttempts /\ a.releases = row.releases
  BY DEF Row, Status
<1>2. /\ b \in Row /\ b.status = a.status /\ b.attempts = row.attempts + 1
      /\ b.errorAttempts = a.errorAttempts /\ b.releases = a.releases
  <2> HIDE DEF a
  <2> QED BY <1>0, <1>1 DEF Row
<1>3. /\ c \in Row /\ c.status = b.status /\ c.attempts = b.attempts
      /\ c.leaseToken = row.attempts + 1
      /\ c.errorAttempts = b.errorAttempts /\ c.releases = b.releases
  <2> HIDE DEF b
  <2> QED BY <1>0, <1>2 DEF Row
<1>4. /\ d \in Row /\ d.status = c.status /\ d.attempts = c.attempts
      /\ d.leaseToken = c.leaseToken
      /\ d.errorAttempts = c.errorAttempts /\ d.releases = c.releases
  <2> HIDE DEF c
  <2> QED BY <1>3 DEF Row
<1>5. Leased(row) = d
  BY DEF Leased
<1> HIDE DEF a, b, c, d
<1> QED BY <1>1, <1>2, <1>3, <1>4, <1>5

\* A row whose lease has ended.
LEMMA UnleasedRow ==
  ASSUME NEW row \in Row, NEW st \in Status
  PROVE  /\ Unleased(row, st) \in Row
         /\ Unleased(row, st).status = st
         /\ Unleased(row, st).leaseToken = NoToken
         /\ Unleased(row, st).attempts = row.attempts
         /\ Unleased(row, st).errorAttempts = row.errorAttempts
         /\ Unleased(row, st).releases = row.releases
<1> DEFINE a == [row EXCEPT !.status = st]
           b == [a EXCEPT !.leaseToken = NoToken]
           c == [b EXCEPT !.leaseLeft = 0]
<1>1. /\ a \in Row /\ a.status = st /\ a.attempts = row.attempts
      /\ a.errorAttempts = row.errorAttempts /\ a.releases = row.releases
  BY DEF Row
<1>2. /\ b \in Row /\ b.leaseToken = NoToken /\ b.status = a.status
      /\ b.attempts = a.attempts /\ b.errorAttempts = a.errorAttempts
      /\ b.releases = a.releases
  <2> HIDE DEF a
  <2> QED BY <1>1 DEF Row, NoToken
<1>3. /\ c \in Row /\ c.leaseToken = b.leaseToken /\ c.status = b.status
      /\ c.attempts = b.attempts /\ c.errorAttempts = b.errorAttempts
      /\ c.releases = b.releases
  <2> HIDE DEF b
  <2> QED BY <1>2 DEF Row
<1>4. Unleased(row, st) = c
  BY DEF Unleased
<1> HIDE DEF a, b, c
<1> QED BY <1>1, <1>2, <1>3, <1>4

\* A row handed back.
LEMMA ReleasedRow ==
  ASSUME NEW row \in Row
  PROVE  /\ Released(row) \in Row
         /\ Released(row).status = "pending"
         /\ Released(row).leaseToken = NoToken
         /\ Released(row).attempts = row.attempts
         /\ Released(row).errorAttempts = row.errorAttempts
         /\ Released(row).releases = row.releases + 1
<1> DEFINE u == Unleased(row, "pending")
<1>1. /\ u \in Row /\ u.status = "pending" /\ u.leaseToken = NoToken
      /\ u.attempts = row.attempts /\ u.errorAttempts = row.errorAttempts
      /\ u.releases = row.releases
  BY UnleasedRow DEF Status
<1>2. Released(row) = [u EXCEPT !.releases = @ + 1]
  BY DEF Released
<1> HIDE DEF u
<1> QED BY <1>1, <1>2 DEF Row

\* A retired row.
LEMMA RetiredRow ==
  ASSUME TypeOK, NEW e \in retiring
  PROVE  /\ Retired(e) \in Row
         /\ Retired(e).status = (IF Requeues(e) THEN "pending" ELSE "failed")
         /\ Retired(e).leaseToken = NoToken
         /\ Retired(e).attempts = runs[e.run].attempts
         /\ Retired(e).errorAttempts
              = runs[e.run].errorAttempts + (IF e.reap THEN 0 ELSE 1)
         /\ Retired(e).releases = runs[e.run].releases
<1> DEFINE st == IF Requeues(e) THEN "pending" ELSE "failed"
           u == Unleased(runs[e.run], st)
           n == IF e.reap THEN 0 ELSE 1
<1>0. /\ runs[e.run] \in Row /\ st \in Status /\ n \in Nat
  BY DEF TypeOK, Retirement, Status
<1>1. /\ u \in Row /\ u.status = st /\ u.leaseToken = NoToken
      /\ u.attempts = runs[e.run].attempts
      /\ u.errorAttempts = runs[e.run].errorAttempts
      /\ u.releases = runs[e.run].releases
  <2> HIDE DEF st
  <2> QED BY <1>0, UnleasedRow
<1>2. Retired(e) = [u EXCEPT !.errorAttempts = @ + n]
  BY DEF Retired
<1> HIDE DEF u, n
<1>3. /\ Retired(e) \in Row /\ Retired(e).status = st
      /\ Retired(e).leaseToken = NoToken
      /\ Retired(e).attempts = runs[e.run].attempts
      /\ Retired(e).errorAttempts = runs[e.run].errorAttempts + n
      /\ Retired(e).releases = runs[e.run].releases
  <2> HIDE DEF st
  <2> QED BY <1>0, <1>1, <1>2 DEF Row
<1> QED BY <1>3 DEF n

\* A row as time passes: only the lease's remaining time changes.
LEMMA TickedRow ==
  ASSUME NEW row \in Row
  PROVE  /\ Ticked(row) \in Row
         /\ Ticked(row).status = row.status
         /\ Ticked(row).leaseToken = row.leaseToken
         /\ Ticked(row).attempts = row.attempts
         /\ Ticked(row).errorAttempts = row.errorAttempts
         /\ Ticked(row).releases = row.releases
  BY DEF Ticked, Row

\* A renewed row.
LEMMA RenewedRow ==
  ASSUME NEW row \in Row
  PROVE  LET new == [row EXCEPT !.leaseLeft = LeaseTtl] IN
         /\ new \in Row
         /\ new.status = row.status
         /\ new.leaseToken = row.leaseToken
         /\ new.attempts = row.attempts
         /\ new.errorAttempts = row.errorAttempts
         /\ new.releases = row.releases
  BY DEF Row

\* A call under way, as history notes that its lease was renewed.
LEMMA RenewedEntry ==
  ASSUME TypeOK, NEW r \in Runs, NEW token \in Nat, NEW e \in Renewed(r, token)
  PROVE  /\ e \in Retirement
         /\ \E f \in retiring :
              /\ e.run = f.run /\ e.token = f.token /\ e.attempts = f.attempts
              /\ e.errorAttempts = f.errorAttempts /\ e.reap = f.reap /\ e.wait = f.wait
              /\ e.run # r => e = f
<1>1. PICK f \in retiring :
        e = IF f.reap /\ f.run = r /\ f.token = token
            THEN [f EXCEPT !.renewed = TRUE] ELSE f
  BY DEF Renewed
<1>2. f \in Retirement
  BY DEF TypeOK
<1>3. CASE f.reap /\ f.run = r /\ f.token = token
  BY <1>1, <1>2, <1>3 DEF Retirement
<1>4. CASE ~(f.reap /\ f.run = r /\ f.token = token)
  BY <1>1, <1>2, <1>4
<1> QED BY <1>3, <1>4

-----------------------------------------------------------------------------
\* Every statement of the store keeps the rows well-formed.
LEMMA TypePreserved == TypeOK /\ [Next]_vars => TypeOK'
<1> SUFFICES ASSUME TypeOK, [Next]_vars PROVE TypeOK'
  OBVIOUS
<1> USE DEF TypeOK
<1>1. ASSUME NEW r \in Runs, enqueue(r) PROVE TypeOK'
  <2>1. stamp' \in Nat
    BY <1>1 DEF enqueue
  <2>2. [NoRow EXCEPT !.status = "pending", !.createdAt = stamp'] \in Row
    BY <2>1, EnqueuedRow
  <2> QED BY <1>1, <2>1, <2>2 DEF enqueue
<1>2. ASSUME NEW r \in Runs, claim(r) \/ claimById(r) \/ claimRefused(r) PROVE TypeOK'
  BY <1>2 DEF claim, claimById, claimRefused
<1>3. ASSUME NEW r \in Runs, lease(r) PROVE TypeOK'
  BY <1>3, LeasedRow DEF lease
<1>4. ASSUME NEW r \in Runs, NEW token \in Tokens(r), heartbeat(r, token) PROVE TypeOK'
  <2>1. retiring' \subseteq Retirement
    BY <1>4, RenewedEntry DEF heartbeat, Tokens, Row
  <2> QED BY <1>4, <2>1 DEF heartbeat, Row, Status
<1>5. ASSUME NEW r \in Runs, NEW token \in Tokens(r), releaseLease(r, token) PROVE TypeOK'
  BY <1>5, ReleasedRow DEF releaseLease
<1>6. ASSUME NEW r \in Runs, NEW token \in Tokens(r), complete(r, token) PROVE TypeOK'
  BY <1>6, UnleasedRow DEF complete, Status
<1>7. ASSUME NEW r \in Runs, NEW token \in Tokens(r), NEW retry \in BOOLEAN,
             fail(r, token, retry)
      PROVE  TypeOK'
  <2>1. ReadRow(r, retry, FALSE) \in Retirement
    BY DEF ReadRow, Retirement, Row
  <2> QED BY <1>7, <2>1 DEF fail
<1>8. ASSUME reapExpired PROVE TypeOK'
  <2>1. \A r \in Runs, retry \in BOOLEAN : ReadRow(r, retry, TRUE) \in Retirement
    BY DEF ReadRow, Retirement, Row
  <2> QED BY <1>8, <2>1 DEF reapExpired
<1>9. ASSUME NEW e \in retiring, retire(e) PROVE TypeOK'
  <2>1. e.run \in Runs
    BY DEF Retirement
  <2>2. Retired(e) \in Row
    BY RetiredRow
  <2> QED BY <1>9, <2>1, <2>2 DEF retire
<1>10. ASSUME NEW e \in retiring, retireMisses(e) PROVE TypeOK'
  BY <1>10 DEF retireMisses
<1>11. ASSUME NEW r \in Runs, settle(r) \/ settleLost(r) PROVE TypeOK'
  BY <1>11 DEF settle, settleLost
<1>12. ASSUME Tick PROVE TypeOK'
  <2>1. \A r \in Runs : Ticked(runs[r]) \in Row
    BY TickedRow
  <2>2. \A e \in retiring : e.reap => [e EXCEPT !.wait = @ + 1] \in Retirement
    BY <1>12 DEF Tick, Retirement
  <2> QED BY <1>12, <2>1, <2>2 DEF Tick
<1>13. CASE UNCHANGED vars
  BY <1>13 DEF vars
<1> QED
  BY <1>1, <1>2, <1>3, <1>4, <1>5, <1>6, <1>7, <1>8, <1>9, <1>10, <1>11, <1>12,
     <1>13 DEF Next, HolderStep

\* Rows, claims and retire() calls have their types in every state.
THEOREM TypeCorrect == Spec => []TypeOK
<1>1. Init => TypeOK
  BY InitInv DEF RunStoreInv
<1> QED BY <1>1, TypePreserved, PTL DEF Spec

-----------------------------------------------------------------------------
(* The invariant is inductive.                                             *)

\* A row that leaves "running" or stays out of it cannot disturb the sessions,
\* and no retire() call holds it any more.
LEMMA StoppedRow ==
  ASSUME TypeOK, OneRunningPerSession, SnapshotsAgree, NewestClaimHolds,
         NEW r \in Runs, NEW row \in Row,
         row.status # "running", row.leaseToken = NoToken,
         row.attempts = runs[r].attempts,
         runs' = [runs EXCEPT ![r] = row], retiring' \subseteq retiring
  PROVE  OneRunningPerSession' /\ NewestClaimHolds' /\ SnapshotsAgree'
<1>1. OneRunningPerSession'
  BY DEF OneRunningPerSession, TypeOK
<1>2. NewestClaimHolds'
  BY DEF NewestClaimHolds, TypeOK
<1>3. SnapshotsAgree'
  BY DEF SnapshotsAgree, TypeOK, Tokens, Holds, Retirement
<1> QED BY <1>1, <1>2, <1>3

\* enqueue inserts a row that was not there.
LEMMA EnqueueInv ==
  ASSUME RunStoreInv, TypeOK', NEW r \in Runs, enqueue(r) PROVE RunStoreInv'
<1> USE DEF RunStoreInv
<1> DEFINE row == [NoRow EXCEPT !.status = "pending", !.createdAt = stamp']
<1>1. /\ row \in Row /\ row.status = "pending" /\ row.leaseToken = NoToken
      /\ row.attempts = 0 /\ row.errorAttempts = 0 /\ row.releases = 0
  BY EnqueuedRow DEF TypeOK
<1>2. /\ runs' = [runs EXCEPT ![r] = row] /\ runs[r].status = "absent"
      /\ UNCHANGED <<claiming, retiring, toSettle, settled>>
  BY DEF enqueue
<1> HIDE DEF row
<1>3. OneRunningPerSession' /\ NewestClaimHolds' /\ SnapshotsAgree'
  BY <1>1, <1>2, StoppedRow DEF AbsentAreUnclaimed
<1>4. ErrorBudget' /\ ClaimCap' /\ AbsentAreUnclaimed'
  BY <1>1, <1>2 DEF ErrorBudget, ClaimCap, AbsentAreUnclaimed, TypeOK
<1>5. ClaimedArePending' /\ SettledAreTerminal'
  BY <1>1, <1>2 DEF ClaimedArePending, SettledAreTerminal, isTerminal, TypeOK
<1> QED BY <1>3, <1>4, <1>5

\* The UPDATE of a claim: the token is new, so no retire() call holds the row.
LEMMA LeaseInv ==
  ASSUME RunStoreInv, TypeOK', NEW r \in Runs, lease(r) PROVE RunStoreInv'
<1> USE DEF RunStoreInv
<1> DEFINE row == Leased(runs[r])
<1>1. /\ row \in Row /\ row.status = "running"
      /\ row.attempts = runs[r].attempts + 1 /\ row.leaseToken = runs[r].attempts + 1
      /\ row.errorAttempts = runs[r].errorAttempts /\ row.releases = runs[r].releases
  BY LeasedRow DEF TypeOK
<1>2. /\ runs' = [runs EXCEPT ![r] = row] /\ runs[r].status = "pending"
      /\ ~SessionRunning(SessionOf[r])
      /\ claiming' = [claiming EXCEPT ![r] = "no"]
      /\ UNCHANGED <<retiring, toSettle, settled>>
  BY DEF lease, ClaimedArePending
<1> HIDE DEF row
<1>3. OneRunningPerSession'
  BY <1>1, <1>2 DEF OneRunningPerSession, SessionRunning, TypeOK
<1>4. NewestClaimHolds'
  BY <1>1, <1>2 DEF NewestClaimHolds, TypeOK, Row
<1>5. SnapshotsAgree'
  <2> SUFFICES ASSUME NEW e \in retiring
               PROVE  /\ (e.token \in Tokens(e.run))'
                      /\ Holds(e.run, e.token)' =>
                           /\ e.attempts = runs'[e.run].attempts
                           /\ e.errorAttempts = runs'[e.run].errorAttempts
    BY <1>2 DEF SnapshotsAgree
  <2>1. /\ e.run \in Runs /\ e.token \in 1..runs[e.run].attempts
        /\ runs[e.run] \in Row
    BY DEF SnapshotsAgree, TypeOK, Retirement, Tokens
  <2>2. CASE e.run = r
    BY <1>1, <1>2, <2>1, <2>2 DEF Tokens, Holds, Row, TypeOK
  <2>3. CASE e.run # r
    BY <1>2, <2>1, <2>3 DEF SnapshotsAgree, Tokens, Holds, TypeOK
  <2> QED BY <2>2, <2>3
<1>6. ErrorBudget' /\ AbsentAreUnclaimed'
  BY <1>1, <1>2 DEF ErrorBudget, AbsentAreUnclaimed, TypeOK
<1>7. ClaimCap'
  BY <1>1, <1>2 DEF ClaimCap, TypeOK, Row
<1>8. ClaimedArePending' /\ SettledAreTerminal'
  BY <1>1, <1>2 DEF ClaimedArePending, SettledAreTerminal, isTerminal, TypeOK
<1> QED BY <1>3, <1>4, <1>5, <1>6, <1>7, <1>8

\* A change that leaves every column but the lease's remaining time alone.
LEMMA SameColumnsInv ==
  ASSUME RunStoreInv, TypeOK',
         \A r \in Runs : /\ runs'[r].status = runs[r].status
                         /\ runs'[r].leaseToken = runs[r].leaseToken
                         /\ runs'[r].attempts = runs[r].attempts
                         /\ runs'[r].errorAttempts = runs[r].errorAttempts
                         /\ runs'[r].releases = runs[r].releases,
         \A e \in retiring' : \E f \in retiring :
            /\ e.run = f.run /\ e.token = f.token
            /\ e.attempts = f.attempts /\ e.errorAttempts = f.errorAttempts,
         UNCHANGED <<claiming, toSettle, settled>>
  PROVE  RunStoreInv'
<1> USE DEF RunStoreInv
<1>1. OneRunningPerSession' /\ NewestClaimHolds'
  BY DEF OneRunningPerSession, NewestClaimHolds
<1>2. SnapshotsAgree'
  BY DEF SnapshotsAgree, Tokens, Holds, TypeOK, Retirement
<1>3. ErrorBudget' /\ ClaimCap' /\ AbsentAreUnclaimed'
  BY DEF ErrorBudget, ClaimCap, AbsentAreUnclaimed
<1>4. ClaimedArePending' /\ SettledAreTerminal'
  BY DEF ClaimedArePending, SettledAreTerminal, TypeOK
<1> QED BY <1>1, <1>2, <1>3, <1>4

\* A worker that drains hands its run back.
LEMMA ReleaseInv ==
  ASSUME RunStoreInv, TypeOK', NEW r \in Runs, NEW token \in Tokens(r),
         releaseLease(r, token)
  PROVE  RunStoreInv'
<1> USE DEF RunStoreInv
<1> DEFINE row == Released(runs[r])
<1>1. /\ row \in Row /\ row.status = "pending" /\ row.leaseToken = NoToken
      /\ row.attempts = runs[r].attempts
      /\ row.errorAttempts = runs[r].errorAttempts
      /\ row.releases = runs[r].releases + 1
  BY ReleasedRow DEF TypeOK
<1>2. /\ runs' = [runs EXCEPT ![r] = row] /\ runs[r].status = "running"
      /\ UNCHANGED <<claiming, retiring, toSettle, settled>>
  BY DEF releaseLease, Holds
<1> HIDE DEF row
<1>3. OneRunningPerSession' /\ NewestClaimHolds' /\ SnapshotsAgree'
  BY <1>1, <1>2, StoppedRow
<1>4. ErrorBudget' /\ AbsentAreUnclaimed'
  BY <1>1, <1>2 DEF ErrorBudget, AbsentAreUnclaimed, TypeOK
<1>5. ClaimCap'
  BY <1>1, <1>2 DEF ClaimCap, TypeOK, Row
<1>6. ClaimedArePending' /\ SettledAreTerminal'
  BY <1>1, <1>2 DEF ClaimedArePending, SettledAreTerminal, isTerminal, TypeOK
<1> QED BY <1>3, <1>4, <1>5, <1>6

\* complete() asks for the token only; a row that has one is running.
LEMMA CompleteInv ==
  ASSUME RunStoreInv, TypeOK', NEW r \in Runs, NEW token \in Tokens(r),
         complete(r, token)
  PROVE  RunStoreInv'
<1> USE DEF RunStoreInv
<1> DEFINE row == Unleased(runs[r], "done")
<1>1. /\ row \in Row /\ row.status = "done" /\ row.leaseToken = NoToken
      /\ row.attempts = runs[r].attempts
      /\ row.errorAttempts = runs[r].errorAttempts
      /\ row.releases = runs[r].releases
  BY UnleasedRow DEF TypeOK, Status
<1>2. /\ runs' = [runs EXCEPT ![r] = row]
      /\ toSettle' = toSettle \cup {r}
      /\ UNCHANGED <<claiming, retiring, settled>>
  BY DEF complete
<1>3. runs[r].status = "running"
  BY DEF complete, Tokens, NewestClaimHolds, NoToken
<1> HIDE DEF row
<1>4. OneRunningPerSession' /\ NewestClaimHolds' /\ SnapshotsAgree'
  BY <1>1, <1>2, StoppedRow
<1>5. ErrorBudget' /\ ClaimCap' /\ AbsentAreUnclaimed'
  BY <1>1, <1>2 DEF ErrorBudget, ClaimCap, AbsentAreUnclaimed, TypeOK
<1>6. ClaimedArePending' /\ SettledAreTerminal'
  BY <1>1, <1>2, <1>3 DEF ClaimedArePending, SettledAreTerminal, isTerminal, TypeOK
<1> QED BY <1>4, <1>5, <1>6

\* A row just read agrees with itself.
LEMMA ReadRowAgrees ==
  ASSUME TypeOK, NEW r \in Runs, NEW retry \in BOOLEAN, NEW reap \in BOOLEAN
  PROVE  LET e == ReadRow(r, retry, reap) IN
         /\ e.run = r /\ e.token = runs[r].leaseToken /\ e.reap = reap
         /\ e.attempts = runs[r].attempts /\ e.errorAttempts = runs[r].errorAttempts
  BY DEF ReadRow

\* fail() and the reaper's SELECT only take a copy of the row.
LEMMA ReadInv ==
  ASSUME RunStoreInv, TypeOK',
         \/ \E r \in Runs : \E token \in Tokens(r), retry \in BOOLEAN : fail(r, token, retry)
         \/ reapExpired
  PROVE  RunStoreInv'
<1> USE DEF RunStoreInv
<1>1. /\ UNCHANGED <<runs, claiming, toSettle, settled>>
      /\ \A e \in retiring' \ retiring :
           \E r \in Runs, retry \in BOOLEAN, reap \in BOOLEAN :
             e = ReadRow(r, retry, reap) /\ runs[r].leaseToken \in Tokens(r)
  <2>1. ASSUME NEW r \in Runs, NEW token \in Tokens(r), NEW retry \in BOOLEAN,
               fail(r, token, retry)
        PROVE  <1>1
    BY <2>1 DEF fail
  <2>2. ASSUME reapExpired PROVE <1>1
    <3>1. \A r \in Runs : leaseLapsed(r) => runs[r].leaseToken \in Tokens(r)
      BY DEF leaseLapsed, NewestClaimHolds, Tokens, TypeOK, Row
    <3> QED BY <2>2, <3>1 DEF reapExpired
  <2> QED BY <2>1, <2>2
<1>2. SnapshotsAgree'
  <2> SUFFICES ASSUME NEW e \in retiring'
               PROVE  /\ e.token \in Tokens(e.run)
                      /\ Holds(e.run, e.token) =>
                           /\ e.attempts = runs[e.run].attempts
                           /\ e.errorAttempts = runs[e.run].errorAttempts
    BY <1>1 DEF SnapshotsAgree, Tokens, Holds
  <2> QED BY <1>1, ReadRowAgrees DEF SnapshotsAgree
<1> QED
  BY <1>1, <1>2 DEF OneRunningPerSession, NewestClaimHolds, ErrorBudget, ClaimCap,
                    ClaimedArePending, SettledAreTerminal, AbsentAreUnclaimed

\* retire() decides on the copy, and the copy's budget is the row's: the row
\* is requeued only with budget left.
LEMMA RetireInv ==
  ASSUME RunStoreInv, TypeOK', NEW e \in retiring, retire(e) PROVE RunStoreInv'
<1> USE DEF RunStoreInv
<1> DEFINE r == e.run
           row == Retired(e)
           n == IF e.reap THEN 0 ELSE 1
<1>1. /\ row \in Row /\ row.status = (IF Requeues(e) THEN "pending" ELSE "failed")
      /\ row.leaseToken = NoToken
      /\ row.attempts = runs[r].attempts
      /\ row.errorAttempts = runs[r].errorAttempts + n
      /\ row.releases = runs[r].releases
  BY RetiredRow
<1>2. /\ r \in Runs /\ runs' = [runs EXCEPT ![r] = row]
      /\ toSettle' = IF Requeues(e) THEN toSettle ELSE toSettle \cup {r}
      /\ retiring' \subseteq retiring
      /\ UNCHANGED <<claiming, settled>>
  BY DEF retire, TypeOK, Retirement
<1>3. /\ runs[r].status = "running" /\ runs[r] \in Row
      /\ e.attempts = runs[r].attempts /\ e.errorAttempts = runs[r].errorAttempts
  BY <1>2 DEF retire, RetireApplies, Holds, SnapshotsAgree, TypeOK
<1>4. Requeues(e) => /\ runs[r].errorAttempts + n < MaxAttempts
                     /\ runs[r].attempts < MaxClaims
  BY <1>3 DEF Requeues, Row
<1>5. /\ runs[r].attempts \in Nat /\ runs[r].errorAttempts \in Nat
      /\ runs[r].releases \in Nat /\ n \in {0, 1}
  BY <1>3 DEF Row
<1> HIDE DEF row, r, n
<1>6. OneRunningPerSession' /\ NewestClaimHolds' /\ SnapshotsAgree'
  BY <1>1, <1>2, StoppedRow
<1>7. ErrorBudget'
  BY <1>1, <1>2, <1>3, <1>4, <1>5 DEF ErrorBudget, TypeOK
<1>8. ClaimCap'
  BY <1>1, <1>2, <1>3, <1>4, <1>5 DEF ClaimCap, TypeOK
<1>9. ClaimedArePending' /\ SettledAreTerminal' /\ AbsentAreUnclaimed'
  BY <1>1, <1>2, <1>3 DEF ClaimedArePending, SettledAreTerminal, isTerminal,
                          AbsentAreUnclaimed, TypeOK
<1> QED BY <1>6, <1>7, <1>8, <1>9

\* Every statement of the store preserves the invariant.
LEMMA InvPreserved == RunStoreInv /\ [Next]_vars => RunStoreInv'
<1> SUFFICES ASSUME RunStoreInv, [Next]_vars PROVE RunStoreInv'
  OBVIOUS
<1>0. TypeOK'
  BY TypePreserved DEF RunStoreInv
<1>1. ASSUME NEW r \in Runs, enqueue(r) PROVE RunStoreInv'
  BY <1>0, <1>1, EnqueueInv
<1>2. ASSUME NEW r \in Runs, claim(r) \/ claimById(r) \/ claimRefused(r)
      PROVE  RunStoreInv'
  <2>1. /\ UNCHANGED <<runs, retiring, toSettle, settled>>
        /\ ClaimedArePending'
    BY <1>0, <1>2 DEF claim, claimById, claimRefused, Claimable, RunStoreInv,
                      ClaimedArePending, TypeOK
  <2> QED
    BY <1>0, <2>1 DEF RunStoreInv, OneRunningPerSession, NewestClaimHolds, ErrorBudget,
                      SnapshotsAgree, Tokens, Holds, ClaimCap, SettledAreTerminal,
                      AbsentAreUnclaimed
<1>3. ASSUME NEW r \in Runs, lease(r) PROVE RunStoreInv'
  BY <1>0, <1>3, LeaseInv
<1>4. ASSUME NEW r \in Runs, NEW token \in Tokens(r), heartbeat(r, token)
      PROVE  RunStoreInv'
  <2>1. /\ runs' = [runs EXCEPT ![r] = [runs[r] EXCEPT !.leaseLeft = LeaseTtl]]
        /\ retiring' = Renewed(r, token)
        /\ UNCHANGED <<claiming, toSettle, settled>>
    BY <1>4 DEF heartbeat
  <2>2. \A q \in Runs : /\ runs'[q].status = runs[q].status
                        /\ runs'[q].leaseToken = runs[q].leaseToken
                        /\ runs'[q].attempts = runs[q].attempts
                        /\ runs'[q].errorAttempts = runs[q].errorAttempts
                        /\ runs'[q].releases = runs[q].releases
    BY <2>1, RenewedRow DEF RunStoreInv, TypeOK
  <2>3. token \in Nat
    BY DEF Tokens
  <2>4. \A e \in retiring' : \E f \in retiring :
            /\ e.run = f.run /\ e.token = f.token
            /\ e.attempts = f.attempts /\ e.errorAttempts = f.errorAttempts
    BY <2>1, <2>3, RenewedEntry DEF RunStoreInv
  <2> QED BY <1>0, <2>1, <2>2, <2>4, SameColumnsInv
<1>5. ASSUME NEW r \in Runs, NEW token \in Tokens(r), releaseLease(r, token)
      PROVE  RunStoreInv'
  BY <1>0, <1>5, ReleaseInv
<1>6. ASSUME NEW r \in Runs, NEW token \in Tokens(r), complete(r, token)
      PROVE  RunStoreInv'
  BY <1>0, <1>6, CompleteInv
<1>7. ASSUME \/ \E r \in Runs : \E token \in Tokens(r), retry \in BOOLEAN :
                  fail(r, token, retry)
             \/ reapExpired
      PROVE  RunStoreInv'
  BY <1>0, <1>7, ReadInv
<1>8. ASSUME NEW e \in retiring, retire(e) PROVE RunStoreInv'
  BY <1>0, <1>8, RetireInv
<1>9. ASSUME NEW e \in retiring, retireMisses(e) PROVE RunStoreInv'
  <2>1. UNCHANGED <<runs, claiming, toSettle, settled>> /\ retiring' \subseteq retiring
    BY <1>9 DEF retireMisses
  <2> QED BY <1>0, <2>1, SameColumnsInv
<1>10. ASSUME NEW r \in Runs, settle(r) \/ settleLost(r) PROVE RunStoreInv'
  <2>1. UNCHANGED <<runs, claiming, retiring>> /\ SettledAreTerminal'
    BY <1>10 DEF settle, settleLost, RunStoreInv, SettledAreTerminal
  <2> QED
    BY <1>0, <2>1 DEF RunStoreInv, OneRunningPerSession, NewestClaimHolds, ErrorBudget,
                      SnapshotsAgree, Tokens, Holds, ClaimCap, ClaimedArePending,
                      AbsentAreUnclaimed
<1>11. ASSUME Tick PROVE RunStoreInv'
  <2>1. \A r \in Runs : /\ runs'[r].status = runs[r].status
                        /\ runs'[r].leaseToken = runs[r].leaseToken
                        /\ runs'[r].attempts = runs[r].attempts
                        /\ runs'[r].errorAttempts = runs[r].errorAttempts
                        /\ runs'[r].releases = runs[r].releases
    BY <1>11, TickedRow DEF Tick, RunStoreInv, TypeOK
  <2>2. \A f \in retiring :
          LET e == IF f.reap THEN [f EXCEPT !.wait = @ + 1] ELSE f IN
          /\ e.run = f.run /\ e.token = f.token
          /\ e.attempts = f.attempts /\ e.errorAttempts = f.errorAttempts
    BY DEF RunStoreInv, TypeOK, Retirement
  <2>3. \A e \in retiring' : \E f \in retiring :
            /\ e.run = f.run /\ e.token = f.token
            /\ e.attempts = f.attempts /\ e.errorAttempts = f.errorAttempts
    <3> SUFFICES ASSUME NEW e \in retiring'
                 PROVE  \E f \in retiring :
                          /\ e.run = f.run /\ e.token = f.token
                          /\ e.attempts = f.attempts /\ e.errorAttempts = f.errorAttempts
      OBVIOUS
    <3>1. PICK f \in retiring : e = IF f.reap THEN [f EXCEPT !.wait = @ + 1] ELSE f
      BY <1>11 DEF Tick
    <3> QED BY <2>2, <3>1
  <2>4. UNCHANGED <<claiming, toSettle, settled>>
    BY <1>11 DEF Tick
  <2> QED BY <1>0, <2>1, <2>3, <2>4, SameColumnsInv
<1>12. CASE UNCHANGED vars
  BY <1>0, <1>12, SameColumnsInv DEF vars
<1> QED
  BY <1>1, <1>2, <1>3, <1>4, <1>5, <1>6, <1>7, <1>8, <1>9, <1>10, <1>11, <1>12
     DEF Next, HolderStep

\* The invariant holds in every state.
THEOREM Invariance == Spec => []RunStoreInv
  BY InitInv, InvPreserved, PTL DEF Spec

\* The runs of a session are worked on one at a time, however its claims
\* interleave (postgres-run-store.ts, runs_session_running_uidx).
THEOREM SessionExclusion == Spec => []OneRunningPerSession
  BY Invariance, PTL DEF RunStoreInv

\* Every holder but the newest is fenced off.
THEOREM Fencing == Spec => []NewestClaimHolds
  BY Invariance, PTL DEF RunStoreInv

\* retire() never acts on a budget that is no longer the row's, although it
\* read the row earlier.
THEOREM StaleReadsMiss == Spec => []SnapshotsAgree
  BY Invariance, PTL DEF RunStoreInv

\* A run collects at most MaxAttempts errors and is not retried after them.
THEOREM ErrorBudgetKept == Spec => []ErrorBudget
  BY Invariance, PTL DEF RunStoreInv

\* A run is claimed at most MaxClaims times, plus its hand-backs.
THEOREM ClaimCapKept == Spec => []ClaimCap
  BY Invariance, PTL DEF RunStoreInv

-----------------------------------------------------------------------------
(* What a step may never do.                                               *)

\* What each step makes of a row's status, and of the announcements.
LEMMA StatusStep ==
  ASSUME RunStoreInv, Next
  PROVE  \/ \E r \in Runs : Contract!Submit(r)
         \/ \E r \in Runs : Contract!Start(r)
         \/ \E r \in Runs : Contract!Requeue(r)
         \/ \E r \in Runs : Contract!Finish(r)
         \/ \E r \in Runs : Contract!Announce(r)
         \/ UNCHANGED Contract!vars
<1> DEFINE status(t) == [r \in Runs |-> t[r].status]
<1>0. runs \in [Runs -> Row]
  BY DEF RunStoreInv, TypeOK
<1>a. ASSUME NEW r \in Runs, NEW row \in Row, runs' = [runs EXCEPT ![r] = row]
      PROVE  status(runs') = [status(runs) EXCEPT ![r] = row.status]
  BY <1>0, <1>a
<1>1. ASSUME NEW r \in Runs, enqueue(r) PROVE Contract!Submit(r)
  <2> DEFINE row == [NoRow EXCEPT !.status = "pending", !.createdAt = stamp']
  <2>0. stamp' \in Nat
    BY <1>1 DEF enqueue, RunStoreInv, TypeOK
  <2>1. row \in Row /\ row.status = "pending"
    BY <2>0, EnqueuedRow
  <2>2. runs' = [runs EXCEPT ![r] = row]
    BY <1>1 DEF enqueue
  <2> HIDE DEF row
  <2>3. status(runs') = [status(runs) EXCEPT ![r] = "pending"]
    BY <2>1, <2>2, <1>a
  <2> QED BY <1>1, <2>3 DEF enqueue, Contract!Submit
<1>2. ASSUME NEW r \in Runs, lease(r) PROVE Contract!Start(r)
  <2>1. Leased(runs[r]) \in Row /\ Leased(runs[r]).status = "running"
    BY <1>0, LeasedRow
  <2>2. status(runs') = [status(runs) EXCEPT ![r] = "running"]
    BY <1>2, <2>1, <1>a DEF lease
  <2> QED BY <1>2, <2>2 DEF lease, SessionRunning, Contract!Start, RunStoreInv,
                            ClaimedArePending
<1>3. ASSUME NEW r \in Runs, NEW token \in Tokens(r), releaseLease(r, token)
      PROVE  Contract!Requeue(r)
  <2>1. Released(runs[r]) \in Row /\ Released(runs[r]).status = "pending"
    BY <1>0, ReleasedRow
  <2>2. status(runs') = [status(runs) EXCEPT ![r] = "pending"]
    BY <1>3, <2>1, <1>a DEF releaseLease
  <2> QED BY <1>3, <2>2 DEF releaseLease, Holds, Contract!Requeue
<1>4. ASSUME NEW r \in Runs, NEW token \in Tokens(r), complete(r, token)
      PROVE  Contract!Finish(r)
  <2>1. Unleased(runs[r], "done") \in Row /\ Unleased(runs[r], "done").status = "done"
    BY <1>0, UnleasedRow DEF Status
  <2>2. status(runs') = [status(runs) EXCEPT ![r] = "done"]
    BY <1>4, <2>1, <1>a DEF complete
  <2>3. runs[r].status = "running"
    BY <1>4 DEF complete, Tokens, RunStoreInv, NewestClaimHolds, NoToken
  <2> QED BY <1>4, <2>2, <2>3 DEF complete, Contract!Finish
<1>5. ASSUME NEW e \in retiring, retire(e)
      PROVE  Contract!Requeue(e.run) \/ Contract!Finish(e.run)
  <2>1. /\ e.run \in Runs /\ Retired(e) \in Row
        /\ Retired(e).status = (IF Requeues(e) THEN "pending" ELSE "failed")
    BY RetiredRow DEF RunStoreInv, TypeOK, Retirement
  <2>2. status(runs') = [status(runs) EXCEPT ![e.run] = Retired(e).status]
    BY <1>5, <2>1, <1>a DEF retire
  <2> QED
    BY <1>5, <2>1, <2>2 DEF retire, RetireApplies, Holds, Contract!Requeue, Contract!Finish
<1>6. ASSUME NEW r \in Runs, settle(r) PROVE Contract!Announce(r)
  BY <1>6 DEF settle, isTerminal, Contract!Announce, RunStoreInv, SettledAreTerminal
<1>7. ASSUME NEW r \in Runs, NEW token \in Tokens(r), heartbeat(r, token)
      PROVE  UNCHANGED Contract!vars
  <2>1. status(runs') = status(runs)
    BY <1>0, <1>7 DEF heartbeat, Row
  <2> QED BY <1>7, <2>1 DEF heartbeat, Contract!vars
<1>8. ASSUME Tick PROVE UNCHANGED Contract!vars
  <2>1. status(runs') = status(runs)
    BY <1>0, <1>8, TickedRow DEF Tick
  <2> QED BY <1>8, <2>1 DEF Tick, Contract!vars
<1>9. ASSUME UNCHANGED <<runs, settled>> PROVE UNCHANGED Contract!vars
  BY <1>9 DEF Contract!vars
<1> QED
  BY <1>1, <1>2, <1>3, <1>4, <1>5, <1>6, <1>7, <1>8, <1>9
     DEF Next, HolderStep, claim, claimById, claimRefused, fail, reapExpired,
         retireMisses, settleLost, RunStoreInv, TypeOK, Retirement

\* The store implements the queue's contract: each of its statements is a step
\* of the contract or none (run-store.ts, interface RunStore).
THEOREM Refinement == Spec => KeepsContract
<1>1. Init => Contract!Init
  BY DEF Init, NoRow, Contract!Init
<1>2. RunStoreInv /\ [Next]_vars => [Contract!Next]_(Contract!vars)
  <2>1. UNCHANGED vars => UNCHANGED Contract!vars
    BY DEF vars, Contract!vars
  <2> QED BY <2>1, StatusStep DEF Contract!Next
<1> QED BY <1>1, <1>2, Invariance, PTL DEF Spec, KeepsContract, Contract!Spec

\* A holder that was fenced off is fenced off for good: a token that does not
\* open the row now never opens it again, and stays one of the row's tokens.
LEMMA TokensSpent ==
  ASSUME RunStoreInv, [Next]_vars, NEW r \in Runs
  PROVE  /\ Tokens(r) \subseteq Tokens(r)'
         /\ \A n \in Tokens(r) : Holds(r, n)' => Holds(r, n)
<1> DEFINE Row2 == /\ runs'[r].attempts \in Nat /\ runs'[r].attempts >= runs[r].attempts
                   /\ \/ runs'[r].leaseToken = NoToken
                      \/ runs'[r].leaseToken = runs[r].attempts + 1
                      \/ /\ runs'[r].leaseToken = runs[r].leaseToken
                         /\ runs'[r].status = runs[r].status
<1>0. runs \in [Runs -> Row] /\ runs[r] \in Row
  BY DEF RunStoreInv, TypeOK
<1>1. Row2
  <2>1. ASSUME NEW q \in Runs, enqueue(q) PROVE Row2
    <3> DEFINE row == [NoRow EXCEPT !.status = "pending", !.createdAt = stamp']
    <3>0. stamp' \in Nat
      BY <2>1 DEF enqueue, RunStoreInv, TypeOK
    <3>1. row.leaseToken = NoToken /\ row.attempts = 0
      BY <3>0, EnqueuedRow
    <3>2. runs' = [runs EXCEPT ![q] = row]
      BY <2>1 DEF enqueue
    <3>3. runs[q].attempts = 0
      BY <2>1 DEF enqueue, RunStoreInv, AbsentAreUnclaimed
    <3> HIDE DEF row
    <3> QED BY <1>0, <3>1, <3>2, <3>3 DEF Row
  <2>2. ASSUME NEW q \in Runs, lease(q) PROVE Row2
    <3>1. runs[q] \in Row /\ runs' = [runs EXCEPT ![q] = Leased(runs[q])]
      BY <1>0, <2>2 DEF lease
    <3>2. /\ Leased(runs[q]).attempts = runs[q].attempts + 1
          /\ Leased(runs[q]).leaseToken = runs[q].attempts + 1
      BY <3>1, LeasedRow
    <3> QED BY <1>0, <3>1, <3>2 DEF Row
  <2>3. ASSUME NEW q \in Runs, NEW row \in Row, runs' = [runs EXCEPT ![q] = row],
               row.attempts = runs[q].attempts, row.leaseToken = NoToken
        PROVE  Row2
    BY <1>0, <2>3 DEF Row
  <2>4. ASSUME NEW q \in Runs, NEW token \in Tokens(q),
               releaseLease(q, token) \/ complete(q, token)
        PROVE  Row2
    <3>1. runs[q] \in Row
      BY <1>0
    <3>2. \/ runs' = [runs EXCEPT ![q] = Released(runs[q])]
          \/ runs' = [runs EXCEPT ![q] = Unleased(runs[q], "done")]
      BY <2>4 DEF releaseLease, complete
    <3>3. /\ Released(runs[q]) \in Row /\ Released(runs[q]).attempts = runs[q].attempts
          /\ Released(runs[q]).leaseToken = NoToken
      BY <3>1, ReleasedRow
    <3>4. /\ Unleased(runs[q], "done") \in Row
          /\ Unleased(runs[q], "done").attempts = runs[q].attempts
          /\ Unleased(runs[q], "done").leaseToken = NoToken
      BY <3>1, UnleasedRow DEF Status
    <3> HIDE DEF Row2
    <3> QED BY <2>3, <3>2, <3>3, <3>4
  <2>5. ASSUME NEW e \in retiring, retire(e) PROVE Row2
    <3>1. e.run \in Runs /\ runs' = [runs EXCEPT ![e.run] = Retired(e)]
      BY <2>5 DEF retire, RunStoreInv, TypeOK, Retirement
    <3>2. /\ Retired(e) \in Row /\ Retired(e).attempts = runs[e.run].attempts
          /\ Retired(e).leaseToken = NoToken
      BY RetiredRow DEF RunStoreInv
    <3> HIDE DEF Row2
    <3> QED BY <2>3, <3>1, <3>2
  <2>6. ASSUME NEW q \in Runs, NEW token \in Tokens(q), heartbeat(q, token) PROVE Row2
    <3>1. runs' = [runs EXCEPT ![q] = [runs[q] EXCEPT !.leaseLeft = LeaseTtl]]
      BY <2>6 DEF heartbeat
    <3> QED BY <1>0, <3>1, RenewedRow DEF Row
  <2>7. ASSUME Tick PROVE Row2
    BY <1>0, <2>7, TickedRow DEF Tick, Row
  <2>8. ASSUME UNCHANGED runs PROVE Row2
    BY <1>0, <2>8 DEF Row
  <2> HIDE DEF Row2
  <2> QED
    BY <2>1, <2>2, <2>4, <2>5, <2>6, <2>7, <2>8
       DEF Next, vars, HolderStep, claim, claimById, claimRefused, fail, reapExpired,
           retireMisses, settle, settleLost
<1>2. Tokens(r) \subseteq Tokens(r)'
  BY <1>0, <1>1 DEF Tokens, Row
<1>3. \A n \in Tokens(r) : Holds(r, n)' => Holds(r, n)
  BY <1>0, <1>1 DEF Tokens, Holds, Row, NoToken
<1> QED BY <1>2, <1>3

\* A terminal run is never touched again and announced from its terminal row.
THEOREM TerminalStays == Spec => TerminalOnce
<1> DEFINE Once == \A r \in Runs :
       /\ isTerminal(runs[r].status) => runs'[r] = runs[r]
       /\ r \in toSettle' \ toSettle => ~isTerminal(runs[r].status)
       /\ r \in settled' \ settled => isTerminal(runs[r].status)
<1>1. RunStoreInv /\ [Next]_vars => [Once]_vars
  <2> SUFFICES ASSUME RunStoreInv, Next PROVE Once
    OBVIOUS
  <2>0. runs \in [Runs -> Row]
    BY DEF RunStoreInv, TypeOK
  <2>1. ASSUME NEW q \in Runs, enqueue(q) PROVE Once
    BY <2>0, <2>1 DEF enqueue, isTerminal
  <2>2. ASSUME NEW q \in Runs, lease(q) PROVE Once
    BY <2>0, <2>2 DEF lease, isTerminal, RunStoreInv, ClaimedArePending
  <2>3. ASSUME NEW q \in Runs, HolderStep(q) PROVE Once
    <3>1. ASSUME NEW token \in Tokens(q), heartbeat(q, token) PROVE Once
      BY <2>0, <3>1 DEF heartbeat, Holds, isTerminal
    <3>2. ASSUME NEW token \in Tokens(q), releaseLease(q, token) PROVE Once
      BY <2>0, <3>2 DEF releaseLease, Holds, isTerminal
    <3>3. ASSUME NEW token \in Tokens(q), complete(q, token) PROVE Once
      <4>1. runs[q].status = "running"
        BY <3>3 DEF complete, Tokens, RunStoreInv, NewestClaimHolds, NoToken
      <4> QED BY <2>0, <3>3, <4>1 DEF complete, isTerminal
    <3>4. ASSUME NEW token \in Tokens(q), NEW retry \in BOOLEAN, fail(q, token, retry)
          PROVE  Once
      BY <3>4 DEF fail
    <3> QED BY <2>3, <3>1, <3>2, <3>3, <3>4 DEF HolderStep
  <2>4. ASSUME NEW e \in retiring, retire(e) PROVE Once
    <3>1. e.run \in Runs /\ runs[e.run].status = "running"
      BY <2>4 DEF retire, RetireApplies, Holds, RunStoreInv, TypeOK, Retirement
    <3> QED BY <2>0, <2>4, <3>1 DEF retire, isTerminal
  <2>5. ASSUME NEW q \in Runs, settle(q) PROVE Once
    BY <2>5 DEF settle
  <2>6. ASSUME Tick PROVE Once
    BY <2>0, <2>6 DEF Tick, Ticked, isTerminal
  <2>7. ASSUME UNCHANGED <<runs, settled>>, toSettle' \subseteq toSettle PROVE Once
    BY <2>7
  <2> HIDE DEF Once
  <2> QED
    BY <2>1, <2>2, <2>3, <2>4, <2>5, <2>6, <2>7
       DEF Next, claim, claimById, claimRefused, reapExpired, retireMisses, settleLost
<1> QED BY <1>1, Invariance, PTL DEF Spec, TerminalOnce

-----------------------------------------------------------------------------
(* Slow sweeps.                                                            *)

\* A lease renewed since a sweep read it expires after the moment of that
\* sweep's SELECT, however long the sweep takes.
RenewedIsFresh ==
  \A e \in retiring :
    e.reap /\ e.renewed /\ Holds(e.run, e.token) => runs[e.run].leaseLeft + e.wait > 0

\* A statement that renews no lease leaves alone the leases it does not end.
LEMMA OtherLeases ==
  ASSUME RunStoreInv, RenewedIsFresh, RunStoreInv',
         \A e \in retiring' \ retiring : ~e.renewed,
         \A r \in Runs : \/ runs'[r] = runs[r]
                         \/ runs'[r].leaseToken = NoToken
                         \/ runs'[r].leaseToken = runs[r].attempts + 1
  PROVE  RenewedIsFresh'
<1> SUFFICES ASSUME NEW e \in retiring', e.reap, e.renewed, Holds(e.run, e.token)'
             PROVE  runs'[e.run].leaseLeft + e.wait > 0
  BY DEF RenewedIsFresh
<1>1. e \in retiring
  OBVIOUS
<1>2. /\ e.run \in Runs /\ runs[e.run] \in Row /\ e.token \in 1..runs[e.run].attempts
  BY <1>1 DEF RunStoreInv, TypeOK, Retirement, SnapshotsAgree, Tokens
<1>3. runs'[e.run].leaseToken = e.token
  BY DEF Holds
<1>4. runs'[e.run] = runs[e.run]
  BY <1>2, <1>3 DEF NoToken, Row
<1> QED BY <1>1, <1>4 DEF RenewedIsFresh, Holds

\* Every step keeps the renewed leases fresh.
LEMMA FreshPreserved ==
  RunStoreInv /\ RenewedIsFresh /\ [Next]_vars => RenewedIsFresh'
<1> SUFFICES ASSUME RunStoreInv, RenewedIsFresh, [Next]_vars PROVE RenewedIsFresh'
  OBVIOUS
<1>0. RunStoreInv' /\ runs \in [Runs -> Row] /\ retiring \subseteq Retirement
  BY InvPreserved DEF RunStoreInv, TypeOK
<1>1. ASSUME NEW r \in Runs, enqueue(r) PROVE RenewedIsFresh'
  <2>1. stamp' \in Nat
    BY <1>0 DEF RunStoreInv, TypeOK
  <2>2. [NoRow EXCEPT !.status = "pending", !.createdAt = stamp'].leaseToken = NoToken
    BY <2>1, EnqueuedRow
  <2> QED BY <1>0, <1>1, <2>2, OtherLeases DEF enqueue
<1>2. ASSUME NEW r \in Runs, lease(r) PROVE RenewedIsFresh'
  <2>1. Leased(runs[r]).leaseToken = runs[r].attempts + 1
    BY <1>0, LeasedRow
  <2> QED BY <1>0, <1>2, <2>1, OtherLeases DEF lease
<1>3. ASSUME NEW r \in Runs, NEW token \in Tokens(r), heartbeat(r, token)
      PROVE  RenewedIsFresh'
  <2> SUFFICES ASSUME NEW e \in retiring', e.reap, e.renewed, Holds(e.run, e.token)'
               PROVE  runs'[e.run].leaseLeft + e.wait > 0
    BY DEF RenewedIsFresh
  <2>1. token \in Nat /\ retiring' = Renewed(r, token)
    BY <1>3 DEF Tokens, heartbeat
  <2>2. e \in Retirement /\ e.run \in Runs /\ e.wait \in Nat
    BY <1>0 DEF RunStoreInv, TypeOK, Retirement
  <2>3. CASE e.run = r
    <3>1. runs'[e.run].leaseLeft = LeaseTtl
      BY <1>0, <1>3, <2>3 DEF heartbeat, Row
    <3> QED BY <2>2, <3>1
  <2>4. CASE e.run # r
    <3>1. e \in retiring /\ runs'[e.run] = runs[e.run]
      BY <1>0, <1>3, <2>1, <2>2, <2>4, RenewedEntry DEF heartbeat, RunStoreInv
    <3> QED BY <3>1 DEF RenewedIsFresh, Holds
  <2> QED BY <2>3, <2>4
<1>4. ASSUME NEW r \in Runs, NEW token \in Tokens(r),
             releaseLease(r, token) \/ complete(r, token)
      PROVE  RenewedIsFresh'
  <2>1. /\ Released(runs[r]).leaseToken = NoToken
        /\ Unleased(runs[r], "done").leaseToken = NoToken
    BY <1>0, ReleasedRow, UnleasedRow DEF Status
  <2> QED BY <1>0, <1>4, <2>1, OtherLeases DEF releaseLease, complete
<1>5. ASSUME NEW r \in Runs, NEW token \in Tokens(r), NEW retry \in BOOLEAN,
             fail(r, token, retry)
      PROVE  RenewedIsFresh'
  <2>1. ~ReadRow(r, retry, FALSE).renewed
    BY DEF ReadRow
  <2> QED BY <1>0, <1>5, <2>1, OtherLeases DEF fail
<1>6. ASSUME reapExpired PROVE RenewedIsFresh'
  <2>1. \A r \in Runs, retry \in BOOLEAN : ~ReadRow(r, retry, TRUE).renewed
    BY DEF ReadRow
  <2>2. \A e \in retiring' \ retiring : ~e.renewed
    BY <1>6, <2>1 DEF reapExpired
  <2> QED BY <1>0, <1>6, <2>2, OtherLeases DEF reapExpired
<1>7. ASSUME NEW e \in retiring, retire(e) \/ retireMisses(e) PROVE RenewedIsFresh'
  <2>1. Retired(e).leaseToken = NoToken
    BY RetiredRow DEF RunStoreInv
  <2> QED BY <1>0, <1>7, <2>1, OtherLeases DEF retire, retireMisses
<1>8. ASSUME Tick PROVE RenewedIsFresh'
  <2> SUFFICES ASSUME NEW e \in retiring', e.reap, e.renewed, Holds(e.run, e.token)'
               PROVE  runs'[e.run].leaseLeft + e.wait > 0
    BY DEF RenewedIsFresh
  <2>1. PICK f \in retiring : e = IF f.reap THEN [f EXCEPT !.wait = @ + 1] ELSE f
    BY <1>8 DEF Tick
  <2>2. /\ f.reap /\ f.renewed /\ f.run = e.run /\ f.token = e.token
        /\ f.wait \in Nat /\ e.wait = f.wait + 1 /\ f.run \in Runs
    BY <1>0, <2>1 DEF Retirement
  <2>3. /\ runs[e.run] \in Row /\ runs'[e.run] = Ticked(runs[e.run])
    BY <1>0, <1>8, <2>2 DEF Tick
  <2>4. Holds(f.run, f.token)
    BY <2>2, <2>3, TickedRow DEF Holds
  <2>5. runs[e.run].leaseLeft \in Int /\ runs[e.run].leaseLeft + f.wait > 0
    BY <2>2, <2>3, <2>4 DEF RenewedIsFresh, Row
  <2>6. \/ runs'[e.run].leaseLeft = runs[e.run].leaseLeft
        \/ runs'[e.run].leaseLeft = runs[e.run].leaseLeft - 1
    BY <2>3 DEF Ticked, Row
  <2> QED BY <2>2, <2>5, <2>6
<1>9. ASSUME UNCHANGED <<runs, retiring>> PROVE RenewedIsFresh'
  BY <1>9 DEF RenewedIsFresh, Holds
<1> QED
  BY <1>1, <1>2, <1>3, <1>4, <1>5, <1>6, <1>7, <1>8, <1>9
     DEF Next, vars, HolderStep, claim, claimById, claimRefused, settle, settleLost

\* A sweep never takes a run from a holder who renewed the lease after the
\* sweep had read it, however long the sweep lasts and even if the lease has
\* lapsed again (postgres-run-store.ts, reapExpired and retire).
THEOREM SlowSweepsSpareRenewed == Spec => SweepSparesRenewed
<1> DEFINE Spared == \A e \in retiring : e.reap /\ e.renewed => ~retire(e)
<1>1. Init => RenewedIsFresh
  BY DEF Init, RenewedIsFresh
<1>2. RunStoreInv /\ RenewedIsFresh => Spared
  <2> SUFFICES ASSUME RunStoreInv, RenewedIsFresh, NEW e \in retiring,
                      e.reap, e.renewed, retire(e)
               PROVE  FALSE
    OBVIOUS
  <2>1. Holds(e.run, e.token) /\ runs[e.run].leaseLeft + e.wait <= 0
    BY DEF retire, RetireApplies
  <2>2. runs[e.run].leaseLeft \in Int /\ e.wait \in Nat
    BY DEF RunStoreInv, TypeOK, Row, Retirement
  <2> QED BY <2>1, <2>2 DEF RenewedIsFresh
<1> QED
  BY <1>1, <1>2, Invariance, FreshPreserved, PTL DEF Spec, SweepSparesRenewed
=============================================================================
