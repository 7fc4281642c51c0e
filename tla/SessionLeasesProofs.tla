------------------------ MODULE SessionLeasesProofs ------------------------
(***************************************************************************)
(* The transcript of a session is fenced, for any number of sessions,      *)
(* grants and any lease duration.                                          *)
(***************************************************************************)
EXTENDS SessionLeases, TLAPS

\* The inductive invariant.
LeasesInv == TypeOK /\ NewestGrantHolds

USE SessionTtlAssumption

\* Every statement on the lease table preserves the invariant.
LEMMA LeasesInvPreserved == LeasesInv /\ [Next]_vars => LeasesInv'
<1> SUFFICES ASSUME LeasesInv, [Next]_vars PROVE LeasesInv'
  OBVIOUS
<1> USE DEF LeasesInv, TypeOK, NewestGrantHolds, Lease, NoLease
<1>1. ASSUME NEW s \in Sessions, acquireLease(s) PROVE LeasesInv'
  <2> DEFINE new == [token |-> granted[s] + 1, left |-> SessionTtl]
  <2>1. new \in Lease /\ new.token = granted[s] + 1
    OBVIOUS
  <2>2. leases' = [leases EXCEPT ![s] = new] /\ granted' = [granted EXCEPT ![s] = @ + 1]
        /\ UNCHANGED log
    BY <1>1 DEF acquireLease
  <2> HIDE DEF new
  <2>3. TypeOK'
    BY <2>1, <2>2
  <2>4. NewestGrantHolds'
    BY <2>1, <2>2
  <2> QED BY <2>3, <2>4
<1>2. ASSUME NEW s \in Sessions, NEW token \in 1..granted[s], append(s, token)
      PROVE  LeasesInv'
  <2>1. leases' = [leases EXCEPT ![s] = [leases[s] EXCEPT !.left = SessionTtl]]
    BY <1>2 DEF append
  <2>2. /\ [leases[s] EXCEPT !.left = SessionTtl] \in Lease
        /\ [leases[s] EXCEPT !.left = SessionTtl].token = leases[s].token
    OBVIOUS
  <2>3. log' = [log EXCEPT ![s] = token] /\ UNCHANGED granted /\ token \in Nat
        /\ token <= granted[s]
    BY <1>2 DEF append
  <2>4. TypeOK'
    BY <2>1, <2>2, <2>3
  <2>5. NewestGrantHolds'
    BY <2>1, <2>2, <2>3
  <2> QED BY <2>4, <2>5
<1>3. ASSUME NEW s \in Sessions,
             forceReleaseLease(s) \/ \E token \in 1..granted[s] : releaseLease(s, token)
      PROVE  LeasesInv'
  <2>1. leases' = [leases EXCEPT ![s] = NoLease] /\ UNCHANGED <<granted, log>>
    BY <1>3 DEF forceReleaseLease, releaseLease
  <2> QED BY <2>1
<1>4. ASSUME Tick PROVE LeasesInv'
  <2> DEFINE ticked(l) == IF l.left > 0 THEN [l EXCEPT !.left = @ - 1] ELSE l
  <2>1. \A l \in Lease : ticked(l) \in Lease /\ ticked(l).token = l.token
    OBVIOUS
  <2>2. leases' = [s \in Sessions |-> ticked(leases[s])] /\ UNCHANGED <<granted, log>>
    BY <1>4 DEF Tick
  <2> HIDE DEF ticked
  <2> QED BY <2>1, <2>2
<1>5. CASE UNCHANGED vars
  BY <1>5 DEF vars
<1> QED BY <1>1, <1>2, <1>3, <1>4, <1>5 DEF Next

\* The invariant holds in every state.
LEMMA LeasesInvariance == Spec => []LeasesInv
<1>1. Init => LeasesInv
  BY DEF Init, LeasesInv, TypeOK, NewestGrantHolds, Lease, NoLease
<1> QED BY <1>1, LeasesInvPreserved, PTL DEF Spec

\* The lease rows, the numbers of grants and the transcripts' writers have their
\* types, whatever acquireLease(), append() and the releases are called with.
THEOREM LeaseTypes == Spec => []TypeOK
  BY LeasesInvariance, PTL DEF LeasesInv

\* A session's lease is free or belongs to its newest grant, and no transcript
\* entry carries a token that was not granted.
THEOREM NewestGrant == Spec => []NewestGrantHolds
  BY LeasesInvariance, PTL DEF LeasesInv

\* No turn appends to a transcript once a later turn has taken the session.
THEOREM Fenced == Spec => TranscriptFenced
<1> DEFINE Step == \A s \in Sessions :
                     log'[s] # log[s] => log'[s] = granted[s] /\ log'[s] > log[s]
<1>1. LeasesInv /\ [Next]_vars => [Step]_vars
  <2> SUFFICES ASSUME LeasesInv, Next PROVE Step
    OBVIOUS
  <2>1. ASSUME NEW s \in Sessions, NEW token \in 1..granted[s], append(s, token)
        PROVE  Step
    <3>1. token = granted[s]
      BY <2>1 DEF append, ValidFor, LeasesInv, TypeOK, NewestGrantHolds
    <3> QED BY <2>1, <3>1 DEF append, LeasesInv, TypeOK, NewestGrantHolds
  <2>2. ASSUME UNCHANGED log PROVE Step
    BY <2>2
  <2> HIDE DEF Step
  <2> QED
    BY <2>1, <2>2 DEF Next, acquireLease, releaseLease, forceReleaseLease, Tick
<1> QED BY <1>1, LeasesInvariance, PTL DEF Spec, TranscriptFenced
=============================================================================
