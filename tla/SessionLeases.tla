---------------------------- MODULE SessionLeases ----------------------------
(***************************************************************************)
(* The lease a turn takes on its session before it writes the transcript:  *)
(* the part of sessions/session-store.ts that decides who may append.  The *)
(* memory store's operations and the Postgres store's, each one statement  *)
(* or one transaction, are the actions below.                              *)
(*                                                                         *)
(* As in RunStore the clients are the most general ones: whoever was once  *)
(* granted a lease may use its token at any later time.  The token of the  *)
(* n-th grant of a session is n (a fresh UUID in the code), and `left' is  *)
(* expires_at - now in ticks.                                              *)
(***************************************************************************)
EXTENDS Integers

CONSTANTS
  Sessions,    \* the conversation threads
  SessionTtl,  \* ticks a session lease lasts
  MaxGrants    \* bound: leases granted for a session

ASSUME SessionTtlAssumption == SessionTtl \in Nat \ {0} /\ MaxGrants \in Nat

VARIABLES
  leases,   \* the lease row of each session
  granted,  \* the leases granted for each session so far
  log       \* the grant that wrote the newest entry of each transcript

vars == <<leases, granted, log>>

NoLease == [token |-> 0, left |-> 0]

Lease == [token: Nat, left: 0..SessionTtl]

Init ==
  /\ leases = [s \in Sessions |-> NoLease]
  /\ granted = [s \in Sessions |-> 0]
  /\ log = [s \in Sessions |-> 0]

\* Mutant of Acquirable: an expired lease is not free.
AcquirableUnheld(s) == leases[s].token = 0

\* The WHERE clause of acquireLease's upsert: no row, or one that expired.
Acquirable(s) == leases[s].token = 0 \/ leases[s].left <= 0

\* Mutant of acquireLease: taking an expired lease over only moves its expiry.
acquireLeaseKeepsToken(s) ==
  /\ Acquirable(s)
  /\ granted[s] < MaxGrants
  /\ granted' = [granted EXCEPT ![s] = @ + 1]
  /\ leases' = [leases EXCEPT ![s] =
                  [token |-> IF @.token = 0 THEN granted[s] + 1 ELSE @.token, left |-> SessionTtl]]
  /\ UNCHANGED log

acquireLease(s) ==
  /\ Acquirable(s)
  /\ granted[s] < MaxGrants
  /\ granted' = [granted EXCEPT ![s] = @ + 1]
  /\ leases' = [leases EXCEPT ![s] = [token |-> granted[s] + 1, left |-> SessionTtl]]
  /\ UNCHANGED log

\* Mutant of ValidFor: the token is not compared.
ValidForAnyone(s, token) == leases[s].token # 0

\* withLease(): the token is compared, the expiry is not; a holder whose lease
\* expired renews it as long as nobody else has taken it.
ValidFor(s, token) == leases[s].token = token

\* Mutant of append: the renewal is added to the time left.
appendExtends(s, token) ==
  /\ ValidFor(s, token)
  /\ leases' = [leases EXCEPT ![s].left = @ + SessionTtl]
  /\ log' = [log EXCEPT ![s] = token]
  /\ UNCHANGED granted

\* append() and appendTape(): the token test, the renewal and the INSERT are
\* one transaction, serialized by the lock on the lease row.
append(s, token) ==
  /\ ValidFor(s, token)
  /\ leases' = [leases EXCEPT ![s].left = SessionTtl]
  /\ log' = [log EXCEPT ![s] = token]
  /\ UNCHANGED granted

releaseLease(s, token) ==
  /\ ValidFor(s, token)
  /\ leases' = [leases EXCEPT ![s] = NoLease]
  /\ UNCHANGED <<granted, log>>

\* The reaper's and the draining worker's unlock: no token is asked for.
forceReleaseLease(s) ==
  /\ leases' = [leases EXCEPT ![s] = NoLease]
  /\ UNCHANGED <<granted, log>>

Tick ==
  /\ leases' = [s \in Sessions |->
                  IF leases[s].left > 0 THEN [leases[s] EXCEPT !.left = @ - 1] ELSE leases[s]]
  /\ UNCHANGED <<granted, log>>

Next ==
  \/ \E s \in Sessions :
       \/ acquireLease(s)
       \/ \E token \in 1..granted[s] : append(s, token) \/ releaseLease(s, token)
       \/ forceReleaseLease(s)
  \/ Tick

Spec == Init /\ [][Next]_vars

-----------------------------------------------------------------------------
TypeOK ==
  /\ leases \in [Sessions -> Lease]
  /\ granted \in [Sessions -> Nat]
  /\ log \in [Sessions -> Nat]

\* Whatever order leases are taken, lost to expiry, released and torn away in,
\* the lease row is free or belongs to the newest grant, and nobody has written
\* with a token that was never granted.
NewestGrantHolds ==
  \A s \in Sessions : leases[s].token \in {0, granted[s]} /\ log[s] <= granted[s]

\* The transcript is fenced: an entry is only ever written by the newest grant,
\* so the entries of two overlapping turns of a session are never interleaved.
\* Once a newer turn holds or held the session, no older one appends to it.
TranscriptFenced ==
  [][\A s \in Sessions :
       log'[s] # log[s] => log'[s] = granted[s] /\ log'[s] > log[s]]_vars
=============================================================================
