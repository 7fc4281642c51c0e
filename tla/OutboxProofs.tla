---------------------------- MODULE OutboxProofs ----------------------------
(***************************************************************************)
(* What the outbox calls delivered was shown or is its handler's to show,  *)
(* and no message is shown twice that nothing overtook, for any number of  *)
(* messages, processes and faults, and any claim, grace and retry limits.  *)
(***************************************************************************)
EXTENDS Outbox, TLAPS

\* A poller that is at a delivery knows which.
BusyPollerHasKey == \A p \in Procs : poller[p].at # "idle" => poller[p].key \in Keys

\* The user sees the message, or its handler has yet to post it or failed to.
Accounted(k) == Shown(k) \/ (kind[k] = "reply" /\ (handler[k] = "post" \/ k \in lost))

\* A handler acknowledges only what is accounted for.
AckingIsAccounted == \A k \in Keys : acking[k] > 0 => Accounted(k)

\* What a poller is about to acknowledge, or remembers as posted, is shown.
PostedIsShown ==
  /\ \A p \in Procs : poller[p].at = "ack" => Shown(poller[p].key)
  /\ \A p \in Procs : \A k \in tracker[p].posted : Shown(k)

\* The first inductive invariant.
OutboxInv ==
  /\ TypeOK
  /\ BusyPollerHasKey
  /\ AckingIsAccounted
  /\ PostedIsShown
  /\ AckedIsShown

-----------------------------------------------------------------------------
(* What keeps a message from being posted twice *)

\* The poll of p has k in hand.
InHand(p, k) == k \in poller[p].batch \/ (poller[p].at # "idle" /\ poller[p].key = k)

\* p is about to look for k in Slack, or to post it.
SetOut(p, k) == poller[p].at \in {"verify", "post"} /\ poller[p].key = k

Delivered(k) == deliveries[k].state = "delivered"

\* Some process remembers that it posted k, or gave it up.
Known(k) == \E p \in Procs : k \in tracker[p].posted \cup tracker[p].dead

HeldOnce(k) == \A p, q \in Procs : InHand(p, k) /\ InHand(q, k) => p = q

\* Handlers belong to the runs they answer, a reply alone is acknowledged while
\* it is posted, and a message is posted in the way of its kind.
OfItsKind(k) ==
  /\ k \notin Handled => ~Answering(k)
  /\ handler[k] = "wait" => acking[k] = 0
  /\ handler[k] = "post" /\ kind[k] # "reply" => acking[k] = 0
  /\ kind[k] \in {"refusal", "panel", "notice"} => shown[k].keyless = 0
  /\ kind[k] = "direct" => shown[k].keyed = 0
  /\ k \in Unverified => \A p \in Procs : SetOut(p, k) => poller[p].at = "post"

\* Of a message that nothing overtook: one poll has it in hand; nobody is at a
\* message that has been shown; its handler, while it has yet to acknowledge,
\* is pinned; and a message that is shown and not looked for is acknowledged, or
\* remembered.
PostedAlone(k) ==
  /\ HeldOnce(k)
  /\ \A p \in Procs : SetOut(p, k) =>
       /\ ~Answering(k) /\ shown[k].keyless = 0
       /\ poller[p].at = "post" => shown[k].keyed = 0
  /\ handler[k] # "gone" => ~Shown(k)
  /\ Answering(k) => k \in inFlightRuns \/ Delivered(k)
  /\ kind[k] = "reply" /\ (handler[k] = "post" \/ shown[k].keyless > 0) => acking[k] > 0 \/ Delivered(k)
  /\ k \in Unverified /\ Shown(k) => Known(k) \/ Delivered(k)
  /\ shown[k].keyed + shown[k].keyless <= 1

Single(k) == OfItsKind(k) /\ (k \notin overtaken => PostedAlone(k))

\* The second inductive invariant, on top of the first.
PostedInv == \A k \in Keys : Single(k)

USE OutboxAssumption

Row == [state : {"none", "pending", "delivered"}, claim : 0..ClaimMs, young : 0..GraceMs]

Poll == [batch : SUBSET Keys, at : {"idle", "verify", "post", "ack"}, key : Keys \cup {"none"}]

Tracker == [failures : [Keys -> 0..(MaxAttempts - 1)], posted : SUBSET Keys, dead : SUBSET Keys]

Posts == [keyed : Nat, keyless : Nat]

-----------------------------------------------------------------------------
(* The values that each step writes.                                       *)

\* Bounds are natural numbers.
LEMMA Bounds == ClaimMs \in Nat \ {0} /\ GraceMs \in Nat \ {0} /\ MaxAttempts \in Nat \ {0}
                /\ MaxAcks \in Nat \ {0} /\ MaxFaults \in Nat
  OBVIOUS

\* The tracker keeps its type when a failure is recorded, and remembers no
\* more as posted than before.
LEMMA RecordFailureType ==
  ASSUME NEW t \in Tracker, NEW k \in Keys
  PROVE  recordFailure(t, k) \in Tracker /\ recordFailure(t, k).posted \subseteq t.posted
<1>1. CASE t.failures[k] + 1 >= MaxAttempts
  BY <1>1, Bounds DEF recordFailure, Tracker
<1>2. CASE ~(t.failures[k] + 1 >= MaxAttempts)
  <2> DEFINE f == [t.failures EXCEPT ![k] = @ + 1]
  <2>1. f \in [Keys -> 0..(MaxAttempts - 1)]
    BY <1>2, Bounds DEF Tracker
  <2>2. recordFailure(t, k) = [t EXCEPT !.failures = f]
    BY <1>2 DEF recordFailure
  <2> HIDE DEF f
  <2> QED BY <2>1, <2>2 DEF Tracker
<1> QED BY <1>1, <1>2

\* A row stays one when it is claimed, acknowledged or gets older.
LEMMA RowType ==
  ASSUME NEW r \in Row
  PROVE  /\ [r EXCEPT !.state = "delivered"] \in Row
         /\ [r EXCEPT !.state = "delivered"].state = "delivered"
         /\ [r EXCEPT !.claim = ClaimMs] \in Row
         /\ [r EXCEPT !.claim = ClaimMs].state = r.state
         /\ [r EXCEPT !.claim = Down(@), !.young = Down(@)] \in Row
         /\ [r EXCEPT !.claim = Down(@), !.young = Down(@)].state = r.state
<1>1. Down(r.claim) \in 0..ClaimMs /\ Down(r.young) \in 0..GraceMs
  BY Bounds DEF Row, Down
<1> DEFINE a == [r EXCEPT !.claim = Down(r.claim)]
<1>2. a \in Row /\ a.state = r.state /\ a.young = r.young
  BY <1>1 DEF Row
<1>3. [a EXCEPT !.young = Down(r.young)] \in Row /\ [a EXCEPT !.young = Down(r.young)].state = r.state
  <2> HIDE DEF a
  <2> QED BY <1>1, <1>2 DEF Row
<1>4. [r EXCEPT !.claim = Down(@), !.young = Down(@)] = [a EXCEPT !.young = Down(r.young)]
  BY DEF Row
<1>5. /\ [r EXCEPT !.state = "delivered"] \in Row
      /\ [r EXCEPT !.state = "delivered"].state = "delivered"
      /\ [r EXCEPT !.claim = ClaimMs] \in Row
      /\ [r EXCEPT !.claim = ClaimMs].state = r.state
  BY Bounds DEF Row
<1> QED BY <1>3, <1>4, <1>5

\* A post shows its message and hides none.
LEMMA PostType ==
  ASSUME shown \in [Keys -> Posts], NEW k \in Keys, NEW how \in {"keyed", "keyless"},
         shown' = [shown EXCEPT ![k][how] = @ + 1]
  PROVE  /\ shown' \in [Keys -> Posts]
         /\ Shown(k)'
         /\ \A j \in Keys : Shown(j) => Shown(j)'
<1>1. CASE how = "keyed"
  <2>1. shown' = [shown EXCEPT ![k] = [shown[k] EXCEPT !.keyed = @ + 1]]
    BY <1>1
  <2>2. /\ [shown[k] EXCEPT !.keyed = @ + 1] \in Posts
        /\ [shown[k] EXCEPT !.keyed = @ + 1].keyed = shown[k].keyed + 1
        /\ [shown[k] EXCEPT !.keyed = @ + 1].keyless = shown[k].keyless
    BY DEF Posts
  <2> QED BY <2>1, <2>2 DEF Posts, Shown
<1>2. CASE how = "keyless"
  <2>1. shown' = [shown EXCEPT ![k] = [shown[k] EXCEPT !.keyless = @ + 1]]
    BY <1>2
  <2>2. /\ [shown[k] EXCEPT !.keyless = @ + 1] \in Posts
        /\ [shown[k] EXCEPT !.keyless = @ + 1].keyless = shown[k].keyless + 1
        /\ [shown[k] EXCEPT !.keyless = @ + 1].keyed = shown[k].keyed
    BY DEF Posts
  <2> QED BY <2>1, <2>2 DEF Posts, Shown
<1> QED BY <1>1, <1>2

\* The type invariant in terms of the sets above.
LEMMA Types ==
  ASSUME OutboxInv
  PROVE  /\ deliveries \in [Keys -> Row] /\ poller \in [Procs -> Poll]
         /\ tracker \in [Procs -> Tracker] /\ shown \in [Keys -> Posts]
         /\ run \in [Keys -> {"running", "ended", "announced", "missed"}]
         /\ handler \in [Keys -> {"wait", "post", "gone"}] /\ acking \in [Keys -> 0..MaxAcks]
         /\ faults \in 0..MaxFaults
  BY DEF OutboxInv, TypeOK, Row, Poll, Tracker, Posts

\* The faults stay within their bound.
LEMMA FaultType ==
  ASSUME OutboxInv, Fault \/ UNCHANGED faults
  PROVE  faults' \in 0..MaxFaults
<1>1. faults \in 0..MaxFaults
  BY Types
<1> QED BY <1>1, Bounds DEF Fault

-----------------------------------------------------------------------------
(* What a step has to leave true.                                          *)

\* Messages stay shown, and whatever is newly acknowledged or posted is
\* accounted for.
Progress ==
  /\ \A k \in Keys : Shown(k) => Shown(k)'
  /\ \A k \in Keys : Accounted(k) => Accounted(k)'
  /\ \A k \in Keys : acking'[k] > 0 => acking[k] > 0 \/ Accounted(k)'
  /\ \A k \in Keys : deliveries'[k].state = "delivered" =>
                       deliveries[k].state = "delivered" \/ Accounted(k)'
  /\ \A p \in Procs : poller'[p].at = "ack" =>
                       \/ poller[p].at = "ack" /\ poller'[p].key = poller[p].key
                       \/ \E k \in Keys : poller'[p].key = k /\ Shown(k)'
  /\ \A p \in Procs : \A k \in tracker'[p].posted : k \in tracker[p].posted \/ Shown(k)'

\* That is enough.
LEMMA ProgressKeeps ==
  ASSUME OutboxInv, TypeOK', BusyPollerHasKey', Progress
  PROVE  OutboxInv'
<1>1. AckingIsAccounted'
  BY DEF OutboxInv, Progress, AckingIsAccounted
<1>2. AckedIsShown'
  <2> SUFFICES ASSUME NEW k \in Keys, deliveries'[k].state = "delivered" PROVE Accounted(k)'
    BY DEF AckedIsShown, Accounted
  <2>1. CASE deliveries[k].state = "delivered"
    <3>1. Accounted(k)
      BY <2>1 DEF OutboxInv, AckedIsShown, Accounted
    <3> QED BY <3>1 DEF Progress
  <2> QED BY <2>1 DEF Progress
<1>3. PostedIsShown'
  <2>1. ASSUME NEW p \in Procs, poller'[p].at = "ack" PROVE Shown(poller[p].key)'
    <3>1. CASE poller[p].at = "ack" /\ poller'[p].key = poller[p].key
      <4>1. poller[p].key \in Keys /\ Shown(poller[p].key)
        BY <3>1 DEF OutboxInv, BusyPollerHasKey, PostedIsShown
      <4> QED BY <3>1, <4>1 DEF Progress, Shown
    <3>2. CASE \E k \in Keys : poller'[p].key = k /\ Shown(k)'
      BY <3>2 DEF Shown
    <3> QED BY <2>1, <3>1, <3>2 DEF Progress
  <2>2. ASSUME NEW p \in Procs, NEW k \in tracker'[p].posted PROVE Shown(k)'
    <3>1. k \in Keys
      BY <2>2 DEF TypeOK
    <3> QED BY <2>2, <3>1 DEF Progress, OutboxInv, PostedIsShown
  <2> QED BY <2>1, <2>2 DEF PostedIsShown
<1> QED BY <1>1, <1>2, <1>3 DEF OutboxInv

-----------------------------------------------------------------------------
(* The handler's side.                                                     *)

\* The end of a run and the announcement of it.
LEMMA AnnounceKeeps ==
  ASSUME OutboxInv, NEW k \in Keys, end(k) \/ announce(k)
  PROVE  OutboxInv'
<1> DEFINE new == [state |-> "pending", claim |-> 0, young |-> GraceMs]
<1>1. new \in Row /\ new.state = "pending"
  BY Bounds DEF Row
<1>2. deliveries' = deliveries \/ deliveries' = [deliveries EXCEPT ![k] = new]
  BY DEF end, announce, enqueue
<1>3. /\ run' \in [Keys -> {"running", "ended", "announced", "missed"}]
      /\ faults' \in 0..MaxFaults
  <2>1. Fault \/ UNCHANGED faults
    BY DEF end, announce
  <2>2. \E x \in {"ended", "announced", "missed"} : run' = [run EXCEPT ![k] = x]
    BY DEF end, announce
  <2> QED BY <2>1, <2>2, FaultType, Types
<1>4. UNCHANGED <<kind, handler, acking, inFlightRuns, poller, tracker, shown, overtaken, lost>>
  BY DEF end, announce
<1> HIDE DEF new
<1>5. TypeOK'
  <2>1. deliveries' \in [Keys -> Row]
    BY <1>1, <1>2, Types
  <2> QED BY <2>1, <1>3, <1>4 DEF OutboxInv, TypeOK, Row, Handled
<1>6. BusyPollerHasKey'
  BY <1>4 DEF OutboxInv, BusyPollerHasKey
<1>7. Progress
  BY <1>1, <1>2, <1>4 DEF Progress, Shown, Accounted, OutboxInv, TypeOK
<1> QED BY <1>5, <1>6, <1>7, ProgressKeeps

\* The handler gets its result, or stops waiting for it.
LEMMA WaitKeeps ==
  ASSUME OutboxInv, NEW k \in Keys, pollRun(k) \/ waitFails(k)
  PROVE  OutboxInv'
<1>1. /\ handler[k] = "wait"
      /\ handler' = [handler EXCEPT ![k] = "post"] \/ handler' = [handler EXCEPT ![k] = "gone"]
      /\ UNCHANGED <<kind, run, deliveries, poller, tracker, shown, overtaken, lost>>
  BY DEF pollRun, waitFails
<1>2. \/ acking' = acking
      \/ /\ handler' = [handler EXCEPT ![k] = "post"]
         /\ acking' = [acking EXCEPT ![k] = IF kind[k] = "reply" THEN MaxAcks ELSE 0]
  BY DEF pollRun, waitFails
<1>3. inFlightRuns' \subseteq inFlightRuns /\ faults' \in 0..MaxFaults
  <2>1. Fault \/ UNCHANGED faults
    BY DEF pollRun, waitFails
  <2> QED BY <2>1, FaultType DEF pollRun, waitFails
<1>4. TypeOK'
  <2>1. acking' \in [Keys -> 0..MaxAcks]
    BY <1>2, Types, Bounds
  <2>2. handler' \in [Keys -> {"wait", "post", "gone"}]
    BY <1>1, Types
  <2> QED BY <1>1, <1>3, <2>1, <2>2 DEF OutboxInv, TypeOK, Handled
<1>5. BusyPollerHasKey'
  BY <1>1 DEF OutboxInv, BusyPollerHasKey
<1>6. \A j \in Keys : Accounted(j) => Accounted(j)'
  BY <1>1 DEF Accounted, Shown, OutboxInv, TypeOK
<1>7. \A j \in Keys : acking'[j] > 0 => acking[j] > 0 \/ Accounted(j)'
  <2>1. CASE acking' = acking
    BY <2>1
  <2>2. CASE /\ handler' = [handler EXCEPT ![k] = "post"]
             /\ acking' = [acking EXCEPT ![k] = IF kind[k] = "reply" THEN MaxAcks ELSE 0]
    <3>1. kind[k] = "reply" => Accounted(k)'
      BY <1>1, <2>2, Types DEF Accounted
    <3> QED BY <2>2, <3>1, Types
  <2> QED BY <1>2, <2>1, <2>2
<1>8. Progress
  BY <1>1, <1>6, <1>7 DEF Progress, Shown
<1> QED BY <1>4, <1>5, <1>8, ProgressKeeps

\* The outcomes of a post.
LEMMA PostOutcome ==
  ASSUME OutboxInv, NEW k \in Keys, NEW how \in {"keyed", "keyless"}, PostOk(k, how) \/ PostFails(k, how)
  PROVE  /\ shown' \in [Keys -> Posts]
         /\ \A j \in Keys : Shown(j) => Shown(j)'
         /\ faults' \in 0..MaxFaults
         /\ PostOk(k, how) => Shown(k)'
<1>1. shown \in [Keys -> Posts]
  BY DEF OutboxInv, TypeOK, Posts
<1>2. faults' \in 0..MaxFaults
  BY Bounds DEF PostOk, PostFails, Fault, OutboxInv, TypeOK
<1>3. CASE UNCHANGED shown /\ ~PostOk(k, how)
  BY <1>1, <1>2, <1>3 DEF Shown
<1>4. CASE shown' = [shown EXCEPT ![k][how] = @ + 1]
  BY <1>1, <1>2, <1>4, PostType
<1> QED BY <1>3, <1>4 DEF PostOk, PostFails

\* The handler posts.
LEMMA HandlerPostKeeps ==
  ASSUME OutboxInv, NEW k \in Keys, postReply(k) \/ postThenAckRunDelivery(k)
  PROVE  OutboxInv'
<1>1. PICK how \in {"keyed", "keyless"} : PostOk(k, how) \/ PostFails(k, how)
  BY DEF postReply, postThenAckRunDelivery
<1>2. /\ handler' = [handler EXCEPT ![k] = "gone"]
      /\ UNCHANGED <<kind, run, deliveries, poller, tracker, overtaken>>
      /\ inFlightRuns' \subseteq inFlightRuns
      /\ acking' = acking \/ acking' = [acking EXCEPT ![k] = MaxAcks]
      /\ lost \subseteq lost' /\ lost' \subseteq lost \cup {k}
  BY DEF postReply, postThenAckRunDelivery
<1>3. TypeOK'
  BY <1>1, <1>2, PostOutcome, Bounds DEF OutboxInv, TypeOK, Handled, Posts
<1>4. BusyPollerHasKey'
  BY <1>2 DEF OutboxInv, BusyPollerHasKey
<1>5. \A j \in Keys : Accounted(j) => Accounted(j)'
  <2> SUFFICES ASSUME NEW j \in Keys, Accounted(j) PROVE Accounted(j)'
    OBVIOUS
  <2>1. CASE j # k
    BY <2>1, <1>1, <1>2, PostOutcome DEF Accounted, OutboxInv, TypeOK
  <2>2. CASE j = k /\ postReply(k)
    <3>1. CASE PostOk(k, "keyless")
      BY <2>2, <3>1, PostOutcome DEF Accounted
    <3>2. CASE lost' = lost \cup {k}
      BY <2>2, <3>2, <1>2 DEF postReply, Accounted
    <3> QED BY <2>2, <3>1, <3>2 DEF postReply
  <2>3. CASE j = k /\ postThenAckRunDelivery(k)
    BY <2>3, <1>1, <1>2, PostOutcome DEF Accounted, postThenAckRunDelivery
  <2> QED BY <2>1, <2>2, <2>3
<1>6. \A j \in Keys : acking'[j] > 0 => acking[j] > 0 \/ Accounted(j)'
  <2>1. CASE acking' = acking
    BY <2>1
  <2>2. CASE acking' # acking
    <3>1. PostOk(k, "keyed") /\ acking' = [acking EXCEPT ![k] = MaxAcks]
      BY <2>2 DEF postReply, postThenAckRunDelivery
    <3>2. Accounted(k)'
      BY <3>1, PostOutcome DEF Accounted
    <3> QED BY <3>1, <3>2 DEF OutboxInv, TypeOK
  <2> QED BY <2>1, <2>2
<1>7. Progress
  BY <1>1, <1>2, <1>5, <1>6, PostOutcome DEF Progress
<1> QED BY <1>3, <1>4, <1>7, ProgressKeeps

\* The handler acknowledges.
LEMMA HandlerAckKeeps ==
  ASSUME OutboxInv, NEW k \in Keys, ackRunDeliveryWithRetry(k)
  PROVE  OutboxInv'
<1>1. /\ acking[k] > 0
      /\ acking' = [acking EXCEPT ![k] = 0] \/ acking' = [acking EXCEPT ![k] = @ - 1]
      /\ deliveries' = deliveries \/ deliveries' = [deliveries EXCEPT ![k] = [deliveries[k] EXCEPT !.state = "delivered"]]
      /\ inFlightRuns' \subseteq inFlightRuns
      /\ overtaken' \subseteq overtaken \cup {k}
      /\ UNCHANGED <<kind, run, handler, poller, tracker, shown, lost>>
  BY DEF ackRunDeliveryWithRetry, ackByKey
<1>2. faults' \in 0..MaxFaults
  <2>1. Fault \/ UNCHANGED faults
    BY DEF ackRunDeliveryWithRetry
  <2> QED BY <2>1, FaultType
<1>3. /\ [deliveries[k] EXCEPT !.state = "delivered"] \in Row
      /\ [deliveries[k] EXCEPT !.state = "delivered"].state = "delivered"
  BY RowType, Types
<1>4. deliveries' \in [Keys -> Row]
  BY <1>1, <1>3, Types
<1>5. acking' \in [Keys -> 0..MaxAcks]
  BY <1>1, Bounds, Types
<1>6. TypeOK'
  BY <1>1, <1>2, <1>4, <1>5 DEF OutboxInv, TypeOK, Handled, Row
<1>7. BusyPollerHasKey'
  BY <1>1 DEF OutboxInv, BusyPollerHasKey
<1>8. Accounted(k)
  BY <1>1 DEF OutboxInv, AckingIsAccounted
<1>9. \A j \in Keys : Accounted(j) => Accounted(j)'
  BY <1>1 DEF Accounted, Shown
<1>10. \A j \in Keys : acking'[j] > 0 => acking[j] > 0
  BY <1>1 DEF OutboxInv, TypeOK
<1>11. \A j \in Keys : deliveries'[j].state = "delivered" =>
                        deliveries[j].state = "delivered" \/ Accounted(j)'
  BY <1>1, <1>8, <1>9 DEF OutboxInv, TypeOK
<1>12. Progress
  BY <1>1, <1>9, <1>10, <1>11 DEF Progress, Shown
<1> QED BY <1>6, <1>7, <1>12, ProgressKeeps

-----------------------------------------------------------------------------
(* The pollers' side, crashes and time.                                    *)

\* A poll claims rows and chooses the next.
LEMMA FetchKeeps ==
  ASSUME OutboxInv, NEW p \in Procs, fetchDeliveries(p) \/ \E k \in Keys : deliverWithRetry(p, k)
  PROVE  OutboxInv'
<1>1. UNCHANGED <<kind, run, handler, acking, inFlightRuns, tracker, shown, lost, faults>>
  BY DEF fetchDeliveries, deliverWithRetry
<1>2. CASE fetchDeliveries(p)
  <2> DEFINE batch == {k \in Keys : Claimable(k)}
             claimed(r) == [r EXCEPT !.claim = ClaimMs]
  <2>1. /\ poller[p] = IdlePoller
        /\ poller' = [poller EXCEPT ![p] = [poller[p] EXCEPT !.batch = batch]]
        /\ deliveries' = [k \in Keys |-> IF k \in batch THEN claimed(deliveries[k]) ELSE deliveries[k]]
        /\ overtaken' \subseteq overtaken \cup batch
    BY <1>2 DEF fetchDeliveries
  <2>2. \A r \in Row : claimed(r) \in Row /\ claimed(r).state = r.state
    BY RowType
  <2> HIDE DEF claimed
  <2>3. deliveries' \in [Keys -> Row] /\ \A k \in Keys : deliveries'[k].state = deliveries[k].state
    BY <2>1, <2>2, Types
  <2>4. /\ [poller[p] EXCEPT !.batch = batch] \in Poll
        /\ [poller[p] EXCEPT !.batch = batch].at = "idle"
    BY <2>1 DEF Poll, IdlePoller
  <2>5. /\ poller' \in [Procs -> Poll]
        /\ \A q \in Procs : poller'[q].at # "idle" => poller'[q] = poller[q]
    BY <2>1, <2>4, Types
  <2>6. TypeOK'
    BY <1>1, <2>1, <2>3, <2>5 DEF OutboxInv, TypeOK, Handled, Row, Poll
  <2>7. BusyPollerHasKey'
    BY <2>5 DEF OutboxInv, BusyPollerHasKey
  <2>8. Progress
    BY <1>1, <2>3, <2>5 DEF Progress, Accounted, Shown
  <2> QED BY <2>6, <2>7, <2>8, ProgressKeeps
<1>3. ASSUME NEW k \in Keys, deliverWithRetry(p, k) PROVE OutboxInv'
  <2> DEFINE rest == poller[p].batch \ {k}
  <2>1. /\ poller[p].at = "idle"
        /\ UNCHANGED deliveries
        /\ overtaken' \subseteq overtaken \cup {k}
        /\ \/ poller' = [poller EXCEPT ![p] = [poller[p] EXCEPT !.batch = rest]]
           \/ \E step \in {"verify", "post", "ack"} :
                /\ step = "ack" => k \in tracker[p].posted
                /\ poller' = [poller EXCEPT ![p] = [batch |-> rest, at |-> step, key |-> k]]
    BY <1>3 DEF deliverWithRetry
  <2>2. poller[p] \in Poll /\ poller[p].batch \subseteq Keys
    BY Types DEF Poll
  <2>3. rest \subseteq Keys
    BY <2>2
  <2> HIDE DEF rest
  <2>a. /\ [poller[p] EXCEPT !.batch = rest] \in Poll
        /\ [poller[p] EXCEPT !.batch = rest].at = "idle"
    BY <2>1, <2>2, <2>3 DEF Poll
  <2>4. /\ poller' \in [Procs -> Poll]
        /\ \A q \in Procs : poller'[q].at # "idle" =>
             \/ poller'[q] = poller[q]
             \/ q = p /\ poller'[q].key = k /\ (poller'[q].at = "ack" => k \in tracker[p].posted)
    <3>1. CASE poller' = [poller EXCEPT ![p] = [poller[p] EXCEPT !.batch = rest]]
      BY <3>1, <2>a, Types
    <3>2. ASSUME NEW step \in {"verify", "post", "ack"},
                 step = "ack" => k \in tracker[p].posted,
                 poller' = [poller EXCEPT ![p] = [batch |-> rest, at |-> step, key |-> k]]
          PROVE  <2>4!2
      BY <3>2, <2>3, Types DEF Poll
    <3>3. ASSUME NEW step \in {"verify", "post", "ack"},
                 poller' = [poller EXCEPT ![p] = [batch |-> rest, at |-> step, key |-> k]]
          PROVE  poller' \in [Procs -> Poll]
      BY <3>3, <2>3, Types DEF Poll
    <3> QED BY <2>1, <3>1, <3>2, <3>3
  <2>5. TypeOK'
    BY <1>1, <2>1, <2>4 DEF OutboxInv, TypeOK, Handled, Poll
  <2>6. BusyPollerHasKey'
    BY <2>4 DEF OutboxInv, BusyPollerHasKey
  <2>7. \A j \in Keys : Shown(j) => Shown(j)'
    BY <1>1 DEF Shown
  <2>8. \A q \in Procs : poller'[q].at = "ack" =>
           \/ poller[q].at = "ack" /\ poller'[q].key = poller[q].key
           \/ \E j \in Keys : poller'[q].key = j /\ Shown(j)'
    <3>1. k \in tracker[p].posted => Shown(k)'
      BY <2>7 DEF OutboxInv, PostedIsShown
    <3> QED BY <3>1, <2>4
  <2>9. Progress
    BY <1>1, <2>1, <2>7, <2>8 DEF Progress, Accounted
  <2> QED BY <2>5, <2>6, <2>9, ProgressKeeps
<1> QED BY <1>2, <1>3

\* The steps of a delivery.
LEMMA DeliverKeeps ==
  ASSUME OutboxInv, NEW p \in Procs, verifyFirst(p) \/ post(p) \/ ack(p)
  PROVE  OutboxInv'
<1>0. PICK k \in Keys : k = poller[p].key
  BY DEF verifyFirst, post, ack, OutboxInv, BusyPollerHasKey
<1> DEFINE next(s) == [poller[p] EXCEPT !.at = s]
           remembered == [tracker[p] EXCEPT !.posted = @ \cup {k}]
<1>1. poller[p] \in Poll /\ tracker[p] \in Tracker /\ deliveries[k] \in Row
  BY Types
<1>2. UNCHANGED <<kind, run, handler, acking, inFlightRuns, lost>>
  BY DEF verifyFirst, post, ack
<1>3. \A s \in {"post", "ack"} : next(s) \in Poll /\ next(s).at = s /\ next(s).key = k
  BY <1>0, <1>1 DEF Poll
<1>4. ASSUME Done(p)
      PROVE  /\ poller' \in [Procs -> Poll]
             /\ \A q \in Procs : poller'[q].at # "idle" => poller'[q] = poller[q]
  <2> DEFINE idle == [poller[p] EXCEPT !.at = "idle"]
             none == [idle EXCEPT !.key = "none"]
  <2>1. idle \in Poll /\ idle.at = "idle"
    BY <1>1 DEF Poll
  <2>2. none \in Poll /\ none.at = "idle"
    <3> HIDE DEF idle
    <3> QED BY <2>1 DEF Poll
  <2>3. poller' = [poller EXCEPT ![p] = none]
    BY <1>4 DEF Done
  <2> HIDE DEF none
  <2> QED BY <2>2, <2>3, Types
<1>5. ASSUME Failed(p)
      PROVE  /\ tracker' \in [Procs -> Tracker]
             /\ \A q \in Procs : tracker'[q].posted \subseteq tracker[q].posted
             /\ Done(p)
  BY <1>0, <1>1, <1>5, RecordFailureType, Types DEF Failed
<1>6. remembered \in Tracker /\ remembered.posted = tracker[p].posted \cup {k}
  BY <1>1 DEF Tracker
<1> HIDE DEF next, remembered
<1>7. ASSUME NEW s \in {"post", "ack"}, poller' = [poller EXCEPT ![p] = next(s)]
      PROVE  /\ poller' \in [Procs -> Poll]
             /\ \A q \in Procs \ {p} : poller'[q] = poller[q]
             /\ poller'[p].at = s /\ poller'[p].key = k
  BY <1>3, <1>7, Types
<1>8. ASSUME tracker' = [tracker EXCEPT ![p] = remembered]
      PROVE  /\ tracker' \in [Procs -> Tracker]
             /\ \A q \in Procs : tracker'[q].posted \subseteq tracker[q].posted \cup {k}
  BY <1>6, <1>8, Types
<1> USE DEF next, remembered
<1>9. CASE verifyFirst(p)
  <2>1. UNCHANGED <<deliveries, shown, overtaken>>
    BY <1>9 DEF verifyFirst
  <2>2. faults' \in 0..MaxFaults
    <3>1. Fault \/ UNCHANGED faults
      BY <1>9 DEF verifyFirst
    <3> QED BY <3>1, FaultType
  <2>3. \/ poller' = [poller EXCEPT ![p] = next("post")] /\ UNCHANGED tracker
        \/ /\ poller' = [poller EXCEPT ![p] = next("ack")]
           /\ tracker' = [tracker EXCEPT ![p] = remembered]
           /\ findPostedByKey(k)
        \/ Failed(p)
    BY <1>0, <1>9 DEF verifyFirst
  <2>4. findPostedByKey(k) => Shown(k)'
    BY <1>1, <2>1, Types DEF findPostedByKey, Shown, Posts
  <2>5. /\ poller' \in [Procs -> Poll] /\ tracker' \in [Procs -> Tracker]
        /\ BusyPollerHasKey'
        /\ \A q \in Procs : poller'[q].at = "ack" =>
             \/ poller[q].at = "ack" /\ poller'[q].key = poller[q].key
             \/ \E j \in Keys : poller'[q].key = j /\ Shown(j)'
        /\ \A q \in Procs : \A j \in tracker'[q].posted : j \in tracker[q].posted \/ Shown(j)'
    <3> HIDE DEF next, remembered
    <3>1. CASE poller' = [poller EXCEPT ![p] = next("post")] /\ UNCHANGED tracker
      BY <3>1, <1>1, <1>7, Types DEF OutboxInv, BusyPollerHasKey
    <3>2. CASE /\ poller' = [poller EXCEPT ![p] = next("ack")]
               /\ tracker' = [tracker EXCEPT ![p] = remembered]
               /\ findPostedByKey(k)
      BY <3>2, <1>1, <1>7, <1>8, <2>4 DEF OutboxInv, BusyPollerHasKey
    <3>3. CASE Failed(p)
      BY <3>3, <1>4, <1>5 DEF OutboxInv, BusyPollerHasKey
    <3> QED BY <2>3, <3>1, <3>2, <3>3
  <2>6. TypeOK'
    BY <1>2, <2>1, <2>2, <2>5 DEF OutboxInv, TypeOK, Handled, Poll, Tracker
  <2>7. Progress
    BY <1>2, <2>1, <2>5 DEF Progress, Accounted, Shown
  <2> QED BY <2>5, <2>6, <2>7, ProgressKeeps
<1>10. CASE post(p)
  <2>1. UNCHANGED deliveries /\ overtaken' \subseteq overtaken \cup {k}
    BY <1>0, <1>10 DEF post
  <2>2. PICK how \in {"keyed", "keyless"} :
          \/ /\ PostOk(k, how)
             /\ poller' = [poller EXCEPT ![p] = next("ack")]
             /\ tracker' = [tracker EXCEPT ![p] = remembered]
          \/ PostFails(k, how) /\ Failed(p)
    BY <1>0, <1>10 DEF post
  <2>3. /\ shown' \in [Keys -> Posts] /\ faults' \in 0..MaxFaults
        /\ \A j \in Keys : Shown(j) => Shown(j)'
        /\ PostOk(k, how) => Shown(k)'
    BY <2>2, PostOutcome
  <2>4. /\ poller' \in [Procs -> Poll] /\ tracker' \in [Procs -> Tracker]
        /\ BusyPollerHasKey'
        /\ \A q \in Procs : poller'[q].at = "ack" =>
             \/ poller[q].at = "ack" /\ poller'[q].key = poller[q].key
             \/ \E j \in Keys : poller'[q].key = j /\ Shown(j)'
        /\ \A q \in Procs : \A j \in tracker'[q].posted : j \in tracker[q].posted \/ Shown(j)'
    <3> HIDE DEF next, remembered
    <3>1. CASE /\ PostOk(k, how)
               /\ poller' = [poller EXCEPT ![p] = next("ack")]
               /\ tracker' = [tracker EXCEPT ![p] = remembered]
      BY <3>1, <1>7, <1>8, <2>3 DEF OutboxInv, BusyPollerHasKey
    <3>2. CASE Failed(p)
      BY <3>2, <1>4, <1>5 DEF OutboxInv, BusyPollerHasKey
    <3> QED BY <2>2, <3>1, <3>2
  <2>5. TypeOK'
    BY <1>2, <2>1, <2>3, <2>4 DEF OutboxInv, TypeOK, Handled, Poll, Tracker, Posts
  <2>6. Progress
    BY <1>2, <2>1, <2>3, <2>4 DEF Progress, Accounted
  <2> QED BY <2>4, <2>5, <2>6, ProgressKeeps
<1>11. CASE ack(p)
  <2> DEFINE acked == [deliveries[k] EXCEPT !.state = "delivered"]
             kept == [tracker[p].failures EXCEPT ![k] = 0]
             counted == [tracker[p] EXCEPT !.failures = kept]
             cleared == [counted EXCEPT !.posted = @ \ {k}]
  <2>1. UNCHANGED <<shown, overtaken>>
    BY <1>11 DEF ack
  <2>2. faults' \in 0..MaxFaults
    <3>1. Fault \/ UNCHANGED faults
      BY <1>11 DEF ack
    <3> QED BY <3>1, FaultType
  <2>3. Shown(k)'
    BY <1>0, <1>11, <2>1 DEF ack, OutboxInv, PostedIsShown, Shown
  <2>4. kept \in [Keys -> 0..(MaxAttempts - 1)]
    BY <1>1, Bounds DEF Tracker
  <2>5. \/ /\ deliveries' = [deliveries EXCEPT ![k] = acked]
           /\ tracker' = [tracker EXCEPT ![p] = cleared]
           /\ Done(p)
        \/ Failed(p) /\ UNCHANGED deliveries
    <3>1. CASE Failed(p) /\ UNCHANGED deliveries
      BY <3>1
    <3>2. CASE /\ deliveries' = [deliveries EXCEPT ![k].state = "delivered"]
               /\ tracker' = [tracker EXCEPT ![p].failures[k] = 0, ![p].posted = @ \ {k}]
               /\ Done(p)
      <4>1. tracker' = [tracker EXCEPT ![p] = cleared]
        BY <3>2, Types
      <4> QED BY <3>2, <4>1
    <3> QED BY <1>0, <1>11, <3>1, <3>2 DEF ack
  <2>6. acked \in Row
    BY <1>1, RowType
  <2>7. cleared \in Tracker /\ cleared.posted \subseteq tracker[p].posted
    <3> HIDE DEF kept
    <3>1. counted \in Tracker /\ counted.posted = tracker[p].posted
      BY <1>1, <2>4 DEF Tracker
    <3> HIDE DEF counted
    <3> QED BY <3>1 DEF Tracker
  <2> HIDE DEF acked, cleared
  <2>8. /\ deliveries' \in [Keys -> Row]
        /\ \A j \in Keys \ {k} : deliveries'[j] = deliveries[j]
    BY <2>5, <2>6, Types
  <2>9. /\ tracker' \in [Procs -> Tracker]
        /\ \A q \in Procs : tracker'[q].posted \subseteq tracker[q].posted
        /\ Done(p)
    BY <1>5, <2>5, <2>7, Types
  <2>10. TypeOK'
    BY <1>2, <1>4, <2>1, <2>2, <2>8, <2>9 DEF OutboxInv, TypeOK, Handled, Poll, Tracker, Row
  <2>11. BusyPollerHasKey'
    BY <1>4, <2>9 DEF OutboxInv, BusyPollerHasKey
  <2>12. Progress
    BY <1>2, <1>4, <2>1, <2>3, <2>8, <2>9 DEF Progress, Accounted, Shown
  <2> QED BY <2>10, <2>11, <2>12, ProgressKeeps
<1> QED BY <1>9, <1>10, <1>11

\* A process dies.
LEMMA CrashKeeps ==
  ASSUME OutboxInv, NEW p \in Procs, crash(p)
  PROVE  OutboxInv'
<1> DEFINE own == {k \in Keys : Owner[k] = p}
           cut == {k \in own \cap Handled : kind[k] = "reply" /\ handler[k] = "post"}
<1>1. /\ handler' = [k \in Keys |-> IF k \in own THEN "gone" ELSE handler[k]]
      /\ acking' = [k \in Keys |-> IF k \in own THEN 0 ELSE acking[k]]
      /\ inFlightRuns' \subseteq inFlightRuns
      /\ poller' = [poller EXCEPT ![p] = IdlePoller]
      /\ tracker' = [tracker EXCEPT ![p] = NewTracker]
      /\ lost' = lost \cup cut
      /\ overtaken' \subseteq overtaken \cup Keys
      /\ UNCHANGED <<kind, run, deliveries, shown>>
  BY DEF crash, Unverified
<1>2. faults' \in 0..MaxFaults
  <2>1. Fault
    BY DEF crash
  <2> QED BY <2>1, FaultType
<1>3. IdlePoller \in Poll /\ IdlePoller.at = "idle"
  BY DEF Poll, IdlePoller
<1>4. NewTracker \in Tracker /\ NewTracker.posted = {}
  BY Bounds DEF Tracker, NewTracker
<1>5. /\ poller' \in [Procs -> Poll]
      /\ \A q \in Procs : poller'[q].at # "idle" => poller'[q] = poller[q]
  BY <1>1, <1>3, Types
<1>6. /\ tracker' \in [Procs -> Tracker]
      /\ \A q \in Procs : tracker'[q].posted \subseteq tracker[q].posted
  BY <1>1, <1>4, Types
<1>7. /\ handler' \in [Keys -> {"wait", "post", "gone"}]
      /\ acking' \in [Keys -> 0..MaxAcks]
      /\ \A k \in Keys : acking'[k] > 0 => acking[k] > 0
  BY <1>1, Types, Bounds
<1>8. TypeOK'
  BY <1>1, <1>2, <1>5, <1>6, <1>7 DEF OutboxInv, TypeOK, Handled, Poll, Tracker
<1>9. BusyPollerHasKey'
  BY <1>5 DEF OutboxInv, BusyPollerHasKey
<1>10. \A k \in Keys : Accounted(k) => Accounted(k)'
  <2> SUFFICES ASSUME NEW k \in Keys, Accounted(k) PROVE Accounted(k)'
    OBVIOUS
  <2>1. CASE kind[k] = "reply" /\ handler[k] = "post" /\ k \in own
    BY <1>1, <2>1 DEF Accounted, Handled
  <2>2. CASE Shown(k) \/ k \in lost \/ k \notin own
    BY <1>1, <2>2 DEF Accounted, Shown
  <2> QED BY <2>1, <2>2 DEF Accounted
<1>11. Progress
  BY <1>1, <1>5, <1>6, <1>7, <1>10 DEF Progress, Shown
<1> QED BY <1>8, <1>9, <1>11, ProgressKeeps

\* Time passes.
LEMMA TickKeeps ==
  ASSUME OutboxInv, Tick
  PROVE  OutboxInv'
<1> DEFINE older(r) == [r EXCEPT !.claim = Down(@), !.young = Down(@)]
<1>1. /\ deliveries' = [k \in Keys |-> older(deliveries[k])]
      /\ UNCHANGED <<kind, run, handler, acking, inFlightRuns, poller, tracker, shown, overtaken, lost, faults>>
  BY DEF Tick
<1>2. \A r \in Row : older(r) \in Row /\ older(r).state = r.state
  BY RowType
<1> HIDE DEF older
<1>3. deliveries' \in [Keys -> Row] /\ \A k \in Keys : deliveries'[k].state = deliveries[k].state
  BY <1>1, <1>2, Types
<1>4. TypeOK' /\ BusyPollerHasKey'
  BY <1>1, <1>3 DEF OutboxInv, TypeOK, BusyPollerHasKey, Handled, Row
<1>5. Progress
  BY <1>1, <1>3 DEF Progress, Accounted, Shown
<1> QED BY <1>4, <1>5, ProgressKeeps

-----------------------------------------------------------------------------
\* The invariant holds in every state.
LEMMA Invariance == Spec => []OutboxInv
<1>1. Init => OutboxInv
  <2> SUFFICES ASSUME Init PROVE OutboxInv
    OBVIOUS
  <2>1. \A k \in Keys : deliveries[k] = NoRow /\ NoRow \in Row /\ NoRow.state = "none"
    BY Bounds DEF Init, NoRow, Row
  <2>2. NewTracker \in Tracker /\ NewTracker.posted = {} /\ IdlePoller \in Poll /\ IdlePoller.at = "idle"
    BY Bounds DEF NewTracker, Tracker, IdlePoller, Poll
  <2>3. /\ deliveries \in [Keys -> Row] /\ poller \in [Procs -> Poll] /\ tracker \in [Procs -> Tracker]
        /\ \A p \in Procs : poller[p].at = "idle" /\ tracker[p].posted = {}
    BY <2>1, <2>2 DEF Init
  <2>4. shown \in [Keys -> Posts]
    BY DEF Init, Posts
  <2>5. TypeOK
    BY <2>3, <2>4, Bounds DEF Init, TypeOK, Handled, Row, Poll, Tracker, Posts
  <2>6. BusyPollerHasKey /\ PostedIsShown
    BY <2>3 DEF BusyPollerHasKey, PostedIsShown
  <2>7. AckingIsAccounted /\ AckedIsShown
    BY <2>1 DEF Init, AckingIsAccounted, AckedIsShown
  <2> QED BY <2>5, <2>6, <2>7 DEF OutboxInv
<1>2. OutboxInv /\ [Next]_vars => OutboxInv'
  <2> SUFFICES ASSUME OutboxInv, [Next]_vars PROVE OutboxInv'
    OBVIOUS
  <2>1. CASE UNCHANGED vars
    BY <2>1 DEF vars, OutboxInv, TypeOK, BusyPollerHasKey, AckingIsAccounted, PostedIsShown,
                AckedIsShown, Accounted, Shown, Handled
  <2>2. CASE Next
    BY <2>2, AnnounceKeeps, WaitKeeps, HandlerPostKeeps, HandlerAckKeeps, FetchKeeps, DeliverKeeps,
       CrashKeeps, TickKeeps DEF Next, Handler, Poller
  <2> QED BY <2>1, <2>2
<1> QED BY <1>1, <1>2, PTL DEF Spec

\* The rows, the pollers and their trackers keep their types, whatever fails:
\* no tracker counts past its limit.
THEOREM OutboxTypes == Spec => []TypeOK
  BY Invariance, PTL DEF OutboxInv

\* Whatever fails, is retried or crashes, the outbox marks nothing delivered
\* that the user cannot see, except a reply that its own handler is posting or
\* failed to post: postThenAckRunDelivery(), deliverWithRetry() and the verified
\* post never lose a message.
THEOREM DeliveredIsShown == Spec => []AckedIsShown
  BY Invariance, PTL DEF OutboxInv

-----------------------------------------------------------------------------
(* A message is posted once.                                               *)

\* The step does nothing to the message j that matters here.
Calm(j) ==
  /\ UNCHANGED kind
  /\ overtaken \subseteq overtaken'
  /\ handler'[j] = handler[j] /\ acking'[j] = acking[j] /\ shown'[j] = shown[j]
  /\ j \in inFlightRuns => j \in inFlightRuns'
  /\ Delivered(j) => Delivered(j)'
  /\ Known(j) => Known(j)' \/ Delivered(j)'
  /\ j \notin overtaken' /\ HeldOnce(j) => HeldOnce(j)'
  /\ \A p \in Procs : SetOut(p, j)' => SetOut(p, j) /\ poller'[p].at = poller[p].at

\* Then what holds of it stays.
LEMMA CalmKeeps ==
  ASSUME NEW j \in Keys, Single(j), Calm(j)
  PROVE  Single(j)'
<1>1. /\ Answering(j)' <=> Answering(j)
      /\ Shown(j)' <=> Shown(j)
      /\ j \in Handled' <=> j \in Handled
      /\ j \in Unverified' <=> j \in Unverified
  BY DEF Calm, Answering, Shown, Handled, Unverified
<1>2. OfItsKind(j)'
  BY <1>1 DEF Calm, Single, OfItsKind
<1>3. ASSUME j \notin overtaken' PROVE PostedAlone(j)'
  <2>1. PostedAlone(j)
    BY <1>3 DEF Calm, Single
  <2> QED BY <1>1, <1>3, <2>1 DEF Calm, PostedAlone
<1> QED BY <1>2, <1>3 DEF Single

\* A step of a handler leaves the polls and the trackers alone.
LEMMA PollsCalm ==
  ASSUME UNCHANGED <<poller, tracker>>, NEW j \in Keys
  PROVE  /\ Known(j)' <=> Known(j)
         /\ HeldOnce(j)' <=> HeldOnce(j)
         /\ \A p \in Procs : /\ SetOut(p, j)' <=> SetOut(p, j)
                             /\ poller'[p].at = poller[p].at
  BY DEF Known, HeldOnce, SetOut, InHand

\* The counts of a message are natural numbers.
LEMMA Counts ==
  ASSUME OutboxInv, NEW k \in Keys
  PROVE  shown[k].keyed \in Nat /\ shown[k].keyless \in Nat
  BY Types DEF Posts

\* The end of a run and its announcement are calm.
LEMMA AnnounceSingle ==
  ASSUME OutboxInv, PostedInv, NEW k \in Keys, end(k) \/ announce(k)
  PROVE  PostedInv'
<1>1. UNCHANGED <<kind, handler, acking, inFlightRuns, poller, tracker, shown, overtaken>>
  BY DEF end, announce
<1>2. \A j \in Keys : Delivered(j) => Delivered(j)'
  BY Types DEF end, announce, enqueue, Delivered
<1>3. \A j \in Keys : Calm(j)
  BY <1>1, <1>2, PollsCalm DEF Calm
<1> QED BY <1>3, CalmKeeps DEF PostedInv

\* The messages other than k see nothing of a step of the handler of k.
LEMMA HandlerCalm ==
  ASSUME NEW k \in Keys, NEW j \in Keys, j # k,
         UNCHANGED <<kind, poller, tracker>>, overtaken \subseteq overtaken',
         handler'[j] = handler[j], acking'[j] = acking[j], shown'[j] = shown[j],
         inFlightRuns \ {k} \subseteq inFlightRuns', deliveries'[j] = deliveries[j],
         Single(j)
  PROVE  Single(j)'
<1>1. Calm(j)
  BY PollsCalm DEF Calm, Delivered
<1> QED BY <1>1, CalmKeeps

\* The handler gets its result, or stops waiting for it.
LEMMA WaitSingle ==
  ASSUME OutboxInv, PostedInv, NEW k \in Keys, pollRun(k) \/ waitFails(k)
  PROVE  PostedInv'
<1>1. /\ handler[k] = "wait"
      /\ UNCHANGED <<kind, deliveries, poller, tracker, shown, overtaken>>
      /\ \/ /\ handler' = [handler EXCEPT ![k] = "post"]
            /\ acking' = [acking EXCEPT ![k] = IF kind[k] = "reply" THEN MaxAcks ELSE 0]
            /\ UNCHANGED inFlightRuns
         \/ /\ handler' = [handler EXCEPT ![k] = "gone"]
            /\ UNCHANGED acking
            /\ inFlightRuns' = inFlightRuns \ {k}
  BY DEF pollRun, waitFails
<1>2. \A j \in Keys \ {k} : Single(j)'
  BY <1>1, HandlerCalm, Types DEF PostedInv
<1>3. Single(k)
  BY DEF PostedInv
<1>4. /\ acking[k] = 0 /\ k \in Handled /\ k \in Handled' /\ Answering(k)
      /\ k \notin Unverified /\ k \notin Unverified'
  BY <1>1, <1>3 DEF Single, OfItsKind, Answering, Handled, Unverified
<1>5. OfItsKind(k)'
  <2>1. \A p \in Procs : (SetOut(p, k)' <=> SetOut(p, k)) /\ poller'[p].at = poller[p].at
    BY <1>1, PollsCalm
  <2>2. /\ handler'[k] = "wait" => acking'[k] = 0
        /\ handler'[k] = "post" /\ kind[k] # "reply" => acking'[k] = 0
    BY <1>1, <1>4, Types
  <2> QED BY <1>1, <1>3, <1>4, <2>1, <2>2 DEF Single, OfItsKind
<1>6. ASSUME k \notin overtaken' PROVE PostedAlone(k)'
  <2>1. PostedAlone(k)
    BY <1>1, <1>3, <1>6 DEF Single
  <2>2. /\ ~Shown(k) /\ ~Shown(k)' /\ HeldOnce(k)'
        /\ \A p \in Procs : ~SetOut(p, k)'
    BY <1>1, <1>4, <2>1, PollsCalm DEF PostedAlone, Shown
  <2>3. shown'[k] = shown[k] /\ shown[k].keyed = 0 /\ shown[k].keyless = 0
    BY <1>1, <2>2, Counts DEF Shown
  <2>4. Answering(k)' => k \in inFlightRuns' \/ Delivered(k)'
    <3>1. CASE handler' = [handler EXCEPT ![k] = "gone"] /\ UNCHANGED acking
      BY <3>1, <1>4, Types DEF Answering
    <3>2. CASE UNCHANGED inFlightRuns
      BY <3>2, <1>1, <1>4, <2>1 DEF PostedAlone, Delivered
    <3> QED BY <1>1, <3>1, <3>2
  <2>5. kind[k] = "reply" /\ handler'[k] = "post" => acking'[k] > 0
    BY <1>1, Bounds, Types
  <2> QED BY <1>1, <1>4, <2>2, <2>3, <2>4, <2>5 DEF PostedAlone
<1>7. Single(k)'
  BY <1>5, <1>6 DEF Single
<1> QED BY <1>2, <1>7 DEF PostedInv

\* What a post does to the counts.
LEMMA PostCounts ==
  ASSUME OutboxInv, NEW k \in Keys, NEW how \in {"keyed", "keyless"}, PostOk(k, how) \/ PostFails(k, how)
  PROVE  /\ \A j \in Keys \ {k} : shown'[j] = shown[j]
         /\ \/ shown'[k] = shown[k]
            \/ /\ how = "keyed" /\ shown'[k].keyed = shown[k].keyed + 1
               /\ shown'[k].keyless = shown[k].keyless
            \/ /\ how = "keyless" /\ shown'[k].keyless = shown[k].keyless + 1
               /\ shown'[k].keyed = shown[k].keyed
         /\ PostOk(k, how) => shown'[k].keyed + shown'[k].keyless > 0
<1>1. shown \in [Keys -> Posts] /\ shown[k] \in Posts
  BY Types
<1>2. CASE UNCHANGED shown /\ ~PostOk(k, how)
  BY <1>2
<1>3. CASE shown' = [shown EXCEPT ![k][how] = @ + 1]
  <2>1. CASE how = "keyed"
    <3>1. shown' = [shown EXCEPT ![k] = [shown[k] EXCEPT !.keyed = @ + 1]]
      BY <1>3, <2>1
    <3> QED BY <1>1, <2>1, <3>1 DEF Posts
  <2>2. CASE how = "keyless"
    <3>1. shown' = [shown EXCEPT ![k] = [shown[k] EXCEPT !.keyless = @ + 1]]
      BY <1>3, <2>2
    <3> QED BY <1>1, <2>2, <3>1 DEF Posts
  <2> QED BY <2>1, <2>2
<1> QED BY <1>2, <1>3 DEF PostOk, PostFails

\* The handler posts.
LEMMA HandlerPostSingle ==
  ASSUME OutboxInv, PostedInv, NEW k \in Keys, postReply(k) \/ postThenAckRunDelivery(k)
  PROVE  PostedInv'
<1>1. PICK how \in {"keyed", "keyless"} :
        /\ how = IF kind[k] = "reply" THEN "keyless" ELSE "keyed"
        /\ PostOk(k, how) \/ PostFails(k, how)
  BY DEF postReply, postThenAckRunDelivery
<1>2. /\ handler[k] = "post" /\ kind[k] \in {"reply", "refusal"}
      /\ handler' = [handler EXCEPT ![k] = "gone"]
      /\ UNCHANGED <<kind, deliveries, poller, tracker, overtaken>>
      /\ \/ acking' = acking /\ inFlightRuns' = inFlightRuns
         \/ kind[k] = "refusal" /\ acking' = [acking EXCEPT ![k] = MaxAcks] /\ inFlightRuns' = inFlightRuns
         \/ kind[k] = "refusal" /\ acking' = acking /\ inFlightRuns' = inFlightRuns \ {k}
  BY DEF postReply, postThenAckRunDelivery
<1>3. \A j \in Keys \ {k} : shown'[j] = shown[j]
  BY <1>1, PostCounts
<1>4. \A j \in Keys \ {k} : Single(j)'
  BY <1>2, <1>3, HandlerCalm, Types DEF PostedInv
<1>5. Single(k)
  BY DEF PostedInv
<1>6. /\ k \in Handled /\ k \in Handled' /\ Answering(k) /\ handler'[k] = "gone"
      /\ k \notin Unverified /\ k \notin Unverified'
  BY <1>2, Types DEF Answering, Handled, Unverified
<1>7. kind[k] = "refusal" => acking[k] = 0
  BY <1>2, <1>5 DEF Single, OfItsKind
<1>8. OfItsKind(k)'
  <2>1. kind[k] = "refusal" => shown'[k].keyless = 0
    <3>1. kind[k] = "refusal" => shown[k].keyless = 0
      BY <1>5 DEF Single, OfItsKind
    <3> QED BY <1>1, <3>1, PostCounts
  <2> QED BY <1>2, <1>6, <2>1 DEF OfItsKind
<1>9. ASSUME k \notin overtaken' PROVE PostedAlone(k)'
  <2>1. PostedAlone(k)
    BY <1>2, <1>5, <1>9 DEF Single
  <2>2. ~Shown(k) /\ HeldOnce(k)' /\ \A p \in Procs : ~SetOut(p, k)'
    BY <1>2, <1>6, <2>1, PollsCalm DEF PostedAlone
  <2>3. shown[k].keyed = 0 /\ shown[k].keyless = 0
    BY <2>2, Counts DEF Shown
  <2>4. shown'[k].keyed + shown'[k].keyless <= 1
    BY <1>1, <2>3, PostCounts
  <2>5. Answering(k)' => k \in inFlightRuns' \/ Delivered(k)'
    <3>1. CASE inFlightRuns' = inFlightRuns
      BY <3>1, <1>2, <1>6, <2>1 DEF PostedAlone, Delivered
    <3>2. CASE kind[k] = "refusal" /\ acking' = acking
      BY <3>2, <1>6, <1>7 DEF Answering
    <3> QED BY <1>2, <3>1, <3>2
  <2>6. kind[k] = "reply" => acking'[k] > 0 \/ Delivered(k)'
    BY <1>2, <2>1 DEF PostedAlone, Delivered
  <2> QED BY <1>2, <1>6, <2>2, <2>4, <2>5, <2>6 DEF PostedAlone
<1>10. Single(k)'
  BY <1>8, <1>9 DEF Single
<1> QED BY <1>4, <1>10 DEF PostedInv

\* The handler acknowledges.
LEMMA HandlerAckSingle ==
  ASSUME OutboxInv, PostedInv, NEW k \in Keys, ackRunDeliveryWithRetry(k)
  PROVE  PostedInv'
<1> DEFINE acked == [deliveries[k] EXCEPT !.state = "delivered"]
<1>1. /\ acking[k] > 0
      /\ UNCHANGED <<kind, handler, poller, tracker, shown>>
      /\ \/ /\ deliveries' = [deliveries EXCEPT ![k] = acked]
            /\ acking' = [acking EXCEPT ![k] = 0]
            /\ inFlightRuns' = inFlightRuns \ {k}
            /\ UNCHANGED overtaken
         \/ /\ acking' = [acking EXCEPT ![k] = @ - 1]
            /\ inFlightRuns' = IF acking[k] = 1 THEN inFlightRuns \ {k} ELSE inFlightRuns
            /\ overtaken' = IF acking[k] = 1 /\ kind[k] = "reply" THEN overtaken \cup {k} ELSE overtaken
            /\ UNCHANGED deliveries
  BY DEF ackRunDeliveryWithRetry, ackByKey
<1>2. acked.state = "delivered"
  BY RowType, Types
<1> HIDE DEF acked
<1>3. \A j \in Keys \ {k} : Single(j)'
  BY <1>1, HandlerCalm, Types DEF PostedInv
<1>4. Single(k)
  BY DEF PostedInv
<1>5. /\ Delivered(k) => Delivered(k)'
      /\ \/ Delivered(k)'
         \/ /\ acking'[k] = acking[k] - 1
            /\ inFlightRuns' = IF acking[k] = 1 THEN inFlightRuns \ {k} ELSE inFlightRuns
            /\ acking[k] = 1 /\ kind[k] = "reply" => k \in overtaken'
  BY <1>1, <1>2, Types DEF Delivered
<1>6. /\ acking[k] \in Nat /\ acking'[k] \in Nat /\ Answering(k)
      /\ acking'[k] = 0 \/ acking'[k] = acking[k] - 1
      /\ handler[k] = "post" /\ kind[k] # "reply" => acking[k] = 0
      /\ handler[k] # "wait" /\ k \in Handled /\ k \in Handled'
      /\ k \notin Unverified /\ k \notin Unverified'
  BY <1>1, <1>4, Bounds, Types DEF Single, OfItsKind, Answering, Handled, Unverified
<1>7. OfItsKind(k)'
  <2>1. \A p \in Procs : (SetOut(p, k)' <=> SetOut(p, k)) /\ poller'[p].at = poller[p].at
    BY <1>1, PollsCalm
  <2> QED BY <1>1, <1>4, <1>6, <2>1 DEF Single, OfItsKind
<1>8. ASSUME k \notin overtaken' PROVE PostedAlone(k)'
  <2>1. PostedAlone(k)
    BY <1>1, <1>4, <1>8 DEF Single
  <2>2. /\ HeldOnce(k)' /\ \A p \in Procs : ~SetOut(p, k)'
        /\ Known(k) => Known(k)'
    BY <1>1, <1>6, <2>1, PollsCalm DEF PostedAlone
  <2>3. acking'[k] > 0 \/ Delivered(k)' \/ kind[k] # "reply"
    BY <1>1, <1>5, <1>6, <1>8
  <2>4. Answering(k)' => k \in inFlightRuns' \/ Delivered(k)'
    <3>1. CASE acking[k] # 1
      BY <1>5, <1>6, <2>1, <3>1 DEF PostedAlone
    <3>2. CASE acking[k] = 1
      <4>1. CASE kind[k] = "reply"
        BY <1>5, <1>8, <3>2, <4>1
      <4>2. CASE kind[k] # "reply"
        <5>1. handler'[k] = "gone"
          BY <1>1, <1>6, <3>2, <4>2, Types
        <5>2. acking'[k] = 0
          BY <1>6, <3>2
        <5> QED BY <5>1, <5>2 DEF Answering
      <4> QED BY <4>1, <4>2
    <3> QED BY <3>1, <3>2
  <2>5. Shown(k)' <=> Shown(k)
    BY <1>1 DEF Shown
  <2> QED BY <1>1, <1>5, <1>6, <2>1, <2>2, <2>3, <2>4, <2>5 DEF PostedAlone
<1>9. Single(k)'
  BY <1>7, <1>8 DEF Single
<1> QED BY <1>3, <1>9 DEF PostedInv

\* A poll takes nothing in hand but what was in its batch.
LEMMA HandsKeep ==
  ASSUME NEW p \in Procs, NEW j \in Keys,
         \A q \in Procs \ {p} : poller'[q] = poller[q],
         poller'[p].batch \subseteq poller[p].batch,
         poller'[p].at # "idle" => InHand(p, poller'[p].key)
  PROVE  HeldOnce(j) => HeldOnce(j)'
<1>1. \A q \in Procs : InHand(q, j)' => InHand(q, j)
  <2> SUFFICES ASSUME NEW q \in Procs, InHand(q, j)' PROVE InHand(q, j)
    OBVIOUS
  <2>1. CASE q = p
    <3>1. CASE j \in poller'[p].batch
      BY <2>1, <3>1 DEF InHand
    <3>2. CASE poller'[p].at # "idle" /\ poller'[p].key = j
      BY <2>1, <3>2
    <3> QED BY <2>1, <3>1, <3>2 DEF InHand
  <2>2. CASE q # p
    BY <2>2 DEF InHand
  <2> QED BY <2>1, <2>2
<1> QED BY <1>1 DEF HeldOnce

\* A poll claims rows: a message it takes from another poll is overtaken.
LEMMA FetchSingle ==
  ASSUME OutboxInv, PostedInv, NEW p \in Procs, fetchDeliveries(p)
  PROVE  PostedInv'
<1> DEFINE batch == {k \in Keys : Claimable(k)}
           claimed(r) == [r EXCEPT !.claim = ClaimMs]
           fetched == [poller[p] EXCEPT !.batch = batch]
           held(k) == \E q \in Procs : k \in poller[q].batch \cup {poller[q].key}
<1>1. /\ poller[p] = IdlePoller
      /\ poller' = [poller EXCEPT ![p] = fetched]
      /\ deliveries' = [k \in Keys |-> IF k \in batch THEN claimed(deliveries[k]) ELSE deliveries[k]]
      /\ overtaken' = overtaken \cup {k \in batch : deliveries[k].claim = 0 /\ held(k)}
      /\ UNCHANGED <<kind, handler, acking, inFlightRuns, tracker, shown>>
  BY DEF fetchDeliveries
<1>2. \A r \in Row : claimed(r).state = r.state
  BY RowType
<1> HIDE DEF claimed
<1>3. \A j \in Keys : Delivered(j)' <=> Delivered(j)
  BY <1>1, <1>2, Types DEF Delivered
<1>4. fetched.batch = batch /\ fetched.at = "idle"
  BY <1>1, Types DEF Poll, IdlePoller
<1>5. \A j \in batch : deliveries[j].claim = 0
  BY DEF Claimable
<1> HIDE DEF batch, fetched
<1>6. /\ poller'[p].batch = batch /\ poller'[p].at = "idle"
      /\ \A q \in Procs \ {p} : poller'[q] = poller[q]
  BY <1>1, <1>4, Types
<1>7. \A j \in Keys : Known(j)' <=> Known(j)
  BY <1>1 DEF Known
<1>8. ASSUME NEW j \in Keys, j \notin overtaken', HeldOnce(j) PROVE HeldOnce(j)'
  <2> SUFFICES ASSUME NEW q \in Procs, NEW r \in Procs, InHand(q, j)', InHand(r, j)', q # r PROVE FALSE
    BY DEF HeldOnce
  <2>1. CASE q # p /\ r # p
    BY <1>6, <1>8, <2>1 DEF HeldOnce, InHand
  <2>2. ASSUME NEW a \in Procs, a # p, InHand(a, j)', InHand(p, j)' PROVE FALSE
    <3>1. j \in batch /\ held(j)
      BY <1>6, <2>2 DEF InHand
    <3> QED BY <1>1, <1>5, <1>8, <3>1
  <2> QED BY <2>1, <2>2
<1>9. \A j \in Keys : Calm(j)
  <2>1. \A j \in Keys, q \in Procs : SetOut(q, j)' => SetOut(q, j) /\ poller'[q].at = poller[q].at
    BY <1>6 DEF SetOut
  <2> QED BY <1>1, <1>3, <1>7, <1>8, <2>1 DEF Calm
<1> QED BY <1>9, CalmKeeps DEF PostedInv

\* A poll sets out on the next message of its batch.
LEMMA SetOutSingle ==
  ASSUME OutboxInv, PostedInv, NEW p \in Procs, NEW k \in Keys, deliverWithRetry(p, k)
  PROVE  PostedInv'
<1> DEFINE rest == poller[p].batch \ {k}
           step == IF k \in tracker[p].posted THEN "ack" ELSE IF k \in Unverified THEN "post" ELSE "verify"
           passed == Skipped(p, k) \/ k \in tracker[p].dead
           skip == [poller[p] EXCEPT !.batch = rest]
           go == [batch |-> rest, at |-> step, key |-> k]
<1>1. /\ poller[p].at = "idle" /\ k \in poller[p].batch
      /\ UNCHANGED <<kind, deliveries, handler, acking, inFlightRuns, tracker, shown>>
      /\ overtaken \subseteq overtaken'
      /\ passed => poller' = [poller EXCEPT ![p] = skip]
      /\ ~passed => /\ poller' = [poller EXCEPT ![p] = go]
                    /\ Overtakes(p, k) => k \in overtaken'
  BY DEF deliverWithRetry
<1>2. skip.batch = rest /\ skip.at = "idle"
  BY <1>1, Types DEF Poll
<1>3. go.batch = rest /\ go.at = step /\ go.key = k /\ step # "idle"
  OBVIOUS
<1> HIDE DEF go, skip
<1>4. /\ \A q \in Procs \ {p} : poller'[q] = poller[q]
      /\ poller'[p].batch \subseteq poller[p].batch
      /\ poller'[p].at # "idle" => ~passed /\ poller'[p].at = step /\ poller'[p].key = k
  BY <1>1, <1>2, <1>3, Types
<1> HIDE DEF step, passed
<1>5. poller'[p].at # "idle" => InHand(p, poller'[p].key)
  BY <1>1, <1>4 DEF InHand
<1>6. \A j \in Keys : HeldOnce(j) => HeldOnce(j)'
  BY <1>4, <1>5, HandsKeep
<1>7. \A j \in Keys, q \in Procs : SetOut(q, j)' =>
        \/ SetOut(q, j) /\ poller'[q].at = poller[q].at
        \/ q = p /\ j = k /\ ~passed /\ poller'[q].at = step /\ step # "ack"
  BY <1>4 DEF SetOut
<1>8. \A j \in Keys : (Known(j)' <=> Known(j)) /\ (Delivered(j)' <=> Delivered(j))
  BY <1>1 DEF Known, Delivered
<1>9. \A j \in Keys \ {k} : Single(j)'
  <2>1. \A j \in Keys \ {k} : Calm(j)
    BY <1>1, <1>6, <1>7, <1>8 DEF Calm
  <2> QED BY <2>1, CalmKeeps DEF PostedInv
<1>10. Single(k) /\ (Answering(k)' <=> Answering(k)) /\ (Shown(k)' <=> Shown(k))
       /\ (k \in Handled' <=> k \in Handled) /\ (k \in Unverified' <=> k \in Unverified)
  BY <1>1 DEF PostedInv, Answering, Shown, Handled, Unverified
<1>11. OfItsKind(k)'
  <2>1. k \in Unverified => \A q \in Procs : SetOut(q, k)' => poller'[q].at = "post"
    BY <1>7, <1>10 DEF Single, OfItsKind, step
  <2> QED BY <1>1, <1>10, <2>1 DEF Single, OfItsKind
<1>12. ASSUME k \notin overtaken' PROVE PostedAlone(k)'
  <2>1. PostedAlone(k)
    BY <1>1, <1>10, <1>12 DEF Single
  <2>2. ASSUME ~passed, step # "ack"
        PROVE  ~Answering(k) /\ shown[k].keyless = 0 /\ (step = "post" => shown[k].keyed = 0)
    <3>1. ~Overtakes(p, k) /\ ~Skipped(p, k) /\ k \notin tracker[p].dead \cup tracker[p].posted
      BY <1>1, <1>12, <2>2 DEF passed, step
    <3>2. ~Delivered(k)
      BY <3>1 DEF Overtakes, Delivered
    <3>3. ~Answering(k)
      <4>1. CASE k \in Handled
        <5>1. deliveries[k].young = 0
          BY <3>1, <4>1, Types, Bounds DEF Skipped, Row
        <5>2. CASE Owner[k] = p
          BY <3>1, <3>2, <4>1, <5>2, <2>1 DEF Skipped, PostedAlone
        <5>3. CASE Owner[k] # p
          BY <3>1, <5>1, <5>3 DEF Overtakes
        <5> QED BY <5>2, <5>3
      <4>2. CASE k \notin Handled
        BY <1>10, <4>2 DEF Single, OfItsKind
      <4> QED BY <4>1, <4>2
    <3>4. k \in Unverified => shown[k].keyless = 0 /\ shown[k].keyed = 0
      <4> SUFFICES ASSUME k \in Unverified PROVE shown[k].keyless = 0 /\ shown[k].keyed = 0
        OBVIOUS
      <4>1. ~Known(k)
        BY <3>1 DEF Known, Overtakes
      <4>2. ~Shown(k)
        BY <3>2, <4>1, <2>1 DEF PostedAlone
      <4> QED BY <4>2, Counts DEF Shown
    <3>5. shown[k].keyless = 0
      <4>1. kind[k] \in AllKinds /\ shown[k].keyless \in Nat /\ acking[k] \in Nat
        BY Counts, Types DEF OutboxInv, TypeOK
      <4>2. CASE kind[k] = "reply"
        BY <3>2, <3>3, <4>1, <4>2, <2>1 DEF PostedAlone, Answering
      <4>3. CASE k \in Unverified
        BY <4>3, <3>4
      <4>4. CASE kind[k] \in {"refusal", "panel"}
        BY <1>10, <4>4 DEF Single, OfItsKind
      <4> QED BY <4>1, <4>2, <4>3, <4>4 DEF AllKinds, Unverified
    <3> QED BY <3>3, <3>4, <3>5 DEF step
  <2>3. \A q \in Procs : SetOut(q, k)' =>
          ~Answering(k) /\ shown[k].keyless = 0 /\ (poller'[q].at = "post" => shown[k].keyed = 0)
    BY <1>7, <2>1, <2>2 DEF PostedAlone
  <2> QED BY <1>1, <1>6, <1>8, <1>10, <2>1, <2>3 DEF PostedAlone
<1>13. Single(k)'
  BY <1>11, <1>12 DEF Single
<1> QED BY <1>9, <1>13 DEF PostedInv

\* A poll that is at k goes on with it or is done with it.
LEMMA WorkView ==
  ASSUME OutboxInv, NEW p \in Procs, NEW k \in Keys, poller[p].at # "idle", poller[p].key = k,
         Done(p) \/ \E s \in {"post", "ack"} : poller' = [poller EXCEPT ![p].at = s]
  PROVE  /\ \A j \in Keys : HeldOnce(j) => HeldOnce(j)'
         /\ \A j \in Keys, q \in Procs \ {p} :
              SetOut(q, j)' => SetOut(q, j) /\ poller'[q].at = poller[q].at
         /\ \A j \in Keys : SetOut(p, j)' => j = k /\ poller' = [poller EXCEPT ![p].at = "post"]
<1>1. poller[p] \in Poll
  BY Types
<1>2. CASE Done(p)
  <2> DEFINE idle == [poller[p] EXCEPT !.at = "idle"]
             none == [idle EXCEPT !.key = "none"]
  <2>1. idle \in Poll /\ idle.at = "idle" /\ idle.batch = poller[p].batch
    BY <1>1 DEF Poll
  <2>2. none.at = "idle" /\ none.batch = poller[p].batch
    <3> HIDE DEF idle
    <3> QED BY <2>1 DEF Poll
  <2>3. poller' = [poller EXCEPT ![p] = none]
    BY <1>2 DEF Done
  <2> HIDE DEF none
  <2>4. /\ \A q \in Procs \ {p} : poller'[q] = poller[q]
        /\ poller'[p].batch \subseteq poller[p].batch
        /\ poller'[p].at = "idle"
    BY <2>2, <2>3, Types
  <2>5. \A j \in Keys : HeldOnce(j) => HeldOnce(j)'
    BY <2>4, HandsKeep
  <2> QED BY <2>4, <2>5 DEF SetOut
<1>3. ASSUME NEW s \in {"post", "ack"}, poller' = [poller EXCEPT ![p].at = s]
      PROVE  /\ \A j \in Keys : HeldOnce(j) => HeldOnce(j)'
             /\ \A j \in Keys, q \in Procs \ {p} :
                  SetOut(q, j)' => SetOut(q, j) /\ poller'[q].at = poller[q].at
             /\ \A j \in Keys : SetOut(p, j)' => j = k /\ s = "post"
  <2> DEFINE next == [poller[p] EXCEPT !.at = s]
  <2>1. next.at = s /\ next.key = k /\ next.batch = poller[p].batch
    BY <1>1 DEF Poll
  <2>2. poller' = [poller EXCEPT ![p] = next]
    BY <1>3
  <2> HIDE DEF next
  <2>3. /\ \A q \in Procs \ {p} : poller'[q] = poller[q]
        /\ poller'[p].batch \subseteq poller[p].batch
        /\ poller'[p].at = s /\ poller'[p].key = k
    BY <2>1, <2>2, Types
  <2>4. InHand(p, poller'[p].key)
    BY <2>3 DEF InHand
  <2>5. \A j \in Keys : HeldOnce(j) => HeldOnce(j)'
    BY <2>3, <2>4, HandsKeep
  <2> QED BY <2>3, <2>5 DEF SetOut
<1> QED BY <1>2, <1>3

\* A failure does not make the tracker forget: what it gives up on it keeps as
\* dead.
LEMMA FailureKnown ==
  ASSUME OutboxInv, NEW p \in Procs, NEW k \in Keys, poller[p].key = k, Failed(p), NEW j \in Keys, Known(j)
  PROVE  Known(j)'
<1> DEFINE t == tracker[p]
           u == recordFailure(t, k)
<1>1. t \in Tracker /\ tracker' = [tracker EXCEPT ![p] = u]
  BY Types DEF Failed
<1>2. t.posted \cup t.dead \subseteq u.posted \cup u.dead
  <2>1. CASE t.failures[k] + 1 >= MaxAttempts
    BY <2>1 DEF recordFailure
  <2>2. CASE ~(t.failures[k] + 1 >= MaxAttempts)
    <3> DEFINE f == [t.failures EXCEPT ![k] = @ + 1]
    <3>1. u = [t EXCEPT !.failures = f]
      BY <2>2 DEF recordFailure
    <3> HIDE DEF f
    <3> QED BY <1>1, <3>1 DEF Tracker
  <2> QED BY <2>1, <2>2
<1> HIDE DEF u
<1>3. PICK q \in Procs : j \in tracker[q].posted \cup tracker[q].dead
  BY DEF Known
<1>4. j \in tracker'[q].posted \cup tracker'[q].dead
  BY <1>1, <1>2, <1>3, Types
<1> QED BY <1>4 DEF Known

\* Nor does what it remembers anew.
LEMMA RememberedKnown ==
  ASSUME OutboxInv, NEW p \in Procs, NEW k \in Keys,
         tracker' = [tracker EXCEPT ![p].posted = @ \cup {k}]
  PROVE  Known(k)' /\ \A j \in Keys : Known(j) => Known(j)'
<1> DEFINE u == [tracker[p] EXCEPT !.posted = @ \cup {k}]
<1>1. u.posted = tracker[p].posted \cup {k} /\ u.dead = tracker[p].dead
  BY Types DEF Tracker
<1>2. tracker' = [tracker EXCEPT ![p] = u]
  OBVIOUS
<1> HIDE DEF u
<1>3. tracker'[p] = u /\ \A q \in Procs \ {p} : tracker'[q] = tracker[q]
  BY <1>2, Types
<1> QED BY <1>1, <1>3 DEF Known

\* The steps of a poll that is at k, as seen by the other messages.
LEMMA OthersCalm ==
  ASSUME OutboxInv, NEW p \in Procs, NEW k \in Keys, poller[p].at # "idle", poller[p].key = k,
         Done(p) \/ \E s \in {"post", "ack"} : poller' = [poller EXCEPT ![p].at = s],
         UNCHANGED <<kind, handler, acking, inFlightRuns>>, overtaken \subseteq overtaken',
         NEW j \in Keys, j # k, shown'[j] = shown[j], Delivered(j) => Delivered(j)',
         Known(j) => Known(j)', Single(j)
  PROVE  Single(j)'
<1>1. /\ HeldOnce(j) => HeldOnce(j)'
      /\ \A q \in Procs : SetOut(q, j)' => SetOut(q, j) /\ poller'[q].at = poller[q].at
  BY WorkView
<1>2. Calm(j)
  BY <1>1 DEF Calm
<1> QED BY <1>2, CalmKeeps

\* A poll looks for its message.
LEMMA VerifySingle ==
  ASSUME OutboxInv, PostedInv, NEW p \in Procs, verifyFirst(p)
  PROVE  PostedInv'
<1>0. PICK k \in Keys : k = poller[p].key
  BY DEF verifyFirst, OutboxInv, BusyPollerHasKey
<1>1. /\ poller[p].at = "verify"
      /\ UNCHANGED <<kind, deliveries, handler, acking, inFlightRuns, shown, overtaken>>
      /\ \/ poller' = [poller EXCEPT ![p].at = "post"] /\ ~findPostedByKey(k) /\ UNCHANGED tracker
         \/ /\ poller' = [poller EXCEPT ![p].at = "ack"]
            /\ tracker' = [tracker EXCEPT ![p].posted = @ \cup {k}]
         \/ Failed(p)
  BY <1>0 DEF verifyFirst
<1>2. Done(p) \/ \E s \in {"post", "ack"} : poller' = [poller EXCEPT ![p].at = s]
  BY <1>1 DEF Failed
<1>3. \A j \in Keys : Known(j) => Known(j)'
  <2>1. CASE UNCHANGED tracker
    BY <2>1 DEF Known
  <2>2. CASE tracker' = [tracker EXCEPT ![p].posted = @ \cup {k}]
    BY <2>2, RememberedKnown
  <2>3. CASE Failed(p)
    BY <1>0, <2>3, FailureKnown
  <2> QED BY <1>1, <2>1, <2>2, <2>3
<1>4. \A j \in Keys : Delivered(j)' <=> Delivered(j)
  BY <1>1 DEF Delivered
<1>5. \A j \in Keys \ {k} : Single(j)'
  BY <1>0, <1>1, <1>2, <1>3, <1>4, OthersCalm DEF PostedInv
<1>6. Single(k) /\ SetOut(p, k) /\ (Answering(k)' <=> Answering(k)) /\ (Shown(k)' <=> Shown(k))
      /\ (k \in Handled' <=> k \in Handled) /\ (k \in Unverified' <=> k \in Unverified)
  BY <1>0, <1>1 DEF PostedInv, SetOut, Answering, Shown, Handled, Unverified
<1>7. \A q \in Procs : SetOut(q, k)' =>
        \/ SetOut(q, k) /\ poller'[q].at = poller[q].at
        \/ q = p /\ ~findPostedByKey(k)
  <2>1. ASSUME poller' = [poller EXCEPT ![p].at = "post"] PROVE ~findPostedByKey(k)
    <3> DEFINE other(s) == [poller[p] EXCEPT !.at = s]
    <3>1. other("post").at = "post" /\ other("ack").at = "ack" /\ poller[p].at = "verify"
      BY <1>1, Types DEF Poll
    <3>2. poller'[p].at = "post"
      BY <2>1, <3>1, Types
    <3>3. CASE poller' = [poller EXCEPT ![p].at = "ack"]
      BY <3>1, <3>2, <3>3, Types
    <3>4. CASE Done(p)
      <4>1. poller' = [poller EXCEPT ![p] = [other("idle") EXCEPT !.key = "none"]]
        BY <3>4 DEF Done
      <4>2. [other("idle") EXCEPT !.key = "none"].at = "idle"
        BY Types DEF Poll
      <4> QED BY <3>2, <4>1, <4>2, Types
    <3> QED BY <1>1, <3>3, <3>4 DEF Failed
  <2> QED BY <1>0, <1>1, <1>2, <2>1, WorkView
<1>8. k \notin Unverified
  BY <1>1, <1>6 DEF Single, OfItsKind
<1>9. OfItsKind(k)'
  BY <1>1, <1>6, <1>8 DEF Single, OfItsKind
<1>10. ASSUME k \notin overtaken' PROVE PostedAlone(k)'
  <2>1. PostedAlone(k)
    BY <1>1, <1>6, <1>10 DEF Single
  <2>2. HeldOnce(k)'
    BY <1>0, <1>1, <1>2, <2>1, WorkView DEF PostedAlone
  <2>3. ~Answering(k) /\ shown[k].keyless = 0 /\ (~findPostedByKey(k) => shown[k].keyed = 0)
    BY <1>6, <2>1, Counts DEF PostedAlone, findPostedByKey
  <2>4. \A q \in Procs : SetOut(q, k)' => (poller'[q].at = "post" => shown[k].keyed = 0)
    BY <1>7, <2>1, <2>3 DEF PostedAlone
  <2> QED BY <1>1, <1>4, <1>6, <1>8, <2>1, <2>2, <2>3, <2>4 DEF PostedAlone
<1>11. Single(k)'
  BY <1>9, <1>10 DEF Single
<1> QED BY <1>5, <1>11 DEF PostedInv

\* A poll posts its message.
LEMMA PostSingle ==
  ASSUME OutboxInv, PostedInv, NEW p \in Procs, post(p)
  PROVE  PostedInv'
<1>0. PICK k \in Keys : k = poller[p].key
  BY DEF post, OutboxInv, BusyPollerHasKey
<1>1. PICK how \in {"keyed", "keyless"} :
        /\ how = IF kind[k] = "direct" THEN "keyless" ELSE "keyed"
        /\ \/ /\ PostOk(k, how)
              /\ poller' = [poller EXCEPT ![p].at = "ack"]
              /\ tracker' = [tracker EXCEPT ![p].posted = @ \cup {k}]
              /\ UNCHANGED overtaken
           \/ /\ PostFails(k, how)
              /\ Failed(p)
              /\ overtaken' = IF k \in Unverified /\ shown' # shown THEN overtaken \cup {k} ELSE overtaken
  BY <1>0 DEF post
<1>2. /\ poller[p].at = "post"
      /\ UNCHANGED <<kind, deliveries, handler, acking, inFlightRuns>>
      /\ overtaken \subseteq overtaken'
      /\ Done(p) \/ \E s \in {"post", "ack"} : poller' = [poller EXCEPT ![p].at = s]
  BY <1>0, <1>1 DEF post, Failed
<1>3. \A j \in Keys : Known(j) => Known(j)'
  BY <1>0, <1>1, RememberedKnown, FailureKnown
<1>4. \A j \in Keys : Delivered(j)' <=> Delivered(j)
  BY <1>2 DEF Delivered
<1>5. \A j \in Keys \ {k} : Single(j)'
  <2>1. \A j \in Keys \ {k} : shown'[j] = shown[j]
    BY <1>1, PostCounts
  <2> QED BY <1>0, <1>2, <1>3, <1>4, <2>1, OthersCalm DEF PostedInv
<1>6. Single(k) /\ SetOut(p, k) /\ (Answering(k)' <=> Answering(k))
      /\ (k \in Handled' <=> k \in Handled) /\ (k \in Unverified' <=> k \in Unverified)
  BY <1>0, <1>2 DEF PostedInv, SetOut, Answering, Handled, Unverified
<1>7. \A q \in Procs : SetOut(q, k)' => q # p /\ SetOut(q, k) /\ poller'[q].at = poller[q].at
  <2>1. ASSUME SetOut(p, k)' PROVE FALSE
    <3> DEFINE other(s) == [poller[p] EXCEPT !.at = s]
    <3>1. CASE poller' = [poller EXCEPT ![p].at = "ack"]
      <4>1. other("ack").at = "ack"
        BY Types DEF Poll
      <4> QED BY <2>1, <3>1, <4>1, Types DEF SetOut
    <3>2. CASE Done(p)
      <4>1. poller' = [poller EXCEPT ![p] = [other("idle") EXCEPT !.key = "none"]]
        BY <3>2 DEF Done
      <4>2. [other("idle") EXCEPT !.key = "none"].at = "idle"
        BY Types DEF Poll
      <4> QED BY <2>1, <4>1, <4>2, Types DEF SetOut
    <3> QED BY <1>1, <3>1, <3>2 DEF Failed
  <2> QED BY <1>0, <1>2, <2>1, WorkView
<1>8. OfItsKind(k)'
  <2>1. /\ kind[k] \in {"refusal", "panel", "notice"} => shown'[k].keyless = 0
        /\ kind[k] = "direct" => shown'[k].keyed = 0
    <3>1. /\ kind[k] \in {"refusal", "panel", "notice"} => shown[k].keyless = 0
          /\ kind[k] = "direct" => shown[k].keyed = 0
      BY <1>6 DEF Single, OfItsKind
    <3> QED BY <1>1, <3>1, PostCounts
  <2> QED BY <1>2, <1>6, <1>7, <2>1 DEF Single, OfItsKind
<1>9. ASSUME k \notin overtaken' PROVE PostedAlone(k)'
  <2>1. PostedAlone(k)
    BY <1>2, <1>6, <1>9 DEF Single
  <2>2. HeldOnce(k)'
    BY <1>0, <1>2, <2>1, WorkView DEF PostedAlone
  <2>3. ~Answering(k) /\ handler[k] = "gone" /\ shown[k].keyless = 0 /\ shown[k].keyed = 0
    BY <1>2, <1>6, <2>1 DEF PostedAlone, Answering
  <2>4. \A q \in Procs : ~SetOut(q, k)'
    <3>1. ASSUME NEW q \in Procs, SetOut(q, k)' PROVE FALSE
      <4>1. q # p /\ InHand(q, k) /\ InHand(p, k)
        BY <1>0, <1>2, <1>7, <3>1 DEF SetOut, InHand
      <4> QED BY <4>1, <2>1 DEF PostedAlone, HeldOnce
    <3> QED BY <3>1
  <2>5. shown'[k].keyed + shown'[k].keyless <= 1
    BY <1>1, <2>3, PostCounts
  <2>6. kind[k] = "reply" => shown'[k].keyless = 0
    BY <1>1, <2>3, PostCounts
  <2>7. k \in Unverified /\ Shown(k)' => Known(k)'
    <3>1. CASE PostOk(k, how) /\ tracker' = [tracker EXCEPT ![p].posted = @ \cup {k}]
      BY <3>1, RememberedKnown
    <3>2. CASE k \in Unverified => shown' = shown
      BY <2>3, <3>2 DEF Shown
    <3> QED BY <1>1, <1>9, <3>1, <3>2
  <2> QED BY <1>2, <1>6, <2>1, <2>2, <2>3, <2>4, <2>5, <2>6, <2>7 DEF PostedAlone
<1>10. Single(k)'
  BY <1>8, <1>9 DEF Single
<1> QED BY <1>5, <1>10 DEF PostedInv

\* A poll acknowledges its message.
LEMMA AckSingle ==
  ASSUME OutboxInv, PostedInv, NEW p \in Procs, ack(p)
  PROVE  PostedInv'
<1>0. PICK k \in Keys : k = poller[p].key
  BY DEF ack, OutboxInv, BusyPollerHasKey
<1> DEFINE acked == [deliveries[k] EXCEPT !.state = "delivered"]
           kept == [tracker[p].failures EXCEPT ![k] = 0]
           counted == [tracker[p] EXCEPT !.failures = kept]
           cleared == [counted EXCEPT !.posted = @ \ {k}]
           success == /\ deliveries' = [deliveries EXCEPT ![k] = acked]
                      /\ tracker' = [tracker EXCEPT ![p] = cleared]
<1>1. /\ poller[p].at = "ack" /\ Done(p)
      /\ UNCHANGED <<kind, handler, acking, inFlightRuns, shown, overtaken>>
      /\ success \/ (Failed(p) /\ UNCHANGED deliveries)
  <2>1. CASE Failed(p) /\ UNCHANGED deliveries
    BY <2>1 DEF ack, Failed
  <2>2. CASE /\ deliveries' = [deliveries EXCEPT ![k].state = "delivered"]
             /\ tracker' = [tracker EXCEPT ![p].failures[k] = 0, ![p].posted = @ \ {k}]
             /\ Done(p)
    <3>1. tracker' = [tracker EXCEPT ![p] = cleared]
      BY <2>2, Types
    <3> QED BY <2>2, <3>1 DEF ack
  <2> QED BY <1>0, <2>1, <2>2 DEF ack
<1>2. acked.state = "delivered"
  BY RowType, Types
<1>3. cleared.posted = tracker[p].posted \ {k} /\ cleared.dead = tracker[p].dead
  <2> HIDE DEF kept
  <2>1. tracker[p] \in Tracker
    BY Types
  <2>2. counted.posted = tracker[p].posted /\ counted.dead = tracker[p].dead
        /\ counted = [failures |-> kept, posted |-> tracker[p].posted, dead |-> tracker[p].dead]
    BY <2>1 DEF Tracker
  <2> HIDE DEF counted
  <2> QED BY <2>2
<1> HIDE DEF acked, cleared
<1>4. \A j \in Keys : (Delivered(j) => Delivered(j)') /\ (Known(j) => Known(j)' \/ Delivered(j)')
  <2>1. CASE success
    <3>1. /\ \A j \in Keys \ {k} : deliveries'[j] = deliveries[j]
          /\ deliveries'[k].state = "delivered"
      BY <1>2, <2>1, Types
    <3>2. tracker'[p] = cleared /\ \A q \in Procs \ {p} : tracker'[q] = tracker[q]
      BY <2>1, Types
    <3>3. ASSUME NEW j \in Keys \ {k}, Known(j) PROVE Known(j)'
      <4>1. PICK q \in Procs : j \in tracker[q].posted \cup tracker[q].dead
        BY <3>3 DEF Known
      <4>2. j \in tracker'[q].posted \cup tracker'[q].dead
        BY <1>3, <3>2, <3>3, <4>1
      <4> QED BY <4>2 DEF Known
    <3> QED BY <3>1, <3>3 DEF Delivered
  <2>2. CASE Failed(p) /\ UNCHANGED deliveries
    BY <1>0, <2>2, FailureKnown DEF Delivered
  <2> QED BY <1>1, <2>1, <2>2
<1>5. \A j \in Keys : HeldOnce(j) => HeldOnce(j)'
  BY <1>0, <1>1, WorkView
<1>6. \A j \in Keys, q \in Procs : SetOut(q, j)' => SetOut(q, j) /\ poller'[q].at = poller[q].at
  <2>1. poller'[p].at = "idle"
    <3> DEFINE other == [poller[p] EXCEPT !.at = "idle"]
    <3>1. poller' = [poller EXCEPT ![p] = [other EXCEPT !.key = "none"]]
      BY <1>1 DEF Done
    <3>2. [other EXCEPT !.key = "none"].at = "idle"
      BY Types DEF Poll
    <3> QED BY <3>1, <3>2, Types
  <2>2. \A j \in Keys : ~SetOut(p, j)'
    BY <2>1 DEF SetOut
  <2> QED BY <1>0, <1>1, <2>2, WorkView
<1>7. \A j \in Keys : Calm(j)
  BY <1>1, <1>4, <1>5, <1>6 DEF Calm
<1> QED BY <1>7, CalmKeeps DEF PostedInv

\* A process dies: a reply that was posted and not acknowledged, and a message
\* not looked for that its tracker knew of, are overtaken.
LEMMA CrashSingle ==
  ASSUME OutboxInv, PostedInv, NEW p \in Procs, crash(p)
  PROVE  PostedInv'
<1> DEFINE own == {k \in Keys : Owner[k] = p}
<1>1. /\ handler' = [k \in Keys |-> IF k \in own THEN "gone" ELSE handler[k]]
      /\ acking' = [k \in Keys |-> IF k \in own THEN 0 ELSE acking[k]]
      /\ inFlightRuns' = inFlightRuns \ own
      /\ poller' = [poller EXCEPT ![p] = IdlePoller]
      /\ tracker' = [tracker EXCEPT ![p] = NewTracker]
      /\ UNCHANGED <<kind, deliveries, shown>>
  BY DEF crash
<1>2. /\ overtaken \subseteq overtaken'
      /\ {k \in own : kind[k] = "reply" /\ acking[k] > 0 /\ Shown(k)} \subseteq overtaken'
      /\ {k \in Unverified : Shown(k) /\ k \in tracker[p].posted \cup tracker[p].dead}
           \subseteq overtaken'
  BY DEF crash
<1>3. /\ poller'[p].at = "idle" /\ poller'[p].batch = {}
      /\ \A q \in Procs \ {p} : poller'[q] = poller[q] /\ tracker'[q] = tracker[q]
  BY <1>1, Types DEF IdlePoller
<1>4. \A j \in Keys : HeldOnce(j) => HeldOnce(j)'
  BY <1>3, HandsKeep
<1>5. \A j \in Keys, q \in Procs : SetOut(q, j)' => SetOut(q, j) /\ poller'[q].at = poller[q].at
  BY <1>3 DEF SetOut
<1> SUFFICES ASSUME NEW k \in Keys PROVE Single(k)'
  BY DEF PostedInv
<1>6. /\ Single(k) /\ (Shown(k)' <=> Shown(k)) /\ (k \in Handled' <=> k \in Handled)
      /\ (Delivered(k)' <=> Delivered(k)) /\ (k \in Unverified' <=> k \in Unverified)
  BY <1>1 DEF PostedInv, Shown, Handled, Delivered, Unverified
<1>7. /\ k \in own => handler'[k] = "gone" /\ acking'[k] = 0 /\ ~Answering(k)'
      /\ k \notin own => /\ handler'[k] = handler[k] /\ acking'[k] = acking[k]
                         /\ k \in inFlightRuns => k \in inFlightRuns'
                         /\ Answering(k)' <=> Answering(k)
  BY <1>1 DEF Answering
<1> HIDE DEF own
<1>8. OfItsKind(k)'
  BY <1>1, <1>5, <1>6, <1>7 DEF Single, OfItsKind
<1>9. ASSUME k \notin overtaken' PROVE PostedAlone(k)'
  <2>1. PostedAlone(k)
    BY <1>2, <1>6, <1>9 DEF Single
  <2>2. shown[k].keyless > 0 => Shown(k)
    BY Counts DEF Shown
  <2>3. kind[k] = "reply" /\ (handler'[k] = "post" \/ shown[k].keyless > 0) => acking'[k] > 0 \/ Delivered(k)
    <3>1. CASE k \notin own
      BY <1>7, <2>1, <3>1 DEF PostedAlone
    <3>2. CASE k \in own
      BY <1>2, <1>7, <1>9, <2>1, <2>2, <3>2 DEF PostedAlone
    <3> QED BY <3>1, <3>2
  <2>4. k \in Unverified /\ Shown(k) => Known(k)' \/ Delivered(k)
    <3> SUFFICES ASSUME k \in Unverified, Shown(k), ~Delivered(k) PROVE Known(k)'
      OBVIOUS
    <3>1. PICK q \in Procs : k \in tracker[q].posted \cup tracker[q].dead
      BY <2>1 DEF PostedAlone, Known
    <3>2. q # p
      BY <1>2, <1>9, <2>2, <3>1
    <3> QED BY <1>3, <3>1, <3>2 DEF Known
  <2>5. \A q \in Procs : SetOut(q, k)' => ~Answering(k)'
    BY <1>5, <1>7, <2>1 DEF PostedAlone
  <2>6. Answering(k)' => k \in inFlightRuns' \/ Delivered(k)
    BY <1>7, <2>1 DEF PostedAlone
  <2>7. handler'[k] # "gone" => ~Shown(k)
    BY <1>7, <2>1 DEF PostedAlone
  <2> QED BY <1>1, <1>4, <1>5, <1>6, <2>1, <2>3, <2>4, <2>5, <2>6, <2>7 DEF PostedAlone
<1> QED BY <1>8, <1>9 DEF Single

\* Time passes.
LEMMA TickSingle ==
  ASSUME OutboxInv, PostedInv, Tick
  PROVE  PostedInv'
<1> DEFINE older(r) == [r EXCEPT !.claim = Down(@), !.young = Down(@)]
<1>1. /\ deliveries' = [k \in Keys |-> older(deliveries[k])]
      /\ UNCHANGED <<kind, handler, acking, inFlightRuns, poller, tracker, shown, overtaken>>
  BY DEF Tick
<1>2. \A r \in Row : older(r).state = r.state
  BY RowType
<1> HIDE DEF older
<1>3. \A j \in Keys : Delivered(j)' <=> Delivered(j)
  BY <1>1, <1>2, Types DEF Delivered
<1>4. \A j \in Keys : Calm(j)
  BY <1>1, <1>3, PollsCalm DEF Calm
<1> QED BY <1>4, CalmKeeps DEF PostedInv

\* The second invariant holds in every state.
LEMMA PostedInvariance == Spec => []PostedInv
<1>1. Init => PostedInv
  <2> SUFFICES ASSUME Init, NEW k \in Keys PROVE Single(k)
    BY DEF PostedInv
  <2>1. \A p \in Procs : poller[p].at = "idle" /\ poller[p].batch = {}
    BY DEF Init, IdlePoller
  <2>2. HeldOnce(k) /\ \A p \in Procs : ~SetOut(p, k)
    BY <2>1 DEF HeldOnce, InHand, SetOut
  <2>3. shown[k].keyed = 0 /\ shown[k].keyless = 0 /\ acking[k] = 0
    BY DEF Init
  <2>4. handler[k] \in {"wait", "gone"} /\ (handler[k] = "wait" <=> k \in Handled) /\ inFlightRuns = Handled
    BY DEF Init
  <2>5. Answering(k) <=> k \in Handled
    BY <2>3, <2>4 DEF Answering
  <2> QED BY <2>2, <2>3, <2>4, <2>5 DEF Single, OfItsKind, PostedAlone, Shown
<1>2. OutboxInv /\ PostedInv /\ [Next]_vars => PostedInv'
  <2> SUFFICES ASSUME OutboxInv, PostedInv, [Next]_vars PROVE PostedInv'
    OBVIOUS
  <2>1. CASE UNCHANGED vars
    <3>1. \A j \in Keys : Calm(j)
      BY <2>1, PollsCalm DEF vars, Calm, Delivered
    <3> QED BY <3>1, CalmKeeps DEF PostedInv
  <2>2. CASE Next
    BY <2>2, AnnounceSingle, WaitSingle, HandlerPostSingle, HandlerAckSingle, FetchSingle, SetOutSingle,
       VerifySingle, PostSingle, AckSingle, CrashSingle, TickSingle DEF Next, Handler, Poller
  <2> QED BY <2>1, <2>2
<1> QED BY <1>1, <1>2, Invariance, PTL DEF Spec

\* The user sees a message once, however often it is claimed, retried and
\* acknowledged, by its handler and by the pollers of all processes, unless it
\* was overtaken, in one of the ways that PostedOnce lists: the pin, the grace,
\* the claim, the tracker and the search by key leave no other way to a second
\* post.
THEOREM ShownOnce == Spec => []PostedOnce
<1>1. OutboxInv /\ PostedInv => PostedOnce
  <2> SUFFICES ASSUME OutboxInv, PostedInv, NEW k \in Keys, shown[k].keyed + shown[k].keyless > 1,
                      k \notin overtaken
               PROVE  FALSE
    BY DEF PostedOnce
  <2>1. shown[k].keyed + shown[k].keyless <= 1
    BY DEF PostedInv, Single, PostedAlone
  <2> QED BY <2>1, Counts
<1> QED BY <1>1, Invariance, PostedInvariance, PTL
=============================================================================
