------------------------------- MODULE Outbox -------------------------------
(***************************************************************************)
(* The delivery outbox and the Slack surface that empties it:              *)
(* delivery/postgres-delivery-store.ts, delivery/run-result-delivery.ts,   *)
(* slack/deliveries.ts, slack/delivery.ts, slack/core-bridge.ts and the    *)
(* end of a turn in slack/turn-handler.ts.                                 *)
(*                                                                         *)
(* The reply of a run has two ways to Slack: the handler that waits for    *)
(* the run posts it, and the run's end puts a recovery copy into the       *)
(* outbox, which the pollers of all processes post unless the handler      *)
(* acknowledges the copy first.  A message of the outbox is known by its   *)
(* idempotency key.  Keys are of five kinds:                               *)
(*   "reply"    the handler acknowledges, then posts without the key;      *)
(*   "refusal"  (a quarantine) the handler posts with the key, then        *)
(*              acknowledges;                                              *)
(*   "panel"    a later persona's turn, which no handler waits for;        *)
(*   "notice"   a message to a channel or a group, not of a run (of a      *)
(*              schedule, say), posted with the key but not looked for     *)
(*              before;                                                    *)
(*   "direct"   a message to a principal, not of a run, posted keyless.    *)
(* Slack answers a post, or fails it before or after showing the message,  *)
(* and finds every message it shows by its key.                            *)
(***************************************************************************)
EXTENDS Integers, FiniteSets

CONSTANTS
  Keys,         \* idempotency keys
  Procs,        \* processes; each runs one poller
  Owner,        \* the process whose handler waits for each run
  Kinds,        \* the assignments of kinds to keys that are explored
  ClaimMs,      \* DELIVERY_CLAIM_MS, in ticks
  GraceMs,      \* RUN_RECOVERY_GRACE_MS, in ticks
  MaxAttempts,  \* DELIVERY_MAX_ATTEMPTS of the tracker
  MaxAcks,      \* the tries of ackRunDeliveryWithRetry
  MaxFaults     \* bound: failed calls and crashes

AllKinds == {"reply", "refusal", "panel", "notice", "direct"}

ASSUME OutboxAssumption ==
  /\ Owner \in [Keys -> Procs] /\ Kinds \subseteq [Keys -> AllKinds]
  /\ {ClaimMs, GraceMs, MaxAttempts, MaxAcks} \subseteq Nat \ {0} /\ MaxFaults \in Nat

VARIABLES
  kind,          \* the kind of each key
  run,           \* "running", "ended", then "announced" or "missed"
  deliveries,    \* the rows of the outbox
  handler,       \* "wait", "post" or "gone"
  acking,        \* tries left to the handler's acknowledgement, 0 when it is over
  inFlightRuns,  \* runs pinned in the process of their handler
  poller,        \* each process's claimed batch and the delivery it is at
  tracker,       \* createDeliveryTracker() of each process
  shown,         \* messages in Slack, with and without the key
  overtaken,     \* history: keys to which something happened that PostedOnce excuses
  lost,          \* history: replies whose own post failed or died with its process
  faults

vars == <<kind, run, deliveries, handler, acking, inFlightRuns, poller, tracker,
          shown, overtaken, lost, faults>>

NoRow == [state |-> "none", claim |-> 0, young |-> 0]

IdlePoller == [batch |-> {}, at |-> "idle", key |-> "none"]

NewTracker == [failures |-> [k \in Keys |-> 0], posted |-> {}, dead |-> {}]

Handled == {k \in Keys : kind[k] \in {"reply", "refusal"}}

\* The messages not of a run, for which verifyFirst is not asked.
Unverified == {k \in Keys : kind[k] \in {"notice", "direct"}}

Init ==
  /\ kind \in Kinds
  /\ run = [k \in Keys |-> "running"]
  /\ deliveries = [k \in Keys |-> NoRow]
  /\ handler = [k \in Keys |-> IF k \in Handled THEN "wait" ELSE "gone"]
  /\ acking = [k \in Keys |-> 0]
  /\ inFlightRuns = Handled
  /\ poller = [p \in Procs |-> IdlePoller]
  /\ tracker = [p \in Procs |-> NewTracker]
  /\ shown = [k \in Keys |-> [keyed |-> 0, keyless |-> 0]]
  /\ overtaken = {} /\ lost = {}
  /\ faults = 0

Shown(k) == shown[k].keyed + shown[k].keyless > 0

Fault == faults < MaxFaults /\ faults' = faults + 1

\* The handler of k has yet to answer the run or to acknowledge its answer.
Answering(k) == handler[k] # "gone" \/ acking[k] > 0

\* A post of k: Slack may show it or not, and tell so or fail.
PostOk(k, how) == shown' = [shown EXCEPT ![k][how] = @ + 1] /\ UNCHANGED faults

PostFails(k, how) == Fault /\ (UNCHANGED shown \/ shown' = [shown EXCEPT ![k][how] = @ + 1])

-----------------------------------------------------------------------------
(* The delivery store *)

\* enqueue(): a key that has a row keeps it.
enqueue(k) ==
  IF deliveries[k].state = "none"
  THEN [deliveries EXCEPT ![k] = [state |-> "pending", claim |-> 0, young |-> GraceMs]]
  ELSE deliveries

\* ackByKey(): a key that has no row gets a tombstone.
ackByKey(k) == [deliveries EXCEPT ![k].state = "delivered"]

\* The rows claimPending() takes.
Claimable(k) == deliveries[k].state = "pending" /\ deliveries[k].claim = 0

-----------------------------------------------------------------------------
(* The run and its recovery copy *)

\* The run ends, or somebody is about to send a message that is not of a run.
end(k) ==
  /\ run[k] = "running"
  /\ run' = [run EXCEPT ![k] = "ended"]
  /\ UNCHANGED <<kind, deliveries, handler, acking, inFlightRuns, poller, tracker,
                 shown, overtaken, lost, faults>>

\* wireRunResultDeliveries(): the listener enqueues, or fails and says so in the log.
announce(k) ==
  /\ run[k] = "ended"
  /\ \/ /\ deliveries' = enqueue(k)
        /\ run' = [run EXCEPT ![k] = "announced"]
        /\ UNCHANGED faults
     \/ /\ Fault
        /\ run' = [run EXCEPT ![k] = "missed"]
        /\ UNCHANGED deliveries
  /\ UNCHANGED <<kind, handler, acking, inFlightRuns, poller, tracker, shown, overtaken, lost>>

-----------------------------------------------------------------------------
(* The handler of a turn *)

\* pollRun() has the result: a reply's acknowledgement starts before its post.
pollRun(k) ==
  /\ handler[k] = "wait" /\ run[k] # "running"
  /\ handler' = [handler EXCEPT ![k] = "post"]
  /\ acking' = [acking EXCEPT ![k] = IF kind[k] = "reply" THEN MaxAcks ELSE 0]
  /\ UNCHANGED <<kind, run, deliveries, inFlightRuns, poller, tracker, shown, overtaken, lost, faults>>

\* Mutant of waitFails: the pin stays, as it does until an acknowledgement ends.
waitFailsPinned(k) ==
  /\ handler[k] = "wait" /\ Fault
  /\ handler' = [handler EXCEPT ![k] = "gone"]
  /\ UNCHANGED <<kind, run, deliveries, acking, inFlightRuns, poller, tracker, shown, overtaken, lost>>

\* waitRun() throws: the run made no progress, or could not be read.  The user
\* is told that the result will come.
waitFails(k) ==
  /\ handler[k] = "wait" /\ Fault
  /\ handler' = [handler EXCEPT ![k] = "gone"]
  /\ inFlightRuns' = inFlightRuns \ {k}
  /\ UNCHANGED <<kind, run, deliveries, acking, poller, tracker, shown, overtaken, lost>>

\* postReply(): an error ends the handler.
postReply(k) ==
  /\ handler[k] = "post" /\ kind[k] = "reply"
  /\ handler' = [handler EXCEPT ![k] = "gone"]
  /\ \/ PostOk(k, "keyless") /\ UNCHANGED lost
     \/ PostFails(k, "keyless") /\ lost' = lost \cup {k}
  /\ UNCHANGED <<kind, run, deliveries, acking, inFlightRuns, poller, tracker, overtaken>>

\* Mutant of postThenAckRunDelivery: acknowledges a refusal whose post failed.
postThenAckAnyway(k) ==
  /\ handler[k] = "post" /\ kind[k] = "refusal"
  /\ handler' = [handler EXCEPT ![k] = "gone"]
  /\ PostOk(k, "keyed") \/ PostFails(k, "keyed")
  /\ acking' = [acking EXCEPT ![k] = MaxAcks]
  /\ UNCHANGED <<kind, run, deliveries, inFlightRuns, poller, tracker, overtaken, lost>>

\* postThenAckRunDelivery(): a failed post leaves the refusal to the pollers.
postThenAckRunDelivery(k) ==
  /\ handler[k] = "post" /\ kind[k] = "refusal"
  /\ handler' = [handler EXCEPT ![k] = "gone"]
  /\ \/ /\ PostOk(k, "keyed")
        /\ acking' = [acking EXCEPT ![k] = MaxAcks]
        /\ UNCHANGED inFlightRuns
     \/ /\ PostFails(k, "keyed")
        /\ inFlightRuns' = inFlightRuns \ {k}
        /\ UNCHANGED acking
  /\ UNCHANGED <<kind, run, deliveries, poller, tracker, overtaken, lost>>

\* ackRunDeliveryWithRetry(): a few tries, then the poller "may re-deliver".
ackRunDeliveryWithRetry(k) ==
  /\ acking[k] > 0
  /\ \/ /\ deliveries' = ackByKey(k)
        /\ acking' = [acking EXCEPT ![k] = 0]
        /\ inFlightRuns' = inFlightRuns \ {k}
        /\ UNCHANGED <<overtaken, faults>>
     \/ /\ Fault
        /\ acking' = [acking EXCEPT ![k] = @ - 1]
        /\ inFlightRuns' = IF acking[k] = 1 THEN inFlightRuns \ {k} ELSE inFlightRuns
        /\ overtaken' = IF acking[k] = 1 /\ kind[k] = "reply" THEN overtaken \cup {k} ELSE overtaken
        /\ UNCHANGED deliveries
  /\ UNCHANGED <<kind, run, handler, poller, tracker, shown, lost>>

-----------------------------------------------------------------------------
(* The pollers *)

\* Mutant of recordFailure: one attempt too many.
recordFailureLate(t, k) ==
  IF t.failures[k] + 1 > MaxAttempts
  THEN [failures |-> [t.failures EXCEPT ![k] = 0], posted |-> t.posted \ {k}, dead |-> t.dead \cup {k}]
  ELSE [t EXCEPT !.failures[k] = @ + 1]

\* recordFailure() of the tracker gives up at the last attempt.
recordFailure(t, k) ==
  IF t.failures[k] + 1 >= MaxAttempts
  THEN [failures |-> [t.failures EXCEPT ![k] = 0], posted |-> t.posted \ {k}, dead |-> t.dead \cup {k}]
  ELSE [t EXCEPT !.failures[k] = @ + 1]

Done(p) == poller' = [poller EXCEPT ![p].at = "idle", ![p].key = "none"]

Failed(p) ==
  /\ tracker' = [tracker EXCEPT ![p] = recordFailure(@, poller[p].key)]
  /\ Done(p)

\* fetchDeliveries(), when the last poll is over: claims every row it can.
fetchDeliveries(p) ==
  LET batch == {k \in Keys : Claimable(k)}
      outlived == {k \in batch : deliveries[k].claim = 0 /\ \E q \in Procs : k \in poller[q].batch \cup {poller[q].key}}
  IN /\ poller[p] = IdlePoller /\ batch # {}
     /\ poller' = [poller EXCEPT ![p].batch = batch]
     /\ deliveries' = [k \in Keys |->
                         IF k \in batch THEN [deliveries[k] EXCEPT !.claim = ClaimMs] ELSE deliveries[k]]
     /\ overtaken' = overtaken \cup outlived
     /\ UNCHANGED <<kind, run, handler, acking, inFlightRuns, tracker, shown, lost, faults>>

\* deliverToConversations() leaves a run's reply to its handler while that is
\* in flight here, and for a time in any case; a panel's reply has none.  The
\* tracker refuses what it gave up on.
Skipped(p, k) ==
  \/ k \in Handled /\ k \in inFlightRuns /\ Owner[k] = p
  \/ k \in Handled /\ deliveries[k].young > 0

\* History: the poller sets out while a handler elsewhere, having outlived its
\* grace, is still at it, on a row that was acknowledged since it was claimed,
\* or on a message that it does not look for and that another process's tracker
\* remembers or gave up.
Overtakes(p, k) ==
  \/ Owner[k] # p /\ deliveries[k].young = 0 /\ Answering(k)
  \/ deliveries[k].state = "delivered"
  \/ k \in Unverified /\ \E q \in Procs \ {p} : k \in tracker[q].posted \cup tracker[q].dead

\* deliverWithRetry() of the next delivery of the batch.
deliverWithRetry(p, k) ==
  /\ poller[p].at = "idle" /\ k \in poller[p].batch
  /\ LET rest == poller[p].batch \ {k}
         step == IF k \in tracker[p].posted THEN "ack" ELSE IF k \in Unverified THEN "post" ELSE "verify"
     IN IF Skipped(p, k) \/ k \in tracker[p].dead
        THEN poller' = [poller EXCEPT ![p].batch = rest] /\ UNCHANGED overtaken
        ELSE /\ poller' = [poller EXCEPT ![p] = [batch |-> rest, at |-> step, key |-> k]]
             /\ overtaken' = IF Overtakes(p, k) THEN overtaken \cup {k} ELSE overtaken
  /\ UNCHANGED <<kind, run, deliveries, handler, acking, inFlightRuns, tracker, shown, lost, faults>>

\* Mutant of findPostedByKey: the search never finds the message.
findNothing(k) == FALSE

findPostedByKey(k) == shown[k].keyed > 0

\* postWithVerify() looks for the message of a run first.
verifyFirst(p) ==
  /\ poller[p].at = "verify"
  /\ LET k == poller[p].key
     IN \/ /\ ~findPostedByKey(k)
           /\ poller' = [poller EXCEPT ![p].at = "post"]
           /\ UNCHANGED <<tracker, faults>>
        \/ /\ findPostedByKey(k)
           /\ poller' = [poller EXCEPT ![p].at = "ack"]
           /\ tracker' = [tracker EXCEPT ![p].posted = @ \cup {k}]
           /\ UNCHANGED faults
        \/ Fault /\ Failed(p)
  /\ UNCHANGED <<kind, run, deliveries, handler, acking, inFlightRuns, shown, overtaken, lost>>

\* The post, repeated until Slack shows it or the error is final.  A keyed one
\* is looked for after an error, so that it fails although it is shown only if
\* the search fails too.
post(p) ==
  /\ poller[p].at = "post"
  /\ LET k == poller[p].key
         how == IF kind[k] = "direct" THEN "keyless" ELSE "keyed"
     IN \/ /\ PostOk(k, how)
           /\ poller' = [poller EXCEPT ![p].at = "ack"]
           /\ tracker' = [tracker EXCEPT ![p].posted = @ \cup {k}]
           /\ UNCHANGED overtaken
        \/ /\ PostFails(k, how)
           /\ Failed(p)
           /\ overtaken' = IF k \in Unverified /\ shown' # shown THEN overtaken \cup {k} ELSE overtaken
  /\ UNCHANGED <<kind, run, deliveries, handler, acking, inFlightRuns, lost>>

\* The acknowledgement; what is posted and not acknowledged is not posted again.
ack(p) ==
  /\ poller[p].at = "ack"
  /\ LET k == poller[p].key
     IN \/ /\ deliveries' = [deliveries EXCEPT ![k].state = "delivered"]
           /\ tracker' = [tracker EXCEPT ![p].failures[k] = 0, ![p].posted = @ \ {k}]
           /\ Done(p)
           /\ UNCHANGED faults
        \/ Fault /\ Failed(p) /\ UNCHANGED deliveries
  /\ UNCHANGED <<kind, run, handler, acking, inFlightRuns, shown, overtaken, lost>>

-----------------------------------------------------------------------------
(* Crashes and time *)

\* A process dies and comes back: its handlers, pins, poller and tracker are gone.
crash(p) ==
  LET own == {k \in Keys : Owner[k] = p}
      cut == {k \in own \cap Handled : kind[k] = "reply" /\ handler[k] = "post"}
      unacked == {k \in own : kind[k] = "reply" /\ acking[k] > 0 /\ Shown(k)}
      forgotten == {k \in Unverified : Shown(k) /\ k \in tracker[p].posted \cup tracker[p].dead}
  IN /\ Fault
     /\ handler' = [k \in Keys |-> IF k \in own THEN "gone" ELSE handler[k]]
     /\ acking' = [k \in Keys |-> IF k \in own THEN 0 ELSE acking[k]]
     /\ inFlightRuns' = inFlightRuns \ own
     /\ poller' = [poller EXCEPT ![p] = IdlePoller]
     /\ tracker' = [tracker EXCEPT ![p] = NewTracker]
     /\ lost' = lost \cup cut
     /\ overtaken' = overtaken \cup unacked \cup forgotten
     /\ UNCHANGED <<kind, run, deliveries, shown>>

Down(n) == IF n = 0 THEN 0 ELSE n - 1

Tick ==
  /\ \E k \in Keys : deliveries[k].claim + deliveries[k].young > 0
  /\ deliveries' = [k \in Keys |-> [deliveries[k] EXCEPT !.claim = Down(@), !.young = Down(@)]]
  /\ UNCHANGED <<kind, run, handler, acking, inFlightRuns, poller, tracker, shown, overtaken, lost, faults>>

Handler(k) ==
  pollRun(k) \/ postReply(k) \/ postThenAckRunDelivery(k) \/ ackRunDeliveryWithRetry(k)

Poller(p) ==
  \/ \E k \in Keys : deliverWithRetry(p, k)
  \/ verifyFirst(p) \/ post(p) \/ ack(p)

Next ==
  \/ \E k \in Keys : end(k) \/ announce(k) \/ waitFails(k) \/ Handler(k)
  \/ \E p \in Procs : fetchDeliveries(p) \/ Poller(p) \/ crash(p)
  \/ Tick

\* A listener, a handler and a poll that has begun go on; a process polls
\* every minute; time passes.  A run need not end.
Fairness ==
  /\ \A k \in Keys : WF_vars(announce(k)) /\ WF_vars(Handler(k))
  /\ \A p \in Procs : WF_vars(fetchDeliveries(p)) /\ WF_vars(Poller(p))
  /\ WF_vars(Tick)

Spec == Init /\ [][Next]_vars /\ Fairness

-----------------------------------------------------------------------------
(* Properties *)

\* Types; the tracker keeps no count at which it should have given up.
TypeOK ==
  /\ kind \in Kinds
  /\ run \in [Keys -> {"running", "ended", "announced", "missed"}]
  /\ deliveries \in [Keys -> [state : {"none", "pending", "delivered"}, claim : 0..ClaimMs, young : 0..GraceMs]]
  /\ handler \in [Keys -> {"wait", "post", "gone"}]
  /\ acking \in [Keys -> 0..MaxAcks]
  /\ inFlightRuns \subseteq Handled
  /\ poller \in [Procs -> [batch : SUBSET Keys, at : {"idle", "verify", "post", "ack"}, key : Keys \cup {"none"}]]
  /\ tracker \in [Procs -> [failures : [Keys -> 0..(MaxAttempts - 1)], posted : SUBSET Keys, dead : SUBSET Keys]]
  /\ shown \in [Keys -> [keyed : Nat, keyless : Nat]]
  /\ overtaken \subseteq Keys /\ lost \subseteq Keys
  /\ faults \in 0..MaxFaults

\* A message is shown once, whatever is retried, claimed again or acknowledged
\* before its row exists, unless one of these happened: a poller of another
\* process set out after the grace while the handler was still at it; the
\* acknowledgement of the handler's reply failed for good or died with its
\* process; a poll outlived its claim and another took the row up; the row was
\* acknowledged between its claim and the poller's setting out; or, of a message
\* that is posted without being looked for, the answer to its post was lost, the
\* process that remembered its post died, or that process is not the one that
\* took it up again.
PostedOnce == \A k \in Keys : shown[k].keyed + shown[k].keyless > 1 => k \in overtaken

\* The outbox calls nothing delivered that the user cannot see, but a reply
\* that its handler is about to post or failed to: that reply was acknowledged
\* before it was posted, and nothing delivers it any more.
AckedIsShown ==
  \A k \in Keys : deliveries[k].state = "delivered" =>
    Shown(k) \/ (kind[k] = "reply" /\ (handler[k] = "post" \/ k \in lost))

\* Every answer reaches the user ("I'm still on it and will post the result
\* here as soon as it finishes"), although its handler gave up waiting or died,
\* unless the reply's own post failed, the recovery copy could not be written,
\* or a poller gave it up after MaxAttempts.
EveryAnswerArrives ==
  <>[](\A k \in Keys : run[k] # "running" =>
        \/ Shown(k) \/ k \in lost \/ run[k] = "missed"
        \/ \E p \in Procs : k \in tracker[p].dead)
=============================================================================
