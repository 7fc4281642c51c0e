----------------------------- MODULE RunSignals -----------------------------
(***************************************************************************)
(* Signals to a run: a user's message (a steer) or an abort that is to     *)
(* reach the turn in progress, and the net under it: a steer that finds    *)
(* its run over is replayed as a run of its own.                           *)
(*                                                                         *)
(* signalRun() in api/app-turn.ts stores a signal, startSignalPoll() in    *)
(* runs/run-signal-store.ts hands the stored ones to the turn, and         *)
(* replayOrphanedRunSignals() in api/app-helpers.ts, called from           *)
(* signalRun(), the run store's onTerminal hook and a sweeper (wiring.ts), *)
(* replays what is left of a terminal run.  One run is modelled: the       *)
(* stores keep the signals of each run apart.                              *)
(*                                                                         *)
(* A fault is a process that dies, a handler that throws, a replay that    *)
(* throws or is refused, or a run that is taken away from its turn while   *)
(* the turn goes on.                                                       *)
(***************************************************************************)
EXTENDS Integers, Sequences, FiniteSets, SequencesExt

CONSTANTS
  Signals,      \* the signals sent, each by a call of signalRun()
  Steers,       \* the ones that are steers; the others are aborts
  MaxTurns,     \* bound: attempts at the run
  MaxFaults     \* bound: faults

ASSUME SignalsAssumption ==
  /\ Steers \subseteq Signals
  /\ Signals \cap {"hook", "sweeper"} = {}
  /\ MaxTurns \in Nat \ {0}
  /\ MaxFaults \in Nat

Turns == 1..MaxTurns

\* Who calls replayOrphanedRunSignals().
Replayers == Signals \cup {"hook", "sweeper"}

VARIABLES
  terminal,   \* the run has ended
  turn,       \* the newest attempt at the run
  stored,     \* the table of signals, oldest first
  taken,      \* how many rows of it are marked consumed: always the oldest
  call,       \* where each signalRun() is
  poll,       \* the signal poll of each attempt
  replay,     \* where each replay is, and the signals it has taken
  delivered,  \* the signals handed to a turn, in order
  replayed,   \* the steers submitted again: as runs of their own, or to a run after this
  lost,       \* the signals taken and then lost to a fault
  ignored,    \* the aborts that found their run over
  faults      \* faults so far

vars == <<terminal, turn, stored, taken, call, poll, replay, delivered, replayed, lost,
          ignored, faults>>

NoPoll == [up |-> FALSE, accepting |-> FALSE, draining |-> "no", redrain |-> FALSE,
           batch |-> <<>>]

\* draining: "no", "take" before takePending() returns, "handle" after it.
FreshPoll == [NoPoll EXCEPT !.up = TRUE, !.accepting = TRUE]

Init ==
  /\ terminal = FALSE
  /\ turn = 0
  /\ stored = <<>>
  /\ taken = 0
  /\ call = [s \in Signals |-> "new"]
  /\ poll = [t \in Turns |-> NoPoll]
  /\ replay = [p \in Replayers |-> [pc |-> "idle", batch |-> <<>>]]
  /\ delivered = <<>>
  /\ replayed = {}
  /\ lost = {}
  /\ ignored = {}
  /\ faults = 0

\* The rows not consumed yet.
Pending == SubSeq(stored, taken + 1, Len(stored))

\* Mutant of Take: the rows are read and not marked.
TakeReads == UNCHANGED <<stored, taken>>

\* takePending(): one UPDATE ... RETURNING of every row that is left.
Take == taken' = Len(stored) /\ UNCHANGED stored

Fault == faults < MaxFaults /\ faults' = faults + 1

-----------------------------------------------------------------------------
(* signalRun().                                                            *)

\* The run is looked up; a signal to a terminal run is rejected.
check(s) ==
  /\ call[s] = "new"
  /\ call' = [call EXCEPT ![s] = IF terminal THEN "rejected" ELSE "checked"]
  /\ UNCHANGED <<terminal, turn, stored, taken, poll, replay, delivered, replayed, lost,
                 ignored, faults>>

send(s) ==
  /\ call[s] = "checked"
  /\ stored' = Append(stored, s)
  /\ call' = [call EXCEPT ![s] = "sent"]
  /\ UNCHANGED <<taken, terminal, turn, poll, replay, delivered, replayed, lost, ignored, faults>>

\* The run is looked up again; if it is over by now this call replays.
recheck(s) ==
  /\ call[s] = "sent"
  /\ IF terminal
     THEN /\ call' = [call EXCEPT ![s] = "replaying"]
          /\ replay' = [replay EXCEPT ![s].pc = "take"]
     ELSE /\ call' = [call EXCEPT ![s] = "accepted"]
          /\ UNCHANGED replay
  /\ UNCHANGED <<terminal, turn, stored, taken, poll, delivered, replayed, lost, ignored, faults>>

\* The caller of a steer is told that it was replayed.
answer(s) ==
  /\ call[s] = "replaying" /\ replay[s].pc = "done"
  /\ call' = [call EXCEPT ![s] = IF s \in Steers THEN "replayed" ELSE "rejected"]
  /\ UNCHANGED <<terminal, turn, stored, taken, poll, replay, delivered, replayed, lost,
                 ignored, faults>>

-----------------------------------------------------------------------------
(* startSignalPoll().                                                      *)

\* drain(): starts a drain, or notes that one more is wanted.
Drain(p, forced) ==
  IF ~p.accepting /\ ~forced THEN p
  ELSE IF p.draining # "no" THEN [p EXCEPT !.redrain = TRUE]
  ELSE [p EXCEPT !.draining = "take"]

\* The newest attempt has returned or died.
TurnOver == turn > 0 => ~poll[turn].up

\* An attempt begins, after the one before or in its place.
startTurn ==
  /\ ~terminal /\ turn < MaxTurns
  /\ \/ TurnOver /\ UNCHANGED faults
     \/ ~TurnOver /\ Fault
  /\ turn' = turn + 1
  /\ poll' = [poll EXCEPT ![turn + 1] = FreshPoll]
  /\ UNCHANGED <<terminal, stored, taken, call, replay, delivered, replayed, lost, ignored>>

\* A doorbell or the timer.
wake(t) ==
  /\ poll[t].up
  /\ poll' = [poll EXCEPT ![t] = Drain(@, FALSE)]
  /\ UNCHANGED <<terminal, turn, stored, taken, call, replay, delivered, replayed, lost,
                 ignored, faults>>

\* Mutant of takePending: the rows are not put in order.
takePendingUnsorted(t) ==
  /\ poll[t].draining = "take"
  /\ poll' = [poll EXCEPT ![t].draining = "handle", ![t].batch = Reverse(Pending)]
  /\ Take
  /\ UNCHANGED <<terminal, turn, call, replay, delivered, replayed, lost, ignored, faults>>

takePending(t) ==
  /\ poll[t].draining = "take"
  /\ poll' = [poll EXCEPT ![t].draining = "handle", ![t].batch = Pending]
  /\ Take
  /\ UNCHANGED <<terminal, turn, call, replay, delivered, replayed, lost, ignored, faults>>

\* The turn of attempt t is still the run's.
Current(t) == t = turn /\ ~terminal

\* onSteer() or onAbort() of the next signal.  In a turn whose run was taken
\* away it is wasted on a result that will be discarded.
handle(t) ==
  /\ poll[t].draining = "handle" /\ poll[t].batch # <<>>
  /\ LET s == Head(poll[t].batch) IN
       \/ Current(t) /\ delivered' = Append(delivered, s) /\ UNCHANGED lost
       \/ ~Current(t) /\ lost' = lost \cup {s} /\ UNCHANGED delivered
  /\ poll' = [poll EXCEPT ![t].batch = Tail(@)]
  /\ UNCHANGED <<terminal, turn, stored, taken, call, replay, replayed, ignored, faults>>

\* The handler throws: the rest of the batch, already taken, goes with it.
handlerThrows(t) ==
  /\ poll[t].draining = "handle" /\ poll[t].batch # <<>>
  /\ Fault
  /\ lost' = lost \cup ToSet(poll[t].batch)
  /\ poll' = [poll EXCEPT ![t].batch = <<>>]
  /\ UNCHANGED <<terminal, turn, stored, taken, call, replay, delivered, replayed, ignored>>

\* The `finally' of a drain: the one more that was asked for is not forced.
Drained(p) ==
  LET done == [p EXCEPT !.draining = "no", !.redrain = FALSE] IN
  IF p.redrain THEN Drain(done, FALSE) ELSE done

drained(t) ==
  /\ poll[t].draining = "handle" /\ poll[t].batch = <<>>
  /\ poll' = [poll EXCEPT ![t] = Drained(@)]
  /\ UNCHANGED <<terminal, turn, stored, taken, call, replay, delivered, replayed, lost,
                 ignored, faults>>

\* The turn ends and stops its poll; one of the harnesses asks for a last drain.
stopPoll(t) ==
  /\ poll[t].up /\ poll[t].accepting
  /\ \E drainOnStop \in BOOLEAN :
       LET p == [poll[t] EXCEPT !.accepting = FALSE] IN
       poll' = [poll EXCEPT ![t] = IF drainOnStop THEN Drain(p, TRUE) ELSE p]
  /\ UNCHANGED <<terminal, turn, stored, taken, call, replay, delivered, replayed, lost,
                 ignored, faults>>

\* The stop returns when no drain is under way.
stopped(t) ==
  /\ poll[t].up /\ ~poll[t].accepting /\ poll[t].draining = "no"
  /\ poll' = [poll EXCEPT ![t] = NoPoll]
  /\ UNCHANGED <<terminal, turn, stored, taken, call, replay, delivered, replayed, lost,
                 ignored, faults>>

\* The process of a turn dies with what its drain had taken.
crash(t) ==
  /\ poll[t].up
  /\ Fault
  /\ lost' = lost \cup ToSet(poll[t].batch)
  /\ poll' = [poll EXCEPT ![t] = NoPoll]
  /\ UNCHANGED <<terminal, turn, stored, taken, call, replay, delivered, replayed, ignored>>

-----------------------------------------------------------------------------
(* The end of the run, and replayOrphanedRunSignals().                     *)

\* The run ends when its turn is over, by complete() or fail(), and the
\* onTerminal hook is called; if the process dies first the hook never runs.
runEnds ==
  /\ ~terminal /\ TurnOver
  /\ terminal' = TRUE
  /\ \/ replay' = [replay EXCEPT !["hook"].pc = "take"] /\ UNCHANGED faults
     \/ Fault /\ UNCHANGED replay
  /\ UNCHANGED <<turn, stored, taken, call, poll, delivered, replayed, lost, ignored>>

\* The reaper parks the run and its turn goes on.
runParked ==
  /\ ~terminal /\ ~TurnOver
  /\ Fault
  /\ terminal' = TRUE
  /\ replay' = [replay EXCEPT !["hook"].pc = "take"]
  /\ UNCHANGED <<turn, stored, taken, call, poll, delivered, replayed, lost, ignored>>

\* The sweeper lists the runs with stored signals and replays the terminal ones.
sweep ==
  /\ replay["sweeper"].pc \in {"idle", "done"}
  /\ Pending # <<>> /\ terminal
  /\ replay' = [replay EXCEPT !["sweeper"].pc = "take"]
  /\ UNCHANGED <<terminal, turn, stored, taken, call, poll, delivered, replayed, lost,
                 ignored, faults>>

replayTakes(p) ==
  /\ replay[p].pc = "take"
  /\ replay' = [replay EXCEPT ![p] = [pc |-> "replay", batch |-> Pending]]
  /\ Take
  /\ UNCHANGED <<terminal, turn, call, poll, delivered, replayed, lost, ignored, faults>>

\* Mutants of replayNext: an abort ends the loop, or is enqueued like a steer.
replayNextStops(p) ==
  /\ replay[p].pc = "replay" /\ replay[p].batch # <<>>
  /\ LET s == Head(replay[p].batch) IN
       \/ /\ s \notin Steers
          /\ replay' = [replay EXCEPT ![p].batch = <<>>]
          /\ ignored' = ignored \cup {s}
          /\ UNCHANGED replayed
       \/ /\ s \in Steers
          /\ replay' = [replay EXCEPT ![p].batch = Tail(@)]
          /\ replayed' = replayed \cup {s}
          /\ UNCHANGED ignored
  /\ UNCHANGED <<terminal, turn, stored, taken, call, poll, delivered, lost, faults>>

replayNextAll(p) ==
  /\ replay[p].pc = "replay" /\ replay[p].batch # <<>>
  /\ replay' = [replay EXCEPT ![p].batch = Tail(@)]
  /\ replayed' = replayed \cup {Head(replay[p].batch)}
  /\ UNCHANGED <<terminal, turn, stored, taken, call, poll, delivered, lost, ignored, faults>>

\* The next signal: an abort is skipped, a steer submitted again as a turn.  That
\* enqueues a run, or, when the thread has a live run again, stores the steer as
\* a signal of that one, where all of this applies anew.  If it throws,
\* if the turn is refused or dropped or if there is nothing to submit, no one is
\* told and the steer is gone.
replayNext(p) ==
  /\ replay[p].pc = "replay" /\ replay[p].batch # <<>>
  /\ replay' = [replay EXCEPT ![p].batch = Tail(@)]
  /\ LET s == Head(replay[p].batch) IN
       \/ s \notin Steers /\ ignored' = ignored \cup {s} /\ UNCHANGED <<replayed, lost, faults>>
       \/ s \in Steers /\ replayed' = replayed \cup {s} /\ UNCHANGED <<ignored, lost, faults>>
       \/ s \in Steers /\ Fault /\ lost' = lost \cup {s} /\ UNCHANGED <<ignored, replayed>>
  /\ UNCHANGED <<terminal, turn, stored, taken, call, poll, delivered>>

replayDone(p) ==
  /\ replay[p].pc = "replay" /\ replay[p].batch = <<>>
  /\ replay' = [replay EXCEPT ![p].pc = "done"]
  /\ UNCHANGED <<terminal, turn, stored, taken, call, poll, delivered, replayed, lost,
                 ignored, faults>>

\* The replaying process dies with what it had taken.
replayDies(p) ==
  /\ replay[p].pc \in {"take", "replay"}
  /\ Fault
  /\ lost' = lost \cup ToSet(replay[p].batch)
  /\ replay' = [replay EXCEPT ![p] = [pc |-> IF p = "sweeper" THEN "idle" ELSE "dead",
                                      batch |-> <<>>]]
  /\ UNCHANGED <<terminal, turn, stored, taken, call, poll, delivered, replayed, ignored>>

-----------------------------------------------------------------------------
Caller(s) == check(s) \/ send(s) \/ recheck(s) \/ answer(s)

Poller(t) == takePending(t) \/ handle(t) \/ drained(t) \/ stopped(t)

Replay(p) == replayTakes(p) \/ replayNext(p) \/ replayDone(p)

Next ==
  \/ \E s \in Signals : Caller(s)
  \/ startTurn
  \/ \E t \in Turns : wake(t) \/ Poller(t) \/ handlerThrows(t) \/ stopPoll(t) \/ crash(t)
  \/ runEnds \/ runParked
  \/ sweep
  \/ \E p \in Replayers : Replay(p) \/ replayDies(p)

Spec == Init /\ [][Next]_vars

\* The calls, the timers of the poll and of the sweeper, and the turns go on.
LiveSpec ==
  /\ Spec
  /\ \A s \in Signals : WF_vars(send(s) \/ recheck(s) \/ answer(s))
  /\ \A t \in Turns : WF_vars(wake(t)) /\ WF_vars(Poller(t)) /\ WF_vars(stopPoll(t))
  /\ \A p \in Replayers : WF_vars(Replay(p))
  /\ WF_vars(runEnds)
  /\ WF_vars(sweep)

-----------------------------------------------------------------------------
(* Properties.                                                             *)

PollRecord == [up: BOOLEAN, accepting: BOOLEAN, draining: {"no", "take", "handle"},
               redrain: BOOLEAN, batch: Seq(Signals)]

ReplayRecord == [pc: {"idle", "take", "replay", "done", "dead"}, batch: Seq(Signals)]

TypeOK ==
  /\ terminal \in BOOLEAN
  /\ turn \in 0..MaxTurns
  /\ stored \in Seq(Signals) /\ taken \in 0..Len(stored)
  /\ call \in [Signals -> {"new", "checked", "sent", "accepted", "replaying", "replayed",
                           "rejected"}]
  /\ poll \in [Turns -> PollRecord]
  /\ replay \in [Replayers -> ReplayRecord]
  /\ delivered \in Seq(Signals)
  /\ replayed \subseteq Steers
  /\ lost \subseteq Signals
  /\ ignored \subseteq Signals
  /\ faults \in 0..MaxFaults

\* The ways a stored signal can rest.
Rest == [pending |-> ToSet(Pending), delivered |-> ToSet(delivered),
         replayed |-> replayed, lost |-> lost, ignored |-> ignored]

\* The places a signal is in: the batch of a poll or of a replay, or a place of
\* rest.
Places(s) ==
  ({"poll"} \X {t \in Turns : s \in ToSet(poll[t].batch)})
    \cup ({"replay"} \X {p \in Replayers : s \in ToSet(replay[p].batch)})
    \cup ({"rest"} \X {e \in DOMAIN Rest : s \in Rest[e]})

\* Several polls, calls, the hook and the sweeper take signals of one run at any
\* time; every stored signal is in exactly one place all the same.  None is both
\* delivered and replayed, and none falls between the poll and the net.
InOnePlace == \A s \in ToSet(stored) : Cardinality(Places(s)) = 1

\* A turn gets its signals in the order they were stored, across drains, drains
\* that were asked for during a drain, and attempts.
DeliveredInOrder == IsInjective(delivered) /\ \A i, j \in DOMAIN delivered :
  i < j => \E k, l \in DOMAIN stored : k < l /\ stored[k] = delivered[i] /\ stored[l] = delivered[j]

\* Every stored steer ends in a turn or is submitted again, unless whoever had
\* taken it died or threw or the new turn was refused: not even a drain that the
\* end of the turn cuts short, or a run that ends between the look-up and the
\* INSERT, strands one.
EverySteerLands ==
  \A s \in Steers :
    s \in ToSet(stored) ~>
      (s \in ToSet(delivered) \cup replayed \/ (faults > 0 /\ s \in lost))

\* A caller who is told that its steer was replayed can count on a fresh run
\* for it: it did not go to the turn that just ended.
ReplayedIsReplayed ==
  \A s \in Signals : call[s] = "replayed" => s \notin ToSet(delivered)
=============================================================================
