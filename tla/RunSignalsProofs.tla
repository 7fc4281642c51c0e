-------------------------- MODULE RunSignalsProofs --------------------------
(***************************************************************************)
(* Every stored signal is in one place and a turn gets its signals in      *)
(* order, for any signals, attempts and faults.                            *)
(***************************************************************************)
EXTENDS RunSignals, SequenceTheorems, FiniteSetTheorems, TLAPS

USE SignalsAssumption

-----------------------------------------------------------------------------
(* The inductive invariant *)

\* A call stores its signal once.
StoredOnce ==
  /\ \A i, j \in DOMAIN stored : stored[i] = stored[j] => i = j
  /\ \A s \in Signals : call[s] \in {"new", "checked"} => s \notin ToSet(stored)

\* Only a drain or a replay that has taken signals has any.
IdleHoldsNothing ==
  /\ \A t \in Turns : poll[t].draining # "handle" => poll[t].batch = <<>>
  /\ \A t \in Turns : t > turn => poll[t] = NoPoll
  /\ \A p \in Replayers : replay[p].pc # "replay" => replay[p].batch = <<>>
  /\ \A s \in Signals :
       call[s] \in {"new", "checked", "sent"} => replay[s].pc = "idle"
  /\ ~terminal => replay["hook"].pc = "idle"

\* The places of a signal that has been taken, and what is in each.
TakenPlaces ==
  ({"poll"} \X Turns) \cup ({"replay"} \X Replayers)
    \cup ({"rest"} \X {"delivered", "replayed", "lost", "ignored"})

Content(h) ==
  IF h[1] = "poll" THEN ToSet(poll[h[2]].batch)
  ELSE IF h[1] = "replay" THEN ToSet(replay[h[2]].batch)
  ELSE IF h[2] = "delivered" THEN ToSet(delivered)
  ELSE IF h[2] = "replayed" THEN replayed
  ELSE IF h[2] = "lost" THEN lost
  ELSE ignored

\* Together they hold the signals that were taken, each of them once.
TakenOnce ==
  /\ \A h \in TakenPlaces : Content(h) \subseteq {stored[i] : i \in 1..taken}
  /\ \A i \in 1..taken : \E h \in TakenPlaces : stored[i] \in Content(h)
  /\ \A g, h \in TakenPlaces : g # h => Content(g) \cap Content(h) = {}

\* a was stored before b.
Before(a, b) == \E k, l \in DOMAIN stored : k < l /\ stored[k] = a /\ stored[l] = b

Sorted(seq) == \A i, j \in DOMAIN seq : i < j => Before(seq[i], seq[j])

\* What was delivered, and what a drain or a replay still has, is in order, and
\* what was delivered comes before what the turn's drain has.
InOrder ==
  /\ Sorted(delivered)
  /\ \A t \in Turns : Sorted(poll[t].batch)
  /\ \A p \in Replayers : Sorted(replay[p].batch)
  /\ \A t \in Turns : t = turn =>
       \A i \in DOMAIN delivered, j \in DOMAIN poll[t].batch : Before(delivered[i], poll[t].batch[j])

SignalsInv ==
  /\ TypeOK
  /\ StoredOnce
  /\ IdleHoldsNothing
  /\ TakenOnce
  /\ InOrder

-----------------------------------------------------------------------------
(* What the steps of a poll do to its record *)

LEMMA PollRecords ==
  /\ NoPoll \in PollRecord /\ NoPoll.batch = <<>> /\ NoPoll.draining = "no"
  /\ FreshPoll \in PollRecord /\ FreshPoll.batch = <<>> /\ FreshPoll.draining = "no"
<1>1. NoPoll \in PollRecord /\ NoPoll.batch = <<>> /\ NoPoll.draining = "no"
  BY DEF NoPoll, PollRecord
<1>2. FreshPoll \in PollRecord /\ FreshPoll.batch = NoPoll.batch /\ FreshPoll.draining = NoPoll.draining
  BY <1>1 DEF FreshPoll, PollRecord
<1> QED BY <1>1, <1>2

\* drain() leaves the batch of a drain alone.
LEMMA DrainKeeps ==
  ASSUME NEW p \in PollRecord, NEW forced
  PROVE  /\ Drain(p, forced) \in PollRecord
         /\ Drain(p, forced).batch = p.batch
         /\ Drain(p, forced).draining = "handle" <=> p.draining = "handle"
<1>1. CASE ~p.accepting /\ ~forced
  <2>1. Drain(p, forced) = p
    BY <1>1 DEF Drain
  <2> QED BY <2>1
<1>2. CASE ~(~p.accepting /\ ~forced) /\ p.draining # "no"
  <2>1. Drain(p, forced) = [p EXCEPT !.redrain = TRUE]
    BY <1>2 DEF Drain
  <2> QED BY <2>1 DEF PollRecord
<1>3. CASE ~(~p.accepting /\ ~forced) /\ p.draining = "no"
  <2>1. Drain(p, forced) = [p EXCEPT !.draining = "take"]
    BY <1>3 DEF Drain
  <2> QED BY <1>3, <2>1 DEF PollRecord
<1> QED BY <1>1, <1>2, <1>3

LEMMA DrainedKeeps ==
  ASSUME NEW p \in PollRecord
  PROVE  /\ Drained(p) \in PollRecord
         /\ Drained(p).batch = p.batch
         /\ Drained(p).draining # "handle"
<1> DEFINE done == [p EXCEPT !.draining = "no", !.redrain = FALSE]
<1>1. done \in PollRecord /\ done.batch = p.batch /\ done.draining = "no"
  BY DEF PollRecord
<1>2. /\ Drain(done, FALSE) \in PollRecord
      /\ Drain(done, FALSE).batch = done.batch
      /\ Drain(done, FALSE).draining # "handle"
  <2> HIDE DEF done
  <2> QED BY <1>1, DrainKeeps
<1>3. Drained(p) = done \/ Drained(p) = Drain(done, FALSE)
  BY DEF Drained
<1> HIDE DEF done
<1> QED BY <1>1, <1>2, <1>3

-----------------------------------------------------------------------------
(* Types *)

PollTo(t, new) == poll' = [poll EXCEPT ![t] = new]

ReplayTo(p, new) == replay' = [replay EXCEPT ![p] = new]

LEMMA PollMoves ==
  ASSUME TypeOK, NEW t \in Turns, NEW new \in PollRecord, PollTo(t, new)
  PROVE  /\ poll' \in [Turns -> PollRecord]
         /\ poll'[t] = new
         /\ \A u \in Turns \ {t} : poll'[u] = poll[u]
  BY DEF TypeOK, PollTo

LEMMA ReplayMoves ==
  ASSUME TypeOK, NEW p \in Replayers, NEW new \in ReplayRecord, ReplayTo(p, new)
  PROVE  /\ replay' \in [Replayers -> ReplayRecord]
         /\ replay'[p] = new
         /\ \A q \in Replayers \ {p} : replay'[q] = replay[q]
  BY DEF TypeOK, ReplayTo

\* The rows that are left, when all of them are taken.
LEMMA PendingRows ==
  ASSUME TypeOK
  PROVE  /\ Pending \in Seq(Signals)
         /\ Len(stored) \in Nat /\ DOMAIN stored = 1..Len(stored)
         /\ Len(Pending) = Len(stored) - taken
         /\ DOMAIN Pending = 1..(Len(stored) - taken)
         /\ \A i \in DOMAIN Pending : Pending[i] = stored[taken + i]
<1>1. Len(stored) \in Nat /\ DOMAIN stored = 1..Len(stored) /\ taken \in 0..Len(stored)
      /\ stored \in Seq(Signals)
  BY LenProperties DEF TypeOK
<1>2. \A i \in (taken + 1)..Len(stored) : stored[i] \in Signals
  BY <1>1, ElementOfSeq
<1>3. Pending \in Seq(Signals)
  BY <1>1, <1>2, SubSeqProperties DEF Pending
<1>4. Len(Pending) = (IF taken + 1 <= Len(stored) THEN Len(stored) - (taken + 1) + 1 ELSE 0)
  BY <1>1, <1>2, SubSeqProperties DEF Pending
<1>5. \A i \in 1..(Len(stored) - (taken + 1) + 1) : Pending[i] = stored[taken + 1 + i - 1]
  BY <1>1, <1>2, SubSeqProperties DEF Pending
<1>6. Len(Pending) = Len(stored) - taken
  <2>1. \A n \in Nat : \A k \in 0..n : n - k = (IF k + 1 <= n THEN n - (k + 1) + 1 ELSE 0)
    OBVIOUS
  <2> QED BY <1>1, <1>4, <2>1
<1>7. DOMAIN Pending = 1..Len(Pending)
  BY <1>3, LenProperties
<1>8. ASSUME NEW i \in 1..(Len(stored) - taken)
      PROVE  Pending[i] = stored[taken + i]
  <2>1. i \in 1..(Len(stored) - (taken + 1) + 1) /\ taken + 1 + i - 1 = taken + i
    BY <1>1
  <2> QED BY <1>5, <2>1
<1> QED BY <1>1, <1>3, <1>6, <1>7, <1>8

\* A poll that goes on without taking or handing on a signal.
PollGoesOn(t, new) ==
  /\ PollTo(t, new)
  /\ new \in PollRecord
  /\ new.batch = poll[t].batch
  /\ new.draining = "handle" => poll[t].draining = "handle"
  /\ new.draining # "handle" /\ poll[t].draining = "handle" => poll[t].batch = <<>>
  /\ UNCHANGED <<stored, taken, call, replay, delivered, replayed, lost, ignored, terminal>>

LEMMA PollSteps ==
  ASSUME TypeOK, NEW t \in Turns,
         \/ wake(t) \/ stopPoll(t)
         \/ drained(t) \/ (stopped(t) /\ poll[t].batch = <<>>)
  PROVE  UNCHANGED <<turn, faults>> /\ \E new : PollGoesOn(t, new)
<1>1. poll[t] \in PollRecord /\ poll \in [Turns -> PollRecord]
  BY DEF TypeOK
<1>2. CASE wake(t)
  <2>1. /\ PollTo(t, Drain(poll[t], FALSE))
        /\ UNCHANGED <<stored, taken, call, replay, delivered, replayed, lost, ignored, terminal,
                       turn, faults>>
    BY <1>2 DEF wake, PollTo
  <2>2. PollGoesOn(t, Drain(poll[t], FALSE))
    BY <1>1, <2>1, DrainKeeps DEF PollGoesOn
  <2> QED BY <2>1, <2>2
<1>3. CASE stopPoll(t)
  <2> DEFINE p == [poll[t] EXCEPT !.accepting = FALSE]
  <2>1. p \in PollRecord /\ p.batch = poll[t].batch /\ p.draining = poll[t].draining
    BY <1>1 DEF PollRecord
  <2>2. PollTo(t, p) \/ PollTo(t, Drain(p, TRUE))
    BY <1>3 DEF stopPoll, PollTo
  <2>3. UNCHANGED <<stored, taken, call, replay, delivered, replayed, lost, ignored, terminal,
                    turn, faults>>
    BY <1>3 DEF stopPoll
  <2> HIDE DEF p
  <2>4. Drain(p, TRUE) \in PollRecord /\ Drain(p, TRUE).batch = p.batch
        /\ (Drain(p, TRUE).draining = "handle" <=> p.draining = "handle")
    BY <2>1, DrainKeeps
  <2>5. PollGoesOn(t, p) \/ PollGoesOn(t, Drain(p, TRUE))
    BY <2>1, <2>2, <2>3, <2>4 DEF PollGoesOn
  <2> QED BY <2>3, <2>5
<1>4. CASE drained(t)
  <2>1. /\ PollTo(t, Drained(poll[t])) /\ poll[t].batch = <<>>
        /\ UNCHANGED <<stored, taken, call, replay, delivered, replayed, lost, ignored, terminal,
                       turn, faults>>
    BY <1>4 DEF drained, PollTo
  <2>2. PollGoesOn(t, Drained(poll[t]))
    BY <1>1, <2>1, DrainedKeeps DEF PollGoesOn
  <2> QED BY <2>1, <2>2
<1>5. CASE stopped(t) /\ poll[t].batch = <<>>
  <2>1. /\ PollTo(t, NoPoll)
        /\ UNCHANGED <<stored, taken, call, replay, delivered, replayed, lost, ignored, terminal,
                       turn, faults>>
    BY <1>5 DEF stopped, PollTo
  <2>2. PollGoesOn(t, NoPoll)
    BY <1>5, <2>1, PollRecords DEF PollGoesOn
  <2> QED BY <2>1, <2>2
<1> QED BY <1>2, <1>3, <1>4, <1>5

-----------------------------------------------------------------------------
(* What is where *)

LEMMA Contents ==
  /\ \A t \in Turns : /\ <<"poll", t>> \in TakenPlaces
                      /\ Content(<<"poll", t>>) = ToSet(poll[t].batch)
                      /\ Content(<<"poll", t>>)' = ToSet(poll'[t].batch)
  /\ \A p \in Replayers : /\ <<"replay", p>> \in TakenPlaces
                          /\ Content(<<"replay", p>>) = ToSet(replay[p].batch)
                          /\ Content(<<"replay", p>>)' = ToSet(replay'[p].batch)
  /\ /\ <<"rest", "delivered">> \in TakenPlaces
     /\ Content(<<"rest", "delivered">>) = ToSet(delivered)
     /\ Content(<<"rest", "delivered">>)' = ToSet(delivered')
  /\ /\ <<"rest", "replayed">> \in TakenPlaces
     /\ Content(<<"rest", "replayed">>) = replayed
     /\ Content(<<"rest", "replayed">>)' = replayed'
  /\ /\ <<"rest", "lost">> \in TakenPlaces
     /\ Content(<<"rest", "lost">>) = lost
     /\ Content(<<"rest", "lost">>)' = lost'
  /\ /\ <<"rest", "ignored">> \in TakenPlaces
     /\ Content(<<"rest", "ignored">>) = ignored
     /\ Content(<<"rest", "ignored">>)' = ignored'
  BY DEF Content, TakenPlaces

LEMMA PlacesAre ==
  ASSUME NEW h \in TakenPlaces
  PROVE  \/ \E t \in Turns : h = <<"poll", t>>
         \/ \E p \in Replayers : h = <<"replay", p>>
         \/ h \in {<<"rest", "delivered">>, <<"rest", "replayed">>, <<"rest", "lost">>,
                  <<"rest", "ignored">>}
  BY DEF TakenPlaces

\* What the places hold is told by the batches and the places of rest.
LEMMA SameContents ==
  ASSUME NEW h \in TakenPlaces,
         \A t \in Turns : h = <<"poll", t>> => poll'[t].batch = poll[t].batch,
         \A p \in Replayers : h = <<"replay", p>> => replay'[p].batch = replay[p].batch,
         h = <<"rest", "delivered">> => UNCHANGED delivered,
         h = <<"rest", "replayed">> => UNCHANGED replayed,
         h = <<"rest", "lost">> => UNCHANGED lost,
         h = <<"rest", "ignored">> => UNCHANGED ignored
  PROVE  Content(h)' = Content(h)
  BY Contents, PlacesAre

\* Signals go from one place to another.
LEMMA TakenMoves ==
  ASSUME TakenOnce, UNCHANGED <<stored, taken>>,
         NEW from \in TakenPlaces, NEW to \in TakenPlaces, from # to,
         NEW moved, moved \subseteq Content(from),
         Content(from)' = Content(from) \ moved,
         Content(to)' = Content(to) \cup moved,
         \A h \in TakenPlaces \ {from, to} : Content(h)' = Content(h)
  PROVE  TakenOnce'
<1>1. \A h \in TakenPlaces : Content(h)' \subseteq {stored[i] : i \in 1..taken}
  BY DEF TakenOnce
<1>2. \A i \in 1..taken : \E h \in TakenPlaces : stored[i] \in Content(h)'
  BY DEF TakenOnce
<1>3. \A g, h \in TakenPlaces : g # h => Content(g)' \cap Content(h)' = {}
  BY DEF TakenOnce
<1> QED BY <1>1, <1>2, <1>3 DEF TakenOnce

-----------------------------------------------------------------------------
(* Sequences of signals *)

LEMMA HeadAndTail ==
  ASSUME NEW q \in Seq(Signals), q # <<>>
  PROVE  /\ Head(q) = q[1] /\ q[1] \in Signals /\ Tail(q) \in Seq(Signals)
         /\ 1 \in DOMAIN q /\ DOMAIN q \subseteq Nat \ {0}
         /\ \A i \in DOMAIN Tail(q) : i + 1 \in DOMAIN q /\ i + 1 > 1 /\ i \in Nat /\ Tail(q)[i] = q[i + 1]
         /\ \A i \in DOMAIN q : i = 1 \/ (i - 1 \in DOMAIN Tail(q) /\ Tail(q)[i - 1] = q[i])
<1>1. /\ Len(q) \in Nat \ {0} /\ DOMAIN q = 1..Len(q) /\ Tail(q) \in Seq(Signals)
      /\ Len(Tail(q)) = Len(q) - 1 /\ Head(q) = q[1] /\ q[1] \in Signals
  BY EmptySeq, LenProperties, HeadTailProperties, ElementOfSeq
<1>2. DOMAIN Tail(q) = 1..(Len(q) - 1)
  BY <1>1, LenProperties
<1>3. \A i \in 1..(Len(q) - 1) : Tail(q)[i] = q[i + 1]
  BY <1>1, HeadTailProperties
<1> QED BY <1>1, <1>2, <1>3

LEMMA Appended ==
  ASSUME NEW q \in Seq(Signals), NEW e \in Signals
  PROVE  /\ Append(q, e) \in Seq(Signals) /\ Len(Append(q, e)) = Len(q) + 1 /\ Len(q) \in Nat
         /\ DOMAIN q = 1..Len(q) /\ DOMAIN Append(q, e) = 1..(Len(q) + 1)
         /\ \A i \in 1..Len(q) : Append(q, e)[i] = q[i]
         /\ Append(q, e)[Len(q) + 1] = e
         /\ ToSet(Append(q, e)) = ToSet(q) \cup {e}
<1>1. /\ Append(q, e) \in Seq(Signals) /\ Len(Append(q, e)) = Len(q) + 1
      /\ Len(q) \in Nat /\ DOMAIN q = 1..Len(q)
      /\ \A i \in 1..Len(q) : Append(q, e)[i] = q[i]
      /\ Append(q, e)[Len(q) + 1] = e
  BY AppendProperties, LenProperties
<1>2. DOMAIN Append(q, e) = 1..(Len(q) + 1)
  BY <1>1, LenProperties
<1>3. ToSet(Append(q, e)) = ToSet(q) \cup {e}
  <2> DEFINE n == Len(q)
             r == Append(q, e)
  <2>1. n \in Nat /\ DOMAIN q = 1..n /\ DOMAIN r = 1..(n + 1) /\ (\A i \in 1..n : r[i] = q[i]) /\ r[n + 1] = e
    BY <1>1, <1>2
  <2> HIDE DEF n, r
  <2>2. ToSet(r) \subseteq ToSet(q) \cup {e}
    <3> SUFFICES ASSUME NEW i \in 1..(n + 1) PROVE r[i] \in ToSet(q) \cup {e}
      BY <2>1 DEF ToSet
    <3>1. i \in 1..n \/ i = n + 1
      BY <2>1
    <3> QED BY <2>1, <3>1 DEF ToSet
  <2>3. ToSet(q) \cup {e} \subseteq ToSet(r)
    <3>1. \A i \in 1..n : i \in 1..(n + 1)
      BY <2>1
    <3>2. n + 1 \in 1..(n + 1)
      BY <2>1
    <3> QED BY <2>1, <3>1, <3>2 DEF ToSet
  <2> QED BY <2>2, <2>3 DEF r
<1> QED BY <1>1, <1>2, <1>3

\* What is in order is there once.
LEMMA SortedOnce ==
  ASSUME TypeOK, StoredOnce, NEW q \in Seq(Signals), Sorted(q)
  PROVE  \A i, j \in DOMAIN q : q[i] = q[j] => i = j
<1> SUFFICES ASSUME NEW i \in DOMAIN q, NEW j \in DOMAIN q, i < j PROVE q[i] # q[j]
  BY LenProperties
<1>1. PICK k \in DOMAIN stored, l \in DOMAIN stored : k < l /\ stored[k] = q[i] /\ stored[l] = q[j]
  BY DEF Sorted, Before
<1>2. k # l
  BY <1>1, LenProperties DEF TypeOK
<1> QED BY <1>1, <1>2 DEF StoredOnce

\* Taking the first of a batch in order.
LEMMA SortedTail ==
  ASSUME TypeOK, StoredOnce, NEW q \in Seq(Signals), q # <<>>, Sorted(q)
  PROVE  /\ Sorted(Tail(q))
         /\ ToSet(Tail(q)) = ToSet(q) \ {Head(q)} /\ Head(q) \in ToSet(q)
         /\ \A j \in DOMAIN Tail(q) : Before(Head(q), Tail(q)[j])
<1>1. /\ Head(q) = q[1] /\ Tail(q) \in Seq(Signals)
      /\ 1 \in DOMAIN q /\ DOMAIN q \subseteq Nat \ {0}
      /\ \A i \in DOMAIN Tail(q) : i + 1 \in DOMAIN q /\ i + 1 > 1 /\ i \in Nat /\ Tail(q)[i] = q[i + 1]
      /\ \A i \in DOMAIN q : i = 1 \/ (i - 1 \in DOMAIN Tail(q) /\ Tail(q)[i - 1] = q[i])
  BY HeadAndTail
<1>2. \A i, j \in DOMAIN q : q[i] = q[j] => i = j
  BY SortedOnce
<1>3. Sorted(Tail(q))
  <2> SUFFICES ASSUME NEW i \in DOMAIN Tail(q), NEW j \in DOMAIN Tail(q), i < j
               PROVE  Before(Tail(q)[i], Tail(q)[j])
    BY DEF Sorted
  <2>1. i + 1 \in DOMAIN q /\ j + 1 \in DOMAIN q /\ i + 1 < j + 1
    BY <1>1
  <2>2. Before(q[i + 1], q[j + 1])
    BY <2>1 DEF Sorted
  <2> QED BY <1>1, <2>2
<1>4. \A j \in DOMAIN Tail(q) : Before(Head(q), Tail(q)[j])
  BY <1>1 DEF Sorted
<1>5. ToSet(Tail(q)) \subseteq ToSet(q) \ {Head(q)}
  <2> SUFFICES ASSUME NEW i \in DOMAIN Tail(q) PROVE Tail(q)[i] \in ToSet(q) /\ Tail(q)[i] # Head(q)
    BY DEF ToSet
  <2>1. i + 1 \in DOMAIN q /\ i + 1 # 1 /\ Tail(q)[i] = q[i + 1]
    BY <1>1
  <2> QED BY <1>1, <1>2, <2>1 DEF ToSet
<1>6. ToSet(q) \ {Head(q)} \subseteq ToSet(Tail(q))
  <2> SUFFICES ASSUME NEW i \in DOMAIN q, q[i] # q[1] PROVE q[i] \in ToSet(Tail(q))
    BY <1>1 DEF ToSet
  <2>1. i - 1 \in DOMAIN Tail(q) /\ Tail(q)[i - 1] = q[i]
    BY <1>1
  <2> QED BY <2>1 DEF ToSet
<1>7. Head(q) \in ToSet(q)
  BY <1>1 DEF ToSet
<1> QED BY <1>3, <1>4, <1>5, <1>6, <1>7

LEMMA EmptyBatch == Sorted(<<>>) /\ ToSet(<<>>) = {} /\ <<>> \in Seq(Signals) /\ DOMAIN <<>> = {}
  BY DEF Sorted, ToSet

-----------------------------------------------------------------------------
(* Steps *)

\* The calls' part of StoredOnce.
LEMMA SameRows ==
  ASSUME StoredOnce, UNCHANGED stored,
         \A s \in Signals : call'[s] \in {"new", "checked"} => call[s] \in {"new", "checked"}
  PROVE  StoredOnce'
  BY DEF StoredOnce

\* Order is told by what was delivered and by the batches.
LEMMA SameOrder ==
  ASSUME InOrder, UNCHANGED <<stored, delivered>>,
         \A t \in Turns : Sorted(poll'[t].batch),
         \A p \in Replayers : Sorted(replay'[p].batch),
         \A t \in Turns : t = turn' =>
           \A i \in DOMAIN delivered, j \in DOMAIN poll'[t].batch : Before(delivered[i], poll'[t].batch[j])
  PROVE  InOrder'
  BY DEF InOrder, Sorted, Before

\* A step that takes and hands on nothing.
LEMMA QuietStep ==
  ASSUME SignalsInv, UNCHANGED <<stored, taken, delivered, replayed, lost, ignored>>,
         \A t \in Turns : poll'[t].batch = poll[t].batch,
         \A p \in Replayers : replay'[p].batch = replay[p].batch,
         \A t \in Turns : t = turn' => t = turn \/ poll[t].batch = <<>>
  PROVE  TakenOnce' /\ InOrder'
<1>1. \A h \in TakenPlaces : Content(h)' = Content(h)
  BY SameContents
<1>2. TakenOnce'
  BY <1>1 DEF SignalsInv, TakenOnce
<1>3. \A t \in Turns : Sorted(poll'[t].batch)
  BY DEF SignalsInv, InOrder
<1>4. \A p \in Replayers : Sorted(replay'[p].batch)
  BY DEF SignalsInv, InOrder
<1>5. ASSUME NEW t \in Turns, t = turn', NEW i \in DOMAIN delivered, NEW j \in DOMAIN poll'[t].batch
      PROVE  Before(delivered[i], poll'[t].batch[j])
  <2>1. j \in DOMAIN poll[t].batch
    OBVIOUS
  <2>2. t = turn
    BY <1>5, <2>1, EmptyBatch
  <2> QED BY <2>1, <2>2 DEF SignalsInv, InOrder
<1>6. InOrder'
  BY <1>3, <1>4, <1>5, SameOrder DEF SignalsInv
<1> QED BY <1>2, <1>6

\* takePending(), by a poll or a replay that had nothing.
LEMMA TakeStep ==
  ASSUME SignalsInv, Take, UNCHANGED <<turn, delivered, replayed, lost, ignored>>,
         NEW h \in TakenPlaces, Content(h) = {}, Content(h)' = ToSet(Pending),
         \A g \in TakenPlaces \ {h} : Content(g)' = Content(g),
         \A t \in Turns : poll'[t].batch \in {poll[t].batch, Pending},
         \A p \in Replayers : replay'[p].batch \in {replay[p].batch, Pending}
  PROVE  TakenOnce' /\ InOrder'
<1>1. TypeOK /\ StoredOnce /\ TakenOnce /\ InOrder
  BY DEF SignalsInv
<1>2. /\ Pending \in Seq(Signals)
      /\ Len(stored) \in Nat /\ DOMAIN stored = 1..Len(stored) /\ taken \in 0..Len(stored)
      /\ DOMAIN Pending = 1..(Len(stored) - taken)
      /\ \A i \in DOMAIN Pending : Pending[i] = stored[taken + i]
  BY <1>1, PendingRows DEF TypeOK
<1>3. taken' = Len(stored) /\ stored' = stored
  BY DEF Take
<1> HIDE DEF Pending
<1>4. \A x : x \in ToSet(Pending) <=> \E i \in (taken + 1)..Len(stored) : x = stored[i]
  <2>1. ASSUME NEW i \in DOMAIN Pending
        PROVE  \E k \in (taken + 1)..Len(stored) : Pending[i] = stored[k]
    <3>1. taken + i \in (taken + 1)..Len(stored) /\ Pending[i] = stored[taken + i]
      BY <1>2
    <3> QED BY <3>1
  <2>2. ASSUME NEW k \in (taken + 1)..Len(stored)
        PROVE  \E i \in DOMAIN Pending : Pending[i] = stored[k]
    <3>1. k - taken \in DOMAIN Pending /\ taken + (k - taken) = k
      BY <1>2
    <3> QED BY <1>2, <3>1
  <2> QED BY <2>1, <2>2 DEF ToSet
<1>5. TakenOnce'
  <2>1. \A i \in 1..Len(stored) : i \in 1..taken \/ i \in (taken + 1)..Len(stored)
    BY <1>2
  <2>2. \A i \in 1..taken : i \in 1..Len(stored)
    BY <1>2
  <2>3. \A i \in (taken + 1)..Len(stored) : i \in 1..Len(stored) /\ i \notin 1..taken
    BY <1>2
  <2>4. \A g \in TakenPlaces : Content(g)' \subseteq {stored[i] : i \in 1..Len(stored)}
    BY <1>1, <1>4, <2>2, <2>3 DEF TakenOnce
  <2>5. ASSUME NEW i \in 1..Len(stored) PROVE \E g \in TakenPlaces : stored[i] \in Content(g)'
    <3>1. CASE i \in 1..taken
      BY <1>1, <3>1 DEF TakenOnce
    <3>2. CASE i \in (taken + 1)..Len(stored)
      BY <1>4, <3>2
    <3> QED BY <2>1, <3>1, <3>2
  <2>6. \A g \in TakenPlaces \ {h} : Content(g)' \cap Content(h)' = {}
    <3> SUFFICES ASSUME NEW g \in TakenPlaces \ {h}, NEW x \in Content(g), x \in ToSet(Pending)
                 PROVE  FALSE
      OBVIOUS
    <3>1. PICK i \in 1..taken : x = stored[i]
      BY <1>1 DEF TakenOnce
    <3>2. PICK k \in (taken + 1)..Len(stored) : x = stored[k]
      BY <1>4
    <3> QED BY <1>1, <1>2, <2>2, <2>3, <3>1, <3>2 DEF StoredOnce
  <2>7. \A f, g \in TakenPlaces : f # g => Content(f)' \cap Content(g)' = {}
    BY <1>1, <2>6 DEF TakenOnce
  <2> QED BY <1>3, <2>4, <2>5, <2>7 DEF TakenOnce
<1>6. Sorted(Pending)
  <2> SUFFICES ASSUME NEW i \in DOMAIN Pending, NEW j \in DOMAIN Pending, i < j
               PROVE  Before(Pending[i], Pending[j])
    BY DEF Sorted
  <2>1. taken + i \in DOMAIN stored /\ taken + j \in DOMAIN stored /\ taken + i < taken + j
    BY <1>2
  <2> QED BY <1>2, <2>1 DEF Before
<1>7. ASSUME NEW i \in DOMAIN delivered, NEW j \in DOMAIN Pending
      PROVE  Before(delivered[i], Pending[j])
  <2>1. delivered[i] \in Content(<<"rest", "delivered">>) /\ <<"rest", "delivered">> \in TakenPlaces
    BY Contents DEF ToSet
  <2>2. PICK k \in 1..taken : delivered[i] = stored[k]
    BY <1>1, <2>1 DEF TakenOnce
  <2>3. k \in DOMAIN stored /\ taken + j \in DOMAIN stored /\ k < taken + j
    BY <1>2
  <2> QED BY <1>2, <2>2, <2>3 DEF Before
<1>8. \A t \in Turns : Sorted(poll'[t].batch)
  BY <1>1, <1>6 DEF InOrder
<1>9. \A p \in Replayers : Sorted(replay'[p].batch)
  BY <1>1, <1>6 DEF InOrder
<1>10. \A t \in Turns : t = turn' =>
         \A i \in DOMAIN delivered, j \in DOMAIN poll'[t].batch : Before(delivered[i], poll'[t].batch[j])
  BY <1>1, <1>7 DEF InOrder
<1>11. InOrder'
  BY <1>1, <1>3, <1>8, <1>9, <1>10, SameOrder
<1> QED BY <1>5, <1>11

\* A batch is left alone, loses its first signal or all of them.
Shorter(new, old) == new = old \/ new = <<>> \/ (old # <<>> /\ new = Tail(old))

LEMMA ShorterOrder ==
  ASSUME SignalsInv, UNCHANGED <<stored, turn, delivered>>,
         \A t \in Turns : Shorter(poll'[t].batch, poll[t].batch),
         \A p \in Replayers : Shorter(replay'[p].batch, replay[p].batch)
  PROVE  InOrder'
<1>1. TypeOK /\ StoredOnce /\ InOrder
  BY DEF SignalsInv
<1>2. ASSUME NEW old \in Seq(Signals), NEW new, Shorter(new, old), Sorted(old)
      PROVE  Sorted(new)
  BY <1>1, <1>2, SortedTail, EmptyBatch DEF Shorter
<1>3. \A t \in Turns : poll[t].batch \in Seq(Signals)
  BY <1>1 DEF TypeOK, PollRecord
<1>4. \A p \in Replayers : replay[p].batch \in Seq(Signals)
  BY <1>1 DEF TypeOK, ReplayRecord
<1>5. \A t \in Turns : Sorted(poll'[t].batch)
  BY <1>1, <1>2, <1>3 DEF InOrder
<1>6. \A p \in Replayers : Sorted(replay'[p].batch)
  BY <1>1, <1>2, <1>4 DEF InOrder
<1>7. ASSUME NEW t \in Turns, t = turn', NEW i \in DOMAIN delivered, NEW j \in DOMAIN poll'[t].batch
      PROVE  Before(delivered[i], poll'[t].batch[j])
  <2>1. \A k \in DOMAIN poll[t].batch : Before(delivered[i], poll[t].batch[k])
    BY <1>1, <1>7 DEF InOrder
  <2>2. CASE poll'[t].batch = poll[t].batch
    BY <2>1, <2>2
  <2>3. CASE poll'[t].batch = <<>>
    BY <2>3, EmptyBatch
  <2>4. CASE poll[t].batch # <<>> /\ poll'[t].batch = Tail(poll[t].batch)
    <3>1. j + 1 \in DOMAIN poll[t].batch /\ Tail(poll[t].batch)[j] = poll[t].batch[j + 1]
      BY <1>3, <2>4, HeadAndTail
    <3> QED BY <2>1, <2>4, <3>1
  <2> QED BY <2>2, <2>3, <2>4 DEF Shorter
<1> QED BY <1>1, <1>5, <1>6, <1>7, SameOrder

ReplayGoes(p, pc) == replay' = [replay EXCEPT ![p].pc = pc]

\* A replay that goes on and takes or hands on nothing.
LEMMA ReplayGoesOn ==
  ASSUME TypeOK, NEW p \in Replayers, NEW pc \in {"idle", "take", "replay", "done", "dead"},
         ReplayGoes(p, pc)
  PROVE  /\ replay' \in [Replayers -> ReplayRecord]
         /\ \A q \in Replayers : /\ replay'[q].batch = replay[q].batch
                                 /\ replay'[q].pc = (IF q = p THEN pc ELSE replay[q].pc)
<1> DEFINE new == [replay[p] EXCEPT !.pc = pc]
<1>1. replay[p] \in ReplayRecord
  BY DEF TypeOK
<1>2. new \in ReplayRecord /\ new.batch = replay[p].batch /\ new.pc = pc
  BY <1>1 DEF ReplayRecord
<1>3. ReplayTo(p, new)
  BY DEF ReplayGoes, ReplayTo
<1> HIDE DEF new
<1> QED BY <1>2, <1>3, ReplayMoves

\* The steps of a call.
LEMMA CallerStep ==
  ASSUME SignalsInv, NEW s \in Signals, Caller(s)
  PROVE  SignalsInv'
<1>1. TypeOK /\ StoredOnce /\ IdleHoldsNothing /\ TakenOnce /\ InOrder
      /\ s \in Replayers /\ s # "hook" /\ s # "sweeper"
  BY DEF SignalsInv, Replayers
<1>2. CASE check(s) \/ answer(s)
  <2>1. /\ UNCHANGED <<terminal, turn, stored, taken, poll, replay, delivered, replayed, lost, ignored, faults>>
        /\ call' \in [Signals -> {"new", "checked", "sent", "accepted", "replaying", "replayed",
                                  "rejected"}]
        /\ \A r \in Signals : call'[r] \in {"new", "checked", "sent"} =>
             call[r] \in {"new", "checked", "sent"} /\ (call'[r] \in {"new", "checked"} => call[r] \in {"new", "checked"})
    BY <1>1, <1>2 DEF check, answer, TypeOK
  <2>2. TypeOK'
    BY <1>1, <2>1 DEF TypeOK
  <2>3. StoredOnce'
    BY <1>1, <2>1, SameRows
  <2>4. IdleHoldsNothing'
    BY <1>1, <2>1 DEF IdleHoldsNothing
  <2>5. TakenOnce' /\ InOrder'
    BY <2>1, QuietStep
  <2> QED BY <2>2, <2>3, <2>4, <2>5 DEF SignalsInv
<1>3. CASE recheck(s)
  <2>1. /\ UNCHANGED <<terminal, turn, stored, taken, poll, delivered, replayed, lost, ignored, faults>>
        /\ call[s] = "sent"
        /\ call' \in [Signals -> {"new", "checked", "sent", "accepted", "replaying", "replayed",
                                  "rejected"}]
        /\ \A r \in Signals : r # s => call'[r] = call[r]
        /\ call'[s] \in {"replaying", "accepted"}
    BY <1>1, <1>3 DEF recheck, TypeOK
  <2>2. /\ replay' \in [Replayers -> ReplayRecord]
        /\ \A p \in Replayers : /\ replay'[p].batch = replay[p].batch
                                /\ replay'[p].pc = replay[p].pc \/ (p = s /\ replay'[p].pc = "take")
    <3>1. ReplayGoes(s, "take") \/ UNCHANGED replay
      BY <1>3 DEF recheck, ReplayGoes
    <3>2. CASE UNCHANGED replay
      BY <1>1, <3>2 DEF TypeOK
    <3>3. CASE ReplayGoes(s, "take")
      BY <1>1, <3>3, ReplayGoesOn
    <3> QED BY <3>1, <3>2, <3>3
  <2>3. TypeOK'
    BY <1>1, <2>1, <2>2 DEF TypeOK
  <2>4. StoredOnce'
    BY <1>1, <2>1, SameRows
  <2>5. replay[s].pc # "replay" /\ replay[s].batch = <<>>
    BY <1>1, <2>1 DEF IdleHoldsNothing
  <2>6. IdleHoldsNothing'
    BY <1>1, <2>1, <2>2, <2>5 DEF IdleHoldsNothing, Replayers
  <2>7. TakenOnce' /\ InOrder'
    BY <2>1, <2>2, QuietStep
  <2> QED BY <2>3, <2>4, <2>6, <2>7 DEF SignalsInv
<1>4. CASE send(s)
  <2>1. /\ UNCHANGED <<terminal, turn, taken, poll, replay, delivered, replayed, lost, ignored, faults>>
        /\ stored' = Append(stored, s) /\ call[s] = "checked"
        /\ call' \in [Signals -> {"new", "checked", "sent", "accepted", "replaying", "replayed",
                                  "rejected"}]
        /\ \A r \in Signals : r # s => call'[r] = call[r]
        /\ call'[s] = "sent"
    BY <1>1, <1>4 DEF send, TypeOK
  <2>2. /\ stored' \in Seq(Signals) /\ Len(stored') = Len(stored) + 1 /\ Len(stored) \in Nat
        /\ DOMAIN stored = 1..Len(stored) /\ DOMAIN stored' = 1..(Len(stored) + 1)
        /\ \A i \in 1..Len(stored) : stored'[i] = stored[i]
        /\ stored'[Len(stored) + 1] = s
        /\ ToSet(stored') = ToSet(stored) \cup {s}
        /\ taken \in 0..Len(stored)
    BY <1>1, <2>1, Appended DEF TypeOK
  <2>3. taken' \in 0..Len(stored')
    BY <2>1, <2>2
  <2>4. TypeOK'
    BY <1>1, <2>1, <2>2, <2>3 DEF TypeOK
  <2>5. s \notin ToSet(stored)
    BY <1>1, <2>1 DEF StoredOnce
  <2>6. \A i, j \in DOMAIN stored' : stored'[i] = stored'[j] => i = j
    <3>1. \A i \in DOMAIN stored' : (i \in DOMAIN stored /\ stored'[i] = stored[i] /\ stored[i] # s)
                                  \/ (i = Len(stored) + 1 /\ stored'[i] = s)
      <4>1. \A i \in 1..(Len(stored) + 1) : i \in 1..Len(stored) \/ i = Len(stored) + 1
        BY <2>2
      <4> QED BY <2>2, <2>5, <4>1 DEF ToSet
    <3> QED BY <1>1, <3>1 DEF StoredOnce
  <2>7. StoredOnce'
    BY <1>1, <2>1, <2>2, <2>6 DEF StoredOnce
  <2>8. IdleHoldsNothing'
    BY <1>1, <2>1 DEF IdleHoldsNothing
  <2>9. \A i \in 1..taken : i \in 1..Len(stored) /\ stored'[i] = stored[i]
    <3>1. \A i \in 1..taken : i \in 1..Len(stored)
      BY <2>2
    <3> QED BY <2>2, <3>1
  <2>10. \A h \in TakenPlaces : Content(h)' = Content(h)
    BY <2>1, SameContents
  <2>11. TakenOnce'
    BY <1>1, <2>1, <2>9, <2>10 DEF TakenOnce
  <2>12. \A a, b : Before(a, b) => Before(a, b)'
    <3>1. \A i \in DOMAIN stored : i \in DOMAIN stored' /\ stored'[i] = stored[i]
      BY <2>2
    <3> QED BY <3>1 DEF Before
  <2>13. InOrder'
    BY <1>1, <2>1, <2>12 DEF InOrder, Sorted
  <2> QED BY <2>4, <2>7, <2>8, <2>11, <2>13 DEF SignalsInv
<1> QED BY <1>2, <1>3, <1>4 DEF Caller

\* An attempt begins.
LEMMA StartStep ==
  ASSUME SignalsInv, startTurn
  PROVE  SignalsInv'
<1>1. TypeOK /\ StoredOnce /\ IdleHoldsNothing
  BY DEF SignalsInv
<1>2. /\ UNCHANGED <<terminal, stored, taken, call, replay, delivered, replayed, lost, ignored>>
      /\ turn' = turn + 1 /\ turn + 1 \in Turns /\ turn' \in 0..MaxTurns /\ turn \in Nat
      /\ faults' \in 0..MaxFaults
  BY <1>1 DEF startTurn, TypeOK, Turns, Fault
<1>3. PollTo(turn + 1, FreshPoll)
  BY DEF startTurn, PollTo
<1>4. /\ poll' \in [Turns -> PollRecord] /\ poll'[turn + 1] = FreshPoll
      /\ \A u \in Turns \ {turn + 1} : poll'[u] = poll[u]
  BY <1>1, <1>2, <1>3, PollMoves, PollRecords
<1>5. poll[turn + 1] = NoPoll
  BY <1>1, <1>2 DEF IdleHoldsNothing
<1>6. \A t \in Turns : t \in Nat
  BY DEF Turns
<1>7. TypeOK'
  BY <1>1, <1>2, <1>4 DEF TypeOK
<1>8. StoredOnce'
  BY <1>1, <1>2, SameRows
<1>9. IdleHoldsNothing'
  <2>1. \A t \in Turns : t > turn' => t > turn /\ t # turn + 1
    BY <1>2, <1>6
  <2> QED BY <1>1, <1>2, <1>4, <2>1, PollRecords DEF IdleHoldsNothing
<1>10. \A t \in Turns : poll'[t].batch = poll[t].batch
  BY <1>4, <1>5, PollRecords
<1>11. TakenOnce' /\ InOrder'
  BY <1>2, <1>5, <1>10, QuietStep, PollRecords
<1> QED BY <1>7, <1>8, <1>9, <1>11 DEF SignalsInv

\* The steps of a poll that take and hand on nothing.
LEMMA PollStep ==
  ASSUME SignalsInv, NEW t \in Turns, wake(t) \/ stopPoll(t) \/ drained(t) \/ stopped(t)
  PROVE  SignalsInv'
<1>1. TypeOK /\ StoredOnce /\ IdleHoldsNothing
  BY DEF SignalsInv
<1>2. ~(t > turn)
  <2>1. NoPoll.up = FALSE /\ NoPoll.draining = "no"
    BY DEF NoPoll
  <2>2. t > turn => poll[t].up = FALSE /\ poll[t].draining = "no"
    BY <1>1, <2>1 DEF IdleHoldsNothing
  <2> QED BY <2>2 DEF wake, stopPoll, drained, stopped
<1>3. stopped(t) => poll[t].batch = <<>>
  BY <1>1 DEF IdleHoldsNothing, stopped
<1>4. PICK new : PollGoesOn(t, new) /\ UNCHANGED <<turn, faults>>
  BY <1>1, <1>3, PollSteps
<1>5. /\ new \in PollRecord /\ new.batch = poll[t].batch
      /\ new.draining = "handle" => poll[t].draining = "handle"
      /\ new.draining # "handle" /\ poll[t].draining = "handle" => poll[t].batch = <<>>
      /\ PollTo(t, new)
      /\ UNCHANGED <<stored, taken, call, replay, delivered, replayed, lost, ignored, terminal, turn, faults>>
  BY <1>4 DEF PollGoesOn
<1>6. /\ poll' \in [Turns -> PollRecord] /\ poll'[t] = new
      /\ \A u \in Turns \ {t} : poll'[u] = poll[u]
  BY <1>1, <1>5, PollMoves
<1>7. TypeOK'
  BY <1>1, <1>5, <1>6 DEF TypeOK
<1>8. StoredOnce'
  BY <1>1, <1>5, SameRows
<1>9. IdleHoldsNothing'
  BY <1>1, <1>2, <1>5, <1>6 DEF IdleHoldsNothing
<1>10. \A u \in Turns : poll'[u].batch = poll[u].batch
  BY <1>5, <1>6
<1>11. TakenOnce' /\ InOrder'
  BY <1>5, <1>10, QuietStep
<1> QED BY <1>7, <1>8, <1>9, <1>11 DEF SignalsInv

\* A drain takes the signals there are.
LEMMA TakePendingStep ==
  ASSUME SignalsInv, NEW t \in Turns, takePending(t)
  PROVE  SignalsInv'
<1>1. TypeOK /\ StoredOnce /\ IdleHoldsNothing
  BY DEF SignalsInv
<1> DEFINE new == [poll[t] EXCEPT !.draining = "handle", !.batch = Pending]
<1>2. /\ UNCHANGED <<terminal, turn, call, replay, delivered, replayed, lost, ignored, faults>>
      /\ Take /\ poll[t].draining = "take" /\ PollTo(t, new)
  BY DEF takePending, PollTo
<1>3. poll[t] \in PollRecord /\ Pending \in Seq(Signals) /\ Len(stored) \in Nat
  BY <1>1, PendingRows DEF TypeOK
<1> HIDE DEF Pending
<1>4. new \in PollRecord /\ new.batch = Pending /\ new.draining = "handle"
  BY <1>3 DEF PollRecord
<1> HIDE DEF new
<1>5. /\ poll' \in [Turns -> PollRecord] /\ poll'[t] = new
      /\ \A u \in Turns \ {t} : poll'[u] = poll[u]
  BY <1>1, <1>2, <1>4, PollMoves
<1>6. poll[t].batch = <<>> /\ ~(t > turn)
  BY <1>1, <1>2 DEF IdleHoldsNothing, NoPoll
<1>7. stored' = stored /\ taken' = Len(stored)
  BY <1>2 DEF Take
<1>8. taken' \in 0..Len(stored')
  BY <1>3, <1>7
<1>9. TypeOK'
  BY <1>1, <1>2, <1>5, <1>7, <1>8 DEF TypeOK
<1>10. StoredOnce'
  BY <1>1, <1>2, <1>7, SameRows
<1>11. IdleHoldsNothing'
  BY <1>1, <1>2, <1>4, <1>5, <1>6 DEF IdleHoldsNothing
<1>12. /\ <<"poll", t>> \in TakenPlaces /\ Content(<<"poll", t>>) = {}
       /\ Content(<<"poll", t>>)' = ToSet(Pending)
  BY <1>4, <1>5, <1>6, Contents, EmptyBatch
<1>13. ASSUME NEW g \in TakenPlaces \ {<<"poll", t>>} PROVE Content(g)' = Content(g)
  BY <1>2, <1>5, SameContents
<1>14. \A u \in Turns : poll'[u].batch \in {poll[u].batch, Pending}
  BY <1>4, <1>5
<1>15. TakenOnce' /\ InOrder'
  BY <1>2, <1>12, <1>13, <1>14, TakeStep
<1> QED BY <1>9, <1>10, <1>11, <1>15 DEF SignalsInv

BatchTo(t, batch) == poll' = [poll EXCEPT ![t].batch = batch]

LEMMA BatchMoves ==
  ASSUME TypeOK, NEW t \in Turns, NEW batch \in Seq(Signals), BatchTo(t, batch)
  PROVE  /\ poll' \in [Turns -> PollRecord]
         /\ poll'[t].batch = batch /\ poll'[t].draining = poll[t].draining
         /\ \A u \in Turns \ {t} : poll'[u] = poll[u]
<1> DEFINE new == [poll[t] EXCEPT !.batch = batch]
<1>1. poll[t] \in PollRecord
  BY DEF TypeOK
<1>2. new \in PollRecord /\ new.batch = batch /\ new.draining = poll[t].draining
  BY <1>1 DEF PollRecord
<1>3. PollTo(t, new)
  BY DEF BatchTo, PollTo
<1> HIDE DEF new
<1> QED BY <1>2, <1>3, PollMoves

\* Signals of a drain are lost.
LEMMA LoseStep ==
  ASSUME SignalsInv, NEW t \in Turns,
         UNCHANGED <<terminal, turn, stored, taken, call, replay, delivered, replayed, ignored>>,
         faults' \in 0..MaxFaults,
         NEW gone, gone \subseteq ToSet(poll[t].batch), lost' = lost \cup gone,
         poll' \in [Turns -> PollRecord],
         \A u \in Turns \ {t} : poll'[u] = poll[u],
         Shorter(poll'[t].batch, poll[t].batch),
         ToSet(poll'[t].batch) = ToSet(poll[t].batch) \ gone,
         poll'[t] = NoPoll \/ (poll[t].draining = "handle" /\ poll'[t].draining = "handle")
  PROVE  SignalsInv'
<1>1. TypeOK /\ StoredOnce /\ IdleHoldsNothing /\ TakenOnce
  BY DEF SignalsInv
<1>2. poll[t].batch \in Seq(Signals)
  BY <1>1 DEF TypeOK, PollRecord
<1>3. gone \subseteq Signals
  BY <1>2, LenProperties, ElementOfSeq DEF ToSet
<1>4. TypeOK'
  BY <1>1, <1>3 DEF TypeOK
<1>5. StoredOnce'
  BY <1>1, SameRows
<1>6. t > turn => poll[t].draining = "no"
  BY <1>1, PollRecords DEF IdleHoldsNothing
<1>7. IdleHoldsNothing'
  BY <1>1, <1>6, PollRecords DEF IdleHoldsNothing
<1>8. /\ <<"poll", t>> \in TakenPlaces /\ <<"rest", "lost">> \in TakenPlaces
      /\ gone \subseteq Content(<<"poll", t>>)
      /\ Content(<<"poll", t>>)' = Content(<<"poll", t>>) \ gone
      /\ Content(<<"rest", "lost">>)' = Content(<<"rest", "lost">>) \cup gone
  BY Contents
<1>9. <<"poll", t>> # <<"rest", "lost">>
  OBVIOUS
<1>10. ASSUME NEW h \in TakenPlaces \ {<<"poll", t>>, <<"rest", "lost">>} PROVE Content(h)' = Content(h)
  BY SameContents
<1>11. TakenOnce'
  BY <1>1, <1>8, <1>9, <1>10, TakenMoves
<1>12. InOrder'
  <2>1. \A u \in Turns : Shorter(poll'[u].batch, poll[u].batch)
    BY DEF Shorter
  <2>2. \A p \in Replayers : Shorter(replay'[p].batch, replay[p].batch)
    BY DEF Shorter
  <2> QED BY <2>1, <2>2, ShorterOrder
<1> QED BY <1>4, <1>5, <1>7, <1>11, <1>12 DEF SignalsInv

\* A drain hands on its next signal, or loses what it has.
LEMMA HandleStep ==
  ASSUME SignalsInv, NEW t \in Turns, handle(t) \/ handlerThrows(t) \/ crash(t)
  PROVE  SignalsInv'
<1>1. TypeOK /\ StoredOnce /\ IdleHoldsNothing /\ TakenOnce /\ InOrder
      /\ faults \in 0..MaxFaults
  BY DEF SignalsInv, TypeOK
<1> DEFINE batch == poll[t].batch
<1>2. batch \in Seq(Signals) /\ Sorted(batch) /\ ToSet(batch) \ ToSet(batch) = ToSet(<<>>)
  BY <1>1, EmptyBatch DEF TypeOK, PollRecord, InOrder
<1>3. batch # <<>> => /\ Head(batch) \in Signals /\ Tail(batch) \in Seq(Signals)
                      /\ Sorted(Tail(batch))
                      /\ ToSet(Tail(batch)) = ToSet(batch) \ {Head(batch)} /\ Head(batch) \in ToSet(batch)
                      /\ \A j \in DOMAIN Tail(batch) : Before(Head(batch), Tail(batch)[j])
  BY <1>1, <1>2, SortedTail, HeadAndTail
<1>4. CASE crash(t)
  <2>1. /\ UNCHANGED <<terminal, turn, stored, taken, call, replay, delivered, replayed, ignored>>
        /\ faults' \in 0..MaxFaults /\ lost' = lost \cup ToSet(batch) /\ PollTo(t, NoPoll)
    BY <1>1, <1>4 DEF crash, Fault, PollTo
  <2>2. /\ poll' \in [Turns -> PollRecord] /\ poll'[t] = NoPoll
        /\ \A u \in Turns \ {t} : poll'[u] = poll[u]
    BY <1>1, <2>1, PollMoves, PollRecords
  <2>3. Shorter(poll'[t].batch, batch) /\ ToSet(poll'[t].batch) = ToSet(batch) \ ToSet(batch)
    BY <1>2, <2>2, PollRecords DEF Shorter
  <2> QED BY <2>1, <2>2, <2>3, LoseStep
<1>5. CASE handlerThrows(t)
  <2>1. /\ UNCHANGED <<terminal, turn, stored, taken, call, replay, delivered, replayed, ignored>>
        /\ faults' \in 0..MaxFaults /\ lost' = lost \cup ToSet(batch)
        /\ BatchTo(t, <<>>) /\ poll[t].draining = "handle"
    BY <1>1, <1>5 DEF handlerThrows, Fault, BatchTo
  <2>2. /\ poll' \in [Turns -> PollRecord] /\ poll'[t].batch = <<>> /\ poll'[t].draining = "handle"
        /\ \A u \in Turns \ {t} : poll'[u] = poll[u]
    BY <1>1, <2>1, BatchMoves, EmptyBatch
  <2>3. Shorter(poll'[t].batch, batch) /\ ToSet(poll'[t].batch) = ToSet(batch) \ ToSet(batch)
    BY <1>2, <2>2 DEF Shorter
  <2> QED BY <2>1, <2>2, <2>3, LoseStep
<1>6. CASE handle(t)
  <2>1. /\ UNCHANGED <<terminal, turn, stored, taken, call, replay, replayed, ignored, faults>>
        /\ BatchTo(t, Tail(batch)) /\ poll[t].draining = "handle" /\ batch # <<>>
    BY <1>6 DEF handle, BatchTo
  <2>2. /\ poll' \in [Turns -> PollRecord] /\ poll'[t].batch = Tail(batch) /\ poll'[t].draining = "handle"
        /\ \A u \in Turns \ {t} : poll'[u] = poll[u]
    BY <1>1, <1>3, <2>1, BatchMoves
  <2>3. CASE lost' = lost \cup {Head(batch)} /\ UNCHANGED delivered
    <3>1. Shorter(poll'[t].batch, batch) /\ ToSet(poll'[t].batch) = ToSet(batch) \ {Head(batch)}
          /\ {Head(batch)} \subseteq ToSet(batch)
      BY <1>3, <2>1, <2>2 DEF Shorter
    <3>2. faults' \in 0..MaxFaults
      BY <1>1, <2>1
    <3> QED BY <2>1, <2>2, <2>3, <3>1, <3>2, LoseStep
  <2>4. CASE Current(t) /\ delivered' = Append(delivered, Head(batch)) /\ UNCHANGED lost
    <3>1. t = turn /\ delivered \in Seq(Signals)
      BY <1>1, <2>4 DEF Current, TypeOK
    <3>2. /\ delivered' \in Seq(Signals) /\ Len(delivered) \in Nat
          /\ DOMAIN delivered = 1..Len(delivered) /\ DOMAIN delivered' = 1..(Len(delivered) + 1)
          /\ \A i \in 1..Len(delivered) : delivered'[i] = delivered[i]
          /\ delivered'[Len(delivered) + 1] = Head(batch)
          /\ ToSet(delivered') = ToSet(delivered) \cup {Head(batch)}
      BY <1>3, <2>1, <2>4, <3>1, Appended
    <3>3. TypeOK'
      BY <1>1, <2>1, <2>2, <2>4, <3>2 DEF TypeOK
    <3>4. StoredOnce'
      BY <1>1, <2>1, SameRows
    <3>5. t > turn => poll[t].draining = "no"
      BY <1>1, PollRecords DEF IdleHoldsNothing
    <3>6. IdleHoldsNothing'
      BY <1>1, <2>1, <2>2, <3>5 DEF IdleHoldsNothing
    <3>7. /\ <<"poll", t>> \in TakenPlaces /\ <<"rest", "delivered">> \in TakenPlaces
          /\ {Head(batch)} \subseteq Content(<<"poll", t>>)
          /\ Content(<<"poll", t>>)' = Content(<<"poll", t>>) \ {Head(batch)}
          /\ Content(<<"rest", "delivered">>)' = Content(<<"rest", "delivered">>) \cup {Head(batch)}
      BY <1>3, <2>1, <2>2, <3>2, Contents
    <3>8. <<"poll", t>> # <<"rest", "delivered">>
      OBVIOUS
    <3>9. ASSUME NEW h \in TakenPlaces \ {<<"poll", t>>, <<"rest", "delivered">>}
          PROVE  Content(h)' = Content(h)
      BY <2>1, <2>2, <2>4, SameContents
    <3>10. UNCHANGED <<stored, taken>>
      BY <2>1
    <3>11. TakenOnce'
      BY <1>1, <3>7, <3>8, <3>9, <3>10, TakenMoves
    <3>12. \A a, b : Before(a, b)' <=> Before(a, b)
      BY <2>1 DEF Before
    <3>13. \A i \in DOMAIN delivered' :
             \/ i \in DOMAIN delivered /\ i <= Len(delivered) /\ delivered'[i] = delivered[i]
             \/ i = Len(delivered) + 1 /\ delivered'[i] = Head(batch)
      <4>1. \A i \in 1..(Len(delivered) + 1) :
              (i \in 1..Len(delivered) /\ i <= Len(delivered)) \/ i = Len(delivered) + 1
        BY <3>2
      <4> QED BY <3>2, <4>1
    <3>14. ASSUME NEW i \in DOMAIN delivered PROVE Before(delivered[i], Head(batch))
      <4>1. 1 \in DOMAIN batch /\ Head(batch) = batch[1]
        BY <1>2, <2>1, HeadAndTail
      <4> QED BY <1>1, <3>1, <4>1 DEF InOrder
    <3>15. Sorted(delivered')
      <4> SUFFICES ASSUME NEW i \in DOMAIN delivered', NEW j \in DOMAIN delivered', i < j
                   PROVE  Before(delivered'[i], delivered'[j])
        BY DEF Sorted
      <4>1. i \in DOMAIN delivered /\ delivered'[i] = delivered[i]
        <5>1. i # Len(delivered) + 1
          BY <3>2
        <5> QED BY <3>13, <5>1
      <4>2. CASE j \in DOMAIN delivered /\ delivered'[j] = delivered[j]
        BY <1>1, <4>1, <4>2 DEF InOrder, Sorted
      <4>3. CASE delivered'[j] = Head(batch)
        BY <3>14, <4>1, <4>3
      <4> QED BY <3>13, <4>2, <4>3
    <3>16. ASSUME NEW i \in DOMAIN delivered', NEW j \in DOMAIN Tail(batch)
           PROVE  Before(delivered'[i], Tail(batch)[j])
      <4>1. CASE i \in DOMAIN delivered /\ delivered'[i] = delivered[i]
        <5>1. j + 1 \in DOMAIN batch /\ Tail(batch)[j] = batch[j + 1]
          BY <1>2, <2>1, HeadAndTail
        <5> QED BY <1>1, <3>1, <4>1, <5>1 DEF InOrder
      <4>2. CASE delivered'[i] = Head(batch)
        BY <1>3, <2>1, <4>2
      <4> QED BY <3>13, <4>1, <4>2
    <3>17. \A u \in Turns : Sorted(poll'[u].batch)
      BY <1>1, <1>3, <2>1, <2>2 DEF InOrder
    <3>18. InOrder'
      BY <1>1, <2>1, <2>2, <3>1, <3>12, <3>15, <3>16, <3>17 DEF InOrder, Sorted
    <3> QED BY <3>3, <3>4, <3>6, <3>11, <3>18 DEF SignalsInv
  <2> QED BY <1>6, <2>3, <2>4 DEF handle
<1> QED BY <1>4, <1>5, <1>6

\* The run ends, the sweeper finds signals, a replay is over.
LEMMA RunStep ==
  ASSUME SignalsInv, runEnds \/ runParked \/ sweep \/ \E p \in Replayers : replayDone(p)
  PROVE  SignalsInv'
<1>1. TypeOK /\ StoredOnce /\ IdleHoldsNothing /\ {"hook", "sweeper"} \subseteq Replayers
      /\ \A s \in Signals : s # "hook" /\ s # "sweeper"
  BY DEF SignalsInv, Replayers
<1>2. /\ UNCHANGED <<turn, stored, taken, call, poll, delivered, replayed, lost, ignored>>
      /\ faults' \in 0..MaxFaults /\ terminal' \in BOOLEAN
  <2>1. UNCHANGED <<turn, stored, taken, call, poll, delivered, replayed, lost, ignored>>
    BY DEF runEnds, runParked, sweep, replayDone
  <2>2. UNCHANGED faults \/ (faults < MaxFaults /\ faults' = faults + 1)
    BY DEF runEnds, runParked, sweep, replayDone, Fault
  <2>3. UNCHANGED terminal \/ terminal' = TRUE
    BY DEF runEnds, runParked, sweep, replayDone
  <2>4. faults \in 0..MaxFaults /\ terminal \in BOOLEAN
    BY <1>1 DEF TypeOK
  <2>5. faults' \in 0..MaxFaults
    BY <2>2, <2>4
  <2> QED BY <2>1, <2>3, <2>4, <2>5
<1>3. \/ UNCHANGED replay /\ (terminal => terminal')
      \/ ReplayGoes("hook", "take") /\ terminal' /\ replay["hook"].pc = "idle"
      \/ /\ UNCHANGED terminal
         /\ \/ ReplayGoes("sweeper", "take") /\ replay["sweeper"].pc # "replay"
            \/ \E p \in Replayers :
                 /\ ReplayGoes(p, "done") /\ replay[p].batch = <<>>
                 /\ replay[p].pc = "replay"
  BY <1>1 DEF runEnds, runParked, sweep, replayDone, ReplayGoes, IdleHoldsNothing
<1>4. /\ replay' \in [Replayers -> ReplayRecord]
      /\ \A q \in Replayers : replay'[q].batch = replay[q].batch
      /\ \A q \in Replayers : \/ replay'[q].pc = replay[q].pc
                              \/ q = "hook" /\ terminal' /\ replay[q].pc = "idle"
                              \/ q = "sweeper" /\ replay[q].pc # "replay"
                              \/ replay[q].pc = "replay" /\ replay[q].batch = <<>>
      /\ \A q \in Replayers : replay'[q].pc = "replay" => replay[q].pc = "replay"
      /\ terminal => terminal'
  <2>1. CASE UNCHANGED replay /\ (terminal => terminal')
    BY <1>1, <2>1 DEF TypeOK
  <2>2. CASE ReplayGoes("hook", "take") /\ terminal' /\ replay["hook"].pc = "idle"
    <3>1. /\ replay' \in [Replayers -> ReplayRecord]
          /\ \A q \in Replayers : /\ replay'[q].batch = replay[q].batch
                                  /\ replay'[q].pc = (IF q = "hook" THEN "take" ELSE replay[q].pc)
      BY <1>1, <2>2, ReplayGoesOn
    <3> QED BY <2>2, <3>1
  <2>3. CASE UNCHANGED terminal /\ ReplayGoes("sweeper", "take") /\ replay["sweeper"].pc # "replay"
    <3>1. /\ replay' \in [Replayers -> ReplayRecord]
          /\ \A q \in Replayers : /\ replay'[q].batch = replay[q].batch
                                  /\ replay'[q].pc = (IF q = "sweeper" THEN "take" ELSE replay[q].pc)
      BY <1>1, <2>3, ReplayGoesOn
    <3> QED BY <2>3, <3>1
  <2>4. ASSUME UNCHANGED terminal, NEW p \in Replayers, ReplayGoes(p, "done"), replay[p].batch = <<>>,
               replay[p].pc = "replay"
        PROVE  <1>4
    <3>1. /\ replay' \in [Replayers -> ReplayRecord]
          /\ \A q \in Replayers : /\ replay'[q].batch = replay[q].batch
                                  /\ replay'[q].pc = (IF q = p THEN "done" ELSE replay[q].pc)
      BY <1>1, <2>4, ReplayGoesOn
    <3> QED BY <2>4, <3>1
  <2> QED BY <1>3, <2>1, <2>2, <2>3, <2>4
<1>5. TypeOK'
  BY <1>1, <1>2, <1>4 DEF TypeOK
<1>6. StoredOnce'
  BY <1>1, <1>2, SameRows
<1>7. \A s \in Signals : s \in Replayers
  BY DEF Replayers
<1>8. IdleHoldsNothing'
  <2>1. \A p \in Replayers : replay'[p].pc # "replay" => replay'[p].batch = <<>>
    BY <1>1, <1>4 DEF IdleHoldsNothing
  <2>2. \A s \in Signals : call'[s] \in {"new", "checked", "sent"} => replay'[s].pc = "idle"
    BY <1>1, <1>2, <1>4, <1>7 DEF IdleHoldsNothing
  <2>3. ~terminal' => replay'["hook"].pc = "idle"
    BY <1>1, <1>4 DEF IdleHoldsNothing
  <2> QED BY <1>1, <1>2, <2>1, <2>2, <2>3 DEF IdleHoldsNothing
<1>9. TakenOnce' /\ InOrder'
  BY <1>2, <1>4, QuietStep
<1> QED BY <1>5, <1>6, <1>8, <1>9 DEF SignalsInv

\* A replay takes the signals there are.
LEMMA ReplayTakesStep ==
  ASSUME SignalsInv, NEW p \in Replayers, replayTakes(p)
  PROVE  SignalsInv'
<1>1. TypeOK /\ StoredOnce /\ IdleHoldsNothing
  BY DEF SignalsInv
<1> DEFINE new == [pc |-> "replay", batch |-> Pending]
<1>2. /\ UNCHANGED <<terminal, turn, call, poll, delivered, replayed, lost, ignored, faults>>
      /\ Take /\ replay[p].pc = "take" /\ ReplayTo(p, new)
  BY DEF replayTakes, ReplayTo
<1>3. Pending \in Seq(Signals) /\ Len(stored) \in Nat
  BY <1>1, PendingRows
<1> HIDE DEF Pending
<1>4. new \in ReplayRecord /\ new.batch = Pending /\ new.pc = "replay"
  BY <1>3 DEF ReplayRecord
<1> HIDE DEF new
<1>5. /\ replay' \in [Replayers -> ReplayRecord] /\ replay'[p] = new
      /\ \A q \in Replayers \ {p} : replay'[q] = replay[q]
  BY <1>1, <1>2, <1>4, ReplayMoves
<1>6. /\ replay[p].batch = <<>>
      /\ \A s \in Signals : s = p => call[s] \notin {"new", "checked", "sent"}
      /\ p = "hook" => terminal
  BY <1>1, <1>2 DEF IdleHoldsNothing
<1>7. stored' = stored /\ taken' = Len(stored)
  BY <1>2 DEF Take
<1>8. taken' \in 0..Len(stored')
  BY <1>3, <1>7
<1>9. TypeOK'
  BY <1>1, <1>2, <1>5, <1>7, <1>8 DEF TypeOK
<1>10. StoredOnce'
  BY <1>1, <1>2, <1>7, SameRows
<1>11. IdleHoldsNothing'
  BY <1>1, <1>2, <1>4, <1>5, <1>6 DEF IdleHoldsNothing, Replayers
<1>12. /\ <<"replay", p>> \in TakenPlaces /\ Content(<<"replay", p>>) = {}
       /\ Content(<<"replay", p>>)' = ToSet(Pending)
  BY <1>4, <1>5, <1>6, Contents, EmptyBatch
<1>13. ASSUME NEW g \in TakenPlaces \ {<<"replay", p>>} PROVE Content(g)' = Content(g)
  BY <1>2, <1>5, SameContents
<1>14. \A q \in Replayers : replay'[q].batch \in {replay[q].batch, Pending}
  BY <1>4, <1>5
<1>15. TakenOnce' /\ InOrder'
  BY <1>2, <1>12, <1>13, <1>14, TakeStep
<1> QED BY <1>9, <1>10, <1>11, <1>15 DEF SignalsInv

\* A replay hands on signals to a place of rest.
LEMMA ReplayGives ==
  ASSUME SignalsInv, NEW p \in Replayers,
         UNCHANGED <<terminal, turn, stored, taken, call, poll, delivered>>,
         faults' \in 0..MaxFaults,
         replayed' \subseteq Steers, lost' \subseteq Signals, ignored' \subseteq Signals,
         NEW gone, gone \subseteq ToSet(replay[p].batch),
         \/ replayed' = replayed \cup gone /\ UNCHANGED <<lost, ignored>>
         \/ lost' = lost \cup gone /\ UNCHANGED <<replayed, ignored>>
         \/ ignored' = ignored \cup gone /\ UNCHANGED <<replayed, lost>>,
         replay' \in [Replayers -> ReplayRecord],
         \A q \in Replayers \ {p} : replay'[q] = replay[q],
         Shorter(replay'[p].batch, replay[p].batch),
         ToSet(replay'[p].batch) = ToSet(replay[p].batch) \ gone,
         replay[p].pc # "idle",
         replay'[p].batch = <<>> \/ replay'[p].pc = "replay"
  PROVE  SignalsInv'
<1>1. TypeOK /\ StoredOnce /\ IdleHoldsNothing /\ TakenOnce
  BY DEF SignalsInv
<1>2. TypeOK'
  BY <1>1 DEF TypeOK
<1>3. StoredOnce'
  BY <1>1, SameRows
<1>4. IdleHoldsNothing'
  <2>1. \A q \in Replayers : replay'[q].pc # "replay" => replay'[q].batch = <<>>
    BY <1>1 DEF IdleHoldsNothing
  <2>2. \A s \in Signals : call'[s] \in {"new", "checked", "sent"} => replay'[s].pc = "idle"
    BY <1>1 DEF IdleHoldsNothing, Replayers
  <2>3. ~terminal' => replay'["hook"].pc = "idle"
    BY <1>1 DEF IdleHoldsNothing, Replayers
  <2> QED BY <1>1, <2>1, <2>2, <2>3 DEF IdleHoldsNothing
<1>5. PICK rest \in {"replayed", "lost", "ignored"} :
        /\ <<"rest", rest>> \in TakenPlaces
        /\ Content(<<"rest", rest>>)' = Content(<<"rest", rest>>) \cup gone
        /\ rest # "replayed" => UNCHANGED replayed
        /\ rest # "lost" => UNCHANGED lost
        /\ rest # "ignored" => UNCHANGED ignored
  <2>1. CASE replayed' = replayed \cup gone /\ UNCHANGED <<lost, ignored>>
    BY <2>1, Contents
  <2>2. CASE lost' = lost \cup gone /\ UNCHANGED <<replayed, ignored>>
    BY <2>2, Contents
  <2>3. CASE ignored' = ignored \cup gone /\ UNCHANGED <<replayed, lost>>
    BY <2>3, Contents
  <2> QED BY <2>1, <2>2, <2>3
<1>6. /\ <<"replay", p>> \in TakenPlaces
      /\ gone \subseteq Content(<<"replay", p>>)
      /\ Content(<<"replay", p>>)' = Content(<<"replay", p>>) \ gone
  BY Contents
<1>7. <<"replay", p>> # <<"rest", rest>>
  OBVIOUS
<1>8. ASSUME NEW h \in TakenPlaces \ {<<"replay", p>>, <<"rest", rest>>} PROVE Content(h)' = Content(h)
  <2>1. /\ h = <<"rest", "replayed">> => UNCHANGED replayed
        /\ h = <<"rest", "lost">> => UNCHANGED lost
        /\ h = <<"rest", "ignored">> => UNCHANGED ignored
    BY <1>5
  <2> QED BY <2>1, SameContents
<1>9. UNCHANGED <<stored, taken>>
  OBVIOUS
<1>10. TakenOnce'
  BY <1>1, <1>5, <1>6, <1>7, <1>8, <1>9, TakenMoves
<1>11. InOrder'
  <2>1. \A u \in Turns : Shorter(poll'[u].batch, poll[u].batch)
    BY DEF Shorter
  <2>2. \A q \in Replayers : Shorter(replay'[q].batch, replay[q].batch)
    BY DEF Shorter
  <2> QED BY <2>1, <2>2, ShorterOrder
<1> QED BY <1>2, <1>3, <1>4, <1>10, <1>11 DEF SignalsInv

\* A replay goes on with its next signal, or dies with what it has.
LEMMA ReplayStep ==
  ASSUME SignalsInv, NEW p \in Replayers, replayNext(p) \/ replayDies(p)
  PROVE  SignalsInv'
<1>1. TypeOK /\ StoredOnce /\ IdleHoldsNothing /\ TakenOnce /\ InOrder
      /\ faults \in 0..MaxFaults /\ replay[p] \in ReplayRecord
      /\ replayed \subseteq Steers /\ lost \subseteq Signals /\ ignored \subseteq Signals
  BY DEF SignalsInv, TypeOK
<1> DEFINE batch == replay[p].batch
<1>2. batch \in Seq(Signals) /\ Sorted(batch) /\ ToSet(batch) \ ToSet(batch) = ToSet(<<>>)
  BY <1>1, EmptyBatch DEF ReplayRecord, InOrder
<1>3. CASE replayNext(p)
  <2> DEFINE new == [replay[p] EXCEPT !.batch = Tail(batch)]
  <2>1. /\ UNCHANGED <<terminal, turn, stored, taken, call, poll, delivered>>
        /\ replay[p].pc = "replay" /\ batch # <<>>
    BY <1>3 DEF replayNext
  <2>2. ReplayTo(p, new)
    BY <1>3 DEF replayNext, ReplayTo
  <2>3. /\ Head(batch) \in Signals /\ Tail(batch) \in Seq(Signals)
        /\ ToSet(Tail(batch)) = ToSet(batch) \ {Head(batch)} /\ Head(batch) \in ToSet(batch)
    BY <1>1, <1>2, <2>1, SortedTail, HeadAndTail
  <2>4. new \in ReplayRecord /\ new.batch = Tail(batch) /\ new.pc = "replay"
    BY <1>1, <2>1, <2>3 DEF ReplayRecord
  <2> HIDE DEF new
  <2>5. /\ replay' \in [Replayers -> ReplayRecord] /\ replay'[p] = new
        /\ \A q \in Replayers \ {p} : replay'[q] = replay[q]
    BY <1>1, <2>2, <2>4, ReplayMoves
  <2>6. /\ Shorter(replay'[p].batch, batch) /\ ToSet(replay'[p].batch) = ToSet(batch) \ {Head(batch)}
        /\ {Head(batch)} \subseteq ToSet(batch)
        /\ replay'[p].pc = "replay" /\ replay[p].pc # "idle"
    BY <2>1, <2>3, <2>4, <2>5 DEF Shorter
  <2>7. /\ \/ replayed' = replayed \cup {Head(batch)} /\ UNCHANGED <<lost, ignored>> /\ Head(batch) \in Steers
           \/ lost' = lost \cup {Head(batch)} /\ UNCHANGED <<replayed, ignored>>
           \/ ignored' = ignored \cup {Head(batch)} /\ UNCHANGED <<replayed, lost>>
        /\ UNCHANGED faults \/ (faults < MaxFaults /\ faults' = faults + 1)
    BY <1>3 DEF replayNext, Fault
  <2>8. faults' \in 0..MaxFaults
    BY <1>1, <2>7
  <2>9. replayed' \subseteq Steers /\ lost' \subseteq Signals /\ ignored' \subseteq Signals
    BY <1>1, <2>3, <2>7
  <2>10. \/ replayed' = replayed \cup {Head(batch)} /\ UNCHANGED <<lost, ignored>>
         \/ lost' = lost \cup {Head(batch)} /\ UNCHANGED <<replayed, ignored>>
         \/ ignored' = ignored \cup {Head(batch)} /\ UNCHANGED <<replayed, lost>>
    BY <2>7
  <2> QED BY <2>1, <2>5, <2>6, <2>8, <2>9, <2>10, ReplayGives
<1>4. CASE replayDies(p)
  <2> DEFINE new == [pc |-> IF p = "sweeper" THEN "idle" ELSE "dead", batch |-> <<>>]
  <2>1. /\ UNCHANGED <<terminal, turn, stored, taken, call, poll, delivered, replayed, ignored>>
        /\ replay[p].pc # "idle" /\ lost' = lost \cup ToSet(batch)
        /\ faults < MaxFaults /\ faults' = faults + 1
    BY <1>4 DEF replayDies, Fault
  <2>2. ReplayTo(p, new)
    BY <1>4 DEF replayDies, ReplayTo
  <2>3. new \in ReplayRecord /\ new.batch = <<>>
    BY EmptyBatch DEF ReplayRecord
  <2> HIDE DEF new
  <2>4. /\ replay' \in [Replayers -> ReplayRecord] /\ replay'[p] = new
        /\ \A q \in Replayers \ {p} : replay'[q] = replay[q]
    BY <1>1, <2>2, <2>3, ReplayMoves
  <2>5. /\ Shorter(replay'[p].batch, batch) /\ ToSet(replay'[p].batch) = ToSet(batch) \ ToSet(batch)
        /\ replay'[p].batch = <<>>
    BY <1>2, <2>3, <2>4 DEF Shorter
  <2>6. faults' \in 0..MaxFaults
    BY <1>1, <2>1
  <2>7. ToSet(batch) \subseteq Signals
    BY <1>2, LenProperties, ElementOfSeq DEF ToSet
  <2>8. lost' \subseteq Signals /\ replayed' \subseteq Steers /\ ignored' \subseteq Signals
    BY <1>1, <2>1, <2>7
  <2> QED BY <2>1, <2>4, <2>5, <2>6, <2>8, ReplayGives
<1> QED BY <1>3, <1>4

-----------------------------------------------------------------------------
(* Results *)

\* The invariant holds in every state.
LEMMA SignalsInvariance == Spec => []SignalsInv
<1>1. Init => SignalsInv
  <2> SUFFICES ASSUME Init PROVE SignalsInv
    OBVIOUS
  <2>1. TypeOK
    <3>1. [pc |-> "idle", batch |-> <<>>] \in ReplayRecord
      BY EmptyBatch DEF ReplayRecord
    <3>2. stored \in Seq(Signals) /\ delivered \in Seq(Signals) /\ taken \in 0..Len(stored)
      BY EmptyBatch DEF Init
    <3>3. turn \in 0..MaxTurns /\ faults \in 0..MaxFaults
      BY DEF Init
    <3>4. poll \in [Turns -> PollRecord]
      BY PollRecords DEF Init
    <3>5. replay \in [Replayers -> ReplayRecord]
      BY <3>1 DEF Init
    <3> QED BY <3>2, <3>3, <3>4, <3>5 DEF Init, TypeOK
  <2>2. /\ stored = <<>> /\ taken = 0 /\ delivered = <<>> /\ replayed = {} /\ lost = {} /\ ignored = {}
        /\ turn = 0
        /\ \A t \in Turns : poll[t] = NoPoll /\ poll[t].batch = <<>>
        /\ \A p \in Replayers : replay[p].pc = "idle" /\ replay[p].batch = <<>>
    BY PollRecords DEF Init
  <2>3. StoredOnce
    BY <2>2, EmptyBatch DEF StoredOnce
  <2>4. IdleHoldsNothing
    BY <2>2 DEF IdleHoldsNothing, Replayers
  <2>5. \A h \in TakenPlaces : Content(h) = {}
    BY <2>2, Contents, PlacesAre, EmptyBatch
  <2>6. TakenOnce
    BY <2>2, <2>5 DEF TakenOnce
  <2>7. InOrder
    BY <2>2, EmptyBatch DEF InOrder
  <2> QED BY <2>1, <2>3, <2>4, <2>6, <2>7 DEF SignalsInv
<1>2. SignalsInv /\ [Next]_vars => SignalsInv'
  <2> SUFFICES ASSUME SignalsInv, [Next]_vars PROVE SignalsInv'
    OBVIOUS
  <2>1. CASE UNCHANGED vars
    <3>1. UNCHANGED <<terminal, turn, stored, taken, call, poll, replay, delivered, replayed, lost,
                      ignored, faults>>
      BY <2>1 DEF vars
    <3>2. TakenOnce' /\ InOrder'
      BY <3>1, QuietStep
    <3>3. TypeOK' /\ StoredOnce' /\ IdleHoldsNothing'
      BY <3>1 DEF SignalsInv, TypeOK, StoredOnce, IdleHoldsNothing
    <3> QED BY <3>2, <3>3 DEF SignalsInv
  <2>2. CASE Next
    BY <2>2, CallerStep, StartStep, PollStep, TakePendingStep, HandleStep, RunStep, ReplayTakesStep,
       ReplayStep DEF Next, Poller, Replay
  <2> QED BY <2>1, <2>2
<1> QED BY <1>1, <1>2, PTL DEF Spec

\* The stored signals, the polls and the replays have their types.
THEOREM SignalTypes == Spec => []TypeOK
  BY SignalsInvariance, PTL DEF SignalsInv

\* No stored signal is in two places or in none: whichever of the polls, the
\* calls, the hook and the sweeper take from the table, in whichever order.
THEOREM EverySignalInOnePlace == Spec => []InOnePlace
<1>1. SignalsInv => InOnePlace
  <2> SUFFICES ASSUME SignalsInv, NEW k \in DOMAIN stored
               PROVE  Cardinality(Places(stored[k])) = 1
    BY DEF InOnePlace, ToSet
  <2> DEFINE s == stored[k]
  <2>1. TypeOK /\ StoredOnce /\ TakenOnce
    BY DEF SignalsInv
  <2>2. /\ Len(stored) \in Nat /\ DOMAIN stored = 1..Len(stored) /\ taken \in 0..Len(stored)
        /\ DOMAIN Pending = 1..(Len(stored) - taken)
        /\ \A i \in DOMAIN Pending : Pending[i] = stored[taken + i]
    BY <2>1, PendingRows DEF TypeOK
  <2> HIDE DEF Pending
  <2>3. s \in ToSet(Pending) <=> k > taken
    <3>1. ASSUME NEW i \in DOMAIN Pending, Pending[i] = s PROVE k > taken
      <4>1. taken + i \in DOMAIN stored /\ taken + i > taken /\ stored[taken + i] = stored[k]
        BY <2>2, <3>1
      <4>2. taken + i = k
        BY <2>1, <4>1 DEF StoredOnce
      <4> QED BY <4>1, <4>2
    <3>2. ASSUME k > taken PROVE \E i \in DOMAIN Pending : Pending[i] = s
      <4>1. k - taken \in DOMAIN Pending /\ taken + (k - taken) = k
        BY <2>2, <3>2
      <4> QED BY <2>2, <4>1
    <3> QED BY <3>1, <3>2 DEF ToSet
  <2>4. /\ Rest["pending"] = ToSet(Pending) /\ Rest["delivered"] = ToSet(delivered)
        /\ Rest["replayed"] = replayed /\ Rest["lost"] = lost /\ Rest["ignored"] = ignored
        /\ DOMAIN Rest = {"pending", "delivered", "replayed", "lost", "ignored"}
    BY DEF Rest
  <2>5. Places(s) = {h \in TakenPlaces : s \in Content(h)}
                      \cup (IF s \in ToSet(Pending) THEN {<<"rest", "pending">>} ELSE {})
    <3>1. ASSUME NEW h \in Places(s)
          PROVE  (h \in TakenPlaces /\ s \in Content(h)) \/ (s \in ToSet(Pending) /\ h = <<"rest", "pending">>)
      <4> HIDE DEF s
      <4>1. CASE \E t \in Turns : h = <<"poll", t>> /\ s \in ToSet(poll[t].batch)
        BY <4>1, Contents
      <4>2. CASE \E p \in Replayers : h = <<"replay", p>> /\ s \in ToSet(replay[p].batch)
        BY <4>2, Contents
      <4>3. CASE \E e \in DOMAIN Rest : h = <<"rest", e>> /\ s \in Rest[e]
        BY <2>4, <4>3, Contents
      <4> QED BY <4>1, <4>2, <4>3 DEF Places
    <3>2. ASSUME NEW h \in TakenPlaces, s \in Content(h) PROVE h \in Places(s)
      <4> HIDE DEF s
      <4>1. CASE \E t \in Turns : h = <<"poll", t>>
        BY <3>2, <4>1, Contents DEF Places
      <4>2. CASE \E p \in Replayers : h = <<"replay", p>>
        BY <3>2, <4>2, Contents DEF Places
      <4>3. CASE h \in {<<"rest", "delivered">>, <<"rest", "replayed">>, <<"rest", "lost">>,
                       <<"rest", "ignored">>}
        BY <2>4, <3>2, <4>3, Contents DEF Places
      <4> QED BY <4>1, <4>2, <4>3, PlacesAre
    <3>3. ASSUME s \in ToSet(Pending) PROVE <<"rest", "pending">> \in Places(s)
      BY <2>4, <3>3 DEF Places
    <3> QED BY <3>1, <3>2, <3>3
  <2>6. \E h : Places(s) = {h}
    <3>1. CASE k > taken
      <4>1. \A h \in TakenPlaces : s \notin Content(h)
        <5> SUFFICES ASSUME NEW h \in TakenPlaces, s \in Content(h) PROVE FALSE
          OBVIOUS
        <5>1. PICK i \in 1..taken : stored[i] = stored[k]
          BY <2>1 DEF TakenOnce
        <5>2. i \in DOMAIN stored /\ i # k
          BY <2>2, <3>1
        <5> QED BY <2>1, <5>1, <5>2 DEF StoredOnce
      <4>2. Places(s) = {<<"rest", "pending">>}
        BY <2>3, <2>5, <3>1, <4>1
      <4> QED BY <4>2
    <3>2. CASE ~(k > taken)
      <4>1. k \in 1..taken
        BY <2>2, <3>2
      <4>2. PICK h \in TakenPlaces : s \in Content(h)
        BY <2>1, <4>1 DEF TakenOnce
      <4>3. \A g \in TakenPlaces : s \in Content(g) => g = h
        BY <2>1, <4>2 DEF TakenOnce
      <4>4. Places(s) = {h}
        BY <2>3, <2>5, <3>2, <4>2, <4>3
      <4> QED BY <4>4
    <3> QED BY <3>1, <3>2
  <2> QED BY <2>6, FS_Singleton
<1> QED BY <1>1, SignalsInvariance, PTL

\* A turn gets the signals in the order they were stored, each once, across
\* drains and attempts.
THEOREM SignalsInOrder == Spec => []DeliveredInOrder
<1>1. SignalsInv => DeliveredInOrder
  <2> SUFFICES ASSUME SignalsInv PROVE DeliveredInOrder
    OBVIOUS
  <2>1. TypeOK /\ StoredOnce /\ Sorted(delivered) /\ delivered \in Seq(Signals)
    BY DEF SignalsInv, InOrder, TypeOK
  <2>2. IsInjective(delivered)
    BY <2>1, SortedOnce DEF IsInjective
  <2> QED BY <2>1, <2>2 DEF DeliveredInOrder, Sorted, Before
<1> QED BY <1>1, SignalsInvariance, PTL
=============================================================================
