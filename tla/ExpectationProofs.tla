------------------------- MODULE ExpectationProofs -------------------------
(***************************************************************************)
(* A conformant target is not failed: in every scenario that expects no    *)
(* more than what is due, for all names, versions and capacities, with all *)
(* the orders in which a conformant target may answer, and in all timings  *)
(* in which an adapter call does not overtake a request.                   *)
(***************************************************************************)
EXTENDS SubscriptionProofs, Expectations

-----------------------------------------------------------------------------
(* Scenarios, one step further.                                             *)

\* Whether what some steps made stands, with one step more.
LEMMA StandsNext ==
    ASSUME NEW k \in Nat, NEW made \in SUBSET Int, NEW undone \in SUBSET Int
    PROVE  Stands(k + 1, made, undone) <=>
              k + 1 \in made \/ (k + 1 \notin undone /\ Stands(k, made, undone))
<1>1. ASSUME Stands(k + 1, made, undone), k + 1 \notin made
      PROVE  k + 1 \notin undone /\ Stands(k, made, undone)
  <2>1. PICK i \in made : i <= k + 1 /\ \A j \in undone : j <= k + 1 => j <= i
    BY <1>1 DEF Stands
  <2>2. i # k + 1
    BY <1>1
  <2>3. i <= k /\ \A j \in undone : j <= k => j <= i
    BY <2>1, <2>2
  <2>4. k + 1 \notin undone
    BY <2>1, <2>3
  <2> QED BY <2>1, <2>3, <2>4 DEF Stands
<1>2. ASSUME k + 1 \in made PROVE Stands(k + 1, made, undone)
  BY <1>2 DEF Stands
<1>3. ASSUME k + 1 \notin undone, Stands(k, made, undone) PROVE Stands(k + 1, made, undone)
  <2>1. PICK i \in made : i <= k /\ \A j \in undone : j <= k => j <= i
    BY <1>3 DEF Stands
  <2>2. i <= k + 1 /\ \A j \in undone : j <= k + 1 => j <= i
    BY <1>3, <2>1
  <2> QED BY <2>1, <2>2 DEF Stands
<1> QED BY <1>1, <1>2, <1>3

\* Before the first step nothing stands.
LEMMA StandsNowhere ==
    ASSUME NEW made, NEW undone, \A i \in made : ~(i <= 0)
    PROVE  ~Stands(0, made, undone)
  BY DEF Stands

\* n has been given a reason to be sent since the snapshot of its type was last
\* changed; version v was given before some reason to send n
Fresh(s, k, t, n) == Stands(k, ToldAt(s, t, n), GivenAt(s, t))
Seen(s, k, t, n, v) == \E j \in ToldAt(s, t, n), i \in GivenAs(s, t, v) : j <= k /\ i <= j

\* what step e, the one at i, makes of what the k before it have come to
NextText(s, k, i, e, t, n) ==
    /\ Present(s, i, t, n) <=> Puts(e, t, n) \/ (~Takes(e, t, n) /\ Present(s, k, t, n))
    /\ Absent(s, i, t, n) => ~Puts(e, t, n) /\ (Takes(e, t, n) \/ Absent(s, k, t, n))
    /\ NeverPut(s, i, t, n) => ~Puts(e, t, n) /\ NeverPut(s, k, t, n)
    /\ Covered(s, i, t, n) <=>
          \/ Covers(s, e, t, n)
          \/ ~Resets(e, t) /\ ~Drops(e, t, n) /\ Covered(s, k, t, n)
    /\ Dropped(s, i, t, n) <=>
          Drops(e, t, n) \/ (~Covers(s, e, t, n) /\ Dropped(s, k, t, n))
    /\ Fresh(s, i, t, n) <=> Tells(s, e, t, n) \/ (~Gives(e, t) /\ Fresh(s, k, t, n))
    /\ \A v : Recorded(s, i, t, n, v) <=>
                 GivesAs(e, t, v) \/ (~Puts(e, t, n) /\ Recorded(s, k, t, n, v))
    /\ \A v : Seen(s, k, t, n, v) => Seen(s, i, t, n, v)
    /\ \A m : Later(s, i, t, n, m) =>
                 ~Tells(s, e, t, m) /\ (Puts(e, t, n) \/ Later(s, k, t, n, m))

\* All that the text of a scenario comes to, with one step more.
LEMMA TextNext ==
    ASSUME NEW s, NEW k \in Nat, NEW i \in 1..Len(s.steps), i = k + 1,
           NEW e, e = s.steps[i], NEW t, NEW n
    PROVE  NextText(s, k, i, e, t, n)
<1>1. \A S \in SUBSET (1..Len(s.steps)) : S \in SUBSET Int
  OBVIOUS
<1>2. /\ PutAt(s, t, n) \in SUBSET Int /\ TakenAt(s, t, n) \in SUBSET Int
      /\ CoveredAt(s, t, n) \in SUBSET Int /\ LostAt(s, t, n) \in SUBSET Int
      /\ DroppedAt(s, t, n) \in SUBSET Int /\ GivenAt(s, t) \in SUBSET Int
      /\ \A v : GivenAs(s, t, v) \in SUBSET Int
      /\ \A m : ToldAt(s, t, m) \in SUBSET Int
  BY DEF PutAt, TakenAt, CoveredAt, LostAt, DroppedAt, GivenAt, GivenAs, ToldAt
<1>3. /\ i \in PutAt(s, t, n) <=> Puts(e, t, n)
      /\ i \in TakenAt(s, t, n) <=> Takes(e, t, n)
      /\ i \in CoveredAt(s, t, n) <=> Covers(s, e, t, n)
      /\ i \in LostAt(s, t, n) <=> Resets(e, t) \/ Drops(e, t, n)
      /\ i \in DroppedAt(s, t, n) <=> Drops(e, t, n)
      /\ i \in GivenAt(s, t) <=> Gives(e, t)
      /\ \A v : i \in GivenAs(s, t, v) <=> GivesAs(e, t, v)
      /\ \A m : i \in ToldAt(s, t, m) <=> Tells(s, e, t, m)
  BY DEF PutAt, TakenAt, CoveredAt, LostAt, DroppedAt, GivenAt, GivenAs, ToldAt
<1>4. Present(s, i, t, n) <=> Puts(e, t, n) \/ (~Takes(e, t, n) /\ Present(s, k, t, n))
  BY <1>2, <1>3, StandsNext DEF Present
<1>5. NeverPut(s, i, t, n) => ~Puts(e, t, n) /\ NeverPut(s, k, t, n)
  BY <1>2, <1>3 DEF NeverPut
<1>6. Absent(s, i, t, n) => ~Puts(e, t, n) /\ (Takes(e, t, n) \/ Absent(s, k, t, n))
  <2>1. Stands(i, TakenAt(s, t, n), PutAt(s, t, n)) <=>
           Takes(e, t, n) \/ (~Puts(e, t, n) /\ Stands(k, TakenAt(s, t, n), PutAt(s, t, n)))
    BY <1>2, <1>3, StandsNext
  <2>2. Takes(e, t, n) => ~Puts(e, t, n)
    BY DEF Takes, Puts
  <2> QED BY <1>5, <2>1, <2>2 DEF Absent
<1>7. Covers(s, e, t, n) => Resets(e, t)
  BY DEF Covers
<1>8. Covered(s, i, t, n) <=> \/ Covers(s, e, t, n)
                              \/ ~Resets(e, t) /\ ~Drops(e, t, n) /\ Covered(s, k, t, n)
  BY <1>2, <1>3, StandsNext DEF Covered
<1>9. Dropped(s, i, t, n) <=> Drops(e, t, n) \/ (~Covers(s, e, t, n) /\ Dropped(s, k, t, n))
  BY <1>2, <1>3, StandsNext DEF Dropped
<1>10. ASSUME NEW v
       PROVE  Recorded(s, i, t, n, v) <=>
                 GivesAs(e, t, v) \/ (~Puts(e, t, n) /\ Recorded(s, k, t, n, v))
  BY <1>2, <1>3, StandsNext DEF Recorded
<1>11. ASSUME NEW m, Later(s, i, t, n, m)
       PROVE  ~Tells(s, e, t, m) /\ (Puts(e, t, n) \/ Later(s, k, t, n, m))
  <2>1. PICK x \in PutAt(s, t, n) : x <= i /\ \A j \in ToldAt(s, t, m) : j <= i => j < x
    BY <1>11 DEF Later
  <2>2. i \notin ToldAt(s, t, m)
    BY <1>2, <2>1
  <2>3. CASE x = i
    BY <1>3, <2>2, <2>3, <2>1
  <2>4. CASE x # i
    <3>1. x <= k /\ \A j \in ToldAt(s, t, m) : j <= k => j < x
      BY <1>2, <2>1, <2>4
    <3> QED BY <1>3, <2>1, <2>2, <3>1 DEF Later
  <2> QED BY <2>3, <2>4
<1>12. Fresh(s, i, t, n) <=> Tells(s, e, t, n) \/ (~Gives(e, t) /\ Fresh(s, k, t, n))
  BY <1>2, <1>3, StandsNext DEF Fresh
<1>13. \A v : Seen(s, k, t, n, v) => Seen(s, i, t, n, v)
  BY <1>2 DEF Seen
<1> QED BY <1>4, <1>5, <1>6, <1>8, <1>9, <1>10, <1>11, <1>12, <1>13 DEF NextText

\* Nothing stands before the first step but what needs none.
LEMMA TextAtFirst ==
    ASSUME NEW s, NEW t, NEW n
    PROVE  /\ ~Present(s, 0, t, n) /\ ~Covered(s, 0, t, n) /\ ~Dropped(s, 0, t, n)
           /\ \A v : ~Recorded(s, 0, t, n, v)
           /\ \A m : ~Later(s, 0, t, n, m)
           /\ ~Rested(s, 0)
<1>1. \A i \in 1..Len(s.steps) : ~(i <= 0)
  OBVIOUS
<1>2. ~Present(s, 0, t, n) /\ ~Covered(s, 0, t, n) /\ ~Dropped(s, 0, t, n)
  BY <1>1, StandsNowhere DEF Present, Covered, Dropped, PutAt, CoveredAt, DroppedAt
<1>3. \A v : ~Recorded(s, 0, t, n, v)
  BY <1>1, StandsNowhere DEF Recorded, GivenAs
<1> QED BY <1>1, <1>2, <1>3 DEF Later, PutAt, Rested

-----------------------------------------------------------------------------
(* What is supposed of a scenario, and how far it has come.                 *)

Due == /\ target = "conformant" /\ ~Racing /\ ResCap # 0
       /\ ExpectsWhatIsDue(scenario)

\* the number of steps that have done what they do to target and record
Upto == IF doing = "push" THEN pc ELSE pc - 1

\* The step that is run, as the scenario has it.
LEMMA StepIsDue ==
    ASSUME StepOK, Due, pc <= Len(scenario.steps)
    PROVE  /\ pc \in 1..Len(scenario.steps) /\ pc - 1 \in Nat /\ (pc - 1) + 1 = pc
           /\ Len(scenario.steps) \in Nat /\ Step \in Steps
           /\ IsDue(scenario, pc - 1, Step)
           /\ Step.op = "setup" => pc = 1
           /\ Step.op \notin {"updateSubscription", "unsubscribeAll"}
           /\ Incremental <=> ShortensAtRest(scenario)
           /\ ~Incremental <=> StaysSubscribed(scenario)
           /\ ~Incremental => Step.op \notin {"remove", "unsubscribe"}
           /\ Incremental /\ Step.op = "unsubscribe" => Rested(scenario, pc - 1)
           /\ ~Incremental /\ Step.op = "subscribe" =>
                 \A i \in 1..(pc - 1) : ~Resets(scenario.steps[i], Step.type)
<1>1. scenario.steps \in Seq(Steps)
  BY ScenariosAssumption DEF StepOK
<1>2. Len(scenario.steps) \in Nat /\ pc \in 1..Len(scenario.steps) /\ Step \in Steps
  BY <1>1, StepIsTyped, LenProperties DEF StepOK
<1>3. /\ pc - 1 \in Nat /\ (pc - 1) + 1 = pc
      /\ \A i \in 1..(pc - 1) : i \in 1..Len(scenario.steps) /\ i # pc
  BY <1>2
<1>4. /\ IsDue(scenario, pc - 1, Step)
      /\ Step.op = "setup" => pc = 1
      /\ StaysSubscribed(scenario) \/ ShortensAtRest(scenario)
  BY <1>2 DEF Due, ExpectsWhatIsDue, Step
<1>5. /\ StaysSubscribed(scenario) => ~Incremental
      /\ ShortensAtRest(scenario) => Incremental
  BY DEF StaysSubscribed, SubscribesOnce, ShortensAtRest, UnsubscribesLater, Incremental
<1>6. Step.op \notin {"updateSubscription", "unsubscribeAll"}
  BY <1>2, <1>4 DEF StaysSubscribed, SubscribesOnce, ShortensAtRest, UnsubscribesLater, Step,
                    AskingOps
<1>7. StaysSubscribed(scenario) => Step.op \notin {"remove", "unsubscribe"}
  BY <1>2 DEF StaysSubscribed, SubscribesOnce, Step, AskingOps
<1>8. ShortensAtRest(scenario) /\ Step.op = "unsubscribe" => Rested(scenario, pc - 1)
  BY <1>2 DEF ShortensAtRest, Step
<1>9. StaysSubscribed(scenario) /\ Step.op = "subscribe" =>
         \A i \in 1..(pc - 1) : ~Resets(scenario.steps[i], Step.type)
  BY <1>2, <1>3 DEF StaysSubscribed, Step, Resets
<1> QED BY <1>2, <1>3, <1>4, <1>5, <1>6, <1>7, <1>8, <1>9

\* So none of its steps makes the map of a type anew.
LEMMA NoneReplaces ==
    ASSUME TypeOK, Due
    PROVE  ~EntryIsRead /\ ~ClientUpdatesSubscription /\ ~ClientUnsubscribesFromAll
<1>1. ASSUME NEW op \in {"updateSubscription", "unsubscribeAll"}, Doing(op) \/ Replacing(op)
      PROVE  FALSE
  BY <1>1, StepIsDue DEF Doing, Running, Replacing, TypeOK, StepOK
<1> QED BY <1>1 DEF EntryIsRead, ClientUpdatesSubscription, ClientUnsubscribesFromAll

-----------------------------------------------------------------------------
(* At rest, and what the counts then are.                                   *)

One(b) == IF b THEN 1 ELSE 0

\* A response is counted before its answer, and the first request answers none.
CountInv ==
    requestCount + Len(req) + One(ack = "reply") + Len(res) + One(recv = "deliver")
        >= responseCount + One(ack \notin {"off", "first"})

\* Requests and responses pass from place to place, and are counted once.
LEMMA CountKeeps == ASSUME CountInv, TypeOK, [Next]_vars PROVE CountInv'
<1> USE DEF TypeOK, StreamOK, One, acker, record, counts, receiver
<1>0. /\ Len(req) \in Nat /\ Len(res) \in Nat /\ requestCount \in Nat /\ responseCount \in Nat
      /\ req # <<>> => Len(Tail(req)) = Len(req) - 1
      /\ res # <<>> => Len(Tail(res)) = Len(res) - 1
      /\ \A q \in Requests : Len(Append(req, q)) = Len(req) + 1
      /\ recv = "deliver" => Len(Append(res, hand)) = Len(res) + 1
  BY QueueIsTyped DEF RecordOK
<1> HIDE DEF TypeOK, StreamOK
<1>1. CASE AckSubscribes
  <2>1. Len(req') = Len(req) + 1
    BY <1>0, <1>1 DEF AckSubscribes, TypeOK, StreamOK
  <2> QED BY <1>0, <1>1, <2>1 DEF AckSubscribes, CountInv
<1>2. CASE AckTakes
  BY <1>0, <1>2 DEF AckTakes, CountInv
<1>3. CASE AckReplies
  <2>1. Len(req') = Len(req) + 1
    BY <1>0, <1>3 DEF AckReplies, TypeOK, StreamOK
  <2> QED BY <1>0, <1>3, <2>1 DEF AckReplies, CountInv
<1>4. CASE StreamSends
  BY <1>0, <1>4 DEF StreamSends, CountInv
<1>5. CASE RecvReceives \/ RecordResource \/ RecordRemoval \/ RecvPanics
  BY <1>5 DEF RecvReceives, RecordResource, RecordRemoval, RecvPanics, CountInv
<1>6. CASE RecvCounts
  BY <1>0, <1>6 DEF RecvCounts, CountInv
<1>7. CASE RecvDelivers
  BY <1>0, <1>7 DEF RecvDelivers, CountInv
<1>8. CASE TargetNext \/ AdapterNext \/ UNCHANGED vars
  <2>1. UNCHANGED <<requestCount, responseCount, req, res, ack, recv>>
    BY <1>8 DEF TargetNext, TargetReads, TargetResponds, TargetDeclines, TargetImprovises,
         AdapterNext, ResourceIsAdded, ResourceIsUpdated, ResourceIsRemoved, AdapterStep, vars
  <2> QED BY <2>1 DEF CountInv
<1>9. CASE StepPushes
  <2>1. Len(req') = Len(req) + 1
    BY <1>0, <1>9 DEF StepPushes, TypeOK, StepOK
  <2> QED BY <1>0, <1>9, <2>1 DEF StepPushes, CountInv
<1>10. CASE ClientNext /\ ~StepPushes
  <2>1. UNCHANGED <<requestCount, responseCount, req, res, recv>>
        /\ (ack' = ack \/ (ack = "off" /\ ack' = "first"))
    BY <1>10 DEF ClientNext, TargetSetup, ClientSubscribes, ClientSubscribesAgain,
         EntryIsRead, ReplacedBy, ClientUpdatesSubscription, ClientUnsubscribesFromAll, ClientUnsubscribesFromResource
  <2> QED BY <1>0, <2>1 DEF CountInv
<1>11. CASE JudgeNext
  <2>1. UNCHANGED <<requestCount, responseCount, req, res, recv>>
        /\ (ack' = ack \/ (ack = "select" /\ ack' = "stopped"))
    BY <1>11 DEF JudgeNext, StepJudges, StepSignalsDone, StepComparesCounts, ScenarioPasses
  <2> QED BY <1>0, <2>1 DEF CountInv
<1> QED BY <1>1, <1>2, <1>3, <1>4, <1>5, <1>6, <1>7, <1>8, <1>9, <1>10, <1>11
       DEF Next, StreamNext

\* When all is quiet, only the step goroutine moves.
LEMMA QuietStays ==
    ASSUME Quiet, target = "conformant"
    PROVE  ~StreamNext /\ ~TargetNext
  BY DEF Quiet, StreamNext, AckSubscribes, AckTakes, AckReplies, StreamSends, RecvReceives,
         RecordResource, RecordRemoval, RecvPanics, RecvCounts, RecvDelivers, TargetNext,
         TargetReads, TargetResponds, TargetDeclines, TargetImprovises

\* All that has come from the target has been recorded and answered.
Still == Quiet /\ ack \in {"select", "stopped"} /\ res = <<>> /\ recv = "receive"

\* Ack stops for the step that compares the counts, and not before.
RestInv ==
    /\ ack = "stopped" =>
          \E i \in 1..Len(scenario.steps) :
             /\ scenario.steps[i].op = "neverMore"
             /\ i < pc \/ (i = pc /\ doing = "sleep")
    /\ Rested(scenario, pc - 1) /\ doing # "push" => Still

\* Steps that only judge go on from a rest; a timed one begins it.
LEMMA RestedNext ==
    ASSUME NEW s, NEW k \in Nat, Rested(s, k + 1)
    PROVE  /\ s.steps[k + 1].op \in JudgingOps
           /\ \/ Rested(s, k)
              \/ s.steps[k + 1].op \in TimedOps /\ \E i \in 1..k : s.steps[i].op = "subscribe"
<1>1. PICK i, j \in 1..(k + 1) :
          /\ i < j /\ s.steps[i].op = "subscribe" /\ s.steps[j].op \in TimedOps
          /\ \A h \in j..(k + 1) : s.steps[h].op \in JudgingOps
  BY DEF Rested
<1>2. k + 1 \in j..(k + 1) /\ i \in 1..k /\ (j \in 1..k \/ j = k + 1)
      /\ \A h \in j..k : h \in j..(k + 1)
  BY <1>1
<1> QED BY <1>1, <1>2 DEF Rested

\* The step that stops Ack is the last.
LEMMA NotStopped ==
    ASSUME RestInv, StepOK, Due, Running, Step.op # "neverMore"
    PROVE  ack # "stopped"
<1> SUFFICES ASSUME ack = "stopped" PROVE FALSE
  OBVIOUS
<1>1. PICK i \in 1..Len(scenario.steps) : scenario.steps[i].op = "neverMore" /\ i <= pc
  BY StepIsDue DEF RestInv, Running, StepOK
<1>2. IsDue(scenario, i - 1, scenario.steps[i])
  BY DEF Due, ExpectsWhatIsDue
<1>3. (i - 1) + 1 = Len(scenario.steps)
  BY <1>1, <1>2 DEF IsDue, ExpectsNoMore
<1>4. i = pc
  BY <1>1, <1>3, StepIsDue DEF Running
<1> QED BY <1>1, <1>4 DEF Step

\* Steps at the same place of the scenario, that end no rest.
LEMMA RestUntouched ==
    ASSUME RestInv, UNCHANGED <<scenario, pc>>, ack' = "stopped" => ack = "stopped",
           doing = "sleep" => doing' = "sleep", doing' # "push" => doing # "push" /\ UNCHANGED Still
    PROVE  RestInv'
  BY DEF RestInv

\* Steps that ask or call go on to where nothing has been waited for.
LEMMA RestMovesOn ==
    ASSUME RestInv, StepOK, Due, scenario' = scenario, pc' = pc + 1, pc <= Len(scenario.steps),
           ack' = "stopped" => ack = "stopped", Step.op \notin JudgingOps
    PROVE  RestInv'
<1>1. ~Rested(scenario, pc)
  BY StepIsDue, RestedNext DEF Step
<1>2. pc' - 1 = pc /\ pc \in Nat
  BY StepIsDue
<1>3. \A i \in 1..Len(scenario.steps) : i <= pc => i < pc'
  BY <1>2
<1> QED BY <1>1, <1>2, <1>3 DEF RestInv

\* While steps only judge, all stays quiet.
LEMMA RestKeeps ==
    ASSUME RestInv, StartedInv, TypeOK, Due, [Next]_vars
    PROVE  RestInv'
<1> USE DEF record, acker, receiver, server
<1>0. StepOK
  BY DEF TypeOK
<1>1. CASE StreamNext \/ TargetNext
  <2>1. UNCHANGED <<scenario, pc, doing>> /\ (ack' = "stopped" => ack = "stopped")
    BY <1>1 DEF StreamNext, AckSubscribes, AckTakes, AckReplies, StreamSends, RecvReceives,
         RecordResource, RecordRemoval, RecvPanics, RecvCounts, RecvDelivers, TargetNext,
         TargetReads, TargetResponds, TargetDeclines, TargetImprovises, control
  <2>2. ~Still
    BY <1>1, QuietStays DEF Still, Due
  <2> QED BY <2>1, <2>2 DEF RestInv
<1>2. CASE StepPushes
  <2>1. Step.op \notin JudgingOps
    BY <1>2 DEF StepPushes, StartedInv, AskingOps, JudgingOps, TimedOps
  <2> QED BY <1>0, <1>2, <2>1, RestMovesOn DEF StepPushes, StepDone, StepOK
<1>3. CASE TargetSetup \/ ClientSubscribes \/ AdapterNext
  <2>1. /\ Step.op \notin JudgingOps /\ pc <= Len(scenario.steps) /\ scenario' = scenario
        /\ pc' = pc + 1 /\ (ack' = "stopped" => ack = "stopped")
    BY <1>3 DEF TargetSetup, ClientSubscribes, AdapterNext, ResourceIsAdded, ResourceIsUpdated,
         ResourceIsRemoved, AdapterStep, Doing, Running, StepDone, JudgingOps, TimedOps
  <2> QED BY <1>0, <2>1, RestMovesOn
<1>4. CASE ClientNext /\ ~StepPushes /\ ~TargetSetup /\ ~ClientSubscribes
  <2>1. UNCHANGED <<scenario, pc, ack>> /\ doing = "ready" /\ doing' = "push"
    BY <1>4, NoneReplaces DEF ClientNext, ClientSubscribesAgain,
         ClientUnsubscribesFromResource, Push, Doing, Running
  <2> QED BY <2>1, RestUntouched
<1>5. CASE StepJudges
  <2>1. UNCHANGED <<scenario, ack, req, res, upstream, downstream, recv, sub, content, known, due>>
    BY <1>5 DEF StepJudges, StepDone, StepFails, snapshot
  <2>2. UNCHANGED Still
    BY <2>1 DEF Still, Quiet, Owed, Incremental
  <2>3. CASE StepFails
    BY <2>1, <2>2, <2>3, RestUntouched DEF StepFails
  <2>4. CASE StepDone
    <3>1. /\ Running /\ Step.op \in JudgingOps /\ Step.op # "neverMore"
          /\ Step.op \in TimedOps => Quiet
      BY <1>5 DEF StepJudges, TimerFires, Due, JudgingOps, TimedOps
    <3>2. ack # "stopped"
      BY <1>0, <3>1, NotStopped
    <3>3. ASSUME Rested(scenario, pc) PROVE Still
      <4>1. \/ Rested(scenario, pc - 1)
            \/ Step.op \in TimedOps /\ Subscribed
        <5>1. pc - 1 \in Nat /\ (pc - 1) + 1 = pc
          BY <1>0, <3>1, StepIsDue DEF Running
        <5> QED BY <3>3, <5>1, RestedNext DEF Step, Subscribed
      <4>2. CASE Rested(scenario, pc - 1)
        BY <3>1, <4>2 DEF RestInv, Running
      <4>3. CASE Step.op \in TimedOps /\ Subscribed
        <5>1. Quiet /\ ack = "select"
          BY <3>1, <3>2, <4>3 DEF Quiet, StartedInv
        <5>2. res = <<>> /\ recv = "receive"
          <6>1. Len(<<>>) = 0
            BY EmptySeq, LenProperties
          <6> QED BY <5>1, <6>1 DEF Quiet, Due
        <5> QED BY <5>1, <5>2 DEF Still
      <4> QED BY <4>1, <4>2, <4>3
    <3>4. pc' - 1 = pc
      BY <1>0, <2>4, <3>1, StepIsDue DEF StepDone, Running
    <3> QED BY <2>1, <2>2, <3>2, <3>3, <3>4 DEF RestInv
  <2> QED BY <1>5, <2>3, <2>4 DEF StepJudges
<1>6. CASE StepSignalsDone
  <2>1. /\ UNCHANGED <<scenario, pc, req, res, upstream, downstream, recv, sub, content, known,
                       due>>
        /\ ack = "select" /\ ack' = "stopped" /\ doing = "ready" /\ doing' = "sleep"
        /\ Running /\ Step.op = "neverMore"
    BY <1>6 DEF StepSignalsDone, Doing, Running, snapshot
  <2>2. Still => Still'
    BY <2>1 DEF Still, Quiet, Owed, Incremental
  <2>3. pc \in 1..Len(scenario.steps)
    BY <1>0, <2>1, StepIsDue DEF Running
  <2> QED BY <2>1, <2>2, <2>3 DEF RestInv, Step
<1>7. CASE StepComparesCounts
  <2>1. /\ UNCHANGED <<scenario, ack, req, res, upstream, downstream, recv, sub, content, known,
                       due>>
        /\ doing = "sleep" /\ Step.op = "neverMore"
    BY <1>7 DEF StepComparesCounts, StepDone, StepFails, snapshot, StartedInv
  <2>2. UNCHANGED Still
    BY <2>1 DEF Still, Quiet, Owed, Incremental
  <2>3. CASE StepFails
    BY <2>1, <2>2, <2>3, RestUntouched DEF StepFails
  <2>4. CASE StepDone
    BY <1>0, <2>1, <2>4, RestMovesOn DEF StepDone, StepOK, JudgingOps, TimedOps
  <2> QED BY <1>7, <2>3, <2>4 DEF StepComparesCounts
<1>8. CASE ScenarioPasses \/ UNCHANGED vars
  <2>1. UNCHANGED <<scenario, pc, doing, ack, req, res, upstream, downstream, recv, sub, content,
                    known, due>>
    BY <1>8 DEF ScenarioPasses, vars, snapshot, control
  <2>2. UNCHANGED Still
    BY <2>1 DEF Still, Quiet, Owed, Incremental
  <2> QED BY <2>1, <2>2, RestUntouched
<1> QED BY <1>1, <1>2, <1>3, <1>4, <1>5, <1>6, <1>7, <1>8 DEF Next, ClientNext, JudgeNext


-----------------------------------------------------------------------------
(* What is on its way, and what the target, the record and the scenario     *)
(* have to do with it.                                                      *)

Spot(t, n) == [type |-> t, name |-> n]
Spots == [type : Types, name : Names]
About(S, t, n) == {e \in S : e.type = t /\ e.name = n}

\* the response in the hand of the receive loop is recorded name by name
InHand == recv \in {"record", "panicked"}
Brings(r, names, e) ==
    e.type = r.type /\ e.name \in names /\ e.version = r.version /\ e.nonce = r.nonce

\* resources and removals sent and not recorded, resources asked for and not read
Coming ==
    {e \in Entries :
        \/ \E r \in Members(downstream) : Brings(r, r.names, e)
        \/ InHand /\ Brings(hand, hand.names \cap todo, e)}
Denied ==
    {p \in Spots :
        \/ \E r \in Members(downstream) : p.type = r.type /\ p.name \in r.gone
        \/ InHand /\ p.type = hand.type /\ p.name \in hand.gone \cap todo}
Asking == {p \in Spots : \E q \in UnderWay : p.type = q.type /\ p.name \in q.names}

\* Nothing goes on before the first subscription.
BeginInv ==
    /\ ack = "off" => /\ doing # "push" /\ req = <<>> /\ upstream = <<>> /\ downstream = <<>>
                      /\ recv = "receive" /\ due = {} /\ \A t \in Types : sub[t] = {}
    /\ ack # "off" => Upto # 0

\* The target's snapshot and what is wanted of it are what the steps made them.
TextInv ==
    \A t \in Types, n \in Names :
        /\ content[t][n] > 0 => Recorded(scenario, Upto, t, n, version[t])
        /\ Present(scenario, Upto, t, n) => content[t][n] > 0
        /\ Absent(scenario, Upto, t, n) => content[t][n] = 0
        /\ Covered(scenario, Upto, t, n) => n \in wanted[t]
        /\ Incremental /\ Dropped(scenario, Upto, t, n) => n \notin wanted[t]

\* What comes is what the snapshot holds: it does not change under way.
ComingInv ==
    /\ Incremental => due = {}
    /\ \A t \in Types, n \in Names :
          /\ n \notin sub[t] => known[t][n] = 0
          /\ ~Incremental /\ content[t][n] = 0 => known[t][n] = 0
    /\ \A e \in Coming :
          /\ e.version = version[e.type] /\ e.name \in Names /\ content[e.type][e.name] > 0
          /\ None < e.nonce /\ e.nonce <= nonces
    /\ \A p \in Denied : content[p.type][p.name] = 0
    /\ \A e \in resources :
          /\ e.name \in Names /\ e.nonce <= nonces
          /\ e.version # None => e.nonce # None

\* State of the world: what the target has told is on its way or recorded, and
\* all of a response that holds its whole type at one version.
WholeIs(t, v) ==
    /\ \A e \in Coming : e.type = t =>
          /\ e.version = v /\ e.nonce = nonceOf[t]
          /\ sub[t] # {} /\ Owed(t) = {} /\ t \notin due
    /\ \A n \in Names : known[t][n] > 0 => Entry(t, n, v, nonceOf[t]) \in Coming \union resources
SotwInv ==
    \A t \in Types :
        /\ sub[t] \in {{}, wanted[t]}
        /\ wanted[t] # {} => \E i \in 1..Upto : Resets(scenario.steps[i], t)
        /\ \A n \in Names :
              content[t][n] > 0 /\ known[t][n] = content[t][n]
              => \/ About(Coming, t, n) # {}
                 \/ \E e \in About(resources, t, n) : Recorded(scenario, Upto, t, n, e.version)
        /\ t \in Whole => \E v \in Known : WholeIs(t, v)

\* Incremental: the same, unless it is asked for again.
ToldInv ==
    \A t \in Types, n \in Names :
        Covered(scenario, Upto, t, n) /\ n \in sub[t] =>
          /\ content[t][n] > 0 /\ known[t][n] = content[t][n]
             => \/ About(Coming, t, n) # {} \/ Spot(t, n) \in Asking
                \/ \E e \in About(resources, t, n) : Recorded(scenario, Upto, t, n, e.version)
          /\ content[t][n] = 0 /\ known[t][n] = Gone
             => Spot(t, n) \in Denied \union Asking \union removed

\* What was given up does not come back.
DropInv ==
    \A t \in Types, n \in Names :
        Dropped(scenario, Upto, t, n) =>
          /\ Spot(t, n) \notin Asking /\ n \notin Owed(t)
          /\ About(Coming, t, n) = {} /\ About(resources, t, n) = {}

\* What there is no reason to send does not come.
FreshInv ==
    /\ \A t \in Types, n \in Names :
          \/ n \in Owed(t) /\ content[t][n] > 0
          \/ Spot(t, n) \in Asking
          \/ About(Coming, t, n) # {}
          => Fresh(scenario, Upto, t, n)
    /\ \A e \in resources :
          /\ e.version # None => Seen(scenario, Upto, e.type, e.name, e.version)
          /\ NeverPut(scenario, Upto, e.type, e.name) => e.version = None /\ e.nonce = None

\* What was put later comes in a later response.
NewerInv ==
    \A t \in Types, n, m \in Names :
        Covered(scenario, Upto, t, n) /\ Later(scenario, Upto, t, n, m) =>
          /\ \A e \in About(Coming, t, n), f \in About(resources, t, m) : f.nonce < e.nonce
          /\ n \in sub[t] /\ content[t][n] > 0 /\ known[t][n] = content[t][n]
             => \/ About(Coming, t, n) # {} \/ Spot(t, n) \in Asking
                \/ \A e \in About(resources, t, n), f \in About(resources, t, m) :
                      f.nonce < e.nonce

VariantInv ==
    /\ ~Incremental => SotwInv
    /\ Incremental => ToldInv /\ DropInv /\ FreshInv /\ NewerInv
TellingInv == TextInv /\ ComingInv /\ VariantInv

-----------------------------------------------------------------------------
(* Steps that leave all of this as it is.                                   *)

\* The scenario comes to the same as before.
TextKept ==
    /\ scenario' = scenario
    /\ \A t, n :
          /\ Present(scenario, Upto', t, n) => Present(scenario, Upto, t, n)
          /\ Absent(scenario, Upto', t, n) => Absent(scenario, Upto, t, n)
          /\ NeverPut(scenario, Upto', t, n) => NeverPut(scenario, Upto, t, n)
          /\ Covered(scenario, Upto', t, n) => Covered(scenario, Upto, t, n)
          /\ Dropped(scenario, Upto', t, n) => Dropped(scenario, Upto, t, n)
          /\ Fresh(scenario, Upto, t, n) => Fresh(scenario, Upto', t, n)
          /\ \A v : Recorded(scenario, Upto, t, n, v) => Recorded(scenario, Upto', t, n, v)
          /\ \A v : Seen(scenario, Upto, t, n, v) => Seen(scenario, Upto', t, n, v)
          /\ \A m : Later(scenario, Upto', t, n, m) => Later(scenario, Upto, t, n, m)
    /\ \A i \in 1..Upto : i \in 1..(Upto')

\* Steps of goroutines and target are at one place of the scenario.
LEMMA TextStays == ASSUME UNCHANGED <<scenario, Upto>> PROVE TextKept
  BY DEF TextKept

\* What a step that has been run makes of it.
LEMMA TextOfStep ==
    ASSUME StepOK, Due, doing # "push", pc <= Len(scenario.steps), scenario' = scenario, Upto' = pc
    PROVE  /\ Upto \in Nat /\ Upto' = Upto + 1
           /\ \A t, n : NextText(scenario, Upto, Upto', Step, t, n)
           /\ \A i \in 1..Upto : i \in 1..(Upto')
           /\ Upto' \in 1..(Upto') /\ scenario.steps[Upto'] = Step
<1>1. Upto = pc - 1 /\ Upto \in Nat /\ Upto + 1 = pc /\ pc \in 1..Len(scenario.steps)
  BY StepIsDue DEF Upto
<1>2. Step = scenario.steps[Upto'] /\ Upto' = Upto + 1 /\ Upto' \in 1..Len(scenario.steps)
  BY <1>1 DEF Step
<1>3. \A i \in 1..Upto : i \in 1..(Upto')
  BY <1>1
<1>4. Upto' \in 1..(Upto') /\ scenario.steps[Upto'] = Step
  BY <1>1, <1>2
<1>5. \A t, n : NextText(scenario, Upto, Upto', Step, t, n)
  BY <1>1, <1>2, TextNext
<1> QED BY <1>1, <1>2, <1>3, <1>4, <1>5

\* Steps that judge.
LEMMA TextJudged ==
    ASSUME StepOK, Due, doing # "push", pc <= Len(scenario.steps), scenario' = scenario,
           Upto' = pc, Step.op \in JudgingOps \union {"neverMore"}
    PROVE  TextKept
<1>1. \A t, n : /\ ~Puts(Step, t, n) /\ ~Takes(Step, t, n) /\ ~Gives(Step, t)
                /\ ~Resets(Step, t) /\ ~Covers(scenario, Step, t, n) /\ ~Drops(Step, t, n)
                /\ ~Tells(scenario, Step, t, n)
  BY DEF Puts, Takes, Gives, Resets, Covers, Drops, Tells, JudgingOps, TimedOps
<1>2. \A t, v : ~GivesAs(Step, t, v)
  BY <1>1 DEF GivesAs
<1> QED BY <1>1, <1>2, TextOfStep DEF TextKept, NextText

\* Steps that change nothing of this, wherever they leave requests and responses.
LEMMA IdleKeeps ==
    ASSUME TellingInv, TextKept, due' \subseteq due, Incremental => Asking' = Asking,
           UNCHANGED <<sub, known, content, version, nonceOf, nonces, wanted, resources, removed,
                       Coming, Denied>>
    PROVE  TellingInv'
<1>1. Incremental' = Incremental /\ \A t : Owed(t)' = Owed(t)
  BY DEF TextKept, Incremental, Owed
<1>2. TextInv'
  BY <1>1 DEF TellingInv, TextInv, TextKept
<1>3. ComingInv'
  BY <1>1 DEF TellingInv, ComingInv
<1>4. ASSUME ~Incremental PROVE SotwInv'
  <2> SUFFICES ASSUME NEW t \in Types
               PROVE  /\ sub[t] \in {{}, wanted[t]}
                      /\ wanted[t] # {} => \E i \in 1..(Upto') : Resets(scenario'.steps[i], t)
                      /\ \A n \in Names :
                            content[t][n] > 0 /\ known[t][n] = content[t][n]
                            => \/ About(Coming, t, n) # {}
                               \/ \E e \in About(resources, t, n) :
                                     Recorded(scenario', Upto', t, n, e.version)
                      /\ t \in Whole => \E v \in Known : WholeIs(t, v)'
    BY DEF SotwInv, About
  <2>1. \A v : WholeIs(t, v) => WholeIs(t, v)'
    BY <1>1 DEF WholeIs
  <2> QED BY <1>4, <2>1 DEF TellingInv, VariantInv, SotwInv, TextKept
<1>5. ASSUME Incremental PROVE ToldInv' /\ DropInv' /\ FreshInv' /\ NewerInv'
  <2>1. ToldInv'
    BY <1>5 DEF TellingInv, VariantInv, ToldInv, TextKept, About
  <2>2. DropInv'
    BY <1>1, <1>5 DEF TellingInv, VariantInv, DropInv, TextKept, About
  <2>3. FreshInv'
    BY <1>1, <1>5 DEF TellingInv, VariantInv, FreshInv, TextKept, About
  <2>4. NewerInv'
    BY <1>5 DEF TellingInv, VariantInv, NewerInv, TextKept, About
  <2> QED BY <2>1, <2>2, <2>3, <2>4
<1> QED BY <1>1, <1>2, <1>3, <1>4, <1>5 DEF TellingInv, VariantInv

\* What is coming is in the queue downstream and in the receive loop's hand.
LEMMA FlightStays ==
    ASSUME UNCHANGED <<downstream, recv, hand, todo>>
    PROVE  UNCHANGED <<Coming, Denied>>
  BY DEF Coming, Denied, InHand, Members

\* Steps of the stream's goroutines but those that record.
LEMMA StreamIdles ==
    ASSUME TellingInv, SettleInv, TypeOK, Due, StreamNext, ~RecordResource, ~RecordRemoval
    PROVE  TellingInv'
<1> USE DEF record, acker, receiver, server, snapshot, control
<1>1. /\ UNCHANGED <<scenario, Upto, doing, pushing, subscribeRequest>>
      /\ UNCHANGED <<sub, known, content, version, nonceOf, nonces, wanted, resources, removed,
                     due>>
  BY DEF StreamNext, AckSubscribes, AckTakes, AckReplies, StreamSends, RecvReceives, RecvPanics,
         RecvCounts, RecvDelivers, Upto
<1>2. UNCHANGED <<Coming, Denied>>
  <2>1. CASE AckSubscribes \/ AckTakes \/ AckReplies \/ StreamSends
    BY <2>1, FlightStays DEF AckSubscribes, AckTakes, AckReplies, StreamSends
  <2>2. CASE RecvReceives
    <3>1. /\ Members(downstream) = Members(downstream') \union {hand'}
          /\ todo' = hand'.names \union hand'.gone /\ recv = "receive" /\ recv' = "record"
      BY <2>2, MembersOf DEF RecvReceives, TypeOK, StreamOK
    <3>2. ~InHand /\ InHand'
      BY <3>1 DEF InHand
    <3>3. hand'.names \cap todo' = hand'.names /\ hand'.gone \cap todo' = hand'.gone
      BY <3>1
    <3> QED BY <3>1, <3>2, <3>3 DEF Coming, Denied
  <2>3. CASE RecvPanics
    BY <2>3 DEF RecvPanics, Coming, Denied, InHand, Members
  <2>4. CASE RecvCounts \/ RecvDelivers
    <3>1. UNCHANGED downstream /\ ~InHand' /\ (InHand => todo = {})
      BY <2>4 DEF RecvCounts, RecvDelivers, InHand
    <3> QED BY <3>1 DEF Coming, Denied, Brings, Members
  <2> QED BY <2>1, <2>2, <2>3, <2>4 DEF StreamNext
<1>3. ASSUME Incremental PROVE Asking' = Asking
  <2>1. CASE AckSubscribes
    <3>1. Members(req') = Members(req) \union {subscribeRequest} /\ UNCHANGED upstream
          /\ ack = "first" /\ ack' = "select"
      BY <2>1, MembersOf DEF AckSubscribes, TypeOK, StreamOK
    <3>2. UnderWay' = UnderWay
      BY <1>1, <3>1 DEF UnderWay, Members
    <3> QED BY <3>2 DEF Asking
  <2>2. CASE AckReplies
    <3>1. Members(req') = Members(req) \union {reply} /\ UNCHANGED upstream
          /\ ack = "reply" /\ ack' = "select"
      BY <2>2, MembersOf DEF AckReplies, TypeOK, StreamOK
    <3>2. UnderWay' = UnderWay \union {reply}
      BY <1>1, <3>1 DEF UnderWay, Members
    <3>3. UnsubscribesLater(scenario) /\ target = "conformant"
      BY <1>3 DEF Due, ExpectsWhatIsDue, StaysSubscribed, SubscribesOnce, ShortensAtRest,
                  Incremental
    <3>4. reply.names = {}
      BY <3>1, <3>3 DEF SettleInv, DeltaInv
    <3> QED BY <3>2, <3>4 DEF Asking
  <2>3. CASE StreamSends
    <3>1. Members(req) = Members(req') \union {Head(req)} /\ Head(req) \in Requests
      BY <2>3, MembersOf, QueueIsTyped DEF StreamSends, TypeOK, StreamOK
    <3>2. Members(upstream') = Members(upstream) \union {Head(req)}
      BY <2>3, <3>1, MembersOf DEF StreamSends, TypeOK, StreamOK
    <3>3. UnderWay' = UnderWay
      BY <1>1, <2>3, <3>1, <3>2 DEF StreamSends, UnderWay, Members
    <3> QED BY <3>3 DEF Asking
  <2>4. CASE ~AckSubscribes /\ ~AckReplies /\ ~StreamSends
    <3>1. UNCHANGED <<req, upstream>> /\ (ack' = "first" <=> ack = "first")
      BY <2>4 DEF StreamNext, AckTakes, RecvReceives, RecvPanics, RecvCounts, RecvDelivers
    <3>2. UnderWay' = UnderWay
      BY <1>1, <3>1 DEF UnderWay, Members
    <3> QED BY <3>2 DEF Asking
  <2> QED BY <2>1, <2>2, <2>3, <2>4
<1> QED BY <1>1, <1>2, <1>3, TextStays, IdleKeeps

-----------------------------------------------------------------------------
(* A resource or a removal is recorded.                                     *)

\* A version recorded before some reason to send is seen at that reason.
LEMMA FreshIsSeen ==
    ASSUME NEW s, NEW k \in Int, NEW t, NEW n, NEW v,
           Fresh(s, k, t, n), Recorded(s, k, t, n, v)
    PROVE  Seen(s, k, t, n, v)
<1>1. PICK j \in ToldAt(s, t, n) : j <= k /\ \A i \in GivenAt(s, t) : i <= k => i <= j
  BY DEF Fresh, Stands
<1>2. PICK i \in GivenAs(s, t, v) : i <= k
  BY DEF Recorded, Stands
<1>3. i \in GivenAt(s, t)
  BY DEF GivenAs, GivenAt, GivesAs
<1> QED BY <1>1, <1>2, <1>3 DEF Seen

\* What has been overtaken by another is not on its way.
LEMMA LaterIsStale ==
    ASSUME NEW s, NEW k \in Int, NEW t, NEW n, NEW m, Later(s, k, t, n, m)
    PROVE  ~Fresh(s, k, t, m) /\ n # m
<1>1. PICK i \in PutAt(s, t, n) : i <= k /\ \A j \in ToldAt(s, t, m) : j <= k => j < i
  BY DEF Later
<1>2. i \in GivenAt(s, t) /\ i \in Int /\ ToldAt(s, t, m) \subseteq Int
  BY DEF PutAt, Puts, GivenAt, Gives, ToldAt
<1>3. ~Fresh(s, k, t, m)
  BY <1>1, <1>2 DEF Fresh, Stands
<1>4. n # m
  <2> SUFFICES ASSUME n = m PROVE FALSE
    OBVIOUS
  <2>1. i \in ToldAt(s, t, m)
    BY DEF PutAt, ToldAt, Tells
  <2> QED BY <1>1, <1>2, <2>1
<1> QED BY <1>3, <1>4

\* Places of the scenario are numbers.
LEMMA UptoIsTyped == ASSUME StepOK PROVE Upto \in Int
  BY DEF StepOK, Upto

\* An entry that comes is put into the record.
LEMMA PutKeeps ==
    ASSUME TellingInv, TypeOK, NEW e \in Coming, resources' = Put(resources, e),
           Coming' \subseteq Coming, Coming \subseteq Coming' \union {e}, Denied' = Denied,
           removed' = IF Incremental THEN removed \ {Spot(e.type, e.name)} ELSE removed,
           Incremental => Asking' = Asking,
           UNCHANGED <<scenario, Upto, sub, known, content, version, nonceOf, nonces, wanted, due>>
    PROVE  TellingInv'
<1>1. Incremental' = Incremental /\ \A t : Owed(t)' = Owed(t)
  BY DEF Incremental, Owed
<1>2. /\ e.type \in Types /\ e.name \in Names /\ e.version = version[e.type]
      /\ content[e.type][e.name] > 0 /\ None < e.nonce /\ e.nonce <= nonces
      /\ Recorded(scenario, Upto, e.type, e.name, e.version)
      /\ e \in Entries
  BY DEF Coming, Entries, TellingInv, ComingInv, TextInv
<1>3. \A f \in resources' : f = e \/ (f \in resources /\ (f.type # e.type \/ f.name # e.name))
  BY DEF Put
<1>4. e \in resources'
      /\ \A f \in resources : f \in resources' \/ (f.type = e.type /\ f.name = e.name)
  BY DEF Put
<1>5. TextInv'
  BY <1>1 DEF TellingInv, TextInv
<1>6. ComingInv'
  BY <1>1, <1>2, <1>3 DEF TellingInv, ComingInv, None
<1>7. ASSUME NEW t \in Types, NEW n \in Names,
             \/ About(Coming, t, n) # {}
             \/ \E f \in About(resources, t, n) : Recorded(scenario, Upto, t, n, f.version)
      PROVE  \/ About(Coming', t, n) # {}
             \/ \E f \in About(resources', t, n) : Recorded(scenario, Upto, t, n, f.version)
  <2>1. CASE e.type = t /\ e.name = n
    BY <1>2, <1>4, <2>1 DEF About
  <2>2. CASE ~(e.type = t /\ e.name = n)
    BY <1>4, <1>7, <2>2 DEF About
  <2> QED BY <2>1, <2>2
<1>8. ASSUME ~Incremental PROVE SotwInv'
  <2>1. ASSUME NEW t \in Types, NEW v \in Known, WholeIs(t, v) PROVE WholeIs(t, v)'
    <3>1. \A f \in Coming' : f.type = t =>
             /\ f.version = v /\ f.nonce = nonceOf[t]
             /\ sub[t] # {} /\ Owed(t) = {} /\ t \notin due
      BY <2>1 DEF WholeIs
    <3>2. ASSUME NEW n \in Names, known[t][n] > 0
          PROVE  Entry(t, n, v, nonceOf[t]) \in Coming' \union resources'
      <4> DEFINE f == Entry(t, n, v, nonceOf[t])
      <4>1. f \in Coming \union resources /\ f.type = t /\ f.name = n
        BY <2>1, <3>2 DEF WholeIs, Entry
      <4>2. CASE e.type = t /\ e.name = n
        <5>1. e.version = v /\ e.nonce = nonceOf[t]
          BY <2>1, <4>2 DEF WholeIs
        <5>2. f = e
          BY <1>2, <4>2, <5>1 DEF Entry, Entries
        <5> QED BY <1>4, <5>2
      <4>3. CASE ~(e.type = t /\ e.name = n)
        <5> HIDE DEF f
        <5>1. f # e /\ f \in Coming' \union resources'
          BY <1>4, <4>1, <4>3
        <5> QED BY <5>1 DEF f
      <4> QED BY <4>2, <4>3
    <3> QED BY <1>1, <3>1, <3>2 DEF WholeIs
  <2> QED BY <1>7, <1>8, <2>1 DEF TellingInv, VariantInv, SotwInv
<1>9. ASSUME Incremental PROVE ToldInv'
  <2> SUFFICES ASSUME NEW t \in Types, NEW n \in Names, Covered(scenario, Upto, t, n), n \in sub[t]
               PROVE  /\ content[t][n] > 0 /\ known[t][n] = content[t][n]
                         => \/ About(Coming', t, n) # {} \/ Spot(t, n) \in Asking
                            \/ \E f \in About(resources', t, n) :
                                  Recorded(scenario, Upto, t, n, f.version)
                      /\ content[t][n] = 0 /\ known[t][n] = Gone
                         => Spot(t, n) \in Denied \union Asking \union removed'
    BY <1>9 DEF ToldInv
  <2>1. content[t][n] = 0 => Spot(t, n) # Spot(e.type, e.name)
    BY <1>2 DEF Spot
  <2> QED BY <1>7, <1>9, <2>1 DEF TellingInv, VariantInv, ToldInv
<1>10. ASSUME Incremental PROVE DropInv'
  <2> SUFFICES ASSUME NEW t \in Types, NEW n \in Names, Dropped(scenario, Upto, t, n)
               PROVE  /\ Spot(t, n) \notin Asking /\ n \notin Owed(t)
                      /\ About(Coming', t, n) = {} /\ About(resources', t, n) = {}
    BY <1>1, <1>10 DEF DropInv
  <2>1. /\ Spot(t, n) \notin Asking /\ n \notin Owed(t)
        /\ About(Coming, t, n) = {} /\ About(resources, t, n) = {}
    BY <1>10 DEF TellingInv, VariantInv, DropInv
  <2> QED BY <1>3, <2>1 DEF About
<1>11. ASSUME Incremental PROVE FreshInv'
  <2>1. Fresh(scenario, Upto, e.type, e.name)
    BY <1>2, <1>11 DEF TellingInv, VariantInv, FreshInv, About
  <2>2. Seen(scenario, Upto, e.type, e.name, e.version)
    BY <1>2, <2>1, FreshIsSeen, UptoIsTyped DEF TypeOK
  <2>3. ~NeverPut(scenario, Upto, e.type, e.name)
    BY <1>2 DEF TellingInv, TextInv, Absent
  <2>4. \A t, n : About(Coming', t, n) # {} => About(Coming, t, n) # {}
    BY DEF About
  <2> QED BY <1>1, <1>3, <1>11, <2>2, <2>3, <2>4 DEF TellingInv, VariantInv, FreshInv
<1>12. ASSUME Incremental PROVE NewerInv'
  <2> SUFFICES ASSUME NEW t \in Types, NEW n \in Names, NEW m \in Names,
                      Covered(scenario, Upto, t, n), Later(scenario, Upto, t, n, m)
               PROVE  /\ \A c \in About(Coming', t, n), f \in About(resources', t, m) :
                            f.nonce < c.nonce
                      /\ n \in sub[t] /\ content[t][n] > 0 /\ known[t][n] = content[t][n]
                         => \/ About(Coming', t, n) # {} \/ Spot(t, n) \in Asking
                            \/ \A c \in About(resources', t, n), f \in About(resources', t, m) :
                                  f.nonce < c.nonce
    BY <1>12 DEF NewerInv
  <2>1. /\ \A c \in About(Coming, t, n), f \in About(resources, t, m) : f.nonce < c.nonce
        /\ n \in sub[t] /\ content[t][n] > 0 /\ known[t][n] = content[t][n]
           => \/ About(Coming, t, n) # {} \/ Spot(t, n) \in Asking
              \/ \A c \in About(resources, t, n), f \in About(resources, t, m) :
                    f.nonce < c.nonce
    BY <1>12 DEF TellingInv, VariantInv, NewerInv
  <2>2. ~Fresh(scenario, Upto, t, m) /\ n # m
    BY LaterIsStale, UptoIsTyped DEF TypeOK
  <2>3. ~(e.type = t /\ e.name = m)
    BY <1>12, <2>2 DEF TellingInv, VariantInv, FreshInv, About
  <2>4. About(resources', t, m) \subseteq About(resources, t, m)
    BY <1>3, <2>3 DEF About
  <2>5. CASE e.type = t /\ e.name = n
    <3>1. e \in About(Coming, t, n) /\ About(resources', t, n) = {e}
          /\ About(Coming', t, n) \subseteq About(Coming, t, n)
      BY <1>3, <1>4, <2>5 DEF About
    <3> QED BY <2>1, <2>4, <3>1
  <2>6. CASE ~(e.type = t /\ e.name = n)
    <3>1. About(resources', t, n) = About(resources, t, n)
          /\ About(Coming', t, n) = About(Coming, t, n)
      BY <1>3, <1>4, <2>6 DEF About
    <3> QED BY <2>1, <2>4, <3>1
  <2> QED BY <2>5, <2>6
<1> QED BY <1>1, <1>5, <1>6, <1>8, <1>9, <1>10, <1>11, <1>12 DEF TellingInv, VariantInv

\* The receive loop records one name, or one removal.
LEMMA RecordingKeeps ==
    ASSUME TellingInv, TypeOK, RecordResource \/ RecordRemoval
    PROVE  TellingInv'
<1> USE DEF acker, server, snapshot, control
<1>1. /\ UNCHANGED <<scenario, Upto, sub, known, content, version, nonceOf, nonces, wanted, due,
                     downstream, hand, recv>>
      /\ recv = "record" /\ InHand /\ InHand' /\ hand \in Responses
    BY DEF RecordResource, RecordRemoval, Upto, InHand, TypeOK, StreamOK
<1>2. UNCHANGED Asking
  BY DEF RecordResource, RecordRemoval, Asking, UnderWay, Members
<1>3. CASE RecordResource
  <2>1. PICK n \in todo \cap hand.names :
            /\ todo' = todo \ {n}
            /\ resources' = Put(resources, Entry(hand.type, n, hand.version, hand.nonce))
            /\ removed' = IF Incremental THEN removed \ {[type |-> hand.type, name |-> n]}
                                         ELSE removed
    BY <1>3 DEF RecordResource
  <2> DEFINE e == Entry(hand.type, n, hand.version, hand.nonce)
  <2>2. /\ e.type = hand.type /\ e.name = n /\ e.version = hand.version /\ e.nonce = hand.nonce
        /\ e \in Entries
    BY <1>1, <2>1 DEF Entry, Entries, Responses
  <2>3. \A f \in Entries : Brings(hand, {n}, f) => f = e
    BY DEF Brings, Entries, Entry
  <2> HIDE DEF e
  <2>4. e \in Coming
    BY <1>1, <2>1, <2>2 DEF Coming, Brings
  <2>5. Coming' \subseteq Coming
    BY <1>1, <2>1 DEF Coming, Brings, Members
  <2>6. Coming \subseteq Coming' \union {e}
    <3> SUFFICES ASSUME NEW f \in Coming, f # e PROVE f \in Coming'
      OBVIOUS
    <3>1. f \in Entries
      BY DEF Coming
    <3>2. CASE \E r \in Members(downstream) : Brings(r, r.names, f)
      BY <1>1, <3>1, <3>2 DEF Coming, Members
    <3>3. CASE Brings(hand, hand.names \cap todo, f)
      <4>1. f.name # n
        BY <2>3, <3>1, <3>3 DEF Brings
      <4>2. Brings(hand, hand.names \cap todo', f)
        BY <2>1, <3>3, <4>1 DEF Brings
      <4> QED BY <1>1, <3>1, <4>2 DEF Coming
    <3> QED BY <3>2, <3>3 DEF Coming
  <2>7. content[hand.type][n] # 0
    BY <2>2, <2>4 DEF TellingInv, ComingInv
  <2>8. Denied' = Denied
    <3>1. Denied' \subseteq Denied
      BY <1>1, <2>1 DEF Denied, Members
    <3>2. ASSUME NEW p \in Denied PROVE p \in Denied'
      <4>1. p \in Spots /\ content[p.type][p.name] = 0
        BY DEF Denied, TellingInv, ComingInv
      <4>2. CASE p.type = hand.type /\ p.name \in hand.gone \cap todo
        <5>1. p.name # n
          BY <2>7, <4>1, <4>2
        <5> QED BY <1>1, <2>1, <4>1, <4>2, <5>1 DEF Denied
      <4>3. CASE \E r \in Members(downstream) : p.type = r.type /\ p.name \in r.gone
        BY <1>1, <4>1, <4>3 DEF Denied, Members
      <4> QED BY <4>2, <4>3 DEF Denied
    <3> QED BY <3>1, <3>2
  <2>9. /\ resources' = Put(resources, e)
        /\ removed' = IF Incremental THEN removed \ {Spot(e.type, e.name)} ELSE removed
    BY <2>1, <2>2 DEF e, Spot
  <2> QED BY <1>1, <1>2, <2>4, <2>5, <2>6, <2>8, <2>9, PutKeeps
<1>4. CASE RecordRemoval
  <2>1. PICK n \in todo \cap hand.gone :
            todo' = todo \ {n} /\ removed' = removed \union {Spot(hand.type, n)}
    BY <1>4 DEF RecordRemoval, Spot
  <2>2. resources' = resources /\ todo \cap hand.names = {}
    BY <1>4 DEF RecordRemoval
  <2>3. Coming' = Coming
    BY <1>1, <2>1, <2>2 DEF Coming, Brings, Members
  <2>4. Denied' \subseteq Denied
    BY <1>1, <2>1 DEF Denied, Members
  <2>5. ASSUME NEW p \in Denied PROVE p \in Denied' \union removed'
    <3>1. p \in Spots
      BY DEF Denied
    <3>2. CASE p.type = hand.type /\ p.name = n
      BY <2>1, <3>1, <3>2 DEF Spot, Spots
    <3>3. CASE p.type = hand.type /\ p.name \in hand.gone \cap todo /\ p.name # n
      BY <1>1, <2>1, <3>1, <3>3 DEF Denied
    <3>4. CASE \E r \in Members(downstream) : p.type = r.type /\ p.name \in r.gone
      BY <1>1, <3>1, <3>4 DEF Denied, Members
    <3> QED BY <3>2, <3>3, <3>4 DEF Denied
  <2>6. Incremental' = Incremental /\ \A t : Owed(t)' = Owed(t)
    BY <1>1 DEF Incremental, Owed
  <2>7. TextInv' /\ ComingInv'
    BY <1>1, <2>2, <2>3, <2>4, <2>6 DEF TellingInv, TextInv, ComingInv
  <2>8. ASSUME ~Incremental PROVE SotwInv'
    <3>1. \A t, v : WholeIs(t, v) => WholeIs(t, v)'
      BY <1>1, <2>2, <2>3, <2>6 DEF WholeIs
    <3> QED BY <1>1, <2>2, <2>3, <2>8, <3>1 DEF TellingInv, VariantInv, SotwInv
  <2>9. ASSUME Incremental PROVE ToldInv' /\ DropInv' /\ FreshInv' /\ NewerInv'
    <3>1. Denied \union removed \subseteq (Denied \union removed)'
      BY <2>1, <2>5
    <3>2. ToldInv'
      BY <1>1, <1>2, <2>2, <2>3, <2>9, <3>1 DEF TellingInv, VariantInv, ToldInv
    <3>3. DropInv' /\ FreshInv' /\ NewerInv'
      BY <1>1, <1>2, <2>2, <2>3, <2>6, <2>9
         DEF TellingInv, VariantInv, DropInv, FreshInv, NewerInv
    <3> QED BY <3>2, <3>3
  <2> QED BY <2>6, <2>7, <2>8, <2>9 DEF TellingInv, VariantInv
<1> QED BY <1>3, <1>4

-----------------------------------------------------------------------------
(* The target reads and answers.                                            *)

\* The scenarios are of the kinds that theorem SubscriptionSettlesHolds is for.
LEMMA DueVariant ==
    ASSUME Due
    PROVE  /\ Incremental => UnsubscribesLater(scenario) /\ target = "conformant"
           /\ ~Incremental => SubscribesOnce(scenario)
  BY DEF Due, ExpectsWhatIsDue, StaysSubscribed, SubscribesOnce, ShortensAtRest,
         UnsubscribesLater, Incremental

\* The first request upstream is read.
LEMMA ReadIsUnderWay ==
    ASSUME TypeOK, TargetReads
    PROVE  /\ Head(upstream) \in Requests /\ UnderWay = UnderWay' \union {Head(upstream)}
           /\ UNCHANGED <<scenario, Upto, content, version, wanted, resources, removed>>
           /\ UNCHANGED <<Coming, Denied>>
<1>1. /\ Members(upstream) = Members(upstream') \union {Head(upstream)}
      /\ Head(upstream) \in Requests
  BY MembersOf, QueueIsTyped DEF TargetReads, TypeOK, StreamOK
<1>2. UNCHANGED <<scenario, pc, wanted, req, doing, pushing, ack, subscribeRequest, content, version,
                  resources, removed, downstream, recv, hand, todo>>
  BY DEF TargetReads, record, acker, receiver, snapshot, control
<1> QED BY <1>1, <1>2, FlightStays DEF UnderWay, Members, Upto

\* A subscription that is read is what is wanted, or stale and ignored.
LEMMA SotwReadKeeps ==
    ASSUME TellingInv, SettleInv, TypeOK, Due, ~Incremental, TargetReads
    PROVE  TellingInv'
<1> DEFINE q == Head(upstream)
<1>1. /\ q \in Requests /\ q \in UnderWay
      /\ UNCHANGED <<scenario, Upto, content, version, wanted, resources, removed, Coming, Denied>>
  BY ReadIsUnderWay
<1>2. q.type \in Types /\ wanted[q.type] = Wanted(q.names)
  BY <1>1, DueVariant DEF Requests, SettleInv, OnceInv, Repeated
<1> DEFINE u == q.type
<1>3. TargetReadsSotw /\ sub \in [Types -> Asked] /\ known \in [Types -> [Names -> Int]]
  BY DEF TargetReads, TypeOK, TargetOK
<1>4. CASE q.nonce \notin {None, nonceOf[u]}
  <2>1. UNCHANGED <<sub, known, nonceOf, nonces, due>>
    BY <1>3, <1>4 DEF TargetReadsSotw, server
  <2> QED BY <1>1, <2>1, TextStays, IdleKeeps
<1>5. CASE q.nonce \in {None, nonceOf[u]}
  <2>1. /\ sub' = [sub EXCEPT ![u] = wanted[u]]
        /\ known' = [known EXCEPT ![u] = [n \in Names |-> IF n \in wanted[u] THEN @[n] ELSE 0]]
        /\ due' = IF wanted[u] # sub[u] THEN due \union {u} ELSE due
        /\ UNCHANGED <<nonceOf, nonces>>
    BY <1>2, <1>3, <1>5 DEF TargetReadsSotw
  <2> HIDE DEF q, u
  <2>2. sub[u] \in {{}, wanted[u]} /\ u \in Types
    BY <1>2 DEF TellingInv, VariantInv, SotwInv, u
  <2>3. \A n \in Names : n \notin wanted[u] => known[u][n] = 0
    BY <2>2 DEF TellingInv, ComingInv
  <2>4. known' = known
    <3>1. [n \in Names |-> IF n \in wanted[u] THEN known[u][n] ELSE 0] = known[u]
      BY <1>3, <2>2, <2>3
    <3> QED BY <1>3, <2>1, <3>1
  <2>5. CASE wanted[u] = sub[u]
    <3>1. UNCHANGED <<sub, due>>
      BY <1>3, <2>1, <2>5
    <3> QED BY <1>1, <2>1, <2>4, <3>1, TextStays, IdleKeeps
  <2>6. CASE wanted[u] # sub[u]
    <3>1. /\ sub[u] = {} /\ sub'[u] = wanted[u] /\ \A t \in Types : t # u => sub'[t] = sub[t]
          /\ due' = due \union {u}
      BY <1>3, <2>1, <2>2, <2>6
    <3>2. Incremental' = Incremental /\ \A t \in Types : t # u => Owed(t)' = Owed(t)
      BY <1>1, <2>4, <3>1 DEF Incremental, Owed
    <3>3. TextInv'
      BY <1>1, <3>2 DEF TellingInv, TextInv
    <3>4. ComingInv'
      BY <1>1, <2>1, <2>4, <3>1, <3>2 DEF TellingInv, ComingInv
    <3>5. ASSUME NEW t \in Types, NEW v, WholeIs(t, v) PROVE WholeIs(t, v)'
      <4>1. CASE t = u
        <5>1. \A e \in Coming : e.type # u
          BY <3>1, <3>5, <4>1 DEF WholeIs
        <5> QED BY <1>1, <2>1, <2>4, <3>5, <4>1, <5>1 DEF WholeIs
      <4>2. CASE t # u
        BY <1>1, <2>1, <2>4, <3>1, <3>2, <3>5, <4>2 DEF WholeIs
      <4> QED BY <4>1, <4>2
    <3>6. SotwInv'
      BY <1>1, <2>4, <3>1, <3>5 DEF TellingInv, VariantInv, SotwInv
    <3> QED BY <3>2, <3>3, <3>4, <3>6 DEF TellingInv, VariantInv
  <2> QED BY <2>5, <2>6
<1> QED BY <1>4, <1>5

\* What a delta request asks for is owed again when it is read.
LEMMA DeltaReadKeeps ==
    ASSUME TellingInv, TypeOK, Incremental, TargetReads
    PROVE  TellingInv'
<1> DEFINE q == Head(upstream)
<1>1. /\ q \in Requests /\ UnderWay = UnderWay' \union {q}
      /\ UNCHANGED <<scenario, Upto, content, version, wanted, resources, removed, Coming, Denied>>
  BY ReadIsUnderWay
<1>2. /\ sub' = [sub EXCEPT ![q.type] = (@ \union q.names) \ q.drop]
      /\ known' = [known EXCEPT ![q.type] =
                     [n \in Names |-> IF n \in q.names \union q.drop THEN 0 ELSE @[n]]]
      /\ UNCHANGED <<nonceOf, nonces, due>>
  BY DEF TargetReads, TargetReadsDelta
<1> HIDE DEF q
<1>3. q.type \in Types /\ sub \in [Types -> Asked] /\ known \in [Types -> [Names -> Int]]
  BY <1>1 DEF TypeOK, TargetOK, Requests
<1>4. ASSUME NEW t \in Types, NEW n \in Names
      PROVE  /\ t = q.type /\ n \in q.names \union q.drop =>
                   known'[t][n] = 0 /\ (n \in sub'[t] => n \in q.names) /\ (n \in q.drop => n \notin sub'[t])
             /\ ~(t = q.type /\ n \in q.names \union q.drop) =>
                   known'[t][n] = known[t][n] /\ (n \in sub'[t] <=> n \in sub[t])
  BY <1>2, <1>3
<1>5. Asking' \subseteq Asking
  BY <1>1 DEF Asking
<1>6. \A t \in Types, n \in Names :
          Spot(t, n) \in Asking <=> Spot(t, n) \in Asking' \/ (t = q.type /\ n \in q.names)
  BY <1>1 DEF Asking, Spot, Spots
<1>7. Incremental' = Incremental
  BY <1>1 DEF Incremental
<1>8. ASSUME NEW t \in Types, NEW n \in Names, n \in Owed(t)'
      PROVE  n \in Owed(t) \/ Spot(t, n) \in Asking
  <2>1. CASE t = q.type /\ n \in q.names \union q.drop
    <3>1. n \in sub'[t]
      BY <1>8 DEF Owed
    <3> QED BY <1>4, <1>6, <2>1, <3>1
  <2>2. CASE ~(t = q.type /\ n \in q.names \union q.drop)
    BY <1>1, <1>4, <1>7, <1>8, <2>2 DEF Owed
  <2> QED BY <2>1, <2>2
<1>9. TextInv'
  BY <1>1, <1>7 DEF TellingInv, TextInv
<1>10. ComingInv'
  <2>1. \A t \in Types, n \in Names : n \notin sub'[t] => known'[t][n] = 0
    BY <1>4 DEF TellingInv, ComingInv
  <2> QED BY <1>1, <1>2, <1>7, <2>1 DEF TellingInv, ComingInv
<1>11. ASSUME NEW t \in Types, NEW n \in Names, n \in sub'[t],
              (content[t][n] > 0 /\ known'[t][n] = content[t][n]) \/ known'[t][n] = Gone
       PROVE  /\ n \in sub[t] /\ known'[t][n] = known[t][n]
              /\ Spot(t, n) \in Asking => Spot(t, n) \in Asking'
  <2>1. known'[t][n] # 0
    BY <1>11 DEF Gone
  <2> QED BY <1>4, <1>6, <1>11, <2>1
<1>12. ToldInv'
  BY <1>1, <1>11 DEF TellingInv, VariantInv, ToldInv
<1>13. DropInv'
  BY <1>1, <1>5, <1>8 DEF TellingInv, VariantInv, DropInv
<1>14. FreshInv'
  BY <1>1, <1>5, <1>8 DEF TellingInv, VariantInv, FreshInv
<1>15. NewerInv'
  BY <1>1, <1>11 DEF TellingInv, VariantInv, NewerInv
<1> QED BY <1>7, <1>9, <1>10, <1>12, <1>13, <1>14, <1>15 DEF TellingInv, VariantInv

\* What a response of a conformant target adds to what comes.
Answers(t, names, found) ==
    /\ found = {n \in names : content[t][n] > 0} /\ names \subseteq sub[t] \cap Names
    /\ Incremental => names \subseteq Owed(t)
    /\ ~Incremental => found = names /\ (t \in Whole => names = Existing(t))
    /\ Owed(t) # {} \/ t \in due
    /\ Coming' = Coming \union {Entry(t, n, version[t], nonces + 1) : n \in found}
    /\ Denied' = Denied \union {Spot(t, n) : n \in names \ found}
    /\ nonces' = nonces + 1 /\ nonceOf' = [nonceOf EXCEPT ![t] = nonces + 1]
    /\ \A u \in Types, n \in Names :
          known'[u][n] = IF u = t /\ n \in found THEN content[t][n]
                         ELSE IF u = t /\ n \in names THEN Gone ELSE known[u][n]
    /\ due' = due \ {t}
    /\ UNCHANGED <<scenario, Upto, sub, content, version, wanted, resources, removed, Asking>>

\* A conformant target answers with what it has of a type.
LEMMA RespondsAnswers ==
    ASSUME TellingInv, TypeOK, TargetResponds
    PROVE  \E t \in Types : \E names, found : Answers(t, names, found)
<1>0. PICK t \in Types : /\ Owed(t) # {} \/ t \in due
                         /\ \E names \in Batches(t) : TargetSends(t, names)
  BY DEF TargetResponds
<1>1. PICK names \in Batches(t) : TargetSends(t, names)
  BY <1>0
<1> DEFINE found == {n \in names : content[t][n] > 0}
           r == Response(t, found, names \ found, version[t], nonces + 1)
<1>2. names \subseteq sub[t] \cap Names
  BY <1>1 DEF Batches, Owed, Existing
<1>3. ASSUME Incremental PROVE names \subseteq Owed(t)
  <2>1. Owed(t) # {}
    BY <1>0, <1>3 DEF TellingInv, ComingInv
  <2> QED BY <1>1, <1>3, <2>1 DEF Batches
<1>4. ASSUME ~Incremental PROVE found = names /\ (t \in Whole => names = Existing(t))
  <2>1. names \subseteq Owed(t) \union Existing(t)
    BY <1>1, <1>4 DEF Batches
  <2>2. \A n \in Owed(t) \union Existing(t) : content[t][n] > 0
    BY <1>4 DEF Owed, Existing
  <2> QED BY <1>1, <1>4, <2>1, <2>2 DEF Batches
<1>5. /\ nonces' = nonces + 1 /\ nonceOf' = [nonceOf EXCEPT ![t] = nonces + 1]
      /\ downstream' = Append(downstream, r)
      /\ known' = [known EXCEPT ![t] = [n \in Names |->
             IF n \in found THEN content[t][n] ELSE IF n \in names THEN Gone ELSE @[n]]]
      /\ due' = due \ {t} /\ UNCHANGED sub
  BY <1>1 DEF TargetSends
<1>6. UNCHANGED <<scenario, pc, wanted, req, upstream, doing, pushing, ack, subscribeRequest,
                  content, version, resources, removed, recv, hand, todo>>
  BY DEF TargetResponds, record, acker, receiver, snapshot, control
<1>7. /\ r.type = t /\ r.names = found /\ r.gone = names \ found /\ r.version = version[t]
      /\ r.nonce = nonces + 1
  BY DEF Response
<1>8. r \in Responses /\ found \subseteq Names /\ version[t] \in Known /\ nonces + 1 \in Nat
  BY <1>0, <1>2, <1>7 DEF Responses, Response, TypeOK, TargetOK
<1> HIDE DEF r, found
<1>9. Members(downstream') = Members(downstream) \union {r} /\ InHand' = InHand
  BY <1>5, <1>6, <1>8, MembersOf DEF TypeOK, StreamOK, InHand
<1>10. Coming' = Coming \union {Entry(t, n, version[t], nonces + 1) : n \in found}
  <2>1. ASSUME NEW e
        PROVE  e \in Entries /\ Brings(r, r.names, e)
                  <=> e \in {Entry(t, n, version[t], nonces + 1) : n \in found}
    <3>1. ASSUME NEW n \in found, e = Entry(t, n, version[t], nonces + 1)
          PROVE  e \in Entries /\ Brings(r, r.names, e)
      BY <1>7, <1>8, <3>1 DEF Entries, Entry, Brings
    <3>2. ASSUME e \in Entries, Brings(r, r.names, e)
          PROVE  e.name \in found /\ e = Entry(t, e.name, version[t], nonces + 1)
      BY <1>7, <3>2 DEF Entries, Entry, Brings
    <3> QED BY <3>1, <3>2
  <2>2. \A e : e \in Coming' <=> e \in Coming \/ (e \in Entries /\ Brings(r, r.names, e))
    BY <1>6, <1>9 DEF Coming
  <2> QED BY <2>1, <2>2
<1>11. Denied' = Denied \union {Spot(t, n) : n \in names \ found}
  <2>1. ASSUME NEW p
        PROVE  p \in Spots /\ p.type = r.type /\ p.name \in r.gone
                  <=> p \in {Spot(t, n) : n \in names \ found}
    <3>1. ASSUME NEW n \in names \ found, p = Spot(t, n)
          PROVE  p \in Spots /\ p.type = r.type /\ p.name \in r.gone
      BY <1>2, <1>7, <3>1 DEF Spots, Spot
    <3>2. ASSUME p \in Spots, p.type = r.type, p.name \in r.gone
          PROVE  p.name \in names \ found /\ p = Spot(t, p.name)
      BY <1>7, <3>2 DEF Spots, Spot
    <3> QED BY <3>1, <3>2
  <2>2. \A p : p \in Denied' <=>
                  p \in Denied \/ (p \in Spots /\ p.type = r.type /\ p.name \in r.gone)
    BY <1>6, <1>9 DEF Denied
  <2> QED BY <2>1, <2>2
<1>12. ASSUME NEW u \in Types, NEW n \in Names
       PROVE  known'[u][n] = IF u = t /\ n \in found THEN content[t][n]
                             ELSE IF u = t /\ n \in names THEN Gone ELSE known[u][n]
  BY <1>5 DEF TypeOK, TargetOK
<1>13. UNCHANGED <<Upto, Asking>>
  BY <1>6 DEF Upto, Asking, UnderWay, Members
<1>14. found = {n \in names : content[t][n] > 0}
  BY DEF found
<1>15. Answers(t, names, found)
  BY <1>0, <1>2, <1>3, <1>4, <1>5, <1>6, <1>10, <1>11, <1>12, <1>13, <1>14 DEF Answers
<1> QED BY <1>0, <1>15

\* What a conformant target sends was owed, or asked for.
LEMMA AnswersKeep ==
    ASSUME TellingInv, TypeOK, NEW t \in Types, NEW names, NEW found, Answers(t, names, found)
    PROVE  TellingInv'
<1> DEFINE c(n) == Entry(t, n, version[t], nonces + 1)
<1>1. /\ sub \in [Types -> Asked] /\ known \in [Types -> [Names -> Int]] /\ nonces \in Nat
      /\ content \in [Types -> [Names -> Nat]] /\ version[t] \in Known
      /\ nonceOf \in [Types -> Nat] /\ nonces + 1 \in Nat /\ ~(nonces + 1 <= nonces)
  BY DEF TypeOK, TargetOK
<1>2. /\ found = {n \in names : content[t][n] > 0} /\ names \subseteq sub[t] \cap Names
      /\ found \subseteq sub[t] \cap Names
      /\ nonces' = nonces + 1 /\ due' = due \ {t}
      /\ UNCHANGED <<scenario, Upto, sub, content, version, wanted, resources, removed, Asking>>
      /\ Incremental' = Incremental
  BY DEF Answers, Incremental
<1>3. \A n : c(n).type = t /\ c(n).name = n /\ c(n).version = version[t] /\ c(n).nonce = nonces + 1
  BY DEF Entry
<1>4. /\ \A n \in found : c(n) \in Coming'
      /\ Coming \subseteq Coming'
      /\ \A e \in Coming' : e \in Coming \/ \E n \in found : e = c(n)
  BY DEF Answers
<1>5. /\ \A n \in names \ found : Spot(t, n) \in Denied'
      /\ Denied \subseteq Denied'
      /\ \A p \in Denied' : p \in Denied \/ (p.type = t /\ p.name \in names \ found)
  BY DEF Answers, Spot
<1> HIDE DEF c
<1>6. ASSUME NEW u \in Types, NEW n \in Names
      PROVE  /\ u = t /\ n \in found => known'[u][n] = content[u][n] /\ content[u][n] > 0
             /\ u = t /\ n \in names \ found => known'[u][n] = Gone /\ content[u][n] = 0
             /\ ~(u = t /\ n \in names) => known'[u][n] = known[u][n]
  BY <1>1, <1>2 DEF Answers
<1>7. \A u \in Types : Owed(u)' \subseteq Owed(u)
  <2> SUFFICES ASSUME NEW u \in Types, NEW n, n \in Owed(u)' PROVE n \in Owed(u)
    OBVIOUS
  <2>1. /\ n \in sub[u] \cap Names
        /\ IF content[u][n] > 0 THEN known'[u][n] # content[u][n]
                                ELSE Incremental /\ known'[u][n] # Gone
    BY <1>2 DEF Owed
  <2>2. ~(u = t /\ n \in names)
    <3>1. content[t][n] \in Nat
      BY <1>1, <2>1
    <3> QED BY <1>2, <1>6, <2>1, <3>1
  <2> QED BY <1>6, <2>1, <2>2 DEF Owed
<1>8. ASSUME NEW u \in Types, NEW n \in Names, About(Coming', u, n) # {}
      PROVE  About(Coming, u, n) # {} \/ (u = t /\ n \in found)
  BY <1>3, <1>4, <1>8 DEF About
<1>9. \A u, n : About(Coming, u, n) # {} => About(Coming', u, n) # {}
  BY <1>4 DEF About
<1>10. \A n \in found : About(Coming', t, n) # {}
  BY <1>3, <1>4 DEF About
<1>11. TextInv'
  BY <1>2 DEF TellingInv, TextInv
<1>12. ComingInv'
  <2>1. ASSUME NEW u \in Types, NEW n \in Names
        PROVE  /\ n \notin sub[u] => known'[u][n] = 0
               /\ ~Incremental /\ content[u][n] = 0 => known'[u][n] = 0
    <3>1. u = t /\ n \in names => n \in sub[u] /\ (~Incremental => n \in found)
      BY <1>2 DEF Answers
    <3> QED BY <1>6, <3>1 DEF TellingInv, ComingInv
  <2>2. ASSUME NEW e \in Coming'
        PROVE  /\ e.version = version[e.type] /\ e.name \in Names /\ content[e.type][e.name] > 0
               /\ None < e.nonce /\ e.nonce <= nonces + 1
    <3>1. CASE e \in Coming
      <4>1. e.nonce \in Nat
        BY <3>1 DEF Coming, Entries
      <4> QED BY <1>1, <3>1, <4>1 DEF TellingInv, ComingInv
    <3>2. CASE e \notin Coming
      <4>1. PICK n \in found : e = c(n)
        BY <1>4, <3>2
      <4> QED BY <1>1, <1>2, <1>3, <4>1 DEF None
    <3> QED BY <3>1, <3>2
  <2>3. \A p \in Denied' : content[p.type][p.name] = 0
    BY <1>2, <1>5, <1>6 DEF TellingInv, ComingInv
  <2>4. \A e \in resources : e.nonce <= nonces + 1
    BY <1>1 DEF TellingInv, ComingInv, TypeOK, RecordOK, Entries
  <2>5. Incremental => due' = {}
    BY <1>2 DEF TellingInv, ComingInv
  <2> QED BY <1>2, <2>1, <2>2, <2>3, <2>4, <2>5 DEF TellingInv, ComingInv
<1>13. ASSUME ~Incremental PROVE SotwInv'
  <2>1. ASSUME t \in Whole, NEW v, v = version[t] PROVE WholeIs(t, v)'
    <3>1. found = Existing(t) /\ names = found
      BY <1>13, <2>1 DEF Answers
    <3>2. PICK w \in Known : WholeIs(t, w)
      BY <1>13, <2>1 DEF TellingInv, VariantInv, SotwInv
    <3>3. \A e \in Coming : e.type # t
      BY <3>2 DEF WholeIs, Answers
    <3>4. nonceOf'[t] = nonces + 1
      BY <1>1 DEF Answers
    <3>5. Owed(t)' = {}
      <4> SUFFICES ASSUME NEW n, n \in Owed(t)' PROVE FALSE
        OBVIOUS
      <4>1. n \in sub[t] \cap Names /\ content[t][n] > 0 /\ known'[t][n] # content[t][n]
        BY <1>2, <1>13 DEF Owed
      <4> QED BY <1>6, <3>1, <4>1 DEF Existing
    <3>6. ASSUME NEW e \in Coming', e.type = t
          PROVE  e.version = version[t] /\ e.nonce = nonces + 1 /\ sub[t] # {}
      BY <1>2, <1>3, <1>4, <3>3, <3>6
    <3>7. ASSUME NEW n \in Names, known'[t][n] > 0
          PROVE  c(n) \in Coming'
      <4>1. CASE n \in found
        BY <1>4, <4>1
      <4>2. CASE n \notin found
        <5>1. known[t][n] > 0
          BY <1>6, <3>1, <3>7, <4>2
        <5>2. n \in sub[t] /\ content[t][n] # 0
          BY <1>13, <5>1 DEF TellingInv, ComingInv
        <5>3. content[t][n] \in Nat
          BY <1>1
        <5> QED BY <3>1, <4>2, <5>2, <5>3 DEF Existing
      <4> QED BY <4>1, <4>2
    <3> QED BY <1>2, <2>1, <3>4, <3>5, <3>6, <3>7 DEF WholeIs, c
  <2>2. ASSUME NEW u \in Types, u # t, NEW v, WholeIs(u, v) PROVE WholeIs(u, v)'
    <3>1. \A e \in Coming' : e.type = u => e \in Coming
      BY <1>3, <1>4, <2>2
    <3>2. nonceOf'[u] = nonceOf[u] /\ \A n \in Names : known'[u][n] = known[u][n]
      BY <1>1, <1>6, <2>2 DEF Answers
    <3> QED BY <1>2, <1>4, <1>7, <2>2, <3>1, <3>2 DEF WholeIs
  <2>3. ASSUME NEW u \in Types, u \in Whole PROVE \E v \in Known : WholeIs(u, v)'
    <3>1. CASE u = t
      <4>1. PICK v \in Known : v = version[t]
        BY <1>1
      <4> QED BY <2>1, <2>3, <3>1, <4>1
    <3>2. CASE u # t
      <4>1. PICK v \in Known : WholeIs(u, v)
        BY <1>13, <2>3 DEF TellingInv, VariantInv, SotwInv
      <4> QED BY <2>2, <3>2, <4>1
    <3> QED BY <3>1, <3>2
  <2>4. ASSUME NEW u \in Types, NEW n \in Names, content[u][n] > 0, known'[u][n] = content[u][n]
        PROVE  \/ About(Coming', u, n) # {}
               \/ \E e \in About(resources, u, n) : Recorded(scenario, Upto, u, n, e.version)
    <3>1. CASE u = t /\ n \in names
      BY <1>10, <1>13, <3>1 DEF Answers
    <3>2. CASE ~(u = t /\ n \in names)
      BY <1>6, <1>9, <1>13, <2>4, <3>2 DEF TellingInv, VariantInv, SotwInv
    <3> QED BY <3>1, <3>2
  <2> QED BY <1>2, <1>13, <2>3, <2>4 DEF TellingInv, VariantInv, SotwInv
<1>14. ASSUME Incremental PROVE ToldInv'
  <2> SUFFICES ASSUME NEW u \in Types, NEW n \in Names, Covered(scenario, Upto, u, n), n \in sub[u]
               PROVE  /\ content[u][n] > 0 /\ known'[u][n] = content[u][n]
                         => \/ About(Coming', u, n) # {} \/ Spot(u, n) \in Asking
                            \/ \E e \in About(resources, u, n) :
                                  Recorded(scenario, Upto, u, n, e.version)
                      /\ content[u][n] = 0 /\ known'[u][n] = Gone
                         => Spot(u, n) \in Denied' \union Asking \union removed
    BY <1>2 DEF ToldInv
  <2>1. CASE u = t /\ n \in found
    BY <1>6, <1>10, <2>1
  <2>2. CASE u = t /\ n \in names \ found
    BY <1>5, <1>6, <2>2
  <2>3. CASE ~(u = t /\ n \in names)
    BY <1>5, <1>6, <1>9, <1>14, <2>3 DEF TellingInv, VariantInv, ToldInv
  <2> QED BY <2>1, <2>2, <2>3
<1>15. ASSUME Incremental PROVE DropInv'
  <2>1. \A n \in found : n \in Owed(t)
    BY <1>2, <1>15 DEF Answers
  <2> QED BY <1>2, <1>7, <1>8, <1>15, <2>1 DEF TellingInv, VariantInv, DropInv
<1>16. ASSUME Incremental PROVE FreshInv'
  <2>1. \A n \in found : n \in Owed(t) /\ content[t][n] > 0
    BY <1>2, <1>16 DEF Answers
  <2> QED BY <1>2, <1>7, <1>8, <1>16, <2>1 DEF TellingInv, VariantInv, FreshInv
<1>17. ASSUME Incremental PROVE NewerInv'
  <2> SUFFICES ASSUME NEW u \in Types, NEW n \in Names, NEW m \in Names,
                      Covered(scenario, Upto, u, n), Later(scenario, Upto, u, n, m)
               PROVE  /\ \A e \in About(Coming', u, n), f \in About(resources, u, m) :
                            f.nonce < e.nonce
                      /\ n \in sub[u] /\ content[u][n] > 0 /\ known'[u][n] = content[u][n]
                         => \/ About(Coming', u, n) # {} \/ Spot(u, n) \in Asking
                            \/ \A e \in About(resources, u, n), f \in About(resources, u, m) :
                                  f.nonce < e.nonce
    BY <1>2, <1>17 DEF NewerInv
  <2>1. /\ \A e \in About(Coming, u, n), f \in About(resources, u, m) : f.nonce < e.nonce
        /\ n \in sub[u] /\ content[u][n] > 0 /\ known[u][n] = content[u][n]
           => \/ About(Coming, u, n) # {} \/ Spot(u, n) \in Asking
              \/ \A e \in About(resources, u, n), f \in About(resources, u, m) :
                    f.nonce < e.nonce
    BY <1>17 DEF TellingInv, VariantInv, NewerInv
  <2>2. ASSUME NEW e \in About(Coming', u, n), NEW f \in About(resources, u, m)
        PROVE  f.nonce < e.nonce
    <3>1. CASE e \in Coming
      BY <2>1, <3>1 DEF About
    <3>2. CASE e \notin Coming
      <4>1. e.nonce = nonces + 1
        BY <1>3, <1>4, <3>2 DEF About
      <4>2. f.nonce <= nonces /\ f.nonce \in Nat
        BY DEF About, TellingInv, ComingInv, TypeOK, RecordOK, Entries
      <4> QED BY <1>1, <4>1, <4>2
    <3> QED BY <3>1, <3>2
  <2>3. CASE u = t /\ n \in names
    BY <1>6, <1>10, <2>2, <2>3
  <2>4. CASE ~(u = t /\ n \in names)
    BY <1>6, <1>9, <2>1, <2>2, <2>4
  <2> QED BY <2>3, <2>4
<1> QED BY <1>2, <1>11, <1>12, <1>13, <1>14, <1>15, <1>16, <1>17 DEF TellingInv, VariantInv

\* Steps of a conformant target.
LEMMA TellingTargetKeeps ==
    ASSUME TellingInv, SettleInv, TypeOK, Due, TargetNext
    PROVE  TellingInv'
<1>1. CASE TargetReads
  BY <1>1, SotwReadKeeps, DeltaReadKeeps
<1>2. CASE TargetResponds
  BY <1>2, RespondsAnswers, AnswersKeep
<1>3. CASE TargetDeclines
  <2>1. /\ due' \subseteq due
        /\ UNCHANGED <<scenario, sub, known, content, version, nonceOf, nonces, wanted, resources,
                       removed, downstream, recv, hand, todo>>
        /\ UNCHANGED <<Upto, Asking>>
    BY <1>3 DEF TargetDeclines, record, acker, receiver, snapshot, control, Upto, Asking, UnderWay,
                Members
  <2> QED BY <2>1, FlightStays, TextStays, IdleKeeps
<1>4. ~TargetImprovises
  BY DEF TargetImprovises, Due
<1> QED BY <1>1, <1>2, <1>3, <1>4 DEF TargetNext

-----------------------------------------------------------------------------
(* The steps.                                                               *)

\* When all is quiet nothing is coming, asked for or owed.
LEMMA QuietIsEmpty ==
    ASSUME Quiet, doing # "push", SettleInv, TypeOK, Due
    PROVE  /\ Coming = {} /\ Denied = {} /\ Asking = {}
           /\ \A t \in Types : sub[t] = wanted[t] /\ Owed(t) = {}
<1>1. /\ req = <<>> /\ upstream = <<>> /\ downstream = <<>> /\ ack # "first"
      /\ recv \notin {"record", "panicked"} /\ \A t \in Types : Owed(t) = {}
  BY DEF Quiet
<1>2. Members(downstream) = {} /\ UnderWay = {} /\ ~InHand
  BY <1>1 DEF Members, UnderWay, InHand
<1>3. Coming = {} /\ Denied = {} /\ Asking = {}
  BY <1>2 DEF Coming, Denied, Asking
<1>4. ASSUME NEW t \in Types PROVE sub[t] = wanted[t]
  <2>1. CASE Incremental
    <3>1. Asks(t) = wanted[t]
      BY <2>1, DueVariant DEF SettleInv, DeltaInv
    <3>2. Asks(t) = sub[t]
      BY <1>1, AfterNothing DEF Asks, Pushed, Queued, Sent
    <3> QED BY <3>1, <3>2
  <2>2. CASE ~Incremental
    BY <1>2, <2>2, DueVariant DEF SettleInv, OnceInv
  <2> QED BY <2>1, <2>2
<1> QED BY <1>1, <1>3, <1>4

\* The request a step pushes goes into Channels.Req.
LEMMA PushingKeeps ==
    ASSUME TellingInv, TypeOK, StepPushes
    PROVE  TellingInv'
<1>1. Members(req') = Members(req) \union {pushing}
  BY MembersOf DEF StepPushes, TypeOK, StreamOK, StepOK
<1>2. /\ UNCHANGED <<scenario, upstream, ack, subscribeRequest, sub, known, content, version,
                     nonceOf, nonces, wanted, resources, removed, due, downstream, recv, hand,
                     todo>>
      /\ doing = "push" /\ doing' = "ready" /\ pc' = pc + 1
  BY DEF StepPushes, StepDone, record, acker, receiver, server, snapshot
<1>3. UnderWay' = UnderWay
  BY <1>1, <1>2 DEF UnderWay, Members
<1>4. Upto' = Upto
  BY <1>2 DEF Upto, TypeOK, StepOK
<1> QED BY <1>2, <1>3, <1>4, FlightStays, TextStays, IdleKeeps DEF Asking

\* Steps that judge change neither target nor record.
LEMMA JudgingKeeps ==
    ASSUME TellingInv, StartedInv, TypeOK, Due, JudgeNext \/ UNCHANGED vars
    PROVE  TellingInv'
<1>1. /\ UNCHANGED <<scenario, req, upstream, pushing, subscribeRequest, sub, known, content,
                     version, nonceOf, nonces, wanted, resources, removed, due, downstream, recv,
                     hand, todo>>
  BY DEF JudgeNext, StepJudges, StepSignalsDone, StepComparesCounts, ScenarioPasses, StepDone,
         StepFails, Doing, Running, vars, record, acker, receiver, server, snapshot, control
<1>2. /\ ack' = "first" <=> ack = "first"
      /\ doing' = "push" <=> doing = "push"
  BY DEF JudgeNext, StepJudges, StepSignalsDone, StepComparesCounts, ScenarioPasses, StepDone,
         StepFails, Doing, Running, vars, acker, control
<1>3. Asking' = Asking
  BY <1>1, <1>2 DEF Asking, UnderWay, Members
<1>4. TextKept
  <2>1. CASE pc' = pc
    BY <1>1, <1>2, <2>1, TextStays DEF Upto
  <2>2. CASE pc' # pc
    <3>1. /\ StepDone /\ doing # "push" /\ pc <= Len(scenario.steps)
          /\ Step.op \in JudgingOps \union {"neverMore"}
      BY <2>2 DEF JudgeNext, StepJudges, StepSignalsDone, StepComparesCounts, ScenarioPasses,
                  StepDone, StepFails, Doing, Running, vars, control, StartedInv, TypeOK, StepOK
    <3>2. Upto = pc - 1 /\ Upto' = pc
      BY <3>1 DEF StepDone, Upto, TypeOK, StepOK
    <3> QED BY <1>1, <3>1, <3>2, TextJudged DEF TypeOK
  <2> QED BY <2>1, <2>2
<1> QED BY <1>1, <1>3, <1>4, FlightStays, IdleKeeps

\* The setup comes first, when there is nothing else.
LEMMA SetupKeeps ==
    ASSUME TellingInv, BeginInv, TypeOK, Due, TargetSetup
    PROVE  TellingInv'
<1>1. /\ UNCHANGED <<scenario, req, upstream, pushing, subscribeRequest, ack, sub, known, nonceOf,
                     nonces, wanted, resources, removed, due, downstream, recv, hand, todo>>
      /\ doing = "ready" /\ doing' = "ready" /\ pc' = pc + 1 /\ pc <= Len(scenario.steps)
      /\ Step.op = "setup"
      /\ version' = [t \in Types |-> IF t \in Step.types THEN Step.version ELSE None]
      /\ content' = [t \in Types |-> [n \in Names |->
                        IF t \in Step.types /\ n \in Step.names THEN 1 ELSE 0]]
  BY DEF TargetSetup, Doing, Running, StepDone, record, acker, receiver, server
<1>2. pc = 1 /\ Upto = 0 /\ Upto' = pc
  <2>1. pc = 1
    BY <1>1, StepIsDue DEF TypeOK
  <2> QED BY <1>1, <2>1 DEF Upto
<1>3. /\ ack = "off" /\ downstream = <<>> /\ req = <<>> /\ upstream = <<>> /\ recv = "receive"
      /\ \A t \in Types : sub[t] = {}
  BY <1>2 DEF BeginInv
<1>4. Members(downstream) = {} /\ ~InHand /\ UnderWay = {}
  BY <1>1, <1>3 DEF Members, InHand, UnderWay
<1>5. Coming = {} /\ Denied = {} /\ Asking = {} /\ UNCHANGED <<Coming, Denied, Asking>>
  <2>1. Coming = {} /\ Denied = {} /\ Asking = {}
    BY <1>4 DEF Coming, Denied, Asking
  <2>2. UnderWay' = UnderWay
    BY <1>1 DEF UnderWay, Members
  <2> QED BY <1>1, <2>1, <2>2, FlightStays DEF Asking
<1>6. /\ \A t, n : NextText(scenario, Upto, Upto', Step, t, n)
      /\ \A i \in 1..Upto : i \in 1..(Upto')
  BY <1>1, <1>2, TextOfStep DEF TypeOK
<1>7. /\ \A t, n : ~Covered(scenario, Upto, t, n) /\ ~Dropped(scenario, Upto, t, n)
                   /\ ~Present(scenario, Upto, t, n)
  BY <1>2, TextAtFirst
<1>8. \A t, n : /\ ~Takes(Step, t, n) /\ ~Covers(scenario, Step, t, n) /\ ~Drops(Step, t, n)
                /\ Puts(Step, t, n) <=> t \in Step.types /\ n \in Step.names
                /\ \A v : t \in Step.types /\ v = Step.version => GivesAs(Step, t, v)
  BY <1>1 DEF Takes, Covers, Resets, Drops, Puts, GivesAs, Gives
<1>9. /\ \A t, n : ~Covered(scenario, Upto', t, n) /\ ~Dropped(scenario, Upto', t, n)
      /\ Incremental' = Incremental /\ \A t \in Types : Owed(t)' = {}
  BY <1>1, <1>3, <1>6, <1>7, <1>8 DEF NextText, Incremental, Owed
<1>10. \A t \in Types, n \in Names : known[t][n] = 0
  BY <1>3 DEF TellingInv, ComingInv
<1>11. TextInv'
  <2> SUFFICES ASSUME NEW t \in Types, NEW n \in Names
               PROVE  /\ content'[t][n] > 0 => Recorded(scenario, Upto', t, n, version'[t])
                      /\ Present(scenario, Upto', t, n) => content'[t][n] > 0
                      /\ Absent(scenario, Upto', t, n) => content'[t][n] = 0
    BY <1>1, <1>9 DEF TextInv
  <2>1. /\ content'[t][n] = IF Puts(Step, t, n) THEN 1 ELSE 0
        /\ t \in Step.types => version'[t] = Step.version
    BY <1>1, <1>8
  <2> QED BY <1>6, <1>7, <1>8, <2>1 DEF NextText
<1>12. ComingInv'
  BY <1>1, <1>5, <1>9, <1>10 DEF TellingInv, ComingInv
<1>13. ASSUME ~Incremental PROVE SotwInv'
  <2>1. \A t \in Types : \A v : WholeIs(t, v)'
    BY <1>1, <1>5, <1>10 DEF WholeIs
  <2>2. \A t \in Types : t \in Whole => \E v \in Known : TRUE
    BY <1>13 DEF TellingInv, VariantInv, SotwInv
  <2> QED BY <1>1, <1>3, <1>6, <1>10, <1>13, <2>1, <2>2 DEF TellingInv, VariantInv, SotwInv
<1>14. ToldInv' /\ DropInv' /\ NewerInv'
  BY <1>1, <1>9 DEF ToldInv, DropInv, NewerInv
<1>15. ASSUME Incremental PROVE FreshInv'
  <2>1. \A t, n : About(Coming', t, n) = {}
    BY <1>5 DEF About
  <2> QED BY <1>1, <1>5, <1>6, <1>9, <1>15, <2>1 DEF TellingInv, VariantInv, FreshInv, NextText
<1> QED BY <1>9, <1>11, <1>12, <1>13, <1>14, <1>15 DEF TellingInv, VariantInv

\* A subscription makes the record of its type anew, and its request is under way.
LEMMA SubscribingKeeps ==
    ASSUME TellingInv, StartedInv, TypeOK, Due, ClientSubscribes \/ ClientSubscribesAgain
    PROVE  TellingInv'
<1> DEFINE u == Step.type
           r == newRequest(u, Step.names)
<1>1. /\ Doing("subscribe") /\ SubscribeResets
      /\ UNCHANGED <<scenario, req, upstream, sub, known, content, version, nonceOf, nonces, due,
                     downstream, recv, hand, todo>>
      /\ doing = "ready" /\ pc <= Len(scenario.steps) /\ Step.op = "subscribe"
      /\ \/ ack = "off" /\ ack' = "first" /\ doing' = "ready" /\ subscribeRequest' = r /\ pc' = pc + 1
         \/ /\ doing' = "push" /\ pushing' = r /\ pc' = pc
            /\ UNCHANGED <<ack, subscribeRequest>>
  BY DEF ClientSubscribes, ClientSubscribesAgain, Doing, Running, StepDone, Push, acker, receiver,
         server, snapshot
<1>2. u \in Types /\ Step.names \in SUBSET Names
  BY <1>1, DoingIsTyped DEF TypeOK, StepOps
<1>3. Upto' = pc /\ Upto = pc - 1 /\ doing # "push"
  BY <1>1 DEF Upto, TypeOK, StepOK
<1>4. /\ \A t, n : NextText(scenario, Upto, Upto', Step, t, n)
      /\ \A i \in 1..Upto : i \in 1..(Upto')
      /\ Upto' \in 1..(Upto') /\ scenario.steps[Upto'] = Step
  BY <1>1, <1>3, TextOfStep DEF TypeOK
<1>5. UnderWay' = UnderWay \union {r}
  BY <1>1 DEF UnderWay, Members
<1>6. r.type = u /\ r.names = Step.names
  BY DEF newRequest, Request
<1> HIDE DEF u, r
<1>7. \A t \in Types, n \in Names :
          Spot(t, n) \in Asking' <=> Spot(t, n) \in Asking \/ (t = u /\ n \in Step.names)
  BY <1>2, <1>5, <1>6 DEF Asking, Spot, Spots
<1>8. UNCHANGED <<Coming, Denied>>
  BY <1>1, FlightStays
<1>9. Incremental' = Incremental /\ \A t : Owed(t)' = Owed(t)
  BY <1>1 DEF Incremental, Owed
<1>10. /\ \A t, n : /\ ~Puts(Step, t, n) /\ ~Takes(Step, t, n) /\ ~Gives(Step, t)
                    /\ ~Drops(Step, t, n) /\ (Resets(Step, t) <=> t = u)
                    /\ Tells(scenario, Step, t, n) <=> Covers(scenario, Step, t, n)
                    /\ Covers(scenario, Step, t, n) <=>
                          t = u /\ n \in (IF Incremental THEN Step.names ELSE Wanted(Step.names))
       /\ \A t, v : ~GivesAs(Step, t, v)
  BY <1>1 DEF Puts, Takes, Gives, GivesAs, Resets, Covers, Drops, Tells, Incremental, u
<1>11. /\ resources' = Others(u) \union {Entry(u, n, None, None) : n \in Step.names}
       /\ removed' = {p \in removed : p.type # u}
       /\ wanted' = [wanted EXCEPT ![u] =
                       IF Incremental THEN @ \union Step.names ELSE Wanted(Step.names)]
  BY <1>1 DEF SubscribeResets, u
<1>12. /\ \A e \in resources' : \/ e \in resources /\ e.type # u
                                \/ /\ e.type = u /\ e.name \in Step.names
                                   /\ e.version = None /\ e.nonce = None
       /\ \A e \in resources : e.type # u => e \in resources'
  BY <1>11 DEF Others, Entry
<1>13. /\ \A t, n : t # u => About(resources', t, n) = About(resources, t, n)
       /\ \A n : n \notin Step.names => About(resources', u, n) = {}
  BY <1>12 DEF About
<1>14. \A t \in Types, n \in Names : t # u /\ Spot(t, n) \in removed => Spot(t, n) \in removed'
  BY <1>11 DEF Spot
<1>15. TextInv'
  <2> SUFFICES ASSUME NEW t \in Types, NEW n \in Names
               PROVE  /\ content[t][n] > 0 => Recorded(scenario, Upto', t, n, version[t])
                      /\ Present(scenario, Upto', t, n) => content[t][n] > 0
                      /\ Absent(scenario, Upto', t, n) => content[t][n] = 0
                      /\ Covered(scenario, Upto', t, n) => n \in wanted'[t]
                      /\ Incremental /\ Dropped(scenario, Upto', t, n) => n \notin wanted'[t]
    BY <1>1, <1>9 DEF TextInv
  <2>1. /\ content[t][n] > 0 => Recorded(scenario, Upto', t, n, version[t])
        /\ Present(scenario, Upto', t, n) => content[t][n] > 0
        /\ Absent(scenario, Upto', t, n) => content[t][n] = 0
    BY <1>4, <1>10 DEF TellingInv, TextInv, NextText
  <2>2. CASE t = u
    <3>1. /\ Covered(scenario, Upto', t, n) => Covers(scenario, Step, t, n)
          /\ Dropped(scenario, Upto', t, n) =>
                ~Covers(scenario, Step, t, n) /\ Dropped(scenario, Upto, t, n)
      BY <1>4, <1>10, <2>2 DEF NextText
    <3>2. wanted'[t] = IF Incremental THEN wanted[t] \union Step.names ELSE Wanted(Step.names)
      BY <1>11, <2>2 DEF StartedInv
    <3> QED BY <1>10, <2>1, <2>2, <3>1, <3>2 DEF TellingInv, TextInv
  <2>3. CASE t # u
    <3>1. wanted'[t] = wanted[t]
      BY <1>11, <2>3
    <3>2. /\ Covered(scenario, Upto', t, n) => Covered(scenario, Upto, t, n)
          /\ Dropped(scenario, Upto', t, n) => Dropped(scenario, Upto, t, n)
      BY <1>4, <1>10, <2>3 DEF NextText
    <3> QED BY <2>1, <3>1, <3>2 DEF TellingInv, TextInv
  <2> QED BY <2>2, <2>3
<1>16. ComingInv'
  <2>1. nonces \in Nat
    BY DEF TypeOK, TargetOK
  <2>2. \A e \in resources' : /\ e.name \in Names /\ e.nonce <= nonces
                              /\ e.version # None => e.nonce # None
    BY <1>2, <1>12, <2>1 DEF TellingInv, ComingInv, None
  <2> QED BY <1>1, <1>8, <1>9, <2>2 DEF TellingInv, ComingInv
<1>17. ASSUME ~Incremental PROVE SotwInv'
  <2>1. sub[u] = {}
    <3>1. \A i \in 1..Upto : ~Resets(scenario.steps[i], u)
      BY <1>1, <1>3, <1>17, StepIsDue DEF TypeOK, u
    <3> QED BY <1>2, <1>17, <3>1 DEF TellingInv, VariantInv, SotwInv
  <2>2. \A n \in Names : known[u][n] = 0
    BY <1>2, <2>1 DEF TellingInv, ComingInv
  <2>3. ASSUME NEW t \in Types, NEW v, WholeIs(t, v) PROVE WholeIs(t, v)'
    <3>1. CASE t = u
      BY <1>1, <1>8, <1>9, <2>1, <2>2, <2>3, <3>1 DEF WholeIs
    <3>2. CASE t # u
      <4>1. \A n : Entry(t, n, v, nonceOf[t]) \in resources => Entry(t, n, v, nonceOf[t]) \in resources'
        BY <1>12, <3>2 DEF Entry
      <4> QED BY <1>1, <1>8, <1>9, <2>3, <4>1 DEF WholeIs
    <3> QED BY <3>1, <3>2
  <2>4. ASSUME NEW t \in Types PROVE sub[t] \in {{}, wanted'[t]}
    BY <1>11, <1>17, <2>1 DEF TellingInv, VariantInv, SotwInv
  <2>5. ASSUME NEW t \in Types, wanted'[t] # {}
        PROVE  \E i \in 1..(Upto') : Resets(scenario.steps[i], t)
    BY <1>4, <1>10, <1>11, <1>17, <2>5 DEF TellingInv, VariantInv, SotwInv
  <2>6. ASSUME NEW t \in Types, NEW n \in Names, content[t][n] > 0, known[t][n] = content[t][n]
        PROVE  \/ About(Coming, t, n) # {}
               \/ \E e \in About(resources', t, n) : Recorded(scenario, Upto', t, n, e.version)
    <3>1. t # u
      BY <2>2, <2>6
    <3> QED BY <1>4, <1>10, <1>13, <1>17, <2>6, <3>1
            DEF TellingInv, VariantInv, SotwInv, NextText
  <2> QED BY <1>1, <1>8, <1>17, <2>3, <2>4, <2>5, <2>6 DEF TellingInv, VariantInv, SotwInv
<1>18. ASSUME Incremental PROVE ToldInv'
  <2> SUFFICES ASSUME NEW t \in Types, NEW n \in Names, Covered(scenario, Upto', t, n),
                      n \in sub[t], Spot(t, n) \notin Asking'
               PROVE  /\ content[t][n] > 0 /\ known[t][n] = content[t][n]
                         => \/ About(Coming, t, n) # {}
                            \/ \E e \in About(resources', t, n) :
                                  Recorded(scenario, Upto', t, n, e.version)
                      /\ content[t][n] = 0 /\ known[t][n] = Gone
                         => Spot(t, n) \in Denied \union removed'
    BY <1>1, <1>8, <1>9 DEF ToldInv
  <2>1. t # u /\ Covered(scenario, Upto, t, n) /\ Spot(t, n) \notin Asking
    BY <1>4, <1>7, <1>10, <1>18 DEF NextText
  <2> QED BY <1>4, <1>10, <1>13, <1>14, <1>18, <2>1 DEF TellingInv, VariantInv, ToldInv, NextText
<1>19. ASSUME Incremental PROVE DropInv'
  <2> SUFFICES ASSUME NEW t \in Types, NEW n \in Names, Dropped(scenario, Upto', t, n)
               PROVE  /\ Spot(t, n) \notin Asking' /\ n \notin Owed(t)
                      /\ About(Coming, t, n) = {} /\ About(resources', t, n) = {}
    BY <1>1, <1>8, <1>9 DEF DropInv
  <2>1. Dropped(scenario, Upto, t, n) /\ ~(t = u /\ n \in Step.names)
    BY <1>4, <1>10, <1>19 DEF NextText
  <2> QED BY <1>7, <1>13, <1>19, <2>1 DEF TellingInv, VariantInv, DropInv
<1>20. ASSUME Incremental PROVE FreshInv'
  <2>1. ASSUME NEW t \in Types, NEW n \in Names,
               \/ n \in Owed(t) /\ content[t][n] > 0
               \/ Spot(t, n) \in Asking'
               \/ About(Coming, t, n) # {}
        PROVE  Fresh(scenario, Upto', t, n)
    <3>1. Fresh(scenario, Upto, t, n) \/ Tells(scenario, Step, t, n)
      BY <1>7, <1>10, <1>20, <2>1 DEF TellingInv, VariantInv, FreshInv
    <3> QED BY <1>4, <1>10, <3>1 DEF NextText
  <2>2. ASSUME NEW e \in resources'
        PROVE  /\ e.version # None => Seen(scenario, Upto', e.type, e.name, e.version)
               /\ NeverPut(scenario, Upto', e.type, e.name) => e.version = None /\ e.nonce = None
    BY <1>4, <1>12, <1>20 DEF TellingInv, VariantInv, FreshInv, NextText
  <2> QED BY <1>1, <1>8, <1>9, <2>1, <2>2 DEF FreshInv
<1>21. ASSUME Incremental PROVE NewerInv'
  <2> SUFFICES ASSUME NEW t \in Types, NEW n \in Names, NEW m \in Names,
                      Covered(scenario, Upto', t, n), Later(scenario, Upto', t, n, m)
               PROVE  /\ \A e \in About(Coming, t, n), f \in About(resources', t, m) :
                            f.nonce < e.nonce
                      /\ n \in sub[t] /\ content[t][n] > 0 /\ known[t][n] = content[t][n]
                         => \/ About(Coming, t, n) # {} \/ Spot(t, n) \in Asking'
                            \/ \A e \in About(resources', t, n), f \in About(resources', t, m) :
                                  f.nonce < e.nonce
    BY <1>1, <1>8, <1>9 DEF NewerInv
  <2>1. Later(scenario, Upto, t, n, m) /\ ~Covers(scenario, Step, t, m)
    BY <1>4, <1>10 DEF NextText
  <2>2. CASE t = u
    <3>1. n \in Step.names /\ m \notin Step.names
      BY <1>4, <1>10, <1>21, <2>1, <2>2 DEF NextText
    <3> QED BY <1>7, <1>13, <2>2, <3>1
  <2>3. CASE t # u
    <3>1. Covered(scenario, Upto, t, n)
      BY <1>4, <1>10, <2>3 DEF NextText
    <3> QED BY <1>7, <1>13, <1>21, <2>1, <2>3, <3>1 DEF TellingInv, VariantInv, NewerInv
  <2> QED BY <2>2, <2>3
<1> QED BY <1>9, <1>15, <1>16, <1>17, <1>18, <1>19, <1>20, <1>21 DEF TellingInv, VariantInv

\* What is given up is not under way: it is given up at rest.
LEMMA UnsubscribingKeeps ==
    ASSUME TellingInv, RestInv, StartedInv, SettleInv, TypeOK, Due, ClientUnsubscribesFromResource
    PROVE  TellingInv'
<1> DEFINE u == Step.type
           r == Request(u, {}, Step.names, None)
<1>1. /\ UNCHANGED <<scenario, pc, ack, removed, req, upstream, sub, known, content, version, nonceOf,
                     nonces, due, downstream, recv, hand, todo>>
      /\ Running /\ doing = "ready" /\ pc <= Len(scenario.steps) /\ Step.op = "unsubscribe"
      /\ doing' = "push" /\ pushing' = r /\ subscribeRequest' = r
      /\ resources' = {e \in resources : e.type # u \/ e.name \notin Step.names}
      /\ wanted' = [wanted EXCEPT ![u] = @ \ Step.names]
  BY DEF ClientUnsubscribesFromResource, Doing, Running, Push, acker, receiver, server, snapshot
<1>2. Upto' = pc /\ Upto = pc - 1 /\ doing # "push"
  BY <1>1 DEF Upto
<1>3. Incremental /\ Incremental' = Incremental /\ \A t : Owed(t)' = Owed(t)
  BY <1>1, StepIsDue DEF Incremental, Owed, TypeOK
<1>4. Still
  BY <1>1, <1>3, StepIsDue DEF RestInv, TypeOK
<1>5. /\ Coming = {} /\ Denied = {} /\ Asking = {} /\ \A t \in Types : Owed(t) = {}
      /\ UNCHANGED <<Coming, Denied>>
  BY <1>1, <1>2, <1>4, QuietIsEmpty, FlightStays DEF Still
<1>6. UnderWay' = UnderWay \union {r}
  BY <1>1, <1>4 DEF UnderWay, Members, Still
<1>7. Asking' = {}
  <2>1. r.names = {}
    BY DEF Request
  <2> QED BY <1>5, <1>6, <2>1 DEF Asking
<1> HIDE DEF u, r
<1>8. \A t, n : NextText(scenario, Upto, Upto', Step, t, n)
  BY <1>1, <1>2, TextOfStep DEF TypeOK
<1>9. /\ \A t, n : /\ ~Puts(Step, t, n) /\ ~Takes(Step, t, n) /\ ~Gives(Step, t)
                   /\ ~Resets(Step, t) /\ ~Covers(scenario, Step, t, n)
                   /\ ~Tells(scenario, Step, t, n)
                   /\ Drops(Step, t, n) <=> t = u /\ n \in Step.names
      /\ \A t, v : ~GivesAs(Step, t, v)
  BY <1>1 DEF Puts, Takes, Gives, GivesAs, Resets, Covers, Drops, Tells, u
<1>10. /\ \A t, n : ~Drops(Step, t, n) => About(resources', t, n) = About(resources, t, n)
       /\ \A t, n : Drops(Step, t, n) => About(resources', t, n) = {}
       /\ \A t, n : About(resources', t, n) \subseteq About(resources, t, n)
       /\ resources' \subseteq resources
  BY <1>1, <1>9 DEF About
<1>11. \A t \in Types, n \in Names : n \in wanted'[t] <=> n \in wanted[t] /\ ~Drops(Step, t, n)
  BY <1>1, <1>9 DEF StartedInv
<1>12. TextInv'
  BY <1>1, <1>3, <1>8, <1>9, <1>11 DEF TellingInv, TextInv, NextText
<1>13. ComingInv'
  BY <1>1, <1>3, <1>5, <1>10 DEF TellingInv, ComingInv
<1>14. ToldInv'
  <2> SUFFICES ASSUME NEW t \in Types, NEW n \in Names, Covered(scenario, Upto', t, n), n \in sub[t]
               PROVE  /\ content[t][n] > 0 /\ known[t][n] = content[t][n]
                         => \E e \in About(resources', t, n) :
                               Recorded(scenario, Upto', t, n, e.version)
                      /\ content[t][n] = 0 /\ known[t][n] = Gone => Spot(t, n) \in removed
    BY <1>1, <1>3 DEF ToldInv
  <2>1. ~Drops(Step, t, n) /\ Covered(scenario, Upto, t, n)
    BY <1>8, <1>9 DEF NextText
  <2>2. About(Coming, t, n) = {}
    BY <1>5 DEF About
  <2> QED BY <1>3, <1>5, <1>8, <1>9, <1>10, <2>1, <2>2 DEF TellingInv, VariantInv, ToldInv, NextText
<1>15. DropInv'
  <2> SUFFICES ASSUME NEW t \in Types, NEW n \in Names, Dropped(scenario, Upto', t, n)
               PROVE  About(resources', t, n) = {}
    <3>1. \A t \in Types, n \in Names : About(Coming', t, n) = {} /\ n \notin Owed(t)'
      BY <1>3, <1>5 DEF About
    <3> QED BY <1>1, <1>7, <3>1 DEF DropInv
  <2>1. Drops(Step, t, n) \/ Dropped(scenario, Upto, t, n)
    BY <1>8 DEF NextText
  <2> QED BY <1>3, <1>10, <2>1 DEF TellingInv, VariantInv, DropInv
<1>16. FreshInv'
  <2>1. \A t \in Types, n \in Names :
           ~(n \in Owed(t)' \/ Spot(t, n) \in Asking' \/ About(Coming', t, n) # {})
    BY <1>3, <1>5, <1>7 DEF About
  <2>2. ASSUME NEW e \in resources'
        PROVE  /\ e.version # None => Seen(scenario, Upto', e.type, e.name, e.version)
               /\ NeverPut(scenario, Upto', e.type, e.name) => e.version = None /\ e.nonce = None
    BY <1>3, <1>8, <1>10 DEF TellingInv, VariantInv, FreshInv, NextText
  <2> QED BY <1>1, <2>1, <2>2 DEF FreshInv
<1>17. NewerInv'
  <2> SUFFICES ASSUME NEW t \in Types, NEW n \in Names, NEW m \in Names,
                      Covered(scenario, Upto', t, n), Later(scenario, Upto', t, n, m)
               PROVE  n \in sub[t] /\ content[t][n] > 0 /\ known[t][n] = content[t][n]
                      => \A e \in About(resources', t, n), f \in About(resources', t, m) :
                            f.nonce < e.nonce
    BY <1>1, <1>5 DEF NewerInv, About
  <2>1. Covered(scenario, Upto, t, n) /\ Later(scenario, Upto, t, n, m)
    BY <1>8, <1>9 DEF NextText
  <2>2. About(Coming, t, n) = {}
    BY <1>5 DEF About
  <2> QED BY <1>3, <1>5, <1>10, <2>1, <2>2 DEF TellingInv, VariantInv, NewerInv
<1> QED BY <1>3, <1>12, <1>13, <1>14, <1>15, <1>16, <1>17 DEF TellingInv, VariantInv

\* A call through the adapter finds nothing under way, and what it puts is new.
LEMMA CallsKeep ==
    ASSUME TellingInv, StartedInv, SettleInv, TypeOK, Due, AdapterNext
    PROVE  TellingInv'
<1>1. PICK op \in {"add", "update", "remove"} : AdapterStep(op) /\ Step.op = op
  BY DEF AdapterNext, ResourceIsAdded, ResourceIsUpdated, ResourceIsRemoved, AdapterStep, Doing
<1>2. /\ UNCHANGED <<scenario, req, upstream, pushing, subscribeRequest, ack, sub, known, nonceOf,
                     nonces, wanted, resources, removed, due, downstream, recv, hand, todo>>
      /\ Quiet /\ Running /\ doing = "ready" /\ doing' = "ready" /\ pc' = pc + 1
      /\ pc <= Len(scenario.steps) /\ Step.type \in Types
  BY <1>1, DoingIsTyped
     DEF AdapterStep, AdapterCallArrives, Doing, Running, StepDone, Due, record, acker, receiver,
         server, StepOps, TypeOK
<1>3. Upto' = pc /\ Upto = pc - 1 /\ doing # "push"
  BY <1>2 DEF Upto, TypeOK, StepOK
<1>4. /\ Coming = {} /\ Denied = {} /\ Asking = {}
      /\ \A t \in Types : sub[t] = wanted[t] /\ Owed(t) = {}
  BY <1>2, <1>3, QuietIsEmpty
<1>5. UNCHANGED <<Coming, Denied, Asking>> /\ Incremental' = Incremental
  <2>1. UnderWay' = UnderWay
    BY <1>2 DEF UnderWay, Members
  <2> QED BY <1>2, <2>1, FlightStays DEF Asking, Incremental
<1>6. /\ \A t, n : NextText(scenario, Upto, Upto', Step, t, n)
      /\ \A i \in 1..Upto : i \in 1..(Upto')
  BY <1>2, <1>3, TextOfStep DEF TypeOK
<1>7. /\ \A t, n : /\ ~Covers(scenario, Step, t, n) /\ ~Resets(Step, t) /\ ~Drops(Step, t, n)
                   /\ Tells(scenario, Step, t, n) <=> Puts(Step, t, n)
                   /\ Puts(Step, t, n) <=> op # "remove" /\ t = Step.type /\ n \in Step.names
                   /\ Takes(Step, t, n) <=> op = "remove" /\ t = Step.type /\ n \in Step.names
                   /\ Gives(Step, t) <=> t = Step.type
      /\ \A t, v : GivesAs(Step, t, v) <=> t = Step.type /\ (op = "remove" \/ v = Step.version)
  BY <1>1 DEF Covers, Resets, Drops, Tells, Puts, Takes, Gives, GivesAs
<1>8. ASSUME NEW t \in Types, NEW n \in Names
      PROVE  content'[t][n] = IF Puts(Step, t, n) THEN content[t][n] + 1
                              ELSE IF Takes(Step, t, n) THEN 0 ELSE content[t][n]
  <2>1. content \in [Types -> [Names -> Nat]]
    BY DEF TypeOK, TargetOK
  <2>2. CASE op = "remove"
    <3>1. content' = [content EXCEPT ![Step.type] =
                        [m \in Names |-> IF m \in Step.names THEN 0 ELSE @[m]]]
      BY <1>1, <2>2 DEF AdapterNext, ResourceIsAdded, ResourceIsUpdated, ResourceIsRemoved,
                        AdapterStep, Doing
    <3> QED BY <1>2, <1>7, <2>1, <2>2, <3>1
  <2>3. CASE op # "remove"
    <3>1. content' = [content EXCEPT ![Step.type] =
                        [m \in Names |-> IF m \in Step.names THEN @[m] + 1 ELSE @[m]]]
      BY <1>1, <2>3 DEF AdapterNext, ResourceIsAdded, ResourceIsUpdated, ResourceIsRemoved,
                        AdapterStep, Doing, Revise
    <3> QED BY <1>2, <1>7, <2>1, <2>3, <3>1
  <2> QED BY <2>2, <2>3
<1>9. ASSUME NEW t \in Types
      PROVE  GivesAs(Step, t, version'[t]) \/ (~Gives(Step, t) /\ version'[t] = version[t])
  <2>1. version \in [Types -> Known]
    BY DEF TypeOK, TargetOK
  <2>2. CASE op = "remove"
    <3>1. \E v : version' = [version EXCEPT ![Step.type] = v]
      BY <1>1, <2>2 DEF AdapterNext, ResourceIsAdded, ResourceIsUpdated, ResourceIsRemoved,
                        AdapterStep, Doing
    <3> QED BY <1>2, <1>7, <2>1, <2>2, <3>1
  <2>3. CASE op # "remove"
    <3>1. version' = [version EXCEPT ![Step.type] = Step.version]
      BY <1>1, <2>3 DEF AdapterNext, ResourceIsAdded, ResourceIsUpdated, ResourceIsRemoved,
                        AdapterStep, Doing
    <3> QED BY <1>2, <1>7, <2>1, <2>3, <3>1
  <2> QED BY <2>2, <2>3
<1>10. ASSUME NEW t \in Types, NEW n \in Names
       PROVE  content[t][n] \in Nat /\ content'[t][n] \in Nat
  BY <1>8 DEF TypeOK, TargetOK
\* what is put is not known, and what is taken out was
<1>11. ASSUME NEW t \in Types, NEW n \in Names
       PROVE  /\ content'[t][n] > 0 /\ known[t][n] = content'[t][n]
                 => ~Puts(Step, t, n) /\ content'[t][n] = content[t][n]
              /\ n \in sub[t] /\ content'[t][n] = 0 /\ known[t][n] = Gone => content[t][n] = 0
  <2>1. n \notin sub[t] => known[t][n] = 0
    BY DEF TellingInv, ComingInv
  <2>2. n \in sub[t] => IF content[t][n] > 0 THEN known[t][n] = content[t][n]
                                            ELSE Incremental => known[t][n] = Gone
    BY <1>4 DEF Owed
  <2>3. ~Incremental /\ content[t][n] = 0 => known[t][n] = 0
    BY DEF TellingInv, ComingInv
  <2> QED BY <1>8, <1>10, <2>1, <2>2, <2>3 DEF Gone
<1>12. ASSUME NEW t \in Types, NEW n \in Names, NEW v, ~Puts(Step, t, n),
              Recorded(scenario, Upto, t, n, v)
       PROVE  Recorded(scenario, Upto', t, n, v)
  BY <1>6, <1>12 DEF NextText
<1>13. TextInv'
  <2> SUFFICES ASSUME NEW t \in Types, NEW n \in Names
               PROVE  /\ content'[t][n] > 0 => Recorded(scenario, Upto', t, n, version'[t])
                      /\ Present(scenario, Upto', t, n) => content'[t][n] > 0
                      /\ Absent(scenario, Upto', t, n) => content'[t][n] = 0
                      /\ Covered(scenario, Upto', t, n) => n \in wanted[t]
                      /\ Incremental /\ Dropped(scenario, Upto', t, n) => n \notin wanted[t]
    BY <1>2, <1>5 DEF TextInv
  <2>1. ASSUME content'[t][n] > 0 PROVE Recorded(scenario, Upto', t, n, version'[t])
    <3>1. CASE GivesAs(Step, t, version'[t])
      BY <1>6, <3>1 DEF NextText
    <3>2. CASE ~GivesAs(Step, t, version'[t])
      <4>1. ~Gives(Step, t) /\ version'[t] = version[t]
        BY <1>9, <3>2
      <4>2. ~Puts(Step, t, n) /\ ~Takes(Step, t, n)
        BY <1>7, <4>1
      <4> QED BY <1>8, <1>12, <2>1, <4>1, <4>2 DEF TellingInv, TextInv
    <3> QED BY <3>1, <3>2
  <2>2. Present(scenario, Upto', t, n) => content'[t][n] > 0
    BY <1>6, <1>8, <1>10 DEF TellingInv, TextInv, NextText
  <2>3. Absent(scenario, Upto', t, n) => content'[t][n] = 0
    BY <1>6, <1>8 DEF TellingInv, TextInv, NextText
  <2> QED BY <1>6, <1>7, <2>1, <2>2, <2>3 DEF TellingInv, TextInv, NextText
<1>14. ComingInv'
  <2>1. \A t \in Types, n \in Names : ~Incremental /\ content'[t][n] = 0 => content[t][n] = 0
    <3>1. ~Incremental => op # "remove"
      BY <1>1, <1>2, StepIsDue DEF TypeOK
    <3> QED BY <1>7, <1>8, <1>10, <3>1
  <2> QED BY <1>2, <1>4, <1>5, <2>1 DEF TellingInv, ComingInv
<1>15. ASSUME NEW S PROVE \A t, n : S = {} => About(S, t, n) = {}
  BY DEF About
<1>16. ASSUME ~Incremental PROVE SotwInv'
  <2>1. \A t, v : WholeIs(t, v) => WholeIs(t, v)'
    BY <1>2, <1>4, <1>5 DEF WholeIs
  <2>2. ASSUME NEW t \in Types, NEW n \in Names, content'[t][n] > 0, known[t][n] = content'[t][n]
        PROVE  \E e \in About(resources, t, n) : Recorded(scenario, Upto', t, n, e.version)
    <3>1. content[t][n] > 0 /\ known[t][n] = content[t][n] /\ ~Puts(Step, t, n)
      BY <1>11, <2>2
    <3> QED BY <1>4, <1>12, <1>15, <1>16, <3>1 DEF TellingInv, VariantInv, SotwInv
  <2> QED BY <1>2, <1>6, <1>16, <2>1, <2>2 DEF TellingInv, VariantInv, SotwInv
<1>17. \A t, n : Covered(scenario, Upto', t, n) => Covered(scenario, Upto, t, n)
  BY <1>6, <1>7 DEF NextText
<1>18. ASSUME Incremental PROVE ToldInv'
  <2> SUFFICES ASSUME NEW t \in Types, NEW n \in Names, Covered(scenario, Upto, t, n), n \in sub[t]
               PROVE  /\ content'[t][n] > 0 /\ known[t][n] = content'[t][n]
                         => \E e \in About(resources, t, n) :
                               Recorded(scenario, Upto', t, n, e.version)
                      /\ content'[t][n] = 0 /\ known[t][n] = Gone => Spot(t, n) \in removed
    BY <1>2, <1>17 DEF ToldInv
  <2>1. ASSUME content'[t][n] > 0, known[t][n] = content'[t][n]
        PROVE  \E e \in About(resources, t, n) : Recorded(scenario, Upto', t, n, e.version)
    <3>1. content[t][n] > 0 /\ known[t][n] = content[t][n] /\ ~Puts(Step, t, n)
      BY <1>11, <2>1
    <3> QED BY <1>4, <1>12, <1>15, <1>18, <3>1 DEF TellingInv, VariantInv, ToldInv
  <2>2. content'[t][n] = 0 /\ known[t][n] = Gone => Spot(t, n) \in removed
    BY <1>4, <1>11, <1>18 DEF TellingInv, VariantInv, ToldInv
  <2> QED BY <2>1, <2>2
<1>19. ASSUME Incremental PROVE DropInv'
  <2> SUFFICES ASSUME NEW t \in Types, NEW n \in Names, Dropped(scenario, Upto', t, n)
               PROVE  /\ Spot(t, n) \notin Asking' /\ n \notin Owed(t)'
                      /\ About(Coming', t, n) = {} /\ About(resources', t, n) = {}
    BY <1>2, <1>5, <1>19 DEF DropInv
  <2>1. Dropped(scenario, Upto, t, n)
    BY <1>6, <1>7 DEF NextText
  <2>2. n \notin sub'[t]
    BY <1>2, <1>4, <1>19, <2>1 DEF TellingInv, TextInv
  <2> QED BY <1>2, <1>5, <1>19, <2>1, <2>2 DEF TellingInv, VariantInv, DropInv, Owed
<1>20. ASSUME Incremental PROVE FreshInv'
  <2>1. ASSUME NEW t \in Types, NEW n \in Names, n \in Owed(t)', content'[t][n] > 0
        PROVE  Fresh(scenario, Upto', t, n)
    <3>1. n \in sub[t] /\ known[t][n] # content'[t][n]
      BY <1>2, <2>1 DEF Owed
    <3>2. content[t][n] > 0 => known[t][n] = content[t][n]
      BY <1>4, <3>1 DEF Owed
    <3>3. Puts(Step, t, n)
      BY <1>8, <2>1, <3>1, <3>2
    <3> QED BY <1>6, <1>7, <3>3 DEF NextText
  <2>2. \A t, n : Spot(t, n) \notin Asking' /\ About(Coming', t, n) = {}
    BY <1>4, <1>5, <1>15
  <2>3. ASSUME NEW e \in resources
        PROVE  /\ e.version # None => Seen(scenario, Upto', e.type, e.name, e.version)
               /\ NeverPut(scenario, Upto', e.type, e.name) => e.version = None /\ e.nonce = None
    BY <1>6, <1>20 DEF TellingInv, VariantInv, FreshInv, NextText
  <2> QED BY <1>2, <2>1, <2>2, <2>3 DEF FreshInv
<1>21. ASSUME Incremental PROVE NewerInv'
  <2> SUFFICES ASSUME NEW t \in Types, NEW n \in Names, NEW m \in Names,
                      Covered(scenario, Upto, t, n), Later(scenario, Upto', t, n, m)
               PROVE  n \in sub[t] /\ content'[t][n] > 0 /\ known[t][n] = content'[t][n]
                      => \A e \in About(resources, t, n), f \in About(resources, t, m) :
                            f.nonce < e.nonce
    BY <1>2, <1>4, <1>5, <1>15, <1>17 DEF NewerInv
  <2> SUFFICES ASSUME n \in sub[t], content'[t][n] > 0, known[t][n] = content'[t][n]
               PROVE  \A e \in About(resources, t, n), f \in About(resources, t, m) :
                         f.nonce < e.nonce
    OBVIOUS
  <2>1. content[t][n] > 0 /\ known[t][n] = content[t][n] /\ ~Puts(Step, t, n)
    BY <1>11
  <2>2. Later(scenario, Upto, t, n, m)
    BY <1>6, <2>1 DEF NextText
  <2> QED BY <1>4, <1>15, <1>21, <2>1, <2>2 DEF TellingInv, VariantInv, NewerInv
<1> QED BY <1>5, <1>13, <1>14, <1>16, <1>18, <1>19, <1>20, <1>21 DEF TellingInv, VariantInv


-----------------------------------------------------------------------------
(* All that happens.                                                        *)

\* The first subscription starts all that goes on.
LEMMA BeginKeeps ==
    ASSUME BeginInv, StartedInv, TypeOK, Due, [Next]_vars
    PROVE  BeginInv'
<1> USE DEF BeginInv, Upto
<1>1. pc \in Nat \ {0} /\ target = "conformant"
  BY DEF StartedInv, Due
<1>2. CASE StreamNext
  BY <1>2 DEF StreamNext, AckSubscribes, AckTakes, AckReplies, StreamSends, RecvReceives,
       RecordResource, RecordRemoval, RecvPanics, RecvCounts, RecvDelivers,
       record, counts, acker, receiver, server, snapshot, control
<1>3. CASE TargetNext
  <2>1. ack # "off"
    BY <1>1, <1>3 DEF TargetNext, TargetReads, TargetResponds, TargetDeclines,
         TargetImprovises, Owed
  <2>2. UNCHANGED <<ack, pc, doing>>
    BY <1>3 DEF TargetNext, TargetReads, TargetResponds, TargetDeclines, TargetImprovises,
         acker, control
  <2> QED BY <2>1, <2>2
<1>4. CASE ClientNext
  <2>1. CASE StepPushes
    BY <1>1, <2>1 DEF StepPushes, StepDone, acker
  <2>2. CASE TargetSetup
    BY <1>1, <2>2 DEF TargetSetup, Doing, Running, StepDone, acker, receiver, server
  <2>3. CASE ClientSubscribes
    BY <1>1, <2>3 DEF ClientSubscribes, Doing, Running, StepDone
  <2>4. CASE ClientSubscribesAgain
    BY <1>1, <2>4 DEF ClientSubscribesAgain, Push, acker
  <2>5. CASE EntryIsRead \/ ClientUpdatesSubscription \/ ClientUnsubscribesFromAll
    BY <2>5, NoneReplaces
  <2>6. CASE ClientUnsubscribesFromResource
    <3>1. Doing("unsubscribe") /\ ack' = ack /\ doing' = "push" /\ pc' = pc
      BY <2>6 DEF ClientUnsubscribesFromResource, Push, acker
    <3>2. Incremental
      BY <3>1, StepIsDue DEF Doing, Running, TypeOK
    <3>3. Awaited
      BY <3>1, <3>2, DueVariant, DeltaSteps DEF TypeOK
    <3> QED BY <1>1, <3>1, <3>3 DEF StartedInv
  <2> QED BY <1>4, <2>1, <2>2, <2>3, <2>4, <2>5, <2>6 DEF ClientNext
<1>5. CASE AdapterNext
  BY <1>1, <1>5 DEF AdapterNext, ResourceIsAdded, ResourceIsUpdated, ResourceIsRemoved,
       AdapterStep, Doing, Running, StepDone, acker, receiver, server
<1>6. CASE JudgeNext
  <2>1. ack' # "off" => ack # "off"
    BY <1>6 DEF JudgeNext, StepJudges, StepSignalsDone, StepComparesCounts, ScenarioPasses, acker
  <2>2. ack' = "off" => ack = "off"
    BY <1>6 DEF JudgeNext, StepJudges, StepSignalsDone, StepComparesCounts, ScenarioPasses, acker
  <2>3. /\ UNCHANGED <<req, upstream, downstream, recv, due, sub>>
        /\ doing # "push" /\ doing' # "push" /\ pc' \in {pc, pc + 1}
    BY <1>6 DEF JudgeNext, StepJudges, StepSignalsDone, StepComparesCounts, ScenarioPasses,
         StepDone, StepFails, Running, Doing, receiver, server
  <2> QED BY <1>1, <2>1, <2>2, <2>3
<1>7. CASE UNCHANGED vars
  BY <1>7 DEF vars, acker, receiver, server, control
<1> QED BY <1>2, <1>3, <1>4, <1>5, <1>6, <1>7 DEF Next

\* Whatever is done, target and record stay what the scenario made them.
LEMMA TellingKeeps ==
    ASSUME TellingInv, BeginInv, RestInv, StartedInv, SettleInv, TypeOK, Due, [Next]_vars
    PROVE  TellingInv'
<1>1. CASE StreamNext
  BY <1>1, StreamIdles, RecordingKeeps
<1>2. CASE TargetNext
  BY <1>2, TellingTargetKeeps
<1>3. CASE ClientNext
  <2>1. ~EntryIsRead /\ ~ClientUpdatesSubscription /\ ~ClientUnsubscribesFromAll
    BY NoneReplaces
  <2> QED BY <1>3, <2>1, PushingKeeps, SetupKeeps, SubscribingKeeps, UnsubscribingKeeps
          DEF ClientNext
<1>4. CASE AdapterNext
  BY <1>4, CallsKeep
<1>5. CASE JudgeNext \/ UNCHANGED vars
  BY <1>5, JudgingKeeps
<1> QED BY <1>1, <1>2, <1>3, <1>4, <1>5 DEF Next


-----------------------------------------------------------------------------
(* What the steps find.                                                     *)

\* A version that is certain is the one recorded.
LEMMA CertainRecorded ==
    ASSUME NEW s, NEW k, NEW t, NEW n, NEW v, NEW w,
           Certain(s, k, t, n, v), Recorded(s, k, t, n, w)
    PROVE  w = v
<1>1. PICK i \in GivenAs(s, t, w) : i <= k /\ \A j \in PutAt(s, t, n) : j <= k => j <= i
  BY DEF Recorded, Stands
<1>2. i \in GivenAt(s, t) /\ (s.steps[i].op = "remove" \/ s.steps[i].version = w)
  BY DEF GivenAs, GivenAt, GivesAs
<1> QED BY <1>1, <1>2 DEF Certain

\* What has arrived by the time a timed step judges.
Settled == TellingInv /\ SettleInv /\ TypeOK /\ Due /\ Quiet /\ doing # "push"

\* A resource subscribed to and present has been told, and recorded.
LEMMA ToldIsRecorded ==
    ASSUME Settled, NEW t \in Types, NEW n \in Names,
           Covered(scenario, Upto, t, n), Present(scenario, Upto, t, n)
    PROVE  /\ n \in sub[t] /\ content[t][n] > 0 /\ known[t][n] = content[t][n]
           /\ \E e \in About(resources, t, n) : Recorded(scenario, Upto, t, n, e.version)
<1>1. Coming = {} /\ Asking = {} /\ \A u \in Types : sub[u] = wanted[u] /\ Owed(u) = {}
  BY QuietIsEmpty DEF Settled
<1>2. n \in sub[t] /\ content[t][n] > 0
  BY <1>1 DEF Settled, TellingInv, TextInv
<1>3. known[t][n] = content[t][n]
  BY <1>1, <1>2 DEF Owed
<1>4. About(Coming, t, n) = {}
  BY <1>1 DEF About
<1> QED BY <1>1, <1>2, <1>3, <1>4 DEF Settled, TellingInv, VariantInv, SotwInv, ToldInv

\* The entries of a type whose responses are whole, as the last one made them.
LEMMA WholeIsRecorded ==
    ASSUME Settled, ~Incremental, NEW t \in Types \cap Whole
    PROVE  \E v \in Known : \A n \in Names : \A e \in About(resources, t, n) :
              Covered(scenario, Upto, t, n) /\ Present(scenario, Upto, t, n)
              => e.version = v /\ e.nonce = nonceOf[t]
<1>1. PICK v \in Known : WholeIs(t, v)
  BY DEF Settled, TellingInv, VariantInv, SotwInv
<1>2. Coming = {}
  BY QuietIsEmpty DEF Settled
<1>3. ASSUME NEW n \in Names, NEW e \in About(resources, t, n),
             Covered(scenario, Upto, t, n), Present(scenario, Upto, t, n)
      PROVE  e.version = v /\ e.nonce = nonceOf[t]
  <2>1. known[t][n] > 0
    BY <1>3, ToldIsRecorded DEF Settled
  <2>2. Entry(t, n, v, nonceOf[t]) \in resources
    BY <1>1, <1>2, <2>1 DEF WholeIs
  <2>3. e = Entry(t, n, v, nonceOf[t])
    BY <2>2 DEF Settled, TypeOK, RecordOK, About, Entry
  <2> QED BY <2>3 DEF Entry
<1> QED BY <1>1, <1>3

\* What is due has arrived at its version.
LEMMA DueArrives ==
    ASSUME Settled, NEW t \in Types, NEW n \in Names, NEW v, DueToArrive(scenario, Upto, t, n, v)
    PROVE  \E e \in About(resources, t, n) : e.version = v
<1>1. \A m \in Names :
         Covered(scenario, Upto, t, m) /\ Present(scenario, Upto, t, m)
         => \E e \in About(resources, t, m) : Recorded(scenario, Upto, t, m, e.version)
  BY ToldIsRecorded
<1>2. CASE Certain(scenario, Upto, t, n, v)
  BY <1>1, <1>2, CertainRecorded DEF DueToArrive
<1>3. CASE ~Certain(scenario, Upto, t, n, v)
  <2>1. ~Incremental /\ t \in Whole
    BY <1>3 DEF DueToArrive, Incremental
  <2>2. PICK m \in Names : /\ Covered(scenario, Upto, t, m) /\ Present(scenario, Upto, t, m)
                           /\ Certain(scenario, Upto, t, m, v)
    BY <1>3 DEF DueToArrive
  <2>3. PICK f \in About(resources, t, m) : f.version = v
    BY <1>1, <2>2, CertainRecorded
  <2>4. PICK e \in About(resources, t, n) : TRUE
    BY <1>1 DEF DueToArrive
  <2>5. PICK w \in Known : \A l \in Names : \A g \in About(resources, t, l) :
              Covered(scenario, Upto, t, l) /\ Present(scenario, Upto, t, l)
              => g.version = w /\ g.nonce = nonceOf[t]
    BY <2>1, WholeIsRecorded
  <2> QED BY <2>2, <2>3, <2>4, <2>5 DEF DueToArrive
<1> QED BY <1>2, <1>3

\* ClientReceivesResourcesAndVersionForService.
LEMMA ReceiptHolds ==
    ASSUME Settled, NEW s, s.type \in Types, s.names \subseteq Names,
           ExpectsReceipt(scenario, Upto, s)
    PROVE  Receives(s)
  BY DueArrives DEF ExpectsReceipt, Receives, Of, About

\* ResourcesAndVersionForServiceCameInASingleResponse.
LEMMA SingleHolds ==
    ASSUME Settled, NEW s, s.type \in Types, s.names \subseteq Names, s.names # {},
           ExpectsSingle(scenario, Upto, s)
    PROVE  CameInASingleResponse(s)
<1>1. Receives(s)
  BY ReceiptHolds DEF ExpectsSingle
<1>2. PICK v \in Known : \A n \in Names : \A e \in About(resources, s.type, n) :
         Covered(scenario, Upto, s.type, n) /\ Present(scenario, Upto, s.type, n)
         => e.version = v /\ e.nonce = nonceOf[s.type]
  BY WholeIsRecorded DEF ExpectsSingle, Incremental
<1>3. \A e \in Of(s.type) : e.name \in s.names => e.nonce = nonceOf[s.type]
  BY <1>2 DEF ExpectsSingle, ExpectsReceipt, DueToArrive, Of, About
<1>4. \E e \in Of(s.type) : e.name \in s.names
  BY <1>1 DEF Receives
<1> QED BY <1>1, <1>3, <1>4 DEF CameInASingleResponse

\* ClientReceivesNoticeThatResourceWasRemovedForService.
LEMMA NoticeHolds ==
    ASSUME Settled, NEW s, s.type \in Types, s.names \subseteq Names,
           ExpectsNotice(scenario, Upto, s)
    PROVE  ReceivesNotice(s)
<1> SUFFICES ASSUME NEW n \in s.names PROVE Spot(s.type, n) \in removed
  BY DEF ReceivesNotice, Spot
<1>1. /\ Denied = {} /\ Asking = {}
      /\ \A u \in Types : sub[u] = wanted[u] /\ Owed(u) = {}
  BY QuietIsEmpty DEF Settled
<1>2. Incremental /\ Covered(scenario, Upto, s.type, n) /\ Absent(scenario, Upto, s.type, n)
  BY DEF ExpectsNotice, Incremental
<1>3. n \in sub[s.type] /\ content[s.type][n] = 0
  BY <1>1, <1>2 DEF Settled, TellingInv, TextInv
<1>4. known[s.type][n] = Gone
  BY <1>1, <1>2, <1>3 DEF Owed
<1> QED BY <1>1, <1>2, <1>3, <1>4 DEF Settled, TellingInv, VariantInv, ToldInv

\* What was given up is not there, whatever is still under way.
LEMMA NoneHolds ==
    ASSUME TellingInv, NEW s, s.type \in Types, s.names \subseteq Names,
           ExpectsNone(scenario, Upto, s)
    PROVE  DoesNotReceive(s)
<1>1. \A n \in s.names : About(resources, s.type, n) = {}
  BY DEF TellingInv, VariantInv, DropInv, ExpectsNone, Incremental
<1> QED BY <1>1 DEF DoesNotReceive, About, Of

\* The entry of a name that a step expects alone.
LEMMA AloneIsRecorded ==
    ASSUME Settled, NEW s, s.type \in Types, s.names \subseteq Names, s.version \in Versions,
           ExpectsAlone(scenario, Upto, s), NEW n \in s.names
    PROVE  /\ At(s.type, n) \in About(resources, s.type, n)
           /\ At(s.type, n).version = s.version
           /\ At(s.type, n).nonce # None
<1>1. PICK e \in About(resources, s.type, n) : e.version = s.version
  BY DueArrives DEF ExpectsAlone, DueToArrive
<1>2. At(s.type, n) = e
  BY <1>1 DEF At, Of, About, Settled, TypeOK, RecordOK
<1>3. s.version # None
  BY NoneAssumption
<1> QED BY <1>1, <1>2, <1>3 DEF Settled, TellingInv, ComingInv, About

\* NoOtherResourceHasSameNonce.
LEMMA AloneHolds ==
    ASSUME Settled, NEW s, s.type \in Types, s.names \subseteq Names, s.version \in Versions,
           ExpectsAlone(scenario, Upto, s)
    PROVE  NoOtherHasSameNonce(s)
<1> SUFFICES ASSUME NEW n \in s.names, NEW e \in Of(s.type), e.name \notin s.names
             PROVE  e.nonce # At(s.type, n).nonce
  BY DEF NoOtherHasSameNonce
<1> DEFINE f == At(s.type, n)
<1>1. f \in About(resources, s.type, n) /\ f.nonce # None
  BY AloneIsRecorded
<1>2. /\ e \in resources /\ e.type = s.type /\ e.name \in Names
      /\ e \in About(resources, s.type, e.name)
  BY DEF Of, Settled, TellingInv, ComingInv, About
<1>3. e.nonce \in Nat /\ f.nonce \in Nat
  BY <1>1, <1>2 DEF Settled, TypeOK, RecordOK, Entries, About
<1> HIDE DEF f
<1>4. CASE NeverPut(scenario, Upto, s.type, e.name)
  <2>1. e.nonce = None
    BY <1>2, <1>4 DEF Settled, TellingInv, VariantInv, FreshInv, ExpectsAlone, Incremental
  <2> QED BY <1>1, <2>1 DEF f
<1>5. CASE Later(scenario, Upto, s.type, n, e.name)
  <2>1. Incremental /\ Covered(scenario, Upto, s.type, n) /\ Present(scenario, Upto, s.type, n)
    BY DEF ExpectsAlone, Incremental
  <2>2. n \in sub[s.type] /\ content[s.type][n] > 0 /\ known[s.type][n] = content[s.type][n]
    BY <2>1, ToldIsRecorded
  <2>3. About(Coming, s.type, n) = {} /\ Asking = {}
    BY QuietIsEmpty DEF Settled, About
  <2>4. e.nonce < f.nonce
    BY <1>1, <1>2, <1>5, <2>1, <2>2, <2>3 DEF Settled, TellingInv, VariantInv, NewerInv
  <2> QED BY <1>3, <2>4 DEF f
<1> QED BY <1>2, <1>4, <1>5 DEF ExpectsAlone

\* NoOtherResourceHasSameVersionOrNonce.
LEMMA AloneAtVersionHolds ==
    ASSUME Settled, NEW s, s.type \in Types, s.names \subseteq Names, s.version \in Versions,
           ExpectsAloneAtVersion(scenario, Upto, s)
    PROVE  NoOtherHasSameVersionOrNonce(s)
<1>1. NoOtherHasSameNonce(s)
  BY AloneHolds DEF ExpectsAloneAtVersion
<1>2. ASSUME NEW n \in s.names, NEW e \in Of(s.type), e.name \notin s.names
      PROVE  e.version # At(s.type, n).version
  <2>1. At(s.type, n).version = s.version /\ s.version # None
    BY AloneIsRecorded, NoneAssumption DEF ExpectsAloneAtVersion
  <2>2. e \in resources /\ e.type = s.type /\ e.name \in Names
    BY DEF Of, Settled, TellingInv, ComingInv
  <2>3. FreshInv
    BY DEF Settled, TellingInv, VariantInv, ExpectsAloneAtVersion, ExpectsAlone, Incremental
  <2>4. CASE NeverPut(scenario, Upto, s.type, e.name)
    BY <2>1, <2>2, <2>3, <2>4 DEF FreshInv
  <2>5. CASE \A j \in ToldAt(scenario, s.type, e.name), i \in GivenAs(scenario, s.type, s.version) :
                j <= Upto => j < i
    <3>1. ~Seen(scenario, Upto, s.type, e.name, s.version)
      BY <2>5 DEF Seen, ToldAt, GivenAs
    <3> QED BY <2>1, <2>2, <2>3, <3>1 DEF FreshInv
  <2> QED BY <1>2, <2>2, <2>4, <2>5 DEF ExpectsAloneAtVersion
<1> QED BY <1>1, <1>2 DEF NoOtherHasSameVersionOrNonce


\* Every verdict that a step gives of a conformant target is a good one.
LEMMA JudgementHolds ==
    ASSUME TellingInv, RestInv, SettleInv, TypeOK, Due, StepJudges
    PROVE  Holds(Step)
<1>1. /\ pc <= Len(scenario.steps) /\ doing = "ready" /\ Step.op \in JudgingOps
      /\ Step.op \in TimedOps => TimerFires
  BY DEF StepJudges, Running
<1>2. Upto = pc - 1 /\ doing # "push"
  BY <1>1 DEF Upto
<1>3. IsDue(scenario, Upto, Step) /\ Step \in Steps /\ pc \in 1..Len(scenario.steps)
  BY <1>1, <1>2, StepIsDue DEF TypeOK
<1>4. /\ Step.type \in Types /\ Step.names \subseteq Names /\ Step.version \in Versions
      /\ Step.op \in {"receives", "single"} => Step.names # {}
  <2>1. Step.op \in StepOps
    BY <1>1 DEF JudgingOps, TimedOps, StepOps
  <2>2. Step.op # "setup" /\ Step.op # "neverMore"
    BY <2>1 DEF StepOps
  <2> QED BY <1>3, <2>1, <2>2, ScenariosAssumption DEF Steps, Step, TypeOK, StepOK
<1>5. ASSUME Quiet PROVE Settled
  BY <1>2, <1>5 DEF Settled
<1>6. Step.op \in TimedOps => Quiet
  BY <1>1 DEF TimerFires, Due
<1>7. Rested(scenario, Upto) => Quiet
  BY <1>2 DEF RestInv, Still
<1>8. CASE Step.op = "receives"
  BY <1>3, <1>4, <1>5, <1>6, <1>8, ReceiptHolds DEF IsDue, Holds, TimedOps
<1>9. CASE Step.op = "single"
  BY <1>3, <1>4, <1>5, <1>7, <1>9, SingleHolds DEF IsDue, Holds, ExpectsSingle
<1>10. CASE Step.op = "receivesNotice"
  BY <1>3, <1>4, <1>5, <1>6, <1>10, NoticeHolds DEF IsDue, Holds, TimedOps
<1>11. CASE Step.op = "receivesNot"
  BY <1>3, <1>4, <1>11, NoneHolds DEF IsDue, Holds
<1>12. CASE Step.op = "noOtherNonce"
  BY <1>3, <1>4, <1>5, <1>7, <1>12, AloneHolds DEF IsDue, Holds, ExpectsAlone
<1>13. CASE Step.op = "noOther"
  BY <1>3, <1>4, <1>5, <1>7, <1>13, AloneAtVersionHolds
     DEF IsDue, Holds, ExpectsAloneAtVersion, ExpectsAlone
<1> QED BY <1>1, <1>3, <1>8, <1>9, <1>10, <1>11, <1>12, <1>13 DEF IsDue, JudgingOps, TimedOps

\* At the end there have been more requests than responses.
LEMMA ComparisonHolds ==
    ASSUME CountInv, RestInv, StartedInv, TypeOK, Due, doing = "sleep"
    PROVE  ~(requestCount <= responseCount)
<1>1. pc <= Len(scenario.steps) /\ Step.op = "neverMore"
  BY DEF StartedInv, TypeOK, StepOK
<1>2. Rested(scenario, pc - 1)
  BY <1>1, StepIsDue DEF IsDue, ExpectsNoMore, TypeOK
<1>3. Still
  BY <1>2 DEF RestInv
<1>4. Len(req) = 0 /\ Len(res) = 0 /\ requestCount \in Nat /\ responseCount \in Nat
  BY <1>3 DEF Still, Quiet, TypeOK, RecordOK
<1> QED BY <1>3, <1>4 DEF CountInv, Still, One

\* Only a verdict fails a scenario, and none does.
LEMMA NothingFails ==
    ASSUME CountInv, RestInv, TellingInv, StartedInv, SettleInv, TypeOK, Due,
           result # "failed", [Next]_vars
    PROVE  result' # "failed"
<1>1. CASE StepJudges
  BY <1>1, JudgementHolds DEF StepJudges, StepDone
<1>2. CASE StepComparesCounts
  BY <1>2, ComparisonHolds DEF StepComparesCounts, StepDone
<1>3. CASE ScenarioPasses
  BY <1>3 DEF ScenarioPasses
<1>4. CASE StreamNext \/ TargetNext \/ UNCHANGED vars
  BY <1>4 DEF StreamNext, AckSubscribes, AckTakes, AckReplies, StreamSends, RecvReceives,
       RecordResource, RecordRemoval, RecvPanics, RecvCounts, RecvDelivers, TargetNext,
       TargetReads, TargetResponds, TargetDeclines, TargetImprovises, vars, control
<1>5. CASE ClientNext \/ AdapterNext \/ StepSignalsDone
  BY <1>5 DEF ClientNext, StepPushes, TargetSetup, ClientSubscribes, ClientSubscribesAgain,
       EntryIsRead, Reads, ClientUpdatesSubscription, ClientUnsubscribesFromAll,
       ClientUnsubscribesFromResource, Push, StepDone, AdapterNext, ResourceIsAdded, ResourceIsUpdated, ResourceIsRemoved,
       AdapterStep, StepSignalsDone
<1> QED BY <1>1, <1>2, <1>3, <1>4, <1>5 DEF Next, JudgeNext

-----------------------------------------------------------------------------
\* The inductive invariant.
DueInv == Due => CountInv /\ RestInv /\ BeginInv /\ TellingInv /\ result # "failed"

\* Before anything has been done.
LEMMA DueInvAtFirst == Init => DueInv
<1> SUFFICES ASSUME Init, Due PROVE CountInv /\ RestInv /\ BeginInv /\ TellingInv
  BY DEF Init, DueInv
<1>1. /\ resources = {} /\ removed = {} /\ req = <<>> /\ res = <<>> /\ upstream = <<>>
      /\ downstream = <<>> /\ ack = "off" /\ recv = "receive" /\ due = {} /\ nonces = 0
      /\ pc = 1 /\ doing = "ready" /\ requestCount = 0 /\ responseCount = 0
      /\ \A t \in Types : /\ sub[t] = {} /\ wanted[t] = {}
                          /\ \A n \in Names : known[t][n] = 0 /\ content[t][n] = 0
  BY DEF Init
<1>2. Upto = 0
  BY <1>1 DEF Upto
<1>3. Coming = {} /\ Denied = {} /\ Asking = {} /\ \A t \in Types : Owed(t) = {}
  <2>1. Members(<<>>) = {}
    BY DEF Members
  <2> QED BY <1>1, <2>1 DEF Coming, Denied, Asking, InHand, UnderWay, Owed
<1>4. \A t, n : /\ ~Present(scenario, Upto, t, n) /\ ~Covered(scenario, Upto, t, n)
                /\ ~Dropped(scenario, Upto, t, n)
  BY <1>2, TextAtFirst
<1>5. CountInv
  BY <1>1 DEF CountInv, One
<1>6. RestInv
  BY <1>1, TextAtFirst DEF RestInv
<1>7. BeginInv
  BY <1>1 DEF BeginInv
<1>8. TextInv
  BY <1>1, <1>4 DEF TextInv
<1>9. ComingInv
  BY <1>1, <1>3 DEF ComingInv
<1>10. \A t, n : About(Coming, t, n) = {} /\ About(resources, t, n) = {}
  BY <1>1, <1>3 DEF About
<1>11. SotwInv
  <2>1. None \in Known
    BY DEF Known
  <2>2. \A t \in Types : WholeIs(t, None)
    BY <1>1, <1>3 DEF WholeIs
  <2> QED BY <1>1, <2>1, <2>2 DEF SotwInv
<1>12. ToldInv /\ DropInv /\ NewerInv
  BY <1>4, <1>3, <1>10 DEF ToldInv, DropInv, NewerInv
<1>13. FreshInv
  BY <1>1, <1>3, <1>10 DEF FreshInv
<1> QED BY <1>5, <1>6, <1>7, <1>8, <1>9, <1>11, <1>12, <1>13 DEF TellingInv, VariantInv

\* The invariant is inductive.
LEMMA DueInvKeeps ==
    ASSUME DueInv, StartedInv, SettleInv, TypeOK, [Next]_vars
    PROVE  DueInv'
<1>1. Due' <=> Due
  BY StepsAdvance, TargetStays DEF Due
<1> QED BY <1>1, CountKeeps, RestKeeps, BeginKeeps, TellingKeeps, NothingFails DEF DueInv

\* No verdict of the feature steps (steps.go, ClientReceivesResourcesAndVersion-
\* ForService to TheServiceNeverRespondsMoreThanNecessary) fails a conformant
\* target that answers within their waits, in any scenario that expects no more
\* than its own steps make due, however responses are split, recorded and
\* acknowledged in between.
THEOREM ConformantPassesHolds ==
    Spec => [](~Racing /\ ResCap # 0 /\ ExpectsWhatIsDue(scenario) => ConformantPasses)
<1>1. DueInv => (~Racing /\ ResCap # 0 /\ ExpectsWhatIsDue(scenario) => ConformantPasses)
  BY DEF DueInv, Due, ConformantPasses
<1>2. Init => DueInv
  BY DueInvAtFirst
<1>3. DueInv /\ StartedInv /\ SettleInv /\ TypeOK /\ [Next]_vars => DueInv'
  BY DueInvKeeps
<1> QED BY <1>1, <1>2, <1>3, StartedInvHolds, SettleInvHolds, ConversationTypeCorrect, PTL
       DEF Spec
=============================================================================
