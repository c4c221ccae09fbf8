------------------------- MODULE SubscriptionProofs -------------------------
(***************************************************************************)
(* What a conformant target is subscribed to when all is quiet: for all    *)
(* names, capacities and timings, what the steps of the scenario last      *)
(* asked for, although a step's request, an ACK and the stream's first     *)
(* request reach Channels.Req in any order.  This holds of the scenarios   *)
(* UnsubscribesLater and SubscribesOnce describe; of the others, where a   *)
(* nonce may be stale, TLC shows which settle.                             *)
(***************************************************************************)
EXTENDS ConversationProofs

-----------------------------------------------------------------------------
(* What requests do to a subscription.                                      *)

\* A subscription to type t once the target has read a delta request, or the
\* requests of a queue.
SubAfter(S, r, t) == IF r.type = t THEN (S \union r.names) \ r.drop ELSE S

After(S, q, t) ==
    {n \in S \union UNION {q[i].names : i \in DOMAIN q} :
        \/ n \in S /\ \A j \in DOMAIN q : q[j].type = t => n \notin q[j].drop
        \/ \E i \in DOMAIN q :
              /\ q[i].type = t /\ n \in q[i].names
              /\ \A j \in DOMAIN q : j >= i /\ q[j].type = t => n \notin q[j].drop}

LEMMA AfterNothing == ASSUME NEW S, NEW t PROVE After(S, <<>>, t) = S
  BY DEF After

LEMMA AfterAppend ==
    ASSUME NEW R, NEW q \in Seq(R), NEW r \in R, NEW S, NEW t
    PROVE  After(S, Append(q, r), t) = SubAfter(After(S, q, t), r, t)
<1> DEFINE s == Append(q, r)
           k == Len(q) + 1
<1>1. /\ DOMAIN s = 1..k /\ DOMAIN q = 1..Len(q) /\ Len(q) \in Nat /\ k \in Nat
      /\ \A i \in 1..Len(q) : s[i] = q[i]
      /\ s[k] = r
  BY AppendProperties, LenProperties
<1>2. /\ \A i \in 1..k : i \in 1..Len(q) \/ i = k
      /\ \A i \in 1..Len(q) : i \in 1..k /\ k >= i /\ ~(i >= k)
      /\ k \in 1..k /\ k >= k
  BY <1>1
<1> HIDE DEF s, k
<1>3. ASSUME NEW n
      PROVE  n \in After(S, s, t) <=>
                \/ n \in S /\ \A j \in 1..k : s[j].type = t => n \notin s[j].drop
                \/ \E i \in 1..k : /\ s[i].type = t /\ n \in s[i].names
                                   /\ \A j \in 1..k : j >= i /\ s[j].type = t
                                                      => n \notin s[j].drop
  BY <1>1 DEF After
<1>4. ASSUME NEW n
      PROVE  n \in After(S, q, t) <=>
                \/ n \in S /\ \A j \in 1..Len(q) : q[j].type = t => n \notin q[j].drop
                \/ \E i \in 1..Len(q) : /\ q[i].type = t /\ n \in q[i].names
                                        /\ \A j \in 1..Len(q) : j >= i /\ q[j].type = t
                                                                => n \notin q[j].drop
  BY <1>1 DEF After
<1>5. ASSUME NEW n
      PROVE  n \in After(S, s, t) <=> n \in SubAfter(After(S, q, t), r, t)
  <2>1. CASE r.type = t /\ n \in r.drop
    <3>1. ~(n \in After(S, s, t))
      <4>1. \A i \in 1..k : ~(\A j \in 1..k : j >= i /\ s[j].type = t => n \notin s[j].drop)
        BY <1>1, <1>2, <2>1
      <4>2. ~(\A j \in 1..k : s[j].type = t => n \notin s[j].drop)
        BY <1>1, <1>2, <2>1
      <4> QED BY <1>3, <4>1, <4>2
    <3> QED BY <2>1, <3>1 DEF SubAfter
  <2>2. CASE ~(r.type = t /\ n \in r.drop)
    <3>1. (\A j \in 1..k : s[j].type = t => n \notin s[j].drop)
             <=> \A j \in 1..Len(q) : q[j].type = t => n \notin q[j].drop
      BY <1>1, <1>2, <2>2
    <3>2. \A i \in 1..Len(q) :
             (\A j \in 1..k : j >= i /\ s[j].type = t => n \notin s[j].drop)
             <=> \A j \in 1..Len(q) : j >= i /\ q[j].type = t => n \notin q[j].drop
      BY <1>1, <1>2, <2>2
    <3>3. \A j \in 1..k : j >= k /\ s[j].type = t => n \notin s[j].drop
      BY <1>1, <1>2, <2>2
    <3>4. (\E i \in 1..k : /\ s[i].type = t /\ n \in s[i].names
                           /\ \A j \in 1..k : j >= i /\ s[j].type = t => n \notin s[j].drop)
             <=> \/ \E i \in 1..Len(q) :
                       /\ q[i].type = t /\ n \in q[i].names
                       /\ \A j \in 1..Len(q) : j >= i /\ q[j].type = t => n \notin q[j].drop
                 \/ r.type = t /\ n \in r.names
      BY <1>1, <1>2, <3>2, <3>3
    <3> QED BY <1>3, <1>4, <2>2, <3>1, <3>4 DEF SubAfter
  <2> QED BY <2>1, <2>2
<1> QED BY <1>5 DEF s

LEMMA AfterHead ==
    ASSUME NEW R, NEW q \in Seq(R), q # <<>>, NEW S, NEW t
    PROVE  After(S, q, t) = After(SubAfter(S, Head(q), t), Tail(q), t)
<1> DEFINE s == Tail(q)
           k == Len(q)
           h == Head(q)
<1>1. /\ k \in Nat \ {0} /\ DOMAIN q = 1..k /\ h = q[1]
      /\ DOMAIN s = 1..(k - 1)
      /\ \A i \in 1..(k - 1) : s[i] = q[i + 1]
  BY HeadTailProperties, LenProperties, EmptySeq
<1>2. /\ \A i \in 1..k : i = 1 \/ (i - 1 \in 1..(k - 1) /\ q[i] = s[i - 1])
      /\ \A i \in 1..(k - 1) : i + 1 \in 1..k /\ q[i + 1] = s[i]
      /\ 1 \in 1..k /\ \A i \in 1..k : i >= 1
      /\ \A i, j \in 1..(k - 1) : j >= i <=> j + 1 >= i + 1
      /\ \A i \in 1..(k - 1) : ~(1 >= i + 1)
  <2>1. \A i \in 1..k : i = 1 \/ (i - 1 \in 1..(k - 1) /\ (i - 1) + 1 = i)
    BY <1>1
  <2>2. /\ \A i \in 1..(k - 1) : i + 1 \in 1..k
        /\ 1 \in 1..k /\ \A i \in 1..k : i >= 1
        /\ \A i, j \in 1..(k - 1) : j >= i <=> j + 1 >= i + 1
        /\ \A i \in 1..(k - 1) : ~(1 >= i + 1)
    BY <1>1
  <2> QED BY <1>1, <2>1, <2>2
<1> HIDE DEF s, k, h
<1>3. ASSUME NEW n
      PROVE  n \in After(S, q, t) <=>
                \/ n \in S /\ \A j \in 1..k : q[j].type = t => n \notin q[j].drop
                \/ \E i \in 1..k : /\ q[i].type = t /\ n \in q[i].names
                                   /\ \A j \in 1..k : j >= i /\ q[j].type = t
                                                      => n \notin q[j].drop
  BY <1>1 DEF After
<1>4. ASSUME NEW n, NEW Q
      PROVE  n \in After(Q, s, t) <=>
                \/ n \in Q /\ \A j \in 1..(k - 1) : s[j].type = t => n \notin s[j].drop
                \/ \E i \in 1..(k - 1) : /\ s[i].type = t /\ n \in s[i].names
                                         /\ \A j \in 1..(k - 1) : j >= i /\ s[j].type = t
                                                                  => n \notin s[j].drop
  BY <1>1 DEF After
<1>5. ASSUME NEW n
      PROVE  n \in After(S, q, t) <=> n \in After(SubAfter(S, h, t), s, t)
  <2> DEFINE Kept == \A j \in 1..(k - 1) : s[j].type = t => n \notin s[j].drop
             Adds == h.type = t /\ n \in h.names
             Drops == h.type = t /\ n \in h.drop
             Later == \E i \in 1..(k - 1) :
                         /\ s[i].type = t /\ n \in s[i].names
                         /\ \A j \in 1..(k - 1) : j >= i /\ s[j].type = t => n \notin s[j].drop
  <2>1. (\A j \in 1..k : q[j].type = t => n \notin q[j].drop) <=> Kept /\ ~Drops
    <3>1. ASSUME \A j \in 1..k : q[j].type = t => n \notin q[j].drop PROVE Kept /\ ~Drops
      BY <1>1, <1>2, <3>1
    <3>2. ASSUME Kept, ~Drops, NEW j \in 1..k, q[j].type = t PROVE n \notin q[j].drop
      <4>1. CASE j = 1
        BY <1>1, <3>2, <4>1
      <4>2. CASE j # 1
        BY <1>2, <3>2, <4>2
      <4> QED BY <4>1, <4>2
    <3> QED BY <3>1, <3>2
  <2>2. \A i \in 1..(k - 1) :
           (\A j \in 1..k : j >= i + 1 /\ q[j].type = t => n \notin q[j].drop)
           <=> \A j \in 1..(k - 1) : j >= i /\ s[j].type = t => n \notin s[j].drop
    <3> TAKE i \in 1..(k - 1)
    <3>1. ASSUME \A j \in 1..k : j >= i + 1 /\ q[j].type = t => n \notin q[j].drop,
                 NEW j \in 1..(k - 1), j >= i, s[j].type = t
          PROVE  n \notin s[j].drop
      BY <1>2, <3>1
    <3>2. ASSUME \A j \in 1..(k - 1) : j >= i /\ s[j].type = t => n \notin s[j].drop,
                 NEW j \in 1..k, j >= i + 1, q[j].type = t
          PROVE  n \notin q[j].drop
      <4>1. j # 1
        BY <1>2, <3>2
      <4>2. j - 1 \in 1..(k - 1) /\ q[j] = s[j - 1]
        BY <1>2, <4>1
      <4>3. j - 1 >= i
        BY <3>2
      <4> QED BY <3>2, <4>2, <4>3
    <3> QED BY <3>1, <3>2
  <2>3. (\E i \in 1..k : /\ q[i].type = t /\ n \in q[i].names
                         /\ \A j \in 1..k : j >= i /\ q[j].type = t => n \notin q[j].drop)
           <=> Later \/ (Adds /\ ~Drops /\ Kept)
    <3>1. ASSUME NEW i \in 1..k, q[i].type = t, n \in q[i].names,
                 \A j \in 1..k : j >= i /\ q[j].type = t => n \notin q[j].drop
          PROVE  Later \/ (Adds /\ ~Drops /\ Kept)
      <4>1. CASE i = 1
        BY <1>1, <1>2, <2>1, <3>1, <4>1
      <4>2. CASE i # 1
        <5>1. i - 1 \in 1..(k - 1) /\ q[i] = s[i - 1] /\ (i - 1) + 1 = i
          BY <1>2, <4>2
        <5> QED BY <2>2, <3>1, <5>1
      <4> QED BY <4>1, <4>2
    <3>2. ASSUME Later
          PROVE  \E i \in 1..k : /\ q[i].type = t /\ n \in q[i].names
                                 /\ \A j \in 1..k : j >= i /\ q[j].type = t => n \notin q[j].drop
      <4>1. PICK i \in 1..(k - 1) :
                /\ s[i].type = t /\ n \in s[i].names
                /\ \A j \in 1..(k - 1) : j >= i /\ s[j].type = t => n \notin s[j].drop
        BY <3>2
      <4>2. i + 1 \in 1..k /\ q[i + 1] = s[i]
        BY <1>2
      <4> QED BY <2>2, <4>1, <4>2
    <3>3. ASSUME Adds, ~Drops, Kept
          PROVE  \E i \in 1..k : /\ q[i].type = t /\ n \in q[i].names
                                 /\ \A j \in 1..k : j >= i /\ q[j].type = t => n \notin q[j].drop
      BY <1>1, <1>2, <2>1, <3>3
    <3> QED BY <3>1, <3>2, <3>3
  <2>4. n \in SubAfter(S, h, t) <=> (n \in S \/ Adds) /\ ~Drops
    BY DEF SubAfter
  <2>5. n \in After(S, q, t) <=> \/ n \in S /\ Kept /\ ~Drops
                                 \/ Later \/ (Adds /\ ~Drops /\ Kept)
    BY <1>3, <2>1, <2>3
  <2>6. n \in After(SubAfter(S, h, t), s, t) <=> (n \in SubAfter(S, h, t) /\ Kept) \/ Later
    BY <1>4
  <2> QED BY <2>4, <2>5, <2>6
<1> QED BY <1>5 DEF s, h

-----------------------------------------------------------------------------
(* The steps that have gone before.                                         *)

\* A subscription has been made; a timed step has waited for its answer.
Subscribed == \E j \in 1..(pc - 1) : scenario.steps[j].op = "subscribe"
Awaited ==
    \E j, k \in 1..(pc - 1) :
        /\ j < k
        /\ scenario.steps[j].op = "subscribe" /\ scenario.steps[k].op \in TimedOps

\* With a conformant target the stream's first request is out when a timed step
\* has passed.
StartedInv ==
    /\ pc \in Nat \ {0}
    /\ wanted \in [Types -> Asked]
    /\ doing = "push" => Step.op \in AskingOps /\ (Step.op = "subscribe" => ack # "off")
    /\ doing = "sleep" => Step.op = "neverMore"
    /\ Subscribed => ack # "off"
    /\ Awaited /\ target = "conformant" => ack \notin {"off", "first"}

\* Steps at the same place of the scenario, after which Ack is no less far.
LEMMA StartedUntouched ==
    ASSUME StartedInv, UNCHANGED <<scenario, target, pc>>,
           wanted' \in [Types -> Asked],
           ack' = "off" => ack = "off", ack' = "first" => ack \in {"off", "first"},
           ack = "off" /\ ack' # "off" => ~Subscribed,
           doing' \in {doing, "ready"}
    PROVE  StartedInv'
<1>1. Awaited => Subscribed
  BY DEF Awaited, Subscribed
<1> QED BY <1>1 DEF StartedInv, Subscribed, Awaited, Step

\* Steps that move on.
LEMMA StartedMovesOn ==
    ASSUME StartedInv, UNCHANGED <<scenario, target>>, pc' = pc + 1, doing' = "ready",
           wanted' \in [Types -> Asked],
           ack' = "off" => ack = "off" /\ Step.op # "subscribe",
           ack' = "first" => ack \in {"off", "first"},
           Step.op \in TimedOps /\ target = "conformant" =>
              ack' = ack /\ ack \in {"off", "stopped", "select"}
    PROVE  StartedInv'
<1>1. pc \in 1..(pc' - 1) /\ \A j \in 1..(pc' - 1) : j \in 1..(pc - 1) \/ j = pc
  BY DEF StartedInv
<1>2. \A j \in 1..(pc - 1) : j < pc /\ ~(pc < j) /\ ~(pc < pc) /\ j \in 1..(pc' - 1)
  BY DEF StartedInv
<1>3. Subscribed' => Subscribed \/ Step.op = "subscribe"
  BY <1>1 DEF Subscribed, Step
<1>4. Awaited' => Awaited \/ (Subscribed /\ Step.op \in TimedOps)
  BY <1>1, <1>2 DEF Awaited, Subscribed, Step
<1>5. Awaited => Subscribed
  BY DEF Awaited, Subscribed
<1> QED BY <1>3, <1>4, <1>5 DEF StartedInv, TimedOps

\* Steps that go on to push a request.
LEMMA StartedPushes ==
    ASSUME StartedInv, NEW q, Push(q), UNCHANGED ack, wanted' \in [Types -> Asked],
           Step.op \in AskingOps, Step.op = "subscribe" => ack # "off"
    PROVE  StartedInv'
  BY DEF StartedInv, Push, Subscribed, Awaited, Step

\* What a step asks for is a subscription.
LEMMA AsksWell ==
    ASSUME StepOK, StartedInv, NEW op \in AskingOps, Doing(op) \/ Replacing(op),
           NEW names \in Asked
    PROVE  /\ Step.type \in Types /\ Step.names \in SUBSET Names
           /\ [wanted EXCEPT ![Step.type] = names] \in [Types -> Asked]
           /\ [wanted EXCEPT ![Step.type] = @ \union Step.names] \in [Types -> Asked]
           /\ [wanted EXCEPT ![Step.type] = @ \ Step.names] \in [Types -> Asked]
  BY DoingIsTyped DEF StartedInv, AskingOps, StepOps, Asked

LEMMA StartedClientKeeps ==
    ASSUME StartedInv, TypeOK, ClientNext
    PROVE  StartedInv'
<1> USE DEF TypeOK, acker, AskingOps
<1>0. /\ wanted \in [Types -> Asked]
      /\ {Blank} \in Asked /\ \A n \in Names : {n} \in Asked
  BY DEF StartedInv, Asked
<1>1. CASE StepPushes
  BY <1>0, <1>1, StartedMovesOn DEF StepPushes, StepDone, StartedInv, TimedOps
<1>2. CASE TargetSetup
  BY <1>0, <1>2, StartedMovesOn DEF TargetSetup, Doing, StepDone, TimedOps
<1>3. ASSUME Doing("subscribe"), SubscribeResets PROVE wanted' \in [Types -> Asked]
  <2>1. Step.names \in SUBSET Names /\ Wanted(Step.names) \in Asked
    BY <1>3, DoingIsTyped DEF Wanted, Asked
  <2> QED BY <1>3, <2>1, AsksWell DEF SubscribeResets
<1>4. CASE ClientSubscribes
  BY <1>3, <1>4, StartedMovesOn DEF ClientSubscribes, Doing, StepDone, TimedOps
<1>5. CASE ClientSubscribesAgain
  BY <1>3, <1>5, StartedPushes DEF ClientSubscribesAgain, Doing
<1>6. CASE ClientUpdatesSubscription \/ ClientUnsubscribesFromAll
  <2>1. PICK op \in {"updateSubscription", "unsubscribeAll"} : Replacing(op)
    BY <1>6 DEF ClientUpdatesSubscription, ClientUnsubscribesFromAll
  <2>2. wanted' = [wanted EXCEPT ![Step.type] = {pushing.name}] /\ UNCHANGED ack
    BY <1>6 DEF ClientUpdatesSubscription, ClientUnsubscribesFromAll, ReplacedBy
  <2>3. {pushing.name} \in Asked
    BY <2>1 DEF Replacing, StepOK, Entries, Asked
  <2>4. wanted' \in [Types -> Asked]
    BY <2>1, <2>2, <2>3, AsksWell
  <2>5. PICK q : Push(q)
    BY <1>6 DEF ClientUpdatesSubscription, ClientUnsubscribesFromAll
  <2> QED BY <2>1, <2>2, <2>4, <2>5, StartedPushes DEF Replacing
<1>7. CASE EntryIsRead
  BY <1>0, <1>7 DEF EntryIsRead, Reads, StartedInv, Subscribed, Awaited, Step
<1>8. CASE ClientUnsubscribesFromResource
  <2>1. wanted' \in [Types -> Asked]
    BY <1>0, <1>8, AsksWell DEF ClientUnsubscribesFromResource
  <2> QED BY <1>8, <2>1, StartedPushes DEF ClientUnsubscribesFromResource, Doing
<1> QED BY <1>1, <1>2, <1>4, <1>5, <1>6, <1>7, <1>8 DEF ClientNext

LEMMA StartedJudgeKeeps ==
    ASSUME StartedInv, TypeOK, JudgeNext
    PROVE  StartedInv'
<1> USE DEF acker
<1>0. wanted \in [Types -> Asked]
  BY DEF StartedInv
<1>1. CASE StepJudges
  <2>1. CASE StepDone
    <3>1. Step.op \in TimedOps /\ target = "conformant" => ack \in {"off", "stopped", "select"}
      BY <1>1 DEF StepJudges, TimerFires, Quiet
    <3> QED BY <1>0, <1>1, <2>1, <3>1, StartedMovesOn
            DEF StepJudges, StepDone, JudgingOps, TimedOps
  <2>2. CASE StepFails
    BY <1>0, <1>1, <2>2, StartedUntouched DEF StepJudges, StepFails
  <2> QED BY <1>1, <2>1, <2>2 DEF StepJudges
<1>2. CASE StepSignalsDone
  BY <1>0, <1>2 DEF StepSignalsDone, Doing, StartedInv, Subscribed, Awaited, Step
<1>3. CASE StepComparesCounts
  <2>1. CASE StepDone
    BY <1>0, <1>3, <2>1, StartedMovesOn DEF StepComparesCounts, StepDone, StartedInv, TimedOps
  <2>2. CASE StepFails
    BY <1>0, <1>3, <2>2, StartedUntouched DEF StepComparesCounts, StepFails
  <2> QED BY <1>3, <2>1, <2>2 DEF StepComparesCounts
<1>4. CASE ScenarioPasses
  BY <1>0, <1>4, StartedUntouched DEF ScenarioPasses
<1> QED BY <1>1, <1>2, <1>3, <1>4 DEF JudgeNext

LEMMA StartedInvHolds == Spec => []StartedInv
<1>1. Init => StartedInv
  BY DEF Init, StartedInv, Subscribed, Awaited, Asked
<1>2. StartedInv /\ TypeOK /\ [Next]_vars => StartedInv'
  <2> SUFFICES ASSUME StartedInv, TypeOK, [Next]_vars PROVE StartedInv'
    OBVIOUS
  <2>0. wanted \in [Types -> Asked]
    BY DEF StartedInv
  <2>1. CASE StreamNext \/ TargetNext \/ UNCHANGED vars
    <3>1. UNCHANGED <<scenario, target, pc, wanted, doing>>
      BY <2>1 DEF StreamNext, AckSubscribes, AckTakes, AckReplies, StreamSends, RecvReceives,
           RecordResource, RecordRemoval, RecvPanics, RecvCounts, RecvDelivers, TargetNext,
           TargetReads, TargetResponds, TargetDeclines, TargetImprovises, vars, control
    <3>2. /\ ack' = "off" <=> ack = "off"
          /\ ack' = "first" => ack = "first"
      BY <2>1 DEF StreamNext, AckSubscribes, AckTakes, AckReplies, StreamSends, RecvReceives,
           RecordResource, RecordRemoval, RecvPanics, RecvCounts, RecvDelivers, TargetNext,
           TargetReads, TargetResponds, TargetDeclines, TargetImprovises, vars, acker
    <3> QED BY <2>0, <3>1, <3>2, StartedUntouched
  <2>2. CASE AdapterNext
    <3>1. PICK op \in {"add", "update", "remove"} : AdapterStep(op)
      BY <2>2 DEF AdapterNext, ResourceIsAdded, ResourceIsUpdated, ResourceIsRemoved
    <3> QED BY <2>0, <3>1, StartedMovesOn DEF AdapterStep, Doing, StepDone, acker, TimedOps
  <2> QED BY <2>1, <2>2, StartedClientKeeps, StartedJudgeKeeps DEF Next
<1> QED BY <1>1, <1>2, ConversationTypeCorrect, PTL DEF Spec

-----------------------------------------------------------------------------
(* Incremental streams: the requests under way make the subscription of the *)
(* target the one the steps have asked for, in the order they are read.     *)

\* The subscription to type t when the target has read what is upstream, what is
\* in Channels.Req, the request a step pushes, and the stream's first one.
Sent(t)   == After(sub[t], upstream, t)
Queued(t) == After(Sent(t), req, t)
Pushed(t) == IF doing = "push" THEN SubAfter(Queued(t), pushing, t) ELSE Queued(t)
Asks(t)   == IF ack = "first" THEN SubAfter(Pushed(t), subscribeRequest, t) ELSE Pushed(t)

\* The first request may be overtaken by a step's, so neither takes anything back.
DeltaInv ==
    /\ \A t \in Types : Asks(t) = wanted[t]
    /\ ack = "first" => subscribeRequest.drop = {} /\ (doing = "push" => pushing.drop = {})
    /\ ack = "reply" => reply.names = {} /\ reply.drop = {}

LEMMA NothingAsked ==
    ASSUME NEW S, NEW r, NEW t, r.names = {}, r.drop = {}
    PROVE  SubAfter(S, r, t) = S
  BY DEF SubAfter

LEMMA OrderOfAdditions ==
    ASSUME NEW S, NEW q, NEW r, NEW t, q.drop = {}, r.drop = {}
    PROVE  SubAfter(SubAfter(S, q, t), r, t) = SubAfter(SubAfter(S, r, t), q, t)
  BY DEF SubAfter

\* Steps that ask for nothing and leave all requests where they are.
LEMMA DeltaUntouched ==
    ASSUME DeltaInv, UNCHANGED <<sub, wanted, upstream, req, pushing, subscribeRequest, reply>>,
           doing' = "push" <=> doing = "push", ack' = "first" <=> ack = "first",
           ack' = "reply" => ack = "reply"
    PROVE  DeltaInv'
<1>1. \A t : Sent(t)' = Sent(t) /\ Queued(t)' = Queued(t)
  BY DEF Sent, Queued
<1>2. \A t : Asks(t)' = Asks(t)
  BY <1>1 DEF Pushed, Asks
<1> QED BY <1>2 DEF DeltaInv

LEMMA DeltaStreamKeeps ==
    ASSUME DeltaInv, TypeOK, Incremental, StreamNext
    PROVE  DeltaInv'
<1> USE DEF TypeOK, StreamOK, control, server, record
<1>1. CASE AckSubscribes
  <2>1. UNCHANGED <<sub, wanted, upstream, doing, pushing>> /\ ack = "first" /\ ack' = "select"
    BY <1>1 DEF AckSubscribes
  <2>2. ASSUME NEW t \in Types PROVE Asks(t)' = Asks(t)
    <3>1. Sent(t)' = Sent(t)
      BY <2>1 DEF Sent
    <3>2. Queued(t)' = SubAfter(Queued(t), subscribeRequest, t)
      BY <1>1, <3>1, AfterAppend DEF AckSubscribes, Queued
    <3> HIDE DEF TypeOK, StreamOK
    <3> QED BY <2>1, <3>2, OrderOfAdditions DEF Asks, Pushed, DeltaInv
  <2> QED BY <2>1, <2>2 DEF DeltaInv
<1>2. CASE AckTakes
  <2>1. /\ UNCHANGED <<sub, wanted, upstream, req, doing, pushing>>
        /\ ack = "select" /\ ack' = "reply" /\ reply'.names = {} /\ reply'.drop = {}
    BY <1>2 DEF AckTakes, newAckFromResponse, Request
  <2>2. \A t : Asks(t)' = Asks(t)
    BY <2>1 DEF Asks, Pushed, Queued, Sent
  <2> QED BY <2>1, <2>2 DEF DeltaInv
<1>3. CASE AckReplies
  <2>1. UNCHANGED <<sub, wanted, upstream, doing, pushing>> /\ ack = "reply" /\ ack' = "select"
    BY <1>3 DEF AckReplies
  <2>2. ASSUME NEW t PROVE Asks(t)' = Asks(t)
    <3>1. Sent(t)' = Sent(t)
      BY <2>1 DEF Sent
    <3>2. Queued(t)' = SubAfter(Queued(t), reply, t)
      BY <1>3, <3>1, AfterAppend DEF AckReplies, Queued
    <3>3. Queued(t)' = Queued(t)
      BY <2>1, <3>2, NothingAsked DEF DeltaInv
    <3> QED BY <2>1, <3>3 DEF Asks, Pushed
  <2> QED BY <2>1, <2>2 DEF DeltaInv
<1>4. CASE StreamSends
  <2>1. UNCHANGED <<sub, wanted, doing, pushing, ack, reply, subscribeRequest>>
    BY <1>4 DEF StreamSends, acker
  <2>2. ASSUME NEW t PROVE Asks(t)' = Asks(t)
    <3>1. Head(req) \in Requests
      BY <1>4, QueueIsTyped DEF StreamSends
    <3>2. Sent(t)' = SubAfter(Sent(t), Head(req), t)
      BY <1>4, <2>1, <3>1, AfterAppend DEF StreamSends, Sent
    <3>3. Queued(t)' = Queued(t)
      BY <1>4, <3>2, AfterHead DEF StreamSends, Queued
    <3> QED BY <2>1, <3>3 DEF Asks, Pushed
  <2> QED BY <2>1, <2>2 DEF DeltaInv
<1>5. CASE RecvReceives \/ RecordResource \/ RecordRemoval \/ RecvPanics \/ RecvCounts
           \/ RecvDelivers
  BY <1>5, DeltaUntouched
     DEF RecvReceives, RecordResource, RecordRemoval, RecvPanics, RecvCounts, RecvDelivers,
         acker
<1> QED BY <1>1, <1>2, <1>3, <1>4, <1>5 DEF StreamNext

LEMMA DeltaTargetKeeps ==
    ASSUME DeltaInv, TypeOK, Incremental, TargetNext
    PROVE  DeltaInv'
<1> USE DEF record, acker, control
<1>1. CASE TargetReads
  <2>1. UNCHANGED <<wanted, req, doing, pushing, ack, reply, subscribeRequest>>
    BY <1>1 DEF TargetReads
  <2>2. /\ upstream # <<>> /\ upstream' = Tail(upstream) /\ upstream \in Seq(Requests)
        /\ Head(upstream).type \in Types
    <3>1. upstream # <<>> /\ upstream' = Tail(upstream) /\ upstream \in Seq(Requests)
      BY <1>1 DEF TargetReads, TypeOK, StreamOK
    <3>2. Head(upstream) \in Requests
      BY <3>1, QueueIsTyped
    <3> QED BY <3>1, <3>2 DEF Requests
  <2>3. ASSUME NEW t \in Types PROVE Asks(t)' = Asks(t)
    <3>1. sub'[t] = SubAfter(sub[t], Head(upstream), t)
      BY <1>1, <2>2 DEF TargetReads, TargetReadsDelta, SubAfter, TypeOK, TargetOK
    <3>2. Sent(t)' = Sent(t)
      BY <2>2, <3>1, AfterHead DEF Sent
    <3> QED BY <2>1, <3>2 DEF Asks, Pushed, Queued
  <2> QED BY <2>1, <2>3 DEF DeltaInv
<1>2. CASE TargetResponds \/ TargetDeclines \/ TargetImprovises
  BY <1>2, DeltaUntouched DEF TargetResponds, TargetSends, TargetDeclines, TargetImprovises
<1> QED BY <1>1, <1>2 DEF TargetNext

\* The step pushes its request, or makes it the stream's first.
LEMMA DeltaAsks ==
    ASSUME DeltaInv, Running, UNCHANGED <<sub, upstream, req, reply>>,
           NEW r, r.drop = {} \/ ack' # "first", ack # "reply" => ack' # "reply",
           \/ /\ doing' = "push" /\ pushing' = r /\ ack' = ack
              /\ ack = "first" => subscribeRequest' = subscribeRequest
           \/ doing' = "ready" /\ ack = "off" /\ ack' = "first" /\ subscribeRequest' = r,
           \A t \in Types : wanted'[t] = SubAfter(wanted[t], r, t)
    PROVE  DeltaInv'
<1>1. \A t : Queued(t)' = Queued(t)
  BY DEF Queued, Sent
<1>2. ASSUME NEW t \in Types PROVE Asks(t)' = wanted'[t]
  <2>1. doing = "ready" /\ Pushed(t) = Queued(t)
    BY DEF Running, Pushed
  <2>2. CASE ack = "first"
    BY <1>1, <2>1, <2>2, OrderOfAdditions DEF Asks, Pushed, DeltaInv
  <2>3. CASE ack # "first"
    BY <1>1, <2>1, <2>3 DEF Asks, Pushed, DeltaInv
  <2> QED BY <2>2, <2>3
<1> QED BY <1>2 DEF DeltaInv, Running

\* What the scenario does not ask, no step does.
LEMMA DeltaSteps ==
    ASSUME StepOK, UnsubscribesLater(scenario), NEW op, Doing(op) \/ Replacing(op)
    PROVE  /\ op \notin {"updateSubscription", "unsubscribeAll"}
           /\ op = "unsubscribe" => Awaited
<1>1. scenario.steps \in Seq(Steps)
  BY ScenariosAssumption DEF StepOK
<1>2. pc \in 1..Len(scenario.steps) /\ scenario.steps[pc].op = op
  BY <1>1, LenProperties DEF StepOK, Doing, Replacing, Running, Step
<1> QED BY <1>2 DEF UnsubscribesLater, Awaited

LEMMA DeltaClientKeeps ==
    ASSUME DeltaInv, StartedInv, TypeOK, Incremental, UnsubscribesLater(scenario),
           target = "conformant", ClientNext
    PROVE  DeltaInv'
<1> USE DEF record, acker, server
<1>0. ASSUME NEW op, Doing(op)
      PROVE  /\ op \notin {"updateSubscription", "unsubscribeAll"}
             /\ op = "unsubscribe" => ack # "first"
             /\ op \in StepOps => Step.type \in Types
             /\ Running
  BY <1>0, DeltaSteps, DoingIsTyped DEF TypeOK, StartedInv, Doing
<1>1. CASE StepPushes
  <2>1. /\ UNCHANGED <<sub, wanted, upstream, ack, reply, subscribeRequest>>
        /\ doing = "push" /\ doing' = "ready"
    BY <1>1 DEF StepPushes, StepDone
  <2>2. ASSUME NEW t PROVE Asks(t)' = Asks(t)
    <3>1. Queued(t)' = SubAfter(Queued(t), pushing, t)
      <4>1. Sent(t)' = Sent(t)
        BY <2>1 DEF Sent
      <4> QED BY <1>1, <4>1, AfterAppend DEF StepPushes, Queued, TypeOK, StreamOK, StepOK
    <3> QED BY <2>1, <3>1 DEF Asks, Pushed
  <2> QED BY <2>1, <2>2 DEF DeltaInv
<1>2. CASE TargetSetup
  BY <1>2, DeltaUntouched DEF TargetSetup, Doing, Running, StepDone
<1>3. ASSUME Doing("subscribe"), SubscribeResets
      PROVE  \A t \in Types :
                wanted'[t] = SubAfter(wanted[t], newRequest(Step.type, Step.names), t)
  <2>1. wanted' = [wanted EXCEPT ![Step.type] = @ \union Step.names]
    BY <1>3 DEF SubscribeResets
  <2> QED BY <2>1 DEF SubAfter, newRequest, Request, StartedInv
<1>4. newRequest(Step.type, Step.names).drop = {}
  BY DEF newRequest, Request
<1>5. CASE ClientSubscribes
  BY <1>0, <1>3, <1>4, <1>5, DeltaAsks DEF ClientSubscribes, StepDone
<1>6. CASE ClientSubscribesAgain
  BY <1>0, <1>3, <1>4, <1>6, DeltaAsks DEF ClientSubscribesAgain, Push
<1>7. CASE ClientUnsubscribesFromResource
  <2> DEFINE r == Request(Step.type, {}, Step.names, None)
  <2>1. /\ Push(r) /\ Doing("unsubscribe") /\ UNCHANGED <<sub, upstream, req, reply, ack>>
        /\ wanted' = [wanted EXCEPT ![Step.type] = @ \ Step.names]
    BY <1>7 DEF ClientUnsubscribesFromResource
  <2>2. \A t \in Types : wanted'[t] = SubAfter(wanted[t], r, t)
    BY <2>1 DEF SubAfter, Request, StartedInv
  <2> HIDE DEF r
  <2> QED BY <1>0, <2>1, <2>2, DeltaAsks DEF Push
<1>8. ~EntryIsRead /\ ~ClientUpdatesSubscription /\ ~ClientUnsubscribesFromAll
  BY DeltaSteps DEF EntryIsRead, ClientUpdatesSubscription, ClientUnsubscribesFromAll, TypeOK
<1> QED BY <1>1, <1>2, <1>5, <1>6, <1>7, <1>8 DEF ClientNext

LEMMA DeltaKeeps ==
    ASSUME DeltaInv, StartedInv, TypeOK, Incremental, UnsubscribesLater(scenario),
           target = "conformant", [Next]_vars
    PROVE  DeltaInv'
<1>1. CASE AdapterNext \/ JudgeNext \/ UNCHANGED vars
  BY <1>1, DeltaUntouched
     DEF AdapterNext, ResourceIsAdded, ResourceIsUpdated, ResourceIsRemoved, AdapterStep,
         JudgeNext, StepJudges, StepSignalsDone, StepComparesCounts, ScenarioPasses, StepDone,
         StepFails, Doing, Running, vars, record, acker, server, control
<1> QED BY <1>1, DeltaStreamKeeps, DeltaTargetKeeps, DeltaClientKeeps DEF Next

-----------------------------------------------------------------------------
(* State of the world streams whose subscriptions stay what they were made: *)
(* every request repeats the subscription of its type, and one that cannot  *)
(* be stale is under way until the target has it.                           *)

\* The requests under way, and those there may yet be copies of.
UnderWay ==
    Members(req) \union Members(upstream)
        \union (IF doing = "push" THEN {pushing} ELSE {})
        \union (IF ack = "first" THEN {subscribeRequest} ELSE {})
Repeated ==
    UnderWay \union (IF ack = "reply" THEN {reply} ELSE {})
             \union (IF ack # "off" THEN {subscribeRequest} ELSE {})

\* A step of the scenario asks for these names.
IsAsked(t, names) ==
    \E i \in 1..Len(scenario.steps) :
        /\ scenario.steps[i].op = "subscribe"
        /\ scenario.steps[i].type = t /\ scenario.steps[i].names = names

OnceInv ==
    /\ \A q \in Repeated : IsAsked(q.type, q.names) /\ wanted[q.type] = Wanted(q.names)
    /\ \A t \in Types : sub[t] # wanted[t] => \E q \in UnderWay : q.type = t /\ q.nonce = None

\* Steps that only make copies of requests, and lose none that is under way.
LEMMA OnceRepeats ==
    ASSUME OnceInv, UNCHANGED <<scenario, sub, wanted>>, UnderWay \subseteq UnderWay',
           \A q \in Repeated' : \E r \in Repeated : q.type = r.type /\ q.names = r.names
    PROVE  OnceInv'
  BY DEF OnceInv, IsAsked

LEMMA OnceUntouched ==
    ASSUME OnceInv, UNCHANGED <<scenario, sub, wanted, req, upstream, pushing, subscribeRequest,
                                reply>>,
           doing' = "push" <=> doing = "push", ack' = "first" <=> ack = "first",
           ack' = "reply" => ack = "reply", ack' = "off" <=> ack = "off"
    PROVE  OnceInv'
<1>1. UnderWay' = UnderWay
  BY DEF UnderWay, Members
<1>2. Repeated' \subseteq Repeated
  BY <1>1 DEF Repeated
<1> QED BY <1>1, <1>2, OnceRepeats

LEMMA OnceStreamKeeps ==
    ASSUME OnceInv, TypeOK, ~Incremental, StreamNext
    PROVE  OnceInv'
<1> USE DEF TypeOK, StreamOK, server, record
<1>1. UNCHANGED <<scenario, sub, wanted, doing, pushing, subscribeRequest>>
  BY DEF StreamNext, AckSubscribes, AckTakes, AckReplies, StreamSends, RecvReceives,
         RecordResource, RecordRemoval, RecvPanics, RecvCounts, RecvDelivers, control
<1>2. CASE AckSubscribes
  <2>1. Members(req') = Members(req) \union {subscribeRequest} /\ UNCHANGED upstream
        /\ ack = "first" /\ ack' = "select"
    BY <1>2, MembersOf DEF AckSubscribes
  <2>2. UnderWay' = UnderWay /\ Repeated' = Repeated
    BY <1>1, <2>1 DEF UnderWay, Repeated, Members
  <2> QED BY <1>1, <2>2, OnceRepeats
<1>3. CASE AckTakes
  <2>1. UNCHANGED <<req, upstream>> /\ ack = "select" /\ ack' = "reply"
        /\ reply'.type = subscribeRequest.type /\ reply'.names = subscribeRequest.names
    BY <1>3 DEF AckTakes, newAckFromResponse, Request
  <2>2. UnderWay' = UnderWay /\ Repeated' = Repeated \union {reply'}
        /\ subscribeRequest \in Repeated
    BY <1>1, <2>1 DEF UnderWay, Repeated, Members
  <2> QED BY <1>1, <2>1, <2>2, OnceRepeats
<1>4. CASE AckReplies
  <2>1. Members(req') = Members(req) \union {reply} /\ UNCHANGED upstream
        /\ ack = "reply" /\ ack' = "select"
    BY <1>4, MembersOf DEF AckReplies
  <2>2. UnderWay \subseteq UnderWay' /\ Repeated' = Repeated
    BY <1>1, <2>1 DEF UnderWay, Repeated, Members
  <2> QED BY <1>1, <2>2, OnceRepeats
<1>5. CASE StreamSends
  <2>1. Members(req) = Members(req') \union {Head(req)} /\ Head(req) \in Requests
    BY <1>5, MembersOf, QueueIsTyped DEF StreamSends
  <2>2. Members(upstream') = Members(upstream) \union {Head(req)}
    BY <1>5, <2>1, MembersOf DEF StreamSends
  <2>3. UnderWay' = UnderWay /\ Repeated' = Repeated
    BY <1>1, <1>5, <2>1, <2>2 DEF StreamSends, acker, UnderWay, Repeated, Members
  <2> QED BY <1>1, <2>3, OnceRepeats
<1>6. CASE RecvReceives \/ RecordResource \/ RecordRemoval \/ RecvPanics \/ RecvCounts
           \/ RecvDelivers
  <2>1. UNCHANGED <<req, upstream, ack, reply>>
    BY <1>6 DEF RecvReceives, RecordResource, RecordRemoval, RecvPanics, RecvCounts,
                RecvDelivers, acker
  <2> QED BY <1>1, <2>1, OnceUntouched
<1> QED BY <1>2, <1>3, <1>4, <1>5, <1>6 DEF StreamNext

LEMMA OnceTargetKeeps ==
    ASSUME OnceInv, TypeOK, ~Incremental, TargetNext
    PROVE  OnceInv'
<1> USE DEF record, acker, control
<1>1. CASE TargetReads
  <2>1. UNCHANGED <<scenario, wanted, req, doing, pushing, ack, reply, subscribeRequest>>
    BY <1>1 DEF TargetReads
  <2>2. /\ Members(upstream) = Members(upstream') \union {Head(upstream)}
        /\ Head(upstream) \in Requests
    BY <1>1, MembersOf, QueueIsTyped DEF TargetReads, TypeOK, StreamOK
  <2> DEFINE q == Head(upstream)
  <2>3. UnderWay = UnderWay' \union {q} /\ Repeated = Repeated' \union {q}
    BY <2>1, <2>2 DEF UnderWay, Repeated, Members
  <2>4. \A r \in Repeated' : (IsAsked(r.type, r.names) /\ wanted[r.type] = Wanted(r.names))'
    BY <2>1, <2>3 DEF OnceInv, IsAsked, Wanted
  <2>5. wanted[q.type] = Wanted(q.names) /\ q.type \in Types
    BY <2>2, <2>3 DEF OnceInv, Requests
  <2>6. CASE q.nonce \notin {None, nonceOf[q.type]}
    <3>1. sub' = sub /\ q.nonce # None
      BY <1>1, <2>6 DEF TargetReads, TargetReadsSotw, server
    <3> QED BY <2>1, <2>3, <2>4, <3>1 DEF OnceInv
  <2>7. CASE q.nonce \in {None, nonceOf[q.type]}
    <3>1. sub' = [sub EXCEPT ![q.type] = Wanted(q.names)]
      BY <1>1, <2>7 DEF TargetReads, TargetReadsSotw
    <3>2. sub'[q.type] = wanted[q.type] /\ \A t \in Types : t # q.type => sub'[t] = sub[t]
      BY <2>5, <3>1 DEF TypeOK, TargetOK
    <3> HIDE DEF q
    <3> QED BY <2>1, <2>3, <2>4, <3>2 DEF OnceInv
  <2> QED BY <2>6, <2>7
<1>2. CASE TargetResponds \/ TargetDeclines \/ TargetImprovises
  BY <1>2, OnceUntouched DEF TargetResponds, TargetSends, TargetDeclines, TargetImprovises
<1> QED BY <1>1, <1>2 DEF TargetNext

\* The scenario asks for nothing but subscriptions, and for the same ones again.
LEMMA OnceSteps ==
    ASSUME StepOK, SubscribesOnce(scenario), NEW op \in AskingOps, Doing(op) \/ Replacing(op)
    PROVE  /\ op = "subscribe" /\ IsAsked(Step.type, Step.names)
           /\ \A names : IsAsked(Step.type, names) => names = Step.names
<1>1. scenario.steps \in Seq(Steps)
  BY ScenariosAssumption DEF StepOK
<1>2. pc \in 1..Len(scenario.steps) /\ scenario.steps[pc] = Step /\ Step.op = op
  BY <1>1, LenProperties DEF StepOK, Doing, Replacing, Running, Step
<1>3. op = "subscribe"
  BY <1>2 DEF SubscribesOnce
<1>4. IsAsked(Step.type, Step.names)
  BY <1>2, <1>3 DEF IsAsked
<1>5. ASSUME NEW names, IsAsked(Step.type, names) PROVE names = Step.names
  BY <1>2, <1>3, <1>5 DEF IsAsked, SubscribesOnce
<1> QED BY <1>3, <1>4, <1>5

LEMMA OnceClientKeeps ==
    ASSUME OnceInv, StartedInv, TypeOK, ~Incremental, SubscribesOnce(scenario), ClientNext
    PROVE  OnceInv'
<1> USE DEF acker, server
<1>1. CASE StepPushes
  <2>1. Members(req') = Members(req) \union {pushing}
    BY <1>1, MembersOf DEF StepPushes, TypeOK, StreamOK, StepOK
  <2>2. /\ UNCHANGED <<scenario, sub, wanted, upstream, ack, reply, subscribeRequest>>
        /\ doing = "push" /\ doing' = "ready"
    BY <1>1 DEF StepPushes, StepDone, record
  <2>3. UnderWay' = UnderWay /\ Repeated' = Repeated
    BY <2>1, <2>2 DEF UnderWay, Repeated, Members
  <2> QED BY <2>2, <2>3, OnceRepeats
<1>2. CASE TargetSetup
  BY <1>2, OnceUntouched DEF TargetSetup, Doing, Running, StepDone, record
<1>3. ASSUME Doing("subscribe"), SubscribeResets,
             UNCHANGED <<scenario, sub, req, upstream, reply>>,
             NEW r, r = newRequest(Step.type, Step.names),
             \/ /\ doing' = "push" /\ pushing' = r /\ ack' = ack
                /\ subscribeRequest' = subscribeRequest
             \/ doing' = "ready" /\ ack = "off" /\ ack' = "first" /\ subscribeRequest' = r
      PROVE  OnceInv'
  <2>1. Step.type \in Types /\ wanted' = [wanted EXCEPT ![Step.type] = Wanted(Step.names)]
    BY <1>3, DoingIsTyped DEF SubscribeResets, TypeOK, StepOps
  <2>2. wanted'[Step.type] = Wanted(Step.names)
        /\ \A t : t # Step.type => wanted'[t] = wanted[t]
    BY <2>1 DEF StartedInv
  <2>3. r.type = Step.type /\ r.names = Step.names /\ r.nonce = None
    BY <1>3 DEF newRequest, Request
  <2>4. /\ r \in UnderWay' /\ UnderWay \subseteq UnderWay'
        /\ \A q \in Repeated' : q \in Repeated \/ q = r
    BY <1>3 DEF Doing, Running, UnderWay, Repeated, Members
  <2>5. IsAsked(Step.type, Step.names)
        /\ \A names : IsAsked(Step.type, names) => names = Step.names
    BY <1>3, OnceSteps DEF TypeOK, AskingOps
  <2>6. ASSUME NEW q \in Repeated'
        PROVE  IsAsked(q.type, q.names) /\ wanted'[q.type] = Wanted(q.names)
    <3>1. IsAsked(q.type, q.names)
      BY <2>3, <2>4, <2>5 DEF OnceInv
    <3>2. CASE q.type = Step.type
      BY <2>2, <2>5, <3>1, <3>2
    <3>3. CASE q.type # Step.type
      BY <2>2, <2>3, <2>4, <3>3 DEF OnceInv
    <3> QED BY <3>1, <3>2, <3>3
  <2>7. ASSUME NEW t \in Types, sub'[t] # wanted'[t]
        PROVE  \E q \in UnderWay' : q.type = t /\ q.nonce = None
    <3>1. CASE t = Step.type
      BY <2>3, <2>4, <3>1
    <3>2. CASE t # Step.type
      BY <1>3, <2>2, <2>4, <2>7, <3>2 DEF OnceInv
    <3> QED BY <3>1, <3>2
  <2> QED BY <1>3, <2>6, <2>7 DEF OnceInv, IsAsked, Wanted
<1>4. CASE ClientSubscribes
  BY <1>3, <1>4 DEF ClientSubscribes, StepDone
<1>5. CASE ClientSubscribesAgain
  BY <1>3, <1>5 DEF ClientSubscribesAgain, Push
<1>6. /\ ~EntryIsRead /\ ~ClientUpdatesSubscription /\ ~ClientUnsubscribesFromAll
      /\ ~ClientUnsubscribesFromResource
  BY OnceSteps DEF EntryIsRead, ClientUpdatesSubscription, ClientUnsubscribesFromAll,
                   ClientUnsubscribesFromResource, AskingOps, TypeOK
<1> QED BY <1>1, <1>2, <1>4, <1>5, <1>6 DEF ClientNext

LEMMA OnceKeeps ==
    ASSUME OnceInv, StartedInv, TypeOK, ~Incremental, SubscribesOnce(scenario), [Next]_vars
    PROVE  OnceInv'
<1>1. CASE AdapterNext \/ JudgeNext \/ UNCHANGED vars
  BY <1>1, OnceUntouched
     DEF AdapterNext, ResourceIsAdded, ResourceIsUpdated, ResourceIsRemoved, AdapterStep,
         JudgeNext, StepJudges, StepSignalsDone, StepComparesCounts, ScenarioPasses, StepDone,
         StepFails, Doing, Running, vars, record, acker, server, control
<1> QED BY <1>1, OnceStreamKeeps, OnceTargetKeeps, OnceClientKeeps DEF Next

-----------------------------------------------------------------------------
(* The theorem.                                                             *)

SettleInv ==
    /\ UnsubscribesLater(scenario) /\ target = "conformant" => DeltaInv
    /\ SubscribesOnce(scenario) => OnceInv

LEMMA SettleInvHolds == Spec => []SettleInv
<1>1. Init => SettleInv
  <2> SUFFICES ASSUME Init PROVE DeltaInv /\ OnceInv
    BY DEF SettleInv
  <2>1. \A t \in Types : Asks(t) = {}
    BY AfterNothing DEF Init, Asks, Pushed, Queued, Sent
  <2>2. DeltaInv
    BY <2>1 DEF Init, DeltaInv
  <2>3. OnceInv
    BY DEF Init, OnceInv, Repeated, UnderWay, Members
  <2> QED BY <2>2, <2>3
<1>2. SettleInv /\ StartedInv /\ TypeOK /\ [Next]_vars => SettleInv'
  <2> SUFFICES ASSUME SettleInv, StartedInv, TypeOK, [Next]_vars PROVE SettleInv'
    OBVIOUS
  <2>1. scenario' = scenario /\ target' = target
    BY StepsAdvance, TargetStays
  <2>2. UnsubscribesLater(scenario) => Incremental
    BY DEF UnsubscribesLater, Incremental
  <2>3. SubscribesOnce(scenario) => ~Incremental
    BY DEF SubscribesOnce, Incremental
  <2> QED BY <2>1, <2>2, <2>3, DeltaKeeps, OnceKeeps DEF SettleInv
<1> QED BY <1>1, <1>2, StartedInvHolds, ConversationTypeCorrect, PTL DEF Spec

\* When all is quiet a conformant target has the subscription the steps last
\* asked for, for all names and timings, however requests of the steps, of Ack
\* (steps.go, runner.go newAckFromResponse) and its first one overtake each other:
\* in every incremental scenario that unsubscribes from what it has waited for,
\* and in every state of the world one that leaves its subscriptions as they are.
THEOREM SubscriptionSettlesHolds ==
    Spec => [](UnsubscribesLater(scenario) \/ SubscribesOnce(scenario) => SubscriptionSettles)
<1>1. SettleInv /\ StartedInv /\ TypeOK =>
          (UnsubscribesLater(scenario) \/ SubscribesOnce(scenario) => SubscriptionSettles)
  <2> SUFFICES ASSUME SettleInv, StartedInv, TypeOK,
                      UnsubscribesLater(scenario) \/ SubscribesOnce(scenario),
                      target = "conformant", Quiet, doing # "push",
                      ack \in {"select", "stopped"}
               PROVE  sub = wanted
    BY DEF SubscriptionSettles
  <2>1. req = <<>> /\ upstream = <<>>
    BY DEF Quiet
  <2>2. \A t \in Types : sub[t] = wanted[t]
    <3>1. CASE UnsubscribesLater(scenario)
      <4>1. \A t \in Types : Asks(t) = sub[t]
        BY <2>1, AfterNothing DEF Asks, Pushed, Queued, Sent
      <4> QED BY <3>1, <4>1 DEF SettleInv, DeltaInv
    <3>2. CASE SubscribesOnce(scenario)
      <4>1. UnderWay = {}
        BY <2>1 DEF UnderWay, Members
      <4> QED BY <3>2, <4>1 DEF SettleInv, OnceInv
    <3> QED BY <3>1, <3>2
  <2>3. sub \in [Types -> Asked] /\ wanted \in [Types -> Asked]
    BY DEF TypeOK, TargetOK, StartedInv
  <2> QED BY <2>2, <2>3
<1> QED BY <1>1, SettleInvHolds, StartedInvHolds, ConversationTypeCorrect, PTL
=============================================================================
