------------------------- MODULE ConversationProofs -------------------------
(***************************************************************************)
(* For all scenarios, names, versions, capacities and targets: the state   *)
(* of a conversation is of its types, the record has one entry a name, and *)
(* every request sent and response read is for a type there is.  The       *)
(* runner's record holds nothing that the target did not send, so a step   *)
(* that finds its resources there is right.  And of the ACKs: each is for  *)
(* the type of the response it answers, but on state of the world streams  *)
(* of several services.                                                    *)
(***************************************************************************)
EXTENDS Conversation, SequenceTheorems, TLAPS

-----------------------------------------------------------------------------
(* Steps and messages.                                                      *)

\* The scenario has its place for a step, and the step its type.
LEMMA StepIsTyped ==
    ASSUME StepOK, pc <= Len(scenario.steps)
    PROVE  /\ Step \in Steps /\ Len(scenario.steps) \in Nat
           /\ pc + 1 \in 1..(Len(scenario.steps) + 1)
<1>1. scenario.steps \in Seq(Steps)
  BY ScenariosAssumption DEF StepOK
<1>2. Len(scenario.steps) \in Nat /\ pc \in 1..Len(scenario.steps)
  BY <1>1 DEF StepOK
<1>3. Step \in Steps
  BY <1>1, <1>2, ElementOfSeq DEF Step
<1> QED BY <1>2, <1>3

LEMMA DoingIsTyped ==
    ASSUME StepOK, NEW op, Doing(op) \/ Replacing(op)
    PROVE  /\ op = "setup" => Step.types \subseteq Types
           /\ op \in StepOps => Step.type \in Types
           /\ op # "neverMore" => Step.names \subseteq Names /\ Step.version \in Versions
           /\ pc <= Len(scenario.steps)
<1>1. Step \in Steps /\ Step.op = op /\ pc <= Len(scenario.steps)
  BY StepIsTyped DEF Doing, Running, Replacing, StepOK
<1> QED BY <1>1 DEF Steps, StepOps

LEMMA RequestIsTyped ==
    ASSUME NEW t \in Types, NEW names \in Asked, NEW drop \in SUBSET Names, NEW nonce \in Nat
    PROVE  Request(t, names, drop, nonce) \in Requests
  BY DEF Request, Requests

LEMMA ResponseIsTyped ==
    ASSUME NEW t \in Types, NEW names \in SUBSET Names, NEW gone \in SUBSET Names,
           NEW v \in Known, NEW nonce \in Nat
    PROVE  Response(t, names, gone, v, nonce) \in Responses
  BY DEF Response, Responses

\* What takes the head of a queue, or appends to it.
LEMMA QueueIsTyped ==
    ASSUME NEW S, NEW q \in Seq(S)
    PROVE  /\ Len(q) \in Nat
           /\ q # <<>> => Head(q) \in S /\ Tail(q) \in Seq(S) /\ Len(Tail(q)) = Len(q) - 1
           /\ \A e \in S : Append(q, e) \in Seq(S) /\ Len(Append(q, e)) = Len(q) + 1
  BY LenProperties, AppendProperties, HeadTailProperties

\* An entry read is of the record, or the blank one of a name.
LEMMA AtIsTyped ==
    ASSUME RecordOK, NEW t \in Types, NEW n \in Names
    PROVE  /\ At(t, n) \in Entries /\ At(t, n).type = t /\ At(t, n).name = n
<1>1. CASE \E e \in Of(t) : e.name = n
  <2>1. At(t, n) \in Of(t) /\ At(t, n).name = n
    BY <1>1 DEF At
  <2> QED BY <2>1 DEF Of, RecordOK
<1>2. CASE ~ \E e \in Of(t) : e.name = n
  BY <1>2 DEF At, Entry, Entries, Known, None
<1> QED BY <1>1, <1>2

-----------------------------------------------------------------------------
(* What leaves a part of the state alone.                                   *)

LEMMA RecordFrame == ASSUME RecordOK, UNCHANGED <<resources, removed, mapped, counts>> PROVE RecordOK'
  BY DEF RecordOK, counts
LEMMA StreamFrame ==
    ASSUME StreamOK,
           UNCHANGED <<ack, recv, req, res, upstream, downstream, subscribeRequest, reply,
                       hand, todo>>
    PROVE  StreamOK'
  BY DEF StreamOK
LEMMA TargetFrame == ASSUME TargetOK, UNCHANGED <<server, snapshot>> PROVE TargetOK'
  BY DEF TargetOK, server, snapshot
LEMMA StepFrame ==
    ASSUME StepOK, UNCHANGED <<scenario, target, pc, doing, pushing, result>>
    PROVE  StepOK'
  BY DEF StepOK, Step

-----------------------------------------------------------------------------
(* The goroutines of the stream.                                            *)

\* The map of a type takes an entry in the place of one of its name.
LEMMA PutIsTyped ==
    ASSUME RecordOK, NEW e \in Entries, resources' = Put(resources, e)
    PROVE  /\ resources' \in SUBSET Entries
           /\ \A f, g \in resources' : f.type = g.type /\ f.name = g.name => f = g
  BY DEF RecordOK, Put

LEMMA AckIsTyped ==
    ASSUME TypeOK, AckSubscribes \/ AckTakes \/ AckReplies
    PROVE  TypeOK'
<1>1. RecordOK' /\ TargetOK' /\ StepOK'
  BY RecordFrame, TargetFrame, StepFrame
     DEF TypeOK, AckSubscribes, AckTakes, AckReplies, record, counts, control
<1>2. CASE AckSubscribes
  <2>1. req' \in Seq(Requests) /\ Len(req') = Len(req) + 1 /\ Len(req) \in Nat
    BY <1>2, QueueIsTyped DEF AckSubscribes, TypeOK, StreamOK
  <2>2. StreamOK'
    BY <1>2, <2>1, BoundAssumption DEF AckSubscribes, TypeOK, StreamOK, record, receiver
  <2> QED BY <1>1, <2>2 DEF TypeOK
<1>3. CASE AckTakes
  <2>1. /\ res' \in Seq(Responses) /\ Len(res') = Len(res) - 1 /\ Len(res) \in Nat
        /\ Head(res) \in Responses
    BY <1>3, QueueIsTyped DEF AckTakes, TypeOK, StreamOK
  <2>2. newAckFromResponse(Head(res)) \in Requests
    <3>1. Head(res).type \in Types /\ Head(res).nonce \in Nat
      BY <2>1 DEF Responses
    <3>2. subscribeRequest.type \in Types /\ subscribeRequest.names \in Asked
      BY <1>3 DEF AckTakes, TypeOK, StreamOK, Requests
    <3> QED BY <3>1, <3>2, RequestIsTyped DEF newAckFromResponse, Asked
  <2>3. StreamOK'
    BY <1>3, <2>1, <2>2, BoundAssumption DEF AckTakes, TypeOK, StreamOK, record, receiver
  <2> QED BY <1>1, <2>3 DEF TypeOK
<1>4. CASE AckReplies
  <2>1. req' \in Seq(Requests) /\ Len(req') = Len(req) + 1 /\ Len(req) \in Nat
    BY <1>4, QueueIsTyped DEF AckReplies, TypeOK, StreamOK
  <2>2. StreamOK'
    BY <1>4, <2>1, BoundAssumption DEF AckReplies, TypeOK, StreamOK, record, receiver
  <2> QED BY <1>1, <2>2 DEF TypeOK
<1> QED BY <1>2, <1>3, <1>4

LEMMA SendsIsTyped == ASSUME TypeOK, StreamSends PROVE TypeOK'
<1>1. RecordOK' /\ TargetOK' /\ StepOK'
  BY TargetFrame, StepFrame DEF TypeOK, StreamSends, record, RecordOK, control
<1>2. /\ req' \in Seq(Requests) /\ Len(req') = Len(req) - 1 /\ Len(req) \in Nat
      /\ upstream' \in Seq(Requests)
  BY QueueIsTyped DEF StreamSends, TypeOK, StreamOK
<1>3. StreamOK'
  BY <1>2, BoundAssumption DEF StreamSends, TypeOK, StreamOK, record, acker, receiver
<1> QED BY <1>1, <1>3 DEF TypeOK

LEMMA RecvIsTyped ==
    ASSUME TypeOK, \/ RecvReceives \/ RecordResource \/ RecordRemoval
                   \/ RecvPanics \/ RecvCounts \/ RecvDelivers
    PROVE  TypeOK'
<1>1. TargetOK' /\ StepOK'
  BY TargetFrame, StepFrame
     DEF TypeOK, RecvReceives, RecordResource, RecordRemoval, RecvPanics, RecvCounts,
         RecvDelivers, control
<1>2. CASE RecvReceives
  <2>1. downstream' \in Seq(Responses) /\ hand' \in Responses
    BY <1>2, QueueIsTyped DEF RecvReceives, TypeOK, StreamOK
  <2>2. todo' = hand'.names \union hand'.gone
    BY <1>2 DEF RecvReceives
  <2>3. todo' \subseteq Names
    BY <2>1, <2>2 DEF Responses
  <2>4. StreamOK'
    BY <1>2, <2>1, <2>3 DEF RecvReceives, TypeOK, StreamOK, record, acker
  <2>5. RecordOK'
    BY <1>2, RecordFrame DEF RecvReceives, TypeOK, record
  <2> QED BY <1>1, <2>4, <2>5 DEF TypeOK
<1>3. CASE RecordResource
  <2>1. PICK n \in todo \cap hand.names :
            /\ resources' = Put(resources, Entry(hand.type, n, hand.version, hand.nonce))
            /\ todo' = todo \ {n}
    BY <1>3 DEF RecordResource
  <2>2. Entry(hand.type, n, hand.version, hand.nonce) \in Entries
    BY <1>3, <2>1 DEF RecordResource, TypeOK, StreamOK, Responses, Entry, Entries
  <2>3. removed' \subseteq removed
    BY <1>3 DEF RecordResource
  <2>4. RecordOK'
    BY <1>3, <2>1, <2>2, <2>3, PutIsTyped DEF RecordResource, TypeOK, RecordOK, counts
  <2>5. StreamOK'
    BY <1>3, <2>1 DEF RecordResource, TypeOK, StreamOK, acker
  <2> QED BY <1>1, <2>4, <2>5 DEF TypeOK
<1>4. CASE RecordRemoval
  <2>1. PICK n \in todo \cap hand.gone :
            /\ removed' = removed \union {[type |-> hand.type, name |-> n]}
            /\ todo' = todo \ {n}
    BY <1>4 DEF RecordRemoval
  <2>2. hand.type \in Types /\ n \in Names
    BY <1>4, <2>1 DEF RecordRemoval, TypeOK, RecordOK, StreamOK
  <2>3. RecordOK'
    BY <1>4, <2>1, <2>2 DEF RecordRemoval, TypeOK, RecordOK, counts
  <2>4. StreamOK'
    BY <1>4, <2>1 DEF RecordRemoval, TypeOK, StreamOK, acker
  <2> QED BY <1>1, <2>3, <2>4 DEF TypeOK
<1>5. CASE RecvPanics \/ RecvCounts
  <2>1. StreamOK'
    BY <1>5 DEF RecvPanics, RecvCounts, TypeOK, StreamOK, record, acker
  <2>2. RecordOK'
    BY <1>5 DEF RecvPanics, RecvCounts, TypeOK, RecordOK, record, counts
  <2> QED BY <1>1, <2>1, <2>2 DEF TypeOK
<1>6. CASE RecvDelivers
  <2>1. res' \in Seq(Responses) /\ Len(res') = Len(res) + 1 /\ Len(res) \in Nat
    BY <1>6, QueueIsTyped DEF RecvDelivers, TypeOK, StreamOK
  <2>2. StreamOK'
    BY <1>6, <2>1, BoundAssumption DEF RecvDelivers, TypeOK, StreamOK, record
  <2>3. RecordOK'
    BY <1>6, RecordFrame DEF RecvDelivers, TypeOK, record
  <2> QED BY <1>1, <2>2, <2>3 DEF TypeOK
<1> QED BY <1>2, <1>3, <1>4, <1>5, <1>6

-----------------------------------------------------------------------------
(* The target.                                                              *)

LEMMA TargetIsTyped == ASSUME TypeOK, TargetNext PROVE TypeOK'
<1>1. RecordOK' /\ StepOK'
  BY RecordFrame, StepFrame
     DEF TypeOK, TargetNext, TargetReads, TargetResponds, TargetDeclines, TargetImprovises,
         record, control
<1>2. CASE TargetReads
  <2>1. upstream' \in Seq(Requests) /\ Head(upstream) \in Requests
    BY <1>2, QueueIsTyped DEF TargetReads, TypeOK, StreamOK
  <2>2. StreamOK'
    BY <1>2, <2>1 DEF TargetReads, TypeOK, StreamOK, record, acker, receiver
  <2>3. Head(upstream).type \in Types /\ Head(upstream).names \in Asked
        /\ Wanted(Head(upstream).names) \in Asked
    BY <2>1 DEF Requests, Wanted, Asked
  <2>4. UNCHANGED snapshot
    BY <1>2 DEF TargetReads
  <2>5. ASSUME TargetReadsSotw PROVE TargetOK'
    <3> DEFINE t == Head(upstream).type
               names == Wanted(Head(upstream).names)
               says == [n \in Names |-> IF n \in names THEN known[t][n] ELSE 0]
    <3>1. CASE Head(upstream).nonce \notin {None, nonceOf[t]}
      BY <2>4, <2>5, <3>1 DEF TargetReadsSotw, TypeOK, TargetOK, snapshot, server
    <3>2. CASE Head(upstream).nonce \in {None, nonceOf[t]}
      <4>1. /\ sub' = [sub EXCEPT ![t] = names]
            /\ known' = [known EXCEPT ![t] = says]
            /\ due' \subseteq due \union {t}
            /\ UNCHANGED <<nonceOf, nonces>>
        BY <2>5, <3>2 DEF TargetReadsSotw
      <4>2. t \in Types /\ names \in Asked
        BY <2>3
      <4>3. says \in [Names -> Int]
        BY <4>2 DEF TypeOK, TargetOK
      <4> HIDE DEF t, names, says
      <4> QED BY <2>4, <4>1, <4>2, <4>3 DEF TypeOK, TargetOK, snapshot
    <3> QED BY <3>1, <3>2
  <2>6. ASSUME TargetReadsDelta PROVE TargetOK'
    <3>1. sub' \in [Types -> Asked] /\ known' \in [Types -> [Names -> Int]]
      BY <2>3, <2>6 DEF TargetReadsDelta, TypeOK, TargetOK, Asked
    <3> QED BY <2>4, <2>6, <3>1 DEF TargetReadsDelta, TypeOK, TargetOK, snapshot
  <2> QED BY <1>1, <1>2, <2>2, <2>5, <2>6 DEF TargetReads, TypeOK
<1>3. CASE TargetResponds
  <2> PICK t \in Types : \E names \in Batches(t) : TargetSends(t, names)
    BY <1>3 DEF TargetResponds
  <2>1. PICK names \in Batches(t) : TargetSends(t, names)
    OBVIOUS
  <2>2. names \subseteq Names
    BY <2>1 DEF Batches, Existing, Owed
  <2> DEFINE found == {n \in names : content[t][n] > 0}
             r == Response(t, found, names \ found, version[t], nonces + 1)
  <2>3. r \in Responses
    <3>1. found \in SUBSET Names /\ names \ found \in SUBSET Names
      BY <2>2
    <3>2. version[t] \in Known /\ nonces + 1 \in Nat
      BY DEF TypeOK, TargetOK
    <3> QED BY <3>1, <3>2, ResponseIsTyped
  <2>4. downstream' = Append(downstream, r)
    BY <2>1 DEF TargetSends
  <2> HIDE DEF r
  <2>5. downstream' \in Seq(Responses)
    BY <2>3, <2>4, QueueIsTyped DEF TypeOK, StreamOK
  <2>6. StreamOK'
    BY <1>3, <2>5 DEF TargetResponds, TypeOK, StreamOK, record, acker, receiver
  <2>7. known' \in [Types -> [Names -> Int]]
    <3> DEFINE says == [n \in Names |-> IF n \in found THEN content[t][n]
                                        ELSE IF n \in names THEN Gone ELSE known[t][n]]
    <3>1. known' = [known EXCEPT ![t] = says]
      BY <2>1 DEF TargetSends, TypeOK, TargetOK
    <3>2. says \in [Names -> Int]
      BY DEF TypeOK, TargetOK, Gone
    <3> HIDE DEF says
    <3> QED BY <3>1, <3>2 DEF TypeOK, TargetOK
  <2>8. nonces' \in Nat /\ nonceOf' \in [Types -> Nat] /\ due' \subseteq Types /\ sub' = sub
    BY <2>1 DEF TargetSends, TypeOK, TargetOK
  <2>9. TargetOK'
    BY <1>3, <2>7, <2>8 DEF TargetResponds, TypeOK, TargetOK, snapshot
  <2> QED BY <1>1, <2>6, <2>9 DEF TypeOK
<1>4. CASE TargetDeclines
  <2>1. due' \subseteq due
    BY <1>4 DEF TargetDeclines
  <2>2. TargetOK' /\ StreamOK'
    BY <1>4, <2>1 DEF TargetDeclines, TypeOK, TargetOK, StreamOK, snapshot, record, acker,
                      receiver
  <2> QED BY <1>1, <2>2 DEF TypeOK
<1>5. CASE TargetImprovises
  <2>1. PICK t \in Unasked \union {u \in Types : sub[u] # {}}, names \in SUBSET Names,
             v \in Versions \union {None} :
             \E gone \in (IF Incremental THEN SUBSET (Names \ names) ELSE {{}}) :
                downstream' = Append(downstream, Response(t, names, gone, v, nonces + 1))
    BY <1>5 DEF TargetImprovises
  <2> PICK gone \in (IF Incremental THEN SUBSET (Names \ names) ELSE {{}}) :
           downstream' = Append(downstream, Response(t, names, gone, v, nonces + 1))
    BY <2>1
  <2>2. t \in Types /\ gone \in SUBSET Names /\ v \in Known /\ nonces + 1 \in Nat
    BY <2>1, TargetAssumption DEF TypeOK, TargetOK, Known
  <2>3. downstream' \in Seq(Responses)
    BY <2>1, <2>2, ResponseIsTyped, QueueIsTyped DEF TypeOK, StreamOK
  <2>4. StreamOK'
    BY <1>5, <2>3 DEF TargetImprovises, TypeOK, StreamOK, record, acker, receiver
  <2>5. TargetOK'
    BY <1>5 DEF TargetImprovises, TypeOK, TargetOK, snapshot
  <2> QED BY <1>1, <2>4, <2>5 DEF TypeOK
<1> QED BY <1>2, <1>3, <1>4, <1>5 DEF TargetNext

-----------------------------------------------------------------------------
(* The steps.                                                               *)

LEMMA AdvanceIsTyped ==
    ASSUME StepOK, pc <= Len(scenario.steps), StepDone
    PROVE  StepOK'
<1>1. pc' \in 1..(Len(scenario.steps) + 1)
  BY StepIsTyped DEF StepDone
<1> QED BY <1>1 DEF StepOK, StepDone

LEMMA PushIsTyped ==
    ASSUME StepOK, pc <= Len(scenario.steps), NEW q \in Requests, Push(q)
    PROVE  StepOK'
  BY DEF StepOK, Push

\* The names subscribed to take the place of what was recorded of their type.
LEMMA ResetIsTyped ==
    ASSUME RecordOK, NEW t \in Types, NEW E \in SUBSET Entries,
           \A e \in E : e.type = t, \A e, f \in E : e.name = f.name => e = f,
           resources' \subseteq Others(t) \union E,
           removed' \subseteq removed, mapped' \subseteq mapped \union {t}, UNCHANGED counts
    PROVE  RecordOK'
<1>1. resources' \in SUBSET Entries
  BY DEF RecordOK, Others
<1>2. \A e, f \in resources' : e.type = f.type /\ e.name = f.name => e = f
  BY DEF RecordOK, Others
<1> QED BY <1>1, <1>2 DEF RecordOK, counts

LEMMA SubscribeIsTyped ==
    ASSUME TypeOK, Doing("subscribe"), SubscribeResets, UNCHANGED counts
    PROVE  RecordOK' /\ newRequest(Step.type, Step.names) \in Requests
<1>1. Step.type \in Types /\ Step.names \subseteq Names
  BY DoingIsTyped DEF TypeOK, StepOps
<1> DEFINE E == {Entry(Step.type, n, None, None) : n \in Step.names}
<1>2. E \in SUBSET Entries /\ (\A e \in E : e.type = Step.type)
      /\ \A e, f \in E : e.name = f.name => e = f
  BY <1>1 DEF Entry, Entries, Known, None
<1>3. resources' = Others(Step.type) \union E /\ removed' \subseteq removed
      /\ mapped' = mapped \union {Step.type}
  BY DEF SubscribeResets
<1> HIDE DEF E
<1>4. RecordOK'
  BY <1>1, <1>2, <1>3, ResetIsTyped DEF TypeOK
<1>5. newRequest(Step.type, Step.names) \in Requests
  BY <1>1 DEF newRequest, Request, Requests, Asked, None
<1> QED BY <1>4, <1>5

\* What a step reads of the record is an entry of the step's type.
LEMMA EntryReadIsTyped ==
    ASSUME RecordOK, StepOK, EntryIsRead
    PROVE  pushing' \in Entries /\ pushing'.type = Step.type
<1>1. CASE Doing("updateSubscription") /\ \E n \in Step.names : Reads(At(Step.type, n))
  <2>1. PICK n \in Step.names : pushing' = At(Step.type, n)
    BY <1>1 DEF Reads
  <2>2. Step.type \in Types /\ Step.names \subseteq Names
    BY <1>1, DoingIsTyped DEF StepOps
  <2> QED BY <2>1, <2>2, AtIsTyped
<1>2. CASE Doing("unsubscribeAll") /\ \E lastNonce \in AnyNonce(Step.type) :
               Reads(Entry(Step.type, Blank, None, lastNonce))
  <2>1. PICK lastNonce \in AnyNonce(Step.type) :
            pushing' = Entry(Step.type, Blank, None, lastNonce)
    BY <1>2 DEF Reads
  <2>2. lastNonce \in Nat
    BY <2>1 DEF AnyNonce, Of, RecordOK, Entries, None
  <2>3. Step.type \in Types
    BY <1>2, DoingIsTyped DEF StepOps
  <2> QED BY <2>1, <2>2, <2>3 DEF Entry, Entries, Known
<1> QED BY <1>1, <1>2 DEF EntryIsRead

LEMMA ReadIsTyped == ASSUME TypeOK, EntryIsRead PROVE TypeOK'
<1>1. UNCHANGED <<scenario, target, pc, result>> /\ doing' = "replace"
      /\ pc <= Len(scenario.steps)
  BY DEF EntryIsRead, Reads, Doing, Running
<1>2. pushing' \in Entries /\ pushing'.type = Step'.type
  BY <1>1, EntryReadIsTyped DEF TypeOK, Step
<1>3. StepOK'
  BY <1>1, <1>2 DEF TypeOK, StepOK
<1>4. RecordOK' /\ StreamOK' /\ TargetOK'
  BY RecordFrame, StreamFrame, TargetFrame DEF EntryIsRead, TypeOK, record, acker, receiver
<1> QED BY <1>3, <1>4 DEF TypeOK

\* The map made anew has the entry read, or none.
LEMMA ReplacingIsTyped ==
    ASSUME RecordOK, Step.type \in Types, NEW E \in SUBSET Entries, ReplacedBy(E),
           \A e \in E : e.type = Step.type, \A e, f \in E : e = f
    PROVE  RecordOK'
<1> DEFINE t == Step.type
<1>1. resources' \subseteq Others(t) \union E /\ mapped' \subseteq mapped \union {t}
      /\ removed' \subseteq removed /\ UNCHANGED counts
  BY DEF ReplacedBy
<1>2. t \in Types /\ (\A e \in E : e.type = t) /\ \A e, f \in E : e.name = f.name => e = f
  OBVIOUS
<1> HIDE DEF t
<1> QED BY <1>1, <1>2, ResetIsTyped

LEMMA ClientIsTyped == ASSUME TypeOK, ClientNext PROVE TypeOK'
<1>1. CASE StepPushes
  <2>1. req' \in Seq(Requests) /\ Len(req') = Len(req) + 1 /\ Len(req) \in Nat
    BY <1>1, QueueIsTyped DEF StepPushes, TypeOK, StreamOK, StepOK
  <2>2. StreamOK'
    BY <1>1, <2>1, BoundAssumption
       DEF StepPushes, TypeOK, StreamOK, record, acker, receiver
  <2>3. pc <= Len(scenario.steps) /\ StepDone
    BY <1>1 DEF StepPushes, TypeOK, StepOK
  <2>4. RecordOK' /\ TargetOK' /\ StepOK'
    BY <1>1, <2>3, RecordFrame, TargetFrame, AdvanceIsTyped DEF StepPushes, TypeOK, record
  <2> QED BY <2>2, <2>4 DEF TypeOK
<1>2. CASE TargetSetup
  <2>1. Step.version \in Versions /\ pc <= Len(scenario.steps)
    BY <1>2, DoingIsTyped DEF TargetSetup, TypeOK
  <2>2. version' \in [Types -> Known] /\ content' \in [Types -> [Names -> Nat]]
    BY <1>2, <2>1 DEF TargetSetup, Known
  <2>3. TargetOK'
    BY <1>2, <2>2 DEF TargetSetup, TypeOK, TargetOK, server
  <2>4. RecordOK' /\ StreamOK' /\ StepOK'
    BY <1>2, <2>1, RecordFrame, StreamFrame, AdvanceIsTyped
       DEF TargetSetup, TypeOK, record, acker, receiver
  <2> QED BY <2>3, <2>4 DEF TypeOK
<1>3. CASE ClientSubscribes
  <2>1. RecordOK' /\ newRequest(Step.type, Step.names) \in Requests
    BY <1>3, SubscribeIsTyped DEF ClientSubscribes
  <2>2. StreamOK'
    BY <1>3, <2>1 DEF ClientSubscribes, TypeOK, StreamOK, receiver
  <2>3. pc <= Len(scenario.steps)
    BY <1>3, DoingIsTyped DEF ClientSubscribes, TypeOK
  <2>4. TargetOK' /\ StepOK'
    BY <1>3, <2>3, TargetFrame, AdvanceIsTyped DEF ClientSubscribes, TypeOK
  <2> QED BY <2>1, <2>2, <2>4 DEF TypeOK
<1>4. CASE ClientSubscribesAgain
  <2>1. RecordOK' /\ newRequest(Step.type, Step.names) \in Requests
    BY <1>4, SubscribeIsTyped DEF ClientSubscribesAgain
  <2>2. StreamOK'
    BY <1>4 DEF ClientSubscribesAgain, TypeOK, StreamOK, acker, receiver
  <2>3. pc <= Len(scenario.steps)
    BY <1>4, DoingIsTyped DEF ClientSubscribesAgain, TypeOK
  <2>4. TargetOK' /\ StepOK'
    BY <1>4, <2>1, <2>3, TargetFrame, PushIsTyped DEF ClientSubscribesAgain, TypeOK
  <2> QED BY <2>1, <2>2, <2>4 DEF TypeOK
<1>5. CASE ClientUpdatesSubscription
  <2>1. Step.type \in Types /\ pc <= Len(scenario.steps)
    BY <1>5, DoingIsTyped DEF ClientUpdatesSubscription, TypeOK, StepOps
  <2>2. pushing \in Entries /\ pushing.type = Step.type
    BY <1>5 DEF ClientUpdatesSubscription, Replacing, TypeOK, StepOK
  <2>3. Request(Step.type, {pushing.name}, {}, pushing.nonce) \in Requests
    BY <2>1, <2>2 DEF Request, Requests, Asked, Entries
  <2>4. RecordOK'
    BY <1>5, <2>1, <2>2, ReplacingIsTyped DEF ClientUpdatesSubscription, TypeOK
  <2>5. StreamOK'
    BY <1>5, <2>3 DEF ClientUpdatesSubscription, ReplacedBy, TypeOK, StreamOK, acker, receiver
  <2>6. TargetOK' /\ StepOK'
    BY <1>5, <2>1, <2>3, TargetFrame, PushIsTyped
       DEF ClientUpdatesSubscription, ReplacedBy, TypeOK
  <2> QED BY <2>4, <2>5, <2>6 DEF TypeOK
<1>6. CASE ClientUnsubscribesFromAll
  <2>1. Step.type \in Types /\ pc <= Len(scenario.steps)
    BY <1>6, DoingIsTyped DEF ClientUnsubscribesFromAll, TypeOK, StepOps
  <2>2. pushing \in Entries
    BY <1>6 DEF ClientUnsubscribesFromAll, Replacing, TypeOK, StepOK
  <2>3. Request(Step.type, {pushing.name}, {}, pushing.nonce) \in Requests
    BY <2>1, <2>2 DEF Request, Requests, Asked, Entries
  <2>4. RecordOK'
    BY <1>6, <2>1, ReplacingIsTyped DEF ClientUnsubscribesFromAll, TypeOK
  <2>5. StreamOK'
    BY <1>6, <2>3 DEF ClientUnsubscribesFromAll, ReplacedBy, TypeOK, StreamOK, acker, receiver
  <2>6. TargetOK' /\ StepOK'
    BY <1>6, <2>1, <2>3, TargetFrame, PushIsTyped
       DEF ClientUnsubscribesFromAll, ReplacedBy, TypeOK
  <2> QED BY <2>4, <2>5, <2>6 DEF TypeOK
<1>7. CASE ClientUnsubscribesFromResource
  <2>1. Step.type \in Types /\ Step.names \subseteq Names /\ pc <= Len(scenario.steps)
    BY <1>7, DoingIsTyped DEF ClientUnsubscribesFromResource, TypeOK, StepOps
  <2>2. Request(Step.type, {}, Step.names, None) \in Requests
    BY <2>1 DEF Request, Requests, Asked, None
  <2>3. RecordOK'
    BY <1>7 DEF ClientUnsubscribesFromResource, TypeOK, RecordOK, counts
  <2>4. StreamOK'
    BY <1>7, <2>2 DEF ClientUnsubscribesFromResource, TypeOK, StreamOK, acker, receiver
  <2>5. TargetOK' /\ StepOK'
    BY <1>7, <2>1, <2>2, TargetFrame, PushIsTyped DEF ClientUnsubscribesFromResource, TypeOK
  <2> QED BY <2>3, <2>4, <2>5 DEF TypeOK
<1>8. CASE EntryIsRead
  BY <1>8, ReadIsTyped
<1> QED BY <1>1, <1>2, <1>3, <1>4, <1>5, <1>6, <1>7, <1>8 DEF ClientNext

LEMMA AdapterIsTyped == ASSUME TypeOK, AdapterNext PROVE TypeOK'
<1>1. PICK op \in {"add", "update", "remove"} : AdapterStep(op)
  BY DEF AdapterNext, ResourceIsAdded, ResourceIsUpdated, ResourceIsRemoved
<1>2. /\ Step.type \in Types /\ Step.names \subseteq Names /\ Step.version \in Versions
      /\ pc <= Len(scenario.steps)
  BY <1>1, DoingIsTyped DEF AdapterStep, TypeOK, StepOps
<1>3. RecordOK' /\ StreamOK' /\ StepOK'
  BY <1>1, <1>2, RecordFrame, StreamFrame, AdvanceIsTyped
     DEF AdapterStep, TypeOK, record, acker, receiver
<1>4. version' \in [Types -> Known]
  <2>1. CASE ResourceIsAdded \/ ResourceIsUpdated
    BY <1>2, <2>1 DEF ResourceIsAdded, ResourceIsUpdated, TypeOK, TargetOK, Known
  <2>2. CASE ResourceIsRemoved
    <3>1. PICK n \in Step.names :
              version' = [version EXCEPT ![Step.type] = At(Step.type, n).version]
      BY <2>2 DEF ResourceIsRemoved
    <3>2. At(Step.type, n).version \in Known
      BY <1>2, <3>1, AtIsTyped DEF TypeOK, Entries
    <3> QED BY <3>1, <3>2 DEF TypeOK, TargetOK
  <2> QED BY <2>1, <2>2 DEF AdapterNext
<1>5. content' \in [Types -> [Names -> Nat]]
  BY DEF AdapterNext, ResourceIsAdded, ResourceIsUpdated, ResourceIsRemoved, Revise,
         TypeOK, TargetOK
<1>6. TargetOK'
  BY <1>1, <1>4, <1>5 DEF AdapterStep, TypeOK, TargetOK, server
<1> QED BY <1>3, <1>6 DEF TypeOK

LEMMA JudgeIsTyped == ASSUME TypeOK, JudgeNext PROVE TypeOK'
<1>1. RecordOK' /\ TargetOK'
  BY RecordFrame, TargetFrame
     DEF JudgeNext, StepJudges, StepSignalsDone, StepComparesCounts, ScenarioPasses, TypeOK,
         record, counts
<1>2. StreamOK'
  BY DEF JudgeNext, StepJudges, StepSignalsDone, StepComparesCounts, ScenarioPasses, TypeOK,
         StreamOK, record, acker, receiver
<1>3. CASE StepJudges
  BY <1>1, <1>2, <1>3, AdvanceIsTyped DEF StepJudges, StepFails, Running, TypeOK, StepOK
<1>4. CASE StepSignalsDone
  BY <1>1, <1>2, <1>4 DEF StepSignalsDone, Doing, Running, TypeOK, StepOK
<1>5. CASE StepComparesCounts
  BY <1>1, <1>2, <1>5, AdvanceIsTyped DEF StepComparesCounts, StepFails, TypeOK, StepOK
<1>6. CASE ScenarioPasses
  BY <1>1, <1>2, <1>6 DEF ScenarioPasses, TypeOK, StepOK
<1> QED BY <1>1, <1>2, <1>3, <1>4, <1>5, <1>6 DEF JudgeNext, TypeOK

-----------------------------------------------------------------------------
(* The theorem.                                                             *)

LEMMA InitIsTyped == Init => TypeOK
<1> SUFFICES ASSUME Init PROVE TypeOK
  OBVIOUS
<1>1. RecordOK /\ TargetOK
  BY DEF Init, RecordOK, TargetOK, Known, Asked, None
<1>2. StreamOK
  BY BoundAssumption, EmptySeq DEF Init, StreamOK
<1>3. scenario.steps \in Seq(Steps)
  BY ScenariosAssumption DEF Init
<1>4. StepOK
  BY <1>3, LenProperties, TargetAssumption DEF Init, StepOK
<1> QED BY <1>1, <1>2, <1>4 DEF TypeOK

\* The state is of its types in every behaviour: what the steps, the goroutines
\* (runner.go) and either target put in flight is for a type there is, the maps of
\* Validate keep one entry a name, and Req and Res never exceed their capacity.
THEOREM ConversationTypeCorrect == Spec => []TypeOK
<1>1. TypeOK /\ [Next]_vars => TypeOK'
  <2> SUFFICES ASSUME TypeOK, [Next]_vars PROVE TypeOK'
    OBVIOUS
  <2>1. CASE StreamNext
    BY <2>1, AckIsTyped, SendsIsTyped, RecvIsTyped DEF StreamNext
  <2>2. CASE UNCHANGED vars
    BY <2>2, RecordFrame, StreamFrame, TargetFrame, StepFrame
       DEF TypeOK, vars, record, counts, acker, receiver, control, server, snapshot
  <2> QED BY <2>1, <2>2, TargetIsTyped, ClientIsTyped, AdapterIsTyped, JudgeIsTyped DEF Next
<1> QED BY <1>1, InitIsTyped, PTL DEF Spec

-----------------------------------------------------------------------------
(* What a passed receiving step is worth.                                   *)

\* The response being recorded has been delivered.
HandIsDelivered ==
    recv = "record" =>
        \A n \in hand.names :
            Entry(hand.type, n, hand.version, hand.nonce) \in delivered

\* The entry a step has read has been delivered too, if it has a version.
ReadIsDelivered ==
    doing = "replace" => pushing.version = None \/ pushing \in delivered

RecordInv == scenario \in Scenarios /\ RecordIsDelivered /\ HandIsDelivered

IInv == RecordInv /\ ReadIsDelivered

-----------------------------------------------------------------------------
\* What Put adds to the map is the entry it is given (runner.go, the
\* assignments to Validate.Resources).
LEMMA PutAddsOne ==
    ASSUME NEW m, NEW e, NEW f \in Put(m, e)
    PROVE  f \in m \/ f = e
  BY DEF Put

\* A name that is not in the map reads as the zero value, which has no version.
LEMMA AtIsRecordedOrBlank ==
    ASSUME NEW t, NEW n
    PROVE  At(t, n) \in resources \/ At(t, n).version = None
<1>1. CASE \E e \in Of(t) : e.name = n
  <2>1. At(t, n) = CHOOSE e \in Of(t) : e.name = n
    BY <1>1 DEF At
  <2>2. (CHOOSE e \in Of(t) : e.name = n) \in Of(t)
    BY <1>1
  <2> QED BY <2>1, <2>2 DEF Of
<1>2. CASE ~ \E e \in Of(t) : e.name = n
  BY <1>2 DEF At, Entry
<1> QED BY <1>1, <1>2

\* An entry delivered once stays delivered, so a record that only loses entries,
\* or gains entries without a version, keeps the invariant.
LEMMA FewerOrBlank ==
    ASSUME RecordIsDelivered, delivered' = delivered,
           \A e \in resources' : e \in resources \/ e.version = None
    PROVE  RecordIsDelivered'
  BY DEF RecordIsDelivered

-----------------------------------------------------------------------------
LEMMA InitEstablishes == Init => IInv
  BY DEF Init, IInv, RecordInv, RecordIsDelivered, HandIsDelivered, ReadIsDelivered

\* Steps that leave the record and the response in hand alone.
LEMMA RecordUntouched ==
    ASSUME IInv, UNCHANGED <<scenario, resources, delivered, recv, hand>>
    PROVE  RecordInv'
  BY DEF IInv, RecordInv, RecordIsDelivered, HandIsDelivered, Entry

\* Steps that leave the response in hand alone.
LEMMA HandUntouched ==
    ASSUME HandIsDelivered, UNCHANGED <<delivered, recv, hand>>
    PROVE  HandIsDelivered'
  BY DEF HandIsDelivered, Entry

LEMMA StreamKeeps == ASSUME IInv, StreamNext PROVE RecordInv'
<1>1. CASE AckSubscribes
  BY <1>1, RecordUntouched DEF AckSubscribes, record, receiver, control
<1>2. CASE AckTakes
  BY <1>2, RecordUntouched DEF AckTakes, record, receiver, control
<1>3. CASE AckReplies
  BY <1>3, RecordUntouched DEF AckReplies, record, receiver, control
<1>4. CASE StreamSends
  BY <1>4, RecordUntouched DEF StreamSends, record, receiver, control
<1>5. CASE RecvReceives
  <2>1. PICK r : /\ hand' = r
                 /\ delivered' = delivered \union
                       {Entry(r.type, n, r.version, r.nonce) : n \in r.names}
    BY <1>5 DEF RecvReceives
  <2>2. RecordIsDelivered'
    BY <1>5, <2>1 DEF RecvReceives, record, IInv, RecordInv, RecordIsDelivered
  <2>3. HandIsDelivered'
    BY <2>1 DEF HandIsDelivered, Entry
  <2> QED BY <1>5, <2>2, <2>3 DEF RecvReceives, control, IInv, RecordInv
<1>6. CASE RecordResource
  <2>1. PICK n \in todo \cap hand.names :
            resources' = Put(resources, Entry(hand.type, n, hand.version, hand.nonce))
    BY <1>6 DEF RecordResource
  <2>2. Entry(hand.type, n, hand.version, hand.nonce) \in delivered
    BY <1>6, <2>1 DEF RecordResource, IInv, RecordInv, HandIsDelivered
  <2>3. \A e \in resources' : e \in resources \/ e \in delivered
    BY <2>1, <2>2, PutAddsOne
  <2>4. RecordIsDelivered'
    BY <1>6, <2>3 DEF RecordResource, IInv, RecordInv, RecordIsDelivered
  <2>5. HandIsDelivered'
    BY <1>6, HandUntouched DEF RecordResource, IInv, RecordInv
  <2> QED BY <1>6, <2>4, <2>5 DEF RecordResource, control, IInv, RecordInv
<1>7. CASE RecordRemoval
  BY <1>7, RecordUntouched DEF RecordRemoval, control
<1>8. CASE RecvCounts
  BY <1>8 DEF RecvCounts, record, control, IInv, RecordInv, RecordIsDelivered, HandIsDelivered
<1>9. CASE RecvDelivers
  BY <1>9 DEF RecvDelivers, record, control, IInv, RecordInv, RecordIsDelivered, HandIsDelivered
<1>10. CASE RecvPanics
  BY <1>10 DEF RecvPanics, record, control, IInv, RecordInv, RecordIsDelivered, HandIsDelivered
<1> QED
  BY <1>1, <1>2, <1>3, <1>4, <1>5, <1>6, <1>7, <1>8, <1>9, <1>10 DEF StreamNext

LEMMA TargetKeeps == ASSUME IInv, TargetNext PROVE RecordInv'
<1>1. CASE TargetReads
  BY <1>1, RecordUntouched DEF TargetReads, record, receiver, control
<1>2. CASE TargetResponds
  BY <1>2, RecordUntouched DEF TargetResponds, record, receiver, control
<1>3. CASE TargetDeclines
  BY <1>3, RecordUntouched DEF TargetDeclines, record, receiver, control
<1>4. CASE TargetImprovises
  BY <1>4, RecordUntouched DEF TargetImprovises, record, receiver, control
<1> QED BY <1>1, <1>2, <1>3, <1>4 DEF TargetNext

LEMMA ClientKeeps == ASSUME IInv, ClientNext PROVE RecordInv'
<1>1. CASE StepPushes
  BY <1>1, RecordUntouched DEF StepPushes, StepDone, record, receiver
<1>2. CASE TargetSetup
  BY <1>2, RecordUntouched DEF TargetSetup, StepDone, record, receiver
<1>3. ASSUME SubscribeResets, UNCHANGED <<scenario, receiver>>
      PROVE  RecordInv'
  <2>1. \A e \in resources' : e \in resources \/ e.version = None
    BY <1>3 DEF SubscribeResets, Others, Entry
  <2>2. RecordIsDelivered'
    BY <1>3, <2>1, FewerOrBlank DEF IInv, RecordInv, receiver
  <2> QED BY <1>3, <2>2, HandUntouched DEF IInv, RecordInv, receiver
<1>4. CASE ClientSubscribes
  BY <1>4, <1>3 DEF ClientSubscribes, StepDone
<1>5. CASE ClientSubscribesAgain
  BY <1>5, <1>3 DEF ClientSubscribesAgain, Push, acker, receiver
<1>6. CASE ClientUpdatesSubscription
  <2>1. resources' = Others(Step.type) \union {pushing}
        /\ (pushing.version = None \/ pushing \in delivered)
    BY <1>6 DEF ClientUpdatesSubscription, ReplacedBy, Replacing, IInv, ReadIsDelivered
  <2>2. \A e \in resources' : e \in resources \/ e.version = None \/ e \in delivered
    BY <2>1 DEF Others
  <2>3. scenario' = scenario /\ UNCHANGED receiver
    BY <1>6 DEF ClientUpdatesSubscription, ReplacedBy, Push
  <2>4. RecordIsDelivered'
    BY <2>2, <2>3 DEF IInv, RecordInv, RecordIsDelivered, receiver
  <2> QED BY <2>3, <2>4, HandUntouched DEF IInv, RecordInv, receiver
<1>7. ASSUME resources' \subseteq resources, UNCHANGED <<scenario, receiver>>
      PROVE  RecordInv'
  <2>1. RecordIsDelivered'
    BY <1>7, FewerOrBlank DEF IInv, RecordInv, receiver
  <2> QED BY <1>7, <2>1, HandUntouched DEF IInv, RecordInv, receiver
<1>8. CASE ClientUnsubscribesFromAll
  BY <1>8, <1>7 DEF ClientUnsubscribesFromAll, ReplacedBy, Push, Others
<1>9. CASE ClientUnsubscribesFromResource
  BY <1>9, <1>7 DEF ClientUnsubscribesFromResource, Push
<1>10. CASE EntryIsRead
  BY <1>10, RecordUntouched DEF EntryIsRead, Reads, record, receiver
<1> QED
  BY <1>1, <1>2, <1>4, <1>5, <1>6, <1>8, <1>9, <1>10 DEF ClientNext

LEMMA AdapterKeeps == ASSUME IInv, AdapterNext PROVE RecordInv'
<1>1. ASSUME NEW op, AdapterStep(op) PROVE RecordInv'
  BY <1>1, RecordUntouched DEF AdapterStep, StepDone, record, receiver
<1> QED BY <1>1 DEF AdapterNext, ResourceIsAdded, ResourceIsUpdated, ResourceIsRemoved

LEMMA JudgeKeeps == ASSUME IInv, JudgeNext PROVE RecordInv'
<1>1. CASE StepJudges
  BY <1>1, RecordUntouched DEF StepJudges, StepDone, StepFails, record, receiver
<1>2. CASE StepSignalsDone
  BY <1>2, RecordUntouched DEF StepSignalsDone, record, receiver
<1>3. CASE StepComparesCounts
  BY <1>3, RecordUntouched DEF StepComparesCounts, StepDone, StepFails, record, receiver
<1>4. CASE ScenarioPasses
  BY <1>4, RecordUntouched DEF ScenarioPasses, record, receiver
<1> QED BY <1>1, <1>2, <1>3, <1>4 DEF JudgeNext

\* Of what is delivered nothing is lost, and what is read is of the record.
LEMMA ReadKeeps == ASSUME IInv, [Next]_vars PROVE ReadIsDelivered'
<1>1. CASE EntryIsRead
  <2>1. delivered' = delivered
    BY <1>1 DEF EntryIsRead, receiver
  <2>2. CASE Doing("updateSubscription") /\ \E n \in Step.names : Reads(At(Step.type, n))
    BY <2>1, <2>2, AtIsRecordedOrBlank
       DEF Reads, IInv, RecordInv, RecordIsDelivered, ReadIsDelivered
  <2>3. CASE Doing("unsubscribeAll") /\ \E lastNonce \in AnyNonce(Step.type) :
                 Reads(Entry(Step.type, Blank, None, lastNonce))
    BY <2>3 DEF Reads, Entry, ReadIsDelivered
  <2> QED BY <1>1, <2>2, <2>3 DEF EntryIsRead
<1>2. CASE ~EntryIsRead
  <2>1. delivered \subseteq delivered'
    BY <1>2 DEF Next, StreamNext, AckSubscribes, AckTakes, AckReplies, StreamSends,
       RecvReceives, RecordResource, RecordRemoval, RecvPanics, RecvCounts, RecvDelivers,
       TargetNext, TargetReads, TargetResponds, TargetDeclines, TargetImprovises, ClientNext,
       StepPushes, TargetSetup, ClientSubscribes, ClientSubscribesAgain, ReplacedBy,
       ClientUpdatesSubscription, ClientUnsubscribesFromAll, ClientUnsubscribesFromResource,
       AdapterNext, ResourceIsAdded, ResourceIsUpdated, ResourceIsRemoved, AdapterStep,
       JudgeNext, StepJudges, StepSignalsDone, StepComparesCounts, ScenarioPasses,
       vars, receiver
  <2>2. doing' = "replace" => doing = "replace" /\ pushing' = pushing
    BY <1>2 DEF Next, StreamNext, AckSubscribes, AckTakes, AckReplies, StreamSends,
       RecvReceives, RecordResource, RecordRemoval, RecvPanics, RecvCounts, RecvDelivers,
       TargetNext, TargetReads, TargetResponds, TargetDeclines, TargetImprovises, ClientNext,
       StepPushes, TargetSetup, ClientSubscribes, ClientSubscribesAgain, Push,
       ClientUpdatesSubscription, ClientUnsubscribesFromAll, ClientUnsubscribesFromResource,
       AdapterNext, ResourceIsAdded, ResourceIsUpdated, ResourceIsRemoved, AdapterStep,
       JudgeNext, StepJudges, StepSignalsDone, StepComparesCounts, ScenarioPasses,
       StepDone, StepFails, vars, control
  <2> QED BY <2>1, <2>2 DEF IInv, ReadIsDelivered
<1> QED BY <1>1, <1>2

LEMMA NextKeeps == IInv /\ [Next]_vars => IInv'
<1> SUFFICES ASSUME IInv, [Next]_vars PROVE RecordInv'
  BY ReadKeeps DEF IInv
<1>1. CASE Next
  BY <1>1, StreamKeeps, TargetKeeps, ClientKeeps, AdapterKeeps, JudgeKeeps DEF Next
<1>2. CASE UNCHANGED vars
  BY <1>2, RecordUntouched DEF vars, record, receiver, control
<1> QED BY <1>1, <1>2

LEMMA Inductive == Spec => []IInv
  BY InitEstablishes, NextKeeps, PTL DEF Spec

\* The runner's record (Validate.Resources) never holds a version the target did
\* not send: not by a subscription's blank entries, nor by an update of it.
THEOREM RecordIsDeliveredHolds == Spec => []RecordIsDelivered
<1>1. IInv => RecordIsDelivered
  BY DEF IInv, RecordInv
<1> QED BY <1>1, Inductive, PTL

-----------------------------------------------------------------------------
(* The step goroutine goes through the scenario's steps one by one.         *)

StepInv == scenario \in Scenarios /\ pc \in Nat \ {0}

\* Only a step that is done moves on, and to the next step.
LEMMA StepsAdvance ==
    ASSUME [Next]_vars
    PROVE  /\ scenario' = scenario
           /\ pc' = pc \/ StepDone
<1>1. CASE StreamNext
  BY <1>1 DEF StreamNext, AckSubscribes, AckTakes, AckReplies, StreamSends, RecvReceives,
              RecordResource, RecordRemoval, RecvPanics, RecvCounts, RecvDelivers,
              control
<1>2. CASE TargetNext
  BY <1>2 DEF TargetNext, TargetReads, TargetResponds, TargetDeclines, TargetImprovises,
              control
<1>3. CASE ClientNext
  BY <1>3 DEF ClientNext, StepPushes, TargetSetup, ClientSubscribes, ClientSubscribesAgain,
              EntryIsRead, Reads, ClientUpdatesSubscription, ClientUnsubscribesFromAll,
              ClientUnsubscribesFromResource, Push, StepDone
<1>4. CASE AdapterNext
  BY <1>4 DEF AdapterNext, ResourceIsAdded, ResourceIsUpdated, ResourceIsRemoved,
              AdapterStep, StepDone
<1>5. CASE JudgeNext
  BY <1>5 DEF JudgeNext, StepJudges, StepSignalsDone, StepComparesCounts, ScenarioPasses,
              StepDone, StepFails
<1>6. CASE UNCHANGED vars
  BY <1>6 DEF vars, control
<1> QED BY <1>1, <1>2, <1>3, <1>4, <1>5, <1>6 DEF Next

LEMMA StepInvHolds == Spec => []StepInv
<1>1. Init => StepInv
  BY DEF Init, StepInv
<1>2. StepInv /\ [Next]_vars => StepInv'
  BY StepsAdvance DEF StepInv, StepDone
<1> QED BY <1>1, <1>2, PTL DEF Spec

\* The target is of one kind throughout.
LEMMA TargetStays == ASSUME [Next]_vars PROVE target' = target
  BY DEF Next, StreamNext, AckSubscribes, AckTakes, AckReplies, StreamSends, RecvReceives,
         RecordResource, RecordRemoval, RecvPanics, RecvCounts, RecvDelivers, TargetNext,
         TargetReads, TargetResponds, TargetDeclines, TargetImprovises, ClientNext, StepPushes,
         TargetSetup, ClientSubscribes, ClientSubscribesAgain, ClientUpdatesSubscription,
         EntryIsRead, Reads, ClientUnsubscribesFromAll, ClientUnsubscribesFromResource, Push,
         AdapterNext,
         ResourceIsAdded, ResourceIsUpdated, ResourceIsRemoved, AdapterStep, JudgeNext,
         StepJudges, StepSignalsDone, StepComparesCounts, ScenarioPasses, StepDone, StepFails,
         vars, control

\* A judging step is only left behind by StepJudges, when what it asks holds.
LEMMA JudgedByStepJudges ==
    ASSUME StepInv, [Next]_vars, Running, Step.op \in {"receives", "single"}, pc' = pc + 1
    PROVE  Holds(Step)
<1>1. pc' # pc
  BY DEF StepInv
<1>2. ~StreamNext
  BY <1>1 DEF StreamNext, AckSubscribes, AckTakes, AckReplies, StreamSends, RecvReceives,
              RecordResource, RecordRemoval, RecvPanics, RecvCounts, RecvDelivers,
              control
<1>3. ~TargetNext
  BY <1>1 DEF TargetNext, TargetReads, TargetResponds, TargetDeclines, TargetImprovises,
              control
<1>4. ~ClientNext
  BY DEF ClientNext, StepPushes, TargetSetup, ClientSubscribes, ClientSubscribesAgain,
         EntryIsRead, ClientUpdatesSubscription, ClientUnsubscribesFromAll,
         ClientUnsubscribesFromResource, Replacing, Doing, Running
<1>5. ~AdapterNext
  BY DEF AdapterNext, ResourceIsAdded, ResourceIsUpdated, ResourceIsRemoved, AdapterStep,
         Doing
<1>6. JudgeNext
  BY <1>1, <1>2, <1>3, <1>4, <1>5 DEF Next, vars, control
<1>7. StepJudges
  BY <1>1, <1>6 DEF JudgeNext, StepSignalsDone, StepComparesCounts, ScenarioPasses, Doing,
                    Running
<1> QED BY <1>1, <1>7 DEF StepJudges, StepFails

\* What ClientReceivesResourcesAndVersionForService finds has been delivered.
LEMMA FoundIsDelivered ==
    ASSUME RecordIsDelivered, NEW s, s.version \in Versions, Receives(s), NEW n \in s.names
    PROVE  \E e \in Of(s.type) :
              /\ e \in delivered
              /\ e.type = s.type /\ e.name = n /\ e.version = s.version
<1>1. PICK e \in Of(s.type) : e.name = n /\ e.version = s.version
  BY DEF Receives
<1>2. e.version # None
  BY <1>1, NoneAssumption
<1> QED BY <1>1, <1>2 DEF RecordIsDelivered, Of

\* The step being judged names resources and a version.
LEMMA StepIsWellFormed ==
    ASSUME StepInv, Running, Step.op \in {"receives", "single"}
    PROVE  Step.names # {} /\ Step.version \in Versions
<1>1. scenario.steps \in Seq(Steps) /\ scenario \in Scenarios
  BY ScenariosAssumption DEF StepInv
<1>2. pc \in 1..Len(scenario.steps)
  BY <1>1 DEF StepInv, Running
<1>3. Step \in Steps
  BY <1>1, <1>2, ElementOfSeq DEF Step
<1>4. Step.version \in Versions
  BY <1>3 DEF Steps
<1> QED BY <1>1, <1>2, <1>4, ScenariosAssumption DEF Step

\* A step that finds its resources received (ClientReceivesResourcesAndVersion-
\* ForService) is right on either target and in every timing.
THEOREM ReceiptIsEarnedHolds == Spec => ReceiptIsEarned
<1>1. ASSUME StepInv, RecordIsDelivered, [Next]_vars,
             Running, Step.op = "receives", pc' = pc + 1, NEW n \in Step.names
      PROVE  \E e \in delivered :
                e.type = Step.type /\ e.name = n /\ e.version = Step.version
  <2>1. Receives(Step)
    BY <1>1, JudgedByStepJudges DEF Holds
  <2>2. Step.version \in Versions
    BY <1>1, StepIsWellFormed
  <2> QED BY <1>1, <2>1, <2>2, FoundIsDelivered
<1>2. StepInv /\ RecordIsDelivered /\ [Next]_vars =>
          [Running /\ Step.op = "receives" /\ pc' = pc + 1
             => \A n \in Step.names : \E e \in delivered :
                   e.type = Step.type /\ e.name = n /\ e.version = Step.version]_vars
  BY <1>1
<1> QED BY <1>2, StepInvHolds, RecordIsDeliveredHolds, PTL DEF Spec, ReceiptIsEarned

\* A step that finds its resources in a single response (ResourcesAndVersionFor-
\* ServiceCameInASingleResponse) is right on every target that does not use a
\* nonce twice.
THEOREM SingleIsEarnedHolds == Spec => SingleIsEarned
<1>1. ASSUME StepInv, RecordIsDelivered, [Next]_vars,
             Running, Step.op = "single", pc' = pc + 1
      PROVE  \E k \in {e.nonce : e \in delivered} : \A n \in Step.names :
                \E e \in delivered : /\ e.type = Step.type /\ e.name = n
                                    /\ e.version = Step.version /\ e.nonce = k
  <2>1. CameInASingleResponse(Step)
    BY <1>1, JudgedByStepJudges DEF Holds
  <2>2. Step.names # {} /\ Step.version \in Versions
    BY <1>1, StepIsWellFormed
  <2>3. PICK k : \A e \in Of(Step.type) : e.name \in Step.names => e.nonce = k
    BY <2>1 DEF CameInASingleResponse
  <2>4. \A n \in Step.names :
            \E e \in delivered : /\ e.type = Step.type /\ e.name = n
                                /\ e.version = Step.version /\ e.nonce = k
    BY <1>1, <2>1, <2>2, <2>3, FoundIsDelivered DEF CameInASingleResponse
  <2>5. k \in {e.nonce : e \in delivered}
    BY <2>2, <2>4
  <2> QED BY <2>4, <2>5
<1>2. StepInv /\ RecordIsDelivered /\ [Next]_vars =>
          [Running /\ Step.op = "single" /\ pc' = pc + 1
             => \E k \in {e.nonce : e \in delivered} : \A n \in Step.names :
                   \E e \in delivered : /\ e.type = Step.type /\ e.name = n
                                       /\ e.version = Step.version /\ e.nonce = k]_vars
  BY <1>1
<1> QED BY <1>2, StepInvHolds, RecordIsDeliveredHolds, PTL DEF Spec, SingleIsEarned

-----------------------------------------------------------------------------
(* A panic needs a response of a type that no step has subscribed to.       *)

\* The type of every subscription made, or being pushed, has its map; and a
\* response that panics has none.
MapInv ==
    /\ pc \in Nat \ {0}
    /\ \A i \in 1..(pc - 1) :
          scenario.steps[i].op = "subscribe" => scenario.steps[i].type \in mapped
    /\ doing = "push" /\ Step.op = "subscribe" => Step.type \in mapped
    /\ doing = "sleep" => Step.op = "neverMore"
    /\ recv = "panicked" => hand.type \notin mapped

\* Steps that neither move on nor make a map, while the harness runs.
LEMMA MapsUntouched ==
    ASSUME MapInv, UNCHANGED <<scenario, pc, doing, mapped>>, recv' # "panicked"
    PROVE  MapInv'
  BY DEF MapInv, Step

\* Steps that move on from a step whose map, if it needs one, is made.
LEMMA MovesOn ==
    ASSUME MapInv, recv' # "panicked", scenario' = scenario, pc' = pc + 1, doing' = "ready",
           mapped \subseteq mapped', Step.op = "subscribe" => Step.type \in mapped'
    PROVE  MapInv'
<1>1. \A i \in 1..(pc' - 1) : i \in 1..(pc - 1) \/ i = pc
  BY DEF MapInv
<1>2. \A i \in 1..(pc' - 1) :
         scenario'.steps[i].op = "subscribe" => scenario'.steps[i].type \in mapped'
  BY <1>1 DEF MapInv, Step
<1> QED BY <1>2 DEF MapInv

\* Steps that go on to push a request, having made the map of its type.
LEMMA GoesOnToPush ==
    ASSUME MapInv, recv' # "panicked", UNCHANGED <<scenario, pc>>, doing' = "push",
           mapped \subseteq mapped', Step.op = "subscribe" => Step.type \in mapped'
    PROVE  MapInv'
  BY DEF MapInv, Step

LEMMA MapsStreamKeeps ==
    ASSUME MapInv, recv # "panicked", StreamNext
    PROVE  MapInv'
<1>1. CASE RecvPanics
  BY <1>1 DEF RecvPanics, record, control, MapInv, Step
<1>2. CASE ~RecvPanics
  <2>1. UNCHANGED <<scenario, pc, doing, mapped>> /\ recv' # "panicked"
    BY <1>2 DEF StreamNext, AckSubscribes, AckTakes, AckReplies, StreamSends, RecvReceives,
                RecordResource, RecordRemoval, RecvCounts, RecvDelivers, record, receiver,
                control
  <2> QED BY <2>1, MapsUntouched
<1> QED BY <1>1, <1>2

LEMMA MapsTargetKeeps ==
    ASSUME MapInv, recv # "panicked", TargetNext
    PROVE  MapInv'
<1>1. UNCHANGED <<scenario, pc, doing, mapped>> /\ recv' # "panicked"
  BY DEF TargetNext, TargetReads, TargetResponds, TargetDeclines, TargetImprovises, record,
         receiver, control
<1> QED BY <1>1, MapsUntouched

LEMMA MapsClientKeeps ==
    ASSUME MapInv, recv # "panicked", ClientNext
    PROVE  MapInv'
<1>1. CASE StepPushes
  BY <1>1, MovesOn DEF StepPushes, StepDone, record, receiver, MapInv
<1>2. CASE TargetSetup
  BY <1>2, MovesOn DEF TargetSetup, Doing, StepDone, record, receiver
<1>3. CASE ClientSubscribes
  BY <1>3, MovesOn DEF ClientSubscribes, SubscribeResets, StepDone, receiver
<1>4. CASE ClientSubscribesAgain
  BY <1>4, GoesOnToPush DEF ClientSubscribesAgain, SubscribeResets, Push, receiver
<1>5. CASE ClientUpdatesSubscription
  BY <1>5, GoesOnToPush DEF ClientUpdatesSubscription, ReplacedBy, Push, receiver
<1>6. CASE ClientUnsubscribesFromAll
  BY <1>6, GoesOnToPush DEF ClientUnsubscribesFromAll, ReplacedBy, Push, receiver
<1>7. CASE ClientUnsubscribesFromResource
  BY <1>7, GoesOnToPush DEF ClientUnsubscribesFromResource, Doing, Push, receiver
<1>8. CASE EntryIsRead
  BY <1>8 DEF EntryIsRead, Reads, record, receiver, MapInv, Step
<1> QED
  BY <1>1, <1>2, <1>3, <1>4, <1>5, <1>6, <1>7, <1>8 DEF ClientNext

LEMMA MapsAdapterKeeps ==
    ASSUME MapInv, recv # "panicked", AdapterNext
    PROVE  MapInv'
<1>1. ASSUME NEW op \in {"add", "update", "remove"}, AdapterStep(op) PROVE MapInv'
  BY <1>1, MovesOn DEF AdapterStep, Doing, StepDone, record, receiver
<1> QED BY <1>1 DEF AdapterNext, ResourceIsAdded, ResourceIsUpdated, ResourceIsRemoved

LEMMA MapsJudgeKeeps ==
    ASSUME MapInv, recv # "panicked", JudgeNext
    PROVE  MapInv'
<1>1. CASE StepJudges
  <2>1. Step.op # "subscribe"
    BY <1>1 DEF StepJudges, JudgingOps, TimedOps
  <2>2. CASE StepDone
    BY <1>1, <2>1, <2>2, MovesOn DEF StepJudges, StepDone, record, receiver
  <2>3. CASE StepFails
    BY <1>1, <2>3, MapsUntouched DEF StepJudges, StepFails, record, receiver
  <2> QED BY <1>1, <2>2, <2>3 DEF StepJudges
<1>2. CASE StepSignalsDone
  BY <1>2 DEF StepSignalsDone, Doing, record, receiver, MapInv, Step
<1>3. CASE StepComparesCounts
  <2>1. Step.op # "subscribe"
    BY <1>3 DEF StepComparesCounts, MapInv
  <2>2. CASE StepDone
    BY <1>3, <2>1, <2>2, MovesOn DEF StepComparesCounts, StepDone, record, receiver
  <2>3. CASE StepFails
    BY <1>3, <2>3, MapsUntouched DEF StepComparesCounts, StepFails, record, receiver
  <2> QED BY <1>3, <2>2, <2>3 DEF StepComparesCounts
<1>4. CASE ScenarioPasses
  BY <1>4, MapsUntouched DEF ScenarioPasses, record, receiver
<1> QED BY <1>1, <1>2, <1>3, <1>4 DEF JudgeNext

\* A target that only answers for what it was asked cannot make the receive loop
\* write into a nil map (runner.go, the assignments to Validate.Resources), in
\* any scenario and timing: no map is made later than its request.
THEOREM PanicIsUnaskedHolds == Spec => []PanicIsUnasked
<1>1. Init => MapInv
  BY DEF Init, MapInv
<1>2. MapInv /\ [Next]_vars => MapInv'
  <2> SUFFICES ASSUME MapInv, [Next]_vars PROVE MapInv'
    OBVIOUS
  <2>1. CASE Next
    BY <2>1, MapsStreamKeeps, MapsTargetKeeps, MapsClientKeeps, MapsAdapterKeeps,
       MapsJudgeKeeps DEF Next
  <2>2. CASE UNCHANGED vars
    BY <2>2 DEF vars, record, receiver, control, MapInv, Step
  <2> QED BY <2>1, <2>2
<1>3. MapInv => PanicIsUnasked
  BY DEF MapInv, PanicIsUnasked
<1> QED BY <1>1, <1>2, <1>3, PTL DEF Spec

-----------------------------------------------------------------------------
(* An ACK is for the type of its response, but for streams of several       *)
(* services in the state of the world.                                      *)

Members(s) == {s[i] : i \in DOMAIN s}

\* What appending to a queue, or taking its head, does to its members.
LEMMA MembersOf ==
    ASSUME NEW S, NEW s \in Seq(S)
    PROVE  /\ \A e \in S : Members(Append(s, e)) = Members(s) \union {e}
           /\ s # <<>> => Members(s) = Members(Tail(s)) \union {Head(s)}
<1>1. ASSUME NEW e \in S PROVE Members(Append(s, e)) = Members(s) \union {e}
  <2>1. /\ DOMAIN Append(s, e) = 1..(Len(s) + 1) /\ DOMAIN s = 1..Len(s) /\ Len(s) \in Nat
        /\ \A i \in 1..Len(s) : Append(s, e)[i] = s[i]
        /\ Append(s, e)[Len(s) + 1] = e
    BY AppendProperties, LenProperties
  <2>2. \A i \in 1..(Len(s) + 1) : i \in 1..Len(s) \/ i = Len(s) + 1
    BY <2>1
  <2>3. 1..Len(s) \subseteq 1..(Len(s) + 1) /\ Len(s) + 1 \in 1..(Len(s) + 1)
    BY <2>1
  <2> QED BY <2>1, <2>2, <2>3 DEF Members
<1>2. ASSUME s # <<>> PROVE Members(s) = Members(Tail(s)) \union {Head(s)}
  <2>1. /\ Len(s) \in Nat \ {0} /\ DOMAIN s = 1..Len(s) /\ Head(s) = s[1]
        /\ DOMAIN Tail(s) = 1..(Len(s) - 1)
        /\ \A i \in 1..(Len(s) - 1) : Tail(s)[i] = s[i + 1]
    BY <1>2, HeadTailProperties, LenProperties, EmptySeq
  <2>2. \A i \in 1..Len(s) : i = 1 \/ (i - 1 \in 1..(Len(s) - 1) /\ i = (i - 1) + 1)
    BY <2>1
  <2>3. 1 \in 1..Len(s) /\ \A i \in 1..(Len(s) - 1) : i + 1 \in 1..Len(s)
    BY <2>1
  <2>4. ASSUME NEW x \in Members(s) PROVE x \in Members(Tail(s)) \union {Head(s)}
    <3>1. PICK i \in 1..Len(s) : x = s[i]
      BY <2>1 DEF Members
    <3>2. CASE i = 1
      BY <3>1, <3>2, <2>1
    <3>3. CASE i # 1
      <4>1. i - 1 \in DOMAIN Tail(s) /\ Tail(s)[i - 1] = x
        BY <3>1, <3>3, <2>1, <2>2
      <4> QED BY <4>1 DEF Members
    <3> QED BY <3>2, <3>3
  <2>5. Head(s) \in Members(s)
    BY <2>1, <2>3 DEF Members
  <2>6. ASSUME NEW x \in Members(Tail(s)) PROVE x \in Members(s)
    <3>1. PICK i \in 1..(Len(s) - 1) : x = Tail(s)[i]
      BY <2>1 DEF Members
    <3> QED BY <3>1, <2>1, <2>3 DEF Members
  <2> QED BY <2>4, <2>5, <2>6
<1> QED BY <1>1, <1>2

\* All that carries the nonce of a response: the responses on their way to Ack,
\* what has been delivered of them, and a delta ACK.
Carriers ==
    Members(downstream) \union Members(res) \union delivered
        \union (IF recv \in {"record", "deliver"} THEN {hand} ELSE {})
        \union (IF Incremental /\ ack = "reply" THEN {reply} ELSE {})

\* A nonce is of one type, and is not used again.
NonceInv ==
    /\ \A x \in Carriers : x.nonce \in 0..nonces
    /\ \A x, y \in Carriers : x.nonce = y.nonce => x.type = y.type

\* Steps that use no new nonce.
LEMMA NoncesCarriedOn ==
    ASSUME NonceInv, nonces' = nonces,
           \A x \in Carriers' : \E y \in Carriers : x.type = y.type /\ x.nonce = y.nonce
    PROVE  NonceInv'
  BY DEF NonceInv

LEMMA NoncesUntouched ==
    ASSUME NonceInv,
           UNCHANGED <<nonces, downstream, res, delivered, recv, hand, scenario, ack, reply>>
    PROVE  NonceInv'
<1>1. Carriers' = Carriers
  BY DEF Carriers, Members, Incremental
<1> QED BY <1>1 DEF NonceInv

\* A response sent has the next nonce.
LEMMA NonceIsNew ==
    ASSUME NonceInv, TypeOK, nonces' = nonces + 1, NEW r \in Responses,
           r.nonce = nonces + 1, downstream' = Append(downstream, r),
           UNCHANGED <<res, delivered, recv, hand, scenario, ack, reply>>
    PROVE  NonceInv'
<1>1. Members(downstream') = Members(downstream) \union {r}
  BY MembersOf DEF TypeOK, StreamOK
<1>2. Carriers' = Carriers \union {r}
  BY <1>1 DEF Carriers, Incremental, Members
<1>3. nonces \in Nat
  BY DEF TypeOK, TargetOK
<1> QED BY <1>2, <1>3 DEF NonceInv

LEMMA NoncesStreamKeeps == ASSUME NonceInv, TypeOK, StreamNext PROVE NonceInv'
<1> USE DEF TypeOK, StreamOK
<1>1. nonces' = nonces /\ scenario' = scenario
  BY DEF StreamNext, AckSubscribes, AckTakes, AckReplies, StreamSends, RecvReceives,
         RecordResource, RecordRemoval, RecvPanics, RecvCounts, RecvDelivers, server, control
<1>2. CASE AckTakes
  <2>1. Members(res) = Members(res') \union {Head(res)} /\ Head(res) \in Responses
    BY <1>2, MembersOf, QueueIsTyped DEF AckTakes
  <2>2. Incremental => reply'.type = Head(res).type /\ reply'.nonce = Head(res).nonce
    BY <1>2 DEF AckTakes, newAckFromResponse, Request
  <2>3. UNCHANGED <<downstream, delivered, recv, hand>>
    BY <1>2 DEF AckTakes, receiver
  <2>4. ASSUME NEW x \in Carriers'
        PROVE  \E y \in Carriers : x.type = y.type /\ x.nonce = y.nonce
    <3>1. x \in Carriers \/ (Incremental /\ x = reply')
      BY <1>1, <1>2, <2>1, <2>3, <2>4 DEF Carriers, Incremental, Members, AckTakes
    <3>2. Head(res) \in Carriers
      BY <2>1 DEF Carriers
    <3> QED BY <2>2, <3>1, <3>2
  <2> QED BY <1>1, <2>4, NoncesCarriedOn
<1>3. CASE RecvReceives
  <2>1. Members(downstream) = Members(downstream') \union {Head(downstream)}
    BY <1>3, MembersOf DEF RecvReceives
  <2>2. PICK r : /\ r = Head(downstream) /\ hand' = r
                 /\ delivered' = delivered \union
                       {Entry(r.type, n, r.version, r.nonce) : n \in r.names}
    BY <1>3 DEF RecvReceives
  <2>3. UNCHANGED <<res, ack, reply>>
    BY <1>3 DEF RecvReceives, acker
  <2>4. ASSUME NEW x \in Carriers'
        PROVE  \E y \in Carriers : x.type = y.type /\ x.nonce = y.nonce
    <3>1. x \in Carriers \/ (x.type = r.type /\ x.nonce = r.nonce)
      BY <1>1, <2>1, <2>2, <2>3, <2>4 DEF Carriers, Incremental, Members, Entry
    <3>2. r \in Carriers
      BY <2>1, <2>2 DEF Carriers
    <3> QED BY <3>1, <3>2
  <2> QED BY <1>1, <2>4, NoncesCarriedOn
<1>4. CASE RecvDelivers
  <2>1. Members(res') = Members(res) \union {hand}
    BY <1>4, MembersOf DEF RecvDelivers
  <2>2. Carriers' \subseteq Carriers
    BY <1>1, <1>4, <2>1 DEF RecvDelivers, Carriers, Incremental, Members
  <2> QED BY <1>1, <2>2, NoncesCarriedOn
<1>5. CASE AckSubscribes \/ AckReplies \/ RecordResource \/ RecordRemoval \/ RecvPanics
           \/ RecvCounts \/ StreamSends
  <2>1. UNCHANGED <<downstream, res, delivered, hand>> /\ (recv' = recv \/ recv = "record")
        /\ (ack' = "reply" => ack = "reply" /\ reply' = reply)
    BY <1>5 DEF AckSubscribes, AckReplies, RecordResource, RecordRemoval, RecvPanics,
                RecvCounts, StreamSends, acker, receiver
  <2>2. Carriers' \subseteq Carriers
    BY <1>1, <2>1 DEF Carriers, Incremental, Members
  <2> QED BY <1>1, <2>2, NoncesCarriedOn
<1> QED BY <1>2, <1>3, <1>4, <1>5 DEF StreamNext

\* What a target sends, for a type of which it has something to say.
LEMMA SendsResponse ==
    ASSUME TypeOK, TargetResponds \/ TargetImprovises
    PROVE  /\ nonces' = nonces + 1
           /\ \E r \in Responses :
                 /\ downstream' = Append(downstream, r) /\ r.nonce = nonces + 1
                 /\ r.type \in due \union {t \in Types : sub[t] # {}}
                      \/ (target = "arbitrary" /\ r.type \in Unasked)
<1>1. CASE TargetResponds
  <2>1. PICK t \in Types : /\ Owed(t) # {} \/ t \in due
                           /\ \E names \in Batches(t) : TargetSends(t, names)
    BY <1>1 DEF TargetResponds
  <2>2. PICK names \in Batches(t) : TargetSends(t, names)
    BY <2>1
  <2>3. names \subseteq Names
    BY <2>2 DEF Batches, Existing, Owed
  <2> DEFINE found == {n \in names : content[t][n] > 0}
             r == Response(t, found, names \ found, version[t], nonces + 1)
  <2>4. found \in SUBSET Names /\ names \ found \in SUBSET Names /\ version[t] \in Known
        /\ nonces + 1 \in Nat
    BY <2>3 DEF TypeOK, TargetOK
  <2>5. nonces' = nonces + 1 /\ downstream' = Append(downstream, r)
    BY <2>2 DEF TargetSends
  <2> HIDE DEF found
  <2>6. r \in Responses /\ r.type = t /\ r.nonce = nonces + 1
    BY <2>1, <2>4, ResponseIsTyped DEF Response
  <2>7. t \in due \union {u \in Types : sub[u] # {}}
    BY <2>1 DEF Owed
  <2> HIDE DEF r
  <2> QED BY <2>5, <2>6, <2>7
<1>2. CASE TargetImprovises
  <2>1. PICK t \in Unasked \union {u \in Types : sub[u] # {}}, names \in SUBSET Names,
             v \in Versions \union {None} :
             \E gone \in (IF Incremental THEN SUBSET (Names \ names) ELSE {{}}) :
                downstream' = Append(downstream, Response(t, names, gone, v, nonces + 1))
    BY <1>2 DEF TargetImprovises
  <2>2. PICK gone \in (IF Incremental THEN SUBSET (Names \ names) ELSE {{}}) :
           downstream' = Append(downstream, Response(t, names, gone, v, nonces + 1))
    BY <2>1
  <2> DEFINE r == Response(t, names, gone, v, nonces + 1)
  <2>3. t \in Types /\ gone \in SUBSET Names /\ v \in Known /\ nonces + 1 \in Nat
    BY <2>1, <2>2, TargetAssumption DEF TypeOK, TargetOK, Known
  <2>4. r \in Responses /\ r.type = t /\ r.nonce = nonces + 1
    BY <2>1, <2>3, ResponseIsTyped DEF Response
  <2>5. nonces' = nonces + 1 /\ downstream' = Append(downstream, r) /\ target = "arbitrary"
    BY <1>2, <2>2 DEF TargetImprovises
  <2> HIDE DEF r
  <2> QED BY <2>1, <2>4, <2>5
<1> QED BY <1>1, <1>2

LEMMA NoncesTargetKeeps == ASSUME NonceInv, TypeOK, TargetNext PROVE NonceInv'
<1> USE DEF record, counts, acker, receiver, control
<1>1. UNCHANGED <<res, delivered, recv, hand, scenario, ack, reply>>
  BY DEF TargetNext, TargetReads, TargetResponds, TargetDeclines, TargetImprovises
<1>2. CASE TargetReads \/ TargetDeclines
  <2>1. nonces' = nonces /\ downstream' = downstream
    BY <1>2 DEF TargetReads, TargetReadsSotw, TargetReadsDelta, TargetDeclines, server
  <2> QED BY <1>1, <2>1, NoncesUntouched
<1>3. CASE TargetResponds \/ TargetImprovises
  BY <1>1, <1>3, SendsResponse, NonceIsNew
<1> QED BY <1>2, <1>3 DEF TargetNext

\* What the step goroutine and the adapter do leaves the responses alone.
LEMMA NoncesStepKeeps ==
    ASSUME NonceInv, ClientNext \/ AdapterNext \/ JudgeNext \/ UNCHANGED vars
    PROVE  NonceInv'
<1> USE DEF Carriers, Incremental, Members, acker, receiver, server, record
<1>1. UNCHANGED <<nonces, downstream, res, delivered, recv, hand, scenario>>
  BY DEF ClientNext, StepPushes, TargetSetup, ClientSubscribes, ClientSubscribesAgain,
         EntryIsRead, Reads, ClientUpdatesSubscription, ClientUnsubscribesFromAll, ReplacedBy,
         ClientUnsubscribesFromResource, AdapterNext, ResourceIsAdded, ResourceIsUpdated,
         ResourceIsRemoved, AdapterStep, JudgeNext, StepJudges, StepSignalsDone,
         StepComparesCounts, ScenarioPasses, StepDone, StepFails, Push, vars, control
<1>2. reply' = reply /\ (ack' = "reply" => ack = "reply")
  BY DEF ClientNext, StepPushes, TargetSetup, ClientSubscribes, ClientSubscribesAgain,
         EntryIsRead, Reads, ClientUpdatesSubscription, ClientUnsubscribesFromAll, ReplacedBy,
         ClientUnsubscribesFromResource, AdapterNext, ResourceIsAdded, ResourceIsUpdated,
         ResourceIsRemoved, AdapterStep, JudgeNext, StepJudges, StepSignalsDone,
         StepComparesCounts, ScenarioPasses, vars
<1>3. Carriers' \subseteq Carriers
  BY <1>1, <1>2
<1> QED BY <1>1, <1>3, NoncesCarriedOn

LEMMA NonceInvHolds == Spec => []NonceInv
<1>1. Init => NonceInv
  BY DEF Init, NonceInv, Carriers, Members
<1>2. NonceInv /\ TypeOK /\ [Next]_vars => NonceInv'
  BY NoncesStreamKeeps, NoncesTargetKeeps, NoncesStepKeeps DEF Next
<1> QED BY <1>1, <1>2, ConversationTypeCorrect, PTL DEF Spec

-----------------------------------------------------------------------------
(* One service on a stream.                                                 *)

\* The one type a scenario asks for.
Service == CHOOSE t \in Types : \A i \in 1..Len(scenario.steps) :
               scenario.steps[i].op \in AskingOps => scenario.steps[i].type = t

\* Requests, subscriptions and responses are of the type the steps ask for.
ServiceInv ==
    /\ \A q \in Members(req) \union Members(upstream) : q.type = Service
    /\ ack # "off" => subscribeRequest.type = Service
    /\ ack = "reply" => reply.type = Service
    /\ doing = "push" => pushing.type = Service
    /\ due \subseteq {Service} /\ \A t \in Types : sub[t] # {} => t = Service
    /\ \A r \in Members(downstream) \union delivered : r.type = Service

\* What the step asks for is of the scenario's one type.
LEMMA AsksForService ==
    ASSUME StepOK, OneService(scenario), NEW op \in AskingOps, Doing(op) \/ Replacing(op)
    PROVE  Step.type = Service
<1>1. scenario.steps \in Seq(Steps)
  BY ScenariosAssumption DEF StepOK
<1>2. pc \in 1..Len(scenario.steps)
  BY <1>1, LenProperties DEF StepOK, Doing, Running, Replacing
<1>3. \A i \in 1..Len(scenario.steps) :
          scenario.steps[i].op \in AskingOps => scenario.steps[i].type = Service
  BY DEF OneService, Service
<1> QED BY <1>2, <1>3 DEF Doing, Replacing, Step

LEMMA ServiceStreamKeeps ==
    ASSUME ServiceInv, TypeOK, ~Incremental, StreamNext
    PROVE  ServiceInv'
<1> USE DEF TypeOK, StreamOK, server, control, record
<1>1. Service' = Service /\ UNCHANGED <<due, sub, doing, pushing, subscribeRequest>>
  BY DEF StreamNext, AckSubscribes, AckTakes, AckReplies, StreamSends, RecvReceives,
         RecordResource, RecordRemoval, RecvPanics, RecvCounts, RecvDelivers, Service
<1>2. \A q \in Members(req') \union Members(upstream') : q.type = Service
  <2>1. CASE AckSubscribes
    <3>1. Members(req') = Members(req) \union {subscribeRequest}
      BY <2>1, MembersOf DEF AckSubscribes
    <3> QED BY <2>1, <3>1 DEF AckSubscribes, ServiceInv
  <2>2. CASE AckReplies
    <3>1. Members(req') = Members(req) \union {reply}
      BY <2>2, MembersOf DEF AckReplies
    <3> QED BY <2>2, <3>1 DEF AckReplies, ServiceInv
  <2>3. CASE StreamSends
    <3>1. Members(req) = Members(req') \union {Head(req)} /\ Head(req) \in Requests
      BY <2>3, MembersOf, QueueIsTyped DEF StreamSends
    <3>2. Members(upstream') = Members(upstream) \union {Head(req)}
      BY <2>3, <3>1, MembersOf DEF StreamSends
    <3> QED BY <3>1, <3>2 DEF ServiceInv
  <2>4. CASE UNCHANGED <<req, upstream>>
    BY <2>4 DEF ServiceInv, Members
  <2> QED
    BY <2>1, <2>2, <2>3, <2>4 DEF StreamNext, AckTakes, RecvReceives, RecordResource,
       RecordRemoval, RecvPanics, RecvCounts, RecvDelivers
<1>3. (ack' # "off" => ack # "off") /\ (ack' = "reply" => reply'.type = Service)
  BY DEF StreamNext, AckSubscribes, AckTakes, AckReplies, StreamSends, RecvReceives,
         RecordResource, RecordRemoval, RecvPanics, RecvCounts, RecvDelivers, acker,
         newAckFromResponse, Request, ServiceInv
<1>4. \A r \in Members(downstream') \union delivered' : r.type = Service
  <2>1. CASE RecvReceives
    <3>1. Members(downstream) = Members(downstream') \union {Head(downstream)}
      BY <2>1, MembersOf DEF RecvReceives
    <3>2. \A e \in delivered' : e \in delivered \/ e.type = Head(downstream).type
      BY <2>1 DEF RecvReceives, Entry
    <3> QED BY <3>1, <3>2 DEF ServiceInv
  <2>2. CASE UNCHANGED <<downstream, delivered>>
    BY <2>2 DEF ServiceInv, Members
  <2> QED
    BY <2>1, <2>2 DEF StreamNext, AckSubscribes, AckTakes, AckReplies, StreamSends,
       RecordResource, RecordRemoval, RecvPanics, RecvCounts, RecvDelivers, receiver
<1> QED BY <1>1, <1>2, <1>3, <1>4 DEF ServiceInv

LEMMA ServiceTargetKeeps ==
    ASSUME ServiceInv, TypeOK, ~Incremental, target = "conformant" \/ Unasked = {}, TargetNext
    PROVE  ServiceInv'
<1> USE DEF TypeOK, StreamOK, server, control, record, acker, receiver
<1>1. /\ Service' = Service
      /\ UNCHANGED <<req, doing, pushing, subscribeRequest, ack, reply, delivered>>
  BY DEF TargetNext, TargetReads, TargetResponds, TargetDeclines, TargetImprovises, Service
<1>2. CASE TargetReads
  <2>1. Members(upstream) = Members(upstream') \union {Head(upstream)}
        /\ Head(upstream) \in Requests
    BY <1>2, MembersOf, QueueIsTyped DEF TargetReads
  <2>2. Head(upstream).type = Service /\ \A q \in Members(upstream') : q.type = Service
    BY <2>1 DEF ServiceInv
  <2>3. due' \subseteq {Service} /\ \A t \in Types : sub'[t] # {} => t = Service
    BY <1>2, <2>2 DEF TargetReads, TargetReadsSotw, ServiceInv, TargetOK
  <2> QED BY <1>1, <1>2, <2>2, <2>3 DEF TargetReads, ServiceInv, Members
<1>3. CASE TargetResponds \/ TargetImprovises
  <2>1. PICK r \in Responses :
            /\ downstream' = Append(downstream, r)
            /\ r.type \in due \union {t \in Types : sub[t] # {}}
    BY <1>3, SendsResponse
  <2>2. Members(downstream') = Members(downstream) \union {r} /\ r.type = Service
    BY <2>1, MembersOf DEF ServiceInv
  <2>3. due' \subseteq due /\ sub' = sub /\ upstream' = upstream
    BY <1>3 DEF TargetResponds, TargetSends, TargetImprovises
  <2> QED BY <1>1, <2>2, <2>3 DEF ServiceInv, Members
<1>4. CASE TargetDeclines
  BY <1>1, <1>4 DEF TargetDeclines, ServiceInv, Members
<1> QED BY <1>2, <1>3, <1>4 DEF TargetNext

\* Steps that leave queues, goroutines and target alone.
LEMMA ServiceUntouched ==
    ASSUME ServiceInv, UNCHANGED <<scenario, req, upstream, downstream, delivered, due, sub,
                                   reply>>,
           ack' # "off" => subscribeRequest'.type = Service,
           ack' = "reply" => ack = "reply",
           doing' = "push" => pushing'.type = Service
    PROVE  ServiceInv'
  BY DEF ServiceInv, Service, Members

LEMMA ServiceStepKeeps ==
    ASSUME ServiceInv, TypeOK, OneService(scenario),
           ClientNext \/ AdapterNext \/ JudgeNext \/ UNCHANGED vars
    PROVE  ServiceInv'
<1> USE DEF record, acker, receiver, server, control
<1>1. ASSUME NEW op \in AskingOps, Doing(op) \/ Replacing(op) PROVE Step.type = Service
  BY <1>1, AsksForService DEF TypeOK
<1>2. UNCHANGED <<scenario, upstream, downstream, delivered, due, sub, reply>>
      /\ (ack' = "reply" => ack = "reply")
  BY DEF ClientNext, StepPushes, TargetSetup, ClientSubscribes, ClientSubscribesAgain,
         EntryIsRead, Reads, ClientUpdatesSubscription, ClientUnsubscribesFromAll, ReplacedBy,
         ClientUnsubscribesFromResource, AdapterNext, ResourceIsAdded, ResourceIsUpdated,
         ResourceIsRemoved, AdapterStep, JudgeNext, StepJudges, StepSignalsDone,
         StepComparesCounts, ScenarioPasses, StepDone, StepFails, Push, vars
<1>3. CASE StepPushes
  <2>1. Members(req') = Members(req) \union {pushing}
    BY <1>3, MembersOf DEF StepPushes, TypeOK, StreamOK, StepOK
  <2> QED BY <1>2, <1>3, <2>1 DEF StepPushes, StepDone, ServiceInv, Service, Members
<1>4. CASE ClientSubscribes
  BY <1>1, <1>2, <1>4, ServiceUntouched
     DEF ClientSubscribes, AskingOps, newRequest, Request, StepDone, ServiceInv
<1>5. CASE ClientSubscribesAgain
  BY <1>1, <1>2, <1>5, ServiceUntouched
     DEF ClientSubscribesAgain, AskingOps, newRequest, Request, Push, ServiceInv
<1>6. CASE ClientUpdatesSubscription
  BY <1>1, <1>2, <1>6, ServiceUntouched
     DEF ClientUpdatesSubscription, ReplacedBy, AskingOps, Request, Push, ServiceInv
<1>7. CASE ClientUnsubscribesFromAll
  BY <1>1, <1>2, <1>7, ServiceUntouched
     DEF ClientUnsubscribesFromAll, ReplacedBy, AskingOps, Request, Push, ServiceInv
<1>8. CASE ClientUnsubscribesFromResource
  BY <1>1, <1>2, <1>8, ServiceUntouched
     DEF ClientUnsubscribesFromResource, AskingOps, Request, Push, ServiceInv
<1>9. CASE TargetSetup \/ AdapterNext \/ JudgeNext \/ UNCHANGED vars
  <2>1. UNCHANGED <<req, subscribeRequest, pushing>> /\ (ack' # "off" => ack # "off")
        /\ (doing' = "push" => doing = "push")
    BY <1>9 DEF TargetSetup, AdapterNext, ResourceIsAdded, ResourceIsUpdated,
         ResourceIsRemoved, AdapterStep, JudgeNext, StepJudges, StepSignalsDone,
         StepComparesCounts, ScenarioPasses, StepDone, StepFails, vars
  <2> QED BY <1>2, <2>1, ServiceUntouched DEF ServiceInv
<1>10. CASE EntryIsRead
  BY <1>2, <1>10, ServiceUntouched DEF EntryIsRead, Reads, ServiceInv
<1> QED BY <1>3, <1>4, <1>5, <1>6, <1>7, <1>8, <1>9, <1>10 DEF ClientNext

\* Every ACK (newAckFromResponse) is for the type of the response whose nonce it
\* carries, in any timing, when the stream is incremental, and when the scenario
\* asks for one service of a target that answers for no other: only a state of the
\* world stream of several services can go wrong.
THEOREM AckMatchesResponseHolds == Spec => []AckMatchesResponse
<1> DEFINE Alone == /\ ~Incremental /\ OneService(scenario)
                    /\ target = "conformant" \/ Unasked = {}
<1>1. Init => (Alone => ServiceInv)
  BY DEF Init, ServiceInv, Members
<1>2. TypeOK /\ (Alone => ServiceInv) /\ [Next]_vars => (Alone => ServiceInv)'
  <2> SUFFICES ASSUME TypeOK, Alone => ServiceInv, [Next]_vars, Alone'
               PROVE  ServiceInv'
    OBVIOUS
  <2>1. scenario' = scenario /\ target' = target
    BY StepsAdvance, TargetStays
  <2>2. ServiceInv /\ Alone
    BY <2>1 DEF Incremental, OneService
  <2> QED BY <2>2, ServiceStreamKeeps, ServiceTargetKeeps, ServiceStepKeeps DEF Next
<1>3. (Alone => ServiceInv) /\ NonceInv => AckMatchesResponse
  <2> SUFFICES ASSUME Alone => ServiceInv, NonceInv, ack = "reply", NEW e \in delivered,
                      e.nonce = reply.nonce, Incremental \/ Alone
               PROVE  e.type = reply.type
    BY DEF AckMatchesResponse, AckIsForItsResponse, Incremental
  <2>1. CASE Incremental
    BY <2>1 DEF NonceInv, Carriers
  <2>2. CASE Alone
    BY <2>2 DEF ServiceInv
  <2> QED BY <2>1, <2>2
<1> QED BY <1>1, <1>2, <1>3, NonceInvHolds, ConversationTypeCorrect, PTL DEF Spec
=============================================================================
