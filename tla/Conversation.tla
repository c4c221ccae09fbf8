---------------------------- MODULE Conversation ----------------------------
(***************************************************************************)
(* What the harness and a target say to each other in one scenario: the    *)
(* resources, versions and nonces that requests and responses carry, the   *)
(* runner's record of them (Runner.Validate), and the steps of the feature *)
(* files that judge the target by that record.                             *)
(*                                                                         *)
(* Sources: internal/runner/steps.go (every step), internal/runner/runner.go *)
(* (newRequest, newAckFromResponse, the recording loops).  The channels and *)
(* goroutines are those of module XdsStream, on a stream that neither ends *)
(* nor fails: here each goroutine does in one step what touches no shared  *)
(* data in between.  The target is external.                               *)
(***************************************************************************)
EXTENDS Integers, Sequences, FiniteSets

CONSTANTS
    Types,        \* the resource types, by service
    Names,        \* resource names
    Versions,     \* version strings
    Scenarios,    \* the scenarios: [incremental, steps]
    ReqCap,       \* capacity of Channels.Req (2 in the code)
    ResCap,       \* capacity of Channels.Res (2 in the code)
    MaxResponses, \* bound: how many responses an arbitrary target sends
    Targets,      \* the targets to run against: subset of AllTargets
    Unasked,      \* types that an arbitrary target answers for without being asked
    Split,        \* scenarios in which a conformant target may spread RDS/EDS, or
                  \* any type if incremental, over several responses
    Racing        \* TRUE: an adapter call may overtake a request sent before it

AllTargets == {"conformant", "arbitrary"}

\* LDS and CDS responses hold every subscribed resource; RDS and EDS need not.
Whole == {"LDS", "CDS"}

None  == 0    \* the empty version and the empty nonce
Gone  == -1   \* a resource the target has said does not exist
Blank == "_"  \* the empty resource name, which names no resource

ASSUME NoneAssumption == None \notin Versions
ASSUME NamesAssumption == Blank \notin Names
ASSUME BoundAssumption == ReqCap \in Nat /\ ResCap \in Nat /\ MaxResponses \in Nat
ASSUME TargetAssumption == Targets \subseteq AllTargets /\ Unasked \subseteq Types

\* what the steps of a scenario are about, after its setup and before its end
StepOps == {"add", "update", "remove",
            "subscribe", "updateSubscription", "unsubscribe", "unsubscribeAll",
            "receives", "receivesOnly", "receivesNothing", "receivesNotice", "receivesNot",
            "single", "noOther", "noOtherNonce"}
Steps == [op : {"setup"}, types : SUBSET Types, names : SUBSET Names, version : Versions]
           \union [op : StepOps, type : Types, names : SUBSET Names, version : Versions]
           \union [op : {"neverMore"}]

\* A step that expects resources names some.
ASSUME ScenariosAssumption ==
    \A s \in Scenarios :
        /\ s.incremental \in BOOLEAN /\ s.steps \in Seq(Steps)
        /\ \A i \in 1..Len(s.steps) :
              s.steps[i].op \in {"receives", "single"} => s.steps[i].names # {}

VARIABLES
    scenario,         \* the scenario that is run, with its variant
    target,           \* the kind of target it is run against
    pc, doing,        \* the step it has come to, and how far that step is
    pushing,          \* what that step holds: the entry it has read of the record,
                      \* then the request it is pushing into Channels.Req
    result,           \* what godog reports of the scenario
    resources,        \* Validate.Resources: [type, name, version, nonce]
    removed,          \* Validate.RemovedResources: [type, name]
    mapped,           \* the types for which these hold a map of names
    subscribeRequest, \* Runner.SubscribeRequest
    requestCount,     \* Validate.RequestCount
    responseCount,    \* Validate.ResponseCount
    req, res,         \* Channels.Req and Channels.Res
    ack, reply,       \* the Ack goroutine, and the request in its hand
    recv, hand, todo, \* the receive loop, its response, the names to record
    upstream,         \* requests on their way to the target
    downstream,       \* responses on their way to the harness
    version, content, \* target: a type's version; a resource's revision, 0 if none
    sub, known,       \* target: names subscribed; what it last said of each name
    nonceOf, nonces,  \* target: last nonce of a type; nonces used so far
    due,              \* target: types whose subscription it may answer as it is
    delivered,        \* history: what the responses received have carried
    wanted            \* history: the subscription the steps have asked for

record  == <<resources, removed, mapped, subscribeRequest>>
counts  == <<requestCount, responseCount>>
acker   == <<res, ack, reply>>
receiver == <<recv, hand, todo, delivered>>
server  == <<sub, known, nonceOf, nonces, due>>
snapshot == <<version, content>>
control == <<scenario, target, pc, doing, pushing, result, wanted>>

vars == <<record, counts, req, acker, receiver, upstream, downstream, server,
          snapshot, control>>

-----------------------------------------------------------------------------
(* Messages.  VersionInfo of a request and the node are left out: the       *)
(* target's answer does not depend on them.                                 *)

Request(t, names, drop, nonce) ==
    [type |-> t, names |-> names, drop |-> drop, nonce |-> nonce]

Response(t, names, gone, v, nonce) ==
    [type |-> t, names |-> names, gone |-> gone, version |-> v, nonce |-> nonce]

NoRequest  == Request("none", {}, {}, None)
NoResponse == Response("none", {}, {}, None, None)

Incremental == scenario.incremental

newRequest(t, names) == Request(t, names, {}, None)

\* Mutant: delta ACKs take the subscription's type as well.
AckOfSubscription(r) ==
    Request(subscribeRequest.type, IF Incremental THEN {} ELSE subscribeRequest.names, {}, r.nonce)
\* a delta ACK is for the response's type; a sotw ACK repeats the type and the
\* names of SubscribeRequest
newAckFromResponse(r) ==
    IF Incremental
    THEN Request(r.type, {}, {}, r.nonce)
    ELSE Request(subscribeRequest.type, subscribeRequest.names, {}, r.nonce)

\* The map Validate.Resources as a relation.
Entry(t, n, v, k) == [type |-> t, name |-> n, version |-> v, nonce |-> k]
Of(t)       == {e \in resources : e.type = t}
Others(t)   == {e \in resources : e.type # t}
\* Mutant: the earlier entry of the name stays.
PutBeside(m, e) == m \union {e}
Put(m, e)   == {f \in m : f.type # e.type \/ f.name # e.name} \union {e}
\* reading a name that is not in the map gives the zero ValidateResource
At(t, n) ==
    IF \E e \in Of(t) : e.name = n THEN CHOOSE e \in Of(t) : e.name = n
                                   ELSE Entry(t, n, None, None)

-----------------------------------------------------------------------------
Init ==
    /\ scenario \in Scenarios /\ target \in Targets
    /\ pc = 1 /\ doing = "ready" /\ pushing = NoRequest /\ result = "none"
    /\ resources = {} /\ removed = {} /\ mapped = {} /\ subscribeRequest = NoRequest
    /\ requestCount = 0 /\ responseCount = 0
    /\ req = <<>> /\ res = <<>>
    /\ ack = "off" /\ reply = NoRequest
    /\ recv = "receive" /\ hand = NoResponse /\ todo = {}
    /\ upstream = <<>> /\ downstream = <<>>
    /\ version = [t \in Types |-> None]
    /\ content = [t \in Types |-> [n \in Names |-> 0]]
    /\ sub = [t \in Types |-> {}] /\ known = [t \in Types |-> [n \in Names |-> 0]]
    /\ nonceOf = [t \in Types |-> None] /\ nonces = 0
    /\ due = {}
    /\ delivered = {} /\ wanted = [t \in Types |-> {}]

-----------------------------------------------------------------------------
(* The target (external).                                                   *)

\* an empty list of names is a wildcard
Wanted(names) == IF names = {} THEN Names ELSE names

Existing(t) == {n \in sub[t] \cap Names : content[t][n] > 0}

\* what a conformant target has still to tell of type t
Owed(t) ==
    {n \in sub[t] \cap Names :
        IF content[t][n] > 0 THEN known[t][n] # content[t][n]
                             ELSE Incremental /\ known[t][n] # Gone}

TargetReadsSotw ==
    LET q == Head(upstream)
        names == Wanted(q.names)
    IN  \* a request with a stale nonce is ignored
        IF q.nonce \notin {None, nonceOf[q.type]}
        THEN UNCHANGED server
        ELSE /\ sub' = [sub EXCEPT ![q.type] = names]
             /\ known' = [known EXCEPT ![q.type] =
                            [n \in Names |-> IF n \in names THEN @[n] ELSE 0]]
             /\ due' = IF names # sub[q.type] THEN due \union {q.type} ELSE due
             /\ UNCHANGED <<nonceOf, nonces>>

TargetReadsDelta ==
    LET q == Head(upstream)
    IN  /\ sub' = [sub EXCEPT ![q.type] = (@ \union q.names) \ q.drop]
        /\ known' = [known EXCEPT ![q.type] =
                       [n \in Names |-> IF n \in q.names \union q.drop THEN 0 ELSE @[n]]]
        /\ UNCHANGED <<nonceOf, nonces, due>>

TargetReads ==
    /\ upstream # <<>>
    /\ upstream' = Tail(upstream)
    /\ IF Incremental THEN TargetReadsDelta ELSE TargetReadsSotw
    /\ UNCHANGED <<record, counts, req, acker, receiver, downstream, snapshot, control>>

\* The sets of names one response of a conformant target may be about.
Batches(t) ==
    IF Owed(t) = {} \/ (t \in Whole /\ ~Incremental) THEN {Existing(t)}
    ELSE {Owed(t)} \union (IF scenario \in Split THEN SUBSET Owed(t) \ {{}} ELSE {})
                   \union (IF Incremental THEN {} ELSE {Existing(t)})

TargetSends(t, names) ==
    LET found == {n \in names : content[t][n] > 0}
    IN  /\ nonces' = nonces + 1
        /\ nonceOf' = [nonceOf EXCEPT ![t] = nonces + 1]
        /\ downstream' = Append(downstream,
               Response(t, found, names \ found, version[t], nonces + 1))
        /\ known' = [known EXCEPT ![t] = [n \in Names |->
               IF n \in found THEN content[t][n]
               ELSE IF n \in names THEN Gone ELSE @[n]]]
        /\ due' = due \ {t}
        /\ UNCHANGED sub

TargetResponds ==
    /\ target = "conformant"
    /\ \E t \in Types :
          /\ Owed(t) # {} \/ t \in due
          /\ \E names \in Batches(t) : TargetSends(t, names)
    /\ UNCHANGED <<record, counts, req, acker, receiver, upstream, snapshot, control>>

\* a changed subscription needs no answer when there is nothing to tell
TargetDeclines ==
    /\ target = "conformant"
    /\ \E t \in due : Owed(t) = {} /\ due' = due \ {t}
    /\ UNCHANGED <<record, counts, req, acker, receiver, upstream, downstream,
                   sub, known, nonceOf, nonces, snapshot, control>>

\* A target that answers what it likes, for types subscribed to and Unasked ones,
\* but for one thing: it does not use a nonce twice.
TargetImprovises ==
    /\ target = "arbitrary"
    /\ nonces < MaxResponses /\ ack # "off"
    /\ \E t \in Unasked \union {u \in Types : sub[u] # {}}, names \in SUBSET Names,
          v \in Versions \union {None} :
       \E gone \in (IF Incremental THEN SUBSET (Names \ names) ELSE {{}}) :
          downstream' = Append(downstream, Response(t, names, gone, v, nonces + 1))
    /\ nonces' = nonces + 1
    /\ UNCHANGED <<record, counts, req, acker, receiver, upstream, sub, known,
                   nonceOf, due, snapshot, control>>

TargetNext == TargetReads \/ TargetResponds \/ TargetDeclines \/ TargetImprovises

-----------------------------------------------------------------------------
(* The goroutines of the stream.                                            *)

AckSubscribes ==
    /\ ack = "first"
    /\ Len(req) < ReqCap
    /\ req' = Append(req, subscribeRequest)
    /\ ack' = "select"
    /\ UNCHANGED <<record, counts, res, reply, receiver, upstream, downstream,
                   server, snapshot, control>>

AckTakes ==
    /\ ack = "select"
    /\ res # <<>>
    /\ res' = Tail(res)
    /\ reply' = newAckFromResponse(Head(res))
    /\ ack' = "reply"
    /\ UNCHANGED <<record, counts, req, receiver, upstream, downstream, server,
                   snapshot, control>>

AckReplies ==
    /\ ack = "reply"
    /\ Len(req) < ReqCap
    /\ req' = Append(req, reply)
    /\ reply' = NoRequest
    /\ ack' = "select"
    /\ UNCHANGED <<record, counts, res, receiver, upstream, downstream, server,
                   snapshot, control>>

\* Stream takes a request from Req, sends it and counts it
StreamSends ==
    /\ req # <<>>
    /\ req' = Tail(req)
    /\ upstream' = Append(upstream, Head(req))
    /\ requestCount' = requestCount + 1
    /\ UNCHANGED <<record, responseCount, acker, receiver, downstream, server,
                   snapshot, control>>

RecvReceives ==
    /\ recv = "receive"
    /\ downstream # <<>>
    /\ LET r == Head(downstream)
       IN  /\ hand' = r
           /\ todo' = r.names \union r.gone
           /\ delivered' = delivered \union
                  {Entry(r.type, n, r.version, r.nonce) : n \in r.names}
    /\ downstream' = Tail(downstream)
    /\ recv' = "record"
    /\ UNCHANGED <<record, counts, req, acker, upstream, server, snapshot, control>>

\* one turn of the loop over the response's resources
RecordResource ==
    /\ recv = "record" /\ hand.type \in mapped
    /\ \E n \in todo \cap hand.names :
          /\ todo' = todo \ {n}
          /\ resources' = Put(resources, Entry(hand.type, n, hand.version, hand.nonce))
          /\ removed' = IF Incremental THEN removed \ {[type |-> hand.type, name |-> n]}
                                       ELSE removed
    /\ UNCHANGED <<mapped, subscribeRequest, counts, req, acker, recv, hand, delivered,
                   upstream, downstream, server, snapshot, control>>

\* one turn of DeltaStream's loop over the removed resources, which comes after
RecordRemoval ==
    /\ recv = "record" /\ hand.type \in mapped /\ todo \cap hand.names = {}
    /\ \E n \in todo \cap hand.gone :
          /\ todo' = todo \ {n}
          /\ removed' = removed \union {[type |-> hand.type, name |-> n]}
    /\ UNCHANGED <<resources, mapped, subscribeRequest, counts, req, acker, recv, hand,
                   delivered, upstream, downstream, server, snapshot, control>>

\* an assignment to the map of a type that has none, which ends the harness
RecvPanics ==
    /\ recv = "record" /\ todo # {} /\ hand.type \notin mapped
    /\ recv' = "panicked"
    /\ UNCHANGED <<record, counts, req, acker, hand, todo, delivered, upstream, downstream,
                   server, snapshot, control>>

RecvCounts ==
    /\ recv = "record" /\ todo = {}
    /\ responseCount' = responseCount + 1
    /\ recv' = "deliver"
    /\ UNCHANGED <<record, requestCount, req, acker, hand, todo, delivered,
                   upstream, downstream, server, snapshot, control>>

RecvDelivers ==
    /\ recv = "deliver"
    /\ Len(res) < ResCap
    /\ res' = Append(res, hand)
    /\ hand' = NoResponse
    /\ recv' = "receive"
    /\ UNCHANGED <<record, counts, req, ack, reply, todo, delivered, upstream,
                   downstream, server, snapshot, control>>

StreamNext ==
    \/ AckSubscribes \/ AckTakes \/ AckReplies \/ StreamSends
    \/ RecvReceives \/ RecordResource \/ RecordRemoval \/ RecvPanics
    \/ RecvCounts \/ RecvDelivers

-----------------------------------------------------------------------------
(* The steps.                                                               *)

\* Nothing is under way between harness and target, and a conformant target
\* has told all it has to tell.
Quiet ==
    /\ req = <<>> /\ upstream = <<>> /\ downstream = <<>>
    /\ ack \in {"off", "stopped"} \/ (ack = "select" /\ res = <<>>)
    /\ recv = "receive" \/ (recv = "deliver" /\ Len(res) = ResCap)
    /\ \A t \in Types : Owed(t) = {}
    /\ due = {}

\* A conformant target answers within the 3 s that a step waits.
TimerFires == target = "conformant" => Quiet

\* An adapter call is an RPC on another connection than the stream's.
AdapterCallArrives == target = "conformant" /\ ~Racing => Quiet

Running == result = "none" /\ doing = "ready" /\ pc <= Len(scenario.steps)
Step    == scenario.steps[pc]
Doing(op) == Running /\ Step.op = op

StepDone == pc' = pc + 1 /\ doing' = "ready" /\ UNCHANGED <<scenario, target, result>>

\* Service.Channels.Req <- request, which may block
Push(q) ==
    /\ doing' = "push" /\ pushing' = q
    /\ UNCHANGED <<scenario, target, pc, result>>

StepPushes ==
    /\ doing = "push"
    /\ Len(req) < ReqCap
    /\ req' = Append(req, pushing)
    /\ pushing' = NoRequest
    /\ StepDone
    /\ UNCHANGED <<record, counts, acker, receiver, upstream, downstream, server,
                   snapshot, wanted>>

\* TargetSetupWithServiceResourcesAndVersion: SetState replaces the snapshot
TargetSetup ==
    /\ Doing("setup")
    /\ version' = [t \in Types |-> IF t \in Step.types THEN Step.version ELSE None]
    /\ content' = [t \in Types |-> [n \in Names |->
                     IF t \in Step.types /\ n \in Step.names THEN 1 ELSE 0]]
    /\ StepDone
    /\ UNCHANGED <<record, counts, req, acker, receiver, upstream, downstream,
                   server, pushing, wanted>>

\* Mutant: the names subscribed to are filled in with the target's version.
SubscribePrefills ==
    /\ resources' = Others(Step.type) \union
                    {Entry(Step.type, n, version[Step.type], None) : n \in Step.names}
    /\ removed' = {r \in removed : r.type # Step.type}
    /\ mapped' = mapped \union {Step.type}
    /\ wanted' = [wanted EXCEPT ![Step.type] =
                    IF Incremental THEN @ \union Step.names ELSE Wanted(Step.names)]

\* Mutant: the maps are made where the names are filled in, if there are any.
SubscribeMapsNames ==
    /\ resources' = Others(Step.type) \union
                    {Entry(Step.type, n, None, None) : n \in Step.names}
    /\ removed' = {r \in removed : r.type # Step.type}
    /\ mapped' = mapped \union {Step.type : n \in Step.names}
    /\ wanted' = [wanted EXCEPT ![Step.type] =
                    IF Incremental THEN @ \union Step.names ELSE Wanted(Step.names)]

\* the maps of the type are made anew, the names subscribed to filled in blank
SubscribeResets ==
    /\ resources' = Others(Step.type) \union
                    {Entry(Step.type, n, None, None) : n \in Step.names}
    /\ removed' = {r \in removed : r.type # Step.type}
    /\ mapped' = mapped \union {Step.type}
    /\ wanted' = [wanted EXCEPT ![Step.type] =
                    IF Incremental THEN @ \union Step.names ELSE Wanted(Step.names)]

\* ClientSubscribesToServiceForResources, and the wildcard with no names: a new
\* stream, whose first request Ack sends
ClientSubscribes ==
    /\ Doing("subscribe") /\ ack = "off"
    /\ SubscribeResets
    /\ subscribeRequest' = newRequest(Step.type, Step.names)
    /\ ack' = "first"
    /\ StepDone
    /\ UNCHANGED <<counts, req, res, reply, receiver, upstream, downstream,
                   server, snapshot, pushing>>

\* the same on the stream there is: SubscribeRequest stays what it was
ClientSubscribesAgain ==
    /\ Doing("subscribe") /\ ack # "off"
    /\ SubscribeResets
    /\ Push(newRequest(Step.type, Step.names))
    /\ UNCHANGED <<subscribeRequest, counts, req, acker, receiver, upstream,
                   downstream, server, snapshot>>

\* the nonce of the entry that Go's map iteration happens to end with
AnyNonce(t) == IF Of(t) = {} THEN {None} ELSE {e.nonce : e \in Of(t)}

\* Two steps read the record and then make it anew: a response recorded in
\* between is lost.
Reads(e) ==
    /\ doing' = "replace" /\ pushing' = e
    /\ UNCHANGED <<scenario, target, pc, result>>

EntryIsRead ==
    /\ \/ Doing("updateSubscription") /\ \E n \in Step.names : Reads(At(Step.type, n))
       \/ /\ Doing("unsubscribeAll")
          /\ \E lastNonce \in AnyNonce(Step.type) :
                Reads(Entry(Step.type, Blank, None, lastNonce))
    /\ UNCHANGED <<record, counts, req, acker, receiver, upstream, downstream,
                   server, snapshot, wanted>>

Replacing(op) == doing = "replace" /\ Step.op = op

\* the map of the type is made anew with these entries
ReplacedBy(E) ==
    /\ resources' = Others(Step.type) \union E
    /\ mapped' = mapped \union {Step.type}
    /\ wanted' = [wanted EXCEPT ![Step.type] = {pushing.name}]
    /\ UNCHANGED <<removed, counts, req, acker, receiver, upstream, downstream,
                   server, snapshot>>

\* Mutant: SubscribeRequest stays what it was.
UpdatesRequestOnly ==
    /\ Replacing("updateSubscription")
    /\ Push(Request(Step.type, {pushing.name}, {}, pushing.nonce))
    /\ ReplacedBy({pushing}) /\ UNCHANGED subscribeRequest

\* ClientUpdatesSubscriptionToAResourceForServiceWithVersion
ClientUpdatesSubscription ==
    /\ Replacing("updateSubscription")
    /\ LET q == Request(Step.type, {pushing.name}, {}, pushing.nonce)
       IN  subscribeRequest' = q /\ Push(q)
    /\ ReplacedBy({pushing})

\* Mutant: the nonce is left empty, and the request repeats no names.
UnsubscribeAsWildcard ==
    /\ Replacing("unsubscribeAll")
    /\ LET q == Request(Step.type, {}, {}, None)
       IN  subscribeRequest' = q /\ Push(q)
    /\ ReplacedBy({})

\* ClientUnsubscribesFromAllResourcesForService
ClientUnsubscribesFromAll ==
    /\ Replacing("unsubscribeAll")
    /\ LET q == Request(Step.type, {pushing.name}, {}, pushing.nonce)
       IN  subscribeRequest' = q /\ Push(q)
    /\ ReplacedBy({})

\* ClientUnsubscribesFromResourceForService, a step of the delta scenarios
ClientUnsubscribesFromResource ==
    /\ Doing("unsubscribe")
    /\ LET q == Request(Step.type, {}, Step.names, None)
       IN  subscribeRequest' = q /\ Push(q)
    /\ resources' = {e \in resources : e.type # Step.type \/ e.name \notin Step.names}
    /\ wanted' = [wanted EXCEPT ![Step.type] = @ \ Step.names]
    /\ UNCHANGED <<removed, mapped, counts, req, acker, receiver, upstream, downstream,
                   server, snapshot>>

ClientNext ==
    \/ StepPushes \/ TargetSetup \/ ClientSubscribes \/ ClientSubscribesAgain
    \/ EntryIsRead \/ ClientUpdatesSubscription \/ ClientUnsubscribesFromAll
    \/ ClientUnsubscribesFromResource

\* The three steps that change the target's state through the adapter.
AdapterStep(op) ==
    /\ Doing(op)
    /\ AdapterCallArrives
    /\ StepDone
    /\ UNCHANGED <<record, counts, req, acker, receiver, upstream, downstream,
                   server, pushing, wanted>>

Revise(t, names) ==
    content' = [content EXCEPT ![t] = [n \in Names |-> IF n \in names THEN @[n] + 1 ELSE @[n]]]

ResourceIsAdded ==
    /\ AdapterStep("add")
    /\ Revise(Step.type, Step.names)
    /\ version' = [version EXCEPT ![Step.type] = Step.version]

ResourceIsUpdated ==
    /\ AdapterStep("update")
    /\ Revise(Step.type, Step.names)
    /\ version' = [version EXCEPT ![Step.type] = Step.version]

\* the version of the call is the one recorded for the resource, if any
ResourceIsRemoved ==
    /\ AdapterStep("remove")
    /\ content' = [content EXCEPT ![Step.type] =
                     [n \in Names |-> IF n \in Step.names THEN 0 ELSE @[n]]]
    /\ \E n \in Step.names :
          version' = [version EXCEPT ![Step.type] = At(Step.type, n).version]

AdapterNext == ResourceIsAdded \/ ResourceIsUpdated \/ ResourceIsRemoved

-----------------------------------------------------------------------------
(* The steps that judge the record; the timed ones do when their timer fires. *)

\* Mutant: the version found is not compared.
ReceivesByName(s) == \A n \in s.names : \E e \in Of(s.type) : e.name = n

Receives(s) == \A n \in s.names : \E e \in Of(s.type) : e.name = n /\ e.version = s.version
ReceivesOnly(s) == \A e \in Of(s.type) : e.name \in s.names /\ e.version = s.version
DoesNotReceiveAny(s) == Of(s.type) = {}
ReceivesNotice(s) == \A n \in s.names : [type |-> s.type, name |-> n] \in removed
DoesNotReceive(s) == \A e \in Of(s.type) : e.name \notin s.names

\* Mutant: two responses are as good as one.
SingleByVersion(s) == Receives(s)

\* the map of nonces of the expected resources has one key
CameInASingleResponse(s) ==
    /\ Receives(s)
    /\ \E k \in {e.nonce : e \in Of(s.type)} :
          \A e \in Of(s.type) : e.name \in s.names => e.nonce = k

NoOtherHasSameNonce(s) ==
    \A n \in s.names, e \in Of(s.type) :
        e.name \notin s.names => e.nonce # At(s.type, n).nonce
NoOtherHasSameVersionOrNonce(s) ==
    /\ NoOtherHasSameNonce(s)
    /\ \A n \in s.names, e \in Of(s.type) :
          e.name \notin s.names => e.version # At(s.type, n).version

TimedOps == {"receives", "receivesOnly", "receivesNothing", "receivesNotice", "receivesNot"}
JudgingOps == TimedOps \union {"single", "noOther", "noOtherNonce"}

Holds(s) ==
    CASE s.op = "receives"        -> Receives(s)
      [] s.op = "receivesOnly"    -> ReceivesOnly(s)
      [] s.op = "receivesNothing" -> DoesNotReceiveAny(s)
      [] s.op = "receivesNotice"  -> ReceivesNotice(s)
      [] s.op = "receivesNot"     -> DoesNotReceive(s)
      [] s.op = "single"          -> CameInASingleResponse(s)
      [] s.op = "noOther"         -> NoOtherHasSameVersionOrNonce(s)
      [] s.op = "noOtherNonce"    -> NoOtherHasSameNonce(s)

StepFails == pc' = pc /\ doing' = doing /\ result' = "failed" /\ UNCHANGED <<scenario, target>>

StepJudges ==
    /\ Running /\ Step.op \in JudgingOps
    /\ Step.op \in TimedOps => TimerFires
    /\ IF Holds(Step) THEN StepDone ELSE StepFails
    /\ UNCHANGED <<record, counts, req, acker, receiver, upstream, downstream,
                   server, snapshot, pushing, wanted>>

\* TheServiceNeverRespondsMoreThanNecessary: Done <- true meets Ack's select
StepSignalsDone ==
    /\ Doing("neverMore") /\ ack = "select"
    /\ ack' = "stopped" /\ doing' = "sleep"
    /\ UNCHANGED <<record, counts, req, res, reply, receiver, upstream, downstream,
                   server, snapshot, scenario, target, pc, pushing, result, wanted>>

StepComparesCounts ==
    /\ doing = "sleep" /\ result = "none"
    /\ TimerFires
    /\ IF requestCount <= responseCount THEN StepFails ELSE StepDone
    /\ UNCHANGED <<record, counts, req, acker, receiver, upstream, downstream,
                   server, snapshot, pushing, wanted>>

ScenarioPasses ==
    /\ result = "none" /\ doing = "ready" /\ pc = Len(scenario.steps) + 1
    /\ result' = "passed"
    /\ UNCHANGED <<record, counts, req, acker, receiver, upstream, downstream,
                   server, snapshot, scenario, target, pc, doing, pushing, wanted>>

JudgeNext == StepJudges \/ StepSignalsDone \/ StepComparesCounts \/ ScenarioPasses

-----------------------------------------------------------------------------
Next ==
    /\ recv # "panicked"
    /\ StreamNext \/ TargetNext \/ ClientNext \/ AdapterNext \/ JudgeNext

Spec == Init /\ [][Next]_vars

-----------------------------------------------------------------------------
(* Properties.                                                              *)

Asked    == SUBSET (Names \union {Blank})
Known    == Versions \union {None}
Entries  == [type : Types, name : Names \union {Blank}, version : Known, nonce : Nat]
Requests == [type : Types, names : Asked, drop : SUBSET Names, nonce : Nat]
Responses == [type : Types, names : SUBSET Names, gone : SUBSET Names, version : Known,
              nonce : Nat]

RecordOK ==
    /\ resources \in SUBSET Entries
    /\ \A e, f \in resources : e.type = f.type /\ e.name = f.name => e = f
    /\ removed \in SUBSET [type : Types, name : Names] /\ mapped \subseteq Types
    /\ requestCount \in Nat /\ responseCount \in Nat

StreamOK ==
    /\ ack \in {"off", "first", "select", "reply", "stopped"}
    /\ recv \in {"receive", "record", "deliver", "panicked"}
    /\ req \in Seq(Requests) /\ Len(req) <= ReqCap
    /\ res \in Seq(Responses) /\ Len(res) <= ResCap
    /\ upstream \in Seq(Requests) /\ downstream \in Seq(Responses)
    /\ ack # "off" => subscribeRequest \in Requests
    /\ ack = "reply" => reply \in Requests
    /\ recv \in {"record", "deliver"} => hand \in Responses
    /\ todo \subseteq Names

TargetOK ==
    /\ version \in [Types -> Known] /\ content \in [Types -> [Names -> Nat]]
    /\ sub \in [Types -> Asked] /\ known \in [Types -> [Names -> Int]]
    /\ nonceOf \in [Types -> Nat] /\ nonces \in Nat /\ due \subseteq Types

StepOK ==
    /\ scenario \in Scenarios /\ target \in AllTargets
    /\ pc \in 1..(Len(scenario.steps) + 1)
    /\ doing \in {"ready", "replace", "push", "sleep"}
    /\ result \in {"none", "failed", "passed"}
    /\ doing = "replace" => pushing \in Entries /\ pushing.type = Step.type
    /\ doing = "push" => pushing \in Requests
    /\ doing # "ready" => pc <= Len(scenario.steps)

\* The types of the state: a request or a response that somebody holds is for a
\* type there is, the record has one entry a name at most, and no channel is ever
\* above its capacity.
TypeOK == RecordOK /\ StreamOK /\ TargetOK /\ StepOK

\* A target that conforms and answers within the steps' waits is not failed by
\* any scenario, in any variant.
ConformantPasses == target = "conformant" => result # "failed"

\* Once all is quiet, a conformant target has the subscription that the steps
\* last asked for: no ACK sent on the way has brought back an older one, and no
\* request was dropped as stale.
SubscriptionSettles ==
    target = "conformant" /\ Quiet /\ doing # "push" /\ ack \in {"select", "stopped"}
        => sub = wanted

\* Whatever is recorded with a version came in a response of the target.
RecordIsDelivered == \A e \in resources : e.version # None => e \in delivered

\* A step that finds its resources received, on either target and in any timing,
\* is right: responses carried each of them at the version asked for.
ReceiptIsEarned ==
    [][Running /\ Step.op = "receives" /\ pc' = pc + 1
          => \A n \in Step.names : \E e \in delivered :
                e.type = Step.type /\ e.name = n /\ e.version = Step.version]_vars

\* A step that finds its resources in a single response is right: one response
\* carried them all at that version.
SingleIsEarned ==
    [][Running /\ Step.op = "single" /\ pc' = pc + 1
          => \E k \in {e.nonce : e \in delivered} : \A n \in Step.names :
             \E e \in delivered : /\ e.type = Step.type /\ e.name = n
                                 /\ e.version = Step.version /\ e.nonce = k]_vars

\* The harness only panics over a response of a type that no step so far has
\* subscribed to: the maps are there before the request can be on its way.
PanicIsUnasked ==
    recv = "panicked" =>
        \A i \in 1..(pc - 1) :
            scenario.steps[i].op = "subscribe" => scenario.steps[i].type # hand.type

\* Every ACK is for the type of the response whose nonce it carries.
AckIsForItsResponse ==
    ack = "reply" => \A e \in delivered : e.nonce = reply.nonce => e.type = reply.type

-----------------------------------------------------------------------------
(* Kinds of scenarios, for which the theorems say what the whole set cannot. *)

AskingOps == {"subscribe", "updateSubscription", "unsubscribe", "unsubscribeAll"}

\* all that the steps ask for is of one type
OneService(s) ==
    \E t \in Types : \A i \in 1..Len(s.steps) :
        s.steps[i].op \in AskingOps => s.steps[i].type = t

\* incremental; nothing is unsubscribed from before a subscription has been
\* made and a timed step has waited for its answer
UnsubscribesLater(s) ==
    /\ s.incremental
    /\ \A i \in 1..Len(s.steps) :
          /\ s.steps[i].op \notin {"updateSubscription", "unsubscribeAll"}
          /\ s.steps[i].op = "unsubscribe" =>
                \E j, k \in 1..(i - 1) :
                   j < k /\ s.steps[j].op = "subscribe" /\ s.steps[k].op \in TimedOps

\* state of the world; the subscription of a type stays what it was made
SubscribesOnce(s) ==
    /\ ~s.incremental
    /\ \A i \in 1..Len(s.steps) : s.steps[i].op \in AskingOps => s.steps[i].op = "subscribe"
    /\ \A i, j \in 1..Len(s.steps) :
          /\ s.steps[i].op = "subscribe" /\ s.steps[j].op = "subscribe"
          /\ s.steps[i].type = s.steps[j].type
          => s.steps[i].names = s.steps[j].names

\* Where newAckFromResponse's two ways of finding a type agree with the response:
\* on incremental streams, whatever the target, and on a stream of one service,
\* unless the target answers for another one (a sotw ACK takes its type from
\* SubscribeRequest, which the steps write).
AckMatchesResponse ==
    \/ scenario.incremental
    \/ OneService(scenario) /\ (target = "conformant" \/ Unasked = {})
    => AckIsForItsResponse
=============================================================================
