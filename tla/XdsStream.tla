----------------------------- MODULE XdsStream -----------------------------
(***************************************************************************)
(* One xDS stream of the test harness: the three goroutines that           *)
(* ClientSubscribesToServiceForResources starts (Ack, Stream and the       *)
(* receive loop inside Stream), the four Go channels they share, the       *)
(* WaitGroup, and the scenario's step goroutine that pushes requests,      *)
(* waits for its timers, signals Done and judges the counters.             *)
(*                                                                         *)
(* Sources: internal/runner/runner.go (Ack, SotwStream, DeltaStream),      *)
(* internal/runner/services.go (the channels), internal/runner/steps.go    *)
(* (the steps, by what they do to the channels).  The gRPC stream and the  *)
(* target are external: they are modelled from how the harness uses them.  *)
(* What requests and responses carry is the matter of module Conversation. *)
(***************************************************************************)
EXTENDS Integers, Sequences, FiniteSets

CONSTANTS
    Incremental,  \* Runner.Incremental: DeltaStream if TRUE, else SotwStream
    ReqCap,       \* capacity of Channels.Req (2 in the code)
    ResCap,       \* capacity of Channels.Res (2 in the code)
    ErrCap,       \* capacity of Channels.Err (2 in the code)
    MaxResponses, \* bound: how many responses the target sends
    MaxSteps,     \* bound: how many push and wait steps a scenario has
    Causes,       \* why the target responds: subset of AllCauses
    Faults,       \* what may go wrong on the stream: subset of AllFaults
    Prompt        \* TRUE: goroutines that can run do so within a 3 s timer

AllCauses == {"request", "update", "ack"}
AllFaults == {"end", "break", "malformed"}

ASSUME IncrementalAssumption == Incremental \in BOOLEAN
ASSUME CapAssumption == /\ ReqCap \in Nat \ {0}
                        /\ ResCap \in Nat \ {0}
                        /\ ErrCap \in Nat \ {0}
ASSUME BoundAssumption == MaxResponses \in Nat /\ MaxSteps \in Nat
ASSUME TargetAssumption == Causes \subseteq AllCauses /\ Faults \subseteq AllFaults
ASSUME PromptAssumption == Prompt \in BOOLEAN

VARIABLES
    req,              \* Channels.Req: requests waiting for Stream
    res,              \* Channels.Res: nonces of responses waiting for Ack
    err,              \* Channels.Err: number of errors waiting for a step
    closed,           \* the channels that have been closed
    ack, reply,       \* the Ack goroutine, and the ACK in its hand
    stream, hand,     \* the Stream goroutine, and the request in its hand
    recv, wg,         \* the receive loop, and Stream's WaitGroup counter
    requestCount,     \* Validate.RequestCount
    responseCount,    \* Validate.ResponseCount; also the last nonce received
    acked,            \* nonce of the last ACK passed to stream.Send
    subsSent,         \* subscription requests passed to stream.Send
    link,             \* the gRPC stream; "halfClosed" once CloseSend was called
    inFlight,         \* responses sent by the target and not yet received
    answered,         \* subscription requests the target has responded to
    ackAnswered,      \* ACKs the target has responded to
    step, left,       \* the step goroutine, and how many steps it may still take
    subs,             \* subscription requests issued by the steps
    result            \* what the scenario reports

chans    == <<req, res, err, closed>>
counters == <<requestCount, responseCount, acked, subsSent>>
network  == <<link, inFlight, answered, ackAnswered>>
scenario == <<step, left, subs, result>>

vars == <<chans, ack, reply, stream, hand, recv, wg, counters, network,
          scenario>>

-----------------------------------------------------------------------------
(* Requests.  A nil *any.Any is what newAckFromResponse returns when it is  *)
(* handed the nil that a closed Res yields; Ack ignores its error.          *)

Sub    == [kind |-> "sub", n |-> 0]
Nil    == [kind |-> "nil", n |-> 0]
Ack(n) == [kind |-> "ack", n |-> n]

Requests == {Sub, Nil} \union [kind : {"ack"}, n : Nat \ {0}]

\* Mutant: the response is unmarshalled as a message of the other protocol.
NilForEveryResponse(n) == Nil

(* newAckFromResponse: n is the response's nonce, 0 the nil of a closed Res *)
newAckFromResponse(n) == IF n = 0 THEN Nil ELSE Ack(n)

-----------------------------------------------------------------------------
Init ==
    /\ req = <<>> /\ res = <<>> /\ err = 0 /\ closed = {}
    /\ ack = "off" /\ reply = Nil
    /\ stream = "off" /\ hand = Nil
    /\ recv = "off" /\ wg = 0
    /\ requestCount = 0 /\ responseCount = 0
    /\ acked = 0 /\ subsSent = 0
    /\ link = "none"
    /\ inFlight = 0 /\ answered = 0 /\ ackAnswered = 0
    /\ step = "begin" /\ left = MaxSteps
    /\ subs = 0 /\ result = "none"

-----------------------------------------------------------------------------
(* The Ack goroutine (runner.go, Ack).                                      *)

\* Req <- r.SubscribeRequest, before the loop
AckSubscribes ==
    /\ ack = "first"
    /\ Len(req) < ReqCap
    /\ req' = Append(req, Sub)
    /\ ack' = "select"
    /\ UNCHANGED <<res, err, closed, reply, stream, hand, recv, wg, counters,
                   network, scenario>>

\* case res := <-Res: a response, or nil for ever once Res is closed
AckTakes ==
    /\ ack = "select"
    /\ \/ res # <<>> /\ res' = Tail(res) /\ reply' = newAckFromResponse(Head(res))
       \/ res = <<>> /\ "Res" \in closed /\ res' = res /\ reply' = newAckFromResponse(0)
    /\ ack' = "reply"
    /\ UNCHANGED <<req, err, closed, stream, hand, recv, wg, counters, network,
                   scenario>>

\* Mutant: a Req without a bound.
AckRepliesUnbounded ==
    /\ ack = "reply"
    /\ req' = Append(req, reply) /\ reply' = Nil /\ ack' = "select"
    /\ UNCHANGED <<res, err, closed, stream, hand, recv, wg, counters, network,
                   scenario>>

\* Mutant: a select with a default drops the ACK while Req is full.
AckRepliesOrDrops ==
    /\ ack = "reply"
    /\ req' = IF Len(req) < ReqCap THEN Append(req, reply) ELSE req
    /\ reply' = Nil /\ ack' = "select"
    /\ UNCHANGED <<res, err, closed, stream, hand, recv, wg, counters, network,
                   scenario>>

\* Req <- ack blocks while Req is full
AckReplies ==
    /\ ack = "reply"
    /\ Len(req) < ReqCap
    /\ req' = Append(req, reply)
    /\ reply' = Nil
    /\ ack' = "select"
    /\ UNCHANGED <<res, err, closed, stream, hand, recv, wg, counters, network,
                   scenario>>

\* Mutant: a break where the return is leaves the select, not the loop.
AckClosesAndLoops ==
    /\ ack = "closing"
    /\ closed' = closed \union {"Req"} /\ ack' = "select"
    /\ UNCHANGED <<req, res, err, reply, stream, hand, recv, wg, counters,
                   network, scenario>>

\* close(Req); return, once <-Done has been received (see SignalDone)
AckCloses ==
    /\ ack = "closing"
    /\ closed' = closed \union {"Req"}
    /\ ack' = "stopped"
    /\ UNCHANGED <<req, res, err, reply, stream, hand, recv, wg, counters,
                   network, scenario>>

AckNext == AckSubscribes \/ AckTakes \/ AckReplies \/ AckCloses

-----------------------------------------------------------------------------
(* The Stream goroutine (runner.go, SotwStream and DeltaStream): the body of *)
(* the function, which spawns the receive loop and then ranges over Req.     *)

StreamStarts ==
    /\ stream = "start"
    /\ recv' = "top"
    /\ stream' = "range"
    /\ UNCHANGED <<chans, ack, reply, hand, wg, counters, network, scenario>>

\* for req := range Req, with UnmarshalTo failing on a nil request
StreamTakes ==
    /\ stream = "range"
    /\ req # <<>>
    /\ req' = Tail(req)
    /\ hand' = Head(req)
    /\ stream' = IF Head(req) = Nil THEN "badRequest" ELSE "send"
    /\ UNCHANGED <<res, err, closed, ack, reply, recv, wg, counters, network,
                   scenario>>

\* Mutant: SotwStream returns without reporting the bad request.
StreamIgnoresBadRequest ==
    /\ stream = "badRequest"
    /\ stream' = IF Incremental THEN "send" ELSE "return"
    /\ UNCHANGED <<chans, ack, reply, hand, recv, wg, counters, network, scenario>>

\* Err <- "error unmarshalling": SotwStream then returns through its deferred
\* calls, DeltaStream goes on and sends the empty request it declared
StreamReportsBadRequest ==
    /\ stream = "badRequest"
    /\ err < ErrCap
    /\ err' = err + 1
    /\ stream' = IF Incremental THEN "send" ELSE "return"
    /\ UNCHANGED <<req, res, closed, ack, reply, hand, recv, wg, counters,
                   network, scenario>>

\* the loop's tail, RequestCount++, reached after a failed Send too
RequestCounted ==
    /\ requestCount' = requestCount + 1
    /\ acked'    = IF hand.kind = "ack" THEN hand.n ELSE acked
    /\ subsSent' = IF hand.kind = "sub" THEN subsSent + 1 ELSE subsSent
    /\ hand' = Nil
    /\ stream' = "range"
    /\ UNCHANGED responseCount

StreamSends ==
    /\ stream = "send"
    /\ link = "open"
    /\ RequestCounted
    /\ UNCHANGED <<chans, ack, reply, recv, wg, network, scenario>>

StreamFailsToSend ==
    /\ stream = "send"
    /\ link # "open"
    /\ stream' = "sendError"
    /\ UNCHANGED <<chans, ack, reply, hand, recv, wg, counters, network,
                   scenario>>

\* Mutant: Stream returns after a failed Send, as it does after a bad request.
StreamReturnsOnSendError ==
    /\ stream = "sendError"
    /\ err < ErrCap /\ err' = err + 1
    /\ stream' = "return"
    /\ UNCHANGED <<req, res, closed, ack, reply, hand, recv, wg, counters,
                   network, scenario>>

\* Err <- "error sending": the loop goes on, and the request is counted
StreamReportsSendError ==
    /\ stream = "sendError"
    /\ err < ErrCap
    /\ err' = err + 1
    /\ RequestCounted
    /\ UNCHANGED <<req, res, closed, ack, reply, recv, wg, network, scenario>>

\* Req is closed and drained: CloseSend, which never fails in grpc-go
StreamClosesSend ==
    /\ stream = "range"
    /\ req = <<>> /\ "Req" \in closed
    /\ link' = IF link = "open" THEN "halfClosed" ELSE link
    /\ stream' = "wait"
    /\ UNCHANGED <<chans, ack, reply, hand, recv, wg, counters, inFlight,
                   answered, ackAnswered, scenario>>

\* wg.Wait(): no call of wg.Done exists, so it returns only if Recv has not
\* yet called wg.Add
StreamWaits ==
    /\ stream = "wait"
    /\ wg = 0
    /\ stream' = "return"
    /\ UNCHANGED <<chans, ack, reply, hand, recv, wg, counters, network,
                   scenario>>

\* the deferred calls, last one first: close(Err), then Context.cancel()
StreamClosesErr ==
    /\ stream = "return"
    /\ closed' = closed \union {"Err"}
    /\ stream' = "cancel"
    /\ UNCHANGED <<req, res, err, ack, reply, hand, recv, wg, counters, network,
                   scenario>>

StreamCancels ==
    /\ stream = "cancel"
    /\ link' = "broken"
    /\ stream' = "exited"
    /\ UNCHANGED <<chans, ack, reply, hand, recv, wg, counters, inFlight,
                   answered, ackAnswered, scenario>>

StreamNext ==
    \/ StreamStarts \/ StreamTakes \/ StreamReportsBadRequest
    \/ StreamSends \/ StreamFailsToSend \/ StreamReportsSendError
    \/ StreamClosesSend \/ StreamWaits \/ StreamClosesErr \/ StreamCancels

-----------------------------------------------------------------------------
(* The receive loop (the function literal inside SotwStream/DeltaStream).   *)

\* wg.Add(1), on every turn of the loop
RecvEnters ==
    /\ recv = "top"
    /\ wg' = wg + 1
    /\ recv' = "receive"
    /\ UNCHANGED <<chans, ack, reply, stream, hand, counters, network,
                   scenario>>

\* Stream.Recv() returns a response, which is recorded and counted
RecvMessage ==
    /\ recv = "receive"
    /\ link # "broken" /\ inFlight > 0
    /\ inFlight' = inFlight - 1
    /\ responseCount' = responseCount + 1
    /\ recv' = "deliver"
    /\ UNCHANGED <<chans, ack, reply, stream, hand, wg, requestCount, acked,
                   subsSent, link, answered, ackAnswered, scenario>>

\* parser.ResourceNames fails on a response: only SotwStream calls it
RecvMalformed ==
    /\ "malformed" \in Faults /\ ~Incremental
    /\ recv = "receive"
    /\ link # "broken" /\ inFlight > 0
    /\ inFlight' = inFlight - 1
    /\ recv' = "error"
    /\ UNCHANGED <<chans, ack, reply, stream, hand, wg, counters, link,
                   answered, ackAnswered, scenario>>

\* Mutant: a select with a default drops the response while Res is full.
RecvDeliversOrDrops ==
    /\ recv = "deliver"
    /\ res' = IF Len(res) < ResCap THEN Append(res, responseCount) ELSE res
    /\ recv' = "top"
    /\ UNCHANGED <<req, err, closed, ack, reply, stream, hand, wg, counters,
                   network, scenario>>

\* Res <- res blocks while Res is full
RecvDelivers ==
    /\ recv = "deliver"
    /\ Len(res) < ResCap
    /\ res' = Append(res, responseCount)
    /\ recv' = "top"
    /\ UNCHANGED <<req, err, closed, ack, reply, stream, hand, wg, counters,
                   network, scenario>>

\* io.EOF: close(Res); return
RecvEOF ==
    /\ recv = "receive"
    /\ link = "ended" /\ inFlight = 0
    /\ closed' = closed \union {"Res"}
    /\ recv' = "exited"
    /\ UNCHANGED <<req, res, err, ack, reply, stream, hand, wg, counters,
                   network, scenario>>

\* any other error: the context's deadline, its cancel, or the transport
RecvFails ==
    /\ recv = "receive"
    /\ link = "broken"
    /\ recv' = "error"
    /\ UNCHANGED <<chans, ack, reply, stream, hand, wg, counters, network,
                   scenario>>

\* Err <- err; return
RecvReportsError ==
    /\ recv = "error"
    /\ "Err" \notin closed /\ err < ErrCap
    /\ err' = err + 1
    /\ recv' = "exited"
    /\ UNCHANGED <<req, res, closed, ack, reply, stream, hand, wg, counters,
                   network, scenario>>

\* A send on a closed channel panics, and a panic in a goroutine nobody recovers
\* ends the process with all of its goroutines
RecvPanics ==
    /\ recv = "error"
    /\ "Err" \in closed
    /\ recv' = "panicked" /\ ack' = "stopped" /\ stream' = "exited" /\ step' = "dead"
    /\ link' = "broken"
    /\ UNCHANGED <<chans, reply, hand, wg, counters, inFlight, answered, ackAnswered,
                   left, subs, result>>

RecvNext ==
    \/ RecvEnters \/ RecvMessage \/ RecvMalformed \/ RecvDelivers
    \/ RecvEOF \/ RecvFails \/ RecvReportsError \/ RecvPanics

-----------------------------------------------------------------------------
(* The gRPC stream and the target (external).                               *)

Live == {"open", "halfClosed"}

\* a response to a subscription, to an update of the target's state that the
\* adapter made, or (non-conformant) to an ACK
TargetResponds ==
    /\ link \in Live /\ subsSent > 0
    /\ responseCount + inFlight < MaxResponses
    /\ inFlight' = inFlight + 1
    /\ \/ /\ "request" \in Causes /\ answered < subsSent
          /\ answered' = answered + 1
          /\ UNCHANGED ackAnswered
       \/ /\ "update" \in Causes
          /\ UNCHANGED <<answered, ackAnswered>>
       \/ /\ "ack" \in Causes /\ ackAnswered < acked
          /\ ackAnswered' = ackAnswered + 1
          /\ UNCHANGED answered
    /\ UNCHANGED <<chans, ack, reply, stream, hand, recv, wg, counters, link,
                   scenario>>

\* the target ends the stream with status OK: after the half-close, or early
TargetEnds ==
    /\ \/ link = "halfClosed"
       \/ link = "open" /\ "end" \in Faults
    /\ link' = "ended"
    /\ UNCHANGED <<chans, ack, reply, stream, hand, recv, wg, counters,
                   inFlight, answered, ackAnswered, scenario>>

\* the transport fails, or the 90 s deadline of the stream's context passes
LinkBreaks ==
    /\ "break" \in Faults
    /\ link \in Live \union {"ended"}
    /\ link' = "broken"
    /\ UNCHANGED <<chans, ack, reply, stream, hand, recv, wg, counters,
                   inFlight, answered, ackAnswered, scenario>>

TargetNext == TargetResponds \/ TargetEnds \/ LinkBreaks

-----------------------------------------------------------------------------
(* The step goroutine: godog runs a scenario's steps one after the other and *)
(* skips the rest once one fails.                                           *)

\* "asked": a request was issued since the last receiving step; "checked": the
\* last receiving step passed since.  The feature files put a receiving step
\* between any request and the end of the scenario.

\* The goroutines have nothing to do but wait for each other, for a step or
\* for the target.
AckSettled ==
    \/ ack \in {"off", "stopped"}
    \/ ack = "select" /\ res = <<>> /\ "Res" \notin closed
    \/ ack \in {"first", "reply"} /\ Len(req) = ReqCap
StreamSettled ==
    \/ stream \in {"off", "exited"}
    \/ stream = "range" /\ req = <<>> /\ "Req" \notin closed
    \/ stream \in {"badRequest", "sendError"} /\ err = ErrCap
    \/ stream = "wait" /\ wg > 0
RecvSettled ==
    \/ recv \in {"off", "exited"}
    \/ recv = "receive" /\ link \in Live /\ inFlight = 0
    \/ recv = "deliver" /\ Len(res) = ResCap
    \/ recv = "error" /\ err = ErrCap /\ "Err" \notin closed
Settled == AckSettled /\ StreamSettled /\ RecvSettled

\* A timer of seconds fires; the goroutines need microseconds.
TimerFires == Prompt => Settled

\* the first subscription of a scenario: open the stream, go Stream, go Ack
StepSubscribes ==
    /\ step = "begin"
    /\ link' = "open"
    /\ stream' = "start" /\ ack' = "first"
    /\ subs' = 1
    /\ step' = "asked"
    /\ UNCHANGED <<chans, reply, hand, recv, wg, counters, inFlight, answered,
                   ackAnswered, left, result>>

\* set{Sotw,Delta}Stream returns an error: the context is cancelled, nothing started
StepFailsToSubscribe ==
    /\ step = "begin"
    /\ step' = "over" /\ result' = "failed"
    /\ UNCHANGED <<chans, ack, reply, stream, hand, recv, wg, counters, network,
                   left, subs>>

\* a step that subscribes again, updates or drops subscriptions
StepDecidesToPush ==
    /\ step \in {"asked", "checked"} /\ left > 1
    /\ step' = "push" /\ left' = left - 1
    /\ subs' = subs + 1
    /\ UNCHANGED <<chans, ack, reply, stream, hand, recv, wg, counters, network,
                   result>>

\* Service.Channels.Req <- request
StepPushes ==
    /\ step = "push"
    /\ Len(req) < ReqCap
    /\ req' = Append(req, Sub)
    /\ step' = "asked"
    /\ UNCHANGED <<res, err, closed, ack, reply, stream, hand, recv, wg,
                   counters, network, left, subs, result>>

\* done := time.After(...) of a receiving step
StepStartsTimer ==
    /\ step \in {"asked", "checked"} /\ left > 0
    /\ step' = "wait" /\ left' = left - 1
    /\ UNCHANGED <<chans, ack, reply, stream, hand, recv, wg, counters, network,
                   subs, result>>

\* Mutant: the step starts its timer again until the resources are found.
StepTimerRestarts ==
    /\ step = "wait"
    /\ TimerFires
    /\ step' = "asked" /\ left' = left + 1
    /\ UNCHANGED <<chans, ack, reply, stream, hand, recv, wg, counters, network,
                   subs, result>>

\* case <-done: the recorded resources are as expected, or the step fails
StepTimerFires ==
    /\ step = "wait"
    /\ TimerFires
    /\ \/ step' = "checked" /\ result' = result
       \/ step' = "over" /\ result' = "failed"
    /\ UNCHANGED <<chans, ack, reply, stream, hand, recv, wg, counters, network,
                   left, subs>>

\* case err := <-Err: an error, or nil once Err is closed and drained
StepReadsErr ==
    /\ step = "wait"
    /\ err > 0 \/ "Err" \in closed
    /\ err' = IF err > 0 THEN err - 1 ELSE 0
    /\ step' = "over" /\ result' = "failed"
    /\ UNCHANGED <<req, res, closed, ack, reply, stream, hand, recv, wg,
                   counters, network, left, subs>>

\* a scenario that ends without the final check (unsubscribing.feature)
StepEndsScenario ==
    /\ step = "checked"
    /\ step' = "over" /\ result' = "passed"
    /\ UNCHANGED <<chans, ack, reply, stream, hand, recv, wg, counters, network,
                   left, subs>>

\* TheServiceNeverRespondsMoreThanNecessary, always a scenario's last step
StepReachesFinalCheck ==
    /\ step = "checked"
    /\ step' = "signal"
    /\ UNCHANGED <<chans, ack, reply, stream, hand, recv, wg, counters, network,
                   left, subs, result>>

\* Done <- true meets Ack's <-Done (Done has no buffer and no timeout)
SignalDone ==
    /\ step = "signal" /\ ack = "select"
    /\ step' = "sleep" /\ ack' = "closing"
    /\ UNCHANGED <<chans, reply, stream, hand, recv, wg, counters, network,
                   left, subs, result>>

\* Mutant: < for <=.
StepJudgesLess ==
    /\ step = "sleep"
    /\ TimerFires
    /\ step' = "over"
    /\ result' = IF requestCount < responseCount THEN "tooMany" ELSE "passed"
    /\ UNCHANGED <<chans, ack, reply, stream, hand, recv, wg, counters, network,
                   left, subs>>

\* after time.Sleep: fail if RequestCount <= ResponseCount
StepJudges ==
    /\ step = "sleep"
    /\ TimerFires
    /\ step' = "over"
    /\ result' = IF requestCount <= responseCount THEN "tooMany" ELSE "passed"
    /\ UNCHANGED <<chans, ack, reply, stream, hand, recv, wg, counters, network,
                   left, subs>>

StepNext ==
    \/ StepSubscribes \/ StepFailsToSubscribe \/ StepDecidesToPush \/ StepPushes
    \/ StepStartsTimer \/ StepTimerFires \/ StepReadsErr \/ StepEndsScenario
    \/ StepReachesFinalCheck \/ SignalDone \/ StepJudges

-----------------------------------------------------------------------------
Next == AckNext \/ StreamNext \/ RecvNext \/ TargetNext \/ StepNext

Spec == Init /\ [][Next]_vars

\* The Go scheduler runs every goroutine that can run, and timers fire.  The
\* target owes nothing.
Fairness ==
    /\ WF_vars(AckNext)
    /\ WF_vars(StreamNext)
    /\ WF_vars(RecvNext)
    /\ WF_vars(StepNext)

FairSpec == Spec /\ Fairness

-----------------------------------------------------------------------------
(* Properties.                                                              *)

AckStates    == {"off", "first", "select", "reply", "closing", "stopped"}
StreamStates == {"off", "start", "range", "badRequest", "send", "sendError",
                 "wait", "return", "cancel", "exited"}
RecvStates   == {"off", "top", "receive", "deliver", "error", "exited",
                 "panicked"}
StepStates   == {"begin", "asked", "push", "wait", "checked", "signal", "sleep", "over",
                 "dead"}
Links        == {"none", "open", "halfClosed", "ended", "broken"}
Results      == {"none", "failed", "tooMany", "passed"}

\* The types of the state, and no channel ever above its capacity.
TypeOK ==
    /\ req \in Seq(Requests) /\ Len(req) <= ReqCap
    /\ res \in Seq(Nat \ {0}) /\ Len(res) <= ResCap
    /\ err \in 0..ErrCap /\ closed \subseteq {"Req", "Res", "Err"}
    /\ ack \in AckStates /\ reply \in Requests
    /\ stream \in StreamStates /\ hand \in Requests
    /\ recv \in RecvStates /\ wg \in Nat
    /\ requestCount \in Nat /\ responseCount \in Nat
    /\ acked \in Nat /\ subsSent \in Nat
    /\ link \in Links
    /\ inFlight \in Nat /\ answered \in Nat /\ ackAnswered \in Nat
    /\ step \in StepStates /\ left \in 0..MaxSteps
    /\ subs \in Nat /\ result \in Results

\* No goroutine ever sends on a closed channel: neither the receive loop on
\* Err, which Stream's deferred close shuts, nor a step on Req, which Ack shuts
\* on Done.  It rests on Recv being inside its first wg.Add before Done, and on
\* SotwStream returning early only for the nil of a Res that Recv itself closed.
NoPanic == recv # "panicked" /\ (step = "push" => "Req" \notin closed)

\* A receiving step never reads the nil error of a closed and drained Err (on
\* which ClientDoesNotReceiveAnyMessageFromService would pass): whenever Stream
\* has closed Err under a waiting step, a real error is still queued in it.
WaitReadsRealError == step = "wait" /\ "Err" \in closed => err > 0

\* The nil request Ack makes out of a closed Res never gets to the target as an
\* empty message, although DeltaStream sends it: by then the stream has ended.
NilIn(r) == \E i \in DOMAIN r : r[i] = Nil
NoEmptyRequest ==
    link \in Live => /\ ~NilIn(req)
                     /\ ~(stream \in {"badRequest", "send", "sendError"} /\ hand = Nil)

\* Through two bounded channels and three goroutines every response is taken by
\* Ack and ACKed once, in the order received, none skipped; after Done nothing
\* more is taken, and the ACKs on their way to Send are still sent.
taken  == responseCount - Len(res) - (IF recv = "deliver" THEN 1 ELSE 0)
mode   == IF ack \in {"closing", "stopped"} THEN "stopped" ELSE "running"
Ledger == INSTANCE AckLedger WITH received <- responseCount
LedgerSpec == Ledger!Spec

\* An ACK is only ever sent for a response that was received, and while Ack runs
\* a response is not ACKed only because it is in a channel or a hand on the way.
OnTheWay(s) == Cardinality({i \in DOMAIN s : s[i].kind = "ack"})
AcksAccounted ==
    link \in Live =>
      responseCount - acked =
        Len(res) + OnTheWay(req)
          + (IF recv = "deliver" THEN 1 ELSE 0)
          + (IF reply.kind = "ack" THEN 1 ELSE 0)
          + (IF hand.kind = "ack" THEN 1 ELSE 0)

\* What the final check decides: it reports too many responses exactly when the
\* responses no ACK was sent for are at least as many as the subscription
\* requests of the scenario.
JudgeExact ==
    [][step = "sleep" /\ step' = "over" =>
         (result' = "tooMany" <=> responseCount - acked >= subs)]_vars

\* Nobody drains Res once Ack has stopped, so at most ResCap + 1 responses are
\* counted and not ACKed: the final check is blind in a scenario that makes more
\* subscription requests than that.
JudgeBlind == result = "tooMany" => subs <= ResCap + 1

\* Every response received is ACKed, unless the scenario shuts Ack down first.
ResponsesAcked ==
    \A n \in 1..MaxResponses :
        (responseCount >= n) ~> (acked >= n \/ ack = "stopped")

\* A final check that is reached stops Ack: Done is taken.
DoneStopsAck == (step = "signal") ~> (ack = "stopped")

\* Every scenario comes to its end.
ScenarioEnds == <>(step = "over")

\* A scenario that has ACKed what it got is failed for too many responses only
\* if the target responded to an ACK, as the error's text and diary/ads-support.org
\* have it.  A response that comes after Done is counted and never ACKed.
TooManyMeansAckAnswered == result = "tooMany" /\ acked > 0 => ackAnswered > 0

\* A scenario whose final check passes had no response to an ACK.
PassedMeansNoAckAnswered ==
    result = "passed" /\ "Req" \in closed => ackAnswered = 0
=============================================================================
