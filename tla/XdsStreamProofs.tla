-------------------------- MODULE XdsStreamProofs --------------------------
(***************************************************************************)
(* Theorems about one stream of the harness, for every capacity of its     *)
(* channels, every number of responses and steps, and both protocols.      *)
(***************************************************************************)
EXTENDS XdsStream, TLAPS

\* The requests the channels carry, and how Ack makes them from responses.
LEMMA RequestsType ==
    /\ Sub \in Requests /\ Nil \in Requests
    /\ \A n \in Nat : newAckFromResponse(n) \in Requests
    /\ \A r \in Requests : r.kind = "ack" => r.n \in Nat \ {0}
BY DEF Requests, Sub, Nil, Ack, newAckFromResponse

\* Receiving from a channel that is not empty.
LEMMA HeadTail ==
    ASSUME NEW S, NEW s \in Seq(S), s # <<>>
    PROVE  /\ Head(s) \in S /\ Tail(s) \in Seq(S)
           /\ Len(Tail(s)) = Len(s) - 1
           /\ \A i \in 1..Len(s) - 1 : Tail(s)[i] = s[i + 1]
OBVIOUS

-----------------------------------------------------------------------------
(* Type correctness.  TypeOK is inductive once it is known that a response  *)
(* about to be delivered has been counted.                                  *)

TypeInv == TypeOK /\ (recv = "deliver" => responseCount > 0)

LEMMA TypeInit == Init => TypeInv
BY RequestsType, CapAssumption, BoundAssumption
   DEF Init, TypeInv, TypeOK, AckStates, StreamStates, RecvStates, StepStates,
       Links, Results

LEMMA TypeAck == ASSUME TypeInv, AckNext PROVE TypeInv'
<1> USE CapAssumption DEF TypeInv, TypeOK, AckStates, counters, network, scenario
<1>1. CASE AckSubscribes
    BY <1>1, RequestsType DEF AckSubscribes
<1>2. CASE AckTakes
  <2>1. reply' \in Requests
    BY <1>2, RequestsType DEF AckTakes
  <2>2. res' \in Seq(Nat \ {0}) /\ Len(res') <= ResCap
    <3>1. CASE res # <<>> /\ res' = Tail(res)
      BY <3>1, HeadTail
    <3>2. CASE res' = res
      BY <3>2
    <3>3. QED
      BY <1>2, <3>1, <3>2 DEF AckTakes
  <2>3. QED
    BY <1>2, <2>1, <2>2 DEF AckTakes
<1>3. CASE AckReplies
    BY <1>3, RequestsType DEF AckReplies
<1>4. CASE AckCloses
    BY <1>4 DEF AckCloses
<1>5. QED
    BY <1>1, <1>2, <1>3, <1>4 DEF AckNext

LEMMA TypeStream == ASSUME TypeInv, StreamNext PROVE TypeInv'
<1> USE CapAssumption
    DEF TypeInv, TypeOK, StreamStates, RecvStates, Links, chans, counters,
        network, scenario
<1>1. CASE StreamStarts
    BY <1>1 DEF StreamStarts
<1>2. CASE StreamTakes
    BY <1>2 DEF StreamTakes
<1>3. CASE StreamReportsBadRequest
    BY <1>3 DEF StreamReportsBadRequest
<1>4. CASE StreamSends
    BY <1>4, RequestsType DEF StreamSends, RequestCounted
<1>5. CASE StreamFailsToSend
    BY <1>5 DEF StreamFailsToSend
<1>6. CASE StreamReportsSendError
    BY <1>6, RequestsType DEF StreamReportsSendError, RequestCounted
<1>7. CASE StreamClosesSend
    BY <1>7 DEF StreamClosesSend
<1>8. CASE StreamWaits
    BY <1>8 DEF StreamWaits
<1>9. CASE StreamClosesErr
    BY <1>9 DEF StreamClosesErr
<1>10. CASE StreamCancels
    BY <1>10 DEF StreamCancels
<1>11. QED
    BY <1>1, <1>2, <1>3, <1>4, <1>5, <1>6, <1>7, <1>8, <1>9, <1>10 DEF StreamNext

LEMMA TypeRecv == ASSUME TypeInv, RecvNext PROVE TypeInv'
<1> USE CapAssumption
    DEF TypeInv, TypeOK, RecvStates, chans, counters, network, scenario
<1>1. CASE RecvEnters
    BY <1>1 DEF RecvEnters
<1>2. CASE RecvMessage
    BY <1>2 DEF RecvMessage
<1>3. CASE RecvMalformed
    BY <1>3 DEF RecvMalformed
<1>4. CASE RecvDelivers
    BY <1>4 DEF RecvDelivers
<1>5. CASE RecvEOF
    BY <1>5 DEF RecvEOF
<1>6. CASE RecvFails
    BY <1>6 DEF RecvFails
<1>7. CASE RecvReportsError
    BY <1>7 DEF RecvReportsError
<1>8. CASE RecvPanics
    BY <1>8 DEF RecvPanics, AckStates, StreamStates, StepStates, Links
<1>9. QED
    BY <1>1, <1>2, <1>3, <1>4, <1>5, <1>6, <1>7, <1>8 DEF RecvNext

LEMMA TypeTarget == ASSUME TypeInv, TargetNext PROVE TypeInv'
<1> USE DEF TypeInv, TypeOK, Links, chans, counters, network, scenario
<1>1. CASE TargetResponds
    BY <1>1 DEF TargetResponds
<1>2. CASE TargetEnds
    BY <1>2 DEF TargetEnds
<1>3. CASE LinkBreaks
    BY <1>3 DEF LinkBreaks
<1>4. QED
    BY <1>1, <1>2, <1>3 DEF TargetNext

LEMMA TypeStep == ASSUME TypeInv, StepNext PROVE TypeInv'
<1> USE CapAssumption, BoundAssumption
    DEF TypeInv, TypeOK, StepStates, Results, chans, counters, network, scenario
<1>1. CASE StepSubscribes
    BY <1>1 DEF StepSubscribes, AckStates, StreamStates, Links
<1>2. CASE StepFailsToSubscribe
    BY <1>2 DEF StepFailsToSubscribe
<1>3. CASE StepDecidesToPush
    BY <1>3 DEF StepDecidesToPush
<1>4. CASE StepPushes
    BY <1>4, RequestsType DEF StepPushes
<1>5. CASE StepStartsTimer
    BY <1>5 DEF StepStartsTimer
<1>6. CASE StepTimerFires
    BY <1>6 DEF StepTimerFires
<1>7. CASE StepReadsErr
    BY <1>7 DEF StepReadsErr
<1>8. CASE StepEndsScenario
    BY <1>8 DEF StepEndsScenario
<1>9. CASE StepReachesFinalCheck
    BY <1>9 DEF StepReachesFinalCheck
<1>10. CASE SignalDone
    BY <1>10 DEF SignalDone, AckStates
<1>11. CASE StepJudges
    BY <1>11 DEF StepJudges
<1>12. QED
    BY <1>1, <1>2, <1>3, <1>4, <1>5, <1>6, <1>7, <1>8, <1>9, <1>10, <1>11
    DEF StepNext

\* A step that changes nothing keeps the types.
LEMMA TypeStutter == ASSUME TypeInv, UNCHANGED vars PROVE TypeInv'
BY DEF TypeInv, TypeOK, vars, chans, counters, network, scenario

LEMMA TypeNext == TypeInv /\ [Next]_vars => TypeInv'
BY TypeAck, TypeStream, TypeRecv, TypeTarget, TypeStep, TypeStutter DEF Next

\* Every state of every behaviour is of its type, and no channel ever holds more
\* than its capacity (Channels in services.go).
THEOREM TypeCorrect == Spec => []TypeOK
<1>1. TypeInv => TypeOK
    BY DEF TypeInv
<1>2. QED
    BY TypeInit, TypeNext, <1>1, PTL DEF Spec

-----------------------------------------------------------------------------
(* Nil requests.  Ack makes one only out of a closed Res, and Res is closed  *)
(* by the receive loop as it exits at the end of the stream.                 *)

Started   == /\ stream \in {"off", "start"} => recv = "off"
             /\ recv = "off" => stream \in {"off", "start"}
NotBegun  == step = "begin" => stream = "off" /\ ack = "off"
ResShut   == "Res" \in closed => recv = "exited" /\ link \in {"ended", "broken"}
NilInReq  == NilIn(req) => "Res" \in closed
NilInHand == stream \in {"badRequest", "send", "sendError"} /\ hand = Nil => "Res" \in closed
NilReply  == ack = "reply" /\ reply = Nil => "Res" \in closed

NilInv == Started /\ NotBegun /\ ResShut /\ NilInReq /\ NilInHand /\ NilReply

(* Shutdown, under prompt goroutines.  Once a receiving step has passed, the *)
(* receive loop has called wg.Add; wg.Wait then never returns, so only the   *)
(* nil of a closed Res makes Stream close Err, when nobody sends on it.      *)

Entered  == recv \in {"receive", "deliver", "error", "exited"} => wg > 0
Checked  == step \in {"checked", "signal", "sleep"} => wg > 0
Running  == step \notin {"begin", "over"} => stream # "off"
Stopping == ack \in {"closing", "stopped"} => wg > 0 /\ step \in {"sleep", "over"}
ReqShut  == "Req" \in closed => ack = "stopped"
Held     == stream = "wait" => wg > 0
Returned == stream \in {"return", "cancel", "exited"} =>
                "Res" \in closed /\ (step = "over" \/ err > 0)
BadIsNil == stream = "badRequest" => hand = Nil
ErrShut  == "Err" \in closed => stream \in {"cancel", "exited"}

ShutInv == /\ recv # "panicked"
           /\ Entered /\ Checked /\ Running /\ Stopping /\ ReqShut
           /\ Held /\ Returned /\ BadIsNil /\ ErrShut

\* How a queue of requests gains and loses a nil.
LEMMA NilSent ==
    ASSUME NEW s \in Seq(Requests), NEW r \in Requests, NilIn(Append(s, r))
    PROVE  NilIn(s) \/ r = Nil
BY DEF NilIn

LEMMA NilReceived ==
    ASSUME NEW s \in Seq(Requests), s # <<>>
    PROVE  (NilIn(Tail(s)) => NilIn(s)) /\ (Head(s) = Nil => NilIn(s))
<1>1. NilIn(Tail(s)) => NilIn(s)
    BY DEF NilIn
<1>2. Head(s) = Nil => NilIn(s)
    BY DEF NilIn
<1>3. QED
    BY <1>1, <1>2

\* Only a subscription and what newAckFromResponse makes of 0 and of nonces.
LEMMA NilRequest ==
    /\ Sub # Nil
    /\ \A n \in Nat : newAckFromResponse(n) = Nil => n = 0
BY DEF Sub, Nil, Ack, newAckFromResponse

LEMMA NilInit == Init => NilInv
BY DEF Init, NilInv, Started, NotBegun, ResShut, NilInReq, NilInHand, NilReply, NilIn

LEMMA NilAck == ASSUME TypeInv, NilInv, AckNext PROVE NilInv'
<1> USE DEF NilInv, Started, NotBegun, ResShut, NilInReq, NilInHand, NilReply,
            TypeInv, TypeOK, chans, counters, network, scenario
<1>1. CASE AckSubscribes
    BY <1>1, NilSent, NilRequest, RequestsType DEF AckSubscribes
<1>2. CASE AckTakes
    BY <1>2, NilRequest, HeadTail DEF AckTakes
<1>3. CASE AckReplies
    BY <1>3, NilSent DEF AckReplies
<1>4. CASE AckCloses
    BY <1>4 DEF AckCloses
<1>5. QED
    BY <1>1, <1>2, <1>3, <1>4 DEF AckNext

LEMMA NilStream == ASSUME TypeInv, NilInv, StreamNext PROVE NilInv'
<1> USE DEF NilInv, Started, NotBegun, ResShut, NilInReq, NilInHand, NilReply,
            TypeInv, TypeOK, chans, counters, network, scenario
<1>1. CASE StreamStarts
    BY <1>1 DEF StreamStarts
<1>2. CASE StreamTakes
  <2>1. (NilIn(req') => NilIn(req)) /\ (hand' = Nil => NilIn(req))
    BY <1>2, NilReceived DEF StreamTakes
  <2>2. NilInReq'
    BY <1>2, <2>1 DEF StreamTakes, NilIn
  <2>3. NilInHand'
    BY <1>2, <2>1 DEF StreamTakes
  <2>4. QED
    BY <1>2, <2>2, <2>3 DEF StreamTakes
<1>3. CASE StreamReportsBadRequest
    BY <1>3 DEF StreamReportsBadRequest
<1>4. CASE StreamSends
    BY <1>4 DEF StreamSends, RequestCounted
<1>5. CASE StreamFailsToSend
    BY <1>5 DEF StreamFailsToSend
<1>6. CASE StreamReportsSendError
    BY <1>6 DEF StreamReportsSendError, RequestCounted
<1>7. CASE StreamClosesSend
    BY <1>7 DEF StreamClosesSend
<1>8. CASE StreamWaits
    BY <1>8 DEF StreamWaits
<1>9. CASE StreamClosesErr
    BY <1>9 DEF StreamClosesErr
<1>10. CASE StreamCancels
    BY <1>10 DEF StreamCancels
<1>11. QED
    BY <1>1, <1>2, <1>3, <1>4, <1>5, <1>6, <1>7, <1>8, <1>9, <1>10 DEF StreamNext

LEMMA NilRecv == ASSUME TypeInv, NilInv, RecvNext PROVE NilInv'
<1> USE DEF NilInv, Started, NotBegun, ResShut, NilInReq, NilInHand, NilReply,
            TypeInv, TypeOK, chans, counters, network, scenario
<1>1. CASE RecvEnters
    BY <1>1 DEF RecvEnters
<1>2. CASE RecvMessage
    BY <1>2 DEF RecvMessage
<1>3. CASE RecvMalformed
    BY <1>3 DEF RecvMalformed
<1>4. CASE RecvDelivers
    BY <1>4 DEF RecvDelivers
<1>5. CASE RecvEOF
    BY <1>5 DEF RecvEOF
<1>6. CASE RecvFails
    BY <1>6 DEF RecvFails
<1>7. CASE RecvReportsError
    BY <1>7 DEF RecvReportsError
<1>8. CASE RecvPanics
    BY <1>8 DEF RecvPanics
<1>9. QED
    BY <1>1, <1>2, <1>3, <1>4, <1>5, <1>6, <1>7, <1>8 DEF RecvNext

LEMMA NilTarget == ASSUME TypeInv, NilInv, TargetNext PROVE NilInv'
<1> USE DEF NilInv, Started, NotBegun, ResShut, NilInReq, NilInHand, NilReply,
            TypeInv, TypeOK, chans, counters, network, scenario, Live
<1>1. CASE TargetResponds
    BY <1>1 DEF TargetResponds
<1>2. CASE TargetEnds
    BY <1>2 DEF TargetEnds
<1>3. CASE LinkBreaks
    BY <1>3 DEF LinkBreaks
<1>4. QED
    BY <1>1, <1>2, <1>3 DEF TargetNext

LEMMA NilStep == ASSUME TypeInv, NilInv, StepNext PROVE NilInv'
<1> USE DEF NilInv, Started, NotBegun, ResShut, NilInReq, NilInHand, NilReply,
            TypeInv, TypeOK, chans, counters, network, scenario
<1>1. CASE StepSubscribes
    BY <1>1 DEF StepSubscribes
<1>2. CASE StepFailsToSubscribe
    BY <1>2 DEF StepFailsToSubscribe
<1>3. CASE StepDecidesToPush
    BY <1>3 DEF StepDecidesToPush
<1>4. CASE StepPushes
    BY <1>4, NilSent, NilRequest, RequestsType DEF StepPushes
<1>5. CASE StepStartsTimer
    BY <1>5 DEF StepStartsTimer
<1>6. CASE StepTimerFires
    BY <1>6 DEF StepTimerFires
<1>7. CASE StepReadsErr
    BY <1>7 DEF StepReadsErr
<1>8. CASE StepEndsScenario
    BY <1>8 DEF StepEndsScenario
<1>9. CASE StepReachesFinalCheck
    BY <1>9 DEF StepReachesFinalCheck
<1>10. CASE SignalDone
    BY <1>10 DEF SignalDone
<1>11. CASE StepJudges
    BY <1>11 DEF StepJudges
<1>12. QED
    BY <1>1, <1>2, <1>3, <1>4, <1>5, <1>6, <1>7, <1>8, <1>9, <1>10, <1>11 DEF StepNext

LEMMA NilNext == TypeInv /\ NilInv /\ [Next]_vars => NilInv'
<1>1. ASSUME NilInv, UNCHANGED vars PROVE NilInv'
    BY <1>1 DEF NilInv, Started, NotBegun, ResShut, NilInReq, NilInHand, NilReply,
                NilIn, vars, chans, counters, network, scenario
<1>2. QED
    BY <1>1, NilAck, NilStream, NilRecv, NilTarget, NilStep DEF Next

\* The empty message DeltaStream would make of a nil request never reaches the
\* target, nor does any nil request while the stream lives.
THEOREM NoEmptyRequestHolds == Spec => []NoEmptyRequest
<1>1. NilInv => NoEmptyRequest
    BY DEF NilInv, ResShut, NilInReq, NilInHand, NoEmptyRequest, Live
<1>2. QED
    BY TypeInit, NilInit, TypeNext, NilNext, <1>1, PTL DEF Spec

LEMMA ShutInit == Init => ShutInv
BY DEF Init, ShutInv, Entered, Checked, Running, Stopping, ReqShut, Held, Returned,
       BadIsNil, ErrShut

LEMMA ShutAck == ASSUME TypeInv, NilInv, ShutInv, AckNext PROVE ShutInv'
<1> USE DEF ShutInv, Entered, Checked, Running, Stopping, ReqShut, Held,
            Returned, BadIsNil, ErrShut, NilInv, Started, NotBegun, ResShut,
            NilInHand, TypeInv, TypeOK, chans, counters, network, scenario
<1>1. CASE AckSubscribes
    BY <1>1 DEF AckSubscribes
<1>2. CASE AckTakes
    BY <1>2 DEF AckTakes
<1>3. CASE AckReplies
    BY <1>3 DEF AckReplies
<1>4. CASE AckCloses
    BY <1>4 DEF AckCloses
<1>5. QED
    BY <1>1, <1>2, <1>3, <1>4 DEF AckNext

LEMMA ShutStream == ASSUME TypeInv, NilInv, ShutInv, StreamNext PROVE ShutInv'
<1> USE DEF ShutInv, Entered, Checked, Running, Stopping, ReqShut, Held,
            Returned, BadIsNil, ErrShut, NilInv, Started, NotBegun, ResShut,
            NilInHand, TypeInv, TypeOK, chans, counters, network, scenario
<1>1. CASE StreamStarts
    BY <1>1 DEF StreamStarts
<1>2. CASE StreamTakes
    BY <1>2 DEF StreamTakes
<1>3. CASE StreamReportsBadRequest
    BY <1>3 DEF StreamReportsBadRequest
<1>4. CASE StreamSends
    BY <1>4 DEF StreamSends, RequestCounted
<1>5. CASE StreamFailsToSend
    BY <1>5 DEF StreamFailsToSend
<1>6. CASE StreamReportsSendError
    BY <1>6 DEF StreamReportsSendError, RequestCounted
<1>7. CASE StreamClosesSend
    BY <1>7 DEF StreamClosesSend
<1>8. CASE StreamWaits
    BY <1>8 DEF StreamWaits
<1>9. CASE StreamClosesErr
    BY <1>9 DEF StreamClosesErr
<1>10. CASE StreamCancels
    BY <1>10 DEF StreamCancels
<1>11. QED
    BY <1>1, <1>2, <1>3, <1>4, <1>5, <1>6, <1>7, <1>8, <1>9, <1>10 DEF StreamNext

LEMMA ShutRecv == ASSUME TypeInv, NilInv, ShutInv, RecvNext PROVE ShutInv'
<1> USE DEF ShutInv, Entered, Checked, Running, Stopping, ReqShut, Held,
            Returned, BadIsNil, ErrShut, NilInv, Started, NotBegun, ResShut,
            NilInHand, TypeInv, TypeOK, chans, counters, network, scenario
<1>1. CASE RecvEnters
    BY <1>1 DEF RecvEnters
<1>2. CASE RecvMessage
    BY <1>2 DEF RecvMessage
<1>3. CASE RecvMalformed
    BY <1>3 DEF RecvMalformed
<1>4. CASE RecvDelivers
    BY <1>4 DEF RecvDelivers
<1>5. CASE RecvEOF
    BY <1>5 DEF RecvEOF
<1>6. CASE RecvFails
    BY <1>6 DEF RecvFails
<1>7. CASE RecvReportsError
    BY <1>7 DEF RecvReportsError
<1>8. CASE RecvPanics
    BY <1>8 DEF RecvPanics
<1>9. QED
    BY <1>1, <1>2, <1>3, <1>4, <1>5, <1>6, <1>7, <1>8 DEF RecvNext

LEMMA ShutTarget == ASSUME TypeInv, NilInv, ShutInv, TargetNext PROVE ShutInv'
<1> USE DEF ShutInv, Entered, Checked, Running, Stopping, ReqShut, Held,
            Returned, BadIsNil, ErrShut, NilInv, Started, NotBegun, ResShut,
            NilInHand, TypeInv, TypeOK, chans, counters, network, scenario,
            Live
<1>1. CASE TargetResponds
    BY <1>1 DEF TargetResponds
<1>2. CASE TargetEnds
    BY <1>2 DEF TargetEnds
<1>3. CASE LinkBreaks
    BY <1>3 DEF LinkBreaks
<1>4. QED
    BY <1>1, <1>2, <1>3 DEF TargetNext

LEMMA ShutStep == ASSUME Prompt, TypeInv, NilInv, ShutInv, StepNext PROVE ShutInv'
<1> USE DEF ShutInv, Entered, Checked, Running, Stopping, ReqShut, Held,
            Returned, BadIsNil, ErrShut, NilInv, Started, NotBegun, ResShut,
            NilInHand, TypeInv, TypeOK, chans, counters, network, scenario
<1>1. CASE StepSubscribes
    BY <1>1 DEF StepSubscribes
<1>2. CASE StepFailsToSubscribe
    BY <1>2 DEF StepFailsToSubscribe
<1>3. CASE StepDecidesToPush
    BY <1>3 DEF StepDecidesToPush
<1>4. CASE StepPushes
    BY <1>4 DEF StepPushes
<1>5. CASE StepStartsTimer
    BY <1>5 DEF StepStartsTimer
<1>6. CASE StepTimerFires
    BY <1>6 DEF StepTimerFires, TimerFires, Settled, RecvSettled, StreamSettled, RecvStates
<1>7. CASE StepReadsErr
    BY <1>7 DEF StepReadsErr
<1>8. CASE StepEndsScenario
    BY <1>8 DEF StepEndsScenario
<1>9. CASE StepReachesFinalCheck
    BY <1>9 DEF StepReachesFinalCheck
<1>10. CASE SignalDone
    BY <1>10 DEF SignalDone
<1>11. CASE StepJudges
    BY <1>11 DEF StepJudges
<1>12. QED
    BY <1>1, <1>2, <1>3, <1>4, <1>5, <1>6, <1>7, <1>8, <1>9, <1>10, <1>11 DEF StepNext

LEMMA ShutInvariant == ASSUME Prompt PROVE Spec => [](TypeInv /\ NilInv /\ ShutInv)
<1>1. Init => TypeInv /\ NilInv /\ ShutInv
    BY TypeInit, NilInit, ShutInit
<1>2. TypeInv /\ NilInv /\ ShutInv /\ [Next]_vars => (TypeInv /\ NilInv /\ ShutInv)'
  <2>1. ASSUME ShutInv, UNCHANGED vars PROVE ShutInv'
    BY <2>1 DEF ShutInv, Entered, Checked, Running, Stopping, ReqShut, Held, Returned,
                BadIsNil, ErrShut, vars, chans, counters, network, scenario
  <2>2. QED
    BY <2>1, TypeNext, NilNext, ShutAck, ShutStream, ShutRecv, ShutTarget, ShutStep
    DEF Next
<1>3. QED
    BY <1>1, <1>2, PTL DEF Spec

\* No goroutine ever sends on a closed channel, if the goroutines that can run do
\* so within the 3 s a receiving step waits.
THEOREM NoPanicHolds == ASSUME Prompt PROVE Spec => []NoPanic
<1>1. ShutInv => NoPanic
    BY DEF ShutInv, Stopping, ReqShut, NoPanic
<1>2. QED
    BY ShutInvariant, <1>1, PTL

\* Under the same assumption no receiving step reads the nil of a closed Err.
THEOREM WaitReadsRealErrorHolds == ASSUME Prompt PROVE Spec => []WaitReadsRealError
<1>1. ShutInv => WaitReadsRealError
    BY DEF ShutInv, ErrShut, Returned, WaitReadsRealError
<1>2. QED
    BY ShutInvariant, <1>1, PTL

=============================================================================
