---------------------------- MODULE LedgerProofs ----------------------------
(***************************************************************************)
(* XdsStream implements AckLedger: every response the harness receives is  *)
(* ACKed once, in order and without a gap, whatever the capacities of the  *)
(* channels, the interleaving of the goroutines and the faults.            *)
(*                                                                         *)
(* So the requests can be counted, which is what the final check of a      *)
(* scenario does: if the goroutines that can run do so within its timer,   *)
(* and the stream neither breaks nor ends before the half-close, it        *)
(* compares the responses not ACKed with the subscription requests, and    *)
(* can find too many only where these are at most ResCap + 1.              *)
(***************************************************************************)
EXTENDS XdsStreamProofs, FiniteSetTheorems

(* The inductive invariant follows an ACK's way: a nonce in Res, then the    *)
(* reply in Ack's hand, an element of Req, the request in Stream's hand, and *)
(* the number of the last ACK sent.                                          *)

IsAck(r) == r.kind = "ack"

\* Res holds the nonces that follow the last one taken.
Delivered == taken \in Nat /\ \A i \in DOMAIN res : res[i] = taken + i

\* The ACKs in Req are for responses taken and not yet ACKed, in order.
QueueBounds == \A i \in DOMAIN req : IsAck(req[i]) => acked < req[i].n /\ req[i].n <= taken
QueueSorted == \A i, j \in DOMAIN req :
                   i < j /\ IsAck(req[i]) /\ IsAck(req[j]) => req[i].n < req[j].n

\* The one in Stream's hand comes before them, the one in Ack's hand after them.
HandNext  == IsAck(hand) =>
                /\ stream \in {"send", "sendError", "exited"}
                /\ hand.n = acked + 1 /\ hand.n <= taken
                /\ \A i \in DOMAIN req : IsAck(req[i]) => hand.n < req[i].n
ReplyLast == IsAck(reply) =>
                /\ ack \in {"reply", "stopped"}
                /\ reply.n = taken /\ acked < taken
                /\ \A i \in DOMAIN req : IsAck(req[i]) => req[i].n < reply.n
                /\ IsAck(hand) => hand.n < reply.n

\* No response taken and not yet ACKed is missing on the way.
OnItsWay(n) == \/ IsAck(hand) /\ hand.n = n
               \/ IsAck(reply) /\ reply.n = n
               \/ \E i \in DOMAIN req : IsAck(req[i]) /\ req[i].n = n
NoneSkipped == acked <= taken /\ \A n \in acked + 1..taken : OnItsWay(n)

OrderInv == /\ Delivered /\ QueueBounds /\ QueueSorted
            /\ HandNext /\ ReplyLast /\ NoneSkipped

-----------------------------------------------------------------------------
(* Facts about requests.                                                    *)

LEMMA RequestFacts ==
    /\ ~IsAck(Sub) /\ ~IsAck(Nil)
    /\ ~IsAck(newAckFromResponse(0))
    /\ \A n \in Nat \ {0} : /\ IsAck(newAckFromResponse(n))
                          /\ newAckFromResponse(n).n = n
    /\ \A r \in Requests : IsAck(r) => r.n \in Nat
BY DEF IsAck, Sub, Nil, Ack, newAckFromResponse, Requests

LEMMA TakenType == ASSUME TypeInv PROVE taken \in Int
BY DEF TypeInv, TypeOK, taken

\* What the invariant says depends on the queues, the hands and three numbers.
LEMMA OrderFrame ==
    ASSUME OrderInv, UNCHANGED <<req, res, acked, hand, reply, taken>>,
           IsAck(hand) => stream' \in {"send", "sendError", "exited"},
           IsAck(reply) => ack' \in {"reply", "stopped"}
    PROVE  OrderInv'
BY DEF OrderInv, Delivered, QueueBounds, QueueSorted, HandNext, ReplyLast,
       NoneSkipped, OnItsWay, IsAck

\* taken, where no response is taken.
LEMMA TakenFrame ==
    ASSUME UNCHANGED <<responseCount, res, recv>> PROVE UNCHANGED taken
BY DEF taken

LEMMA OrderInit == Init => OrderInv
BY RequestFacts
   DEF Init, OrderInv, Delivered, QueueBounds, QueueSorted, HandNext, ReplyLast,
       NoneSkipped, OnItsWay, taken

-----------------------------------------------------------------------------
(* The steps that move an ACK on its way.                                   *)

LEMMA OrderAckTakes == ASSUME TypeInv, OrderInv, AckTakes PROVE OrderInv'
<1>1. CASE res = <<>> /\ res' = res /\ reply' = newAckFromResponse(0)
  <2>1. ~IsAck(reply) /\ ~IsAck(reply') /\ UNCHANGED <<req, hand, acked, taken, stream, res>>
    BY <1>1, RequestFacts DEF AckTakes, OrderInv, ReplyLast, taken, counters
  <2>2. QED
    BY <2>1 DEF OrderInv, Delivered, QueueBounds, QueueSorted, HandNext, ReplyLast,
                NoneSkipped, OnItsWay, IsAck
<1>2. CASE res # <<>> /\ res' = Tail(res) /\ reply' = newAckFromResponse(Head(res))
  <2>1. /\ taken \in Nat /\ acked \in Nat
        /\ taken' = taken + 1
        /\ \A i \in DOMAIN res' : i \in Nat /\ res'[i] = taken + (i + 1)
    <3>1. res \in Seq(Nat \ {0}) /\ taken \in Nat /\ acked \in Nat /\ responseCount \in Nat
      BY DEF TypeInv, TypeOK, OrderInv, Delivered
    <3>2. Len(res') = Len(res) - 1 /\ UNCHANGED <<recv, responseCount>>
      BY <1>2, <3>1, HeadTail DEF AckTakes, counters
    <3>3. taken' = taken + 1
      BY <3>1, <3>2 DEF taken
    <3>4. \A i \in DOMAIN res' : i \in Nat /\ res'[i] = taken + (i + 1)
      BY <1>2, <3>1 DEF OrderInv, Delivered
    <3>5. QED
      BY <3>1, <3>3, <3>4
  <2>2. Head(res) = taken + 1
    BY <1>2 DEF TypeInv, TypeOK, OrderInv, Delivered
  <2>3. IsAck(reply') /\ reply'.n = taken + 1 /\ ack' = "reply"
    BY <1>2, <2>1, <2>2, RequestFacts DEF AckTakes
  <2>4. ~IsAck(reply) /\ UNCHANGED <<req, hand, acked, stream>>
    BY DEF AckTakes, OrderInv, ReplyLast, counters
  <2>5. \A i \in DOMAIN req : IsAck(req[i]) => req[i].n \in Nat
    BY RequestFacts DEF TypeInv, TypeOK
  <2>6. Delivered'
    BY <2>1 DEF Delivered
  <2>7. QueueBounds' /\ QueueSorted'
    BY <2>1, <2>4, <2>5 DEF OrderInv, QueueBounds, QueueSorted
  <2>8. HandNext' /\ ReplyLast'
    BY <2>1, <2>3, <2>4, <2>5 DEF OrderInv, QueueBounds, HandNext, ReplyLast, NoneSkipped
  <2>9. NoneSkipped'
    BY <2>1, <2>3, <2>4 DEF OrderInv, NoneSkipped, OnItsWay
  <2>10. QED
    BY <2>6, <2>7, <2>8, <2>9 DEF OrderInv
<1>3. QED
    BY <1>1, <1>2 DEF AckTakes

\* A request enters Req: an ACK is the last of those on their way.
LEMMA OrderSent ==
    ASSUME TypeInv, OrderInv, NEW r \in Requests, req' = Append(req, r),
           \/ IsAck(r) /\ r = reply /\ ~IsAck(reply')
           \/ ~IsAck(r) /\ ~IsAck(reply) /\ ~IsAck(reply')
           \/ ~IsAck(r) /\ reply' = reply /\ ack' = ack,
           UNCHANGED <<res, acked, hand, stream, taken>>
    PROVE  OrderInv'
<1> DEFINE n == Len(req)
<1>1. /\ n \in Nat /\ DOMAIN req = 1..n /\ DOMAIN req' = 1..n + 1
      /\ \A i \in 1..n : req'[i] = req[i]
      /\ req'[n + 1] = r
    BY DEF TypeInv, TypeOK
<1> HIDE DEF n
<1>2. /\ \A i \in 1..n : IsAck(req[i]) => req[i].n \in Nat
      /\ acked \in Nat /\ taken \in Int
      /\ IsAck(r) => r.n \in Nat
    BY <1>1, RequestFacts, TakenType DEF TypeInv, TypeOK
<1>3. Delivered'
    BY DEF OrderInv, Delivered
<1>4. QueueBounds'
    BY <1>1, <1>2 DEF OrderInv, QueueBounds, ReplyLast
<1>5. QueueSorted'
    BY <1>1, <1>2 DEF OrderInv, QueueSorted, ReplyLast
<1>6. HandNext'
    BY <1>1, <1>2 DEF OrderInv, HandNext, ReplyLast
<1>7. ReplyLast'
    BY <1>1, <1>2 DEF OrderInv, ReplyLast
<1>8. NoneSkipped'
  <2>1. ASSUME NEW k, OnItsWay(k) PROVE OnItsWay(k)'
    BY <1>1, <2>1 DEF OnItsWay
  <2>2. QED
    BY <2>1 DEF OrderInv, NoneSkipped
<1>9. QED
    BY <1>3, <1>4, <1>5, <1>6, <1>7, <1>8 DEF OrderInv

\* The first ACK in Req, when Stream's hand is empty, is for the next response.
LEMMA FirstAckIsNext ==
    ASSUME TypeInv, OrderInv, stream = "range", req # <<>>, IsAck(Head(req))
    PROVE  Head(req).n = acked + 1
<1>1. /\ 1 \in DOMAIN req /\ Head(req) = req[1] /\ acked \in Nat /\ taken \in Nat
      /\ \A i \in DOMAIN req : i \in Nat /\ i >= 1
      /\ \A i \in DOMAIN req : IsAck(req[i]) => req[i].n \in Nat
    BY RequestFacts DEF TypeInv, TypeOK, OrderInv, Delivered
<1>2. acked < req[1].n /\ req[1].n <= taken
    BY <1>1 DEF OrderInv, QueueBounds
<1>3. OnItsWay(acked + 1) /\ ~IsAck(hand)
    BY <1>1, <1>2 DEF OrderInv, NoneSkipped, HandNext
<1>4. CASE IsAck(reply) /\ reply.n = acked + 1
    BY <1>1, <1>2, <1>4 DEF OrderInv, ReplyLast
<1>5. CASE \E i \in DOMAIN req : IsAck(req[i]) /\ req[i].n = acked + 1
  <2>1. PICK i \in DOMAIN req : IsAck(req[i]) /\ req[i].n = acked + 1
    BY <1>5
  <2>2. CASE i = 1
    BY <1>1, <2>1, <2>2
  <2>3. CASE i # 1
    BY <1>1, <1>2, <2>1, <2>3 DEF OrderInv, QueueSorted
  <2>4. QED
    BY <2>2, <2>3
<1>6. QED
    BY <1>3, <1>4, <1>5 DEF OnItsWay

LEMMA OrderStreamTakes == ASSUME TypeInv, OrderInv, StreamTakes PROVE OrderInv'
<1> DEFINE n == Len(req)
<1>1. /\ n \in Nat \ {0} /\ DOMAIN req = 1..n /\ DOMAIN req' = 1..n - 1
      /\ \A i \in 1..n - 1 : req'[i] = req[i + 1]
      /\ hand' = req[1] /\ Head(req) = req[1] /\ req # <<>> /\ stream = "range"
    BY DEF TypeInv, TypeOK, StreamTakes
<1> HIDE DEF n
<1>2. /\ \A i \in 1..n : IsAck(req[i]) => req[i].n \in Nat
      /\ acked \in Nat /\ taken \in Int
    BY <1>1, RequestFacts, TakenType DEF TypeInv, TypeOK
<1>3. UNCHANGED <<res, reply, acked, ack, taken>> /\ ~IsAck(hand)
    BY <1>1 DEF StreamTakes, counters, taken, OrderInv, HandNext
<1>4. IsAck(hand') => stream' \in {"send", "sendError", "exited"} /\ hand'.n = acked + 1
    BY <1>1, FirstAckIsNext, RequestFacts DEF StreamTakes
<1>5. Delivered'
    BY <1>3 DEF OrderInv, Delivered
<1>6. ASSUME NEW i \in DOMAIN req'
      PROVE  i \in Nat /\ i >= 1 /\ i + 1 \in DOMAIN req /\ req'[i] = req[i + 1]
    BY <1>1
<1>7. 1 \in DOMAIN req
    BY <1>1
<1>8. QueueBounds' /\ QueueSorted'
  <2>1. ASSUME NEW i \in DOMAIN req', IsAck(req'[i])
        PROVE  acked < req'[i].n /\ req'[i].n <= taken
    BY <1>6, <2>1 DEF OrderInv, QueueBounds
  <2>2. ASSUME NEW i \in DOMAIN req', NEW j \in DOMAIN req', i < j,
               IsAck(req'[i]), IsAck(req'[j])
        PROVE  req'[i].n < req'[j].n
    <3>1. i + 1 < j + 1
      BY <1>6, <2>2
    <3>2. QED
      BY <1>6, <2>2, <3>1 DEF OrderInv, QueueSorted
  <2>3. QED
    BY <1>3, <2>1, <2>2 DEF QueueBounds, QueueSorted
<1>9. HandNext'
  <2>1. ASSUME IsAck(hand'), NEW i \in DOMAIN req', IsAck(req'[i])
        PROVE  hand'.n < req'[i].n
    <3>1. 1 < i + 1
      BY <1>6
    <3>2. QED
      BY <1>1, <1>6, <1>7, <2>1, <3>1 DEF OrderInv, QueueSorted
  <2>2. IsAck(hand') => hand'.n <= taken
    BY <1>1, <1>7 DEF OrderInv, QueueBounds
  <2>3. QED
    BY <1>3, <1>4, <2>1, <2>2 DEF HandNext
<1>10. ReplyLast'
  <2>1. ASSUME IsAck(reply), NEW i \in DOMAIN req', IsAck(req'[i])
        PROVE  req'[i].n < reply.n
    BY <1>6, <2>1 DEF OrderInv, ReplyLast
  <2>2. IsAck(reply) /\ IsAck(hand') => hand'.n < reply.n
    BY <1>1, <1>7 DEF OrderInv, ReplyLast
  <2>3. QED
    BY <1>3, <2>1, <2>2 DEF OrderInv, ReplyLast
<1>11. NoneSkipped'
  <2>1. ASSUME NEW k, OnItsWay(k) PROVE OnItsWay(k)'
    <3>1. CASE IsAck(reply) /\ reply.n = k
      BY <1>3, <3>1 DEF OnItsWay
    <3>2. ASSUME NEW i \in DOMAIN req, IsAck(req[i]), req[i].n = k PROVE OnItsWay(k)'
      <4>1. CASE i = 1
        BY <1>1, <3>2, <4>1 DEF OnItsWay
      <4>2. CASE i # 1
        <5>1. i - 1 \in DOMAIN req' /\ req'[i - 1] = req[i]
          BY <1>1, <4>2
        <5>2. QED
          BY <3>2, <5>1 DEF OnItsWay
      <4>3. QED
        BY <4>1, <4>2
    <3>3. QED
      BY <1>3, <2>1, <3>1, <3>2 DEF OnItsWay
  <2>2. QED
    BY <1>3, <2>1 DEF OrderInv, NoneSkipped
<1>12. QED
    BY <1>5, <1>8, <1>9, <1>10, <1>11 DEF OrderInv

\* A request has been passed to Send: an ACK is for the next response.
LEMMA OrderCounted ==
    ASSUME TypeInv, OrderInv, RequestCounted,
           UNCHANGED <<req, res, ack, reply, recv>>
    PROVE  /\ OrderInv'
           /\ acked' = acked \/ (acked < taken /\ acked' = acked + 1)
           /\ UNCHANGED taken
<1>1. UNCHANGED taken /\ hand' = Nil /\ ~IsAck(hand')
    BY RequestFacts DEF RequestCounted, taken
<1>2. /\ acked \in Nat /\ taken \in Int
      /\ \A i \in DOMAIN req : IsAck(req[i]) => req[i].n \in Nat
    BY RequestFacts, TakenType DEF TypeInv, TypeOK
<1>3. CASE ~IsAck(hand)
  <2>1. acked' = acked
    BY <1>3 DEF RequestCounted, IsAck
  <2>2. OrderInv'
    BY <1>1, <1>3, <2>1 DEF OrderInv, Delivered, QueueBounds, QueueSorted, HandNext,
       ReplyLast, NoneSkipped, OnItsWay
  <2>3. QED
    BY <1>1, <2>1, <2>2
<1>4. CASE IsAck(hand)
  <2>1. acked' = acked + 1 /\ acked < taken /\ hand.n = acked + 1
    BY <1>2, <1>4 DEF RequestCounted, IsAck, OrderInv, HandNext
  <2>2. Delivered' /\ QueueSorted' /\ HandNext'
    BY <1>1 DEF OrderInv, Delivered, QueueSorted, HandNext
  <2>3. QueueBounds' /\ ReplyLast'
    BY <1>1, <1>2, <1>4, <2>1 DEF OrderInv, QueueBounds, HandNext, ReplyLast
  <2>4. NoneSkipped'
    <3>1. ASSUME NEW k \in acked + 2..taken PROVE OnItsWay(k)'
      <4>1. OnItsWay(k) /\ k # hand.n
        BY <1>2, <2>1 DEF OrderInv, NoneSkipped
      <4>2. QED
        BY <4>1 DEF OnItsWay
    <3>2. QED
      BY <1>1, <1>2, <2>1, <3>1 DEF NoneSkipped
  <2>5. QED
    BY <1>1, <2>1, <2>2, <2>3, <2>4 DEF OrderInv
<1>5. QED
    BY <1>3, <1>4

LEMMA OrderRecvMessage ==
    ASSUME TypeInv, OrderInv, RecvMessage PROVE OrderInv' /\ UNCHANGED taken
<1>1. UNCHANGED <<req, res, ack, reply, stream, hand, acked, taken>>
    BY DEF RecvMessage, chans, taken, TypeInv, TypeOK
<1>2. QED
    BY <1>1, OrderFrame DEF OrderInv, HandNext, ReplyLast

LEMMA OrderRecvDelivers ==
    ASSUME TypeInv, OrderInv, RecvDelivers PROVE OrderInv' /\ UNCHANGED taken
<1>1. UNCHANGED <<req, ack, reply, stream, hand, acked>>
    BY DEF RecvDelivers, counters
<1>2. UNCHANGED taken
    BY DEF RecvDelivers, taken, TypeInv, TypeOK, counters
<1>3. Delivered'
  <2>1. /\ taken \in Nat /\ responseCount = taken + Len(res) + 1
        /\ res \in Seq(Nat \ {0}) /\ res' = Append(res, responseCount)
    BY DEF RecvDelivers, taken, TypeInv, TypeOK, OrderInv, Delivered
  <2>2. /\ DOMAIN res' = 1..Len(res) + 1 /\ Len(res) \in Nat
        /\ \A i \in 1..Len(res) : i \in DOMAIN res /\ res'[i] = res[i]
        /\ res'[Len(res) + 1] = responseCount
    BY <2>1
  <2>3. ASSUME NEW i \in 1..Len(res) + 1 PROVE res'[i] = taken + i
    <3>1. CASE i = Len(res) + 1
      BY <2>1, <2>2, <3>1
    <3>2. CASE i \in 1..Len(res)
      BY <2>2, <3>2 DEF OrderInv, Delivered
    <3>3. QED
      BY <2>2, <3>1, <3>2
  <2>4. QED
    BY <1>2, <2>1, <2>2, <2>3 DEF Delivered
<1>4. QED
    BY <1>1, <1>2, <1>3
    DEF OrderInv, QueueBounds, QueueSorted, HandNext, ReplyLast, NoneSkipped, OnItsWay

-----------------------------------------------------------------------------
(* Every step implements a step of the ledger, or none.                      *)

LedgerStep == Ledger!Next \/ UNCHANGED Ledger!vars

\* A step that moves no response and no ACK, and does not signal Done.
LEMMA QuietStep ==
    ASSUME OrderInv, UNCHANGED <<req, res, acked, hand, reply, responseCount, taken>>,
           IsAck(hand) => stream' \in {"send", "sendError", "exited"},
           IsAck(reply) => ack' \in {"reply", "stopped"},
           UNCHANGED mode
    PROVE  OrderInv' /\ LedgerStep
<1>1. OrderInv'
    BY OrderFrame
<1>2. UNCHANGED Ledger!vars
    BY DEF Ledger!vars
<1>3. QED
    BY <1>1, <1>2 DEF LedgerStep

LEMMA LedgerAck == ASSUME TypeInv, OrderInv, AckNext PROVE OrderInv' /\ LedgerStep
<1>1. CASE AckSubscribes
  <2>1. /\ UNCHANGED <<res, acked, hand, reply, stream, responseCount, taken>>
        /\ UNCHANGED mode /\ req' = Append(req, Sub) /\ ~IsAck(reply)
    BY <1>1 DEF AckSubscribes, counters, taken, mode, OrderInv, ReplyLast
  <2>2. OrderInv'
    BY <2>1, OrderSent, RequestsType, RequestFacts
  <2>3. QED
    BY <2>1, <2>2 DEF LedgerStep, Ledger!vars
<1>2. CASE AckTakes
  <2>1. OrderInv'
    BY <1>2, OrderAckTakes
  <2>2. LedgerStep
    <3>1. CASE res = <<>> /\ res' = res
      <4>1. UNCHANGED <<responseCount, taken, acked, mode>>
        BY <1>2, <3>1 DEF AckTakes, taken, mode, counters
      <4>2. QED
        BY <4>1 DEF LedgerStep, Ledger!vars
    <3>2. CASE res # <<>> /\ res' = Tail(res)
      <4>1. /\ res \in Seq(Nat \ {0}) /\ taken \in Nat /\ responseCount \in Nat
            /\ Len(res') = Len(res) - 1 /\ Len(res) > 0
            /\ UNCHANGED <<responseCount, recv, acked>>
        BY <1>2, <3>2, HeadTail DEF AckTakes, counters, TypeInv, TypeOK, OrderInv, Delivered
      <4>2. taken' = taken + 1 /\ taken < responseCount
        BY <4>1 DEF taken
      <4>3. mode = "running" /\ mode' = "running"
        BY <1>2 DEF AckTakes, mode
      <4>4. Ledger!Take
        BY <4>1, <4>2, <4>3 DEF Ledger!Take
      <4>5. QED
        BY <4>4 DEF LedgerStep, Ledger!Next
    <3>3. QED
      BY <1>2, <3>1, <3>2 DEF AckTakes
  <2>3. QED
    BY <2>1, <2>2
<1>3. CASE AckReplies
  <2>1. /\ UNCHANGED <<res, acked, hand, stream, responseCount, taken>>
        /\ UNCHANGED mode /\ req' = Append(req, reply) /\ reply' = Nil
    BY <1>3 DEF AckReplies, counters, taken, mode
  <2>2. OrderInv'
    BY <2>1, OrderSent, RequestFacts DEF TypeInv, TypeOK
  <2>3. QED
    BY <2>1, <2>2 DEF LedgerStep, Ledger!vars
<1>4. CASE AckCloses
  <2>1. /\ UNCHANGED <<req, res, acked, hand, reply, responseCount, taken, stream>>
        /\ UNCHANGED mode /\ ack = "closing"
    BY <1>4 DEF AckCloses, counters, taken, mode
  <2>2. ~IsAck(reply) /\ (IsAck(hand) => stream' \in {"send", "sendError", "exited"})
    BY <2>1 DEF OrderInv, ReplyLast, HandNext
  <2>3. QED
    BY <2>1, <2>2, QuietStep
<1>5. QED
    BY <1>1, <1>2, <1>3, <1>4 DEF AckNext

LEMMA LedgerStream == ASSUME TypeInv, NilInv, OrderInv, StreamNext PROVE OrderInv' /\ LedgerStep
<1>1. CASE StreamStarts
  <2>1. UNCHANGED <<req, res, acked, hand, reply, responseCount, taken, mode>>
    BY <1>1 DEF StreamStarts, NilInv, Started, NotBegun, chans, counters, taken, mode
  <2>2. ~IsAck(hand) /\ (IsAck(reply) => ack' \in {"reply", "stopped"})
    BY <1>1 DEF StreamStarts, NilInv, Started, NotBegun, OrderInv, HandNext, ReplyLast
  <2>3. QED
    BY <2>1, <2>2, QuietStep
<1>2. CASE StreamTakes
  <2>1. UNCHANGED <<responseCount, taken, acked, mode>>
    BY <1>2 DEF StreamTakes, counters, taken, mode
  <2>2. QED
    BY <1>2, <2>1, OrderStreamTakes DEF LedgerStep, Ledger!vars
<1>3. CASE StreamReportsBadRequest
    BY <1>3, QuietStep
    DEF StreamReportsBadRequest, chans, counters, network, scenario, taken,
        mode, OrderInv, HandNext, ReplyLast, IsAck
<1>4. CASE StreamSends
  <2>1. /\ RequestCounted /\ UNCHANGED <<req, res, ack, reply, recv>>
    BY <1>4 DEF StreamSends, chans
  <2>2. /\ OrderInv' /\ UNCHANGED <<taken, mode, responseCount>>
        /\ acked' = acked \/ (acked < taken /\ acked' = acked + 1)
    BY <2>1, OrderCounted DEF mode, RequestCounted
  <2>3. QED
    BY <2>2 DEF LedgerStep, Ledger!Next, Ledger!Acknowledge, Ledger!vars
<1>5. CASE StreamFailsToSend
    BY <1>5, QuietStep
    DEF StreamFailsToSend, chans, counters, network, scenario, taken, mode,
        OrderInv, HandNext, ReplyLast, IsAck
<1>6. CASE StreamReportsSendError
  <2>1. /\ RequestCounted /\ UNCHANGED <<req, res, ack, reply, recv>>
    BY <1>6 DEF StreamReportsSendError, chans
  <2>2. /\ OrderInv' /\ UNCHANGED <<taken, mode, responseCount>>
        /\ acked' = acked \/ (acked < taken /\ acked' = acked + 1)
    BY <2>1, OrderCounted DEF mode, RequestCounted
  <2>3. QED
    BY <2>2 DEF LedgerStep, Ledger!Next, Ledger!Acknowledge, Ledger!vars
<1>7. CASE StreamClosesSend
    BY <1>7, QuietStep
    DEF StreamClosesSend, chans, counters, network, scenario, taken, mode,
        OrderInv, HandNext, ReplyLast, IsAck
<1>8. CASE StreamWaits
    BY <1>8, QuietStep
    DEF StreamWaits, chans, counters, network, scenario, taken, mode, OrderInv,
        HandNext, ReplyLast, IsAck
<1>9. CASE StreamClosesErr
    BY <1>9, QuietStep
    DEF StreamClosesErr, chans, counters, network, scenario, taken, mode,
        OrderInv, HandNext, ReplyLast, IsAck
<1>10. CASE StreamCancels
    BY <1>10, QuietStep
    DEF StreamCancels, chans, counters, network, scenario, taken, mode,
        OrderInv, HandNext, ReplyLast, IsAck
<1>11. QED
    BY <1>1, <1>2, <1>3, <1>4, <1>5, <1>6, <1>7, <1>8, <1>9, <1>10 DEF StreamNext

LEMMA LedgerRecv == ASSUME TypeInv, OrderInv, RecvNext PROVE OrderInv' /\ LedgerStep
<1>1. CASE RecvEnters
    BY <1>1, QuietStep
    DEF RecvEnters, chans, counters, network, scenario, taken, mode, OrderInv,
        HandNext, ReplyLast, IsAck
<1>2. CASE RecvMessage
  <2>1. responseCount' = responseCount + 1 /\ UNCHANGED <<acked, mode>>
    BY <1>2 DEF RecvMessage, counters, mode
  <2>2. QED
    BY <1>2, <2>1, OrderRecvMessage DEF LedgerStep, Ledger!Next, Ledger!Receive
<1>3. CASE RecvMalformed
    BY <1>3, QuietStep
    DEF RecvMalformed, chans, counters, network, scenario, taken, mode,
        OrderInv, HandNext, ReplyLast, IsAck
<1>4. CASE RecvDelivers
  <2>1. UNCHANGED <<responseCount, acked, mode>>
    BY <1>4 DEF RecvDelivers, counters, mode
  <2>2. QED
    BY <1>4, <2>1, OrderRecvDelivers DEF LedgerStep, Ledger!vars
<1>5. CASE RecvEOF
    BY <1>5, QuietStep
    DEF RecvEOF, chans, counters, network, scenario, taken, mode, OrderInv,
        HandNext, ReplyLast, IsAck
<1>6. CASE RecvFails
    BY <1>6, QuietStep
    DEF RecvFails, chans, counters, network, scenario, taken, mode, OrderInv,
        HandNext, ReplyLast, IsAck
<1>7. CASE RecvReportsError
    BY <1>7, QuietStep
    DEF RecvReportsError, chans, counters, network, scenario, taken, mode,
        OrderInv, HandNext, ReplyLast, IsAck
<1>8. CASE RecvPanics
  <2>1. /\ UNCHANGED <<req, res, acked, hand, reply, responseCount, taken>>
        /\ stream' = "exited" /\ ack' = "stopped" /\ mode' = "stopped"
    BY <1>8 DEF RecvPanics, chans, counters, taken, mode
  <2>2. OrderInv'
    BY <2>1, OrderFrame DEF OrderInv, HandNext, ReplyLast
  <2>3. QED
    BY <2>1, <2>2 DEF LedgerStep, Ledger!Next, Ledger!Stop
<1>9. QED
    BY <1>1, <1>2, <1>3, <1>4, <1>5, <1>6, <1>7, <1>8 DEF RecvNext

LEMMA LedgerTarget == ASSUME TypeInv, OrderInv, TargetNext PROVE OrderInv' /\ LedgerStep
<1>1. CASE TargetResponds
    BY <1>1, QuietStep
    DEF TargetResponds, chans, counters, network, scenario, taken, mode,
        OrderInv, HandNext, ReplyLast, IsAck
<1>2. CASE TargetEnds
    BY <1>2, QuietStep
    DEF TargetEnds, chans, counters, network, scenario, taken, mode, OrderInv,
        HandNext, ReplyLast, IsAck
<1>3. CASE LinkBreaks
    BY <1>3, QuietStep
    DEF LinkBreaks, chans, counters, network, scenario, taken, mode, OrderInv,
        HandNext, ReplyLast, IsAck
<1>4. QED
    BY <1>1, <1>2, <1>3 DEF TargetNext

LEMMA LedgerStepNext == ASSUME TypeInv, NilInv, OrderInv, StepNext PROVE OrderInv' /\ LedgerStep
<1>1. CASE StepSubscribes
  <2>1. UNCHANGED <<req, res, acked, hand, reply, responseCount, taken, mode>>
    BY <1>1 DEF StepSubscribes, NilInv, Started, NotBegun, chans, counters, taken, mode
  <2>2. ~IsAck(hand) /\ ~IsAck(reply)
    BY <1>1 DEF StepSubscribes, NilInv, Started, NotBegun, OrderInv, HandNext, ReplyLast
  <2>3. QED
    BY <2>1, <2>2, QuietStep
<1>2. CASE StepFailsToSubscribe
    BY <1>2, QuietStep
    DEF StepFailsToSubscribe, chans, counters, network, scenario, taken, mode,
        OrderInv, HandNext, ReplyLast, IsAck
<1>3. CASE StepDecidesToPush
    BY <1>3, QuietStep
    DEF StepDecidesToPush, chans, counters, network, scenario, taken, mode,
        OrderInv, HandNext, ReplyLast, IsAck
<1>4. CASE StepPushes
  <2>1. /\ UNCHANGED <<res, acked, hand, stream, responseCount, taken, mode>>
        /\ UNCHANGED <<reply, ack>> /\ req' = Append(req, Sub)
    BY <1>4 DEF StepPushes, counters, taken, mode
  <2>2. OrderInv'
    BY <2>1, OrderSent, RequestsType, RequestFacts
  <2>3. QED
    BY <2>1, <2>2 DEF LedgerStep, Ledger!vars
<1>5. CASE StepStartsTimer
    BY <1>5, QuietStep
    DEF StepStartsTimer, chans, counters, network, scenario, taken, mode,
        OrderInv, HandNext, ReplyLast, IsAck
<1>6. CASE StepTimerFires
    BY <1>6, QuietStep
    DEF StepTimerFires, chans, counters, network, scenario, taken, mode,
        OrderInv, HandNext, ReplyLast, IsAck
<1>7. CASE StepReadsErr
    BY <1>7, QuietStep
    DEF StepReadsErr, chans, counters, network, scenario, taken, mode,
        OrderInv, HandNext, ReplyLast, IsAck
<1>8. CASE StepEndsScenario
    BY <1>8, QuietStep
    DEF StepEndsScenario, chans, counters, network, scenario, taken, mode,
        OrderInv, HandNext, ReplyLast, IsAck
<1>9. CASE StepReachesFinalCheck
    BY <1>9, QuietStep
    DEF StepReachesFinalCheck, chans, counters, network, scenario, taken, mode,
        OrderInv, HandNext, ReplyLast, IsAck
<1>10. CASE SignalDone
  <2>1. /\ UNCHANGED <<req, res, acked, hand, reply, responseCount, taken, stream>>
        /\ ack = "select" /\ mode' = "stopped"
    BY <1>10 DEF SignalDone, chans, counters, taken, mode
  <2>2. OrderInv'
    BY <2>1, OrderFrame DEF OrderInv, HandNext, ReplyLast
  <2>3. QED
    BY <2>1, <2>2 DEF LedgerStep, Ledger!Next, Ledger!Stop
<1>11. CASE StepJudges
    BY <1>11, QuietStep
    DEF StepJudges, chans, counters, network, scenario, taken, mode, OrderInv,
        HandNext, ReplyLast, IsAck
<1>12. QED
    BY <1>1, <1>2, <1>3, <1>4, <1>5, <1>6, <1>7, <1>8, <1>9, <1>10, <1>11 DEF StepNext

LEMMA LedgerNext ==
    TypeInv /\ NilInv /\ OrderInv /\ [Next]_vars => OrderInv' /\ [Ledger!Next]_(Ledger!vars)
<1> SUFFICES ASSUME TypeInv, NilInv, OrderInv, [Next]_vars
             PROVE  OrderInv' /\ [Ledger!Next]_(Ledger!vars)
    OBVIOUS
<1>1. CASE UNCHANGED vars
  <2>1. UNCHANGED <<req, res, acked, hand, reply, responseCount, taken, mode, stream, ack>>
    BY <1>1 DEF vars, chans, counters, taken, mode
  <2>2. OrderInv' /\ LedgerStep
    BY <2>1, QuietStep DEF OrderInv, HandNext, ReplyLast
  <2>3. QED
    BY <2>2 DEF LedgerStep
<1>2. CASE Next
  <2>1. OrderInv' /\ LedgerStep
    BY <1>2, LedgerAck, LedgerStream, LedgerRecv, LedgerTarget, LedgerStepNext DEF Next
  <2>2. QED
    BY <2>1 DEF LedgerStep
<1>3. QED
    BY <1>1, <1>2

\* The stream of the harness implements the ledger: AckLedger!Spec, under the
\* mapping of module XdsStream.
THEOREM LedgerRefined == Spec => LedgerSpec
<1>1. Init => Ledger!Init
  <2>1. ASSUME Init PROVE responseCount = 0 /\ acked = 0 /\ taken = 0 /\ mode = "running"
    <3>1. responseCount = 0 /\ acked = 0 /\ Len(res) = 0 /\ recv = "off" /\ ack = "off"
      BY <2>1 DEF Init
    <3>2. QED
      BY <3>1 DEF taken, mode
  <2>2. QED
    BY <2>1 DEF Ledger!Init
<1>2. QED
    BY <1>1, TypeInit, NilInit, OrderInit, TypeNext, NilNext, LedgerNext, PTL
    DEF Spec, LedgerSpec, Ledger!Spec

-----------------------------------------------------------------------------
(* Counting.  OrderInv gives every response that is taken and not yet ACKed  *)
(* its place, so the places are as many as the responses.                    *)

QueuedAcks == {i \in DOMAIN req : IsAck(req[i])}
QueuedNonces == {req[i].n : i \in QueuedAcks}
HandNonces  == IF IsAck(hand) THEN {hand.n} ELSE {}
ReplyNonces == IF IsAck(reply) THEN {reply.n} ELSE {}

\* No two ACKs in Req are for the same response.
LEMMA QueuedCount ==
    ASSUME TypeInv, OrderInv
    PROVE  /\ IsFiniteSet(QueuedNonces)
           /\ Cardinality(QueuedNonces) = OnTheWay(req)
           /\ OnTheWay(req) \in Nat
<1> DEFINE f == [i \in QueuedAcks |-> req[i].n]
<1>1. /\ \A i \in QueuedAcks : i \in Nat /\ i \in DOMAIN req /\ req[i].n \in Nat
      /\ QueuedAcks \subseteq 1..Len(req) /\ Len(req) \in Nat
    BY RequestFacts DEF TypeInv, TypeOK, QueuedAcks
<1>2. IsFiniteSet(QueuedAcks)
  <2>1. IsFiniteSet(1..Len(req))
    BY <1>1, FS_Interval
  <2>2. QED
    BY <1>1, <2>1, FS_Subset
<1>3. f \in Bijection(QueuedAcks, QueuedNonces)
  <2>1. ASSUME NEW i \in QueuedAcks, NEW j \in QueuedAcks, f[i] = f[j] PROVE i = j
    <3>1. req[i].n = req[j].n
      BY <2>1
    <3>2. i < j \/ j < i \/ i = j
      BY <1>1
    <3>3. ~(i < j) /\ ~(j < i)
      BY <1>1, <3>1 DEF OrderInv, QueueSorted, QueuedAcks
    <3>4. QED
      BY <3>2, <3>3
  <2>2. f \in [QueuedAcks -> QueuedNonces]
    BY DEF QueuedNonces
  <2>3. \A n \in QueuedNonces : \E i \in QueuedAcks : f[i] = n
    BY DEF QueuedNonces
  <2>4. QED
    BY <2>1, <2>2, <2>3 DEF Bijection, Injection, Surjection, IsInjective
<1>4. ExistsBijection(QueuedAcks, QueuedNonces)
    BY <1>3 DEF ExistsBijection
<1>5. OnTheWay(req) = Cardinality(QueuedAcks)
    BY DEF OnTheWay, QueuedAcks, IsAck
<1>6. QED
    BY <1>2, <1>4, <1>5, FS_Bijection, FS_CardinalityType

\* The responses that are taken and not yet ACKed are those whose ACK is on its way.
LEMMA NoncesOnTheWay ==
    ASSUME TypeInv, OrderInv
    PROVE  /\ acked + 1..taken = (QueuedNonces \union HandNonces) \union ReplyNonces
           /\ IsAck(hand) => hand.n \notin QueuedNonces
           /\ IsAck(reply) => reply.n \notin QueuedNonces \union HandNonces
<1>1. acked \in Nat /\ taken \in Nat /\ \A i \in DOMAIN req : IsAck(req[i]) => req[i].n \in Nat
    BY RequestFacts DEF TypeInv, TypeOK, OrderInv, Delivered
<1>2. ASSUME NEW n \in acked + 1..taken
      PROVE  n \in (QueuedNonces \union HandNonces) \union ReplyNonces
  <2>1. OnItsWay(n)
    BY DEF OrderInv, NoneSkipped
  <2>2. QED
    BY <2>1 DEF OnItsWay, QueuedNonces, QueuedAcks, HandNonces, ReplyNonces
<1>3. ASSUME NEW n \in QueuedNonces PROVE n \in acked + 1..taken
    BY <1>1 DEF OrderInv, QueueBounds, QueuedNonces, QueuedAcks
<1>4. ASSUME NEW n \in HandNonces PROVE n \in acked + 1..taken
    BY <1>1 DEF OrderInv, HandNext, HandNonces
<1>5. ASSUME NEW n \in ReplyNonces PROVE n \in acked + 1..taken
    BY <1>1 DEF OrderInv, ReplyLast, ReplyNonces
<1>6. IsAck(hand) => hand.n \notin QueuedNonces
    BY <1>1 DEF OrderInv, HandNext, QueuedNonces, QueuedAcks
<1>7. IsAck(reply) => reply.n \notin QueuedNonces
    BY <1>1 DEF OrderInv, ReplyLast, QueuedNonces, QueuedAcks
<1>8. IsAck(reply) => reply.n \notin HandNonces
    BY <1>1 DEF OrderInv, ReplyLast, HandNext, HandNonces
<1>9. QED
    BY <1>2, <1>3, <1>4, <1>5, <1>6, <1>7, <1>8

\* One element more in a set, or none.
One(b) == IF b THEN 1 ELSE 0

LEMMA CountOne ==
    ASSUME NEW S, IsFiniteSet(S), NEW x, NEW b \in BOOLEAN, b => x \notin S
    PROVE  LET T == S \union (IF b THEN {x} ELSE {})
           IN  IsFiniteSet(T) /\ Cardinality(T) = Cardinality(S) + One(b)
<1>1. CASE b
    BY <1>1, FS_AddElement DEF One
<1>2. CASE ~b
  <2>1. S \union (IF b THEN {x} ELSE {}) = S
    BY <1>2
  <2>2. QED
    BY <1>2, <2>1, FS_CardinalityType DEF One
<1>3. QED
    BY <1>1, <1>2

LEMMA AccountsHold == TypeInv /\ OrderInv => AcksAccounted
<1> SUFFICES ASSUME TypeInv, OrderInv PROVE AcksAccounted
    OBVIOUS
<1> DEFINE QH  == QueuedNonces \union HandNonces
           All == QH \union ReplyNonces
<1>1. /\ IsFiniteSet(QueuedNonces)
      /\ Cardinality(QueuedNonces) = OnTheWay(req)
      /\ OnTheWay(req) \in Nat
    BY QueuedCount
<1>2. IsFiniteSet(QH) /\ Cardinality(QH) = OnTheWay(req) + One(IsAck(hand))
  <2>1. IsAck(hand) \in BOOLEAN /\ (IsAck(hand) => hand.n \notin QueuedNonces)
    BY NoncesOnTheWay DEF IsAck
  <2>2. QED
    BY <1>1, <2>1, CountOne DEF HandNonces
<1>3. Cardinality(All) = OnTheWay(req) + One(IsAck(hand)) + One(IsAck(reply))
  <2>1. IsAck(reply) \in BOOLEAN /\ (IsAck(reply) => reply.n \notin QH)
    BY NoncesOnTheWay DEF IsAck
  <2>2. QED
    BY <1>2, <2>1, CountOne DEF ReplyNonces
<1>4. /\ acked \in Nat /\ taken \in Nat /\ acked <= taken
      /\ responseCount \in Nat /\ Len(res) \in Nat
    BY DEF TypeInv, TypeOK, OrderInv, Delivered, NoneSkipped
<1>5. Cardinality(acked + 1..taken) = taken - acked
  <2>1. acked + 1 \in Int /\ taken \in Int
    BY <1>4
  <2>2. Cardinality(acked + 1..taken) = IF acked + 1 > taken THEN 0 ELSE taken - (acked + 1) + 1
    BY <2>1, FS_Interval
  <2>3. QED
    BY <1>4, <2>2
<1>6. taken - acked = OnTheWay(req) + One(IsAck(hand)) + One(IsAck(reply))
    BY <1>3, <1>5, NoncesOnTheWay
<1> HIDE DEF QH, All
<1>7. responseCount - acked = Len(res) + OnTheWay(req) + One(recv = "deliver")
                                + One(IsAck(reply)) + One(IsAck(hand))
    BY <1>1, <1>4, <1>6 DEF taken, One
<1>8. QED
    BY <1>7 DEF AcksAccounted, IsAck, One

\* While the stream is open every response received is ACKed, in Res, in the
\* receive loop's, Ack's or Stream's hand, or an ACK in Req: none is lost on the
\* way, and none is on it twice.
THEOREM AcksAccountedHolds == Spec => []AcksAccounted
BY TypeInit, NilInit, OrderInit, TypeNext, NilNext, LedgerNext, AccountsHold, PTL DEF Spec

-----------------------------------------------------------------------------
(* The final check of a scenario.                                           *)

\* The stream is closed by the harness alone.
Undisturbed == Prompt /\ Faults \subseteq {"malformed"}

(* The stream stays open until Done has shut Ack and Req is drained; so the  *)
(* closed Res yields no nil that Ack takes, and Stream never returns.        *)

Open ==
    /\ stream \in {"off", "start", "range", "send", "wait"}
    /\ link = "none" => stream = "off"
    /\ stream \in {"start", "range", "send"} => link = "open"
    /\ stream = "off" => link = "none"
    /\ stream = "wait" => req = <<>> /\ ack = "stopped"
    /\ ack = "stopped" => "Req" \in closed
    /\ IsAck(reply) => ack = "reply"
    /\ step = "sleep" => ack \in {"closing", "stopped"}
    /\ step = "begin" => subs = 0
    /\ result = "tooMany" => step = "over" /\ subs <= ResCap + 1

(* Every subscription asked for and every response taken makes one request,  *)
(* which has been counted or is on its way to be.                            *)

Counted ==
    subs + taken = requestCount + Len(req) + One(stream = "send")
                     + One(ack \in {"first", "reply"}) + One(step = "push")

JudgeInv == Open /\ Counted

\* No nil request is on its way to a stream that Ack still writes to.
LEMMA NoNilWhileOpen ==
    ASSUME NilInv, Open, stream # "wait"
    PROVE  "Res" \notin closed /\ ~NilIn(req)
BY DEF NilInv, ResShut, NilInReq, Started, Open

LEMMA JudgeInit == Init => JudgeInv
<1> SUFFICES ASSUME Init PROVE JudgeInv
    OBVIOUS
<1>1. Open
  <2>1. stream = "off" /\ link = "none" /\ ack = "off" /\ step = "begin"
        /\ subs = 0 /\ result = "none" /\ ~IsAck(reply)
    BY RequestFacts DEF Init
  <2>2. QED
    BY <2>1 DEF Open
<1>2. Len(req) = 0 /\ taken = 0
  <2>1. responseCount = 0 /\ Len(res) = 0 /\ Len(req) = 0 /\ recv = "off"
    BY DEF Init
  <2>2. QED
    BY <2>1 DEF taken
<1>3. subs = 0 /\ requestCount = 0 /\ stream = "off" /\ ack = "off" /\ step = "begin"
    BY DEF Init
<1>4. QED
    BY <1>1, <1>2, <1>3 DEF JudgeInv, Counted, One

-----------------------------------------------------------------------------
(* Goroutine by goroutine.                                                  *)

\* The response that Ack takes becomes the reply in its hand.
LEMMA JudgeAckTakes == ASSUME TypeInv, NilInv, JudgeInv, AckTakes PROVE JudgeInv'
<1>1. res # <<>> /\ res' = Tail(res)
    BY NoNilWhileOpen DEF AckTakes, JudgeInv, Open
<1>2. Len(res') = Len(res) - 1 /\ Len(res) \in Nat
    BY <1>1 DEF TypeInv, TypeOK
<1>3. ack = "select" /\ ack' = "reply"
      /\ UNCHANGED <<req, closed, stream, link, step, subs, result, recv,
                     requestCount, responseCount>>
    BY DEF AckTakes, counters, network, scenario
<1>4. taken' = taken + 1 /\ taken \in Int
    BY <1>2, <1>3 DEF taken, TypeInv, TypeOK
<1>5. Open'
    BY <1>3 DEF JudgeInv, Open
<1>6. Counted'
  <2>1. One(ack \in {"first", "reply"}) = 0 /\ One(ack' \in {"first", "reply"}) = 1
    BY <1>3 DEF One
  <2>2. UNCHANGED <<subs, requestCount, Len(req), One(stream = "send"), One(step = "push")>>
    BY <1>3
  <2>3. /\ subs \in Nat /\ requestCount \in Nat /\ Len(req) \in Nat
        /\ One(stream = "send") \in Nat /\ One(step = "push") \in Nat
    BY DEF TypeInv, TypeOK, One
  <2>4. QED
    BY <1>4, <2>1, <2>2, <2>3 DEF JudgeInv, Counted
<1>7. QED
    BY <1>5, <1>6 DEF JudgeInv

LEMMA JudgeAck == ASSUME TypeInv, NilInv, ShutInv, JudgeInv, AckNext PROVE JudgeInv'
<1> USE DEF JudgeInv, Open, Counted, TypeInv, TypeOK, chans, counters, network, scenario,
            taken, One
<1>1. CASE AckSubscribes
    BY <1>1 DEF AckSubscribes
<1>2. CASE AckTakes
    BY <1>2, JudgeAckTakes
<1>3. CASE AckReplies
    BY <1>3, RequestFacts DEF AckReplies
<1>4. CASE AckCloses
    BY <1>4 DEF AckCloses
<1>5. QED
    BY <1>1, <1>2, <1>3, <1>4 DEF AckNext

LEMMA JudgeStream == ASSUME TypeInv, NilInv, ShutInv, JudgeInv, StreamNext PROVE JudgeInv'
<1> USE DEF JudgeInv, Open, Counted, TypeInv, TypeOK, chans, counters, network, scenario,
            taken, One
<1>1. CASE StreamStarts
    BY <1>1 DEF StreamStarts, NilInv, Started
<1>2. CASE StreamTakes
  <2>1. Head(req) # Nil
    BY <1>2, NoNilWhileOpen, NilReceived DEF StreamTakes
  <2>2. Len(req') = Len(req) - 1 /\ Len(req) \in Nat
    BY <1>2 DEF StreamTakes
  <2>3. QED
    BY <1>2, <2>1, <2>2 DEF StreamTakes
<1>3. CASE StreamSends
    BY <1>3 DEF StreamSends, RequestCounted
<1>4. CASE StreamClosesSend
    BY <1>4 DEF StreamClosesSend, ShutInv, ReqShut
<1>5. ~StreamReportsBadRequest /\ ~StreamFailsToSend /\ ~StreamReportsSendError
      /\ ~StreamWaits /\ ~StreamClosesErr /\ ~StreamCancels
    BY DEF StreamReportsBadRequest, StreamFailsToSend, StreamReportsSendError, StreamWaits,
           StreamClosesErr, StreamCancels, ShutInv, Held
<1>6. QED
    BY <1>1, <1>2, <1>3, <1>4, <1>5 DEF StreamNext

LEMMA JudgeRecv == ASSUME TypeInv, ShutInv, JudgeInv, RecvNext PROVE JudgeInv'
<1> USE DEF JudgeInv, Open, Counted, TypeInv, TypeOK, chans, counters, network, scenario,
            taken, One
<1>1. CASE RecvEnters
    BY <1>1 DEF RecvEnters
<1>2. CASE RecvMessage
    BY <1>2 DEF RecvMessage
<1>3. CASE RecvMalformed
    BY <1>3 DEF RecvMalformed
<1>4. CASE RecvDelivers
    BY <1>4 DEF RecvDelivers
<1>5. CASE RecvEOF
    BY <1>5 DEF RecvEOF
<1>6. CASE RecvFails \/ RecvReportsError
    BY <1>6 DEF RecvFails, RecvReportsError
<1>7. ~RecvPanics
    BY DEF RecvPanics, ShutInv, ErrShut
<1>8. QED
    BY <1>1, <1>2, <1>3, <1>4, <1>5, <1>6, <1>7 DEF RecvNext

LEMMA JudgeTarget ==
    ASSUME Undisturbed, TypeInv, JudgeInv, TargetNext
    PROVE  JudgeInv'
<1> USE DEF JudgeInv, Open, Counted, TypeInv, TypeOK, chans, counters, network, scenario,
            taken, One
<1>1. CASE TargetResponds
    BY <1>1 DEF TargetResponds
<1>2. CASE TargetEnds
    BY <1>2 DEF TargetEnds, Undisturbed, Links
<1>3. ~LinkBreaks
    BY DEF LinkBreaks, Undisturbed
<1>4. QED
    BY <1>1, <1>2, <1>3 DEF TargetNext

\* At the final check's end Ack has stopped and Stream has drained Req: nothing
\* is on its way, so every response taken was ACKed and every request counted.
LEMMA SettledAtJudgement ==
    ASSUME Prompt, TypeInv, ShutInv, JudgeInv, step = "sleep", TimerFires
    PROVE  /\ ack = "stopped" /\ req = <<>> /\ stream \in {"range", "wait"}
           /\ requestCount = subs + taken /\ taken >= responseCount - ResCap - 1
<1>1. Settled
    BY DEF TimerFires
<1>2. ack = "stopped"
    BY <1>1 DEF Settled, AckSettled, JudgeInv, Open
<1>3. stream \in {"range", "wait"} /\ req = <<>>
    BY <1>1, <1>2 DEF Settled, StreamSettled, JudgeInv, Open, ShutInv, Running
<1>4. Len(req) = 0
    BY <1>3
<1>5. One(stream = "send") = 0 /\ One(ack \in {"first", "reply"}) = 0 /\ One(step = "push") = 0
    BY <1>2, <1>3 DEF One
<1>6. taken \in Int /\ subs \in Nat /\ requestCount \in Nat
    BY TakenType DEF TypeInv, TypeOK
<1>7. requestCount = subs + taken
    BY <1>4, <1>5, <1>6 DEF JudgeInv, Counted
<1>8. taken >= responseCount - ResCap - 1
    BY CapAssumption DEF taken, TypeInv, TypeOK
<1>9. QED
    BY <1>2, <1>3, <1>7, <1>8

LEMMA JudgeStep ==
    ASSUME Undisturbed, TypeInv, NilInv, ShutInv, JudgeInv, StepNext
    PROVE  JudgeInv'
<1> USE DEF JudgeInv, Open, Counted, TypeInv, TypeOK, chans, counters, network, scenario,
            taken, One
<1>1. CASE StepSubscribes
    BY <1>1 DEF StepSubscribes, NilInv, NotBegun
<1>2. CASE StepFailsToSubscribe
    BY <1>2 DEF StepFailsToSubscribe
<1>3. CASE StepDecidesToPush
    BY <1>3 DEF StepDecidesToPush
<1>4. CASE StepPushes
    BY <1>4 DEF StepPushes, ShutInv, Stopping
<1>5. CASE StepStartsTimer
    BY <1>5 DEF StepStartsTimer
<1>6. CASE StepTimerFires
    BY <1>6 DEF StepTimerFires
<1>7. CASE StepReadsErr
    BY <1>7 DEF StepReadsErr
<1>8. CASE StepEndsScenario
    BY <1>8 DEF StepEndsScenario
<1>9. CASE StepReachesFinalCheck
    BY <1>9 DEF StepReachesFinalCheck
<1>10. CASE SignalDone
    BY <1>10 DEF SignalDone
<1>11. CASE StepJudges
  <2>1. result' = "tooMany" => subs <= ResCap + 1
    <3>1. requestCount = subs + taken /\ taken >= responseCount - ResCap - 1
      BY <1>11, SettledAtJudgement DEF StepJudges, Undisturbed
    <3>2. result' = "tooMany" => requestCount <= responseCount
      BY <1>11 DEF StepJudges
    <3> HIDE DEF taken
    <3>3. taken \in Int /\ ResCap \in Nat
      BY TakenType, CapAssumption
    <3>4. QED
      BY <3>1, <3>2, <3>3
  <2>2. step = "sleep" /\ step' = "over" /\ subs' = subs
    BY <1>11 DEF StepJudges
  <2>3. QED
    BY <1>11, <2>1, <2>2 DEF StepJudges
<1>12. QED
    BY <1>1, <1>2, <1>3, <1>4, <1>5, <1>6, <1>7, <1>8, <1>9, <1>10, <1>11 DEF StepNext

LEMMA JudgeNext ==
    ASSUME Undisturbed
    PROVE  TypeInv /\ NilInv /\ ShutInv /\ JudgeInv /\ [Next]_vars => JudgeInv'
<1>1. ASSUME JudgeInv, UNCHANGED vars PROVE JudgeInv'
    BY <1>1 DEF JudgeInv, Open, Counted, taken, vars, chans, counters, network, scenario
<1>2. QED
    BY <1>1, JudgeAck, JudgeStream, JudgeRecv, JudgeTarget, JudgeStep DEF Next

LEMMA JudgeInvariant ==
    ASSUME Undisturbed
    PROVE  Spec => [](TypeInv /\ NilInv /\ ShutInv /\ OrderInv /\ JudgeInv)
<1>1. Prompt
    BY DEF Undisturbed
<1>2. TypeInv /\ NilInv /\ ShutInv /\ JudgeInv /\ [Next]_vars => JudgeInv'
    BY JudgeNext
<1>3. Spec => [](TypeInv /\ NilInv /\ ShutInv)
    BY <1>1, ShutInvariant
<1>4. QED
    BY <1>2, <1>3, OrderInit, LedgerNext, JudgeInit, PTL DEF Spec

-----------------------------------------------------------------------------
\* The final check (steps.go, TheServiceNeverRespondsMoreThanNecessary) finds no
\* response too many in a scenario that subscribed more than ResCap + 1 times,
\* since Ack, once stopped, leaves at most so many responses without an ACK.
THEOREM JudgeBlindHolds == ASSUME Undisturbed PROVE Spec => []JudgeBlind
<1>1. JudgeInv => JudgeBlind
    BY DEF JudgeInv, Open, JudgeBlind
<1>2. QED
    BY <1>1, JudgeInvariant, PTL

\* It compares the counters of all requests and all responses; what it decides is
\* whether as many responses as there were subscriptions have not been ACKed.
THEOREM JudgeExactHolds == ASSUME Undisturbed PROVE Spec => JudgeExact
<1>1. ASSUME TypeInv, ShutInv, OrderInv, JudgeInv, StepJudges
      PROVE  result' = "tooMany" <=> responseCount - acked >= subs
  <2>1. requestCount = subs + taken /\ ack = "stopped" /\ req = <<>> /\ stream \in {"range", "wait"}
    BY <1>1, SettledAtJudgement DEF StepJudges, Undisturbed
  <2>2. taken \in Int /\ acked \in Nat /\ subs \in Nat /\ responseCount \in Nat
    BY <1>1, TakenType DEF TypeInv, TypeOK
  <2>3. acked = taken
    <3>1. ~IsAck(hand) /\ ~IsAck(reply)
      BY <1>1, <2>1 DEF OrderInv, HandNext, JudgeInv, Open
    <3>2. \A n : ~OnItsWay(n)
      BY <2>1, <3>1 DEF OnItsWay
    <3>3. acked <= taken /\ (acked < taken => OnItsWay(acked + 1))
      BY <1>1, <2>2 DEF OrderInv, NoneSkipped
    <3>4. QED
      BY <2>2, <3>2, <3>3
  <2>4. result' = "tooMany" <=> requestCount <= responseCount
    BY <1>1 DEF StepJudges
  <2>5. QED
    BY <2>1, <2>2, <2>3, <2>4
<1>2. ASSUME [Next]_vars, step = "sleep", step' = "over" PROVE StepJudges
  <2>1. StepNext
    <3>1. step' # step
      BY <1>2
    <3>2. QED
      BY <1>2, <3>1
      DEF Next, AckNext, StreamNext, RecvNext, TargetNext, vars, scenario, AckSubscribes,
          AckTakes, AckReplies, AckCloses, StreamStarts, StreamTakes, StreamReportsBadRequest,
          StreamSends, StreamFailsToSend, StreamReportsSendError, StreamClosesSend, StreamWaits,
          StreamClosesErr, StreamCancels, RecvEnters, RecvMessage, RecvMalformed, RecvDelivers,
          RecvEOF, RecvFails, RecvReportsError, RecvPanics, TargetResponds, TargetEnds, LinkBreaks
  <2>2. QED
    BY <1>2, <2>1
    DEF StepNext, StepSubscribes, StepFailsToSubscribe, StepDecidesToPush, StepPushes,
        StepStartsTimer, StepTimerFires, StepReadsErr, StepEndsScenario, StepReachesFinalCheck,
        SignalDone
<1>3. TypeInv /\ ShutInv /\ OrderInv /\ JudgeInv /\ [Next]_vars =>
        [step = "sleep" /\ step' = "over" =>
           (result' = "tooMany" <=> responseCount - acked >= subs)]_vars
    BY <1>1, <1>2
<1>4. QED
    BY <1>3, JudgeInvariant, PTL DEF Spec, JudgeExact
=============================================================================
