---------------------------- MODULE Expectations ----------------------------
(***************************************************************************)
(* What the steps of a scenario expect of a conformant target, read from   *)
(* the text of the scenario alone: which resources the steps before have   *)
(* put into the target's snapshot or taken out of it, under which version, *)
(* and which they have asked for.  A scenario that expects no more than    *)
(* this is one that a conformant target must pass.                         *)
(***************************************************************************)
EXTENDS Conversation

-----------------------------------------------------------------------------
(* What a step does to resource n of type t.                                *)

\* puts it into the target's snapshot, or takes it out
Puts(e, t, n) ==
    /\ \/ e.op = "setup" /\ t \in e.types
       \/ e.op \in {"add", "update"} /\ e.type = t
    /\ n \in e.names
Takes(e, t, n) == e.op = "remove" /\ e.type = t /\ n \in e.names

\* gives the type a version: which one a removal gives depends on the record
Gives(e, t) ==
    \/ e.op = "setup" /\ t \in e.types
    \/ e.op \in {"add", "update", "remove"} /\ e.type = t
GivesAs(e, t, v) == Gives(e, t) /\ (e.op = "remove" \/ e.version = v)

\* subscribes to the type, to the resource, or unsubscribes from it
Resets(e, t) == e.op = "subscribe" /\ e.type = t
Covers(s, e, t, n) ==
    Resets(e, t) /\ n \in (IF s.incremental THEN e.names ELSE Wanted(e.names))
Drops(e, t, n) == e.op = "unsubscribe" /\ e.type = t /\ n \in e.names

\* gives a conformant target a reason to send it
Tells(s, e, t, n) == Puts(e, t, n) \/ Covers(s, e, t, n)

-----------------------------------------------------------------------------
(* Where a scenario does so.                                                *)

PutAt(s, t, n)     == {i \in 1..Len(s.steps) : Puts(s.steps[i], t, n)}
TakenAt(s, t, n)   == {i \in 1..Len(s.steps) : Takes(s.steps[i], t, n)}
GivenAt(s, t)      == {i \in 1..Len(s.steps) : Gives(s.steps[i], t)}
GivenAs(s, t, v)   == {i \in 1..Len(s.steps) : GivesAs(s.steps[i], t, v)}
CoveredAt(s, t, n) == {i \in 1..Len(s.steps) : Covers(s, s.steps[i], t, n)}
LostAt(s, t, n)    == {i \in 1..Len(s.steps) :
                          Resets(s.steps[i], t) \/ Drops(s.steps[i], t, n)}
DroppedAt(s, t, n) == {i \in 1..Len(s.steps) : Drops(s.steps[i], t, n)}
ToldAt(s, t, n)    == {i \in 1..Len(s.steps) : Tells(s, s.steps[i], t, n)}

-----------------------------------------------------------------------------
(* What the first k steps of a scenario come to.                            *)

\* some place up to k is in made, and none after it is in undone
Stands(k, made, undone) ==
    \E i \in made : i <= k /\ \A j \in undone : j <= k => j <= i

Present(s, k, t, n)  == Stands(k, PutAt(s, t, n), TakenAt(s, t, n))
NeverPut(s, k, t, n) == \A i \in PutAt(s, t, n) : ~(i <= k)
Absent(s, k, t, n)   == NeverPut(s, k, t, n) \/ Stands(k, TakenAt(s, t, n), PutAt(s, t, n))

\* the subscription made last to its type names it; it was given up last
Covered(s, k, t, n) == Stands(k, CoveredAt(s, t, n), LostAt(s, t, n))
Dropped(s, k, t, n) == Stands(k, DroppedAt(s, t, n), CoveredAt(s, t, n))

\* n may have been sent at version v since it was last put, and at no other
Recorded(s, k, t, n, v) == Stands(k, GivenAs(s, t, v), PutAt(s, t, n))
Certain(s, k, t, n, v) ==
    \A i \in GivenAt(s, t) :
        i <= k /\ (\A j \in PutAt(s, t, n) : j <= k => j <= i)
            => s.steps[i].op # "remove" /\ s.steps[i].version = v

\* n has been put by a call since the last reason to send m
Later(s, k, t, n, m) ==
    \E i \in PutAt(s, t, n) : i <= k /\ \A j \in ToldAt(s, t, m) : j <= k => j < i

\* A timed step has waited for the answer to a subscription, and since then
\* steps have done nothing but judge.
Rested(s, k) ==
    \E i, j \in 1..k :
        /\ i < j /\ s.steps[i].op = "subscribe" /\ s.steps[j].op \in TimedOps
        /\ \A h \in j..k : s.steps[h].op \in JudgingOps

-----------------------------------------------------------------------------
(* What a step may expect after k others.                                   *)

\* In a response that holds all of its type, n comes at the version of any m.
DueToArrive(s, k, t, n, v) ==
    /\ Covered(s, k, t, n) /\ Present(s, k, t, n)
    /\ \/ Certain(s, k, t, n, v)
       \/ /\ ~s.incremental /\ t \in Whole
          /\ \E m \in Names : /\ Covered(s, k, t, m) /\ Present(s, k, t, m)
                             /\ Certain(s, k, t, m, v)

ExpectsReceipt(s, k, e) == \A n \in e.names : DueToArrive(s, k, e.type, n, e.version)
ExpectsSingle(s, k, e) ==
    /\ ~s.incremental /\ e.type \in Whole /\ Rested(s, k)
    /\ ExpectsReceipt(s, k, e)
ExpectsNotice(s, k, e) ==
    s.incremental /\ \A n \in e.names : Covered(s, k, e.type, n) /\ Absent(s, k, e.type, n)
ExpectsNone(s, k, e) ==
    s.incremental /\ \A n \in e.names : Dropped(s, k, e.type, n)

\* others were told before, or not at all
ExpectsAlone(s, k, e) ==
    /\ s.incremental /\ Rested(s, k)
    /\ \A n \in e.names :
          /\ Covered(s, k, e.type, n) /\ Present(s, k, e.type, n)
          /\ Certain(s, k, e.type, n, e.version)
          /\ \A m \in Names \ e.names :
                Later(s, k, e.type, n, m) \/ NeverPut(s, k, e.type, m)
\* ... under another version
ExpectsAloneAtVersion(s, k, e) ==
    /\ ExpectsAlone(s, k, e)
    /\ \A m \in Names \ e.names :
          \/ NeverPut(s, k, e.type, m)
          \/ \A j \in ToldAt(s, e.type, m), i \in GivenAs(s, e.type, e.version) : j <= k => j < i

\* the counts are compared once, at the end of a conversation that has come to rest
ExpectsNoMore(s, k) == k + 1 = Len(s.steps) /\ Rested(s, k)

IsDue(s, k, e) ==
    /\ e.op = "receives"       => ExpectsReceipt(s, k, e)
    /\ e.op = "single"         => ExpectsSingle(s, k, e)
    /\ e.op = "receivesNotice" => ExpectsNotice(s, k, e)
    /\ e.op = "receivesNot"    => ExpectsNone(s, k, e)
    /\ e.op = "noOtherNonce"   => ExpectsAlone(s, k, e)
    /\ e.op = "noOther"        => ExpectsAloneAtVersion(s, k, e)
    /\ e.op = "neverMore"      => ExpectsNoMore(s, k)
    /\ e.op \notin {"receivesOnly", "receivesNothing"}

-----------------------------------------------------------------------------
(* The kind of scenarios.                                                   *)

\* a subscription in the state of the world is of a type that has none, and
\* nothing is taken out of its snapshot
StaysSubscribed(s) ==
    /\ SubscribesOnce(s)
    /\ \A i \in 1..Len(s.steps) : s.steps[i].op # "remove"
    /\ \A i, j \in 1..Len(s.steps) :
          /\ s.steps[i].op = "subscribe" /\ s.steps[j].op = "subscribe"
          /\ s.steps[i].type = s.steps[j].type
          => i = j

\* an incremental subscription is only shortened when it has been answered
ShortensAtRest(s) ==
    /\ UnsubscribesLater(s)
    /\ \A i \in 1..Len(s.steps) : s.steps[i].op = "unsubscribe" => Rested(s, i - 1)

ExpectsWhatIsDue(s) ==
    /\ StaysSubscribed(s) \/ ShortensAtRest(s)
    /\ \A i \in 1..Len(s.steps) :
          /\ s.steps[i].op = "setup" => i = 1
          /\ IsDue(s, i - 1, s.steps[i])
=============================================================================
