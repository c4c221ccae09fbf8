----------------------------- MODULE MCAdapter -----------------------------
(* Adapter with a client that makes any calls, and the last call as history. *)
EXTENDS Adapter

CONSTANT MaxField \* bound: of what updates count up

VARIABLE call \* the last call: [op, type, name]

MCVersions == 0..2

Called(op, t, n) == call' = [op |-> op, type |-> t, name |-> n]

MCInit == InitAdapter /\ call = [op |-> "none", type |-> "CDS", name |-> "none"]

MCNext ==
    \/ \E ts \in {{"CDS"}, {"RDS", "EDS"}}, ns \in SUBSET Names, v \in Versions :
         SetState(ts \X ns, v, TRUE) /\ call' = [call EXCEPT !.op = "set"]
    \/ ClearState /\ call' = [call EXCEPT !.op = "clear"]
    \/ \E t \in Types, n \in Names, v \in Versions :
         \/ /\ \A r \in cache.resources : r.field < MaxField
            /\ UpdateResource(t, n, v, TRUE) /\ Called("update", t, n)
         \/ AddResource(t, n, v, TRUE) /\ Called("add", t, n)
         \/ RemoveResource(t, n, v, TRUE) /\ Called("remove", t, n)

MCSpec == MCInit /\ [][MCNext]_<<adapterVars, call>>

\* An update that succeeds changes the content of the resource it names, which is
\* what makes a server notify its clients: a doc's sentence on UpdateResource,
\* "the requested resource updated in some meaningful way".
UpdateIsMeaningful ==
    [][call'.op = "update" =>
         \A r \in cache.resources :
            r.type = call'.type /\ r.name = call'.name => r \notin cache'.resources]_<<adapterVars, call>>
=============================================================================
