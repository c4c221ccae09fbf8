------------------------------ MODULE Adapter ------------------------------
(***************************************************************************)
(* The adapter of the example target: the five calls of the Adapter        *)
(* protocol on the snapshot cache that the xDS server serves from.         *)
(*                                                                         *)
(* Source: examples/go-control-plane/adapter.go.  The cache is the library *)
(* of go-control-plane, external: it maps the node to its snapshot, and a  *)
(* snapshot holds a version and the resources, by name, for every type.    *)
(* SetSnapshot stores before it answers the open watches, and an error     *)
(* comes from these, so that a call that fails has stored as well.         *)
(*                                                                         *)
(* Of a resource's content the model keeps the one field that an update    *)
(* writes; addresses are left out.  Handlers are atomic, since the harness *)
(* makes one call at a time and waits for the answer.                      *)
(***************************************************************************)
EXTENDS Naturals

CONSTANTS
    Names,   \* names of resources
    Versions \* versions that calls give, as numbers

Types == {"CDS", "LDS", "RDS", "EDS"}

\* the empty version: of a type that was never set, and some calls give it too
NoVersion == 0

ASSUME VersionsAssumption == Versions \subseteq Nat /\ NoVersion \in Versions

VARIABLES
    cache, \* the node's snapshot: whether there is one, versions and resources
    up     \* whether the process of the adapter and the target runs

adapterVars == <<cache, up>>

-----------------------------------------------------------------------------
(* Resources as the adapter makes them, with the field that updates write.  *)

\* its EndpointStaleAfter, in seconds
MakeEndpoint(n) == [type |-> "EDS", name |-> n, field |-> 5]
\* its DnsRefreshRate, in seconds
MakeCluster(n)  == [type |-> "CDS", name |-> n, field |-> 5]
\* the number of its InternalOnlyHeaders
MakeRoute(n)    == [type |-> "RDS", name |-> n, field |-> 0]
\* its TcpBacklogSize
makeListener(n) == [type |-> "LDS", name |-> n, field |-> 5]

newResource(t, n) ==
    CHOOSE r \in {MakeEndpoint(n), MakeCluster(n), MakeRoute(n), makeListener(n)} : r.type = t

\* clusters and listeners count up; of the others the field becomes a constant
updateForType(r) ==
    [r EXCEPT !.field = [CDS |-> @ + 5, LDS |-> @ + 5, RDS |-> 1, EDS |-> 10][r.type]]

Resource == [type : Types, name : Names, field : Nat]

NoSnapshot ==
    [held |-> FALSE, version |-> [t \in Types |-> NoVersion], resources |-> {}]

InitAdapter == cache = NoSnapshot /\ up = TRUE

\* the resources of the cache by type and name
Held == {<<r.type, r.name>> : r \in cache.resources}

-----------------------------------------------------------------------------
(* The calls.  A call ends with ok, or with an error for the harness.       *)

SetSnapshot(version, resources) ==
    cache' = [held |-> TRUE, version |-> version, resources |-> resources]

\* The types that are asked for get the version, the others nothing.  When the
\* cache reports an error the process exits.
SetState(asked, v, ok) ==
    /\ up
    /\ SetSnapshot([t \in Types |-> IF \E a \in asked : a[1] = t THEN v ELSE NoVersion],
                   {newResource(a[1], a[2]) : a \in asked})
    /\ up' = ok

ClearState == up /\ cache' = NoSnapshot /\ up' = up

\* GetSnapshot finds nothing for the node
NoState(ok) == up /\ ~cache.held /\ ~ok /\ UNCHANGED adapterVars

\* all types are rebuilt, and get the version of the request
Rebuilt(resources, v) ==
    /\ up /\ cache.held
    /\ SetSnapshot([t \in Types |-> v], resources)
    /\ up' = up

\* Mutant: only the type that is asked for is rebuilt.
UpdateRebuildsType(t, n, v, ok) ==
    \/ NoState(ok)
    \/ Rebuilt({IF r.name = n THEN updateForType(r) ELSE r :
                  r \in {s \in cache.resources : s.type = t}}, v)

UpdateResource(t, n, v, ok) ==
    \/ NoState(ok)
    \/ Rebuilt({IF r.type = t /\ r.name = n THEN updateForType(r) ELSE r :
                  r \in cache.resources}, v)

\* The new resource is added next to each one there is of its type: it takes
\* the place of one of its name, and to a type that has none nothing is added.
AddResource(t, n, v, ok) ==
    LET others == {r \in cache.resources : ~(r.type = t /\ r.name = n)}
        added  == {newResource(t, n) : r \in {s \in cache.resources : s.type = t}}
    IN  NoState(ok) \/ Rebuilt(others \union added, v)

RemoveResource(t, n, v, ok) ==
    NoState(ok) \/ Rebuilt({r \in cache.resources : ~(r.type = t /\ r.name = n)}, v)

-----------------------------------------------------------------------------
(* The adapter with any client that makes one call at a time.               *)

NextCall == \E ok \in BOOLEAN :
    \/ \E ts \in SUBSET Types, ns \in SUBSET Names, v \in Versions :
         SetState(ts \X ns, v, ok)
    \/ ClearState
    \/ \E t \in Types, n \in Names, v \in Versions :
         UpdateResource(t, n, v, ok) \/ AddResource(t, n, v, ok) \/ RemoveResource(t, n, v, ok)

AdapterSpec == InitAdapter /\ [][NextCall]_adapterVars

\* The state is of its type, and a name stands for one resource of its type, as
\* in the library's map by name: no call adds a resource beside its namesake.
AdapterTypeOK ==
    /\ cache.held \in BOOLEAN
    /\ cache.version \in [Types -> Versions]
    /\ cache.resources \subseteq Resource
    /\ cache = [held |-> cache.held, version |-> cache.version, resources |-> cache.resources]
    /\ up \in BOOLEAN
    /\ \A r, s \in cache.resources : r.type = s.type /\ r.name = s.name => r = s
=============================================================================
