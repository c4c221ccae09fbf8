--------------------------- MODULE AdapterProofs ---------------------------
(***************************************************************************)
(* For all names and versions, the five calls of the example's adapter     *)
(* keep its snapshot of its type, with one resource for a name.            *)
(***************************************************************************)
EXTENDS Adapter, TLAPS

\* A name stands for one resource of its type.
NamesAreUnique(resources) ==
    \A r, s \in resources : r.type = s.type /\ r.name = s.name => r = s

\* newResource makes a resource of the type and the name it is given
\* (adapter.go, newResource and the Make functions).
LEMMA NewResourceIsOfType ==
    ASSUME NEW t \in Types, NEW n \in Names
    PROVE  /\ newResource(t, n) \in Resource
           /\ newResource(t, n).type = t /\ newResource(t, n).name = n
<1> DEFINE made == {MakeEndpoint(n), MakeCluster(n), MakeRoute(n), makeListener(n)}
<1>1. \E r \in made : r.type = t
  BY DEF Types, MakeEndpoint, MakeCluster, MakeRoute, makeListener
<1>2. newResource(t, n) \in made /\ newResource(t, n).type = t
  BY <1>1 DEF newResource
<1>3. \A r \in made : r \in Resource /\ r.name = n
  BY DEF Resource, Types, MakeEndpoint, MakeCluster, MakeRoute, makeListener
<1> QED BY <1>2, <1>3

\* updateForType writes the field and nothing else.
LEMMA UpdateKeepsName ==
    ASSUME NEW r \in Resource
    PROVE  /\ updateForType(r) \in Resource
           /\ updateForType(r).type = r.type /\ updateForType(r).name = r.name
<1>1. r.type \in Types /\ r.field \in Nat /\ r.name \in Names
  BY DEF Resource
<1>2. [CDS |-> r.field + 5, LDS |-> r.field + 5, RDS |-> 1, EDS |-> 10][r.type] \in Nat
  BY <1>1 DEF Types
<1> QED BY <1>2 DEF Resource, updateForType

\* A snapshot stored is of its type when what is stored is.
LEMMA StoredIsTyped ==
    ASSUME NEW version \in [Types -> Versions], NEW resources \in SUBSET Resource,
           NamesAreUnique(resources), SetSnapshot(version, resources), up' \in BOOLEAN
    PROVE  AdapterTypeOK'
  BY DEF AdapterTypeOK, SetSnapshot, NamesAreUnique

\* Rebuilding all types with a version of the request.
LEMMA RebuiltIsTyped ==
    ASSUME AdapterTypeOK, NEW v \in Versions, NEW resources \in SUBSET Resource,
           NamesAreUnique(resources), Rebuilt(resources, v)
    PROVE  AdapterTypeOK'
<1>1. [t \in Types |-> v] \in [Types -> Versions]
  OBVIOUS
<1> QED BY <1>1, StoredIsTyped DEF Rebuilt, AdapterTypeOK

LEMMA NoStateKeepsType ==
    ASSUME AdapterTypeOK, NEW ok, NoState(ok)
    PROVE  AdapterTypeOK'
  BY DEF AdapterTypeOK, NoState, adapterVars

LEMMA SetStateKeepsType ==
    ASSUME NEW wanted \in SUBSET (Types \X Names), NEW v \in Versions, NEW ok \in BOOLEAN,
           SetState(wanted, v, ok)
    PROVE  AdapterTypeOK'
<1> DEFINE version   == [t \in Types |-> IF \E a \in wanted : a[1] = t THEN v ELSE NoVersion]
           resources == {newResource(a[1], a[2]) : a \in wanted}
<1>1. version \in [Types -> Versions]
  BY VersionsAssumption
<1>2. \A a \in wanted : /\ newResource(a[1], a[2]) \in Resource
                        /\ newResource(a[1], a[2]).type = a[1]
                        /\ newResource(a[1], a[2]).name = a[2]
  BY NewResourceIsOfType
<1>3. resources \in SUBSET Resource
  BY <1>2
<1>4. NamesAreUnique(resources)
  BY <1>2 DEF NamesAreUnique
<1>5. SetSnapshot(version, resources) /\ up' \in BOOLEAN
  BY DEF SetState
<1> HIDE DEF version, resources
<1> QED BY <1>1, <1>3, <1>4, <1>5, StoredIsTyped

LEMMA UpdateKeepsType ==
    ASSUME AdapterTypeOK, NEW t \in Types, NEW n \in Names, NEW v \in Versions,
           NEW ok \in BOOLEAN, UpdateResource(t, n, v, ok)
    PROVE  AdapterTypeOK'
<1> DEFINE Updated(r) == IF r.type = t /\ r.name = n THEN updateForType(r) ELSE r
           resources  == {Updated(r) : r \in cache.resources}
<1>1. \A r \in cache.resources :
         Updated(r) \in Resource /\ Updated(r).type = r.type /\ Updated(r).name = r.name
  BY UpdateKeepsName DEF AdapterTypeOK
<1> HIDE DEF Updated
<1>2. resources \in SUBSET Resource /\ NamesAreUnique(resources)
  BY <1>1 DEF AdapterTypeOK, NamesAreUnique
<1>3. NoState(ok) \/ Rebuilt(resources, v)
  BY DEF UpdateResource, Updated
<1> HIDE DEF resources
<1> QED BY <1>2, <1>3, RebuiltIsTyped, NoStateKeepsType

LEMMA AddKeepsType ==
    ASSUME AdapterTypeOK, NEW t \in Types, NEW n \in Names, NEW v \in Versions,
           NEW ok \in BOOLEAN, AddResource(t, n, v, ok)
    PROVE  AdapterTypeOK'
<1> DEFINE others == {r \in cache.resources : ~(r.type = t /\ r.name = n)}
           added  == {newResource(t, n) : r \in {s \in cache.resources : s.type = t}}
<1>1. added \subseteq {newResource(t, n)}
  OBVIOUS
<1>2. others \union added \in SUBSET Resource /\ NamesAreUnique(others \union added)
  BY <1>1, NewResourceIsOfType DEF AdapterTypeOK, NamesAreUnique
<1>3. NoState(ok) \/ Rebuilt(others \union added, v)
  BY DEF AddResource
<1> HIDE DEF others, added
<1> QED BY <1>2, <1>3, RebuiltIsTyped, NoStateKeepsType

LEMMA RemoveKeepsType ==
    ASSUME AdapterTypeOK, NEW t \in Types, NEW n \in Names, NEW v \in Versions,
           NEW ok \in BOOLEAN, RemoveResource(t, n, v, ok)
    PROVE  AdapterTypeOK'
<1> DEFINE others == {r \in cache.resources : ~(r.type = t /\ r.name = n)}
<1>1. others \in SUBSET Resource /\ NamesAreUnique(others)
  BY DEF AdapterTypeOK, NamesAreUnique
<1>2. NoState(ok) \/ Rebuilt(others, v)
  BY DEF RemoveResource
<1> HIDE DEF others
<1> QED BY <1>1, <1>2, RebuiltIsTyped, NoStateKeepsType

LEMMA NoSnapshotIsTyped ==
    NoSnapshot = [held |-> FALSE, version |-> NoSnapshot.version, resources |-> {}]
    /\ NoSnapshot.version \in [Types -> Versions]
  BY VersionsAssumption DEF NoSnapshot

LEMMA ClearKeepsType ==
    ASSUME AdapterTypeOK, ClearState
    PROVE  AdapterTypeOK'
  BY NoSnapshotIsTyped DEF AdapterTypeOK, ClearState, NoSnapshot

LEMMA InitAdapterIsTyped == InitAdapter => AdapterTypeOK
  BY NoSnapshotIsTyped DEF InitAdapter, AdapterTypeOK, NoSnapshot

\* The snapshot the adapter serves (adapter.go, SetState, ClearState and the three
\* changes) is of its type, and has one resource for a name, whatever is called.
THEOREM AdapterTypeCorrect == AdapterSpec => []AdapterTypeOK
<1>1. AdapterTypeOK /\ [NextCall]_adapterVars => AdapterTypeOK'
  <2> SUFFICES ASSUME AdapterTypeOK, [NextCall]_adapterVars PROVE AdapterTypeOK'
    OBVIOUS
  <2>1. CASE UNCHANGED adapterVars
    BY <2>1 DEF adapterVars, AdapterTypeOK
  <2>2. ASSUME NEW ok \in BOOLEAN, NEW ts \in SUBSET Types, NEW ns \in SUBSET Names,
               NEW v \in Versions, SetState(ts \X ns, v, ok)
        PROVE  AdapterTypeOK'
    BY <2>2, SetStateKeepsType
  <2>3. ASSUME NEW ok \in BOOLEAN, NEW t \in Types, NEW n \in Names, NEW v \in Versions,
               \/ UpdateResource(t, n, v, ok)
               \/ AddResource(t, n, v, ok)
               \/ RemoveResource(t, n, v, ok)
        PROVE  AdapterTypeOK'
    BY <2>3, UpdateKeepsType, AddKeepsType, RemoveKeepsType
  <2> QED BY <2>1, <2>2, <2>3, ClearKeepsType DEF NextCall
<1> QED BY <1>1, InitAdapterIsTyped, PTL DEF AdapterSpec

\* An update is lost on a resource exactly when it is a route configuration or an
\* endpoint that was updated before (adapter.go, updateForType): clusters and
\* listeners count up, and no other resource of the snapshot takes the place of the
\* one that was there.  What MCAdapter's run finds on two names is all there is.
THEOREM UpdateIsLost ==
    ASSUME AdapterTypeOK, NEW t \in Types, NEW n \in Names, NEW v \in Versions,
           UpdateResource(t, n, v, TRUE),
           NEW r \in cache.resources, r.type = t, r.name = n
    PROVE  r \in cache'.resources <=>
              ((t = "RDS" /\ r.field = 1) \/ (t = "EDS" /\ r.field = 10))
<1> DEFINE Updated(s) == IF s.type = t /\ s.name = n THEN updateForType(s) ELSE s
<1>1. cache'.resources = {Updated(s) : s \in cache.resources}
  BY DEF UpdateResource, NoState, Rebuilt, SetSnapshot
<1>2. \A s \in cache.resources : Updated(s).type = s.type /\ Updated(s).name = s.name
  BY UpdateKeepsName DEF AdapterTypeOK
<1>3. r \in cache'.resources <=> r = Updated(r)
  <2>1. ASSUME r \in cache'.resources PROVE r = Updated(r)
    <3>1. PICK s \in cache.resources : r = Updated(s)
      BY <1>1, <2>1
    <3>2. s.type = r.type /\ s.name = r.name
      BY <1>2, <3>1
    <3> QED BY <3>1, <3>2 DEF AdapterTypeOK
  <2> QED BY <1>1, <2>1
<1>4. r \in Resource /\ r.field \in Nat
  BY DEF AdapterTypeOK, Resource
<1>5. Updated(r) = [r EXCEPT !.field = updateForType(r).field]
  BY <1>4 DEF updateForType, Resource
<1>6. /\ t \in {"CDS", "LDS"} => updateForType(r).field = r.field + 5
      /\ t = "RDS" => updateForType(r).field = 1
      /\ t = "EDS" => updateForType(r).field = 10
  <2> DEFINE field == [CDS |-> r.field + 5, LDS |-> r.field + 5, RDS |-> 1, EDS |-> 10][r.type]
  <2>1. updateForType(r) = [r EXCEPT !.field = field]
    BY DEF updateForType
  <2>2. [r EXCEPT !.field = field].field = field
    BY <1>4 DEF Resource
  <2> QED BY <2>1, <2>2
<1> HIDE DEF Updated
<1>7. r = Updated(r) <=> r.field = updateForType(r).field
  BY <1>4, <1>5 DEF Resource
<1> QED BY <1>3, <1>4, <1>6, <1>7 DEF Types
=============================================================================
