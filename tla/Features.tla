------------------------------ MODULE Features ------------------------------
(***************************************************************************)
(* The scenarios of the feature files, as sequences of steps.  A, B stand  *)
(* for the resources of the examples: A for those a scenario singles out,  *)
(* B for the others.  Version 1 is the starting version, 2 the next.  The  *)
(* type t is the example's service, "CDS" standing for CDS and LDS where   *)
(* only those are named, "RDS" for RDS and EDS.                            *)
(***************************************************************************)
EXTENDS Naturals, Sequences

Setup(types, names)   == [op |-> "setup", types |-> types, names |-> names, version |-> 1]
OnType(op, t, names)  == [op |-> op, type |-> t, names |-> names, version |-> 1]
At2(op, t, names)     == [op |-> op, type |-> t, names |-> names, version |-> 2]
NeverMore             == [op |-> "neverMore"]

AB == {"A", "B"}

\* features/subscribing.feature: sotw

Wildcard(t) ==
    <<Setup({t}, AB), OnType("subscribe", t, {}), OnType("receives", t, AB),
      OnType("single", t, AB), NeverMore>>

WildcardUpdates(t) ==
    <<Setup({t}, AB), OnType("subscribe", t, {}), OnType("receives", t, AB),
      At2("update", t, {"A"}), At2("receives", t, AB), At2("single", t, AB), NeverMore>>

WildcardAdditions(t) ==
    <<Setup({t}, {"A"}), OnType("subscribe", t, {}), OnType("receives", t, {"A"}),
      At2("add", t, {"B"}), At2("receives", t, AB), At2("single", t, AB), NeverMore>>

\* in every variant
OnlyTheseResources(t) ==
    <<Setup({t}, AB), OnType("subscribe", t, {"A"}), OnType("receives", t, {"A"}), NeverMore>>

WholeChange(t) ==
    <<Setup({t}, AB), OnType("subscribe", t, AB), OnType("receives", t, AB),
      At2("update", t, {"A"}), At2("receives", t, AB), At2("single", t, AB), NeverMore>>

PartChange(t) ==
    <<Setup({t}, AB), OnType("subscribe", t, AB), OnType("receives", t, AB),
      At2("update", t, {"A"}), At2("receives", t, {"A"}), NeverMore>>

WholeCreation(t) ==
    <<Setup({t}, {"A"}), OnType("subscribe", t, AB), OnType("receives", t, {"A"}),
      At2("add", t, {"B"}), At2("receives", t, AB), At2("single", t, AB), NeverMore>>

PartCreation(t) ==
    <<Setup({t}, {"A"}), OnType("subscribe", t, AB), OnType("receives", t, {"A"}),
      At2("add", t, {"B"}), At2("receives", t, {"B"}), NeverMore>>

\* aggregated only
TwoServices(t, u) ==
    <<Setup({t, u}, AB),
      OnType("subscribe", t, {"A"}), OnType("receives", t, {"A"}),
      OnType("subscribe", u, {"A"}), OnType("receives", u, {"A"}),
      At2("update", t, {"A"}), At2("receives", t, {"A"}), NeverMore>>

\* features/unsubcribing.feature: sotw

WholeUnsubscription(t) ==
    <<Setup({t}, AB), OnType("subscribe", t, AB), OnType("receives", t, AB),
      OnType("updateSubscription", t, {"A"}), At2("update", t, {"A"}),
      At2("receives", t, {"A"}), At2("single", t, {"A"}), NeverMore>>

PartUnsubscription(t) ==
    <<Setup({t}, AB), OnType("subscribe", t, AB), OnType("receives", t, AB),
      OnType("updateSubscription", t, {"A"}), At2("update", t, {"A"}),
      At2("receivesOnly", t, {"A"}), NeverMore>>

FullUnsubscription(t) ==
    <<Setup({t}, AB), OnType("subscribe", t, AB), OnType("receives", t, AB),
      OnType("unsubscribeAll", t, {}), At2("update", t, {"A"}),
      OnType("receivesNothing", t, {})>>

\* features/delta.feature: incremental

OneAfterTheOther(t) ==
    <<Setup({t}, AB), OnType("subscribe", t, {"A"}), OnType("receives", t, {"A"}),
      OnType("subscribe", t, {"B"}), OnType("receives", t, {"B"}), NeverMore>>

OnlyTheUpdated(t) ==
    <<Setup({t}, AB), OnType("subscribe", t, AB), OnType("receives", t, AB),
      At2("update", t, {"A"}), At2("receives", t, {"A"}), At2("noOther", t, {"A"}), NeverMore>>

OnlyTheCreated(t) ==
    <<Setup({t}, {"A"}), OnType("subscribe", t, AB), OnType("receives", t, {"A"}),
      OnType("noOther", t, {"A"}), OnType("add", t, {"B"}), OnType("receives", t, {"B"}),
      OnType("noOtherNonce", t, {"B"}), NeverMore>>

NoticeOfRemoval(t) ==
    <<Setup({t}, AB), OnType("subscribe", t, AB), OnType("receives", t, AB),
      OnType("remove", t, {"A"}), OnType("receivesNotice", t, {"A"}),
      At2("add", t, {"A"}), At2("receives", t, {"A"}), At2("noOther", t, {"A"}), NeverMore>>

DeltaUnsubscription(t) ==
    <<Setup({t}, AB), OnType("subscribe", t, AB), OnType("receives", t, AB),
      OnType("unsubscribe", t, {"A"}), At2("update", t, {"A"}), At2("receivesNot", t, {"A"}),
      OnType("unsubscribe", t, {"B"}), At2("update", t, {"B"}), At2("receivesNot", t, {"B"}),
      NeverMore>>

DeltaTwoServices(t, u) ==
    <<Setup({t, u}, AB), OnType("subscribe", t, {"A"}), OnType("subscribe", u, {"A"}),
      OnType("receives", t, {"A"}), OnType("receives", u, {"A"}),
      At2("update", t, {"A"}), At2("receives", t, {"A"}),
      At2("update", u, {"A"}), At2("receives", u, {"A"}), NeverMore>>

\* The scenarios with their tags, @aggregated and @non-aggregated alike: once
\* the stream is open both variants run the same code.

Sotw(steps)  == [incremental |-> FALSE, steps |-> steps]
Delta(steps) == [incremental |-> TRUE, steps |-> steps]

SotwScenarios ==
    {Sotw(Wildcard("CDS")), Sotw(WildcardUpdates("CDS")), Sotw(WildcardAdditions("CDS")),
     Sotw(OnlyTheseResources("CDS")), Sotw(OnlyTheseResources("RDS")),
     Sotw(WholeChange("CDS")), Sotw(PartChange("RDS")),
     Sotw(WholeCreation("CDS")), Sotw(PartCreation("RDS")),
     Sotw(WholeUnsubscription("CDS")), Sotw(PartUnsubscription("RDS")),
     Sotw(FullUnsubscription("CDS")), Sotw(FullUnsubscription("RDS"))}

DeltaScenarios ==
    {Delta(OnlyTheseResources("CDS")), Delta(OneAfterTheOther("CDS")),
     Delta(OnlyTheUpdated("CDS")), Delta(OnlyTheCreated("CDS")),
     Delta(NoticeOfRemoval("CDS")), Delta(DeltaUnsubscription("CDS"))}

\* the scenarios of aggregated streams only, with the examples' pairs of services
AdsScenarios ==
    {Sotw(TwoServices("CDS", "LDS")), Sotw(TwoServices("RDS", "EDS")),
     Delta(DeltaTwoServices("CDS", "LDS")), Delta(DeltaTwoServices("RDS", "EDS"))}

AllScenarios == SotwScenarios \union DeltaScenarios \union AdsScenarios
=============================================================================
