------------------------------ MODULE MCSuite ------------------------------
(* Suite on the scenarios of the feature files, three at a time, with their *)
(* tags, and with settings from the command line and from a file.       *)
EXTENDS Suite, Features

MCVersions == 0..2

Tagged(tags, scenario) == [tags |-> tags, steps |-> scenario.steps]

Alike == {"@aggregated", "@non-aggregated"}
ProtocolOf(s) == IF s.incremental THEN "@incremental" ELSE "@sotw"

\* the scenario outline that is of both protocols
OfAll == Tagged(Tags, Sotw(OnlyTheseResources("RDS")))

MCScenarios ==
    {Tagged({ProtocolOf(s)} \union Alike, s) : s \in SotwScenarios \union DeltaScenarios}
      \union {Tagged({ProtocolOf(s), "@aggregated"}, s) : s \in AdsScenarios}

\* the latter last, since what a scenario meets is what came before it
MCFeatureFiles == {<<OfAll, s, Tagged({"@sotw", "@aggregated"}, Sotw(TwoServices("RDS", "EDS")))>> :
                     s \in MCScenarios}

MCConfig(has, variants) == [has |-> has, variants |-> variants]

Complete == {"file", "nodeID", "targetAddress", "adapterAddress", "variants", "list"}

\* one variant of each protocol, with a file and without; a tag; and mistakes
MCCommandLines ==
    LET cli(variants, tags) == [variants |-> variants, tags |-> tags, config |-> NoConfig]
        file(has, variants) == [variants |-> <<>>, tags |-> {}, config |-> MCConfig(has, variants)]
    IN  {cli(<<"sotw non-aggregated", "incremental aggregated">>, {}),
         cli(<<"sotw aggregated">>, {"@incremental"}),
         cli(<<"something else">>, {}),
         file(Complete, <<"incremental non-aggregated", "sotw aggregated">>),
         file(Complete, <<"sotw aggregated", "something else">>),
         file(Complete \ {"list"}, <<"sotw aggregated">>),
         file(Complete \ {"adapterAddress"}, <<"sotw aggregated">>),
         file(Complete \ {"nodeID"}, <<"sotw aggregated">>)}
=============================================================================
