------------------------------- MODULE Suite -------------------------------
(***************************************************************************)
(* A run of the harness: the settings, main's loop over the variants, a    *)
(* godog suite for each, its scenarios with their Before and After hooks,  *)
(* the runner each scenario works on, the adapter it sets the target's     *)
(* state with (module Adapter), and the results.                           *)
(*                                                                         *)
(* Sources: main.go, internal/parser/parser.go, internal/runner/suite.go,  *)
(* internal/runner/runner.go (FreshRunner), internal/runner/services.go    *)
(* (the builders), fmt_xds.go.  godog is external: it initialises and runs *)
(* one scenario after the other, skips a scenario's steps once one has     *)
(* failed, and calls the formatter for each; the After hook comes at the   *)
(* step that failed or the last, before those skipped.  What a step does   *)
(* on its stream is the matter of modules XdsStream and Conversation; here *)
(* a step passes or fails.                                                 *)
(***************************************************************************)
EXTENDS Adapter, Sequences, FiniteSets

CONSTANTS
    CommandLines, \* what the harness may be started with: [variants, tags, config]
    FeatureFiles  \* the scenarios it may find: sequences of [tags, steps]

AllVariants == {"sotw non-aggregated", "sotw aggregated",
                "incremental non-aggregated", "incremental aggregated"}

\* the words that may be given for a variant, in any case of letters
Words == AllVariants \union {"something else"}

Tags == {"@sotw", "@incremental", "@aggregated", "@non-aggregated"}

\* The steps that LoadSteps binds: those that go to the adapter, those that
\* send a request, and those that wait and judge.
Changes    == {"add", "update", "remove"}
Requests   == {"subscribe", "updateSubscription", "unsubscribe", "unsubscribeAll"}
Judgements == {"receives", "receivesOnly", "receivesNothing", "receivesNotice", "receivesNot",
               "single", "noOther", "noOtherNonce", "neverMore"}

Steps == [op : {"setup"}, types : SUBSET Types, names : SUBSET Names, version : Versions]
           \union [op : Changes \union Requests \union Judgements, type : Types,
                   names : SUBSET Names, version : Versions]
           \union [op : {"neverMore"}]

ASSUME CommandLinesAssumption ==
    \A line \in CommandLines :
        /\ line.variants \in Seq(Words) /\ line.config.variants \in Seq(Words)

ASSUME FeatureFilesAssumption ==
    \A f \in FeatureFiles : f \in Seq([tags : SUBSET Tags, steps : Seq(Steps) \ {<<>>}])

\* A scenario whose streams may be a service's own has requests for one service.
ASSUME OneServiceAssumption ==
    \A f \in FeatureFiles : \A i \in DOMAIN f : "@non-aggregated" \in f[i].tags =>
        \A j, k \in DOMAIN f[i].steps :
            f[i].steps[j].op \in Requests /\ f[i].steps[k].op \in Requests
                => f[i].steps[j].type = f[i].steps[k].type

\* Steps of a scenario, by their number: those that set a resource up, add it,
\* may take it away, remove it or may put it there, that give its type a version,
\* and that call the adapter.
SetUpAt(steps, t, n) ==
    {i \in DOMAIN steps : /\ steps[i].op = "setup"
                          /\ t \in steps[i].types /\ n \in steps[i].names}
TakenAt(steps, t, n) ==
    {i \in DOMAIN steps : \/ steps[i].op = "setup" /\ i \notin SetUpAt(steps, t, n)
                          \/ steps[i].op = "remove" /\ steps[i].type = t /\ n \in steps[i].names}
RemovedAt(steps, t, n) ==
    {i \in DOMAIN steps : /\ steps[i].op = "remove"
                          /\ steps[i].type = t /\ steps[i].names = {n}}
PutAt(steps, t, n) ==
    SetUpAt(steps, t, n) \union
    {i \in DOMAIN steps : steps[i].op = "add" /\ steps[i].type = t /\ n \in steps[i].names}
VersionAt(steps, t, v) ==
    {i \in DOMAIN steps : /\ \/ steps[i].op \in {"add", "update"}
                             \/ /\ steps[i].op = "setup"
                                /\ t \in steps[i].types /\ steps[i].names # {}
                          /\ steps[i].version = v}
CalledAt(steps) == {i \in DOMAIN steps : steps[i].op \in {"setup"} \union Changes}

\* before step j one of the steps made was taken, and none of undone after it
Stands(j, made, undone) == \E i \in made : i < j /\ \A k \in undone : k < j => k <= i

\* an addition counts where a resource of its type is still set up
AddedAt(steps, t, n) ==
    {i \in DOMAIN steps :
        /\ steps[i].op = "add" /\ steps[i].type = t /\ steps[i].names = {n}
        /\ \E m \in Names : Stands(i, SetUpAt(steps, t, m), TakenAt(steps, t, m))}

\* A scenario waits for resources that it has set up or added, at the version it
\* gave last, and for the removal of those that it has removed.
ASSUME ExpectationsAssumption ==
    \A f \in FeatureFiles : \A x \in DOMAIN f : \A j \in DOMAIN f[x].steps :
        LET steps == f[x].steps
            s     == steps[j]
        IN  /\ s.op \in {"receives", "receivesOnly", "single"} =>
                 /\ Stands(j, VersionAt(steps, s.type, s.version), CalledAt(steps))
                 /\ \A n \in s.names :
                      Stands(j, SetUpAt(steps, s.type, n) \union AddedAt(steps, s.type, n),
                             TakenAt(steps, s.type, n))
            /\ s.op = "receivesNotice" =>
                 \A n \in s.names : Stands(j, RemovedAt(steps, s.type, n), PutAt(steps, s.type, n))

VARIABLES
    phase,    \* where the process is
    settings, \* the variants to run, the tags to select, whether the adapter is known
    features, \* the scenarios of the feature files
    vi, fi,   \* the variant it is at, and the scenario of that variant's suite
    si,       \* the next step of the scenario
    failed,   \* whether a step of the scenario has failed
    suite,    \* Suite.Aggregated and Suite.Incremental
    current,  \* Suite.Runner
    bound,    \* the runner the scenario's steps are bound to
    created,  \* how many runners FreshRunner has made; a runner is a number
    touched,  \* scenarios that wrote a runner's state, as pairs <<runner, scenario>>
    streams,  \* the streams opened: [runner, scenario, method]
    sent,     \* requests sent: [method, service]
    asked,    \* history: the resources that the scenario's steps asked for
    tally,    \* the formatter's VariantResults
    reported, \* the verdicts the formatter has printed: [scenario, failed]
    results   \* types.Results, with the names of the variants

given  == <<settings, features>>
place  == <<vi, fi, si>>
runner == <<current, bound, created>>
use    == <<touched, streams, sent>>
target == <<adapterVars, asked>>
counts == <<tally, reported>>

vars == <<phase, given, place, failed, suite, runner, use, target, counts, results>>

-----------------------------------------------------------------------------
NoTally == [total |-> 0, passed |-> 0, failed |-> 0, skipped |-> 0,
            failedScenarios |-> <<>>]

\* the scenario that is running, as a name for what it does
This == <<vi, fi>>

Init ==
    /\ phase = "start"
    /\ settings = [variants |-> <<>>, tags |-> {}, adapter |-> FALSE]
    /\ features \in FeatureFiles
    /\ vi = 1 /\ fi = 0 /\ si = 0 /\ failed = FALSE
    /\ suite = [incremental |-> FALSE, aggregated |-> FALSE]
    /\ current = 0 /\ bound = 0 /\ created = 0
    /\ touched = {} /\ streams = {} /\ sent = {}
    /\ InitAdapter /\ asked = {}
    /\ tally = NoTally /\ reported = <<>>
    /\ results = [total |-> 0, passed |-> 0, failed |-> 0, skipped |-> 0,
                  variants |-> <<>>, failures |-> 0]

-----------------------------------------------------------------------------
(* main: the settings.  A variant is named in any case of letters; names    *)
(* that are none of the four stand for whatever else is written.            *)

\* every name is one of the table's
ParseSupportedVariants(names) == \A i \in DOMAIN names : names[i] \in AllVariants

\* the variants of a configuration, none if they are not written as a list
VariantsOf(config) == IF "list" \in config.has THEN config.variants ELSE <<>>

\* what ends the harness; a missing adapter address is noted only
ValuesFromConfig(config) ==
    /\ {"file", "nodeID", "targetAddress", "variants"} \subseteq config.has
    /\ ParseSupportedVariants(VariantsOf(config))

NoConfig == [has |-> {}, variants |-> <<>>]

\* the flags are parsed first, even where the configuration replaces them
ReadFlags(line) ==
    /\ ParseSupportedVariants(line.variants)
    /\ line.config = NoConfig
    /\ settings' = [variants |-> line.variants, tags |-> line.tags, adapter |-> TRUE]
    /\ phase' = "main"

ReadConfig(line) ==
    /\ ParseSupportedVariants(line.variants)
    /\ line.config # NoConfig /\ ValuesFromConfig(line.config)
    /\ settings' = [variants |-> VariantsOf(line.config), tags |-> line.tags,
                    adapter  |-> "adapterAddress" \in line.config.has]
    /\ phase' = "main"

SettingsAreWrong(line) ==
    /\ \/ ~ParseSupportedVariants(line.variants)
       \/ line.config # NoConfig /\ ~ValuesFromConfig(line.config)
    /\ phase' = "fatal" /\ settings' = settings

ReadSettings ==
    /\ phase = "start"
    /\ \E line \in CommandLines : ReadFlags(line) \/ ReadConfig(line) \/ SettingsAreWrong(line)
    /\ UNCHANGED <<features, place, failed, suite, runner, use, target, counts, results>>

-----------------------------------------------------------------------------
(* main, for one variant.                                                   *)

NewSuite(v) ==
    [incremental |-> v \in {"incremental non-aggregated", "incremental aggregated"},
     aggregated  |-> v \in {"sotw aggregated", "incremental aggregated"}]

\* FreshRunner makes a runner; it copies the connections and the variant only
FreshRunner == created' = created + 1 /\ current' = created + 1

\* NewSuite, StartRunner with both connections, SetTags, ConfigureSuite
StartRunner ==
    /\ phase = "main" /\ vi <= Len(settings.variants) /\ settings.adapter
    /\ suite' = NewSuite(settings.variants[vi])
    /\ FreshRunner
    /\ tally' = NoTally /\ reported' = <<>>
    /\ fi' = 0 /\ phase' = "suite"
    /\ UNCHANGED <<given, vi, si, failed, bound, use, target, results>>

\* ConnectClient gives up after 10 s, and main with it
ConnectFails ==
    /\ phase = "main" /\ vi <= Len(settings.variants)
    /\ phase' = "fatal"
    /\ UNCHANGED <<given, place, failed, suite, runner, use, target, counts, results>>

\* the words of a variant, each with its @
TagsOf(s) == {IF s.incremental THEN "@incremental" ELSE "@sotw",
              IF s.aggregated THEN "@aggregated" ELSE "@non-aggregated"}

\* Mutant: the tags leave out how the streams are opened.
SetTagsOfProtocol == {IF suite.incremental THEN "@incremental" ELSE "@sotw"} \union settings.tags

\* SetTags: those of the variant and those of the command line, all required
SetTags == TagsOf(suite) \union settings.tags

Selected == {i \in DOMAIN features : SetTags \subseteq features[i].tags}

\* the formatter's Summary, Suite.Run and UpdateResults
UpdateResults ==
    /\ phase = "suite" /\ \A i \in Selected : i <= fi
    /\ results' = [total    |-> results.total + tally.total,
                   passed   |-> results.passed + tally.passed,
                   failed   |-> results.failed + tally.failed,
                   skipped  |-> results.skipped + tally.skipped,
                   variants |-> Append(results.variants, settings.variants[vi]),
                   failures |-> results.failures + Len(tally.failedScenarios)]
    /\ vi' = vi + 1 /\ phase' = "main"
    /\ UNCHANGED <<given, fi, si, failed, suite, runner, use, target, counts>>

PrintResults ==
    /\ phase = "main" /\ vi > Len(settings.variants)
    /\ phase' = "exited"
    /\ UNCHANGED <<given, place, failed, suite, runner, use, target, counts, results>>

MainNext == ReadSettings \/ StartRunner \/ ConnectFails \/ UpdateResults \/ PrintResults

-----------------------------------------------------------------------------
(* One scenario: godog calls the initialiser, the hooks and the steps.      *)

\* the first scenario after the one that was run last
IsNext(i, scenarios) == i \in scenarios /\ i > fi /\ \A j \in scenarios : j > fi => i <= j

\* Mutant: the steps of all scenarios are bound to the suite's first runner.
InitScenarioOnce ==
    /\ phase = "suite"
    /\ \E i \in Selected : IsNext(i, Selected) /\ fi' = i
    /\ bound' = IF fi = 0 THEN current ELSE bound
    /\ phase' = "before"
    /\ UNCHANGED <<given, vi, si, failed, suite, current, created, use, target, counts, results>>

\* Mutant: scenarios are run whatever their tags.
InitScenarioUntagged ==
    /\ phase = "suite"
    /\ \E i \in DOMAIN features : IsNext(i, DOMAIN features) /\ fi' = i
    /\ bound' = current
    /\ phase' = "before"
    /\ UNCHANGED <<given, vi, si, failed, suite, current, created, use, target, counts, results>>

\* initScenario registers the hooks and binds the steps: s.Runner.LoadSteps(ctx)
InitScenario ==
    /\ phase = "suite"
    /\ \E i \in Selected : IsNext(i, Selected) /\ fi' = i
    /\ bound' = current
    /\ phase' = "before"
    /\ UNCHANGED <<given, vi, si, failed, suite, current, created, use, target, counts, results>>

\* the Before hook: s.Runner = FreshRunner(s.Runner)
BeforeHook ==
    /\ phase = "before"
    /\ FreshRunner
    /\ si' = 1 /\ failed' = FALSE /\ asked' = {}
    /\ phase' = "steps"
    /\ UNCHANGED <<given, vi, fi, suite, bound, use, adapterVars, counts, results>>

Scenario == features[fi]
Step     == Scenario.steps[si]
Stepping(ops) ==
    phase = "steps" /\ ~failed /\ si <= Len(Scenario.steps) /\ Step.op \in ops

\* Mutant: the verdict is that of the last step.
VerdictOfLast(status) ==
    reported' = IF si < Len(Scenario.steps) THEN reported
                ELSE Append(reported, [scenario |-> fi, failed |-> status = "failed"])

\* xdsFmt.step: after a scenario's last step, its verdict, from all its steps
Verdict(status) ==
    reported' = IF si < Len(Scenario.steps) THEN reported
                ELSE Append(reported, [scenario |-> fi, failed |-> failed \/ status = "failed"])

\* Mutant: Total counts the scenarios' steps that were run.
CountSkippedOnly == tally' = [tally EXCEPT !.skipped = @ + 1]

\* xdsFmt.Passed, Skipped, Failed
CountPassed  == tally' = [tally EXCEPT !.total = @ + 1, !.passed = @ + 1]
CountSkipped == tally' = [tally EXCEPT !.total = @ + 1, !.skipped = @ + 1]
CountFailed  == tally' = [tally EXCEPT !.total = @ + 1, !.failed = @ + 1,
                                       !.failedScenarios = Append(@, fi)]

StepPasses ==
    /\ CountPassed /\ Verdict("passed")
    /\ failed' = failed /\ si' = si + 1 /\ phase' = phase
StepFails ==
    /\ CountFailed /\ Verdict("failed")
    /\ failed' = TRUE /\ si' = si + 1 /\ phase' = phase

-----------------------------------------------------------------------------
(* Steps that call the adapter.                                             *)

\* the resources that a setup asks for: every name for every service
TargetSetup(ok) ==
    /\ Stepping({"setup"})
    /\ SetState(Step.types \X Step.names, Step.version, ok)
    /\ asked' = Step.types \X Step.names

ResourceIsAdded(ok) ==
    /\ Stepping({"add"})
    /\ \E n \in Step.names : /\ AddResource(Step.type, n, Step.version, ok)
                             /\ asked' = asked \union {<<Step.type, n>>}

ResourceIsUpdated(ok) ==
    /\ Stepping({"update"})
    /\ \E n \in Step.names : UpdateResource(Step.type, n, Step.version, ok)
    /\ asked' = asked

\* the version is what was recorded for the resource, if anything
ResourceIsRemoved(ok) ==
    /\ Stepping({"remove"})
    /\ \E n \in Step.names, v \in Versions : /\ RemoveResource(Step.type, n, v, ok)
                                             /\ asked' = asked \ {<<Step.type, n>>}

Called(ok) ==
    TargetSetup(ok) \/ ResourceIsAdded(ok) \/ ResourceIsUpdated(ok) \/ ResourceIsRemoved(ok)

\* the call fails, or its answer is lost, or the call itself
CallSucceeds == Called(TRUE) /\ StepPasses
CallFails    == (\E ok \in BOOLEAN : Called(ok)) /\ StepFails
CallIsLost   == Stepping({"setup"} \union Changes) /\ StepFails /\ UNCHANGED target

AdapterStep ==
    /\ CallSucceeds \/ CallFails \/ CallIsLost
    /\ UNCHANGED <<given, vi, fi, suite, runner, use, results>>

-----------------------------------------------------------------------------
(* Steps on the stream.                                                     *)

\* getBuilder and the builders: the RPC method of the stream
Method(srv) == [service |-> IF suite.aggregated THEN "ADS" ELSE srv,
                incremental |-> suite.incremental]

StreamsOf(r) == {s \in streams : s.runner = r}

\* the scenario's first subscription opens a stream: in r.Service if it opens
OpenStream ==
    /\ Stepping({"subscribe"}) /\ StreamsOf(bound) = {}
    /\ touched' = touched \union {<<bound, This>>}
    /\ \/ /\ StepPasses
          /\ streams' = streams \union
                {[runner |-> bound, scenario |-> This, method |-> Method(Step.type)]}
          /\ sent' = sent \union {[method |-> Method(Step.type), service |-> Step.type]}
       \/ StepFails /\ UNCHANGED <<streams, sent>>
    /\ UNCHANGED <<given, vi, fi, suite, runner, target, results>>

\* what follows goes to the stream there is, whatever its service
ReuseStream ==
    /\ Stepping(Requests) /\ StreamsOf(bound) # {}
    /\ touched' = touched \union {<<bound, This>>}
    /\ StepPasses
    /\ sent' = sent \union {[method |-> s.method, service |-> Step.type] :
                              s \in StreamsOf(bound)}
    /\ UNCHANGED <<given, vi, fi, suite, runner, streams, target, results>>

\* a step that waits and judges
JudgingStep ==
    /\ Stepping(Judgements)
    /\ StepPasses \/ StepFails
    /\ UNCHANGED <<given, vi, fi, suite, runner, use, target, results>>

\* ServiceToTypeURL knows no such service: the step fails before it has touched
\* anything
RequestIsRefused ==
    /\ Stepping(Requests) /\ StepFails
    /\ UNCHANGED <<given, vi, fi, suite, runner, use, target, results>>

\* a step after the one that failed, for which the After hook has been called
SkipStep ==
    /\ phase = "skipping" /\ si <= Len(Scenario.steps)
    /\ CountSkipped /\ Verdict("skipped")
    /\ si' = si + 1
    /\ UNCHANGED <<phase, given, vi, fi, failed, suite, runner, use, target, results>>

\* The goroutines of a stream outlive their scenario: they go on recording, in
\* the runner that opened it.
StreamRecords ==
    /\ phase \notin {"exited", "fatal", "crashed"}
    /\ \E s \in streams : touched' = touched \union {<<s.runner, s.scenario>>}
    /\ UNCHANGED <<phase, given, place, failed, suite, runner, streams, sent, target,
                   counts, results>>

-----------------------------------------------------------------------------
(* The After hook, which godog calls at the step that fails, or at the last. *)

StepsOver == phase = "steps" /\ (failed \/ si = Len(Scenario.steps) + 1)

\* Mutant: the adapter keeps its state between scenarios.
AfterHookKeepsState ==
    /\ StepsOver
    /\ phase' = "skipping"
    /\ UNCHANGED <<given, place, failed, suite, runner, use, target, counts, results>>

\* the After hook: ClearState
AfterHook ==
    /\ StepsOver
    /\ ClearState
    /\ phase' = "skipping"
    /\ UNCHANGED <<given, place, failed, suite, runner, use, asked, counts, results>>

\* ClearState fails, as it must when the adapter has exited: the error is
\* logged, and then the response is read, which is nil
AfterHookPanics ==
    /\ StepsOver
    /\ phase' = "crashed"
    /\ UNCHANGED <<given, place, failed, suite, runner, use, target, counts, results>>

\* no step is left to skip: godog goes on to the next scenario
ScenarioEnds ==
    /\ phase = "skipping" /\ si = Len(Scenario.steps) + 1
    /\ phase' = "suite"
    /\ UNCHANGED <<given, place, failed, suite, runner, use, target, counts, results>>

ScenarioNext ==
    \/ InitScenario \/ BeforeHook \/ AdapterStep \/ OpenStream \/ ReuseStream
    \/ RequestIsRefused \/ JudgingStep \/ StreamRecords
    \/ AfterHook \/ AfterHookPanics \/ SkipStep \/ ScenarioEnds

Next == MainNext \/ ScenarioNext

Spec == Init /\ [][Next]_vars

-----------------------------------------------------------------------------
(* Properties.                                                              *)

PlaceOK ==
    /\ phase \in {"start", "main", "suite", "before", "steps", "skipping",
                  "exited", "fatal", "crashed"}
    /\ settings.variants \in Seq(AllVariants) /\ settings.adapter \in BOOLEAN
    /\ features \in FeatureFiles
    /\ vi \in 1..(Len(settings.variants) + 1) /\ fi \in Nat /\ si \in Nat
    /\ phase \in {"suite", "before", "steps", "skipping"} => vi <= Len(settings.variants)
    /\ phase \in {"before", "steps", "skipping"} => fi \in Selected
    /\ phase \in {"steps", "skipping"} => si \in 1..(Len(Scenario.steps) + 1)
    /\ failed \in BOOLEAN
    /\ suite \in [incremental : BOOLEAN, aggregated : BOOLEAN]

\* The process is at a variant that was asked for, a scenario that its tags select
\* and a step there is; the state asked for and the adapter's are of their types.
TypeOK ==
    /\ PlaceOK
    /\ created \in Nat /\ current \in 0..created /\ bound \in 0..created
    /\ asked \subseteq Types \X Names
    /\ AdapterTypeOK

\* While a scenario runs, its steps work on a runner that no other scenario has
\* written to, nor goroutine of one: although LoadSteps binds them before the
\* Before hook makes the scenario's fresh runner, to the one made for the last.
RunnerIsOwn ==
    phase = "steps" => \A t \in touched : t[1] = bound => t[2] = This

\* The adapter never holds a resource that the running scenario did not ask for,
\* whatever calls of it or of an earlier one failed or were lost.
StateIsOwn == phase = "steps" => Held \subseteq asked

\* What a step waits for can be had: the adapter holds the resources that the
\* step names, at the version it names, and not those whose removal it awaits.
\* It takes all of the scenario's calls, and UpdateResource to keep the other
\* types, AddResource to find a resource of its type.
ExpectedIsHeld ==
    /\ Stepping({"receives", "receivesOnly", "single"}) =>
         /\ {Step.type} \X Step.names \subseteq Held
         /\ cache.version[Step.type] = Step.version
    /\ Stepping({"receivesNotice"}) => ({Step.type} \X Step.names) \intersect Held = {}

\* A stream only ever carries requests for its service, or is aggregated: the
\* tags keep scenarios with two services off the other variants.
StreamServesType ==
    \A q \in sent : q.method.service \in {q.service, "ADS"}

\* The formatter prints one verdict for every scenario that is over, and FAILED
\* for those that the results list among the failed ones.
VerdictsAgree ==
    phase = "suite" =>
        /\ {reported[k].scenario : k \in DOMAIN reported} = {i \in Selected : i <= fi}
        /\ \A j, k \in DOMAIN reported : reported[j].scenario = reported[k].scenario => j = k
        /\ {reported[k].scenario : k \in {j \in DOMAIN reported : reported[j].failed}}
              = {tally.failedScenarios[k] : k \in DOMAIN tally.failedScenarios}

\* Nothing is lost between the formatter and the final results: when the harness
\* exits, every variant asked for is reported, every step of every scenario
\* selected is counted once, and as many failures are listed as steps failed.
StepsOf(v) ==
    LET tags   == TagsOf(NewSuite(v)) \union settings.tags
        chosen == {i \in DOMAIN features : tags \subseteq features[i].tags}
    IN  UNION {{<<i, j>> : j \in DOMAIN features[i].steps} : i \in chosen}

ResultsComplete ==
    phase = "exited" =>
        /\ results.variants = settings.variants
        /\ results.total = results.passed + results.failed + results.skipped
        /\ results.total = Cardinality(UNION {{<<k, s>> : s \in StepsOf(settings.variants[k])} :
                                                k \in DOMAIN settings.variants})
        /\ results.failures = results.failed
=============================================================================
