---------------------------- MODULE SuiteProofs ----------------------------
(***************************************************************************)
(* For all command lines and feature files: the harness keeps its place in *)
(* them, every scenario works on a runner of its own and on a target that  *)
(* holds nothing of another one, every stream serves what is asked on it,  *)
(* and the verdicts agree with the results.                                *)
(***************************************************************************)
EXTENDS Suite, AdapterProofs, SequenceTheorems

-----------------------------------------------------------------------------
(* Types.                                                                   *)

TypeInv == TypeOK /\ (phase = "start" => vi = 1)

\* Names that pass ParseSupportedVariants are of the four variants.
LEMMA ParsedAreVariants ==
    ASSUME NEW names \in Seq(Words), ParseSupportedVariants(names)
    PROVE  names \in Seq(AllVariants)
<1>1. \A i \in 1..Len(names) : names[i] \in AllVariants
  BY DEF ParseSupportedVariants
<1>2. names \in [1..Len(names) -> AllVariants] /\ Len(names) \in Nat
  BY <1>1
<1> QED BY <1>2

\* A scenario of a feature file has tags and steps of the declared kinds.
LEMMA ScenarioIsTyped ==
    ASSUME TypeOK, NEW i \in DOMAIN features
    PROVE  /\ features[i].tags \subseteq Tags
           /\ features[i].steps \in Seq(Steps) /\ Len(features[i].steps) \in Nat \ {0}
           /\ i \in Nat
<1> DEFINE S == [tags : SUBSET Tags, steps : Seq(Steps) \ {<<>>}]
<1>1. features \in Seq(S)
  BY FeatureFilesAssumption DEF TypeOK, PlaceOK
<1> HIDE DEF S
<1>2. i \in 1..Len(features) /\ Len(features) \in Nat
  BY <1>1, LenProperties
<1>3. features[i] \in S
  BY <1>1, <1>2, ElementOfSeq
<1>4. features[i].tags \subseteq Tags /\ features[i].steps \in Seq(Steps) \ {<<>>}
  BY <1>3 DEF S
<1> QED BY <1>2, <1>4, EmptySeq

\* The step that is at is one that LoadSteps binds.
LEMMA StepIsTyped ==
    ASSUME TypeOK, NEW ops, Stepping(ops)
    PROVE  /\ Step \in Steps /\ Step.op \in ops
           /\ si + 1 \in 1..(Len(Scenario.steps) + 1)
<1>1. fi \in DOMAIN features
  BY DEF TypeOK, PlaceOK, Stepping, Selected
<1>2. Scenario.steps \in Seq(Steps) /\ si \in 1..Len(Scenario.steps)
  BY <1>1, ScenarioIsTyped DEF TypeOK, PlaceOK, Stepping, Scenario
<1> QED BY <1>2 DEF Step, Stepping

\* What the adapter is asked for is of its types.
LEMMA ArgumentsAreTyped ==
    ASSUME TypeOK, NEW ops, Stepping(ops)
    PROVE  /\ ops = {"setup"} => Step.types \subseteq Types
           /\ ops \subseteq Changes \union Requests => Step.type \in Types
           /\ ops \subseteq {"setup"} \union Changes
                => Step.names \subseteq Names /\ Step.version \in Versions
  BY StepIsTyped DEF Steps, Changes, Requests, Judgements

LEMMA UntouchedIsTyped ==
    ASSUME AdapterTypeOK, UNCHANGED adapterVars
    PROVE  AdapterTypeOK'
  BY DEF AdapterTypeOK, adapterVars

\* A call of the adapter keeps what was asked for and the snapshot of their types.
LEMMA CalledIsTyped ==
    ASSUME TypeOK, NEW ok \in BOOLEAN, Called(ok)
    PROVE  AdapterTypeOK' /\ asked' \subseteq Types \X Names
<1>1. CASE TargetSetup(ok)
  <2>1. Step.types \X Step.names \in SUBSET (Types \X Names) /\ Step.version \in Versions
    BY <1>1, ArgumentsAreTyped DEF TargetSetup
  <2> QED BY <1>1, <2>1, SetStateKeepsType DEF TargetSetup
<1>2. CASE ResourceIsAdded(ok)
  <2>1. Step.type \in Types /\ Step.names \subseteq Names /\ Step.version \in Versions
    BY <1>2, ArgumentsAreTyped DEF ResourceIsAdded, Changes
  <2> QED BY <1>2, <2>1, AddKeepsType DEF ResourceIsAdded, TypeOK
<1>3. CASE ResourceIsUpdated(ok)
  <2>1. Step.type \in Types /\ Step.names \subseteq Names /\ Step.version \in Versions
    BY <1>3, ArgumentsAreTyped DEF ResourceIsUpdated, Changes
  <2> QED BY <1>3, <2>1, UpdateKeepsType DEF ResourceIsUpdated, TypeOK
<1>4. CASE ResourceIsRemoved(ok)
  <2>1. Step.type \in Types /\ Step.names \subseteq Names
    BY <1>4, ArgumentsAreTyped DEF ResourceIsRemoved, Changes
  <2> QED BY <1>4, <2>1, RemoveKeepsType DEF ResourceIsRemoved, TypeOK
<1> QED BY <1>1, <1>2, <1>3, <1>4 DEF Called

\* Every step moves the place by one and leaves the rest of it alone.
LEMMA StepKeepsPlace ==
    ASSUME TypeOK, phase \in {"steps", "skipping"}, si <= Len(Scenario.steps),
           UNCHANGED <<given, vi, fi, suite, runner>>,
           si' = si + 1, failed' \in BOOLEAN, phase' = phase
    PROVE  PlaceOK' /\ phase' # "start"
<1>1. fi \in DOMAIN features
  BY DEF TypeOK, PlaceOK, Selected
<1>2. Len(Scenario.steps) \in Nat
  BY <1>1, ScenarioIsTyped DEF Scenario
<1>3. Scenario' = Scenario /\ Selected' = Selected
  BY DEF Scenario, Selected, SetTags, given
<1> QED BY <1>2, <1>3 DEF TypeOK, PlaceOK, given

LEMMA ReadSettingsIsTyped ==
    ASSUME TypeInv, ReadSettings
    PROVE  PlaceOK' /\ phase' # "start"
<1> PICK line \in CommandLines : ReadFlags(line) \/ ReadConfig(line) \/ SettingsAreWrong(line)
  BY DEF ReadSettings
<1>1. line.variants \in Seq(Words) /\ line.config.variants \in Seq(Words)
  BY CommandLinesAssumption
<1>2. VariantsOf(line.config) \in Seq(Words)
  BY <1>1 DEF VariantsOf
<1>3. settings'.variants \in Seq(AllVariants) /\ settings'.adapter \in BOOLEAN
  <2>1. CASE ReadFlags(line)
    <3>1. line.variants \in Seq(AllVariants)
      BY <1>1, <2>1, ParsedAreVariants DEF ReadFlags
    <3> QED BY <2>1, <3>1 DEF ReadFlags
  <2>2. CASE ReadConfig(line)
    <3>1. VariantsOf(line.config) \in Seq(AllVariants)
      BY <1>2, <2>2, ParsedAreVariants DEF ReadConfig, ValuesFromConfig
    <3> QED BY <2>2, <3>1 DEF ReadConfig
  <2>3. CASE SettingsAreWrong(line)
    BY <2>3 DEF SettingsAreWrong, TypeInv, TypeOK, PlaceOK
  <2> QED BY <2>1, <2>2, <2>3
<1>4. Len(settings'.variants) \in Nat
  BY <1>3
<1>5. vi' = 1 /\ fi' = fi /\ si' = si /\ failed' = failed /\ suite' = suite
      /\ features' = features /\ phase' \in {"main", "fatal"}
  BY DEF ReadSettings, place, TypeInv, ReadFlags, ReadConfig, SettingsAreWrong
<1> QED BY <1>3, <1>4, <1>5 DEF TypeInv, TypeOK, PlaceOK

LEMMA NewSuiteIsTyped ==
    ASSUME NEW v
    PROVE  NewSuite(v) \in [incremental : BOOLEAN, aggregated : BOOLEAN]
<1> DEFINE incremental == v \in {"incremental non-aggregated", "incremental aggregated"}
           aggregated  == v \in {"sotw aggregated", "incremental aggregated"}
<1>1. incremental \in BOOLEAN /\ aggregated \in BOOLEAN
  OBVIOUS
<1>2. NewSuite(v) = [incremental |-> incremental, aggregated |-> aggregated]
  BY DEF NewSuite
<1> HIDE DEF incremental, aggregated
<1> QED BY <1>1, <1>2

\* FreshRunner and what binds a runner keep runners numbers of those made.
LEMMA SuiteTypeStep == TypeInv /\ [Next]_vars => TypeInv'
<1> SUFFICES ASSUME TypeInv, [Next]_vars PROVE TypeInv'
  OBVIOUS
<1>0. TypeOK
  BY DEF TypeInv
<1>1. UNCHANGED target => AdapterTypeOK' /\ asked' \subseteq Types \X Names
  BY UntouchedIsTyped DEF TypeInv, TypeOK, target
<1>2. UNCHANGED runner => created' \in Nat /\ current' \in 0..created' /\ bound' \in 0..created'
  BY DEF TypeInv, TypeOK, runner
<1>3. UNCHANGED given /\ suite' = suite => Selected' = Selected
  BY DEF given, Selected, SetTags
<1> DEFINE Kept == UNCHANGED <<runner, target>> /\ PlaceOK' /\ phase' # "start" => TypeInv'
<1>4. Kept
  BY <1>1, <1>2 DEF TypeInv, TypeOK
<1> HIDE DEF Kept
<1>5. CASE MainNext
  <2>1. CASE ReadSettings
    BY <1>4, <2>1, ReadSettingsIsTyped DEF Kept, ReadSettings
  <2>2. CASE StartRunner
    <3>1. PlaceOK' /\ phase' # "start"
      <4>1. suite' \in [incremental : BOOLEAN, aggregated : BOOLEAN]
        BY <2>2, NewSuiteIsTyped DEF StartRunner
      <4>2. phase' = "suite" /\ fi' = 0 /\ UNCHANGED <<given, vi, si, failed>>
            /\ vi <= Len(settings.variants)
        BY <2>2 DEF StartRunner
      <4> QED BY <4>1, <4>2 DEF TypeInv, TypeOK, PlaceOK, given
    <3>2. created' \in Nat /\ current' \in 0..created' /\ bound' \in 0..created'
      BY <2>2 DEF StartRunner, FreshRunner, TypeInv, TypeOK
    <3> QED BY <1>1, <2>2, <3>1, <3>2 DEF StartRunner, TypeInv, TypeOK
  <2>3. CASE ConnectFails
    <3>1. PlaceOK' /\ phase' # "start"
      BY <1>3, <2>3 DEF ConnectFails, TypeInv, TypeOK, PlaceOK, given, place
    <3> QED BY <1>4, <2>3, <3>1 DEF Kept, ConnectFails
  <2>4. CASE UpdateResults
    <3>1. Len(settings.variants) \in Nat
      BY DEF TypeInv, TypeOK, PlaceOK
    <3>2. PlaceOK' /\ phase' # "start"
      BY <2>4, <3>1 DEF UpdateResults, TypeInv, TypeOK, PlaceOK, given
    <3> QED BY <1>4, <2>4, <3>2 DEF Kept, UpdateResults
  <2>5. CASE PrintResults
    <3>1. PlaceOK' /\ phase' # "start"
      BY <1>3, <2>5 DEF PrintResults, TypeInv, TypeOK, PlaceOK, given, place
    <3> QED BY <1>4, <2>5, <3>1 DEF Kept, PrintResults
  <2> QED BY <1>5, <2>1, <2>2, <2>3, <2>4, <2>5 DEF MainNext
<1>6. CASE InitScenario
  <2>1. fi' \in Selected /\ fi' \in DOMAIN features
    BY <1>6 DEF InitScenario, IsNext, Selected
  <2>2. fi' \in Nat
    BY <1>0, <2>1, ScenarioIsTyped
  <2>3. PlaceOK' /\ phase' # "start"
    BY <1>3, <1>6, <2>1, <2>2 DEF InitScenario, TypeInv, TypeOK, PlaceOK, given
  <2>4. created' \in Nat /\ current' \in 0..created' /\ bound' \in 0..created'
    BY <1>6 DEF InitScenario, TypeInv, TypeOK
  <2> QED BY <1>1, <1>6, <2>3, <2>4 DEF InitScenario, TypeInv, TypeOK
<1>7. CASE BeforeHook
  <2>1. fi \in DOMAIN features
    BY <1>7 DEF BeforeHook, TypeInv, TypeOK, PlaceOK, Selected
  <2>2. Len(Scenario'.steps) \in Nat
    BY <1>0, <1>7, <2>1, ScenarioIsTyped DEF BeforeHook, Scenario, given
  <2>3. PlaceOK' /\ phase' # "start"
    <3>1. phase' = "steps" /\ fi' = fi /\ fi \in Selected /\ Selected' = Selected
      BY <1>3, <1>7 DEF BeforeHook, TypeInv, TypeOK, PlaceOK, given
    <3>2. si' \in 1..(Len(Scenario'.steps) + 1) /\ si' \in Nat
      BY <1>7, <2>2 DEF BeforeHook
    <3> QED BY <1>7, <3>1, <3>2 DEF BeforeHook, TypeInv, TypeOK, PlaceOK, given
  <2>4. created' \in Nat /\ current' \in 0..created' /\ bound' \in 0..created'
    BY <1>7 DEF BeforeHook, FreshRunner, TypeInv, TypeOK
  <2>5. AdapterTypeOK' /\ asked' \subseteq Types \X Names
    BY <1>7, UntouchedIsTyped DEF BeforeHook, TypeInv, TypeOK
  <2> QED BY <2>3, <2>4, <2>5 DEF TypeInv, TypeOK
<1>8. CASE AdapterStep
  <2>1. AdapterTypeOK' /\ asked' \subseteq Types \X Names
    BY <1>0, <1>1, <1>8, CalledIsTyped DEF AdapterStep, CallSucceeds, CallFails, CallIsLost
  <2>2. phase = "steps" /\ si <= Len(Scenario.steps)
    BY <1>8 DEF AdapterStep, CallSucceeds, CallFails, CallIsLost, Called, Stepping,
                TargetSetup, ResourceIsAdded, ResourceIsUpdated, ResourceIsRemoved
  <2>3. si' = si + 1 /\ failed' \in BOOLEAN /\ phase' = phase
    BY <1>0, <1>8 DEF AdapterStep, CallSucceeds, CallFails, CallIsLost, StepPasses, StepFails,
                      TypeOK, PlaceOK
  <2>4. PlaceOK' /\ phase' # "start"
    BY <1>0, <1>8, <2>2, <2>3, StepKeepsPlace DEF AdapterStep
  <2> QED BY <1>2, <1>8, <2>1, <2>4 DEF AdapterStep, TypeInv, TypeOK
<1>9. CASE OpenStream \/ ReuseStream \/ RequestIsRefused \/ JudgingStep \/ SkipStep
  <2>1. phase \in {"steps", "skipping"} /\ si <= Len(Scenario.steps)
    BY <1>9 DEF OpenStream, ReuseStream, RequestIsRefused, JudgingStep, SkipStep, Stepping
  <2>2. si' = si + 1 /\ failed' \in BOOLEAN /\ phase' = phase
    BY <1>0, <1>9 DEF OpenStream, ReuseStream, RequestIsRefused, JudgingStep, SkipStep,
                      StepPasses, StepFails, TypeOK, PlaceOK
  <2>3. UNCHANGED <<given, vi, fi, suite, runner, target>>
    BY <1>9 DEF OpenStream, ReuseStream, RequestIsRefused, JudgingStep, SkipStep
  <2>4. PlaceOK' /\ phase' # "start"
    BY <1>0, <2>1, <2>2, <2>3, StepKeepsPlace
  <2> QED BY <1>4, <2>3, <2>4 DEF Kept
<1>10. CASE StreamRecords
  <2>1. UNCHANGED <<phase, given, place, failed, suite, runner, target>>
    BY <1>10 DEF StreamRecords
  <2> QED BY <1>1, <1>2, <1>3, <2>1 DEF TypeInv, TypeOK, PlaceOK, given, place, Scenario
<1>11. CASE AfterHook \/ AfterHookPanics
  <2>1. UNCHANGED <<given, place, failed, suite, runner, asked>>
        /\ phase = "steps" /\ phase' \in {"skipping", "crashed"}
    BY <1>11 DEF AfterHook, AfterHookPanics, StepsOver, target
  <2>2. PlaceOK'
    BY <1>3, <2>1 DEF TypeInv, TypeOK, PlaceOK, given, place, Scenario
  <2>3. AdapterTypeOK'
    BY <1>0, <1>1, <1>11, ClearKeepsType DEF AfterHook, AfterHookPanics, TypeOK
  <2> QED BY <1>2, <2>1, <2>2, <2>3 DEF TypeInv, TypeOK
<1>12. CASE ScenarioEnds
  <2>1. /\ UNCHANGED <<given, place, failed, suite, runner, target>>
        /\ phase = "skipping" /\ phase' = "suite"
    BY <1>12 DEF ScenarioEnds
  <2>2. PlaceOK' /\ phase' # "start"
    BY <1>3, <2>1 DEF TypeInv, TypeOK, PlaceOK, given, place
  <2> QED BY <1>4, <2>1, <2>2 DEF Kept
<1>13. CASE UNCHANGED vars
  BY <1>1, <1>2, <1>3, <1>13 DEF vars, given, place, TypeInv, TypeOK, PlaceOK, Scenario
<1> QED BY <1>5, <1>6, <1>7, <1>8, <1>9, <1>10, <1>11, <1>12, <1>13 DEF Next, ScenarioNext

LEMMA SuiteTypeInit == Init => TypeInv
<1>1. <<>> \in Seq(AllVariants) /\ Len(<<>>) = 0
  BY EmptySeq
<1>2. Init => PlaceOK /\ phase = "start" /\ vi = 1
  <2> SUFFICES ASSUME Init PROVE PlaceOK /\ phase = "start" /\ vi = 1
    OBVIOUS
  <2>1. settings.variants = <<>> /\ settings.adapter = FALSE
    BY DEF Init
  <2>2. vi \in 1..(Len(settings.variants) + 1)
    BY <1>1, <2>1 DEF Init
  <2>3. suite \in [incremental : BOOLEAN, aggregated : BOOLEAN]
    BY DEF Init
  <2> QED BY <1>1, <2>1, <2>2, <2>3 DEF Init, PlaceOK
<1> QED BY <1>2, InitAdapterIsTyped DEF Init, TypeInv, TypeOK

\* Whatever the settings, the features and the calls that fail (main.go, suite.go,
\* fmt_xds.go), the harness keeps its place in them, and the state it sets its type.
THEOREM SuiteTypeCorrect == Spec => []TypeOK
<1>1. Spec => []TypeInv
  BY SuiteTypeInit, SuiteTypeStep, PTL DEF Spec
<1>2. TypeInv => TypeOK
  BY DEF TypeInv
<1> QED BY <1>1, <1>2, PTL

-----------------------------------------------------------------------------
(* Runners.  Between scenarios, Suite.Runner is one that nobody has written *)
(* to; the next scenario's steps take it, while its Before hook already     *)
(* makes another.  A stream has written to its runner when it was opened.   *)

RunnerInv ==
    /\ \A s \in streams : <<s.runner, s.scenario>> \in touched
    /\ \A t \in touched : t[1] \in 0..created
    /\ phase = "suite" => \A t \in touched : t[1] < current
    /\ phase = "before" => bound = current /\ \A t \in touched : t[1] < bound
    /\ phase \in {"steps", "skipping"} =>
         bound < current /\ \A t \in touched : t[1] < bound \/ (t[1] = bound /\ t[2] = This)

\* Steps and hooks that open no stream and bind no runner.
LEMMA RunnersUntouched ==
    ASSUME RunnerInv, UNCHANGED <<touched, streams, runner, vi, fi>>,
           phase' = phase \/ phase' \in {"main", "exited", "fatal", "crashed"}
    PROVE  RunnerInv'
  BY DEF RunnerInv, runner, This

LEMMA RunnerStep == TypeInv /\ RunnerInv /\ [Next]_vars => RunnerInv'
<1> SUFFICES ASSUME TypeInv, RunnerInv, [Next]_vars PROVE RunnerInv'
  OBVIOUS
<1>0. created \in Nat /\ current \in 0..created /\ bound \in 0..created
  BY DEF TypeInv, TypeOK
<1>1. CASE MainNext
  <2>1. CASE StartRunner
    BY <1>0, <2>1 DEF StartRunner, FreshRunner, RunnerInv, use
  <2>2. CASE ReadSettings \/ ConnectFails \/ UpdateResults \/ PrintResults
    <3>1. UNCHANGED <<touched, streams, created>>
          /\ phase' \notin {"suite", "before", "steps", "skipping"}
      BY <2>2 DEF ReadSettings, ReadFlags, ReadConfig, SettingsAreWrong, ConnectFails,
                  UpdateResults, PrintResults, runner, use
    <3> QED BY <3>1 DEF RunnerInv
  <2> QED BY <1>1, <2>1, <2>2 DEF MainNext
<1>2. CASE InitScenario
  <2>1. phase = "suite" /\ phase' = "before" /\ bound' = current
        /\ UNCHANGED <<touched, streams, current, created>>
    BY <1>2 DEF InitScenario, use
  <2> QED BY <1>0, <2>1 DEF RunnerInv
<1>3. CASE BeforeHook
  BY <1>0, <1>3 DEF BeforeHook, FreshRunner, RunnerInv, use
<1>4. CASE AdapterStep \/ RequestIsRefused \/ JudgingStep \/ SkipStep
  <2>1. UNCHANGED <<touched, streams, runner, vi, fi, phase>>
    BY <1>4 DEF AdapterStep, CallSucceeds, CallFails, CallIsLost, RequestIsRefused,
                JudgingStep, SkipStep, StepPasses, StepFails, use
  <2> QED BY <2>1, RunnersUntouched
<1>5. CASE OpenStream \/ ReuseStream
  <2>1. phase = "steps" /\ touched' = touched \union {<<bound, This>>}
        /\ UNCHANGED <<runner, vi, fi, phase>>
    BY <1>5 DEF OpenStream, ReuseStream, Stepping, StepPasses, StepFails
  <2>2. \A s \in streams' : s \in streams \/ (s.runner = bound /\ s.scenario = This)
    <3>1. \/ streams' = streams
          \/ streams' = streams \union
               {[runner |-> bound, scenario |-> This, method |-> Method(Step.type)]}
      BY <1>5 DEF OpenStream, ReuseStream
    <3> QED BY <3>1
  <2> QED BY <1>0, <2>1, <2>2 DEF RunnerInv, runner, This
<1>6. CASE StreamRecords
  <2>1. touched' = touched /\ UNCHANGED <<streams, runner, vi, fi, phase>>
    BY <1>6 DEF StreamRecords, RunnerInv, place
  <2> QED BY <2>1, RunnersUntouched
<1>7. CASE AfterHook \/ AfterHookPanics \/ ScenarioEnds
  <2>1. UNCHANGED <<touched, streams, runner, vi, fi>>
        /\ \/ phase = "steps" /\ phase' \in {"skipping", "crashed"}
           \/ phase = "skipping" /\ phase' = "suite"
    BY <1>7 DEF AfterHook, AfterHookPanics, ScenarioEnds, StepsOver, use, place
  <2> QED BY <1>0, <2>1 DEF RunnerInv, runner, This
<1>8. CASE UNCHANGED vars
  BY <1>8, RunnersUntouched DEF vars, use, place
<1> QED BY <1>1, <1>2, <1>3, <1>4, <1>5, <1>6, <1>7, <1>8 DEF Next, ScenarioNext

\* No scenario's steps work on a runner that another scenario has written to, nor a
\* goroutine of one, although suite.go binds them before its hook makes a runner.
THEOREM RunnerIsOwnHolds == Spec => []RunnerIsOwn
<1>1. Init => RunnerInv
  BY DEF Init, RunnerInv
<1>2. Spec => [](TypeInv /\ RunnerInv)
  BY <1>1, SuiteTypeInit, SuiteTypeStep, RunnerStep, PTL DEF Spec
<1>3. TypeInv /\ RunnerInv => RunnerIsOwn
  BY DEF TypeInv, TypeOK, RunnerInv, RunnerIsOwn
<1> QED BY <1>2, <1>3, PTL

-----------------------------------------------------------------------------
(* The target's state.                                                      *)

StateInv ==
    /\ ~cache.held => Held = {}
    /\ phase \in {"start", "main", "suite", "before", "skipping"} => Held = {}
    /\ phase = "steps" => Held \subseteq asked

\* What the adapter holds after each of its calls.
LEMMA SetStateHolds ==
    ASSUME NEW wanted \in SUBSET (Types \X Names), NEW v, NEW ok, SetState(wanted, v, ok)
    PROVE  cache'.held /\ Held' = wanted
<1>1. \A a \in wanted : newResource(a[1], a[2]).type = a[1] /\ newResource(a[1], a[2]).name = a[2]
  BY NewResourceIsOfType
<1>2. cache'.held /\ cache'.resources = {newResource(a[1], a[2]) : a \in wanted}
  BY DEF SetState, SetSnapshot
<1>3. Held' = {<<newResource(a[1], a[2]).type, newResource(a[1], a[2]).name>> : a \in wanted}
  BY <1>2 DEF Held
<1> QED BY <1>1, <1>2, <1>3

LEMMA UpdateHolds ==
    ASSUME AdapterTypeOK, NEW t, NEW n, NEW v, NEW ok, UpdateResource(t, n, v, ok)
    PROVE  (cache'.held <=> cache.held) /\ Held' = Held
<1>1. CASE NoState(ok)
  BY <1>1 DEF NoState, adapterVars, Held
<1>2. CASE ~NoState(ok)
  <2> DEFINE Updated(r) == IF r.type = t /\ r.name = n THEN updateForType(r) ELSE r
  <2>1. \A r \in cache.resources : Updated(r).type = r.type /\ Updated(r).name = r.name
    BY UpdateKeepsName DEF AdapterTypeOK
  <2>2. /\ cache.held /\ cache'.held
        /\ cache'.resources = {Updated(r) : r \in cache.resources}
    BY <1>2 DEF UpdateResource, Rebuilt, SetSnapshot
  <2> HIDE DEF Updated
  <2>3. Held' = {<<r.type, r.name>> : r \in {Updated(q) : q \in cache.resources}}
    BY <2>2 DEF Held
  <2> QED BY <2>1, <2>2, <2>3 DEF Held
<1> QED BY <1>1, <1>2

LEMMA AddHolds ==
    ASSUME NEW t \in Types, NEW n \in Names, NEW v, NEW ok, AddResource(t, n, v, ok)
    PROVE  (cache'.held <=> cache.held) /\ Held' \subseteq Held \union {<<t, n>>}
           /\ (cache.held \/ Held' = Held)
  BY NewResourceIsOfType DEF AddResource, NoState, adapterVars, Rebuilt, SetSnapshot, Held

LEMMA RemoveHolds ==
    ASSUME NEW t, NEW n, NEW v, NEW ok, RemoveResource(t, n, v, ok)
    PROVE  (cache'.held <=> cache.held) /\ (cache.held => Held' \subseteq Held \ {<<t, n>>})
           /\ (cache.held \/ Held' = Held)
  BY DEF RemoveResource, NoState, adapterVars, Rebuilt, SetSnapshot, Held

\* A call asks for what it may add, and no longer for what it removes.
LEMMA CalledKeepsState ==
    ASSUME TypeOK, StateInv, NEW ok \in BOOLEAN, Called(ok)
    PROVE  (~cache'.held => Held' = {}) /\ Held' \subseteq asked'
<1>0. Held \subseteq asked /\ (~cache.held => Held = {})
  BY DEF StateInv, Called, TargetSetup, ResourceIsAdded, ResourceIsUpdated, ResourceIsRemoved,
         Stepping
<1>1. CASE TargetSetup(ok)
  <2>1. Step.types \X Step.names \in SUBSET (Types \X Names)
    BY <1>1, ArgumentsAreTyped DEF TargetSetup
  <2> QED BY <1>1, <2>1, SetStateHolds DEF TargetSetup
<1>2. CASE ResourceIsAdded(ok)
  <2>1. Step.type \in Types /\ Step.names \subseteq Names
    BY <1>2, ArgumentsAreTyped DEF ResourceIsAdded, Changes
  <2>2. PICK n \in Step.names : /\ AddResource(Step.type, n, Step.version, ok)
                                /\ asked' = asked \union {<<Step.type, n>>}
    BY <1>2 DEF ResourceIsAdded
  <2> QED BY <1>0, <2>1, <2>2, AddHolds
<1>3. CASE ResourceIsUpdated(ok)
  <2>1. PICK n \in Step.names : UpdateResource(Step.type, n, Step.version, ok)
    BY <1>3 DEF ResourceIsUpdated
  <2>2. asked' = asked /\ (cache'.held <=> cache.held) /\ Held' = Held
    BY <1>3, <2>1, UpdateHolds DEF ResourceIsUpdated, TypeOK
  <2> QED BY <1>0, <2>2
<1>4. CASE ResourceIsRemoved(ok)
  <2>1. PICK n \in Step.names, v \in Versions : /\ RemoveResource(Step.type, n, v, ok)
                                                /\ asked' = asked \ {<<Step.type, n>>}
    BY <1>4 DEF ResourceIsRemoved
  <2> QED BY <1>0, <2>1, RemoveHolds
<1> QED BY <1>1, <1>2, <1>3, <1>4 DEF Called

\* Steps and hooks that make no call.
LEMMA StateUntouched ==
    ASSUME StateInv, UNCHANGED target,
           \/ phase' = phase
           \/ phase' \in {"exited", "fatal", "crashed"}
           \/ {phase, phase'} \subseteq {"start", "main", "suite", "before", "skipping"}
    PROVE  StateInv'
  BY DEF StateInv, target, adapterVars, Held

LEMMA StateStep == TypeInv /\ StateInv /\ [Next]_vars => StateInv'
<1> SUFFICES ASSUME TypeInv, StateInv, [Next]_vars PROVE StateInv'
  OBVIOUS
<1>1. CASE MainNext \/ InitScenario
  <2>1. UNCHANGED target
        /\ \/ phase' \in {"exited", "fatal"}
           \/ {phase, phase'} \subseteq {"start", "main", "suite", "before"}
    BY <1>1 DEF MainNext, ReadSettings, ReadFlags, ReadConfig, SettingsAreWrong, StartRunner,
                ConnectFails, UpdateResults, PrintResults, InitScenario
  <2> QED BY <2>1, StateUntouched
<1>2. CASE BeforeHook
  BY <1>2 DEF BeforeHook, StateInv, adapterVars, Held
<1>3. CASE AdapterStep
  <2>1. CASE CallIsLost
    BY <2>1, StateUntouched DEF CallIsLost, StepFails
  <2>2. CASE CallSucceeds \/ CallFails
    <3>1. PICK ok \in BOOLEAN : Called(ok)
      BY <2>2 DEF CallSucceeds, CallFails
    <3>2. phase' = phase /\ phase = "steps"
      BY <2>2, <3>1 DEF CallSucceeds, CallFails, StepPasses, StepFails, Called, TargetSetup,
                        ResourceIsAdded, ResourceIsUpdated, ResourceIsRemoved, Stepping
    <3>3. (~cache'.held => Held' = {}) /\ Held' \subseteq asked'
      BY <3>1, CalledKeepsState DEF TypeInv
    <3> QED BY <3>2, <3>3 DEF StateInv
  <2> QED BY <1>3, <2>1, <2>2 DEF AdapterStep
<1>4. CASE \/ OpenStream \/ ReuseStream \/ RequestIsRefused
           \/ JudgingStep \/ SkipStep \/ StreamRecords
  <2>1. UNCHANGED target /\ phase' = phase
    BY <1>4 DEF OpenStream, ReuseStream, RequestIsRefused, JudgingStep, SkipStep,
                StreamRecords, StepPasses, StepFails
  <2> QED BY <2>1, StateUntouched
<1>5. CASE AfterHook
  BY <1>5 DEF AfterHook, ClearState, NoSnapshot, StateInv, Held
<1>6. CASE AfterHookPanics \/ ScenarioEnds
  BY <1>6, StateUntouched DEF AfterHookPanics, ScenarioEnds
<1>7. CASE UNCHANGED vars
  BY <1>7, StateUntouched DEF vars
<1> QED BY <1>1, <1>2, <1>3, <1>4, <1>5, <1>6, <1>7 DEF Next, ScenarioNext

\* The target never holds, during a scenario, a resource that this scenario did not
\* ask for, though calls fail or are lost (suite.go's After hook, adapter.go).
THEOREM StateIsOwnHolds == Spec => []StateIsOwn
<1>1. Init => StateInv
  BY DEF Init, InitAdapter, NoSnapshot, StateInv, Held
<1>2. Spec => [](TypeInv /\ StateInv)
  BY <1>1, SuiteTypeInit, SuiteTypeStep, StateStep, PTL DEF Spec
<1>3. StateInv => StateIsOwn
  BY DEF StateInv, StateIsOwn
<1> QED BY <1>2, <1>3, PTL

-----------------------------------------------------------------------------
(* Services.  A stream of a service's own was opened by a scenario whose    *)
(* tags keep it on such variants, and for a type that its requests are of.  *)

ServesItsScenario(s) ==
    LET i == s.scenario[2]
    IN  s.method.service = "ADS" \/
        /\ i \in DOMAIN features /\ "@non-aggregated" \in features[i].tags
        /\ \E j \in DOMAIN features[i].steps :
             /\ features[i].steps[j].op \in Requests
             /\ features[i].steps[j].type = s.method.service

ServiceInv == StreamServesType /\ \A s \in streams : ServesItsScenario(s)

\* Any request of a scenario may be sent on a stream that serves the scenario.
LEMMA ServedIsSame ==
    ASSUME TypeOK, Stepping(Requests), NEW s, ServesItsScenario(s), s.scenario = This
    PROVE  s.method.service \in {Step.type, "ADS"}
<1>1. fi \in DOMAIN features /\ features \in FeatureFiles /\ s.scenario[2] = fi
  BY DEF TypeOK, PlaceOK, Selected, Stepping, This
<1>2. Step = features[fi].steps[si] /\ Step.op \in Requests
  BY DEF Step, Scenario, Stepping
<1>3. si \in DOMAIN features[fi].steps
  <2>1. features[fi].steps \in Seq(Steps) /\ si \in Nat \ {0} /\ si <= Len(features[fi].steps)
    BY <1>1, ScenarioIsTyped DEF TypeOK, PlaceOK, Stepping, Scenario
  <2> QED BY <2>1
<1> QED BY <1>1, <1>2, <1>3, OneServiceAssumption DEF ServesItsScenario

\* The first subscription opens a stream of its type, or an aggregated one.
LEMMA OpenedServes ==
    ASSUME TypeOK, Stepping({"subscribe"}), NEW s, s.scenario = This,
           s.method = Method(Step.type)
    PROVE  ServesItsScenario(s)
<1>1. CASE suite.aggregated
  BY <1>1 DEF Method, ServesItsScenario
<1>2. CASE ~suite.aggregated
  <2>1. fi \in Selected /\ s.scenario[2] = fi /\ s.method.service = Step.type
    BY <1>2 DEF TypeOK, PlaceOK, Stepping, This, Method
  <2>2. fi \in DOMAIN features /\ "@non-aggregated" \in features[fi].tags
    BY <1>2, <2>1 DEF Selected, SetTags, TagsOf
  <2>3. Step = features[fi].steps[si] /\ Step.op \in Requests
    BY DEF Step, Scenario, Stepping, Requests
  <2>4. si \in DOMAIN features[fi].steps
    <3>1. features[fi].steps \in Seq(Steps) /\ si \in Nat \ {0} /\ si <= Len(features[fi].steps)
      BY <2>2, ScenarioIsTyped DEF TypeOK, PlaceOK, Stepping, Scenario
    <3> QED BY <3>1
  <2> QED BY <2>1, <2>2, <2>3, <2>4 DEF ServesItsScenario
<1> QED BY <1>1, <1>2

LEMMA ServiceStep == TypeInv /\ RunnerInv /\ ServiceInv /\ [Next]_vars => ServiceInv'
<1> SUFFICES ASSUME TypeInv, RunnerInv, ServiceInv, [Next]_vars PROVE ServiceInv'
  OBVIOUS
<1>0. features' = features
  BY DEF Next, MainNext, ScenarioNext, vars, given, ReadSettings, StartRunner, ConnectFails,
         UpdateResults, PrintResults, InitScenario, BeforeHook, AdapterStep, OpenStream,
         ReuseStream, RequestIsRefused, JudgingStep, SkipStep, StreamRecords, AfterHook,
         AfterHookPanics, ScenarioEnds
<1>1. \A s : ServesItsScenario(s) => ServesItsScenario(s)'
  BY <1>0 DEF ServesItsScenario
<1>2. CASE UNCHANGED <<streams, sent>>
  BY <1>0, <1>2 DEF ServiceInv, StreamServesType, ServesItsScenario
<1>3. CASE OpenStream
  <2> DEFINE s == [runner |-> bound, scenario |-> This, method |-> Method(Step.type)]
             q == [method |-> Method(Step.type), service |-> Step.type]
  <2>1. ServesItsScenario(s)
    BY <1>3, OpenedServes DEF OpenStream, TypeInv
  <2>2. q.method.service \in {q.service, "ADS"}
    BY DEF Method
  <2>3. \/ streams' = streams \union {s} /\ sent' = sent \union {q}
        \/ UNCHANGED <<streams, sent>>
    BY <1>3 DEF OpenStream
  <2> HIDE DEF s, q
  <2> QED BY <1>0, <1>2, <2>1, <2>2, <2>3 DEF ServiceInv, StreamServesType, ServesItsScenario
<1>4. CASE ReuseStream
  <2>1. ASSUME NEW s \in StreamsOf(bound)
        PROVE  s.method.service \in {Step.type, "ADS"}
    <3>1. s.scenario = This
      <4> DEFINE t == <<s.runner, s.scenario>>
      <4>1. t \in touched /\ t[1] = bound /\ t[2] = s.scenario
        BY <2>1 DEF RunnerInv, StreamsOf
      <4>2. phase = "steps" /\ bound \in Nat
        BY <1>4 DEF ReuseStream, Stepping, TypeInv, TypeOK
      <4> HIDE DEF t
      <4> QED BY <4>1, <4>2 DEF RunnerInv
    <3> QED BY <1>4, <2>1, <3>1, ServedIsSame DEF ReuseStream, StreamsOf, ServiceInv, TypeInv
  <2>2. streams' = streams
        /\ sent' = sent \union {[method |-> s.method, service |-> Step.type] :
                                  s \in StreamsOf(bound)}
    BY <1>4 DEF ReuseStream
  <2> QED BY <1>0, <2>1, <2>2 DEF ServiceInv, StreamServesType, ServesItsScenario
<1> QED BY <1>2, <1>3, <1>4
     DEF Next, MainNext, ScenarioNext, vars, use, ReadSettings, StartRunner, ConnectFails,
         UpdateResults, PrintResults, InitScenario, BeforeHook, AdapterStep,
         RequestIsRefused, JudgingStep, SkipStep, StreamRecords, AfterHook, AfterHookPanics,
         ScenarioEnds

\* Requests for a service go to a stream of that service or an aggregated one
\* (services.go's builders, steps.go), since the tags keep the scenarios with two
\* services off the other variants.
THEOREM StreamServesTypeHolds == Spec => []StreamServesType
<1>1. Init => ServiceInv /\ RunnerInv
  BY DEF Init, ServiceInv, StreamServesType, RunnerInv
<1>2. Spec => [](TypeInv /\ RunnerInv /\ ServiceInv)
  BY <1>1, SuiteTypeInit, SuiteTypeStep, RunnerStep, ServiceStep, PTL DEF Spec
<1>3. ServiceInv => StreamServesType
  BY DEF ServiceInv
<1> QED BY <1>2, <1>3, PTL

-----------------------------------------------------------------------------
(* Verdicts.  The sequences matter by the sets of scenarios that they name. *)

Verdicts == [scenario : Nat, failed : BOOLEAN]

Over(verdicts)   == {verdicts[k].scenario : k \in DOMAIN verdicts}
Failed(verdicts) == {verdicts[k].scenario : k \in {j \in DOMAIN verdicts : verdicts[j].failed}}
Once(verdicts)   ==
    \A j, k \in DOMAIN verdicts : verdicts[j].scenario = verdicts[k].scenario => j = k
Listed(scenarios) == {scenarios[k] : k \in DOMAIN scenarios}

VerdictInv ==
    /\ reported \in Seq(Verdicts) /\ Once(reported)
    /\ tally = [total |-> tally.total, passed |-> tally.passed, failed |-> tally.failed,
                skipped |-> tally.skipped, failedScenarios |-> tally.failedScenarios]
    /\ tally.failedScenarios \in Seq(Nat)
    /\ phase = "suite" =>
         /\ Over(reported) = {i \in Selected : i <= fi}
         /\ Failed(reported) = Listed(tally.failedScenarios)
    /\ phase = "before" =>
         /\ Over(reported) = {i \in Selected : i < fi}
         /\ Failed(reported) = Listed(tally.failedScenarios)
    /\ phase \in {"steps", "skipping"} =>
         /\ Over(reported) = {i \in Selected : i < fi}
                               \union {i \in {fi} : si > Len(Scenario.steps)}
         /\ Listed(tally.failedScenarios) = Failed(reported) \union {i \in {fi} : failed}
         /\ si > Len(Scenario.steps) /\ failed => fi \in Failed(reported)

\* One more verdict.
LEMMA AppendVerdict ==
    ASSUME NEW verdicts \in Seq(Verdicts), NEW v \in Verdicts
    PROVE  /\ Append(verdicts, v) \in Seq(Verdicts)
           /\ Over(Append(verdicts, v)) = Over(verdicts) \union {v.scenario}
           /\ Failed(Append(verdicts, v))
                = Failed(verdicts) \union {i \in {v.scenario} : v.failed}
           /\ Once(verdicts) /\ v.scenario \notin Over(verdicts) => Once(Append(verdicts, v))
<1> DEFINE after == Append(verdicts, v)
           n     == Len(verdicts)
<1>1. /\ after \in Seq(Verdicts) /\ n \in Nat
      /\ DOMAIN after = 1..(n + 1) /\ DOMAIN verdicts = 1..n
      /\ \A k \in 1..n : after[k] = verdicts[k]
      /\ after[n + 1] = v
  BY AppendProperties, LenProperties
<1> HIDE DEF after, n
<1>2. DOMAIN after = DOMAIN verdicts \union {n + 1} /\ n + 1 \notin DOMAIN verdicts
  BY <1>1
<1>3. \A k \in DOMAIN verdicts : after[k] = verdicts[k]
  BY <1>1
<1>4. Over(after) = Over(verdicts) \union {v.scenario}
  BY <1>1, <1>2, <1>3 DEF Over
<1>5. Failed(after) = Failed(verdicts) \union {i \in {v.scenario} : v.failed}
  BY <1>1, <1>2, <1>3 DEF Failed
<1>6. Once(verdicts) /\ v.scenario \notin Over(verdicts) => Once(after)
  BY <1>1, <1>2, <1>3 DEF Once, Over
<1> QED BY <1>1, <1>4, <1>5, <1>6 DEF after

LEMMA AppendListed ==
    ASSUME NEW scenarios \in Seq(Nat), NEW i \in Nat
    PROVE  /\ Append(scenarios, i) \in Seq(Nat)
           /\ Listed(Append(scenarios, i)) = Listed(scenarios) \union {i}
<1> DEFINE after == Append(scenarios, i)
           n     == Len(scenarios)
<1>1. /\ after \in Seq(Nat) /\ n \in Nat
      /\ DOMAIN after = 1..(n + 1) /\ DOMAIN scenarios = 1..n
      /\ \A k \in 1..n : after[k] = scenarios[k]
      /\ after[n + 1] = i
  BY AppendProperties, LenProperties
<1> HIDE DEF after, n
<1>2. DOMAIN after = DOMAIN scenarios \union {n + 1}
  BY <1>1
<1>3. Listed(after) = Listed(scenarios) \union {i}
  BY <1>1, <1>2 DEF Listed
<1> QED BY <1>1, <1>3 DEF after

\* The formatter's part of a step: it lists the scenario when the step fails, and
\* prints the verdict after the last step, of all of them.
LEMMA VerdictKeepsInv ==
    ASSUME TypeOK, VerdictInv, phase \in {"steps", "skipping"}, si <= Len(Scenario.steps),
           NEW status \in {"passed", "skipped", "failed"}, Verdict(status),
           status # "failed" => UNCHANGED failed
                                /\ tally'.failedScenarios = tally.failedScenarios,
           status = "failed" => failed' = TRUE /\ tally'.failedScenarios
                                                    = Append(tally.failedScenarios, fi),
           tally' = [total |-> tally'.total, passed |-> tally'.passed, failed |-> tally'.failed,
                     skipped |-> tally'.skipped, failedScenarios |-> tally'.failedScenarios],
           si' = si + 1, UNCHANGED <<phase, given, vi, fi, suite>>
    PROVE  VerdictInv'
<1> DEFINE n    == Len(Scenario.steps)
           bad  == failed \/ status = "failed"
           over == {i \in Selected : i < fi}
<1>1. fi \in Selected /\ fi \in Nat /\ n \in Nat /\ si \in Nat /\ failed \in BOOLEAN
  <2>1. fi \in Selected /\ fi \in DOMAIN features /\ si \in Nat /\ failed \in BOOLEAN
    BY DEF TypeOK, PlaceOK, Selected
  <2>2. fi \in Nat /\ n \in Nat
    BY <2>1, ScenarioIsTyped DEF Scenario
  <2> QED BY <2>1, <2>2
<1>2. Scenario' = Scenario /\ over' = over
  BY DEF Scenario, Selected, SetTags, given
<1>3. failed' = bad /\ bad \in BOOLEAN
  <2>1. CASE status = "failed"
    BY <2>1
  <2>2. CASE status # "failed"
    BY <1>1, <2>2
  <2> QED BY <2>1, <2>2
<1>4. /\ tally'.failedScenarios \in Seq(Nat)
      /\ Listed(tally'.failedScenarios) = Listed(tally.failedScenarios)
                                            \union {i \in {fi} : status = "failed"}
  <2>1. tally.failedScenarios \in Seq(Nat)
    BY DEF VerdictInv
  <2>2. CASE status = "failed"
    BY <1>1, <2>1, <2>2, AppendListed
  <2>3. CASE status # "failed"
    BY <2>1, <2>3
  <2> QED BY <2>2, <2>3
<1>5. Over(reported) = over /\ fi \notin over
      /\ Listed(tally.failedScenarios) = Failed(reported) \union {i \in {fi} : failed}
  <2>1. ~(si > Len(Scenario.steps)) /\ ~(fi < fi)
    BY <1>1
  <2>2. {i \in {fi} : si > Len(Scenario.steps)} = {}
    BY <2>1
  <2>3. /\ Over(reported) = over \union {i \in {fi} : si > Len(Scenario.steps)}
        /\ Listed(tally.failedScenarios) = Failed(reported) \union {i \in {fi} : failed}
    BY DEF VerdictInv
  <2> QED BY <2>1, <2>2, <2>3
<1>6. CASE si < n
  <2>1. reported' = reported
    BY <1>6 DEF Verdict
  <2> QED BY <1>1, <1>2, <1>3, <1>4, <1>5, <1>6, <2>1 DEF VerdictInv
<1>7. CASE si = n
  <2> DEFINE v == [scenario |-> fi, failed |-> bad]
  <2>1. v \in Verdicts /\ v.scenario = fi /\ v.failed = bad
    BY <1>1, <1>3 DEF Verdicts
  <2>2. reported' = Append(reported, v)
    BY <1>7 DEF Verdict
  <2>6. reported \in Seq(Verdicts) /\ Once(reported) /\ v.scenario \notin Over(reported)
    BY <1>5, <2>1 DEF VerdictInv
  <2> HIDE DEF v, bad, over
  <2>3. /\ reported' \in Seq(Verdicts) /\ Once(reported')
        /\ Over(reported') = over \union {fi}
        /\ Failed(reported') = Failed(reported) \union {i \in {fi} : bad}
    BY <1>5, <2>1, <2>2, <2>6, AppendVerdict
  <2>4. Listed(tally'.failedScenarios) = Failed(reported') \union {i \in {fi} : bad}
    BY <1>4, <1>5, <2>3 DEF bad
  <2>5. over' \union {i \in {fi} : si' > Len(Scenario.steps)} = over \union {fi}
    BY <1>1, <1>2, <1>7 DEF n
  <2> QED BY <1>2, <1>3, <1>4, <2>3, <2>4, <2>5 DEF VerdictInv, over
<1> QED BY <1>1, <1>6, <1>7

LEMMA StepOutcomes ==
    ASSUME VerdictInv
    PROVE  /\ StepPasses => /\ Verdict("passed") /\ tally'.failedScenarios = tally.failedScenarios
                            /\ failed' = failed /\ si' = si + 1 /\ phase' = phase
           /\ StepFails => /\ Verdict("failed") /\ failed' = TRUE
                           /\ tally'.failedScenarios = Append(tally.failedScenarios, fi)
                           /\ si' = si + 1 /\ phase' = phase
           /\ CountSkipped => tally'.failedScenarios = tally.failedScenarios
           /\ CountPassed \/ CountFailed \/ CountSkipped =>
                tally' = [total |-> tally'.total, passed |-> tally'.passed,
                          failed |-> tally'.failed, skipped |-> tally'.skipped,
                          failedScenarios |-> tally'.failedScenarios]
  BY DEF VerdictInv, StepPasses, StepFails, CountPassed, CountSkipped, CountFailed

\* Steps and hooks that the formatter does not see, outside of main.
LEMMA VerdictsUntouched ==
    ASSUME VerdictInv, UNCHANGED counts,
           \/ phase' \in {"main", "exited", "fatal", "crashed"}
           \/ UNCHANGED <<phase, given, place, failed, suite>>
    PROVE  VerdictInv'
<1>1. UNCHANGED <<given, place, suite>> => Selected' = Selected /\ Scenario' = Scenario
  BY DEF given, place, Selected, SetTags, Scenario
<1> QED BY <1>1 DEF VerdictInv, counts, place

LEMMA VerdictStep == TypeInv /\ VerdictInv /\ [Next]_vars => VerdictInv'
<1> SUFFICES ASSUME TypeInv, VerdictInv, [Next]_vars PROVE VerdictInv'
  OBVIOUS
<1>0. TypeOK /\ \A i \in Selected : i \in Nat
  BY ScenarioIsTyped DEF TypeInv, Selected
<1>1. CASE MainNext
  <2>1. CASE StartRunner
    <3>1. phase' = "suite" /\ reported' = <<>> /\ tally' = NoTally /\ fi' = 0
          /\ features' = features
      BY <2>1 DEF StartRunner, given
    <3>2. \A i \in Selected' : i \in DOMAIN features
      BY <3>1 DEF Selected
    <3>3. \A i \in DOMAIN features : i \in Nat \ {0}
      <4>1. features \in Seq([tags : SUBSET Tags, steps : Seq(Steps) \ {<<>>}])
        BY <1>0, FeatureFilesAssumption DEF TypeOK, PlaceOK
      <4> QED BY <4>1, LenProperties
    <3>4. {i \in Selected' : i <= fi'} = {}
      BY <3>1, <3>2, <3>3
    <3>5. <<>> \in Seq(Verdicts) /\ <<>> \in Seq(Nat) /\ DOMAIN <<>> = {}
      OBVIOUS
    <3>6. tally'.failedScenarios = <<>>
      BY <3>1 DEF NoTally
    <3>7. Over(reported') = {} /\ Failed(reported') = {} /\ Once(reported')
          /\ Listed(tally'.failedScenarios) = {}
      BY <3>1, <3>5, <3>6 DEF Over, Failed, Once, Listed
    <3> QED BY <3>1, <3>4, <3>5, <3>6, <3>7 DEF VerdictInv, NoTally
  <2>2. CASE ReadSettings \/ ConnectFails \/ UpdateResults \/ PrintResults
    <3>1. UNCHANGED counts /\ phase' \in {"main", "exited", "fatal", "crashed"}
      BY <2>2 DEF ReadSettings, ReadFlags, ReadConfig, SettingsAreWrong, ConnectFails,
                  UpdateResults, PrintResults
    <3> QED BY <3>1, VerdictsUntouched
  <2> QED BY <1>1, <2>1, <2>2 DEF MainNext
<1>2. CASE InitScenario
  <2>1. phase = "suite" /\ phase' = "before" /\ IsNext(fi', Selected)
        /\ UNCHANGED <<given, suite, counts>>
    BY <1>2 DEF InitScenario
  <2>2. Selected' = Selected
    BY <2>1 DEF Selected, SetTags, given
  <2>3. {i \in Selected : i <= fi} = {i \in Selected : i < fi'}
    BY <1>0, <2>1 DEF IsNext, TypeOK, PlaceOK
  <2> QED BY <2>1, <2>2, <2>3 DEF VerdictInv, counts
<1>3. CASE BeforeHook
  <2>1. phase = "before" /\ phase' = "steps" /\ si' = 1 /\ failed' = FALSE
        /\ UNCHANGED <<given, fi, suite, counts>>
    BY <1>3 DEF BeforeHook
  <2>2. Selected' = Selected /\ Scenario' = Scenario
    BY <2>1 DEF Selected, SetTags, Scenario, given
  <2>3. ~(1 > Len(Scenario.steps))
    BY <1>0, <2>1, ScenarioIsTyped DEF TypeOK, PlaceOK, Selected, Scenario
  <2> QED BY <2>1, <2>2, <2>3 DEF VerdictInv, counts
<1>4. CASE AdapterStep
  <2>1. (StepPasses \/ StepFails) /\ UNCHANGED <<given, vi, fi, suite>>
    BY <1>4 DEF AdapterStep, CallSucceeds, CallFails, CallIsLost
  <2>2. phase = "steps" /\ si <= Len(Scenario.steps)
    BY <1>4 DEF AdapterStep, CallSucceeds, CallFails, CallIsLost, Called, Stepping,
                TargetSetup, ResourceIsAdded, ResourceIsUpdated, ResourceIsRemoved
  <2> QED BY <1>0, <2>1, <2>2, VerdictKeepsInv, StepOutcomes DEF StepPasses, StepFails
<1>5. CASE OpenStream \/ ReuseStream \/ RequestIsRefused \/ JudgingStep
  <2>1. (StepPasses \/ StepFails) /\ UNCHANGED <<given, vi, fi, suite>>
    BY <1>5 DEF OpenStream, ReuseStream, RequestIsRefused, JudgingStep
  <2>2. phase = "steps" /\ si <= Len(Scenario.steps)
    BY <1>5 DEF OpenStream, ReuseStream, RequestIsRefused, JudgingStep, Stepping
  <2> QED BY <1>0, <2>1, <2>2, VerdictKeepsInv, StepOutcomes DEF StepPasses, StepFails
<1>6. CASE SkipStep
  BY <1>0, <1>6, VerdictKeepsInv, StepOutcomes DEF SkipStep
<1>7. CASE StreamRecords \/ AfterHookPanics
  BY <1>7, VerdictsUntouched DEF StreamRecords, AfterHookPanics
<1>8. CASE ScenarioEnds
  <2>1. phase = "skipping" /\ phase' = "suite" /\ si = Len(Scenario.steps) + 1
        /\ UNCHANGED <<given, fi, failed, suite, counts>>
    BY <1>8 DEF ScenarioEnds, place
  <2>2. Selected' = Selected /\ fi \in Selected /\ fi \in Nat
    BY <1>0, <2>1 DEF Selected, SetTags, given, TypeOK, PlaceOK
  <2>3. si > Len(Scenario.steps)
    <3>1. fi \in DOMAIN features
      BY <2>2 DEF Selected
    <3>2. Len(Scenario.steps) \in Nat
      BY <1>0, <3>1, ScenarioIsTyped DEF Scenario
    <3> QED BY <2>1, <3>2
  <2>4. {i \in Selected : i <= fi} = {i \in Selected : i < fi} \union {fi}
    <3>1. \A i \in Selected : i <= fi <=> (i < fi \/ i = fi)
      BY <1>0, <2>2
    <3> QED BY <2>2, <3>1
  <2>5. Failed(reported) = Listed(tally.failedScenarios)
    <3>1. /\ Listed(tally.failedScenarios) = Failed(reported) \union {i \in {fi} : failed}
          /\ failed => fi \in Failed(reported)
      BY <2>1, <2>3 DEF VerdictInv
    <3> QED BY <3>1
  <2> QED BY <2>1, <2>2, <2>3, <2>4, <2>5 DEF VerdictInv, counts
<1>9. CASE AfterHook
  <2>1. phase = "steps" /\ phase' = "skipping" /\ UNCHANGED <<given, place, failed, suite, counts>>
    BY <1>9 DEF AfterHook, StepsOver
  <2>2. Selected' = Selected /\ Scenario' = Scenario
    BY <2>1 DEF Selected, SetTags, Scenario, given, place
  <2> QED BY <2>1, <2>2 DEF VerdictInv, counts, place
<1>10. CASE UNCHANGED vars
  BY <1>10, VerdictsUntouched DEF vars
<1> QED BY <1>1, <1>2, <1>3, <1>4, <1>5, <1>6, <1>7, <1>8, <1>9, <1>10 DEF Next, ScenarioNext

LEMMA VerdictInit == Init => VerdictInv
<1> SUFFICES ASSUME Init PROVE VerdictInv
  OBVIOUS
<1>1. <<>> \in Seq(Verdicts) /\ <<>> \in Seq(Nat) /\ DOMAIN <<>> = {}
  OBVIOUS
<1> QED BY <1>1 DEF Init, VerdictInv, NoTally, Once

\* The formatter (fmt_xds.go) prints one verdict for every scenario that is over,
\* and FAILED for those that its results list as failed, for all feature files.
THEOREM VerdictsAgreeHolds == Spec => []VerdictsAgree
<1>1. Spec => [](TypeInv /\ VerdictInv)
  BY VerdictInit, SuiteTypeInit, SuiteTypeStep, VerdictStep, PTL DEF Spec
<1>2. VerdictInv => VerdictsAgree
  BY DEF VerdictInv, VerdictsAgree, Over, Failed, Once, Listed
<1> QED BY <1>1, <1>2, PTL
=============================================================================
