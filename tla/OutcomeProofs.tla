--------------------------- MODULE OutcomeProofs ---------------------------
(***************************************************************************)
(* What a run of the harness comes to, for all command lines and feature   *)
(* files: nothing is lost between the formatter and the final results, and *)
(* what a scenario's step waits for is there to be had.                    *)
(***************************************************************************)
EXTENDS SuiteProofs, FiniteSetTheorems

-----------------------------------------------------------------------------
(* The steps that have to be counted, as <<variant, <<scenario, step>>>>.    *)

Chosen(v) == {i \in DOMAIN features :
                TagsOf(NewSuite(v)) \union settings.tags \subseteq features[i].tags}

StepsOfVariant(k) == {<<k, s>> : s \in StepsOf(settings.variants[k])}

\* the steps of the variants that are over, and those of the variant it is at
Before    == UNION {StepsOfVariant(k) : k \in 1..(vi - 1)}
IsOver(s) == \/ s[1] < fi
             \/ s[1] = fi /\ phase = "suite"
             \/ s[1] = fi /\ phase \in {"steps", "skipping"} /\ s[2] < si
Now       == {x \in StepsOfVariant(vi) : IsOver(x[2])}

Sum(t) == /\ t.passed \in Nat /\ t.failed \in Nat /\ t.skipped \in Nat
          /\ t.total = t.passed + t.failed + t.skipped

TallyAdds   == Sum(tally) /\ Len(tally.failedScenarios) = tally.failed
ResultsAdd  == Sum(results) /\ results.failures = results.failed
VariantsReported ==
    /\ results.variants \in Seq(AllVariants) /\ Len(results.variants) = vi - 1
    /\ \A k \in 1..(vi - 1) : results.variants[k] = settings.variants[k]
BeforeCounted == IsFiniteSet(Before) /\ results.total = Cardinality(Before)
NowCounted ==
    phase \in {"suite", "before", "steps", "skipping"} =>
        /\ suite = NewSuite(settings.variants[vi])
        /\ IsFiniteSet(Now) /\ tally.total = Cardinality(Now)
ExitedAtEnd == phase = "exited" => vi > Len(settings.variants)

CountInv == TallyAdds /\ ResultsAdd /\ VariantsReported /\ BeforeCounted /\ NowCounted
              /\ ExitedAtEnd

LEMMA InStepsOfVariant ==
    ASSUME NEW k
    PROVE  /\ \A x \in StepsOfVariant(k) :
                 \E i \in Chosen(settings.variants[k]) : \E j \in DOMAIN features[i].steps :
                    x = <<k, <<i, j>>>>
           /\ \A i \in Chosen(settings.variants[k]) : \A j \in DOMAIN features[i].steps :
                 <<k, <<i, j>>>> \in StepsOfVariant(k)
<1> DEFINE v == settings.variants[k]
<1>1. StepsOf(v) = UNION {{<<i, j>> : j \in DOMAIN features[i].steps} : i \in Chosen(v)}
  BY DEF StepsOf, Chosen
<1>2. \A s \in StepsOf(v) :
         \E i \in Chosen(v) : \E j \in DOMAIN features[i].steps : s = <<i, j>>
  BY <1>1
<1>3. \A i \in Chosen(v) : \A j \in DOMAIN features[i].steps : <<i, j>> \in StepsOf(v)
  BY <1>1
<1>4. ASSUME NEW x \in StepsOfVariant(k)
      PROVE  \E i \in Chosen(v) : \E j \in DOMAIN features[i].steps : x = <<k, <<i, j>>>>
  <2>1. PICK s \in StepsOf(v) : x = <<k, s>>
    BY DEF StepsOfVariant
  <2> QED BY <1>2, <2>1
<1>5. ASSUME NEW i \in Chosen(v), NEW j \in DOMAIN features[i].steps
      PROVE  <<k, <<i, j>>>> \in StepsOfVariant(k)
  BY <1>3 DEF StepsOfVariant
<1> QED BY <1>4, <1>5

\* The scenarios that are selected are those of the variant it is at.
LEMMA SelectedAreChosen ==
    ASSUME NowCounted, phase \in {"suite", "before", "steps", "skipping"}
    PROVE  Selected = Chosen(settings.variants[vi])
  BY DEF NowCounted, Selected, Chosen, SetTags

LEMMA ChosenAreTyped ==
    ASSUME TypeOK, NEW v, NEW i \in Chosen(v)
    PROVE  /\ i \in Nat \ {0} /\ i \in DOMAIN features
           /\ Len(features[i].steps) \in Nat /\ DOMAIN features[i].steps = 1..Len(features[i].steps)
<1>1. i \in DOMAIN features
  BY DEF Chosen
<1>2. features[i].steps \in Seq(Steps)
  BY <1>1, ScenarioIsTyped
<1>3. features \in Seq([tags : SUBSET Tags, steps : Seq(Steps) \ {<<>>}])
  BY FeatureFilesAssumption DEF TypeOK, PlaceOK
<1>4. DOMAIN features = 1..Len(features) /\ Len(features) \in Nat
  BY <1>3, LenProperties
<1> QED BY <1>1, <1>2, <1>4, LenProperties

-----------------------------------------------------------------------------
(* How the set of steps that are over grows.                                *)

\* A step adds itself.
LEMMA StepIsOver ==
    ASSUME TypeOK, NowCounted, phase \in {"steps", "skipping"}, si <= Len(Scenario.steps),
           si' = si + 1, phase' = phase, UNCHANGED <<given, vi, fi, suite>>
    PROVE  /\ <<vi, <<fi, si>>>> \notin Now
           /\ Now' = Now \union {<<vi, <<fi, si>>>>}
<1> PICK x0 : x0 = <<vi, <<fi, si>>>>
  OBVIOUS
<1>1. /\ fi \in Chosen(settings.variants[vi]) /\ si \in Nat /\ si >= 1 /\ fi \in Nat
      /\ si \in DOMAIN features[fi].steps
  <2>1. fi \in Chosen(settings.variants[vi]) /\ fi \in Nat
    BY SelectedAreChosen DEF TypeOK, PlaceOK
  <2>2. si \in 1..(Len(Scenario.steps) + 1)
    BY DEF TypeOK, PlaceOK
  <2> QED BY <2>1, <2>2, ChosenAreTyped DEF Scenario
<1>2. x0 \in StepsOfVariant(vi)
  BY <1>1, InStepsOfVariant
<1>3. ~IsOver(x0[2]) /\ IsOver(x0[2])'
  <2>1. x0[2][1] = fi /\ x0[2][2] = si
    OBVIOUS
  <2> QED BY <1>1, <2>1 DEF IsOver
<1>4. StepsOfVariant(vi)' = StepsOfVariant(vi)
  BY DEF StepsOfVariant, StepsOf, given
<1>5. ASSUME NEW x \in StepsOfVariant(vi), x # x0
      PROVE  IsOver(x[2])' <=> IsOver(x[2])
  <2>1. PICK i \in Chosen(settings.variants[vi]) :
           \E j \in DOMAIN features[i].steps : x = <<vi, <<i, j>>>>
    BY InStepsOfVariant
  <2>2. PICK j \in DOMAIN features[i].steps : x = <<vi, <<i, j>>>>
    BY <2>1
  <2>3. i \in Nat /\ j \in Nat /\ (i # fi \/ j # si)
    BY <1>5, <2>2, ChosenAreTyped
  <2>4. x[2][1] = i /\ x[2][2] = j
    BY <2>2
  <2>5. phase \in {"steps", "skipping"} /\ phase' = phase /\ fi' = fi /\ si' = si + 1
    OBVIOUS
  <2>6. (i = fi /\ j < si + 1) <=> (i = fi /\ j < si)
    BY <1>1, <2>3
  <2> QED BY <2>4, <2>5, <2>6 DEF IsOver
<1> QED BY <1>2, <1>3, <1>4, <1>5 DEF Now

\* Nothing else between the start of a variant and its end changes the set.
LEMMA SameSteps ==
    ASSUME UNCHANGED <<given, vi>>,
           \A x \in StepsOfVariant(vi) : IsOver(x[2])' <=> IsOver(x[2])
    PROVE  Now' = Now
<1>1. StepsOfVariant(vi)' = StepsOfVariant(vi)
  BY DEF StepsOfVariant, StepsOf, given
<1> QED BY <1>1 DEF Now

LEMMA SameBefore ==
    ASSUME UNCHANGED <<given, vi>> PROVE Before' = Before
  BY DEF Before, StepsOfVariant, StepsOf, given

\* Steps and hooks that count nothing and do not end a scenario.
LEMMA CountsUntouched ==
    ASSUME CountInv, UNCHANGED <<given, vi, counts, results>>,
           phase' = "exited" => vi > Len(settings.variants),
           phase' \in {"suite", "before", "steps", "skipping"} =>
             /\ phase \in {"suite", "before", "steps", "skipping"} /\ suite' = suite
             /\ \A x \in StepsOfVariant(vi) : IsOver(x[2])' <=> IsOver(x[2])
    PROVE  CountInv'
<1>1. TallyAdds' /\ ResultsAdd' /\ VariantsReported' /\ ExitedAtEnd'
  BY DEF CountInv, TallyAdds, ResultsAdd, VariantsReported, ExitedAtEnd, Sum, counts, given
<1>2. BeforeCounted'
  BY SameBefore DEF CountInv, BeforeCounted
<1>3. NowCounted'
  BY SameSteps DEF CountInv, NowCounted, counts, given
<1> QED BY <1>1, <1>2, <1>3 DEF CountInv

\* The formatter's part of a step.
CountsOne == CountPassed \/ CountFailed \/ CountSkipped

LEMMA CountAddsOne ==
    ASSUME VerdictInv, TallyAdds, CountsOne
    PROVE  TallyAdds' /\ tally'.total = tally.total + 1
<1> USE DEF TallyAdds, Sum
<1>1. /\ tally = [total |-> tally.total, passed |-> tally.passed, failed |-> tally.failed,
                  skipped |-> tally.skipped, failedScenarios |-> tally.failedScenarios]
      /\ tally.failedScenarios \in Seq(Nat)
  BY DEF VerdictInv
<1>2. CASE CountPassed
  BY <1>1, <1>2 DEF CountPassed
<1>3. CASE CountSkipped
  BY <1>1, <1>3 DEF CountSkipped
<1>4. CASE CountFailed
  <2>1. tally' = [total |-> tally.total + 1, passed |-> tally.passed,
                  failed |-> tally.failed + 1, skipped |-> tally.skipped,
                  failedScenarios |-> Append(tally.failedScenarios, fi)]
    BY <1>1, <1>4 DEF CountFailed
  <2>2. Len(Append(tally.failedScenarios, fi)) = Len(tally.failedScenarios) + 1
    BY <1>1, AppendProperties
  <2> QED BY <2>1, <2>2
<1> QED BY <1>2, <1>3, <1>4 DEF CountsOne

LEMMA StepKeepsCount ==
    ASSUME TypeOK, VerdictInv, CountInv, CountsOne, phase \in {"steps", "skipping"},
           si <= Len(Scenario.steps), si' = si + 1, phase' = phase,
           UNCHANGED <<given, vi, fi, suite, results>>
    PROVE  CountInv'
<1>1. TallyAdds' /\ tally'.total = tally.total + 1
  BY CountAddsOne DEF CountInv
<1>2. ResultsAdd' /\ VariantsReported' /\ ExitedAtEnd'
  BY DEF CountInv, ResultsAdd, VariantsReported, ExitedAtEnd, Sum, given
<1>3. BeforeCounted'
  BY SameBefore DEF CountInv, BeforeCounted
<1>4. NowCounted'
  <2>1. IsFiniteSet(Now) /\ tally.total = Cardinality(Now) /\ suite = NewSuite(settings.variants[vi])
    BY DEF CountInv, NowCounted
  <2>2. <<vi, <<fi, si>>>> \notin Now /\ Now' = Now \union {<<vi, <<fi, si>>>>}
    BY StepIsOver DEF CountInv
  <2>3. IsFiniteSet(Now') /\ Cardinality(Now') = Cardinality(Now) + 1
    BY <2>1, <2>2, FS_AddElement
  <2> QED BY <1>1, <2>1, <2>3 DEF NowCounted, given
<1> QED BY <1>1, <1>2, <1>3, <1>4 DEF CountInv

-----------------------------------------------------------------------------
(* main's part: a variant starts with nothing counted, and ends with all.   *)

LEMMA StartCountsNothing ==
    ASSUME TypeOK, VerdictInv, CountInv, StartRunner
    PROVE  CountInv'
<1>1. TallyAdds'
  BY DEF StartRunner, NoTally, TallyAdds, Sum
<1>2. ResultsAdd' /\ VariantsReported' /\ ExitedAtEnd' /\ BeforeCounted'
  BY SameBefore DEF StartRunner, CountInv, ResultsAdd, VariantsReported, ExitedAtEnd,
                    BeforeCounted, Sum, given
<1>3. Now' = {}
  <2>1. ASSUME NEW x \in StepsOfVariant(vi) PROVE ~IsOver(x[2])'
    <3>1. PICK i \in Chosen(settings.variants[vi]) :
             \E j \in DOMAIN features[i].steps : x = <<vi, <<i, j>>>>
      BY InStepsOfVariant
    <3>2. i \in Nat \ {0} /\ x[2][1] = i
      BY <3>1, ChosenAreTyped
    <3> QED BY <3>2 DEF StartRunner, IsOver
  <2>2. StepsOfVariant(vi)' = StepsOfVariant(vi)
    BY DEF StartRunner, StepsOfVariant, StepsOf, given
  <2> QED BY <2>1, <2>2 DEF Now
<1>4. NowCounted'
  BY <1>3, FS_EmptySet DEF StartRunner, NowCounted, NoTally, given
<1> QED BY <1>1, <1>2, <1>4 DEF CountInv

\* Two sums of three are the sum of three sums.
LEMMA SumsAdd ==
    ASSUME NEW a \in Nat, NEW b \in Nat, NEW c \in Nat,
           NEW x \in Nat, NEW y \in Nat, NEW z \in Nat
    PROVE  (a + b + c) + (x + y + z) = (a + x) + (b + y) + (c + z)
  OBVIOUS

LEMMA VariantIsCounted ==
    ASSUME TypeOK, NowCounted, UpdateResults
    PROVE  /\ Before' = Before \union Now
           /\ Before \intersect Now = {}
<1>0. vi \in Nat \ {0} /\ vi' = vi + 1 /\ phase = "suite" /\ UNCHANGED given
      /\ fi \in Nat /\ \A i \in Selected : i <= fi
  <2>1. vi \in 1..(Len(settings.variants) + 1) /\ fi \in Nat /\ Len(settings.variants) \in Nat
    BY DEF TypeOK, PlaceOK
  <2> QED BY <2>1 DEF UpdateResults
<1>1. Now = StepsOfVariant(vi)
  <2>1. ASSUME NEW x \in StepsOfVariant(vi) PROVE IsOver(x[2])
    <3>1. PICK i \in Chosen(settings.variants[vi]) :
             \E j \in DOMAIN features[i].steps : x = <<vi, <<i, j>>>>
      BY InStepsOfVariant
    <3>2. i \in Nat /\ x[2][1] = i /\ i <= fi
      BY <1>0, <3>1, ChosenAreTyped, SelectedAreChosen
    <3> QED BY <1>0, <3>2 DEF IsOver
  <2> QED BY <2>1 DEF Now
<1>2. \A k : StepsOfVariant(k)' = StepsOfVariant(k)
  BY <1>0 DEF StepsOfVariant, StepsOf, given
<1>3. 1..(vi' - 1) = (1..(vi - 1)) \union {vi}
  BY <1>0
<1>4. Before' = Before \union StepsOfVariant(vi)
  BY <1>2, <1>3 DEF Before
<1>5. \A k : \A x \in StepsOfVariant(k) : x[1] = k
  BY DEF StepsOfVariant
<1>6. ASSUME NEW x \in Before PROVE x \notin StepsOfVariant(vi)
  <2>1. PICK k \in 1..(vi - 1) : x \in StepsOfVariant(k)
    BY DEF Before
  <2>2. k # vi
    BY <1>0
  <2> QED BY <1>5, <2>1, <2>2
<1> QED BY <1>1, <1>4, <1>6

LEMMA UpdateCountsVariant ==
    ASSUME TypeOK, VerdictInv, CountInv, UpdateResults
    PROVE  CountInv'
<1> DEFINE V == settings.variants
<1>0. /\ V \in Seq(AllVariants) /\ vi \in 1..Len(V) /\ Len(V) \in Nat
      /\ phase = "suite" /\ vi' = vi + 1 /\ phase' = "main" /\ UNCHANGED <<given, counts>>
  <2>1. phase = "suite" /\ vi' = vi + 1 /\ phase' = "main" /\ UNCHANGED <<given, counts>>
    BY DEF UpdateResults
  <2>2. V \in Seq(AllVariants) /\ vi \in 1..(Len(V) + 1) /\ vi <= Len(V)
    BY <2>1 DEF TypeOK, PlaceOK
  <2> QED BY <2>1, <2>2
<1>1. TallyAdds' /\ ExitedAtEnd' /\ NowCounted'
  BY <1>0 DEF CountInv, TallyAdds, Sum, ExitedAtEnd, NowCounted, counts
<1>2. ResultsAdd'
  <2>1. /\ results'.total = results.total + tally.total
        /\ results'.passed = results.passed + tally.passed
        /\ results'.failed = results.failed + tally.failed
        /\ results'.skipped = results.skipped + tally.skipped
        /\ results'.failures = results.failures + Len(tally.failedScenarios)
    BY DEF UpdateResults
  <2>2. /\ Sum(results) /\ results.failures = results.failed
        /\ Sum(tally) /\ Len(tally.failedScenarios) = tally.failed
    BY DEF CountInv, ResultsAdd, TallyAdds
  <2>3. /\ results.total \in Nat /\ tally.total \in Nat
        /\ results.total = results.passed + results.failed + results.skipped
        /\ tally.total = tally.passed + tally.failed + tally.skipped
    BY <2>2 DEF Sum
  <2>4. /\ results.passed \in Nat /\ results.failed \in Nat /\ results.skipped \in Nat
        /\ tally.passed \in Nat /\ tally.failed \in Nat /\ tally.skipped \in Nat
    BY <2>2 DEF Sum
  <2>5. /\ results'.passed \in Nat /\ results'.failed \in Nat /\ results'.skipped \in Nat
        /\ results'.failures = results'.failed
    BY <2>1, <2>2, <2>4
  <2>6. results'.total = results'.passed + results'.failed + results'.skipped
    <3>1. (results.passed + results.failed + results.skipped)
            + (tally.passed + tally.failed + tally.skipped)
          = (results.passed + tally.passed) + (results.failed + tally.failed)
            + (results.skipped + tally.skipped)
      BY <2>4, SumsAdd
    <3> QED BY <2>1, <2>3, <3>1
  <2> QED BY <2>5, <2>6 DEF ResultsAdd, Sum
<1>3. VariantsReported'
  <2>1. results'.variants = Append(results.variants, V[vi]) /\ V[vi] \in AllVariants
    BY <1>0 DEF UpdateResults
  <2>2. results.variants \in Seq(AllVariants) /\ Len(results.variants) = vi - 1
        /\ \A k \in 1..(vi - 1) : results.variants[k] = V[k]
    BY DEF CountInv, VariantsReported
  <2>3. results'.variants \in Seq(AllVariants) /\ Len(results'.variants) = vi
        /\ \A k \in 1..vi : results'.variants[k] = V[k]
    BY <1>0, <2>1, <2>2
  <2> QED BY <1>0, <2>3 DEF VariantsReported, given
<1>4. BeforeCounted'
  <2>1. IsFiniteSet(Now) /\ tally.total = Cardinality(Now)
    BY <1>0 DEF CountInv, NowCounted
  <2>2. IsFiniteSet(Before) /\ results.total = Cardinality(Before)
    BY DEF CountInv, BeforeCounted
  <2>3. Before' = Before \union Now /\ Before \intersect Now = {}
    BY VariantIsCounted DEF CountInv
  <2>4. IsFiniteSet(Before') /\ Cardinality(Before') = Cardinality(Before) + Cardinality(Now) - 0
    BY <2>1, <2>2, <2>3, FS_Union, FS_EmptySet
  <2>5. results'.total = results.total + tally.total
    BY DEF UpdateResults
  <2>6. results.total \in Nat /\ tally.total \in Nat
    BY DEF CountInv, ResultsAdd, TallyAdds, Sum
  <2> QED BY <2>1, <2>2, <2>4, <2>5, <2>6 DEF BeforeCounted
<1> QED BY <1>1, <1>2, <1>3, <1>4 DEF CountInv

LEMMA SettingsCountNothing ==
    ASSUME TypeInv, CountInv, ReadSettings
    PROVE  CountInv'
<1>1. /\ vi = 1 /\ vi' = 1 /\ UNCHANGED <<counts, results>> /\ phase' \in {"main", "fatal"}
  BY DEF ReadSettings, ReadFlags, ReadConfig, SettingsAreWrong, place, TypeInv
<1>2. Before = {} /\ Before' = {}
  BY <1>1 DEF Before
<1> QED BY <1>1, <1>2 DEF CountInv, TallyAdds, ResultsAdd, VariantsReported, BeforeCounted,
                          NowCounted, ExitedAtEnd, Sum, counts

LEMMA CountStep == TypeInv /\ VerdictInv /\ CountInv /\ [Next]_vars => CountInv'
<1> SUFFICES ASSUME TypeInv, VerdictInv, CountInv, [Next]_vars PROVE CountInv'
  OBVIOUS
<1>0. TypeOK
  BY DEF TypeInv
<1>1. CASE MainNext
  <2>1. CASE ConnectFails \/ PrintResults
    BY <2>1, CountsUntouched DEF ConnectFails, PrintResults, place
  <2> QED BY <1>0, <1>1, <2>1, SettingsCountNothing, StartCountsNothing, UpdateCountsVariant
          DEF MainNext
<1>2. CASE InitScenario
  <2>1. /\ phase = "suite" /\ phase' = "before" /\ IsNext(fi', Selected)
        /\ UNCHANGED <<given, vi, suite, counts, results>> /\ fi \in Nat
    BY <1>0, <1>2 DEF InitScenario, TypeOK, PlaceOK
  <2>2. ASSUME NEW x \in StepsOfVariant(vi) PROVE IsOver(x[2])' <=> IsOver(x[2])
    <3>1. PICK i \in Chosen(settings.variants[vi]) :
             \E j \in DOMAIN features[i].steps : x = <<vi, <<i, j>>>>
      BY InStepsOfVariant
    <3>2. i \in Nat /\ x[2][1] = i /\ i \in Selected
      BY <1>0, <2>1, <3>1, ChosenAreTyped, SelectedAreChosen DEF CountInv
    <3>3. i < fi' <=> i <= fi
      <4>1. fi' \in Nat /\ fi' > fi /\ (i > fi => fi' <= i)
        <5>1. fi' \in Selected /\ fi' > fi /\ (i > fi => fi' <= i)
          BY <2>1, <3>2 DEF IsNext
        <5>2. fi' \in Nat
          BY <1>0, <5>1, ScenarioIsTyped DEF Selected
        <5> QED BY <5>1, <5>2
      <4> QED BY <2>1, <3>2, <4>1
    <3> QED BY <2>1, <3>2, <3>3 DEF IsOver
  <2> QED BY <2>1, <2>2, CountsUntouched
<1>3. CASE BeforeHook
  <2>1. /\ phase = "before" /\ phase' = "steps" /\ si' = 1
        /\ UNCHANGED <<given, vi, fi, suite, counts, results>>
    BY <1>3 DEF BeforeHook
  <2>2. ASSUME NEW x \in StepsOfVariant(vi) PROVE IsOver(x[2])' <=> IsOver(x[2])
    <3>1. PICK i \in Chosen(settings.variants[vi]) :
             \E j \in DOMAIN features[i].steps : x = <<vi, <<i, j>>>>
      BY InStepsOfVariant
    <3>2. PICK j \in DOMAIN features[i].steps : x = <<vi, <<i, j>>>>
      BY <3>1
    <3>3. x[2][1] = i /\ x[2][2] = j /\ j \in Nat /\ j >= 1
      BY <1>0, <3>2, ChosenAreTyped
    <3> QED BY <2>1, <3>3 DEF IsOver
  <2> QED BY <2>1, <2>2, CountsUntouched
<1>4. CASE \/ AdapterStep \/ OpenStream \/ ReuseStream \/ RequestIsRefused
           \/ JudgingStep \/ SkipStep
  <2>1. phase \in {"steps", "skipping"} /\ si <= Len(Scenario.steps)
    BY <1>4 DEF AdapterStep, CallSucceeds, CallFails, CallIsLost, Called, TargetSetup,
                ResourceIsAdded, ResourceIsUpdated, ResourceIsRemoved, OpenStream, ReuseStream,
                RequestIsRefused, JudgingStep, SkipStep, Stepping
  <2>2. CountsOne /\ si' = si + 1 /\ phase' = phase
    BY <1>4 DEF AdapterStep, CallSucceeds, CallFails, CallIsLost, OpenStream, ReuseStream,
                RequestIsRefused, JudgingStep, SkipStep, StepPasses, StepFails, CountsOne
  <2>3. UNCHANGED <<given, vi, fi, suite, results>>
    BY <1>4 DEF AdapterStep, OpenStream, ReuseStream, RequestIsRefused, JudgingStep, SkipStep
  <2> QED BY <1>0, <2>1, <2>2, <2>3, StepKeepsCount
<1>5. CASE ScenarioEnds
  <2>1. /\ phase = "skipping" /\ phase' = "suite" /\ si = Len(Scenario.steps) + 1
        /\ UNCHANGED <<given, vi, fi, suite, counts, results>> /\ fi \in Nat
    BY <1>0, <1>5 DEF ScenarioEnds, place, TypeOK, PlaceOK
  <2>2. ASSUME NEW x \in StepsOfVariant(vi) PROVE IsOver(x[2])' <=> IsOver(x[2])
    <3>1. PICK i \in Chosen(settings.variants[vi]) :
             \E j \in DOMAIN features[i].steps : x = <<vi, <<i, j>>>>
      BY InStepsOfVariant
    <3>2. PICK j \in DOMAIN features[i].steps : x = <<vi, <<i, j>>>>
      BY <3>1
    <3>3. x[2][1] = i /\ x[2][2] = j /\ i \in Nat /\ j \in 1..Len(features[i].steps)
          /\ Len(features[i].steps) \in Nat
      BY <1>0, <3>2, ChosenAreTyped
    <3>4. i = fi => j < si
      BY <2>1, <3>3 DEF Scenario
    <3> QED BY <2>1, <3>3, <3>4 DEF IsOver
  <2> QED BY <2>1, <2>2, CountsUntouched
<1>6. CASE StreamRecords
  <2>1. UNCHANGED <<phase, given, place, suite, counts, results>>
    BY <1>6 DEF StreamRecords
  <2> QED BY <2>1, CountsUntouched DEF place, IsOver, CountInv, ExitedAtEnd
<1>7. CASE AfterHook \/ AfterHookPanics
  <2>1. /\ phase = "steps" /\ phase' \in {"skipping", "crashed"}
        /\ UNCHANGED <<given, place, suite, counts, results>>
    BY <1>7 DEF AfterHook, AfterHookPanics, StepsOver
  <2>2. phase' = "skipping" => \A x : IsOver(x[2])' <=> IsOver(x[2])
    BY <2>1 DEF IsOver, place
  <2> QED BY <2>1, <2>2, CountsUntouched DEF place
<1>8. CASE UNCHANGED vars
  BY <1>8, CountsUntouched DEF vars, place, IsOver, CountInv, ExitedAtEnd
<1> QED BY <1>1, <1>2, <1>3, <1>4, <1>5, <1>6, <1>7, <1>8 DEF Next, ScenarioNext

LEMMA CountInit == Init => CountInv
<1> SUFFICES ASSUME Init PROVE CountInv
  OBVIOUS
<1>1. vi = 1 /\ phase = "start" /\ results.variants = <<>> /\ results.total = 0
      /\ tally.failedScenarios = <<>>
  BY DEF Init, NoTally
<1>2. Before = {}
  BY <1>1 DEF Before
<1>3. TallyAdds /\ ResultsAdd
  BY DEF Init, NoTally, TallyAdds, ResultsAdd, Sum
<1> QED BY <1>1, <1>2, <1>3, FS_EmptySet
        DEF CountInv, VariantsReported, BeforeCounted, NowCounted, ExitedAtEnd

LEMMA CountsAreComplete == TypeInv /\ CountInv => ResultsComplete
<1> SUFFICES ASSUME TypeInv, CountInv, phase = "exited" PROVE ResultsComplete
  BY DEF ResultsComplete
<1> DEFINE V == settings.variants
<1>1. V \in Seq(AllVariants) /\ Len(V) \in Nat /\ vi = Len(V) + 1
  <2>1. V \in Seq(AllVariants) /\ vi \in 1..(Len(V) + 1)
    BY DEF TypeInv, TypeOK, PlaceOK
  <2> QED BY <2>1 DEF CountInv, ExitedAtEnd
<1>2. results.variants = V
  <2>1. results.variants \in Seq(AllVariants) /\ Len(results.variants) = Len(V)
        /\ \A k \in 1..Len(V) : results.variants[k] = V[k]
    BY <1>1 DEF CountInv, VariantsReported
  <2> QED BY <1>1, <2>1, SeqEqual
<1>3. Before = UNION {{<<k, s>> : s \in StepsOf(V[k])} : k \in DOMAIN V}
  <2>1. 1..(vi - 1) = DOMAIN V
    BY <1>1
  <2> QED BY <2>1 DEF Before, StepsOfVariant
<1> QED BY <1>2, <1>3 DEF CountInv, ResultsAdd, BeforeCounted, Sum, ResultsComplete

\* When the harness exits (main.go, fmt_xds.go), every variant asked for has been
\* reported, and the totals count every step of every scenario selected for it
\* once, as passed, failed or skipped, with one listed failure for each failed.
THEOREM ResultsCompleteHolds == Spec => []ResultsComplete
<1>1. Init => VerdictInv
  BY VerdictInit
<1>2. Spec => [](TypeInv /\ VerdictInv /\ CountInv)
  BY <1>1, SuiteTypeInit, CountInit, SuiteTypeStep, VerdictStep, CountStep, PTL DEF Spec
<1> QED BY <1>2, CountsAreComplete, PTL

-----------------------------------------------------------------------------
(* What a step waits for.  As long as all calls of a scenario succeeded, the *)
(* cache holds what its text says of the steps so far.                       *)

InEffect(t, n) == SetUpAt(Scenario.steps, t, n) \union AddedAt(Scenario.steps, t, n)

Present   == \A t \in Types, n \in Names :
                Stands(si, InEffect(t, n), TakenAt(Scenario.steps, t, n)) => <<t, n>> \in Held
Absent    == \A t \in Types, n \in Names :
                Stands(si, RemovedAt(Scenario.steps, t, n), PutAt(Scenario.steps, t, n))
                  => <<t, n>> \notin Held
Versioned == \A t \in Types, v \in Versions :
                Stands(si, VersionAt(Scenario.steps, t, v), CalledAt(Scenario.steps))
                  => cache.version[t] = v

ExpectInv == phase = "steps" /\ ~failed => Present /\ Absent /\ Versioned

\* What stands before the next step is made by this one, or is not undone by it.
LEMMA StandsNext ==
    ASSUME NEW j \in Nat, NEW made \in SUBSET Nat, NEW undone \in SUBSET Nat,
           Stands(j + 1, made, undone)
    PROVE  j \in made \/ (Stands(j, made, undone) /\ j \notin undone)
<1>1. PICK i \in made : i < j + 1 /\ \A k \in undone : k < j + 1 => k <= i
  BY DEF Stands
<1>2. CASE i = j
  BY <1>2
<1>3. CASE i # j
  <2>1. i < j /\ \A k \in undone : k < j => k <= i
    BY <1>1, <1>3
  <2>2. j \notin undone
    BY <1>1, <2>1
  <2> QED BY <2>1, <2>2 DEF Stands
<1> QED BY <1>2, <1>3

\* Steps are numbered by natural numbers.
LEMMA StepNumbers ==
    ASSUME NEW steps, steps \in Seq(Steps), NEW t, NEW n
    PROVE  /\ SetUpAt(steps, t, n) \subseteq Nat /\ AddedAt(steps, t, n) \subseteq Nat
           /\ TakenAt(steps, t, n) \subseteq Nat /\ RemovedAt(steps, t, n) \subseteq Nat
           /\ PutAt(steps, t, n) \subseteq Nat /\ VersionAt(steps, t, n) \subseteq Nat
           /\ CalledAt(steps) \subseteq Nat
<1>1. DOMAIN steps \subseteq Nat
  BY LenProperties
<1> QED BY <1>1 DEF SetUpAt, AddedAt, TakenAt, RemovedAt, PutAt, VersionAt, CalledAt

\* Calls that succeed, exactly.
LEMMA AddSucceeds ==
    ASSUME NEW t \in Types, NEW n \in Names, NEW v, AddResource(t, n, v, TRUE)
    PROVE  /\ Held \subseteq Held' /\ Held' \subseteq Held \union {<<t, n>>}
           /\ (\E m : <<t, m>> \in Held) => <<t, n>> \in Held'
           /\ \A x \in Types : cache'.version[x] = v
<1> DEFINE others == {r \in cache.resources : ~(r.type = t /\ r.name = n)}
           added  == {newResource(t, n) : r \in {s \in cache.resources : s.type = t}}
<1>1. cache'.resources = others \union added /\ cache'.version = [x \in Types |-> v]
  BY DEF AddResource, NoState, Rebuilt, SetSnapshot
<1>2. \A a \in added : a.type = t /\ a.name = n
  BY NewResourceIsOfType
<1>3. (\E m : <<t, m>> \in Held) => <<t, n>> \in Held'
  <2> SUFFICES ASSUME NEW m, <<t, m>> \in Held PROVE <<t, n>> \in Held'
    OBVIOUS
  <2>1. PICK r \in cache.resources : r.type = t
    BY DEF Held
  <2>2. newResource(t, n) \in cache'.resources
    BY <1>1, <2>1
  <2> QED BY <2>2, NewResourceIsOfType DEF Held
<1>4. ASSUME NEW r \in cache.resources PROVE <<r.type, r.name>> \in Held'
  <2>1. CASE r.type = t /\ r.name = n
    <3>1. <<t, n>> \in Held
      BY <2>1 DEF Held
    <3> QED BY <1>3, <2>1, <3>1
  <2>2. CASE ~(r.type = t /\ r.name = n)
    BY <1>1, <2>2 DEF Held
  <2> QED BY <2>1, <2>2
<1>5. ASSUME NEW r \in cache'.resources PROVE <<r.type, r.name>> \in Held \union {<<t, n>>}
  BY <1>1, <1>2, <1>5 DEF Held
<1> QED BY <1>1, <1>3, <1>4, <1>5 DEF Held

LEMMA RemoveSucceeds ==
    ASSUME NEW t, NEW n, NEW v, RemoveResource(t, n, v, TRUE)
    PROVE  Held' = Held \ {<<t, n>>}
<1>1. cache'.resources = {r \in cache.resources : ~(r.type = t /\ r.name = n)}
  BY DEF RemoveResource, NoState, Rebuilt, SetSnapshot
<1> QED BY <1>1 DEF Held

LEMMA UpdateSucceeds ==
    ASSUME AdapterTypeOK, NEW t, NEW n, NEW v, UpdateResource(t, n, v, TRUE)
    PROVE  Held' = Held /\ \A x \in Types : cache'.version[x] = v
<1>1. cache'.version = [x \in Types |-> v]
  BY DEF UpdateResource, NoState, Rebuilt, SetSnapshot
<1> QED BY <1>1, UpdateHolds

\* A call that succeeds does what the text of its step says.
LEMMA CallIsExpected ==
    ASSUME TypeOK, Called(TRUE), NEW t \in Types, NEW n \in Names, Present,
           NEW steps, steps = Scenario.steps
    PROVE  /\ si \in InEffect(t, n) \/ (<<t, n>> \in Held /\ si \notin TakenAt(steps, t, n))
                => <<t, n>> \in Held'
           /\ si \in RemovedAt(steps, t, n)
              \/ (<<t, n>> \notin Held /\ si \notin PutAt(steps, t, n))
                => <<t, n>> \notin Held'
<1>0. steps \in Seq(Steps) /\ si \in DOMAIN steps
  <2>1. fi \in DOMAIN features /\ si \in 1..(Len(Scenario.steps) + 1) /\ si <= Len(Scenario.steps)
    BY DEF Called, TargetSetup, ResourceIsAdded, ResourceIsUpdated, ResourceIsRemoved, Stepping,
           TypeOK, PlaceOK, Selected
  <2>2. Scenario.steps \in Seq(Steps)
    BY <2>1, ScenarioIsTyped DEF Scenario
  <2> QED BY <2>1, <2>2
<1> DEFINE s == steps[si]
<1>1. Step = s
  BY DEF Step
<1> USE DEF InEffect
<1>2. CASE TargetSetup(TRUE)
  <2>1. s.op = "setup" /\ s.types \X s.names \in SUBSET (Types \X Names)
    BY <1>1, <1>2, ArgumentsAreTyped DEF TargetSetup, Stepping
  <2>2. Held' = s.types \X s.names
    BY <1>1, <1>2, <2>1, SetStateHolds DEF TargetSetup
  <2>3. /\ <<t, n>> \in Held' <=> si \in SetUpAt(steps, t, n)
        /\ si \notin AddedAt(steps, t, n) /\ si \notin RemovedAt(steps, t, n)
    BY <1>0, <2>1, <2>2 DEF SetUpAt, AddedAt, RemovedAt
  <2> QED BY <1>0, <2>1, <2>3 DEF TakenAt, PutAt
<1>3. CASE ResourceIsAdded(TRUE)
  <2>1. s.op = "add" /\ s.type \in Types /\ s.names \subseteq Names
    BY <1>1, <1>3, ArgumentsAreTyped DEF ResourceIsAdded, Stepping, Changes
  <2>2. PICK m \in s.names : AddResource(s.type, m, s.version, TRUE)
    BY <1>1, <1>3 DEF ResourceIsAdded
  <2>3. /\ Held \subseteq Held' /\ Held' \subseteq Held \union {<<s.type, m>>}
        /\ (\E k : <<s.type, k>> \in Held) => <<s.type, m>> \in Held'
    BY <2>1, <2>2, AddSucceeds
  <2>4. si \in AddedAt(steps, t, n) => <<t, n>> \in Held'
    <3> SUFFICES ASSUME si \in AddedAt(steps, t, n) PROVE <<t, n>> \in Held'
      OBVIOUS
    <3>1. s.type = t /\ m = n
      BY <2>2 DEF AddedAt
    <3>2. PICK k \in Names : Stands(si, SetUpAt(steps, t, k), TakenAt(steps, t, k))
      BY DEF AddedAt
    <3>3. Stands(si, InEffect(t, k), TakenAt(steps, t, k))
      BY <3>2 DEF Stands
    <3>4. <<t, k>> \in Held
      BY <3>3 DEF Present
    <3> QED BY <2>3, <3>1, <3>4
  <2>5. /\ si \notin SetUpAt(steps, t, n) /\ si \notin RemovedAt(steps, t, n)
        /\ si \notin PutAt(steps, t, n) => <<t, n>> # <<s.type, m>>
    BY <1>0, <2>1, <2>2 DEF SetUpAt, RemovedAt, PutAt
  <2> QED BY <2>3, <2>4, <2>5
<1>4. CASE ResourceIsUpdated(TRUE)
  <2>1. s.op = "update" /\ \E m \in s.names : UpdateResource(s.type, m, s.version, TRUE)
    BY <1>1, <1>4 DEF ResourceIsUpdated, Stepping
  <2>2. Held' = Held
    BY <2>1, UpdateSucceeds DEF TypeOK
  <2>3. si \notin SetUpAt(steps, t, n) /\ si \notin AddedAt(steps, t, n)
        /\ si \notin RemovedAt(steps, t, n)
    BY <2>1 DEF SetUpAt, AddedAt, RemovedAt
  <2> QED BY <2>2, <2>3
<1>5. CASE ResourceIsRemoved(TRUE)
  <2>1. s.op = "remove"
    BY <1>1, <1>5 DEF ResourceIsRemoved, Stepping
  <2>2. PICK m \in s.names, v \in Versions : RemoveResource(s.type, m, v, TRUE)
    BY <1>1, <1>5 DEF ResourceIsRemoved
  <2>3. Held' = Held \ {<<s.type, m>>}
    BY <2>2, RemoveSucceeds
  <2>4. /\ si \notin SetUpAt(steps, t, n) /\ si \notin AddedAt(steps, t, n)
        /\ si \in RemovedAt(steps, t, n) => <<t, n>> = <<s.type, m>>
        /\ si \notin TakenAt(steps, t, n) => <<t, n>> # <<s.type, m>>
    BY <1>0, <2>1, <2>2 DEF SetUpAt, AddedAt, RemovedAt, TakenAt
  <2> QED BY <2>3, <2>4
<1> QED BY <1>2, <1>3, <1>4, <1>5 DEF Called

LEMMA CallGivesVersion ==
    ASSUME TypeOK, Called(TRUE), NEW t \in Types, NEW v \in Versions,
           NEW steps, steps = Scenario.steps, si \in VersionAt(steps, t, v)
    PROVE  cache'.version[t] = v
<1> DEFINE s == steps[si]
<1>1. Step = s /\ s.version = v
  BY DEF Step, VersionAt
<1>2. CASE TargetSetup(TRUE)
  <2>1. s.op = "setup" /\ t \in s.types /\ s.names # {}
    BY <1>1, <1>2 DEF TargetSetup, Stepping, VersionAt
  <2>2. cache'.version = [x \in Types |-> IF \E a \in s.types \X s.names : a[1] = x
                                            THEN s.version ELSE NoVersion]
    BY <1>1, <1>2 DEF TargetSetup, SetState, SetSnapshot
  <2>3. PICK n \in s.names : TRUE
    BY <2>1
  <2>4. \E a \in s.types \X s.names : a[1] = t
    <3>1. <<t, n>> \in s.types \X s.names /\ <<t, n>>[1] = t
      BY <2>1, <2>3
    <3> QED BY <3>1
  <2> QED BY <1>1, <2>2, <2>4
<1>3. CASE ResourceIsAdded(TRUE)
  <2>1. s.type \in Types /\ s.names \subseteq Names
    BY <1>1, <1>3, ArgumentsAreTyped DEF ResourceIsAdded, Changes
  <2>2. PICK m \in s.names : AddResource(s.type, m, s.version, TRUE)
    BY <1>1, <1>3 DEF ResourceIsAdded
  <2> HIDE DEF s
  <2>3. \A x \in Types : cache'.version[x] = s.version
    BY <2>1, <2>2, AddSucceeds
  <2> QED BY <1>1, <2>3
<1>4. CASE ResourceIsUpdated(TRUE)
  <2>1. PICK m \in s.names : UpdateResource(s.type, m, s.version, TRUE)
    BY <1>1, <1>4 DEF ResourceIsUpdated
  <2>3. AdapterTypeOK
    BY DEF TypeOK
  <2> HIDE DEF s
  <2>2. \A x \in Types : cache'.version[x] = s.version
    BY <2>1, <2>3, UpdateSucceeds
  <2> QED BY <1>1, <2>2
<1>5. CASE ResourceIsRemoved(TRUE)
  BY <1>1, <1>5 DEF ResourceIsRemoved, Stepping, VersionAt
<1> QED BY <1>2, <1>3, <1>4, <1>5 DEF Called

LEMMA CallKeepsExpected ==
    ASSUME TypeOK, Called(TRUE), Present, Absent, Versioned, si' = si + 1,
           UNCHANGED <<given, fi>>
    PROVE  Present' /\ Absent' /\ Versioned'
<1> PICK steps : steps = Scenario.steps
  OBVIOUS
<1>0. steps \in Seq(Steps) /\ si \in Nat /\ Scenario'.steps = steps /\ si \in CalledAt(steps)
  <2>1. fi \in DOMAIN features /\ si \in 1..(Len(Scenario.steps) + 1) /\ si <= Len(Scenario.steps)
    BY DEF Called, TargetSetup, ResourceIsAdded, ResourceIsUpdated, ResourceIsRemoved, Stepping,
           TypeOK, PlaceOK, Selected
  <2>2. Scenario.steps \in Seq(Steps)
    BY <2>1, ScenarioIsTyped DEF Scenario
  <2>3. Step.op \in {"setup"} \union Changes
    BY DEF Called, TargetSetup, ResourceIsAdded, ResourceIsUpdated, ResourceIsRemoved, Stepping,
           Changes
  <2> QED BY <2>1, <2>2, <2>3 DEF Scenario, Step, given, CalledAt
<1>1. ASSUME NEW t \in Types, NEW n \in Names
      PROVE  Stands(si + 1, InEffect(t, n), TakenAt(steps, t, n)) => <<t, n>> \in Held'
  <2> SUFFICES ASSUME Stands(si + 1, InEffect(t, n), TakenAt(steps, t, n))
               PROVE  <<t, n>> \in Held'
    OBVIOUS
  <2>1. InEffect(t, n) \in SUBSET Nat /\ TakenAt(steps, t, n) \in SUBSET Nat
    BY <1>0, StepNumbers DEF InEffect
  <2>2. \/ si \in InEffect(t, n)
        \/ Stands(si, InEffect(t, n), TakenAt(steps, t, n)) /\ si \notin TakenAt(steps, t, n)
    BY <1>0, <2>1, StandsNext
  <2>3. si \in InEffect(t, n) \/ (<<t, n>> \in Held /\ si \notin TakenAt(steps, t, n))
    BY <2>2 DEF Present
  <2> QED BY <2>3, CallIsExpected
<1>2. ASSUME NEW t \in Types, NEW n \in Names
      PROVE  Stands(si + 1, RemovedAt(steps, t, n), PutAt(steps, t, n)) => <<t, n>> \notin Held'
  <2> SUFFICES ASSUME Stands(si + 1, RemovedAt(steps, t, n), PutAt(steps, t, n))
               PROVE  <<t, n>> \notin Held'
    OBVIOUS
  <2>1. RemovedAt(steps, t, n) \in SUBSET Nat /\ PutAt(steps, t, n) \in SUBSET Nat
    BY <1>0, StepNumbers
  <2>2. \/ si \in RemovedAt(steps, t, n)
        \/ Stands(si, RemovedAt(steps, t, n), PutAt(steps, t, n)) /\ si \notin PutAt(steps, t, n)
    BY <1>0, <2>1, StandsNext
  <2>3. si \in RemovedAt(steps, t, n) \/ (<<t, n>> \notin Held /\ si \notin PutAt(steps, t, n))
    BY <2>2 DEF Absent
  <2> QED BY <2>3, CallIsExpected
<1>3. ASSUME NEW t \in Types, NEW v \in Versions
      PROVE  Stands(si + 1, VersionAt(steps, t, v), CalledAt(steps)) => cache'.version[t] = v
  <2> SUFFICES ASSUME Stands(si + 1, VersionAt(steps, t, v), CalledAt(steps))
               PROVE  cache'.version[t] = v
    OBVIOUS
  <2>1. VersionAt(steps, t, v) \in SUBSET Nat /\ CalledAt(steps) \in SUBSET Nat
    BY <1>0, StepNumbers
  <2>2. si \in VersionAt(steps, t, v)
    BY <1>0, <2>1, StandsNext
  <2> QED BY <2>2, CallGivesVersion
<1> QED BY <1>0, <1>1, <1>2, <1>3 DEF Present, Absent, Versioned, InEffect

\* A step that makes no call: nothing stands after it that did not before.
LEMMA StepKeepsExpected ==
    ASSUME TypeOK, phase = "steps", si <= Len(Scenario.steps),
           Step.op \in Requests \union Judgements,
           Present, Absent, Versioned, si' = si + 1, UNCHANGED <<given, fi, adapterVars>>
    PROVE  Present' /\ Absent' /\ Versioned'
<1> PICK steps : steps = Scenario.steps
  OBVIOUS
<1>0. steps \in Seq(Steps) /\ si \in Nat /\ Scenario'.steps = steps /\ cache' = cache
      /\ Held' = Held
  <2>1. fi \in DOMAIN features /\ si \in Nat
    BY DEF TypeOK, PlaceOK, Selected
  <2> QED BY <2>1, ScenarioIsTyped DEF Scenario, given, adapterVars, Held
<1>1. \A t, n : /\ si \notin InEffect(t, n) /\ si \notin RemovedAt(steps, t, n)
                /\ si \notin VersionAt(steps, t, n)
  <2>1. steps[si].op \notin {"setup", "add", "update", "remove"}
    BY DEF Step, Requests, Judgements
  <2> QED BY <2>1 DEF InEffect, SetUpAt, AddedAt, RemovedAt, VersionAt
<1>2. ASSUME NEW t \in Types, NEW n \in Names,
             Stands(si + 1, InEffect(t, n), TakenAt(steps, t, n))
      PROVE  <<t, n>> \in Held
  <2>1. InEffect(t, n) \in SUBSET Nat /\ TakenAt(steps, t, n) \in SUBSET Nat
    BY <1>0, StepNumbers DEF InEffect
  <2>2. Stands(si, InEffect(t, n), TakenAt(steps, t, n))
    BY <1>0, <1>1, <1>2, <2>1, StandsNext
  <2> QED BY <2>2 DEF Present
<1>3. ASSUME NEW t \in Types, NEW n \in Names,
             Stands(si + 1, RemovedAt(steps, t, n), PutAt(steps, t, n))
      PROVE  <<t, n>> \notin Held
  <2>1. RemovedAt(steps, t, n) \in SUBSET Nat /\ PutAt(steps, t, n) \in SUBSET Nat
    BY <1>0, StepNumbers
  <2>2. Stands(si, RemovedAt(steps, t, n), PutAt(steps, t, n))
    BY <1>0, <1>1, <1>3, <2>1, StandsNext
  <2> QED BY <2>2 DEF Absent
<1>4. ASSUME NEW t \in Types, NEW v \in Versions,
             Stands(si + 1, VersionAt(steps, t, v), CalledAt(steps))
      PROVE  cache.version[t] = v
  <2>1. VersionAt(steps, t, v) \in SUBSET Nat /\ CalledAt(steps) \in SUBSET Nat
    BY <1>0, StepNumbers
  <2>2. Stands(si, VersionAt(steps, t, v), CalledAt(steps))
    BY <1>0, <1>1, <1>4, <2>1, StandsNext
  <2> QED BY <2>2 DEF Versioned
<1> QED BY <1>0, <1>2, <1>3, <1>4 DEF Present, Absent, Versioned, InEffect

\* Nothing stands before the first step.
LEMMA NothingExpected ==
    ASSUME TypeOK, phase = "before", BeforeHook
    PROVE  Present' /\ Absent' /\ Versioned'
<1> PICK steps : steps = Scenario'.steps
  OBVIOUS
<1>0. steps \in Seq(Steps) /\ si' = 1
  <2>1. fi \in DOMAIN features
    BY DEF TypeOK, PlaceOK, Selected
  <2> QED BY <2>1, ScenarioIsTyped DEF BeforeHook, Scenario, given
<1>1. \A i \in DOMAIN steps : ~(i < 1)
  BY <1>0, LenProperties
<1>2. ASSUME NEW made, made \subseteq DOMAIN steps, NEW undone PROVE ~Stands(1, made, undone)
  BY <1>1, <1>2 DEF Stands
<1>3. \A t, n : /\ SetUpAt(steps, t, n) \union AddedAt(steps, t, n) \subseteq DOMAIN steps
                /\ RemovedAt(steps, t, n) \subseteq DOMAIN steps
                /\ VersionAt(steps, t, n) \subseteq DOMAIN steps
  BY DEF SetUpAt, AddedAt, RemovedAt, VersionAt
<1> QED BY <1>0, <1>2, <1>3 DEF Present, Absent, Versioned, InEffect

LEMMA ExpectedUntouched ==
    ASSUME ExpectInv, phase' = phase, UNCHANGED <<given, place, failed, adapterVars>>
    PROVE  ExpectInv'
<1>1. Scenario' = Scenario /\ Held' = Held /\ cache' = cache
  BY DEF Scenario, Held, given, place, adapterVars
<1> QED BY <1>1 DEF ExpectInv, Present, Absent, Versioned, InEffect, place

LEMMA ExpectStep == TypeInv /\ ExpectInv /\ [Next]_vars => ExpectInv'
<1> SUFFICES ASSUME TypeInv, ExpectInv, [Next]_vars PROVE ExpectInv'
  OBVIOUS
<1>0. TypeOK
  BY DEF TypeInv
<1>1. CASE \/ MainNext \/ InitScenario
           \/ AfterHook \/ AfterHookPanics \/ SkipStep \/ ScenarioEnds
  <2>1. phase' # "steps"
    BY <1>1 DEF MainNext, ReadSettings, ReadFlags, ReadConfig, SettingsAreWrong, StartRunner,
                ConnectFails, UpdateResults, PrintResults, InitScenario, AfterHook,
                AfterHookPanics, SkipStep, ScenarioEnds
  <2> QED BY <2>1 DEF ExpectInv
<1>2. CASE BeforeHook
  BY <1>0, <1>2, NothingExpected DEF ExpectInv, BeforeHook
<1>3. CASE AdapterStep
  <2>1. CASE CallSucceeds
    <3>1. Called(TRUE) /\ phase = "steps" /\ ~failed /\ si' = si + 1 /\ UNCHANGED <<given, fi>>
      BY <1>3, <2>1 DEF AdapterStep, CallSucceeds, StepPasses, Called, TargetSetup,
                        ResourceIsAdded, ResourceIsUpdated, ResourceIsRemoved, Stepping
    <3> QED BY <1>0, <3>1, CallKeepsExpected DEF ExpectInv
  <2>2. CASE CallFails \/ CallIsLost
    BY <2>2 DEF CallFails, CallIsLost, StepFails, ExpectInv
  <2> QED BY <1>3, <2>1, <2>2 DEF AdapterStep
<1>4. CASE OpenStream \/ ReuseStream \/ RequestIsRefused \/ JudgingStep
  <2>1. /\ phase = "steps" /\ ~failed /\ si <= Len(Scenario.steps)
        /\ Step.op \in Requests \union Judgements
        /\ UNCHANGED <<given, fi, adapterVars>>
    BY <1>4 DEF OpenStream, ReuseStream, RequestIsRefused, JudgingStep, Stepping, target,
                Requests
  <2>2. si' = si + 1 \/ failed'
    BY <1>4 DEF OpenStream, ReuseStream, RequestIsRefused, JudgingStep, StepPasses, StepFails
  <2> QED BY <1>0, <2>1, <2>2, StepKeepsExpected DEF ExpectInv
<1>5. CASE StreamRecords
  BY <1>5, ExpectedUntouched DEF StreamRecords, target
<1>6. CASE UNCHANGED vars
  BY <1>6, ExpectedUntouched DEF vars, target
<1> QED BY <1>1, <1>2, <1>3, <1>4, <1>5, <1>6 DEF Next, ScenarioNext

LEMMA ExpectationsAreHeld == TypeInv /\ ExpectInv => ExpectedIsHeld
<1> SUFFICES ASSUME TypeInv, ExpectInv PROVE ExpectedIsHeld
  OBVIOUS
<1> PICK steps : steps = Scenario.steps
  OBVIOUS
<1>0. TypeOK
  BY DEF TypeInv
<1>1. ASSUME NEW ops, Stepping(ops)
      PROVE  /\ si \in DOMAIN features[fi].steps /\ fi \in DOMAIN features
             /\ features \in FeatureFiles /\ features[fi].steps = steps /\ Step = steps[si]
             /\ Present /\ Absent /\ Versioned
  <2>1. fi \in DOMAIN features /\ features \in FeatureFiles /\ si \in 1..(Len(Scenario.steps) + 1)
        /\ si <= Len(Scenario.steps)
    BY <1>0, <1>1 DEF Stepping, TypeOK, PlaceOK, Selected
  <2>2. features[fi].steps \in Seq(Steps)
    BY <1>0, <2>1, ScenarioIsTyped
  <2> QED BY <1>1, <2>1, <2>2 DEF Scenario, Step, Stepping, ExpectInv
<1>2. ASSUME Stepping({"receives", "receivesOnly", "single"})
      PROVE  /\ {Step.type} \X Step.names \subseteq Held
             /\ cache.version[Step.type] = Step.version
  <2>1. Step \in Steps /\ Step.op \in {"receives", "receivesOnly", "single"}
    BY <1>0, <1>2, StepIsTyped
  <2>2. Step.type \in Types /\ Step.names \subseteq Names /\ Step.version \in Versions
    BY <2>1 DEF Steps, Changes, Requests, Judgements
  <2>3. Stands(si, VersionAt(steps, Step.type, Step.version), CalledAt(steps))
    BY <1>1, <1>2, <2>1, ExpectationsAssumption
  <2>4. \A n \in Step.names :
          Stands(si, SetUpAt(steps, Step.type, n) \union AddedAt(steps, Step.type, n),
                 TakenAt(steps, Step.type, n))
    BY <1>1, <1>2, <2>1, ExpectationsAssumption
  <2>5. Present /\ Versioned
    BY <1>1, <1>2
  <2>6. \A n \in Step.names : <<Step.type, n>> \in Held
    BY <2>2, <2>4, <2>5 DEF Present, InEffect
  <2> QED BY <2>2, <2>3, <2>5, <2>6 DEF Versioned
<1>3. ASSUME Stepping({"receivesNotice"})
      PROVE  ({Step.type} \X Step.names) \intersect Held = {}
  <2>1. Step \in Steps /\ Step.op = "receivesNotice"
    BY <1>0, <1>3, StepIsTyped
  <2>2. Step.type \in Types /\ Step.names \subseteq Names
    BY <2>1 DEF Steps, Changes, Requests, Judgements
  <2>3. \A n \in Step.names : Stands(si, RemovedAt(steps, Step.type, n), PutAt(steps, Step.type, n))
    BY <1>1, <1>3, <2>1, ExpectationsAssumption
  <2>4. \A n \in Step.names : <<Step.type, n>> \notin Held
    BY <1>1, <1>3, <2>2, <2>3 DEF Absent
  <2> QED BY <2>4
<1> QED BY <1>2, <1>3 DEF ExpectedIsHeld

\* When a step waits for resources (steps.go), the adapter holds them at the version
\* that the step names, and none whose removal it waits for: no addition, update or
\* removal (adapter.go) loses what an earlier step set up, of its type or another.
THEOREM ExpectedIsHeldHolds == Spec => []ExpectedIsHeld
<1>1. Init => ExpectInv
  BY DEF Init, ExpectInv
<1>2. Spec => [](TypeInv /\ ExpectInv)
  BY <1>1, SuiteTypeInit, SuiteTypeStep, ExpectStep, PTL DEF Spec
<1> QED BY <1>2, ExpectationsAreHeld, PTL
=============================================================================
