# A verification of xds-test-harness in TLA+

The repository is a conformance test runner for xDS servers. It plays the client of an
xDS server (the *target*), sets the target's state through an *adapter* its team has
written, and judges the target by what comes over one stream. Its own core is small and
concurrent: three goroutines and a scenario's steps share four channels, two counters and
two maps, and every verdict it gives depends on how these interleave. That is what the
modules here are about.

## Inventory

| Part | Source | State | Operations | Hard because |
|---|---|---|---|---|
| Stream goroutines | `internal/runner/runner.go` 126-281 | channels `Req`, `Res`, `Err`, `Done`, the WaitGroup, `RequestCount`, `ResponseCount`, the gRPC stream | `Ack`, `SotwStream`, `DeltaStream`, the receive loop | four actors, bounded channels, four ways to shut down |
| Service builders | `internal/runner/services.go` | the channels, the stream and its context | `openChannels`, `set*Stream`, `getService`, `getBuilder` | a stream that fails to open |
| Steps | `internal/runner/steps.go` | none of their own; the runner's | 22 step patterns on 16 functions | timers racing answers; state read without a lock |
| The record | `Runner.Validate`, `Runner.SubscribeRequest` | versions and nonces by type and name; removed names; counters | written by the receive loop and by steps, read by both | stale nonces, blank entries, overwritten nonces |
| Feature files | `features/*.feature` | - | 22 scenario outlines with tags | what is a pass must be one |
| Suite and hooks | `internal/runner/suite.go`, `FreshRunner` | the suite's current runner, the steps' receiver | `StartRunner`, `SetTags`, `ConfigureSuite`, the hooks, `UpdateResults` | scenarios must not meet through what they leave behind |
| Formatter, results | `fmt_xds.go`, `main.go`, `internal/types` | tallies, verdicts printed | one callback per step result, the sums | nothing may be lost; a scenario's verdict is printed with a step that may have been skipped |
| Settings | `main.go`, `internal/parser/parser.go` | - | flags, the configuration file, `ParseSupportedVariants`, `ValuesFromConfig` | two sources, of which one replaces the other |
| Responses' names | `internal/parser/parser.go` | - | `ServiceToTypeURL`, `ResourceNames` | a resource that does not parse |
| Adapter of the example target | `examples/go-control-plane/adapter.go` | a snapshot of the library's cache | `SetState`, `ClearState`, `Add/Update/RemoveResource` | every change rebuilds all types by hand; calls fail after they took effect |
| Server of the example target | the rest of `examples/go-control-plane` | - | registering services, listening | not modelled, see below |

How they meet: `main` makes a suite per variant; godog calls the suite's initialiser, its
hooks and the steps of each scenario, one after the other, in one goroutine. The first
subscription of a scenario opens a stream and starts `Stream`, which starts the receive
loop, and `Ack`. Steps push requests into `Req`; `Stream` sends them and counts; the
receive loop records, counts and passes responses on through `Res`; `Ack` turns them into
requests for `Req`. Errors go to `Err`, read by whichever step is waiting. The last step
hands `Done` to `Ack`, which closes `Req`.

What makes each part correct, in a line: the stream ACKs every response once and in order,
never sends on a closed channel, and never reports a closed channel as an answer; the
final check decides what it says it decides; a conformant target is not failed; what a
step finds received was sent; scenarios keep apart, on their runner and in the adapter's
state; what a step waits for can be had; verdicts and results say what happened.
`PROJECT.json` lists the hazards at their lines, with the properties that watch over them,
or a note where none does.

## Modules

| Module | What it is |
|---|---|
| `XdsStream` | one stream: `Ack`, `Stream`, the receive loop, the step goroutine, the target; who does what when |
| `AckLedger` | what a stream promises: responses received, taken and ACKed by ordinal, until stopped |
| `MCXdsStream` | instances of `XdsStream` for TLC |
| `XdsStreamProofs`, `LedgerProofs` | theorems about `XdsStream`; that it implements `AckLedger`, where every ACK is, and what its final check decides |
| `Conversation` | the content: requests, responses, the record, every step, a conformant and an arbitrary target |
| `Features` | the feature files' scenarios, as sequences of `Conversation`'s steps |
| `MCConversation` | instances of `Conversation` with these scenarios |
| `Expectations` | what a scenario may expect of a conformant target, read from its text |
| `ConversationProofs` | theorems about the types of a conversation, the record, the verdicts drawn from it, and the types of ACKs |
| `SubscriptionProofs` | what a conformant target is subscribed to when all is quiet |
| `ExpectationProofs` | that no step fails a conformant target |
| `Adapter` | the adapter of the example target: five calls on a snapshot |
| `MCAdapter` | `Adapter` with a client that makes any calls |
| `AdapterProofs` | the types of the adapter, that names stay unique, and which updates change nothing |
| `Suite`, `MCSuite` | settings, variants, scenarios of the feature files, hooks, runners, steps on `Adapter`, tallies, verdicts and results |
| `SuiteProofs` | theorems about `Suite`: types, runners, the adapter's state, streams, verdicts |
| `OutcomeProofs` | that the results are complete, and that what steps wait for is held |

### XdsStream and the code

Each goroutine has a variable for where it is: `ack`, `stream`, `recv`, `step`; an action
is the stretch between two points where another goroutine can interfere, which are the
channel operations, the calls on the gRPC stream and the WaitGroup. `req`, `res`, `err`
are the channels' buffers (`err` only counts, since no property tells errors apart),
`closed` the channels that were closed. `SignalDone` is one action of two goroutines, as
`Done` has no buffer. `reply` and `hand` are the messages `Ack` and `Stream` hold between
taking one and passing it on. A nil request is what `Ack` makes of the nil that a closed
`Res` yields, since it ignores `newAckFromResponse`'s error.
The loop's tail is where `RequestCount` grows, after a failed `Send` too, as in the code.
The two protocols differ in four places, told apart by `Incremental`: what a bad
request leads to (return, or go on and send), and whether a response can fail to parse.
`link` is the gRPC stream, with the target's early end, the deadline of 90 s and a broken
transport as `Faults`. A panic ends the process: `RecvPanics` stops every goroutine.
`acked`, `subsSent`, `answered`, `ackAnswered` and `subs` are history that properties need.

A step goroutine makes up to `MaxSteps` choices of pushing a request or waiting for a
timer, and ends with or without the final check. It takes the order every feature file
has: a request is followed by a receiving step before the final check.

### Conversation and the code

Resources are recorded as in `Validate`: a version and a nonce for a type and a name, a
relation here, with `Put` for the assignment to a map entry. Requests and responses carry
type, names, nonce and version; node and `VersionInfo` of requests are left out, since
nothing is decided by them. Every function that `LoadSteps` binds is an operator or action
named after it. Where Go iterates over a map and the last entry wins
(`ClientUnsubscribesFromAll`), the model chooses any. Goroutines are those of `XdsStream`
on a stream that neither ends nor fails, with the steps in between that touch no shared
data merged. The receive loop records a response name by name, so that a step may come in
between. Two steps read the record before they put a new map in its place (steps.go:186
and 196, 218 and 226): `EntryIsRead` is the reading, with what was read in `pushing` while
`doing` is "replace", and `ClientUpdatesSubscription` and `ClientUnsubscribesFromAll` are
the rest, so that a response recorded in between is lost, as in the code. Making the new
map and filling it in are one action: an entry written between the two is overwritten if
it is for a name filled in, as if it had been written before both, and otherwise stays, as
if it had been written after.

The conformant target follows the protocol: it ignores a request with a stale nonce, a
subscription of no names is for all, LDS and CDS responses hold every subscribed resource
(sotw), others may hold only what changed, and it sends what it owes. It may answer one
request with one response or, in the scenarios of `Split`, with several. The arbitrary
target sends any response, of an empty version too, for types that were subscribed to and
for those of `Unasked`. It keeps one rule of the protocol: each of its responses has a nonce
of its own. `SingleIsEarned` needs that, since the step tells responses apart by nothing
else.

`mapped` has the types for which `Validate` holds a map of names. Assigning to the map of
another type panics in Go: `RecvPanics` ends the harness, and `PanicIsUnasked` says when.
A scenario's steps are typed (`ScenariosAssumption`), so that the theorems hold for all
scenarios that `LoadSteps` could bind, and not only for those of the feature files.

`TargetReads` and its kin are external: they are modelled from how the steps use them.

### Adapter and the code

`cache` is the node's snapshot: whether there is one, a version for each type and the
resources. Of a resource the model keeps type, name and the one `field` that
`updateForType` writes, with the value the `Make*` functions give it. `Rebuilt` is the end
that `UpdateResource`, `AddResource` and `RemoveResource` share: a new snapshot of all four
types, each with the version of the request. `AddResource` appends the new resource once
for each resource of its type, as the code's inner loop does, so that a type with none gets
none. A call ends with `ok` or with an error. The cache stores a snapshot before it answers
its watches and fails in these, so that a failing call may have stored; `SetState` then
exits the process (`up`). The handlers are atomic: the harness makes a call at a time.

### Suite and the code

`ReadSettings` is `main` up to its loop: the flags' variants are parsed first, even where
the configuration file then replaces them; `has` tells which entries the file has, and
whether its variants are a list. Words of a variant are those of the table or others, case
being ignored as `strings.ToLower` does. Unknown variants and a file without one of three
entries end the harness; a missing adapter address does not, until the connection fails.

A runner is a number, given by `FreshRunner`. `bound` is the runner that `LoadSteps` bound
the scenario's steps to, which is the one made for the scenario *before*, because the
initialiser runs before the Before hook. Streams are never closed, so their goroutines go
on recording (`StreamRecords`). Steps carry their data: those that change the target's
state are composed with `Adapter`'s calls (`CallSucceeds`, `CallFails` whose call may have
taken effect, `CallIsLost`), those that send requests open a stream or use the one there
is, and the others pass or fail. A request for an unknown service fails before it touches
anything (`RequestIsRefused`). godog calls the After hook at the step that fails, or at the
last, and then goes through the steps left to skip: `AfterHook` leads to the phase
"skipping", `SkipStep` counts one, `ScenarioEnds` leads back to the suite. `tally` is the
formatter's, `reported` the verdicts it prints, `results` the sums. Connection failures and
a failing `ClearState` end the process, as they do in the code. `asked` is history: the
resources that the scenario asked the adapter for. Of godog nothing is assumed but that it
runs scenarios one by one, steps in order until one fails, and the hooks at these places.

## Runs

| Run | Question | Bounds | States |
|---|---|---|---|
| `stream_sotw` | is the sotw stream safe to shut down in every way? | code's capacities (2), 3 responses, 3 steps, all faults, prompt | 375 330 |
| `stream_delta` | is every response ACKed once and in order, whatever the timing? | as above, delta, not prompt | 690 448 |
| `stream_judge` | what does the final check decide, and does everything that should happen happen? | capacities 1, 4 responses, 4 steps, a target that answers ACKs, unparsable responses, fair | 239 583 |
| `stream_stuck` | *violated*: `DoneStopsAck` with a target that ends its stream early | 2 responses | |
| `stream_late` | *violated*: "too many responses" means an ACK was answered | 2 responses | |
| `stream_missed` | *violated*: a pass means no ACK was answered | 3 responses | |
| `conversation` | is the target judged justly, and are ACKs for their responses? | all scenarios of the feature files, two names, two versions, both targets, two responses of the arbitrary one, which answers for EDS unasked | 3 132 226 |
| `conv_stale` | *violated*: the unsubscribe request's nonce is current | a target that splits RDS | |
| `conv_race` | *violated*: a conformant target passes, with the adapter's calls not waiting for the stream | sotw scenarios | |
| `conv_ads` | *violated*: an ACK is for its response's type | aggregated scenarios | |
| `suite` | do scenarios keep apart, are their expectations met, are verdicts and results true? | each scenario between two others, eight command lines, every call may fail | 691 460 |
| `adapter_update` | *violated*: an update changes its resource | two names, any calls, the field of updates up to 20 | |

Why the bounds are enough. Capacity 2 with three responses and a subscription request
fills `Req` and `Res` and leaves a message in each hand; capacity 1 with four responses
does so with responses to spare, which is where the final check becomes blind. Two steps
after the subscription suffice to push, wait and be interrupted. In the feature files a
scenario has at most two kinds of resources, the ones it singles out and the others, and
two versions; the names A and B stand for them. `Suite` needs two consecutive scenarios on
a runner, two variants and a scenario that is not of every variant: each of the feature
files' scenarios is run after one that all variants have and before one that only
aggregated sotw streams have. Its command lines have one variant and two, a tag, a
configuration file, and each of the mistakes in them. `MaxField` only ends the counting up
of clusters and listeners; route configurations and endpoints need two updates.

The violated properties are quotes of the repository's documents, comments and tests; the
`findings` of `PROJECT.json` give the quotation, the lines and what the trace shows:

1. After the target has ended its stream, `Ack` makes nil requests of a closed `Res`
   until it blocks, and the final check waits for ever on `Done`.
2. A response after `Done` is counted and not ACKed: "too many" without an answered ACK.
3. A response to an ACK is itself ACKed, and so not noticed.
4. The nonce of the unsubscribe request is that of *some* recorded entry.
5. The adapter's update may overtake the request queued before it.
6. A sotw ACK on an aggregated stream carries the first subscription's type.
7. The second update of a route configuration or endpoint writes the constant that is
   already there, where the comment on `UpdateResource` promises a meaningful update.

## Assumptions

* **Prompt.** With `Prompt`, a timer of seconds fires only when no goroutine has anything
  left to do but wait for a channel, a step or the target. The code relies on it: 3 s
  against microseconds. It is FALSE in `stream_delta` and in the theorems that do not name
  it. Without it `NoPanic` is false: a receive loop that has not run by the time of `Done`
  lets `wg.Wait` return, and then reports the cancelled stream on the closed `Err`.
* **A target that answers in time.** In `Conversation`, `TimerFires` waits for a conformant
  target to be done. The arbitrary target has no such courtesy. A conformant target that
  needs more than the 3 s of a step is therefore not judged by any property, and an ACK is
  seldom still to be queued when a step changes the subscription, since the step before it
  has waited; `conv_race` and `conv_stale` show what is left of such orders.
* **Nonces.** Both targets use a nonce once, as the protocol has it.
* **Racing.** Adapter calls find the target up to date with the stream in all runs but
  `conv_race`.
* **Splitting.** In `conversation`, a conformant target may spread resources over
  responses in all scenarios but the two that pick a nonce for RDS; that is `conv_stale`.
* **Fairness.** `FairSpec` has weak fairness of each goroutine: the Go scheduler runs
  what can run, and timers fire. The target owes nothing, so that no liveness property
  rests on it. A disabled goroutine (blocked on a channel) is owed nothing either.
  `stream_judge` therefore has no other fault than unparsable responses: `stream_stuck`
  shows what an early end of the stream does to `DoneStopsAck`.
* **Undisturbed.** `JudgeBlindHolds` and `JudgeExactHolds` assume `Prompt`, and that the
  target neither ends nor breaks the stream, since nil requests are counted too.
* **Feature files.** `OneServiceAssumption`: a scenario tagged `@non-aggregated` sends
  requests for one service. TLC checks it on the scenarios of `Features`; without it
  `StreamServesType` is false. `FeatureFilesAssumption` has no scenario without a step,
  for which the formatter would print no verdict. `ExpectationsAssumption`: a scenario
  waits only for resources that one of its steps has set up or added and none has taken
  away since, at the version its last call gave, and for the removal of those it removed.
  It speaks of a scenario's text only; what the adapter makes of the text is what
  `ExpectedIsHeld` is about. TLC checks it on `Features` too.
* **Kinds of scenarios.** Three theorems about `Conversation` are for scenarios of a kind,
  told by their text, since they fail for others. `UnsubscribesLater`: incremental, and it
  unsubscribes only after it has subscribed and waited. `SubscribesOnce`: state of the
  world, and no type's subscription changes. `OneService`: all requests of the steps are for
  one type. `ExpectsWhatIsDue`, of one of the first two kinds with a little more, has each
  judging step ask for what the steps before it have made due: resources that were put into
  the snapshot and not taken out, subscribed to and not given up, at a version they may
  have been sent at and at no other; and a step that looks at nonces, or at the counts,
  comes when a timed step has waited for the answers and nothing has been asked since.
  Nothing in it speaks of a state, so it can be checked by reading: a scenario that is not
  of this kind blames a conformant target for what it could not have sent.
  `KindsAssumption` of `MCConversation` has TLC check which of the feature files'
  scenarios these are: all but the three state of the world ones that unsubscribe, and for
  `OneService` all but those for aggregated streams.
* Unknown services and resources that do not marshal end their step with an error before
  the call; in `Suite` this is `CallIsLost`, and for requests `RequestIsRefused`.

## Proofs

All theorems are for every value of the constants, under the modules' named assumptions.

* `TypeCorrect`: `Spec => []TypeOK`, from the invariant `TypeInv`, which adds that a
  response in the receive loop's hand has been counted.
* `NoEmptyRequestHolds`: the invariant `NilInv` follows a nil back to where it comes from:
  a nil in `Req` or in a hand means that `Res` is closed, which means that the receive
  loop has seen the end of the stream, so nothing is sent to a target any more.
* `NoPanicHolds` and `WaitReadsRealErrorHolds`, under `Prompt`: `ShutInv` says why no send
  meets a closed channel. Once a receiving step has passed its timer, the receive loop is
  past its first `wg.Add`; `wg.Done` does not exist, so `wg.Wait` never returns, and what
  remains to make `Stream` close `Err` is the nil request, that is, a receive loop that
  has returned and an error in `Err` for the step that waits.
* `LedgerRefined`: `Spec => LedgerSpec`. A response counts as taken when it is neither in
  the receive loop's hand nor in `Res`. `OrderInv` says that the ACKs in `Stream`'s hand,
  `Req` and `Ack`'s hand are, in this order, for consecutive responses from `acked + 1` to
  `taken`; then `StreamSends` is `Acknowledge`, `AckTakes` is `Take`, `RecvMessage` is
  `Receive`, `SignalDone` (and a panic) is `Stop`, and everything else a stutter.
* `RecordIsDeliveredHolds`, `ReceiptIsEarnedHolds`, `SingleIsEarnedHolds`: the invariant
  `IInv` adds to `RecordIsDelivered` that what the receive loop has still to record, and the
  entry that a step has read and will write back, were delivered too; no assumption on timing, scenario or target is used. The two action
  properties follow from it for the step that judges (`StepInv`).
* `AcksAccountedHolds`, with no assumption on faults or timing, from the same `OrderInv`:
  the ACKs under way are for `acked + 1` to `taken`, one each, so that the numbers between
  are matched one to one with the places in `Req` and the hands that have an ACK
  (`FiniteSetTheorems` then gives equal cardinalities, which needs no induction).
* `PanicIsUnaskedHolds`: the receive loop finds its type without a map only if no step
  before subscribed to it, since a subscription maps its type before anything else and no
  step ever takes a type out of `mapped`.
* `ConversationTypeCorrect`: `TypeOK` of `Conversation` is inductive as it stands. It says
  more than types: one entry a name in the record, and what a queue may hold.
* `AckMatchesResponseHolds`: `AckIsForItsResponse` on incremental streams, and in
  `OneService` scenarios with a target that answers for nothing it was not asked for
  (a conformant one, or `Unasked = {}`). Incremental ACKs
  take type and nonce from one response, so that it takes `NonceInv` only: a nonce is of one
  type wherever it is, downstream, in `Res`, in a hand, in an ACK. Sotw ACKs take the type
  from the first subscription instead; `ServiceInv` has every request, subscription and
  response of the stream be of that type. What is left is what `conv_ads` shows to fail:
  sotw streams of two services.
* `SubscriptionSettlesHolds`, for scenarios of the kinds `UnsubscribesLater` and
  `SubscribesOnce`. Incremental requests are differences, and the stream's first request
  may be sent after those that steps push, so the subscription is not what any one place
  holds. `DeltaInv` says what it will be when the target has read what is upstream, what is
  in `Req`, what a step pushes and the first request, in that order: what the steps last
  asked for (`wanted`). The order matters for removals alone, of which there are none while
  the first request is unsent (`StartedInv`: it is out once a timed step has passed).
  Sotw requests are whole subscriptions, and `Ack` repeats them with a nonce that may be
  stale; `OnceInv` has every copy be what is wanted, and one without a nonce, which no
  target declines, be under way until the target has it. When all is quiet nothing is
  under way.
* `ConformantPassesHolds`, for scenarios that are `ExpectsWhatIsDue`, adapter calls that do
  not race and a `Res` with a buffer. What the text of a scenario has come to
  after its first k steps is a predicate of the text (`Present`, `Covered`, `Recorded` and
  so on), for which `TextNext` says what one more step makes of it. The inductive
  invariant, `DueInv`, relates the state to these at `Upto`, the number of steps done:
  `TextInv` for the snapshot and the subscriptions wanted; `ComingInv` for responses on
  their way, which hold what the snapshot holds because it does not change while they are;
  `SotwInv` and `ToldInv` have what the target has told be on its way, or recorded at a
  version given since the resource was last put, or (incremental) asked for again. To
  the steps that deny something belong the rest: `DropInv`, what was given up is not asked
  for, owed, coming or recorded; `FreshInv`, nothing comes that there is no reason to send
  since the last change; `NewerInv`, what was put later has a later nonce. `WholeIs`, in
  `SotwInv`, has all of a type whose responses are whole share a version and a nonce, which
  is what `single` judges. `RestInv` has all be quiet, the record included, from a timed
  step on for as long as the steps only judge; `CountInv` counts requests against
  responses wherever they are. With `SubscriptionSettles`' own invariant, quiet means that
  nothing is coming, asked for or owed (`QuietIsEmpty`), and each verdict follows from its
  part of `DueInv` (`JudgementHolds`, `ComparisonHolds`). The buffer is needed
  because the model has every response pass through it: it has no handover on an unbuffered
  `Res`, which the code does not have either.
* `JudgeExactHolds`, `JudgeBlindHolds`: `Open` says that while the harness alone closes the
  stream, no nil is ever taken, `Stream` only returns to wait once `Req` is drained, and
  `Ack` is stopped by then. `Counted` is the conservation law: a subscription asked for or a
  response taken is a request that was counted, is in `Req` or in somebody's hand. When
  the timer fires nothing is in between (`Prompt`), so that `requestCount` is `subs` plus
  the responses taken, and what was counted but not taken is at most what `Res` and the
  receive loop's hand can hold.
* `AdapterTypeCorrect`: `AdapterTypeOK` is inductive; the case that takes an argument is
  `AddResource`, which must replace the resource of its name.
* `UpdateIsLost`: an update leaves its resource as it was exactly when it is a route
  configuration or an endpoint that has been updated before. It says how far the seventh
  finding goes: for every other resource the comment on `UpdateResource` is right.
* `SuiteTypeCorrect`: each step's data is found in the feature files by the place the
  process is at (`ScenarioIsTyped`), and the adapter's part is `AdapterProofs`'.
* `RunnerIsOwnHolds`: `RunnerInv` follows a runner from the hook that makes it to the
  scenario that takes it: between scenarios the current runner is above all that were
  written to, and what goroutines write to is below it or this scenario's.
* `StateIsOwnHolds`: `StateInv` has the adapter empty outside of scenarios, which the After
  hook sees to or the harness ends.
* `StreamServesTypeHolds`: `ServiceInv` keeps with a stream that its service is one that
  its scenario has a request for.
* `VerdictsAgreeHolds`: `VerdictInv` relates verdicts and listed failures before, between
  and after the steps of a scenario; a verdict is out exactly when the last step is over.
* `ResultsCompleteHolds`: `CountInv` keeps the tally equal to the number of steps that
  are over in this variant, the total to those of the variants before, and both to the
  sums of what passed, failed and was skipped; the sets it counts grow by the step that
  ends and, as steps are told apart by variant, scenario and place, by no other.
* `ExpectedIsHeldHolds`: as long as no step has failed, the adapter's cache is what the
  scenario's text says up to the present step (`ExpectInv`): what stands was put there and
  not taken away (`Present`), what was removed is gone (`Absent`), and the version is the
  last given (`Versioned`). Each of the adapter's calls rebuilds all types, so that
  each must be shown to keep those it is not about. A call that fails or is lost fails its
  step, and the invariant says no more.

Only model-checked:

* liveness (`ResponsesAcked`, `DoneStopsAck`, `ScenarioEnds`), out of the prover's reach;
* `SubscriptionSettles` and `ConformantPasses` for the sotw scenarios that unsubscribe:
  whether the target takes the request depends on a nonce picked from the record being
  current, which `conv_stale` shows it need not be;
* that what does not hold fails, which takes a trace: `TooManyMeansAckAnswered`,
  `PassedMeansNoAckAnswered`, `UpdateIsMeaningful`, and `AckIsForItsResponse` in general.

## Not modelled

* The server of the example target, which registers go-control-plane's services and
  listens; and go-control-plane itself, the cache aside. `Conversation` has a conformant
  target in general.
* Concurrent access to Go maps as such, which the runtime may end the process for.
  `Conversation` has what the order of the accesses does to the record.
* The error of `any.New` in the receive loops (runner.go:183-186, 250-253), which report it
  and then pass a nil on: it packs a response that gRPC has just unpacked, which does not
  fail.
* The leak itself of the goroutines that `wg.Wait` keeps, as a property: it is certain.
  `RunnerIsOwn` is about what they could do to a later scenario.
* Steps after a stream that could not be opened (steps.go:158), which would block on the
  nil channels of an empty service: godog skips them.
* Undefined and pending steps, since `LoadSteps` binds every step there is; output formats
  and files, logging, and `--testwriting`, which leaves the results empty.
* Node and version of requests, addresses and other content of resources.
* A service in lower case, which `ServiceToTypeURL` accepts and `getBuilder` does not know:
  no feature file has one.

## Plan

Done: the stream, its ledger and its final check, the conversation, the scenarios, the
suite with settings and adapter, and the proofs above. What is left, in this order:

1. `SubscriptionSettles`, and then `ConformantPasses`, for sotw unsubscription from services
   whose responses hold every subscribed resource (`Whole`), where all entries have the
   nonce of the last response.
2. `Suite` with a stream per scenario instantiated from `XdsStream`, for the goroutines
   that are left behind; `StreamRecords` stands for them now.
3. `Conversation`'s target on `Adapter`'s snapshot, so that the library's way of answering
   (a version per type, whole snapshots) takes the place of the general target.
4. `--testwriting`, once it is decided what its empty results should say.
