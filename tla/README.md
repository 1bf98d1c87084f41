# Byakugan Core in TLA+

Formal models of the decision engines of Byakugan Core, the TLC runs that check
them on small instances, and TLAPS proofs of the results that matter most.
Line numbers are those of the files under `src/`.

## The system

Byakugan Core is a Go library, with an optional HTTP server, that turns a bank
transfer into a fraud *decision* (allow, review, block) and a transaction into
AML *observations*. Nothing is persisted. All shared state is in memory behind
one mutex per object, and callers bring the concurrency: every method may be
called from any goroutine, and evaluators supplied by the application run inside
the library's calls and may call it back.

| Component | State it keeps | Operations | Talks to |
| --- | --- | --- | --- |
| `engine.ReplayEngine` (`engine/replay.go`) | two-level result cache, FIFO and counter, pending channels per key, history; one mutex | `Check`, `History` | calls `Framework.Evaluate` with no lock held |
| `engine.Framework` (`engine/framework.go`) | rules and registered evaluators; an RWMutex | `Register`, `ReplaceRules`, `Rules`, `Evaluate` | calls rules and custom evaluators with no lock held |
| `engine.Engine` (`engine/engine.go`), legacy | rules, two-level cache, FIFO and counter, history; an RWMutex | `Check`, `CheckWithContext`, `History`, `Rules`, `ReplaceRules` | evaluates rules while it holds its lock |
| rules DSL (`rules/rules.go`) | none | validate and evaluate a rule over request, history, metrics | used by both engines |
| transfer domain (`domain/`) | none | `ValidateTransfer`, exact amounts | used by engines and rules |
| AML framework (`aml/scenarios/framework.go`) | scenario versions and evaluators; an RWMutex | `Register`, `ReplaceScenarios`, `Evaluate` | calls scenario evaluator and custom evaluators |
| AML scenario evaluator (`aml/scenarios/evaluator.go`) | none | evaluate a condition tree with unknown inputs | used by the AML framework |
| AML domain (`aml/domain/`) | none | validate transactions and scenarios, exact decimals | used by the evaluator |
| ISO 20022 import (`iso20022/pacs008.go`) | none | parse one pacs.008 transfer | used by the API |
| HTTP API and server (`api/`, `cmd/`) | none | authenticate, decode, `Engine.Check` | calls the legacy engine |

What is hard in it:

* **ReplayEngine.** Concurrent calls with one key are to cost one evaluation.
  The call that finds the key free publishes a channel, evaluates with no lock
  held, commits in one critical section and closes the channel in another, the
  deferred one, however it got out. In between other calls wait, are cancelled,
  wake and look again, find their result evicted by other keys, or find that the
  call they waited for failed or panicked. An evaluator may call the engine back,
  and calls that wait for each other's keys can make a circle.
* **Framework.** An evaluation takes a snapshot and runs foreign code over it,
  while that code and others change the registry and the context ends. Failures,
  refused answers, cancellations and thresholds all move one decision, which may
  only get stricter and may never come out as an allow after a failure.
* **AML.** Its framework has the same races over its registry, and a result that
  may claim to be complete only when it is whole. Its scenarios are evaluated over
  inputs of which some are missing: a match must not rest on those.
* **Rules and what feeds them.** A rule stops reading its condition at the child that
  decides, is tried once on an empty request when it is installed and never again,
  and counts over a window of the history or over sums that somebody else made. A
  document that can be read in two ways, or the same transfer in another form,
  must not become another transfer.
* **Engine.** Everything but the clock and the fingerprint is in one critical
  section; three structures that must agree (map, FIFO, counter) are kept by hand.

`PROJECT.json` lists the hazards at their lines, with the properties that would
catch each of them going wrong.

## Modules

| Module | What it is |
| --- | --- |
| `Decisions` | the three decisions and how the engines move between them |
| `IdempotencyCache` | the map of maps, its FIFO, its eviction, the bounded list; shared by both engines |
| `PriorityOrder` | `sort.SliceStable` by priority |
| `ReplayEngine` | `ReplayEngine.Check` as the steps of goroutines |
| `ReplayLedger` | what `ReplayEngine` promises: a ledger with no lock, channel, cache or queue |
| `ReplayEngineProperties` | its invariants, the refinement of `ReplayLedger` |
| `ReplayNested` | `ReplayEngine` with evaluators that call it: who waits for whom, and its liveness |
| `Framework`, `FrameworkProperties` | the registry and the step-by-step evaluation |
| `FrameworkHistory` | `Framework` with a memory of what evaluators answered, to say which hits may count |
| `LegacyEvaluate` | `Engine.evaluate` as operators |
| `Engine`, `EngineProperties` | the legacy engine, composed of `LegacyEvaluate` and `IdempotencyCache` |
| `Words`, `ExactMoney`, `TransferRequest` | strings, `domain/money.go` and `ValidateTransfer` as operators |
| `RulesEvaluation` | `rules/rules.go` as operators: validation, the traversal, every field and operator |
| `Pacs008` | `iso20022/pacs008.go`: from a document to a request |
| `CheckService`, `CheckServiceProperties` | one check from the HTTP message to the decision, composed of `Pacs008`, `TransferRequest`, `RulesEvaluation` and `LegacyEvaluate` |
| `ScenarioEvaluation` | AML conditions: which are accepted, what they say of an input with gaps |
| `ScenarioEvaluationProperties` | one evaluation of a version on an input, and the Boolean logic it is held against |
| `AmlFramework`, `AmlFrameworkProperties` | the AML registry and its evaluations, composed with `ScenarioEvaluation` |
| `MC*` | instances for TLC |
| `OperatorProofs` | lemmas about the operators several modules share |
| `ReplayEngineProofs`, `ReplayLedgerProofs`, `FrameworkProofs`, `EngineProofs`, `AmlFrameworkProofs`, `ScenarioEvaluationProofs`, `CheckServiceProofs` | lemmas and theorems about one component each |

A definition named `Faulty...` (also `LeakyDiscard`, `UnsetApplyRule`,
`GlobalKeyFree`, `HastyAnyOf`, `EagerAllOf`, `RawAmount`) stands next to the one it is a plausible bug of. Nothing uses it;
put in the place of the right one it makes the property named for it in
`PROJECT.json` fail, which shows that the property looks at the code.

### ReplayEngine and the code

A call is one invocation of `Check`. `pc[c]` is where its goroutine is; every
critical section of `m.mu` is one action, as is everything a goroutine does
between two of them that others could observe.

| Action | Lines | What it stands for |
| --- | --- | --- |
| `Start` | 47-58 | context and fingerprint, before any lock |
| `LookupCancelled`, `Replay`, `Wait`, `Claim` | 59-86 | the lookup section: give up, share, wait, or own the key and copy the history |
| `Wake`, `AbandonWait` | 71-76 | the `select`; with both channels ready either may be taken |
| `EvaluationFails`, `EvaluationPanics`, `EvaluationOutlived`, `EvaluationSucceeds` | 95-116 | `framework.Evaluate` and what is done with its result before the next lock |
| `CommitCancelled`, `Commit` | 117-149 | the second section: record in history, evict, cache |
| `Cleanup` | 87-94 | the deferred release, a section of its own |
| `Cancel` | | the caller's context ends, at any time |

`checks`, `order`, `entries`, `pending` and `history` are the fields of the
struct; `pending[k]` is the owner of the channel rather than the channel, and
closing it is moving every call that waits for the key from "waiting" to "woken".
`conflict`, `seen` (the history copied for the evaluation) and `result` are the
locals that matter. `journal` and `ledger` are auxiliary: every recorded
decision, and those with a key, in order. A test of the context that directly
precedes a critical section is in its action; a context is not shared between
calls, so its ending between the two is its ending after both. A decision is its
ID, its outcome and whether it carries the conflict reason.

`ReplayNested` adds the caller of each call (`outer`): a call with a caller is made
by its caller's evaluator, while that evaluates, and the caller's evaluator
answers only when it has returned. Contexts are derived, so one that ends ends
those of the calls made under it. `HeldUpBy` is the relation of waiting: a
waiter on the owner of its key, an evaluation on the calls it made. Everything
else is `ReplayEngine`'s.

### Framework and the code

`Evaluate` is `Begin` (193-236), then for each step of the snapshot
`StepCancelled`, `Skip` or `Call` (237-256) and `AnsweredLate`, `AnswersError` or
`AnswersHits` (257-287), then `Finish` (289-302). A rule and a custom evaluator are
any answer their interface allows; a rule gives at most one hit. `Register` and
`ReplaceRules` are possible between any two steps, from callbacks or from
outside. Scores are integers, and a sum beyond `MaxScore` of either sign stands for one
that is not finite. Reasons are the set of their kinds.

`FrameworkHistory` adds `answers`: the hits of every answer, whether it came with an error
or after the context had ended, and the hits the result had before it. It is written in the
steps that take an answer and read by none, so it rules out no behaviour.

### Engine and the code

`Arrive` reads the clock and the fingerprint (100-101), `Replay` and `Decide` are
the critical section with and without a hit. `Decide` runs the whole of
`evaluate`, `record` and `store`. Rule verdicts and contexts are chosen freely.
`LegacyEvaluate` translates `evaluate` (141-198) as a composition: opening
decision, rules in order, thresholds, placeholder. Verdicts belong to positions of the
list, as the engine takes rules that share an ID.

### Rules, money, documents, API and the code

`RulesEvaluation` has a condition as a tree of numbered nodes, as AML does.
`EvaluateLeaves` is `evaluateLeaves` (231-264): `AllOf` and `AnyOf` stop at the first
child that is no hit, or no miss. `FieldValue` and `Compare` are the functions of
the same names; a value of a rule is its JSON kind and
its content. `Validate` contains the trial of each leaf on an empty request (`TrialFact`).
`Duration` is what becomes of a number of minutes in a `time.Duration`, which wraps
around. `MetricWindows` is `MetricWindowsFromRules` for one rule.

`ExactMoney` has the text of an amount as a record: whether it is a plain decimal,
its digits as one integer, and how many of them follow the point. Acceptance,
canonical form, minor units and sums are integer arithmetic on it.

`Pacs008` has a document as the sequence of its elements. `Decodes` is the walk that
refuses repeated and foreign elements (132-197). `WordAt` and `AmountAt` take one of
several occurrences as a parameter says; the parser takes the "last".

`CheckService` is one check: `Unauthorized`, `BadRequest` or `Accept` for a message
over HTTP (`api/api.go:26-46`), then `CheckWithContext`, whose `DataOf` decides
between the engine's history and what the caller supplies (104-106), whose
`Verdicts` are those of `RulesEvaluation` and whose decision is `LegacyEvaluate`'s.
`Init` in `CheckServiceProperties` is any message, request, context, history and list of
rules of the right kinds: amounts are texts, conditions are trees numbered in the order
in which they are read. The runs take the families of cases of `MCCheckService` out of
these (`MCSpec`). A part of the history is the set of its positions, so that sums and counts
over it are recursive functions and cardinalities, and the proofs can speak of them.

### AML and the code

`ScenarioEvaluation` has a condition as a tree of numbered nodes. `Nodes` is
`evaluation.node` (86-141) for every node at once: `AllOf` and `AnyOf` pick the
first child that decides, `Predicate` resolves both operands and compares them.
A value is its JSON kind and its content; a decimal string is an integer, any
other text is not. `ValidCondition` is `validateScenarioNode`.
`ScenarioEvaluationProperties` takes a version and an input and evaluates one on the
other. Its reference is Boolean logic over the leaves: `Outcomes` are all the ways
they may turn out, as their operands say where these are there and can be compared
(`Decided`, `Says`), either way elsewhere.

`AmlFramework.Evaluate` is `Begin` (138-148), for each entry of the snapshot
`RunScenario` (149-155) or `CallEvaluator` followed by `AnsweredLate`,
`EvaluatorFails` or `EvaluatorAnswers` (156-176), and `Finish` (177-181);
`Cancelled` is every test of the context in between, those inside
`EvaluateContext` included.

## Properties

**ReplayEngine.**
`SingleFlight`: at most one call works on a key, under the channel its release
will close. `NoLostWakeup`: nobody waits on a channel nobody will close.
`CacheIsWindow`, `HistoryIsWindow`: map, FIFO, counter and history are exactly the
newest recorded decisions up to the cap. `OnlySuccessRecorded`: what failed,
panicked or was cancelled leaves no trace. `ReplayIsOriginal`: a shared decision
is the one its evaluating caller got for the same key and payload.
`FailureNeverAllows`. `ConflictsFlagged`: of two retained decisions of one key the
later is flagged. `SerialPerKey`: velocity rules see every earlier decision of
their own key. `ImplementsLedger`: all of `Check` implements `ReplayLedger`.
With nested calls: `StuckHasCause` (a call that never returns has behind it, along the
waiting, an evaluator that does not answer or a circle), `OrderedCallsReturn` (if
evaluators answer and call with keys in one order, every call returns; that no
evaluator calls with its own key is not enough) and `CancellationFrees` (a waiter
whose context ends returns, a circle in which one ends comes apart).

**Framework.** `SnapshotCoherent`, `NoDowngrade` (a step property),
`FailureNeverAllows`, `DecisionExplained` (an allow and a block have exactly the stated
causes), `OnlyAcceptedHitsCount`: "Partial hits returned together with an error are
discarded. Invalid hits are evaluation failures, not signals"
(`docs/fraud-framework.md:46-48`), nor do hits count that come after the context has ended;
the hits of a result are those of the other answers, whole and in order (with
`StopOnBlock` up to the one that ends the evaluation), and its score is their sum.

**Engine.** `CacheIsWindow`, `ReplayIsOriginal`, `ConflictExact` (the conflict reason
is there exactly when another result of the key was retained).

**Rules, money, documents, API.**
`DecisionExplained`: an allow and a block of the legacy engine have exactly the stated
causes, whatever the order of rules. `ReasonsHonest`: each kind of reason is given exactly
when it has its cause, and there is always one. `RuleVerdictExplained`: a
condition is Boolean logic over its leaves as long as no failing leaf matters,
and a rule fails exactly when one does, also with an application's own leaves.
`FailsOnlyOnData`: an accepted rule fails only over money that cannot be used in the
transfer's currency, so the trial at installation finds every other way.
`MetricsAgreeWithHistory`: a rule with windows says the same of the aggregates of
those windows as of the history they were made from. `OneReading`: no accepted
document would be another transfer to a reader that takes the first of repeated
elements. `ReformattingIsSame`: white space and superfluous zeros do not change the
request. `FirstTimeIsWindowed` is a finding.

**AML.** `TypeOK` (whatever is installed or run over was prepared), `OneObservationEach` (one
registry, in order, no match without data), `CompleteIsWhole`; for the conditions `MatchIsCertain` (a match holds in
every world the supplied inputs leave open), `CompleteIsDecided` (with nothing
missing it is Boolean logic, and no broken operand that matters is passed over),
`MatchIsFound`, `FailsOnlyOnData` (an accepted condition fails only on data).

## Runs

| Run | Instance | Shows |
| --- | --- | --- |
| `replay_safety` | 3 calls of any of 6 kinds, 2 keys, 2 payloads, caps 2 | all invariants of ReplayEngine |
| `replay_refines` | the same, caps 1 | the refinement, with results evicted under waiters |
| `replay_nested` | 6 plans of 3 or 4 calls on 2 keys, caps 1 | what can hold a call up, and what frees it |
| `framework` | 1 evaluation, 4 policies, 7 inputs, 7 answers, up to 3 registry changes | all properties of Framework |
| `engine` | 4 calls, 2 keys, 2 payloads, caps 2, 1 rule replacement | all invariants of Engine |
| `check_service` | lists of up to 2 rules in every context; every field, operator and kind of value; conditions of up to 4 leaves and 3 levels; windows over histories of up to 2; a document with one element missing, repeated, foreign or changed | one check, from the message to the decision |
| `scenario_evaluation` | conditions of 3 levels, 7 inputs each supplied in two ways, missing or broken | evaluation against Boolean logic |
| `aml_framework` | 1 evaluation, 5 inputs, 5 version lists, 4 answers, up to 4 changes | all properties of AmlFramework |
| `rules_first_time` | the windows of `check_service` | the finding of the rules |
| `engine_history`, `engine_digest` | 2 calls | the findings of Engine |
| `scenario_missing` | as `scenario_evaluation` | the finding of the AML evaluator |

Why these bounds are enough: three calls are an owner, a waiter and a third that
evicts, conflicts or takes over; a cap of two with three recorded decisions evicts,
a cap of one evicts at every commit of another pair. The legacy engine takes four
calls to get a key evicted and used again beside another. Evaluations of
either framework share only the registry and never write it, so the others are the
environment's `Register` and `ReplaceRules`; `MaxChanges` bounds the latter, and
`MaxReplacements` those of Engine. Symmetry (permutations of `Calls`) is used only
in runs without liveness.

The plans of `replay_nested` are the shapes of waiting there are: an owner and two
waiters, an evaluator that calls with its own key, calls in the order of the
keys and against it one below the other, and two evaluators that call with each
other's key.

In `check_service` two rules give their order a meaning; a condition of three
levels has a short circuit over and under another, with a fourth leaf behind it;
histories of two have one transfer on each side of a window's end. The longest
integer has two digits instead of 18 and 36 (`TransferDigits`, `AggregateDigits`), so
that sums of two pass it, and a duration wraps at 5000 minutes (`DurationLimit`), so
that a window of the instance does. Strings are the words of the instance; `Words`
states what is assumed of trimming and upper case.

In `scenario_evaluation` every leaf has inputs of its own, so that no two leaves
speak of one missing value, and three levels let a negation stand over and under
All and Any; the operator `exists` is not exercised there.

Deadlock is checked where calls run to "returned", a state that then stutters
through `AllReturned`, or in `replay_nested` to where nothing is left to do.
`check_service` and `scenario_evaluation` answer one question and stop.

### Fairness

`EngineFairness` (`NestedSpec`): a goroutine that can take its next step takes it; the
mutex starves nobody (Go's mutex hands over after a millisecond of waiting).
`CallbackFairness`: an evaluator whose calls have returned answers, fails or panics.
It is the hypothesis of `OrderedCallsReturn`, as the documentation asks evaluators to
cooperate, and not assumed by `StuckHasCause` and `CancellationFrees`. Cancellation is never
assumed to happen. No other run is about liveness: where nobody waits for anybody, as in
the two frameworks, that an evaluation ends is a matter of loops over finite lists.

## Findings

* `engine_history`: `Engine` reads the clock before it takes its lock, so
  `History`, documented as newest first (`engine/engine.go:126`), is in the order
  of recording and may list an older decision before a newer one.
* `engine_digest`: `fingerprint` ignores the error of `json.Marshal`
  (`engine/engine.go:224`); two payloads that have no JSON form share a
  fingerprint, and the second replays the first one's decision instead of being
  reviewed as a conflict. `ReplayEngine` returns the error.
* `rules_first_time`: "Window fields apply to velocity, beneficiary-history, and
  account-change signals" (`rules/rules.go:17-18`), but a first-time-creditor leaf
  looks at the whole history (341, 597-605), so a rule with a window of an hour
  misses although the creditor was last paid before that hour. With metrics
  supplied by window it hits.
* `scenario_missing`: Any over an unmatched and an unavailable operand is *known*
  not to match (`aml/scenarios/evaluator.go:106`), so Not of it matches, with
  `insufficient_data` false. `docs/aml-evaluation.md:23-24` says that unavailable
  inputs produce insufficient-data observations. The document also keeps the
  unknown behaviour of an older evaluator for compatibility (60-61), so this may be
  wanted; it is not written down. Without such a negation matches are certain
  (`MatchIsCertain`).

Also worth knowing, though no document speaks of it:

* An AML condition with `in` and a scalar literal is accepted and then fails on every
  input that reaches it, which ends the whole evaluation. `FailsOnlyOnData` of
  `scenario_evaluation` names it as its exception.
* A number of minutes or hours that overflows `time.Duration` is accepted and makes a
  window that holds nothing (`rules/rules.go:484-487`).
* A recorded transfer whose amount cannot be read makes every sum it falls into fail
  (`rules/rules.go:564`): for later transfers in its currency (letter case aside) the sums
  over history of the same debtor, or of the same creditor, within the rule's window. It
  does so until it is older than the window or leaves the history; a sum over supplied
  metrics is not affected. `FailsOnlyOnData` of `check_service` allows for it.
* A rule without a window reads metrics of 24 hours but a history without limit.
* The number of transactions and the message definition of a document are compared
  as they are, not trimmed. Several remittance lines are joined with the space
  around each, so such a document in another form is another request.
* The comment at `engine/replay.go:45` forbids an evaluator to call with its own key;
  two that call with each other's key also wait forever, until a context ends.

## Proofs

`OperatorProofs` proves what the other proof modules share:

* what the cache operations keep and change: eviction removes exactly what it is told
  and no key without a result stays, setting a result sets that one, a cache whose
  pairs are those of a list loses with the head of that list exactly the head's pair
  (`ReplacementCaches`, `AgreementListsPairs`);
* a bounded list keeps its bound, and holds the end of the log it is fed from;
* a stable order by priority exists: a permutation of the positions of the list in which
  a smaller priority comes first and equals keep their order (`StableOrderExists`);
* induction over the numbers up to `n` for a *set* of numbers (`Induction`), or from the
  leaves of a tree whose children have larger numbers (`InductionFromAbove`), and the
  existence and typing of functions defined by recursion along either. The library's theorems take
  the predicate or the step as an operator, which the provers cannot instantiate;
  these take a set or a function instead. Running sums, lists of hits and lists of
  rules are recursive functions in the models so that these lemmas apply.

`ReplayEngineProofs` proves for **any** number of calls, keys, payloads and any
caps, from the assumptions of `ReplayEngine` (positive caps; the empty key is no
key, the empty ID no call, a payload without a digest has none; requests are
requests):

1. `TypeCorrect`. Its inductive invariant `Typing` adds to `TypeOK` that a call
   past its start has a fingerprint: without it nothing says that the inner map's
   keys are fingerprints when a decision is stored.
2. `FlightIsSingle` and `WakeupsArrive`. `SingleFlight` and `NoLostWakeup` are
   inductive together with `Typing` and `Cleaning` (only a call with a key comes to
   the release). Two actions can disturb them, `Claim` and `Cleanup`; all others
   leave the pending map alone and are covered by `QuietFlight`.
3. `RecordsAreSuccesses`, `ReplaysAreOriginals`, `FailuresNeverAllow`. The inductive
   invariant `Answers` says besides these three that an outcome is there only once
   the result is settled, that a call about to record records its own decision, and
   `CacheSound`: what is cached under a pair is the settled, successful answer of a
   call with that pair. The argument is that a settled answer never changes
   (`OneAnswer`), so what was true of a record when it was made stays true.

`ReplayLedgerProofs` proves, under the same assumptions, what is retained and what
calls in flight know of it: `CacheRetainsNewest`, `HistoryRetainsNewest`,
`ConflictsAreFlagged`, `VelocitySeesItsKey`. The inductive invariant `Windows` consists of

* `Retention`: history and FIFO are as long as the caps allow and hold the end of
  their logs, element by element, and the cache holds exactly the pairs of the FIFO
  with the checks of the log (`Agree`). That a pair is in the FIFO once is not a matter
  of the append: it needs the next part;
* `Exclusive`: a call that evaluates or is about to record still has no result under
  its pair, and knows of every other result of its key. A commit could break that for
  another call on the same key only, and `SingleFlight` leaves no such call;
* `Flagging`: what a call is about to record carries the conflict it noted.

The second part of `ReplayLedgerProofs` proves that the engine implements `ReplayLedger`
(`EngineImplementsLedger`): initial states map to initial states, and of the steps
`Replay` maps to `Share`, `Claim` to `Begin`, `Commit` to `Decide`, every way to fail,
withdraw or panic to `Fail`, all others to stuttering. What is retained in the ledger and what is
cached is the same by `Agree` and `CacheSound` (`RetainedIsCached`), which is what
the guards of `Share` and `Begin` need.

Its third part carries all of this over to nested calls, for any plan of them
(`NestedFlightIsSingle`, `NestedAnswersAreOriginals`, `NestedImplementsLedger`): a nested call is made of steps of
`ReplayEngine`, taken in an order that evaluators constrain, and the one new kind of
step, several contexts that end at once (`ContextsEnd`), touches nothing the
invariants speak of but the set of done contexts.

`FrameworkProofs` proves for any number of evaluations, any registrations, any
answers of evaluators and any bound of scores: `FrameworkTypes`, `SnapshotsAreCoherent`,
`FailuresNeverAllow`, `DecisionsAreExplained`, `OnlyAcceptedCount`, and of the steps
`NothingDowngrades`. Assumed is that rule sets are lists of rules and registrations
evaluators, of the types of their fields; that answers are lists of hits; and that
`MaxScore` and `MaxChanges` are natural numbers. The inductive invariant `Inv` adds to the types what the
locals of each evaluation are at each `pc` (`Locals`): the list it runs over is coherent,
the score is the sum of the hits heard so far (`SumsUp`), the decision is what
failures and outcomes make of it while it runs (`Accounted`), and what the property
says of it once it has returned. That the snapshot is coherent follows from the validity of
the registry and `StableOrderExists`: the sort of the code is an order `CHOOSE`n in
the model, of which nothing is known before one is shown to exist. `OnlyAcceptedCount` is
about `HSpec`, of which every step is one of `Spec` (`HistoryAddsNothing`), so that `Inv` holds
of it too; its own invariant says of every answer heard so far what became of it, which later
steps do not change as they only append to the hits.

`EngineProofs` proves for any caps, keys, requests, rule sets and clocks:
`EngineTypes`, `CacheRetainsNewest`, `ReplaysAreOriginals`, `ConflictsAreExact`. Assumed
is that caps are positive, that the empty key is no key, that requests are requests and that
rule sets are lists of rules with integer scores. The inductive invariant
`Inv` consists of the types and

* `Origins`: what a call returned was made by the call whose ID it bears, and if that is
  another, for the same key and fingerprint;
* `CacheSound`: what is cached under a pair was made by a call with that pair;
* `Retention`: the FIFO is the end of the log, and the cache holds exactly its pairs.
  From this the eviction loop never meets a dead entry (`EvictionsAreOverflow`), and the
  keys of the outer map, which the conflict test reads, are those of the last `MaxEntries`
  recorded decisions (`KnownIsRecent`);
* `ConflictExact`. It needs that `evaluate` neither drops the conflict nor invents one,
  whatever the rules (`EvaluateFlags`): proved rule by rule, by induction over the list.

`AmlFrameworkProofs` proves for any number of evaluations and any registries,
inputs and answers `TypeCorrect`, `ResultsSpeakForOneRegistry` and `CompletionIsEarned`. That
versions are prepared is a matter of every way into the registry (`PreparedList`). The inductive
invariant `Consistent` adds that the registry is valid at all times, which is what a snapshot inherits, that an evaluation inside
an evaluator still has an entry to hear, and that nothing is complete or failed
before it returns. Assumed is that lists hold versions, that IDs are strings and
that answers have the fields of an observation.

`ScenarioEvaluationProofs` proves for any versions and inputs, so for trees of any
shape, `MatchesAreCertain`, `CompleteInputsDecide`, `MatchesAreFound` and
`FailuresAreOfData`. Assumed is that conditions are trees whose children are numbered
above their parents, up to the number of nodes that validation admits; that the content of
a decimal is a number; and that screening facts are Booleans. There is one step, so the
invariant is that the observation is what `Evaluate` gives; the work is in what that is:

* that the answers of a tree exist at all, as the function `Nodes` takes (`TreesAnswer`),
  and likewise the truth values of Boolean logic (`TreesHold`), by `RecursionFromAbove`;
* what each family says of its children's answers (`NodesAnswer`), and a leaf of its
  operands (`PredicateIsFaithful`, `ScreeningIsFaithful`): it is known exactly when
  they are there and comparable, and then says what is so;
* by induction from the leaves (`TreeInduction`): where no `any` is, what is known is so
  (`ExactWithoutAny`), also under negations, and from this that matches are
  (`MatchesHold`); with every operand there a node is known or fails, and what is known is so
  (`CompleteTreesDecide`); what holds when all open leaves are false matches or fails
  (`WhatHoldsMatches`); and what fails does because a leaf does (`FailuresAreOfLeaves`).

The theorem about matches is false with an `any` under a `not`, which is the finding of
`scenario_missing`.

`CheckServiceProofs` proves for any rules, requests, histories, contexts and documents
`DecisionIsExplained`, `ReasonsAreHonest`, `RuleVerdictIsExplained`, `FailuresAreOfData`,
`AggregatesStandForHistory`, `ImportHasOneReading` and `AnotherFormIsSame`. Assumed is what `Init` says: that scores
are integers, that lists are lists, documents, data and amounts have their fields, that the nodes
of a condition are numbered in the order in which they are read, and of the words that trimming
twice is trimming once and undoes `Pad`. A rule need not be valid. Along which argument:

* *Verdicts.* A run of a tree says at each node what its kind of node makes of its children
  (`IsRun`); runs exist (`RunsExist`), and `EvaluateLeaves` and Boolean logic are the runs over
  verdicts and over truth values (`EvaluationIsRun`, `ValueIsRun`). By induction from the leaves: a
  run depends only on the leaves below a node (`RunIsLocal`), is constant once a leaf that decides
  is fixed (`RunIsConstant`), and where it does not fail it is true in every world (`RunIsSound`). Where
  it fails, the leaf to blame is found on the way down, with a world in which that leaf
  decides (`ErrorsMatter`); a leaf that fails but is not read changes no world (`ErrorsNotRead`).
  This is where the order of the numbers is needed: what is read before a leaf is what is below it.
* *Decisions.* The decision after `n` rules is what the rules up to `n` make of it (`Standing`:
  votes since the last failure, failures, opening), by induction over the list (`RoundStands`); its
  score is their sum (`ScoreIsTotal`); the reasons given so far are those that have their
  cause among the first `n` rules (`Reasoned`, `RoundReasoned`); thresholds and placeholder come on top
  (`ClosingExplained`).
* *Documents.* Every path that is mapped is among the `SingleValuePaths` (`MappedOnce`), where an
  accepted document has one element at most, the first and the last (`OnceIsOne`).
  A document in another form has the same elements at these paths, with words that trim to the same
  and amounts with a zero more (`ReformattedReads`), which has the same canonical form
  (`ZeroIsNothing`); the first of several places that has something in it is the same place
  (`FirstSame`), and a single remittance line is found by induction over the elements
  (`RemittanceIs`).
* *Money.* Powers of ten exist, are positive, multiply and grow (`PowersExist`, `PowersAdd`,
  `PowersGrow`); the canonical form of an amount is the same number (`CanonicalIsSame`), and a
  total of more amounts is not smaller (`TotalsGrow`), so that the sum in one window can be added up
  if the whole history can.
* *Failures.* The kind of a fact depends on its field only (`FactOfField`), and whether what is no
  money can be compared on the operator and the value only (`FailureIsOfKind`); so the trial on an
  empty request decides for every request (`TrialTells`), except for money (`MoneyIsThere`).
  The invariant this needs, `Inputs`, is that what is checked is a request, whether it
  came by call, as JSON or as a document (`ReadsRequests`).
* *Aggregates.* Leaf by leaf: counts are of the same sets (`AggregatesCount`), sums go through
  one decimal text more and stay the same number, fail together when they get too long, and take
  the current amount with the same result (`SumsAgree`); leaves that agree make rules that agree
  (`SameLeavesSameVerdict`). That a rule states its windows is needed: without one the
  history is looked at as a whole and the metrics for a day.

Not proved but model-checked: only liveness under
fairness, which is beyond the prover. The runs that find a violation show one, and
there is nothing to prove of them.

## Not modelled

* Clock readings other than the creation time of legacy decisions, random IDs
  (taken to be unique), the text of reasons.
* Defensive copying (`cloneCheck`, `cloneHistory`, `engine/snapshot.go`): values in
  the models cannot alias, which is what the copies are for.
* Of AML: `contains` and `starts_with`, reasons, evidence and shown values, the
  formats of versions and transactions.
* Floating point: numbers of rules, facts and scores are integers or decimals. So no score
  is NaN (`validateHits` refuses it as it does infinite sums), and texts a rule's value may be
  parsed from as a number but that are no plain decimals (`1e3`, `inf`) do not occur.
* A word fact of a rule compared with a value that is a number or a Boolean: the code compares
  with its text (`rules/rules.go:414-436`), in the model they are never equal. AML equality is
  of JSON texts (`aml/scenarios/evaluator.go:209-234`), so that "3.00" is not "3" there; the model
  has each decimal in one form.
* Of AML literals: arrays within arrays and the bounds of 1000 characters and 100 elements
  (`aml/domain/scenario.go:293-312`).
* An element of a document whose path only begins like the transfer's
  (`iso20022/pacs008.go:175`): the model compares whole path steps, the code a prefix of the text.
* Which JSON is accepted (an input of `CheckService`), XML syntax and the limits of
  size, depth and names (one Boolean of a document), request size limits.
* Start-up of the server: environment, rule file, listener, shutdown. Health and
  readiness are constant answers.
* Fields of a request no rule, check or fingerprint depends on otherwise than by being
  carried along: postal and contact data, message definition.

## Plan

Done: `ReplayEngine` with its ledger and with nested calls, `Framework`, `Engine`,
`AmlFramework` with `ScenarioEvaluation`, `CheckService` with rules, money, documents
and API; proved is every safety property of all of them that a run
checks, and that `ReplayEngine` implements its ledger, also with nested calls.

Next, in this order:

1. `contains` and `starts_with` of AML; the tables of its transactions.
2. Which amount aggregates stand for when a caller rounds them: `AggregatesStandForHistory` is about
   exact sums.
