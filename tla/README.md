# Messages and dialogues service: TLA+ models, checks and proofs

The service owns the rules of direct, saved and group dialogues, of messages and
of receipts. It has a domain layer (aggregates and policies), an application
layer (six command handlers over owned ports) and a small HTTP shell. No storage
adapter exists yet: the durable behaviour is a *contract*, written in the port
docstrings and in `src/docs/adr/0001-conditional-group-command-writes.md`, and
simulated by the adapters of `src/tests/unit/application`. What can go wrong is
almost all in the meeting of the handlers with that contract: decisions taken on
a snapshot and used after several awaits, retries, lost answers, late writes.
That comes first here; the rules of the aggregates over long runs, the values they
are made of, the requests of one server and the life of its process follow.

Code paths below are relative to `src/src/app` unless they start with `src/`.

## 1. Inventory

| Part | State | Operations | Interacts with |
|---|---|---|---|
| Group command handlers, `application/commands/groups/*/handler.py` | locals of one attempt: snapshot, message or watermark read, clock reading; attempt number | add member, remove member, send message, advance receipt | storage port (awaits), Identity, Object Storage |
| Conditional group storage, `ports/persistence/repositories/group_commands.py`, simulated in `src/tests/unit/application/groups/conftest.py` | group, revision, last position, messages, watermarks, results of membership commands | reads at a revision; `try_commit`; `try_commit_membership` | all group handlers, every future writer of the group |
| `GroupDialog`, `domain/aggregates/group_dialog.py` | members, owner, title, avatar, version, time | add, remove, rename, change owner, change and remove avatar; rights to send and read | handlers, posting policy, watermark |
| `Message`, posting policy | content, position, send key, version, times | create, edit text | send handler |
| `ReceiptWatermark` | delivered and read boundary, version | create empty, advance delivered, advance read | ACK handler, delivery policy |
| Delivery policy | none | status of a message for a recipient | watermark, dialogs |
| Dialog creation handlers, `application/commands/dialogues` | locals: candidate, canonical dialog, projection loop | create direct, create saved | dialog repositories, projections, Identity |
| `DirectDialog`, `SavedDialog`, `DirectParticipants` | immutable | create; access rules | creation handlers |
| Domain base and clock, `domain/base.py` | version and time of an aggregate | `_apply_changes`, `_mark_updated`, revalidation of copies | all aggregates |
| Values (text, title, ids) | immutable | normalization, limits | messages, groups |
| HTTP middleware, `entrypoints/http/middlewares` | response state, log events, logging context, request id | one call per request | ASGI server, application |
| Factory, readiness, settings, logging, `entrypoints/http/main.py`, `core` | settings cache, root and library loggers, cached module loggers, readiness flag | `create_app`, lifespan, `get_settings`, `setup_logging` | environment, libraries |

What is hard, and the properties that answer it:

* **Group commands.** Every handler reads a snapshot and commits later; in between
  anything may be accepted. Correct means: rights hold at the write and at the
  answer (`RightsHoldAtCommit`), the reads and the decision belong to one revision
  (`SnapshotCurrent`, `DecisionsStand`), the group stays within its rules
  (`GroupSound`, `GroupHistoryLinear`), positions are dense and send keys unique
  (`HistoryDense`, `SendKeyUnique`), watermarks are grounded and monotone
  (`ReceiptsGrounded`, `ReceiptsMonotone`), and no writer's change is lost under
  another's (`OneChangeAtATime`).
* **Retries and unknown outcomes.** A lost answer may hide a write that was made, will
  be made later, or never. Correct means: each membership command is applied at
  most once and repeated calls are told its own result (`MembershipAppliedOnce`,
  `MembershipAnswersFit`); repeated sends agree on one message
  (`SendsAnsweredOnce`); what an ACK was told stays true (`AcksHonoured`).
* **Bounded attempts.** Calls return (`CallsReturn`), within the limit (`TypeOK`), and give
  up only after conflicts (`ExhaustedByConflicts`).
* **Long runs of legal calls.** Statuses never go back (`StatusNeverGoesBack`) and tell of
  real ACKs (`StatusGrounded`), no one present gets stuck (`AcksNeverStuck`), an edit
  changes the text and nothing else (`MessagesKeepIdentity`), versions count
  changes (`VersionsCountChanges`).
* **Values that are validated again and again.** Normalization must be idempotent
  (`Restorable`), equal for all spellings (`OneIntent`) and come before the limit
  (`LimitOnVisible`).
* **Dialog creation.** Racing calls for A-B and B-A, losers that must forget their
  candidate, projections written in part, commands repeated: `ImplementsDirectory`,
  `ProjectionsCanonical`, `StoredGetsProjected`, `CommandsSettle`.
* **Requests.** Second starts, starts that are noted and lost, errors before and after
  the start, silent applications, clients that leave: `AnsweredOnce`,
  `FinishedAsStarted`, `LogFramed`, `GoneStaysQuiet`, and `ReturnedAnswered`, which the
  code breaks. Ids and contexts of several requests: `LinesOwn`, `StatesApart`,
  `AnswerNamed`.
* **The process.** A changed environment, failed starts, early loggers, libraries
  with handlers and levels, NOTSET, restarts: `OneService`, `HeardOnce`, `ReadyWhileServing`.

The full list of hazards, each at its line, is in `PROJECT.json`; every one is
answered by at least one property.

## 2. Modules

| Module | What it is |
|---|---|
| `GroupDomain` | The rules of `GroupDialog` (six operations), `Message`, `ReceiptWatermark` and the delivery status as pure operators: for each operation the error it raises, in the order of the code's tests, and the value it leaves |
| `GroupCommands` | The four handlers running concurrently against the conditional storage of one group, with failures; extends `GroupDomain` |
| `GroupService` | The abstract specification: one atomic group, no revisions, snapshots or attempts |
| `GroupRefinement` | The mapping from `GroupCommands` to `GroupService` and the property `ImplementsService` |
| `GroupGovernance` | The handlers beside rename, avatar and ownership changes as further conditional writers; liveness |
| `DialogHistory` | One dialog of each kind, its messages and receipts, under every order of accepted operations; extends `GroupDomain` |
| `TextValues` | Normalization and limits of texts and titles, on every short string |
| `DialogCreation` | The two creation handlers with their repositories and projections |
| `DialogDirectory` | The abstract specification: one dialog per key, shown to its users before success is told |
| `DialogRecovery` | `DialogCreation` with repeated commands, failures that end, and the mapping to `DialogDirectory` |
| `RequestLifecycle` | The middleware around one HTTP request |
| `RequestCorrelation` | Ids, logging contexts, scope states and headers of several requests |
| `ServiceProcess` | Settings, logging, applications and readiness of one process |
| `MCGroupCommands`, `MCGroupGovernance`, `MCDialogHistory`, `MCTextValues`, `MCDialogRecovery`, `MCRequestLifecycle`, `MCRequestCorrelation`, `MCServiceProcess` | Instances for TLC |
| `GroupCommandsProofs` | Theorems about `GroupCommands`: types, history, snapshots, rights, membership, watermarks, answers and attempts |
| `GroupServiceProofs` | Theorems about `GroupGovernance`, the bound on the steps of a call, and the refinement of `GroupService`, on top of it |
| `DialogCreationProofs` | Theorems about `DialogRecovery`: the invariants of creation under repeated commands, and the refinement of `DialogDirectory` |
| `TextValuesProofs` | Theorems about `TextValues`, with the induction over strings they need |
| `DialogHistoryProofs`, `RequestLifecycleProofs`, `RequestCorrelationProofs`, `ServiceProcessProofs` | Theorems about the modules they are named for |

Definitions commented as *mutants* are plausible bugs of the operator that follows
them; no specification uses them. `PROJECT.json` names, for every property, a
mutant under which TLC finds it violated, so no property holds by itself.

### GroupCommands and the code

A *call* is one invocation of a handler; a client retry is another call with the
same command. `pc[c]` names the await the call is at, so one action is the
stretch of code between two awaits:

| `pc` | Await | Action | Code |
|---|---|---|---|
| `load` | `get_by_id` | `Load` | e.g. `send_message/handler.py:57-60`, with `require_can_send` or `require_can_read` |
| `read` | the first read at the revision | `ReadMembership`, `ReadSent`, `ReadThrough`, `ReadConflict` | `add_member/handler.py:50-63`, `send_message/handler.py:61-97`, `advance_receipt/handler.py:52-57` |
| `receipt` | `get_receipt` | `ReadReceipt`, `ReadConflict` | `advance_receipt/handler.py:58-89` |
| `verify` | `require_registered`, `require_ready` | `VerifyRegistered`, `VerifyAttachments` | `add_member/handler.py:64`, `send_message/handler.py:83-97` |
| `commit` | `try_commit`, `try_commit_membership` | `CommitTrue`, `CommitFalse`, `LoseCommit` | `_try_commit` of the simulated adapter |
| `limbo` | none: the handler has raised, its write is under way | `Land` | port contract, "unknown outcome" |
| `done` | none | | |

`snap`, `found`, `watermark` and `now` are the handler's locals at that await;
`Forget` empties them when the attempt ends. `Retry` is `continue`, or the
`ConcurrentModificationError` after the loop. `MayCommit` is the conjunction of
every condition of the port, `Apply` the one atomic write. `EditMessage` is another
writer the port announces: an accepted `Message.edit_text`, which advances
the common revision. Ids a handler draws (`self._ids()`) are the call itself, so
fresh ids are distinct and stable over attempts, as in the code, where they are
drawn before the loop.

Data that no property tells apart is abstracted: texts, attachment lists, titles,
avatars and identifiers are model values. A message keeps no times here (nothing
the handlers do compares them); `DialogHistory` has them. The group of the model is
one: commands to other dialog ids meet `DialogNotFound`. Different groups share
nothing in the code.

Two switches describe the adapter. `SpuriousConflicts`: it may raise
`GroupReadConflictError` also when the revision holds, which the port permits
("cannot confirm"). `StaleReads`: it breaks the contract and answers with a stale
`None`, the case in which, as the port says, the commit's own conditions must
still hold.

### GroupService and the refinement

`GroupService` keeps members, version, a log (a message's position is its index),
two numbers per user and the accepted membership changes. Every call is served in
one step between its invocation and its answer; a call that ended without an
answer may still take effect once. Refusals are specified as well: `Justified`
says in which states each error may be answered. `ImplementsService` maps the
storage of `GroupCommands` to it and forgets everything else, so it covers what
callers can observe: every acceptance is linearized at its commit, every refusal
and every recalled result at the read that produced it.

### GroupGovernance and the code

`rename`, `change_avatar`, `remove_avatar` and `change_owner` of
`group_dialog.py` have no handler yet, but the storage port binds every writer of the
group to the common revision. `Rename`, `ChangeAvatar`, `RemoveAvatar` and
`ChangeOwner` are such writers at the instant their write is accepted, with the
errors of the aggregate and its rule that an equal value changes nothing
(`Applied`). They run beside the four handlers, so that a removal decided under an old
owner, or an addition computed from an old title, meets them.

### DialogHistory and the code

The aggregates keep no state between calls, and `ImplementsService` shows that
concurrent calls take effect one at a time; what their rules add up to is therefore
a sequential question. `dialog` is a direct, saved or group dialog (`StartDialogs`,
`NewGroup` is `GroupDialog.create`), `history` its messages with times, `receipts`
the watermarks. `Post` is `MessagePostingPolicy.create_message` with
`MessageContent.from_parts` (`ContentError`), `EditText` is `Message.edit_text`,
`Acknowledge` both advances of `ReceiptWatermark`, and the group operations share
`Become`. A refused call leaves its aggregate alone, so refusals are guards.
`Normal` says what normalization makes of a text as typed: a text, nothing or an
error; how it does so is `TextValues`. `changes` exists for the bound only.

### TextValues and the code

Nothing happens in this module but typing: `raw` is every string over six kinds of
characters, up to `MaxTyped`. The letter, the combining mark and their composition
stand for NFC, the blank, CR and LF for `strip` and the line ends.
`MessageText`, `GroupTitle` and `ContentText` are the validators of
`value_objects/message_text.py`, `group_title.py` and `message_content.py`, step by step in
their order. `OneIntent` compares with another spelling, `LimitOnVisible` with an
independent count of what a reader sees.

### DialogCreation, DialogDirectory, DialogRecovery and the code

`lookup`, `verify`, `create`, `project` are the awaits of both handlers; the saved
dialog is the case of one user. `Verify` and `Project` take one user per step,
because the code awaits in a loop. The repository answers `create_or_get` with
the stored dialog (`Winner`). `LoseCreate` and `Land` are an unknown outcome of
it; `LoseProjection` is a projection error after any part of that user's card and
list was written. The lookup may miss a stored dialog: it decides nothing.
Users are numbers, compared as UUID bytes are. `Register` is Identity.

`DialogDirectory` has neither lookups, candidates, loops nor races: a dialog comes to
be (`Found`), is seen by some of its users (`Reveal`), and a call is told of it once
all see it. `DialogRecovery` adds `Repeat`, a client that invokes the handler
again after `Unavailable` or `DialogProjectionsIncomplete`, and maps the stores to
the directory (`ImplementsDirectory`): a user sees a dialog that is on her cards
and in her list.

### RequestLifecycle, RequestCorrelation and the code

In `RequestLifecycle`, `response` is `HttpResponseState`, `log` the calls of the
observer, `handed` the statuses of the response starts given to the server and `lost`
those of starts that `response.start` noted and the server never got: the headers of
a start are optional in ASGI, `MutableHeaders` raises `KeyError` where they are missing,
and it is asked only after the start was noted. The
application is arbitrary: it sends starts, with headers or without, and bodies in any
order (`MaxSends` bounds them), catches or lets out errors of its sends, returns, raises,
is cancelled. An error is an `Exception` or `CancelledError`: any other
`BaseException` (`KeyboardInterrupt`, `SystemExit`, `GeneratorExit`) passes by both
`except` clauses and ends the process or its loop; it is not modelled, and a request it
ends after its start may be logged as not failed. A start whose message has no
`status` is outside ASGI and left out.
`SendEnds` also stands for a send that raises something else than `OSError`. When the
middleware answers itself, its start and its body are two awaits (`answering`,
`closing`), which may break, be refused or be cancelled.

`RequestCorrelation` leaves all that out and has several requests instead. Each is a task
whose logging context is a copy of the one of its creator (`Accept`), the server or
another request still being served; so what an earlier request bound is really
there to leak. `Enter` is the middleware up to the application: candidate header,
`ValidatedRequestIdResolver.resolve`, `_copy_scope`, `clear_contextvars` and
binding; `Exit` is the end of `bound_contextvars` and the clearing in `finally`.
`SendStart` is `send_with_request_id`. Which ids are safe is a constant set.

### ServiceProcess and the code

`CreateApp` is `create_app`: `get_settings` with its cache (an error is not cached),
`setup_logging` over the loggers that exist and the placeholders for those above them
(`LoggerDict`, `Normalized`), a new application that is
not ready. `Startup` and `Shutdown` are the two halves of `lifespan`, the second
in good order or by an exception. `Log` is a module's lazy structlog logger with
`cache_logger_on_first_use`; `MakeLogger` a library that configures its own
logger; `ChangeEnvironment` whoever edits the `.env` file meanwhile.

Standard loggers form a tree by their dotted names (`Above`). `EffectiveLevel` and
`Heard` are `getEffectiveLevel` and `callHandlers` of the library over a line of it.
`LOG_LEVEL=NOTSET` is a level like the others for `_log_level`, and the value 0 has a
meaning of its own: such a logger takes the level of the nearest one above it that has a
level. So with `NOTSET` a muted logger mutes all below it (`MUTE_LOGGERS=uvicorn` silences
the `INFO` of `uvicorn.access`), while with any other level it mutes but itself;
`HeardFrom` says so, and `HeardOnce` relates it to what is heard.

## 3. Runs

All runs pass except `MCLagging` and `MCHeaderless`, which are meant to be violated. Deadlock is
checked everywhere: `Settled`, `Served`, `Done` and `Typed` are the stutters of a
finished system; `DialogHistory` and `ServiceProcess` can always go on.

| Run | Question | Properties | States |
|---|---|---|---|
| `MCMembership` | Adds and removes in every order: last place, one command id for two intents, undone changes, lost and late writes, clocks 0, 1, 2 | `GroupSound`, `MembershipAnswersFit`, `GroupHistoryLinear`, `ImplementsService` | 140 450 |
| `MCMessages` | Sends under one key, an edit, replays, a removal, an unready attachment | `SnapshotCurrent`, `SendsAnsweredOnce`, `ExhaustedByConflicts`, `ImplementsService` | 139 056 |
| `MCStale` | Crossing and repeated ACKs of two readers against seeded and new messages, with sends, a removal and an add, when reads may answer a stale `None`: the conditions of the commit alone | `TypeOK`, `ReceiptsGrounded`, `AcksHonoured`, `SendKeyUnique`, `MembershipAppliedOnce`, `ReceiptsMonotone`, `RightsHoldAtCommit` | 939 792 |
| `MCReturn` | Commands beside renames, avatars and handovers, under an adapter that may refuse every read | `GroupSound`, `OneChangeAtATime`, `CallsReturn` | 185 988 |
| `MCDialogs` | Two creation calls over two users, both directions, self and saved, each repeated as often as it fails | `ProjectionsCanonical`, `ImplementsDirectory`, `StoredGetsProjected`, `CommandsSettle` | 49 504 |
| `MCHistory` | A pair, a saved dialog and a group under all legal calls, two instants | `AcksNeverStuck`, `StatusGrounded`, `MessagesKeepIdentity`, `StatusNeverGoesBack`, `VersionsCountChanges` | 174 935 |
| `MCText` | Every string of up to six characters, limits three and two | `Restorable`, `OneIntent`, `LimitOnVisible` | 55 987 |
| `MCCorrelation` | Three requests, created by the server or out of one another, with every kind of header | `LinesOwn`, `StatesApart`, `AnswerNamed` | 462 038 |
| `MCProcess` | Two applications, two modules, a library with a logger and one below it, a changing environment | `OneService`, `HeardOnce`, `ReadyWhileServing` | 414 652 |
| `MCRequest` | One request, four application sends, a good and a bad status | `AnsweredOnce`, `LogFramed`, `FinishedAsStarted`, `GoneStaysQuiet` | 556 |
| `MCHeaderless` | Is an application that returns always answered? No | `ReturnedAnswered` | |
| `MCLagging` | Are attempts used up only by conflicts when the adapter lags? No | `ExhaustedByConflicts` | |

Bounds and why they are enough.

* Three calls in the group runs: a race of two needs two, the third is the retry of
  one of them or the writer that undoes it; each call may be any of the workload's
  commands, so all combinations and repetitions are covered. `MaxAttempts = 2` (8
  in the code) has a first, a last and an exhausted attempt; nothing depends on the
  number but the comparison with the last. `MaxGroupMembers = 3` with two initial
  members leaves one last place for two candidates. `MaxEdits = 1` tells an edited
  message from a new one; a second edit adds no guard. Two seeded messages, and one
  sent meanwhile, make ACKs cross and repeat. Clocks of up to three instants include one before the
  group's creation. Symmetry permutes the calls, which are used nowhere as ordered;
  it is off in the liveness runs and wherever calls differ by definition.
* `MaxGroupVersion = 3` in `MCReturn` lets two changes from outside fall between a load
  and its commit and between two attempts; the third call finds no dialog and stands
  for the one whose end depends on nothing.
* `MCDialogs` has two calls because each may be repeated any number of times, so
  every race of an old write with a new attempt occurs; the safety part is proved for
  any number of calls.
* `MaxChanges = 4` in `MCHistory` allows a message, its edit, an ACK and a change of
  members, or two messages acknowledged by two kinds of ACK, in every order; no
  property relates more than two messages or two changes. `MaxAttachments = 1` makes
  the list of two too long as well as repetitive.
* `MaxTyped = 6` in `MCText` is twice the text limit, enough for a visible string
  over the limit as well as one brought below it by composition, line ends and
  blanks at both ends. `MaxSteps = 1` gives each application one field or one line;
  what a second would see the first has shown. `MaxSends = 4` has two starts, a
  body on either side, and an error after each.
* `MCProcess` bounds no counter: its state is finite. `MCSpelled` picks six settings an
  environment may spell: each level, NOTSET and the unsupported one included, with the
  upper logger, the lower one or none muted; a level can be inherited from one above
  or from the root.

Fairness. `FairSpec` (`MCReturn`) assumes weak fairness of each running handler's own
steps (`Step`): the event loop runs ready tasks, and a port call answers or fails. It is
not assumed that a lost write lands, that anything is edited or governed, or that a call is
made unavailable. Under it every call returns although the adapter may
refuse every read. `RecoverySpec` (`MCDialogs`) assumes the same of the creation
handlers, that clients do repeat a failed command, and that the failures of
dependencies end some day (`<>[]` no failing step): "once they end" is what the
promise of recovery is about. Lost writes need not land, and nobody need register.

### Findings

`MCLagging` shows a disagreement of a docstring with the code.
`ConcurrentModificationError` is documented as raised when the retry limit is
exhausted "after confirmed conflicts of the revision" (in Russian,
`application/exceptions/groups.py:13`). A read that could merely not be confirmed
(`GroupReadConflictError`, permitted by `group_commands.py:22-24`) uses up an attempt
as well, so a lone call may end with this error at an unchanged revision. With an
adapter that raises only on real changes the property holds: `MCMessages` checks it and
`ExhaustedCorrect` proves it from exactly that assumption.

`MCHeaderless` shows an error of the code. "ASGI application returned without a response" is an
error that the middleware answers with 500 (`request_id.py:113-132`, and
`test_middleware_fails_when_app_returns_without_response`). An application that starts a
response without headers, which ASGI allows, gets a `KeyError` after the response state has
noted the start. When it catches the error and returns, nobody answers the client, and
"request finished" tells the status of the start; when it lets the error out, the
middleware raises it without an answer. This is why `AnsweredOnce` excepts a lost start
and `FinishedAsStarted` speaks of the start that was noted, not of the one handed out. To
ask for the headers before `response.start` would mend it.

## 4. Proofs

TLAPS proves, for every set of users, calls, messages and workloads, every limit of
members and attempts, and both adapter switches unless a hypothesis is named:

| Theorem | Module | Says |
|---|---|---|
| `TypeCorrect` | `GroupCommandsProofs` | `Spec => []TypeOK` |
| `HistoryCorrect` | `GroupCommandsProofs` | `Spec => [](HistoryDense /\ SendKeyUnique)` |
| `SnapshotsCorrect` | `GroupCommandsProofs` | `Spec => [](SnapshotCurrent /\ DecisionsStand)` |
| `RightsCorrect` | `GroupCommandsProofs` | `Spec => RightsHoldAtCommit` |
| `GroupCorrect` | `GroupCommandsProofs` | `Spec => []GroupSound` |
| `MembershipOnceCorrect` | `GroupCommandsProofs` | `Spec => []MembershipAppliedOnce` |
| `GroupHistoryCorrect` | `GroupCommandsProofs` | `Spec => GroupHistoryLinear` |
| `ReceiptsCorrect` | `GroupCommandsProofs` | `Spec => []ReceiptsGrounded` |
| `MonotoneCorrect` | `GroupCommandsProofs` | `Spec => ReceiptsMonotone` |
| `MembershipAnswersCorrect` | `GroupCommandsProofs` | `Spec => []MembershipAnswersFit` |
| `SendAnswersCorrect` | `GroupCommandsProofs` | `Spec => []SendsAnsweredOnce` |
| `AcksCorrect` | `GroupCommandsProofs` | `Spec => []AcksHonoured` |
| `ExhaustedCorrect` | `GroupCommandsProofs` | `Spec => []ExhaustedByConflicts`, given `~SpuriousConflicts` and `~StaleReads` |
| `GovernedGroupCorrect` | `GroupServiceProofs` | `GovernedSpec => [](GroupSound /\ SnapshotCurrent)` |
| `OneChangeCorrect` | `GroupServiceProofs` | `GovernedSpec => OneChangeAtATime` |
| `GovernedAnswersCorrect` | `GroupServiceProofs` | `GovernedSpec =>` the history, the watermarks and the three properties of answers |
| `GovernedRightsCorrect` | `GroupServiceProofs` | `GovernedSpec => RightsHoldAtCommit` |
| `GovernedMonotoneCorrect` | `GroupServiceProofs` | `GovernedSpec => ReceiptsMonotone` |
| `GovernedExhaustedCorrect` | `GroupServiceProofs` | `GovernedSpec => []ExhaustedByConflicts`, given `~SpuriousConflicts` and `~StaleReads` |
| `StepsBounded` | `GroupServiceProofs` | under `GovernedSpec`, each step or failure of a call lowers `Remaining`, which starts below `5 * MaxAttempts`; nothing raises it |
| `ServiceCorrect` | `GroupServiceProofs` | `Spec => ImplementsService`, given `~StaleReads` |
| `GovernedServiceCorrect` | `GroupServiceProofs` | `GovernedSpec => ImplementsService`, given `~StaleReads` |
| `CreationTypes` | `DialogCreationProofs` | types of `DialogCreation` |
| `OneWinnerCorrect` | `DialogCreationProofs` | `RepeatedSpec => []OneWinner` |
| `ProjectionsCorrect` | `DialogCreationProofs` | `RepeatedSpec => [](ProjectionsCanonical /\ AnsweredProjected)` |
| `RegisteredCorrect` | `DialogCreationProofs` | `RepeatedSpec => []OnlyRegistered` |
| `StableCorrect` | `DialogCreationProofs` | `RepeatedSpec => DialogsStable` |
| `NoneAbandonedCorrect` | `DialogCreationProofs` | `RepeatedSpec => []NoneAbandoned` |
| `CreationBounded` | `DialogCreationProofs` | under `RepeatedSpec`, each step or failure of a call lowers `Awaits`, six at most; only `Repeat` raises it |
| `DirectoryCorrect` | `DialogCreationProofs` | `RepeatedSpec => ImplementsDirectory` |
| `GroundedCorrect` | `DialogHistoryProofs` | `[]StatusGrounded` |
| `AcksCorrect` | `DialogHistoryProofs` | `[]AcksNeverStuck` |
| `StatusCorrect` | `DialogHistoryProofs` | `StatusNeverGoesBack` |
| `IdentityCorrect` | `DialogHistoryProofs` | `MessagesKeepIdentity` |
| `VersionsCorrect` | `DialogHistoryProofs` | `VersionsCountChanges` |
| `AnsweredOnceCorrect` | `RequestLifecycleProofs` | `[]AnsweredOnce` |
| `LogCorrect` | `RequestLifecycleProofs` | `[]LogFramed` |
| `FinishedCorrect` | `RequestLifecycleProofs` | `[]FinishedAsStarted` |
| `QuietCorrect` | `RequestLifecycleProofs` | `GoneStaysQuiet` |
| `ContextsCorrect` | `RequestCorrelationProofs` | `[](LinesOwn /\ ContextLeftClean)` |
| `StatesCorrect` | `RequestCorrelationProofs` | `[]StatesApart` |
| `IdsCorrect` | `RequestCorrelationProofs` | `[]AnswerNamed` |
| `SharingCorrect` | `RequestCorrelationProofs` | `[]SharedOnlyIfAsked` |
| `RestorableCorrect` | `TextValuesProofs` | `[]Restorable` |
| `OneIntentCorrect` | `TextValuesProofs` | `[]OneIntent` |
| `VisibleCorrect` | `TextValuesProofs` | `[]LimitOnVisible` |
| `OneServiceCorrect` | `ServiceProcessProofs` | `[]OneService` |
| `HeardOnceCorrect` | `ServiceProcessProofs` | `[]HeardOnce` |
| `ReadinessCorrect` | `ServiceProcessProofs` | `[]ReadyWhileServing` |

Assumptions, all named and evaluated by TLC in the runs of their modules:

* `GroupDomainAssumption`, `CallsAssumption`: finite limits, natural clocks, workloads
  that give each call a command; the ids a call draws are its own.
* `GroupAssumption`, `SeedAssumption`: the initial group is one the code can create, the
  initial history is dense with distinct send keys.
* `NoneAssumption`, `AcceptedAssumption`: Python's `None` is no message, watermark,
  result or reply, and no remembered change of the abstract service.
* `DialogsAssumption` and `NoneAssumption` of `DialogCreation`: users are numbers, each
  call asks for a direct or a saved dialog, and `None` is no dialog and no key.
* `HistoryAssumption`: normalization yields a text, nothing or an error, all told apart,
  and the dialogs to start from are those the three `create` functions make.
* `TextAssumption`: natural limits; a refused and a missing text are told apart and are
  no strings.
* `StatusesAssumption`, `CorrelationAssumption` (the generator never draws one id
  twice), `ProcessAssumption` (levels are
  natural numbers, NOTSET included, and the unsupported one is none of them),
  `HierarchyAssumption` (dotted names make a tree: of any loggers on one line, one is below
  the others).

**Types, history, snapshots.** `TypeOK` is `ValuesOK` with `LocalsOK`, which says which
locals a handler has at which await; without it the values written by `Apply` have no
type, so the two are inductive only together. `HistoryDense` and `SendKeyUnique` are
inductive over types alone, because `MessageFollows` is checked in the atomic
write: the proof never uses the revision, which is why they also hold for stale
reads. Rights and membership need the revision. The strengthening is `SnapshotCurrent`
(a snapshot whose revision still holds equals the storage, and so does everything
read at it) and `DecisionsStand` (the handler's own checks held on that snapshot).
They are inductive because every write moves the revision past all snapshots taken
before it (`OnlyCommitsWrite`, `SnapshotKept`) and no step touches the locals of
another call (`StepsKeepOthers`). At a commit the two meet: the revision holds, so
what was decided on the snapshot is true of the storage (`CommitsOnSnapshot`), and
rights, limits and versions follow.

**Membership.** `MembershipInv` is the conjunction of all of these with `GroupSound`,
finiteness of the member set (needed to reason about its cardinality) and
`MembershipAppliedOnce`. `GovernedInv` is the same for `GovernedSpec`; the four further
writers keep it because they move the revision like every other.

**Watermarks and answers.** These too are proved without the contract of the reads.
Messages never lose identity, position or attachments (`MessagesPersist`), so what a call
has found stays what it was (`FoundOK`). A watermark a call is about to advance is either
fresh or an earlier version of the stored one (`WatermarkOK`); `ReceiptFollows`
demands the next version of the same watermark, and since stored versions start at 2,
a fresh one cannot pass where a watermark is stored. So at a write the call has the
present version and `ReceiptsMonotone` follows, the time included
(`NewReceiptOK`). `AnswersInv` adds that an accepted result fits its intent and is
never replaced, and that what a call was told (`ReplyOK`) stays true of the storage,
because positions of messages stay and boundaries only move up. The further writers
touch none of this (`GovernAnswers`). `ExhaustedByConflicts` counts: a snapshot of
attempt `n` is at least `n` revisions past the seed (`ConflictOK`), and a commit on an
unchanged revision cannot be refused (`UnchangedRevisionCommits`). Governors move the
revision like anybody, so the count holds beside them. `MembershipAppliedOnce` and
`GroupHistoryLinear` do not carry over to `GovernedSpec`, and should not: there versions
are also made by changes that are no membership commands.

**How long a call runs.** `Remaining` counts five for each attempt a call has not begun
and the awaits left in the one it makes. A retry costs an attempt and gives back fewer
awaits than that, everything else goes on to a later await or ends (`StepCounts`,
`FailureCounts`), and no other call or writer touches the counter of a call
(`StepsKeepOthers`, `OthersKeepAttempts`, `GovernEffect`). With it, all that `CallsReturn`
asks of fairness is that a step a handler owes is taken.

**The group as one atomic service.** `ServiceInv` is `GovernedInv` and `AnswersInv`
with `CallOK`, which says what a call has learned beside its snapshot: that it owes an
answer until it ends, that attachments it was let through with were ready, that a found
message did not conflict with the command, and that the message it acknowledges was
absent if none was found. The log of the mapping is defined from positions, so its
lemmas come first: it is a sequence because the history is dense (`LogType`), a commit
of a message appends to it (`LogAppends`), an edit changes one entry (`LogEdits`), and
its keys and entries are those of the stored messages (`KeyInLog`, `AckedInLog` and
their negations). Then each step is mapped:

* a successful commit is the abstract acceptance (`ChangeWritten`, `PublishWritten`,
  `AckWritten`), a landing write the same for a call that has ended (`LandRefines`);
* a replay, a recalled result and an ACK that advances nothing answer without change, as
  the storage allows at their read or commit (`Remembered`, `ReplayWritten`, `AckAdvances`);
* a refusal is `Justified` by the storage at its read (`MembershipErrorJustified`,
  `AckErrorJustified`), a snapshot being current there by `ReadsPresent`;
* an edit by the author is the abstract `Edit`, an accepted rename, avatar or handover
  the abstract `Govern` (`EditRefines`, `GovernRefines`);
* every other step, a retry and a lost answer included, is a stutter or a failure that
  any call may meet and that says nothing of the group (`QuietStep`, `FailedStep`,
  `RetriedStep`).

The hypothesis `~StaleReads` is the port's own contract: under a stale `None` an absent
message may be refused that is there, which no atomic group would do. What
holds without it is what the theorems above this one say.

**Dialog creation.** `CreationInv` joins the types with what each call may hold at each await
(`CallOK`: past the creation its dialog is the stored one, and users before the turn of the
loop see it), with the four invariants. Each step of `RepeatedSpec` is a step of
`DialogDirectory` or a stutter: a creation is `Found`, a turn of the projection loop
`Show`, a lost projection `Show` with the refusal, a repeated command `AskAgain`.
Clients that never repeat are a case of it (`SpecRepeated`).

`NoneAbandoned` is the safety half of `StoredGetsProjected`: a stored dialog is seen by
all its users, or there is a call for it under way or one whose client may repeat
it. Whoever stores a dialog answers for it, also by a late write (`StoringCall`). While it
is stored no refusal is in that call's way, because its users are registered
(`OnlyRegistered`), so it can only go on, fail in a way that repeating mends, or show the
dialog to all (`PendingStays`). `Awaits` counts down like `Remaining` does.

**Dialog histories.** `HistoryInv` types the dialog, its messages and its watermarks, and
adds what makes the properties inductive: a message stands at its own position, shows
something, and was edited exactly if it has a time of edit; a boundary is a stored
message of somebody else; the read boundary is covered by the delivered one; a dialog
that is no group has messages of its members only. The action properties need what no step
takes back (`MessagesKept`, `ReceiptsKept`, `DialogKept`): a watermark only gets later,
so that the status, which compares a message's position with it, cannot fall. That a
version and a time move exactly with a real change is proved of each aggregate on its
own (`GroupCounts`, `EditEffect`, `AdvancedWatermark`) and lifted to the steps.

**Requests.** `LifecycleInv` relates three records of one request that the code keeps
apart: the one start there was, handed to the server or lost (`OneStart`), the response
state and the log (`ResponseOK`, `LogOK`). A finished request is one whose log without its last line was that of a
request being served (`Ended`). `CorrelationInv` says per request what its id, context,
state and header are at each point (`RequestOK`), and that the server's own dict is
never written. Clearing on entry is what makes the inherited context irrelevant.

**Texts.** The operators of `TextValues` go over a string character by character, so their
theorems need induction over strings. It is had as a fact about sets: a set of strings
that contains the empty one, and with a string all that append one character to
it, contains all strings (`SequenceInduction`), which rests on the natural numbers being
well founded. That the recursive functions exist at all is `Recursion`: the finite pieces
of such a function, unique by induction (`FollowsOnce`), make it up. From there every
operator has a lemma that says what one more character does to it (`JoinedStep`,
`LinesStep`, `RespelledStep`), and the arguments are about characters:

* *Restoring.* A composed string has no letter before a mark (`ComposedWhole`), one with
  normal line ends has no CR, a stripped one has ink at both ends (`Stripped`); none of the
  later steps undoes what an earlier one made, and each leaves alone a string that is
  so already (`ComposedSame`, `LinesSame`, `StripSame`).
* *Spelling.* A character and its other spelling normalize to the same string after any
  prefix (`NormalizedStep`, `SameNormal`), and have ink alike (`SameInk`).
* *Counting.* Each pair a reader sees as one is one character of the normal string
  (`PairsStep`, `NormalizedLength`). What is left is that stripping before and after
  normalization is the same (`StripCommutes`): it is proved for a blank and for an inked
  character appended, the blank being the hard case, as a line end at the cut may be half
  of a pair (`LeftStep`, `CommutesStep`).

**The process.** `ProcessInv` says that an application and a set-up of logging come
together, and that whatever was derived from the settings at a set-up (versions, bound
loggers, levels of the loggers that existed) is what the settings cached for good still
say, the environment notwithstanding. The loggers of a set-up contain all above them
(`DictClosed`), so that the whole line of each is as the set-up left it; which level is in
force on such a line is `LevelInForce`.

Every invariant and action property of a passing run is stated by a theorem. Only
model-checked are the liveness properties (`CallsReturn`, `StoredGetsProjected`,
`CommandsSettle`), which need fairness and what it enables, beyond the prover; their safety
halves are `StepsBounded`, `NoneAbandonedCorrect` and `CreationBounded`. The violated
runs refute, so nothing is to be proved of them. `NoneAbandoned` and the two counters are
defined beside their proofs, since no run needs them.

## 5. Not modelled

* Identifier checks (UUID version 7 and the like), client id and object id formats, pydantic
  field checks and the conversion of times to UTC: checks of single values without state.
* The cross-dialog checks of restored data (a message, watermark or checkpoint of another
  dialog): the models have one dialog, and no code path brings two together.
* `_read_*` helpers of `core/settings.py`, which only tests call; the rendering of log
  lines; the wording of errors; method and path of a request, which are only logged.
* A Cassandra adapter, Kafka, business endpoints: they do not exist in the code, and
  `infrastructure` and the messaging entrypoint are empty packages.

## 6. What is left

1. An adapter for the storage port, once the code has one: that it implements `MayCommit` and
   `Apply` is then a refinement of its own, below `GroupCommands`.
2. Handlers for rename, avatar and ownership, once written: `GroupGovernance` has their
   effect and would get their attempts and answers.
3. Liveness as theorems, once the prover knows `ENABLED`; the counters above are the
   variants such proofs would use.
