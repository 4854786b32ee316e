# Formal models of the sonz.AI command core

This directory holds TLA+ models of the Go command-orchestration core in
`src/`, with TLC configurations that model-check them on small instances and
TLAPS proofs of their main safety properties for every instance.
`PROJECT.json` lists the components, runs, mutants, findings, hazards and
theorems. Its `map` names the source lines that each definition translates.

## 1. The system

The core is a set of DDD bounded contexts. Each one has an aggregate, a
repository and a command service; most also have an external provider, which
is Nakama or the Segment HTTP API.

| Part | Source | What changes state |
|---|---|---|
| Bot command intake | `src/src/app/tournaments/service_test.go` (bot package, from line 357), `src/src/domain/bot/command.go`, `src/unnamed/part_003` | `Handle`, `NewCommand`, `MarkAttempt`; the repository's `ReserveCommand`/`Save`/`MarkProcessed`; the worker queue |
| Tournament service | `src/src/app/tournaments/service.go` | `CreateTournament`, `DeleteTournament`, `AddAttempt` |
| Tournament stores | `src/unnamed/part_011` | in-memory `MemoryRepository`, `MemoryParticipantRepository`, `NakamaProviderImpl` |
| Tournament / Participant aggregates | `src/unnamed/part_007`, `src/unnamed/part_006` | `NewTournament`, `End`, `Reset`, `NewParticipant`, `AddAttempts`, `ResetAttempts` |
| Analytics sessions | `src/src/app/analytics/service_test.go` (from line 281), `src/src/domain/analytics/session.go` | `StartSession`, `EndSession`, `TrackEvent`, session repository, dispatcher |
| Battles | `src/unnamed/part_001`, `src/unnamed/part_009` | `StartBattle`, `AddPlayer`, `MarkReady` |
| Groups | `src/src/app/groups/service.go`, `src/src/domain/group/group.go` | `CreateGroup`, `AssignRole` |
| Auth / player accounts | `src/unnamed/part_001`, `src/unnamed/part_005` | `AuthenticateDevice/Email`, `RegisterDevice`, `Suspend` |
| Leaderboard | `src/unnamed/part_000` (from line 250) | `Submit` |
| Segment tracker, HTTP API, Nakama runtime module | `src/unnamed/part_000`, `src/se`, `src/cmd/api`, `src/src/infra/runtime`, `src/sample_go_module` | transport and wiring |

Every command service follows one protocol: validate, then load or
construct the aggregate, then mutate it, then persist, then sync with the
provider. A delete syncs first and persists second.

The concurrency comes from the transport. `net/http` (`cmd/api`) and the
Nakama runtime run each request in a goroutine of its own. A service call
has no internal concurrency, so two calls interleave only at their
repository, provider and queue calls. Every external call can also fail.

## 2. Modules

### BotIntake (`BotIntake.tla`, `MCBotIntake.tla`)

This module models `bot.Service.Handle` together with the command aggregate,
the repository contract and the worker queue.

**Processes.** Each element of `Reqs` is one `Handle` call.

**State.**

- `store[k]`: the command recorded for idempotency key `k`.
  - `"none"`: nothing recorded yet.
  - `"reserved"`: claimed by `ReserveCommand`, but no command saved.
  - Otherwise the `CommandState`.
- `queue`: the keys whose command waits for the worker.
- `enqueued[k]`: a history counter of deliveries to the queue.
- `pc`, `reqKey`, `reqValid`, `resp`: per-call control state, the input, and
  the returned answer.

**Actions.** One action per external call of `Handle`, in the code's order.

| Action | Code it models |
|---|---|
| `Receive` | A request arrives with some key and some command id. |
| `ReserveCommand` | The reserve, the branch on its answer (`Completed` → Accepted, otherwise `ErrDuplicate`, or a store error), and `NewCommand`'s validation. The validation runs *after* the key was claimed, as in the code. |
| `Save` | Saving the command as pending. |
| `Enqueue` | `Producer.Enqueue`, plus the best-effort `Notify` and the Accepted return on success. |
| `MarkFailed` | On an enqueue error: `MarkAttempt` (state becomes failed) and the `Save` whose error the code ignores. |
| `MarkProcessed` | The worker. It is not in the source and is modelled from spec 4.3. |
| `Terminated` | Stuttering at rest. |

**Atomicity assumption.** `ReserveCommand` is atomic (`IsFresh`). The code
relies on the repository for that, and spec 4.3 requires it.

**Constants.**

- `StoreFaults`: repository calls may fail.
- `InvalidInputs`: a command id may be blank.
- `LateDelivery`: `Enqueue` may deliver the command and still report an
  error, as a timeout does.

### TournamentService (`TournamentService.tla`, `MCTournamentService.tla`)

This module models the tournament service with its local repositories and
Nakama.

**Processes.** Each element of `Calls` is one command.

**State.**

- `local`, `remote`: the tournament exists locally, or in Nakama.
- `attempts`, `remoteAttempts`: a participant's attempts in each store.
  Zero also stands for "no participant": `NewParticipant` starts at 0.
- `pc`, `op`, `snap`: per-call control state, the command, and the
  participant copy that `AddAttempt` builds between its `Get` and its `Save`.

**Actions.** One action per repository or provider call.

| Action | Code it models |
|---|---|
| `BeginCreate`, `BeginDelete`, `BeginAttempt` | The validation preambles. `NewTournament`'s field checks become a `valid` flag; the `Count <= 0` check is kept exactly, with counts from -1 to 2. |
| `CreateSave`, `CreateSync` | `Repo.Save`, then `Provider.CreateTournament`. |
| `DeleteSync`, `DeleteLocal` | `Provider.DeleteTournament`, then `Repo.Delete`. Participants are left in place, as in the code. |
| `AttemptGet`, `AttemptSave`, `AttemptSync` | `Participants.Get`, with `NewParticipant` when it is not found, and `AddAttempts`; then `Participants.Save`; then `Provider.AddAttempt`. |

Every call takes an early return on any error. Nakama's semantics are
modelled as well:

- a create of an existing id succeeds and changes nothing;
- a delete drops the tournament's records;
- an add-attempt on an unknown tournament fails.

**Constants.**

- `Serialized`: when TRUE, a call starts only when no other call on its
  tournament is in flight. That is the per-key serialization spec 5
  requires of a conforming repository. When FALSE, calls overlap freely,
  as with the code's in-memory repositories: they lock each map access but
  not a `Get`..`Save` span, and hand out shared pointers.
- `RepoFaults`, `ProviderFaults`: repository or provider calls may fail.

### AnalyticsSession (`AnalyticsSession.tla`, `MCAnalyticsSession.tla`)

This module models `StartSession` and `EndSession` over the in-memory
session repository and the Segment dispatcher, wired as the legacy adapter
(`se/adapter.go`) wires them.

**Processes.** Each element of `Calls` is one service call.

**State.** The repository stores and returns *pointers*. Sessions are
therefore a heap:

- `sessionState[c]` is the state of the object that call `c` allocated;
- `sessions` maps a repository and a user to an object;
- `endEvents[c]` counts the end events Segment received for a session.

**Actions.**

| Action | Code it models |
|---|---|
| `BeginStart`, `StartSave` | `NewSession` validation, then the repository `Save`. |
| `BeginEnd`, `EndGet` | Validation, then `Get` (`SessionNotFound` when absent). |
| `EndCheck`, `EndSet` | `Session.End`'s already-ended check and its assignment, as two steps: two calls that hold one object race on it. |
| `EndSave`, `EndDispatch`, `EndDelete` | `Save`, the end event's `Dispatch` (an error returns at once), then `Delete`. |

**Constants.** `PerCallRepo`: every call builds its own adapter and
repository, as `StartWithAdapter`/`EndWithAdapter` do. `Serialized`: calls
on one user never overlap. `DispatchFaults`: Segment rejects or times out.

### GroupApi (`GroupApi.tla`, `MCGroupApi.tla`)

This module models `POST /v1/groups` end to end, together with the server
lifecycle of `cmd/api/main.go`.

| Action | Code it models |
|---|---|
| `Receive` | `handleCreateGroup`'s decode and the creator check (400 on error). |
| `ProviderCreate` | `Provider.CreateGroup`. It runs *before* `NewGroup` validates the name. |
| `Persist` | `NewGroup`, then `Repo.Save`; 201 on success, 400 on any error. |
| `Shutdown`, `ShutdownDone`, `ShutdownDeadline` | SIGTERM, `Shutdown` returning when no handler is active, and its 10s deadline expiring with handlers killed. |

`remote` and `local` are the groups Nakama and the repository hold.

### NakamaTournamentRpc (`NakamaTournamentRpc.tla`, `MCNakamaTournamentRpc.tla`)

This module models the sample Nakama module's tournament RPCs as concurrent
calls on one Nakama: the raw create, create-twice, delete and add-attempt
RPCs, and the three `*WithAdapter` RPCs. `ntour` and `natt` are Nakama's
tournaments and attempts. `localTour` and `localPart` are the repositories
that an adapter RPC builds for itself. The raw RPCs reject only a zero count
(`RpcCountOk`), while the adapter path goes through `Service.AddAttempt`,
which rejects any count `<= 0` (`ServiceCountOk`). Only the raw RPCs are
registered by `registerTournamentRuntime`, so the one run switches the
adapter RPCs off (`AdapterRpcs = FALSE`); `localTour` and `localPart` are
state of the adapter RPCs only.

### BattleMatch (`BattleMatch.tla`)

This module models the `sandai_battle` match handler of the runtime module
(`sandai_module.go`) as Nakama drives it. `MatchJoinAttempt`, `MatchJoin`
and `MatchLeave` change the player set. `MatchLoop` advances the tick
counter and ends the match once it has been empty for more than
`EmptyAfter` ticks. The tick counter saturates at `EmptyAfter + 1`,
because beyond that point no guard tells ticks apart.

### BattleApi (`BattleApi.tla`, `MCBattleApi.tla`)

This module models `POST /v1/battles`. `Receive` is the decode and
`StartBattle`'s validation. `CreateMatch` is `Provider.CreateMatch`.
`Persist` is `NewBattle`, which rejects a blank id the provider returned,
followed by `Repo.Save` and the 202. `remote` and `local` are the matches
Nakama holds and the battles the repository holds.

### AuthLogin (`AuthLogin.tla`, `MCAuthLogin.tla`)

This module models `POST /v1/auth/login`: `handleAuthLogin`,
`AuthenticateDevice` and `AuthenticateEmail`.

| Action | Code it models |
|---|---|
| `Receive` | The JSON decode (400 on error). |
| `Authenticate` | Nakama authentication. A blank device id or email is refused (401). |
| `Load` | `GetByID`, or `NewPlayerAccount` on `ErrNotFound`, which needs an email (401 otherwise). |
| `Save` | `RegisterDevice` (its error discarded), `RecordSession`, then `Repo.Save` of the whole account. The response is 200, or 401 on error. |

`stored` is the repository. It may start with accounts that are suspended
there, because `PlayerAccount.Suspend` has no caller in this repository.
`acct[r]` is the account object a login holds between `Load` and `Save`.
`Serialized` makes logins of one player not overlap, as spec 5 asks of the
repository. `SuspendedAccounts` lets the initial store hold suspended accounts.

### BotIntakeContract (`BotIntakeContract.tla`)

This is the abstract intake of spec 4.3:

- a key is *handed* to the worker at most once;
- a call hears `"accepted"` only for a handed key;
- a key's outcome is decided once.

`BotIntake!Contract` instantiates it with the refinement mapping:

- `handed` is the keys that were ever enqueued;
- `finished` is the completed or failed store state;
- `answer` and `key` map to `resp` and `reqKey`.

### TournamentLifecycle (`TournamentLifecycle.tla`)

This module models the `Tournament` aggregate's state machine:
`NewTournament` with its start-time check, `End` and `Reset`, called in any
order with any time in `0..MaxTime`. A rejected call leaves the receiver
unchanged.

Each `MC*` module adds the TLC-only definitions for its model: symmetry sets,
and for the tournament model the integer set of counts.

## 3. Properties and runs

| Run | cfg | Expect | Checks |
|---|---|---|---|
| `bot_safety` | `BotIntake_safety.cfg` | pass | `TypeOK`, `AtMostOnceEnqueue`, `AcceptedMeansEnqueued`, `CompletedIsFinal`, `ImplementsContract` |
| `bot_live` | `BotIntake_live.cfg` | pass | `IntakeResolves` |
| `bot_orphan` | `BotIntake_orphan.cfg` | violation | `IntakeResolves` |
| `tournament_serialized` | `TournamentService_serialized.cfg` | pass | `TypeOK`, `LocalCoversRemote`, `RemoteImpliesLocal` |
| `tournament_create_delete_race` | `TournamentService_race.cfg` | violation | `RemoteImpliesLocal` |
| `tournament_edges` | `TournamentLifecycle_edges.cfg` | violation | `LegalTransitions` |
| `analytics_serialized` | `AnalyticsSession_serialized.cfg` | pass | `AtMostOneEnd` |
| `group_safety` | `GroupApi_safety.cfg` | pass | `CreatedMeansRecorded` |
| `rpc_raw_negative` | `NakamaTournamentRpc_raw.cfg` | violation | `AttemptsOnlyGrow` |
| `battle_empty_ends` | `BattleMatch.cfg` | pass | `EmptyMatchEnds` |
| `battle_api_safety` | `BattleApi_safety.cfg` | pass | `SavedBattleHasMatch`, `AcceptedMeansRecorded` |
| `auth_suspended` | `AuthLogin_suspended.cfg` | violation | `NoLoginWhileSuspended` |

What the properties say:

- **`AtMostOnceEnqueue`** is spec 4.3's at-most-one effective processing per
  key: concurrent `Handle` calls with one key enqueue it at most once.
- **`AcceptedMeansEnqueued`**: `Accepted=true` is returned only for a key
  whose command reached the queue. This holds on the fresh path and on the
  completed fast path.
- **`CompletedIsFinal`** is an action property: no step changes a completed
  command (spec 3).
- **`IntakeResolves`** is a liveness property. It says that a reserved or
  pending key eventually becomes completed or failed. Until it does, every call with that key is refused as `Duplicate`.
- **`LocalCoversRemote`**: Nakama never counts more attempts than the local
  store. This is spec 4.2's "no orphaned sync calls", together with the
  absence of lost updates.
- **`RemoteImpliesLocal`**: every tournament in Nakama is recorded locally.
  This is spec 4.2's rationale for saving before a create's sync and
  syncing before a delete's local delete.

- **`AtMostOneEnd`**: Segment receives at most one end event per session,
  even when an `EndSession` is repeated after a Segment timeout that did
  deliver the batch: the repeat finds the session ended in the store.
- **`CreatedMeansRecorded`** (groups) and **`AcceptedMeansRecorded`**
  (battles): a success status is written only when both Nakama and the
  repository hold the object. **`SavedBattleHasMatch`**: the repository
  never holds a battle whose match Nakama lacks (spec 4.5).
- **`AttemptsOnlyGrow`** is an action property (spec 2, 4.2, 4.4): no
  add-attempt RPC's Nakama call lowers a tournament's attempts. It fails
  for the registered raw RPC (finding 4).
- **`EmptyMatchEnds`** is a liveness property. An empty running match
  eventually ends, unless a player joins it.
- **`ImplementsContract`** is the refinement `BotIntake!Contract!Spec`,
  checked as a temporal property.
- **`NoLoginWhileSuspended`** (spec 2): no login of a suspended account is
  answered 200. It fails (finding 5).

**Mutants.** Every property of a passing run has a mutant in `PROJECT.json`
that breaks it. Each mutant is a plausible bug, defined in the module just
before the definition it replaces:

- `IsFreshOfCommands`: a reserve that ignores reservations.
- `AcceptsUnlessFailed`: a fast path that accepts pending commands.
- `EnqueueRequestId`: the wrong value enqueued.
- `MarkProcessedRedelivered`: a worker that never acknowledges a message.
- `MarkFailedUnsaved`: a failed state that is never saved.
- `BeginAttemptUnchecked`: the count check dropped.
- `AttemptSaveIgnoringError`: the provider called after a failed save.
- `DeleteSyncIgnoringError`: the local delete run after a failed provider
  delete.
- `EndCheckSkipped`: `Session.End` without its check.
- `PersistIgnoringSaveError` (groups and battles): a success status
  written after a failed `Save`.
- `MatchLoopAtTick`: the match ending only at exactly tick `EmptyAfter`,
  never past it.
- `CreateMatchUnchecked`: `CreateMatch`'s error not checked.

**Bounds.**

- *Bot intake.* The safety run uses 3 requests over 2 keys. That covers two
  requests racing on one key while a third works on the other, or three on
  one key, with every store and enqueue outcome. The liveness and violation
  runs use 2 or 3 requests. Symmetry over keys and requests is sound for the
  invariants, because both are model values that no definition tells apart.
  The safety run also checks the refinement, so it runs without symmetry.
- *Tournament service.* Each run uses 3 calls on one tournament and one
  player. With one tournament every call contends, so this is the
  worst case for overlaps. Counts run from -1 to 2, which covers both sides
  of the `Count <= 0` check and an additive count above 1. The counts are
  not under symmetry.
- *Sessions.* The session runs use 4 calls on 2 users. That allows a start
  and two overlapping ends on one user while the other user is busy.
- *Groups, battles.* These runs use 3 requests, with every fault flag on.
  Symmetry permutes requests, which no definition tells apart.
- *Logins.* Two logins of one player with failures off: enough for a
  second login to meet the account the first saved, and for a suspended
  stored account to log in.
- *Sample RPCs.* Two raw RPCs over 2 tournaments, with counts from -1 to 1:
  both sides of the zero check and a negative count after a create.
- *Battle match.* `EmptyAfter` is 30, the value the module uses. The
  saturated tick counter keeps the state space finite.
- *Termination.* Every call runs to its return. The state space is finite
  without further bounds.

**Fairness (bot intake only).** `Handle(r)` and `MarkProcessed(k)` are
weakly fair. A call that has entered `Handle` keeps running until it
returns: every external call returns or times out, and the goroutine is not
abandoned. The worker keeps draining its queue. `Receive` has no fairness,
because callers are not obliged to call. The tournament model checks only
safety and has no fairness.

**Fairness (other modules).**

- *`BattleMatch`.* `MatchInit` and `MatchLoop` are weakly fair, because
  Nakama calls `MatchLoop` on every tick of a running match. Joins and
  leaves come from clients and have no fairness.

## 4. Findings

Each finding has a violation run, and `PROJECT.json` describes it in full.

1. **`bot_orphan`.** `Handle` reserves the key before `NewCommand`
   validates the input. A blank command id therefore leaves the key
   reserved with no command, and every later call with that key gets
   `Duplicate`. Spec 4.2 puts validation before any store access; spec 4.3
   treats the reservation and the pending save as one unit.
2. **`tournament_create_delete_race`.** The create/delete ordering protects
   the local record only when calls on one id do not overlap. A delete
   between a create's `Save` and its provider call leaves a Nakama
   tournament with no local record. Spec 5 asks for serialization only of
   read-modify-write.
3. **`tournament_edges`.** `Tournament.End` accepts a reset tournament,
   an edge that spec 2 does not list.
4. **`rpc_raw_negative`.** `rpcAddAttemptTournament`, the registered
   add-attempt RPC, rejects only a zero count and passes -1 to
   `nk.TournamentAddAttempt`, lowering the attempts Nakama holds. Spec 2
   says attempts only increase by a positive count, and spec 4.2 and 4.4
   that an add-attempt validates `count > 0` first. The unregistered
   adapter RPC goes through `Service.AddAttempt` and is not affected.
5. **`auth_suspended`.** A login of a suspended account answers 200.
   `AuthenticateEmail` records the session and saves without any check
   (`part_001:174`); `AuthenticateDevice` discards `RegisterDevice`'s
   `ErrAccountSuspended` (`part_001:150`) and does the same. Spec 2 says
   `PlayerAccount` operations fail with `AccountSuspended` while suspended.

**Defects recorded as hazards.** The modelled code has further defects. They
are listed as hazards in `PROJECT.json`, at the line where each one bites.
The concurrency defects are the reason the proofs and the passing runs
assume `Serialized`:

- *Lost updates.* Two concurrent `AddAttempt` calls on one participant
  lose a local increment that Nakama keeps: the in-memory repository does
  not serialize `Get`..`Save`. In the same way, two overlapping logins of
  one player would both answer 200 and the later whole-account `Save` drop
  the earlier session; spec 5 makes that serialization the player
  repository's duty, and its implementation is not in the repository.
- *Shared `*Session`.* Two concurrent `EndSession` calls hold the same
  stored `*Session` and can both pass `Session.End`'s check, so Segment
  receives two end events. An `EndSession` overlapping a `StartSession` of
  the same user overwrites or deletes the new session.
- *Failure paths.* The code has these defects on every path that reaches
  them:
  - after an enqueue error, the `Save` of the failed state has its error
    dropped (`_ = s.Repo.Save`), and the command can stay pending forever;
  - an `Enqueue` that delivers and then errors lets `Handle`'s failure
    `Save` overwrite the worker's completed state (`LateDelivery`);
  - on a dispatch failure `EndSession` returns before `Delete`, while
    spec 4.6 requires cleanup;
  - `CreateGroup` creates the Nakama group before `NewGroup` validates the
    name and before `Save`;
  - every `CreateGroup` error is written as 400, including a failure after
    the group was created.
- *Adapter wiring.* `EndWithAdapter` never finds the session that
  `StartWithAdapter` saved. Every `*WithAdapter` RPC builds its own
  in-memory repositories.

## 5. Proofs

`BotIntakeProofs.tla`, `TournamentServiceProofs.tla`,
`AnalyticsSessionProofs.tla`, `GroupApiProofs.tla` and `BattleApiProofs.tla`
are checked by `tlapm` for every value of the constants. The only assumptions are those
declared in the modules:

- key, tournament and player sets are non-empty;
- counts are a non-empty set of integers (tournament service);
- the flags are Booleans;
- the "not found" value `NoSession` is no session.

**Bot intake.**

- *`TypeCorrect`.* `TypeOK` is inductive as it stands (lemma `TypeStep`).
- *`AtMostOnce`, `AcceptedEnqueued`, `CompletedFinal`.* All three follow
  from the inductive invariant `IInv`. `CompletedFinal` holds under
  `~LateDelivery`. Without it, a delivered-then-failed `Enqueue` lets the
  failure `Save` overwrite a completed command.
- *Why `IInv` is needed.* `AtMostOnceEnqueue` alone is not inductive. A
  state with two requests about to enqueue the same key satisfies it, and
  its next step breaks it. `IInv` adds the following:
  - a request *holds* its key from the fresh reservation until `Handle`
    returns, and no two requests hold one key;
  - a key still at `"none"` is held by no request and was never enqueued;
  - a request about to save or enqueue has not yet enqueued its key;
  - a queued or completed key was enqueued, and a completed key is not in
    the queue;
  - without late delivery, a request marking its command failed never
    enqueued it;
  - an idle request has answered nothing.
- *The argument.* A key leaves `"none"` only by the atomic reserve and
  never returns, so ownership is exclusive. A completed key was enqueued,
  while the failure `Save` only touches a key that was not, so the failure
  path cannot overwrite a completed command.

**Tournament service.**

- *`TypeCorrect`.* This needs `TInv`, which is `TypeOK` plus the fact that
  an `AddAttempt` past its check carries a positive count. Without that
  fact, the counts would not stay natural.
- *`LocalCovers`, `RemoteRecorded`.* Both hold under `Serialized` and
  follow from `IInv`. That hypothesis is necessary: run
  `tournament_create_delete_race` breaks `RemoteImpliesLocal` without it,
  and overlapping `AddAttempt` calls break `LocalCoversRemote`.
- *What `IInv` says.* `Exclusive` says each call in flight is alone on its
  tournament. Four more conjuncts say that each pending write is safe:

  | Conjunct | Meaning |
  |---|---|
  | `CreateSyncSafe` | A create about to sync finds its local record. |
  | `DeleteLocalSafe` | A delete about to delete locally has already removed the tournament from Nakama. |
  | `SaveHolds` | An `AddAttempt` about to save holds the stored count plus its own. |
  | `SyncCovered` | An `AddAttempt` about to sync has already saved its count on top of Nakama's. |
- *Proof layout.* There is one lemma per step (`CreateSaveIInv` …
  `AttemptSyncIInv`). Each has one step per conjunct the action can
  disturb. `Alone`, `StepExclusive`, `ReturnIInv` and `BeginIInv` carry the
  reasoning that all steps share.
- *Checked with TLC first.* Each `IInv` was model-checked as an invariant on
  the runs' instances before it was proved.

**Analytics sessions.** `TypeCorrect` holds, and `EndOnce` proves
`AtMostOneEnd` under `Serialized`. The hypothesis is needed, because two
overlapping `EndSession` calls share one `*Session`. The inductive invariant says:

- a session object exists once its `StartSession` has returned;
- the repository and every `EndSession` call point to objects of their own
  user;
- the call in flight on a user is alone;
- a call past the check owns the end of a session that no event has
  reported yet.

**Groups and battles.** `CreatedRecorded`, `BattleHasMatch` and
`AcceptedRecorded` each follow from an `IInv` with two conjuncts: a handler
that has not returned has written no status, and a handler about to save
already has its Nakama object.

**Refinement.** `Refinement` proves `~LateDelivery => (Spec =>
ImplementsContract)` in the style of TLAPS's two-phase example:

- the initial states map to `Contract!Init` (`RefineInit`);
- each step maps to a `Contract!Next` step or a stutter (`RefineStep`),
  given `IInv` and a further invariant `PInv`.

`PInv` is needed because the mapping reads `resp` and the store:

- a call that has not returned has answered nothing;
- a call about to save finds its key reserved;
- a call about to enqueue or mark failed finds its key pending;
- a queued key is pending.

These facts show that `Enqueue` hands over a key no one has handed yet, and
that `MarkFailed` decides an open key. `PInv` was model-checked first.

**Only model-checked.** The liveness properties `IntakeResolves` and
`EmptyMatchEnds` involve fairness and `ENABLED`,
which are out of TLAPS's reach here. TLC checks them only. Also checked by
TLC only: every violation run, which shows a property failing on a small
instance rather than holding on all of them.

## 6. Not modelled

- **Pure I/O or wiring.** The Segment tracker builds JSON batches and
  posts them. The HTTP middleware and metrics, and `InitModule`'s
  registrations, are not modelled. So are the before/after authentication
  and leaderboard hooks: they are stateless request checks and rewrites.
  Only the hook that refuses a blank device id is used, as a guard of
  `AuthLogin`.
- **Leaderboard submission.** `Submit` validates its input and forwards it
  to the repository, which is responsible for deduplication. There is no
  code of its own that a concurrent model could tell apart.
- **Operations without callers.**
  - `Battle.AddPlayer` and `MarkReady`;
  - `Group.AssignRole`;
  - `PlayerAccount.Suspend`, `Reinstate` and `CanStartBattle`.

  No service or handler in the repository calls them. A suspended account
  is modelled as one the repository already holds.
- **Read-only operations.** `GetTournament`, `ListTournaments`/`List`
  pagination, `CalculateEndTime`, `TrackEvent`, and the Nakama
  tournament-end and reset callbacks. The callbacks only read and log.
