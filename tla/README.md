# TLA+ models of the device-config-manager

These modules model the GPU partition reconciliation of
`src/pkg/config_manager/configmanager.go`, together with the pieces it drives:
the cluster client's label write, the AMD SMI calls, and `main`. TLC checks them.

## 1. The system

### Parts and how they interact

| Part | Code | State | Operations |
|---|---|---|---|
| main | `cmd/deviceconfigmanager/main.go` 31-64 | none of its own | reads the node label, starts `Worker`, sends the initial trigger, starts both watchers |
| Node label watcher | `NodeLabelWatcher`, `printAndApplyLabelChanges` (687-751) | informer | on a label update with a new non-empty profile: `GetPartitionProfile`, then `TriggerRetryLoop` |
| Config file watcher | `StartFileWatcher` (130-185) | fsnotify watch on `config.json` | blocks forever if the file is missing at start; on each event: read the label, trigger, then remove and re-add the watch (the re-add fails once the file is gone) |
| Mailbox | `retryCh` (cap 1), `TriggerRetryLoop` (821-828) | 0 or 1 profile name | non-blocking send that **drops the new name** when full |
| Worker | `Worker` (801-819) | `cancelFunc`, `wg`, `mu` | receive; cancel the running session; `wg.Wait`; `wg.Add(1)`; `go RetryPartition` |
| Retry session | `RetryPartition` (753-798) | ctx, 30-min expiration | loop: ctx done → abort; expired → fail; `PartitionGPU`; on error, an interruptible one-minute wait |
| Engine | `PartitionGPU` (614-685), `amdSMIHelper` (368-553) | globals `partition_failed`, `partStatus` | read config.json, look up the profile, `amdsmi_init`, validate, and walk the GPUs. For each GPU: processor type, idempotent compare, set memory then compute. Then final status and the state label |
| Validator | `validateProfile`, `createGPUIDList`, `checkInvalidPartitionType` (271-334, 592-612) | pure | count rule, id range, partition names, one memory type |
| Cluster client | `k8sclient.AddNodeLabel` (k8s.go 258-301) | node labels | 10 attempts; callers only log its error |
| Events | `generateK8sEvent`, `createEventObject` (67-89, 564-590) | none | posts one Kubernetes event per reporting site; `CreateEvent` errors are only logged |
| Service helpers | `partition/utils/utils.go` | `PreStateDB`, systemd units | `StopServiceHandler` records each service's state and stops the active ones; `StartServiceHandler` restarts the ones recorded active, then empties `PreStateDB`. No caller exists in this tree. |

Two goroutines (the watchers) produce triggers. The Worker consumes them, and
at most one `RetryPartition` should run at a time. All sessions share the
globals `partition_failed` and `partStatus` and the GPUs themselves. The
outcome users see is the node label `dcm.amd.com/gpu-config-profile-state`.

### What is hard here

- **Interleavings** between the watchers, the Worker, a retry session's
  loop, and cluster edits. A cancelled session only notices the cancel at its
  loop head or during its wait, never inside `PartitionGPU`.
- **The mailbox at its limit**: a full `retryCh` loses a trigger.
- **Stale globals**: `partition_failed` survives from one run, or one
  session, to the next (lines 405-418 and 680).
- **Partial failure** across the GPUs of one run: the status is sticky
  (line 518), a processor-type error returns early (line 442), and a failed
  processor-handle query panics (line 432).
- **The clock**: expiry is checked only at the loop head.
- **A pod kill** at any point, even between a GPU's memory and compute calls.
  Nothing clears the state label, and only `main`'s initial trigger resumes
  the work.
- **Boundaries** in the validator: an empty assignment list (line 316) and
  duplicate skipped ids.

The full list, with lines and covering properties, is `hazards` in
`PROJECT.json`.

## 2. Modules

- **`ProfileValidator.tla`**: pure operators translated from the validator:
  - `createGPUIDList`, a `SelectSeq` over `0..n-1`;
  - `validateProfile`, which returns the first rule broken, or `"IndexPanic"`
    when the Go code would index `profiles[0]` of an empty list;
  - `checkInvalidPartitionType` and the valid-name sets;
  - `TargetSlots`, the slot order of `amdSMIHelper`'s nested i/j loop.
- **`MCProfileValidator.tla`**: enumerates every small profile as an initial
  state. One `Validate` step evaluates the verdict, which is compared with
  reference definitions written from the spec (`SpecAccepts`, `SpecSlot`).
- **`ConfigManager.tla`**: the whole reconciliation core. Its state
  corresponds to the code as follows:
  - `label`, `config`: the node label and the configmap file.
  - `pending`, `srcPc`, `srcVal`: each watcher's undelivered events and its
    read-then-offer step.
  - `retryCh`, `wpc`, `wprof`, `cancelFunc`, `wg`, `nextS`: the Worker.
  - `apc`, `sprof`, `ctxDone`, `expired`: per session, the program counter,
    the selected profile, the ctx state and the deadline.
  - `eprof`, `ek`, `eidx`, `needed`: per session, the engine's loop state.
  - `partition_failed`, `gpuStatus`: the globals.
  - `hw`: each GPU's `[compute, memory]`.
  - `nodeState`, `labelBy`: the state label and the session that wrote it.
  - `event`: the last Kubernetes event posted, as its reason (the
    `K8Event...` constant) and the posting session.
  - `count`: `RetryPartition`'s local `count`, which is 1 until the
    session's first failed run.

  Every call of `generateK8sEvent` posts its reason inside the action that
  makes it:
  - `EarlyReturnEvent` for `PartitionGPU`'s early returns;
  - `InvalidProfileInfo` and `AMDSMIAPIFailure` in `amdSMIHelper`;
  - `SuccessEvent` at the end of a run without failure;
  - `PartitionRetrying` in `ReturnFromPartitionGPU` when `count = 1`;
  - `PartitionFailure` on expiry.

  The event's type (Normal or Warning) and its message are formatting. By
  reading the code: the `amdsmi_init` failure is posted with the nil
  unmarshal error, so it is a Normal event. "Partition not needed" is
  posted with an error, so it is a Warning.

  Each handler or step of a goroutine is one action: `ChangeLabel`,
  `ChangeConfig`, `SourceRead`, `TriggerRetryLoop`, `WorkerRecv`,
  `WorkerStart`, `AttemptCancelled`, `AttemptExpired`, `PartitionGPU`
  (including validation, through `amdSMIHelper`), `PartitionDevice` (one GPU),
  `EndOfProfile`, `SleepElapsed`, `SleepCancelled`, `DeadlinePasses` (the
  wall clock), and `Restart`.

  `Restart` is a pod kill followed by `main` running again, bounded by
  `MaxRestarts` and counted in `restarts`:
  - every running or panicked session becomes `"killed"`;
  - the Worker, `retryCh`, the watchers and the globals are reset;
  - `hw`, the labels and the configmap survive;
  - `retryCh` gets the label's profile, as `main`'s initial trigger does.

  The kill may land between `amdsmi_set_gpu_memory_partition` and the compute
  call (`Interrupted`), which leaves that GPU with only its memory partition
  changed.

  Data is abstracted. A profile is a record. The driver's answers are drawn
  from `DriverResults`. `"noeffect"` is a set call that returns success
  while the read-back partition is unchanged. The memory path counts it as a
  failure, and the compute path, which does not compare its read-back, counts
  it as a success. `"panic"` marks a session whose process died in
  `validateProfile`.
- **`SingleFlightCoordinator.tla`**: the abstract coordinator, with three parts:
  - a one-slot mailbox that keeps what it holds;
  - `Take`, which hands the request to the coordinator;
  - `Start`, allowed only when no attempt runs, and `End`.

  Fairness on `Take`, `Start` and `End` says that every request taken is
  started and every attempt ends. `ConfigManager` instantiates it:
  - `box` is `retryCh`;
  - `held` is the Worker's received profile while it waits;
  - `run` is the profile of the session between start and return.

  `CoordinatorRefinement` is checked as a property. The mailbox is the
  code's drop-newest one. The spec's latest-wins mailbox is the failing
  `LatestProfileApplied`.
- **`ServiceUtils.tla`**: the systemd helpers. systemd is abstracted to
  each unit's `ActiveState` plus whether `GetUnit` finds it (`loaded`). A
  stop may leave the unit loaded or unloaded (`UnloadedAfterStop`), and
  D-Bus calls may fail (`DbusCanFail`). `ActiveState` includes the jobs in
  progress (`activating`, `deactivating`, `reloading`), which systemd
  finishes on its own (`Settle`: to active or failed, to active, and to
  inactive or failed). There is no caller in the
  repository, so the caller is a script of handler calls. Each loop
  iteration is one action: `StopStep` is one service of
  `StopServiceHandler`, `StartStep` one service of `StartServiceHandler`.
  `CallDone` ends a call and, after a start, runs `CleanupPreState`.
  `StopService`, `StartService`, `UnitExists`, `CheckUnitStatus` and
  `controlService` are operators giving each call's possible outcomes.
- **`MCServiceUtils.tla`**: three units and two stop/start bracket
  scripts over distinct services. Names are given with and without the
  suffix.
- **`MCConfigManager.tla`**: configmap contents. Profile p1 assigns both
  GPUs SPX/NPS1. Profile p2 either skips GPU 1 and gives GPU 0 CPX/NPS2, or
  mixes memory types, so that validation fails. The file may also be missing
  (`MCConfigs`). `MCConfigsMixed` and `MCConfigsFixed` each hold one
  configmap that never changes, for the runs that need one.

The `map` in `PROJECT.json` gives, for every definition, the lines it
translates.

## 3. Runs

| Run | Cfg | Expect | Shows |
|---|---|---|---|
| core | `MCConfigManager.cfg` | pass | See below. |
| validator | `MCProfileValidator.cfg` | pass | `ValidatorMatchesSpec`: the code accepts exactly the profiles the spec's rule accepts, for every non-empty assignment list. `SlotsFollowAssignmentOrder`: slots are bound by prefix sums. |
| latest_wins | `MCConfigManager_LatestWins.cfg` | violation | The label is changed while the initial trigger is still queued. The new name is dropped and the node settles on the old profile. |
| validation_no_retry | `MCConfigManager_StaleFailFlag.cfg` | violation | `AttemptErrorsNotFinal`: on a fresh process the label selects a profile that fails validation. `amdSMIHelper` returns before resetting `partition_failed`, which is false, so `PartitionGPU` returns nil and the session ends on its first attempt. Spec section 7 says a validation error may self-heal on a later iteration of the same session. After a failed run the stale flag is true and the same error is retried instead. |
| validator_panic | `MCProfileValidator_Panic.cfg` | violation | `Filters=[0]`, `Profiles=[]` on one GPU passes the count rule and panics. |
| restart | `MCConfigManager_Restart.cfg` | pass | See below. |
| compute_no_readback | `MCConfigManager_ComputeNoReadback.cfg` | violation | A compute set call returns success without effect. The GPU is recorded `Success` and the "success" label is written over a GPU not in the profile. Spec 4.4 step 4 asks for a read-back check, as the memory path does. |
| config_created | `MCConfigManager_ConfigCreated.cfg` | violation | `ProfileEventuallyAttempted`: config.json is missing at startup and created later. The session ended on the missing file, and the watcher never watched. |
| services | `MCServiceUtils.cfg` | pass | See below. |
| services_unit_stays_loaded | `MCServiceUtils_UnitStaysLoaded.cfg` | violation | A stopped unit that stays loaded is refused by `StartService` and is never restarted. |
| services_transitional | `MCServiceUtils_Transitional.cfg` | violation | `ServicesDownBetween`: a unit that is `activating` when `StopServiceHandler` reads it is recorded as not active and not stopped (utils.go:122). It is up when the start call begins, that is, during the partition change. |
| label_cleared | `MCConfigManager_LabelCleared.cfg` | violation | `LabelEventuallyTruthful`, with two label edits and one kill. Session 1 applies p1 and writes "success". The label is set to p2 and then removed (as the e2e test's label add and remove does). Session 2 runs p2 and has set GPU 0's memory partition when the pod is killed. After the restart, `main` triggers nothing for an empty label, so GPU 0 stays half-changed under "success" for good. |

The core run checks six properties:
- `TypeOK`.
- `SingleFlight`: at most one retry session runs.
- `SuccessLabelMeansApplied`: a "success" state label means the writer's
  profile is on the GPUs, across cancellations and later partial failures.
- `EventAgreesWithLabel`: outside the GPU loop, the last event reports
  success exactly when the state label is "success". This holds across
  sessions, even though the retrying and expiry events write no label.
  Posting `PartitionRetrying` on the second failure instead of the first
  breaks it: an earlier session's success event then stands beside a
  "failure" label.
- `EventuallySettled`: every trigger is eventually served and every session
  ends.
- `CoordinatorRefinement`: the trigger path implements
  `SingleFlightCoordinator` under the refinement mapping, with its fairness.

The restart run is the core configuration, with one pod kill allowed and
three sessions. It checks two properties:
- `SuccessLabelMeansApplied`. A later session may be killed after the label
  was written; from then until the next label write the label is not
  required to be true.
- `EventAgreesWithLabel`, with the same exception for a killed session.

The recovery property `LabelEventuallyTruthful` says that once kills and
edits stop, a "success" label is true for good. It holds with one label edit,
because `main` then re-triggers the label's profile at startup. With two
edits, where the second removes the label, it fails (run label_cleared). The
restart run keeps one edit: its invariants with two edits and all configmaps
take well over 10 minutes.

The services run checks `ServicesRestored`: every service that was active is
active again after the bracket. The units start in every `ActiveState`, jobs
in progress included. The brackets name distinct services. systemd unloads
what it stops, and D-Bus works. `ServicesDownBetween` (every listed service
is down, meaning inactive or failed, when the start call begins) fails on a
unit whose job is in progress (run services_transitional).

TLC also finds these violated, but no run checks them, because no caller in
this tree can reach them:
- **Duplicate name**: a list naming `a` and `a.service` breaks
  `ServicesRestored`. The second status read overwrites the pre-state.
- **Overlapping brackets**: stop a, stop b, start a, start b also breaks
  `ServicesRestored`. `CleanupPreState` empties the whole `PreStateDB`.
- **D-Bus failures**: these break `ServicesDownBetween` too. The handlers only
  log them.

In the core configuration, TLC also finds `SuccessLabelMeansApplied`
violated in a case that no run keeps:
- With `LabelWriteCanFail = TRUE`, an `AddNodeLabel` that gives up leaves an
  earlier "success" in place after the GPUs changed. Spec section 7 allows
  this.

With a driver that may fail, `AttemptErrorsNotFinal` is also broken by the
`amdsmi_init` early return and by the processor-type return (line 442). Both
end a live session with a failure. TLC reports the shorter `amdsmi_init`
path first. That is why the run uses a configmap that fails validation and a
driver that always succeeds.

Per-GPU status is sticky (line 518). After one GPU fails, `partition_failed`
stays set, and every later GPU of the run is reported `Failure` in the event
message, even when its own calls succeeded. TLC showed this, but no run
keeps it: it affects only the event message, and the project spends its runs
on the labels and the services.

A skipped-GPU list with a repeated id is accepted by `validateProfile`, and
one usable GPU then gets no slot. The spec does not say whether such a list
is invalid.

Each property of a passing run has a mutant in `PROJECT.json` (for example,
the Worker skipping `wg.Wait`, or a wait that returns without `wg.Done`), and
TLC finds the property violated under that mutant.

### Bounds

The core run uses 2 GPUs, two profile names, three configmap contents plus
"missing", driver calls that may fail, 1 cluster edit and 2 sessions. That is
enough for each of these to happen:
- the initial trigger and an edit racing in the mailbox;
- a session cancelled mid-run, or while it waits;
- a failure on one GPU followed by success on the other;
- a retry after a failure, and expiry.

All 14 actions of the core run fire (about 72k states). The restart run
adds one kill, which can land anywhere, and a third session for the
restart's trigger. That gives about 2.5M states in one to two minutes, and
`Restart` fires as well. The label_cleared run needs two edits, a kill and
four sessions. It uses one fixed configmap and a driver that always
succeeds, and TLC finds the violation in about 20 seconds. A second edit with a third session in the core run takes
close to 5 minutes and adds no new kind of step.

The validator run uses up to 3 GPUs, up to 2 skipped ids, and up to 2
assignments of up to 2 GPUs each, with one valid and one invalid name of
each kind. That covers every rule and every order of broken rules.

The services run starts from every combination of three units. Each unit is
unloaded and inactive, or loaded in one of the six `ActiveState`s. It uses
two bracket lists, one with a suffix mix, of two and three services. That is
about 54k states. Every branch of both handlers is taken (skip, stop,
restart, and refusal), and so is every settling of a job in progress.

### Fairness

Every goroutine gets weak fairness: the Go runtime keeps scheduling a
runnable goroutine. Cluster edits and pod kills get no fairness: they may
stop at any time.

The session deadline gets **strong** fairness. It is real time and passes
whatever the loop does. But `DeadlinePasses` is enabled only while an engine
pass or wait is in progress, so it is enabled intermittently and weak fairness
would not force it.

`ServiceUtils` has weak fairness on its next-state relation. The one
sequential caller runs its script to the end, and systemd finishes every
job in progress (`Settle`). The run disables deadlock checking because the script
really does end.

Without the deadline, a session that keeps failing would retry forever. This
is why `EventuallySettled` relies on the 30-minute expiry.

## 4. Not modelled, and the plan

Not modelled:
- Event types, messages and `CreateEvent` failures.
- `GetPods` and the other client calls.
- Status strings and name conversions.
- The informer's idle timer.
- The e2e tests (a harness against a live cluster).
- The zero-socket path (line 373). `totalGPUCount` is always `NumGPUs`.
  With 0 sockets, every profile with a positive assignment fails
  `validateProfile`, so the path acts as a validation error.
- Failed partition reads.
- `GetPartitionProfile` failing at startup, which makes `main` return.
- A failing `amdsmiGetProcessorHandles` (lines 242-254). It returns a nil
  slice, and `processor_handles[0]` at line 432 panics mid-profile. A panic
  ends every goroutine. Modelling it would need a process-dead guard on
  every action; the validator's panic (line 316) is the modelled case of
  this kind.
- `GetPartitionProfile` returning "" when `GetNodeLabel` fails, or when
  `nodeName` is empty (lines 97-104), in a watcher. The trigger is lost.
  `SourceRead` reads the label without failure.
- systemd acting on its own beyond finishing a job in progress, for example
  a restart policy.

What is left is out of reach or would add nothing the runs do not already show:
- The spec's "exactly one event per terminal condition" is broken by paths
  that already have findings: the stale failure flag repeats validation
  events within one session.
- Zero sockets posts two events in one run.
- A larger core instance exceeds the time a run may take.
