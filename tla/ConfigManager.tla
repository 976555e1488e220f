--------------------------- MODULE ConfigManager ---------------------------
(***************************************************************************)
(* The reconciliation core of pkg/config_manager/configmanager.go:         *)
(*   - the two trigger sources (node label informer, config.json watcher) *)
(*     that read the selected profile and call TriggerRetryLoop;          *)
(*   - retryCh, the capacity-1 channel TriggerRetryLoop offers to;        *)
(*   - Worker, which cancels the running retry session, waits for it      *)
(*     (wg.Wait) and starts RetryPartition for the received profile;      *)
(*   - RetryPartition, the 30-minute retry loop of one session;           *)
(*   - PartitionGPU / amdSMIHelper, one pass over the profile's GPUs,     *)
(*     one action per GPU, against the GPUs' partition state.             *)
(* The package globals partition_failed and partStatus.GPUStatus are      *)
(* shared by all sessions, as in the code.                                 *)
(***************************************************************************)
EXTENDS Integers, Sequences, FiniteSets, ProfileValidator

CONSTANTS
    NumGPUs,           \* totalGPUCount returned by amdsmiGetSocketHandles
    NonGPU,            \* GPU ids whose processor type is not AMDSMI_PROCESSOR_TYPE_AMD_GPU
    ComputeModes,      \* compute partitions the hardware can be in
    MemoryModes,       \* memory partitions the hardware can be in
    ProfileNames,      \* non-empty values of the dcm.amd.com/gpu-config-profile label
    Configs,           \* config.json contents: ConfigMissing, ConfigInvalid or name -> profile
    ConfigMissing,     \* os.Stat(JsonFilePath) reports the file does not exist
    ConfigInvalid,     \* json.Unmarshal of the file fails
    DriverResults,     \* outcomes of an amd-smi call: subset of {"ok", "fail", "noeffect"}
    LabelWriteCanFail, \* AddNodeLabel may give up after its retries
    MaxEnvChanges,     \* bound on label and configmap edits by the cluster
    MaxSessions,       \* bound on retry sessions the Worker starts
    MaxRestarts        \* bound on kills of the config manager pod

Devices  == 0..(NumGPUs - 1)
Sessions == 1..MaxSessions
Sources  == {"label", "file"}
NoLabel  == ""   \* GetPartitionProfile finds no profile selected

ASSUME /\ NumGPUs \in Nat \ {0}
       /\ NonGPU \subseteq Devices
       /\ DriverResults \subseteq {"ok", "fail", "noeffect"} /\ "ok" \in DriverResults
       /\ LabelWriteCanFail \in BOOLEAN
       /\ MaxEnvChanges \in Nat /\ MaxRestarts \in Nat
       \* every trigger (one per start and one per edit) can get a session
       /\ MaxSessions >= MaxEnvChanges + MaxRestarts + 1

VARIABLES
    label,            \* the profile label on the node
    config,           \* content of /etc/config-manager/config.json
    envBudget,        \* edits the cluster may still make
    restarts,         \* times the pod was killed and restarted
    watching,         \* the fsnotify watcher still has config.json added
    pending,          \* [Sources -> Nat]: undelivered change notifications
    srcPc,            \* [Sources -> {"idle", "offer"}]
    srcVal,           \* [Sources -> profile name read by GetPartitionProfile]
    retryCh,          \* the buffered channel: <<>> or <<profile name>>
    wpc,              \* Worker: "recv" (range retryCh) or "wait" (wg.Wait)
    wprof,            \* profile the Worker received
    cancelFunc,       \* session whose cancel func is stored, 0 for nil
    wg,               \* the WaitGroup counter
    nextS,            \* next session id
    apc,              \* [Sessions -> RetryPartition program counter]
    sprof,            \* [Sessions -> selectedProfile of RetryPartition]
    ctxDone,          \* [Sessions -> ctx cancelled]
    expired,          \* [Sessions -> time.Now() is after the expiration]
    eprof,            \* [Sessions -> profile amdSMIHelper is applying]
    ek,               \* [Sessions -> slot of the nested i/j loop]
    eidx,             \* [Sessions -> idx, position in gpu_ids_list]
    needed,           \* [Sessions -> partition_needed]
    count,            \* [Sessions -> count of RetryPartition]: 1 until the first failure
    partition_failed, \* package global
    gpuStatus,        \* package global partStatus.GPUStatus (Status field)
    hw,               \* [Devices -> [compute, memory]] partition state of each GPU
    nodeState,        \* value of the dcm.amd.com/gpu-config-profile-state label
    labelBy,          \* session that last wrote it (0: none)
    event             \* the last Kubernetes event posted: [kind, by], or NoEvent

envVars     == <<label, config, envBudget, restarts, watching, pending, srcPc, srcVal>>
workerVars  == <<retryCh, wpc, wprof, cancelFunc, wg, nextS>>
sessionVars == <<apc, sprof, ctxDone, expired, eprof, ek, eidx, needed, count>>
engineVars  == <<partition_failed, gpuStatus, hw, nodeState, labelBy, event>>
vars == <<envVars, workerVars, sessionVars, engineVars>>

HwStates  == [compute : ComputeModes, memory : MemoryModes]
NoProfile == [Filters |-> <<>>, Profiles |-> <<>>]
Running   == {"top", "dev", "sleep"}
NoEvent   == [kind |-> "", by |-> 0]
\* Reasons of the events that report a successful run (globals/constants.go).
SuccessEvents == {"SuccessfullyPartitioned", "RequestedPartitionConfigAlreadyExists"}
\* A session whose process was killed ends as "killed".
-----------------------------------------------------------------------------
(***************************************************************************)
(* main: reads the label, starts the Worker, triggers the initial         *)
(* partitioning, then starts the watchers.  StartFileWatcher blocks       *)
(* forever (line 140) when config.json does not exist yet, so the file    *)
(* watcher only ever watches when the configmap was present at startup.   *)
(***************************************************************************)
Init ==
    /\ label \in ProfileNames \cup {NoLabel}
    /\ config \in Configs
    /\ envBudget = MaxEnvChanges
    /\ restarts = 0
    /\ watching = (config # ConfigMissing)
    /\ pending = [src \in Sources |-> 0]
    /\ srcPc = [src \in Sources |-> "idle"]
    /\ srcVal = [src \in Sources |-> NoLabel]
    /\ retryCh = IF label # NoLabel THEN <<label>> ELSE <<>>
    /\ wpc = "recv"
    /\ wprof = NoLabel
    /\ cancelFunc = 0
    /\ wg = 0
    /\ nextS = 1
    /\ apc = [s \in Sessions |-> "idle"]
    /\ sprof = [s \in Sessions |-> NoLabel]
    /\ ctxDone = [s \in Sessions |-> FALSE]
    /\ expired = [s \in Sessions |-> FALSE]
    /\ eprof = [s \in Sessions |-> NoProfile]
    /\ ek = [s \in Sessions |-> 1]
    /\ eidx = [s \in Sessions |-> 1]
    /\ needed = [s \in Sessions |-> FALSE]
    /\ count = [s \in Sessions |-> 1]
    /\ partition_failed = FALSE
    /\ gpuStatus = <<>>
    /\ hw \in [Devices -> HwStates]
    /\ nodeState = "none"
    /\ labelBy = 0
    /\ event = NoEvent

-----------------------------------------------------------------------------
(* Cluster edits and the watchers                                          *)

\* A user sets or clears the profile label.  The informer's UpdateFunc
\* calls printAndApplyLabelChanges, which acts only when the new value of
\* the key is non-empty and differs from the old one.
ChangeLabel(v) ==
    /\ envBudget > 0 /\ v # label
    /\ label' = v
    /\ envBudget' = envBudget - 1
    /\ pending' = IF v # NoLabel THEN [pending EXCEPT !["label"] = @ + 1]
                                 ELSE pending
    /\ UNCHANGED <<config, restarts, watching, srcPc, srcVal, workerVars, sessionVars, engineVars>>

\* The configmap is created, edited or deleted; fsnotify reports it only
\* while config.json is watched.
ChangeConfig(c) ==
    /\ envBudget > 0 /\ c # config
    /\ config' = c
    /\ envBudget' = envBudget - 1
    /\ pending' = IF watching THEN [pending EXCEPT !["file"] = @ + 1] ELSE pending
    /\ UNCHANGED <<label, restarts, watching, srcPc, srcVal, workerVars, sessionVars, engineVars>>

\* A watcher handles a notification: GetPartitionProfile reads the label.
SourceRead(src) ==
    /\ srcPc[src] = "idle" /\ pending[src] > 0
    /\ pending' = [pending EXCEPT ![src] = @ - 1]
    /\ srcVal' = [srcVal EXCEPT ![src] = label]
    /\ srcPc' = [srcPc EXCEPT ![src] = "offer"]
    /\ UNCHANGED <<label, config, envBudget, restarts, watching, workerVars, sessionVars, engineVars>>

\* TriggerRetryLoop: a non-blocking send; when retryCh already holds a
\* profile the NEW one is dropped.  The file watcher then removes and
\* re-adds config.json, which fails (and stops the watch) if it is gone.
TriggerRetryLoop(src) ==
    /\ srcPc[src] = "offer"
    /\ retryCh' = IF srcVal[src] # NoLabel /\ retryCh = <<>>
                  THEN <<srcVal[src]>> ELSE retryCh
    /\ srcPc' = [srcPc EXCEPT ![src] = "idle"]
    /\ watching' = IF src = "file" THEN config # ConfigMissing ELSE watching
    /\ UNCHANGED <<label, config, envBudget, restarts, pending, srcVal, wpc, wprof,
                   cancelFunc, wg, nextS, sessionVars, engineVars>>

-----------------------------------------------------------------------------
(* Worker                                                                  *)

\* Receive from retryCh; if a cancel func is stored, call it.  The Worker
\* then waits on wg (a no-op when no session was ever started).
WorkerRecv ==
    /\ wpc = "recv" /\ retryCh # <<>>
    /\ wprof' = Head(retryCh)
    /\ retryCh' = <<>>
    /\ ctxDone' = IF cancelFunc # 0 THEN [ctxDone EXCEPT ![cancelFunc] = TRUE]
                                    ELSE ctxDone
    /\ wpc' = "wait"
    /\ UNCHANGED <<envVars, cancelFunc, wg, nextS, apc, sprof, expired, eprof,
                   ek, eidx, needed, count, engineVars>>

\* Mutant: the Worker starts the new session without waiting on wg.
WorkerStartNoWait ==
    /\ wpc = "wait" /\ nextS <= MaxSessions
    /\ apc' = [apc EXCEPT ![nextS] = "top"]
    /\ sprof' = [sprof EXCEPT ![nextS] = wprof]
    /\ cancelFunc' = nextS
    /\ wg' = wg + 1
    /\ nextS' = nextS + 1
    /\ wpc' = "recv"
    /\ UNCHANGED <<envVars, retryCh, wprof, ctxDone, expired, eprof, ek, eidx,
                   needed, count, engineVars>>

\* Mutant: the new session reads the node label again instead of taking
\* the profile the Worker received.
WorkerStartStaleProfile ==
    /\ wpc = "wait" /\ wg = 0 /\ nextS <= MaxSessions
    /\ apc' = [apc EXCEPT ![nextS] = "top"]
    /\ sprof' = [sprof EXCEPT ![nextS] = label]
    /\ cancelFunc' = nextS
    /\ wg' = wg + 1
    /\ nextS' = nextS + 1
    /\ wpc' = "recv"
    /\ UNCHANGED <<envVars, retryCh, wprof, ctxDone, expired, eprof, ek, eidx,
                   needed, count, engineVars>>

\* wg.Wait returned: store a fresh cancel func, wg.Add(1), go RetryPartition.
WorkerStart ==
    /\ wpc = "wait" /\ wg = 0 /\ nextS <= MaxSessions
    /\ apc' = [apc EXCEPT ![nextS] = "top"]
    /\ sprof' = [sprof EXCEPT ![nextS] = wprof]
    /\ cancelFunc' = nextS
    /\ wg' = wg + 1
    /\ nextS' = nextS + 1
    /\ wpc' = "recv"
    /\ UNCHANGED <<envVars, retryCh, wprof, ctxDone, expired, eprof, ek, eidx,
                   needed, count, engineVars>>
-----------------------------------------------------------------------------
(* RetryPartition and PartitionGPU / amdSMIHelper for session s            *)

\* AddNodeLabel(..., "dcm.amd.com/gpu-config-profile-state", v); its error
\* is only logged, so a write that exhausts its retries leaves the label.
WriteLabel(v, s) ==
    \/ nodeState' = v /\ labelBy' = s
    \/ LabelWriteCanFail /\ UNCHANGED <<nodeState, labelBy>>

\* generateK8sEvent / createEventObject: kc.CreateEvent posts an event
\* whose reason is the kind; its type and message are formatting.
Posted(kind, s) == [kind |-> kind, by |-> s]

\* Mutant: the retrying event is posted on the second failure, not the first.
ReturnFromPartitionGPURetryLate(s, failed, posted) ==
    /\ IF failed THEN /\ apc' = [apc EXCEPT ![s] = "sleep"]
                      /\ UNCHANGED wg
                 ELSE /\ apc' = [apc EXCEPT ![s] = "done"]
                      /\ wg' = wg - 1
    /\ count' = IF failed THEN [count EXCEPT ![s] = 2] ELSE count
    /\ event' = CASE failed /\ count[s] = 2 -> Posted("PartitionRetrying", s)
                 [] posted # ""              -> Posted(posted, s)
                 [] OTHER                    -> event

(***************************************************************************)
(* PartitionGPU returned to RetryPartition with err # nil (failed) or nil, *)
(* after the attempt posted the event `posted` ("" for none).  On an      *)
(* error the loop posts PartitionRetrying if count = 1, sets count to 2,  *)
(* and sleeps; otherwise it returns (defer wg.Done()).                    *)
(***************************************************************************)
ReturnFromPartitionGPU(s, failed, posted) ==
    /\ IF failed THEN /\ apc' = [apc EXCEPT ![s] = "sleep"]
                      /\ UNCHANGED wg
                 ELSE /\ apc' = [apc EXCEPT ![s] = "done"]
                      /\ wg' = wg - 1
    /\ count' = IF failed /\ count[s] = 1 THEN [count EXCEPT ![s] = 2] ELSE count
    /\ event' = CASE failed /\ count[s] = 1 -> Posted("PartitionRetrying", s)
                 [] posted # ""              -> Posted(posted, s)
                 [] OTHER                    -> event

\* Loop head: ctx.Done() selected -> "Aborting retry loop".
AttemptCancelled(s) ==
    /\ apc[s] = "top" /\ ctxDone[s]
    /\ apc' = [apc EXCEPT ![s] = "done"]
    /\ wg' = wg - 1
    /\ UNCHANGED <<envVars, retryCh, wpc, wprof, cancelFunc, nextS, sprof,
                   ctxDone, expired, eprof, ek, eidx, needed, count, engineVars>>

\* Mutant: the expiry path calls wg.Done() besides the deferred one.
AttemptExpiredDoubleDone(s) ==
    /\ apc[s] = "top" /\ ~ctxDone[s] /\ expired[s]
    /\ apc' = [apc EXCEPT ![s] = "done"]
    /\ wg' = wg - 2
    /\ event' = Posted("PartitionFailure", s)
    /\ UNCHANGED <<envVars, retryCh, wpc, wprof, cancelFunc, nextS, sprof,
                   ctxDone, expired, eprof, ek, eidx, needed, count,
                   partition_failed, gpuStatus, hw, nodeState, labelBy>>

\* Loop head: the 30 minutes have passed -> PartitionFailure event, return.
AttemptExpired(s) ==
    /\ apc[s] = "top" /\ ~ctxDone[s] /\ expired[s]
    /\ apc' = [apc EXCEPT ![s] = "done"]
    /\ wg' = wg - 1
    /\ event' = Posted("PartitionFailure", s)
    /\ UNCHANGED <<envVars, retryCh, wpc, wprof, cancelFunc, nextS, sprof,
                   ctxDone, expired, eprof, ek, eidx, needed, count,
                   partition_failed, gpuStatus, hw, nodeState, labelBy>>

(***************************************************************************)
(* amdSMIHelper up to its GPU loop: validateProfile; on an error the      *)
(* failure label is written and it returns BEFORE resetting the global    *)
(* partition_failed, so PartitionGPU's error comes from an earlier run.   *)
(* A profile with no assignment panics in validateProfile ("panic": the   *)
(* process dies).  Otherwise partition_failed and partition_needed are    *)
(* reset and GPUStatus is allocated for the usable GPUs.  GPUStatus is    *)
(* nil on the other paths: PartitionGPU cleared it before the call.        *)
(***************************************************************************)
amdSMIHelper(s, profile) ==
    LET verdict == validateProfile(profile, NumGPUs) IN
    CASE verdict = "IndexPanic" ->
           /\ apc' = [apc EXCEPT ![s] = "panic"]
           /\ gpuStatus' = <<>>
           /\ UNCHANGED <<wg, partition_failed, hw, nodeState, labelBy, event,
                          eprof, ek, eidx, needed, count>>
      [] verdict # "ok" ->
           /\ WriteLabel("failure", s)
           /\ ReturnFromPartitionGPU(s, partition_failed, "InvalidProfileInfo")
           /\ gpuStatus' = <<>>
           /\ UNCHANGED <<partition_failed, hw, eprof, ek, eidx, needed>>
      [] OTHER ->
           /\ gpuStatus' = [i \in 1..Len(createGPUIDList(profile.Filters, NumGPUs))
                              |-> "none"]
           /\ partition_failed' = FALSE
           /\ eprof' = [eprof EXCEPT ![s] = profile]
           /\ ek' = [ek EXCEPT ![s] = 1]
           /\ eidx' = [eidx EXCEPT ![s] = 1]
           /\ needed' = [needed EXCEPT ![s] = FALSE]
           /\ apc' = [apc EXCEPT ![s] = "dev"]
           /\ UNCHANGED <<wg, hw, nodeState, labelBy, event, count>>

(***************************************************************************)
(* Loop head, neither cancelled nor expired: PartitionGPU(sprof[s]).  It  *)
(* resets partStatus (GPUStatus = nil); each early return writes the      *)
(* failure label and returns nil: config.json missing, invalid JSON,      *)
(* profile not in the configmap, amdsmi_init failed.  Otherwise it runs   *)
(* amdSMIHelper.                                                           *)
(***************************************************************************)
EarlyReturnEvent(s) ==
    CASE config = ConfigMissing          -> "ConfigMapNotPresent"
      [] config = ConfigInvalid          -> "InvalidJSONInConfigMap"
      [] sprof[s] \notin DOMAIN config   -> "NonExistentProfile"
      [] OTHER                           -> "AMDSMIAPIFailure"

PartitionGPU(s) ==
    /\ apc[s] = "top" /\ ~ctxDone[s] /\ ~expired[s]
    /\ \E initRet \in DriverResults :
         IF /\ config \notin {ConfigMissing, ConfigInvalid}
            /\ sprof[s] \in DOMAIN config
            /\ initRet = "ok"
         THEN amdSMIHelper(s, config[sprof[s]])
         ELSE /\ gpuStatus' = <<>>
              /\ WriteLabel("failure", s)
              /\ ReturnFromPartitionGPU(s, FALSE, EarlyReturnEvent(s))
              /\ UNCHANGED <<partition_failed, hw, eprof, ek, eidx, needed>>
    /\ UNCHANGED <<envVars, retryCh, wpc, wprof, cancelFunc, nextS, sprof,
                   ctxDone, expired>>

\* The driver's answer to a set call, or "skip" when the code makes none.
\* "noeffect": the call returns AMDSMI_STATUS_SUCCESS and the partition
\* read back afterwards is the old one.
SetCall(differs) == IF differs THEN DriverResults ELSE {"skip"}

(***************************************************************************)
(* One GPU of amdSMIHelper's loop: gpu_ids_list[idx] is given slot k.     *)
(* A processor-type error returns from amdSMIHelper; a non-GPU processor  *)
(* is skipped by `continue` WITHOUT advancing idx.  A GPU already in the  *)
(* requested partitions records "Partition not required".  Otherwise the  *)
(* memory partition is set if it differs, then the compute partition is   *)
(* re-read and set if it differs.  A memory call fails on an error status *)
(* or an unchanged read-back; a compute call fails on an error status     *)
(* only (its read-back is logged).  Each failure writes the failure label *)
(* and sets partition_failed, and the GPU's status is "Failure" whenever  *)
(* partition_failed is set.                                                *)
(***************************************************************************)
PartitionDevice(s) ==
    /\ apc[s] = "dev"
    /\ ek[s] <= Len(TargetSlots(eprof[s]))
    /\ LET gpu  == createGPUIDList(eprof[s].Filters, NumGPUs)[eidx[s]]
           want == TargetSlots(eprof[s])[ek[s]]
           have == hw[gpu]
       IN \E typeRet \in DriverResults :
          CASE typeRet = "fail" ->
                 /\ WriteLabel("failure", s)
                 /\ ReturnFromPartitionGPU(s, partition_failed, "AMDSMIAPIFailure")
                 /\ UNCHANGED <<partition_failed, gpuStatus, hw, ek, eidx, needed>>
            [] gpu \in NonGPU ->
                 /\ ek' = [ek EXCEPT ![s] = @ + 1]
                 /\ UNCHANGED <<apc, wg, partition_failed, gpuStatus, hw,
                                nodeState, labelBy, event, eidx, needed, count>>
            [] have = want ->
                 /\ gpuStatus' = [gpuStatus EXCEPT ![eidx[s]] = "Success"]
                 /\ ek' = [ek EXCEPT ![s] = @ + 1]
                 /\ eidx' = [eidx EXCEPT ![s] = @ + 1]
                 /\ UNCHANGED <<apc, wg, partition_failed, hw, nodeState,
                                labelBy, event, needed, count>>
            [] OTHER ->
                 \E memRet  \in SetCall(have.memory # want.memory),
                    compRet \in SetCall(have.compute # want.compute) :
                   LET failedNow == memRet \in {"fail", "noeffect"} \/ compRet = "fail"
                       failed    == partition_failed \/ failedNow
                   IN /\ hw' = [hw EXCEPT ![gpu] =
                                  [compute |-> IF compRet = "ok" THEN want.compute
                                                                 ELSE have.compute,
                                   memory  |-> IF memRet = "ok" THEN want.memory
                                                                ELSE have.memory]]
                      /\ partition_failed' = failed
                      /\ IF failedNow THEN WriteLabel("failure", s)
                                      ELSE UNCHANGED <<nodeState, labelBy>>
                      /\ gpuStatus' = [gpuStatus EXCEPT ![eidx[s]] =
                                         IF failed THEN "Failure" ELSE "Success"]
                      /\ needed' = [needed EXCEPT ![s] = TRUE]
                      /\ ek' = [ek EXCEPT ![s] = @ + 1]
                      /\ eidx' = [eidx EXCEPT ![s] = @ + 1]
                      /\ UNCHANGED <<apc, wg, event, count>>
    /\ UNCHANGED <<envVars, retryCh, wpc, wprof, cancelFunc, nextS, sprof,
                   ctxDone, expired, eprof>>

\* The event of a run without failure: partitioned, or nothing to change.
SuccessEvent(s) ==
    IF needed[s] THEN "SuccessfullyPartitioned" ELSE "RequestedPartitionConfigAlreadyExists"

\* Mutant: the success label is written without checking partition_failed.
EndOfProfileUnchecked(s) ==
    /\ apc[s] = "dev"
    /\ ek[s] > Len(TargetSlots(eprof[s]))
    /\ WriteLabel("success", s)
    /\ ReturnFromPartitionGPU(s, partition_failed,
                              IF partition_failed THEN "" ELSE SuccessEvent(s))
    /\ UNCHANGED <<envVars, retryCh, wpc, wprof, cancelFunc, nextS, sprof,
                   ctxDone, expired, eprof, ek, eidx, needed,
                   partition_failed, gpuStatus, hw>>

\* After the last slot: without a failure, FinalStatus "Success", the
\* success (or not-needed) event and the success label; PartitionGPU
\* returns an error iff partition_failed.
EndOfProfile(s) ==
    /\ apc[s] = "dev"
    /\ ek[s] > Len(TargetSlots(eprof[s]))
    /\ IF partition_failed THEN UNCHANGED <<nodeState, labelBy>>
                           ELSE WriteLabel("success", s)
    /\ ReturnFromPartitionGPU(s, partition_failed,
                              IF partition_failed THEN "" ELSE SuccessEvent(s))
    /\ UNCHANGED <<envVars, retryCh, wpc, wprof, cancelFunc, nextS, sprof,
                   ctxDone, expired, eprof, ek, eidx, needed,
                   partition_failed, gpuStatus, hw>>

\* The one-minute wait ends: time.After fires.
SleepElapsed(s) ==
    /\ apc[s] = "sleep"
    /\ apc' = [apc EXCEPT ![s] = "top"]
    /\ UNCHANGED <<envVars, workerVars, sprof, ctxDone, expired, eprof, ek,
                   eidx, needed, count, engineVars>>

\* Mutant: the cancelled wait returns without wg.Done().
SleepCancelledNoDone(s) ==
    /\ apc[s] = "sleep" /\ ctxDone[s]
    /\ apc' = [apc EXCEPT ![s] = "done"]
    /\ UNCHANGED <<envVars, workerVars, sprof, ctxDone, expired, eprof, ek,
                   eidx, needed, count, engineVars>>

\* The wait is cut short by ctx.Done().
SleepCancelled(s) ==
    /\ apc[s] = "sleep" /\ ctxDone[s]
    /\ apc' = [apc EXCEPT ![s] = "done"]
    /\ wg' = wg - 1
    /\ UNCHANGED <<envVars, retryCh, wpc, wprof, cancelFunc, nextS, sprof,
                   ctxDone, expired, eprof, ek, eidx, needed, count, engineVars>>

\* Time passes the session's expiration while it partitions or waits.
DeadlinePasses(s) ==
    /\ apc[s] \in {"dev", "sleep"} /\ ~expired[s]
    /\ expired' = [expired EXCEPT ![s] = TRUE]
    /\ UNCHANGED <<envVars, workerVars, apc, sprof, ctxDone, eprof, ek, eidx,
                   needed, count, engineVars>>

-----------------------------------------------------------------------------
(* The pod is killed and restarted                                         *)

\* The GPU session s is partitioning, as a kill between
\* amdsmi_set_gpu_memory_partition and the compute call leaves it: its
\* memory partition is the requested one, its compute partition the old.
Interrupted(s) ==
    IF apc[s] = "dev" /\ ek[s] <= Len(TargetSlots(eprof[s]))
    THEN LET gpu  == createGPUIDList(eprof[s].Filters, NumGPUs)[eidx[s]]
             want == TargetSlots(eprof[s])[ek[s]]
         IN IF gpu \notin NonGPU /\ hw[gpu] # want /\ hw[gpu].memory # want.memory
            THEN {[hw EXCEPT ![gpu].memory = want.memory]}
            ELSE {}
    ELSE {}

(***************************************************************************)
(* The process dies (a kill, an OOM, or the panic of a session) at any    *)
(* point, possibly inside a GPU's set calls, and the pod restarts: every  *)
(* goroutine and package global is lost, while the GPUs' partitions, the  *)
(* node labels and the configmap survive.  main runs again: it reads the  *)
(* label, starts the Worker, triggers the initial partitioning if a       *)
(* profile is selected, and starts the watchers.                          *)
(***************************************************************************)
Restart ==
    /\ restarts < MaxRestarts
    /\ restarts' = restarts + 1
    /\ hw' \in {hw} \cup UNION {Interrupted(s) : s \in Sessions}
    /\ apc' = [s \in Sessions |-> IF apc[s] \in Running \cup {"panic"} THEN "killed"
                                                                    ELSE apc[s]]
    /\ watching' = (config # ConfigMissing)
    /\ pending' = [src \in Sources |-> 0]
    /\ srcPc' = [src \in Sources |-> "idle"]
    /\ srcVal' = [src \in Sources |-> NoLabel]
    /\ retryCh' = IF label # NoLabel THEN <<label>> ELSE <<>>
    /\ wpc' = "recv" /\ wprof' = NoLabel /\ cancelFunc' = 0 /\ wg' = 0
    /\ partition_failed' = FALSE /\ gpuStatus' = <<>>
    /\ UNCHANGED <<label, config, envBudget, nextS, sprof, ctxDone, expired,
                   eprof, ek, eidx, needed, count, nodeState, labelBy, event>>

-----------------------------------------------------------------------------
SessionStep(s) ==
    \/ AttemptCancelled(s) \/ AttemptExpired(s) \/ PartitionGPU(s)
    \/ PartitionDevice(s) \/ EndOfProfile(s)
    \/ SleepElapsed(s) \/ SleepCancelled(s)

\* A panic ("panic" session) ends the process; the model stops the session
\* and, within MaxRestarts, Restart restarts the pod.
Next ==
    \/ \E v \in ProfileNames \cup {NoLabel} : ChangeLabel(v)
    \/ \E c \in Configs : ChangeConfig(c)
    \/ \E src \in Sources : SourceRead(src)
    \/ \E src \in Sources : TriggerRetryLoop(src)
    \/ WorkerRecv
    \/ WorkerStart
    \/ \E s \in Sessions : AttemptCancelled(s)
    \/ \E s \in Sessions : AttemptExpired(s)
    \/ \E s \in Sessions : PartitionGPU(s)
    \/ \E s \in Sessions : PartitionDevice(s)
    \/ \E s \in Sessions : EndOfProfile(s)
    \/ \E s \in Sessions : SleepElapsed(s)
    \/ \E s \in Sessions : SleepCancelled(s)
    \/ \E s \in Sessions : DeadlinePasses(s)
    \/ Restart

(***************************************************************************)
(* Every goroutine keeps running (weak fairness); the cluster may stop    *)
(* editing and the pod may stop being killed at any time.  Wall-clock    *)
(* time passes the session deadline however often the loop re-checks it, *)
(* hence strong fairness there: the deadline step is enabled during each *)
(* engine pass and wait only.                                              *)
(***************************************************************************)
Fairness ==
    /\ \A src \in Sources : WF_vars(SourceRead(src)) /\ WF_vars(TriggerRetryLoop(src))
    /\ WF_vars(WorkerRecv) /\ WF_vars(WorkerStart)
    /\ \A s \in Sessions : WF_vars(SessionStep(s)) /\ SF_vars(DeadlinePasses(s))

Spec == Init /\ [][Next]_vars /\ Fairness
-----------------------------------------------------------------------------
(* Properties                                                              *)

TypeOK ==
    /\ label \in ProfileNames \cup {NoLabel}
    /\ config \in Configs
    /\ pending \in [Sources -> 0..MaxEnvChanges]
    /\ srcPc \in [Sources -> {"idle", "offer"}]
    /\ retryCh \in {<<>>} \cup {<<p>> : p \in ProfileNames}
    /\ wpc \in {"recv", "wait"}
    /\ cancelFunc \in 0..MaxSessions
    /\ wg \in 0..MaxSessions
    /\ nextS \in 1..(MaxSessions + 1)
    /\ apc \in [Sessions -> {"idle", "done", "panic", "killed"} \cup Running]
    /\ ctxDone \in [Sessions -> BOOLEAN] /\ expired \in [Sessions -> BOOLEAN]
    /\ partition_failed \in BOOLEAN
    /\ gpuStatus \in Seq({"none", "Success", "Failure"})
    /\ hw \in [Devices -> HwStates]
    /\ nodeState \in {"none", "success", "failure"}
    /\ count \in [Sessions -> {1, 2}]
    /\ event \in {NoEvent} \cup [kind : STRING, by : Sessions]

\* The manager has nothing left to do: no notification, no pending
\* trigger, the Worker back on retryCh and no retry session alive.
Settled ==
    /\ \A src \in Sources : pending[src] = 0 /\ srcPc[src] = "idle"
    /\ retryCh = <<>> /\ wpc = "recv"
    /\ \A s \in Sessions : apc[s] \in {"idle", "done", "killed"}

(***************************************************************************)
(* Single flight (spec section 5): Worker's cancel-then-wg.Wait protocol  *)
(* lets at most one RetryPartition goroutine run at a time, so the        *)
(* amd-smi handles and the partStatus/partition_failed globals are never  *)
(* used by two sessions at once.                                           *)
(***************************************************************************)
SingleFlight ==
    Cardinality({s \in Sessions : apc[s] \in Running}) <= 1

\* The GPUs are in the partitions that session s's profile asks for.
Applied(s) ==
    LET gl    == createGPUIDList(eprof[s].Filters, NumGPUs)
        slots == TargetSlots(eprof[s])
    IN \A k \in 1..Len(slots) : hw[gl[k]] = slots[k]

(***************************************************************************)
(* The state label tells the truth: while no session is in the middle of  *)
(* amdSMIHelper's GPU loop, a "success" value of                          *)
(* dcm.amd.com/gpu-config-profile-state means the GPUs are in the         *)
(* partitions of the profile whose run wrote it.  It relies on every      *)
(* failed set call raising partition_failed before EndOfProfile, across   *)
(* cancellations and later sessions that fail part-way.  A session killed *)
(* after the label was written may have left the GPUs half-changed; the   *)
(* label is owed the truth again once a later session writes it.          *)
(***************************************************************************)
SuccessLabelMeansApplied ==
    (/\ nodeState = "success"
     /\ \A s \in Sessions : apc[s] # "dev"
     /\ \A s \in Sessions : apc[s] = "killed" => s < labelBy)
        => Applied(labelBy)

(***************************************************************************)
(* The two outputs tell the same story (spec section 4.5): whenever no    *)
(* session is in amdSMIHelper's GPU loop, the last event posted reports   *)
(* success exactly when the state label says "success".  The retrying and *)
(* expiry events write no label; they rely on the failed run having       *)
(* written "failure", and on PartitionRetrying being posted on a          *)
(* session's FIRST failure, whatever an earlier session posted.  A kill   *)
(* of a later session is excused as for SuccessLabelMeansApplied.         *)
(***************************************************************************)
EventAgreesWithLabel ==
    (/\ event # NoEvent
     /\ \A s \in Sessions : apc[s] # "dev"
     /\ \A s \in Sessions : apc[s] = "killed" => s < event.by)
        => nodeState = IF event.kind \in SuccessEvents THEN "success" ELSE "failure"

(***************************************************************************)
(* Every trigger is eventually served: once the cluster stops editing,    *)
(* the Worker drains retryCh, every retry session ends (by success,       *)
(* cancellation or its 30-minute expiry) and wg.Wait never blocks for     *)
(* good.                                                                   *)
(***************************************************************************)
EventuallySettled == <>[]Settled

(***************************************************************************)
(* Crash recovery: a kill in the middle of a session can leave the GPUs   *)
(* half-partitioned under a "success" label written by an earlier         *)
(* session, since nothing clears the state label.  Once the pod stops     *)
(* being killed and the cluster stops editing, the label is truthful      *)
(* again for good: a "success" value means the GPUs are in the partitions *)
(* of the profile of the session that wrote it.  main triggers the        *)
(* initial partitioning only when the label it reads selects a profile,   *)
(* so a kill after the label was removed leaves the stale label.           *)
(***************************************************************************)
LabelEventuallyTruthful == <>[](nodeState = "success" => Applied(labelBy))

(***************************************************************************)
(* Refinement: the watchers, retryCh, the Worker and the sessions          *)
(* implement SingleFlightCoordinator.  The mailbox is retryCh, the held   *)
(* request is the profile the Worker received while it waits on wg, and   *)
(* the running request is the profile of the session that is between its *)
(* start and its return.                                                   *)
(***************************************************************************)
RunningProfile ==
    IF \E s \in Sessions : apc[s] \in Running
    THEN sprof[CHOOSE s \in Sessions : apc[s] \in Running]
    ELSE NoLabel

Coordinator == INSTANCE SingleFlightCoordinator WITH
    Profiles <- ProfileNames,
    None     <- NoLabel,
    box      <- retryCh,
    held     <- IF wpc = "wait" THEN wprof ELSE NoLabel,
    run      <- RunningProfile

(***************************************************************************)
(* The trigger path is a single-flight coordinator: TriggerRetryLoop only *)
(* fills an empty retryCh, the Worker hands on exactly the profile it     *)
(* received, starts a session only after the previous one returned        *)
(* (cancel, wg.Wait), and every taken request is started and ends.        *)
(***************************************************************************)
CoordinatorRefinement == Coordinator!Spec

-----------------------------------------------------------------------------
(* Properties the spec states and the code does not keep                   *)

(***************************************************************************)
(* Latest wins (spec sections 2, 3 and 5: the mailbox keeps the most      *)
(* recent request): once the manager has settled, the last retry session *)
(* was started for the profile the node label selects now.               *)
(* TriggerRetryLoop drops the NEW request when retryCh is full.           *)
(***************************************************************************)
LatestProfileApplied ==
    (Settled /\ label # NoLabel) => (nextS > 1 /\ sprof[nextS - 1] = label)

(***************************************************************************)
(* Errors are not final within a session (spec section 7): attempt-fatal *)
(* errors (missing or invalid config map, unknown profile, validation     *)
(* error, driver init failure) and per-device driver errors may self-heal *)
(* on a later iteration of the same 30-minute session.  So RetryPartition *)
(* ends a session that is neither cancelled nor past its deadline only    *)
(* after an attempt that posted a success event.  amdSMIHelper's returns  *)
(* on a validation error and on a processor-type error hand PartitionGPU  *)
(* the partition_failed left by an earlier run, and PartitionGPU's early  *)
(* returns return nil.                                                     *)
(***************************************************************************)
AttemptErrorsNotFinal ==
    [][\A s \in Sessions :
         (/\ apc[s] \in {"top", "dev"} /\ apc'[s] = "done"
          /\ ~ctxDone[s] /\ ~expired[s])
            => event'.kind \in SuccessEvents /\ event'.by = s]_vars

\* The node label selects a profile of the configmap that validates.
Wanted ==
    /\ label # NoLabel
    /\ config \notin {ConfigMissing, ConfigInvalid}
    /\ label \in DOMAIN config
    /\ validateProfile(config[label], NumGPUs) = "ok"

(***************************************************************************)
(* A configmap that is created or fixed is picked up (spec section 7: a   *)
(* config map not yet created self-heals on a later iteration): once the  *)
(* label and config.json stop changing, some session has run the GPU     *)
(* loop with the profile they select.  PartitionGPU returns nil when      *)
(* config.json is missing, and StartFileWatcher never watches a file that *)
(* was missing at startup.                                                 *)
(***************************************************************************)
ProfileEventuallyAttempted ==
    <>[](Wanted => \E s \in Sessions : sprof[s] = label /\ eprof[s] = config[label])
=============================================================================
