-------------------------- MODULE ProfileValidator --------------------------
(***************************************************************************)
(* The pure helpers of pkg/config_manager/configmanager.go that decide     *)
(* what a partition profile means for a node with a given GPU count:      *)
(* createGPUIDList, validateProfile (with checkInvalidPartitionType and   *)
(* ValidateList) and the walk of amdSMIHelper that binds the k-th usable  *)
(* GPU to the k-th slot of the profile's assignments.                      *)
(*                                                                         *)
(* A profile is the decoded GPUConfigProfile:                              *)
(*   [Filters  |-> <<skipped GPU ids>>,                                   *)
(*    Profiles |-> <<[ComputePartition, MemoryPartition,                  *)
(*                    NumGPUsAssigned], ...>>]                             *)
(* Filters is the JSON list of the configmap, so it may repeat an id.      *)
(***************************************************************************)
EXTENDS Integers, Sequences, SequencesExt

\* globals.ValidComputePartitions and globals.ValidMemoryPartitions.
ValidComputePartitions == {"SPX", "CPX", "DPX", "QPX"}
ValidMemoryPartitions  == {"NPS1", "NPS2", "NPS4"}

\* checkInvalidPartitionType: both names must be in the valid lists.
checkInvalidPartitionType(computeType, memoryType) ==
    CASE computeType \notin ValidComputePartitions -> "InvalidComputeType"
      [] memoryType \notin ValidMemoryPartitions   -> "InvalidMemoryType"
      [] OTHER                                     -> "ok"

\* createGPUIDList: the ids 0..total-1 in ascending order, minus the
\* skipped ones.
createGPUIDList(filter_ids, totalGPUCount) ==
    SelectSeq([i \in 1..totalGPUCount |-> i - 1],
              LAMBDA id : ~Contains(filter_ids, id))

\* Sum of NumGPUsAssigned over the assignments (the loop of lines 305-308).
TotalAssigned(profiles) ==
    FoldLeft(LAMBDA acc, a : acc + a.NumGPUsAssigned, 0, profiles)

\* Mutant: the skipped-id range check is off by one (id > total).
validateProfileOffByOne(profile, totalGPUCount) ==
    LET filter   == profile.Filters
        profiles == profile.Profiles
        Bad(i)   == \/ checkInvalidPartitionType(profiles[i].ComputePartition,
                                                 profiles[i].MemoryPartition) # "ok"
                    \/ profiles[i].MemoryPartition # profiles[1].MemoryPartition
    IN CASE Len(filter) > totalGPUCount                       -> "FilterTooLong"
         [] \E i \in DOMAIN filter : filter[i] > totalGPUCount -> "InvalidGPUId"
         [] TotalAssigned(profiles) + Len(filter) # totalGPUCount -> "CountMismatch"
         [] profiles = <<>>                                   -> "IndexPanic"
         [] \E i \in DOMAIN profiles : Bad(i)                 -> "MixedMemory"
         [] OTHER -> "ok"

(***************************************************************************)
(* validateProfile: the first rule the profile breaks, or "ok".  The last *)
(* loop checks, assignment by assignment, the partition names and then    *)
(* that the memory type equals the FIRST assignment's; it reads           *)
(* profiles[0] unguarded, which panics when there is no assignment        *)
(* ("IndexPanic": the Go runtime's index out of range).                    *)
(***************************************************************************)
validateProfile(profile, totalGPUCount) ==
    LET filter   == profile.Filters
        profiles == profile.Profiles
        Bad(i)   == \/ checkInvalidPartitionType(profiles[i].ComputePartition,
                                                 profiles[i].MemoryPartition) # "ok"
                    \/ profiles[i].MemoryPartition # profiles[1].MemoryPartition
        firstBad == CHOOSE i \in DOMAIN profiles :
                        Bad(i) /\ \A j \in 1..(i - 1) : ~Bad(j)
    IN CASE Len(filter) > totalGPUCount                       -> "FilterTooLong"
         [] \E i \in DOMAIN filter : filter[i] + 1 > totalGPUCount -> "InvalidGPUId"
         [] TotalAssigned(profiles) + Len(filter) # totalGPUCount -> "CountMismatch"
         [] profiles = <<>>                                   -> "IndexPanic"
         [] \E i \in DOMAIN profiles : Bad(i) ->
              IF checkInvalidPartitionType(profiles[firstBad].ComputePartition,
                                           profiles[firstBad].MemoryPartition) # "ok"
              THEN checkInvalidPartitionType(profiles[firstBad].ComputePartition,
                                             profiles[firstBad].MemoryPartition)
              ELSE "MixedMemory"
         [] OTHER -> "ok"

\* Mutant: the inner loop runs one slot too many (j <= nod).
TargetSlotsOffByOne(profile) ==
    FlattenSeq([i \in DOMAIN profile.Profiles |->
                  [j \in 1..(profile.Profiles[i].NumGPUsAssigned + 1) |->
                     [compute |-> profile.Profiles[i].ComputePartition,
                      memory  |-> profile.Profiles[i].MemoryPartition]]])

\* The partition slots of amdSMIHelper's nested loop (lines 419-424) in
\* walk order: assignment i contributes NumGPUsAssigned copies of its
\* requested [compute, memory] pair.
TargetSlots(profile) ==
    FlattenSeq([i \in DOMAIN profile.Profiles |->
                  [j \in 1..profile.Profiles[i].NumGPUsAssigned |->
                     [compute |-> profile.Profiles[i].ComputePartition,
                      memory  |-> profile.Profiles[i].MemoryPartition]]])
=============================================================================
