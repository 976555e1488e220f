------------------------- MODULE MCProfileValidator -------------------------
(***************************************************************************)
(* Drives validateProfile and the slot walk of amdSMIHelper over every    *)
(* small configmap profile: up to two skipped ids, up to two assignments  *)
(* over a valid, a second valid and an unknown partition name, counts     *)
(* 0..2, and GPU counts 1..MaxGPUs.  Each initial state is one input and the one step validates it; the   *)
(* properties compare the result with the rules of the spec.               *)
(***************************************************************************)
EXTENDS ProfileValidator, FiniteSets

CONSTANTS MaxGPUs, ComputeNames, MemoryNames, MaxCount

Assignments == [ComputePartition : ComputeNames, MemoryPartition : MemoryNames,
                NumGPUsAssigned : 0..MaxCount]
Inputs == [Filters : BoundedSeq(0..MaxGPUs, 2), Profiles : BoundedSeq(Assignments, 2)]

VARIABLES input, gpus, verdict

Init == input \in Inputs /\ gpus \in 1..MaxGPUs /\ verdict = "none"

\* One call of validateProfile(profile, totalGPUCount) on the input.
Validate ==
    /\ verdict = "none"
    /\ verdict' = validateProfile(input, gpus)
    /\ UNCHANGED <<input, gpus>>

Spec == Init /\ [][Validate]_<<input, gpus, verdict>>

\* The acceptance rule of spec section 8, read off the spec: counts plus
\* exclusions equal the GPU count, every excluded index is in range, every
\* name is valid and all assignments share one memory partition.
SpecAccepts(p, n) ==
    /\ TotalAssigned(p.Profiles) + Len(p.Filters) = n
    /\ \A i \in DOMAIN p.Filters : p.Filters[i] \in 0..(n - 1)
    /\ \A i \in DOMAIN p.Profiles :
          /\ p.Profiles[i].ComputePartition \in ValidComputePartitions
          /\ p.Profiles[i].MemoryPartition \in ValidMemoryPartitions
    /\ \A i, j \in DOMAIN p.Profiles :
          p.Profiles[i].MemoryPartition = p.Profiles[j].MemoryPartition

\* The slot of usable position k by prefix sums (spec section 4.4): the
\* assignment i whose counts before it are < k and up to it are >= k.
SpecSlot(p, k) ==
    LET upto(i) == TotalAssigned(SubSeq(p.Profiles, 1, i))
        i == CHOOSE i \in DOMAIN p.Profiles : upto(i - 1) < k /\ k <= upto(i)
    IN [compute |-> p.Profiles[i].ComputePartition,
        memory  |-> p.Profiles[i].MemoryPartition]

(***************************************************************************)
(* validateProfile accepts a profile with at least one assignment exactly *)
(* when the spec's rule does (the range check id+1 > total, the count     *)
(* equation and the per-assignment name and memory checks together).     *)
(***************************************************************************)
ValidatorMatchesSpec ==
    (verdict # "none" /\ input.Profiles # <<>>)
        => ((verdict = "ok") <=> SpecAccepts(input, gpus))

(***************************************************************************)
(* For an accepted profile, amdSMIHelper's nested i/j walk gives slot k   *)
(* the assignment the prefix sums of the counts select.                   *)
(***************************************************************************)
SlotsFollowAssignmentOrder ==
    verdict = "ok" =>
        /\ Len(TargetSlots(input)) = TotalAssigned(input.Profiles)
        /\ \A k \in 1..Len(TargetSlots(input)) : TargetSlots(input)[k] = SpecSlot(input, k)

(***************************************************************************)
(* An accepted profile never crashes the process: validateProfile reads   *)
(* profiles[0] without checking that there is an assignment.              *)
(***************************************************************************)
NoPanic == verdict # "IndexPanic"

=============================================================================
