-------------------------- MODULE MCConfigManager --------------------------
(***************************************************************************)
(* A node with two GPUs, two profile names and configmap contents; the   *)
(* cfgs give the edit, session and restart bounds.                        *)
(***************************************************************************)
EXTENDS ConfigManager

\* All GPUs in SPX/NPS1.
ProfAll == [Filters  |-> <<>>,
            Profiles |-> <<[ComputePartition |-> "SPX", MemoryPartition |-> "NPS1",
                            NumGPUsAssigned |-> 2]>>]
\* GPU 1 skipped, GPU 0 in CPX/NPS2.
ProfSkip == [Filters  |-> <<1>>,
             Profiles |-> <<[ComputePartition |-> "CPX", MemoryPartition |-> "NPS2",
                             NumGPUsAssigned |-> 1]>>]
\* Mixed memory types: rejected by validateProfile.
ProfMixed == [Filters  |-> <<>>,
              Profiles |-> <<[ComputePartition |-> "CPX", MemoryPartition |-> "NPS1",
                              NumGPUsAssigned |-> 1],
                             [ComputePartition |-> "SPX", MemoryPartition |-> "NPS2",
                              NumGPUsAssigned |-> 1]>>]

MCConfigs == { [n \in {"p1", "p2"} |-> IF n = "p1" THEN ProfAll ELSE ProfSkip],
               [n \in {"p1", "p2"} |-> IF n = "p1" THEN ProfAll ELSE ProfMixed],
               ConfigMissing }

\* A configmap that stays as it is: p2 fails validation.
MCConfigsMixed == { [n \in {"p1", "p2"} |-> IF n = "p1" THEN ProfAll ELSE ProfMixed] }

\* A configmap that stays as it is: both profiles validate.
MCConfigsFixed == { [n \in {"p1", "p2"} |-> IF n = "p1" THEN ProfAll ELSE ProfSkip] }
=============================================================================
