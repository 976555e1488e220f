---------------------------- MODULE ServiceUtils ----------------------------
(***************************************************************************)
(* pkg/partition/utils/utils.go: StopServiceHandler records each listed   *)
(* service's state in PreStateDB and stops the active ones;               *)
(* StartServiceHandler restarts the services PreStateDB recorded active   *)
(* and then empties PreStateDB.  Both talk to systemd over D-Bus.          *)
(*                                                                         *)
(* systemd is modelled by each unit's ActiveState and whether the unit is *)
(* loaded (GetUnit succeeds).  A stopped unit may be unloaded or stay     *)
(* loaded (UnloadedAfterStop).  systemd also finishes on its own a job   *)
(* in progress (activating, deactivating, reloading).  The handlers are   *)
(* library calls; a caller is a script of handler calls, each with its    *)
(* list of names.  A name is                                               *)
(* given with or without the ".service" suffix.                            *)
(***************************************************************************)
EXTENDS Integers, Sequences

CONSTANTS
    Services,          \* unit names, ".service" included
    Scripts,           \* sequences of [op |-> "stop" | "start", list |-> <<name, ...>>]
    UnloadedAfterStop, \* whether systemd unloads a unit it stopped: subset of BOOLEAN
    StartResults,      \* ActiveState after a StartUnit job: subset of {"active", "failed"}
    DbusCanFail        \* a D-Bus connection or call may fail

\* A name as the caller passes it: the service, and whether ".service" is
\* already there.
Names == [svc : Services, suffixed : BOOLEAN]

\* systemd's ActiveState values; the last three are jobs in progress.
ActiveStates == {"active", "inactive", "failed",
                 "activating", "deactivating", "reloading"}
\* A unit whose processes are running or about to run.
Up == ActiveStates \ {"inactive", "failed"}
\* CheckUnitStatus results; "" is also the zero ServicePreState's State.
Statuses == ActiveStates \cup {"not-loaded", ""}

ASSUME /\ UnloadedAfterStop \subseteq BOOLEAN /\ UnloadedAfterStop # {}
       /\ StartResults \subseteq {"active", "failed"} /\ StartResults # {}
       /\ DbusCanFail \in BOOLEAN

VARIABLES
    unit,        \* [Services -> ActiveState]
    loaded,      \* [Services -> BOOLEAN]: GetUnit finds the unit
    PreStateDB,  \* [Services -> Statuses]: State of the recorded ServicePreState
    script,      \* the caller's sequence of handler calls
    step,        \* the call in progress
    pos,         \* the handler's position in its list
    origin       \* ActiveState of every unit before the first call (history)

vars == <<unit, loaded, PreStateDB, script, step, pos, origin>>

\* PreStateDB = make(map[string]ServicePreState): no entry reads as "".
Init ==
    /\ loaded \in [Services -> BOOLEAN]
    /\ unit \in {u \in [Services -> ActiveStates] :
                   \A s \in Services : ~loaded[s] => u[s] = "inactive"}
    /\ PreStateDB = [s \in Services |-> ""]
    /\ script \in Scripts
    /\ step = 1
    /\ pos = 1
    /\ origin = unit

\* The loop adds ".service" to a name that lacks it.
Normalize(name) == name.svc

\* getSystemdConn and the D-Bus call of controlService succeed (TRUE) or not.
controlService == IF DbusCanFail THEN BOOLEAN ELSE {TRUE}

\* UnitExists: GetUnit succeeds; FALSE as well when the bus is unreachable.
UnitExists(s) == IF DbusCanFail THEN {loaded[s], FALSE} ELSE {loaded[s]}

\* CheckUnitStatus: "not-loaded" on NoSuchUnit, the ActiveState otherwise,
\* "" on any D-Bus error.
CheckUnitStatus(s) ==
    (IF loaded[s] THEN {unit[s]} ELSE {"not-loaded"})
        \cup (IF DbusCanFail THEN {""} ELSE {})

\* StopService: an error unless the unit exists; then StopUnit "replace".
StopService(s) ==
    \E exists \in UnitExists(s), ok \in controlService :
        IF ~exists \/ ~ok THEN UNCHANGED <<unit, loaded>>
        ELSE \E l \in UnloadedAfterStop :
               /\ unit' = [unit EXCEPT ![s] = "inactive"]
               /\ loaded' = [loaded EXCEPT ![s] = ~l]

\* StartService: an error ("service already exists") if the unit is
\* loaded; otherwise StartUnit "replace", which loads it.
StartService(s) ==
    \E exists \in UnitExists(s), ok \in controlService :
        IF exists \/ ~ok THEN UNCHANGED <<unit, loaded>>
        ELSE \E r \in StartResults :
               /\ unit' = [unit EXCEPT ![s] = r]
               /\ loaded' = [loaded EXCEPT ![s] = TRUE]

Call == script[step]
InCall(op) == step <= Len(script) /\ Call.op = op /\ pos <= Len(Call.list)

\* Mutant: the pre-state is recorded after the stop instead of before.
StopStepRecordAfterStop ==
    /\ InCall("stop")
    /\ LET svc == Normalize(Call.list[pos]) IN
         \E status \in CheckUnitStatus(svc) :
           /\ IF status = "active" THEN StopService(svc)
                                   ELSE UNCHANGED <<unit, loaded>>
           /\ PreStateDB' = [PreStateDB EXCEPT ![svc] =
                               IF status = "active" THEN "not-loaded" ELSE status]
    /\ pos' = pos + 1
    /\ UNCHANGED <<script, step, origin>>

\* One service of StopServiceHandler: record CheckUnitStatus in PreStateDB
\* and stop the service if it was active.  The validation afterwards only
\* logs.
StopStep ==
    /\ InCall("stop")
    /\ LET svc == Normalize(Call.list[pos]) IN
         \E status \in CheckUnitStatus(svc) :
           /\ PreStateDB' = [PreStateDB EXCEPT ![svc] = status]
           /\ IF status = "active" THEN StopService(svc)
                                   ELSE UNCHANGED <<unit, loaded>>
    /\ pos' = pos + 1
    /\ UNCHANGED <<script, step, origin>>

\* One service of StartServiceHandler: restart it only if its recorded
\* pre-state is "active".
StartStep ==
    /\ InCall("start")
    /\ LET svc == Normalize(Call.list[pos]) IN
         IF PreStateDB[svc] = "active" THEN StartService(svc)
                                       ELSE UNCHANGED <<unit, loaded>>
    /\ pos' = pos + 1
    /\ UNCHANGED <<PreStateDB, script, step, origin>>

\* The handler's loop is over; StartServiceHandler ends with
\* CleanupPreState, which empties the whole PreStateDB.
CallDone ==
    /\ step <= Len(script) /\ pos > Len(Call.list)
    /\ PreStateDB' = IF Call.op = "start" THEN [s \in Services |-> ""]
                                          ELSE PreStateDB
    /\ step' = step + 1
    /\ pos' = 1
    /\ UNCHANGED <<unit, loaded, script, origin>>

\* systemd, not the handlers: a job in progress finishes.  An activation
\* ends active or failed, a reload active, a deactivation inactive or
\* failed.
Settle ==
    \E s \in Services :
        /\ \/ /\ unit[s] \in {"activating", "reloading"}
              /\ unit' = [unit EXCEPT ![s] = "active"]
           \/ /\ unit[s] = "deactivating"
              /\ unit' = [unit EXCEPT ![s] = "inactive"]
           \/ /\ unit[s] \in {"activating", "deactivating"}
              /\ unit' = [unit EXCEPT ![s] = "failed"]
        /\ UNCHANGED <<loaded, PreStateDB, script, step, pos, origin>>

Next == StopStep \/ StartStep \/ CallDone \/ Settle

\* The caller's script ends; nothing else drives the handlers.
Spec == Init /\ [][Next]_vars /\ WF_vars(Next)
-----------------------------------------------------------------------------
(* Properties                                                              *)

\* The services the calls i of the script name.
NamedBy(I) == UNION {{Normalize(script[i].list[k]) : k \in 1..Len(script[i].list)} : i \in I}

\* The services the script's calls name.
Named == NamedBy(DOMAIN script)

\* The services named by the stop calls of the script before call i.
StoppedBefore(i) == NamedBy({j \in 1..(i - 1) : script[j].op = "stop"})

(***************************************************************************)
(* The stop half of the bracket quiesces: when the first start call       *)
(* begins, every service named by the earlier stop calls is down          *)
(* (inactive or failed), so the partition change does not run under a    *)
(* dependent service.  StopServiceHandler stops a service only when       *)
(* CheckUnitStatus read exactly "active".                                  *)
(***************************************************************************)
ServicesDownBetween ==
    (/\ step <= Len(script) /\ pos = 1 /\ Call.op = "start"
     /\ \A j \in 1..(step - 1) : script[j].op = "stop")
        => \A s \in StoppedBefore(step) : unit[s] \notin Up

(***************************************************************************)
(* The bracket restores: after the caller's last call, every named        *)
(* service that was active before the first call is active again.  This   *)
(* needs PreStateDB to hold the state read before the stop when the start *)
(* runs, and StartService to find the stopped unit unloaded.              *)
(***************************************************************************)
ServicesRestored ==
    step > Len(script) =>
        \A s \in Named : origin[s] = "active" => unit[s] = "active"
=============================================================================
