----------------------- MODULE SingleFlightCoordinator -----------------------
(***************************************************************************)
(* What the trigger path of the config manager promises, without watchers,*)
(* contexts, WaitGroups or the engine: requests enter a one-slot mailbox, *)
(* the coordinator takes one at a time and hands it to at most one        *)
(* running attempt, and every attempt ends.                                *)
(*                                                                         *)
(* The mailbox keeps the request it already holds and refuses a new one   *)
(* (the behaviour of TriggerRetryLoop); the spec's latest-wins mailbox is  *)
(* the property LatestProfileApplied of ConfigManager, which fails.       *)
(***************************************************************************)
EXTENDS Sequences

CONSTANTS
    Profiles,   \* the requests
    None        \* no request

VARIABLES
    box,        \* the mailbox: <<>> or <<request>>
    held,       \* the request the coordinator took and has not started yet
    run         \* the request of the running attempt, or None

vars == <<box, held, run>>

Init ==
    /\ box \in {<<>>} \cup {<<p>> : p \in Profiles}
    /\ held = None
    /\ run = None

\* A source offers p; a full mailbox keeps what it has.
Offer(p) ==
    /\ box' = IF box = <<>> THEN <<p>> ELSE box
    /\ UNCHANGED <<held, run>>

\* The coordinator takes the request (and asks the running attempt to stop).
Take ==
    /\ held = None /\ box # <<>>
    /\ held' = Head(box)
    /\ box' = <<>>
    /\ UNCHANGED run

\* Once no attempt runs, the taken request starts one.
Start ==
    /\ held # None /\ run = None
    /\ run' = held
    /\ held' = None
    /\ UNCHANGED box

\* The running attempt ends: success, a fatal error, cancellation or expiry.
End ==
    /\ run # None
    /\ run' = None
    /\ UNCHANGED <<box, held>>

Next == (\E p \in Profiles : Offer(p)) \/ Take \/ Start \/ End

\* The coordinator keeps taking and starting, and every attempt ends.
Spec == Init /\ [][Next]_vars /\ WF_vars(Take) /\ WF_vars(Start) /\ WF_vars(End)
=============================================================================
