----------------------------- MODULE ObserverRunner -----------------------------
(* The polling loop that every observer of the SDK inherits: tick, sleep, tick  *)
(* again, until the state says otherwise.  stop() and start() look at the state *)
(* only and know nothing of the timer a loop has left behind, so several loops  *)
(* may run at once.  A step of a loop is a callback of the event loop; what a   *)
(* tick does is left to the observers that EXTEND or INSTANCE this module.      *)
EXTENDS Naturals, FiniteSets

CONSTANT Loops      \* identities for the loops that may run at one time

VARIABLES
    state,          \* "stop", "stopping" or "running"
    loop,           \* each loop: "none", in its "tick", or asleep on its "timer"
    finalizing      \* whether a call of finalizeAndStop waits

runner == <<state, loop, finalizing>>

RunnerType ==
    /\ state \in {"stop", "stopping", "running"}
    /\ loop \in [Loops -> {"none", "tick", "timer"}]
    /\ finalizing \in BOOLEAN

RunnerInit == state = "stop" /\ loop = [l \in Loops |-> "none"] /\ finalizing = FALSE

Live == {l \in Loops : loop[l] # "none"}

(* One of the identities that are free; it does not matter which.               *)
FreeLoop == CHOOSE l \in Loops : loop[l] = "none"

(* start(): the first tick begins at once.  Refused unless the state is "stop". *)
StartLoop(l) ==
    /\ state = "stop" /\ loop[l] = "none"
    /\ state' = "running" /\ loop' = [loop EXCEPT ![l] = "tick"]
    /\ UNCHANGED finalizing

StopRunner == state' = "stop" /\ UNCHANGED <<loop, finalizing>>

(* Mutant: the timer does not look at the state.                                *)
TimerAlwaysFires(l) ==
    /\ loop[l] = "timer"
    /\ loop' = [loop EXCEPT ![l] = "tick"]
    /\ UNCHANGED <<state, finalizing>>

TimerFires(l) ==
    /\ loop[l] = "timer"
    /\ loop' = [loop EXCEPT ![l] = IF state = "stop" THEN "none" ELSE "tick"]
    /\ UNCHANGED <<state, finalizing>>

(* The timer is set even if stop() was called during the tick.                  *)
TickEnds(l) ==
    /\ loop[l] = "tick"
    /\ IF state = "stopping"
         THEN state' = "stop" /\ loop' = [loop EXCEPT ![l] = "none"]
         ELSE loop' = [loop EXCEPT ![l] = "timer"] /\ UNCHANGED state
    /\ UNCHANGED finalizing

(* The rejection of a tick ends its loop and leaves the state as it is.         *)
TickThrows(l) ==
    /\ loop[l] = "tick"
    /\ loop' = [loop EXCEPT ![l] = "none"]
    /\ UNCHANGED <<state, finalizing>>

(* finalizeAndStop sets the state whether or not a loop will see it, and polls. *)
Finalize ==
    /\ ~finalizing
    /\ state' = "stopping" /\ finalizing' = TRUE
    /\ UNCHANGED loop

FinalizeReturns ==
    /\ finalizing /\ state = "stop"
    /\ finalizing' = FALSE
    /\ UNCHANGED <<state, loop>>
================================================================================
