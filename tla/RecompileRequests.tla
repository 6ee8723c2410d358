------------------------- MODULE RecompileRequests -------------------------
(***************************************************************************)
(* What a tab's compile worker promises its callers, with no channel in    *)
(* it: requests made while a compile is due or running are merged into one *)
(* later compile, a compile reads the text as it stands when it runs, and  *)
(* no compile starts once a stop has been asked for.                       *)
(***************************************************************************)
EXTENDS Naturals

CONSTANT MaxText    \* bound on the number of edits

VARIABLES
    text,           \* version of the buffer the world holds
    due,            \* a compile has been asked for and has not started
    stop,           \* a stop has been asked for
    phase,          \* "idle", "running" (text not read yet), "rendering", "stopped"
    compiled        \* version the latest compile read

vars == <<text, due, stop, phase, compiled>>

TypeOK ==
    /\ text \in Nat
    /\ due \in BOOLEAN
    /\ stop \in BOOLEAN
    /\ phase \in {"idle", "running", "rendering", "stopped"}
    /\ compiled \in Nat

Init ==
    /\ text = 0
    /\ due = TRUE
    /\ stop = FALSE
    /\ phase = "idle"
    /\ compiled = 0

Write ==
    /\ text < MaxText
    /\ text' = text + 1
    /\ UNCHANGED <<due, stop, phase, compiled>>

Request ==
    /\ ~stop
    /\ due' = TRUE
    /\ UNCHANGED <<text, stop, phase, compiled>>

Stop ==
    /\ ~stop
    /\ stop' = TRUE
    /\ UNCHANGED <<text, due, phase, compiled>>

Start ==
    /\ phase = "idle"
    /\ due
    /\ ~stop
    /\ phase' = "running"
    /\ due' = FALSE
    /\ UNCHANGED <<text, stop, compiled>>

Read ==
    /\ phase = "running"
    /\ compiled' = text
    /\ phase' = "rendering"
    /\ UNCHANGED <<text, due, stop>>

Finish ==
    /\ phase = "rendering"
    /\ phase' = "idle"
    /\ UNCHANGED <<text, due, stop, compiled>>

Exit ==
    /\ phase = "idle"
    /\ stop
    /\ phase' = "stopped"
    /\ due' = FALSE
    /\ UNCHANGED <<text, stop, compiled>>

Next ==
    \/ Write
    \/ Request
    \/ Stop
    \/ Start
    \/ Read
    \/ Finish
    \/ Exit

Spec ==
    /\ Init
    /\ [][Next]_vars
    /\ WF_vars(Start) /\ WF_vars(Read) /\ WF_vars(Finish) /\ WF_vars(Exit)

=============================================================================
