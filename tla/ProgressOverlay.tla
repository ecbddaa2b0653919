-------------------------- MODULE ProgressOverlay --------------------------
(***************************************************************************)
(* The overlay that shows a run's progress:                                *)
(* frontend/src/components/ui/SyncProgressOverlay.tsx over the progress    *)
(* state of frontend/src/hooks/useWebSocketSync.ts, of which the status    *)
(* decides what is shown. Effects run when the status they depend on       *)
(* changes.                                                                *)
(***************************************************************************)
EXTENDS Naturals

VARIABLES
    status,         \* progress.status
    dismissed,      \* the overlay was put away
    armed           \* the timer that puts it away is running

overlayVars == <<status, dismissed, armed>>

Statuses == {"idle", "running", "completed", "error"}

\* Bug form of Show: the effect's cleanup does not clear the timer.
ShowKeepsTimer(new) ==
    /\ status' = new
    /\ armed' = (armed \/ (new = "completed" /\ status # new))
    /\ dismissed' = (dismissed /\ ~(new = "running" /\ status # new))

\* setProgress, and the effects of a status that changes: the timer is set
\* on "completed" and cleared on leaving it, "running" shows the overlay.
Show(new) ==
    /\ status' = new
    /\ armed' = IF new = status THEN armed ELSE new = "completed"
    /\ dismissed' = (dismissed /\ ~(new = "running" /\ status # new))

Shown == ~dismissed /\ status # "idle"

\* handleDismiss
Dismiss ==
    /\ Shown
    /\ dismissed' = TRUE
    /\ UNCHANGED <<status, armed>>

\* Three seconds after the end.
AutoDismiss ==
    /\ armed
    /\ armed' = FALSE
    /\ dismissed' = TRUE
    /\ UNCHANGED status

\* The page is left: the timer is cleared, and the state is gone.
Leave ==
    /\ status' = "idle"
    /\ dismissed' = FALSE
    /\ armed' = FALSE

OverlayInit ==
    /\ status = "idle"
    /\ dismissed = FALSE
    /\ armed = FALSE
=============================================================================
