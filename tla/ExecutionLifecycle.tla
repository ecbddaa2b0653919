------------------------- MODULE ExecutionLifecycle -------------------------
(***************************************************************************)
(* What a row of sync_executions promises its readers (the dashboard, the  *)
(* execution list of a job): it is created running, is worked on by one    *)
(* attempt at a time, its counters only grow and only while an attempt is  *)
(* under way, attempts may be lost and started over, and the outcome the   *)
(* last attempt reports is final.                                          *)
(***************************************************************************)
EXTENDS Integers

CONSTANT Execs

VARIABLES
    status,     \* status[e]: absent, running, completed or failed
    active,     \* active[e]: an attempt can still write the row
    count       \* count[e]: synced_count and error_count

vars == <<status, active, count>>

Grows(e) ==
    /\ count'[e] \in [synced: Nat, errors: Nat]
    /\ count'[e].synced >= count[e].synced
    /\ count'[e].errors >= count[e].errors
    /\ \A f \in Execs \ {e} : count'[f] = count[f]

Init ==
    /\ status = [e \in Execs |-> "absent"]
    /\ active = [e \in Execs |-> FALSE]
    /\ count = [e \in Execs |-> [synced |-> 0, errors |-> 0]]

Create(e) ==
    /\ status[e] = "absent"
    /\ status' = [status EXCEPT ![e] = "running"]
    /\ UNCHANGED <<active, count>>

Begin(e) ==
    /\ status[e] = "running" /\ ~active[e]
    /\ active' = [active EXCEPT ![e] = TRUE]
    /\ UNCHANGED <<status, count>>

Progress(e) ==
    /\ active[e]
    /\ Grows(e)
    /\ UNCHANGED <<status, active>>

\* The attempt is lost; another one may begin.
Lose(e) ==
    /\ active[e]
    /\ active' = [active EXCEPT ![e] = FALSE]
    /\ UNCHANGED <<status, count>>

End(e) ==
    /\ active[e] /\ status[e] = "running"
    /\ \E s \in {"completed", "failed"} : status' = [status EXCEPT ![e] = s]
    /\ active' = [active EXCEPT ![e] = FALSE]
    /\ Grows(e)

Next == \E e \in Execs : Create(e) \/ Begin(e) \/ Progress(e) \/ Lose(e) \/ End(e)

Spec == Init /\ [][Next]_vars
=============================================================================
