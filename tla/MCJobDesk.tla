----------------------------- MODULE MCJobDesk -----------------------------
(* One job to begin with, one that can be made, one other client. *)
EXTENDS JobDesk

\* A job of every schedule, disabled without one; one has no mappings, and one
\* with an interval has mappings that are switched off.
MappingsOf(s) ==
    CASE s = "bad cron" -> {"none"}
      [] s = "interval" -> {"valid", "muted"}
      [] OTHER -> {"valid"}
Kinds ==
    UNION {{[enabled |-> s # "none", direction |-> d, filters |-> f, mappings |-> m, schedule |-> s] :
               d \in Directions, f \in Filters \ {NoFilters}, m \in MappingsOf(s)} : s \in Schedules}
=============================================================================
