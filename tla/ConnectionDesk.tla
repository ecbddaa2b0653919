--------------------------- MODULE ConnectionDesk ---------------------------
(***************************************************************************)
(* One browser tab over the wizard, the guard and the connections page: a  *)
(* user moves between them while handlers and requests of pages already    *)
(* left go on.                                                             *)
(***************************************************************************)
EXTENDS ConnectionsPage

vars == <<tableVars, wizardVars, listVars>>

\* A first run, or a setup completed earlier with an Odoo connection; the
\* connections page may have been seen before.
Init ==
    /\ completed \in BOOLEAN
    /\ \E g \in Configs["odoo"] :
          conns = IF completed THEN <<NewRow("odoo", g)>> ELSE <<>>
    /\ visit = 1
    /\ section = Untouched
    /\ calls = {}
    /\ presses = 0
    /\ lost = 0
    /\ made = [s \in Sections |-> {}]
    /\ path \in {"/setup", "/connections"}
    /\ checked = (path \in Excluded)
    /\ hasty = FALSE
    /\ step = 1
    /\ job = "none"
    /\ finishing = FALSE
    /\ reqs = IF path \in Excluded THEN {}
              ELSE {[kind |-> "status", visit |-> 1, answer |-> "none"]}
    /\ jobs = 0
    /\ fetch = Idle
    /\ cache \in {NoList} \cup {Len(conns) : p \in {path} \ Excluded}
    /\ stale = FALSE
    /\ opened = 0
    /\ missed = FALSE

User ==
    \/ \E p \in Paths : Navigate(p)
    \/ GoNext
    \/ GoBack
    \/ \E g \in Configs["odoo"] : StepOdoo(g)
    \/ \E g \in Configs["woocommerce"] : StepWooCommerce(g)
    \/ StepFirstJob
    \/ StepComplete

Requests(r) ==
    \/ ServerStatus(r)
    \/ Redirect(r)
    \/ CheckPasses(r)
    \/ CheckIgnored(r)
    \/ ServerFirstJob(r)
    \/ FirstJobAnswered(r)
    \/ ServerComplete(r)
    \/ Completed(r)

Chain(c) ==
    \/ ServerCreates(c)
    \/ ServerUpdates(c)
    \/ Saved(c)
    \/ ServerTests(c)
    \/ MethodNotAllowed(c)

Next ==
    \/ User /\ UNCHANGED listVars
    \/ \E r \in reqs : Requests(r) /\ UNCHANGED listVars
    \/ \E r \in reqs : (CheckFails(r) \/ StepFails(r)) /\ UNCHANGED listVars
    \/ \E c \in calls : Chain(c) /\ UNCHANGED <<wizardVars, listVars>>
    \/ \E c \in calls : RequestLost(c) /\ UNCHANGED <<wizardVars, listVars>>
    \/ \E c \in calls : TestAnswered(c)
    \/ \E s \in Sections : \E g \in Configs[s] : Test(s, g)
    \/ OpenPage
    \/ ServerLists
    \/ ListArrives
    \/ ListFails

\* Servers answer and the browser handles what it receives. Nothing is asked
\* of the user, and no failure is owed.
Fairness ==
    /\ WF_vars(\E r \in reqs : Requests(r) /\ UNCHANGED listVars)
    /\ WF_vars(\E c \in calls : Chain(c) /\ UNCHANGED <<wizardVars, listVars>>)
    /\ WF_vars(\E c \in calls : TestAnswered(c))
    /\ WF_vars(OpenPage) /\ WF_vars(ServerLists) /\ WF_vars(ListArrives)

Spec == Init /\ [][Next]_vars
FairSpec == Spec /\ Fairness

-----------------------------------------------------------------------------
(* Properties *)

\* What the currency step says is said of the stored credentials: when it
\* finds two currencies, they are those of the rows the wizard has saved, and
\* both rows are usable. The results are those of two handlers that run at the
\* same time and can be repeated with other credentials.
CurrencyOfStored ==
    OnWizard /\ StepCurrency # "not detected" =>
        \A s \in {"odoo", "woocommerce"} :
            LET row == conns[section[s].id]
            IN  /\ section[s].id \in Ids
                /\ row.status = "ACTIVE"
                /\ CurrencyOf[row.holds][row.config] = section[s].result

\* However often the user presses Save & Test in one visit of the wizard, a
\* section gets a second connection only when the answer to the first was
\* lost.
OneConnectionPerVisit == OnWizard => \A s \in Sections : Cardinality(made[s]) <= 1 + lost

\* When nothing is under way and nothing was lost, the Odoo form of the
\* connections page names the connection this visit has created and not an
\* older one, although a list fetched before the save may arrive after it (but
\* for a user whose save and test overtake the first list: that one is not
\* dropped, and its row replaces the new one for the next minute).
Quiet == calls = {} /\ fetch = Idle /\ lost = 0 /\ ~missed
KeepsNewRow ==
    OnPage /\ Quiet => \A i \in made["odoo"] : section["odoo"].id >= i

\* Once setup is completed, no answer to an older check takes the user back
\* to the wizard: leaving a page cancels its check. A user who leaves the
\* wizard before its last answer may still be sent back.
NoLateRedirect ==
    completed /\ ~hasty => \A r \in Pending("status", "first run") : ~Live(r)

\* On a first run a user who stops moving between pages is in the wizard, in
\* the end, unless a request has failed or the setup is completed: the guard
\* asks anew on every path and forgets only the answers to paths left.
FirstRunReachesWizard == <>[](OnWizard \/ completed \/ lost > 0)

=============================================================================
