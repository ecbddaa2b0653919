-------------------------- MODULE ConnectionTable --------------------------
(***************************************************************************)
(* The connections table and the handler that two pages of the browser run *)
(* against it: save the credentials of a section, then test them.          *)
(*                                                                         *)
(* backend/api/connections.py and backend/setup/router.py, called from     *)
(* frontend/src/app/setup/page.tsx and frontend/src/app/connections/       *)
(* page.tsx. A handler is a chain of requests: it goes on when its page is *)
(* left, only its updates of the page's state are then without effect. A   *)
(* page that is opened anew starts from its initial state; `visit` tells   *)
(* one mounted page from the next.                                         *)
(*                                                                         *)
(* Every call is made by a user who is signed in.                          *)
(***************************************************************************)
EXTENDS Naturals, Sequences, FiniteSets

CONSTANTS
    Configs,        \* Configs[s]: credentials a user may type into a section
    CurrencyOf,     \* CurrencyOf[s][g]: what the system behind them reports
    MaxPresses,     \* bound: how often a button that sends a request is pressed
    MaxLost         \* bound: requests that fail, or whose answer is lost

\* The forms of the pages. The wizard has the first two.
Sections == {"odoo", "woocommerce", "wordpress"}
Unknown == "unknown"

ASSUME TableAssumption ==
    /\ MaxPresses \in Nat
    /\ MaxLost \in Nat
    /\ DOMAIN Configs = Sections
    /\ \A s \in Sections : CurrencyOf[s] \in [Configs[s] -> STRING]

VARIABLES
    conns,          \* the rows, in order of their ids
    visit,          \* number of the page that is mounted
    section,        \* section[s]: id, test result and pending state of a form
    calls,          \* save-and-test handlers that have not ended
    presses,        \* how often a button has been pressed
    lost,           \* requests that have failed
    made            \* history: rows this visit has created for a section

tableVars == <<conns, visit, section, calls, presses, lost, made>>

\* The WordPress credentials are stored as one more WooCommerce connection.
PlatformOf(s) == IF s = "wordpress" THEN "woocommerce" ELSE s

\* At most one row to begin with, and one for every press of a button.
MaxConns == MaxPresses + 1
Ids == 1..Len(conns)

\* The columns of a row: its platform, the form and the credentials it was saved
\* from, and its status.
NewRow(s, g) ==
    [platform |-> PlatformOf(s), holds |-> s, config |-> g, status |-> "ACTIVE"]

\* A test reads the keys its platform needs: the WordPress form has other
\* ones, so that its test raises KeyError and reports a failure.
TestResults(row) ==
    {"failed"} \cup
        IF row.holds = row.platform THEN {CurrencyOf[row.holds][row.config]} ELSE {}

Tested(row, result) ==
    [row EXCEPT !.status = IF result = "failed" THEN "DEGRADED" ELSE "ACTIVE"]

Blank == [id |-> 0, busy |-> FALSE, result |-> "none"]
Untouched == [s \in Sections |-> Blank]

\* setState of a component that is no longer mounted does nothing.
SetSection(c, new) ==
    section' = IF c.visit = visit THEN [section EXCEPT ![c.sec] = new] ELSE section

Press == presses < MaxPresses /\ presses' = presses + 1

-----------------------------------------------------------------------------
(* The handler *)

\* Bug form of SaveAndTest: a second press before the handler has ended.
SaveAndTestTwice(page, s, g) ==
    /\ Press
    /\ section' = [section EXCEPT ![s].busy = TRUE, ![s].result = "none"]
    /\ calls' = calls \cup
        {[visit |-> visit, page |-> page, sec |-> s, config |-> g, id |-> section[s].id,
          phase |-> IF section[s].id = 0 THEN "create" ELSE "update", result |-> "none"]}
    /\ UNCHANGED <<conns, visit, lost, made>>

\* The button is disabled while its handler runs; a form with an empty field
\* is refused before any request.
SaveAndTest(page, s, g) ==
    /\ ~section[s].busy
    /\ Press
    /\ section' = [section EXCEPT ![s].busy = TRUE, ![s].result = "none"]
    /\ calls' = calls \cup
        {[visit |-> visit, page |-> page, sec |-> s, config |-> g, id |-> section[s].id,
          phase |-> IF section[s].id = 0 THEN "create" ELSE "update", result |-> "none"]}
    /\ UNCHANGED <<conns, visit, lost, made>>

ServerCreates(c) ==
    /\ c.phase = "create"
    /\ conns' = Append(conns, NewRow(c.sec, c.config))
    /\ calls' = (calls \ {c}) \cup {[c EXCEPT !.phase = "saved", !.id = Len(conns) + 1]}
    /\ made' = IF c.visit = visit THEN [made EXCEPT ![c.sec] = @ \cup {Len(conns) + 1}] ELSE made
    /\ UNCHANGED <<visit, section, presses, lost>>

ServerUpdates(c) ==
    /\ c.phase = "update"
    /\ c.page = "/connections"
    /\ conns' = [conns EXCEPT ![c.id].holds = c.sec, ![c.id].config = c.config]
    /\ calls' = (calls \ {c}) \cup {[c EXCEPT !.phase = "updated"]}
    /\ UNCHANGED <<visit, section, presses, lost, made>>

\* Bug form of Saved: the id of the new connection is not kept.
SavedWithoutId(c) ==
    /\ c.phase \in {"saved", "updated"}
    /\ calls' = (calls \ {c}) \cup {[c EXCEPT !.phase = "test"]}
    /\ UNCHANGED <<conns, visit, section, presses, lost, made>>

\* The row is saved: its id becomes the section's, and the test is requested.
Saved(c) ==
    /\ c.phase \in {"saved", "updated"}
    /\ calls' = (calls \ {c}) \cup {[c EXCEPT !.phase = "test"]}
    /\ SetSection(c, [section[c.sec] EXCEPT
                         !.id = IF c.phase = "saved" THEN c.id ELSE @])
    /\ UNCHANGED <<conns, visit, presses, lost, made>>

ServerTests(c) ==
    /\ c.phase = "test"
    /\ \E r \in TestResults(conns[c.id]) :
        /\ conns' = [conns EXCEPT ![c.id] = Tested(@, r)]
        /\ calls' = (calls \ {c}) \cup {[c EXCEPT !.phase = "tested", !.result = r]}
    /\ UNCHANGED <<visit, section, presses, lost, made>>

Answered(c) ==
    /\ c.phase = "tested"
    /\ calls' = calls \ {c}
    /\ SetSection(c, [section[c.sec] EXCEPT !.busy = FALSE, !.result = c.result])
    /\ UNCHANGED <<conns, visit, presses, lost, made>>

\* The catch branch: the chain ends at the request that failed.
Abandon(c) ==
    /\ calls' = calls \ {c}
    /\ SetSection(c, [section[c.sec] EXCEPT !.busy = FALSE, !.result = "failed"])
    /\ UNCHANGED <<conns, visit, presses, made>>

\* A request fails, or is carried out and its answer does not arrive.
RequestLost(c) ==
    /\ lost < MaxLost
    /\ lost' = lost + 1
    /\ Abandon(c)

\* The wizard updates with POST /api/connections/{id}, which no route serves.
MethodNotAllowed(c) ==
    /\ c.phase = "update"
    /\ c.page = "/setup"
    /\ Abandon(c)
    /\ UNCHANGED lost
=============================================================================
