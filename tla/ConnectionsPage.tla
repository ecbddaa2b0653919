-------------------------- MODULE ConnectionsPage --------------------------
(***************************************************************************)
(* The connections page: three forms whose ids come from a list that is    *)
(* fetched, cached and fetched again after every test.                     *)
(*                                                                         *)
(* frontend/src/app/connections/page.tsx with the query cache of           *)
(* frontend/src/providers/QueryProvider.tsx. Rows are never                *)
(* removed here, so that a list is told by its length.                     *)
(***************************************************************************)
EXTENDS SetupWizard

VARIABLES
    fetch,          \* the list request: idle, asked, or the rows it brings
    cache,          \* rows of the list the cache holds, or none
    stale,          \* the cached list has been invalidated
    opened,         \* the last visit whose effects have run
    missed          \* history: an answer found the first list on its way

listVars == <<fetch, cache, stale, opened, missed>>

NoList == MaxConns + 1
Idle == MaxConns + 2
Asked == MaxConns + 3

OnPage == path = "/connections" /\ Rendered /\ opened = visit

\* The last row of a platform among the first n, as the effect's loop over
\* the list leaves it: a row of WordPress credentials is one of WooCommerce.
Of(platform, n) == {i \in 1..n : conns[i].platform = platform}
LastOf(platform, n) == CHOOSE i \in Of(platform, n) : \A j \in Of(platform, n) : j <= i

Populate(n) ==
    [s \in Sections |->
        IF s # "wordpress" /\ n # NoList /\ Of(s, n) # {}
        THEN [section[s] EXCEPT !.id = LastOf(s, n)]
        ELSE section[s]]

Ask == IF fetch = Idle THEN Asked ELSE fetch

\* The page appears: the cached list fills the forms. One that is missing or
\* invalidated is fetched, one that is there when it is a minute old.
OpenPage ==
    /\ path = "/connections"
    /\ Rendered
    /\ opened # visit
    /\ opened' = visit
    /\ section' = Populate(cache)
    /\ \/ fetch' = Ask
       \/ cache # NoList /\ ~stale /\ fetch' = fetch
    /\ UNCHANGED <<conns, visit, calls, presses, lost, made, wizardVars, cache, stale, missed>>

ServerLists ==
    /\ fetch = Asked
    /\ fetch' = Len(conns)
    /\ UNCHANGED <<tableVars, wizardVars, cache, stale, opened, missed>>

ListArrives ==
    /\ fetch \in 0..MaxConns
    /\ cache' = fetch
    /\ stale' = FALSE
    /\ fetch' = Idle
    /\ section' = IF OnPage THEN Populate(fetch) ELSE section
    /\ UNCHANGED <<conns, visit, calls, presses, lost, made, wizardVars, opened, missed>>

\* retry: false.
ListFails ==
    /\ fetch # Idle
    /\ lost < MaxLost
    /\ lost' = lost + 1
    /\ fetch' = Idle
    /\ UNCHANGED <<conns, visit, section, calls, presses, made, wizardVars, cache, stale, opened, missed>>

\* The button of a section card.
Offered(s) == OnPage /\ ~section[s].busy

Test(s, g) ==
    /\ Offered(s)
    /\ SaveAndTest("/connections", s, g)
    /\ UNCHANGED <<wizardVars, listVars>>

\* Bug form of Invalidate: the list is marked, but not fetched again.
InvalidateLater ==
    /\ stale' = TRUE
    /\ UNCHANGED <<fetch, cache, opened, missed>>

\* onSuccess invalidates the list: a page that shows it fetches it again and
\* drops an answer that is on its way, unless it is the first.
Invalidate ==
    /\ stale' = TRUE
    /\ IF OnPage /\ cache = NoList /\ fetch # Idle
       THEN missed' = TRUE /\ UNCHANGED fetch
       ELSE fetch' = (IF OnPage THEN Asked ELSE fetch) /\ UNCHANGED missed
    /\ UNCHANGED <<cache, opened>>

TestAnswered(c) ==
    /\ Answered(c)
    /\ IF c.page = "/connections" THEN Invalidate ELSE UNCHANGED listVars
    /\ UNCHANGED wizardVars
=============================================================================
