------------------------------ MODULE CrawlSpec ------------------------------
(***************************************************************************)
(* What a crawl promises, with no workers, channels, queue order or counts *)
(* in sight: one target of the frontier is checked at a time, until the    *)
(* frontier is empty or MaxPages targets were checked.                     *)
(***************************************************************************)
EXTENDS Naturals, FiniteSets

CONSTANTS Target, Entry, MaxPages

VARIABLES
    site,      \* rigid: what each target leads to, the seeds, the scopes
    scope,     \* the targets the crawl may check besides the entry
    checked,   \* the targets with a fetch in the report
    frontier,  \* the targets discovered and not checked
    status     \* "fresh", "entered", "seeded", "crawling", "done", "failed"

vars == <<site, scope, checked, frontier, status>>

Site == [leadsTo   : [Target -> SUBSET Target],
         sitemap   : SUBSET Target,
         localRoot : SUBSET Target,
         scope     : SUBSET Target,   \* by the final URL of the entry
         fallback  : SUBSET Target]   \* by the entry URL itself

Init ==
    /\ site \in Site
    /\ scope = {} /\ checked = {} /\ frontier = {}
    /\ status = "fresh"

(* The entry is checked first, in scope or not, and settles the scope. *)
CheckEntry ==
    /\ status = "fresh"
    /\ checked' = {Entry}
    /\ \/ scope' = site.scope /\ frontier' = (site.leadsTo[Entry] \cap site.scope) \ {Entry}
       \/ scope' \in {site.scope, site.fallback} /\ frontier' = {}
    /\ status' = "entered"
    /\ UNCHANGED site

Seed(seeds) ==
    /\ frontier' = (frontier \cup (seeds \cap scope)) \ checked
    /\ UNCHANGED <<site, scope, checked>>

SeedSitemap == status = "entered" /\ status' = "seeded" /\ Seed(site.sitemap)

SeedLocalRoot == status = "seeded" /\ status' = "crawling" /\ Seed(site.localRoot)

(* Check one target of the frontier: what it leads to joins the frontier,  *)
(* or nothing does when its fetch was cut short.                           *)
Check(u) ==
    /\ status = "crawling" /\ u \in frontier
    /\ Cardinality(checked) < MaxPages
    /\ checked' = checked \cup {u}
    /\ \E found \in {site.leadsTo[u] \cap scope, {}} :
         frontier' = (frontier \cup found) \ checked'
    /\ UNCHANGED <<site, scope, status>>

Finish ==
    /\ status = "crawling"
    /\ frontier = {} \/ Cardinality(checked) >= MaxPages
    /\ status' = "done"
    /\ UNCHANGED <<site, scope, checked, frontier>>

Fail ==
    /\ status \notin {"done", "failed"}
    /\ status' = "failed"
    /\ UNCHANGED <<site, scope, checked, frontier>>

Next == CheckEntry \/ SeedSitemap \/ SeedLocalRoot \/ (\E u \in Target : Check(u))
          \/ Finish \/ Fail

Spec == Init /\ [][Next]_vars
=============================================================================
