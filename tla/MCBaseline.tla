----------------------------- MODULE MCBaseline ------------------------------
(* Reports on two links: one absent, unvisited or with any of the verdicts  *)
(* that differ in problem, health, status or redirection, the other absent, *)
(* ok or gone.                                                              *)
EXTENDS Baseline, TLC

CONSTANTS u1, u2

MCId == {"intro"}
MCEscape == [i \in MCId |-> i]

(* u1 is on two pages, one without a URL; u2 is on none and has no host.    *)
MCHost == u1 :> "a.example" @@ u2 :> ""
MCSources == u1 :> {"/p", ""} @@ u2 :> {}

Response(status, redirected) ==
    [error |-> "", status |-> status, html |-> TRUE, redirected |-> redirected]
Failure(error) == [error |-> error, status |-> 0, html |-> FALSE, redirected |-> FALSE]

Verdicts ==
    {LinkHealth(Response(200, FALSE), "intro", ids) : ids \in {{}, {"intro"}}}
      \cup {LinkHealth(Response(s, r), NoFragment, {}) : s \in {200, 404, 503}, r \in BOOLEAN}
      \cup {LinkHealth(Failure("timeout"), NoFragment, {})}

Ok == LinkHealth(Response(200, FALSE), NoFragment, {})
NotFound == LinkHealth(Response(404, FALSE), NoFragment, {})

MCReports ==
    {[links |-> l, truncated |-> \E u \in DOMAIN l : l[u] = NotFetched] :
        l \in {m \in UNION {[d -> Verdicts \cup {NotFetched}] : d \in SUBSET {u1, u2}} :
                 u2 \in DOMAIN m => m[u2] \in {Ok, NotFound}}}
=============================================================================
