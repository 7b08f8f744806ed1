------------------------------- MODULE Health --------------------------------
(***************************************************************************)
(* What a fetch result makes of a link, three times over: in the report    *)
(* (linkProblemAndHealth of crawler.go), in the baseline comparison        *)
(* (issueProblem and includeIssue of baseline/compare.go) and in the UI    *)
(* (ProblemForLink and SeverityForLink of triage/triage.go).               *)
(*                                                                         *)
(* A link of the report is a record                                        *)
(*   [problem, dead, non200, ok, status, redirected];                      *)
(* status is 0 when no response was received, and redirected is isRedirect *)
(* of triage.go: the final URL is not the fetched one.                     *)
(***************************************************************************)
EXTENDS Naturals

CONSTANTS
    Id,          \* fragments as pages write them, in hrefs and in id attributes
    Escape,      \* [Id -> Id]: net/url's percent-escaping of a fragment
    NoFragment   \* the fragment of a link without one

ASSUME IdAssumption ==
    /\ Escape \in [Id -> Id] /\ \A i \in Id : Escape[Escape[i]] = Escape[i]
    /\ NoFragment \notin Id

(* The text of a result without error and of a link without problem. *)
NoProblem == ""

Errors == {"network_error", "timeout", "tls_error", "too_many_redirects",
           "response_too_large", "parsing_error"}

(* parser.go takes the fragment of a link from the normalized URL, which   *)
(* net/url has escaped; ids are kept as the page writes them.              *)
LinkFragment(written) ==
    IF written = NoFragment THEN NoFragment ELSE Escape[written]

Gone_Only404(status) == status = 404
Gone(status) == status \in {404, 410}

FragmentMissing_AnyPage(fetch, fragment, ids) ==
    fragment # NoFragment /\ fragment \notin ids
FragmentMissing(fetch, fragment, ids) ==
    fragment # NoFragment /\ fetch.html /\ fragment \notin ids

(* linkProblemAndHealth, of a link with the given fragment and the ids of  *)
(* the page it leads to; an error is its own problem (normalizeProblem).   *)
LinkHealth(fetch, fragment, ids) ==
    LET verdict(problem, dead, non200) ==
          [problem |-> problem, dead |-> dead, non200 |-> non200, ok |-> problem = NoProblem,
           status |-> fetch.status, redirected |-> fetch.redirected]
    IN  CASE fetch.error # NoProblem ->
               verdict(fetch.error, TRUE, fetch.status \notin {0, 200})
          [] fetch.error = NoProblem /\ fetch.status # 200 ->
               verdict("http_status", Gone(fetch.status), TRUE)
          [] fetch.error = NoProblem /\ fetch.status = 200 ->
               IF FragmentMissing(fetch, fragment, ids)
               THEN verdict("missing_fragment", TRUE, FALSE)
               ELSE verdict(NoProblem, FALSE, FALSE)

(* The link of a target that the crawl did not fetch has no verdict.       *)
NotFetched == [problem |-> NoProblem, dead |-> FALSE, non200 |-> FALSE, ok |-> FALSE,
               status |-> 0, redirected |-> FALSE]

(* What a report may say of a link: nothing, or the verdict on some result *)
(* of a fetch, which has a status unless it has an error.                  *)
IsVerdict(link) ==
    \/ link = NotFetched
    \/ \E error \in Errors \cup {NoProblem}, html \in BOOLEAN,
          fragment \in Id \cup {NoFragment}, ids \in SUBSET Id :
         LET fetch == [error |-> error, status |-> link.status, html |-> html,
                       redirected |-> link.redirected]
         IN  /\ error = NoProblem => link.status # 0
             /\ link = LinkHealth(fetch, fragment, ids)

-----------------------------------------------------------------------------
(* baseline/compare.go *)

IncludeIssue(link, policy) ==
    ("dead" \in policy /\ link.dead) \/ ("non200" \in policy /\ link.non200)

IssueProblem(link) ==
    CASE link.problem # NoProblem -> link.problem
      [] link.problem = NoProblem /\ link.dead -> "dead"
      [] link.problem = NoProblem /\ ~link.dead /\ link.non200 -> "http_status"
      [] OTHER -> "failed"

-----------------------------------------------------------------------------
(* triage/triage.go *)

IsTriageIssue(link) == link.dead \/ link.non200 \/ link.redirected

(* A redirect gives way to the problem that the link has, if any. *)
ProblemForLink_RedirectFirst(link) ==
    CASE link.redirected -> "redirect"
      [] ~link.redirected /\ link.problem # NoProblem -> link.problem
      [] OTHER -> "unknown"
ProblemForLink(link) ==
    CASE link.problem # NoProblem -> link.problem
      [] link.problem = NoProblem /\ link.redirected -> "redirect"
      [] link.problem = NoProblem /\ ~link.redirected /\ link.dead -> "dead"
      [] link.problem = NoProblem /\ ~link.redirected /\ ~link.dead /\ link.non200 -> "http_status"
      [] OTHER -> "unknown"

SeverityForLink(link) ==
    CASE link.problem = "missing_fragment" \/ Gone(link.status) \/ link.dead -> "critical"
      [] ~link.dead /\ ~Gone(link.status) /\ link.non200 -> "warning"
      [] OTHER -> "info"
=============================================================================
