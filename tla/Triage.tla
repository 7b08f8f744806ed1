-------------------------------- MODULE Triage --------------------------------
(***************************************************************************)
(* The issues that the UI shows: internal/triage/triage.go builds them and *)
(* groups them when the server starts, internal/ui/static/app.js fills its *)
(* selects from the groups and filters the issues on its own.              *)
(*                                                                         *)
(* A report maps the URLs of its links to their verdicts (see Health).  A  *)
(* fingerprint is what is hashed, and a set of source pages stands for the *)
(* list: its first page, which the code looks at apart, is one of them.    *)
(***************************************************************************)
EXTENDS Health, FiniteSets

CONSTANTS
    NoReport,   \* there is no baseline
    Host,       \* [URL -> its host, "" when it has none]
    Sources     \* [URL -> set of the pages it is on, "" for a page without a URL]

URLs(report) == IF report = NoReport THEN {} ELSE DOMAIN report.links

Fingerprint_ByURL(url, problem) == [url |-> url, problem |-> "any"]
Fingerprint(url, problem) == [url |-> url, problem |-> problem]

IssueURLs(report) == {u \in URLs(report) : IsTriageIssue(report.links[u])}

Fingerprints(report) ==
    {Fingerprint(u, ProblemForLink(report.links[u])) : u \in IssueURLs(report)}

(* baselineStates: the state of each issue, "unknown" without a baseline. *)
State_ByURL(before, print) ==
    CASE before = NoReport -> "unknown"
      [] before # NoReport /\ print.url \in URLs(before) -> "existing"
      [] OTHER -> "new"
State(before, print) ==
    CASE before = NoReport -> "unknown"
      [] before # NoReport /\ print \in Fingerprints(before) -> "existing"
      [] OTHER -> "new"

(* Issues: the issue of each link that has one. *)
Issues(report, before) ==
    [u \in IssueURLs(report) |->
        LET problem == ProblemForLink(report.links[u])
            print   == Fingerprint(u, problem)
        IN  [fingerprint |-> print, problem |-> problem, state |-> State(before, print),
             severity |-> SeverityForLink(report.links[u]),
             host |-> Host[u], sources |-> Sources[u]]]

NormalizedHost(host) == IF host = "" THEN "(unknown host)" ELSE host
NormalizedSource(page) == IF page = "" THEN "(unknown source)" ELSE page

(* The groups that an issue counts in: GroupByProblem, GroupByTargetHost,  *)
(* GroupBySourcePage, GroupByState, and Summarize for the severity.        *)
GroupKeys_PagesOnly(issue) ==
    [problem |-> {issue.problem}, host |-> {NormalizedHost(issue.host)},
     source |-> {NormalizedSource(p) : p \in issue.sources},
     state |-> {issue.state}, severity |-> {issue.severity}]
GroupKeys(issue) ==
    [problem |-> {issue.problem}, host |-> {NormalizedHost(issue.host)},
     source |-> {NormalizedSource(p) : p \in IF issue.sources = {} THEN {""} ELSE issue.sources},
     state |-> {issue.state}, severity |-> {issue.severity}]

GroupCount(issues, dimension, key) ==
    Cardinality({u \in DOMAIN issues : key \in GroupKeys(issues[u])[dimension]})

(* The options of the selects of the page: those of problem, host and      *)
(* source are filled from the groups, the others are in index.html.        *)
Options(issues, dimension) ==
    CASE dimension = "severity" -> {"critical", "warning", "info"}
      [] dimension = "state" -> {"new", "existing", "unknown"}
      [] OTHER -> UNION {GroupKeys(issues[u])[dimension] : u \in DOMAIN issues}

Dimension == {"severity", "problem", "host", "source", "state"}

(* issueHasSource of app.js *)
HasSource(issue, page) ==
    IF issue.sources = {} THEN page = "(unknown source)"
    ELSE \E p \in issue.sources : NormalizedSource(p) = page

(* The selects of matchesTriageFilters; "" is the option "All". *)
MatchesSelects(issue, select) ==
    /\ select.severity # "" => issue.severity = select.severity
    /\ select.problem # "" => issue.problem = select.problem
    /\ select.host # "" => NormalizedHost(issue.host) = select.host
    /\ select.source # "" => HasSource(issue, select.source)
    /\ select.state # "" => issue.state = select.state
=============================================================================
