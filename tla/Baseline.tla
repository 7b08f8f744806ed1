------------------------------- MODULE Baseline ------------------------------
(***************************************************************************)
(* Successive checks of one site, each compared with the report of the     *)
(* check before (the artifact flow of docs/github-actions.md): Compare of  *)
(* internal/baseline/compare.go, Evaluate of internal/check/evaluate.go    *)
(* and, for the UI, the issues of internal/triage/triage.go.  A report     *)
(* also says whether the crawl was truncated.                              *)
(***************************************************************************)
EXTENDS Triage

CONSTANT Reports    \* the reports a scan may write

ASSUME ReportAssumption ==
    \A report \in Reports :
        /\ IsFiniteSet(DOMAIN report.links)
        /\ \A u \in DOMAIN report.links : IsVerdict(report.links[u])

Flags == {"dead", "non200", "truncated"}

VARIABLES
    policy,     \* the --fail-on-dead, --fail-on-non-200, --fail-on-truncated given, fixed
    mode,       \* --fail-on "all" or "new", fixed
    baseline,   \* the previous report, or NoReport
    current     \* the report of this check

vars == <<policy, mode, baseline, current>>

-----------------------------------------------------------------------------
(* internal/baseline/compare.go *)

(* KeyForLink: what identifies an issue. *)
Key_WithStatus(url, link) ==
    [url |-> url, problem |-> IssueProblem(link), status |-> link.status]
Key(url, link) == [url |-> url, problem |-> IssueProblem(link)]

(* issuesByKey *)
IssueKeys(report, flags) ==
    {Key(u, report.links[u]) : u \in {v \in URLs(report) : IncludeIssue(report.links[v], flags)}}

OKLinks(report) == {u \in URLs(report) : report.links[u].ok}

ResolvedKeys(before, after) == before \ after

Compare(before, after, flags) ==
    LET was == IssueKeys(before, flags)
        is  == IssueKeys(after, flags)
    IN  [new         |-> is \ was,
         existing    |-> is \cap was,
         resolved    |-> ResolvedKeys(was, is),
         unchangedOK |-> IF before = NoReport THEN OKLinks(after)
                         ELSE OKLinks(after) \cap OKLinks(before)]

-----------------------------------------------------------------------------
(* internal/check/evaluate.go; buildComparison of internal/cli/check.go     *)
(* always has a comparison at hand when the mode is "new".                  *)

Failures(report, flags) == {u \in URLs(report) : IncludeIssue(report.links[u], flags)}

(* The counts of the report's summary. *)
DeadLinks(report) == Cardinality({u \in URLs(report) : report.links[u].dead})
Non200Links(report) == Cardinality({u \in URLs(report) : report.links[u].non200})

PolicyFailureCount_Existing(before, after, flags, how) ==
    IF how = "new" THEN Cardinality(Compare(before, after, flags).existing)
    ELSE Cardinality(Failures(after, flags))
PolicyFailureCount(before, after, flags, how) ==
    IF how = "new" THEN Cardinality(Compare(before, after, flags).new)
    ELSE Cardinality(Failures(after, flags))

TruncatedFailed(report, flags) == "truncated" \in flags /\ report.truncated

Failed_LinksOnly(before, after, flags, how) == PolicyFailureCount(before, after, flags, how) > 0
Failed(before, after, flags, how) ==
    TruncatedFailed(after, flags) \/ PolicyFailureCount(before, after, flags, how) > 0

(* The causes that Err names; "failures" is its way out when it finds none. *)
ErrParts_IssuesOnly(before, after, flags, how) ==
    IF PolicyFailureCount(before, after, flags, how) = 0 THEN {}
    ELSE {IF how = "new" THEN "new_issues" ELSE "links"}
ErrParts(before, after, flags, how) ==
    LET count  == PolicyFailureCount(before, after, flags, how)
        issues == CASE how = "new" -> {c \in {"new_issues"} : count > 0}
                    [] how = "all" ->
                         {c \in {"dead_links"} : "dead" \in flags /\ DeadLinks(after) > 0}
                           \cup {c \in {"non_200_links"} :
                                   "non200" \in flags /\ Non200Links(after) > 0}
        parts  == issues \cup {c \in {"truncated"} : TruncatedFailed(after, flags)}
    IN  CASE ~Failed(before, after, flags, how) -> {}
          [] Failed(before, after, flags, how) /\ parts # {} -> parts
          [] OTHER -> {"failures"}

-----------------------------------------------------------------------------
Init ==
    /\ policy \in SUBSET Flags
    /\ mode \in {"all", "new"}
    /\ baseline = NoReport
    /\ current \in Reports

(* The next check: its baseline is the report at hand. *)
NextCheck ==
    /\ baseline' = current
    /\ current' \in Reports
    /\ UNCHANGED <<policy, mode>>

Next == NextCheck

Spec == Init /\ [][Next]_vars

Comparison == Compare(baseline, current, policy)

CheckFails == Failed(baseline, current, policy, mode)

-----------------------------------------------------------------------------
(* docs/usage.md: "fail only on enabled issues absent from the baseline".  *)
(* A check in mode "new" that passes leaves no enabled issue unexplained:  *)
(* each was there under the same URL and problem; one that fails points to *)
(* a link that had no such problem, or to an enabled truncation.           *)
NewModeIsExact ==
    mode = "new" =>
        LET had(u) == /\ u \in URLs(baseline)
                      /\ IncludeIssue(baseline.links[u], policy)
                      /\ baseline.links[u].problem = current.links[u].problem
        IN  CheckFails <=>
              \/ "truncated" \in policy /\ current.truncated
              \/ \E u \in URLs(current) :
                   /\ IncludeIssue(current.links[u], policy)
                   /\ ~had(u)

(* docs/reports-and-ui.md: filters by severity, problem, host, source page  *)
(* and baseline state.  The count that the server puts beside an option is  *)
(* the number of issues the page shows for it, and every issue is under an  *)
(* option of each select, whatever its URL, its pages or its state.         *)
OptionsCountTheirIssues ==
    LET issues == Issues(current, baseline)
        only(d, key) == [e \in Dimension |-> IF e = d THEN key ELSE ""]
        shown(d, key) == {u \in DOMAIN issues : MatchesSelects(issues[u], only(d, key))}
    IN  \A d \in Dimension :
          /\ \A key \in Options(issues, d) :
                GroupCount(issues, d, key) = Cardinality(shown(d, key))
          /\ UNION {shown(d, key) : key \in Options(issues, d)} = DOMAIN issues

(* A failing check always names a cause, and one that the policy enables:  *)
(* the counts of the summary, the failing links and the comparison never   *)
(* disagree, so the message never falls back to the bare "failures=N".     *)
ErrNamesCause ==
    LET parts == ErrParts(baseline, current, policy, mode) IN
    /\ CheckFails <=> parts # {}
    /\ "failures" \notin parts

(* The UI and the check agree on what is new: an issue that the check      *)
(* calls existing is existing in the UI, and when both kinds of issue are  *)
(* enabled the converse holds too.                                         *)
UIAgreesWithCheck ==
    baseline # NoReport =>
        /\ \A k \in Comparison.existing :
             State(baseline, [url |-> k.url, problem |-> k.problem]) = "existing"
        /\ {"dead", "non200"} \subseteq policy =>
             \A k \in Comparison.new :
                State(baseline, [url |-> k.url, problem |-> k.problem]) = "new"

(* docs/usage.md identifies an issue by its link and its problem.  From one *)
(* check to the next an issue that persists is never new again, whatever    *)
(* else changes about the link; one that does not, because the link is well *)
(* or gone or has another problem, is resolved.                             *)
NewOnce ==
    [][LET issue(report, u) == u \in URLs(report) /\ IncludeIssue(report.links[u], policy)
           new      == {k.url : k \in Comparison'.new}
           resolved == {k.url : k \in Comparison'.resolved}
       IN  \A u \in URLs(current) :
             issue(current, u) =>
               IF issue(current', u) /\ current'.links[u].problem = current.links[u].problem
               THEN u \notin new ELSE u \in resolved]_vars
=============================================================================
