---------------------------- MODULE BaselineProofs ----------------------------
(***************************************************************************)
(* Proofs about successive checks of a site, for reports on any number of  *)
(* links: what counts as new, what the check says, and that the UI says    *)
(* the same.                                                               *)
(***************************************************************************)
EXTENDS Baseline, FiniteSetTheorems, TLAPS

-----------------------------------------------------------------------------
(* Verdicts and their names *)

LEMMA NamesDiffer ==
    /\ NoProblem \notin Errors
    /\ NoProblem \notin {"http_status", "missing_fragment", "redirect", "unknown"}
    /\ "redirect" \notin Errors \cup {NoProblem, "http_status", "missing_fragment"}
  BY Zenon DEF NoProblem, Errors

(* A link has a problem exactly when it is dead or non-200; a redirect is  *)
(* no problem.                                                             *)
LEMMA VerdictFacts ==
    ASSUME NEW link, IsVerdict(link)
    PROVE  /\ link.dead \in BOOLEAN /\ link.non200 \in BOOLEAN
           /\ link.dead \/ link.non200 <=> link.problem # NoProblem
           /\ link.problem # "redirect"
  <1>1. CASE link = NotFetched
    BY <1>1, NamesDiffer DEF NotFetched
  <1>2. CASE link # NotFetched
    <2>1. PICK error \in Errors \cup {NoProblem}, html \in BOOLEAN,
               fragment \in Id \cup {NoFragment}, ids \in SUBSET Id :
            LET fetch == [error |-> error, status |-> link.status, html |-> html,
                          redirected |-> link.redirected]
            IN  /\ error = NoProblem => link.status # 0
                /\ link = LinkHealth(fetch, fragment, ids)
      BY <1>2 DEF IsVerdict
    <2> DEFINE fetch == [error |-> error, status |-> link.status, html |-> html,
                         redirected |-> link.redirected]
    <2>2. fetch.error = error /\ link = LinkHealth(fetch, fragment, ids)
      BY <2>1
    <2> HIDE DEF fetch
    <2>3. CASE error # NoProblem
      <3>1. link.problem = error /\ link.dead = TRUE /\ link.non200 = (fetch.status \notin {0, 200})
        BY <2>2, <2>3, NamesDiffer DEF LinkHealth
      <3>2. link.dead \in BOOLEAN /\ link.non200 \in BOOLEAN /\ link.dead
        BY <3>1
      <3> QED BY <2>3, <3>1, <3>2, NamesDiffer
    <2>4. CASE error = NoProblem /\ fetch.status # 200
      <3>1. /\ link.problem = "http_status" /\ link.dead = Gone(fetch.status)
            /\ link.non200 = TRUE
        BY <2>2, <2>4, NamesDiffer DEF LinkHealth
      <3>2. Gone(fetch.status) \in BOOLEAN
        BY DEF Gone
      <3> QED BY <3>1, <3>2, NamesDiffer
    <2>5. CASE error = NoProblem /\ fetch.status = 200
      <3>1. CASE FragmentMissing(fetch, fragment, ids)
        <4>1. link.problem = "missing_fragment" /\ link.dead = TRUE /\ link.non200 = FALSE
          BY <2>2, <2>5, <3>1, NamesDiffer DEF LinkHealth
        <4> QED BY <4>1, NamesDiffer
      <3>2. CASE ~FragmentMissing(fetch, fragment, ids)
        <4>1. link.problem = NoProblem /\ link.dead = FALSE /\ link.non200 = FALSE
          BY <2>2, <2>5, <3>2, NamesDiffer DEF LinkHealth
        <4> QED BY <4>1, NamesDiffer
      <3> QED BY <3>1, <3>2
    <2> QED BY <2>3, <2>4, <2>5
  <1> QED BY <1>1, <1>2

(* The comparison and the UI name a failure by its problem; what the UI    *)
(* adds is a redirect.                                                     *)
LEMMA NameOfFailure ==
    ASSUME NEW link, IsVerdict(link), link.dead \/ link.non200
    PROVE  /\ IsTriageIssue(link)
           /\ ProblemForLink(link) = link.problem /\ IssueProblem(link) = link.problem
  BY VerdictFacts DEF IsTriageIssue, ProblemForLink, IssueProblem

LEMMA NameOfIssue ==
    ASSUME NEW link, IsVerdict(link), IsTriageIssue(link)
    PROVE  /\ ProblemForLink(link) = IF link.dead \/ link.non200 THEN link.problem ELSE "redirect"
           /\ ProblemForLink(link) # ""
  <1>1. CASE link.dead \/ link.non200
    BY <1>1, NameOfFailure, VerdictFacts DEF NoProblem
  <1>2. CASE ~(link.dead \/ link.non200)
    <2>1. link.problem = NoProblem /\ link.redirected
      BY <1>2, VerdictFacts DEF IsTriageIssue
    <2>2. ProblemForLink(link) = "redirect"
      BY <2>1 DEF ProblemForLink
    <2> QED BY <1>2, <2>2
  <1> QED BY <1>1, <1>2

LEMMA SeverityType == \A link : SeverityForLink(link) \in {"critical", "warning", "info"}
  BY DEF SeverityForLink

-----------------------------------------------------------------------------
(* Reports and their issues *)

LEMMA ReportFacts ==
    ASSUME NEW report \in Reports \cup {NoReport}
    PROVE  /\ IsFiniteSet(URLs(report))
           /\ \A u \in URLs(report) : IsVerdict(report.links[u])
  <1>1. CASE report = NoReport
    BY <1>1, FS_EmptySet DEF URLs
  <1>2. CASE report # NoReport
    BY <1>2, ReportAssumption DEF URLs
  <1> QED BY <1>1, <1>2

(* An issue of the report, as the options of a check enable it. *)
Enabled(report, u, flags) == u \in URLs(report) /\ IncludeIssue(report.links[u], flags)

(* An enabled issue is a failure, so its key is its URL and its problem. *)
LEMMA EnabledIsFailure ==
    ASSUME NEW report \in Reports \cup {NoReport}, NEW flags, NEW u, Enabled(report, u, flags)
    PROVE  LET link == report.links[u] IN
           /\ IsVerdict(link) /\ (link.dead \/ link.non200)
           /\ IsTriageIssue(link)
           /\ ProblemForLink(link) = link.problem
           /\ Key(u, link) = [url |-> u, problem |-> link.problem]
  <1> DEFINE link == report.links[u]
  <1>1. IsVerdict(link) /\ (link.dead \/ link.non200)
    BY ReportFacts DEF Enabled, IncludeIssue
  <1> QED BY <1>1, NameOfFailure DEF Key

(* The keys of a report are those of its enabled issues. *)
LEMMA KeysOfIssues ==
    ASSUME NEW report \in Reports \cup {NoReport}, NEW flags, NEW u, NEW problem
    PROVE  [url |-> u, problem |-> problem] \in IssueKeys(report, flags)
             <=> Enabled(report, u, flags) /\ report.links[u].problem = problem
  <1>1. [url |-> u, problem |-> problem] \in IssueKeys(report, flags)
          <=> \E v : Enabled(report, v, flags)
                       /\ Key(v, report.links[v]) = [url |-> u, problem |-> problem]
    BY DEF IssueKeys, Enabled
  <1>2. \A v : Enabled(report, v, flags) =>
                 Key(v, report.links[v]) = [url |-> v, problem |-> report.links[v].problem]
    BY EnabledIsFailure
  <1>3. \A v, p : [url |-> v, problem |-> p] = [url |-> u, problem |-> problem]
                    <=> v = u /\ p = problem
    OBVIOUS
  <1>4. [url |-> u, problem |-> problem] \in IssueKeys(report, flags)
          <=> \E v : /\ Enabled(report, v, flags)
                     /\ [url |-> v, problem |-> report.links[v].problem]
                          = [url |-> u, problem |-> problem]
    BY <1>1, <1>2
  <1> QED BY <1>3, <1>4

(* Every key is a URL with a problem. *)
LEMMA KeyShape ==
    ASSUME NEW report \in Reports \cup {NoReport}, NEW flags, NEW k \in IssueKeys(report, flags)
    PROVE  /\ k = [url |-> k.url, problem |-> k.problem]
           /\ Enabled(report, k.url, flags) /\ report.links[k.url].problem = k.problem
  <1>1. PICK u : Enabled(report, u, flags) /\ k = Key(u, report.links[u])
    BY DEF IssueKeys, Enabled
  <1>2. k = [url |-> u, problem |-> report.links[u].problem]
    BY <1>1, EnabledIsFailure
  <1> QED BY <1>1, <1>2

(* Counting: a count is positive when there is something to count. *)
LEMMA PositiveCount == \A S : IsFiniteSet(S) => (Cardinality(S) > 0 <=> S # {})
  BY FS_EmptySet, FS_CardinalityType

LEMMA SelectedAreFinite ==
    ASSUME NEW report \in Reports \cup {NoReport}, NEW flags
    PROVE  /\ IsFiniteSet(Failures(report, flags)) /\ IsFiniteSet(IssueKeys(report, flags))
           /\ IsFiniteSet({u \in URLs(report) : report.links[u].dead})
           /\ IsFiniteSet({u \in URLs(report) : report.links[u].non200})
  <1>1. IsFiniteSet(Failures(report, flags))
    BY ReportFacts, FS_Subset DEF Failures
  <1> DEFINE key == [u \in Failures(report, flags) |-> Key(u, report.links[u])]
  <1>2. key \in Surjection(Failures(report, flags), IssueKeys(report, flags))
    <2>1. IssueKeys(report, flags) = {Key(u, report.links[u]) : u \in Failures(report, flags)}
      BY DEF IssueKeys, Failures
    <2> QED BY <2>1 DEF Surjection
  <1>3. IsFiniteSet(IssueKeys(report, flags))
    BY <1>1, <1>2, FS_Surjection
  <1> QED BY <1>1, <1>3, ReportFacts, FS_Subset

(* The failures that a policy counts, without the cardinalities. *)
LEMMA FailuresCounted ==
    ASSUME NEW before \in Reports \cup {NoReport}, NEW after \in Reports \cup {NoReport},
           NEW flags, NEW how \in {"all", "new"}
    PROVE  PolicyFailureCount(before, after, flags, how) > 0
             <=> \E u : /\ Enabled(after, u, flags)
                        /\ how = "new" =>
                             ~(/\ Enabled(before, u, flags)
                               /\ before.links[u].problem = after.links[u].problem)
  <1>1. CASE how = "all"
    <2>1. PolicyFailureCount(before, after, flags, how) = Cardinality(Failures(after, flags))
      BY <1>1 DEF PolicyFailureCount
    <2>2. Failures(after, flags) # {} <=> \E u : Enabled(after, u, flags)
      BY DEF Failures, Enabled
    <2> QED BY <1>1, <2>1, <2>2, SelectedAreFinite, PositiveCount
  <1>2. CASE how = "new"
    <2> DEFINE new == IssueKeys(after, flags) \ IssueKeys(before, flags)
    <2>1. PolicyFailureCount(before, after, flags, how) = Cardinality(new)
      BY <1>2 DEF PolicyFailureCount, Compare
    <2>2. IsFiniteSet(new)
      BY SelectedAreFinite, FS_Subset
    <2>3. ASSUME NEW k \in new
          PROVE  /\ Enabled(after, k.url, flags)
                 /\ ~(/\ Enabled(before, k.url, flags)
                      /\ before.links[k.url].problem = after.links[k.url].problem)
      BY <2>3, KeyShape, KeysOfIssues
    <2>4. ASSUME NEW u, Enabled(after, u, flags),
                 ~(/\ Enabled(before, u, flags)
                   /\ before.links[u].problem = after.links[u].problem)
          PROVE  [url |-> u, problem |-> after.links[u].problem] \in new
      BY <2>4, KeysOfIssues
    <2>5. new # {} <=> \E u : /\ Enabled(after, u, flags)
                             /\ ~(/\ Enabled(before, u, flags)
                                  /\ before.links[u].problem = after.links[u].problem)
      BY <2>3, <2>4
    <2> QED BY <1>2, <2>1, <2>2, <2>5, PositiveCount
  <1> QED BY <1>1, <1>2

-----------------------------------------------------------------------------
(* What a check compares are reports. *)
Typed ==
    /\ policy \in SUBSET Flags /\ mode \in {"all", "new"}
    /\ baseline \in Reports \cup {NoReport} /\ current \in Reports

LEMMA TypedHolds == Spec => []Typed
  <1>1. Init => Typed
    BY DEF Init, Typed
  <1>2. Typed /\ [Next]_vars => Typed'
    BY DEF Typed, Next, NextCheck, vars
  <1> QED BY <1>1, <1>2, PTL DEF Spec

(* docs/usage.md: "fail only on enabled issues absent from the baseline".  *)
(* For all reports and policies: a check in mode "new" fails exactly when  *)
(* an enabled issue was not there under its URL and problem, or an enabled *)
(* truncation happened.                                                    *)
THEOREM NewMeansNew == Spec => []NewModeIsExact
  <1>1. ASSUME Typed, mode = "new" PROVE NewModeIsExact
    <2>1. CheckFails <=>
            \/ TruncatedFailed(current, policy)
            \/ PolicyFailureCount(baseline, current, policy, mode) > 0
      BY DEF CheckFails, Failed
    <2>2. PolicyFailureCount(baseline, current, policy, mode) > 0
            <=> \E u : /\ Enabled(current, u, policy)
                       /\ ~(/\ Enabled(baseline, u, policy)
                            /\ baseline.links[u].problem = current.links[u].problem)
      BY <1>1, FailuresCounted DEF Typed
    <2> QED BY <1>1, <2>1, <2>2 DEF NewModeIsExact, TruncatedFailed, Enabled
  <1>2. Typed => NewModeIsExact
    BY <1>1 DEF NewModeIsExact
  <1> QED BY <1>2, TypedHolds, PTL

-----------------------------------------------------------------------------
(* The message of a failing check *)

(* The causes that the policy looks for in mode "all" are counted in the   *)
(* summary; together they are there when an enabled issue is.              *)
LEMMA SummaryCounts ==
    ASSUME NEW report \in Reports \cup {NoReport}, NEW flags
    PROVE  (\E u : Enabled(report, u, flags))
             <=> \/ "dead" \in flags /\ DeadLinks(report) > 0
                 \/ "non200" \in flags /\ Non200Links(report) > 0
  <1>1. DeadLinks(report) > 0 <=> \E u \in URLs(report) : report.links[u].dead
    BY SelectedAreFinite, PositiveCount DEF DeadLinks
  <1>2. Non200Links(report) > 0 <=> \E u \in URLs(report) : report.links[u].non200
    BY SelectedAreFinite, PositiveCount DEF Non200Links
  <1> QED BY <1>1, <1>2 DEF Enabled, IncludeIssue

(* A failing check names a cause that the policy enables, whatever the     *)
(* reports: the message never falls back to the bare "failures=N", and a   *)
(* passing check names none.                                               *)
THEOREM FailureIsNamed == Spec => []ErrNamesCause
  <1>1. ASSUME Typed PROVE ErrNamesCause
    <2> DEFINE count == PolicyFailureCount(baseline, current, policy, mode)
               cut   == TruncatedFailed(current, policy)
               dead  == "dead" \in policy /\ DeadLinks(current) > 0
               non200 == "non200" \in policy /\ Non200Links(current) > 0
               issues == CASE mode = "new" -> {c \in {"new_issues"} : count > 0}
                           [] mode = "all" -> {c \in {"dead_links"} : dead}
                                                \cup {c \in {"non_200_links"} : non200}
               parts == issues \cup {c \in {"truncated"} : cut}
    <2>1. CheckFails <=> cut \/ count > 0
      BY DEF CheckFails, Failed
    <2>2. mode = "all" => (count > 0 <=> dead \/ non200)
      BY <1>1, FailuresCounted, SummaryCounts DEF Typed
    <2>3. /\ mode = "new" => issues = {c \in {"new_issues"} : count > 0}
          /\ mode = "all" => issues = {c \in {"dead_links"} : dead} \cup {c \in {"non_200_links"} : non200}
      OBVIOUS
    <2>4. ErrParts(baseline, current, policy, mode) =
            CASE ~CheckFails -> {}
              [] CheckFails /\ parts # {} -> parts
              [] OTHER -> {"failures"}
      BY DEF ErrParts, CheckFails
    <2> HIDE DEF count, cut, dead, non200, issues
    <2>5. mode \in {"all", "new"}
      BY <1>1 DEF Typed
    <2>6. issues # {} <=> count > 0
      BY <2>2, <2>3, <2>5
    <2>7. parts # {} <=> CheckFails
      BY <2>1, <2>6
    <2>8. "failures" \notin parts
      BY <2>3, <2>5
    <2>9. CASE CheckFails
      <3>1. ErrParts(baseline, current, policy, mode) = parts
        BY <2>4, <2>7, <2>9
      <3> QED BY <2>7, <2>8, <2>9, <3>1 DEF ErrNamesCause
    <2>10. CASE ~CheckFails
      <3>1. ErrParts(baseline, current, policy, mode) = {}
        BY <2>4, <2>10
      <3> QED BY <2>10, <3>1 DEF ErrNamesCause
    <2> QED BY <2>9, <2>10
  <1> QED BY <1>1, TypedHolds, PTL

-----------------------------------------------------------------------------
(* The UI beside the check *)

(* The state that the UI gives a problem of a link. *)
LEMMA StateOfPrint ==
    ASSUME NEW report \in Reports \cup {NoReport}, report # NoReport, NEW u, NEW problem
    PROVE  State(report, [url |-> u, problem |-> problem]) =
             IF /\ u \in IssueURLs(report)
                /\ ProblemForLink(report.links[u]) = problem
             THEN "existing" ELSE "new"
  <1>1. [url |-> u, problem |-> problem] \in Fingerprints(report)
          <=> \E v \in IssueURLs(report) :
                [url |-> v, problem |-> ProblemForLink(report.links[v])]
                  = [url |-> u, problem |-> problem]
    BY DEF Fingerprints, Fingerprint
  <1>2. \A v, p : [url |-> v, problem |-> p] = [url |-> u, problem |-> problem]
                    <=> v = u /\ p = problem
    OBVIOUS
  <1> QED BY <1>1, <1>2 DEF State

(* For all reports, the UI shows as existing what the check calls existing *)
(* and, when both kinds of issue are enabled, as new what it calls new.    *)
THEOREM UIAndCheckAgree == Spec => []UIAgreesWithCheck
  <1>1. ASSUME Typed, baseline # NoReport PROVE UIAgreesWithCheck
    <2>1. ASSUME NEW k \in Comparison.existing
          PROVE  State(baseline, [url |-> k.url, problem |-> k.problem]) = "existing"
      <3>1. k \in IssueKeys(baseline, policy)
        BY <2>1 DEF Comparison, Compare
      <3>2. Enabled(baseline, k.url, policy) /\ baseline.links[k.url].problem = k.problem
        BY <1>1, <3>1, KeyShape DEF Typed
      <3>3. /\ k.url \in IssueURLs(baseline)
            /\ ProblemForLink(baseline.links[k.url]) = k.problem
        BY <1>1, <3>2, EnabledIsFailure DEF Typed, IssueURLs, Enabled
      <3> QED BY <1>1, <3>3, StateOfPrint DEF Typed
    <2>2. ASSUME {"dead", "non200"} \subseteq policy, NEW k \in Comparison.new
          PROVE  State(baseline, [url |-> k.url, problem |-> k.problem]) = "new"
      <3> DEFINE u == k.url
      <3>1. k \in IssueKeys(current, policy) /\ k \notin IssueKeys(baseline, policy)
        BY <2>2 DEF Comparison, Compare
      <3>2. /\ k = [url |-> u, problem |-> k.problem]
            /\ Enabled(current, u, policy) /\ current.links[u].problem = k.problem
        BY <1>1, <3>1, KeyShape DEF Typed
      <3>3. ~(Enabled(baseline, u, policy) /\ baseline.links[u].problem = k.problem)
        BY <1>1, <3>1, <3>2, KeysOfIssues DEF Typed
      <3>4. k.problem # NoProblem /\ k.problem # "redirect"
        BY <1>1, <3>2, EnabledIsFailure, VerdictFacts DEF Typed
      <3>5. ASSUME u \in IssueURLs(baseline), ProblemForLink(baseline.links[u]) = k.problem
            PROVE  FALSE
        <4> DEFINE link == baseline.links[u]
        <4>1. u \in URLs(baseline) /\ IsTriageIssue(link) /\ IsVerdict(link)
          BY <1>1, <3>5, ReportFacts DEF Typed, IssueURLs
        <4>2. (link.dead \/ link.non200) /\ link.problem = k.problem
          BY <3>4, <3>5, <4>1, NameOfIssue
        <4>3. Enabled(baseline, u, policy)
          BY <2>2, <4>1, <4>2 DEF Enabled, IncludeIssue
        <4> QED BY <3>3, <4>2, <4>3
      <3> QED BY <1>1, <3>5, StateOfPrint DEF Typed
    <2> QED BY <2>1, <2>2 DEF UIAgreesWithCheck
  <1>2. Typed => UIAgreesWithCheck
    BY <1>1 DEF UIAgreesWithCheck
  <1> QED BY <1>2, TypedHolds, PTL

(* The keys that a select may have are never "All". *)
LEMMA OptionsAreNamed ==
    ASSUME Typed, NEW d \in Dimension, NEW key \in Options(Issues(current, baseline), d)
    PROVE  key # ""
  <1> DEFINE issues == Issues(current, baseline)
  <1>1. ASSUME NEW u \in DOMAIN issues
        PROVE  /\ issues[u].problem # ""
               /\ NormalizedHost(issues[u].host) # ""
               /\ \A p : NormalizedSource(p) # ""
    <2>1. u \in URLs(current) /\ IsTriageIssue(current.links[u])
      BY DEF Issues, IssueURLs
    <2>2. issues[u].problem = ProblemForLink(current.links[u])
      BY DEF Issues
    <2>3. issues[u].problem # ""
      BY <2>1, <2>2, ReportFacts, NameOfIssue DEF Typed
    <2> QED BY <2>3 DEF NormalizedHost, NormalizedSource
  <1> HIDE DEF issues
  <1>2. CASE d \in {"severity", "state"}
    BY <1>2 DEF Options, issues
  <1>3. CASE d \in {"problem", "host", "source"}
    <2>1. PICK u \in DOMAIN issues : key \in GroupKeys(issues[u])[d]
      BY <1>3 DEF Options, issues
    <2> DEFINE keys == GroupKeys(issues[u])
    <2>2. /\ keys.problem = {issues[u].problem} /\ keys.host = {NormalizedHost(issues[u].host)}
          /\ \A k \in keys.source : \E p : k = NormalizedSource(p)
      BY DEF GroupKeys
    <2> HIDE DEF keys
    <2>3. key \in keys[d]
      BY <2>1 DEF keys
    <2>4. CASE d = "problem"
      BY <1>1, <2>2, <2>3, <2>4
    <2>5. CASE d = "host"
      BY <1>1, <2>2, <2>3, <2>5
    <2>6. CASE d = "source"
      BY <1>1, <2>2, <2>3, <2>6
    <2> QED BY <1>3, <2>4, <2>5, <2>6
  <1> QED BY <1>2, <1>3 DEF Dimension

(* The select of one dimension shows what its group counts: the first is   *)
(* JavaScript, the second Go.                                              *)
LEMMA SelectShowsGroup ==
    ASSUME NEW issue, NEW d \in Dimension, NEW key, key # ""
    PROVE  MatchesSelects(issue, [e \in Dimension |-> IF e = d THEN key ELSE ""])
             <=> key \in GroupKeys(issue)[d]
  <1> DEFINE select == [e \in Dimension |-> IF e = d THEN key ELSE ""]
             keys == GroupKeys(issue)
  <1>1. \A e \in Dimension : select[e] = IF e = d THEN key ELSE ""
    OBVIOUS
  <1>2. /\ keys.problem = {issue.problem} /\ keys.host = {NormalizedHost(issue.host)}
        /\ keys.state = {issue.state} /\ keys.severity = {issue.severity}
        /\ keys.source = {NormalizedSource(p) : p \in IF issue.sources = {} THEN {""} ELSE issue.sources}
    BY DEF GroupKeys
  <1> HIDE DEF select, keys
  <1>3. /\ select.severity = (IF d = "severity" THEN key ELSE "")
        /\ select.problem = (IF d = "problem" THEN key ELSE "")
        /\ select.host = (IF d = "host" THEN key ELSE "")
        /\ select.source = (IF d = "source" THEN key ELSE "")
        /\ select.state = (IF d = "state" THEN key ELSE "")
    BY <1>1 DEF Dimension
  <1>4. HasSource(issue, key) <=> key \in keys.source
    <2>1. CASE issue.sources = {}
      BY <1>2, <2>1 DEF HasSource, NormalizedSource
    <2>2. CASE issue.sources # {}
      BY <1>2, <2>2 DEF HasSource
    <2> QED BY <2>1, <2>2
  <1>5. MatchesSelects(issue, select) <=> key \in keys[d]
    <2>1. CASE d = "severity"
      BY <1>2, <1>3, <2>1 DEF MatchesSelects
    <2>2. CASE d = "problem"
      BY <1>2, <1>3, <2>2 DEF MatchesSelects
    <2>3. CASE d = "host"
      BY <1>2, <1>3, <2>3 DEF MatchesSelects
    <2>4. CASE d = "source"
      BY <1>3, <1>4, <2>4 DEF MatchesSelects
    <2>5. CASE d = "state"
      BY <1>2, <1>3, <2>5 DEF MatchesSelects
    <2> QED BY <2>1, <2>2, <2>3, <2>4, <2>5 DEF Dimension
  <1> QED BY <1>5 DEF select, keys

(* Every issue is under an option of each select.                          *)
LEMMA EveryIssueHasAnOption ==
    ASSUME Typed, NEW d \in Dimension, NEW u \in DOMAIN Issues(current, baseline)
    PROVE  \E key \in Options(Issues(current, baseline), d) :
              key \in GroupKeys(Issues(current, baseline)[u])[d]
  <1> DEFINE issues == Issues(current, baseline)
             keys == GroupKeys(issues[u])
  <1>1. /\ keys.problem = {issues[u].problem} /\ keys.host = {NormalizedHost(issues[u].host)}
        /\ keys.state = {issues[u].state} /\ keys.severity = {issues[u].severity}
        /\ keys.source = {NormalizedSource(p) :
                             p \in IF issues[u].sources = {} THEN {""} ELSE issues[u].sources}
    BY DEF GroupKeys
  <1>2. issues[u].severity \in {"critical", "warning", "info"}
    BY SeverityType DEF Issues
  <1>3. issues[u].state \in {"new", "existing", "unknown"}
    BY DEF Issues, State
  <1>4. \E key : key \in keys[d]
    <2>1. \E key : key \in keys.source
      <3>1. CASE issues[u].sources = {}
        <4>1. NormalizedSource("") \in keys.source
          BY <1>1, <3>1
        <4> QED BY <4>1
      <3>2. CASE issues[u].sources # {}
        <4>1. PICK p : p \in issues[u].sources
          BY <3>2
        <4>2. NormalizedSource(p) \in keys.source
          BY <1>1, <3>2, <4>1
        <4> QED BY <4>2
      <3> QED BY <3>1, <3>2
    <2> QED BY <1>1, <2>1 DEF Dimension
  <1>5. CASE d \in {"problem", "host", "source"}
    BY <1>4, <1>5 DEF Options
  <1>6. CASE d = "severity"
    BY <1>1, <1>2, <1>6 DEF Options
  <1>7. CASE d = "state"
    BY <1>1, <1>3, <1>7 DEF Options
  <1> QED BY <1>5, <1>6, <1>7 DEF Dimension

(* For all reports: the count beside an option, made in Go, is the number  *)
(* of issues that the page shows for it, in JavaScript, and each select    *)
(* has an option for every issue.                                          *)
THEOREM OptionsShowTheirIssues == Spec => []OptionsCountTheirIssues
  <1>1. ASSUME Typed PROVE OptionsCountTheirIssues
    <2> DEFINE issues == Issues(current, baseline)
               only(d, key) == [e \in Dimension |-> IF e = d THEN key ELSE ""]
               shown(d, key) == {u \in DOMAIN issues : MatchesSelects(issues[u], only(d, key))}
    <2>1. ASSUME NEW d \in Dimension, NEW key \in Options(issues, d)
          PROVE  shown(d, key) = {u \in DOMAIN issues : key \in GroupKeys(issues[u])[d]}
      <3>1. key # ""
        BY <1>1, <2>1, OptionsAreNamed
      <3> QED BY <3>1, SelectShowsGroup
    <2>2. ASSUME NEW d \in Dimension, NEW key \in Options(issues, d)
          PROVE  GroupCount(issues, d, key) = Cardinality(shown(d, key))
      BY <2>1 DEF GroupCount
    <2>3. ASSUME NEW d \in Dimension
          PROVE  UNION {shown(d, key) : key \in Options(issues, d)} = DOMAIN issues
      <3>1. ASSUME NEW u \in DOMAIN issues
            PROVE  \E key \in Options(issues, d) : u \in shown(d, key)
        <4>1. PICK key \in Options(issues, d) : key \in GroupKeys(issues[u])[d]
          BY <1>1, EveryIssueHasAnOption
        <4> QED BY <2>1, <4>1
      <3>2. \A key : shown(d, key) \subseteq DOMAIN issues
        OBVIOUS
      <3> HIDE DEF shown, issues
      <3> QED BY <3>1, <3>2
    <2> QED BY <2>2, <2>3 DEF OptionsCountTheirIssues
  <1> QED BY <1>1, TypedHolds, PTL

-----------------------------------------------------------------------------
(* From one check to the next *)

(* For all reports: an issue that persists is never new again, and one     *)
(* that does not is resolved.                                              *)
THEOREM IssuesAreNewOnce == Spec => NewOnce
  <1> DEFINE issue(report, u) == u \in URLs(report) /\ IncludeIssue(report.links[u], policy)
             new      == {k.url : k \in Comparison'.new}
             resolved == {k.url : k \in Comparison'.resolved}
             Tracked  == \A u \in URLs(current) :
                 issue(current, u) =>
                   IF issue(current', u) /\ current'.links[u].problem = current.links[u].problem
                   THEN u \notin new ELSE u \in resolved
  <1>1. ASSUME Typed, Typed', NextCheck PROVE Tracked
    <2> SUFFICES ASSUME NEW u \in URLs(current), Enabled(current, u, policy)
                 PROVE  IF /\ Enabled(current', u, policy)
                           /\ current'.links[u].problem = current.links[u].problem
                        THEN u \notin new ELSE u \in resolved
      BY DEF Enabled
    <2> DEFINE problem == current.links[u].problem
               was == IssueKeys(current, policy)
               is  == IssueKeys(current', policy)
    <2>1. current \in Reports \cup {NoReport} /\ current' \in Reports \cup {NoReport}
      BY <1>1 DEF Typed
    <2>2. Comparison'.new = is \ was /\ Comparison'.resolved = was \ is
      BY <1>1 DEF NextCheck, Comparison, Compare, ResolvedKeys
    <2>3. [url |-> u, problem |-> problem] \in was
      BY <2>1, KeysOfIssues
    <2>4. CASE Enabled(current', u, policy) /\ current'.links[u].problem = problem
      <3>1. ASSUME NEW k \in is, k.url = u PROVE k \in was
        <4>1. k = [url |-> u, problem |-> problem]
          BY <2>1, <2>4, <3>1, KeyShape
        <4> QED BY <2>3, <4>1
      <3> QED BY <2>2, <2>4, <3>1
    <2>5. CASE ~(Enabled(current', u, policy) /\ current'.links[u].problem = problem)
      <3>1. [url |-> u, problem |-> problem] \notin is
        BY <2>1, <2>5, KeysOfIssues
      <3>2. [url |-> u, problem |-> problem].url = u
        OBVIOUS
      <3>3. u \in resolved
        BY <2>2, <2>3, <3>1, <3>2
      <3> QED BY <2>5, <3>3
    <2> QED BY <2>4, <2>5
  <1>2. ASSUME Typed, Typed', [Next]_vars PROVE [Tracked]_vars
    BY <1>1, <1>2 DEF Next
  <1> QED BY <1>2, TypedHolds, PTL DEF Spec, NewOnce

=============================================================================
