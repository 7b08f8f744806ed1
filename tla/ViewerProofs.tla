----------------------------- MODULE ViewerProofs -----------------------------
(***************************************************************************)
(* Proofs about the pages of `araneae serve', for any tabs, origins,       *)
(* reports and controls: the types, that a table is never left behind its  *)
(* controls, and what becomes of the users' acknowledgements.              *)
(***************************************************************************)
EXTENDS Viewer, TLAPS

(* What the tables should show depends on these four fields of a page.     *)
LEMMA SameView ==
    ASSUME NEW p, NEW q, q.content = p.content, q.triage = p.triage,
           q.setting = p.setting, q.acknowledged = p.acknowledged
    PROVE  /\ FilteredLinks(q) = FilteredLinks(p)
           /\ LinkRows(q) = LinkRows(p)
           /\ SkippedRows(q) = SkippedRows(p)
<1>1. Report(q) = Report(p)
    BY DEF Report
<1>2. \A u : HasIssue(q, u) = HasIssue(p, u)
    BY DEF HasIssue
<1>3. \A u : IsAcknowledged(q, u) = IsAcknowledged(p, u)
    BY DEF IsAcknowledged, HasIssue
<1>4. \A u : MatchesTerm(q, u) = MatchesTerm(p, u)
    BY <1>2 DEF MatchesTerm
<1>5. \A link : MatchesFilter(q, link) = MatchesFilter(p, link)
    BY DEF MatchesFilter
<1>6. \A u : MatchesTriageFilters(q, u) = MatchesTriageFilters(p, u)
    BY <1>2, <1>3 DEF MatchesTriageFilters
<1>7. FilteredLinks(q) = FilteredLinks(p)
    BY <1>1, <1>4, <1>5, <1>6 DEF FilteredLinks
<1>8. LinkRows(q) = LinkRows(p)
    BY <1>3, <1>7 DEF LinkRows
<1>9. SkippedRows(q) = SkippedRows(p)
    BY <1>1 DEF SkippedRows
<1> QED BY <1>7, <1>8, <1>9

(* A page with its data, drawn: well typed, current, and the same in all   *)
(* but its tables and its selection.                                       *)
LEMMA Drawn ==
    ASSUME NEW p \in PageType, p.content # None, p.triage # None
    PROVE  /\ RenderAll(p) \in PageType
           /\ RenderAll(p).origin = p.origin /\ RenderAll(p).phase = p.phase
           /\ RenderAll(p).content = p.content /\ RenderAll(p).triage = p.triage
           /\ RenderAll(p).acknowledged = p.acknowledged
           /\ RenderAll(p).timer = p.timer
           /\ Current(RenderAll(p))
<1> DEFINE q == RenderAll(p)
<1>1. FilteredLinks(p) \subseteq ServedLinks
    BY DEF FilteredLinks, Report, PageType, ServedLinks
<1>2. LinkRows(p) \in SUBSET [url : ServedLinks, acknowledged : BOOLEAN]
  <2>1. \A u : IsAcknowledged(p, u) \in BOOLEAN
      BY DEF IsAcknowledged, HasIssue
  <2> QED BY <1>1, <2>1 DEF LinkRows
<1>3. SkippedRows(p) \in SUBSET UNION {Skipped[s.report] : s \in Served}
    BY DEF SkippedRows, Report, PageType
<1>4. /\ q \in PageType
      /\ q.origin = p.origin /\ q.phase = p.phase /\ q.content = p.content
      /\ q.triage = p.triage /\ q.acknowledged = p.acknowledged /\ q.timer = p.timer
      /\ q.setting = p.setting
  <2>1. CASE p.setting.view = "links"
    <3> DEFINE sel == IF p.selected \in FilteredLinks(p) THEN p.selected ELSE None
    <3>1. q = [p EXCEPT !.links = LinkRows(p), !.selected = sel]
        BY <2>1 DEF RenderAll
    <3>2. sel \in ServedLinks \cup {None}
        BY <1>1
    <3> HIDE DEF sel, q
    <3> QED BY <1>2, <3>1, <3>2 DEF PageType
  <2>2. CASE p.setting.view # "links"
    <3>1. q = [p EXCEPT !.skipped = SkippedRows(p)]
        BY <2>2 DEF RenderAll
    <3> HIDE DEF q
    <3> QED BY <1>3, <3>1 DEF PageType
  <2> QED BY <2>1, <2>2
<1>5. /\ FilteredLinks(q) = FilteredLinks(p) /\ LinkRows(q) = LinkRows(p)
      /\ SkippedRows(q) = SkippedRows(p)
    BY <1>4, SameView
<1>6. CASE p.setting.view = "links"
  <2>1. q.links = LinkRows(p) /\ (q.selected # None => q.selected \in FilteredLinks(p))
      BY <1>6 DEF RenderAll, PageType
  <2>2. \A u \in FilteredLinks(p) : \E row \in LinkRows(p) : row.url = u
    <3> TAKE u \in FilteredLinks(p)
    <3> DEFINE row == [url |-> u, acknowledged |-> IsAcknowledged(p, u)]
    <3>1. row \in LinkRows(p) /\ row.url = u
        BY DEF LinkRows
    <3> QED BY <3>1
  <2> QED BY <1>4, <1>5, <1>6, <2>1, <2>2 DEF Current
<1>7. CASE p.setting.view # "links"
  <2>1. q.skipped = SkippedRows(p)
      BY <1>7 DEF RenderAll, PageType
  <2> QED BY <1>4, <1>5, <1>7, <2>1 DEF Current
<1> QED BY <1>4, <1>6, <1>7

(* An issue and its fingerprint name the link and the problem.             *)
LEMMA IssuePrint ==
    ASSUME NEW s \in Served, NEW u \in DOMAIN Issues(s.report, s.before)
    PROVE  LET issue == Issues(s.report, s.before)[u] IN
           /\ issue.fingerprint = [url |-> u, problem |-> issue.problem]
           /\ issue.fingerprint \in Prints
<1>1. u \in IssueURLs(s.report)
    BY DEF Issues
<1> DEFINE problem == ProblemForLink(s.report.links[u])
<1>2. /\ Issues(s.report, s.before)[u].fingerprint = Fingerprint(u, problem)
      /\ Issues(s.report, s.before)[u].problem = problem
    BY <1>1 DEF Issues
<1>3. Fingerprint(u, problem) \in Fingerprints(s.report)
    BY <1>1 DEF Fingerprints
<1> HIDE DEF problem
<1> QED BY <1>2, <1>3 DEF Prints, Fingerprint

(* The same of an issue on a ready page.                                   *)
LEMMA PageIssue ==
    ASSUME TypeOK, NEW t \in Tab, Ready(t), NEW u \in DOMAIN tab[t].triage
    PROVE  /\ tab[t].triage[u].fingerprint = [url |-> u, problem |-> tab[t].triage[u].problem]
           /\ tab[t].triage[u].fingerprint \in Prints
<1>1. PICK s \in Served : tab[t].triage = Issues(s.report, s.before)
    BY DEF TypeOK, PageType, Ready, Open
<1> QED BY <1>1, IssuePrint

-----------------------------------------------------------------------------
THEOREM TypeCorrect == Spec => []TypeOK
<1>1. Init => TypeOK
  <2>1. 0 \in 0..MaxDecisions
      BY BoundAssumption
  <2>2. ASSUME Init PROVE /\ tab \in [Tab -> PageType \cup {None}]
                          /\ \A t \in Tab : ~Ready(t)
      BY <2>2 DEF Init, Ready, Open
  <2> QED BY <2>1, <2>2 DEF Init, TypeOK
<1>2. TypeOK /\ [Next]_vars => TypeOK'
  <2> SUFFICES ASSUME TypeOK, [Next]_vars PROVE TypeOK'
      OBVIOUS
  <2> USE DEF TypeOK
  <2>0. ASSUME NEW t \in Tab, Ready(t)
        PROVE  tab[t] \in PageType /\ tab[t].content # None /\ tab[t].triage # None
      BY <2>0 DEF Ready, Open
  <2>1. CASE StopServing
      BY <2>1 DEF StopServing, history, Ready, Open
  <2>2. ASSUME NEW o \in Origin, NEW c \in Served, Serve(o, c) PROVE TypeOK'
      BY <2>2 DEF Serve, history, Ready, Open
  <2>3. ASSUME NEW t \in Tab, OpenTab(t) PROVE TypeOK'
    <3>1. PICK granted \in BOOLEAN :
            /\ tab' = [tab EXCEPT ![t] = Page(server.origin, IF granted THEN storage[server.origin] ELSE {})]
            /\ troubled' = [troubled EXCEPT ![server.origin] =
                              @ \/ (\E s \in Tab \ {t} : Open(s) /\ tab[s].origin = server.origin) \/ ~granted]
        BY <2>3 DEF OpenTab
    <3>2. server.origin \in Origin
        BY <2>3 DEF OpenTab
    <3>3. Page(server.origin, IF granted THEN storage[server.origin] ELSE {}) \in PageType
        BY <3>2, ViewerAssumption DEF Page, PageType
    <3>4. Page(server.origin, IF granted THEN storage[server.origin] ELSE {}).phase # "ready"
        BY DEF Page
    <3>5. troubled' \in [Origin -> BOOLEAN]
        BY <3>1 DEF Open
    <3> QED BY <2>3, <3>1, <3>3, <3>4, <3>5 DEF OpenTab, Ready, Open
  <2>4. ASSUME NEW t \in Tab, FetchReport(t) \/ FetchTriage(t) PROVE TypeOK'
    <3>1. tab[t] \in PageType /\ tab[t].phase # "ready"
        BY <2>4 DEF FetchReport, FetchTriage, Answer, Open
    <3>2. CASE Reachable(t)
      <4>1. server.content \in Served
          BY <3>2 DEF Reachable
      <4>2. CASE FetchReport(t)
        <5>1. tab' = [tab EXCEPT ![t] = [@ EXCEPT !.content = server.content]]
            BY <3>2, <4>2 DEF FetchReport, Answer
        <5>2. [tab[t] EXCEPT !.content = server.content] \in PageType
            BY <3>1, <4>1 DEF PageType
        <5>3. [tab[t] EXCEPT !.content = server.content].phase # "ready"
            BY <3>1 DEF PageType
        <5> QED BY <4>2, <5>1, <5>2, <5>3 DEF FetchReport, Answer, history, Ready, Open
      <4>3. CASE FetchTriage(t)
        <5> DEFINE issues == Issues(server.content.report, server.content.before)
        <5>1. tab' = [tab EXCEPT ![t] = [@ EXCEPT !.triage = issues]]
            BY <3>2, <4>3 DEF FetchTriage, Answer
        <5>2. issues \in {Issues(s.report, s.before) : s \in Served}
            BY <4>1
        <5> HIDE DEF issues
        <5>3. [tab[t] EXCEPT !.triage = issues] \in PageType
            BY <3>1, <5>2 DEF PageType
        <5>4. [tab[t] EXCEPT !.triage = issues].phase # "ready"
            BY <3>1 DEF PageType
        <5> QED BY <4>3, <5>1, <5>3, <5>4 DEF FetchTriage, Answer, history, Ready, Open
      <4> QED BY <2>4, <4>2, <4>3
    <3>3. CASE ~Reachable(t)
      <4>1. tab' = [tab EXCEPT ![t] = [@ EXCEPT !.phase = "failed"]]
          BY <2>4, <3>3 DEF FetchReport, FetchTriage, Answer
      <4>2. [tab[t] EXCEPT !.phase = "failed"] \in PageType
          BY <3>1 DEF PageType
      <4>3. [tab[t] EXCEPT !.phase = "failed"].phase # "ready"
          BY <3>1 DEF PageType
      <4> QED BY <2>4, <4>1, <4>2, <4>3 DEF FetchReport, FetchTriage, Answer, history, Ready, Open
    <3> QED BY <3>2, <3>3
  <2>5. ASSUME NEW t \in Tab, Loaded(t) PROVE TypeOK'
    <3> DEFINE p == [tab[t] EXCEPT !.phase = "ready"]
    <3>1. p \in PageType /\ p.content # None /\ p.triage # None
        BY <2>5 DEF Loaded, Open, PageType
    <3>2. tab' = [tab EXCEPT ![t] = RenderAll(p)]
        BY <2>5 DEF Loaded
    <3> HIDE DEF p
    <3>3. RenderAll(p) \in PageType /\ RenderAll(p).content # None /\ RenderAll(p).triage # None
        BY <3>1, Drawn
    <3> QED BY <2>5, <3>2, <3>3 DEF Loaded, history, Ready, Open
  <2>6. ASSUME NEW t \in Tab, Close(t) PROVE TypeOK'
      BY <2>6 DEF Close, history, Ready, Open
  <2>7. ASSUME NEW t \in Tab, NEW s \in Controls[t], Change(t, s) PROVE TypeOK'
    <3> DEFINE p == [tab[t] EXCEPT !.setting = s]
    <3>1. p \in PageType /\ p.content # None /\ p.triage # None
      <4>1. tab[t] \in PageType /\ tab[t].content # None /\ tab[t].triage # None
          BY <2>0, <2>7 DEF Change
      <4>2. s \in Setting
          BY ViewerAssumption
      <4> HIDE DEF TypeOK
      <4> QED BY <4>1, <4>2 DEF PageType
    <3>2. tab' = [tab EXCEPT ![t] = RenderAll(p)]
        BY <2>7 DEF Change
    <3> HIDE DEF p
    <3>3. RenderAll(p) \in PageType /\ RenderAll(p).content # None /\ RenderAll(p).triage # None
        BY <3>1, Drawn
    <3> QED BY <2>7, <3>2, <3>3 DEF Change, history, Ready, Open
  <2>8. ASSUME NEW t \in Tab, NEW s \in Controls[t], Search(t, s) PROVE TypeOK'
    <3> DEFINE p == [tab[t] EXCEPT !.setting = s, !.timer = TRUE]
    <3>1. p \in PageType /\ p.content # None /\ p.triage # None
      <4>1. tab[t] \in PageType /\ tab[t].content # None /\ tab[t].triage # None
          BY <2>0, <2>8 DEF Search
      <4>2. s \in Setting
          BY ViewerAssumption
      <4> HIDE DEF TypeOK
      <4> QED BY <4>1, <4>2 DEF PageType
    <3>2. tab' = [tab EXCEPT ![t] = p]
        BY <2>8 DEF Search
    <3> HIDE DEF p
    <3> QED BY <2>8, <3>1, <3>2 DEF Search, history, Ready, Open
  <2>9. ASSUME NEW t \in Tab, Debounced(t) PROVE TypeOK'
    <3> DEFINE p == [tab[t] EXCEPT !.timer = FALSE]
    <3>1. p \in PageType /\ p.content # None /\ p.triage # None
        BY <2>0, <2>9 DEF Debounced, PageType
    <3>2. tab' = [tab EXCEPT ![t] = RenderAll(p)]
        BY <2>9 DEF Debounced
    <3> HIDE DEF p
    <3>3. RenderAll(p) \in PageType /\ RenderAll(p).content # None /\ RenderAll(p).triage # None
        BY <3>1, Drawn
    <3> QED BY <2>9, <3>2, <3>3 DEF Debounced, history, Ready, Open
  <2>10. ASSUME NEW t \in Tab, NEW u, SelectRow(t, u) PROVE TypeOK'
    <3> DEFINE p == [tab[t] EXCEPT !.selected = u]
    <3>1. u \in ServedLinks
        BY <2>10 DEF SelectRow, Ready, Open, PageType
    <3>2. p \in PageType /\ p.content # None /\ p.triage # None
        BY <2>10, <3>1 DEF SelectRow, Ready, Open, PageType
    <3>3. tab' = [tab EXCEPT ![t] = p]
        BY <2>10 DEF SelectRow
    <3> HIDE DEF p
    <3> QED BY <2>10, <3>2, <3>3 DEF SelectRow, history, Ready, Open
  <2>11. ASSUME NEW t \in Tab, NEW set \in SUBSET Prints, Decide(t, set)
         PROVE  /\ server' \in [origin : Origin, content : Served] \cup {None}
                /\ storage' \in [Origin -> SUBSET Prints]
                /\ tab' \in [Tab -> PageType \cup {None}]
                /\ \A s \in Tab : Ready(s)' => tab[s]'.content # None /\ tab[s]'.triage # None
                /\ decisions' \in 0..MaxDecisions
                /\ troubled' \in [Origin -> BOOLEAN]
    <3> DEFINE p == [tab[t] EXCEPT !.acknowledged = set]
    <3>1. p \in PageType /\ p.content # None /\ p.triage # None
        BY <2>11 DEF Decide, Ready, Open, PageType
    <3>2. tab' = [tab EXCEPT ![t] = RenderAll(p)]
        BY <2>11 DEF Decide
    <3> HIDE DEF p
    <3>3. storage' \in [Origin -> SUBSET Prints] /\ troubled' \in [Origin -> BOOLEAN]
        BY <2>11 DEF Decide, Save
    <3>4. decisions' \in 0..MaxDecisions
      <4>1. MaxDecisions \in Nat /\ decisions < MaxDecisions /\ decisions' = decisions + 1
          BY <2>11, BoundAssumption DEF Decide
      <4> QED BY <4>1
    <3>5. /\ tab' \in [Tab -> PageType \cup {None}]
          /\ \A s \in Tab : Ready(s)' => tab[s]'.content # None /\ tab[s]'.triage # None
        BY <3>1, <3>2, Drawn DEF Ready, Open
    <3> QED BY <2>11, <3>3, <3>4, <3>5 DEF Decide
  <2>12. ASSUME NEW t \in Tab, NEW u, ToggleAcknowledged(t, u) PROVE TypeOK'
    <3> DEFINE print == tab[t].triage[u].fingerprint
               issue == [url |-> u, problem |-> tab[t].triage[u].problem]
    <3>1. Ready(t) /\ tab[t] \in PageType /\ u \in DOMAIN tab[t].triage
        BY <2>12 DEF ToggleAcknowledged, Ready, Open, HasIssue
    <3>2. print = issue /\ print \in Prints
        BY <3>1, PageIssue
    <3>3. tab[t].acknowledged \in SUBSET Prints /\ tab[t].origin \in Origin
        BY <3>1 DEF PageType
    <3>4. \/ Decide(t, tab[t].acknowledged \ {print}) \/ Decide(t, tab[t].acknowledged \cup {print})
        BY <2>12 DEF ToggleAcknowledged
    <3>5. /\ decided' \in {[decided EXCEPT ![tab[t].origin] = @ \ {issue}],
                          [decided EXCEPT ![tab[t].origin] = @ \cup {issue}]}
          /\ everAcked' \in {everAcked, [everAcked EXCEPT ![tab[t].origin] = @ \cup {issue}]}
        BY <2>12 DEF ToggleAcknowledged
    <3> HIDE DEF print, issue
    <3>6. /\ decided' \in [Origin -> SUBSET Prints] /\ everAcked' \in [Origin -> SUBSET Prints]
        BY <3>2, <3>5
    <3> QED BY <2>11, <3>2, <3>3, <3>4, <3>6
  <2>13. ASSUME NEW t \in Tab, ResetAcknowledged(t) PROVE TypeOK'
    <3>1. Decide(t, {})
        BY <2>13 DEF ResetAcknowledged
    <3>2. decided' \in [Origin -> SUBSET Prints] /\ everAcked' \in [Origin -> SUBSET Prints]
        BY <2>13 DEF ResetAcknowledged
    <3> QED BY <2>11, <3>1, <3>2
  <2>14. CASE UNCHANGED vars
      BY <2>14 DEF vars, history, Ready, Open
  <2> QED BY <2>1, <2>2, <2>3, <2>4, <2>5, <2>6, <2>7, <2>8, <2>9, <2>10, <2>12, <2>13, <2>14 DEF Next
<1> QED BY <1>1, <1>2, PTL DEF Spec

-----------------------------------------------------------------------------
(* No step leaves a page that is ready behind its controls, unless the     *)
(* debounce timer runs: a step either draws the page, starts the timer,    *)
(* takes the page away or touches nothing that is on show.                 *)
LEMMA RowsStep == TypeOK /\ RowsAreCurrent /\ [Next]_vars => RowsAreCurrent'
<1> SUFFICES ASSUME TypeOK, RowsAreCurrent, [Next]_vars, NEW r \in Tab, Ready(r)'
             PROVE  tab'[r].timer \/ Current(tab'[r])
    BY DEF RowsAreCurrent
<1>0. tab \in [Tab -> PageType \cup {None}]
    BY DEF TypeOK
<1>1. CASE tab'[r] = tab[r]
    BY <1>1 DEF RowsAreCurrent, Ready, Open
<1>2. ASSUME NEW p \in PageType, p.content # None, p.triage # None, tab'[r] = RenderAll(p)
      PROVE  Current(tab'[r])
    BY <1>2, Drawn
<1>3. ASSUME NEW t \in Tab, t # r, NEW q, tab' = [tab EXCEPT ![t] = q] PROVE tab'[r] = tab[r]
    BY <1>0, <1>3
<1>4. ASSUME NEW t \in Tab, Ready(t)
      PROVE  tab[t] \in PageType /\ tab[t].content # None /\ tab[t].triage # None
    BY <1>4 DEF TypeOK, Ready, Open
<1>5. CASE UNCHANGED tab
    BY <1>1, <1>5
<1>6. ASSUME NEW t \in Tab, OpenTab(t) PROVE tab'[r].timer \/ Current(tab'[r])
  <2>1. PICK q : tab' = [tab EXCEPT ![t] = q] /\ q.phase = "loading"
    <3>1. PICK set : tab' = [tab EXCEPT ![t] = Page(server.origin, set)]
        BY <1>6 DEF OpenTab
    <3>2. Page(server.origin, set).phase = "loading"
        BY DEF Page
    <3> QED BY <3>1, <3>2
  <2>2. t # r
      BY <1>0, <2>1 DEF Ready
  <2> QED BY <1>1, <1>3, <2>1, <2>2
<1>7. ASSUME NEW t \in Tab, FetchReport(t) \/ FetchTriage(t) PROVE tab'[r].timer \/ Current(tab'[r])
  <2>1. tab[t] \in PageType /\ tab[t].phase = "loading"
      BY <1>0, <1>7 DEF FetchReport, FetchTriage, Answer, Open
  <2>2. \/ \E v : tab' = [tab EXCEPT ![t] = [@ EXCEPT !.content = v]]
        \/ \E v : tab' = [tab EXCEPT ![t] = [@ EXCEPT !.triage = v]]
        \/ tab' = [tab EXCEPT ![t] = [@ EXCEPT !.phase = "failed"]]
      BY <1>7 DEF FetchReport, FetchTriage, Answer
  <2>3. PICK q : tab' = [tab EXCEPT ![t] = q] /\ q.phase # "ready"
    <3>1. \A v : [tab[t] EXCEPT !.content = v].phase # "ready"
        BY <2>1 DEF PageType
    <3>2. \A v : [tab[t] EXCEPT !.triage = v].phase # "ready"
        BY <2>1 DEF PageType
    <3>3. [tab[t] EXCEPT !.phase = "failed"].phase # "ready"
        BY <2>1 DEF PageType
    <3> QED BY <2>2, <3>1, <3>2, <3>3
  <2>4. t # r
      BY <1>0, <2>3 DEF Ready
  <2> QED BY <1>1, <1>3, <2>3, <2>4
<1>8. ASSUME NEW t \in Tab, Loaded(t) PROVE tab'[r].timer \/ Current(tab'[r])
  <2> DEFINE p == [tab[t] EXCEPT !.phase = "ready"]
  <2>1. p \in PageType /\ p.content # None /\ p.triage # None
      BY <1>0, <1>8 DEF Loaded, Open, PageType
  <2>2. tab' = [tab EXCEPT ![t] = RenderAll(p)]
      BY <1>8 DEF Loaded
  <2> HIDE DEF p
  <2> QED BY <1>0, <1>1, <1>2, <1>3, <2>1, <2>2
<1>9. ASSUME NEW t \in Tab, Close(t) PROVE tab'[r].timer \/ Current(tab'[r])
  <2>1. tab' = [tab EXCEPT ![t] = None]
      BY <1>9 DEF Close
  <2>2. t # r
      BY <1>0, <2>1 DEF Ready, Open
  <2> QED BY <1>1, <1>3, <2>1, <2>2
<1>10. ASSUME NEW t \in Tab, NEW s \in Controls[t], Change(t, s)
       PROVE  tab'[r].timer \/ Current(tab'[r])
  <2> DEFINE p == [tab[t] EXCEPT !.setting = s]
  <2>1. p \in PageType /\ p.content # None /\ p.triage # None
    <3>1. tab[t] \in PageType /\ tab[t].content # None /\ tab[t].triage # None
        BY <1>4, <1>10 DEF Change
    <3>2. s \in Setting
        BY ViewerAssumption
    <3> QED BY <3>1, <3>2 DEF PageType
  <2>2. tab' = [tab EXCEPT ![t] = RenderAll(p)]
      BY <1>10 DEF Change
  <2> HIDE DEF p
  <2> QED BY <1>0, <1>1, <1>2, <1>3, <2>1, <2>2
<1>11. ASSUME NEW t \in Tab, NEW s \in Controls[t], Search(t, s)
       PROVE  tab'[r].timer \/ Current(tab'[r])
  <2>1. tab' = [tab EXCEPT ![t] = [@ EXCEPT !.setting = s, !.timer = TRUE]]
      BY <1>11 DEF Search
  <2>2. tab[t] \in PageType
      BY <1>4, <1>11 DEF Search
  <2>3. [tab[t] EXCEPT !.setting = s, !.timer = TRUE].timer
      BY <2>2 DEF PageType
  <2>4. CASE t = r
      BY <1>0, <2>1, <2>3, <2>4
  <2>5. CASE t # r
      BY <1>1, <1>3, <2>1, <2>5
  <2> QED BY <2>4, <2>5
<1>12. ASSUME NEW t \in Tab, Debounced(t) PROVE tab'[r].timer \/ Current(tab'[r])
  <2> DEFINE p == [tab[t] EXCEPT !.timer = FALSE]
  <2>1. p \in PageType /\ p.content # None /\ p.triage # None
      BY <1>4, <1>12 DEF Debounced, PageType
  <2>2. tab' = [tab EXCEPT ![t] = RenderAll(p)]
      BY <1>12 DEF Debounced
  <2> HIDE DEF p
  <2> QED BY <1>0, <1>1, <1>2, <1>3, <2>1, <2>2
<1>13. ASSUME NEW t \in Tab, NEW u, SelectRow(t, u) PROVE tab'[r].timer \/ Current(tab'[r])
  <2> DEFINE q == [tab[t] EXCEPT !.selected = u]
  <2>1. tab' = [tab EXCEPT ![t] = q]
      BY <1>13 DEF SelectRow
  <2>2. CASE t # r
      BY <1>1, <1>3, <2>1, <2>2
  <2>3. CASE t = r
    <3>1. tab[r] \in PageType
        BY <1>4, <1>13, <2>3 DEF SelectRow
    <3>2. /\ q.content = tab[r].content /\ q.triage = tab[r].triage
          /\ q.setting = tab[r].setting /\ q.acknowledged = tab[r].acknowledged
          /\ q.timer = tab[r].timer /\ q.links = tab[r].links /\ q.selected = u
        BY <2>3, <3>1 DEF PageType
    <3>3. tab'[r] = q
        BY <1>0, <2>1, <2>3
    <3> HIDE DEF q
    <3>4. tab[r].timer \/ Current(tab[r])
        BY <1>13, <2>3 DEF RowsAreCurrent, SelectRow
    <3>5. LinkRows(q) = LinkRows(tab[r])
        BY <3>2, SameView
    <3>6. tab[r].setting.view = "links" /\ \E row \in tab[r].links : row.url = u
        BY <1>13, <2>3 DEF SelectRow
    <3> QED BY <3>2, <3>3, <3>4, <3>5, <3>6 DEF Current
  <2> QED BY <2>2, <2>3
<1>14. ASSUME NEW t \in Tab, NEW set, set \in SUBSET Prints, Decide(t, set)
       PROVE  tab'[r].timer \/ Current(tab'[r])
  <2> DEFINE p == [tab[t] EXCEPT !.acknowledged = set]
  <2>1. p \in PageType /\ p.content # None /\ p.triage # None
      BY <1>4, <1>14 DEF Decide, PageType
  <2>2. tab' = [tab EXCEPT ![t] = RenderAll(p)]
      BY <1>14 DEF Decide
  <2> HIDE DEF p
  <2> QED BY <1>0, <1>1, <1>2, <1>3, <2>1, <2>2
<1>15. ASSUME NEW t \in Tab, NEW u, ToggleAcknowledged(t, u)
       PROVE  tab'[r].timer \/ Current(tab'[r])
  <2> DEFINE print == tab[t].triage[u].fingerprint
  <2>1. Ready(t) /\ u \in DOMAIN tab[t].triage
      BY <1>15 DEF ToggleAcknowledged, HasIssue
  <2>2. print \in Prints
      BY <2>1, PageIssue
  <2>3. tab[t].acknowledged \in SUBSET Prints
      BY <1>4, <2>1 DEF PageType
  <2>4. \/ Decide(t, tab[t].acknowledged \ {print}) \/ Decide(t, tab[t].acknowledged \cup {print})
      BY <1>15 DEF ToggleAcknowledged
  <2> HIDE DEF print
  <2> QED BY <1>14, <2>2, <2>3, <2>4
<1>16. ASSUME NEW t \in Tab, ResetAcknowledged(t) PROVE tab'[r].timer \/ Current(tab'[r])
    BY <1>14, <1>16 DEF ResetAcknowledged
<1> QED
    BY <1>5, <1>6, <1>7, <1>8, <1>9, <1>10, <1>11, <1>12, <1>13, <1>15, <1>16
    DEF Next, Serve, StopServing, vars

THEOREM TablesAreCurrent == Spec => []RowsAreCurrent
<1>1. Init => RowsAreCurrent
    BY DEF Init, RowsAreCurrent, Ready, Open
<1>2. TypeOK /\ RowsAreCurrent /\ [Next]_vars => RowsAreCurrent'
    BY RowsStep
<1> QED BY <1>1, <1>2, TypeCorrect, PTL DEF Spec

-----------------------------------------------------------------------------
(* What is stored at an origin and what its pages hold was acknowledged    *)
(* there.  Where nothing went wrong, there is one page, and the storage    *)
(* and that page hold the users' last decisions.                           *)
Custody ==
    /\ \A o \in Origin : storage[o] \subseteq everAcked[o]
    /\ \A t \in Tab : Open(t) => tab[t].acknowledged \subseteq everAcked[tab[t].origin]
    /\ \A o \in Origin : ~troubled[o] => storage[o] = decided[o]
    /\ \A t \in Tab : Open(t) /\ ~troubled[tab[t].origin] =>
          tab[t].acknowledged = storage[tab[t].origin]
    /\ \A s, t \in Tab : Open(s) /\ Open(t) /\ tab[s].origin = tab[t].origin
                           /\ ~troubled[tab[t].origin] => s = t

(* A step that changes no storage, no decision and no page but for fields  *)
(* that have nothing to do with acknowledgements keeps the custody.        *)
LEMMA SamePages ==
    ASSUME Custody, UNCHANGED <<storage, history>>,
           \A s \in Tab : Open(s)' => /\ Open(s) /\ tab'[s].origin = tab[s].origin
                                     /\ tab'[s].acknowledged = tab[s].acknowledged
    PROVE  Custody'
BY DEF Custody, history, Open

LEMMA CustodyStep == TypeOK /\ Custody /\ [Next]_vars => Custody'
<1> SUFFICES ASSUME TypeOK, Custody, [Next]_vars PROVE Custody'
    OBVIOUS
<1>0. /\ tab \in [Tab -> PageType \cup {None}] /\ storage \in [Origin -> SUBSET Prints]
      /\ decided \in [Origin -> SUBSET Prints] /\ everAcked \in [Origin -> SUBSET Prints]
      /\ troubled \in [Origin -> BOOLEAN]
    BY DEF TypeOK
<1>1. ASSUME NEW t \in Tab, Open(t) PROVE tab[t] \in PageType /\ tab[t].origin \in Origin
    BY <1>0, <1>1 DEF Open, PageType
<1>2. ASSUME NEW t \in Tab, Ready(t)
      PROVE  tab[t].content # None /\ tab[t].triage # None
    BY <1>2 DEF TypeOK
(* Pages but for one stay; that one is drawn from p.                       *)
<1>3. ASSUME NEW t \in Tab, Open(t), UNCHANGED <<storage, history>>,
             NEW q, tab' = [tab EXCEPT ![t] = q],
             q.origin = tab[t].origin, q.acknowledged = tab[t].acknowledged
      PROVE  Custody'
    BY <1>0, <1>3, SamePages DEF Open
<1>4. ASSUME NEW t \in Tab, Open(t), UNCHANGED <<storage, history>>, NEW p \in PageType,
             p.content # None, p.triage # None, tab' = [tab EXCEPT ![t] = RenderAll(p)],
             p.origin = tab[t].origin, p.acknowledged = tab[t].acknowledged
      PROVE  Custody'
  <2>1. RenderAll(p).origin = tab[t].origin /\ RenderAll(p).acknowledged = tab[t].acknowledged
      BY <1>4, Drawn
  <2> QED BY <1>3, <1>4, <2>1
<1>5. CASE UNCHANGED <<tab, storage, history>>
    BY <1>5, SamePages DEF Open
<1>6. ASSUME NEW t \in Tab, OpenTab(t) PROVE Custody'
  <2>1. PICK granted \in BOOLEAN :
          /\ tab' = [tab EXCEPT ![t] = Page(server.origin, IF granted THEN storage[server.origin] ELSE {})]
          /\ troubled' = [troubled EXCEPT ![server.origin] =
                            @ \/ (\E s \in Tab \ {t} : Open(s) /\ tab[s].origin = server.origin) \/ ~granted]
      BY <1>6 DEF OpenTab
  <2> DEFINE o == server.origin
             q == Page(o, IF granted THEN storage[o] ELSE {})
  <2>2. o \in Origin /\ UNCHANGED <<storage, everAcked, decided>>
      BY <1>6 DEF OpenTab, TypeOK
  <2>3. q.origin = o /\ q.acknowledged = IF granted THEN storage[o] ELSE {}
      BY DEF Page
  <2>4. tab' = [tab EXCEPT ![t] = q]
      BY <2>1
  <2> HIDE DEF q, o
  <2>5. /\ \A p \in Origin : ~troubled'[p] => ~troubled[p]
        /\ ~troubled'[o] => granted /\ ~\E s \in Tab \ {t} : Open(s) /\ tab[s].origin = o
      BY <1>0, <2>1, <2>2 DEF o
  <2>6. \A s \in Tab : IF s = t THEN tab'[s] = q ELSE tab'[s] = tab[s]
      BY <1>0, <2>4
  <2>7. \A s \in Tab : Open(s)' =>
          tab'[s].acknowledged \subseteq everAcked'[tab'[s].origin]
      BY <2>2, <2>3, <2>6 DEF Custody, Open
  <2>8. \A s \in Tab : Open(s)' /\ ~troubled'[tab'[s].origin] =>
          tab'[s].acknowledged = storage'[tab'[s].origin]
      BY <1>1, <2>2, <2>3, <2>5, <2>6 DEF Custody, Open
  <2>9. \A r, s \in Tab : Open(r)' /\ Open(s)' /\ tab'[r].origin = tab'[s].origin
                           /\ ~troubled'[tab'[s].origin] => r = s
      BY <1>1, <2>3, <2>5, <2>6 DEF Custody, Open
  <2>10. \A p \in Origin : ~troubled'[p] => storage'[p] = decided'[p]
      BY <2>2, <2>5 DEF Custody
  <2> QED BY <2>2, <2>7, <2>8, <2>9, <2>10 DEF Custody
<1>7. ASSUME NEW t \in Tab, FetchReport(t) \/ FetchTriage(t) PROVE Custody'
  <2>1. Open(t) /\ tab[t] \in PageType
      BY <1>1, <1>7 DEF FetchReport, FetchTriage, Answer
  <2>2. \/ \E v : tab' = [tab EXCEPT ![t] = [@ EXCEPT !.content = v]]
        \/ \E v : tab' = [tab EXCEPT ![t] = [@ EXCEPT !.triage = v]]
        \/ tab' = [tab EXCEPT ![t] = [@ EXCEPT !.phase = "failed"]]
      BY <1>7 DEF FetchReport, FetchTriage, Answer
  <2>3. PICK q : /\ tab' = [tab EXCEPT ![t] = q]
                 /\ q.origin = tab[t].origin /\ q.acknowledged = tab[t].acknowledged
      BY <2>1, <2>2 DEF PageType
  <2> QED BY <1>3, <1>7, <2>1, <2>3 DEF FetchReport, FetchTriage, Answer
<1>8. ASSUME NEW t \in Tab, Loaded(t) PROVE Custody'
  <2> DEFINE p == [tab[t] EXCEPT !.phase = "ready"]
  <2>1. Open(t)
      BY <1>8 DEF Loaded
  <2>2. /\ p \in PageType /\ p.content # None /\ p.triage # None
        /\ p.origin = tab[t].origin /\ p.acknowledged = tab[t].acknowledged
      BY <1>1, <1>8 DEF Loaded, PageType
  <2>3. tab' = [tab EXCEPT ![t] = RenderAll(p)] /\ UNCHANGED <<storage, history>>
      BY <1>8 DEF Loaded
  <2> HIDE DEF p
  <2> QED BY <1>4, <2>1, <2>2, <2>3
<1>9. ASSUME NEW t \in Tab, Close(t) PROVE Custody'
  <2>1. tab' = [tab EXCEPT ![t] = None] /\ UNCHANGED <<storage, history>>
      BY <1>9 DEF Close
  <2> QED BY <1>0, <2>1, SamePages DEF Open
<1>10. ASSUME NEW t \in Tab, NEW s \in Controls[t], Change(t, s) PROVE Custody'
  <2> DEFINE p == [tab[t] EXCEPT !.setting = s]
  <2>1. Open(t)
      BY <1>10 DEF Change, Ready
  <2>2. s \in Setting
      BY ViewerAssumption
  <2>3. /\ p \in PageType /\ p.content # None /\ p.triage # None
        /\ p.origin = tab[t].origin /\ p.acknowledged = tab[t].acknowledged
      BY <1>1, <1>2, <1>10, <2>1, <2>2 DEF Change, PageType
  <2>4. tab' = [tab EXCEPT ![t] = RenderAll(p)] /\ UNCHANGED <<storage, history>>
      BY <1>10 DEF Change
  <2> HIDE DEF p
  <2> QED BY <1>4, <2>1, <2>3, <2>4
<1>11. ASSUME NEW t \in Tab, NEW s \in Controls[t], Search(t, s) PROVE Custody'
  <2> DEFINE q == [tab[t] EXCEPT !.setting = s, !.timer = TRUE]
  <2>1. Open(t)
      BY <1>11 DEF Search, Ready
  <2>2. q.origin = tab[t].origin /\ q.acknowledged = tab[t].acknowledged
      BY <1>1, <2>1 DEF PageType
  <2>3. tab' = [tab EXCEPT ![t] = q] /\ UNCHANGED <<storage, history>>
      BY <1>11 DEF Search
  <2> HIDE DEF q
  <2> QED BY <1>3, <2>1, <2>2, <2>3
<1>12. ASSUME NEW t \in Tab, Debounced(t) PROVE Custody'
  <2> DEFINE p == [tab[t] EXCEPT !.timer = FALSE]
  <2>1. Open(t)
      BY <1>12 DEF Debounced, Ready
  <2>2. /\ p \in PageType /\ p.content # None /\ p.triage # None
        /\ p.origin = tab[t].origin /\ p.acknowledged = tab[t].acknowledged
      BY <1>1, <1>2, <1>12, <2>1 DEF Debounced, PageType
  <2>3. tab' = [tab EXCEPT ![t] = RenderAll(p)] /\ UNCHANGED <<storage, history>>
      BY <1>12 DEF Debounced
  <2> HIDE DEF p
  <2> QED BY <1>4, <2>1, <2>2, <2>3
<1>13. ASSUME NEW t \in Tab, NEW u, SelectRow(t, u) PROVE Custody'
  <2> DEFINE q == [tab[t] EXCEPT !.selected = u]
  <2>1. Open(t)
      BY <1>13 DEF SelectRow, Ready
  <2>2. q.origin = tab[t].origin /\ q.acknowledged = tab[t].acknowledged
      BY <1>1, <2>1 DEF PageType
  <2>3. tab' = [tab EXCEPT ![t] = q] /\ UNCHANGED <<storage, history>>
      BY <1>13 DEF SelectRow
  <2> HIDE DEF q
  <2> QED BY <1>3, <2>1, <2>2, <2>3
(* A decision: the page and, unless it fails, the storage take the new set. *)
<1>14. ASSUME NEW t \in Tab, NEW set \in SUBSET Prints, Decide(t, set),
              LET o == tab[t].origin IN
              /\ everAcked' \in [Origin -> SUBSET Prints]
              /\ set \subseteq everAcked'[o]
              /\ \A r \in Origin : everAcked[r] \subseteq everAcked'[r]
              /\ \A r \in Origin \ {o} : decided'[r] = decided[r]
              /\ ~troubled[o] => decided'[o] = set
       PROVE  Custody'
  <2> DEFINE o == tab[t].origin
             p == [tab[t] EXCEPT !.acknowledged = set]
             q == RenderAll(p)
  <2>1. Open(t) /\ tab[t] \in PageType /\ o \in Origin
      BY <1>1, <1>14 DEF Decide, Ready
  <2>2. p \in PageType /\ p.content # None /\ p.triage # None /\ p.origin = o /\ p.acknowledged = set
      BY <1>2, <1>14, <2>1 DEF Decide, PageType
  <2>3. tab' = [tab EXCEPT ![t] = q]
      BY <1>14 DEF Decide
  <2> HIDE DEF p
  <2>4. q.origin = o /\ q.acknowledged = set
      BY <2>2, Drawn
  <2> HIDE DEF q
  <2>5. \A s \in Tab : IF s = t THEN tab'[s] = q ELSE tab'[s] = tab[s]
      BY <1>0, <2>3
  <2>6. PICK written \in BOOLEAN :
          /\ storage' = IF written THEN [storage EXCEPT ![o] = set] ELSE storage
          /\ troubled' = IF written THEN troubled ELSE [troubled EXCEPT ![o] = TRUE]
      BY <1>14 DEF Decide, Save
  <2> HIDE DEF o
  <2>7. /\ \A r \in Origin : storage'[r] = IF r = o /\ written THEN set ELSE storage[r]
        /\ \A r \in Origin : troubled'[r] = (troubled[r] \/ (r = o /\ ~written))
      BY <1>0, <2>1, <2>6
  <2>8. \A r \in Origin : storage'[r] \subseteq everAcked'[r]
      BY <1>14, <2>7 DEF Custody, o
  <2>9. \A s \in Tab : Open(s)' => tab'[s].acknowledged \subseteq everAcked'[tab'[s].origin]
      BY <1>1, <1>14, <2>1, <2>4, <2>5 DEF Custody, Open, o
  <2>10. \A r \in Origin : ~troubled'[r] => storage'[r] = decided'[r]
      BY <1>14, <2>7 DEF Custody, o
  <2>11. \A s \in Tab : Open(s)' => tab'[s].origin \in Origin
      BY <1>1, <2>1, <2>4, <2>5 DEF Open
  <2>12. \A r, s \in Tab : Open(r)' /\ Open(s)' /\ tab'[r].origin = tab'[s].origin
                           /\ ~troubled'[tab'[s].origin] => r = s
    <3>1. \A s \in Tab : Open(s)' => Open(s) /\ tab'[s].origin = tab[s].origin
        BY <2>1, <2>4, <2>5 DEF Open, o
    <3> QED BY <2>7, <2>11, <3>1 DEF Custody
  <2>13. \A s \in Tab : Open(s)' /\ ~troubled'[tab'[s].origin] =>
          tab'[s].acknowledged = storage'[tab'[s].origin]
    <3> SUFFICES ASSUME NEW s \in Tab, Open(s)', ~troubled'[tab'[s].origin]
                 PROVE  tab'[s].acknowledged = storage'[tab'[s].origin]
        OBVIOUS
    <3>1. CASE s = t
        BY <2>1, <2>4, <2>5, <2>7, <3>1
    <3>2. CASE s # t
      <4>1. Open(s) /\ tab'[s] = tab[s] /\ tab[s].origin \in Origin /\ ~troubled[tab[s].origin]
          BY <1>1, <2>5, <2>7, <3>2 DEF Open
      <4>2. tab[s].origin # o
          BY <2>1, <3>2, <4>1 DEF Custody, o
      <4>3. tab[s].acknowledged = storage[tab[s].origin]
          BY <4>1 DEF Custody
      <4> QED BY <2>7, <4>1, <4>2, <4>3
    <3> QED BY <3>1, <3>2
  <2> QED BY <2>8, <2>9, <2>10, <2>12, <2>13 DEF Custody
<1>15. ASSUME NEW t \in Tab, NEW u, ToggleAcknowledged(t, u) PROVE Custody'
  <2> DEFINE o == tab[t].origin
             old == tab[t].acknowledged
             print == tab[t].triage[u].fingerprint
             issue == [url |-> u, problem |-> tab[t].triage[u].problem]
  <2>1. Ready(t) /\ u \in DOMAIN tab[t].triage
      BY <1>15 DEF ToggleAcknowledged, HasIssue
  <2>2. print = issue /\ print \in Prints
      BY <2>1, PageIssue
  <2>3. Open(t) /\ old \in SUBSET Prints /\ o \in Origin
      BY <1>1, <2>1 DEF Ready, PageType
  <2>4. /\ print \in old => /\ Decide(t, old \ {print}) /\ UNCHANGED everAcked
                            /\ decided' = [decided EXCEPT ![o] = @ \ {issue}]
        /\ print \notin old => /\ Decide(t, old \cup {print})
                               /\ everAcked' = [everAcked EXCEPT ![o] = @ \cup {issue}]
                               /\ decided' = [decided EXCEPT ![o] = @ \cup {issue}]
      BY <1>15 DEF ToggleAcknowledged
  <2>5. old \subseteq everAcked[o] /\ (~troubled[o] => old = decided[o])
      BY <2>3 DEF Custody
  <2> HIDE DEF print, issue, old
  <2>6. CASE print \in old
    <3>1. /\ decided'[o] = decided[o] \ {print}
          /\ \A r \in Origin \ {o} : decided'[r] = decided[r]
        BY <1>0, <2>2, <2>3, <2>4, <2>6
    <3> QED BY <1>0, <1>14, <2>3, <2>4, <2>5, <2>6, <3>1
  <2>7. CASE print \notin old
    <3>1. /\ decided'[o] = decided[o] \cup {print}
          /\ everAcked'[o] = everAcked[o] \cup {print}
          /\ \A r \in Origin \ {o} : decided'[r] = decided[r] /\ everAcked'[r] = everAcked[r]
          /\ everAcked' \in [Origin -> SUBSET Prints]
        BY <1>0, <2>2, <2>3, <2>4, <2>7
    <3> HIDE DEF o
    <3>2. old \cup {print} \in SUBSET Prints
        BY <2>2, <2>3
    <3>3. old \cup {print} \subseteq everAcked'[o]
        BY <2>5, <3>1
    <3>4. \A r \in Origin : everAcked[r] \subseteq everAcked'[r]
        BY <2>3, <3>1
    <3>5. ~troubled[o] => decided'[o] = old \cup {print}
        BY <2>5, <3>1
    <3> QED BY <1>14, <2>3, <2>4, <2>7, <3>1, <3>2, <3>3, <3>4, <3>5 DEF o
  <2> QED BY <2>6, <2>7
<1>16. ASSUME NEW t \in Tab, ResetAcknowledged(t) PROVE Custody'
  <2>1. /\ Decide(t, {}) /\ UNCHANGED everAcked
        /\ decided' = [decided EXCEPT ![tab[t].origin] = {}]
      BY <1>16 DEF ResetAcknowledged
  <2>2. tab[t].origin \in Origin
      BY <1>1, <2>1 DEF Decide, Ready
  <2> QED BY <1>0, <1>14, <2>1, <2>2
<1> QED
    BY <1>5, <1>6, <1>7, <1>8, <1>9, <1>10, <1>11, <1>12, <1>13, <1>15, <1>16
    DEF Next, Serve, StopServing, vars, history

LEMMA CustodyHolds == Spec => []Custody
<1>1. Init => Custody
    BY DEF Init, Custody, Open
<1>2. TypeOK /\ Custody /\ [Next]_vars => Custody'
    BY CustodyStep
<1> QED BY <1>1, <1>2, TypeCorrect, PTL DEF Spec

(* No issue is hidden or shown as acknowledged that was not acknowledged   *)
(* at its origin, on that link and for that problem.                       *)
THEOREM NothingHiddenUnasked == Spec => []OnlyAcknowledgedHidden
<1>1. TypeOK /\ Custody => OnlyAcknowledgedHidden
  <2> SUFFICES ASSUME TypeOK, Custody, NEW t \in Tab, Ready(t), NEW u, IsAcknowledged(tab[t], u)
               PROVE  [url |-> u, problem |-> tab[t].triage[u].problem] \in everAcked[tab[t].origin]
      BY DEF OnlyAcknowledgedHidden
  <2>1. u \in DOMAIN tab[t].triage /\ tab[t].triage[u].fingerprint \in tab[t].acknowledged
      BY DEF IsAcknowledged, HasIssue
  <2>2. tab[t].triage[u].fingerprint = [url |-> u, problem |-> tab[t].triage[u].problem]
      BY <2>1, PageIssue
  <2>3. tab[t].acknowledged \subseteq everAcked[tab[t].origin]
      BY DEF Custody, Ready
  <2> QED BY <2>1, <2>2, <2>3
<1> QED BY <1>1, TypeCorrect, CustodyHolds, PTL

(* Where one tab at a time was open and storage did not fail, a page shows *)
(* the users' last decisions.                                              *)
THEOREM LastDecisionsShown == Spec => []DecisionsKept
<1>1. TypeOK /\ Custody => DecisionsKept
  <2> SUFFICES ASSUME TypeOK, Custody, NEW t \in Tab, Ready(t), ~troubled[tab[t].origin],
                      NEW u \in DOMAIN tab[t].triage
               PROVE  IsAcknowledged(tab[t], u) <=>
                        [url |-> u, problem |-> tab[t].triage[u].problem] \in decided[tab[t].origin]
      BY DEF DecisionsKept
  <2>1. tab[t].triage[u].fingerprint = [url |-> u, problem |-> tab[t].triage[u].problem]
      BY PageIssue
  <2>2. tab[t].origin \in Origin
      BY DEF TypeOK, Ready, Open, PageType
  <2>3. tab[t].acknowledged = decided[tab[t].origin]
      BY <2>2 DEF Custody, Ready
  <2> QED BY <2>1, <2>3 DEF IsAcknowledged, HasIssue
<1> QED BY <1>1, TypeCorrect, CustodyHolds, PTL
=============================================================================
