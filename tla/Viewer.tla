-------------------------------- MODULE Viewer --------------------------------
(***************************************************************************)
(* `araneae serve' and the pages it serves: runServeCommand of             *)
(* internal/cli/serve.go, the handlers of internal/ui/server.go, and the   *)
(* script internal/ui/static/app.js in each browser tab.                   *)
(*                                                                         *)
(* The server holds one report and its triage from start to end.  A tab    *)
(* reads the acknowledged fingerprints from the storage of its origin when *)
(* its script starts, fetches report and triage, and asks for nothing      *)
(* more.  Tabs of one origin share the storage and never hear of another's *)
(* writes.  The order of the rows is left out.                             *)
(***************************************************************************)
EXTENDS Triage, Naturals

CONSTANTS
    Tab,
    Origin,        \* the addresses that servers listen on
    Served,        \* pairs [report, before] given to `serve' (before: --baseline or NoReport)
    Skipped,       \* [report -> set of the URLs of its skipped links]
    Term,          \* search terms, each a whole word; "" searches for nothing
    TextMatches,   \* [Term -> set of URLs whose link or skipped entry has the term in its text]
    Controls,      \* [Tab -> set of the settings its user may choose], see Setting
    Clicked,       \* [Tab -> set of the URLs whose details its user may ask for]
    Default,       \* the settings of a page just loaded
    None,          \* nothing selected, no server, no page
    MaxDecisions   \* bound: toggles and resets

(* What the controls of a page are set to, the buttons for the view too. *)
Setting ==
    [filter : {"all", "dead", "non200", "redirecting", "ok"},
     select : [Dimension -> STRING], hide : BOOLEAN, term : Term, view : {"links", "skipped"}]

ASSUME ViewerAssumption ==
    /\ \A t \in Tab : Controls[t] \subseteq Setting
    /\ Default \in Setting /\ Default.view = "links" /\ Default.term = ""
    /\ "" \in Term /\ TextMatches \in [Term -> SUBSET UNION {URLs(s.report) \cup Skipped[s.report] : s \in Served}]
    /\ \A s \in Served : None \notin URLs(s.report)

ASSUME BoundAssumption == MaxDecisions \in Nat

VARIABLES
    server,        \* None or [origin, content]; content \in Served
    storage,       \* [Origin -> the acknowledged fingerprints stored]
    tab,           \* [Tab -> the page, see Page; None when closed]
    decisions,
    \* history: what users decided at an origin
    everAcked,     \* [Origin -> the links with the problem they were acknowledged for]
    decided,       \* [Origin -> those whose last decision was to acknowledge]
    troubled       \* [Origin -> storage failed, or two tabs were open there at once]

vars == <<server, storage, tab, decisions, everAcked, decided, troubled>>

history == <<everAcked, decided, troubled>>

-----------------------------------------------------------------------------
(* app.js, on one page p: [origin, phase, content, triage, acknowledged,   *)
(* setting, timer, links, skipped, selected].  `content' and `triage' are  *)
(* the servers' answers, `links' and `skipped' the rows of the two tables. *)

Report(p) == p.content.report

HasIssue(p, u) == u \in DOMAIN p.triage

(* The term matches the text of the link, or a word of its issue. *)
MatchesTerm(p, u) ==
    \/ p.setting.term = ""
    \/ u \in TextMatches[p.setting.term]
    \/ /\ HasIssue(p, u)
       /\ p.setting.term \in {p.triage[u].severity, p.triage[u].state,
                              p.triage[u].problem, p.triage[u].host}

MatchesFilter(p, link) ==
    CASE p.setting.filter = "dead" -> link.dead
      [] p.setting.filter = "non200" -> link.non200
      [] p.setting.filter = "redirecting" -> link.redirected
      [] p.setting.filter = "ok" -> link.ok
      [] OTHER -> TRUE

IsAcknowledged(p, u) == HasIssue(p, u) /\ p.triage[u].fingerprint \in p.acknowledged

(* A link without an issue passes when no select is used, whatever `hide' says. *)
MatchesTriageFilters(p, u) ==
    IF HasIssue(p, u)
    THEN /\ ~(p.setting.hide /\ IsAcknowledged(p, u))
         /\ MatchesSelects(p.triage[u], p.setting.select)
    ELSE \A d \in Dimension : p.setting.select[d] = ""

FilteredLinks(p) ==
    {u \in URLs(Report(p)) :
        MatchesFilter(p, Report(p).links[u]) /\ MatchesTerm(p, u) /\ MatchesTriageFilters(p, u)}

(* A row shows the state of its issue: the badge and the button's label. *)
LinkRows(p) == {[url |-> u, acknowledged |-> IsAcknowledged(p, u)] : u \in FilteredLinks(p)}

SkippedRows(p) ==
    {u \in Skipped[Report(p)] : p.setting.term = "" \/ u \in TextMatches[p.setting.term]}

(* renderAll draws the table in view only; renderLinks clears the detail   *)
(* of a link that is filtered out (preserveSelectedLink).                  *)
RenderAll(p) ==
    IF p.setting.view = "links"
    THEN [p EXCEPT !.links = LinkRows(p),
                   !.selected = IF @ \in FilteredLinks(p) THEN @ ELSE None]
    ELSE [p EXCEPT !.skipped = SkippedRows(p)]

Page(origin, loaded) ==
    [origin |-> origin, phase |-> "loading", content |-> None, triage |-> None,
     acknowledged |-> loaded, setting |-> Default, timer |-> FALSE,
     links |-> {}, skipped |-> {}, selected |-> None]

Open(t) == tab[t] # None
Ready(t) == Open(t) /\ tab[t].phase = "ready"

-----------------------------------------------------------------------------
Init ==
    /\ server = None
    /\ storage = [o \in Origin |-> {}]
    /\ tab = [t \in Tab |-> None]
    /\ decisions = 0
    /\ everAcked = [o \in Origin |-> {}]
    /\ decided = [o \in Origin |-> {}]
    /\ troubled = [o \in Origin |-> FALSE]

(* runServeCommand reads the files, builds the triage, listens.  The       *)
(* default --addr 127.0.0.1:0 leaves the port, and so the origin, to the   *)
(* operating system.                                                       *)
Serve(o, content) ==
    /\ server = None
    /\ server' = [origin |-> o, content |-> content]
    /\ UNCHANGED <<storage, tab, decisions, history>>

StopServing ==
    /\ server # None
    /\ server' = None
    /\ UNCHANGED <<storage, tab, decisions, history>>

(* The script starts: loadAcknowledged, which answers with nothing when    *)
(* the browser refuses access to the storage.                              *)
OpenTab(t) ==
    /\ server # None /\ ~Open(t)
    /\ LET o == server.origin
           shared == \E s \in Tab \ {t} : Open(s) /\ tab[s].origin = o
       IN  \E granted \in BOOLEAN :
             /\ tab' = [tab EXCEPT ![t] = Page(o, IF granted THEN storage[o] ELSE {})]
             /\ troubled' = [troubled EXCEPT ![o] = @ \/ shared \/ ~granted]
    /\ UNCHANGED <<server, storage, decisions, everAcked, decided>>

(* fetch: the answer of whichever server listens at the page's origin now; *)
(* without one, main reports the failure and does nothing more.            *)
Reachable(t) == server # None /\ server.origin = tab[t].origin

Answer(t, field, value) ==
    /\ Open(t) /\ tab[t].phase = "loading" /\ tab[t][field] = None
    /\ tab' = IF Reachable(t) THEN [tab EXCEPT ![t][field] = value]
              ELSE [tab EXCEPT ![t].phase = "failed"]
    /\ UNCHANGED <<server, storage, decisions, history>>

FetchReport(t) == Answer(t, "content", server.content)

FetchTriage(t) == Answer(t, "triage", Issues(server.content.report, server.content.before))

(* main, once both answers are in. *)
Loaded(t) ==
    /\ Open(t) /\ tab[t].phase = "loading" /\ tab[t].content # None /\ tab[t].triage # None
    /\ tab' = [tab EXCEPT ![t] = RenderAll([@ EXCEPT !.phase = "ready"])]
    /\ UNCHANGED <<server, storage, decisions, history>>

Close(t) ==
    /\ Open(t)
    /\ tab' = [tab EXCEPT ![t] = None]
    /\ UNCHANGED <<server, storage, decisions, history>>

(* A select, the check box or a button for the view: rendered at once,     *)
(* with whatever is in the search field.                                   *)
Change_NotRendered(t, s) ==
    /\ Ready(t) /\ s.term = tab[t].setting.term /\ s # tab[t].setting
    /\ tab' = [tab EXCEPT ![t].setting = s]
    /\ UNCHANGED <<server, storage, decisions, history>>
Change(t, s) ==
    /\ Ready(t) /\ s.term = tab[t].setting.term /\ s # tab[t].setting
    /\ tab' = [tab EXCEPT ![t] = RenderAll([@ EXCEPT !.setting = s])]
    /\ UNCHANGED <<server, storage, decisions, history>>

(* The search field: rendered when the user has paused for 120 ms. *)
Search(t, s) ==
    /\ Ready(t) /\ s.term # tab[t].setting.term /\ s = [tab[t].setting EXCEPT !.term = s.term]
    /\ tab' = [tab EXCEPT ![t].setting = s, ![t].timer = TRUE]
    /\ UNCHANGED <<server, storage, decisions, history>>

Debounced(t) ==
    /\ Ready(t) /\ tab[t].timer
    /\ tab' = [tab EXCEPT ![t] = RenderAll([@ EXCEPT !.timer = FALSE])]
    /\ UNCHANGED <<server, storage, decisions, history>>

SelectRow(t, u) ==
    /\ Ready(t) /\ tab[t].setting.view = "links"
    /\ \E row \in tab[t].links : row.url = u
    /\ tab[t].selected # u
    /\ tab' = [tab EXCEPT ![t].selected = u]
    /\ UNCHANGED <<server, storage, decisions, history>>

(* saveAcknowledged writes the whole set, or nothing: it swallows errors. *)
Save_ThisReportOnly(t, set) ==
    LET o == tab[t].origin
        mine == {tab[t].triage[u].fingerprint : u \in DOMAIN tab[t].triage}
    IN  \E written \in BOOLEAN :
          /\ storage' = IF written THEN [storage EXCEPT ![o] = set \cap mine] ELSE storage
          /\ troubled' = IF written THEN troubled ELSE [troubled EXCEPT ![o] = TRUE]
Save(t, set) ==
    LET o == tab[t].origin
    IN  \E written \in BOOLEAN :
          /\ storage' = IF written THEN [storage EXCEPT ![o] = set] ELSE storage
          /\ troubled' = IF written THEN troubled ELSE [troubled EXCEPT ![o] = TRUE]

(* What a toggle and a reset have in common. *)
Decide(t, set) ==
    /\ Ready(t) /\ decisions < MaxDecisions
    /\ decisions' = decisions + 1
    /\ Save(t, set)
    /\ tab' = [tab EXCEPT ![t] = RenderAll([@ EXCEPT !.acknowledged = set])]
    /\ UNCHANGED server

(* The button of a row shown, with the state the user sees on it. *)
ToggleAcknowledged(t, u) ==
    /\ Ready(t) /\ tab[t].setting.view = "links" /\ HasIssue(tab[t], u)
    /\ \E row \in tab[t].links : row.url = u
    /\ LET print == tab[t].triage[u].fingerprint
           issue == [url |-> u, problem |-> tab[t].triage[u].problem]
           old   == tab[t].acknowledged
           o     == tab[t].origin
       IN  IF print \in old
           THEN /\ Decide(t, old \ {print})
                /\ decided' = [decided EXCEPT ![o] = @ \ {issue}]
                /\ UNCHANGED everAcked
           ELSE /\ Decide(t, old \cup {print})
                /\ decided' = [decided EXCEPT ![o] = @ \cup {issue}]
                /\ everAcked' = [everAcked EXCEPT ![o] = @ \cup {issue}]

ResetAcknowledged(t) ==
    /\ Decide(t, {})
    /\ decided' = [decided EXCEPT ![tab[t].origin] = {}]
    /\ UNCHANGED everAcked

Next ==
    \/ StopServing \/ \E o \in Origin, c \in Served : Serve(o, c)
    \/ \E t \in Tab :
        \/ OpenTab(t) \/ FetchReport(t) \/ FetchTriage(t) \/ Loaded(t) \/ Close(t)
        \/ Debounced(t) \/ ResetAcknowledged(t)
        \/ \E s \in Controls[t] : Change(t, s) \/ Search(t, s)
        \/ \E u \in Clicked[t] : SelectRow(t, u)
        \/ Ready(t) /\ \E u \in URLs(Report(tab[t])) : ToggleAcknowledged(t, u)

Spec == Init /\ [][Next]_vars

-----------------------------------------------------------------------------
ServedLinks == UNION {URLs(s.report) : s \in Served}
Prints == UNION {Fingerprints(s.report) : s \in Served}

PageType ==
    [origin : Origin, phase : {"loading", "ready", "failed"},
     content : Served \cup {None},
     triage : {Issues(s.report, s.before) : s \in Served} \cup {None},
     acknowledged : SUBSET Prints,
     setting : Setting, timer : BOOLEAN,
     links : SUBSET [url : ServedLinks, acknowledged : BOOLEAN],
     skipped : SUBSET UNION {Skipped[s.report] : s \in Served},
     selected : ServedLinks \cup {None}]

(* Every variable has its type, and a page that is ready has its data. *)
TypeOK ==
    /\ server \in [origin : Origin, content : Served] \cup {None}
    /\ storage \in [Origin -> SUBSET Prints]
    /\ tab \in [Tab -> PageType \cup {None}]
    /\ \A t \in Tab : Ready(t) => tab[t].content # None /\ tab[t].triage # None
    /\ decisions \in 0..MaxDecisions
    /\ decided \in [Origin -> SUBSET Prints]
    /\ everAcked \in [Origin -> SUBSET Prints]
    /\ troubled \in [Origin -> BOOLEAN]

(* A page is current: the table in view shows what the controls ask for,   *)
(* and each row the state of its issue; the detail is of a link shown.     *)
Current(p) ==
    IF p.setting.view = "links"
    THEN /\ p.links = LinkRows(p)
         /\ p.selected # None => \E row \in p.links : row.url = p.selected
    ELSE p.skipped = SkippedRows(p)

(* A page may lag behind its controls only while the pause after typing    *)
(* lasts: no order of switching tables, filtering, searching, hiding and   *)
(* acknowledging leaves a table that nothing will draw again.              *)
RowsAreCurrent == \A t \in Tab : Ready(t) => tab[t].timer \/ Current(tab[t])

(* Whatever tabs, servers and reports share an origin, and however storage *)
(* fails: no issue is taken for acknowledged that was not acknowledged     *)
(* there, on that link and for that problem.                               *)
OnlyAcknowledgedHidden ==
    \A t \in Tab : Ready(t) =>
        \A u \in URLs(Report(tab[t])) : IsAcknowledged(tab[t], u) =>
            [url |-> u, problem |-> tab[t].triage[u].problem] \in everAcked[tab[t].origin]

(* docs/reports-and-ui.md: "Browser-local acknowledged state keyed by      *)
(* stable issue fingerprints."  At an origin where one tab at a time was   *)
(* open and storage never failed, a page shows exactly what users last     *)
(* decided there: across reloads, restarts and other reports.              *)
DecisionsKept ==
    \A t \in Tab : Ready(t) /\ ~troubled[tab[t].origin] =>
        \A u \in DOMAIN tab[t].triage :
            IsAcknowledged(tab[t], u) <=>
                [url |-> u, problem |-> tab[t].triage[u].problem] \in decided[tab[t].origin]
=============================================================================
