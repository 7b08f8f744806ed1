------------------------------- MODULE MCViewer ------------------------------
(* Two reports on two links, served in turn, without and with the other as  *)
(* the baseline: between them a problem goes and another stays.  One tab    *)
(* with controls to use, and a second one that only toggles and resets.     *)
EXTENDS Viewer, TLC

CONSTANTS u1, u2, s1, t1, t2

MCId == {"intro"}
MCEscape == [i \in MCId |-> i]

Verdict(error, status) ==
    LinkHealth([error |-> error, status |-> status, html |-> FALSE, redirected |-> FALSE],
               NoFragment, {})

R1 == [links |-> u1 :> Verdict("", 404) @@ u2 :> Verdict("", 503)]
R2 == [links |-> u1 :> Verdict("timeout", 0) @@ u2 :> Verdict("", 503)]

MCTab == {t1, t2}
MCServed == {[report |-> R1, before |-> NoReport], [report |-> R2, before |-> R1]}
MCSkipped == R1 :> {s1} @@ R2 :> {}
MCHost == u1 :> "a.example" @@ u2 :> ""
MCSources == u1 :> {"/p"} @@ u2 :> {}
MCTerm == {"", "timeout"}
MCTextMatches == "" :> {} @@ "timeout" :> {s1}

All == [d \in Dimension |-> ""]
MCDefault == [filter |-> "all", select |-> All, hide |-> FALSE, term |-> "", view |-> "links"]

MCClicked == t1 :> {u2} @@ t2 :> {}

(* A search, and with it hiding and the other table. *)
MCControls ==
    t1 :> {MCDefault, [MCDefault EXCEPT !.term = "timeout"],
           [MCDefault EXCEPT !.hide = TRUE, !.term = "timeout"],
           [MCDefault EXCEPT !.view = "skipped", !.term = "timeout"]}
      @@ t2 :> {MCDefault}
=============================================================================
