----------------------------- MODULE MCCheckRun ------------------------------
(* Families of calls, two runs each, the second the same call or one that  *)
(* takes an output of the first for its baseline: path flags that lead to  *)
(* files apart and to the same one; policy flags, repeated and in every    *)
(* place around the entry URL, over a config file that says otherwise;     *)
(* command lines and files that are refused.                               *)
EXTENDS CheckRun, TLC

CONSTANTS f1, f2, f3, f4

MCFile == {f1, f2, f3, f4}

MCConfigName == {"araneae.yaml", ".araneae.yaml", "other.yaml"}

Text == {"", "text", "markdown", "all", "new", "malformed", "unset",
         "araneae-report.json", "site", "page", "report", "base", "link", "comparison", "summary"}

MCValue == Number \cup Boolean \cup MCConfigName \cup Text

(* "link" is another name of the baseline. *)
MCLeadsTo == [text \in MCValue |->
                CASE text = "" -> None
                  [] text = "araneae-report.json" -> f1
                  [] text \in {"base", "link"} -> f2
                  [] text = "comparison" -> f3
                  [] OTHER -> f4]

Word(text) == [kind |-> "word", name |-> "", text |-> text]
Flag(name) == [kind |-> "flag", name |-> name, text |-> ""]
Inline(name, text) == [kind |-> "inline", name |-> name, text |-> text]
Dashes == [kind |-> "dashes", name |-> "", text |-> ""]
Help   == [kind |-> "help", name |-> "", text |-> ""]
With(name, text) == <<Flag(name), Word(text)>>

NoFile == [path \in MCConfigName |-> [state |-> "absent", values |-> NothingGiven]]
Filed(path, values) == [NoFile EXCEPT ![path] = [state |-> "ok", values |-> values @@ NothingGiven]]

Called(command, args, configs) ==
    [command |-> command, args |-> args, configs |-> configs, ciSummary |-> ""]

PathSetups ==
    {Called("check", <<Word("site")>> \o b \o c \o s, NoFile) :
        b \in {<<>>, With("baseline", "araneae-report.json"), With("baseline", "link")},
        c \in {<<>>, With("comparison-out", "base"), With("comparison-out", "comparison")},
        s \in {<<>>, With("github-step-summary", "link"), With("github-step-summary", "summary")}}

(* The same groups of flags with the entry URL in every place. *)
Around(groups) ==
    {FlattenSeq(SubSeq(groups, 1, i)) \o <<Word("site")>>
        \o FlattenSeq(SubSeq(groups, i + 1, Len(groups))) : i \in 0..Len(groups)}

PolicyFile ==
    Filed(".araneae.yaml",
          "fail-on-dead" :> <<"true">> @@ "fail-on" :> <<"new">> @@ "baseline" :> <<"base">>
            @@ "header" :> <<"unset">> @@ "ci" :> <<"true">> @@ "retries" :> <<"huge">>)

PolicySetups ==
    {[Called(command, args, PolicyFile) EXCEPT !.ciSummary = "summary"] :
        command \in {"check"},
        args \in Around(<<<<Flag("fail-on-non-200")>>, With("header", "text"), <<Inline("retries", "zero")>>,
                          With("fail-on", "new"), With("fail-on", "all")>>)
                 \cup Around(<<<<Inline("fail-on-dead", "true")>>, <<Inline("fail-on-dead", "false")>>,
                               With("retries", "moderate"), With("header", "text"),
                               <<Flag("fail-on-truncated")>>>>)}
    \cup {Called("scan", args, configs) :
             args \in Around(<<<<Flag("fail-on-dead")>>, <<Inline("out", "report")>>,
                               With("allow-host", "site"), With("allow-host", "page")>>),
             configs \in {NoFile, Filed("araneae.yaml", "fail-on-non-200" :> <<"true">>
                                                      @@ "fail-on-dead" :> <<"false">>)}}

OtherSetups ==
    {Called("scan", args, Filed("other.yaml", "entry-url" :> <<"site">> @@ "out" :> <<"report">>
                                                @@ "fail-on-dead" :> <<"true">>)) :
        args \in {With("config", "other.yaml"), With("config", "araneae.yaml"),
                  With("config", "") \o <<Word("site")>>,
                  \* the entry URL becomes the value of the last flag
                  With("config", "other.yaml") \o <<Word("page"), Flag("out")>>,
                  <<Word("site"), Dashes, Word("page")>>, <<Word("site"), Word("page")>>,
                  <<Dashes, Flag("fail-on-dead"), Word("site")>>,
                  <<Flag("ci"), Word("site")>>, <<Help>>, <<Word("site"), Inline("retries", "all")>>,
                  <<Word("site"), Inline("max-sitemap-urls", "zero")>>, <<>>, <<Flag("out")>>,
                  <<Word("site"), Inline("out", "")>>}}
    \cup {Called("scan", <<Word("site")>>, Filed("araneae.yaml", "summary" :> <<"all">>)),
          Called("scan", <<Word("site")>>, [NoFile EXCEPT !["araneae.yaml"].state = "broken"]),
          Called("check", <<Word("site"), Flag("ci"), Inline("summary", "all")>>, NoFile)}

(* Checks that take for their baseline what an earlier run was to write. *)
Successors ==
    {Called("check", <<Word("site")>> \o With("baseline", text) \o With("out", "report"), NoFile) :
        text \in {"araneae-report.json", "base", "comparison"}}

MCSetups == PathSetups \cup PolicySetups \cup OtherSetups \cup Successors

MCFollows == {<<s, s>> : s \in MCSetups} \cup (PathSetups \X Successors)
=============================================================================
