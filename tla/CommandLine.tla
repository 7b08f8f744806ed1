---------------------------- MODULE CommandLine -----------------------------
(***************************************************************************)
(* How scan and check come to their options: interspersePositionals of     *)
(* internal/cli/args.go, parseScanCoreArgs of scan.go, parseCheckArgs of   *)
(* check.go and the YAML file of config.go.                                *)
(*                                                                         *)
(* A token of the command line is a word, a flag, a flag with its value    *)
(* after "=", the end of flags ("--") or a request for help.  Texts are    *)
(* told apart as far as the code does: numbers by the ranges it checks     *)
(* (NaN and the infinities count as negative), headers and URLs by being   *)
(* malformed.  A header without a value, which the code refuses when more  *)
(* words follow, is left out.                                              *)
(***************************************************************************)
EXTENDS SequencesExt, Subsequence

CONSTANTS Value, ConfigName

Number   == {"negative", "zero", "moderate", "huge"}
Boolean  == {"true", "false"}

NumberFlag == {"max-pages", "timeout", "concurrency", "max-requests-per-second",
               "max-response-bytes", "retries", "retry-backoff", "max-sitemap-urls"}
ListFlag   == {"header", "allow-host", "sitemap"}
BoolFlag   == {"fail-on-dead", "fail-on-non-200", "fail-on-truncated", "ci"}
CheckFlag  == {"fail-on-truncated", "ci", "summary", "github-step-summary",
               "baseline", "fail-on", "comparison-out"}
ScanFlag   == NumberFlag \cup ListFlag \cup
              {"config", "out", "path-prefix", "local-root", "user-agent",
               "fail-on-dead", "fail-on-non-200"}
Defined(command) == ScanFlag \cup (IF command = "check" THEN CheckFlag ELSE {})

Option == ScanFlag \cup CheckFlag \cup {"entry-url"}

Token  == [kind : {"word"}, name : {""}, text : Value]
          \cup [kind : {"flag"}, name : Option \cup {"unknown"}, text : {""}]
          \cup [kind : {"inline"}, name : Option \cup {"unknown"}, text : Value]
          \cup [kind : {"dashes", "help"}, name : {""}, text : {""}]

(* "broken": unreadable, of another schema, with an unknown field, a value *)
(* of the wrong type or a second document.                                 *)
Config == [state : {"absent", "broken", "ok"}, values : [Option -> Seq(Value)]]

ASSUME ValueAssumption ==
    /\ Number \cup Boolean \cup {"", "text", "markdown", "all", "new", "malformed", "unset"} \subseteq Value
    /\ {"araneae.yaml", ".araneae.yaml", "araneae-report.json"} \subseteq Value
    /\ {"araneae.yaml", ".araneae.yaml"} \subseteq ConfigName /\ ConfigName \subseteq Value

-----------------------------------------------------------------------------
(* args.go: the flags with their values first, then the words.  Whatever   *)
(* follows a flag that takes a value is that value; a last flag without    *)
(* one is let through.                                                     *)
TakesNext(token) == token.kind = "flag" /\ token.name \notin BoolFlag

Place(command, acc, token) ==
    CASE acc.mode = "error" -> acc
      [] acc.mode = "rest"  -> [acc EXCEPT !.words = Append(@, token)]
      [] acc.mode = "value" -> [acc EXCEPT !.mode = "plain", !.flags = Append(@, token)]
      [] acc.mode = "plain" ->
           CASE token.kind = "dashes" -> [acc EXCEPT !.mode = "rest"]
             [] token.kind = "word"   -> [acc EXCEPT !.words = Append(@, token)]
             [] token.kind = "help"   -> [acc EXCEPT !.flags = Append(@, token)]
             [] OTHER ->
                  [acc EXCEPT
                    !.mode  = CASE token.name \notin Defined(command) -> "error"
                                [] token.name \in Defined(command) /\ TakesNext(token) -> "value"
                                [] OTHER -> "plain",
                    !.flags = Append(@, token)]

Sorted_AsTyped(command, args) == [mode |-> "plain", flags |-> args, words |-> <<>>]
Sorted(command, args) ==
    LET sorted[n \in 0..Len(args)] ==
            IF n = 0 THEN [mode |-> "plain", flags |-> <<>>, words |-> <<>>]
            ELSE Place(command, sorted[n - 1], args[n])
    IN  sorted[Len(args)]

NothingGiven == [option \in Option |-> <<>>]

Parses(flag, text) ==
    /\ flag \in NumberFlag => text \in Number
    /\ flag \in BoolFlag   => text \in Boolean

Store(acc, flag, text) ==
    IF Parses(flag, text)
    THEN [acc EXCEPT !.mode = "flags", !.given[flag] = Append(@, text)]
    ELSE [acc EXCEPT !.mode = "error"]

(* FlagSet.Parse: it stops at the first word, "--" or error.               *)
ParseOne(command, acc, token) ==
    CASE acc.mode \in {"error", "help"} -> acc
      [] acc.mode = "args"  -> [acc EXCEPT !.args = Append(@, token.text)]
      [] acc.mode = "value" -> Store(acc, acc.flag, token.text)
      [] acc.mode = "flags" ->
           CASE token.kind = "word"   -> [acc EXCEPT !.mode = "args", !.args = <<token.text>>]
             [] token.kind = "dashes" -> [acc EXCEPT !.mode = "args"]
             [] token.kind = "help"   -> [acc EXCEPT !.mode = "help"]
             [] token.kind \in {"flag", "inline"} ->
                  CASE token.name \notin Defined(command) -> [acc EXCEPT !.mode = "error"]
                    [] token.name \in Defined(command) /\ TakesNext(token) ->
                         [acc EXCEPT !.mode = "value", !.flag = token.name]
                    [] OTHER -> Store(acc, token.name,
                                      IF token.kind = "inline" THEN token.text ELSE "true")

Reading(command, tokens) ==
    LET read[n \in 0..Len(tokens)] ==
            IF n = 0 THEN [mode |-> "flags", flag |-> "", given |-> NothingGiven, args |-> <<>>]
            ELSE ParseOne(command, read[n - 1], tokens[n])
    IN  read[Len(tokens)]

Parse(command, tokens) ==
    LET end == Reading(command, tokens)
    IN  [outcome |-> CASE end.mode \in {"flags", "args"} -> "ok"
                       [] end.mode \in {"value", "error"} -> "error"
                       [] OTHER -> "help",
         given |-> end.given, args |-> end.args]

(* parseScanCoreFlags *)
ParseFlags(command, args) ==
    LET sorted == Sorted(command, args) IN
    IF sorted.mode = "error"
    THEN [outcome |-> "error", given |-> NothingGiven, args |-> <<>>]
    ELSE Parse(command, sorted.flags \o sorted.words)

-----------------------------------------------------------------------------
(* loadCLIConfig: an empty --config is none. *)
NamesConfig(given) == given["config"] # <<>> /\ Last(given["config"]) # ""

ConfigPath(given, configs) ==
    CASE NamesConfig(given) -> Last(given["config"])
      [] ~NamesConfig(given) /\ configs["araneae.yaml"].state # "absent" -> "araneae.yaml"
      [] OTHER -> ".araneae.yaml"

(* The two enumerations are checked even where a flag overrides them.      *)
ConfigFails(given, configs) ==
    LET config == configs[ConfigPath(given, configs)] IN
    \/ config.state = "broken"
    \/ config.state = "absent" /\ NamesConfig(given)
    \/ /\ config.state = "ok"
       /\ \/ ~(ToSet(config.values["fail-on"]) \subseteq {"all", "new"})
          \/ ~(ToSet(config.values["summary"]) \subseteq {"text", "markdown"})

Configured(given, configs) ==
    LET config == configs[ConfigPath(given, configs)] IN
    IF config.state = "ok" THEN config.values ELSE NothingGiven

Default(option) ==
    CASE option = "out"         -> <<"araneae-report.json">>
      [] option = "summary"     -> <<"text">>
      [] option = "fail-on"     -> <<"all">>
      [] option \in BoolFlag    -> <<"false">>
      [] option \in NumberFlag  -> <<"moderate">>
      [] option \in ListFlag    -> <<>>
      [] OTHER                  -> <<"">>

(* applyScanConfig, applyCheckConfig: a flag replaces what the file says,  *)
(* the whole list of it; a word on the command line is the entry URL.      *)
Merged_FileFirst(given, configured, option) ==
    CASE configured[option] # <<>> -> configured[option]
      [] configured[option] = <<>> /\ given[option] # <<>> -> given[option]
      [] OTHER -> Default(option)
Merged(given, configured, option) ==
    CASE given[option] # <<>> -> given[option]
      [] given[option] = <<>> /\ configured[option] # <<>> -> configured[option]
      [] OTHER -> Default(option)

(* configHeaders: a header of the file that is malformed or takes its      *)
(* value from an environment variable that is not set.                     *)
RefusedHeader == {"malformed", "unset"}

(* What parseScanCoreArgs and parseCheckArgs refuse, after the merge.      *)
Refused(option) ==
    CASE option = "retries"          -> {"negative", "huge"}
      [] option = "max-sitemap-urls" -> {"negative", "zero"}
      [] option \in {"max-requests-per-second", "max-response-bytes", "retry-backoff"} -> {"negative"}
      [] option = "header"           -> RefusedHeader
      [] option = "sitemap"          -> {"malformed"}
      [] option = "entry-url"        -> {"malformed", ""}
      [] option = "summary"          -> Value \ {"text", "markdown"}
      [] option = "fail-on"          -> Value \ {"all", "new"}
      [] OTHER                       -> {}

Acceptable(option, values) ==
    IF option \in ListFlag THEN ToSet(values) \cap Refused(option) = {}
    ELSE Last(values) \notin Refused(option)

(* The options of a command line, or why there are none.                   *)
ParseArgs(command, args, configs) ==
    LET parsed  == ParseFlags(command, args)
        given   == [parsed.given EXCEPT !["entry-url"] = parsed.args]
        options == [option \in Defined(command) \cup {"entry-url"} |->
                      Merged(given, Configured(given, configs), option)]
    IN  [outcome |->
           CASE parsed.outcome # "ok" -> parsed.outcome
             [] parsed.outcome = "ok" /\ ConfigFails(given, configs) -> "error"
             [] parsed.outcome = "ok" /\ ~ConfigFails(given, configs) ->
                  IF /\ Len(parsed.args) <= 1
                     /\ \A option \in DOMAIN options : Acceptable(option, options[option])
                  THEN "ok" ELSE "error",
         options |-> options]

-----------------------------------------------------------------------------
(* How a reader takes a complete command line, independent of the code: a *)
(* token right after a flag that takes a value is that value, every other  *)
(* word is an argument, wherever it stands.                                *)
IsValue(args, i) == i > 1 /\ TakesNext(args[i - 1])

(* The flag that token i gives a value to, if it does. *)
Serves(args, i) ==
    CASE IsValue(args, i) -> args[i - 1].name
      [] ~IsValue(args, i) /\ ~TakesNext(args[i]) -> args[i].name
      [] OTHER -> ""

ReadInPlace(args) ==
    LET text == [i \in DOMAIN args |-> IF args[i].kind = "flag" THEN "true" ELSE args[i].text]
        words == {i \in DOMAIN args : ~IsValue(args, i) /\ args[i].kind = "word"}
    IN  [outcome |-> "ok",
         given |-> [flag \in Option |-> Select(text, {i \in DOMAIN args : Serves(args, i) = flag})],
         args |-> Select(text, words)]

(* A command line that a reader would call complete: no flag lacks its     *)
(* value, all are known and hold values they can.                          *)
Complete(command, args) ==
    /\ \A i \in DOMAIN args : args[i].kind \in {"word", "flag", "inline"}
    /\ \A i \in DOMAIN args : args[i].kind # "word" => args[i].name \in Defined(command)
    /\ args # <<>> => ~TakesNext(args[Len(args)])
    /\ \A i \in DOMAIN args : TakesNext(args[i]) => args[i + 1].kind = "word"
    /\ LET given == ReadInPlace(args).given IN
         \A flag \in Defined(command) : \A k \in DOMAIN given[flag] : Parses(flag, given[flag][k])
=============================================================================
