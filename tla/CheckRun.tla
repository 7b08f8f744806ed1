------------------------------ MODULE CheckRun -------------------------------
(***************************************************************************)
(* The commands scan and check as their caller sees them: runCheck of      *)
(* internal/cli/check.go and runScanCommand of internal/cli/scan.go, from  *)
(* the command line and the config file (CommandLine) to the exit, with    *)
(* the files they read and write, the errors of the file system between    *)
(* two steps, a kill at any point, and the runs that follow on the same    *)
(* files.                                                                  *)
(*                                                                         *)
(* A file is absent or a sequence of chunks.  A chunk [what, run] is what  *)
(* run number `run' wrote; `what' is "torn" when only a part of it was.    *)
(***************************************************************************)
EXTENDS CommandLine, FiniteSets

CONSTANTS
    File,       \* the files that paths may lead to
    LeadsTo,    \* [Value -> File or None], symbolic links and case resolved as samePath does
    Setups,     \* command lines, each with the config files and the environment it meets
    Follows,    \* pairs of them: the second may be called next on the same files
    MaxRuns,    \* runs on the same files
    None, Absent

PathFlag == {"out", "baseline", "comparison-out", "github-step-summary"}

(* ciSummary is the variable GITHUB_STEP_SUMMARY. *)
Setup == [command : {"scan", "check"}, args : Seq(Token),
          configs : [ConfigName -> Config], ciSummary : Value]

(* What a crawl finds: links the policy may fail on, those of them that    *)
(* the baseline does not have, and whether it was cut short.               *)
Cause == {"dead", "non200", "truncated"}

Chunk == [what : {"report", "comparison", "summary", "torn"}, run : Nat]

ASSUME SetupAssumption ==
    /\ Setups \subseteq Setup
    /\ LeadsTo \in [Value -> File \cup {None}]
    /\ \A text \in Value : LeadsTo[text] = None <=> text = ""
    /\ Follows \subseteq Setups \X Setups

ASSUME RunsAssumption ==
    MaxRuns \in Nat \ {0} /\ Absent \notin Seq(Chunk)

ASSUME NoneAssumption ==
    /\ None \notin File \cup {"ok", "policy", "error", "help", "killed"}
    /\ \A s \in Setups : None # ParseArgs(s.command, s.args, s.configs).options

VARIABLES
    setup,    \* how the command is called in this run
    run,      \* the number of the run
    pc,       \* the step the run is at
    options,  \* the options it runs with; None before
    found,    \* [all, new : SUBSET Cause], what the crawl found
    disk,     \* [File -> Absent or a sequence of chunks]
    printed,  \* the runs whose summary went to stdout (history)
    exit      \* how the run ended: "ok", "policy", "error", "help", "killed"; None before

vars == <<setup, run, pc, options, found, disk, printed, exit>>

Chosen(option) == Last(options[option])

(* githubStepSummaryPath for the step summary. *)
Path(flag) ==
    CASE flag \notin DOMAIN options -> None
      [] flag = "github-step-summary" /\ Chosen(flag) = "" /\ Chosen("ci") = "true" ->
           LeadsTo[setup.ciSummary]
      [] OTHER -> LeadsTo[Chosen(flag)]

Given(flag) == options # None /\ Path(flag) \in File
Content(flag) == disk[Path(flag)]

Report(r) == [what |-> "report", run |-> r]

NothingFound == [all |-> {}, new |-> {}]

(* validateDistinctPaths: no two of the given paths lead to one file. *)
DistinctPaths_OutOnly ==
    \A g \in PathFlag \ {"out", "baseline"} : Given(g) => Path("out") # Path(g)
DistinctPaths ==
    \A f, g \in PathFlag : f # g /\ Given(f) => Path(f) # Path(g)

Init ==
    /\ setup \in Setups
    /\ run = 1 /\ pc = "parse"
    /\ options = None /\ found = NothingFound
    /\ disk \in [File -> {Absent, <<Report(0)>>}]
    /\ printed = <<>> /\ exit = None

Step(from, to) == pc = from /\ pc' = to /\ UNCHANGED exit

Stop(from, how) == pc = from /\ pc' = "ended" /\ exit' = how

Fails(from) == Stop(from, "error") /\ UNCHANGED <<setup, run, options, found, disk, printed>>

(* os.Create: the file is emptied, whatever it held. *)
Truncate(flag) == disk' = [disk EXCEPT ![Path(flag)] = <<>>]

Chunks(f) == IF disk[f] = Absent THEN <<>> ELSE disk[f]

Put(flag, what) ==
    disk' = [disk EXCEPT ![Path(flag)] =
               Append(Chunks(Path(flag)), [what |-> what, run |-> run])]

(* Asking for help ends the command without a run. *)
ParseCommand ==
    /\ pc = "parse"
    /\ LET parsed == ParseArgs(setup.command, setup.args, setup.configs) IN
         \/ /\ parsed.outcome = "ok"
            /\ Step("parse", IF setup.command = "check" THEN "validate" ELSE "crawl")
            /\ options' = parsed.options
         \/ /\ parsed.outcome # "ok"
            /\ Stop("parse", parsed.outcome)
            /\ UNCHANGED options
    /\ UNCHANGED <<setup, run, found, disk, printed>>

(* Comparing --out with another path may fail as well: samePath gives up   *)
(* on a chain of symbolic links.                                           *)
ValidatePaths ==
    \/ /\ DistinctPaths
       /\ Step("validate", "readBaseline")
       /\ UNCHANGED <<setup, run, options, found, disk, printed>>
    \/ (\E flag \in PathFlag \ {"out"} : Given(flag)) /\ Fails("validate")

(* What a file begins with. *)
Beginning(f) == IF Chunks(f) = <<>> THEN "nothing" ELSE Head(Chunks(f)).what

(* report.Read: decoding stops after the first JSON value, and any object  *)
(* passes for a report; the fields of a comparison make an empty one.      *)
BaselineReads_IfThere == Content("baseline") # Absent
BaselineReads == Beginning(Path("baseline")) \in {"report", "comparison"}

(* readBaselineReport; opening and reading may fail too. *)
ReadBaseline ==
    \/ /\ Given("baseline") => BaselineReads
       /\ Step("readBaseline", "crawl")
       /\ UNCHANGED <<setup, run, options, found, disk, printed>>
    \/ Given("baseline") /\ Fails("readBaseline")

(* Without the report of an earlier run every link at fault is a new one.  *)
(* (The baseline is as ReadBaseline met it: nothing wrote in between.)     *)
Crawl ==
    \/ /\ Step("crawl", "createReport")
       /\ \E all \in SUBSET Cause, old \in SUBSET {"dead", "non200"} :
            /\ old \subseteq all
            /\ old # {} => Given("baseline") /\ Beginning(Path("baseline")) = "report"
            /\ found' = [all |-> all, new |-> all \ old]
       /\ UNCHANGED <<setup, run, options, disk, printed>>
    \/ Fails("crawl")

(* writeReportFile: os.Create empties the file before the report is        *)
(* written, and a write may stop half way.                                 *)
CreateReport ==
    \/ /\ Given("out")
       /\ Step("createReport", "writeReport") /\ Truncate("out")
       /\ UNCHANGED <<setup, run, options, found, printed>>
    \/ Fails("createReport")

AfterReport_Unchecked == "print"
AfterReport == CASE setup.command = "scan" -> "verdict"
                 [] setup.command = "check" /\ Given("comparison-out") -> "createComparison"
                 [] OTHER -> "print"

WriteReport_ErrorIgnored ==
    /\ Step("writeReport", AfterReport)
    /\ \E what \in {"report", "torn"} : Put("out", what)
    /\ UNCHANGED <<setup, run, options, found, printed>>
WriteReport ==
    /\ \/ Step("writeReport", AfterReport) /\ Put("out", "report")
       \/ Stop("writeReport", "error") /\ (Put("out", "torn") \/ UNCHANGED disk)
    /\ UNCHANGED <<setup, run, options, found, printed>>

CreateComparison ==
    \/ /\ Step("createComparison", "writeComparison") /\ Truncate("comparison-out")
       /\ UNCHANGED <<setup, run, options, found, printed>>
    \/ Fails("createComparison")

WriteComparison ==
    /\ \/ Step("writeComparison", "print") /\ Put("comparison-out", "comparison")
       \/ /\ Stop("writeComparison", "error")
          /\ (Put("comparison-out", "torn") \/ UNCHANGED disk)
    /\ UNCHANGED <<setup, run, options, found, printed>>

(* The summary goes to stdout whatever the verdict is. *)
PrintSummary ==
    \/ /\ Step("print", IF Given("github-step-summary") THEN "appendSummary" ELSE "verdict")
       /\ printed' = Append(printed, run)
       /\ UNCHANGED <<setup, run, options, found, disk>>
    \/ Fails("print")

(* appendGithubStepSummary: opened for append, created when absent.        *)
AppendSummary_Truncating ==
    /\ Step("appendSummary", "verdict")
    /\ disk' = [disk EXCEPT ![Path("github-step-summary")] = <<[what |-> "summary", run |-> run]>>]
    /\ UNCHANGED <<setup, run, options, found, printed>>
AppendSummary ==
    /\ \/ Step("appendSummary", "verdict") /\ Put("github-step-summary", "summary")
       \/ Stop("appendSummary", "error") /\ (Put("github-step-summary", "torn") \/ UNCHANGED disk)
    /\ UNCHANGED <<setup, run, options, found, printed>>

(* The policy decides how the run ends only here, when all is written.     *)
PolicyFailed ==
    LET counted == IF setup.command = "check" /\ Chosen("fail-on") = "new"
                   THEN found.new ELSE found.all
    IN  \/ Chosen("fail-on-dead") = "true" /\ "dead" \in counted
        \/ Chosen("fail-on-non-200") = "true" /\ "non200" \in counted
        \/ setup.command = "check" /\ Chosen("fail-on-truncated") = "true" /\ "truncated" \in found.all

Verdict ==
    /\ Stop("verdict", IF PolicyFailed THEN "policy" ELSE "ok")
    /\ UNCHANGED <<setup, run, options, found, disk, printed>>

Running == pc # "ended"

(* The process is killed between two steps (a CI job is cancelled). *)
Kill ==
    /\ Running
    /\ Stop(pc, "killed") /\ UNCHANGED <<setup, run, options, found, disk, printed>>

(* The next call on the same files: the same job again, or one that takes  *)
(* what this run left behind for its baseline.                             *)
NextRun ==
    /\ ~Running /\ run < MaxRuns
    /\ \E next \in Setups : <<setup, next>> \in Follows /\ setup' = next
    /\ run' = run + 1 /\ pc' = "parse"
    /\ options' = None /\ found' = NothingFound /\ exit' = None
    /\ UNCHANGED <<disk, printed>>

Over == ~Running /\ run = MaxRuns /\ UNCHANGED vars

Next ==
    \/ ParseCommand \/ ValidatePaths \/ ReadBaseline \/ Crawl \/ CreateReport \/ WriteReport
    \/ CreateComparison \/ WriteComparison \/ PrintSummary \/ AppendSummary \/ Verdict
    \/ Kill \/ NextRun \/ Over

Spec == Init /\ [][Next]_vars

-----------------------------------------------------------------------------
(* Every variable has its type. *)
TypeOK ==
    /\ setup \in Setups /\ run \in 1..MaxRuns
    /\ pc \in {"parse", "validate", "readBaseline", "crawl", "createReport", "writeReport",
               "createComparison", "writeComparison", "print", "appendSummary",
               "verdict", "ended"}
    /\ options \in {None, ParseArgs(setup.command, setup.args, setup.configs).options}
    /\ found \in [all : SUBSET Cause, new : SUBSET Cause]
    /\ disk \in [File -> Seq(Chunk) \cup {Absent}]
    /\ printed \in Seq(1..MaxRuns)
    /\ exit \in {"ok", "policy", "error", "help", "killed", None}

(* docs/usage.md: "Flags can appear before or after the positional         *)
(* argument."  However the entry URL stands among the flags, and in        *)
(* whatever order they come, every complete command line is taken the way  *)
(* a reader takes it: each value goes to the flag before it, repeated      *)
(* flags keep their order, and no word is lost or taken for a value.       *)
FlagsAnywhere ==
    pc = "parse" /\ Complete(setup.command, setup.args) =>
        ParseFlags(setup.command, setup.args) = ReadInPlace(setup.args)

(* docs/configuration.md: "Command-line flags override config values."  A  *)
(* run that comes to a verdict fails exactly when its policy says so, and  *)
(* the policy is what the caller asked for: the last flag on the command   *)
(* line, else the config file, else the default, through the parsing, the  *)
(* merge, the crawl and all that is written in between.                    *)
PolicyDecides ==
    exit \in {"ok", "policy"} /\ Complete(setup.command, setup.args) =>
        LET given == ReadInPlace(setup.args).given
            filed == Configured(given, setup.configs)
            asked(option, value) ==
              \/ given[option] # <<>> /\ Last(given[option]) = value
              \/ given[option] = <<>> /\ filed[option] # <<>> /\ Last(filed[option]) = value
              \/ given[option] = <<>> /\ filed[option] = <<>> /\ Default(option) = <<value>>
            check == setup.command = "check"
            counts(cause) == cause \in (IF check /\ asked("fail-on", "new") THEN found.new
                                       ELSE found.all)
        IN  exit = "policy" <=>
              \/ asked("fail-on-dead", "true") /\ counts("dead")
              \/ asked("fail-on-non-200", "true") /\ counts("non200")
              \/ check /\ asked("fail-on-truncated", "true") /\ "truncated" \in found.all

(* A run that ends with a verdict on the links, nil or the error of the    *)
(* policy, has written everything it was asked for: the whole report, the  *)
(* comparison, the summary on stdout and the step summary.  And what a     *)
(* check compared with was written by an earlier run, whole: not the torn  *)
(* file of a run that failed or was killed, and nothing of its own.  Any   *)
(* failure on the way ends it with an error.                               *)
VerdictMeansWritten ==
    exit \in {"ok", "policy"} =>
        /\ Content("out") = <<Report(run)>>
        /\ setup.command = "check" =>
             /\ Given("comparison-out") =>
                  Content("comparison-out") = <<[what |-> "comparison", run |-> run]>>
             /\ \E i \in 1..Len(printed) : printed[i] = run
             /\ Given("github-step-summary") =>
                  LET s == Content("github-step-summary") IN
                  s[Len(s)] = [what |-> "summary", run |-> run]
             /\ Given("baseline") =>
                  LET b == Content("baseline") IN
                  b # Absent /\ b # <<>> /\ Head(b).what # "torn" /\ Head(b).run < run

(* The baseline is never written, whichever paths lead to it: nothing a    *)
(* check compares with can be replaced by its own output.                  *)
BaselineUntouched ==
    [][\A f \in File :
        disk'[f] # disk[f] => ~(setup.command = "check" /\ Given("baseline") /\ f = Path("baseline"))]_vars

(* A comparison on disk never runs ahead of the report: when it is the     *)
(* comparison of this run, the report next to it is this run's, whole.     *)
ComparisonHasItsReport ==
    (/\ setup.command = "check" /\ Given("comparison-out") /\ Content("comparison-out") # Absent
     /\ \E i \in 1..Len(Content("comparison-out")) :
          Content("comparison-out")[i] = [what |-> "comparison", run |-> run])
        => Content("out") = <<Report(run)>>

(* Runs share the step summary: a run adds at most one chunk to it, after  *)
(* what is there, and a summary only when it printed the same summary on   *)
(* stdout; none takes away what an earlier run or another tool wrote.      *)
SummariesAccumulate ==
    [][\A f \in File :
        (/\ disk'[f] # disk[f]
         /\ setup.command = "check" /\ Given("github-step-summary") /\ f = Path("github-step-summary")
         /\ DistinctPaths)
          => /\ \E what \in {"summary", "torn"} :
                  disk'[f] = Append(Chunks(f), [what |-> what, run |-> run])
             /\ \A i \in 1..Len(Chunks(f)) : Chunks(f)[i].run # run
             /\ \E i \in 1..Len(printed) : printed[i] = run]_vars
=============================================================================
