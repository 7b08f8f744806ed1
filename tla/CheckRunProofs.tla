--------------------------- MODULE CheckRunProofs ----------------------------
(***************************************************************************)
(* Proofs about the commands scan and check: what a verdict means for the  *)
(* files, and what no run does to the baseline and to the step summary,  *)
(* for all files and numbers of runs and whatever was parsed; then how the *)
(* options come about, for all command lines and config files: that flags  *)
(* and words may be mixed, and that the policy is the one asked for.     *)
(***************************************************************************)
EXTENDS CheckRun, LoopProofs

Ended == pc = "ended"
Decided == exit \in {"ok", "policy"}

(* The run has come at least as far as one of the steps, or to a verdict. *)
At(steps) == pc \in steps \/ Decided

Comparison(r) == [what |-> "comparison", run |-> r]
Summary(r) == [what |-> "summary", run |-> r]

(* Where the run stands: it has options from the first step on, and a    *)
(* check goes on only with distinct paths.                               *)
Phases ==
    /\ exit = None <=> ~Ended
    /\ pc = "parse" => options = None
    /\ At({"validate", "readBaseline", "crawl", "createReport", "writeReport",
           "createComparison", "writeComparison", "print", "appendSummary", "verdict"})
         => options # None
    /\ pc \in {"validate", "readBaseline", "createComparison", "writeComparison",
               "print", "appendSummary"} => setup.command = "check"
    /\ At({"readBaseline", "crawl", "createReport", "writeReport", "createComparison",
           "writeComparison", "print", "appendSummary", "verdict"})
         => setup.command = "scan" \/ DistinctPaths

(* What is written at each step. *)
Written ==
    /\ pc = "writeReport" => Given("out") /\ Content("out") = <<>>
    /\ At({"createComparison", "writeComparison", "print", "appendSummary", "verdict"})
         => Given("out") /\ Content("out") = <<Report(run)>>
    /\ pc \in {"createComparison", "writeComparison"} => Given("comparison-out")
    /\ pc = "writeComparison" => Content("comparison-out") = <<>>
    /\ setup.command = "check" /\ At({"print", "appendSummary", "verdict"}) /\ Given("comparison-out")
         => Content("comparison-out") = <<Comparison(run)>>
    /\ setup.command = "check" /\ At({"appendSummary", "verdict"})
         => \E i \in 1..Len(printed) : printed[i] = run
    /\ pc = "appendSummary" => Given("github-step-summary")
    /\ setup.command = "check" /\ At({"verdict"}) /\ Given("github-step-summary")
         => LET s == Content("github-step-summary") IN s \in Seq(Chunk) /\ s[Len(s)] = Summary(run)

(* Whose chunks a file may hold: those of earlier runs, and those of this  *)
(* run where the run writes.                                             *)
Owned ==
    \A f \in File : \A i \in 1..Len(Chunks(f)) :
        /\ Chunks(f)[i].run <= run
        /\ Chunks(f)[i].run = run =>
             /\ options # None
             /\ pc \in {"verdict", "ended"} \/ f \in {Path("out"), Path("comparison-out")}
        /\ Chunks(f)[i] = Comparison(run) =>
             /\ pc \in {"print", "appendSummary", "verdict", "ended"}
             /\ Given("out") /\ Content("out") = <<Report(run)>>

IInv == TypeOK /\ Phases /\ Written /\ Owned

-----------------------------------------------------------------------------
(* What the steps do to a file *)

FileType == Seq(Chunk) \cup {Absent}

LEMMA ChunksType == ASSUME TypeOK PROVE \A f \in File : Chunks(f) \in Seq(Chunk)
  <1>1. disk \in [File -> FileType]
    BY DEF TypeOK, FileType
  <1> QED
    BY <1>1, RunsAssumption DEF Chunks, FileType

(* The paths of a run are settled by its options.                          *)
LEMMA PathsFixed ==
    ASSUME UNCHANGED <<setup, options>>
    PROVE  /\ \A flag \in PathFlag : Path(flag)' = Path(flag)
           /\ \A flag \in PathFlag : Given(flag)' <=> Given(flag)
           /\ DistinctPaths' <=> DistinctPaths
  <1>1. \A flag \in PathFlag : Path(flag)' = Path(flag)
    BY DEF Path, Chosen
  <1>2. \A flag \in PathFlag : Given(flag)' <=> Given(flag)
    BY <1>1 DEF Given
  <1> QED
    BY <1>1, <1>2 DEF DistinctPaths

LEMMA PutEffect ==
    ASSUME TypeOK, NEW flag \in PathFlag, Given(flag),
           NEW w \in {"report", "comparison", "summary", "torn"}, Put(flag, w)
    PROVE  /\ disk' \in [File -> FileType]
           /\ disk'[Path(flag)] = Append(Chunks(Path(flag)), [what |-> w, run |-> run])
           /\ \A f \in File \ {Path(flag)} : disk'[f] = disk[f]
  <1>1. Path(flag) \in File
    BY DEF Given
  <1>2. Chunks(Path(flag)) \in Seq(Chunk)
    BY <1>1, ChunksType
  <1>3. [what |-> w, run |-> run] \in Chunk
    <2>1. run \in Nat
      BY RunsAssumption DEF TypeOK
    <2> QED
      BY <2>1 DEF Chunk
  <1>4. disk \in [File -> FileType]
    BY DEF TypeOK, FileType
  <1>5. disk' = [disk EXCEPT ![Path(flag)] = Append(Chunks(Path(flag)), [what |-> w, run |-> run])]
    BY <1>1, <1>4 DEF Put, Chunks
  <1>6. Append(Chunks(Path(flag)), [what |-> w, run |-> run]) \in FileType
    BY <1>2, <1>3 DEF FileType
  <1> QED
    BY <1>1, <1>4, <1>5, <1>6

LEMMA TruncateEffect ==
    ASSUME TypeOK, NEW flag \in PathFlag, Given(flag), Truncate(flag)
    PROVE  /\ disk' \in [File -> FileType]
           /\ disk'[Path(flag)] = <<>>
           /\ \A f \in File \ {Path(flag)} : disk'[f] = disk[f]
  <1>1. Path(flag) \in File
    BY DEF Given
  <1>2. disk \in [File -> FileType]
    BY DEF TypeOK, FileType
  <1>3. <<>> \in FileType
    BY DEF FileType
  <1> QED
    BY <1>1, <1>2, <1>3 DEF Truncate

-----------------------------------------------------------------------------
(* What most steps leave alone *)
Steps == {"parse", "validate", "readBaseline", "crawl", "createReport", "writeReport",
          "createComparison", "writeComparison", "print", "appendSummary", "verdict", "ended"}
Exits == {"ok", "policy", "error", "help", "killed", None}

Moves == pc' \in Steps /\ exit' \in Exits

LEMMA StepMoves ==
    ASSUME TypeOK, NEW from, NEW to \in Steps, Step(from, to)
    PROVE  Moves
  BY DEF TypeOK, Moves, Steps, Exits, Step

LEMMA StopMoves ==
    ASSUME NEW from, NEW how \in Exits, Stop(from, how)
    PROVE  Moves
  BY DEF Moves, Steps, Stop

(* The step touches neither the files nor what the run knows. *)
Quiet == UNCHANGED <<setup, run, options, found, disk, printed>>

LEMMA QuietKeepsType == ASSUME TypeOK, Moves, Quiet PROVE TypeOK'
  BY DEF TypeOK, Moves, Quiet, Steps, Exits

LEMMA WritingKeepsType ==
    ASSUME TypeOK, Moves, UNCHANGED <<setup, run, options, found, printed>>,
           disk' \in [File -> FileType]
    PROVE  TypeOK'
  BY DEF TypeOK, Moves, Steps, Exits, FileType

(* The step fails, or does nothing but move on. *)
LEMMA FailsQuietly == ASSUME NEW from, Fails(from) PROVE Moves /\ Quiet /\ Stop(from, "error")
  BY StopMoves DEF Fails, Quiet, Exits

(* Every variable keeps its type. *)
LEMMA TypeInductive == ASSUME IInv, [Next]_vars PROVE TypeOK'
  <1>1. CASE ParseCommand
    <2>1. TypeOK
      BY DEF IInv
    <2>2. options' \in {options, ParseArgs(setup.command, setup.args, setup.configs).options}
      BY <1>1 DEF ParseCommand
    <2>3. Moves
      <3>1. ParseArgs(setup.command, setup.args, setup.configs).outcome \in {"ok", "error", "help"}
        BY DEF ParseArgs, ParseFlags, Parse
      <3> QED
        BY <1>1, <3>1, <2>1, StepMoves, StopMoves DEF ParseCommand, Steps, Exits
    <2>4. UNCHANGED <<setup, run, found, disk, printed>>
      BY <1>1 DEF ParseCommand
    <2> QED
      BY <2>1, <2>2, <2>3, <2>4 DEF TypeOK, Moves, Steps, Exits
  <1> USE DEF IInv
  <1>2. CASE ValidatePaths
    <2>1. Moves /\ Quiet
      BY <1>2, StepMoves, FailsQuietly DEF ValidatePaths, Quiet, Steps
    <2> QED
      BY <2>1, QuietKeepsType
  <1>3. CASE ReadBaseline
    <2>1. Moves /\ Quiet
      BY <1>3, StepMoves, FailsQuietly DEF ReadBaseline, Quiet, Steps
    <2> QED
      BY <2>1, QuietKeepsType
  <1>4. CASE Crawl
    <2>1. CASE Fails("crawl")
      BY <2>1, FailsQuietly, QuietKeepsType
    <2>2. ASSUME NEW all \in SUBSET Cause, NEW old \in SUBSET {"dead", "non200"},
                 found' = [all |-> all, new |-> all \ old], Moves,
                 UNCHANGED <<setup, run, options, disk, printed>>
          PROVE  TypeOK'
      <3>1. found' \in [all : SUBSET Cause, new : SUBSET Cause]
        BY <2>2
      <3> QED
        BY <2>2, <3>1 DEF TypeOK, Moves, Steps, Exits
    <2> QED
      BY <1>4, <2>1, <2>2, StepMoves DEF Crawl, Steps
  <1>5. CASE CreateReport
    <2>1. CASE Fails("createReport")
      BY <2>1, FailsQuietly, QuietKeepsType
    <2>2. CASE Given("out") /\ Truncate("out") /\ Step("createReport", "writeReport")
               /\ UNCHANGED <<setup, run, options, found, printed>>
      BY <2>2, StepMoves, TruncateEffect, WritingKeepsType DEF Steps, PathFlag
    <2> QED
      BY <1>5, <2>1, <2>2 DEF CreateReport
  <1>6. CASE WriteReport
    <2>1. Moves
      BY <1>6, StepMoves, StopMoves DEF WriteReport, AfterReport, Steps, Exits
    <2>2. UNCHANGED <<setup, run, options, found, printed>>
      BY <1>6 DEF WriteReport
    <2>3. disk' \in [File -> FileType]
      <3>1. Given("out")
        BY <1>6 DEF WriteReport, Written, Step, Stop, At
      <3>2. Put("out", "report") \/ Put("out", "torn") \/ UNCHANGED disk
        BY <1>6 DEF WriteReport
      <3>3. UNCHANGED disk => disk' \in [File -> FileType]
        BY DEF TypeOK, FileType
      <3> QED
        BY <3>1, <3>2, <3>3, PutEffect DEF PathFlag
    <2> QED
      BY <2>1, <2>2, <2>3, WritingKeepsType
  <1>7. CASE CreateComparison
    <2>1. CASE Fails("createComparison")
      BY <2>1, FailsQuietly, QuietKeepsType
    <2>2. CASE Truncate("comparison-out") /\ Step("createComparison", "writeComparison")
               /\ UNCHANGED <<setup, run, options, found, printed>>
      <3>1. Given("comparison-out")
        BY <2>2 DEF Written, Step
      <3> QED
        BY <2>2, <3>1, StepMoves, TruncateEffect, WritingKeepsType DEF Steps, PathFlag
    <2> QED
      BY <1>7, <2>1, <2>2 DEF CreateComparison
  <1>8. CASE WriteComparison
    <2>1. Moves
      BY <1>8, StepMoves, StopMoves DEF WriteComparison, Steps, Exits
    <2>2. UNCHANGED <<setup, run, options, found, printed>>
      BY <1>8 DEF WriteComparison
    <2>3. disk' \in [File -> FileType]
      <3>1. Given("comparison-out")
        BY <1>8 DEF WriteComparison, Written, Step, Stop, At
      <3>2. Put("comparison-out", "comparison") \/ Put("comparison-out", "torn") \/ UNCHANGED disk
        BY <1>8 DEF WriteComparison
      <3>3. UNCHANGED disk => disk' \in [File -> FileType]
        BY DEF TypeOK, FileType
      <3> QED
        BY <3>1, <3>2, <3>3, PutEffect DEF PathFlag
    <2> QED
      BY <2>1, <2>2, <2>3, WritingKeepsType
  <1>9. CASE PrintSummary
    <2>1. CASE Fails("print")
      BY <2>1, FailsQuietly, QuietKeepsType
    <2>2. CASE /\ Step("print", IF Given("github-step-summary") THEN "appendSummary" ELSE "verdict")
               /\ printed' = Append(printed, run)
               /\ UNCHANGED <<setup, run, options, found, disk>>
      <3>1. Moves
        BY <2>2, StepMoves DEF Steps
      <3>2. printed' \in Seq(1..MaxRuns)
        BY <2>2 DEF TypeOK
      <3> QED
        BY <2>2, <3>1, <3>2 DEF TypeOK, Moves, Steps, Exits
    <2> QED
      BY <1>9, <2>1, <2>2 DEF PrintSummary
  <1>10. CASE AppendSummary
    <2>1. Moves
      BY <1>10, StepMoves, StopMoves DEF AppendSummary, Steps, Exits
    <2>2. UNCHANGED <<setup, run, options, found, printed>>
      BY <1>10 DEF AppendSummary
    <2>3. disk' \in [File -> FileType]
      <3>1. Given("github-step-summary")
        BY <1>10 DEF AppendSummary, Written, Step, Stop, At
      <3>2. Put("github-step-summary", "summary") \/ Put("github-step-summary", "torn") \/ UNCHANGED disk
        BY <1>10 DEF AppendSummary
      <3>3. UNCHANGED disk => disk' \in [File -> FileType]
        BY DEF TypeOK, FileType
      <3> QED
        BY <3>1, <3>2, <3>3, PutEffect DEF PathFlag
    <2> QED
      BY <2>1, <2>2, <2>3, WritingKeepsType
  <1>11. CASE Verdict
    <2>1. Moves /\ Quiet
      BY <1>11, StopMoves DEF Verdict, Quiet, Exits
    <2> QED
      BY <2>1, QuietKeepsType
  <1>12. CASE Kill
    <2>1. Moves /\ Quiet
      BY <1>12, StopMoves DEF Kill, Quiet, Exits
    <2> QED
      BY <2>1, QuietKeepsType
  <1>14. CASE NextRun
    BY <1>14, RunsAssumption DEF NextRun, TypeOK, NothingFound
  <1>13. CASE UNCHANGED vars
    BY <1>13 DEF vars, TypeOK
  <1> QED
    BY <1>1, <1>2, <1>3, <1>4, <1>5, <1>6, <1>7, <1>8, <1>9, <1>10, <1>11, <1>12, <1>13, <1>14
       DEF Next, Over

-----------------------------------------------------------------------------
(* The phases of a run. *)
LEMMA PhasesInductive == ASSUME IInv, [Next]_vars PROVE Phases'
  <1> DEFINE Same == UNCHANGED <<setup, options>>
  <1>p. ASSUME Same PROVE DistinctPaths' <=> DistinctPaths
    BY <1>p, PathsFixed
  <1>n. None \notin {"ok", "policy", "error", "help", "killed"}
    BY NoneAssumption
  <1>1. CASE ParseCommand
    <2>1. setup \in Setups
      BY DEF IInv, TypeOK
    <2>2. ParseArgs(setup.command, setup.args, setup.configs).options # None
      BY <2>1, NoneAssumption
    <2>3. ParseArgs(setup.command, setup.args, setup.configs).outcome \in {"ok", "error", "help"}
      BY DEF ParseArgs, ParseFlags, Parse
    <2>4. setup.command \in {"scan", "check"}
      BY <2>1, SetupAssumption DEF Setup
    <2>5. CASE /\ options' = ParseArgs(setup.command, setup.args, setup.configs).options
               /\ Step("parse", IF setup.command = "check" THEN "validate" ELSE "crawl")
               /\ UNCHANGED setup
      BY <2>5, <2>2, <2>4, <1>n DEF IInv, Phases, Step, Ended, At, Decided
    <2>6. CASE /\ Stop("parse", ParseArgs(setup.command, setup.args, setup.configs).outcome)
               /\ ParseArgs(setup.command, setup.args, setup.configs).outcome # "ok"
               /\ UNCHANGED <<setup, options>>
      BY <2>6, <2>3, <1>n DEF Stop, Phases, Ended, At, Decided
    <2> QED
      BY <1>1, <2>5, <2>6 DEF ParseCommand
  <1>2. ASSUME NEW from, Fails(from) PROVE Phases'
    BY <1>2, <1>n DEF Fails, Stop, Phases, Ended, At, Decided
  <1>3. CASE ValidatePaths
    BY <1>2, <1>3, <1>p, <1>n DEF IInv, Phases, ValidatePaths, Step, Ended, At, Decided
  <1>4. CASE ReadBaseline
    BY <1>2, <1>4, <1>p, <1>n DEF IInv, Phases, ReadBaseline, Step, Ended, At, Decided
  <1>5. CASE Crawl
    BY <1>2, <1>5, <1>p, <1>n DEF IInv, Phases, Crawl, Step, Ended, At, Decided
  <1>6. CASE CreateReport
    BY <1>2, <1>6, <1>p, <1>n DEF IInv, Phases, CreateReport, Step, Ended, At, Decided
  <1>7. CASE WriteReport
    <2>1. setup.command \in {"scan", "check"}
      BY SetupAssumption DEF IInv, TypeOK, Setup
    <2>2. AfterReport \in {"verdict", "createComparison", "print"}
            /\ (AfterReport # "verdict" => setup.command = "check")
      BY <2>1 DEF AfterReport
    <2>3. CASE Step("writeReport", AfterReport) /\ Same
      BY <2>2, <2>3, <1>p, <1>n DEF IInv, Phases, Step, Ended, At, Decided
    <2>4. CASE Stop("writeReport", "error") /\ Same
      BY <2>4, <1>n DEF Phases, Stop, Ended, At, Decided
    <2> QED
      BY <1>7, <2>3, <2>4 DEF WriteReport
  <1>8. CASE CreateComparison
    BY <1>2, <1>8, <1>p, <1>n DEF IInv, Phases, CreateComparison, Step, Ended, At, Decided
  <1>9. CASE WriteComparison
    BY <1>9, <1>p, <1>n DEF IInv, Phases, WriteComparison, Step, Stop, Ended, At, Decided
  <1>10. CASE PrintSummary
    BY <1>2, <1>10, <1>p, <1>n DEF IInv, Phases, PrintSummary, Step, Ended, At, Decided
  <1>11. CASE AppendSummary
    BY <1>11, <1>p, <1>n DEF IInv, Phases, AppendSummary, Step, Stop, Ended, At, Decided
  <1>12. CASE Verdict
    BY <1>12, <1>p, <1>n DEF IInv, Phases, Verdict, Stop, Ended, At, Decided
  <1>13. CASE Kill
    BY <1>13, <1>p, <1>n DEF Kill, Stop, Phases, Ended, At, Decided
  <1>14. CASE NextRun
    BY <1>14, <1>n DEF NextRun, Phases, Ended, At, Decided
  <1>15. CASE UNCHANGED vars
    BY <1>15, <1>p DEF IInv, Phases, vars, Ended, At, Decided
  <1> QED
    BY <1>1, <1>3, <1>4, <1>5, <1>6, <1>7, <1>8, <1>9, <1>10, <1>11, <1>12, <1>13, <1>14, <1>15
       DEF Next, Over

-----------------------------------------------------------------------------
(* What has been written at each step. *)
LEMMA WrittenInductive == ASSUME IInv, [Next]_vars PROVE Written'
  <1> DEFINE Same == UNCHANGED <<setup, run, options, found>>
  <1>p. ASSUME Same
        PROVE  /\ Path("out")' = Path("out") /\ Path("comparison-out")' = Path("comparison-out")
               /\ Path("github-step-summary")' = Path("github-step-summary")
               /\ Given("out")' <=> Given("out")
               /\ Given("comparison-out")' <=> Given("comparison-out")
               /\ Given("github-step-summary")' <=> Given("github-step-summary")
    BY <1>p, PathsFixed DEF PathFlag
  <1>d. ASSUME DistinctPaths, Given("out")
        PROVE  Path("out") # Path("comparison-out") /\ Path("out") # Path("github-step-summary")
    BY <1>d DEF DistinctPaths, PathFlag
  <1>e. ASSUME DistinctPaths, Given("comparison-out")
        PROVE  Path("comparison-out") # Path("github-step-summary")
    BY <1>e DEF DistinctPaths, PathFlag
  <1>n. None \notin {"ok", "policy", "error", "help", "killed"}
    BY NoneAssumption
  <1>c. setup.command \in {"scan", "check"}
    BY SetupAssumption DEF IInv, TypeOK, Setup
  \* A step that fails, is killed or only moves on writes nothing.
  <1>1. ASSUME NEW from, Stop(from, "error") \/ Stop(from, "help") \/ Stop(from, "killed") PROVE Written'
    BY <1>1 DEF Stop, Written, At, Decided
  <1>2. ASSUME NEW from, Fails(from) PROVE Written'
    BY <1>1, <1>2 DEF Fails
  <1>3. CASE ParseCommand
    <2>1. ParseArgs(setup.command, setup.args, setup.configs).outcome \in {"ok", "error", "help"}
      BY DEF ParseArgs, ParseFlags, Parse
    <2>2. CASE Step("parse", IF setup.command = "check" THEN "validate" ELSE "crawl")
      BY <2>2, <1>n DEF IInv, Phases, Step, Written, Ended, At, Decided
    <2> QED
      BY <1>1, <1>3, <2>1, <2>2 DEF ParseCommand
  <1>4. CASE ValidatePaths
    BY <1>2, <1>4, <1>n DEF IInv, Phases, ValidatePaths, Step, Written, Ended, At, Decided
  <1>5. CASE ReadBaseline
    BY <1>2, <1>5, <1>n DEF IInv, Phases, ReadBaseline, Step, Written, Ended, At, Decided
  <1>6. CASE Crawl
    BY <1>2, <1>6, <1>n DEF IInv, Phases, Crawl, Step, Written, Ended, At, Decided
  <1>7. CASE CreateReport
    <2>1. CASE Given("out") /\ Step("createReport", "writeReport") /\ Truncate("out")
               /\ UNCHANGED <<setup, run, options, found, printed>>
      <3>1. disk'[Path("out")] = <<>>
        BY <2>1, TruncateEffect DEF IInv, PathFlag
      <3> QED
        BY <2>1, <3>1, <1>p, <1>n DEF IInv, Phases, Step, Written, Content, Ended, At, Decided
    <2> QED
      BY <1>2, <1>7, <2>1 DEF CreateReport
  <1>8. CASE WriteReport
    <2>1. CASE Step("writeReport", AfterReport) /\ Put("out", "report")
               /\ UNCHANGED <<setup, run, options, found, printed>>
      <3>1. Given("out") /\ Chunks(Path("out")) = <<>>
        BY <2>1, RunsAssumption DEF IInv, Written, Content, Step, Chunks
      <3>2. disk'[Path("out")] = <<Report(run)>>
        BY <2>1, <3>1, PutEffect DEF IInv, PathFlag, Report
      <3>3. CASE setup.command = "scan"
        BY <2>1, <3>1, <3>2, <3>3, <1>p, <1>n DEF AfterReport, IInv, Phases, Step, Written, Content,
           Report, Ended, At, Decided
      <3>4. CASE setup.command = "check"
        BY <2>1, <3>1, <3>2, <3>4, <1>p, <1>n DEF AfterReport, IInv, Phases, Step, Written, Content,
           Report, Ended, At, Decided
      <3> QED
        BY <3>3, <3>4, <1>c
    <2> QED
      BY <1>1, <1>8, <2>1 DEF WriteReport
  <1>9. CASE CreateComparison
    <2>1. CASE Step("createComparison", "writeComparison") /\ Truncate("comparison-out")
               /\ UNCHANGED <<setup, run, options, found, printed>>
      <3>1. Given("comparison-out") /\ Given("out") /\ DistinctPaths
        BY <2>1 DEF IInv, Written, Phases, Step, At
      <3>2. Path("out") \in File /\ Path("out") # Path("comparison-out")
        BY <3>1, <1>d DEF Given
      <3>3. disk'[Path("comparison-out")] = <<>> /\ disk'[Path("out")] = disk[Path("out")]
        BY <2>1, <3>1, <3>2, TruncateEffect DEF IInv, PathFlag
      <3> QED
        BY <2>1, <3>1, <3>3, <1>p, <1>n DEF IInv, Phases, Step, Written, Content, Report,
           Ended, At, Decided
    <2> QED
      BY <1>2, <1>9, <2>1 DEF CreateComparison
  <1>10. CASE WriteComparison
    <2>1. CASE Step("writeComparison", "print") /\ Put("comparison-out", "comparison")
               /\ UNCHANGED <<setup, run, options, found, printed>>
      <3>1. Given("comparison-out") /\ Given("out") /\ DistinctPaths
        BY <2>1 DEF IInv, Written, Phases, Step, At
      <3>2. Path("out") \in File /\ Path("out") # Path("comparison-out")
        BY <3>1, <1>d DEF Given
      <3>3. Chunks(Path("comparison-out")) = <<>>
        BY <2>1, RunsAssumption DEF IInv, Written, Content, Step, Chunks
      <3>4. /\ disk'[Path("comparison-out")] = <<Comparison(run)>>
            /\ disk'[Path("out")] = disk[Path("out")]
        BY <2>1, <3>1, <3>2, <3>3, PutEffect DEF IInv, PathFlag, Comparison
      <3> QED
        BY <2>1, <3>1, <3>4, <1>p, <1>n DEF IInv, Phases, Step, Written, Content, Report, Comparison,
           Ended, At, Decided
    <2> QED
      BY <1>1, <1>10, <2>1 DEF WriteComparison
  <1>11. CASE PrintSummary
    <2>1. CASE /\ Step("print", IF Given("github-step-summary") THEN "appendSummary" ELSE "verdict")
               /\ printed' = Append(printed, run)
               /\ UNCHANGED <<setup, run, options, found, disk>>
      <3>1. Len(printed') \in 1..Len(printed') /\ printed'[Len(printed')] = run
        BY <2>1 DEF IInv, TypeOK
      <3> QED
        BY <2>1, <3>1, <1>p, <1>n DEF IInv, Phases, Step, Written, Content, Report, Comparison,
           Ended, At, Decided
    <2> QED
      BY <1>2, <1>11, <2>1 DEF PrintSummary
  <1>12. CASE AppendSummary
    <2>1. CASE Step("appendSummary", "verdict") /\ Put("github-step-summary", "summary")
               /\ UNCHANGED <<setup, run, options, found, printed>>
      <3>1. Given("github-step-summary") /\ Given("out") /\ DistinctPaths
        BY <2>1 DEF IInv, Written, Phases, Step, At
      <3>2. Path("out") \in File /\ Path("out") # Path("github-step-summary")
        BY <3>1, <1>d DEF Given
      <3>3. Given("comparison-out") => /\ Path("comparison-out") \in File
                                       /\ Path("comparison-out") # Path("github-step-summary")
        BY <3>1, <1>e DEF Given
      <3>4. Chunks(Path("github-step-summary")) \in Seq(Chunk)
        BY <3>1, ChunksType DEF IInv, Given
      <3>5. Summary(run) \in Chunk
        <4>1. run \in Nat
          BY RunsAssumption DEF IInv, TypeOK
        <4> QED
          BY <4>1 DEF Summary, Chunk
      <3>6. /\ disk'[Path("github-step-summary")]
                 = Append(Chunks(Path("github-step-summary")), Summary(run))
            /\ disk'[Path("out")] = disk[Path("out")]
            /\ Given("comparison-out") => disk'[Path("comparison-out")] = disk[Path("comparison-out")]
        BY <2>1, <3>1, <3>2, <3>3, PutEffect DEF IInv, PathFlag, Summary
      <3>7. LET s == disk'[Path("github-step-summary")] IN s \in Seq(Chunk) /\ s[Len(s)] = Summary(run)
        BY <3>4, <3>5, <3>6
      <3> QED
        BY <2>1, <3>1, <3>6, <3>7, <1>p, <1>n DEF IInv, Phases, Step, Written, Content, Report,
           Comparison, Summary, Ended, At, Decided
    <2> QED
      BY <1>1, <1>12, <2>1 DEF AppendSummary
  <1>13. CASE Verdict
    <2>1. pc = "verdict" /\ pc' = "ended" /\ exit' \in {"ok", "policy"}
            /\ UNCHANGED <<setup, run, options, found, disk, printed>>
      BY <1>13 DEF Verdict, Stop
    <2> QED
      BY <2>1, <1>p DEF IInv, Written, Content, At, Decided
  <1>16. CASE Kill
    BY <1>1, <1>16 DEF Kill
  <1>14. CASE NextRun
    BY <1>14, <1>n DEF NextRun, Written, At, Decided
  <1>15. CASE UNCHANGED vars
    BY <1>15, <1>p DEF IInv, Written, vars, Content, At, Decided
  <1> QED
    BY <1>3, <1>4, <1>5, <1>6, <1>7, <1>8, <1>9, <1>10, <1>11, <1>12, <1>13, <1>14, <1>15, <1>16
       DEF Next, Over

-----------------------------------------------------------------------------
(* Who owns the chunks of a file. *)
LateSteps == {"print", "appendSummary", "verdict", "ended"}

(* The run goes on within its steps: it is not before a step it was past. *)
Onward ==
    /\ pc \in {"verdict", "ended"} => pc' \in {"verdict", "ended"}
    /\ pc \in LateSteps => pc' \in LateSteps
    /\ UNCHANGED <<setup, run, options>>

LEMMA OwnedIfKept ==
    ASSUME IInv, Onward, UNCHANGED disk
    PROVE  Owned'
  <1>1. /\ Path("out")' = Path("out") /\ Path("comparison-out")' = Path("comparison-out")
        /\ Given("out")' <=> Given("out")
    BY PathsFixed DEF Onward, PathFlag
  <1>2. ASSUME NEW f \in File PROVE Chunks(f)' = Chunks(f)
    BY DEF Chunks
  <1> QED
    BY <1>1, <1>2 DEF IInv, Owned, Onward, LateSteps, Comparison, Report, Content

(* A chunk of this run at the end of a file that may have it.              *)
LEMMA OwnedIfPut ==
    ASSUME IInv, Onward, NEW flag \in PathFlag, Given(flag),
           NEW w \in {"report", "comparison", "summary", "torn"}, Put(flag, w),
           pc' \in {"verdict", "ended"} \/ flag \in {"out", "comparison-out"},
           pc \in LateSteps => Path(flag) # Path("out"),
           w = "comparison" => /\ pc' \in LateSteps /\ Path(flag) # Path("out")
                               /\ Given("out") /\ Content("out") = <<Report(run)>>
    PROVE  Owned'
  <1>1. /\ Path("out")' = Path("out") /\ Path("comparison-out")' = Path("comparison-out")
        /\ Path(flag)' = Path(flag) /\ (Given("out")' <=> Given("out"))
    BY PathsFixed DEF Onward, PathFlag
  <1>2. run' = run /\ options' = options /\ options # None
    BY DEF Onward, Given
  <1>t. TypeOK
    BY DEF IInv
  <1>3. /\ disk'[Path(flag)] = Append(Chunks(Path(flag)), [what |-> w, run |-> run])
        /\ \A f \in File \ {Path(flag)} : disk'[f] = disk[f]
    BY <1>t, PutEffect
  <1>4. Path(flag) \in File /\ Chunks(Path(flag)) \in Seq(Chunk)
    BY <1>t, ChunksType DEF Given
  <1>5. run \in Nat
    BY <1>t, RunsAssumption DEF TypeOK
  <1>6. [what |-> w, run |-> run] \in Chunk
    BY <1>5 DEF Chunk
  <1>7. Chunks(Path(flag))' = Append(Chunks(Path(flag)), [what |-> w, run |-> run])
    <2>1. Append(Chunks(Path(flag)), [what |-> w, run |-> run]) \in Seq(Chunk)
      BY <1>4, <1>6
    <2>2. disk'[Path(flag)'] # Absent
      BY <2>1, <1>1, <1>3, RunsAssumption
    <2> QED
      BY <2>2, <1>1, <1>3 DEF Chunks
  <1>8. ASSUME NEW f \in File, f # Path(flag) PROVE Chunks(f)' = Chunks(f)
    BY <1>3, <1>8 DEF Chunks
  <1>9. Given("out") /\ Path(flag) # Path("out") => Content("out")' = Content("out")
    BY <1>1, <1>3 DEF Given, Content
  <1>10. ASSUME NEW f \in File, NEW i \in 1..Len(Chunks(f)')
         PROVE  \/ i \in 1..Len(Chunks(f)) /\ Chunks(f)'[i] = Chunks(f)[i]
                \/ f = Path(flag) /\ Chunks(f)'[i] = [what |-> w, run |-> run]
    <2>1. CASE f = Path(flag)
      <3> DEFINE old == Chunks(Path(flag))
      <3> DEFINE new == [what |-> w, run |-> run]
      <3>1. old \in Seq(Chunk) /\ new \in Chunk
        BY <1>4, <1>6
      <3>2. Chunks(f)' = Append(old, new)
        BY <2>1, <1>1, <1>7
      <3>3. i \in 1..Len(Append(old, new))
        BY <3>2
      <3> HIDE DEF old, new
      <3>4. \/ i \in 1..Len(old) /\ Append(old, new)[i] = old[i]
            \/ Append(old, new)[i] = new
        BY <3>1, <3>3
      <3> QED
        BY <2>1, <3>2, <3>4 DEF old, new
    <2>2. CASE f # Path(flag)
      BY <2>2, <1>8
    <2> QED
      BY <2>1, <2>2
  <1>11. SUFFICES ASSUME NEW f \in File, NEW i \in 1..Len(Chunks(f)')
                  PROVE  /\ Chunks(f)'[i].run <= run
                         /\ Chunks(f)'[i].run = run =>
                              pc' \in {"verdict", "ended"} \/ f \in {Path("out"), Path("comparison-out")}
                         /\ Chunks(f)'[i] = Comparison(run) =>
                              /\ pc' \in LateSteps
                              /\ Given("out") /\ Content("out")' = <<Report(run)>>
    BY <1>1, <1>2 DEF Owned, LateSteps, Comparison, Report
  <1>12. CASE i \in 1..Len(Chunks(f)) /\ Chunks(f)'[i] = Chunks(f)[i]
    <2>1. /\ Chunks(f)[i].run <= run
          /\ Chunks(f)[i].run = run =>
               pc \in {"verdict", "ended"} \/ f \in {Path("out"), Path("comparison-out")}
          /\ Chunks(f)[i] = Comparison(run) =>
               /\ pc \in LateSteps
               /\ Given("out") /\ Content("out") = <<Report(run)>>
      BY <1>12 DEF IInv, Owned, LateSteps
    <2> QED
      BY <2>1, <1>9, <1>12 DEF Onward
  <1>13. CASE f = Path(flag) /\ Chunks(f)'[i] = [what |-> w, run |-> run]
    <2>1. Chunks(f)'[i] = Comparison(run) => w = "comparison"
      BY <1>13 DEF Comparison
    <2> QED
      BY <2>1, <1>5, <1>9, <1>13
  <1> QED
    BY <1>10, <1>12, <1>13

LEMMA OwnedIfTruncated ==
    ASSUME IInv, Onward, NEW flag \in PathFlag, Given(flag), Truncate(flag),
           pc \notin LateSteps
    PROVE  Owned'
  <1>1. /\ Path("out")' = Path("out") /\ Path("comparison-out")' = Path("comparison-out")
        /\ (Given("out")' <=> Given("out"))
    BY PathsFixed DEF Onward, PathFlag
  <1>t. TypeOK
    BY DEF IInv
  <1>2. /\ disk'[Path(flag)] = <<>>
        /\ \A f \in File \ {Path(flag)} : disk'[f] = disk[f]
    BY <1>t, TruncateEffect
  <1>3. ASSUME NEW f \in File
        PROVE  Chunks(f)' = <<>> \/ Chunks(f)' = Chunks(f)
    BY <1>2, RunsAssumption DEF Chunks
  <1>4. SUFFICES ASSUME NEW f \in File, NEW i \in 1..Len(Chunks(f)')
                 PROVE  /\ Chunks(f)'[i].run <= run
                        /\ Chunks(f)'[i].run = run =>
                             /\ options # None
                             /\ pc' \in {"verdict", "ended"} \/ f \in {Path("out"), Path("comparison-out")}
                        /\ Chunks(f)'[i] # Comparison(run)
    BY <1>1 DEF Owned, Onward, Comparison
  <1>5. Chunks(f)' = Chunks(f)
    BY <1>3, <1>4
  <1> QED
    BY <1>4, <1>5 DEF IInv, Owned, LateSteps, Onward

LEMMA OwnedInductive == ASSUME IInv, [Next]_vars PROVE Owned'
  <1>t. TypeOK
    BY DEF IInv
  <1>r. run \in Nat
    BY <1>t, RunsAssumption DEF TypeOK
  <1>k. ASSUME NEW f \in File, UNCHANGED disk PROVE Chunks(f)' = Chunks(f)
    BY <1>k DEF Chunks
  <1>c. ASSUME NEW f \in File, NEW i \in 1..Len(Chunks(f)) PROVE Chunks(f)[i].run \in Nat
    <2>1. Chunks(f) \in Seq(Chunk)
      BY <1>t, ChunksType
    <2>2. Chunks(f)[i] \in Chunk
      BY <2>1
    <2> QED
      BY <2>2 DEF Chunk
  <1>f. ASSUME NEW from, Fails(from) PROVE Owned'
    BY <1>f, OwnedIfKept DEF Fails, Stop, Onward, LateSteps
  <1>1. CASE ParseCommand
    <2>1. options = None /\ run' = run /\ UNCHANGED disk
      BY <1>1 DEF ParseCommand, IInv, Phases
    <2>2. ASSUME NEW f \in File, NEW i \in 1..Len(Chunks(f))
          PROVE  Chunks(f)[i].run <= run /\ Chunks(f)[i].run # run
      BY <2>1 DEF IInv, Owned
    <2> QED
      BY <2>1, <2>2, <1>k DEF Owned, Comparison
  <1>2. CASE ValidatePaths
    BY <1>2, <1>f, OwnedIfKept DEF ValidatePaths, Step, Onward, LateSteps
  <1>3. CASE ReadBaseline
    BY <1>3, <1>f, OwnedIfKept DEF ReadBaseline, Step, Onward, LateSteps
  <1>4. CASE Crawl
    BY <1>4, <1>f, OwnedIfKept DEF Crawl, Step, Onward, LateSteps
  <1>5. CASE CreateReport
    <2>1. CASE Given("out") /\ Step("createReport", "writeReport") /\ Truncate("out")
               /\ UNCHANGED <<setup, run, options, found, printed>>
      BY <2>1, OwnedIfTruncated DEF Step, Onward, LateSteps, PathFlag
    <2> QED
      BY <1>5, <1>f, <2>1 DEF CreateReport
  <1>6. CASE WriteReport
    <2>1. Given("out")
      BY <1>6 DEF WriteReport, IInv, Written, Step, Stop
    <2>2. Onward /\ pc \notin LateSteps
      BY <1>6 DEF WriteReport, Step, Stop, Onward, LateSteps
    <2>3. Put("out", "report") \/ Put("out", "torn") \/ UNCHANGED disk
      BY <1>6 DEF WriteReport
    <2> QED
      BY <2>1, <2>2, <2>3, OwnedIfPut, OwnedIfKept DEF PathFlag
  <1>7. CASE CreateComparison
    <2>1. CASE Step("createComparison", "writeComparison") /\ Truncate("comparison-out")
               /\ UNCHANGED <<setup, run, options, found, printed>>
      <3>1. Given("comparison-out")
        BY <2>1 DEF IInv, Written, Step
      <3> QED
        BY <2>1, <3>1, OwnedIfTruncated DEF Step, Onward, LateSteps, PathFlag
    <2> QED
      BY <1>7, <1>f, <2>1 DEF CreateComparison
  <1>8. CASE WriteComparison
    <2>1. /\ Given("comparison-out") /\ Given("out") /\ Content("out") = <<Report(run)>>
          /\ DistinctPaths
      BY <1>8 DEF WriteComparison, IInv, Written, Phases, Step, Stop, At
    <2>2. Path("comparison-out") # Path("out")
      BY <2>1 DEF DistinctPaths, PathFlag
    <2>3. Onward /\ pc' \in LateSteps
      BY <1>8 DEF WriteComparison, Step, Stop, Onward, LateSteps
    <2>4. Put("comparison-out", "comparison") \/ Put("comparison-out", "torn") \/ UNCHANGED disk
      BY <1>8 DEF WriteComparison
    <2> QED
      BY <2>1, <2>2, <2>3, <2>4, OwnedIfPut, OwnedIfKept DEF PathFlag
  <1>9. CASE PrintSummary
    BY <1>9, <1>f, OwnedIfKept DEF PrintSummary, Step, Onward, LateSteps
  <1>10. CASE AppendSummary
    <2>1. Given("github-step-summary") /\ Given("out") /\ DistinctPaths
      BY <1>10 DEF AppendSummary, IInv, Written, Phases, Step, Stop, At
    <2>2. Path("github-step-summary") # Path("out")
      BY <2>1 DEF DistinctPaths, PathFlag
    <2>3. Onward /\ pc' \in {"verdict", "ended"}
      BY <1>10 DEF AppendSummary, Step, Stop, Onward, LateSteps
    <2>4. \/ Put("github-step-summary", "summary") \/ Put("github-step-summary", "torn")
          \/ UNCHANGED disk
      BY <1>10 DEF AppendSummary
    <2> QED
      BY <2>1, <2>2, <2>3, <2>4, OwnedIfPut, OwnedIfKept DEF PathFlag
  <1>11. CASE Verdict
    BY <1>11, OwnedIfKept DEF Verdict, Stop, Onward, LateSteps
  <1>12. CASE Kill
    BY <1>12, OwnedIfKept DEF Kill, Stop, Onward, LateSteps
  <1>13. CASE NextRun
    <2>1. run' = run + 1 /\ UNCHANGED disk
      BY <1>13 DEF NextRun
    <2>2. ASSUME NEW f \in File, NEW i \in 1..Len(Chunks(f))
          PROVE  Chunks(f)[i].run <= run' /\ Chunks(f)[i].run # run'
      <3>1. Chunks(f)[i].run <= run
        BY DEF IInv, Owned
      <3> QED
        BY <2>1, <3>1, <1>r, <1>c
    <2> QED
      BY <2>1, <2>2, <1>k DEF Owned, Comparison
  <1>14. CASE UNCHANGED vars
    BY <1>14, OwnedIfKept DEF vars, Onward
  <1> QED
    BY <1>1, <1>2, <1>3, <1>4, <1>5, <1>6, <1>7, <1>8, <1>9, <1>10, <1>11, <1>12, <1>13, <1>14
       DEF Next, Over

-----------------------------------------------------------------------------
(* The theorems *)
LEMMA InitIInv == ASSUME Init PROVE IInv
  <1>n. None \notin {"ok", "policy", "error", "help", "killed"}
    BY NoneAssumption
  <1>1. ASSUME NEW f \in File PROVE Chunks(f) \in {<<>>, <<Report(0)>>}
    <2>1. disk[f] \in {Absent, <<Report(0)>>}
      BY DEF Init
    <2> QED
      BY <2>1 DEF Chunks
  <1>2. Report(0) \in Chunk
    BY DEF Report, Chunk
  <1>3. TypeOK
    <2>1. disk \in [File -> Seq(Chunk) \cup {Absent}]
      <3>1. {Absent, <<Report(0)>>} \subseteq Seq(Chunk) \cup {Absent}
        BY <1>2
      <3>2. disk \in [File -> {Absent, <<Report(0)>>}]
        BY DEF Init
      <3> QED
        BY <3>1, <3>2
    <2>2. found \in [all : SUBSET Cause, new : SUBSET Cause]
      BY DEF Init, NothingFound
    <2>3. run \in 1..MaxRuns /\ printed \in Seq(1..MaxRuns)
      BY RunsAssumption DEF Init
    <2> QED
      BY <2>1, <2>2, <2>3 DEF Init, TypeOK
  <1>4. Phases
    BY <1>n DEF Init, Phases, Ended, At, Decided
  <1>5. Written
    BY <1>n DEF Init, Written, At, Decided
  <1>6. Owned
    <2>1. ASSUME NEW f \in File, NEW i \in 1..Len(Chunks(f)) PROVE Chunks(f)[i].run = 0
      BY <1>1 DEF Report
    <2> QED
      BY <2>1 DEF Init, Owned, Comparison
  <1> QED
    BY <1>3, <1>4, <1>5, <1>6 DEF IInv

LEMMA IInvHolds == Spec => []IInv
  <1>1. IInv /\ [Next]_vars => IInv'
    BY TypeInductive, PhasesInductive, WrittenInductive, OwnedInductive DEF IInv
  <1> QED
    BY <1>1, InitIInv, PTL DEF Spec

(* Every variable of the commands has its type, whatever is parsed, fails  *)
(* or is killed.                                                         *)
THEOREM TypeCorrect == Spec => []TypeOK
  <1>1. IInv => TypeOK
    BY DEF IInv
  <1> QED
    BY <1>1, IInvHolds, PTL

(* The comparison of a run is on disk only beside the whole report of that *)
(* run, also when the run failed or was killed.                          *)
THEOREM ComparisonAfterReport == Spec => []ComparisonHasItsReport
  <1>1. ASSUME IInv PROVE ComparisonHasItsReport
    <2>1. SUFFICES ASSUME setup.command = "check", Given("comparison-out"),
                          Content("comparison-out") # Absent,
                          NEW i \in 1..Len(Content("comparison-out")),
                          Content("comparison-out")[i] = [what |-> "comparison", run |-> run]
                   PROVE  Content("out") = <<Report(run)>>
      BY DEF ComparisonHasItsReport
    <2>2. Path("comparison-out") \in File /\ Chunks(Path("comparison-out")) = Content("comparison-out")
      BY <2>1 DEF Given, Chunks, Content
    <2> QED
      BY <1>1, <2>1, <2>2 DEF IInv, Owned, Comparison
  <1> QED
    BY <1>1, IInvHolds, PTL

-----------------------------------------------------------------------------
(* What a step may do to a file: of all steps only those that write change *)
(* one, the file they write to, and a check has told the files apart then. *)
Writes(flag, steps) ==
    /\ pc \in steps /\ Given(flag)
    /\ setup.command = "check" => DistinctPaths
    /\ \A f \in File \ {Path(flag)} : disk'[f] = disk[f]

LEMMA OnlyWrites ==
    ASSUME IInv, [Next]_vars
    PROVE  \/ UNCHANGED disk
           \/ Writes("out", {"createReport", "writeReport"})
           \/ Writes("comparison-out", {"createComparison", "writeComparison"})
           \/ /\ Writes("github-step-summary", {"appendSummary"})
              /\ \E w \in {"summary", "torn"} : Put("github-step-summary", w)
  <1>t. TypeOK
    BY DEF IInv
  <1>1. ASSUME NEW flag \in PathFlag, Given(flag),
               NEW w \in {"report", "comparison", "summary", "torn"}, Put(flag, w)
        PROVE  \A f \in File \ {Path(flag)} : disk'[f] = disk[f]
    BY <1>1, <1>t, PutEffect
  <1>2. ASSUME NEW flag \in PathFlag, Given(flag), Truncate(flag)
        PROVE  \A f \in File \ {Path(flag)} : disk'[f] = disk[f]
    BY <1>2, <1>t, TruncateEffect
  <1>c. setup.command \in {"scan", "check"}
    BY <1>t, SetupAssumption DEF TypeOK, Setup
  <1>3. CASE CreateReport
    <2>1. CASE Given("out") /\ pc = "createReport" /\ Truncate("out")
      BY <2>1, <1>2 DEF Writes, IInv, Phases, At, PathFlag
    <2> QED
      BY <1>3, <2>1 DEF CreateReport, Step, Fails
  <1>4. CASE WriteReport
    <2>1. pc = "writeReport" /\ (Put("out", "report") \/ Put("out", "torn") \/ UNCHANGED disk)
      BY <1>4 DEF WriteReport, Step, Stop
    <2>2. Given("out")
      BY <2>1 DEF IInv, Written
    <2> QED
      BY <2>1, <2>2, <1>1 DEF Writes, IInv, Phases, At, PathFlag
  <1>5. CASE CreateComparison
    <2>1. CASE pc = "createComparison" /\ Truncate("comparison-out")
      <3>1. Given("comparison-out")
        BY <2>1 DEF IInv, Written
      <3> QED
        BY <2>1, <3>1, <1>2 DEF Writes, IInv, Phases, At, PathFlag
    <2> QED
      BY <1>5, <2>1 DEF CreateComparison, Step, Fails
  <1>6. CASE WriteComparison
    <2>1. /\ pc = "writeComparison"
          /\ \/ Put("comparison-out", "comparison") \/ Put("comparison-out", "torn")
             \/ UNCHANGED disk
      BY <1>6 DEF WriteComparison, Step, Stop
    <2>2. Given("comparison-out")
      BY <2>1 DEF IInv, Written
    <2> QED
      BY <2>1, <2>2, <1>1 DEF Writes, IInv, Phases, At, PathFlag
  <1>7. CASE AppendSummary
    <2>1. /\ pc = "appendSummary"
          /\ \/ Put("github-step-summary", "summary") \/ Put("github-step-summary", "torn")
             \/ UNCHANGED disk
      BY <1>7 DEF AppendSummary, Step, Stop
    <2>2. Given("github-step-summary")
      BY <2>1 DEF IInv, Written
    <2> QED
      BY <2>1, <2>2, <1>1 DEF Writes, IInv, Phases, At, PathFlag
  <1> QED
    BY <1>3, <1>4, <1>5, <1>6, <1>7
       DEF Next, Over, ParseCommand, ValidatePaths, ReadBaseline, Crawl, PrintSummary, Verdict, Kill,
           NextRun, Fails, vars

(* No check ever changes the file its baseline is read from, under       *)
(* whatever names its outputs are given.                                 *)
THEOREM BaselineIsSafe == Spec => BaselineUntouched
  <1>1. ASSUME IInv, [Next]_vars, NEW f \in File, disk'[f] # disk[f]
        PROVE  ~(setup.command = "check" /\ Given("baseline") /\ f = Path("baseline"))
    <2>1. SUFFICES ASSUME setup.command = "check", Given("baseline"), f = Path("baseline")
                   PROVE  FALSE
      OBVIOUS
    <2>2. PICK flag \in {"out", "comparison-out", "github-step-summary"} :
            DistinctPaths /\ f = Path(flag)
      BY <1>1, <2>1, OnlyWrites DEF Writes
    <2> QED
      BY <2>1, <2>2 DEF DistinctPaths, PathFlag
  <1>2. ASSUME IInv, [Next]_vars
        PROVE  [\A f \in File : disk'[f] # disk[f] =>
                  ~(setup.command = "check" /\ Given("baseline") /\ f = Path("baseline"))]_vars
    BY <1>1, <1>2
  <1> QED
    BY <1>2, IInvHolds, PTL DEF Spec, BaselineUntouched

(* What a check compares with, from reading it to the verdict. *)
FromEarlier(b, r) == b # Absent /\ b # <<>> /\ Head(b).what # "torn" /\ Head(b).run < r

Compared ==
    /\ setup.command = "check" /\ Given("baseline")
    /\ At({"crawl", "createReport", "writeReport", "createComparison", "writeComparison",
           "print", "appendSummary", "verdict"})
    => FromEarlier(Content("baseline"), run)

LEMMA ComparedInductive == ASSUME IInv, Compared, [Next]_vars PROVE Compared'
  <1> DEFINE Same == UNCHANGED <<setup, run, options>>
             Past == At({"crawl", "createReport", "writeReport", "createComparison",
                         "writeComparison", "print", "appendSummary", "verdict"})
  <1>n. None \notin {"ok", "policy", "error", "help", "killed"}
    BY NoneAssumption
  <1>p. ASSUME Same, Given("baseline"), setup.command = "check"
        PROVE  Content("baseline")' = Content("baseline")
    <2>1. Path("baseline")' = Path("baseline") /\ Path("baseline") \in File
      BY <1>p, PathsFixed DEF Given, PathFlag
    <2>2. disk'[Path("baseline")] = disk[Path("baseline")]
      <3>1. ASSUME NEW flag \in {"out", "comparison-out", "github-step-summary"},
                   DistinctPaths, \A f \in File \ {Path(flag)} : disk'[f] = disk[f]
            PROVE  disk'[Path("baseline")] = disk[Path("baseline")]
        <4>1. Path("baseline") # Path(flag)
          BY <1>p, <3>1 DEF DistinctPaths, PathFlag
        <4> QED BY <2>1, <3>1, <4>1
      <3> QED BY <1>p, <3>1, OnlyWrites DEF Writes
    <2> QED BY <2>1, <2>2 DEF Content
  <1>g. ASSUME Same PROVE Given("baseline")' <=> Given("baseline")
    BY <1>g, PathsFixed DEF PathFlag
  \* A step of a run that had read its baseline.
  <1>s. ASSUME Same, Past' => Past PROVE Compared'
    <2>1. SUFFICES ASSUME setup.command = "check", Given("baseline"), Past, Compared
                   PROVE  Compared'
      BY <1>s, <1>g DEF Compared
    <2>2. FromEarlier(Content("baseline"), run)
      BY <2>1 DEF Compared
    <2>3. Content("baseline")' = Content("baseline") /\ run' = run
      BY <1>s, <1>p, <2>1
    <2>4. FromEarlier(Content("baseline")', run')
      BY <2>2, <2>3
    <2> QED BY <2>4 DEF Compared
  <1>e. ASSUME NEW from, NEW how \in {"error", "help", "killed"}, Stop(from, how) PROVE Compared'
    BY <1>e DEF Stop, Compared, At, Decided
  <1>f. ASSUME NEW from, Fails(from) PROVE Compared'
    BY <1>e, <1>f DEF Fails
  <1>1. CASE ParseCommand
    <2>1. ParseArgs(setup.command, setup.args, setup.configs).outcome \in {"ok", "error", "help"}
      BY DEF ParseArgs, ParseFlags, Parse
    <2>2. CASE Step("parse", IF setup.command = "check" THEN "validate" ELSE "crawl")
               /\ UNCHANGED setup
      BY <2>2, <1>n DEF IInv, Phases, Step, Compared, Ended, At, Decided
    <2>3. \/ Step("parse", IF setup.command = "check" THEN "validate" ELSE "crawl") /\ UNCHANGED setup
          \/ \E how \in {"error", "help"} : Stop("parse", how)
      BY <1>1, <2>1 DEF ParseCommand
    <2> QED BY <1>e, <2>2, <2>3
  <1>2. CASE ValidatePaths
    <2>1. CASE Step("validate", "readBaseline")
      BY <2>1, <1>n DEF IInv, Phases, Step, Compared, Ended, At, Decided
    <2> QED BY <1>2, <1>f, <2>1 DEF ValidatePaths
  <1>3. CASE ReadBaseline
    <2>1. CASE /\ Given("baseline") => BaselineReads
               /\ Step("readBaseline", "crawl")
               /\ UNCHANGED <<setup, run, options, found, disk, printed>>
      <3>1. SUFFICES ASSUME setup.command = "check", Given("baseline")
                     PROVE  Compared'
        BY <1>g, <2>1 DEF Compared
      <3> DEFINE f == Path("baseline")
                 s == Chunks(f)
      <3>2. f \in File /\ s \in Seq(Chunk) /\ s # <<>> /\ Head(s).what \in {"report", "comparison"}
        <4>1. f \in File /\ s \in Seq(Chunk)
          BY <3>1, ChunksType DEF Given, IInv
        <4>2. Beginning(f) \in {"report", "comparison"}
          BY <2>1, <3>1 DEF BaselineReads
        <4> QED BY <4>1, <4>2, Zenon DEF Beginning
      <3>3. Content("baseline") = s /\ s # Absent
        <4>1. disk[f] # Absent
          BY <3>2 DEF Chunks
        <4> QED BY <4>1 DEF Chunks, Content
      <3>4. DistinctPaths /\ pc = "readBaseline"
        BY <2>1, <3>1 DEF Step, IInv, Phases, At
      <3>5. f # Path("out") /\ f # Path("comparison-out")
        BY <3>1, <3>4 DEF DistinctPaths, PathFlag
      <3>6. 1 \in 1..Len(s) /\ Head(s) = s[1] /\ s[1].run \in Nat
        <4> HIDE DEF s
        <4>1. 1 \in 1..Len(s) /\ Head(s) = s[1] /\ s[1] \in Chunk
          BY <3>2
        <4> QED BY <4>1 DEF Chunk
      <3>7. s[1].run <= run /\ s[1].run # run
        BY <3>2, <3>4, <3>5, <3>6 DEF IInv, Owned
      <3>8. run \in Nat
        BY RunsAssumption DEF IInv, TypeOK
      <3> HIDE DEF f, s
      <3>9. Head(s).run < run
        BY <3>6, <3>7, <3>8
      <3>10. FromEarlier(Content("baseline"), run)
        BY <3>2, <3>3, <3>9 DEF FromEarlier
      <3>11. Content("baseline")' = Content("baseline") /\ run' = run
        BY <1>p, <2>1, <3>1
      <3>12. FromEarlier(Content("baseline")', run')
        BY <3>10, <3>11
      <3> QED BY <3>12 DEF Compared
    <2> QED BY <1>3, <1>f, <2>1 DEF ReadBaseline
  <1>4. CASE Crawl
    BY <1>4, <1>f, <1>s DEF Crawl, Step, At
  <1>5. CASE CreateReport
    BY <1>5, <1>f, <1>s DEF CreateReport, Step, At
  <1>6. CASE WriteReport
    BY <1>6, <1>e, <1>s DEF WriteReport, Step, At
  <1>7. CASE CreateComparison
    BY <1>7, <1>f, <1>s DEF CreateComparison, Step, At
  <1>8. CASE WriteComparison
    BY <1>8, <1>e, <1>s DEF WriteComparison, Step, At
  <1>9. CASE PrintSummary
    BY <1>9, <1>f, <1>s DEF PrintSummary, Step, At
  <1>10. CASE AppendSummary
    BY <1>10, <1>e, <1>s DEF AppendSummary, Step, At
  <1>11. CASE Verdict
    BY <1>11, <1>s DEF Verdict, Stop, At
  <1>12. CASE Kill
    BY <1>12, <1>e DEF Kill
  <1>13. CASE NextRun
    BY <1>13, <1>n DEF NextRun, Compared, At, Decided
  <1>14. CASE UNCHANGED vars
    BY <1>14, <1>s DEF vars, At, Decided
  <1> QED
    BY <1>1, <1>2, <1>3, <1>4, <1>5, <1>6, <1>7, <1>8, <1>9, <1>10, <1>11, <1>12, <1>13, <1>14
       DEF Next, Over

(* A scan or a check that ends with a verdict on the links has written all *)
(* that it was asked for, whole, whatever paths it was given, and a check  *)
(* compared with a whole file of an earlier run.                           *)
THEOREM VerdictIsWritten == Spec => []VerdictMeansWritten
  <1>1. ASSUME IInv, Compared PROVE VerdictMeansWritten
    <2>1. SUFFICES ASSUME Decided PROVE VerdictMeansWritten
      BY DEF VerdictMeansWritten, Decided
    <2>2. setup.command = "check" /\ Given("baseline") =>
             LET b == Content("baseline") IN
             b # Absent /\ b # <<>> /\ Head(b).what # "torn" /\ Head(b).run < run
      BY <1>1, <2>1 DEF Compared, FromEarlier, At
    <2> QED
      BY <1>1, <2>1, <2>2 DEF IInv, Written, At, VerdictMeansWritten, Comparison, Summary
  <1>2. ASSUME Init PROVE Compared
    <2>1. None \notin {"ok", "policy", "error", "help", "killed"}
      BY NoneAssumption
    <2> QED BY <1>2, <2>1 DEF Init, Compared, At, Decided
  <1> QED
    BY <1>1, <1>2, ComparedInductive, IInvHolds, PTL DEF Spec

(* A check adds at most one chunk to the step summary, at its end and    *)
(* after printing, and no run removes what is there.                     *)
THEOREM SummariesAreKept == Spec => SummariesAccumulate
  <1>1. ASSUME IInv, [Next]_vars, NEW f \in File,
               disk'[f] # disk[f], setup.command = "check", Given("github-step-summary"),
               f = Path("github-step-summary"), DistinctPaths
        PROVE  /\ \E what \in {"summary", "torn"} :
                    disk'[f] = Append(Chunks(f), [what |-> what, run |-> run])
               /\ \A i \in 1..Len(Chunks(f)) : Chunks(f)[i].run # run
               /\ \E i \in 1..Len(printed) : printed[i] = run
    <2>1. f # Path("out") /\ f # Path("comparison-out")
      BY <1>1 DEF DistinctPaths, PathFlag
    <2>2. pc = "appendSummary" /\ \E w \in {"summary", "torn"} : Put("github-step-summary", w)
      BY <1>1, <2>1, OnlyWrites DEF Writes
    <2>3. PICK w \in {"summary", "torn"} : Put("github-step-summary", w)
      BY <2>2
    <2>4. disk'[f] = Append(Chunks(f), [what |-> w, run |-> run])
      BY <1>1, <2>3, PutEffect DEF IInv, PathFlag
    <2>5. \A i \in 1..Len(Chunks(f)) : Chunks(f)[i].run # run
      BY <1>1, <2>1, <2>2 DEF IInv, Owned
    <2>6. \E i \in 1..Len(printed) : printed[i] = run
      BY <1>1, <2>2 DEF IInv, Written, At
    <2> QED
      BY <2>4, <2>5, <2>6
  <1>2. ASSUME IInv, [Next]_vars
        PROVE  [\A f \in File :
                 (/\ disk'[f] # disk[f]
                  /\ setup.command = "check" /\ Given("github-step-summary") /\ f = Path("github-step-summary")
                  /\ DistinctPaths)
                   => /\ \E what \in {"summary", "torn"} :
                           disk'[f] = Append(Chunks(f), [what |-> what, run |-> run])
                      /\ \A i \in 1..Len(Chunks(f)) : Chunks(f)[i].run # run
                      /\ \E i \in 1..Len(printed) : printed[i] = run]_vars
    BY <1>1, <1>2
  <1> QED
    BY <1>2, IInvHolds, PTL DEF Spec, SummariesAccumulate

-----------------------------------------------------------------------------
(* How the command line is taken *)

SortState == [mode : {"plain", "value", "rest", "error"}, flags : Seq(Token), words : Seq(Token)]
NothingSorted == [mode |-> "plain", flags |-> <<>>, words |-> <<>>]

ReadState == [mode : {"flags", "value", "args", "help", "error"}, flag : Option \cup {""},
              given : [Option -> Seq(Value)], args : Seq(Value)]
NothingRead == [mode |-> "flags", flag |-> "", given |-> NothingGiven, args |-> <<>>]

LEMMA TokenFields ==
    ASSUME NEW t \in Token
    PROVE  /\ t.kind \in {"word", "flag", "inline", "dashes", "help"} /\ t.text \in Value
           /\ t.kind = "word" => t.name = ""
  BY ValueAssumption DEF Token

LEMMA DefinedOptions == \A command : Defined(command) \subseteq Option
  BY DEF Defined, Option

LEMMA PlaceType ==
    ASSUME NEW command, NEW acc \in SortState, NEW t \in Token
    PROVE  Place(command, acc, t) \in SortState
  <1>1. /\ acc.mode \in {"plain", "value", "rest", "error"}
        /\ acc.flags \in Seq(Token) /\ acc.words \in Seq(Token)
        /\ acc = [mode |-> acc.mode, flags |-> acc.flags, words |-> acc.words]
    BY DEF SortState
  <1>2. Append(acc.flags, t) \in Seq(Token) /\ Append(acc.words, t) \in Seq(Token)
    BY <1>1
  <1>3. \A mode \in {"plain", "value", "rest", "error"}, flags \in Seq(Token), words \in Seq(Token) :
          [acc EXCEPT !.mode = mode, !.flags = flags] \in SortState
    BY <1>1 DEF SortState
  <1>4. \A mode \in {"plain", "value", "rest", "error"}, flags \in Seq(Token), words \in Seq(Token) :
          /\ [acc EXCEPT !.words = words] \in SortState
          /\ [acc EXCEPT !.mode = mode] \in SortState
          /\ [acc EXCEPT !.flags = flags] \in SortState
    BY <1>1 DEF SortState
  <1> QED BY <1>1, <1>2, <1>3, <1>4 DEF Place

LEMMA StoreType ==
    ASSUME NEW acc \in ReadState, NEW flag \in Option \cup {""}, NEW text \in Value
    PROVE  /\ Store(acc, flag, text) \in ReadState
           /\ flag \in Option /\ Parses(flag, text) =>
                /\ Store(acc, flag, text).mode = "flags"
                /\ Store(acc, flag, text).args = acc.args
                /\ Store(acc, flag, text).given[flag] = Append(acc.given[flag], text)
                /\ \A f \in Option \ {flag} : Store(acc, flag, text).given[f] = acc.given[f]
  <1>1. /\ acc.mode \in {"flags", "value", "args", "help", "error"} /\ acc.flag \in Option \cup {""}
        /\ acc.given \in [Option -> Seq(Value)] /\ acc.args \in Seq(Value)
        /\ acc = [mode |-> acc.mode, flag |-> acc.flag, given |-> acc.given, args |-> acc.args]
    BY DEF ReadState
  <1> DEFINE given == [acc.given EXCEPT ![flag] = Append(acc.given[flag], text)]
  <1>2. given \in [Option -> Seq(Value)]
    <2>1. CASE flag \in Option
      <3>1. Append(acc.given[flag], text) \in Seq(Value)
        BY <1>1, <2>1, AppendType
      <3> QED BY <1>1, <3>1
    <2>2. CASE flag \notin Option
      BY <1>1, <2>2
    <2> QED BY <2>1, <2>2
  <1>3. flag \in Option =>
          given[flag] = Append(acc.given[flag], text) /\ \A f \in Option \ {flag} : given[f] = acc.given[f]
    BY <1>1
  <1>4. Parses(flag, text) => Store(acc, flag, text) = [acc EXCEPT !.mode = "flags", !.given = given]
    BY <1>1 DEF Store
  <1>5. ~Parses(flag, text) => Store(acc, flag, text) = [acc EXCEPT !.mode = "error"]
    BY DEF Store
  <1> HIDE DEF given
  <1> QED BY <1>1, <1>2, <1>3, <1>4, <1>5 DEF ReadState

LEMMA ParseOneType ==
    ASSUME NEW command, NEW acc \in ReadState, NEW t \in Token
    PROVE  ParseOne(command, acc, t) \in ReadState
  <1>1. /\ acc.mode \in {"flags", "value", "args", "help", "error"} /\ acc.flag \in Option \cup {""}
        /\ acc.given \in [Option -> Seq(Value)] /\ acc.args \in Seq(Value)
        /\ acc = [mode |-> acc.mode, flag |-> acc.flag, given |-> acc.given, args |-> acc.args]
    BY DEF ReadState
  <1>2. t.text \in Value /\ "true" \in Value
    BY TokenFields, ValueAssumption DEF Boolean
  <1>3. Append(acc.args, t.text) \in Seq(Value) /\ <<t.text>> \in Seq(Value)
    BY <1>1, <1>2, AppendType
  <1>4. \A text \in Value, flag \in Option \cup {""} : Store(acc, flag, text) \in ReadState
    BY StoreType
  <1>5. t.name \in Defined(command) => t.name \in Option
    BY DefinedOptions
  <1> DEFINE next == ParseOne(command, acc, t)
  <1> HIDE DEF next
  <1>6. CASE acc.mode \in {"error", "help"}
    BY <1>6 DEF ParseOne, next
  <1>7. CASE acc.mode = "args"
    <2>1. next = [acc EXCEPT !.args = Append(acc.args, t.text)]
      BY <1>7 DEF ParseOne, next
    <2> QED BY <1>1, <1>3, <2>1 DEF ReadState, next
  <1>8. CASE acc.mode = "value"
    <2>1. next = Store(acc, acc.flag, t.text)
      BY <1>8 DEF ParseOne, next
    <2> QED BY <1>1, <1>2, <1>4, <2>1 DEF next
  <1>9. CASE acc.mode = "flags"
    <2>1. CASE t.kind = "word"
      <3>1. next = [acc EXCEPT !.mode = "args", !.args = <<t.text>>]
        BY <1>9, <2>1 DEF ParseOne, next
      <3> QED BY <1>1, <1>3, <3>1 DEF ReadState, next
    <2>2. CASE t.kind = "dashes" \/ t.kind = "help"
      <3>1. next = [acc EXCEPT !.mode = "args"] \/ next = [acc EXCEPT !.mode = "help"]
        BY <1>9, <2>2 DEF ParseOne, next
      <3> QED BY <1>1, <3>1 DEF ReadState, next
    <2>3. CASE t.kind \in {"flag", "inline"}
      <3>1. CASE t.name \notin Defined(command)
        <4>1. next = [acc EXCEPT !.mode = "error"]
          BY <1>9, <2>3, <3>1 DEF ParseOne, next
        <4> QED BY <1>1, <4>1 DEF ReadState, next
      <3>2. CASE t.name \in Defined(command) /\ TakesNext(t)
        <4>1. next = [acc EXCEPT !.mode = "value", !.flag = t.name]
          BY <1>9, <2>3, <3>2 DEF ParseOne, next
        <4> QED BY <1>1, <1>5, <3>2, <4>1 DEF ReadState, next
      <3>3. CASE t.name \in Defined(command) /\ ~TakesNext(t)
        <4> DEFINE text == IF t.kind = "inline" THEN t.text ELSE "true"
        <4>1. next = Store(acc, t.name, text)
          BY <1>9, <2>3, <3>3 DEF ParseOne, next
        <4>2. text \in Value /\ t.name \in Option \cup {""}
          BY <1>2, <1>5, <3>3
        <4> HIDE DEF text
        <4> QED BY <1>4, <4>1, <4>2 DEF next
      <3> QED BY <3>1, <3>2, <3>3
    <2> QED BY <2>1, <2>2, <2>3, TokenFields
  <1> QED BY <1>1, <1>6, <1>7, <1>8, <1>9

Sorts(command, args) ==
    {sorted \in [0..Len(args) -> SortState] :
        /\ sorted[0] = NothingSorted
        /\ \A n \in 1..Len(args) : sorted[n] = Place(command, sorted[n - 1], args[n])}

LEMMA SortWalk ==
    ASSUME NEW command, NEW args \in Seq(Token)
    PROVE  \E sorted \in Sorts(command, args) : Sorted(command, args) = sorted[Len(args)]
  <1> DEFINE L == Len(args)
             first == NothingSorted
             step == [n \in 1..L |-> [before \in SortState |-> Place(command, before, args[n])]]
             walk(g) == [n \in 0..L |-> IF n = 0 THEN first ELSE Place(command, g[n - 1], args[n])]
             sorted == CHOOSE g : g = walk(g)
  <1>1. L \in Nat /\ first \in SortState
    BY DEF NothingSorted, SortState
  <1>2. \A n \in 1..L, before \in SortState : Place(command, before, args[n]) \in SortState
    BY PlaceType
  <1>3. step \in [1..L -> [SortState -> SortState]]
    BY <1>2
  <1>4. \A n \in 1..L, before \in SortState : step[n][before] = Place(command, before, args[n])
    OBVIOUS
  <1>5. Sorted(command, args) = sorted[L]
    BY DEF Sorted, NothingSorted
  <1> HIDE DEF L, first, step
  <1>6. PICK f \in Loops(L, SortState, first, step) : TRUE
    BY <1>1, <1>3, LoopExists
  <1>7. /\ f \in [0..L -> SortState] /\ f[0] = first
        /\ \A n \in 1..L : f[n] = Place(command, f[n - 1], args[n])
    <2>1. \A n \in 1..L : n - 1 \in 0..L
      BY <1>1
    <2> QED BY <1>4, <1>6, <2>1 DEF Loops
  <1>8. f = walk(f)
    <2>1. \A n \in 0..L : f[n] = IF n = 0 THEN first ELSE Place(command, f[n - 1], args[n])
      BY <1>1, <1>7
    <2> QED BY <1>7, <2>1
  <1>9. sorted = walk(sorted)
    <2> HIDE DEF walk
    <2> QED BY <1>8
  <1> HIDE DEF sorted
  <1>10. sorted[0] = first /\ \A n \in 1..L : sorted[n] = Place(command, sorted[n - 1], args[n])
    BY <1>1, <1>9
  <1>11. sorted \in [0..L -> SortState]
    <2> DEFINE T == {n \in 0..L : sorted[n] \in SortState}
    <2>1. 0 \in T
      BY <1>1, <1>10
    <2>2. ASSUME NEW n \in 1..L, n - 1 \in T PROVE n \in T
      BY <1>1, <1>2, <1>10, <2>2
    <2> HIDE DEF T
    <2>3. 0..L \subseteq T
      BY <1>1, <2>1, <2>2, LoopInduction
    <2>4. \A n \in 0..L : sorted[n] \in SortState
      BY <2>3 DEF T
    <2> QED BY <1>9, <2>4
  <1> QED BY <1>5, <1>10, <1>11 DEF Sorts, L, first

Reads(command, tokens) ==
    {read \in [0..Len(tokens) -> ReadState] :
        /\ read[0] = NothingRead
        /\ \A n \in 1..Len(tokens) : read[n] = ParseOne(command, read[n - 1], tokens[n])}

LEMMA ReadWalk ==
    ASSUME NEW command, NEW tokens \in Seq(Token)
    PROVE  \E read \in Reads(command, tokens) : Reading(command, tokens) = read[Len(tokens)]
  <1> DEFINE L == Len(tokens)
             first == NothingRead
             step == [n \in 1..L |-> [before \in ReadState |-> ParseOne(command, before, tokens[n])]]
             walk(g) == [n \in 0..L |-> IF n = 0 THEN first ELSE ParseOne(command, g[n - 1], tokens[n])]
             read == CHOOSE g : g = walk(g)
  <1>1. L \in Nat /\ first \in ReadState
    BY DEF NothingRead, ReadState, NothingGiven
  <1>2. \A n \in 1..L, before \in ReadState : ParseOne(command, before, tokens[n]) \in ReadState
    BY ParseOneType
  <1>3. step \in [1..L -> [ReadState -> ReadState]]
    BY <1>2
  <1>4. \A n \in 1..L, before \in ReadState : step[n][before] = ParseOne(command, before, tokens[n])
    OBVIOUS
  <1>5. Reading(command, tokens) = read[L]
    BY DEF Reading, NothingRead
  <1> HIDE DEF L, first, step
  <1>6. PICK f \in Loops(L, ReadState, first, step) : TRUE
    BY <1>1, <1>3, LoopExists
  <1>7. /\ f \in [0..L -> ReadState] /\ f[0] = first
        /\ \A n \in 1..L : f[n] = ParseOne(command, f[n - 1], tokens[n])
    <2>1. \A n \in 1..L : n - 1 \in 0..L
      BY <1>1
    <2> QED BY <1>4, <1>6, <2>1 DEF Loops
  <1>8. f = walk(f)
    <2>1. \A n \in 0..L : f[n] = IF n = 0 THEN first ELSE ParseOne(command, f[n - 1], tokens[n])
      BY <1>1, <1>7
    <2> QED BY <1>7, <2>1
  <1>9. read = walk(read)
    <2> HIDE DEF walk
    <2> QED BY <1>8
  <1> HIDE DEF read
  <1>10. read[0] = first /\ \A n \in 1..L : read[n] = ParseOne(command, read[n - 1], tokens[n])
    BY <1>1, <1>9
  <1>11. read \in [0..L -> ReadState]
    <2> DEFINE T == {n \in 0..L : read[n] \in ReadState}
    <2>1. 0 \in T
      BY <1>1, <1>10
    <2>2. ASSUME NEW n \in 1..L, n - 1 \in T PROVE n \in T
      BY <1>1, <1>2, <1>10, <2>2
    <2> HIDE DEF T
    <2>3. 0..L \subseteq T
      BY <1>1, <2>1, <2>2, LoopInduction
    <2>4. \A n \in 0..L : read[n] \in ReadState
      BY <2>3 DEF T
    <2> QED BY <1>9, <2>4
  <1> QED BY <1>5, <1>10, <1>11 DEF Reads, L, first

(* Reading token by token. *)
LEMMA ReadingStarts ==
    ASSUME NEW command
    PROVE  Reading(command, <<>>) = NothingRead
  <1> DEFINE none == <<>>
  <1>1. none \in Seq(Token) /\ Len(none) = 0
    OBVIOUS
  <1> HIDE DEF none
  <1>2. PICK read \in Reads(command, none) : Reading(command, none) = read[Len(none)]
    BY <1>1, ReadWalk
  <1> QED BY <1>1, <1>2 DEF Reads, none

LEMMA ReadingType ==
    ASSUME NEW command, NEW tokens \in Seq(Token)
    PROVE  Reading(command, tokens) \in ReadState
  <1>1. PICK read \in Reads(command, tokens) : Reading(command, tokens) = read[Len(tokens)]
    BY ReadWalk
  <1>2. Len(tokens) \in 0..Len(tokens)
    OBVIOUS
  <1> QED BY <1>1, <1>2 DEF Reads

LEMMA ReadingGoesOn ==
    ASSUME NEW command, NEW tokens \in Seq(Token), NEW t \in Token
    PROVE  Reading(command, Append(tokens, t)) = ParseOne(command, Reading(command, tokens), t)
  <1> DEFINE L == Len(tokens)
             full == Append(tokens, t)
  <1>1. PICK read \in Reads(command, tokens) : Reading(command, tokens) = read[L]
    BY ReadWalk
  <1>2. /\ full \in Seq(Token) /\ Len(full) = L + 1 /\ full[L + 1] = t
        /\ \A i \in 1..L : full[i] = tokens[i]
    OBVIOUS
  <1>3. L \in Nat
    OBVIOUS
  <1> HIDE DEF full
  <1>4. PICK whole \in Reads(command, full) : Reading(command, full) = whole[Len(full)]
    BY <1>2, ReadWalk
  <1>5. /\ read[0] = NothingRead
        /\ \A n \in 1..L : read[n] = ParseOne(command, read[n - 1], tokens[n])
    BY <1>1 DEF Reads
  <1>6. /\ whole[0] = NothingRead
        /\ \A n \in 1..(L + 1) : whole[n] = ParseOne(command, whole[n - 1], full[n])
    BY <1>2, <1>4 DEF Reads
  <1> HIDE DEF L
  <1> DEFINE T == {n \in 0..L : whole[n] = read[n]}
  <1>7. 0 \in T
    BY <1>3, <1>5, <1>6
  <1>8. ASSUME NEW n \in 1..L, n - 1 \in T PROVE n \in T
    <2>1. n \in 1..(L + 1) /\ n \in 0..L
      BY <1>3
    <2> QED BY <1>2, <1>5, <1>6, <1>8, <2>1
  <1> HIDE DEF T
  <1>9. 0..L \subseteq T
    BY <1>3, <1>7, <1>8, LoopInduction
  <1>10. whole[L] = read[L]
    <2>1. L \in T
      BY <1>3, <1>9
    <2> QED BY <2>1 DEF T
  <1>11. L + 1 \in 1..(L + 1) /\ (L + 1) - 1 = L
    BY <1>3
  <1>12. whole[L + 1] = ParseOne(command, whole[L], t)
    BY <1>2, <1>6, <1>11
  <1> QED BY <1>1, <1>2, <1>4, <1>10, <1>12 DEF full

Word == {t \in Token : t.kind = "word"}
Texts(words) == [k \in DOMAIN words |-> words[k].text]

LEMMA NextOne ==
    ASSUME NEW N, NEW s \in Seq(N), NEW j \in 1..Len(s)
    PROVE  SubSeq(s, 1, j) = Append(SubSeq(s, 1, j - 1), s[j])
  OBVIOUS

LEMMA Whole ==
    ASSUME NEW N, NEW s \in Seq(N)
    PROVE  SubSeq(s, 1, Len(s)) = s /\ SubSeq(s, 1, 0) = <<>>
  OBVIOUS

LEMMA TextsType ==
    ASSUME NEW words \in Seq(Word)
    PROVE  /\ words \in Seq(Token) /\ Texts(words) \in Seq(Value) /\ Len(Texts(words)) = Len(words)
           /\ \A k \in 1..Len(words) : Texts(words)[k] = words[k].text /\ words[k].kind = "word"
                                       /\ words[k] \in Token
  <1>1. words \in Seq(Token)
    BY DEF Word
  <1>2. \A k \in 1..Len(words) : words[k] \in Word
    OBVIOUS
  <1>3. \A k \in 1..Len(words) : words[k].text \in Value /\ words[k].kind = "word" /\ words[k] \in Token
    BY <1>2, TokenFields DEF Word
  <1>4. Len(words) \in Nat /\ DOMAIN words = 1..Len(words)
    OBVIOUS
  <1>5. Texts(words) = [k \in 1..Len(words) |-> words[k].text]
    BY <1>4 DEF Texts
  <1> QED BY <1>1, <1>3, <1>4, <1>5

(* A word after the flags is an argument, and so is what follows it. *)
LEMMA WordRead ==
    ASSUME NEW command, NEW acc \in ReadState, NEW t \in Word,
           acc.mode = "args" \/ (acc.mode = "flags" /\ acc.args = <<>>)
    PROVE  /\ ParseOne(command, acc, t).mode = "args"
           /\ ParseOne(command, acc, t).given = acc.given
           /\ ParseOne(command, acc, t).args = Append(acc.args, t.text)
  <1>1. /\ acc = [mode |-> acc.mode, flag |-> acc.flag, given |-> acc.given, args |-> acc.args]
        /\ t.kind = "word"
    BY DEF ReadState, Word
  <1> DEFINE next == ParseOne(command, acc, t)
  <1>2. CASE acc.mode = "args"
    <2>1. next = [acc EXCEPT !.args = Append(acc.args, t.text)]
      BY <1>2 DEF ParseOne
    <2> QED BY <1>1, <1>2, <2>1
  <1>3. CASE acc.mode = "flags" /\ acc.args = <<>>
    <2>1. next = [acc EXCEPT !.mode = "args", !.args = <<t.text>>]
      BY <1>1, <1>3 DEF ParseOne
    <2>2. Append(acc.args, t.text) = <<t.text>>
      BY <1>3
    <2> HIDE DEF next
    <2>3. next.mode = "args" /\ next.given = acc.given /\ next.args = <<t.text>>
      BY <1>1, <2>1
    <2> QED BY <2>2, <2>3 DEF next
  <1> QED BY <1>2, <1>3

LEMMA WordsRead ==
    ASSUME NEW command, NEW before \in Seq(Token), NEW words \in Seq(Word),
           Reading(command, before).mode = "flags", Reading(command, before).args = <<>>
    PROVE  /\ Reading(command, before \o words).mode \in {"flags", "args"}
           /\ Reading(command, before \o words).given = Reading(command, before).given
           /\ Reading(command, before \o words).args = Texts(words)
  <1> DEFINE M == Len(words)
             given == Reading(command, before).given
             texts == Texts(words)
             Upto(j) == Reading(command, before \o SubSeq(words, 1, j))
             Goes(r, j) == /\ r.mode = "args" \/ (r.mode = "flags" /\ r.args = <<>>)
                           /\ r.given = given
                           /\ r.args = SubSeq(texts, 1, j)
             U == {j \in 0..M : Goes(Upto(j), j)}
  <1>1. /\ words \in Seq(Token) /\ M \in Nat /\ texts \in Seq(Value) /\ Len(texts) = M
        /\ \A k \in 1..M : texts[k] = words[k].text /\ words[k] \in Word
    BY TextsType
  <1>2. \A j \in 0..M : SubSeq(words, 1, j) \in Seq(Token) /\ before \o SubSeq(words, 1, j) \in Seq(Token)
    <2> TAKE j \in 0..M
    <2>1. SubSeq(words, 1, j) \in Seq(Token)
      BY <1>1, SubSeqType
    <2> QED BY <2>1, ConcatType
  <1> HIDE DEF texts
  <1>3. 0 \in U
    <2>1. SubSeq(words, 1, 0) = <<>> /\ SubSeq(texts, 1, 0) = <<>>
      BY <1>1, Whole
    <2>2. before \o <<>> = before
      BY ConcatFacts
    <2>3. Upto(0) = Reading(command, before)
      BY <2>1, <2>2
    <2>4. Goes(Reading(command, before), 0)
      BY <2>1
    <2>5. 0 \in 0..M
      BY <1>1
    <2> HIDE DEF Upto, Goes
    <2> QED BY <2>3, <2>4, <2>5
  <1>4. ASSUME NEW j \in 1..M, j - 1 \in U PROVE j \in U
    <2>1. j - 1 \in 0..M /\ j \in 0..M
      BY <1>1
    <2>2. before \o SubSeq(words, 1, j) = Append(before \o SubSeq(words, 1, j - 1), words[j])
      BY <1>1, NextPrefix
    <2>3. SubSeq(texts, 1, j) = Append(SubSeq(texts, 1, j - 1), texts[j])
      BY <1>1, NextOne
    <2>4. words[j] \in Word /\ words[j] \in Token /\ texts[j] = words[j].text
      BY <1>1 DEF Word
    <2>5. Upto(j) = ParseOne(command, Upto(j - 1), words[j])
      <3>1. before \o SubSeq(words, 1, j - 1) \in Seq(Token)
        BY <1>2, <2>1
      <3> QED BY <2>2, <2>4, <3>1, ReadingGoesOn
    <2>6. Upto(j - 1) \in ReadState
      BY <1>2, <2>1, ReadingType
    <2>7. Goes(Upto(j - 1), j - 1)
      BY <1>4
    <2> DEFINE acc == Upto(j - 1)
               next == ParseOne(command, acc, words[j])
    <2> HIDE DEF Upto, acc
    <2>8. acc \in ReadState /\ Goes(acc, j - 1)
      BY <2>6, <2>7 DEF acc
    <2>9. next.mode = "args" /\ next.given = acc.given /\ next.args = Append(acc.args, words[j].text)
      BY <2>4, <2>8, WordRead
    <2> HIDE DEF next
    <2>10. Goes(next, j)
      BY <2>3, <2>4, <2>8, <2>9
    <2>11. Upto(j) = next
      BY <2>5 DEF acc, next
    <2> HIDE DEF Goes
    <2> QED BY <2>1, <2>10, <2>11
  <1> HIDE DEF U
  <1>5. 0..M \subseteq U
    BY <1>1, <1>3, <1>4, LoopInduction
  <1>6. Goes(Upto(M), M)
    <2>1. M \in U
      BY <1>1, <1>5
    <2> QED BY <2>1 DEF U
  <1>7. Upto(M) = Reading(command, before \o words)
    BY <1>1, Whole
  <1>8. SubSeq(texts, 1, M) = texts
    BY <1>1, Whole
  <1> HIDE DEF Upto
  <1> QED BY <1>6, <1>7, <1>8 DEF texts

-----------------------------------------------------------------------------
(* A complete command line, token by token.  Before token n + 1 either its  *)
(* value is waited for or it starts something new.                       *)

Said(args) == [i \in DOMAIN args |-> IF args[i].kind = "flag" THEN "true" ELSE args[i].text]
Serving(args, flag) == {i \in DOMAIN args : Serves(args, i) = flag}
Arguments(args) == {i \in DOMAIN args : ~IsValue(args, i) /\ args[i].kind = "word"}

Pending(args, n) == n > 0 /\ TakesNext(args[n])

Tracks(args, sorted, read, n) ==
    /\ sorted.mode = (IF Pending(args, n) THEN "value" ELSE "plain")
    /\ sorted.words \in Seq(Word)
    /\ read.mode = (IF Pending(args, n) THEN "value" ELSE "flags")
    /\ Pending(args, n) => read.flag = args[n].name
    /\ read.args = <<>>

LEMMA NamesAreTexts ==
    /\ "" \notin Option /\ BoolFlag \subseteq Option
    /\ Option \subseteq Option \cup {""}
  BY DEF Option, ScanFlag, CheckFlag, BoolFlag, NumberFlag, ListFlag

LEMMA SaidType ==
    ASSUME NEW args \in Seq(Token)
    PROVE  /\ Said(args) \in Seq(Value) /\ DOMAIN Said(args) = DOMAIN args /\ Len(Said(args)) = Len(args)
           /\ DOMAIN args = 1..Len(args)
           /\ \A i \in 1..Len(args) : Said(args)[i] = IF args[i].kind = "flag" THEN "true" ELSE args[i].text
  <1>1. Len(args) \in Nat /\ DOMAIN args = 1..Len(args) /\ \A i \in 1..Len(args) : args[i] \in Token
    OBVIOUS
  <1>2. \A i \in 1..Len(args) : args[i].text \in Value /\ "true" \in Value
    BY <1>1, TokenFields, ValueAssumption DEF Boolean
  <1>3. Said(args) = [i \in 1..Len(args) |-> IF args[i].kind = "flag" THEN "true" ELSE args[i].text]
    BY <1>1 DEF Said
  <1>4. Said(args) \in [1..Len(args) -> Value]
    BY <1>2, <1>3
  <1> QED BY <1>1, <1>3, <1>4

(* What a complete command line says can be read. *)
LEMMA ServedParses ==
    ASSUME NEW command, NEW args \in Seq(Token), Complete(command, args), NEW i \in 1..Len(args),
           Serves(args, i) \in Defined(command)
    PROVE  Parses(Serves(args, i), Said(args)[i])
  <1> DEFINE flag == Serves(args, i)
             said == Said(args)
             K == Serving(args, flag)
             chosen == Select(said, K)
             given == ReadInPlace(args).given
  <1>1. flag \in Defined(command) /\ flag \in Option
    BY DefinedOptions
  <1>2. i \in K /\ K \in SUBSET DOMAIN args
    BY SaidType DEF Serving
  <1>3. given[flag] = chosen
    BY <1>1 DEF ReadInPlace, Said, Serving
  <1>4. \A k \in DOMAIN given[flag] : Parses(flag, given[flag][k])
    BY <1>1 DEF Complete
  <1>5. said \in Seq(Value) /\ K \in SUBSET DOMAIN said
    BY <1>2, SaidType
  <1> HIDE DEF flag, said, K, given
  <1>6. chosen \in Seq(Value) /\ ToSet(chosen) = {said[k] : k \in K}
    BY <1>5, SelectFacts
  <1> HIDE DEF chosen
  <1>7. said[i] \in ToSet(chosen)
    BY <1>2, <1>6
  <1>8. PICK k \in DOMAIN chosen : chosen[k] = said[i]
    BY <1>6, <1>7 DEF ToSet
  <1>9. Parses(flag, said[i])
    BY <1>3, <1>4, <1>8
  <1> QED BY <1>9 DEF flag, said

(* Placing a token. *)
LEMMA PlaceValue ==
    ASSUME NEW command, NEW acc \in SortState, NEW t, acc.mode = "value"
    PROVE  /\ Place(command, acc, t).mode = "plain"
           /\ Place(command, acc, t).flags = Append(acc.flags, t)
           /\ Place(command, acc, t).words = acc.words
  <1> DEFINE next == Place(command, acc, t)
  <1>1. acc = [mode |-> acc.mode, flags |-> acc.flags, words |-> acc.words]
    BY DEF SortState
  <1>2. next = [acc EXCEPT !.mode = "plain", !.flags = Append(acc.flags, t)]
    BY DEF Place
  <1> HIDE DEF next
  <1>3. next.mode = "plain" /\ next.flags = Append(acc.flags, t) /\ next.words = acc.words
    BY <1>1, <1>2
  <1> QED BY <1>3 DEF next

LEMMA PlaceWord ==
    ASSUME NEW command, NEW acc \in SortState, NEW t, acc.mode = "plain", t.kind = "word"
    PROVE  /\ Place(command, acc, t).mode = "plain"
           /\ Place(command, acc, t).flags = acc.flags
           /\ Place(command, acc, t).words = Append(acc.words, t)
  <1> DEFINE next == Place(command, acc, t)
  <1>1. acc = [mode |-> acc.mode, flags |-> acc.flags, words |-> acc.words]
    BY DEF SortState
  <1>2. next = [acc EXCEPT !.words = Append(acc.words, t)]
    BY DEF Place
  <1> HIDE DEF next
  <1>3. next.mode = "plain" /\ next.flags = acc.flags /\ next.words = Append(acc.words, t)
    BY <1>1, <1>2
  <1> QED BY <1>3 DEF next

LEMMA PlaceFlag ==
    ASSUME NEW command, NEW acc \in SortState, NEW t, acc.mode = "plain",
           t.kind \in {"flag", "inline"}, t.name \in Defined(command)
    PROVE  /\ Place(command, acc, t).mode = (IF TakesNext(t) THEN "value" ELSE "plain")
           /\ Place(command, acc, t).flags = Append(acc.flags, t)
           /\ Place(command, acc, t).words = acc.words
  <1> DEFINE next == Place(command, acc, t)
             mode == IF TakesNext(t) THEN "value" ELSE "plain"
  <1>1. acc = [mode |-> acc.mode, flags |-> acc.flags, words |-> acc.words]
    BY DEF SortState
  <1>2. next = [acc EXCEPT !.mode = mode, !.flags = Append(acc.flags, t)]
    BY DEF Place
  <1> HIDE DEF next, mode
  <1>3. next.mode = mode /\ next.flags = Append(acc.flags, t) /\ next.words = acc.words
    BY <1>1, <1>2
  <1> QED BY <1>3 DEF next, mode

(* Reading a flag. *)
Stored(acc, flag, text, next) ==
    /\ next.mode = "flags" /\ next.args = acc.args
    /\ next.given[flag] = Append(acc.given[flag], text)
    /\ \A f \in Option \ {flag} : next.given[f] = acc.given[f]

LEMMA ReadValue ==
    ASSUME NEW command, NEW acc \in ReadState, NEW t \in Token, NEW flag \in Option,
           acc.mode = "value", acc.flag = flag, Parses(flag, t.text)
    PROVE  Stored(acc, flag, t.text, ParseOne(command, acc, t))
  <1>1. ParseOne(command, acc, t) = Store(acc, flag, t.text)
    BY DEF ParseOne
  <1>2. t.text \in Value /\ flag \in Option \cup {""}
    BY TokenFields
  <1> DEFINE next == Store(acc, flag, t.text)
  <1>3. /\ next.mode = "flags" /\ next.args = acc.args
        /\ next.given[flag] = Append(acc.given[flag], t.text)
        /\ \A f \in Option \ {flag} : next.given[f] = acc.given[f]
    BY <1>2, StoreType
  <1> HIDE DEF next
  <1> QED BY <1>1, <1>3 DEF next, Stored

LEMMA ReadFlag ==
    ASSUME NEW command, NEW acc \in ReadState, NEW t \in Token, acc.mode = "flags",
           t.kind \in {"flag", "inline"}, t.name \in Defined(command), TakesNext(t)
    PROVE  /\ ParseOne(command, acc, t).mode = "value"
           /\ ParseOne(command, acc, t).flag = t.name
           /\ ParseOne(command, acc, t).args = acc.args
           /\ ParseOne(command, acc, t).given = acc.given
  <1> DEFINE next == ParseOne(command, acc, t)
  <1>1. acc = [mode |-> acc.mode, flag |-> acc.flag, given |-> acc.given, args |-> acc.args]
    BY DEF ReadState
  <1>2. next = [acc EXCEPT !.mode = "value", !.flag = t.name]
    BY DEF ParseOne
  <1> HIDE DEF next
  <1>3. next.mode = "value" /\ next.flag = t.name /\ next.args = acc.args /\ next.given = acc.given
    BY <1>1, <1>2
  <1> QED BY <1>3 DEF next

LEMMA ReadSet ==
    ASSUME NEW command, NEW acc \in ReadState, NEW t \in Token,
           NEW flag \in Defined(command), NEW text \in Value,
           acc.mode = "flags", t.kind \in {"flag", "inline"}, t.name = flag, ~TakesNext(t),
           text = (IF t.kind = "inline" THEN t.text ELSE "true"), Parses(flag, text)
    PROVE  Stored(acc, flag, text, ParseOne(command, acc, t))
  <1>1. ParseOne(command, acc, t) = Store(acc, flag, text)
    BY DEF ParseOne
  <1>2. flag \in Option /\ flag \in Option \cup {""}
    BY DefinedOptions
  <1> DEFINE next == Store(acc, flag, text)
  <1>3. /\ next.mode = "flags" /\ next.args = acc.args
        /\ next.given[flag] = Append(acc.given[flag], text)
        /\ \A f \in Option \ {flag} : next.given[f] = acc.given[f]
    BY <1>2, StoreType
  <1> HIDE DEF next
  <1> QED BY <1>1, <1>3 DEF next, Stored

(* What each token of a complete command line is. *)
LEMMA TokenRole ==
    ASSUME NEW command, NEW args \in Seq(Token), Complete(command, args), NEW n \in 1..Len(args)
    PROVE  /\ args[n] \in Token /\ args[n].kind \in {"word", "flag", "inline"}
           /\ args[n].kind # "word" => args[n].name \in Defined(command)
           /\ args[n].kind = "word" => args[n].name = "" /\ ~TakesNext(args[n])
           /\ n \in Arguments(args) <=> ~Pending(args, n - 1) /\ args[n].kind = "word"
           /\ Pending(args, n - 1) =>
                /\ args[n].kind = "word" /\ Serves(args, n) = args[n - 1].name
                /\ args[n - 1].name \in Defined(command)
           /\ ~Pending(args, n - 1) =>
                Serves(args, n) = IF TakesNext(args[n]) THEN "" ELSE args[n].name
  <1>1. DOMAIN args = 1..Len(args) /\ Len(args) \in Nat /\ args[n] \in Token
    OBVIOUS
  <1>2. /\ args[n].kind \in {"word", "flag", "inline"}
        /\ args[n].kind # "word" => args[n].name \in Defined(command)
    BY <1>1 DEF Complete
  <1>3. args[n].kind = "word" => args[n].name = "" /\ ~TakesNext(args[n])
    BY <1>1, TokenFields DEF TakesNext
  <1>4. IsValue(args, n) <=> Pending(args, n - 1)
    BY <1>1 DEF IsValue, Pending
  <1>5. n \in Arguments(args) <=> ~Pending(args, n - 1) /\ args[n].kind = "word"
    BY <1>1, <1>4 DEF Arguments
  <1>6. ASSUME Pending(args, n - 1)
        PROVE  /\ args[n].kind = "word" /\ Serves(args, n) = args[n - 1].name
               /\ args[n - 1].name \in Defined(command)
    <2>1. n - 1 \in DOMAIN args /\ TakesNext(args[n - 1]) /\ (n - 1) + 1 = n
      BY <1>1, <1>6 DEF Pending
    <2>2. args[n].kind = "word"
      BY <2>1 DEF Complete
    <2>3. args[n - 1].kind # "word"
      BY <2>1 DEF TakesNext
    <2>4. args[n - 1].name \in Defined(command)
      BY <2>1, <2>3 DEF Complete
    <2> QED BY <1>4, <1>6, <2>2, <2>4 DEF Serves
  <1>7. ASSUME ~Pending(args, n - 1)
        PROVE  Serves(args, n) = IF TakesNext(args[n]) THEN "" ELSE args[n].name
    BY <1>4, <1>7 DEF Serves
  <1> QED BY <1>1, <1>2, <1>3, <1>5, <1>6, <1>7

Advances(args, sorted, read, placed, next, n) ==
    /\ Tracks(args, placed, next, n)
    /\ \A f \in Option : next.given[f] = Extended(read.given[f], Said(args), Serving(args, f), n)
    /\ Texts(placed.words) = Extended(Texts(sorted.words), Said(args), Arguments(args), n)

(* Extending a selection by one token. *)
LEMMA ExtendedBy ==
    ASSUME NEW S, NEW before \in Seq(S), NEW s, NEW K, NEW n, s[n] \in S
    PROVE  /\ n \in K => Extended(before, s, K, n) = Append(before, s[n])
           /\ n \notin K => Extended(before, s, K, n) = before
  <1>1. before \o <<s[n]>> = Append(before, s[n])
    OBVIOUS
  <1>2. before \o <<>> = before
    OBVIOUS
  <1> QED BY <1>1, <1>2 DEF Extended

LEMMA AppendText ==
    ASSUME NEW words \in Seq(Word), NEW t \in Word
    PROVE  Append(words, t) \in Seq(Word) /\ Texts(Append(words, t)) = Append(Texts(words), t.text)
  <1> DEFINE more == Append(words, t)
  <1>1. /\ more \in Seq(Word) /\ DOMAIN more = 1..(Len(words) + 1) /\ DOMAIN words = 1..Len(words)
        /\ more[Len(words) + 1] = t /\ \A k \in 1..Len(words) : more[k] = words[k]
        /\ Len(words) \in Nat
    OBVIOUS
  <1> HIDE DEF more
  <1>2. Texts(more) = [k \in 1..(Len(words) + 1) |-> more[k].text]
    BY <1>1 DEF Texts
  <1>3. /\ Texts(words) \in Seq(Value) /\ Len(Texts(words)) = Len(words)
        /\ \A k \in 1..Len(words) : Texts(words)[k] = words[k].text
    BY TextsType
  <1> DEFINE texts == Texts(words)
  <1> HIDE DEF texts
  <1>4. \A k \in 1..(Len(words) + 1) : Append(texts, t.text)[k] = more[k].text
    BY <1>1, <1>3 DEF texts
  <1>5. Append(texts, t.text) = [k \in 1..(Len(words) + 1) |-> more[k].text]
    BY <1>3, <1>4 DEF texts
  <1> QED BY <1>1, <1>2, <1>5 DEF more, texts

LEMMA TokenMoves ==
    ASSUME NEW command, NEW args \in Seq(Token), Complete(command, args), NEW n \in 1..Len(args),
           NEW sorted \in SortState, Tracks(args, sorted, Reading(command, sorted.flags), n - 1)
    PROVE  Advances(args, sorted, Reading(command, sorted.flags), Place(command, sorted, args[n]),
                 Reading(command, Place(command, sorted, args[n]).flags), n)
  <1> DEFINE t == args[n]
             said == Said(args)
             read == Reading(command, sorted.flags)
             placed == Place(command, sorted, t)
             next == Reading(command, placed.flags)
             K(f) == Serving(args, f)
             W == Arguments(args)
             P == Pending(args, n - 1)
             Q == Pending(args, n)
             serves == Serves(args, n)
  <1>1. /\ sorted.flags \in Seq(Token) /\ sorted.words \in Seq(Word)
        /\ sorted.mode = (IF P THEN "value" ELSE "plain")
        /\ read.mode = (IF P THEN "value" ELSE "flags")
        /\ P => read.flag = args[n - 1].name
        /\ read.args = <<>>
    BY DEF SortState, Tracks
  <1>2. /\ read \in ReadState /\ read.given \in [Option -> Seq(Value)]
    <2>1. read \in ReadState
      BY <1>1, ReadingType
    <2> QED BY <2>1 DEF ReadState
  <1>3. /\ t \in Token /\ t.kind \in {"word", "flag", "inline"}
        /\ t.kind # "word" => t.name \in Defined(command) /\ t.name \in Option
        /\ t.kind = "word" => t.name = "" /\ ~TakesNext(t)
        /\ n \in W <=> ~P /\ t.kind = "word"
        /\ P => /\ t.kind = "word" /\ serves = args[n - 1].name /\ args[n - 1].name \in Defined(command)
                /\ args[n - 1].name \in Option
        /\ ~P => serves = IF TakesNext(t) THEN "" ELSE t.name
        /\ Q <=> TakesNext(t)
    <2>1. Q <=> TakesNext(t)
      BY DEF Pending
    <2> QED BY <2>1, TokenRole, DefinedOptions
  <1>4. /\ said[n] \in Value /\ said[n] = (IF t.kind = "flag" THEN "true" ELSE t.text)
        /\ serves \in Defined(command) => Parses(serves, said[n])
    <2>1. said \in Seq(Value) /\ Len(said) = Len(args)
      BY SaidType
    <2>2. n \in 1..Len(said)
      BY <2>1
    <2>3. said[n] \in Value
      BY <2>1, <2>2
    <2> QED BY <2>3, SaidType, ServedParses
  <1>5. \A f \in Option : n \in K(f) <=> serves = f
    BY SaidType DEF Serving
  <1>6. \A f \in Option : /\ serves = f => Extended(read.given[f], said, K(f), n) = Append(read.given[f], said[n])
                          /\ serves # f => Extended(read.given[f], said, K(f), n) = read.given[f]
    <2> TAKE f \in Option
    <2>1. read.given[f] \in Seq(Value)
      BY <1>2
    <2> DEFINE before == read.given[f]
               kept == K(f)
    <2>2. n \in kept <=> serves = f
      BY <1>5
    <2> HIDE DEF before, kept, said, serves
    <2>3. before \in Seq(Value)
      BY <2>1 DEF before
    <2>4. /\ n \in kept => Extended(before, said, kept, n) = Append(before, said[n])
          /\ n \notin kept => Extended(before, said, kept, n) = before
      BY <1>4, <2>3, ExtendedBy
    <2> QED BY <2>2, <2>4 DEF before, kept
  <1>7. /\ n \in W => Extended(Texts(sorted.words), said, W, n) = Append(Texts(sorted.words), said[n])
        /\ n \notin W => Extended(Texts(sorted.words), said, W, n) = Texts(sorted.words)
    BY <1>1, <1>4, TextsType, ExtendedBy
  <1> DEFINE given(f) == Extended(read.given[f], said, K(f), n)
             texts == Extended(Texts(sorted.words), said, W, n)
  <1>8. SUFFICES /\ placed.mode = (IF Q THEN "value" ELSE "plain")
                 /\ placed.words \in Seq(Word)
                 /\ next.mode = (IF Q THEN "value" ELSE "flags")
                 /\ Q => next.flag = t.name
                 /\ next.args = <<>>
                 /\ \A f \in Option : next.given[f] = given(f)
                 /\ Texts(placed.words) = texts
    BY DEF Advances, Tracks
  <1>9. placed.flags = Append(sorted.flags, t) => next = ParseOne(command, read, t)
    BY <1>1, <1>3, ReadingGoesOn
  <1>10. "" \notin Option
    BY NamesAreTexts
  <1> HIDE DEF t, said, read, placed, next, K, W, P, Q, serves, given, texts
  <1>11. \A f \in Option : /\ serves = f => given(f) = Append(read.given[f], said[n])
                           /\ serves # f => given(f) = read.given[f]
    BY <1>6 DEF given
  <1>12. /\ n \in W => texts = Append(Texts(sorted.words), said[n])
         /\ n \notin W => texts = Texts(sorted.words)
    BY <1>7 DEF texts
  <1> DEFINE parsed == ParseOne(command, read, t)
  <1>13. CASE P
    <2>1. placed.mode = "plain" /\ placed.flags = Append(sorted.flags, t) /\ placed.words = sorted.words
      <3>1. sorted.mode = "value"
        BY <1>1, <1>13
      <3> QED BY <3>1, PlaceValue DEF placed
    <2>2. read.mode = "value" /\ read.flag = serves /\ serves \in Option /\ said[n] = t.text
          /\ Parses(read.flag, t.text)
      BY <1>1, <1>3, <1>4, <1>13
    <2>3. /\ parsed.mode = "flags" /\ parsed.args = read.args
          /\ parsed.given[serves] = Append(read.given[serves], t.text)
          /\ \A f \in Option \ {serves} : parsed.given[f] = read.given[f]
      <3>1. Stored(read, serves, t.text, ParseOne(command, read, t))
        BY <1>2, <1>3, <2>2, ReadValue
      <3> QED BY <3>1 DEF Stored
    <2> HIDE DEF parsed
    <2>4. next = parsed
      BY <1>9, <2>1 DEF parsed
    <2>5. \A f \in Option : next.given[f] = given(f)
      BY <1>11, <2>2, <2>3, <2>4
    <2>6. ~Q /\ n \notin W
      BY <1>3, <1>13
    <2> QED BY <1>1, <1>12, <2>1, <2>3, <2>4, <2>5, <2>6
  <1>14. CASE ~P /\ t.kind = "word"
    <2>1. placed.mode = "plain" /\ placed.flags = sorted.flags /\ placed.words = Append(sorted.words, t)
      <3>1. sorted.mode = "plain"
        BY <1>1, <1>14
      <3> QED BY <1>14, <3>1, PlaceWord DEF placed
    <2>2. next = read
      BY <2>1 DEF next, read
    <2>3. t \in Word /\ ~Q /\ n \in W /\ serves = "" /\ said[n] = t.text
      BY <1>3, <1>4, <1>14 DEF Word
    <2>4. placed.words \in Seq(Word) /\ Texts(placed.words) = Append(Texts(sorted.words), t.text)
      BY <1>1, <2>1, <2>3, AppendText
    <2>5. \A f \in Option : next.given[f] = given(f)
      BY <1>10, <1>11, <2>2, <2>3
    <2> QED BY <1>1, <1>12, <1>14, <2>1, <2>2, <2>3, <2>4, <2>5
  <1>15. CASE ~P /\ t.kind # "word"
    <2>1. t.kind \in {"flag", "inline"} /\ t.name \in Defined(command) /\ t.name \in Option
      BY <1>3, <1>15
    <2>2. /\ placed.mode = (IF TakesNext(t) THEN "value" ELSE "plain")
          /\ placed.flags = Append(sorted.flags, t) /\ placed.words = sorted.words
      <3>1. sorted.mode = "plain"
        BY <1>1, <1>15
      <3> QED BY <2>1, <3>1, PlaceFlag DEF placed
    <2>3. next = parsed
      BY <1>9, <2>2
    <2>4. read.mode = "flags" /\ n \notin W
      BY <1>1, <1>3, <1>15
    <2>5. CASE TakesNext(t)
      <3>1. /\ parsed.mode = "value" /\ parsed.flag = t.name /\ parsed.args = read.args
            /\ parsed.given = read.given
        BY <1>2, <1>3, <2>1, <2>4, <2>5, ReadFlag
      <3>2. serves = "" /\ Q
        BY <1>3, <1>15, <2>5
      <3> HIDE DEF parsed
      <3>3. \A f \in Option : next.given[f] = given(f)
        BY <1>10, <1>11, <2>3, <3>1, <3>2
      <3> QED BY <1>1, <1>12, <2>2, <2>3, <2>4, <2>5, <3>1, <3>2, <3>3
    <2>6. CASE ~TakesNext(t)
      <3>1. serves = t.name /\ ~Q
        BY <1>3, <1>15, <2>6
      <3>2. said[n] = (IF t.kind = "inline" THEN t.text ELSE "true") /\ Parses(t.name, said[n])
            /\ said[n] \in Value
        BY <1>4, <2>1, <3>1
      <3>3. /\ parsed.mode = "flags" /\ parsed.args = read.args
            /\ parsed.given[t.name] = Append(read.given[t.name], said[n])
            /\ \A f \in Option \ {t.name} : parsed.given[f] = read.given[f]
        <4> DEFINE text == said[n]
        <4> HIDE DEF text
        <4>1. text = (IF t.kind = "inline" THEN t.text ELSE "true") /\ Parses(t.name, text) /\ text \in Value
          BY <3>2 DEF text
        <4> DEFINE flag == t.name
        <4> HIDE DEF flag
        <4>2. flag \in Defined(command) /\ t.name = flag /\ Parses(flag, text)
          BY <2>1, <4>1 DEF flag
        <4>3. Stored(read, flag, text, ParseOne(command, read, t))
          BY <1>2, <1>3, <2>1, <2>4, <2>6, <4>1, <4>2, ReadSet
        <4> QED BY <4>3 DEF flag, text, Stored
      <3> HIDE DEF parsed
      <3>4. \A f \in Option : next.given[f] = given(f)
        BY <1>11, <2>1, <2>3, <3>1, <3>3
      <3> QED BY <1>1, <1>12, <2>2, <2>3, <2>4, <2>6, <3>1, <3>3, <3>4
    <2> QED BY <2>5, <2>6
  <1> QED BY <1>13, <1>14, <1>15

LEMMA SelectionIs ==
    ASSUME NEW S, NEW s \in Seq(S), NEW K, NEW g, g[0] = <<>>,
           \A n \in 1..Len(s) : g[n] = Extended(g[n - 1], s, K, n)
    PROVE  g[Len(s)] = Select(s, K)
  <1> DEFINE L == Len(s)
  <1>1. L \in Nat
    OBVIOUS
  <1>2. PICK kept \in Selections(S, s, K) : Select(s, K) = kept[L]
    BY SelectWalk
  <1>3. kept[0] = <<>> /\ \A n \in 1..L : kept[n] = Extended(kept[n - 1], s, K, n)
    BY <1>2 DEF Selections
  <1> HIDE DEF L
  <1> DEFINE T == {n \in 0..L : g[n] = kept[n]}
  <1>4. 0 \in T
    BY <1>1, <1>3
  <1>5. ASSUME NEW n \in 1..L, n - 1 \in T PROVE n \in T
    <2>1. n \in 0..L
      BY <1>1
    <2>2. g[n] = Extended(g[n - 1], s, K, n)
      BY DEF L
    <2> QED BY <1>3, <1>5, <2>1, <2>2
  <1> HIDE DEF T
  <1>6. L \in T
    <2>1. 0..L \subseteq T
      BY <1>1, <1>4, <1>5, LoopInduction
    <2> QED BY <1>1, <2>1
  <1>7. g[L] = kept[L]
    BY <1>6 DEF T
  <1> QED BY <1>2, <1>7 DEF L

(* However flags and words are mixed, a complete command line is taken the *)
(* way a reader takes it.                                                *)
LEMMA TakenInPlace ==
    ASSUME NEW command, NEW args \in Seq(Token), Complete(command, args)
    PROVE  ParseFlags(command, args) = ReadInPlace(args)
  <1> DEFINE N == Len(args)
             said == Said(args)
             W == Arguments(args)
             K(f) == Serving(args, f)
  <1>1. N \in Nat /\ said \in Seq(Value) /\ Len(said) = N
    BY SaidType
  <1>2. PICK sorted \in Sorts(command, args) : Sorted(command, args) = sorted[N]
    BY SortWalk
  <1> DEFINE R(n) == Reading(command, sorted[n].flags)
             T == {n \in 0..N : Tracks(args, sorted[n], R(n), n)}
             Turn(n) == Advances(args, sorted[n - 1], R(n - 1), sorted[n], R(n), n)
  <1>3. /\ sorted \in [0..N -> SortState] /\ sorted[0] = NothingSorted
        /\ \A n \in 1..N : sorted[n] = Place(command, sorted[n - 1], args[n])
    BY <1>2 DEF Sorts
  <1>4. /\ sorted[0].mode = "plain" /\ sorted[0].flags = <<>> /\ sorted[0].words = <<>>
        /\ R(0) = NothingRead
    BY <1>3, ReadingStarts DEF NothingSorted
  <1>5. 0 \in T
    <2>1. NothingRead.mode = "flags" /\ NothingRead.args = <<>>
      BY DEF NothingRead
    <2>2. ~Pending(args, 0) /\ <<>> \in Seq(Word)
      BY DEF Pending
    <2> HIDE DEF R
    <2>3. Tracks(args, sorted[0], R(0), 0)
      BY <1>4, <2>1, <2>2 DEF Tracks
    <2> QED BY <1>1, <2>3
  <1>6. ASSUME NEW n \in 1..N, n - 1 \in T PROVE n \in T /\ Turn(n)
    <2>1. n - 1 \in 0..N /\ n \in 0..N
      BY <1>1
    <2> DEFINE before == sorted[n - 1]
    <2>2. before \in SortState /\ Tracks(args, before, Reading(command, before.flags), n - 1)
          /\ sorted[n] = Place(command, before, args[n])
      BY <1>3, <1>6, <2>1
    <2> HIDE DEF before, N, T
    <2>3. n \in 1..Len(args)
      BY DEF N
    <2>4. Advances(args, before, Reading(command, before.flags), Place(command, before, args[n]),
                Reading(command, Place(command, before, args[n]).flags), n)
      BY <2>2, <2>3, TokenMoves
    <2>5. Turn(n)
      BY <2>2, <2>4 DEF before
    <2>6. Tracks(args, sorted[n], R(n), n)
      BY <2>5 DEF Advances
    <2> QED BY <2>1, <2>5, <2>6 DEF T
  <1> HIDE DEF T, Turn, said, N
  <1>7. 0..N \subseteq T
    BY <1>1, <1>5, <1>6, LoopInduction
  <1>8. \A n \in 1..N : Turn(n)
    <2> TAKE n \in 1..N
    <2>1. n - 1 \in T
      BY <1>1, <1>7
    <2> QED BY <1>6, <2>1
  <1> DEFINE end == sorted[N]
             flags == end.flags
             words == end.words
             read == R(N)
             last == Reading(command, flags \o words)
  <1>9. end.mode = "plain" /\ words \in Seq(Word) /\ read.mode = "flags" /\ read.args = <<>>
    <2>1. Tracks(args, sorted[N], R(N), N)
      BY <1>1, <1>7 DEF T
    <2>2. ~Pending(args, N)
      BY <1>1 DEF Complete, Pending, N
    <2> HIDE DEF R
    <2> QED BY <2>1, <2>2 DEF Tracks
  <1>10. flags \in Seq(Token) /\ read = Reading(command, flags)
    BY <1>1, <1>3 DEF SortState
  <1>11. read \in ReadState
    BY <1>10, ReadingType
  <1>12. \A f \in Option : read.given[f] = Select(said, K(f))
    <2> TAKE f \in Option
    <2> DEFINE g == [n \in 0..N |-> R(n).given[f]]
               k == K(f)
    <2>1. g[0] = <<>>
      <3>1. NothingRead.given[f] = <<>>
        BY DEF NothingRead, NothingGiven
      <3> HIDE DEF R
      <3>2. R(0).given[f] = <<>> /\ 0 \in 0..N
        BY <1>1, <1>4, <3>1
      <3> QED BY <3>2
    <2>2. \A n \in 1..N : g[n] = Extended(g[n - 1], said, k, n)
      <3> TAKE n \in 1..N
      <3>1. n \in 0..N /\ n - 1 \in 0..N
        BY <1>1
      <3> HIDE DEF R
      <3>2. R(n).given[f] = Extended(R(n - 1).given[f], said, k, n)
        BY <1>8 DEF Turn, Advances, said
      <3> QED BY <3>1, <3>2
    <2>3. g[N] = read.given[f]
      BY <1>1
    <2> HIDE DEF g, k, read
    <2>4. g[Len(said)] = Select(said, k)
      BY <1>1, <2>1, <2>2, SelectionIs
    <2> QED BY <1>1, <2>3, <2>4 DEF k
  <1>13. Texts(words) = Select(said, W)
    <2> DEFINE g == [n \in 0..N |-> Texts(sorted[n].words)]
    <2>1. g[0] = <<>>
      <3>1. Texts(<<>>) = <<>>
        BY DEF Texts
      <3> QED BY <1>1, <1>4, <3>1
    <2>2. \A n \in 1..N : g[n] = Extended(g[n - 1], said, W, n)
      <3> TAKE n \in 1..N
      <3>1. n \in 0..N /\ n - 1 \in 0..N
        BY <1>1
      <3> HIDE DEF R, W
      <3>2. Texts(sorted[n].words) = Extended(Texts(sorted[n - 1].words), said, W, n)
        BY <1>8 DEF Turn, Advances, said, W
      <3> QED BY <3>1, <3>2
    <2>3. g[N] = Texts(words)
      BY <1>1
    <2> HIDE DEF g, W, words
    <2>4. g[Len(said)] = Select(said, W)
      BY <1>1, <2>1, <2>2, SelectionIs
    <2> QED BY <1>1, <2>3, <2>4
  <1> HIDE DEF words, flags, read, end
  <1>14. last.mode \in {"flags", "args"} /\ last.given = read.given /\ last.args = Texts(words)
    <2>1. Reading(command, flags).mode = "flags" /\ Reading(command, flags).args = <<>>
      BY <1>9, <1>10
    <2> QED BY <1>9, <1>10, <2>1, WordsRead
  <1>15. ParseFlags(command, args) = Parse(command, flags \o words)
    <2>1. Sorted(command, args) = end
      BY <1>2 DEF end
    <2> QED BY <1>9, <2>1 DEF ParseFlags, flags, words
  <1> HIDE DEF last
  <1>16. Parse(command, flags \o words) = [outcome |-> "ok", given |-> read.given, args |-> Texts(words)]
    BY <1>14 DEF Parse, last
  <1>17. read.given = [flag \in Option |-> Select(said, K(flag))]
    <2>1. read.given \in [Option -> Seq(Value)]
      BY <1>11 DEF ReadState
    <2> HIDE DEF K
    <2> QED BY <1>12, <2>1
  <1>18. ReadInPlace(args) = [outcome |-> "ok", given |-> [flag \in Option |-> Select(said, K(flag))],
                              args |-> Select(said, W)]
    BY DEF ReadInPlace, said, Said, Serving, Arguments
  <1> QED BY <1>13, <1>15, <1>16, <1>17, <1>18

-----------------------------------------------------------------------------
(* What the policy is asked to be *)

Asked(given, configured, option, value) ==
    \/ given[option] # <<>> /\ Last(given[option]) = value
    \/ given[option] = <<>> /\ configured[option] # <<>> /\ Last(configured[option]) = value
    \/ given[option] = <<>> /\ configured[option] = <<>> /\ Default(option) = <<value>>

PolicyOption == {"fail-on", "fail-on-dead", "fail-on-non-200", "fail-on-truncated"}

LEMMA DefaultPolicy ==
    ASSUME NEW option \in PolicyOption, NEW value
    PROVE  Last(Default(option)) = value <=> Default(option) = <<value>>
  <1>1. Default(option) = <<"all">> \/ Default(option) = <<"false">>
    <2>1. CASE option = "fail-on"
      <3>1. option # "out" /\ option # "summary" /\ option = "fail-on" /\ option \notin BoolFlag
            /\ option \notin NumberFlag /\ option \notin ListFlag
        BY <2>1 DEF BoolFlag, NumberFlag, ListFlag
      <3>2. Default(option) = <<"all">>
        BY <3>1, Zenon DEF Default
      <3> QED BY <3>2
    <2>2. CASE option # "fail-on"
      <3>1. option \in BoolFlag /\ option # "out" /\ option # "summary" /\ option # "fail-on"
            /\ option \notin NumberFlag /\ option \notin ListFlag
        BY <2>2 DEF PolicyOption, BoolFlag, NumberFlag, ListFlag
      <3>2. Default(option) = <<"false">>
        BY <3>1, Zenon DEF Default
      <3> QED BY <3>2
    <2> QED BY <2>1, <2>2
  <1>2. \A x, y : Last(<<x>>) = y <=> <<x>> = <<y>>
    BY DEF Last
  <1> QED BY <1>1, <1>2

LEMMA MergedIsAsked ==
    ASSUME NEW given, NEW configured, NEW option \in PolicyOption, NEW value
    PROVE  Last(Merged(given, configured, option)) = value <=> Asked(given, configured, option, value)
  <1>1. CASE given[option] # <<>>
    BY <1>1 DEF Merged, Asked
  <1>2. CASE given[option] = <<>> /\ configured[option] # <<>>
    BY <1>2 DEF Merged, Asked
  <1>3. CASE given[option] = <<>> /\ configured[option] = <<>>
    BY <1>3, DefaultPolicy DEF Merged, Asked
  <1> QED BY <1>1, <1>2, <1>3

(* The command line decides by the entry it has for an option, the URL is no *)
(* such entry.                                                               *)
LEMMA ChosenIsAsked ==
    ASSUME NEW command \in {"scan", "check"}, NEW args \in Seq(Token), NEW configs,
           Complete(command, args),
           NEW option \in PolicyOption, command = "check" \/ option \in {"fail-on-dead", "fail-on-non-200"},
           NEW value
    PROVE  Last(ParseArgs(command, args, configs).options[option]) = value
             <=> Asked(ReadInPlace(args).given, Configured(ReadInPlace(args).given, configs), option, value)
  <1> DEFINE read == ReadInPlace(args).given
             parsed == ParseFlags(command, args)
             given == [parsed.given EXCEPT !["entry-url"] = parsed.args]
             opts == ParseArgs(command, args, configs).options
  <1>1. parsed.given = read
    BY TakenInPlace
  <1>2. DOMAIN read = Option
    BY DEF ReadInPlace
  <1>3. \A f \in Option : f # "entry-url" => given[f] = read[f]
    <2> HIDE DEF read, parsed
    <2> QED BY <1>1, <1>2
  <1>4. option \in Option /\ "config" \in Option /\ option # "entry-url"
    BY DEF PolicyOption, Option, ScanFlag, CheckFlag
  <1>5. option \in Defined(command)
    BY DEF PolicyOption, Defined, ScanFlag, CheckFlag
  <1>6. opts = [o \in Defined(command) \cup {"entry-url"} |->
                  Merged(given, Configured(given, configs), o)]
    BY DEF ParseArgs
  <1> HIDE DEF opts, given, read
  <1>7. opts[option] = Merged(given, Configured(given, configs), option)
    BY <1>5, <1>6
  <1>8. given["config"] = read["config"] /\ given[option] = read[option]
    BY <1>3, <1>4
  <1>9. Configured(given, configs) = Configured(read, configs)
    BY <1>8 DEF Configured, ConfigPath, NamesConfig
  <1>10. Asked(given, Configured(given, configs), option, value)
           <=> Asked(read, Configured(read, configs), option, value)
    BY <1>8, <1>9 DEF Asked
  <1>11. Last(Merged(given, Configured(given, configs), option)) = value
           <=> Asked(given, Configured(given, configs), option, value)
    BY MergedIsAsked
  <1> QED BY <1>7, <1>10, <1>11 DEF opts, read

-----------------------------------------------------------------------------
(* A verdict is what the policy says. *)
Verdicts == Decided => (exit = "policy" <=> PolicyFailed)

LEMMA VerdictsInductive == ASSUME IInv, Verdicts, [Next]_vars PROVE Verdicts'
  <1>n. None \notin {"ok", "policy", "error", "help", "killed"}
    BY NoneAssumption
  <1>1. ASSUME NEW from, from # "ended", pc = from, exit' = exit PROVE Verdicts'
    BY <1>1, <1>n DEF IInv, Phases, Ended, Verdicts, Decided
  <1>2. ASSUME NEW how \in {"error", "help", "killed"}, exit' = how PROVE Verdicts'
    BY <1>2 DEF Verdicts, Decided
  <1>3. CASE ParseCommand
    <2>1. ParseArgs(setup.command, setup.args, setup.configs).outcome \in {"ok", "error", "help"}
      BY DEF ParseArgs, ParseFlags, Parse
    <2>2. pc = "parse" /\ (exit' = exit \/ exit' \in {"error", "help"})
      BY <1>3, <2>1 DEF ParseCommand, Step, Stop
    <2> QED BY <1>1, <1>2, <2>2
  <1>4. CASE Verdict
    <2>1. exit' = (IF PolicyFailed THEN "policy" ELSE "ok") /\ UNCHANGED <<setup, options, found>>
      BY <1>4 DEF Verdict, Stop
    <2>2. PolicyFailed' <=> PolicyFailed
      BY <2>1 DEF PolicyFailed, Chosen
    <2> QED BY <2>1, <2>2 DEF Verdicts
  <1>5. CASE ValidatePaths
    BY <1>1, <1>2, <1>5 DEF ValidatePaths, Step, Fails, Stop
  <1>6. CASE ReadBaseline
    BY <1>1, <1>2, <1>6 DEF ReadBaseline, Step, Fails, Stop
  <1>7. CASE Crawl
    BY <1>1, <1>2, <1>7 DEF Crawl, Step, Fails, Stop
  <1>8. CASE CreateReport
    BY <1>1, <1>2, <1>8 DEF CreateReport, Step, Fails, Stop
  <1>9. CASE WriteReport
    BY <1>1, <1>2, <1>9 DEF WriteReport, Step, Fails, Stop
  <1>10. CASE CreateComparison
    BY <1>1, <1>2, <1>10 DEF CreateComparison, Step, Fails, Stop
  <1>11. CASE WriteComparison
    BY <1>1, <1>2, <1>11 DEF WriteComparison, Step, Fails, Stop
  <1>12. CASE PrintSummary
    BY <1>1, <1>2, <1>12 DEF PrintSummary, Step, Fails, Stop
  <1>13. CASE AppendSummary
    BY <1>1, <1>2, <1>13 DEF AppendSummary, Step, Fails, Stop
  <1>14. CASE Kill
    BY <1>2, <1>14 DEF Kill, Stop
  <1>15. CASE NextRun
    BY <1>15, <1>n DEF NextRun, Verdicts, Decided
  <1>16. CASE UNCHANGED vars
    BY <1>16 DEF vars, Verdicts, Decided, PolicyFailed, Chosen
  <1> QED
    BY <1>3, <1>4, <1>5, <1>6, <1>7, <1>8, <1>9, <1>10, <1>11, <1>12, <1>13, <1>14, <1>15, <1>16
       DEF Next, Over

LEMMA VerdictsHold == Spec => [](IInv /\ Verdicts)
  <1>1. ASSUME Init PROVE Verdicts
    BY <1>1, NoneAssumption DEF Init, Verdicts, Decided
  <1> QED
    BY <1>1, IInvHolds, VerdictsInductive, PTL DEF Spec

(* Every complete command line is taken the way a reader takes it, however *)
(* many flags and words it has and in whatever order they stand.         *)
THEOREM FlagsCountAnywhere == Spec => []FlagsAnywhere
  <1>1. ASSUME IInv PROVE FlagsAnywhere
    <2>1. SUFFICES ASSUME Complete(setup.command, setup.args)
                   PROVE  ParseFlags(setup.command, setup.args) = ReadInPlace(setup.args)
      BY DEF FlagsAnywhere
    <2>2. setup.args \in Seq(Token)
      BY <1>1, SetupAssumption DEF IInv, TypeOK, Setup
    <2> QED BY <2>1, <2>2, TakenInPlace
  <1> QED
    BY <1>1, IInvHolds, PTL

(* A run that comes to a verdict fails exactly when the policy says so that *)
(* its caller asked for: the last flag, else the config file, else the   *)
(* default, whatever else is on the command line and in the file.        *)
THEOREM PolicyIsTheCallers == Spec => []PolicyDecides
  <1>1. ASSUME IInv, Verdicts PROVE PolicyDecides
    <2> DEFINE read == ReadInPlace(setup.args).given
               filed == Configured(read, setup.configs)
               check == setup.command = "check"
               asked(option, value) == Asked(read, filed, option, value)
    <2>1. SUFFICES ASSUME Decided, Complete(setup.command, setup.args)
                   PROVE  LET counts(cause) == cause \in (IF check /\ asked("fail-on", "new") THEN found.new
                                                          ELSE found.all)
                          IN  exit = "policy" <=>
                              \/ asked("fail-on-dead", "true") /\ counts("dead")
                              \/ asked("fail-on-non-200", "true") /\ counts("non200")
                              \/ check /\ asked("fail-on-truncated", "true") /\ "truncated" \in found.all
      BY DEF PolicyDecides, Decided, Asked
    <2>2. setup.args \in Seq(Token) /\ setup.command \in {"scan", "check"}
      BY <1>1, SetupAssumption DEF IInv, TypeOK, Setup
    <2>3. options = ParseArgs(setup.command, setup.args, setup.configs).options
      BY <1>1, <2>1 DEF IInv, TypeOK, Phases, At
    <2>4. \A option \in PolicyOption : check \/ option \in {"fail-on-dead", "fail-on-non-200"} =>
            \A value : Chosen(option) = value <=> asked(option, value)
      BY <2>1, <2>2, <2>3, ChosenIsAsked DEF Chosen
    <2>5. exit = "policy" <=> PolicyFailed
      BY <1>1, <2>1 DEF Verdicts
    <2> HIDE DEF asked, check
    <2>6. /\ Chosen("fail-on-dead") = "true" <=> asked("fail-on-dead", "true")
          /\ Chosen("fail-on-non-200") = "true" <=> asked("fail-on-non-200", "true")
          /\ check => (Chosen("fail-on-truncated") = "true" <=> asked("fail-on-truncated", "true"))
          /\ check => (Chosen("fail-on") = "new" <=> asked("fail-on", "new"))
      BY <2>4 DEF PolicyOption
    <2> QED
      BY <2>5, <2>6 DEF PolicyFailed, check
  <1> QED
    BY <1>1, VerdictsHold, PTL
=============================================================================
