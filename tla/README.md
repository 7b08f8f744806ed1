# A verification project for Araneae

TLA+ models of Araneae (`cmd/`, `internal/`), TLC configurations that check them
on small instances, and theorems about them that TLAPS checks for every value
of the constants. `PROJECT.json` maps each definition to the Go lines it
stands for and lists runs, mutants, findings, hazards and theorems.

## The system

| Component | State it keeps | Operations | What makes it correct |
|---|---|---|---|
| Crawl coordinator and workers (`internal/crawl/crawler.go`) | queue and the set beside it, visited, fetches, link and skip counts, two buffered channels, a wait group, a cancellable context | entry fetch, seed, dispatch, receive, record, abort, close | no lost, repeated, out-of-scope or over-budget fetch; exact counts; truthful truncation; always returns, without leaking a goroutine |
| Request gate and retries (`ratelimit.go`, `fetchWithRetriesFunc`) | the next slot, under a mutex; per call an attempt counter and a timer | wait, fetch, back off | the rate holds for first requests and retries; retries are exactly used; a cancellation ends every wait |
| HTTP fetcher (`fetcher.go`) | one redirect chain and its headers | send, follow, read, classify | headers stay at the entry origin; the agent is sent always; the chain and the error are reported as they happened |
| Link health, comparison, triage (`crawler.go`, `baseline/`, `triage/`) | none | classify a link three times | the three agree |
| Sitemaps and local root (`sitemap.go`, `localroot.go`) | queue, seen sets, counters | walk indexes, collect pages, map files to URLs | ends on cycles, each sitemap once, every page accounted for, the outcome independent of the order |
| URL normalization and scope (`crawl/normalize.go`) | none | resolve, normalize, compare origin and path prefix | one resource has one name; the scope lets in what the docs say |
| Check policy (`check/`, `cli/check.go`) | reports of successive checks | compare, evaluate, name the causes | new, existing and resolved are exact |
| Configuration and flags (`cli/args.go`, `cli/config.go`) | none | move positionals, parse, choose and read a file, merge, validate | flags count wherever they stand; a flag beats the file, the file beats the default |
| Commands (`cli/check.go`, `cli/scan.go`) | files | validate, read, crawl, write, print | a verdict means that all output is there; the baseline is never overwritten |
| Report server (`cli/serve.go`, `ui/server.go`) | one immutable report and its triage | answer report, answer triage | a page gets one consistent report, or fails |
| UI script (`ui/static/app.js`) | controls, rows, a debounce timer, the acknowledged set in `localStorage` | load, filter, search, switch, select, acknowledge, reset | tables follow their controls; nothing is hidden that nobody acknowledged; decisions survive reloads and reports |
| Entry point, composite action | none | exit status | the exit says what the command returned |

A command calls `Crawler.Run` once, with a context it never cancels (a caller of
the package may). `Run` fetches the entry through the gate, settles the scope by
its final URL, seeds from its links, the sitemaps and the local root, and only
then starts the workers. Coordinator and workers share `taskCh` and `resultCh`;
everything else belongs to the coordinator. The report is the only thing that
the comparison, the policy, the triage and the UI see. The UI never hears of a
new report: a server that shows another one is another process, and what links
the two is the storage of their origin and the fingerprints of the issues.

What is hard: the two bounded channels and the error path, on which the
coordinator stops reading results; the order in which results come back; the
budget at its boundary; cancellation at any point; a timeout in the middle of a
body; redirects between origins; files half written when a run fails or is
killed; identities of issues over a series of reports; tabs that share storage
without notice; several spellings of one URL on both sides of a scope.

## Modules

| Module | Models | State and actions |
|---|---|---|
| `Crawler` | `Crawler.Run` and its workers | `Dispatch` is one turn of the inner loop, `Receive` takes one outcome, `RecordLink` one link of a page, a sitemap or the local root; `TakeTask`, `FinishTask`, `ExitWorker` are a worker; `Abort`/`Wait` the error path; `CancelParent` the caller's context |
| `CrawlSpec` | what a crawl promises | a frontier, the checked targets, one `Check` at a time |
| `CrawlerProofs` | theorems | see Proofs |
| `Requests` | the gate, retries, backoff | a call is at the gate, waiting for a slot, fetching, backing off or returned; `Tick` is the clock |
| `RequestsProofs` | theorems | |
| `Health` | classification of a link by report, comparison and UI | operators only |
| `Triage` | issues of a report, fingerprints, baseline state, groups (extends `Health`) | operators only |
| `Fetcher` | `HTTPFetcher.fetch` (extends `Health`) | `Send`, `Redirect` (`CheckRedirect`), and one action per way a request ends |
| `FetcherProofs` | theorems | |
| `Normalize` | `NormalizeLink`, `NewScope`, `Scope.Check` | operators over parsed locations |
| `LocalRoot` | file to URL path | operators over segments of paths |
| `Subsequence` | the loops that keep some elements of a sequence and pass over the others | one operator, `Select` |
| `Seeding` | `sitemapSeeds`, then `localRootSeedURLs` (extends `LocalRoot`, `Normalize`, `Subsequence`) | one sitemap per step: its fetch, its children, its pages; the last step adds the files of the build |
| `SeedingProofs` | theorems | |
| `Baseline` | `Compare`, `Evaluate`, `Err`, `baselineStates` (extends `Triage`) | one step is the next check, with the last report as its baseline |
| `BaselineProofs` | theorems | |
| `Viewer` | `runServeCommand`, the two handlers, `app.js` (extends `Triage`) | `Serve`, `StopServing`; per tab `OpenTab`, `FetchReport`, `FetchTriage`, `Loaded`, `Change`, `Search`, `Debounced`, `SelectRow`, `ToggleAcknowledged`, `ResetAcknowledged`, `Close` |
| `ViewerProofs` | theorems | |
| `CommandLine` | `interspersePositionals`, the flag sets, the config file, the merge, the validation (extends `Subsequence`) | operators only: `Place` and `ParseOne` are one turn of the two loops over the arguments, `Sorted` and `Reading` the loops |
| `CheckRun` | `runCheck`, `runScanCommand` (extends `CommandLine`) | `ParseCommand`, then one action per read or write, each with its error; `Kill`, `NextRun` |
| `CheckRunProofs` | theorems | |
| `LoopProofs` | lemmas about loops over sequences and about `Select` | |

`MC*` modules give the constants values; a `.cfg` replaces no definition.

Abstractions. In `Crawler` a URL is a model value, `FetchOf` drops its fragment
and `InScope` is `Scope.Check`; the site is rigid: `world.page[p]` is what
`processFetch` extracts at final URL `p`. A fetch is one step that yields the
site's response, a body cut by a cancellation, a cancelled request (a result, not
an error: the fetcher reports it as `network_error`) or an error; `Requests` and
`Fetcher` open that step. All sitemaps share one source in `Crawler`; `Seeding`
keeps them apart. In `Requests` a tick is an abstract unit: timers may fire late,
never early.

`Normalize` starts from a location that `net/url` has parsed: scheme, host, port,
path segments and fragment; queries, user names, escapes and the brackets of IPv6
addresses are left out, and `ResolveReference` is external. Its operators are
checked against a second definition of the same idea in `Seeding`: `Resource`
says what a location denotes (server with effective port, path, fragment) and
`WithinScope` what the documentation says of origins and prefixes.

Loops over sequences are recursive functions on the positions, so that they can be
proved about as well as evaluated.

In `CommandLine` the arguments are tokens and a value is a class of texts that
the code tells apart (a number that is zero, moderate or huge; an unset header);
the `flag` package is external. In `CheckRun` a file is a sequence of chunks
tagged with the run that wrote them, and what a path leads to (`samePath`) is a
constant; comparing `--out` with another path may fail. A baseline is read up to
the end of its first JSON value, and any object passes for a report. An empty
`--config` is none. In `Viewer` a fingerprint is the pair that is hashed, a search term is
a whole word, a server's content is fixed when it starts, and tabs of one origin
share its storage, whose reads and writes may fail. The order of rows is left out.

## Runs

Eight runs check forty properties; four more each show the code to disagree with a
document of the repository (Findings).

| Run | Question | Bounds | States |
|---|---|---|---|
| `crawl_safety` | all safety properties of the crawl; a complete report does not depend on the schedule | 6 targets, a fragment link, 2 workers, `MaxPages` 4, 582 sites (redirects, duplicates, cycles, seeds, failing fetches and set-up); symmetry of workers | 350,461 |
| `crawl_liveness` | `Run` returns; the crawl implements `CrawlSpec` | the same, without symmetry | 427,616 |
| `crawl_counts` | violated: counts per source page | the same as `crawl_safety` | |
| `requests` | rate, retries, termination | 2 calls, gate interval 0 or 2, backoff 0, 1 or 3, up to 2 retries, `Horizon` 2 | 129,848 |
| `fetcher` | headers along chains, classification | 4 URLs in 3 origins on 2 hosts, `MaxRequests` 3 | 140,032 |
| `missing_fragment`, `body_timeout` | violated: what the docs say of problems | the same | |
| `seeding` | sitemap graphs, spellings and scopes, local builds | 4 sitemaps, 18 spellings of locations, 3 scopes, `MaxURLs` 2, `MaxChildren` 3; every set of 5 files below 5 entries, one with `..` in its path, readable or not, and below the 4 pages that redirecting entries lead to (another directory, page or server, an empty path) | 3,042 |
| `local_root_index` | violated: the index of a build is its directory | the same | |
| `baseline` | successive checks, all policies and modes | 2 links, all verdicts and no visit; any report after any other | 14,880 |
| `viewer` | tables, acknowledged issues | 2 tabs of one origin, 2 reports, one the other's baseline, 4 settings, `MaxDecisions` 2 | 951,564 |
| `check_run` | options, files after errors and kills | 4 files, families of command lines, config files and paths, `MaxRuns` 2, the second run the same call or one that takes an output of the first for its baseline | 233,432 |

Why the bounds are enough. Two workers give every race of the channels: full,
empty, both results pending, one fetch failing with one in flight and one
queued; the proofs cover every pool. Six targets and a budget of four let the
crawl truncate, exhaust its queue, and end exactly at the budget. Three requests
reach home, away and home again, and the limit of a chain. Two calls contend for
a slot, and a third slot is asked for by a retry. Sitemaps refer to themselves
and to each other, under several spellings, inside and outside the scope, with
one child and one seed more than the caps allow. Two tabs are one that writes
and one that has read before; two decisions are one and its undoing, or one in
each tab. Two runs show what one leaves to the next, and each run reads only what
its predecessor left: as its baseline a report, a torn or empty one, a comparison,
or nothing. Flags stand before, behind and around the entry URL,
repeated, with and without values, over files that say otherwise. Every name that
bounds a model is a constant: `MaxPages`, `Horizon` (how far the clock runs when
no timer is set), `MaxRequests` (10 in the code), `MaxURLs`, `MaxChildren`,
`MaxDecisions`, `MaxRuns`.

Deadlock is checked in every passing run; the states in which a program has
ended stutter explicitly.

Every property is also run against a mutant of the model (a dropped guard, an
off-by-one, a missing reset...), which must violate it: `X_How` beside `X`.

## Fairness

- `Crawler`: weak fairness of the coordinator and of each worker. Goroutines
  that can run do run; a fetch ends, because the HTTP client has a timeout
  (`NewCrawler`) and the retries are bounded (`Requests`). A cancellation is
  never owed.
- `Requests`: weak fairness of each call. The clock has none:
  `EveryCallReturns` assumes it as a hypothesis, and `CancelEndsCalls` holds
  without it, so no call sleeps through a cancellation.
- `Seeding`: weak fairness of the walk, for the same reason as a fetch.

`Fetcher`, `Baseline`, `Viewer` and `CheckRun` assume none and claim no liveness:
a user may stop clicking, and a command may be killed.

## Proofs

Checked by TLAPS for every value of the constants, under the named assumptions of
the module. Every invariant and every action property of a passing run is a
theorem, and so is the refinement of `CrawlSpec`. Beyond types of parameters the
assumptions say:

- `Crawler`: fragments are dropped once, the pool is finite and not empty, the
  budget is positive, markers are not URLs.
- `Requests`: the settings are naturals. `Fetcher`: every URL has an origin and a
  host, and a chain may hold one request at least.
- `Health` (`IdAssumption`): escaping an escaped id changes nothing.
- `Normalize`: lower case is reached at once and hosts are not empty
  (`HostAssumption`: `strings.ToLower`, and `normalizeOrigin` refuses an empty
  host), what does not parse is no location (`MalformedAssumption`), and the empty
  string is a string.
- `Seeding` (`SiteAssumption`): `--sitemap` is absolute with a host, which
  `parseSitemapURLs` (`scan.go:145-157`) sees to, and so are the final URL of the
  entry and `--allow-host`; a site has finitely many sitemaps; `--max-sitemap-urls`
  is positive, as the commands require.
- `Baseline` (`ReportAssumption`): a report holds finitely many links, each with a
  verdict that `linkProblemAndHealth` gives or with none. `FetcherProofs!LinksAreVerdicts`
  discharges the second half: every result a fetch can have is such a verdict.
- `Viewer`: a page starts without a search, and the marker for nothing selected is
  no link.
- `CommandLine` and `CheckRun`: the texts the code names are texts (`ValueAssumption`),
  a path is empty or leads to a file, and the markers for no path and no options
  are neither.

| Theorem | States |
|---|---|
| `CrawlerProofs!TypeCorrect`, `SendsNeverBlock` | `TypeOK`, `ChannelsNeverBlock` |
| `CrawlerProofs!QueueIsDisciplined`, `BudgetIsKept`, `EachTargetFetchedOnce`, `NoLinkIsLost`, `ReportIsComplete`, `CrawlStaysInScope` | the property of the same meaning |
| `CrawlerProofs!StrengtheningHolds` | `Strengthening` |
| `CrawlerProofs!ReportIsDetermined` | `ReportIndependentOfSchedule` |
| `CrawlerProofs!CountsAreExact` | `OccurrencesExact` |
| `CrawlerProofs!CrawlImplementsSpec` | `ImplementsCrawlSpec` |
| `RequestsProofs!TypeCorrect`, `RateIsKept`, `ResultIsJustified` | `TypeOK`, `RateKept`, `ResultJustified` |
| `FetcherProofs!TypeCorrect`, `HeadersAreKeptHome`, `ChainIsTrue`, `VerdictsAreConsistent`, `ClassificationsAgree` | `TypeOK`, `HeadersStayHome`, `ChainIsWhatHappened`, `HealthConsistent`, `TriageAgrees` |
| `FetcherProofs!LinksAreVerdicts` | what `ReportAssumption` takes of a link |
| `SeedingProofs!Invariant` | the inductive invariant |
| `SeedingProofs!TypesHold`, `EachSitemapOnce`, `OutcomeIsDetermined`, `EveryPageAccountedFor`, `LocalSeedsMirrorTheBuild` | `TypeOK`, `SitemapsFetchedOnce`, `OutcomeDetermined`, `PagesAccountedFor`, `LocalSeedsMirrorBuild` |
| `BaselineProofs!NewMeansNew`, `FailureIsNamed`, `UIAndCheckAgree`, `OptionsShowTheirIssues`, `IssuesAreNewOnce` | `NewModeIsExact`, `ErrNamesCause`, `UIAgreesWithCheck`, `OptionsCountTheirIssues`, `NewOnce` |
| `ViewerProofs!TypeCorrect`, `TablesAreCurrent`, `NothingHiddenUnasked`, `LastDecisionsShown` | `TypeOK`, `RowsAreCurrent`, `OnlyAcknowledgedHidden`, `DecisionsKept` |
| `CheckRunProofs!TypeCorrect`, `VerdictIsWritten`, `ComparisonAfterReport`, `BaselineIsSafe`, `SummariesAreKept` | `TypeOK`, `VerdictMeansWritten`, `ComparisonHasItsReport`, `BaselineUntouched`, `SummariesAccumulate` |
| `CheckRunProofs!FlagsCountAnywhere`, `PolicyIsTheCallers` | `FlagsAnywhere`, `PolicyDecides` |

**Crawler.** The inductive invariant is `Safe`: `TypeOK`, `ChannelsNeverBlock`,
`QueueDiscipline`, `Phases` and the custody of targets. None of the properties is
inductive alone. That a send cannot block needs the count of tasks in flight to
be exactly what the channels and the workers hold. That nothing is fetched twice
needs `queued` to be disjoint from `visited`, and every target in a channel or at
a worker to be visited and not yet recorded. That the budget is exact needs
`attempted` to move with `visited`, which holds only because the `continue`s of
the dispatch loop are never taken (`QueueDiscipline`). `Phases` says what `Run`
has not touched yet at each point, without which the seeding steps would have to
be considered with workers running. Completeness of a finished report follows
from custody (every target handed out is in hand or recorded) once nothing is in
flight.

That a complete report is a function of the site adds `Explored`: everything found
is reachable from the entry and the seeds (`OnlyReachable`), every page recorded
has had its links found (`PagesFollowed`), and so have the seeds
(`SeedsFollowed`). At the end of a crawl that neither truncated nor failed, what
was found is closed under the site's links, hence equal to what is reachable.

That the counts are exact needs a balance that every step keeps (`Tallied`): for
each link and source, what is counted and what the coordinator has still to walk
through add up to the occurrences on the page times the fetches that ended there,
and a link is counted on one side of the scope only.

The refinement maps recorded targets to `checked`, and queued, travelling and
not yet walked targets within the scope to `frontier`; `Receive` is a `Check`,
every other step of the loop stutters.

**Requests.** `IInv` keeps the slots apart: those of waiting calls and the next
one differ pairwise by the interval (`SlotsApart`), a waiting call owns its slot
(`SlotsOwned`), and starts are counted against the slots that have come and that
nobody waits for any more (`StartsHaveSlots`); a cancelled waiter's slot counts as
spent, which is why the bound is one-sided. `RetriesUsed` bounds the attempts of
a call that backs off, without which a retry could exceed its number. What the
requests of a call have come to is kept in a history variable (`outcomes`):
`ResultJustified` says that a call goes on only after outcomes that a retry could
cure, and that a final one is the result, so a 404 is never asked for again.

**Fetcher.** `HeadersSettled` holds for every request of the chain and for the one
about to be sent: a configured header goes to the home origin only, and a custom
one is there whenever the chain began at home and is at home. `ChainSettled` says
how far the recorded chain is ahead of the requests sent, at every phase, and
`ResultSettled` that a result without an error has the status of a response.
`TriageAgrees` is then a fact about the operators of `Health` applied to results
of the shape that `ResultSettled` allows.

**Seeding.** The invariant is that of a graph search and of what it collects. `Walked`:
everything fetched or queued is reachable, the roots and the children of what was
fetched are fetched or queued, and the counter is the number of index entries of
what was fetched. An empty queue then means that exactly the reachable sitemaps
were fetched, so neither the failures nor the counter depend on the order.
`Reachable` is defined over as many rounds as there are documents; that this is
enough is a counting argument over the documents, after showing that the dot
segments of an address come off once. `PagesTaken`: the seeds and the skipped links
are those of the pages seen so far, one for each, and the seeds are all of them or
fill the cap. That normalization names a resource once is a lemma about its
operators and not part of the invariant. `LocalSeedsMirrorBuild` is a fact about
paths. The base is the final URL of the entry as `net/url` writes it, with dot
segments, empty ones and all; joining it with a route cleans both, so the segments
kept of a seed are those of the base's directory followed by those of the file, and
two files share a seed only when both are the index of one directory.

**Baseline.** The invariant is only that the reports are reports; the work is in the
operators. Every verdict has a problem exactly when it is dead or non-200
(`VerdictFacts`), so the comparison, which selects by flags, and the triage, which
selects by problems, choose the same links when both flags are set. The counts of
the filter options are cardinalities of the same sets the page shows.

**Viewer.** Each action ends by drawing the table in view, and lemma `Drawn` says
that this restores `Current`; what remains is that no action changes what a table
shows without drawing it, or setting the timer. Acknowledged sets, in storage and
in pages, are covered by what was decided at their origin; at an origin without
trouble they are equal to it.

**CheckRun.** `Phases` says what the run has settled by each step (options, distinct
paths), `Written` which outputs are whole by then, `Owned` that until the verdict
only the report and the comparison hold chunks of this run, and a comparison only
beside its report. Paths that lead to one
file are refused before anything is opened, and every later case distinction
rests on that. `Compared` is what a verdict of a check owes its baseline: from the
moment it was read the file begins with a whole report or comparison of an earlier
run, since `Owned` leaves nothing of this run there and no output leads to it.

That flags count wherever they stand follows the two loops side by side, token by
token (`Tracks`): before each token either the sorter and the parser both wait for
the value of one flag or both are between flags, the words kept back are the
arguments so far, and what the parser has stored for each option is the selection
a reader makes from the tokens so far. A complete line ends between flags, and
`WordsRead` says that the words moved to the end are then read as arguments and
nothing else. `PolicyIsTheCallers` adds that the exit is the policy's verdict on the
options of the run (`Verdicts`) and that the merge picks the value asked for.

**LoopProofs.** The library's induction theorems cannot be instantiated, but the sets of
naturals that contain zero and the successor of each member can: `LoopInduction`
is induction over such a set, `LoopExists` that a recursive function on positions
is what its equation says. The loops of `Normalize`, `Seeding` and `CommandLine`
are proved about in this way.

Only model-checked: liveness under fairness (`ReturnsWithoutLeak`,
`EveryCallReturns`, `CancelEndsCalls`, `SeedingEnds`), which is out of the prover's
reach, and the four properties that the code violates.

## Findings

1. `crawl_counts`: two fetched targets that redirect to one page count each link
   of that page twice under one source (`crawler.go:304`).
2. `missing_fragment`: the fragment is compared in its escaped form with ids as
   written (`crawler.go:600`, `parser.go:49,70`): a link to `#café` is reported
   missing from a page that has the id.
3. `body_timeout`: a timeout while the body is read is reported as
   `network_error` (`fetcher.go:124`).
4. `local_root_index`: for an entry page at the top of the site (`/page.html`)
   the index of the local root becomes `//` (`localroot.go:77`).

Also worth knowing:

- A link that a truncated crawl did not reach is no issue, so its old issue
  counts as resolved (`compare.go:86`).
- In mode `new` enabling one more policy can turn a failing check into a passing
  one: a link that went from 500 to 404 is a new issue under `--fail-on-dead`
  alone, but an existing one (same URL and problem `http_status`) when
  `--fail-on-non-200` is given too.
- The gate bounds starts since the beginning of the crawl, not in each second:
  waiters that wake late may start together. The slot of a cancelled waiter is lost.
- A last flag without its value takes the entry URL, which `args.go:61` moves
  behind it: with an `entry_url` in the config file, `scan URL --out` checks the
  other site, and the URL is the path of the report.
- An absolute link keeps its dot segments, so `https://x/docs/../blog/` passes the
  test of `--path-prefix /docs/`, while the relative `../blog/` is resolved first
  and does not (`normalize.go:110-118,159`).
- Two sitemap locations that differ only in their fragment are fetched twice
  (`sitemap.go:122`).
- Of an entry that redirects, the files of the local root are mapped below its
  final URL (`crawler.go:131-134,196`), where `docs/usage.md:173` speaks of the
  entry URL path: with `/docs/` answered by `/docs/v2/`, `guide/index.html` becomes
  `/docs/v2/guide/`, or a page of another server altogether.
- A comparison given as `--baseline` is taken for an empty report
  (`read.go:16-20`): the check passes for one with a baseline, and every issue is
  new.
- Two tabs of one origin each save their own acknowledged set, and the last one
  wins (`app.js:691`); `DecisionsKept` therefore speaks of origins where one tab
  at a time was open.

## Not modelled, and why

- The order of issues and groups, the Markdown, CSV and JSON texts of the
  reports, the order of rows, wording, clipboard and exports of the UI: formatting
  without state. `FilterIssues`: no command calls it.
- Static assets and the command line of `serve`: no state beyond `Serve`.
- Parsing and escaping of URLs, XML, JSON and YAML, and the walk over HTML
  elements: string work; the models take its result as input.
- `samePath` and the file system below `open`, `write`, `close`. The error of
  `Close` is ignored (`scan.go:373`), so a write that fails only there ends with
  a verdict on a torn report; the model puts every write error at the write.
- The hints for header values that a shell has split, and the wording of errors.
- The composite action: shell around one check.

## Plan

Done, in this order: `Crawler`, `CrawlSpec` and their proofs; `Requests`;
`Health` and `Fetcher`; `LocalRoot` and `Seeding`; `Baseline`; `CheckRun`;
`Triage` and `Viewer`; `CommandLine`; `Normalize`; the proofs of `Viewer`,
`CheckRun`, `Fetcher` and `Requests`, and of the independence of the schedule; the
proofs of `Baseline` and `Seeding`, of the counts of `Crawler`, and of the command
line.

1. Extend: a composition of `Crawler` with `Seeding`'s outcome in place of
   `world.sitemap`, and of `Baseline` with the links of a finished crawl.
2. Prove: that the composition keeps what each part promises.
