------------------------------- MODULE Crawler -------------------------------
(***************************************************************************)
(* The crawl of internal/crawl/crawler.go: the coordinator (Crawler.Run),  *)
(* its pool of fetch workers, the two channels between them, and the       *)
(* cancellation of the context they share.                                 *)
(*                                                                         *)
(* A normalized URL without a fragment is a fetch target; links that       *)
(* differ in their fragment share a target (FetchOf).  The site is a rigid *)
(* record, `world', chosen in the initial state: TLC checks every site of  *)
(* the set Worlds in one run.                                              *)
(***************************************************************************)
EXTENDS Naturals, Sequences, FiniteSets, SequencesExt

CONSTANTS
    Link,       \* normalized link URLs (LinkOccurrence.LinkURL)
    FetchOf,    \* [Link -> Link]: the link without its fragment (FetchURL)
    Entry,      \* the normalized entry URL
    InScope,    \* [Target -> SUBSET Target]: what Scope.Check allows, by scope origin
    Worker,     \* the fetch workers; ScanOptions.Concurrency of them
    MaxPages,   \* ScanOptions.MaxPages
    Worlds,     \* the sites a crawl may meet
    Sitemap,    \* source of the links a sitemap contributes
    LocalRoot,  \* source of the targets --local-root contributes (never recorded)
    Idle, Off   \* a worker with no task; a goroutine that does not run

Target == {FetchOf[l] : l \in Link}
Source == Target \cup {Sitemap}
Concurrency == Cardinality(Worker)

TargetsOf(s) == {FetchOf[l] : l \in ToSet(s)}

(* What fetchWithRetries hands back: the response of the site, a response  *)
(* whose body the cancelled context cut short (it has a final URL), a      *)
(* result without any response for the same reason, or a non-nil error.    *)
Result == {"page", "cut", "aborted", "err"}

(* A site: where a target redirects to; the links processFetch extracts    *)
(* from a final URL (none for an error, a non-200, a non-HTML or an        *)
(* unparsable response); the links of the sitemaps; the targets of the     *)
(* local root; the targets whose fetch returns a non-nil error; and the    *)
(* steps of the set-up that fail.                                          *)
World == [redirect  : [Target -> Target],
          page      : [Target -> Seq(Link)],
          sitemap   : Seq(Link),
          localRoot : Seq(Target),
          broken    : SUBSET Target,
          setup     : SUBSET {"scope", "sitemap", "localRoot"}]

ASSUME LinkAssumption ==
    /\ FetchOf \in [Link -> Link]
    /\ \A l \in Link : FetchOf[FetchOf[l]] = FetchOf[l]
    /\ Entry \in Target
    /\ InScope \in [Target -> SUBSET Target]

ASSUME PoolAssumption ==
    /\ IsFiniteSet(Worker) /\ Worker # {}
    /\ MaxPages \in Nat \ {0}

ASSUME WorldAssumption == Worlds \subseteq World

ASSUME NameAssumption ==
    /\ Sitemap \notin Target /\ LocalRoot \notin Target /\ Sitemap # LocalRoot
    /\ Idle \notin Target /\ Off \notin Target /\ Idle # Off

VARIABLES
    world,      \* the site, fixed
    pc,         \* where Run is
    todo,       \* links the loop over a page, a sitemap or the local root has left
    source,     \* the source those links are recorded under
    queue,      \* discovered targets, first in first out
    queued,     \* the set the code keeps beside the queue
    visited,    \* targets handed to a worker, and the entry
    fetches,    \* [Target -> "none" | "page" | "cut" | "aborted"], the fetches recorded
    links,      \* [Link -> [Source -> Nat]]: occurrences of allowed links
    skipped,    \* [Link -> [Source -> Nat]]: occurrences of links out of scope
    attempted,  \* fetches started
    inFlight,   \* tasks sent and not yet answered
    taskCh,     \* buffered channel to the workers
    resultCh,   \* buffered channel from the workers
    closed,     \* taskCh is closed
    worker,     \* [Worker -> Target \cup {Idle, Off}]
    parentDone, \* the caller's context is cancelled
    cancelled   \* Run cancelled its own context

coordinator == <<pc, todo, source, queue, queued, visited, fetches, links,
                 skipped, attempted, inFlight>>
channels == <<taskCh, resultCh, closed, worker>>
context == <<parentDone, cancelled>>
vars == <<world, coordinator, channels, context>>

-----------------------------------------------------------------------------
(* Derived state and helpers *)

CtxDone == parentDone \/ cancelled

Terminated == pc \in {"done", "failed"}

(* The scope origin is the final URL of the entry fetch when it has one.   *)
Scope == InScope[IF fetches[Entry] \in {"page", "cut"} THEN world.redirect[Entry] ELSE Entry]

Allowed_EntryOrigin(l) == FetchOf[l] \in InScope[Entry]
Allowed(l) == FetchOf[l] \in Scope

Busy == {w \in Worker : worker[w] \in Target}

Answered == [i \in 1..Len(resultCh) |-> resultCh[i].url]
Fetched == {u \in Target : fetches[u] # "none"}

NoLinks == [l \in Link |-> [s \in Source |-> 0]]

(* The condition of the inner dispatch loop. *)
CanDispatch_OneTooMany ==
    MaxPages > attempted /\ inFlight <= Concurrency /\ queue # <<>>
CanDispatch_OverBudget ==
    MaxPages >= attempted /\ inFlight < Concurrency /\ queue # <<>>
CanDispatch == MaxPages > attempted /\ inFlight < Concurrency /\ queue # <<>>

(* What the fetch of u may hand back at this moment. *)
Results(u) == (IF u \in world.broken THEN {"err"} ELSE {"page"})
                \cup (IF CtxDone THEN {"cut", "aborted", "err"} ELSE {})

(* NormalizeLink: what is fetched for a link is the URL without fragment.  *)
FetchURL_WithFragment(l) == l
FetchURL(l) == FetchOf[l]

(* Queue a target unless it was handed out or is queued already. *)
AddToQueue_OnlyQueued(u) ==
    IF u \in queued
    THEN UNCHANGED <<queue, queued>>
    ELSE queue' = Append(queue, u) /\ queued' = queued \cup {u}
AddToQueue_WithinBudget(u) ==
    IF u \in visited \/ u \in queued \/ attempted >= MaxPages
    THEN UNCHANGED <<queue, queued>>
    ELSE queue' = Append(queue, u) /\ queued' = queued \cup {u}
AddToQueue(u) ==
    IF u \in visited \/ u \in queued
    THEN UNCHANGED <<queue, queued>>
    ELSE queue' = Append(queue, u) /\ queued' = queued \cup {u}

MarkVisited_Forgotten(u) == visited' = visited
MarkVisited(u) == visited' = visited \cup {u}

(* One more occurrence of link l under the source being recorded. *)
CountOccurrence_Once(m, l) == [m EXCEPT ![l][source] = 1]
CountOccurrence(m, l) == [m EXCEPT ![l][source] = @ + 1]

(* A worker reported an error: cancel the context, close the tasks, wait. *)
Abort_TasksLeftOpen ==
    /\ cancelled' = TRUE /\ pc' = "failing"
    /\ UNCHANGED closed
Abort == cancelled' = TRUE /\ closed' = TRUE /\ pc' = "failing"

(* processFetch: record the result, then loop over the links of the page.  *)
ProcessFetch_RequestedURL(u, res) ==
    /\ fetches' = [fetches EXCEPT ![u] = res]
    /\ source' = u
    /\ todo' = IF res = "page" THEN world.page[u] ELSE <<>>
ProcessFetch(u, res) ==
    /\ fetches' = [fetches EXCEPT ![u] = res]
    /\ source' = world.redirect[u]
    /\ todo' = IF res = "page" THEN world.page[world.redirect[u]] ELSE <<>>

-----------------------------------------------------------------------------
Init ==
    /\ world \in Worlds
    /\ pc = "entry"
    /\ todo = <<>> /\ source = Entry
    /\ queue = <<>> /\ queued = {} /\ visited = {}
    /\ fetches = [u \in Target |-> "none"]
    /\ links = NoLinks /\ skipped = NoLinks
    /\ attempted = 0 /\ inFlight = 0
    /\ taskCh = <<>> /\ resultCh = <<>> /\ closed = FALSE
    /\ worker = [w \in Worker |-> Off]
    /\ parentDone = FALSE /\ cancelled = FALSE

(* The entry is fetched before anything else and its final URL sets the    *)
(* scope; a non-nil error, or a scope that cannot be built, ends the run.  *)
FetchEntry ==
    /\ pc = "entry"
    /\ \E res \in Results(Entry) :
         IF res = "err" \/ "scope" \in world.setup
         THEN pc' = "failed" /\ UNCHANGED <<todo, source, visited, fetches>>
         ELSE /\ MarkVisited(Entry)
              /\ ProcessFetch(Entry, res)
              /\ pc' = "sitemap"
    /\ UNCHANGED <<world, queue, queued, links, skipped, attempted, inFlight,
                   channels, context>>

(* One iteration of the loop over discovered links: count the occurrence   *)
(* under its source and queue its target, or count it as skipped.  Targets *)
(* of the local root are queued without being recorded.                    *)
RecordLink ==
    /\ todo # <<>>
    /\ todo' = Tail(todo)
    /\ LET l == Head(todo) IN
       /\ links' = IF Allowed(l) /\ source # LocalRoot
                   THEN CountOccurrence(links, l) ELSE links
       /\ skipped' = IF ~Allowed(l) /\ source # LocalRoot
                     THEN CountOccurrence(skipped, l) ELSE skipped
       /\ IF Allowed(l) THEN AddToQueue(FetchURL(l)) ELSE UNCHANGED <<queue, queued>>
    /\ UNCHANGED <<world, pc, source, visited, fetches, attempted, inFlight,
                   channels, context>>

(* Discovery from sitemaps fails as a whole when any fetch of it does.     *)
AddSitemapSeeds ==
    /\ pc = "sitemap" /\ todo = <<>>
    /\ \/ /\ "sitemap" \notin world.setup
          /\ todo' = world.sitemap /\ source' = Sitemap
          /\ pc' = "localRoot"
       \/ /\ "sitemap" \in world.setup \/ (parentDone /\ world.sitemap # <<>>)
          /\ pc' = "failed" /\ UNCHANGED <<todo, source>>
    /\ UNCHANGED <<world, queue, queued, visited, fetches, links, skipped,
                   attempted, inFlight, channels, context>>

AddLocalRootSeeds ==
    /\ pc = "localRoot" /\ todo = <<>>
    /\ IF "localRoot" \in world.setup
       THEN pc' = "failed" /\ UNCHANGED <<todo, source>>
       ELSE todo' = world.localRoot /\ source' = LocalRoot /\ pc' = "start"
    /\ UNCHANGED <<world, queue, queued, visited, fetches, links, skipped,
                   attempted, inFlight, channels, context>>

StartWorkers ==
    /\ pc = "start" /\ todo = <<>>
    /\ worker' = [w \in Worker |-> Idle]
    /\ attempted' = 1
    /\ pc' = "loop"
    /\ UNCHANGED <<world, todo, source, queue, queued, visited, fetches, links,
                   skipped, inFlight, taskCh, resultCh, closed, context>>

(* One iteration of the dispatch loop: pop a target and send it.  The send *)
(* blocks while taskCh is full.                                            *)
Dispatch ==
    /\ pc = "loop" /\ todo = <<>>
    /\ CanDispatch
    /\ Len(taskCh) < Concurrency
    /\ LET next == Head(queue) IN
       /\ queue' = Tail(queue)
       /\ queued' = queued \ {next}
       /\ IF next \in queued /\ next \notin visited
          THEN /\ MarkVisited(next)
               /\ inFlight' = inFlight + 1
               /\ attempted' = attempted + 1
               /\ taskCh' = Append(taskCh, next)
          ELSE UNCHANGED <<visited, inFlight, attempted, taskCh>>
    /\ UNCHANGED <<world, pc, todo, source, fetches, links, skipped, resultCh,
                   closed, worker, context>>

(* With nothing left to dispatch the coordinator waits for a result.       *)
Receive ==
    /\ pc = "loop" /\ todo = <<>>
    /\ ~CanDispatch /\ inFlight > 0
    /\ resultCh # <<>>
    /\ resultCh' = Tail(resultCh)
    /\ inFlight' = inFlight - 1
    /\ LET outcome == Head(resultCh) IN
       IF outcome.res = "err"
       THEN Abort /\ UNCHANGED <<todo, source, fetches>>
       ELSE /\ ProcessFetch(outcome.url, outcome.res)
            /\ UNCHANGED <<cancelled, closed, pc>>
    /\ UNCHANGED <<world, queue, queued, visited, links, skipped, attempted,
                   taskCh, worker, parentDone>>

(* Nothing in flight, and the queue is empty or the budget is spent. *)
CloseTasks ==
    /\ pc = "loop" /\ todo = <<>>
    /\ inFlight = 0
    /\ queue = <<>> \/ MaxPages <= attempted
    /\ closed' = TRUE /\ pc' = "closing"
    /\ UNCHANGED <<world, todo, source, queue, queued, visited, fetches, links,
                   skipped, attempted, inFlight, taskCh, resultCh, worker, context>>

(* workerWG.Wait() on both ways out of the loop. *)
Wait ==
    /\ pc \in {"closing", "failing"}
    /\ \A w \in Worker : worker[w] = Off
    /\ pc' = IF pc = "closing" THEN "done" ELSE "failed"
    /\ UNCHANGED <<world, todo, source, queue, queued, visited, fetches, links,
                   skipped, attempted, inFlight, channels, context>>

-----------------------------------------------------------------------------
(* A worker ranges over taskCh until it is closed and drained. *)
TakeTask(w) ==
    /\ worker[w] = Idle /\ taskCh # <<>>
    /\ worker' = [worker EXCEPT ![w] = Head(taskCh)]
    /\ taskCh' = Tail(taskCh)
    /\ UNCHANGED <<world, coordinator, resultCh, closed, context>>

(* The fetch ends and its outcome is sent; the send blocks while resultCh  *)
(* is full.                                                                *)
FinishTask(w) ==
    /\ worker[w] \in Target
    /\ Len(resultCh) < Concurrency
    /\ \E res \in Results(worker[w]) :
         resultCh' = Append(resultCh, [url |-> worker[w], res |-> res])
    /\ worker' = [worker EXCEPT ![w] = Idle]
    /\ UNCHANGED <<world, coordinator, taskCh, closed, context>>

ExitWorker(w) ==
    /\ worker[w] = Idle /\ taskCh = <<>> /\ closed
    /\ worker' = [worker EXCEPT ![w] = Off]
    /\ UNCHANGED <<world, coordinator, taskCh, resultCh, closed, context>>

(* The caller may cancel the context it passed to Run. *)
CancelParent ==
    /\ ~parentDone /\ ~Terminated
    /\ parentDone' = TRUE
    /\ UNCHANGED <<world, coordinator, channels, cancelled>>

(* Run has returned: the only states in which nothing more happens. *)
Returned == Terminated /\ UNCHANGED vars

Coordinator ==
    \/ FetchEntry \/ RecordLink \/ AddSitemapSeeds \/ AddLocalRootSeeds
    \/ StartWorkers \/ Dispatch \/ Receive \/ CloseTasks \/ Wait

WorkerStep(w) == TakeTask(w) \/ FinishTask(w) \/ ExitWorker(w)

Next ==
    \/ Coordinator
    \/ \E w \in Worker : WorkerStep(w)
    \/ CancelParent
    \/ Returned

Spec == Init /\ [][Next]_vars

(* Goroutines that can run do run, and a fetch ends: the HTTP client has a *)
(* timeout.  Cancellation is never owed.                                   *)
Fairness == WF_vars(Coordinator) /\ \A w \in Worker : WF_vars(WorkerStep(w))

FairSpec == Spec /\ Fairness
-----------------------------------------------------------------------------
(* Properties *)

(* Every variable has its type; a result in resultCh names a target. *)
TypeOK ==
    /\ world \in Worlds
    /\ pc \in {"entry", "sitemap", "localRoot", "start", "loop", "closing",
               "failing", "done", "failed"}
    /\ todo \in Seq(Link) /\ source \in Source \cup {LocalRoot}
    /\ queue \in Seq(Target) /\ queued \subseteq Target /\ visited \subseteq Target
    /\ fetches \in [Target -> {"none", "page", "cut", "aborted"}]
    /\ links \in [Link -> [Source -> Nat]] /\ skipped \in [Link -> [Source -> Nat]]
    /\ attempted \in Nat /\ inFlight \in Nat
    /\ taskCh \in Seq(Target)
    /\ resultCh \in Seq([url : Target, res : Result])
    /\ closed \in BOOLEAN /\ parentDone \in BOOLEAN /\ cancelled \in BOOLEAN
    /\ worker \in [Worker -> Target \cup {Idle, Off}]

(* The queue and the set kept beside it stay in step: the queue has no     *)
(* duplicate, holds exactly the targets of `queued', and none of them was  *)
(* handed to a worker.  (So the two `continue's of the dispatch loop, for  *)
(* a stale head and for a visited one, are never taken.)                   *)
QueueDiscipline ==
    /\ ToSet(queue) = queued
    /\ IsInjective(queue)
    /\ queued \cap visited = {}

(* Every task sent and not yet answered is in exactly one of taskCh, a     *)
(* worker and resultCh, and there are never more than a channel holds: no  *)
(* send of the coordinator or of a worker can block, so waiting for the    *)
(* workers on the error path, where nobody reads resultCh, cannot hang.    *)
ChannelsNeverBlock ==
    /\ Len(taskCh) + Cardinality(Busy) + Len(resultCh) = inFlight
    /\ inFlight <= Concurrency
    /\ (pc = "loop" /\ CanDispatch) => Len(taskCh) < Concurrency
    /\ \A w \in Busy : Len(resultCh) < Concurrency

(* README: "Fetches each normalized target URL once".  A target is at one  *)
(* place at most: in taskCh, at one worker, in resultCh, or recorded.      *)
FetchedOnce ==
    /\ IsInjective(taskCh) /\ IsInjective(Answered)
    /\ \A v, w \in Busy : worker[v] = worker[w] => v = w
    /\ ToSet(taskCh) \cap ToSet(Answered) = {}
    /\ \A w \in Busy : worker[w] \notin ToSet(taskCh) \cup ToSet(Answered) \cup Fetched
    /\ Fetched \cap (ToSet(taskCh) \cup ToSet(Answered)) = {}

(* The budget counts what was handed out: once the crawl has started the   *)
(* fetches begun are exactly the visited targets, never over MaxPages.     *)
BudgetKept ==
    pc \in {"loop", "closing", "failing", "done"} =>
        attempted = Cardinality(visited) /\ attempted <= MaxPages

(* Only the entry may lie outside the scope that the entry's final URL     *)
(* defines; nothing else out of scope is queued or fetched, whichever      *)
(* page, sitemap or local root names it.                                   *)
FetchesInScope ==
    fetches[Entry] \in {"page", "cut"} =>
        (visited \ {Entry}) \cup queued \subseteq InScope[world.redirect[Entry]]

Recorded(l) == \E s \in Source : links[l][s] > 0

(* No link gets lost: the target of every recorded link is queued or was   *)
(* handed out; and nothing is fetched that no recorded link, nor the local *)
(* root, names.                                                            *)
NothingLost ==
    /\ \A l \in Link : Recorded(l) => FetchOf[l] \in visited \cup queued
    /\ \A u \in visited \cup queued :
         \/ u = Entry
         \/ \E l \in Link : Recorded(l) /\ FetchOf[l] = u
         \/ u \in ToSet(world.localRoot)

(* ReportSummary.Truncated and what "not truncated" promises: every target *)
(* handed out has its fetch in the report, and unless the report says that *)
(* it is truncated every link in it was checked.                           *)
Truncated == attempted >= MaxPages /\ queue # <<>>

ReportComplete ==
    pc = "done" =>
        /\ Fetched = visited
        /\ ~Truncated => \A l \in Link : Recorded(l) => FetchOf[l] \in Fetched

(* The sets of targets a reader of the site arrives at: with the entry,    *)
(* with every seed in scope, and with each target all that its page links  *)
(* to in scope.                                                            *)
ClosedUnderLinks(S) ==
    LET scope == InScope[world.redirect[Entry]] IN
    /\ Entry \in S
    /\ (TargetsOf(world.sitemap) \cup TargetsOf(world.localRoot)) \cap scope \subseteq S
    /\ \A u \in S : TargetsOf(world.page[world.redirect[u]]) \cap scope \subseteq S

(* The targets in the report of a finished crawl depend on the site alone  *)
(* unless the budget or a cancellation cut the crawl short: they are the   *)
(* least set closed under links, whichever worker answered first and in    *)
(* whatever order pages named a target.  A crawl cut short reports a part  *)
(* of that set.                                                            *)
ReportIndependentOfSchedule ==
    pc = "done" =>
        /\ fetches[Entry] # "aborted" =>
             \A S \in SUBSET Target : ClosedUnderLinks(S) => Fetched \subseteq S
        /\ ~Truncated /\ (\A u \in Target : fetches[u] \in {"none", "page"}) =>
             ClosedUnderLinks(Fetched)

Occurrences(l, s) == Cardinality({i \in 1..Len(s) : s[i] = l})

(* The counts of the report: for each source page p, every fetched target  *)
(* that ends at p contributes each occurrence on p exactly once, split     *)
(* between links and skipped_links by the scope, whatever order the        *)
(* workers answered in.                                                    *)
OccurrencesExact ==
    \A l \in Link : \A p \in Target :
        LET pages == {u \in Target : fetches[u] = "page" /\ world.redirect[u] = p}
            left  == IF source = p THEN Occurrences(l, todo) ELSE 0
        IN  /\ links[l][p] + skipped[l][p] + left
                 = Occurrences(l, world.page[p]) * Cardinality(pages)
            /\ IF Allowed(l) THEN skipped[l][p] = 0 ELSE links[l][p] = 0

(* README: the report "counts every link occurrence" with its source page. *)
(* A page that several fetched targets end at is counted once for each of  *)
(* them, under the same source, so the code counts more than the page has. *)
CountsOccurrencesOnPage ==
    pc = "done" =>
        \A l \in Link : \A p \in Target :
            links[l][p] + skipped[l][p] <= Occurrences(l, world.page[p])

(* Run always returns, with every worker gone: however many pages there    *)
(* are, whichever fetch fails, and whenever the caller cancels.            *)
ReturnsWithoutLeak == <>(Terminated /\ \A w \in Worker : worker[w] = Off)
-----------------------------------------------------------------------------
(* What makes the properties above inductive *)

(* The targets handed out and not yet recorded. *)
InHand == ToSet(taskCh) \cup {worker[w] : w \in Busy} \cup ToSet(Answered)

(* Where Run is determines what it has touched: nothing is fetched before  *)
(* the entry, no worker runs before the seeds are in, the loop is left     *)
(* with nothing in flight unless a fetch failed, and every target handed   *)
(* out is in hand or recorded unless a fetch failed.                       *)
Phases ==
    /\ pc \in {"entry", "sitemap", "localRoot", "start"} =>
         /\ attempted = 0 /\ inFlight = 0 /\ taskCh = <<>> /\ resultCh = <<>>
         /\ ~closed /\ \A w \in Worker : worker[w] = Off
    /\ pc = "entry" =>
         /\ todo = <<>> /\ queue = <<>> /\ queued = {} /\ visited = {} /\ Fetched = {}
         /\ links = NoLinks
    /\ pc \in {"sitemap", "localRoot", "start"} => visited = {Entry} /\ Fetched = {Entry}
    /\ pc \in {"closing", "failing", "done", "failed"} => todo = <<>>
    /\ pc \in {"closing", "done"} => inFlight = 0 /\ (queue = <<>> \/ MaxPages <= attempted)
    /\ source = LocalRoot => ToSet(todo) \subseteq ToSet(world.localRoot)

HandedOut ==
    /\ InHand \cup Fetched \subseteq visited
    /\ pc \notin {"failing", "failed"} => visited \subseteq InHand \cup Fetched
    /\ pc \notin {"entry", "failed"} => Entry \in Fetched

Strengthening == Phases /\ HandedOut

-----------------------------------------------------------------------------
(* The crawl implements CrawlSpec: a target is checked when its result is  *)
(* recorded; queued, travelling and still unrecorded targets make up the   *)
(* frontier.                                                               *)

Frontier == (visited \cup queued \cup (TargetsOf(todo) \cap Scope)) \ Fetched

Status ==
    CASE pc = "entry" -> "fresh"
      [] pc = "sitemap" -> "entered"
      [] pc = "localRoot" -> "seeded"
      [] pc \in {"start", "loop", "closing", "failing"} -> "crawling"
      [] OTHER -> pc

AbstractSite ==
    [leadsTo   |-> [u \in Target |-> TargetsOf(world.page[world.redirect[u]])],
     sitemap   |-> TargetsOf(world.sitemap),
     localRoot |-> TargetsOf(world.localRoot),
     scope     |-> InScope[world.redirect[Entry]],
     fallback  |-> InScope[Entry]]

AbstractScope == IF Entry \in Fetched THEN Scope ELSE {}

Abstract == INSTANCE CrawlSpec WITH
    site <- AbstractSite,
    scope <- AbstractScope,
    checked <- Fetched,
    frontier <- Frontier,
    status <- Status

(* Concurrency, queueing and cancellation are invisible from outside: the  *)
(* crawl checks targets one after the other, each once, within the budget, *)
(* and stops only with an empty frontier, a spent budget or a failure.     *)
ImplementsCrawlSpec == Abstract!Spec
=============================================================================
