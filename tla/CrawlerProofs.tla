---------------------------- MODULE CrawlerProofs ----------------------------
(***************************************************************************)
(* Theorems about the crawl, for every site, pool and budget: what it does *)
(* on its way; that it implements the sequential crawl of CrawlSpec; and   *)
(* that the report of a finished one is a function of the site, its        *)
(* targets as well as the occurrences it counts.                           *)
(***************************************************************************)
EXTENDS Crawler, FiniteSetTheorems, TLAPS

-----------------------------------------------------------------------------
(* Sequences as queues: what appending and taking the head do to the set   *)
(* of elements and to the absence of duplicates.                           *)

(* Appending adds one element, at the end. *)
LEMMA AppendElements ==
    ASSUME NEW S, NEW s \in Seq(S), NEW x \in S
    PROVE  /\ Append(s, x) \in Seq(S) /\ Len(Append(s, x)) = Len(s) + 1
           /\ ToSet(Append(s, x)) = ToSet(s) \cup {x}
           /\ IsInjective(s) /\ x \notin ToSet(s) => IsInjective(Append(s, x))
  <1>1. /\ Append(s, x) \in Seq(S) /\ Len(Append(s, x)) = Len(s) + 1
        /\ DOMAIN Append(s, x) = 1..Len(s) + 1 /\ DOMAIN s = 1..Len(s)
        /\ Len(s) \in Nat
    OBVIOUS
  <1>2. /\ \A i \in 1..Len(s) : Append(s, x)[i] = s[i]
        /\ Append(s, x)[Len(s) + 1] = x
    OBVIOUS
  <1>3. ToSet(Append(s, x)) = ToSet(s) \cup {x}
    BY <1>1, <1>2 DEF ToSet
  <1>4. IsInjective(s) /\ x \notin ToSet(s) => IsInjective(Append(s, x))
    BY <1>1, <1>2 DEF ToSet, IsInjective
  <1> QED BY <1>1, <1>3, <1>4

(* Taking the head removes one element; without duplicates it is gone. *)
LEMMA TailElements ==
    ASSUME NEW S, NEW s \in Seq(S), s # <<>>
    PROVE  /\ Tail(s) \in Seq(S) /\ Len(Tail(s)) = Len(s) - 1 /\ Head(s) \in S
           /\ Len(s) > 0
           /\ ToSet(s) = ToSet(Tail(s)) \cup {Head(s)}
           /\ IsInjective(s) => IsInjective(Tail(s)) /\ Head(s) \notin ToSet(Tail(s))
  <1>1. /\ Tail(s) \in Seq(S) /\ Len(Tail(s)) = Len(s) - 1 /\ Head(s) \in S
        /\ Len(s) > 0 /\ Head(s) = s[1]
        /\ DOMAIN s = 1..Len(s) /\ DOMAIN Tail(s) = 1..Len(s) - 1
        /\ Len(s) \in Nat
    OBVIOUS
  <1>2. \A i \in 1..Len(s) - 1 : Tail(s)[i] = s[i + 1]
    OBVIOUS
  <1>3. ToSet(s) = ToSet(Tail(s)) \cup {Head(s)}
    <2>1. ASSUME NEW i \in 1..Len(s) PROVE s[i] \in ToSet(Tail(s)) \cup {Head(s)}
      <3>1. CASE i = 1
        BY <3>1, <1>1
      <3>2. CASE i # 1
        <4>1. i - 1 \in 1..Len(s) - 1 /\ Tail(s)[i - 1] = s[i]
          BY <3>2, <1>1, <1>2
        <4> QED BY <4>1, <1>1 DEF ToSet
      <3> QED BY <3>1, <3>2
    <2>2. ASSUME NEW i \in 1..Len(s) - 1 PROVE Tail(s)[i] \in ToSet(s)
      <3>1. i + 1 \in 1..Len(s)
        BY <1>1
      <3> QED BY <3>1, <1>1, <1>2 DEF ToSet
    <2>3. Head(s) \in ToSet(s)
      BY <1>1 DEF ToSet
    <2> QED BY <2>1, <2>2, <2>3, <1>1 DEF ToSet
  <1>4. ASSUME IsInjective(s)
        PROVE  IsInjective(Tail(s)) /\ Head(s) \notin ToSet(Tail(s))
    BY <1>1, <1>2, <1>4 DEF ToSet, IsInjective
  <1> QED BY <1>1, <1>3, <1>4
-----------------------------------------------------------------------------
(* Types *)

(* The parts of a site have their types. *)
LEMMA WorldType ==
    ASSUME world \in Worlds
    PROVE  /\ world.redirect \in [Target -> Target]
           /\ world.page \in [Target -> Seq(Link)]
           /\ world.sitemap \in Seq(Link) /\ world.localRoot \in Seq(Target)
  BY WorldAssumption DEF World

(* A target is a link, its own fetch URL. *)
LEMMA TargetType ==
    /\ \A l \in Link : FetchOf[l] \in Target
    /\ Target \subseteq Link
    /\ \A u \in Target : FetchOf[u] = u
    /\ Entry \in Target /\ Idle \notin Target /\ Off \notin Target
  BY LinkAssumption, NameAssumption DEF Target

(* Recording a result keeps the types of what it changes. *)
LEMMA ProcessFetchType ==
    ASSUME TypeOK, NEW u \in Target, NEW res \in {"page", "cut", "aborted"}, ProcessFetch(u, res)
    PROVE  /\ fetches' \in [Target -> {"none", "page", "cut", "aborted"}]
           /\ source' \in Target /\ todo' \in Seq(Link)
  BY WorldType DEF TypeOK, ProcessFetch

(* Queueing a target keeps the types of the queue. *)
LEMMA AddToQueueType ==
    ASSUME TypeOK, NEW u \in Target, AddToQueue(u)
    PROVE  queue' \in Seq(Target) /\ queued' \subseteq Target
  <1>1. CASE u \in visited \/ u \in queued
    BY <1>1 DEF TypeOK, AddToQueue
  <1>2. CASE ~(u \in visited \/ u \in queued)
    <2>1. queue \in Seq(Target) /\ queued \subseteq Target
      BY DEF TypeOK
    <2>2. Append(queue, u) \in Seq(Target)
      BY <2>1
    <2> QED BY <1>2, <2>1, <2>2 DEF AddToQueue
  <1> QED BY <1>1, <1>2

(* Every step keeps every variable in its type. *)
LEMMA TypeStep == TypeOK /\ [Next]_vars => TypeOK'
  <1> SUFFICES ASSUME TypeOK, [Next]_vars PROVE TypeOK'
    OBVIOUS
  <1> USE DEF coordinator, channels, context
  <1>1. CASE FetchEntry
    <2>1. PICK res \in Results(Entry) :
            IF res = "err" \/ "scope" \in world.setup
            THEN pc' = "failed" /\ UNCHANGED <<todo, source, visited, fetches>>
            ELSE /\ MarkVisited(Entry) /\ ProcessFetch(Entry, res) /\ pc' = "sitemap"
      BY <1>1 DEF FetchEntry
    <2>2. res = "err" \/ res \in {"page", "cut", "aborted"}
      BY DEF Results
    <2>3. CASE res = "err" \/ "scope" \in world.setup
      BY <1>1, <2>1, <2>3 DEF FetchEntry, TypeOK
    <2>4. CASE ~(res = "err" \/ "scope" \in world.setup)
      <3>1. /\ fetches' \in [Target -> {"none", "page", "cut", "aborted"}]
            /\ source' \in Target /\ todo' \in Seq(Link)
        BY <2>1, <2>2, <2>4, ProcessFetchType, TargetType
      <3>2. visited' \subseteq Target
        BY <2>1, <2>4, TargetType DEF MarkVisited, TypeOK
      <3> QED BY <1>1, <2>1, <2>4, <3>1, <3>2 DEF FetchEntry, TypeOK, Source
    <2> QED BY <2>3, <2>4
  <1>2. CASE RecordLink
    <2> DEFINE l == Head(todo)
    <2>1. l \in Link /\ Tail(todo) \in Seq(Link)
      BY <1>2, TailElements DEF RecordLink, TypeOK
    <2>2. \A m \in [Link -> [Source -> Nat]] :
             source # LocalRoot => CountOccurrence(m, l) \in [Link -> [Source -> Nat]]
      BY <2>1 DEF CountOccurrence, TypeOK
    <2>3. links' \in [Link -> [Source -> Nat]] /\ skipped' \in [Link -> [Source -> Nat]]
      BY <1>2, <2>2 DEF RecordLink, TypeOK
    <2>4. queue' \in Seq(Target) /\ queued' \subseteq Target
      BY <1>2, <2>1, TargetType, AddToQueueType DEF RecordLink, FetchURL, TypeOK
    <2> QED BY <1>2, <2>1, <2>3, <2>4 DEF RecordLink, TypeOK
  <1>3. CASE AddSitemapSeeds
    BY <1>3, WorldType DEF AddSitemapSeeds, TypeOK, Source
  <1>4. CASE AddLocalRootSeeds
    <2>1. world.localRoot \in Seq(Link)
      BY WorldType, TargetType DEF TypeOK
    <2> QED BY <1>4, <2>1 DEF AddLocalRootSeeds, TypeOK
  <1>5. CASE StartWorkers
    BY <1>5 DEF StartWorkers, TypeOK
  <1>6. CASE Dispatch
    <2>1. Head(queue) \in Target /\ Tail(queue) \in Seq(Target)
      BY <1>6, TailElements DEF Dispatch, CanDispatch, TypeOK
    <2>2. /\ visited' \subseteq Target /\ inFlight' \in Nat /\ attempted' \in Nat
          /\ taskCh' \in Seq(Target)
      <3>1. CASE Head(queue) \in queued /\ Head(queue) \notin visited
        <4>1. /\ taskCh \in Seq(Target) /\ visited \subseteq Target
              /\ inFlight \in Nat /\ attempted \in Nat
          BY DEF TypeOK
        <4>2. Append(taskCh, Head(queue)) \in Seq(Target)
          BY <2>1, <4>1
        <4>3. /\ visited' = visited \cup {Head(queue)} /\ inFlight' = inFlight + 1
              /\ attempted' = attempted + 1 /\ taskCh' = Append(taskCh, Head(queue))
          BY <1>6, <3>1 DEF Dispatch, MarkVisited
        <4> QED BY <2>1, <4>1, <4>2, <4>3
      <3>2. CASE ~(Head(queue) \in queued /\ Head(queue) \notin visited)
        BY <1>6, <3>2 DEF Dispatch, TypeOK
      <3> QED BY <3>1, <3>2
    <2> QED BY <1>6, <2>1, <2>2 DEF Dispatch, TypeOK
  <1>7. CASE Receive
    <2>1. /\ Head(resultCh) \in [url : Target, res : Result]
          /\ Tail(resultCh) \in Seq([url : Target, res : Result])
      BY <1>7, TailElements DEF Receive, TypeOK
    <2>2. CASE Head(resultCh).res = "err"
      BY <1>7, <2>1, <2>2 DEF Receive, Abort, TypeOK
    <2>3. CASE Head(resultCh).res # "err"
      <3>1. Head(resultCh).url \in Target /\ Head(resultCh).res \in {"page", "cut", "aborted"}
        BY <2>1, <2>3 DEF Result
      <3>2. ProcessFetch(Head(resultCh).url, Head(resultCh).res)
        BY <1>7, <2>3 DEF Receive
      <3>3. /\ fetches' \in [Target -> {"none", "page", "cut", "aborted"}]
            /\ source' \in Target /\ todo' \in Seq(Link)
        BY <3>1, <3>2, ProcessFetchType
      <3>4. inFlight' \in Nat
        BY <1>7 DEF Receive, TypeOK
      <3> QED BY <1>7, <2>1, <2>3, <3>3, <3>4 DEF Receive, TypeOK, Source
    <2> QED BY <2>2, <2>3
  <1>8. CASE CloseTasks
    BY <1>8 DEF CloseTasks, TypeOK
  <1>9. CASE Wait
    BY <1>9 DEF Wait, TypeOK
  <1>10. ASSUME NEW w \in Worker, TakeTask(w) PROVE TypeOK'
    <2>1. Head(taskCh) \in Target /\ Tail(taskCh) \in Seq(Target)
      BY <1>10, TailElements DEF TakeTask, TypeOK
    <2> QED BY <1>10, <2>1 DEF TakeTask, TypeOK
  <1>11. ASSUME NEW w \in Worker, FinishTask(w) PROVE TypeOK'
    <2>1. PICK res \in Results(worker[w]) :
            resultCh' = Append(resultCh, [url |-> worker[w], res |-> res])
      BY <1>11 DEF FinishTask
    <2>2. [url |-> worker[w], res |-> res] \in [url : Target, res : Result]
      BY <1>11, <2>1 DEF FinishTask, Results, Result
    <2> QED BY <1>11, <2>1, <2>2 DEF FinishTask, TypeOK
  <1>12. ASSUME NEW w \in Worker, ExitWorker(w) PROVE TypeOK'
    BY <1>12 DEF ExitWorker, TypeOK
  <1>13. CASE CancelParent
    BY <1>13 DEF CancelParent, TypeOK
  <1>14. CASE UNCHANGED vars
    BY <1>14 DEF vars, TypeOK
  <1> QED
    BY <1>1, <1>2, <1>3, <1>4, <1>5, <1>6, <1>7, <1>8, <1>9, <1>10, <1>11, <1>12,
       <1>13, <1>14 DEF Next, Coordinator, WorkerStep, Returned

LEMMA TypeInit == Init => TypeOK
  <1> SUFFICES ASSUME Init PROVE TypeOK
    OBVIOUS
  <1>1. links \in [Link -> [Source -> Nat]] /\ skipped \in [Link -> [Source -> Nat]]
    BY DEF Init, NoLinks
  <1>2. source \in Source \cup {LocalRoot}
    BY TargetType DEF Init, Source
  <1>3. /\ fetches \in [Target -> {"none", "page", "cut", "aborted"}]
        /\ worker \in [Worker -> Target \cup {Idle, Off}]
    BY DEF Init
  <1>4. /\ todo \in Seq(Link) /\ queue \in Seq(Target) /\ taskCh \in Seq(Target)
        /\ resultCh \in Seq([url : Target, res : Result])
    BY DEF Init
  <1> QED BY <1>1, <1>2, <1>3, <1>4 DEF Init, TypeOK

(* A crawl of any site, with any number of workers and any budget, keeps   *)
(* its variables in their types; in particular what is queued, sent and    *)
(* fetched is a URL without a fragment.                                    *)
THEOREM TypeCorrect == Spec => []TypeOK
  BY TypeInit, TypeStep, PTL DEF Spec
-----------------------------------------------------------------------------
(* Phases of the run *)

(* A step of the pool leaves the coordinator alone. *)
LEMMA PoolStepFrame ==
    ASSUME NEW w \in Worker, WorkerStep(w)
    PROVE  UNCHANGED <<world, coordinator, closed, context>>
  BY DEF WorkerStep, TakeTask, FinishTask, ExitWorker

(* No worker steps before the pool is started. *)
LEMMA PoolRuns ==
    ASSUME Phases, TypeOK, NEW w \in Worker, WorkerStep(w)
    PROVE  pc \notin {"entry", "sitemap", "localRoot", "start"}
  BY TargetType, NameAssumption
     DEF Phases, TypeOK, WorkerStep, TakeTask, FinishTask, ExitWorker

LEMMA PhasesStep == TypeOK /\ Phases /\ [Next]_vars => Phases'
  <1> SUFFICES ASSUME TypeOK, Phases, [Next]_vars PROVE Phases'
    OBVIOUS
  <1> USE DEF coordinator, channels, context
  <1>1. CASE FetchEntry
    <2>1. PICK res \in Results(Entry) :
            IF res = "err" \/ "scope" \in world.setup
            THEN pc' = "failed" /\ UNCHANGED <<todo, source, visited, fetches>>
            ELSE /\ MarkVisited(Entry) /\ ProcessFetch(Entry, res) /\ pc' = "sitemap"
      BY <1>1 DEF FetchEntry
    <2>2. CASE res = "err" \/ "scope" \in world.setup
      BY <1>1, <2>1, <2>2 DEF FetchEntry, Phases
    <2>3. CASE ~(res = "err" \/ "scope" \in world.setup)
      <3>1. res \in {"page", "cut", "aborted"} /\ pc = "entry" /\ pc' = "sitemap"
        BY <1>1, <2>1, <2>3 DEF Results, FetchEntry
      <3>2. visited' = {Entry}
        BY <2>1, <2>3, <3>1 DEF MarkVisited, Phases
      <3>3. Fetched' = {Entry}
        <4>1. fetches' = [fetches EXCEPT ![Entry] = res] /\ Fetched = {}
          BY <2>1, <2>3, <3>1 DEF ProcessFetch, Phases
        <4> QED BY <3>1, <4>1, TargetType DEF Fetched, TypeOK
      <3>4. source' # LocalRoot
        BY <2>1, <2>3, TargetType, WorldType, NameAssumption DEF ProcessFetch, TypeOK
      <3> QED BY <1>1, <3>1, <3>2, <3>3, <3>4 DEF FetchEntry, Phases
    <2> QED BY <2>2, <2>3
  <1>2. CASE RecordLink
    <2>1. ToSet(todo') \subseteq ToSet(todo) /\ pc \notin {"entry", "closing", "failing", "done", "failed"}
      BY <1>2, TailElements DEF RecordLink, TypeOK, Phases
    <2> QED BY <1>2, <2>1 DEF RecordLink, Phases, Fetched
  <1>3. CASE AddSitemapSeeds
    BY <1>3, NameAssumption DEF AddSitemapSeeds, Phases, Fetched
  <1>4. CASE AddLocalRootSeeds
    BY <1>4 DEF AddLocalRootSeeds, Phases, Fetched
  <1>5. CASE StartWorkers
    BY <1>5 DEF StartWorkers, Phases
  <1>6. CASE Dispatch
    BY <1>6 DEF Dispatch, Phases
  <1>7. CASE Receive
    <2>1. CASE Head(resultCh).res = "err"
      BY <1>7, <2>1 DEF Receive, Abort, Phases
    <2>2. CASE Head(resultCh).res # "err"
      <3>1. Head(resultCh) \in [url : Target, res : Result]
        BY <1>7, TailElements DEF Receive, TypeOK
      <3>2. source' # LocalRoot
        BY <1>7, <2>2, <3>1, WorldType, NameAssumption DEF Receive, ProcessFetch, TypeOK
      <3> QED BY <1>7, <2>2, <3>2 DEF Receive, Phases
    <2> QED BY <2>1, <2>2
  <1>8. CASE CloseTasks
    BY <1>8 DEF CloseTasks, Phases
  <1>9. CASE Wait
    BY <1>9 DEF Wait, Phases
  <1>10. ASSUME NEW w \in Worker, WorkerStep(w) PROVE Phases'
    BY <1>10, PoolStepFrame, PoolRuns DEF Phases, Fetched
  <1>11. CASE CancelParent \/ UNCHANGED vars
    BY <1>11 DEF CancelParent, vars, Phases, Fetched
  <1> QED
    BY <1>1, <1>2, <1>3, <1>4, <1>5, <1>6, <1>7, <1>8, <1>9, <1>10, <1>11
       DEF Next, Coordinator, Returned

-----------------------------------------------------------------------------
(* Channels *)

(* The number of busy workers, when one takes a task or finishes it. *)
LEMMA BusyCount ==
    ASSUME NEW w \in Worker, TypeOK, TypeOK'
    PROVE  /\ IsFiniteSet(Busy) /\ Cardinality(Busy) \in Nat
           /\ Cardinality(Busy) <= Concurrency
           /\ w \in Busy => Cardinality(Busy) > 0
           /\ w \notin Busy /\ Busy' = Busy \cup {w} =>
                Cardinality(Busy') = Cardinality(Busy) + 1
           /\ w \in Busy /\ Busy' = Busy \ {w} =>
                Cardinality(Busy') = Cardinality(Busy) - 1
  <1>1. Busy \in SUBSET Worker
    BY DEF Busy
  <1>2. IsFiniteSet(Busy) /\ Cardinality(Busy) <= Concurrency
    BY <1>1, PoolAssumption, FS_Subset DEF Concurrency
  <1>3. Cardinality(Busy) \in Nat
    BY <1>2, FS_CardinalityType
  <1>4. w \in Busy => Cardinality(Busy) > 0
    BY <1>2, <1>3, FS_EmptySet
  <1> QED BY <1>2, <1>3, <1>4, FS_AddElement, FS_RemoveElement
(* The accounting of tasks: what is sent and not answered is what is in    *)
(* flight, which never exceeds the number of workers.                      *)
LEMMA ChannelsStep ==
    TypeOK /\ TypeOK' /\ Phases /\ ChannelsNeverBlock /\ [Next]_vars => ChannelsNeverBlock'
  <1> SUFFICES ASSUME TypeOK, TypeOK', Phases, ChannelsNeverBlock, [Next]_vars
               PROVE  ChannelsNeverBlock'
    OBVIOUS
  <1> DEFINE Count == Len(taskCh) + Cardinality(Busy) + Len(resultCh)
  <1>1. Concurrency \in Nat \ {0}
    BY PoolAssumption, FS_CardinalityType, FS_EmptySet DEF Concurrency
  <1>2. \E w \in Worker : TRUE
    BY PoolAssumption
  <1>3. /\ Cardinality(Busy) \in Nat /\ Len(taskCh) \in Nat /\ Len(resultCh) \in Nat
        /\ Cardinality(Busy') \in Nat /\ Len(taskCh') \in Nat /\ Len(resultCh') \in Nat
        /\ inFlight \in Nat /\ inFlight' \in Nat
    <2>1. IsFiniteSet(Worker) /\ Busy \in SUBSET Worker /\ Busy' \in SUBSET Worker
      BY PoolAssumption DEF Busy
    <2>2. Cardinality(Busy) \in Nat /\ Cardinality(Busy') \in Nat
      BY <2>1, FS_Subset, FS_CardinalityType
    <2>3. /\ taskCh \in Seq(Target) /\ taskCh' \in Seq(Target)
          /\ inFlight \in Nat /\ inFlight' \in Nat
      BY DEF TypeOK
    <2>4. /\ resultCh \in Seq([url : Target, res : Result])
          /\ resultCh' \in Seq([url : Target, res : Result])
      BY DEF TypeOK
    <2>5. Len(taskCh) \in Nat /\ Len(taskCh') \in Nat
      BY <2>3
    <2>6. Len(resultCh) \in Nat /\ Len(resultCh') \in Nat
      BY <2>4
    <2> QED BY <2>2, <2>3, <2>5, <2>6
  <1>4. Count = inFlight /\ inFlight <= Concurrency
    BY DEF ChannelsNeverBlock
  (* It is enough to keep the count: the rest of the property follows. *)
  <1>5. SUFFICES Count' = inFlight' /\ inFlight' <= Concurrency
    <2>1. ASSUME Count' = inFlight', inFlight' <= Concurrency
          PROVE  ChannelsNeverBlock'
      <3>1. ASSUME NEW w \in Busy' PROVE Len(resultCh') < Concurrency
        <4>1. Cardinality(Busy') > 0
          <5>1. IsFiniteSet(Busy')
            BY PoolAssumption, FS_Subset DEF Busy
          <5> QED BY <5>1, <1>3, <3>1, FS_EmptySet
        <4> QED BY <1>1, <1>3, <2>1, <4>1
      <3>2. CanDispatch' => Len(taskCh') < Concurrency
        BY <1>1, <1>3, <2>1 DEF CanDispatch
      <3> QED BY <2>1, <3>1, <3>2 DEF ChannelsNeverBlock, Concurrency
    <2> QED BY <2>1
  <1> USE DEF coordinator, channels, context
  <1>6. CASE StartWorkers
    <2>1. Busy = {} /\ Busy' = {}
      BY <1>6, NameAssumption, TargetType DEF StartWorkers, Busy, Phases
    <2> QED BY <1>4, <1>6, <2>1 DEF StartWorkers
  <1>7. CASE Dispatch
    <2>1. Busy' = Busy
      BY <1>7 DEF Dispatch, Busy
    <2>2. CASE Head(queue) \in queued /\ Head(queue) \notin visited
      <3>1. /\ taskCh' = Append(taskCh, Head(queue)) /\ inFlight' = inFlight + 1
            /\ resultCh' = resultCh /\ inFlight < Concurrency
        BY <1>7, <2>2 DEF Dispatch, CanDispatch
      <3>2. Len(taskCh') = Len(taskCh) + 1
        <4>1. Head(queue) \in Target /\ taskCh \in Seq(Target)
          BY <1>7, TailElements DEF Dispatch, CanDispatch, TypeOK
        <4> QED BY <3>1, <4>1, AppendElements
      <3> QED BY <1>1, <1>3, <1>4, <2>1, <3>1, <3>2
    <2>3. CASE ~(Head(queue) \in queued /\ Head(queue) \notin visited)
      BY <1>4, <1>7, <2>1, <2>3 DEF Dispatch
    <2> QED BY <2>2, <2>3
  <1>8. CASE Receive
    <2>1. Busy' = Busy /\ taskCh' = taskCh /\ inFlight' = inFlight - 1
      BY <1>8 DEF Receive, Busy
    <2>2. Len(resultCh') = Len(resultCh) - 1
      BY <1>8, TailElements DEF Receive, TypeOK
    <2> QED BY <1>1, <1>3, <1>4, <2>1, <2>2
  <1>9. ASSUME NEW w \in Worker, TakeTask(w) PROVE Count' = inFlight' /\ inFlight' <= Concurrency
    <2>1. Len(taskCh') = Len(taskCh) - 1 /\ Head(taskCh) \in Target
      BY <1>9, TailElements DEF TakeTask, TypeOK
    <2>2. w \notin Busy /\ Busy' = Busy \cup {w}
      BY <1>9, <2>1, TargetType DEF TakeTask, Busy, TypeOK
    <2>3. Cardinality(Busy') = Cardinality(Busy) + 1
      BY <2>2, BusyCount
    <2>4. resultCh' = resultCh /\ inFlight' = inFlight
      BY <1>9 DEF TakeTask
    <2> QED BY <1>3, <1>4, <2>1, <2>3, <2>4
  <1>10. ASSUME NEW w \in Worker, FinishTask(w) PROVE Count' = inFlight' /\ inFlight' <= Concurrency
    <2>1. Len(resultCh') = Len(resultCh) + 1
      BY <1>10, AppendElements DEF FinishTask, TypeOK
    <2>2. w \in Busy /\ Busy' = Busy \ {w}
      BY <1>10, TargetType DEF FinishTask, Busy, TypeOK
    <2>3. Cardinality(Busy') = Cardinality(Busy) - 1
      BY <2>2, BusyCount
    <2>4. taskCh' = taskCh /\ inFlight' = inFlight
      BY <1>10 DEF FinishTask
    <2> QED BY <1>3, <1>4, <2>1, <2>3, <2>4
  <1>11. ASSUME NEW w \in Worker, ExitWorker(w) PROVE Count' = inFlight' /\ inFlight' <= Concurrency
    <2>1. Busy' = Busy
      BY <1>11, TargetType, NameAssumption DEF ExitWorker, Busy, TypeOK
    <2> QED BY <1>4, <1>11, <2>1 DEF ExitWorker
  <1>12. CASE \/ FetchEntry \/ RecordLink \/ AddSitemapSeeds \/ AddLocalRootSeeds
              \/ CloseTasks \/ Wait \/ CancelParent \/ UNCHANGED vars
    <2>1. UNCHANGED <<taskCh, resultCh, worker, inFlight>>
      BY <1>12 DEF FetchEntry, RecordLink, AddSitemapSeeds, AddLocalRootSeeds,
                   CloseTasks, Wait, CancelParent, vars
    <2> QED BY <1>4, <2>1 DEF Busy
  <1> QED
    BY <1>6, <1>7, <1>8, <1>9, <1>10, <1>11, <1>12
       DEF Next, Coordinator, WorkerStep, Returned

(* Initially nothing is fetched and no goroutine runs. *)
LEMMA PoolInit == Init => TypeOK /\ Phases /\ ChannelsNeverBlock
  <1> SUFFICES ASSUME Init PROVE TypeOK /\ Phases /\ ChannelsNeverBlock
    OBVIOUS
  <1>1. TypeOK
    BY TypeInit
  <1>2. Phases
    BY TargetType, NameAssumption DEF Init, Phases, Fetched
  <1>3. ChannelsNeverBlock
    <2>1. Busy = {}
      BY TargetType DEF Init, Busy
    <2>2. Concurrency \in Nat \ {0}
      BY PoolAssumption, FS_CardinalityType, FS_EmptySet DEF Concurrency
    <2> QED BY <2>1, <2>2, FS_EmptySet DEF Init, ChannelsNeverBlock
  <1> QED BY <1>1, <1>2, <1>3

(* Whatever the site, the number of workers and the budget: no send of the *)
(* coordinator or of a worker ever blocks, so that waiting for the workers *)
(* while nobody reads the results, as the error path does, cannot hang.    *)
THEOREM SendsNeverBlock == Spec => []ChannelsNeverBlock
  <1>1. TypeOK /\ Phases /\ ChannelsNeverBlock /\ [Next]_vars
          => (TypeOK /\ Phases /\ ChannelsNeverBlock)'
    BY TypeStep, PhasesStep, ChannelsStep
  <1> QED BY <1>1, PoolInit, PTL DEF Spec

-----------------------------------------------------------------------------
(* The queue *)

LEMMA QueueStep ==
    TypeOK /\ Phases /\ QueueDiscipline /\ [Next]_vars => QueueDiscipline'
  <1> SUFFICES ASSUME TypeOK, Phases, QueueDiscipline, [Next]_vars
               PROVE  QueueDiscipline'
    OBVIOUS
  <1> USE DEF coordinator, channels, context
  <1>1. CASE FetchEntry
    BY <1>1 DEF FetchEntry, Phases, QueueDiscipline
  <1>2. CASE RecordLink
    <2> DEFINE u == FetchOf[Head(todo)]
    <2>1. u \in Target
      BY <1>2, TailElements, TargetType DEF RecordLink, TypeOK
    <2>2. visited' = visited /\ (AddToQueue(u) \/ UNCHANGED <<queue, queued>>)
      BY <1>2 DEF RecordLink, FetchURL
    <2>3. CASE UNCHANGED <<queue, queued>>
      BY <2>2, <2>3 DEF QueueDiscipline
    <2>4. CASE ~UNCHANGED <<queue, queued>>
      <3>1. /\ queue' = Append(queue, u) /\ queued' = queued \cup {u}
            /\ u \notin visited /\ u \notin queued
        BY <2>2, <2>4 DEF AddToQueue
      <3>2. queue \in Seq(Target)
        BY DEF TypeOK
      <3>3. ToSet(queue') = ToSet(queue) \cup {u}
        BY <2>1, <3>1, <3>2, AppendElements
      <3>4. IsInjective(queue')
        BY <2>1, <3>1, <3>2, AppendElements DEF QueueDiscipline
      <3> QED BY <2>2, <3>1, <3>3, <3>4 DEF QueueDiscipline
    <2> QED BY <2>3, <2>4
  <1>3. CASE Dispatch
    <2>1. queue \in Seq(Target) /\ queue # <<>>
      BY <1>3 DEF Dispatch, CanDispatch, TypeOK
    <2>2. /\ ToSet(queue) = ToSet(Tail(queue)) \cup {Head(queue)}
          /\ IsInjective(Tail(queue)) /\ Head(queue) \notin ToSet(Tail(queue))
      BY <2>1, TailElements DEF QueueDiscipline
    <2>3. visited' \subseteq visited \cup {Head(queue)}
      BY <1>3 DEF Dispatch, MarkVisited
    <2> QED BY <1>3, <2>2, <2>3 DEF Dispatch, QueueDiscipline
  <1>4. ASSUME NEW w \in Worker, WorkerStep(w) PROVE QueueDiscipline'
    BY <1>4, PoolStepFrame DEF QueueDiscipline
  <1>5. CASE \/ AddSitemapSeeds \/ AddLocalRootSeeds \/ StartWorkers \/ Receive
             \/ CloseTasks \/ Wait \/ CancelParent \/ UNCHANGED vars
    BY <1>5 DEF AddSitemapSeeds, AddLocalRootSeeds, StartWorkers, Receive, CloseTasks,
                Wait, CancelParent, vars, QueueDiscipline
  <1> QED
    BY <1>1, <1>2, <1>3, <1>4, <1>5 DEF Next, Coordinator, Returned

(* The queue never holds a target twice, nor one that was handed out, and  *)
(* agrees with the set of queued targets: the dispatch loop never pops a   *)
(* stale or a visited target.                                              *)
THEOREM QueueIsDisciplined == Spec => []QueueDiscipline
  <1>1. Init => QueueDiscipline
    BY DEF Init, QueueDiscipline, ToSet, IsInjective
  <1>2. /\ TypeOK /\ Phases /\ QueueDiscipline /\ [Next]_vars
             => (TypeOK /\ Phases /\ QueueDiscipline)'
    BY TypeStep, PhasesStep, QueueStep
  <1> QED BY <1>1, <1>2, PoolInit, PTL DEF Spec

-----------------------------------------------------------------------------
(* The budget *)

LEMMA BudgetStep ==
    /\ TypeOK /\ TypeOK' /\ Phases /\ QueueDiscipline /\ BudgetKept
    /\ IsFiniteSet(visited) /\ [Next]_vars
    => BudgetKept' /\ IsFiniteSet(visited')
  <1> SUFFICES ASSUME TypeOK, TypeOK', Phases, QueueDiscipline, BudgetKept,
                      IsFiniteSet(visited), [Next]_vars
               PROVE  BudgetKept' /\ IsFiniteSet(visited')
    OBVIOUS
  <1> USE DEF coordinator, channels, context
  <1>1. CASE FetchEntry
    <2>1. visited' = visited \/ visited' = visited \cup {Entry}
      BY <1>1 DEF FetchEntry, MarkVisited
    <2> QED BY <1>1, <2>1, FS_AddElement DEF FetchEntry, BudgetKept
  <1>2. CASE StartWorkers
    <2>1. visited' = {Entry} /\ attempted' = 1 /\ pc' = "loop"
      BY <1>2 DEF StartWorkers, Phases
    <2>2. IsFiniteSet({Entry}) /\ Cardinality({Entry}) = 1
      BY FS_Singleton
    <2>3. 1 <= MaxPages
      BY PoolAssumption
    <2> QED BY <2>1, <2>2, <2>3 DEF BudgetKept
  <1>3. CASE Dispatch
    <2>1. /\ pc = "loop" /\ pc' = "loop" /\ attempted < MaxPages
          /\ attempted = Cardinality(visited)
      BY <1>3 DEF Dispatch, CanDispatch, BudgetKept
    <2>2. CASE Head(queue) \in queued /\ Head(queue) \notin visited
      <3>1. visited' = visited \cup {Head(queue)} /\ attempted' = attempted + 1
        BY <1>3, <2>2 DEF Dispatch, MarkVisited
      <3>2. attempted \in Nat /\ MaxPages \in Nat
        BY PoolAssumption DEF TypeOK
      <3>3. IsFiniteSet(visited') /\ Cardinality(visited') = Cardinality(visited) + 1
        BY <2>2, <3>1, FS_AddElement
      <3>4. attempted' = Cardinality(visited') /\ attempted' <= MaxPages
        BY <2>1, <3>1, <3>2, <3>3
      <3> QED BY <3>3, <3>4 DEF BudgetKept
    <2>3. CASE ~(Head(queue) \in queued /\ Head(queue) \notin visited)
      BY <1>3, <2>3 DEF Dispatch, BudgetKept
    <2> QED BY <2>2, <2>3
  <1>4. ASSUME NEW w \in Worker, WorkerStep(w) PROVE BudgetKept' /\ IsFiniteSet(visited')
    BY <1>4, PoolStepFrame DEF BudgetKept
  <1>5. CASE \/ RecordLink \/ AddSitemapSeeds \/ AddLocalRootSeeds \/ Receive
             \/ CloseTasks \/ Wait \/ CancelParent \/ UNCHANGED vars
    BY <1>5 DEF RecordLink, AddSitemapSeeds, AddLocalRootSeeds, Receive, Abort,
                CloseTasks, Wait, CancelParent, vars, BudgetKept
  <1> QED
    BY <1>1, <1>2, <1>3, <1>4, <1>5 DEF Next, Coordinator, Returned

(* A crawl starts a fetch for each visited target, and for at most         *)
(* MaxPages of them, with any number of workers.                           *)
THEOREM BudgetIsKept == Spec => []BudgetKept
  <1> DEFINE Inv == /\ TypeOK /\ Phases /\ QueueDiscipline /\ BudgetKept
                    /\ IsFiniteSet(visited)
  <1>1. Init => Inv
    <2>1. Init => QueueDiscipline
      BY DEF Init, QueueDiscipline, ToSet, IsInjective
    <2>2. Init => BudgetKept /\ IsFiniteSet(visited)
      BY FS_EmptySet DEF Init, BudgetKept
    <2> QED BY <2>1, <2>2, PoolInit
  <1>2. Inv /\ [Next]_vars => Inv'
    BY TypeStep, PhasesStep, QueueStep, BudgetStep
  <1>3. Inv => BudgetKept
    OBVIOUS
  <1> QED BY <1>1, <1>2, <1>3, PTL DEF Spec
-----------------------------------------------------------------------------
(* Custody: where a target that was handed out is *)

(* The targets of the results, when one is sent or received. *)
LEMMA AnsweredType == TypeOK => Answered \in Seq(Target) /\ Len(Answered) = Len(resultCh)
  <1> SUFFICES ASSUME TypeOK PROVE Answered \in Seq(Target) /\ Len(Answered) = Len(resultCh)
    OBVIOUS
  <1> DEFINE R == [url : Target, res : Result]
  <1>1. resultCh \in Seq(R)
    BY DEF TypeOK
  <1>2. \A r \in R : r.url \in Target
    OBVIOUS
  <1> HIDE DEF R
  <1>3. Len(resultCh) \in Nat /\ \A i \in 1..Len(resultCh) : resultCh[i] \in R
    BY <1>1
  <1>4. Answered \in [1..Len(resultCh) -> Target]
    BY <1>2, <1>3 DEF Answered
  <1> QED BY <1>3, <1>4

LEMMA AnsweredAppend ==
    ASSUME TypeOK, NEW r \in [url : Target, res : Result], resultCh' = Append(resultCh, r)
    PROVE  /\ ToSet(Answered') = ToSet(Answered) \cup {r.url}
           /\ IsInjective(Answered) /\ r.url \notin ToSet(Answered) => IsInjective(Answered')
  <1>1. resultCh \in Seq([url : Target, res : Result]) /\ Answered \in Seq(Target)
    BY AnsweredType DEF TypeOK
  <1>2. Answered' = Append(Answered, r.url)
    BY <1>1 DEF Answered
  <1>3. r.url \in Target
    OBVIOUS
  <1> QED BY <1>1, <1>2, <1>3, AppendElements

LEMMA AnsweredTail ==
    ASSUME TypeOK, resultCh # <<>>, resultCh' = Tail(resultCh)
    PROVE  /\ Head(resultCh) \in [url : Target, res : Result]
           /\ ToSet(Answered) = ToSet(Answered') \cup {Head(resultCh).url}
           /\ IsInjective(Answered) =>
                IsInjective(Answered') /\ Head(resultCh).url \notin ToSet(Answered')
  <1>1. resultCh \in Seq([url : Target, res : Result]) /\ Answered \in Seq(Target)
    BY AnsweredType DEF TypeOK
  <1>2. Answered # <<>> /\ Answered' = Tail(Answered) /\ Head(Answered) = Head(resultCh).url
    BY <1>1 DEF Answered
  <1>3. Head(resultCh) \in [url : Target, res : Result]
    BY <1>1, TailElements
  <1> QED BY <1>1, <1>2, <1>3, TailElements

Held == {worker[w] : w \in Busy}

Custody == FetchedOnce /\ HandedOut

LEMMA CustodyStep ==
    /\ TypeOK /\ TypeOK' /\ Phases /\ Phases' /\ QueueDiscipline /\ Custody /\ [Next]_vars
    => Custody'
  <1> SUFFICES ASSUME TypeOK, TypeOK', Phases, Phases', QueueDiscipline, Custody, [Next]_vars
               PROVE  Custody'
    OBVIOUS
  <1> USE DEF coordinator, channels, context
  <1>0. /\ IsInjective(taskCh) /\ IsInjective(Answered)
        /\ \A v, w \in Busy : worker[v] = worker[w] => v = w
        /\ ToSet(taskCh) \cap ToSet(Answered) = {}
        /\ Held \cap (ToSet(taskCh) \cup ToSet(Answered) \cup Fetched) = {}
        /\ Fetched \cap (ToSet(taskCh) \cup ToSet(Answered)) = {}
        /\ ToSet(taskCh) \cup Held \cup ToSet(Answered) \cup Fetched \subseteq visited
    BY DEF Custody, FetchedOnce, HandedOut, InHand, Held
  <1>1. CASE FetchEntry
    <2>1. /\ UNCHANGED <<taskCh, resultCh, worker>> /\ pc = "entry"
          /\ pc' \in {"sitemap", "failed"}
      BY <1>1 DEF FetchEntry
    <2>2. taskCh = <<>> /\ resultCh = <<>> /\ Busy = {}
      BY <2>1, TargetType DEF Phases, Busy
    <2>3. ToSet(taskCh) = {} /\ ToSet(Answered) = {} /\ Busy' = {}
      BY <2>1, <2>2 DEF ToSet, Answered, Busy
    <2>4. UNCHANGED <<taskCh, Answered>>
      BY <2>1 DEF Answered
    <2>5. FetchedOnce'
      BY <1>0, <2>3, <2>4 DEF FetchedOnce
    <2>6. Fetched' \subseteq visited' /\ pc' = "sitemap" => visited' = Fetched' /\ Fetched' = {Entry}
      BY DEF Phases
    <2>7. pc' = "failed" => Fetched' \subseteq visited'
      <3>1. pc' = "failed" => UNCHANGED <<visited, fetches>>
        BY <1>1 DEF FetchEntry
      <3> QED BY <2>1, <3>1 DEF Phases, Fetched
    <2>8. InHand' = {}
      BY <2>3, <2>4 DEF InHand
    <2>9. pc' = "sitemap" => visited' = {Entry} /\ Fetched' = {Entry}
      BY DEF Phases
    <2> QED BY <2>1, <2>5, <2>7, <2>8, <2>9 DEF Custody, HandedOut
  <1>2. CASE Dispatch
    <2> DEFINE u == Head(queue)
    <2>1. UNCHANGED <<Answered, Busy, Held, Fetched, pc>>
      BY <1>2 DEF Dispatch, Answered, Busy, Held, Fetched
    <2>2. CASE u \in queued /\ u \notin visited
      <3>1. visited' = visited \cup {u} /\ taskCh' = Append(taskCh, u) /\ worker' = worker
        BY <1>2, <2>2 DEF Dispatch, MarkVisited
      <3>2. taskCh \in Seq(Target) /\ u \in Target
        BY <2>2 DEF TypeOK
      <3>3. ToSet(taskCh') = ToSet(taskCh) \cup {u}
        BY <3>1, <3>2, AppendElements
      <3>4. u \notin ToSet(taskCh) \cup Held \cup ToSet(Answered) \cup Fetched
        BY <1>0, <2>2
      <3>5. IsInjective(taskCh')
        BY <1>0, <3>1, <3>2, <3>4, AppendElements
      <3>6. FetchedOnce'
        BY <1>0, <2>1, <3>1, <3>3, <3>4, <3>5 DEF FetchedOnce, Held
      <3>7. InHand' = InHand \cup {u}
        BY <2>1, <3>1, <3>3 DEF InHand, Held
      <3> QED BY <2>1, <3>1, <3>6, <3>7 DEF Custody, HandedOut
    <2>3. CASE ~(u \in queued /\ u \notin visited)
      BY <1>2, <2>1, <2>3 DEF Dispatch, Custody, FetchedOnce, HandedOut, InHand, Held
    <2> QED BY <2>2, <2>3
  <1>3. CASE Receive
    <2> DEFINE u == Head(resultCh).url
    <2>1. UNCHANGED <<taskCh, Busy, Held, visited, worker>> /\ pc = "loop"
      BY <1>3 DEF Receive, Busy, Held
    <2>2. /\ u \in Target /\ ToSet(Answered) = ToSet(Answered') \cup {u}
          /\ IsInjective(Answered') /\ u \notin ToSet(Answered')
      BY <1>0, <1>3, AnsweredTail DEF Receive
    <2>3. CASE Head(resultCh).res = "err"
      <3>1. Fetched' = Fetched /\ pc' = "failing"
        BY <1>3, <2>3 DEF Receive, Abort, Fetched
      <3>2. FetchedOnce'
        BY <1>0, <2>1, <2>2, <3>1 DEF FetchedOnce, Held
      <3> QED BY <2>1, <2>2, <3>1, <3>2 DEF Custody, HandedOut, InHand
    <2>4. CASE Head(resultCh).res # "err"
      <3>1. Fetched' = Fetched \cup {u} /\ pc' = "loop"
        <4>1. Head(resultCh).res \in {"page", "cut", "aborted"}
          BY <1>3, <2>4, AnsweredTail DEF Receive, Result
        <4>2. fetches' = [fetches EXCEPT ![u] = Head(resultCh).res] /\ pc' = pc
          BY <1>3, <2>4 DEF Receive, ProcessFetch
        <4> QED BY <2>1, <2>2, <4>1, <4>2 DEF Fetched, TypeOK
      <3>2. u \notin ToSet(taskCh) \cup Held \cup ToSet(Answered') \cup Fetched
        BY <1>0, <2>2
      <3>3. FetchedOnce'
        BY <1>0, <2>1, <2>2, <3>1, <3>2 DEF FetchedOnce, Held
      <3> QED BY <2>1, <2>2, <3>1, <3>3 DEF Custody, HandedOut, InHand
    <2> QED BY <2>3, <2>4
  <1>4. ASSUME NEW w \in Worker, TakeTask(w) PROVE Custody'
    <2> DEFINE u == Head(taskCh)
    <2>1. /\ ToSet(taskCh) = ToSet(taskCh') \cup {u} /\ u \in Target
          /\ IsInjective(taskCh') /\ u \notin ToSet(taskCh')
      BY <1>0, <1>4, TailElements DEF TakeTask, TypeOK
    <2>2. /\ worker' = [worker EXCEPT ![w] = u] /\ w \notin Busy
          /\ UNCHANGED <<Answered, Fetched, visited, pc>>
      BY <1>4, TargetType DEF TakeTask, Busy, Answered, Fetched
    <2>3. Busy' = Busy \cup {w} /\ worker'[w] = u /\ \A v \in Busy : worker'[v] = worker[v]
      BY <2>1, <2>2 DEF Busy, TypeOK
    <2>4. \A v \in Busy : worker[v] # u
      BY <1>0, <2>1 DEF Held
    <2>5. FetchedOnce'
      BY <1>0, <2>1, <2>2, <2>3, <2>4 DEF FetchedOnce, Held
    <2>6. Held' = Held \cup {u}
      BY <2>2, <2>3 DEF Held
    <2>7. InHand' = InHand
      BY <2>1, <2>2, <2>6 DEF InHand, Held
    <2> QED BY <2>2, <2>5, <2>7 DEF Custody, HandedOut
  <1>5. ASSUME NEW w \in Worker, FinishTask(w) PROVE Custody'
    <2> DEFINE u == worker[w]
    <2>1. PICK res \in Results(u) : resultCh' = Append(resultCh, [url |-> u, res |-> res])
      BY <1>5 DEF FinishTask
    <2>2. u \in Target /\ w \in Busy /\ [url |-> u, res |-> res] \in [url : Target, res : Result]
      BY <1>5, <2>1 DEF FinishTask, Results, Result, Busy
    <2>3. u \in Held
      BY <2>2 DEF Held
    <2>4. /\ ToSet(Answered') = ToSet(Answered) \cup {u}
          /\ IsInjective(Answered')
      <3>1. u \notin ToSet(Answered)
        BY <1>0, <2>3
      <3> DEFINE r == [url |-> u, res |-> res]
      <3>2. r.url = u
        OBVIOUS
      <3> HIDE DEF r
      <3>3. r \in [url : Target, res : Result] /\ resultCh' = Append(resultCh, r)
        BY <2>1, <2>2 DEF r
      <3> QED BY <1>0, <3>1, <3>2, <3>3, AnsweredAppend
    <2>5. Busy' = Busy \ {w} /\ \A v \in Busy' : worker'[v] = worker[v]
      BY <1>5, TargetType DEF FinishTask, Busy, TypeOK
    <2>6. UNCHANGED <<taskCh, Fetched, visited, pc>>
      BY <1>5 DEF FinishTask, Fetched
    <2>7. Held' = Held \ {u}
      BY <1>0, <2>2, <2>5 DEF Held
    <2>8. FetchedOnce'
      BY <1>0, <2>3, <2>4, <2>5, <2>6, <2>7 DEF FetchedOnce, Held
    <2>9. InHand' = InHand
      BY <2>3, <2>4, <2>6, <2>7 DEF InHand, Held
    <2> QED BY <2>6, <2>8, <2>9 DEF Custody, HandedOut
  <1>6. ASSUME NEW w \in Worker, ExitWorker(w) PROVE Custody'
    <2>1. Busy' = Busy /\ \A v \in Busy : worker'[v] = worker[v]
      BY <1>6, TargetType, NameAssumption DEF ExitWorker, Busy, TypeOK
    <2>2. UNCHANGED <<taskCh, Answered, Fetched, visited, pc>>
      BY <1>6 DEF ExitWorker, Answered, Fetched
    <2> QED BY <2>1, <2>2 DEF Custody, FetchedOnce, HandedOut, InHand
  <1>7. CASE StartWorkers
    <2>1. Busy = {} /\ Busy' = {}
      BY <1>7, NameAssumption, TargetType DEF StartWorkers, Busy, Phases
    <2>2. UNCHANGED <<taskCh, Answered, Fetched, visited>> /\ pc = "start" /\ pc' = "loop"
      BY <1>7 DEF StartWorkers, Answered, Fetched
    <2> QED BY <2>1, <2>2 DEF Custody, FetchedOnce, HandedOut, InHand
  <1>8. CASE \/ RecordLink \/ AddSitemapSeeds \/ AddLocalRootSeeds \/ CloseTasks
             \/ Wait \/ CancelParent \/ UNCHANGED vars
    <2>1. UNCHANGED <<taskCh, resultCh, worker, fetches, visited>>
      BY <1>8 DEF RecordLink, AddSitemapSeeds, AddLocalRootSeeds, CloseTasks, Wait,
                  CancelParent, vars
    <2>2. /\ pc' \notin {"failing", "failed"} => pc \notin {"failing", "failed"}
          /\ pc' \notin {"entry", "failed"} => pc \notin {"entry", "failed"}
      BY <1>8 DEF RecordLink, AddSitemapSeeds, AddLocalRootSeeds, CloseTasks, Wait,
                  CancelParent, vars
    <2>3. FetchedOnce'
      BY <2>1 DEF Custody, FetchedOnce, Busy, Answered, Fetched
    <2>4. HandedOut'
      BY <2>1, <2>2 DEF Custody, HandedOut, InHand, Busy, Answered, Fetched
    <2> QED BY <2>3, <2>4 DEF Custody
  <1> QED
    BY <1>1, <1>2, <1>3, <1>4, <1>5, <1>6, <1>7, <1>8
       DEF Next, Coordinator, WorkerStep, Returned

LEMMA CustodyInit == Init => QueueDiscipline /\ Custody
  <1> SUFFICES ASSUME Init PROVE QueueDiscipline /\ Custody
    OBVIOUS
  <1>1. QueueDiscipline
    BY DEF Init, QueueDiscipline, ToSet, IsInjective
  <1>2. Busy = {} /\ ToSet(taskCh) = {} /\ ToSet(Answered) = {} /\ Fetched = {}
    BY TargetType DEF Init, Busy, ToSet, Answered, Fetched
  <1>3. IsInjective(taskCh) /\ IsInjective(Answered)
    BY DEF Init, IsInjective, Answered
  <1> QED BY <1>1, <1>2, <1>3 DEF Init, Custody, FetchedOnce, HandedOut, InHand

(* The inductive invariant of the rest of this module. *)
Safe == TypeOK /\ Phases /\ ChannelsNeverBlock /\ QueueDiscipline /\ Custody

LEMMA SafeStep == Safe /\ [Next]_vars => Safe'
  BY TypeStep, PhasesStep, ChannelsStep, QueueStep, CustodyStep DEF Safe

LEMMA SafeInit == Init => Safe
  BY PoolInit, CustodyInit DEF Safe

LEMMA AlwaysSafe == Spec => []Safe
  BY SafeInit, SafeStep, PTL DEF Spec

(* "Fetches each normalized target URL once": with any number of workers   *)
(* and any order of answers, no target is handed out or recorded twice.    *)
THEOREM EachTargetFetchedOnce == Spec => []FetchedOnce
  <1>1. Safe => FetchedOnce
    BY DEF Safe, Custody
  <1> QED BY <1>1, AlwaysSafe, PTL

(* The strengthening that makes these invariants inductive. *)
THEOREM StrengtheningHolds == Spec => []Strengthening
  <1>1. Safe => Strengthening
    BY DEF Safe, Custody, Strengthening
  <1> QED BY <1>1, AlwaysSafe, PTL
-----------------------------------------------------------------------------
(* Nothing lost, nothing invented *)

(* The target the dispatch loop pops is queued and was not handed out. *)
LEMMA HeadIsFresh ==
    ASSUME Safe, queue # <<>>
    PROVE  /\ Head(queue) \in queued /\ Head(queue) \notin visited
           /\ Head(queue) \in Target
  <1>1. queue \in Seq(Target) /\ ToSet(queue) = queued /\ queued \cap visited = {}
    BY DEF Safe, TypeOK, QueueDiscipline
  <1> QED BY <1>1, TailElements

(* Queueing a target: it is then handed out or queued, and nothing else    *)
(* changes.                                                                *)
LEMMA QueueGrowth ==
    ASSUME NEW u, AddToQueue(u)
    PROVE  visited \cup queued' = visited \cup queued \cup {u}
  BY DEF AddToQueue

LEMMA NothingLostStep == Safe /\ NothingLost /\ [Next]_vars => NothingLost'
  <1> SUFFICES ASSUME Safe, NothingLost, [Next]_vars PROVE NothingLost'
    OBVIOUS
  <1> USE DEF coordinator, channels, context
  <1>0. TypeOK
    BY DEF Safe
  <1>1. CASE FetchEntry
    <2>1. \A l \in Link : ~Recorded(l)
      BY <1>1 DEF FetchEntry, Safe, Phases, NoLinks, Recorded
    <2>2. UNCHANGED <<links, queued, world>> /\ queued = {} /\ visited = {}
      BY <1>1 DEF FetchEntry, Safe, Phases
    <2>3. visited' \subseteq {Entry}
      BY <1>1, <2>2 DEF FetchEntry, MarkVisited
    <2> QED BY <2>1, <2>2, <2>3 DEF NothingLost, Recorded
  <1>2. CASE RecordLink
    <2> DEFINE l == Head(todo)
               u == FetchOf[Head(todo)]
    <2>1. l \in Link /\ l \in ToSet(todo) /\ visited' = visited /\ world' = world
      BY <1>0, <1>2, TailElements DEF RecordLink, TypeOK
    <2>2. CASE ~Allowed(l)
      <3>1. UNCHANGED <<links, queued>>
        BY <1>2, <2>2 DEF RecordLink
      <3> QED BY <2>1, <3>1 DEF NothingLost, Recorded
    <2>3. CASE Allowed(l)
      <3>1. visited' \cup queued' = visited \cup queued \cup {u}
        BY <1>2, <2>1, <2>3, QueueGrowth DEF RecordLink, FetchURL
      <3>2. CASE source = LocalRoot
        <4>1. links' = links
          BY <1>2, <3>2 DEF RecordLink
        <4>2. l \in ToSet(world.localRoot)
          BY <2>1, <3>2 DEF Safe, Phases
        <4>3. u = l
          <5>1. world.localRoot \in Seq(Target)
            BY <1>0, WorldType DEF TypeOK
          <5>2. l \in Target
            BY <4>2, <5>1 DEF ToSet
          <5> QED BY <5>2, TargetType
        <4> QED BY <2>1, <3>1, <4>1, <4>2, <4>3 DEF NothingLost, Recorded
      <3>3. CASE source # LocalRoot
        <4>1. /\ links' = [links EXCEPT ![l][source] = @ + 1]
              /\ source \in Source /\ links \in [Link -> [Source -> Nat]]
          BY <1>0, <1>2, <2>3, <3>3 DEF RecordLink, CountOccurrence, TypeOK
        <4>2. \A k \in Link : k # l => links'[k] = links[k]
          BY <2>1, <4>1
        <4>3. links'[l][source] > 0 /\ \A s \in Source : links'[l][s] >= links[l][s]
          BY <2>1, <4>1
        <4>4. \A k \in Link : Recorded(k)' <=> Recorded(k) \/ k = l
          <5> SUFFICES ASSUME NEW k \in Link PROVE Recorded(k)' <=> Recorded(k) \/ k = l
            OBVIOUS
          <5>1. CASE k = l
            <6>1. links'[k][source] > 0
              BY <4>3, <5>1
            <6> QED BY <4>1, <5>1, <6>1 DEF Recorded
          <5>2. CASE k # l
            BY <4>2, <5>2 DEF Recorded
          <5> QED BY <5>1, <5>2
        <4> QED BY <2>1, <3>1, <4>4 DEF NothingLost
      <3> QED BY <3>2, <3>3
    <2> QED BY <2>2, <2>3
  <1>3. CASE Dispatch
    <2>1. Head(queue) \in queued /\ Head(queue) \notin visited
      BY <1>3, HeadIsFresh DEF Dispatch, CanDispatch
    <2>2. /\ visited' \cup queued' = visited \cup queued
          /\ links' = links /\ world' = world
      BY <1>3, <2>1 DEF Dispatch, MarkVisited
    <2> QED BY <2>2 DEF NothingLost, Recorded
  <1>4. ASSUME NEW w \in Worker, WorkerStep(w) PROVE NothingLost'
    BY <1>4, PoolStepFrame DEF NothingLost, Recorded
  <1>5. CASE \/ AddSitemapSeeds \/ AddLocalRootSeeds \/ StartWorkers \/ Receive
             \/ CloseTasks \/ Wait \/ CancelParent \/ UNCHANGED vars
    <2>1. UNCHANGED <<links, world, visited, queued>>
      BY <1>5 DEF AddSitemapSeeds, AddLocalRootSeeds, StartWorkers, Receive, CloseTasks,
                  Wait, CancelParent, vars
    <2> QED BY <2>1 DEF NothingLost, Recorded
  <1> QED
    BY <1>1, <1>2, <1>3, <1>4, <1>5 DEF Next, Coordinator, Returned

LEMMA NothingLostInit == Init => NothingLost
  BY DEF Init, NothingLost, Recorded, NoLinks

(* Every recorded link has its target queued or handed out, and nothing is *)
(* queued or handed out that no recorded link and no file of the local     *)
(* root names.                                                             *)
THEOREM NoLinkIsLost == Spec => []NothingLost
  <1>1. Safe /\ NothingLost /\ [Next]_vars => (Safe /\ NothingLost)'
    BY SafeStep, NothingLostStep
  <1> QED BY <1>1, SafeInit, NothingLostInit, PTL DEF Spec

(* When the loop was left without an error nothing is in hand. *)
LEMMA DoneIsDrained ==
    ASSUME Safe, pc \in {"closing", "done"}
    PROVE  InHand = {} /\ Fetched = visited
  <1>1. inFlight = 0 /\ TypeOK
    BY DEF Safe, Phases
  <1>2. /\ Cardinality(Busy) \in Nat /\ IsFiniteSet(Busy)
        /\ Len(taskCh) \in Nat /\ Len(resultCh) \in Nat
    <2>1. IsFiniteSet(Busy)
      BY PoolAssumption, FS_Subset DEF Busy
    <2> QED BY <1>1, <2>1, FS_CardinalityType DEF TypeOK
  <1>3. Len(taskCh) = 0 /\ Cardinality(Busy) = 0 /\ Len(resultCh) = 0
    BY <1>1, <1>2 DEF Safe, ChannelsNeverBlock
  <1>4. Busy = {}
    BY <1>2, <1>3, FS_EmptySet
  <1>5. ToSet(taskCh) = {} /\ ToSet(Answered) = {}
    <2>1. taskCh \in Seq(Target) /\ Answered \in Seq(Target) /\ Len(Answered) = 0
      BY <1>1, <1>3, AnsweredType DEF TypeOK
    <2> QED BY <1>3, <2>1 DEF ToSet
  <1>6. InHand = {}
    BY <1>4, <1>5 DEF InHand
  <1> QED BY <1>6 DEF Safe, Custody, HandedOut

(* A crawl that ends without being truncated has emptied its queue. *)
LEMMA QueueSpent ==
    ASSUME Safe, pc = "done", ~Truncated
    PROVE  queued = {}
  <1>1. queue = <<>> \/ MaxPages <= attempted
    BY DEF Safe, Phases
  <1>2. attempted \in Nat /\ MaxPages \in Nat
    BY PoolAssumption DEF Safe, TypeOK
  <1>3. queue = <<>>
    BY <1>1, <1>2 DEF Truncated
  <1> QED BY <1>3 DEF Safe, QueueDiscipline, ToSet

(* The report of a finished crawl has a fetch for every target handed out, *)
(* and unless it says "truncated" the target of every link in it was       *)
(* fetched: --fail-on-truncated misses no unchecked link.                  *)
THEOREM ReportIsComplete == Spec => []ReportComplete
  <1>1. Safe /\ NothingLost => ReportComplete
    <2> SUFFICES ASSUME Safe, NothingLost, pc = "done"
                 PROVE  /\ Fetched = visited
                        /\ ~Truncated => \A l \in Link : Recorded(l) => FetchOf[l] \in Fetched
      BY DEF ReportComplete
    <2>1. Fetched = visited
      BY DoneIsDrained
    <2>2. ASSUME ~Truncated PROVE queued = {}
      BY <2>2, QueueSpent
    <2> QED BY <2>1, <2>2 DEF NothingLost
  <1> QED BY <1>1, NoLinkIsLost, AlwaysSafe, PTL

-----------------------------------------------------------------------------
(* Scope *)

LEMMA FetchesInScopeStep == Safe /\ FetchesInScope /\ [Next]_vars => FetchesInScope'
  <1> SUFFICES ASSUME Safe, FetchesInScope, [Next]_vars PROVE FetchesInScope'
    OBVIOUS
  <1> USE DEF coordinator, channels, context
  <1>0. TypeOK
    BY DEF Safe
  <1>1. CASE FetchEntry
    <2>1. queued' = {} /\ visited' \subseteq {Entry}
      BY <1>1 DEF FetchEntry, MarkVisited, Safe, Phases
    <2> QED BY <2>1 DEF FetchesInScope
  <1>2. CASE RecordLink
    <2> DEFINE l == Head(todo)
    <2>1. UNCHANGED <<visited, fetches, world>>
      BY <1>2 DEF RecordLink
    <2>2. CASE ~Allowed(l)
      BY <1>2, <2>1, <2>2 DEF RecordLink, FetchesInScope
    <2>3. CASE Allowed(l)
      <3>1. queued' \subseteq queued \cup {FetchOf[l]}
        BY <1>2, <2>3 DEF RecordLink, FetchURL, AddToQueue
      <3>2. fetches[Entry] \in {"page", "cut"} => FetchOf[l] \in InScope[world.redirect[Entry]]
        BY <2>3 DEF Allowed, Scope
      <3> QED BY <2>1, <3>1, <3>2 DEF FetchesInScope
    <2> QED BY <2>2, <2>3
  <1>3. CASE Dispatch
    <2>1. /\ visited' \cup queued' \subseteq visited \cup queued
          /\ UNCHANGED <<fetches, world>>
      BY <1>3, HeadIsFresh DEF Dispatch, CanDispatch, MarkVisited
    <2>2. (visited' \ {Entry}) \cup queued' \subseteq (visited \ {Entry}) \cup queued
      BY <1>3, <2>1 DEF Dispatch, MarkVisited
    <2> QED BY <2>1, <2>2 DEF FetchesInScope
  <1>4. CASE Receive
    <2>1. fetches'[Entry] = fetches[Entry]
      <3>1. CASE Head(resultCh).res = "err"
        BY <1>4, <3>1 DEF Receive
      <3>2. CASE Head(resultCh).res # "err"
        <4>1. Head(resultCh).url \in ToSet(Answered)
          BY <1>0, <1>4, AnsweredTail DEF Receive
        <4>2. Entry \in Fetched /\ Fetched \cap ToSet(Answered) = {}
          BY <1>4 DEF Receive, Safe, Custody, FetchedOnce, HandedOut
        <4>3. fetches' = [fetches EXCEPT ![Head(resultCh).url] = Head(resultCh).res]
          BY <1>4, <3>2 DEF Receive, ProcessFetch
        <4> QED BY <1>0, <4>1, <4>2, <4>3, TargetType DEF TypeOK
      <3> QED BY <3>1, <3>2
    <2>2. UNCHANGED <<visited, queued, world>>
      BY <1>4 DEF Receive
    <2> QED BY <2>1, <2>2 DEF FetchesInScope
  <1>5. ASSUME NEW w \in Worker, WorkerStep(w) PROVE FetchesInScope'
    BY <1>5, PoolStepFrame DEF FetchesInScope
  <1>6. CASE \/ AddSitemapSeeds \/ AddLocalRootSeeds \/ StartWorkers \/ CloseTasks
             \/ Wait \/ CancelParent \/ UNCHANGED vars
    <2>1. UNCHANGED <<fetches, world, visited, queued>>
      BY <1>6 DEF AddSitemapSeeds, AddLocalRootSeeds, StartWorkers, CloseTasks,
                  Wait, CancelParent, vars
    <2> QED BY <2>1 DEF FetchesInScope
  <1> QED
    BY <1>1, <1>2, <1>3, <1>4, <1>5, <1>6 DEF Next, Coordinator, Returned

(* Nothing but the entry is queued or fetched outside the scope that the   *)
(* entry's final URL defines.                                              *)
THEOREM CrawlStaysInScope == Spec => []FetchesInScope
  <1>1. Init => FetchesInScope
    BY DEF Init, FetchesInScope
  <1>2. Safe /\ FetchesInScope /\ [Next]_vars => (Safe /\ FetchesInScope)'
    BY SafeStep, FetchesInScopeStep
  <1> QED BY <1>1, <1>2, SafeInit, PTL DEF Spec

-----------------------------------------------------------------------------
(* The concurrent crawl implements the sequential one. *)

(* Scopes and the targets of a sequence of links are sets of targets. *)
LEMMA ScopeType == TypeOK => Scope \in SUBSET Target
  BY LinkAssumption, TargetType, WorldType DEF Scope, TypeOK

LEMMA TargetsOfType == \A s \in Seq(Link) : TargetsOf(s) \in SUBSET Target
  BY TargetType DEF TargetsOf, ToSet

LEMMA TargetsOfEmpty == TargetsOf(<<>>) = {}
  BY DEF TargetsOf, ToSet

LEMMA TargetsOfTail ==
    ASSUME NEW s \in Seq(Link), s # <<>>
    PROVE  TargetsOf(s) = TargetsOf(Tail(s)) \cup {FetchOf[Head(s)]}
  BY TailElements DEF TargetsOf

(* The site seen from outside is a site, and stays what it is. *)
LEMMA AbstractSiteType == TypeOK => AbstractSite \in Abstract!Site
  <1> SUFFICES ASSUME TypeOK PROVE AbstractSite \in Abstract!Site
    OBVIOUS
  <1>1. \A u \in Target : TargetsOf(world.page[world.redirect[u]]) \in SUBSET Target
    BY WorldType, TargetsOfType DEF TypeOK
  <1>2. world.localRoot \in Seq(Link)
    BY WorldType, TargetType DEF TypeOK
  <1>3. TargetsOf(world.sitemap) \in SUBSET Target /\ TargetsOf(world.localRoot) \in SUBSET Target
    BY <1>2, WorldType, TargetsOfType DEF TypeOK
  <1>4. InScope[world.redirect[Entry]] \in SUBSET Target /\ InScope[Entry] \in SUBSET Target
    BY WorldType, TargetType, LinkAssumption DEF TypeOK
  <1> QED BY <1>1, <1>3, <1>4 DEF AbstractSite, Abstract!Site

LEMMA RefinesInit == Init => Abstract!Init
  <1> SUFFICES ASSUME Init PROVE Abstract!Init
    OBVIOUS
  <1>1. TypeOK /\ Fetched = {} /\ AbstractScope = {}
    BY TypeInit DEF Init, Fetched, AbstractScope
  <1>2. Frontier = {}
    BY TargetsOfEmpty DEF Init, Frontier
  <1>3. Status = "fresh"
    BY DEF Init, Status
  <1> QED BY <1>1, <1>2, <1>3, AbstractSiteType DEF Abstract!Init

(* CrawlSpec counts with the same Cardinality. *)
LEMMA SameCardinality == \A S : Abstract!Cardinality(S) = Cardinality(S)
  BY DEF Abstract!Cardinality, Cardinality

(* What a step must leave alone to be invisible. *)
LEMMA StutterStep ==
    ASSUME world' = world, fetches' = fetches, Frontier' = Frontier, Status' = Status
    PROVE  UNCHANGED Abstract!vars
  <1>1. Fetched' = Fetched /\ Scope' = Scope /\ AbstractSite' = AbstractSite
    BY DEF Fetched, Scope, AbstractSite
  <1> QED BY <1>1 DEF Abstract!vars, AbstractScope

(* The number of recorded fetches, while a result is being received. *)
LEMMA RoomInBudget ==
    ASSUME Safe, BudgetKept, IsFiniteSet(visited), pc = "loop",
           NEW u \in visited, u \notin Fetched
    PROVE  Cardinality(Fetched) < MaxPages
  <1>1. Fetched \in SUBSET visited
    BY DEF Safe, Custody, HandedOut
  <1>2. Cardinality(Fetched) <= Cardinality(visited) /\ Cardinality(Fetched) # Cardinality(visited)
    BY <1>1, FS_Subset
  <1>3. Cardinality(Fetched) \in Nat /\ Cardinality(visited) \in Nat
    BY <1>1, FS_Subset, FS_CardinalityType
  <1>4. Cardinality(visited) <= MaxPages /\ MaxPages \in Nat
    BY PoolAssumption DEF BudgetKept
  <1> QED BY <1>2, <1>3, <1>4

LEMMA RefinesStep ==
    /\ Safe /\ Safe' /\ BudgetKept /\ IsFiniteSet(visited) /\ [Next]_vars
    => [Abstract!Next]_(Abstract!vars)
  <1> SUFFICES ASSUME Safe, Safe', BudgetKept, IsFiniteSet(visited), [Next]_vars
               PROVE  Abstract!Next \/ UNCHANGED Abstract!vars
    OBVIOUS
  <1> USE DEF coordinator, channels, context
  <1>0. TypeOK /\ TypeOK'
    BY DEF Safe
  <1>1. CASE FetchEntry
    <2>1. PICK res \in Results(Entry) :
            IF res = "err" \/ "scope" \in world.setup
            THEN pc' = "failed" /\ UNCHANGED <<todo, source, visited, fetches>>
            ELSE /\ MarkVisited(Entry) /\ ProcessFetch(Entry, res) /\ pc' = "sitemap"
      BY <1>1 DEF FetchEntry
    <2>2. Status = "fresh" /\ Fetched = {} /\ world' = world /\ AbstractSite' = AbstractSite
      BY <1>1 DEF FetchEntry, Status, Safe, Phases, AbstractSite
    <2>3. CASE res = "err" \/ "scope" \in world.setup
      <3>1. Status' = "failed" /\ UNCHANGED <<Fetched, Frontier, AbstractScope>>
        BY <1>1, <2>1, <2>3
           DEF FetchEntry, Status, Fetched, Frontier, AbstractScope, Scope
      <3> QED BY <2>2, <3>1 DEF Abstract!Next, Abstract!Fail
    <2>4. CASE ~(res = "err" \/ "scope" \in world.setup)
      <3>1. /\ pc' = "sitemap" /\ fetches' = [fetches EXCEPT ![Entry] = res]
            /\ todo' = IF res = "page" THEN world.page[world.redirect[Entry]] ELSE <<>>
            /\ queued' = {} /\ res \in {"page", "cut", "aborted"}
        BY <1>1, <2>1, <2>4 DEF FetchEntry, ProcessFetch, Results, Safe, Phases
      <3>2. visited' = {Entry} /\ Fetched' = {Entry}
        BY <3>1 DEF Safe, Phases
      <3>3. Status' = "entered"
        BY <3>1 DEF Status
      <3>4. fetches'[Entry] = res
        BY <1>0, <3>1, TargetType DEF TypeOK
      <3>5. AbstractScope' = Scope'
        BY <3>2 DEF AbstractScope
      <3>6. Frontier' = (TargetsOf(todo') \cap Scope') \ {Entry}
        BY <3>1, <3>2 DEF Frontier
      <3>7. CASE res = "page"
        <4>1. Scope' = AbstractSite.scope /\ TargetsOf(todo') = AbstractSite.leadsTo[Entry]
          BY <2>2, <3>1, <3>4, <3>7, TargetType DEF Scope, AbstractSite
        <4> QED BY <2>2, <3>2, <3>3, <3>5, <3>6, <4>1 DEF Abstract!Next, Abstract!CheckEntry
      <3>8. CASE res \in {"cut", "aborted"}
        <4>1. Scope' \in {AbstractSite.scope, AbstractSite.fallback}
          BY <2>2, <3>4, <3>8 DEF Scope, AbstractSite
        <4>2. Frontier' = {}
          BY <3>1, <3>6, <3>8, TargetsOfEmpty
        <4> QED BY <2>2, <3>2, <3>3, <3>5, <4>1, <4>2 DEF Abstract!Next, Abstract!CheckEntry
      <3> QED BY <3>1, <3>7, <3>8
    <2> QED BY <2>3, <2>4
  <1>2. CASE RecordLink
    <2> DEFINE u == FetchOf[Head(todo)]
    <2>1. UNCHANGED <<world, fetches, visited, pc>> /\ todo' = Tail(todo)
      BY <1>2 DEF RecordLink
    <2>2. TargetsOf(todo) = TargetsOf(Tail(todo)) \cup {u}
      BY <1>0, <1>2, TargetsOfTail DEF RecordLink, TypeOK
    <2>3. Scope' = Scope /\ Fetched' = Fetched
      BY <2>1 DEF Scope, Fetched
    <2>4. CASE u \in Scope
      <3>1. visited \cup queued' = visited \cup queued \cup {u}
        BY <1>2, <2>4, QueueGrowth DEF RecordLink, Allowed, FetchURL
      <3>2. TargetsOf(todo') = TargetsOf(Tail(todo))
        BY <2>1
      <3>3. Frontier' = (visited \cup queued' \cup (TargetsOf(Tail(todo)) \cap Scope)) \ Fetched
        BY <2>1, <2>3, <3>2 DEF Frontier
      <3>4. Frontier' = Frontier
        BY <2>2, <2>4, <3>1, <3>3 DEF Frontier
      <3> QED BY <2>1, <3>4, StutterStep DEF Status
    <2>5. CASE u \notin Scope
      <3>1. queued' = queued
        BY <1>2, <2>5 DEF RecordLink, Allowed
      <3>2. Frontier' = (visited \cup queued \cup (TargetsOf(Tail(todo)) \cap Scope)) \ Fetched
        BY <2>1, <2>3, <3>1 DEF Frontier
      <3>3. Frontier' = Frontier
        BY <2>2, <2>5, <3>2 DEF Frontier
      <3> QED BY <2>1, <3>3, StutterStep DEF Status
    <2> QED BY <2>4, <2>5
  <1>3. CASE AddSitemapSeeds
    <2>1. /\ UNCHANGED <<world, fetches, visited, queued>> /\ todo = <<>> /\ pc = "sitemap"
          /\ \/ pc' = "localRoot" /\ todo' = world.sitemap
             \/ pc' = "failed" /\ todo' = todo
      BY <1>3 DEF AddSitemapSeeds
    <2>2. /\ Status = "entered" /\ Entry \in Fetched
          /\ UNCHANGED <<Fetched, Scope, AbstractSite, AbstractScope>>
      BY <2>1 DEF Status, Safe, Phases, Fetched, Scope, AbstractSite, AbstractScope
    <2>3. CASE pc' = "localRoot" /\ todo' = world.sitemap
      <3>1. Status' = "seeded" /\ AbstractScope = Scope
        BY <2>2, <2>3 DEF Status, AbstractScope
      <3>2. TargetsOf(todo') = AbstractSite.sitemap
        BY <2>3 DEF AbstractSite
      <3>3. Frontier' = (Frontier \cup (AbstractSite.sitemap \cap AbstractScope)) \ Fetched
        BY <2>1, <2>2, <3>1, <3>2, TargetsOfEmpty DEF Frontier
      <3> QED BY <2>2, <3>1, <3>3 DEF Abstract!Next, Abstract!SeedSitemap, Abstract!Seed
    <2>4. CASE pc' = "failed" /\ todo' = todo
      <3>1. Status' = "failed" /\ Frontier' = Frontier
        BY <2>1, <2>2, <2>4 DEF Status, Frontier
      <3> QED BY <2>2, <3>1 DEF Abstract!Next, Abstract!Fail
    <2> QED BY <2>1, <2>3, <2>4
  <1>4. CASE AddLocalRootSeeds
    <2>1. /\ UNCHANGED <<world, fetches, visited, queued>> /\ todo = <<>> /\ pc = "localRoot"
          /\ \/ pc' = "start" /\ todo' = world.localRoot
             \/ pc' = "failed" /\ todo' = todo
      BY <1>4 DEF AddLocalRootSeeds
    <2>2. /\ Status = "seeded" /\ Entry \in Fetched
          /\ UNCHANGED <<Fetched, Scope, AbstractSite, AbstractScope>>
      BY <2>1 DEF Status, Safe, Phases, Fetched, Scope, AbstractSite, AbstractScope
    <2>3. CASE pc' = "start" /\ todo' = world.localRoot
      <3>1. Status' = "crawling" /\ AbstractScope = Scope
        BY <2>2, <2>3 DEF Status, AbstractScope
      <3>2. TargetsOf(todo') = AbstractSite.localRoot
        BY <2>3 DEF AbstractSite
      <3>3. Frontier' = (Frontier \cup (AbstractSite.localRoot \cap AbstractScope)) \ Fetched
        BY <2>1, <2>2, <3>1, <3>2, TargetsOfEmpty DEF Frontier
      <3> QED BY <2>2, <3>1, <3>3 DEF Abstract!Next, Abstract!SeedLocalRoot, Abstract!Seed
    <2>4. CASE pc' = "failed" /\ todo' = todo
      <3>1. Status' = "failed" /\ Frontier' = Frontier
        BY <2>1, <2>2, <2>4 DEF Status, Frontier
      <3> QED BY <2>2, <3>1 DEF Abstract!Next, Abstract!Fail
    <2> QED BY <2>1, <2>3, <2>4
  <1>5. CASE Dispatch
    <2>1. UNCHANGED <<world, fetches, todo, pc>> /\ visited' \cup queued' = visited \cup queued
      BY <1>5, HeadIsFresh DEF Dispatch, CanDispatch, MarkVisited
    <2>2. Frontier' = Frontier
      BY <2>1 DEF Frontier, Scope, Fetched
    <2> QED BY <2>1, <2>2, StutterStep DEF Status
  <1>6. CASE Receive
    <2> DEFINE u == Head(resultCh).url
               res == Head(resultCh).res
    <2>1. UNCHANGED <<world, visited, queued>> /\ todo = <<>> /\ pc = "loop" /\ Status = "crawling"
      BY <1>6 DEF Receive, Status
    <2>2. CASE res = "err"
      <3>1. fetches' = fetches /\ todo' = todo /\ pc' = "failing"
        BY <1>6, <2>2 DEF Receive, Abort
      <3>2. Frontier' = Frontier /\ Status' = Status
        BY <2>1, <3>1 DEF Frontier, Scope, Fetched, Status
      <3> QED BY <2>1, <3>1, <3>2, StutterStep
    <2>3. CASE res # "err"
      <3>1. /\ pc' = pc /\ fetches' = [fetches EXCEPT ![u] = res]
            /\ todo' = IF res = "page" THEN world.page[world.redirect[u]] ELSE <<>>
        BY <1>6, <2>3 DEF Receive, ProcessFetch
      <3>2. u \in Target /\ u \in ToSet(Answered) /\ res \in {"page", "cut", "aborted"}
        BY <1>0, <1>6, <2>3, AnsweredTail DEF Receive, Result
      <3>3. u \in visited /\ u \notin Fetched /\ Entry \in Fetched
        BY <2>1, <3>2 DEF Safe, Custody, FetchedOnce, HandedOut, InHand
      <3>4. Fetched' = Fetched \cup {u}
        BY <1>0, <3>1, <3>2 DEF Fetched, TypeOK
      <3>5. Scope' = Scope /\ AbstractSite' = AbstractSite
        <4>1. fetches'[Entry] = fetches[Entry]
          BY <1>0, <3>1, <3>3, TargetType DEF TypeOK
        <4> QED BY <2>1, <4>1 DEF Scope, AbstractSite
      <3>6. AbstractScope = Scope /\ AbstractScope' = Scope
        BY <3>3, <3>4, <3>5 DEF AbstractScope
      <3>7. u \in Frontier /\ Cardinality(Fetched) < MaxPages
        BY <2>1, <3>3, RoomInBudget DEF Frontier
      <3>8. \E found \in {AbstractSite.leadsTo[u] \cap AbstractScope, {}} :
               Frontier' = (Frontier \cup found) \ Fetched'
        <4>1. Frontier = (visited \cup queued) \ Fetched
          BY <2>1, TargetsOfEmpty DEF Frontier
        <4>2. Frontier' = (visited \cup queued \cup (TargetsOf(todo') \cap Scope)) \ Fetched'
          BY <2>1, <3>5 DEF Frontier
        <4>3. CASE res = "page"
          <5>1. TargetsOf(todo') = AbstractSite.leadsTo[u]
            BY <3>1, <3>2, <4>3 DEF AbstractSite
          <5> QED BY <3>4, <3>6, <4>1, <4>2, <5>1
        <4>4. CASE res # "page"
          <5>1. TargetsOf(todo') = {}
            BY <3>1, <4>4, TargetsOfEmpty
          <5> QED BY <3>4, <4>1, <4>2, <5>1
        <4> QED BY <3>2, <4>3, <4>4
      <3>9. Status' = "crawling"
        BY <2>1, <3>1 DEF Status
      <3>10. Abstract!Check(u)
        BY <2>1, <3>4, <3>5, <3>6, <3>7, <3>8, <3>9, SameCardinality DEF Abstract!Check
      <3> QED BY <3>2, <3>10 DEF Abstract!Next
    <2> QED BY <2>2, <2>3
  <1>7. CASE Wait
    <2>1. UNCHANGED <<world, fetches, visited, queued, todo, attempted>> /\ todo = <<>>
      BY <1>7 DEF Wait, Safe, Phases
    <2>2. UNCHANGED <<Fetched, Frontier, AbstractSite, AbstractScope>> /\ Status = "crawling"
      BY <1>7, <2>1 DEF Wait, Fetched, Frontier, Scope, AbstractSite, AbstractScope, Status
    <2>3. CASE pc = "failing"
      <3>1. Status' = "failed"
        BY <1>7, <2>3 DEF Wait, Status
      <3> QED BY <2>2, <3>1 DEF Abstract!Next, Abstract!Fail
    <2>4. CASE pc = "closing"
      <3>1. Status' = "done"
        BY <1>7, <2>4 DEF Wait, Status
      <3>2. Fetched = visited
        BY <2>4, DoneIsDrained
      <3>3. Frontier = {} \/ Cardinality(Fetched) >= MaxPages
        <4>1. CASE queue = <<>>
          <5>1. queued = {}
            BY <4>1 DEF Safe, QueueDiscipline, ToSet
          <5> QED BY <2>1, <3>2, <5>1, TargetsOfEmpty DEF Frontier
        <4>2. CASE MaxPages <= attempted
          BY <2>4, <3>2, <4>2, PoolAssumption, <1>0 DEF BudgetKept, TypeOK
        <4> QED BY <2>4, <4>1, <4>2 DEF Safe, Phases
      <3> QED BY <2>2, <3>1, <3>3, SameCardinality DEF Abstract!Next, Abstract!Finish
    <2>5. pc = "failing" \/ pc = "closing"
      BY <1>7 DEF Wait
    <2> QED BY <2>3, <2>4, <2>5
  <1>8. ASSUME NEW w \in Worker, WorkerStep(w) PROVE UNCHANGED Abstract!vars
    <2>1. UNCHANGED <<world, fetches, visited, queued, todo, pc>>
      BY <1>8, PoolStepFrame
    <2>2. Frontier' = Frontier /\ Status' = Status
      BY <2>1 DEF Frontier, Scope, Fetched, Status
    <2> QED BY <2>1, <2>2, StutterStep
  <1>9. CASE StartWorkers \/ CloseTasks \/ CancelParent \/ UNCHANGED vars
    <2>1. UNCHANGED <<world, fetches, visited, queued, todo>>
      BY <1>9 DEF StartWorkers, CloseTasks, CancelParent, vars
    <2>2. Frontier' = Frontier
      BY <2>1 DEF Frontier, Scope, Fetched
    <2>3. Status' = Status
      <3>1. CASE StartWorkers
        BY <3>1 DEF StartWorkers, Status
      <3>2. CASE CloseTasks
        BY <3>2 DEF CloseTasks, Status
      <3>3. CASE CancelParent \/ UNCHANGED vars
        BY <3>3 DEF CancelParent, vars, Status
      <3> QED BY <1>9, <3>1, <3>2, <3>3
    <2> QED BY <2>1, <2>2, <2>3, StutterStep
  <1> QED
    BY <1>1, <1>2, <1>3, <1>4, <1>5, <1>6, <1>7, <1>8, <1>9
       DEF Next, Coordinator, Returned

(* The crawl with its workers, channels, queue and cancellation implements *)
(* the sequential crawl of CrawlSpec: targets are checked one after the    *)
(* other, each once, within the budget, and the run is done only with an   *)
(* empty frontier or a spent budget.                                       *)
THEOREM CrawlImplementsSpec == Spec => ImplementsCrawlSpec
  <1> DEFINE Inv == Safe /\ BudgetKept /\ IsFiniteSet(visited)
  <1>1. Init => Inv
    BY SafeInit, FS_EmptySet DEF Init, BudgetKept
  <1>2. Inv /\ [Next]_vars => Inv'
    BY SafeStep, BudgetStep DEF Safe
  <1>3. Inv /\ Inv' /\ [Next]_vars => [Abstract!Next]_(Abstract!vars)
    BY RefinesStep
  <1> QED BY <1>1, <1>2, <1>3, RefinesInit, PTL DEF Spec, ImplementsCrawlSpec, Abstract!Spec

-----------------------------------------------------------------------------
(* What the report says *)

LeadsTo(u) == TargetsOf(world.page[world.redirect[u]])

(* The targets that a crawl has found so far. *)
Discovered == visited \cup queued \cup (TargetsOf(todo) \cap Scope)

Walked == {"start", "loop", "closing", "failing", "done"}

(* Nothing is found that a reader of the site would not arrive at. *)
OnlyReachable ==
    fetches[Entry] \in {"page", "cut"} =>
        \A S \in SUBSET Target : ClosedUnderLinks(S) => Discovered \subseteq S

(* What the pages fetched so far and the seeds walked so far lead to is    *)
(* found.                                                                  *)
PagesFollowed ==
    \A u \in Target : fetches[u] = "page" => LeadsTo(u) \cap Scope \subseteq Discovered

SeedsFollowed ==
    /\ pc \in Walked \cup {"localRoot"} => TargetsOf(world.sitemap) \cap Scope \subseteq Discovered
    /\ pc \in Walked => TargetsOf(world.localRoot) \cap Scope \subseteq Discovered

Explored == OnlyReachable /\ PagesFollowed /\ SeedsFollowed

-----------------------------------------------------------------------------
(* The scope of links is the scope that ClosedUnderLinks is about. *)
LEMMA ScopeIsSettled ==
    fetches[Entry] \in {"page", "cut"} => Scope = InScope[world.redirect[Entry]]
  BY DEF Scope

(* A step that records no fetch, finds nothing new and forgets nothing. *)
LEMMA NothingNew ==
    ASSUME Explored, UNCHANGED <<world, fetches>>, Discovered' = Discovered,
           pc' = pc \/ pc' = "failed" \/ pc \in Walked
    PROVE  Explored'
  <1>1. Scope' = Scope
    BY DEF Scope
  <1>2. OnlyReachable'
    BY DEF Explored, OnlyReachable, ClosedUnderLinks
  <1>3. PagesFollowed'
    BY <1>1 DEF Explored, PagesFollowed, LeadsTo
  <1>4. SeedsFollowed'
    BY <1>1 DEF Explored, SeedsFollowed, Walked
  <1> QED BY <1>2, <1>3, <1>4 DEF Explored

(* With no link left to walk, what is found is queued or was handed out. *)
LEMMA NoLinkLeft == todo = <<>> => Discovered = visited \cup queued
  BY TargetsOfEmpty DEF Discovered

(* The entry is recorded before the pool runs, so no later result is its. *)
LEMMA EntryRecordedOnce ==
    ASSUME Safe, Receive
    PROVE  Head(resultCh).url \in Target \ {Entry} /\ Head(resultCh).url \in visited
  <1>1. Head(resultCh).url \in Target /\ Head(resultCh).url \in ToSet(Answered)
    BY AnsweredTail DEF Receive, Safe
  <1>2. /\ Entry \in Fetched /\ Fetched \cap ToSet(Answered) = {}
        /\ ToSet(Answered) \subseteq visited
    BY DEF Receive, Safe, Custody, FetchedOnce, HandedOut, InHand
  <1> QED BY <1>1, <1>2

-----------------------------------------------------------------------------
LEMMA ExploredInit == Init => Explored
  <1> SUFFICES ASSUME Init PROVE Explored
    OBVIOUS
  <1>1. \A u \in Target : fetches[u] = "none"
    BY DEF Init
  <1>2. pc \notin Walked \cup {"localRoot"}
    BY DEF Init, Walked
  <1> QED BY <1>1, <1>2, TargetType DEF Explored, OnlyReachable, PagesFollowed, SeedsFollowed

LEMMA FetchEntryExplores ==
    ASSUME Safe, Safe', FetchEntry PROVE Explored'
  <1>1. /\ pc' \in {"failed", "sitemap"} /\ world' = world
        /\ queued' = {} /\ visited' \subseteq {Entry}
        /\ \A u \in Target : fetches[u] = "none"
    BY DEF FetchEntry, MarkVisited, Safe, Phases, Fetched
  <1>2. SeedsFollowed'
    BY <1>1 DEF SeedsFollowed, Walked
  <1>3. PICK res \in Results(Entry) :
          IF res = "err" \/ "scope" \in world.setup
          THEN pc' = "failed" /\ UNCHANGED <<todo, source, visited, fetches>>
          ELSE /\ MarkVisited(Entry) /\ ProcessFetch(Entry, res) /\ pc' = "sitemap"
    BY DEF FetchEntry
  <1>4. CASE res = "err" \/ "scope" \in world.setup
    <2>1. \A u \in Target : fetches'[u] = "none"
      BY <1>1, <1>3, <1>4
    <2> QED BY <1>2, <2>1, TargetType DEF Explored, OnlyReachable, PagesFollowed
  <1>5. CASE ~(res = "err" \/ "scope" \in world.setup)
    <2>1. /\ fetches' = [fetches EXCEPT ![Entry] = res] /\ visited' = {Entry}
          /\ todo' = IF res = "page" THEN world.page[world.redirect[Entry]] ELSE <<>>
      BY <1>1, <1>3, <1>5 DEF ProcessFetch, MarkVisited, Safe, Phases
    <2>2. fetches'[Entry] = res /\ \A u \in Target \ {Entry} : fetches'[u] = "none"
      BY <1>1, <2>1, TargetType DEF Safe, TypeOK
    <2>3. Discovered' = {Entry} \cup (TargetsOf(todo') \cap Scope')
      BY <1>1, <2>1 DEF Discovered
    <2>4. PagesFollowed'
      BY <1>1, <2>1, <2>2, <2>3 DEF PagesFollowed, LeadsTo
    <2>5. OnlyReachable'
      <3> SUFFICES ASSUME fetches'[Entry] \in {"page", "cut"},
                          NEW S \in SUBSET Target, ClosedUnderLinks(S)'
                   PROVE  Discovered' \subseteq S
        BY DEF OnlyReachable
      <3>1. Scope' = InScope[world'.redirect[Entry]]
        BY DEF Scope
      <3>2. CASE res = "page"
        BY <1>1, <2>1, <2>3, <3>1, <3>2 DEF ClosedUnderLinks
      <3>3. CASE res # "page"
        BY <2>1, <2>3, <3>3, TargetsOfEmpty DEF ClosedUnderLinks
      <3> QED BY <3>2, <3>3
    <2> QED BY <1>2, <2>4, <2>5 DEF Explored
  <1> QED BY <1>4, <1>5

LEMMA RecordLinkExplores ==
    ASSUME Safe, Explored, RecordLink PROVE Explored'
  <1> DEFINE l == Head(todo)
  <1>1. /\ todo \in Seq(Link) /\ todo # <<>> /\ todo' = Tail(todo)
        /\ UNCHANGED <<world, fetches, visited, pc>> /\ Scope' = Scope
    BY DEF RecordLink, Safe, TypeOK, Scope
  <1>2. TargetsOf(todo) = TargetsOf(todo') \cup {FetchOf[l]}
    BY <1>1, TargetsOfTail
  <1>3. CASE Allowed(l)
    <2>1. visited' \cup queued' = visited \cup queued \cup {FetchOf[l]}
      BY <1>1, <1>3, QueueGrowth DEF RecordLink, FetchURL
    <2>2. FetchOf[l] \in Scope
      BY <1>3 DEF Allowed
    <2>3. Discovered' = Discovered
      BY <1>1, <1>2, <2>1, <2>2 DEF Discovered
    <2> QED BY <1>1, <2>3, NothingNew
  <1>4. CASE ~Allowed(l)
    <2>1. queued' = queued /\ FetchOf[l] \notin Scope
      BY <1>4 DEF RecordLink, Allowed
    <2>2. Discovered' = Discovered
      BY <1>1, <1>2, <2>1 DEF Discovered
    <2> QED BY <1>1, <2>2, NothingNew
  <1> QED BY <1>3, <1>4

(* Both kinds of seeds are walked in the same way. *)
LEMMA SeedsExplore ==
    ASSUME Explored, todo = <<>>, UNCHANGED <<world, fetches, visited, queued>>,
           \/ pc = "sitemap" /\ pc' = "localRoot" /\ todo' = world.sitemap
           \/ pc = "localRoot" /\ pc' = "start" /\ todo' = world.localRoot
    PROVE  Explored'
  <1>1. Scope' = Scope
    BY DEF Scope
  <1>2. Discovered' = Discovered \cup (TargetsOf(todo') \cap Scope)
    BY <1>1, NoLinkLeft DEF Discovered
  <1>3. PagesFollowed'
    BY <1>1, <1>2 DEF Explored, PagesFollowed, LeadsTo
  <1>4. SeedsFollowed'
    BY <1>1, <1>2 DEF Explored, SeedsFollowed, Walked
  <1>5. OnlyReachable'
    <2> SUFFICES ASSUME fetches[Entry] \in {"page", "cut"},
                        NEW S \in SUBSET Target, ClosedUnderLinks(S)
                 PROVE  Discovered' \subseteq S
      BY DEF OnlyReachable, ClosedUnderLinks
    <2>1. Discovered \subseteq S
      BY DEF Explored, OnlyReachable
    <2>2. TargetsOf(todo') \cap Scope \subseteq S
      BY ScopeIsSettled DEF ClosedUnderLinks
    <2> QED BY <1>2, <2>1, <2>2
  <1> QED BY <1>3, <1>4, <1>5 DEF Explored

LEMMA ReceiveExplores ==
    ASSUME Safe, Safe', Explored, Receive PROVE Explored'
  <1> DEFINE u == Head(resultCh).url
             res == Head(resultCh).res
  <1>1. /\ todo = <<>> /\ pc = "loop" /\ UNCHANGED <<world, visited, queued>>
        /\ u \in Target \ {Entry} /\ u \in visited
    BY EntryRecordedOnce DEF Receive
  <1>2. CASE res = "err"
    <2>1. UNCHANGED <<fetches, todo>>
      BY <1>2 DEF Receive
    <2>2. Discovered' = Discovered
      BY <1>1, <2>1 DEF Discovered, Scope
    <2> QED BY <1>1, <2>1, <2>2, NothingNew DEF Walked
  <1>3. CASE res # "err"
    <2>1. /\ fetches' = [fetches EXCEPT ![u] = res] /\ pc' = pc
          /\ todo' = IF res = "page" THEN world.page[world.redirect[u]] ELSE <<>>
      BY <1>3 DEF Receive, ProcessFetch
    <2>2. fetches'[Entry] = fetches[Entry] /\ Scope' = Scope
      BY <1>1, <2>1, TargetType DEF Scope, Safe, TypeOK
    <2>3. Discovered' = Discovered \cup (TargetsOf(todo') \cap Scope)
      BY <1>1, <2>2, NoLinkLeft DEF Discovered
    <2>4. PagesFollowed'
      <3> SUFFICES ASSUME NEW v \in Target, fetches'[v] = "page"
                   PROVE  LeadsTo(v) \cap Scope \subseteq Discovered'
        BY <1>1, <2>2 DEF PagesFollowed, LeadsTo
      <3>1. CASE v = u
        <4>1. res = "page"
          BY <2>1, <3>1 DEF Safe, TypeOK
        <4> QED BY <2>1, <2>3, <3>1, <4>1 DEF LeadsTo
      <3>2. CASE v # u
        <4>1. fetches[v] = "page"
          BY <2>1, <3>2 DEF Safe, TypeOK
        <4> QED BY <2>3, <4>1 DEF Explored, PagesFollowed
      <3> QED BY <3>1, <3>2
    <2>5. SeedsFollowed'
      BY <1>1, <2>1, <2>2, <2>3 DEF Explored, SeedsFollowed
    <2>6. OnlyReachable'
      <3> SUFFICES ASSUME fetches[Entry] \in {"page", "cut"},
                          NEW S \in SUBSET Target, ClosedUnderLinks(S)
                   PROVE  Discovered' \subseteq S
        BY <1>1, <2>2 DEF OnlyReachable, ClosedUnderLinks
      <3>1. Discovered \subseteq S
        BY DEF Explored, OnlyReachable
      <3>2. u \in S
        BY <1>1, <3>1 DEF Discovered
      <3>3. LeadsTo(u) \cap Scope \subseteq S
        BY <3>2, ScopeIsSettled DEF ClosedUnderLinks, LeadsTo
      <3>4. TargetsOf(todo') \cap Scope \subseteq S
        BY <2>1, <3>3, TargetsOfEmpty DEF LeadsTo
      <3> QED BY <2>3, <3>1, <3>4
    <2> QED BY <2>4, <2>5, <2>6 DEF Explored
  <1> QED BY <1>2, <1>3

LEMMA ExploredStep == Safe /\ Safe' /\ Explored /\ [Next]_vars => Explored'
  <1> SUFFICES ASSUME Safe, Safe', Explored, [Next]_vars PROVE Explored'
    OBVIOUS
  <1> USE DEF coordinator, channels, context
  <1>1. CASE FetchEntry
    BY <1>1, FetchEntryExplores
  <1>2. CASE RecordLink
    BY <1>2, RecordLinkExplores
  <1>3. CASE AddSitemapSeeds \/ AddLocalRootSeeds
    <2>1. CASE pc' = "failed"
      <3>1. UNCHANGED <<world, fetches, visited, queued, todo>>
        BY <1>3, <2>1 DEF AddSitemapSeeds, AddLocalRootSeeds
      <3>2. Discovered' = Discovered
        BY <3>1 DEF Discovered, Scope
      <3> QED BY <2>1, <3>1, <3>2, NothingNew
    <2>2. CASE pc' # "failed"
      <3>1. /\ todo = <<>> /\ UNCHANGED <<world, fetches, visited, queued>>
            /\ \/ pc = "sitemap" /\ pc' = "localRoot" /\ todo' = world.sitemap
               \/ pc = "localRoot" /\ pc' = "start" /\ todo' = world.localRoot
        BY <1>3, <2>2 DEF AddSitemapSeeds, AddLocalRootSeeds
      <3> QED BY <3>1, SeedsExplore
    <2> QED BY <2>1, <2>2
  <1>4. CASE Dispatch
    <2>1. Head(queue) \in queued /\ Head(queue) \notin visited
      BY <1>4, HeadIsFresh DEF Dispatch, CanDispatch
    <2>2. /\ visited' \cup queued' = visited \cup queued
          /\ UNCHANGED <<world, fetches, todo, pc>>
      BY <1>4, <2>1 DEF Dispatch, MarkVisited
    <2>3. Discovered' = Discovered
      BY <2>2 DEF Discovered, Scope
    <2> QED BY <2>2, <2>3, NothingNew
  <1>5. CASE Receive
    BY <1>5, ReceiveExplores
  <1>6. CASE \/ StartWorkers \/ CloseTasks \/ Wait \/ CancelParent \/ UNCHANGED vars
             \/ \E w \in Worker : WorkerStep(w)
    <2>1. /\ UNCHANGED <<world, fetches, visited, queued, todo>>
          /\ pc' = pc \/ pc \in Walked
      BY <1>6, PoolStepFrame DEF StartWorkers, CloseTasks, Wait, CancelParent, vars, Walked
    <2>2. Discovered' = Discovered
      BY <2>1 DEF Discovered, Scope
    <2> QED BY <2>1, <2>2, NothingNew
  <1> QED
    BY <1>1, <1>2, <1>3, <1>4, <1>5, <1>6 DEF Next, Coordinator, Returned

(* Whatever the number of workers and the order of their answers: unless   *)
(* the budget or a cancellation cut it short, a finished crawl reports     *)
(* exactly the least set of targets closed under the links of the site.    *)
THEOREM ReportIsDetermined == Spec => []ReportIndependentOfSchedule
  <1>1. Safe /\ Explored => ReportIndependentOfSchedule
    <2> SUFFICES ASSUME Safe, Explored, pc = "done"
                 PROVE  /\ fetches[Entry] # "aborted" =>
                             \A S \in SUBSET Target : ClosedUnderLinks(S) => Fetched \subseteq S
                        /\ ~Truncated /\ (\A u \in Target : fetches[u] \in {"none", "page"}) =>
                             ClosedUnderLinks(Fetched)
      BY DEF ReportIndependentOfSchedule
    <2>1. Fetched = visited /\ Fetched \subseteq Discovered /\ Entry \in Fetched
      BY DoneIsDrained DEF Discovered, Safe, Custody, HandedOut
    <2>2. fetches[Entry] # "none" /\ fetches[Entry] \in {"none", "page", "cut", "aborted"}
      BY <2>1, TargetType DEF Fetched, Safe, TypeOK
    <2>3. ASSUME fetches[Entry] # "aborted",
                 NEW S \in SUBSET Target, ClosedUnderLinks(S)
          PROVE  Fetched \subseteq S
      BY <2>1, <2>2, <2>3 DEF Explored, OnlyReachable
    <2>4. ASSUME ~Truncated, \A u \in Target : fetches[u] \in {"none", "page"}
          PROVE  ClosedUnderLinks(Fetched)
      <3>1. queued = {}
        BY <2>4, QueueSpent
      <3>2. Discovered = Fetched
        BY <2>1, <3>1, NoLinkLeft DEF Safe, Phases
      <3>3. Scope = InScope[world.redirect[Entry]]
        BY <2>2, <2>4, TargetType, ScopeIsSettled
      <3>4. \A u \in Fetched : LeadsTo(u) \cap Scope \subseteq Fetched
        BY <2>4, <3>2 DEF Fetched, Explored, PagesFollowed
      <3>5. (TargetsOf(world.sitemap) \cup TargetsOf(world.localRoot)) \cap Scope \subseteq Fetched
        BY <3>2 DEF Explored, SeedsFollowed, Walked
      <3> QED BY <2>1, <3>3, <3>4, <3>5 DEF ClosedUnderLinks, LeadsTo
    <2> QED BY <2>3, <2>4
  <1>2. Safe /\ Explored /\ [Next]_vars => (Safe /\ Explored)'
    BY SafeStep, ExploredStep
  <1> QED BY <1>1, <1>2, SafeInit, ExploredInit, PTL DEF Spec

-----------------------------------------------------------------------------
(* Counting the occurrences of a link in the list that is walked. *)

LEMMA OccurrencesType ==
    ASSUME NEW S, NEW s \in Seq(S), NEW l
    PROVE  Occurrences(l, s) \in Nat
  <1>1. {i \in 1..Len(s) : s[i] = l} \in SUBSET (1..Len(s)) /\ Len(s) \in Int
    OBVIOUS
  <1>2. IsFiniteSet(1..Len(s))
    BY <1>1, FS_Interval
  <1> QED BY <1>1, <1>2, FS_Subset, FS_CardinalityType DEF Occurrences

LEMMA OccurrencesOfEmpty == \A l : Occurrences(l, <<>>) = 0
  <1> SUFFICES ASSUME NEW l PROVE Occurrences(l, <<>>) = 0
    OBVIOUS
  <1>1. {i \in 1..Len(<<>>) : <<>>[i] = l} = {}
    OBVIOUS
  <1> QED BY <1>1, FS_EmptySet DEF Occurrences

(* The head counts once, the rest as often as before. *)
LEMMA OccurrencesTail ==
    ASSUME NEW S, NEW s \in Seq(S), s # <<>>, NEW l
    PROVE  Occurrences(l, s) = Occurrences(l, Tail(s)) + (IF Head(s) = l THEN 1 ELSE 0)
  <1> DEFINE all  == {i \in 1..Len(s) : s[i] = l}
             rest == {i \in 1..Len(Tail(s)) : Tail(s)[i] = l}
             next == [i \in rest |-> i + 1]
  <1>1. /\ Len(s) \in Nat /\ Len(s) > 0 /\ Len(Tail(s)) = Len(s) - 1 /\ Head(s) = s[1]
        /\ \A i \in 1..Len(s) - 1 : Tail(s)[i] = s[i + 1]
    OBVIOUS
  <1>2. IsFiniteSet(all) /\ IsFiniteSet(rest)
    <2>1. IsFiniteSet(1..Len(s)) /\ IsFiniteSet(1..Len(Tail(s)))
      BY <1>1, FS_Interval
    <2>2. all \in SUBSET (1..Len(s)) /\ rest \in SUBSET (1..Len(Tail(s)))
      OBVIOUS
    <2> QED BY <2>1, <2>2, FS_Subset
  <1>3. next \in Bijection(rest, all \ {1})
    <2>1. \A i \in rest : i + 1 \in all \ {1}
      BY <1>1
    <2>2. \A j \in all \ {1} : j - 1 \in rest /\ (j - 1) + 1 = j
      BY <1>1
    <2>3. next \in Injection(rest, all \ {1})
      <3>1. next \in [rest -> all \ {1}]
        BY <2>1
      <3>2. \A i, j \in rest : next[i] = next[j] => i = j
        BY <1>1
      <3> QED BY <3>1, <3>2 DEF Injection, IsInjective
    <2>4. next \in Surjection(rest, all \ {1})
      BY <2>1, <2>2 DEF Surjection
    <2> QED BY <2>3, <2>4 DEF Bijection
  <1>4. Cardinality(all \ {1}) = Cardinality(rest) /\ Cardinality(rest) \in Nat
    BY <1>2, <1>3, FS_Bijection, FS_CardinalityType DEF ExistsBijection
  <1>5. Cardinality(all \ {1}) = IF 1 \in all THEN Cardinality(all) - 1 ELSE Cardinality(all)
    BY <1>2, FS_RemoveElement
  <1>6. Cardinality(all) \in Nat
    BY <1>2, FS_CardinalityType
  <1>7. 1 \in all <=> Head(s) = l
    BY <1>1
  <1>8. Cardinality(all) = Cardinality(rest) + (IF Head(s) = l THEN 1 ELSE 0)
    <2> HIDE DEF all, rest
    <2>1. CASE Head(s) = l
      BY <1>4, <1>5, <1>6, <1>7, <2>1
    <2>2. CASE Head(s) # l
      BY <1>4, <1>5, <1>6, <1>7, <2>2
    <2> QED BY <2>1, <2>2
  <1> QED BY <1>8 DEF Occurrences

-----------------------------------------------------------------------------
(* The pages recorded that end at p, and what is left to count on p. *)
PagesAt(p) == {u \in Target : fetches[u] = "page" /\ world.redirect[u] = p}

Left(l, p) == IF source = p THEN Occurrences(l, todo) ELSE 0

Counted(l, p) ==
    links[l][p] + skipped[l][p] + Left(l, p)
        = Occurrences(l, world.page[p]) * Cardinality(PagesAt(p))

SplitByScope(l, p) == IF Allowed(l) THEN skipped[l][p] = 0 ELSE links[l][p] = 0

Tallied == IsFiniteSet(Fetched) /\ \A l \in Link : \A p \in Target : Counted(l, p) /\ SplitByScope(l, p)

LEMMA TalliedIsExact == OccurrencesExact <=> \A l \in Link : \A p \in Target : Counted(l, p) /\ SplitByScope(l, p)
  BY DEF OccurrencesExact, Counted, SplitByScope, PagesAt, Left

LEMMA TallyTypes ==
    ASSUME TypeOK, IsFiniteSet(Fetched), NEW l \in Link, NEW p \in Target
    PROVE  /\ links[l][p] \in Nat /\ skipped[l][p] \in Nat /\ Left(l, p) \in Nat
           /\ Occurrences(l, world.page[p]) \in Nat
           /\ IsFiniteSet(PagesAt(p)) /\ Cardinality(PagesAt(p)) \in Nat
           /\ todo = <<>> => Left(l, p) = 0
  <1>1. links[l][p] \in Nat /\ skipped[l][p] \in Nat
    BY DEF TypeOK, Source
  <1>2. todo \in Seq(Link) /\ world.page[p] \in Seq(Link)
    BY WorldType DEF TypeOK
  <1>3. PagesAt(p) \in SUBSET Fetched
    BY DEF PagesAt, Fetched
  <1>4. IsFiniteSet(PagesAt(p)) /\ Cardinality(PagesAt(p)) \in Nat
    BY <1>3, FS_Subset, FS_CardinalityType
  <1>5. Occurrences(l, todo) \in Nat /\ Occurrences(l, world.page[p]) \in Nat
    BY <1>2, OccurrencesType
  <1> QED BY <1>1, <1>4, <1>5, OccurrencesOfEmpty DEF Left

LEMMA OnePageMore == \A k, n \in Nat : k * (n + 1) = k * n + k
  OBVIOUS

LEMMA NothingPage == \A k \in Nat : k * 0 = 0
  OBVIOUS

(* Recording the result of a fresh target with no link left to walk: the   *)
(* page it ends at is counted once more, and all of it is left to walk.    *)
LEMMA ProcessFetchTallies ==
    ASSUME Safe, Tallied, todo = <<>>, UNCHANGED <<world, links, skipped>>,
           NEW u \in Target \ Fetched, NEW res \in {"page", "cut", "aborted"},
           ProcessFetch(u, res)
    PROVE  IsFiniteSet(Fetched') /\ \A l \in Link : \A p \in Target : Counted(l, p)'
  <1>1. /\ fetches' = [fetches EXCEPT ![u] = res] /\ source' = world.redirect[u]
        /\ todo' = IF res = "page" THEN world.page[world.redirect[u]] ELSE <<>>
        /\ fetches \in [Target -> {"none", "page", "cut", "aborted"}]
        /\ TypeOK /\ world.redirect[u] \in Target
    BY WorldType DEF ProcessFetch, Safe, TypeOK
  <1>2. Fetched' = Fetched \cup {u}
    BY <1>1 DEF Fetched
  <1>3. IsFiniteSet(Fetched')
    BY <1>2, FS_AddElement DEF Tallied
  <1> SUFFICES ASSUME NEW l \in Link, NEW p \in Target PROVE Counted(l, p)'
    BY <1>3
  <1> DEFINE n == Cardinality(PagesAt(p))
             k == Occurrences(l, world.page[p])
  <1>4. /\ links[l][p] \in Nat /\ skipped[l][p] \in Nat /\ Left(l, p) = 0
        /\ k \in Nat /\ IsFiniteSet(PagesAt(p)) /\ n \in Nat
    BY <1>1, TallyTypes DEF Tallied
  <1>5. links[l][p] + skipped[l][p] = k * n
    <2>1. links[l][p] + skipped[l][p] + 0 = k * n
      BY <1>4 DEF Tallied, Counted
    <2> HIDE DEF k, n
    <2> QED BY <1>4, <2>1
  <1>6. u \notin PagesAt(p)
    BY DEF PagesAt, Fetched
  <1>7. CASE res = "page" /\ world.redirect[u] = p
    <2>1. PagesAt(p)' = PagesAt(p) \cup {u}
      BY <1>1, <1>7 DEF PagesAt
    <2>2. Cardinality(PagesAt(p)') = n + 1
      BY <1>4, <1>6, <2>1, FS_AddElement
    <2>3. Left(l, p)' = k
      BY <1>1, <1>7 DEF Left
    <2>4. k * (n + 1) = k * n + k
      BY <1>4, OnePageMore
    <2>5. links[l][p] + skipped[l][p] + k = k * (n + 1)
      BY <1>5, <2>4
    <2> QED BY <2>2, <2>3, <2>5 DEF Counted
  <1>8. CASE ~(res = "page" /\ world.redirect[u] = p)
    <2>1. PagesAt(p)' = PagesAt(p)
      BY <1>1, <1>6, <1>8 DEF PagesAt
    <2>2. Left(l, p)' = 0
      BY <1>1, <1>8, OccurrencesOfEmpty DEF Left
    <2>3. links[l][p] + skipped[l][p] + 0 = k * n
      BY <1>4, <1>5
    <2> QED BY <2>1, <2>2, <2>3 DEF Counted
  <1> QED BY <1>7, <1>8

(* Walking on to the next link moves one occurrence from what is left to   *)
(* links or to skipped links, whichever the scope says.                    *)
LEMMA RecordLinkTallies == ASSUME Safe, Tallied, RecordLink PROVE Tallied'
  <1> DEFINE k == Head(todo)
  <1>1. /\ TypeOK /\ todo \in Seq(Link) /\ todo # <<>> /\ todo' = Tail(todo) /\ k \in Link
        /\ UNCHANGED <<world, fetches, source>>
        /\ links \in [Link -> [Source -> Nat]] /\ skipped \in [Link -> [Source -> Nat]]
        /\ source \in Source \cup {LocalRoot} /\ Tail(todo) \in Seq(Link)
    BY TailElements DEF RecordLink, Safe, TypeOK
  <1>2. /\ IsFiniteSet(Fetched') /\ Scope' = Scope /\ Fetched' = Fetched
        /\ \A p : PagesAt(p)' = PagesAt(p)
    BY <1>1 DEF Tallied, Fetched, Scope, PagesAt
  <1> SUFFICES ASSUME NEW l \in Link, NEW p \in Target PROVE Counted(l, p)' /\ SplitByScope(l, p)'
    BY <1>2 DEF Tallied
  <1>3. /\ links[l][p] \in Nat /\ skipped[l][p] \in Nat /\ Left(l, p) \in Nat
        /\ Counted(l, p) /\ SplitByScope(l, p)
    BY <1>1, TallyTypes DEF Tallied
  <1>4. LocalRoot # p /\ p \in Source
    BY NameAssumption DEF Source
  <1> DEFINE total == Occurrences(l, world.page[p]) * Cardinality(PagesAt(p))
  <1>5. CASE source = p /\ k = l
    <2>1. Left(l, p) = Left(l, p)' + 1 /\ Left(l, p)' \in Nat
      BY <1>1, <1>5, OccurrencesTail, OccurrencesType DEF Left
    <2>2. CASE Allowed(l)
      <3>1. links'[l][p] = links[l][p] + 1 /\ skipped' = skipped
        BY <1>1, <1>4, <1>5, <2>2 DEF RecordLink, CountOccurrence
      <3>2. links'[l][p] + skipped'[l][p] + Left(l, p)' = total
        <4>1. links[l][p] + skipped[l][p] + Left(l, p) = total
          BY <1>3 DEF Counted
        <4> HIDE DEF total
        <4> QED BY <1>3, <2>1, <3>1, <4>1
      <3> QED BY <1>1, <1>2, <1>3, <2>2, <3>1, <3>2 DEF Counted, SplitByScope, Allowed
    <2>3. CASE ~Allowed(l)
      <3>1. skipped'[l][p] = skipped[l][p] + 1 /\ links' = links
        BY <1>1, <1>4, <1>5, <2>3 DEF RecordLink, CountOccurrence
      <3>2. links'[l][p] + skipped'[l][p] + Left(l, p)' = total
        <4>1. links[l][p] + skipped[l][p] + Left(l, p) = total
          BY <1>3 DEF Counted
        <4> HIDE DEF total
        <4> QED BY <1>3, <2>1, <3>1, <4>1
      <3> QED BY <1>1, <1>2, <1>3, <2>3, <3>1, <3>2 DEF Counted, SplitByScope, Allowed
    <2> QED BY <2>2, <2>3
  <1>6. CASE ~(source = p /\ k = l)
    <2>1. Left(l, p)' = Left(l, p)
      <3>1. Occurrences(l, todo) = Occurrences(l, Tail(todo)) + (IF k = l THEN 1 ELSE 0)
        BY <1>1, OccurrencesTail
      <3>2. Occurrences(l, Tail(todo)) \in Nat
        BY <1>1, OccurrencesType
      <3> QED BY <1>1, <1>6, <3>1, <3>2 DEF Left
    <2>2. links'[l][p] = links[l][p]
      BY <1>1, <1>4, <1>6 DEF RecordLink, CountOccurrence
    <2>3. skipped'[l][p] = skipped[l][p]
      BY <1>1, <1>4, <1>6 DEF RecordLink, CountOccurrence
    <2> QED BY <1>2, <1>1, <1>3, <2>1, <2>2, <2>3 DEF Counted, SplitByScope, Allowed
  <1> QED BY <1>5, <1>6

(* A step that neither records a fetch nor walks a link. *)
LEMMA TallyUntouched ==
    ASSUME Tallied, UNCHANGED <<world, fetches, links, skipped>>,
           \/ UNCHANGED <<todo, source>>
           \/ todo = <<>> /\ source' \notin Target
    PROVE  Tallied'
  <1>1. /\ Fetched' = Fetched /\ Scope' = Scope
        /\ \A p : PagesAt(p)' = PagesAt(p)
    BY DEF Fetched, Scope, PagesAt
  <1>2. \A l \in Link : \A p \in Target : Left(l, p)' = Left(l, p)
    BY OccurrencesOfEmpty DEF Left
  <1> QED BY <1>1, <1>2 DEF Tallied, Counted, SplitByScope, Allowed

LEMMA TalliedStep == Safe /\ Tallied /\ [Next]_vars => Tallied'
  <1> SUFFICES ASSUME Safe, Tallied, [Next]_vars PROVE Tallied'
    OBVIOUS
  <1> USE DEF coordinator, channels, context
  <1>1. CASE FetchEntry
    <2>1. PICK res \in Results(Entry) :
            IF res = "err" \/ "scope" \in world.setup
            THEN pc' = "failed" /\ UNCHANGED <<todo, source, visited, fetches>>
            ELSE /\ MarkVisited(Entry) /\ ProcessFetch(Entry, res) /\ pc' = "sitemap"
      BY <1>1 DEF FetchEntry
    <2>2. UNCHANGED <<world, links, skipped>> /\ todo = <<>> /\ Fetched = {}
      BY <1>1 DEF FetchEntry, Safe, Phases
    <2>3. CASE res = "err" \/ "scope" \in world.setup
      BY <2>1, <2>2, <2>3, TallyUntouched
    <2>4. CASE ~(res = "err" \/ "scope" \in world.setup)
      <3>1. res \in {"page", "cut", "aborted"} /\ ProcessFetch(Entry, res)
        BY <2>1, <2>4 DEF Results
      <3>2. IsFiniteSet(Fetched') /\ \A l \in Link : \A p \in Target : Counted(l, p)'
        BY <2>2, <3>1, ProcessFetchTallies, TargetType
      <3>3. \A l \in Link : \A p \in Target : links[l][p] = 0 /\ skipped[l][p] = 0
        <4> SUFFICES ASSUME NEW l \in Link, NEW p \in Target
                     PROVE  links[l][p] = 0 /\ skipped[l][p] = 0
          OBVIOUS
        <4>1. /\ links[l][p] \in Nat /\ skipped[l][p] \in Nat /\ Left(l, p) = 0
              /\ Occurrences(l, world.page[p]) \in Nat
          BY <2>2, TallyTypes DEF Safe, Tallied
        <4>2. PagesAt(p) = {}
          BY <2>2 DEF PagesAt, Fetched
        <4>3. Occurrences(l, world.page[p]) * Cardinality(PagesAt(p)) = 0
          BY <4>1, <4>2, FS_EmptySet, NothingPage
        <4>4. links[l][p] + skipped[l][p] + 0 = 0
          BY <4>1, <4>3 DEF Tallied, Counted
        <4> QED BY <4>1, <4>4
      <3> QED BY <2>2, <3>2, <3>3 DEF Tallied, SplitByScope
    <2> QED BY <2>3, <2>4
  <1>2. CASE RecordLink
    BY <1>2, RecordLinkTallies
  <1>3. CASE AddSitemapSeeds \/ AddLocalRootSeeds
    <2>1. /\ todo = <<>> /\ UNCHANGED <<world, fetches, links, skipped>>
          /\ UNCHANGED <<todo, source>> \/ source' \in {Sitemap, LocalRoot}
      BY <1>3 DEF AddSitemapSeeds, AddLocalRootSeeds
    <2> QED BY <2>1, NameAssumption, TallyUntouched
  <1>4. CASE Receive
    <2>1. todo = <<>> /\ UNCHANGED <<world, links, skipped>>
      BY <1>4 DEF Receive
    <2>2. CASE Head(resultCh).res = "err"
      BY <1>4, <2>1, <2>2, TallyUntouched DEF Receive
    <2>3. CASE Head(resultCh).res # "err"
      <3> DEFINE u == Head(resultCh).url
                 res == Head(resultCh).res
      <3>1. u \in Target \ {Entry} /\ u \notin Fetched /\ res \in {"page", "cut", "aborted"}
        <4>1. u \in ToSet(Answered) /\ res \in Result
          BY <1>4, AnsweredTail DEF Receive, Safe
        <4>2. Fetched \cap ToSet(Answered) = {}
          BY DEF Safe, Custody, FetchedOnce
        <4> QED BY <1>4, <2>3, <4>1, <4>2, EntryRecordedOnce DEF Result
      <3>2. ProcessFetch(u, res)
        BY <1>4, <2>3 DEF Receive
      <3>3. IsFiniteSet(Fetched') /\ \A l \in Link : \A p \in Target : Counted(l, p)'
        BY <2>1, <3>1, <3>2, ProcessFetchTallies
      <3>4. Scope' = Scope
        <4>1. fetches'[Entry] = fetches[Entry]
          BY <3>1, <3>2, TargetType DEF ProcessFetch, Safe, TypeOK
        <4> QED BY <2>1, <4>1 DEF Scope
      <3> QED BY <2>1, <3>3, <3>4 DEF Tallied, SplitByScope, Allowed
    <2> QED BY <2>2, <2>3
  <1>5. CASE \/ StartWorkers \/ Dispatch \/ CloseTasks \/ Wait \/ CancelParent
             \/ UNCHANGED vars \/ \E w \in Worker : WorkerStep(w)
    <2>1. UNCHANGED <<world, fetches, links, skipped, todo, source>>
      BY <1>5, PoolStepFrame DEF StartWorkers, Dispatch, CloseTasks, Wait, CancelParent, vars
    <2> QED BY <2>1, TallyUntouched
  <1> QED
    BY <1>1, <1>2, <1>3, <1>4, <1>5 DEF Next, Coordinator, Returned

LEMMA TalliedInit == Init => Tallied
  <1> SUFFICES ASSUME Init PROVE Tallied
    OBVIOUS
  <1>1. Fetched = {} /\ TypeOK /\ todo = <<>>
    BY TypeInit DEF Init, Fetched
  <1>2. IsFiniteSet(Fetched)
    BY <1>1, FS_EmptySet
  <1> SUFFICES ASSUME NEW l \in Link, NEW p \in Target PROVE Counted(l, p) /\ SplitByScope(l, p)
    BY <1>2 DEF Tallied
  <1>3. links[l][p] = 0 /\ skipped[l][p] = 0
    BY DEF Init, NoLinks, Source
  <1>4. Left(l, p) = 0 /\ Occurrences(l, world.page[p]) \in Nat
    BY <1>1, <1>2, TallyTypes
  <1>5. PagesAt(p) = {}
    BY <1>1 DEF PagesAt, Fetched
  <1>6. Occurrences(l, world.page[p]) * Cardinality(PagesAt(p)) = 0
    BY <1>4, <1>5, FS_EmptySet, NothingPage
  <1> QED BY <1>3, <1>4, <1>6 DEF Counted, SplitByScope

(* The counts of the report are exact whatever the order of the answers:   *)
(* every fetched target that ends at a page contributes each occurrence on *)
(* that page once, as a link or as a skipped link by the scope alone.      *)
THEOREM CountsAreExact == Spec => []OccurrencesExact
  <1>1. Safe /\ Tallied /\ [Next]_vars => (Safe /\ Tallied)'
    BY SafeStep, TalliedStep
  <1>2. Tallied => OccurrencesExact
    BY TalliedIsExact DEF Tallied
  <1> QED BY <1>1, <1>2, SafeInit, TalliedInit, PTL DEF Spec
=============================================================================
