------------------------------- MODULE Seeding -------------------------------
(***************************************************************************)
(* What a crawl is seeded with besides the links of its pages: sitemapSeeds *)
(* of internal/crawl/sitemap.go walks the sitemaps named by --sitemap and  *)
(* the sitemap indexes below them, then localRootSeedURLs of localroot.go  *)
(* lists the local build named by --local-root below the page where the    *)
(* fetch of the entry ended.                                               *)
(*                                                                         *)
(* The site is a rigid record: `doc' gives for each sitemap what a fetch   *)
(* and a parse of it yield: either children or pages, as the sitemap       *)
(* writes them, or a failure.                                              *)
(***************************************************************************)
EXTENDS Integers, FiniteSets, LocalRoot, Subsequence

CONSTANTS
    MaxURLs,     \* --max-sitemap-urls
    MaxChildren, \* maxChildSitemaps
    Sites        \* the sites to seed from

(* What people write: absolute where the command line asks for it.         *)
Absolute == {h \in Location : h.scheme \in {"http", "https"} /\ h.host # ""}

Document == [broken : BOOLEAN, children : Seq(Location \cup {Malformed}),
             pages : Seq(Location \cup {Malformed})]

(* The names of a file below the root, from the walk over directories. *)
File == Seq(STRING \ {"", ".", ".."}) \ {<<>>}

ASSUME LimitAssumption == MaxURLs \in Nat \ {0} /\ MaxChildren \in Nat

(* roots: --sitemap; doc: the sitemaps there are; entry: the normalized    *)
(* entry URL; final: scopeOrigin, the URL where its fetch ended as net/url *)
(* writes it, which after a redirect may be any other; allowed:            *)
(* --allow-host; prefix: --path-prefix; files: the HTML files of           *)
(* --local-root, which may be unreadable.                                  *)
ASSUME SiteAssumption ==
    \A w \in Sites :
        /\ w.roots \in Seq(Absolute)
        /\ IsFiniteSet(DOMAIN w.doc) /\ \A u \in DOMAIN w.doc : w.doc[u] \in Document
        /\ w.entry \in URL /\ w.final \in Absolute /\ w.allowed \subseteq Absolute
        /\ w.prefix \in Seq(STRING)
        /\ w.files \subseteq File /\ w.unreadable \in BOOLEAN

VARIABLES
    site,          \* fixed
    phase,         \* "sitemaps", "localRoot", "done" or "failed"
    queue,         \* sitemaps to fetch
    seenSitemaps,
    seenPages,
    childSitemaps, \* in-scope entries of sitemap indexes so far
    seeds,         \* records [link, source], in order
    skips,         \* records [link, reason, source], pages out of scope
    fetched,       \* the sitemaps fetched, in order (history)
    localSeeds     \* the URLs of the local root

vars == <<site, phase, queue, seenSitemaps, seenPages, childSitemaps, seeds, skips,
          fetched, localSeeds>>

Init ==
    /\ site \in Sites
    /\ phase = "sitemaps"
    /\ queue = site.roots
    /\ seenSitemaps = {} /\ seenPages = {} /\ childSitemaps = 0
    /\ seeds = <<>> /\ skips = <<>> /\ fetched = <<>> /\ localSeeds = {}

Scope == NewScope(site.final, site.allowed, site.prefix)

(* What is found at a sitemap: a request carries no fragment. *)
NotFound == [broken |-> TRUE, children |-> <<>>, pages |-> <<>>]
Fetch(u) == IF FetchURL(u) \in DOMAIN site.doc THEN site.doc[FetchURL(u)] ELSE NotFound

(* The locations of a sitemap, normalized; the sitemap is their base.      *)
Links(locations, u) == [i \in DOMAIN locations |-> NormalizeLink(locations[i], u)]

Allowed(link) == Check(Scope, FetchURL(link)) = "allowed"

(* The children of an index that are queued. *)
InScope(children) == Select(children, {i \in DOMAIN children : Allowed(children[i])})

(* The loop over the pages of one sitemap.  A page counts as seen when it  *)
(* is met first, in scope or not, within the cap or not.                   *)
MetFirst(pages) ==
    {i \in DOMAIN pages : pages[i] \notin seenPages /\ \A j \in 1..(i - 1) : pages[j] # pages[i]}

RoomForSeeds_OneMore == MaxURLs + 1 - Len(seeds)
RoomForSeeds == MaxURLs - Len(seeds)

Smaller(a, b) == IF a < b THEN a ELSE b

TakePages(pages, source) ==
    LET fresh   == MetFirst(pages)
        allowed == Select(pages, {i \in fresh : Allowed(pages[i])})
        refused == Select(pages, {i \in fresh : ~Allowed(pages[i])})
    IN  /\ seenPages' = seenPages \cup ToSet(pages)
        /\ seeds' = seeds \o [i \in 1..Smaller(Len(allowed), RoomForSeeds) |->
                                [link |-> allowed[i], source |-> source]]
        /\ skips' = skips \o [i \in DOMAIN refused |->
                                [link |-> refused[i], source |-> source,
                                 reason |-> Check(Scope, FetchURL(refused[i]))]]

OverLimit_Never(n) == FALSE
OverLimit(n) == n > MaxChildren

Fail ==
    /\ phase' = "failed"
    /\ UNCHANGED <<queue, seenPages, childSitemaps, seeds, skips, localSeeds>>

(* The next sitemap.  What --sitemap names is normalized here; the queued  *)
(* children were before.                                                   *)
Current == NormalizeLink(Head(queue), Head(queue))

(* A sitemap queued twice is fetched once. *)
Seen_Never(u) == FALSE
Seen(u) == u \in seenSitemaps

SkipSitemap_Stuck ==
    /\ phase = "sitemaps" /\ queue # <<>>
    /\ Seen(Current)
    /\ UNCHANGED vars
SkipSitemap ==
    /\ phase = "sitemaps" /\ queue # <<>>
    /\ Seen(Current)
    /\ queue' = Tail(queue)
    /\ UNCHANGED <<site, phase, seenSitemaps, seenPages, childSitemaps, seeds, skips,
                   fetched, localSeeds>>

(* One iteration of the loop: fetch and parse the sitemap (any failure     *)
(* fails the whole seeding), queue its children, collect its pages.        *)
FetchSitemap ==
    /\ phase = "sitemaps" /\ queue # <<>>
    /\ Current # Malformed /\ ~Seen(Current)
    /\ \E u \in {Current} : \E document \in {Fetch(u)} :
       \E children \in {Links(document.children, u)}, pages \in {Links(document.pages, u)} :
           /\ seenSitemaps' = seenSitemaps \cup {u}
           /\ fetched' = Append(fetched, u)
           /\ IF \/ document.broken
                 \/ Malformed \in ToSet(children) \cup ToSet(pages)
                 \/ OverLimit(childSitemaps + Len(InScope(children)))
              THEN Fail
              ELSE /\ queue' = Tail(queue) \o InScope(children)
                   /\ childSitemaps' = childSitemaps + Len(InScope(children))
                   /\ TakePages(pages, u)
                   /\ UNCHANGED <<phase, localSeeds>>
    /\ UNCHANGED site

SitemapsDone ==
    /\ phase = "sitemaps" /\ queue = <<>>
    /\ phase' = "localRoot"
    /\ UNCHANGED <<site, queue, seenSitemaps, seenPages, childSitemaps, seeds, skips,
                   fetched, localSeeds>>

(* The base is scopeOrigin, not the entry URL.                             *)
LocalSeedURL_BelowEntry(file) ==
    NormalizeURL([site.entry EXCEPT !.path = LocalSeed(@, file), !.fragment = ""])
LocalSeedURL(file) ==
    NormalizeURL([site.final EXCEPT !.path = LocalSeed(@, file), !.fragment = ""])

WalkLocalRoot ==
    /\ phase = "localRoot"
    /\ IF site.unreadable
       THEN Fail
       ELSE /\ phase' = "done"
            /\ localSeeds' = {LocalSeedURL(f) : f \in site.files}
            /\ UNCHANGED <<queue, seenPages, childSitemaps, seeds, skips>>
    /\ UNCHANGED <<site, seenSitemaps, fetched>>

Finished == phase \in {"done", "failed"} /\ UNCHANGED vars

Next == SkipSitemap \/ FetchSitemap \/ SitemapsDone \/ WalkLocalRoot \/ Finished

(* Each fetch ends: the HTTP client has a timeout. *)
Spec == Init /\ [][Next]_vars /\ WF_vars(Next)

-----------------------------------------------------------------------------
(* What the sitemaps hold, independently of the walk and of normalization *)

(* What a location asks for: of which server, which path, and what on it.  *)
Port(u) == CASE u.port # "" -> u.port
             [] u.port = "" /\ u.scheme = "https" -> "443"
             [] OTHER -> "80"
Server(u) == <<u.scheme, LowerHost[u.host], Port(u)>>
Resource(u) == <<Server(u), IF u.path = <<>> THEN <<"">> ELSE u.path, u.fragment>>

(* "Origin means scheme, host, and port" (docs/usage.md).                  *)
SameSite(resource) == resource[1] \in {Server(u) : u \in site.allowed \cup {site.final}}
WithinScope(resource) == SameSite(resource) /\ HasPrefix(resource[2], site.prefix)

Children(u) ==
    {link \in ToSet(Links(Fetch(u).children, u)) : link # Malformed /\ WithinScope(Resource(link))}

Roots == {NormalizeLink(h, h) : h \in ToSet(site.roots)}

(* The sitemaps a site leads to: the roots, the in-scope children of those, *)
(* and so on.  A chain of children repeats itself after all documents.      *)
Within[n \in Nat] ==
    IF n = 0 THEN Roots
    ELSE LET nearer == Within[n - 1] IN nearer \cup UNION {Children(u) : u \in nearer}

Reachable == Within[Cardinality(DOMAIN site.doc) + 1]

Faulty(u) ==
    LET document == Fetch(u) IN
    \/ document.broken
    \/ Malformed \in ToSet(Links(document.children, u)) \cup ToSet(Links(document.pages, u))

(* The entries in scope of the indexes in a set of sitemaps. *)
EntriesOf(u) ==
    LET children == Links(Fetch(u).children, u)
    IN  {<<u, i>> : i \in {k \in DOMAIN children : children[k] \in Children(u)}}
IndexEntries(sitemaps) == UNION {EntriesOf(u) : u \in sitemaps}

ListedBy(u) == {Resource(Resolved(h, u)) : h \in ToSet(Fetch(u).pages) \ {Malformed}}
Listed == UNION {ListedBy(u) : u \in Reachable}

Resources(records) == {Resource(records[i].link) : i \in DOMAIN records}

Distinct(records) ==
    \A i, j \in DOMAIN records :
        Resource(records[i].link) = Resource(records[j].link) => i = j

-----------------------------------------------------------------------------
(* Every variable has its type, and the seeds stay within the cap. *)
TypeOK ==
    /\ site \in Sites
    /\ phase \in {"sitemaps", "localRoot", "done", "failed"}
    /\ queue \in Seq(Location) /\ fetched \in Seq(URL)
    /\ seenSitemaps \subseteq URL /\ seenPages \subseteq URL
    /\ childSitemaps \in 0..MaxChildren
    /\ seeds \in Seq([link : URL, source : URL]) /\ Len(seeds) <= MaxURLs
    /\ skips \in Seq([link : URL, source : URL,
                      reason : {"external_origin", "outside_path_prefix"}])

(* However the sitemap indexes refer to each other or to themselves, and   *)
(* however they spell it, each location of a sitemap is fetched once and   *)
(* only the reachable ones are: the roots, in scope or not, and children   *)
(* in scope.  The fragment is part of a location (sitemap.go:122): an      *)
(* index that lists s and s#top has that one sitemap fetched twice.        *)
SitemapsFetchedOnce ==
    /\ IsInjective([i \in DOMAIN fetched |-> Resource(fetched[i])])
    /\ ToSet(fetched) \subseteq Reachable
    /\ phase \in {"localRoot", "done"} => ToSet(fetched) = Reachable

(* Whether seeding succeeds depends on the sitemaps alone, never on the    *)
(* order of the walk: it fails exactly when a reachable sitemap is faulty  *)
(* or the reachable indexes list more children than the limit.             *)
OutcomeDetermined ==
    LET sound == /\ \A u \in Reachable : ~Faulty(u)
                 /\ Cardinality(IndexEntries(Reachable)) <= MaxChildren
    IN  /\ phase \in {"localRoot", "done"} => sound
        /\ phase = "failed" => ~sound \/ site.unreadable

(* "A sitemap broadens discovery, not crawl permission": the seeds are the *)
(* distinct listed pages in scope, all of them unless the cap is reached,  *)
(* and every listed page out of scope is skipped, once and for its reason, *)
(* cap or no cap.  Two spellings are one page exactly when they ask one    *)
(* server for one thing.                                                   *)
PagesAccountedFor ==
    /\ Distinct(seeds) /\ Distinct(skips)
    /\ \A i \in DOMAIN seeds : Resource(seeds[i].link) \in ListedBy(seeds[i].source)
    /\ \A i \in DOMAIN skips :
         skips[i].reason = "outside_path_prefix" <=> SameSite(Resource(skips[i].link))
    /\ phase = "done" =>
         LET wanted == {p \in Listed : WithinScope(p)}
         IN  /\ Resources(skips) = Listed \ wanted
             /\ Resources(seeds) \subseteq wanted
             /\ wanted = Resources(seeds) \/ Len(seeds) = MaxURLs

(* What a seed of a file has to be, whatever joins the two paths: a page   *)
(* of the server where the fetch of the entry ended, at the file's place   *)
(* below the directory of that page, an index standing for its directory.  *)
Directory(path) == Segments(IF path = <<>> THEN <<>> ELSE Front(path), {"", "."})
Mirrors(u, file) ==
    /\ Server(u) = Server(site.final) /\ u.fragment = ""
    /\ Segments(u.path, {"", "."}) =
         Directory(site.final.path) \o IF IsIndex(file) THEN Front(file) ELSE file
    /\ EndsInSlash(u.path) <=> IsIndex(file)

(* The seeds mirror the local build below the page where the fetch of the  *)
(* entry ended, on whatever server and in whatever directory a redirect    *)
(* led to: every file has one seed, its own or shared with another index   *)
(* of its directory, and there is no seed besides.  (Empty segments do not *)
(* count here: IndexIsDirectoryURL is about those.)                        *)
LocalSeedsMirrorBuild ==
    phase = "done" =>
        /\ \A u \in localSeeds : \E f \in site.files : Mirrors(u, f)
        /\ \A f \in site.files : \E u \in localSeeds : Mirrors(u, f)
        /\ \A f \in site.files : \A u, v \in localSeeds : Mirrors(u, f) /\ Mirrors(v, f) => u = v

(* Seeding ends, also when sitemap indexes form a cycle. *)
SeedingEnds == <>(phase \in {"done", "failed"})

(* docs/usage.md: "Araneae maps files in the directory to URLs under the   *)
(* entry URL path. It maps `index.html` to the directory URL."  Stated for *)
(* entries whose fetch ends where it began: of an entry that redirects the *)
(* code maps the files below the page it led to.                           *)
IndexIsDirectoryURL ==
    phase = "done" /\ site.final = site.entry =>
        \A f \in site.files :
            IsIndex(f) =>
                [site.entry EXCEPT !.path = Append(Segments(Front(@), {"", "."}) \o Front(f), "")]
                    \in localSeeds
=============================================================================
