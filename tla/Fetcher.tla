------------------------------ MODULE Fetcher --------------------------------
(***************************************************************************)
(* One request of HTTPFetcher.fetch (internal/crawl/fetcher.go): the       *)
(* headers it carries along its redirects, its end, and what the report    *)
(* and the UI make of a link to the fetched URL.  net/http follows the     *)
(* redirects; the code decides in CheckRedirect whether to go on and with  *)
(* which headers.                                                          *)
(***************************************************************************)
EXTENDS Health, Sequences, SequencesExt

CONSTANTS
    Url,
    OriginOf,       \* [Url -> origin]: scheme, host and port
    HostOf,         \* [Url -> host], what net/http compares
    HeaderOrigin,   \* the origin of the entry URL
    MaxRequests,    \* the requests of one redirect chain (10 in the code)
    Ids             \* the sets of ids pages may have

(* Names --header may configure: one net/http takes for sensitive, an      *)
(* ordinary one, and User-Agent, whose value the --user-agent flag wins.   *)
HeaderName == {"sensitive", "custom", "agent"}
Header == [HeaderName -> {"absent", "configured", "flag"}]

ASSUME UrlAssumption ==
    /\ DOMAIN OriginOf = Url /\ DOMAIN HostOf = Url
    /\ MaxRequests \in Nat \ {0}
    /\ Ids \subseteq SUBSET Id

Statuses == {200, 301, 404, 410, 429, 503}

Request == [url : Url, header : Header]

Result == [error : Errors \cup {NoProblem}, status : Nat, html : BOOLEAN, redirected : BOOLEAN]

VARIABLES
    configured,  \* the header names --header configures, fixed
    readAny,     \* FetchBody (sitemaps) rather than Fetch (pages), fixed
    fragment,    \* the fragment of the link to the URL, as written, fixed
    phase,       \* "send", "sent" or "done"
    url,         \* the URL of the request at hand
    header,      \* its headers
    stripped,    \* net/http withholds sensitive headers from now on
    via,         \* the requests sent
    chain,       \* FetchResult.RedirectChain
    cause,       \* what ended the request
    fetch,       \* the FetchResult
    ids          \* the ids of the page, when it was parsed

vars == <<configured, readAny, fragment, phase, url, header, stripped, via, chain,
          cause, fetch, ids>>

SameOrigin(u, o) == OriginOf[u] = o

(* The headers of the first request: addConfiguredHeaders, then the agent. *)
FirstHeader(u) ==
    [n \in HeaderName |->
        CASE n = "agent" -> "flag"
          [] n # "agent" /\ n \in configured /\ SameOrigin(u, HeaderOrigin) -> "configured"
          [] OTHER -> "absent"]

(* net/http repeats the first request's headers at every redirect, minus   *)
(* the sensitive ones once the chain has left the first host.              *)
Repeated(h, without) ==
    [n \in HeaderName |-> IF n = "sensitive" /\ without THEN "absent" ELSE h[n]]

(* dropConfiguredHeadersOnCrossOriginRedirect compares with the first      *)
(* request, deletes every configured name and restores the agent.          *)
CrossOrigin_FromLast(u) == OriginOf[u] # OriginOf[Last(via).url]
CrossOrigin(u) == OriginOf[u] # OriginOf[via[1].url]

Dropped(h) ==
    [n \in HeaderName |->
        CASE n = "agent" -> "flag"
          [] n # "agent" /\ n \in configured -> "absent"
          [] OTHER -> h[n]]

TooManyRedirects_OneLate == Len(via) > MaxRequests
TooManyRedirects == Len(via) >= MaxRequests

Nothing == [error |-> NoProblem, status |-> 0, html |-> FALSE, redirected |-> FALSE]

Init ==
    /\ configured \in SUBSET HeaderName
    /\ readAny \in BOOLEAN
    /\ fragment \in Id \cup {NoFragment}
    /\ phase = "send" /\ url \in Url
    /\ header = FirstHeader(url)
    /\ stripped = FALSE /\ via = <<>> /\ chain = <<>>
    /\ cause = "none" /\ fetch = Nothing /\ ids = {}

Send ==
    /\ phase = "send"
    /\ via' = Append(via, [url |-> url, header |-> header])
    /\ phase' = "sent"
    /\ UNCHANGED <<configured, readAny, fragment, url, header, stripped, chain, cause,
                   fetch, ids>>

End(why, result, found) ==
    /\ phase' = "done" /\ cause' = why /\ fetch' = result /\ ids' = found
    /\ UNCHANGED <<configured, readAny, fragment, url, header, stripped, via>>

(* The server redirects to u: CheckRedirect stops the chain or lets the    *)
(* next request go with the headers it settles.                            *)
Redirect(u) ==
    /\ phase = "sent"
    /\ chain' = Append(chain, u)
    /\ IF TooManyRedirects
       THEN End("redirects", [Nothing EXCEPT !.error = "too_many_redirects"], {})
       ELSE LET left == stripped \/ HostOf[u] # HostOf[via[1].url]
                copy == Repeated(via[1].header, left)
            IN  /\ stripped' = left
                /\ header' = IF CrossOrigin(u) THEN Dropped(copy) ELSE copy
                /\ url' = u /\ phase' = "send"
                /\ UNCHANGED <<configured, readAny, fragment, via, cause, fetch, ids>>

(* No response: the problem is classified from the error. *)
Fail ==
    /\ phase = "sent" /\ UNCHANGED chain
    /\ \E e \in {"timeout", "tls_error", "network_error"} :
         End(e, [Nothing EXCEPT !.error = e], {})

Received(status, html, error) ==
    [error |-> error, status |-> status, html |-> html, redirected |-> url # via[1].url]

(* Only the body of a 200 HTML page is read, or of any 200 for a sitemap.  *)
BodyIsRead(status, html) == status = 200 /\ (readAny \/ html)

RespondWithoutBody ==
    /\ phase = "sent" /\ UNCHANGED chain
    /\ \E status \in Statuses, html \in BOOLEAN :
         /\ ~BodyIsRead(status, html)
         /\ End("response", Received(status, html, NoProblem), {})

(* Reading fails, also by the timeout, or exceeds the limit; a page (not a *)
(* sitemap) that was read is parsed by processFetch, which may fail too.   *)
RespondWithBody ==
    /\ phase = "sent" /\ UNCHANGED chain
    /\ \E html \in BOOLEAN :
         /\ BodyIsRead(200, html)
         /\ \/ End("body_broken", Received(200, html, "network_error"), {})
            \/ End("timeout", Received(200, html, "network_error"), {})
            \/ End("body_too_large", Received(200, html, "response_too_large"), {})
            \/ ~readAny /\ End("unparsable", Received(200, html, "parsing_error"), {})
            \/ \E found \in Ids :
                 End("response", Received(200, html, NoProblem), IF readAny THEN {} ELSE found)

Ended == phase = "done" /\ UNCHANGED vars

Next == Send \/ (\E u \in Url : Redirect(u)) \/ Fail \/ RespondWithoutBody
          \/ RespondWithBody \/ Ended

Spec == Init /\ [][Next]_vars

(* The report's verdict on the link, once a page (not a sitemap) is in.    *)
Checked == phase = "done" /\ ~readAny
Link == LinkHealth(fetch, LinkFragment(fragment), ids)

-----------------------------------------------------------------------------
(* Every variable has its type. *)
TypeOK ==
    /\ configured \subseteq HeaderName /\ readAny \in BOOLEAN
    /\ fragment \in Id \cup {NoFragment}
    /\ phase \in {"send", "sent", "done"} /\ url \in Url
    /\ header \in Header /\ stripped \in BOOLEAN
    /\ via \in Seq(Request) /\ Len(via) <= MaxRequests
    /\ chain \in Seq(Url) /\ ids \subseteq Id /\ fetch \in Result

(* docs/usage.md: headers go "only to the entry URL origin and same-origin *)
(* redirects", and there they do arrive: along every chain a configured    *)
(* header is sent to the entry's origin only, and a request that started   *)
(* there carries it whenever the chain is (again) there, unless net/http   *)
(* takes the name for sensitive.  "If you provide User-Agent with          *)
(* --header, the --user-agent flag value wins": in every request of the    *)
(* chain, also after the headers were dropped.                             *)
HeadersStayHome ==
    \A i \in 1..Len(via) :
        LET atHome(u) == SameOrigin(u, HeaderOrigin) IN
        /\ via[i].header["agent"] = "flag"
        /\ \A n \in configured \ {"agent"} :
             /\ via[i].header[n] = "configured" => atHome(via[i].url)
             /\ atHome(via[1].url) /\ atHome(via[i].url) /\ n = "custom"
                  => via[i].header[n] = "configured"

(* The redirects a result reports are those that were followed, plus the   *)
(* one that was one too many.                                              *)
ChainIsWhatHappened ==
    phase = "done" =>
        LET followed == [i \in 1..(Len(via) - 1) |-> via[i + 1].url]
        IN  IF fetch.error = "too_many_redirects"
            THEN Len(via) = MaxRequests /\ Front(chain) = followed
            ELSE chain = followed

(* A checked link is ok or has a problem, never both; a status other than  *)
(* 200 is what makes it non-200; every 404, 410, error and missing         *)
(* fragment makes it dead, and nothing else does.                          *)
HealthConsistent ==
    Checked =>
        /\ Link.ok <=> ~Link.dead /\ ~Link.non200
        /\ Link.non200 <=> Link.status \notin {0, 200}
        /\ Link.dead <=> Link.problem \notin {NoProblem, "http_status"} \/ Link.status \in {404, 410}
        /\ Link.problem = "missing_fragment" => Link.status = 200 /\ fetch.html

(* The three classifications agree: the UI lists every problem of the      *)
(* report under the same name as the baseline comparison, critical exactly *)
(* when it is dead and a warning otherwise, and adds only redirects that   *)
(* work, as information.                                                   *)
TriageAgrees ==
    Checked =>
        IF Link.dead \/ Link.non200
        THEN /\ IsTriageIssue(Link)
             /\ ProblemForLink(Link) = Link.problem /\ IssueProblem(Link) = Link.problem
             /\ SeverityForLink(Link) = IF Link.dead THEN "critical" ELSE "warning"
        ELSE IsTriageIssue(Link) =>
                ProblemForLink(Link) = "redirect" /\ SeverityForLink(Link) = "info"

-----------------------------------------------------------------------------
(* What the documentation says of the results, and the code does not do *)

(* docs/reports-and-ui.md: "`missing_fragment`: Araneae didn't find the    *)
(* linked fragment on a 200 HTML page", so the page does not have it.      *)
MissingMeansAbsent ==
    Checked /\ Link.problem = "missing_fragment" => fragment \notin ids

(* docs/reports-and-ui.md: "`timeout`: the request timed out".             *)
TimeoutsAreReported ==
    Checked /\ cause = "timeout" => fetch.error = "timeout"
=============================================================================
