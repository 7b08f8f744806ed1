---------------------------- MODULE FetcherProofs ----------------------------
(***************************************************************************)
(* Proofs about one request and its redirects, for all URLs, origins,      *)
(* headers and lengths of chains, and about the three classifications of   *)
(* a link, for all results a request may have.                             *)
(***************************************************************************)
EXTENDS Fetcher, TLAPS

(* The URL the chain started from: net/http copies its headers. *)
FirstURL == IF via = <<>> THEN url ELSE via[1].url

(* The headers a request to u may carry in a chain from `first'. *)
HeadersFit(first, u, h) ==
    /\ h["agent"] = "flag"
    /\ \A n \in configured \ {"agent"} :
         /\ h[n] = "configured" => SameOrigin(u, HeaderOrigin)
         /\ SameOrigin(first, HeaderOrigin) /\ SameOrigin(u, HeaderOrigin) /\ n = "custom"
              => h[n] = "configured"

(* The request at hand starts the chain or has been sent after others. *)
Started ==
    /\ via = <<>> => phase = "send" /\ header = FirstHeader(url)
    /\ via # <<>> => via[1].header = FirstHeader(via[1].url)
    /\ phase = "send" => Len(via) < MaxRequests
    /\ phase # "send" => via # <<>>

HeadersSettled ==
    /\ HeadersFit(FirstURL, url, header)
    /\ \A i \in 1..Len(via) : HeadersFit(via[1].url, via[i].url, via[i].header)

(* How far the reported chain is ahead of the requests sent. *)
ChainSettled ==
    /\ \A i \in 1..Len(via) : i <= Len(chain) /\ i < Len(via) => chain[i] = via[i + 1].url
    /\ phase = "send" => Len(chain) = Len(via) /\ (via # <<>> => chain[Len(via)] = url)
    /\ phase = "sent" => Len(chain) = Len(via) - 1
    /\ phase = "done" =>
         IF fetch.error = "too_many_redirects"
         THEN Len(via) = MaxRequests /\ Len(chain) = Len(via)
         ELSE Len(chain) = Len(via) - 1

(* A result without an error has the status of a response. *)
Answered(result) == result.error = NoProblem => result.status # 0

ResultSettled == phase = "done" => Answered(fetch)

IInv == TypeOK /\ Started /\ HeadersSettled /\ ChainSettled /\ ResultSettled

-----------------------------------------------------------------------------
(* Facts about types that the proofs use again and again *)

LEMMA NamesDiffer ==
    /\ NoProblem \notin Errors
    /\ NoProblem \notin {"too_many_redirects", "http_status", "missing_fragment"}
    /\ Errors \cap {"http_status", "missing_fragment"} = {}
  BY Zenon DEF NoProblem, Errors

LEMMA TypeFacts ==
    ASSUME TypeOK
    PROVE  /\ chain \in Seq(Url) /\ via \in Seq(Request)
           /\ Len(chain) \in Nat /\ Len(via) \in Nat /\ Len(via) <= MaxRequests
           /\ (via = <<>> <=> Len(via) = 0)
           /\ configured \subseteq HeaderName /\ stripped \in BOOLEAN /\ fetch \in Result
           /\ MaxRequests \in Nat
  <1>1. /\ chain \in Seq(Url) /\ via \in Seq(Request) /\ Len(via) <= MaxRequests
        /\ configured \subseteq HeaderName /\ stripped \in BOOLEAN /\ fetch \in Result
    BY DEF TypeOK
  <1> QED
    BY <1>1, UrlAssumption

LEMMA Appended ==
    ASSUME NEW S, NEW s \in Seq(S), NEW e \in S
    PROVE  /\ Append(s, e) \in Seq(S) /\ Len(Append(s, e)) = Len(s) + 1
           /\ \A i \in 1..Len(s) : Append(s, e)[i] = s[i]
           /\ Append(s, e)[Len(s) + 1] = e
  OBVIOUS

(* The results that the ways a request ends may have. *)
LEMMA ResultFacts ==
    /\ Nothing \in Result
    /\ \A e \in Errors : /\ [Nothing EXCEPT !.error = e] \in Result
                        /\ [Nothing EXCEPT !.error = e].error = e
  <1>1. Nothing \in Result /\ DOMAIN Nothing = {"error", "status", "html", "redirected"}
    BY DEF Nothing, Result
  <1>2. ASSUME NEW e \in Errors
        PROVE  /\ [Nothing EXCEPT !.error = e] \in Result
               /\ [Nothing EXCEPT !.error = e].error = e
    BY <1>1 DEF Result
  <1> QED
    BY <1>1, <1>2

LEMMA ReceivedFacts ==
    ASSUME NEW status \in Nat \ {0}, NEW html \in BOOLEAN, NEW error \in Errors \cup {NoProblem},
           NEW result, result = Received(status, html, error)
    PROVE  result \in Result /\ result.error = error /\ Answered(result)
  BY DEF Received, Result, Answered

-----------------------------------------------------------------------------
(* How the headers come about *)

LEMMA FirstHeaderFits ==
    ASSUME NEW u \in Url, configured \subseteq HeaderName
    PROVE  FirstHeader(u) \in Header /\ HeadersFit(u, u, FirstHeader(u))
  BY DEF FirstHeader, Header, HeaderName, HeadersFit

(* What a redirect carries on, whether net/http strips headers or not.     *)
LEMMA NextHeaderFits ==
    ASSUME TypeOK, via # <<>>, NEW u \in Url, NEW left \in BOOLEAN,
           via[1].header = FirstHeader(via[1].url)
    PROVE  LET copy == Repeated(via[1].header, left)
               next == IF CrossOrigin(u) THEN Dropped(copy) ELSE copy
           IN  next \in Header /\ HeadersFit(via[1].url, u, next)
  <1> DEFINE first == via[1].url
  <1> DEFINE copy == Repeated(FirstHeader(first), left)
  <1> DEFINE next == IF CrossOrigin(u) THEN Dropped(copy) ELSE copy
  <1>1. configured \subseteq HeaderName
    BY DEF TypeOK
  <1>2. \A n \in HeaderName :
          /\ n = "agent" => copy[n] = "flag"
          /\ n # "agent" => copy[n] \in {"absent", "configured"}
          /\ n # "agent" /\ copy[n] = "configured" => SameOrigin(first, HeaderOrigin)
          /\ n = "custom" /\ n \in configured /\ SameOrigin(first, HeaderOrigin) => copy[n] = "configured"
    BY DEF Repeated, FirstHeader, HeaderName
  <1>3. copy \in Header
    BY DEF Repeated, FirstHeader, Header, HeaderName
  <1>4. CASE CrossOrigin(u)
    <2>1. next = Dropped(copy)
      BY <1>4
    <2>2. Dropped(copy) \in Header
      BY <1>3 DEF Dropped, Header
    <2>3. Dropped(copy)["agent"] = "flag" /\ \A n \in configured \ {"agent"} : Dropped(copy)[n] = "absent"
      BY <1>1 DEF Dropped, HeaderName
    <2>4. SameOrigin(first, HeaderOrigin) => ~SameOrigin(u, HeaderOrigin)
      BY <1>4 DEF CrossOrigin, SameOrigin
    <2> QED
      BY <2>1, <2>2, <2>3, <2>4 DEF HeadersFit
  <1>5. CASE ~CrossOrigin(u)
    <2>1. next = copy
      BY <1>5
    <2>2. SameOrigin(first, HeaderOrigin) <=> SameOrigin(u, HeaderOrigin)
      BY <1>5 DEF CrossOrigin, SameOrigin
    <2>3. \A n \in configured : n \in HeaderName
      BY <1>1
    <2> QED
      BY <1>2, <1>3, <2>1, <2>2, <2>3 DEF HeadersFit, HeaderName
  <1> QED
    BY <1>4, <1>5

-----------------------------------------------------------------------------
LEMMA InitIInv == ASSUME Init PROVE IInv
  <1>1. header \in Header /\ HeadersFit(url, url, header)
    BY FirstHeaderFits DEF Init
  <1>2. TypeOK
    <2>1. via \in Seq(Request) /\ Len(via) <= MaxRequests /\ chain \in Seq(Url)
      BY UrlAssumption DEF Init
    <2> QED
      BY <1>1, <2>1, ResultFacts DEF Init, TypeOK
  <1>3. Started
    BY UrlAssumption DEF Init, Started
  <1>4. HeadersSettled
    BY <1>1 DEF Init, HeadersSettled, FirstURL
  <1> QED
    BY <1>2, <1>3, <1>4 DEF Init, IInv, ChainSettled, ResultSettled

-----------------------------------------------------------------------------
(* A request is sent: it joins the requests before it. *)
LEMMA SendKeeps == ASSUME IInv, Send PROVE IInv'
  <1> DEFINE sent == [url |-> url, header |-> header]
  <1>t. TypeOK
    BY DEF IInv
  <1>1. phase = "send" /\ phase' = "sent" /\ via' = Append(via, sent)
        /\ UNCHANGED <<configured, readAny, fragment, url, header, stripped, chain, cause, fetch, ids>>
    BY DEF Send
  <1>2. sent \in Request /\ via \in Seq(Request)
    BY <1>t DEF TypeOK, Request
  <1>3. /\ via' \in Seq(Request) /\ Len(via') = Len(via) + 1
        /\ \A i \in 1..Len(via) : via'[i] = via[i]
        /\ via'[Len(via) + 1] = sent
    BY <1>1, <1>2, Appended
  <1>4. Len(via) \in Nat /\ (via = <<>> <=> Len(via) = 0) /\ MaxRequests \in Nat
    BY <1>t, TypeFacts
  <1>5. via'[1].url = FirstURL
    <2>1. CASE via = <<>>
      BY <2>1, <1>3, <1>4 DEF FirstURL
    <2>2. CASE via # <<>>
      BY <2>2, <1>3, <1>4 DEF FirstURL
    <2> QED
      BY <2>1, <2>2
  <1>6. TypeOK'
    <2>1. Len(via') <= MaxRequests
      BY <1>1, <1>3, <1>4 DEF IInv, Started
    <2> QED
      BY <1>t, <1>1, <1>3, <2>1 DEF TypeOK
  <1>7. Started'
    <2>1. via' # <<>>
      BY <1>3, <1>4
    <2>2. via'[1].header = FirstHeader(via'[1].url)
      <3>1. CASE via = <<>>
        BY <3>1, <1>3, <1>4 DEF IInv, Started
      <3>2. CASE via # <<>>
        BY <3>2, <1>3, <1>4 DEF IInv, Started
      <3> QED
        BY <3>1, <3>2
    <2> QED
      BY <2>1, <2>2, <1>1 DEF Started, FirstHeader
  <1>8. HeadersSettled'
    <2>1. FirstURL' = FirstURL
      BY <1>3, <1>4, <1>5 DEF FirstURL
    <2>2. \A i \in 1..Len(via') : HeadersFit(FirstURL, via'[i].url, via'[i].header)
      <3>1. ASSUME NEW i \in 1..Len(via) PROVE HeadersFit(FirstURL, via'[i].url, via'[i].header)
        BY <3>1, <1>3, <1>4 DEF IInv, HeadersSettled, FirstURL
      <3>2. HeadersFit(FirstURL, via'[Len(via) + 1].url, via'[Len(via) + 1].header)
        BY <1>3 DEF IInv, HeadersSettled
      <3> QED
        BY <3>1, <3>2, <1>3, <1>4
    <2>3. ASSUME NEW f, NEW u, NEW h, HeadersFit(f, u, h)
          PROVE  \A n \in configured' \ {"agent"} :
                   /\ h[n] = "configured" => SameOrigin(u, HeaderOrigin)
                   /\ SameOrigin(f, HeaderOrigin) /\ SameOrigin(u, HeaderOrigin) /\ n = "custom"
                        => h[n] = "configured"
      BY <2>3, <1>1 DEF HeadersFit
    <2>4. HeadersFit(FirstURL, url, header)
      BY DEF IInv, HeadersSettled
    <2> QED
      BY <2>1, <2>2, <2>4, <1>1, <1>5 DEF HeadersSettled, HeadersFit, SameOrigin
  <1>9. ChainSettled'
    <2>1. Len(chain) = Len(via) /\ (via # <<>> => chain[Len(via)] = url)
      BY <1>1 DEF IInv, ChainSettled
    <2>2. ASSUME NEW i \in 1..Len(via'), i <= Len(chain), i < Len(via')
          PROVE  chain[i] = via'[i + 1].url
      <3>1. CASE i < Len(via)
        BY <3>1, <2>2, <1>3, <1>4 DEF IInv, ChainSettled
      <3>2. CASE i = Len(via)
        BY <3>2, <2>1, <2>2, <1>3, <1>4
      <3> QED
        BY <3>1, <3>2, <2>2, <1>3, <1>4
    <2> QED
      BY <2>1, <2>2, <1>1, <1>3, <1>4 DEF ChainSettled
  <1> QED
    BY <1>1, <1>6, <1>7, <1>8, <1>9 DEF IInv, ResultSettled

-----------------------------------------------------------------------------
(* The request ends, with a result that fits the chain.                    *)
LEMMA EndKeeps ==
    ASSUME IInv, phase = "sent", NEW why, NEW found \in SUBSET Id,
           NEW result \in Result,
           Answered(result),
           result.error # "too_many_redirects", UNCHANGED chain, End(why, result, found)
    PROVE  IInv'
  <1>t. TypeOK
    BY DEF IInv
  <1>1. /\ phase' = "done" /\ fetch' = result /\ ids' = found
        /\ UNCHANGED <<configured, readAny, fragment, url, header, stripped, via, chain>>
    BY DEF End
  <1>2. TypeOK'
    BY <1>t, <1>1 DEF TypeOK
  <1>3. Started'
    BY <1>1 DEF IInv, Started, FirstHeader
  <1>4. HeadersSettled'
    BY <1>1 DEF IInv, HeadersSettled, HeadersFit, FirstURL
  <1>5. ChainSettled'
    BY <1>1 DEF IInv, ChainSettled
  <1> QED
    BY <1>1, <1>2, <1>3, <1>4, <1>5 DEF IInv, ResultSettled

(* The chain was too long already: it ends with the redirect not followed. *)
LEMMA TooManyKeeps ==
    ASSUME IInv, NEW u \in Url, Redirect(u), TooManyRedirects
    PROVE  IInv'
  <1>t. TypeOK
    BY DEF IInv
  <1> DEFINE result == [Nothing EXCEPT !.error = "too_many_redirects"]
  <1>1. /\ phase = "sent" /\ phase' = "done" /\ fetch' = result /\ ids' = {}
        /\ chain' = Append(chain, u)
        /\ UNCHANGED <<configured, readAny, fragment, url, header, stripped, via>>
    BY DEF Redirect, End
  <1>2. /\ result \in Result
        /\ result.error = "too_many_redirects"
    BY ResultFacts DEF Errors
  <1>3. Len(via) = MaxRequests /\ Len(via) \in Nat
    BY <1>t, TypeFacts DEF TooManyRedirects
  <1>4. chain \in Seq(Url) /\ chain' \in Seq(Url) /\ Len(chain') = Len(chain) + 1
        /\ \A i \in 1..Len(chain) : chain'[i] = chain[i]
    BY <1>t, <1>1, TypeFacts, Appended
  <1>5. TypeOK'
    BY <1>t, <1>1, <1>2, <1>4 DEF TypeOK
  <1>6. Started'
    BY <1>1 DEF IInv, Started, FirstHeader
  <1>7. HeadersSettled'
    BY <1>1 DEF IInv, HeadersSettled, HeadersFit, FirstURL
  <1>8. ChainSettled'
    <2>1. Len(chain) = Len(via) - 1
      BY <1>1 DEF IInv, ChainSettled
    <2>2. ASSUME NEW i \in 1..Len(via), i < Len(via) PROVE chain'[i] = via[i + 1].url
      BY <2>1, <2>2, <1>3, <1>4 DEF IInv, ChainSettled
    <2> QED
      <3>1. fetch'.error = "too_many_redirects"
        BY <1>1, <1>2
      <3>2. Len(chain') = Len(via)
        BY <2>1, <1>3, <1>4
      <3> QED
        BY <2>2, <3>1, <3>2, <1>1, <1>3 DEF ChainSettled
  <1> QED
    BY <1>1, <1>2, <1>5, <1>6, <1>7, <1>8, NamesDiffer DEF IInv, ResultSettled, Answered

(* A redirect is followed. *)
LEMMA FollowKeeps ==
    ASSUME IInv, NEW u \in Url, Redirect(u), ~TooManyRedirects
    PROVE  IInv'
  <1>t. TypeOK
    BY DEF IInv
  <1> DEFINE left == stripped \/ HostOf[u] # HostOf[via[1].url]
  <1> DEFINE copy == Repeated(via[1].header, left)
  <1> DEFINE next == IF CrossOrigin(u) THEN Dropped(copy) ELSE copy
  <1>1. /\ phase = "sent" /\ phase' = "send" /\ url' = u
        /\ chain' = Append(chain, u) /\ stripped' = left /\ header' = next
        /\ UNCHANGED <<configured, readAny, fragment, via, cause, fetch, ids>>
    BY DEF Redirect
  <1>2. via # <<>> /\ via[1].header = FirstHeader(via[1].url)
    BY <1>1 DEF IInv, Started
  <1>3. left \in BOOLEAN
    BY <1>t DEF TypeOK
  <1>4. next \in Header /\ HeadersFit(via[1].url, u, next)
    BY <1>t, <1>2, <1>3, NextHeaderFits
  <1>5. chain \in Seq(Url) /\ chain' \in Seq(Url) /\ Len(chain') = Len(chain) + 1
        /\ (\A i \in 1..Len(chain) : chain'[i] = chain[i]) /\ chain'[Len(chain) + 1] = u
    BY <1>t, <1>1, TypeFacts, Appended
  <1>6. Len(via) \in Nat /\ Len(via) < MaxRequests
    BY <1>t, TypeFacts DEF TooManyRedirects
  <1>7. TypeOK'
    BY <1>t, <1>1, <1>3, <1>4, <1>5 DEF TypeOK
  <1>8. Started'
    BY <1>1, <1>2, <1>6 DEF Started, FirstHeader
  <1>9. HeadersSettled'
    <2>1. FirstURL' = via[1].url
      BY <1>1, <1>2 DEF FirstURL
    <2>2. \A i \in 1..Len(via) : HeadersFit(via[1].url, via[i].url, via[i].header)
      BY DEF IInv, HeadersSettled
    <2> QED
      BY <2>1, <2>2, <1>1, <1>4 DEF HeadersSettled, HeadersFit
  <1>10. ChainSettled'
    <2>1. Len(chain) = Len(via) - 1
      BY <1>1 DEF IInv, ChainSettled
    <2>2. ASSUME NEW i \in 1..Len(via), i < Len(via) PROVE chain'[i] = via[i + 1].url
      BY <2>1, <2>2, <1>5, <1>6 DEF IInv, ChainSettled
    <2> QED
      BY <2>1, <2>2, <1>1, <1>5, <1>6 DEF ChainSettled
  <1> QED
    BY <1>1, <1>7, <1>8, <1>9, <1>10 DEF IInv, ResultSettled

LEMMA NextKeeps == ASSUME IInv, [Next]_vars PROVE IInv'
  <1>t. TypeOK
    BY DEF IInv
  <1>1. CASE Send
    BY <1>1, SendKeeps
  <1>2. CASE \E u \in Url : Redirect(u)
    BY <1>2, TooManyKeeps, FollowKeeps
  <1>3. CASE Fail
    <2>1. PICK e \in {"timeout", "tls_error", "network_error"} : End(e, [Nothing EXCEPT !.error = e], {})
      BY <1>3 DEF Fail
    <2>2. [Nothing EXCEPT !.error = e] \in Result /\ [Nothing EXCEPT !.error = e].error = e
      BY ResultFacts DEF Errors
    <2>3. e # NoProblem /\ e # "too_many_redirects"
      BY NamesDiffer DEF Errors
    <2>4. Answered([Nothing EXCEPT !.error = e])
      BY <2>2, <2>3 DEF Answered
    <2>5. phase = "sent" /\ UNCHANGED chain
      BY <1>3 DEF Fail
    <2> QED
      BY <2>1, <2>2, <2>3, <2>4, <2>5, EndKeeps
  <1>4. CASE RespondWithoutBody
    <2>1. PICK status \in Statuses, html \in BOOLEAN : End("response", Received(status, html, NoProblem), {})
      BY <1>4 DEF RespondWithoutBody
    <2>2. status \in Nat /\ status # 0
      BY DEF Statuses
    <2>3. PICK result : result = Received(status, html, NoProblem)
      OBVIOUS
    <2>4. result \in Result /\ result.error = NoProblem /\ Answered(result)
      BY <2>2, <2>3, ReceivedFacts
    <2>5. phase = "sent" /\ UNCHANGED chain
      BY <1>4 DEF RespondWithoutBody
    <2> QED
      BY <2>1, <2>3, <2>4, <2>5, EndKeeps, NamesDiffer
  <1>5. CASE RespondWithBody
    <2>1. phase = "sent" /\ UNCHANGED chain
      BY <1>5 DEF RespondWithBody
    <2>2. ASSUME NEW why, NEW html \in BOOLEAN, NEW found \in SUBSET Id,
                 NEW error \in {NoProblem, "network_error", "response_too_large", "parsing_error"},
                 End(why, Received(200, html, error), found)
          PROVE  IInv'
      <3>1. error \in Errors \cup {NoProblem} /\ error # "too_many_redirects"
        BY NamesDiffer DEF Errors
      <3>2. PICK result : result = Received(200, html, error)
        OBVIOUS
      <3>3. result \in Result /\ result.error = error /\ Answered(result)
        BY <3>1, <3>2, ReceivedFacts
      <3> QED
        BY <2>1, <2>2, <3>1, <3>2, <3>3, EndKeeps
    <2>3. \A found \in Ids : (IF readAny THEN {} ELSE found) \in SUBSET Id
      BY UrlAssumption
    <2>4. PICK html \in BOOLEAN :
            /\ BodyIsRead(200, html)
            /\ \/ End("body_broken", Received(200, html, "network_error"), {})
               \/ End("timeout", Received(200, html, "network_error"), {})
               \/ End("body_too_large", Received(200, html, "response_too_large"), {})
               \/ ~readAny /\ End("unparsable", Received(200, html, "parsing_error"), {})
               \/ \E found \in Ids :
                    End("response", Received(200, html, NoProblem), IF readAny THEN {} ELSE found)
      BY <1>5 DEF RespondWithBody
    <2>5. CASE End("body_broken", Received(200, html, "network_error"), {})
      BY <2>2, <2>5
    <2>6. CASE End("timeout", Received(200, html, "network_error"), {})
      BY <2>2, <2>6
    <2>7. CASE End("body_too_large", Received(200, html, "response_too_large"), {})
      BY <2>2, <2>7
    <2>8. CASE End("unparsable", Received(200, html, "parsing_error"), {})
      BY <2>2, <2>8
    <2>9. CASE \E found \in Ids :
                 End("response", Received(200, html, NoProblem), IF readAny THEN {} ELSE found)
      <3>1. PICK found \in Ids :
              End("response", Received(200, html, NoProblem), IF readAny THEN {} ELSE found)
        BY <2>9
      <3>2. (IF readAny THEN {} ELSE found) \in SUBSET Id
        BY <2>3
      <3>3. NoProblem \in {NoProblem, "network_error", "response_too_large", "parsing_error"}
        OBVIOUS
      <3> QED
        BY <2>2, <3>1, <3>2, <3>3
    <2> QED
      BY <2>4, <2>5, <2>6, <2>7, <2>8, <2>9
  <1>6. CASE UNCHANGED vars
    <2>1. TypeOK'
      BY <1>t, <1>6 DEF TypeOK, vars
    <2>2. Started'
      BY <1>6 DEF IInv, Started, FirstHeader, vars
    <2>3. HeadersSettled'
      BY <1>6 DEF IInv, HeadersSettled, HeadersFit, FirstURL, vars
    <2>4. ChainSettled' /\ ResultSettled'
      BY <1>6 DEF IInv, ChainSettled, ResultSettled, vars
    <2> QED
      BY <2>1, <2>2, <2>3, <2>4 DEF IInv
  <1> QED
    BY <1>1, <1>2, <1>3, <1>4, <1>5, <1>6 DEF Next, Ended

LEMMA IInvHolds == Spec => []IInv
  BY InitIInv, NextKeeps, PTL DEF Spec

-----------------------------------------------------------------------------
(* The classifications of a link, of any result a request may have.        *)
Fits(link, result) ==
    /\ link.ok <=> ~link.dead /\ ~link.non200
    /\ link.non200 <=> link.status \notin {0, 200}
    /\ link.dead <=> link.problem \notin {NoProblem, "http_status"} \/ link.status \in {404, 410}
    /\ link.problem = "missing_fragment" => link.status = 200 /\ result.html
    /\ link.dead \/ link.non200 <=> link.problem # NoProblem
    /\ Gone(link.status) => link.dead
    /\ link.dead \in BOOLEAN /\ link.non200 \in BOOLEAN /\ link.redirected \in BOOLEAN

LEMMA VerdictOfLink ==
    ASSUME NEW result \in Result, Answered(result), NEW f, NEW s
    PROVE  Fits(LinkHealth(result, f, s), result)
  <1>l. SUFFICES ASSUME NEW link, link = LinkHealth(result, f, s)
                 PROVE  Fits(link, result)
    OBVIOUS
  <1>t. result.status \in Nat /\ result.redirected \in BOOLEAN /\ result.error \in Errors \cup {NoProblem}
    BY DEF Result
  <1>1. CASE result.error # NoProblem
    <2>1. link = [problem |-> result.error, dead |-> TRUE, non200 |-> result.status \notin {0, 200},
                  ok |-> FALSE, status |-> result.status, redirected |-> result.redirected]
      BY <1>1, <1>l, NamesDiffer DEF LinkHealth
    <2>2. result.error \notin {NoProblem, "http_status", "missing_fragment"}
      BY <1>t, <1>1, NamesDiffer DEF Errors
    <2> QED
      BY <2>1, <2>2, <1>t, NamesDiffer DEF Fits, Gone
  <1>2. CASE result.error = NoProblem /\ result.status # 200
    <2>1. link = [problem |-> "http_status", dead |-> Gone(result.status), non200 |-> TRUE,
                  ok |-> FALSE, status |-> result.status, redirected |-> result.redirected]
      BY <1>2, <1>l, NamesDiffer DEF LinkHealth
    <2>2. result.status \notin {0, 200}
      BY <1>2 DEF Answered
    <2>3. CASE result.status \in {404, 410}
      <3>1. link = [problem |-> "http_status", dead |-> TRUE, non200 |-> TRUE,
                    ok |-> FALSE, status |-> result.status, redirected |-> result.redirected]
        BY <2>1, <2>3 DEF Gone
      <3> QED
        BY <3>1, <2>2, <2>3, <1>t, NamesDiffer DEF Fits, Gone
    <2>4. CASE result.status \notin {404, 410}
      <3>1. link = [problem |-> "http_status", dead |-> FALSE, non200 |-> TRUE,
                    ok |-> FALSE, status |-> result.status, redirected |-> result.redirected]
        <4>1. Gone(result.status) = FALSE
          BY <2>4 DEF Gone
        <4> QED
          BY <2>1, <4>1
      <3> QED
        BY <3>1, <2>2, <2>4, <1>t, NamesDiffer DEF Fits, Gone
    <2> QED
      BY <2>3, <2>4
  <1>3. CASE result.error = NoProblem /\ result.status = 200
    <2>1. CASE FragmentMissing(result, f, s)
      <3>1. link = [problem |-> "missing_fragment", dead |-> TRUE, non200 |-> FALSE,
                    ok |-> FALSE, status |-> result.status, redirected |-> result.redirected]
        BY <1>3, <2>1, <1>l, NamesDiffer DEF LinkHealth
      <3> QED
        BY <3>1, <2>1, <1>3, <1>t, NamesDiffer DEF Fits, Gone, FragmentMissing
    <2>2. CASE ~FragmentMissing(result, f, s)
      <3>1. link = [problem |-> NoProblem, dead |-> FALSE, non200 |-> FALSE,
                    ok |-> TRUE, status |-> result.status, redirected |-> result.redirected]
        BY <1>3, <2>2, <1>l, NamesDiffer DEF LinkHealth
      <3> QED
        BY <3>1, <1>3, <1>t, NamesDiffer DEF Fits, Gone
    <2> QED
      BY <2>1, <2>2
  <1> QED
    BY <1>1, <1>2, <1>3

(* What the comparison and the UI make of a link that fits its result.     *)
LEMMA NameOfFailure ==
    ASSUME NEW link, NEW result, Fits(link, result), link.dead \/ link.non200
    PROVE  /\ IsTriageIssue(link)
           /\ ProblemForLink(link) = link.problem /\ IssueProblem(link) = link.problem
           /\ SeverityForLink(link) = IF link.dead THEN "critical" ELSE "warning"
  <1>1. link.problem # NoProblem
    BY DEF Fits
  <1>2. ProblemForLink(link) = link.problem
    BY <1>1, NamesDiffer DEF ProblemForLink
  <1>3. IssueProblem(link) = link.problem
    BY <1>1, NamesDiffer DEF IssueProblem
  <1>4. CASE link.dead
    <2>1. SeverityForLink(link) = "critical"
      BY <1>4, NamesDiffer DEF SeverityForLink
    <2> QED
      BY <1>2, <1>3, <1>4, <2>1, NamesDiffer DEF IsTriageIssue
  <1>5. CASE ~link.dead
    <2>1. link.non200 /\ ~Gone(link.status) /\ link.problem # "missing_fragment"
      BY <1>5, <1>1, NamesDiffer DEF Fits
    <2>2. SeverityForLink(link) = "warning"
      BY <1>5, <2>1, NamesDiffer DEF SeverityForLink
    <2> QED
      BY <1>2, <1>3, <1>5, <2>1, <2>2, NamesDiffer DEF IsTriageIssue
  <1> QED
    BY <1>4, <1>5

LEMMA NameOfNoFailure ==
    ASSUME NEW link, NEW result, Fits(link, result), ~(link.dead \/ link.non200),
           IsTriageIssue(link)
    PROVE  ProblemForLink(link) = "redirect" /\ SeverityForLink(link) = "info"
  <1>1. link.problem = NoProblem /\ ~link.dead /\ ~link.non200 /\ ~Gone(link.status)
    BY DEF Fits
  <1>2. link.redirected
    BY <1>1, NamesDiffer DEF IsTriageIssue
  <1> QED
    BY <1>1, <1>2, NamesDiffer DEF ProblemForLink, SeverityForLink

-----------------------------------------------------------------------------
(* The theorems *)

(* Every variable of a request has its type, along any chain.              *)
THEOREM TypeCorrect == Spec => []TypeOK
  <1>1. IInv => TypeOK
    BY DEF IInv
  <1> QED
    BY <1>1, IInvHolds, PTL

(* Configured headers reach the origin of the entry and no other, and the  *)
(* agent is that of its flag, in every request of every chain.             *)
THEOREM HeadersAreKeptHome == Spec => []HeadersStayHome
  <1>1. IInv => HeadersStayHome
    BY DEF IInv, HeadersSettled, HeadersFit, HeadersStayHome
  <1> QED
    BY <1>1, IInvHolds, PTL

(* The redirects that a result reports are those that happened.            *)
THEOREM ChainIsTrue == Spec => []ChainIsWhatHappened
  <1>1. ASSUME IInv PROVE ChainIsWhatHappened
    <2> DEFINE followed == [i \in 1..(Len(via) - 1) |-> via[i + 1].url]
    <2>1. SUFFICES ASSUME phase = "done"
                   PROVE  IF fetch.error = "too_many_redirects"
                          THEN Len(via) = MaxRequests /\ Front(chain) = followed
                          ELSE chain = followed
      BY DEF ChainIsWhatHappened
    <2>2. chain \in Seq(Url) /\ Len(via) \in Nat
      BY <1>1, TypeFacts DEF IInv
    <2>3. via # <<>>
      BY <1>1, <2>1 DEF IInv, Started
    <2>4. Len(via) > 0
      BY <1>1, <2>3, TypeFacts DEF IInv
    <2>5. CASE fetch.error = "too_many_redirects"
      <3>1. Len(via) = MaxRequests /\ Len(chain) = Len(via)
        BY <1>1, <2>1, <2>5 DEF IInv, ChainSettled
      <3>2. \A i \in 1..(Len(via) - 1) : chain[i] = via[i + 1].url
        BY <1>1, <3>1, <2>2 DEF IInv, ChainSettled
      <3>3. Front(chain) = [i \in 1..(Len(via) - 1) |-> chain[i]]
        BY <2>2, <2>4, <3>1 DEF Front
      <3> QED
        BY <2>5, <3>1, <3>2, <3>3
    <2>6. CASE fetch.error # "too_many_redirects"
      <3>1. Len(chain) = Len(via) - 1
        BY <1>1, <2>1, <2>6 DEF IInv, ChainSettled
      <3>2. \A i \in 1..(Len(via) - 1) : chain[i] = via[i + 1].url
        BY <1>1, <3>1, <2>2 DEF IInv, ChainSettled
      <3>3. chain = [i \in 1..(Len(via) - 1) |-> chain[i]]
        BY <2>2, <3>1
      <3> QED
        BY <2>6, <3>2, <3>3
    <2> QED
      BY <2>5, <2>6
  <1> QED
    BY <1>1, IInvHolds, PTL

(* Every checked link is ok or has a problem, and what makes it dead or    *)
(* non-200 is what its result says.                                        *)
THEOREM VerdictsAreConsistent == Spec => []HealthConsistent
  <1>1. ASSUME IInv, Checked PROVE HealthConsistent
    <2>1. fetch \in Result /\ Answered(fetch)
      BY <1>1 DEF IInv, TypeOK, ResultSettled, Checked
    <2>2. Fits(Link, fetch)
      BY <2>1, VerdictOfLink DEF Link
    <2> QED
      BY <2>2 DEF HealthConsistent, Fits
  <1>2. IInv => HealthConsistent
    BY <1>1 DEF HealthConsistent
  <1> QED
    BY <1>2, IInvHolds, PTL

(* The report, the comparison and the UI call every problem by one name,   *)
(* and the UI adds nothing but working redirects.                          *)
THEOREM ClassificationsAgree == Spec => []TriageAgrees
  <1>1. ASSUME IInv, Checked PROVE TriageAgrees
    <2>1. fetch \in Result /\ Answered(fetch)
      BY <1>1 DEF IInv, TypeOK, ResultSettled, Checked
    <2>2. Fits(Link, fetch)
      BY <2>1, VerdictOfLink DEF Link
    <2>3. CASE Link.dead \/ Link.non200
      BY <2>2, <2>3, NameOfFailure DEF TriageAgrees
    <2>4. CASE ~(Link.dead \/ Link.non200)
      BY <2>2, <2>4, NameOfNoFailure DEF TriageAgrees
    <2> QED
      BY <2>3, <2>4
  <1>2. IInv => TriageAgrees
    BY <1>1 DEF TriageAgrees
  <1> QED
    BY <1>2, IInvHolds, PTL

(* The link of a page that was fetched is what Baseline takes for a        *)
(* verdict: the assumption there on reports is what a fetch guarantees.    *)
THEOREM LinksAreVerdicts == Spec => [](Checked => IsVerdict(Link))
  <1>1. ASSUME IInv, Checked PROVE IsVerdict(Link)
    <2>1. /\ fetch \in Result /\ Answered(fetch) /\ ids \subseteq Id
          /\ fragment \in Id \cup {NoFragment}
      BY <1>1 DEF IInv, TypeOK, ResultSettled, Checked
    <2>2. Link.status = fetch.status /\ Link.redirected = fetch.redirected
      BY NamesDiffer DEF Link, LinkHealth
    <2>3. fetch = [error |-> fetch.error, status |-> Link.status, html |-> fetch.html,
                   redirected |-> Link.redirected]
      BY <2>1, <2>2 DEF Result
    <2>4. LinkFragment(fragment) \in Id \cup {NoFragment}
      BY <2>1, IdAssumption DEF LinkFragment
    <2>5. /\ fetch.error \in Errors \cup {NoProblem} /\ fetch.html \in BOOLEAN
          /\ fetch.error = NoProblem => Link.status # 0
      BY <2>1, <2>2 DEF Result, Answered
    <2>6. Link = LinkHealth(fetch, LinkFragment(fragment), ids)
      BY DEF Link
    <2> QED
      BY <2>1, <2>3, <2>4, <2>5, <2>6 DEF IsVerdict
  <1>2. IInv => (Checked => IsVerdict(Link))
    BY <1>1
  <1> QED
    BY <1>2, IInvHolds, PTL
=============================================================================
