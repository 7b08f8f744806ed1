------------------------------ MODULE Normalize ------------------------------
(***************************************************************************)
(* How a location becomes a link and a fetch target, and which targets a   *)
(* crawl may enter: internal/crawl/normalize.go.                           *)
(*                                                                         *)
(* A location is what net/url parses: scheme, host, port, path, fragment,  *)
(* "" for what it lacks.  A path is the sequence of its segments, as in    *)
(* LocalRoot; the path of a relative location is `rooted' or not.  Queries *)
(* and user names pass through unchanged and are left out.                 *)
(***************************************************************************)
EXTENDS Sequences, SequencesExt

CONSTANTS
    LowerHost,  \* [spelling of a host -> the host]
    Begins,     \* <<"doc", "docs">>: segments of which one begins the other
    Malformed   \* a location that is empty or that net/url does not parse

Host == DOMAIN LowerHost

Location == [scheme : STRING, host : Host \cup {""}, port : STRING, rooted : BOOLEAN,
             path : Seq(STRING), fragment : STRING]

(* strings.ToLower: a host in lower case stays what it is. *)
ASSUME HostAssumption ==
    /\ "" \notin Host
    /\ \A h \in Host : LowerHost[h] \in Host /\ LowerHost[LowerHost[h]] = LowerHost[h]

(* True of every string; stated because the provers do not know it.        *)
ASSUME StringAssumption == "" \in STRING

ASSUME MalformedAssumption == Malformed \notin Location

(* The segments of a path from left to right: `dropped' ones do not count, *)
(* and ".." takes back the one before it, if there is one.                 *)
AddSegment(kept, segment, dropped) ==
    CASE segment \in dropped -> kept
      [] segment \notin dropped /\ segment = ".." -> IF kept = <<>> THEN <<>> ELSE Front(kept)
      [] segment \notin dropped /\ segment # ".." -> Append(kept, segment)

Segments(path, dropped) ==
    LET kept[n \in 0..Len(path)] ==
            IF n = 0 THEN <<>> ELSE AddSegment(kept[n - 1], path[n], dropped)
    IN  kept[Len(path)]

(* net/url, RFC 3986 5.2.4: what "." and ".." segments come to. *)
RemoveDots(path) ==
    LET kept == Segments(path, {"."})
    IN  IF path # <<>> /\ Last(path) \in {".", ".."} THEN Append(kept, "") ELSE kept

(* net/url, ResolveReference: a location relative to the page it is on. *)
ResolveReference(source, href) ==
    LET directory == IF source.path = <<>> THEN <<>> ELSE Front(source.path)
        full == CASE href.path = <<>> -> source.path
                  [] href.path # <<>> /\ href.rooted -> href.path
                  [] OTHER -> directory \o href.path
    IN  IF href.host # ""
        THEN [href EXCEPT !.scheme = source.scheme, !.path = RemoveDots(@)]
        ELSE [scheme |-> source.scheme, host |-> source.host, port |-> source.port,
              rooted |-> TRUE, path |-> RemoveDots(full),
              fragment |-> IF href.path = <<>> /\ href.fragment = "" THEN source.fragment
                           ELSE href.fragment]

(* Only a location without a scheme is resolved: an absolute one keeps its *)
(* dot segments.                                                           *)
Resolved(href, source) == IF href.scheme = "" THEN ResolveReference(source, href) ELSE href

IsDefaultPort_AnyScheme(scheme, port) == port \in {"80", "443"}
IsDefaultPort(scheme, port) == <<scheme, port>> \in {<<"http", "80">>, <<"https", "443">>}

NormalizeURL(url) ==
    [url EXCEPT !.host = LowerHost[@],
                !.port = IF IsDefaultPort(url.scheme, @) THEN "" ELSE @,
                !.path = IF @ = <<>> THEN <<"">> ELSE @,
                !.rooted = TRUE]

(* What NormalizeLink may make of a location. *)
URL == {u \in Location : /\ u.scheme \in {"http", "https"}
                         /\ u.host \in Host /\ LowerHost[u.host] = u.host
                         /\ ~IsDefaultPort(u.scheme, u.port)
                         /\ u.rooted /\ u.path # <<>>}

(* LinkURL of NormalizeLink, or Malformed when it returns an error. *)
NormalizeLink(href, source) ==
    IF href = Malformed THEN Malformed
    ELSE LET target == Resolved(href, source) IN
         IF target.scheme \in {"", "http", "https"} /\ target.host # ""
         THEN NormalizeURL(target)
         ELSE Malformed

FetchURL(link) == [link EXCEPT !.fragment = ""]

-----------------------------------------------------------------------------
(* The scope of a crawl: the origin of the entry's final URL, those of     *)
(* --allow-host, and --path-prefix, <<>> without one.                      *)

Origin(url) == LET n == NormalizeURL(url) IN <<n.scheme, n.host, n.port>>

NewScope(entry, allowed, prefix) ==
    [origins |-> {Origin(url) : url \in allowed \cup {entry}}, prefix |-> prefix]

(* strings.HasPrefix of two paths: the last segment of the prefix need     *)
(* only begin one of the path.                                             *)
StartsWith(segment, prefix) == prefix \in {"", segment} \/ <<prefix, segment>> \in Begins

HasPrefix(path, prefix) ==
    prefix = <<>> \/ /\ Len(prefix) <= Len(path)
                     /\ Front(prefix) = SubSeq(path, 1, Len(prefix) - 1)
                     /\ StartsWith(path[Len(prefix)], Last(prefix))

(* Scope.Check: "allowed" or the reason why not. *)
Check(scope, link) ==
    CASE Origin(link) \notin scope.origins -> "external_origin"
      [] Origin(link) \in scope.origins /\ ~HasPrefix(link.path, scope.prefix) ->
           "outside_path_prefix"
      [] OTHER -> "allowed"
=============================================================================
