------------------------------ MODULE LocalRoot ------------------------------
(***************************************************************************)
(* How localroot.go maps the HTML files of a local build to URL paths.     *)
(* A path is the sequence of its segments; a trailing slash is an empty    *)
(* last segment: "/" is <<"">>, "/docs/" is <<"docs", "">>, "//" is        *)
(* <<"", "">>.  A file is the sequence of its names below the root.        *)
(***************************************************************************)
EXTENDS Normalize

CONSTANT IndexNames     \* index.html and index.htm, in any case

EndsInSlash(p) == p # <<>> /\ Last(p) = ""

(* path.Clean of an absolute path: neither empty segments nor dots, except *)
(* for "/" itself.                                                         *)
CleanPath(p) ==
    LET kept == Segments(p, {"", "."}) IN IF kept = <<>> THEN <<"">> ELSE kept

PathDir(p) == CleanPath(Front(p))

(* localRootBasePath: the directory of the page given as the entry. *)
LocalRootBasePath(entry) ==
    CASE entry = <<>> -> <<"">>
      [] EndsInSlash(entry) -> entry
      [] OTHER -> Append(PathDir(entry), "")

IsIndex(file) == Last(file) \in IndexNames

(* localHTMLRoute: an index file stands for its directory. *)
LocalHTMLRoute(file) ==
    CASE IsIndex(file) /\ Len(file) = 1 -> <<>>
      [] IsIndex(file) /\ Len(file) > 1 -> Append(Front(file), "")
      [] OTHER -> file

(* joinURLPath: path.Join cleans what it joins, and loses a trailing slash *)
(* that is put back; an empty route is the base itself.                    *)
JoinURLPath(base, route) ==
    IF route = <<>> THEN base
    ELSE LET joined == CleanPath(base \o route)
         IN  IF EndsInSlash(route) /\ ~EndsInSlash(joined) THEN Append(joined, "") ELSE joined

(* The path of the seed of a file. *)
LocalSeed(entry, file) == JoinURLPath(LocalRootBasePath(entry), LocalHTMLRoute(file))
=============================================================================
