----------------------------- MODULE MCSeeding -------------------------------
(* Sitemap graphs over two roots, two nested sitemaps and one out of scope, *)
(* with cycles, duplicates under several spellings, failures and more pages *)
(* than the cap; local builds below entries at the root and deeper, and     *)
(* below the pages they redirect to.                                        *)
EXTENDS Seeding, TLC

At(scheme, host, port, path) ==
    [scheme |-> scheme, host |-> host, port |-> port, rooted |-> TRUE, path |-> path,
     fragment |-> ""]
Below(path) == [At("", "", "", path) EXCEPT !.rooted = FALSE]
Home(path) == At("https", "docs", "", path)

MCLowerHost == [h \in {"docs", "DOCS", "other"} |-> IF h = "DOCS" THEN "docs" ELSE h]
MCBegins == {<<"v1", "v10">>}

r1 == Home(<<"v1", "r1">>)
r2 == Home(<<"v1", "r2">>)
s == Home(<<"v1", "s">>)
t == Home(<<"v1", "sub", "t">>)

(* The same sitemaps and pages as others write them. *)
Shouted(u) == [u EXCEPT !.host = "DOCS", !.port = "443"]
sHref == Below(<<"s">>)
tHref == Below(<<"sub", ".", "t">>)
xHref == Below(<<"..", "x">>)                       \* outside the prefix
p1 == Home(<<"v1", "p1">>)
p1Href == Below(<<"p1">>)
p1Part == [Below(<<"p1">>) EXCEPT !.fragment = "part"]
p2 == At("", "", "", <<"v1", "sub", "..", "p2">>)
p3 == Home(<<"v10", "p3">>)                         \* beyond /v1/, not beyond /v1
away == At("http", "docs", "443", <<"v1", "p1">>)   \* another origin than https
plain == At("http", "docs", "", <<"v1", "p1">>)
other == At("", "other", "", <<>>)
mail == [Below(<<"me">>) EXCEPT !.scheme = "mailto"]

Index(children) == [broken |-> FALSE, children |-> children, pages |-> <<>>]
Urlset(pages) == [broken |-> FALSE, children |-> <<>>, pages |-> pages]

Docs1 == {Index(<<sHref, xHref, s>>), Index(<<Shouted(r1), tHref>>), Index(<<sHref, tHref, r2>>),
          Index(<<s, Malformed>>), Index(<<[sHref EXCEPT !.fragment = "top"], s>>),
          Urlset(<<p1, Shouted(p1), p1Href, xHref, p1Part>>)}
DocsS == {Index(<<t>>), Index(<<Shouted(r1), s>>), Urlset(<<p2, xHref, p1Href>>), NotFound,
          Urlset(<<away, plain, p3, other, xHref>>)}
DocsT == {Urlset(<<p3, p2>>), Urlset(<<p3, mail>>), Index(<<Below(<<"..", "s">>)>>), NotFound}

Build == {<<"index.html">>, <<"index.htm">>, <<"a.html">>, <<"guide", "index.html">>,
          <<"guide", "a.html">>}

Graph(r, d1, ds, dt, allowed, prefix) ==
    [roots |-> r, entry |-> Home(<<"v1", "">>), final |-> Shouted(Home(<<>>)),
     allowed |-> allowed, prefix |-> prefix, files |-> {}, unreadable |-> FALSE,
     doc |-> r1 :> d1 @@ r2 :> Urlset(<<p1, p2>>) @@ s :> ds @@ t :> dt]

(* The scope of an entry that redirected to another spelling of itself; in *)
(* the smaller sets with a second origin, and a prefix that is no directory *)
(* or none at all.                                                         *)
Graphs ==
    {Graph(r, d1, ds, dt, {}, <<"v1", "">>) :
        r \in {<<>>, <<r1>>, <<r2, Shouted(r1), r2>>}, d1 \in Docs1, ds \in DocsS, dt \in DocsT}
    \cup {Graph(<<r1>>, Index(<<sHref, xHref, tHref>>), ds, dt, {away}, <<"v1">>) :
            ds \in DocsS, dt \in DocsT}
    \cup {Graph(<<r1>>, Index(<<tHref, sHref>>), ds, dt, {plain}, <<>>) :
            ds \in DocsS, dt \in DocsT}

BuildBelow(entry, final, f, unread) ==
    [roots |-> <<>>, entry |-> entry, final |-> final, allowed |-> {}, prefix |-> <<>>,
     files |-> f, unreadable |-> unread, doc |-> <<>>]

(* Entries that are answered as they are, at several depths. *)
Builds ==
    {BuildBelow(Home(e), Home(e), f, u) :
        e \in {<<"">>, <<"page.html">>, <<"docs", "">>, <<"docs", "page.html">>,
               <<"docs", "..", "x", "page.html">>},
        f \in SUBSET Build, u \in BOOLEAN}

(* Entries that redirect: to their directory, to a page in another one, to *)
(* another server, to a server without a path.                             *)
MovedBuilds ==
    {BuildBelow(Home(<<"docs">>), final, f, FALSE) :
        final \in {Home(<<"docs", "">>), Home(<<"docs", "v2", "page.html">>),
                   At("http", "other", "8080", <<"docs">>), Shouted(Home(<<>>))},
        f \in SUBSET Build}

MCSites == Graphs \cup Builds \cup MovedBuilds
=============================================================================
