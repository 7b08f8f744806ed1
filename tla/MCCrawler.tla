------------------------------ MODULE MCCrawler ------------------------------
(* Small sites for the crawl: an entry e, in-scope targets a, b, c, d, an  *)
(* external target x, and a fragment link af to a.                         *)
EXTENDS Crawler, TLC

CONSTANTS e, a, b, c, d, x, af, w1, w2

MCLink == {e, a, b, c, d, x, af}
MCFetchOf == [l \in MCLink |-> IF l = af THEN a ELSE l]
MCTarget == MCLink \ {af}
(* An entry that redirects to x has the scope of x. *)
MCInScope == [t \in MCTarget |-> IF t = x THEN {x, b} ELSE {e, a, b, c, d}]
MCWorker == {w1, w2}

Stay == [t \in MCTarget |-> t]

MCPages ==
    {[t \in MCTarget |->
        CASE t = e -> pe [] t = a -> pa [] t = b -> pb
          [] t \in {c, d} -> <<>> [] t = x -> <<b>>] :
      pe \in {<<>>, <<a, af, a>>, <<a, b, c>>},
      pa \in {<<>>, <<e, a, d>>, <<x>>},
      pb \in {<<>>, <<a, af, d>>}}

(* Sites whose set-up succeeds: redirects, seeds and failing fetches. *)
CrawledWorlds ==
    {[redirect |-> r, page |-> p, sitemap |-> m, localRoot |-> h, broken |-> k,
      setup |-> {}] :
      r \in {Stay, [Stay EXCEPT ![b] = a], [Stay EXCEPT ![a] = x], [Stay EXCEPT ![e] = x]},
      p \in MCPages, m \in {<<>>, <<af, x>>}, h \in {<<>>, <<d, x>>},
      k \in {{}, {a}}}

(* Sites on which a step of the set-up, or the entry fetch, fails. *)
FailingWorlds ==
    {[redirect |-> Stay, page |-> [t \in MCTarget |-> <<a>>], sitemap |-> <<b>>,
      localRoot |-> <<d>>, broken |-> k, setup |-> f] :
      k \in {{}, {e}}, f \in {{"scope"}, {"sitemap"}, {"localRoot"}}}

MCWorlds == CrawledWorlds \cup FailingWorlds

Workers == Permutations(MCWorker)
=============================================================================
