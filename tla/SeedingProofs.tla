---------------------------- MODULE SeedingProofs ----------------------------
(***************************************************************************)
(* Proofs about the seeding of a crawl, for all sitemaps, scopes and local *)
(* builds and for every limit.                                             *)
(***************************************************************************)
EXTENDS Seeding, LoopProofs

-----------------------------------------------------------------------------
(* Paths *)

Plain(N, dropped) == N \ (dropped \cup {".."})

LEMMA AddSegmentType ==
    ASSUME NEW N, NEW dropped, NEW kept \in Seq(Plain(N, dropped)), NEW segment \in N
    PROVE  /\ AddSegment(kept, segment, dropped) \in Seq(Plain(N, dropped))
           /\ segment \in dropped => AddSegment(kept, segment, dropped) = kept
           /\ segment \in Plain(N, dropped) =>
                AddSegment(kept, segment, dropped) = Append(kept, segment)
  <1>1. CASE segment \in dropped
    BY <1>1 DEF AddSegment, Plain
  <1>2. CASE segment \notin dropped /\ segment = ".."
    BY <1>2 DEF AddSegment, Front, Plain
  <1>3. CASE segment \notin dropped /\ segment # ".."
    BY <1>3 DEF AddSegment, Plain
  <1> QED BY <1>1, <1>2, <1>3

(* The walk over a path. *)
Walks(N, path, dropped) ==
    {kept \in [0..Len(path) -> Seq(Plain(N, dropped))] :
        /\ kept[0] = <<>>
        /\ \A n \in 1..Len(path) : kept[n] = AddSegment(kept[n - 1], path[n], dropped)}

LEMMA SegmentsWalk ==
    ASSUME NEW N, NEW path \in Seq(N), NEW dropped
    PROVE  \E kept \in Walks(N, path, dropped) : Segments(path, dropped) = kept[Len(path)]
  <1> DEFINE L == Len(path)
             S == Seq(Plain(N, dropped))
             none == <<>>
             step == [n \in 1..L |-> [before \in S |-> AddSegment(before, path[n], dropped)]]
             walk(g) == [n \in 0..L |-> IF n = 0 THEN none ELSE AddSegment(g[n - 1], path[n], dropped)]
             kept == CHOOSE g : g = walk(g)
  <1>1. L \in Nat /\ none \in S
    OBVIOUS
  <1>2. \A n \in 1..L : path[n] \in N
    OBVIOUS
  <1>3. step \in [1..L -> [S -> S]]
    BY <1>2, AddSegmentType
  <1>4. \A n \in 1..L, before \in S : step[n][before] = AddSegment(before, path[n], dropped)
    OBVIOUS
  <1>5. Segments(path, dropped) = kept[L]
    BY DEF Segments
  <1> HIDE DEF L, S, none, step
  <1>6. PICK f \in Loops(L, S, none, step) : TRUE
    BY <1>1, <1>3, LoopExists
  <1>7. /\ f \in [0..L -> S] /\ f[0] = none
        /\ \A n \in 1..L : f[n] = AddSegment(f[n - 1], path[n], dropped)
    <2>1. \A n \in 1..L : n - 1 \in 0..L
      BY <1>1
    <2> QED BY <1>4, <1>6, <2>1 DEF Loops
  <1>8. f = walk(f)
    <2>1. \A n \in 0..L : f[n] = IF n = 0 THEN none ELSE AddSegment(f[n - 1], path[n], dropped)
      BY <1>1, <1>7
    <2> QED BY <1>7, <2>1
  <1>9. kept = walk(kept)
    <2> HIDE DEF walk
    <2> QED BY <1>8
  <1> HIDE DEF kept
  <1>10. kept[0] = none /\ \A n \in 1..L : kept[n] = AddSegment(kept[n - 1], path[n], dropped)
    BY <1>1, <1>9
  <1>11. kept \in [0..L -> S]
    <2> DEFINE T == {n \in 0..L : kept[n] \in S}
    <2>1. 0 \in T
      BY <1>1, <1>10
    <2>2. ASSUME NEW n \in 1..L, n - 1 \in T PROVE n \in T
      <3>1. kept[n - 1] \in S /\ kept[n] = AddSegment(kept[n - 1], path[n], dropped)
        BY <1>10, <2>2
      <3>2. kept[n] \in S
        BY <1>2, <3>1, AddSegmentType DEF S
      <3> QED BY <1>1, <3>2
    <2> HIDE DEF T
    <2>3. 0..L \subseteq T
      BY <1>1, <2>1, <2>2, LoopInduction
    <2>4. \A n \in 0..L : kept[n] \in S
      BY <2>3 DEF T
    <2> QED BY <1>9, <2>4
  <1> QED BY <1>5, <1>10, <1>11 DEF Walks, L, S, none

LEMMA SegmentsType ==
    ASSUME NEW N, NEW path \in Seq(N), NEW dropped
    PROVE  Segments(path, dropped) \in Seq(Plain(N, dropped))
  <1>1. PICK kept \in Walks(N, path, dropped) : Segments(path, dropped) = kept[Len(path)]
    BY SegmentsWalk
  <1> QED BY <1>1 DEF Walks

(* What follows a path and has nothing to drop is kept. *)
LEMMA PlainSegments ==
    ASSUME NEW N, NEW path \in Seq(N), NEW dropped, NEW rest \in Seq(Plain(N, dropped))
    PROVE  Segments(path \o rest, dropped) = Segments(path, dropped) \o rest
  <1> DEFINE L == Len(path)
             M == Len(rest)
             P == Plain(N, dropped)
             full == path \o rest
  <1>1. PICK kept \in Walks(N, path, dropped) : Segments(path, dropped) = kept[L]
    BY SegmentsWalk
  <1>2. /\ rest \in Seq(N) /\ full \in Seq(N) /\ Len(full) = L + M
        /\ \A i \in 1..L : full[i] = path[i] /\ path[i] \in N
        /\ \A j \in 1..M : full[L + j] = rest[j] /\ rest[j] \in P
    <2>1. rest \in Seq(N)
      BY DEF Plain
    <2>2. \A j \in 1..M : rest[j] \in P
      OBVIOUS
    <2>3. \A i \in 1..L : path[i] \in N
      OBVIOUS
    <2> QED BY <2>1, <2>2, <2>3, ConcatFacts
  <1>3. L \in Nat /\ M \in Nat
    OBVIOUS
  <1> HIDE DEF full
  <1>4. PICK whole \in Walks(N, full, dropped) : Segments(full, dropped) = whole[Len(full)]
    BY <1>2, SegmentsWalk
  <1>5. /\ kept \in [0..L -> Seq(P)] /\ kept[0] = <<>>
        /\ \A n \in 1..L : kept[n] = AddSegment(kept[n - 1], path[n], dropped)
    BY <1>1 DEF Walks
  <1>6. /\ whole \in [0..(L + M) -> Seq(P)] /\ whole[0] = <<>>
        /\ \A n \in 1..(L + M) : whole[n] = AddSegment(whole[n - 1], full[n], dropped)
    BY <1>2, <1>4 DEF Walks
  <1> HIDE DEF L, P
  <1>7. whole[L] = kept[L]
    <2> DEFINE T == {n \in 0..L : whole[n] = kept[n]}
    <2>1. 0 \in T
      BY <1>3, <1>5, <1>6
    <2>2. ASSUME NEW n \in 1..L, n - 1 \in T PROVE n \in T
      <3>1. n \in 1..(L + M) /\ n \in 0..L
        BY <1>3
      <3> QED BY <1>2, <1>5, <1>6, <2>2, <3>1
    <2> HIDE DEF T
    <2>3. 0..L \subseteq T
      BY <1>3, <2>1, <2>2, LoopInduction
    <2> QED BY <1>3, <2>3 DEF T
  <1>8. kept[L] \in Seq(P)
    BY <1>3, <1>5
  <1> DEFINE U == {j \in 0..M : whole[L + j] = kept[L] \o SubSeq(rest, 1, j)}
  <1>9. 0 \in U
    <2>1. SubSeq(rest, 1, 0) = <<>> /\ L + 0 = L
      BY <1>3
    <2>2. kept[L] \o <<>> = kept[L]
      BY <1>8
    <2>3. whole[L + 0] = kept[L] \o SubSeq(rest, 1, 0)
      BY <1>7, <2>1, <2>2
    <2> QED BY <1>3, <2>3
  <1>10. ASSUME NEW j \in 1..M, j - 1 \in U PROVE j \in U
    <2>1. L + j \in 1..(L + M) /\ (L + j) - 1 = L + (j - 1) /\ L + (j - 1) \in 0..(L + M)
      BY <1>3
    <2>2. whole[L + j] = AddSegment(whole[L + (j - 1)], rest[j], dropped)
      BY <1>2, <1>6, <2>1
    <2>3. rest[j] \in P /\ rest[j] \in N /\ whole[L + (j - 1)] \in Seq(P)
      BY <1>2, <1>6, <2>1 DEF P, Plain
    <2>4. whole[L + j] = Append(whole[L + (j - 1)], rest[j])
      <3>1. \A before \in Seq(P), x \in N :
               x \in P => AddSegment(before, x, dropped) = Append(before, x)
        BY AddSegmentType DEF P
      <3> QED BY <2>2, <2>3, <3>1
    <2>5. whole[L + (j - 1)] = kept[L] \o SubSeq(rest, 1, j - 1)
      BY <1>10
    <2>6. whole[L + j] = kept[L] \o SubSeq(rest, 1, j)
      BY <1>8, <2>4, <2>5, NextPrefix DEF P
    <2> QED BY <1>3, <2>6
  <1> HIDE DEF U
  <1>11. 0..M \subseteq U
    BY <1>3, <1>9, <1>10, LoopInduction
  <1>12. whole[L + M] = kept[L] \o SubSeq(rest, 1, M)
    <2>1. M \in U
      BY <1>3, <1>11
    <2> QED BY <2>1 DEF U
  <1>13. SubSeq(rest, 1, M) = rest
    OBVIOUS
  <1> QED BY <1>1, <1>2, <1>4, <1>12, <1>13 DEF full, L

LEMMA PlainStays ==
    ASSUME NEW N, NEW dropped, NEW path \in Seq(Plain(N, dropped))
    PROVE  Segments(path, dropped) = path
  <1> DEFINE none == <<>>
  <1>1. none \in Seq(N) /\ Len(none) = 0 /\ none \o path = path
    OBVIOUS
  <1> HIDE DEF none
  <1>2. PICK kept \in Walks(N, none, dropped) : Segments(none, dropped) = kept[Len(none)]
    BY <1>1, SegmentsWalk
  <1>3. Segments(none, dropped) = none
    BY <1>1, <1>2 DEF Walks, none
  <1>4. Segments(none \o path, dropped) = Segments(none, dropped) \o path
    <2>1. none \in Seq(N) /\ path \in Seq(Plain(N, dropped))
      BY <1>1
    <2>2. \A p \in Seq(N) : \A rest \in Seq(Plain(N, dropped)) :
            Segments(p \o rest, dropped) = Segments(p, dropped) \o rest
      BY PlainSegments
    <2> QED BY <2>1, <2>2, Zenon
  <1> QED BY <1>1, <1>3, <1>4

-----------------------------------------------------------------------------
(* Locations and links *)

LEMMA EmptyPath == <<>> \in Seq(STRING)
  OBVIOUS

LEMMA PathType ==
    ASSUME NEW path \in Seq(STRING)
    PROVE  RemoveDots(path) \in Seq(STRING)
  <1> DEFINE kept == Segments(path, {"."})
  <1>1. kept \in Seq(STRING)
    <2>1. PICK walk \in Walks(STRING, path, {"."}) : kept = walk[Len(path)]
      BY SegmentsWalk
    <2>2. kept \in Seq(Plain(STRING, {"."}))
      BY <2>1 DEF Walks
    <2> QED BY <2>2 DEF Plain
  <1> HIDE DEF kept
  <1>2. Append(kept, "") \in Seq(STRING)
    BY <1>1, AppendType, StringAssumption
  <1> QED BY <1>1, <1>2 DEF RemoveDots, kept

LEMMA LocationFields ==
    ASSUME NEW u
    PROVE  u \in Location <=>
             /\ u = [scheme |-> u.scheme, host |-> u.host, port |-> u.port,
                     rooted |-> u.rooted, path |-> u.path, fragment |-> u.fragment]
             /\ u.scheme \in STRING /\ u.host \in Host \cup {""} /\ u.port \in STRING
             /\ u.rooted \in BOOLEAN /\ u.path \in Seq(STRING) /\ u.fragment \in STRING
  BY DEF Location

LEMMA LocationMade ==
    ASSUME NEW scheme \in STRING, NEW host \in Host \cup {""}, NEW port \in STRING,
           NEW rooted \in BOOLEAN, NEW path \in Seq(STRING), NEW fragment \in STRING
    PROVE  [scheme |-> scheme, host |-> host, port |-> port, rooted |-> rooted,
            path |-> path, fragment |-> fragment] \in Location
  BY DEF Location

LEMMA AbsoluteIsURL ==
    ASSUME NEW u \in Absolute
    PROVE  NormalizeURL(u) \in URL
  <1> DEFINE v == NormalizeURL(u)
             port == IF IsDefaultPort(u.scheme, u.port) THEN "" ELSE u.port
             path == IF u.path = <<>> THEN <<"">> ELSE u.path
  <1>1. u \in Location /\ u.scheme \in {"http", "https"} /\ u.host \in Host
    BY LocationFields DEF Absolute
  <1>2. path \in Seq(STRING) /\ path # <<>> /\ port \in STRING
    <2>1. u.path \in Seq(STRING) /\ u.port \in STRING
      BY <1>1, LocationFields
    <2>2. <<"">> \in Seq(STRING) /\ <<"">> # <<>>
      BY AppendType, EmptyPath, StringAssumption
    <2> QED BY <2>1, <2>2, StringAssumption
  <1>3. ~IsDefaultPort(u.scheme, port)
    BY DEF IsDefaultPort
  <1>4. v = [u EXCEPT !.host = LowerHost[u.host], !.port = port, !.path = path, !.rooted = TRUE]
    BY Zenon DEF NormalizeURL, port, path
  <1> HIDE DEF port, path, v
  <1>9. v = [scheme |-> u.scheme, host |-> LowerHost[u.host], port |-> port, rooted |-> TRUE,
             path |-> path, fragment |-> u.fragment]
    BY <1>1, <1>4 DEF Location
  <1>5. LowerHost[u.host] \in Host /\ LowerHost[LowerHost[u.host]] = LowerHost[u.host]
    BY <1>1, HostAssumption
  <1>6. /\ v \in Location /\ v.scheme = u.scheme /\ v.host = LowerHost[u.host]
        /\ v.port = port /\ v.rooted = TRUE /\ v.path = path
    <2>1. u.scheme \in STRING /\ u.fragment \in STRING
      BY <1>1, LocationFields
    <2> QED BY <1>2, <1>9, <1>5, <2>1 DEF Location
  <1>7. v \in URL
    BY <1>1, <1>2, <1>3, <1>5, <1>6 DEF URL
  <1> QED BY <1>7 DEF v

(* Normalization leaves a normalized location as it is. *)
LEMMA URLIsNormal ==
    ASSUME NEW u \in URL
    PROVE  u \in Absolute /\ NormalizeURL(u) = u /\ NormalizeLink(u, u) = u
  <1>1. /\ u \in Location /\ u.scheme \in {"http", "https"} /\ u.host \in Host
        /\ LowerHost[u.host] = u.host /\ ~IsDefaultPort(u.scheme, u.port) /\ u.rooted
        /\ u.path # <<>>
    BY DEF URL
  <1>2. u.host # ""
    BY <1>1, HostAssumption
  <1>3. NormalizeURL(u) = u
    BY <1>1, LocationFields DEF NormalizeURL
  <1>4. u # Malformed
    BY <1>1, MalformedAssumption
  <1>5. Resolved(u, u) = u
    BY <1>1 DEF Resolved
  <1> QED BY <1>1, <1>2, <1>3, <1>4, <1>5 DEF NormalizeLink, Absolute

(* What a link is resolved to. *)
LEMMA ResolvedType ==
    ASSUME NEW h \in Location, NEW u \in URL
    PROVE  Resolved(h, u) \in Location /\ (h.scheme = "" => Resolved(h, u).scheme = u.scheme)
  <1> DEFINE directory == IF u.path = <<>> THEN <<>> ELSE Front(u.path)
             full == CASE h.path = <<>> -> u.path
                       [] h.path # <<>> /\ h.rooted -> h.path
                       [] OTHER -> directory \o h.path
  <1>1. u \in Location /\ u.path \in Seq(STRING) /\ h.path \in Seq(STRING)
    BY LocationFields DEF URL
  <1>2. full \in Seq(STRING)
    <2>1. directory \in Seq(STRING)
      BY <1>1, AppendType, EmptyPath
    <2> HIDE DEF directory
    <2>2. directory \o h.path \in Seq(STRING)
      BY <1>1, <2>1, ConcatType
    <2>3. full \in {u.path, h.path, directory \o h.path}
      BY Zenon
    <2> QED BY <1>1, <2>2, <2>3
  <1>3. CASE h.scheme # ""
    BY <1>3 DEF Resolved
  <1>4. CASE h.scheme = "" /\ h.host # ""
    <2>1. Resolved(h, u) = [h EXCEPT !.scheme = u.scheme, !.path = RemoveDots(h.path)]
      BY <1>4 DEF Resolved, ResolveReference
    <2>2. RemoveDots(h.path) \in Seq(STRING) /\ u.scheme \in STRING
      BY <1>1, PathType, LocationFields
    <2>3. Resolved(h, u) = [scheme |-> u.scheme, host |-> h.host, port |-> h.port,
             rooted |-> h.rooted, path |-> RemoveDots(h.path), fragment |-> h.fragment]
      BY <2>1 DEF Location
    <2>4. h.host \in Host \cup {""} /\ h.port \in STRING /\ h.rooted \in BOOLEAN /\ h.fragment \in STRING
      BY LocationFields
    <2>5. Resolved(h, u) \in Location /\ Resolved(h, u).scheme = u.scheme
      <3> DEFINE r == [scheme |-> u.scheme, host |-> h.host, port |-> h.port,
             rooted |-> h.rooted, path |-> RemoveDots(h.path), fragment |-> h.fragment]
      <3>1. r \in Location
        BY <2>2, <2>4, LocationMade
      <3> QED BY <2>3, <3>1
    <2> QED BY <2>5
  <1>5. CASE h.scheme = "" /\ h.host = ""
    <2>1. RemoveDots(full) \in Seq(STRING)
      BY <1>2, PathType
    <2> DEFINE fragment == IF h.path = <<>> /\ h.fragment = "" THEN u.fragment ELSE h.fragment
    <2>2. fragment \in STRING
      BY <1>1, LocationFields
    <2> HIDE DEF full, fragment
    <2>3. Resolved(h, u) = [scheme |-> u.scheme, host |-> u.host, port |-> u.port,
                            rooted |-> TRUE, path |-> RemoveDots(full), fragment |-> fragment]
      BY <1>5 DEF Resolved, ResolveReference, full, fragment
    <2>4. u.host \in Host \cup {""} /\ u.port \in STRING /\ u.scheme \in STRING
      BY <1>1, LocationFields
    <2>5. Resolved(h, u) \in Location /\ Resolved(h, u).scheme = u.scheme
      <3> DEFINE r == [scheme |-> u.scheme, host |-> u.host, port |-> u.port,
                            rooted |-> TRUE, path |-> RemoveDots(full), fragment |-> fragment]
      <3>1. r \in Location
        BY <2>1, <2>2, <2>4, LocationMade
      <3> QED BY <2>3, <3>1
    <2> QED BY <2>5
  <1> QED BY <1>3, <1>4, <1>5

LEMMA LinkType ==
    ASSUME NEW h \in Location \cup {Malformed}, NEW u \in URL
    PROVE  /\ NormalizeLink(h, u) \in URL \cup {Malformed}
           /\ NormalizeLink(h, u) # Malformed =>
                /\ h \in Location /\ Resolved(h, u) \in Absolute
                /\ NormalizeLink(h, u) = NormalizeURL(Resolved(h, u))
  <1>1. CASE h = Malformed
    BY <1>1 DEF NormalizeLink
  <1>2. CASE h # Malformed
    <2>1. h \in Location /\ Resolved(h, u) \in Location
      BY <1>2, ResolvedType
    <2>2. u.scheme \in {"http", "https"}
      BY DEF URL
    <2>3. Resolved(h, u).scheme # ""
      <3>1. CASE h.scheme # ""
        BY <3>1 DEF Resolved
      <3>2. CASE h.scheme = ""
        <4>1. Resolved(h, u).scheme = u.scheme
          BY <2>1, <3>2, ResolvedType
        <4> QED BY <2>2, <4>1
      <3> QED BY <3>1, <3>2
    <2> DEFINE target == Resolved(h, u)
    <2> HIDE DEF target
    <2>4. CASE target.scheme \in {"http", "https"} /\ target.host # ""
      <3>1. target \in Absolute
        BY <2>1, <2>4 DEF Absolute, target
      <3>2. NormalizeLink(h, u) = NormalizeURL(target)
        BY <1>2, <2>4 DEF NormalizeLink, target
      <3> QED BY <2>1, <3>1, <3>2, AbsoluteIsURL DEF target
    <2>5. CASE ~(target.scheme \in {"http", "https"} /\ target.host # "")
      BY <1>2, <2>3, <2>5 DEF NormalizeLink, target
    <2> QED BY <2>4, <2>5
  <1> QED BY <1>1, <1>2

(* A root is normalized without a page to resolve it against. *)
LEMMA RootType ==
    ASSUME NEW h \in Absolute
    PROVE  NormalizeLink(h, h) = NormalizeURL(h) /\ NormalizeLink(h, h) \in URL
  <1>1. h # Malformed /\ Resolved(h, h) = h
    BY MalformedAssumption DEF Absolute, Resolved
  <1> QED BY <1>1, AbsoluteIsURL DEF NormalizeLink, Absolute

(* Two locations have one origin exactly when they ask one server.         *)
LEMMA PortFacts ==
    ASSUME NEW u
    PROVE  /\ u.port # "" => Port(u) = u.port
           /\ u.port = "" /\ u.scheme = "https" => Port(u) = "443"
           /\ u.port = "" /\ u.scheme = "http" => Port(u) = "80"
  <1>1. "http" # "https"
    OBVIOUS
  <1> QED BY <1>1, Zenon DEF Port

EffectivePort(u) == IF IsDefaultPort(u.scheme, u.port) THEN "" ELSE u.port

LEMMA PortsAgree ==
    ASSUME NEW u \in Absolute, NEW v \in Absolute, u.scheme = v.scheme
    PROVE  EffectivePort(u) = EffectivePort(v) <=> Port(u) = Port(v)
  <1>1. u.scheme \in {"http", "https"}
    BY DEF Absolute
  <1>2. CASE u.scheme = "http"
    <2>1. \A w : w.scheme = "http" =>
            /\ EffectivePort(w) = IF w.port = "80" THEN "" ELSE w.port
            /\ Port(w) = IF w.port = "" THEN "80" ELSE w.port
      BY PortFacts DEF EffectivePort, IsDefaultPort
    <2> QED BY <1>2, <2>1
  <1>3. CASE u.scheme = "https"
    <2>1. \A w : w.scheme = "https" =>
            /\ EffectivePort(w) = IF w.port = "443" THEN "" ELSE w.port
            /\ Port(w) = IF w.port = "" THEN "443" ELSE w.port
      BY PortFacts DEF EffectivePort, IsDefaultPort
    <2> QED BY <1>3, <2>1
  <1> QED BY <1>1, <1>2, <1>3

LEMMA NormalFields ==
    ASSUME NEW u \in Absolute
    PROVE  LET v == NormalizeURL(u) IN
           /\ v.scheme = u.scheme /\ v.host = LowerHost[u.host] /\ v.port = EffectivePort(u)
           /\ v.path = (IF u.path = <<>> THEN <<"">> ELSE u.path)
           /\ v.rooted = TRUE /\ v.fragment = u.fragment
  <1> DEFINE path == IF u.path = <<>> THEN <<"">> ELSE u.path
             port == EffectivePort(u)
  <1>1. NormalizeURL(u) = [u EXCEPT !.host = LowerHost[u.host], !.port = port, !.path = path,
                                    !.rooted = TRUE]
    BY Zenon DEF NormalizeURL, EffectivePort
  <1>2. u \in Location
    BY DEF Absolute
  <1> HIDE DEF path, port
  <1>3. LET v == NormalizeURL(u) IN
        /\ v.scheme = u.scheme /\ v.host = LowerHost[u.host] /\ v.port = port
        /\ v.path = path /\ v.rooted = TRUE /\ v.fragment = u.fragment
    BY <1>1, <1>2 DEF Location
  <1> QED BY <1>3 DEF path, port

LEMMA OriginIsServer ==
    ASSUME NEW u \in Absolute, NEW v \in Absolute
    PROVE  Origin(u) = Origin(v) <=> Server(u) = Server(v)
  <1>1. \A w \in Absolute : Origin(w) = <<w.scheme, LowerHost[w.host], EffectivePort(w)>>
    BY NormalFields DEF Origin
  <1>2. Origin(u) = Origin(v) <=>
            u.scheme = v.scheme /\ LowerHost[u.host] = LowerHost[v.host]
                /\ EffectivePort(u) = EffectivePort(v)
    BY <1>1
  <1>3. Server(u) = Server(v) <=>
            u.scheme = v.scheme /\ LowerHost[u.host] = LowerHost[v.host] /\ Port(u) = Port(v)
    BY DEF Server
  <1> QED BY <1>2, <1>3, PortsAgree

(* Normalization does not change what a location asks for...               *)
LEMMA ResourceKept ==
    ASSUME NEW u \in Absolute
    PROVE  Resource(NormalizeURL(u)) = Resource(u)
  <1> DEFINE v == NormalizeURL(u)
  <1>1. v \in URL /\ v \in Absolute
    BY AbsoluteIsURL, URLIsNormal
  <1>2. /\ v.scheme = u.scheme /\ v.host = LowerHost[u.host] /\ v.port = EffectivePort(u)
        /\ v.path = (IF u.path = <<>> THEN <<"">> ELSE u.path) /\ v.fragment = u.fragment
    BY NormalFields
  <1>3. NormalizeURL(v) = v /\ LowerHost[v.host] = v.host
    BY <1>1, URLIsNormal DEF URL
  <1> HIDE DEF v
  <1>4. EffectivePort(v) = EffectivePort(u)
    <2>1. NormalizeURL(v).port = EffectivePort(v)
      BY <1>1, NormalFields
    <2> QED BY <1>2, <1>3, <2>1
  <1>5. Server(v) = Server(u)
    BY <1>1, <1>2, <1>3, <1>4, PortsAgree DEF Server
  <1>6. v.path # <<>>
    BY <1>1 DEF URL
  <1>7. Resource(v) = Resource(u)
    BY <1>2, <1>5, <1>6 DEF Resource
  <1> QED BY <1>7 DEF v

(* ... and gives two that ask for the same thing the same name.            *)
LEMMA ResourceNames ==
    ASSUME NEW u \in URL, NEW v \in URL, Resource(u) = Resource(v)
    PROVE  u = v
  <1>1. u \in Absolute /\ v \in Absolute /\ NormalizeURL(u) = u /\ NormalizeURL(v) = v
    BY URLIsNormal
  <1>2. Server(u) = Server(v) /\ u.path = v.path /\ u.fragment = v.fragment
    BY DEF Resource, URL
  <1>3. u.scheme = v.scheme /\ LowerHost[u.host] = LowerHost[v.host] /\ Port(u) = Port(v)
    BY <1>2 DEF Server
  <1>4. u.host = v.host
    BY <1>3 DEF URL
  <1>5. EffectivePort(u) = EffectivePort(v)
    BY <1>1, <1>3, PortsAgree
  <1>6. u.port = v.port
    BY <1>5 DEF URL, EffectivePort
  <1>7. u \in Location /\ v \in Location /\ u.rooted = TRUE /\ v.rooted = TRUE
    BY LocationFields DEF URL
  <1>8. /\ u = [scheme |-> u.scheme, host |-> u.host, port |-> u.port, rooted |-> u.rooted,
                path |-> u.path, fragment |-> u.fragment]
        /\ v = [scheme |-> v.scheme, host |-> v.host, port |-> v.port, rooted |-> v.rooted,
                path |-> v.path, fragment |-> v.fragment]
    BY <1>7, LocationFields
  <1> QED BY <1>2, <1>3, <1>4, <1>6, <1>7, <1>8, Zenon

LEMMA FetchURLType ==
    ASSUME NEW u \in URL
    PROVE  /\ FetchURL(u) \in URL /\ FetchURL(u).path = u.path
           /\ Server(FetchURL(u)) = Server(u)
  <1>1. u \in Location
    BY DEF URL
  <1>2. LET v == FetchURL(u) IN
        /\ v \in Location /\ v.scheme = u.scheme /\ v.host = u.host /\ v.port = u.port
        /\ v.rooted = u.rooted /\ v.path = u.path
    BY <1>1, StringAssumption DEF FetchURL, Location
  <1>3. Server(FetchURL(u)) = Server(u)
    BY <1>2 DEF Server, Port
  <1> QED BY <1>2, <1>3 DEF URL

(* The scope that is computed is the scope that is documented.             *)
LEMMA ScopeIsDocumented ==
    ASSUME site \in Sites, NEW u \in URL
    PROVE  /\ Allowed(u) <=> WithinScope(Resource(u))
           /\ ~Allowed(u) =>
                /\ Check(Scope, FetchURL(u)) \in {"external_origin", "outside_path_prefix"}
                /\ Check(Scope, FetchURL(u)) = "outside_path_prefix" <=> SameSite(Resource(u))
  <1> DEFINE f == FetchURL(u)
             ours == site.allowed \cup {site.final}
             same == Origin(f) \in Scope.origins
             inside == HasPrefix(u.path, site.prefix)
  <1>1. f \in URL /\ f \in Absolute /\ f.path = u.path /\ Server(f) = Server(u)
    BY FetchURLType, URLIsNormal
  <1>2. \A v \in ours : v \in Absolute
    BY SiteAssumption
  <1>3. Scope.origins = {Origin(v) : v \in ours} /\ Scope.prefix = site.prefix
    BY DEF Scope, NewScope
  <1> HIDE DEF f
  <1>4. same <=> Server(u) \in {Server(v) : v \in ours}
    BY <1>1, <1>2, <1>3, OriginIsServer
  <1>5. Resource(u)[1] = Server(u) /\ Resource(u)[2] = u.path
    BY DEF Resource, URL
  <1>6. SameSite(Resource(u)) <=> same
    BY <1>4, <1>5 DEF SameSite
  <1>7. WithinScope(Resource(u)) <=> same /\ inside
    BY <1>5, <1>6 DEF WithinScope
  <1> HIDE DEF same, inside
  <1>8. /\ ~same => Check(Scope, f) = "external_origin"
        /\ same /\ ~inside => Check(Scope, f) = "outside_path_prefix"
        /\ same /\ inside => Check(Scope, f) = "allowed"
    BY <1>1, <1>3, Zenon DEF Check, same, inside
  <1>9. Allowed(u) <=> Check(Scope, f) = "allowed"
    BY DEF Allowed, f
  <1> HIDE DEF ours
  <1> QED BY <1>6, <1>7, <1>8, <1>9 DEF f

-----------------------------------------------------------------------------
(* What a sitemap lists *)

LEMMA LinksType ==
    ASSUME NEW locations \in Seq(Location \cup {Malformed}), NEW u \in URL
    PROVE  /\ Links(locations, u) \in Seq(URL \cup {Malformed})
           /\ DOMAIN Links(locations, u) = 1..Len(locations)
           /\ \A i \in 1..Len(locations) : Links(locations, u)[i] = NormalizeLink(locations[i], u)
  <1> DEFINE L == Len(locations)
             V == URL \cup {Malformed}
             made == [i \in 1..L |-> NormalizeLink(locations[i], u)]
  <1>1. L \in Nat /\ DOMAIN locations = 1..L /\ \A i \in 1..L : locations[i] \in Location \cup {Malformed}
    OBVIOUS
  <1>2. Links(locations, u) = made
    BY <1>1, Zenon DEF Links
  <1> HIDE DEF L, V
  <1>3. \A i \in 1..L : NormalizeLink(locations[i], u) \in V
    BY <1>1, LinkType DEF V
  <1>4. made \in Seq(V)
    BY <1>1, <1>3
  <1> QED BY <1>1, <1>2, <1>4 DEF L, V

LEMMA FetchType ==
    ASSUME site \in Sites, NEW u
    PROVE  /\ Fetch(u).broken \in BOOLEAN
           /\ Fetch(u).children \in Seq(Location \cup {Malformed})
           /\ Fetch(u).pages \in Seq(Location \cup {Malformed})
  <1>1. CASE FetchURL(u) \in DOMAIN site.doc
    <2>1. site.doc[FetchURL(u)] \in Document
      BY <1>1, SiteAssumption
    <2>2. Fetch(u) \in Document
      BY <1>1, <2>1 DEF Fetch
    <2> QED BY <2>2 DEF Document
  <1>2. CASE FetchURL(u) \notin DOMAIN site.doc
    BY <1>2 DEF Fetch, NotFound
  <1> QED BY <1>1, <1>2

LEMMA ChildrenType ==
    ASSUME site \in Sites, NEW u \in URL
    PROVE  /\ Children(u) \subseteq URL
           /\ FetchURL(u) \notin DOMAIN site.doc => Children(u) = {}
  <1> DEFINE children == Links(Fetch(u).children, u)
  <1>1. /\ children \in Seq(URL \cup {Malformed})
        /\ DOMAIN children = 1..Len(Fetch(u).children)
    BY FetchType, LinksType
  <1>2. ToSet(children) \subseteq URL \cup {Malformed}
    <2> HIDE DEF children
    <2> QED BY <1>1 DEF ToSet
  <1>3. FetchURL(u) \notin DOMAIN site.doc => ToSet(children) = {}
    <2>1. ASSUME FetchURL(u) \notin DOMAIN site.doc PROVE Len(Fetch(u).children) = 0
      BY <2>1 DEF Fetch, NotFound
    <2> HIDE DEF children
    <2> QED BY <1>1, <2>1 DEF ToSet
  <1> HIDE DEF children
  <1> QED BY <1>2, <1>3 DEF Children, children

(* What a child is: one of the locations of the document, in scope. *)
LEMMA ChildIs ==
    ASSUME site \in Sites, NEW u \in URL, NEW c
    PROVE  c \in Children(u) <=>
             /\ c # Malformed /\ WithinScope(Resource(c))
             /\ \E i \in 1..Len(Fetch(u).children) : c = NormalizeLink(Fetch(u).children[i], u)
  <1> DEFINE children == Links(Fetch(u).children, u)
  <1>1. /\ DOMAIN children = 1..Len(Fetch(u).children)
        /\ \A i \in 1..Len(Fetch(u).children) :
              children[i] = NormalizeLink(Fetch(u).children[i], u)
    BY FetchType, LinksType
  <1> HIDE DEF children
  <1>2. c \in ToSet(children) <=>
          \E i \in 1..Len(Fetch(u).children) : c = NormalizeLink(Fetch(u).children[i], u)
    BY <1>1 DEF ToSet
  <1> QED BY <1>2 DEF Children, children

-----------------------------------------------------------------------------
(* Two spellings of one fetch *)

LEMMA FetchFields ==
    ASSUME NEW u \in Location, NEW v \in Location
    PROVE  FetchURL(u) = FetchURL(v) <=>
             /\ u.scheme = v.scheme /\ u.host = v.host /\ u.port = v.port
             /\ u.rooted = v.rooted /\ u.path = v.path
  <1>1. ASSUME NEW w \in Location
        PROVE  LET f == FetchURL(w) IN
               /\ f.scheme = w.scheme /\ f.host = w.host /\ f.port = w.port
               /\ f.rooted = w.rooted /\ f.path = w.path /\ f.fragment = ""
               /\ f = [scheme |-> f.scheme, host |-> f.host, port |-> f.port,
                       rooted |-> f.rooted, path |-> f.path, fragment |-> f.fragment]
    <2>1. LET f == FetchURL(w) IN
          /\ f \in Location /\ f.scheme = w.scheme /\ f.host = w.host /\ f.port = w.port
          /\ f.rooted = w.rooted /\ f.path = w.path /\ f.fragment = ""
      BY StringAssumption DEF FetchURL, Location
    <2> QED BY <2>1, LocationFields
  <1> DEFINE f == FetchURL(u)
             g == FetchURL(v)
  <1>2. /\ f.scheme = u.scheme /\ f.host = u.host /\ f.port = u.port
        /\ f.rooted = u.rooted /\ f.path = u.path /\ f.fragment = ""
        /\ f = [scheme |-> f.scheme, host |-> f.host, port |-> f.port,
                rooted |-> f.rooted, path |-> f.path, fragment |-> f.fragment]
    BY <1>1
  <1>3. /\ g.scheme = v.scheme /\ g.host = v.host /\ g.port = v.port
        /\ g.rooted = v.rooted /\ g.path = v.path /\ g.fragment = ""
        /\ g = [scheme |-> g.scheme, host |-> g.host, port |-> g.port,
                rooted |-> g.rooted, path |-> g.path, fragment |-> g.fragment]
    BY <1>1
  <1> HIDE DEF f, g
  <1>4. f = g <=> /\ u.scheme = v.scheme /\ u.host = v.host /\ u.port = v.port
                  /\ u.rooted = v.rooted /\ u.path = v.path
    BY <1>2, <1>3, Zenon
  <1> QED BY <1>4 DEF f, g

LEMMA LastAppended ==
    ASSUME NEW N, NEW s \in Seq(N), NEW x \in N
    PROVE  /\ Append(s, x) \in Seq(N) /\ Last(Append(s, x)) = x
           /\ s # <<>> => Last(s) \in N
  BY DEF Last

LEMMA Singleton ==
    ASSUME NEW N, NEW x \in N
    PROVE  <<x>> \in Seq(N) /\ <<x>> # <<>> /\ Last(<<x>>) = x
  BY DEF Last

(* Dots are removed once. *)
LEMMA DotsRemoved ==
    ASSUME NEW path \in Seq(STRING)
    PROVE  RemoveDots(RemoveDots(path)) = RemoveDots(path)
  <1> DEFINE P == Plain(STRING, {"."})
             r == RemoveDots(path)
  <1>1. Segments(path, {"."}) \in Seq(P)
    BY SegmentsType
  <1>2. "" \in P
    BY StringAssumption DEF Plain
  <1>3. r \in Seq(P)
    BY <1>1, <1>2, LastAppended DEF RemoveDots
  <1> HIDE DEF P, r
  <1>4. Segments(r, {"."}) = r
    BY <1>3, PlainStays DEF P
  <1>5. r # <<>> => Last(r) \in P
    BY <1>3, LastAppended
  <1>6. r # <<>> => Last(r) \notin {".", ".."}
    BY <1>5 DEF P, Plain
  <1>7. RemoveDots(r) = r
    BY <1>4, <1>6 DEF RemoveDots
  <1> QED BY <1>7 DEF r

Undotted(u) == NormalizeURL([u EXCEPT !.path = RemoveDots(u.path)])

(* A location as it is changed by its path alone. *)
LEMMA PathChanged ==
    ASSUME NEW u \in URL, NEW path \in Seq(STRING)
    PROVE  LET v == NormalizeURL([u EXCEPT !.path = path]) IN
           /\ v \in URL /\ v.scheme = u.scheme /\ v.host = u.host /\ v.port = u.port
           /\ v.rooted = TRUE /\ v.fragment = u.fragment
           /\ v.path = (IF path = <<>> THEN <<"">> ELSE path)
  <1> DEFINE w == [u EXCEPT !.path = path]
  <1>1. u \in Absolute /\ u \in Location /\ LowerHost[u.host] = u.host /\ u.rooted = TRUE
        /\ ~IsDefaultPort(u.scheme, u.port)
    BY URLIsNormal, LocationFields DEF URL
  <1>2. /\ w \in Location /\ w.scheme = u.scheme /\ w.host = u.host /\ w.port = u.port
        /\ w.rooted = TRUE /\ w.path = path /\ w.fragment = u.fragment
    BY <1>1 DEF Location
  <1> HIDE DEF w
  <1>3. w \in Absolute
    BY <1>1, <1>2 DEF Absolute
  <1>4. EffectivePort(w) = w.port
    BY <1>1, <1>2 DEF EffectivePort
  <1>5. LET v == NormalizeURL(w) IN
        /\ v.scheme = w.scheme /\ v.host = LowerHost[w.host] /\ v.port = EffectivePort(w)
        /\ v.path = (IF w.path = <<>> THEN <<"">> ELSE w.path)
        /\ v.rooted = TRUE /\ v.fragment = w.fragment
    BY <1>3, NormalFields
  <1>6. NormalizeURL(w) \in URL
    BY <1>3, AbsoluteIsURL
  <1>7. LET v == NormalizeURL(w) IN
           /\ v \in URL /\ v.scheme = u.scheme /\ v.host = u.host /\ v.port = u.port
           /\ v.rooted = TRUE /\ v.fragment = u.fragment
           /\ v.path = (IF path = <<>> THEN <<"">> ELSE path)
    BY <1>1, <1>2, <1>4, <1>5, <1>6
  <1> QED BY <1>7 DEF w

LEMMA UndottedFacts ==
    ASSUME NEW u \in URL
    PROVE  /\ Undotted(u) \in URL /\ Undotted(Undotted(u)) = Undotted(u)
           /\ \A v \in URL : FetchURL(u) = FetchURL(v) => FetchURL(Undotted(u)) = FetchURL(Undotted(v))
  <1> DEFINE at(w) == IF RemoveDots(w.path) = <<>> THEN <<"">> ELSE RemoveDots(w.path)
  <1>1. ASSUME NEW w \in URL
        PROVE  LET v == Undotted(w) IN
               /\ v \in URL /\ v.scheme = w.scheme /\ v.host = w.host /\ v.port = w.port
               /\ v.rooted = TRUE /\ v.fragment = w.fragment /\ v.path = at(w)
    <2>1. RemoveDots(w.path) \in Seq(STRING)
      BY LocationFields, PathType DEF URL
    <2> DEFINE path == RemoveDots(w.path)
    <2> HIDE DEF path
    <2>2. LET v == NormalizeURL([w EXCEPT !.path = path]) IN
           /\ v \in URL /\ v.scheme = w.scheme /\ v.host = w.host /\ v.port = w.port
           /\ v.rooted = TRUE /\ v.fragment = w.fragment
           /\ v.path = (IF path = <<>> THEN <<"">> ELSE path)
      BY <2>1, PathChanged DEF path
    <2> QED BY <2>2 DEF Undotted, path
  <1> HIDE DEF at
  <1>2. at(Undotted(u)) = at(u)
    <2> DEFINE p == RemoveDots(u.path)
               slash == <<"">>
    <2>1. u.path \in Seq(STRING)
      BY LocationFields DEF URL
    <2>2. RemoveDots(p) = p
      BY <2>1, DotsRemoved
    <2>3. RemoveDots(slash) = slash /\ slash # <<>>
      <3>1. "" \in Plain(STRING, {"."})
        BY StringAssumption DEF Plain
      <3> DEFINE P == Plain(STRING, {"."})
      <3> HIDE DEF P
      <3>3. slash \in Seq(P) /\ slash # <<>> /\ Last(slash) = ""
        <4>1. "" \in P
          BY <3>1 DEF P
        <4> QED BY <4>1, Singleton
      <3>4. Last(slash) \notin {".", ".."}
        BY <3>3
      <3> HIDE DEF slash
      <3>2. Segments(slash, {"."}) = slash
        BY <3>3, PlainStays DEF P
      <3> QED BY <3>2, <3>3, <3>4 DEF RemoveDots
    <2>4. Undotted(u).path = at(u)
      BY <1>1
    <2>5. at(u) = IF p = <<>> THEN slash ELSE p
      BY DEF at
    <2> HIDE DEF p, slash
    <2>6. CASE p = <<>>
      BY <2>3, <2>4, <2>5, <2>6 DEF at
    <2>7. CASE p # <<>>
      BY <2>2, <2>4, <2>5, <2>7 DEF at
    <2> QED BY <2>6, <2>7
  <1>3. Undotted(u) \in URL /\ Undotted(Undotted(u)) \in URL
    BY <1>1
  <1>4. Undotted(Undotted(u)) = Undotted(u)
    <2> DEFINE v == Undotted(u)
               w == Undotted(v)
    <2>1. /\ w.scheme = v.scheme /\ w.host = v.host /\ w.port = v.port
          /\ w.rooted = TRUE /\ w.fragment = v.fragment /\ w.path = at(v)
          /\ v.rooted = TRUE /\ v.path = at(u)
      BY <1>1, <1>3
    <2> HIDE DEF v, w
    <2>2. v \in Location /\ w \in Location
      BY <1>3 DEF URL, v, w
    <2>3. v = [scheme |-> v.scheme, host |-> v.host, port |-> v.port, rooted |-> v.rooted,
                path |-> v.path, fragment |-> v.fragment]
          /\ w = [scheme |-> w.scheme, host |-> w.host, port |-> w.port, rooted |-> w.rooted,
                path |-> w.path, fragment |-> w.fragment]
      BY <2>2, LocationFields
    <2>4. at(v) = at(u)
      BY <1>2 DEF v
    <2>5. w = v
      BY <2>1, <2>3, <2>4, Zenon
    <2> QED BY <2>5 DEF v, w
  <1>5. ASSUME NEW v \in URL, FetchURL(u) = FetchURL(v)
        PROVE  FetchURL(Undotted(u)) = FetchURL(Undotted(v))
    <2>1. u \in Location /\ v \in Location /\ Undotted(u) \in Location /\ Undotted(v) \in Location
      BY <1>1 DEF URL
    <2>2. u.scheme = v.scheme /\ u.host = v.host /\ u.port = v.port /\ u.path = v.path
      BY <1>5, <2>1, FetchFields
    <2>3. at(u) = at(v)
      BY <2>2 DEF at
    <2>4. /\ Undotted(u).scheme = Undotted(v).scheme /\ Undotted(u).host = Undotted(v).host
          /\ Undotted(u).port = Undotted(v).port /\ Undotted(u).rooted = Undotted(v).rooted
          /\ Undotted(u).path = Undotted(v).path
      <3>1. \A w \in {u, v} :
              /\ Undotted(w).scheme = w.scheme /\ Undotted(w).host = w.host
              /\ Undotted(w).port = w.port /\ Undotted(w).rooted = TRUE /\ Undotted(w).path = at(w)
        BY <1>1
      <3> QED BY <2>2, <2>3, <3>1, Zenon
    <2> QED BY <2>1, <2>4, FetchFields
  <1> QED BY <1>3, <1>4, <1>5

(* Under two spellings of it a document has the same children, except that *)
(* an empty reference is to the spelling itself.                           *)
LEMMA SameReference ==
    ASSUME NEW h \in Location \cup {Malformed}, NEW u \in URL, NEW v \in URL,
           FetchURL(u) = FetchURL(v), NormalizeLink(h, u) # Malformed
    PROVE  /\ NormalizeLink(h, v) # Malformed
           /\ FetchURL(NormalizeLink(h, v)) = FetchURL(NormalizeLink(h, u))
           /\ NormalizeLink(h, v) = NormalizeLink(h, u) \/ NormalizeLink(h, u) = Undotted(u)
  <1>1. h \in Location /\ h # Malformed /\ u \in Location /\ v \in Location
    BY LinkType, MalformedAssumption DEF URL
  <1>2. u.scheme = v.scheme /\ u.host = v.host /\ u.port = v.port /\ u.path = v.path
    BY <1>1, FetchFields
  <1> DEFINE empty == h.scheme = "" /\ h.host = "" /\ h.path = <<>> /\ h.fragment = ""
  <1>3. ASSUME ~empty PROVE Resolved(h, u) = Resolved(h, v)
    <2>1. CASE h.scheme # ""
      BY <2>1 DEF Resolved
    <2>2. CASE h.scheme = "" /\ h.host # ""
      BY <1>2, <2>2 DEF Resolved, ResolveReference
    <2>3. CASE h.scheme = "" /\ h.host = ""
      BY <1>2, <1>3, <2>3, Zenon DEF Resolved, ResolveReference
    <2> QED BY <2>1, <2>2, <2>3
  <1>4. ASSUME empty, NEW w \in URL PROVE NormalizeLink(h, w) = Undotted(w) /\ Undotted(w) # Malformed
    <2> DEFINE path == RemoveDots(w.path)
    <2>1. Resolved(h, w) = [scheme |-> w.scheme, host |-> w.host, port |-> w.port,
                            rooted |-> TRUE, path |-> path, fragment |-> w.fragment]
      BY <1>4, Zenon DEF Resolved, ResolveReference
    <2>2. w \in Location /\ w.rooted = TRUE
      BY LocationFields DEF URL
    <2> HIDE DEF path
    <2> DEFINE x == [w EXCEPT !.path = path]
    <2>8. path \in Seq(STRING)
      BY <2>2, LocationFields, PathType DEF path
    <2>9. /\ x \in Location /\ x.scheme = w.scheme /\ x.host = w.host /\ x.port = w.port
          /\ x.rooted = TRUE /\ x.path = path /\ x.fragment = w.fragment
      BY <2>2, <2>8 DEF Location
    <2> HIDE DEF x
    <2>10. x = [scheme |-> x.scheme, host |-> x.host, port |-> x.port,
               rooted |-> x.rooted, path |-> x.path, fragment |-> x.fragment]
      BY <2>9, LocationFields
    <2>3. x = [scheme |-> w.scheme, host |-> w.host, port |-> w.port,
               rooted |-> TRUE, path |-> path, fragment |-> w.fragment]
      BY <2>9, <2>10, Zenon
    <2>4. Undotted(w) = NormalizeURL(Resolved(h, w))
      BY <2>1, <2>3 DEF Undotted, path, x
    <2>5. Undotted(w) \in URL /\ Undotted(w) # Malformed
      BY UndottedFacts, MalformedAssumption DEF URL
    <2>6. Resolved(h, w).scheme = w.scheme /\ Resolved(h, w).host = w.host
      BY <2>1
    <2>7. w.scheme \in {"http", "https"} /\ w.host # ""
      BY HostAssumption DEF URL
    <2> QED BY <1>1, <2>4, <2>5, <2>6, <2>7 DEF NormalizeLink
  <1> HIDE DEF empty
  <1>5. CASE empty
    BY <1>4, <1>5, UndottedFacts
  <1>6. CASE ~empty
    <2>1. NormalizeLink(h, u) = NormalizeLink(h, v)
      BY <1>3, <1>6 DEF NormalizeLink
    <2> QED BY <2>1
  <1> QED BY <1>5, <1>6

LEMMA SameScope ==
    ASSUME NEW u \in URL, NEW v \in URL, FetchURL(u) = FetchURL(v)
    PROVE  WithinScope(Resource(u)) <=> WithinScope(Resource(v))
  <1>1. Server(u) = Server(v) /\ u.path = v.path
    BY FetchURLType
  <1>2. Resource(u)[1] = Resource(v)[1] /\ Resource(u)[2] = Resource(v)[2]
    BY <1>1 DEF Resource
  <1> QED BY <1>2 DEF WithinScope, SameSite

LEMMA SameDocument ==
    ASSUME site \in Sites, NEW u \in URL, NEW v \in URL, FetchURL(u) = FetchURL(v),
           NEW c \in Children(u)
    PROVE  \E d \in Children(v) : FetchURL(d) = FetchURL(c) /\ (d = c \/ c = Undotted(u))
  <1>1. PICK i \in 1..Len(Fetch(u).children) : c = NormalizeLink(Fetch(u).children[i], u)
    BY ChildIs
  <1>2. c # Malformed /\ WithinScope(Resource(c)) /\ c \in URL
    BY ChildIs, ChildrenType
  <1>3. Fetch(v) = Fetch(u)
    BY DEF Fetch
  <1> DEFINE h == Fetch(u).children[i]
             d == NormalizeLink(h, v)
  <1>4. h \in Location \cup {Malformed}
    BY <1>1, FetchType
  <1> HIDE DEF h
  <1>5. d # Malformed /\ FetchURL(d) = FetchURL(c) /\ (d = c \/ c = Undotted(u))
    <2>1. c = NormalizeLink(h, u)
      BY <1>1 DEF h
    <2> QED BY <1>2, <1>4, <2>1, SameReference
  <1>6. d \in URL
    BY <1>4, <1>5, LinkType
  <1>7. WithinScope(Resource(d))
    BY <1>2, <1>5, <1>6, SameScope
  <1>8. d \in Children(v)
    <2>1. \E j \in 1..Len(Fetch(v).children) : d = NormalizeLink(Fetch(v).children[j], v)
      BY <1>1, <1>3 DEF h
    <2> HIDE DEF d
    <2> QED BY <1>5, <1>7, <2>1, ChildIs
  <1> QED BY <1>5, <1>8

-----------------------------------------------------------------------------
(* The sitemaps a site leads to *)

Nearer(sitemaps) == sitemaps \cup UNION {Children(u) : u \in sitemaps}

LEMMA NearerType ==
    ASSUME site \in Sites, NEW sitemaps \in SUBSET URL
    PROVE  Nearer(sitemaps) \in SUBSET URL
  BY ChildrenType DEF Nearer

LEMMA RootsType ==
    ASSUME site \in Sites
    PROVE  Roots \subseteq URL
  <1>1. site.roots \in Seq(Absolute)
    BY SiteAssumption
  <1>2. ToSet(site.roots) \subseteq Absolute
    BY <1>1 DEF ToSet
  <1> QED BY <1>2, RootType DEF Roots

LEMMA WithinUnfolds ==
    ASSUME site \in Sites
    PROVE  /\ Within \in [Nat -> SUBSET URL] /\ Within[0] = Roots
           /\ \A n \in Nat : Within[n + 1] = Nearer(Within[n])
  <1> DEFINE S == SUBSET URL
             step == [n \in Nat |-> [sitemaps \in S |-> Nearer(sitemaps)]]
             walk(g) == [n \in Nat |-> IF n = 0 THEN Roots ELSE Nearer(g[n - 1])]
  <1>1. Roots \in S /\ step \in [Nat -> [S -> S]]
    BY RootsType, NearerType
  <1>2. \A n \in Nat, sitemaps \in S : step[n][sitemaps] = Nearer(sitemaps)
    OBVIOUS
  <1>3. Within = CHOOSE g : g = walk(g)
    BY DEF Within, Nearer
  <1> HIDE DEF S, step
  <1>4. PICK f \in Iterations(S, Roots, step) : TRUE
    BY <1>1, Recursion
  <1>5. /\ f \in [Nat -> S] /\ f[0] = Roots /\ \A n \in Nat : f[n + 1] = Nearer(f[n])
    <2>1. f \in [Nat -> S] /\ f[0] = Roots /\ \A n \in Nat : f[n + 1] = step[n + 1][f[n]]
      BY <1>4 DEF Iterations
    <2>2. \A n \in Nat : n + 1 \in Nat /\ f[n] \in S
      BY <2>1
    <2> QED BY <1>2, <2>1, <2>2, Zenon
  <1>6. f = walk(f)
    <2>1. ASSUME NEW n \in Nat PROVE f[n] = IF n = 0 THEN Roots ELSE Nearer(f[n - 1])
      <3>1. CASE n = 0
        BY <1>5, <3>1
      <3>2. CASE n # 0
        <4>1. n - 1 \in Nat /\ (n - 1) + 1 = n
          BY <3>2
        <4> QED BY <1>5, <3>2, <4>1
      <3> QED BY <3>1, <3>2
    <2> QED BY <1>5, <2>1
  <1>7. Within = walk(Within)
    <2> HIDE DEF walk
    <2> QED BY <1>3, <1>6
  <1>8. Within[0] = Roots /\ \A n \in Nat : Within[n + 1] = Nearer(Within[n])
    <2>1. \A n \in Nat : Within[n] = IF n = 0 THEN Roots ELSE Nearer(Within[n - 1])
      BY <1>7
    <2>2. \A n \in Nat : n + 1 \in Nat /\ n + 1 # 0 /\ (n + 1) - 1 = n
      OBVIOUS
    <2> QED BY <2>1, <2>2
  <1>9. \A n \in Nat : Within[n] \in S
    <2> DEFINE T == {n \in Nat : Within[n] \in S}
    <2>1. 0 \in T /\ \A n \in T : n + 1 \in T
      BY <1>1, <1>8, NearerType DEF S
    <2> HIDE DEF T
    <2>2. T = Nat
      BY <2>1, Induction DEF T
    <2> QED BY <2>2 DEF T
  <1>10. Within \in [Nat -> S]
    BY <1>7, <1>9
  <1> QED BY <1>8, <1>10 DEF S

LEMMA WithinGrows ==
    ASSUME site \in Sites, NEW n \in Nat
    PROVE  Within[n] \subseteq Within[n + 1] /\ Within[n] \subseteq URL
  BY WithinUnfolds DEF Nearer

(* The documents found by then. *)
Documents(n) == {FetchURL(u) : u \in Within[n]} \cap DOMAIN site.doc

LEMMA DocumentsGrow ==
    ASSUME site \in Sites, NEW n \in Nat
    PROVE  /\ Documents(n) \subseteq Documents(n + 1) /\ Documents(n) \subseteq DOMAIN site.doc
           /\ IsFiniteSet(Documents(n))
           /\ Cardinality(Documents(n)) \in Nat
           /\ Cardinality(Documents(n)) <= Cardinality(DOMAIN site.doc)
           /\ Documents(n + 1) # Documents(n) =>
                Cardinality(Documents(n)) < Cardinality(Documents(n + 1))
  <1>1. IsFiniteSet(DOMAIN site.doc)
    BY SiteAssumption
  <1>2. \A m \in Nat : Documents(m) \subseteq DOMAIN site.doc
    BY DEF Documents
  <1>3. Documents(n) \subseteq Documents(n + 1)
    BY WithinGrows DEF Documents
  <1>4. n + 1 \in Nat
    OBVIOUS
  <1>5. /\ IsFiniteSet(Documents(n)) /\ IsFiniteSet(Documents(n + 1))
        /\ Cardinality(Documents(n)) <= Cardinality(DOMAIN site.doc)
    BY <1>1, <1>2, <1>4, FS_Subset
  <1>6. Cardinality(Documents(n)) \in Nat
    BY <1>5, FS_CardinalityType
  <1>7. ASSUME Documents(n + 1) # Documents(n)
        PROVE  Cardinality(Documents(n)) < Cardinality(Documents(n + 1))
    <2>1. /\ Cardinality(Documents(n)) <= Cardinality(Documents(n + 1))
          /\ Cardinality(Documents(n)) = Cardinality(Documents(n + 1))
               => Documents(n) = Documents(n + 1)
      BY <1>3, <1>5, FS_Subset
    <2>2. Cardinality(Documents(n + 1)) \in Nat
      BY <1>5, FS_CardinalityType
    <2> QED BY <1>6, <1>7, <2>1, <2>2
  <1> QED BY <1>2, <1>3, <1>5, <1>6, <1>7

(* Before there are more documents than the site has, one step finds none. *)
LEMMA DocumentsRunOut ==
    ASSUME site \in Sites, Documents(0) # {}
    PROVE  \E m \in Nat : m < Cardinality(DOMAIN site.doc) /\ Documents(m + 1) = Documents(m)
  <1> DEFINE early(k) == \E m \in Nat : m < k /\ Documents(m + 1) = Documents(m)
             P(k) == early(k) \/ Cardinality(Documents(k)) >= k + 1
             T == {k \in Nat : P(k)}
             d == Cardinality(DOMAIN site.doc)
  <1>1. P(0)
    <2>1. IsFiniteSet(Documents(0)) /\ Cardinality(Documents(0)) \in Nat
      BY DocumentsGrow
    <2>2. Cardinality(Documents(0)) # 0
      BY <2>1, FS_EmptySet
    <2> QED BY <2>1, <2>2
  <1>2. ASSUME NEW k \in Nat, P(k) PROVE P(k + 1)
    <2>1. CASE early(k)
      BY <2>1
    <2>2. CASE Documents(k + 1) = Documents(k)
      BY <2>2
    <2>3. CASE Documents(k + 1) # Documents(k) /\ Cardinality(Documents(k)) >= k + 1
      <3>1. Cardinality(Documents(k)) < Cardinality(Documents(k + 1))
        BY <2>3, DocumentsGrow
      <3>2. Cardinality(Documents(k)) \in Nat /\ Cardinality(Documents(k + 1)) \in Nat
        BY DocumentsGrow
      <3> QED BY <2>3, <3>1, <3>2
    <2> QED BY <1>2, <2>1, <2>2, <2>3
  <1> HIDE DEF P
  <1>3. 0 \in T /\ \A k \in T : k + 1 \in T
    BY <1>1, <1>2
  <1> HIDE DEF T
  <1>4. T = Nat
    BY <1>3, Induction DEF T
  <1>5. d \in Nat
    BY SiteAssumption, FS_CardinalityType
  <1>6. P(d)
    BY <1>4, <1>5 DEF T
  <1>7. Cardinality(Documents(d)) <= d /\ Cardinality(Documents(d)) \in Nat
    BY <1>5, DocumentsGrow
  <1>8. early(d)
    <2> HIDE DEF early, d
    <2> QED BY <1>5, <1>6, <1>7 DEF P
  <1> QED BY <1>8

LEMMA DotlessChildren ==
    ASSUME site \in Sites, NEW m \in Nat, NEW u \in URL,
           FetchURL(u) \in DOMAIN site.doc => FetchURL(u) \in Documents(m),
           NEW c \in Children(u)
    PROVE  \E d \in Within[m + 1] : FetchURL(d) = FetchURL(c) /\ (d = c \/ c = Undotted(u))
  <1>1. FetchURL(u) \in DOMAIN site.doc
    BY ChildrenType
  <1>2. PICK v \in Within[m] : FetchURL(v) = FetchURL(u)
    BY <1>1 DEF Documents
  <1>3. v \in URL
    BY <1>2, WithinGrows
  <1>4. PICK d \in Children(v) : FetchURL(d) = FetchURL(c) /\ (d = c \/ c = Undotted(u))
    BY <1>2, <1>3, SameDocument
  <1>5. d \in Within[m + 1]
    BY <1>2, <1>4, WithinUnfolds DEF Nearer
  <1> QED BY <1>4, <1>5

(* Once a step finds no document, one more step finds what there is: the   *)
(* references of documents to themselves.                                  *)
LEMMA NoNewDocument ==
    ASSUME site \in Sites, NEW m \in Nat, Documents(m + 1) = Documents(m)
    PROVE  Nearer(Within[m + 2]) = Within[m + 2]
  <1>1. m + 1 \in Nat /\ m + 2 \in Nat /\ (m + 1) + 1 = m + 2
    OBVIOUS
  <1>2. Within[m + 2] = Nearer(Within[m + 1]) /\ Within[m + 1] \subseteq Within[m + 2]
        /\ Within[m + 1] \subseteq URL /\ Within[m + 2] \subseteq URL
    BY <1>1, WithinUnfolds, WithinGrows
  <1>3. SUFFICES ASSUME NEW x \in Within[m + 2], NEW c \in Children(x)
                 PROVE  c \in Within[m + 2]
    BY DEF Nearer
  <1>4. CASE x \in Within[m + 1]
    BY <1>2, <1>4 DEF Nearer
  <1>5. CASE x \notin Within[m + 1]
    <2>1. PICK u \in Within[m + 1] : x \in Children(u)
      BY <1>2, <1>5 DEF Nearer
    <2>2. u \in URL /\ FetchURL(u) \in DOMAIN site.doc => FetchURL(u) \in Documents(m)
      BY <1>2, <2>1 DEF Documents
    <2>3. PICK e \in Within[m + 1] : FetchURL(e) = FetchURL(x) /\ (e = x \/ x = Undotted(u))
      BY <1>2, <2>1, <2>2, DotlessChildren
    <2>4. x = Undotted(u)
      BY <1>5, <2>3
    <2>5. Undotted(x) = x
      BY <1>2, <2>1, <2>4, UndottedFacts
    <2>6. FetchURL(x) \in DOMAIN site.doc => FetchURL(x) \in Documents(m)
      BY <2>3 DEF Documents
    <2>7. PICK d \in Within[m + 1] : FetchURL(d) = FetchURL(c) /\ (d = c \/ c = Undotted(x))
      BY <1>2, <2>6, DotlessChildren
    <2>8. d = c \/ c = x
      BY <2>5, <2>7
    <2> QED BY <1>2, <2>7, <2>8
  <1> QED BY <1>4, <1>5

LEMMA Stays ==
    ASSUME site \in Sites, NEW m \in Nat, Nearer(Within[m]) = Within[m], NEW n \in Nat, m <= n
    PROVE  Within[n] = Within[m]
  <1> DEFINE T == {k \in Nat : Within[m + k] = Within[m]}
  <1>1. 0 \in T
    OBVIOUS
  <1>2. ASSUME NEW k \in T PROVE k + 1 \in T
    <2>1. m + k \in Nat /\ (m + k) + 1 = m + (k + 1)
      OBVIOUS
    <2>2. Within[(m + k) + 1] = Nearer(Within[m + k])
      BY <2>1, WithinUnfolds
    <2>3. Within[m + (k + 1)] = Within[m]
      BY <2>1, <2>2
    <2> QED BY <2>3
  <1> HIDE DEF T
  <1>3. T = Nat
    BY <1>1, <1>2, Induction DEF T
  <1>4. PICK k \in Nat : m + k = n
    <2>1. n - m \in Nat /\ m + (n - m) = n
      OBVIOUS
    <2> QED BY <2>1
  <1>5. Within[m + k] = Within[m]
    BY <1>3, <1>4 DEF T
  <1> QED BY <1>4, <1>5

(* The sitemaps a site leads to are the least set that holds the roots and *)
(* the children of its members.                                            *)
LEMMA ReachableIsClosed ==
    ASSUME site \in Sites
    PROVE  /\ Reachable \subseteq URL /\ Roots \subseteq Reachable
           /\ \A u \in Reachable : Children(u) \subseteq Reachable
           /\ \A closed : Roots \subseteq closed
                            /\ (\A u \in closed \cap Reachable : Children(u) \subseteq closed)
                              => Reachable \subseteq closed
  <1> DEFINE d == Cardinality(DOMAIN site.doc)
             N == d + 1
  <1>1. d \in Nat /\ N \in Nat
    BY SiteAssumption, FS_CardinalityType
  <1>2. Reachable = Within[N]
    BY DEF Reachable
  <1> HIDE DEF d, N
  <1>3. Reachable \subseteq URL
    BY <1>1, <1>2, WithinGrows
  <1>4. \E m \in Nat : m <= N /\ Nearer(Within[m]) = Within[m]
    <2>1. CASE Documents(0) = {}
      <3>1. \A u \in Roots : FetchURL(u) \notin DOMAIN site.doc
        BY <2>1, WithinUnfolds DEF Documents
      <3>2. \A u \in Roots : Children(u) = {}
        BY <3>1, RootsType, ChildrenType
      <3>3. Nearer(Within[0]) = Within[0]
        BY <3>2, WithinUnfolds DEF Nearer
      <3> QED BY <1>1, <3>3
    <2>2. CASE Documents(0) # {}
      <3>1. PICK m \in Nat : m < d /\ Documents(m + 1) = Documents(m)
        BY <2>2, DocumentsRunOut DEF d
      <3>2. Nearer(Within[m + 2]) = Within[m + 2]
        BY <3>1, NoNewDocument
      <3>3. m + 2 \in Nat /\ m + 2 <= N
        BY <1>1, <3>1 DEF N
      <3> QED BY <3>2, <3>3
    <2> QED BY <2>1, <2>2
  <1>5. PICK m \in Nat : m <= N /\ Nearer(Within[m]) = Within[m]
    BY <1>4
  <1>6. Reachable = Within[m]
    BY <1>1, <1>2, <1>5, Stays
  <1>7. \A u \in Reachable : Children(u) \subseteq Reachable
    BY <1>5, <1>6 DEF Nearer
  <1>8. ASSUME NEW n \in Nat PROVE Roots \subseteq Within[n]
    <2> DEFINE T == {k \in Nat : Roots \subseteq Within[k]}
    <2>1. 0 \in T /\ \A k \in T : k + 1 \in T
      BY WithinUnfolds, WithinGrows
    <2> HIDE DEF T
    <2>2. T = Nat
      BY <2>1, Induction DEF T
    <2> QED BY <2>2 DEF T
  <1>9. ASSUME NEW n \in Nat, n <= N PROVE Within[n] \subseteq Reachable
    <2> DEFINE T == {k \in Nat : Within[n] \subseteq Within[n + k]}
    <2>1. 0 \in T
      OBVIOUS
    <2>2. ASSUME NEW k \in T PROVE k + 1 \in T
      <3>1. n + k \in Nat /\ (n + k) + 1 = n + (k + 1)
        OBVIOUS
      <3>2. Within[n] \subseteq Within[n + (k + 1)]
        BY <3>1, WithinGrows
      <3> QED BY <3>2
    <2> HIDE DEF T
    <2>3. T = Nat
      BY <2>1, <2>2, Induction DEF T
    <2>4. N - n \in Nat /\ n + (N - n) = N
      BY <1>1, <1>9
    <2> QED BY <1>2, <2>3, <2>4 DEF T
  <1>10. ASSUME NEW closed, Roots \subseteq closed,
                \A u \in closed \cap Reachable : Children(u) \subseteq closed
         PROVE  Reachable \subseteq closed
    <2> DEFINE T == {k \in Nat : k <= N => Within[k] \subseteq closed}
    <2>1. 0 \in T
      BY <1>10, WithinUnfolds
    <2>2. ASSUME NEW k \in T PROVE k + 1 \in T
      <3>1. CASE k + 1 <= N
        <4>1. Within[k] \subseteq closed /\ Within[k] \subseteq Reachable
          BY <1>1, <1>9, <3>1
        <4>2. Within[k + 1] \subseteq closed
          BY <1>10, <4>1, WithinUnfolds DEF Nearer
        <4> QED BY <4>2
      <3>2. CASE ~(k + 1 <= N)
        BY <3>2
      <3> QED BY <3>1, <3>2
    <2> HIDE DEF T
    <2>3. T = Nat
      BY <2>1, <2>2, Induction DEF T
    <2> QED BY <1>1, <1>2, <2>3 DEF T
  <1> QED BY <1>1, <1>2, <1>3, <1>7, <1>8, <1>10

-----------------------------------------------------------------------------
(* Counting the entries of indexes *)

LEMMA ImageFinite ==
    ASSUME NEW S, IsFiniteSet(S), NEW f
    PROVE  /\ IsFiniteSet({f[x] : x \in S})
           /\ (\A x, y \in S : f[x] = f[y] => x = y) =>
                Cardinality({f[x] : x \in S}) = Cardinality(S)
  <1> DEFINE T == {f[x] : x \in S}
             g == [x \in S |-> f[x]]
  <1>1. g \in Surjection(S, T)
    BY DEF Surjection
  <1>2. (\A x, y \in S : f[x] = f[y] => x = y) => g \in Injection(S, T)
    BY DEF Injection, IsInjective
  <1> HIDE DEF g, T
  <1>3. IsFiniteSet(T) /\ (Cardinality(T) = Cardinality(S) <=> g \in Injection(S, T))
    BY <1>1, FS_Surjection
  <1> QED BY <1>2, <1>3 DEF T

LEMMA SeqFinite ==
    ASSUME NEW S, NEW s \in Seq(S)
    PROVE  IsFiniteSet(ToSet(s)) /\ IsFiniteSet(DOMAIN s)
  <1>1. DOMAIN s = 1..Len(s) /\ Len(s) \in Nat
    OBVIOUS
  <1>2. IsFiniteSet(DOMAIN s)
    BY <1>1, FS_Interval
  <1>3. IsFiniteSet({s[i] : i \in DOMAIN s})
    BY <1>2, ImageFinite
  <1> QED BY <1>2, <1>3 DEF ToSet

LEMMA UnionFinite ==
    ASSUME NEW S, IsFiniteSet(S), NEW f, \A x \in S : IsFiniteSet(f[x])
    PROVE  IsFiniteSet(UNION {f[x] : x \in S})
  <1> DEFINE T == {f[x] : x \in S}
  <1>1. IsFiniteSet(T) /\ \A t \in T : IsFiniteSet(t)
    BY ImageFinite
  <1> HIDE DEF T
  <1>2. IsFiniteSet(UNION T)
    BY <1>1, FS_UNION
  <1> QED BY <1>2 DEF T

LEMMA ChildrenFinite ==
    ASSUME site \in Sites, NEW u \in URL
    PROVE  IsFiniteSet(Children(u)) /\ IsFiniteSet(EntriesOf(u))
  <1> DEFINE children == Links(Fetch(u).children, u)
             ours == {k \in DOMAIN children : children[k] \in Children(u)}
             pair == [i \in ours |-> <<u, i>>]
  <1>1. children \in Seq(URL \cup {Malformed})
    BY FetchType, LinksType
  <1> HIDE DEF children
  <1>2. IsFiniteSet(ToSet(children)) /\ IsFiniteSet(DOMAIN children)
    BY <1>1, SeqFinite
  <1>3. Children(u) \subseteq ToSet(children)
    BY DEF Children, children
  <1>4. IsFiniteSet(ours)
    BY <1>2, FS_Subset
  <1>5. EntriesOf(u) = {<<u, i>> : i \in ours}
    BY DEF EntriesOf, children
  <1> HIDE DEF ours
  <1>6. EntriesOf(u) = {pair[i] : i \in ours}
    BY <1>5
  <1> HIDE DEF pair
  <1> QED BY <1>2, <1>3, <1>4, <1>6, ImageFinite, FS_Subset

LEMMA RootsFinite ==
    ASSUME site \in Sites
    PROVE  IsFiniteSet(Roots)
  <1> DEFINE named == ToSet(site.roots)
             link == [h \in named |-> NormalizeLink(h, h)]
  <1>1. site.roots \in Seq(Absolute)
    BY SiteAssumption
  <1>2. IsFiniteSet(named)
    BY <1>1, SeqFinite
  <1> HIDE DEF named
  <1>3. Roots = {link[h] : h \in named}
    BY DEF Roots, named
  <1> HIDE DEF link
  <1> QED BY <1>2, <1>3, ImageFinite

LEMMA ReachableFinite ==
    ASSUME site \in Sites
    PROVE  IsFiniteSet(Reachable)
  <1> DEFINE T == {n \in Nat : IsFiniteSet(Within[n])}
  <1>1. 0 \in T
    BY RootsFinite, WithinUnfolds
  <1>2. ASSUME NEW n \in T PROVE n + 1 \in T
    <2> DEFINE below == [u \in Within[n] |-> Children(u)]
    <2>1. Within[n] \subseteq URL /\ IsFiniteSet(Within[n])
      BY WithinGrows
    <2>2. \A u \in Within[n] : IsFiniteSet(below[u])
      BY <2>1, ChildrenFinite
    <2>3. UNION {Children(u) : u \in Within[n]} = UNION {below[u] : u \in Within[n]}
      OBVIOUS
    <2> HIDE DEF below
    <2>4. IsFiniteSet(UNION {below[u] : u \in Within[n]})
      BY <2>1, <2>2, UnionFinite
    <2>5. Within[n + 1] = Within[n] \cup UNION {below[u] : u \in Within[n]}
      BY <2>3, WithinUnfolds DEF Nearer
    <2>6. IsFiniteSet(Within[n + 1])
      BY <2>1, <2>4, <2>5, FS_Union
    <2> QED BY <2>6
  <1> HIDE DEF T
  <1>3. T = Nat
    BY <1>1, <1>2, Induction DEF T
  <1>4. Cardinality(DOMAIN site.doc) + 1 \in Nat
    BY SiteAssumption, FS_CardinalityType
  <1> QED BY <1>3, <1>4 DEF T, Reachable

LEMMA EntriesFinite ==
    ASSUME site \in Sites, NEW sitemaps, sitemaps \subseteq Reachable
    PROVE  /\ IsFiniteSet(IndexEntries(sitemaps))
           /\ Cardinality(IndexEntries(sitemaps)) \in Nat
           /\ Cardinality(IndexEntries(sitemaps)) <= Cardinality(IndexEntries(Reachable))
           /\ Cardinality(IndexEntries(Reachable)) \in Nat
  <1> DEFINE entries == [u \in Reachable |-> EntriesOf(u)]
  <1>1. IsFiniteSet(Reachable) /\ Reachable \subseteq URL
    BY ReachableFinite, ReachableIsClosed
  <1>2. \A u \in Reachable : IsFiniteSet(entries[u])
    BY <1>1, ChildrenFinite
  <1>3. IndexEntries(Reachable) = UNION {entries[u] : u \in Reachable}
    BY DEF IndexEntries
  <1> HIDE DEF entries
  <1>4. IsFiniteSet(IndexEntries(Reachable))
    BY <1>1, <1>2, <1>3, UnionFinite
  <1>5. IndexEntries(sitemaps) \subseteq IndexEntries(Reachable)
    BY DEF IndexEntries
  <1> QED BY <1>4, <1>5, FS_Subset, FS_CardinalityType

(* The entries of a further sitemap add to those of the others. *)
LEMMA EntriesAdd ==
    ASSUME site \in Sites, NEW sitemaps, NEW u \in Reachable, sitemaps \subseteq Reachable,
           u \notin sitemaps
    PROVE  /\ Cardinality(IndexEntries(sitemaps \cup {u})) =
                Cardinality(IndexEntries(sitemaps)) + Cardinality(EntriesOf(u))
           /\ Cardinality(EntriesOf(u)) \in Nat
  <1> DEFINE A == IndexEntries(sitemaps)
             B == EntriesOf(u)
  <1>1. IsFiniteSet(A) /\ IsFiniteSet(B) /\ Cardinality(A) \in Nat /\ Cardinality(B) \in Nat
    BY EntriesFinite, ChildrenFinite, ReachableIsClosed, FS_CardinalityType
  <1>2. IndexEntries(sitemaps \cup {u}) = A \cup B
    BY DEF IndexEntries
  <1>3. A \cap B = {}
    <2>1. \A v : \A e \in EntriesOf(v) : e[1] = v
      BY DEF EntriesOf
    <2>2. \A e \in A : e[1] \in sitemaps
      BY <2>1 DEF IndexEntries
    <2> QED BY <2>1, <2>2
  <1> HIDE DEF A, B
  <1>4. Cardinality(A \cup B) = Cardinality(A) + Cardinality(B)
    BY <1>1, <1>3, FS_Union, FS_EmptySet
  <1> QED BY <1>1, <1>2, <1>4 DEF A, B

(* What a sitemap without faults queues: its children, entry by entry. *)
LEMMA InScopeFacts ==
    ASSUME site \in Sites, NEW u \in URL, ~Faulty(u)
    PROVE  LET queued == InScope(Links(Fetch(u).children, u)) IN
           /\ queued \in Seq(URL) /\ ToSet(queued) = Children(u)
           /\ Len(queued) = Cardinality(EntriesOf(u))
  <1> DEFINE children == Links(Fetch(u).children, u)
             K == {i \in DOMAIN children : Allowed(children[i])}
             queued == InScope(children)
             pair == [i \in K |-> <<u, i>>]
  <1>1. children \in Seq(URL \cup {Malformed}) /\ Malformed \notin ToSet(children)
    BY FetchType, LinksType DEF Faulty
  <1> HIDE DEF children
  <1>2. children \in Seq(URL)
    <2>1. DOMAIN children = 1..Len(children) /\ Len(children) \in Nat
      BY <1>1
    <2>2. \A i \in DOMAIN children : children[i] \in URL
      BY <1>1 DEF ToSet
    <2>3. children = [i \in DOMAIN children |-> children[i]]
      BY <1>1
    <2> QED BY <2>1, <2>2, <2>3
  <1>3. \A i \in DOMAIN children : children[i] \in URL /\ children[i] # Malformed
    BY <1>1, <1>2 DEF ToSet
  <1>4. K = {i \in DOMAIN children : children[i] \in Children(u)}
    <2>1. \A i \in DOMAIN children : Allowed(children[i]) <=> WithinScope(Resource(children[i]))
      BY <1>3, ScopeIsDocumented
    <2>2. \A i \in DOMAIN children : children[i] \in Children(u) <=> WithinScope(Resource(children[i]))
      BY <1>3 DEF Children, children, ToSet
    <2> QED BY <2>1, <2>2
  <1>5. queued = Select(children, K)
    BY DEF InScope
  <1>6. /\ queued \in Seq(URL) /\ ToSet(queued) = {children[i] : i \in K}
        /\ IsFiniteSet(K) /\ Len(queued) = Cardinality(K)
    <2>1. K \in SUBSET DOMAIN children
      OBVIOUS
    <2> HIDE DEF K, queued
    <2> QED BY <1>2, <1>5, <2>1, SelectFacts
  <1>7. ToSet(queued) = Children(u)
    <2>1. Children(u) \subseteq ToSet(children)
      BY DEF Children, children
    <2> HIDE DEF queued
    <2> QED BY <1>4, <1>6, <2>1 DEF ToSet
  <1>8. EntriesOf(u) = {pair[i] : i \in K} /\ \A i, j \in K : pair[i] = pair[j] => i = j
    <2>1. EntriesOf(u) = {<<u, i>> : i \in K}
      BY <1>4 DEF EntriesOf, children
    <2> HIDE DEF K
    <2> QED BY <2>1
  <1>9. Cardinality(EntriesOf(u)) = Cardinality(K)
    <2> HIDE DEF pair, K
    <2> QED BY <1>6, <1>8, ImageFinite
  <1> HIDE DEF queued, K
  <1>10. queued \in Seq(URL) /\ ToSet(queued) = Children(u) /\ Len(queued) = Cardinality(EntriesOf(u))
    BY <1>6, <1>7, <1>9
  <1> QED BY <1>10 DEF queued, children

-----------------------------------------------------------------------------
(* The inductive invariant *)

(* The sitemaps queued. *)
Pending == {NormalizeLink(h, h) : h \in ToSet(queue)}

Sound ==
    /\ \A u \in Reachable : ~Faulty(u)
    /\ Cardinality(IndexEntries(Reachable)) <= MaxChildren

(* What was fetched and what is queued are reachable, and between them     *)
(* they are closed under the children of what was fetched.                 *)
Walked ==
    /\ queue \in Seq(Absolute)
    /\ IsInjective(fetched) /\ ToSet(fetched) = seenSitemaps
    /\ seenSitemaps \cup Pending \subseteq Reachable
    /\ phase \in {"localRoot", "done"} => queue = <<>>
    /\ phase # "failed" =>
         /\ Roots \subseteq seenSitemaps \cup Pending
         /\ \A u \in seenSitemaps : ~Faulty(u) /\ Children(u) \subseteq seenSitemaps \cup Pending
         /\ childSitemaps = Cardinality(IndexEntries(seenSitemaps))
    /\ phase = "failed" => ~Sound \/ site.unreadable

PagesOf(u) == ToSet(Links(Fetch(u).pages, u))

LinksOf(records) == {records[i].link : i \in DOMAIN records}
OneEach(records) == \A i, j \in DOMAIN records : records[i].link = records[j].link => i = j

(* The pages seen are those of the sitemaps fetched; each is a skip when   *)
(* it is out of scope, and else a seed while there is room.                *)
PagesTaken ==
    /\ phase # "failed" => seenPages = UNION {PagesOf(u) : u \in seenSitemaps}
    /\ OneEach(seeds) /\ OneEach(skips)
    /\ LinksOf(skips) = {p \in seenPages : ~Allowed(p)}
    /\ LinksOf(seeds) \subseteq {p \in seenPages : Allowed(p)}
    /\ LinksOf(seeds) = {p \in seenPages : Allowed(p)} \/ Len(seeds) = MaxURLs
    /\ \A i \in DOMAIN seeds : seeds[i].link \in PagesOf(seeds[i].source)
    /\ \A i \in DOMAIN skips : skips[i].reason = Check(Scope, FetchURL(skips[i].link))

Inv == TypeOK /\ Walked /\ PagesTaken

-----------------------------------------------------------------------------
(* The pages of one sitemap *)

LEMMA MetFirstFacts ==
    ASSUME NEW pages \in Seq(URL)
    PROVE  /\ MetFirst(pages) \subseteq DOMAIN pages
           /\ {pages[i] : i \in MetFirst(pages)} = ToSet(pages) \ seenPages
           /\ \A i, j \in MetFirst(pages) : pages[i] = pages[j] => i = j
  <1> DEFINE F == MetFirst(pages)
  <1>1. DOMAIN pages = 1..Len(pages) /\ Len(pages) \in Nat
    OBVIOUS
  <1>2. F \subseteq DOMAIN pages
    BY DEF MetFirst
  <1>3. ASSUME NEW i \in F, NEW j \in F, pages[i] = pages[j] PROVE i = j
    <2>1. ~(i < j) /\ ~(j < i)
      BY <1>1, <1>3 DEF MetFirst
    <2> QED BY <1>1, <1>2, <2>1
  <1>4. ASSUME NEW p \in ToSet(pages) \ seenPages PROVE \E i \in F : pages[i] = p
    <2> DEFINE T == {i \in DOMAIN pages : pages[i] = p}
    <2>1. T \in SUBSET Nat /\ T # {}
      BY <1>1 DEF ToSet
    <2> HIDE DEF T
    <2>2. PICK x \in T : \A y \in T : x <= y
      BY <2>1, Least
    <2>3. x \in DOMAIN pages /\ pages[x] = p
      BY <2>2 DEF T
    <2>4. ASSUME NEW j \in 1..(x - 1) PROVE pages[j] # p
      <3>1. j \in DOMAIN pages /\ ~(x <= j)
        BY <1>1, <2>3
      <3> QED BY <2>2, <3>1 DEF T
    <2>5. x \in F
      BY <2>3, <2>4 DEF MetFirst
    <2> QED BY <2>3, <2>5
  <1>5. \A i \in F : pages[i] \in ToSet(pages) \ seenPages
    BY DEF MetFirst, ToSet
  <1> HIDE DEF F
  <1>6. {pages[i] : i \in F} = ToSet(pages) \ seenPages
    BY <1>4, <1>5
  <1> QED BY <1>2, <1>3, <1>6 DEF F

(* Of the pages met first, those with a property. *)
LEMMA FreshFacts ==
    ASSUME NEW pages \in Seq(URL), NEW wanted
    PROVE  LET taken == Select(pages, {i \in MetFirst(pages) : pages[i] \in wanted}) IN
           /\ taken \in Seq(URL) /\ IsInjective(taken)
           /\ ToSet(taken) = (ToSet(pages) \cap wanted) \ seenPages
  <1> DEFINE K == {i \in MetFirst(pages) : pages[i] \in wanted}
             taken == Select(pages, K)
  <1>1. K \in SUBSET DOMAIN pages /\ \A i, j \in K : pages[i] = pages[j] => i = j
    BY MetFirstFacts
  <1>2. {pages[i] : i \in K} = (ToSet(pages) \cap wanted) \ seenPages
    <2>1. {pages[i] : i \in MetFirst(pages)} = ToSet(pages) \ seenPages
      BY MetFirstFacts
    <2>2. \A p : p \in {pages[i] : i \in K} <=> p \in {pages[i] : i \in MetFirst(pages)} /\ p \in wanted
      OBVIOUS
    <2> HIDE DEF K
    <2> QED BY <2>1, <2>2
  <1> HIDE DEF K
  <1>3. taken \in Seq(URL) /\ ToSet(taken) = {pages[i] : i \in K} /\ IsInjective(taken)
    BY <1>1, SelectFacts
  <1> HIDE DEF taken
  <1>4. taken \in Seq(URL) /\ IsInjective(taken) /\ ToSet(taken) = (ToSet(pages) \cap wanted) \ seenPages
    BY <1>2, <1>3
  <1> QED BY <1>4 DEF taken, K

(* Records added to others for links that those do not have. *)
Fitting(records, added, s) ==
    /\ Len(added) <= Len(s) /\ \A i \in 1..Len(added) : added[i].link = s[i]
    /\ IsInjective(s) /\ ToSet(s) \cap LinksOf(records) = {} /\ OneEach(records)

Joined(R, records, added, s) ==
    LET all == records \o added IN
    /\ all \in Seq(R) /\ Len(all) = Len(records) + Len(added)
    /\ OneEach(all) /\ LinksOf(all) = LinksOf(records) \cup {s[i] : i \in 1..Len(added)}
    /\ \A i \in DOMAIN all : \/ i \in DOMAIN records /\ all[i] = records[i]
                             \/ \E j \in 1..Len(added) : all[i] = added[j]

LEMMA RecordsAdded ==
    ASSUME NEW R, NEW records \in Seq(R), NEW added \in Seq(R), NEW s \in Seq(URL),
           Fitting(records, added, s)
    PROVE  Joined(R, records, added, s)
  <1> DEFINE L == Len(records)
             M == Len(added)
             all == records \o added
  <1>1. L \in Nat /\ M \in Nat /\ DOMAIN records = 1..L /\ DOMAIN s = 1..Len(s) /\ Len(s) \in Nat
    OBVIOUS
  <1>2. /\ all \in Seq(R) /\ Len(all) = L + M
        /\ \A i \in 1..L : all[i] = records[i]
        /\ \A j \in 1..M : all[L + j] = added[j]
    BY ConcatFacts
  <1>3. DOMAIN all = 1..(L + M)
    BY <1>2
  <1> HIDE DEF L, M, all
  <1>4. \A i \in 1..(L + M) : i \in 1..L \/ \E j \in 1..M : i = L + j
    <2> TAKE i \in 1..(L + M)
    <2>1. CASE i <= L
      BY <1>1, <2>1
    <2>2. CASE ~(i <= L)
      <3>1. i - L \in 1..M /\ i = L + (i - L)
        BY <1>1, <2>2
      <3> QED BY <3>1
    <2> QED BY <2>1, <2>2
  <1>5. \A j \in 1..M : j \in DOMAIN s /\ L + j \in 1..(L + M)
    BY <1>1 DEF M, Fitting
  <1>6. \A j \in 1..M : all[L + j].link = s[j]
    BY <1>2 DEF M, Fitting
  <1>7. \A i \in DOMAIN all : \/ i \in DOMAIN records /\ all[i] = records[i]
                              \/ \E j \in 1..M : all[i] = added[j]
    <2> TAKE i \in DOMAIN all
    <2>1. CASE i \in 1..L
      BY <1>1, <1>2, <2>1
    <2>2. CASE i \notin 1..L
      <3>1. PICK j \in 1..M : i = L + j
        BY <1>3, <1>4, <2>2
      <3>2. all[i] = added[j]
        BY <1>2, <3>1
      <3> QED BY <3>2
    <2> QED BY <2>1, <2>2
  <1>8. LinksOf(all) = LinksOf(records) \cup {s[i] : i \in 1..M}
    <2>1. LinksOf(all) \subseteq LinksOf(records) \cup {s[i] : i \in 1..M}
      <3>1. ASSUME NEW i \in DOMAIN all PROVE all[i].link \in LinksOf(records) \cup {s[n] : n \in 1..M}
        <4>1. CASE i \in 1..L
          BY <1>1, <1>2, <4>1 DEF LinksOf
        <4>2. CASE i \notin 1..L
          <5>1. PICK j \in 1..M : i = L + j
            BY <1>3, <1>4, <4>2
          <5>2. all[i].link = s[j]
            BY <1>6, <5>1
          <5> QED BY <5>2
        <4> QED BY <4>1, <4>2
      <3> QED BY <3>1 DEF LinksOf
    <2>2. \A i \in 1..L : i \in 1..(L + M)
      BY <1>1
    <2>3. LinksOf(records) \subseteq LinksOf(all)
      BY <1>1, <1>2, <1>3, <2>2 DEF LinksOf
    <2>4. {s[i] : i \in 1..M} \subseteq LinksOf(all)
      BY <1>3, <1>5, <1>6 DEF LinksOf
    <2> QED BY <2>1, <2>3, <2>4
  <1>9. OneEach(all)
    <2> SUFFICES ASSUME NEW i \in DOMAIN all, NEW k \in DOMAIN all, all[i].link = all[k].link
                 PROVE  i = k
      BY DEF OneEach
    <2>1. \A n \in 1..L, j \in 1..M : records[n].link # s[j]
      BY <1>1, <1>5 DEF LinksOf, ToSet, Fitting
    <2>2. CASE i \in 1..L /\ k \in 1..L
      BY <1>1, <1>2, <2>2 DEF OneEach, Fitting
    <2>3. CASE i \in 1..L /\ k \notin 1..L
      BY <1>2, <1>3, <1>4, <1>6, <2>1, <2>3
    <2>4. CASE i \notin 1..L /\ k \in 1..L
      BY <1>2, <1>3, <1>4, <1>6, <2>1, <2>4
    <2>5. CASE i \notin 1..L /\ k \notin 1..L
      <3>1. PICK a \in 1..M : i = L + a
        BY <1>3, <1>4, <2>5
      <3>2. PICK b \in 1..M : k = L + b
        BY <1>3, <1>4, <2>5
      <3>3. s[a] = s[b]
        BY <1>6, <3>1, <3>2
      <3>4. a = b
        BY <1>5, <3>3 DEF IsInjective, Fitting
      <3> QED BY <3>1, <3>2, <3>4
    <2> QED BY <2>2, <2>3, <2>4, <2>5
  <1> QED BY <1>2, <1>7, <1>8, <1>9 DEF L, M, all, Joined

Seed == [link : URL, source : URL]
Skip == [link : URL, source : URL, reason : {"external_origin", "outside_path_prefix"}]

(* What the loop over the pages adds to the seeds, up to the cap... *)
LEMMA SeedsTaken ==
    ASSUME site \in Sites, TypeOK, PagesTaken, NEW pages \in Seq(URL), NEW u \in URL,
           TakePages(pages, u)
    PROVE  /\ seeds' \in Seq(Seed) /\ Len(seeds') <= MaxURLs /\ OneEach(seeds')
           /\ LinksOf(seeds') \subseteq {p \in seenPages' : Allowed(p)}
           /\ LinksOf(seeds') = {p \in seenPages' : Allowed(p)} \/ Len(seeds') = MaxURLs
           /\ \A i \in DOMAIN seeds' :
                 \/ i \in DOMAIN seeds /\ seeds'[i] = seeds[i]
                 \/ seeds'[i].link \in ToSet(pages) /\ seeds'[i].source = u
  <1> DEFINE wanted == {p \in URL : Allowed(p)}
             allowed == Select(pages, {i \in MetFirst(pages) : pages[i] \in wanted})
             m == Smaller(Len(allowed), RoomForSeeds)
             added == [i \in 1..m |-> [link |-> allowed[i], source |-> u]]
  <1>1. seenPages \subseteq URL /\ seeds \in Seq(Seed) /\ Len(seeds) <= MaxURLs
    BY DEF TypeOK, Seed
  <1>2. \A i \in DOMAIN pages : pages[i] \in URL
    OBVIOUS
  <1>3. {i \in MetFirst(pages) : Allowed(pages[i])} = {i \in MetFirst(pages) : pages[i] \in wanted}
    BY <1>2, MetFirstFacts
  <1>4. seeds' = seeds \o added /\ seenPages' = seenPages \cup ToSet(pages)
    <2> HIDE DEF wanted
    <2> QED BY <1>3 DEF TakePages
  <1>5. /\ allowed \in Seq(URL) /\ IsInjective(allowed)
        /\ ToSet(allowed) = (ToSet(pages) \cap wanted) \ seenPages
    <2> HIDE DEF wanted
    <2> QED BY FreshFacts
  <1>6. ToSet(pages) \subseteq URL
    BY <1>2 DEF ToSet
  <1> HIDE DEF allowed
  <1>7. MaxURLs \in Nat /\ Len(seeds) \in Nat /\ Len(allowed) \in Nat
    BY <1>1, <1>5, LimitAssumption
  <1>8. /\ m \in Nat /\ m <= Len(allowed) /\ Len(seeds) + m <= MaxURLs
        /\ m = Len(allowed) \/ Len(seeds) + m = MaxURLs
    BY <1>1, <1>7 DEF Smaller, RoomForSeeds
  <1> HIDE DEF m
  <1>9. \A i \in 1..m : i \in DOMAIN allowed /\ allowed[i] \in URL /\ allowed[i] \in ToSet(allowed)
    BY <1>5, <1>7, <1>8 DEF ToSet
  <1>10. /\ added \in Seq(Seed) /\ Len(added) = m
         /\ \A i \in 1..m : added[i].link = allowed[i] /\ added[i].source = u
    <2>1. \A i \in 1..m : [link |-> allowed[i], source |-> u] \in Seed
      BY <1>9 DEF Seed
    <2> QED BY <1>8, <2>1
  <1> HIDE DEF added
  <1>11. OneEach(seeds) /\ LinksOf(seeds) \subseteq {p \in seenPages : Allowed(p)}
         /\ (LinksOf(seeds) = {p \in seenPages : Allowed(p)} \/ Len(seeds) = MaxURLs)
    BY DEF PagesTaken
  <1>12. ToSet(allowed) \cap LinksOf(seeds) = {}
    BY <1>5, <1>11
  <1>13. /\ seeds' \in Seq(Seed) /\ Len(seeds') = Len(seeds) + m /\ OneEach(seeds')
         /\ LinksOf(seeds') = LinksOf(seeds) \cup {allowed[i] : i \in 1..m}
         /\ \A i \in DOMAIN seeds' :
                 \/ i \in DOMAIN seeds /\ seeds'[i] = seeds[i]
                 \/ \E j \in 1..m : seeds'[i] = added[j]
    <2>1. /\ seeds \in Seq(Seed) /\ added \in Seq(Seed) /\ allowed \in Seq(URL)
          /\ Len(added) = m
          /\ Fitting(seeds, added, allowed)
      BY <1>1, <1>5, <1>8, <1>10, <1>11, <1>12 DEF Fitting
    <2> HIDE DEF m
    <2> DEFINE all == seeds \o added
    <2>2. /\ all \in Seq(Seed) /\ Len(all) = Len(seeds) + Len(added) /\ OneEach(all)
          /\ LinksOf(all) = LinksOf(seeds) \cup {allowed[i] : i \in 1..Len(added)}
          /\ \A i \in DOMAIN all :
                 \/ i \in DOMAIN seeds /\ all[i] = seeds[i]
                 \/ \E j \in 1..Len(added) : all[i] = added[j]
      <3>1. Joined(Seed, seeds, added, allowed)
        BY <2>1, RecordsAdded
      <3> QED BY <3>1 DEF Joined
    <2>3. seeds' = all
      BY <1>4
    <2> HIDE DEF all
    <2> QED BY <2>1, <2>2, <2>3
  <1>14. LinksOf(seeds') \subseteq {p \in seenPages' : Allowed(p)}
    <2>1. {allowed[i] : i \in 1..m} \subseteq ToSet(allowed)
      BY <1>9
    <2> QED BY <1>4, <1>5, <1>11, <1>13, <2>1
  <1>15. LinksOf(seeds') = {p \in seenPages' : Allowed(p)} \/ Len(seeds') = MaxURLs
    <2>1. CASE Len(seeds) + m = MaxURLs
      BY <1>13, <2>1
    <2>2. CASE Len(seeds) + m # MaxURLs
      <3>1. m = Len(allowed) /\ Len(seeds) # MaxURLs
        BY <1>1, <1>7, <1>8, <2>2
      <3>2. {allowed[i] : i \in 1..m} = ToSet(allowed)
        BY <1>5, <3>1 DEF ToSet
      <3>3. LinksOf(seeds') = {p \in seenPages : Allowed(p)} \cup ToSet(allowed)
        BY <1>11, <1>13, <3>1, <3>2
      <3>4. {p \in seenPages' : Allowed(p)} = {p \in seenPages : Allowed(p)} \cup ToSet(allowed)
        BY <1>4, <1>5, <1>6
      <3> QED BY <3>3, <3>4
    <2> QED BY <2>1, <2>2
  <1>16. \A i \in DOMAIN seeds' :
            \/ i \in DOMAIN seeds /\ seeds'[i] = seeds[i]
            \/ seeds'[i].link \in ToSet(pages) /\ seeds'[i].source = u
    <2>1. \A j \in 1..m : added[j].link \in ToSet(pages) /\ added[j].source = u
      BY <1>5, <1>9, <1>10
    <2> QED BY <1>13, <2>1
  <1> QED BY <1>8, <1>13, <1>14, <1>15, <1>16

(* ... and to the skips. *)
LEMMA SkipsTaken ==
    ASSUME site \in Sites, TypeOK, PagesTaken, NEW pages \in Seq(URL), NEW u \in URL,
           TakePages(pages, u)
    PROVE  /\ skips' \in Seq(Skip) /\ OneEach(skips')
           /\ LinksOf(skips') = {p \in seenPages' : ~Allowed(p)}
           /\ \A i \in DOMAIN skips' : skips'[i].reason = Check(Scope, FetchURL(skips'[i].link))
  <1> DEFINE unwanted == {p \in URL : ~Allowed(p)}
             refused == Select(pages, {i \in MetFirst(pages) : pages[i] \in unwanted})
             m == Len(refused)
             reason(p) == Check(Scope, FetchURL(p))
             added == [i \in 1..m |-> [link |-> refused[i], source |-> u, reason |-> reason(refused[i])]]
  <1>1. seenPages \subseteq URL /\ skips \in Seq(Skip)
    BY DEF TypeOK, Skip
  <1>2. \A i \in DOMAIN pages : pages[i] \in URL
    OBVIOUS
  <1>3. {i \in MetFirst(pages) : ~Allowed(pages[i])} = {i \in MetFirst(pages) : pages[i] \in unwanted}
    BY <1>2, MetFirstFacts
  <1>5. /\ refused \in Seq(URL) /\ IsInjective(refused)
        /\ ToSet(refused) = (ToSet(pages) \cap unwanted) \ seenPages
    <2> HIDE DEF unwanted
    <2> QED BY FreshFacts
  <1>4. skips' = skips \o added /\ seenPages' = seenPages \cup ToSet(pages)
    <2> HIDE DEF unwanted
    <2> DEFINE s == refused
    <2>1. skips' = skips \o [i \in DOMAIN s |-> [link |-> s[i], source |-> u, reason |-> reason(s[i])]]
      BY <1>3 DEF TakePages
    <2> HIDE DEF s, refused
    <2>2. DOMAIN s = 1..m
      BY <1>5 DEF s
    <2> QED BY <2>1, <2>2 DEF s, TakePages
  <1>6. ToSet(pages) \subseteq URL
    BY <1>2 DEF ToSet
  <1> HIDE DEF refused
  <1>8. m \in Nat
    BY <1>5
  <1>9. \A i \in 1..m : i \in DOMAIN refused /\ refused[i] \in URL /\ refused[i] \in ToSet(refused)
    BY <1>5 DEF ToSet
  <1> HIDE DEF m
  <1>10. \A p \in unwanted : reason(p) \in {"external_origin", "outside_path_prefix"}
    BY ScopeIsDocumented
  <1> HIDE DEF reason
  <1>11. \A i \in 1..m : refused[i] \in unwanted
    BY <1>5, <1>9
  <1>12. /\ added \in Seq(Skip) /\ Len(added) = m
         /\ \A i \in 1..m : added[i].link = refused[i] /\ added[i].reason = reason(refused[i])
    <2>1. \A i \in 1..m :
            [link |-> refused[i], source |-> u, reason |-> reason(refused[i])] \in Skip
      BY <1>9, <1>10, <1>11 DEF Skip
    <2> QED BY <1>8, <2>1
  <1> HIDE DEF added
  <1>13. OneEach(skips) /\ LinksOf(skips) = {p \in seenPages : ~Allowed(p)}
    BY DEF PagesTaken
  <1>14. ToSet(refused) \cap LinksOf(skips) = {}
    BY <1>5, <1>13
  <1>15. m <= Len(refused)
    BY <1>8 DEF m
  <1>16. /\ skips' \in Seq(Skip) /\ OneEach(skips')
         /\ LinksOf(skips') = LinksOf(skips) \cup {refused[i] : i \in 1..m}
         /\ \A i \in DOMAIN skips' :
                 \/ i \in DOMAIN skips /\ skips'[i] = skips[i]
                 \/ \E j \in 1..m : skips'[i] = added[j]
    <2>1. /\ skips \in Seq(Skip) /\ added \in Seq(Skip) /\ refused \in Seq(URL)
          /\ Len(added) = m
          /\ Fitting(skips, added, refused)
      BY <1>1, <1>5, <1>12, <1>13, <1>14, <1>15 DEF Fitting
    <2> HIDE DEF m
    <2> DEFINE all == skips \o added
    <2>2. /\ all \in Seq(Skip) /\ Len(all) = Len(skips) + Len(added) /\ OneEach(all)
          /\ LinksOf(all) = LinksOf(skips) \cup {refused[i] : i \in 1..Len(added)}
          /\ \A i \in DOMAIN all :
                 \/ i \in DOMAIN skips /\ all[i] = skips[i]
                 \/ \E j \in 1..Len(added) : all[i] = added[j]
      <3>1. Joined(Skip, skips, added, refused)
        BY <2>1, RecordsAdded
      <3> QED BY <3>1 DEF Joined
    <2>3. skips' = all
      BY <1>4
    <2> HIDE DEF all
    <2> QED BY <2>1, <2>2, <2>3
  <1>17. LinksOf(skips') = {p \in seenPages' : ~Allowed(p)}
    <2>1. {refused[i] : i \in 1..m} = ToSet(refused)
      BY <1>5 DEF ToSet, m
    <2>2. {p \in seenPages' : ~Allowed(p)} = {p \in seenPages : ~Allowed(p)} \cup ToSet(refused)
      BY <1>4, <1>5, <1>6
    <2> QED BY <1>13, <1>16, <2>1, <2>2
  <1>18. \A i \in DOMAIN skips' : skips'[i].reason = reason(skips'[i].link)
    <2>1. \A i \in DOMAIN skips : skips[i].reason = reason(skips[i].link)
      BY DEF PagesTaken, reason
    <2>2. \A j \in 1..m : added[j].reason = reason(added[j].link)
      BY <1>12
    <2> QED BY <1>16, <2>1, <2>2
  <1> QED BY <1>16, <1>17, <1>18 DEF reason

LEMMA SiteStays ==
    ASSUME site' = site
    PROVE  /\ Reachable' = Reachable /\ Roots' = Roots /\ Scope' = Scope
           /\ \A u : Children(u)' = Children(u)
           /\ \A u : EntriesOf(u)' = EntriesOf(u)
           /\ \A u : PagesOf(u)' = PagesOf(u)
           /\ \A u : Fetch(u)' = Fetch(u)
           /\ \A u : Faulty(u)' <=> Faulty(u)
           /\ \A u : Allowed(u)' <=> Allowed(u)
           /\ \A S : IndexEntries(S)' = IndexEntries(S)
  <1>1. Reachable' = Reachable /\ Roots' = Roots
    BY DEF Reachable, Within, Roots, Children, Fetch, WithinScope, SameSite
  <1>2. Scope' = Scope /\ \A u : Allowed(u)' <=> Allowed(u)
    BY DEF Scope, Allowed
  <1>3. \A u : Fetch(u)' = Fetch(u)
    BY DEF Fetch
  <1>4. \A u : Children(u)' = Children(u)
    BY DEF Children, Fetch, WithinScope, SameSite
  <1>5. \A u : Faulty(u)' <=> Faulty(u)
    BY DEF Faulty, Fetch
  <1>6. \A u : EntriesOf(u)' = EntriesOf(u)
    BY DEF EntriesOf, Children, Fetch, WithinScope, SameSite
  <1>7. \A u : PagesOf(u)' = PagesOf(u)
    BY DEF PagesOf, Fetch
  <1>8. \A S : IndexEntries(S)' = IndexEntries(S)
    BY DEF IndexEntries, EntriesOf, Children, Fetch, WithinScope, SameSite
  <1> QED BY <1>1, <1>2, <1>3, <1>4, <1>5, <1>6, <1>7, <1>8

LEMMA SoundStays ==
    ASSUME site' = site
    PROVE  Sound' <=> Sound
  <1>1. Reachable' = Reachable /\ (\A u : Faulty(u)' <=> Faulty(u))
    BY SiteStays
  <1>2. IndexEntries(Reachable)' = IndexEntries(Reachable)
    BY <1>1 DEF IndexEntries, EntriesOf, Children, Fetch, WithinScope, SameSite
  <1> QED BY <1>1, <1>2 DEF Sound

-----------------------------------------------------------------------------
(* The invariant holds *)

LEMMA HeadTail ==
    ASSUME NEW S, NEW s \in Seq(S), s # <<>>
    PROVE  /\ Head(s) \in S /\ Tail(s) \in Seq(S) /\ ToSet(s) = {Head(s)} \cup ToSet(Tail(s))
           /\ Head(s) \in ToSet(s)
  <1> DEFINE L == Len(s)
             t == Tail(s)
  <1>1. L \in Nat /\ L >= 1 /\ DOMAIN s = 1..L /\ Head(s) = s[1] /\ s[1] \in S
    OBVIOUS
  <1>2. t \in Seq(S) /\ DOMAIN t = 1..(L - 1) /\ \A i \in 1..(L - 1) : t[i] = s[i + 1]
    BY <1>1
  <1> HIDE DEF L, t
  <1>3. \A i \in 1..L : i = 1 \/ (i - 1 \in 1..(L - 1) /\ (i - 1) + 1 = i)
    BY <1>1
  <1>4. \A i \in 1..(L - 1) : i + 1 \in 1..L
    BY <1>1
  <1>5. 1 \in 1..L
    BY <1>1
  <1>6. ToSet(s) \subseteq {s[1]} \cup ToSet(t)
    BY <1>1, <1>2, <1>3 DEF ToSet
  <1>7. ToSet(t) \subseteq ToSet(s) /\ s[1] \in ToSet(s)
    BY <1>1, <1>2, <1>4, <1>5 DEF ToSet
  <1> QED BY <1>1, <1>2, <1>6, <1>7 DEF t

LEMMA ConcatSet ==
    ASSUME NEW S, NEW s \in Seq(S), NEW t \in Seq(S)
    PROVE  ToSet(s \o t) = ToSet(s) \cup ToSet(t)
  <1> DEFINE L == Len(s)
             M == Len(t)
             all == s \o t
  <1>1. /\ L \in Nat /\ M \in Nat /\ DOMAIN s = 1..L /\ DOMAIN t = 1..M
        /\ DOMAIN all = 1..(L + M)
        /\ \A i \in 1..L : all[i] = s[i]
        /\ \A j \in 1..M : all[L + j] = t[j]
    BY ConcatFacts
  <1> HIDE DEF L, M, all
  <1>2. \A i \in 1..(L + M) : i \in 1..L \/ (i - L \in 1..M /\ L + (i - L) = i)
    BY <1>1
  <1>3. (\A i \in 1..L : i \in 1..(L + M)) /\ (\A j \in 1..M : L + j \in 1..(L + M))
    BY <1>1
  <1>4. ToSet(all) \subseteq ToSet(s) \cup ToSet(t)
    <2> SUFFICES ASSUME NEW i \in 1..(L + M) PROVE all[i] \in ToSet(s) \cup ToSet(t)
      BY <1>1 DEF ToSet
    <2>1. CASE i \in 1..L
      BY <1>1, <2>1 DEF ToSet
    <2>2. CASE i \notin 1..L
      <3>1. PICK j \in 1..M : L + j = i
        BY <1>2, <2>2
      <3> QED BY <1>1, <3>1 DEF ToSet
    <2> QED BY <2>1, <2>2
  <1>5. ToSet(s) \cup ToSet(t) \subseteq ToSet(all)
    BY <1>1, <1>3 DEF ToSet
  <1> QED BY <1>4, <1>5 DEF all

LEMMA CurrentFacts ==
    ASSUME queue \in Seq(Absolute), queue # <<>>
    PROVE  /\ Current \in URL /\ Tail(queue) \in Seq(Absolute)
           /\ Pending = {Current} \cup {NormalizeLink(h, h) : h \in ToSet(Tail(queue))}
  <1>1. /\ Head(queue) \in Absolute /\ Tail(queue) \in Seq(Absolute)
        /\ ToSet(queue) = {Head(queue)} \cup ToSet(Tail(queue))
    BY HeadTail
  <1> QED BY <1>1, RootType DEF Current, Pending

(* What the walk over the sitemaps of a site reaches. *)
LEMMA WalkInit ==
    ASSUME Init
    PROVE  Inv
  <1>1. site \in Sites /\ queue = site.roots /\ phase = "sitemaps"
    BY DEF Init
  <1>2. queue \in Seq(Absolute)
    BY <1>1, SiteAssumption
  <1>3. Absolute \subseteq Location
    BY DEF Absolute
  <1>4. queue \in Seq(Location)
    BY <1>2, <1>3
  <1>5. MaxURLs \in Nat /\ MaxChildren \in Nat
    BY LimitAssumption
  <1>6. TypeOK
    <2>1. <<>> \in Seq(URL) /\ <<>> \in Seq(Seed) /\ <<>> \in Seq(Skip) /\ Len(<<>>) = 0
      OBVIOUS
    <2>2. /\ fetched \in Seq(URL) /\ seeds \in Seq(Seed) /\ Len(seeds) <= MaxURLs
          /\ skips \in Seq(Skip) /\ childSitemaps \in 0..MaxChildren
      BY <1>5, <2>1 DEF Init
    <2> QED BY <1>1, <1>4, <2>2 DEF Init, TypeOK, Seed, Skip
  <1>7. Pending = Roots
    BY <1>1 DEF Pending, Roots
  <1>8. Roots \subseteq Reachable
    BY <1>1, ReachableIsClosed
  <1>9. IsInjective(<<>>) /\ ToSet(<<>>) = {} /\ DOMAIN <<>> = {}
    BY DEF IsInjective, ToSet
  <1>10. Cardinality(IndexEntries({})) = 0
    BY FS_EmptySet DEF IndexEntries
  <1>11. Walked
    BY <1>1, <1>2, <1>7, <1>8, <1>9, <1>10 DEF Init, Walked
  <1>12. PagesTaken
    BY <1>1, <1>9 DEF Init, PagesTaken, OneEach, LinksOf
  <1> QED BY <1>6, <1>11, <1>12 DEF Inv

LEMMA PagesStay ==
    ASSUME PagesTaken, UNCHANGED <<site, seenPages, seeds, skips>>,
           phase' # "failed" => phase # "failed" /\ seenSitemaps' = seenSitemaps
    PROVE  PagesTaken'
  <1>1. /\ \A u : PagesOf(u)' = PagesOf(u)
        /\ \A u : Allowed(u)' <=> Allowed(u)
        /\ Scope' = Scope
    BY SiteStays
  <1>2. phase' # "failed" => seenPages' = UNION {PagesOf(u)' : u \in seenSitemaps'}
    BY <1>1 DEF PagesTaken
  <1>3. OneEach(seeds)' /\ OneEach(skips)'
    BY DEF PagesTaken, OneEach
  <1>4. LinksOf(seeds)' = LinksOf(seeds) /\ LinksOf(skips)' = LinksOf(skips)
    BY DEF LinksOf
  <1>5. /\ {p \in seenPages' : ~Allowed(p)'} = {p \in seenPages : ~Allowed(p)}
        /\ {p \in seenPages' : Allowed(p)'} = {p \in seenPages : Allowed(p)}
    BY <1>1
  <1>6. /\ \A i \in DOMAIN seeds' : seeds'[i].link \in PagesOf(seeds[i].source)'
        /\ \A i \in DOMAIN skips' : skips'[i].reason = Check(Scope', FetchURL(skips'[i].link))
    <2>1. \A i \in DOMAIN seeds' : PagesOf(seeds[i].source)' = PagesOf(seeds[i].source)
      BY DEF PagesOf, Fetch
    <2> QED BY <1>1, <2>1 DEF PagesTaken
  <1> QED BY <1>2, <1>3, <1>4, <1>5, <1>6 DEF PagesTaken

LEMMA SkipSitemapStep ==
    ASSUME Inv, SkipSitemap
    PROVE  Inv'
  <1>1. /\ phase = "sitemaps" /\ queue # <<>> /\ Current \in seenSitemaps /\ queue' = Tail(queue)
        /\ UNCHANGED <<site, phase, seenSitemaps, seenPages, childSitemaps, seeds, skips,
                   fetched, localSeeds>>
    BY DEF SkipSitemap, Seen
  <1>2. TypeOK /\ Walked /\ PagesTaken
    BY DEF Inv
  <1>3. /\ queue' \in Seq(Absolute)
        /\ Pending = {Current} \cup Pending'
    BY <1>1, <1>2, CurrentFacts DEF Walked, Pending
  <1>4. TypeOK'
    <2>1. queue' \in Seq(Location)
      <3>1. Absolute \subseteq Location
        BY DEF Absolute
      <3> QED BY <1>3, <3>1
    <2> QED BY <1>1, <1>2, <2>1 DEF TypeOK
  <1>5. Walked'
    <2>1. seenSitemaps \cup Pending = seenSitemaps' \cup Pending'
      BY <1>1, <1>3
    <2>2. /\ Reachable' = Reachable /\ Roots' = Roots
          /\ \A u : Children(u)' = Children(u) /\ (Faulty(u)' <=> Faulty(u))
      BY <1>1, SiteStays
    <2>3. IndexEntries(seenSitemaps)' = IndexEntries(seenSitemaps)
      BY <1>1 DEF IndexEntries, EntriesOf, Children, Fetch, WithinScope, SameSite
    <2> QED BY <1>1, <1>2, <1>3, <2>1, <2>2, <2>3 DEF Walked
  <1>6. PagesTaken'
    BY <1>1, <1>2, PagesStay
  <1> QED BY <1>4, <1>5, <1>6 DEF Inv

LEMMA SitemapsDoneStep ==
    ASSUME Inv, SitemapsDone
    PROVE  Inv'
  <1>1. /\ phase = "sitemaps" /\ queue = <<>> /\ phase' = "localRoot"
        /\ UNCHANGED <<site, queue, seenSitemaps, seenPages, childSitemaps, seeds, skips,
                       fetched, localSeeds>>
    BY DEF SitemapsDone
  <1>2. TypeOK /\ Walked /\ PagesTaken
    BY DEF Inv
  <1>3. TypeOK'
    BY <1>1, <1>2 DEF TypeOK
  <1>4. Walked'
    <2>1. Pending' = Pending
      BY <1>1 DEF Pending
    <2>2. /\ Reachable' = Reachable /\ Roots' = Roots
          /\ \A u : Children(u)' = Children(u) /\ (Faulty(u)' <=> Faulty(u))
      BY <1>1, SiteStays
    <2>3. IndexEntries(seenSitemaps)' = IndexEntries(seenSitemaps)
      BY <1>1 DEF IndexEntries, EntriesOf, Children, Fetch, WithinScope, SameSite
    <2> QED BY <1>1, <1>2, <2>1, <2>2, <2>3 DEF Walked
  <1>5. PagesTaken'
    BY <1>1, <1>2, PagesStay
  <1> QED BY <1>3, <1>4, <1>5 DEF Inv

LEMMA WalkLocalRootStep ==
    ASSUME Inv, WalkLocalRoot
    PROVE  Inv'
  <1>1. /\ phase = "localRoot" /\ phase' \in {"done", "failed"}
        /\ phase' = "failed" => site.unreadable
        /\ UNCHANGED <<site, queue, seenSitemaps, seenPages, childSitemaps, seeds, skips, fetched>>
    BY DEF WalkLocalRoot, Fail
  <1>2. TypeOK /\ Walked /\ PagesTaken
    BY DEF Inv
  <1>3. TypeOK'
    BY <1>1, <1>2 DEF TypeOK
  <1>4. Walked'
    <2>1. Pending' = Pending
      BY <1>1 DEF Pending
    <2>2. /\ Reachable' = Reachable /\ Roots' = Roots
          /\ \A u : Children(u)' = Children(u) /\ (Faulty(u)' <=> Faulty(u))
      BY <1>1, SiteStays
    <2>3. IndexEntries(seenSitemaps)' = IndexEntries(seenSitemaps)
      BY <1>1 DEF IndexEntries, EntriesOf, Children, Fetch, WithinScope, SameSite
    <2> QED BY <1>1, <1>2, <2>1, <2>2, <2>3 DEF Walked
  <1>5. PagesTaken'
    BY <1>1, <1>2, PagesStay
  <1> QED BY <1>3, <1>4, <1>5 DEF Inv

(* A sitemap that fails the seeding is a reachable fault. *)
LEMMA FailureIsFault ==
    ASSUME Walked, TypeOK, phase = "sitemaps", NEW u \in Reachable \ seenSitemaps,
           Faulty(u) \/ OverLimit(childSitemaps + Len(InScope(Links(Fetch(u).children, u))))
    PROVE  ~Sound
  <1>1. CASE Faulty(u)
    BY <1>1 DEF Sound
  <1>2. CASE ~Faulty(u)
    <2> DEFINE queued == InScope(Links(Fetch(u).children, u))
               more == seenSitemaps \cup {u}
    <2>1. site \in Sites /\ seenSitemaps \subseteq Reachable /\ u \in URL
      BY ReachableIsClosed DEF TypeOK, Walked
    <2>2. Len(queued) = Cardinality(EntriesOf(u))
      BY <1>2, <2>1, InScopeFacts
    <2>3. childSitemaps = Cardinality(IndexEntries(seenSitemaps))
      BY DEF Walked
    <2>4. /\ Cardinality(IndexEntries(more)) = childSitemaps + Len(queued)
          /\ Cardinality(EntriesOf(u)) \in Nat
      BY <2>1, <2>2, <2>3, EntriesAdd
    <2>5. childSitemaps + Len(queued) > MaxChildren
      BY <1>2 DEF OverLimit
    <2> HIDE DEF queued
    <2>6. /\ Cardinality(IndexEntries(more)) <= Cardinality(IndexEntries(Reachable))
          /\ Cardinality(IndexEntries(more)) \in Nat /\ Cardinality(IndexEntries(Reachable)) \in Nat
      BY <2>1, EntriesFinite
    <2> HIDE DEF more
    <2>7. ~(Cardinality(IndexEntries(Reachable)) <= MaxChildren)
      BY <2>4, <2>5, <2>6, LimitAssumption
    <2> QED BY <2>7 DEF Sound
  <1> QED BY <1>1, <1>2

LEMMA FetchSitemapIs ==
    ASSUME FetchSitemap
    PROVE  LET u == Current
               children == Links(Fetch(u).children, u)
               pages == Links(Fetch(u).pages, u)
               failed == Faulty(u) \/ OverLimit(childSitemaps + Len(InScope(children)))
           IN  /\ phase = "sitemaps" /\ queue # <<>> /\ u \notin seenSitemaps /\ site' = site
               /\ seenSitemaps' = seenSitemaps \cup {u} /\ fetched' = Append(fetched, u)
               /\ failed => Fail
               /\ ~failed => /\ queue' = Tail(queue) \o InScope(children)
                             /\ childSitemaps' = childSitemaps + Len(InScope(children))
                             /\ TakePages(pages, u)
                             /\ UNCHANGED <<phase, localSeeds>>
  <1>1. PICK u \in {Current} : \E document \in {Fetch(u)} :
          \E children \in {Links(document.children, u)}, pages \in {Links(document.pages, u)} :
           /\ seenSitemaps' = seenSitemaps \cup {u}
           /\ fetched' = Append(fetched, u)
           /\ IF \/ document.broken
                 \/ Malformed \in ToSet(children) \cup ToSet(pages)
                 \/ OverLimit(childSitemaps + Len(InScope(children)))
              THEN Fail
              ELSE /\ queue' = Tail(queue) \o InScope(children)
                   /\ childSitemaps' = childSitemaps + Len(InScope(children))
                   /\ TakePages(pages, u)
                   /\ UNCHANGED <<phase, localSeeds>>
    BY DEF FetchSitemap
  <1>2. /\ phase = "sitemaps" /\ queue # <<>> /\ Current \notin seenSitemaps /\ site' = site
    BY DEF FetchSitemap, Seen
  <1>3. u = Current
    BY <1>1
  <1> QED BY <1>1, <1>2, <1>3 DEF Faulty

LEMMA PagesType ==
    ASSUME site \in Sites, NEW u \in URL, ~Faulty(u)
    PROVE  Links(Fetch(u).pages, u) \in Seq(URL)
  <1> DEFINE pages == Links(Fetch(u).pages, u)
  <1>1. pages \in Seq(URL \cup {Malformed}) /\ Malformed \notin ToSet(pages)
    BY FetchType, LinksType DEF Faulty
  <1> HIDE DEF pages
  <1>2. pages \in Seq(URL)
    <2>1. DOMAIN pages = 1..Len(pages) /\ Len(pages) \in Nat
      BY <1>1
    <2>2. \A i \in DOMAIN pages : pages[i] \in URL
      BY <1>1 DEF ToSet
    <2>3. pages = [i \in DOMAIN pages |-> pages[i]]
      BY <1>1
    <2> QED BY <2>1, <2>2, <2>3
  <1> QED BY <1>2 DEF pages

LEMMA FetchSitemapStep ==
    ASSUME Inv, FetchSitemap
    PROVE  Inv'
  <1> DEFINE u == Current
             children == Links(Fetch(u).children, u)
             pages == Links(Fetch(u).pages, u)
             queued == InScope(children)
             failed == Faulty(u) \/ OverLimit(childSitemaps + Len(queued))
  <1>1. /\ phase = "sitemaps" /\ queue # <<>> /\ u \notin seenSitemaps /\ site' = site
        /\ seenSitemaps' = seenSitemaps \cup {u} /\ fetched' = Append(fetched, u)
        /\ failed => Fail
        /\ ~failed => /\ queue' = Tail(queue) \o queued
                      /\ childSitemaps' = childSitemaps + Len(queued)
                      /\ TakePages(pages, u)
                      /\ UNCHANGED <<phase, localSeeds>>
    BY FetchSitemapIs
  <1>2. TypeOK /\ Walked /\ PagesTaken /\ site \in Sites
    BY DEF Inv, TypeOK
  <1>3. /\ u \in URL /\ Tail(queue) \in Seq(Absolute)
        /\ Pending = {u} \cup {NormalizeLink(h, h) : h \in ToSet(Tail(queue))}
    BY <1>1, <1>2, CurrentFacts DEF Walked
  <1>4. u \in Reachable \ seenSitemaps
    BY <1>1, <1>2, <1>3 DEF Walked
  <1>5. failed => ~Sound
    BY <1>1, <1>2, <1>4, FailureIsFault
  <1>6. /\ Reachable' = Reachable /\ Roots' = Roots
        /\ \A v : Children(v)' = Children(v) /\ (Faulty(v)' <=> Faulty(v))
        /\ Scope' = Scope
        /\ \A v : PagesOf(v)' = PagesOf(v)
        /\ \A v : Allowed(v)' <=> Allowed(v)
        /\ (Sound' <=> Sound)
    BY <1>1, SiteStays, SoundStays
  <1>7. ~failed => /\ pages \in Seq(URL) /\ queued \in Seq(URL) /\ ToSet(queued) = Children(u)
                   /\ Len(queued) = Cardinality(EntriesOf(u))
    BY <1>2, <1>3, InScopeFacts, PagesType
  <1>8. IndexEntries(seenSitemaps)' = IndexEntries(seenSitemaps')
    BY <1>1 DEF IndexEntries, EntriesOf, Children, Fetch, WithinScope, SameSite
  <1>9. PagesOf(u) = ToSet(pages)
    BY DEF PagesOf
  <1> HIDE DEF u, children, pages, queued
  <1>10. /\ fetched' \in Seq(URL) /\ IsInjective(fetched') /\ ToSet(fetched') = seenSitemaps'
         /\ seenSitemaps' \subseteq URL /\ seenSitemaps' \subseteq Reachable'
    <2>1. fetched \in Seq(URL) /\ seenSitemaps \subseteq URL
      BY <1>2 DEF TypeOK
    <2>2. Append(fetched, u) = fetched \o <<u>>
      BY <2>1, <1>3
    <2>3. IsInjective(fetched) /\ ToSet(fetched) = seenSitemaps /\ seenSitemaps \subseteq Reachable
      BY <1>2 DEF Walked
    <2> QED BY <1>1, <1>3, <1>4, <1>6, <2>1, <2>2, <2>3, AppendOne
  <1>11. CASE failed
    <2>1. phase' = "failed" /\ UNCHANGED <<queue, seenPages, childSitemaps, seeds, skips, localSeeds>>
      BY <1>1, <1>11 DEF Fail
    <2>2. TypeOK'
      BY <1>1, <1>2, <1>10, <2>1 DEF TypeOK
    <2>3. Pending' = Pending
      BY <2>1 DEF Pending
    <2>4. Walked'
      BY <1>2, <1>5, <1>6, <1>10, <1>11, <2>1, <2>3 DEF Walked
    <2>5. PagesTaken'
      BY <1>1, <1>2, <2>1, PagesStay
    <2> QED BY <2>2, <2>4, <2>5 DEF Inv
  <1>12. CASE ~failed
    <2>1. /\ queue' = Tail(queue) \o queued /\ childSitemaps' = childSitemaps + Len(queued)
          /\ TakePages(pages, u) /\ phase' = phase
          /\ pages \in Seq(URL) /\ queued \in Seq(URL) /\ ToSet(queued) = Children(u)
          /\ Len(queued) = Cardinality(EntriesOf(u)) /\ ~Faulty(u)
      BY <1>1, <1>7, <1>12
    <2>2. /\ seeds' \in Seq(Seed) /\ Len(seeds') <= MaxURLs /\ OneEach(seeds')
          /\ LinksOf(seeds') \subseteq {p \in seenPages' : Allowed(p)}
          /\ LinksOf(seeds') = {p \in seenPages' : Allowed(p)} \/ Len(seeds') = MaxURLs
          /\ \A i \in DOMAIN seeds' :
                 \/ i \in DOMAIN seeds /\ seeds'[i] = seeds[i]
                 \/ seeds'[i].link \in ToSet(pages) /\ seeds'[i].source = u
      BY <1>2, <1>3, <2>1, SeedsTaken
    <2>3. /\ skips' \in Seq(Skip) /\ OneEach(skips')
          /\ LinksOf(skips') = {p \in seenPages' : ~Allowed(p)}
          /\ \A i \in DOMAIN skips' : skips'[i].reason = Check(Scope, FetchURL(skips'[i].link))
      BY <1>2, <1>3, <2>1, SkipsTaken
    <2>4. seenPages' = seenPages \cup ToSet(pages) /\ ToSet(pages) \subseteq URL
      BY <2>1 DEF TakePages, ToSet
    <2>5. queued \in Seq(Absolute) /\ queue' \in Seq(Absolute) /\ queue' \in Seq(Location)
      <3>1. URL \subseteq Absolute /\ Absolute \subseteq Location
        BY URLIsNormal DEF Absolute
      <3>2. queued \in Seq(Absolute)
        BY <2>1, <3>1
      <3>3. queue' \in Seq(Absolute)
        BY <1>3, <2>1, <3>2, ConcatType
      <3>4. queue' \in Seq(Location)
        BY <3>1, <3>3
      <3> QED BY <3>2, <3>3, <3>4
    <2>6. Pending' \cup {u} = Pending \cup Children(u)
      <3>1. ToSet(queue') = ToSet(Tail(queue)) \cup Children(u)
        <4>1. ToSet(Tail(queue) \o queued) = ToSet(Tail(queue)) \cup ToSet(queued)
          BY <1>3, <2>5, ConcatSet
        <4> QED BY <2>1, <4>1
      <3>2. \A c \in Children(u) : NormalizeLink(c, c) = c
        <4>1. Children(u) \subseteq URL
          BY <1>2, <1>3, ChildrenType
        <4> QED BY <4>1, URLIsNormal
      <3>3. {NormalizeLink(h, h) : h \in Children(u)} = Children(u)
        BY <3>2
      <3>4. Pending' = {NormalizeLink(h, h) : h \in ToSet(Tail(queue))} \cup {NormalizeLink(h, h) : h \in Children(u)}
        BY <3>1 DEF Pending
      <3> QED BY <1>3, <3>3, <3>4
    <2>7. childSitemaps' \in 0..MaxChildren
      <3>1. childSitemaps \in Nat /\ Len(queued) \in Nat
        BY <1>2, <2>1 DEF TypeOK
      <3>2. ~(childSitemaps + Len(queued) > MaxChildren)
        BY <1>12 DEF OverLimit
      <3> QED BY <2>1, <3>1, <3>2, LimitAssumption
    <2>8. TypeOK'
      <3>1. seenPages' \subseteq URL
        BY <1>2, <2>4 DEF TypeOK
      <3> QED BY <1>1, <1>2, <1>10, <2>1, <2>2, <2>3, <2>5, <2>7, <3>1 DEF TypeOK, Seed, Skip
    <2>9. childSitemaps' = Cardinality(IndexEntries(seenSitemaps'))
      <3>1. seenSitemaps \subseteq Reachable /\ childSitemaps = Cardinality(IndexEntries(seenSitemaps))
        BY <1>1, <1>2 DEF Walked
      <3> QED BY <1>1, <1>2, <1>4, <2>1, <3>1, EntriesAdd
    <2>10. /\ seenSitemaps' \cup Pending' = seenSitemaps \cup Pending \cup Children(u)
      BY <1>1, <1>3, <2>6
    <2>11. Children(u) \subseteq Reachable
      BY <1>2, <1>4, ReachableIsClosed
    <2>12. Walked'
      <3>1. seenSitemaps' \cup Pending' \subseteq Reachable'
        BY <1>2, <1>6, <2>10, <2>11 DEF Walked
      <3>2. /\ Roots' \subseteq seenSitemaps' \cup Pending'
            /\ \A v \in seenSitemaps' : ~Faulty(v)' /\ Children(v)' \subseteq seenSitemaps' \cup Pending'
        BY <1>1, <1>2, <1>6, <2>1, <2>10 DEF Walked
      <3>3. phase' = "sitemaps"
        BY <1>1, <2>1
      <3>4. childSitemaps' = Cardinality(IndexEntries(seenSitemaps))'
        BY <1>8, <2>9
      <3> QED BY <1>10, <2>5, <3>1, <3>2, <3>3, <3>4 DEF Walked
    <2>13. PagesTaken'
      <3>1. seenPages' = UNION {PagesOf(v)' : v \in seenSitemaps'}
        <4>1. seenPages = UNION {PagesOf(v) : v \in seenSitemaps}
          BY <1>1, <1>2 DEF PagesTaken
        <4>2. {PagesOf(v)' : v \in seenSitemaps'} = {PagesOf(v) : v \in seenSitemaps} \cup {PagesOf(u)}
          BY <1>1, <1>6
        <4> QED BY <1>9, <2>4, <4>1, <4>2
      <3>2. OneEach(seeds)' /\ OneEach(skips)'
        BY <2>2, <2>3 DEF OneEach
      <3>3. LinksOf(seeds)' = LinksOf(seeds') /\ LinksOf(skips)' = LinksOf(skips')
        BY DEF LinksOf
      <3>4. /\ {p \in seenPages' : ~Allowed(p)'} = {p \in seenPages' : ~Allowed(p)}
            /\ {p \in seenPages' : Allowed(p)'} = {p \in seenPages' : Allowed(p)}
        BY <1>6
      <3>5. \A i \in DOMAIN seeds' : seeds'[i].link \in PagesOf(seeds[i].source)'
        <4> TAKE i \in DOMAIN seeds'
        <4>1. PagesOf(seeds[i].source)' = PagesOf(seeds'[i].source)
          BY <1>1 DEF PagesOf, Fetch
        <4>2. seeds'[i].link \in PagesOf(seeds'[i].source)
          BY <1>2, <1>9, <2>2 DEF PagesTaken
        <4> QED BY <4>1, <4>2
      <3>6. \A i \in DOMAIN skips' : skips'[i].reason = Check(Scope', FetchURL(skips'[i].link))
        BY <1>6, <2>3
      <3> QED BY <2>2, <2>3, <3>1, <3>2, <3>3, <3>4, <3>5, <3>6 DEF PagesTaken
    <2> QED BY <2>8, <2>12, <2>13 DEF Inv
  <1> QED BY <1>11, <1>12

(* The walk of sitemapSeeds: what was fetched, what is queued and counted, *)
(* and which pages of it became seeds and skips.                           *)
THEOREM Invariant == Spec => []Inv
  <1>1. Init => Inv
    BY WalkInit
  <1>2. Inv /\ [Next]_vars => Inv'
    <2> SUFFICES ASSUME Inv, [Next]_vars PROVE Inv'
      OBVIOUS
    <2>1. CASE SkipSitemap
      BY <2>1, SkipSitemapStep
    <2>2. CASE FetchSitemap
      BY <2>2, FetchSitemapStep
    <2>3. CASE SitemapsDone
      BY <2>3, SitemapsDoneStep
    <2>4. CASE WalkLocalRoot
      BY <2>4, WalkLocalRootStep
    <2>5. CASE UNCHANGED vars
      <3>1. UNCHANGED <<site, phase, queue, seenSitemaps, seenPages, childSitemaps, seeds, skips, fetched>>
        BY <2>5 DEF vars
      <3>2. TypeOK'
        BY <3>1 DEF Inv, TypeOK
      <3>3. PagesTaken'
        BY <3>1, PagesStay DEF Inv
      <3>4. Walked'
        <4>1. Pending' = Pending
          BY <3>1 DEF Pending
        <4>2. /\ Reachable' = Reachable /\ Roots' = Roots
              /\ \A u : Children(u)' = Children(u) /\ (Faulty(u)' <=> Faulty(u))
              /\ (Sound' <=> Sound)
          BY <3>1, SiteStays, SoundStays
        <4>3. IndexEntries(seenSitemaps)' = IndexEntries(seenSitemaps)
          BY <3>1 DEF IndexEntries, EntriesOf, Children, Fetch, WithinScope, SameSite
        <4> QED BY <3>1, <4>1, <4>2, <4>3 DEF Inv, Walked
      <3> QED BY <3>2, <3>3, <3>4 DEF Inv
    <2>6. CASE Finished
      BY <2>5, <2>6 DEF Finished
    <2> QED BY <2>1, <2>2, <2>3, <2>4, <2>5, <2>6 DEF Next
  <1> QED BY <1>1, <1>2, PTL DEF Spec

(* When the walk ends, it was everywhere. *)
LEMMA AllWalked ==
    ASSUME Inv, phase \in {"localRoot", "done"}
    PROVE  seenSitemaps = Reachable
  <1>1. Walked /\ site \in Sites /\ phase # "failed" /\ queue = <<>>
    BY DEF Inv, TypeOK, Walked
  <1>2. Pending = {}
    BY <1>1 DEF Pending, ToSet
  <1>3. Roots \subseteq seenSitemaps /\ \A u \in seenSitemaps : Children(u) \subseteq seenSitemaps
    BY <1>1, <1>2 DEF Walked
  <1>4. Reachable \subseteq seenSitemaps
    BY <1>1, <1>3, ReachableIsClosed
  <1> QED BY <1>1, <1>4 DEF Walked

(* Every variable of the seeding has its type, and the seeds never exceed  *)
(* the cap: sitemapSeeds.                                                  *)
THEOREM TypesHold == Spec => []TypeOK
  <1>1. Inv => TypeOK
    BY DEF Inv
  <1> QED BY <1>1, Invariant, PTL

(* No location of a sitemap, its fragment included, is fetched twice under *)
(* any spelling, and the ones fetched are in the end exactly the reachable *)
(* ones, roots in scope or not: the loop of sitemapSeeds.                  *)
THEOREM EachSitemapOnce == Spec => []SitemapsFetchedOnce
  <1>1. ASSUME Inv PROVE SitemapsFetchedOnce
    <2>1. TypeOK /\ Walked /\ fetched \in Seq(URL)
      BY <1>1 DEF Inv, TypeOK
    <2>2. IsInjective(fetched) /\ ToSet(fetched) = seenSitemaps /\ seenSitemaps \subseteq Reachable
      BY <2>1 DEF Walked
    <2>3. IsInjective([i \in DOMAIN fetched |-> Resource(fetched[i])])
      <3>1. \A i \in DOMAIN fetched : fetched[i] \in URL
        BY <2>1
      <3>2. \A i, j \in DOMAIN fetched : Resource(fetched[i]) = Resource(fetched[j]) => i = j
        BY <2>2, <3>1, ResourceNames DEF IsInjective
      <3> QED BY <3>2 DEF IsInjective
    <2> QED BY <1>1, <2>2, <2>3, AllWalked DEF SitemapsFetchedOnce
  <1> QED BY <1>1, Invariant, PTL

(* Seeding fails for what the sitemaps hold, not for the order in which    *)
(* they are walked: the errors of sitemapSeeds.                            *)
THEOREM OutcomeIsDetermined == Spec => []OutcomeDetermined
  <1>1. ASSUME Inv PROVE OutcomeDetermined
    <2>1. TypeOK /\ Walked
      BY <1>1 DEF Inv
    <2>2. phase = "failed" => ~Sound \/ site.unreadable
      BY <2>1 DEF Walked
    <2>3. ASSUME phase \in {"localRoot", "done"} PROVE Sound
      <3>1. seenSitemaps = Reachable /\ phase # "failed"
        BY <1>1, <2>3, AllWalked
      <3>2. /\ \A u \in Reachable : ~Faulty(u)
            /\ childSitemaps = Cardinality(IndexEntries(Reachable))
        BY <2>1, <3>1 DEF Walked
      <3>3. childSitemaps <= MaxChildren
        BY <2>1, LimitAssumption DEF TypeOK
      <3> QED BY <3>2, <3>3 DEF Sound
    <2> QED BY <2>2, <2>3 DEF OutcomeDetermined, Sound
  <1> QED BY <1>1, Invariant, PTL

(* The pages of a sitemap are what it lists, under their normalized names. *)
LEMMA ListedAre ==
    ASSUME site \in Sites, NEW u \in URL
    PROVE  /\ \A p \in PagesOf(u) : p # Malformed => p \in URL /\ Resource(p) \in ListedBy(u)
           /\ ~Faulty(u) => ListedBy(u) = {Resource(p) : p \in PagesOf(u)}
  <1> DEFINE s == Fetch(u).pages
             pages == Links(s, u)
  <1>1. s \in Seq(Location \cup {Malformed})
    BY FetchType
  <1> HIDE DEF s
  <1>2. /\ DOMAIN pages = 1..Len(s) /\ DOMAIN s = 1..Len(s)
        /\ \A i \in 1..Len(s) : s[i] \in Location \cup {Malformed}
        /\ \A i \in 1..Len(s) : pages[i] = NormalizeLink(s[i], u)
    BY <1>1, LinksType
  <1> HIDE DEF pages
  <1>3. PagesOf(u) = {pages[i] : i \in 1..Len(s)}
    BY <1>2 DEF PagesOf, pages, s, ToSet
  <1>4. ListedBy(u) = {Resource(Resolved(h, u)) : h \in ToSet(s) \ {Malformed}}
    BY DEF ListedBy, s
  <1>5. ASSUME NEW i \in 1..Len(s), pages[i] # Malformed
        PROVE  /\ pages[i] \in URL /\ s[i] # Malformed
               /\ Resource(pages[i]) = Resource(Resolved(s[i], u))
    <2>1. /\ pages[i] \in URL /\ s[i] \in Location /\ Resolved(s[i], u) \in Absolute
          /\ pages[i] = NormalizeURL(Resolved(s[i], u))
      BY <1>2, <1>5, LinkType
    <2>2. s[i] # Malformed
      BY <2>1, MalformedAssumption
    <2> QED BY <2>1, <2>2, ResourceKept
  <1>6. \A i \in 1..Len(s) : s[i] \in ToSet(s)
    BY <1>2 DEF ToSet
  <1>7. ASSUME NEW p \in PagesOf(u), p # Malformed PROVE p \in URL /\ Resource(p) \in ListedBy(u)
    <2>1. PICK i \in 1..Len(s) : p = pages[i]
      BY <1>3
    <2> QED BY <1>4, <1>5, <1>6, <1>7, <2>1
  <1>8. ASSUME ~Faulty(u) PROVE ListedBy(u) = {Resource(p) : p \in PagesOf(u)}
    <2>1. Malformed \notin PagesOf(u)
      BY <1>8 DEF Faulty, PagesOf
    <2>2. {Resource(p) : p \in PagesOf(u)} \subseteq ListedBy(u)
      BY <1>7, <2>1
    <2>3. ASSUME NEW h \in ToSet(s) \ {Malformed}
          PROVE  Resource(Resolved(h, u)) \in {Resource(p) : p \in PagesOf(u)}
      <3>1. PICK i \in 1..Len(s) : h = s[i]
        BY <1>2 DEF ToSet
      <3>2. pages[i] \in PagesOf(u) /\ pages[i] # Malformed
        BY <1>3, <2>1
      <3> QED BY <1>5, <3>1, <3>2
    <2> QED BY <1>4, <2>2, <2>3
  <1> QED BY <1>7, <1>8

LEMMA RecordsDistinct ==
    ASSUME NEW R, NEW records \in Seq(R), \A x \in R : x.link \in URL, OneEach(records)
    PROVE  Distinct(records) /\ Resources(records) = {Resource(p) : p \in LinksOf(records)}
           /\ LinksOf(records) \subseteq URL
  <1>1. \A i \in DOMAIN records : records[i].link \in URL
    OBVIOUS
  <1>2. Distinct(records)
    BY <1>1, ResourceNames DEF Distinct, OneEach
  <1> QED BY <1>1, <1>2 DEF Resources, LinksOf

(* Seeds and skips account for every listed page, once each: sitemapSeeds  *)
(* and the deduplication of its pages.                                     *)
THEOREM EveryPageAccountedFor == Spec => []PagesAccountedFor
  <1>1. ASSUME Inv PROVE PagesAccountedFor
    <2>1. TypeOK /\ Walked /\ PagesTaken /\ site \in Sites
      BY <1>1 DEF Inv, TypeOK
    <2>2. seeds \in Seq(Seed) /\ skips \in Seq(Skip) /\ seenPages \subseteq URL /\ seenSitemaps \subseteq URL
      BY <2>1 DEF TypeOK, Seed, Skip
    <2>3. /\ Distinct(seeds) /\ Resources(seeds) = {Resource(p) : p \in LinksOf(seeds)}
      <3>1. \A x \in Seed : x.link \in URL
        BY DEF Seed
      <3> QED BY <2>1, <2>2, <3>1, RecordsDistinct DEF PagesTaken
    <2>4. /\ Distinct(skips) /\ Resources(skips) = {Resource(p) : p \in LinksOf(skips)}
      <3>1. \A x \in Skip : x.link \in URL
        BY DEF Skip
      <3> QED BY <2>1, <2>2, <3>1, RecordsDistinct DEF PagesTaken
    <2>5. \A i \in DOMAIN seeds : Resource(seeds[i].link) \in ListedBy(seeds[i].source)
      <3> TAKE i \in DOMAIN seeds
      <3>1. seeds[i].link \in URL /\ seeds[i].source \in URL
        <4>1. seeds[i] \in Seed
          BY <2>2
        <4> QED BY <4>1 DEF Seed
      <3>2. seeds[i].link # Malformed
        BY <3>1, MalformedAssumption DEF URL
      <3>3. seeds[i].link \in PagesOf(seeds[i].source)
        BY <2>1 DEF PagesTaken
      <3> QED BY <2>1, <3>1, <3>2, <3>3, ListedAre
    <2>6. \A i \in DOMAIN skips :
            skips[i].reason = "outside_path_prefix" <=> SameSite(Resource(skips[i].link))
      <3> TAKE i \in DOMAIN skips
      <3>1. skips[i].link \in URL
        <4>1. skips[i] \in Skip
          BY <2>2
        <4> QED BY <4>1 DEF Skip
      <3>2. ~Allowed(skips[i].link)
        BY <2>1 DEF PagesTaken, LinksOf
      <3>3. skips[i].reason = Check(Scope, FetchURL(skips[i].link))
        BY <2>1 DEF PagesTaken
      <3> QED BY <2>1, <3>1, <3>2, <3>3, ScopeIsDocumented
    <2>7. ASSUME phase = "done"
          PROVE  LET wanted == {p \in Listed : WithinScope(p)}
                 IN  /\ Resources(skips) = Listed \ wanted
                     /\ Resources(seeds) \subseteq wanted
                     /\ wanted = Resources(seeds) \/ Len(seeds) = MaxURLs
      <3>1. seenSitemaps = Reachable
        BY <1>1, <2>7, AllWalked
      <3>2. seenPages = UNION {PagesOf(u) : u \in Reachable} /\ \A u \in Reachable : ~Faulty(u)
        BY <2>1, <2>7, <3>1 DEF PagesTaken, Walked
      <3>3. Listed = {Resource(p) : p \in seenPages}
        <4>1. \A u \in Reachable : ListedBy(u) = {Resource(p) : p \in PagesOf(u)}
          BY <2>1, <2>2, <3>1, <3>2, ListedAre
        <4>2. Listed = UNION {ListedBy(u) : u \in Reachable}
          BY DEF Listed
        <4>3. ASSUME NEW r PROVE r \in Listed <=> \E p \in seenPages : r = Resource(p)
          <5>1. r \in Listed <=> \E u \in Reachable : r \in ListedBy(u)
            BY <4>2
          <5>2. \A u \in Reachable : r \in ListedBy(u) <=> \E p \in PagesOf(u) : r = Resource(p)
            BY <4>1
          <5>3. \A p : p \in seenPages <=> \E u \in Reachable : p \in PagesOf(u)
            BY <3>2
          <5> QED BY <5>1, <5>2, <5>3
        <4> QED BY <4>3
      <3>4. \A p \in seenPages : Allowed(p) <=> WithinScope(Resource(p))
        BY <2>1, <2>2, ScopeIsDocumented
      <3>5. /\ LinksOf(skips) = {p \in seenPages : ~Allowed(p)}
            /\ LinksOf(seeds) \subseteq {p \in seenPages : Allowed(p)}
            /\ LinksOf(seeds) = {p \in seenPages : Allowed(p)} \/ Len(seeds) = MaxURLs
        BY <2>1 DEF PagesTaken
      <3> DEFINE wanted == {p \in Listed : WithinScope(p)}
      <3>6. wanted = {Resource(p) : p \in {q \in seenPages : Allowed(q)}}
        BY <3>3, <3>4
      <3>7. Listed \ wanted = {Resource(p) : p \in {q \in seenPages : ~Allowed(q)}}
        BY <3>3, <3>4
      <3> HIDE DEF wanted
      <3>8. Resources(skips) = Listed \ wanted
        BY <2>4, <3>5, <3>7
      <3>9. Resources(seeds) \subseteq wanted
        BY <2>3, <3>5, <3>6
      <3>10. wanted = Resources(seeds) \/ Len(seeds) = MaxURLs
        BY <2>3, <3>5, <3>6
      <3> QED BY <3>8, <3>9, <3>10 DEF wanted
    <2> QED BY <2>3, <2>4, <2>5, <2>6, <2>7 DEF PagesAccountedFor
  <1> QED BY <1>1, Invariant, PTL

-----------------------------------------------------------------------------
(* The seeds of a local build *)

LEMMA SegmentsAppend ==
    ASSUME NEW N, NEW path \in Seq(N), NEW dropped, NEW x \in N
    PROVE  Segments(Append(path, x), dropped) = AddSegment(Segments(path, dropped), x, dropped)
  <1> DEFINE L == Len(path)
             full == Append(path, x)
  <1>1. PICK kept \in Walks(N, path, dropped) : Segments(path, dropped) = kept[L]
    BY SegmentsWalk
  <1>2. /\ full \in Seq(N) /\ Len(full) = L + 1 /\ full[L + 1] = x
        /\ \A i \in 1..L : full[i] = path[i]
    OBVIOUS
  <1>3. L \in Nat
    OBVIOUS
  <1> HIDE DEF full
  <1>4. PICK whole \in Walks(N, full, dropped) : Segments(full, dropped) = whole[Len(full)]
    BY <1>2, SegmentsWalk
  <1>5. /\ kept[0] = <<>>
        /\ \A n \in 1..L : kept[n] = AddSegment(kept[n - 1], path[n], dropped)
    BY <1>1 DEF Walks
  <1>6. /\ whole[0] = <<>>
        /\ \A n \in 1..(L + 1) : whole[n] = AddSegment(whole[n - 1], full[n], dropped)
    BY <1>2, <1>4 DEF Walks
  <1> HIDE DEF L
  <1> DEFINE T == {n \in 0..L : whole[n] = kept[n]}
  <1>7. 0 \in T
    BY <1>3, <1>5, <1>6
  <1>8. ASSUME NEW n \in 1..L, n - 1 \in T PROVE n \in T
    <2>1. n \in 1..(L + 1) /\ n \in 0..L
      BY <1>3
    <2> QED BY <1>2, <1>5, <1>6, <1>8, <2>1
  <1> HIDE DEF T
  <1>9. 0..L \subseteq T
    BY <1>3, <1>7, <1>8, LoopInduction
  <1>10. whole[L] = kept[L]
    <2>1. L \in T
      BY <1>3, <1>9
    <2> QED BY <2>1 DEF T
  <1>11. L + 1 \in 1..(L + 1) /\ (L + 1) - 1 = L
    BY <1>3
  <1>12. whole[L + 1] = AddSegment(whole[L], x, dropped)
    BY <1>2, <1>6, <1>11
  <1> QED BY <1>1, <1>2, <1>4, <1>10, <1>12 DEF full

(* The names of files are segments that path.Clean keeps. *)
Kept == Plain(STRING, {"", "."})

LEMMA KeptSegments ==
           /\ \A p \in Seq(STRING) : Segments(p, {"", "."}) \in Seq(Kept)
           /\ \A p \in Seq(STRING), q \in Seq(Kept) :
                 Segments(p \o q, {"", "."}) = Segments(p, {"", "."}) \o q
           /\ \A q \in Seq(Kept) : Segments(q, {"", "."}) = q
           /\ \A p \in Seq(STRING) : Segments(Append(p, ""), {"", "."}) = Segments(p, {"", "."})
           /\ \A q \in Seq(Kept) : q \in Seq(STRING)
           /\ "" \notin Kept
  <1> DEFINE D == {"", "."}
  <1>1. "" \in D
    OBVIOUS
  <1>2. "" \notin Kept /\ Kept \subseteq STRING
    BY DEF Kept, Plain
  <1>3. Kept = Plain(STRING, D)
    BY DEF Kept
  <1> HIDE DEF D
  <1>4. \A p \in Seq(STRING) : Segments(p, D) \in Seq(Kept)
    BY <1>3, SegmentsType
  <1>5. \A p \in Seq(STRING), q \in Seq(Kept) : Segments(p \o q, D) = Segments(p, D) \o q
    BY <1>3, PlainSegments
  <1>6. \A q \in Seq(Kept) : Segments(q, D) = q
    BY <1>3, PlainStays
  <1>7. \A p \in Seq(STRING) : Segments(Append(p, ""), D) = Segments(p, D)
    <2> TAKE p \in Seq(STRING)
    <2>1. Segments(Append(p, ""), D) = AddSegment(Segments(p, D), "", D)
      BY StringAssumption, SegmentsAppend
    <2> QED BY <1>1, <2>1 DEF AddSegment
  <1>8. \A q \in Seq(Kept) : q \in Seq(STRING)
    BY <1>2, FewerValues
  <1> QED BY <1>2, <1>4, <1>5, <1>6, <1>7, <1>8 DEF D

LEMMA KeptSequences ==
  /\ \A s, t \in Seq(Kept) : s \o t \in Seq(Kept)
  /\ \A s, t, u \in Seq(Kept) : s \o t = s \o u => t = u
  /\ \A s, t \in Seq(Kept) : s \o t = s => t = <<>>
  /\ \A s, t \in Seq(Kept) : t # <<>> => s \o t # <<>> /\ Last(s \o t) = Last(t)
  /\ \A t \in Seq(Kept) : t # <<>> => Last(t) \in Kept
  <1>1. \A s, t, u \in Seq(Kept) : s \o t = s \o u => t = u
    BY Cancel
  <1>2. \A s, t \in Seq(Kept) : s \o t = s => t = <<>>
    BY CancelAll
  <1>3. \A s, t \in Seq(Kept) : t # <<>> => s \o t # <<>> /\ Last(s \o t) = Last(t)
    BY ConcatLast
  <1>4. \A s, t \in Seq(Kept) : s \o t \in Seq(Kept)
    BY ConcatType
  <1>5. \A t \in Seq(Kept) : t # <<>> => Last(t) \in Kept
    BY FrontLast
  <1> QED BY <1>1, <1>2, <1>3, <1>4, <1>5

(* A trailing slash. *)
LEMMA Slash ==
  /\ \A s \in Seq(STRING) :
        Append(s, "") \in Seq(STRING) /\ Append(s, "") # <<>> /\ Last(Append(s, "")) = ""
  /\ \A s, t \in Seq(STRING) : Append(s, "") = Append(t, "") => s = t
  /\ \A s, t \in Seq(STRING) : s \o t \in Seq(STRING)
  /\ \A s, t \in Seq(STRING) : s \o Append(t, "") = Append(s \o t, "")
  <1> DEFINE e == ""
  <1>1. e \in STRING
    BY StringAssumption
  <1> HIDE DEF e
  <1>2. \A s \in Seq(STRING) : Append(s, e) \in Seq(STRING)
    BY <1>1, AppendType
  <1>3. \A s \in Seq(STRING) : Append(s, e) # <<>>
    BY <1>1, AppendSome
  <1>4. \A s \in Seq(STRING) : Last(Append(s, e)) = e
    BY <1>1, AppendLast
  <1>5. \A s, t \in Seq(STRING) : Append(s, e) = Append(t, e) => s = t
    <2> SUFFICES ASSUME NEW s \in Seq(STRING), NEW t \in Seq(STRING), Append(s, e) = Append(t, e)
                 PROVE  s = t
      OBVIOUS
    <2> QED BY <1>1, AppendCancel
  <1>6. \A s, t \in Seq(STRING) : s \o t \in Seq(STRING)
    BY ConcatType
  <1>7. \A s, t \in Seq(STRING) : s \o Append(t, e) = Append(s \o t, e)
    BY <1>1, ConcatAppend
  <1> QED BY <1>2, <1>3, <1>4, <1>5, <1>6, <1>7 DEF e

LEMMA FileFacts ==
    ASSUME NEW f \in File
    PROVE  /\ f \in Seq(Kept) /\ f # <<>> /\ Front(f) \in Seq(Kept) /\ Last(f) \in Kept
           /\ Front(f) = <<>> <=> Len(f) = 1
           /\ Len(f) > 1 <=> Len(f) # 1
  <1>1. Kept = STRING \ {"", ".", ".."}
    BY DEF Kept, Plain
  <1>2. f \in Seq(Kept) /\ f # <<>>
    BY <1>1 DEF File
  <1>3. /\ Front(f) \in Seq(Kept) /\ Last(f) \in Kept /\ (Front(f) = <<>> <=> Len(f) = 1)
        /\ Len(f) \in Nat \ {0}
    BY <1>2, FrontLast
  <1> DEFINE L == Len(f)
  <1>4. L \in Nat /\ L # 0
    BY <1>3
  <1> HIDE DEF L
  <1>5. L > 1 <=> L # 1
    BY <1>4
  <1> QED BY <1>2, <1>3, <1>5 DEF L

(* The directory below which the seeds are. *)
LEMMA BaseType ==
    ASSUME NEW path \in Seq(STRING)
    PROVE  LET base == LocalRootBasePath(path) IN
           /\ base \in Seq(STRING) /\ base # <<>> /\ Last(base) = ""
           /\ Segments(base, {"", "."}) = Directory(path)
  <1> DEFINE D == {"", "."}
             front == Front(path)
             dir == PathDir(path)
  <1>1. <<"">> \in Seq(STRING) /\ <<"">> # <<>> /\ Last(<<"">>) = ""
    BY StringAssumption, Singleton
  <1>2. Segments(<<"">>, D) = Segments(<<>>, D) /\ Segments(<<>>, D) = <<>>
    <2>1. <<>> \in Seq(Kept) /\ <<>> \in Seq(STRING) /\ <<"">> = Append(<<>>, "")
      OBVIOUS
    <2>2. Segments(<<>>, D) = <<>>
      BY <2>1, KeptSegments
    <2>3. Segments(Append(<<>>, ""), D) = Segments(<<>>, D)
      BY <2>1, KeptSegments
    <2> QED BY <2>1, <2>2, <2>3, Zenon
  <1>3. CASE path = <<>>
    <2>1. LocalRootBasePath(path) = <<"">>
      BY <1>3, Zenon DEF LocalRootBasePath, EndsInSlash
    <2>2. Directory(path) = Segments(<<>>, D)
      BY <1>3 DEF Directory
    <2> QED BY <1>1, <1>2, <2>1, <2>2
  <1>4. ASSUME path # <<>>
        PROVE  front \in Seq(STRING) /\ path = Append(front, Last(path)) /\ Directory(path) = Segments(front, D)
    BY <1>4, FrontLast DEF Directory
  <1>5. CASE EndsInSlash(path)
    <2>1. path # <<>> /\ Last(path) = "" /\ LocalRootBasePath(path) = path
      BY <1>5, Zenon DEF LocalRootBasePath, EndsInSlash
    <2>2. Segments(path, D) = Segments(front, D)
      BY <1>4, <2>1, KeptSegments
    <2> QED BY <1>4, <2>1, <2>2
  <1>6. CASE path # <<>> /\ ~EndsInSlash(path)
    <2>1. LocalRootBasePath(path) = Append(dir, "")
      BY <1>6, Zenon DEF LocalRootBasePath
    <2>2. dir \in Seq(STRING) /\ Segments(dir, D) = Segments(front, D)
      <3> DEFINE kept == Segments(front, D)
      <3>1. kept \in Seq(Kept)
        BY <1>4, <1>6, KeptSegments
      <3>2. kept \in Seq(STRING) /\ Segments(kept, D) = kept
        BY <3>1, KeptSegments
      <3>3. dir = IF kept = <<>> THEN <<"">> ELSE kept
        BY DEF PathDir, CleanPath
      <3> HIDE DEF kept, dir
      <3>4. dir \in Seq(STRING) /\ Segments(dir, D) = kept
        BY <1>1, <1>2, <3>2, <3>3
      <3> QED BY <3>4 DEF kept
    <2> HIDE DEF dir
    <2>3. /\ Append(dir, "") \in Seq(STRING) /\ Append(dir, "") # <<>> /\ Last(Append(dir, "")) = ""
          /\ Segments(Append(dir, ""), D) = Segments(dir, D)
      BY <2>2, Slash, KeptSegments
    <2> QED BY <1>4, <1>6, <2>1, <2>2, <2>3
  <1>7. path = <<>> \/ EndsInSlash(path) \/ (path # <<>> /\ ~EndsInSlash(path))
    OBVIOUS
  <1> QED BY <1>3, <1>5, <1>6, <1>7

(* What the route of a file is below its directory. *)
LEMMA JoinedRoute ==
    ASSUME NEW base \in Seq(STRING), NEW f \in File
    PROVE  LET kept == Segments(base, {"", "."})
               seed == JoinURLPath(base, LocalHTMLRoute(f))
           IN  /\ ~IsIndex(f) => seed = kept \o f
               /\ IsIndex(f) /\ Len(f) = 1 => seed = base
               /\ IsIndex(f) /\ Len(f) > 1 => seed = Append(kept \o Front(f), "")
  <1> DEFINE kept == Segments(base, {"", "."})
             route == LocalHTMLRoute(f)
             front == Front(f)
  <1>1. /\ f \in Seq(Kept) /\ f # <<>> /\ front \in Seq(Kept) /\ Last(f) \in Kept
        /\ (front = <<>> <=> Len(f) = 1) /\ (Len(f) > 1 <=> Len(f) # 1)
    BY FileFacts
  <1>2. kept \in Seq(Kept) /\ f \in Seq(STRING) /\ front \in Seq(STRING)
    BY <1>1, KeptSegments
  <1>3. ASSUME NEW q \in Seq(Kept), q # <<>>, NEW p, Segments(p, {"", "."}) = kept \o q
        PROVE  CleanPath(p) = kept \o q /\ ~EndsInSlash(kept \o q)
    <2>1. kept \o q # <<>> /\ Last(kept \o q) = Last(q) /\ Last(q) \in Kept
      BY <1>2, <1>3, KeptSequences
    <2>2. Last(q) # ""
      BY <2>1, KeptSegments
    <2> QED BY <1>3, <2>1, <2>2 DEF CleanPath, EndsInSlash
  <1> HIDE DEF kept, route, front
  <1>4. ASSUME ~IsIndex(f) PROVE JoinURLPath(base, route) = kept \o f
    <2>1. route = f
      BY <1>4, Zenon DEF LocalHTMLRoute, route
    <2>2. Segments(base \o f, {"", "."}) = kept \o f
      BY <1>1, KeptSegments DEF kept
    <2>3. CleanPath(base \o f) = kept \o f /\ ~EndsInSlash(kept \o f)
      BY <1>1, <1>3, <2>2
    <2>4. ~EndsInSlash(f)
      <3>1. Last(f) # ""
        BY <1>1, KeptSegments
      <3> QED BY <3>1 DEF EndsInSlash
    <2> QED BY <1>1, <2>1, <2>3, <2>4 DEF JoinURLPath
  <1>5. ASSUME IsIndex(f), Len(f) = 1 PROVE JoinURLPath(base, route) = base
    <2>1. route = <<>>
      <3>1. ~(Len(f) > 1)
        BY <1>1, <1>5
      <3> QED BY <1>5, <3>1, Zenon DEF LocalHTMLRoute, route
    <2> QED BY <2>1 DEF JoinURLPath
  <1>6. ASSUME IsIndex(f), Len(f) > 1 PROVE JoinURLPath(base, route) = Append(kept \o front, "")
    <2>1. route = Append(front, "")
      <3>1. Len(f) # 1
        BY <1>1, <1>6
      <3> QED BY <1>6, <3>1, Zenon DEF LocalHTMLRoute, route, front
    <2>2. route \in Seq(STRING) /\ route # <<>> /\ Last(route) = "" /\ base \o route = Append(base \o front, "")
      BY <1>2, <2>1, Slash
    <2>3. base \o front \in Seq(STRING)
      BY <1>2, Slash
    <2>4. Segments(base \o route, {"", "."}) = Segments(base \o front, {"", "."})
      BY <2>2, <2>3, KeptSegments
    <2>5. Segments(base \o front, {"", "."}) = kept \o front
      BY <1>1, KeptSegments DEF kept
    <2>6. front # <<>>
      BY <1>1, <1>6
    <2>7. CleanPath(base \o route) = kept \o front /\ ~EndsInSlash(kept \o front)
      BY <1>1, <1>3, <2>4, <2>5, <2>6
    <2>8. EndsInSlash(route)
      BY <2>2 DEF EndsInSlash
    <2> QED BY <2>2, <2>7, <2>8 DEF JoinURLPath
  <1>7. /\ ~IsIndex(f) => JoinURLPath(base, route) = kept \o f
        /\ IsIndex(f) /\ Len(f) = 1 => JoinURLPath(base, route) = base
        /\ IsIndex(f) /\ Len(f) > 1 => JoinURLPath(base, route) = Append(kept \o front, "")
    BY <1>4, <1>5, <1>6
  <1> QED BY <1>7 DEF kept, route, front

(* Two files have one seed only as the indexes of one directory.           *)
LEMMA SeedsDiffer ==
    ASSUME NEW base \in Seq(STRING), base # <<>>, Last(base) = "", NEW f \in File, NEW g \in File
    PROVE  JoinURLPath(base, LocalHTMLRoute(f)) = JoinURLPath(base, LocalHTMLRoute(g)) <=>
                f = g \/ (IsIndex(f) /\ IsIndex(g) /\ Front(f) = Front(g))
  <1> DEFINE kept == Segments(base, {"", "."})
             seed(h) == JoinURLPath(base, LocalHTMLRoute(h))
             front(h) == Front(h)
  <1>1. \A h \in {f, g} :
           /\ h \in Seq(Kept) /\ h # <<>> /\ front(h) \in Seq(Kept) /\ Last(h) \in Kept
           /\ front(h) = <<>> <=> Len(h) = 1
           /\ Len(h) > 1 <=> Len(h) # 1
    BY FileFacts
  <1>2. kept \in Seq(Kept) /\ "" \notin Kept
    BY KeptSegments
  <1>3. \A h \in {f, g} :
           /\ ~IsIndex(h) => seed(h) = kept \o h
           /\ IsIndex(h) /\ Len(h) = 1 => seed(h) = base
           /\ IsIndex(h) /\ Len(h) > 1 => seed(h) = Append(kept \o front(h), "")
    BY JoinedRoute
  <1>4. \A h \in {f, g} : /\ kept \o front(h) \in Seq(STRING) /\ kept \o front(h) \in Seq(Kept)
                          /\ kept \o h \in Seq(STRING)
    <2> TAKE h \in {f, g}
    <2>1. kept \o front(h) \in Seq(Kept) /\ kept \o h \in Seq(Kept)
      BY <1>1, <1>2, KeptSequences
    <2> QED BY <2>1, KeptSegments
  <1>5. \A h \in {f, g} : ~IsIndex(h) => Last(seed(h)) # ""
    <2> TAKE h \in {f, g}
    <2>1. Last(kept \o h) = Last(h)
      BY <1>1, <1>2, KeptSequences
    <2> QED BY <1>1, <1>2, <1>3, <2>1
  <1>6. \A h \in {f, g} : IsIndex(h) => Last(seed(h)) = ""
    <2> TAKE h \in {f, g}
    <2>1. Last(Append(kept \o front(h), "")) = ""
      BY <1>4, Slash
    <2> QED BY <1>1, <1>3, <2>1
  <1>7. \A h \in {f, g} : Len(h) > 1 => base # Append(kept \o front(h), "")
    <2> SUFFICES ASSUME NEW h \in {f, g}, Len(h) > 1, base = Append(kept \o front(h), "")
                 PROVE  FALSE
      OBVIOUS
    <2> DEFINE rest == kept \o front(h)
    <2>1. rest \in Seq(STRING) /\ rest \in Seq(Kept) /\ base = Append(rest, "")
      BY <1>4
    <2> HIDE DEF rest
    <2>2. kept = rest
      BY <2>1, KeptSegments
    <2>3. front(h) = <<>>
      BY <1>1, <1>2, <2>2, KeptSequences DEF rest
    <2> QED BY <1>1, <2>3
  <1> HIDE DEF kept, seed, front
  <1>8. CASE ~IsIndex(f) /\ ~IsIndex(g)
    <2>1. seed(f) = kept \o f /\ seed(g) = kept \o g
      BY <1>3, <1>8
    <2>2. kept \o f = kept \o g => f = g
      BY <1>1, <1>2, KeptSequences
    <2> QED BY <1>8, <2>1, <2>2 DEF seed
  <1>9. CASE (IsIndex(f) /\ ~IsIndex(g)) \/ (~IsIndex(f) /\ IsIndex(g))
    <2>1. seed(f) # seed(g)
      BY <1>5, <1>6, <1>9
    <2> QED BY <1>9, <2>1 DEF seed
  <1>10. CASE IsIndex(f) /\ IsIndex(g)
    <2>1. CASE Len(f) = 1 /\ Len(g) = 1
      <3>1. front(f) = front(g)
        BY <1>1, <2>1
      <3> QED BY <1>3, <1>10, <2>1, <3>1 DEF seed, front
    <2>2. CASE Len(f) > 1 /\ Len(g) = 1
      <3>1. seed(f) # seed(g) /\ front(f) # front(g)
        BY <1>1, <1>3, <1>7, <1>10, <2>2
      <3> QED BY <3>1 DEF seed, front
    <2>3. CASE Len(f) = 1 /\ Len(g) > 1
      <3>1. seed(f) # seed(g) /\ front(f) # front(g)
        BY <1>1, <1>3, <1>7, <1>10, <2>3
      <3> QED BY <3>1 DEF seed, front
    <2>4. CASE Len(f) > 1 /\ Len(g) > 1
      <3>1. seed(f) = Append(kept \o front(f), "") /\ seed(g) = Append(kept \o front(g), "")
        BY <1>3, <1>10, <2>4
      <3>2. Append(kept \o front(f), "") = Append(kept \o front(g), "")
               => kept \o front(f) = kept \o front(g)
        BY <1>4, Slash
      <3>3. kept \o front(f) = kept \o front(g) => front(f) = front(g)
        BY <1>1, <1>2, KeptSequences
      <3>4. seed(f) = seed(g) <=> front(f) = front(g)
        BY <3>1, <3>2, <3>3
      <3> QED BY <1>10, <3>4 DEF seed, front
    <2>5. /\ Len(f) = 1 \/ Len(f) > 1
          /\ Len(g) = 1 \/ Len(g) > 1
      BY <1>1
    <2> QED BY <2>1, <2>2, <2>3, <2>4, <2>5
  <1> QED BY <1>8, <1>9, <1>10

LEMMA NothingAdded ==
    ASSUME NEW N, NEW s \in Seq(N)
    PROVE  s \o <<>> = s
  OBVIOUS

(* Where the route of a file leads, its empty segments aside. *)
Place(file) == IF IsIndex(file) THEN Front(file) ELSE file

LEMMA SeedPlace ==
    ASSUME NEW base \in Seq(STRING), NEW f \in File, base # <<>>, Last(base) = ""
    PROVE  LET seed == JoinURLPath(base, LocalHTMLRoute(f)) IN
           /\ seed \in Seq(STRING) /\ seed # <<>>
           /\ Segments(seed, {"", "."}) = Segments(base, {"", "."}) \o Place(f)
           /\ EndsInSlash(seed) <=> IsIndex(f)
  <1> DEFINE D == {"", "."}
             kept == Segments(base, D)
             seed == JoinURLPath(base, LocalHTMLRoute(f))
             front == Front(f)
  <1>1. /\ f \in Seq(Kept) /\ f # <<>> /\ front \in Seq(Kept) /\ Last(f) \in Kept
        /\ front = <<>> <=> Len(f) = 1
        /\ Len(f) > 1 <=> Len(f) # 1
    BY FileFacts
  <1>2. kept \in Seq(Kept) /\ "" \notin Kept
    BY KeptSegments
  <1>3. /\ ~IsIndex(f) => seed = kept \o f
        /\ IsIndex(f) /\ Len(f) = 1 => seed = base
        /\ IsIndex(f) /\ Len(f) > 1 => seed = Append(kept \o front, "")
    BY JoinedRoute
  <1>4. /\ ~IsIndex(f) => Place(f) = f
        /\ IsIndex(f) => Place(f) = front
    BY DEF Place
  <1> HIDE DEF seed, front
  <1>5. CASE ~IsIndex(f)
    <2>1. kept \o f \in Seq(Kept) /\ kept \o f # <<>> /\ Last(kept \o f) = Last(f)
      BY <1>1, <1>2, KeptSequences
    <2>2. kept \o f \in Seq(STRING) /\ Segments(kept \o f, D) = kept \o f
      BY <2>1, KeptSegments
    <2>3. ~EndsInSlash(kept \o f)
      BY <1>1, <1>2, <2>1 DEF EndsInSlash
    <2> QED BY <1>3, <1>4, <1>5, <2>1, <2>2, <2>3 DEF seed
  <1>6. CASE IsIndex(f) /\ Len(f) = 1
    <2>1. front = <<>> /\ seed = base
      BY <1>1, <1>3, <1>6
    <2>2. kept \o <<>> = kept
      BY <1>2, NothingAdded
    <2>3. EndsInSlash(base)
      BY DEF EndsInSlash
    <2> QED BY <1>4, <1>6, <2>1, <2>2, <2>3 DEF seed
  <1>7. CASE IsIndex(f) /\ Len(f) > 1
    <2> DEFINE rest == kept \o front
    <2>1. rest \in Seq(Kept)
      BY <1>1, <1>2, KeptSequences
    <2>2. rest \in Seq(STRING) /\ Segments(rest, D) = rest
      BY <2>1, KeptSegments
    <2>3. seed = Append(rest, "") /\ Place(f) = front
      BY <1>3, <1>4, <1>7
    <2> HIDE DEF rest
    <2>4. /\ Append(rest, "") \in Seq(STRING) /\ Append(rest, "") # <<>> /\ Last(Append(rest, "")) = ""
          /\ Segments(Append(rest, ""), D) = rest
      BY <2>2, Slash, KeptSegments
    <2>5. EndsInSlash(Append(rest, ""))
      BY <2>4 DEF EndsInSlash
    <2> QED BY <1>7, <2>3, <2>4, <2>5 DEF rest, seed
  <1> QED BY <1>1, <1>5, <1>6, <1>7

(* Another page of a server, normalized, is at the path it was given. *)
LEMMA SeedIsPath ==
    ASSUME NEW final \in Absolute, NEW path \in Seq(STRING), path # <<>>
    PROVE  LET u == NormalizeURL([final EXCEPT !.path = path, !.fragment = ""]) IN
           u.path = path /\ u.fragment = "" /\ Server(u) = Server(final)
  <1> DEFINE v == [final EXCEPT !.path = path, !.fragment = ""]
             u == NormalizeURL(v)
  <1>1. final \in Location /\ final.scheme \in {"http", "https"} /\ final.host # ""
    BY DEF Absolute
  <1>2. /\ v \in Location /\ v.scheme = final.scheme /\ v.host = final.host
        /\ v.port = final.port /\ v.path = path /\ v.fragment = ""
    BY <1>1, StringAssumption DEF Location
  <1> HIDE DEF v
  <1>3. v \in Absolute
    BY <1>1, <1>2 DEF Absolute
  <1>4. Server(v) = Server(final)
    BY <1>2 DEF Server, Port
  <1>5. u.path = path /\ u.fragment = ""
    BY <1>2, <1>3, NormalFields
  <1>6. Resource(u) = Resource(v)
    BY <1>3, ResourceKept
  <1> HIDE DEF u
  <1>7. Server(u) = Server(v)
    BY <1>6 DEF Resource
  <1> QED BY <1>4, <1>5, <1>7 DEF u, v

(* What is found where the seeds are. *)
LEMMA SeedURLIs ==
    ASSUME site \in Sites, NEW f \in site.files
    PROVE  LET u == LocalSeedURL(f) IN
           /\ Server(u) = Server(site.final) /\ u.fragment = ""
           /\ Segments(u.path, {"", "."}) = Directory(site.final.path) \o Place(f)
           /\ EndsInSlash(u.path) <=> IsIndex(f)
  <1> DEFINE final == site.final
             base == LocalRootBasePath(final.path)
             seed == JoinURLPath(base, LocalHTMLRoute(f))
             u == LocalSeedURL(f)
  <1>1. final \in Absolute /\ final.path \in Seq(STRING) /\ f \in File
    <2>1. final \in Absolute /\ f \in File
      BY SiteAssumption
    <2> QED BY <2>1, LocationFields DEF Absolute
  <1>2. /\ base \in Seq(STRING) /\ base # <<>> /\ Last(base) = ""
        /\ Segments(base, {"", "."}) = Directory(final.path)
    BY <1>1, BaseType
  <1>3. u = NormalizeURL([final EXCEPT !.path = seed, !.fragment = ""])
    BY DEF LocalSeedURL, LocalSeed
  <1> HIDE DEF base
  <1>4. /\ seed \in Seq(STRING) /\ seed # <<>>
        /\ Segments(seed, {"", "."}) = Directory(final.path) \o Place(f)
        /\ EndsInSlash(seed) <=> IsIndex(f)
    BY <1>1, <1>2, SeedPlace
  <1> HIDE DEF seed, final, u
  <1>5. u.path = seed /\ u.fragment = "" /\ Server(u) = Server(final)
    BY <1>1, <1>3, <1>4, SeedIsPath
  <1> QED BY <1>4, <1>5 DEF u, final

(* Two files at one place have one seed. *)
LEMMA OneSeedOfPlace ==
    ASSUME site \in Sites, NEW g \in site.files, NEW h \in site.files,
           Place(g) = Place(h), IsIndex(g) <=> IsIndex(h)
    PROVE  LocalSeedURL(g) = LocalSeedURL(h)
  <1> DEFINE base == LocalRootBasePath(site.final.path)
             seed(k) == JoinURLPath(base, LocalHTMLRoute(k))
  <1>1. site.final.path \in Seq(STRING) /\ g \in File /\ h \in File
    <2>1. site.final \in Absolute /\ g \in File /\ h \in File
      BY SiteAssumption
    <2> QED BY <2>1, LocationFields DEF Absolute
  <1>2. base \in Seq(STRING) /\ base # <<>> /\ Last(base) = ""
    BY <1>1, BaseType
  <1>3. LocalSeedURL(g) = NormalizeURL([site.final EXCEPT !.path = seed(g), !.fragment = ""])
    BY DEF LocalSeedURL, LocalSeed
  <1>4. LocalSeedURL(h) = NormalizeURL([site.final EXCEPT !.path = seed(h), !.fragment = ""])
    BY DEF LocalSeedURL, LocalSeed
  <1> HIDE DEF base
  <1>5. g = h \/ (IsIndex(g) /\ IsIndex(h) /\ Front(g) = Front(h))
    BY DEF Place
  <1>6. seed(g) = seed(h)
    BY <1>1, <1>2, <1>5, SeedsDiffer
  <1> QED BY <1>3, <1>4, <1>6

(* What the walk over the local root leaves behind. *)
LEMMA LocalSeedsAre == Spec => [](phase = "done" => localSeeds = {LocalSeedURL(f) : f \in site.files})
  <1> DEFINE Made == phase = "done" => localSeeds = {LocalSeedURL(f) : f \in site.files}
  <1>1. Init => Made
    BY DEF Init
  <1>2. Made /\ [Next]_vars => Made'
    <2> SUFFICES ASSUME Made, [Next]_vars PROVE Made'
      OBVIOUS
    <2>1. CASE SkipSitemap
      BY <2>1 DEF SkipSitemap
    <2>2. CASE FetchSitemap
      BY <2>2 DEF FetchSitemap, Fail
    <2>3. CASE SitemapsDone
      BY <2>3 DEF SitemapsDone
    <2>4. CASE WalkLocalRoot
      <3>1. UNCHANGED site
        BY <2>4 DEF WalkLocalRoot
      <3>2. {LocalSeedURL(f) : f \in site.files}' = {LocalSeedURL(f) : f \in site.files}
        BY <3>1 DEF LocalSeedURL
      <3>3. phase' = "done" => localSeeds' = {LocalSeedURL(f) : f \in site.files}
        BY <2>4 DEF WalkLocalRoot, Fail
      <3> QED BY <3>2, <3>3
    <2>5. CASE UNCHANGED vars
      BY <2>5 DEF vars, LocalSeedURL
    <2>6. CASE Finished
      BY <2>5, <2>6 DEF Finished
    <2> QED BY <2>1, <2>2, <2>3, <2>4, <2>5, <2>6 DEF Next
  <1> QED BY <1>1, <1>2, PTL DEF Spec

(* The seeds of a local build are its files, each at its place below the   *)
(* page where the fetch of the entry ended, and two files share a seed     *)
(* only as indexes of one directory: localRootSeedURLs, localHTMLRoute and *)
(* joinURLPath, for every URL a fetch can end at and every tree of files.  *)
THEOREM LocalSeedsMirrorTheBuild == Spec => []LocalSeedsMirrorBuild
  <1>1. ASSUME site \in Sites, phase = "done" => localSeeds = {LocalSeedURL(f) : f \in site.files}
        PROVE  LocalSeedsMirrorBuild
    <2> SUFFICES ASSUME phase = "done"
                 PROVE  /\ \A u \in localSeeds : \E f \in site.files : Mirrors(u, f)
                        /\ \A f \in site.files : \E u \in localSeeds : Mirrors(u, f)
                        /\ \A f \in site.files : \A u, v \in localSeeds :
                              Mirrors(u, f) /\ Mirrors(v, f) => u = v
      BY DEF LocalSeedsMirrorBuild
    <2> DEFINE dir == Directory(site.final.path)
               segments(u) == Segments(u.path, {"", "."})
    <2>1. \A u, f : Mirrors(u, f) <=>
                /\ Server(u) = Server(site.final) /\ u.fragment = ""
                /\ segments(u) = dir \o Place(f)
                /\ EndsInSlash(u.path) <=> IsIndex(f)
      BY DEF Mirrors, Place
    <2>2. \A f \in site.files : Mirrors(LocalSeedURL(f), f)
      BY <1>1, <2>1, SeedURLIs
    <2>3. \A f \in site.files : Place(f) \in Seq(Kept)
      BY <1>1, SiteAssumption, FileFacts DEF Place
    <2>4. dir \in Seq(Kept)
      <3>1. site.final.path \in Seq(STRING)
        BY <1>1, SiteAssumption, LocationFields DEF Absolute
      <3> QED BY <3>1, BaseType, KeptSegments
    <2> HIDE DEF dir, segments
    <2>5. ASSUME NEW f \in site.files, NEW g \in site.files, Mirrors(LocalSeedURL(g), f)
          PROVE  Place(g) = Place(f) /\ (IsIndex(g) <=> IsIndex(f))
      <3>1. /\ dir \o Place(g) = dir \o Place(f)
            /\ IsIndex(g) <=> IsIndex(f)
        BY <2>1, <2>2, <2>5
      <3> QED BY <2>3, <2>4, <3>1, KeptSequences
    <2>6. ASSUME NEW f \in site.files, NEW u \in localSeeds, NEW v \in localSeeds,
                 Mirrors(u, f), Mirrors(v, f)
          PROVE  u = v
      <3>1. PICK g \in site.files, h \in site.files : u = LocalSeedURL(g) /\ v = LocalSeedURL(h)
        BY <1>1, <2>6
      <3>2. Place(g) = Place(h) /\ (IsIndex(g) <=> IsIndex(h))
        BY <2>5, <2>6, <3>1
      <3> QED BY <1>1, <3>1, <3>2, OneSeedOfPlace
    <2> QED BY <1>1, <2>2, <2>6
  <1>2. Inv => site \in Sites
    BY DEF Inv, TypeOK
  <1> QED BY <1>1, <1>2, Invariant, LocalSeedsAre, PTL

=============================================================================
