------------------------------ MODULE MCFetcher ------------------------------
(* Two URLs of the entry's origin, one of its host over another scheme, and *)
(* one elsewhere; chains of at most three requests.                         *)
EXTENDS Fetcher, TLC

CONSTANTS home, docs, insecure, other

MCUrl == {home, docs, insecure, other}
MCOriginOf == home :> "https://a" @@ docs :> "https://a" @@ insecure :> "http://a"
                @@ other :> "https://b"
MCHostOf == home :> "a" @@ docs :> "a" @@ insecure :> "a" @@ other :> "b"

(* A fragment that needs escaping, how it is escaped, and one that is not. *)
MCId == {"intro", "cafe_acute", "caf%C3%A9"}
MCEscape == [i \in MCId |-> IF i = "cafe_acute" THEN "caf%C3%A9" ELSE i]
MCIds == {{}, {"intro"}, {"cafe_acute", "intro"}}
=============================================================================
