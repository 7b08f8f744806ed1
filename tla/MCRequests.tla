----------------------------- MODULE MCRequests ------------------------------
(* Two concurrent calls, a gate of 2 ticks or none, a backoff longer than  *)
(* the interval or none, and up to two retries.                            *)
EXTENDS Requests, TLC

CONSTANTS c1, c2

MCCall == {c1, c2}
MCSettings ==
    {[interval |-> i, backoff |-> b, retries |-> r] :
        i \in {0, 2}, b \in {0, 3}, r \in {1}}
      \cup {[interval |-> 2, backoff |-> 0, retries |-> 2],
            [interval |-> 2, backoff |-> 1, retries |-> 0]}
=============================================================================
