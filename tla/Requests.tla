------------------------------ MODULE Requests -------------------------------
(***************************************************************************)
(* fetchWithRetriesFunc of internal/crawl/crawler.go, called by several    *)
(* goroutines at once, and the request gate they share                     *)
(* (internal/crawl/ratelimit.go): every request first reserves a slot of   *)
(* the gate, waits for it, is sent, and is repeated after a backoff while  *)
(* its outcome is transient and retries are left.                          *)
(*                                                                         *)
(* Time is a natural number; a timer may fire late but never early.  The   *)
(* options of the crawl are a rigid record, so one run of TLC checks all   *)
(* the combinations of the set Settings.                                   *)
(***************************************************************************)
EXTENDS Integers, Sequences, FiniteSets

CONSTANTS
    Call,       \* the concurrent calls of fetchWithRetries
    Settings,   \* the options: gate interval (0: no gate), backoff and retries
    Horizon     \* the clock may idle up to this time; it passes it only for a timer

ASSUME CallAssumption == IsFiniteSet(Call)
ASSUME SettingsAssumption == Settings \subseteq [interval : Nat, backoff : Nat, retries : Nat]
ASSUME HorizonAssumption == Horizon \in Nat

(* What a request may come back as: a final result, a transient failure (a *)
(* network error, a timeout, 429 or 5xx), the network error of a request   *)
(* cut short by the context, and a non-nil error of the fetcher.           *)
Outcome == {"final", "transient", "aborted", "broken"}

(* What a call returns: the result of its last request, or an error.       *)
Result == {"final", "transient", "aborted", "err"}

VARIABLES
    opts,      \* the settings, fixed
    now,       \* the clock
    next,      \* intervalRequestGate.next
    slots,     \* the slots the gate gave away, oldest first (history)
    started,   \* the number of requests sent (history)
    phase,     \* [Call -> "gate" | "waiting" | "fetching" | "backoff" | "returned"]
    due,       \* [Call -> time its timer is set to]
    attempt,   \* [Call -> the loop variable of fetchWithRetriesFunc]
    result,    \* [Call -> Result \cup {"none"}]
    ctxDone,   \* the context is cancelled
    outcomes   \* [Call -> the outcomes its requests have had] (history)

vars == <<opts, now, next, slots, started, phase, due, attempt, result, ctxDone, outcomes>>

Later(a, b) == IF a > b THEN a ELSE b

(* isRetryableFetchResult, of a result that came without a non-nil error.  *)
Retryable_Always(outcome) == outcome # "broken"
Retryable(outcome) == outcome \in {"transient", "aborted"}

(* The slot the gate gives away now, and when the one after it begins.     *)
NextSlot == Later(now, next)

AfterSlot_FromNow == now + opts.interval
AfterSlot == NextSlot + opts.interval

RetriesLeft_OneLess(c) == attempt[c] + 1 < opts.retries
RetriesLeft(c) == attempt[c] < opts.retries

Init ==
    /\ opts \in Settings
    /\ now = 0 /\ next = 0 /\ slots = <<>> /\ started = 0
    /\ phase = [c \in Call |-> "gate"]
    /\ due = [c \in Call |-> 0]
    /\ attempt = [c \in Call |-> 0]
    /\ result = [c \in Call |-> "none"]
    /\ ctxDone = FALSE
    /\ outcomes = [c \in Call |-> {}]

Enter(c, p) == phase' = [phase EXCEPT ![c] = p]

Return(c, res) == Enter(c, "returned") /\ result' = [result EXCEPT ![c] = res]

(* noopRequestGate.Wait: no limit, but a cancelled context is noticed.     *)
PassOpenGate(c) ==
    /\ phase[c] = "gate" /\ opts.interval = 0
    /\ IF ctxDone
       THEN Return(c, "err") /\ UNCHANGED started
       ELSE Enter(c, "fetching") /\ started' = started + 1 /\ UNCHANGED result
    /\ UNCHANGED <<opts, now, next, slots, due, attempt, ctxDone, outcomes>>

(* intervalRequestGate.Wait under its mutex: take the slot and move on at  *)
(* once when it has come (whatever the context says), else set a timer.    *)
ReserveSlot(c) ==
    /\ phase[c] = "gate" /\ opts.interval > 0
    /\ slots' = Append(slots, NextSlot)
    /\ next' = AfterSlot
    /\ IF NextSlot <= now
       THEN Enter(c, "fetching") /\ started' = started + 1 /\ UNCHANGED due
       ELSE /\ Enter(c, "waiting")
            /\ due' = [due EXCEPT ![c] = NextSlot]
            /\ UNCHANGED started
    /\ UNCHANGED <<opts, now, attempt, result, ctxDone, outcomes>>

(* The select of intervalRequestGate.Wait. *)
SlotComes_OnTimeOnly(c) ==
    /\ phase[c] = "waiting" /\ due[c] = now
    /\ Enter(c, "fetching") /\ started' = started + 1
    /\ UNCHANGED <<opts, now, next, slots, due, attempt, result, ctxDone, outcomes>>
SlotComes(c) ==
    /\ phase[c] = "waiting" /\ due[c] <= now
    /\ Enter(c, "fetching") /\ started' = started + 1
    /\ UNCHANGED <<opts, now, next, slots, due, attempt, result, ctxDone, outcomes>>

(* ... and of sleepBeforeRetry: a sleeper notices the cancellation. *)
Sleeping_AtGate(c) == phase[c] = "waiting"
Sleeping(c) == phase[c] \in {"waiting", "backoff"}

GiveUp(c) ==
    /\ Sleeping(c) /\ ctxDone
    /\ Return(c, "err")
    /\ UNCHANGED <<opts, now, next, slots, started, due, attempt, ctxDone, outcomes>>

(* A request ends: return its result, or sleepBeforeRetry.  Without a      *)
(* backoff there is no timer, only a look at the context.                  *)
EndRequest(c) ==
    /\ phase[c] = "fetching"
    /\ \E outcome \in IF ctxDone THEN Outcome ELSE Outcome \ {"aborted"} :
      /\ outcomes' = [outcomes EXCEPT ![c] = @ \cup {outcome}]
      /\ \/ /\ outcome = "broken"
            /\ Return(c, "err") /\ UNCHANGED <<due, attempt>>
         \/ /\ outcome # "broken" /\ ~(Retryable(outcome) /\ RetriesLeft(c))
            /\ Return(c, outcome) /\ UNCHANGED <<due, attempt>>
         \/ /\ Retryable(outcome) /\ RetriesLeft(c) /\ opts.backoff > 0
            /\ Enter(c, "backoff")
            /\ due' = [due EXCEPT ![c] = now + opts.backoff]
            /\ UNCHANGED <<attempt, result>>
         \/ /\ Retryable(outcome) /\ RetriesLeft(c) /\ opts.backoff = 0 /\ ctxDone
            /\ Return(c, "err") /\ UNCHANGED <<due, attempt>>
         \/ /\ Retryable(outcome) /\ RetriesLeft(c) /\ opts.backoff = 0 /\ ~ctxDone
            /\ Enter(c, "gate")
            /\ attempt' = [attempt EXCEPT ![c] = @ + 1]
            /\ UNCHANGED <<due, result>>
    /\ UNCHANGED <<opts, now, next, slots, started, ctxDone>>

Retry(c) ==
    /\ phase[c] = "backoff" /\ due[c] <= now
    /\ Enter(c, "gate")
    /\ attempt' = [attempt EXCEPT ![c] = @ + 1]
    /\ UNCHANGED <<opts, now, next, slots, started, due, result, ctxDone, outcomes>>

CallStep(c) ==
    \/ PassOpenGate(c) \/ ReserveSlot(c) \/ SlotComes(c) \/ GiveUp(c)
    \/ EndRequest(c) \/ Retry(c)

Pending == {c \in Call : Sleeping(c) /\ due[c] > now}

(* The clock runs; past Horizon only while a timer is set. *)
Tick ==
    /\ now < Horizon \/ Pending # {}
    /\ now' = now + 1
    /\ UNCHANGED <<opts, next, slots, started, phase, due, attempt, result, ctxDone, outcomes>>

Cancel ==
    /\ ~ctxDone /\ \E c \in Call : phase[c] # "returned"
    /\ ctxDone' = TRUE
    /\ UNCHANGED <<opts, now, next, slots, started, phase, due, attempt, result, outcomes>>

AllReturned == (\A c \in Call : phase[c] = "returned") /\ UNCHANGED vars

Next == (\E c \in Call : CallStep(c)) \/ Tick \/ Cancel \/ AllReturned

(* Goroutines run, and a request ends: the HTTP client has a timeout.      *)
(* Nobody owes a cancellation.                                             *)
Spec == Init /\ [][Next]_vars /\ \A c \in Call : WF_vars(CallStep(c))

-----------------------------------------------------------------------------
(* Every variable has its type; no call tries again more than --retries times. *)
TypeOK ==
    /\ opts \in Settings
    /\ now \in Nat /\ next \in Nat /\ slots \in Seq(Nat) /\ started \in Nat
    /\ phase \in [Call -> {"gate", "waiting", "fetching", "backoff", "returned"}]
    /\ due \in [Call -> Nat] /\ attempt \in [Call -> 0..opts.retries]
    /\ result \in [Call -> Result \cup {"none"}]
    /\ ctxDone \in BOOLEAN
    /\ outcomes \in [Call -> SUBSET Outcome]

(* --max-requests-per-second ("limit request starts per second"), for      *)
(* first requests and retries alike: the gate gives slots away at least    *)
(* one interval apart, and no request starts without a slot of its own     *)
(* that has come.  The slot of a cancelled waiter is lost, never reused.   *)
(* (Late goroutines may start together: starts are bounded since the       *)
(* beginning of the crawl, not in every window of one second.)             *)
RateKept ==
    opts.interval > 0 =>
        /\ \A i, j \in 1..Len(slots) : i < j => slots[j] - slots[i] >= opts.interval
        /\ started <= Cardinality({i \in 1..Len(slots) : slots[i] <= now})

(* What a call returns is the outcome the crawl may count on: an error     *)
(* that a retry could cure is returned only when --retries is used up, and *)
(* an aborted request is reported as a result only under a cancelled       *)
(* context.  A call goes on only after outcomes that a retry could cure:   *)
(* a final result, such as a 404, ends it and is what it returns, and no   *)
(* second request takes its place.                                         *)
ResultJustified ==
    \A c \in Call :
        /\ result[c] \in {"transient", "aborted"} => attempt[c] = opts.retries
        /\ result[c] = "aborted" => ctxDone
        /\ phase[c] # "returned" => outcomes[c] \subseteq {"transient", "aborted"}
        /\ "final" \in outcomes[c] => result[c] = "final"

Returned == \A c \in Call : phase[c] = "returned"

(* Every call returns, however its requests end: the retries run out and,  *)
(* as long as the clock advances, each slot and each backoff comes.        *)
EveryCallReturns == WF_vars(Tick) => <>Returned

(* A cancelled context ends every call without any help from the clock:    *)
(* nobody sleeps through a cancellation, at the gate or in a backoff.      *)
CancelEndsCalls == ctxDone ~> Returned
=============================================================================
