--------------------------- MODULE RequestsProofs ----------------------------
(***************************************************************************)
(* Proofs about the request gate and the retries, for all numbers of       *)
(* calls, rates, backoffs and retries, and however long the clock runs.    *)
(***************************************************************************)
EXTENDS Requests, FiniteSetTheorems, TLAPS

Waiting(c) == phase[c] = "waiting"

(* The slots given away come one interval after the other, and the next    *)
(* one comes after all of them.                                            *)
SlotsApart ==
    /\ \A i \in 1..Len(slots) : slots[i] + opts.interval <= next
    /\ \A i, j \in 1..Len(slots) : i < j => slots[j] - slots[i] >= opts.interval

(* Each waiting call has a slot of its own. *)
SlotsOwned ==
    opts.interval > 0 =>
        /\ \A c \in Call : Waiting(c) => \E i \in 1..Len(slots) : slots[i] = due[c]
        /\ \A c, d \in Call : Waiting(c) /\ Waiting(d) /\ due[c] = due[d] => c = d

(* The slots that have come and that no call waits for: those of the       *)
(* requests sent, and those lost to a cancellation.                        *)
Spent == {i \in 1..Len(slots) : slots[i] <= now /\ \A c \in Call : Waiting(c) => due[c] # slots[i]}

StartsHaveSlots == opts.interval > 0 => started <= Cardinality(Spent)

(* The retries of a call, and what is known of its result. *)
RetriesUsed ==
    \A c \in Call :
        /\ phase[c] = "backoff" => attempt[c] < opts.retries
        /\ result[c] # "none" => phase[c] = "returned"

IInv == TypeOK /\ SlotsApart /\ SlotsOwned /\ StartsHaveSlots /\ RetriesUsed /\ ResultJustified

-----------------------------------------------------------------------------
LEMMA Options == ASSUME TypeOK PROVE opts.interval \in Nat /\ opts.backoff \in Nat /\ opts.retries \in Nat
  <1>1. opts \in Settings
    BY DEF TypeOK
  <1> QED
    BY <1>1, SettingsAssumption

LEMMA Clock ==
    ASSUME TypeOK
    PROVE  /\ now \in Nat /\ next \in Nat /\ started \in Nat
           /\ slots \in Seq(Nat) /\ Len(slots) \in Nat
           /\ \A i \in 1..Len(slots) : slots[i] \in Nat
           /\ \A c \in Call : due[c] \in Nat
           /\ NextSlot \in Nat /\ NextSlot >= next /\ NextSlot >= now
  <1>1. /\ now \in Nat /\ next \in Nat /\ started \in Nat /\ slots \in Seq(Nat)
        /\ due \in [Call -> Nat]
    BY DEF TypeOK
  <1> QED
    BY <1>1 DEF NextSlot, Later

(* Counting slots *)
LEMMA NoFewer ==
    ASSUME NEW n \in Nat, NEW A, NEW B \in SUBSET (1..n), A \subseteq B
    PROVE  Cardinality(A) \in Nat /\ Cardinality(B) \in Nat /\ Cardinality(A) <= Cardinality(B)
  <1>0. IsFiniteSet(1..n)
    BY FS_Interval
  <1>1. IsFiniteSet(B)
    BY <1>0, FS_Subset
  <1> QED
    BY <1>1, FS_Subset, FS_CardinalityType

LEMMA OneMore ==
    ASSUME NEW n \in Nat, NEW A, NEW B \in SUBSET (1..n), A \subseteq B, NEW i \in B, i \notin A
    PROVE  Cardinality(A) \in Nat /\ Cardinality(B) \in Nat /\ Cardinality(A) + 1 <= Cardinality(B)
  <1>0. IsFiniteSet(1..n)
    BY FS_Interval
  <1>1. IsFiniteSet(B)
    BY <1>0, FS_Subset
  <1>2. IsFiniteSet(A) /\ Cardinality(A) \in Nat /\ Cardinality(B) \in Nat
    BY <1>1, FS_Subset, FS_CardinalityType
  <1>3. Cardinality(A \cup {i}) = Cardinality(A) + 1
    BY <1>2, FS_AddElement
  <1>4. Cardinality(A \cup {i}) <= Cardinality(B)
    BY <1>1, FS_Subset
  <1> QED
    BY <1>2, <1>3, <1>4

-----------------------------------------------------------------------------
(* Types *)
Phase == {"gate", "waiting", "fetching", "backoff", "returned"}

LEMMA Entered ==
    ASSUME TypeOK, NEW c \in Call, NEW p \in Phase, Enter(c, p)
    PROVE  /\ phase' \in [Call -> Phase] /\ phase'[c] = p
           /\ \A d \in Call : d # c => phase'[d] = phase[d]
  BY DEF TypeOK, Phase, Enter

LEMMA ReturnedWith ==
    ASSUME TypeOK, NEW c \in Call, NEW res \in Result, Return(c, res)
    PROVE  /\ Enter(c, "returned") /\ result' \in [Call -> Result \cup {"none"}] /\ result'[c] = res
           /\ \A d \in Call : d # c => result'[d] = result[d]
  BY DEF TypeOK, Return

LEMMA TypeInductive == ASSUME IInv, [Next]_vars PROVE TypeOK'
  <1>t. TypeOK
    BY DEF IInv
  <1>o. opts.interval \in Nat /\ opts.backoff \in Nat /\ opts.retries \in Nat
    BY <1>t, Options
  <1>c. /\ now \in Nat /\ next \in Nat /\ started \in Nat /\ NextSlot \in Nat
        /\ NextSlot + opts.interval \in Nat
    BY <1>t, <1>o, Clock
  <1>e. "err" \in Result /\ {"gate", "fetching", "waiting", "backoff", "returned"} = Phase
    BY DEF Result, Phase
  <1>a. ASSUME NEW c \in Call, attempt[c] < opts.retries,
               attempt' = [attempt EXCEPT ![c] = @ + 1]
        PROVE  attempt' \in [Call -> 0..opts.retries]
    <2>1. attempt[c] + 1 \in 0..opts.retries
      BY <1>a, <1>t, <1>o DEF TypeOK
    <2> QED
      BY <1>a, <1>t, <2>1 DEF TypeOK
  <1>1. ASSUME NEW c \in Call, PassOpenGate(c) PROVE TypeOK'
    <2>1. CASE ctxDone
      <3>1. Return(c, "err") /\ UNCHANGED started
        BY <1>1, <2>1 DEF PassOpenGate
      <3> QED
        BY <1>1, <3>1, <1>t, <1>e, Entered, ReturnedWith DEF PassOpenGate, TypeOK, Phase
    <2>2. CASE ~ctxDone
      <3>1. Enter(c, "fetching") /\ started' = started + 1 /\ UNCHANGED result
        BY <1>1, <2>2 DEF PassOpenGate
      <3> QED
        BY <1>1, <3>1, <1>t, <1>c, <1>e, Entered DEF PassOpenGate, TypeOK, Phase
    <2> QED
      BY <2>1, <2>2
  <1>2. ASSUME NEW c \in Call, ReserveSlot(c) PROVE TypeOK'
    <2>1. /\ slots' \in Seq(Nat) /\ next' \in Nat
          /\ UNCHANGED <<opts, now, attempt, result, ctxDone, outcomes>>
      BY <1>2, <1>t, <1>c DEF ReserveSlot, TypeOK, AfterSlot
    <2>2. phase' \in [Call -> Phase]
      BY <1>2, <1>t, <1>e, Entered DEF ReserveSlot
    <2>3. started' \in Nat
      BY <1>2, <1>c DEF ReserveSlot
    <2>4. due' \in [Call -> Nat]
      BY <1>2, <1>t, <1>c DEF ReserveSlot, TypeOK
    <2> QED
      BY <1>t, <2>1, <2>2, <2>3, <2>4 DEF TypeOK, Phase
  <1>3. ASSUME NEW c \in Call, SlotComes(c) PROVE TypeOK'
    BY <1>3, <1>t, <1>c, <1>e, Entered DEF SlotComes, TypeOK, Phase
  <1>4. ASSUME NEW c \in Call, GiveUp(c) PROVE TypeOK'
    BY <1>4, <1>t, <1>e, Entered, ReturnedWith DEF GiveUp, TypeOK, Phase
  <1>5. ASSUME NEW c \in Call, EndRequest(c) PROVE TypeOK'
    <2>0. UNCHANGED <<opts, now, next, slots, started, ctxDone>> /\ outcomes' \in [Call -> SUBSET Outcome]
      BY <1>5, <1>t DEF EndRequest, TypeOK
    <2>1. ASSUME NEW res \in Result, Return(c, res), UNCHANGED <<due, attempt>> PROVE TypeOK'
      BY <2>0, <2>1, <1>t, <1>e, Entered, ReturnedWith DEF TypeOK, Phase
    <2>2. CASE /\ Enter(c, "backoff") /\ due' = [due EXCEPT ![c] = now + opts.backoff]
               /\ UNCHANGED <<attempt, result>>
      <3>1. due' \in [Call -> Nat]
        BY <2>2, <1>t, <1>o, <1>c DEF TypeOK
      <3> QED
        BY <2>0, <2>2, <3>1, <1>t, <1>e, Entered DEF TypeOK, Phase
    <2>3. CASE /\ RetriesLeft(c) /\ Enter(c, "gate") /\ attempt' = [attempt EXCEPT ![c] = @ + 1]
               /\ UNCHANGED <<due, result>>
      <3>1. attempt' \in [Call -> 0..opts.retries]
        BY <2>3, <1>a DEF RetriesLeft
      <3> QED
        BY <2>0, <2>3, <3>1, <1>t, <1>e, Entered DEF TypeOK, Phase
    <2>4. PICK outcome \in Outcome :
            \/ outcome # "broken" /\ Return(c, outcome) /\ UNCHANGED <<due, attempt>>
            \/ Return(c, "err") /\ UNCHANGED <<due, attempt>>
            \/ /\ Enter(c, "backoff") /\ due' = [due EXCEPT ![c] = now + opts.backoff]
               /\ UNCHANGED <<attempt, result>>
            \/ /\ RetriesLeft(c) /\ Enter(c, "gate") /\ attempt' = [attempt EXCEPT ![c] = @ + 1]
               /\ UNCHANGED <<due, result>>
      BY <1>5 DEF EndRequest
    <2>5. outcome # "broken" => outcome \in Result
      BY DEF Outcome, Result
    <2> QED
      BY <2>1, <2>2, <2>3, <2>4, <2>5, <1>e
  <1>6. ASSUME NEW c \in Call, Retry(c) PROVE TypeOK'
    <2>1. attempt' \in [Call -> 0..opts.retries]
      BY <1>6, <1>a DEF Retry, IInv, RetriesUsed
    <2> QED
      BY <1>6, <2>1, <1>t, <1>e, Entered DEF Retry, TypeOK, Phase
  <1>7. CASE Tick
    BY <1>7, <1>t, <1>c DEF Tick, TypeOK
  <1>8. CASE Cancel
    BY <1>8, <1>t DEF Cancel, TypeOK
  <1>9. CASE UNCHANGED vars
    BY <1>9, <1>t DEF vars, TypeOK
  <1> QED
    BY <1>1, <1>2, <1>3, <1>4, <1>5, <1>6, <1>7, <1>8, <1>9 DEF Next, CallStep, AllReturned

-----------------------------------------------------------------------------
(* The slots, one interval apart. *)
LEMMA SlotsStayApart == ASSUME IInv, [Next]_vars PROVE SlotsApart'
  <1>t. TypeOK
    BY DEF IInv
  <1>o. opts.interval \in Nat
    BY <1>t, Options
  <1>1. ASSUME NEW c \in Call, ReserveSlot(c) PROVE SlotsApart'
    <2>1. /\ slots' = Append(slots, NextSlot) /\ next' = NextSlot + opts.interval /\ opts' = opts
      BY <1>1 DEF ReserveSlot, AfterSlot
    <2>2. /\ slots \in Seq(Nat) /\ Len(slots) \in Nat /\ NextSlot \in Nat /\ next \in Nat
          /\ NextSlot >= next /\ \A i \in 1..Len(slots) : slots[i] \in Nat
      BY <1>t, Clock
    <2>3. /\ Len(slots') = Len(slots) + 1 /\ slots'[Len(slots) + 1] = NextSlot
          /\ \A i \in 1..Len(slots) : slots'[i] = slots[i]
      BY <2>1, <2>2
    <2>4. /\ \A i \in 1..Len(slots) : slots[i] + opts.interval <= next
          /\ \A i, j \in 1..Len(slots) : i < j => slots[j] - slots[i] >= opts.interval
      BY DEF IInv, SlotsApart
    <2>5. ASSUME NEW i \in 1..Len(slots') PROVE slots'[i] + opts.interval <= next'
      <3>1. CASE i = Len(slots) + 1
        BY <3>1, <2>1, <2>2, <2>3, <1>o
      <3>2. CASE i # Len(slots) + 1
        <4>1. i \in 1..Len(slots) /\ slots'[i] = slots[i]
          BY <3>2, <2>2, <2>3
        <4> QED
          BY <4>1, <2>1, <2>2, <2>4, <1>o
      <3> QED
        BY <3>1, <3>2
    <2>6. ASSUME NEW i \in 1..Len(slots'), NEW j \in 1..Len(slots'), i < j
          PROVE  slots'[j] - slots'[i] >= opts.interval
      <3>1. i \in 1..Len(slots) /\ slots'[i] = slots[i]
        BY <2>6, <2>2, <2>3
      <3>2. CASE j = Len(slots) + 1
        BY <3>1, <3>2, <2>2, <2>3, <2>4, <1>o
      <3>3. CASE j # Len(slots) + 1
        <4>1. j \in 1..Len(slots) /\ slots'[j] = slots[j]
          BY <3>3, <2>2, <2>3
        <4> QED
          BY <2>6, <3>1, <4>1, <2>4
      <3> QED
        BY <3>2, <3>3
    <2> QED
      BY <2>1, <2>5, <2>6 DEF SlotsApart
  <1>2. ASSUME UNCHANGED <<opts, next, slots>> PROVE SlotsApart'
    BY <1>2 DEF IInv, SlotsApart
  <1> QED
    BY <1>1, <1>2
       DEF Next, CallStep, PassOpenGate, SlotComes, GiveUp, EndRequest, Retry, Tick, Cancel,
           AllReturned, vars

-----------------------------------------------------------------------------
(* Who waits for which slot, and how many are spent. *)

(* No call starts to wait and no request is sent: what is spent only grows. *)
LEMMA NobodyWaitsAnew ==
    ASSUME IInv, TypeOK', UNCHANGED <<opts, slots>>, now <= now', started' = started,
           \A c \in Call : Waiting(c)' => Waiting(c) /\ due'[c] = due[c]
    PROVE  SlotsOwned' /\ StartsHaveSlots'
  <1>t. TypeOK
    BY DEF IInv
  <1>1. SlotsOwned'
    BY DEF IInv, SlotsOwned
  <1>2. Spent \subseteq Spent'
    <2>1. ASSUME NEW i \in 1..Len(slots), slots[i] <= now PROVE slots[i] <= now'
      <3>1. slots[i] \in Nat /\ now \in Nat
        BY <1>t, Clock
      <3>2. now' \in Nat
        BY DEF TypeOK
      <3> QED
        BY <2>1, <3>1, <3>2
    <2> QED
      BY <2>1 DEF Spent
  <1>3. Spent' \in SUBSET (1..Len(slots)) /\ Len(slots) \in Nat
    BY <1>t, Clock DEF Spent
  <1>4. Cardinality(Spent) <= Cardinality(Spent') /\ Cardinality(Spent) \in Nat /\ Cardinality(Spent') \in Nat
    BY <1>2, <1>3, NoFewer
  <1>5. started \in Nat
    BY <1>t, Clock
  <1>6. StartsHaveSlots'
    BY <1>4, <1>5 DEF IInv, StartsHaveSlots
  <1> QED
    BY <1>1, <1>6

LEMMA ReservingKeepsCount ==
    ASSUME IInv, TypeOK', NEW c \in Call, ReserveSlot(c)
    PROVE  SlotsOwned' /\ StartsHaveSlots'
  <1>t. TypeOK
    BY DEF IInv
  <1>1. /\ slots' = Append(slots, NextSlot) /\ opts.interval > 0
        /\ UNCHANGED <<opts, now>> /\ ~Waiting(c)
    BY DEF ReserveSlot, Waiting
  <1>2. /\ slots \in Seq(Nat) /\ Len(slots) \in Nat /\ NextSlot \in Nat /\ next \in Nat /\ now \in Nat
        /\ started \in Nat
        /\ NextSlot >= next /\ \A i \in 1..Len(slots) : slots[i] \in Nat
    BY <1>t, Clock
  <1>3. /\ Len(slots') = Len(slots) + 1 /\ slots'[Len(slots) + 1] = NextSlot
        /\ \A i \in 1..Len(slots) : slots'[i] = slots[i]
    BY <1>1, <1>2
  <1>4. opts.interval \in Nat
    BY <1>t, Options
  <1>5. \A i \in 1..Len(slots) : slots[i] < NextSlot
    BY <1>1, <1>2, <1>4 DEF IInv, SlotsApart
  <1>6. /\ \A d \in Call : Waiting(d) => \E i \in 1..Len(slots) : slots[i] = due[d]
        /\ \A d, e \in Call : Waiting(d) /\ Waiting(e) /\ due[d] = due[e] => d = e
    BY <1>1 DEF IInv, SlotsOwned
  <1>7. \A d \in Call : Waiting(d) => due[d] # NextSlot
    BY <1>2, <1>5, <1>6
  <1>8. started <= Cardinality(Spent)
    BY <1>1 DEF IInv, StartsHaveSlots
  <1>9. Spent \in SUBSET (1..Len(slots)) /\ Spent' \in SUBSET (1..Len(slots'))
    BY DEF Spent
  <1>10. Len(slots') \in Nat /\ Len(slots) + 1 \in 1..Len(slots')
    BY <1>2, <1>3
  <1>11. CASE NextSlot <= now
    <2>1. Enter(c, "fetching") /\ started' = started + 1 /\ UNCHANGED due
      BY <1>11 DEF ReserveSlot
    <2>2. \A d \in Call : Waiting(d)' <=> Waiting(d)
      BY <1>1, <1>t, <2>1, Entered DEF Waiting, Phase
    <2>3. SlotsOwned'
      <3>1. ASSUME NEW d \in Call, Waiting(d)' PROVE \E i \in 1..Len(slots') : slots'[i] = due'[d]
        <4>1. PICK i \in 1..Len(slots) : slots[i] = due[d]
          BY <3>1, <2>2, <1>6
        <4> QED
          BY <4>1, <2>1, <1>2, <1>3
      <3> QED
        BY <3>1, <2>1, <2>2, <1>6 DEF SlotsOwned
    <2>4. Spent \subseteq Spent'
      BY <1>1, <1>2, <1>3, <2>1, <2>2 DEF Spent
    <2>5. Len(slots) + 1 \in Spent' /\ Len(slots) + 1 \notin Spent
      BY <1>1, <1>2, <1>3, <1>7, <1>9, <1>10, <1>11, <2>1, <2>2 DEF Spent
    <2>6. Cardinality(Spent) \in Nat /\ Cardinality(Spent') \in Nat
            /\ Cardinality(Spent) + 1 <= Cardinality(Spent')
      BY <1>9, <1>10, <2>4, <2>5, OneMore
    <2>7. StartsHaveSlots'
      BY <2>1, <2>6, <1>2, <1>8 DEF StartsHaveSlots
    <2> QED
      BY <2>3, <2>7
  <1>12. CASE ~(NextSlot <= now)
    <2>1. Enter(c, "waiting") /\ started' = started /\ due' = [due EXCEPT ![c] = NextSlot]
      BY <1>12 DEF ReserveSlot
    <2>2. /\ Waiting(c)' /\ \A d \in Call : d # c => (Waiting(d)' <=> Waiting(d))
      BY <1>t, <2>1, Entered DEF Waiting, Phase
    <2>3. due'[c] = NextSlot /\ \A d \in Call : d # c => due'[d] = due[d]
      BY <1>t, <2>1 DEF TypeOK
    <2>4. SlotsOwned'
      <3>1. ASSUME NEW d \in Call, Waiting(d)' PROVE \E i \in 1..Len(slots') : slots'[i] = due'[d]
        <4>1. CASE d = c
          BY <4>1, <2>3, <1>3, <1>10
        <4>2. CASE d # c
          <5>1. PICK i \in 1..Len(slots) : slots[i] = due[d]
            BY <3>1, <4>2, <2>2, <1>6
          <5> QED
            BY <5>1, <4>2, <2>3, <1>2, <1>3
        <4> QED
          BY <4>1, <4>2
      <3>2. ASSUME NEW d \in Call, NEW e \in Call, Waiting(d)', Waiting(e)', due'[d] = due'[e]
            PROVE  d = e
        BY <3>2, <2>2, <2>3, <1>6, <1>7
      <3> QED
        BY <3>1, <3>2 DEF SlotsOwned
    <2>5. Spent \subseteq Spent'
      <3>1. ASSUME NEW i \in Spent PROVE i \in Spent'
        <4>1. /\ i \in 1..Len(slots) /\ slots[i] <= now
              /\ \A d \in Call : Waiting(d) => due[d] # slots[i]
          BY <3>1 DEF Spent
        <4>2. i \in 1..Len(slots') /\ slots'[i] = slots[i]
          BY <4>1, <1>2, <1>3
        <4>3. slots[i] # NextSlot
          BY <4>1, <1>2, <1>5
        <4> QED
          BY <4>1, <4>2, <4>3, <2>2, <2>3, <1>1 DEF Spent
      <3> QED
        BY <3>1
    <2>6. Cardinality(Spent) \in Nat /\ Cardinality(Spent') \in Nat
            /\ Cardinality(Spent) <= Cardinality(Spent')
      BY <1>9, <1>10, <2>5, NoFewer
    <2>7. StartsHaveSlots'
      BY <2>1, <2>6, <1>2, <1>8 DEF StartsHaveSlots
    <2> QED
      BY <2>4, <2>7
  <1> QED
    BY <1>11, <1>12

LEMMA StartingKeepsCount ==
    ASSUME IInv, TypeOK', NEW c \in Call, SlotComes(c)
    PROVE  SlotsOwned' /\ StartsHaveSlots'
  <1>t. TypeOK
    BY DEF IInv
  <1>1. /\ Waiting(c) /\ due[c] <= now /\ Enter(c, "fetching") /\ started' = started + 1
        /\ UNCHANGED <<opts, now, slots, due>>
    BY DEF SlotComes, Waiting
  <1>2. ~Waiting(c)' /\ \A d \in Call : d # c => (Waiting(d)' <=> Waiting(d))
    BY <1>t, <1>1, Entered DEF Waiting, Phase
  <1>3. SlotsOwned'
    BY <1>1, <1>2 DEF IInv, SlotsOwned
  <1>4. ASSUME opts.interval > 0 PROVE started' <= Cardinality(Spent')
    <2>1. PICK i \in 1..Len(slots) : slots[i] = due[c]
      BY <1>1, <1>4 DEF IInv, SlotsOwned
    <2>2. i \notin Spent
      BY <1>1, <2>1 DEF Spent
    <2>3. i \in Spent'
      BY <1>1, <1>2, <1>4, <2>1 DEF IInv, SlotsOwned, Spent
    <2>4. Spent \subseteq Spent'
      BY <1>1, <1>2 DEF Spent
    <2>5. Spent' \in SUBSET (1..Len(slots)) /\ Len(slots) \in Nat
      BY <1>1, <1>t, Clock DEF Spent
    <2>6. Cardinality(Spent) \in Nat /\ Cardinality(Spent') \in Nat
            /\ Cardinality(Spent) + 1 <= Cardinality(Spent')
      BY <2>2, <2>3, <2>4, <2>5, OneMore
    <2>7. started <= Cardinality(Spent) /\ started \in Nat
      BY <1>4, <1>t, Clock DEF IInv, StartsHaveSlots
    <2> QED
      BY <1>1, <2>6, <2>7
  <1> QED
    BY <1>1, <1>3, <1>4 DEF StartsHaveSlots

LEMMA SlotsStayOwned ==
    ASSUME IInv, TypeOK', [Next]_vars
    PROVE  SlotsOwned' /\ StartsHaveSlots'
  <1>t. TypeOK
    BY DEF IInv
  <1>n. now \in Nat
    BY <1>t, Clock
  <1>1. ASSUME NEW c \in Call, PassOpenGate(c) PROVE SlotsOwned' /\ StartsHaveSlots'
    <2>1. opts'.interval = 0
      BY <1>1 DEF PassOpenGate
    <2> QED
      BY <2>1 DEF SlotsOwned, StartsHaveSlots
  <1>2. ASSUME NEW c \in Call, NEW p \in Phase \ {"waiting"}, Enter(c, p)
        PROVE  \A d \in Call : Waiting(d)' => Waiting(d) /\ d # c
    BY <1>2, <1>t, Entered DEF Waiting
  <1>3. ASSUME NEW c \in Call, GiveUp(c) PROVE SlotsOwned' /\ StartsHaveSlots'
    <2>1. Enter(c, "returned") /\ "returned" \in Phase \ {"waiting"}
      BY <1>3 DEF GiveUp, Return, Phase
    <2> QED
      BY <1>2, <1>3, <1>n, <2>1, NobodyWaitsAnew DEF GiveUp
  <1>4. ASSUME NEW c \in Call, EndRequest(c) PROVE SlotsOwned' /\ StartsHaveSlots'
    <2>1. PICK p \in Phase \ {"waiting"} : Enter(c, p)
      BY <1>4 DEF EndRequest, Return, Phase
    <2>2. \A d \in Call : d # c => due'[d] = due[d]
      BY <1>4, <1>t DEF EndRequest, TypeOK
    <2>3. UNCHANGED <<opts, now, slots, started>>
      BY <1>4 DEF EndRequest
    <2> QED
      BY <1>2, <1>n, <2>1, <2>2, <2>3, NobodyWaitsAnew
  <1>5. ASSUME NEW c \in Call, Retry(c) PROVE SlotsOwned' /\ StartsHaveSlots'
    <2>1. Enter(c, "gate") /\ "gate" \in Phase \ {"waiting"}
      BY <1>5 DEF Retry, Phase
    <2> QED
      BY <1>2, <1>5, <1>n, <2>1, NobodyWaitsAnew DEF Retry
  <1>6. CASE Tick
    BY <1>6, <1>n, NobodyWaitsAnew DEF Tick, Waiting
  <1>7. CASE Cancel
    BY <1>7, <1>n, NobodyWaitsAnew DEF Cancel, Waiting
  <1>8. CASE UNCHANGED vars
    BY <1>8, <1>n, NobodyWaitsAnew DEF vars, Waiting
  <1> QED
    BY <1>1, <1>3, <1>4, <1>5, <1>6, <1>7, <1>8, ReservingKeepsCount, StartingKeepsCount
       DEF Next, CallStep, AllReturned

-----------------------------------------------------------------------------
(* What a call does with its retries, and what it returns. *)
LEMMA RetriesStayUsed == ASSUME IInv, TypeOK', [Next]_vars PROVE RetriesUsed' /\ ResultJustified'
  <1>t. TypeOK /\ RetriesUsed /\ ResultJustified
    BY DEF IInv
  <1>n. opts.retries \in Nat /\ \A c \in Call : attempt[c] \in 0..opts.retries
    BY <1>t, Options DEF TypeOK
  <1>c. ASSUME NEW c \in Call, UNCHANGED opts, ctxDone => ctxDone',
               \A d \in Call \ {c} : phase'[d] = phase[d] /\ attempt'[d] = attempt[d]
                                     /\ result'[d] = result[d] /\ outcomes'[d] = outcomes[d],
               phase'[c] = "backoff" => attempt'[c] < opts.retries,
               result'[c] # "none" => phase'[c] = "returned",
               result'[c] \in {"transient", "aborted"} => attempt'[c] = opts.retries,
               result'[c] = "aborted" => ctxDone',
               phase'[c] # "returned" => outcomes'[c] \subseteq {"transient", "aborted"},
               "final" \in outcomes'[c] => result'[c] = "final"
        PROVE  RetriesUsed' /\ ResultJustified'
    BY <1>c, <1>t DEF RetriesUsed, ResultJustified
  <1>r. ASSUME NEW c \in Call, NEW res \in Result, Return(c, res),
               UNCHANGED <<opts, attempt, ctxDone>>,
               \A d \in Call \ {c} : outcomes'[d] = outcomes[d],
               "final" \in outcomes'[c] => res = "final",
               res \in {"transient", "aborted"} => attempt[c] = opts.retries,
               res = "aborted" => ctxDone
        PROVE  RetriesUsed' /\ ResultJustified'
    BY <1>c, <1>r, <1>t, Entered, ReturnedWith DEF Phase
  <1>e. ASSUME NEW c \in Call, NEW p \in Phase, Enter(c, p), phase[c] # "returned",
               p = "backoff" => attempt'[c] < opts.retries,
               \A d \in Call \ {c} : attempt'[d] = attempt[d] /\ outcomes'[d] = outcomes[d],
               outcomes'[c] \subseteq {"transient", "aborted"},
               UNCHANGED <<opts, result, ctxDone>>
        PROVE  RetriesUsed' /\ ResultJustified'
    <2>1. result'[c] = "none"
      BY <1>e, <1>t DEF RetriesUsed
    <2> QED
      BY <1>c, <1>e, <1>t, <2>1, Entered
  <1>p. /\ "err" \in Result /\ "err" \notin {"transient", "aborted"}
        /\ {"gate", "fetching", "waiting", "backoff"} \subseteq Phase
    BY DEF Result, Phase
  \* A call goes on only after outcomes that a retry could cure.
  <1>u. ASSUME NEW c \in Call, phase[c] # "returned"
        PROVE  outcomes[c] \subseteq {"transient", "aborted"} /\ "final" \notin outcomes[c]
    BY <1>u, <1>t DEF ResultJustified
  <1>1. ASSUME NEW c \in Call, PassOpenGate(c) PROVE RetriesUsed' /\ ResultJustified'
    <2>1. Return(c, "err") \/ (Enter(c, "fetching") /\ UNCHANGED result)
      BY <1>1 DEF PassOpenGate
    <2>2. UNCHANGED outcomes /\ phase[c] # "returned"
      BY <1>1 DEF PassOpenGate
    <2> QED
      BY <1>1, <2>1, <2>2, <1>r, <1>e, <1>p, <1>u DEF PassOpenGate
  <1>2. ASSUME NEW c \in Call, ReserveSlot(c) PROVE RetriesUsed' /\ ResultJustified'
    <2>1. Enter(c, "fetching") \/ Enter(c, "waiting")
      BY <1>2 DEF ReserveSlot
    <2>2. UNCHANGED outcomes /\ phase[c] # "returned"
      BY <1>2 DEF ReserveSlot
    <2> QED
      BY <1>2, <2>1, <2>2, <1>e, <1>p, <1>u DEF ReserveSlot
  <1>3. ASSUME NEW c \in Call, SlotComes(c) PROVE RetriesUsed' /\ ResultJustified'
    <2>1. UNCHANGED outcomes /\ phase[c] # "returned"
      BY <1>3 DEF SlotComes
    <2> QED
      BY <1>3, <2>1, <1>e, <1>p, <1>u DEF SlotComes
  <1>4. ASSUME NEW c \in Call, GiveUp(c) PROVE RetriesUsed' /\ ResultJustified'
    <2>1. UNCHANGED outcomes /\ phase[c] # "returned"
      BY <1>4 DEF GiveUp, Sleeping
    <2> QED
      BY <1>4, <2>1, <1>r, <1>p, <1>u DEF GiveUp
  <1>5. ASSUME NEW c \in Call, EndRequest(c) PROVE RetriesUsed' /\ ResultJustified'
    <2>0. UNCHANGED <<opts, ctxDone>> /\ phase[c] = "fetching"
      BY <1>5 DEF EndRequest
    <2>1. PICK outcome \in Outcome :
            /\ outcome = "aborted" => ctxDone
            /\ outcomes' = [outcomes EXCEPT ![c] = @ \cup {outcome}]
            /\ \/ outcome = "broken" /\ Return(c, "err") /\ UNCHANGED attempt
               \/ Retryable(outcome) /\ Return(c, "err") /\ UNCHANGED attempt
               \/ /\ Retryable(outcome) /\ RetriesLeft(c) /\ Enter(c, "backoff")
                  /\ UNCHANGED <<attempt, result>>
               \/ /\ Retryable(outcome) /\ Enter(c, "gate")
                  /\ attempt' = [attempt EXCEPT ![c] = @ + 1] /\ UNCHANGED result
               \/ /\ outcome # "broken" /\ ~(Retryable(outcome) /\ RetriesLeft(c))
                  /\ Return(c, outcome) /\ UNCHANGED attempt
      BY <1>5 DEF EndRequest
    <2>2. /\ \A d \in Call \ {c} : outcomes'[d] = outcomes[d]
          /\ outcomes'[c] = outcomes[c] \cup {outcome}
      BY <2>1, <1>t DEF TypeOK
    <2>3. outcomes[c] \subseteq {"transient", "aborted"}
      BY <2>0, <1>u
    <2>4. "final" \in outcomes'[c] => outcome = "final"
      BY <2>2, <2>3
    <2>5. Retryable(outcome) => outcomes'[c] \subseteq {"transient", "aborted"}
      BY <2>2, <2>3 DEF Retryable
    <2>6. Retryable(outcome) => outcome # "final"
      BY DEF Retryable
    <2>7. CASE (outcome = "broken" \/ Retryable(outcome)) /\ Return(c, "err") /\ UNCHANGED attempt
      <3>1. "final" \notin outcomes'[c]
        BY <2>4, <2>6, <2>7
      <3> QED
        BY <2>0, <2>2, <2>7, <3>1, <1>r, <1>p
    <2>8. CASE Retryable(outcome) /\ RetriesLeft(c) /\ Enter(c, "backoff") /\ UNCHANGED <<attempt, result>>
      BY <2>0, <2>2, <2>5, <2>8, <1>e, <1>p DEF RetriesLeft
    <2>9. CASE /\ Retryable(outcome) /\ Enter(c, "gate")
               /\ attempt' = [attempt EXCEPT ![c] = @ + 1] /\ UNCHANGED result
      <3>1. \A d \in Call \ {c} : attempt'[d] = attempt[d]
        BY <2>9, <1>t DEF TypeOK
      <3> QED
        BY <2>0, <2>2, <2>5, <2>9, <3>1, <1>e, <1>p
    <2>10. CASE /\ outcome # "broken" /\ ~(Retryable(outcome) /\ RetriesLeft(c))
                /\ Return(c, outcome) /\ UNCHANGED attempt
      <3>1. outcome \in Result
        BY <2>10 DEF Outcome, Result
      <3>2. outcome \in {"transient", "aborted"} => attempt[c] = opts.retries
        BY <2>10, <1>n DEF Retryable, RetriesLeft
      <3> QED
        BY <2>0, <2>1, <2>2, <2>4, <2>10, <3>1, <3>2, <1>r
    <2> QED
      BY <2>1, <2>7, <2>8, <2>9, <2>10
  <1>6. ASSUME NEW c \in Call, Retry(c) PROVE RetriesUsed' /\ ResultJustified'
    <2>1. \A d \in Call \ {c} : attempt'[d] = attempt[d]
      BY <1>6, <1>t DEF Retry, TypeOK
    <2>2. UNCHANGED outcomes /\ phase[c] # "returned"
      BY <1>6 DEF Retry
    <2> QED
      BY <1>6, <2>1, <2>2, <1>e, <1>p, <1>u DEF Retry
  <1>7. CASE Tick
    BY <1>7, <1>t DEF Tick, RetriesUsed, ResultJustified
  <1>8. CASE Cancel
    BY <1>8, <1>t DEF Cancel, RetriesUsed, ResultJustified
  <1>9. CASE UNCHANGED vars
    BY <1>9, <1>t DEF vars, RetriesUsed, ResultJustified
  <1> QED
    BY <1>1, <1>2, <1>3, <1>4, <1>5, <1>6, <1>7, <1>8, <1>9 DEF Next, CallStep, AllReturned

-----------------------------------------------------------------------------
(* The invariant and what follows from it. *)
LEMMA InitInv == Init => IInv
  <1> SUFFICES ASSUME Init PROVE IInv
    OBVIOUS
  <1>0. opts.interval \in Nat /\ opts.retries \in Nat
    BY SettingsAssumption DEF Init
  <1>1. TypeOK
    <2>1. slots \in Seq(Nat) /\ 0 \in 0..opts.retries
      BY <1>0 DEF Init
    <2> QED
      BY <2>1 DEF Init, TypeOK
  <1>2. SlotsApart
    BY DEF Init, SlotsApart
  <1>3. SlotsOwned
    BY DEF Init, SlotsOwned, Waiting
  <1>4. StartsHaveSlots
    <2>1. Spent = {}
      BY DEF Init, Spent
    <2> QED
      BY <2>1, FS_EmptySet DEF Init, StartsHaveSlots
  <1>5. RetriesUsed /\ ResultJustified
    BY DEF Init, RetriesUsed, ResultJustified
  <1> QED
    BY <1>1, <1>2, <1>3, <1>4, <1>5 DEF IInv

LEMMA StepInv == IInv /\ [Next]_vars => IInv'
  BY TypeInductive, SlotsStayApart, SlotsStayOwned, RetriesStayUsed DEF IInv

LEMMA IInvHolds == Spec => []IInv
  BY InitInv, StepInv, PTL DEF Spec

(* Every variable keeps its type; in particular no call tries more often   *)
(* than --retries allows, and every slot of the gate is a point in time.   *)
THEOREM TypeCorrect == Spec => []TypeOK
  <1>1. IInv => TypeOK
    BY DEF IInv
  <1> QED
    BY <1>1, IInvHolds, PTL

(* The rate limit of the gate: slots are one interval apart, and no more   *)
(* requests have started than slots have come, for any number of           *)
(* goroutines and any length of the crawl.                                 *)
THEOREM RateIsKept == Spec => []RateKept
  <1>1. IInv => RateKept
    <2> SUFFICES ASSUME IInv, opts.interval > 0
                 PROVE  /\ \A i, j \in 1..Len(slots) : i < j => slots[j] - slots[i] >= opts.interval
                        /\ started <= Cardinality({i \in 1..Len(slots) : slots[i] <= now})
      BY DEF RateKept
    <2> DEFINE Come == {i \in 1..Len(slots) : slots[i] <= now}
    <2>1. Len(slots) \in Nat /\ started \in Nat
      BY Clock DEF IInv
    <2>2. Spent \subseteq Come /\ Come \in SUBSET (1..Len(slots))
      BY DEF Spent
    <2>3. Cardinality(Spent) \in Nat /\ Cardinality(Come) \in Nat /\ Cardinality(Spent) <= Cardinality(Come)
      BY <2>1, <2>2, NoFewer
    <2>4. started <= Cardinality(Spent)
      BY DEF IInv, StartsHaveSlots
    <2>5. started <= Cardinality(Come)
      BY <2>1, <2>3, <2>4
    <2> QED
      BY <2>5 DEF IInv, SlotsApart
  <1> QED
    BY <1>1, IInvHolds, PTL

(* What fetchWithRetries returns: an error a retry could cure only after   *)
(* the last retry, an aborted request only under a cancelled context, a    *)
(* final result as soon as there is one.                                   *)
THEOREM ResultIsJustified == Spec => []ResultJustified
  <1>1. IInv => ResultJustified
    BY DEF IInv
  <1> QED
    BY <1>1, IInvHolds, PTL
=============================================================================
