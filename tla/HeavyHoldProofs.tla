--------------------------- MODULE HeavyHoldProofs ---------------------------
(***************************************************************************)
(* For any nodes, consumers, slots and requests: where no session outlasts *)
(* the hold's TTL, the counters are exact and heavies of two consumers are *)
(* never together on a node, whatever happens on the slow nodes.           *)
(***************************************************************************)
EXTENDS HeavyHold, FiniteSetTheorems, TLAPS

\* The hold on a node belongs to each of its live heavies, and is young.
HoldOwned ==
    \A r \in Heavy : held[r] \in Nodes \ Slow =>
       heavy_owner[held[r]] = Owner[r] /\ heavy_since[held[r]] = "young"

IInv == TypeOK /\ CountersExact /\ HoldOwned /\ HeavyAlone

-----------------------------------------------------------------------------

\* The sessions live on a node are finitely many, and a counter that is
\* exact is zero just when there is none.
LEMMA LiveFinite ==
    ASSUME NEW n
    PROVE  /\ IsFiniteSet(Live(n)) /\ IsFiniteSet(Live(n) \cap Heavy)
           /\ Cardinality(Live(n)) \in Nat /\ Cardinality(Live(n) \cap Heavy) \in Nat
           /\ Cardinality(Live(n) \cap Heavy) = 0 => Live(n) \cap Heavy = {}
<1>1. Live(n) \subseteq Requests /\ Live(n) \cap Heavy \subseteq Requests
  BY Zenon DEF Live
<1>2. IsFiniteSet(Live(n)) /\ IsFiniteSet(Live(n) \cap Heavy)
  BY <1>1, RequestAssumption, FS_Subset, Zenon
<1> QED BY <1>2, FS_CardinalityType, FS_EmptySet, Zenon

\* A node whose sessions a step leaves alone keeps them.
LEMMA LiveKept ==
    ASSUME UNCHANGED held, NEW n
    PROVE  Live(n)' = Live(n)
BY Zenon DEF Live

\* The initial state satisfies the inductive invariant.
LEMMA InitIInv == Init => IInv
<1> SUFFICES ASSUME Init PROVE IInv
  OBVIOUS
<1>1. TypeOK
  BY SlotAssumption, Zenon DEF Init, TypeOK
<1>2. \A n \in Nodes : Live(n) = {} /\ Live(n) \cap Heavy = {}
  BY NodeAssumption, Zenon DEF Init, Live
<1>3. CountersExact
  BY <1>2, FS_EmptySet, Zenon DEF Init, CountersExact
<1>4. HoldOwned /\ HeavyAlone
  BY RequestAssumption, NodeAssumption, Zenon DEF Init, HoldOwned, HeavyAlone
<1> QED BY <1>1, <1>3, <1>4, Zenon DEF IInv

\* With no session past the TTL, no live hold is expired by admit.
LEMMA NoneExpires ==
    ASSUME IInv, NEW r \in Requests, NEW n \in Nodes \ Slow
    PROVE  ~Expires(r, n)
<1> SUFFICES ASSUME Expires(r, n) PROVE FALSE
  OBVIOUS
<1>1. heavy[n] # 0 /\ heavy_since[n] = "old"
  BY DEF Expires, IInv, TypeOK
<1>2. Live(n) \cap Heavy # {}
  BY <1>1, FS_EmptySet, Zenon DEF IInv, CountersExact
<1>3. PICK q \in Heavy : held[q] = n
  BY <1>2, Zenon DEF Live
<1> QED BY <1>1, <1>3, Zenon DEF IInv, HoldOwned

\* A step that touches one slow node, and at most one of its sessions, keeps
\* the invariant, which says nothing of that node.
LEMMA SlowStep ==
    ASSUME IInv, TypeOK', NEW n \in Slow, NEW r \in Requests,
           \A q \in Requests : held'[q] = held[q] \/ (held[q] \in {n, None} /\ held'[q] \in {n, None}),
           \A m \in Nodes \ {n} :
              /\ total'[m] = total[m] /\ heavy'[m] = heavy[m]
              /\ heavy_owner'[m] = heavy_owner[m] /\ heavy_since'[m] = heavy_since[m]
    PROVE  IInv'
<1>1. \A m \in Nodes \ Slow : Live(m)' = Live(m)
  BY NodeAssumption, Zenon DEF Live
<1>2. CountersExact'
  BY <1>1, Zenon DEF IInv, CountersExact
<1>3. \A q \in Heavy : held'[q] \in Nodes \ Slow => held'[q] = held[q]
  BY RequestAssumption, NodeAssumption, Zenon
<1>4. HoldOwned'
  BY <1>3 DEF IInv, HoldOwned
<1>5. HeavyAlone'
  BY <1>3 DEF IInv, HeavyAlone
<1> QED BY <1>2, <1>4, <1>5, Zenon DEF IInv

\* admit keeps the types, also when it expires a hold.
LEMMA AdmitType ==
    ASSUME TypeOK, NEW r \in Requests, NEW n \in Nodes, admit(r, n)
    PROVE  TypeOK'
<1>1. Accounted(r, n) \in Nat
  BY Zenon DEF Accounted, TypeOK
<1>2. held' \in [Requests -> Nodes \cup {None}] /\ total' \in [Nodes -> Nat]
  BY <1>1 DEF admit, TypeOK
<1>3. /\ heavy' \in [Nodes -> Nat]
      /\ heavy_since' \in [Nodes -> {"none", "young", "old"}]
      /\ heavy_owner' \in [Nodes -> Owners \cup {None}]
  BY DEF admit, Hold, TypeOK, Owners
<1>4. busy_excess_since' \in [Nodes -> {"none", "young", "sampled", "old"}]
  BY Zenon DEF admit, ObserveExcess, TypeOK
<1>5. UNCHANGED <<listed, backend_slots_busy, external>>
  BY Zenon DEF admit
<1> QED BY <1>2, <1>3, <1>4, <1>5, Zenon DEF TypeOK

\* admit keeps the invariant: the new session is counted once, and a heavy
\* joins only its own consumer's hold.
LEMMA AdmitStep ==
    ASSUME IInv, NEW r \in Requests, NEW n \in Nodes \ Slow, admit(r, n)
    PROVE  IInv'
<1>1. ~Expires(r, n) /\ Accounted(r, n) = total[n]
  BY NoneExpires, Zenon DEF Accounted
<1>2. held[r] = None /\ held' = [held EXCEPT ![r] = n]
  BY Zenon DEF admit
<1>3. total' = [total EXCEPT ![n] = total[n] + 1]
  BY <1>1, Zenon DEF admit
<1>4. r \in Heavy =>
        /\ heavy' = [heavy EXCEPT ![n] = heavy[n] + 1]
        /\ heavy_owner' = IF heavy[n] = 0 THEN [heavy_owner EXCEPT ![n] = Owner[r]]
                          ELSE heavy_owner
        /\ heavy_since' = [heavy_since EXCEPT ![n] = "young"]
  BY <1>1, Zenon DEF admit, Hold
<1>5. r \notin Heavy => UNCHANGED <<heavy, heavy_owner, heavy_since>>
  BY Zenon DEF admit, Hold
<1>6. TypeOK'
  BY AdmitType, Zenon DEF IInv
<1>7. Live(n)' = Live(n) \cup {r} /\ r \notin Live(n)
  BY <1>2, NodeAssumption DEF Live, IInv, TypeOK
<1>8. \A m \in Nodes \ {n} : Live(m)' = Live(m)
  BY <1>2, NodeAssumption, Zenon DEF Live, IInv, TypeOK
<1>9. CountersExact'
  <2>1. Cardinality(Live(n)') = Cardinality(Live(n)) + 1
    BY <1>7, LiveFinite, FS_AddElement, Zenon
  <2>2. total'[n] = Cardinality(Live(n)')
    BY <2>1, <1>3, Zenon DEF IInv, TypeOK, CountersExact
  <2>3. heavy'[n] = Cardinality(Live(n)' \cap Heavy)
    <3>1. CASE r \in Heavy
      <4>1. Live(n)' \cap Heavy = (Live(n) \cap Heavy) \cup {r} /\ r \notin Live(n) \cap Heavy
        BY <1>7, <3>1, Zenon
      <4>2. Cardinality(Live(n)' \cap Heavy) = Cardinality(Live(n) \cap Heavy) + 1
        BY <4>1, LiveFinite, FS_AddElement, Zenon
      <4> QED BY <4>2, <3>1, <1>4 DEF IInv, TypeOK, CountersExact
    <3>2. CASE r \notin Heavy
      <4>1. Live(n)' \cap Heavy = Live(n) \cap Heavy
        BY <1>7, <3>2, Zenon
      <4> QED BY <4>1, <3>2, <1>5, Zenon DEF IInv, CountersExact
    <3> QED BY <3>1, <3>2, Zenon
  <2>4. \A m \in Nodes \ {n} : total'[m] = total[m] /\ heavy'[m] = heavy[m]
    BY <1>3, <1>4, <1>5, Zenon DEF IInv, TypeOK
  <2> QED BY <2>2, <2>3, <2>4, <1>8 DEF IInv, CountersExact
<1>10. CASE r \notin Heavy
  <2>1. \A q \in Heavy : held'[q] = held[q]
    BY <1>2, <1>10, RequestAssumption, Zenon DEF IInv, TypeOK
  <2>2. HoldOwned'
    BY <2>1, <1>5, <1>10, Zenon DEF IInv, HoldOwned
  <2>3. HeavyAlone'
    BY <2>1, Zenon DEF IInv, HeavyAlone
  <2> QED BY <1>6, <1>9, <2>2, <2>3, Zenon DEF IInv
<1>11. CASE r \in Heavy
  <2>1. \A q \in Heavy \ {r} : held'[q] = held[q]
    BY <1>2, RequestAssumption, Zenon DEF IInv, TypeOK
  <2>2. held'[r] = n
    BY <1>2, Zenon DEF IInv, TypeOK
  <2>3. ASSUME NEW q \in Heavy, held[q] = n
        PROVE  Owner[q] = Owner[r] /\ Owner[r] # None /\ heavy_owner[n] = Owner[r] /\ heavy[n] # 0
    <3>1. q \in Live(n) \cap Heavy
      BY <2>3, RequestAssumption, Zenon DEF Live
    <3>2. heavy[n] # 0
      BY <3>1, LiveFinite, Zenon DEF IInv, CountersExact
    <3>3. heavy[n] > 0
      BY <3>2 DEF IInv, TypeOK
    <3>4. heavy_owner[n] = Owner[q] /\ heavy_since[n] = "young"
      BY <2>3, Zenon DEF IInv, HoldOwned
    <3>5. Owner[r] # None /\ heavy_owner[n] = Owner[r]
      BY <1>11, <3>3, <3>4, Zenon DEF admit, Contended
    <3> QED BY <3>2, <3>4, <3>5, Zenon
  <2>4. heavy_owner'[n] = Owner[r] /\ heavy_since'[n] = "young"
    <3>1. CASE heavy[n] = 0
      BY <3>1, <1>4, <1>11, Zenon DEF IInv, TypeOK
    <3>2. CASE heavy[n] # 0
      <4>1. Live(n) \cap Heavy # {}
        BY <3>2, FS_EmptySet, Zenon DEF IInv, CountersExact
      <4>2. PICK q \in Heavy : held[q] = n
        BY <4>1 DEF Live
      <4> QED BY <4>2, <2>3, <3>2, <1>4, <1>11, Zenon DEF IInv, TypeOK
    <3> QED BY <3>1, <3>2, Zenon
  <2>5. \A m \in Nodes \ {n} : heavy_owner'[m] = heavy_owner[m] /\ heavy_since'[m] = heavy_since[m]
    BY <1>4, <1>11 DEF IInv, TypeOK
  <2>6. HoldOwned'
    <3> SUFFICES ASSUME NEW q \in Heavy, held'[q] \in Nodes \ Slow
                 PROVE  heavy_owner'[held'[q]] = Owner[q] /\ heavy_since'[held'[q]] = "young"
      BY Zenon DEF HoldOwned
    <3>1. CASE q = r
      BY <3>1, <2>2, <2>4, Zenon
    <3>2. CASE q # r /\ held[q] = n
      BY <3>2, <2>1, <2>3, <2>4, Zenon
    <3>3. CASE q # r /\ held[q] # n
      <4>1. held[q] \in (Nodes \ Slow) \ {n} /\ held'[q] = held[q]
        BY <3>3, <2>1, Zenon
      <4> QED BY <4>1, <2>5 DEF IInv, HoldOwned
    <3> QED BY <3>1, <3>2, <3>3, Zenon
  <2>7. HeavyAlone'
    BY <2>1, <2>2, <2>3 DEF IInv, HeavyAlone
  <2> QED BY <1>6, <1>9, <2>6, <2>7 DEF IInv
<1> QED BY <1>10, <1>11, Zenon

\* dec_in_flight keeps the types: its counters stop at zero.
LEMMA ReleaseType ==
    ASSUME TypeOK, NEW r \in Requests, dec_in_flight(r)
    PROVE  TypeOK'
<1>0. PICK n \in Nodes : n = held[r]
  BY Zenon DEF dec_in_flight, TypeOK
<1>1. held' \in [Requests -> Nodes \cup {None}]
  BY Zenon DEF dec_in_flight, TypeOK
<1>2. Less(total[n]) \in Nat /\ total' = [total EXCEPT ![n] = Less(total[n])]
  BY <1>0 DEF dec_in_flight, Less, TypeOK
<1>3. total' \in [Nodes -> Nat]
  BY <1>2, Zenon DEF TypeOK
<1>4. heavy' \in [Nodes -> Nat]
  <2>1. CASE r \in Heavy /\ ~(heavy[n] <= 1)
    <3>1. heavy' = [heavy EXCEPT ![n] = heavy[n] - 1] /\ heavy[n] - 1 \in Nat
      BY <1>0, <2>1 DEF dec_in_flight, LastHeavy, TypeOK
    <3> QED BY <3>1, Zenon DEF TypeOK
  <2>2. CASE ~(r \in Heavy /\ ~(heavy[n] <= 1))
    BY <1>0, <2>2, Zenon DEF dec_in_flight, LastHeavy, TypeOK
  <2> QED BY <2>1, <2>2, Zenon
<1>5. /\ heavy_since' \in [Nodes -> {"none", "young", "old"}]
      /\ heavy_owner' \in [Nodes -> Owners \cup {None}]
  BY Zenon DEF dec_in_flight, TypeOK
<1>6. busy_excess_since' \in [Nodes -> {"none", "young", "sampled", "old"}]
  BY DEF dec_in_flight, release_echo_reanchor, TypeOK
<1>7. UNCHANGED <<listed, backend_slots_busy, external>>
  BY Zenon DEF dec_in_flight
<1> QED BY <1>1, <1>3, <1>4, <1>5, <1>6, <1>7, Zenon DEF TypeOK

\* dec_in_flight keeps the invariant: what the release subtracts is what the
\* admission added, and only the last heavy's release ends the hold.
LEMMA ReleaseStep ==
    ASSUME IInv, NEW r \in Requests, NEW n \in Nodes \ Slow, n = held[r], dec_in_flight(r)
    PROVE  IInv'
<1>0. n = held[r]
  OBVIOUS
<1>1. n \in Nodes /\ r \in Live(n)
  BY <1>0, Zenon DEF Live
<1>2. held' = [held EXCEPT ![r] = None] /\ total' = [total EXCEPT ![n] = Less(total[n])]
  BY <1>0, Zenon DEF dec_in_flight
<1>3. Live(n)' = Live(n) \ {r} /\ \A m \in Nodes \ {n} : Live(m)' = Live(m)
  BY <1>1, <1>2, NodeAssumption, Zenon DEF Live, IInv, TypeOK
<1>4. total[n] # 0 /\ total'[n] = total[n] - 1 /\ total' \in [Nodes -> Nat]
  <2>1. total[n] # 0
    BY <1>1, LiveFinite, FS_EmptySet, Zenon DEF IInv, CountersExact
  <2> QED BY <2>1, <1>1, <1>2 DEF Less, IInv, TypeOK
<1>5. total'[n] = Cardinality(Live(n)')
  <2>1. Cardinality(Live(n)') = Cardinality(Live(n)) - 1
    <3>1. IsFiniteSet(Live(n))
      BY LiveFinite, Zenon
    <3>2. Cardinality(Live(n) \ {r}) = Cardinality(Live(n)) - 1
      BY <1>1, <3>1, FS_RemoveElement, Zenon
    <3> QED BY <1>3, <3>2, Zenon
  <2> QED BY <2>1, <1>1, <1>4, Zenon DEF IInv, CountersExact
<1>6. r \in Heavy =>
        /\ heavy[n] # 0
        /\ Cardinality(Live(n)' \cap Heavy) = heavy[n] - 1
  <2> SUFFICES ASSUME r \in Heavy
               PROVE  heavy[n] # 0 /\ Cardinality(Live(n)' \cap Heavy) = heavy[n] - 1
    OBVIOUS
  <2>1. r \in Live(n) \cap Heavy /\ Live(n)' \cap Heavy = (Live(n) \cap Heavy) \ {r}
    BY <1>1, <1>3, Zenon
  <2>2. Cardinality(Live(n)' \cap Heavy) = Cardinality(Live(n) \cap Heavy) - 1
    <3>1. IsFiniteSet(Live(n) \cap Heavy)
      BY LiveFinite, Zenon
    <3> QED BY <2>1, <3>1, FS_RemoveElement
  <2>3. Cardinality(Live(n) \cap Heavy) # 0
    BY <2>1, LiveFinite, Zenon
  <2> QED BY <2>2, <2>3, <1>1, Zenon DEF IInv, CountersExact
<1>7. r \notin Heavy => heavy' = heavy /\ Live(n)' \cap Heavy = Live(n) \cap Heavy
  BY <1>0, <1>3, Zenon DEF dec_in_flight, LastHeavy
<1>8. r \in Heavy => heavy' = [heavy EXCEPT ![n] = heavy[n] - 1]
  <2>1. r \in Heavy /\ heavy[n] <= 1 => heavy' = [heavy EXCEPT ![n] = 0] /\ heavy[n] - 1 = 0
    BY <1>0, <1>6 DEF dec_in_flight, LastHeavy, IInv, TypeOK
  <2>2. r \in Heavy /\ ~(heavy[n] <= 1) => heavy' = [heavy EXCEPT ![n] = heavy[n] - 1]
    BY <1>0, Zenon DEF dec_in_flight, LastHeavy
  <2> QED BY <2>1, <2>2, Zenon
<1>9. heavy' \in [Nodes -> Nat] /\ heavy'[n] = Cardinality(Live(n)' \cap Heavy)
  BY <1>1, <1>6, <1>7, <1>8 DEF IInv, TypeOK, CountersExact
<1>10. CountersExact'
  <2>1. \A m \in Nodes \ {n} : total'[m] = total[m] /\ heavy'[m] = heavy[m]
    BY <1>2, <1>7, <1>8, Zenon DEF IInv, TypeOK
  <2>2. \A m \in (Nodes \ Slow) \ {n} :
           total'[m] = Cardinality(Live(m)') /\ heavy'[m] = Cardinality(Live(m)' \cap Heavy)
    BY <2>1, <1>3 DEF IInv, CountersExact
  <2> QED BY <2>2, <1>5, <1>9, Zenon DEF CountersExact
<1>11. TypeOK'
  BY ReleaseType, Zenon DEF IInv
<1>12. \A q \in Heavy : held'[q] \in Nodes => q # r /\ held'[q] = held[q]
  BY <1>2, RequestAssumption, NodeAssumption, Zenon DEF IInv, TypeOK
<1>13. HeavyAlone'
  BY <1>12, Zenon DEF IInv, HeavyAlone
<1>14. HoldOwned'
  <2> SUFFICES ASSUME NEW q \in Heavy, held'[q] \in Nodes \ Slow
               PROVE  heavy_owner'[held'[q]] = Owner[q] /\ heavy_since'[held'[q]] = "young"
    BY Zenon DEF HoldOwned
  <2>1. q # r /\ held'[q] = held[q] /\ held[q] \in Nodes \ Slow
    BY <1>12, Zenon
  <2>2. heavy_owner[held[q]] = Owner[q] /\ heavy_since[held[q]] = "young"
    BY <2>1, Zenon DEF IInv, HoldOwned
  <2>3. CASE held[q] = n
    <3>1. q \in Live(n)' \cap Heavy
      BY <1>3, <2>1, <2>3, RequestAssumption, Zenon DEF Live
    <3>2. Cardinality(Live(n)' \cap Heavy) # 0
      <4>1. IsFiniteSet(Live(n)' \cap Heavy)
        BY <1>3, LiveFinite, FS_Subset, Zenon
      <4> QED BY <3>1, <4>1, FS_EmptySet, Zenon
    <3>3. ~LastHeavy(r, n)
      BY <3>2, <1>1, <1>6 DEF LastHeavy, IInv, TypeOK
    <3>4. UNCHANGED <<heavy_owner, heavy_since>>
      BY <1>0, <3>3, Zenon DEF dec_in_flight
    <3> QED BY <3>4, <2>1, <2>2, Zenon
  <2>4. CASE held[q] # n
    <3>1. heavy_owner'[held[q]] = heavy_owner[held[q]] /\ heavy_since'[held[q]] = heavy_since[held[q]]
      BY <1>0, <2>1, <2>4, Zenon DEF dec_in_flight, IInv, TypeOK
    <3> QED BY <3>1, <2>1, <2>2, Zenon
  <2> QED BY <2>3, <2>4, Zenon
<1> QED BY <1>10, <1>11, <1>13, <1>14, Zenon DEF IInv

\* The steps that change no session and no counter keep the invariant once
\* they keep the types.
LEMMA CountersKept ==
    ASSUME IInv, UNCHANGED <<held, total, heavy, heavy_since, heavy_owner>>, TypeOK'
    PROVE  IInv'
<1>1. \A n \in Nodes : Live(n)' = Live(n)
  BY LiveKept, Zenon
<1>2. CountersExact'
  BY <1>1, Zenon DEF IInv, CountersExact
<1>3. HoldOwned' /\ HeavyAlone'
  BY Zenon DEF IInv, HoldOwned, HeavyAlone
<1> QED BY <1>2, <1>3, Zenon DEF IInv

\* Reports, removals, time and the node's other clients keep the invariant;
\* the hold ages only when its sessions are gone.
LEMMA NodeStep ==
    ASSUME IInv, NEW n \in Nodes,
           \/ upsert_device(n) \/ remove_device(n)
           \/ ExcessAges(n) \/ HoldAges(n) \/ External(n)
    PROVE  IInv'
<1>1. CASE upsert_device(n)
  <2>1. PICK busy \in external[n]..(external[n] + Cardinality(Live(n))) :
          /\ listed' = [listed EXCEPT ![n] = TRUE]
          /\ backend_slots_busy' = [backend_slots_busy EXCEPT ![n] = busy]
          /\ busy_excess_since' = [busy_excess_since EXCEPT ![n] =
                IF busy_excess_since[n] = "young" THEN "sampled" ELSE busy_excess_since[n]]
          /\ UNCHANGED <<held, counters, external>>
    BY <1>1, Zenon DEF upsert_device
  <2>2. busy \in Nat
    BY <2>1, SlotAssumption, LiveFinite DEF IInv, TypeOK
  <2>3. TypeOK'
    BY <2>1, <2>2, Zenon DEF IInv, TypeOK, counters
  <2> QED BY <2>1, <2>3, CountersKept, Zenon DEF counters
<1>2. CASE remove_device(n)
  <2>1. TypeOK'
    BY <1>2, Zenon DEF remove_device, IInv, TypeOK, counters
  <2> QED BY <1>2, <2>1, CountersKept, Zenon DEF remove_device, counters
<1>3. CASE ExcessAges(n)
  <2>1. TypeOK'
    BY <1>3, Zenon DEF ExcessAges, IInv, TypeOK, counters
  <2> QED BY <1>3, <2>1, CountersKept, Zenon DEF ExcessAges, counters
<1>4. CASE HoldAges(n)
  <2>1. TypeOK'
    BY <1>4, Zenon DEF HoldAges, IInv, TypeOK, device
  <2>2. \A m \in Nodes \ {n} : heavy_since'[m] = heavy_since[m]
    BY <1>4, Zenon DEF HoldAges, IInv, TypeOK
  <2>3. CASE n \in Slow
    <3>1. ASSUME NEW r \in Requests PROVE IInv'
      BY <1>4, <2>1, <2>2, <2>3, <3>1, SlowStep, Zenon DEF HoldAges
    <3>2. CASE Requests = {}
      <4>1. Heavy = {} /\ \A m \in Nodes : Live(m)' = Live(m)
        BY <3>2, RequestAssumption, Zenon DEF Live
      <4> QED BY <1>4, <2>1, <4>1, Zenon DEF HoldAges, IInv, CountersExact, HoldOwned, HeavyAlone
    <3> QED BY <3>1, <3>2, Zenon
  <2>4. CASE n \notin Slow
    <3>1. CountersExact'
      <4>1. \A m \in Nodes : Live(m)' = Live(m)
        BY <1>4, LiveKept, Zenon DEF HoldAges
      <4> QED BY <4>1, <1>4, Zenon DEF HoldAges, IInv, CountersExact
    <3>2. HeavyAlone'
      BY <1>4, Zenon DEF HoldAges, IInv, HeavyAlone
    <3>3. \A q \in Heavy : held[q] # n
      BY <1>4, <2>4, RequestAssumption, Zenon DEF HoldAges, Live
    <3>4. HoldOwned'
      BY <1>4, <3>3, <2>2 DEF HoldAges, IInv, HoldOwned
    <3> QED BY <2>1, <3>1, <3>2, <3>4, Zenon DEF IInv
  <2> QED BY <2>3, <2>4, Zenon
<1>5. CASE External(n)
  <2>1. TypeOK'
    BY <1>5 DEF External, IInv, TypeOK, counters, device
  <2> QED BY <1>5, <2>1, CountersKept, Zenon DEF External, counters
<1> QED BY <1>1, <1>2, <1>3, <1>4, <1>5, Zenon

\* A refusal that expires a hold happens on slow nodes only, and keeps the
\* invariant.
LEMMA RefusedStep ==
    ASSUME IInv, NEW r \in Requests, NEW n \in Nodes, admit_refused(r, n)
    PROVE  IInv'
<1>1. n \in Slow
  BY NoneExpires, Zenon DEF admit_refused
<1>2. TypeOK'
  BY Zenon DEF admit_refused, device, IInv, TypeOK
<1>3. \A m \in Nodes \ {n} :
        /\ total'[m] = total[m] /\ heavy'[m] = heavy[m]
        /\ heavy_owner'[m] = heavy_owner[m] /\ heavy_since'[m] = heavy_since[m]
  BY Zenon DEF admit_refused, IInv, TypeOK
<1> QED BY <1>1, <1>2, <1>3, SlowStep, Zenon DEF admit_refused

\* An admission or a release on a slow node touches only that node.
LEMMA SlowSessions ==
    ASSUME IInv, NEW r \in Requests, NEW n \in Slow,
           admit(r, n) \/ (held[r] = n /\ dec_in_flight(r))
    PROVE  IInv'
<1> n \in Nodes
  BY NodeAssumption, Zenon
<1>1. TypeOK'
  BY AdmitType, ReleaseType, Zenon DEF IInv
<1>2. \A q \in Requests :
         held'[q] = held[q] \/ (held[q] \in {n, None} /\ held'[q] \in {n, None})
  BY Zenon DEF admit, dec_in_flight, IInv, TypeOK
<1>3. \A m \in Nodes \ {n} :
        /\ total'[m] = total[m] /\ heavy'[m] = heavy[m]
        /\ heavy_owner'[m] = heavy_owner[m] /\ heavy_since'[m] = heavy_since[m]
  <2>1. CASE admit(r, n)
    BY <2>1 DEF admit, Hold, IInv, TypeOK
  <2>2. CASE held[r] = n /\ dec_in_flight(r)
    BY <2>2 DEF dec_in_flight, IInv, TypeOK
  <2> QED BY <2>1, <2>2, Zenon
<1> QED BY <1>1, <1>2, <1>3, SlowStep, Zenon

\* The inductive invariant is kept by every step.
LEMMA NextIInv == IInv /\ [Next]_vars => IInv'
<1> SUFFICES ASSUME IInv, [Next]_vars PROVE IInv'
  OBVIOUS
<1>1. ASSUME NEW r \in Requests, NEW n \in Eligible[r], admit(r, n) \/ admit_refused(r, n)
      PROVE  IInv'
  <2>1. n \in Nodes
    BY NodeAssumption, Zenon
  <2> QED BY <1>1, <2>1, AdmitStep, SlowSessions, RefusedStep, Zenon
<1>2. ASSUME NEW r \in Requests, dec_in_flight(r)
      PROVE  IInv'
  <2>1. PICK n \in Nodes : n = held[r]
    BY <1>2, Zenon DEF dec_in_flight, IInv, TypeOK
  <2> QED BY <1>2, <2>1, ReleaseStep, SlowSessions, Zenon
<1>3. ASSUME NEW n \in Nodes,
             \/ upsert_device(n) \/ remove_device(n)
             \/ ExcessAges(n) \/ HoldAges(n) \/ External(n)
      PROVE  IInv'
  BY <1>3, NodeStep, Zenon
<1>4. CASE UNCHANGED vars
  <2>1. TypeOK'
    BY <1>4, Zenon DEF vars, counters, device, IInv, TypeOK
  <2> QED BY <1>4, <2>1, CountersKept, Zenon DEF vars, counters
<1> QED BY <1>1, <1>2, <1>3, <1>4, Zenon DEF Next

\* The unsigned counters of InFlight never wrap on any node, also where holds
\* expire under sessions that are released later.
THEOREM CountersNeverWrap == Spec => []TypeOK
<1>1. IInv => TypeOK
  BY Zenon DEF IInv
<1> QED BY InitIInv, NextIInv, <1>1, PTL DEF Spec

\* Where the stream cap ends sessions before the TTL, the counters that
\* admission and the scheduler read are those of the live sessions, however
\* the sessions overlap and whatever expires on slower nodes.
THEOREM CountersAreExact == Spec => []CountersExact
<1>1. IInv => CountersExact
  BY Zenon DEF IInv
<1> QED BY InitIInv, NextIInv, <1>1, PTL DEF Spec

\* Where the stream cap ends sessions before the TTL, the heavy hold does
\* what #247 asks of it: no two consumers have heavies on one node at a time.
THEOREM HeaviesAlone == Spec => []HeavyAlone
<1>1. IInv => HeavyAlone
  BY Zenon DEF IInv
<1> QED BY InitIInv, NextIInv, <1>1, PTL DEF Spec
=============================================================================
