----------------------------- MODULE NodeProofs -----------------------------
(***************************************************************************)
(* Proofs about the supply node, for any number of sessions, private       *)
(* requests, permits, models, loads and unloads: the permits and the       *)
(* gauges of NodeServing are exact, and a swap never keeps two             *)
(* llama-server subprocesses (ModelSwap).                                  *)
(*                                                                         *)
(* CountsExact is not inductive: a permit is handed to the first in line,  *)
(* and nothing in it says that this one holds none yet, is in line once    *)
(* and is still there to drop it.  InLine says so, and PinsOwn that a      *)
(* private request releases a permit it has.                               *)
(*                                                                         *)
(* OneSubprocess is not inductive either: Commit makes the new supervisor  *)
(* the node's and would leave a second load that is under way beside it,   *)
(* and an unload drops the old supervisor only.  What rules both out is    *)
(* the write lock: a supervisor that is not committed belongs to a load    *)
(* that holds the lock, one load holds it at a time, and while it does the *)
(* node has no other supervisor (UnderTheLock, OneWriter).                 *)
(***************************************************************************)
EXTENDS NodeServing, FiniteSetTheorems, TLAPS

Clients == Sessions \cup Pins

Members(w) == {w[i] : i \in DOMAIN w}

Distinct(w) == \A i, j \in DOMAIN w : w[i] = w[j] => i = j

Waits(r) == IF r \in Pins THEN pin[r] = "waiting" ELSE task[r] = "queued"

Typed ==
    /\ task \in [Sessions -> TaskStates]
    /\ pin \in [Pins -> PinStates]

SemaphoreTyped ==
    /\ permits \in Nat
    /\ waiting \in Seq(Clients)
    /\ holding \subseteq Clients

\* Who waits waits once, and holds no permit.
InLine ==
    /\ Distinct(waiting)
    /\ \A r \in Members(waiting) : r \notin holding /\ Waits(r)

PinsOwn == \A p \in Pins : pin[p] = "serving" => p \in holding

SemaphoreInv == SemaphoreTyped /\ PermitsConserved /\ InLine /\ PinsOwn

GaugeInv ==
    /\ guard \subseteq Sessions /\ queue_depth \in Nat
    /\ QueueDepthExact /\ IdleNotGenerating

IInv == Typed /\ SemaphoreInv /\ GaugeInv

\* The strengthening gives the property.
LEMMA StrongEnough == IInv => CountsExact
  BY DEF IInv, SemaphoreInv, GaugeInv, CountsExact

\* Who waits will drop the permit it is handed.
LEMMA WaitsLive ==
    ASSUME NEW r PROVE Waits(r) => Live(r)
  BY DEF Waits, Live

\* A new waiter goes to the end of the FIFO.
LEMMA AppendLine ==
    ASSUME NEW w \in Seq(Clients), Distinct(w), NEW r \in Clients, r \notin Members(w)
    PROVE  /\ Append(w, r) \in Seq(Clients) /\ Distinct(Append(w, r))
           /\ Members(Append(w, r)) \subseteq Members(w) \cup {r}
  <1>1. /\ DOMAIN w = 1 .. Len(w) /\ DOMAIN Append(w, r) = 1 .. Len(w) + 1
        /\ Append(w, r)[Len(w) + 1] = r /\ \A i \in 1 .. Len(w) : Append(w, r)[i] = w[i]
        /\ Append(w, r) \in Seq(Clients) /\ Len(w) \in Nat
    OBVIOUS
  <1>2. \A i \in 1 .. Len(w) : w[i] # r
    BY <1>1 DEF Members
  <1>3. \A i \in 1 .. Len(w) + 1 : i \in 1 .. Len(w) \/ i = Len(w) + 1
    BY <1>1
  <1>4. Distinct(Append(w, r))
    BY <1>1, <1>2, <1>3 DEF Distinct
  <1>5. Members(Append(w, r)) \subseteq Members(w) \cup {r}
    BY <1>1, <1>3 DEF Members
  <1> QED
    BY <1>1, <1>4, <1>5

\* The first waiter leaves the FIFO to the others.
LEMMA TailLine ==
    ASSUME NEW w \in Seq(Clients), Distinct(w), w # <<>>
    PROVE  /\ Tail(w) \in Seq(Clients) /\ Distinct(Tail(w))
           /\ Head(w) \in Members(w)
           /\ Members(Tail(w)) \subseteq Members(w) \ {Head(w)}
  <1>1. /\ DOMAIN w = 1 .. Len(w) /\ DOMAIN Tail(w) = 1 .. Len(w) - 1
        /\ Head(w) = w[1] /\ \A i \in 1 .. Len(w) - 1 : Tail(w)[i] = w[i + 1]
        /\ Tail(w) \in Seq(Clients) /\ Len(w) \in Nat /\ Len(w) > 0
    OBVIOUS
  <1>2. Distinct(Tail(w))
    BY <1>1 DEF Distinct
  <1>3. Head(w) \in Members(w)
    BY <1>1 DEF Members
  <1>4. Members(Tail(w)) \subseteq Members(w) \ {Head(w)}
    BY <1>1 DEF Members, Distinct
  <1> QED
    BY <1>1, <1>2, <1>3, <1>4

\* Giving up a place leaves the others in line.
LEMMA WithoutLine ==
    ASSUME waiting \in Seq(Clients), Distinct(waiting), NEW r
    PROVE  /\ Without(r) \in Seq(Clients) /\ Distinct(Without(r))
           /\ Members(Without(r)) \subseteq Members(waiting) \ {r}
           /\ waiting = <<>> => Without(r) = <<>>
  <1>1. DOMAIN waiting = 1 .. Len(waiting) /\ Len(waiting) \in Nat
        /\ \A i \in 1 .. Len(waiting) : waiting[i] \in Clients
    OBVIOUS
  <1>2. CASE ~Enqueued(r)
    <2>1. Without(r) = waiting
      BY <1>2 DEF Without
    <2>2. r \notin Members(waiting)
      BY <1>2 DEF Enqueued, Members
    <2> QED
      BY <2>1, <2>2
  <1>3. CASE Enqueued(r)
    <2>1. Place(r) \in DOMAIN waiting /\ waiting[Place(r)] = r
      BY <1>3 DEF Enqueued, Place
    <2>2. PICK n : n = Place(r)
      OBVIOUS
    <2>3. n \in 1 .. Len(waiting) /\ waiting[n] = r
      BY <1>1, <2>1, <2>2
    <2>4. PICK w : w = Without(r)
      OBVIOUS
    <2>5. w = [i \in 1 .. Len(waiting) - 1 |-> waiting[IF i < n THEN i ELSE i + 1]]
      BY <1>3, <2>2, <2>4 DEF Without
    <2>6. /\ DOMAIN w = 1 .. Len(waiting) - 1 /\ Len(waiting) - 1 \in Nat
          /\ \A i \in 1 .. Len(waiting) - 1 : \E j \in 1 .. Len(waiting) :
                w[i] = waiting[j] /\ j # n /\ ((j = i /\ i < n) \/ (j = i + 1 /\ i >= n))
      BY <1>1, <2>3, <2>5
    <2>7. w \in Seq(Clients)
      BY <1>1, <2>5, <2>6
    <2>8. ASSUME NEW i \in DOMAIN w, NEW j \in DOMAIN w, w[i] = w[j] PROVE i = j
      <3>1. PICK k \in 1 .. Len(waiting) :
              w[i] = waiting[k] /\ ((k = i /\ i < n) \/ (k = i + 1 /\ i >= n))
        BY <2>6
      <3>2. PICK l \in 1 .. Len(waiting) :
              w[j] = waiting[l] /\ ((l = j /\ j < n) \/ (l = j + 1 /\ j >= n))
        BY <2>6
      <3>3. k = l
        BY <1>1, <2>8, <3>1, <3>2, Zenon DEF Distinct
      <3>4. i \in Nat /\ j \in Nat /\ n \in Nat
        BY <1>1, <2>3, <2>6
      <3> QED
        BY <3>1, <3>2, <3>3, <3>4
    <2>9. Members(w) \subseteq Members(waiting) \ {r}
      BY <1>1, <2>3, <2>6 DEF Members, Distinct
    <2>10. waiting # <<>>
      BY <2>1
    <2> QED
      BY <2>4, <2>7, <2>8, <2>9, <2>10 DEF Distinct
  <1> QED
    BY <1>2, <1>3

\* The program starts with every permit free and nobody served.
LEMMA InitInv == Init => IInv
  <1> SUFFICES ASSUME Init PROVE IInv
    OBVIOUS
  <1>1. Typed
    BY DEF Init, Typed, TaskStates, PinStates
  <1>2. waiting = <<>> /\ holding = {} /\ permits = MaxConcurrent
    BY DEF Init
  <1>3. SemaphoreTyped
    BY <1>2, PermitAssumption DEF SemaphoreTyped
  <1>4. PermitsConserved
    BY <1>2, FS_EmptySet, PermitAssumption DEF PermitsConserved
  <1>5. InLine
    BY <1>2 DEF InLine, Distinct, Members
  <1>6. PinsOwn
    BY DEF Init, PinsOwn
  <1>7. guard = {} /\ queue_depth = 0 /\ is_generating = FALSE /\ Cardinality({}) = 0
        /\ \A s \in Sessions : task[s] # "serving"
    BY FS_EmptySet DEF Init
  <1>8. GaugeInv
    BY <1>7 DEF GaugeInv, QueueDepthExact, IdleNotGenerating
  <1> QED
    BY <1>1, <1>3, <1>4, <1>5, <1>6, <1>8, Zenon DEF IInv, SemaphoreInv

\* A worker's step changes what it is waiting for, and nobody else's.
LEMMA TaskStep ==
    ASSUME Typed, NEW s \in Sessions, NEW v \in TaskStates,
           task' = [task EXCEPT ![s] = v], pin' = pin
    PROVE  /\ Typed' /\ task'[s] = v
           /\ \A q \in Sessions \ {s} : task'[q] = task[q]
           /\ \A q \in Clients \ {s} : (Live(q)' <=> Live(q)) /\ (Waits(q)' <=> Waits(q))
           /\ Live(s) <=> task[s] \in {"queued", "serving", "ended"}
           /\ Live(s)' <=> v \in {"queued", "serving", "ended"}
           /\ Waits(s) <=> task[s] = "queued"
           /\ Waits(s)' <=> v = "queued"
  <1>1. s \notin Pins
    BY SessionAssumption
  <1>2. Typed' /\ task'[s] = v /\ \A q \in Sessions \ {s} : task'[q] = task[q]
    BY DEF Typed
  <1>3. ASSUME NEW q \in Clients \ {s}
        PROVE  (Live(q)' <=> Live(q)) /\ (Waits(q)' <=> Waits(q))
    <2>1. CASE q \in Pins
      BY <2>1, Zenon DEF Live, Waits
    <2>2. CASE q \notin Pins
      <3>1. q \in Sessions \ {s}
        BY <1>3, <2>2, Zenon DEF Clients
      <3>2. task'[q] = task[q]
        BY <1>2, <3>1, Zenon
      <3> QED
        BY <2>2, <3>2, Zenon DEF Live, Waits
    <2> QED
      BY <2>1, <2>2, Zenon
  <1>4. /\ Live(s) <=> task[s] \in {"queued", "serving", "ended"}
        /\ Waits(s) <=> task[s] = "queued"
    BY <1>1, Zenon DEF Live, Waits
  <1>5. /\ Live(s)' <=> v \in {"queued", "serving", "ended"}
        /\ Waits(s)' <=> v = "queued"
    BY <1>1, <1>2, Zenon DEF Live, Waits
  <1> QED
    BY <1>2, <1>3, <1>4, <1>5, Zenon

\* The step of a request of a private network, likewise.
LEMMA PinStep ==
    ASSUME Typed, NEW p \in Pins, NEW v \in PinStates,
           pin' = [pin EXCEPT ![p] = v], task' = task
    PROVE  /\ Typed' /\ pin'[p] = v
           /\ \A q \in Pins \ {p} : pin'[q] = pin[q]
           /\ \A q \in Clients \ {p} : (Live(q)' <=> Live(q)) /\ (Waits(q)' <=> Waits(q))
           /\ Live(p) <=> pin[p] \in {"waiting", "serving"}
           /\ Live(p)' <=> v \in {"waiting", "serving"}
           /\ Waits(p) <=> pin[p] = "waiting"
           /\ Waits(p)' <=> v = "waiting"
  <1>2. Typed' /\ pin'[p] = v /\ \A q \in Pins \ {p} : pin'[q] = pin[q]
    BY DEF Typed
  <1>3. ASSUME NEW q \in Clients \ {p}
        PROVE  (Live(q)' <=> Live(q)) /\ (Waits(q)' <=> Waits(q))
    <2>1. CASE q \notin Pins
      BY <2>1, Zenon DEF Live, Waits
    <2>2. CASE q \in Pins
      <3>2. pin'[q] = pin[q]
        BY <1>2, <1>3, <2>2, Zenon
      <3> QED
        BY <2>2, <3>2, Zenon DEF Live, Waits
    <2> QED
      BY <2>1, <2>2, Zenon
  <1>4. /\ Live(p) <=> pin[p] \in {"waiting", "serving"}
        /\ Waits(p) <=> pin[p] = "waiting"
    BY Zenon DEF Live, Waits
  <1>5. /\ Live(p)' <=> v \in {"waiting", "serving"}
        /\ Waits(p)' <=> v = "waiting"
    BY <1>2, Zenon DEF Live, Waits
  <1> QED
    BY <1>2, <1>3, <1>4, <1>5, Zenon

\* The requests are finitely many, and so are those with a permit.
LEMMA OwnersFinite ==
    ASSUME NEW S \in SUBSET Clients PROVE IsFiniteSet(S) /\ Cardinality(S) \in Nat
  <1>1. IsFiniteSet(Clients)
    BY SessionAssumption, FS_Union, Zenon DEF Clients
  <1>2. IsFiniteSet(S)
    BY <1>1, FS_Subset, Zenon
  <1> QED
    BY <1>2, FS_CardinalityType, Zenon

\* Whatever else a step does, requests with a permit go on and those in the
\* FIFO stay in it.
LEMMA SemaphoreKept ==
    ASSUME SemaphoreInv, UNCHANGED semaphore,
           \A q \in holding : Live(q)', \A q \in Members(waiting) : Waits(q)',
           \A p \in Pins : pin'[p] = "serving" => p \in holding
    PROVE  SemaphoreInv'
  <1>1. permits' = permits /\ waiting' = waiting /\ holding' = holding
    BY Zenon DEF semaphore
  <1>2. SemaphoreTyped'
    BY <1>1, Zenon DEF SemaphoreInv, SemaphoreTyped
  <1>3. PermitsConserved'
    BY <1>1, Zenon DEF SemaphoreInv, PermitsConserved
  <1>4. InLine'
    BY <1>1, Zenon DEF SemaphoreInv, InLine, Distinct, Members
  <1>5. PinsOwn'
    BY <1>1, Zenon DEF PinsOwn
  <1> QED
    BY <1>2, <1>3, <1>4, <1>5, Zenon DEF SemaphoreInv

\* A free permit is taken: nobody waits for it.
LEMMA PermitTaken ==
    ASSUME SemaphoreInv, NEW r \in Clients, permits > 0, acquire_owned(r), r \notin holding,
           \A q \in holding \cup {r} : Live(q)',
           \A p \in Pins : pin'[p] = "serving" => p \in holding \cup {r}
    PROVE  SemaphoreInv'
  <1>1. permits' = permits - 1 /\ waiting' = waiting /\ holding' = holding \cup {r}
    BY Zenon DEF acquire_owned
  <1>2. permits \in Nat /\ holding \subseteq Clients /\ waiting \in Seq(Clients)
    BY Zenon DEF SemaphoreInv, SemaphoreTyped
  <1>3. waiting = <<>>
    BY <1>2 DEF SemaphoreInv, PermitsConserved
  <1>4. SemaphoreTyped'
    BY <1>1, <1>2 DEF SemaphoreTyped
  <1>5. PermitsConserved'
    <2>1. Cardinality(holding') = Cardinality(holding) + 1 /\ Cardinality(holding) \in Nat
      BY <1>1, <1>2, OwnersFinite, FS_AddElement
    <2>2. permits + Cardinality(holding) = MaxConcurrent
      BY Zenon DEF SemaphoreInv, PermitsConserved
    <2>3. permits' + Cardinality(holding') = MaxConcurrent
      BY <1>1, <1>2, <2>1, <2>2, PermitAssumption
    <2> QED
      BY <1>1, <1>3, <2>3, Zenon DEF PermitsConserved
  <1>6. InLine'
    BY <1>1, <1>3 DEF InLine, Distinct, Members
  <1>7. PinsOwn'
    BY <1>1, Zenon DEF PinsOwn
  <1> QED
    BY <1>4, <1>5, <1>6, <1>7, Zenon DEF SemaphoreInv

\* With no permit free, a request that was not in line joins its end.
LEMMA LineJoined ==
    ASSUME SemaphoreInv, NEW r \in Clients, permits = 0, acquire_owned(r), r \notin holding,
           ~Waits(r), Waits(r)',
           \A q \in holding : Live(q)', \A q \in Members(waiting) : Waits(q)',
           \A p \in Pins : pin'[p] = "serving" => p \in holding
    PROVE  SemaphoreInv'
  <1>1. permits' = permits /\ waiting' = Append(waiting, r) /\ holding' = holding
    BY DEF acquire_owned
  <1>2. /\ permits \in Nat /\ holding \subseteq Clients
        /\ waiting \in Seq(Clients) /\ Distinct(waiting) /\ r \notin Members(waiting)
    BY Zenon DEF SemaphoreInv, SemaphoreTyped, InLine
  <1>3. /\ waiting' \in Seq(Clients) /\ Distinct(waiting')
        /\ Members(waiting') \subseteq Members(waiting) \cup {r}
    BY <1>1, <1>2, AppendLine, Zenon
  <1>4. SemaphoreTyped'
    BY <1>1, <1>2, <1>3, Zenon DEF SemaphoreTyped
  <1>5. PermitsConserved'
    BY <1>1, Zenon DEF SemaphoreInv, PermitsConserved
  <1>6. \A q \in Members(waiting) : q \notin holding
    BY Zenon DEF SemaphoreInv, InLine
  <1>7. InLine'
    <2>1. \A q \in Members(waiting') : q \notin holding' /\ Waits(q)'
      BY <1>1, <1>3, <1>6, Zenon
    <2>2. Members(waiting)' = Members(waiting') /\ Distinct(waiting)' = Distinct(waiting')
      BY Zenon DEF Members, Distinct
    <2> QED
      BY <1>3, <2>1, <2>2, Zenon DEF InLine
  <1>8. PinsOwn'
    BY <1>1, Zenon DEF PinsOwn
  <1> QED
    BY <1>4, <1>5, <1>7, <1>8, Zenon DEF SemaphoreInv

\* A released permit goes to the first in line, or becomes free.
LEMMA PermitReleased ==
    ASSUME SemaphoreInv, NEW r \in holding, Release(r),
           \A q \in holding \ {r} : Live(q)', \A q \in Members(waiting) : Waits(q)',
           \A p \in Pins : pin'[p] = "serving" => p \in holding \ {r}
    PROVE  SemaphoreInv'
  <1>1. /\ permits \in Nat /\ holding \subseteq Clients
        /\ waiting \in Seq(Clients) /\ Distinct(waiting)
    BY Zenon DEF SemaphoreInv, SemaphoreTyped, InLine
  <1>2. \A q \in Members(waiting) : q \notin holding
    BY Zenon DEF SemaphoreInv, InLine
  <1>3. /\ IsFiniteSet(holding \ {r}) /\ Cardinality(holding \ {r}) = Cardinality(holding) - 1
        /\ Cardinality(holding) \in Nat
    BY <1>1, OwnersFinite, FS_RemoveElement
  <1>4. permits + Cardinality(holding) = MaxConcurrent /\ (waiting # <<>> => permits = 0)
    BY Zenon DEF SemaphoreInv, PermitsConserved
  <1>5. CASE waiting = <<>>
    <2>1. permits' = permits + 1 /\ holding' = holding \ {r} /\ waiting' = <<>>
      BY <1>5, Zenon DEF Release
    <2>2. SemaphoreTyped'
      BY <1>1, <2>1 DEF SemaphoreTyped
    <2>3. permits' + Cardinality(holding') = MaxConcurrent
      BY <1>1, <1>3, <1>4, <2>1, PermitAssumption
    <2>4. PermitsConserved'
      BY <2>1, <2>3, Zenon DEF PermitsConserved
    <2>5. InLine'
      BY <2>1 DEF InLine, Distinct, Members
    <2>6. PinsOwn'
      BY <2>1, Zenon DEF PinsOwn
    <2> QED
      BY <2>2, <2>4, <2>5, <2>6, Zenon DEF SemaphoreInv
  <1>6. CASE waiting # <<>>
    <2>1. PICK h : h = Head(waiting)
      OBVIOUS
    <2>2. permits' = permits /\ holding' = (holding \ {r}) \cup {h} /\ waiting' = Tail(waiting)
      BY <1>6, <2>1, Zenon DEF Release
    <2>3. /\ waiting' \in Seq(Clients) /\ Distinct(waiting') /\ h \in Members(waiting)
          /\ Members(waiting') \subseteq Members(waiting) \ {h}
      BY <1>1, <1>6, <2>1, <2>2, TailLine, Zenon
    <2>4. h \in Clients
      BY <1>1, <2>3 DEF Members
    <2>5. h \notin holding
      BY <1>2, <2>3, Zenon
    <2>6. Cardinality(holding') = Cardinality(holding)
      <3>1. Cardinality(holding') = Cardinality(holding \ {r}) + 1
        BY <1>3, <2>2, <2>5, FS_AddElement, Zenon
      <3> QED
        BY <1>3, <3>1
    <2>7. SemaphoreTyped'
      BY <1>1, <2>2, <2>3, <2>4, Zenon DEF SemaphoreTyped
    <2>8. \A q \in holding' : Live(q)'
      <3>1. Waits(h)'
        BY <2>3, Zenon
      <3>2. Live(h)'
        BY <3>1, Zenon DEF Waits, Live
      <3> QED
        BY <2>2, <3>2, Zenon
    <2>9. PermitsConserved'
      <3>1. permits' = 0 /\ permits' + Cardinality(holding') = MaxConcurrent
        BY <1>4, <1>6, <2>2, <2>6
      <3> QED
        BY <2>8, <3>1, Zenon DEF PermitsConserved
    <2>10. InLine'
      <3>1. \A q \in Members(waiting') : q \notin holding' /\ Waits(q)'
        BY <1>2, <2>2, <2>3, Zenon
      <3>2. Members(waiting)' = Members(waiting') /\ Distinct(waiting)' = Distinct(waiting')
        BY Zenon DEF Members, Distinct
      <3> QED
        BY <2>3, <3>1, <3>2, Zenon DEF InLine
    <2>11. PinsOwn'
      BY <2>2, Zenon DEF PinsOwn
    <2> QED
      BY <2>7, <2>9, <2>10, <2>11, Zenon DEF SemaphoreInv
  <1> QED
    BY <1>5, <1>6, Zenon

\* A request that gives up, or is dropped, leaves the line to the others.
LEMMA LineLeft ==
    ASSUME SemaphoreInv, NEW r, waiting' = Without(r), UNCHANGED <<permits, holding>>,
           \A q \in holding : Live(q)', \A q \in Members(waiting) \ {r} : Waits(q)',
           \A p \in Pins : pin'[p] = "serving" => p \in holding
    PROVE  SemaphoreInv'
  <1>1. /\ permits' = permits /\ holding' = holding
        /\ waiting \in Seq(Clients) /\ Distinct(waiting)
    BY Zenon DEF SemaphoreInv, SemaphoreTyped, InLine
  <1>2. /\ waiting' \in Seq(Clients) /\ Distinct(waiting')
        /\ Members(waiting') \subseteq Members(waiting) \ {r}
        /\ waiting = <<>> => waiting' = <<>>
    BY <1>1, WithoutLine, Zenon
  <1>3. SemaphoreTyped'
    BY <1>1, <1>2, Zenon DEF SemaphoreInv, SemaphoreTyped
  <1>4. PermitsConserved'
    BY <1>1, <1>2, Zenon DEF SemaphoreInv, PermitsConserved
  <1>5. InLine'
    <2>1. \A q \in Members(waiting) : q \notin holding
      BY Zenon DEF SemaphoreInv, InLine
    <2>2. \A q \in Members(waiting') : q \notin holding' /\ Waits(q)'
      BY <1>1, <1>2, <2>1, Zenon
    <2>3. Members(waiting)' = Members(waiting') /\ Distinct(waiting)' = Distinct(waiting')
      BY Zenon DEF Members, Distinct
    <2> QED
      BY <1>2, <2>2, <2>3, Zenon DEF InLine
  <1>6. PinsOwn'
    BY <1>1, Zenon DEF PinsOwn
  <1> QED
    BY <1>3, <1>4, <1>5, <1>6, Zenon DEF SemaphoreInv

\* A step that touches no gauge: nobody starts to be served, and who has a
\* guard keeps it until the end.
LEMMA GaugesKept ==
    ASSUME GaugeInv, UNCHANGED gauges,
           \A q \in Sessions : task'[q] = "serving" => task[q] = "serving",
           \A q \in guard : task'[q] \in {"serving", "ended"}
    PROVE  GaugeInv'
  <1>1. /\ guard' = guard /\ queue_depth' = queue_depth /\ is_generating' = is_generating
        /\ loading' = loading /\ clearing' = clearing
    BY Zenon DEF gauges
  <1>2. QueueDepthExact'
    BY <1>1, Zenon DEF GaugeInv, QueueDepthExact
  <1>3. IdleNotGenerating'
    BY <1>1, Zenon DEF GaugeInv, IdleNotGenerating
  <1> QED
    BY <1>1, <1>2, <1>3, Zenon DEF GaugeInv

\* A worker that starts to serve was not counted yet.
LEMMA ServeCounted ==
    ASSUME Typed, GaugeInv, NEW s \in Sessions, Serve(s), task[s] \notin {"serving", "ended"}
    PROVE  GaugeInv'
  <1>1. /\ task' = [task EXCEPT ![s] = "serving"] /\ guard' = guard \cup {s}
        /\ queue_depth' = queue_depth + 1
    BY Zenon DEF Serve
  <1>2. task'[s] = "serving" /\ \A q \in Sessions \ {s} : task'[q] = task[q]
    BY <1>1, Zenon DEF Typed
  <1>3. /\ guard \subseteq Sessions /\ queue_depth \in Nat /\ queue_depth = Cardinality(guard)
        /\ \A q \in Sessions : task[q] = "serving" => q \in guard
        /\ \A q \in guard : task[q] \in {"serving", "ended"}
    BY Zenon DEF GaugeInv, QueueDepthExact
  <1>4. s \notin guard
    BY <1>3, Zenon
  <1>5. IsFiniteSet(guard)
    BY <1>3, OwnersFinite DEF Clients
  <1>6. Cardinality(guard') = Cardinality(guard) + 1
    BY <1>1, <1>4, <1>5, FS_AddElement, Zenon
  <1>7. queue_depth' = Cardinality(guard') /\ queue_depth' \in Nat /\ queue_depth' > 0
    BY <1>1, <1>3, <1>6
  <1>8. QueueDepthExact'
    BY <1>1, <1>2, <1>3, <1>7, Zenon DEF QueueDepthExact
  <1>9. IdleNotGenerating'
    BY <1>7, Zenon DEF IdleNotGenerating
  <1>10. guard' \subseteq Sessions
    BY <1>1, <1>3, Zenon
  <1> QED
    BY <1>7, <1>8, <1>9, <1>10, Zenon DEF GaugeInv

\* The three steps of QueueGuard::drop.  While one that decremented has not read
\* the depth yet, or is to clear the flag, the flag may still be set.
LEMMA GuardDropped ==
    ASSUME GaugeInv, NEW s \in Sessions,
           DropGuard(s) \/ LoadDepth(s) \/ ClearGenerating(s)
    PROVE  GaugeInv'
  <1>1. /\ guard \subseteq Sessions /\ queue_depth \in Nat /\ queue_depth = Cardinality(guard)
        /\ \A q \in Sessions : task[q] = "serving" => q \in guard
        /\ \A q \in guard : task[q] \in {"serving", "ended"}
        /\ IdleNotGenerating /\ task' = task
    BY Zenon DEF GaugeInv, QueueDepthExact, DropGuard, LoadDepth, ClearGenerating
  <1>2. CASE DropGuard(s)
    <2>1. /\ task[s] = "ended" /\ s \in guard /\ guard' = guard \ {s}
          /\ queue_depth' = queue_depth - 1 /\ loading' = loading \cup {s}
      BY <1>2, Zenon DEF DropGuard
    <2>2. IsFiniteSet(guard) /\ Cardinality(guard) \in Nat /\ IsFiniteSet(guard \ {s})
      BY <1>1, OwnersFinite, FS_RemoveElement DEF Clients
    <2>3. Cardinality(guard') = Cardinality(guard) - 1 /\ Cardinality(guard') \in Nat
      BY <2>1, <2>2, FS_RemoveElement, FS_CardinalityType
    <2>4. queue_depth' = Cardinality(guard') /\ queue_depth' \in Nat
      BY <1>1, <2>1, <2>3
    <2>5. QueueDepthExact'
      BY <1>1, <2>1, <2>4 DEF QueueDepthExact
    <2>6. IdleNotGenerating'
      BY <2>1, Zenon DEF IdleNotGenerating
    <2> QED
      BY <1>1, <2>1, <2>4, <2>5, <2>6, Zenon DEF GaugeInv
  <1>3. CASE LoadDepth(s) \/ ClearGenerating(s)
    <2>1. guard' = guard /\ queue_depth' = queue_depth
      BY <1>3, Zenon DEF LoadDepth, ClearGenerating
    <2>2. QueueDepthExact'
      BY <1>1, <2>1, Zenon DEF QueueDepthExact
    <2>3. CASE LoadDepth(s)
      <3>1. queue_depth = 0 => s \in clearing'
        BY <2>3, Zenon DEF LoadDepth, LastOut
      <3>2. queue_depth = 0 \/ queue_depth > 0
        BY <1>1
      <3>3. IdleNotGenerating'
        BY <2>1, <3>1, <3>2, Zenon DEF IdleNotGenerating
      <3> QED
        BY <1>1, <2>1, <2>2, <3>3, Zenon DEF GaugeInv
    <2>4. CASE ClearGenerating(s)
      <3>1. IdleNotGenerating'
        BY <2>4, Zenon DEF IdleNotGenerating, ClearGenerating
      <3> QED
        BY <1>1, <2>1, <2>2, <3>1, Zenon DEF GaugeInv
    <2> QED
      BY <1>3, <2>3, <2>4, Zenon
  <1> QED
    BY <1>2, <1>3, Zenon

\* What the strengthening says of each request.
LEMMA Standing ==
    ASSUME IInv
    PROVE  /\ Typed /\ SemaphoreInv /\ GaugeInv
           /\ holding \subseteq Clients /\ permits \in Nat
           /\ \A q \in holding : Live(q)
           /\ \A q \in Members(waiting) : q \in Clients /\ q \notin holding /\ Waits(q)
           /\ \A p \in Pins : pin[p] = "serving" => p \in holding
           /\ \A q \in Sessions : task[q] = "serving" => q \in guard
           /\ guard \subseteq Sessions
           /\ \A q \in guard : task[q] \in {"serving", "ended"}
  <1>1. Typed /\ SemaphoreInv /\ GaugeInv
    BY Zenon DEF IInv
  <1>2. /\ holding \subseteq Clients /\ permits \in Nat /\ waiting \in Seq(Clients)
        /\ \A q \in holding : Live(q)
        /\ \A q \in Members(waiting) : q \notin holding /\ Waits(q)
        /\ \A p \in Pins : pin[p] = "serving" => p \in holding
    BY <1>1, Zenon DEF SemaphoreInv, SemaphoreTyped, PermitsConserved, InLine, PinsOwn
  <1>3. /\ \A q \in Sessions : task[q] = "serving" => q \in guard
        /\ guard \subseteq Sessions
        /\ \A q \in guard : task[q] \in {"serving", "ended"}
    BY <1>1, Zenon DEF GaugeInv, QueueDepthExact
  <1>4. Members(waiting) \subseteq Clients
    BY <1>2 DEF Members
  <1> QED
    BY <1>1, <1>2, <1>3, <1>4, Zenon

\* A step of neither a worker, a permit nor a gauge.
LEMMA Untouched ==
    ASSUME IInv, UNCHANGED <<task, pin, semaphore, gauges>>
    PROVE  IInv'
  <1>1. task' = task /\ pin' = pin /\ UNCHANGED semaphore /\ UNCHANGED gauges
    OBVIOUS
  <1>2. Typed'
    BY <1>1, Standing, Zenon DEF Typed
  <1>3. \A q : (Live(q)' <=> Live(q)) /\ (Waits(q)' <=> Waits(q))
    BY <1>1, Zenon DEF Live, Waits
  <1>4. SemaphoreInv'
    BY <1>1, <1>3, Standing, SemaphoreKept, Zenon
  <1>5. GaugeInv'
    BY <1>1, Standing, GaugesKept, Zenon
  <1> QED
    BY <1>2, <1>4, <1>5, Zenon DEF IInv

\* A worker's step outside the queue that starts no service: whoever holds a
\* permit or a guard can only end.
LEMMA TaskOnly ==
    ASSUME IInv, NEW s \in Sessions, NEW v \in TaskStates,
           v # "serving", v # "queued", task[s] # "queued",
           task' = [task EXCEPT ![s] = v], pin' = pin, UNCHANGED <<semaphore, gauges>>,
           s \in holding \cup guard => v = "ended"
    PROVE  IInv'
  <1>1. /\ Typed' /\ task'[s] = v
        /\ \A q \in Sessions \ {s} : task'[q] = task[q]
        /\ \A q \in Clients \ {s} : (Live(q)' <=> Live(q)) /\ (Waits(q)' <=> Waits(q))
        /\ Live(s)' <=> v \in {"queued", "serving", "ended"}
        /\ Waits(s) <=> task[s] = "queued"
    BY TaskStep, Standing, Zenon
  <1>2. \A q \in holding : Live(q)'
    BY <1>1, Standing, Zenon
  <1>3. \A q \in Members(waiting) : Waits(q)'
    BY <1>1, Standing, Zenon
  <1>4. SemaphoreInv'
    BY <1>2, <1>3, Standing, SemaphoreKept, Zenon
  <1>5. /\ \A q \in Sessions : task'[q] = "serving" => task[q] = "serving"
        /\ \A q \in guard : task'[q] \in {"serving", "ended"}
    BY <1>1, Standing, Zenon
  <1>6. GaugeInv'
    BY <1>5, Standing, GaugesKept, Zenon
  <1> QED
    BY <1>1, <1>4, <1>6, Zenon DEF IInv

\* A worker that takes a free permit, or wakes up with one, is served.
LEMMA ServeInv ==
    ASSUME IInv, NEW s \in Sessions, Serve(s), pin' = pin,
           \/ task[s] \in {"spawned", "refused"} /\ permits > 0 /\ acquire_owned(s)
           \/ task[s] = "queued" /\ s \in holding /\ UNCHANGED semaphore
    PROVE  IInv'
  <1>1. task' = [task EXCEPT ![s] = "serving"] /\ "serving" \in TaskStates
    BY DEF Serve, TaskStates, Awaiting
  <1>2. /\ Typed' /\ task'[s] = "serving"
        /\ \A q \in Clients \ {s} : (Live(q)' <=> Live(q)) /\ (Waits(q)' <=> Waits(q))
        /\ Live(s) <=> task[s] \in {"queued", "serving", "ended"}
        /\ Live(s)'
    BY <1>1, TaskStep, Standing, Zenon
  <1>3. task[s] \notin {"serving", "ended"}
    OBVIOUS
  <1>4. GaugeInv'
    BY <1>3, Standing, ServeCounted, Zenon
  <1>5. \A q \in holding \cup {s} : Live(q)'
    BY <1>2, Standing, Zenon
  <1>6. SemaphoreInv'
    <2>1. CASE task[s] \in {"spawned", "refused"} /\ permits > 0 /\ acquire_owned(s)
      <3>1. s \notin holding
        <4>1. ~Live(s)
          BY <1>2, <2>1
        <4> QED
          BY <4>1, Standing, Zenon
      <3>2. \A p \in Pins : pin'[p] = "serving" => p \in holding \cup {s}
        BY Standing, Zenon
      <3>3. s \in Clients
        BY Zenon DEF Clients
      <3> QED
        BY <1>5, <2>1, <3>1, <3>2, <3>3, Standing, PermitTaken, Zenon
    <2>2. CASE task[s] = "queued" /\ s \in holding /\ UNCHANGED semaphore
      <3>1. \A q \in Members(waiting) : Waits(q)'
        BY <1>2, <2>2, Standing, Zenon
      <3>2. \A p \in Pins : pin'[p] = "serving" => p \in holding
        BY Standing, Zenon
      <3> QED
        BY <1>5, <2>2, <3>1, <3>2, Standing, SemaphoreKept, Zenon
    <2> QED
      BY <2>1, <2>2, Zenon
  <1> QED
    BY <1>2, <1>4, <1>6, Zenon DEF IInv

\* A worker that is refused a permit and finds room joins the line.
LEMMA JoinInv ==
    ASSUME IInv, NEW s \in Sessions, task[s] = "refused", permits = 0, acquire_owned(s),
           task' = [task EXCEPT ![s] = "queued"], pin' = pin, UNCHANGED gauges
    PROVE  IInv'
  <1>1. "queued" \in TaskStates /\ s \in Clients
    BY DEF TaskStates, Awaiting, Clients
  <1>2. /\ Typed' /\ task'[s] = "queued"
        /\ \A q \in Sessions \ {s} : task'[q] = task[q]
        /\ \A q \in Clients \ {s} : (Live(q)' <=> Live(q)) /\ (Waits(q)' <=> Waits(q))
        /\ Live(s) <=> task[s] \in {"queued", "serving", "ended"}
        /\ Waits(s) <=> task[s] = "queued"
        /\ Waits(s)'
    BY <1>1, TaskStep, Standing, Zenon
  <1>3. ~Live(s) /\ ~Waits(s)
    BY <1>2
  <1>4. s \notin holding /\ s \notin guard
    <2>1. s \notin holding
      BY <1>3, Standing, Zenon
    <2>2. task[s] \notin {"serving", "ended"}
      OBVIOUS
    <2> QED
      BY <2>1, <2>2, Standing, Zenon
  <1>5. \A q \in holding : Live(q)'
    BY <1>2, <1>4, Standing, Zenon
  <1>6. \A q \in Members(waiting) : Waits(q)'
    BY <1>2, <1>3, Standing, Zenon
  <1>7. \A p \in Pins : pin'[p] = "serving" => p \in holding
    BY Standing, Zenon
  <1>8. SemaphoreInv'
    BY <1>1, <1>2, <1>3, <1>4, <1>5, <1>6, <1>7, Standing, LineJoined, Zenon
  <1>9. /\ \A q \in Sessions : task'[q] = "serving" => task[q] = "serving"
        /\ \A q \in guard : task'[q] \in {"serving", "ended"}
    <2>1. "queued" # "serving"
      OBVIOUS
    <2> QED
      BY <1>2, <1>4, <2>1, Standing, Zenon
  <1>10. GaugeInv'
    BY <1>9, Standing, GaugesKept, Zenon
  <1> QED
    BY <1>2, <1>8, <1>10, Zenon DEF IInv

\* A worker whose wait timed out, or that was aborted at an await, ends: out of
\* the line, with the permit and the guard it may hold.
LEMMA EndInv ==
    ASSUME IInv, NEW s \in Sessions, QueueTimeout(s) \/ Cancel(s)
    PROVE  IInv'
  <1>1. /\ task' = [task EXCEPT ![s] = "ended"] /\ pin' = pin /\ UNCHANGED gauges
        /\ waiting' = Without(s) /\ UNCHANGED <<permits, holding>>
    BY Zenon DEF QueueTimeout, Cancel, Refuse
  <1>2. "ended" \in TaskStates
    BY DEF TaskStates
  <1>3. /\ Typed' /\ task'[s] = "ended"
        /\ \A q \in Sessions \ {s} : task'[q] = task[q]
        /\ \A q \in Clients \ {s} : (Live(q)' <=> Live(q)) /\ (Waits(q)' <=> Waits(q))
        /\ Live(s)'
    BY <1>1, <1>2, TaskStep, Standing, Zenon
  <1>4. \A q \in holding : Live(q)'
    BY <1>3, Standing, Zenon
  <1>5. \A q \in Members(waiting) \ {s} : Waits(q)'
    BY <1>3, Standing, Zenon
  <1>6. \A p \in Pins : pin'[p] = "serving" => p \in holding
    BY <1>1, Standing, Zenon
  <1>7. SemaphoreInv'
    BY <1>1, <1>4, <1>5, <1>6, Standing, LineLeft, Zenon
  <1>8. /\ \A q \in Sessions : task'[q] = "serving" => task[q] = "serving"
        /\ \A q \in guard : task'[q] \in {"serving", "ended"}
    <2>1. "ended" # "serving"
      OBVIOUS
    <2> QED
      BY <1>3, <2>1, Standing, Zenon
  <1>9. GaugeInv'
    BY <1>1, <1>8, Standing, GaugesKept, Zenon
  <1> QED
    BY <1>3, <1>7, <1>9, Zenon DEF IInv

\* The drops at the end of a worker: its permit, and its guard in three steps.
LEMMA DropInv ==
    ASSUME IInv, NEW s \in Sessions,
           DropPermit(s) \/ DropGuard(s) \/ LoadDepth(s) \/ ClearGenerating(s)
    PROVE  IInv'
  <1>1. task' = task /\ pin' = pin
    BY Zenon DEF DropPermit, DropGuard, LoadDepth, ClearGenerating
  <1>2. Typed'
    BY <1>1, Standing, Zenon DEF Typed
  <1>3. \A q : (Live(q)' <=> Live(q)) /\ (Waits(q)' <=> Waits(q))
    BY <1>1, Zenon DEF Live, Waits
  <1>4. CASE DropPermit(s)
    <2>1. s \in holding /\ Release(s) /\ UNCHANGED gauges
      BY <1>4, Zenon DEF DropPermit
    <2>2. \A p \in Pins : pin'[p] = "serving" => p \in holding \ {s}
      <3>1. s \notin Pins
        BY SessionAssumption
      <3> QED
        BY <1>1, <3>1, Standing, Zenon
    <2>3. SemaphoreInv'
      BY <1>3, <2>1, <2>2, Standing, PermitReleased, Zenon
    <2>4. GaugeInv'
      BY <1>1, <2>1, Standing, GaugesKept, Zenon
    <2> QED
      BY <1>2, <2>3, <2>4, Zenon DEF IInv
  <1>5. CASE DropGuard(s) \/ LoadDepth(s) \/ ClearGenerating(s)
    <2>1. UNCHANGED semaphore
      BY <1>5, Zenon DEF DropGuard, LoadDepth, ClearGenerating
    <2>2. SemaphoreInv'
      BY <1>1, <1>3, <2>1, Standing, SemaphoreKept, Zenon
    <2>3. GaugeInv'
      BY <1>5, Standing, GuardDropped, Zenon
    <2> QED
      BY <1>2, <2>2, <2>3, Zenon DEF IInv
  <1> QED
    BY <1>4, <1>5, Zenon

\* The workers' steps.
LEMMA WorkInv ==
    ASSUME IInv, NEW s \in Sessions, handle_relay_data(s) \/ Work(s) \/ QueueTimeout(s)
    PROVE  IInv'
  <1>1. {"spawned", "refused", "ended", "gone"} \subseteq TaskStates
    BY DEF TaskStates, Awaiting
  <1>2. ASSUME task[s] \in {"none", "spawned", "refused"} PROVE s \notin holding \cup guard
    <2>1. s \notin Pins /\ task[s] \notin {"queued", "serving", "ended"}
      BY <1>2, SessionAssumption
    <2>2. ~Live(s)
      BY <2>1, Zenon DEF Live
    <2> QED
      BY <2>1, <2>2, Standing, Zenon
  <1>3. CASE handle_relay_data(s)
    <2>1. /\ task[s] = "none" /\ task' = [task EXCEPT ![s] = "spawned"] /\ pin' = pin
          /\ UNCHANGED <<semaphore, gauges>>
      BY <1>3, Zenon DEF handle_relay_data
    <2>2. s \notin holding \cup guard /\ task[s] # "queued"
      BY <1>2, <2>1
    <2> QED
      BY <1>1, <2>1, <2>2, TaskOnly, Zenon
  <1>4. CASE try_acquire_din(s)
    <2>1. task[s] = "spawned" /\ pin' = pin
      BY <1>4, Zenon DEF try_acquire_din
    <2>2. CASE DoorOpen /\ permits > 0
      <3>1. acquire_owned(s) /\ Serve(s)
        BY <1>4, <2>2, Zenon DEF try_acquire_din
      <3> QED
        BY <2>1, <2>2, <3>1, ServeInv
    <2>3. CASE ~(DoorOpen /\ permits > 0)
      <3>1. task' = [task EXCEPT ![s] = "refused"] /\ UNCHANGED <<semaphore, gauges>>
        BY <1>4, <2>3, Zenon DEF try_acquire_din
      <3>2. s \notin holding \cup guard /\ task[s] # "queued"
        BY <1>2, <2>1
      <3> QED
        BY <1>1, <2>1, <3>1, <3>2, TaskOnly, Zenon
    <2> QED
      BY <2>2, <2>3, Zenon
  <1>5. CASE try_join_din_queue(s)
    <2>1. task[s] = "refused" /\ pin' = pin
      BY <1>5, Zenon DEF try_join_din_queue
    <2>2. s \notin holding \cup guard /\ task[s] # "queued"
      BY <1>2, <2>1
    <2>3. CASE Refuse(s) /\ UNCHANGED <<semaphore, gauges>>
      <3>1. task' = [task EXCEPT ![s] = "ended"]
        BY <2>3, Zenon DEF Refuse
      <3> QED
        BY <1>1, <2>1, <2>2, <2>3, <3>1, TaskOnly, Zenon
    <2>4. CASE permits > 0 /\ Serve(s) /\ acquire_owned(s)
      BY <2>1, <2>4, ServeInv
    <2>5. CASE /\ permits = 0 /\ task' = [task EXCEPT ![s] = "queued"]
               /\ acquire_owned(s) /\ UNCHANGED gauges
      BY <2>1, <2>5, JoinInv, Zenon
    <2> QED
      BY <1>5, <2>3, <2>4, <2>5, Zenon DEF try_join_din_queue
  <1>6. CASE leave_din_queue(s)
    <2>1. task[s] = "queued" /\ s \in holding /\ Serve(s) /\ pin' = pin /\ UNCHANGED semaphore
      BY <1>6, Zenon DEF leave_din_queue
    <2> QED
      BY <2>1, ServeInv, Zenon
  <1>7. CASE Finish(s)
    <2>1. /\ task[s] = "serving" /\ task' = [task EXCEPT ![s] = "ended"] /\ pin' = pin
          /\ UNCHANGED <<semaphore, gauges>>
      BY <1>7, Zenon DEF Finish
    <2> QED
      BY <1>1, <2>1, TaskOnly, Zenon
  <1>8. CASE RemoveTask(s)
    <2>1. /\ task[s] = "ended" /\ task' = [task EXCEPT ![s] = "gone"] /\ pin' = pin
          /\ UNCHANGED <<semaphore, gauges>> /\ s \notin holding \cup guard
      BY <1>8, Zenon DEF RemoveTask
    <2> QED
      BY <1>1, <2>1, TaskOnly, Zenon
  <1>9. CASE DropPermit(s) \/ DropGuard(s) \/ LoadDepth(s) \/ ClearGenerating(s)
    BY <1>9, DropInv, Zenon
  <1>10. CASE Cancel(s) \/ QueueTimeout(s)
    BY <1>10, EndInv, Zenon
  <1> QED
    BY <1>3, <1>4, <1>5, <1>6, <1>7, <1>8, <1>9, <1>10, Zenon DEF Work

\* The steps of a request of a private network: it waits in the same line and
\* has no guard.
LEMMA PinInv ==
    ASSUME IInv, NEW p \in Pins, PinArrives(p) \/ PinWork(p) \/ PinTimeout(p)
    PROVE  IInv'
  <1>1. task' = task /\ UNCHANGED gauges
    BY Zenon DEF PinArrives, PinWork, PinTimeout, acquire_pin, PinWakes, handle_request
  <1>2. GaugeInv'
    BY <1>1, Standing, GaugesKept, Zenon
  <1>3. p \in Clients
    BY Zenon DEF Clients
  <1>4. ASSUME NEW v \in PinStates, pin' = [pin EXCEPT ![p] = v]
        PROVE  /\ Typed' /\ pin'[p] = v
               /\ \A q \in Pins \ {p} : pin'[q] = pin[q]
               /\ \A q \in Clients \ {p} : (Live(q)' <=> Live(q)) /\ (Waits(q)' <=> Waits(q))
               /\ Live(p) <=> pin[p] \in {"waiting", "serving"}
               /\ Live(p)' <=> v \in {"waiting", "serving"}
               /\ Waits(p) <=> pin[p] = "waiting"
               /\ Waits(p)' <=> v = "waiting"
    BY <1>1, <1>4, PinStep, Standing, Zenon
  <1>5. ASSUME pin[p] \in {"none", "arrived"} PROVE p \notin holding /\ ~Waits(p)
    <2>1. ~Live(p) /\ ~Waits(p)
      BY <1>5 DEF Live, Waits
    <2> QED
      BY <2>1, Standing, Zenon
  <1>6. {"arrived", "waiting", "serving", "done"} \subseteq PinStates
    BY DEF PinStates
  <1>7. CASE PinArrives(p)
    <2>1. pin[p] = "none" /\ pin' = [pin EXCEPT ![p] = "arrived"] /\ UNCHANGED semaphore
      BY <1>7, Zenon DEF PinArrives
    <2>2. Typed' /\ pin'[p] = "arrived" /\ \A q \in Pins \ {p} : pin'[q] = pin[q]
      BY <1>4, <1>6, <2>1, Zenon
    <2>3. \A q \in Clients \ {p} : (Live(q)' <=> Live(q)) /\ (Waits(q)' <=> Waits(q))
      BY <1>4, <1>6, <2>1, Zenon
    <2>4. p \notin holding /\ ~Waits(p)
      BY <1>5, <2>1
    <2>5. (\A q \in holding : Live(q)') /\ \A q \in Members(waiting) : Waits(q)'
      BY <2>3, <2>4, Standing, Zenon
    <2>6. \A q \in Pins : pin'[q] = "serving" => q \in holding
      <3>1. pin'[p] # "serving"
        BY <2>2
      <3> QED
        BY <2>2, <3>1, Standing, Zenon
    <2>7. SemaphoreInv'
      BY <2>1, <2>5, <2>6, Standing, SemaphoreKept, Zenon
    <2> QED
      BY <1>2, <2>2, <2>7, Zenon DEF IInv
  <1>8. CASE acquire_pin(p) /\ permits > 0
    <2>1. pin[p] = "arrived" /\ pin' = [pin EXCEPT ![p] = "serving"] /\ acquire_owned(p)
      BY <1>8, Zenon DEF acquire_pin
    <2>2. Typed' /\ \A q \in Pins \ {p} : pin'[q] = pin[q]
      BY <1>4, <1>6, <2>1, Zenon
    <2>3. \A q \in Clients \ {p} : (Live(q)' <=> Live(q)) /\ (Waits(q)' <=> Waits(q))
      BY <1>4, <1>6, <2>1, Zenon
    <2>4. Live(p)'
      BY <1>4, <1>6, <2>1, Zenon
    <2>5. p \notin holding
      BY <1>5, <2>1
    <2>6. \A q \in holding \cup {p} : Live(q)'
      BY <2>3, <2>4, Standing, Zenon
    <2>7. \A q \in Pins : pin'[q] = "serving" => q \in holding \cup {p}
      BY <2>2, Standing, Zenon
    <2>8. SemaphoreInv'
      BY <1>3, <1>8, <2>1, <2>5, <2>6, <2>7, Standing, PermitTaken, Zenon
    <2> QED
      BY <1>2, <2>2, <2>8, Zenon DEF IInv
  <1>9. CASE acquire_pin(p) /\ ~(permits > 0)
    <2>1. pin[p] = "arrived" /\ pin' = [pin EXCEPT ![p] = "waiting"] /\ acquire_owned(p)
      BY <1>9, Zenon DEF acquire_pin
    <2>2. permits = 0
      BY <1>9, Standing
    <2>3. Typed' /\ pin'[p] = "waiting" /\ \A q \in Pins \ {p} : pin'[q] = pin[q]
      BY <1>4, <1>6, <2>1, Zenon
    <2>4. \A q \in Clients \ {p} : (Live(q)' <=> Live(q)) /\ (Waits(q)' <=> Waits(q))
      BY <1>4, <1>6, <2>1, Zenon
    <2>5. Waits(p)'
      BY <1>4, <1>6, <2>1, Zenon
    <2>6. p \notin holding /\ ~Waits(p)
      BY <1>5, <2>1
    <2>7. (\A q \in holding : Live(q)') /\ \A q \in Members(waiting) : Waits(q)'
      BY <2>4, <2>6, Standing, Zenon
    <2>8. \A q \in Pins : pin'[q] = "serving" => q \in holding
      <3>1. pin'[p] # "serving"
        BY <2>3
      <3> QED
        BY <2>3, <3>1, Standing, Zenon
    <2>9. SemaphoreInv'
      BY <1>3, <2>1, <2>2, <2>5, <2>6, <2>7, <2>8, Standing, LineJoined, Zenon
    <2> QED
      BY <1>2, <2>3, <2>9, Zenon DEF IInv
  <1>10. CASE PinWakes(p)
    <2>1. p \in holding /\ pin' = [pin EXCEPT ![p] = "serving"] /\ UNCHANGED semaphore
      BY <1>10, Zenon DEF PinWakes
    <2>2. Typed' /\ \A q \in Pins \ {p} : pin'[q] = pin[q]
      BY <1>4, <1>6, <2>1, Zenon
    <2>3. \A q \in Clients \ {p} : (Live(q)' <=> Live(q)) /\ (Waits(q)' <=> Waits(q))
      BY <1>4, <1>6, <2>1, Zenon
    <2>4. Live(p)'
      BY <1>4, <1>6, <2>1, Zenon
    <2>5. (\A q \in holding : Live(q)') /\ \A q \in Members(waiting) : Waits(q)'
      BY <2>1, <2>3, <2>4, Standing, Zenon
    <2>6. \A q \in Pins : pin'[q] = "serving" => q \in holding
      BY <2>1, <2>2, Standing, Zenon
    <2>7. SemaphoreInv'
      BY <2>1, <2>5, <2>6, Standing, SemaphoreKept, Zenon
    <2> QED
      BY <1>2, <2>2, <2>7, Zenon DEF IInv
  <1>11. CASE PinTimeout(p)
    <2>1. /\ Enqueued(p) /\ pin' = [pin EXCEPT ![p] = "done"] /\ waiting' = Without(p)
          /\ UNCHANGED <<permits, holding>>
      BY <1>11, Zenon DEF PinTimeout
    <2>2. Typed' /\ pin'[p] = "done" /\ \A q \in Pins \ {p} : pin'[q] = pin[q]
      BY <1>4, <1>6, <2>1, Zenon
    <2>3. \A q \in Clients \ {p} : (Live(q)' <=> Live(q)) /\ (Waits(q)' <=> Waits(q))
      BY <1>4, <1>6, <2>1, Zenon
    <2>4. p \in Members(waiting)
      BY <2>1, Zenon DEF Enqueued, Members
    <2>5. p \notin holding
      BY <2>4, Standing, Zenon
    <2>6. (\A q \in holding : Live(q)') /\ \A q \in Members(waiting) \ {p} : Waits(q)'
      BY <2>3, <2>5, Standing, Zenon
    <2>7. \A q \in Pins : pin'[q] = "serving" => q \in holding
      <3>1. pin'[p] # "serving"
        BY <2>2
      <3> QED
        BY <2>2, <3>1, Standing, Zenon
    <2>8. SemaphoreInv'
      BY <2>1, <2>6, <2>7, Standing, LineLeft, Zenon
    <2> QED
      BY <1>2, <2>2, <2>8, Zenon DEF IInv
  <1>12. CASE handle_request(p)
    <2>1. pin[p] = "serving" /\ pin' = [pin EXCEPT ![p] = "done"] /\ Release(p)
      BY <1>12, Zenon DEF handle_request
    <2>2. Typed' /\ pin'[p] = "done" /\ \A q \in Pins \ {p} : pin'[q] = pin[q]
      BY <1>4, <1>6, <2>1, Zenon
    <2>3. \A q \in Clients \ {p} : (Live(q)' <=> Live(q)) /\ (Waits(q)' <=> Waits(q))
      BY <1>4, <1>6, <2>1, Zenon
    <2>4. p \in holding
      BY <2>1, Standing, Zenon
    <2>5. (\A q \in holding \ {p} : Live(q)') /\ \A q \in Members(waiting) : Waits(q)'
      BY <2>3, <2>4, Standing, Zenon
    <2>6. \A q \in Pins : pin'[q] = "serving" => q \in holding \ {p}
      <3>1. pin'[p] # "serving"
        BY <2>2
      <3> QED
        BY <2>2, <3>1, Standing, Zenon
    <2>7. SemaphoreInv'
      BY <2>1, <2>4, <2>5, <2>6, Standing, PermitReleased, Zenon
    <2> QED
      BY <1>2, <2>2, <2>7, Zenon DEF IInv
  <1> QED
    BY <1>7, <1>8, <1>9, <1>10, <1>11, <1>12, Zenon DEF PinWork

\* The strengthening is inductive.
LEMMA NextInv == IInv /\ [Next]_vars => IInv'
  <1> SUFFICES ASSUME IInv, [Next]_vars PROVE IInv'
    OBVIOUS
  <1>1. CASE UNCHANGED vars
    BY <1>1, Untouched, Zenon DEF vars
  <1>2. CASE InsertTask
    BY <1>2, Untouched, Zenon DEF InsertTask
  <1>3. CASE Aborts
    BY <1>3, Untouched, Zenon DEF Aborts, abort_session, abort_sessions_to_peer,
       abort_all_inference, Abort
  <1> QED
    BY <1>1, <1>2, <1>3, WorkInv, PinInv, Zenon DEF Next

\* Wherever aborts, timeouts and hand-overs meet, no permit of the node's
\* semaphore is lost or doubled, queue_depth is the number of live QueueGuards
\* and an idle node does not report that it generates.
THEOREM CountsAlwaysExact == Spec => []CountsExact
  <1>1. Init => IInv
    BY InitInv
  <1>2. IInv /\ [Next]_vars => IInv'
    BY NextInv
  <1>3. IInv => CountsExact
    BY StrongEnough
  <1> QED
    BY <1>1, <1>2, <1>3, PTL DEF Spec

(***************************************************************************)
(* The model swap, with state of its own.                                  *)
(***************************************************************************)
CONSTANTS Models, FirstModel, DinRequests, PinRequests, Wanted, Swaps, Target, Local,
          Unloads, MaxCrashes

VARIABLES backend, ready, model_id, supervisor, new_sup, process, crashes, lockq, readers,
          request, swap

Swap == INSTANCE ModelSwap

SwapTyped == swap \in [Swaps \cup Unloads -> Swap!SwapStates]

OneWriter ==
    \A v, w \in Swaps : swap[v] = "spawning" /\ swap[w] = "spawning" => v = w

UnderTheLock ==
    /\ new_sup # None => Swap!Writing
    /\ Swap!Writing => supervisor = None

Supervised == process # None => process \in {supervisor, new_sup}

SwapInv == SwapTyped /\ OneWriter /\ UnderTheLock /\ Supervised

\* The strengthening gives the property.
LEMMA SwapStrongEnough == SwapInv => Swap!OneSubprocess
BY DEF SwapInv, UnderTheLock, Supervised, Swap!OneSubprocess

\* The node starts with one supervisor, its subprocess, and no load.
LEMMA SwapInitInv == Swap!Init => SwapInv
BY DEF Swap!Init, SwapInv, SwapTyped, OneWriter, UnderTheLock, Supervised, Swap!Writing,
       Swap!SwapStates

\* A step that leaves the supervisors and the subprocess alone, and moves one
\* load or unload to a state in which it does not hold the lock, from one in
\* which it did not.
LEMMA OutsideTheLock ==
    ASSUME SwapInv, NEW w \in Swaps \cup Unloads, NEW s \in Swap!SwapStates \ {"spawning"},
           swap[w] # "spawning", swap' = [swap EXCEPT ![w] = s],
           UNCHANGED <<supervisor, new_sup, process>>
    PROVE  SwapInv'
<1>1. \A v \in Swaps : swap'[v] = "spawning" <=> swap[v] = "spawning"
  BY DEF SwapInv, SwapTyped
<1>2. Swap!Writing' <=> Swap!Writing
  BY <1>1 DEF Swap!Writing
<1>3. SwapTyped' /\ OneWriter'
  BY <1>1 DEF SwapInv, SwapTyped, OneWriter
<1>4. UnderTheLock' /\ Supervised'
  BY <1>2 DEF SwapInv, UnderTheLock, Supervised
<1> QED
  BY <1>3, <1>4 DEF SwapInv

\* A step of a request, or of the heartbeat, touches none of it.
LEMMA NotASwap ==
    ASSUME SwapInv, UNCHANGED <<supervisor, new_sup, process, swap>>
    PROVE  SwapInv'
BY DEF SwapInv, SwapTyped, OneWriter, UnderTheLock, Supervised, Swap!Writing

\* The subprocess dies, or is started for one of the supervisors.
LEMMA ProcessOnly ==
    ASSUME SwapInv, Swap!Spawn \/ Swap!Crash
    PROVE  SwapInv'
<1>1. UNCHANGED <<supervisor, new_sup, swap>>
  BY DEF Swap!Spawn, Swap!Crash, Swap!inner
<1>2. Supervised'
  BY <1>1 DEF Swap!Spawn, Swap!Crash, Supervised
<1> QED
  BY <1>1, <1>2 DEF SwapInv, SwapTyped, OneWriter, UnderTheLock, Swap!Writing

\* Replace takes the lock nobody holds and drops the old supervisor before the
\* new one is spawned.
LEMMA ReplaceInv ==
    ASSUME SwapInv, NEW w \in Swaps, Swap!Replace(w)
    PROVE  SwapInv'
<1>1. ~Swap!Writing
  BY DEF Swap!Replace, Swap!Granted
<1>2. /\ swap \in [Swaps \cup Unloads -> Swap!SwapStates]
      /\ swap' = [swap EXCEPT ![w] = "spawning"]
      /\ supervisor' = None /\ process' = None
  BY DEF Swap!Replace, SwapInv, SwapTyped
<1>3. \A v \in Swaps : swap'[v] = "spawning" <=> v = w
  BY <1>1, <1>2 DEF Swap!Writing
<1>4. SwapTyped'
  BY <1>2 DEF SwapTyped, Swap!SwapStates
<1>5. OneWriter' /\ Swap!Writing'
  BY <1>3 DEF OneWriter, Swap!Writing
<1> QED
  BY <1>2, <1>4, <1>5 DEF SwapInv, UnderTheLock, Supervised

\* Commit and HealthFailed end the load that holds the lock, the only one.
LEMMA EndOfLoad ==
    ASSUME SwapInv, NEW w \in Swaps, Swap!Commit(w) \/ Swap!HealthFailed(w)
    PROVE  SwapInv'
<1>1. /\ swap[w] = "spawning"
      /\ new_sup' = None
      /\ \E s \in {"loaded", "error"} : swap' = [swap EXCEPT ![w] = s]
  BY DEF Swap!Commit, Swap!HealthFailed
<1>2. \A v \in Swaps : swap'[v] # "spawning"
  BY <1>1 DEF SwapInv, SwapTyped, OneWriter
<1>3. SwapTyped'
  BY <1>1 DEF SwapInv, SwapTyped, Swap!SwapStates
<1>4. OneWriter' /\ UnderTheLock'
  BY <1>1, <1>2 DEF OneWriter, UnderTheLock, Swap!Writing
<1>5. Supervised'
  BY DEF Swap!Commit, Swap!HealthFailed, Supervised
<1> QED
  BY <1>3, <1>4, <1>5 DEF SwapInv

\* An unload runs when no load holds the lock, so the supervisor it drops is
\* the only one.
LEMMA UnloadInv ==
    ASSUME SwapInv, NEW u \in Unloads, Swap!unload_current(u)
    PROVE  SwapInv'
<1>1. ~Swap!Writing /\ swap[u] = "locking"
  BY DEF Swap!unload_current, Swap!Granted
<1>2. /\ swap' = [swap EXCEPT ![u] = "unloaded"]
      /\ supervisor' = None /\ process' = None /\ new_sup' = new_sup
  BY DEF Swap!unload_current
<1>3. \A v \in Swaps : swap'[v] # "spawning"
  BY <1>1, <1>2 DEF SwapInv, SwapTyped, Swap!Writing
<1>4. SwapTyped'
  BY <1>2 DEF SwapInv, SwapTyped, Swap!SwapStates
<1>5. OneWriter' /\ ~Swap!Writing'
  BY <1>3 DEF OneWriter, Swap!Writing
<1> QED
  BY <1>1, <1>2, <1>4, <1>5 DEF SwapInv, UnderTheLock, Supervised

\* Every other step of a load or an unload stays outside the lock.
LEMMA QueueInv ==
    ASSUME SwapInv,
           \/ \E w \in Swaps : \/ Swap!LoadModel(w) \/ Swap!AlreadyServing(w)
                              \/ Swap!Drain(w) \/ Swap!QueueForLock(w)
           \/ \E u \in Unloads : Swap!AskUnload(u)
    PROVE  SwapInv'
<1>1. UNCHANGED <<supervisor, new_sup, process>>
  BY DEF Swap!LoadModel, Swap!AlreadyServing, Swap!Drain, Swap!QueueForLock, Swap!AskUnload,
         Swap!inner, Swap!child
<1>2. PICK w \in Swaps \cup Unloads, s \in Swap!SwapStates \ {"spawning"} :
        swap[w] # "spawning" /\ swap' = [swap EXCEPT ![w] = s]
  BY Zenon DEF Swap!LoadModel, Swap!AlreadyServing, Swap!Drain, Swap!QueueForLock, Swap!AskUnload,
         Swap!SwapStates
<1> QED
  BY <1>1, <1>2, OutsideTheLock, Zenon

\* The strengthening is inductive.
LEMMA SwapNextInv == SwapInv /\ [Swap!Next]_(Swap!vars) => SwapInv'
<1> SUFFICES ASSUME SwapInv, [Swap!Next]_(Swap!vars) PROVE SwapInv'
  OBVIOUS
<1>1. CASE UNCHANGED Swap!vars
  BY <1>1, NotASwap DEF Swap!vars, Swap!inner, Swap!child
<1>2. CASE \E r \in Swap!Requests : Swap!Admit(r) \/ Swap!Serve(r)
  <2>1. UNCHANGED <<supervisor, new_sup, process, swap>>
    BY <1>2, Zenon DEF Swap!Admit, Swap!Serve, Swap!PreCheck, Swap!OpenStream, Swap!EnterBackend,
                Swap!stream_completion, Swap!EndOfStream, Swap!inner, Swap!child
  <2> QED
    BY <2>1, NotASwap
<1>3. ASSUME NEW w \in Swaps, Swap!LoadModel(w) \/ Swap!swap_to_path(w)
      PROVE  SwapInv'
  <2>1. CASE Swap!LoadModel(w) \/ Swap!AlreadyServing(w) \/ Swap!Drain(w) \/ Swap!QueueForLock(w)
    BY <2>1, QueueInv
  <2>2. CASE Swap!Replace(w)
    BY <2>2, ReplaceInv
  <2>3. CASE Swap!Commit(w) \/ Swap!HealthFailed(w)
    BY <2>3, EndOfLoad
  <2> QED
    BY <1>3, <2>1, <2>2, <2>3 DEF Swap!swap_to_path
<1>4. ASSUME NEW u \in Unloads, Swap!AskUnload(u) \/ Swap!unload_current(u)
      PROVE  SwapInv'
  BY <1>4, QueueInv, UnloadInv
<1>5. CASE Swap!Spawn \/ Swap!Crash
  BY <1>5, ProcessOnly
<1>6. CASE Swap!Heartbeat
  BY <1>6, NotASwap DEF Swap!Heartbeat, Swap!child
<1> QED
  BY <1>1, <1>2, <1>3, <1>4, <1>5, <1>6 DEF Swap!Next

\* swap_to_path shuts the old subprocess down before it spawns the next one,
\* and unload_current never runs beside a load: in every reachable state the
\* node has at most one supervisor, and a live subprocess is that supervisor's.
THEOREM OneSubprocessAlways == Swap!Spec => []Swap!OneSubprocess
<1>1. Swap!Init => SwapInv
  BY SwapInitInv
<1>2. SwapInv /\ [Swap!Next]_(Swap!vars) => SwapInv'
  BY SwapNextInv
<1>3. SwapInv => Swap!OneSubprocess
  BY SwapStrongEnough
<1> QED
  BY <1>1, <1>2, <1>3, PTL DEF Swap!Spec
=============================================================================
