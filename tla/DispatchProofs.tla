---------------------------- MODULE DispatchProofs ----------------------------
(***************************************************************************)
(* Proofs about Dispatch, for any number of requests, devices, retries and *)
(* lost connections: the answer a client gets is made of the chunks of one *)
(* attempt, in_flight is exact, the session table holds no session of an   *)
(* attempt that is over, and a settlement is for a job the paid device     *)
(* completed, once.                                                        *)
(*                                                                         *)
(* None is inductive alone.  That an answer has one source rests on        *)
(* got_first, which Retriable reads: it is set exactly while something of  *)
(* the current attempt was forwarded, and a request that is between two    *)
(* attempts has forwarded nothing (OneAttempt).  The counts rest on the    *)
(* target of every dispatch under way being a device (Targeted).  That the *)
(* settled work was served rests on where "complete" may still be, on the  *)
(* wire or in the handler's channel: Served, in the second part.           *)
(***************************************************************************)
EXTENDS Dispatch, FiniteSetTheorems, TLAPS

Typed ==
    /\ phase \in [Requests -> Phases]
    /\ target \in [Requests -> Nodes \cup {None}]
    /\ attempt \in [Requests -> Nat]
    /\ got_first \in [Requests -> BOOLEAN]
    /\ out \in [Requests -> SUBSET Nat]
    /\ in_flight \in [Nodes -> Nat]
    /\ sessions \subseteq Session

\* What a request has forwarded, by where it is.
AttemptOf(r) ==
    /\ got_first[r] => phase[r] = "streaming" /\ out[r] = {attempt[r]}
    /\ phase[r] = "streaming" /\ ~got_first[r] => out[r] = {}
    /\ phase[r] \in {"idle", "picking", "opening"} => out[r] = {}
    /\ \E a \in Nat : out[r] \subseteq {a}

OneAttempt == \A r \in Requests : AttemptOf(r)

Dispatched == {"opening", "streaming"}

\* A dispatch under way has a device and a session.
Aimed(r) == phase[r] \in Dispatched => target[r] \in Nodes /\ Current(r) \in Session

Targeted == \A r \in Requests : Aimed(r)

\* InFlightExact of states that are Typed.
Counted == \A n \in Nodes : in_flight[n] = Cardinality(Occupying(n))

IInv == Typed /\ OneAttempt /\ Targeted /\ Counted /\ SessionsOwned

(***************************************************************************)
(* Facts about sets of requests.                                           *)
(***************************************************************************)
\* The requests that occupy a device are finitely many.
LEMMA OccupyingFinite == \A n : IsFiniteSet(Occupying(n)) /\ Cardinality(Occupying(n)) \in Nat
<1> TAKE n
<1>1. Occupying(n) \in SUBSET Requests
  BY DEF Occupying
<1>2. IsFiniteSet(Occupying(n))
  BY <1>1, FS_Subset, ActorAssumption
<1> QED
  BY <1>2, FS_CardinalityType

\* An answer whose chunks are all of some attempt is of at most one.
LEMMA AtMostOne ==
    ASSUME NEW S, NEW a, S \subseteq {a}
    PROVE  Cardinality(S) <= 1
<1>1. CASE S = {}
  BY <1>1, FS_EmptySet
<1>2. CASE S = {a}
  <2>1. Cardinality({a}) = 1
    BY FS_Singleton
  <2> QED
    BY <1>2, <2>1
<1> QED
  BY <1>1, <1>2

\* The strengthening gives OneSource.
LEMMA StrongEnough == IInv => OneSource
<1> SUFFICES ASSUME IInv, NEW r \in Requests
             PROVE  Cardinality(out[r]) <= 1
  BY DEF OneSource, IInv, Typed
<1>1. PICK a \in Nat : out[r] \subseteq {a}
  BY DEF IInv, OneAttempt, AttemptOf
<1> QED
  BY <1>1, AtMostOne

\* At first no request was tried.
LEMMA InitInv == Init => IInv
<1> SUFFICES ASSUME Init PROVE IInv
  OBVIOUS
<1>1. Typed
  BY DEF Init, Typed, Phases
<1>2. OneAttempt /\ Targeted /\ SessionsOwned
  BY Zenon DEF Init, OneAttempt, AttemptOf, Targeted, Aimed, Dispatched, SessionsOwned
<1>3. \A n \in Nodes : Occupying(n) = {}
  BY DEF Init, Occupying
<1>4. Counted
  BY <1>3, FS_EmptySet, Zenon DEF Init, Counted
<1> QED
  BY <1>1, <1>2, <1>4 DEF IInv

(***************************************************************************)
(* Steps that leave the requests where they are.                           *)
(***************************************************************************)
\* The relay reader, the connections and the devices take sessions out of the
\* table at most.
LEMMA Elsewhere ==
    ASSUME IInv, sessions' \subseteq sessions,
           UNCHANGED <<phase, target, attempt, got_first, out, in_flight>>
    PROVE  IInv'
<1>1. Typed' /\ OneAttempt' /\ Targeted'
  BY DEF IInv, Typed, OneAttempt, AttemptOf, Targeted, Aimed, Current
<1>2. \A n : Occupying(n)' = Occupying(n)
  BY DEF Occupying
<1>3. Counted'
  BY <1>2 DEF IInv, Counted
<1>4. SessionsOwned'
  BY DEF IInv, SessionsOwned, Current, Owner
<1> QED
  BY <1>1, <1>3, <1>4 DEF IInv

\* What the relay client does with a message of the relay.
LEMMA IncomingInv ==
    ASSUME IInv, NEW s \in Session, handle_incoming(s)
    PROVE  IInv'
<1>1. UNCHANGED <<phase, target, attempt, got_first, out, in_flight>>
  BY DEF handle_incoming, request
<1>2. sessions' \subseteq sessions
  <2>1. CASE relay_ready(s)
    BY <2>1 DEF relay_ready
  <2>2. CASE inference_chunk(s)
    BY <2>2 DEF inference_chunk, tables
  <2>3. CASE ghost_close_once(s)
    BY <2>3 DEF ghost_close_once, close_session
  <2>4. ASSUME NEW m, inference_end(s, m) PROVE sessions' \subseteq sessions
    BY <2>4 DEF inference_end
  <2>5. ASSUME NEW n, peer_not_found(n) PROVE sessions' \subseteq sessions
    BY <2>5 DEF peer_not_found
  <2> QED
    BY <2>1, <2>2, <2>3, <2>4, <2>5 DEF handle_incoming
<1> QED
  BY <1>1, <1>2, Elsewhere

\* What the relay, the devices and the connections do.
LEMMA RelayAndDevicesInv ==
    ASSUME IInv,
           \/ Connections
           \/ \E s \in Session : forwardToTarget(s) \/ node_dispatch(s) \/ JobEmits(s) \/ JobEnds(s)
    PROVE  IInv'
<1>1. /\ UNCHANGED <<phase, target, attempt, got_first, out, in_flight>>
      /\ sessions' \subseteq sessions
  <2>1. CASE GatewayDisconnects
    BY <2>1 DEF GatewayDisconnects, request
  <2>2. CASE GatewayReconnects \/ \E n \in Nodes : QuarantineExpires(n)
    BY <2>2 DEF GatewayReconnects, QuarantineExpires, request, answer, tables
  <2>3. CASE \E n \in Nodes : NodeDisconnects(n) \/ NodeReconnects(n) \/ HearsPeerLeft(n)
    BY <2>3 DEF NodeDisconnects, NodeReconnects, HearsPeerLeft, request, answer, tables
  <2>4. CASE \E s \in Session : forwardToTarget(s) \/ node_dispatch(s) \/ JobEmits(s) \/ JobEnds(s)
    BY <2>4, Zenon DEF forwardToTarget, node_dispatch, JobEmits, JobEnds, request, answer, tables
  <2> QED
    BY <2>1, <2>2, <2>3, <2>4 DEF Connections
<1> QED
  BY <1>1, Elsewhere

(***************************************************************************)
(* Steps of one request.                                                   *)
(***************************************************************************)
\* The step leaves q alone.
Untouched(q) ==
    /\ phase'[q] = phase[q] /\ target'[q] = target[q] /\ attempt'[q] = attempt[q]
    /\ got_first'[q] = got_first[q] /\ out'[q] = out[q]

\* A step of r keeps the invariant when it keeps it for r.
LEMMA OfOneRequest ==
    ASSUME IInv, NEW r \in Requests, Typed', Counted',
           \A q \in Requests \ {r} : Untouched(q),
           AttemptOf(r)', Aimed(r)',
           \A s \in sessions' : \/ s \in sessions /\ Owner(s) # r
                                \/ s = <<r, attempt'[r]>> /\ phase'[r] = "streaming"
    PROVE  IInv'
<1>1. ASSUME NEW q \in Requests PROVE AttemptOf(q)'
  <2>1. CASE q = r
    BY <2>1
  <2>2. CASE q # r
    <3>1. AttemptOf(q) /\ Untouched(q)
      BY <2>2 DEF IInv, OneAttempt
    <3> QED
      BY <3>1, Zenon DEF AttemptOf, Untouched
  <2> QED
    BY <2>1, <2>2
<1>2. OneAttempt'
  BY <1>1 DEF OneAttempt
<1>3. Targeted'
  BY DEF IInv, Targeted, Aimed, Current, Untouched
<1>4. ASSUME NEW s \in sessions'
      PROVE  s = <<Owner(s), attempt'[Owner(s)]>> /\ phase'[Owner(s)] = "streaming"
  <2>1. CASE s \in sessions /\ Owner(s) # r
    <3>1. Owner(s) \in Requests \ {r}
      BY <2>1 DEF IInv, Typed, Session, Owner
    <3> QED
      BY <2>1, <3>1 DEF IInv, SessionsOwned, Current, Untouched
  <2>2. CASE s = <<r, attempt'[r]>> /\ phase'[r] = "streaming"
    BY <2>2 DEF Owner
  <2> QED
    BY <1>4, <2>1, <2>2
<1>5. SessionsOwned'
  BY <1>4 DEF SessionsOwned, Current, Owner
<1> QED
  BY <1>2, <1>3, <1>5 DEF IInv

\* No session of a request that does not stream is in the table.
LEMMA NoSession ==
    ASSUME IInv, NEW r \in Requests, phase[r] # "streaming"
    PROVE  \A s \in sessions : Owner(s) # r
BY DEF IInv, SessionsOwned

\* Once its current session is out of the table, none of the request is in it.
LEMMA SessionRemoved ==
    ASSUME IInv, NEW r \in Requests, close_session(Current(r))
    PROVE  \A s \in sessions' : s \in sessions /\ Owner(s) # r
BY DEF IInv, SessionsOwned, close_session

\* in_flight stays when r occupies the devices it did.
LEMMA CountKept ==
    ASSUME IInv, NEW r \in Requests, \A q \in Requests \ {r} : Untouched(q),
           UNCHANGED in_flight,
           phase'[r] \in Dispatched <=> phase[r] \in Dispatched,
           phase[r] \in Dispatched => target'[r] = target[r]
    PROVE  Counted'
<1>1. \A n \in Nodes : Occupying(n)' = Occupying(n)
  BY DEF Occupying, Untouched, Dispatched
<1> QED
  BY <1>1 DEF IInv, Counted

\* in_flight of the device r leaves goes down by one.
LEMMA CountDown ==
    ASSUME IInv, NEW r \in Requests, \A q \in Requests \ {r} : Untouched(q),
           phase[r] \in Dispatched, phase'[r] \notin Dispatched,
           in_flight' = Uncounted(target[r])
    PROVE  in_flight' \in [Nodes -> Nat] /\ Counted'
<1> PICK t \in Nodes : t = target[r]
  BY DEF IInv, Targeted, Aimed
<1>1. in_flight \in [Nodes -> Nat]
  BY DEF IInv, Typed
<1>2. \A n \in Nodes : in_flight[n] = Cardinality(Occupying(n))
  BY DEF IInv, Counted
<1>3. r \in Occupying(t) /\ Occupying(t)' = Occupying(t) \ {r}
  BY DEF Occupying, Untouched, Dispatched
<1>4. \A n \in Nodes \ {t} : Occupying(n)' = Occupying(n)
  BY DEF Occupying, Untouched, Dispatched
<1>5. Cardinality(Occupying(t)') = Cardinality(Occupying(t)) - 1
  <2>1. IsFiniteSet(Occupying(t))
    BY OccupyingFinite
  <2>2. Cardinality(Occupying(t) \ {r}) = Cardinality(Occupying(t)) - 1
    BY <1>3, <2>1, FS_RemoveElement, Zenon
  <2> QED
    BY <1>3, <2>2
<1>6. Cardinality(Occupying(t)') \in Nat
  BY <1>3, OccupyingFinite, FS_RemoveElement, FS_CardinalityType
<1>7. in_flight'[t] = Cardinality(Occupying(t)') /\ \A n \in Nodes \ {t} : in_flight'[n] = in_flight[n]
  <2>1. in_flight' = [in_flight EXCEPT ![t] = in_flight[t] - 1]
    BY DEF Uncounted
  <2>2. in_flight[t] - 1 = Cardinality(Occupying(t)')
    BY <1>2, <1>5
  <2> QED
    BY <1>1, <2>1, <2>2
<1>8. in_flight' \in [Nodes -> Nat]
  <2>1. in_flight' = [in_flight EXCEPT ![t] = in_flight'[t]]
    BY <1>1, Zenon DEF Uncounted
  <2>2. in_flight'[t] \in Nat
    BY <1>6, <1>7
  <2> QED
    BY <1>1, <2>1, <2>2, Zenon
<1>9. \A n \in Nodes : in_flight'[n] = Cardinality(Occupying(n)')
  <2> TAKE n \in Nodes
  <2>1. CASE n = t
    BY <1>7, <2>1
  <2>2. CASE n # t
    BY <1>2, <1>4, <1>7, <2>2
  <2> QED
    BY <2>1, <2>2
<1> QED
  BY <1>8, <1>9 DEF Counted

\* in_flight of the device r is dispatched to goes up by one.
LEMMA CountUp ==
    ASSUME IInv, NEW r \in Requests, NEW t \in Nodes, \A q \in Requests \ {r} : Untouched(q),
           phase[r] \notin Dispatched, phase'[r] \in Dispatched, target'[r] = t,
           in_flight' = [in_flight EXCEPT ![t] = @ + 1]
    PROVE  in_flight' \in [Nodes -> Nat] /\ Counted'
<1>1. in_flight \in [Nodes -> Nat]
  BY DEF IInv, Typed
<1>2. \A n \in Nodes : in_flight[n] = Cardinality(Occupying(n))
  BY DEF IInv, Counted
<1>3. r \notin Occupying(t) /\ Occupying(t)' = Occupying(t) \cup {r}
  BY DEF Occupying, Untouched, Dispatched
<1>4. \A n \in Nodes \ {t} : Occupying(n)' = Occupying(n)
  BY DEF Occupying, Untouched, Dispatched
<1>5. Cardinality(Occupying(t)') = Cardinality(Occupying(t)) + 1
  <2>1. IsFiniteSet(Occupying(t))
    BY OccupyingFinite
  <2>2. Cardinality(Occupying(t) \cup {r}) = Cardinality(Occupying(t)) + 1
    BY <1>3, <2>1, FS_AddElement, Zenon
  <2> QED
    BY <1>3, <2>2
<1>6. in_flight'[t] = in_flight[t] + 1 /\ \A n \in Nodes \ {t} : in_flight'[n] = in_flight[n]
  BY <1>1
<1>7. \A n \in Nodes : in_flight'[n] = Cardinality(Occupying(n)')
  <2> TAKE n \in Nodes
  <2>1. CASE n = t
    BY <1>2, <1>5, <1>6, <2>1
  <2>2. CASE n # t
    BY <1>2, <1>4, <1>6, <2>2
  <2> QED
    BY <2>1, <2>2
<1>8. in_flight' \in [Nodes -> Nat]
  <2>1. in_flight[t] + 1 \in Nat
    BY <1>1
  <2> QED
    BY <1>1, <2>1
<1> QED
  BY <1>7, <1>8 DEF Counted

\* A request arrives or is tried again.
LEMMA BeginInv ==
    ASSUME IInv, NEW r \in Requests, BeginAttempt(r)
    PROVE  IInv'
<1>1. /\ phase[r] = "idle" /\ phase' = [phase EXCEPT ![r] = "picking"]
      /\ UNCHANGED <<target, attempt, got_first, out, in_flight, sessions>>
  BY DEF BeginAttempt, answer, tables
<1>2. Typed' /\ phase'[r] = "picking"
  BY <1>1 DEF IInv, Typed, Phases
<1>3. \A q \in Requests \ {r} : Untouched(q)
  BY <1>1 DEF IInv, Typed, Untouched
<1>4. AttemptOf(r)'
  BY <1>1, <1>2, Zenon DEF IInv, OneAttempt, AttemptOf
<1>5. Counted'
  BY <1>1, <1>2, <1>3, CountKept DEF Dispatched
<1>6. \A s \in sessions' : s \in sessions /\ Owner(s) # r
  BY <1>1, NoSession
<1> QED
  BY <1>2, <1>3, <1>4, <1>5, <1>6, OfOneRequest DEF Aimed, Dispatched

\* pick_and_dispatch gives up, avoids a device, or opens a session to one.
LEMMA PickInv ==
    ASSUME IInv, NEW r \in Requests, pick_and_dispatch(r)
    PROVE  IInv'
<1>1. phase[r] = "picking" /\ UNCHANGED <<got_first, out, sessions>>
  BY DEF pick_and_dispatch, answer
<1>2. out[r] = {} /\ ~got_first[r]
  BY <1>1 DEF IInv, OneAttempt, AttemptOf
<1>3. \A s \in sessions' : s \in sessions /\ Owner(s) # r
  BY <1>1, NoSession
<1>4. PICK devices \in SUBSET Nodes :
         \/ NoDevice(r, devices)
         \/ \E n \in pick(r, devices) : HeavyRefused(r, n) \/ open_session(r, n)
  <2>1. \A full, sticky : Candidates(r, full, sticky) \in SUBSET Nodes
    BY Zenon DEF Candidates, Prefer, eligible_devices
  <2> QED
    BY <2>1 DEF pick_and_dispatch
<1>5. CASE NoDevice(r, devices)
  <2>1. /\ phase' = [phase EXCEPT ![r] = "failed"]
        /\ UNCHANGED <<target, attempt, in_flight>>
    BY <1>5 DEF NoDevice
  <2>2. Typed' /\ phase'[r] = "failed"
    BY <1>1, <2>1 DEF IInv, Typed, Phases, Final
  <2>3. \A q \in Requests \ {r} : Untouched(q)
    BY <1>1, <2>1 DEF IInv, Typed, Untouched
  <2>4. AttemptOf(r)'
    BY <1>1, <1>2, <2>2 DEF AttemptOf
  <2>5. Counted'
    BY <1>1, <2>1, <2>2, <2>3, CountKept DEF Dispatched
  <2> QED
    BY <1>3, <2>2, <2>3, <2>4, <2>5, OfOneRequest, Zenon DEF Aimed, Dispatched
<1>6. CASE \E n \in pick(r, devices) : HeavyRefused(r, n)
  <2>1. UNCHANGED <<phase, target, attempt, in_flight>>
    BY <1>6 DEF HeavyRefused
  <2> QED
    BY <1>1, <2>1, Elsewhere
<1>7. ASSUME NEW n \in pick(r, devices), open_session(r, n)
      PROVE  IInv'
  <2>1. /\ phase' = [phase EXCEPT ![r] = "opening"]
        /\ target' = [target EXCEPT ![r] = n]
        /\ attempt' = [attempt EXCEPT ![r] = @ + 1]
        /\ in_flight' = [in_flight EXCEPT ![n] = @ + 1]
        /\ <<r, attempt[r] + 1>> \in Session
    BY <1>7 DEF open_session
  <2>2. n \in Nodes
    BY DEF pick, Viable
  <2>3. phase'[r] = "opening" /\ target'[r] = n /\ attempt'[r] = attempt[r] + 1
    BY <2>1 DEF IInv, Typed
  <2>4. \A q \in Requests \ {r} : Untouched(q)
    BY <1>1, <2>1 DEF IInv, Typed, Untouched
  <2>5. in_flight' \in [Nodes -> Nat] /\ Counted'
    BY <1>1, <2>1, <2>2, <2>3, <2>4, CountUp, Zenon DEF Dispatched
  <2>6. Typed'
    <3>1. phase' \in [Requests -> Phases]
      BY <2>1 DEF IInv, Typed, Phases
    <3>2. target' \in [Requests -> Nodes \cup {None}]
      BY <2>1, <2>2 DEF IInv, Typed
    <3>3. attempt' \in [Requests -> Nat]
      <4>1. attempt \in [Requests -> Nat]
        BY DEF IInv, Typed
      <4>2. attempt[r] + 1 \in Nat
        BY <4>1
      <4> QED
        BY <2>1, <4>1, <4>2
    <3> QED
      BY <1>1, <2>5, <3>1, <3>2, <3>3 DEF IInv, Typed
  <2>7. AttemptOf(r)'
    BY <1>1, <1>2, <2>3 DEF AttemptOf
  <2>8. Aimed(r)'
    BY <2>1, <2>2, <2>3 DEF Aimed, Current
  <2> QED
    BY <1>3, <2>4, <2>5, <2>6, <2>7, <2>8, OfOneRequest, Zenon
<1> QED
  BY <1>4, <1>5, <1>6, <1>7

\* The session is registered for the attempt that starts to stream.
LEMMA HandoffInv ==
    ASSUME IInv, NEW r \in Requests, Handoff(r)
    PROVE  IInv'
<1>1. /\ phase[r] = "opening" /\ phase' = [phase EXCEPT ![r] = "streaming"]
      /\ sessions' = sessions \cup {Current(r)}
      /\ UNCHANGED <<target, attempt, got_first, out, in_flight>>
  BY DEF Handoff, answer
<1>2. Aimed(r) /\ phase'[r] = "streaming"
  BY <1>1 DEF IInv, Typed, Targeted
<1>3. target[r] \in Nodes /\ Current(r) \in Session
  BY <1>1, <1>2 DEF Aimed, Dispatched
<1>4. Typed'
  BY <1>1, <1>3 DEF IInv, Typed, Phases
<1>5. \A q \in Requests \ {r} : Untouched(q)
  BY <1>1 DEF IInv, Typed, Untouched
<1>6. AttemptOf(r)'
  BY <1>1, <1>2, Zenon DEF IInv, OneAttempt, AttemptOf
<1>7. Counted'
  BY <1>1, <1>2, <1>5, CountKept DEF Dispatched
<1>8. Aimed(r)'
  BY <1>1, <1>3, Zenon DEF Aimed, Current
<1>9. \A s \in sessions' : \/ s \in sessions /\ Owner(s) # r
                           \/ s = <<r, attempt'[r]>> /\ phase'[r] = "streaming"
  BY <1>1, <1>2, NoSession DEF Current
<1> QED
  BY <1>4, <1>5, <1>6, <1>7, <1>8, <1>9, OfOneRequest

\* The open failed: the guard gives the count back.
LEMMA OpenFailedInv ==
    ASSUME IInv, NEW r \in Requests, OpenFailed(r)
    PROVE  IInv'
<1>1. /\ phase[r] = "opening" /\ phase' = [phase EXCEPT ![r] = "picking"]
      /\ target' = [target EXCEPT ![r] = None]
      /\ in_flight' = Uncounted(target[r])
      /\ UNCHANGED <<attempt, got_first, out, sessions>>
  BY DEF OpenFailed, InFlightGuard, answer
<1>2. phase'[r] = "picking"
  BY <1>1 DEF IInv, Typed
<1>3. \A q \in Requests \ {r} : Untouched(q)
  BY <1>1 DEF IInv, Typed, Untouched
<1>4. in_flight' \in [Nodes -> Nat] /\ Counted'
  BY <1>1, <1>2, <1>3, CountDown DEF Dispatched
<1>5. Typed'
  BY <1>1, <1>4 DEF IInv, Typed, Phases
<1>6. AttemptOf(r)'
  BY <1>1, <1>2 DEF IInv, OneAttempt, AttemptOf
<1>7. \A s \in sessions' : s \in sessions /\ Owner(s) # r
  BY <1>1, NoSession
<1> QED
  BY <1>2, <1>3, <1>4, <1>5, <1>6, <1>7, OfOneRequest, Zenon DEF Aimed, Dispatched

\* A chunk is forwarded: from now on the request is not retried.
LEMMA ChunkInv ==
    ASSUME IInv, NEW r \in Requests, Chunk(r)
    PROVE  IInv'
<1>1. /\ phase[r] = "streaming"
      /\ got_first' = [got_first EXCEPT ![r] = TRUE]
      /\ out' = [out EXCEPT ![r] = @ \cup {attempt[r]}]
      /\ UNCHANGED <<phase, target, attempt, in_flight, sessions>>
  BY DEF Chunk, tables
<1>2. Typed'
  BY <1>1 DEF IInv, Typed
<1>3. \A q \in Requests \ {r} : Untouched(q)
  BY <1>1 DEF IInv, Typed, Untouched
<1>4. out[r] \subseteq {attempt[r]}
  BY <1>1 DEF IInv, Typed, OneAttempt, AttemptOf
<1>5. out'[r] = {attempt[r]} /\ got_first'[r] /\ attempt[r] \in Nat
  BY <1>1, <1>4 DEF IInv, Typed
<1>6. AttemptOf(r)'
  BY <1>1, <1>5, Zenon DEF AttemptOf
<1>7. Counted'
  BY <1>1, <1>3, CountKept
<1>8. \A s \in sessions' : \/ s \in sessions /\ Owner(s) # r
                           \/ s = <<r, attempt'[r]>> /\ phase'[r] = "streaming"
  <2>1. sessions' = sessions /\ attempt'[r] = attempt[r] /\ phase'[r] = "streaming"
    BY <1>1, Zenon
  <2>2. \A s \in sessions : Owner(s) = r => s = <<r, attempt[r]>>
    BY Zenon DEF IInv, SessionsOwned, Current
  <2> QED
    BY <2>1, <2>2, Zenon
<1>9. Aimed(r)'
  BY <1>1 DEF IInv, Targeted, Aimed, Current
<1> QED
  BY <1>2, <1>3, <1>6, <1>7, <1>8, <1>9, OfOneRequest, Zenon

\* An attempt ends: it is retried only when nothing was forwarded.
LEMMA EndInv ==
    ASSUME IInv, NEW r \in Requests, EndAttempt(r)
    PROVE  IInv'
<1>1. /\ phase[r] = "streaming"
      /\ close_session(Current(r))
      /\ in_flight' = Uncounted(target[r])
      /\ got_first' = [got_first EXCEPT ![r] = FALSE]
      /\ UNCHANGED <<target, attempt, out>>
  BY DEF EndAttempt
<1>2. PICK p \in {"idle", "done", "settling", "failed"} :
         /\ phase' = [phase EXCEPT ![r] = p]
         /\ p = "idle" => ~got_first[r]
  <2>1. PICK e \in Endings(r) :
           phase' = [phase EXCEPT ![r] = CASE Retriable(r, e) -> "idle"
                                           [] Completed(e) /\ r \in Buffered -> "done"
                                           [] Completed(e) /\ r \notin Buffered -> "settling"
                                           [] OTHER -> "failed"]
    BY Zenon DEF EndAttempt
  <2>2. CASE Retriable(r, e)
    BY <2>1, <2>2, Zenon DEF Retriable
  <2>3. CASE ~Retriable(r, e) /\ Completed(e)
    BY <2>1, <2>3, Zenon
  <2>4. CASE ~Retriable(r, e) /\ ~Completed(e)
    BY <2>1, <2>4
  <2> QED
    BY <2>2, <2>3, <2>4
<1>3. phase'[r] = p /\ p \notin Dispatched /\ ~got_first'[r]
  BY <1>1, <1>2 DEF IInv, Typed, Dispatched
<1>4. \A q \in Requests \ {r} : Untouched(q)
  BY <1>1, <1>2 DEF IInv, Typed, Untouched
<1>5. in_flight' \in [Nodes -> Nat] /\ Counted'
  BY <1>1, <1>3, <1>4, CountDown DEF Dispatched
<1>6. Typed'
  <2>1. phase' \in [Requests -> Phases]
    <3>1. p \in Phases
      BY DEF Phases, Final
    <3> QED
      BY <1>2, <3>1, Zenon DEF IInv, Typed
  <2>2. got_first' \in [Requests -> BOOLEAN]
    BY <1>1 DEF IInv, Typed
  <2>3. sessions' \subseteq Session
    BY <1>1, Zenon DEF IInv, Typed, close_session
  <2> QED
    BY <1>1, <1>5, <2>1, <2>2, <2>3, Zenon DEF IInv, Typed
<1>7. AttemptOf(r)'
  BY <1>1, <1>2, <1>3, Zenon DEF IInv, OneAttempt, AttemptOf
<1>8. \A s \in sessions' : s \in sessions /\ Owner(s) # r
  BY <1>1, SessionRemoved
<1> QED
  BY <1>3, <1>4, <1>5, <1>6, <1>7, <1>8, OfOneRequest, Zenon DEF Aimed

\* The settlement of a stream.
LEMMA SettleInv ==
    ASSUME IInv, NEW r \in Requests, Settle(r)
    PROVE  IInv'
<1>1. /\ phase[r] = "settling" /\ phase' = [phase EXCEPT ![r] = "done"]
      /\ UNCHANGED <<target, attempt, got_first, out, in_flight, sessions>>
  BY DEF Settle, tables
<1>2. Typed' /\ phase'[r] = "done"
  BY <1>1 DEF IInv, Typed, Phases, Final
<1>3. \A q \in Requests \ {r} : Untouched(q)
  BY <1>1 DEF IInv, Typed, Untouched
<1>4. AttemptOf(r)'
  BY <1>1, <1>2, Zenon DEF IInv, OneAttempt, AttemptOf
<1>5. Counted'
  BY <1>1, <1>2, <1>3, CountKept DEF Dispatched
<1>6. \A s \in sessions' : s \in sessions /\ Owner(s) # r
  BY <1>1, NoSession
<1> QED
  BY <1>2, <1>3, <1>4, <1>5, <1>6, OfOneRequest DEF Aimed, Dispatched

\* The handler is dropped at an await: the guard it holds there cleans up.
LEMMA DropInv ==
    ASSUME IInv, NEW r \in Requests, Drop(r)
    PROVE  IInv'
<1>1. /\ phase' = [phase EXCEPT ![r] = "dropped"]
      /\ got_first' = [got_first EXCEPT ![r] = FALSE]
      /\ UNCHANGED <<target, attempt, out>>
  BY Zenon DEF Drop
<1>2. phase'[r] = "dropped" /\ ~got_first'[r]
  BY <1>1 DEF IInv, Typed
<1>3. \A q \in Requests \ {r} : Untouched(q)
  BY <1>1 DEF IInv, Typed, Untouched
<1>4. AttemptOf(r)'
  BY <1>1, <1>2 DEF IInv, OneAttempt, AttemptOf
<1>5. /\ in_flight' \in [Nodes -> Nat] /\ Counted'
      /\ \A s \in sessions' : s \in sessions /\ Owner(s) # r
  <2>1. CASE phase[r] = "opening" /\ InFlightGuard(r) /\ UNCHANGED sessions
    <3>1. in_flight' = Uncounted(target[r])
      BY <2>1 DEF InFlightGuard
    <3> QED
      BY <2>1, <3>1, <1>2, <1>3, CountDown, NoSession, Zenon DEF Dispatched
  <2>2. CASE phase[r] = "streaming" /\ SessionCleanup(r)
    <3>1. in_flight' = Uncounted(target[r]) /\ close_session(Current(r))
      BY <2>2 DEF SessionCleanup
    <3> QED
      BY <2>2, <3>1, <1>2, <1>3, CountDown, SessionRemoved, Zenon DEF Dispatched
  <2>3. CASE phase[r] \in {"idle", "picking", "settling"} /\ UNCHANGED <<in_flight, sessions>>
    <3>1. in_flight' \in [Nodes -> Nat]
      BY <2>3 DEF IInv, Typed
    <3> QED
      BY <2>3, <3>1, <1>2, <1>3, CountKept, NoSession, Zenon DEF Dispatched
  <2> QED
    BY <2>1, <2>2, <2>3, Zenon DEF Drop
<1>6. Typed'
  BY <1>1, <1>5 DEF IInv, Typed, Phases, Final
<1> QED
  BY <1>2, <1>3, <1>4, <1>5, <1>6, OfOneRequest DEF Aimed, Dispatched

(***************************************************************************)
(* The theorems.                                                           *)
(***************************************************************************)
\* The strengthening is inductive.
LEMMA NextInv == IInv /\ [Next]_vars => IInv'
<1> SUFFICES ASSUME IInv, [Next]_vars PROVE IInv'
  OBVIOUS
<1>1. CASE UNCHANGED vars
  BY <1>1, Elsewhere DEF vars, request, answer, tables
<1>2. ASSUME NEW r \in Requests, Handler(r) \/ Drop(r)
      PROVE  IInv'
  BY <1>2, BeginInv, PickInv, HandoffInv, OpenFailedInv, ChunkInv, EndInv, SettleInv, DropInv
     DEF Handler
<1>3. ASSUME NEW s \in Session, Messages(s) \/ JobEmits(s) \/ JobEnds(s)
      PROVE  IInv'
  BY <1>3, IncomingInv, RelayAndDevicesInv DEF Messages
<1>4. CASE Connections
  BY <1>4, RelayAndDevicesInv
<1> QED
  BY <1>1, <1>2, <1>3, <1>4 DEF Next

\* The strengthening holds in every reachable state.
LEMMA Invariance == Spec => []IInv
<1>1. Init => IInv
  BY InitInv
<1>2. IInv /\ [Next]_vars => IInv'
  BY NextInv
<1> QED
  BY <1>1, <1>2, PTL DEF Spec

\* The retry loops of run_streaming and run_buffered never put chunks of two
\* attempts in one answer, however many devices, retries and disconnections.
THEOREM OneSourceAlways == Spec => []OneSource
<1>1. IInv => OneSource
  BY StrongEnough
<1> QED
  BY <1>1, Invariance, PTL

\* in_flight of every device is the number of requests that occupy it, on all
\* the ways a dispatch can end (InFlightGuard, SessionCleanup, the attempt's
\* end), and the session table holds sessions of live attempts only.
THEOREM CountsAlwaysExact == Spec => []CountedExactly
<1>1. IInv => CountedExactly
  <2> SUFFICES ASSUME IInv PROVE CountedExactly
    OBVIOUS
  <2>1. DOMAIN in_flight = Nodes /\ DOMAIN phase = Requests
    BY DEF IInv, Typed
  <2>2. InFlightExact
    BY <2>1, Zenon DEF IInv, Counted, Occupying, InFlightExact
  <2> QED
    BY <2>2 DEF IInv, CountedExactly
<1> QED
  BY <1>1, Invariance, PTL

(***************************************************************************)
(* What was settled was served.  A request reaches a device once, so a job *)
(* that is complete stays complete, and "complete" is on its way to the    *)
(* gateway or in a handler's channel only for a job that is.               *)
(***************************************************************************)
\* The messages of a session and the events of a channel.
Word == {"open", "request", "close", "ready", "chunk", "complete", "peer_not_found",
         "disconnect"} \cup Errors

Jobs == {"none", "running", "complete", "failed", "aborted"}

Has(q, m) == \E i \in DOMAIN q : q[i] = m

Single(q) == \A i, j \in DOMAIN q : q[i] = "request" /\ q[j] = "request" => i = j

Queues ==
    /\ toNode \in [Session -> Seq(Word)]
    /\ toGw \in [Session -> Seq(Word)]
    /\ chan \in [Requests -> Seq(Word)]
    /\ settled \in [Requests -> Seq(Nodes \cup {None})]
    /\ node_of \in [Session -> Nodes \cup {None}]
    /\ job \in [Session -> Jobs]

\* No request was sent over s yet.
Unsent(s) ==
    \/ s[2] > attempt[s[1]]
    \/ s[2] = attempt[s[1]] /\ phase[s[1]] = "opening"

SessionOK(s) ==
    /\ Has(toGw[s], "complete") => job[s] = "complete"
    /\ Has(toNode[s], "request") => job[s] = "none"
    /\ Single(toNode[s])
    /\ Unsent(s) => ~Has(toNode[s], "request") /\ job[s] = "none"

RequestOK(r) ==
    /\ phase[r] # "streaming" => chan[r] = <<>>
    /\ Has(chan[r], "complete") => job[Current(r)] = "complete"
    /\ phase[r] \in {"opening", "streaming", "settling"}
          => Current(r) \in Session /\ target[r] = node_of[Current(r)]
    /\ phase[r] = "settling" => job[Current(r)] = "complete"
    /\ settled[r] # <<>> =>
          /\ phase[r] = "done" /\ Current(r) \in Session
          /\ Len(settled[r]) = 1 /\ job[Current(r)] = "complete"
          /\ settled[r][1] = node_of[Current(r)]

Served == /\ Queues
          /\ \A s \in Session : SessionOK(s)
          /\ \A r \in Requests : RequestOK(r)

\* An empty queue holds nothing.
LEMMA EmptyQueue == <<>> \in Seq(Word) /\ Single(<<>>) /\ ~Has(<<>>, "complete") /\ ~Has(<<>>, "request")
BY DEF Has, Single

\* What a queue holds after Append and Tail.
LEMMA QueueFacts ==
    ASSUME NEW q \in Seq(Word)
    PROVE  /\ \A x \in Word :
                 /\ Append(q, x) \in Seq(Word)
                 /\ \A m : Has(Append(q, x), m) <=> Has(q, m) \/ x = m
                 /\ Single(q) /\ (x = "request" => ~Has(q, "request")) => Single(Append(q, x))
           /\ q # <<>> => /\ Tail(q) \in Seq(Word) /\ Head(q) \in Word
                          /\ Has(q, Head(q))
                          /\ \A m : Has(Tail(q), m) => Has(q, m)
                          /\ Single(q) => Single(Tail(q))
                          /\ Single(q) /\ Head(q) = "request" => ~Has(Tail(q), "request")
<1>1. ASSUME NEW x \in Word
      PROVE  /\ Append(q, x) \in Seq(Word)
             /\ \A m : Has(Append(q, x), m) <=> Has(q, m) \/ x = m
             /\ Single(q) /\ (x = "request" => ~Has(q, "request")) => Single(Append(q, x))
  <2>1. /\ Append(q, x) \in Seq(Word) /\ DOMAIN Append(q, x) = 1 .. Len(q) + 1
        /\ DOMAIN q = 1 .. Len(q) /\ Len(q) \in Nat
        /\ \A i \in 1 .. Len(q) : Append(q, x)[i] = q[i]
        /\ Append(q, x)[Len(q) + 1] = x
    <3>1. Append(q, x) \in Seq(Word)
      OBVIOUS
    <3>2. DOMAIN q = 1 .. Len(q) /\ Len(q) \in Nat
      OBVIOUS
    <3>3. DOMAIN Append(q, x) = 1 .. Len(q) + 1
      OBVIOUS
    <3>4. ASSUME NEW i \in 1 .. Len(q) PROVE Append(q, x)[i] = q[i]
      BY <3>2
    <3>5. Append(q, x)[Len(q) + 1] = x
      OBVIOUS
    <3> QED
      BY <3>1, <3>2, <3>3, <3>4, <3>5, Zenon
  <2> HIDE DEF Has
  <2>0. Len(q) \in Nat
    BY <2>1, Zenon
  <2>2. ASSUME NEW m PROVE Has(Append(q, x), m) <=> Has(q, m) \/ x = m
    <3>1. ASSUME NEW i \in 1 .. Len(q) + 1, Append(q, x)[i] = m PROVE Has(q, m) \/ x = m
      <4>1. i \in 1 .. Len(q) \/ i = Len(q) + 1
        BY <2>0
      <4> QED
        BY <2>1, <3>1, <4>1, Zenon DEF Has
    <3>2. ASSUME NEW i \in 1 .. Len(q), q[i] = m PROVE Has(Append(q, x), m)
      <4>1. i \in 1 .. Len(q) + 1
        BY <2>0
      <4> QED
        BY <2>1, <3>2, <4>1, Zenon DEF Has
    <3>3. Len(q) + 1 \in 1 .. Len(q) + 1
      BY <2>0
    <3> QED
      BY <2>1, <3>1, <3>2, <3>3, Zenon DEF Has
  <2>3. ASSUME Single(q), x = "request" => ~Has(q, "request") PROVE Single(Append(q, x))
    <3>1. SUFFICES ASSUME NEW i \in 1 .. Len(q) + 1, NEW j \in 1 .. Len(q) + 1,
                          Append(q, x)[i] = "request", Append(q, x)[j] = "request"
                   PROVE  i = j
      BY <2>1, Zenon DEF Single
    <3>2. /\ i \in 1 .. Len(q) \/ i = Len(q) + 1
          /\ j \in 1 .. Len(q) \/ j = Len(q) + 1
      BY <2>0
    <3>3. CASE i \in 1 .. Len(q) /\ j \in 1 .. Len(q)
      BY <2>1, <2>3, <3>1, <3>3, Zenon DEF Single
    <3>4. CASE i \in 1 .. Len(q) /\ j = Len(q) + 1
      BY <2>1, <2>3, <3>1, <3>4, Zenon DEF Has
    <3>5. CASE i = Len(q) + 1 /\ j \in 1 .. Len(q)
      BY <2>1, <2>3, <3>1, <3>5, Zenon DEF Has
    <3> QED
      BY <3>2, <3>3, <3>4, <3>5, Zenon
  <2> QED
    BY <2>1, <2>2, <2>3, Zenon
<1>2. ASSUME q # <<>>
      PROVE  /\ Tail(q) \in Seq(Word) /\ Head(q) \in Word
             /\ Has(q, Head(q))
             /\ \A m : Has(Tail(q), m) => Has(q, m)
             /\ Single(q) => Single(Tail(q))
             /\ Single(q) /\ Head(q) = "request" => ~Has(Tail(q), "request")
  <2>1. /\ Tail(q) \in Seq(Word) /\ Head(q) \in Word
        /\ DOMAIN q = 1 .. Len(q) /\ Len(q) \in Nat /\ Len(q) >= 1
        /\ DOMAIN Tail(q) = 1 .. Len(q) - 1
        /\ \A i \in 1 .. Len(q) - 1 : Tail(q)[i] = q[i + 1]
        /\ Head(q) = q[1]
    BY <1>2
  <2>2. Has(q, Head(q))
    BY <2>1 DEF Has
  <2>3. ASSUME NEW m, Has(Tail(q), m) PROVE Has(q, m)
    BY <2>1, <2>3 DEF Has
  <2> DEFINE n == Len(q)
  <2> HIDE DEF n
  <2>6. n = Len(q) /\ n \in Nat /\ n >= 1
    BY <2>1, Zenon DEF n
  <2>7. ASSUME NEW i \in 1 .. n - 1 PROVE i + 1 \in 1 .. n /\ i + 1 # 1
    BY <2>6
  <2>8. \A i \in 1 .. n - 1, j \in 1 .. n - 1 : i + 1 = j + 1 => i = j
    BY <2>6
  <2>4. ASSUME Single(q) PROVE Single(Tail(q))
    <3>1. SUFFICES ASSUME NEW i \in 1 .. n - 1, NEW j \in 1 .. n - 1,
                          Tail(q)[i] = "request", Tail(q)[j] = "request"
                   PROVE  i = j
      BY <2>1, <2>6, Zenon DEF Single
    <3>2. q[i + 1] = "request" /\ q[j + 1] = "request"
      BY <2>1, <2>6, <3>1, Zenon
    <3>3. i + 1 = j + 1
      BY <2>1, <2>4, <2>6, <2>7, <3>2, Zenon DEF Single
    <3> QED
      BY <2>8, <3>3, Zenon
  <2>5. ASSUME Single(q), Head(q) = "request" PROVE ~Has(Tail(q), "request")
    <3>1. 1 \in 1 .. n
      BY <2>6
    <3> QED
      BY <2>1, <2>5, <2>6, <2>7, <3>1, Zenon DEF Has, Single
  <2> QED
    BY <2>1, <2>2, <2>3, <2>4, <2>5, Zenon
<1> QED
  BY <1>1, <1>2, Zenon

\* The step puts no request on the way to the device and no completion on the
\* way to the gateway, and keeps a job that was not asked for or is complete.
NoNewRequest(s) ==
    /\ Has(toNode'[s], "request") => Has(toNode[s], "request")
    /\ Single(toNode[s]) => Single(toNode'[s])

NoNewComplete(s) == Has(toGw'[s], "complete") => Has(toGw[s], "complete")

Calm(s) ==
    /\ NoNewRequest(s) /\ NoNewComplete(s)
    /\ job[s] \in {"none", "complete"} => job'[s] = job[s]
    /\ Unsent(s)' => Unsent(s)

\* The step leaves q alone, but for events that enter its channel.
SameRequest(q) ==
    /\ phase'[q] = phase[q] /\ target'[q] = target[q] /\ attempt'[q] = attempt[q]
    /\ settled'[q] = settled[q]
    /\ Current(q) \in Session => node_of'[Current(q)] = node_of[Current(q)]
    /\ phase[q] # "streaming" => chan'[q] = chan[q]
    /\ Has(chan'[q], "complete") => Has(chan[q], "complete") \/ job[Current(q)] = "complete"

\* A step keeps the invariant if it does for the session and the request it is of.
LEMMA Assemble ==
    ASSUME IInv, Served, Queues',
           \A s \in Session : \/ Calm(s)
                              \/ SessionOK(s)' /\ (job[s] = "complete" => job'[s] = "complete"),
           \A q \in Requests : SameRequest(q) \/ RequestOK(q)'
    PROVE  Served'
<1>1. ASSUME NEW s \in Session
      PROVE  SessionOK(s)' /\ (job[s] = "complete" => job'[s] = "complete")
  <2>1. CASE Calm(s)
    <3>1. SessionOK(s)
      BY Zenon DEF Served
    <3> QED
      BY <2>1, <3>1, Zenon DEF SessionOK, Calm, NoNewRequest, NoNewComplete
  <2> QED
    BY <2>1, Zenon
<1>2. ASSUME NEW q \in Requests, SameRequest(q) PROVE RequestOK(q)'
  <2>1. RequestOK(q) /\ Current(q)' = Current(q)
    BY <1>2, Zenon DEF Served, SameRequest, Current
  <2>2. phase[q] = "streaming" => Current(q) \in Session
    BY Zenon DEF IInv, Targeted, Aimed, Dispatched
  <2>3. Current(q) \in Session =>
           /\ job[Current(q)] = "complete" => job'[Current(q)] = "complete"
           /\ node_of'[Current(q)] = node_of[Current(q)]
    BY <1>1, <1>2, Zenon DEF SameRequest
  <2>4. Has(chan[q], "complete") => phase[q] = "streaming"
    BY <2>1, EmptyQueue, Zenon DEF RequestOK
  <2> QED
    BY <1>2, <2>1, <2>2, <2>3, <2>4, Zenon DEF RequestOK, SameRequest
<1> QED
  BY <1>1, <1>2, Zenon DEF Served

\* A message that is not the request is sent over s, or dropped by the outbox.
LEMMA SendCalm ==
    ASSUME Queues, NEW s \in Session, NEW m \in {"open", "close"}, toNode' = send_json(s, m)
    PROVE  toNode' \in [Session -> Seq(Word)] /\ \A t \in Session : NoNewRequest(t)
<1>1. CASE ~connected
  BY <1>1, Zenon DEF send_json, Queues, NoNewRequest
<1>2. CASE connected
  <2>1. toNode' = [toNode EXCEPT ![s] = Append(toNode[s], m)] /\ toNode \in [Session -> Seq(Word)]
    BY <1>2, Zenon DEF send_json, Queues
  <2>2. m \in Word /\ m # "request"
    BY DEF Word
  <2> HIDE DEF Session
  <2>6. toNode[s] \in Seq(Word)
    BY <2>1, Zenon
  <2>3. /\ Append(toNode[s], m) \in Seq(Word)
        /\ Has(Append(toNode[s], m), "request") => Has(toNode[s], "request")
        /\ Single(toNode[s]) => Single(Append(toNode[s], m))
    BY <2>2, <2>6, QueueFacts, Zenon
  <2>4. toNode'[s] = Append(toNode[s], m) /\ \A t \in Session \ {s} : toNode'[t] = toNode[t]
    BY <2>1, Zenon
  <2>5. toNode' \in [Session -> Seq(Word)]
    BY <2>1, <2>3, Zenon
  <2> QED
    BY <2>3, <2>4, <2>5, Zenon DEF NoNewRequest
<1> QED
  BY <1>1, <1>2

\* The step leaves q alone.
Apart(q) ==
    /\ phase'[q] = phase[q] /\ target'[q] = target[q] /\ attempt'[q] = attempt[q]
    /\ settled'[q] = settled[q] /\ chan'[q] = chan[q]

\* A step of r that concerns no device keeps the invariant when it does for r.
LEMMA HandlerStep ==
    ASSUME IInv, Served, NEW r \in Requests, UNCHANGED <<toGw, job, node_of>>,
           toNode' \in [Session -> Seq(Word)], \A t \in Session : NoNewRequest(t),
           chan' \in [Requests -> Seq(Word)], settled' \in [Requests -> Seq(Nodes \cup {None})],
           \A q \in Requests \ {r} : Apart(q),
           phase'[r] # "opening", attempt'[r] = attempt[r], RequestOK(r)'
    PROVE  Served'
<1>1. Queues'
  BY Zenon DEF Served, Queues
<1>2. ASSUME NEW s \in Session PROVE Calm(s)
  <2>1. s[1] \in Requests /\ \A q \in Requests : attempt'[q] = attempt[q]
    BY Zenon DEF Session, Apart
  <2>2. Unsent(s)' => Unsent(s)
    BY <2>1, Zenon DEF Unsent, Apart
  <2> QED
    BY <2>2, Zenon DEF Calm, NoNewComplete
<1>3. ASSUME NEW q \in Requests \ {r} PROVE SameRequest(q)
  BY Zenon DEF SameRequest, Apart
<1> QED
  BY <1>1, <1>2, <1>3, Assemble, Zenon

\* Its settlement is the last thing a handler does.
LEMMA NotSettled ==
    ASSUME Served, NEW r \in Requests, phase[r] # "done"
    PROVE  settled[r] = <<>> /\ (phase[r] # "streaming" => chan[r] = <<>>)
BY Zenon DEF Served, RequestOK

\* Steps between two attempts.
LEMMA ServedBetween ==
    ASSUME IInv, Served, NEW r \in Requests,
           BeginAttempt(r) \/ OpenFailed(r) \/ \E devices : NoDevice(r, devices),
           phase[r] \in {"idle", "picking", "opening"},
           UNCHANGED <<toGw, toNode, job, node_of, chan, settled, attempt>>
    PROVE  Served'
<1>1. PICK p \in {"picking", "failed"} : phase' = [phase EXCEPT ![r] = p]
  BY Zenon DEF BeginAttempt, OpenFailed, NoDevice
<1>2. phase'[r] = p /\ \A q \in Requests \ {r} : phase'[q] = phase[q]
  BY <1>1, Zenon DEF IInv, Typed
<1>3. \A q \in Requests \ {r} : target'[q] = target[q]
  <2>1. target \in [Requests -> Nodes \cup {None}]
    BY Zenon DEF IInv, Typed
  <2>2. target' = target \/ \E d : target' = [target EXCEPT ![r] = d]
    BY Zenon DEF BeginAttempt, OpenFailed, NoDevice
  <2> QED
    BY <2>1, <2>2
<1>4. RequestOK(r)'
  <2>1. phase[r] # "done" /\ phase[r] # "streaming"
    OBVIOUS
  <2>2. settled[r] = <<>> /\ chan[r] = <<>>
    BY <2>1, NotSettled, Zenon
  <2>3. phase'[r] \in {"idle", "picking", "failed", "dropped"}
    BY <1>2
  <2>4. chan'[r] = <<>> /\ settled'[r] = <<>>
    BY <2>2, Zenon
  <2>5. ~Has(chan'[r], "complete")
    BY <2>4, EmptyQueue, Zenon
  <2> QED
    BY <2>3, <2>4, <2>5, Zenon DEF RequestOK
<1>5. \A t \in Session : NoNewRequest(t)
  BY Zenon DEF NoNewRequest
<1> QED
  BY <1>2, <1>3, <1>4, <1>5, HandlerStep, Zenon DEF Apart, Served, Queues

\* A chunk leaves the channel.
LEMMA ServedChunk ==
    ASSUME IInv, Served, NEW r \in Requests, Chunk(r)
    PROVE  Served'
<1>1. /\ phase[r] = "streaming" /\ chan[r] # <<>> /\ chan' = [chan EXCEPT ![r] = Tail(chan[r])]
      /\ UNCHANGED <<phase, target, attempt, settled, toGw, toNode, job, node_of>>
  BY Zenon DEF Chunk, wire, device
<1>2. chan \in [Requests -> Seq(Word)] /\ settled \in [Requests -> Seq(Nodes \cup {None})]
      /\ toNode \in [Session -> Seq(Word)]
  BY Zenon DEF Served, Queues
<1>3. /\ Tail(chan[r]) \in Seq(Word)
      /\ Has(Tail(chan[r]), "complete") => Has(chan[r], "complete")
  BY <1>1, <1>2, QueueFacts, Zenon
<1>4. /\ chan'[r] = Tail(chan[r]) /\ chan' \in [Requests -> Seq(Word)]
      /\ \A q \in Requests \ {r} : chan'[q] = chan[q]
  BY <1>1, <1>2, <1>3, Zenon
<1>5. RequestOK(r)'
  <2>1. RequestOK(r)
    BY Zenon DEF Served
  <2> QED
    BY <1>1, <1>3, <1>4, <2>1, Zenon DEF RequestOK, Current
<1>6. \A t \in Session : NoNewRequest(t)
  BY <1>1, Zenon DEF NoNewRequest
<1> QED
  BY <1>1, <1>2, <1>4, <1>5, <1>6, HandlerStep, Zenon DEF Apart

\* A request is settled with the device of its last attempt.
LEMMA SettledWith ==
    ASSUME IInv, Served, NEW r \in Requests, phase[r] \in {"streaming", "settling"},
           job[Current(r)] = "complete", phase'[r] = "done", chan'[r] = <<>>,
           settled'[r] = Append(settled[r], target[r]), UNCHANGED <<attempt, job, node_of>>
    PROVE  RequestOK(r)'
<1>1. settled[r] = <<>> /\ Current(r) \in Session /\ target[r] = node_of[Current(r)]
  BY Zenon DEF Served, RequestOK
<1>2. Len(settled'[r]) = 1 /\ settled'[r][1] = target[r]
  <2>1. settled'[r] = Append(<<>>, target[r])
    BY <1>1, Zenon
  <2>2. \A d : Len(Append(<<>>, d)) = 1 /\ Append(<<>>, d)[1] = d
    OBVIOUS
  <2> QED
    BY <2>1, <2>2, Zenon
<1>3. ~Has(chan'[r], "complete") /\ Current(r)' = Current(r)
  BY EmptyQueue, Zenon DEF Current
<1> QED
  BY <1>1, <1>2, <1>3, Zenon DEF RequestOK

\* The settlement after a stream.
LEMMA ServedSettle ==
    ASSUME IInv, Served, NEW r \in Requests, Settle(r)
    PROVE  Served'
<1>1. /\ phase[r] = "settling" /\ phase' = [phase EXCEPT ![r] = "done"]
      /\ settled' = [settled EXCEPT ![r] = Append(settled[r], target[r])]
      /\ UNCHANGED <<target, attempt, chan, toGw, toNode, job, node_of>>
  BY Zenon DEF Settle, wire, device
<1>2. /\ chan \in [Requests -> Seq(Word)] /\ settled \in [Requests -> Seq(Nodes \cup {None})]
      /\ toNode \in [Session -> Seq(Word)] /\ target[r] \in Nodes \cup {None}
  BY Zenon DEF Served, Queues, IInv, Typed
<1>3. Append(settled[r], target[r]) \in Seq(Nodes \cup {None})
  BY <1>2
<1>4. /\ settled'[r] = Append(settled[r], target[r])
      /\ settled' \in [Requests -> Seq(Nodes \cup {None})]
      /\ phase'[r] = "done"
      /\ \A q \in Requests \ {r} : settled'[q] = settled[q] /\ phase'[q] = phase[q]
  BY <1>1, <1>2, <1>3, Zenon DEF IInv, Typed
<1>5. job[Current(r)] = "complete" /\ chan[r] = <<>>
  BY <1>1, Zenon DEF Served, RequestOK
<1>6. RequestOK(r)'
  BY <1>1, <1>4, <1>5, SettledWith, Zenon
<1>7. \A t \in Session : NoNewRequest(t)
  BY <1>1, Zenon DEF NoNewRequest
<1> QED
  BY <1>1, <1>2, <1>4, <1>6, <1>7, HandlerStep, Zenon DEF Apart

\* An attempt ends: only a "complete" in its channel leads to a settlement.
LEMMA ServedEnd ==
    ASSUME IInv, Served, NEW r \in Requests, EndAttempt(r)
    PROVE  Served'
<1>1. /\ phase[r] = "streaming" /\ close_session(Current(r))
      /\ chan' = [chan EXCEPT ![r] = <<>>]
      /\ UNCHANGED <<target, attempt, toGw, job, node_of>>
  BY Zenon DEF EndAttempt, device
<1>2. PICK e \in Endings(r) :
         /\ phase' = [phase EXCEPT ![r] = CASE Retriable(r, e) -> "idle"
                                            [] Completed(e) /\ r \in Buffered -> "done"
                                            [] Completed(e) /\ r \notin Buffered -> "settling"
                                            [] OTHER -> "failed"]
         /\ settled' = [settled EXCEPT
               ![r] = IF Completed(e) /\ r \in Buffered THEN Append(settled[r], target[r])
                      ELSE settled[r]]
  BY Zenon DEF EndAttempt
<1>3. /\ chan \in [Requests -> Seq(Word)] /\ settled \in [Requests -> Seq(Nodes \cup {None})]
      /\ phase \in [Requests -> Phases] /\ target[r] \in Nodes \cup {None}
  BY Zenon DEF Served, Queues, IInv, Typed
<1>4. Append(settled[r], target[r]) \in Seq(Nodes \cup {None}) /\ <<>> \in Seq(Word)
  BY <1>3
<1>5. /\ chan' \in [Requests -> Seq(Word)] /\ chan'[r] = <<>>
      /\ settled' \in [Requests -> Seq(Nodes \cup {None})]
      /\ settled'[r] = IF Completed(e) /\ r \in Buffered THEN Append(settled[r], target[r])
                       ELSE settled[r]
      /\ \A q \in Requests \ {r} : Apart(q)
  BY <1>1, <1>2, <1>3, <1>4, Zenon DEF Apart
<1>6. phase'[r] = CASE Retriable(r, e) -> "idle"
                    [] Completed(e) /\ r \in Buffered -> "done"
                    [] Completed(e) /\ r \notin Buffered -> "settling"
                    [] OTHER -> "failed"
  BY <1>2, <1>3, Zenon
<1>7. Current(r) \in Session /\ target[r] = node_of[Current(r)] /\ settled[r] = <<>>
  BY <1>1, Zenon DEF Served, RequestOK
<1>8. toNode' \in [Session -> Seq(Word)] /\ \A t \in Session : NoNewRequest(t)
  BY <1>1, <1>7, SendCalm, Zenon DEF close_session, Served
<1>9. phase'[r] # "opening" /\ RequestOK(r)'
  <2>1. CASE Completed(e)
    <3>1. ~Retriable(r, e) /\ e = "complete"
      BY <2>1, Zenon DEF Retriable, Completed
    <3>2. chan[r] # <<>> /\ Head(chan[r]) = "complete"
      BY <3>1 DEF Endings
    <3>3. Has(chan[r], "complete")
      <4>1. chan[r] \in Seq(Word)
        BY <1>3, Zenon
      <4> QED
        BY <3>2, <4>1, QueueFacts, Zenon
    <3>4. job[Current(r)] = "complete"
      BY <3>3, Zenon DEF Served, RequestOK
    <3>5. CASE r \in Buffered
      <4>1. phase'[r] = "done" /\ settled'[r] = Append(settled[r], target[r])
        BY <1>5, <1>6, <2>1, <3>1, <3>5
      <4> QED
        BY <1>1, <1>5, <3>4, <4>1, SettledWith, Zenon
    <3>6. CASE r \notin Buffered
      <4>1. phase'[r] = "settling" /\ settled'[r] = <<>>
        BY <1>5, <1>6, <1>7, <2>1, <3>1, <3>6
      <4>2. ~Has(chan'[r], "complete") /\ Current(r)' = Current(r)
        BY <1>1, <1>5, EmptyQueue, Zenon DEF Current
      <4> QED
        BY <1>1, <1>5, <1>7, <3>4, <4>1, <4>2, Zenon DEF RequestOK
    <3> QED
      BY <3>5, <3>6
  <2>2. CASE ~Completed(e)
    <3>1. settled'[r] = <<>>
      BY <1>5, <1>7, <2>2, Zenon
    <3>2. phase'[r] = CASE Retriable(r, e) -> "idle" [] ~Retriable(r, e) -> "failed"
      <4>1. CASE Retriable(r, e)
        BY <1>6, <2>2, <4>1
      <4>2. CASE ~Retriable(r, e)
        BY <1>6, <2>2, <4>2
      <4> QED
        BY <4>1, <4>2, Zenon
    <3>3. phase'[r] \in {"idle", "failed"}
      BY <3>2
    <3> QED
      <4>1. phase'[r] \in {"idle", "picking", "failed", "dropped"} /\ chan'[r] = <<>>
        BY <1>5, <3>3, Zenon
      <4>2. ~Has(chan'[r], "complete")
        BY <4>1, EmptyQueue, Zenon
      <4> QED
        BY <3>1, <4>1, <4>2, Zenon DEF RequestOK
  <2> QED
    BY <2>1, <2>2
<1> QED
  BY <1>1, <1>5, <1>8, <1>9, HandlerStep, Zenon

\* The client hangs up, before anything was settled.
LEMMA ServedDrop ==
    ASSUME IInv, Served, NEW r \in Requests, Drop(r)
    PROVE  Served'
<1>1. /\ phase[r] \notin Final /\ phase' = [phase EXCEPT ![r] = "dropped"]
      /\ chan' = [chan EXCEPT ![r] = <<>>]
      /\ UNCHANGED <<target, attempt, settled, toGw, job, node_of>>
  BY Zenon DEF Drop, device
<1>2. /\ chan \in [Requests -> Seq(Word)] /\ settled \in [Requests -> Seq(Nodes \cup {None})]
      /\ phase \in [Requests -> Phases] /\ toNode \in [Session -> Seq(Word)]
  BY Zenon DEF Served, Queues, IInv, Typed
<1>3. <<>> \in Seq(Word)
  OBVIOUS
<1>4. /\ chan' \in [Requests -> Seq(Word)] /\ chan'[r] = <<>> /\ phase'[r] = "dropped"
      /\ \A q \in Requests \ {r} : Apart(q)
  BY <1>1, <1>2, <1>3, Zenon DEF Apart
<1>5. toNode' \in [Session -> Seq(Word)] /\ \A t \in Session : NoNewRequest(t)
  <2>1. CASE UNCHANGED toNode
    BY <1>2, <2>1, Zenon DEF NoNewRequest
  <2>2. CASE phase[r] = "streaming" /\ SessionCleanup(r)
    <3>1. Current(r) \in Session /\ toNode' = send_json(Current(r), "close")
      BY <2>2, Zenon DEF Served, RequestOK, SessionCleanup, close_session
    <3> QED
      BY <3>1, SendCalm, Zenon DEF Served
  <2> QED
    BY <2>1, <2>2, Zenon DEF Drop
<1>6. settled[r] = <<>>
  BY <1>1, NotSettled DEF Final
<1>7. RequestOK(r)'
  <2>1. phase'[r] \in {"idle", "picking", "failed", "dropped"} /\ settled'[r] = <<>>
    BY <1>1, <1>4, <1>6, Zenon
  <2>2. ~Has(chan'[r], "complete")
    BY <1>4, EmptyQueue, Zenon
  <2> QED
    BY <1>4, <2>1, <2>2, Zenon DEF RequestOK
<1> QED
  BY <1>1, <1>2, <1>4, <1>5, <1>7, HandlerStep, Zenon

\* A session is opened: a number no request was sent under.
LEMMA ServedOpen ==
    ASSUME IInv, Served, NEW r \in Requests, NEW n \in Nodes, open_session(r, n),
           phase[r] = "picking", UNCHANGED <<chan, settled, toGw, job>>
    PROVE  Served'
<1> DEFINE s == <<r, attempt[r] + 1>>
<1>1. /\ s \in Session /\ phase' = [phase EXCEPT ![r] = "opening"]
      /\ target' = [target EXCEPT ![r] = n] /\ attempt' = [attempt EXCEPT ![r] = attempt[r] + 1]
      /\ node_of' = [node_of EXCEPT ![s] = n] /\ toNode' = send_json(s, "open")
  BY Zenon DEF open_session
<1>2. /\ phase'[r] = "opening" /\ target'[r] = n /\ attempt'[r] = attempt[r] + 1
      /\ attempt[r] \in Nat
      /\ \A q \in Requests \ {r} : /\ phase'[q] = phase[q] /\ target'[q] = target[q]
                                   /\ attempt'[q] = attempt[q]
  BY <1>1, Zenon DEF IInv, Typed
<1>3. /\ node_of' \in [Session -> Nodes \cup {None}] /\ node_of'[s] = n
      /\ \A t \in Session \ {s} : node_of'[t] = node_of[t]
  BY <1>1, Zenon DEF Served, Queues
<1>4. toNode' \in [Session -> Seq(Word)] /\ \A t \in Session : NoNewRequest(t)
  BY <1>1, SendCalm, Zenon DEF Served
<1>5. Queues'
  BY <1>3, <1>4, Zenon DEF Served, Queues
<1>6. ASSUME NEW t \in Session PROVE Calm(t)
  <2>1. t[1] \in Requests /\ t[2] \in Nat
    BY DEF Session
  <2>2. Unsent(t)' => Unsent(t)
    <3>1. CASE t[1] = r
      <4>1. attempt'[t[1]] = attempt[t[1]] + 1 /\ attempt[t[1]] \in Nat
        BY <1>2, <3>1, Zenon
      <4>2. PICK a \in Nat : a = attempt[t[1]]
        BY <4>1, Zenon
      <4>3. t[2] > a + 1 \/ t[2] = a + 1 => t[2] > a
        BY <2>1
      <4> QED
        BY <4>1, <4>2, <4>3, Zenon DEF Unsent
    <3>2. CASE t[1] # r
      <4>1. phase'[t[1]] = phase[t[1]] /\ attempt'[t[1]] = attempt[t[1]]
        BY <1>2, <2>1, <3>2, Zenon
      <4> QED
        BY <4>1, Zenon DEF Unsent
    <3> QED
      BY <3>1, <3>2, Zenon
  <2> QED
    BY <1>4, <2>2, Zenon DEF Calm, NoNewComplete
<1>7. ASSUME NEW q \in Requests \ {r} PROVE SameRequest(q)
  <2>1. Current(q) # s
    BY Zenon DEF Current
  <2> QED
    BY <1>2, <1>3, <2>1, Zenon DEF SameRequest
<1>8. RequestOK(r)'
  <2>1. chan[r] = <<>> /\ settled[r] = <<>>
    BY NotSettled
  <2>2. Current(r)' = s /\ ~Has(chan'[r], "complete")
    BY <1>2, <2>1, EmptyQueue, Zenon DEF Current
  <2> QED
    BY <1>1, <1>2, <1>3, <2>1, <2>2, Zenon DEF RequestOK
<1> QED
  BY <1>5, <1>6, <1>7, <1>8, Assemble, Zenon

\* The request is sent, the only time it is.
LEMMA ServedHandoff ==
    ASSUME IInv, Served, NEW r \in Requests, Handoff(r)
    PROVE  Served'
<1> PICK s \in Session : s = Current(r)
  BY DEF Handoff, Served, RequestOK
<1>1. /\ phase[r] = "opening" /\ phase' = [phase EXCEPT ![r] = "streaming"]
      /\ toNode' = send_json(s, "request")
      /\ UNCHANGED <<target, attempt, chan, settled, toGw, job, node_of>>
  BY Zenon DEF Handoff, device, answer
<1>2. phase'[r] = "streaming" /\ \A q \in Requests \ {r} : phase'[q] = phase[q]
  BY <1>1, Zenon DEF IInv, Typed
<1>3. /\ s[1] = r /\ s[2] = attempt[r] /\ target[r] = node_of[s]
      /\ toNode \in [Session -> Seq(Word)]
  BY <1>1, Zenon DEF Served, RequestOK, Current, Queues
<1>4. SessionOK(s) /\ Unsent(s)
  BY <1>1, <1>3, Zenon DEF Unsent, Served
<1>5. job[s] = "none" /\ ~Has(toNode[s], "request") /\ Single(toNode[s]) /\ ~Has(toGw[s], "complete")
  BY <1>4, Zenon DEF SessionOK
<1>6. /\ toNode' \in [Session -> Seq(Word)] /\ Single(toNode'[s])
      /\ \A t \in Session \ {s} : toNode'[t] = toNode[t]
  <2>1. Append(toNode[s], "request") \in Seq(Word) /\ Single(Append(toNode[s], "request"))
    <3>1. toNode[s] \in Seq(Word)
      BY <1>3, Zenon
    <3>2. "request" \in Word
      BY DEF Word
    <3> QED
      BY <1>5, <3>1, <3>2, QueueFacts, Zenon
  <2>2. CASE connected
    BY <1>1, <1>3, <2>1, <2>2, Zenon DEF send_json
  <2>3. CASE ~connected
    BY <1>1, <1>3, <1>5, <2>3, Zenon DEF send_json
  <2> QED
    BY <2>2, <2>3, Zenon
<1>7. Queues'
  BY <1>1, <1>6, Zenon DEF Served, Queues
<1>8. SessionOK(s)'
  <2>1. ~Unsent(s)'
    <3>1. attempt'[r] = attempt[r] /\ attempt[r] \in Nat
      BY <1>1, Zenon DEF IInv, Typed
    <3>2. PICK a \in Nat : a = attempt[r]
      BY <3>1, Zenon
    <3>3. ~(a > a) /\ "streaming" # "opening"
      OBVIOUS
    <3> QED
      BY <1>2, <1>3, <3>1, <3>2, <3>3, Zenon DEF Unsent
  <2> QED
    BY <1>1, <1>5, <1>6, <2>1, Zenon DEF SessionOK
<1>9. ASSUME NEW t \in Session \ {s} PROVE Calm(t)
  <2>1. t[1] \in Requests
    BY DEF Session
  <2>2. Unsent(t)' => Unsent(t)
    BY <1>1, <1>2, <2>1 DEF Unsent
  <2> QED
    BY <1>1, <1>6, <2>2, Zenon DEF Calm, NoNewComplete, NoNewRequest
<1>10. ASSUME NEW q \in Requests \ {r} PROVE SameRequest(q)
  BY <1>1, <1>2, Zenon DEF SameRequest
<1>11. RequestOK(r)'
  <2>1. RequestOK(r) /\ Current(r)' = Current(r)
    BY <1>1, Zenon DEF Served, Current
  <2> QED
    BY <1>1, <1>2, <1>3, <2>1, Zenon DEF RequestOK
<1> QED
  BY <1>1, <1>7, <1>8, <1>9, <1>10, <1>11, Assemble, Zenon

\* What enters the channel of q.
ChanStep(q) ==
    /\ phase[q] # "streaming" => chan'[q] = chan[q]
    /\ Has(chan'[q], "complete") => Has(chan[q], "complete") \/ job[Current(q)] = "complete"

\* A step of the relay client, of the relay or of a device.
LEMMA OutsideStep ==
    ASSUME IInv, Served, UNCHANGED <<phase, target, attempt, settled, node_of>>, Queues',
           \A s \in Session :
              \/ /\ NoNewRequest(s) /\ NoNewComplete(s)
                 /\ job[s] \in {"none", "complete"} => job'[s] = job[s]
              \/ SessionOK(s)' /\ (job[s] = "complete" => job'[s] = "complete"),
           \A q \in Requests : ChanStep(q)
    PROVE  Served'
<1>1. \A s \in Session : Unsent(s)' => Unsent(s)
  BY Zenon DEF Unsent
<1>2. \A q \in Requests : SameRequest(q)
  BY Zenon DEF SameRequest, ChanStep
<1> QED
  BY <1>1, <1>2, Assemble, Zenon DEF Calm

\* Nothing but the channels' contents and messages lost or taken.
LEMMA QuietStep ==
    ASSUME IInv, Served, UNCHANGED <<phase, target, attempt, settled, node_of, chan>>,
           toNode' \in [Session -> Seq(Word)], toGw' \in [Session -> Seq(Word)],
           job' \in [Session -> Jobs],
           \A s \in Session : /\ NoNewRequest(s) /\ NoNewComplete(s)
                              /\ job[s] \in {"none", "complete"} => job'[s] = job[s]
    PROVE  Served'
<1>1. Queues'
  BY Zenon DEF Served, Queues
<1>2. \A q \in Requests : ChanStep(q)
  BY Zenon DEF ChanStep
<1> QED
  BY <1>1, <1>2, OutsideStep, Zenon

\* Messages under way that are lost.
LEMMA LostCalm ==
    ASSUME Queues, NEW S
    PROVE  /\ toNode' \in {toNode, Lost(toNode, S)} =>
                toNode' \in [Session -> Seq(Word)] /\ \A s \in Session : NoNewRequest(s)
           /\ toGw' \in {toGw, Lost(toGw, S)} =>
                toGw' \in [Session -> Seq(Word)] /\ \A s \in Session : NoNewComplete(s)
<1>1. /\ toNode \in [Session -> Seq(Word)] /\ toGw \in [Session -> Seq(Word)]
      /\ <<>> \in Seq(Word)
  BY EmptyQueue, Zenon DEF Queues
<1>2. ASSUME NEW q \in [Session -> Seq(Word)]
      PROVE  /\ Lost(q, S) \in [Session -> Seq(Word)]
             /\ \A s \in Session : Lost(q, S)[s] = <<>> \/ Lost(q, S)[s] = q[s]
  BY <1>1, Zenon DEF Lost
<1>3. ASSUME toNode' \in {toNode, Lost(toNode, S)}
      PROVE  toNode' \in [Session -> Seq(Word)] /\ \A s \in Session : NoNewRequest(s)
  <2>1. \A s \in Session : toNode'[s] = <<>> \/ toNode'[s] = toNode[s]
    BY <1>1, <1>2, <1>3, Zenon
  <2> QED
    BY <1>1, <1>2, <1>3, <2>1, EmptyQueue, Zenon DEF NoNewRequest
<1>4. ASSUME toGw' \in {toGw, Lost(toGw, S)}
      PROVE  toGw' \in [Session -> Seq(Word)] /\ \A s \in Session : NoNewComplete(s)
  <2>1. \A s \in Session : toGw'[s] = <<>> \/ toGw'[s] = toGw[s]
    BY <1>1, <1>2, <1>4, Zenon
  <2> QED
    BY <1>1, <1>2, <1>4, <2>1, EmptyQueue, Zenon DEF NoNewComplete
<1> QED
  BY <1>3, <1>4, Zenon

\* The first message of s to the gateway is taken.
LEMMA TakenFromWire ==
    ASSUME Queues, NEW s \in Session, toGw[s] # <<>>, toGw' = [toGw EXCEPT ![s] = Tail(toGw[s])]
    PROVE  /\ toGw' \in [Session -> Seq(Word)] /\ Head(toGw[s]) \in Word
           /\ \A t \in Session : NoNewComplete(t)
<1>1. toGw \in [Session -> Seq(Word)] /\ toGw[s] \in Seq(Word)
  BY Zenon DEF Queues
<1>2. /\ Tail(toGw[s]) \in Seq(Word) /\ Head(toGw[s]) \in Word
      /\ \A m : Has(Tail(toGw[s]), m) => Has(toGw[s], m)
  BY <1>1, QueueFacts, Zenon
<1>3. toGw'[s] = Tail(toGw[s]) /\ \A t \in Session \ {s} : toGw'[t] = toGw[t]
  BY <1>1, Zenon
<1>4. toGw' \in [Session -> Seq(Word)]
  BY <1>1, <1>2, Zenon
<1> QED
  BY <1>2, <1>3, <1>4, Zenon DEF NoNewComplete

\* An event is put in a channel that has room.
LEMMA TrySend ==
    ASSUME NEW q \in Seq(Word), NEW e \in Word
    PROVE  /\ try_send(q, e) \in Seq(Word)
           /\ Has(try_send(q, e), "complete") => Has(q, "complete") \/ e = "complete"
BY QueueFacts, Zenon DEF try_send

\* The channels of the sessions S, taken out of the table, are told.
LEMMA DisconnectedChan ==
    ASSUME IInv, Served, NEW S \in SUBSET sessions, chan' = Disconnected(S)
    PROVE  chan' \in [Requests -> Seq(Word)] /\ \A q \in Requests : ChanStep(q)
<1>1. ASSUME NEW q \in Requests
      PROVE  chan'[q] \in Seq(Word) /\ ChanStep(q)
  <2>1. chan[q] \in Seq(Word)
    BY Zenon DEF Served, Queues
  <2>2. chan'[q] = IF Current(q) \in S THEN try_send(chan[q], "disconnect") ELSE chan[q]
    BY Zenon DEF Disconnected
  <2>3. CASE Current(q) \in S
    <3>1. phase[q] = "streaming"
      BY <2>3 DEF IInv, SessionsOwned, Owner, Current
    <3>2. chan'[q] = try_send(chan[q], "disconnect")
      BY <2>2, <2>3
    <3>3. chan'[q] \in Seq(Word) /\ (Has(chan'[q], "complete") => Has(chan[q], "complete"))
      <4>1. "disconnect" \in Word /\ "disconnect" # "complete"
        BY DEF Word
      <4> QED
        BY <2>1, <3>2, <4>1, TrySend, Zenon
    <3> QED
      BY <3>1, <3>3, Zenon DEF ChanStep
  <2>4. CASE Current(q) \notin S
    BY <2>1, <2>2, <2>4, Zenon DEF ChanStep
  <2> QED
    BY <2>3, <2>4
<1>2. chan' = [q \in Requests |-> chan'[q]]
  BY Zenon DEF Disconnected
<1> QED
  BY <1>1, <1>2, Zenon

\* What the relay client does with a message.
LEMMA ServedIncoming ==
    ASSUME IInv, Served, NEW s \in Session, handle_incoming(s)
    PROVE  Served'
<1> DEFINE m == Head(toGw[s])
<1>1. /\ toGw[s] # <<>> /\ toGw' = [toGw EXCEPT ![s] = Tail(toGw[s])]
      /\ UNCHANGED <<phase, target, attempt, settled, job, node_of>>
      /\ \/ relay_ready(s) \/ inference_chunk(s) \/ ghost_close_once(s)
         \/ inference_end(s, m)
         \/ peer_not_found(node_of[s])
  BY Zenon DEF handle_incoming, request, device
<1>2. toGw' \in [Session -> Seq(Word)] /\ m \in Word /\ \A t \in Session : NoNewComplete(t)
  BY <1>1, TakenFromWire, Zenon DEF Served
<1>3. m = "complete" => job[s] = "complete"
  <2>1. Has(toGw[s], m)
    BY <1>1, QueueFacts, Zenon DEF Served, Queues
  <2> QED
    BY <2>1, Zenon DEF Served, SessionOK
<1> HIDE DEF m
<1>4. chan \in [Requests -> Seq(Word)] /\ toNode \in [Session -> Seq(Word)]
  BY Zenon DEF Served, Queues
<1>5. toNode' \in [Session -> Seq(Word)] /\ \A t \in Session : NoNewRequest(t)
  <2>1. UNCHANGED toNode \/ toNode' = send_json(s, "close")
    BY <1>1, Zenon DEF relay_ready, inference_chunk, ghost_close_once, inference_end,
                       peer_not_found, close_session
  <2>2. CASE UNCHANGED toNode
    BY <1>4, <2>2, Zenon DEF NoNewRequest
  <2>3. CASE toNode' = send_json(s, "close")
    BY <2>3, SendCalm, Zenon DEF Served
  <2> QED
    BY <2>1, <2>2, <2>3
<1>6. chan' \in [Requests -> Seq(Word)] /\ \A q \in Requests : ChanStep(q)
  <2>1. CASE UNCHANGED chan
    BY <1>4, <2>1, Zenon DEF ChanStep
  <2>2. ASSUME NEW e \in Word, s \in sessions, e = "complete" => job[s] = "complete",
               chan' = [chan EXCEPT ![Owner(s)] = try_send(@, e)]
        PROVE  chan' \in [Requests -> Seq(Word)] /\ \A q \in Requests : ChanStep(q)
    <3>1. Owner(s) \in Requests /\ phase[Owner(s)] = "streaming" /\ s = Current(Owner(s))
      BY <2>2, Zenon DEF IInv, SessionsOwned, Session, Owner
    <3> DEFINE o == Owner(s)
    <3> HIDE DEF o
    <3>2. /\ try_send(chan[o], e) \in Seq(Word)
          /\ Has(try_send(chan[o], e), "complete") => Has(chan[o], "complete") \/ e = "complete"
      <4>1. chan[o] \in Seq(Word)
        BY <1>4, <3>1, Zenon DEF o
      <4> QED
        BY <4>1, <2>2, TrySend, Zenon
    <3>3. /\ chan'[o] = try_send(chan[o], e) /\ chan' \in [Requests -> Seq(Word)]
          /\ \A q \in Requests \ {o} : chan'[q] = chan[q]
      BY <1>4, <2>2, <3>1, <3>2, Zenon DEF o
    <3>4. ChanStep(o)
      BY <2>2, <3>1, <3>2, <3>3, Zenon DEF o, ChanStep
    <3> QED
      BY <3>3, <3>4, Zenon DEF ChanStep
  <2>3. CASE inference_chunk(s)
    <3>1. "chunk" \in Word /\ "chunk" # "complete"
      BY DEF Word
    <3> QED
      BY <2>2, <2>3, <3>1, Zenon DEF inference_chunk
  <2>4. CASE inference_end(s, m)
    <3>1. CASE s \in sessions
      BY <1>2, <1>3, <2>2, <2>4, <3>1, Zenon DEF inference_end
    <3>2. CASE s \notin sessions
      <4>1. chan' = [chan EXCEPT ![Owner(s)] = chan[Owner(s)]]
        BY <2>4, <3>2, Zenon DEF inference_end
      <4>2. chan' = chan
        BY <1>4, <4>1
      <4> QED
        BY <2>1, <4>2
    <3> QED
      BY <3>1, <3>2
  <2>5. CASE peer_not_found(node_of[s])
    BY <2>5, DisconnectedChan DEF peer_not_found
  <2> QED
    BY <1>1, <2>1, <2>3, <2>4, <2>5, Zenon DEF relay_ready, ghost_close_once
<1>7. Queues'
  BY <1>1, <1>2, <1>5, <1>6, Zenon DEF Served, Queues
<1> QED
  BY <1>1, <1>2, <1>5, <1>6, <1>7, OutsideStep, Zenon

\* The step puts m behind what the gateway has yet to read of s.
LEMMA Forwarded ==
    ASSUME Queues, NEW s \in Session, NEW m \in Word, toGw' = ToGateway(s, m)
    PROVE  /\ toGw' \in [Session -> Seq(Word)]
           /\ \A t \in Session : t # s \/ m # "complete" => NoNewComplete(t)
<1>1. toGw \in [Session -> Seq(Word)] /\ toGw[s] \in Seq(Word)
  BY Zenon DEF Queues
<1>2. /\ Append(toGw[s], m) \in Seq(Word)
      /\ Has(Append(toGw[s], m), "complete") => Has(toGw[s], "complete") \/ m = "complete"
  BY <1>1, QueueFacts, Zenon
<1>3. CASE ~connected
  BY <1>1, <1>3, Zenon DEF ToGateway, NoNewComplete
<1>4. CASE connected
  <2>1. /\ toGw' = [toGw EXCEPT ![s] = Append(toGw[s], m)]
    BY <1>4, Zenon DEF ToGateway
  <2>2. toGw'[s] = Append(toGw[s], m) /\ \A t \in Session \ {s} : toGw'[t] = toGw[t]
    BY <1>1, <2>1, Zenon
  <2>3. toGw' \in [Session -> Seq(Word)]
    BY <1>1, <1>2, <2>1, Zenon
  <2> QED
    BY <1>2, <2>2, <2>3, Zenon DEF NoNewComplete
<1> QED
  BY <1>3, <1>4

\* The device's side of the wire: a message to it is taken.
LEMMA TakenByDevice ==
    ASSUME Queues, NEW s \in Session, toNode[s] # <<>>,
           toNode' = [toNode EXCEPT ![s] = Tail(toNode[s])]
    PROVE  /\ toNode' \in [Session -> Seq(Word)] /\ Has(toNode[s], Head(toNode[s]))
           /\ \A t \in Session : NoNewRequest(t)
           /\ Single(toNode[s]) /\ Head(toNode[s]) = "request" => ~Has(toNode'[s], "request")
<1>1. toNode \in [Session -> Seq(Word)] /\ toNode[s] \in Seq(Word)
  BY Zenon DEF Queues
<1>2. /\ Tail(toNode[s]) \in Seq(Word) /\ Has(toNode[s], Head(toNode[s]))
      /\ \A m : Has(Tail(toNode[s]), m) => Has(toNode[s], m)
      /\ Single(toNode[s]) => Single(Tail(toNode[s]))
      /\ Single(toNode[s]) /\ Head(toNode[s]) = "request" => ~Has(Tail(toNode[s]), "request")
  BY <1>1, QueueFacts, Zenon
<1>3. toNode'[s] = Tail(toNode[s]) /\ \A t \in Session \ {s} : toNode'[t] = toNode[t]
  BY <1>1, Zenon
<1>4. toNode' \in [Session -> Seq(Word)]
  BY <1>1, <1>2, Zenon
<1> QED
  BY <1>2, <1>3, <1>4, Zenon DEF NoNewRequest

\* Aborting stops running jobs only.
LEMMA AbortedJobs ==
    ASSUME Queues, NEW S, job' = Aborted(S)
    PROVE  /\ job' \in [Session -> Jobs]
           /\ \A s \in Session : job[s] \in {"none", "complete"} => job'[s] = job[s]
<1>1. job \in [Session -> Jobs] /\ "aborted" \in Jobs
  BY DEF Queues, Jobs
<1>2. job' = [s \in Session |-> IF s \in Running(S) THEN "aborted" ELSE job[s]]
  BY Zenon DEF Aborted
<1>3. \A s \in Running(S) : job[s] = "running"
  BY Zenon DEF Running
<1>4. job' \in [Session -> Jobs]
  BY <1>1, <1>2, Zenon
<1>5. \A s \in Session : job[s] \in {"none", "complete"} => job'[s] = job[s]
  BY <1>2, <1>3
<1> QED
  BY <1>4, <1>5

\* A device takes a message: the request starts the only job of its session.
LEMMA ServedDispatch ==
    ASSUME IInv, Served, NEW s \in Session, node_dispatch(s)
    PROVE  Served'
<1>1. /\ toNode[s] # <<>> /\ toNode' = [toNode EXCEPT ![s] = Tail(toNode[s])]
      /\ UNCHANGED <<phase, target, attempt, settled, chan, node_of>>
      /\ \/ Head(toNode[s]) = "open" /\ toGw' = ToGateway(s, "ready") /\ UNCHANGED job
         \/ /\ Head(toNode[s]) = "request" /\ job' = [job EXCEPT ![s] = "running"]
            /\ UNCHANGED toGw
         \/ Head(toNode[s]) = "close" /\ job' = Aborted({s}) /\ UNCHANGED toGw
  BY Zenon DEF node_dispatch, request, answer
<1>2. Queues /\ SessionOK(s) /\ toGw \in [Session -> Seq(Word)] /\ job \in [Session -> Jobs]
  BY Zenon DEF Served, Queues
<1>3. /\ toNode' \in [Session -> Seq(Word)] /\ Has(toNode[s], Head(toNode[s]))
      /\ \A t \in Session : NoNewRequest(t)
      /\ Single(toNode[s]) /\ Head(toNode[s]) = "request" => ~Has(toNode'[s], "request")
  BY <1>1, <1>2, TakenByDevice, Zenon
<1>4. CASE toGw' = ToGateway(s, "ready") /\ UNCHANGED job
  <2>1. "ready" \in Word /\ "ready" # "complete"
    BY DEF Word
  <2>2. toGw' \in [Session -> Seq(Word)] /\ \A t \in Session : NoNewComplete(t)
    BY <1>2, <1>4, <2>1, Forwarded, Zenon
  <2> QED
    BY <1>1, <1>2, <1>3, <1>4, <2>2, QuietStep, Zenon
<1>5. CASE job' = Aborted({s}) /\ UNCHANGED toGw
  BY <1>1, <1>2, <1>3, <1>5, AbortedJobs, QuietStep, Zenon DEF NoNewComplete
<1>6. CASE /\ Head(toNode[s]) = "request" /\ job' = [job EXCEPT ![s] = "running"]
           /\ UNCHANGED toGw
  <2>1. job[s] = "none" /\ ~Has(toGw[s], "complete") /\ Single(toNode[s]) /\ ~Unsent(s)
    BY <1>2, <1>3, <1>6 DEF SessionOK
  <2>2. /\ job' \in [Session -> Jobs] /\ job'[s] = "running"
        /\ \A t \in Session \ {s} : job'[t] = job[t]
    <3>1. "running" \in Jobs
      BY DEF Jobs
    <3> QED
      BY <1>2, <1>6, <3>1, Zenon
  <2>3. Queues'
    BY <1>1, <1>2, <1>3, <1>6, <2>2, Zenon DEF Queues
  <2>4. ~Unsent(s)' /\ Single(toNode'[s])
    BY <1>1, <1>3, <2>1, Zenon DEF Unsent, NoNewRequest
  <2>5. SessionOK(s)'
    BY <1>3, <1>6, <2>1, <2>4, Zenon DEF SessionOK
  <2>6. ASSUME NEW t \in Session \ {s}
        PROVE  NoNewRequest(t) /\ NoNewComplete(t) /\ job'[t] = job[t]
    BY <1>3, <1>6, <2>2, Zenon DEF NoNewComplete
  <2>7. \A q \in Requests : ChanStep(q)
    BY <1>1, Zenon DEF ChanStep
  <2>8. job[s] # "complete"
    BY <2>1
  <2> QED
    BY <1>1, <2>3, <2>5, <2>6, <2>7, <2>8, OutsideStep, Zenon
<1> QED
  BY <1>1, <1>4, <1>5, <1>6, Zenon

\* A job ends: "complete" is sent by one that is.
LEMMA ServedJobEnds ==
    ASSUME IInv, Served, NEW s \in Session, JobEnds(s)
    PROVE  Served'
<1>1. PICK e \in Errors \cup {"complete"} :
         /\ toGw' = ToGateway(s, e)
         /\ job' = [job EXCEPT ![s] = IF e = "complete" THEN e ELSE "failed"]
  BY Zenon DEF JobEnds
<1>2. job[s] = "running" /\ UNCHANGED <<phase, target, attempt, settled, chan, node_of, toNode>>
  BY Zenon DEF JobEnds, request, answer
<1>3. Queues /\ SessionOK(s) /\ job \in [Session -> Jobs]
  BY Zenon DEF Served, Queues
<1>4. ~Has(toGw[s], "complete") /\ ~Has(toNode[s], "request") /\ Single(toNode[s]) /\ ~Unsent(s)
  BY <1>2, <1>3, Zenon DEF SessionOK
<1>5. /\ toGw' \in [Session -> Seq(Word)]
      /\ \A t \in Session : t # s \/ e # "complete" => NoNewComplete(t)
  <2>1. e \in Word
    BY Zenon DEF Word
  <2> QED
    BY <1>1, <1>3, <2>1, Forwarded, Zenon
<1>6. /\ job' \in [Session -> Jobs] /\ (e = "complete" => job'[s] = "complete")
      /\ \A t \in Session \ {s} : job'[t] = job[t]
  <2>1. PICK j \in {"complete", "failed"} :
           (e = "complete" => j = "complete") /\ job' = [job EXCEPT ![s] = j]
    BY <1>1, Zenon
  <2>2. j \in Jobs
    BY DEF Jobs
  <2> QED
    BY <1>3, <2>1, <2>2, Zenon
<1>7. Queues'
  BY <1>2, <1>3, <1>5, <1>6, Zenon DEF Queues
<1>8. SessionOK(s)'
  <2>1. ~Unsent(s)'
    BY <1>2, <1>4, Zenon DEF Unsent
  <2> QED
    BY <1>2, <1>4, <1>5, <1>6, <2>1, Zenon DEF SessionOK, NoNewComplete
<1>9. ASSUME NEW t \in Session \ {s}
      PROVE  NoNewRequest(t) /\ NoNewComplete(t) /\ job'[t] = job[t]
  BY <1>2, <1>5, <1>6, Zenon DEF NoNewRequest
<1>10. \A q \in Requests : ChanStep(q)
  BY <1>2, Zenon DEF ChanStep
<1>11. job[s] # "complete"
  BY <1>2
<1> QED
  BY <1>2, <1>7, <1>8, <1>9, <1>10, <1>11, OutsideStep, Zenon

\* The relay's answer for a device that is away, and a job's chunks.
LEMMA ServedMessages ==
    ASSUME IInv, Served, NEW s \in Session, forwardToTarget(s) \/ JobEmits(s)
    PROVE  Served'
<1>1. UNCHANGED <<phase, target, attempt, settled, chan, node_of, job>>
  BY Zenon DEF forwardToTarget, JobEmits, request, answer, device
<1>2. Queues /\ toNode \in [Session -> Seq(Word)] /\ job \in [Session -> Jobs]
  BY Zenon DEF Served, Queues
<1>3. toGw' \in [Session -> Seq(Word)] /\ \A t \in Session : NoNewComplete(t)
  <2>1. PICK m \in {"chunk", "peer_not_found"} : toGw' = ToGateway(s, m)
    BY Zenon DEF forwardToTarget, JobEmits
  <2>2. m \in Word /\ m # "complete"
    BY DEF Word
  <2> QED
    BY <1>2, <2>1, <2>2, Forwarded, Zenon
<1>4. toNode' \in [Session -> Seq(Word)] /\ \A t \in Session : NoNewRequest(t)
  <2>1. CASE forwardToTarget(s)
    BY <1>2, <2>1, TakenByDevice, Zenon DEF forwardToTarget
  <2>2. CASE JobEmits(s)
    BY <1>2, <2>2, Zenon DEF JobEmits, NoNewRequest
  <2> QED
    BY <2>1, <2>2
<1> QED
  BY <1>1, <1>2, <1>3, <1>4, QuietStep, Zenon

\* Lost and new connections.
LEMMA ServedConnections ==
    ASSUME IInv, Served, Connections
    PROVE  Served'
<1>1. UNCHANGED <<phase, target, attempt, settled, node_of>>
  BY Zenon DEF Connections, GatewayDisconnects, GatewayReconnects, NodeDisconnects,
     NodeReconnects, HearsPeerLeft, QuarantineExpires, request, answer, device
<1>2. Queues /\ toNode \in [Session -> Seq(Word)] /\ toGw \in [Session -> Seq(Word)]
      /\ job \in [Session -> Jobs]
  BY Zenon DEF Served, Queues
<1>3. CASE GatewayDisconnects
  <2>1. /\ chan' = Disconnected(sessions) /\ toGw' = Lost(toGw, Session)
        /\ toNode' \in {toNode, Lost(toNode, Session)} /\ UNCHANGED job
    BY <1>3, Zenon DEF GatewayDisconnects
  <2>2. chan' \in [Requests -> Seq(Word)] /\ \A q \in Requests : ChanStep(q)
    BY <2>1, DisconnectedChan
  <2>3. /\ toNode' \in [Session -> Seq(Word)] /\ toGw' \in [Session -> Seq(Word)]
        /\ \A s \in Session : NoNewRequest(s) /\ NoNewComplete(s)
    BY <1>2, <2>1, LostCalm, Zenon
  <2>4. Queues'
    BY <1>1, <1>2, <2>1, <2>2, <2>3, Zenon DEF Queues
  <2> QED
    BY <1>1, <2>1, <2>2, <2>3, <2>4, OutsideStep, Zenon
<1>4. ASSUME NEW n \in Nodes, NodeDisconnects(n) PROVE Served'
  <2>1. /\ job' = Aborted(SessionsOf(n)) /\ UNCHANGED chan
        /\ toNode' \in {toNode, Lost(toNode, SessionsOf(n))}
        /\ toGw' \in {toGw, Lost(toGw, SessionsOf(n))}
    BY <1>4, Zenon DEF NodeDisconnects, answer
  <2> QED
    BY <1>1, <1>2, <2>1, LostCalm, AbortedJobs, QuietStep, Zenon
<1>5. ASSUME NEW n \in Nodes, HearsPeerLeft(n) PROVE Served'
  <2>1. job' = Aborted(SessionsOf(n)) /\ UNCHANGED <<chan, toNode, toGw>>
    BY <1>5, Zenon DEF HearsPeerLeft, answer, wire
  <2> QED
    BY <1>1, <1>2, <2>1, AbortedJobs, QuietStep, Zenon DEF NoNewRequest, NoNewComplete
<1>6. CASE GatewayReconnects \/ \E n \in Nodes : NodeReconnects(n) \/ QuarantineExpires(n)
  <2>1. UNCHANGED <<chan, toNode, toGw, job>>
    BY <1>6, Zenon DEF GatewayReconnects, NodeReconnects, QuarantineExpires, answer, wire, device
  <2> QED
    BY <1>1, <1>2, <2>1, QuietStep, Zenon DEF NoNewRequest, NoNewComplete
<1> QED
  BY <1>3, <1>4, <1>5, <1>6, Zenon DEF Connections

\* pick_and_dispatch.
LEMMA ServedPick ==
    ASSUME IInv, Served, NEW r \in Requests, pick_and_dispatch(r)
    PROVE  Served'
<1>1. phase[r] = "picking" /\ UNCHANGED <<chan, settled, toGw, job>>
  BY Zenon DEF pick_and_dispatch, answer
<1>2. PICK devices \in SUBSET Nodes :
         \/ NoDevice(r, devices)
         \/ \E n \in pick(r, devices) : HeavyRefused(r, n) \/ open_session(r, n)
  <2>1. \A full, sticky : Candidates(r, full, sticky) \in SUBSET Nodes
    BY Zenon DEF Candidates, Prefer, eligible_devices
  <2> QED
    BY <2>1 DEF pick_and_dispatch
<1>3. CASE NoDevice(r, devices)
  BY <1>1, <1>3, ServedBetween, Zenon DEF NoDevice
<1>4. CASE \E n \in pick(r, devices) : HeavyRefused(r, n)
  <2>1. UNCHANGED <<phase, target, attempt, toNode, node_of>>
    BY <1>4, Zenon DEF HeavyRefused
  <2> QED
    BY <1>1, <2>1, QuietStep, Zenon DEF NoNewRequest, NoNewComplete, Served, Queues
<1>5. ASSUME NEW n \in pick(r, devices), open_session(r, n) PROVE Served'
  <2>1. n \in Nodes
    BY DEF pick, Viable
  <2> QED
    BY <1>1, <1>5, <2>1, ServedOpen, Zenon
<1> QED
  BY <1>2, <1>3, <1>4, <1>5, Zenon

\* At first nothing was asked or settled.
LEMMA InitServed == Init => Served
<1> SUFFICES ASSUME Init PROVE Served
  OBVIOUS
<1>1. Queues
  BY DEF Init, Queues, Jobs
<1>2. ASSUME NEW s \in Session PROVE SessionOK(s)
  <2>1. toNode[s] = <<>> /\ toGw[s] = <<>> /\ job[s] = "none"
    BY DEF Init
  <2> QED
    BY <2>1, EmptyQueue, Zenon DEF SessionOK
<1>3. ASSUME NEW r \in Requests PROVE RequestOK(r)
  <2>1. chan[r] = <<>> /\ settled[r] = <<>> /\ phase[r] = "idle"
    BY Zenon DEF Init
  <2> QED
    BY <2>1, EmptyQueue, Zenon DEF RequestOK
<1> QED
  BY <1>1, <1>2, <1>3, Zenon DEF Served

\* Every step keeps it.
LEMMA NextServed == IInv /\ Served /\ [Next]_vars => Served'
<1> SUFFICES ASSUME IInv, Served, [Next]_vars PROVE Served'
  OBVIOUS
<1>1. CASE UNCHANGED vars
  <2>1. UNCHANGED <<phase, target, attempt, settled, node_of, chan, toNode, toGw, job>>
    BY <1>1, Zenon DEF vars, request, answer, wire, device
  <2> QED
    BY <2>1, QuietStep, Zenon DEF NoNewRequest, NoNewComplete, Served, Queues
<1>2. ASSUME NEW r \in Requests, Handler(r) \/ Drop(r) PROVE Served'
  <2>1. CASE BeginAttempt(r) \/ OpenFailed(r)
    <3>1. /\ phase[r] \in {"idle", "picking", "opening"}
          /\ UNCHANGED <<toGw, toNode, job, node_of, chan, settled, attempt>>
      BY <2>1, Zenon DEF BeginAttempt, OpenFailed, answer, wire, device
    <3> QED
      BY <2>1, <3>1, ServedBetween, Zenon
  <2> QED
    BY <1>2, <2>1, ServedPick, ServedHandoff, ServedChunk, ServedEnd, ServedSettle, ServedDrop,
       Zenon DEF Handler
<1>3. ASSUME NEW s \in Session, Messages(s) \/ JobEmits(s) \/ JobEnds(s) PROVE Served'
  BY <1>3, ServedIncoming, ServedDispatch, ServedMessages, ServedJobEnds, Zenon DEF Messages
<1>4. CASE Connections
  BY <1>4, ServedConnections, Zenon
<1> QED
  BY <1>1, <1>2, <1>3, <1>4, Zenon DEF Next

\* A request is settled at most once, with the device of its last attempt, and
\* only if that device completed the job it was sent: through retries, lost,
\* late and reordered messages, dropped clients and broken connections of
\* either side, for any number of requests and devices.
THEOREM SettledAlwaysServed == Spec => []SettledServed
<1>1. Init => IInv /\ Served
  BY InitInv, InitServed, Zenon
<1>2. IInv /\ Served /\ [Next]_vars => IInv' /\ Served'
  BY NextInv, NextServed, Zenon
<1>3. Served => SettledServed
  <2> SUFFICES ASSUME Served, NEW r \in DOMAIN settled, settled[r] # <<>>
               PROVE  /\ Len(settled[r]) = 1 /\ job[Current(r)] = "complete"
                      /\ settled[r][1] = node_of[Current(r)]
    BY Zenon DEF SettledServed
  <2>1. r \in Requests
    BY DEF Served, Queues
  <2> QED
    BY <2>1, Zenon DEF Served, RequestOK
<1> QED
  BY <1>1, <1>2, <1>3, PTL DEF Spec
=============================================================================
