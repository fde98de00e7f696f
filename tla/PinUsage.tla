------------------------------ MODULE PinUsage ------------------------------
(* What a provider device of private networks counts, and how the counts     *)
(* reach the gateway: records.jsonl, the outbox of sealed batches, flushes   *)
(* by the sync loop and at the threshold, and the gateway's deduplication.   *)
(* A unit is one served request, or the bytes of one chunk an exit stream    *)
(* relayed; its counts, day, consumer and model are left out.                *)
EXTENDS Naturals, FiniteSets

CONSTANTS
    Pins,        \* the networks
    Requests,    \* units: served requests
    Bytes,       \* units: chunks of the exit stream
    PinOf,       \* the network of each unit
    Flapping,    \* the networks whose staff turns the device off and on
    Threshold,   \* FLUSH_THRESHOLD
    MaxCrashes,  \* bound on crashes of the device
    None

Units == Requests \cup Bytes
Tasks == {"loop", "threshold"}

VARIABLES
    fresh,    \* units that did not happen yet
    stream,   \* whether the exit stream is open
    meter,    \* ExitMeter::inner
    records,  \* records.jsonl
    outbox,   \* outbox/: a set of [id, pin, units]
    sealing,  \* seal_batches in progress: None or the networks to write
    flushes,  \* [Tasks -> flush in progress]
    ids,      \* batch ids used so far
    status,   \* whether the device is an active member, per network
    applied,  \* pin_usage_batches: ids
    counted,  \* pin_usage: how often each unit was added
    torn,     \* ghost: how often a crash left a unit both sealed and recorded
    refused,  \* ghost: units of batches that were answered with 404
    crashes

node == <<stream, meter, records, outbox, sealing, flushes, ids, fresh>>
vars == <<node, status, applied, counted, torn, refused, crashes>>

MaxIds == Cardinality(Units) + MaxCrashes * Cardinality(Pins)
Batch == [id : 1..MaxIds, pin : Pins, units : SUBSET Units]
Idle == [at |-> "idle", left |-> {}, batch |-> None, answer |-> "none"]

TypeOK ==
    /\ fresh \subseteq Units /\ meter \subseteq Units
    /\ records \subseteq Units /\ refused \subseteq Units
    /\ stream \in BOOLEAN
    /\ outbox \subseteq Batch
    /\ sealing \in {None} \cup SUBSET Pins
    /\ flushes \in [Tasks -> [at : {"idle", "sealing", "sending", "waiting"},
                              left : SUBSET Batch, batch : Batch \cup {None},
                              answer : {"none", "ok", "notfound", "error"}]]
    /\ ids \in 0..MaxIds /\ applied \subseteq 1..MaxIds
    /\ status \in [Pins -> BOOLEAN]
    /\ counted \in [Units -> Nat] /\ torn \in [Units -> Nat]
    /\ crashes \in 0..MaxCrashes

Init ==
    /\ fresh = Units /\ stream = FALSE /\ meter = {}
    /\ records = {} /\ outbox = {} /\ sealing = None /\ ids = 0
    /\ flushes = [t \in Tasks |-> Idle]
    /\ status = [p \in Pins |-> TRUE]
    /\ applied = {} /\ counted = [u \in Units |-> 0]
    /\ torn = [u \in Units |-> 0] /\ refused = {} /\ crashes = 0

-----------------------------------------------------------------------------
(* Serving. *)

\* UsageBatcher::record, under the lock that seal_batches holds.
Record(u) ==
    /\ sealing = None
    /\ records' = records \cup {u}

StartFlush(t) == flushes' = [flushes EXCEPT ![t] = [Idle EXCEPT !.at = "sealing"]]

\* A request's completion is recorded; the record that fills the file to the
\* threshold starts a flush beside the loop's.
CountRequest(u) ==
    /\ u \in fresh \cap Requests
    /\ fresh' = fresh \ {u}
    /\ Record(u)
    /\ IF Cardinality(records') >= Threshold /\ flushes["threshold"].at = "idle"
       THEN StartFlush("threshold") ELSE UNCHANGED flushes
    /\ UNCHANGED <<stream, meter, outbox, sealing, ids,
                   status, applied, counted, torn, refused, crashes>>

handle_open ==
    /\ ~stream
    /\ stream' = TRUE
    /\ UNCHANGED <<meter, records, outbox, sealing, flushes, ids, fresh,
                   status, applied, counted, torn, refused, crashes>>

\* By either end; the pump that removes the stream ends with it.
handle_close ==
    /\ stream
    /\ stream' = FALSE
    /\ UNCHANGED <<meter, records, outbox, sealing, flushes, ids, fresh,
                   status, applied, counted, torn, refused, crashes>>

\* A chunk in either direction is metered as it passes.
handle_data(u) ==
    /\ stream
    /\ u \in fresh \cap Bytes
    /\ fresh' = fresh \ {u}
    /\ meter' = meter \cup {u}
    /\ UNCHANGED <<stream, records, outbox, sealing, flushes, ids,
                   status, applied, counted, torn, refused, crashes>>

\* Once a minute what the meter holds is recorded, network by network; a
\* record that cannot be written goes back into the meter.
drain_into(p) ==
    LET D == {u \in meter : PinOf[u] = p} IN
    /\ D # {}
    /\ sealing = None
    /\ records' = records \cup D
    /\ meter' = meter \ D
    /\ UNCHANGED <<stream, outbox, sealing, flushes, ids, fresh,
                   status, applied, counted, torn, refused, crashes>>

-----------------------------------------------------------------------------
(* Flushing. *)

LoopFlush ==
    /\ flushes["loop"].at = "idle"
    /\ StartFlush("loop")
    /\ UNCHANGED <<stream, meter, records, outbox, sealing, ids, fresh,
                   status, applied, counted, torn, refused, crashes>>

Recorded == {PinOf[u] : u \in records}

\* seal_batches: one file per network, and only then the truncation.
SealWrite(t, p) ==
    /\ \/ sealing = None /\ flushes[t].at = "sealing" /\ p \in Recorded
          /\ sealing' = Recorded \ {p}
       \/ sealing # None /\ p \in sealing
          /\ sealing' = sealing \ {p}
    /\ ids' = ids + 1
    /\ outbox' = outbox \cup
         {[id |-> ids + 1, pin |-> p, units |-> {u \in records : PinOf[u] = p}]}
    /\ UNCHANGED <<stream, meter, records, flushes, fresh,
                   status, applied, counted, torn, refused, crashes>>

SealTruncate ==
    /\ sealing = {}
    /\ records' = {}
    /\ sealing' = None
    /\ UNCHANGED <<stream, meter, outbox, flushes, ids, fresh,
                   status, applied, counted, torn, refused, crashes>>

\* The files the directory lists once the records are sealed.
ListOutbox(t) ==
    /\ flushes[t].at = "sealing" /\ sealing = None /\ records = {}
    /\ flushes' = [flushes EXCEPT ![t] =
         IF outbox = {} THEN Idle ELSE [Idle EXCEPT !.at = "sending", !.left = outbox]]
    /\ UNCHANGED <<stream, meter, records, outbox, sealing, ids, fresh,
                   status, applied, counted, torn, refused, crashes>>

Add(b) == counted' = [u \in Units |-> counted[u] + (IF u \in b.units THEN 1 ELSE 0)]

\* One transaction: the batch id is new, or nothing is counted.
record_usage_batch_NoDedup(b) ==
    applied' = applied \cup {b.id} /\ Add(b)

record_usage_batch(b) ==
    IF b.id \in applied
    THEN UNCHANGED <<applied, counted>>
    ELSE applied' = applied \cup {b.id} /\ Add(b)

\* The next file is read and posted, unless it is gone by now; the request
\* or the answer may be lost.  The gateway's handler answers any device that
\* is not an active member with 404.
usage_report(t, b) ==
    /\ flushes[t].at = "sending" /\ b \in flushes[t].left \cap outbox
    /\ \E a \in {"ok", "notfound", "error"} :
        /\ a = "ok" => status[b.pin]
        /\ a = "notfound" => ~status[b.pin]
        /\ flushes' = [flushes EXCEPT ![t] =
             [at |-> "waiting", left |-> flushes[t].left \ {b}, batch |-> b, answer |-> a]]
        /\ \/ status[b.pin] /\ record_usage_batch(b)
           \/ a # "ok" /\ UNCHANGED <<applied, counted>>
    /\ UNCHANGED <<stream, meter, records, outbox, sealing, ids, fresh,
                   status, torn, refused, crashes>>

Continue(left) ==
    IF left = {} THEN Idle ELSE [Idle EXCEPT !.at = "sending", !.left = left]

SkipBatch(t, b) ==
    /\ flushes[t].at = "sending" /\ b \in flushes[t].left \ outbox
    /\ flushes' = [flushes EXCEPT ![t] = Continue(flushes[t].left \ {b})]
    /\ UNCHANGED <<stream, meter, records, outbox, sealing, ids, fresh,
                   status, applied, counted, torn, refused, crashes>>

\* The file goes on a 2xx and on a 404, and stays after any other answer.
Settled(answer) == answer \in {"ok", "notfound"}

HearAnswer(t) ==
    /\ flushes[t].at = "waiting"
    /\ LET f == flushes[t] IN
       /\ outbox' = IF Settled(f.answer) THEN outbox \ {f.batch} ELSE outbox
       /\ refused' = IF f.answer = "notfound" THEN refused \cup f.batch.units ELSE refused
       /\ flushes' = [flushes EXCEPT ![t] = Continue(f.left)]
    /\ UNCHANGED <<stream, meter, records, sealing, ids, fresh,
                   status, applied, counted, torn, crashes>>

-----------------------------------------------------------------------------
\* The network's staff disables or removes the device, or takes it back.
ChangeStatus(p) ==
    /\ status' = [status EXCEPT ![p] = ~@]
    /\ UNCHANGED <<node, applied, counted, torn, refused, crashes>>

\* What is in memory is gone; the batches a seal wrote stay beside the records
\* it did not truncate.
Crash ==
    /\ crashes < MaxCrashes
    /\ crashes' = crashes + 1
    /\ stream' = FALSE /\ meter' = {} /\ sealing' = None
    /\ flushes' = [t \in Tasks |-> Idle]
    /\ torn' = [u \in Units |->
         torn[u] + (IF sealing # None /\ u \in records /\ PinOf[u] \notin sealing
                    THEN 1 ELSE 0)]
    /\ UNCHANGED <<records, outbox, ids, fresh, status, applied, counted, refused>>

Next ==
    \/ \E u \in Units : CountRequest(u) \/ handle_data(u)
    \/ handle_open \/ handle_close
    \/ LoopFlush \/ SealTruncate \/ Crash
    \/ \E p \in Pins : drain_into(p) \/ \E t \in Tasks : SealWrite(t, p)
    \/ \E p \in Flapping : ChangeStatus(p)
    \/ \E t \in Tasks :
        \/ ListOutbox(t) \/ HearAnswer(t)
        \/ \E b \in flushes[t].left : usage_report(t, b) \/ SkipBatch(t, b)

Spec == Init /\ [][Next]_vars

-----------------------------------------------------------------------------
\* Where a unit still is on the device.
OnDevice(u) ==
    \/ u \in meter \cup records
    \/ \E b \in outbox : u \in b.units

\* Whatever was recorded is still on disk, was counted by the gateway or was
\* answered with 404; what left the meter in a crash is the one loss.  And it
\* is counted once, however often its batch is sent, unless a crash hit the
\* seal between the batch's file and the truncation: then once more per crash.
UsageCountedOnce ==
    \A u \in Units :
        /\ u \notin fresh =>
             \/ OnDevice(u) \/ counted[u] > 0 \/ u \in refused
             \/ u \in Bytes /\ crashes > 0
        /\ counted[u] <= 1 + torn[u]
=============================================================================
