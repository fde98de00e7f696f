------------------------------- MODULE Groups -------------------------------
(***************************************************************************)
(* Group chat brokered by the gateway (gateway/src/handlers/groups.rs) and *)
(* the apps that use it (GroupRepository.kt).  A post is stored under the  *)
(* database lock and broadcast after it to the live streams, over one      *)
(* channel for all groups that drops the oldest when a stream lags.        *)
(***************************************************************************)
EXTENDS Naturals, Sequences, FiniteSetsExt

CONSTANTS Devices, Groups,
          Readers,     \* the devices whose listings and streams are followed
          Limit,       \* messages per listing (clamped to 1..500)
          ChanCap,     \* capacity of group_tx
          MaxPosts, MaxNotes, MaxTime, None   \* bounds

VARIABLES members,     \* group_members; a group exists when it has some
          messages,    \* group_messages, in the order of their insertion
          memory,      \* group_memory
          posting,     \* messages stored and not broadcast yet
          stream,      \* per device: its SSE stream
          seen,        \* per device: the messages it was given, per group
          now

vars == <<members, messages, memory, posting, stream, seen, now>>

NoStream == [group |-> None, queue |-> <<>>, lagged |-> FALSE, listed |-> FALSE]

Init ==
    /\ members = [g \in Groups |-> {}]
    /\ messages = <<>> /\ memory = <<>> /\ posting = {}
    /\ stream = [d \in Readers |-> NoStream]
    /\ seen = [d \in Readers |-> [g \in Groups |-> {}]]
    /\ now = 1

is_member(d, g) == d \in members[g]

create_group(d, g, others) ==
    /\ members[g] = {}
    /\ members' = [members EXCEPT ![g] = {d} \cup others]
    /\ UNCHANGED <<messages, memory, posting, stream, seen, now>>

add_member(d, g, new) ==
    /\ is_member(d, g)
    /\ members' = [members EXCEPT ![g] = @ \cup {new}]
    /\ UNCHANGED <<messages, memory, posting, stream, seen, now>>

\* Into the table, under the lock; the membership check is under it too.
Stored(d, g) ==
    LET m == [id |-> Len(messages) + 1, group |-> g, sender |-> d, timestamp |-> now]
    IN  messages' = Append(messages, m) /\ posting' = posting \cup {m}

\* What a stream's receiver holds after m was sent: the oldest go when it lags.
Received(s, m) ==
    IF s.group = None THEN s
    ELSE IF Len(s.queue) < ChanCap THEN [s EXCEPT !.queue = Append(@, m)]
    ELSE [s EXCEPT !.queue = Append(Tail(@), m), !.lagged = TRUE]

post_message(d, g) ==
    /\ is_member(d, g) /\ Len(messages) < MaxPosts
    /\ Stored(d, g)
    /\ UNCHANGED <<members, memory, stream, seen, now>>

\* The handler goes on to the live streams.
broadcast(m) ==
    /\ posting' = posting \ {m}
    /\ stream' = [d \in Readers |-> Received(stream[d], m)]
    /\ UNCHANGED <<members, messages, memory, seen, now>>

Of(g) == {i \in DOMAIN messages : messages[i].group = g}
Newer(g, since) == {i \in Of(g) : messages[i].timestamp > since}

\* The oldest Limit messages of the group after since.
Pages(g, since) ==
    {page \in SUBSET Newer(g, since) :
        /\ Cardinality(page) <= Limit
        /\ page # Newer(g, since) => Cardinality(page) = Limit
        /\ \A i \in page, j \in Newer(g, since) \ page : messages[i].timestamp <= messages[j].timestamp}

cursor_Newest(d, g) == Max({0} \cup {m.timestamp : m \in seen[d][g]})

\* The apps list from the beginning every time.
cursor(d, g) == 0

list_messages(d, g) ==
    /\ is_member(d, g) /\ stream[d].group \in {g, None}
    /\ \E page \in Pages(g, cursor(d, g)) :
          seen' = [seen EXCEPT ![d][g] = @ \cup {messages[i] : i \in page}]
    /\ stream' = [stream EXCEPT ![d].listed = stream[d].group = g /\ Cardinality(Of(g)) <= Limit]
    /\ UNCHANGED <<members, messages, memory, posting, now>>

\* The membership check and the subscription are two steps; nobody is ever
\* removed from a group, so they are one here.
stream_messages(d, g) ==
    /\ is_member(d, g) /\ stream[d] = NoStream
    /\ stream' = [stream EXCEPT ![d].group = g]
    /\ UNCHANGED <<members, messages, memory, posting, seen, now>>

\* The stream's loop: the next message, forwarded if it is of the group.
recv(d) ==
    /\ stream[d].queue # <<>>
    /\ LET m == Head(stream[d].queue)
       IN  seen' = IF m.group = stream[d].group THEN [seen EXCEPT ![d][m.group] = @ \cup {m}] ELSE seen
    /\ stream' = [stream EXCEPT ![d].queue = Tail(@)]
    /\ UNCHANGED <<members, messages, memory, posting, now>>

StreamLost(d) ==
    /\ stream[d].group # None
    /\ stream' = [stream EXCEPT ![d] = NoStream]
    /\ UNCHANGED <<members, messages, memory, posting, seen, now>>

remember(d, g) ==
    /\ is_member(d, g) /\ Len(memory) < MaxNotes
    /\ memory' = Append(memory, g)
    /\ UNCHANGED <<members, messages, posting, stream, seen, now>>

Tick ==
    /\ now < MaxTime /\ now' = now + 1
    /\ UNCHANGED <<members, messages, memory, posting, stream, seen>>

Membership(d, g) ==
    \/ \E others \in SUBSET Devices : create_group(d, g, others)
    \/ \E new \in Devices : add_member(d, g, new)

Next ==
    \/ \E d \in Devices, g \in Groups :
          \/ Membership(d, g)
          \/ post_message(d, g) \/ remember(d, g)
    \/ \E d \in Readers, g \in Groups : list_messages(d, g) \/ stream_messages(d, g)
    \/ \E d \in Readers : recv(d) \/ StreamLost(d)
    \/ \E m \in posting : broadcast(m)
    \/ Tick

Spec == Init /\ [][Next]_vars

\* A device that opened its stream and then listed the group misses nothing
\* while the stream lives and does not lag: every stored message was given to
\* it, waits in its stream, or is yet to be broadcast (post_message stores
\* before it broadcasts, stream_messages subscribes before it yields).
NoGap ==
    \A d \in Readers : LET s == stream[d] IN
        (s.listed /\ ~s.lagged) =>
            \A i \in Of(s.group) :
                messages[i] \in seen[d][s.group] \cup posting
                                \cup {s.queue[k] : k \in DOMAIN s.queue}
=============================================================================
