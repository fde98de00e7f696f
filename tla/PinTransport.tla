---------------------------- MODULE PinTransport ----------------------------
(* The data plane of a private network: Noise handshakes and encrypted       *)
(* messages over UDP, which loses, duplicates and reorders datagrams.  Keys  *)
(* are names and cryptography is symbolic: a Diffie-Hellman value is the set *)
(* of its two keys, a chaining key the sequence of what was mixed into it, a *)
(* hash the sequence of what it covers, and a ciphertext opens with the key  *)
(* and the associated data it was made with.                                 *)
EXTENDS Naturals, Sequences, FiniteSets

CONSTANTS
    Dials,        \* dial attempts of one device, each from a port of its own
    Expects,      \* [Dials -> the static key the netmap gives for the peer]
    Messages,     \* what an established dial sends, as 1..n in this order
    Fragments,    \* [Messages -> number of datagrams]
    Words, Bits,  \* the replay bitmap: words, and bits per word
    MaxEphemeral  \* bound on handshakes the peer answers

Initiator == "initiator"
Responder == "responder"
NoKey == <<>>

REPLAY_WINDOW == Words * Bits

VARIABLES
    net,      \* datagrams that were sent; any of them may arrive, any time
    dialer,   \* [Dials -> where a dial is, its key and its send counter]
    peers,    \* the listener's sessions by source address
    count,    \* handshakes the listener answered, by address
    got       \* messages delivered to the serving side, by address and message

vars == <<net, dialer, peers, count, got>>

Idle == [at |-> "idle", key |-> NoKey, next |-> 0, sent |-> 0]

\* opened: ghost, the counters of the datagrams this session has opened.
NoPeer == [key |-> NoKey, remote |-> NoKey, high |-> 0,
           bitmap |-> [w \in 0..(Words - 1) |-> 0], buffers |-> [m \in Messages |-> {}],
           opened |-> {}]

TypeOK ==
    /\ \A d \in Dials : dialer[d].at \in {"idle", "sent", "up", "failed"}
    /\ \A d \in Dials : peers[d].bitmap \in [0..(Words - 1) -> 0..(2^Bits - 1)]
    /\ count \in [Dials -> 0..MaxEphemeral]
    /\ got \in [Dials -> [Messages -> Nat]]

Init ==
    /\ net = {}
    /\ dialer = [d \in Dials |-> Idle]
    /\ peers = [d \in Dials |-> NoPeer]
    /\ count = [d \in Dials |-> 0]
    /\ got = [d \in Dials |-> [m \in Messages |-> 0]]

-----------------------------------------------------------------------------
(* The handshake. *)

dh(private, public) == {private, public}
noise_hkdf(ck, ikm) == Append(ck, ikm)
mix_hash(h, data) == Append(h, data)
encrypt(key, h, text) == [key |-> key, ad |-> h, text |-> text]
decrypts_Any(key, h, box) == TRUE

decrypts(key, h, box) == box.key = key /\ box.ad = h

\* The ephemeral key of the initiator's dial, and of the responder's answer.
Ephemeral(d) == <<"dial", d, 0>>
Answer(d, n) == <<"answer", d, n>>
Static(who) == <<"static", who, 0>>

\* The hash and chaining key after message 1, from either side: the keys are
\* those of the pattern IK.
After1(s, rs, e) ==
    LET h1 == mix_hash(<<rs>>, e)
        ck1 == noise_hkdf(<<>>, dh(e, rs))
        box == encrypt(ck1, h1, s)
        h2 == mix_hash(h1, box)
        ck2 == noise_hkdf(ck1, dh(s, rs))
        payload == encrypt(ck2, h2, "time") IN
    [ck |-> ck2, h |-> mix_hash(h2, payload), static |-> box, payload |-> payload]

\* Message 2 mixes ee and then, as the Swift side does, es once more.
After2(a, own, peer, es) == noise_hkdf(noise_hkdf(a.ck, dh(own, peer)), es)

initiator_begin(s, rs, e) ==
    LET a == After1(s, rs, e) IN [e |-> e, static |-> a.static, payload |-> a.payload]

\* NoKey when message 1 does not open with the responder's key.
responder_complete(s, msg, e) ==
    LET ck1 == noise_hkdf(<<>>, dh(s, msg.e))
        remote == msg.static.text
        a == After1(remote, s, msg.e)
        opens == /\ decrypts(ck1, mix_hash(<<s>>, msg.e), msg.static)
                 /\ decrypts(a.ck, mix_hash(mix_hash(<<s>>, msg.e), msg.static), msg.payload)
        ck == After2(a, e, msg.e, dh(s, msg.e)) IN
    IF opens
    THEN [key |-> ck, remote |-> remote,
          reply |-> [e |-> e, payload |-> encrypt(ck, mix_hash(a.h, e), "time")]]
    ELSE [key |-> NoKey]

initiator_finish(s, rs, e, msg) ==
    LET a == After1(s, rs, e)
        ck == After2(a, e, msg.e, dh(e, rs)) IN
    IF decrypts(ck, mix_hash(a.h, msg.e), msg.payload) THEN ck ELSE NoKey

-----------------------------------------------------------------------------
(* The dialling side. *)

Packet(kind, d, body) == [kind |-> kind, addr |-> d, body |-> body]

dial(d) ==
    /\ dialer[d].at = "idle"
    /\ dialer' = [dialer EXCEPT ![d].at = "sent"]
    /\ net' = net \cup {Packet("init", d,
         initiator_begin(Static(Initiator), Expects[d], Ephemeral(d)))}
    /\ UNCHANGED <<peers, count, got>>

\* The first answer from the address decides; a second one is not a type that
\* an established connection reads.
HearResponse(d, p) ==
    /\ dialer[d].at = "sent"
    /\ p.kind = "resp" /\ p.addr = d
    /\ LET k == initiator_finish(Static(Initiator), Expects[d], Ephemeral(d), p.body) IN
       dialer' = [dialer EXCEPT ![d].key = k, ![d].at = IF k = NoKey THEN "failed" ELSE "up"]
    /\ UNCHANGED <<net, peers, count, got>>

HANDSHAKE_TIMEOUT(d) ==
    /\ dialer[d].at = "sent"
    /\ dialer' = [dialer EXCEPT ![d].at = "failed"]
    /\ UNCHANGED <<net, peers, count, got>>

\* A message longer than MAX_PAYLOAD goes out in several datagrams, each
\* under a counter of its own.
send(d) ==
    /\ dialer[d].at = "up"
    /\ dialer[d].sent + 1 \in Messages
    /\ LET m == dialer[d].sent + 1 IN
       /\ net' = net \cup {Packet("data", d,
            [key |-> dialer[d].key, counter |-> dialer[d].next + i - 1,
             message |-> m, index |-> i]) : i \in 1..Fragments[m]}
       /\ dialer' = [dialer EXCEPT ![d].next = @ + Fragments[m], ![d].sent = m]
    /\ UNCHANGED <<peers, count, got>>

-----------------------------------------------------------------------------
(* The listening side. *)

\* Every message 1 that opens is answered, with a new ephemeral key, and
\* replaces the session of its address; the timestamp in it is not looked at.
HearInit(p) ==
    /\ p.kind = "init"
    /\ count[p.addr] < MaxEphemeral
    /\ LET r == responder_complete(Static(Responder), p.body, Answer(p.addr, count[p.addr])) IN
       /\ r.key # NoKey
       /\ net' = net \cup {Packet("resp", p.addr, r.reply)}
       /\ peers' = [peers EXCEPT ![p.addr] =
            [NoPeer EXCEPT !.key = r.key, !.remote = r.remote]]
    /\ count' = [count EXCEPT ![p.addr] = @ + 1]
    /\ UNCHANGED <<dialer, got>>

\* Bit n of a word, and of the bitmap at a distance from the high-water mark.
HasBit(word, n) == (word \div 2^n) % 2 = 1
Seen(s, distance) == HasBit(s.bitmap[distance \div Bits], distance % Bits)

is_replay_NoBitmap(s, c) == c <= s.high /\ s.high - c >= REPLAY_WINDOW

is_replay(s, c) ==
    /\ c <= s.high
    /\ s.high - c >= REPLAY_WINDOW \/ Seen(s, s.high - c)

SetBit(bitmap, distance) ==
    IF HasBit(bitmap[distance \div Bits], distance % Bits) THEN bitmap
    ELSE [bitmap EXCEPT ![distance \div Bits] = @ + 2^(distance % Bits)]

\* Whole words first, then bits with the carry from the word below.
shift_window_NoCarry(bitmap, n) ==
    [i \in 0..(Words - 1) |->
        IF i >= n \div Bits THEN (bitmap[i - n \div Bits] * 2^(n % Bits)) % 2^Bits ELSE 0]

shift_window(bitmap, n) ==
    LET ws == n \div Bits
        bs == n % Bits
        moved == [i \in 0..(Words - 1) |-> IF i >= ws THEN bitmap[i - ws] ELSE 0] IN
    [i \in 0..(Words - 1) |->
        ((moved[i] * 2^bs) % 2^Bits)
        + (IF i = 0 \/ bs = 0 THEN 0 ELSE moved[i - 1] \div 2^(Bits - bs))]

mark_received(s, c) ==
    IF c > s.high
    THEN LET n == c - s.high
             b == IF n >= REPLAY_WINDOW THEN NoPeer.bitmap ELSE shift_window(s.bitmap, n) IN
         [s EXCEPT !.high = c, !.bitmap = SetBit(b, 0)]
    ELSE [s EXCEPT !.bitmap = SetBit(s.bitmap, s.high - c)]

\* A datagram that opens and is no replay; its message is delivered when it is
\* whole, unless the queue of the serving side is full.
is_complete(s, m) == Cardinality(s.buffers[m]) = Fragments[m]

Deliver(d, m) ==
    \E full \in BOOLEAN : got' = IF full THEN got ELSE [got EXCEPT ![d][m] = @ + 1]

handle_datagram(p) ==
    /\ p.kind = "data"
    /\ peers[p.addr].key = p.body.key
    /\ ~is_replay(peers[p.addr], p.body.counter)
    /\ LET m == p.body.message
           s == [mark_received(peers[p.addr], p.body.counter)
                    EXCEPT !.buffers[m] = @ \cup {p.body.index},
                           !.opened = @ \cup {p.body.counter}] IN
       IF is_complete(s, m)
       THEN /\ peers' = [peers EXCEPT ![p.addr] = [s EXCEPT !.buffers[m] = {}]]
            /\ Deliver(p.addr, m)
       ELSE peers' = [peers EXCEPT ![p.addr] = s] /\ UNCHANGED got
    /\ UNCHANGED <<net, dialer, count>>

\* FRAGMENT_TTL
DropPartial(d, m) ==
    /\ peers[d].buffers[m] # {}
    /\ peers' = [peers EXCEPT ![d].buffers[m] = {}]
    /\ UNCHANGED <<net, dialer, count, got>>

Next ==
    \/ \E d \in Dials : dial(d) \/ HANDSHAKE_TIMEOUT(d) \/ send(d)
                        \/ \E m \in Messages : DropPartial(d, m)
    \/ \E p \in net : HearInit(p) \/ handle_datagram(p) \/ HearResponse(p.addr, p)

Spec == Init /\ [][Next]_vars

-----------------------------------------------------------------------------
\* Whatever the network repeats, delays or loses, a message that is delivered
\* was sent on this connection, whole, and is delivered once; and the bitmap
\* refuses exactly the datagrams that were opened, or are behind the window.
DeliveredOnce ==
    \A d \in Dials :
        /\ \A m \in Messages : got[d][m] <= (IF m <= dialer[d].sent THEN 1 ELSE 0)
        /\ \A c \in 0..dialer[d].next :
             is_replay(peers[d], c)
             <=> (c \in peers[d].opened \/ c + REPLAY_WINDOW <= peers[d].high)

\* A dial succeeds only with the peer whose key the netmap gives, which then
\* knows the dialler's key and holds the matching session; unless message 1
\* arrived twice, when the peer has moved on to a session the dialler does
\* not know.
EndsAgree ==
    \A d \in Dials : dialer[d].at = "up" =>
        /\ Expects[d] = Static(Responder)
        /\ peers[d].remote = Static(Initiator)
        /\ peers[d].key = dialer[d].key \/ count[d] > 1
=============================================================================
