----------------------------- MODULE DeviceToken -----------------------------
(* How a node proves its identity to the gateway: challenge, exchange, and   *)
(* the token its clients cache.  A node's wallet loop and its network        *)
(* manager cache a token each; nodes behind one address share the limit on   *)
(* new identities.  A tick of the clock is longer than the clients' request  *)
(* timeouts and their retry intervals, so every client runs once per tick.   *)
EXTENDS Naturals, FiniteSets

CONSTANTS
    Nodes,                   \* nodes behind one client address
    Clients,                 \* token caches
    NodeOf,                  \* the node of a client
    Wallets,                 \* the clients that are wallet loops
    TOKEN_TTL_SECONDS,
    RefreshMargin,           \* the 300 s before expiry when a token is renewed
    WINDOW_SECONDS,
    MAX_UNIQUE_PER_WINDOW,
    MaxFaults                \* bound on lost calls, gateway restarts and resets

VARIABLES
    pc,         \* where a client's sync is
    cached,     \* ticks a client's cached token has left, 0 for none
    known,      \* the gateway has that token's row
    challenge,  \* the gateway has the client's challenge
    retried,    \* the sync has already replaced a rejected token
    published,  \* the token last shown to the app: "none", "good" or "stale"
    ran,        \* the client has synced since the last tick
    seen,       \* ticks for which the limiter still counts a node
    faults

vars == <<pc, cached, known, challenge, retried, published, ran, seen, faults>>

TypeOK ==
    /\ pc \in [Clients -> {"idle", "challenged", "consumed", "fetch"}]
    /\ cached \in [Clients -> 0..TOKEN_TTL_SECONDS]
    /\ {known, challenge, retried, ran} \subseteq [Clients -> BOOLEAN]
    /\ published \in [Wallets -> {"none", "good", "stale"}]
    /\ seen \in [Nodes -> 0..WINDOW_SECONDS]
    /\ faults \in 0..MaxFaults

Init ==
    /\ pc = [c \in Clients |-> "idle"]
    /\ cached = [c \in Clients |-> 0]
    /\ known = [c \in Clients |-> FALSE]
    /\ challenge = known /\ retried = known /\ ran = known
    /\ published = [c \in Wallets |-> "none"]
    /\ seen = [n \in Nodes |-> 0]
    /\ faults = 0

-----------------------------------------------------------------------------
\* A cached token is used until shortly before it expires.
Fresh(c) == cached[c] > RefreshMargin

resolve_token(c) == known[c] /\ cached[c] > 0

\* A sync that is over, with its answer or with an error.
Finish(c) ==
    /\ pc' = [pc EXCEPT ![c] = "idle"]
    /\ ran' = [ran EXCEPT ![c] = TRUE]
    /\ retried' = [retried EXCEPT ![c] = FALSE]

Counted == {n \in Nodes : seen[n] > 0}

\* Retries of a counted node are free, a new one needs a place.
allow_RetryCosts(n) == Cardinality(Counted) < MAX_UNIQUE_PER_WINDOW

allow(n) == n \in Counted \/ Cardinality(Counted) < MAX_UNIQUE_PER_WINDOW

UseCached(c) ==
    /\ pc[c] = "idle" /\ ~ran[c]
    /\ Fresh(c)
    /\ pc' = [pc EXCEPT ![c] = "fetch"]
    /\ UNCHANGED <<cached, known, challenge, retried, published, ran, seen, faults>>

\* The first call of ensure_device_token, and of the second one a wallet
\* makes when it has dropped a rejected token.
challenge_(c) ==
    /\ pc[c] = "idle" /\ ~ran[c]
    /\ ~Fresh(c)
    /\ IF allow(NodeOf[c])
       THEN /\ seen' = IF seen[NodeOf[c]] > 0 THEN seen
                       ELSE [seen EXCEPT ![NodeOf[c]] = WINDOW_SECONDS]
            /\ challenge' = [challenge EXCEPT ![c] = TRUE]
            /\ pc' = [pc EXCEPT ![c] = "challenged"]
            /\ UNCHANGED <<ran, retried>>
       ELSE Finish(c) /\ UNCHANGED <<seen, challenge>>
    /\ UNCHANGED <<cached, known, published, faults>>

\* The exchange takes the database three times: it consumes the challenge,
\* applies the join rewards, which cannot be refused without a referral code,
\* and issues the token.
consume_challenge(c) ==
    /\ pc[c] = "challenged"
    /\ IF challenge[c]
       THEN /\ challenge' = [challenge EXCEPT ![c] = FALSE]
            /\ pc' = [pc EXCEPT ![c] = "consumed"]
            /\ UNCHANGED <<ran, retried>>
       ELSE Finish(c) /\ UNCHANGED challenge
    /\ UNCHANGED <<cached, known, published, seen, faults>>

issue_token(c) ==
    /\ pc[c] = "consumed"
    /\ cached' = [cached EXCEPT ![c] = TOKEN_TTL_SECONDS]
    /\ known' = [known EXCEPT ![c] = TRUE]
    /\ pc' = [pc EXCEPT ![c] = "fetch"]
    /\ UNCHANGED <<challenge, retried, published, ran, seen, faults>>

\* A wallet drops a rejected token and authenticates again, once; the sync
\* then shows the app the token it began with.
fetch_balance(c) ==
    /\ pc[c] = "fetch" /\ c \in Wallets
    /\ \/ /\ resolve_token(c)
          /\ published' = [published EXCEPT ![c] = IF retried[c] THEN "stale" ELSE "good"]
          /\ Finish(c)
          /\ UNCHANGED cached
       \/ /\ ~resolve_token(c) /\ ~retried[c]
          /\ cached' = [cached EXCEPT ![c] = 0]
          /\ retried' = [retried EXCEPT ![c] = TRUE]
          /\ pc' = [pc EXCEPT ![c] = "idle"]
          /\ UNCHANGED <<published, ran>>
       \/ /\ ~resolve_token(c) /\ retried[c]
          /\ Finish(c)
          /\ UNCHANGED <<cached, published>>
    /\ UNCHANGED <<known, challenge, seen, faults>>

\* The network manager reports a rejected token as an error and keeps it.
bearer(c) ==
    /\ pc[c] = "fetch" /\ c \notin Wallets
    /\ Finish(c)
    /\ UNCHANGED <<cached, known, challenge, published, seen, faults>>

-----------------------------------------------------------------------------
\* An HTTP call of a client fails, or its answer is lost: the exchange may
\* have issued a token nobody holds.
CallLost(c) ==
    /\ faults < MaxFaults
    /\ pc[c] # "idle"
    /\ faults' = faults + 1
    /\ Finish(c)
    /\ UNCHANGED <<cached, known, challenge, published, seen>>

\* The limiter lives in the gateway's memory.
GatewayRestarts ==
    /\ faults < MaxFaults
    /\ faults' = faults + 1
    /\ seen' = [n \in Nodes |-> 0]
    /\ UNCHANGED <<pc, cached, known, challenge, retried, published, ran>>

reset_genesis ==
    /\ faults < MaxFaults
    /\ faults' = faults + 1
    /\ known' = [c \in Clients |-> FALSE]
    /\ challenge' = [c \in Clients |-> FALSE]
    /\ UNCHANGED <<pc, cached, retried, published, ran, seen>>

Less(f) == [x \in DOMAIN f |-> IF f[x] = 0 THEN 0 ELSE f[x] - 1]

Tick ==
    /\ \A c \in Clients : pc[c] = "idle" /\ ran[c]
    /\ cached' = Less(cached)
    /\ seen' = Less(seen)
    /\ ran' = [c \in Clients |-> FALSE]
    /\ UNCHANGED <<pc, known, challenge, retried, published, faults>>

ensure_device_token(c) == UseCached(c) \/ challenge_(c) \/ consume_challenge(c) \/ issue_token(c)

sync_wallet_once(c) == ensure_device_token(c) \/ fetch_balance(c)

Next ==
    \/ \E c \in Clients : sync_wallet_once(c) \/ bearer(c) \/ CallLost(c)
    \/ GatewayRestarts \/ reset_genesis \/ Tick

Spec == Init /\ [][Next]_vars

\* The loops run for ever and time passes.
Fairness ==
    /\ WF_vars(Tick)
    /\ \A c \in Clients : WF_vars(sync_wallet_once(c) \/ bearer(c))

FairSpec == Spec /\ Fairness

-----------------------------------------------------------------------------
\* Every client gets a token the gateway accepts, again and again: after a
\* gateway that has forgotten all tokens, after lost calls, and also on the
\* nodes that come too late for the limit on new identities; and the app is
\* shown one.  (A wallet replaces a forgotten token at once, the network
\* manager only when it expires.)
ClientsRecover ==
    /\ \A c \in Clients : []<>resolve_token(c)
    /\ \A c \in Wallets : []<>(published[c] = "good")
=============================================================================
