--------------------------- MODULE MCGatewayParts ---------------------------
(* Parts of the gateway that share no state, checked in one run: a behaviour *)
(* picks one of them and only that one takes steps.                          *)
(* The module this one extends is the part that API keys and the requests    *)
(* made with them are.                                                       *)
EXTENDS ApiKeySpend

CONSTANT a1

VARIABLES
    part,
    now, codes, mailed, bymail, logins, sessions, claimed,
    pc, cached, known, challenge, retried, published, ran, seen, faults,
    remaining, balance, rows, wallet, bonused, refcodes, claims, linked,
    session, linking, welcomes, referred, mints,
    ledger, hashes, anchors, memos, call, resets,
    members, messages, memory, posting, stream, read, clock

\* The accounts, limits and costs of the API keys' part: a request costs almost
\* what the key allows.
MCDeposits == [a \in Accounts |-> IF a = a1 THEN 14 ELSE 3]
MCLimits == {10}
MCCosts == {9}

Login == INSTANCE AccountLogin WITH
    Wallet <- "uuid", MaxCodes <- 2, MaxNow <- 3,
    EMAIL_CODE_RESEND_WINDOW_SECONDS <- 1, EMAIL_CODE_TTL_SECONDS <- 1,
    EMAIL_CODE_MAX_ATTEMPTS <- 1, ACCOUNT_SESSION_TTL_SECONDS <- 2,
    wallets <- bymail

\* The wallet loop and the network manager of one node, and another node's
\* wallet loop.
Token == INSTANCE DeviceToken WITH
    Nodes <- {"n1", "n2"}, Clients <- {"w1", "p1", "w2"}, Wallets <- {"w1", "w2"},
    NodeOf <- [w1 |-> "n1", p1 |-> "n1", w2 |-> "n2"],
    TOKEN_TTL_SECONDS <- 4, RefreshMargin <- 1, WINDOW_SECONDS <- 2,
    MAX_UNIQUE_PER_WINDOW <- 1, MaxFaults <- 2

Mint == INSTANCE Minting WITH
    Devices <- {"d", "e"}, Accounts <- {"a"}, Models <- {"m", "n"},
    Supplies <- {<< >>, [d |-> "m"], [d |-> "n", e |-> "n"]},
    Demands <- {[m |-> 0, n |-> 0], [m |-> 1, n |-> 0]},
    Linkers <- {"d", "e"}, Joiners <- {"e"}, Referrers <- {"d"}, Senders <- {"e"},
    WELCOME_BONUS_CREDITS <- 1, REFERRAL_BONUS_CREDITS <- 1,
    INITIAL_MINT_POOL <- 2, MaxMints <- 1, codes <- refcodes

\* Rows written before the hash chain existed, and two operators who anchor.
Anchor == INSTANCE Anchoring WITH
    Contents <- {"x", "y"}, Backlog <- <<"x", "x", "x">>, Operators <- {"o1", "o2"},
    MaxRows <- 4, MaxAnchors <- 2, MaxResets <- 1, published <- memos

Chat == INSTANCE Groups WITH
    Devices <- {"a", "b"}, Groups <- {"g", "h"}, Readers <- {"b"}, Limit <- 2,
    ChanCap <- 1, MaxPosts <- 2, MaxNotes <- 1, MaxTime <- 1,
    seen <- read, now <- clock

login == <<now, codes, mailed, bymail, logins, sessions, claimed>>
token == <<pc, cached, known, challenge, retried, published, ran, seen, faults>>
mint == <<remaining, balance, rows, wallet, bonused, refcodes, claims, linked,
          session, linking, welcomes, referred, mints>>
anchor == <<ledger, hashes, anchors, memos, call, resets>>
chat == <<members, messages, memory, posting, stream, read, clock>>
parts == <<part, vars, login, token, mint, anchor, chat>>

PartsInit ==
    /\ part \in {"keys", "login", "token", "mint", "anchor", "chat"}
    /\ Init /\ Login!Init /\ Token!Init /\ Mint!Init /\ Anchor!Init /\ Chat!Init

PartsNext ==
    /\ UNCHANGED part
    /\ \/ part = "keys" /\ Next /\ UNCHANGED <<login, token, mint, anchor, chat>>
       \/ part = "login" /\ Login!Next /\ UNCHANGED <<vars, token, mint, anchor, chat>>
       \/ part = "token" /\ Token!Next /\ UNCHANGED <<vars, login, mint, anchor, chat>>
       \/ part = "mint" /\ Mint!Next /\ UNCHANGED <<vars, login, token, anchor, chat>>
       \/ part = "anchor" /\ Anchor!Next /\ UNCHANGED <<vars, login, token, mint, chat>>
       \/ part = "chat" /\ Chat!Next /\ UNCHANGED <<vars, login, token, mint, anchor>>

PartsSpec ==
    /\ PartsInit /\ [][PartsNext]_parts
    /\ Token!Fairness

\* One mail gives one login, by its code or by its link, and logins with one
\* address agree on the account (OneLoginPerMail of AccountLogin).
OneLoginPerMail == Login!OneLoginPerMail

\* Every client of a node gets a token the gateway accepts again and again,
\* through lost calls, restarts of the gateway and its limit on new
\* identities (ClientsRecover of DeviceToken).
ClientsRecover == part = "token" => Token!ClientsRecover

\* A balance is the sum of the wallet's rows and of what its open
\* availability session accrued, and welcome and referral bonuses are paid
\* once (RowsAndSessions and RewardedOnce of Minting).
MintedOnce == Mint!RowsAndSessions /\ Mint!RewardedOnce

\* Confirmed anchors cover the rows without gap or overlap, and the proofs
\* the gateway hands out lead from a row as it is to a root on chain
\* (AnchorsTile and ProofsVerify of Anchoring).
AnchorsSound == Anchor!AnchorsTile /\ Anchor!ProofsVerify

\* A device that opened its stream and then listed the group misses no
\* message while the stream keeps up (NoGap of Groups).
NoGap == Chat!NoGap
=============================================================================
