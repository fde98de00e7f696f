---------------------------- MODULE AccountLogin ----------------------------
(* Passwordless login: codes and magic links mailed to one address, the      *)
(* account a login binds to, and the sliding sessions it issues.  Codes and  *)
(* tokens are random, so a code matches only the row it was made for.        *)
EXTENDS Naturals, Sequences, FiniteSets

CONSTANTS
    Wallet,                            \* an account linked by its own id
    EMAIL_CODE_RESEND_WINDOW_SECONDS,
    EMAIL_CODE_TTL_SECONDS,
    EMAIL_CODE_MAX_ATTEMPTS,
    ACCOUNT_SESSION_TTL_SECONDS,
    MaxCodes,                          \* bound on codes requested
    MaxNow,                            \* bound on the clock
    None

ByEmail == "email:"      \* account_user_id_for_email

VARIABLES
    now,
    codes,     \* account_email_codes, oldest first
    mailed,    \* rows whose code reached the mailbox
    wallets,   \* account_wallets, oldest first: [id, email]
    logins,    \* logins past their code or link: sequence of [row, at, account]
    sessions,  \* account_sessions: sequence of [account, expires, revoked]
    claimed    \* ghost: an account took the address after a login had found
               \* another one

vars == <<now, codes, mailed, wallets, logins, sessions, claimed>>

Row == [created : 0..MaxNow, attempts : 0..EMAIL_CODE_MAX_ATTEMPTS,
        consumed : BOOLEAN, link : BOOLEAN]

TypeOK ==
    /\ now \in 0..MaxNow
    /\ codes \in Seq(Row) /\ mailed \subseteq DOMAIN codes
    /\ wallets \in Seq([id : {Wallet, ByEmail}, email : BOOLEAN])
    /\ \A i \in DOMAIN logins :
         logins[i] \in [row : DOMAIN codes, at : {"verified", "resolved", "done"},
                        account : {None, Wallet, ByEmail}]
    /\ \A i \in DOMAIN sessions :
         sessions[i] \in [account : {Wallet, ByEmail}, revoked : BOOLEAN,
                          expires : 0..(MaxNow + ACCOUNT_SESSION_TTL_SECONDS)]
    /\ claimed \in BOOLEAN

Init ==
    /\ now = 0 /\ codes = <<>> /\ mailed = {} /\ wallets = <<>>
    /\ logins = <<>> /\ sessions = <<>> /\ claimed = FALSE

-----------------------------------------------------------------------------
Unconsumed == {r \in DOMAIN codes : ~codes[r].consumed}

\* ORDER BY created_at DESC LIMIT 1, of rows not consumed.
Latest == CHOOSE r \in Unconsumed : \A q \in Unconsumed : codes[q].created <= codes[r].created

Expired(r) == codes[r].created + EMAIL_CODE_TTL_SECONDS < now

\* No second code within the window.  Only a login's row carries a link.
CanSend ==
    \A r \in Unconsumed : now - codes[r].created >= EMAIL_CODE_RESEND_WINDOW_SECONDS

create_account_email_login_code(link) ==
    codes' = Append(codes,
        [created |-> now, attempts |-> 0, consumed |-> FALSE, link |-> link])

\* The mail goes out after the row is written; when it fails the row stays.
send_login_email(r) == mailed' \in {mailed, mailed \cup {r}}

request(link) ==
    /\ Len(codes) < MaxCodes
    /\ CanSend
    /\ create_account_email_login_code(link)
    /\ send_login_email(Len(codes) + 1)
    /\ UNCHANGED <<now, wallets, logins, sessions, claimed>>

\* A device that verifies the address in order to link an account goes no
\* further than this.
Consume(r, attempt) ==
    /\ codes' = [codes EXCEPT ![r].consumed = TRUE, ![r].attempts = @ + attempt]
    /\ logins' = Append(logins, [row |-> r, at |-> "verified", account |-> None])

\* A six-digit code is compared with the newest row that is not consumed.
Usable(r) == ~Expired(r) /\ codes[r].attempts < EMAIL_CODE_MAX_ATTEMPTS

verify_account_email_code(guess) ==
    /\ Unconsumed # {}
    /\ Usable(Latest)
    /\ IF guess = Latest
       THEN Consume(Latest, 1)
       ELSE /\ codes' = [codes EXCEPT ![Latest].attempts = @ + 1]
            /\ UNCHANGED logins
    /\ UNCHANGED <<now, mailed, wallets, sessions, claimed>>

\* A link finds its own row, whatever its age or attempts among the others.
CanFollow_Again(r) == codes[r].link /\ ~Expired(r)

CanFollow(r) == codes[r].link /\ ~codes[r].consumed /\ ~Expired(r)

verify_account_email_link_token(r) ==
    /\ CanFollow(r)
    /\ Consume(r, 0)
    /\ UNCHANGED <<now, mailed, wallets, sessions, claimed>>

-----------------------------------------------------------------------------
\* The oldest wallet with the address, or a new one with an id made from it.
Owner == {i \in DOMAIN wallets : wallets[i].email}

account_user_id_for_login(i) ==
    /\ logins[i].at = "verified"
    /\ LET found == Owner # {}
           id == IF found THEN wallets[CHOOSE k \in Owner : \A j \in Owner : k <= j].id
                 ELSE ByEmail IN
       /\ wallets' = IF found THEN wallets
                     ELSE Append(wallets, [id |-> ByEmail, email |-> TRUE])
       /\ logins' = [logins EXCEPT ![i].at = "resolved", ![i].account = id]
    /\ UNCHANGED <<now, codes, mailed, sessions, claimed>>

create_account_session(i) ==
    /\ logins[i].at = "resolved"
    /\ logins' = [logins EXCEPT ![i].at = "done"]
    /\ sessions' = Append(sessions, [account |-> logins[i].account, revoked |-> FALSE,
                                     expires |-> now + ACCOUNT_SESSION_TTL_SECONDS])
    /\ UNCHANGED <<now, codes, mailed, wallets, claimed>>

\* A device links to an account of another id, giving it the address or not;
\* an address once given stays.
LinkWallet(email) ==
    /\ LET k == {i \in DOMAIN wallets : wallets[i].id = Wallet} IN
       wallets' = IF k = {} THEN Append(wallets, [id |-> Wallet, email |-> email])
                  ELSE [wallets EXCEPT ![CHOOSE i \in k : TRUE].email = @ \/ email]
    /\ claimed' = (claimed \/ (email /\ Owner # {}))
    /\ UNCHANGED <<now, codes, mailed, logins, sessions>>

-----------------------------------------------------------------------------
\* Sliding renewal past the half-life; expired and revoked sessions miss.
resolve_account_session(s) ==
    /\ ~sessions[s].revoked
    /\ sessions[s].expires >= now
    /\ now > sessions[s].expires - (ACCOUNT_SESSION_TTL_SECONDS \div 2)
    /\ sessions' = [sessions EXCEPT ![s].expires = now + ACCOUNT_SESSION_TTL_SECONDS]
    /\ UNCHANGED <<now, codes, mailed, wallets, logins, claimed>>

revoke_account_session(s) ==
    /\ ~sessions[s].revoked
    /\ sessions' = [sessions EXCEPT ![s].revoked = TRUE]
    /\ UNCHANGED <<now, codes, mailed, wallets, logins, claimed>>

Tick ==
    /\ now < MaxNow
    /\ now' = now + 1
    /\ UNCHANGED <<codes, mailed, wallets, logins, sessions, claimed>>

\* A login takes the database once for each of its steps.
verify(i) == account_user_id_for_login(i) \/ create_account_session(i)

Next ==
    \/ \E b \in BOOLEAN : request(b) \/ LinkWallet(b)
    \/ \E g \in mailed \cup {None} : verify_account_email_code(g)
    \/ \E r \in mailed : verify_account_email_link_token(r)
    \/ \E i \in DOMAIN logins : verify(i)
    \/ \E s \in DOMAIN sessions : resolve_account_session(s) \/ revoke_account_session(s)
    \/ Tick

Spec == Init /\ [][Next]_vars

-----------------------------------------------------------------------------
\* One mail gives one login, although its code and its link are two ways in
\* and an older code counts again once the newer one is consumed; and logins
\* with one address agree on the account, also when two of them race to
\* create it, unless an account took the address after another had it.
OneLoginPerMail ==
    /\ \A i, j \in DOMAIN logins : logins[i].row = logins[j].row => i = j
    /\ ~claimed => \A s, t \in DOMAIN sessions : sessions[s].account = sessions[t].account
=============================================================================
