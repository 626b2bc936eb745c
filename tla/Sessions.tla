------------------------------ MODULE Sessions ------------------------------
(***************************************************************************)
(* Sessions from the browser to the table of refresh tokens: the page      *)
(* whose calls are answered 401 once the access token has expired, the one *)
(* refresh they share (api.ts), its rotation in AuthService.refresh        *)
(* statement by statement, and what ends a session meanwhile: logout, a    *)
(* change of the password, its reset by an administrator, a deactivated    *)
(* account, a refresh token past its time, lost answers, reloads.          *)
(*                                                                         *)
(* A token stands for the access and the refresh token issued together.    *)
(***************************************************************************)
EXTENDS Administrators

CONSTANTS
    Me,         \* the user at the browser
    Tokens,     \* bound: pairs of tokens issued to him
    NoToken,
    Calls,      \* bound: API calls of the page at once
    Exchanges,  \* bound: requests to /auth/refresh under way at once
    MaxLosses   \* bound: lost answers and reloads

ASSUME SessionsAssumption ==
    /\ Me \in Users
    /\ NoToken \notin Tokens
    /\ MaxLosses \in Nat

VARIABLES
    token,      \* RefreshToken rows, "revoked" and "rotated" being revokedAt set
    expired,    \* tokens whose access token has expired
    store,      \* tokenStore in localStorage
    signedIn,   \* the page shows a user (AuthProvider)
    leaving,    \* logout waits for its answer
    refreshing, \* the exchange whose answer the page waits for, if any
    call,       \* calls of the page, and the token each carries
    exchange,   \* /auth/refresh requests, and where each is
    ended,      \* the session was ended on purpose, or a loss put it in doubt
    losses

page == <<store, signedIn, leaving, refreshing, call>>
sessionVars == <<userVars, token, expired, page, exchange, ended, losses>>

NoExchange == [at |-> "idle", token |-> NoToken, answer |-> NoToken]
NoCall == [at |-> "idle", token |-> NoToken]

SessionsInit ==
    /\ UsersInit
    /\ token = [t \in Tokens |-> "unissued"]
    /\ expired = {}
    /\ store = NoToken /\ signedIn = FALSE /\ leaving = FALSE /\ refreshing = {}
    /\ call = [c \in Calls |-> NoCall]
    /\ exchange = [e \in Exchanges |-> NoExchange]
    /\ ended = FALSE
    /\ losses = 0

\* Which of the tokens not issued yet makes no difference.
NewToken == CHOOSE t \in Tokens : token[t] = "unissued"
Exhausted == \A t \in Tokens : token[t] # "unissued"

\* updateMany: every token of the user that is not revoked yet.
AllRevoked == [t \in Tokens |-> IF token[t] \in {"valid", "lapsed"} THEN "revoked" ELSE token[t]]

-----------------------------------------------------------------------------
(* AuthService *)

Proceed(e, at) == exchange' = [exchange EXCEPT ![e].at = at]
AnswerWith(e, t) == exchange' = [exchange EXCEPT ![e].at = "answer", ![e].answer = t]

\* refresh looks the token up.  One that was revoked is taken for reuse, and ends
\* every session of the user.
lookUp(e) ==
    LET was == token[exchange[e].token] IN
    /\ exchange[e].at = "sent"
    /\ IF was = "valid" THEN Proceed(e, "check") ELSE AnswerWith(e, NoToken)
    /\ token' = IF was \in {"revoked", "rotated"} THEN AllRevoked ELSE token
    /\ UNCHANGED <<userVars, expired, page, ended, losses>>

checkUser(e) ==
    /\ exchange[e].at = "check"
    /\ IF user[Me].active THEN Proceed(e, "rotate") ELSE AnswerWith(e, NoToken)
    /\ UNCHANGED <<userVars, token, expired, page, ended, losses>>

rotate(e) ==
    /\ exchange[e].at = "rotate"
    /\ token' = [token EXCEPT ![exchange[e].token] = "rotated"]
    /\ Proceed(e, "issue")
    /\ UNCHANGED <<userVars, expired, page, ended, losses>>

issueTokens(e) ==
    /\ exchange[e].at = "issue" /\ ~Exhausted
    /\ token' = [token EXCEPT ![NewToken] = "valid"]
    /\ AnswerWith(e, NewToken)
    /\ UNCHANGED <<userVars, expired, page, ended, losses>>

\* changePassword; and update of a user with a new password, after its transaction.
changePassword ==
    /\ signedIn /\ store # NoToken /\ store \notin expired
    /\ token' = AllRevoked
    /\ ended' = TRUE
    /\ UNCHANGED <<userVars, expired, page, exchange, losses>>

revokeSessions(r) ==
    /\ admin[r].at = "revoke"
    /\ Finish(r)
    /\ token' = IF admin[r].id = Me THEN AllRevoked ELSE token
    /\ ended' = (ended \/ admin[r].id = Me)
    /\ UNCHANGED <<user, expired, page, exchange, losses>>

-----------------------------------------------------------------------------
(* The page *)

\* The user signs in; the form is shown while nobody is.
login ==
    /\ ~signedIn /\ user[Me].active /\ ~Exhausted
    /\ user = UsersAtFirst /\ ~Busy(Kinds)
    /\ token' = [token EXCEPT ![NewToken] = "valid"]
    /\ store' = NewToken
    /\ signedIn' = TRUE
    /\ ended' = ((\E e \in Exchanges : exchange[e] # NoExchange)
                  \/ (\E c \in Calls : call[c] # NoCall))
    /\ UNCHANGED <<userVars, expired, leaving, refreshing, call, exchange, losses>>

\* logout revokes the token in the store and, once answered, clears the store.
logout ==
    /\ signedIn /\ ~leaving
    /\ leaving' = TRUE
    /\ token' = IF store \in Tokens /\ token[store] \in {"valid", "lapsed"}
                THEN [token EXCEPT ![store] = "revoked"] ELSE token
    /\ ended' = TRUE
    /\ UNCHANGED <<userVars, expired, store, signedIn, refreshing, call, exchange, losses>>

loggedOut ==
    /\ leaving /\ leaving' = FALSE
    /\ store' = NoToken /\ signedIn' = FALSE
    /\ UNCHANGED <<userVars, token, expired, refreshing, call, exchange, ended, losses>>

\* Calls carry the access token of the store.
send(c) ==
    /\ signedIn /\ call[c] = NoCall
    /\ call' = [call EXCEPT ![c] = [at |-> "sent", token |-> store]]
    /\ UNCHANGED <<userVars, token, expired, store, signedIn, leaving, refreshing, exchange,
                   ended, losses>>

\* JwtStrategy.validate
Admitted(c) == call[c].token \in Tokens \ expired /\ user[Me].active

serve(c) ==
    /\ call[c].at \in {"sent", "resent"} /\ Admitted(c)
    /\ call' = [call EXCEPT ![c] = NoCall]
    /\ UNCHANGED <<userVars, token, expired, store, signedIn, leaving, refreshing, exchange,
                   ended, losses>>

\* /login is loaded: whatever the page was doing is gone.
ToLogin ==
    /\ store' = NoToken /\ signedIn' = FALSE /\ leaving' = FALSE
    /\ refreshing' = {}
    /\ call' = [c \in Calls |-> NoCall]

\* Wrong on purpose: every 401 starts a refresh of its own.
unauthorizedAlone(c) ==
    /\ call[c].at = "sent" /\ ~Admitted(c) /\ store # NoToken
    /\ call' = [call EXCEPT ![c].at = "waiting"]
    /\ \E e \in Exchanges :
          /\ exchange[e] = NoExchange
          /\ exchange' = [exchange EXCEPT ![e] =
                [at |-> "sent", token |-> store, answer |-> NoToken]]
          /\ refreshing' = {e}
    /\ UNCHANGED <<userVars, token, expired, store, signedIn, leaving, ended, losses>>

\* 401: the call waits for the refresh under way, or starts one.
unauthorized(c) ==
    /\ call[c].at = "sent" /\ ~Admitted(c) /\ (store # NoToken \/ refreshing # {})
    /\ call' = [call EXCEPT ![c].at = "waiting"]
    /\ IF refreshing # {} THEN UNCHANGED <<exchange, refreshing>>
       ELSE \E e \in Exchanges :
              /\ exchange[e] = NoExchange
              /\ exchange' = [exchange EXCEPT ![e] =
                    [at |-> "sent", token |-> store, answer |-> NoToken]]
              /\ refreshing' = {e}
    /\ UNCHANGED <<userVars, token, expired, store, signedIn, leaving, ended, losses>>

\* 401 with no token to refresh and no refresh to wait for: off to /login.
unauthorizedLoggedOut(c) ==
    /\ call[c].at = "sent" /\ ~Admitted(c) /\ store = NoToken /\ refreshing = {}
    /\ ToLogin
    /\ UNCHANGED <<userVars, token, expired, exchange, ended, losses>>

\* A call that was repeated already is not repeated again.
rejectCall(c) ==
    /\ call[c].at = "resent" /\ ~Admitted(c)
    /\ call' = [call EXCEPT ![c] = NoCall]
    /\ UNCHANGED <<userVars, token, expired, store, signedIn, leaving, refreshing, exchange,
                   ended, losses>>

\* Wrong on purpose: the new tokens are not stored, so the calls are repeated with the old.
answerNotStored(e) ==
    /\ exchange[e].at = "answer"
    /\ exchange' = [exchange EXCEPT ![e] = NoExchange]
    /\ IF e \notin refreshing THEN UNCHANGED page
       ELSE IF exchange[e].answer = NoToken THEN ToLogin
       ELSE /\ refreshing' = {}
            /\ call' = [c \in Calls |-> IF call[c].at = "waiting"
                           THEN [at |-> "resent", token |-> store] ELSE call[c]]
            /\ UNCHANGED <<store, signedIn, leaving>>
    /\ UNCHANGED <<userVars, token, expired, ended, losses>>

\* Wrong on purpose: only one of the calls that wait is resumed.
answerToOne(e) ==
    /\ exchange[e].at = "answer"
    /\ exchange' = [exchange EXCEPT ![e] = NoExchange]
    /\ IF e \notin refreshing THEN UNCHANGED page
       ELSE IF exchange[e].answer = NoToken THEN ToLogin
       ELSE /\ store' = exchange[e].answer
            /\ refreshing' = {}
            /\ \E c \in Calls : call[c].at = "waiting" /\
                  call' = [call EXCEPT ![c] = [at |-> "resent", token |-> exchange[e].answer]]
            /\ UNCHANGED <<signedIn, leaving>>
    /\ UNCHANGED <<userVars, token, expired, ended, losses>>

\* The answer to the shared refresh: everybody who waits goes on with the new token.
answer(e) ==
    /\ exchange[e].at = "answer"
    /\ exchange' = [exchange EXCEPT ![e] = NoExchange]
    /\ IF e \notin refreshing THEN UNCHANGED page
       ELSE IF exchange[e].answer = NoToken THEN ToLogin
       ELSE /\ store' = exchange[e].answer
            /\ refreshing' = {}
            /\ call' = [c \in Calls |-> IF call[c].at = "waiting"
                           THEN [at |-> "resent", token |-> exchange[e].answer] ELSE call[c]]
            /\ UNCHANGED <<signedIn, leaving>>
    /\ UNCHANGED <<userVars, token, expired, ended, losses>>

\* No answer: performRefresh fails as if it had been turned down; the API goes on.
loseAnswer(e) ==
    /\ e \in refreshing /\ losses < MaxLosses
    /\ ToLogin
    /\ losses' = losses + 1 /\ ended' = TRUE
    /\ UNCHANGED <<userVars, token, expired, exchange>>

\* The page is loaded anew: /auth/me is asked with the access token in the store, and
\* its 401 is not answered by a refresh.
reload ==
    LET known == store \in Tokens \ expired /\ user[Me].active IN
    /\ losses < MaxLosses
    /\ losses' = losses + 1
    /\ store' = (IF known THEN store ELSE NoToken) /\ signedIn' = known
    /\ leaving' = FALSE /\ refreshing' = {}
    /\ call' = [c \in Calls |-> NoCall]
    /\ ended' = (ended \/ ~known \/ refreshing # {})
    /\ UNCHANGED <<userVars, token, expired, exchange>>

-----------------------------------------------------------------------------
\* Bound: users are managed at will as long as nobody signs in; nobody signs in unless
\* the users are as at first; then only the session's own user is acted upon.
NoSessionYet == \A t \in Tokens : token[t] = "unissued"
Ending == {"deactivate", "resetPassword"}

\* The access token runs out; not between its issue and the end of the calls that wait
\* for it.
expire(t) ==
    /\ token[t] # "unissued" /\ t \notin expired
    /\ \A e \in Exchanges : exchange[e].answer # t
    /\ \A c \in Calls : call[c].at = "resent" => call[c].token # t
    /\ expired' = expired \cup {t}
    /\ UNCHANGED <<userVars, token, page, exchange, ended, losses>>

\* So does, later, the refresh token.
lapse(t) ==
    /\ token[t] = "valid" /\ t \in expired
    /\ token' = [token EXCEPT ![t] = "lapsed"]
    /\ ended' = TRUE
    /\ UNCHANGED <<userVars, expired, page, exchange, losses>>

manageUsers(r) ==
    /\ \/ UserStep(r)
       \/ \E u \in Users, kind \in Kinds :
             /\ beginUpdate(r, u, kind)
             /\ NoSessionYet \/ (u = Me /\ kind \in Ending /\ ~Busy(Kinds))
    /\ ended' = (ended \/ ~user'[Me].active)
    /\ UNCHANGED <<token, expired, page, exchange, losses>>

SessionsNext ==
    \/ login \/ logout \/ loggedOut \/ reload \/ changePassword
    \/ \E c \in Calls : \/ send(c) \/ serve(c) \/ unauthorized(c) \/ unauthorizedLoggedOut(c)
                        \/ rejectCall(c)
    \/ \E e \in Exchanges : \/ lookUp(e) \/ checkUser(e) \/ rotate(e) \/ issueTokens(e)
                            \/ answer(e) \/ loseAnswer(e)
    \/ \E t \in Tokens : expire(t) \/ lapse(t)
    \/ \E r \in Requests : manageUsers(r) \/ revokeSessions(r)

SessionsSpec == SessionsInit /\ [][SessionsNext]_sessionVars

-----------------------------------------------------------------------------
(* Correctness *)

\* What the page holds was issued, it waits for exchanges that exist, and calls wait
\* only while a refresh is under way that will resume them.
SessionsTypeOK ==
    /\ store \in {t \in Tokens : token[t] # "unissued"} \cup {NoToken}
    /\ \A e \in refreshing : exchange[e] # NoExchange
    /\ Cardinality(refreshing) <= 1
    /\ \A c \in Calls : call[c].at = "waiting" => refreshing # {}
    /\ \A r \in Requests : held[r] # {} => admin[r] # NoRequest /\ admin[r].at \in {"count", "write"}

\* A page never trips the detection of reuse by its own refreshes: unless the session
\* was ended, a token that was rotated is not presented again, however many calls are
\* answered 401 at once or late (api.ts:58-62).
RotatedTokenIsNotPresented ==
    \A e \in Exchanges :
        exchange[e].at = "sent" /\ token[exchange[e].token] = "rotated" => ended

\* Nobody is signed out, and no call fails for want of a token, in mid-session: only
\* after the session was ended (logout, a change of the password, a deactivated
\* account, a token past its time) or an answer or the page was lost.
NotSignedOutMidSession ==
    [][(signedIn /\ ~signedIn') \/ (\E c \in Calls : rejectCall(c)) => ended']_sessionVars
=============================================================================
