---------------------------- MODULE AccountProofs ----------------------------
(***************************************************************************)
(* Proofs about user accounts and sessions, for any users, administrators, *)
(* requests, tokens, calls and exchanges. An administrator remains,        *)
(* whatever requests that take powers overlap, as long as none that grants *)
(* powers overlaps with them. The page presents no rotated token and signs *)
(* nobody out, as long as the session was not ended and nothing was lost.  *)
(***************************************************************************)
EXTENDS Sessions, FiniteSetTheorems, TLAPS

UserRow == [role : {"ADMIN", "OPERATOR"}, active : BOOLEAN]
UserRequest == [at : {"target", "lock", "count", "write", "revoke"}, id : Users, kind : Kinds]

\* Rows and requests are typed, and what takes powers overlaps with no grant.
UsersTyped ==
    /\ user \in [Users -> UserRow]
    /\ admin \in [Requests -> UserRequest \cup {NoRequest}]
    /\ held \in [Requests -> SUBSET Users]

Apart == ~(Busy(Granting) /\ Busy(Losing))

\* A request that takes powers has counted the administrators it holds, all there are;
\* before it writes to one of them, it has counted two.
Counted(r) ==
    admin[r] # NoRequest =>
        /\ admin[r].at \in {"lock", "count"} => admin[r].kind \in Losing
        /\ admin[r].at = "count" => held[r] = ActiveAdmins
        /\ admin[r].at = "write" /\ admin[r].kind \in Losing /\ admin[r].id \in ActiveAdmins =>
              /\ held[r] = ActiveAdmins
              /\ Cardinality(ActiveAdmins) >= 2

AdminInv ==
    /\ UsersTyped
    /\ Apart
    /\ \A r \in Requests : Counted(r)
    /\ AnAdminRemains

-----------------------------------------------------------------------------
\* Two administrators less one leave an administrator.
LEMMA OneOfTwoRemains ==
    ASSUME NEW S, IsFiniteSet(S), Cardinality(S) >= 2, NEW x
    PROVE  S \ {x} # {}
<1>1. SUFFICES ASSUME S \ {x} = {} PROVE FALSE
  OBVIOUS
<1>2. CASE x \in S
  <2>1. Cardinality(S \ {x}) = Cardinality(S) - 1
    BY <1>2, FS_RemoveElement
  <2>2. Cardinality(S) \in Nat
    BY FS_CardinalityType
  <2> QED
    BY <1>1, <2>1, <2>2, FS_EmptySet
<1>3. CASE x \notin S
  <2>1. S = {}
    BY <1>1, <1>3
  <2> QED
    BY <2>1, FS_EmptySet
<1> QED
  BY <1>2, <1>3

LEMMA AdminsFinite == IsFiniteSet(ActiveAdmins)
<1>1. ActiveAdmins \subseteq Users
  BY DEF ActiveAdmins
<1> QED
  BY <1>1, UsersAssumption, FS_Subset

LEMMA AdminInit == UsersInit => AdminInv
<1> SUFFICES ASSUME UsersInit PROVE AdminInv
  OBVIOUS
<1>1. UsersTyped
  BY DEF UsersInit, UsersTyped, UsersAtFirst, UserRow
<1>2. AnAdminRemains
  BY UsersAssumption DEF UsersInit, UsersAtFirst, AnAdminRemains, ActiveAdmins
<1>3. \A r \in Requests : admin[r] = NoRequest
  BY DEF UsersInit
<1> QED
  BY <1>1, <1>2, <1>3 DEF AdminInv, Apart, Busy, Counted

-----------------------------------------------------------------------------
(* One lemma per step of a request.                                        *)

UserNext ==
    \E r \in Requests :
        \/ UserStep(r)
        \/ \E u \in Users, kind \in Kinds : beginUpdate(r, u, kind)
        \/ admin[r].at = "revoke" /\ Finish(r) /\ UNCHANGED user

LEMMA Begins ==
    ASSUME ~GrantsOverlap, AdminInv,
           NEW r \in Requests, NEW u \in Users, NEW kind \in Kinds, beginUpdate(r, u, kind)
    PROVE  AdminInv'
<1> DEFINE t == [at |-> "target", id |-> u, kind |-> kind]
<1>1. t \in UserRequest /\ t # NoRequest
  BY DEF UserRequest, NoRequest
<1>2. admin' = [admin EXCEPT ![r] = t] /\ UNCHANGED <<user, held>>
  BY DEF beginUpdate
<1>3. /\ admin'[r] = t
      /\ \A q \in Requests \ {r} : admin'[q] = admin[q]
  BY <1>2 DEF AdminInv, UsersTyped
<1>4. UsersTyped'
  BY <1>1, <1>2 DEF AdminInv, UsersTyped
<1>5. ActiveAdmins' = ActiveAdmins
  BY <1>2 DEF ActiveAdmins
<1>6. Apart'
  <2>1. Losing \cap Granting = {}
    BY DEF Losing, Granting
  <2> QED
    BY <1>1, <1>3, <2>1 DEF AdminInv, Apart, Busy, beginUpdate
<1>7. ASSUME NEW q \in Requests PROVE Counted(q)'
  <2>1. CASE q = r
    BY <1>3, <2>1 DEF Counted
  <2>2. CASE q # r
    <3>1. admin'[q] = admin[q] /\ held'[q] = held[q]
      BY <1>2, <1>3, <2>2
    <3>2. Counted(q)
      BY DEF AdminInv
    <3> QED
      BY <1>5, <3>1, <3>2 DEF Counted
  <2> QED
    BY <2>1, <2>2
<1> QED
  BY <1>4, <1>5, <1>6, <1>7 DEF AdminInv, AnAdminRemains

\* A request that moves on, keeps its kind and changes no user.
LEMMA MovesOn ==
    ASSUME AdminInv, UNCHANGED user, NEW r \in Requests,
           admin[r] # NoRequest,
           NEW at \in {"lock", "count", "write"}, admin' = [admin EXCEPT ![r].at = at],
           NEW rows \in SUBSET Users, held' = [held EXCEPT ![r] = rows],
           at \in {"lock", "count"} => admin[r].kind \in Losing,
           at = "count" => rows = ActiveAdmins,
           at = "write" /\ admin[r].kind \in Losing /\ admin[r].id \in ActiveAdmins =>
              rows = ActiveAdmins /\ Cardinality(ActiveAdmins) >= 2
    PROVE  AdminInv'
<1> DEFINE t == [at |-> at, id |-> admin[r].id, kind |-> admin[r].kind]
<1>1. admin[r] \in UserRequest
  BY DEF AdminInv, UsersTyped
<1>2. [admin[r] EXCEPT !.at = at] = t /\ t \in UserRequest /\ t # NoRequest
  BY <1>1 DEF UserRequest, NoRequest
<1>3. admin' = [admin EXCEPT ![r] = t]
  BY <1>2
<1>4. /\ admin'[r] = t /\ held'[r] = rows
      /\ \A q \in Requests \ {r} : admin'[q] = admin[q] /\ held'[q] = held[q]
  BY <1>3 DEF AdminInv, UsersTyped
<1>5. UsersTyped'
  BY <1>2, <1>3 DEF AdminInv, UsersTyped
<1>6. ActiveAdmins' = ActiveAdmins
  BY DEF ActiveAdmins
<1>7. Apart'
  <2>1. ASSUME NEW kinds, Busy(kinds)' PROVE Busy(kinds)
    BY <1>4, <2>1 DEF Busy
  <2> QED
    BY <2>1 DEF AdminInv, Apart
<1>8. ASSUME NEW q \in Requests PROVE Counted(q)'
  <2>1. CASE q = r
    BY <1>4, <1>6, <2>1 DEF Counted
  <2>2. CASE q # r
    <3>1. Counted(q)
      BY DEF AdminInv
    <3> QED
      BY <1>4, <1>6, <2>2, <3>1 DEF Counted
  <2> QED
    BY <2>1, <2>2
<1> QED
  BY <1>5, <1>6, <1>7, <1>8 DEF AdminInv, AnAdminRemains

\* The end of a request that changes no user.
LEMMA Finishes ==
    ASSUME AdminInv, UNCHANGED user, NEW r \in Requests, Finish(r)
    PROVE  AdminInv'
<1>1. /\ admin'[r] = NoRequest
      /\ \A q \in Requests \ {r} : admin'[q] = admin[q] /\ held'[q] = held[q]
  BY DEF Finish, AdminInv, UsersTyped
<1>2. UsersTyped'
  BY DEF Finish, AdminInv, UsersTyped
<1>3. ActiveAdmins' = ActiveAdmins
  BY DEF ActiveAdmins
<1>4. Apart'
  <2>1. ASSUME NEW kinds, Busy(kinds)' PROVE Busy(kinds)
    BY <1>1, <2>1 DEF Busy
  <2> QED
    BY <2>1 DEF AdminInv, Apart
<1>5. ASSUME NEW q \in Requests PROVE Counted(q)'
  <2>1. CASE q = r
    BY <1>1, <2>1 DEF Counted
  <2>2. CASE q # r
    BY <1>1, <1>3, <2>2 DEF AdminInv, Counted
  <2> QED
    BY <2>1, <2>2
<1> QED
  BY <1>2, <1>3, <1>4, <1>5 DEF AdminInv, AnAdminRemains

\* The write, once the request is over; what it makes of the administrators.
LEMMA Writes ==
    ASSUME AdminInv, NEW r \in Requests, writeUser(r)
    PROVE  AdminInv'
<1> DEFINE id == admin[r].id
           kind == admin[r].kind
           row == Changed(user[id], kind)
           t == [at |-> "revoke", id |-> id, kind |-> kind]
           next == IF kind = "resetPassword" THEN t ELSE NoRequest
<1>1. /\ admin[r] # NoRequest /\ admin[r].at = "write"
      /\ admin[r] \in UserRequest
      /\ id \in Users /\ kind \in Kinds
  BY DEF writeUser, AdminInv, UsersTyped, UserRequest, NoRequest
<1>2. t \in UserRequest /\ t # NoRequest
  BY <1>1 DEF UserRequest, NoRequest
<1>3. admin' = [admin EXCEPT ![r] = next]
  <2>1. [admin[r] EXCEPT !.at = "revoke"] = t
    BY <1>1 DEF UserRequest
  <2> QED
    BY <2>1 DEF writeUser
<1>4. /\ user[id] \in UserRow
      /\ row \in UserRow
      /\ kind \notin Losing \cup Granting => row = user[id]
      /\ kind \in Losing => ~(row.role = "ADMIN" /\ row.active)
      /\ kind \in Granting /\ user[id].role = "ADMIN" /\ user[id].active => row = user[id]
  <2>1. user[id] \in UserRow
    BY <1>1 DEF AdminInv, UsersTyped
  <2>2. PICK role \in {"ADMIN", "OPERATOR"}, active \in BOOLEAN :
            user[id] = [role |-> role, active |-> active]
    BY <2>1 DEF UserRow
  <2>3. CASE kind = "demote"
    BY <2>1, <2>2, <2>3 DEF Changed, UserRow, Losing, Granting
  <2>4. CASE kind = "promote"
    BY <2>1, <2>2, <2>4 DEF Changed, UserRow, Losing, Granting
  <2>5. CASE kind = "deactivate"
    BY <2>1, <2>2, <2>5 DEF Changed, UserRow, Losing, Granting
  <2>6. CASE kind = "activate"
    BY <2>1, <2>2, <2>6 DEF Changed, UserRow, Losing, Granting
  <2>7. CASE kind = "resetPassword"
    BY <2>1, <2>2, <2>7 DEF Changed, UserRow, Losing, Granting
  <2> QED
    BY <1>1, <2>3, <2>4, <2>5, <2>6, <2>7 DEF Kinds, Losing, Granting
<1>5. user' = [user EXCEPT ![id] = row]
  BY DEF writeUser
<1> HIDE DEF row
<1>6. /\ admin'[r] = next
      /\ \A q \in Requests \ {r} : admin'[q] = admin[q] /\ held'[q] = held[q]
      /\ \A u \in Users : user'[u] = IF u = id THEN row ELSE user[u]
  BY <1>3, <1>5 DEF AdminInv, UsersTyped, writeUser
<1>7. UsersTyped'
  BY <1>1, <1>2, <1>3, <1>4, <1>5 DEF AdminInv, UsersTyped, writeUser
<1>8. Apart'
  <2>1. ASSUME NEW kinds, Busy(kinds)' PROVE Busy(kinds)
    BY <1>1, <1>6, <2>1 DEF Busy
  <2> QED
    BY <2>1 DEF AdminInv, Apart
<1>9. \A u \in Users : u # id => (u \in ActiveAdmins' <=> u \in ActiveAdmins)
  BY <1>6 DEF ActiveAdmins
<1>10. /\ kind \in Losing => id \notin ActiveAdmins'
       /\ kind \notin Losing => ActiveAdmins \subseteq ActiveAdmins'
  BY <1>1, <1>4, <1>6, <1>9 DEF ActiveAdmins, Kinds
<1>11. AnAdminRemains'
  <2>1. CASE kind \in Losing /\ id \in ActiveAdmins
    <3>1. Cardinality(ActiveAdmins) >= 2
      BY <1>1, <2>1 DEF AdminInv, Counted
    <3>2. PICK u \in ActiveAdmins : u # id
      BY <3>1, AdminsFinite, OneOfTwoRemains
    <3> QED
      BY <1>9, <3>2 DEF AnAdminRemains, ActiveAdmins
  <2>2. CASE ~(kind \in Losing /\ id \in ActiveAdmins)
    <3>1. ActiveAdmins \subseteq ActiveAdmins'
      BY <1>9, <1>10, <2>2 DEF ActiveAdmins
    <3> QED
      BY <3>1 DEF AdminInv, AnAdminRemains
  <2> QED
    BY <2>1, <2>2
<1>12. ASSUME NEW q \in Requests PROVE Counted(q)'
  <2>1. CASE q = r
    BY <1>6, <2>1 DEF Counted
  <2>2. CASE q # r
    <3>1. Counted(q) /\ admin'[q] = admin[q] /\ held'[q] = held[q]
      BY <1>6, <2>2 DEF AdminInv
    <3>2. SUFFICES ASSUME admin[q] # NoRequest,
                          admin[q].kind \in Losing,
                          \/ admin[q].at = "count"
                          \/ admin[q].at = "write" /\ admin[q].id \in ActiveAdmins'
                   PROVE  ActiveAdmins' = ActiveAdmins
      BY <3>1, <3>2 DEF Counted
    <3>3. kind \notin Granting
      BY <1>1, <3>2 DEF AdminInv, Apart, Busy
    <3>4. ActiveAdmins' \subseteq ActiveAdmins
      <4>1. id \in ActiveAdmins' => id \in ActiveAdmins
        BY <1>1, <1>4, <1>6, <1>10, <3>3 DEF ActiveAdmins
      <4> QED
        BY <1>9, <4>1 DEF ActiveAdmins
    <3>5. held[q] = ActiveAdmins
      BY <3>1, <3>2, <3>4 DEF Counted
    <3>6. id \notin ActiveAdmins
      BY <2>2, <3>5 DEF writeUser
    <3>7. ActiveAdmins \subseteq Users
      BY DEF ActiveAdmins
    <3>8. ActiveAdmins \subseteq ActiveAdmins'
      BY <1>9, <3>6, <3>7
    <3> QED
      BY <3>4, <3>8
  <2> QED
    BY <2>1, <2>2
<1> QED
  BY <1>7, <1>8, <1>11, <1>12 DEF AdminInv

LEMMA AdminStep ==
    ASSUME ~GrantsOverlap, AdminInv, UserNext \/ UNCHANGED userVars
    PROVE  AdminInv'
<1>1. CASE UNCHANGED userVars
  BY <1>1
     DEF userVars, AdminInv, UsersTyped, Apart, Busy, Counted, AnAdminRemains, ActiveAdmins
<1>2. ASSUME NEW r \in Requests, NEW u \in Users, NEW kind \in Kinds, beginUpdate(r, u, kind)
      PROVE  AdminInv'
  BY <1>2, Begins
<1>3. ASSUME NEW r \in Requests, admin[r].at = "revoke", Finish(r), UNCHANGED user
      PROVE  AdminInv'
  BY <1>3, Finishes
<1>4. ASSUME NEW r \in Requests, readTarget(r) PROVE AdminInv'
  <2> DEFINE at == IF admin[r].id \in ActiveAdmins /\ admin[r].kind \in Losing
                   THEN "lock" ELSE "write"
  <2>1. admin[r] # NoRequest
    BY <1>4 DEF readTarget, NoRequest
  <2>2. admin' = [admin EXCEPT ![r].at = at] /\ UNCHANGED <<user, held>>
    BY <1>4 DEF readTarget, Goto
  <2>3. held[r] \in SUBSET Users /\ held' = [held EXCEPT ![r] = held[r]]
    BY <2>2 DEF AdminInv, UsersTyped
  <2>4. at \in {"lock", "count", "write"} /\ at # "count"
    OBVIOUS
  <2>5. at = "lock" => admin[r].kind \in Losing
    OBVIOUS
  <2>6. ~(at = "write" /\ admin[r].kind \in Losing /\ admin[r].id \in ActiveAdmins)
    OBVIOUS
  <2> HIDE DEF at
  <2> QED
    BY <2>1, <2>2, <2>3, <2>4, <2>5, <2>6, MovesOn
<1>5. ASSUME NEW r \in Requests, lockAdmins(r) PROVE AdminInv'
  <2>1. admin[r] # NoRequest /\ admin[r].kind \in Losing
    BY <1>5 DEF lockAdmins, NoRequest, AdminInv, Counted
  <2>2. /\ admin' = [admin EXCEPT ![r].at = "count"]
        /\ held' = [held EXCEPT ![r] = ActiveAdmins] /\ UNCHANGED user
    BY <1>5 DEF lockAdmins, Goto
  <2>3. ActiveAdmins \in SUBSET Users
    BY DEF ActiveAdmins
  <2> QED
    BY <2>1, <2>2, <2>3, MovesOn
<1>6. ASSUME NEW r \in Requests, countAdmins(r) PROVE AdminInv'
  <2>1. admin[r] # NoRequest /\ admin[r].at = "count" /\ UNCHANGED user
    BY <1>6 DEF countAdmins, NoRequest
  <2>2. CASE Cardinality(ActiveAdmins) <= 1
    BY <1>6, <2>1, <2>2, Finishes DEF countAdmins
  <2>3. CASE ~(Cardinality(ActiveAdmins) <= 1)
    <3>1. admin' = [admin EXCEPT ![r].at = "write"] /\ UNCHANGED held
      BY <1>6, <2>3 DEF countAdmins, Goto
    <3>2. Cardinality(ActiveAdmins) >= 2
      BY <2>3, AdminsFinite, FS_CardinalityType
    <3>3. held[r] = ActiveAdmins /\ held[r] \in SUBSET Users
      BY <2>1 DEF AdminInv, UsersTyped, Counted
    <3>4. held' = [held EXCEPT ![r] = held[r]]
      BY <3>1 DEF AdminInv, UsersTyped
    <3> QED
      BY <2>1, <3>1, <3>2, <3>3, <3>4, MovesOn
  <2> QED
    BY <2>2, <2>3
<1>7. ASSUME NEW r \in Requests, writeUser(r) PROVE AdminInv'
  BY <1>7, Writes
<1>8. ASSUME NEW r \in Requests, abortUpdate(r) PROVE AdminInv'
  BY <1>8, Finishes DEF abortUpdate
<1> QED
  BY <1>1, <1>2, <1>3, <1>4, <1>5, <1>6, <1>7, <1>8 DEF UserNext, UserStep

\* What the page and the refreshes do leaves the users alone.
LEMMA SessionsStepUsers == SessionsNext => UserNext \/ UNCHANGED userVars
<1> SUFFICES ASSUME SessionsNext PROVE UserNext \/ UNCHANGED userVars
  OBVIOUS
<1>1. CASE login \/ logout \/ loggedOut \/ reload \/ changePassword
  BY <1>1 DEF login, logout, loggedOut, reload, changePassword
<1>2. ASSUME NEW c \in Calls,
             send(c) \/ serve(c) \/ unauthorized(c) \/ unauthorizedLoggedOut(c) \/ rejectCall(c)
      PROVE  UNCHANGED userVars
  BY <1>2 DEF send, serve, unauthorized, unauthorizedLoggedOut, rejectCall
<1>3. ASSUME NEW e \in Exchanges,
             \/ lookUp(e) \/ checkUser(e) \/ rotate(e) \/ issueTokens(e) \/ answer(e)
             \/ loseAnswer(e)
      PROVE  UNCHANGED userVars
  BY <1>3 DEF lookUp, checkUser, rotate, issueTokens, answer, loseAnswer
<1>4. ASSUME NEW t \in Tokens, expire(t) \/ lapse(t) PROVE UNCHANGED userVars
  BY <1>4 DEF expire, lapse
<1>5. ASSUME NEW r \in Requests, manageUsers(r) PROVE UserNext
  BY <1>5 DEF manageUsers, UserNext
<1>6. ASSUME NEW r \in Requests, revokeSessions(r) PROVE UserNext
  BY <1>6 DEF revokeSessions, UserNext
<1> QED
  BY <1>1, <1>2, <1>3, <1>4, <1>5, <1>6 DEF SessionsNext

\* An administrator remains, in every behaviour in which nobody is given powers while
\* somebody loses his (UsersService.assertNotRemovingLastAdmin).
THEOREM AdministratorsRemain ==
    ASSUME ~GrantsOverlap
    PROVE  SessionsSpec => []AnAdminRemains
<1>1. SessionsInit => AdminInv
  BY AdminInit DEF SessionsInit
<1>2. AdminInv /\ [SessionsNext]_sessionVars => AdminInv'
  <2>1. ASSUME AdminInv, SessionsNext PROVE AdminInv'
    BY <2>1, SessionsStepUsers, AdminStep
  <2>2. ASSUME AdminInv, UNCHANGED sessionVars PROVE AdminInv'
    <3>1. UNCHANGED userVars
      BY <2>2 DEF sessionVars
    <3> QED
      BY <2>2, <3>1, AdminStep
  <2> QED
    BY <2>1, <2>2
<1>3. AdminInv => AnAdminRemains
  BY DEF AdminInv
<1> QED
  BY <1>1, <1>2, <1>3, PTL DEF SessionsSpec

-----------------------------------------------------------------------------
(* The session.  A browser's tokens, calls and exchanges are typed ...     *)

Token == Tokens \cup {NoToken}
Issued == {t \in Tokens : token[t] # "unissued"}

SessionTypes ==
    /\ token \in [Tokens -> {"unissued", "valid", "lapsed", "revoked", "rotated"}]
    /\ expired \subseteq Issued
    /\ store \in Issued \cup {NoToken}
    /\ signedIn \in BOOLEAN /\ leaving \in BOOLEAN /\ ended \in BOOLEAN
    /\ leaving => signedIn
    /\ refreshing \subseteq Exchanges
    /\ \A e, f \in refreshing : e = f
    /\ call \in [Calls -> [at : {"idle", "sent", "waiting", "resent"}, token : Token]]
    /\ \A c \in Calls : call[c].at = "waiting" => refreshing # {}

ExchangeTypes ==
    /\ exchange \in [Exchanges -> [at : {"idle", "sent", "check", "rotate", "issue", "answer"},
                                   token : Token, answer : Token]]
    /\ \A e \in Exchanges :
          /\ exchange[e].at = "idle" => exchange[e] = NoExchange
          /\ exchange[e].at # "idle" => exchange[e].token \in Issued
          /\ exchange[e].answer \in Tokens => exchange[e].answer \in Issued \ expired
    /\ \A e \in refreshing : exchange[e].at # "idle"

\* ... and in mid-session the page has a valid token, or waits for the one exchange
\* there is, which presents a valid one or has the next one.
MidSession ==
    ~ended =>
        /\ ~leaving
        /\ signedIn => store \in Tokens /\ user[Me].active
        /\ signedIn /\ refreshing = {} => token[store] = "valid"
        /\ ~signedIn => /\ store = NoToken /\ refreshing = {}
                        /\ \A c \in Calls : call[c].at = "idle"
        /\ \A e \in Exchanges : exchange[e].at # "idle" => e \in refreshing
        /\ \A e \in refreshing :
              /\ exchange[e].at \in {"sent", "check", "rotate"} =>
                    token[exchange[e].token] = "valid"
              /\ exchange[e].at = "answer" =>
                    exchange[e].answer \in Tokens /\ token[exchange[e].answer] = "valid"
        /\ \A c \in Calls : call[c].at = "resent" => call[c].token \in Tokens \ expired

\* Locks are held between the count and the write.
Held == \A r \in Requests : held[r] # {} => admin[r] # NoRequest /\ admin[r].at \in {"count", "write"}

SessionInv == UsersTyped /\ Held /\ SessionTypes /\ ExchangeTypes /\ MidSession

\* Issuing a token takes one that was not issued.
LEMMA NewTokenIsNew ==
    ASSUME ~Exhausted
    PROVE  NewToken \in Tokens /\ token[NewToken] = "unissued"
BY DEF Exhausted, NewToken

-----------------------------------------------------------------------------
(* One lemma per step: what it makes of the session's rows, of the         *)
(* exchanges, and of a session that it does not end.                       *)

LEMMA Login ==
    ASSUME SessionInv, login
    PROVE  SessionTypes' /\ ExchangeTypes' /\ MidSession'
<1>1. SessionTypes'
  BY SessionsAssumption, NewTokenIsNew
     DEF login, page, SessionInv, SessionTypes, ExchangeTypes, Token, Issued, UsersAtFirst,
         NoCall, NoExchange, AllRevoked
<1>2. ExchangeTypes'
  BY SessionsAssumption, NewTokenIsNew
     DEF login, page, SessionInv, SessionTypes, ExchangeTypes, Token, Issued, UsersAtFirst,
         NoCall, NoExchange, AllRevoked
<1>3. MidSession'
  BY SessionsAssumption, NewTokenIsNew
     DEF login, page, SessionInv, SessionTypes, ExchangeTypes, MidSession, Token, Issued,
         userVars, UsersAtFirst, NoCall, NoExchange, AllRevoked
<1> QED
  BY <1>1, <1>2, <1>3

LEMMA Logout ==
    ASSUME SessionInv, logout
    PROVE  SessionTypes' /\ ExchangeTypes' /\ MidSession'
<1>1. SessionTypes'
  BY SessionsAssumption
     DEF logout, page, SessionInv, SessionTypes, ExchangeTypes, Token, Issued
<1>2. ExchangeTypes'
  BY SessionsAssumption
     DEF logout, page, SessionInv, SessionTypes, ExchangeTypes, Token, Issued
<1>3. MidSession'
  BY SessionsAssumption
     DEF logout, page, SessionInv, SessionTypes, ExchangeTypes, MidSession, Token, Issued,
         userVars
<1> QED
  BY <1>1, <1>2, <1>3

LEMMA LoggedOut ==
    ASSUME SessionInv, loggedOut
    PROVE  SessionTypes' /\ ExchangeTypes' /\ MidSession'
<1>1. SessionTypes'
  BY SessionsAssumption
     DEF loggedOut, page, SessionInv, SessionTypes, ExchangeTypes, Token, Issued
<1>2. ExchangeTypes'
  BY SessionsAssumption
     DEF loggedOut, page, SessionInv, SessionTypes, ExchangeTypes, Token, Issued
<1>3. MidSession'
  BY SessionsAssumption
     DEF loggedOut, page, SessionInv, SessionTypes, ExchangeTypes, MidSession, Token,
         Issued, userVars
<1> QED
  BY <1>1, <1>2, <1>3

LEMMA Reload ==
    ASSUME SessionInv, reload
    PROVE  SessionTypes' /\ ExchangeTypes' /\ MidSession'
<1>1. SessionTypes'
  BY SessionsAssumption
     DEF reload, page, SessionInv, SessionTypes, ExchangeTypes, Token, Issued, NoCall
<1>2. ExchangeTypes'
  BY SessionsAssumption
     DEF reload, page, SessionInv, SessionTypes, ExchangeTypes, Token, Issued, NoCall
<1>3. MidSession'
  BY SessionsAssumption
     DEF reload, page, SessionInv, SessionTypes, ExchangeTypes, MidSession, Token, Issued,
         userVars, NoCall
<1> QED
  BY <1>1, <1>2, <1>3

LEMMA ChangePassword ==
    ASSUME SessionInv, changePassword
    PROVE  SessionTypes' /\ ExchangeTypes' /\ MidSession'
<1>1. SessionTypes'
  BY SessionsAssumption
     DEF changePassword, page, SessionInv, SessionTypes, ExchangeTypes, Token, Issued,
         AllRevoked
<1>2. ExchangeTypes'
  BY SessionsAssumption
     DEF changePassword, page, SessionInv, SessionTypes, ExchangeTypes, Token, Issued,
         AllRevoked
<1>3. MidSession'
  BY SessionsAssumption
     DEF changePassword, page, SessionInv, SessionTypes, ExchangeTypes, MidSession, Token,
         Issued, userVars, AllRevoked
<1> QED
  BY <1>1, <1>2, <1>3

LEMMA Send ==
    ASSUME SessionInv, NEW c \in Calls, send(c)
    PROVE  SessionTypes' /\ ExchangeTypes' /\ MidSession'
<1>1. SessionTypes'
  BY SessionsAssumption
     DEF send, page, SessionInv, SessionTypes, ExchangeTypes, Token, Issued, NoCall
<1>2. ExchangeTypes'
  BY SessionsAssumption
     DEF send, page, SessionInv, SessionTypes, ExchangeTypes, Token, Issued, NoCall
<1>3. MidSession'
  BY SessionsAssumption
     DEF send, page, SessionInv, SessionTypes, ExchangeTypes, MidSession, Token, Issued,
         userVars, NoCall
<1> QED
  BY <1>1, <1>2, <1>3

LEMMA Serve ==
    ASSUME SessionInv, NEW c \in Calls, serve(c)
    PROVE  SessionTypes' /\ ExchangeTypes' /\ MidSession'
<1>1. SessionTypes'
  BY SessionsAssumption
     DEF serve, page, SessionInv, SessionTypes, ExchangeTypes, Token, Issued, NoCall,
         Admitted
<1>2. ExchangeTypes'
  BY SessionsAssumption
     DEF serve, page, SessionInv, SessionTypes, ExchangeTypes, Token, Issued, NoCall,
         Admitted
<1>3. MidSession'
  BY SessionsAssumption
     DEF serve, page, SessionInv, SessionTypes, ExchangeTypes, MidSession, Token, Issued,
         userVars, NoCall, Admitted
<1> QED
  BY <1>1, <1>2, <1>3

LEMMA Unauthorized ==
    ASSUME SessionInv, NEW c \in Calls, unauthorized(c)
    PROVE  SessionTypes' /\ ExchangeTypes' /\ MidSession'
<1>1. SessionTypes'
  BY SessionsAssumption
     DEF unauthorized, page, SessionInv, SessionTypes, ExchangeTypes, Token, Issued,
         NoExchange, NoCall, Admitted
<1>2. ExchangeTypes'
  BY SessionsAssumption
     DEF unauthorized, page, SessionInv, SessionTypes, ExchangeTypes, Token, Issued,
         NoExchange, NoCall, Admitted
<1>3. MidSession'
  BY SessionsAssumption
     DEF unauthorized, page, SessionInv, SessionTypes, ExchangeTypes, MidSession, Token,
         Issued, userVars, NoExchange, NoCall, Admitted
<1> QED
  BY <1>1, <1>2, <1>3

LEMMA UnauthorizedLoggedOut ==
    ASSUME SessionInv, NEW c \in Calls, unauthorizedLoggedOut(c)
    PROVE  SessionTypes' /\ ExchangeTypes' /\ MidSession'
<1>1. SessionTypes'
  BY SessionsAssumption
     DEF unauthorizedLoggedOut, page, SessionInv, SessionTypes, ExchangeTypes, Token,
         Issued, ToLogin, NoCall, Admitted
<1>2. ExchangeTypes'
  BY SessionsAssumption
     DEF unauthorizedLoggedOut, page, SessionInv, SessionTypes, ExchangeTypes, Token,
         Issued, ToLogin, NoCall, Admitted
<1>3. MidSession'
  BY SessionsAssumption
     DEF unauthorizedLoggedOut, page, SessionInv, SessionTypes, ExchangeTypes, MidSession,
         Token, Issued, userVars, ToLogin, NoCall, Admitted
<1> QED
  BY <1>1, <1>2, <1>3

LEMMA RejectCall ==
    ASSUME SessionInv, NEW c \in Calls, rejectCall(c)
    PROVE  SessionTypes' /\ ExchangeTypes' /\ MidSession'
<1>1. SessionTypes'
  BY SessionsAssumption
     DEF rejectCall, page, SessionInv, SessionTypes, ExchangeTypes, Token, Issued, NoCall,
         Admitted
<1>2. ExchangeTypes'
  BY SessionsAssumption
     DEF rejectCall, page, SessionInv, SessionTypes, ExchangeTypes, Token, Issued, NoCall,
         Admitted
<1>3. MidSession'
  BY SessionsAssumption
     DEF rejectCall, page, SessionInv, SessionTypes, ExchangeTypes, MidSession, Token,
         Issued, userVars, NoCall, Admitted
<1> QED
  BY <1>1, <1>2, <1>3

LEMMA LookUp ==
    ASSUME SessionInv, NEW e \in Exchanges, lookUp(e)
    PROVE  SessionTypes' /\ ExchangeTypes' /\ MidSession'
<1>1. SessionTypes'
  <2>1. /\ token' = token \/ token' = AllRevoked
        /\ UNCHANGED <<expired, page, ended>>
    BY DEF lookUp
  <2>2. /\ token' \in [Tokens -> {"unissued", "valid", "lapsed", "revoked", "rotated"}]
        /\ Issued' = Issued
    BY <2>1 DEF AllRevoked, SessionInv, SessionTypes, Issued
  <2> QED
    BY <2>1, <2>2 DEF page, SessionInv, SessionTypes
<1>2. ExchangeTypes'
  <2>1. /\ token' = token \/ token' = AllRevoked
        /\ UNCHANGED <<expired, refreshing>>
    BY DEF lookUp, page
  <2>2. Issued' = Issued
    BY <2>1 DEF AllRevoked, SessionInv, SessionTypes, Issued
  <2>3. exchange[e].at = "sent"
    BY DEF lookUp
  <2>4. CASE exchange' = [exchange EXCEPT ![e].at = "check"]
    BY <2>1, <2>2, <2>3, <2>4 DEF SessionInv, ExchangeTypes
  <2>5. CASE exchange' = [exchange EXCEPT ![e].at = "answer", ![e].answer = NoToken]
    <3>1. NoToken \in Token /\ NoToken \notin Tokens
      BY SessionsAssumption DEF Token
    <3>2. UNCHANGED <<expired, refreshing>>
      BY <2>1
    <3>3. exchange' \in [Exchanges -> [at : {"idle", "sent", "check", "rotate", "issue", "answer"},
                                      token : Token, answer : Token]]
      BY <2>5, <3>1 DEF SessionInv, ExchangeTypes
    <3>4. /\ exchange'[e].at = "answer" /\ exchange'[e].token = exchange[e].token
          /\ exchange'[e].answer = NoToken
          /\ \A f \in Exchanges \ {e} : exchange'[f] = exchange[f]
      BY <2>5 DEF SessionInv, ExchangeTypes
    <3>5. exchange[e].token \in Issued
      BY <2>3 DEF SessionInv, ExchangeTypes
    <3>6. ASSUME NEW f \in Exchanges
          PROVE  /\ exchange'[f].at = "idle" => exchange'[f] = NoExchange
                 /\ exchange'[f].at # "idle" => exchange'[f].token \in Issued
                 /\ exchange'[f].answer \in Tokens => exchange'[f].answer \in Issued \ expired
      <4>1. CASE f = e
        BY <3>1, <3>4, <3>5, <4>1
      <4>2. CASE f # e
        BY <3>4, <4>2 DEF SessionInv, ExchangeTypes
      <4> QED
        BY <4>1, <4>2
    <3>7. \A f \in refreshing : exchange'[f].at # "idle"
      BY <3>4 DEF SessionInv, SessionTypes, ExchangeTypes
    <3> QED
      BY <2>2, <3>2, <3>3, <3>6, <3>7 DEF ExchangeTypes, NoExchange
  <2> QED
    BY <2>4, <2>5 DEF lookUp, Proceed, AnswerWith
<1>3. MidSession'
  <2>1. CASE ended
    BY <2>1 DEF lookUp, MidSession
  <2>2. CASE ~ended
    <3>1. e \in refreshing /\ token[exchange[e].token] = "valid"
      BY <2>2 DEF lookUp, SessionInv, MidSession
    <3>2. /\ exchange' = [exchange EXCEPT ![e].at = "check"]
          /\ UNCHANGED <<userVars, token, expired, page, ended>>
      BY <3>1 DEF lookUp, Proceed
    <3> QED
      BY <3>1, <3>2 DEF page, SessionInv, ExchangeTypes, MidSession, userVars
  <2> QED
    BY <2>1, <2>2
<1> QED
  BY <1>1, <1>2, <1>3

LEMMA CheckUser ==
    ASSUME SessionInv, NEW e \in Exchanges, checkUser(e)
    PROVE  SessionTypes' /\ ExchangeTypes' /\ MidSession'
<1>1. SessionTypes'
  BY SessionsAssumption
     DEF checkUser, page, SessionInv, SessionTypes, ExchangeTypes, Token, Issued, Proceed,
         AnswerWith
<1>2. ExchangeTypes'
  BY SessionsAssumption
     DEF checkUser, page, SessionInv, SessionTypes, ExchangeTypes, Token, Issued, Proceed,
         AnswerWith
<1>3. MidSession'
  BY SessionsAssumption
     DEF checkUser, page, SessionInv, SessionTypes, ExchangeTypes, MidSession, Token,
         Issued, userVars, Proceed, AnswerWith
<1> QED
  BY <1>1, <1>2, <1>3

LEMMA Rotate ==
    ASSUME SessionInv, NEW e \in Exchanges, rotate(e)
    PROVE  SessionTypes' /\ ExchangeTypes' /\ MidSession'
<1>1. SessionTypes'
  BY SessionsAssumption
     DEF rotate, page, SessionInv, SessionTypes, ExchangeTypes, Token, Issued, Proceed
<1>2. ExchangeTypes'
  BY SessionsAssumption
     DEF rotate, page, SessionInv, SessionTypes, ExchangeTypes, Token, Issued, Proceed
<1>3. MidSession'
  BY SessionsAssumption
     DEF rotate, page, SessionInv, SessionTypes, ExchangeTypes, MidSession, Token, Issued,
         userVars, Proceed
<1> QED
  BY <1>1, <1>2, <1>3

LEMMA IssueTokens ==
    ASSUME SessionInv, NEW e \in Exchanges, issueTokens(e)
    PROVE  SessionTypes' /\ ExchangeTypes' /\ MidSession'
<1>1. SessionTypes'
  BY SessionsAssumption, NewTokenIsNew
     DEF issueTokens, page, SessionInv, SessionTypes, ExchangeTypes, Token, Issued,
         AnswerWith
<1>2. ExchangeTypes'
  BY SessionsAssumption, NewTokenIsNew
     DEF issueTokens, page, SessionInv, SessionTypes, ExchangeTypes, Token, Issued,
         AnswerWith
<1>3. MidSession'
  BY SessionsAssumption, NewTokenIsNew
     DEF issueTokens, page, SessionInv, SessionTypes, ExchangeTypes, MidSession, Token,
         Issued, userVars, AnswerWith
<1> QED
  BY <1>1, <1>2, <1>3

LEMMA AnswerStep ==
    ASSUME SessionInv, NEW e \in Exchanges, answer(e)
    PROVE  SessionTypes' /\ ExchangeTypes' /\ MidSession'
<1>1. SessionTypes'
  <2>1. CASE e \notin refreshing
    BY <2>1 DEF answer, page, SessionInv, SessionTypes, ExchangeTypes, Token, Issued
  <2>2. CASE e \in refreshing /\ exchange[e].answer = NoToken
    <3>1. ToLogin /\ UNCHANGED <<token, expired, ended>>
      BY <2>2 DEF answer
    <3>2. call' \in [Calls -> [at : {"idle", "sent", "waiting", "resent"}, token : Token]]
      BY <3>1 DEF ToLogin, NoCall, Token
    <3>3. \A c \in Calls : call'[c].at # "waiting"
      BY <3>1 DEF ToLogin, NoCall
    <3>4. Issued' = Issued
      BY <3>1 DEF Issued
    <3> QED
      BY <3>1, <3>2, <3>3, <3>4 DEF ToLogin, SessionInv, SessionTypes
  <2>3. CASE e \in refreshing /\ exchange[e].answer # NoToken
    <3>1. exchange[e].answer \in Issued
      BY <2>3 DEF SessionInv, SessionTypes, ExchangeTypes, Token, Issued
    <3>2. /\ store' = exchange[e].answer /\ refreshing' = {}
          /\ call' = [c \in Calls |-> IF call[c].at = "waiting"
                         THEN [at |-> "resent", token |-> exchange[e].answer] ELSE call[c]]
          /\ UNCHANGED <<token, expired, signedIn, leaving, ended>>
      BY <2>3 DEF answer
    <3> QED
      BY <3>1, <3>2 DEF SessionInv, SessionTypes, ExchangeTypes, Token, Issued
  <2> QED
    BY <2>1, <2>2, <2>3
<1>2. ExchangeTypes'
  BY SessionsAssumption
     DEF answer, page, SessionInv, SessionTypes, ExchangeTypes, Token, Issued, ToLogin,
         NoCall, NoExchange
<1>3. MidSession'
  BY SessionsAssumption
     DEF answer, page, SessionInv, SessionTypes, ExchangeTypes, MidSession, Token, Issued,
         userVars, ToLogin, NoCall, NoExchange
<1> QED
  BY <1>1, <1>2, <1>3

LEMMA LoseAnswer ==
    ASSUME SessionInv, NEW e \in Exchanges, loseAnswer(e)
    PROVE  SessionTypes' /\ ExchangeTypes' /\ MidSession'
<1>1. SessionTypes'
  BY SessionsAssumption
     DEF loseAnswer, page, SessionInv, SessionTypes, ExchangeTypes, Token, Issued, ToLogin,
         NoCall
<1>2. ExchangeTypes'
  BY SessionsAssumption
     DEF loseAnswer, page, SessionInv, SessionTypes, ExchangeTypes, Token, Issued, ToLogin,
         NoCall
<1>3. MidSession'
  BY SessionsAssumption
     DEF loseAnswer, page, SessionInv, SessionTypes, ExchangeTypes, MidSession, Token,
         Issued, userVars, ToLogin, NoCall
<1> QED
  BY <1>1, <1>2, <1>3

LEMMA Expire ==
    ASSUME SessionInv, NEW t \in Tokens, expire(t)
    PROVE  SessionTypes' /\ ExchangeTypes' /\ MidSession'
<1>1. SessionTypes'
  BY SessionsAssumption
     DEF expire, page, SessionInv, SessionTypes, ExchangeTypes, Token, Issued
<1>2. ExchangeTypes'
  BY SessionsAssumption
     DEF expire, page, SessionInv, SessionTypes, ExchangeTypes, Token, Issued
<1>3. MidSession'
  BY SessionsAssumption
     DEF expire, page, SessionInv, SessionTypes, ExchangeTypes, MidSession, Token, Issued,
         userVars
<1> QED
  BY <1>1, <1>2, <1>3

LEMMA Lapse ==
    ASSUME SessionInv, NEW t \in Tokens, lapse(t)
    PROVE  SessionTypes' /\ ExchangeTypes' /\ MidSession'
<1>1. SessionTypes'
  BY SessionsAssumption
     DEF lapse, page, SessionInv, SessionTypes, ExchangeTypes, Token, Issued
<1>2. ExchangeTypes'
  BY SessionsAssumption
     DEF lapse, page, SessionInv, SessionTypes, ExchangeTypes, Token, Issued
<1>3. MidSession'
  BY SessionsAssumption
     DEF lapse, page, SessionInv, SessionTypes, ExchangeTypes, MidSession, Token, Issued,
         userVars
<1> QED
  BY <1>1, <1>2, <1>3

-----------------------------------------------------------------------------
(* The users under the session.                                            *)

LEMMA UsersStep ==
    ASSUME UsersTyped, Held, UserNext \/ UNCHANGED userVars
    PROVE  UsersTyped' /\ Held'
<1>1. CASE UNCHANGED userVars
  BY <1>1 DEF userVars, UsersTyped, Held
<1>2. ASSUME NEW r \in Requests, NEW u \in Users, NEW kind \in Kinds, beginUpdate(r, u, kind)
      PROVE  UsersTyped' /\ Held'
  BY <1>2 DEF beginUpdate, UsersTyped, Held, UserRequest, NoRequest
<1>3. ASSUME NEW r \in Requests, Finish(r), UNCHANGED user
      PROVE  UsersTyped' /\ Held'
  BY <1>3 DEF Finish, UsersTyped, Held
<1>4. ASSUME NEW r \in Requests, readTarget(r) PROVE UsersTyped' /\ Held'
  BY <1>4 DEF readTarget, Goto, UsersTyped, Held, UserRequest, NoRequest
<1>5. ASSUME NEW r \in Requests, lockAdmins(r) PROVE UsersTyped' /\ Held'
  BY <1>5 DEF lockAdmins, Goto, ActiveAdmins, UsersTyped, Held, UserRequest, NoRequest
<1>6. ASSUME NEW r \in Requests, countAdmins(r) PROVE UsersTyped' /\ Held'
  <2>1. CASE Cardinality(ActiveAdmins) <= 1
    BY <1>3, <1>6, <2>1 DEF countAdmins
  <2>2. CASE ~(Cardinality(ActiveAdmins) <= 1)
    BY <1>6, <2>2 DEF countAdmins, Goto, UsersTyped, Held, UserRequest, NoRequest
  <2> QED
    BY <2>1, <2>2
<1>7. ASSUME NEW r \in Requests, writeUser(r) PROVE UsersTyped' /\ Held'
  <2>1. admin[r] \in UserRequest /\ user[admin[r].id] \in UserRow
    BY <1>7 DEF writeUser, UsersTyped, UserRequest, NoRequest
  <2>2. Changed(user[admin[r].id], admin[r].kind) \in UserRow
    BY <2>1 DEF Changed, UserRow
  <2> QED
    BY <1>7, <2>1, <2>2 DEF writeUser, UsersTyped, Held, UserRequest, NoRequest
<1>8. ASSUME NEW r \in Requests, abortUpdate(r) PROVE UsersTyped' /\ Held'
  BY <1>3, <1>8 DEF abortUpdate
<1> QED
  BY <1>1, <1>2, <1>3, <1>4, <1>5, <1>6, <1>7, <1>8 DEF UserNext, UserStep

LEMMA ManageUsers ==
    ASSUME SessionInv, NEW r \in Requests, manageUsers(r)
    PROVE  SessionTypes' /\ ExchangeTypes' /\ MidSession'
<1>1. UNCHANGED <<token, expired, page, exchange>> /\ ended' = (ended \/ ~user'[Me].active)
  BY DEF manageUsers
<1>2. user'[Me].active \in BOOLEAN
  <2>1. UserNext
    BY DEF manageUsers, UserNext
  <2>2. UsersTyped'
    BY <2>1, UsersStep DEF SessionInv
  <2> QED
    BY <2>2, SessionsAssumption DEF UsersTyped, UserRow
<1>3. SessionTypes'
  BY <1>1, <1>2 DEF SessionInv, SessionTypes, page, Issued
<1>4. ExchangeTypes'
  BY <1>1 DEF SessionInv, ExchangeTypes, page, Issued
<1>5. MidSession'
  BY <1>1, <1>2 DEF SessionInv, MidSession, page
<1> QED
  BY <1>3, <1>4, <1>5

LEMMA RevokeSessions ==
    ASSUME SessionInv, NEW r \in Requests, revokeSessions(r)
    PROVE  SessionTypes' /\ ExchangeTypes' /\ MidSession'
<1>1. SessionTypes'
  BY DEF revokeSessions, page, AllRevoked, SessionInv, SessionTypes, Issued
<1>2. ExchangeTypes'
  BY DEF revokeSessions, page, AllRevoked, SessionInv, SessionTypes, ExchangeTypes, Issued
<1>3. MidSession'
  BY DEF revokeSessions, page, AllRevoked, SessionInv, SessionTypes, MidSession
<1> QED
  BY <1>1, <1>2, <1>3

LEMMA SessionInit == SessionsInit => SessionInv
<1> SUFFICES ASSUME SessionsInit PROVE SessionInv
  OBVIOUS
<1>1. UsersTyped /\ Held
  BY DEF SessionsInit, UsersInit, UsersTyped, UsersAtFirst, UserRow, Held
<1>2. SessionTypes /\ ExchangeTypes
  BY SessionsAssumption
     DEF SessionsInit, SessionTypes, ExchangeTypes, Token, Issued, NoCall, NoExchange
<1>3. MidSession
  BY DEF SessionsInit, MidSession, NoCall, NoExchange
<1> QED
  BY <1>1, <1>2, <1>3 DEF SessionInv

LEMMA SessionStep ==
    ASSUME SessionInv, [SessionsNext]_sessionVars
    PROVE  SessionInv'
<1>1. CASE UNCHANGED sessionVars
  BY <1>1 DEF sessionVars, userVars, page, SessionInv, UsersTyped, Held, SessionTypes,
              ExchangeTypes, MidSession, Issued
<1>2. CASE SessionsNext
  <2>1. UsersTyped' /\ Held'
    BY <1>2, SessionsStepUsers, UsersStep DEF SessionInv
  <2>2. SessionTypes' /\ ExchangeTypes' /\ MidSession'
    BY <1>2, Login, Logout, LoggedOut, Reload, ChangePassword, Send, Serve, Unauthorized,
       UnauthorizedLoggedOut, RejectCall, LookUp, CheckUser, Rotate, IssueTokens, AnswerStep,
       LoseAnswer, Expire, Lapse, ManageUsers, RevokeSessions
       DEF SessionsNext
  <2> QED
    BY <2>1, <2>2 DEF SessionInv
<1> QED
  BY <1>1, <1>2

THEOREM SessionInvariant == SessionsSpec => []SessionInv
BY SessionInit, SessionStep, PTL DEF SessionsSpec

\* The page, its calls, the exchanges and the locks fit together in every behaviour.
THEOREM SessionsTyped == SessionsSpec => []SessionsTypeOK
<1>1. SessionInv => SessionsTypeOK
  <2> SUFFICES ASSUME SessionInv PROVE SessionsTypeOK
    OBVIOUS
  <2>1. Cardinality(refreshing) <= 1
    <3>1. CASE refreshing = {}
      BY <3>1, FS_EmptySet
    <3>2. CASE refreshing # {}
      <4>1. PICK e \in refreshing : refreshing = {e}
        BY <3>2 DEF SessionInv, SessionTypes
      <4>2. Cardinality(refreshing) = 1
        BY <4>1, FS_Singleton
      <4> QED
        BY <4>2
    <3> QED
      BY <3>1, <3>2
  <2> QED
    BY <2>1
       DEF SessionInv, SessionTypes, ExchangeTypes, Held, Issued, NoExchange, SessionsTypeOK
<1> QED
  BY <1>1, SessionInvariant, PTL

\* Reuse detection never trips over the page's own refreshes (AuthService.refresh,
\* api.ts performRefresh).
THEOREM RotatedTokensStayHome == SessionsSpec => []RotatedTokenIsNotPresented
<1>1. SessionInv => RotatedTokenIsNotPresented
  BY DEF SessionInv, MidSession, RotatedTokenIsNotPresented
<1> QED
  BY <1>1, SessionInvariant, PTL

\* Nobody is signed out in mid-session, and no repeated call is turned down.
THEOREM NobodySignedOutMidSession == SessionsSpec => NotSignedOutMidSession
<1>1. ASSUME SessionInv, [SessionsNext]_sessionVars
      PROVE  [(signedIn /\ ~signedIn') \/ (\E c \in Calls : rejectCall(c)) => ended']_sessionVars
  <2>1. ASSUME ~ended' PROVE ~\E c \in Calls : rejectCall(c)
    BY <1>1, <2>1 DEF SessionInv, MidSession, SessionTypes, Admitted, rejectCall
  <2>2. ASSUME ~ended', SessionsNext, signedIn PROVE signedIn'
    <3>1. SessionInv
      BY <1>1
    <3>2. CASE login \/ logout \/ loggedOut \/ reload \/ changePassword
      BY <2>2, <3>1, <3>2
         DEF login, logout, loggedOut, reload, changePassword, SessionInv, MidSession
    <3>3. ASSUME NEW c \in Calls,
                 \/ send(c) \/ serve(c) \/ unauthorized(c) \/ unauthorizedLoggedOut(c)
                 \/ rejectCall(c)
          PROVE  signedIn'
      BY <2>2, <3>1, <3>3, SessionsAssumption
         DEF send, serve, unauthorized, unauthorizedLoggedOut, rejectCall, SessionInv, MidSession
    <3>4. ASSUME NEW e \in Exchanges,
                 \/ lookUp(e) \/ checkUser(e) \/ rotate(e) \/ issueTokens(e) \/ answer(e)
                 \/ loseAnswer(e)
          PROVE  signedIn'
      BY <2>2, <3>1, <3>4, SessionsAssumption
         DEF lookUp, checkUser, rotate, issueTokens, answer, loseAnswer, page, SessionInv, MidSession
    <3>5. ASSUME NEW t \in Tokens, expire(t) \/ lapse(t) PROVE signedIn'
      BY <2>2, <3>5 DEF expire, lapse, page
    <3>6. ASSUME NEW r \in Requests, manageUsers(r) \/ revokeSessions(r) PROVE signedIn'
      BY <2>2, <3>6 DEF manageUsers, revokeSessions, page
    <3> QED
      BY <2>2, <3>2, <3>3, <3>4, <3>5, <3>6 DEF SessionsNext
  <2> QED
    BY <1>1, <2>1, <2>2
<1> QED
  BY <1>1, SessionInvariant, PTL DEF SessionsSpec, NotSignedOutMidSession
=============================================================================
