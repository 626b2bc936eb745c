--------------------------- MODULE Administrators ---------------------------
(***************************************************************************)
(* User accounts as UsersService changes them: roles, deactivation and     *)
(* password resets by administrators, several requests at once, statement  *)
(* by statement.  A request that takes an administrator's powers locks the *)
(* rows of the active administrators and counts them before it writes.     *)
(***************************************************************************)
EXTENDS Integers, FiniteSets

CONSTANTS
    Users,
    Admins,         \* the administrators there are at first
    Requests,       \* bound: requests under way at once
    GrantsOverlap   \* requests that grant powers may overlap with others

ASSUME UsersAssumption ==
    /\ Admins \subseteq Users /\ Admins # {}
    /\ IsFiniteSet(Users)
    /\ GrantsOverlap \in BOOLEAN

VARIABLES
    user,   \* User rows
    held,   \* row locks of each request
    admin   \* requests under way

userVars == <<user, held, admin>>

Losing == {"demote", "deactivate"}
Granting == {"promote", "activate"}
Kinds == Losing \cup Granting \cup {"resetPassword"}
NoRequest == [at |-> "idle"]

ActiveAdmins == {u \in Users : user[u].role = "ADMIN" /\ user[u].active}

UsersAtFirst ==
    [u \in Users |-> [role |-> IF u \in Admins THEN "ADMIN" ELSE "OPERATOR", active |-> TRUE]]

UsersInit ==
    /\ user = UsersAtFirst
    /\ held = [r \in Requests |-> {}]
    /\ admin = [r \in Requests |-> NoRequest]

Busy(kinds) == \E r \in Requests : admin[r] # NoRequest /\ admin[r].kind \in kinds

\* PATCH /users/:id and the like; what is asked for, and of whom.
beginUpdate(r, u, kind) ==
    /\ admin[r] = NoRequest
    /\ GrantsOverlap \/ ~Busy(Granting)
    /\ GrantsOverlap \/ kind \notin Granting \/ ~Busy(Losing)
    /\ admin' = [admin EXCEPT ![r] = [at |-> "target", id |-> u, kind |-> kind]]
    /\ UNCHANGED <<user, held>>

Goto(r, at) == admin' = [admin EXCEPT ![r].at = at]

Finish(r) ==
    /\ admin' = [admin EXCEPT ![r] = NoRequest]
    /\ held' = [held EXCEPT ![r] = {}]

\* assertNotRemovingLastAdmin: nothing to check unless an active administrator is to
\* lose his powers.
readTarget(r) ==
    /\ admin[r].at = "target"
    /\ Goto(r, IF admin[r].id \in ActiveAdmins /\ admin[r].kind \in Losing THEN "lock" ELSE "write")
    /\ UNCHANGED <<user, held>>

\* Wrong on purpose: the rows are read without FOR UPDATE.
lockNothing(r) ==
    /\ admin[r].at = "lock"
    /\ Goto(r, "count")
    /\ UNCHANGED <<user, held>>

\* SELECT ... FOR UPDATE of the active administrators: waits for those another holds.
lockAdmins(r) ==
    /\ admin[r].at = "lock"
    /\ \A q \in Requests \ {r} : held[q] \cap ActiveAdmins = {}
    /\ held' = [held EXCEPT ![r] = ActiveAdmins]
    /\ Goto(r, "count")
    /\ UNCHANGED user

countAdmins(r) ==
    /\ admin[r].at = "count"
    /\ IF Cardinality(ActiveAdmins) <= 1 THEN Finish(r) ELSE Goto(r, "write") /\ UNCHANGED held
    /\ UNCHANGED user

Changed(row, kind) ==
    CASE kind = "demote" -> [row EXCEPT !.role = "OPERATOR"]
      [] kind = "promote" -> [row EXCEPT !.role = "ADMIN"]
      [] kind = "deactivate" -> [row EXCEPT !.active = FALSE]
      [] kind = "activate" -> [row EXCEPT !.active = TRUE]
      [] OTHER -> row

\* The update waits for the lock of the row; the transaction commits with it.  After a
\* password reset the sessions are still to be revoked.
writeUser(r) ==
    /\ admin[r].at = "write"
    /\ \A q \in Requests \ {r} : admin[r].id \notin held[q]
    /\ user' = [user EXCEPT ![admin[r].id] = Changed(@, admin[r].kind)]
    /\ held' = [held EXCEPT ![r] = {}]
    /\ admin' = [admin EXCEPT ![r] = IF @.kind = "resetPassword" THEN [@ EXCEPT !.at = "revoke"]
                                     ELSE NoRequest]

\* The request dies; its transaction is undone.
abortUpdate(r) ==
    /\ admin[r] # NoRequest
    /\ Finish(r)
    /\ UNCHANGED user

UserStep(r) == readTarget(r) \/ lockAdmins(r) \/ countAdmins(r) \/ writeUser(r) \/ abortUpdate(r)

-----------------------------------------------------------------------------
\* An administrator remains, so that somebody can manage users: requests that demote or
\* deactivate administrators, even each other and at the same time, never remove the
\* last one (assertNotRemovingLastAdmin).
AnAdminRemains == ActiveAdmins # {}
=============================================================================
