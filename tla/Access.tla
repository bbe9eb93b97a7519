------------------------------- MODULE Access -------------------------------
(***************************************************************************)
(* Users, roles and the permission cache in Redis.                         *)
(*                                                                         *)
(* Every request loads its user from the database and its permissions from *)
(* the cache; on a miss they are read from the database and written to the *)
(* cache, in two steps between which the roles may change.  A change of    *)
(* rights commits first and clears the caches afterwards, one user at a    *)
(* time, so a request is followed step by step: at most one per user.      *)
(***************************************************************************)
EXTENDS Permissions, Naturals

CONSTANTS
    User,       \* e-mail addresses: the one of a deleted user stays taken
    Admin,      \* the user of SEED_ADMIN_EMAIL
    Role,       \* role names, those of system roles among them
    Code,       \* the permission codes that are told apart
    Matrix,     \* the sets of codes that set_role_permissions is given
    MaxEdits    \* bound: how many changes of users, roles and rights are committed

Seeded == Role \cap DOMAIN SystemRole    \* the system roles of this instance

ASSUME AccessAssumption ==
    /\ Admin \in User
    /\ "Super Admin" \in Role
    /\ Code \subseteq AllCodes
    /\ Matrix \subseteq SUBSET Code
    /\ MaxEdits \in Nat

VARIABLES
    user,       \* what became of each user
    held,       \* user_role: the roles of each user
    role,       \* what kind of role there is under each name
    grants,     \* role_permission: the codes of each role
    cache,      \* perm:<user> in Redis: the set of the codes kept there, or the empty set
    request,    \* the request that each user is making
    late,       \* history: users whose entry nobody is going to clear although it may be wrong
    edits       \* bound: commits so far

accessVars == <<user, held, role, grants, cache, request, late, edits>>

Idle == [at |-> "idle", op |-> "me", codes |-> {}, role |-> "Super Admin", owed |-> {}]

Op == {"me", "create_role", "set_role_permissions", "delete_role",
       "create_user", "update_user", "set_user_roles", "delete_user"}

Request == [at : {"idle", "read", "admitted", "affected", "committed", "clearing"},
            op : Op, codes : SUBSET Code, role : Role, owed : SUBSET User]

\* Every variable keeps its type, and a name that stands for no role is held by nobody and grants
\* nothing (the cascades of role_permission and user_role).
AccessTypeOK ==
    /\ user \in [User -> {"none", "active", "inactive", "deleted"}]
    /\ held \in [User -> SUBSET Role]
    /\ role \in [Role -> {"none", "custom", "system"}]
    /\ grants \in [Role -> SUBSET Code]
    /\ cache \in [User -> SUBSET SUBSET Code]
    /\ \A u \in User : Cardinality(cache[u]) <= 1
    /\ request \in [User -> Request]
    /\ late \in SUBSET User
    /\ edits \in 0 .. MaxEdits
    /\ \A r \in Role : role[r] = "none" => grants[r] = {} /\ \A u \in User : r \notin held[u]

\* The codes of a user's roles, whatever became of the user.
Rights(u) == UNION {grants[r] : r \in held[u]}

Holders(r) == {u \in User : r \in held[u]}

-----------------------------------------------------------------------------
(* Requests.                                                               *)

\* require_permission with the codes it found: the handler runs, or the request is refused.
Decided(op, codes) ==
    IF op = "me" \/ NeededFor(op) \notin codes THEN Idle ELSE [Idle EXCEPT !.op = op, !.at = "admitted"]

Admit(u, op) ==
    /\ request[u].at = "idle"
    /\ user[u] = "active"
    /\ \E codes \in cache[u] : request' = [request EXCEPT ![u] = Decided(op, codes)]
    /\ UNCHANGED <<user, held, role, grants, cache, late, edits>>

\* No entry.  Which endpoint it is does not matter before the entry is filled.
Miss(u) ==
    /\ request[u].at = "idle"
    /\ user[u] = "active"
    /\ cache[u] = {}
    /\ request' = [request EXCEPT ![u] = [Idle EXCEPT !.at = "read", !.codes = Rights(u)]]
    /\ UNCHANGED <<user, held, role, grants, cache, late, edits>>

Fill(u, op) ==
    /\ request[u].at = "read"
    /\ cache' = [cache EXCEPT ![u] = {request[u].codes}]
    /\ request' = [request EXCEPT ![u] = Decided(op, request[u].codes)]
    /\ late' = IF request[u].codes = Rights(u) THEN late \ {u} ELSE late \cup {u}
    /\ UNCHANGED <<user, held, role, grants, edits>>

EntryKept(u) == cache[u] # {} /\ UNCHANGED accessVars

\* The entry outlives permission_cache_ttl.
EntryExpires(u) ==
    /\ cache[u] # {}
    /\ cache' = [cache EXCEPT ![u] = {}]
    /\ late' = late \ {u}
    /\ UNCHANGED <<user, held, role, grants, request, edits>>

-----------------------------------------------------------------------------
(* The handlers of the rbac endpoints, each up to its commit.              *)

Handling(a, op) ==
    /\ request[a].at = "admitted"
    /\ request[a].op = op
    /\ edits < MaxEdits
    /\ edits' = edits + 1

\* What is left of a request once its handler has committed.
Clearing(users) == IF users = {} THEN Idle ELSE [Idle EXCEPT !.at = "clearing", !.owed = users]

Then(a, rest) == request' = [request EXCEPT ![a] = rest]

CreateRole(a, r) ==
    /\ Handling(a, "create_role")
    /\ role[r] = "none"
    /\ role' = [role EXCEPT ![r] = "custom"]
    /\ Then(a, Idle)
    /\ UNCHANGED <<user, held, grants, cache, late>>

\* The holders are looked up only after the commit.
SetRolePermissions(a, r, codes) ==
    /\ Handling(a, "set_role_permissions")
    /\ role[r] # "none"
    /\ grants' = [grants EXCEPT ![r] = codes]
    /\ Then(a, [Idle EXCEPT !.at = "committed", !.role = r])
    /\ UNCHANGED <<user, held, role, cache, late>>

FindHolders(a) ==
    /\ request[a].at = "committed"
    /\ Then(a, Clearing(Holders(request[a].role)))
    /\ UNCHANGED <<user, held, role, grants, cache, late, edits>>

\* Here they are looked up before it: a user who is given the role in between is not among them.
FindAffected(a, r) ==
    /\ request[a].at = "admitted"
    /\ request[a].op = "delete_role"
    /\ role[r] = "custom"
    /\ Then(a, [request[a] EXCEPT !.at = "affected", !.role = r, !.owed = Holders(r)])
    /\ UNCHANGED <<user, held, role, grants, cache, late, edits>>

DeleteRoleUncascaded(a) ==
    LET r == request[a].role IN
    /\ request[a].at = "affected"
    /\ edits < MaxEdits
    /\ edits' = edits + 1
    /\ role' = [role EXCEPT ![r] = "none"]
    /\ Then(a, Clearing(request[a].owed))
    /\ UNCHANGED <<user, held, grants, cache, late>>

DeleteRole(a) ==
    LET r == request[a].role IN
    /\ request[a].at = "affected"
    /\ edits < MaxEdits
    /\ edits' = edits + 1
    /\ IF role[r] = "none"    \* deleted by another request in between
         THEN Then(a, Idle) /\ UNCHANGED <<held, role, grants, late>>
         ELSE /\ role' = [role EXCEPT ![r] = "none"]
              /\ grants' = [grants EXCEPT ![r] = {}]
              /\ held' = [u \in User |-> held[u] \ {r}]
              /\ late' = late \cup (Holders(r) \ request[a].owed)
              /\ Then(a, Clearing(request[a].owed))
    /\ UNCHANGED <<user, cache>>

CreateUser(a, u, roles) ==
    /\ Handling(a, "create_user")
    /\ user[u] = "none"
    /\ user' = [user EXCEPT ![u] = "active"]
    /\ held' = [held EXCEPT ![u] = roles]
    /\ Then(a, Idle)
    /\ UNCHANGED <<role, grants, cache, late>>

\* Clears no cache: get_current_user looks at is_active on every request.
UpdateUser(a, u, state) ==
    /\ Handling(a, "update_user")
    /\ user[u] \in {"active", "inactive"}
    /\ user' = [user EXCEPT ![u] = state]
    /\ Then(a, Idle)
    /\ UNCHANGED <<held, role, grants, cache, late>>

SetUserRolesUncleared(a, u, roles) ==
    /\ Handling(a, "set_user_roles")
    /\ user[u] \in {"active", "inactive"}
    /\ held' = [held EXCEPT ![u] = roles]
    /\ Then(a, Idle)
    /\ UNCHANGED <<user, role, grants, cache, late>>

SetUserRoles(a, u, roles) ==
    /\ Handling(a, "set_user_roles")
    /\ user[u] \in {"active", "inactive"}
    /\ held' = [held EXCEPT ![u] = roles]
    /\ Then(a, Clearing({u}))
    /\ UNCHANGED <<user, role, grants, cache, late>>

DeleteUser(a, u) ==
    /\ Handling(a, "delete_user")
    /\ user[u] \in {"active", "inactive"}
    /\ user' = [user EXCEPT ![u] = "deleted"]
    /\ Then(a, Clearing({u}))
    /\ UNCHANGED <<held, role, grants, cache, late>>

\* One turn of _invalidate_users.
Clear(a, u) ==
    /\ request[a].at = "clearing"
    /\ u \in request[a].owed
    /\ cache' = [cache EXCEPT ![u] = {}]
    /\ late' = late \ {u}
    /\ Then(a, Clearing(request[a].owed \ {u}))
    /\ UNCHANGED <<user, held, role, grants, edits>>

\* Not found, refused by the handler, or cut off together with the caches it still had to clear.
Abandon(a) ==
    /\ request[a].at # "idle"
    /\ Then(a, Idle)
    /\ late' = late \cup CASE request[a].at = "clearing" -> request[a].owed
                           [] request[a].at = "committed" -> Holders(request[a].role)
                           [] OTHER -> {}
    /\ UNCHANGED <<user, held, role, grants, cache, edits>>

-----------------------------------------------------------------------------
(* python -m app.seed runs before the server at every start; it adds what  *)
(* is missing, commits once and leaves the caches as they are.             *)

SeededRole == [r \in Role |-> IF r \in Seeded /\ role[r] = "none" THEN "system" ELSE role[r]]

SeededGrantsOfNew == [r \in Role |-> IF r \in Seeded /\ role[r] = "none" THEN SystemRole[r] \cap Code ELSE grants[r]]

SeededGrants == [r \in Role |-> IF r \in Seeded THEN grants[r] \cup (SystemRole[r] \cap Code) ELSE grants[r]]

SeededHeld == [held EXCEPT ![Admin] = @ \cup {"Super Admin"}]

Seed ==
    /\ edits < MaxEdits
    /\ edits' = edits + 1
    /\ role' = SeededRole
    /\ grants' = SeededGrants
    /\ held' = SeededHeld
    /\ user' = [user EXCEPT ![Admin] = IF @ = "none" THEN "active" ELSE @]
    /\ late' = late \cup {u \in User : Rights(u)' # Rights(u)}
    /\ UNCHANGED <<cache, request>>

-----------------------------------------------------------------------------

\* The state after the first seed.
AccessInit ==
    /\ user = [u \in User |-> IF u = Admin THEN "active" ELSE "none"]
    /\ held = [u \in User |-> IF u = Admin THEN {"Super Admin"} ELSE {}]
    /\ role = [r \in Role |-> IF r \in Seeded THEN "system" ELSE "none"]
    /\ grants = [r \in Role |-> IF r \in Seeded THEN SystemRole[r] \cap Code ELSE {}]
    /\ cache = [u \in User |-> {}]
    /\ request = [u \in User |-> Idle]
    /\ late = {}
    /\ edits = 0

Existing == {r \in Role : role[r] # "none"}

RoleStep(a) ==
    \/ \E r \in Role : CreateRole(a, r) \/ FindAffected(a, r)
    \/ \E r \in Role, codes \in Matrix : SetRolePermissions(a, r, codes)
    \/ FindHolders(a)
    \/ DeleteRole(a)

UserStep(a) ==
    \E u \in User :
        \/ \E roles \in SUBSET Existing : CreateUser(a, u, roles) \/ SetUserRoles(a, u, roles)
        \/ \E state \in {"active", "inactive"} : UpdateUser(a, u, state)
        \/ DeleteUser(a, u)
        \/ Clear(a, u)

RequestStep(a) ==
    \/ \E op \in Op : Admit(a, op) \/ Fill(a, op)
    \/ Miss(a)
    \/ EntryExpires(a)
    \/ Abandon(a)

AccessNext ==
    \/ Seed
    \/ \E a \in User : RoleStep(a) \/ UserStep(a) \/ RequestStep(a)

\* A request that waits for Redis or the database goes on, and Redis drops an entry in time.
AccessFairness ==
    \A a \in User :
        /\ WF_accessVars(\E op \in Op : Fill(a, op))
        /\ WF_accessVars(FindHolders(a))
        /\ WF_accessVars(\E u \in User : Clear(a, u))
        /\ WF_accessVars(EntryExpires(a))

-----------------------------------------------------------------------------

\* A request that is still running is going to clear the entry of u.
Owed(u) ==
    \E a \in User :
        \/ request[a].at = "clearing" /\ u \in request[a].owed
        \/ request[a].at = "committed" /\ u \in Holders(request[a].role)

\* A cached set of codes that is not the user's own is about to be cleared by a request that is
\* still running, or is one of the known exceptions: the fill was overtaken by a commit, the
\* clearing was cut off, the seed ran, or the role was deleted just after the user was given it.
\* In every other case the handlers of rbac_service clear every user whose rights they change.
StaleIsExplained ==
    \A u \in User : ~(cache[u] \subseteq {Rights(u)}) => u \in late \/ Owed(u)

\* Whatever was overtaken or cut off, the permission cache ends up agreeing with the roles once
\* nobody changes them any more: no entry outlives permission_cache_ttl.
CacheConverges == <>[](\A u \in User : cache[u] \subseteq {Rights(u)})

\* After a start of the server the administrator of the settings can use every endpoint of every
\* router, whatever was done to roles and users before, unless the account itself was deleted or
\* deactivated.
SeedRestoresAdmin ==
    [][Seed /\ user'[Admin] = "active" => \A e \in Endpoint : e[2] \in Code => e[2] \in Rights(Admin)']_accessVars

AccessSpec == AccessInit /\ [][AccessNext]_accessVars /\ AccessFairness
=============================================================================
