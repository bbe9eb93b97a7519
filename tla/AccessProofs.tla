---------------------------- MODULE AccessProofs ----------------------------
(***************************************************************************)
(* A wrong entry of the permission cache is always somebody's business,    *)
(* for any number of users, roles and changes: a request that is running   *)
(* is going to clear it, or it is one of the cases that late collects.     *)
(***************************************************************************)
EXTENDS Access, FiniteSetTheorems, TLAPS

RequestField == {"at", "op", "codes", "role", "owed"}

Shaped ==
    /\ DOMAIN user = User /\ DOMAIN cache = User /\ DOMAIN request = User
    /\ held \in [User -> SUBSET Role]
    /\ DOMAIN grants = Role
    /\ \A a \in User : DOMAIN request[a] = RequestField

\* A user who does not exist yet has made no request, so that there is nothing to clear when roles are given.
Newcomers == \A u \in User : user[u] = "none" => cache[u] = {} /\ request[u].at = "idle" /\ u # Admin

IInv == Shaped /\ Newcomers /\ StaleIsExplained

Right(u) == cache[u] \subseteq {Rights(u)}

Known(u) == u \in late \/ Owed(u)

\* A step after which nothing is worse for u.
Settled(u) == cache'[u] = cache[u] /\ Rights(u)' = Rights(u) /\ (Known(u) => Known(u)')

LEMMA InitIInv == AccessInit => IInv
<1> SUFFICES ASSUME AccessInit PROVE IInv
    OBVIOUS
<1>1. Shaped
    BY AccessAssumption DEF AccessInit, Shaped, Idle, RequestField
<1>2. Newcomers /\ StaleIsExplained
    BY DEF AccessInit, Newcomers, StaleIsExplained, Idle
<1>3. QED
    BY <1>1, <1>2 DEF IInv

\* A step that changes nobody's rights for the worse without an explanation.
LEMMA Explained ==
    ASSUME IInv,
           \A u \in User : Right(u)' \/ Known(u)' \/ Settled(u)
    PROVE  StaleIsExplained'
BY DEF IInv, StaleIsExplained, Right, Known, Settled

\* What the others owe they still owe.
LEMMA OwedKept ==
    ASSUME IInv, NEW a \in User, NEW x, request' = [request EXCEPT ![a] = x],
           NEW u \in User, \A r : u \in Holders(r) => u \in Holders(r)',
           Owed(u),
           request[a].at \in {"clearing", "committed"} => x.at = "clearing" /\ u \in x.owed
    PROVE  Owed(u)'
<1>1. PICK b \in User : \/ request[b].at = "clearing" /\ u \in request[b].owed
                        \/ request[b].at = "committed" /\ u \in Holders(request[b].role)
    BY DEF Owed
<1>2. CASE b = a
    <2>1. request'[a] = x
        BY DEF IInv, Shaped
    <2>2. QED
        BY <1>1, <1>2, <2>1 DEF Owed
<1>3. CASE b # a
    <2>1. request'[b] = request[b]
        BY <1>3 DEF IInv, Shaped
    <2>2. QED
        BY <1>1, <2>1 DEF Owed
<1>4. QED
    BY <1>2, <1>3

LEMMA SameHolders == ASSUME held' = held, NEW r PROVE Holders(r)' = Holders(r)
BY DEF Holders

\* A step of one request that leaves users, roles and their rights alone and owes nothing.
LEMMA NothingOwed ==
    ASSUME IInv, NEW a \in User, NEW x, request' = [request EXCEPT ![a] = x], DOMAIN x = RequestField,
           request[a].at \notin {"clearing", "committed"}, UNCHANGED <<held, grants, cache, late>>,
           DOMAIN user' = User,
           \A u \in User : user'[u] = "none" => user[u] = "none" /\ (u = a => x.at = "idle")
    PROVE  IInv'
<1>1. Shaped'
    BY DEF IInv, Shaped
<1>2. Newcomers'
    BY DEF IInv, Shaped, Newcomers
<1>3. ASSUME NEW u \in User, Known(u) PROVE Known(u)'
    <2>1. \A r : u \in Holders(r) => u \in Holders(r)'
        BY SameHolders
    <2>2. Owed(u) => Owed(u)'
        BY <2>1, OwedKept
    <2>3. QED
        BY <1>3, <2>2 DEF Known
<1>4. \A u \in User : cache'[u] = cache[u] /\ Rights(u)' = Rights(u)
    BY DEF Rights
<1>5. QED
    BY <1>1, <1>2, <1>3, <1>4, Explained DEF IInv, Settled
LEMMA IdleFields == DOMAIN Idle = RequestField /\ Idle.at = "idle" /\ Idle.owed = {}
BY DEF Idle, RequestField

LEMMA DecidedFields ==
    ASSUME NEW op, NEW codes
    PROVE  DOMAIN Decided(op, codes) = RequestField /\ Decided(op, codes).at \in {"idle", "admitted"}
BY DEF Decided, Idle, RequestField

LEMMA ClearingFields ==
    ASSUME NEW users
    PROVE  /\ DOMAIN Clearing(users) = RequestField
           /\ \A u \in users : Clearing(users).at = "clearing" /\ u \in Clearing(users).owed
BY DEF Clearing, Idle, RequestField

LEMMA QuietKeep ==
    ASSUME IInv, NEW a \in User,
           \/ \E op \in Op : Admit(a, op)
           \/ Miss(a)
           \/ \E r \in Role : CreateRole(a, r) \/ FindAffected(a, r)
           \/ \E u \in User, state \in {"active", "inactive"} : UpdateUser(a, u, state)
    PROVE  IInv'
<1>1. ASSUME NEW op \in Op, Admit(a, op) PROVE IInv'
    <2>1. PICK codes \in cache[a] : request' = [request EXCEPT ![a] = Decided(op, codes)]
        BY <1>1 DEF Admit
    <2>2. /\ UNCHANGED <<user, held, grants, cache, late>> /\ DOMAIN user = User
          /\ user[a] = "active" /\ request[a].at = "idle"
        BY <1>1 DEF Admit, IInv, Shaped
    <2>3. DOMAIN Decided(op, codes) = RequestField
        BY DecidedFields
    <2>4. QED
        BY <2>1, <2>2, <2>3, NothingOwed
<1>2. CASE Miss(a)
    <2>1. DOMAIN [Idle EXCEPT !.at = "read", !.codes = Rights(a)] = RequestField
        BY DEF Idle, RequestField
    <2>2. QED
        BY <1>2, <2>1, NothingOwed DEF Miss, IInv, Shaped
<1>3. ASSUME NEW r \in Role, CreateRole(a, r) PROVE IInv'
    BY <1>3, IdleFields, NothingOwed DEF CreateRole, Handling, Then, IInv, Shaped
<1>4. ASSUME NEW r \in Role, FindAffected(a, r) PROVE IInv'
    <2>1. DOMAIN [request[a] EXCEPT !.at = "affected", !.role = r, !.owed = Holders(r)] = RequestField
        BY DEF IInv, Shaped
    <2>2. user[a] # "none"
        BY <1>4 DEF FindAffected, IInv, Newcomers
    <2>3. QED
        BY <1>4, <2>1, <2>2, NothingOwed DEF FindAffected, Then, IInv, Shaped
<1>5. ASSUME NEW u \in User, NEW state \in {"active", "inactive"}, UpdateUser(a, u, state) PROVE IInv'
    <2>1. /\ request' = [request EXCEPT ![a] = Idle] /\ request[a].at = "admitted"
          /\ UNCHANGED <<held, grants, cache, late>>
        BY <1>5 DEF UpdateUser, Handling, Then
    <2>2. DOMAIN user' = User /\ \A w \in User : user'[w] = "none" => user[w] = "none"
        BY <1>5 DEF UpdateUser, IInv, Shaped
    <2>3. QED
        BY <2>1, <2>2, IdleFields, NothingOwed
<1>6. QED
    BY <1>1, <1>2, <1>3, <1>4, <1>5

LEMMA CacheKeep ==
    ASSUME IInv, NEW a \in User, \/ \E op \in Op : Fill(a, op)
                                 \/ EntryExpires(a)
                                 \/ \E u \in User : Clear(a, u)
                                 \/ Abandon(a)
                                 \/ FindHolders(a)
    PROVE  IInv'
<1>1. UNCHANGED <<user, held, grants>>
    BY DEF Fill, EntryExpires, Clear, Abandon, FindHolders
<1>2. \A u \in User : Rights(u)' = Rights(u) /\ \A r : u \in Holders(r) => u \in Holders(r)'
    BY <1>1, SameHolders DEF Rights
<1>3. ASSUME NEW op \in Op, Fill(a, op) PROVE IInv'
    <2>1. /\ request' = [request EXCEPT ![a] = Decided(op, request[a].codes)] /\ request[a].at = "read"
          /\ cache' = [cache EXCEPT ![a] = {request[a].codes}]
          /\ late' = IF request[a].codes = Rights(a) THEN late \ {a} ELSE late \cup {a}
        BY <1>3 DEF Fill
    <2>2. Shaped'
        BY <1>1, <2>1, DecidedFields DEF IInv, Shaped
    <2>3. Newcomers'
        BY <1>1, <2>1 DEF IInv, Shaped, Newcomers
    <2>4. \A u \in User : u = a => Right(u)' \/ Known(u)'
        BY <1>2, <2>1 DEF IInv, Shaped, Right, Known
    <2>5. ASSUME NEW u \in User \ {a} PROVE cache'[u] = cache[u] /\ (Known(u) => Known(u)')
        <3>1. Owed(u) => Owed(u)'
            BY <1>2, <2>1, OwedKept
        <3>2. QED
            BY <2>1, <3>1 DEF IInv, Shaped, Known
    <2>6. \A u \in User : Right(u)' \/ Known(u)' \/ Settled(u)
        BY <1>2, <2>4, <2>5 DEF Settled
    <2>7. QED
        BY <2>2, <2>3, <2>6, Explained DEF IInv, Settled
<1>4. CASE EntryExpires(a)
    <2>1. cache' = [cache EXCEPT ![a] = {}] /\ late' = late \ {a} /\ request' = request
        BY <1>4 DEF EntryExpires
    <2>2. Shaped' /\ Newcomers'
        BY <1>1, <2>1 DEF IInv, Shaped, Newcomers
    <2>3. \A u \in User : u = a => Right(u)'
        BY <2>1 DEF IInv, Shaped, Right
    <2>4. \A u \in User \ {a} : cache'[u] = cache[u] /\ (Known(u) => Known(u)')
        BY <1>1, <2>1, SameHolders DEF IInv, Shaped, Known, Owed
    <2>5. \A u \in User : Right(u)' \/ Known(u)' \/ Settled(u)
        BY <1>2, <2>3, <2>4 DEF Settled
    <2>6. QED
        BY <2>2, <2>3, <2>5, Explained DEF IInv, Settled
<1>5. ASSUME NEW v \in User, Clear(a, v) PROVE IInv'
    <2> DEFINE x == Clearing(request[a].owed \ {v})
    <2>1. /\ request[a].at = "clearing" /\ cache' = [cache EXCEPT ![v] = {}] /\ late' = late \ {v}
          /\ request' = [request EXCEPT ![a] = x]
        BY <1>5 DEF Clear, Then
    <2>2. Shaped'
        BY <1>1, <2>1, ClearingFields DEF IInv, Shaped
    <2>3. Newcomers'
        BY <1>1, <2>1 DEF IInv, Shaped, Newcomers
    <2>4. \A u \in User : u = v => Right(u)'
        BY <2>1 DEF IInv, Shaped, Right
    <2>5. ASSUME NEW u \in User \ {v} PROVE cache'[u] = cache[u] /\ (Known(u) => Known(u)')
        <3>1. ASSUME Owed(u) PROVE Owed(u)'
            <4>1. CASE u \in request[a].owed
                <5>1. x.at = "clearing" /\ u \in x.owed
                    BY <4>1, ClearingFields
                <5>2. QED
                    BY <1>2, <2>1, <3>1, <5>1, OwedKept
            <4>2. CASE u \notin request[a].owed
                <5>1. PICK b \in User : \/ request[b].at = "clearing" /\ u \in request[b].owed
                                        \/ request[b].at = "committed" /\ u \in Holders(request[b].role)
                    BY <3>1 DEF Owed
                <5>2. b # a
                    BY <2>1, <4>2, <5>1
                <5>3. request'[b] = request[b]
                    BY <2>1, <5>2 DEF IInv, Shaped
                <5>4. QED
                    BY <1>2, <5>1, <5>3 DEF Owed
            <4>3. QED
                BY <4>1, <4>2
        <3>2. QED
            BY <2>1, <3>1 DEF IInv, Shaped, Known
    <2>6. \A u \in User : Right(u)' \/ Known(u)' \/ Settled(u)
        BY <1>2, <2>4, <2>5 DEF Settled
    <2>7. QED
        BY <2>2, <2>3, <2>6, Explained DEF IInv, Settled
<1>6. CASE Abandon(a)
    <2> DEFINE owed == CASE request[a].at = "clearing" -> request[a].owed
                         [] request[a].at = "committed" -> Holders(request[a].role)
                         [] OTHER -> {}
    <2>1. request' = [request EXCEPT ![a] = Idle] /\ late' = late \cup owed /\ cache' = cache
        BY <1>6 DEF Abandon, Then
    <2>2. Shaped'
        BY <1>1, <2>1, IdleFields DEF IInv, Shaped
    <2>3. Newcomers'
        BY <1>1, <2>1, IdleFields DEF IInv, Shaped, Newcomers
    <2>4. ASSUME NEW u \in User, Owed(u), u \notin owed PROVE Owed(u)'
        <3>1. PICK b \in User : \/ request[b].at = "clearing" /\ u \in request[b].owed
                                \/ request[b].at = "committed" /\ u \in Holders(request[b].role)
            BY <2>4 DEF Owed
        <3>2. b # a
            BY <2>4, <3>1
        <3>3. request'[b] = request[b]
            BY <2>1, <3>2 DEF IInv, Shaped
        <3>4. QED
            BY <1>2, <3>1, <3>3 DEF Owed
    <2>5. \A u \in User : Known(u) => Known(u)'
        BY <2>1, <2>4 DEF Known
    <2>6. QED
        BY <1>2, <2>1, <2>2, <2>3, <2>5, Explained DEF IInv, Settled
<1>7. CASE FindHolders(a)
    <2> DEFINE x == Clearing(Holders(request[a].role))
    <2>1. /\ request[a].at = "committed" /\ request' = [request EXCEPT ![a] = x] /\ UNCHANGED <<cache, late>>
        BY <1>7 DEF FindHolders, Then
    <2>2. Shaped'
        BY <1>1, <2>1, ClearingFields DEF IInv, Shaped
    <2>3. Newcomers'
        BY <1>1, <2>1 DEF IInv, Shaped, Newcomers
    <2>4. ASSUME NEW u \in User, Owed(u) PROVE Owed(u)'
        <3>1. PICK b \in User : \/ request[b].at = "clearing" /\ u \in request[b].owed
                                \/ request[b].at = "committed" /\ u \in Holders(request[b].role)
            BY <2>4 DEF Owed
        <3>2. CASE b = a
            <4>1. x.at = "clearing" /\ u \in x.owed
                BY <2>1, <3>1, <3>2, ClearingFields
            <4>2. QED
                BY <1>2, <2>1, <2>4, <4>1, OwedKept
        <3>3. CASE b # a
            <4>1. request'[b] = request[b]
                BY <2>1, <3>3 DEF IInv, Shaped
            <4>2. QED
                BY <1>2, <3>1, <4>1 DEF Owed
        <3>4. QED
            BY <3>2, <3>3
    <2>5. QED
        BY <1>2, <2>1, <2>2, <2>3, <2>4, Explained DEF IInv, Settled, Known
<1>8. QED
    BY <1>3, <1>4, <1>5, <1>6, <1>7
\* A commit of a's handler, after which it owes the users in x.owed; of the others nobody's rights have changed.
LEMMA Committed ==
    ASSUME IInv, NEW a \in User, NEW x, request' = [request EXCEPT ![a] = x], DOMAIN x = RequestField,
           request[a].at \notin {"clearing", "committed"}, cache' = cache, late \subseteq late',
           held' \in [User -> SUBSET Role], DOMAIN grants' = Role, DOMAIN user' = User,
           \A u \in User : user'[u] = "none" => user[u] = "none" /\ u # a,
           NEW touched,
           \A u \in User \ touched : held'[u] = held[u] /\ Rights(u)' = Rights(u),
           \A u \in User \cap touched : Right(u)' \/ Known(u)'
    PROVE  IInv'
<1>1. Shaped'
    BY DEF IInv, Shaped
<1>2. Newcomers'
    BY DEF IInv, Shaped, Newcomers
<1>3. ASSUME NEW u \in User, u \notin touched, Owed(u) PROVE Owed(u)'
    <2>1. \A r : u \in Holders(r) => u \in Holders(r)'
        BY <1>3 DEF Holders
    <2>2. QED
        BY <1>3, <2>1, OwedKept
<1>4. \A u \in User : Right(u)' \/ Known(u)' \/ Settled(u)
    BY <1>3 DEF Settled, Known
<1>5. QED
    BY <1>1, <1>2, <1>4, Explained DEF IInv

LEMMA SetRolePermissionsKeeps ==
    ASSUME IInv, NEW a \in User, NEW r \in Role, NEW codes \in Matrix, SetRolePermissions(a, r, codes)
    PROVE  IInv'
<1> DEFINE x == [Idle EXCEPT !.at = "committed", !.role = r]
<1>1. /\ request' = [request EXCEPT ![a] = x] /\ request[a].at = "admitted" /\ grants' = [grants EXCEPT ![r] = codes]
      /\ UNCHANGED <<user, held, cache, late>>
    BY DEF SetRolePermissions, Handling, Then
<1>2. DOMAIN x = RequestField /\ x.at = "committed" /\ x.role = r
    BY DEF Idle, RequestField
<1> HIDE DEF x
<1>3. ASSUME NEW u \in User \ Holders(r) PROVE Rights(u)' = Rights(u)
    <2>1. \A q \in held[u] : grants'[q] = grants[q]
        BY <1>1 DEF IInv, Shaped, Holders
    <2>2. QED
        BY <1>1, <2>1 DEF Rights
<1>4. ASSUME NEW u \in Holders(r) PROVE Known(u)'
    <2>1. request'[a] = x /\ u \in Holders(r)'
        BY <1>1, <1>4 DEF IInv, Shaped, Holders
    <2>2. QED
        BY <1>2, <2>1 DEF Known, Owed
<1>5. user[a] # "none"
    BY <1>1 DEF IInv, Newcomers
<1>6. QED
    BY <1>1, <1>2, <1>3, <1>4, <1>5, Committed DEF IInv, Shaped

LEMMA DeleteRoleKeeps == ASSUME IInv, NEW a \in User, DeleteRole(a) PROVE IInv'
<1> DEFINE r == request[a].role
<1>1. request[a].at = "affected" /\ UNCHANGED <<user, cache>>
    BY DEF DeleteRole
<1>2. user[a] # "none"
    BY <1>1 DEF IInv, Newcomers
<1>3. CASE role[r] = "none"
    <2>1. request' = [request EXCEPT ![a] = Idle] /\ UNCHANGED <<held, grants, late>>
        BY <1>3 DEF DeleteRole, Then
    <2>2. QED
        BY <1>1, <1>2, <2>1, IdleFields, NothingOwed DEF IInv, Shaped
<1>4. CASE role[r] # "none"
    <2> DEFINE x == Clearing(request[a].owed)
    <2>1. /\ request' = [request EXCEPT ![a] = x] /\ grants' = [grants EXCEPT ![r] = {}]
          /\ held' = [u \in User |-> held[u] \ {r}]
          /\ late' = late \cup (Holders(r) \ request[a].owed)
        BY <1>4 DEF DeleteRole, Then
    <2>2. held' \in [User -> SUBSET Role] /\ DOMAIN grants' = Role
        BY <2>1 DEF IInv, Shaped
    <2>3. ASSUME NEW u \in User \ Holders(r) PROVE held'[u] = held[u] /\ Rights(u)' = Rights(u)
        <3>1. held'[u] = held[u] /\ \A q \in held[u] : grants'[q] = grants[q]
            BY <2>1 DEF IInv, Shaped, Holders
        <3>2. QED
            BY <3>1 DEF Rights
    <2>4. ASSUME NEW u \in User \cap Holders(r) PROVE Known(u)'
        <3>1. CASE u \in request[a].owed
            <4>1. request'[a] = x /\ x.at = "clearing" /\ u \in x.owed
                BY <2>1, <3>1, ClearingFields DEF IInv, Shaped
            <4>2. QED
                BY <4>1 DEF Known, Owed
        <3>2. CASE u \notin request[a].owed
            BY <2>1, <2>4, <3>2 DEF Known
        <3>3. QED
            BY <3>1, <3>2
    <2>5. DOMAIN x = RequestField
        BY ClearingFields
    <2> HIDE DEF x
    <2>6. QED
        BY <1>1, <1>2, <2>1, <2>2, <2>3, <2>4, <2>5, Committed DEF IInv, Shaped
<1>5. QED
    BY <1>3, <1>4

LEMMA UserKeeps ==
    ASSUME IInv, NEW a \in User, NEW u \in User,
           \/ \E roles \in SUBSET Existing : CreateUser(a, u, roles) \/ SetUserRoles(a, u, roles)
           \/ DeleteUser(a, u)
    PROVE  IInv'
<1>1. /\ request[a].at = "admitted" /\ UNCHANGED <<grants, cache, late>>
      /\ user[a] # "none"
    BY DEF CreateUser, SetUserRoles, DeleteUser, Handling, IInv, Newcomers
<1>2. /\ DOMAIN user' = User /\ held' \in [User -> SUBSET Role]
      /\ \A w \in User : user'[w] = "none" => user[w] = "none"
      /\ \A w \in User \ {u} : held'[w] = held[w]
    BY DEF CreateUser, SetUserRoles, DeleteUser, Existing, IInv, Shaped
<1>3. ASSUME NEW w \in User \ {u} PROVE held'[w] = held[w] /\ Rights(w)' = Rights(w)
    BY <1>1, <1>2 DEF Rights
<1>4. ASSUME NEW roles \in SUBSET Existing, CreateUser(a, u, roles) PROVE IInv'
    <2>1. request' = [request EXCEPT ![a] = Idle] /\ cache[u] = {}
        BY <1>4 DEF CreateUser, Then, IInv, Newcomers
    <2>2. \A w \in User \cap {u} : Right(w)'
        BY <1>1, <2>1 DEF Right
    <2>3. QED
        BY <1>1, <1>2, <1>3, <2>1, <2>2, IdleFields, Committed DEF IInv, Shaped
<1>5. CASE DeleteUser(a, u) \/ \E roles \in SUBSET Existing : SetUserRoles(a, u, roles)
    <2> DEFINE x == Clearing({u})
    <2>1. request' = [request EXCEPT ![a] = x]
        BY <1>5 DEF DeleteUser, SetUserRoles, Then
    <2>2. DOMAIN x = RequestField /\ x.at = "clearing" /\ u \in x.owed
        BY ClearingFields
    <2> HIDE DEF x
    <2>3. request'[a] = x
        BY <2>1 DEF IInv, Shaped
    <2>4. \A w \in User \cap {u} : Known(w)'
        BY <2>2, <2>3 DEF Known, Owed
    <2>5. QED
        BY <1>1, <1>2, <1>3, <2>1, <2>2, <2>4, Committed DEF IInv, Shaped
<1>6. QED
    BY <1>4, <1>5

LEMMA SeedKeeps == ASSUME IInv, Seed PROVE IInv'
<1>1. /\ held' = [held EXCEPT ![Admin] = @ \cup {"Super Admin"}] /\ DOMAIN grants' = Role
      /\ user' = [user EXCEPT ![Admin] = IF @ = "none" THEN "active" ELSE @]
      /\ late' = late \cup {u \in User : Rights(u)' # Rights(u)} /\ UNCHANGED <<cache, request>>
    BY DEF Seed, SeededHeld, SeededGrants
<1>2. Shaped'
    BY <1>1, AccessAssumption DEF IInv, Shaped
<1>3. Newcomers'
    BY <1>1 DEF IInv, Shaped, Newcomers
<1>4. ASSUME NEW u \in User, Owed(u) PROVE Owed(u)'
    <2>1. \A r : u \in Holders(r) => u \in Holders(r)'
        BY <1>1 DEF Holders, IInv, Shaped
    <2>2. QED
        BY <1>1, <1>4, <2>1 DEF Owed
<1>5. \A u \in User : Right(u)' \/ Known(u)' \/ Settled(u)
    BY <1>1, <1>4 DEF Settled, Known
<1>6. QED
    BY <1>2, <1>3, <1>5, Explained DEF IInv

LEMMA StepIInv == IInv /\ [AccessNext]_accessVars => IInv'
<1> SUFFICES ASSUME IInv, [AccessNext]_accessVars PROVE IInv'
    OBVIOUS
<1>1. ASSUME NEW a \in User, RoleStep(a) PROVE IInv'
    BY <1>1, QuietKeep, CacheKeep, SetRolePermissionsKeeps, DeleteRoleKeeps DEF RoleStep
<1>2. ASSUME NEW a \in User, UserStep(a) PROVE IInv'
    BY <1>2, QuietKeep, CacheKeep, UserKeeps DEF UserStep
<1>3. ASSUME NEW a \in User, RequestStep(a) PROVE IInv'
    BY <1>3, QuietKeep, CacheKeep DEF RequestStep
<1>4. CASE UNCHANGED accessVars
    <2>1. \A u \in User : Right(u)' = Right(u) /\ Known(u)' = Known(u)
        BY <1>4 DEF accessVars, Right, Known, Rights, Owed, Holders
    <2>2. QED
        BY <1>4, <2>1 DEF accessVars, IInv, Shaped, Newcomers, StaleIsExplained, Right, Known
<1>5. QED
    BY <1>1, <1>2, <1>3, <1>4, SeedKeeps DEF AccessNext

\* For any number of users, roles and changes of rights a cached set of permissions that is wrong is about to be cleared
\* by a request still running, or is one of the named exceptions.
THEOREM StaleExplained == AccessSpec => []StaleIsExplained
<1>1. IInv => StaleIsExplained
    BY DEF IInv
<1>2. QED
    BY <1>1, InitIInv, StepIInv, PTL DEF AccessSpec

-----------------------------------------------------------------------------
(* Types, and what a start of the server gives the administrator.          *)

LEMMA Bounded == 0 \in 0 .. MaxEdits /\ \A n \in 0 .. MaxEdits : n < MaxEdits => n + 1 \in 0 .. MaxEdits
<1>1. MaxEdits \in Nat
    BY AccessAssumption
<1>2. QED
    BY <1>1

LEMMA AtMostOne == Cardinality({}) <= 1 /\ \A x : Cardinality({x}) <= 1
<1>1. Cardinality({}) = 0 /\ \A x : Cardinality({x}) = 1
    BY FS_EmptySet, FS_Singleton
<1>2. 0 <= 1 /\ 1 <= 1
    OBVIOUS
<1>3. QED
    BY <1>1, <1>2

LEMMA Requests ==
    /\ Idle \in Request
    /\ \A op \in Op : \A codes : Decided(op, codes) \in Request
    /\ \A users \in SUBSET User : Clearing(users) \in Request
<1>1. Idle \in Request
    BY AccessAssumption DEF Idle, Request, Op
<1>2. QED
    BY <1>1 DEF Decided, Clearing, Idle, Request

\* Nobody holds a role that is gone, and it grants nothing.
Cascaded == \A r \in Role : role[r] = "none" => grants[r] = {} /\ \A u \in User : r \notin held[u]

LEMMA TypeOfRequest ==
    ASSUME AccessTypeOK, NEW a \in User, RoleStep(a) \/ UserStep(a) \/ RequestStep(a) PROVE request' \in [User -> Request]
<1> USE DEF AccessTypeOK
<1>1. CASE RoleStep(a)
    <2>1. ASSUME NEW r \in Role, NEW codes \in Matrix, SetRolePermissions(a, r, codes) PROVE request' \in [User -> Request]
        <3>1. [Idle EXCEPT !.at = "committed", !.role = r] \in Request
            BY Requests DEF Idle, Request
        <3>2. QED
            BY <2>1, <3>1 DEF SetRolePermissions, Then
    <2>2. ASSUME NEW r \in Role, CreateRole(a, r) PROVE request' \in [User -> Request]
        BY <2>2, Requests DEF CreateRole, Then
    <2>3. ASSUME NEW r \in Role, FindAffected(a, r) PROVE request' \in [User -> Request]
        <3>1. Holders(r) \in SUBSET User /\ request[a] \in Request
            BY DEF Holders
        <3>2. [request[a] EXCEPT !.at = "affected", !.role = r, !.owed = Holders(r)] \in Request
            BY <3>1 DEF Request
        <3>3. QED
            BY <2>3, <3>2 DEF FindAffected, Then
    <2>4. CASE FindHolders(a)
        <3>1. Clearing(Holders(request[a].role)) \in Request
            BY Requests DEF Holders
        <3>2. QED
            BY <2>4, <3>1 DEF FindHolders, Then
    <2>5. CASE DeleteRole(a)
        <3>1. Clearing(request[a].owed) \in Request
            BY Requests DEF Request
        <3>2. QED
            BY <2>5, <3>1, Requests DEF DeleteRole, Then
    <2>6. QED
        BY <1>1, <2>1, <2>2, <2>3, <2>4, <2>5 DEF RoleStep
<1>2. CASE UserStep(a)
    <2>1. PICK u \in User :
              \/ \E roles \in SUBSET Existing : CreateUser(a, u, roles) \/ SetUserRoles(a, u, roles)
              \/ \E state \in {"active", "inactive"} : UpdateUser(a, u, state)
              \/ DeleteUser(a, u)
              \/ Clear(a, u)
        BY <1>2 DEF UserStep
    <2>2. Clearing({u}) \in Request /\ Clearing(request[a].owed \ {u}) \in Request
        <3>1. request[a].owed \in SUBSET User
            BY DEF Request
        <3>2. QED
            BY <3>1, Requests
    <2>3. QED
        BY <2>1, <2>2, Requests DEF CreateUser, SetUserRoles, UpdateUser, DeleteUser, Clear, Then
<1>3. CASE RequestStep(a)
    <2>1. ASSUME Miss(a) PROVE request' \in [User -> Request]
        <3>1. Rights(a) \in SUBSET Code
            BY DEF Rights
        <3>2. [Idle EXCEPT !.at = "read", !.codes = Rights(a)] \in Request
            BY <3>1, Requests DEF Idle, Request
        <3>3. QED
            BY <2>1, <3>2 DEF Miss
    <2>2. ASSUME NEW op \in Op, Admit(a, op) \/ Fill(a, op) PROVE request' \in [User -> Request]
        BY <2>2, Requests DEF Admit, Fill
    <2>3. QED
        BY <1>3, <2>1, <2>2, Requests DEF RequestStep, EntryExpires, Abandon, Then
<1>4. QED
    BY <1>1, <1>2, <1>3

LEMMA TypeOfRows ==
    ASSUME AccessTypeOK, NEW a \in User, RoleStep(a) \/ UserStep(a) \/ RequestStep(a)
    PROVE  /\ user' \in [User -> {"none", "active", "inactive", "deleted"}]
           /\ held' \in [User -> SUBSET Role]
           /\ role' \in [Role -> {"none", "custom", "system"}]
           /\ grants' \in [Role -> SUBSET Code]
           /\ edits' \in 0 .. MaxEdits
           /\ Cascaded'
<1>0. edits \in 0 .. MaxEdits /\ (edits < MaxEdits => edits + 1 \in 0 .. MaxEdits)
    BY Bounded DEF AccessTypeOK
<1> USE DEF AccessTypeOK, Cascaded
<1>1. CASE RequestStep(a)
    BY <1>1 DEF RequestStep, Admit, Fill, Miss, EntryExpires, Abandon
<1>2. CASE RoleStep(a)
    <2>1. ASSUME NEW r \in Role, CreateRole(a, r) \/ FindAffected(a, r)
          PROVE  /\ UNCHANGED <<user, held, grants>> /\ edits' \in 0 .. MaxEdits
                 /\ role' \in [Role -> {"none", "custom", "system"}]
                 /\ \A q \in Role : role'[q] = "none" => role[q] = "none"
        BY <1>0, <2>1 DEF CreateRole, FindAffected, Handling
    <2>2. ASSUME NEW r \in Role, NEW codes \in Matrix, SetRolePermissions(a, r, codes)
          PROVE  /\ UNCHANGED <<user, held, role>> /\ edits' \in 0 .. MaxEdits
                 /\ grants' \in [Role -> SUBSET Code]
                 /\ \A q \in Role : role[q] = "none" => grants'[q] = grants[q]
        BY <1>0, <2>2, AccessAssumption DEF SetRolePermissions, Handling
    <2>3. ASSUME FindHolders(a) PROVE UNCHANGED <<user, held, role, grants, edits>>
        BY <2>3 DEF FindHolders
    <2>4. ASSUME DeleteRole(a)
          PROVE  /\ user' = user /\ edits' \in 0 .. MaxEdits
                 /\ \/ UNCHANGED <<held, role, grants>>
                    \/ /\ role' = [role EXCEPT ![request[a].role] = "none"]
                       /\ grants' = [grants EXCEPT ![request[a].role] = {}]
                       /\ held' = [u \in User |-> held[u] \ {request[a].role}]
        BY <1>0, <2>4 DEF DeleteRole
    <2>5. request[a].role \in Role
        BY DEF Request
    <2>6. CASE DeleteRole(a)
        <3>1. CASE UNCHANGED <<held, role, grants>>
            BY <2>4, <2>6, <3>1
        <3>2. CASE ~UNCHANGED <<held, role, grants>>
            <4> DEFINE r == request[a].role
            <4>1. \A q \in Role : q # r => role'[q] = role[q] /\ grants'[q] = grants[q]
                BY <2>4, <2>6, <3>2
            <4>2. grants'[r] = {} /\ \A u \in User : held'[u] = held[u] \ {r}
                BY <2>4, <2>5, <2>6, <3>2
            <4>3. Cascaded'
                BY <2>5, <4>1, <4>2
            <4>4. QED
                BY <2>4, <2>5, <2>6, <3>2, <4>3
        <3>3. QED
            BY <3>1, <3>2
    <2>7. QED
        BY <1>2, <2>1, <2>2, <2>3, <2>6 DEF RoleStep
<1>3. CASE UserStep(a)
    <2>1. PICK u \in User :
              \/ \E roles \in SUBSET Existing : CreateUser(a, u, roles) \/ SetUserRoles(a, u, roles)
              \/ \E state \in {"active", "inactive"} : UpdateUser(a, u, state)
              \/ DeleteUser(a, u)
              \/ Clear(a, u)
        BY <1>3 DEF UserStep
    <2>2. ASSUME NEW roles \in SUBSET Existing, CreateUser(a, u, roles) \/ SetUserRoles(a, u, roles)
          PROVE  /\ user' = user \/ user' = [user EXCEPT ![u] = "active"]
                 /\ UNCHANGED <<role, grants>> /\ edits' \in 0 .. MaxEdits /\ held' = [held EXCEPT ![u] = roles]
        BY <1>0, <2>2 DEF CreateUser, SetUserRoles, Handling
    <2>3. ASSUME NEW state \in {"active", "inactive"}, UpdateUser(a, u, state)
          PROVE  UNCHANGED <<held, role, grants>> /\ edits' \in 0 .. MaxEdits /\ user' = [user EXCEPT ![u] = state]
        BY <1>0, <2>3 DEF UpdateUser, Handling
    <2>4. ASSUME DeleteUser(a, u)
          PROVE  UNCHANGED <<held, role, grants>> /\ edits' \in 0 .. MaxEdits /\ user' = [user EXCEPT ![u] = "deleted"]
        BY <1>0, <2>4 DEF DeleteUser, Handling
    <2>5. ASSUME Clear(a, u) PROVE UNCHANGED <<user, held, role, grants, edits>>
        BY <2>5 DEF Clear
    <2>6. QED
        BY <2>1, <2>2, <2>3, <2>4, <2>5 DEF Existing
<1>4. QED
    BY <1>1, <1>2, <1>3

LEMMA TypeOfCache ==
    ASSUME AccessTypeOK, NEW a \in User, RoleStep(a) \/ UserStep(a) \/ RequestStep(a)
    PROVE  /\ cache' \in [User -> SUBSET SUBSET Code]
           /\ \A u \in User : Cardinality(cache'[u]) <= 1
           /\ late' \in SUBSET User
<1> USE DEF AccessTypeOK
<1>2. ASSUME NEW op \in Op, Fill(a, op)
      PROVE  cache' = [cache EXCEPT ![a] = {request[a].codes}] /\ late' \in SUBSET User
    BY <1>2 DEF Fill
<1>3. ASSUME NEW u \in User, EntryExpires(a) \/ Clear(a, u)
      PROVE  (\E v \in User : cache' = [cache EXCEPT ![v] = {}]) /\ late' \in SUBSET User
    BY <1>3 DEF EntryExpires, Clear
<1>4. ASSUME Abandon(a) PROVE cache' = cache /\ late' \in SUBSET User
    BY <1>4 DEF Abandon, Holders, Request
<1>5. ASSUME DeleteRole(a) PROVE cache' = cache /\ late' \in SUBSET User
    BY <1>5 DEF DeleteRole, Holders
<1>6. \/ \E op \in Op : Fill(a, op)
      \/ \E u \in User : EntryExpires(a) \/ Clear(a, u)
      \/ cache' = cache /\ late' \in SUBSET User
    BY <1>4, <1>5 DEF RoleStep, UserStep, RequestStep, CreateRole, FindAffected, SetRolePermissions, FindHolders,
                      CreateUser, SetUserRoles, UpdateUser, DeleteUser, Admit, Miss
<1>7. ASSUME NEW op \in Op, Fill(a, op)
      PROVE  cache' \in [User -> SUBSET SUBSET Code] /\ \A u \in User : Cardinality(cache'[u]) <= 1
    <2>1. request[a].codes \in SUBSET Code
        BY DEF Request
    <2>2. {request[a].codes} \in SUBSET SUBSET Code
        BY <2>1
    <2>3. Cardinality({request[a].codes}) <= 1
        BY AtMostOne
    <2>4. QED
        BY <1>2, <1>7, <2>2, <2>3
<1>8. ASSUME NEW v \in User, cache' = [cache EXCEPT ![v] = {}]
      PROVE  cache' \in [User -> SUBSET SUBSET Code] /\ \A u \in User : Cardinality(cache'[u]) <= 1
    BY <1>8, AtMostOne
<1>9. QED
    BY <1>2, <1>3, <1>6, <1>7, <1>8

LEMMA SeedKeepsTypes == ASSUME AccessTypeOK, Seed PROVE AccessTypeOK'
<1> USE AccessAssumption DEF AccessTypeOK
<1>0. edits' \in 0 .. MaxEdits
    BY Bounded DEF Seed
<1>1. /\ edits' \in 0 .. MaxEdits /\ role' = SeededRole /\ grants' = SeededGrants /\ held' = SeededHeld
      /\ late' \in SUBSET User /\ UNCHANGED <<cache, request>>
      /\ user' \in [User -> {"none", "active", "inactive", "deleted"}]
    BY <1>0 DEF Seed
<1>2. role' \in [Role -> {"none", "custom", "system"}] /\ grants' \in [Role -> SUBSET Code]
    BY <1>1 DEF SeededRole, SeededGrants
<1>3. held' \in [User -> SUBSET Role]
    BY <1>1 DEF SeededHeld
<1>4. "Super Admin" \in Seeded
    BY DEF Seeded, SystemRole
<1>5. \A r \in Role : role'[r] = "none" => role[r] = "none" /\ r \notin Seeded
    BY <1>1 DEF SeededRole
<1>6. \A r \in Role : role'[r] = "none" => grants'[r] = {} /\ \A u \in User : r \notin held'[u]
    BY <1>1, <1>4, <1>5 DEF SeededGrants, SeededHeld
<1>7. QED
    BY <1>1, <1>2, <1>3, <1>6

LEMMA InitAccessTypeOK == AccessInit => AccessTypeOK
<1> SUFFICES ASSUME AccessInit PROVE AccessTypeOK
    OBVIOUS
<1> USE AccessAssumption DEF AccessInit
<1>1. "Super Admin" \in Seeded
    BY DEF Seeded, SystemRole
<1>2. \A r \in Role : role[r] = "none" => grants[r] = {} /\ \A u \in User : r \notin held[u]
    BY <1>1
<1>3. cache \in [User -> SUBSET SUBSET Code] /\ \A u \in User : Cardinality(cache[u]) <= 1
    <2>1. \A u \in User : cache[u] = {}
        OBVIOUS
    <2>2. QED
        BY <2>1, AtMostOne
<1>4. request \in [User -> Request] /\ edits \in 0 .. MaxEdits
    BY Requests, Bounded
<1>5. QED
    BY <1>2, <1>3, <1>4 DEF AccessTypeOK

LEMMA StepAccessTypeOK == AccessTypeOK /\ [AccessNext]_accessVars => AccessTypeOK'
<1> SUFFICES ASSUME AccessTypeOK, [AccessNext]_accessVars PROVE AccessTypeOK'
    OBVIOUS
<1>1. ASSUME NEW a \in User, RoleStep(a) \/ UserStep(a) \/ RequestStep(a) PROVE AccessTypeOK'
    BY <1>1, TypeOfRequest, TypeOfRows, TypeOfCache DEF AccessTypeOK, Cascaded
<1>2. CASE UNCHANGED accessVars
    BY <1>2 DEF accessVars, AccessTypeOK
<1>3. QED
    BY <1>1, <1>2, SeedKeepsTypes DEF AccessNext

\* For any users, roles and codes the tables keep their types, and a role that is gone is held by nobody and grants nothing.
THEOREM AccessTyped == AccessSpec => []AccessTypeOK
BY InitAccessTypeOK, StepAccessTypeOK, PTL DEF AccessSpec

\* Whatever was done to roles and users before, a start of the server gives the administrator of the settings every code
\* that some endpoint asks for (seed_rbac), for any users, roles and changes.
THEOREM AdminRestored == AccessSpec => SeedRestoresAdmin
<1> DEFINE A == Seed /\ user'[Admin] = "active" => \A e \in Endpoint : e[2] \in Code => e[2] \in Rights(Admin)'
<1>1. ASSUME AccessTypeOK, Seed, NEW e \in Endpoint, e[2] \in Code PROVE e[2] \in Rights(Admin)'
    <2>1. "Super Admin" \in held'[Admin] /\ grants' = SeededGrants
        BY <1>1, AccessAssumption DEF Seed, SeededHeld, AccessTypeOK
    <2>2. "Super Admin" \in Seeded /\ SystemRole["Super Admin"] = AllCodes
        BY AccessAssumption DEF Seeded, SystemRole
    <2>3. SystemRole["Super Admin"] \cap Code \subseteq grants'["Super Admin"]
        BY <2>1, <2>2, AccessAssumption DEF SeededGrants
    <2>4. e[2] \in SystemRole["Super Admin"]
        BY <1>1, <2>2, TablesAgree
    <2>5. QED
        BY <1>1, <2>1, <2>3, <2>4 DEF Rights
<1>2. AccessTypeOK /\ [AccessNext]_accessVars => [A]_accessVars
    BY <1>1
<1>3. QED
    BY <1>2, InitAccessTypeOK, StepAccessTypeOK, PTL DEF AccessSpec, SeedRestoresAdmin
=============================================================================
