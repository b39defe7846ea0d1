-------------------------- MODULE AuthStore_proofs --------------------------
(***************************************************************************)
(* Theorems of AuthStore: types, the last administrator, and that the web  *)
(* server's requests are atomic when it is the only writer.                *)
(***************************************************************************)
EXTENDS AuthStore, FiniteSetTheorems, TLAPS

----------------------------------------------------------------------------
(* What the rules do to a store *)

\* A handler that passed its checks saves a well-formed store.
LEMMA ApplyType ==
    ASSUME NEW c \in Store, NEW r \in Request, Allowed(c, r),
           r.kind = "change_password" => r.by \in Users
    PROVE  Apply(c, r) \in Store
<1> r \in RawRequest /\ r.kind \in Kinds
    BY DEF Request, RawRequest
<1>1. CASE r.kind = "users_create"
    BY <1>1 DEF Apply, NewUserRec, Store, UserRec, Request, RawRequest
<1>2. CASE r.kind = "users_set_role"
    BY <1>2 DEF Apply, NewUserRec, Allowed, Store, UserRec, Request, RawRequest
<1>3. CASE r.kind = "users_set_password"
    BY <1>3 DEF Apply, NewUserRec, Allowed, Store, UserRec, Request, RawRequest
<1>4. CASE r.kind = "users_delete"
    BY <1>4 DEF Apply, NewUserRec, Store, UserRec, Request, RawRequest
<1>5. CASE r.kind = "change_password"
    <2>1. r.by \in Users /\ c.users[r.by] \in UserRec
        BY <1>5 DEF Allowed, Store
    <2>2. [c.users[r.by] EXCEPT !.password = r.password, !.must_change = FALSE] \in UserRec
        BY <2>1, <1>5 DEF UserRec, Request
    <2>3. Apply(c, r) = [c EXCEPT !.users[r.by] =
              [c.users[r.by] EXCEPT !.password = r.password, !.must_change = FALSE]]
        BY <1>5 DEF Apply, NewUserRec
    <2> QED
        BY <2>1, <2>2, <2>3 DEF Store
<1>6. CASE r.kind = "tokens_create"
    BY <1>6, DayAssumption DEF Apply, Store, TokenRec, Request, RawRequest
<1>7. CASE r.kind = "tokens_delete"
    BY <1>7 DEF Apply, Store, TokenRec, Request, RawRequest
<1> QED
    BY <1>1, <1>2, <1>3, <1>4, <1>5, <1>6, <1>7 DEF Kinds

\* An administrator who is not the last one leaves another behind.
LEMMA AnotherAdmin ==
    ASSUME NEW c \in Store, NEW u \in Users, c.users[u] # Nil,
           Admins(c) # {}, ~LastAdmin(c, u)
    PROVE  \E v \in Admins(c) : v # u
<1>1. IsFiniteSet(Admins(c))
    BY FiniteAssumption, FS_Subset DEF Admins
<1>2. CASE c.users[u].role # "admin"
    BY <1>2 DEF Admins
<1>3. CASE c.users[u].role = "admin"
    <2>1. ~(Cardinality(Admins(c)) <= 1)
        BY <1>3 DEF LastAdmin
    <2>2. SUFFICES ASSUME \A v \in Admins(c) : v = u
                   PROVE  FALSE
        OBVIOUS
    <2>3. Admins(c) = {u}
        BY <1>3, <2>2 DEF Admins
    <2>4. Cardinality(Admins(c)) = 1
        BY <2>3, FS_Singleton
    <2> QED
        BY <2>1, <2>4
<1> QED
    BY <1>2, <1>3

\* No handler removes the last administrator.
LEMMA ApplyKeepsAdmin ==
    ASSUME NEW c \in Store, NEW r \in Request, Allowed(c, r),
           r.kind = "change_password" => r.by \in Users,
           Admins(c) # {}
    PROVE  Admins(Apply(c, r)) # {}
<1> r \in RawRequest /\ r.kind \in Kinds
    BY DEF Request, RawRequest
<1>0. PICK a \in Users : c.users[a] # Nil /\ c.users[a].role = "admin"
    BY DEF Admins
<1>n. Nil \notin UserRec
    BY NilRecAssumption
<1>a. Admins(Apply(c, r)) = {u \in Users : /\ Apply(c, r).users[u] # Nil
                                           /\ Apply(c, r).users[u].role = "admin"}
    BY DEF Admins
<1>1. CASE r.kind = "users_create"
    <2>1. r.user \in Users /\ c.users[r.user] = Nil
        BY <1>1 DEF Allowed, Request
    <2>2. Apply(c, r).users[a] = c.users[a]
        BY <1>1, <2>1, <1>0 DEF Apply, Store
    <2> QED
        BY <2>2, <1>0, <1>a
<1>2. CASE r.kind = "users_set_role"
    <2>1. r.user \in Users /\ c.users[r.user] # Nil /\ r.role \in Roles
        BY <1>2 DEF Allowed, Request
    <2>2. Apply(c, r).users = [c.users EXCEPT ![r.user] = [c.users[r.user] EXCEPT !.role = r.role]]
        BY <1>2 DEF Apply, NewUserRec, Store
    <2>3. CASE r.role = "admin"
        <3>1. [c.users[r.user] EXCEPT !.role = r.role] \in UserRec
            BY <2>1 DEF Store, UserRec
        <3>2. [c.users[r.user] EXCEPT !.role = r.role].role = "admin"
            BY <2>1, <2>3 DEF Store, UserRec
        <3>3. Apply(c, r).users[r.user] = [c.users[r.user] EXCEPT !.role = r.role]
            BY <2>1, <2>2 DEF Store
        <3> QED
            BY <3>1, <3>2, <3>3, <2>1, <1>a, <1>n
    <2>4. CASE r.role # "admin"
        <3>1. ~LastAdmin(c, r.user)
            BY <1>2, <2>4 DEF Allowed
        <3>2. PICK v \in Admins(c) : v # r.user
            BY <3>1, <2>1, AnotherAdmin
        <3>3. Apply(c, r).users[v] = c.users[v]
            BY <3>2, <2>2 DEF Store, Admins
        <3> QED
            BY <3>2, <3>3, <1>a DEF Admins
    <2> QED
        BY <2>3, <2>4
<1>3. CASE r.kind = "users_set_password"
    <2>1. r.user \in Users /\ c.users[r.user] # Nil
        BY <1>3 DEF Allowed, Request
    <2>2. Apply(c, r).users = [c.users EXCEPT ![r.user] = [c.users[r.user] EXCEPT !.password = r.password]]
        BY <1>3 DEF Apply, NewUserRec, Store
    <2>3. [c.users[r.user] EXCEPT !.password = r.password] \in UserRec
        BY <2>1, <1>3 DEF Store, UserRec, Request
    <2>4. Apply(c, r).users[a] # Nil /\ Apply(c, r).users[a].role = "admin"
        BY <1>0, <2>1, <2>2, <2>3, <1>n DEF Store, UserRec
    <2> QED
        BY <2>4, <1>a
<1>4. CASE r.kind = "users_delete"
    <2>1. r.user \in Users /\ c.users[r.user] # Nil /\ ~LastAdmin(c, r.user)
        BY <1>4 DEF Allowed, Request
    <2>2. PICK v \in Admins(c) : v # r.user
        BY <2>1, AnotherAdmin
    <2>3. Apply(c, r).users[v] = c.users[v]
        BY <1>4, <2>2, <2>1 DEF Apply, Store, Admins
    <2> QED
        BY <2>2, <2>3, <1>a DEF Admins
<1>5. CASE r.kind = "change_password"
    <2>1. r.by \in Users /\ c.users[r.by] # Nil
        BY <1>5 DEF Allowed, Request
    <2>2. Apply(c, r).users = [c.users EXCEPT ![r.by] =
              [c.users[r.by] EXCEPT !.password = r.password, !.must_change = FALSE]]
        BY <1>5 DEF Apply, NewUserRec, Store
    <2>3. [c.users[r.by] EXCEPT !.password = r.password, !.must_change = FALSE] \in UserRec
        BY <2>1, <1>5 DEF Store, UserRec, Request
    <2>4. [c.users[r.by] EXCEPT !.password = r.password, !.must_change = FALSE].role
              = c.users[r.by].role
        BY <2>1 DEF Store, UserRec
    <2>5. CASE a = r.by
        BY <2>5, <1>0, <2>2, <2>3, <2>4, <1>a, <1>n DEF Store
    <2>6. CASE a # r.by
        BY <2>6, <1>0, <2>2, <1>a DEF Store
    <2> QED
        BY <2>5, <2>6
<1>6. CASE r.kind \in {"tokens_create", "tokens_delete"}
    <2>1. Apply(c, r).users = c.users
        BY <1>6 DEF Apply, Store
    <2> QED
        BY <2>1, <1>0, <1>a
<1> QED
    BY <1>1, <1>2, <1>3, <1>4, <1>5, <1>6 DEF Kinds

\* The daily stamp changes one token and no account.
LEMMA StampLemma ==
    ASSUME NEW c \in Store, NEW k \in Tokens, NEW day \in 1..MaxDay
    PROVE  Stamp(c, k, day) \in Store /\ Admins(Stamp(c, k, day)) = Admins(c)
BY DayAssumption DEF Stamp, Store, TokenRec, Admins

\* set-password never takes an administrator away.
LEMMA SetPasswordLemma ==
    ASSUME NEW c \in Store, NEW u \in Users, NEW pw \in Passwords
    PROVE  /\ SetPassword(c, u, pw) \in Store
           /\ Admins(c) # {} => Admins(SetPassword(c, u, pw)) # {}
<1> DEFINE rec == [role |-> IF c.users[u] = Nil THEN "admin" ELSE c.users[u].role,
                   password |-> pw, must_change |-> FALSE]
<1>1. rec \in UserRec
    BY DEF Store, UserRec, Roles
<1>2. SetPassword(c, u, pw).users = [c.users EXCEPT ![u] = rec]
    BY DEF SetPassword, Store
<1>3. SetPassword(c, u, pw) \in Store
    BY <1>1 DEF SetPassword, Store
<1>4. ASSUME Admins(c) # {}
      PROVE  Admins(SetPassword(c, u, pw)) # {}
    <2>1. PICK a \in Users : c.users[a] # Nil /\ c.users[a].role = "admin"
        BY <1>4 DEF Admins
    <2>2. rec # Nil /\ (c.users[u] = Nil \/ c.users[u].role = "admin" => rec.role = "admin")
        BY <1>1, NilRecAssumption
    <2>3. /\ SetPassword(c, u, pw).users[a] # Nil
          /\ SetPassword(c, u, pw).users[a].role = "admin"
        BY <1>2, <2>1, <2>2 DEF Store
    <2> QED
        BY <2>3 DEF Admins
<1> QED
    BY <1>3, <1>4

\* The first start makes exactly one administrator.
LEMMA BootstrapLemma ==
    /\ Bootstrap(FirstAdmin, FirstPassword) \in Store
    /\ Admins(Bootstrap(FirstAdmin, FirstPassword)) # {}
<1> DEFINE c == Bootstrap(FirstAdmin, FirstPassword)
           rec == [role |-> "admin", password |-> FirstPassword, must_change |-> TRUE]
<1>1. rec \in UserRec
    BY FirstAssumption DEF UserRec, Roles
<1>2. c \in Store
    BY <1>1 DEF Bootstrap, Store
<1>3. c.users[FirstAdmin] = rec
    BY FirstAssumption DEF Bootstrap
<1>4. rec # Nil
    BY <1>1, NilRecAssumption
<1> QED
    BY <1>2, <1>3, <1>4, FirstAssumption DEF Admins

\* Starting a process completes a store without users and no other.
LEMMA EnsuredLemma ==
    ASSUME NEW c \in Store
    PROVE  Ensured(c) \in Store /\ (Admins(c) # {} => Admins(Ensured(c)) # {})
<1>1. Bootstrap(FirstAdmin, FirstPassword).users \in [Users -> UserRec \cup {Nil}]
    BY BootstrapLemma DEF Store
<1>2. Ensured(c) \in Store
    BY <1>1 DEF Ensured, Store
<1>3. Admins(c) # {} => Ensured(c) = c
    BY DEF Ensured, Admins
<1> QED
    BY <1>2, <1>3

\* A file nobody can read is a store without accounts.
LEMMA UnreadableLemma == Unreadable \in Store
BY DEF Unreadable, Store

----------------------------------------------------------------------------
(* The inductive invariant: every copy of the store that somebody is about *)
(* to write back was read from the file, so it too has an administrator    *)
(* as long as the file has had one.                                        *)

HasAdmin(c) == c \in Store /\ (~unsound => Admins(c) # {})

\* What a save leaves is a store, the intended one when no restore is writing.
LEMMA WrittenLemma ==
    ASSUME TypeOK, NEW c \in Store, NEW f \in Written(c)
    PROVE  f \in Store /\ (restoring = Nil => f = c)
BY UnreadableLemma, BundleAssumption DEF Written, TypeOK

ThreadInv(t) ==
    /\ thr[t].pc # "idle" => thr[t].req \in Requests
    /\ thr[t].pc \in {"stamp", "stamping"} => thr[t].req.by \in Tokens
    /\ thr[t].pc \in {"authed", "loaded"} => thr[t].admit
    /\ thr[t].pc # "idle" /\ thr[t].admit /\ thr[t].req.kind = "change_password"
         => thr[t].req.by \in Users
    /\ thr[t].pc \in {"stamping", "loaded"} => HasAdmin(thr[t].cfg)

CliInv == cli.pc = "loaded" => /\ cli.user \in Users
                               /\ cli.password \in Passwords
                               /\ HasAdmin(cli.cfg)

IInv == TypeOK /\ AdminRemains /\ (\A t \in Threads : ThreadInv(t)) /\ CliInv

LEMMA IInvInit == Init => IInv
<1> SUFFICES ASSUME Init PROVE IInv
    OBVIOUS
<1>1. TypeOK
    <2>1. Idle \in ThreadType /\ CliIdle \in CliType
        BY DEF ThreadType, CliType, Idle, CliIdle
    <2>2. unsound \in BOOLEAN
        BY DEF Init
    <2> QED
        BY <2>1, <2>2, BootstrapLemma, DayAssumption DEF Init, TypeOK
<1>2. AdminRemains
    BY BootstrapLemma DEF Init, AdminRemains
<1>3. (\A t \in Threads : ThreadInv(t)) /\ CliInv
    BY DEF Init, ThreadInv, CliInv, Idle, CliIdle
<1> QED
    BY <1>1, <1>2, <1>3 DEF IInv

LEMMA IInvNext == IInv /\ [Next]_vars => IInv'
<1> SUFFICES ASSUME IInv, [Next]_vars PROVE IInv'
    OBVIOUS
<1> USE DEF IInv
<1>1. ASSUME NEW t \in Threads, NEW r \in Requests, Authenticate(t, r)
      PROVE  IInv'
    <2>1. TypeOK'
        BY <1>1 DEF Authenticate, TypeOK, ThreadType, Permitted, Known, RoleOf, NeedsStamp
    <2>2. AdminRemains' /\ CliInv'
        BY <1>1 DEF Authenticate, AdminRemains, CliInv, HasAdmin
    <2>3. r \in RawRequest
        BY RequestAssumption DEF Request
    <2>4. ASSUME NEW s \in Threads PROVE ThreadInv(s)'
        <3>1. CASE s = t
            BY <1>1, <2>3, <3>1
            DEF Authenticate, ThreadInv, TypeOK, ThreadType, Permitted, NeedsStamp
        <3>2. CASE s # t
            BY <1>1, <3>2 DEF Authenticate, ThreadInv, TypeOK, ThreadType, HasAdmin
        <3> QED
            BY <3>1, <3>2
    <2> QED
        BY <2>1, <2>2, <2>4
<1>2. ASSUME NEW t \in Threads, Load(t)
      PROVE  IInv'
    <2>1. TypeOK'
        <3>1. thr[t] \in ThreadType /\ file \in Store
            BY DEF TypeOK
        <3>2. ASSUME NEW pc \in {"stamping", "loaded"}
              PROVE  [thr[t] EXCEPT !.pc = pc, !.cfg = file] \in ThreadType
            BY <3>1 DEF ThreadType
        <3>3. thr' \in [Threads -> ThreadType]
            BY <1>2, <3>2 DEF Load, TypeOK
        <3> QED
            BY <1>2, <3>3 DEF Load, TypeOK
    <2>2. AdminRemains' /\ CliInv'
        BY <1>2 DEF Load, AdminRemains, CliInv, HasAdmin
    <2>3. ASSUME NEW s \in Threads PROVE ThreadInv(s)'
        BY <1>2 DEF Load, ThreadInv, TypeOK, ThreadType, HasAdmin, AdminRemains
    <2> QED
        BY <2>1, <2>2, <2>3
<1>3. ASSUME NEW t \in Threads, SaveStamp(t)
      PROVE  IInv'
    <2>1. HasAdmin(thr[t].cfg) /\ thr[t].req.by \in Tokens /\ thr[t].req \in Requests
        BY <1>3 DEF SaveStamp, ThreadInv
    <2>s. PICK c \in Store : /\ file' \in Written(c)
                             /\ Admins(c) = Admins(thr[t].cfg)
        BY <1>3, <2>1, StampLemma DEF SaveStamp, HasAdmin, TypeOK
    <2>2. file' \in Store /\ (~unsound' => Admins(file') # {}) /\ (~unsound' => ~unsound)
        BY <1>3, <2>1, <2>s, WrittenLemma DEF SaveStamp, HasAdmin
    <2>3. TypeOK'
        BY <1>3, <2>2 DEF SaveStamp, TypeOK, ThreadType, Idle
    <2>4. AdminRemains' /\ CliInv'
        BY <1>3, <2>2 DEF SaveStamp, AdminRemains, CliInv, HasAdmin
    <2>5. ASSUME NEW s \in Threads PROVE ThreadInv(s)'
        BY <1>3, <2>2 DEF SaveStamp, ThreadInv, TypeOK, ThreadType, Idle, HasAdmin
    <2> QED
        BY <2>3, <2>4, <2>5
<1>4. ASSUME NEW t \in Threads, Save(t)
      PROVE  IInv'
    <2>1. HasAdmin(thr[t].cfg) /\ thr[t].req \in Request
        BY <1>4, RequestAssumption DEF Save, ThreadInv
    <2>2. /\ file' \in Store /\ (~unsound' => Admins(file') # {})
          /\ unsound' \in BOOLEAN /\ (~unsound' => ~unsound)
        <3>1. CASE Allowed(thr[t].cfg, thr[t].req)
            <4> DEFINE c == Apply(thr[t].cfg, thr[t].req)
            <4>1. c \in Store /\ (~unsound => Admins(c) # {})
                BY <1>4, <2>1, <3>1, ApplyType, ApplyKeepsAdmin DEF Save, ThreadInv, HasAdmin
            <4>2. file' \in Written(c) /\ unsound' = (unsound \/ restoring # Nil)
                BY <1>4, <3>1 DEF Save
            <4> HIDE DEF c
            <4> QED
                BY <4>1, <4>2, WrittenLemma DEF TypeOK
        <3>2. CASE ~Allowed(thr[t].cfg, thr[t].req)
            BY <1>4, <3>2 DEF Save, TypeOK, AdminRemains
        <3> QED
            BY <3>1, <3>2
    <2>3. TypeOK'
        BY <1>4, <2>2 DEF Save, TypeOK, ThreadType, Idle
    <2>4. AdminRemains' /\ CliInv'
        BY <1>4, <2>2 DEF Save, AdminRemains, CliInv, HasAdmin
    <2>5. ASSUME NEW s \in Threads PROVE ThreadInv(s)'
        BY <1>4, <2>2 DEF Save, ThreadInv, TypeOK, ThreadType, Idle, HasAdmin
    <2> QED
        BY <2>3, <2>4, <2>5
<1>4b. ASSUME NEW t \in Threads, SaveRaises(t)
      PROVE  IInv'
    <2>1. TypeOK' /\ AdminRemains' /\ CliInv'
        BY <1>4b DEF SaveRaises, TypeOK, ThreadType, Idle, AdminRemains, CliInv, HasAdmin
    <2>2. ASSUME NEW s \in Threads PROVE ThreadInv(s)'
        BY <1>4b DEF SaveRaises, ThreadInv, TypeOK, ThreadType, Idle, HasAdmin
    <2> QED
        BY <2>1, <2>2
<1>5. ASSUME NEW u \in CliUsers, NEW pw \in Passwords, CliLoad(u, pw)
      PROVE  IInv'
    <2>1. HasAdmin(file)' /\ unsound' = unsound
        BY <1>5, EnsuredLemma DEF CliLoad, TypeOK, AdminRemains, HasAdmin
    <2>2. cli' = [pc |-> "loaded", user |-> u, password |-> pw, cfg |-> file']
        BY <1>5 DEF CliLoad
    <2>3. TypeOK'
        BY <1>5, <2>1, <2>2, CliAssumption DEF CliLoad, TypeOK, CliType, HasAdmin
    <2>4. AdminRemains' /\ CliInv'
        BY <2>1, <2>2, CliAssumption DEF AdminRemains, CliInv, HasAdmin
    <2>5. ASSUME NEW s \in Threads PROVE ThreadInv(s)'
        BY <1>5 DEF CliLoad, ThreadInv, HasAdmin
    <2> QED
        BY <2>3, <2>4, <2>5
<1>6. ASSUME NEW u \in CliUsers, CliSave(u)
      PROVE  IInv'
    <2>1. HasAdmin(file)' /\ unsound' = unsound
        BY <1>6, SetPasswordLemma DEF CliSave, CliInv, HasAdmin
    <2>2. TypeOK'
        BY <1>6, <2>1 DEF CliSave, TypeOK, CliType, CliIdle, HasAdmin
    <2>3. AdminRemains' /\ CliInv'
        BY <1>6, <2>1 DEF CliSave, AdminRemains, CliInv, CliIdle, HasAdmin
    <2>4. ASSUME NEW s \in Threads PROVE ThreadInv(s)'
        BY <1>6 DEF CliSave, ThreadInv, HasAdmin
    <2> QED
        BY <2>2, <2>3, <2>4
<1>7. ASSUME NEW b \in Bundles, Restore(b) \/ RestoreBegin(b)
      PROVE  IInv'
    BY <1>7, BundleAssumption
    DEF Restore, RestoreBegin, TypeOK, AdminRemains, ThreadInv, CliInv, HasAdmin
<1>7b. ASSUME NEW b \in Bundles, RestoreEnd(b)
       PROVE  IInv'
    <2>1. b \in Store
        BY BundleAssumption
    <2>2. /\ file' \in Store /\ (~unsound' => Admins(file') # {})
          /\ unsound' \in BOOLEAN /\ (~unsound' => ~unsound)
        <3>1. file \in Store /\ unsound \in BOOLEAN /\ (~unsound => Admins(file) # {})
            BY DEF TypeOK, AdminRemains
        <3>2. CASE file' = b /\ unsound' = (unsound \/ Admins(b) = {})
            BY <2>1, <3>1, <3>2
        <3>3. CASE UNCHANGED <<file, unsound>>
            BY <3>1, <3>3
        <3>4. CASE file' = Unreadable /\ unsound' = TRUE
            BY <3>4, UnreadableLemma
        <3> QED
            BY <1>7b, <3>2, <3>3, <3>4 DEF RestoreEnd
    <2> QED
        BY <1>7b, <2>2 DEF RestoreEnd, TypeOK, AdminRemains, ThreadInv, CliInv, HasAdmin
<1>8. CASE Restart
    <2>1. TypeOK' /\ AdminRemains' /\ CliInv'
        BY <1>8, EnsuredLemma
        DEF Restart, TypeOK, ThreadType, Idle, AdminRemains, CliInv, HasAdmin
    <2>2. ASSUME NEW s \in Threads PROVE ThreadInv(s)'
        BY <1>8 DEF Restart, ThreadInv, Idle
    <2> QED
        BY <2>1, <2>2
<1>9. CASE Midnight
    BY <1>9, DayAssumption DEF Midnight, TypeOK, AdminRemains, ThreadInv, CliInv, HasAdmin
<1>10. CASE UNCHANGED vars
    BY <1>10 DEF vars, TypeOK, AdminRemains, ThreadInv, CliInv, HasAdmin
<1> QED
    BY <1>1, <1>2, <1>3, <1>4, <1>4b, <1>5, <1>6, <1>7, <1>7b, <1>8, <1>9, <1>10 DEF Next

\* Every variable keeps its type, whoever writes the file.
THEOREM TypeCorrect == Spec => []TypeOK
<1>1. IInv => TypeOK
    BY DEF IInv
<1> QED
    BY <1>1, IInvInit, IInvNext, PTL DEF Spec

\* The store keeps an administrator under every interleaving of requests,
\* set-password runs, raising saves and restarts, and through every restore whose
\* contents have one and that no save of the server overlaps, for every set of users.
THEOREM LastAdminStays == Spec => []AdminRemains
<1>1. IInv => AdminRemains
    BY DEF IInv
<1> QED
    BY <1>1, IInvInit, IInvNext, PTL DEF Spec

----------------------------------------------------------------------------
(* Atomicity. With no other writer, the copy a thread holds is the file, so *)
(* saving it applies the request to the latest contents.                    *)

WebOnly == CliUsers = {} /\ Bundles = {}

Fresh ==
    /\ cli.pc = "idle"
    /\ restoring = Nil
    /\ ~unsound
    /\ \A t \in Threads : thr[t].pc \in {"stamping", "loaded"}
                            => lock = t /\ thr[t].cfg = file

LEMMA FreshInit == Init => Fresh
BY DEF Init, Fresh, Idle, CliIdle

LEMMA FreshNext == WebOnly /\ IInv /\ Fresh /\ [Next]_vars => Fresh'
<1> SUFFICES ASSUME WebOnly, IInv, Fresh, [Next]_vars PROVE Fresh'
    OBVIOUS
<1>0. thr \in [Threads -> ThreadType] /\ NoOne \notin Threads
    BY NoOneAssumption DEF IInv, TypeOK
<1>1. ASSUME NEW t \in Threads, NEW r \in Requests, Authenticate(t, r)
      PROVE  Fresh'
    BY <1>0, <1>1 DEF Authenticate, Fresh
<1>2. ASSUME NEW t \in Threads, Load(t)
      PROVE  Fresh'
    BY <1>0, <1>2 DEF Load, Fresh, ThreadType
<1>3. ASSUME NEW t \in Threads, SaveStamp(t)
      PROVE  Fresh'
    BY <1>0, <1>3 DEF SaveStamp, Fresh, ThreadType, Idle
<1>4. ASSUME NEW t \in Threads, Save(t)
      PROVE  Fresh'
    BY <1>0, <1>4 DEF Save, Fresh, Idle
<1>5. ASSUME NEW t \in Threads, SaveRaises(t)
      PROVE  Fresh'
    BY <1>0, <1>5 DEF SaveRaises, Fresh, Idle
<1>7. CASE Restart
    BY <1>7 DEF Restart, Fresh, Idle
<1>8. CASE Midnight \/ UNCHANGED vars
    BY <1>8 DEF Midnight, Fresh, vars
<1> QED
    BY <1>1, <1>2, <1>3, <1>4, <1>5, <1>7, <1>8 DEF Next, WebOnly

\* The rules seen through the instance are the rules themselves.
LEMMA SameRules ==
    /\ \A c, r : A!Allowed(c, r) = Allowed(c, r)
    /\ \A c, r : A!Apply(c, r) = Apply(c, r)
    /\ \A c, k, day : A!Stamp(c, k, day) = Stamp(c, k, day)
    /\ A!Bootstrap(FirstAdmin, FirstPassword) = Bootstrap(FirstAdmin, FirstPassword)
<1>1. \A c, u : A!LastAdmin(c, u) = LastAdmin(c, u)
    BY DEF A!LastAdmin, LastAdmin, A!Admins, Admins, A!Cardinality, Cardinality
<1>2. \A c, r : A!Allowed(c, r) = Allowed(c, r)
    BY <1>1 DEF A!Allowed, Allowed
<1>3. \A c, r : A!NewUserRec(c, r) = NewUserRec(c, r)
    BY DEF A!NewUserRec, NewUserRec
<1>4. \A c, r : A!Apply(c, r) = Apply(c, r)
    BY <1>3 DEF A!Apply, Apply
<1> QED
    BY <1>2, <1>4 DEF A!Stamp, Stamp, A!Bootstrap, Bootstrap

\* Every step of the server is one accepted change, one stamp, or a stutter.
LEMMA StepIsAtomic == IInv /\ Fresh /\ WebOnly /\ [Next]_vars => [A!ANext]_file
<1> SUFFICES ASSUME IInv, Fresh, WebOnly, [Next]_vars PROVE [A!ANext]_file
    OBVIOUS
<1>1. ASSUME NEW t \in Threads, Save(t)
      PROVE  [A!ANext]_file
    <2>1. thr[t].cfg = file /\ thr[t].req \in Requests
        BY <1>1 DEF Save, Fresh, IInv, ThreadInv
    <2>2. CASE Allowed(file, thr[t].req)
        <3>1. A!Change(thr[t].req)
            BY <1>1, <2>1, <2>2, SameRules DEF Save, Written, Fresh, A!Change
        <3> QED
            BY <3>1, <2>1 DEF A!ANext
    <2>3. CASE ~Allowed(file, thr[t].req)
        BY <1>1, <2>1, <2>3 DEF Save
    <2> QED
        BY <2>2, <2>3
<1>2. ASSUME NEW t \in Threads, SaveStamp(t)
      PROVE  [A!ANext]_file
    <2>1. thr[t].cfg = file /\ thr[t].req.by \in Tokens /\ today \in 1..MaxDay
        BY <1>2 DEF SaveStamp, Fresh, IInv, ThreadInv, TypeOK
    <2>2. A!TokenUsed(thr[t].req.by, today)
        BY <1>2, <2>1, SameRules DEF SaveStamp, Written, Fresh, A!TokenUsed
    <2> QED
        BY <2>1, <2>2 DEF A!ANext
<1>3. CASE UNCHANGED file
    BY <1>3
<1>4. CASE Restart
    <2>1. Ensured(file) = file
        BY DEF IInv, AdminRemains, Fresh, Admins, Ensured
    <2> QED
        BY <1>4, <2>1 DEF Restart
<1> QED
    BY <1>1, <1>2, <1>3, <1>4
    DEF Next, WebOnly, Authenticate, Load, SaveRaises, Midnight, vars

\* When nobody runs set-password or a restore, the threaded server implements
\* the store that handles one request at a time.
THEOREM ServerIsAtomic == ASSUME WebOnly PROVE Spec => AtomicStore
<1>1. Init => A!AInit
    BY SameRules DEF Init, A!AInit
<1>2. IInv /\ Fresh /\ [Next]_vars => (IInv /\ Fresh)' /\ [A!ANext]_file
    BY IInvNext, FreshNext, StepIsAtomic
<1>3. Init => IInv /\ Fresh
    BY IInvInit, FreshInit
<1> QED
    BY <1>1, <1>2, <1>3, PTL DEF Spec, AtomicStore, A!ASpec
=============================================================================
