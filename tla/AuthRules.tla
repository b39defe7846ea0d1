----------------------------- MODULE AuthRules -----------------------------
(***************************************************************************)
(* What auth.json holds and what one request may do to it: the rules that  *)
(* nexusdash/core/auth.py applies between load_config and save_config, and *)
(* the record cli.py writes. Passwords are abstract values (a hash matches *)
(* the password it was made from); a legacy bare-string record is the      *)
(* admin record it is read as; the Samba mirror is left out.               *)
(***************************************************************************)
EXTENDS Naturals, FiniteSets

CONSTANTS
    Users,      \* user names
    Tokens,     \* API token ids
    Passwords,
    MaxDay,     \* bound: days (last_used is stamped once a day)
    Nil         \* no such record

ASSUME NilAssumption == Nil \notin Users \cup Tokens /\ Users \cap Tokens = {}
ASSUME DayAssumption == MaxDay \in Nat \ {0}

Roles == {"admin", "readonly"}
UserRec == [role : Roles, password : Passwords, must_change : BOOLEAN]
TokenRec == [role : Roles, last_used : 0..MaxDay]
Store == [users : [Users -> UserRec \cup {Nil}], tokens : [Tokens -> TokenRec \cup {Nil}]]

ASSUME NilRecAssumption == Nil \notin UserRec /\ Nil \notin TokenRec

\* A change that a request asks for. 'by' is the session user or the token the
\* caller presented; fields an operation does not use are Nil.
Kinds == {"users_create", "users_set_role", "users_set_password", "users_delete",
          "change_password", "tokens_create", "tokens_delete"}
RawRequest == [kind : Kinds, by : Users \cup Tokens, user : Users \cup {Nil},
               token : Tokens \cup {Nil}, role : Roles \cup {Nil},
               password : Passwords \cup {Nil}, old : Passwords \cup {Nil}]

\* The routes refuse a request that lacks a field its operation needs.
Request == {r \in RawRequest :
    /\ r.kind \in {"users_create", "users_set_role", "users_set_password", "users_delete"}
         => r.user \in Users
    /\ r.kind \in {"tokens_create", "tokens_delete"} => r.token \in Tokens
    /\ r.kind \in {"users_create", "users_set_role", "tokens_create"} => r.role \in Roles
    /\ r.kind \in {"users_create", "users_set_password", "change_password"}
         => r.password \in Passwords}

----------------------------------------------------------------------------
Admins(c) == {u \in Users : c.users[u] # Nil /\ c.users[u].role = "admin"}

\* A missing record has the least privileged role.
RoleOf(c, who) ==
    IF who \in Users
    THEN IF c.users[who] = Nil THEN "readonly" ELSE c.users[who].role
    ELSE IF c.tokens[who] = Nil THEN "readonly" ELSE c.tokens[who].role

Known(c, who) ==
    \/ who \in Users /\ c.users[who] # Nil
    \/ who \in Tokens /\ c.tokens[who] # Nil

\* require_login: read-only identities change nothing but their own password,
\* and only an interactive session can do that.
Permitted(c, r) ==
    /\ Known(c, r.by)
    /\ IF r.kind = "change_password" THEN r.by \in Users
       ELSE RoleOf(c, r.by) = "admin"

\* Mutant of LastAdmin: administrators are counted wrongly.
NeverLastAdmin(c, u) == Admins(c) = {}

\* The account is the only administrator left.
LastAdmin(c, u) ==
    /\ c.users[u].role = "admin"
    /\ Cardinality(Admins(c)) <= 1

\* The checks each handler makes on what it has just loaded.
Allowed(c, r) ==
    \/ r.kind = "users_create" /\ c.users[r.user] = Nil
    \/ /\ r.kind = "users_set_role"
       /\ c.users[r.user] # Nil
       /\ r.role = "admin" \/ ~LastAdmin(c, r.user)
    \/ r.kind = "users_set_password" /\ c.users[r.user] # Nil
    \/ /\ r.kind = "users_delete"
       /\ c.users[r.user] # Nil
       /\ r.user # r.by
       /\ ~LastAdmin(c, r.user)
    \/ /\ r.kind = "change_password"
       /\ c.users[r.by] # Nil
       /\ c.users[r.by].password = r.old
    \/ r.kind = "tokens_create" /\ c.tokens[r.token] = Nil
    \/ r.kind = "tokens_delete" /\ c.tokens[r.token] # Nil

\* Mutant of NewUserRec: the record of the user is rebuilt without must_change.
UserRecWithoutFlag(c, r) == [role |-> r.role, password |-> r.password]

\* The record the handler stores for the user it is about, or Nil.
NewUserRec(c, r) ==
    CASE r.kind = "users_create" ->
            [role |-> r.role, password |-> r.password, must_change |-> FALSE]
      [] r.kind = "users_set_role" -> [c.users[r.user] EXCEPT !.role = r.role]
      [] r.kind = "users_set_password" -> [c.users[r.user] EXCEPT !.password = r.password]
      [] r.kind = "users_delete" -> Nil
      [] r.kind = "change_password" ->
            [c.users[r.by] EXCEPT !.password = r.password, !.must_change = FALSE]

\* What the handler saves.
Apply(c, r) ==
    CASE r.kind = "tokens_create" ->
            [c EXCEPT !.tokens[r.token] = [role |-> r.role, last_used |-> 0]]
      [] r.kind = "tokens_delete" -> [c EXCEPT !.tokens[r.token] = Nil]
      [] r.kind = "change_password" -> [c EXCEPT !.users[r.by] = NewUserRec(c, r)]
      [] OTHER -> [c EXCEPT !.users[r.user] = NewUserRec(c, r)]

\* The daily last_used stamp of a token that still exists.
Stamp(c, k, day) ==
    IF c.tokens[k] = Nil THEN c ELSE [c EXCEPT !.tokens[k].last_used = day]

\* `app.py set-password`: keep the record and its role, or make an admin.
SetPassword(c, u, pw) ==
    [c EXCEPT !.users[u] =
        [role |-> IF c.users[u] = Nil THEN "admin" ELSE c.users[u].role,
         password |-> pw, must_change |-> FALSE]]

\* The store a first start creates: one administrator who must change the
\* generated password.
Bootstrap(admin, pw) ==
    [users |-> [u \in Users |-> IF u = admin
                  THEN [role |-> "admin", password |-> pw, must_change |-> TRUE]
                  ELSE Nil],
     tokens |-> [k \in Tokens |-> Nil]]

=============================================================================
