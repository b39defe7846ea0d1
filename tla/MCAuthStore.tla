---------------------------- MODULE MCAuthStore ----------------------------
(***************************************************************************)
(* Small instances of AuthStore for TLC: two accounts, one token.          *)
(***************************************************************************)
EXTENDS AuthStore, TLC

CONSTANTS alice, bob, tok, p1, p2

Empty == [kind |-> "", by |-> Nil, user |-> Nil, token |-> Nil, role |-> Nil,
          password |-> Nil, old |-> Nil]
On(kind, by, u) == [Empty EXCEPT !.kind = kind, !.by = by, !.user = u]
OnToken(kind, by, k) == [Empty EXCEPT !.kind = kind, !.by = by, !.token = k]

Roled(rs) == {[r EXCEPT !.role = ro] : r \in rs, ro \in Roles}

AccountRequests ==
    Roled({[On("users_create", by, bob) EXCEPT !.password = p1] : by \in {alice, tok}})
    \cup Roled({On("users_set_role", by, u) : by \in {alice, bob}, u \in Users})
    \cup {On("users_delete", by, u) : by \in {alice, bob, tok}, u \in Users}
PasswordRequests ==
    {[On("users_set_password", alice, bob) EXCEPT !.password = p2]}
    \cup {[On("change_password", u, Nil) EXCEPT !.password = p2, !.old = p1] : u \in Users}
TokenRequests ==
    Roled({OnToken("tokens_create", alice, tok)})
    \cup {OnToken("tokens_delete", by, tok) : by \in {bob, tok}}

AllRequests == AccountRequests \cup PasswordRequests \cup TokenRequests

NoBundles == {}
=============================================================================
