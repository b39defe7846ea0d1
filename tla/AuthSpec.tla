------------------------------ MODULE AuthSpec ------------------------------
(***************************************************************************)
(* What the user store promises its callers: every accepted change takes   *)
(* effect at once and on the latest contents, as if requests ran one after *)
(* the other. AuthStore is shown to implement this when the web server is  *)
(* the only writer.                                                        *)
(***************************************************************************)
EXTENDS AuthRules

CONSTANTS Requests, FirstAdmin, FirstPassword

VARIABLE store

AInit == store = Bootstrap(FirstAdmin, FirstPassword)

Change(r) == Allowed(store, r) /\ store' = Apply(store, r)

TokenUsed(k, day) == store' = Stamp(store, k, day)

ANext == \/ \E r \in Requests : Change(r)
         \/ \E k \in Tokens, day \in 1..MaxDay : TokenUsed(k, day)

ASpec == AInit /\ [][ANext]_store
=============================================================================
