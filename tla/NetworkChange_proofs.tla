------------------------ MODULE NetworkChange_proofs ------------------------
(***************************************************************************)
(* Theorems of NetworkChange: types, the rollback timer of every pending   *)
(* change, the handoff link, and the rollback to a working configuration.  *)
(***************************************************************************)
EXTENDS NetworkChange, FiniteSetTheorems, TLAPS

----------------------------------------------------------------------------
(* Configurations *)

\* An interface always has a spec, the dashboard's or what the OS gives it.
LEMMA EffectiveType ==
    ASSUME NEW c \in Conf, NEW i \in Ifaces
    PROVE  Effective(c, i) \in Spec0
BY NetAssumption DEF Effective, Conf

\* The transitional configuration of an interface change is a configuration.
LEMMA DualType ==
    ASSUME NEW c \in Conf, NEW l \in Conf, NEW i \in Ifaces, NEW s \in Targets
    PROVE  /\ [c EXCEPT ![i] = s] \in Conf
           /\ [c EXCEPT ![i] = UnionSpec(c[i], s, Effective(l, i))] \in Conf
<1>1. s \in Spec0
    BY NetAssumption
<1>2. Effective(l, i) \in Spec0
    BY EffectiveType
<1>3. (IF c[i] = Nil THEN Effective(l, i) ELSE c[i]) \in Spec0
    BY <1>2 DEF Conf
<1>4. UnionSpec(c[i], s, Effective(l, i)) \in Spec0
    BY <1>1, <1>3 DEF UnionSpec, Spec0
<1> QED
    BY <1>1, <1>4 DEF Conf

\* So is the configuration of a bridge.
LEMMA BridgeType ==
    ASSUME NEW c \in Conf, NEW b \in Bridges, NEW ms \in SUBSET (Ifaces \ Bridges),
           NEW s \in Targets
    PROVE  BridgeConf(c, b, ms, s) \in Conf
<1>1. s \in Spec0 /\ Blank \in Spec0
    BY NetAssumption DEF Blank, Spec0
<1> QED
    BY <1>1 DEF BridgeConf, Conf

----------------------------------------------------------------------------
(* Types *)

\* The fields that a record holds in each phase.
Shape ==
    /\ pending.phase # "none" => /\ pending.change \in Change
                                 /\ pending.prev \in Conf
                                 /\ pending.target \in Conf
    /\ lock = "finalizing" => pending.phase = "dual"
    /\ lock \in Undoing => pending.phase # "none"
    /\ \A a \in Admins :
         /\ req[a].pc = "read" => req[a].target \in Conf /\ req[a].dual \in Conf
         /\ req[a].pc = "save" => /\ req[a].target \in Conf
                                  /\ req[a].dual \in Conf
                                  /\ req[a].prev \in Conf
         /\ req[a].pc \in {"resolve", "publish"} => req[a].change \in Change

\* A change that is under way has its number reserved (MaxChanges bounds them).
Reserved == changes + Cardinality(InFlight) <= MaxChanges

TypeInv == TypeOK /\ Shape /\ Reserved

LEMMA InFlightFinite == IsFiniteSet(InFlight)
BY FiniteAssumption, FS_Subset DEF InFlight

LEMMA NoReqType == NoReq \in ReqType
BY BoundsAssumption DEF NoReq, ReqType

LEMMA NoPendingType == NoPending \in PendingType
BY BoundsAssumption DEF NoPending, PendingType, Phase

LEMMA InitType == Init => TypeInv
<1> SUFFICES ASSUME Init PROVE TypeInv
    OBVIOUS
<1>1. TypeOK
    <2>1. netconf \in Conf
        BY DEF Init, Conf
    <2>2. changes \in 0..MaxChanges /\ faults \in 0..MaxFaults
        BY BoundsAssumption DEF Init
    <2>3. req \in [Admins -> ReqType] /\ pending \in PendingType
        BY NoReqType, NoPendingType DEF Init
    <2> QED
        BY <2>1, <2>2, <2>3 DEF Init, TypeOK
<1>2. Shape
    BY DEF Init, Shape, NoPending, NoReq, Undoing
<1>3. Reserved
    <2>1. InFlight = {}
        BY DEF Init, InFlight, NoReq
    <2> QED
        BY <2>1, FS_EmptySet, BoundsAssumption DEF Init, Reserved
<1> QED
    BY <1>1, <1>2, <1>3 DEF TypeInv

\* Whatever the helper does with a configuration, the files stay configurations.
LEMMA HelperType ==
    ASSUME TypeOK, NEW c \in Conf, NEW rc, Helper(c, rc)
    PROVE  managed' \in Conf /\ live' \in Conf
BY DEF TypeOK, Helper

\* A request that only changes its own record, staying or not staying in flight.
LEMMA SameFlight ==
    ASSUME InFlight' \subseteq InFlight, changes' = changes, TypeOK, Reserved
    PROVE  Reserved'
<1>1. Cardinality(InFlight') <= Cardinality(InFlight)
    BY InFlightFinite, FS_Subset
<1>2. /\ Cardinality(InFlight) \in Nat
      /\ Cardinality(InFlight') \in Nat
    BY InFlightFinite, FS_Subset, FS_CardinalityType
<1> QED
    BY <1>1, <1>2, BoundsAssumption DEF Reserved, TypeOK

LEMMA ReadReqType ==
    ASSUME NEW base \in (Conf \X Conf) \cup {Nil}, NEW target \in Conf, NEW dual \in Conf,
           NEW kind \in {"interface", "bridge"}
    PROVE  [pc |-> "read", base |-> base, target |-> target, dual |-> dual, prev |-> Nil,
            kind |-> kind, fresh |-> FALSE, change |-> 0] \in ReqType
<1>1. 0 \in 0..MaxChanges
    BY BoundsAssumption
<1> QED
    BY <1>1, Zenon DEF ReqType

LEMMA ReadTypes ==
    ASSUME TypeInv, NEW a \in Admins, NEW target \in Conf, NEW dual \in Conf,
           NEW kind \in {"interface", "bridge"}, Read(a, target, dual, kind)
    PROVE  TypeInv'
<1> USE DEF TypeInv, netVars, history, Undoing
<1> DEFINE r == [pc |-> "read", base |-> <<netconf, live>>, target |-> target, dual |-> dual,
                 prev |-> Nil, kind |-> kind, fresh |-> FALSE, change |-> 0]
<1>1. r \in ReqType /\ r.pc = "read" /\ r.target \in Conf /\ r.dual \in Conf
    <2>1. netconf \in Conf /\ live \in Conf
        BY DEF TypeOK
    <2>2. <<netconf, live>> \in (Conf \X Conf) \cup {Nil}
        BY <2>1
    <2>3. r \in ReqType
        BY <2>2, ReadReqType
    <2> QED
        BY <2>3
<1>2. req' = [req EXCEPT ![a] = r]
    BY DEF Read
<1>3. TypeOK'
    BY <1>1, <1>2 DEF Read, TypeOK
<1>4. Shape'
    BY <1>1, <1>2 DEF Read, TypeOK, Shape
<1>5. Reserved'
    <2>1. a \notin InFlight /\ InFlight' = InFlight \cup {a}
        BY <1>1, <1>2 DEF Read, InFlight, TypeOK
    <2>2. Cardinality(InFlight') = Cardinality(InFlight) + 1
        BY <2>1, InFlightFinite, FS_AddElement
    <2>3. Cardinality(InFlight) \in Nat
        BY InFlightFinite, FS_CardinalityType
    <2> QED
        BY <2>2, <2>3, BoundsAssumption DEF Read, Reserved, TypeOK
<1> QED
    BY <1>3, <1>4, <1>5

LEMMA ApplyHelperTypes ==
    ASSUME TypeInv, NEW a \in Admins, ApplyHelper(a)
    PROVE  TypeInv'
<1> USE DEF TypeInv, netVars, history, Undoing
<1>1. PICK rc \in Outcomes :
        /\ Helper(req[a].dual, rc)
        /\ IF rc = "ok"
           THEN /\ lock' = "applying"
                /\ req' = [req EXCEPT ![a].pc = "save", ![a].prev = netconf,
                                        ![a].fresh = (req[a].base = <<netconf, live>>)]
           ELSE /\ req' = [req EXCEPT ![a] = NoReq]
                /\ UNCHANGED lock
    BY DEF ApplyHelper
<1>2. /\ req[a].pc = "read"
      /\ lock = "free"
      /\ UNCHANGED <<netconf, pending, armed, fired, handoffs, changes, faults, history>>
    BY DEF ApplyHelper
<1>3. req[a] \in ReqType /\ req[a].dual \in Conf /\ req[a].target \in Conf
    BY <1>2 DEF TypeOK, Shape
<1>4. managed' \in Conf /\ live' \in Conf
    BY <1>1, <1>3, HelperType
<1>5. PICK r \in ReqType :
        /\ req' = [req EXCEPT ![a] = r]
        /\ r.pc \in {"save", "idle"}
        /\ r.pc = "save" => r.target \in Conf /\ r.dual \in Conf /\ r.prev \in Conf
    <2>1. CASE rc = "ok"
        <3> DEFINE r == [req[a] EXCEPT !.pc = "save", !.prev = netconf,
                                       !.fresh = (req[a].base = <<netconf, live>>)]
        <3>1. r \in ReqType /\ r.pc = "save" /\ r.target \in Conf
              /\ r.dual \in Conf /\ r.prev \in Conf
            BY <1>3 DEF ReqType, TypeOK
        <3>2. req' = [req EXCEPT ![a] = r]
            BY <1>1, <1>3, <2>1 DEF TypeOK
        <3> QED
            BY <3>1, <3>2
    <2>2. CASE rc # "ok"
        BY <1>1, <2>2, NoReqType DEF NoReq
    <2> QED
        BY <2>1, <2>2
<1>6. TypeOK'
    BY <1>1, <1>2, <1>4, <1>5 DEF TypeOK
<1>7. Shape'
    BY <1>1, <1>2, <1>5 DEF Shape, TypeOK
<1>8. Reserved'
    <2>1. InFlight' \subseteq InFlight
        BY <1>2, <1>5 DEF InFlight, TypeOK
    <2> QED
        BY <1>2, <2>1, SameFlight
<1> QED
    BY <1>6, <1>7, <1>8

LEMMA ApplyCommitTypes ==
    ASSUME TypeInv, NEW a \in Admins, ApplyCommit(a)
    PROVE  TypeInv'
<1> USE DEF TypeInv, netVars, history, Undoing
<1> DEFINE k == changes + 1
<1> DEFINE r == [NoReq EXCEPT !.pc = "resolve", !.change = k, !.target = req[a].target]
<1>1. req[a] \in ReqType /\ req[a].dual \in Conf /\ req[a].target \in Conf /\ req[a].prev \in Conf
    BY DEF ApplyCommit, TypeOK, Shape
<1>2. /\ a \in InFlight
      /\ Cardinality(InFlight \ {a}) = Cardinality(InFlight) - 1
      /\ Cardinality(InFlight) \in Nat
      /\ Cardinality(InFlight \ {a}) \in Nat
    <2>1. a \in InFlight
        BY DEF ApplyCommit, InFlight
    <2> QED
        BY <2>1, InFlightFinite, FS_RemoveElement, FS_CardinalityType
<1>3. k \in Change /\ k \in 0..MaxChanges /\ changes' = k
    BY <1>2, BoundsAssumption DEF ApplyCommit, Reserved, Change, TypeOK
<1>4. r \in ReqType /\ r.pc = "resolve" /\ r.change = k
    BY <1>1, <1>3, BoundsAssumption DEF NoReq, ReqType
<1>5. req' = [req EXCEPT ![a] = r]
    BY DEF ApplyCommit
<1>6. /\ pending' \in PendingType
      /\ pending'.phase = "dual" /\ pending'.change = k
      /\ pending'.prev \in Conf /\ pending'.target \in Conf
    BY <1>1, <1>3, BoundsAssumption DEF ApplyCommit, PendingType, Phase, ReqType
<1>7. <<k, "dual">> \in Token
    BY <1>3 DEF Token
<1>8. TypeOK'
    BY <1>1, <1>3, <1>4, <1>5, <1>6, <1>7 DEF ApplyCommit, TypeOK
<1>9. Shape'
    BY <1>3, <1>4, <1>5, <1>6 DEF ApplyCommit, TypeOK, Shape
<1>10. Reserved'
    <2>1. InFlight' = InFlight \ {a}
        BY <1>4, <1>5 DEF InFlight, TypeOK
    <2> QED
        BY <1>2, <1>3, <2>1, BoundsAssumption DEF Reserved, TypeOK
<1> QED
    BY <1>8, <1>9, <1>10

LEMMA MintTypes ==
    ASSUME TypeInv, NEW a \in Admins, Mint(a)
    PROVE  TypeInv'
<1> USE DEF TypeInv, netVars, history, Undoing
<1>1. req[a].pc = "resolve" /\ req[a] \in ReqType /\ req[a].change \in Change
    BY DEF Mint, TypeOK, Shape
<1>2. PICK r \in ReqType : /\ req' = [req EXCEPT ![a] = r]
                           /\ r.pc \in {"idle", "publish"}
                           /\ r.change \in Change \/ r.pc = "idle"
    <2>1. CASE req' = [req EXCEPT ![a].pc = "publish"]
        <3>1. [req[a] EXCEPT !.pc = "publish"] \in ReqType
            BY <1>1 DEF ReqType
        <3> QED
            BY <1>1, <2>1, <3>1 DEF TypeOK, ReqType
    <2>2. CASE req' = [req EXCEPT ![a] = NoReq]
        BY <2>2, NoReqType DEF NoReq
    <2> QED
        BY <2>1, <2>2 DEF Mint
<1>3. handoffs' \subseteq Change
    BY <1>1 DEF Mint, TypeOK
<1>4. TypeOK'
    BY <1>2, <1>3 DEF Mint, TypeOK
<1>5. Shape'
    BY <1>2 DEF Mint, Shape, TypeOK
<1>6. InFlight' \subseteq InFlight /\ changes' = changes
    BY <1>2 DEF Mint, InFlight, TypeOK
<1> QED
    BY <1>4, <1>5, <1>6, SameFlight

LEMMA PublishTypes ==
    ASSUME TypeInv, NEW a \in Admins, Publish(a)
    PROVE  TypeInv'
<1> USE DEF TypeInv, netVars, history, Undoing
<1>1. req[a] \in ReqType /\ req[a].change \in 0..MaxChanges
    BY DEF TypeOK, ReqType
<1>2. /\ pending' \in PendingType
      /\ \A f \in {"phase", "change", "prev", "target"} : pending'[f] = pending[f]
    BY <1>1 DEF Publish, TypeOK, PendingType
<1>3. TypeOK'
    BY <1>2, NoReqType DEF Publish, TypeOK
<1>4. Shape'
    BY <1>2 DEF Publish, Shape, TypeOK, NoReq
<1>5. InFlight' \subseteq InFlight /\ changes' = changes
    BY DEF Publish, InFlight, TypeOK, NoReq
<1> QED
    BY <1>3, <1>4, <1>5, SameFlight

LEMMA FinalizeHelperTypes ==
    ASSUME TypeInv, NEW k, FinalizeHelper(k)
    PROVE  TypeInv'
<1> USE DEF TypeInv, netVars, history, Undoing
<1>1. pending.phase = "dual" /\ pending.target \in Conf
    BY DEF FinalizeHelper, Shape
<1>2. managed' \in Conf /\ live' \in Conf
    BY <1>1, HelperType DEF FinalizeHelper
<1>3. lock' \in {"finalizing", "free"}
    BY DEF FinalizeHelper
<1>4. TypeOK'
    BY <1>2, <1>3 DEF FinalizeHelper, TypeOK
<1>5. Shape'
    BY <1>1, <1>3 DEF FinalizeHelper, Shape
<1>6. InFlight' \subseteq InFlight /\ changes' = changes
    BY DEF FinalizeHelper, InFlight
<1> QED
    BY <1>4, <1>5, <1>6, SameFlight

LEMMA FinalizeCommitTypes ==
    ASSUME TypeInv, FinalizeCommit
    PROVE  TypeInv'
<1> USE DEF TypeInv, netVars, history, Undoing
<1>1. /\ pending.phase = "dual" /\ pending.change \in Change
      /\ pending.prev \in Conf /\ pending.target \in Conf
    BY DEF FinalizeCommit, Shape
<1>2. /\ pending' \in PendingType /\ pending'.phase = "finalizing"
      /\ \A f \in {"change", "prev", "target"} : pending'[f] = pending[f]
    BY DEF FinalizeCommit, TypeOK, PendingType, Phase
<1>3. <<pending.change, "finalizing">> \in Token
    BY <1>1 DEF Token
<1>4. TypeOK'
    BY <1>1, <1>2, <1>3 DEF FinalizeCommit, TypeOK
<1>5. Shape'
    BY <1>1, <1>2 DEF FinalizeCommit, Shape
<1>6. InFlight' \subseteq InFlight /\ changes' = changes
    BY DEF FinalizeCommit, InFlight
<1> QED
    BY <1>4, <1>5, <1>6, SameFlight

LEMMA ConfirmTypes ==
    ASSUME TypeInv, NEW k, Confirm(k)
    PROVE  TypeInv'
<1> USE DEF TypeInv, netVars, history, Undoing
<1>1. pending.target \in Conf
    BY DEF Confirm, Shape
<1>2. TypeOK'
    BY <1>1, NoPendingType DEF Confirm, TypeOK, ClearTimer
<1>3. Shape'
    BY DEF Confirm, Shape, NoPending
<1>4. InFlight' \subseteq InFlight /\ changes' = changes
    BY DEF Confirm, InFlight
<1> QED
    BY <1>2, <1>3, <1>4, SameFlight

LEMMA RevertHelperTypes ==
    ASSUME TypeInv, RevertHelper
    PROVE  TypeInv'
<1> USE DEF TypeInv, netVars, history, Undoing
<1>1. pending.prev \in Conf
    BY DEF RevertHelper, Shape
<1>2. managed' \in Conf /\ live' \in Conf
    BY <1>1, HelperType DEF RevertHelper, RollbackHelper
<1>3. TypeOK'
    BY <1>2 DEF RevertHelper, RollbackHelper, TypeOK
<1>4. Shape'
    BY DEF RevertHelper, RollbackHelper, Shape
<1>5. InFlight' \subseteq InFlight /\ changes' = changes
    BY DEF RevertHelper, InFlight
<1> QED
    BY <1>3, <1>4, <1>5, SameFlight

LEMMA TimerTypes ==
    ASSUME TypeInv, NEW t \in Token, TimerFires(t) \/ TimeoutRevert(t)
    PROVE  TypeInv'
<1> USE DEF TypeInv, netVars, history, Undoing
<1>1. CASE TimerFires(t)
    <2>1. TypeOK'
        BY <1>1 DEF TimerFires, TypeOK
    <2>2. Shape'
        BY <1>1 DEF TimerFires, Shape
    <2>3. InFlight' \subseteq InFlight /\ changes' = changes
        BY <1>1 DEF TimerFires, InFlight
    <2> QED
        BY <2>1, <2>2, <2>3, SameFlight
<1>2. CASE TimeoutRevert(t)
    <2>1. PendingToken = t => pending.phase # "none" /\ pending.prev \in Conf
        BY DEF Token, PendingToken, Shape
    <2>2. managed' \in Conf /\ live' \in Conf
        <3>1. CASE PendingToken = t
            BY <1>2, <2>1, <3>1, HelperType DEF TimeoutRevert, RollbackHelper
        <3>2. CASE PendingToken # t
            BY <1>2, <3>2 DEF TimeoutRevert, TypeOK
        <3> QED
            BY <3>1, <3>2
    <2>3. TypeOK'
        BY <1>2, <2>2 DEF TimeoutRevert, RollbackHelper, TypeOK
    <2>4. Shape'
        BY <1>2, <2>1 DEF TimeoutRevert, RollbackHelper, Shape
    <2>5. InFlight' \subseteq InFlight /\ changes' = changes
        BY <1>2 DEF TimeoutRevert, InFlight
    <2> QED
        BY <2>3, <2>4, <2>5, SameFlight
<1> QED
    BY <1>1, <1>2

LEMMA RollbackCommitTypes ==
    ASSUME TypeInv, RollbackCommit
    PROVE  TypeInv'
<1> USE DEF TypeInv, netVars, history, Undoing
<1>1. pending.prev \in Conf
    BY DEF RollbackCommit, Shape
<1>2. TypeOK'
    BY <1>1, NoPendingType DEF RollbackCommit, TypeOK, ClearTimer
<1>3. Shape'
    BY DEF RollbackCommit, Shape, NoPending
<1>4. InFlight' \subseteq InFlight /\ changes' = changes
    BY DEF RollbackCommit, InFlight
<1> QED
    BY <1>2, <1>3, <1>4, SameFlight

LEMMA HandoffTypes ==
    ASSUME TypeInv, NEW k \in Change, ConsumeHandoff(k) \/ HandoffExpires(k)
    PROVE  TypeInv'
<1> USE DEF TypeInv, netVars, history, Undoing
<1>1. TypeOK'
    BY DEF ConsumeHandoff, HandoffExpires, TypeOK
<1>2. Shape'
    BY DEF ConsumeHandoff, HandoffExpires, Shape
<1>3. InFlight' \subseteq InFlight /\ changes' = changes
    BY DEF ConsumeHandoff, HandoffExpires, InFlight
<1> QED
    BY <1>1, <1>2, <1>3, SameFlight

LEMMA CrashTypes ==
    ASSUME TypeInv, Crash
    PROVE  TypeInv'
<1> USE DEF TypeInv, netVars, history, Undoing
<1>1. TypeOK'
    BY NoReqType, NoPendingType, BoundsAssumption DEF Crash, TypeOK
<1>2. Shape'
    BY DEF Crash, Shape, NoReq, NoPending
<1>3. InFlight' \subseteq InFlight /\ changes' = changes
    BY DEF Crash, InFlight, NoReq
<1> QED
    BY <1>1, <1>2, <1>3, SameFlight

LEMMA SaveRaisesTypes ==
    ASSUME TypeInv, SaveRaises
    PROVE  TypeInv'
<1> USE DEF TypeInv, netVars, history, Undoing
<1>1. PendingToken \in Token \/ lock # "expiring"
    BY DEF SaveRaises, Shape, PendingToken, Token, TypeOK, PendingType, Phase
<1>2. /\ req' \in [Admins -> ReqType]
      /\ \A a \in Admins : req'[a] = req[a] \/ req'[a] = NoReq
    BY NoReqType DEF SaveRaises, TypeOK
<1>3. TypeOK'
    BY <1>1, <1>2, BoundsAssumption DEF SaveRaises, TypeOK
<1>4. Shape'
    BY <1>2 DEF SaveRaises, Shape, NoReq
<1>5. InFlight' \subseteq InFlight /\ changes' = changes
    BY <1>2 DEF SaveRaises, InFlight, NoReq
<1> QED
    BY <1>3, <1>4, <1>5, SameFlight

LEMMA StepType == TypeInv /\ [Next]_vars => TypeInv'
<1> SUFFICES ASSUME TypeInv, [Next]_vars PROVE TypeInv'
    OBVIOUS
<1>1. ASSUME NEW a \in Admins, NEW s \in Targets, NEW i \in Ifaces, ReadInterface(a, i, s)
      PROVE  TypeInv'
    <2>1. netconf \in Conf /\ live \in Conf
        BY DEF TypeInv, TypeOK
    <2> QED
        BY <1>1, <2>1, DualType, ReadTypes DEF ReadInterface
<1>2. ASSUME NEW a \in Admins, NEW s \in Targets, NEW b \in Bridges,
             NEW ms \in SUBSET (Ifaces \ Bridges), ReadBridge(a, b, ms, s)
      PROVE  TypeInv'
    <2>1. netconf \in Conf
        BY DEF TypeInv, TypeOK
    <2> QED
        BY <1>2, <2>1, BridgeType, ReadTypes DEF ReadBridge
<1>3. ASSUME NEW a \in Admins, Request(a)
      PROVE  TypeInv'
    BY <1>3, ApplyHelperTypes, ApplyCommitTypes, MintTypes, PublishTypes DEF Request
<1>4. ASSUME NEW k \in Change, FinalizeHelper(k) \/ Confirm(k)
      PROVE  TypeInv'
    BY <1>4, FinalizeHelperTypes, ConfirmTypes
<1>5. CASE FinalizeCommit
    BY <1>5, FinalizeCommitTypes
<1>6. CASE RevertHelper
    BY <1>6, RevertHelperTypes
<1>7. CASE RollbackCommit
    BY <1>7, RollbackCommitTypes
<1>8. ASSUME NEW t \in Token, TimerFires(t) \/ TimeoutRevert(t)
      PROVE  TypeInv'
    BY <1>8, TimerTypes
<1>9. ASSUME NEW k \in Change, ConsumeHandoff(k) \/ HandoffExpires(k)
      PROVE  TypeInv'
    BY <1>9, HandoffTypes
<1>10. CASE Crash
    BY <1>10, CrashTypes
<1>11. CASE SaveRaises
    BY <1>11, SaveRaisesTypes
<1>12. CASE UNCHANGED vars
    BY <1>12 DEF vars, TypeInv, TypeOK, Shape, Reserved, InFlight
<1> QED
    BY <1>1, <1>2, <1>3, <1>4, <1>5, <1>6, <1>7, <1>8, <1>9, <1>10, <1>11, <1>12 DEF Next

\* Every variable keeps its type, for any number of requests, interfaces and
\* changes and under any failure of the root helper and of the saves (nexusdash/modules/network.py).
THEOREM TypeCorrect == Spec => []TypeOK
<1>1. TypeInv => TypeOK
    BY DEF TypeInv
<1> QED
    BY <1>1, InitType, StepType, PTL DEF Spec

----------------------------------------------------------------------------
(* The rollback timer. TypeInv, its strengthening, gives the record its     *)
(* shape; the two timer invariants are then inductive together.             *)

TimerInv == TimerGuards /\ NoStrayTimer

LEMMA InitTimer == Init => TimerInv
BY DEF Init, TimerInv, TimerGuards, NoStrayTimer, NoPending

LEMMA StepTimer == TypeInv /\ TimerInv /\ [Next]_vars => TimerInv'
<1> SUFFICES ASSUME TypeInv, TimerInv, [Next]_vars PROVE TimerInv'
    OBVIOUS
<1> USE DEF TimerInv, TimerGuards, NoStrayTimer, PendingToken, netVars, history
<1>0. pending \in PendingType
    BY DEF TypeInv, TypeOK
<1>1. ASSUME UNCHANGED <<pending, armed, fired>>, unsaved \subseteq unsaved',
             lock # "expiring" \/ UNCHANGED lock
      PROVE  TimerInv'
    BY <1>1
<1>2. ASSUME NEW a \in Admins, NEW target, NEW dual, NEW kind, Read(a, target, dual, kind)
      PROVE  TimerInv'
    BY <1>1, <1>2 DEF Read
<1>3. ASSUME NEW a \in Admins, Request(a)
      PROVE  TimerInv'
    <2>1. CASE ApplyHelper(a)
        BY <1>1, <2>1 DEF ApplyHelper
    <2>2. CASE ApplyCommit(a)
        <3>1. pending'.phase = "dual" /\ pending'.change = changes + 1
            BY <2>2 DEF ApplyCommit
        <3>2. armed' = {<<changes + 1, "dual">>}
            BY <2>2 DEF ApplyCommit
        <3> QED
            BY <3>1, <3>2
    <2>3. CASE Mint(a)
        BY <1>1, <2>3 DEF Mint
    <2>4. CASE Publish(a)
        <3>1. pending'.phase = pending.phase /\ pending'.change = pending.change
            BY <1>0, <2>4 DEF Publish, PendingType
        <3> QED
            BY <2>4, <3>1 DEF Publish
    <2> QED
        BY <1>3, <2>1, <2>2, <2>3, <2>4 DEF Request
<1>4. ASSUME NEW k \in Change, FinalizeHelper(k)
      PROVE  TimerInv'
    BY <1>1, <1>4 DEF FinalizeHelper
<1>5. CASE FinalizeCommit
    <2>1. pending'.phase = "finalizing" /\ pending'.change = pending.change
        BY <1>0, <1>5 DEF FinalizeCommit, PendingType
    <2>2. armed' = {<<pending.change, "finalizing">>}
        BY <1>5 DEF FinalizeCommit
    <2> QED
        BY <2>1, <2>2
<1>6. ASSUME armed' = armed \ {PendingToken}, pending' = NoPending
      PROVE  TimerInv'
    <2>1. armed' = {}
        BY <1>6
    <2> QED
        BY <1>6, <2>1 DEF NoPending
<1>7. ASSUME NEW k \in Change, Confirm(k)
      PROVE  TimerInv'
    BY <1>6, <1>7 DEF Confirm, ClearTimer
<1>8. CASE RevertHelper
    BY <1>1, <1>8 DEF RevertHelper
<1>9. CASE RollbackCommit
    BY <1>6, <1>9 DEF RollbackCommit, ClearTimer
<1>10. ASSUME NEW t \in Token, TimerFires(t)
       PROVE  TimerInv'
    BY <1>10 DEF TimerFires
<1>11. ASSUME NEW t \in Token, TimeoutRevert(t)
       PROVE  TimerInv'
    BY <1>11 DEF TimeoutRevert, RollbackHelper
<1>12. ASSUME NEW k \in Change, ConsumeHandoff(k) \/ HandoffExpires(k)
       PROVE  TimerInv'
    BY <1>1, <1>12 DEF ConsumeHandoff, HandoffExpires
<1>13. CASE Crash
    BY <1>13 DEF Crash, NoPending
<1>14. CASE SaveRaises
    BY <1>1, <1>14 DEF SaveRaises
<1>15. CASE UNCHANGED vars
    BY <1>1, <1>15 DEF vars
<1> QED
    BY <1>2, <1>3, <1>4, <1>5, <1>7, <1>8, <1>9, <1>10, <1>11, <1>12, <1>13, <1>14, <1>15
       DEF Next, ReadInterface, ReadBridge

\* A pending change always has its rollback timer armed, its callback waiting or
\* its rollback running, whatever else fails: of _net_apply, network_finalize and
\* _net_timeout_revert only the last can leave a change that nothing would undo, when
\* its own save raises.
THEOREM PendingIsGuarded == Spec => []TimerGuards
<1>1. TimerInv => TimerGuards
    BY DEF TimerInv
<1> QED
    BY <1>1, InitType, StepType, InitTimer, StepTimer, PTL DEF Spec

\* Only the pending change has a timer armed: every way a change ends cancels
\* its timer (_net_clear_timer).
THEOREM NoTimerLeft == Spec => []NoStrayTimer
<1>1. TimerInv => NoStrayTimer
    BY DEF TimerInv
<1> QED
    BY <1>1, InitType, StepType, InitTimer, StepTimer, PTL DEF Spec

----------------------------------------------------------------------------
(* The handoff secret *)

\* A secret that can still be used has not been used: the one stored, those of
\* requests about to store one, and those of changes to come.
OnceInv ==
    /\ \A k \in Change : opened[k] <= 1
    /\ \A k \in Change : k > changes => opened[k] = 0
    /\ \A k \in handoffs : k <= changes /\ opened[k] = 0
    /\ \A a \in Admins : req[a].pc = "resolve" =>
         /\ req[a].change <= changes
         /\ req[a].change \notin handoffs
         /\ opened[req[a].change] = 0
         /\ \A b \in Admins \ {a} : req[b].pc = "resolve" => req[b].change # req[a].change

LEMMA InitOnce == Init => OnceInv
BY DEF Init, OnceInv, NoReq

LEMMA StepOnce == TypeInv /\ OnceInv /\ [Next]_vars => OnceInv'
<1> SUFFICES ASSUME TypeInv, OnceInv, [Next]_vars PROVE OnceInv'
    OBVIOUS
<1> USE DEF OnceInv, netVars, history
<1>0. /\ req \in [Admins -> ReqType]
      /\ opened \in [Change -> Nat]
      /\ handoffs \subseteq Change
      /\ changes \in Nat
      /\ \A a \in Admins : req[a].pc \in {"resolve", "publish"} => req[a].change \in Change
      /\ Change \subseteq Nat
    BY BoundsAssumption DEF TypeInv, TypeOK, Shape, Change
\* A step that mints nothing, opens nothing and resolves nothing new.
<1>1. ASSUME UNCHANGED <<opened, changes>>, handoffs' \subseteq handoffs,
             \A a \in Admins : req'[a].pc = "resolve" => UNCHANGED req[a]
      PROVE  OnceInv'
    BY <1>0, <1>1
<1>2. ASSUME NEW a \in Admins, NEW target, NEW dual, NEW kind, Read(a, target, dual, kind)
      PROVE  OnceInv'
    <2>1. \A b \in Admins : req'[b].pc = "resolve" => UNCHANGED req[b]
        BY <1>0, <1>2 DEF Read
    <2> QED
        BY <1>1, <1>2, <2>1 DEF Read
<1>3. ASSUME NEW a \in Admins, ApplyHelper(a)
      PROVE  OnceInv'
    <2>1. \A b \in Admins : req'[b].pc = "resolve" => UNCHANGED req[b]
        BY <1>0, <1>3 DEF ApplyHelper, NoReq, ReqType
    <2> QED
        BY <1>1, <1>3, <2>1 DEF ApplyHelper
<1>4. ASSUME NEW a \in Admins, ApplyCommit(a)
      PROVE  OnceInv'
    <2>0. changes' \in 0..MaxChanges
        BY <1>4, ApplyCommitTypes DEF TypeInv, TypeOK
    <2>1. changes' = changes + 1 /\ changes' \in Change
        BY <1>0, <1>4, <2>0, BoundsAssumption DEF ApplyCommit, Change
    <2>2. req'[a].pc = "resolve" /\ req'[a].change = changes + 1
        BY <1>0, <1>4 DEF ApplyCommit, NoReq
    <2>3. \A b \in Admins \ {a} : UNCHANGED req[b]
        BY <1>0, <1>4 DEF ApplyCommit
    <2>4. UNCHANGED <<handoffs, opened>>
        BY <1>4 DEF ApplyCommit
    <2>5. \A k \in Change : opened'[k] <= 1 /\ (k > changes' => opened'[k] = 0)
        BY <1>0, <2>1, <2>4
    <2>6. \A k \in handoffs' : k <= changes' /\ opened'[k] = 0
        BY <1>0, <2>1, <2>4
    <2>7. changes + 1 \notin handoffs /\ opened[changes + 1] = 0
        BY <1>0, <2>1
    <2>8. ASSUME NEW b \in Admins, req'[b].pc = "resolve"
          PROVE  /\ req'[b].change <= changes'
                 /\ req'[b].change \notin handoffs'
                 /\ opened'[req'[b].change] = 0
                 /\ b # a => req'[b].change <= changes
        <3>1. CASE b = a
            BY <1>0, <2>1, <2>2, <2>4, <2>7, <3>1
        <3>2. CASE b # a
            <4>1. req[b].pc = "resolve" /\ req'[b].change = req[b].change
                BY <2>3, <2>8, <3>2
            <4>2. /\ req[b].change <= changes /\ req[b].change \in Change
                  /\ req[b].change \notin handoffs
                  /\ opened[req[b].change] = 0
                BY <1>0, <4>1
            <4>3. req[b].change \in Nat /\ changes \in Nat
                BY <1>0, <4>2
            <4>4. req[b].change <= changes + 1
                <5> HIDE DEF OnceInv
                <5> QED
                    BY <4>2, <4>3
            <4> QED
                BY <2>1, <2>4, <4>1, <4>2, <4>4
        <3> QED
            BY <3>1, <3>2
    <2>9. ASSUME NEW b \in Admins, NEW d \in Admins \ {b},
                 req'[b].pc = "resolve", req'[d].pc = "resolve"
          PROVE  req'[d].change # req'[b].change
        BY <1>0, <2>1, <2>2, <2>3, <2>8, <2>9
    <2> QED
        BY <2>5, <2>6, <2>8, <2>9
<1>5. ASSUME NEW a \in Admins, Mint(a)
      PROVE  OnceInv'
    <2>1. CASE handoffs' = {req[a].change} /\ req' = [req EXCEPT ![a].pc = "publish"]
        <3>1. req[a].pc = "resolve" /\ req[a].change \in Change /\ UNCHANGED <<opened, changes>>
            BY <1>0, <1>5 DEF Mint
        <3>2. req'[a].pc # "resolve" /\ \A b \in Admins \ {a} : UNCHANGED req[b]
            BY <1>0, <2>1 DEF ReqType
        <3> QED
            BY <1>0, <2>1, <3>1, <3>2
    <2>2. CASE UNCHANGED handoffs /\ req' = [req EXCEPT ![a] = NoReq]
        <3>1. \A b \in Admins : req'[b].pc = "resolve" => UNCHANGED req[b]
            BY <1>0, <2>2 DEF NoReq
        <3> QED
            BY <1>1, <1>5, <2>2, <3>1 DEF Mint
    <2> QED
        BY <1>5, <2>1, <2>2 DEF Mint
<1>6. ASSUME NEW a \in Admins, Publish(a)
      PROVE  OnceInv'
    <2>1. \A b \in Admins : req'[b].pc = "resolve" => UNCHANGED req[b]
        BY <1>0, <1>6 DEF Publish, NoReq
    <2> QED
        BY <1>1, <1>6, <2>1 DEF Publish
<1>7. ASSUME NEW k \in Change, FinalizeHelper(k)
      PROVE  OnceInv'
    BY <1>1, <1>7 DEF FinalizeHelper
<1>8. ASSUME NEW k \in Change, Confirm(k)
      PROVE  OnceInv'
    BY <1>1, <1>8 DEF Confirm
<1>9. CASE FinalizeCommit
    BY <1>1, <1>9 DEF FinalizeCommit
<1>10. CASE RevertHelper
    BY <1>1, <1>10 DEF RevertHelper
<1>11. CASE RollbackCommit
    BY <1>1, <1>11 DEF RollbackCommit
<1>12. ASSUME NEW t \in Token, TimerFires(t) \/ TimeoutRevert(t)
       PROVE  OnceInv'
    BY <1>1, <1>12 DEF TimerFires, TimeoutRevert
<1>13. ASSUME NEW k \in Change, ConsumeHandoff(k)
       PROVE  OnceInv'
    <2>1. k \in handoffs /\ handoffs' = handoffs \ {k} /\ UNCHANGED <<req, changes>>
        BY <1>13 DEF ConsumeHandoff
    <2>2. opened'[k] \in {0, 1} /\ \A j \in Change \ {k} : opened'[j] = opened[j]
        BY <1>0, <1>13, <2>1 DEF ConsumeHandoff
    <2>3. \A j \in Change : opened'[j] <= 1 /\ (j > changes' => opened'[j] = 0)
        BY <1>0, <2>1, <2>2
    <2>4. \A j \in handoffs' : j <= changes' /\ opened'[j] = 0
        BY <1>0, <2>1, <2>2
    <2>5. ASSUME NEW a \in Admins, req'[a].pc = "resolve"
          PROVE  /\ req'[a].change <= changes'
                 /\ req'[a].change \notin handoffs'
                 /\ opened'[req'[a].change] = 0
                 /\ \A b \in Admins \ {a} : req'[b].pc = "resolve" => req'[b].change # req'[a].change
        BY <1>0, <2>1, <2>2, <2>5
    <2> QED
        BY <2>3, <2>4, <2>5
<1>14. ASSUME NEW k \in Change, HandoffExpires(k)
       PROVE  OnceInv'
    BY <1>1, <1>14 DEF HandoffExpires
<1>15. CASE Crash
    <2>1. \A b \in Admins : req'[b].pc # "resolve"
        BY <1>15 DEF Crash, NoReq
    <2> QED
        BY <1>1, <1>15, <2>1 DEF Crash
<1>16. CASE SaveRaises
    <2>1. \A b \in Admins : req'[b].pc = "resolve" => UNCHANGED req[b]
        BY <1>16 DEF SaveRaises, NoReq
    <2> QED
        BY <1>1, <1>16, <2>1 DEF SaveRaises
<1>17. CASE UNCHANGED vars
    BY <1>1, <1>17 DEF vars
<1> QED
    BY <1>2, <1>3, <1>4, <1>5, <1>6, <1>7, <1>8, <1>9, <1>10, <1>11, <1>12, <1>13,
       <1>14, <1>15, <1>16, <1>17 DEF Next, Request, ReadInterface, ReadBridge

\* A handoff secret opens at most one session, whoever races for it and however
\* late the requests that mint and publish it run (_net_handoffs).
THEOREM HandoffOpensOnce == Spec => []HandoffOnce
<1>1. OnceInv => HandoffOnce
    BY DEF OnceInv, HandoffOnce
<1> QED
    BY <1>1, InitType, StepType, InitOnce, StepOnce, PTL DEF Spec

----------------------------------------------------------------------------
(* The rollback, on a host whose root helper and saves do not fail and whose *)
(* server is not restarted (network_faults has all three).                   *)

\* Between the helper and the save of a request, the request holds the lock.
Exclusive ==
    \A a \in Admins : req[a].pc = "save" =>
      /\ lock = "applying"
      /\ \A b \in Admins \ {a} : req[b].pc # "save"

\* The running configuration is the one that the critical section just applied,
\* and a finalized change has its target running and saved.
LiveFollows ==
    /\ lock = "finalizing" => live = pending.target
    /\ lock \in Undoing => live = pending.prev
    /\ lock = "free" /\ pending.phase = "finalizing" =>
         live = pending.target /\ netconf = pending.target

\* What a rollback would restore is the configuration that worked.
WorkingKept ==
    ~superseded =>
      /\ pending.phase # "none" => pending.prev = working
      /\ pending.phase = "none" /\ lock = "free" => live = working /\ netconf = working
      /\ pending.phase = "none" => \A a \in Admins : req[a].pc = "save" => req[a].prev = working

RestInv == Exclusive /\ LiveFollows /\ WorkingKept

LEMMA InitRest == Init => RestInv
BY DEF Init, RestInv, Exclusive, LiveFollows, WorkingKept, NoPending, NoReq, Undoing

LEMMA HelperSucceeds ==
    ASSUME HelperFaults = {}, NEW c, NEW rc \in Outcomes, Helper(c, rc)
    PROVE  rc = "ok" /\ managed' = c /\ live' = c
BY DEF Outcomes, Helper

\* A step that leaves the lock, the configurations and the pending change alone.
LEMMA RestFrame ==
    ASSUME RestInv, UNCHANGED <<netconf, live, lock, working, superseded>>,
           pending'.phase = pending.phase, pending'.prev = pending.prev,
           pending'.target = pending.target,
           \A a \in Admins : req'[a].pc = "save" => UNCHANGED req[a]
    PROVE  RestInv'
<1>1. Exclusive'
    BY DEF RestInv, Exclusive
<1>2. LiveFollows'
    BY DEF RestInv, LiveFollows
<1>3. WorkingKept'
    BY DEF RestInv, WorkingKept
<1> QED
    BY <1>1, <1>2, <1>3 DEF RestInv

LEMMA StepRest ==
    ASSUME HelperFaults = {}, MaxFaults = 0
    PROVE  TypeInv /\ RestInv /\ [Next]_vars => RestInv'
<1> SUFFICES ASSUME TypeInv, RestInv, [Next]_vars PROVE RestInv'
    OBVIOUS
<1> USE DEF netVars, history, Undoing
<1>0. /\ req \in [Admins -> ReqType]
      /\ pending \in PendingType
      /\ faults \in 0..0
      /\ lock = "finalizing" => pending.phase = "dual"
      /\ lock \in Undoing => pending.phase # "none"
    BY DEF TypeInv, TypeOK, Shape
<1>1. ASSUME NEW a \in Admins, NEW target, NEW dual, NEW kind, Read(a, target, dual, kind)
      PROVE  RestInv'
    <2>1. \A b \in Admins : req'[b].pc = "save" => UNCHANGED req[b]
        BY <1>0, <1>1 DEF Read
    <2> QED
        BY <1>1, <2>1, RestFrame DEF Read
<1>2. ASSUME NEW a \in Admins, ApplyHelper(a)
      PROVE  RestInv'
    <2>1. PICK rc \in Outcomes :
            /\ Helper(req[a].dual, rc)
            /\ rc = "ok" => /\ lock' = "applying"
                            /\ req' = [req EXCEPT ![a].pc = "save", ![a].prev = netconf,
                                   ![a].fresh = (req[a].base = <<netconf, live>>)]
        BY <1>2 DEF ApplyHelper
    <2>2. lock' = "applying"
        BY <2>1, HelperSucceeds
    <2>3. /\ req'[a].prev = netconf
          /\ \A b \in Admins \ {a} : UNCHANGED req[b]
        BY <1>0, <2>1, HelperSucceeds DEF ReqType
    <2>4. /\ lock = "free"
          /\ UNCHANGED <<netconf, pending, working, superseded>>
        BY <1>2 DEF ApplyHelper
    <2>5. Exclusive'
        BY <2>2, <2>3, <2>4 DEF Exclusive, RestInv
    <2>6. LiveFollows'
        BY <2>2 DEF LiveFollows
    <2>7. WorkingKept'
        BY <2>2, <2>3, <2>4 DEF WorkingKept, RestInv
    <2> QED
        BY <2>5, <2>6, <2>7 DEF RestInv
<1>3. ASSUME NEW a \in Admins, ApplyCommit(a)
      PROVE  RestInv'
    <2>1. /\ req[a].pc = "save"
          /\ lock' = "free"
          /\ pending'.phase = "dual" /\ pending'.prev = req[a].prev
          /\ superseded' = (superseded \/ pending.phase # "none")
          /\ UNCHANGED working
        BY <1>3 DEF ApplyCommit
    <2>2. req'[a].pc = "resolve" /\ \A b \in Admins \ {a} : UNCHANGED req[b]
        BY <1>0, <1>3 DEF ApplyCommit, NoReq
    <2>3. Exclusive'
        BY <2>1, <2>2 DEF Exclusive, RestInv
    <2>4. LiveFollows'
        BY <2>1 DEF LiveFollows
    <2>5. WorkingKept'
        BY <2>1 DEF WorkingKept, RestInv
    <2> QED
        BY <2>3, <2>4, <2>5 DEF RestInv
<1>4. ASSUME NEW a \in Admins, Mint(a) \/ Publish(a)
      PROVE  RestInv'
    <2>1. \A b \in Admins : req'[b].pc = "save" => UNCHANGED req[b]
        BY <1>0, <1>4 DEF Mint, Publish, NoReq, ReqType
    <2>2. pending'.phase = pending.phase /\ pending'.prev = pending.prev
          /\ pending'.target = pending.target
        BY <1>0, <1>4 DEF Mint, Publish, PendingType
    <2> QED
        BY <1>4, <2>1, <2>2, RestFrame DEF Mint, Publish
<1>5. ASSUME NEW k \in Change, FinalizeHelper(k)
      PROVE  RestInv'
    <2>1. PICK rc \in Outcomes :
            /\ Helper(pending.target, rc)
            /\ lock' = IF rc = "ok" THEN "finalizing" ELSE "free"
        BY <1>5 DEF FinalizeHelper
    <2>2. lock' = "finalizing" /\ live' = pending.target
        BY <2>1, HelperSucceeds
    <2>3. /\ lock = "free" /\ pending.phase = "dual"
          /\ UNCHANGED <<netconf, pending, req, working, superseded>>
        BY <1>5 DEF FinalizeHelper
    <2> QED
        BY <2>2, <2>3 DEF RestInv, Exclusive, LiveFollows, WorkingKept
<1>6. CASE FinalizeCommit
    <2>1. /\ pending'.phase = "finalizing" /\ pending'.target = pending.target
          /\ pending'.prev = pending.prev /\ pending.phase = "dual"
        BY <1>0, <1>6 DEF FinalizeCommit, PendingType
    <2>2. /\ lock = "finalizing" /\ lock' = "free" /\ netconf' = pending.target
          /\ UNCHANGED <<live, req, working, superseded>>
        BY <1>6 DEF FinalizeCommit
    <2> QED
        BY <2>1, <2>2 DEF RestInv, Exclusive, LiveFollows, WorkingKept
<1>7. ASSUME NEW k \in Change, Confirm(k)
      PROVE  RestInv'
    <2>1. /\ lock = "free" /\ pending.phase = "finalizing" /\ pending'.phase = "none"
          /\ working' = pending.target
          /\ UNCHANGED <<netconf, live, lock, req>>
        BY <1>7 DEF Confirm, NoPending
    <2> QED
        BY <2>1 DEF RestInv, Exclusive, LiveFollows, WorkingKept
\* The first half of either rollback.
<1>8. ASSUME lock = "free", pending.phase # "none",
             NEW section \in Undoing, RollbackHelper(section),
             UNCHANGED <<netconf, pending, req, working, superseded>>
      PROVE  RestInv'
    <2>1. live' = pending.prev /\ lock' \in Undoing
        BY <1>8, HelperSucceeds DEF RollbackHelper
    <2> QED
        BY <1>8, <2>1 DEF RestInv, Exclusive, LiveFollows, WorkingKept
<1>9. CASE RevertHelper
    BY <1>8, <1>9 DEF RevertHelper
<1>10. ASSUME NEW t \in Token, TimeoutRevert(t)
       PROVE  RestInv'
    <2>1. CASE PendingToken = t
        <3>1. pending.phase # "none"
            BY <2>1 DEF Token, PendingToken
        <3> QED
            BY <1>8, <1>10, <2>1, <3>1 DEF TimeoutRevert
    <2>2. CASE PendingToken # t
        BY <1>10, <2>2, RestFrame DEF TimeoutRevert
    <2> QED
        BY <2>1, <2>2
<1>11. CASE RollbackCommit
    <2>1. /\ lock \in Undoing /\ lock' = "free" /\ netconf' = pending.prev
          /\ pending'.phase = "none" /\ pending.phase # "none"
          /\ UNCHANGED <<live, req, working, superseded>>
        BY <1>0, <1>11 DEF RollbackCommit, NoPending
    <2> QED
        BY <2>1 DEF RestInv, Exclusive, LiveFollows, WorkingKept
<1>12. ASSUME NEW t \in Token, TimerFires(t)
       PROVE  RestInv'
    BY <1>12, RestFrame DEF TimerFires
<1>13. ASSUME NEW k \in Change, ConsumeHandoff(k) \/ HandoffExpires(k)
       PROVE  RestInv'
    BY <1>13, RestFrame DEF ConsumeHandoff, HandoffExpires
<1>14. ~Crash /\ ~SaveRaises
    BY <1>0 DEF Crash, SaveRaises
<1>15. CASE UNCHANGED vars
    BY <1>15, RestFrame DEF vars
<1> QED
    BY <1>1, <1>2, <1>3, <1>4, <1>5, <1>6, <1>7, <1>9, <1>10, <1>11, <1>12, <1>13, <1>14, <1>15
       DEF Next, Request, ReadInterface, ReadBridge

\* Once no change is pending, the host runs the last configuration known to work
\* and has it on file: revert and _net_timeout_revert restore it, confirm makes
\* the target the one that works, and nothing that comes late moves it.
THEOREM RollbackRestores ==
    ASSUME HelperFaults = {}, MaxFaults = 0
    PROVE  Spec => []RestsOnWorking
<1>1. RestInv => RestsOnWorking
    BY DEF RestInv, WorkingKept, RestsOnWorking, AtRest
<1>2. TypeInv /\ RestInv /\ [Next]_vars => RestInv'
    BY StepRest
<1> QED
    BY <1>1, <1>2, InitType, StepType, InitRest, PTL DEF Spec

----------------------------------------------------------------------------
(* The link of the pending change *)

LEMMA StepUrl == TypeInv /\ UrlIsCurrent /\ [Next]_vars => UrlIsCurrent'
<1> SUFFICES ASSUME TypeInv, UrlIsCurrent, [Next]_vars PROVE UrlIsCurrent'
    OBVIOUS
<1> USE DEF UrlIsCurrent
<1>0. pending \in PendingType
    BY DEF TypeInv, TypeOK
<1>1. ASSUME UNCHANGED pending
      PROVE  UrlIsCurrent'
    BY <1>1
<1>2. ASSUME NEW a \in Admins, ApplyCommit(a)
      PROVE  UrlIsCurrent'
    <2>1. pending'.url = 0
        BY <1>2 DEF ApplyCommit
    <2> QED
        BY <2>1
<1>3. ASSUME NEW a \in Admins, Publish(a)
      PROVE  UrlIsCurrent'
    <2>1. CASE PendingToken = <<req[a].change, "dual">>
        <3>1. pending'.url = req[a].change /\ pending'.change = pending.change
            BY <1>0, <1>3, <2>1 DEF Publish, PendingType
        <3>2. pending.change = req[a].change
            BY <2>1 DEF PendingToken
        <3> QED
            BY <3>1, <3>2
    <2>2. CASE PendingToken # <<req[a].change, "dual">>
        BY <1>1, <1>3, <2>2 DEF Publish
    <2> QED
        BY <2>1, <2>2
<1>4. CASE FinalizeCommit
    <2>1. pending'.url = pending.url /\ pending'.change = pending.change
        BY <1>0, <1>4 DEF FinalizeCommit, PendingType
    <2> QED
        BY <2>1
<1>5. ASSUME pending' = NoPending
      PROVE  UrlIsCurrent'
    BY <1>5 DEF NoPending
<1>6. ASSUME NEW a \in Admins, Request(a)
      PROVE  UrlIsCurrent'
    BY <1>1, <1>2, <1>3, <1>6 DEF Request, ApplyHelper, Mint
<1> QED
    BY <1>1, <1>4, <1>5, <1>6
       DEF Next, ReadInterface, ReadBridge, Read, FinalizeHelper, Confirm, RevertHelper,
           RollbackCommit, SaveRaises, TimerFires, TimeoutRevert, ConsumeHandoff,
           HandoffExpires, Crash, vars

\* The link shown for a pending change carries this change's own secret, however
\* late the address resolution of an earlier one ends (_net_apply).
THEOREM LinkIsCurrent == Spec => []UrlIsCurrent
<1>1. Init => UrlIsCurrent
    BY DEF Init, NoPending, UrlIsCurrent
<1> QED
    BY <1>1, StepUrl, InitType, StepType, PTL DEF Spec

----------------------------------------------------------------------------
(* The dual phase *)

\* What the dual phase keeps of an interface.
SpecKept(w, l, i) ==
    /\ Reach(w, i) \subseteq Reach(l, i) \/ Mixed(w, i)
    /\ ~Effective(l, i).dhcp4 => Effective(l, i).gateway = Effective(w, i).gateway

\* The transitional configuration that a request for one interface computes.
Dual(c, l, i, s) == [c EXCEPT ![i] = UnionSpec(c[i], s, Effective(l, i))]

\* Computed from the configuration that runs, it keeps every interface.
LEMMA DualKeeps ==
    ASSUME NEW c \in Conf, NEW i \in Ifaces, NEW s \in Targets, NEW j \in Ifaces
    PROVE  SpecKept(c, Dual(c, c, i, s), j)
<1> DEFINE d == Dual(c, c, i, s)
<1>1. CASE j # i
    <2>1. d[j] = c[j]
        BY <1>1 DEF Dual, Conf
    <2> QED
        BY <2>1 DEF SpecKept, Effective, Reach
<1>2. CASE j = i
    <2> DEFINE old == Effective(c, i)
               u == UnionSpec(c[i], s, old)
    <2>1. old \in Spec0 /\ s \in Spec0
        BY EffectiveType, NetAssumption
    <2>2. (IF c[i] = Nil THEN old ELSE c[i]) = old
        BY DEF Effective
    <2>3. u = [dhcp4     |-> old.dhcp4 \/ s.dhcp4,
               addresses |-> (IF old.dhcp4 THEN {} ELSE old.addresses) \cup s.addresses,
               gateway   |-> IF old.dhcp4 \/ s.dhcp4 THEN NoGateway ELSE old.gateway]
        BY <2>2 DEF UnionSpec
    <2>4. d[i] = u
        BY DEF Dual, Conf
    <2>5. Effective(d, i) = u
        <3>1. u \in Spec0
            BY <2>1, <2>3 DEF Spec0
        <3> QED
            BY <2>4, <3>1, NetAssumption DEF Effective
    <2> HIDE DEF d, u
    <2>6. Reach(c, i) \subseteq Reach(d, i) \/ Mixed(c, i)
        BY <2>1, <2>3, <2>5 DEF Reach, Mixed, Spec0
    <2>7. ~u.dhcp4 => u.gateway = old.gateway
        BY <2>1, <2>3
    <2> QED
        BY <1>2, <2>5, <2>6, <2>7 DEF SpecKept, d
<1> QED
    BY <1>1, <1>2

\* A request for an interface still has the transitional configuration of its base.
DualOfBase ==
    \A a \in Admins : req[a].pc \in {"read", "save"} /\ req[a].kind = "interface" =>
        \E c \in Conf, l \in Conf, i \in Ifaces, s \in Targets :
           req[a].base = <<c, l>> /\ req[a].dual = Dual(c, l, i, s)

\* Between the helper and the save of a fresh request it is the one that runs.
SaveKeeps ==
    ~superseded /\ pending.phase = "none" =>
        \A a \in Admins :
           req[a].pc = "save" /\ req[a].kind = "interface" /\ req[a].fresh =>
              \A i \in Ifaces : SpecKept(working, live, i)

KeepInv == DualOfBase /\ SaveKeeps /\ KeepsOldConnection

LEMMA InitKeep == Init => KeepInv
BY DEF Init, KeepInv, DualOfBase, SaveKeeps, KeepsOldConnection, NoPending, NoReq

\* A step that touches neither the configurations nor what a pending change says
\* of itself, and starts no request.
LEMMA KeepFrame ==
    ASSUME KeepInv, UNCHANGED <<live, lock, working, superseded>>,
           pending'.phase = pending.phase, pending'.kind = pending.kind,
           pending'.fresh = pending.fresh,
           \A a \in Admins : req'[a].pc \in {"read", "save"} => UNCHANGED req[a]
    PROVE  KeepInv'
<1>1. DualOfBase'
    BY DEF KeepInv, DualOfBase
<1>2. SaveKeeps'
    BY DEF KeepInv, SaveKeeps, SpecKept, Reach, Effective, Mixed
<1>3. KeepsOldConnection'
    BY DEF KeepInv, KeepsOldConnection, Reach, Effective, Mixed
<1> QED
    BY <1>1, <1>2, <1>3 DEF KeepInv

LEMMA StepKeep ==
    ASSUME HelperFaults = {}, MaxFaults = 0
    PROVE  TypeInv /\ RestInv /\ KeepInv /\ [Next]_vars => KeepInv'
<1> SUFFICES ASSUME TypeInv, RestInv, KeepInv, [Next]_vars PROVE KeepInv'
    OBVIOUS
<1> USE DEF netVars, history, Undoing
<1>0. /\ req \in [Admins -> ReqType]
      /\ pending \in PendingType
      /\ netconf \in Conf /\ live \in Conf /\ working \in Conf
      /\ faults \in 0..0
    BY DEF TypeInv, TypeOK
\* A step of a request's own record only.
<1>1. ASSUME UNCHANGED <<live, lock, working, superseded, pending>>,
             \A a \in Admins : req'[a].pc = "save" => UNCHANGED req[a],
             DualOfBase'
      PROVE  KeepInv'
    <2>1. SaveKeeps'
        BY <1>1 DEF KeepInv, SaveKeeps, SpecKept, Reach, Effective, Mixed
    <2>2. KeepsOldConnection'
        BY <1>1 DEF KeepInv, KeepsOldConnection, Reach, Effective, Mixed
    <2> QED
        BY <1>1, <2>1, <2>2 DEF KeepInv
<1>2. ASSUME NEW a \in Admins, NEW i \in Ifaces, NEW s \in Targets, ReadInterface(a, i, s)
      PROVE  KeepInv'
    <2>1. /\ req'[a].base = <<netconf, live>>
          /\ req'[a].dual = Dual(netconf, live, i, s)
          /\ \A b \in Admins \ {a} : UNCHANGED req[b]
          /\ req'[a].pc = "read"
        BY <1>0, <1>2 DEF ReadInterface, Read, Dual
    <2>2. DualOfBase'
        BY <1>0, <2>1 DEF KeepInv, DualOfBase
    <2> QED
        BY <1>1, <1>2, <2>1, <2>2 DEF ReadInterface, Read
<1>3. ASSUME NEW a \in Admins, NEW b \in Bridges, NEW ms \in SUBSET (Ifaces \ Bridges),
             NEW s \in Targets, ReadBridge(a, b, ms, s)
      PROVE  KeepInv'
    <2>1. /\ req'[a].kind = "bridge" /\ req'[a].pc = "read"
          /\ \A o \in Admins \ {a} : UNCHANGED req[o]
        BY <1>0, <1>3 DEF ReadBridge, Read
    <2>2. DualOfBase'
        BY <2>1 DEF KeepInv, DualOfBase
    <2> QED
        BY <1>1, <1>3, <2>1, <2>2 DEF ReadBridge, Read
<1>4. ASSUME NEW a \in Admins, ApplyHelper(a)
      PROVE  KeepInv'
    <2>1. PICK rc \in Outcomes :
            /\ Helper(req[a].dual, rc)
            /\ rc = "ok" => /\ lock' = "applying"
                            /\ req' = [req EXCEPT ![a].pc = "save", ![a].prev = netconf,
                                   ![a].fresh = (req[a].base = <<netconf, live>>)]
        BY <1>4 DEF ApplyHelper
    <2>2. lock' = "applying" /\ live' = req[a].dual
        BY <2>1, HelperSucceeds
    <2>3. /\ req'[a].base = req[a].base /\ req'[a].dual = req[a].dual
          /\ req'[a].kind = req[a].kind
          /\ req'[a].fresh = (req[a].base = <<netconf, live>>)
          /\ \A b \in Admins \ {a} : UNCHANGED req[b]
        BY <1>0, <2>1, HelperSucceeds DEF ReqType
    <2>4. /\ lock = "free" /\ req[a].pc = "read"
          /\ UNCHANGED <<netconf, pending, working, superseded>>
        BY <1>4 DEF ApplyHelper
    <2>5. DualOfBase'
        BY <2>3, <2>4 DEF KeepInv, DualOfBase
    <2>6. KeepsOldConnection'
        BY <2>2 DEF KeepsOldConnection
    <2>7. SaveKeeps'
        <3> SUFFICES ASSUME ~superseded, pending.phase = "none",
                            NEW b \in Admins, req'[b].pc = "save",
                            req'[b].kind = "interface", req'[b].fresh,
                            NEW j \in Ifaces
                     PROVE  SpecKept(working', live', j)
            BY <2>4 DEF SaveKeeps, SpecKept, Reach, Effective, Mixed
        <3>1. b = a
            BY <2>3, <2>4 DEF RestInv, Exclusive
        <3>2. live = working /\ netconf = working
            BY <2>4 DEF RestInv, WorkingKept
        <3>3. PICK c \in Conf, l \in Conf, i \in Ifaces, s \in Targets :
                 req[a].base = <<c, l>> /\ req[a].dual = Dual(c, l, i, s)
            BY <2>3, <2>4, <3>1 DEF KeepInv, DualOfBase
        <3>4. req[a].base = <<netconf, live>>
            BY <2>3, <3>1, Zenon
        <3>5. c = working /\ l = working
            BY <3>2, <3>3, <3>4
        <3> QED
            BY <1>0, <2>2, <2>4, <3>3, <3>5, DualKeeps
    <2> QED
        BY <2>5, <2>6, <2>7 DEF KeepInv
<1>5. ASSUME NEW a \in Admins, ApplyCommit(a)
      PROVE  KeepInv'
    <2>1. /\ req[a].pc = "save"
          /\ pending'.phase = "dual" /\ pending'.kind = req[a].kind
          /\ pending'.fresh = req[a].fresh
          /\ superseded' = (superseded \/ pending.phase # "none")
          /\ UNCHANGED <<live, working>>
        BY <1>5 DEF ApplyCommit
    <2>2. req'[a].pc = "resolve" /\ \A b \in Admins \ {a} : UNCHANGED req[b]
        BY <1>0, <1>5 DEF ApplyCommit, NoReq
    <2>3. DualOfBase'
        BY <2>2 DEF KeepInv, DualOfBase
    <2>4. SaveKeeps'
        BY <2>1 DEF SaveKeeps
    <2>5. KeepsOldConnection'
        BY <2>1 DEF KeepInv, SaveKeeps, KeepsOldConnection, SpecKept, Reach, Effective, Mixed
    <2> QED
        BY <2>3, <2>4, <2>5 DEF KeepInv
<1>6. ASSUME NEW a \in Admins, Mint(a) \/ Publish(a)
      PROVE  KeepInv'
    <2>1. \A b \in Admins : req'[b].pc \in {"read", "save"} => UNCHANGED req[b]
        BY <1>0, <1>6 DEF Mint, Publish, NoReq, ReqType
    <2>2. pending'.phase = pending.phase /\ pending'.kind = pending.kind
          /\ pending'.fresh = pending.fresh
        BY <1>0, <1>6 DEF Mint, Publish, PendingType
    <2> QED
        BY <1>6, <2>1, <2>2, KeepFrame DEF Mint, Publish
\* A step that ends with no dual phase at rest, and no save under way.
<1>7. ASSUME UNCHANGED req, \A a \in Admins : req[a].pc # "save",
             lock' # "free" \/ pending'.phase # "dual"
      PROVE  KeepInv'
    BY <1>7 DEF KeepInv, DualOfBase, SaveKeeps, KeepsOldConnection
<1>8. lock # "applying" => \A a \in Admins : req[a].pc # "save"
    BY DEF RestInv, Exclusive
<1>9. ASSUME NEW k \in Change, FinalizeHelper(k)
      PROVE  KeepInv'
    <2>1. lock' = "finalizing"
        BY <1>9, HelperSucceeds DEF FinalizeHelper
    <2> QED
        BY <1>7, <1>8, <1>9, <2>1 DEF FinalizeHelper
<1>10. CASE FinalizeCommit
    <2>1. pending'.phase = "finalizing"
        BY <1>0, <1>10 DEF FinalizeCommit, PendingType
    <2> QED
        BY <1>7, <1>8, <1>10, <2>1 DEF FinalizeCommit
<1>11. ASSUME NEW k \in Change, Confirm(k)
       PROVE  KeepInv'
    BY <1>7, <1>8, <1>11 DEF Confirm, NoPending
<1>12. CASE RevertHelper
    BY <1>7, <1>8, <1>12 DEF RevertHelper, RollbackHelper
<1>13. CASE RollbackCommit
    BY <1>7, <1>8, <1>13 DEF RollbackCommit, NoPending
<1>14. ASSUME NEW t \in Token, TimeoutRevert(t)
       PROVE  KeepInv'
    <2>1. CASE PendingToken = t
        BY <1>7, <1>8, <1>14, <2>1 DEF TimeoutRevert, RollbackHelper
    <2>2. CASE PendingToken # t
        BY <1>14, <2>2, KeepFrame DEF TimeoutRevert
    <2> QED
        BY <2>1, <2>2
<1>15. ASSUME NEW t \in Token, TimerFires(t)
       PROVE  KeepInv'
    BY <1>15, KeepFrame DEF TimerFires
<1>16. ASSUME NEW k \in Change, ConsumeHandoff(k) \/ HandoffExpires(k)
       PROVE  KeepInv'
    BY <1>16, KeepFrame DEF ConsumeHandoff, HandoffExpires
<1>17. ~Crash /\ ~SaveRaises
    BY <1>0 DEF Crash, SaveRaises
<1>18. CASE UNCHANGED vars
    BY <1>18, KeepFrame DEF vars
<1> QED
    BY <1>2, <1>3, <1>4, <1>5, <1>6, <1>9, <1>10, <1>11, <1>12, <1>13, <1>14, <1>15, <1>16,
       <1>17, <1>18 DEF Next, Request

\* The dual phase of an interface change keeps every address that worked and the
\* gateway of a static interface, on a host whose root helper and saves do not fail
\* and whose server is not restarted (_net_union_spec, network_interface).
THEOREM ConnectionKept ==
    ASSUME HelperFaults = {}, MaxFaults = 0
    PROVE  Spec => []KeepsOldConnection
<1>1. KeepInv => KeepsOldConnection
    BY DEF KeepInv
<1>2. TypeInv /\ RestInv /\ KeepInv /\ [Next]_vars => KeepInv'
    BY StepKeep
<1>3. TypeInv /\ RestInv /\ [Next]_vars => RestInv'
    BY StepRest
<1> QED
    BY <1>1, <1>2, <1>3, InitType, StepType, InitRest, InitKeep, PTL DEF Spec


----------------------------------------------------------------------------
(* A change is atomic, whatever fails: the refinement of NetSpec *)

\* What a critical section relies on between the helper and the save: it alone holds
\* the lock, the record on file has not moved, and the host runs what it is about to
\* save. A rollback knows the latter only of a helper that does what it is asked.
HeldInv ==
    /\ Exclusive
    /\ \A a \in Admins : req[a].pc = "save" => req[a].prev = netconf /\ live = req[a].dual
    /\ lock = "finalizing" => live = pending.target
    /\ Dependable => /\ lock = "free" => live = netconf
                     /\ lock \in Undoing => live = pending.prev

LEMMA InitHeld == Init => HeldInv
BY DEF Init, HeldInv, Exclusive, NoReq, Undoing

\* A step that leaves the lock, the configurations and the pending change alone.
LEMMA HeldFrame ==
    ASSUME HeldInv, UNCHANGED <<netconf, live, lock>>,
           pending'.prev = pending.prev, pending'.target = pending.target,
           \A a \in Admins : req'[a].pc = "save" => UNCHANGED req[a]
    PROVE  HeldInv'
<1>1. Exclusive'
    BY DEF HeldInv, Exclusive
<1> QED
    BY <1>1 DEF HeldInv, Dependable

\* Nobody is about to save a change unless the lock is held for it.
LEMMA NobodySaves ==
    ASSUME HeldInv, lock # "applying"
    PROVE  \A a \in Admins : req[a].pc # "save"
BY DEF HeldInv, Exclusive

\* A helper that is known to succeed leaves what it was given.
LEMMA HelperRuns ==
    ASSUME NEW c, NEW rc \in Outcomes, Helper(c, rc), rc = "ok" \/ Dependable
    PROVE  rc = "ok" /\ live' = c
BY DEF Outcomes, Helper, Dependable

LEMMA StepHeld == TypeInv /\ HeldInv /\ [Next]_vars => HeldInv'
<1> SUFFICES ASSUME TypeInv, HeldInv, [Next]_vars PROVE HeldInv'
    OBVIOUS
<1> USE DEF netVars, history, Undoing
<1>0. /\ req \in [Admins -> ReqType]
      /\ pending \in PendingType
    BY DEF TypeInv, TypeOK
<1>1. ASSUME NEW a \in Admins, NEW target, NEW dual, NEW kind, Read(a, target, dual, kind)
      PROVE  HeldInv'
    <2>1. \A b \in Admins : req'[b].pc = "save" => UNCHANGED req[b]
        BY <1>0, <1>1 DEF Read
    <2> QED
        BY <1>1, <2>1, HeldFrame DEF Read
<1>2. ASSUME NEW a \in Admins, ApplyHelper(a)
      PROVE  HeldInv'
    <2>1. PICK rc \in Outcomes :
            /\ Helper(req[a].dual, rc)
            /\ IF rc = "ok"
               THEN /\ lock' = "applying"
                    /\ req' = [req EXCEPT ![a].pc = "save", ![a].prev = netconf,
                                   ![a].fresh = (req[a].base = <<netconf, live>>)]
               ELSE /\ req' = [req EXCEPT ![a] = NoReq]
                    /\ UNCHANGED lock
        BY <1>2 DEF ApplyHelper
    <2>2. /\ lock = "free" /\ UNCHANGED <<netconf, pending>>
          /\ \A b \in Admins : req[b].pc # "save"
        BY <1>2, NobodySaves DEF ApplyHelper
    <2>3. CASE rc = "ok"
        <3>1. /\ req'[a].prev = netconf /\ req'[a].dual = req[a].dual
              /\ \A b \in Admins \ {a} : UNCHANGED req[b]
            BY <1>0, <2>1, <2>3 DEF ReqType
        <3>2. live' = req[a].dual /\ lock' = "applying"
            BY <2>1, <2>3, HelperRuns
        <3>3. Exclusive'
            BY <2>2, <3>1, <3>2 DEF Exclusive
        <3> QED
            BY <2>2, <3>1, <3>2, <3>3 DEF HeldInv
    <2>4. CASE rc # "ok"
        <3>1. ~Dependable /\ lock' = "free"
            BY <2>1, <2>2, <2>4, HelperRuns
        <3>2. \A b \in Admins : req'[b].pc # "save"
            BY <1>0, <2>1, <2>2, <2>4 DEF NoReq
        <3>3. Exclusive' /\ ~Dependable'
            BY <3>1, <3>2 DEF Exclusive, Dependable
        <3> QED
            BY <3>1, <3>2, <3>3 DEF HeldInv
    <2> QED
        BY <2>3, <2>4
<1>3. ASSUME NEW a \in Admins, ApplyCommit(a)
      PROVE  HeldInv'
    <2>1. /\ req[a].pc = "save" /\ lock' = "free" /\ netconf' = req[a].dual
          /\ UNCHANGED live
        BY <1>3 DEF ApplyCommit
    <2>2. \A b \in Admins : req'[b].pc # "save"
        BY <1>0, <1>3 DEF ApplyCommit, NoReq, HeldInv, Exclusive
    <2>3. live' = netconf'
        BY <2>1 DEF HeldInv
    <2>4. Exclusive'
        BY <2>2 DEF Exclusive
    <2> QED
        BY <2>1, <2>2, <2>3, <2>4 DEF HeldInv
<1>4. ASSUME NEW a \in Admins, Mint(a) \/ Publish(a)
      PROVE  HeldInv'
    <2>1. \A b \in Admins : req'[b].pc = "save" => UNCHANGED req[b]
        BY <1>0, <1>4 DEF Mint, Publish, NoReq, ReqType
    <2>2. pending'.prev = pending.prev /\ pending'.target = pending.target
        BY <1>0, <1>4 DEF Mint, Publish, PendingType
    <2> QED
        BY <1>4, <2>1, <2>2, HeldFrame DEF Mint, Publish
\* A step that leaves the requests alone while nobody is about to save one.
<1>5. ASSUME \A a \in Admins : req[a].pc # "save", UNCHANGED req,
             lock' = "finalizing" => live' = pending'.target,
             Dependable => /\ lock' = "free" => live' = netconf'
                           /\ lock' \in Undoing => live' = pending'.prev
      PROVE  HeldInv'
    BY <1>5 DEF HeldInv, Exclusive, Dependable
<1>6. ASSUME NEW k \in Change, FinalizeHelper(k)
      PROVE  HeldInv'
    <2>1. PICK rc \in Outcomes :
            /\ Helper(pending.target, rc)
            /\ lock' = IF rc = "ok" THEN "finalizing" ELSE "free"
        BY <1>6 DEF FinalizeHelper
    <2>2. lock = "free" /\ UNCHANGED <<netconf, pending, req>>
        BY <1>6 DEF FinalizeHelper
    <2>3. rc = "ok" => live' = pending.target
        BY <2>1, HelperRuns
    <2>4. Dependable => rc = "ok"
        BY <2>1, HelperRuns
    <2> QED
        BY <1>5, <2>1, <2>2, <2>3, <2>4, NobodySaves
<1>7. CASE FinalizeCommit
    <2>1. /\ lock = "finalizing" /\ lock' = "free" /\ netconf' = pending.target
          /\ UNCHANGED <<live, req>>
        BY <1>7 DEF FinalizeCommit
    <2>2. live = pending.target
        BY <2>1 DEF HeldInv
    <2> QED
        BY <1>5, <2>1, <2>2, NobodySaves
<1>8. ASSUME NEW k \in Change, Confirm(k)
      PROVE  HeldInv'
    <2>1. lock = "free" /\ UNCHANGED <<netconf, live, lock, req>>
        BY <1>8 DEF Confirm
    <2> QED
        BY <1>5, <2>1, NobodySaves DEF HeldInv
\* The first half of either rollback.
<1>9. ASSUME lock = "free", NEW section \in Undoing, RollbackHelper(section), UNCHANGED <<pending, req>>
      PROVE  HeldInv'
    <2>1. lock' \in Undoing /\ (Dependable => live' = pending.prev)
        BY <1>9, HelperRuns DEF RollbackHelper
    <2> QED
        BY <1>5, <1>9, <2>1, NobodySaves
<1>10. CASE RevertHelper
    BY <1>9, <1>10 DEF RevertHelper
<1>11. ASSUME NEW t \in Token, TimeoutRevert(t)
       PROVE  HeldInv'
    <2>1. CASE PendingToken = t
        BY <1>9, <1>11, <2>1 DEF TimeoutRevert
    <2>2. CASE PendingToken # t
        BY <1>11, <2>2, HeldFrame DEF TimeoutRevert
    <2> QED
        BY <2>1, <2>2
<1>12. CASE RollbackCommit
    <2>1. /\ lock \in Undoing /\ lock' = "free" /\ netconf' = pending.prev
          /\ UNCHANGED <<live, req>>
        BY <1>12 DEF RollbackCommit
    <2>2. Dependable => live = pending.prev
        BY <2>1 DEF HeldInv
    <2> QED
        BY <1>5, <2>1, <2>2, NobodySaves
<1>13. ASSUME NEW t \in Token, TimerFires(t)
       PROVE  HeldInv'
    BY <1>13, HeldFrame DEF TimerFires
<1>14. ASSUME NEW k \in Change, ConsumeHandoff(k) \/ HandoffExpires(k)
       PROVE  HeldInv'
    BY <1>14, HeldFrame DEF ConsumeHandoff, HandoffExpires
<1>15. CASE Crash
    <2>1. ~Dependable'
        BY <1>15, BoundsAssumption DEF Crash, Dependable, TypeInv, TypeOK
    <2>2. lock' = "free" /\ \A a \in Admins : req'[a].pc # "save"
        BY <1>15 DEF Crash, NoReq
    <2> QED
        BY <2>1, <2>2 DEF HeldInv, Exclusive
<1>16. CASE SaveRaises
    <2>1. ~Dependable'
        BY <1>16, BoundsAssumption DEF SaveRaises, Dependable, TypeInv, TypeOK
    <2>2. lock' = "free" /\ \A a \in Admins : req'[a].pc # "save"
        BY <1>16 DEF SaveRaises, NoReq
    <2> QED
        BY <2>1, <2>2 DEF HeldInv, Exclusive
<1>17. CASE UNCHANGED vars
    BY <1>17, HeldFrame DEF vars
<1> QED
    BY <1>1, <1>2, <1>3, <1>4, <1>6, <1>7, <1>8, <1>10, <1>11, <1>12, <1>13, <1>14, <1>15, <1>16, <1>17
       DEF Next, Request, ReadInterface, ReadBridge


\* What the promise sees of the host: a step in progress is not seen until its save.
Seen == IF lock = "free" THEN live ELSE netconf

LEMMA InitPromise == Init => Promise!AInit
BY InitType DEF Init, NoPending, Promise!AInit, TypeInv, TypeOK

\* A step that moves neither the record on file nor the change under way either leaves
\* the host alone, as far as the promise sees, or is one that a failing helper makes.
LEMMA Stutter ==
    ASSUME TypeInv', UNCHANGED <<netconf, working, superseded>>,
           pending'.phase = pending.phase, pending'.prev = pending.prev,
           pending'.target = pending.target, Dependable => Seen' = Seen
    PROVE  [Promise!ANext]_(Promise!vars)
<1>1. Seen' \in Conf
    BY DEF Seen, TypeInv, TypeOK
<1>2. CASE Dependable
    BY <1>2 DEF Promise!vars, Seen
<1>3. CASE ~Dependable
    BY <1>1, <1>3 DEF Promise!ANext, Promise!Falter, Seen
<1> QED
    BY <1>2, <1>3

LEMMA StepPromise ==
    TypeInv /\ TypeInv' /\ HeldInv /\ HeldInv' /\ [Next]_vars => [Promise!ANext]_(Promise!vars)
<1> SUFFICES ASSUME TypeInv, TypeInv', HeldInv, HeldInv', [Next]_vars
             PROVE  [Promise!ANext]_(Promise!vars)
    OBVIOUS
<1> USE DEF netVars, history, Undoing
<1>0. /\ pending \in PendingType /\ netconf \in Conf /\ live \in Conf
      /\ netconf' \in Conf /\ live' \in Conf
    BY DEF TypeInv, TypeOK
\* On a dependable host the record on file is what the promise sees, at any moment.
<1>s. ASSUME Dependable
      PROVE  Seen = netconf /\ Seen' = netconf'
    BY <1>s DEF Seen, HeldInv, Dependable
<1>1. ASSUME NEW a \in Admins, ApplyCommit(a)
      PROVE  Promise!Try
    <2>1. /\ netconf' = req[a].dual /\ lock' = "free" /\ req[a].pc = "save"
          /\ superseded' = (superseded \/ pending.phase # "none")
          /\ pending'.phase = "dual" /\ pending'.prev = req[a].prev
          /\ pending'.target = req[a].target
          /\ UNCHANGED <<live, working>>
        BY <1>1 DEF ApplyCommit
    <2>2. live = req[a].dual /\ req[a].prev = netconf /\ req[a].target \in Conf
        BY <2>1 DEF HeldInv, TypeInv, Shape
    <2> QED
        BY <1>0, <2>1, <2>2 DEF Promise!Try
<1>2. ASSUME FinalizeCommit
      PROVE  Promise!Finalize
    <2>1. /\ lock = "finalizing" /\ lock' = "free" /\ netconf' = pending.target
          /\ pending' = [pending EXCEPT !.phase = "finalizing"]
          /\ UNCHANGED <<live, working, superseded>>
        BY <1>2 DEF FinalizeCommit
    <2>2. pending.phase = "dual" /\ live = pending.target
        BY <2>1 DEF HeldInv, TypeInv, Shape
    <2>3. /\ pending'.phase = "finalizing" /\ pending'.prev = pending.prev
          /\ pending'.target = pending.target
        BY <1>0, <2>1 DEF PendingType
    <2> QED
        BY <2>1, <2>2, <2>3 DEF Promise!Finalize
<1>3. ASSUME NEW k \in Change, Confirm(k)
      PROVE  Promise!Confirm
    BY <1>3 DEF Confirm, NoPending, Promise!Confirm, Promise!Over
<1>4. ASSUME RollbackCommit
      PROVE  Promise!Return
    <2>1. /\ lock \in Undoing /\ lock' = "free" /\ netconf' = pending.prev
          /\ pending' = NoPending
          /\ UNCHANGED <<live, working, superseded>>
        BY <1>4 DEF RollbackCommit
    <2>2. pending.phase # "none" /\ (Dependable => live = pending.prev)
        BY <2>1 DEF HeldInv, TypeInv, Shape
    <2> QED
        BY <1>0, <2>1, <2>2 DEF Promise!Return, Promise!Over, NoPending
<1>5. ASSUME Crash
      PROVE  Promise!Forget
    <2>1. ~Dependable
        BY <1>5, BoundsAssumption DEF Crash, Dependable, TypeInv, TypeOK
    <2> QED
        BY <1>0, <1>5, <2>1 DEF Crash, NoPending, Promise!Forget, Promise!Over
\* The other steps.
<1>6. ASSUME UNCHANGED <<netconf, working, superseded>>,
             pending'.phase = pending.phase, pending'.prev = pending.prev,
             pending'.target = pending.target
      PROVE  [Promise!ANext]_(Promise!vars)
    BY <1>6, <1>s, Stutter
<1>7. ASSUME NEW a \in Admins, Publish(a)
      PROVE  [Promise!ANext]_(Promise!vars)
    <2>1. /\ pending'.phase = pending.phase /\ pending'.prev = pending.prev
          /\ pending'.target = pending.target
        BY <1>0, <1>7 DEF Publish, PendingType
    <2> QED
        BY <1>6, <1>7, <2>1 DEF Publish
<1>8. ASSUME NEW a \in Admins, ApplyHelper(a) \/ Mint(a)
      PROVE  [Promise!ANext]_(Promise!vars)
    BY <1>6, <1>8 DEF ApplyHelper, Mint
<1>9. ASSUME NEW k \in Change, FinalizeHelper(k) \/ ConsumeHandoff(k) \/ HandoffExpires(k)
      PROVE  [Promise!ANext]_(Promise!vars)
    BY <1>6, <1>9 DEF FinalizeHelper, ConsumeHandoff, HandoffExpires
<1>10. ASSUME NEW t \in Token, TimerFires(t) \/ TimeoutRevert(t)
       PROVE  [Promise!ANext]_(Promise!vars)
    BY <1>6, <1>10 DEF TimerFires, TimeoutRevert
<1>11. ASSUME RevertHelper
       PROVE  [Promise!ANext]_(Promise!vars)
    BY <1>6, <1>11 DEF RevertHelper
<1>12. ASSUME NEW a \in Admins, NEW target, NEW dual, NEW kind, Read(a, target, dual, kind)
       PROVE  [Promise!ANext]_(Promise!vars)
    BY <1>6, <1>12 DEF Read
<1>13. ASSUME SaveRaises
       PROVE  Promise!Falter
    <2>1. ~Dependable
        BY <1>13, BoundsAssumption DEF SaveRaises, Dependable, TypeInv, TypeOK
    <2> QED
        BY <1>0, <1>13, <2>1 DEF SaveRaises, Promise!Falter
<1>14. CASE UNCHANGED vars
    BY <1>6, <1>14 DEF vars
<1> QED
    BY <1>1, <1>2, <1>3, <1>4, <1>5, <1>7, <1>8, <1>9, <1>10, <1>11, <1>12, <1>13, <1>14
       DEF Next, Request, ReadInterface, ReadBridge, Promise!ANext

\* Whatever races, fails or crashes, the record on file moves as if changes were tried,
\* made final, confirmed and taken back one at a time, each on the configuration that
\* the one before it left; and the host moves with the record, except for what a failing
\* helper, a raised save or a restart leaves behind (_net_apply, network_finalize, _net_timeout_revert).
THEOREM ChangesAreAtomic == Spec => ChangeIsAtomic
<1>1. Init => TypeInv /\ HeldInv /\ Promise!AInit
    BY InitType, InitHeld, InitPromise
<1>2. TypeInv /\ HeldInv /\ [Next]_vars => TypeInv' /\ HeldInv'
    BY StepType, StepHeld
<1>3. TypeInv /\ TypeInv' /\ HeldInv /\ HeldInv' /\ [Next]_vars => [Promise!ANext]_(Promise!vars)
    BY StepPromise
<1> QED
    BY <1>1, <1>2, <1>3, PTL DEF Spec, ChangeIsAtomic, Promise!ASpec
=============================================================================
