--------------------------- MODULE Services_proofs ---------------------------
(***************************************************************************)
(* Theorems of MCServices, for all of its constants: the services whose    *)
(* configuration the dashboard edits. Every section names the variables it *)
(* is about.                                                               *)
(***************************************************************************)
EXTENDS MCServices, FiniteSetTheorems, SequenceTheorems, TLAPS

\* A behaviour stays with its component and takes the component's steps.
LEMMA ComponentStep ==
    ASSUME [Next]_vars
    PROVE  /\ which' = which
           /\ which = "Dns" => [Dns!Next]_(Dns!vars)
           /\ which = "Ups" => [Ups!Next]_(Ups!vars)
           /\ which = "Web" => [Web!Next]_(Web!vars)
           /\ which = "Nas" => [Nas!Next]_(Nas!vars)
           /\ which = "San" => [San!Next]_(San!vars)
           /\ which = "Ufw" => [Ufw!Next]_(Ufw!vars)
<1>1. which' = which
    BY DEF Next, vars
<1>2. CASE which = "Dns"
    BY <1>1, <1>2 DEF Next, vars, Dns!vars
<1>3. CASE which = "Ups"
    BY <1>1, <1>3 DEF Next, vars, Ups!vars
<1>4. CASE which = "Web"
    BY <1>1, <1>4 DEF Next, vars, Web!vars
<1>5. CASE which = "Nas"
    BY <1>1, <1>5 DEF Next, vars, Nas!vars
<1>6. CASE which = "San"
    BY <1>1, <1>6 DEF Next, vars, San!vars
<1>7. CASE which = "Ufw"
    BY <1>1, <1>7 DEF Next, vars, Ufw!vars
<1> QED
    BY <1>1, <1>2, <1>3, <1>4, <1>5, <1>6, <1>7

----------------------------------------------------------------------------
(* Iscsi *)

live == s1
saved == s2
targetTh == s3
targetRequests == s4
unsaved == s5
USE DEF live, saved, targetTh, targetRequests, unsaved

LEMMA TargetInit ==
    ASSUME San!Init
    PROVE  San!SaveComes
BY DEF San!Init, San!SaveComes

LEMMA TargetStep ==
    ASSUME San!SaveComes, [San!Next]_(San!vars)
    PROVE  San!SaveComes'
<1> USE DEF San!SaveComes
<1>1. ASSUME NEW t \in Threads, NEW todo, San!Begin(t, todo)
      PROVE  San!SaveComes'
    BY <1>1 DEF San!Begin
<1>2. ASSUME NEW t \in Threads, San!Edit(t)
      PROVE  San!SaveComes'
    <2>1. targetTh[t].pc = "edit" /\ UNCHANGED <<saved, unsaved>>
        BY <1>2 DEF San!Edit
    <2>2. CASE targetTh' = [targetTh EXCEPT ![t] = San!AfterEdit(t)]
        <3>1. targetTh'[t].pc = "save" /\ DOMAIN targetTh' = Threads
            BY <2>2 DEF San!AfterEdit
        <3> QED
            BY <3>1
    <2>3. CASE UNCHANGED live /\ \E next : targetTh' = [targetTh EXCEPT ![t] = next]
        BY <2>1, <2>3
    <2> QED
        BY <1>2, <2>2, <2>3 DEF San!Edit
<1>3. ASSUME NEW t \in Threads, San!SaveConfig(t) \/ San!SaveRequest(t)
      PROVE  San!SaveComes'
    BY <1>3 DEF San!SaveConfig, San!SaveRequest
<1>4. CASE San!Restart
    BY <1>4 DEF San!Restart
<1>5. CASE UNCHANGED San!vars
    BY <1>5 DEF San!vars
<1>6. ASSUME NEW t \in Threads,
             \/ San!TargetCreate(t) \/ San!TargetEdit(t) \/ San!StoreEdit(t)
             \/ San!LunEdit(t) \/ San!AclEdit(t) \/ San!AclChap(t)
      PROVE  San!SaveComes'
    BY <1>1, <1>6 DEF San!TargetCreate, San!TargetEdit, San!StoreEdit, San!LunEdit,
                      San!AclEdit, San!AclChap
<1> QED
    BY <1>2, <1>3, <1>4, <1>5, <1>6 DEF San!Next

\* Once every request is answered a restart of target.service loses nothing, unless
\* the latest save failed, for any threads, targets and number of requests (tmutate).
THEOREM RestartLosesNothing == Spec => []RestartKeepsAll
<1>1. Init => (which = "San" => San!SaveComes)
    BY TargetInit DEF Init
<1>2. (which = "San" => San!SaveComes) /\ [Next]_vars => (which = "San" => San!SaveComes)'
    <2> SUFFICES ASSUME which = "San" => San!SaveComes, [Next]_vars, which' = "San"
                 PROVE  San!SaveComes'
        OBVIOUS
    <2> QED
        BY ComponentStep, TargetStep
<1>3. (which = "San" => San!SaveComes) => RestartKeepsAll
    BY DEF San!SaveComes, RestartKeepsAll, San!RestartKeepsAll, San!Idle
<1> QED
    BY <1>1, <1>2, <1>3, PTL DEF Spec

----------------------------------------------------------------------------
(* FileShares *)

shareFiles == s1
dropins == s2
registry == s3
check == s4
shareLoaded == s5
shareTh == s6
shareRequests == s7
failed == s8
USE DEF shareFiles, dropins, registry, check, shareLoaded, shareTh, shareRequests, failed

\* A text the program edits stays a text.
LEMMA ShareTexts ==
    ASSUME Nas!TypeOK
    PROVE  /\ \A f \in Nas!File : shareFiles[f] \in Nas!Texts /\ Nas!Parsed(f) \in Nas!Texts
           /\ Nas!Empty \in Nas!Texts
<1>1. \A f \in Nas!File : shareFiles[f] \in Nas!Texts
    BY DEF Nas!TypeOK
<1>2. "one" \in Nas!Value /\ "none" \in Nas!Value
    BY DEF Nas!Value
<1>3. Nas!Empty \in Nas!Texts
    BY <1>2 DEF Nas!Empty, Nas!Texts
<1>4. ASSUME NEW f \in Nas!File
      PROVE  Nas!Parsed(f) \in Nas!Texts
    BY <1>1, <1>2 DEF Nas!Parsed, Nas!Texts
<1> QED
    BY <1>1, <1>3, <1>4

LEMMA ShareInit ==
    ASSUME Nas!Init
    PROVE  Nas!IInv
<1>1. shareFiles \in [Nas!File -> Nas!Texts]
    BY DEF Nas!Init, Nas!Texts, Nas!Value
<1> QED
    BY <1>1 DEF Nas!Init, Nas!IInv, Nas!TypeOK, Nas!ReloadComes, Nas!Idle

\* A request that begins has written nothing yet.
LEMMA ShareStart ==
    ASSUME Nas!IInv, NEW t \in Threads, NEW f \in Nas!File, NEW text \in Nas!Texts,
           NEW p \in {"scratch", "tee"}, Nas!Start(t, f, [pc |-> p, text |-> text])
    PROVE  Nas!IInv'
<1> DEFINE new == [pc |-> p, file |-> f, text |-> text]
<1>1. /\ shareTh[t].pc = "idle" /\ shareTh' = [shareTh EXCEPT ![t] = new]
      /\ UNCHANGED <<shareFiles, shareLoaded, failed>>
    BY DEF Nas!Start
<1>2. new \in [pc : {"scratch", "test", "tee", "fill", "apply"}, file : Nas!File, text : Nas!Texts]
    OBVIOUS
<1> HIDE DEF new
<1>3. Nas!TypeOK'
    BY <1>1, <1>2 DEF Nas!IInv, Nas!TypeOK
<1>4. Nas!ReloadComes'
    BY <1>1 DEF Nas!IInv, Nas!TypeOK, Nas!ReloadComes, Nas!Accepted
<1> QED
    BY <1>3, <1>4 DEF Nas!IInv

LEMMA ShareStep ==
    ASSUME Nas!IInv, [Nas!Next]_(Nas!vars)
    PROVE  Nas!IInv'
<1>0. /\ Nas!TypeOK /\ Nas!ReloadComes
      /\ shareFiles \in [Nas!File -> Nas!Texts] /\ shareLoaded \in [Nas!File -> Nas!Texts]
    BY DEF Nas!IInv, Nas!TypeOK
<1>n. /\ "smb.conf" \in Nas!File /\ "exports" \in Nas!File /\ "minidlna.conf" \in Nas!File
      /\ {"none", "one", "two", "off", "bad"} = Nas!Value
    BY DEF Nas!File, Nas!Value
<1>1. ASSUME NEW t \in Threads, Nas!ShareSave(t) \/ Nas!ShareDelete(t) \/ Nas!ShareToggle(t) \/ Nas!GlobalSet(t)
      PROVE  Nas!IInv'
    <2>1. \A n \in Nas!Entry, v \in Nas!Value :
             [Nas!Parsed("smb.conf") EXCEPT ![n] = v] \in Nas!Texts
        BY <1>0, <1>n, ShareTexts DEF Nas!Texts
    <2>2. Items \subseteq Nas!Entry /\ "global" \in Nas!Entry
        BY DEF Nas!Entry
    <2>3. PICK n \in Nas!Entry, v \in Nas!Value :
             Nas!Start(t, "smb.conf", [pc |-> "scratch", text |-> [Nas!Parsed("smb.conf") EXCEPT ![n] = v]])
        <3>1. CASE Nas!ShareToggle(t)
            BY <1>n, <2>2, <3>1 DEF Nas!ShareToggle, Nas!Shares
        <3>2. CASE Nas!ShareSave(t) \/ Nas!ShareDelete(t) \/ Nas!GlobalSet(t)
            BY <1>n, <2>2, <3>2 DEF Nas!ShareSave, Nas!ShareDelete, Nas!GlobalSet
        <3> QED
            BY <1>1, <3>1, <3>2
    <2> QED
        BY <1>n, <2>1, <2>3, ShareStart
<1>2. ASSUME NEW t \in Threads, Nas!HomesSet(t) \/ Nas!ExportCreate(t) \/ Nas!ExportDelete(t)
      PROVE  Nas!IInv'
    <2>1. Items \subseteq Nas!Entry /\ "homes" \in Nas!Entry
        BY DEF Nas!Entry
    <2>2. \A f \in Nas!File, n \in Nas!Entry, v \in Nas!Value :
             [shareFiles[f] EXCEPT ![n] = v] \in Nas!Texts
        BY <1>0, ShareTexts DEF Nas!Texts
    <2>3. PICK f \in Nas!File, n \in Nas!Entry, v \in Nas!Value :
             Nas!Start(t, f, [pc |-> "tee", text |-> [shareFiles[f] EXCEPT ![n] = v]])
        BY <1>2, <1>n, <2>1 DEF Nas!HomesSet, Nas!ExportCreate, Nas!ExportDelete
    <2> QED
        BY <2>2, <2>3, ShareStart
<1>3. ASSUME NEW t \in Threads, Nas!DlnaSet(t)
      PROVE  Nas!IInv'
    <2> DEFINE text(ns, v) == [e \in Nas!Entry |-> CASE e \in ns -> "one"
                                 [] e \in Items \ ns -> "none"
                                 [] e = "global" -> v
                                 [] OTHER -> shareFiles["minidlna.conf"][e]]
    <2>1. PICK ns \in SUBSET Items, v \in {"one", "two"} :
             Nas!Start(t, "minidlna.conf", [pc |-> "tee", text |-> text(ns, v)])
        BY <1>3 DEF Nas!DlnaSet
    <2>2. "global" \notin Items
        BY ItemsAssumption
    <2>3. \A e \in Nas!Entry : shareFiles["minidlna.conf"][e] \in Nas!Value
        BY <1>0, <1>n DEF Nas!Texts
    <2>4. \A e \in Nas!Entry : text(ns, v)[e] \in Nas!Value
        BY <1>n, <2>2, <2>3
    <2>5. text(ns, v) \in Nas!Texts
        BY <2>4 DEF Nas!Texts
    <2> HIDE DEF text
    <2> QED
        BY <1>n, <2>1, <2>5, ShareStart
<1>4. ASSUME NEW t \in Threads, Nas!RegistrySave(t)
      PROVE  Nas!IInv'
    BY <1>0, <1>4 DEF Nas!RegistrySave, Nas!IInv, Nas!TypeOK, Nas!ReloadComes, Nas!Accepted
\* The steps of a request that began.
<1>5. ASSUME NEW t \in Threads, shareTh[t].pc # "idle"
      PROVE  /\ shareTh[t].file \in Nas!File /\ shareTh[t].text \in Nas!Texts
             /\ \A p \in {"test", "tee", "fill", "apply"} :
                   LET new == [shareTh[t] EXCEPT !.pc = p] IN
                   /\ new \in [pc : {"scratch", "test", "tee", "fill", "apply"},
                               file : Nas!File, text : Nas!Texts]
                   /\ new.pc = p /\ new.file = shareTh[t].file
    BY <1>0, <1>5 DEF Nas!TypeOK, Nas!Idle
<1>6. ASSUME NEW t \in Threads, Nas!Scratch(t) \/ Nas!Testparm(t)
      PROVE  Nas!IInv'
    <2>1. shareTh[t].pc \in {"scratch", "test"} /\ UNCHANGED <<shareFiles, shareLoaded, failed>>
        BY <1>6 DEF Nas!Scratch, Nas!Testparm
    <2>2. PICK new \in {Nas!Idle, [shareTh[t] EXCEPT !.pc = "test"], [shareTh[t] EXCEPT !.pc = "tee"]} :
             shareTh' = [shareTh EXCEPT ![t] = new]
        BY <1>6 DEF Nas!Scratch, Nas!Testparm
    <2>3. Nas!TypeOK'
        BY <1>0, <1>5, <2>1, <2>2 DEF Nas!TypeOK
    <2>4. Nas!ReloadComes'
        BY <1>0, <2>1, <2>2 DEF Nas!TypeOK, Nas!ReloadComes, Nas!Accepted
    <2> QED
        BY <2>3, <2>4 DEF Nas!IInv
\* A write that goes on: the file it is on is the one that changes.
<1>7. ASSUME NEW t \in Threads, shareTh[t].pc \in {"tee", "fill"}, UNCHANGED <<shareLoaded, failed>>,
             NEW text \in Nas!Texts, shareFiles' = [shareFiles EXCEPT ![shareTh[t].file] = text],
             NEW p \in {"fill", "apply"}, shareTh' = [shareTh EXCEPT ![t].pc = p]
      PROVE  Nas!IInv'
    <2> DEFINE new == [shareTh[t] EXCEPT !.pc = p]
    <2>1. shareTh' = [shareTh EXCEPT ![t] = new]
        BY <1>7
    <2>2. /\ new \in [pc : {"scratch", "test", "tee", "fill", "apply"}, file : Nas!File, text : Nas!Texts]
          /\ new.pc = p /\ new.file = shareTh[t].file
        BY <1>5, <1>7
    <2> HIDE DEF new
    <2>3. Nas!TypeOK'
        <3>1. shareFiles' \in [Nas!File -> Nas!Texts]
            BY <1>0, <1>7
        <3> QED
            BY <1>0, <1>7, <2>1, <2>2, <3>1 DEF Nas!TypeOK
    <2>4. shareTh'[t].pc \in {"fill", "apply"} /\ shareTh'[t].file = shareTh[t].file
        BY <1>0, <1>7, <2>1, <2>2 DEF Nas!TypeOK
    <2>5. ASSUME NEW f \in Nas!File \ failed', Nas!Accepted(shareFiles'[f]), shareLoaded'[f] # shareFiles'[f]
          PROVE  \E o \in Threads : shareTh'[o].pc \in {"fill", "apply"} /\ shareTh'[o].file = f
        <3>1. CASE f = shareTh[t].file
            BY <2>4, <3>1
        <3>2. CASE f # shareTh[t].file
            <4>1. PICK o \in Threads : shareTh[o].pc \in {"fill", "apply"} /\ shareTh[o].file = f
                BY <1>0, <1>7, <2>5, <3>2 DEF Nas!ReloadComes
            <4> QED
                BY <1>0, <2>1, <3>2, <4>1 DEF Nas!TypeOK
        <3> QED
            BY <3>1, <3>2
    <2> QED
        BY <2>3, <2>5 DEF Nas!IInv, Nas!ReloadComes, Nas!Accepted
\* A request that ends: on its file the service runs with it, or the end was a failure,
\* or it had not begun to write.
<1>8. ASSUME NEW t \in Threads, shareTh[t].pc # "idle", UNCHANGED shareFiles,
             shareTh' = [shareTh EXCEPT ![t] = Nas!Idle],
             \/ UNCHANGED <<shareLoaded, failed>> /\ shareTh[t].pc = "tee"
             \/ shareLoaded' = shareLoaded /\ failed' = failed \cup {shareTh[t].file}
             \/ /\ shareLoaded' = [shareLoaded EXCEPT ![shareTh[t].file] = shareFiles[shareTh[t].file]]
                /\ failed' = failed \ {shareTh[t].file}
      PROVE  Nas!IInv'
    <2> DEFINE g == shareTh[t].file
    <2>1. g \in Nas!File
        BY <1>5, <1>8
    <2>2. Nas!TypeOK'
        BY <1>0, <1>8, <2>1 DEF Nas!TypeOK
    <2>3. ASSUME NEW f \in Nas!File \ failed', Nas!Accepted(shareFiles[f]), shareLoaded'[f] # shareFiles[f]
          PROVE  \E o \in Threads : shareTh'[o].pc \in {"fill", "apply"} /\ shareTh'[o].file = f
        <3>1. f \notin failed /\ shareLoaded[f] # shareFiles[f] /\ (f # g \/ shareTh[t].pc = "tee")
            BY <1>0, <1>8, <2>1, <2>3
        <3>2. PICK o \in Threads : shareTh[o].pc \in {"fill", "apply"} /\ shareTh[o].file = f
            BY <1>0, <2>3, <3>1 DEF Nas!ReloadComes
        <3> QED
            BY <1>0, <1>8, <3>1, <3>2 DEF Nas!TypeOK
    <2> QED
        BY <1>8, <2>2, <2>3 DEF Nas!IInv, Nas!ReloadComes, Nas!Accepted
<1>10. ASSUME NEW t \in Threads, Nas!TeeOpen(t)
      PROVE  Nas!IInv'
    <2>1. shareTh[t].pc = "tee" /\ UNCHANGED <<shareLoaded, failed>>
        BY <1>10 DEF Nas!TeeOpen
    <2>2. CASE /\ shareFiles' = [shareFiles EXCEPT ![shareTh[t].file] = Nas!Empty]
               /\ shareTh' = [shareTh EXCEPT ![t].pc = "fill"]
        BY <1>0, <1>7, <2>1, <2>2, ShareTexts
    <2>3. CASE UNCHANGED shareFiles /\ shareTh' = [shareTh EXCEPT ![t] = Nas!Idle]
        BY <1>8, <2>1, <2>3
    <2> QED
        BY <1>10, <2>2, <2>3 DEF Nas!TeeOpen
<1>11. ASSUME NEW t \in Threads, Nas!TeeWrite(t)
      PROVE  Nas!IInv'
    <2>1. shareTh[t].pc = "fill" /\ UNCHANGED shareLoaded
        BY <1>11 DEF Nas!TeeWrite
    <2>2. CASE /\ shareFiles' = [shareFiles EXCEPT ![shareTh[t].file] = shareTh[t].text]
               /\ shareTh' = [shareTh EXCEPT ![t].pc = "apply"] /\ UNCHANGED failed
        BY <1>5, <1>7, <2>1, <2>2
    <2>3. CASE /\ UNCHANGED shareFiles /\ shareTh' = [shareTh EXCEPT ![t] = Nas!Idle]
               /\ failed' = failed \cup {shareTh[t].file}
        BY <1>8, <2>1, <2>3
    <2> QED
        BY <1>11, <2>2, <2>3 DEF Nas!TeeWrite
<1>12. ASSUME NEW t \in Threads, Nas!Reload(t)
      PROVE  Nas!IInv'
    <2>1. /\ shareTh[t].pc = "apply" /\ UNCHANGED shareFiles /\ shareTh' = [shareTh EXCEPT ![t] = Nas!Idle]
          /\ \/ /\ shareLoaded' = [shareLoaded EXCEPT ![shareTh[t].file] = shareFiles[shareTh[t].file]]
                /\ failed' = failed \ {shareTh[t].file}
             \/ shareLoaded' = shareLoaded /\ failed' = failed \cup {shareTh[t].file}
        BY <1>12 DEF Nas!Reload
    <2> QED
        BY <1>8, <2>1
<1>9. CASE UNCHANGED Nas!vars
    BY <1>9 DEF Nas!vars, Nas!IInv, Nas!TypeOK, Nas!ReloadComes, Nas!Accepted
<1> QED
    BY <1>1, <1>2, <1>3, <1>4, <1>6, <1>9, <1>10, <1>11, <1>12 DEF Nas!Next

\* When nobody is on a file of Samba, NFS or DLNA its service runs with it, however
\* any number of requests overlapped, unless the latest write or reload of that file to
\* end failed (smbconf_apply, nfs_export_create, minidlna_apply).
THEOREM ServicesRunTheirFile == Spec => []SharesServed
<1>1. Init => (which = "Nas" => Nas!IInv)
    BY ShareInit DEF Init
<1>2. (which = "Nas" => Nas!IInv) /\ [Next]_vars => (which = "Nas" => Nas!IInv)'
    <2> SUFFICES ASSUME which = "Nas" => Nas!IInv, [Next]_vars, which' = "Nas"
                 PROVE  Nas!IInv'
        OBVIOUS
    <2> QED
        BY ComponentStep, ShareStep
<1>3. (which = "Nas" => Nas!IInv) => SharesServed
    BY DEF Nas!IInv, Nas!ReloadComes, SharesServed, Nas!SharesServed, Nas!AtRest
<1> QED
    BY <1>1, <1>2, <1>3, PTL DEF Spec


----------------------------------------------------------------------------
(* Power *)

upsFiles == s1
upsActive == s2
upsLoaded == s3
upsTh == s4
upsRequests == s5
upsDisturbed == s6
upsLost == s7
USE DEF upsFiles, upsActive, upsLoaded, upsTh, upsRequests, upsDisturbed, upsLost

\* Names, settings and the rest of a file are different entries.
LEMMA UpsEntries ==
    /\ Items \subseteq Ups!Entry /\ {"set", "other"} \subseteq Ups!Entry
    /\ "set" \notin Items /\ "other" \notin Items
BY ItemsAssumption DEF Ups!Entry

LEMMA UpsEditTypes ==
    ASSUME NEW fs \in [Ups!File -> Ups!Texts], NEW edit \in Ups!Edits(fs)
    PROVE  /\ edit.file \in Ups!File /\ edit.entry \in Items \cup {"set"}
           /\ edit.value \in {"none", "one", "two", "bad"}
           /\ Ups!Merged(fs[edit.file], edit) \in Ups!Texts
<1>1. /\ edit.file \in Ups!File /\ edit.entry \in Items \cup {"set"}
      /\ edit.value \in {"none", "one", "two", "bad"}
    BY DEF Ups!Edits, Ups!DeviceEdits, Ups!UserEdits, Ups!ServerEdits, Ups!ModeEdits,
           Ups!MonitorEdits, Ups!SettingEdits, Ups!Sections, Ups!File
<1> QED
    BY <1>1, UpsEntries DEF Ups!Merged, Ups!Texts, Ups!Value

\* What every route lets through leaves a file what it needs.
LEMMA UpsEdits ==
    ASSUME NEW fs \in [Ups!File -> Ups!Texts], NEW edit \in Ups!Edits(fs),
           Ups!Essential(edit.file, fs[edit.file])
    PROVE  Ups!Essential(edit.file, Ups!Merged(fs[edit.file], edit))
<1> DEFINE text == Ups!Merged(fs[edit.file], edit)
           old == fs[edit.file]
<1>1. /\ edit.file \in Ups!File /\ edit.entry \in Items \cup {"set"}
      /\ edit.value \in {"none", "one", "two", "bad"}
    BY UpsEditTypes
<1>2. old \in Ups!Texts /\ Ups!Essential(edit.file, old)
    BY <1>1
<1>3. text = [old EXCEPT ![edit.entry] = edit.value]
    BY DEF Ups!Merged
<1>4. edit.file = "upsd.conf" => edit.value \in {"two", "bad"}
    BY DEF Ups!Edits, Ups!DeviceEdits, Ups!UserEdits, Ups!ServerEdits, Ups!ModeEdits,
           Ups!MonitorEdits, Ups!SettingEdits
<1>5. edit.file = "upsmon.conf" =>
         \/ edit.entry = "set"
         \/ edit.value = "one" /\ edit.entry \in Items
         \/ edit.entry \in Items /\ Ups!Sections(old) # {edit.entry}
    BY DEF Ups!Edits, Ups!DeviceEdits, Ups!UserEdits, Ups!ServerEdits, Ups!ModeEdits,
           Ups!MonitorEdits, Ups!SettingEdits, Ups!Sections
<1> HIDE DEF text, old
<1>6. \A e \in Ups!Entry : text[e] = IF e = edit.entry THEN edit.value ELSE old[e]
    BY <1>1, <1>2, <1>3, UpsEntries DEF Ups!Texts
<1>7. edit.file = "upsmon.conf" => Ups!Sections(text) # {}
    <2> SUFFICES ASSUME edit.file = "upsmon.conf"
                 PROVE  \E n \in Items : text[n] # "none"
        BY DEF Ups!Sections
    <2>1. PICK m \in Items : old[m] # "none"
        BY <1>2 DEF Ups!Essential, Ups!Sections
    <2>2. CASE edit.entry = "set"
        BY <1>6, <2>1, <2>2, UpsEntries
    <2>3. CASE edit.value = "one" /\ edit.entry \in Items
        BY <1>6, <2>3, UpsEntries
    <2>4. CASE edit.entry \in Items /\ Ups!Sections(old) # {edit.entry}
        <3>1. PICK o \in Items : old[o] # "none" /\ o # edit.entry
            BY <2>1, <2>4 DEF Ups!Sections
        <3> QED
            BY <1>6, <3>1, UpsEntries
    <2> QED
        BY <1>5, <2>2, <2>3, <2>4
<1>8. edit.file = "upsd.conf" => text["set"] # "none"
    BY <1>2, <1>4, <1>6, UpsEntries DEF Ups!Essential
<1>9. text["other"] = "one"
    BY <1>1, <1>2, <1>6, UpsEntries DEF Ups!Essential
<1> QED
    BY <1>7, <1>8, <1>9 DEF Ups!Essential, text

\* A plan names every unit that reads the file.
LEMMA PlanCovers ==
    ASSUME NEW f \in Ups!File, NEW u \in Ups!Unit
    PROVE  f \in Ups!Reads[u] => Ups!Planned(f, u)
<1>1. CASE f = "nut.conf"
    <2>1. Ups!Plan(f) = <<"drivers", "server", "monitor">>
        BY <1>1 DEF Ups!Plan
    <2> QED
        BY <2>1 DEF Ups!Planned, Ups!Unit
<1>2. CASE f = "ups.conf"
    <2>1. Ups!Plan(f) = <<"drivers", "server">>
        BY <1>2 DEF Ups!Plan
    <2> QED
        BY <1>2, <2>1 DEF Ups!Planned, Ups!Reads, Ups!Unit
<1>3. CASE f \in {"upsd.conf", "upsd.users"}
    <2>1. Ups!Plan(f) = <<"server">>
        BY <1>3 DEF Ups!Plan
    <2> QED
        BY <1>3, <2>1 DEF Ups!Planned, Ups!Reads, Ups!Unit
<1>4. CASE f = "upsmon.conf"
    <2>1. Ups!Plan(f) = <<"monitor">>
        BY <1>4 DEF Ups!Plan
    <2> QED
        BY <1>4, <2>1 DEF Ups!Planned, Ups!Reads, Ups!Unit
<1> QED
    BY <1>1, <1>2, <1>3, <1>4 DEF Ups!File

LEMMA PlanUnits ==
    ASSUME NEW f \in Ups!File
    PROVE  /\ \A i \in DOMAIN Ups!Plan(f) : Ups!Plan(f)[i] \in Ups!Unit /\ i \in Nat
           /\ \A i, j \in DOMAIN Ups!Plan(f) : Ups!Plan(f)[i] = Ups!Plan(f)[j] => i = j
<1>1. Ups!Plan(f) \in {<<"drivers", "server", "monitor">>, <<"drivers", "server">>, <<"server">>, <<"monitor">>}
    BY DEF Ups!Plan, Ups!File
<1> QED
    BY <1>1 DEF Ups!Unit

\* A unit depends on the files it reads.
LEMMA SameText ==
    ASSUME NEW u \in Ups!Unit, NEW fs, NEW gs, \A f \in Ups!Reads[u] : fs[f] = gs[f]
    PROVE  Ups!Text(u, fs) = Ups!Text(u, gs) /\ (Ups!Refuses(u, fs) <=> Ups!Refuses(u, gs))
<1>1. Ups!Text(u, fs) = Ups!Text(u, gs)
    BY DEF Ups!Text
<1>2. u = "monitor" => fs["upsmon.conf"] = gs["upsmon.conf"]
    BY DEF Ups!Reads
<1> QED
    BY <1>1, <1>2 DEF Ups!Refuses

LEMMA UpsInit ==
    ASSUME Ups!Init
    PROVE  Ups!IInv
<1>1. PICK ns \in (SUBSET Items) \ {{}} :
         upsFiles = [f \in Ups!File |-> [e \in Ups!Entry |->
                       IF e \in ns \cup {"set", "other"} THEN "one" ELSE "none"]]
    BY DEF Ups!Init
<1>2. \A f \in Ups!File, e \in Ups!Entry :
         upsFiles[f][e] = IF e \in ns \cup {"set", "other"} THEN "one" ELSE "none"
    BY <1>1
<1>3. /\ upsFiles \in [Ups!File -> Ups!Texts] /\ DOMAIN upsLoaded = Ups!Unit
      /\ upsActive \in [Ups!Unit -> BOOLEAN] /\ upsTh = [t \in Threads |-> Ups!Idle]
    BY <1>1 DEF Ups!Init, Ups!Texts, Ups!Value
<1>4. Ups!TypeOK
    BY <1>3 DEF Ups!TypeOK
<1>5. \A f \in Ups!File : Ups!Sections(upsFiles[f]) # {} /\ Ups!Essential(f, upsFiles[f])
    <2>1. PICK n \in Items : n \in ns
        OBVIOUS
    <2>2. ASSUME NEW f \in Ups!File
          PROVE  Ups!Sections(upsFiles[f]) # {}
        <3>1. upsFiles[f][n] = "one"
            BY <1>2, <2>1, UpsEntries
        <3> QED
            BY <3>1 DEF Ups!Sections
    <2>3. \A f \in Ups!File : upsFiles[f]["set"] = "one" /\ upsFiles[f]["other"] = "one"
        BY <1>2, UpsEntries
    <2> QED
        BY <2>2, <2>3 DEF Ups!Essential
<1>6. \A u \in Ups!Unit : ~Ups!Refuses(u, upsFiles)
    <2>1. "upsmon.conf" \in Ups!File
        BY DEF Ups!File
    <2>2. \A u \in Ups!Unit : Ups!Reads[u] \subseteq Ups!File
        BY DEF Ups!Reads, Ups!File, Ups!Unit
    <2>3. \A f \in Ups!File, e \in Ups!Entry : upsFiles[f][e] # "bad"
        BY <1>2
    <2>4. Ups!Sections(upsFiles["upsmon.conf"]) # {}
        BY <1>5, <2>1
    <2> QED
        BY <2>2, <2>3, <2>4 DEF Ups!Refuses
<1>7. \A u \in Ups!Unit : upsLoaded[u] = Ups!Text(u, upsFiles)
    BY DEF Ups!Init
<1>8. Ups!EssentialTexts
    BY <1>3, <1>5 DEF Ups!EssentialTexts, Ups!Idle, Ups!Helper
<1>9. Ups!HelperAlone
    BY <1>3, <1>6, <1>7 DEF Ups!HelperAlone, Ups!Steady, Ups!Idle, Ups!Helper
<1> QED
    BY <1>4, <1>8, <1>9 DEF Ups!IInv

\* What a thread under way holds.
UpsAsked == [pc : {"asked"}, file : Ups!File, text : Ups!Texts]
UpsHelps == [pc : Ups!Helper, file : Ups!File, text : Ups!Texts, prev : Ups!Texts,
             was : [Ups!Unit -> BOOLEAN]]

LEMMA UpsThread ==
    ASSUME Ups!TypeOK, NEW t \in Threads, upsTh[t].pc # "idle"
    PROVE  /\ upsTh[t].file \in Ups!File /\ upsTh[t].text \in Ups!Texts
           /\ upsTh[t].pc \in {"asked"} \cup Ups!Helper
           /\ upsTh[t].pc \in Ups!Helper =>
                 /\ upsTh[t].prev \in Ups!Texts /\ upsTh[t].was \in [Ups!Unit -> BOOLEAN]
                 /\ upsTh[t] \in UpsHelps
<1>1. upsTh[t] \in UpsAsked \/ upsTh[t] \in UpsHelps
    BY DEF Ups!TypeOK, Ups!Idle, UpsAsked, UpsHelps
<1> QED
    BY <1>1 DEF Ups!Helper, UpsAsked, UpsHelps

\* A helper that goes on to its next step keeps the rest.
LEMMA UpsGoesOn ==
    ASSUME Ups!TypeOK, NEW t \in Threads, upsTh[t].pc \in Ups!Helper, NEW p \in Ups!Helper,
           upsTh' = [upsTh EXCEPT ![t].pc = p]
    PROVE  /\ upsTh'[t] \in UpsHelps /\ upsTh'[t].pc = p /\ upsTh'[t].file = upsTh[t].file
           /\ upsTh'[t].text = upsTh[t].text
           /\ upsTh'[t].prev = upsTh[t].prev /\ upsTh'[t].was = upsTh[t].was
           /\ upsTh' = [upsTh EXCEPT ![t] = upsTh'[t]]
<1>1. upsTh[t].pc # "idle"
    BY DEF Ups!Helper
<1>2. upsTh[t] \in UpsHelps
    BY <1>1, UpsThread
<1>3. upsTh'[t] = [upsTh[t] EXCEPT !.pc = p]
    BY DEF Ups!TypeOK
<1> QED
    BY <1>2, <1>3 DEF UpsHelps, Ups!TypeOK

\* A step of one thread keeps the types if what it brings has them.
LEMMA UpsOneThread ==
    ASSUME Ups!TypeOK, NEW t \in Threads, NEW new \in {Ups!Idle} \cup UpsAsked \cup UpsHelps,
           upsTh' = [upsTh EXCEPT ![t] = new], upsFiles' \in [Ups!File -> Ups!Texts],
           upsActive' \in [Ups!Unit -> BOOLEAN], DOMAIN upsLoaded' = Ups!Unit
    PROVE  Ups!TypeOK'
BY DEF Ups!TypeOK, UpsAsked, UpsHelps

LEMMA UpsTypeStep ==
    ASSUME Ups!TypeOK, [Ups!Next]_(Ups!vars)
    PROVE  Ups!TypeOK'
<1>0. /\ upsActive \in [Ups!Unit -> BOOLEAN] /\ DOMAIN upsLoaded = Ups!Unit
      /\ upsFiles \in [Ups!File -> Ups!Texts]
    BY DEF Ups!TypeOK
<1>e. Ups!Empty \in Ups!Texts /\ [f \in Ups!File |-> Ups!Empty] \in [Ups!File -> Ups!Texts]
    BY DEF Ups!Empty, Ups!Texts, Ups!Value
<1>1. ASSUME NEW t \in Threads, Ups!Request(t)
      PROVE  Ups!TypeOK'
    <2>1. PICK fs \in {upsFiles, [f \in Ups!File |-> Ups!Empty]} : \E edit \in Ups!Edits(fs) :
             upsTh' = [upsTh EXCEPT ![t] = [pc |-> "asked", file |-> edit.file,
                                            text |-> Ups!Merged(fs[edit.file], edit)]]
        BY <1>1 DEF Ups!Request
    <2>2. PICK edit \in Ups!Edits(fs) :
             upsTh' = [upsTh EXCEPT ![t] = [pc |-> "asked", file |-> edit.file,
                                            text |-> Ups!Merged(fs[edit.file], edit)]]
        BY <2>1
    <2> DEFINE new == [pc |-> "asked", file |-> edit.file, text |-> Ups!Merged(fs[edit.file], edit)]
    <2>3. fs \in [Ups!File -> Ups!Texts]
        BY <1>0, <1>e
    <2>4. new \in UpsAsked
        BY <2>3, UpsEditTypes DEF UpsAsked
    <2>5. UNCHANGED <<upsFiles, upsActive, upsLoaded>>
        BY <1>1 DEF Ups!Request
    <2> HIDE DEF new
    <2> QED
        BY <1>0, <2>2, <2>4, <2>5, UpsOneThread DEF new
<1>2. ASSUME NEW t \in Threads, Ups!HelperStart(t)
      PROVE  Ups!TypeOK'
    <2> DEFINE new == [pc |-> "started", file |-> upsTh[t].file, text |-> upsTh[t].text,
                       prev |-> upsFiles[upsTh[t].file], was |-> upsActive]
    <2>1. /\ upsTh[t].pc = "asked" /\ upsTh' = [upsTh EXCEPT ![t] = new]
          /\ UNCHANGED <<upsFiles, upsActive, upsLoaded>>
        BY <1>2 DEF Ups!HelperStart
    <2>2. new \in UpsHelps
        BY <1>0, <2>1, UpsThread DEF Ups!Helper, UpsHelps
    <2> HIDE DEF new
    <2> QED
        BY <1>0, <2>1, <2>2, UpsOneThread
\* A helper goes on to its next step, or ends.
<1>3. ASSUME NEW t \in Threads, upsTh[t].pc \in Ups!Helper,
             \/ \E p \in Ups!Helper : upsTh' = [upsTh EXCEPT ![t].pc = p]
             \/ upsTh' = [upsTh EXCEPT ![t] = Ups!Idle],
             \/ upsFiles' = upsFiles
             \/ \E text \in {upsTh[t].text, upsTh[t].prev, Ups!Empty} :
                   upsFiles' = [upsFiles EXCEPT ![upsTh[t].file] = text],
             upsActive' \in [Ups!Unit -> BOOLEAN], DOMAIN upsLoaded' = Ups!Unit
      PROVE  Ups!TypeOK'
    <2>1. upsTh[t].pc # "idle"
        BY <1>3 DEF Ups!Helper
    <2>2. /\ upsTh[t].file \in Ups!File
          /\ \A text \in {upsTh[t].text, upsTh[t].prev, Ups!Empty} : text \in Ups!Texts
        BY <1>3, <1>e, <2>1, UpsThread
    <2>3. upsFiles' \in [Ups!File -> Ups!Texts]
        BY <1>0, <1>3, <2>2
    <2>4. CASE \E p \in Ups!Helper : upsTh' = [upsTh EXCEPT ![t].pc = p]
        <3>1. upsTh'[t] \in UpsHelps /\ upsTh' = [upsTh EXCEPT ![t] = upsTh'[t]]
            BY <1>3, <2>4, UpsGoesOn
        <3> QED
            BY <1>3, <2>3, <3>1, UpsOneThread
    <2>5. CASE upsTh' = [upsTh EXCEPT ![t] = Ups!Idle]
        BY <1>3, <2>3, <2>5, UpsOneThread
    <2> QED
        BY <1>3, <2>4, <2>5
<1>4. ASSUME NEW t \in Threads, Ups!HelperWrite(t) \/ Ups!Restore(t) \/ Ups!Refill(t)
      PROVE  Ups!TypeOK'
    <2>1. /\ upsTh[t].pc \in Ups!Helper /\ "written" \in Ups!Helper /\ "emptied" \in Ups!Helper
          /\ "restored" \in Ups!Helper
        BY <1>4 DEF Ups!HelperWrite, Ups!Restore, Ups!Refill, Ups!Helper
    <2>2. upsActive' \in [Ups!Unit -> BOOLEAN] /\ DOMAIN upsLoaded' = Ups!Unit
        BY <1>0, <1>4 DEF Ups!HelperWrite, Ups!Restore, Ups!Refill
    <2>3. CASE Ups!HelperWrite(t)
        BY <1>3, <2>1, <2>2, <2>3 DEF Ups!HelperWrite
    <2>4. CASE Ups!Restore(t)
        BY <1>3, <2>1, <2>2, <2>4 DEF Ups!Restore
    <2>5. CASE Ups!Refill(t)
        BY <1>3, <2>1, <2>2, <2>5 DEF Ups!Refill
    <2> QED
        BY <1>4, <2>3, <2>4, <2>5
<1>5. ASSUME NEW t \in Threads, Ups!Apply(t)
      PROVE  Ups!TypeOK'
    <2>1. upsTh[t].pc \in Ups!Helper /\ "refused" \in Ups!Helper /\ upsFiles' = upsFiles
        BY <1>5 DEF Ups!Apply, Ups!Writing, Ups!Helper
    <2>2. upsActive' \in [Ups!Unit -> BOOLEAN]
        BY Zenon, <1>5 DEF Ups!Apply, Ups!Done
    <2>3. DOMAIN upsLoaded' = Ups!Unit
        BY <1>5 DEF Ups!Apply
    <2>4. CASE upsTh' = [upsTh EXCEPT ![t].pc = "refused"]
        BY <1>3, <2>1, <2>2, <2>3, <2>4
    <2>5. CASE upsTh' = [upsTh EXCEPT ![t] = Ups!Idle]
        BY <1>3, <2>1, <2>2, <2>3, <2>5
    <2> QED
        BY <1>5, <2>4, <2>5 DEF Ups!Apply
<1>6. ASSUME NEW u \in Ups!Unit, Ups!Service(u)
      PROVE  Ups!TypeOK'
    <2>1. DOMAIN upsLoaded' = Ups!Unit /\ UNCHANGED <<upsFiles, upsTh>>
        BY <1>0, <1>6 DEF Ups!Service
    <2>2. Ups!Refuses(u, upsFiles) \in BOOLEAN
        BY DEF Ups!Refuses
    <2>3. upsActive' \in [Ups!Unit -> BOOLEAN]
        BY <1>0, <1>6, <2>2 DEF Ups!Service
    <2> QED
        BY <2>1, <2>3 DEF Ups!TypeOK
<1>7. CASE UNCHANGED Ups!vars
    BY <1>7 DEF Ups!vars, Ups!TypeOK
<1> QED
    BY <1>1, <1>2, <1>4, <1>5, <1>6, <1>7 DEF Ups!Next

\* The histories never go back.
LEMMA UpsHistories ==
    ASSUME [Ups!Next]_(Ups!vars)
    PROVE  /\ ~upsLost' => ~upsLost
           /\ ~upsDisturbed' => ~upsDisturbed
<1>1. ASSUME NEW t \in Threads, Ups!Request(t)
      PROVE  (~upsLost' => ~upsLost) /\ (~upsDisturbed' => ~upsDisturbed)
    BY Zenon, <1>1 DEF Ups!Request
<1>2. ASSUME NEW t \in Threads, Ups!HelperStart(t)
      PROVE  (~upsLost' => ~upsLost) /\ (~upsDisturbed' => ~upsDisturbed)
    BY Zenon, <1>2 DEF Ups!HelperStart
<1>3. ASSUME NEW u \in Ups!Unit, Ups!Service(u)
      PROVE  (~upsLost' => ~upsLost) /\ (~upsDisturbed' => ~upsDisturbed)
    BY Zenon, <1>3 DEF Ups!Service
<1> QED
    BY <1>1, <1>2, <1>3 DEF Ups!Next, Ups!vars, Ups!HelperWrite, Ups!Apply, Ups!Restore, Ups!Refill

\* A step of one thread keeps the essential lines if what it brings has them.
LEMMA UpsOneEssential ==
    ASSUME Ups!TypeOK, Ups!EssentialTexts, NEW t \in Threads, NEW new,
           new.pc # "idle" => Ups!Essential(new.file, new.text),
           new.pc \in Ups!Helper => Ups!Essential(new.file, new.prev),
           upsTh' = [upsTh EXCEPT ![t] = new],
           \A f \in Ups!File :
              \/ Ups!Essential(f, upsFiles'[f])
              \/ upsFiles'[f] = Ups!Empty /\ new.pc = "emptied" /\ new.file = f
              \/ /\ upsFiles'[f] = upsFiles[f]
                 /\ upsTh[t].pc # "emptied" \/ upsTh[t].file # f \/ upsFiles[f] # Ups!Empty
    PROVE  Ups!EssentialTexts'
<1>1. upsTh'[t] = new /\ \A o \in Threads \ {t} : upsTh'[o] = upsTh[o]
    BY DEF Ups!TypeOK
<1>2. ASSUME NEW f \in Ups!File
      PROVE  Ups!Essential(f, upsFiles'[f]) \/ (upsFiles'[f] = Ups!Empty /\ Ups!BeingPutBack(f)')
    <2>1. CASE upsFiles'[f] = Ups!Empty /\ new.pc = "emptied" /\ new.file = f
        BY <1>1, <2>1 DEF Ups!BeingPutBack
    <2>2. CASE /\ upsFiles'[f] = upsFiles[f]
               /\ upsTh[t].pc # "emptied" \/ upsTh[t].file # f \/ upsFiles[f] # Ups!Empty
        <3>1. Ups!Essential(f, upsFiles[f]) \/ (upsFiles[f] = Ups!Empty /\ Ups!BeingPutBack(f))
            BY DEF Ups!EssentialTexts
        <3>2. CASE upsFiles[f] = Ups!Empty /\ Ups!BeingPutBack(f)
            <4>1. PICK o \in Threads : upsTh[o].pc = "emptied" /\ upsTh[o].file = f
                BY <3>2 DEF Ups!BeingPutBack
            <4>2. o # t
                BY <2>2, <3>2, <4>1
            <4> QED
                BY <1>1, <2>2, <3>2, <4>1, <4>2 DEF Ups!BeingPutBack
        <3>3. CASE Ups!Essential(f, upsFiles[f])
            BY <2>2, <3>3
        <3> QED
            BY <3>1, <3>2, <3>3
    <2> QED
        BY <2>1, <2>2
<1>3. ASSUME NEW o \in Threads
      PROVE  /\ upsTh'[o].pc # "idle" => Ups!Essential(upsTh'[o].file, upsTh'[o].text)
             /\ upsTh'[o].pc \in Ups!Helper => Ups!Essential(upsTh'[o].file, upsTh'[o].prev)
    <2>1. CASE o = t
        BY <1>1, <2>1
    <2>2. CASE o # t
        BY <1>1, <2>2 DEF Ups!EssentialTexts
    <2> QED
        BY <2>1, <2>2
<1> QED
    BY <1>2, <1>3 DEF Ups!EssentialTexts, Ups!Essential, Ups!Sections

LEMMA UpsEssentialStep ==
    ASSUME Ups!TypeOK, Ups!EssentialTexts, ~upsLost', [Ups!Next]_(Ups!vars)
    PROVE  Ups!EssentialTexts'
<1>0. /\ upsFiles \in [Ups!File -> Ups!Texts] /\ DOMAIN upsTh = Threads
      /\ \A f \in Ups!File : upsFiles[f] # Ups!Empty => Ups!Essential(f, upsFiles[f])
    BY DEF Ups!TypeOK, Ups!EssentialTexts
<1>h. Ups!Helper = {"started", "written", "refused", "emptied", "restored"}
    BY DEF Ups!Helper
<1>1. ASSUME NEW t \in Threads, Ups!Request(t)
      PROVE  Ups!EssentialTexts'
    <2>1. PICK fs \in {upsFiles, [f \in Ups!File |-> Ups!Empty]} : \E edit \in Ups!Edits(fs) :
             /\ upsTh' = [upsTh EXCEPT ![t] = [pc |-> "asked", file |-> edit.file,
                                               text |-> Ups!Merged(fs[edit.file], edit)]]
             /\ upsLost' = (upsLost \/ fs[edit.file] = Ups!Empty)
        BY Zenon, <1>1 DEF Ups!Request
    <2>2. PICK edit \in Ups!Edits(fs) :
             /\ upsTh' = [upsTh EXCEPT ![t] = [pc |-> "asked", file |-> edit.file,
                                               text |-> Ups!Merged(fs[edit.file], edit)]]
             /\ upsLost' = (upsLost \/ fs[edit.file] = Ups!Empty)
        BY Zenon, <2>1
    <2>3. fs[edit.file] # Ups!Empty
        BY Zenon, <2>2
    <2>4. fs \in [Ups!File -> Ups!Texts]
        BY <1>0 DEF Ups!Empty, Ups!Texts, Ups!Value
    <2>5. edit.file \in Ups!File
        BY <2>4, UpsEditTypes
    <2>6. fs = upsFiles
        BY <2>3, <2>5
    <2>7. Ups!Essential(edit.file, Ups!Merged(fs[edit.file], edit))
        BY <1>0, <2>3, <2>4, <2>5, <2>6, UpsEdits
    <2> DEFINE new == [pc |-> "asked", file |-> edit.file, text |-> Ups!Merged(fs[edit.file], edit)]
    <2>8. Ups!Essential(new.file, new.text) /\ new.pc = "asked" /\ upsTh' = [upsTh EXCEPT ![t] = new]
        BY <2>2, <2>7
    <2>9. upsFiles' = upsFiles /\ upsTh[t].pc = "idle"
        BY <1>1 DEF Ups!Request
    <2> HIDE DEF new
    <2> QED
        BY <1>h, <2>8, <2>9, UpsOneEssential
<1>2. ASSUME NEW t \in Threads, Ups!HelperStart(t)
      PROVE  Ups!EssentialTexts'
    <2> DEFINE new == [pc |-> "started", file |-> upsTh[t].file, text |-> upsTh[t].text,
                       prev |-> upsFiles[upsTh[t].file], was |-> upsActive]
    <2>1. upsTh[t].pc = "asked" /\ upsTh' = [upsTh EXCEPT ![t] = new] /\ upsFiles' = upsFiles
        BY <1>2 DEF Ups!HelperStart
    <2>2. upsFiles[upsTh[t].file] # Ups!Empty
        BY Zenon, <1>2 DEF Ups!HelperStart
    <2>3. upsTh[t].file \in Ups!File
        BY <2>1, UpsThread
    <2>4. /\ new.file = upsTh[t].file /\ new.text = upsTh[t].text
          /\ new.prev = upsFiles[upsTh[t].file]
        OBVIOUS
    <2>5. Ups!Essential(new.file, new.text) /\ Ups!Essential(new.file, new.prev)
        BY <1>0, <2>1, <2>2, <2>3, <2>4 DEF Ups!EssentialTexts
    <2> HIDE DEF new
    <2> QED
        BY <2>1, <2>5, UpsOneEssential
\* A helper goes on to its next step, or ends.
<1>3. ASSUME NEW t \in Threads, upsTh[t].pc \in Ups!Helper,
             \/ \E p \in Ups!Helper : upsTh' = [upsTh EXCEPT ![t].pc = p]
             \/ upsTh' = [upsTh EXCEPT ![t] = Ups!Idle]
      PROVE  /\ upsTh' = [upsTh EXCEPT ![t] = upsTh'[t]]
             /\ upsTh'[t].pc # "idle" => Ups!Essential(upsTh'[t].file, upsTh'[t].text)
             /\ upsTh'[t].pc \in Ups!Helper => Ups!Essential(upsTh'[t].file, upsTh'[t].prev)
             /\ Ups!Essential(upsTh[t].file, upsTh[t].text)
             /\ Ups!Essential(upsTh[t].file, upsTh[t].prev)
             /\ upsTh[t].file \in Ups!File
    <2>1. /\ upsTh[t].pc # "idle"
          /\ Ups!Essential(upsTh[t].file, upsTh[t].text)
          /\ Ups!Essential(upsTh[t].file, upsTh[t].prev)
        BY <1>3, <1>h DEF Ups!EssentialTexts
    <2>2. upsTh[t].file \in Ups!File
        BY <2>1, UpsThread
    <2>3. CASE \E p \in Ups!Helper : upsTh' = [upsTh EXCEPT ![t].pc = p]
        BY <1>3, <2>1, <2>2, <2>3, UpsGoesOn
    <2>4. CASE upsTh' = [upsTh EXCEPT ![t] = Ups!Idle]
        BY <1>0, <1>h, <2>1, <2>2, <2>4 DEF Ups!Idle
    <2> QED
        BY <1>3, <2>3, <2>4
<1>4. ASSUME NEW t \in Threads, Ups!HelperWrite(t)
      PROVE  Ups!EssentialTexts'
    <2>1. /\ upsTh[t].pc = "started"
          /\ \/ upsTh' = [upsTh EXCEPT ![t].pc = "written"]
             \/ upsTh' = [upsTh EXCEPT ![t] = Ups!Idle]
          /\ \/ upsFiles' = [upsFiles EXCEPT ![upsTh[t].file] = upsTh[t].text]
             \/ upsFiles' = upsFiles
        BY <1>4 DEF Ups!HelperWrite
    <2>2. upsTh[t].pc \in Ups!Helper /\ "written" \in Ups!Helper
        BY <1>h, <2>1
    <2>3. \A f \in Ups!File : Ups!Essential(f, upsFiles'[f]) \/ upsFiles'[f] = upsFiles[f]
        BY <1>0, <1>3, <2>1, <2>2
    <2> QED
        BY <1>3, <2>1, <2>2, <2>3, UpsOneEssential
<1>5. ASSUME NEW t \in Threads, Ups!Restore(t)
      PROVE  Ups!EssentialTexts'
    <2>1. /\ upsTh[t].pc = "refused" /\ upsTh' = [upsTh EXCEPT ![t].pc = "emptied"]
          /\ upsFiles' = [upsFiles EXCEPT ![upsTh[t].file] = Ups!Empty]
        BY <1>5 DEF Ups!Restore
    <2>2. upsTh[t].pc \in Ups!Helper /\ "emptied" \in Ups!Helper
        BY <1>h, <2>1
    <2>3. upsTh'[t].pc = "emptied" /\ upsTh'[t].file = upsTh[t].file
        BY <2>1, <2>2, UpsGoesOn
    <2>4. \A f \in Ups!File :
             \/ upsFiles'[f] = Ups!Empty /\ upsTh'[t].pc = "emptied" /\ upsTh'[t].file = f
             \/ upsFiles'[f] = upsFiles[f] /\ upsTh[t].pc # "emptied"
        BY <1>0, <2>1, <2>3
    <2>5. /\ upsTh' = [upsTh EXCEPT ![t] = upsTh'[t]]
          /\ upsTh'[t].pc # "idle" => Ups!Essential(upsTh'[t].file, upsTh'[t].text)
          /\ upsTh'[t].pc \in Ups!Helper => Ups!Essential(upsTh'[t].file, upsTh'[t].prev)
        BY <1>3, <2>1, <2>2
    <2> QED
        BY <2>4, <2>5, UpsOneEssential
<1>6. ASSUME NEW t \in Threads, Ups!Refill(t)
      PROVE  Ups!EssentialTexts'
    <2>0. upsTh[t].pc = "emptied" /\ upsTh[t].pc \in Ups!Helper /\ "restored" \in Ups!Helper
        BY <1>6, <1>h DEF Ups!Refill
    <2>1. /\ upsTh' = [upsTh EXCEPT ![t].pc = "restored"]
          /\ \/ upsFiles' = [upsFiles EXCEPT ![upsTh[t].file] = upsTh[t].prev]
             \/ upsFiles[upsTh[t].file] # Ups!Empty /\ upsFiles' = upsFiles
        BY Zenon, <1>6 DEF Ups!Refill
    <2>2. \A f \in Ups!File :
             \/ Ups!Essential(f, upsFiles'[f])
             \/ upsFiles'[f] = upsFiles[f] /\ (upsTh[t].file # f \/ upsFiles[f] # Ups!Empty)
        BY <1>0, <1>3, <2>0, <2>1
    <2>3. /\ upsTh' = [upsTh EXCEPT ![t] = upsTh'[t]]
          /\ upsTh'[t].pc # "idle" => Ups!Essential(upsTh'[t].file, upsTh'[t].text)
          /\ upsTh'[t].pc \in Ups!Helper => Ups!Essential(upsTh'[t].file, upsTh'[t].prev)
        BY <1>3, <2>0, <2>1
    <2> QED
        BY <2>2, <2>3, UpsOneEssential
<1>7. ASSUME NEW t \in Threads, Ups!Apply(t)
      PROVE  Ups!EssentialTexts'
    <2>1. /\ upsTh[t].pc \in {"written", "restored"} /\ upsFiles' = upsFiles
          /\ \/ upsTh' = [upsTh EXCEPT ![t].pc = "refused"]
             \/ upsTh' = [upsTh EXCEPT ![t] = Ups!Idle]
        BY <1>7 DEF Ups!Apply, Ups!Writing
    <2>2. upsTh[t].pc \in Ups!Helper /\ "refused" \in Ups!Helper
        BY <1>h, <2>1
    <2> QED
        BY <1>3, <2>1, <2>2, UpsOneEssential
<1>8. CASE UNCHANGED <<upsFiles, upsTh>>
    BY <1>8 DEF Ups!EssentialTexts, Ups!Essential, Ups!Sections, Ups!BeingPutBack
<1> QED
    BY <1>1, <1>2, <1>4, <1>5, <1>6, <1>7, <1>8 DEF Ups!Next, Ups!Service, Ups!vars

\* When a helper runs it is the only one.
LEMMA UpsSole ==
    ASSUME Ups!HelperAlone, NEW t \in Threads, upsTh[t].pc \in Ups!Helper
    PROVE  \A o \in Threads \ {t} : upsTh[o].pc \notin Ups!Helper
BY DEF Ups!HelperAlone

LEMMA UpsHelperStep ==
    ASSUME NEW t \in Threads,
           \A o \in Threads \ {t} : upsTh'[o].pc \notin Ups!Helper,
           upsTh'[t].pc \notin Ups!Helper => \A u \in Ups!Unit : Ups!Steady(u, upsFiles)',
           upsTh'[t].pc \in {"started", "restored"} => upsFiles'[upsTh'[t].file] = upsTh'[t].prev,
           upsTh'[t].pc \in {"started", "written"} =>
               upsTh'[t].was = upsActive' /\ \A u \in Ups!Unit : Ups!Steady(u, Ups!Before(t))',
           upsTh'[t].pc = "emptied" => upsFiles'[upsTh'[t].file] = Ups!Empty,
           upsTh'[t].pc \in {"refused", "emptied", "restored"} => \A u \in Ups!Unit :
               /\ upsTh'[t].was[u] => ~Ups!Refuses(u, Ups!Before(t))'
               /\ upsActive'[u] => upsTh'[t].was[u]
               /\ upsActive'[u] /\ ~Ups!Planned(upsTh[t].file, u)' =>
                     upsLoaded'[u] = Ups!Text(u, Ups!Before(t))'
    PROVE  Ups!HelperAlone'
<1>1. \A o \in Threads : upsTh'[o].pc \in Ups!Helper => o = t
    OBVIOUS
<1>2. {"started", "written", "refused", "emptied", "restored"} = Ups!Helper
    BY DEF Ups!Helper
<1> QED
    BY <1>1, <1>2 DEF Ups!HelperAlone

\* What applying the plan does to a unit.
LEMMA UpsApplied ==
    ASSUME Ups!TypeOK, NEW t \in Threads, Ups!Apply(t), NEW u \in Ups!Unit
    PROVE  /\ Ups!Refusing(t) = {} =>
                 IF upsTh[t].was[u] /\ Ups!Planned(upsTh[t].file, u)
                 THEN /\ upsActive'[u] /\ upsLoaded'[u] = Ups!Text(u, upsFiles)
                      /\ ~Ups!Refuses(u, upsFiles)
                 ELSE upsActive'[u] = upsActive[u] /\ upsLoaded'[u] = upsLoaded[u]
           /\ upsActive'[u] => upsTh[t].was[u] \/ upsActive[u]
           /\ ~Ups!Planned(upsTh[t].file, u) =>
                 upsActive'[u] = upsActive[u] /\ upsLoaded'[u] = upsLoaded[u]
<1> DEFINE f == upsTh[t].file
           plan == Ups!Plan(f)
           was == upsTh[t].was
<1>1. upsTh[t].pc \in Ups!Helper /\ upsTh[t].pc # "idle"
    BY DEF Ups!Apply, Ups!Writing, Ups!Helper
<1>2. f \in Ups!File /\ was \in [Ups!Unit -> BOOLEAN]
    BY <1>1, UpsThread
<1>3. \A i \in DOMAIN plan : plan[i] \in Ups!Unit /\ i \in Nat
    BY <1>2, PlanUnits
<1>4. /\ upsLoaded'[u] = IF Ups!Done(t, u) THEN Ups!Text(u, upsFiles) ELSE upsLoaded[u]
      /\ upsActive'[u] = (\/ Ups!Done(t, u)
                          \/ upsActive[u] /\ ~(Ups!Fails(t, u) /\ ~Ups!Reloads(f, u)))
    BY Zenon DEF Ups!Apply
<1>5. /\ Ups!Done(t, u) => was[u] /\ Ups!Planned(f, u)
      /\ Ups!Fails(t, u) => Ups!Planned(f, u)
    BY DEF Ups!Done, Ups!Fails, Ups!Concerned, Ups!Refusing, Ups!Planned
<1>6. ASSUME Ups!Refusing(t) = {}
      PROVE  /\ Ups!Done(t, u) <=> was[u] /\ Ups!Planned(f, u)
             /\ ~Ups!Fails(t, u)
             /\ Ups!Done(t, u) => ~Ups!Refuses(u, upsFiles)
    <2>1. ASSUME was[u], Ups!Planned(f, u)
          PROVE  Ups!Done(t, u) /\ ~Ups!Refuses(u, upsFiles)
        <3>1. PICK i \in DOMAIN plan : plan[i] = u
            BY <2>1 DEF Ups!Planned
        <3>2. i \in Ups!Concerned(t)
            BY <2>1, <3>1 DEF Ups!Concerned
        <3>3. Ups!Done(t, u)
            BY <1>6, <3>1, <3>2 DEF Ups!Done
        <3>4. ~Ups!Refuses(u, upsFiles)
            BY <1>6, <3>1, <3>2 DEF Ups!Refusing
        <3> QED
            BY <3>3, <3>4
    <2> QED
        BY <1>5, <1>6, <2>1 DEF Ups!Fails
<1>7. upsActive[u] \in BOOLEAN
    BY DEF Ups!TypeOK
<1> HIDE DEF f, plan, was
<1>8. ~Ups!Planned(f, u) => upsActive'[u] = upsActive[u] /\ upsLoaded'[u] = upsLoaded[u]
    BY <1>4, <1>5, <1>7
<1>9. Ups!Refusing(t) = {} =>
         IF was[u] /\ Ups!Planned(f, u)
         THEN upsActive'[u] /\ upsLoaded'[u] = Ups!Text(u, upsFiles) /\ ~Ups!Refuses(u, upsFiles)
         ELSE upsActive'[u] = upsActive[u] /\ upsLoaded'[u] = upsLoaded[u]
    BY <1>4, <1>6, <1>7
<1>10. upsActive'[u] => was[u] \/ upsActive[u]
    BY <1>4, <1>5
<1> QED
    BY <1>8, <1>9, <1>10 DEF f, was

LEMMA UpsAloneStep ==
    ASSUME Ups!TypeOK, Ups!HelperAlone, ~upsDisturbed', [Ups!Next]_(Ups!vars)
    PROVE  Ups!HelperAlone'
<1>0. /\ upsActive \in [Ups!Unit -> BOOLEAN] /\ upsFiles \in [Ups!File -> Ups!Texts]
      /\ DOMAIN upsTh = Threads
    BY DEF Ups!TypeOK
<1>h. Ups!Helper = {"started", "written", "refused", "emptied", "restored"}
    BY DEF Ups!Helper
\* Nothing that the helpers look at changes.
<1>1. ASSUME UNCHANGED <<upsFiles, upsActive, upsLoaded>>,
             \A o \in Threads : \/ upsTh'[o] = upsTh[o]
                                \/ upsTh[o].pc \notin Ups!Helper /\ upsTh'[o].pc \notin Ups!Helper
      PROVE  Ups!HelperAlone'
    <2>1. ASSUME NEW o \in Threads, upsTh'[o].pc \in Ups!Helper
          PROVE  upsTh[o].pc \in Ups!Helper /\ upsTh'[o] = upsTh[o] /\ Ups!Before(o)' = Ups!Before(o)
        BY <1>1, <2>1 DEF Ups!Before
    <2>2. \A fs : \A u \in Ups!Unit : Ups!Steady(u, fs) =>
             (upsActive'[u] => upsLoaded'[u] = Ups!Text(u, fs) /\ ~Ups!Refuses(u, fs))
        BY <1>1 DEF Ups!Steady
    <2>3. CASE \A t \in Threads : upsTh'[t].pc \notin Ups!Helper
        <3>1. \A u \in Ups!Unit : Ups!Steady(u, upsFiles)
            BY <1>1, <2>3 DEF Ups!HelperAlone
        <3>2. \A u \in Ups!Unit : Ups!Steady(u, upsFiles)'
            BY <1>1, <2>2, <3>1 DEF Ups!Steady, Ups!Text, Ups!Refuses
        <3> QED
            BY <1>h, <2>3, <3>2 DEF Ups!HelperAlone
    <2>4. ASSUME NEW t \in Threads, upsTh'[t].pc \in Ups!Helper
          PROVE  Ups!HelperAlone'
        <3>1. upsTh[t].pc \in Ups!Helper /\ upsTh'[t] = upsTh[t] /\ Ups!Before(t)' = Ups!Before(t)
            BY <2>1, <2>4
        <3>2. \A o \in Threads \ {t} : upsTh'[o].pc \notin Ups!Helper
            BY <2>1, <3>1 DEF Ups!HelperAlone
        <3>3. upsTh[t].pc \in {"started", "restored"} => upsFiles[upsTh[t].file] = upsTh[t].prev
            BY DEF Ups!HelperAlone
        <3>4. upsTh[t].pc \in {"started", "written"} =>
                 upsTh[t].was = upsActive /\ \A u \in Ups!Unit : Ups!Steady(u, Ups!Before(t))
            BY DEF Ups!HelperAlone
        <3>5. upsTh'[t].pc \in {"started", "written"} =>
                 upsTh'[t].was = upsActive' /\ \A u \in Ups!Unit : Ups!Steady(u, Ups!Before(t))'
            BY <1>1, <3>1, <3>4 DEF Ups!Steady, Ups!Text, Ups!Refuses
        <3>6. upsTh[t].pc \in {"refused", "emptied", "restored"} => \A u \in Ups!Unit :
                 /\ upsTh[t].was[u] => ~Ups!Refuses(u, Ups!Before(t))
                 /\ upsActive[u] => upsTh[t].was[u]
                 /\ upsActive[u] /\ ~Ups!Planned(upsTh[t].file, u) =>
                       upsLoaded[u] = Ups!Text(u, Ups!Before(t))
            BY DEF Ups!HelperAlone
        <3>8. upsTh[t].pc = "emptied" => upsFiles[upsTh[t].file] = Ups!Empty
            BY DEF Ups!HelperAlone
        <3>7. upsTh'[t].pc \in {"refused", "emptied", "restored"} => \A u \in Ups!Unit :
                 /\ upsTh'[t].was[u] => ~Ups!Refuses(u, Ups!Before(t))'
                 /\ upsActive'[u] => upsTh'[t].was[u]
                 /\ upsActive'[u] /\ ~Ups!Planned(upsTh[t].file, u)' =>
                       upsLoaded'[u] = Ups!Text(u, Ups!Before(t))'
            BY <1>1, <3>1, <3>6 DEF Ups!Text, Ups!Refuses, Ups!Planned
        <3> QED
            BY <1>1, <2>4, <3>1, <3>2, <3>3, <3>5, <3>7, <3>8, UpsHelperStep
    <2> QED
        BY <2>3, <2>4
<1>2. ASSUME NEW t \in Threads, Ups!Request(t)
      PROVE  Ups!HelperAlone'
    <2>1. upsTh[t].pc = "idle" /\ upsTh'[t].pc = "asked" /\ \A o \in Threads \ {t} : upsTh'[o] = upsTh[o]
        BY <1>0, <1>2 DEF Ups!Request
    <2>2. UNCHANGED <<upsFiles, upsActive, upsLoaded>>
        BY <1>2 DEF Ups!Request
    <2> QED
        BY <1>1, <1>h, <2>1, <2>2
<1>3. ASSUME NEW t \in Threads, Ups!HelperStart(t)
      PROVE  Ups!HelperAlone'
    <2> DEFINE f == upsTh[t].file
               new == [pc |-> "started", file |-> f, text |-> upsTh[t].text,
                       prev |-> upsFiles[f], was |-> upsActive]
    <2>1. /\ upsTh[t].pc = "asked" /\ upsTh' = [upsTh EXCEPT ![t] = new]
          /\ UNCHANGED <<upsFiles, upsActive, upsLoaded>>
        BY <1>3 DEF Ups!HelperStart
    <2>0. \A o \in Threads : upsTh[o].pc \notin Ups!Helper
        <3>1. Ups!Helping = {}
            BY Zenon, <1>3 DEF Ups!HelperStart
        <3> QED
            BY <3>1 DEF Ups!Helping
    <2>2. upsTh'[t] = new /\ \A o \in Threads \ {t} : upsTh'[o] = upsTh[o]
        BY <1>0, <2>1
    <2>3. \A u \in Ups!Unit : Ups!Steady(u, upsFiles)
        BY <2>0 DEF Ups!HelperAlone
    <2>4. f \in Ups!File
        BY <2>1, UpsThread
    <2>5. Ups!Before(t)' = upsFiles
        <3>1. upsTh'[t].file = f /\ upsTh'[t].prev = upsFiles[f]
            BY <2>2
        <3> QED
            BY <1>0, <2>1, <2>4, <3>1 DEF Ups!Before
    <2>6. \A u \in Ups!Unit : Ups!Steady(u, Ups!Before(t))'
        BY <2>1, <2>3, <2>5 DEF Ups!Steady, Ups!Text, Ups!Refuses
    <2> QED
        BY <1>h, <2>0, <2>1, <2>2, <2>6, UpsHelperStep
<1>4. ASSUME NEW t \in Threads, Ups!HelperWrite(t)
      PROVE  Ups!HelperAlone'
    <2> DEFINE f == upsTh[t].file
    <2>1. upsTh[t].pc = "started" /\ UNCHANGED <<upsActive, upsLoaded>>
        BY <1>4 DEF Ups!HelperWrite
    <2>2. upsTh[t].pc \in Ups!Helper /\ upsTh[t].pc # "idle" /\ "written" \in Ups!Helper
        BY <1>h, <2>1
    <2>3. upsTh[t].was = upsActive /\ \A u \in Ups!Unit : Ups!Steady(u, Ups!Before(t))
        BY <2>1 DEF Ups!HelperAlone
    <2>4. CASE /\ upsFiles' = [upsFiles EXCEPT ![f] = upsTh[t].text]
               /\ upsTh' = [upsTh EXCEPT ![t].pc = "written"]
        <3>1. \A o \in Threads \ {t} : upsTh[o].pc \notin Ups!Helper /\ upsTh'[o] = upsTh[o]
            BY <1>0, <2>2, <2>4, UpsSole
        <3>2. /\ upsTh'[t].pc = "written" /\ upsTh'[t].file = f
              /\ upsTh'[t].prev = upsTh[t].prev /\ upsTh'[t].was = upsTh[t].was
            BY <2>2, <2>4, UpsGoesOn
        <3>3. Ups!Before(t)' = Ups!Before(t)
            BY <1>0, <2>4, <3>2 DEF Ups!Before
        <3>4. \A u \in Ups!Unit : Ups!Steady(u, Ups!Before(t))'
            BY <2>1, <2>3, <3>3 DEF Ups!Steady, Ups!Text, Ups!Refuses
        <3> QED
            BY <1>h, <2>1, <2>3, <3>1, <3>2, <3>4, UpsHelperStep
    \* The text could not be written: the old one is there.
    <2>5. CASE upsFiles' = upsFiles /\ upsTh' = [upsTh EXCEPT ![t] = Ups!Idle]
        <3>1. \A o \in Threads \ {t} : upsTh[o].pc \notin Ups!Helper /\ upsTh'[o] = upsTh[o]
            BY <1>0, <2>2, <2>5, UpsSole
        <3>2. upsTh'[t] = Ups!Idle /\ upsTh'[t].pc \notin Ups!Helper
            BY <1>0, <1>h, <2>5 DEF Ups!Idle
        <3>3. upsFiles[f] = upsTh[t].prev
            BY <2>1 DEF Ups!HelperAlone
        <3>4. Ups!Before(t) = upsFiles
            BY <1>0, <3>3 DEF Ups!Before
        <3>5. \A u \in Ups!Unit : Ups!Steady(u, upsFiles)'
            BY <2>1, <2>3, <2>5, <3>4 DEF Ups!Steady, Ups!Text, Ups!Refuses
        <3> QED
            BY <1>h, <3>1, <3>2, <3>5, UpsHelperStep
    <2> QED
        BY <1>4, <2>4, <2>5 DEF Ups!HelperWrite
<1>5. ASSUME NEW t \in Threads, Ups!Restore(t) \/ Ups!Refill(t)
      PROVE  Ups!HelperAlone'
    <2> DEFINE f == upsTh[t].file
    <2>1. upsTh[t].pc \in {"refused", "emptied"} /\ UNCHANGED <<upsActive, upsLoaded>>
        BY <1>5 DEF Ups!Restore, Ups!Refill
    <2>2. upsTh[t].pc \in Ups!Helper /\ upsTh[t].pc # "idle"
        BY <1>h, <2>1
    <2>3. f \in Ups!File
        BY <2>2, UpsThread
    <2>4. \/ /\ upsTh' = [upsTh EXCEPT ![t].pc = "emptied"]
             /\ upsFiles' = [upsFiles EXCEPT ![f] = Ups!Empty]
          \/ /\ upsTh' = [upsTh EXCEPT ![t].pc = "restored"]
             /\ upsFiles' = [upsFiles EXCEPT ![f] = upsTh[t].prev]
        <3>1. CASE Ups!Restore(t)
            BY <3>1 DEF Ups!Restore
        <3>2. CASE Ups!Refill(t)
            <4>1. upsTh[t].pc = "emptied"
                BY <3>2 DEF Ups!Refill
            <4>2. upsFiles[f] = Ups!Empty
                BY <4>1 DEF Ups!HelperAlone
            <4> QED
                BY Zenon, <3>2, <4>2 DEF Ups!Refill
        <3> QED
            BY <1>5, <3>1, <3>2
    <2>5. /\ \A o \in Threads \ {t} : upsTh[o].pc \notin Ups!Helper /\ upsTh'[o] = upsTh[o]
          /\ \E text : upsFiles' = [upsFiles EXCEPT ![f] = text]
        BY <1>0, <2>2, <2>4, UpsSole
    <2>6. /\ upsTh'[t].file = f /\ upsTh'[t].pc \in {"emptied", "restored"}
          /\ upsTh'[t].prev = upsTh[t].prev /\ upsTh'[t].was = upsTh[t].was
        BY <1>h, <2>2, <2>4, UpsGoesOn
    <2>7. /\ upsTh'[t].pc = "emptied" => upsFiles'[f] = Ups!Empty
          /\ upsTh'[t].pc = "restored" => upsFiles'[f] = upsTh[t].prev
        BY <1>0, <1>h, <2>2, <2>3, <2>4, UpsGoesOn
    <2>8. Ups!Before(t)' = Ups!Before(t)
        BY <1>0, <2>5, <2>6 DEF Ups!Before
    <2>9. \A u \in Ups!Unit :
             /\ upsTh[t].was[u] => ~Ups!Refuses(u, Ups!Before(t))
             /\ upsActive[u] => upsTh[t].was[u]
             /\ upsActive[u] /\ ~Ups!Planned(f, u) => upsLoaded[u] = Ups!Text(u, Ups!Before(t))
        BY <2>1 DEF Ups!HelperAlone
    <2>10. \A u \in Ups!Unit :
             /\ upsTh'[t].was[u] => ~Ups!Refuses(u, Ups!Before(t))'
             /\ upsActive'[u] => upsTh'[t].was[u]
             /\ upsActive'[u] /\ ~Ups!Planned(upsTh[t].file, u)' =>
                   upsLoaded'[u] = Ups!Text(u, Ups!Before(t))'
        BY <2>1, <2>6, <2>8, <2>9 DEF Ups!Text, Ups!Refuses, Ups!Planned
    <2> QED
        BY <1>h, <2>5, <2>6, <2>7, <2>10, UpsHelperStep
<1>6. ASSUME NEW t \in Threads, Ups!Apply(t)
      PROVE  Ups!HelperAlone'
    <2> DEFINE f == upsTh[t].file
               was == upsTh[t].was
    <2>1. /\ upsTh[t].pc \in {"written", "restored"} /\ upsFiles' = upsFiles
          /\ upsTh' = [upsTh EXCEPT ![t] = IF Ups!Refusing(t) # {} /\ upsTh[t].pc = "written"
                                           THEN [upsTh[t] EXCEPT !.pc = "refused"] ELSE Ups!Idle]
        BY <1>6 DEF Ups!Apply, Ups!Writing
    <2>2. upsTh[t].pc \in Ups!Helper /\ upsTh[t].pc # "idle"
        BY <1>h, <2>1
    <2>3. \A o \in Threads \ {t} : upsTh[o].pc \notin Ups!Helper /\ upsTh'[o] = upsTh[o]
        BY <1>0, <2>1, <2>2, UpsSole
    <2>4. f \in Ups!File /\ was \in [Ups!Unit -> BOOLEAN] /\ \A u \in Ups!Unit : Ups!Reads[u] \subseteq Ups!File
        BY <2>2, UpsThread DEF Ups!Reads, Ups!File, Ups!Unit
    \* A unit outside the plan does not read the file.
    <2>5. ASSUME NEW u \in Ups!Unit, ~Ups!Planned(f, u)
          PROVE  /\ Ups!Text(u, Ups!Before(t)) = Ups!Text(u, upsFiles)
                 /\ Ups!Refuses(u, Ups!Before(t)) <=> Ups!Refuses(u, upsFiles)
        <3>1. \A g \in Ups!Reads[u] : Ups!Before(t)[g] = upsFiles[g]
            BY <1>0, <2>4, <2>5, PlanCovers DEF Ups!Before
        <3> HIDE DEF f, was
        <3> QED
            BY <3>1, SameText
    <2>6. CASE upsTh[t].pc = "written"
        <3>1. was = upsActive /\ \A u \in Ups!Unit : Ups!Steady(u, Ups!Before(t))
            BY <2>6 DEF Ups!HelperAlone
        <3>2. CASE Ups!Refusing(t) = {}
            <4>1. upsTh'[t] = Ups!Idle
                BY <1>0, <2>1, <3>2
            <4>2. ASSUME NEW u \in Ups!Unit, upsActive'[u]
                  PROVE  upsLoaded'[u] = Ups!Text(u, upsFiles) /\ ~Ups!Refuses(u, upsFiles)
                BY <1>6, <2>5, <3>1, <3>2, <4>2, UpsApplied DEF Ups!Steady
            <4>3. \A u \in Ups!Unit : Ups!Steady(u, upsFiles)'
                BY <2>1, <4>2 DEF Ups!Steady, Ups!Text, Ups!Refuses
            <4> QED
                BY <1>h, <2>3, <4>1, <4>3, UpsHelperStep DEF Ups!Idle
        <3>3. CASE Ups!Refusing(t) # {}
            <4>1. /\ upsTh'[t].pc = "refused" /\ upsTh'[t].file = f
                  /\ upsTh'[t].prev = upsTh[t].prev /\ upsTh'[t].was = was
                BY <1>0, <2>1, <2>2, <2>6, <3>3, UpsThread
            <4>2. Ups!Before(t)' = Ups!Before(t)
                BY <2>1, <4>1 DEF Ups!Before
            <4>3. ASSUME NEW u \in Ups!Unit
                  PROVE  /\ was[u] => ~Ups!Refuses(u, Ups!Before(t))
                         /\ upsActive'[u] => was[u]
                         /\ upsActive'[u] /\ ~Ups!Planned(f, u) =>
                               upsLoaded'[u] = Ups!Text(u, Ups!Before(t))
                BY <1>6, <3>1, UpsApplied DEF Ups!Steady
            <4>4. \A u \in Ups!Unit :
                     /\ upsTh'[t].was[u] => ~Ups!Refuses(u, Ups!Before(t))'
                     /\ upsActive'[u] => upsTh'[t].was[u]
                     /\ upsActive'[u] /\ ~Ups!Planned(upsTh[t].file, u)' =>
                           upsLoaded'[u] = Ups!Text(u, Ups!Before(t))'
                BY <4>1, <4>2, <4>3 DEF Ups!Text, Ups!Refuses, Ups!Planned
            <4> QED
                BY <1>h, <2>3, <4>1, <4>4, UpsHelperStep
        <3> QED
            BY <3>2, <3>3
    <2>7. CASE upsTh[t].pc = "restored"
        <3>1. /\ upsFiles[f] = upsTh[t].prev
              /\ \A u \in Ups!Unit :
                    /\ was[u] => ~Ups!Refuses(u, Ups!Before(t))
                    /\ upsActive[u] => was[u]
                    /\ upsActive[u] /\ ~Ups!Planned(f, u) => upsLoaded[u] = Ups!Text(u, Ups!Before(t))
            BY <2>7 DEF Ups!HelperAlone
        <3>2. Ups!Before(t) = upsFiles
            BY <1>0, <2>4, <3>1 DEF Ups!Before
        <3>3. Ups!Refusing(t) = {}
            BY <2>4, <3>1, <3>2, PlanUnits DEF Ups!Refusing, Ups!Concerned
        <3>4. upsTh'[t] = Ups!Idle
            BY <1>0, <2>1, <3>3
        <3>5. ASSUME NEW u \in Ups!Unit, upsActive'[u]
              PROVE  upsLoaded'[u] = Ups!Text(u, upsFiles) /\ ~Ups!Refuses(u, upsFiles)
            BY <1>6, <3>1, <3>2, <3>3, <3>5, UpsApplied
        <3>6. \A u \in Ups!Unit : Ups!Steady(u, upsFiles)'
            BY <2>1, <3>5 DEF Ups!Steady, Ups!Text, Ups!Refuses
        <3> QED
            BY <1>h, <2>3, <3>4, <3>6, UpsHelperStep DEF Ups!Idle
    <2> QED
        BY <2>1, <2>6, <2>7
<1>7. ASSUME NEW u \in Ups!Unit, Ups!Service(u)
      PROVE  Ups!HelperAlone'
    <2>1. UNCHANGED <<upsFiles, upsTh>> /\ \A t \in Threads : upsTh[t].pc \notin Ups!Helper
        <3>1. Ups!Helping = {}
            BY Zenon, <1>7 DEF Ups!Service
        <3> QED
            BY <1>7, <3>1 DEF Ups!Helping, Ups!Service
    <2>2. \A v \in Ups!Unit : Ups!Steady(v, upsFiles)
        BY <2>1 DEF Ups!HelperAlone
    <2>3. ASSUME NEW v \in Ups!Unit, upsActive'[v]
          PROVE  upsLoaded'[v] = Ups!Text(v, upsFiles) /\ ~Ups!Refuses(v, upsFiles)
        <3>1. CASE /\ upsActive' = [upsActive EXCEPT ![u] = FALSE] /\ upsLoaded' = upsLoaded
            BY <1>0, <2>2, <2>3, <3>1 DEF Ups!Steady
        <3>2. CASE /\ ~Ups!Refuses(u, upsFiles) /\ upsActive' = [upsActive EXCEPT ![u] = TRUE]
                   /\ upsLoaded' = [upsLoaded EXCEPT ![u] = Ups!Text(u, upsFiles)]
            BY <1>0, <2>2, <2>3, <3>2 DEF Ups!Steady, Ups!TypeOK
        <3> QED
            BY <1>7, <3>1, <3>2 DEF Ups!Service
    <2>4. \A v \in Ups!Unit : Ups!Steady(v, upsFiles)'
        BY <2>1, <2>3 DEF Ups!Steady, Ups!Text, Ups!Refuses
    <2> QED
        BY <1>h, <2>1, <2>4 DEF Ups!HelperAlone
<1>8. CASE UNCHANGED Ups!vars
    BY <1>1, <1>8 DEF Ups!vars
<1> QED
    BY <1>2, <1>3, <1>4, <1>5, <1>6, <1>7, <1>8 DEF Ups!Next

LEMMA UpsStep ==
    ASSUME Ups!IInv, [Ups!Next]_(Ups!vars)
    PROVE  Ups!IInv'
<1>1. Ups!TypeOK'
    BY UpsTypeStep DEF Ups!IInv
<1>2. ASSUME ~upsLost'
      PROVE  Ups!EssentialTexts'
    BY <1>2, UpsEssentialStep, UpsHistories DEF Ups!IInv
<1>3. ASSUME ~upsDisturbed'
      PROVE  Ups!HelperAlone'
    BY <1>3, UpsAloneStep, UpsHistories DEF Ups!IInv
<1> QED
    BY <1>1, <1>2, <1>3 DEF Ups!IInv

LEMMA UpsInvariant == Spec => [](which = "Ups" => Ups!IInv)
<1>1. Init => (which = "Ups" => Ups!IInv)
    BY UpsInit DEF Init
<1>2. (which = "Ups" => Ups!IInv) /\ [Next]_vars => (which = "Ups" => Ups!IInv)'
    <2> SUFFICES ASSUME which = "Ups" => Ups!IInv, [Next]_vars, which' = "Ups"
                 PROVE  Ups!IInv'
        OBVIOUS
    <2> QED
        BY ComponentStep, UpsStep
<1> QED
    BY <1>1, <1>2, PTL DEF Spec

\* Requests, helpers and service actions that overlap never leave upsmon without a
\* MONITOR line or upsd without a LISTEN address, but for the moment in which a text is
\* put back, for any threads, names and number of requests. The exceptions: a page or a
\* helper read nothing where there was a text, which it takes for an empty file, or a
\* put-back failed (upsmon_monitor_delete, merge_directives, do_write of the helper).
THEOREM EssentialLinesStay == Spec => []EssentialsStay
<1>1. (which = "Ups" => Ups!IInv) => EssentialsStay
    BY DEF Ups!IInv, Ups!EssentialTexts, EssentialsStay, Ups!EssentialsStay
<1> QED
    BY <1>1, UpsInvariant, PTL

\* When no helper works, a UPS unit that runs runs on what is on disk, also after a text
\* it refused was taken back, for any threads, names and number of requests. The
\* exceptions: a helper ran beside another one or a service action, or its put-back
\* failed (write_conf, do_write of the helper).
THEOREM UnitsRunTheDisk == Spec => [](which = "Ups" => Ups!DiskIsRunning)
<1>1. (which = "Ups" => Ups!IInv) => (which = "Ups" => Ups!DiskIsRunning)
    BY DEF Ups!IInv, Ups!HelperAlone, Ups!Helper, Ups!Steady, Ups!DiskIsRunning
<1> QED
    BY <1>1, UpsInvariant, PTL

----------------------------------------------------------------------------
(* Power: atomic edits *)

LEMMA UpsUnplannedStep ==
    ASSUME Ups!TypeOK, Ups!HelperAlone, Ups!UnplannedKept, ~upsDisturbed', [Ups!Next]_(Ups!vars)
    PROVE  Ups!UnplannedKept'
<1> DEFINE Taking == {"refused", "emptied", "restored"}
<1> SUFFICES ASSUME NEW o \in Threads, NEW v \in Ups!Unit,
                    upsTh'[o].pc \in Taking, ~Ups!Planned(upsTh'[o].file, v)
             PROVE  upsActive'[v] = upsTh'[o].was[v]
    BY DEF Ups!UnplannedKept, Ups!Planned
<1>0. DOMAIN upsTh = Threads
    BY DEF Ups!TypeOK
<1>h. Ups!Helper = {"started", "written", "refused", "emptied", "restored"}
    BY DEF Ups!Helper
\* A thread that was there already.
<1>1. ASSUME upsTh[o].pc \in Taking, upsTh'[o].file = upsTh[o].file,
             upsTh'[o].was = upsTh[o].was, upsActive' = upsActive
      PROVE  upsActive'[v] = upsTh'[o].was[v]
    BY <1>1 DEF Ups!UnplannedKept, Ups!Planned
<1>2. ASSUME NEW t \in Threads, Ups!Request(t) \/ Ups!HelperStart(t) \/ Ups!HelperWrite(t)
      PROVE  upsActive'[v] = upsTh'[o].was[v]
    <2>1. /\ upsActive' = upsActive /\ upsTh'[t].pc \notin Taking
          /\ \A p \in Threads \ {t} : upsTh'[p] = upsTh[p]
        <3>1. CASE Ups!Request(t)
            BY <1>0, <3>1 DEF Ups!Request
        <3>2. CASE Ups!HelperStart(t)
            BY <1>0, <3>2 DEF Ups!HelperStart
        <3>3. CASE Ups!HelperWrite(t)
            <4>1. /\ upsTh[t].pc = "started" /\ upsActive' = upsActive
                  /\ \/ upsTh' = [upsTh EXCEPT ![t].pc = "written"]
                     \/ upsTh' = [upsTh EXCEPT ![t] = Ups!Idle]
                BY <3>3 DEF Ups!HelperWrite
            <4>2. upsTh[t].pc \in Ups!Helper /\ "written" \in Ups!Helper
                BY <1>h, <4>1
            <4>3. CASE upsTh' = [upsTh EXCEPT ![t].pc = "written"]
                BY <1>0, <4>1, <4>2, <4>3, UpsGoesOn
            <4>4. CASE upsTh' = [upsTh EXCEPT ![t] = Ups!Idle]
                BY <1>0, <4>1, <4>4 DEF Ups!Idle
            <4> QED
                BY <4>1, <4>3, <4>4
        <3> QED
            BY <1>2, <3>1, <3>2, <3>3
    <2> QED
        BY <1>1, <2>1
<1>3. ASSUME NEW t \in Threads, Ups!Restore(t) \/ Ups!Refill(t)
      PROVE  upsActive'[v] = upsTh'[o].was[v]
    <2>1. /\ upsTh[t].pc \in Taking /\ upsActive' = upsActive
          /\ \/ \E p \in Ups!Helper : upsTh' = [upsTh EXCEPT ![t].pc = p]
             \/ upsTh' = [upsTh EXCEPT ![t] = Ups!Idle]
        BY <1>3, <1>h DEF Ups!Restore, Ups!Refill
    <2>2. upsTh[t].pc \in Ups!Helper
        BY <1>h, <2>1
    <2>3. CASE \E p \in Ups!Helper : upsTh' = [upsTh EXCEPT ![t].pc = p]
        <3>1. upsTh'[t].file = upsTh[t].file /\ upsTh'[t].was = upsTh[t].was
            BY <2>2, <2>3, UpsGoesOn
        <3>2. o # t => upsTh'[o] = upsTh[o]
            BY <1>0, <2>3
        <3> QED
            BY <1>1, <2>1, <3>1, <3>2
    <2>4. CASE upsTh' = [upsTh EXCEPT ![t] = Ups!Idle]
        BY <1>0, <1>1, <2>1, <2>4 DEF Ups!Idle
    <2> QED
        BY <2>1, <2>3, <2>4
<1>4. ASSUME NEW t \in Threads, Ups!Apply(t)
      PROVE  upsActive'[v] = upsTh'[o].was[v]
    <2>1. /\ upsTh[t].pc \in {"written", "restored"}
          /\ upsTh' = [upsTh EXCEPT ![t] = IF Ups!Refusing(t) # {} /\ upsTh[t].pc = "written"
                                           THEN [upsTh[t] EXCEPT !.pc = "refused"] ELSE Ups!Idle]
        BY <1>4 DEF Ups!Apply, Ups!Writing
    <2>2. upsTh[t].pc \in Ups!Helper /\ "refused" \in Ups!Helper
        BY <1>h, <2>1
    <2>3. o = t
        BY <1>0, <1>h, <2>1, <2>2, UpsSole
    <2>4. upsTh' = [upsTh EXCEPT ![t].pc = "refused"] /\ upsTh[t].pc = "written"
        BY <1>0, <2>1, <2>3 DEF Ups!Idle
    <2>5. upsTh'[t].file = upsTh[t].file /\ upsTh'[t].was = upsTh[t].was
        BY <2>2, <2>4, UpsGoesOn
    <2>6. upsTh[t].was = upsActive
        BY <2>4 DEF Ups!HelperAlone
    <2>7. upsActive'[v] = upsActive[v]
        BY <1>4, <2>3, <2>5, UpsApplied
    <2> QED
        BY <2>3, <2>5, <2>6, <2>7
<1>5. ASSUME NEW u \in Ups!Unit, Ups!Service(u)
      PROVE  upsActive'[v] = upsTh'[o].was[v]
    <2>1. Ups!Helping = {} /\ upsTh' = upsTh
        BY Zenon, <1>5 DEF Ups!Service
    <2> QED
        BY <1>h, <2>1 DEF Ups!Helping
<1>6. CASE UNCHANGED Ups!vars
    BY <1>1, <1>6 DEF Ups!vars
<1> QED
    BY <1>2, <1>3, <1>4, <1>5, <1>6 DEF Ups!Next

\* The disk and the running units as the pages show them: those of now, or those of
\* before the helper that works.
UpsView(S, fs) == [u \in S |-> Ups!Text(u, fs)]
UpsUp(flags) == {u \in Ups!Unit : flags[u]}
UpsShown ==
    /\ (\A t \in Threads : upsTh[t].pc \notin Ups!Helper) =>
          Ups!Disk = upsFiles /\ Ups!Runs = UpsView(UpsUp(upsActive), upsFiles)
    /\ \A t \in Threads : upsTh[t].pc \in Ups!Helper =>
          Ups!Disk = Ups!Before(t) /\ Ups!Runs = UpsView(UpsUp(upsTh[t].was), Ups!Before(t))

UpsInv == Ups!IInv /\ upsDisturbed \in BOOLEAN /\ (~upsDisturbed => Ups!UnplannedKept /\ UpsShown)

LEMMA UpsShows ==
    ASSUME Ups!HelperAlone
    PROVE  UpsShown
<1>1. ASSUME \A t \in Threads : upsTh[t].pc \notin Ups!Helper
      PROVE  Ups!Disk = upsFiles /\ Ups!Runs = UpsView(UpsUp(upsActive), upsFiles)
    <2>1. Ups!Helping = {}
        BY <1>1 DEF Ups!Helping
    <2>2. \A u \in {v \in Ups!Unit : upsActive[v]} : upsLoaded[u] = Ups!Text(u, upsFiles)
        BY <1>1 DEF Ups!HelperAlone, Ups!Steady
    <2> QED
        BY <2>1, <2>2 DEF Ups!Disk, Ups!Runs, UpsView, UpsUp
<1>2. ASSUME NEW t \in Threads, upsTh[t].pc \in Ups!Helper
      PROVE  Ups!Disk = Ups!Before(t) /\ Ups!Runs = UpsView(UpsUp(upsTh[t].was), Ups!Before(t))
    <2>1. Ups!Helping # {}
        BY <1>2 DEF Ups!Helping
    <2>2. Ups!Working \in Threads /\ upsTh[Ups!Working].pc \in Ups!Helper
        BY <1>2 DEF Ups!Working
    <2>3. Ups!Working = t
        BY <1>2, <2>2 DEF Ups!HelperAlone
    <2> QED
        BY <2>1, <2>3 DEF Ups!Disk, Ups!Runs, UpsView, UpsUp
<1> QED
    BY <1>1, <1>2 DEF UpsShown

LEMMA UpsPromiseInit ==
    ASSUME Ups!Init
    PROVE  Ups!Promise!AInit
<1>1. Ups!IInv /\ ~upsDisturbed
    BY UpsInit DEF Ups!Init
<1>2. \A t \in Threads : upsTh[t].pc \notin Ups!Helper
    BY DEF Ups!Init, Ups!Idle, Ups!Helper
<1>3. UpsShown
    BY <1>1, UpsShows DEF Ups!IInv
<1>4. Ups!Disk = upsFiles /\ Ups!Runs = UpsView(UpsUp(upsActive), upsFiles)
    BY <1>2, <1>3 DEF UpsShown
<1>5. \A f \in Ups!File : upsFiles[f] \in Ups!Texts
    BY <1>1 DEF Ups!IInv, Ups!TypeOK
<1>6. upsDisturbed = FALSE
    BY DEF Ups!Init
<1> QED
    BY <1>4, <1>5, <1>6 DEF Ups!Promise!AInit, Ups!Promise!Up, Ups!Promise!View, Ups!Text,
                            UpsView, UpsUp

\* One file is replaced, and the units that run accept it and have it.
LEMMA UpsReplaces ==
    ASSUME NEW f \in Ups!File, NEW S \in SUBSET Ups!Unit, upsDisturbed' = upsDisturbed,
           Ups!Disk' \in [Ups!File -> Ups!Texts],
           Ups!Disk' = [Ups!Disk EXCEPT ![f] = Ups!Disk'[f]],
           \A u \in S : ~Ups!Refuses(u, Ups!Disk'),
           DOMAIN Ups!Runs = S, Ups!Runs' = UpsView(S, Ups!Disk')
    PROVE  Ups!Promise!Replace
BY DEF Ups!Promise!Replace, Ups!Promise!Up, Ups!Promise!View, Ups!Text, UpsView

LEMMA UpsPromiseStep ==
    ASSUME UpsInv, UpsInv', [Ups!Next]_(Ups!vars)
    PROVE  [Ups!Promise!ANext]_(Ups!Promise!vars)
<1> SUFFICES ASSUME ~upsDisturbed'
             PROVE  [Ups!Promise!ANext]_(Ups!Promise!vars)
    BY DEF Ups!Promise!ANext, Ups!Promise!Tangle
<1>0. /\ Ups!TypeOK /\ Ups!TypeOK' /\ Ups!HelperAlone' /\ UpsShown' /\ DOMAIN upsTh = Threads
      /\ upsDisturbed \in BOOLEAN /\ upsDisturbed' \in BOOLEAN
      /\ upsFiles \in [Ups!File -> Ups!Texts] /\ upsActive \in [Ups!Unit -> BOOLEAN]
    BY DEF UpsInv, Ups!IInv, Ups!TypeOK
<1>1. ~upsDisturbed
    BY UpsHistories
<1>2. Ups!HelperAlone /\ Ups!UnplannedKept /\ UpsShown
    BY <1>1 DEF UpsInv, Ups!IInv
<1>p. /\ (\A t \in Threads : upsTh'[t].pc \notin Ups!Helper) =>
            Ups!Disk' = upsFiles' /\ Ups!Runs' = UpsView(UpsUp(upsActive'), upsFiles')
      /\ \A t \in Threads : upsTh'[t].pc \in Ups!Helper =>
            /\ Ups!Disk' = Ups!Before(t)'
            /\ Ups!Runs' = UpsView(UpsUp(upsTh'[t].was), Ups!Before(t)')
    BY <1>0 DEF UpsShown, UpsView, UpsUp, Ups!Text, Ups!Helper
<1>h. Ups!Helper = {"started", "written", "refused", "emptied", "restored"}
    BY DEF Ups!Helper
<1>s. ASSUME Ups!Disk' = Ups!Disk, Ups!Runs' = Ups!Runs, upsDisturbed' = upsDisturbed
      PROVE  UNCHANGED Ups!Promise!vars
    BY <1>s DEF Ups!Promise!vars
\* Nothing that is shown changes.
<1>3. ASSUME UNCHANGED <<upsFiles, upsActive, upsLoaded, upsDisturbed>>,
             \A o \in Threads : \/ upsTh'[o] = upsTh[o]
                                \/ upsTh[o].pc \notin Ups!Helper /\ upsTh'[o].pc \notin Ups!Helper
      PROVE  UNCHANGED Ups!Promise!vars
    <2>1. CASE \A o \in Threads : upsTh[o].pc \notin Ups!Helper
        <3>1. \A o \in Threads : upsTh'[o].pc \notin Ups!Helper
            BY <1>3, <2>1
        <3> QED
            BY <1>p, <1>2, <1>3, <1>s, <2>1, <3>1 DEF UpsShown
    <2>2. ASSUME NEW t \in Threads, upsTh[t].pc \in Ups!Helper
          PROVE  UNCHANGED Ups!Promise!vars
        <3>1. upsTh'[t] = upsTh[t] /\ Ups!Before(t)' = Ups!Before(t)
            BY <1>3, <2>2 DEF Ups!Before
        <3> QED
            BY <1>p, <1>2, <1>3, <1>s, <2>2, <3>1 DEF UpsShown
    <2> QED
        BY <2>1, <2>2
\* The helper goes on, and what it keeps to put back stays.
<1>4. ASSUME NEW t \in Threads, upsTh[t].pc \in Ups!Helper, upsTh'[t].pc \in Ups!Helper,
             upsTh'[t].was = upsTh[t].was, Ups!Before(t)' = Ups!Before(t),
             upsDisturbed' = upsDisturbed
      PROVE  UNCHANGED Ups!Promise!vars
    BY <1>p, <1>2, <1>4, <1>s DEF UpsShown
<1>5. ASSUME NEW t \in Threads, Ups!Request(t)
      PROVE  UNCHANGED Ups!Promise!vars
    <2>1. upsTh[t].pc = "idle" /\ upsTh'[t].pc = "asked" /\ \A o \in Threads \ {t} : upsTh'[o] = upsTh[o]
        BY <1>0, <1>5 DEF Ups!Request
    <2>2. UNCHANGED <<upsFiles, upsActive, upsLoaded, upsDisturbed>>
        BY <1>5 DEF Ups!Request
    <2> QED
        BY <1>3, <1>h, <2>1, <2>2
<1>6. ASSUME NEW t \in Threads, Ups!HelperStart(t)
      PROVE  UNCHANGED Ups!Promise!vars
    <2> DEFINE f == upsTh[t].file
               new == [pc |-> "started", file |-> f, text |-> upsTh[t].text,
                       prev |-> upsFiles[f], was |-> upsActive]
    <2>1. /\ upsTh[t].pc = "asked" /\ upsTh' = [upsTh EXCEPT ![t] = new]
          /\ UNCHANGED <<upsFiles, upsActive, upsLoaded>>
        BY <1>6 DEF Ups!HelperStart
    <2>2. upsDisturbed' = upsDisturbed
        BY <1>0, <1>1
    <2>3. upsTh'[t] = new
        BY <1>0, <2>1
    <2>4. f \in Ups!File
        BY <1>0, <2>1, UpsThread
    <2>5. Ups!Before(t)' = upsFiles /\ upsTh'[t].was = upsActive /\ upsTh'[t].pc \in Ups!Helper
        <3>1. upsTh'[t].file = f /\ upsTh'[t].prev = upsFiles[f]
            BY <2>3
        <3> QED
            BY <1>0, <1>h, <2>1, <2>3, <2>4, <3>1 DEF Ups!Before
    <2>6. \A o \in Threads : upsTh[o].pc \notin Ups!Helper
        <3>1. Ups!Helping = {}
            BY Zenon, <1>6 DEF Ups!HelperStart
        <3> QED
            BY <3>1 DEF Ups!Helping
    <2> QED
        BY <1>p, <1>h, <1>2, <1>s, <2>2, <2>5, <2>6 DEF UpsShown
<1>7. ASSUME NEW t \in Threads, Ups!HelperWrite(t) \/ Ups!Restore(t) \/ Ups!Refill(t)
      PROVE  UNCHANGED Ups!Promise!vars
    <2>1. upsTh[t].pc \in {"started", "refused", "emptied"} /\ upsDisturbed' = upsDisturbed
        BY Zenon, <1>0, <1>1, <1>7 DEF Ups!HelperWrite, Ups!Restore, Ups!Refill
    <2>2. upsTh[t].pc \in Ups!Helper /\ upsTh[t].pc # "idle"
        BY <1>h, <2>1
    <2>3. \/ /\ \E p \in Ups!Helper : upsTh' = [upsTh EXCEPT ![t].pc = p]
             /\ \E text : upsFiles' = [upsFiles EXCEPT ![upsTh[t].file] = text]
          \/ /\ upsTh[t].pc = "started" /\ upsTh' = [upsTh EXCEPT ![t] = Ups!Idle]
             /\ UNCHANGED <<upsFiles, upsActive, upsLoaded>>
        <3>1. CASE Ups!HelperWrite(t)
            BY <1>h, <3>1 DEF Ups!HelperWrite
        <3>2. CASE Ups!Restore(t)
            BY <1>h, <3>2 DEF Ups!Restore
        <3>3. CASE Ups!Refill(t)
            <4>1. upsTh[t].pc = "emptied"
                BY <3>3 DEF Ups!Refill
            <4>2. upsFiles[upsTh[t].file] = Ups!Empty
                BY <1>2, <4>1 DEF Ups!HelperAlone
            <4>3. /\ upsTh' = [upsTh EXCEPT ![t].pc = "restored"]
                  /\ upsFiles' = [upsFiles EXCEPT ![upsTh[t].file] = upsTh[t].prev]
                BY Zenon, <3>3, <4>2 DEF Ups!Refill
            <4> QED
                BY <1>h, <4>3
        <3> QED
            BY <1>7, <3>1, <3>2, <3>3
    <2>4. CASE /\ \E p \in Ups!Helper : upsTh' = [upsTh EXCEPT ![t].pc = p]
               /\ \E text : upsFiles' = [upsFiles EXCEPT ![upsTh[t].file] = text]
        <3>1. /\ upsTh'[t].pc \in Ups!Helper /\ upsTh'[t].file = upsTh[t].file
              /\ upsTh'[t].prev = upsTh[t].prev /\ upsTh'[t].was = upsTh[t].was
            BY <1>0, <2>2, <2>4, UpsGoesOn
        <3>2. Ups!Before(t)' = Ups!Before(t)
            BY <1>0, <2>4, <3>1 DEF Ups!Before
        <3> QED
            BY <1>4, <2>1, <2>2, <3>1, <3>2
    \* The text could not be written: the disk is as it was before.
    <2>5. CASE /\ upsTh[t].pc = "started" /\ upsTh' = [upsTh EXCEPT ![t] = Ups!Idle]
               /\ UNCHANGED <<upsFiles, upsActive, upsLoaded>>
        <3>1. upsFiles[upsTh[t].file] = upsTh[t].prev /\ upsTh[t].was = upsActive
            BY <1>2, <2>5 DEF Ups!HelperAlone
        <3>2. Ups!Before(t) = upsFiles
            BY <1>0, <3>1 DEF Ups!Before
        <3>3. Ups!Disk = upsFiles /\ Ups!Runs = UpsView(UpsUp(upsActive), upsFiles)
            BY <1>2, <2>2, <3>1, <3>2 DEF UpsShown
        <3>4. \A o \in Threads : upsTh'[o].pc \notin Ups!Helper
            BY <1>0, <1>2, <1>h, <2>2, <2>5, UpsSole DEF Ups!Idle
        <3>5. Ups!Disk' = upsFiles /\ Ups!Runs' = UpsView(UpsUp(upsActive), upsFiles)
            BY <1>p, <2>5, <3>4
        <3> QED
            BY <1>s, <2>1, <3>3, <3>5
    <2> QED
        BY <2>3, <2>4, <2>5
<1>8. ASSUME NEW t \in Threads, Ups!Apply(t)
      PROVE  Ups!Promise!ANext \/ UNCHANGED Ups!Promise!vars
    <2> DEFINE f == upsTh[t].file
               was == upsTh[t].was
               S == UpsUp(was)
    <2>1. /\ upsTh[t].pc \in {"written", "restored"} /\ upsFiles' = upsFiles
          /\ upsTh' = [upsTh EXCEPT ![t] = IF Ups!Refusing(t) # {} /\ upsTh[t].pc = "written"
                                           THEN [upsTh[t] EXCEPT !.pc = "refused"] ELSE Ups!Idle]
          /\ upsDisturbed' = upsDisturbed
        BY <1>8 DEF Ups!Apply, Ups!Writing
    <2>2. upsTh[t].pc \in Ups!Helper /\ upsTh[t].pc # "idle"
        BY <1>h, <2>1
    <2>3. f \in Ups!File /\ was \in [Ups!Unit -> BOOLEAN] /\ upsTh[t].prev \in Ups!Texts
        BY <1>0, <2>2, UpsThread
    <2>4. CASE Ups!Refusing(t) # {} /\ upsTh[t].pc = "written"
        <3>1. /\ upsTh'[t].pc = "refused" /\ upsTh'[t].file = f
              /\ upsTh'[t].prev = upsTh[t].prev /\ upsTh'[t].was = was
            BY <1>0, <2>1, <2>2, <2>4, UpsThread
        <3>2. Ups!Before(t)' = Ups!Before(t)
            BY <2>1, <3>1 DEF Ups!Before
        <3> QED
            BY <1>4, <1>h, <2>1, <2>2, <3>1, <3>2
    <2>5. CASE ~(Ups!Refusing(t) # {} /\ upsTh[t].pc = "written")
        <3>1. \A o \in Threads : upsTh'[o].pc \notin Ups!Helper
            BY <1>0, <1>2, <1>h, <2>1, <2>2, <2>5, UpsSole DEF Ups!Idle
        <3>2. upsTh[t].pc = "restored" =>
                 Ups!Before(t) = upsFiles /\ \A u \in Ups!Unit : was[u] => ~Ups!Refuses(u, upsFiles)
            <4>1. upsTh[t].pc = "restored" =>
                     /\ upsFiles[f] = upsTh[t].prev
                     /\ \A u \in Ups!Unit : was[u] => ~Ups!Refuses(u, Ups!Before(t))
                BY <1>2 DEF Ups!HelperAlone
            <4>2. upsTh[t].pc = "restored" => Ups!Before(t) = upsFiles
                BY <1>0, <2>3, <4>1 DEF Ups!Before
            <4> HIDE DEF was, f
            <4> QED
                BY <4>1, <4>2
        <3>3. Ups!Refusing(t) = {}
            <4>1. upsTh[t].pc = "restored" => Ups!Refusing(t) = {}
                BY <2>3, <3>2, PlanUnits DEF Ups!Refusing, Ups!Concerned
            <4> QED
                BY <2>1, <2>5, <4>1
        <3>4. ASSUME NEW u \in Ups!Unit
              PROVE  upsActive'[u] = was[u]
            <4>1. IF was[u] /\ Ups!Planned(f, u) THEN upsActive'[u]
                  ELSE upsActive'[u] = upsActive[u]
                BY <1>0, <1>8, <3>3, UpsApplied
            <4>2. upsActive'[u] \in BOOLEAN /\ was[u] \in BOOLEAN /\ upsActive[u] \in BOOLEAN
                BY <1>0, <2>3 DEF Ups!TypeOK
            <4>3. upsTh[t].pc = "written" => was = upsActive
                BY <1>2 DEF Ups!HelperAlone
            <4>4. upsTh[t].pc = "restored" =>
                     /\ upsActive[u] => was[u]
                     /\ ~Ups!Planned(f, u) => upsActive[u] = was[u]
                BY <1>2 DEF Ups!HelperAlone, Ups!UnplannedKept
            <4> HIDE DEF was, f
            <4>5. CASE upsTh[t].pc = "written"
                BY <4>1, <4>2, <4>3, <4>5
            <4>6. CASE upsTh[t].pc = "restored"
                BY <4>1, <4>2, <4>4, <4>6
            <4> QED
                BY <2>1, <4>5, <4>6
        <3>5. Ups!Disk' = upsFiles /\ Ups!Runs' = UpsView(S, upsFiles)
            <4>1. UpsUp(upsActive') = S
                BY <3>4 DEF UpsUp
            <4> HIDE DEF S
            <4> QED
                BY <1>p, <2>1, <3>1, <4>1
        <3>6. Ups!Disk = Ups!Before(t) /\ Ups!Runs = UpsView(S, Ups!Before(t))
            BY <1>2, <2>2 DEF UpsShown
        <3>7. CASE upsTh[t].pc = "restored"
            BY <1>s, <2>1, <3>2, <3>5, <3>6, <3>7
        <3>8. CASE upsTh[t].pc = "written"
            <4>1. Ups!Disk' = [Ups!Disk EXCEPT ![f] = Ups!Disk'[f]]
                BY <1>0, <2>3, <3>5, <3>6 DEF Ups!Before
            <4>2. Ups!Disk' \in [Ups!File -> Ups!Texts]
                BY <1>0, <3>5
            <4>3. \A u \in S : ~Ups!Refuses(u, Ups!Disk')
                <5>1. \A u \in Ups!Unit : Ups!Steady(u, upsFiles)'
                    BY <1>0, <3>1 DEF Ups!HelperAlone
                <5>2. \A u \in Ups!Unit : upsActive'[u] => ~Ups!Refuses(u, upsFiles')
                    BY <5>1 DEF Ups!Steady, Ups!Refuses
                <5> QED
                    BY <2>1, <3>4, <3>5, <5>2 DEF UpsUp
            <4>4. S \in SUBSET Ups!Unit /\ DOMAIN Ups!Runs = S
                BY <3>6 DEF UpsUp, UpsView
            <4>5. Ups!Runs' = UpsView(S, Ups!Disk')
                BY <3>5
            <4> HIDE DEF S, f
            <4>6. f \in Ups!File
                BY <2>3 DEF f
            <4>7. Ups!Promise!Replace
                BY <2>1, <4>1, <4>2, <4>3, <4>4, <4>5, <4>6, UpsReplaces
            <4> QED
                BY <4>7 DEF Ups!Promise!ANext
        <3> QED
            BY <2>1, <3>7, <3>8
    <2> QED
        BY <2>4, <2>5
<1>9. ASSUME NEW u \in Ups!Unit, Ups!Service(u)
      PROVE  Ups!Promise!ANext \/ UNCHANGED Ups!Promise!vars
    <2> DEFINE S == UpsUp(upsActive)
    <2>0. Ups!Helping = {} /\ upsDisturbed' = upsDisturbed
        BY Zenon, <1>0, <1>1, <1>9 DEF Ups!Service
    <2>1. /\ UNCHANGED <<upsFiles, upsTh, upsDisturbed>>
          /\ \A t \in Threads : upsTh[t].pc \notin Ups!Helper
        BY <1>9, <2>0 DEF Ups!Service, Ups!Helping
    <2>2. /\ Ups!Disk = upsFiles /\ Ups!Disk' = upsFiles
          /\ Ups!Runs = UpsView(S, upsFiles) /\ Ups!Runs' = UpsView(UpsUp(upsActive'), upsFiles)
        BY <1>p, <1>2, <2>1 DEF UpsShown
    <2>3. CASE upsActive[u] /\ upsActive' = [upsActive EXCEPT ![u] = FALSE]
        <3>1. UpsUp(upsActive') = S \ {u} /\ u \in S
            BY <1>0, <2>3 DEF UpsUp
        <3> HIDE DEF S
        <3>2. Ups!Promise!Stop(u)
            BY <2>1, <2>2, <3>1 DEF Ups!Promise!Stop, Ups!Promise!Up, UpsView
        <3> QED
            BY <3>2 DEF Ups!Promise!ANext
    <2>4. CASE ~upsActive[u] /\ ~Ups!Refuses(u, upsFiles) /\ upsActive' = [upsActive EXCEPT ![u] = TRUE]
        <3>1. UpsUp(upsActive') = S \cup {u} /\ u \notin S
            BY <1>0, <2>4 DEF UpsUp
        <3> HIDE DEF S
        <3>2. Ups!Promise!Start(u)
            BY <1>0, <2>1, <2>2, <2>4, <3>1
            DEF Ups!Promise!Start, Ups!Promise!Up, Ups!Promise!View, Ups!Text, UpsView
        <3> QED
            BY <3>2 DEF Ups!Promise!ANext
    \* A stop of a unit that does not run, a restart of one that does, a refused start.
    <2>5. CASE \A v \in Ups!Unit : upsActive'[v] = upsActive[v]
        <3>1. UpsUp(upsActive') = S
            BY <2>5 DEF UpsUp
        <3> HIDE DEF S
        <3> QED
            BY <1>s, <2>1, <2>2, <3>1
    <2>6. CASE upsActive' = [upsActive EXCEPT ![u] = FALSE]
        BY <1>0, <2>3, <2>5, <2>6
    <2>7. CASE upsActive' = [upsActive EXCEPT ![u] = ~Ups!Refuses(u, upsFiles)]
        <3>1. upsActive[u] => ~Ups!Refuses(u, upsFiles)
            BY <1>2, <2>1 DEF Ups!HelperAlone, Ups!Steady
        <3>2. CASE Ups!Refuses(u, upsFiles)
            BY <1>0, <2>5, <2>7, <3>1, <3>2
        <3>3. CASE ~Ups!Refuses(u, upsFiles)
            BY <1>0, <2>4, <2>5, <2>7, <3>3
        <3> QED
            BY <3>2, <3>3
    <2> QED
        BY <1>9, <2>6, <2>7 DEF Ups!Service
<1>10. CASE UNCHANGED Ups!vars
    BY <1>3, <1>10 DEF Ups!vars
<1> QED
    BY <1>5, <1>6, <1>7, <1>8, <1>9, <1>10 DEF Ups!Next

LEMMA UpsTransactions == Spec => [](which = "Ups" => UpsInv)
<1>1. Init => (which = "Ups" => Ups!UnplannedKept)
    BY DEF Init, Ups!Init, Ups!Idle, Ups!UnplannedKept
<1>2. (which = "Ups" => Ups!IInv) => (which = "Ups" /\ ~upsDisturbed => UpsShown)
    BY UpsShows DEF Ups!IInv
<1>3. /\ which = "Ups" => Ups!IInv
      /\ which = "Ups" /\ ~upsDisturbed => Ups!UnplannedKept
      /\ [Next]_vars
      => (which = "Ups" /\ ~upsDisturbed => Ups!UnplannedKept)'
    <2> SUFFICES ASSUME which = "Ups" => Ups!IInv, which = "Ups" /\ ~upsDisturbed => Ups!UnplannedKept,
                        [Next]_vars, which' = "Ups", ~upsDisturbed'
                 PROVE  Ups!UnplannedKept'
        OBVIOUS
    <2>1. which = "Ups" /\ [Ups!Next]_(Ups!vars)
        BY ComponentStep
    <2>2. ~upsDisturbed
        BY <2>1, UpsHistories
    <2> QED
        BY <2>1, <2>2, UpsUnplannedStep DEF Ups!IInv
<1>4. (which = "Ups" => upsDisturbed \in BOOLEAN) /\ [Next]_vars => (which = "Ups" => upsDisturbed \in BOOLEAN)'
    <2> SUFFICES ASSUME which = "Ups" => upsDisturbed \in BOOLEAN, [Next]_vars, which' = "Ups"
                 PROVE  upsDisturbed' \in BOOLEAN
        OBVIOUS
    <2>1. upsDisturbed \in BOOLEAN /\ [Ups!Next]_(Ups!vars)
        BY ComponentStep
    <2>2. ASSUME NEW t \in Threads, Ups!HelperStart(t)
          PROVE  upsDisturbed' \in BOOLEAN
        BY Zenon, <2>2 DEF Ups!HelperStart
    <2>3. ASSUME NEW u \in Ups!Unit, Ups!Service(u)
          PROVE  upsDisturbed' \in BOOLEAN
        BY Zenon, <2>3 DEF Ups!Service
    <2> QED
        BY <2>1, <2>2, <2>3 DEF Ups!Next, Ups!vars, Ups!Request, Ups!HelperWrite, Ups!Apply,
           Ups!Restore, Ups!Refill
<1>5. Init => (which = "Ups" => upsDisturbed \in BOOLEAN)
    BY DEF Init, Ups!Init
<1>6. /\ which = "Ups" => Ups!IInv
      /\ which = "Ups" => upsDisturbed \in BOOLEAN
      /\ which = "Ups" /\ ~upsDisturbed => UpsShown
      /\ which = "Ups" /\ ~upsDisturbed => Ups!UnplannedKept
      => (which = "Ups" => UpsInv)
    BY DEF UpsInv
<1>7. Init => (which = "Ups" /\ ~upsDisturbed => Ups!UnplannedKept)
    BY <1>1
<1> QED
    BY <1>2, <1>3, <1>4, <1>5, <1>6, <1>7, UpsInvariant, PTL DEF Spec

----------------------------------------------------------------------------
(* Proxy *)

caddyfile == s1
pairs == s2
upload == s3
caddyActive == s4
caddyLoaded == s5
webTh == s6
webRequests == s7
webDisturbed == s8
USE DEF caddyfile, pairs, upload, caddyActive, caddyLoaded, webTh, webRequests, webDisturbed

LEMMA Places ==
    /\ Web!Place = {"own", "copy", "wild"} /\ Web!RoutePlace = {"copy", "wild"}
    /\ Web!Route = {Absent, "none", "copy", "wild"}
    /\ Absent \notin {"none", "own", "copy", "wild", "blank"} /\ Absent \notin Pairs
    /\ "none" \notin Web!RoutePlace
BY AbsentAssumption DEF Web!Place, Web!RoutePlace, Web!Route

LEMMA WebStages ==
    /\ Web!OwnPcs = {"upkey", "upcheck", "ownkey", "selfcrt"}
    /\ Web!BackPcs = {"putback", "blankcrt", "halfback", "blankkey"}
    /\ Web!HelperPcs = {"crt", "key", "replaced", "putback", "blankcrt", "halfback", "blankkey"}
BY DEF Web!OwnPcs, Web!BackPcs, Web!HelperPcs

LEMMA Halves ==
    /\ Web!Half = {Absent, "blank", "old"} \cup Pairs
    /\ Web!Nothing \in Web!Pair
    /\ \A s \in Pairs \cup {"old"} : s # Absent /\ s # "blank" /\ s \in Web!Half
    /\ \A p \in Web!Pair : Web!Match(p) => p.crt \in Pairs \cup {"old"} /\ p # Web!Nothing /\ p.crt # Absent
BY AbsentAssumption, BlankAssumption DEF Web!Half, Web!Pair, Web!Nothing, Web!Match, Web!Blank

\* What a thread at work holds.
LEMMA WebThread ==
    ASSUME Web!TypeOK, NEW t \in Threads
    PROVE  /\ webTh[t].pc = "asked" => webTh[t].text \in Web!Caddyfile /\ webTh[t].copy \in BOOLEAN
           /\ webTh[t].pc \in {"crt", "key"} => webTh[t] \in Web!PutHelp
           /\ webTh[t].pc \in {"replaced", "putback", "blankcrt"} =>
                 webTh[t] \in Web!FileHelp \/ webTh[t] \in Web!PairHelp
           /\ webTh[t].pc \in {"halfback", "blankkey"} => webTh[t] \in Web!PairHelp
           /\ webTh[t].pc = "upkey" => webTh[t].key \in Pairs
           /\ webTh[t].pc \in {"upcheck", "ownkey"} => webTh[t] \in [pc : {"upcheck", "ownkey"}]
           /\ webTh[t].pc = "selfcrt" => webTh[t].serial \in Pairs
<1>1. webTh[t] \in Web!ThreadType
    BY DEF Web!TypeOK
<1> QED
    BY <1>1, WebStages DEF Web!ThreadType, Web!Idle, Web!FileHelp, Web!PairHelp, Web!PutHelp

\* A helper, on the Caddyfile or on a pair.
LEMMA WebAtWork ==
    ASSUME Web!TypeOK, NEW t \in Threads, webTh[t].pc \in Web!HelperPcs
    PROVE  /\ webTh[t].place = "none" => /\ webTh[t].prev \in Web!Caddyfile /\ webTh[t].then = Absent
                                         /\ webTh[t].pc \in {"replaced", "putback", "blankcrt"}
           /\ webTh[t].place # "none" => webTh[t].place \in Web!RoutePlace /\ webTh[t].prev \in Web!Pair
           /\ webTh[t].then \in Web!Then
BY WebThread, WebStages, Places DEF Web!FileHelp, Web!PairHelp, Web!PutHelp, Web!Then

\* The records a thread can be in, one by one.
LEMMA WebRecords ==
    /\ \A text \in Web!Caddyfile, copy \in BOOLEAN : Web!Asked(text, copy) \in Web!ThreadType
    /\ \A prev \in Web!Caddyfile :
          [pc |-> "replaced", place |-> "none", prev |-> prev, then |-> Absent] \in Web!ThreadType
    /\ \A place \in Web!RoutePlace, prev \in Web!Pair, then \in Web!Then :
          [pc |-> "replaced", place |-> place, prev |-> prev, then |-> then] \in Web!ThreadType
    /\ \A place \in Web!RoutePlace, serial \in Pairs \cup {"old"}, prev \in Web!Pair, then \in Web!Then :
          [pc |-> "crt", place |-> place, serial |-> serial, prev |-> prev, then |-> then] \in Web!ThreadType
    /\ \A k \in Pairs : /\ [pc |-> "upkey", key |-> k] \in Web!ThreadType
                        /\ [pc |-> "selfcrt", serial |-> k] \in Web!ThreadType
    /\ \A p \in {"upcheck", "ownkey"} : [pc |-> p] \in Web!ThreadType
    /\ Web!Idle \in Web!ThreadType
    /\ \A text, copy : Web!Asked(text, copy).pc = "asked"
    /\ Web!Idle.pc = "idle"
BY DEF Web!ThreadType, Web!Asked, Web!Idle, Web!FileHelp, Web!PairHelp, Web!PutHelp

\* A helper that goes on keeps what it would put back.
LEMMA WebGoesOn ==
    ASSUME Web!TypeOK, NEW t \in Threads, NEW pc,
           \/ webTh[t].pc = "replaced" /\ pc = "putback"
           \/ webTh[t].pc = "putback" /\ pc = "blankcrt"
           \/ webTh[t].pc = "blankcrt" /\ pc = "halfback" /\ webTh[t].place # "none"
           \/ webTh[t].pc = "halfback" /\ pc = "blankkey"
           \/ webTh[t].pc = "crt" /\ pc = "key"
    PROVE  /\ [webTh[t] EXCEPT !.pc = pc] \in Web!ThreadType
           /\ [webTh[t] EXCEPT !.pc = pc].pc = pc
           /\ [webTh[t] EXCEPT !.pc = pc].place = webTh[t].place
           /\ [webTh[t] EXCEPT !.pc = pc].prev = webTh[t].prev
           /\ pc = "key" => [webTh[t] EXCEPT !.pc = pc].serial = webTh[t].serial
<1>1. CASE webTh[t].pc = "crt"
    BY <1>1, WebThread DEF Web!PutHelp, Web!ThreadType
<1>2. CASE webTh[t].pc # "crt" /\ webTh[t] \in Web!FileHelp
    BY <1>2 DEF Web!FileHelp, Web!ThreadType
<1>3. CASE webTh[t].pc # "crt" /\ webTh[t] \in Web!PairHelp
    BY <1>3, WebStages DEF Web!PairHelp, Web!ThreadType
<1> QED
    BY <1>1, <1>2, <1>3, WebThread

\* What follows a reload, or the installation of a copy.
LEMMA WebAfter ==
    ASSUME Web!TypeOK, NEW t \in Threads, webTh[t].pc \in Web!HelperPcs
    PROVE  Web!After(t) \in Web!ThreadType /\ Web!After(t).pc \in {"idle", "asked"}
BY WebAtWork, WebRecords DEF Web!After, Web!Then

LEMMA WebInit ==
    ASSUME Web!Init
    PROVE  Web!IInv
<1>1. PICK s \in {"none", "wild"} :
         caddyfile = [route |-> [h \in Items |-> IF s = "wild" THEN "wild" ELSE Absent], rest |-> "plain"]
    BY DEF Web!Init
<1>2. /\ webTh = [t \in Threads |-> Web!Idle] /\ caddyLoaded = caddyfile /\ caddyActive \in BOOLEAN
      /\ upload = Web!Nothing
      /\ pairs = [p \in Web!Place |-> IF p = "copy" THEN Web!Nothing
                                                    ELSE [crt |-> "old", key |-> "old"]]
    BY DEF Web!Init
<1>3. caddyfile \in Web!Caddyfile
    BY <1>1, Places DEF Web!Caddyfile, Web!Rest
<1>4. pairs \in [Web!Place -> Web!Pair] /\ upload \in Web!Pair
    BY <1>2, Halves DEF Web!Pair
<1>5. Web!TypeOK
    BY <1>2, <1>3, <1>4, WebRecords DEF Web!TypeOK
<1>6. /\ \A p \in Web!Place : Web!Whole(pairs[p])
      /\ pairs["wild"].crt # Absent /\ pairs["own"].crt = pairs["own"].key
    BY <1>2, Halves, Places DEF Web!Whole, Web!Match, Web!Blank
<1>7. Web!Good(caddyfile)
    BY <1>1, <1>6, Places DEF Web!Good
<1>8. \A t \in Threads : webTh[t].pc = "idle"
    BY <1>2 DEF Web!Idle
<1>9. Web!OwnPair /\ Web!OneHelper
    BY <1>2, <1>6, <1>7, <1>8, WebStages, Places DEF Web!OwnPair, Web!OneHelper, Web!RunsFile, Web!Replacing
<1> QED
    BY <1>5, <1>9 DEF Web!IInv

----------------------------------------------------------------------------
(* Proxy: types *)

\* What a step of a helper leaves alone, and that it stays within the types.
HelperMoves(t) ==
    /\ \E new \in Web!ThreadType :
          /\ webTh' = [webTh EXCEPT ![t] = new]
          /\ webTh[t].pc \notin Web!OwnPcs /\ new.pc \notin Web!OwnPcs
    /\ pairs' \in [Web!Place -> Web!Pair] /\ pairs'["own"] = pairs["own"]
    /\ caddyfile' \in Web!Caddyfile
    /\ UNCHANGED <<upload, caddyActive>>

LEMMA WebPairWrite ==
    ASSUME Web!TypeOK, NEW place \in Web!RoutePlace, NEW half \in Web!Half,
           \/ pairs' = [pairs EXCEPT ![place].crt = half]
           \/ pairs' = [pairs EXCEPT ![place].key = half]
    PROVE  /\ pairs' \in [Web!Place -> Web!Pair] /\ pairs'["own"] = pairs["own"]
           /\ \A p \in Web!RoutePlace \ {place} : pairs'[p] = pairs[p]
           /\ pairs' = [pairs EXCEPT ![place].crt = half] =>
                 pairs'[place].crt = half /\ pairs'[place].key = pairs[place].key
           /\ pairs' = [pairs EXCEPT ![place].key = half] =>
                 pairs'[place].key = half /\ pairs'[place].crt = pairs[place].crt
BY Places DEF Web!TypeOK, Web!Pair

LEMMA WebHelps ==
    ASSUME Web!TypeOK, NEW t \in Threads,
           \/ Web!CertReplace(t) \/ Web!InstallPair(t) \/ Web!Apply(t) \/ Web!Reload(t)
           \/ Web!PutBack(t) \/ Web!Refill(t) \/ Web!PutBackKey(t) \/ Web!RefillKey(t)
           \/ Web!PutCrt(t) \/ Web!PutKey(t)
    PROVE  HelperMoves(t)
<1>0. /\ caddyfile \in Web!Caddyfile /\ pairs \in [Web!Place -> Web!Pair]
      /\ webTh \in [Threads -> Web!ThreadType]
      /\ \A p \in Web!Place : pairs[p] \in Web!Pair
      /\ Web!RoutePlace \subseteq Web!Place
    BY Places DEF Web!TypeOK
<1>h. /\ Web!OwnPcs = {"upkey", "upcheck", "ownkey", "selfcrt"}
      /\ Web!HelperPcs = {"crt", "key", "replaced", "putback", "blankcrt", "halfback", "blankkey"}
    BY WebStages
\* The files are left alone.
<1>1. ASSUME NEW new \in Web!ThreadType, webTh' = [webTh EXCEPT ![t] = new],
             webTh[t].pc \notin Web!OwnPcs, new.pc \notin Web!OwnPcs,
             pairs' \in [Web!Place -> Web!Pair], pairs'["own"] = pairs["own"],
             caddyfile' \in Web!Caddyfile, UNCHANGED <<upload, caddyActive>>
      PROVE  HelperMoves(t)
    BY <1>1 DEF HelperMoves
<1>2. CASE Web!CertReplace(t)
    <2>1. PICK p \in Web!TlsPairs(caddyfile), s \in Pairs :
             Web!Start(t, [pc |-> "crt", place |-> p, serial |-> s, prev |-> pairs[p], then |-> Absent])
        BY <1>2 DEF Web!CertReplace
    <2>2. p \in Web!RoutePlace /\ pairs[p] \in Web!Pair
        BY <1>0, Places DEF Web!TlsPairs, Web!Caddyfile
    <2>3. PICK r : r = [pc |-> "crt", place |-> p, serial |-> s, prev |-> pairs[p], then |-> Absent]
        OBVIOUS
    <2>4. webTh[t].pc = "idle" /\ webTh' = [webTh EXCEPT ![t] = r]
        BY <2>1, <2>3 DEF Web!Start
    <2>5. r \in Web!ThreadType /\ r.pc = "crt"
        BY <2>2, <2>3, WebRecords DEF Web!Then
    <2> QED
        BY <1>0, <1>1, <1>2, <1>h, <2>4, <2>5 DEF Web!CertReplace
<1>3. CASE Web!InstallPair(t)
    <2>1. PICK r : r = [pc |-> "crt", place |-> "copy", serial |-> pairs["own"].crt,
                        prev |-> pairs["copy"], then |-> webTh[t].text]
        OBVIOUS
    <2>2. webTh[t].pc = "asked" /\ webTh[t].text \in Web!Caddyfile
        BY <1>3, WebThread DEF Web!InstallPair
    <2>3. CASE webTh' = [webTh EXCEPT ![t] = r] /\ Web!Match(pairs["own"])
        <3>1. pairs["own"].crt \in Pairs \cup {"old"}
            BY <1>0, <2>3, Halves, Places
        <3>2. r \in Web!ThreadType /\ r.pc = "crt"
            BY <1>0, <2>1, <2>2, <3>1, WebRecords, Places DEF Web!Then
        <3> QED
            BY <1>0, <1>1, <1>3, <1>h, <2>2, <2>3, <3>2 DEF Web!InstallPair
    <2>4. CASE webTh' = [webTh EXCEPT ![t] = Web!Idle]
        BY <1>0, <1>1, <1>3, <1>h, <2>2, <2>4, WebRecords DEF Web!InstallPair
    <2> QED
        BY <1>3, <2>1, <2>3, <2>4 DEF Web!InstallPair
<1>4. CASE Web!Apply(t)
    <2>1. PICK r : r = [pc |-> "replaced", place |-> "none", prev |-> caddyfile, then |-> Absent]
        OBVIOUS
    <2>2. r \in Web!ThreadType /\ r.pc = "replaced"
        BY <1>0, <2>1, WebRecords
    <2>3. webTh[t].pc = "asked" /\ webTh[t].text \in Web!Caddyfile
        BY <1>4, WebThread DEF Web!Apply
    <2>4. /\ webTh' = [webTh EXCEPT ![t] = r] \/ webTh' = [webTh EXCEPT ![t] = Web!Idle]
          /\ caddyfile' \in {caddyfile, webTh[t].text} /\ UNCHANGED <<pairs, upload, caddyActive>>
        BY <1>4, <2>1 DEF Web!Apply
    <2> QED
        BY <1>0, <1>1, <1>h, <2>2, <2>3, <2>4, WebRecords
<1>5. CASE Web!Reload(t)
    <2>1. webTh[t].pc = "replaced" /\ UNCHANGED <<caddyfile, pairs, upload, caddyActive>>
        BY <1>5 DEF Web!Reload
    <2>2. CASE webTh' = [webTh EXCEPT ![t] = [webTh[t] EXCEPT !.pc = "putback"]]
        <3>1. PICK r : r = [webTh[t] EXCEPT !.pc = "putback"]
            OBVIOUS
        <3>2. r \in Web!ThreadType /\ r.pc = "putback"
            BY <2>1, <3>1, WebGoesOn
        <3>3. webTh' = [webTh EXCEPT ![t] = r]
            BY <2>2, <3>1
        <3> QED
            BY <1>0, <1>1, <1>h, <2>1, <3>2, <3>3
    <2>3. CASE webTh' = [webTh EXCEPT ![t] = Web!After(t)]
        <3>1. PICK r : r = Web!After(t)
            OBVIOUS
        <3>2. r \in Web!ThreadType /\ r.pc \in {"idle", "asked"}
            BY <1>h, <2>1, <3>1, WebAfter
        <3> QED
            BY <1>0, <1>1, <1>h, <2>1, <2>3, <3>1, <3>2
    <2> QED
        BY <1>0, <1>5, <2>2, <2>3 DEF Web!Reload
<1>6. CASE Web!PutBack(t)
    <2>1. webTh[t].pc = "putback" /\ UNCHANGED <<upload, caddyActive>>
        BY <1>6 DEF Web!PutBack
    <2>2. PICK r : r = [webTh[t] EXCEPT !.pc = "blankcrt"]
        OBVIOUS
    <2>3. r \in Web!ThreadType /\ r.pc = "blankcrt" /\ webTh' = [webTh EXCEPT ![t] = r]
        BY <1>0, <1>6, <2>1, <2>2, WebGoesOn DEF Web!PutBack
    <2>4. Web!Empty \in Web!Caddyfile
        BY Places DEF Web!Empty, Web!Caddyfile, Web!Rest
    <2>5. CASE webTh[t].place = "none"
        BY <1>0, <1>1, <1>6, <1>h, <2>1, <2>3, <2>4, <2>5 DEF Web!PutBack
    <2>6. CASE webTh[t].place # "none"
        <3>1. webTh[t].place \in Web!RoutePlace
            BY <1>h, <2>1, <2>6, WebAtWork
        <3>2. pairs' = [pairs EXCEPT ![webTh[t].place].crt = "blank"] /\ caddyfile' = caddyfile
            BY <1>6, <2>6 DEF Web!PutBack, Web!Blank
        <3>3. pairs' \in [Web!Place -> Web!Pair] /\ pairs'["own"] = pairs["own"]
            BY <3>1, <3>2, WebPairWrite, Halves
        <3> QED
            BY <1>0, <1>1, <1>h, <2>1, <2>3, <3>2, <3>3
    <2> QED
        BY <2>5, <2>6
<1>7. CASE Web!Refill(t)
    <2>1. webTh[t].pc = "blankcrt" /\ UNCHANGED <<upload, caddyActive>>
        BY <1>7 DEF Web!Refill
    <2>2. CASE webTh[t].place = "none"
        <3>1. /\ webTh' = [webTh EXCEPT ![t] = Web!Idle] /\ pairs' = pairs
              /\ caddyfile' = webTh[t].prev
            BY <1>7, <2>2 DEF Web!Refill
        <3>2. webTh[t].prev \in Web!Caddyfile
            BY <1>h, <2>1, <2>2, WebAtWork
        <3> QED
            BY <1>0, <1>1, <1>h, <2>1, <3>1, <3>2, WebRecords
    <2>3. CASE webTh[t].place # "none"
        <3>1. webTh[t].place \in Web!RoutePlace /\ webTh[t].prev.crt \in Web!Half
            BY <1>h, <2>1, <2>3, WebAtWork DEF Web!Pair
        <3>2. PICK r : r = [webTh[t] EXCEPT !.pc = "halfback"]
            OBVIOUS
        <3>3. /\ webTh' = [webTh EXCEPT ![t] = r] /\ caddyfile' = caddyfile
              /\ pairs' = [pairs EXCEPT ![webTh[t].place].crt = webTh[t].prev.crt]
            BY <1>7, <2>3, <3>2 DEF Web!Refill
        <3>4. r \in Web!ThreadType /\ r.pc = "halfback"
            BY <2>1, <2>3, <3>2, WebGoesOn
        <3>5. pairs' \in [Web!Place -> Web!Pair] /\ pairs'["own"] = pairs["own"]
            BY <3>1, <3>3, WebPairWrite
        <3> QED
            BY <1>0, <1>1, <1>h, <2>1, <3>3, <3>4, <3>5
    <2> QED
        BY <2>2, <2>3
<1>8. CASE Web!PutBackKey(t) \/ Web!RefillKey(t)
    <2>1. /\ webTh[t].pc \in {"halfback", "blankkey"} /\ UNCHANGED <<caddyfile, upload, caddyActive>>
          /\ \/ pairs' = [pairs EXCEPT ![webTh[t].place].key = "blank"]
             \/ pairs' = [pairs EXCEPT ![webTh[t].place].key = webTh[t].prev.key]
        BY <1>8 DEF Web!PutBackKey, Web!RefillKey, Web!Blank
    <2>2. webTh[t].place \in Web!RoutePlace /\ webTh[t].prev.key \in Web!Half
        BY <2>1, WebThread DEF Web!PairHelp, Web!Pair
    <2>3. pairs' \in [Web!Place -> Web!Pair] /\ pairs'["own"] = pairs["own"]
        BY <2>1, <2>2, WebPairWrite, Halves
    <2>4. CASE Web!PutBackKey(t)
        <3>1. PICK r : r = [webTh[t] EXCEPT !.pc = "blankkey"]
            OBVIOUS
        <3>2. r \in Web!ThreadType /\ r.pc = "blankkey" /\ webTh' = [webTh EXCEPT ![t] = r]
            BY <1>0, <2>4, <3>1, WebGoesOn DEF Web!PutBackKey
        <3> QED
            BY <1>0, <1>1, <1>h, <2>1, <2>3, <3>2
    <2>5. CASE Web!RefillKey(t)
        BY <1>0, <1>1, <1>h, <2>1, <2>3, <2>5, WebRecords DEF Web!RefillKey
    <2> QED
        BY <1>8, <2>4, <2>5
<1>9. CASE Web!PutCrt(t)
    <2>1. webTh[t].pc = "crt" /\ UNCHANGED <<caddyfile, upload, caddyActive>>
        BY <1>9 DEF Web!PutCrt
    <2>2. webTh[t].place \in Web!RoutePlace /\ webTh[t].serial \in Web!Half
        BY <2>1, WebThread, Halves DEF Web!PutHelp
    <2>3. CASE webTh' = [webTh EXCEPT ![t] = Web!Idle] /\ pairs' = pairs
        BY <1>0, <1>1, <1>h, <2>1, <2>3, WebRecords
    <2>4. CASE ~(webTh' = [webTh EXCEPT ![t] = Web!Idle] /\ pairs' = pairs)
        <3>1. PICK r : r = [webTh[t] EXCEPT !.pc = "key"]
            OBVIOUS
        <3>2. /\ webTh' = [webTh EXCEPT ![t] = r]
              /\ pairs' = [pairs EXCEPT ![webTh[t].place].crt = webTh[t].serial]
            BY <1>0, <1>9, <2>4, <3>1 DEF Web!PutCrt
        <3>3. r \in Web!ThreadType /\ r.pc = "key"
            BY <2>1, <3>1, WebGoesOn
        <3>4. pairs' \in [Web!Place -> Web!Pair] /\ pairs'["own"] = pairs["own"]
            BY <2>2, <3>2, WebPairWrite
        <3> QED
            BY <1>0, <1>1, <1>h, <2>1, <3>2, <3>3, <3>4
    <2> QED
        BY <2>3, <2>4
<1>10. CASE Web!PutKey(t)
    <2>1. /\ webTh[t].pc = "key" /\ UNCHANGED <<caddyfile, upload, caddyActive>>
          /\ pairs' = [pairs EXCEPT ![webTh[t].place].key = webTh[t].serial]
        BY <1>10 DEF Web!PutKey
    <2>2. /\ webTh[t].place \in Web!RoutePlace /\ webTh[t].serial \in Web!Half
          /\ webTh[t].prev \in Web!Pair /\ webTh[t].then \in Web!Then
        BY <2>1, WebThread, Halves DEF Web!PutHelp
    <2>3. pairs' \in [Web!Place -> Web!Pair] /\ pairs'["own"] = pairs["own"]
        BY <2>1, <2>2, WebPairWrite
    <2>4. PICK r : r = [pc |-> "replaced", place |-> webTh[t].place, prev |-> webTh[t].prev,
                        then |-> webTh[t].then]
        OBVIOUS
    <2>5. r \in Web!ThreadType /\ r.pc = "replaced"
        BY <2>2, <2>4, WebRecords
    <2>6. PICK a : a = Web!After(t)
        OBVIOUS
    <2>7. a \in Web!ThreadType /\ a.pc \in {"idle", "asked"}
        BY <1>h, <2>1, <2>6, WebAfter
    <2>8. webTh' = [webTh EXCEPT ![t] = r] \/ webTh' = [webTh EXCEPT ![t] = a]
        BY <1>10, <2>4, <2>6 DEF Web!PutKey
    <2> QED
        BY <1>0, <1>1, <1>h, <2>1, <2>3, <2>5, <2>7, <2>8
<1> QED
    BY <1>2, <1>3, <1>4, <1>5, <1>6, <1>7, <1>8, <1>9, <1>10

LEMMA WebTypeStep ==
    ASSUME Web!TypeOK, [Web!Next]_(Web!vars)
    PROVE  Web!TypeOK'
<1>0. /\ caddyfile \in Web!Caddyfile /\ pairs \in [Web!Place -> Web!Pair] /\ upload \in Web!Pair
      /\ caddyActive \in BOOLEAN /\ webTh \in [Threads -> Web!ThreadType]
      /\ \A p \in Web!Place : pairs[p] \in Web!Pair
    BY DEF Web!TypeOK
<1>n. Pairs \subseteq Web!Half /\ Absent \in Web!Half /\ Web!Nothing \in Web!Pair
    BY Halves
\* A step of one thread.
<1>1. ASSUME NEW t \in Threads, NEW new \in Web!ThreadType, webTh' = [webTh EXCEPT ![t] = new],
             caddyfile' \in Web!Caddyfile, pairs' \in [Web!Place -> Web!Pair],
             upload' \in Web!Pair, caddyActive' = caddyActive
      PROVE  Web!TypeOK'
    BY <1>0, <1>1 DEF Web!TypeOK
<1>2. ASSUME NEW text \in Web!Caddyfile, NEW h \in Items, NEW r \in Web!Route
      PROVE  Web!Spliced(text, h, r) \in Web!Caddyfile
    BY <1>2 DEF Web!Spliced, Web!Caddyfile
<1>3. \A p \in {"none"} \cup Web!AvailableCerts : Web!Chosen(p) \in Web!Route
    BY Places DEF Web!AvailableCerts, Web!Chosen, Web!TlsPairs
<1>4. Absent \in Web!Route
    BY Places
\* A request for a new text.
<1>5. ASSUME NEW t \in Threads, NEW text \in Web!Caddyfile, NEW copy \in BOOLEAN,
             Web!Start(t, Web!Asked(text, copy)),
             UNCHANGED <<caddyfile, pairs, upload, caddyActive, caddyLoaded, webDisturbed>>
      PROVE  Web!TypeOK'
    BY <1>0, <1>1, <1>5, WebRecords DEF Web!Start
<1>6. ASSUME NEW t \in Threads, Web!SiteAdd(t)
      PROVE  Web!TypeOK'
    <2>1. PICK h \in Items, p \in {"none"} \cup Web!AvailableCerts :
             Web!Start(t, Web!Asked(Web!Spliced(caddyfile, h, Web!Chosen(p)), p = "own"))
        BY <1>6 DEF Web!SiteAdd
    <2>2. Web!Spliced(caddyfile, h, Web!Chosen(p)) \in Web!Caddyfile /\ (p = "own") \in BOOLEAN
        BY <1>0, <1>2, <1>3
    <2>3. UNCHANGED <<caddyfile, pairs, upload, caddyActive, caddyLoaded, webDisturbed>>
        BY <1>6 DEF Web!SiteAdd
    <2> QED
        BY <1>5, <2>1, <2>2, <2>3
<1>7. ASSUME NEW t \in Threads, Web!SiteUpdate(t)
      PROVE  Web!TypeOK'
    <2>1. PICK h \in Items, n \in Items, p \in {"none"} \cup Web!AvailableCerts :
             Web!Start(t, Web!Asked(Web!Spliced(Web!Spliced(caddyfile, h, Absent), n, Web!Chosen(p)), p = "own"))
        BY <1>7 DEF Web!SiteUpdate
    <2>2. Web!Spliced(caddyfile, h, Absent) \in Web!Caddyfile
        BY <1>0, <1>2, <1>4
    <2>3. Web!Spliced(Web!Spliced(caddyfile, h, Absent), n, Web!Chosen(p)) \in Web!Caddyfile
        BY <1>2, <1>3, <2>2
    <2>4. UNCHANGED <<caddyfile, pairs, upload, caddyActive, caddyLoaded, webDisturbed>>
        BY <1>7 DEF Web!SiteUpdate
    <2>5. (p = "own") \in BOOLEAN
        OBVIOUS
    <2> QED
        BY <1>5, <2>1, <2>3, <2>4, <2>5
<1>8. ASSUME NEW t \in Threads, Web!SiteDelete(t)
      PROVE  Web!TypeOK'
    <2>1. PICK h \in Items : Web!Start(t, Web!Asked(Web!Spliced(caddyfile, h, Absent), FALSE))
        BY <1>8 DEF Web!SiteDelete
    <2>2. UNCHANGED <<caddyfile, pairs, upload, caddyActive, caddyLoaded, webDisturbed>>
        BY <1>8 DEF Web!SiteDelete
    <2> QED
        BY <1>0, <1>2, <1>4, <1>5, <2>1, <2>2
<1>9. ASSUME NEW t \in Threads, Web!FileSave(t)
      PROVE  Web!TypeOK'
    <2>1. PICK r \in Web!Rest : Web!Start(t, Web!Asked([caddyfile EXCEPT !.rest = r], FALSE))
        BY <1>9 DEF Web!FileSave
    <2>2. [caddyfile EXCEPT !.rest = r] \in Web!Caddyfile
        BY <1>0 DEF Web!Caddyfile
    <2>3. UNCHANGED <<caddyfile, pairs, upload, caddyActive, caddyLoaded, webDisturbed>>
        BY <1>9 DEF Web!FileSave
    <2> QED
        BY <1>5, <2>1, <2>2, <2>3
<1>10. ASSUME NEW t \in Threads,
              \/ Web!CertReplace(t) \/ Web!InstallPair(t) \/ Web!Apply(t) \/ Web!Reload(t)
              \/ Web!PutBack(t) \/ Web!Refill(t) \/ Web!PutBackKey(t) \/ Web!RefillKey(t)
              \/ Web!PutCrt(t) \/ Web!PutKey(t)
       PROVE  Web!TypeOK'
    <2>1. HelperMoves(t)
        BY <1>10, WebHelps
    <2> QED
        BY <1>0, <1>1, <2>1 DEF HelperMoves
<1>16. ASSUME NEW t \in Threads, Web!UploadCrt(t) \/ Web!SelfKey(t)
       PROVE  Web!TypeOK'
    <2>1. PICK new \in Web!ThreadType : webTh' = [webTh EXCEPT ![t] = new]
        BY <1>16, WebRecords DEF Web!UploadCrt, Web!SelfKey, Web!Start
    <2>2. upload' \in Web!Pair /\ pairs' \in [Web!Place -> Web!Pair] /\ UNCHANGED <<caddyfile, caddyActive>>
        <3>1. CASE Web!UploadCrt(t)
            BY <1>0, <1>n, <3>1 DEF Web!UploadCrt, Web!Pair
        <3>2. CASE Web!SelfKey(t)
            <4>1. PICK s \in Pairs : pairs' = [pairs EXCEPT !["own"].key = s]
                BY <3>2 DEF Web!SelfKey
            <4>2. pairs' \in [Web!Place -> Web!Pair]
                BY <1>0, <1>n, <4>1, Places DEF Web!Pair
            <4> QED
                BY <1>0, <3>2, <4>2 DEF Web!SelfKey
        <3> QED
            BY <1>16, <3>1, <3>2
    <2> QED
        BY <1>0, <1>1, <2>1, <2>2
<1>17. ASSUME NEW t \in Threads, Web!UploadKey(t) \/ Web!SelfCrt(t)
       PROVE  Web!TypeOK'
    <2>1. PICK new \in Web!ThreadType : webTh' = [webTh EXCEPT ![t] = new]
        BY <1>17, WebRecords DEF Web!UploadKey, Web!SelfCrt
    <2>2. upload' \in Web!Pair /\ pairs' \in [Web!Place -> Web!Pair] /\ UNCHANGED <<caddyfile, caddyActive>>
        BY <1>0, <1>17, <1>n, WebThread, Places DEF Web!UploadKey, Web!SelfCrt, Web!Pair
    <2> QED
        BY <1>0, <1>1, <2>1, <2>2
<1>18. ASSUME NEW t \in Threads, Web!UploadCheck(t) \/ Web!OwnKey(t)
       PROVE  Web!TypeOK'
    <2>1. PICK new \in {[webTh[t] EXCEPT !.pc = "ownkey"], Web!Idle} : webTh' = [webTh EXCEPT ![t] = new]
        BY <1>18 DEF Web!UploadCheck, Web!OwnKey
    <2>2. webTh[t] \in [pc : {"upcheck", "ownkey"}]
        BY <1>18, WebThread DEF Web!UploadCheck, Web!OwnKey
    <2>3. new \in Web!ThreadType
        BY <2>2, WebRecords DEF Web!ThreadType
    <2>4. upload.crt \in Web!Half /\ upload.key \in Web!Half
        BY <1>0 DEF Web!Pair
    <2>5. upload' \in Web!Pair /\ pairs' \in [Web!Place -> Web!Pair] /\ UNCHANGED <<caddyfile, caddyActive>>
        BY <1>0, <1>18, <1>n, <2>4, Places DEF Web!UploadCheck, Web!OwnKey, Web!Pair
    <2> QED
        BY <1>0, <1>1, <2>1, <2>3, <2>5
<1>19. ASSUME NEW t \in Threads, Web!GiveUp(t)
       PROVE  Web!TypeOK'
    <2>1. upload' \in Web!Pair /\ webTh' = [webTh EXCEPT ![t] = Web!Idle]
        BY <1>0, <1>19, <1>n DEF Web!GiveUp
    <2> QED
        BY <1>0, <1>1, <1>19, <2>1, WebRecords DEF Web!GiveUp
<1>20. CASE Web!Service
    BY <1>0, <1>20 DEF Web!Service, Web!TypeOK
<1>21. CASE UNCHANGED Web!vars
    BY <1>21 DEF Web!vars, Web!TypeOK
<1> QED
    BY <1>6, <1>7, <1>8, <1>9, <1>10, <1>16, <1>17, <1>18, <1>19, <1>20, <1>21 DEF Web!Next

----------------------------------------------------------------------------
(* Proxy: pairs and the running file *)

\* Steps that are not the uploads' business.
OwnUntouched ==
    /\ upload' = upload /\ pairs'["own"] = pairs["own"]
    /\ \A o \in Threads :
          \/ webTh'[o] = webTh[o]
          \/ webTh[o].pc \notin Web!OwnPcs /\ webTh'[o].pc \notin Web!OwnPcs

LEMMA OwnKept ==
    ASSUME Web!OwnPair, OwnUntouched
    PROVE  Web!OwnPair'
BY WebStages DEF Web!OwnPair, OwnUntouched

\* A step of a request for a text, or of the helper, is not the uploads' business.
LEMMA WebNotOwn ==
    ASSUME Web!TypeOK, NEW t \in Threads,
           \/ Web!SiteAdd(t) \/ Web!SiteUpdate(t) \/ Web!SiteDelete(t) \/ Web!FileSave(t)
           \/ Web!CertReplace(t) \/ Web!InstallPair(t) \/ Web!Apply(t) \/ Web!Reload(t)
           \/ Web!PutBack(t) \/ Web!Refill(t) \/ Web!PutBackKey(t) \/ Web!RefillKey(t)
           \/ Web!PutCrt(t) \/ Web!PutKey(t)
    PROVE  OwnUntouched
<1>0. DOMAIN webTh = Threads
    BY DEF Web!TypeOK
<1>1. CASE \/ Web!SiteAdd(t) \/ Web!SiteUpdate(t) \/ Web!SiteDelete(t) \/ Web!FileSave(t)
    <2>1. PICK text, copy : Web!Start(t, Web!Asked(text, copy))
        BY <1>1 DEF Web!SiteAdd, Web!SiteUpdate, Web!SiteDelete, Web!FileSave
    <2>2. UNCHANGED <<pairs, upload>>
        BY <1>1 DEF Web!SiteAdd, Web!SiteUpdate, Web!SiteDelete, Web!FileSave
    <2>3. webTh[t].pc = "idle" /\ webTh' = [webTh EXCEPT ![t] = Web!Asked(text, copy)]
        BY <2>1 DEF Web!Start
    <2> QED
        BY <1>0, <2>2, <2>3, WebRecords, WebStages DEF OwnUntouched
<1>2. CASE HelperMoves(t)
    BY <1>0, <1>2 DEF HelperMoves, OwnUntouched
<1> QED
    BY <1>1, <1>2, WebHelps

LEMMA WebOwnStep ==
    ASSUME Web!TypeOK, Web!OwnPair, ~webDisturbed', [Web!Next]_(Web!vars)
    PROVE  Web!OwnPair'
<1>0. /\ DOMAIN webTh = Threads /\ pairs \in [Web!Place -> Web!Pair] /\ upload \in Web!Pair
      /\ "own" \in Web!Place
    BY Places DEF Web!TypeOK
<1>h. /\ Web!OwnPcs = {"upkey", "upcheck", "ownkey", "selfcrt"}
      /\ Web!HelperPcs = {"crt", "key", "replaced", "putback", "blankcrt", "halfback", "blankkey"}
    BY WebStages
\* A step of the only thread at work on the pair.
<1>1. ASSUME NEW t \in Threads, NEW new, webTh' = [webTh EXCEPT ![t] = new],
             \A o \in Threads \ {t} : webTh[o].pc \notin Web!OwnPcs,
             new.pc = "ownkey" => upload'.key = pairs'["own"].crt /\ upload'.key \notin {Absent, Web!Blank},
             new.pc = "selfcrt" => new.serial = pairs'["own"].key,
             pairs'["own"].crt = pairs'["own"].key \/ new.pc \in {"ownkey", "selfcrt"}
      PROVE  Web!OwnPair'
    BY <1>0, <1>1, <1>h DEF Web!OwnPair
\* A new upload, when no other is at work.
<1>9. ASSUME NEW t \in Threads, Web!UploadCrt(t) \/ Web!SelfKey(t)
      PROVE  Web!OwnPair'
    <2>1. webTh[t].pc = "idle" /\ \A o \in Threads : webTh[o].pc \notin Web!OwnPcs
        BY <1>9, <1>h DEF Web!UploadCrt, Web!SelfKey, Web!Start, Web!Others
    <2>2. pairs["own"].crt = pairs["own"].key
        BY <1>h, <2>1 DEF Web!OwnPair
    <2>3. CASE Web!UploadCrt(t)
        <3>1. PICK k \in Pairs : webTh' = [webTh EXCEPT ![t] = [pc |-> "upkey", key |-> k]]
            BY <2>3 DEF Web!UploadCrt, Web!Start
        <3>2. pairs' = pairs
            BY <2>3 DEF Web!UploadCrt
        <3> QED
            BY <1>1, <2>1, <2>2, <3>1, <3>2
    <2>4. CASE Web!SelfKey(t)
        <3>1. PICK s \in Pairs : /\ webTh' = [webTh EXCEPT ![t] = [pc |-> "selfcrt", serial |-> s]]
                                 /\ pairs' = [pairs EXCEPT !["own"].key = s]
            BY <2>4 DEF Web!SelfKey, Web!Start
        <3>2. pairs'["own"].key = s
            BY <1>0, <3>1 DEF Web!Pair
        <3> QED
            BY <1>1, <2>1, <3>1, <3>2
    <2> QED
        BY <1>9, <2>3, <2>4
\* The steps of the one at work.
<1>10. ASSUME NEW t \in Threads,
              Web!UploadKey(t) \/ Web!UploadCheck(t) \/ Web!OwnKey(t) \/ Web!SelfCrt(t)
       PROVE  Web!OwnPair'
    <2>1. webTh[t].pc \in Web!OwnPcs
        BY <1>10, <1>h DEF Web!UploadKey, Web!UploadCheck, Web!OwnKey, Web!SelfCrt
    <2>2. \A o \in Threads \ {t} : webTh[o].pc \notin Web!OwnPcs
        BY <2>1 DEF Web!OwnPair
    <2>3. webTh[t].pc \in {"upkey", "upcheck"} => pairs["own"].crt = pairs["own"].key
        BY <1>h, <2>2 DEF Web!OwnPair
    <2>4. CASE Web!UploadKey(t)
        <3>1. webTh' = [webTh EXCEPT ![t] = [pc |-> "upcheck"]] /\ webTh[t].pc = "upkey" /\ pairs' = pairs
            BY <2>4 DEF Web!UploadKey
        <3> QED
            BY <1>1, <2>2, <2>3, <3>1
    <2>5. CASE Web!UploadCheck(t) /\ webTh' # [webTh EXCEPT ![t] = Web!Idle]
        <3>1. /\ webTh[t].pc = "upcheck" /\ webTh' = [webTh EXCEPT ![t] = [webTh[t] EXCEPT !.pc = "ownkey"]]
              /\ pairs' = [pairs EXCEPT !["own"].crt = upload.crt]
              /\ upload' = [upload EXCEPT !.crt = Absent] /\ Web!Match(upload)
            BY <1>0, <2>5 DEF Web!UploadCheck
        <3>2. [webTh[t] EXCEPT !.pc = "ownkey"].pc = "ownkey"
            BY <3>1, WebThread
        <3>3. pairs'["own"].crt = upload.crt /\ upload'.key = upload.key
            BY <1>0, <3>1 DEF Web!Pair
        <3> QED
            BY <1>1, <2>2, <3>1, <3>2, <3>3 DEF Web!Match
    <2>6. CASE Web!UploadCheck(t) /\ webTh' = [webTh EXCEPT ![t] = Web!Idle]
        <3>1. webTh[t].pc = "upcheck" /\ pairs' = pairs
            <4>1. webTh'[t].pc = "idle"
                BY <1>0, <2>6 DEF Web!Idle
            <4>2. [webTh[t] EXCEPT !.pc = "ownkey"].pc = "ownkey"
                BY <2>6, WebThread DEF Web!UploadCheck
            <4> QED
                BY <1>0, <2>6, <4>1, <4>2 DEF Web!UploadCheck
        <3> QED
            BY <1>1, <2>2, <2>3, <2>6, <3>1 DEF Web!Idle
    <2>7. CASE Web!OwnKey(t)
        <3>1. /\ webTh[t].pc = "ownkey" /\ webTh' = [webTh EXCEPT ![t] = Web!Idle]
              /\ pairs' = [pairs EXCEPT !["own"].key = IF upload.key = Absent THEN @ ELSE upload.key]
            BY <2>7 DEF Web!OwnKey
        <3>2. upload.key = pairs["own"].crt /\ upload.key \notin {Absent, Web!Blank}
            BY <3>1 DEF Web!OwnPair
        <3>3. pairs'["own"].crt = pairs'["own"].key
            BY <1>0, <3>1, <3>2 DEF Web!Pair
        <3> QED
            BY <1>1, <2>2, <3>1, <3>3 DEF Web!Idle
    <2>8. CASE Web!SelfCrt(t)
        <3>1. /\ webTh[t].pc = "selfcrt" /\ webTh' = [webTh EXCEPT ![t] = Web!Idle]
              /\ pairs' = [pairs EXCEPT !["own"].crt = webTh[t].serial]
            BY <2>8 DEF Web!SelfCrt
        <3>2. webTh[t].serial = pairs["own"].key
            BY <3>1 DEF Web!OwnPair
        <3>3. pairs'["own"].crt = pairs'["own"].key
            BY <1>0, <3>1, <3>2 DEF Web!Pair
        <3> QED
            BY <1>1, <2>2, <3>1, <3>3 DEF Web!Idle
    <2> QED
        BY <1>10, <2>4, <2>5, <2>6, <2>7, <2>8
<1>11. CASE Web!Service \/ UNCHANGED Web!vars
    <2>1. UNCHANGED <<pairs, upload, webTh>>
        BY <1>11 DEF Web!Service, Web!vars
    <2> QED
        BY <2>1, OwnKept DEF OwnUntouched
<1>12. ASSUME NEW t \in Threads, Web!GiveUp(t)
       PROVE  FALSE
    BY <1>12 DEF Web!GiveUp
<1> QED
    BY <1>9, <1>10, <1>11, <1>12, WebNotOwn, OwnKept DEF Web!Next

\* Steps that are not the helper's business.
HelperUntouched ==
    /\ UNCHANGED <<caddyfile, caddyActive, caddyLoaded>>
    /\ \A p \in Web!RoutePlace : pairs'[p] = pairs[p]
    /\ \A o \in Threads :
          \/ webTh'[o] = webTh[o]
          \/ webTh[o].pc \notin Web!HelperPcs /\ webTh'[o].pc \notin Web!HelperPcs

\* A step of a request for a text, or of an upload, is not the helper's business.
LEMMA WebNotHelper ==
    ASSUME Web!TypeOK, NEW t \in Threads,
           \/ Web!SiteAdd(t) \/ Web!SiteUpdate(t) \/ Web!SiteDelete(t) \/ Web!FileSave(t)
           \/ Web!UploadCrt(t) \/ Web!UploadKey(t) \/ Web!UploadCheck(t) \/ Web!OwnKey(t)
           \/ Web!SelfKey(t) \/ Web!SelfCrt(t)
    PROVE  HelperUntouched
<1>0. /\ DOMAIN webTh = Threads /\ pairs \in [Web!Place -> Web!Pair]
      /\ Web!RoutePlace \subseteq Web!Place /\ Web!RoutePlace = {"copy", "wild"}
    BY Places DEF Web!TypeOK
<1>h. /\ Web!OwnPcs = {"upkey", "upcheck", "ownkey", "selfcrt"}
      /\ Web!HelperPcs = {"crt", "key", "replaced", "putback", "blankcrt", "halfback", "blankkey"}
    BY WebStages
<1>i. Web!Idle.pc = "idle" /\ \A text, copy : Web!Asked(text, copy).pc = "asked"
    BY DEF Web!Idle, Web!Asked
<1>2. ASSUME NEW new, webTh' = [webTh EXCEPT ![t] = new],
             webTh[t].pc \notin Web!HelperPcs, new.pc \notin Web!HelperPcs,
             UNCHANGED <<caddyfile, caddyActive, caddyLoaded>>,
             \A p \in Web!RoutePlace : pairs'[p] = pairs[p]
      PROVE  HelperUntouched
    BY <1>0, <1>2 DEF HelperUntouched
<1>3. ASSUME \/ Web!SiteAdd(t) \/ Web!SiteUpdate(t) \/ Web!SiteDelete(t) \/ Web!FileSave(t)
      PROVE  HelperUntouched
    <2>1. PICK text, copy : Web!Start(t, Web!Asked(text, copy))
        BY <1>3 DEF Web!SiteAdd, Web!SiteUpdate, Web!SiteDelete, Web!FileSave
    <2>2. UNCHANGED <<caddyfile, caddyActive, caddyLoaded>> /\ pairs' = pairs
        BY <1>3 DEF Web!SiteAdd, Web!SiteUpdate, Web!SiteDelete, Web!FileSave
    <2>3. webTh[t].pc = "idle" /\ webTh' = [webTh EXCEPT ![t] = Web!Asked(text, copy)]
        BY <2>1 DEF Web!Start
    <2>4. Web!Asked(text, copy).pc = "asked"
        BY <1>i
    <2> QED
        BY <1>2, <1>h, <2>2, <2>3, <2>4
<1>4. ASSUME Web!UploadCrt(t) \/ Web!SelfKey(t)
      PROVE  HelperUntouched
    <2>1. PICK new : Web!Start(t, new) /\ new.pc \in {"upkey", "selfcrt"}
        <3>1. CASE Web!UploadCrt(t)
            <4>1. PICK k \in Pairs : Web!Start(t, [pc |-> "upkey", key |-> k])
                BY <3>1 DEF Web!UploadCrt
            <4>2. [pc |-> "upkey", key |-> k].pc = "upkey"
                OBVIOUS
            <4> QED
                BY <4>1, <4>2
        <3>2. CASE Web!SelfKey(t)
            <4>1. PICK s \in Pairs : Web!Start(t, [pc |-> "selfcrt", serial |-> s])
                BY <3>2 DEF Web!SelfKey
            <4>2. [pc |-> "selfcrt", serial |-> s].pc = "selfcrt"
                OBVIOUS
            <4> QED
                BY <4>1, <4>2
        <3> QED
            BY <1>4, <3>1, <3>2
    <2>2. UNCHANGED <<caddyfile, caddyActive, caddyLoaded>>
        BY <1>4 DEF Web!UploadCrt, Web!SelfKey
    <2>3. \A p \in Web!RoutePlace : pairs'[p] = pairs[p]
        BY <1>0, <1>4 DEF Web!UploadCrt, Web!SelfKey
    <2>4. webTh[t].pc = "idle" /\ webTh' = [webTh EXCEPT ![t] = new]
        BY <2>1 DEF Web!Start
    <2> QED
        BY <1>2, <1>h, <2>1, <2>2, <2>3, <2>4
<1>5. ASSUME Web!UploadKey(t) \/ Web!UploadCheck(t) \/ Web!OwnKey(t) \/ Web!SelfCrt(t)
      PROVE  HelperUntouched
    <2>1. webTh[t].pc \in Web!OwnPcs /\ UNCHANGED <<caddyfile, caddyActive, caddyLoaded>>
        BY <1>5, <1>h DEF Web!UploadKey, Web!UploadCheck, Web!OwnKey, Web!SelfCrt
    <2>2. \A p \in Web!RoutePlace : pairs'[p] = pairs[p]
        BY <1>0, <1>5 DEF Web!UploadKey, Web!UploadCheck, Web!OwnKey, Web!SelfCrt
    <2>3. CASE Web!UploadCheck(t)
        <3> DEFINE next == [webTh[t] EXCEPT !.pc = "ownkey"]
        <3>1. PICK new \in {next, Web!Idle} : webTh' = [webTh EXCEPT ![t] = new]
            BY <2>3 DEF Web!UploadCheck
        <3>2. next.pc = "ownkey"
            BY <2>3, WebThread DEF Web!UploadCheck
        <3> HIDE DEF next
        <3>3. new.pc \notin Web!HelperPcs
            BY <1>h, <1>i, <3>1, <3>2
        <3>4. webTh' = [webTh EXCEPT ![t] = new] /\ webTh[t].pc \notin Web!HelperPcs
            BY <1>h, <2>1, <3>1
        <3> QED
            BY Zenon, <1>2, <2>1, <2>2, <3>3, <3>4
    <2>4. CASE Web!UploadKey(t) \/ Web!OwnKey(t) \/ Web!SelfCrt(t)
        <3>1. PICK new \in {[pc |-> "upcheck"], Web!Idle} : webTh' = [webTh EXCEPT ![t] = new]
            BY <2>4 DEF Web!UploadKey, Web!OwnKey, Web!SelfCrt
        <3>2. new.pc \notin Web!HelperPcs
            BY <1>h, <1>i, <3>1
        <3>3. webTh' = [webTh EXCEPT ![t] = new] /\ webTh[t].pc \notin Web!HelperPcs
            BY <1>h, <2>1, <3>1
        <3> QED
            BY Zenon, <1>2, <2>1, <2>2, <3>2, <3>3
    <2> QED
        BY <1>5, <2>3, <2>4
<1> QED
    BY <1>3, <1>4, <1>5

\* OneHelper, in terms of the texts and the pairs it speaks of.
GoodText(text, halves) ==
    /\ text.rest # "invalid"
    /\ \A h \in Items : text.route[h] \in Web!Place => halves[text.route[h]].crt # Absent
PairFacts(r, halves, text) ==
    /\ Web!Whole(r.prev)
    /\ r.prev = Web!Nothing => r.pc \in {"crt", "key"} /\ \A h \in Items : text.route[h] # r.place
    /\ r.pc = "crt" => r.prev = halves[r.place]
    /\ r.pc = "key" => halves[r.place].crt = r.serial
    /\ r.pc = "replaced" => Web!Match(halves[r.place])
    /\ r.pc \in {"halfback", "blankkey"} => halves[r.place].crt = r.prev.crt
HelperFacts(r, halves, text) ==
    IF r.place = "none" THEN GoodText(r.prev, halves) ELSE PairFacts(r, halves, text)
\* A pair is whole, or the helper whose record is r is between its halves.
WholeOr(r, p, half) ==
    \/ Web!Whole(half)
    \/ r.pc \in Web!HelperPcs \ {"crt", "replaced"} /\ r.place = p
\* What a running caddy runs with beside a helper whose record is r.
Runs(r, text, read) == IF r.pc \in Web!HelperPcs /\ r.place = "none" THEN read = r.prev ELSE read = text

Facts(text, halves, runs, read, at) ==
    /\ \A t, o \in Threads : (at[t].pc \in Web!HelperPcs /\ at[o].pc \in Web!HelperPcs) => t = o
    /\ GoodText(text, halves)
    /\ \A t \in Threads : at[t].pc \in Web!HelperPcs => HelperFacts(at[t], halves, text)
    /\ \A p \in Web!RoutePlace :
          \/ Web!Whole(halves[p])
          \/ \E t \in Threads : at[t].pc \in Web!HelperPcs \ {"crt", "replaced"} /\ at[t].place = p
    /\ runs => /\ \A t \in Threads : at[t].pc \in Web!HelperPcs /\ at[t].place = "none" => read = at[t].prev
               /\ (\A t \in Threads : ~(at[t].pc \in Web!HelperPcs /\ at[t].place = "none")) => read = text

LEMMA WebFacts ==
    /\ Web!OneHelper <=> Facts(caddyfile, pairs, caddyActive, caddyLoaded, webTh)
    /\ Web!OneHelper' <=> Facts(caddyfile', pairs', caddyActive', caddyLoaded', webTh')
<1>1. /\ Web!RunsFile <=>
            (caddyActive =>
                /\ \A t \in Threads : Web!Replacing(t) => caddyLoaded = webTh[t].prev
                /\ (\A t \in Threads : ~Web!Replacing(t)) => caddyLoaded = caddyfile)
      /\ Web!RunsFile' <=>
            (caddyActive' =>
                /\ \A t \in Threads : Web!Replacing(t)' => caddyLoaded' = webTh'[t].prev
                /\ (\A t \in Threads : ~Web!Replacing(t)') => caddyLoaded' = caddyfile')
    BY DEF Web!RunsFile
<1>2. \A t : /\ Web!Replacing(t) <=> webTh[t].pc \in Web!HelperPcs /\ webTh[t].place = "none"
             /\ Web!Replacing(t)' <=> webTh'[t].pc \in Web!HelperPcs /\ webTh'[t].place = "none"
    BY DEF Web!Replacing
<1>3. /\ Web!Good(caddyfile) <=> GoodText(caddyfile, pairs)
      /\ Web!Good(caddyfile)' <=> GoodText(caddyfile', pairs')
      /\ \A t : /\ Web!Good(webTh[t].prev) <=> GoodText(webTh[t].prev, pairs)
                /\ Web!Good(webTh[t].prev)' <=> GoodText(webTh'[t].prev, pairs')
    BY DEF Web!Good, GoodText
<1>4. Web!OneHelper <=> Facts(caddyfile, pairs, caddyActive, caddyLoaded, webTh)
    BY <1>1, <1>2, <1>3 DEF Web!OneHelper, Facts, HelperFacts, PairFacts
<1>5. Web!OneHelper' <=> Facts(caddyfile', pairs', caddyActive', caddyLoaded', webTh')
    BY <1>1, <1>2, <1>3 DEF Web!OneHelper, Facts, HelperFacts, PairFacts
<1> QED
    BY <1>4, <1>5

\* A text stays good while no pair that it names is taken away.
LEMMA GoodKept ==
    ASSUME NEW text \in Web!Caddyfile, NEW halves, NEW new, GoodText(text, halves),
           \A p \in Web!RoutePlace : halves[p].crt # Absent => new[p].crt # Absent
    PROVE  GoodText(text, new)
BY Places DEF GoodText, Web!Caddyfile

LEMMA HelperKept ==
    ASSUME Web!TypeOK, Web!OneHelper, HelperUntouched
    PROVE  Web!OneHelper'
<1> USE DEF HelperUntouched
<1>1. Facts(caddyfile, pairs, caddyActive, caddyLoaded, webTh)
    BY WebFacts
<1>2. /\ caddyfile' = caddyfile /\ caddyLoaded' = caddyLoaded /\ caddyActive' = caddyActive
      /\ \A t \in Threads :
            /\ webTh[t].pc \in Web!HelperPcs <=> webTh'[t].pc \in Web!HelperPcs
            /\ webTh'[t].pc \in Web!HelperPcs => webTh'[t] = webTh[t]
    OBVIOUS
<1>3. GoodText(caddyfile', pairs')
    BY <1>1, <1>2, GoodKept DEF Facts, Web!TypeOK
<1>4. ASSUME NEW t \in Threads, webTh'[t].pc \in Web!HelperPcs
      PROVE  HelperFacts(webTh'[t], pairs', caddyfile')
    <2>1. webTh'[t] = webTh[t] /\ webTh[t].pc \in Web!HelperPcs
        BY <1>2, <1>4
    <2>2. HelperFacts(webTh[t], pairs, caddyfile)
        BY <1>1, <2>1 DEF Facts
    <2>3. CASE webTh[t].place = "none"
        <3>1. webTh[t].prev \in Web!Caddyfile
            BY <2>1, <2>3, WebAtWork
        <3> QED
            BY <2>1, <2>2, <2>3, <3>1, GoodKept DEF HelperFacts
    <2>4. CASE webTh[t].place # "none"
        <3>1. webTh[t].place \in Web!RoutePlace
            BY <2>1, <2>4, WebAtWork
        <3> QED
            BY <1>2, <2>1, <2>2, <2>4, <3>1 DEF HelperFacts, PairFacts
    <2> QED
        BY <2>3, <2>4
<1>5. ASSUME NEW p \in Web!RoutePlace
      PROVE  \/ Web!Whole(pairs'[p])
             \/ \E t \in Threads : webTh'[t].pc \in Web!HelperPcs \ {"crt", "replaced"} /\ webTh'[t].place = p
    <2>1. pairs'[p] = pairs[p]
        BY <1>5
    <2>2. CASE Web!Whole(pairs[p])
        BY <2>1, <2>2
    <2>3. CASE ~Web!Whole(pairs[p])
        <3>1. PICK t \in Threads : webTh[t].pc \in Web!HelperPcs \ {"crt", "replaced"} /\ webTh[t].place = p
            BY <1>1, <2>3 DEF Facts
        <3>2. webTh'[t] = webTh[t]
            BY <1>2, <3>1
        <3> QED
            BY <3>1, <3>2
    <2> QED
        BY <2>2, <2>3
<1>6. Facts(caddyfile', pairs', caddyActive', caddyLoaded', webTh')
    BY <1>1, <1>2, <1>3, <1>4, <1>5 DEF Facts
<1> QED
    BY <1>6, WebFacts

\* A step of the only helper.
LEMMA WebAlone ==
    ASSUME Web!TypeOK, NEW t \in Threads, NEW new, webTh' = [webTh EXCEPT ![t] = new],
           \A o \in Threads \ {t} : webTh[o].pc \notin Web!HelperPcs,
           GoodText(caddyfile', pairs'),
           new.pc \in Web!HelperPcs => HelperFacts(new, pairs', caddyfile'),
           \A p \in Web!RoutePlace : WholeOr(new, p, pairs'[p]),
           caddyActive' => Runs(new, caddyfile', caddyLoaded')
    PROVE  Web!OneHelper'
<1>1. webTh'[t] = new /\ \A o \in Threads \ {t} : webTh'[o].pc \notin Web!HelperPcs
    BY DEF Web!TypeOK
<1>2. \A o \in Threads : webTh'[o].pc \in Web!HelperPcs => o = t
    BY <1>1
<1>3. Facts(caddyfile', pairs', caddyActive', caddyLoaded', webTh')
    BY <1>1, <1>2 DEF Facts, WholeOr, Runs
<1> QED
    BY <1>3, WebFacts

\* When a helper is at work nobody else is, and what it does not touch is whole.
LEMMA WebOnly ==
    ASSUME Web!OneHelper, NEW t \in Threads, webTh[t].pc \in Web!HelperPcs
    PROVE  /\ \A o \in Threads \ {t} : webTh[o].pc \notin Web!HelperPcs
           /\ GoodText(caddyfile, pairs)
           /\ HelperFacts(webTh[t], pairs, caddyfile)
           /\ \A p \in Web!RoutePlace : WholeOr(webTh[t], p, pairs[p])
           /\ caddyActive => Runs(webTh[t], caddyfile, caddyLoaded)
<1>1. Facts(caddyfile, pairs, caddyActive, caddyLoaded, webTh)
    BY WebFacts
<1>2. \A o \in Threads \ {t} : webTh[o].pc \notin Web!HelperPcs
    BY <1>1 DEF Facts
<1>3. ASSUME NEW p \in Web!RoutePlace
      PROVE  WholeOr(webTh[t], p, pairs[p])
    <2>1. CASE Web!Whole(pairs[p])
        BY <2>1 DEF WholeOr
    <2>2. CASE ~Web!Whole(pairs[p])
        <3>1. PICK o \in Threads : webTh[o].pc \in Web!HelperPcs \ {"crt", "replaced"} /\ webTh[o].place = p
            BY <1>1, <2>2 DEF Facts
        <3>2. o = t
            BY <1>2, <3>1
        <3> QED
            BY <3>1, <3>2 DEF WholeOr
    <2> QED
        BY <2>1, <2>2
<1>4. ASSUME caddyActive
      PROVE  Runs(webTh[t], caddyfile, caddyLoaded)
    BY <1>1, <1>2, <1>4 DEF Facts, Runs
<1> QED
    BY <1>1, <1>2, <1>3, <1>4 DEF Facts

\* When no helper works, the pairs are whole and caddy runs with the file.
LEMMA WebNobody ==
    ASSUME Web!OneHelper, \A o \in Threads : webTh[o].pc \notin Web!HelperPcs
    PROVE  /\ GoodText(caddyfile, pairs)
           /\ \A p \in Web!RoutePlace : Web!Whole(pairs[p])
           /\ caddyActive => caddyLoaded = caddyfile
<1>1. Facts(caddyfile, pairs, caddyActive, caddyLoaded, webTh)
    BY WebFacts
<1> QED
    BY <1>1 DEF Facts

LEMMA WebHelperStep ==
    ASSUME Web!TypeOK, Web!OneHelper, ~webDisturbed', [Web!Next]_(Web!vars)
    PROVE  Web!OneHelper'
<1>0. /\ DOMAIN webTh = Threads /\ pairs \in [Web!Place -> Web!Pair] /\ caddyfile \in Web!Caddyfile
      /\ Web!RoutePlace \subseteq Web!Place /\ Web!RoutePlace = {"copy", "wild"}
      /\ \A p \in Web!Place : pairs[p] \in Web!Pair
    BY Places DEF Web!TypeOK
<1>h. Web!HelperPcs = {"crt", "key", "replaced", "putback", "blankcrt", "halfback", "blankkey"}
    BY WebStages
\* A thread that was no helper and is none.
<1>1. ASSUME NEW t \in Threads, NEW new, webTh' = [webTh EXCEPT ![t] = new],
             webTh[t].pc \notin Web!HelperPcs, new.pc \notin Web!HelperPcs,
             UNCHANGED <<caddyfile, caddyActive, caddyLoaded>>, pairs' = pairs
      PROVE  Web!OneHelper'
    BY <1>0, <1>1, HelperKept DEF HelperUntouched
\* A helper that begins to replace a pair.
<1>2. ASSUME NEW t \in Threads, NEW place \in Web!RoutePlace, NEW r, webTh' = [webTh EXCEPT ![t] = r],
             r.pc = "crt", r.place = place, r.prev = pairs[place],
             webTh[t].pc \notin Web!HelperPcs, ~Web!Others(t, Web!HelperPcs),
             UNCHANGED <<caddyfile, pairs, caddyActive, caddyLoaded>>
      PROVE  Web!OneHelper'
    <2>1. \A o \in Threads : webTh[o].pc \notin Web!HelperPcs
        BY <1>2 DEF Web!Others
    <2>2. /\ GoodText(caddyfile, pairs)
          /\ \A p \in Web!RoutePlace : Web!Whole(pairs[p])
          /\ caddyActive => caddyLoaded = caddyfile
        BY <2>1, WebNobody
    <2>3. place # "none" /\ place \in Web!Place
        BY <1>0, Places
    <2>4. HelperFacts(r, pairs, caddyfile)
        BY <1>2, <2>2, <2>3 DEF HelperFacts, PairFacts, GoodText, Web!Nothing
    <2>5. GoodText(caddyfile', pairs') /\ HelperFacts(r, pairs', caddyfile')
        BY <1>2, <2>2, <2>4
    <2>6. /\ \A p \in Web!RoutePlace : WholeOr(r, p, pairs'[p])
          /\ caddyActive' => Runs(r, caddyfile', caddyLoaded')
        BY <1>2, <2>2, <2>3 DEF WholeOr, Runs
    <2> QED
        BY <1>2, <2>1, <2>5, <2>6, WebAlone
<1>3. ASSUME NEW t \in Threads, Web!CertReplace(t)
      PROVE  Web!OneHelper'
    <2>1. PICK p \in Web!TlsPairs(caddyfile), s \in Pairs :
             Web!Start(t, [pc |-> "crt", place |-> p, serial |-> s, prev |-> pairs[p], then |-> Absent])
        BY <1>3 DEF Web!CertReplace
    <2>2. p \in Web!RoutePlace
        BY <1>0, Places DEF Web!TlsPairs, Web!Caddyfile
    <2>3. PICK r : r = [pc |-> "crt", place |-> p, serial |-> s, prev |-> pairs[p], then |-> Absent]
        OBVIOUS
    <2>4. webTh[t].pc = "idle" /\ webTh' = [webTh EXCEPT ![t] = r]
        BY <2>1, <2>3 DEF Web!Start
    <2>5. r.pc = "crt" /\ r.place = p /\ r.prev = pairs[p]
        BY <2>3
    <2>6. ~Web!Others(t, Web!HelperPcs)
        BY Zenon, <1>3 DEF Web!CertReplace
    <2>7. UNCHANGED <<caddyfile, pairs, caddyActive, caddyLoaded>>
        BY <1>3 DEF Web!CertReplace
    <2> QED
        BY <1>2, <1>h, <2>2, <2>4, <2>5, <2>6, <2>7
<1>4. ASSUME NEW t \in Threads, Web!InstallPair(t)
      PROVE  Web!OneHelper'
    <2>1. webTh[t].pc = "asked" /\ UNCHANGED <<caddyfile, pairs, caddyActive, caddyLoaded>>
        BY <1>4 DEF Web!InstallPair
    <2>2. CASE webTh' = [webTh EXCEPT ![t] = Web!Idle]
        BY <1>1, <1>h, <2>1, <2>2, WebRecords
    <2>3. CASE webTh' # [webTh EXCEPT ![t] = Web!Idle]
        <3>1. PICK r : r = [pc |-> "crt", place |-> "copy", serial |-> pairs["own"].crt,
                            prev |-> pairs["copy"], then |-> webTh[t].text]
            OBVIOUS
        <3>2. webTh' = [webTh EXCEPT ![t] = r] /\ ~Web!Others(t, Web!HelperPcs)
            <4> DEFINE goes == /\ Web!Match(pairs["own"])
                               /\ Web!Exist(pairs["copy"]) \/ pairs["copy"] = Web!Nothing
            <4>1. goes /\ webTh' = [webTh EXCEPT ![t] = r]
                BY <1>4, <2>3, <3>1 DEF Web!InstallPair
            <4>2. webDisturbed' = (webDisturbed \/ (goes /\ Web!Others(t, Web!HelperPcs)))
                BY Zenon, <1>4 DEF Web!InstallPair
            <4> HIDE DEF goes
            <4>3. ~Web!Others(t, Web!HelperPcs)
                BY Zenon, <4>1, <4>2
            <4> QED
                BY <4>1, <4>3
        <3>3. r.pc = "crt" /\ r.place = "copy" /\ r.prev = pairs["copy"]
            BY <3>1
        <3> QED
            BY <1>0, <1>2, <1>h, <2>1, <3>2, <3>3
    <2> QED
        BY <2>2, <2>3
<1>5. ASSUME NEW t \in Threads, Web!Apply(t)
      PROVE  Web!OneHelper'
    <2>1. webTh[t].pc = "asked" /\ UNCHANGED <<pairs, caddyActive, caddyLoaded>>
        BY <1>5 DEF Web!Apply
    <2>2. CASE webTh' = [webTh EXCEPT ![t] = Web!Idle] /\ caddyfile' = caddyfile
        BY <1>1, <1>h, <2>1, <2>2, WebRecords
    <2>3. CASE ~(webTh' = [webTh EXCEPT ![t] = Web!Idle] /\ caddyfile' = caddyfile)
        <3>0. PICK r : r = [pc |-> "replaced", place |-> "none", prev |-> caddyfile, then |-> Absent]
            OBVIOUS
        <3>1. /\ webTh' = [webTh EXCEPT ![t] = r] /\ caddyfile' = webTh[t].text
              /\ Web!Valid(webTh[t].text)
            BY <1>5, <2>3, <3>0 DEF Web!Apply
        <3>2. r.pc = "replaced" /\ r.place = "none" /\ r.prev = caddyfile
            BY <3>0
        <3>3. ~Web!Others(t, Web!HelperPcs)
            <4>1. webDisturbed' = (webDisturbed \/ Web!Others(t, Web!HelperPcs))
                BY <1>5, <2>3 DEF Web!Apply
            <4> QED
                BY Zenon, <4>1
        <3>4. \A o \in Threads : webTh[o].pc \notin Web!HelperPcs
            BY <1>h, <2>1, <3>3 DEF Web!Others
        <3>5. /\ GoodText(caddyfile, pairs)
              /\ \A p \in Web!RoutePlace : Web!Whole(pairs[p])
              /\ caddyActive => caddyLoaded = caddyfile
            BY <3>4, WebNobody
        <3>6. GoodText(caddyfile', pairs')
            BY <2>1, <3>1 DEF GoodText, Web!Valid, Web!Match
        <3>7. HelperFacts(r, pairs', caddyfile')
            BY <2>1, <3>2, <3>5 DEF HelperFacts
        <3>8. /\ \A p \in Web!RoutePlace : WholeOr(r, p, pairs'[p])
              /\ caddyActive' => Runs(r, caddyfile', caddyLoaded')
            BY <1>h, <2>1, <3>2, <3>5 DEF WholeOr, Runs
        <3> QED
            BY <3>1, <3>4, <3>6, <3>7, <3>8, WebAlone
    <2> QED
        BY <2>2, <2>3
<1>6. ASSUME NEW t \in Threads, Web!Reload(t)
      PROVE  Web!OneHelper'
    <2>1. webTh[t].pc = "replaced" /\ UNCHANGED <<caddyfile, pairs, caddyActive>>
        BY <1>6 DEF Web!Reload
    <2>2. /\ \A o \in Threads \ {t} : webTh[o].pc \notin Web!HelperPcs
          /\ GoodText(caddyfile, pairs)
          /\ HelperFacts(webTh[t], pairs, caddyfile)
          /\ \A p \in Web!RoutePlace : Web!Whole(pairs[p])
          /\ caddyActive => Runs(webTh[t], caddyfile, caddyLoaded)
        BY <1>h, <2>1, WebOnly DEF WholeOr
    <2>3. GoodText(caddyfile', pairs')
        BY <2>1, <2>2
    <2>4. CASE webTh' = [webTh EXCEPT ![t] = Web!After(t)] /\ caddyLoaded' = IF caddyActive THEN caddyfile ELSE caddyLoaded
        <3>1. PICK a : a = Web!After(t)
            OBVIOUS
        <3>2. a.pc \notin Web!HelperPcs /\ webTh' = [webTh EXCEPT ![t] = a]
            BY <1>h, <2>1, <2>4, <3>1, WebAfter
        <3>3. /\ \A p \in Web!RoutePlace : WholeOr(a, p, pairs'[p])
              /\ caddyActive' => Runs(a, caddyfile', caddyLoaded')
            BY <2>1, <2>2, <2>4, <3>2 DEF WholeOr, Runs
        <3> QED
            BY <2>2, <2>3, <3>2, <3>3, WebAlone
    <2>5. CASE webTh' = [webTh EXCEPT ![t].pc = "putback"] /\ caddyLoaded' = caddyLoaded
        <3>1. PICK r : r = [webTh[t] EXCEPT !.pc = "putback"]
            OBVIOUS
        <3>2. /\ r.pc = "putback" /\ r.place = webTh[t].place /\ r.prev = webTh[t].prev
              /\ webTh' = [webTh EXCEPT ![t] = r]
            BY <1>0, <2>1, <2>5, <3>1, WebGoesOn
        <3>3. HelperFacts(r, pairs', caddyfile')
            BY <2>1, <2>2, <3>2 DEF HelperFacts, PairFacts
        <3>4. /\ \A p \in Web!RoutePlace : WholeOr(r, p, pairs'[p])
              /\ caddyActive' => Runs(r, caddyfile', caddyLoaded')
            BY <1>h, <2>1, <2>2, <2>5, <3>2 DEF WholeOr, Runs
        <3> QED
            BY <2>2, <2>3, <3>2, <3>3, <3>4, WebAlone
    <2> QED
        BY <1>6, <2>4, <2>5 DEF Web!Reload
\* The put-back of the Caddyfile.
<1>7. ASSUME NEW t \in Threads, Web!PutBack(t) \/ Web!Refill(t), webTh[t].place = "none"
      PROVE  Web!OneHelper'
    <2>1. webTh[t].pc \in {"putback", "blankcrt"} /\ UNCHANGED <<pairs, caddyActive, caddyLoaded>>
        BY <1>7 DEF Web!PutBack, Web!Refill
    <2>2. /\ \A o \in Threads \ {t} : webTh[o].pc \notin Web!HelperPcs
          /\ GoodText(webTh[t].prev, pairs)
          /\ \A p \in Web!RoutePlace : Web!Whole(pairs[p])
          /\ caddyActive => caddyLoaded = webTh[t].prev
        BY <1>0, <1>7, <1>h, <2>1, WebOnly, Places DEF HelperFacts, WholeOr, Runs
    <2>3. CASE Web!PutBack(t)
        <3>1. PICK r : r = [webTh[t] EXCEPT !.pc = "blankcrt"]
            OBVIOUS
        <3>2. /\ r.pc = "blankcrt" /\ r.place = "none" /\ r.prev = webTh[t].prev
              /\ webTh' = [webTh EXCEPT ![t] = r] /\ caddyfile' = Web!Empty
            BY <1>0, <1>7, <2>3, <3>1, WebGoesOn DEF Web!PutBack
        <3>3. GoodText(caddyfile', pairs')
            BY <3>2, Places DEF GoodText, Web!Empty
        <3>4. HelperFacts(r, pairs', caddyfile')
            BY <2>1, <2>2, <3>2 DEF HelperFacts
        <3>5. /\ \A p \in Web!RoutePlace : WholeOr(r, p, pairs'[p])
              /\ caddyActive' => Runs(r, caddyfile', caddyLoaded')
            BY <1>h, <2>1, <2>2, <3>2 DEF WholeOr, Runs
        <3> QED
            BY <2>2, <3>2, <3>3, <3>4, <3>5, WebAlone
    <2>4. CASE Web!Refill(t)
        <3>1. webTh' = [webTh EXCEPT ![t] = Web!Idle] /\ caddyfile' = webTh[t].prev
            BY <1>7, <2>4 DEF Web!Refill
        <3>2. GoodText(caddyfile', pairs')
            BY <2>1, <2>2, <3>1
        <3>3. /\ \A p \in Web!RoutePlace : WholeOr(Web!Idle, p, pairs'[p])
              /\ caddyActive' => Runs(Web!Idle, caddyfile', caddyLoaded')
            BY <1>h, <2>1, <2>2, <3>1, WebRecords DEF WholeOr, Runs
        <3>4. Web!Idle.pc \notin Web!HelperPcs
            BY <1>h, WebRecords
        <3> QED
            BY <2>2, <3>1, <3>2, <3>3, <3>4, WebAlone
    <2> QED
        BY <1>7, <2>3, <2>4
\* A helper on a pair, at any other step: it works on this pair only, and names nothing less.
<1>8. ASSUME NEW t \in Threads, NEW new, webTh' = [webTh EXCEPT ![t] = new],
             webTh[t].pc \in Web!HelperPcs, webTh[t].place \in Web!RoutePlace,
             UNCHANGED <<caddyfile, caddyActive, caddyLoaded>>,
             \A p \in Web!RoutePlace \ {webTh[t].place} : pairs'[p] = pairs[p],
             pairs[webTh[t].place].crt # Absent => pairs'[webTh[t].place].crt # Absent,
             new.pc \in Web!HelperPcs => new.place = webTh[t].place /\ PairFacts(new, pairs', caddyfile),
             WholeOr(new, webTh[t].place, pairs'[webTh[t].place])
      PROVE  Web!OneHelper'
    <2>1. /\ \A o \in Threads \ {t} : webTh[o].pc \notin Web!HelperPcs
          /\ GoodText(caddyfile, pairs)
          /\ \A p \in Web!RoutePlace : WholeOr(webTh[t], p, pairs[p])
          /\ caddyActive => Runs(webTh[t], caddyfile, caddyLoaded)
        BY <1>8, WebOnly
    <2>2. webTh[t].place # "none"
        BY <1>8, Places
    <2>3. GoodText(caddyfile', pairs')
        BY <1>0, <1>8, <2>1, GoodKept
    <2>4. new.pc \in Web!HelperPcs => HelperFacts(new, pairs', caddyfile')
        BY <1>8, <2>2 DEF HelperFacts
    <2>5. \A p \in Web!RoutePlace : WholeOr(new, p, pairs'[p])
        BY <1>8, <2>1 DEF WholeOr
    <2>6. caddyActive' => Runs(new, caddyfile', caddyLoaded')
        BY <1>8, <2>1, <2>2 DEF Runs
    <2> QED
        BY <1>8, <2>1, <2>3, <2>4, <2>5, <2>6, WebAlone
\* What such a helper holds.
<1>9. ASSUME NEW t \in Threads, webTh[t].pc \in Web!HelperPcs, webTh[t].place # "none"
      PROVE  /\ webTh[t].place \in Web!RoutePlace /\ webTh[t].place \in Web!Place
             /\ webTh[t].prev \in Web!Pair /\ pairs[webTh[t].place] \in Web!Pair
             /\ PairFacts(webTh[t], pairs, caddyfile)
             /\ webTh[t].prev # Web!Nothing => /\ Web!Match(webTh[t].prev)
                                               /\ webTh[t].prev.crt # Absent /\ webTh[t].prev.crt \in Web!Half
                                               /\ webTh[t].prev.key = webTh[t].prev.crt
    <2>1. webTh[t].place \in Web!RoutePlace /\ webTh[t].prev \in Web!Pair
        BY <1>9, WebAtWork
    <2>2. PairFacts(webTh[t], pairs, caddyfile)
        BY <1>9, WebOnly DEF HelperFacts
    <2>3. webTh[t].prev # Web!Nothing => Web!Match(webTh[t].prev)
        BY <2>2 DEF PairFacts, Web!Whole
    <2> QED
        BY <1>0, <2>1, <2>2, <2>3, Halves DEF Web!Match, Web!Pair
<1>10. ASSUME NEW t \in Threads, Web!PutBack(t) \/ Web!Refill(t), webTh[t].place # "none"
       PROVE  Web!OneHelper'
    <2>1. /\ webTh[t].pc \in {"putback", "blankcrt"}
          /\ UNCHANGED <<caddyfile, caddyActive, caddyLoaded>>
        BY <1>10 DEF Web!PutBack, Web!Refill
    <2>2. webTh[t].pc \in Web!HelperPcs
        BY <1>h, <2>1
    <2>3. /\ webTh[t].place \in Web!RoutePlace /\ PairFacts(webTh[t], pairs, caddyfile)
          /\ webTh[t].prev # Web!Nothing /\ webTh[t].prev.crt # Absent /\ webTh[t].prev.crt \in Web!Half
        BY <1>9, <1>10, <2>1, <2>2 DEF PairFacts
    <2>4. CASE Web!PutBack(t)
        <3>1. PICK r : r = [webTh[t] EXCEPT !.pc = "blankcrt"]
            OBVIOUS
        <3>2. /\ r.pc = "blankcrt" /\ r.place = webTh[t].place /\ r.prev = webTh[t].prev
              /\ webTh' = [webTh EXCEPT ![t] = r]
              /\ pairs' = [pairs EXCEPT ![webTh[t].place].crt = "blank"]
            BY <1>0, <1>10, <2>4, <3>1, WebGoesOn DEF Web!PutBack, Web!Blank
        <3>b. "blank" \in Web!Half /\ "blank" # Absent
            BY Halves, Places
        <3>3. /\ pairs'[webTh[t].place].crt # Absent
              /\ \A p \in Web!RoutePlace \ {webTh[t].place} : pairs'[p] = pairs[p]
            BY <2>3, <3>b, <3>2, WebPairWrite
        <3>4. PairFacts(r, pairs', caddyfile) /\ WholeOr(r, webTh[t].place, pairs'[webTh[t].place])
            BY <1>h, <2>3, <3>2 DEF PairFacts, WholeOr
        <3> QED
            BY <1>8, <2>1, <2>2, <2>3, <3>2, <3>3, <3>4
    <2>5. CASE Web!Refill(t)
        <3>1. PICK r : r = [webTh[t] EXCEPT !.pc = "halfback"]
            OBVIOUS
        <3>2. /\ r.pc = "halfback" /\ r.place = webTh[t].place /\ r.prev = webTh[t].prev
              /\ webTh' = [webTh EXCEPT ![t] = r]
              /\ pairs' = [pairs EXCEPT ![webTh[t].place].crt = webTh[t].prev.crt]
            BY <1>0, <1>10, <2>5, <3>1, WebGoesOn DEF Web!Refill
        <3>3. /\ pairs'[webTh[t].place].crt = webTh[t].prev.crt
              /\ \A p \in Web!RoutePlace \ {webTh[t].place} : pairs'[p] = pairs[p]
            BY <2>3, <3>2, WebPairWrite
        <3>4. PairFacts(r, pairs', caddyfile) /\ WholeOr(r, webTh[t].place, pairs'[webTh[t].place])
            BY <1>h, <2>3, <3>2, <3>3 DEF PairFacts, WholeOr
        <3> QED
            BY <1>8, <2>1, <2>2, <2>3, <3>2, <3>3, <3>4
    <2> QED
        BY <1>10, <2>4, <2>5
<1>11. ASSUME NEW t \in Threads, Web!PutBackKey(t) \/ Web!RefillKey(t)
       PROVE  Web!OneHelper'
    <2>1. /\ webTh[t].pc \in {"halfback", "blankkey"}
          /\ UNCHANGED <<caddyfile, caddyActive, caddyLoaded>>
        BY <1>11 DEF Web!PutBackKey, Web!RefillKey
    <2>2. webTh[t].pc \in Web!HelperPcs /\ webTh[t].place # "none"
        BY <1>h, <2>1, WebAtWork
    <2>3. /\ webTh[t].place \in Web!RoutePlace /\ PairFacts(webTh[t], pairs, caddyfile)
          /\ webTh[t].prev # Web!Nothing /\ Web!Match(webTh[t].prev) /\ webTh[t].prev.crt # Absent
          /\ webTh[t].prev.crt \in Web!Half /\ webTh[t].prev.key = webTh[t].prev.crt
          /\ pairs[webTh[t].place].crt = webTh[t].prev.crt
        BY <1>9, <2>1, <2>2 DEF PairFacts
    <2>4. CASE Web!PutBackKey(t)
        <3>1. PICK r : r = [webTh[t] EXCEPT !.pc = "blankkey"]
            OBVIOUS
        <3>2. /\ r.pc = "blankkey" /\ r.place = webTh[t].place /\ r.prev = webTh[t].prev
              /\ webTh' = [webTh EXCEPT ![t] = r]
              /\ pairs' = [pairs EXCEPT ![webTh[t].place].key = "blank"]
            BY <1>0, <2>4, <3>1, WebGoesOn DEF Web!PutBackKey, Web!Blank
        <3>3. /\ pairs'[webTh[t].place].crt = webTh[t].prev.crt
              /\ \A p \in Web!RoutePlace \ {webTh[t].place} : pairs'[p] = pairs[p]
            BY <2>3, <3>2, WebPairWrite, Halves
        <3>4. PairFacts(r, pairs', caddyfile) /\ WholeOr(r, webTh[t].place, pairs'[webTh[t].place])
            BY <1>h, <2>3, <3>2, <3>3 DEF PairFacts, WholeOr
        <3> QED
            BY <1>8, <2>1, <2>2, <2>3, <3>2, <3>3, <3>4
    <2>5. CASE Web!RefillKey(t)
        <3>1. /\ webTh' = [webTh EXCEPT ![t] = Web!Idle]
              /\ pairs' = [pairs EXCEPT ![webTh[t].place].key = webTh[t].prev.key]
            BY <2>5 DEF Web!RefillKey
        <3>2. /\ pairs'[webTh[t].place].crt = webTh[t].prev.crt
              /\ pairs'[webTh[t].place].key = webTh[t].prev.crt
              /\ \A p \in Web!RoutePlace \ {webTh[t].place} : pairs'[p] = pairs[p]
            BY <2>3, <3>1, WebPairWrite
        <3>3. WholeOr(Web!Idle, webTh[t].place, pairs'[webTh[t].place])
            BY <2>3, <3>2 DEF WholeOr, Web!Whole, Web!Match
        <3>4. Web!Idle.pc \notin Web!HelperPcs
            BY <1>h, WebRecords
        <3> QED
            BY <1>8, <2>1, <2>2, <2>3, <3>1, <3>2, <3>3, <3>4
    <2> QED
        BY <1>11, <2>4, <2>5
<1>12. ASSUME NEW t \in Threads, Web!PutCrt(t)
       PROVE  Web!OneHelper'
    <2>1. webTh[t].pc = "crt" /\ UNCHANGED <<caddyfile, caddyActive, caddyLoaded>>
        BY <1>12 DEF Web!PutCrt
    <2>2. webTh[t].pc \in Web!HelperPcs /\ webTh[t].place # "none"
        BY <1>h, <2>1, WebAtWork
    <2>3. /\ webTh[t].place \in Web!RoutePlace /\ PairFacts(webTh[t], pairs, caddyfile)
          /\ pairs[webTh[t].place] = webTh[t].prev
          /\ webTh[t].serial \in Web!Half /\ webTh[t].serial # Absent
        BY <1>9, <2>1, <2>2, WebThread, Halves DEF PairFacts, Web!PutHelp
    <2>4. CASE webTh' = [webTh EXCEPT ![t] = Web!Idle] /\ pairs' = pairs
        <3>1. WholeOr(Web!Idle, webTh[t].place, pairs'[webTh[t].place])
            BY <2>3, <2>4 DEF WholeOr, PairFacts
        <3>2. Web!Idle.pc \notin Web!HelperPcs
            BY <1>h, WebRecords
        <3> QED
            BY <1>8, <2>1, <2>2, <2>3, <2>4, <3>1, <3>2
    <2>5. CASE ~(webTh' = [webTh EXCEPT ![t] = Web!Idle] /\ pairs' = pairs)
        <3>1. PICK r : r = [webTh[t] EXCEPT !.pc = "key"]
            OBVIOUS
        <3>2. /\ webTh' = [webTh EXCEPT ![t] = r]
              /\ pairs' = [pairs EXCEPT ![webTh[t].place].crt = webTh[t].serial]
            BY <1>0, <1>12, <2>5, <3>1 DEF Web!PutCrt
        <3>3. /\ r.pc = "key" /\ r.place = webTh[t].place /\ r.prev = webTh[t].prev
              /\ r.serial = webTh[t].serial
            BY <2>1, <3>1, WebGoesOn
        <3>4. /\ pairs'[webTh[t].place].crt = webTh[t].serial
              /\ \A p \in Web!RoutePlace \ {webTh[t].place} : pairs'[p] = pairs[p]
            BY <2>3, <3>2, WebPairWrite
        <3>5. PairFacts(r, pairs', caddyfile) /\ WholeOr(r, webTh[t].place, pairs'[webTh[t].place])
            BY <1>h, <2>1, <2>3, <3>3, <3>4 DEF PairFacts, WholeOr
        <3> QED
            BY <1>8, <2>1, <2>2, <2>3, <3>2, <3>3, <3>4, <3>5
    <2> QED
        BY <2>4, <2>5
<1>13. ASSUME NEW t \in Threads, Web!PutKey(t)
       PROVE  Web!OneHelper'
    <2>1. /\ webTh[t].pc = "key" /\ UNCHANGED <<caddyfile, caddyActive, caddyLoaded>>
          /\ pairs' = [pairs EXCEPT ![webTh[t].place].key = webTh[t].serial]
        BY <1>13 DEF Web!PutKey
    <2>2. webTh[t].pc \in Web!HelperPcs /\ webTh[t].place # "none"
        BY <1>h, <2>1, WebAtWork
    <2>3. /\ webTh[t].place \in Web!RoutePlace /\ PairFacts(webTh[t], pairs, caddyfile)
          /\ pairs[webTh[t].place].crt = webTh[t].serial
          /\ webTh[t].serial \in Web!Half /\ webTh[t].serial # Absent /\ webTh[t].serial # "blank"
        BY <1>9, <2>1, <2>2, WebThread, Halves DEF PairFacts, Web!PutHelp
    <2>4. /\ pairs'[webTh[t].place].crt = webTh[t].serial
          /\ pairs'[webTh[t].place].key = webTh[t].serial
          /\ \A p \in Web!RoutePlace \ {webTh[t].place} : pairs'[p] = pairs[p]
        BY <2>1, <2>3, WebPairWrite
    <2>5. Web!Match(pairs'[webTh[t].place])
        BY <2>3, <2>4 DEF Web!Match, Web!Blank
    <2>6. CASE webTh[t].prev = Web!Nothing
        <3>1. PICK a : a = Web!After(t)
            OBVIOUS
        <3>2. a.pc \notin Web!HelperPcs /\ webTh' = [webTh EXCEPT ![t] = a]
            BY <1>13, <1>h, <2>2, <2>6, <3>1, WebAfter DEF Web!PutKey
        <3>3. WholeOr(a, webTh[t].place, pairs'[webTh[t].place])
            BY <2>5 DEF WholeOr, Web!Whole
        <3> QED
            BY <1>8, <2>1, <2>2, <2>3, <2>4, <3>2, <3>3
    <2>7. CASE webTh[t].prev # Web!Nothing
        <3>1. PICK r : r = [pc |-> "replaced", place |-> webTh[t].place, prev |-> webTh[t].prev,
                            then |-> webTh[t].then]
            OBVIOUS
        <3>2. /\ webTh' = [webTh EXCEPT ![t] = r] /\ r.pc = "replaced" /\ r.place = webTh[t].place
              /\ r.prev = webTh[t].prev
            BY <1>13, <2>7, <3>1 DEF Web!PutKey
        <3>3. PairFacts(r, pairs', caddyfile) /\ WholeOr(r, webTh[t].place, pairs'[webTh[t].place])
            BY <2>3, <2>5, <2>7, <3>2 DEF PairFacts, WholeOr, Web!Whole
        <3> QED
            BY <1>8, <2>1, <2>2, <2>3, <2>4, <3>2, <3>3
    <2> QED
        BY <2>6, <2>7
<1>14. CASE Web!Service
    <2>1. \A o \in Threads : webTh[o].pc \notin Web!HelperPcs
        <3>1. webDisturbed' = (webDisturbed \/ \E t \in Threads : webTh[t].pc \in Web!HelperPcs)
            BY Zenon, <1>14 DEF Web!Service
        <3> QED
            BY Zenon, <3>1
    <2>2. /\ GoodText(caddyfile, pairs)
          /\ \A p \in Web!RoutePlace : Web!Whole(pairs[p])
        BY <2>1, WebNobody
    <2>3. UNCHANGED <<caddyfile, pairs, webTh>> /\ (caddyActive' => caddyLoaded' = caddyfile')
        BY <1>14 DEF Web!Service
    <2>4. Facts(caddyfile', pairs', caddyActive', caddyLoaded', webTh')
        BY <2>1, <2>2, <2>3 DEF Facts
    <2> QED
        BY <2>4, WebFacts
<1>15. ASSUME NEW t \in Threads, Web!GiveUp(t)
       PROVE  FALSE
    BY <1>15 DEF Web!GiveUp
<1>16. CASE UNCHANGED Web!vars
    BY <1>16, HelperKept DEF HelperUntouched, Web!vars
<1> QED
    BY <1>3, <1>4, <1>5, <1>6, <1>7, <1>10, <1>11, <1>12, <1>13, <1>14, <1>15, <1>16,
       WebNotHelper, HelperKept DEF Web!Next

\* What once was seen to be disturbed stays so.
LEMMA WebSeen ==
    ASSUME [Web!Next]_(Web!vars), ~webDisturbed'
    PROVE  ~webDisturbed
<1>1. ASSUME NEW t \in Threads,
             \/ Web!SiteAdd(t) \/ Web!SiteUpdate(t) \/ Web!SiteDelete(t) \/ Web!FileSave(t)
             \/ Web!Reload(t) \/ Web!PutBack(t) \/ Web!Refill(t) \/ Web!PutBackKey(t)
             \/ Web!RefillKey(t) \/ Web!PutCrt(t) \/ Web!PutKey(t)
             \/ Web!UploadKey(t) \/ Web!UploadCheck(t) \/ Web!OwnKey(t) \/ Web!SelfCrt(t)
      PROVE  webDisturbed' = webDisturbed
    BY <1>1 DEF Web!SiteAdd, Web!SiteUpdate, Web!SiteDelete, Web!FileSave, Web!Reload, Web!PutBack,
       Web!Refill, Web!PutBackKey, Web!RefillKey, Web!PutCrt, Web!PutKey,
       Web!UploadKey, Web!UploadCheck, Web!OwnKey, Web!SelfCrt
<1>2. ASSUME NEW t \in Threads,
             \/ Web!CertReplace(t) \/ Web!InstallPair(t) \/ Web!UploadCrt(t) \/ Web!SelfKey(t)
             \/ Web!GiveUp(t)
      PROVE  ~webDisturbed
    BY Zenon, <1>2 DEF Web!CertReplace, Web!InstallPair, Web!UploadCrt, Web!SelfKey, Web!GiveUp
<1>3. ASSUME NEW t \in Threads, Web!Apply(t)
      PROVE  ~webDisturbed
    BY Zenon, <1>3 DEF Web!Apply
<1>4. CASE Web!Service
    BY Zenon, <1>4 DEF Web!Service
<1>5. CASE UNCHANGED Web!vars
    BY <1>5 DEF Web!vars
<1> QED
    BY <1>1, <1>2, <1>3, <1>4, <1>5 DEF Web!Next

LEMMA WebStep ==
    ASSUME Web!IInv, [Web!Next]_(Web!vars)
    PROVE  Web!IInv'
<1>1. Web!TypeOK'
    BY WebTypeStep DEF Web!IInv
<1>2. ASSUME ~webDisturbed'
      PROVE  Web!OwnPair' /\ Web!OneHelper'
    <2>1. Web!TypeOK /\ Web!OwnPair /\ Web!OneHelper
        BY <1>2, WebSeen DEF Web!IInv
    <2> QED
        BY <1>2, <2>1, WebOwnStep, WebHelperStep
<1> QED
    BY <1>1, <1>2 DEF Web!IInv

LEMMA WebInvariant == Spec => [](which = "Web" => Web!IInv)
<1>1. Init => (which = "Web" => Web!IInv)
    BY WebInit DEF Init
<1>2. (which = "Web" => Web!IInv) /\ [Next]_vars => (which = "Web" => Web!IInv)'
    <2> SUFFICES ASSUME which = "Web" => Web!IInv, [Next]_vars, which' = "Web"
                 PROVE  Web!IInv'
        OBVIOUS
    <2> QED
        BY ComponentStep, WebStep
<1> QED
    BY <1>1, <1>2, PTL DEF Spec

\* As long as no two helpers and no two uploads ran at once, the services page left caddy
\* alone beside a helper, and every helper and upload could write what it began to write,
\* a running caddy runs with the Caddyfile on disk, every certificate has its own key, and
\* the file is one caddy accepts: validations, replacements and reloads that fail
\* included, for any threads, hosts, key pairs and number of requests (reload_if_active,
\* do_cert, restore, tls_upload_cert).
THEOREM CaddyRunsItsFile == Spec => []ProxyConsistent
<1>1. (which = "Web" => Web!IInv) => ProxyConsistent
    <2> SUFFICES ASSUME which = "Web", Web!IInv, ~webDisturbed,
                        \A t \in Threads : webTh[t].pc \in {"idle", "asked"}
                 PROVE  /\ caddyActive => caddyLoaded = caddyfile
                        /\ \A p \in Web!Place : pairs[p].crt = pairs[p].key
                        /\ Web!Valid(caddyfile)
        BY DEF ProxyConsistent, Web!ProxyConsistent
    <2>1. Web!TypeOK /\ Web!OwnPair /\ Web!OneHelper
        BY DEF Web!IInv
    <2>2. pairs["own"].crt = pairs["own"].key
        BY <2>1 DEF Web!OwnPair
    <2>3. /\ GoodText(caddyfile, pairs)
          /\ \A p \in Web!RoutePlace : Web!Whole(pairs[p])
          /\ caddyActive => caddyLoaded = caddyfile
        BY <2>1, WebNobody, WebStages
    <2>4. \A p \in Web!RoutePlace : pairs[p].crt = pairs[p].key
        BY <2>3 DEF Web!Whole, Web!Match, Web!Nothing
    <2>5. Web!Valid(caddyfile)
        <3> SUFFICES ASSUME NEW h \in Items, caddyfile.route[h] \in Web!Place
                     PROVE  Web!Match(pairs[caddyfile.route[h]])
            BY <2>3 DEF GoodText, Web!Valid
        <3>1. PICK p : p = caddyfile.route[h]
            OBVIOUS
        <3>2. p \in Web!RoutePlace /\ pairs[p].crt # Absent
            BY <2>1, <2>3, <3>1, Places DEF GoodText, Web!TypeOK, Web!Caddyfile
        <3> QED
            BY <2>3, <3>1, <3>2 DEF Web!Whole, Web!Nothing
    <2> QED
        BY <2>2, <2>3, <2>4, <2>5, Places
<1> QED
    BY <1>1, WebInvariant, PTL

----------------------------------------------------------------------------
(* Proxy: atomic edits *)

LEMMA WebAcceptedStep ==
    ASSUME Web!TypeOK, Web!Accepted, [Web!Next]_(Web!vars)
    PROVE  Web!Accepted'
<1>1. CASE UNCHANGED <<caddyActive, caddyLoaded>>
    BY <1>1 DEF Web!Accepted, Web!Loads
<1>2. ASSUME NEW t \in Threads, Web!Reload(t)
      PROVE  Web!Accepted'
    BY <1>2 DEF Web!Reload, Web!Accepted, Web!Loads
<1>3. CASE Web!Service
    BY <1>3 DEF Web!Service, Web!Accepted, Web!Loads
<1>4. ASSUME NEW t \in Threads,
             \/ Web!SiteAdd(t) \/ Web!SiteUpdate(t) \/ Web!SiteDelete(t) \/ Web!FileSave(t)
             \/ Web!UploadCrt(t) \/ Web!UploadKey(t) \/ Web!UploadCheck(t) \/ Web!OwnKey(t)
             \/ Web!SelfKey(t) \/ Web!SelfCrt(t)
      PROVE  UNCHANGED <<caddyActive, caddyLoaded>>
    BY <1>4, WebNotHelper DEF HelperUntouched
<1>5. ASSUME NEW t \in Threads,
             \/ Web!CertReplace(t) \/ Web!InstallPair(t) \/ Web!Apply(t) \/ Web!PutBack(t)
             \/ Web!Refill(t) \/ Web!PutBackKey(t) \/ Web!RefillKey(t) \/ Web!PutCrt(t)
             \/ Web!PutKey(t) \/ Web!GiveUp(t)
      PROVE  UNCHANGED <<caddyActive, caddyLoaded>>
    BY <1>5 DEF Web!CertReplace, Web!InstallPair, Web!Apply, Web!PutBack, Web!Refill,
       Web!PutBackKey, Web!RefillKey, Web!PutCrt, Web!PutKey, Web!GiveUp
<1>6. CASE UNCHANGED Web!vars
    BY <1>1, <1>6 DEF Web!vars
<1> QED
    BY <1>1, <1>2, <1>3, <1>4, <1>5, <1>6 DEF Web!Next

\* The disk as the page shows it: a document that a helper is at work on is what it was
\* before, a pair of the dashboard is what its older half says.
WebHolds(r, p) == r.pc \in Web!HelperPcs /\ r.place = p
WebKept(t, p) == WebHolds(webTh[t], p)
\* The documents of the routes, when only the one whose record is r may work on them.
WebOf(disk, r, text, halves) ==
    /\ disk["Caddyfile"] = IF WebHolds(r, "none") THEN r.prev ELSE text
    /\ \A p \in Web!RoutePlace : disk[p] = IF WebHolds(r, p) THEN r.prev ELSE halves[p]
WebShown ==
    /\ \A t \in Threads : WebKept(t, "none") => Web!Disk["Caddyfile"] = webTh[t].prev
    /\ (\A t \in Threads : ~WebKept(t, "none")) => Web!Disk["Caddyfile"] = caddyfile
    /\ \A p \in Web!RoutePlace :
          /\ \A t \in Threads : WebKept(t, p) => Web!Disk[p] = webTh[t].prev
          /\ (\A t \in Threads : ~WebKept(t, p)) => Web!Disk[p] = pairs[p]
    /\ \A t \in Threads :
          /\ webTh[t].pc = "ownkey" => Web!Disk["own"] = [crt |-> pairs["own"].key, key |-> pairs["own"].key]
          /\ webTh[t].pc = "selfcrt" => Web!Disk["own"] = [crt |-> pairs["own"].crt, key |-> pairs["own"].crt]
    /\ (\A t \in Threads : webTh[t].pc \notin {"ownkey", "selfcrt"}) => Web!Disk["own"] = pairs["own"]

\* What is shown is whole, and a running caddy runs with it.
WebWhole ==
    /\ Web!Disk \in [Web!Document -> Web!Caddyfile \cup Web!Pair]
    /\ Web!Disk["Caddyfile"] \in Web!Caddyfile /\ Web!Disk["Caddyfile"].rest # "invalid"
    /\ \A h \in Items : Web!Disk["Caddyfile"].route[h] \in Web!Place =>
          Web!Match(Web!Disk[Web!Disk["Caddyfile"].route[h]])
    /\ caddyActive => caddyLoaded = Web!Disk["Caddyfile"] /\ Web!Disk \in Web!Startable

WebInv ==
    /\ Web!IInv /\ webDisturbed \in BOOLEAN
    /\ ~webDisturbed => Web!Accepted /\ WebShown /\ WebWhole

LEMMA WebDocuments ==
    /\ Web!Document = {"own", "copy", "wild", "Caddyfile"}
    /\ DOMAIN Web!Disk = Web!Document
    /\ Web!Disk["Caddyfile"] = Web!Before("none", caddyfile)
    /\ Web!Disk["own"] = Web!OwnBefore
    /\ \A p \in Web!RoutePlace : Web!Disk[p] = Web!Before(p, pairs[p])
BY Places DEF Web!Document, Web!Disk

\* Who has replaced a document is the only one, so the one that Before chooses.
LEMMA WebBefore ==
    ASSUME Web!OneHelper, NEW p, NEW now
    PROVE  /\ \A t \in Threads : WebKept(t, p) => Web!Before(p, now) = webTh[t].prev
           /\ (\A t \in Threads : ~WebKept(t, p)) => Web!Before(p, now) = now
<1>1. Web!Held(p) = {t \in Threads : WebKept(t, p)}
    BY DEF Web!Held, WebKept, WebHolds
<1>2. \A t \in Threads : WebKept(t, p) => webTh[t].pc \in Web!HelperPcs
    BY DEF WebKept, WebHolds
<1>3. ASSUME NEW t \in Threads, WebKept(t, p)
      PROVE  Web!Before(p, now) = webTh[t].prev
    <2>1. t \in Web!Held(p) /\ Web!Held(p) # {}
        BY <1>1, <1>3
    <2>2. \E o \in Threads : o \in Web!Held(p)
        BY <2>1
    <2> DEFINE c == CHOOSE o \in Threads : o \in Web!Held(p)
    <2>3. c \in Threads /\ c \in Web!Held(p)
        BY <2>2
    <2>4. c = t
        BY <1>1, <1>2, <1>3, <2>3 DEF Web!OneHelper
    <2>5. Web!Before(p, now) = webTh[c].prev
        BY <2>1 DEF Web!Before
    <2> QED
        BY <2>4, <2>5
<1>4. ASSUME \A t \in Threads : ~WebKept(t, p)
      PROVE  Web!Before(p, now) = now
    <2>1. Web!Held(p) = {}
        BY <1>1, <1>4
    <2> QED
        BY <2>1 DEF Web!Before
<1> QED
    BY <1>3, <1>4

LEMMA WebShows ==
    ASSUME Web!TypeOK, Web!OwnPair, Web!OneHelper, Web!Accepted
    PROVE  WebShown /\ WebWhole
<1>0. /\ caddyfile \in Web!Caddyfile /\ pairs \in [Web!Place -> Web!Pair]
      /\ Web!RoutePlace \subseteq Web!Place /\ "own" \in Web!Place /\ "none" \notin Web!RoutePlace
    BY Places DEF Web!TypeOK
<1>1. /\ \A t \in Threads : WebKept(t, "none") => Web!Disk["Caddyfile"] = webTh[t].prev
      /\ (\A t \in Threads : ~WebKept(t, "none")) => Web!Disk["Caddyfile"] = caddyfile
    BY WebDocuments, WebBefore
<1>2. ASSUME NEW p \in Web!RoutePlace
      PROVE  /\ \A t \in Threads : WebKept(t, p) => Web!Disk[p] = webTh[t].prev
             /\ (\A t \in Threads : ~WebKept(t, p)) => Web!Disk[p] = pairs[p]
    BY WebDocuments, WebBefore
<1>3. /\ \A t \in Threads :
            /\ webTh[t].pc = "ownkey" => Web!Disk["own"] = [crt |-> pairs["own"].key, key |-> pairs["own"].key]
            /\ webTh[t].pc = "selfcrt" => Web!Disk["own"] = [crt |-> pairs["own"].crt, key |-> pairs["own"].crt]
      /\ (\A t \in Threads : webTh[t].pc \notin {"ownkey", "selfcrt"}) => Web!Disk["own"] = pairs["own"]
    <2>1. \A t, o \in Threads : webTh[t].pc = "ownkey" => webTh[o].pc # "selfcrt"
        BY WebStages DEF Web!OwnPair
    <2> QED
        BY <2>1, WebDocuments DEF Web!OwnBefore
<1>4. WebShown
    BY <1>1, <1>2, <1>3 DEF WebShown
<1>f. Facts(caddyfile, pairs, caddyActive, caddyLoaded, webTh)
    BY WebFacts
\* Each document has its type and is whole.
<1>5. Web!Disk["Caddyfile"] \in Web!Caddyfile /\ GoodText(Web!Disk["Caddyfile"], pairs)
    <2>1. ASSUME NEW t \in Threads, WebKept(t, "none")
          PROVE  webTh[t].prev \in Web!Caddyfile /\ GoodText(webTh[t].prev, pairs)
        BY <1>f, <2>1, WebAtWork DEF WebKept, WebHolds, Facts, HelperFacts
    <2>2. CASE \E t \in Threads : WebKept(t, "none")
        BY <1>1, <2>1, <2>2
    <2>3. CASE \A t \in Threads : ~WebKept(t, "none")
        BY <1>0, <1>1, <1>f, <2>3 DEF Facts
    <2> QED
        BY <2>2, <2>3
<1>6. ASSUME NEW p \in Web!RoutePlace
      PROVE  /\ Web!Disk[p] \in Web!Pair /\ Web!Whole(Web!Disk[p])
             /\ \A h \in Items : Web!Disk["Caddyfile"].route[h] = p => Web!Match(Web!Disk[p])
    <2>1. ASSUME NEW t \in Threads, WebKept(t, p)
          PROVE  /\ Web!Disk[p] \in Web!Pair /\ Web!Whole(Web!Disk[p])
                 /\ \A h \in Items : Web!Disk["Caddyfile"].route[h] = p => Web!Match(Web!Disk[p])
        <3>1. webTh[t].pc \in Web!HelperPcs /\ webTh[t].place = p /\ p # "none"
            BY <1>0, <2>1 DEF WebKept, WebHolds
        <3>2. webTh[t].prev \in Web!Pair
            BY <3>1, WebAtWork
        <3>3. PairFacts(webTh[t], pairs, caddyfile)
            BY <1>f, <3>1 DEF Facts, HelperFacts
        <3>4. \A o \in Threads : ~WebKept(o, "none")
            BY <1>f, <3>1 DEF Facts, WebKept, WebHolds
        <3>5. Web!Disk[p] = webTh[t].prev /\ Web!Disk["Caddyfile"] = caddyfile
            BY <1>1, <1>2, <2>1, <3>4
        <3>6. Web!Whole(webTh[t].prev)
            BY <3>3 DEF PairFacts
        <3>7. ASSUME NEW h \in Items, caddyfile.route[h] = p
              PROVE  Web!Match(webTh[t].prev)
            <4>1. webTh[t].prev # Web!Nothing
                BY <3>1, <3>3, <3>7 DEF PairFacts
            <4> QED
                BY <3>6, <4>1 DEF Web!Whole
        <3> QED
            BY <3>2, <3>5, <3>6, <3>7
    <2>2. CASE \E t \in Threads : WebKept(t, p)
        BY <2>1, <2>2
    <2>3. CASE \A t \in Threads : ~WebKept(t, p)
        <3>1. Web!Disk[p] = pairs[p] /\ pairs[p] \in Web!Pair
            BY <1>0, <1>2, <2>3
        <3>2. Web!Whole(pairs[p])
            BY <1>f, <2>3 DEF Facts, WebKept, WebHolds
        <3>3. ASSUME NEW h \in Items, Web!Disk["Caddyfile"].route[h] = p
              PROVE  pairs[p].crt # Absent
            BY <1>0, <1>5, <3>3 DEF GoodText
        <3> QED
            BY <3>1, <3>2, <3>3 DEF Web!Whole, Web!Nothing
    <2> QED
        BY <2>2, <2>3
<1>7. Web!Disk["own"] \in Web!Pair
    BY <1>0, <1>3 DEF Web!Pair
<1>8. Web!Disk \in [Web!Document -> Web!Caddyfile \cup Web!Pair]
    <2>1. \A f \in Web!Document : Web!Disk[f] \in Web!Caddyfile \cup Web!Pair
        BY <1>5, <1>6, <1>7, WebDocuments, Places
    <2>2. Web!Disk = [f \in Web!Document |-> Web!Disk[f]]
        BY DEF Web!Disk
    <2> QED
        BY <2>1, <2>2
<1>9. \A h \in Items : Web!Disk["Caddyfile"].route[h] \in Web!Place =>
         Web!Match(Web!Disk[Web!Disk["Caddyfile"].route[h]])
    <2> SUFFICES ASSUME NEW h \in Items, Web!Disk["Caddyfile"].route[h] \in Web!Place
                 PROVE  Web!Match(Web!Disk[Web!Disk["Caddyfile"].route[h]])
        OBVIOUS
    <2>1. PICK p : p = Web!Disk["Caddyfile"].route[h]
        OBVIOUS
    <2>2. p \in Web!RoutePlace
        BY <1>5, <2>1, Places DEF Web!Caddyfile
    <2> QED
        BY <1>6, <2>1, <2>2
<1>10. caddyActive => caddyLoaded = Web!Disk["Caddyfile"]
    BY <1>1, <1>f DEF Facts, WebKept, WebHolds
<1>11. caddyActive => Web!Disk \in Web!Startable
    BY <1>8, <1>9, <1>10 DEF Web!Startable, Web!Accepted
<1> QED
    BY <1>4, <1>5, <1>8, <1>9, <1>10, <1>11 DEF WebWhole, GoodText

LEMMA WebPromiseInit ==
    ASSUME Web!Init
    PROVE  Web!Promise!AInit
<1>1. Web!IInv /\ ~webDisturbed
    BY WebInit DEF Web!Init
<1>2. /\ \A t \in Threads : webTh[t].pc = "idle"
      /\ pairs = [p \in Web!Place |-> IF p = "copy" THEN Web!Nothing
                                                    ELSE [crt |-> "old", key |-> "old"]]
      /\ caddyLoaded = caddyfile
    BY DEF Web!Init, Web!Idle
<1>3. Web!Accepted
    <2>1. Web!Loads(caddyfile)
        BY DEF Web!Init, Web!Loads
    <2> QED
        BY <1>2, <2>1 DEF Web!Accepted
<1>4. WebShown /\ WebWhole
    BY <1>1, <1>3, WebShows DEF Web!IInv
<1>5. Web!Disk["Caddyfile"] = caddyfile /\ \A p \in Web!Place : Web!Disk[p] = pairs[p]
    BY <1>2, <1>4, Places, WebStages DEF WebShown, WebKept, WebHolds
<1>6. Web!Disk["Caddyfile"] \in Web!Replacement["Caddyfile"]
    BY <1>4, WebDocuments DEF WebWhole, Web!Replacement
<1>7. \A p \in Web!Place : Web!Disk[p] \in Web!Replacement[p] \cup {Web!Nothing}
    BY <1>2, <1>5, Places, WebDocuments DEF Web!Replacement
<1>8. webDisturbed = FALSE
    BY DEF Web!Init
<1>9. \A f \in Web!Document : Web!Disk[f] \in Web!Replacement[f] \cup {Web!Nothing}
    BY <1>6, <1>7, Places, WebDocuments
<1> QED
    BY <1>2, <1>5, <1>8, <1>9 DEF Web!Promise!AInit, Web!Promise!Up, Web!Promise!View

\* One document is replaced, and a running caddy accepts it and has it.
LEMMA WebReplaces ==
    ASSUME NEW f \in Web!Document, webDisturbed' = webDisturbed, WebWhole', caddyActive' = caddyActive,
           caddyActive \in BOOLEAN,
           \A g \in Web!Document \ {f} : Web!Disk'[g] = Web!Disk[g],
           Web!Disk'[f] \in Web!Replacement[f]
    PROVE  Web!Promise!Replace
<1>1. caddyActive => caddyLoaded' = Web!Disk'["Caddyfile"] /\ Web!Disk' \in Web!Startable'
    BY DEF WebWhole
<1>2. Web!Startable' = Web!Startable
    BY DEF Web!Startable, Web!Loads, Web!Match
<1>3. Web!Disk' = [Web!Disk EXCEPT ![f] = Web!Disk'[f]]
    <2>1. Web!Disk = [g \in Web!Document |-> Web!Disk[g]]
        BY DEF Web!Disk
    <2>2. Web!Disk' = [g \in Web!Document |-> Web!Disk'[g]]
        BY DEF Web!Disk, Web!Document
    <2> HIDE DEF Web!Disk
    <2> QED
        BY <2>1, <2>2
<1> QED
    BY <1>1, <1>2, <1>3 DEF Web!Promise!Replace, Web!Promise!Up, Web!Promise!View

LEMMA WebSameDisk ==
    ASSUME \A f \in Web!Document : Web!Disk'[f] = Web!Disk[f]
    PROVE  Web!Disk' = Web!Disk
<1>1. Web!Disk = [g \in Web!Document |-> Web!Disk[g]]
    BY DEF Web!Disk
<1>2. Web!Disk' = [g \in Web!Document |-> Web!Disk'[g]]
    BY DEF Web!Disk, Web!Document
<1> HIDE DEF Web!Disk
<1> QED
    BY <1>1, <1>2

\* The same documents, and caddy runs or not as before.
LEMMA WebStutters ==
    ASSUME webDisturbed' = webDisturbed, WebWhole, WebWhole', caddyActive' = caddyActive,
           caddyActive \in BOOLEAN, \A f \in Web!Document : Web!Disk'[f] = Web!Disk[f]
    PROVE  UNCHANGED Web!Promise!vars
<1>1. caddyActive => caddyLoaded = Web!Disk["Caddyfile"] /\ caddyLoaded' = Web!Disk'["Caddyfile"]
    BY DEF WebWhole
<1>2. Web!Disk' = Web!Disk
    BY WebSameDisk
<1> QED
    BY <1>1, <1>2 DEF Web!Promise!vars

LEMMA WebPromiseStep ==
    ASSUME WebInv, WebInv', [Web!Next]_(Web!vars)
    PROVE  [Web!Promise!ANext]_(Web!Promise!vars)
<1> SUFFICES ASSUME ~webDisturbed'
             PROVE  [Web!Promise!ANext]_(Web!Promise!vars)
    BY DEF Web!Promise!ANext, Web!Promise!Tangle
<1>1. ~webDisturbed
    BY WebSeen
<1>2. /\ Web!TypeOK /\ Web!OwnPair /\ Web!OneHelper /\ Web!Accepted /\ WebShown /\ WebWhole
      /\ Web!OneHelper' /\ Web!OwnPair' /\ WebShown' /\ WebWhole' /\ Web!TypeOK'
    BY <1>1 DEF WebInv, Web!IInv
<1>0. /\ DOMAIN webTh = Threads /\ pairs \in [Web!Place -> Web!Pair] /\ upload \in Web!Pair
      /\ caddyActive \in BOOLEAN /\ caddyfile \in Web!Caddyfile
      /\ webDisturbed = FALSE /\ webDisturbed' = FALSE
      /\ Web!RoutePlace \subseteq Web!Place /\ Web!RoutePlace = {"copy", "wild"}
      /\ "own" \in Web!Place /\ "none" \notin Web!RoutePlace
      /\ Web!Document = {"own", "copy", "wild", "Caddyfile"}
    BY <1>1, <1>2, Places, WebDocuments DEF WebInv, Web!TypeOK
<1>h. /\ Web!OwnPcs = {"upkey", "upcheck", "ownkey", "selfcrt"}
      /\ Web!HelperPcs = {"crt", "key", "replaced", "putback", "blankcrt", "halfback", "blankkey"}
    BY WebStages
<1>i. Web!Idle.pc = "idle"
    BY DEF Web!Idle
<1>s. ASSUME caddyActive' = caddyActive, \A f \in Web!Document : Web!Disk'[f] = Web!Disk[f]
      PROVE  UNCHANGED Web!Promise!vars
    BY <1>0, <1>2, <1>s, WebStutters
<1>r. ASSUME NEW f \in Web!Document, caddyActive' = caddyActive,
             \A g \in Web!Document \ {f} : Web!Disk'[g] = Web!Disk[g],
             Web!Disk'[f] \in Web!Replacement[f]
      PROVE  Web!Promise!ANext
    BY <1>0, <1>2, <1>r, WebReplaces DEF Web!Promise!ANext
<1>p. /\ \A t \in Threads : WebKept(t, "none")' => Web!Disk'["Caddyfile"] = webTh'[t].prev
      /\ (\A t \in Threads : ~WebKept(t, "none")') => Web!Disk'["Caddyfile"] = caddyfile'
      /\ \A p \in Web!RoutePlace :
            /\ \A t \in Threads : WebKept(t, p)' => Web!Disk'[p] = webTh'[t].prev
            /\ (\A t \in Threads : ~WebKept(t, p)') => Web!Disk'[p] = pairs'[p]
      /\ \A t \in Threads :
            /\ webTh'[t].pc = "ownkey" => Web!Disk'["own"] = [crt |-> pairs'["own"].key, key |-> pairs'["own"].key]
            /\ webTh'[t].pc = "selfcrt" => Web!Disk'["own"] = [crt |-> pairs'["own"].crt, key |-> pairs'["own"].crt]
      /\ (\A t \in Threads : webTh'[t].pc \notin {"ownkey", "selfcrt"}) => Web!Disk'["own"] = pairs'["own"]
    <2>1. Web!RoutePlace' = Web!RoutePlace
        BY DEF Web!RoutePlace, Web!Place
    <2> QED
        BY <1>2, <2>1 DEF WebShown
\* What nobody touches is shown as before.
<1>k. ASSUME OwnUntouched
      PROVE  Web!Disk'["own"] = Web!Disk["own"]
    <2>1. CASE \E t \in Threads : webTh[t].pc \in {"ownkey", "selfcrt"}
        <3>1. PICK t \in Threads : webTh[t].pc \in {"ownkey", "selfcrt"}
            BY <2>1
        <3>2. webTh'[t] = webTh[t] /\ pairs'["own"] = pairs["own"]
            BY <1>h, <1>k, <3>1 DEF OwnUntouched
        <3> QED
            BY <1>2, <1>p, <3>1, <3>2 DEF WebShown
    <2>2. CASE \A t \in Threads : webTh[t].pc \notin {"ownkey", "selfcrt"}
        <3>1. \A t \in Threads : webTh'[t].pc \notin {"ownkey", "selfcrt"}
            BY <1>h, <1>k, <2>2 DEF OwnUntouched
        <3> QED
            BY <1>2, <1>k, <1>p, <2>2, <3>1 DEF WebShown, OwnUntouched
    <2> QED
        BY <2>1, <2>2
<1>l. ASSUME HelperUntouched
      PROVE  \A f \in Web!Document \ {"own"} : Web!Disk'[f] = Web!Disk[f]
    <2>1. \A p : \A t \in Threads : WebKept(t, p) \/ WebKept(t, p)' =>
             webTh'[t] = webTh[t] /\ WebKept(t, p) /\ WebKept(t, p)'
        BY <1>h, <1>l DEF HelperUntouched, WebKept, WebHolds
    <2>2. Web!Disk'["Caddyfile"] = Web!Disk["Caddyfile"]
        BY <1>2, <1>l, <1>p, <2>1 DEF WebShown, HelperUntouched
    <2>3. \A p \in Web!RoutePlace : Web!Disk'[p] = Web!Disk[p]
        BY <1>2, <1>l, <1>p, <2>1 DEF WebShown, HelperUntouched
    <2> QED
        BY <1>0, <2>2, <2>3
\* A step of the only helper.
<1>f. /\ Facts(caddyfile, pairs, caddyActive, caddyLoaded, webTh)
      /\ Facts(caddyfile', pairs', caddyActive', caddyLoaded', webTh')
    BY <1>2, WebFacts
<1>w. ASSUME NEW t \in Threads, NEW new, webTh' = [webTh EXCEPT ![t] = new],
             \A o \in Threads \ {t} : webTh[o].pc \notin Web!HelperPcs
      PROVE  WebOf(Web!Disk, webTh[t], caddyfile, pairs) /\ WebOf(Web!Disk', new, caddyfile', pairs')
    <2>1. webTh'[t] = new /\ \A o \in Threads \ {t} : webTh'[o].pc \notin Web!HelperPcs
        BY <1>0, <1>w
    <2>2. \A p : \A o \in Threads \ {t} : ~WebKept(o, p) /\ ~WebKept(o, p)'
        BY <1>h, <1>w, <2>1 DEF WebKept, WebHolds
    <2>3. \A p : (WebKept(t, p) <=> WebHolds(webTh[t], p)) /\ (WebKept(t, p)' <=> WebHolds(new, p))
        BY <2>1 DEF WebKept, WebHolds
    <2> QED
        BY <1>2, <1>p, <2>1, <2>2, <2>3 DEF WebShown, WebOf
<1>3. ASSUME NEW t \in Threads,
             \/ Web!SiteAdd(t) \/ Web!SiteUpdate(t) \/ Web!SiteDelete(t) \/ Web!FileSave(t)
      PROVE  UNCHANGED Web!Promise!vars
    <2>1. HelperUntouched /\ OwnUntouched
        BY <1>2, <1>3, WebNotHelper, WebNotOwn
    <2>2. caddyActive' = caddyActive
        BY <2>1 DEF HelperUntouched
    <2> QED
        BY <1>k, <1>l, <1>s, <2>1, <2>2
\* The uploads: the pair counts as replaced when the second half is in place.
<1>4. ASSUME NEW t \in Threads,
             \/ Web!UploadCrt(t) \/ Web!UploadKey(t) \/ Web!UploadCheck(t) \/ Web!OwnKey(t)
             \/ Web!SelfKey(t) \/ Web!SelfCrt(t)
      PROVE  Web!Promise!ANext \/ UNCHANGED Web!Promise!vars
    <2>1. /\ \A f \in Web!Document \ {"own"} : Web!Disk'[f] = Web!Disk[f]
          /\ caddyActive' = caddyActive
        BY <1>2, <1>4, <1>l, WebNotHelper DEF HelperUntouched
    <2>2. ASSUME Web!Disk'["own"] = Web!Disk["own"]
          PROVE  UNCHANGED Web!Promise!vars
        BY <1>s, <2>1, <2>2
    <2>3. ASSUME pairs'["own"].crt = pairs'["own"].key, pairs'["own"].crt \in Pairs \cup {"old"},
                 \A o \in Threads : webTh'[o].pc \notin {"ownkey", "selfcrt"}
          PROVE  Web!Promise!ANext
        <3>1. Web!Disk'["own"] = pairs'["own"] /\ pairs'["own"] \in Web!Pair
            BY <1>0, <1>2, <1>p, <2>3 DEF Web!TypeOK
        <3>2. Web!Disk'["own"] \in Web!Replacement["own"]
            BY <1>0, <2>3, <3>1 DEF Web!Replacement, Web!Pair
        <3> QED
            BY <1>0, <1>r, <2>1, <3>2
    <2>4. ASSUME \A o \in Threads : webTh[o].pc \notin {"ownkey", "selfcrt"}
          PROVE  /\ Web!Disk["own"] = pairs["own"]
                 /\ pairs["own"] = [crt |-> pairs["own"].crt, key |-> pairs["own"].crt]
                 /\ pairs["own"] = [crt |-> pairs["own"].key, key |-> pairs["own"].key]
        <3>1. pairs["own"].crt = pairs["own"].key /\ pairs["own"] \in Web!Pair
            BY <1>0, <1>2, <2>4 DEF Web!OwnPair
        <3> QED
            BY <1>2, <2>4, <3>1 DEF WebShown, Web!Pair
    <2>5. ASSUME webTh[t].pc \in Web!OwnPcs
          PROVE  \A o \in Threads \ {t} : webTh[o].pc \notin Web!OwnPcs
        BY <1>2, <2>5 DEF Web!OwnPair
    <2>6. CASE Web!UploadCrt(t)
        <3>1. PICK k \in Pairs : webTh' = [webTh EXCEPT ![t] = [pc |-> "upkey", key |-> k]]
            BY <2>6 DEF Web!UploadCrt, Web!Start
        <3>2. /\ pairs' = pairs /\ webTh[t].pc = "idle" /\ webTh'[t].pc = "upkey"
              /\ \A o \in Threads \ {t} : webTh'[o] = webTh[o] /\ webTh[o].pc \notin Web!OwnPcs
            BY <1>0, <2>6, <3>1 DEF Web!UploadCrt, Web!Start, Web!Others
        <3> QED
            BY <1>h, <1>p, <2>2, <2>4, <3>2
    <2>7. CASE Web!UploadKey(t)
        <3>1. /\ pairs' = pairs /\ webTh[t].pc = "upkey" /\ webTh'[t].pc = "upcheck"
              /\ \A o \in Threads \ {t} : webTh'[o] = webTh[o]
            BY <1>0, <2>7 DEF Web!UploadKey
        <3> QED
            BY <1>h, <1>p, <2>2, <2>4, <2>5, <3>1
    <2>8. CASE Web!UploadCheck(t)
        <3>1. webTh[t].pc = "upcheck" /\ \A o \in Threads \ {t} : webTh'[o] = webTh[o]
            BY <1>0, <2>8 DEF Web!UploadCheck
        <3>2. \A o \in Threads : webTh[o].pc \notin {"ownkey", "selfcrt"}
            BY <1>h, <2>5, <3>1
        <3>3. CASE webTh' = [webTh EXCEPT ![t] = Web!Idle] /\ pairs' = pairs
            <4>1. webTh'[t].pc = "idle"
                BY <1>0, <1>i, <3>3
            <4> QED
                BY <1>p, <2>2, <2>4, <3>1, <3>2, <3>3, <4>1
        <3>4. CASE ~(webTh' = [webTh EXCEPT ![t] = Web!Idle] /\ pairs' = pairs)
            <4>1. /\ webTh' = [webTh EXCEPT ![t] = [webTh[t] EXCEPT !.pc = "ownkey"]]
                  /\ pairs' = [pairs EXCEPT !["own"].crt = upload.crt]
                BY <1>0, <2>8, <3>4 DEF Web!UploadCheck
            <4>2. webTh'[t].pc = "ownkey"
                BY <1>0, <1>2, <3>1, <4>1, WebThread
            <4>3. pairs'["own"].key = pairs["own"].key
                BY <1>0, <4>1 DEF Web!Pair
            <4> QED
                BY <1>p, <2>2, <2>4, <3>2, <4>2, <4>3
        <3> QED
            BY <3>3, <3>4
    <2>9. CASE Web!OwnKey(t)
        <3>1. /\ webTh[t].pc = "ownkey" /\ webTh' = [webTh EXCEPT ![t] = Web!Idle]
              /\ pairs' = [pairs EXCEPT !["own"].key = IF upload.key = Absent THEN @ ELSE upload.key]
            BY <2>9 DEF Web!OwnKey
        <3>2. upload.key = pairs["own"].crt /\ upload.key \notin {Absent, Web!Blank}
            BY <1>2, <3>1 DEF Web!OwnPair
        <3>3. pairs'["own"].crt = upload.key /\ pairs'["own"].key = upload.key
            BY <1>0, <3>1, <3>2 DEF Web!Pair
        <3>4. upload.key \in Pairs \cup {"old"}
            BY <1>0, <3>2 DEF Web!Pair, Web!Half, Web!Blank
        <3>5. \A o \in Threads : webTh'[o].pc \notin {"ownkey", "selfcrt"}
            BY <1>0, <1>h, <1>i, <2>5, <3>1
        <3> QED
            BY <2>3, <3>3, <3>4, <3>5
    <2>10. CASE Web!SelfKey(t)
        <3>1. PICK s \in Pairs : /\ webTh' = [webTh EXCEPT ![t] = [pc |-> "selfcrt", serial |-> s]]
                                 /\ pairs' = [pairs EXCEPT !["own"].key = s]
            BY <2>10 DEF Web!SelfKey, Web!Start
        <3>2. /\ webTh[t].pc = "idle" /\ webTh'[t].pc = "selfcrt"
              /\ \A o \in Threads \ {t} : webTh'[o] = webTh[o] /\ webTh[o].pc \notin Web!OwnPcs
            BY <1>0, <2>10, <3>1 DEF Web!SelfKey, Web!Start, Web!Others
        <3>3. pairs'["own"].crt = pairs["own"].crt
            BY <1>0, <3>1 DEF Web!Pair
        <3> QED
            BY <1>h, <1>p, <2>2, <2>4, <3>2, <3>3
    <2>11. CASE Web!SelfCrt(t)
        <3>1. /\ webTh[t].pc = "selfcrt" /\ webTh' = [webTh EXCEPT ![t] = Web!Idle]
              /\ pairs' = [pairs EXCEPT !["own"].crt = webTh[t].serial]
            BY <2>11 DEF Web!SelfCrt
        <3>2. webTh[t].serial = pairs["own"].key /\ webTh[t].serial \in Pairs
            BY <1>2, <3>1, WebThread DEF Web!OwnPair
        <3>3. pairs'["own"].crt = webTh[t].serial /\ pairs'["own"].key = webTh[t].serial
            BY <1>0, <3>1, <3>2 DEF Web!Pair
        <3>4. \A o \in Threads : webTh'[o].pc \notin {"ownkey", "selfcrt"}
            BY <1>0, <1>h, <1>i, <2>5, <3>1
        <3> QED
            BY <2>3, <3>2, <3>3, <3>4
    <2> QED
        BY <1>4, <2>6, <2>7, <2>8, <2>9, <2>10, <2>11
\* The helper. Its documents are shown as they were until it ends.
<1>o. ASSUME NEW t \in Threads,
             \/ Web!CertReplace(t) \/ Web!InstallPair(t) \/ Web!Apply(t) \/ Web!Reload(t)
             \/ Web!PutBack(t) \/ Web!Refill(t) \/ Web!PutBackKey(t) \/ Web!RefillKey(t)
             \/ Web!PutCrt(t) \/ Web!PutKey(t)
      PROVE  Web!Disk'["own"] = Web!Disk["own"] /\ caddyActive' = caddyActive
    BY <1>2, <1>k, <1>o, WebNotOwn, WebHelps DEF HelperMoves
\* A step that the disk does not show.
<1>5. ASSUME NEW t \in Threads, NEW new, webTh' = [webTh EXCEPT ![t] = new],
             \A o \in Threads \ {t} : webTh[o].pc \notin Web!HelperPcs,
             WebOf(Web!Disk, new, caddyfile', pairs'),
             Web!Disk'["own"] = Web!Disk["own"], caddyActive' = caddyActive
      PROVE  UNCHANGED Web!Promise!vars
    <2>1. WebOf(Web!Disk', new, caddyfile', pairs')
        BY <1>5, <1>w
    <2>2. \A f \in Web!Document : Web!Disk'[f] = Web!Disk[f]
        BY <1>0, <1>5, <2>1 DEF WebOf
    <2> QED
        BY <1>5, <1>s, <2>2
\* A helper that begins.
<1>6. ASSUME NEW t \in Threads, Web!CertReplace(t) \/ Web!InstallPair(t) \/ Web!Apply(t)
      PROVE  UNCHANGED Web!Promise!vars
    <2>1. /\ webTh[t].pc \in {"idle", "asked"} /\ pairs' = pairs
          /\ Web!Disk'["own"] = Web!Disk["own"] /\ caddyActive' = caddyActive
        BY <1>6, <1>o DEF Web!CertReplace, Web!InstallPair, Web!Apply, Web!Start
    <2>2. CASE HelperUntouched
        BY <1>l, <1>s, <2>1, <2>2
    <2>3. ASSUME NEW r, NEW p \in {"none"} \cup Web!RoutePlace, webTh' = [webTh EXCEPT ![t] = r],
                 r.place = p, r.pc \in Web!HelperPcs,
                 r.prev = IF p = "none" THEN caddyfile ELSE pairs[p],
                 p # "none" => caddyfile' = caddyfile
          PROVE  UNCHANGED Web!Promise!vars
        <3>1. webTh'[t] = r
            BY <1>0, <2>3
        <3>2. \A o \in Threads \ {t} : webTh[o].pc \notin Web!HelperPcs
            BY <1>0, <1>f, <2>3, <3>1 DEF Facts
        <3>3. WebOf(Web!Disk, webTh[t], caddyfile, pairs)
            BY <1>w, <2>3, <3>2
        <3>4. WebOf(Web!Disk, r, caddyfile', pairs')
            BY <1>0, <1>h, <2>1, <2>3, <3>3 DEF WebOf, WebHolds
        <3> QED
            BY <1>5, <2>1, <2>3, <3>2, <3>4
    <2>4. CASE Web!CertReplace(t)
        <3>1. PICK p \in Web!TlsPairs(caddyfile), s \in Pairs :
                 Web!Start(t, [pc |-> "crt", place |-> p, serial |-> s, prev |-> pairs[p], then |-> Absent])
            BY <2>4 DEF Web!CertReplace
        <3>2. PICK r : r = [pc |-> "crt", place |-> p, serial |-> s, prev |-> pairs[p], then |-> Absent]
            OBVIOUS
        <3>3. webTh' = [webTh EXCEPT ![t] = r] /\ caddyfile' = caddyfile
            BY <2>4, <3>1, <3>2 DEF Web!CertReplace, Web!Start
        <3>4. r.place = p /\ r.pc = "crt" /\ r.prev = pairs[p]
            BY <3>2
        <3>5. p \in Web!RoutePlace
            BY <1>0, Places DEF Web!TlsPairs, Web!Caddyfile
        <3> QED
            BY <1>0, <1>h, <2>3, <3>3, <3>4, <3>5
    <2>5. CASE Web!InstallPair(t)
        <3>1. PICK r : r = [pc |-> "crt", place |-> "copy", serial |-> pairs["own"].crt,
                            prev |-> pairs["copy"], then |-> webTh[t].text]
            OBVIOUS
        <3>2. r.place = "copy" /\ r.pc = "crt" /\ r.prev = pairs["copy"]
            BY <3>1
        <3>3. /\ UNCHANGED <<caddyfile, caddyLoaded>>
              /\ webTh' = [webTh EXCEPT ![t] = r] \/ webTh' = [webTh EXCEPT ![t] = Web!Idle]
            BY <2>5, <3>1 DEF Web!InstallPair
        <3>4. CASE webTh' = [webTh EXCEPT ![t] = r]
            BY <1>0, <1>h, <2>3, <3>2, <3>3, <3>4
        <3>5. CASE webTh' = [webTh EXCEPT ![t] = Web!Idle]
            <4>1. HelperUntouched
                BY <1>0, <1>h, <1>i, <2>1, <3>3, <3>5 DEF HelperUntouched
            <4> QED
                BY <2>2, <4>1
        <3> QED
            BY <3>3, <3>4, <3>5
    <2>6. CASE Web!Apply(t)
        <3>1. PICK r : r = [pc |-> "replaced", place |-> "none", prev |-> caddyfile, then |-> Absent]
            OBVIOUS
        <3>2. r.place = "none" /\ r.pc = "replaced" /\ r.prev = caddyfile
            BY <3>1
        <3>3. /\ caddyLoaded' = caddyLoaded
              /\ \/ webTh' = [webTh EXCEPT ![t] = r]
                 \/ webTh' = [webTh EXCEPT ![t] = Web!Idle] /\ caddyfile' = caddyfile
            BY <2>6, <3>1 DEF Web!Apply
        <3>4. CASE webTh' = [webTh EXCEPT ![t] = r]
            BY <1>0, <1>h, <2>3, <3>2, <3>4
        <3>5. CASE webTh' = [webTh EXCEPT ![t] = Web!Idle] /\ caddyfile' = caddyfile
            <4>1. HelperUntouched
                BY <1>0, <1>h, <1>i, <2>1, <3>3, <3>5 DEF HelperUntouched
            <4> QED
                BY <2>2, <4>1
        <3> QED
            BY <3>3, <3>4, <3>5
    <2> QED
        BY <1>6, <2>4, <2>5, <2>6
\* The only helper at work: what the disk shows instead of what it has written.
<1>7. ASSUME NEW t \in Threads, webTh[t].pc \in Web!HelperPcs
      PROVE  /\ \A o \in Threads \ {t} : webTh[o].pc \notin Web!HelperPcs
             /\ webTh[t].place = "none" =>
                   /\ Web!Disk["Caddyfile"] = webTh[t].prev
                   /\ \A p \in Web!RoutePlace : Web!Disk[p] = pairs[p]
             /\ webTh[t].place # "none" =>
                   /\ webTh[t].place \in Web!RoutePlace /\ webTh[t].prev \in Web!Pair
                   /\ PairFacts(webTh[t], pairs, caddyfile)
                   /\ Web!Disk["Caddyfile"] = caddyfile /\ Web!Disk[webTh[t].place] = webTh[t].prev
                   /\ \A p \in Web!RoutePlace \ {webTh[t].place} : Web!Disk[p] = pairs[p]
    <2>1. \A o \in Threads \ {t} : webTh[o].pc \notin Web!HelperPcs
        BY <1>7, <1>f DEF Facts
    <2>2. \A p : \A o \in Threads : WebKept(o, p) <=> (o = t /\ webTh[t].place = p)
        BY <1>7, <2>1 DEF WebKept, WebHolds
    <2>3. webTh[t].place # "none" =>
             /\ webTh[t].place \in Web!RoutePlace /\ webTh[t].prev \in Web!Pair
             /\ PairFacts(webTh[t], pairs, caddyfile)
        BY <1>2, <1>7, <1>f, WebAtWork DEF Facts, HelperFacts
    <2> QED
        BY <1>0, <1>2, <2>1, <2>2, <2>3 DEF WebShown
\* A helper that goes on with the same document.
<1>8. ASSUME NEW t \in Threads, NEW new, webTh' = [webTh EXCEPT ![t] = new],
             webTh[t].pc \in Web!HelperPcs, new.pc \in Web!HelperPcs,
             new.place = webTh[t].place, new.prev = webTh[t].prev,
             webTh[t].place = "none" => pairs' = pairs,
             webTh[t].place # "none" =>
                caddyfile' = caddyfile /\ \A p \in Web!RoutePlace \ {webTh[t].place} : pairs'[p] = pairs[p],
             Web!Disk'["own"] = Web!Disk["own"], caddyActive' = caddyActive
      PROVE  UNCHANGED Web!Promise!vars
    <2>1. WebOf(Web!Disk, new, caddyfile', pairs')
        BY <1>0, <1>7, <1>8 DEF WebOf, WebHolds
    <2> QED
        BY <1>5, <1>7, <1>8, <2>1
\* A helper that ends, with everything as it was.
<1>9. ASSUME NEW t \in Threads, NEW new, webTh' = [webTh EXCEPT ![t] = new],
             webTh[t].pc \in Web!HelperPcs, new.pc \notin Web!HelperPcs,
             webTh[t].place = "none" => caddyfile' = webTh[t].prev /\ pairs' = pairs,
             webTh[t].place # "none" =>
                /\ caddyfile' = caddyfile /\ pairs'[webTh[t].place] = webTh[t].prev
                /\ \A p \in Web!RoutePlace \ {webTh[t].place} : pairs'[p] = pairs[p],
             Web!Disk'["own"] = Web!Disk["own"], caddyActive' = caddyActive
      PROVE  UNCHANGED Web!Promise!vars
    <2>1. WebOf(Web!Disk, new, caddyfile', pairs')
        BY <1>0, <1>7, <1>9 DEF WebOf, WebHolds
    <2> QED
        BY <1>5, <1>7, <1>9, <2>1
\* A helper that ends, with its document replaced.
<1>10. ASSUME NEW t \in Threads, NEW new, webTh' = [webTh EXCEPT ![t] = new],
              webTh[t].pc \in Web!HelperPcs, new.pc \notin Web!HelperPcs,
              caddyfile' = caddyfile, webTh[t].place = "none" => pairs' = pairs,
              webTh[t].place # "none" =>
                 /\ Web!Match(pairs'[webTh[t].place])
                 /\ \A p \in Web!RoutePlace \ {webTh[t].place} : pairs'[p] = pairs[p],
              Web!Disk'["own"] = Web!Disk["own"], caddyActive' = caddyActive
       PROVE  Web!Promise!ANext
    <2>1. WebOf(Web!Disk', new, caddyfile', pairs')
        BY <1>10, <1>7, <1>w
    <2>2. Web!Disk'["Caddyfile"] = caddyfile /\ \A p \in Web!RoutePlace : Web!Disk'[p] = pairs'[p]
        BY <1>10, <2>1 DEF WebOf, WebHolds
    <2>3. CASE webTh[t].place = "none"
        <3>1. caddyfile.rest # "invalid"
            BY <1>f DEF Facts, GoodText
        <3>2. Web!Disk'["Caddyfile"] \in Web!Replacement["Caddyfile"]
            BY <1>0, <2>2, <3>1 DEF Web!Replacement
        <3>3. \A f \in Web!Document \ {"Caddyfile"} : Web!Disk'[f] = Web!Disk[f]
            BY <1>0, <1>10, <1>7, <2>2, <2>3
        <3> QED
            BY <1>0, <1>10, <1>r, <3>2, <3>3
    <2>4. CASE webTh[t].place # "none"
        <3>1. PICK p \in Web!RoutePlace : p = webTh[t].place
            BY <1>10, <1>7, <2>4
        <3>2. pairs'[p] \in Web!Pair /\ Web!Match(pairs'[p])
            BY <1>0, <1>10, <1>2, <2>4, <3>1, Places DEF Web!TypeOK
        <3>3. Web!Disk'[p] \in Web!Replacement[p]
            BY <1>0, <2>2, <3>1, <3>2, Halves DEF Web!Replacement, Web!Pair, Web!Match
        <3>4. \A f \in Web!Document \ {p} : Web!Disk'[f] = Web!Disk[f]
            BY <1>0, <1>10, <1>7, <2>2, <2>4, <3>1
        <3> QED
            BY <1>0, <1>10, <1>r, <3>1, <3>3, <3>4
    <2> QED
        BY <2>3, <2>4
<1>13. ASSUME NEW t \in Threads, Web!Reload(t)
       PROVE  Web!Promise!ANext \/ UNCHANGED Web!Promise!vars
    <2>1. /\ webTh[t].pc = "replaced" /\ webTh[t].pc \in Web!HelperPcs
          /\ UNCHANGED <<caddyfile, pairs, caddyActive>> /\ Web!Disk'["own"] = Web!Disk["own"]
        BY <1>13, <1>h, <1>o DEF Web!Reload
    <2>2. CASE webTh' = [webTh EXCEPT ![t].pc = "putback"]
        <3>1. PICK r : r = [webTh[t] EXCEPT !.pc = "putback"]
            OBVIOUS
        <3>2. /\ r.pc = "putback" /\ r.place = webTh[t].place /\ r.prev = webTh[t].prev
              /\ webTh' = [webTh EXCEPT ![t] = r]
            BY <1>0, <1>2, <2>1, <2>2, <3>1, WebGoesOn
        <3> QED
            BY <1>8, <1>h, <2>1, <3>2
    <2>3. CASE webTh' = [webTh EXCEPT ![t] = Web!After(t)]
        <3>1. PICK a : a = Web!After(t)
            OBVIOUS
        <3>2. a.pc \notin Web!HelperPcs /\ webTh' = [webTh EXCEPT ![t] = a]
            BY <1>2, <1>h, <2>1, <2>3, <3>1, WebAfter
        <3>3. webTh[t].place # "none" => Web!Match(pairs'[webTh[t].place])
            BY <1>7, <2>1 DEF PairFacts
        <3> QED
            BY <1>10, <2>1, <3>2, <3>3
    <2> QED
        BY <1>13, <2>2, <2>3 DEF Web!Reload
<1>14. ASSUME NEW t \in Threads,
              \/ Web!PutBack(t) \/ Web!Refill(t) \/ Web!PutBackKey(t) \/ Web!RefillKey(t)
       PROVE  UNCHANGED Web!Promise!vars
    <2>1. /\ webTh[t].pc \in {"putback", "blankcrt", "halfback", "blankkey"}
          /\ webTh[t].pc \in Web!HelperPcs
          /\ caddyActive' = caddyActive /\ Web!Disk'["own"] = Web!Disk["own"]
        BY <1>14, <1>h, <1>o DEF Web!PutBack, Web!Refill, Web!PutBackKey, Web!RefillKey
    <2>2. CASE Web!PutBack(t)
        <3>1. PICK r : r = [webTh[t] EXCEPT !.pc = "blankcrt"]
            OBVIOUS
        <3>2. /\ r.pc = "blankcrt" /\ r.place = webTh[t].place /\ r.prev = webTh[t].prev
              /\ webTh' = [webTh EXCEPT ![t] = r]
            BY <1>0, <1>2, <2>2, <3>1, WebGoesOn DEF Web!PutBack
        <3>3. webTh[t].place = "none" => pairs' = pairs
            BY <2>2 DEF Web!PutBack
        <3>4. webTh[t].place # "none" => /\ caddyfile' = caddyfile
                                         /\ \A p \in Web!RoutePlace \ {webTh[t].place} : pairs'[p] = pairs[p]
            BY <1>0, <2>2 DEF Web!PutBack
        <3> QED
            BY <1>8, <1>h, <2>1, <3>2, <3>3, <3>4
    <2>3. CASE Web!Refill(t) /\ webTh[t].place = "none"
        <3>1. /\ webTh' = [webTh EXCEPT ![t] = Web!Idle] /\ caddyfile' = webTh[t].prev
              /\ pairs' = pairs
            BY <2>3 DEF Web!Refill
        <3>2. Web!Idle.pc \notin Web!HelperPcs
            BY <1>h, <1>i
        <3> QED
            BY <1>9, <2>1, <2>3, <3>1, <3>2
    <2>4. CASE Web!Refill(t) /\ webTh[t].place # "none"
        <3>1. PICK r : r = [webTh[t] EXCEPT !.pc = "halfback"]
            OBVIOUS
        <3>2. /\ r.pc = "halfback" /\ r.place = webTh[t].place /\ r.prev = webTh[t].prev
            BY <1>2, <2>4, <3>1, WebGoesOn DEF Web!Refill
        <3>3. /\ webTh' = [webTh EXCEPT ![t] = r] /\ caddyfile' = caddyfile
              /\ \A p \in Web!RoutePlace \ {webTh[t].place} : pairs'[p] = pairs[p]
            BY <1>0, <2>4, <3>1 DEF Web!Refill
        <3> QED
            BY <1>8, <1>h, <2>1, <2>4, <3>2, <3>3
    <2>5. CASE Web!PutBackKey(t)
        <3>1. PICK r : r = [webTh[t] EXCEPT !.pc = "blankkey"]
            OBVIOUS
        <3>2. /\ r.pc = "blankkey" /\ r.place = webTh[t].place /\ r.prev = webTh[t].prev
              /\ webTh' = [webTh EXCEPT ![t] = r]
            BY <1>0, <1>2, <2>5, <3>1, WebGoesOn DEF Web!PutBackKey
        <3>3. /\ webTh[t].place # "none" /\ caddyfile' = caddyfile
              /\ \A p \in Web!RoutePlace \ {webTh[t].place} : pairs'[p] = pairs[p]
            BY <1>0, <1>2, <2>1, <2>5, WebAtWork DEF Web!PutBackKey
        <3> QED
            BY <1>8, <1>h, <2>1, <3>2, <3>3
    <2>6. CASE Web!RefillKey(t)
        <3>1. /\ webTh' = [webTh EXCEPT ![t] = Web!Idle] /\ caddyfile' = caddyfile
              /\ pairs' = [pairs EXCEPT ![webTh[t].place].key = webTh[t].prev.key]
              /\ webTh[t].pc = "blankkey"
            BY <2>6 DEF Web!RefillKey
        <3>2. webTh[t].place # "none"
            BY <1>2, <2>1, <3>1, WebAtWork
        <3>3. /\ webTh[t].place \in Web!RoutePlace /\ webTh[t].prev \in Web!Pair
              /\ pairs[webTh[t].place].crt = webTh[t].prev.crt
            BY <1>7, <2>1, <3>1, <3>2 DEF PairFacts
        <3>4. /\ pairs'[webTh[t].place] = webTh[t].prev
              /\ \A p \in Web!RoutePlace \ {webTh[t].place} : pairs'[p] = pairs[p]
            <4>1. pairs[webTh[t].place] \in Web!Pair
                BY <1>0, <1>2, <3>3 DEF Web!TypeOK
            <4>2. pairs'[webTh[t].place] = [crt |-> pairs[webTh[t].place].crt, key |-> webTh[t].prev.key]
                BY <1>0, <3>1, <3>3, <4>1 DEF Web!Pair
            <4> QED
                BY <1>0, <3>1, <3>3, <4>2 DEF Web!Pair
        <3>5. Web!Idle.pc \notin Web!HelperPcs
            BY <1>h, <1>i
        <3> QED
            BY <1>9, <2>1, <3>1, <3>2, <3>4, <3>5
    <2> QED
        BY <1>14, <2>2, <2>3, <2>4, <2>5, <2>6
<1>15. ASSUME NEW t \in Threads, Web!PutCrt(t)
       PROVE  UNCHANGED Web!Promise!vars
    <2>1. /\ webTh[t].pc = "crt" /\ webTh[t].pc \in Web!HelperPcs /\ caddyfile' = caddyfile
          /\ caddyActive' = caddyActive /\ Web!Disk'["own"] = Web!Disk["own"]
        BY <1>15, <1>h, <1>o DEF Web!PutCrt
    <2>2. webTh[t].place # "none"
        BY <1>2, <2>1, WebAtWork
    <2>3. CASE webTh' = [webTh EXCEPT ![t] = Web!Idle] /\ pairs' = pairs
        <3>1. pairs[webTh[t].place] = webTh[t].prev
            BY <1>7, <2>1, <2>2 DEF PairFacts
        <3>2. Web!Idle.pc \notin Web!HelperPcs
            BY <1>h, <1>i
        <3> QED
            BY <1>9, <2>1, <2>2, <2>3, <3>1, <3>2
    <2>4. CASE ~(webTh' = [webTh EXCEPT ![t] = Web!Idle] /\ pairs' = pairs)
        <3>1. PICK r : r = [webTh[t] EXCEPT !.pc = "key"]
            OBVIOUS
        <3>2. /\ r.pc = "key" /\ r.place = webTh[t].place /\ r.prev = webTh[t].prev
            BY <1>2, <2>1, <3>1, WebGoesOn
        <3>3. /\ webTh' = [webTh EXCEPT ![t] = r]
              /\ \A p \in Web!RoutePlace \ {webTh[t].place} : pairs'[p] = pairs[p]
            BY <1>0, <1>15, <2>4, <3>1 DEF Web!PutCrt
        <3> QED
            BY <1>8, <1>h, <2>1, <2>2, <3>2, <3>3
    <2> QED
        BY <2>3, <2>4
<1>16. ASSUME NEW t \in Threads, Web!PutKey(t)
       PROVE  Web!Promise!ANext \/ UNCHANGED Web!Promise!vars
    <2>1. /\ webTh[t].pc = "key" /\ webTh[t].pc \in Web!HelperPcs /\ caddyfile' = caddyfile
          /\ pairs' = [pairs EXCEPT ![webTh[t].place].key = webTh[t].serial]
          /\ caddyActive' = caddyActive /\ Web!Disk'["own"] = Web!Disk["own"]
        BY <1>16, <1>h, <1>o DEF Web!PutKey
    <2>2. webTh[t].place # "none"
        BY <1>2, <2>1, WebAtWork
    <2>3. /\ webTh[t].place \in Web!RoutePlace /\ pairs[webTh[t].place].crt = webTh[t].serial
          /\ webTh[t].serial \in Web!Half /\ webTh[t].serial # Absent /\ webTh[t].serial # "blank"
        BY <1>2, <1>7, <2>1, <2>2, WebThread, Halves DEF PairFacts, Web!PutHelp
    <2>4. /\ Web!Match(pairs'[webTh[t].place])
          /\ \A p \in Web!RoutePlace \ {webTh[t].place} : pairs'[p] = pairs[p]
        BY <1>2, <2>1, <2>3, WebPairWrite DEF Web!Match, Web!Blank
    <2>5. CASE webTh[t].prev = Web!Nothing
        <3>1. PICK a : a = Web!After(t)
            OBVIOUS
        <3>2. a.pc \notin Web!HelperPcs /\ webTh' = [webTh EXCEPT ![t] = a]
            BY <1>16, <1>2, <1>h, <2>1, <2>5, <3>1, WebAfter DEF Web!PutKey
        <3> QED
            BY <1>10, <2>1, <2>2, <2>4, <3>2
    <2>6. CASE webTh[t].prev # Web!Nothing
        <3>1. PICK r : r = [pc |-> "replaced", place |-> webTh[t].place, prev |-> webTh[t].prev,
                            then |-> webTh[t].then]
            OBVIOUS
        <3>2. /\ webTh' = [webTh EXCEPT ![t] = r] /\ r.pc = "replaced" /\ r.place = webTh[t].place
              /\ r.prev = webTh[t].prev
            BY <1>16, <2>6, <3>1 DEF Web!PutKey
        <3> QED
            BY <1>8, <1>h, <2>1, <2>2, <2>4, <3>2
    <2> QED
        BY <2>5, <2>6
<1>17. ASSUME NEW t \in Threads, Web!GiveUp(t)
       PROVE  FALSE
    BY <1>17 DEF Web!GiveUp
<1>11. CASE Web!Service
    <2>1. UNCHANGED <<caddyfile, pairs, upload, webTh>>
        BY <1>11 DEF Web!Service
    <2>2. \A o \in Threads : webTh[o].pc \notin Web!HelperPcs
        <3>1. webDisturbed' = (webDisturbed \/ \E t \in Threads : webTh[t].pc \in Web!HelperPcs)
            BY Zenon, <1>11 DEF Web!Service
        <3> QED
            BY Zenon, <3>1
    <2>3. \A p : \A o \in Threads : ~WebKept(o, p) /\ ~WebKept(o, p)'
        BY <2>1, <2>2 DEF WebKept, WebHolds
    <2>4. \A f \in Web!Document : Web!Disk'[f] = Web!Disk[f]
        <3>1. OwnUntouched
            BY <2>1 DEF OwnUntouched
        <3>2. Web!Disk'["Caddyfile"] = Web!Disk["Caddyfile"]
            BY <1>2, <1>p, <2>1, <2>3 DEF WebShown
        <3>3. \A p \in Web!RoutePlace : Web!Disk'[p] = Web!Disk[p]
            BY <1>2, <1>p, <2>1, <2>3 DEF WebShown
        <3> QED
            BY <1>0, <1>k, <3>1, <3>2, <3>3
    <2>5. CASE caddyActive /\ caddyActive' = FALSE
        <3>1. Web!Promise!Stop("caddy")
            BY <2>4, <2>5, WebSameDisk, <1>0 DEF Web!Promise!Stop, Web!Promise!Up
        <3> QED
            BY <3>1 DEF Web!Promise!ANext
    <2>6. CASE ~caddyActive /\ caddyActive' = TRUE
        <3>1. caddyLoaded' = Web!Disk'["Caddyfile"] /\ Web!Disk' \in Web!Startable'
            BY <1>2, <2>6 DEF WebWhole
        <3>2. Web!Startable' = Web!Startable
            BY DEF Web!Startable, Web!Loads, Web!Match
        <3>3. Web!Disk' = Web!Disk
            BY <2>4, WebSameDisk
        <3>4. Web!Promise!Start("caddy")
            BY <1>0, <2>6, <3>1, <3>2, <3>3 DEF Web!Promise!Start, Web!Promise!Up, Web!Promise!View
        <3> QED
            BY <3>4 DEF Web!Promise!ANext
    <2>7. CASE caddyActive' = caddyActive
        BY <1>s, <2>4, <2>7
    <2> QED
        BY <1>0, <1>11, <2>5, <2>6, <2>7 DEF Web!Service
<1>12. CASE UNCHANGED Web!vars
    <2>1. HelperUntouched /\ OwnUntouched
        BY <1>12 DEF Web!vars, HelperUntouched, OwnUntouched
    <2> QED
        BY <1>k, <1>l, <1>s, <2>1 DEF HelperUntouched
<1> QED
    BY <1>3, <1>4, <1>6, <1>11, <1>12, <1>13, <1>14, <1>15, <1>16, <1>17 DEF Web!Next

LEMMA WebTransactions == Spec => [](which = "Web" => WebInv)
<1>1. Init => (which = "Web" /\ ~webDisturbed => Web!Accepted)
    BY DEF Init, Web!Init, Web!Idle, Web!Accepted, Web!Loads
<1>2. Init => (which = "Web" => webDisturbed \in BOOLEAN)
    BY DEF Init, Web!Init
<1>3. /\ which = "Web" => Web!IInv
      /\ which = "Web" /\ ~webDisturbed => Web!Accepted
      /\ [Next]_vars
      => (which = "Web" /\ ~webDisturbed => Web!Accepted)'
    <2> SUFFICES ASSUME which = "Web" => Web!IInv, which = "Web" /\ ~webDisturbed => Web!Accepted,
                        [Next]_vars, which' = "Web", ~webDisturbed'
                 PROVE  Web!Accepted'
        OBVIOUS
    <2>1. which = "Web" /\ [Web!Next]_(Web!vars)
        BY ComponentStep
    <2>2. ~webDisturbed
        BY <2>1, WebSeen
    <2> QED
        BY <2>1, <2>2, WebAcceptedStep DEF Web!IInv
<1>4. (which = "Web" => webDisturbed \in BOOLEAN) /\ [Next]_vars => (which = "Web" => webDisturbed \in BOOLEAN)'
    <2> SUFFICES ASSUME which = "Web" => webDisturbed \in BOOLEAN, [Next]_vars, which' = "Web"
                 PROVE  webDisturbed' \in BOOLEAN
        OBVIOUS
    <2>1. webDisturbed \in BOOLEAN /\ [Web!Next]_(Web!vars)
        BY ComponentStep
    <2>2. ASSUME NEW t \in Threads,
                 \/ Web!CertReplace(t) \/ Web!InstallPair(t) \/ Web!UploadCrt(t) \/ Web!SelfKey(t)
                 \/ Web!GiveUp(t)
          PROVE  webDisturbed' \in BOOLEAN
        BY Zenon, <2>2 DEF Web!CertReplace, Web!InstallPair, Web!UploadCrt, Web!SelfKey, Web!GiveUp
    <2>3. ASSUME NEW t \in Threads, Web!Apply(t)
          PROVE  webDisturbed' \in BOOLEAN
        <3>1. webDisturbed' = (webDisturbed \/ Web!Others(t, Web!HelperPcs)) \/ webDisturbed' = webDisturbed
            BY Zenon, <2>3 DEF Web!Apply
        <3> QED
            BY Zenon, <2>1, <3>1
    <2>4. ASSUME NEW t \in Threads,
                 \/ Web!SiteAdd(t) \/ Web!SiteUpdate(t) \/ Web!SiteDelete(t) \/ Web!FileSave(t)
                 \/ Web!Reload(t) \/ Web!PutBack(t) \/ Web!Refill(t) \/ Web!PutBackKey(t)
                 \/ Web!RefillKey(t) \/ Web!PutCrt(t) \/ Web!PutKey(t)
                 \/ Web!UploadKey(t) \/ Web!UploadCheck(t) \/ Web!OwnKey(t) \/ Web!SelfCrt(t)
          PROVE  webDisturbed' = webDisturbed
        BY <2>4 DEF Web!SiteAdd, Web!SiteUpdate, Web!SiteDelete, Web!FileSave, Web!Reload, Web!PutBack,
           Web!Refill, Web!PutBackKey, Web!RefillKey, Web!PutCrt, Web!PutKey, Web!UploadKey, Web!UploadCheck, Web!OwnKey, Web!SelfCrt
    <2>5. CASE Web!Service
        BY Zenon, <2>5 DEF Web!Service
    <2>6. CASE UNCHANGED Web!vars
        BY <2>1, <2>6 DEF Web!vars
    <2> QED
        BY <2>1, <2>2, <2>3, <2>4, <2>5, <2>6 DEF Web!Next
<1>5. /\ which = "Web" => Web!IInv
      /\ which = "Web" => webDisturbed \in BOOLEAN
      /\ which = "Web" /\ ~webDisturbed => Web!Accepted
      => (which = "Web" => WebInv)
    BY WebShows DEF WebInv, Web!IInv
<1> QED
    BY <1>1, <1>2, <1>3, <1>4, <1>5, WebInvariant, PTL DEF Spec

----------------------------------------------------------------------------
(* Atomic edits *)

\* Until a helper or an upload overlaps another or a services page request, or fails in a
\* step that it does not make up for, an edit of the UPS files, the Caddyfile or a
\* certificate replaces one document and every service that runs has it at once, or
\* it was refused and neither the disk nor what runs shows it, for any threads, names, key
\* pairs and number of requests (write_conf and do_write of the helper, reload_if_active,
\* do_cert, tls_upload_cert).
THEOREM EditsTakeEffectOnce == Spec => EditsAreAtomic
<1>1. Init => (which = "Ups" => Ups!Promise!AInit) /\ (which = "Web" => Web!Promise!AInit)
    BY UpsPromiseInit, WebPromiseInit DEF Init
<1>2. /\ which = "Ups" => UpsInv
      /\ which = "Web" => WebInv
      /\ (which = "Ups" => UpsInv)'
      /\ (which = "Web" => WebInv)'
      /\ [Next]_vars
      => [/\ which = "Ups" => [Ups!Promise!ANext]_(Ups!Promise!vars)
          /\ which = "Web" => [Web!Promise!ANext]_(Web!Promise!vars)]_vars
    <2> SUFFICES ASSUME which = "Ups" => UpsInv, which = "Web" => WebInv,
                        (which = "Ups" => UpsInv)', (which = "Web" => WebInv)', [Next]_vars
                 PROVE  /\ which = "Ups" => [Ups!Promise!ANext]_(Ups!Promise!vars)
                        /\ which = "Web" => [Web!Promise!ANext]_(Web!Promise!vars)
        OBVIOUS
    <2>1. which' = which
        BY DEF Next, vars
    <2>2. ASSUME which = "Ups"
          PROVE  [Ups!Promise!ANext]_(Ups!Promise!vars)
        <3>1. UpsInv /\ UpsInv' /\ [Ups!Next]_(Ups!vars)
            BY <2>1, <2>2, ComponentStep
        <3> QED
            BY <3>1, UpsPromiseStep
    <2>3. ASSUME which = "Web"
          PROVE  [Web!Promise!ANext]_(Web!Promise!vars)
        <3>1. WebInv /\ WebInv' /\ [Web!Next]_(Web!vars)
            BY <2>1, <2>3, ComponentStep
        <3> QED
            BY <3>1, WebPromiseStep
    <2> QED
        BY <2>2, <2>3
<1> QED
    BY <1>1, <1>2, UpsTransactions, WebTransactions, PTL DEF Spec, EditsAreAtomic

----------------------------------------------------------------------------
(* Firewall *)

ufwActive == s1
incoming == s2
table == s3
adminTh == s4
ruleRequests == s5
had == s6
excused == s7
USE DEF ufwActive, incoming, table, adminTh, ruleRequests, had, excused

\* What is left when a rule is taken out, and what there is when one is put in.
LEMMA Removed ==
    ASSUME NEW S, NEW s \in Seq(S), NEW n \in 1 .. Len(s)
    PROVE  /\ Ufw!RemoveAt(s, n) \in Seq(S)
           /\ Len(Ufw!RemoveAt(s, n)) = Len(s) - 1
           /\ \A i \in 1 .. Len(s) - 1 : Ufw!RemoveAt(s, n)[i] = s[IF i < n THEN i ELSE i + 1]
<1> DEFINE before == SubSeq(s, 1, n - 1)
           after == SubSeq(s, n + 1, Len(s))
<1>1. before \in Seq(S) /\ Len(before) = n - 1 /\ \A i \in 1 .. n - 1 : before[i] = s[i]
    BY SubSeqProperties, ElementOfSeq
<1>2. after \in Seq(S) /\ Len(after) = Len(s) - n /\ \A i \in 1 .. Len(s) - n : after[i] = s[n + i]
    BY SubSeqProperties, ElementOfSeq
<1>3. Ufw!RemoveAt(s, n) = before \o after
    BY DEF Ufw!RemoveAt
<1> HIDE DEF before, after
<1>4. /\ before \o after \in Seq(S)
      /\ Len(before \o after) = Len(s) - 1
      /\ \A i \in 1 .. Len(s) - 1 : (before \o after)[i] = IF i <= n - 1 THEN before[i] ELSE after[i - (n - 1)]
    <2>1. before \in Seq(S) /\ after \in Seq(S)
        BY <1>1, <1>2
    <2>2. /\ before \o after \in Seq(S)
          /\ Len(before \o after) = Len(before) + Len(after)
          /\ \A i \in 1 .. Len(before) + Len(after) :
                (before \o after)[i] = IF i <= Len(before) THEN before[i] ELSE after[i - Len(before)]
        BY <2>1, ConcatProperties
    <2>3. Len(before) = n - 1 /\ Len(before) + Len(after) = Len(s) - 1
        BY <1>1, <1>2
    <2> QED
        BY <2>2, <2>3
<1>5. ASSUME NEW i \in 1 .. Len(s) - 1
      PROVE  (before \o after)[i] = s[IF i < n THEN i ELSE i + 1]
    <2>1. CASE i < n
        BY <1>1, <1>4, <2>1
    <2>2. CASE ~(i < n)
        <3>1. i - (n - 1) \in 1 .. Len(s) - n /\ n + (i - (n - 1)) = i + 1
            BY <2>2
        <3> QED
            BY <1>2, <1>4, <2>2, <3>1
    <2> QED
        BY <2>1, <2>2
<1> QED
    BY <1>3, <1>4, <1>5

LEMMA Inserted ==
    ASSUME NEW S, NEW s \in Seq(S), NEW n \in 1 .. Len(s) + 1, NEW e \in S
    PROVE  /\ Ufw!InsertAt(s, n, e) \in Seq(S)
           /\ Len(Ufw!InsertAt(s, n, e)) = Len(s) + 1
           /\ \A i \in 1 .. Len(s) + 1 :
                 Ufw!InsertAt(s, n, e)[i] = IF i < n THEN s[i] ELSE IF i = n THEN e ELSE s[i - 1]
<1> DEFINE before == SubSeq(s, 1, n - 1)
           after == SubSeq(s, n, Len(s))
<1>1. before \in Seq(S) /\ Len(before) = n - 1 /\ \A i \in 1 .. n - 1 : before[i] = s[i]
    BY SubSeqProperties, ElementOfSeq
<1>2. /\ after \in Seq(S) /\ Len(after) = Len(s) - n + 1
      /\ \A i \in 1 .. Len(s) - n + 1 : after[i] = s[n + i - 1]
    BY SubSeqProperties, ElementOfSeq
<1>3. Ufw!InsertAt(s, n, e) = before \o <<e>> \o after
    BY DEF Ufw!InsertAt
<1> HIDE DEF before, after
<1>4. <<e>> \in Seq(S) /\ Len(<<e>>) = 1 /\ <<e>>[1] = e
    OBVIOUS
<1>5. /\ before \o <<e>> \in Seq(S) /\ Len(before \o <<e>>) = n
      /\ \A i \in 1 .. n : (before \o <<e>>)[i] = IF i < n THEN s[i] ELSE e
    BY <1>1, <1>4, ConcatProperties
<1> QED
    BY <1>2, <1>3, <1>5, ConcatProperties

LEMMA AddsOne ==
    ASSUME NEW s \in Seq(Ufw!Rule), NEW r \in Ufw!Rule
    PROVE  /\ Ufw!AddOne(s, r) \in Seq(Ufw!Rule)
           /\ \E i \in DOMAIN Ufw!AddOne(s, r) : Ufw!AddOne(s, r)[i] = r
           /\ \A i \in DOMAIN Ufw!AddOne(s, r) :
                 Ufw!AddOne(s, r)[i] = r \/ \E j \in DOMAIN s : Ufw!AddOne(s, r)[i] = s[j]
           /\ \A j \in DOMAIN s :
                 Ufw!SameMatch(s[j], r) \/ \E i \in DOMAIN Ufw!AddOne(s, r) : Ufw!AddOne(s, r)[i] = s[j]
<1> SUFFICES ASSUME NEW new, new = Ufw!AddOne(s, r)
             PROVE  /\ new \in Seq(Ufw!Rule)
                    /\ \E i \in DOMAIN new : new[i] = r
                    /\ \A i \in DOMAIN new : new[i] = r \/ \E j \in DOMAIN s : new[i] = s[j]
                    /\ \A j \in DOMAIN s : Ufw!SameMatch(s[j], r) \/ \E i \in DOMAIN new : new[i] = s[j]
    OBVIOUS
<1>d. DOMAIN s = 1 .. Len(s) /\ Len(s) \in Nat
    OBVIOUS
<1>1. CASE \E i \in DOMAIN s : Ufw!SameMatch(s[i], r)
    <2>1. new = [i \in DOMAIN s |-> IF Ufw!SameMatch(s[i], r) THEN r ELSE s[i]]
        BY <1>1 DEF Ufw!AddOne
    <2>2. DOMAIN new = DOMAIN s /\ \A i \in DOMAIN s : new[i] = IF Ufw!SameMatch(s[i], r) THEN r ELSE s[i]
        BY <2>1
    <2>3. \A i \in DOMAIN s : new[i] \in Ufw!Rule
        BY <1>d, <2>2, ElementOfSeq
    <2>4. new \in [1 .. Len(s) -> Ufw!Rule]
        BY <1>d, <2>1, <2>3
    <2>5. new \in Seq(Ufw!Rule)
        BY <1>d, <2>4, SeqDef
    <2>6. (\E i \in DOMAIN new : new[i] = r) /\ \A i \in DOMAIN new : new[i] = r \/ \E j \in DOMAIN s : new[i] = s[j]
        BY <1>1, <2>2
    <2>7. \A j \in DOMAIN s : Ufw!SameMatch(s[j], r) \/ \E i \in DOMAIN new : new[i] = s[j]
        BY <2>2
    <2> QED
        BY <2>5, <2>6, <2>7
<1>2. CASE ~\E i \in DOMAIN s : Ufw!SameMatch(s[i], r)
    <2>1. PICK n \in 1 .. Len(s) + 1 : new = Ufw!InsertAt(s, n, r)
        <3>1. Ufw!FirstSix(s) \in 1 .. Len(s) + 1
            <4> DEFINE four == {i \in DOMAIN s : ~s[i].v6}
            <4>1. IsFiniteSet(1 .. Len(s)) /\ Cardinality(1 .. Len(s)) = Len(s)
                BY <1>d, FS_Interval
            <4>2. four \subseteq 1 .. Len(s)
                BY <1>d
            <4>3. Cardinality(four) \in Nat /\ Cardinality(four) <= Len(s)
                BY <4>1, <4>2, FS_Subset, FS_CardinalityType
            <4> QED
                BY <1>d, <4>3 DEF Ufw!FirstSix, Ufw!Cardinality, Cardinality
        <3>2. new = Ufw!InsertAt(s, IF r.v6 THEN Len(s) + 1 ELSE Ufw!FirstSix(s), r)
            BY <1>2 DEF Ufw!AddOne
        <3> QED
            BY <1>d, <3>1, <3>2
    <2>2. /\ new \in Seq(Ufw!Rule) /\ Len(new) = Len(s) + 1
          /\ \A i \in 1 .. Len(s) + 1 : new[i] = IF i < n THEN s[i] ELSE IF i = n THEN r ELSE s[i - 1]
        BY <2>1, Inserted
    <2>3. DOMAIN new = 1 .. Len(s) + 1
        BY <2>2
    <2>4. new[n] = r /\ n \in DOMAIN new
        BY <2>2, <2>3
    <2>5. \A i \in DOMAIN new : new[i] = r \/ \E j \in DOMAIN s : new[i] = s[j]
        <3>1. ASSUME NEW i \in DOMAIN new, i # n
              PROVE  (IF i < n THEN i ELSE i - 1) \in DOMAIN s
            BY <1>d, <2>3, <3>1
        <3> QED
            BY <2>2, <2>3, <3>1
    <2>6. ASSUME NEW j \in DOMAIN s
          PROVE  \E i \in DOMAIN new : new[i] = s[j]
        <3>1. CASE j < n
            <4>1. j \in 1 .. Len(s) + 1
                BY <1>d
            <4> QED
                BY <2>2, <2>3, <3>1, <4>1
        <3>2. CASE ~(j < n)
            <4>1. j + 1 \in 1 .. Len(s) + 1 /\ ~(j + 1 < n) /\ j + 1 # n /\ (j + 1) - 1 = j
                BY <1>d, <3>2
            <4>2. new[j + 1] = s[j]
                BY <2>2, <4>1
            <4> QED
                BY <2>3, <4>1, <4>2
        <3> QED
            BY <3>1, <3>2
    <2> QED
        BY <2>2, <2>4, <2>5, <2>6
<1> QED
    BY <1>1, <1>2

LEMMA AddsRules ==
    ASSUME NEW s \in Seq(Ufw!Rule), NEW r \in Ufw!Rule
    PROVE  Ufw!Added(s, r) \in Seq(Ufw!Rule)
<1> DEFINE r4 == [r EXCEPT !.v6 = FALSE]
           r6 == [r EXCEPT !.v6 = TRUE]
<1>1. r4 \in Ufw!Rule /\ r6 \in Ufw!Rule
    BY DEF Ufw!Rule
<1>2. Ufw!Added(s, r) = IF r.from = "any" THEN Ufw!AddOne(Ufw!AddOne(s, r4), r6) ELSE Ufw!AddOne(s, r4)
    BY DEF Ufw!Added
<1> HIDE DEF r4, r6
<1>3. Ufw!AddOne(s, r4) \in Seq(Ufw!Rule)
    BY <1>1, AddsOne
<1>4. Ufw!AddOne(Ufw!AddOne(s, r4), r6) \in Seq(Ufw!Rule)
    BY <1>1, <1>3, AddsOne
<1> QED
    BY <1>2, <1>3, <1>4

\* What a rule that does not deny the port does to a table of such rules: it takes no
\* allow away from a family, and brings those it stands for.
LEMMA GrowsOne ==
    ASSUME NEW s \in Seq(Ufw!Rule), Ufw!AllFine(s), NEW r \in Ufw!Rule, Ufw!Fine(r)
    PROVE  /\ Ufw!AddOne(s, r) \in Seq(Ufw!Rule)
           /\ Ufw!AllFine(Ufw!AddOne(s, r))
           /\ \A six \in BOOLEAN : Ufw!AllowedIn(s, six) => Ufw!AllowedIn(Ufw!AddOne(s, r), six)
           /\ Ufw!Covers(r) => Ufw!AllowedIn(Ufw!AddOne(s, r), r.v6)
<1> SUFFICES ASSUME NEW new \in Seq(Ufw!Rule),
                    \E i \in DOMAIN new : new[i] = r,
                    \A i \in DOMAIN new : new[i] = r \/ \E j \in DOMAIN s : new[i] = s[j],
                    \A j \in DOMAIN s : Ufw!SameMatch(s[j], r) \/ \E i \in DOMAIN new : new[i] = s[j]
             PROVE  /\ Ufw!AllFine(new)
                    /\ \A six \in BOOLEAN : Ufw!AllowedIn(s, six) => Ufw!AllowedIn(new, six)
                    /\ Ufw!Covers(r) => Ufw!AllowedIn(new, r.v6)
    BY AddsOne
<1>1. Ufw!AllFine(new)
    BY DEF Ufw!AllFine
<1>2. Ufw!Covers(r) => Ufw!AllowedIn(new, r.v6)
    BY DEF Ufw!AllowedIn
<1>3. ASSUME NEW six \in BOOLEAN, Ufw!AllowedIn(s, six)
      PROVE  Ufw!AllowedIn(new, six)
    <2>1. PICK j \in DOMAIN s : Ufw!Covers(s[j]) /\ s[j].v6 = six
        BY <1>3 DEF Ufw!AllowedIn
    <2>2. CASE \E i \in DOMAIN new : new[i] = s[j]
        BY <2>1, <2>2 DEF Ufw!AllowedIn
    <2>3. CASE Ufw!SameMatch(s[j], r)
        <3>1. r.proto = s[j].proto /\ r.v6 = six
            BY <2>1, <2>3 DEF Ufw!SameMatch
        <3>2. Ufw!Covers(r)
            BY <2>1, <3>1 DEF Ufw!Covers, Ufw!Fine, Ufw!BlocksDashboard, Ufw!OfDashboard, Ufw!Rule
        <3> QED
            BY <1>2, <3>1, <3>2
    <2> QED
        BY <2>2, <2>3
<1> QED
    BY <1>1, <1>2, <1>3

LEMMA Grows ==
    ASSUME NEW s \in Seq(Ufw!Rule), Ufw!AllFine(s), NEW r \in Ufw!Rule, ~Ufw!BlocksDashboard(r)
    PROVE  /\ Ufw!Added(s, r) \in Seq(Ufw!Rule)
           /\ Ufw!AllFine(Ufw!Added(s, r))
           /\ \A six \in BOOLEAN : Ufw!AllowedIn(s, six) \/ Ufw!Heals(r, six)
                                      => Ufw!AllowedIn(Ufw!Added(s, r), six)
<1> DEFINE r4 == [r EXCEPT !.v6 = FALSE]
           r6 == [r EXCEPT !.v6 = TRUE]
<1>1. r4 \in Ufw!Rule /\ r4.v6 = FALSE /\ Ufw!Fine(r4) /\ (Ufw!Covers(r4) <=> Ufw!Covers(r))
    BY DEF Ufw!Rule, Ufw!Fine, Ufw!BlocksDashboard, Ufw!Covers, Ufw!OfDashboard
<1>2. /\ r6 \in Ufw!Rule /\ r6.v6 = TRUE /\ (Ufw!Covers(r6) <=> Ufw!Covers(r))
      /\ r.from = "any" => Ufw!Fine(r6)
    BY DEF Ufw!Rule, Ufw!Fine, Ufw!BlocksDashboard, Ufw!Covers, Ufw!OfDashboard
<1>3. Ufw!Added(s, r) = IF r.from = "any" THEN Ufw!AddOne(Ufw!AddOne(s, r4), r6) ELSE Ufw!AddOne(s, r4)
    BY DEF Ufw!Added
<1> HIDE DEF r4, r6
<1> DEFINE four == Ufw!AddOne(s, r4)
<1>4. /\ four \in Seq(Ufw!Rule) /\ Ufw!AllFine(four)
      /\ \A six \in BOOLEAN : Ufw!AllowedIn(s, six) => Ufw!AllowedIn(four, six)
      /\ Ufw!Covers(r) => Ufw!AllowedIn(four, FALSE)
    BY <1>1, GrowsOne
<1> HIDE DEF four
<1>5. CASE r.from = "any"
    <2>1. Ufw!Fine(r6)
        BY <1>2, <1>5
    <2>2. /\ Ufw!AddOne(four, r6) \in Seq(Ufw!Rule) /\ Ufw!AllFine(Ufw!AddOne(four, r6))
          /\ \A six \in BOOLEAN : Ufw!AllowedIn(four, six) => Ufw!AllowedIn(Ufw!AddOne(four, r6), six)
          /\ Ufw!Covers(r) => Ufw!AllowedIn(Ufw!AddOne(four, r6), TRUE)
        BY <1>2, <1>4, <2>1, GrowsOne
    <2>3. Ufw!Added(s, r) = Ufw!AddOne(four, r6)
        BY <1>3, <1>5 DEF four
    <2> QED
        BY <1>4, <2>2, <2>3 DEF Ufw!Heals
<1>6. CASE r.from # "any"
    <2>1. Ufw!Added(s, r) = four
        BY <1>3, <1>6 DEF four
    <2>2. \A six \in BOOLEAN : Ufw!Heals(r, six) => Ufw!Covers(r) /\ six = FALSE
        BY <1>6 DEF Ufw!Heals
    <2> QED
        BY <1>4, <2>1, <2>2
<1> QED
    BY <1>5, <1>6

\* A port that is allowed is allowed for a family, and one of a family is allowed.
LEMMA OpenFamily ==
    ASSUME NEW s \in Seq(Ufw!Rule)
    PROVE  Ufw!OpenIn(s) <=> \E six \in BOOLEAN : Ufw!AllowedIn(s, six)
<1>1. \A i \in DOMAIN s : s[i] \in Ufw!Rule
    BY ElementOfSeq
<1>2. \A i \in DOMAIN s : s[i].v6 \in BOOLEAN
    BY <1>1 DEF Ufw!Rule
<1> QED
    BY <1>2 DEF Ufw!OpenIn, Ufw!AllowedIn

LEMMA UfwThread ==
    ASSUME Ufw!TypeOK, NEW t \in Admins
    PROVE  /\ adminTh[t].pc = "idle" <=> adminTh[t] = Ufw!Idle
           /\ adminTh[t].pc \in {"check", "allow", "act"} =>
                 adminTh[t] \in [pc : {"check", "allow", "act"}, act : {"enable", "disable", "allow", "deny"}]
           /\ adminTh[t].pc \in {"add", "readd", "restore", "replace"} => adminTh[t].rule \in Ufw!Rule
           /\ adminTh[t].pc \in {"readd", "replace"} => adminTh[t].old \in Ufw!Rule
           /\ adminTh[t].pc \in {"delete", "replace"} => adminTh[t].number \in Nat
<1>1. adminTh[t] \in Ufw!ThreadType
    BY DEF Ufw!TypeOK
<1> QED
    BY <1>1 DEF Ufw!ThreadType, Ufw!Idle

LEMMA UfwRecords ==
    /\ \A p \in {"check", "allow", "act"}, a \in {"enable", "disable", "allow", "deny"} :
          [pc |-> p, act |-> a] \in Ufw!ThreadType
    /\ \A p \in {"add", "restore"}, r \in Ufw!Rule : [pc |-> p, rule |-> r] \in Ufw!ThreadType
    /\ \A n \in Nat : [pc |-> "delete", number |-> n] \in Ufw!ThreadType
    /\ \A n \in Nat, r \in Ufw!Rule, q \in Ufw!Rule :
          [pc |-> "replace", number |-> n, old |-> q, rule |-> r] \in Ufw!ThreadType
    /\ \A r \in Ufw!Rule, q \in Ufw!Rule : [pc |-> "readd", rule |-> r, old |-> q] \in Ufw!ThreadType
    /\ Ufw!Idle \in Ufw!ThreadType
BY DEF Ufw!ThreadType

LEMMA UfwInit == Ufw!Init => Ufw!IInv
<1> SUFFICES ASSUME Ufw!Init
             PROVE  Ufw!IInv
    OBVIOUS
<1>1. /\ ufwActive = FALSE /\ incoming \in {"allow", "deny"} /\ table = <<>> /\ excused = FALSE
      /\ had = {} /\ adminTh = [t \in Admins |-> Ufw!Idle]
    BY DEF Ufw!Init
<1>2. Ufw!TypeOK
    <2>1. table \in Seq(Ufw!Rule)
        BY <1>1, EmptySeq
    <2>2. adminTh \in [Admins -> Ufw!ThreadType]
        BY <1>1, UfwRecords
    <2>3. ufwActive \in BOOLEAN /\ incoming \in {"allow", "deny"} /\ excused \in BOOLEAN /\ had \subseteq BOOLEAN
        BY <1>1
    <2> QED
        BY <2>1, <2>2, <2>3 DEF Ufw!TypeOK
<1>3. \A t \in Admins : adminTh[t] = Ufw!Idle
    BY <1>1
<1>4. ~Ufw!Denying /\ DOMAIN table = {}
    BY <1>1 DEF Ufw!Denying
<1> QED
    BY <1>2, <1>3, <1>4 DEF Ufw!IInv, Ufw!Safe, Ufw!OneAtATime, Ufw!AllFine

\* What a request that begins does, and which ones there are.
LEMMA UfwBegins ==
    ASSUME Ufw!TypeOK, NEW t \in Admins,
           \/ Ufw!Enable(t) \/ Ufw!Disable(t) \/ Ufw!Policy(t) \/ Ufw!RuleAdd(t)
           \/ Ufw!RuleDelete(t) \/ Ufw!RuleUpdate(t)
    PROVE  \E new \in Ufw!ThreadType, excuse \in BOOLEAN :
              /\ Ufw!Begin(t, new, excuse)
              /\ \/ new.pc = "check"
                 \/ new.pc = "act" /\ (new.act \in {"disable", "allow"} \/ excuse)
                 \/ new.pc = "add" /\ (~Ufw!BlocksDashboard(new.rule) \/ excuse)
                 \/ /\ new.pc = "delete" /\ new.number \in DOMAIN Ufw!Listed
                    /\ Ufw!WouldCut(new.number) => excuse
                 \/ /\ new.pc = "replace" /\ new.number \in DOMAIN Ufw!Listed
                    /\ new.old = Ufw!Listed[new.number]
                    /\ ~Ufw!BlocksDashboard(new.rule) \/ excuse
                    /\ Ufw!WouldCut(new.number) /\ ~Ufw!KeepsDashboardOpen(new.rule) => excuse
<1>t. /\ DOMAIN Ufw!Listed \subseteq Nat
      /\ \A n \in DOMAIN Ufw!Listed : Ufw!Listed[n] \in Ufw!Rule
    <2>1. Ufw!Listed \in Seq(Ufw!Rule)
        BY EmptySeq DEF Ufw!TypeOK, Ufw!Listed
    <2>3. DOMAIN Ufw!Listed = 1 .. Len(Ufw!Listed) /\ Len(Ufw!Listed) \in Nat
        BY <2>1
    <2> QED
        BY <2>1, <2>3, ElementOfSeq
<1>1. CASE Ufw!Enable(t)
    <2>1. PICK guard \in BOOLEAN :
             Ufw!Begin(t, [pc |-> IF guard THEN "check" ELSE "act", act |-> "enable"], ~guard)
        BY <1>1 DEF Ufw!Enable
    <2>2. [pc |-> IF guard THEN "check" ELSE "act", act |-> "enable"] \in Ufw!ThreadType
        BY UfwRecords
    <2>3. guard => [pc |-> IF guard THEN "check" ELSE "act", act |-> "enable"].pc = "check"
        OBVIOUS
    <2>4. ~guard => [pc |-> IF guard THEN "check" ELSE "act", act |-> "enable"].pc = "act"
        OBVIOUS
    <2> QED
        BY Zenon, <2>1, <2>2, <2>3, <2>4
<1>2. CASE Ufw!Disable(t)
    <2>1. Ufw!Begin(t, [pc |-> "act", act |-> "disable"], FALSE)
        BY <1>2 DEF Ufw!Disable
    <2>2. /\ [pc |-> "act", act |-> "disable"] \in Ufw!ThreadType
          /\ [pc |-> "act", act |-> "disable"].pc = "act" /\ [pc |-> "act", act |-> "disable"].act = "disable"
        BY UfwRecords
    <2> QED
        BY <2>1, <2>2
<1>3. CASE Ufw!Policy(t)
    <2>1. PICK pol \in {"allow", "deny"} :
             Ufw!Begin(t, [pc |-> IF Ufw!PolicyNeedsGuard(pol) THEN "check" ELSE "act", act |-> pol], FALSE)
        BY <1>3 DEF Ufw!Policy
    <2> DEFINE new == [pc |-> IF Ufw!PolicyNeedsGuard(pol) THEN "check" ELSE "act", act |-> pol]
    <2>2. new \in Ufw!ThreadType
        BY UfwRecords
    <2>3. new.pc = "check" \/ (new.pc = "act" /\ new.act = "allow")
        BY <2>1 DEF Ufw!PolicyNeedsGuard
    <2>4. Ufw!Begin(t, new, FALSE)
        BY <2>1
    <2> HIDE DEF new
    <2> QED
        BY <2>2, <2>3, <2>4
<1>4. CASE Ufw!RuleAdd(t)
    <2>1. PICK r \in Ufw!Rule : Ufw!Begin(t, [pc |-> "add", rule |-> r], Ufw!BlocksDashboard(r))
        BY <1>4 DEF Ufw!RuleAdd
    <2> DEFINE new == [pc |-> "add", rule |-> r]
    <2>2. new \in Ufw!ThreadType /\ new.pc = "add" /\ new.rule = r
        BY UfwRecords
    <2>3. Ufw!Begin(t, new, Ufw!BlocksDashboard(r)) /\ Ufw!BlocksDashboard(r) \in BOOLEAN
        BY <2>1 DEF Ufw!BlocksDashboard
    <2> HIDE DEF new
    <2> QED
        BY <1>t, <2>2, <2>3
<1>5. CASE Ufw!RuleDelete(t)
    <2>1. PICK n \in DOMAIN Ufw!Listed : Ufw!Begin(t, [pc |-> "delete", number |-> n], Ufw!WouldCut(n))
        BY <1>5 DEF Ufw!RuleDelete
    <2> DEFINE new == [pc |-> "delete", number |-> n]
    <2>2. new \in Ufw!ThreadType /\ new.pc = "delete" /\ new.number = n
        BY <1>t, <2>1, UfwRecords
    <2>3. Ufw!Begin(t, new, Ufw!WouldCut(n)) /\ Ufw!WouldCut(n) \in BOOLEAN
        BY <2>1 DEF Ufw!WouldCut
    <2> HIDE DEF new
    <2> QED
        BY <2>1, <2>2, <2>3
<1>6. CASE Ufw!RuleUpdate(t)
    <2>1. PICK n \in DOMAIN Ufw!Listed, r \in Ufw!Rule :
             Ufw!Begin(t, [pc |-> "replace", number |-> n, old |-> Ufw!Listed[n], rule |-> r],
                       Ufw!BlocksDashboard(r) \/ (Ufw!WouldCut(n) /\ ~Ufw!KeepsDashboardOpen(r)))
        BY <1>6 DEF Ufw!RuleUpdate
    <2> DEFINE new == [pc |-> "replace", number |-> n, old |-> Ufw!Listed[n], rule |-> r]
               excuse == Ufw!BlocksDashboard(r) \/ (Ufw!WouldCut(n) /\ ~Ufw!KeepsDashboardOpen(r))
    <2>2. new \in Ufw!ThreadType /\ new.pc = "replace" /\ new.number = n /\ new.old = Ufw!Listed[n] /\ new.rule = r
        BY <1>t, <2>1, UfwRecords
    <2>3. Ufw!Begin(t, new, excuse)
        BY <2>1
    <2>4. /\ excuse \in BOOLEAN /\ (~Ufw!BlocksDashboard(r) \/ excuse)
          /\ Ufw!WouldCut(n) /\ ~Ufw!KeepsDashboardOpen(r) => excuse
        BY DEF Ufw!BlocksDashboard
    <2> HIDE DEF new, excuse
    <2> QED
        BY <2>1, <2>2, <2>3, <2>4
<1> QED
    BY <1>1, <1>2, <1>3, <1>4, <1>5, <1>6

\* A step of the only admin at work.
LEMMA UfwMoves ==
    ASSUME Ufw!TypeOK, NEW t \in Admins, NEW new, adminTh' = [adminTh EXCEPT ![t] = new],
           \A o \in Admins \ {t} : adminTh[o] = Ufw!Idle,
           Ufw!AllFine(table'),
           new = Ufw!Idle => (Ufw!Denying' => Ufw!Keeps(table', had') /\ Ufw!OpenIn(table')),
           new # Ufw!Idle => Ufw!Working(new, table', had', Ufw!Denying')
    PROVE  Ufw!Safe'
<1>1. adminTh'[t] = new /\ \A o \in Admins \ {t} : adminTh'[o] = Ufw!Idle
    BY DEF Ufw!TypeOK
<1>2. Ufw!OneAtATime'
    BY <1>1 DEF Ufw!OneAtATime
<1>3. Ufw!Answered' /\ Ufw!Denying' => Ufw!Keeps(table', had') /\ Ufw!OpenIn(table')
    BY <1>1 DEF Ufw!Answered
<1>4. \A o \in Admins : adminTh'[o] # Ufw!Idle => Ufw!Working(adminTh'[o], table', had', Ufw!Denying')
    BY <1>1
<1> QED
    BY <1>2, <1>3, <1>4 DEF Ufw!Safe

LEMMA UfwSeen ==
    ASSUME Ufw!TypeOK, [Ufw!Next]_(Ufw!vars)
    PROVE  excused' \in BOOLEAN /\ (~excused' => ~excused)
<1>0. excused \in BOOLEAN
    BY DEF Ufw!TypeOK
<1>1. ASSUME NEW t \in Admins,
             \/ Ufw!Enable(t) \/ Ufw!Disable(t) \/ Ufw!Policy(t) \/ Ufw!RuleAdd(t)
             \/ Ufw!RuleDelete(t) \/ Ufw!RuleUpdate(t)
      PROVE  excused' \in BOOLEAN /\ (~excused' => ~excused)
    <2>1. PICK new, excuse : Ufw!Begin(t, new, excuse)
        BY <1>1, UfwBegins
    <2> QED
        BY <1>0, <2>1 DEF Ufw!Begin
<1>2. ASSUME NEW t \in Admins,
             \/ Ufw!CheckFails(t) \/ Ufw!AllowDashboard(t) \/ Ufw!Act(t)
             \/ Ufw!Add(t) \/ Ufw!Restore(t) \/ Ufw!Delete(t)
      PROVE  excused' = excused \/ excused' = TRUE
    BY <1>2 DEF Ufw!CheckFails, Ufw!AllowDashboard, Ufw!Act, Ufw!Add, Ufw!Restore, Ufw!Delete
<1>4. ASSUME NEW t \in Admins, Ufw!Check(t)
      PROVE  excused' \in BOOLEAN /\ (~excused' => ~excused)
    <2>1. excused' = (excused \/ (Ufw!GuardSeesAllow /\ ~Ufw!HasAllow))
        BY <1>4 DEF Ufw!Check
    <2>2. Ufw!GuardSeesAllow \in BOOLEAN /\ Ufw!HasAllow \in BOOLEAN
        BY DEF Ufw!GuardSeesAllow, Ufw!HasAllow, Ufw!OpenIn
    <2> QED
        BY <1>0, <2>1, <2>2
<1>3. CASE UNCHANGED Ufw!vars
    BY <1>0, <1>3 DEF Ufw!vars
<1> QED
    BY <1>0, <1>1, <1>2, <1>3, <1>4 DEF Ufw!Next

LEMMA UfwTypeStep ==
    ASSUME Ufw!IInv, [Ufw!Next]_(Ufw!vars)
    PROVE  Ufw!TypeOK'
<1>0. Ufw!TypeOK
    BY DEF Ufw!IInv
<1>e. excused' \in BOOLEAN
    BY <1>0, UfwSeen
<1>1. ASSUME NEW t \in Admins, NEW new \in Ufw!ThreadType, adminTh' = [adminTh EXCEPT ![t] = new],
             ufwActive' \in BOOLEAN, incoming' \in {"allow", "deny"}, table' \in Seq(Ufw!Rule),
             had' = had \/ had' = {six \in BOOLEAN : Ufw!FamilyAllowed(six)}
      PROVE  Ufw!TypeOK'
    BY <1>0, <1>1, <1>e DEF Ufw!TypeOK
<1>2. ASSUME NEW t \in Admins,
             \/ Ufw!Enable(t) \/ Ufw!Disable(t) \/ Ufw!Policy(t) \/ Ufw!RuleAdd(t)
             \/ Ufw!RuleDelete(t) \/ Ufw!RuleUpdate(t)
      PROVE  Ufw!TypeOK'
    <2>1. PICK new \in Ufw!ThreadType, excuse \in BOOLEAN : Ufw!Begin(t, new, excuse)
        BY <1>0, <1>2, UfwBegins
    <2>2. /\ adminTh' = [adminTh EXCEPT ![t] = new] /\ UNCHANGED <<ufwActive, incoming, table>>
          /\ had' = {six \in BOOLEAN : Ufw!FamilyAllowed(six)}
        BY <2>1 DEF Ufw!Begin
    <2> QED
        BY <1>0, <1>1, <2>2 DEF Ufw!TypeOK
<1>3. ASSUME NEW t \in Admins, Ufw!Check(t) \/ Ufw!CheckFails(t)
      PROVE  Ufw!TypeOK'
    <2>1. UNCHANGED <<ufwActive, incoming, table, had>> /\ adminTh[t].pc = "check"
        BY <1>3 DEF Ufw!Check, Ufw!CheckFails
    <2>2. PICK p \in {"act", "allow"} : adminTh' = [adminTh EXCEPT ![t] = [adminTh[t] EXCEPT !.pc = p]]
        BY <1>3 DEF Ufw!Check, Ufw!CheckFails, Ufw!Step
    <2>3. [adminTh[t] EXCEPT !.pc = p] \in Ufw!ThreadType
        BY <1>0, <2>1, UfwThread DEF Ufw!ThreadType
    <2> QED
        BY <1>0, <1>1, <2>1, <2>2, <2>3 DEF Ufw!TypeOK
<1>4. ASSUME NEW t \in Admins, Ufw!AllowDashboard(t)
      PROVE  Ufw!TypeOK'
    <2> DEFINE r == [action |-> "allow", proto |-> "tcp", from |-> "any", v6 |-> FALSE]
    <2>1. /\ UNCHANGED <<ufwActive, incoming, had>> /\ adminTh[t].pc = "allow"
          /\ adminTh' = [adminTh EXCEPT ![t] = [adminTh[t] EXCEPT !.pc = "act"]]
          /\ table' = Ufw!Added(table, r) \/ table' = table
        BY <1>4 DEF Ufw!AllowDashboard, Ufw!Step
    <2>2. [adminTh[t] EXCEPT !.pc = "act"] \in Ufw!ThreadType
        BY <1>0, <2>1, UfwThread DEF Ufw!ThreadType
    <2>3. r \in Ufw!Rule
        BY DEF Ufw!Rule
    <2> HIDE DEF r
    <2>4. table' \in Seq(Ufw!Rule)
        BY <1>0, <2>1, <2>3, AddsRules DEF Ufw!TypeOK
    <2> QED
        BY <1>0, <1>1, <2>1, <2>2, <2>4 DEF Ufw!TypeOK
<1>5. ASSUME NEW t \in Admins, Ufw!Act(t)
      PROVE  Ufw!TypeOK'
    <2>1. adminTh[t] \in [pc : {"check", "allow", "act"}, act : {"enable", "disable", "allow", "deny"}]
        BY <1>0, <1>5, UfwThread DEF Ufw!Act
    <2>2. adminTh' = [adminTh EXCEPT ![t] = Ufw!Idle] /\ table' = table /\ had' = had
        BY <1>5 DEF Ufw!Act, Ufw!Step
    <2>3. ufwActive' \in BOOLEAN
        BY <1>0, <1>5 DEF Ufw!Act, Ufw!TypeOK
    <2>4. incoming' \in {"allow", "deny"}
        BY <1>0, <1>5, <2>1 DEF Ufw!Act, Ufw!TypeOK
    <2> QED
        BY <1>0, <1>1, <2>2, <2>3, <2>4, UfwRecords DEF Ufw!TypeOK
<1>6. ASSUME NEW t \in Admins, Ufw!Add(t)
      PROVE  Ufw!TypeOK'
    <2>1. /\ UNCHANGED <<ufwActive, incoming, had>> /\ adminTh[t].pc \in {"add", "readd"}
          /\ table' = Ufw!Added(table, adminTh[t].rule) \/ table' = table
        BY <1>6 DEF Ufw!Add
    <2>2. PICK new : /\ adminTh' = [adminTh EXCEPT ![t] = new]
                     /\ \/ new = Ufw!Idle
                        \/ adminTh[t].pc = "readd" /\ new = [pc |-> "restore", rule |-> adminTh[t].old]
        BY <1>6, <2>1 DEF Ufw!Add, Ufw!Step
    <2>3. adminTh[t].rule \in Ufw!Rule /\ (adminTh[t].pc = "readd" => adminTh[t].old \in Ufw!Rule)
        BY <1>0, <2>1, UfwThread
    <2>4. new \in Ufw!ThreadType
        BY <2>2, <2>3, UfwRecords
    <2>5. table' \in Seq(Ufw!Rule)
        BY <1>0, <2>1, <2>3, AddsRules DEF Ufw!TypeOK
    <2> QED
        BY <1>0, <1>1, <2>1, <2>2, <2>4, <2>5 DEF Ufw!TypeOK
<1>7. ASSUME NEW t \in Admins, Ufw!Restore(t)
      PROVE  Ufw!TypeOK'
    <2>1. /\ UNCHANGED <<ufwActive, incoming, had>> /\ adminTh[t].pc = "restore"
          /\ adminTh' = [adminTh EXCEPT ![t] = Ufw!Idle]
          /\ table' = Ufw!Added(table, [adminTh[t].rule EXCEPT !.v6 = FALSE]) \/ table' = table
        BY <1>7 DEF Ufw!Restore, Ufw!Step
    <2>2. [adminTh[t].rule EXCEPT !.v6 = FALSE] \in Ufw!Rule
        <3>1. adminTh[t].rule \in Ufw!Rule
            BY <1>0, <2>1, UfwThread
        <3> QED
            BY <3>1 DEF Ufw!Rule
    <2>3. table' \in Seq(Ufw!Rule)
        BY <1>0, <2>1, <2>2, AddsRules DEF Ufw!TypeOK
    <2> QED
        BY <1>0, <1>1, <2>1, <2>3, UfwRecords DEF Ufw!TypeOK
<1>8. ASSUME NEW t \in Admins, Ufw!Delete(t)
      PROVE  Ufw!TypeOK'
    <2>1. /\ UNCHANGED <<ufwActive, incoming, had>> /\ adminTh[t].pc \in {"delete", "replace"}
          /\ \/ adminTh[t].number \in DOMAIN table /\ table' = Ufw!RemoveAt(table, adminTh[t].number)
             \/ table' = table
        BY <1>8 DEF Ufw!Delete
    <2>2. PICK new : /\ adminTh' = [adminTh EXCEPT ![t] = new]
                     /\ \/ new = Ufw!Idle
                        \/ /\ adminTh[t].pc = "replace"
                           /\ new = [pc |-> "readd", rule |-> adminTh[t].rule, old |-> adminTh[t].old]
        BY <1>8, <2>1 DEF Ufw!Delete, Ufw!Step
    <2>3. adminTh[t].pc = "replace" => adminTh[t].rule \in Ufw!Rule /\ adminTh[t].old \in Ufw!Rule
        BY <1>0, UfwThread
    <2>4. new \in Ufw!ThreadType
        BY <2>2, <2>3, UfwRecords
    <2>5. table \in Seq(Ufw!Rule) /\ DOMAIN table = 1 .. Len(table)
        BY <1>0 DEF Ufw!TypeOK
    <2>6. table' \in Seq(Ufw!Rule)
        BY <2>1, <2>5, Removed
    <2> QED
        BY <1>0, <1>1, <2>1, <2>2, <2>4, <2>6 DEF Ufw!TypeOK
<1>9. CASE UNCHANGED Ufw!vars
    BY <1>0, <1>9 DEF Ufw!vars, Ufw!TypeOK
<1> QED
    BY <1>2, <1>3, <1>4, <1>5, <1>6, <1>7, <1>8, <1>9 DEF Ufw!Next

\* A deletion takes one rule and leaves the others, in their order.
LEMMA UfwDeletes ==
    ASSUME Ufw!TypeOK, NEW n \in DOMAIN table, table' = Ufw!RemoveAt(table, n)
    PROVE  /\ \A i \in DOMAIN table' : \E j \in DOMAIN table : table'[i] = table[j]
           /\ \A j \in DOMAIN table : j # n => \E i \in DOMAIN table' : table'[i] = table[j]
<1>1. table \in Seq(Ufw!Rule) /\ DOMAIN table = 1 .. Len(table) /\ Len(table) \in Nat
    BY DEF Ufw!TypeOK
<1>2. /\ table' \in Seq(Ufw!Rule) /\ Len(table') = Len(table) - 1
      /\ \A i \in 1 .. Len(table) - 1 : table'[i] = table[IF i < n THEN i ELSE i + 1]
    BY <1>1, Removed
<1>3. DOMAIN table' = 1 .. Len(table) - 1
    BY <1>2
<1>4. ASSUME NEW i \in DOMAIN table'
      PROVE  (IF i < n THEN i ELSE i + 1) \in DOMAIN table
    BY <1>1, <1>3
<1>5. ASSUME NEW j \in DOMAIN table, j # n
      PROVE  \E i \in DOMAIN table' : table'[i] = table[j]
    <2>1. CASE j < n
        <3>1. j \in 1 .. Len(table) - 1
            BY <1>1, <2>1
        <3> QED
            BY <1>2, <1>3, <2>1, <3>1
    <2>2. CASE j > n
        <3>1. j - 1 \in 1 .. Len(table) - 1 /\ ~(j - 1 < n) /\ (j - 1) + 1 = j
            BY <1>1, <2>2
        <3>2. table'[j - 1] = table[j]
            BY <1>2, <3>1
        <3> QED
            BY <1>3, <3>1, <3>2
    <2> QED
        BY <1>1, <1>5, <2>1, <2>2
<1> QED
    BY <1>2, <1>3, <1>4, <1>5

LEMMA UfwSafeStep ==
    ASSUME Ufw!IInv, ~excused', [Ufw!Next]_(Ufw!vars)
    PROVE  Ufw!Safe'
<1>0. Ufw!TypeOK /\ ~excused /\ Ufw!Safe /\ Ufw!AllFine(table) /\ table \in Seq(Ufw!Rule)
    BY UfwSeen DEF Ufw!IInv, Ufw!Safe, Ufw!TypeOK
<1>h. had \subseteq BOOLEAN
    BY <1>0 DEF Ufw!TypeOK
\* Whoever is at work is alone.
<1>w. ASSUME NEW t \in Admins, adminTh[t].pc # "idle"
      PROVE  /\ \A o \in Admins \ {t} : adminTh[o] = Ufw!Idle
             /\ Ufw!Working(adminTh[t], table, had, Ufw!Denying)
    <2>1. adminTh[t] # Ufw!Idle
        BY <1>w DEF Ufw!Idle
    <2> QED
        BY <1>0, <2>1 DEF Ufw!Safe, Ufw!OneAtATime
\* A step that ends a request and touches no rule.
<1>f. ASSUME NEW t \in Admins, adminTh[t].pc \notin {"idle", "readd", "restore"},
             adminTh' = [adminTh EXCEPT ![t] = Ufw!Idle], UNCHANGED <<ufwActive, incoming, table, had>>
      PROVE  Ufw!Safe'
    <2>1. \A o \in Admins \ {t} : adminTh[o] = Ufw!Idle
        BY <1>f, <1>w
    <2>2. Ufw!Denying' => Ufw!Keeps(table', had') /\ Ufw!OpenIn(table')
        BY <1>f, <1>w DEF Ufw!Working, Ufw!Denying
    <2> QED
        BY <1>0, <1>f, <2>1, <2>2, UfwMoves
\* What a command that adds a rule does for the families.
<1>g. ASSUME NEW r \in Ufw!Rule, ~Ufw!BlocksDashboard(r), table' = Ufw!Added(table, r)
      PROVE  /\ Ufw!AllFine(table')
             /\ Ufw!Keeps(table, had) => Ufw!Keeps(table', had)
             /\ Ufw!OpenIn(table) \/ Ufw!KeepsDashboardOpen(r) => Ufw!OpenIn(table')
             /\ Ufw!Restores(r, table, had) => Ufw!Keeps(table', had) /\ Ufw!OpenIn(table')
    <2>1. /\ table' \in Seq(Ufw!Rule) /\ Ufw!AllFine(table')
          /\ \A six \in BOOLEAN : Ufw!AllowedIn(table, six) \/ Ufw!Heals(r, six)
                                     => Ufw!AllowedIn(table', six)
        BY <1>0, <1>g, Grows
    <2>2. Ufw!Keeps(table, had) => Ufw!Keeps(table', had)
        BY <1>h, <2>1 DEF Ufw!Keeps
    <2>3. Ufw!KeepsDashboardOpen(r) => Ufw!Heals(r, TRUE)
        BY DEF Ufw!KeepsDashboardOpen, Ufw!Heals
    <2>4. Ufw!OpenIn(table) => \E six \in BOOLEAN : Ufw!AllowedIn(table, six)
        BY <1>0, OpenFamily
    <2>5. (\E six \in BOOLEAN : Ufw!AllowedIn(table', six)) => Ufw!OpenIn(table')
        BY DEF Ufw!OpenIn, Ufw!AllowedIn
    <2>6. Ufw!OpenIn(table) \/ Ufw!KeepsDashboardOpen(r) => Ufw!OpenIn(table')
        BY <2>1, <2>3, <2>4, <2>5
    <2>7. Ufw!Restores(r, table, had) => Ufw!Keeps(table', had) /\ Ufw!OpenIn(table')
        BY <1>h, <2>1, <2>5 DEF Ufw!Restores, Ufw!Keeps
    <2> QED
        BY <2>1, <2>2, <2>6, <2>7
<1>1. ASSUME NEW t \in Admins,
             \/ Ufw!Enable(t) \/ Ufw!Disable(t) \/ Ufw!Policy(t) \/ Ufw!RuleAdd(t)
             \/ Ufw!RuleDelete(t) \/ Ufw!RuleUpdate(t)
      PROVE  Ufw!Safe'
    <2>1. PICK new \in Ufw!ThreadType, excuse \in BOOLEAN :
              /\ Ufw!Begin(t, new, excuse)
              /\ \/ new.pc = "check"
                 \/ new.pc = "act" /\ (new.act \in {"disable", "allow"} \/ excuse)
                 \/ new.pc = "add" /\ (~Ufw!BlocksDashboard(new.rule) \/ excuse)
                 \/ /\ new.pc = "delete" /\ new.number \in DOMAIN Ufw!Listed
                    /\ Ufw!WouldCut(new.number) => excuse
                 \/ /\ new.pc = "replace" /\ new.number \in DOMAIN Ufw!Listed
                    /\ new.old = Ufw!Listed[new.number]
                    /\ ~Ufw!BlocksDashboard(new.rule) \/ excuse
                    /\ Ufw!WouldCut(new.number) /\ ~Ufw!KeepsDashboardOpen(new.rule) => excuse
        BY <1>0, <1>1, UfwBegins
    <2>2. /\ adminTh[t] = Ufw!Idle /\ adminTh' = [adminTh EXCEPT ![t] = new]
          /\ UNCHANGED <<ufwActive, incoming, table>>
          /\ had' = {six \in BOOLEAN : Ufw!FamilyAllowed(six)}
        BY <2>1 DEF Ufw!Begin
    <2>3. ~excuse /\ \A o \in Admins \ {t} : adminTh[o] = Ufw!Idle
        BY <2>1 DEF Ufw!Begin, Ufw!Alone
    <2>4. Ufw!Denying' = Ufw!Denying /\ (Ufw!Denying => Ufw!OpenIn(table))
        <3>1. Ufw!Answered
            BY <2>2, <2>3 DEF Ufw!Answered
        <3> QED
            BY <1>0, <2>2, <3>1 DEF Ufw!Safe, Ufw!Denying
    <2>5. Ufw!Keeps(table, had') /\ (Ufw!OpenIn(table) => had' # {})
        <3>1. Ufw!OpenIn(table) => \E six \in BOOLEAN : Ufw!AllowedIn(table, six)
            BY <1>0, OpenFamily
        <3> QED
            BY <2>2, <3>1 DEF Ufw!Keeps, Ufw!FamilyAllowed
    <2>6. ASSUME Ufw!Denying, new.pc \in {"delete", "replace"}
          PROVE  /\ new.number \in DOMAIN table /\ Ufw!Listed = table
                 /\ ~Ufw!WouldCut(new.number) => Ufw!KeepsBut(table, new.number, had')
        <3>1. Ufw!Listed = table /\ incoming = "deny" /\ new.number \in DOMAIN table
            BY <2>1, <2>6 DEF Ufw!Listed, Ufw!Denying
        <3>2. ASSUME ~Ufw!WouldCut(new.number), NEW six \in had'
              PROVE  \E i \in DOMAIN table : i # new.number /\ Ufw!Covers(table[i]) /\ table[i].v6 = six
            <4>1. PICK i \in DOMAIN table : Ufw!Covers(table[i]) /\ table[i].v6 = six
                BY <2>5, <3>2 DEF Ufw!Keeps, Ufw!AllowedIn
            <4>2. CASE i = new.number
                BY <3>1, <3>2, <4>1, <4>2 DEF Ufw!WouldCut
            <4> QED
                BY <4>1, <4>2
        <3> QED
            BY <3>1, <3>2 DEF Ufw!KeepsBut
    <2>7. new.pc = "replace" => Ufw!Fine(new.old)
        BY <1>0, <2>1 DEF Ufw!Listed, Ufw!AllFine
    <2>8. Ufw!Working(new, table, had', Ufw!Denying)
        <3>1. CASE new.pc = "check"
            BY <2>4, <2>5, <3>1 DEF Ufw!Working
        <3>2. CASE new.pc = "act" /\ new.act \in {"disable", "allow"}
            BY <2>4, <2>5, <3>2 DEF Ufw!Working
        <3>3. CASE new.pc = "add" /\ ~Ufw!BlocksDashboard(new.rule)
            BY <2>4, <2>5, <3>3 DEF Ufw!Working
        <3>4. CASE new.pc = "delete" /\ ~Ufw!WouldCut(new.number)
            BY <2>4, <2>5, <2>6, <3>4 DEF Ufw!Working
        <3>5. CASE /\ new.pc = "replace" /\ new.old = Ufw!Listed[new.number]
                   /\ ~Ufw!BlocksDashboard(new.rule)
                   /\ ~Ufw!WouldCut(new.number) \/ Ufw!KeepsDashboardOpen(new.rule)
            BY <2>4, <2>5, <2>6, <2>7, <3>5 DEF Ufw!Working
        <3> QED
            BY <2>1, <2>3, <3>1, <3>2, <3>3, <3>4, <3>5
    <2>9. new # Ufw!Idle
        BY <2>1 DEF Ufw!Idle
    <2> QED
        BY <1>0, <2>2, <2>3, <2>4, <2>8, <2>9, UfwMoves
<1>2. ASSUME NEW t \in Admins, Ufw!Check(t) \/ Ufw!CheckFails(t)
      PROVE  Ufw!Safe'
    <2>1. adminTh[t].pc = "check" /\ UNCHANGED <<ufwActive, incoming, table, had>>
        BY <1>2 DEF Ufw!Check, Ufw!CheckFails
    <2>2. PICK p \in {"act", "allow"} : /\ adminTh' = [adminTh EXCEPT ![t] = [adminTh[t] EXCEPT !.pc = p]]
                                        /\ p = "act" => Ufw!HasAllow
        <3>1. CASE Ufw!Check(t)
            <4>1. ~(Ufw!GuardSeesAllow /\ ~Ufw!HasAllow)
                BY <3>1 DEF Ufw!Check
            <4>2. CASE Ufw!GuardSeesAllow
                BY <3>1, <4>1, <4>2 DEF Ufw!Check, Ufw!Step
            <4>3. CASE ~Ufw!GuardSeesAllow
                BY <3>1, <4>3 DEF Ufw!Check, Ufw!Step
            <4> QED
                BY <4>2, <4>3
        <3>2. CASE Ufw!CheckFails(t)
            BY <3>2 DEF Ufw!CheckFails, Ufw!Step
        <3> QED
            BY <1>2, <3>1, <3>2
    <2> DEFINE new == [adminTh[t] EXCEPT !.pc = p]
    <2>3. new.pc = p
        BY <1>0, <2>1, UfwThread
    <2>4. adminTh' = [adminTh EXCEPT ![t] = new]
        BY <2>2
    <2> HIDE DEF new
    <2>5. (\A o \in Admins \ {t} : adminTh[o] = Ufw!Idle) /\ Ufw!Working(adminTh[t], table, had, Ufw!Denying)
        BY <1>w, <2>1
    <2>6. Ufw!Working(new, table, had, Ufw!Denying)
        BY <2>1, <2>2, <2>3, <2>5 DEF Ufw!Working, Ufw!HasAllow
    <2>7. new # Ufw!Idle
        BY <2>2, <2>3 DEF Ufw!Idle
    <2>8. Ufw!Denying' = Ufw!Denying
        BY <2>1 DEF Ufw!Denying
    <2> QED
        BY <1>0, <2>1, <2>4, <2>5, <2>6, <2>7, <2>8, UfwMoves
<1>3. ASSUME NEW t \in Admins, Ufw!AllowDashboard(t)
      PROVE  Ufw!Safe'
    <2>1. /\ adminTh[t].pc = "allow" /\ adminTh' = [adminTh EXCEPT ![t] = [adminTh[t] EXCEPT !.pc = "act"]]
          /\ UNCHANGED <<ufwActive, incoming, had>>
        BY <1>3 DEF Ufw!AllowDashboard, Ufw!Step
    <2> DEFINE new == [adminTh[t] EXCEPT !.pc = "act"]
               r == [action |-> "allow", proto |-> "tcp", from |-> "any", v6 |-> FALSE]
    <2>2. new.pc = "act"
        BY <1>0, <2>1, UfwThread
    <2>3. r \in Ufw!Rule /\ ~Ufw!BlocksDashboard(r) /\ Ufw!KeepsDashboardOpen(r)
        BY DEF Ufw!Rule, Ufw!BlocksDashboard, Ufw!KeepsDashboardOpen, Ufw!Covers, Ufw!OfDashboard
    <2>4. table' = Ufw!Added(table, r)
        BY <1>3 DEF Ufw!AllowDashboard
    <2>5. adminTh' = [adminTh EXCEPT ![t] = new]
        BY <2>1
    <2> HIDE DEF new, r
    <2>6. (\A o \in Admins \ {t} : adminTh[o] = Ufw!Idle) /\ Ufw!Keeps(table, had)
        BY <1>w, <2>1 DEF Ufw!Working
    <2>7. Ufw!AllFine(table') /\ Ufw!Keeps(table', had) /\ Ufw!OpenIn(table')
        BY <1>g, <2>3, <2>4, <2>6
    <2>8. new # Ufw!Idle /\ Ufw!Working(new, table', had', Ufw!Denying')
        BY <2>1, <2>2, <2>7 DEF Ufw!Working, Ufw!Idle
    <2> QED
        BY <1>0, <2>5, <2>6, <2>7, <2>8, UfwMoves
<1>4. ASSUME NEW t \in Admins, Ufw!Act(t)
      PROVE  Ufw!Safe'
    <2>1. /\ adminTh[t].pc = "act" /\ adminTh' = [adminTh EXCEPT ![t] = Ufw!Idle]
          /\ UNCHANGED <<table, had>>
        BY <1>4 DEF Ufw!Act, Ufw!Step
    <2>2. /\ \A o \in Admins \ {t} : adminTh[o] = Ufw!Idle
          /\ Ufw!Keeps(table, had) /\ (Ufw!Denying => Ufw!OpenIn(table))
          /\ adminTh[t].act \in {"enable", "deny"} => Ufw!OpenIn(table)
        BY <1>w, <2>1 DEF Ufw!Working
    <2>3. adminTh[t].act \in {"enable", "disable", "allow", "deny"}
        BY <1>0, <2>1, UfwThread
    <2>4. Ufw!Denying' => Ufw!OpenIn(table)
        <3>1. CASE UNCHANGED <<ufwActive, incoming>>
            BY <2>2, <3>1 DEF Ufw!Denying
        <3>2. CASE adminTh[t].act = "disable" /\ ufwActive' = FALSE
            BY <3>2 DEF Ufw!Denying
        <3>3. CASE adminTh[t].act = "allow" /\ incoming' = "allow"
            BY <3>3 DEF Ufw!Denying
        <3> QED
            BY <1>4, <2>2, <2>3, <3>1, <3>2, <3>3 DEF Ufw!Act
    <2> QED
        BY <1>0, <2>1, <2>2, <2>4, UfwMoves
<1>5. ASSUME NEW t \in Admins, Ufw!Add(t)
      PROVE  Ufw!Safe'
    <2>1. adminTh[t].pc \in {"add", "readd"} /\ UNCHANGED <<ufwActive, incoming, had>>
        BY <1>5 DEF Ufw!Add
    <2>2. /\ \A o \in Admins \ {t} : adminTh[o] = Ufw!Idle
          /\ Ufw!Working(adminTh[t], table, had, Ufw!Denying)
          /\ Ufw!Denying' = Ufw!Denying
        BY <1>w, <2>1 DEF Ufw!Denying
    <2>3. adminTh[t].rule \in Ufw!Rule /\ ~Ufw!BlocksDashboard(adminTh[t].rule)
        BY <1>0, <2>1, <2>2, UfwThread DEF Ufw!Working
    <2>4. CASE table' = Ufw!Added(table, adminTh[t].rule) /\ adminTh' = [adminTh EXCEPT ![t] = Ufw!Idle]
        <3>1. /\ Ufw!AllFine(table')
              /\ Ufw!Keeps(table, had) => Ufw!Keeps(table', had)
              /\ Ufw!OpenIn(table) => Ufw!OpenIn(table')
              /\ Ufw!Restores(adminTh[t].rule, table, had) => Ufw!Keeps(table', had) /\ Ufw!OpenIn(table')
            BY <1>g, <2>3, <2>4
        <3>2. Ufw!Denying => Ufw!Keeps(table', had) /\ Ufw!OpenIn(table')
            <4>1. CASE adminTh[t].pc = "add"
                BY <2>2, <3>1, <4>1 DEF Ufw!Working
            <4>2. CASE adminTh[t].pc = "readd"
                BY <2>2, <3>1, <4>2 DEF Ufw!Working
            <4> QED
                BY <2>1, <4>1, <4>2
        <3> QED
            BY <1>0, <2>1, <2>2, <2>4, <3>1, <3>2, UfwMoves
    <2>5. CASE table' = table /\ adminTh[t].pc = "add" /\ adminTh' = [adminTh EXCEPT ![t] = Ufw!Idle]
        BY <1>f, <2>1, <2>5
    <2>6. CASE /\ table' = table /\ adminTh[t].pc = "readd"
               /\ adminTh' = [adminTh EXCEPT ![t] = [pc |-> "restore", rule |-> adminTh[t].old]]
        <3> DEFINE new == [pc |-> "restore", rule |-> adminTh[t].old]
        <3>1. new.pc = "restore" /\ new.rule = adminTh[t].old /\ adminTh' = [adminTh EXCEPT ![t] = new]
            BY <2>6
        <3> HIDE DEF new
        <3>2. Ufw!Fine(new.rule) /\ (Ufw!Denying => Ufw!Restores(new.rule, table, had))
            BY <2>2, <2>6, <3>1 DEF Ufw!Working
        <3>3. new # Ufw!Idle /\ Ufw!Working(new, table, had, Ufw!Denying)
            BY <3>1, <3>2 DEF Ufw!Working, Ufw!Idle
        <3> QED
            BY <1>0, <2>1, <2>2, <2>6, <3>1, <3>3, UfwMoves
    <2> QED
        BY <1>5, <2>1, <2>4, <2>5, <2>6 DEF Ufw!Add, Ufw!Step
<1>6. ASSUME NEW t \in Admins, Ufw!Restore(t)
      PROVE  Ufw!Safe'
    <2>1. /\ adminTh[t].pc = "restore" /\ adminTh' = [adminTh EXCEPT ![t] = Ufw!Idle]
          /\ UNCHANGED <<ufwActive, incoming, had>>
        BY <1>6 DEF Ufw!Restore, Ufw!Step
    <2> DEFINE r == [adminTh[t].rule EXCEPT !.v6 = FALSE]
    <2>2. table' = Ufw!Added(table, r)
        BY <1>6 DEF Ufw!Restore
    <2>3. /\ \A o \in Admins \ {t} : adminTh[o] = Ufw!Idle
          /\ Ufw!Fine(adminTh[t].rule)
          /\ Ufw!Denying => Ufw!Restores(adminTh[t].rule, table, had)
          /\ adminTh[t].rule \in Ufw!Rule
        BY <1>0, <1>w, <2>1, UfwThread DEF Ufw!Working
    <2>4. /\ r \in Ufw!Rule /\ ~Ufw!BlocksDashboard(r)
          /\ \A six \in BOOLEAN : Ufw!Heals(adminTh[t].rule, six) <=> Ufw!Heals(r, six)
        BY <2>3 DEF Ufw!Rule, Ufw!Fine, Ufw!BlocksDashboard, Ufw!OfDashboard, Ufw!Heals, Ufw!Covers
    <2> HIDE DEF r
    <2>5. Ufw!Denying => Ufw!Restores(r, table, had)
        BY <1>h, <2>3, <2>4 DEF Ufw!Restores
    <2>6. Ufw!AllFine(table') /\ (Ufw!Denying => Ufw!Keeps(table', had) /\ Ufw!OpenIn(table'))
        BY <1>g, <2>2, <2>4, <2>5
    <2> QED
        BY <1>0, <2>1, <2>3, <2>6, UfwMoves DEF Ufw!Denying
<1>7. ASSUME NEW t \in Admins, Ufw!Delete(t)
      PROVE  Ufw!Safe'
    <2>1. adminTh[t].pc \in {"delete", "replace"} /\ UNCHANGED <<ufwActive, incoming, had>>
        BY <1>7 DEF Ufw!Delete
    <2>2. CASE table' = table /\ adminTh' = [adminTh EXCEPT ![t] = Ufw!Idle]
        BY <1>f, <2>1, <2>2
    <2>3. CASE /\ adminTh[t].number \in DOMAIN table /\ table' = Ufw!RemoveAt(table, adminTh[t].number)
               /\ adminTh' = [adminTh EXCEPT ![t] = IF adminTh[t].pc = "delete" THEN Ufw!Idle
                                 ELSE [pc |-> "readd", rule |-> adminTh[t].rule, old |-> adminTh[t].old]]
        <3>1. /\ \A i \in DOMAIN table' : \E j \in DOMAIN table : table'[i] = table[j]
              /\ \A j \in DOMAIN table : j # adminTh[t].number => \E i \in DOMAIN table' : table'[i] = table[j]
            BY <1>0, <2>3, UfwDeletes
        <3>2. Ufw!AllFine(table')
            BY <1>0, <3>1 DEF Ufw!AllFine
        <3>3. /\ \A o \in Admins \ {t} : adminTh[o] = Ufw!Idle
              /\ Ufw!Working(adminTh[t], table, had, Ufw!Denying)
              /\ Ufw!Denying' = Ufw!Denying
            BY <1>w, <2>1 DEF Ufw!Denying
        <3>4. Ufw!KeepsBut(table, adminTh[t].number, had) => Ufw!Keeps(table', had)
            <4> SUFFICES ASSUME Ufw!KeepsBut(table, adminTh[t].number, had), NEW six \in had
                         PROVE  Ufw!AllowedIn(table', six)
                BY DEF Ufw!Keeps
            <4>1. PICK j \in DOMAIN table :
                      j # adminTh[t].number /\ Ufw!Covers(table[j]) /\ table[j].v6 = six
                BY DEF Ufw!KeepsBut
            <4>2. PICK i \in DOMAIN table' : table'[i] = table[j]
                BY <3>1, <4>1
            <4> QED
                BY <4>1, <4>2 DEF Ufw!AllowedIn
        <3>5. CASE adminTh[t].pc = "delete"
            <4>1. adminTh' = [adminTh EXCEPT ![t] = Ufw!Idle]
                BY <2>3, <3>5
            <4>2. Ufw!Denying => Ufw!Keeps(table', had) /\ had # {}
                BY <3>3, <3>4, <3>5 DEF Ufw!Working
            <4>3. Ufw!Denying => Ufw!OpenIn(table')
                BY <4>2 DEF Ufw!Keeps, Ufw!AllowedIn, Ufw!OpenIn
            <4> QED
                BY <1>0, <2>1, <3>2, <3>3, <4>1, <4>2, <4>3, UfwMoves
        <3>6. CASE adminTh[t].pc = "replace"
            <4> DEFINE new == [pc |-> "readd", rule |-> adminTh[t].rule, old |-> adminTh[t].old]
            <4>1. /\ new.pc = "readd" /\ new.rule = adminTh[t].rule /\ new.old = adminTh[t].old
                  /\ adminTh' = [adminTh EXCEPT ![t] = new]
                BY <2>3, <3>6
            <4> HIDE DEF new
            <4>2. ~Ufw!BlocksDashboard(new.rule) /\ Ufw!Fine(new.old) /\ Ufw!Keeps(table, had)
                BY <3>3, <3>6, <4>1 DEF Ufw!Working
            <4>3. Ufw!Denying => Ufw!Restores(new.rule, table', had)
                <5> SUFFICES ASSUME Ufw!Denying
                             PROVE  Ufw!Restores(new.rule, table', had)
                    OBVIOUS
                <5>1. /\ had # {}
                      /\ Ufw!KeepsBut(table, adminTh[t].number, had) \/ Ufw!KeepsDashboardOpen(new.rule)
                    BY <3>3, <3>6, <4>1 DEF Ufw!Working
                <5>2. CASE Ufw!KeepsBut(table, adminTh[t].number, had)
                    BY <3>4, <5>1, <5>2 DEF Ufw!Restores, Ufw!Keeps
                <5>3. CASE Ufw!KeepsDashboardOpen(new.rule)
                    BY <5>1, <5>3 DEF Ufw!Restores, Ufw!KeepsDashboardOpen, Ufw!Heals
                <5> QED
                    BY <5>1, <5>2, <5>3
            <4>4. Ufw!Denying => Ufw!Restores(new.old, table', had)
                <5> SUFFICES ASSUME Ufw!Denying, NEW six \in had
                             PROVE  Ufw!AllowedIn(table', six) \/ Ufw!Heals(new.old, six)
                    BY <3>3, <3>6 DEF Ufw!Working, Ufw!Restores
                <5>1. PICK j \in DOMAIN table : Ufw!Covers(table[j]) /\ table[j].v6 = six
                    BY <4>2 DEF Ufw!Keeps, Ufw!AllowedIn
                <5>2. CASE j # adminTh[t].number
                    BY <3>1, <5>1, <5>2 DEF Ufw!AllowedIn
                <5>3. CASE j = adminTh[t].number
                    <6>1. table[j] = new.old
                        BY <3>3, <3>6, <4>1, <5>3 DEF Ufw!Working
                    <6>2. new.old \in Ufw!Rule
                        BY <1>0, <6>1, ElementOfSeq
                    <6> QED
                        BY <4>2, <5>1, <6>1, <6>2 DEF Ufw!Heals, Ufw!Fine, Ufw!Rule
                <5> QED
                    BY <5>2, <5>3
            <4>5. new # Ufw!Idle /\ Ufw!Working(new, table', had, Ufw!Denying)
                BY <4>1, <4>2, <4>3, <4>4 DEF Ufw!Working, Ufw!Idle
            <4> QED
                BY <1>0, <2>1, <3>2, <3>3, <4>1, <4>5, UfwMoves
        <3> QED
            BY <2>1, <3>5, <3>6
    <2> QED
        BY <1>7, <2>2, <2>3 DEF Ufw!Delete, Ufw!Step
<1>8. CASE UNCHANGED Ufw!vars
    BY <1>0, <1>8 DEF Ufw!Safe, Ufw!vars, Ufw!OneAtATime, Ufw!Answered, Ufw!Denying
<1> QED
    BY <1>1, <1>2, <1>3, <1>4, <1>5, <1>6, <1>7, <1>8 DEF Ufw!Next

LEMMA UfwInvariant == Spec => [](which = "Ufw" => Ufw!IInv)
<1>1. Init => (which = "Ufw" => Ufw!IInv)
    BY UfwInit DEF Init
<1>2. (which = "Ufw" => Ufw!IInv) /\ [Next]_vars => (which = "Ufw" => Ufw!IInv)'
    <2> SUFFICES ASSUME which = "Ufw" => Ufw!IInv, [Next]_vars, which' = "Ufw"
                 PROVE  Ufw!IInv'
        OBVIOUS
    <2>1. Ufw!IInv /\ [Ufw!Next]_(Ufw!vars)
        BY ComponentStep
    <2>2. Ufw!TypeOK'
        BY <2>1, UfwTypeStep
    <2>3. ~excused' => Ufw!Safe'
        BY <2>1, UfwSafeStep
    <2> QED
        BY <2>2, <2>3 DEF Ufw!IInv
<1> QED
    BY <1>1, <1>2, PTL DEF Spec

\* No series of requests, each answered before the next, that never confirms a warning
\* leaves a denying firewall without an allow of the dashboard's port, for any table,
\* any admins and any number of requests, unless the guard took a rule of udp, or of
\* another port, for an allow of it (_ensure_dashboard_allowed,
\* _delete_would_cut_dashboard, _readd_parsed).
THEOREM PortStaysOpen == Spec => []NeverLockedOut
<1>1. (which = "Ufw" => Ufw!IInv) => NeverLockedOut
    BY DEF NeverLockedOut, Ufw!NeverLockedOut, Ufw!IInv, Ufw!Safe, Ufw!Denying, Ufw!HasAllow
<1> QED
    BY <1>1, UfwInvariant, PTL

\* An address family that had an allow when a request began has one when the request is
\* answered, be it a deletion or an edit whose new rule or put-back comes later, unless
\* its warning was confirmed, for any table, any admins and any number of requests
\* (_delete_would_cut_dashboard, firewall_rule_update, _readd_parsed).
THEOREM FamiliesStay == Spec => []FamilyKept
<1>1. (which = "Ufw" => Ufw!IInv) => FamilyKept
    BY DEF FamilyKept, Ufw!FamilyKept, Ufw!IInv, Ufw!Safe, Ufw!Denying, Ufw!Keeps, Ufw!FamilyAllowed
<1> QED
    BY <1>1, UfwInvariant, PTL

----------------------------------------------------------------------------
(* Dnsmasq *)

settings == s1
records == s2
dnsFiles == s3
dnsLoaded == s4
dnsRunning == s5
storeLock == s6
dnsTh == s7
dnsMade == s8
dnsCrashed == s9
dirty == s10
USE DEF settings, records, dnsFiles, dnsLoaded, dnsRunning, storeLock, dnsTh, dnsMade, dnsCrashed, dirty

\* What a rendering is made of.
LEMMA Renders ==
    ASSUME NEW s \in Dns!Settings, NEW c \in Dns!Colls
    PROVE  /\ Dns!RenderAll(s, c) \in Dns!Rendered
           /\ Dns!ConfOf(s, c) \in Dns!Conf /\ Dns!HupOf(s, c) \in Dns!Hup
           /\ Dns!RenderAll(s, c) = [conf |-> Dns!ConfOf(s, c), hup |-> Dns!HupOf(s, c)]
<1>1. Dns!None \in Dns!Count
    BY DEF Dns!None, Dns!Count
<1>2. s.dhcp \in BOOLEAN /\ s.extra \in Dns!Extra
    BY DEF Dns!Settings
<1>3. \A k \in {"hosts", "rules", "ranges", "leases"} : c[k] \in Dns!Count
    BY DEF Dns!Colls, Dns!Coll
<1>4. Dns!ConfOf(s, c) \in Dns!Conf
    BY <1>1, <1>2, <1>3 DEF Dns!ConfOf, Dns!Conf
<1>5. Dns!HupOf(s, c) \in Dns!Hup
    BY <1>1, <1>3 DEF Dns!HupOf, Dns!Hup
<1> QED
    BY <1>4, <1>5 DEF Dns!RenderAll, Dns!Rendered

LEMMA DnsThread ==
    ASSUME Dns!TypeOK, NEW t \in Threads
    PROVE  /\ dnsTh[t].pc \in {"probe", "begun"} =>
                 dnsTh[t] \in [pc : {"probe", "begun"}, req : Dns!Request, cur : Dns!Settings]
           /\ dnsTh[t].pc = "test" =>
                 dnsTh[t] \in [pc : {"test"}, apply : BOOLEAN, snap : Dns!Settings \X Dns!Colls]
           /\ dnsTh[t].pc \in {"write", "signal"} =>
                 dnsTh[t] \in [pc : {"write", "signal"}, heals : BOOLEAN,
                               action : {"none", "reload", "restart"}]
<1>1. dnsTh[t] \in Dns!ThreadType
    BY DEF Dns!TypeOK
<1> QED
    BY <1>1 DEF Dns!ThreadType, Dns!Idle

LEMMA DnsRecords ==
    /\ \A p \in {"probe", "begun"}, r \in Dns!Request, s \in Dns!Settings :
          [pc |-> p, req |-> r, cur |-> s] \in Dns!ThreadType
    /\ \A a \in BOOLEAN, x \in Dns!Settings \X Dns!Colls :
          [pc |-> "test", apply |-> a, snap |-> x] \in Dns!ThreadType
    /\ \A p \in {"write", "signal"}, h \in BOOLEAN, a \in {"none", "reload", "restart"} :
          [pc |-> p, heals |-> h, action |-> a] \in Dns!ThreadType
    /\ Dns!Idle \in Dns!ThreadType
BY DEF Dns!ThreadType

\* What a request carries.
LEMMA DnsCarries ==
    ASSUME NEW r \in Dns!Request
    PROVE  /\ r.kind \in {"add", "delete", "update"} => r.coll \in Dns!Coll /\ r.item \in Items
           /\ r.kind = "update" => r.by \in Items
           /\ r.kind = "settings" => r.extra \in Dns!Extra
           /\ r.kind = "toggle" => r.dhcp \in BOOLEAN
BY DEF Dns!Request, Dns!DnsRequest, Dns!DhcpRequest, Dns!SettingsRequest, Dns!Coll

\* A change leaves stores of the same kind.
LEMMA DnsEdits ==
    ASSUME Dns!TypeOK, NEW r \in Dns!Request
    PROVE  Dns!Edited(r) \in Dns!Colls
<1>0. records \in [Dns!Coll -> [Items -> Nat]]
    BY DEF Dns!TypeOK, Dns!Colls, Dns!Count
<1>1. ASSUME NEW k \in Dns!Coll, NEW x \in Items
      PROVE  /\ [records EXCEPT ![k][x] = @ + 1] \in Dns!Colls
             /\ records[k][x] > 0 => [records EXCEPT ![k][x] = @ - 1] \in Dns!Colls
    <2>1. records[k] \in [Items -> Nat] /\ records[k][x] \in Nat
        BY <1>0
    <2>2. [records[k] EXCEPT ![x] = @ + 1] \in [Items -> Nat]
        BY <2>1
    <2>3. records[k][x] > 0 => [records[k] EXCEPT ![x] = @ - 1] \in [Items -> Nat]
        BY <2>1
    <2> QED
        BY <1>0, <2>2, <2>3 DEF Dns!Colls, Dns!Count
<1>2. CASE r.kind = "add"
    <2>1. Dns!Edited(r) = [records EXCEPT ![r.coll][r.item] = @ + 1]
        BY <1>2 DEF Dns!Edited
    <2>2. r.coll \in Dns!Coll /\ r.item \in Items
        BY <1>2, DnsCarries
    <2>3. [records EXCEPT ![r.coll][r.item] = @ + 1] \in Dns!Colls
        BY <1>1, <2>2
    <2> QED
        BY <2>1, <2>3
<1>3. CASE r.kind = "delete" /\ records[r.coll][r.item] > 0
    <2>1. Dns!Edited(r) = [records EXCEPT ![r.coll][r.item] = @ - 1]
        BY <1>3 DEF Dns!Edited
    <2>2. r.coll \in Dns!Coll /\ r.item \in Items
        BY <1>3, DnsCarries
    <2>3. [records EXCEPT ![r.coll][r.item] = @ - 1] \in Dns!Colls
        BY <1>1, <1>3, <2>2
    <2> QED
        BY <2>1, <2>3
<1>4. CASE r.kind = "update" /\ records[r.coll][r.item] > 0 /\ r.by # r.item
    <2>1. Dns!Edited(r) = [records EXCEPT ![r.coll][r.item] = @ - 1, ![r.coll][r.by] = @ + 1]
        BY <1>4 DEF Dns!Edited
    <2>2. r.coll \in Dns!Coll /\ r.item \in Items /\ r.by \in Items
        BY <1>4, DnsCarries
    <2>3. ASSUME NEW k \in Dns!Coll, NEW x \in Items, NEW y \in Items, x # y, records[k][x] > 0
          PROVE  [records EXCEPT ![k][x] = @ - 1, ![k][y] = @ + 1] \in [Dns!Coll -> [Items -> Nat]]
        BY <1>0, <2>3
    <2>4. [records EXCEPT ![r.coll][r.item] = @ - 1, ![r.coll][r.by] = @ + 1] \in [Dns!Coll -> [Items -> Nat]]
        BY <1>4, <2>2, <2>3
    <2> QED
        BY <2>1, <2>4 DEF Dns!Colls, Dns!Count
<1>5. CASE r.kind = "import"
    <2>1. Dns!Edited(r) = [records EXCEPT !["hosts"] = Dns!Imported(r)]
        BY <1>5 DEF Dns!Edited
    <2>2. \A x \in Items : records["hosts"][x] \in Nat
        BY <1>0 DEF Dns!Coll
    <2>3. Dns!Imported(r) \in [Items -> Nat]
        BY <2>2 DEF Dns!Imported
    <2> QED
        BY <1>0, <2>1, <2>3 DEF Dns!Colls, Dns!Count
<1>6. CASE /\ ~(r.kind = "add") /\ ~(r.kind = "import")
           /\ ~(r.kind = "delete" /\ records[r.coll][r.item] > 0)
           /\ ~(r.kind = "update" /\ records[r.coll][r.item] > 0 /\ r.by # r.item)
    BY <1>0, <1>6 DEF Dns!Edited, Dns!Colls, Dns!Count
<1> QED
    BY <1>2, <1>3, <1>4, <1>5, <1>6

LEMMA DnsResettles ==
    ASSUME Dns!TypeOK, NEW r \in Dns!Request, NEW cur \in Dns!Settings
    PROVE  Dns!Resettled(r, cur) \in Dns!Settings
<1>1. CASE r.kind = "settings"
    BY <1>1, DnsCarries DEF Dns!Resettled, Dns!Settings
<1>2. CASE r.kind = "toggle"
    BY <1>2, DnsCarries DEF Dns!Resettled, Dns!Settings
<1>3. CASE r.kind \notin {"settings", "toggle"}
    BY <1>3 DEF Dns!Resettled, Dns!TypeOK
<1> QED
    BY <1>1, <1>2, <1>3

LEMMA DnsInit == Dns!Init => Dns!IInv
<1> SUFFICES ASSUME Dns!Init
             PROVE  Dns!IInv
    OBVIOUS
<1>1. /\ settings = [dhcp |-> FALSE, extra |-> "plain"] /\ records = [k \in Dns!Coll |-> Dns!None]
      /\ dnsFiles = Dns!RenderAll(settings, records) /\ dnsLoaded = dnsFiles
      /\ dnsRunning = TRUE /\ dirty = FALSE /\ dnsTh = [t \in Threads |-> Dns!Idle]
    BY DEF Dns!Init
<1>2. settings \in Dns!Settings /\ records \in Dns!Colls
    BY <1>1 DEF Dns!Settings, Dns!Extra, Dns!Colls, Dns!Count, Dns!None
<1>3. dnsFiles \in Dns!Rendered
    BY <1>1, <1>2, Renders
<1>4. Dns!TypeOK
    <2>1. dnsTh \in [Threads -> Dns!ThreadType]
        BY <1>1, DnsRecords
    <2> QED
        BY <1>1, <1>2, <1>3, <2>1 DEF Dns!TypeOK
<1>5. \A t \in Threads : dnsTh[t].pc = "idle"
    BY <1>1 DEF Dns!Idle
<1> QED
    BY <1>1, <1>4, <1>5 DEF Dns!IInv, Dns!OneHolder, Dns!Holds, Dns!FilesFollow, Dns!SignalFollows

\* What a request that begins becomes.
LEMMA DnsBegins ==
    ASSUME Dns!TypeOK, NEW t \in Threads, NEW r \in Dns!Request, Dns!Begin(t, r)
    PROVE  \E new \in Dns!ThreadType :
              /\ dnsTh' = [dnsTh EXCEPT ![t] = new]
              /\ \/ new.pc \in {"probe", "begun"}
                 \/ new.pc = "signal" /\ new.heals = FALSE /\ new.action = "restart"
<1>0. settings \in Dns!Settings
    BY DEF Dns!TypeOK
<1>1. CASE r.kind = "restart"
    <2> DEFINE new == [pc |-> "signal", action |-> "restart", heals |-> FALSE]
    <2>1. dnsTh' = [dnsTh EXCEPT ![t] = new]
        BY <1>1 DEF Dns!Begin
    <2>2. new \in Dns!ThreadType /\ new.pc = "signal" /\ new.heals = FALSE /\ new.action = "restart"
        BY DEF Dns!ThreadType
    <2> HIDE DEF new
    <2> QED
        BY <2>1, <2>2
<1>2. CASE r.kind # "restart"
    <2>1. PICK p \in {"probe", "begun"} : dnsTh' = [dnsTh EXCEPT ![t] = [pc |-> p, req |-> r, cur |-> settings]]
        <3>1. CASE r.kind = "toggle" /\ r.dhcp /\ ~settings.dhcp
            BY <1>2, <3>1 DEF Dns!Begin
        <3>2. CASE ~(r.kind = "toggle" /\ r.dhcp /\ ~settings.dhcp)
            BY <1>2, <3>2 DEF Dns!Begin
        <3> QED
            BY <3>1, <3>2
    <2> DEFINE new == [pc |-> p, req |-> r, cur |-> settings]
    <2>2. new \in Dns!ThreadType /\ new.pc \in {"probe", "begun"}
        BY <1>0, <2>1, DnsRecords
    <2>3. dnsTh' = [dnsTh EXCEPT ![t] = new]
        BY <2>1
    <2> HIDE DEF new
    <2> QED
        BY <2>2, <2>3
<1> QED
    BY <1>1, <1>2

\* What a failure leaves of the threads.
LEMMA DnsDisturbs ==
    ASSUME Dns!TypeOK, NEW S \in SUBSET Threads, Dns!Disturb(S)
    PROVE  /\ dirty' = TRUE /\ dnsTh' \in [Threads -> Dns!ThreadType]
           /\ \A t \in Threads :
                 \/ dnsTh'[t] = Dns!Idle
                 \/ t \notin S /\ dnsTh'[t] = dnsTh[t] /\ dnsTh[t].pc \notin {"write", "signal"}
                 \/ /\ t \notin S /\ dnsTh[t].pc \in {"write", "signal"} /\ dnsTh'[t].pc = dnsTh[t].pc
                    /\ dnsTh'[t].heals = FALSE /\ dnsTh'[t].action = dnsTh[t].action
<1>0. dnsTh \in [Threads -> Dns!ThreadType]
    BY DEF Dns!TypeOK
<1>1. /\ dirty' = TRUE
      /\ dnsTh' = [t \in Threads |->
            IF t \in S THEN Dns!Idle
            ELSE IF dnsTh[t].pc \in {"write", "signal"} THEN [dnsTh[t] EXCEPT !.heals = FALSE]
            ELSE dnsTh[t]]
    BY DEF Dns!Disturb
<1>2. ASSUME NEW t \in Threads
      PROVE  /\ dnsTh'[t] \in Dns!ThreadType
             /\ \/ dnsTh'[t] = Dns!Idle
                \/ t \notin S /\ dnsTh'[t] = dnsTh[t] /\ dnsTh[t].pc \notin {"write", "signal"}
                \/ /\ t \notin S /\ dnsTh[t].pc \in {"write", "signal"} /\ dnsTh'[t].pc = dnsTh[t].pc
                   /\ dnsTh'[t].heals = FALSE /\ dnsTh'[t].action = dnsTh[t].action
    <2>1. CASE t \in S
        BY <1>1, <2>1, DnsRecords
    <2>2. CASE t \notin S /\ dnsTh[t].pc \in {"write", "signal"}
        <3>1. dnsTh'[t] = [dnsTh[t] EXCEPT !.heals = FALSE]
            BY <1>1, <2>2
        <3>2. dnsTh[t] \in [pc : {"write", "signal"}, heals : BOOLEAN, action : {"none", "reload", "restart"}]
            BY <2>2, DnsThread
        <3>3. /\ dnsTh'[t] \in [pc : {"write", "signal"}, heals : BOOLEAN, action : {"none", "reload", "restart"}]
              /\ dnsTh'[t].pc = dnsTh[t].pc /\ dnsTh'[t].heals = FALSE /\ dnsTh'[t].action = dnsTh[t].action
            BY <3>1, <3>2
        <3>4. dnsTh'[t] \in Dns!ThreadType
            BY <3>3 DEF Dns!ThreadType
        <3> QED
            BY <2>2, <3>3, <3>4
    <2>3. CASE t \notin S /\ dnsTh[t].pc \notin {"write", "signal"}
        BY <1>0, <1>1, <2>3
    <2> QED
        BY <2>1, <2>2, <2>3
<1>3. dnsTh' \in [Threads -> Dns!ThreadType]
    <2>1. \A t \in Threads : dnsTh'[t] \in Dns!ThreadType
        BY <1>2
    <2> QED
        BY <1>1, <2>1
<1> QED
    BY <1>1, <1>2, <1>3

LEMMA DnsTypeStep ==
    ASSUME Dns!TypeOK, [Dns!Next]_(Dns!vars)
    PROVE  Dns!TypeOK'
<1>0. /\ settings \in Dns!Settings /\ records \in Dns!Colls
      /\ dnsFiles \in Dns!Rendered /\ dnsLoaded \in Dns!Rendered
      /\ dnsRunning \in BOOLEAN /\ dirty \in BOOLEAN /\ dnsTh \in [Threads -> Dns!ThreadType]
    BY DEF Dns!TypeOK
<1>1. ASSUME NEW t \in Threads, NEW new \in Dns!ThreadType, dnsTh' = [dnsTh EXCEPT ![t] = new],
             settings' \in Dns!Settings, records' \in Dns!Colls, dnsFiles' \in Dns!Rendered,
             dnsLoaded' \in Dns!Rendered, dnsRunning' \in BOOLEAN, dirty' \in BOOLEAN
      PROVE  Dns!TypeOK'
    BY <1>0, <1>1 DEF Dns!TypeOK
<1>r. /\ Dns!ConfOf(settings, records) \in Dns!Conf /\ Dns!HupOf(settings, records) \in Dns!Hup
      /\ Dns!RenderAll(settings, records).conf = Dns!ConfOf(settings, records)
    BY <1>0, Renders
<1>2. ASSUME NEW t \in Threads, NEW r \in Dns!Request, Dns!Begin(t, r)
      PROVE  Dns!TypeOK'
    <2>1. PICK new \in Dns!ThreadType : dnsTh' = [dnsTh EXCEPT ![t] = new]
        BY <1>2, DnsBegins
    <2>2. UNCHANGED <<settings, records, dnsFiles, dnsLoaded, dnsRunning, dirty>>
        BY <1>2 DEF Dns!Begin, Dns!stores
    <2> QED
        BY <1>0, <1>1, <2>1, <2>2
<1>3. ASSUME NEW t \in Threads, Dns!Probe(t)
      PROVE  Dns!TypeOK'
    <2>1. UNCHANGED <<settings, records, dnsFiles, dnsLoaded, dnsRunning, dirty>> /\ dnsTh[t].pc = "probe"
        BY <1>3 DEF Dns!Probe, Dns!stores
    <2>2. [dnsTh[t] EXCEPT !.pc = "begun"] \in Dns!ThreadType
        BY <2>1, DnsThread DEF Dns!ThreadType
    <2>3. \/ dnsTh' = [dnsTh EXCEPT ![t] = [dnsTh[t] EXCEPT !.pc = "begun"]]
          \/ dnsTh' = [dnsTh EXCEPT ![t] = Dns!Idle]
        BY <1>0, <1>3 DEF Dns!Probe
    <2> QED
        BY <1>0, <1>1, <2>1, <2>2, <2>3, DnsRecords
<1>4. ASSUME NEW t \in Threads, Dns!Mutate(t)
      PROVE  Dns!TypeOK'
    <2>1. dnsTh[t].pc = "begun" /\ UNCHANGED <<dnsFiles, dnsLoaded, dnsRunning, dirty>>
        BY <1>4 DEF Dns!Mutate
    <2>2. dnsTh[t].req \in Dns!Request /\ dnsTh[t].cur \in Dns!Settings
        BY <2>1, DnsThread
    <2>3. settings' \in Dns!Settings /\ records' \in Dns!Colls
        BY <1>4, <2>2, DnsEdits, DnsResettles DEF Dns!Mutate
    <2>4. dnsTh' = [dnsTh EXCEPT ![t] = [pc |-> "test", apply |-> (dnsTh[t].req.kind = "apply"),
                                         snap |-> <<settings, records>>]]
        BY <1>4 DEF Dns!Mutate, Dns!stores
    <2>5. [pc |-> "test", apply |-> (dnsTh[t].req.kind = "apply"), snap |-> <<settings, records>>] \in Dns!ThreadType
        BY <1>0, DnsRecords
    <2> QED
        BY <1>0, <1>1, <2>1, <2>3, <2>4, <2>5
<1>5. ASSUME NEW t \in Threads, Dns!Refused(t)
      PROVE  Dns!TypeOK'
    <2>1. /\ dnsTh[t].pc = "test" /\ UNCHANGED <<dnsFiles, dnsLoaded, dnsRunning, dirty>>
          /\ dnsTh' = [dnsTh EXCEPT ![t] = Dns!Idle]
          /\ settings' = dnsTh[t].snap[1] /\ records' = dnsTh[t].snap[2]
        BY <1>5 DEF Dns!Refused
    <2>2. dnsTh[t].snap \in Dns!Settings \X Dns!Colls
        BY <2>1, DnsThread
    <2> QED
        BY <1>0, <1>1, <2>1, <2>2, DnsRecords
<1>6. ASSUME NEW t \in Threads, Dns!WriteConf(t)
      PROVE  Dns!TypeOK'
    <2>1. /\ dnsTh[t].pc = "test" /\ UNCHANGED <<settings, records, dnsLoaded, dnsRunning, dirty>>
          /\ dnsFiles' = [dnsFiles EXCEPT !.conf = Dns!RenderAll(settings, records).conf]
        BY <1>6 DEF Dns!WriteConf, Dns!stores
    <2>2. dnsFiles' \in Dns!Rendered
        BY <1>0, <1>r, <2>1 DEF Dns!Rendered
    <2>3. dnsTh' = [dnsTh EXCEPT ![t] = [pc |-> "write", heals |-> dnsTh[t].apply,
                     action |-> IF dnsTh[t].apply THEN "restart" ELSE Dns!Diff(Dns!RenderAll(settings, records))]]
        BY <1>6 DEF Dns!WriteConf
    <2>4. /\ dnsTh[t].apply \in BOOLEAN
          /\ Dns!Diff(Dns!RenderAll(settings, records)) \in {"none", "reload", "restart"}
        BY <2>1, DnsThread DEF Dns!Diff
    <2>5. [pc |-> "write", heals |-> dnsTh[t].apply,
           action |-> IF dnsTh[t].apply THEN "restart" ELSE Dns!Diff(Dns!RenderAll(settings, records))]
             \in Dns!ThreadType
        BY <2>4, DnsRecords
    <2> QED
        BY <1>0, <1>1, <2>1, <2>2, <2>3, <2>5
<1>7. ASSUME NEW t \in Threads, Dns!WriteHup(t)
      PROVE  Dns!TypeOK'
    <2>1. /\ dnsTh[t].pc = "write" /\ UNCHANGED <<settings, records, dnsLoaded, dnsRunning, dirty>>
          /\ dnsFiles' = [dnsFiles EXCEPT !.hup = Dns!HupOf(settings, records)]
          /\ dnsTh' = [dnsTh EXCEPT ![t] = [dnsTh[t] EXCEPT !.pc = "signal"]]
        BY <1>0, <1>7 DEF Dns!WriteHup, Dns!stores
    <2>2. dnsFiles' \in Dns!Rendered
        BY <1>0, <1>r, <2>1 DEF Dns!Rendered
    <2>3. [dnsTh[t] EXCEPT !.pc = "signal"] \in Dns!ThreadType
        BY <2>1, DnsThread DEF Dns!ThreadType
    <2> QED
        BY <1>0, <1>1, <2>1, <2>2, <2>3
<1>8. ASSUME NEW S \in SUBSET Threads, Dns!Disturb(S), dnsRunning' \in BOOLEAN,
             UNCHANGED <<settings, records, dnsFiles, dnsLoaded>>
      PROVE  Dns!TypeOK'
    BY <1>0, <1>8, DnsDisturbs DEF Dns!TypeOK
<1>9. ASSUME NEW t \in Threads, Dns!WriteFails(t) \/ Dns!RestartFails(t)
      PROVE  Dns!TypeOK'
    <2>1. /\ Dns!Disturb({t}) /\ dnsRunning' \in BOOLEAN
          /\ UNCHANGED <<settings, records, dnsFiles, dnsLoaded>>
        BY <1>0, <1>9 DEF Dns!WriteFails, Dns!RestartFails, Dns!stores
    <2> QED
        BY <1>8, <2>1
<1>10. CASE Dns!Crash
    <2>1. Dns!Disturb(Threads) /\ UNCHANGED <<settings, records, dnsFiles, dnsLoaded, dnsRunning>>
        BY <1>10 DEF Dns!Crash, Dns!stores
    <2> QED
        BY <1>0, <1>8, <2>1
<1>11. ASSUME NEW t \in Threads, Dns!Signal(t)
       PROVE  Dns!TypeOK'
    <2>1. /\ dnsTh[t].pc = "signal" /\ UNCHANGED <<settings, records, dnsFiles>>
          /\ dnsTh' = [dnsTh EXCEPT ![t] = Dns!Idle]
        BY <1>11 DEF Dns!Signal, Dns!stores
    <2>2. dnsTh[t].heals \in BOOLEAN
        BY <2>1, DnsThread
    <2>3. dnsRunning' \in BOOLEAN /\ dirty' \in BOOLEAN
        BY <1>0, <1>11, <2>2 DEF Dns!Signal
    <2>4. [dnsLoaded EXCEPT !.hup = dnsFiles.hup] \in Dns!Rendered
        BY <1>0 DEF Dns!Rendered
    <2>5. dnsLoaded' \in {dnsLoaded, dnsFiles, [dnsLoaded EXCEPT !.hup = dnsFiles.hup]}
        BY <1>11 DEF Dns!Signal
    <2> QED
        BY <1>0, <1>1, <2>1, <2>3, <2>4, <2>5, DnsRecords
<1>12. CASE UNCHANGED Dns!vars
    BY <1>0, <1>12 DEF Dns!vars, Dns!TypeOK
<1> QED
    BY <1>2, <1>3, <1>4, <1>5, <1>6, <1>7, <1>9, <1>10, <1>11, <1>12 DEF Dns!Next

\* A request moves from one step to the next, the others stay where they are.
LEMMA DnsMoves ==
    ASSUME Dns!TypeOK, NEW t \in Threads, NEW new, dnsTh' = [dnsTh EXCEPT ![t] = new]
    PROVE  dnsTh'[t] = new /\ \A u \in Threads \ {t} : dnsTh'[u] = dnsTh[u]
<1>1. DOMAIN dnsTh = Threads
    BY DEF Dns!TypeOK
<1> QED
    BY <1>1

\* Nobody but the holder of the lock is between the change and the last file.
LEMMA DnsAlone ==
    ASSUME Dns!OneHolder, NEW t \in Threads
    PROVE  /\ Dns!Holds(t) => \A u \in Threads \ {t} : ~Dns!Holds(u)
           /\ storeLock = Absent => \A u \in Threads : ~Dns!Holds(u)
BY AbsentAssumption DEF Dns!OneHolder

\* A request that begins, is refused or goes on to the lock disturbs nothing.
LEMMA DnsQuietStep ==
    ASSUME Dns!IInv, NEW t \in Threads,
           UNCHANGED <<settings, records, dnsFiles, dnsLoaded, dnsRunning, storeLock, dirty>>,
           dnsTh[t].pc \in {"idle", "probe"},
           \A u \in Threads \ {t} : dnsTh'[u] = dnsTh[u],
           \/ dnsTh'[t].pc \in {"idle", "probe", "begun"}
           \/ dnsTh'[t].pc = "signal" /\ dnsTh'[t].heals = FALSE /\ dnsTh'[t].action = "restart"
    PROVE  (Dns!OneHolder /\ Dns!FilesFollow /\ Dns!SignalFollows)'
<1> USE DEF Dns!IInv
<1>1. Dns!OneHolder'
    BY DEF Dns!OneHolder, Dns!Holds
<1>2. Dns!Fresh' => Dns!Fresh
    BY DEF Dns!Fresh
<1>3. Dns!FilesFollow'
    BY <1>2 DEF Dns!FilesFollow, Dns!Holds
<1>4. Dns!SignalFollows'
    BY DEF Dns!SignalFollows
<1> QED
    BY <1>1, <1>3, <1>4

LEMMA DnsMutateStep ==
    ASSUME Dns!IInv, NEW t \in Threads, Dns!Mutate(t)
    PROVE  (Dns!OneHolder /\ Dns!FilesFollow /\ Dns!SignalFollows)'
<1> USE DEF Dns!IInv
<1>1. /\ dnsTh[t].pc = "begun" /\ storeLock = Absent /\ storeLock' = t
      /\ UNCHANGED <<dnsFiles, dnsLoaded, dnsRunning, dirty>>
    BY DEF Dns!Mutate
<1>2. PICK new : dnsTh' = [dnsTh EXCEPT ![t] = new] /\ new.pc = "test" /\ new.snap = <<settings, records>>
    <2> DEFINE next == [pc |-> "test", apply |-> (dnsTh[t].req.kind = "apply"), snap |-> <<settings, records>>]
    <2>1. dnsTh' = [dnsTh EXCEPT ![t] = next]
        BY DEF Dns!Mutate, Dns!stores
    <2>2. next.pc = "test" /\ next.snap = <<settings, records>>
        OBVIOUS
    <2> HIDE DEF next
    <2> QED
        BY <2>1, <2>2
<1>3. dnsTh'[t] = new /\ \A u \in Threads \ {t} : dnsTh'[u] = dnsTh[u]
    BY <1>2, DnsMoves
<1>4. dnsTh'[t].pc = "test" /\ dnsTh'[t].snap[1] = settings /\ dnsTh'[t].snap[2] = records
    BY <1>2, <1>3
<1>5. \A u \in Threads : ~Dns!Holds(u)
    BY <1>1, DnsAlone
<1>6. \A u \in Threads \ {t} : dnsTh'[u].pc \notin {"test", "write"}
    BY <1>3, <1>5 DEF Dns!Holds
<1>7. Dns!OneHolder'
    BY <1>1, <1>6 DEF Dns!OneHolder, Dns!Holds
<1>8. Dns!Fresh' => Dns!Fresh
    BY <1>1, <1>3, <1>4 DEF Dns!Fresh
<1>9. Dns!Fresh => dnsFiles = Dns!RenderAll(settings, records)
    BY <1>5 DEF Dns!FilesFollow
<1>10. Dns!FilesFollow'
    BY <1>1, <1>4, <1>6, <1>8, <1>9 DEF Dns!FilesFollow, Dns!Holds
<1>11. Dns!SignalFollows'
    BY <1>1, <1>3, <1>4 DEF Dns!SignalFollows
<1> QED
    BY <1>7, <1>10, <1>11

LEMMA DnsRefuseStep ==
    ASSUME Dns!IInv, NEW t \in Threads, Dns!Refused(t)
    PROVE  (Dns!OneHolder /\ Dns!FilesFollow /\ Dns!SignalFollows)'
<1> USE DEF Dns!IInv
<1>1. /\ dnsTh[t].pc = "test" /\ settings' = dnsTh[t].snap[1] /\ records' = dnsTh[t].snap[2]
      /\ dnsTh' = [dnsTh EXCEPT ![t] = Dns!Idle]
      /\ UNCHANGED <<dnsFiles, dnsLoaded, dnsRunning, dirty>>
    BY DEF Dns!Refused
<1>2. dnsTh'[t] = Dns!Idle /\ \A u \in Threads \ {t} : dnsTh'[u] = dnsTh[u]
    BY <1>1, DnsMoves
<1>3. dnsTh'[t].pc = "idle"
    BY <1>2 DEF Dns!Idle
<1>4. \A u \in Threads : dnsTh'[u].pc \notin {"test", "write"}
    BY <1>1, <1>2, <1>3, DnsAlone DEF Dns!Holds
<1>5. Dns!OneHolder'
    BY <1>4 DEF Dns!OneHolder, Dns!Holds
<1>6. Dns!Fresh' => Dns!Fresh
    BY <1>1, <1>2, <1>3 DEF Dns!Fresh
<1>7. Dns!Fresh => dnsFiles = Dns!RenderAll(dnsTh[t].snap[1], dnsTh[t].snap[2])
    BY <1>1 DEF Dns!FilesFollow
<1>8. Dns!Fresh => dnsFiles' = Dns!RenderAll(settings', records')
    BY <1>1, <1>7
<1>9. Dns!FilesFollow'
    BY <1>4, <1>6, <1>8 DEF Dns!FilesFollow
<1>10. Dns!SignalFollows'
    BY <1>1, <1>2, <1>3 DEF Dns!SignalFollows
<1> QED
    BY <1>5, <1>9, <1>10

LEMMA DnsConfStep ==
    ASSUME Dns!IInv, NEW t \in Threads, Dns!WriteConf(t)
    PROVE  (Dns!OneHolder /\ Dns!FilesFollow /\ Dns!SignalFollows)'
<1> USE DEF Dns!IInv
<1>0. settings \in Dns!Settings /\ records \in Dns!Colls /\ dnsFiles \in Dns!Rendered
    BY DEF Dns!TypeOK
<1>r. Dns!RenderAll(settings, records) = [conf |-> Dns!ConfOf(settings, records), hup |-> Dns!HupOf(settings, records)]
    BY <1>0, Renders
<1>1. /\ dnsTh[t].pc = "test" /\ UNCHANGED <<settings, records, dnsLoaded, dnsRunning, storeLock, dirty>>
      /\ dnsFiles' = [dnsFiles EXCEPT !.conf = Dns!RenderAll(settings, records).conf]
    BY DEF Dns!WriteConf, Dns!stores
<1>2. dnsFiles'.conf = Dns!ConfOf(settings, records) /\ dnsFiles'.hup = dnsFiles.hup
    BY <1>0, <1>1, <1>r DEF Dns!Rendered
<1>3. PICK new : /\ dnsTh' = [dnsTh EXCEPT ![t] = new]
                 /\ new.pc = "write" /\ new.heals = dnsTh[t].apply
                 /\ new.action = IF dnsTh[t].apply THEN "restart"
                                 ELSE Dns!Diff(Dns!RenderAll(settings, records))
    <2> DEFINE action == IF dnsTh[t].apply THEN "restart" ELSE Dns!Diff(Dns!RenderAll(settings, records))
               next == [pc |-> "write", heals |-> dnsTh[t].apply, action |-> action]
    <2>1. dnsTh' = [dnsTh EXCEPT ![t] = next]
        BY DEF Dns!WriteConf
    <2>2. next.pc = "write" /\ next.heals = dnsTh[t].apply /\ next.action = action
        OBVIOUS
    <2> HIDE DEF next
    <2> QED
        BY <2>1, <2>2
<1>4. dnsTh'[t] = new /\ \A u \in Threads \ {t} : dnsTh'[u] = dnsTh[u]
    BY <1>3, DnsMoves
<1>5. dnsTh'[t].pc = "write" /\ (dnsTh'[t].heals => dnsTh'[t].action = "restart")
    BY <1>3, <1>4
<1>6. /\ dnsFiles.conf # Dns!ConfOf(settings, records) => dnsTh'[t].action = "restart"
      /\ dnsFiles.hup # Dns!HupOf(settings, records) => dnsTh'[t].action \in {"reload", "restart"}
    BY <1>3, <1>4, <1>r DEF Dns!Diff
<1>7. \A u \in Threads \ {t} : dnsTh'[u].pc \notin {"test", "write"}
    BY <1>1, <1>4, DnsAlone DEF Dns!Holds
<1>8. Dns!OneHolder'
    BY <1>1, <1>7 DEF Dns!OneHolder, Dns!Holds
<1>9. Dns!FilesFollow'
    BY <1>1, <1>2, <1>5, <1>6, <1>7 DEF Dns!FilesFollow, Dns!Holds
<1>10. Dns!SignalFollows'
    <2>1. \A u \in Threads : dnsTh'[u].pc \in {"write", "signal"} /\ dnsTh'[u].heals => dnsTh'[u].action = "restart"
        BY <1>4, <1>5 DEF Dns!SignalFollows
    <2>2. ~dirty => \/ dnsLoaded.conf = dnsFiles'.conf
                    \/ \E u \in Threads : dnsTh'[u].pc \in {"write", "signal"} /\ dnsTh'[u].action = "restart"
        BY <1>1, <1>2, <1>4, <1>5, <1>6 DEF Dns!SignalFollows
    <2>3. ~dirty => \/ dnsLoaded.hup = dnsFiles'.hup
                    \/ \E u \in Threads : dnsTh'[u].pc = "signal" /\ dnsTh'[u].action \in {"reload", "restart"}
        BY <1>1, <1>2, <1>4 DEF Dns!SignalFollows
    <2> QED
        BY <1>1, <2>1, <2>2, <2>3 DEF Dns!SignalFollows
<1> QED
    BY <1>8, <1>9, <1>10

LEMMA DnsHupStep ==
    ASSUME Dns!IInv, NEW t \in Threads, Dns!WriteHup(t)
    PROVE  (Dns!OneHolder /\ Dns!FilesFollow /\ Dns!SignalFollows)'
<1> USE DEF Dns!IInv
<1>0. settings \in Dns!Settings /\ records \in Dns!Colls /\ dnsFiles \in Dns!Rendered
    BY DEF Dns!TypeOK
<1>1. /\ dnsTh[t].pc = "write" /\ UNCHANGED <<settings, records, dnsLoaded, dnsRunning, dirty>>
      /\ dnsFiles' = [dnsFiles EXCEPT !.hup = Dns!HupOf(settings, records)]
      /\ dnsTh' = [dnsTh EXCEPT ![t].pc = "signal"]
    BY DEF Dns!WriteHup, Dns!stores
<1>2. /\ dnsFiles'.conf = dnsFiles.conf /\ dnsFiles'.hup = Dns!HupOf(settings, records)
      /\ dnsFiles' = [conf |-> dnsFiles.conf, hup |-> Dns!HupOf(settings, records)]
    BY <1>0, <1>1 DEF Dns!Rendered
<1>3. PICK new : /\ dnsTh' = [dnsTh EXCEPT ![t] = new]
                 /\ new.pc = "signal" /\ new.heals = dnsTh[t].heals /\ new.action = dnsTh[t].action
    <2>1. dnsTh[t] \in [pc : {"write", "signal"}, heals : BOOLEAN, action : {"none", "reload", "restart"}]
        BY <1>1, DnsThread
    <2> DEFINE next == [dnsTh[t] EXCEPT !.pc = "signal"]
    <2>2. dnsTh' = [dnsTh EXCEPT ![t] = next]
        BY <1>1 DEF Dns!TypeOK
    <2>3. next.pc = "signal" /\ next.heals = dnsTh[t].heals /\ next.action = dnsTh[t].action
        BY <2>1
    <2> HIDE DEF next
    <2> QED
        BY <2>2, <2>3
<1>4. dnsTh'[t] = new /\ \A u \in Threads \ {t} : dnsTh'[u] = dnsTh[u]
    BY <1>3, DnsMoves
<1>5. dnsTh'[t].pc = "signal" /\ dnsTh'[t].heals = dnsTh[t].heals /\ dnsTh'[t].action = dnsTh[t].action
    BY <1>3, <1>4
<1>6. \A u \in Threads : dnsTh'[u].pc \notin {"test", "write"}
    BY <1>1, <1>4, <1>5, DnsAlone DEF Dns!Holds
<1>7. Dns!OneHolder'
    BY <1>6 DEF Dns!OneHolder, Dns!Holds
<1>8. /\ dnsFiles.conf = Dns!ConfOf(settings, records)
      /\ dnsFiles.hup # Dns!HupOf(settings, records) => dnsTh[t].action \in {"reload", "restart"}
    BY <1>1 DEF Dns!FilesFollow
<1>9. dnsFiles' = Dns!RenderAll(settings', records')
    BY <1>1, <1>2, <1>8 DEF Dns!RenderAll
<1>10. Dns!FilesFollow'
    BY <1>6, <1>9 DEF Dns!FilesFollow
<1>11. Dns!SignalFollows'
    <2>1. \A u \in Threads : dnsTh'[u].pc \in {"write", "signal"} /\ dnsTh'[u].heals => dnsTh'[u].action = "restart"
        BY <1>1, <1>4, <1>5 DEF Dns!SignalFollows
    <2>2. ~dirty => \/ dnsLoaded.conf = dnsFiles'.conf
                    \/ \E u \in Threads : dnsTh'[u].pc \in {"write", "signal"} /\ dnsTh'[u].action = "restart"
        BY <1>1, <1>2, <1>4, <1>5 DEF Dns!SignalFollows
    <2>3. ~dirty => \/ dnsLoaded.hup = dnsFiles'.hup
                    \/ \E u \in Threads : dnsTh'[u].pc = "signal" /\ dnsTh'[u].action \in {"reload", "restart"}
        BY <1>1, <1>2, <1>4, <1>5, <1>8 DEF Dns!SignalFollows
    <2> QED
        BY <1>1, <2>1, <2>2, <2>3 DEF Dns!SignalFollows
<1> QED
    BY <1>7, <1>10, <1>11

LEMMA DnsSignalStep ==
    ASSUME Dns!IInv, NEW t \in Threads, Dns!Signal(t)
    PROVE  (Dns!OneHolder /\ Dns!FilesFollow /\ Dns!SignalFollows)'
<1> USE DEF Dns!IInv
<1>1. /\ dnsTh[t].pc = "signal" /\ UNCHANGED <<settings, records, dnsFiles, storeLock>>
      /\ dnsTh' = [dnsTh EXCEPT ![t] = Dns!Idle]
    BY DEF Dns!Signal, Dns!stores
<1>2. dnsTh'[t] = Dns!Idle /\ \A u \in Threads \ {t} : dnsTh'[u] = dnsTh[u]
    BY <1>1, DnsMoves
<1>3. dnsTh'[t].pc = "idle"
    BY <1>2 DEF Dns!Idle
<1>4. \A u \in Threads : /\ dnsTh'[u].pc = "test" <=> dnsTh[u].pc = "test"
                         /\ dnsTh'[u].pc = "write" <=> dnsTh[u].pc = "write"
                         /\ dnsTh[u].pc \in {"test", "write"} => dnsTh'[u] = dnsTh[u]
    BY <1>1, <1>2, <1>3
<1>5. Dns!OneHolder'
    BY <1>1, <1>4 DEF Dns!OneHolder, Dns!Holds
<1>6. Dns!Fresh' => Dns!Fresh
    <2>1. ~dirty' => ~dirty \/ dnsTh[t].heals
        BY DEF Dns!Signal
    <2> QED
        BY <1>1, <1>2, <1>3, <2>1 DEF Dns!Fresh
<1>7. Dns!FilesFollow'
    BY <1>1, <1>4, <1>6 DEF Dns!FilesFollow, Dns!Holds
<1>8. \A u \in Threads : dnsTh'[u].pc \in {"write", "signal"} /\ dnsTh'[u].heals => dnsTh'[u].action = "restart"
    BY <1>2, <1>3 DEF Dns!SignalFollows
<1>9. CASE dnsTh[t].action = "restart"
    <2>1. dnsLoaded' = dnsFiles /\ dnsRunning' = TRUE
        BY <1>9 DEF Dns!Signal
    <2> QED
        BY <1>1, <1>5, <1>7, <1>8, <2>1 DEF Dns!SignalFollows
<1>10. CASE dnsTh[t].action # "restart"
    <2>1. /\ dnsLoaded' = IF dnsTh[t].action = "reload" /\ dnsRunning
                          THEN [dnsLoaded EXCEPT !.hup = dnsFiles.hup] ELSE dnsLoaded
          /\ UNCHANGED <<dnsRunning, dirty>>
        BY <1>10 DEF Dns!Signal
    <2>2. /\ dnsLoaded'.conf = dnsLoaded.conf
          /\ dnsLoaded'.hup = IF dnsTh[t].action = "reload" /\ dnsRunning THEN dnsFiles.hup ELSE dnsLoaded.hup
        <3>1. dnsLoaded \in Dns!Rendered
            BY DEF Dns!TypeOK
        <3> QED
            BY <2>1, <3>1 DEF Dns!Rendered
    <2>3. ~dirty => \/ dnsLoaded'.conf = dnsFiles.conf
                    \/ \E u \in Threads : dnsTh'[u].pc \in {"write", "signal"} /\ dnsTh'[u].action = "restart"
        BY <1>2, <1>10, <2>2 DEF Dns!SignalFollows
    <2>4. ~dirty => \/ dnsLoaded'.hup = dnsFiles.hup
                    \/ \E u \in Threads : dnsTh'[u].pc = "signal" /\ dnsTh'[u].action \in {"reload", "restart"}
        BY <1>2, <1>10, <2>2 DEF Dns!SignalFollows
    <2>5. ~dirty => dnsRunning
        BY DEF Dns!SignalFollows
    <2>6. Dns!SignalFollows'
        BY <1>1, <1>8, <2>1, <2>3, <2>4, <2>5 DEF Dns!SignalFollows
    <2> QED
        BY <1>5, <1>7, <2>6
<1> QED
    BY <1>9, <1>10

\* A failure leaves nobody who heals, and of the holders only those it did not stop.
LEMMA DnsFailStep ==
    ASSUME Dns!IInv, NEW S \in SUBSET Threads, Dns!Disturb(S),
           UNCHANGED <<settings, records, dnsFiles, dnsLoaded>>,
           storeLock' = storeLock \/ \A u \in Threads : Dns!Holds(u) => u \in S
    PROVE  (Dns!OneHolder /\ Dns!FilesFollow /\ Dns!SignalFollows)'
<1> USE DEF Dns!IInv
<1>1. dirty' = TRUE
    BY DnsDisturbs
<1>2. \A u \in Threads :
         \/ dnsTh'[u].pc = "idle"
         \/ u \notin S /\ dnsTh'[u] = dnsTh[u] /\ dnsTh[u].pc \notin {"write", "signal"}
         \/ /\ u \notin S /\ dnsTh[u].pc \in {"write", "signal"} /\ dnsTh'[u].pc = dnsTh[u].pc
            /\ dnsTh'[u].heals = FALSE /\ dnsTh'[u].action = dnsTh[u].action
    <2>1. \A u \in Threads :
             \/ dnsTh'[u] = Dns!Idle
             \/ u \notin S /\ dnsTh'[u] = dnsTh[u] /\ dnsTh[u].pc \notin {"write", "signal"}
             \/ /\ u \notin S /\ dnsTh[u].pc \in {"write", "signal"} /\ dnsTh'[u].pc = dnsTh[u].pc
                /\ dnsTh'[u].heals = FALSE /\ dnsTh'[u].action = dnsTh[u].action
        BY DnsDisturbs
    <2>2. Dns!Idle.pc = "idle"
        BY DEF Dns!Idle
    <2> QED
        BY <2>1, <2>2
<1>3. Dns!OneHolder'
    BY <1>2 DEF Dns!OneHolder, Dns!Holds
<1>4. \A u \in Threads : dnsTh'[u].pc \in {"write", "signal"} => dnsTh'[u].heals = FALSE
    BY <1>2
<1>5. ~Dns!Fresh'
    BY <1>1, <1>4 DEF Dns!Fresh
<1>6. \A u \in Threads : dnsTh'[u].pc = "write" => dnsTh[u].pc = "write" /\ dnsTh'[u].action = dnsTh[u].action
    BY <1>2
<1>7. Dns!FilesFollow'
    BY <1>5, <1>6 DEF Dns!FilesFollow
<1>8. Dns!SignalFollows'
    BY <1>1, <1>4 DEF Dns!SignalFollows
<1> QED
    BY <1>3, <1>7, <1>8

LEMMA DnsStep ==
    ASSUME Dns!IInv, [Dns!Next]_(Dns!vars)
    PROVE  Dns!IInv'
<1> DEFINE Parts == Dns!OneHolder /\ Dns!FilesFollow /\ Dns!SignalFollows
<1>0. Dns!TypeOK /\ Dns!TypeOK'
    BY DnsTypeStep DEF Dns!IInv
<1>1. ASSUME NEW t \in Threads, NEW r \in Dns!Request, Dns!Begin(t, r)
      PROVE  Parts'
    <2>1. PICK new \in Dns!ThreadType :
              /\ dnsTh' = [dnsTh EXCEPT ![t] = new]
              /\ \/ new.pc \in {"probe", "begun"}
                 \/ new.pc = "signal" /\ new.heals = FALSE /\ new.action = "restart"
        BY <1>0, <1>1, DnsBegins
    <2>2. /\ UNCHANGED <<settings, records, dnsFiles, dnsLoaded, dnsRunning, storeLock, dirty>>
          /\ dnsTh[t].pc = "idle"
        BY <1>1 DEF Dns!Begin, Dns!stores
    <2>3. dnsTh'[t] = new /\ \A u \in Threads \ {t} : dnsTh'[u] = dnsTh[u]
        BY <1>0, <2>1, DnsMoves
    <2> QED
        BY <2>1, <2>2, <2>3, DnsQuietStep
<1>2. ASSUME NEW t \in Threads, Dns!Probe(t)
      PROVE  Parts'
    <2>1. /\ UNCHANGED <<settings, records, dnsFiles, dnsLoaded, dnsRunning, storeLock, dirty>>
          /\ dnsTh[t].pc = "probe"
        BY <1>2 DEF Dns!Probe, Dns!stores
    <2>2. PICK new : dnsTh' = [dnsTh EXCEPT ![t] = new] /\ new.pc \in {"idle", "begun"}
        <3>1. [dnsTh[t] EXCEPT !.pc = "begun"].pc = "begun" /\ Dns!Idle.pc = "idle"
            BY <1>0, <2>1, DnsThread DEF Dns!Idle
        <3>2. \/ dnsTh' = [dnsTh EXCEPT ![t] = [dnsTh[t] EXCEPT !.pc = "begun"]]
              \/ dnsTh' = [dnsTh EXCEPT ![t] = Dns!Idle]
            BY <1>0, <1>2 DEF Dns!Probe, Dns!TypeOK
        <3> QED
            BY <3>1, <3>2, Zenon
    <2>3. dnsTh'[t] = new /\ \A u \in Threads \ {t} : dnsTh'[u] = dnsTh[u]
        BY <1>0, <2>2, DnsMoves
    <2> QED
        BY <2>1, <2>2, <2>3, DnsQuietStep
<1>3. ASSUME NEW t \in Threads,
             \/ Dns!Mutate(t) \/ Dns!Refused(t) \/ Dns!WriteConf(t) \/ Dns!WriteHup(t) \/ Dns!Signal(t)
      PROVE  Parts'
    BY <1>3, DnsMutateStep, DnsRefuseStep, DnsConfStep, DnsHupStep, DnsSignalStep
<1>4. ASSUME NEW t \in Threads, Dns!WriteFails(t)
      PROVE  Parts'
    <2>1. /\ Dns!Disturb({t}) /\ dnsTh[t].pc = "write"
          /\ UNCHANGED <<settings, records, dnsFiles, dnsLoaded>>
        BY <1>4 DEF Dns!WriteFails, Dns!stores
    <2>2. \A u \in Threads : Dns!Holds(u) => u \in {t}
        BY <2>1, DnsAlone DEF Dns!IInv, Dns!Holds
    <2> QED
        BY <2>1, <2>2, DnsFailStep
<1>5. ASSUME NEW t \in Threads, Dns!RestartFails(t)
      PROVE  Parts'
    <2>1. /\ Dns!Disturb({t}) /\ storeLock' = storeLock
          /\ UNCHANGED <<settings, records, dnsFiles, dnsLoaded>>
        BY <1>5 DEF Dns!RestartFails, Dns!stores
    <2> QED
        BY <2>1, DnsFailStep
<1>6. ASSUME Dns!Crash
      PROVE  Parts'
    <2>1. Dns!Disturb(Threads) /\ UNCHANGED <<settings, records, dnsFiles, dnsLoaded>>
        BY <1>6 DEF Dns!Crash, Dns!stores
    <2> QED
        BY <2>1, DnsFailStep
<1>7. ASSUME UNCHANGED Dns!vars
      PROVE  Parts'
    <2>1. UNCHANGED <<settings, records, dnsFiles, dnsLoaded, dnsRunning, storeLock, dnsTh, dirty>>
        BY <1>7 DEF Dns!vars
    <2>2. Dns!OneHolder'
        BY <2>1 DEF Dns!IInv, Dns!OneHolder, Dns!Holds
    <2>3. Dns!FilesFollow'
        BY <2>1 DEF Dns!IInv, Dns!FilesFollow, Dns!Holds, Dns!Fresh
    <2>4. Dns!SignalFollows'
        BY <2>1 DEF Dns!IInv, Dns!SignalFollows
    <2> QED
        BY <2>2, <2>3, <2>4
<1> HIDE DEF Parts
<1>8. Parts'
    BY <1>1, <1>2, <1>3, <1>4, <1>5, <1>6, <1>7 DEF Dns!Next
<1> QED
    BY <1>0, <1>8 DEF Dns!IInv, Parts

LEMMA DnsInvariant == Spec => [](which = "Dns" => Dns!IInv)
<1>1. Init => (which = "Dns" => Dns!IInv)
    BY DnsInit DEF Init
<1>2. (which = "Dns" => Dns!IInv) /\ [Next]_vars => (which = "Dns" => Dns!IInv)'
    <2> SUFFICES ASSUME which = "Dns" => Dns!IInv, [Next]_vars, which' = "Dns"
                 PROVE  Dns!IInv'
        OBVIOUS
    <2>1. which = "Dns" /\ [Dns!Next]_(Dns!vars)
        BY ComponentStep
    <2> QED
        BY <2>1, DnsStep
<1> QED
    BY <1>1, <1>2, PTL DEF Spec

\* At rest, unless something failed that no complete apply has made good, dnsmasq
\* runs with what the stores say: the decision between a reload and a restart,
\* taken from the files under the lock, is carried out after it was released,
\* among the writes and signals of others (apply_change, diff_render).
THEOREM DnsmasqFollows == Spec => []ServiceFollows
<1>1. ASSUME Dns!IInv
      PROVE  Dns!ServiceFollows
    <2> SUFFICES ASSUME Dns!AtRest, ~dirty
                 PROVE  dnsRunning /\ dnsLoaded = dnsFiles /\ dnsFiles = Dns!RenderAll(settings, records)
        BY DEF Dns!ServiceFollows
    <2>1. \A t \in Threads : dnsTh[t].pc = "idle"
        BY DEF Dns!AtRest, Dns!Idle
    <2>2. dnsFiles = Dns!RenderAll(settings, records)
        BY <1>1, <2>1 DEF Dns!IInv, Dns!FilesFollow, Dns!Fresh, Dns!Holds
    <2>3. dnsRunning /\ dnsLoaded.conf = dnsFiles.conf /\ dnsLoaded.hup = dnsFiles.hup
        BY <1>1, <2>1 DEF Dns!IInv, Dns!SignalFollows
    <2>4. dnsLoaded \in Dns!Rendered /\ dnsFiles \in Dns!Rendered
        BY <1>1 DEF Dns!IInv, Dns!TypeOK
    <2>5. dnsLoaded = dnsFiles
        BY <2>3, <2>4 DEF Dns!Rendered
    <2> QED
        BY <2>2, <2>3, <2>5
<1>2. (which = "Dns" => Dns!IInv) => ServiceFollows
    BY <1>1 DEF ServiceFollows
<1> QED
    BY <1>2, DnsInvariant, PTL

=============================================================================
