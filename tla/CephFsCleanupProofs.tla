------------------------ MODULE CephFsCleanupProofs ------------------------
(***************************************************************************)
(* Proofs about CephFsCleanup, for any volumes, snapshots, exports and     *)
(* prefixes: its types, that what was settled survives every command, that *)
(* a deletion without a failed call leaves nothing in the journal, and     *)
(* that one that was cut off is not completed.                             *)
(***************************************************************************)
EXTENDS CephFsCleanup, TLAPS

USE DEF setup, Recognised, NamesItsUuid

\* The history variable does what it is for: who is not in it was finished in time.
Unsettled == pc # "idle" => \A x \in Things : stage[x] # "done" => x \in unsettled

\* What the process works on exists, or did.
Target ==
  /\ pc \in VolumeSteps \/ (pc = "listPV" /\ cmd = "subvolume delete") =>
       vol \in Vols /\ stage[vol] # "new"
  /\ pc \in SnapSteps \/ (pc = "listContent" /\ cmd = "cephfs-snap delete") =>
       snap \in Snaps /\ stage[snap] # "new"
  /\ pc = "listPV" => cmd # "cephfs-snap delete"
  /\ \A s \in todoSnaps : stage[s] # "new"

\* The references that were read still tell what may be deleted, although they are old:
\* Kubernetes comes to refer only to what the CSI driver was at work on.
Listed ==
  pc \in {"listVolumes", "nextVolume", "listSnaps", "nextSnap"} \cup SnapSteps =>
    \A s \in Snaps \ refs : content[s] = "bound" /\ Recognised(s) => s \in unsettled

VolDeletion ==
  pc \in VolumeSteps =>
    vol \in hasty \/ (stage[vol] = "done" /\ (Recognised(vol) => vol \notin pv))

\* A snapshot with a prefix of its own may be at its first step by mistake, and gets
\* no further.
SnapDeletion ==
  /\ pc \in SnapSteps /\ NamesItsUuid(snap) =>
       snap \in hasty \/ (stage[snap] = "done" /\ (Recognised(snap) => content[snap] # "bound"))
  /\ pc \in SnapSteps \ {"snapKey"} => NamesItsUuid(snap)

\* What the CSI driver has made and not yet reported is whole.
CreatedWhole ==
  /\ \A v \in Vols \ hasty : stage[v] = "busy" =>
       sub[v] \in {"pending", "ready"} /\ v \in object /\ v \in key
  /\ \A s \in Snaps \ hasty : stage[s] = "busy" => SnapIntact(s)

NewHasNothing ==
  \A x \in Things : stage[x] = "new" =>
    /\ x \notin object \cup key \cup exports \cup snaps
    /\ x \in Vols => sub[x] = "none"

\* The omap key is found through the object, so the object is not the last to go.
KeyNeedsObject ==
  \A x \in Things \ (faulted \cup custom) : x \notin object =>
    /\ x \notin exports
    /\ x \in key => \/ pc = "volOmapKey" /\ x = vol
                    \/ pc = "snapOmapKey" /\ x = snap

\* How far a deletion is, unless a call of it failed.
Progress ==
  /\ pc \in {"nfsExport", "volObject"} /\ vol \notin faulted \cup custom /\ vol \in object => omapkey
  /\ pc = "volObject" /\ vol \notin faulted \cup custom => vol \notin exports
  /\ pc \in {"volOmapKey", "volRemove"} => vol \notin object \/ vol \in faulted
  /\ pc \in {"snapOmapKey", "snapRemove"} => snap \notin object \/ snap \in faulted

ProcessInv ==
  TypeOK /\ NewHasNothing /\ Unsettled /\ Target /\ Listed /\ VolDeletion /\ SnapDeletion

SettledInv == ProcessInv /\ CreatedWhole /\ SettledThingsSurvive

CleanInv == ProcessInv /\ KeyNeedsObject /\ Progress /\ NothingLeftBehind

-----------------------------------------------------------------------------
(* Types. *)

LEMMA InitTypeOK == Init => TypeOK
<1> SUFFICES ASSUME Init PROVE TypeOK
  OBVIOUS
<1>1. nfs \subseteq Vols /\ odd \subseteq Things /\ custom \subseteq Things
  BY ThingsAssumption DEF Init
<1> QED
  BY <1>1, ThingsAssumption DEF Init, TypeOK, Commands, VolumeSteps, SnapSteps

LEMMA ReadTypeOK ==
  ASSUME TypeOK, (\E c \in Commands : Begin(c)) \/ ListPV \/ ListContent \/ ListVolumes
                 \/ NextVolume \/ ListSnaps \/ NextSnap \/ Die, Target
  PROVE  TypeOK'
<1>1. ASSUME NEW c \in Commands, Begin(c) PROVE TypeOK'
  BY <1>1 DEF TypeOK, Begin, ceph, kube, Things, Commands
<1>2. CASE ListPV
  BY <1>2 DEF TypeOK, ListPV, End, Goto, BeginDeletion, ceph, kube, history, Things, VolumeSteps
<1>3. CASE ListContent
  BY <1>3 DEF TypeOK, ListContent, Goto, ceph, kube, history, Things, Target
<1>4. CASE ListVolumes
  BY <1>4 DEF TypeOK, ListVolumes, Goto, ceph, kube, history
<1>5. CASE NextVolume
  BY <1>5 DEF TypeOK, NextVolume, End, Goto, ceph, kube, history
<1>6. CASE ListSnaps
  BY <1>6 DEF TypeOK, ListSnaps, Goto, ceph, kube, history, SnapsOf
<1>7. CASE NextSnap
  BY <1>7 DEF TypeOK, NextSnap, End, Goto, BeginDeletion, ceph, kube, history, SnapSteps, Things
<1>8. CASE Die
  <2>1. (IF pc \in VolumeSteps THEN {vol} ELSE {}) \subseteq Things
    BY DEF Target, Things
  <2>2. (IF pc \in SnapSteps THEN {snap} ELSE {}) \subseteq Things
    BY DEF Target, Things
  <2> QED
    BY <1>8, <2>1, <2>2 DEF TypeOK, Die, End, ceph, kube
<1> QED
  BY <1>1, <1>2, <1>3, <1>4, <1>5, <1>6, <1>7, <1>8

LEMMA DeleteTypeOK ==
  ASSUME TypeOK, Target,
         SnapKey \/ SnapObject \/ SnapOmapKey \/ SnapRemove
         \/ VolKey \/ NfsExport \/ VolObject \/ VolOmapKey \/ VolRemove
  PROVE  TypeOK'
<1>1. CASE SnapKey \/ SnapObject \/ SnapOmapKey
  <2>1. snap \in Things
    BY <1>1 DEF Target, SnapKey, SnapObject, SnapOmapKey, Then, SnapSteps, Things
  <2> QED
    BY <1>1, <2>1 DEF TypeOK, SnapKey, SnapObject, SnapOmapKey, Then, Goto, OrWarn, ceph, kube,
                      SnapSteps
<1>2. CASE SnapRemove
  BY <1>2 DEF TypeOK, SnapRemove, Then, Goto, kube
<1>3. CASE VolKey \/ NfsExport \/ VolObject \/ VolOmapKey
  <2>1. vol \in Things
    BY <1>3 DEF Target, VolKey, NfsExport, VolObject, VolOmapKey, Then, VolumeSteps, Things
  <2> QED
    BY <1>3, <2>1 DEF TypeOK, VolKey, NfsExport, VolObject, VolOmapKey, Then, Goto, OrWarn, ceph,
                      kube, VolumeSteps, FindsObject, NamesItsUuid
<1>4. CASE VolRemove
  BY <1>4 DEF TypeOK, VolRemove, End, kube, history
<1> QED
  BY <1>1, <1>2, <1>3, <1>4

LEMMA EnvironmentTypeOK ==
  ASSUME TypeOK, Environment
  PROVE  TypeOK'
<1>1. ASSUME NEW v \in Vols, CreateVolume(v) PROVE TypeOK'
  BY <1>1 DEF TypeOK, CreateVolume, process, history, Things
<1>2. ASSUME NEW v \in Vols, CloneEnds(v) \/ CreatePV(v) \/ DropPV(v) PROVE TypeOK'
  BY <1>2 DEF TypeOK, CloneEnds, CreatePV, DropPV, ceph, kube, process, history, Things
<1>3. ASSUME NEW s \in Snaps, RequestSnapshot(s) \/ CutSnapshot(s) PROVE TypeOK'
  BY <1>3 DEF TypeOK, RequestSnapshot, CutSnapshot, ceph, process, history, Things
<1>4. ASSUME NEW s \in Snaps, BindSnapshot(s) \/ DropContent(s) PROVE TypeOK'
  BY <1>4 DEF TypeOK, BindSnapshot, DropContent, ceph, process, history, Things
<1> QED
  BY <1>1, <1>2, <1>3, <1>4 DEF Environment

LEMMA StepTypeOK == ASSUME TypeOK, Target, [Next]_vars PROVE TypeOK'
<1>1. CASE UNCHANGED vars
  BY <1>1 DEF TypeOK, vars, ceph, kube, process, history
<1> QED
  BY <1>1, ReadTypeOK, DeleteTypeOK, EnvironmentTypeOK DEF Next, Step

-----------------------------------------------------------------------------
(* What the process knows. *)

Calls == SnapKey \/ SnapObject \/ SnapOmapKey \/ SnapRemove
         \/ VolKey \/ NfsExport \/ VolObject \/ VolOmapKey \/ VolRemove

Reads == ListContent \/ ListVolumes \/ NextVolume \/ ListSnaps

\* Only the CSI driver takes things from one stage to the next, and never back.
LEMMA StagesAdvance ==
  ASSUME TypeOK, Environment, NEW x \in Things
  PROVE  /\ UNCHANGED <<process, history>>
         /\ stage'[x] = "new" => stage[x] = "new"
         /\ stage[x] = "done" => stage'[x] = "done"
         /\ stage[x] # "new" => stage'[x] # "new"
<1>1. ASSUME NEW v \in Vols, CreateVolume(v) \/ CreatePV(v)
      PROVE  UNCHANGED <<process, history>> /\ stage[v] # "done" /\ \E t \in {"busy", "done"} :
               stage' = [stage EXCEPT ![v] = t] /\ (t = "done" => stage[v] = "busy")
  BY <1>1 DEF CreateVolume, CreatePV
<1>2. ASSUME NEW s \in Snaps, CutSnapshot(s) \/ BindSnapshot(s)
      PROVE  UNCHANGED <<process, history>> /\ stage[s] # "done" /\ \E t \in {"busy", "done"} :
               stage' = [stage EXCEPT ![s] = t] /\ (t = "done" => stage[s] = "busy")
  BY <1>2 DEF CutSnapshot, BindSnapshot
<1>3. ASSUME NEW v \in Vols, CloneEnds(v) \/ DropPV(v)
      PROVE  UNCHANGED <<process, history, stage>>
  BY <1>3 DEF CloneEnds, DropPV, kube
<1>4. ASSUME NEW s \in Snaps, RequestSnapshot(s) \/ DropContent(s)
      PROVE  UNCHANGED <<process, history, stage>>
  BY <1>4 DEF RequestSnapshot, DropContent
<1> QED
  BY <1>1, <1>2, <1>3, <1>4 DEF TypeOK, Environment, Things

LEMMA CallsKeep ==
  ASSUME Calls
  PROVE  /\ UNCHANGED <<pv, content, stage, nfs, odd, custom, unsettled, hasty>>
         /\ pc \in VolumeSteps \cup SnapSteps
         /\ \/ UNCHANGED <<refs, todoSnaps, vol, snap, cmd>>
            \/ pc' = "idle" /\ todoSnaps' = {}
BY DEF Calls, SnapKey, SnapObject, SnapOmapKey, SnapRemove, VolKey, NfsExport, VolObject,
       VolOmapKey, VolRemove, Then, Goto, End, kube, history, VolumeSteps, SnapSteps

\* A call of a deletion leads to another one of the same, or out of it.
LEMMA CallsLead ==
  ASSUME Calls
  PROVE  \/ pc \in VolumeSteps /\ pc' \in VolumeSteps
         \/ pc \in SnapSteps /\ pc' \in SnapSteps \ {"snapKey"} /\ (pc = "snapKey" => NamesItsUuid(snap))
         \/ pc' = "idle" /\ todoSnaps' = {}
         \/ pc \in SnapSteps /\ pc' = "nextSnap"
BY DEF Calls, SnapKey, SnapObject, SnapOmapKey, SnapRemove, VolKey, NfsExport, VolObject,
       VolOmapKey, VolRemove, Then, Goto, End, FindsObject, VolumeSteps, SnapSteps

\* The storage classes stay as they are set up.
LEMMA SetupStays == ASSUME [Next]_vars PROVE UNCHANGED setup
<1>1. CASE UNCHANGED vars
  BY <1>1 DEF vars, kube
<1>2. CASE Calls
  BY <1>2, CallsKeep
<1>3. CASE (\E c \in Commands : Begin(c)) \/ ListPV \/ Reads \/ NextSnap \/ Die
  BY <1>3 DEF Begin, ListPV, Reads, ListContent, ListVolumes, NextVolume, ListSnaps, NextSnap, Die,
              kube
<1>4. CASE Environment
  BY <1>4 DEF Environment, CreateVolume, CloneEnds, CreatePV, DropPV, RequestSnapshot,
              CutSnapshot, BindSnapshot, DropContent, kube
<1> QED
  BY <1>1, <1>2, <1>3, <1>4 DEF Next, Step, Calls, Reads

LEMMA BeginProcessInv ==
  ASSUME ProcessInv, NEW c \in Commands, Begin(c), UNCHANGED setup
  PROVE  Unsettled' /\ Target' /\ Listed' /\ VolDeletion' /\ SnapDeletion'
<1>1. /\ UNCHANGED <<ceph, kube, refs, todoSnaps, hasty>> /\ pc' \in {"listPV", "listContent"}
      /\ unsettled' = {x \in Things : stage[x] # "done"}
      /\ todoSnaps = {} /\ cmd' = c
  BY DEF ProcessInv, TypeOK, Begin
<1>2. Unsettled'
  BY <1>1 DEF Unsettled, kube
<1>3. Target'
  <2>1. pc' = "listPV" /\ cmd' = "subvolume delete" => vol' \in Vols /\ stage[vol'] # "new"
    BY DEF Begin, ProcessInv, NewHasNothing, Things
  <2>2. pc' = "listContent" /\ cmd' = "cephfs-snap delete" => snap' \in Snaps /\ stage[snap'] # "new"
    BY DEF Begin, ProcessInv, NewHasNothing, Things, TypeOK
  <2>3. pc' = "listPV" => cmd' # "cephfs-snap delete"
    BY DEF Begin
  <2> QED
    BY <1>1, <2>1, <2>2, <2>3 DEF Target, kube, VolumeSteps, SnapSteps
<1> QED
  BY <1>1, <1>2, <1>3 DEF Listed, VolDeletion, SnapDeletion, VolumeSteps, SnapSteps

LEMMA ReadProcessInv ==
  ASSUME ProcessInv, Reads, UNCHANGED setup
  PROVE  Unsettled' /\ Target' /\ Listed' /\ VolDeletion' /\ SnapDeletion'
<1>1. /\ UNCHANGED <<ceph, kube, history>> /\ cmd' = cmd /\ pc # "idle"
      /\ pc' \in {"idle", "nextSnap", "listVolumes", "nextVolume", "listSnaps"}
  BY DEF Reads, ListContent, ListVolumes, NextVolume, ListSnaps, Goto, End
<1>2. Unsettled'
  BY <1>1 DEF ProcessInv, Unsettled, kube, history
<1>3. Target'
  <2>1. \A s \in todoSnaps' : stage[s] # "new"
    <3>1. \A s \in snaps : stage[s] # "new"
      BY DEF ProcessInv, TypeOK, NewHasNothing, Things
    <3>2. CASE ListContent
      BY <3>2 DEF ListContent, ProcessInv, Target
    <3>3. CASE ListSnaps
      <4>1. todoSnaps' \subseteq snaps
        BY <3>3 DEF ListSnaps, SnapsOf
      <4> QED
        BY <3>1, <4>1
    <3>4. CASE ListVolumes \/ NextVolume
      BY <3>4 DEF ListVolumes, NextVolume, End, ProcessInv, Target
    <3> QED
      BY <3>2, <3>3, <3>4 DEF Reads
  <2> QED
    BY <1>1, <2>1 DEF Target, kube, VolumeSteps, SnapSteps
<1>4. Listed'
  <2>1. CASE ListContent
    BY <1>1, <2>1 DEF Listed, ListContent, kube, history
  <2>2. CASE ~ListContent
    <3>1. pc \in {"listVolumes", "nextVolume", "listSnaps"} /\ (refs' = refs \/ pc' = "idle")
      BY <2>2 DEF Reads, ListVolumes, NextVolume, ListSnaps, End
    <3> QED
      BY <1>1, <3>1 DEF ProcessInv, Listed, kube, history, SnapSteps
  <2> QED
    BY <2>1, <2>2
<1> QED
  BY <1>1, <1>2, <1>3, <1>4 DEF VolDeletion, SnapDeletion, VolumeSteps, SnapSteps

\* The deletion of a volume begins: nothing refers to it, or it was unsettled.
LEMMA ListPVProcessInv ==
  ASSUME ProcessInv, ListPV, UNCHANGED setup
  PROVE  Unsettled' /\ Target' /\ Listed' /\ VolDeletion' /\ SnapDeletion'
<1>1. /\ UNCHANGED todoSnaps \/ todoSnaps' = {}
      /\ UNCHANGED <<kube, unsettled>> /\ cmd' = cmd /\ pc = "listPV"
      /\ pc' \in {"idle", "listContent", "volKey"}
  BY DEF ListPV, Goto, End, BeginDeletion, history
<1>2. Unsettled'
  BY <1>1 DEF ProcessInv, Unsettled, kube
<1>3. Target'
  <2>1. pc' = "volKey" => vol' = vol /\ cmd = "subvolume delete"
    BY <1>1 DEF ListPV, Goto, End
  <2>2. pc' = "listContent" => cmd # "subvolume delete"
    BY <1>1 DEF ListPV, Goto, End
  <2>3. todoSnaps' \subseteq todoSnaps
    BY <1>1
  <2> QED
    BY <1>1, <2>1, <2>2, <2>3 DEF ProcessInv, Target, kube, VolumeSteps, SnapSteps
<1>4. VolDeletion'
  <2>1. CASE pc' = "volKey"
    <3>1. vol' = vol /\ ~(vol \in pv /\ Recognised(vol)) /\ hasty' = hasty \cup ({vol} \cap unsettled)
      BY <1>1, <2>1 DEF ListPV, Goto, End, BeginDeletion
    <3>2. vol \in Things
      BY <1>1, <2>1 DEF ListPV, Goto, End, ProcessInv, Target, Things
    <3> QED
      BY <1>1, <3>1, <3>2 DEF ProcessInv, Unsettled, VolDeletion, kube
  <2> QED
    BY <1>1, <2>1 DEF VolDeletion, VolumeSteps
<1> QED
  BY <1>1, <1>2, <1>3, <1>4 DEF Listed, SnapDeletion, SnapSteps

\* The deletion of a snapshot begins.
LEMMA NextSnapProcessInv ==
  ASSUME ProcessInv, NextSnap, UNCHANGED setup
  PROVE  Unsettled' /\ Target' /\ Listed' /\ VolDeletion' /\ SnapDeletion'
<1>1. /\ UNCHANGED <<ceph, kube, unsettled>> /\ pc = "nextSnap" /\ cmd' = cmd
      /\ pc' \in {"idle", "nextVolume", "nextSnap", "snapKey"} /\ todoSnaps' \subseteq todoSnaps
      /\ refs' = refs \/ pc' = "idle"
  BY DEF NextSnap, Goto, End, BeginDeletion, history
<1>2. Unsettled'
  BY <1>1 DEF ProcessInv, Unsettled, kube
<1>3. pc' = "snapKey" => /\ snap' \in todoSnaps /\ ~TakenForReferred(snap')
                         /\ hasty' = hasty \cup ({snap'} \cap unsettled)
  BY <1>1 DEF NextSnap, Goto, End, BeginDeletion
<1>4. Target'
  <2>1. todoSnaps \subseteq Snaps
    BY DEF ProcessInv, TypeOK
  <2> QED
    BY <1>1, <1>3, <2>1 DEF ProcessInv, Target, kube, VolumeSteps, SnapSteps
<1>5. Listed'
  BY <1>1 DEF ProcessInv, Listed, kube, SnapSteps
<1>6. SnapDeletion'
  <2>1. CASE pc' = "snapKey"
    <3>1. snap' \in Snaps
      BY <1>3, <2>1 DEF ProcessInv, TypeOK
    <3>2. NamesItsUuid(snap') => snap' \notin refs
      BY <1>3, <2>1 DEF TakenForReferred
    <3>3. NamesItsUuid(snap') /\ Recognised(snap') /\ content[snap'] = "bound" =>
            snap' \in unsettled
      BY <1>1, <3>1, <3>2 DEF ProcessInv, Listed
    <3>4. stage[snap'] # "done" => snap' \in unsettled
      BY <1>1, <3>1 DEF ProcessInv, Unsettled, Things
    <3> QED
      BY <1>1, <1>3, <2>1, <3>3, <3>4 DEF SnapDeletion, kube, NamesItsUuid
  <2> QED
    BY <1>1, <2>1 DEF SnapDeletion, SnapSteps
<1> QED
  BY <1>1, <1>2, <1>4, <1>5, <1>6 DEF VolDeletion, VolumeSteps

LEMMA CallProcessInv ==
  ASSUME ProcessInv, Calls, UNCHANGED setup
  PROVE  Unsettled' /\ Target' /\ Listed' /\ VolDeletion' /\ SnapDeletion'
<1>1. Unsettled'
  BY CallsKeep DEF ProcessInv, Unsettled, VolumeSteps, SnapSteps
<1>2. Target'
  BY CallsKeep, CallsLead DEF ProcessInv, Target, VolumeSteps, SnapSteps
<1>3. Listed'
  BY CallsKeep, CallsLead DEF ProcessInv, Listed, VolumeSteps, SnapSteps
<1>4. VolDeletion'
  BY CallsKeep, CallsLead DEF ProcessInv, VolDeletion, VolumeSteps, SnapSteps
<1>5. SnapDeletion'
  BY CallsKeep, CallsLead DEF ProcessInv, SnapDeletion, NamesItsUuid, VolumeSteps, SnapSteps
<1> QED
  BY <1>1, <1>2, <1>3, <1>4, <1>5

LEMMA DieProcessInv ==
  ASSUME ProcessInv, Die
  PROVE  Unsettled' /\ Target' /\ Listed' /\ VolDeletion' /\ SnapDeletion'
<1>1. pc' = "idle" /\ todoSnaps' = {}
  BY DEF Die, End
<1> QED
  BY <1>1 DEF Unsettled, Target, Listed, VolDeletion, SnapDeletion, VolumeSteps, SnapSteps

\* Kubernetes comes to refer to what the driver was at work on, and to nothing else.
LEMMA NewReferences ==
  ASSUME TypeOK, Environment
  PROVE  /\ \A v \in pv' \ pv : v \in Vols /\ stage[v] = "busy"
         /\ \A s \in Snaps : content'[s] = "bound" => content[s] = "bound" \/ stage[s] = "busy"
<1>1. ASSUME NEW v \in Vols, CreateVolume(v) \/ CloneEnds(v) \/ DropPV(v)
      PROVE  pv' \subseteq pv /\ content' = content
  BY <1>1 DEF CreateVolume, CloneEnds, DropPV, kube
<1>2. ASSUME NEW v \in Vols, CreatePV(v)
      PROVE  pv' = pv \cup {v} /\ content' = content /\ stage[v] = "busy"
  BY <1>2 DEF CreatePV
<1>3. ASSUME NEW s \in Snaps, RequestSnapshot(s) \/ CutSnapshot(s) \/ DropContent(s)
      PROVE  pv' = pv /\ \/ content' = content
                         \/ \E t \in {"none", "unbound"} : content' = [content EXCEPT ![s] = t]
  BY <1>3 DEF RequestSnapshot, CutSnapshot, DropContent
<1>4. ASSUME NEW s \in Snaps, BindSnapshot(s)
      PROVE  pv' = pv /\ content' = [content EXCEPT ![s] = "bound"] /\ stage[s] = "busy"
  BY <1>4 DEF BindSnapshot
<1> QED
  BY <1>1, <1>2, <1>3, <1>4 DEF TypeOK, Environment

LEMMA EnvironmentProcessInv ==
  ASSUME ProcessInv, Environment, UNCHANGED setup
  PROVE  Unsettled' /\ Target' /\ Listed' /\ VolDeletion' /\ SnapDeletion'
<1>1. TypeOK /\ UNCHANGED <<process, history>>
  BY StagesAdvance DEF ProcessInv, Environment, Things
<1>2. \A x \in Things : /\ stage[x] = "done" => stage'[x] = "done"
                        /\ stage[x] # "new" => stage'[x] # "new"
  BY <1>1, StagesAdvance
<1>3. Unsettled'
  BY <1>1, <1>2 DEF ProcessInv, Unsettled, process, history
<1>4. Target'
  BY <1>1, <1>2 DEF ProcessInv, Target, TypeOK, process, Things
<1>5. Listed'
  <2>1. \A s \in Snaps : stage[s] = "busy" /\ pc # "idle" => s \in unsettled
    BY DEF ProcessInv, Unsettled, Things
  <2> QED
    BY <1>1, <2>1, NewReferences DEF ProcessInv, Listed, process, history, SnapSteps
<1>6. VolDeletion'
  <2>1. CASE pc \in VolumeSteps
    <3>1. vol \in Vols /\ vol \in Things
      BY <2>1 DEF ProcessInv, Target, Things
    <3> QED
      BY <1>1, <1>2, <2>1, <3>1, NewReferences DEF ProcessInv, VolDeletion, process, history
  <2> QED
    BY <1>1, <2>1 DEF VolDeletion, process
<1>7. SnapDeletion'
  <2>1. CASE pc \in SnapSteps
    <3>1. snap \in Snaps /\ snap \in Things
      BY <2>1 DEF ProcessInv, Target, Things
    <3> QED
      BY <1>1, <1>2, <2>1, <3>1, NewReferences
      DEF ProcessInv, SnapDeletion, NamesItsUuid, process, history
  <2> QED
    BY <1>1, <2>1 DEF SnapDeletion, process
<1> QED
  BY <1>3, <1>4, <1>5, <1>6, <1>7

\* What each call of a deletion does to Ceph: it takes away, and from one thing.
LEMMA CallsTake ==
  ASSUME ProcessInv, Calls
  PROVE  /\ pc \in VolumeSteps => /\ object' \in {object, object \ {vol}}
                                  /\ key' \in {key, key \ {vol}}
                                  /\ exports' \in {exports, exports \ {vol}}
                                  /\ snaps' = snaps
                                  /\ sub' = sub \/ \E t \in {"none", "retained"} :
                                       sub' = [sub EXCEPT ![vol] = t]
         /\ pc \in SnapSteps => /\ object' \in {object, object \ {snap}}
                                /\ key' \in {key, key \ {snap}}
                                /\ exports' = exports
                                /\ snaps' \in {snaps, snaps \ {snap}}
                                /\ \A v \in Vols :
                                     \/ sub'[v] = sub[v]
                                     \/ sub[v] = "retained" /\ sub'[v] = "none"
<1>1. CASE SnapKey \/ SnapObject \/ SnapOmapKey
  BY <1>1 DEF SnapKey, SnapObject, SnapOmapKey, Then, OrWarn, ceph, VolumeSteps, SnapSteps
<1>2. CASE SnapRemove
  <2>1. Of[snap] \in Vols /\ sub \in [Vols -> {"none", "pending", "ready", "retained"}]
    BY <1>2, ThingsAssumption DEF SnapRemove, Then, ProcessInv, Target, TypeOK, SnapSteps
  <2> QED
    BY <1>2, <2>1 DEF SnapRemove, Then, VolumeSteps, SnapSteps
<1>3. CASE VolKey \/ NfsExport \/ VolObject \/ VolOmapKey
  BY <1>3 DEF VolKey, NfsExport, VolObject, VolOmapKey, Then, OrWarn, ceph, VolumeSteps, SnapSteps
<1>4. CASE VolRemove
  BY <1>4 DEF VolRemove, VolumeSteps, SnapSteps
<1> QED
  BY <1>1, <1>2, <1>3, <1>4 DEF Calls

\* The other steps of the process leave Ceph alone.
LEMMA OthersLeaveCeph ==
  ASSUME (\E c \in Commands : Begin(c)) \/ ListPV \/ Reads \/ NextSnap \/ Die
  PROVE  UNCHANGED <<ceph, kube>>
BY DEF Begin, ListPV, Reads, ListContent, ListVolumes, NextVolume, ListSnaps, NextSnap, Die

LEMMA StepNewHasNothing ==
  ASSUME ProcessInv, Next
  PROVE  NewHasNothing'
<1>1. CASE UNCHANGED <<ceph, kube>>
  BY <1>1 DEF ProcessInv, NewHasNothing, ceph, kube
<1>2. CASE Calls
  <2>1. stage' = stage
    BY <1>2, CallsKeep
  <2>2. pc \in VolumeSteps => stage[vol] # "new"
    BY DEF ProcessInv, Target
  <2>3. pc \in VolumeSteps \cup SnapSteps
    BY <1>2, CallsKeep
  <2>4. /\ object' \subseteq object /\ key' \subseteq key /\ exports' \subseteq exports
        /\ snaps' \subseteq snaps
    <3>1. CASE pc \in VolumeSteps
      <4>1. /\ object' \in {object, object \ {vol}} /\ key' \in {key, key \ {vol}}
            /\ exports' \in {exports, exports \ {vol}} /\ snaps' = snaps
        BY <1>2, <3>1, CallsTake
      <4> QED
        BY <4>1
    <3>2. CASE pc \in SnapSteps
      <4>1. /\ object' \in {object, object \ {snap}} /\ key' \in {key, key \ {snap}}
            /\ exports' = exports /\ snaps' \in {snaps, snaps \ {snap}}
        BY <1>2, <3>2, CallsTake
      <4> QED
        BY <4>1
    <3> QED
      BY <2>3, <3>1, <3>2
  <2>5. \A v \in Vols : stage[v] = "new" => sub'[v] = "none"
    <3>1. \A v \in Vols : stage[v] = "new" => sub[v] = "none"
      BY DEF ProcessInv, NewHasNothing, Things
    <3>2. CASE pc \in VolumeSteps
      <4>1. sub' = sub \/ \E t \in {"none", "retained"} : sub' = [sub EXCEPT ![vol] = t]
        BY <1>2, <3>2, CallsTake
      <4>2. sub \in [Vols -> {"none", "pending", "ready", "retained"}]
        BY DEF ProcessInv, TypeOK
      <4> QED
        BY <2>2, <3>1, <3>2, <4>1, <4>2
    <3>3. CASE pc \in SnapSteps
      <4>1. \A v \in Vols : \/ sub'[v] = sub[v]
                            \/ sub[v] = "retained" /\ sub'[v] = "none"
        BY <1>2, <3>3, CallsTake
      <4> QED
        BY <3>1, <4>1
    <3> QED
      BY <2>3, <3>2, <3>3
  <2> QED
    BY <2>1, <2>4, <2>5 DEF ProcessInv, NewHasNothing
<1>3. ASSUME NEW v \in Vols, CreateVolume(v) PROVE NewHasNothing'
  BY <1>3, ThingsAssumption
  DEF ProcessInv, NewHasNothing, TypeOK, CreateVolume, Things
<1>4. ASSUME NEW v \in Vols, CloneEnds(v) \/ CreatePV(v) \/ DropPV(v) PROVE NewHasNothing'
  BY <1>4 DEF ProcessInv, NewHasNothing, TypeOK, CloneEnds, CreatePV, DropPV, ceph, kube, Things
<1>5. ASSUME NEW s \in Snaps, CutSnapshot(s) PROVE NewHasNothing'
  BY <1>5, ThingsAssumption DEF ProcessInv, NewHasNothing, TypeOK, CutSnapshot, Things
<1>6. ASSUME NEW s \in Snaps, RequestSnapshot(s) \/ BindSnapshot(s) \/ DropContent(s)
      PROVE  NewHasNothing'
  BY <1>6 DEF ProcessInv, NewHasNothing, TypeOK, RequestSnapshot, BindSnapshot, DropContent,
              ceph, Things
<1> QED
  BY <1>1, <1>2, <1>3, <1>4, <1>5, <1>6, OthersLeaveCeph
  DEF Next, Step, Calls, Reads, Environment

LEMMA InitProcessInv == Init => ProcessInv
<1> SUFFICES ASSUME Init PROVE ProcessInv
  OBVIOUS
<1>1. TypeOK
  BY InitTypeOK
<1>2. NewHasNothing
  BY ThingsAssumption DEF Init, NewHasNothing, Things
<1> QED
  BY <1>1, <1>2 DEF Init, ProcessInv, Unsettled, Target, Listed, VolDeletion, SnapDeletion,
                    VolumeSteps, SnapSteps

LEMMA StepProcessInv == ProcessInv /\ [Next]_vars => ProcessInv'
<1> SUFFICES ASSUME ProcessInv, [Next]_vars PROVE ProcessInv'
  OBVIOUS
<1>1. TypeOK'
  BY StepTypeOK DEF ProcessInv
<1>2. CASE UNCHANGED vars
  <2>1. UNCHANGED <<ceph, kube, process, history>>
    BY <1>2 DEF vars
  <2> QED
    BY <1>1, <2>1 DEF ProcessInv, NewHasNothing, Unsettled, Target, Listed, VolDeletion,
                      SnapDeletion, NamesItsUuid, ceph, kube, process, history
<1>3. CASE Next
  <2>1. NewHasNothing'
    BY <1>3, StepNewHasNothing
  <2>2. Unsettled' /\ Target' /\ Listed' /\ VolDeletion' /\ SnapDeletion'
    BY <1>3, SetupStays, BeginProcessInv, ReadProcessInv, ListPVProcessInv, NextSnapProcessInv,
       CallProcessInv, DieProcessInv, EnvironmentProcessInv DEF Next, Step, Reads, Calls
  <2> QED
    BY <1>1, <2>1, <2>2 DEF ProcessInv
<1> QED
  BY <1>2, <1>3

\* The type invariant of CephFsCleanup.
THEOREM TypeCorrect == Spec => []TypeOK
<1>1. ProcessInv => TypeOK
  BY DEF ProcessInv
<1> QED
  BY <1>1, InitProcessInv, StepProcessInv, PTL DEF Spec
-----------------------------------------------------------------------------
(* What was settled survives. *)

LEMMA HastyGrows ==
  ASSUME Next
  PROVE  hasty \subseteq hasty'
<1>1. CASE Calls
  BY <1>1, CallsKeep
<1>2. CASE (\E c \in Commands : Begin(c)) \/ ListPV \/ Reads \/ NextSnap \/ Die
  BY <1>2 DEF Begin, ListPV, Reads, ListContent, ListVolumes, NextVolume, ListSnaps, NextSnap, Die,
              BeginDeletion, history
<1>3. CASE Environment
  BY <1>3 DEF Environment, CreateVolume, CloneEnds, CreatePV, DropPV, RequestSnapshot,
              CutSnapshot, BindSnapshot, DropContent, history
<1> QED
  BY <1>1, <1>2, <1>3 DEF Next, Step, Calls, Reads

\* A deletion takes nothing from a volume that is referred to or being created.
LEMMA CallsSpareVolumes ==
  ASSUME ProcessInv, Calls, NEW v \in Vols \ hasty,
         (v \in pv /\ Recognised(v)) \/ stage[v] = "busy"
  PROVE  /\ sub[v] # "retained" => sub'[v] = sub[v]
         /\ v \in object => v \in object'
         /\ v \in key => v \in key'
<1>1. CASE pc \in VolumeSteps
  <2>1. v # vol
    BY <1>1 DEF ProcessInv, VolDeletion
  <2>2. /\ object' \in {object, object \ {vol}} /\ key' \in {key, key \ {vol}}
        /\ sub' = sub \/ \E t \in {"none", "retained"} : sub' = [sub EXCEPT ![vol] = t]
    BY <1>1, CallsTake
  <2>3. sub \in [Vols -> {"none", "pending", "ready", "retained"}]
    BY DEF ProcessInv, TypeOK
  <2>4. sub'[v] = sub[v]
    BY <2>1, <2>2, <2>3
  <2> QED
    BY <2>1, <2>2, <2>4
<1>2. CASE pc \in SnapSteps
  <2>1. v # snap
    BY <1>2, ThingsAssumption DEF ProcessInv, Target
  <2>2. /\ object' \in {object, object \ {snap}} /\ key' \in {key, key \ {snap}}
        /\ \A w \in Vols : \/ sub'[w] = sub[w]
                           \/ sub[w] = "retained" /\ sub'[w] = "none"
    BY <1>2, CallsTake
  <2> QED
    BY <2>1, <2>2
<1> QED
  BY <1>1, <1>2, CallsKeep

\* Nor from such a snapshot: one with a prefix of its own stops the command in time.
LEMMA CallsSpareSnapshots ==
  ASSUME ProcessInv, Calls, NEW s \in Snaps \ hasty,
         (content[s] = "bound" /\ Recognised(s)) \/ stage[s] = "busy", SnapIntact(s)
  PROVE  SnapIntact(s)'
<1>1. CASE pc \in VolumeSteps
  <2>1. s # vol
    BY <1>1, ThingsAssumption DEF ProcessInv, Target
  <2>2. /\ object' \in {object, object \ {vol}} /\ key' \in {key, key \ {vol}}
        /\ snaps' = snaps
    BY <1>1, CallsTake
  <2> QED
    BY <2>1, <2>2 DEF SnapIntact
<1>2. CASE pc = "snapKey"
  <2>1. UNCHANGED <<object, key, snaps>>
    BY <1>2 DEF Calls, SnapKey, SnapObject, SnapOmapKey, SnapRemove, VolKey, NfsExport,
                VolObject, VolOmapKey, VolRemove, Then, ceph
  <2> QED
    BY <2>1 DEF SnapIntact
<1>3. CASE pc \in SnapSteps \ {"snapKey"}
  <2>1. s # snap
    BY <1>3 DEF ProcessInv, SnapDeletion
  <2>2. /\ object' \in {object, object \ {snap}} /\ key' \in {key, key \ {snap}}
        /\ snaps' \in {snaps, snaps \ {snap}}
    BY <1>3, CallsTake
  <2> QED
    BY <2>1, <2>2 DEF SnapIntact
<1> QED
  BY <1>1, <1>2, <1>3, CallsKeep

LEMMA CallSettled ==
  ASSUME SettledInv, Calls, UNCHANGED setup
  PROVE  CreatedWhole' /\ SettledThingsSurvive'
<1>1. ProcessInv /\ UNCHANGED <<pv, content, stage, nfs, odd, custom, hasty>> /\ pv \subseteq Vols
  BY CallsKeep DEF SettledInv, ProcessInv, TypeOK
<1>2. ASSUME NEW v \in Vols \ hasty, stage[v] = "busy"
      PROVE  sub'[v] \in {"pending", "ready"} /\ v \in object' /\ v \in key'
  BY <1>1, <1>2, CallsSpareVolumes DEF SettledInv, CreatedWhole
<1>3. ASSUME NEW v \in pv \ hasty, Recognised(v) PROVE VolumeIntact(v)'
  <2>1. v \in Vols \ hasty /\ v \in pv /\ VolumeIntact(v)
    BY <1>1, <1>3 DEF SettledInv, SettledThingsSurvive
  <2>2. /\ sub[v] # "retained" => sub'[v] = sub[v]
        /\ v \in object => v \in object'
        /\ v \in key => v \in key'
    BY <1>1, <1>3, <2>1, CallsSpareVolumes
  <2> QED
    BY <2>1, <2>2 DEF VolumeIntact
<1>4. ASSUME NEW s \in Snaps \ hasty, (content[s] = "bound" /\ Recognised(s)) \/ stage[s] = "busy"
      PROVE  SnapIntact(s)'
  BY <1>1, <1>4, CallsSpareSnapshots DEF SettledInv, CreatedWhole, SettledThingsSurvive
<1> QED
  BY <1>1, <1>2, <1>3, <1>4 DEF CreatedWhole, SettledThingsSurvive

\* The driver reports what it has made whole.
LEMMA EnvironmentSettled ==
  ASSUME SettledInv, Environment, UNCHANGED setup
  PROVE  CreatedWhole' /\ SettledThingsSurvive'
<1> USE DEF SettledInv, ProcessInv, TypeOK, CreatedWhole, SettledThingsSurvive, VolumeIntact,
            SnapIntact, Things
<1>1. ASSUME NEW v \in Vols, CreateVolume(v) PROVE CreatedWhole' /\ SettledThingsSurvive'
  <2>1. (v \in pv \ hasty => ~Recognised(v)) /\ v \notin Snaps
    BY <1>1, ThingsAssumption DEF CreateVolume, NewHasNothing
  <2>2. UNCHANGED <<snaps, pv, content, hasty>>
        /\ object' = object \cup {v} /\ key' = key \cup {v}
        /\ exports' = exports \cup ({v} \cap nfs) /\ stage' = [stage EXCEPT ![v] = "busy"]
        /\ \E state \in {"pending", "ready"} : sub' = [sub EXCEPT ![v] = state]
    BY <1>1 DEF CreateVolume, history
  <2>3. CreatedWhole'
    BY <2>1, <2>2
  <2>4. SettledThingsSurvive'
    BY <2>1, <2>2
  <2> QED
    BY <2>3, <2>4
<1>2. ASSUME NEW v \in Vols, CloneEnds(v) PROVE CreatedWhole' /\ SettledThingsSurvive'
  BY <1>2 DEF CloneEnds, kube, history
<1>3. ASSUME NEW v \in Vols, CreatePV(v) PROVE CreatedWhole' /\ SettledThingsSurvive'
  <2>1. UNCHANGED <<sub, snaps, object, key, exports, content, hasty>>
        /\ stage[v] = "busy" /\ sub[v] # "pending"
        /\ stage' = [stage EXCEPT ![v] = "done"] /\ pv' = pv \cup {v}
    BY <1>3 DEF CreatePV, ceph, history
  <2>2. v \notin Snaps
    BY ThingsAssumption
  <2> QED
    BY <2>1, <2>2
<1>4. ASSUME NEW v \in Vols, DropPV(v) PROVE CreatedWhole' /\ SettledThingsSurvive'
  BY <1>4 DEF DropPV, ceph, history
<1>5. ASSUME NEW s \in Snaps, RequestSnapshot(s) PROVE CreatedWhole' /\ SettledThingsSurvive'
  BY <1>5 DEF RequestSnapshot, ceph, history
<1>6. ASSUME NEW s \in Snaps, CutSnapshot(s) PROVE CreatedWhole' /\ SettledThingsSurvive'
  <2>1. UNCHANGED <<sub, exports, pv, content, hasty>>
        /\ snaps' = snaps \cup {s} /\ object' = object \cup {s} /\ key' = key \cup {s}
        /\ stage' = [stage EXCEPT ![s] = "busy"]
    BY <1>6 DEF CutSnapshot, history
  <2>2. s \notin Vols
    BY ThingsAssumption
  <2> QED
    BY <2>1, <2>2
<1>7. ASSUME NEW s \in Snaps, BindSnapshot(s) PROVE CreatedWhole' /\ SettledThingsSurvive'
  <2>1. UNCHANGED <<sub, snaps, object, key, exports, pv, hasty>> /\ stage[s] = "busy"
        /\ stage' = [stage EXCEPT ![s] = "done"] /\ content' = [content EXCEPT ![s] = "bound"]
    BY <1>7 DEF BindSnapshot, ceph, history
  <2>2. s \notin Vols
    BY ThingsAssumption
  <2> QED
    BY <2>1, <2>2
<1>8. ASSUME NEW s \in Snaps, DropContent(s) PROVE CreatedWhole' /\ SettledThingsSurvive'
  BY <1>8 DEF DropContent, ceph, history
<1> QED
  BY <1>1, <1>2, <1>3, <1>4, <1>5, <1>6, <1>7, <1>8 DEF Environment

LEMMA InitSettledInv == Init => SettledInv
<1> SUFFICES ASSUME Init PROVE SettledInv
  OBVIOUS
<1>1. CreatedWhole /\ SettledThingsSurvive
  BY DEF Init, CreatedWhole, SettledThingsSurvive, Things
<1> QED
  BY <1>1, InitProcessInv DEF SettledInv

LEMMA StepSettledInv == SettledInv /\ [Next]_vars => SettledInv'
<1> SUFFICES ASSUME SettledInv, [Next]_vars PROVE SettledInv'
  OBVIOUS
<1>1. ProcessInv'
  BY StepProcessInv DEF SettledInv
<1>2. CASE UNCHANGED <<ceph, kube>> /\ hasty \subseteq hasty'
  BY <1>1, <1>2 DEF SettledInv, CreatedWhole, SettledThingsSurvive, VolumeIntact, SnapIntact,
                    ceph, kube
<1>3. CASE UNCHANGED vars
  BY <1>2, <1>3 DEF vars, history
<1>4. CASE Next
  BY <1>1, <1>2, <1>4, SetupStays, HastyGrows, OthersLeaveCeph, CallSettled, EnvironmentSettled
  DEF SettledInv, Next, Step, Calls, Reads
<1> QED
  BY <1>3, <1>4

\* What Kubernetes refers to in a way the plugin recognises stays whole in Ceph,
\* whatever is listed and deleted and wherever a deletion is cut off, but for what was
\* still being created.
THEOREM SettledSurvive == Spec => []SettledThingsSurvive
<1>1. SettledInv => SettledThingsSurvive
  BY DEF SettledInv
<1> QED
  BY <1>1, InitSettledInv, StepSettledInv, PTL DEF Spec
-----------------------------------------------------------------------------
(* A deletion without a failed call leaves nothing behind. *)

\* Nothing of Ceph moves and no deletion gets further.
LEMMA IdleClean ==
  ASSUME CleanInv, ProcessInv', UNCHANGED <<ceph, kube>>, faulted \subseteq faulted',
         pc' \notin VolumeSteps \ {"volKey"}, pc' \notin SnapSteps \ {"snapKey"},
         pc = "volOmapKey" => vol \in faulted', pc = "snapOmapKey" => snap \in faulted'
  PROVE  KeyNeedsObject' /\ Progress' /\ NothingLeftBehind'
<1>1. KeyNeedsObject'
  BY DEF CleanInv, KeyNeedsObject, ceph, kube
<1>2. Progress'
  BY DEF Progress, VolumeSteps, SnapSteps
<1>3. NothingLeftBehind'
  BY DEF CleanInv, NothingLeftBehind, ceph, kube
<1> QED
  BY <1>1, <1>2, <1>3

LEMMA OthersClean ==
  ASSUME CleanInv, ProcessInv',
         (\E c \in Commands : Begin(c)) \/ ListPV \/ Reads \/ NextSnap \/ Die
  PROVE  KeyNeedsObject' /\ Progress' /\ NothingLeftBehind'
<1>1. UNCHANGED <<ceph, kube>>
  BY OthersLeaveCeph
<1>2. CASE Die
  BY <1>1, <1>2, IdleClean DEF Die, End, VolumeSteps, SnapSteps
<1>3. CASE (\E c \in Commands : Begin(c)) \/ ListPV \/ Reads \/ NextSnap
  <2>1. faulted' = faulted /\ pc \notin VolumeSteps \cup SnapSteps
    BY <1>3 DEF Begin, ListPV, Reads, ListContent, ListVolumes, NextVolume, ListSnaps, NextSnap,
                BeginDeletion, history, VolumeSteps, SnapSteps
  <2>2. pc' \in {"idle", "listPV", "listContent", "listVolumes", "nextVolume", "listSnaps",
                 "nextSnap", "volKey", "snapKey"}
    BY <1>3 DEF Begin, ListPV, Reads, ListContent, ListVolumes, NextVolume, ListSnaps, NextSnap,
                Goto, End, CleanInv, ProcessInv, TypeOK
  <2> QED
    BY <1>1, <2>1, <2>2, IdleClean DEF VolumeSteps, SnapSteps
<1> QED
  BY <1>2, <1>3

\* The calls before the omap object goes.
LEMMA EarlyCallClean ==
  ASSUME CleanInv, SnapKey \/ VolKey \/ NfsExport, UNCHANGED setup
  PROVE  KeyNeedsObject' /\ Progress' /\ NothingLeftBehind'
<1>1. CASE SnapKey
  BY <1>1 DEF CleanInv, KeyNeedsObject, Progress, NothingLeftBehind, SnapKey, Then, Goto, ceph, kube
<1>2. CASE VolKey
  <2>1. UNCHANGED <<sub, snaps, object, key, exports, stage, vol>> /\ pc = "volKey"
        /\ pc' = "nfsExport" /\ faulted \subseteq faulted'
    BY <1>2 DEF VolKey, Then, Goto, ceph, kube
  <2>2. omapkey' = FindsObject(vol) \/ vol \in faulted'
    BY <1>2 DEF VolKey
  <2>3. KeyNeedsObject' /\ NothingLeftBehind'
    BY <2>1 DEF CleanInv, KeyNeedsObject, NothingLeftBehind
  <2>4. Progress'
    <3>1. CASE vol \in faulted'
      BY <2>1, <3>1 DEF Progress
    <3>2. CASE omapkey' = FindsObject(vol)
      BY <2>1, <3>2 DEF Progress, FindsObject, NamesItsUuid
    <3> QED
      BY <2>2, <3>1, <3>2
  <2> QED
    BY <2>3, <2>4
<1>3. CASE NfsExport
  <2>1. UNCHANGED <<sub, snaps, object, key, stage, vol, omapkey>> /\ pc = "nfsExport"
        /\ pc' = "volObject" /\ faulted \subseteq faulted' /\ exports' \subseteq exports
    BY <1>3 DEF NfsExport, Then, Goto, ceph, kube
  <2>2. vol \notin exports' \/ vol \in faulted' \/ (~FindsObject(vol) /\ exports' = exports)
    BY <1>3 DEF NfsExport, ceph
  <2>3. KeyNeedsObject' /\ NothingLeftBehind'
    BY <2>1 DEF CleanInv, KeyNeedsObject, NothingLeftBehind
  <2>4. vol \in Things
    BY <2>1 DEF CleanInv, ProcessInv, Target, VolumeSteps, Things
  <2>5. vol \notin exports' \/ vol \in faulted' \cup custom
    BY <2>1, <2>2, <2>4 DEF CleanInv, KeyNeedsObject, FindsObject, NamesItsUuid
  <2>6. Progress'
    BY <2>1, <2>5 DEF CleanInv, Progress
  <2> QED
    BY <2>3, <2>6
<1> QED
  BY <1>1, <1>2, <1>3

\* The omap object goes, and the omap key is the next to go.
LEMMA ObjectCallClean ==
  ASSUME CleanInv, SnapObject \/ VolObject, UNCHANGED setup
  PROVE  KeyNeedsObject' /\ Progress' /\ NothingLeftBehind'
<1>1. CASE SnapObject
  <2>1. UNCHANGED <<sub, snaps, key, exports, stage, snap>> /\ pc = "snapObject"
        /\ pc' = "snapOmapKey" /\ faulted \subseteq faulted'
        /\ \/ object' = object \ {snap}
           \/ object' = object /\ snap \in faulted'
    BY <1>1 DEF SnapObject, Then, Goto, OrWarn, ceph, kube
  <2>2. snap \in Things /\ snap \notin exports
    BY <2>1, ThingsAssumption DEF CleanInv, ProcessInv, TypeOK, Target, SnapSteps, Things
  <2>3. KeyNeedsObject'
    BY <2>1, <2>2 DEF CleanInv, KeyNeedsObject
  <2>4. Progress'
    BY <2>1 DEF Progress
  <2>5. NothingLeftBehind'
    BY <2>1 DEF CleanInv, NothingLeftBehind
  <2> QED
    BY <2>3, <2>4, <2>5
<1>2. CASE VolObject
  <2>1. UNCHANGED <<sub, snaps, key, exports, stage, vol>> /\ pc = "volObject"
        /\ pc' = (IF omapkey THEN "volOmapKey" ELSE "volRemove") /\ faulted \subseteq faulted'
        /\ \/ object' = object \ {vol} /\ FindsObject(vol)
           \/ object' = object /\ vol \in faulted'
    BY <1>2 DEF VolObject, Then, Goto, OrWarn, ceph, kube
  <2>2. FindsObject(vol) /\ vol \notin faulted => omapkey /\ vol \notin exports
    BY <2>1 DEF CleanInv, Progress, FindsObject, NamesItsUuid
  <2>3. KeyNeedsObject'
    <3>1. CASE vol \in faulted'
      BY <2>1, <3>1 DEF CleanInv, KeyNeedsObject
    <3>2. CASE object' = object \ {vol} /\ FindsObject(vol) /\ vol \notin faulted
      BY <2>1, <2>2, <3>2 DEF CleanInv, KeyNeedsObject
    <3> QED
      BY <2>1, <3>1, <3>2
  <2>4. Progress'
    BY <2>1 DEF Progress
  <2>5. NothingLeftBehind'
    BY <2>1 DEF CleanInv, NothingLeftBehind
  <2> QED
    BY <2>3, <2>4, <2>5
<1> QED
  BY <1>1, <1>2

\* The omap key goes.
LEMMA KeyCallClean ==
  ASSUME CleanInv, SnapOmapKey \/ VolOmapKey, UNCHANGED setup
  PROVE  KeyNeedsObject' /\ Progress' /\ NothingLeftBehind'
<1>1. CASE SnapOmapKey
  <2>1. UNCHANGED <<sub, snaps, object, exports, stage, snap>> /\ pc = "snapOmapKey"
        /\ pc' = "snapRemove" /\ faulted \subseteq faulted'
        /\ \/ key' = key \ {snap}
           \/ key' = key /\ snap \in faulted'
    BY <1>1 DEF SnapOmapKey, Then, Goto, OrWarn, ceph, kube
  <2>2. KeyNeedsObject'
    BY <2>1 DEF CleanInv, KeyNeedsObject
  <2>3. Progress' /\ NothingLeftBehind'
    BY <2>1 DEF CleanInv, Progress, NothingLeftBehind
  <2> QED
    BY <2>2, <2>3
<1>2. CASE VolOmapKey
  <2>1. UNCHANGED <<sub, snaps, object, exports, stage, vol>> /\ pc = "volOmapKey"
        /\ pc' = "volRemove" /\ faulted \subseteq faulted'
        /\ \/ key' = key \ {vol}
           \/ key' = key /\ vol \in faulted'
    BY <1>2 DEF VolOmapKey, Then, Goto, OrWarn, ceph, kube
  <2>2. KeyNeedsObject'
    BY <2>1 DEF CleanInv, KeyNeedsObject
  <2>3. Progress' /\ NothingLeftBehind'
    BY <2>1 DEF CleanInv, Progress, NothingLeftBehind
  <2> QED
    BY <2>2, <2>3
<1> QED
  BY <1>1, <1>2

\* The subvolume or snapshot itself goes last, when nothing refers to it any more.
LEMMA RemoveClean ==
  ASSUME CleanInv, SnapRemove \/ VolRemove, UNCHANGED setup
  PROVE  KeyNeedsObject' /\ Progress' /\ NothingLeftBehind'
<1>1. UNCHANGED <<object, key, exports, stage, faulted>>
      /\ pc \in {"snapRemove", "volRemove"} /\ pc' \in {"nextSnap", "idle"}
  BY DEF SnapRemove, VolRemove, Then, Goto, End, kube, history
<1>2. KeyNeedsObject' /\ Progress'
  BY <1>1 DEF CleanInv, KeyNeedsObject, Progress
<1>3. \A x \in Things \ (faulted \cup custom) :
        x \notin object => x \notin object \cup key \cup exports
  BY <1>1 DEF CleanInv, KeyNeedsObject
<1>4. sub \in [Vols -> {"none", "pending", "ready", "retained"}] /\ Vols \cap Snaps = {}
  BY ThingsAssumption DEF CleanInv, ProcessInv, TypeOK
<1>5. CASE SnapRemove
  <2>1. snap \notin object \/ snap \in faulted
    BY <1>5 DEF CleanInv, Progress, SnapRemove, Then
  <2>2. \A v \in Vols : sub'[v] \in {"none", "retained"} => sub[v] \in {"none", "retained"}
    BY <1>4, <1>5 DEF SnapRemove
  <2>3. snaps' = snaps \ {snap}
    BY <1>5 DEF SnapRemove
  <2> QED
    BY <1>1, <1>2, <1>3, <2>1, <2>2, <2>3 DEF CleanInv, NothingLeftBehind
<1>6. CASE VolRemove
  <2>1. vol \notin object \/ vol \in faulted
    BY <1>6 DEF CleanInv, Progress, VolRemove
  <2>2. \A v \in Vols : v # vol => sub'[v] = sub[v]
    BY <1>4, <1>6 DEF VolRemove
  <2>3. snaps' = snaps
    BY <1>6 DEF VolRemove
  <2> QED
    BY <1>1, <1>2, <1>3, <2>1, <2>2, <2>3 DEF CleanInv, NothingLeftBehind
<1> QED
  BY <1>5, <1>6
\* The driver makes a thing whole, and only once.
LEMMA EnvironmentClean ==
  ASSUME CleanInv, Environment, UNCHANGED setup
  PROVE  KeyNeedsObject' /\ Progress' /\ NothingLeftBehind'
<1>1. UNCHANGED <<process, history>> /\ TypeOK
  BY StagesAdvance DEF CleanInv, ProcessInv, Environment, Things
<1>2. ASSUME NEW v \in Vols, CreateVolume(v)
      PROVE  KeyNeedsObject' /\ Progress' /\ NothingLeftBehind'
  <2>1. /\ object' = object \cup {v} /\ key' = key \cup {v}
        /\ exports' = exports \cup ({v} \cap nfs) /\ snaps' = snaps
        /\ stage[v] = "new" /\ stage' = [stage EXCEPT ![v] = "busy"]
        /\ \E state \in {"pending", "ready"} : sub' = [sub EXCEPT ![v] = state]
    BY <1>2 DEF CreateVolume
  <2>2. v \in Things /\ v \notin Snaps /\ sub \in [Vols -> {"none", "pending", "ready", "retained"}]
        /\ stage \in [Things -> {"new", "busy", "done"}]
    BY <1>1, ThingsAssumption DEF TypeOK, Things
  <2>3. /\ pc \in VolumeSteps => vol # v
        /\ pc \in SnapSteps => snap # v
    BY <2>1, <2>2 DEF CleanInv, ProcessInv, Target
  <2>4. KeyNeedsObject'
    BY <1>1, <2>1, <2>2 DEF CleanInv, KeyNeedsObject, process, history
  <2>5. Progress'
    BY <1>1, <2>1, <2>3 DEF CleanInv, Progress, process, history, VolumeSteps, SnapSteps
  <2>6. NothingLeftBehind'
    BY <1>1, <2>1, <2>2 DEF CleanInv, NothingLeftBehind, history
  <2> QED
    BY <2>4, <2>5, <2>6
<1>3. ASSUME NEW s \in Snaps, CutSnapshot(s)
      PROVE  KeyNeedsObject' /\ Progress' /\ NothingLeftBehind'
  <2>1. /\ object' = object \cup {s} /\ key' = key \cup {s} /\ UNCHANGED <<sub, exports>>
        /\ snaps' = snaps \cup {s} /\ stage[s] = "new" /\ stage' = [stage EXCEPT ![s] = "busy"]
    BY <1>3 DEF CutSnapshot
  <2>2. s \in Things /\ s \notin Vols /\ stage \in [Things -> {"new", "busy", "done"}]
    BY <1>1, ThingsAssumption DEF TypeOK, Things
  <2>3. /\ pc \in VolumeSteps => vol # s
        /\ pc \in SnapSteps => snap # s
    BY <2>1, <2>2 DEF CleanInv, ProcessInv, Target
  <2>4. KeyNeedsObject'
    BY <1>1, <2>1, <2>2 DEF CleanInv, KeyNeedsObject, process, history
  <2>5. Progress'
    BY <1>1, <2>1, <2>3 DEF CleanInv, Progress, process, history, VolumeSteps, SnapSteps
  <2>6. NothingLeftBehind'
    BY <1>1, <2>1, <2>2 DEF CleanInv, NothingLeftBehind, history
  <2> QED
    BY <2>4, <2>5, <2>6
<1>4. CASE /\ UNCHANGED <<snaps, object, key, exports>>
           /\ \A v \in Vols : sub'[v] \in {"none", "retained"} => sub[v] \in {"none", "retained"}
           /\ \A x \in Things : stage[x] = "new" <=> stage'[x] = "new"
  <2>1. KeyNeedsObject' /\ Progress'
    BY <1>1, <1>4 DEF CleanInv, KeyNeedsObject, Progress, process, history
  <2>2. NothingLeftBehind'
    BY <1>1, <1>4 DEF CleanInv, NothingLeftBehind, history
  <2> QED
    BY <2>1, <2>2
<1>5. ASSUME NEW v \in Vols, CloneEnds(v) \/ CreatePV(v) \/ DropPV(v)
      PROVE  KeyNeedsObject' /\ Progress' /\ NothingLeftBehind'
  BY <1>1, <1>4, <1>5 DEF CloneEnds, CreatePV, DropPV, ceph, kube, TypeOK, Things
<1>6. ASSUME NEW s \in Snaps, RequestSnapshot(s) \/ BindSnapshot(s) \/ DropContent(s)
      PROVE  KeyNeedsObject' /\ Progress' /\ NothingLeftBehind'
  BY <1>1, <1>4, <1>6 DEF RequestSnapshot, BindSnapshot, DropContent, ceph, TypeOK, Things
<1> QED
  BY <1>2, <1>3, <1>5, <1>6 DEF Environment

LEMMA InitCleanInv == Init => CleanInv
<1> SUFFICES ASSUME Init PROVE CleanInv
  OBVIOUS
<1>1. KeyNeedsObject /\ Progress /\ NothingLeftBehind
  BY DEF Init, KeyNeedsObject, Progress, NothingLeftBehind
<1> QED
  BY <1>1, InitProcessInv DEF CleanInv

LEMMA StepCleanInv == CleanInv /\ [Next]_vars => CleanInv'
<1> SUFFICES ASSUME CleanInv, [Next]_vars PROVE CleanInv'
  OBVIOUS
<1>1. ProcessInv'
  BY StepProcessInv DEF CleanInv
<1>2. CASE UNCHANGED vars
  <2>1. UNCHANGED <<ceph, kube, process, history>>
    BY <1>2 DEF vars
  <2>2. KeyNeedsObject' /\ Progress' /\ NothingLeftBehind'
    BY <2>1 DEF CleanInv, KeyNeedsObject, Progress, NothingLeftBehind, ceph, kube, process, history
  <2> QED
    BY <1>1, <2>2 DEF CleanInv
<1>3. CASE Next
  <2>1. KeyNeedsObject' /\ Progress' /\ NothingLeftBehind'
    BY <1>1, <1>3, SetupStays, OthersClean, EarlyCallClean, ObjectCallClean, KeyCallClean, RemoveClean,
       EnvironmentClean DEF Next, Step, Reads
  <2> QED
    BY <1>1, <2>1 DEF CleanInv
<1> QED
  BY <1>2, <1>3

\* A subvolume or snapshot that is gone has no record in the CSI journal and no NFS
\* export, unless a call of its deletion failed.
THEOREM NothingStays == Spec => []NothingLeftBehind
<1>1. CleanInv => NothingLeftBehind
  BY DEF CleanInv
<1> QED
  BY <1>1, InitCleanInv, StepCleanInv, PTL DEF Spec

-----------------------------------------------------------------------------
(* A deletion of a snapshot that was cut off is not completed. *)

LEMMA StepCutOff ==
  ASSUME ProcessInv, Next, NEW s \in Snaps, CutOff(s)
  PROVE  CutOff(s)'
<1>1. CASE Calls
  <2>1. stage' = stage /\ pc \in VolumeSteps \cup SnapSteps
    BY <1>1, CallsKeep
  <2>2. object' \subseteq object
    BY <1>1, <2>1, CallsTake
  <2>3. s \in snaps'
    BY <1>1 DEF CutOff, Calls, SnapKey, SnapObject, SnapOmapKey, SnapRemove, VolKey, NfsExport,
                VolObject, VolOmapKey, VolRemove, Then, OrWarn, ceph
  <2>4. pc' \in {"snapObject", "snapOmapKey", "snapRemove"} => snap' # s
    BY <1>1 DEF CutOff, Calls, SnapKey, SnapObject, SnapOmapKey, SnapRemove, VolKey, NfsExport,
                VolObject, VolOmapKey, VolRemove, Then, Goto, End, FindsObject
  <2> QED
    BY <2>1, <2>2, <2>3, <2>4 DEF CutOff
<1>2. CASE (\E c \in Commands : Begin(c)) \/ ListPV \/ Reads \/ NextSnap \/ Die
  <2>1. UNCHANGED <<snaps, object, stage>>
    BY <1>2, OthersLeaveCeph DEF ceph, kube
  <2>2. pc' \notin {"snapObject", "snapOmapKey", "snapRemove"}
    BY <1>2 DEF Begin, ListPV, Reads, ListContent, ListVolumes, NextVolume, ListSnaps, NextSnap,
                Die, Goto, End
  <2> QED
    BY <2>1, <2>2 DEF CutOff
<1>3. CASE Environment
  <2>1. UNCHANGED process /\ stage'[s] # "new"
    BY <1>3, StagesAdvance DEF ProcessInv, CutOff, Things
  <2>2. s \in snaps' /\ s \notin object'
    BY <1>3, ThingsAssumption
    DEF CutOff, Environment, CreateVolume, CloneEnds, CreatePV, DropPV, RequestSnapshot,
        CutSnapshot, BindSnapshot, DropContent, ceph
  <2> QED
    BY <2>1, <2>2 DEF CutOff, process
<1> QED
  BY <1>1, <1>2, <1>3 DEF Next, Step, Calls, Reads

\* The omap object goes before the snapshot, and without it no later command gets at
\* the snapshot: a deletion that was cut off between them cannot be repeated.
THEOREM NoSecondTry == Spec => CutOffStays
<1>1. ProcessInv /\ [Next]_vars => [\A s \in Snaps : CutOff(s) => CutOff(s)']_vars
  BY StepCutOff
<1> QED
  BY <1>1, InitProcessInv, StepProcessInv, PTL DEF Spec, CutOffStays
=============================================================================
