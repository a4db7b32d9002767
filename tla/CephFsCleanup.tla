--------------------------- MODULE CephFsCleanup ---------------------------
(***************************************************************************)
(* `kubectl rook-ceph subvolume ls|delete' and `cephfs-snap ls|delete'     *)
(* (pkg/filesystem): what the plugin takes for stale is what Kubernetes    *)
(* did not refer to when it looked, and it deletes that in several calls,  *)
(* while the CSI driver goes on creating and dropping volumes.             *)
(*                                                                         *)
(* A volume or snapshot is the UUID its names are made of.  Each has, in   *)
(* Ceph, a subvolume or snapshot and two records of the CSI journal (an    *)
(* omap object and an omap key), and, in Kubernetes, a PV or a             *)
(* VolumeSnapshotContent.  One filesystem and one subvolume group.         *)
(***************************************************************************)
EXTENDS Naturals

CONSTANTS
  Vols, Snaps,   \* UUIDs of volumes and of snapshots
  Of,            \* [Snaps -> Vols], the volume a snapshot is taken of
  Setups         \* the ways the storage classes of the cluster may be set up

Things == Vols \cup Snaps

ASSUME ThingsAssumption ==
  /\ Vols \cap Snaps = {} /\ Of \in [Snaps -> Vols]
  /\ Setups \subseteq [nfs : SUBSET Vols, odd : SUBSET Things, custom : SUBSET Things]

VARIABLES
  sub,        \* [Vols -> {"none", "pending", "ready", "retained"}], the subvolume
  snaps,      \* the snapshots that exist in Ceph
  object,     \* Things that have their omap object
  key,        \* Things that have their omap key
  exports,    \* volumes whose NFS export exists
  pv,         \* volumes a PV refers to
  content,    \* [Snaps -> {"none", "unbound", "bound"}], VolumeSnapshotContent
  stage,      \* [Things -> {"new", "busy", "done"}], how far the CSI driver is
  nfs,        \* volumes of the NFS driver: exported, and their PVs name that driver
  odd,        \* what has a CSI handle that cannot be read: it is short, or, where the PV
              \* names no prefix, not of version 1
  custom,     \* what has a configured name prefix that is not made of two parts, each
              \* with a dash at its end, as csi-vol- is
  cmd,        \* the command that runs, or ran last
  pc,         \* its next call; "idle" when it is over
  refs,       \* what Kubernetes referred to when it looked
  todo,       \* subvolumes it has listed and not yet looked at
  todoSnaps,  \* snapshots of the current one that it took for stale
  vol, snap,  \* the volume and the snapshot it works on
  omapkey,    \* it has learned the omap key of that one
  unsettled,  \* history: what was not "done" when the command began
  hasty,      \* history: unsettled things it began to delete
  faulted     \* history: deletions that were cut off, or went on after an error

ceph == <<sub, snaps, object, key, exports>>
setup == <<nfs, odd, custom>>
kube == <<pv, content, stage, nfs, odd, custom>>
process == <<cmd, pc, refs, todo, todoSnaps, vol, snap, omapkey>>
history == <<unsettled, hasty, faulted>>
vars == <<ceph, kube, process, history>>

NoVol == "no volume"
NoSnap == "no snapshot"

Commands == {"subvolume ls", "subvolume ls --stale", "subvolume delete",
             "cephfs-snap ls", "cephfs-snap delete"}
VolumeSteps == {"volKey", "nfsExport", "volObject", "volOmapKey", "volRemove"}
SnapSteps == {"snapKey", "snapObject", "snapOmapKey", "snapRemove"}

TypeOK ==
  /\ sub \in [Vols -> {"none", "pending", "ready", "retained"}]
  /\ snaps \subseteq Snaps /\ object \subseteq Things /\ key \subseteq Things
  /\ exports \subseteq nfs /\ pv \subseteq Vols
  /\ content \in [Snaps -> {"none", "unbound", "bound"}]
  /\ stage \in [Things -> {"new", "busy", "done"}]
  /\ nfs \subseteq Vols /\ odd \subseteq Things /\ custom \subseteq Things
  /\ cmd \in Commands \cup {"none"}
  /\ pc \in {"idle", "listPV", "listContent", "listVolumes", "nextVolume", "listSnaps",
             "nextSnap"} \cup VolumeSteps \cup SnapSteps
  /\ refs \subseteq Things /\ todo \subseteq Vols /\ todoSnaps \subseteq Snaps
  /\ vol \in Vols \cup {NoVol} /\ snap \in Snaps \cup {NoSnap}
  /\ omapkey \in BOOLEAN
  /\ pc = "idle" => refs = {} /\ todo = {} /\ todoSnaps = {} /\ vol = NoVol /\ snap = NoSnap
  /\ unsettled \subseteq Things /\ hasty \subseteq Things /\ faulted \subseteq Things

Init ==
  /\ sub = [v \in Vols |-> "none"] /\ snaps = {} /\ object = {} /\ key = {} /\ exports = {}
  /\ pv = {} /\ content = [s \in Snaps |-> "none"] /\ stage = [x \in Things |-> "new"]
  /\ \E c \in Setups : nfs = c.nfs /\ odd = c.odd /\ custom = c.custom
  /\ cmd = "none" /\ pc = "idle" /\ refs = {} /\ todo = {} /\ todoSnaps = {}
  /\ vol = NoVol /\ snap = NoSnap /\ omapkey = FALSE
  /\ unsettled = {} /\ hasty = {} /\ faulted = {}

-----------------------------------------------------------------------------
(* The commands. *)

SnapsOf(v) == {s \in snaps : Of[s] = v}

\* What refers to x is passed over unless its driver is that of CephFS, which does not
\* serve the volumes of the NFS driver and their snapshots, and its handle is readable.
Recognised(x) == /\ x \notin odd
                 /\ IF x \in Vols THEN x \notin nfs ELSE Of[x] \notin nfs

\* getOmapVal and getSnapOmapVal take what follows the second dash of a name for
\* the UUID: right after csi-vol- and csi-snap-, not after any prefix.
NamesItsUuid(x) == x \notin custom

\* Wrong: a handle in the status of a snapshot's content is never matched.
MatchesVolumes(x) == x \in refs /\ x \in Vols

\* generateResourceNameFromCSIHandle builds the name of a subvolume with the prefix
\* the PV has; a snapshot's UUID is the tail of its handle.  A custom snapshot name
\* yields another id than its handle does.
TakenForReferred(x) == x \in refs /\ (x \in Vols \/ NamesItsUuid(x))

\* the omap object of x is found under the name derived for it
FindsObject(x) == NamesItsUuid(x) /\ x \in object

\* Wrong: the references are kept for the next command.
EndWithCache == /\ pc' = "idle" /\ todo' = {} /\ todoSnaps' = {}
                /\ vol' = NoVol /\ snap' = NoSnap /\ omapkey' = FALSE /\ UNCHANGED <<cmd, refs>>

End == /\ pc' = "idle" /\ refs' = {} /\ todo' = {} /\ todoSnaps' = {}
       /\ vol' = NoVol /\ snap' = NoSnap /\ omapkey' = FALSE /\ UNCHANGED cmd

Goto(to) == pc' = to /\ UNCHANGED cmd

Begin(c) ==
  /\ pc = "idle" /\ cmd' = c
  /\ unsettled' = {x \in Things : stage[x] # "done"}
  /\ \/ c \in {"subvolume ls", "subvolume ls --stale"} /\ pc' = "listPV" /\ UNCHANGED <<vol, snap>>
     \/ c = "cephfs-snap ls" /\ pc' = "listContent" /\ UNCHANGED <<vol, snap>>
     \/ /\ c = "subvolume delete" /\ pc' = "listPV"
        /\ vol' \in {v \in Vols : sub[v] # "none"} /\ UNCHANGED snap
     \/ c = "cephfs-snap delete" /\ pc' = "listContent" /\ snap' \in snaps /\ UNCHANGED vol
  /\ UNCHANGED <<ceph, kube, refs, todo, todoSnaps, omapkey, hasty, faulted>>

\* The thing the command is about to delete, and what it knew of it.
BeginDeletion(x) == hasty' = hasty \cup ({x} \cap unsettled) /\ UNCHANGED <<unsettled, faulted>>

\* getK8sRefSubvolume
ListPV ==
  /\ pc = "listPV"
  /\ \/ /\ cmd # "subvolume delete"
        /\ Goto("listContent") /\ refs' = {v \in pv : Recognised(v)}
        /\ UNCHANGED <<todo, todoSnaps, vol, snap, omapkey, history>>
     \/ cmd = "subvolume delete" /\ vol \in pv /\ Recognised(vol) /\ End /\ UNCHANGED history
     \/ /\ cmd = "subvolume delete" /\ ~(vol \in pv /\ Recognised(vol))
        /\ Goto("volKey") /\ BeginDeletion(vol)
        /\ UNCHANGED <<refs, todo, todoSnaps, vol, snap, omapkey>>
  /\ UNCHANGED <<ceph, kube>>

\* getK8sRefSnapshotHandle: a content whose status has no handle is passed over
ListContent ==
  /\ pc = "listContent"
  /\ refs' = refs \cup {s \in Snaps : content[s] = "bound" /\ Recognised(s)}
  /\ Goto(IF cmd = "cephfs-snap delete" THEN "nextSnap" ELSE "listVolumes")
  /\ todoSnaps' = IF cmd = "cephfs-snap delete" THEN {snap} ELSE {}
  /\ UNCHANGED <<ceph, kube, todo, vol, snap, omapkey, history>>

\* fs subvolume ls
ListVolumes ==
  /\ pc = "listVolumes" /\ Goto("nextVolume")
  /\ todo' = {v \in Vols : sub[v] # "none"}
  /\ UNCHANGED <<ceph, kube, refs, todoSnaps, vol, snap, omapkey, history>>

\* One round of the loop over the subvolumes.  `subvolume ls' asks for the state of
\* each: one that is not ready, is referred to, or is retained for its snapshots is
\* only printed or left out, and one that is gone by now is fatal.
NextVolume ==
  /\ pc = "nextVolume"
  /\ \/ todo = {} /\ End
     \/ \E v \in todo :
          \/ /\ cmd = "cephfs-snap ls" \/ TakenForReferred(v) \/ sub[v] \in {"pending", "retained"}
             /\ cmd # "cephfs-snap ls" => sub[v] # "none"
             /\ todo' = todo \ {v} /\ UNCHANGED <<cmd, pc, refs, todoSnaps, vol, snap, omapkey>>
          \/ /\ cmd # "cephfs-snap ls" /\ ~TakenForReferred(v) /\ sub[v] = "ready"
             /\ todo' = todo \ {v} /\ vol' = v /\ Goto("listSnaps")
             /\ UNCHANGED <<refs, todoSnaps, snap, omapkey>>
          \/ cmd # "cephfs-snap ls" /\ sub[v] = "none" /\ End
  /\ UNCHANGED <<ceph, kube, history>>

\* checkSnapshot: the snapshots of a stale subvolume; an error is logged and taken
\* for "none"
ListSnaps ==
  /\ pc = "listSnaps" /\ Goto("nextSnap")
  /\ todoSnaps' \in {SnapsOf(vol), {}}
  /\ UNCHANGED <<ceph, kube, refs, todo, vol, snap, omapkey, history>>

\* A snapshot Kubernetes did not refer to is deleted; in `cephfs-snap delete' the
\* one named by the user.
NextSnap ==
  /\ pc = "nextSnap"
  /\ \/ /\ todoSnaps = {}
        /\ \/ cmd = "cephfs-snap delete" /\ End
           \/ /\ cmd # "cephfs-snap delete" /\ Goto("nextVolume") /\ vol' = NoVol /\ snap' = NoSnap
              /\ UNCHANGED <<refs, todo, todoSnaps, omapkey>>
        /\ UNCHANGED history
     \/ \E s \in todoSnaps :
          /\ todoSnaps' = todoSnaps \ {s}
          /\ \/ TakenForReferred(s) /\ UNCHANGED <<cmd, pc, snap, history>>
             \/ ~TakenForReferred(s) /\ Goto("snapKey") /\ snap' = s /\ BeginDeletion(s)
          /\ UNCHANGED <<refs, todo, vol, omapkey>>
  /\ UNCHANGED <<ceph, kube>>

\* A call that may fail and is only warned about: it has its effect, or a fault.
OrWarn(effect, x) ==
  \/ effect /\ UNCHANGED faulted
  \/ UNCHANGED ceph /\ faulted' = faulted \cup {x}

Then(from, to) ==
  /\ pc = from /\ Goto(to)
  /\ UNCHANGED <<kube, refs, todo, todoSnaps, vol, snap, unsettled, hasty>>

\* Wrong: the journal record may be missing.
SnapKeyIfAny ==
  /\ Then("snapKey", "snapObject") /\ omapkey' = FindsObject(snap)
  /\ UNCHANGED <<ceph, faulted>>

\* getSnapOmapKey: anything but an answer is fatal
SnapKey ==
  /\ Then("snapKey", "snapObject") /\ FindsObject(snap) /\ omapkey' = TRUE
  /\ UNCHANGED <<ceph, faulted>>

SnapObject ==
  /\ Then("snapObject", "snapOmapKey")
  /\ OrWarn(object' = object \ {snap} /\ UNCHANGED <<sub, snaps, key, exports>>, snap)
  /\ UNCHANGED omapkey

SnapOmapKey ==
  /\ Then("snapOmapKey", "snapRemove")
  /\ OrWarn(key' = key \ {snap} /\ UNCHANGED <<sub, snaps, object, exports>>, snap)
  /\ UNCHANGED omapkey

\* A subvolume retained for its snapshots goes with the last of them.
SnapRemove ==
  /\ Then("snapRemove", "nextSnap") /\ snap \in snaps
  /\ snaps' = snaps \ {snap}
  /\ sub' = [sub EXCEPT ![Of[snap]] =
               IF @ = "retained" /\ SnapsOf(Of[snap]) = {snap} THEN "none" ELSE @]
  /\ omapkey' = FALSE
  /\ UNCHANGED <<object, key, exports, faulted>>

\* getOmapKey: an error is taken for "no PV found"
VolKey ==
  /\ Then("volKey", "nfsExport")
  /\ \/ omapkey' = FindsObject(vol) /\ UNCHANGED faulted
     \/ omapkey' = FALSE /\ faulted' = faulted \cup {vol}
  /\ UNCHANGED ceph

\* getNfsClusterName, getNfsExportPath and the deletion of the export
NfsExport ==
  /\ Then("nfsExport", "volObject")
  /\ \/ FindsObject(vol) /\ exports' = exports \ {vol} /\ UNCHANGED <<sub, snaps, object, key, faulted>>
     \/ ~FindsObject(vol) /\ UNCHANGED <<ceph, faulted>>
     \/ UNCHANGED ceph /\ faulted' = faulted \cup {vol}
  /\ UNCHANGED omapkey

\* Wrong: the omap key is left where it is.
VolObjectOnly ==
  /\ Then("volObject", "volRemove")
  /\ OrWarn(FindsObject(vol) /\ object' = object \ {vol} /\ UNCHANGED <<sub, snaps, key, exports>>, vol)
  /\ UNCHANGED omapkey

VolObject ==
  /\ Then("volObject", IF omapkey THEN "volOmapKey" ELSE "volRemove")
  /\ OrWarn(FindsObject(vol) /\ object' = object \ {vol} /\ UNCHANGED <<sub, snaps, key, exports>>, vol)
  /\ UNCHANGED omapkey

VolOmapKey ==
  /\ Then("volOmapKey", "volRemove")
  /\ OrWarn(key' = key \ {vol} /\ UNCHANGED <<sub, snaps, object, exports>>, vol)
  /\ UNCHANGED omapkey

\* fs subvolume rm --retain-snapshots; fails for a pending clone
VolRemove ==
  /\ pc = "volRemove" /\ sub[vol] \in {"ready", "retained"} /\ End
  /\ sub' = [sub EXCEPT ![vol] = IF SnapsOf(vol) = {} THEN "none" ELSE "retained"]
  /\ UNCHANGED <<kube, snaps, object, key, exports, history>>

\* Killed, or a fatal error (in particular: the call it is at cannot succeed).
Die ==
  /\ pc # "idle" /\ End
  /\ faulted' = faulted \cup (IF pc \in VolumeSteps THEN {vol} ELSE {})
                        \cup (IF pc \in SnapSteps THEN {snap} ELSE {})
  /\ UNCHANGED <<ceph, kube, unsettled, hasty>>

Step ==
  \/ ListPV \/ ListContent \/ ListVolumes \/ NextVolume \/ ListSnaps \/ NextSnap
  \/ SnapKey \/ SnapObject \/ SnapOmapKey \/ SnapRemove
  \/ VolKey \/ NfsExport \/ VolObject \/ VolOmapKey \/ VolRemove

-----------------------------------------------------------------------------
(* The CSI driver, its sidecars and the administrator (external). *)

CreateVolume(v) ==      \* journal records and subvolume, maybe a clone still pending
  /\ stage[v] = "new" /\ stage' = [stage EXCEPT ![v] = "busy"]
  /\ object' = object \cup {v} /\ key' = key \cup {v}
  /\ exports' = exports \cup ({v} \cap nfs)
  /\ \E state \in {"pending", "ready"} : sub' = [sub EXCEPT ![v] = state]
  /\ UNCHANGED <<snaps, pv, content, setup, process, history>>

CloneEnds(v) ==
  /\ sub[v] = "pending" /\ sub' = [sub EXCEPT ![v] = "ready"]
  /\ UNCHANGED <<snaps, object, key, exports, kube, process, history>>

CreatePV(v) ==          \* the driver has answered; its answer may be old by now
  /\ stage[v] = "busy" /\ sub[v] # "pending"
  /\ stage' = [stage EXCEPT ![v] = "done"] /\ pv' = pv \cup {v}
  /\ UNCHANGED <<ceph, content, setup, process, history>>

DropPV(v) ==            \* reclaim policy Retain
  /\ v \in pv /\ pv' = pv \ {v}
  /\ UNCHANGED <<ceph, content, stage, setup, process, history>>

RequestSnapshot(s) ==
  /\ stage[s] = "new" /\ content[s] = "none" /\ Of[s] \in pv
  /\ content' = [content EXCEPT ![s] = "unbound"]
  /\ UNCHANGED <<ceph, pv, stage, setup, process, history>>

CutSnapshot(s) ==
  /\ stage[s] = "new" /\ content[s] = "unbound" /\ sub[Of[s]] = "ready"
  /\ stage' = [stage EXCEPT ![s] = "busy"]
  /\ snaps' = snaps \cup {s} /\ object' = object \cup {s} /\ key' = key \cup {s}
  /\ UNCHANGED <<sub, exports, pv, content, setup, process, history>>

BindSnapshot(s) ==
  /\ stage[s] = "busy" /\ stage' = [stage EXCEPT ![s] = "done"]
  /\ content' = [content EXCEPT ![s] = "bound"]
  /\ UNCHANGED <<ceph, pv, setup, process, history>>

DropContent(s) ==       \* deletion policy Retain
  /\ content[s] = "bound" /\ content' = [content EXCEPT ![s] = "none"]
  /\ UNCHANGED <<ceph, pv, stage, setup, process, history>>

Environment ==
  \/ \E v \in Vols : CreateVolume(v) \/ CloneEnds(v) \/ CreatePV(v) \/ DropPV(v)
  \/ \E s \in Snaps : RequestSnapshot(s) \/ CutSnapshot(s) \/ BindSnapshot(s) \/ DropContent(s)

Next == (\E c \in Commands : Begin(c)) \/ Step \/ Die \/ Environment

Spec == Init /\ [][Next]_vars

-----------------------------------------------------------------------------
(* Properties. *)

VolumeIntact(v) == sub[v] = "ready" /\ v \in object /\ v \in key
SnapIntact(s) == s \in snaps /\ s \in object /\ s \in key

\* Whatever a PV or a snapshot content refers to that the plugin recognises is whole
\* in Ceph, and stays so through any number of listings and deletions, complete or cut
\* off -- save what the CSI driver was still creating when the command that deleted it
\* began.  Of a volume of the NFS driver it is not so: its PV is not recognised.
SettledThingsSurvive ==
  /\ \A v \in pv \ hasty : Recognised(v) => VolumeIntact(v)
  /\ \A s \in Snaps \ hasty : content[s] = "bound" /\ Recognised(s) => SnapIntact(s)

\* A subvolume or snapshot that is gone has left nothing behind in the CSI journal,
\* nor an NFS export, unless a call of its deletion failed.
NothingLeftBehind ==
  \A x \in Things \ faulted :
    /\ x \notin custom /\ stage[x] # "new"
    /\ x \in Vols => sub[x] \in {"none", "retained"}
    /\ x \in Snaps => x \notin snaps
    => x \notin object \cup key \cup exports

\* A snapshot that lost its omap object to a deletion that was cut off is never
\* deleted by a later one: getSnapOmapKey finds no object, and is fatal.
CutOff(s) == /\ s \in snaps /\ stage[s] # "new" /\ s \notin object
             /\ pc \in {"snapObject", "snapOmapKey", "snapRemove"} => snap # s
CutOffStays == [][\A s \in Snaps : CutOff(s) => CutOff(s)']_vars
=============================================================================
