------------------------------ MODULE RbdImages ------------------------------
(***************************************************************************)
(* `kubectl rook-ceph flatten-rbd-pvc` (pkg/flatten-rbd-pvc) and           *)
(* `kubectl rook-ceph rbd ls` (pkg/rbd), on the images of some pools.      *)
(*                                                                         *)
(* A volume is a PVC with its PV and its RBD image.  The image of a PVC    *)
(* that was cloned from another PVC has a temporary image between itself   *)
(* and the source, which the CSI driver leaves in the pool.  Flattening    *)
(* moves the temporary image to the trash and asks the mgr for a task that *)
(* flattens the image; any number of users do so, and list the images,     *)
(* while volumes are created, attached and deleted.                        *)
(***************************************************************************)
EXTENDS Naturals, Sequences, FiniteSets, SequencesExt

CONSTANTS
  Users,
  Volumes,
  Source,         \* [Volumes -> Sources], what a PVC was created from
  Pools,          \* names; a pool stands for its default namespace too
  NamespaceList,  \* [Pools -> sequence of CephBlockPoolRadosNamespaces]
  Space           \* [Volumes -> Spaces], the namespace its image is in

Sources == {"PersistentVolumeClaim", "VolumeSnapshot", "other kind", "none"}

RadosNamespaces == UNION {Range(NamespaceList[p]) : p \in Pools}
Spaces == Pools \cup RadosNamespaces

ASSUME VolumesAssumption ==
  /\ Volumes # {} /\ IsFiniteSet(Volumes) /\ Pools # {}
  /\ Source \in [Volumes -> Sources]
  /\ \A p \in Pools : NamespaceList[p] \in Seq(RadosNamespaces)
  /\ Space \in [Volumes -> Spaces] /\ Pools \cap RadosNamespaces = {}

VARIABLES
  claim,     \* [Volumes -> Phases], the PVC
  image,     \* [Volumes -> {"absent", "cloned", "flat"}]
  temp,      \* [Volumes -> {"absent", "pool", "trash"}], the temporary image
  watched,   \* [Volumes -> BOOLEAN], a pod has the image open
  tasks,     \* volumes the mgr has a task to flatten for
  pc,        \* [Users -> Labels], the next call
  cmd,       \* [Users -> [volume, allow]], arguments of flatten-rbd-pvc
  refused,   \* history: [Users -> BOOLEAN], the image was watched when it was checked
  failed,    \* history: [Users -> BOOLEAN], `rbd info' failed on a temporary image
  pool,      \* [Users -> Pools], the pool that `rbd ls' is at
  spaces,    \* [Users -> Seq(Spaces)], still to list
  images     \* [Users -> Seq([name, space])], imageList, with where each was found

volumeVars == <<claim, image, temp, watched, tasks>>
flattenVars == <<cmd, refused, failed>>
listVars == <<pool, spaces, images>>
vars == <<volumeVars, pc, flattenVars, listVars>>

Phases == {"absent", "pending", "bound", "deleting", "gone"}
Labels == {"idle", "getPVC", "getPV", "status", "info", "trash", "flatten",
           "listSpaces", "listImages", "print"}

\* What `rbd ls' can print for a volume, and what the code prints for none.
Names == Volumes \X {"image", "temp"}
NoImage == <<"---", "none">>
Entry == [name : Names \cup {NoImage}, space : Spaces]

TypeOK ==
  /\ claim \in [Volumes -> Phases]
  /\ image \in [Volumes -> {"absent", "cloned", "flat"}]
  /\ temp \in [Volumes -> {"absent", "pool", "trash"}]
  /\ watched \in [Volumes -> BOOLEAN] /\ tasks \subseteq Volumes
  /\ pc \in [Users -> Labels]
  /\ cmd \in [Users -> [volume : Volumes, allow : BOOLEAN]]
  /\ refused \in [Users -> BOOLEAN] /\ failed \in [Users -> BOOLEAN]
  /\ pool \in [Users -> Pools] /\ spaces \in [Users -> Seq(Spaces)]
  /\ images \in [Users -> Seq(Entry)]

NoCommand == [volume |-> CHOOSE v \in Volumes : TRUE, allow |-> FALSE]
SomePool == CHOOSE p \in Pools : TRUE

Init ==
  /\ claim = [v \in Volumes |-> "absent"] /\ image = [v \in Volumes |-> "absent"]
  /\ temp = [v \in Volumes |-> "absent"] /\ watched = [v \in Volumes |-> FALSE]
  /\ tasks = {}
  /\ pc = [u \in Users |-> "idle"]
  /\ cmd = [u \in Users |-> NoCommand]
  /\ refused = [u \in Users |-> FALSE] /\ failed = [u \in Users |-> FALSE]
  /\ pool = [u \in Users |-> SomePool] /\ spaces = [u \in Users |-> <<>>] /\ images = [u \in Users |-> <<>>]

-----------------------------------------------------------------------------
(* Both commands. *)

Goto(u, from, to) == pc[u] = from /\ pc' = [pc EXCEPT ![u] = to]

\* The process ends, and what it knew with it.
End(u) ==
  /\ pc' = [pc EXCEPT ![u] = "idle"]
  /\ cmd' = [cmd EXCEPT ![u] = NoCommand]
  /\ refused' = [refused EXCEPT ![u] = FALSE] /\ failed' = [failed EXCEPT ![u] = FALSE]
  /\ pool' = [pool EXCEPT ![u] = SomePool]
  /\ spaces' = [spaces EXCEPT ![u] = <<>>] /\ images' = [images EXCEPT ![u] = <<>>]

\* RunCommandInOperatorPod: the output goes to the user's terminal or to the
\* caller, who otherwise gets an empty string.
Answer(returnOutput, output) == IF returnOutput THEN output ELSE {}

\* A call that fails, or whose condition does not hold, ends the process.
Die(u) == pc[u] # "idle" /\ End(u) /\ UNCHANGED volumeVars

-----------------------------------------------------------------------------
(* flatten-rbd-pvc.  Its rbd commands name the pool and no rados namespace. *)

Found(v) == image[v] # "absent" /\ Space[v] \in Pools
TempFound(v) == temp[v] = "pool" /\ Space[v] \in Pools

BeginFlatten(u) ==
  /\ Goto(u, "idle", "getPVC")
  /\ \E v \in Volumes, allow \in BOOLEAN : cmd' = [cmd EXCEPT ![u] = [volume |-> v, allow |-> allow]]
  /\ UNCHANGED <<volumeVars, refused, failed, listVars>>

\* A PVC that was created from nothing is let through.
GetPVC(u) ==
  /\ claim[cmd[u].volume] = "bound" /\ Source[cmd[u].volume] # "other kind"
  /\ Goto(u, "getPVC", "getPV")
  /\ UNCHANGED <<volumeVars, flattenVars, listVars>>

\* shouldDeleteTempImage
AfterCheck(v) == IF Source[v] = "PersistentVolumeClaim" THEN "info" ELSE "flatten"

GetPV(u) ==
  /\ image[cmd[u].volume] # "absent"
  /\ Goto(u, "getPV", IF cmd[u].allow THEN AfterCheck(cmd[u].volume) ELSE "status")
  /\ UNCHANGED <<volumeVars, flattenVars, listVars>>

\* `rbd status' lists the watchers, but is not asked to return its output.
Status(u) ==
  LET v == cmd[u].volume
      watchers == Answer(FALSE, IF watched[v] THEN {v} ELSE {})
  IN /\ Found(v) /\ watchers = {}
     /\ Goto(u, "status", AfterCheck(v))
     /\ refused' = [refused EXCEPT ![u] = watched[v]]
     /\ UNCHANGED <<volumeVars, cmd, failed, listVars>>

\* deleteTempImage: when `rbd info' fails, as it does for an image in a rados
\* namespace, the temporary image is left alone.
Info(u) ==
  /\ \/ /\ TempFound(cmd[u].volume) /\ Goto(u, "info", "trash") /\ UNCHANGED failed
     \/ Goto(u, "info", "flatten") /\ failed' = [failed EXCEPT ![u] = temp[cmd[u].volume] = "pool"]
  /\ UNCHANGED <<volumeVars, cmd, refused, listVars>>

\* Wrong: the temporary image is left to the flattened image.
TrashLater(u) ==
  /\ TempFound(cmd[u].volume) /\ Goto(u, "trash", "flatten")
  /\ UNCHANGED <<volumeVars, flattenVars, listVars>>

\* `rbd info' was not asked to return its output either, and without the id of
\* the image no task is created that removes it from the trash.
Trash(u) ==
  /\ TempFound(cmd[u].volume) /\ Goto(u, "trash", "flatten")
  /\ temp' = [temp EXCEPT ![cmd[u].volume] = "trash"]
  /\ UNCHANGED <<claim, image, watched, tasks, flattenVars, listVars>>

\* Wrong: the task is added for the command, not for its image.
FlattenCommand(u) ==
  /\ pc[u] = "flatten" /\ Found(cmd[u].volume) /\ image[cmd[u].volume] = "cloned"
  /\ tasks' = tasks \cup {cmd[u]}
  /\ End(u)
  /\ UNCHANGED <<claim, image, temp, watched>>

\* The mgr accepts the task when the image has a parent.
Flatten(u) ==
  /\ pc[u] = "flatten" /\ Found(cmd[u].volume) /\ image[cmd[u].volume] = "cloned"
  /\ tasks' = tasks \cup {cmd[u].volume}
  /\ End(u)
  /\ UNCHANGED <<claim, image, temp, watched>>

-----------------------------------------------------------------------------
(* rbd ls. *)

BeginList(u) ==
  /\ Goto(u, "idle", "listSpaces")
  /\ UNCHANGED <<volumeVars, flattenVars, listVars>>

\* fetchBlockPoolNamespaces: a pool that has rados namespaces is listed in these
\* alone, one that has none in the default one.  The pools are listed one by one
\* and independently of each other: the process is followed at one of them.
ListSpaces(u) ==
  /\ Goto(u, "listSpaces", "listImages")
  /\ \E p \in Pools :
       /\ pool' = [pool EXCEPT ![u] = p]
       /\ spaces' = [spaces EXCEPT ![u] = IF NamespaceList[p] = <<>> THEN <<p>> ELSE NamespaceList[p]]
  /\ UNCHANGED <<volumeVars, flattenVars, images>>

NamesIn(s) ==
  {<<v, "image">> : v \in {w \in Volumes : Space[w] = s /\ image[w] # "absent"}} \cup
  {<<v, "temp">> : v \in {w \in Volumes : Space[w] = s /\ temp[w] = "pool"}}

\* Wrong: nothing stands for an empty namespace.
BareImages(s) == SetToSeq({[name |-> n, space |-> s] : n \in NamesIn(s)})

GetRBDImages(s) ==
  IF NamesIn(s) = {} THEN <<[name |-> NoImage, space |-> s]>>
  ELSE SetToSeq({[name |-> n, space |-> s] : n \in NamesIn(s)})

\* One round of retrieveRBDImages.
ListImages(u) ==
  /\ spaces[u] # <<>>
  /\ Goto(u, "listImages", IF Len(spaces[u]) = 1 THEN "print" ELSE "listImages")
  /\ images' = [images EXCEPT ![u] = @ \o GetRBDImages(Head(spaces[u]))]
  /\ spaces' = [spaces EXCEPT ![u] = Tail(@)]
  /\ UNCHANGED <<volumeVars, flattenVars, pool>>

\* The rows of printBlockPoolNames: the namespaces are matched with the images by
\* their position.
Rows(u) ==
  LET namespaces == NamespaceList[pool[u]]
  IN IF namespaces = <<>>
     THEN [i \in DOMAIN images[u] |-> [name |-> images[u][i].name, space |-> pool[u]]]
     ELSE [i \in DOMAIN namespaces |-> [name |-> images[u][i].name, space |-> namespaces[i]]]

PrintRows(u) == pc[u] = "print" /\ Rows(u) # <<>> /\ End(u) /\ UNCHANGED volumeVars

-----------------------------------------------------------------------------
(* The CSI driver, the pods and their owners, and the mgr (external). *)

Request(v) ==
  /\ claim[v] = "absent" /\ claim' = [claim EXCEPT ![v] = "pending"]
  /\ UNCHANGED <<image, temp, watched, tasks>>

CreateTemp(v) ==
  /\ claim[v] = "pending" /\ Source[v] = "PersistentVolumeClaim"
  /\ image[v] = "absent" /\ temp[v] = "absent"
  /\ temp' = [temp EXCEPT ![v] = "pool"]
  /\ UNCHANGED <<claim, image, watched, tasks>>

CreateImage(v) ==
  /\ claim[v] = "pending" /\ image[v] = "absent"
  /\ Source[v] = "PersistentVolumeClaim" => temp[v] = "pool"
  /\ image' = [image EXCEPT ![v] =
       IF Source[v] \in {"PersistentVolumeClaim", "VolumeSnapshot"} THEN "cloned" ELSE "flat"]
  /\ UNCHANGED <<claim, temp, watched, tasks>>

Bind(v) ==
  /\ claim[v] = "pending" /\ image[v] # "absent" /\ claim' = [claim EXCEPT ![v] = "bound"]
  /\ UNCHANGED <<image, temp, watched, tasks>>

Attach(v) ==
  /\ claim[v] = "bound" /\ ~watched[v] /\ watched' = [watched EXCEPT ![v] = TRUE]
  /\ UNCHANGED <<claim, image, temp, tasks>>

Detach(v) ==
  /\ watched[v] /\ watched' = [watched EXCEPT ![v] = FALSE]
  /\ UNCHANGED <<claim, image, temp, tasks>>

DeletePVC(v) ==
  /\ claim[v] = "bound" /\ claim' = [claim EXCEPT ![v] = "deleting"]
  /\ UNCHANGED <<image, temp, watched, tasks>>

\* DeleteVolume looks for the temporary image by its name.
DeleteVolume(v) ==
  /\ claim[v] = "deleting" /\ ~watched[v]
  /\ claim' = [claim EXCEPT ![v] = "gone"] /\ image' = [image EXCEPT ![v] = "absent"]
  /\ temp' = [temp EXCEPT ![v] = IF @ = "pool" THEN "absent" ELSE @]
  /\ tasks' = tasks \ {v}
  /\ UNCHANGED watched

RunTask(v) ==
  /\ v \in tasks /\ tasks' = tasks \ {v} /\ image' = [image EXCEPT ![v] = "flat"]
  /\ UNCHANGED <<claim, temp, watched>>

Environment ==
  /\ \E v \in Volumes :
       \/ Request(v) \/ CreateTemp(v) \/ CreateImage(v) \/ Bind(v) \/ Attach(v) \/ Detach(v)
       \/ DeletePVC(v) \/ DeleteVolume(v) \/ RunTask(v)
  /\ UNCHANGED <<pc, flattenVars, listVars>>

Next ==
  \/ \E u \in Users :
       \/ BeginFlatten(u) \/ GetPVC(u) \/ GetPV(u) \/ Status(u) \/ Info(u) \/ Trash(u) \/ Flatten(u)
       \/ BeginList(u) \/ ListSpaces(u) \/ ListImages(u) \/ PrintRows(u) \/ Die(u)
  \/ Environment

Spec == Init /\ [][Next]_vars

-----------------------------------------------------------------------------
(* Properties. *)

\* The temporary image of a cloned PVC is out of the pool before its image is
\* flattened, whoever else flattens or deletes it, unless `rbd info' failed.
TempGoesFirst ==
  \A u \in Users :
    LET v == cmd[u].volume
    IN pc[u] = "flatten" /\ Source[v] = "PersistentVolumeClaim" /\ ~failed[u] => temp[v] # "pool"

\* Every row that is printed has an image, so the index of printBlockPoolNames is
\* never out of range; and as long as no namespace was found to have several
\* images, each row shows what is in the namespace it names.  Images come and go
\* while the namespaces are listed.
RowsHaveImages ==
  \A u \in Users : pc[u] = "print" =>
    LET single == \A i, j \in DOMAIN images[u] : images[u][i].space = images[u][j].space => i = j
    IN /\ Len(images[u]) >= Len(NamespaceList[pool[u]])
       /\ single => \A i \in DOMAIN Rows(u) : Rows(u)[i] = images[u][i]

\* flatten_rbd_pvc.go:73, "flatten in-use pvc %s is not allowed": a process without
\* --allow-in-use goes no further when it found the image watched.
InUseIsRefused ==
  \A u \in Users : pc[u] \in {"info", "trash", "flatten"} /\ ~cmd[u].allow => ~refused[u]
=============================================================================
