# TLA+ models of kubectl-rook-ceph

`kubectl-rook-ceph` is a kubectl plugin: every command is a short-lived process that reads and changes
a running Rook cluster through the Kubernetes API and through `ceph` commands executed in a pod, while
the Rook operator, Kubernetes' controllers, the CSI driver and other users go on changing the same
objects. A command has no transaction and no memory. What makes it right or wrong is the order of its
calls, what it read before it acted, and what it leaves behind when it is cut off half-way. That is
what these specifications are about.

## 1. Inventory

| Part (source) | State | Operations | What is hard | What makes it correct |
|---|---|---|---|---|
| Maintenance mode (`pkg/maintenance`) | two Deployments of one mon or OSD, and their pods | `start`, `stop` | two users; a command cut off between two calls; waits that poll and give up; the pods follow at their own pace | the two deployments never both serve the daemon; a command that returns leaves exactly one in charge; every command returns; a stop brings the daemon back |
| Mon quorum restore (`pkg/mons`) | the monmap in the good mon's store, `rook-ceph-mon-endpoints`, Deployments, Services and PVCs of the mons, scale of the operator | `restore-quorum` | destructive; calls maintenance mode; the operator is still running at first; repeated after a failure | no mon's volume is deleted while the monmap counts on it; nothing is purged before the quorum responds; it ends |
| CephFS cleanup (`pkg/filesystem`) | subvolumes, snapshots, CSI journal (omap objects and keys), NFS exports; PVs, VolumeSnapshotContents | `subvolume ls`, `ls --stale`, `delete`, `cephfs-snap ls`, `delete` | staleness is judged from a list that ages; deletion is five calls, some of which may fail and be passed over | what is in use survives; a complete deletion leaves nothing behind |
| Restore of deleted CRs (`pkg/restore`, `pkg/k8sutil/dynamic.go`) | a CR, its UID and finalizers; owner references of what it owns | `restore-deleted` | the CR is deleted for good and created again under a new UID; the garbage collector; the operator re-adopts | nothing is garbage-collected; the CR is absent only between two calls |
| Kubernetes helpers (`pkg/k8sutil/k8sutil.go`) | none | scale, wait for a pod, restart, update a ConfigMap, delete a Deployment | read-modify-write; polls | modelled where they are called |
| Exec in pods (`pkg/exec`) | none | run a command in the first pod of a label | the pod may be the wrong one or be gone | modelled where it matters (the maintenance pod; the output a caller gets; a Ceph command without a quorum) |
| Operator logs (`pkg/k8sutil/logs.go`) | last pod, time of the last read | `operator logs`, `-f`, `-p`, `--tail`, `--since` | rollouts, restarts, broken streams; the checkpoint is a time | no line is skipped while an instance can be read to its end, none is repeated more than once, a replacement pod is read from its beginning |
| Operator configuration (`cmd/commands/operator.go`, `UpdateConfigMap`, `RestartDeployment`) | `rook-ceph-operator-config`; the pod template of the operator's Deployment | `set`, `restart` | read-modify-write of the whole object by several users; lost answers; a rollout that meets other commands' scaling | a request changes the one property it names, or nothing; no request undoes another; a restart replaces the pod |
| Flatten RBD PVC (`pkg/flatten-rbd-pvc`) | the image, its watchers, the temporary image of a clone, the mgr's tasks | `flatten-rbd-pvc` | check, then act; several users, and deletion of the volume, in between | an image in use is not flattened; the temporary image goes before the flatten |
| Destroy cluster (`pkg/crds`) | all CRs, their finalizers, deployments and jobs | `destroy-cluster` | the operator works against it; repeated after a failure; waits with a timeout | nothing it found is left; it ends |
| RBD image list (`pkg/rbd`) | none | `rbd ls` | lists of images and of rados namespaces are combined by index; images come and go while they are listed | every row has an image, of the namespace it names |
| Health report (`pkg/health`) | the answer of `ceph -s`, kept for the report | `health` | the report takes as long as ten calls on a cluster that changes; calls fail; thresholds, and how ratings combine | a steady cluster is rated rightly; an all-clear was true of every list at some time; no failed call is lost |
| DR health (`pkg/dr`) | none | `dr health` | two clusters, two namespaces | asks the right cluster in the right namespace |
| Purge OSD, status (`pkg/rook`) | none | `rook purge-osd`, `rook status` | one exec | - |
| Command wiring (`cmd`) | flags, clients | the check that the operator's pod runs | - | - |
| Pass-through (`ceph`, `rados`, `radosgw-admin`, custom exec, multus) | none | one exec each | - | - |

Interactions: `restore-quorum` calls `StartMaintenance` and `StopMaintenance` as procedures and waits
in them; all commands share the Deployments, ConfigMaps and CRs with the Rook operator, and the
CephFS commands share the journal with the CSI driver. Commands never talk to each other: they meet
only in the objects they change.

The hazards of this code, each at its line, are listed in `PROJECT.json`.

## 2. Modules

| Module | Models |
|---|---|
| `ModeSwitch` | abstract: what maintenance mode promises about one daemon |
| `Maintenance` | `pkg/maintenance` call by call, any number of users, against the Deployment controller and the kubelet |
| `MaintenanceProofs` | theorems about `Maintenance` |
| `RestoreQuorum` | `pkg/mons/restore_quorum.go`, composed with `Maintenance` (`INSTANCE`), with the operator, the mons and the user |
| `RestoreQuorumProofs` | theorems about `RestoreQuorum` |
| `CephFsCleanup` | `pkg/filesystem/{subvolume,snapshot}.go` against the CSI driver, its sidecars and the administrator |
| `CephFsCleanupProofs` | theorems about `CephFsCleanup` |
| `RestoreDeleted` | `pkg/restore/crd.go` with the dynamic client, the garbage collector, the operator and the user |
| `RestoreDeletedProofs` | theorems about `RestoreDeleted` |
| `DestroyCluster` | `pkg/crds/crds.go` against the operator, the workload controllers, the garbage collector and users |
| `FollowLogs` | `pkg/k8sutil/logs.go` against pods that come, crash, restart and go |
| `FollowLogsProofs` | theorems about `FollowLogs` |
| `RbdImages` | `pkg/flatten-rbd-pvc` and `pkg/rbd`, any number of users, against the CSI driver, pods and the mgr's tasks |
| `RbdImagesProofs` | theorems about `RbdImages` |
| `SettingStore` | abstract: what `operator set` promises about the properties |
| `OperatorConfig` | `operator set` and `restart`, any number of users, against other writers, other commands and the Deployment controller |
| `OperatorConfigProofs` | theorems about `OperatorConfig` |
| `HealthReport` | `pkg/health`: the checks of one report, call by call, on a cluster that changes |
| `ClusterProofs` | theorems about `DestroyCluster` and `HealthReport`, the two commands that concern a whole cluster; for their sake the definitions every specification has (`Spec`, `TypeOK` and so on) are `DestroySpec`, `DestroyTypeOK` in `DestroyCluster` |
| `MC*` and their `.cfg` | instances for TLC |

Common conventions:

- A process is a label (`pc`, `rq`, `stage`) naming the call it makes next. One action is one remote call,
  with everything the code computes up to the next call. The guard of an action is the condition
  under which the call succeeds and the code goes on; its early returns are disjuncts.
- A call that fails for reasons outside the model, `logging.Fatal` (which exits the process) and a
  kill all leave the cluster as it is and end the process: `Abort`, `Die`. It is allowed before every
  call, so a command can be cut off anywhere, any number of times.
- Errors that the code logs and passes over are disjuncts of the call (`OrWarn`, `UpdateCM`, `VolKey`,
  `ListSnaps`, `Probe`), or an `OrWarn` action, not of `Die`.
- Kubernetes, Ceph, the operator, the CSI driver and users are modelled from how the code uses them,
  with no order among their steps; they are marked external in `PROJECT.json`.
- Definitions that begin with "Wrong:" in their comment are deliberate mistakes. The specifications
  do not use them; substituting one for the definition next to it must break a property.

### Maintenance

`StartMaintenance` copies the daemon's Deployment with its pods sleeping instead of serving, scales
the original to zero, creates and scales up the copy and waits for it; `StopMaintenance` deletes the
copy and scales the original up. Actions are the calls of both functions in order: `GetOriginal`,
`AwaitDaemonPod`, `ScaleDown`, `AwaitDeletion`, `Create`, `ScaleUp`, `AwaitReady`, and
`GetMaintenance`, `Delete`, `Restore`. Both deployments' pods carry the labels that `WaitForPodToRun`
selects by, and it looks at the first running one only; `waitForPodDeletion` is given the name of the
deployment where a pod's name belongs, and therefore never waits (`AwaitDeletion`). The controller
creates, and the kubelet runs and removes pods, and a terminating pod does not count for the
controller.

`Mixed` says whether a start may overlap a stop. Nothing in the code or the documents prevents it,
and then the two deployments can be up together (a stop restores the daemon while a start is about to
create the copy). The exclusive switch is therefore stated for `Mixed = FALSE`: overlapping starts,
and overlapping stops, are still arbitrary.

### RestoreQuorum

The process reads the ConfigMap, asks the user, stops the operator, scales the bad mons down, calls
maintenance mode for the good mon, extracts the monmap in the maintenance pod, removes the bad mons
from it, injects it, rewrites the ConfigMap, leaves maintenance mode, polls `ceph status` and purges
the bad mons. `M == INSTANCE Maintenance` with one user, the process itself, gives the two calls; the
user may also run `maintenance stop` and start the operator between two restores. While its pod
still runs the operator may add one mon (`Spare`), which joins when there is a quorum, and scale
mons up again. `/tmp/monmap` lives in one pod and is lost with it. `Probe` keeps the exact exits of
`waitForMonStatusResponse`: which answers are accepted, and that the timeout is noticed only by a last
poll that got an answer.

### CephFsCleanup

A volume or snapshot is identified by its UUID, from which the CSI driver makes all its names;
`custom` marks names with a configured prefix, for which the code takes the UUID from the wrong place
(`NamesItsUuid`). A PV or content counts as a reference only if the code recognises it (`Recognised`): its driver is that of
CephFS, so not for a volume of the NFS driver (`nfs`), and its handle can be read (not `odd`). These three are fixed at the
start; `Setups` says which combinations there are. Each has its object in Ceph and two journal records. The commands go through the
same calls as the code: list PVs, list snapshot contents, list subvolumes, and then either print or
delete, with `subvolume ls` deleting the stale snapshots of stale subvolumes as it goes
(`checkSnapshot`). The driver's side has the moments that matter for the commands: the journal and
the subvolume exist before the PV does, the snapshot exists before its content has a handle, and both
references may be dropped (reclaim policy Retain) and leave their volume behind. Left out: the driver's own
`DeleteVolume` and `DeleteSnapshot`; a journal record that is there but empty; several filesystems and
groups; how credentials of external clusters are found; the state that a listing prints (that it is wrong when the snapshots
could not be listed, `subvolume.go:466`, or when the list of references has aged, is seen by no property).

### RestoreDeleted

A CR deleted by mistake is terminating, because the operator keeps its finalizer as long as there is
data. The command copies it, stops the operator, goes through five kinds of objects and drops the
owner references to the CR's UID, removes the finalizers (the CR is gone), creates the copy and starts
the operator. The garbage collector may at any moment delete an object whose owner's UID is not there
any more, and the operator, until its pod is gone, adopts the objects of CRs that are not deleted.
Each object is given one owner. A CR the user names is not required to be deleted: the command then has
no copy, keeps the name, removes the finalizers of whatever has it and fails to create. `exposed`
records the CRs this happened to; the invariants except them, and nothing else.

### DestroyCluster

First the CRs: `ListKind` takes the list of a kind, and each item of it is deleted (`DeleteCR`), looked at
again (`GetCR`), patched (`Patch`: the finalizers removed, or, for a CephCluster, the clean-up
confirmed) and deleted again (`DeleteAgain`). A CR is `bare`, without finalizers, until the operator has
adopted it; one that is deleted stays as long as it has them. CRs can be created at any moment, also under a name that
has just been deleted; `born` records those created since their kind was listed, which a run need not
find. The operator removes the finalizers of other CRs when it likes, that of a CephCluster when no CR
depends on it. Then the workloads: `ListPods`, and for the apps of the pods it lists `PruneDeployments` and
`PruneJobs`, until no pod is listed or the time is up (`Timeout`). The operator that sets up a cluster
(`orchestrating`) creates workloads again, and notices the deletion only after a while; the pod of a
job stays when it has completed.

### FollowLogs

The loop of `StreamPodLogs`: find a pod (`FindPodForLogs`, with the preference of `selectPodForLogs`),
open a stream with the options of `reconnectOptions` (`Open`, `OpenFails`), copy it (`PrintLine`) until
it ends (`StreamEnds`) or breaks (`StreamBreaks`), wait (`Reconnect`) and start again. `attempt`
keeps of the code's counter whether it is 0, which is all the code asks. Time is explicit, in seconds,
because the checkpoint of a stream is a time: `now` ticks, a container that is up logs one line a
second, `SinceTime` and `SinceSeconds` compare with it and the wait is two of them. A line is a pod
and a second; `log` says which instance of the container wrote it, so that `--previous` and restarts
have their meaning. A stream delivers the lines of one instance in order and ends with it. `copies` counts
how often each line of the pod was printed since the process turned to it. A reconnect asks for the log of the instance that runs
then, never for a previous one, so what was left of an instance that is over is not delivered: `unread` is the first instance that was not read
to its end when the last stream ended, and `missed` collects, when a stream is opened, the last lines of the instances from there
to the new one (`Missed`).

Delivery: the stream may lag behind the log, but when it breaks, and while time goes on, no undelivered
line is more than `Lag` seconds old (`OnTime`). The code's second of overlap is for this and for clock
skew, and with `Lag = 1` it is just enough. Left out: `--timestamps` and the container name; the cancelled context,
which this command never has (interrupting it ends the process).

### RbdImages

Two commands that work on the same images. `flatten-rbd-pvc` looks at the PVC and the PV (`GetPVC`, `GetPV`),
asks for the watchers of the image (`Status`), moves the temporary image of a cloned PVC to the trash (`Info`,
`Trash`) and asks the mgr for a task (`Flatten`). `Answer` is `RunCommandInOperatorPod`, which returns the output only to
a caller that asks for it; `Status` and `Info` do not, so no watcher is ever seen, and the id of the
temporary image, without which no task removes it from the trash, is never known. The rbd commands name no rados
namespace, so they find only what is in the default namespace of its pool (`Found`). A PVC created from nothing is
let through, as by the code. `rbd ls` lists the rados namespaces of a pool, or its default one
(`ListSpaces`), one after the other (`ListImages`) and prints them by their position (`Rows`). An image is a volume
and whether it is the temporary one; the driver makes the temporary image first, and when a volume is deleted finds it
by its name, unless it is in the trash.

### OperatorConfig

`set` is `UpdateConfigMap`: it reads the ConfigMap (`GetCM`), changes one entry of the copy and writes the copy back
(`Update`), which the API server accepts only while the object still has the version that was read (`Accept`; a write
that changes nothing keeps the version). An answer that is lost is an error to the user, though the property is set. Other
tools edit the ConfigMap, delete it and create it again; versions are never used twice. `restart` asks for the version of
Rook in the operator's pod (`Verify`) and patches the pod template with the time (`Patch`): each patch is a new template.
The Deployment controller replaces the pods of older templates, before or after it has a new one, and other commands
scale the deployment to zero and back meanwhile (`Scale`).

`SettingStore` is the specification a user has in mind: requests that are carried out at once or refused. `OperatorConfig`
implements it with the data of the ConfigMap as the settings and the arguments as the requests; Get is a stutter.

### HealthReport

One action per check, or per call where a check has several, in the order of the code (`Begin` to `FormatReport`): `UnMarshalCephStatus`
keeps the answer of `ceph -s`, which `CheckMonDistribution`, `CheckCephClusterHealth`, `CheckPGStatus` and
`CheckClusterCapacity` rate; the others list pods or nodes when their turn comes. A check without an answer is rated as
the code rates it, which is `StatusError` but for the MTU; the rating of the placement groups goes through their states
one by one, as the code does (`NextPG`). `cluster` is everything the report looks at; `Change` replaces it by another at any time, and `seen` keeps
what it was like since the report was begun. A Ceph command is answered when the pod of the operator runs
and a majority of the mons is in quorum. What `ceph -s` prints of the mons, a number (`numMons`) and a list (`mons`), is
independent of the monmap and of each other: either may be missing, as in the output of `docs/ceph.md:50-54`, which has no list, or
that of another monmap; and the health may be none of Ceph's codes. Data is abstracted to what ratings depend on: a placement
group is clean, unclean or down; a health
code is of capacity or not. Left out: the wording and the formats of the report, `humanizeBytes`; an answer of Ceph that is no JSON is a
failed call, as in the code.

## 3. Runs

| Run | Instance | Shows |
|---|---|---|
| `maintenance_switch` | 2 users, 2 pods, 2 polls, no mixing | types; exactly one mode after a command returned; refinement of `ModeSwitch`; a daemon left down by a cut-off command is repaired by neither command; every command returns; a stop brings the daemon back |
| `maintenance_ready` | 1 user, 3 pods | violated: `start` says ready while the daemon runs |
| `quorum_safe` | 1 bad mon, spare, 2 restores, 2 polls of each loop | types; purged mons are in no monmap; a half-finished restore stays so; the restore asks its user or returns |
| `quorum_response` | 1 bad mon, 1 restore | violated: the bad mons are purged unanswered |
| `cephfs_safe` | 1 volume, 2 snapshots; 4 setups: plain, a prefix for a snapshot over CephFS and over NFS, a prefix for the volume and an unreadable handle | types; settled things that are recognised survive; complete deletions leave nothing; cut-off ones stay cut off |
| `deleted_safe` | 2 CRs, 3 objects of 3 kinds, 2 re-creations each | types; nothing is garbage-collected but objects of exposed CRs; the other CRs are missing only between two calls |
| `destroy_safe` | a cluster and a pool, a deployment, a job and the toolbox | types; nothing old is left; no clean-up is confirmed for a live cluster; the command returns, without the timeout too |
| `rbd_safe` | 2 users, a cloned volume, a restored one and another; a pool without and one with two rados namespaces | types; the temporary image goes before the flatten; every row has an image |
| `rbd_inuse` | the same | violated: an image that was in use when it was checked is flattened |
| `operator_safe` | 2 users, 2 properties, 2 pods, 2 writes, 1 restart | types; refinement of `SettingStore`; a restart replaces the operator's pod |
| `health_safe` | 48 clusters: 2 layouts, healthy or with one of 23 faults; 1 change, 2 failing calls | types; a steady cluster is rated rightly; an all-clear was clear; errors are the failed calls and a health that is no code of Ceph |
| `logs_follow` | 2 pods, 5 combinations of flags, 5 seconds, 3 starts | types; no line is skipped but the last ones of an instance that is over; none is printed more than twice; a replacement pod is read from its beginning |

Why these bounds. *Users*: interference between commands is pairwise (the second fails at the object the
first made, or undoes what it did), so two users exhibit it, and the theorems cover any number.
*Pods*: two let a terminating pod exist beside its replacement, three let both deployments have one
while another one goes. *Polls* (60 in the code for pods, 20 for `ceph status`): the loops have no
state but their count, so two polls tell the first, a middle and the last apart (with one, the first is
the last). *Bad mons*: one, with the spare that the operator adds; with two the loops have more rounds, which the theorems cover.
*Restores*: the second begins
in any state the first one left; a third starts from what the second leaves, and the theorems of
`RestoreQuorumProofs` do not bound their number. *Volumes and snapshots*: one volume with
two snapshots is the smallest in which a subvolume is retained for one and loses the other, and a
listing has a remaining item when it is cut off; volumes do not share anything. *Images*: of one pool
several, so that an index could go wrong, and of the other one namespace empty; users and volumes meet only in one image, so
two users do. *UIDs*: two
re-creations let an object carry the UID before last. *CRs* of
`destroy_safe`: one kind that is patched and one that loses its finalizers; kinds and items do not share
anything but the loops, and the theorems cover any number. A deployment and a job are what is pruned
differently, each of an app of its own. *Seconds*: a stream, the wait of two seconds and a
second stream take three; five leave room for lines before, between and after them, and for a third
stream to begin. *Starts*: two of one pod and one of the other, or three of one. *Pods* of `logs_follow`: the
old one and its replacement, interchangeable in everything (`SYMMETRY`; the run has no liveness property).
*Writes* of `operator_safe`: a set loses its race to one write, and the second one is its own or a re-creation;
the proofs do not bound them. *Restarts* of `operator_safe`: one, whose rollout any number of scalings to zero and back
may meet at any of its steps; with two, 1.1 million states and three minutes, the properties hold as well. *Clusters* of
`health_safe`: a healthy one with three mons, three OSDs and a mgr, each
fault at a boundary of the code (two nodes of three, two mons or one of three in quorum, 8899 of 8900), in what Ceph prints (no
list of mons, no number, another monmap, a health that is no code) or in another order of the same states, in one
namespace or two, and the steps from any of them to any other; one change puts every two calls of the report at different
states of the cluster. *Failing calls*: two, so that a failure meets another one.
*Flags*: `-f`, with `--tail 1`, with `-p`, with `--since 1s`, and `--tail 1` alone.

`CHECK_DEADLOCK` is on in every run but `logs_follow`, which really stops, when the command has ended or
time has.

Fairness. `Maintenance`: a process makes its next call, and Kubernetes' loops act; a user is never
obliged to begin or abort a command. The code blocks nowhere but in sleeps between polls and in API
calls with answers, and controllers are built to act on what they see. `RestoreQuorum`: the process
makes its next call or ends with one that fails (`Fail`: its own failing call, or a maintenance command that has given up), and a
maintenance command it has called goes on by itself (`MaintStep`).
While it waits in one, nothing else is obliged to happen: nobody need kill it, so a loop of maintenance mode that never ended would
violate `RestoreReturns`, and does (`PollForever`). Prompts are not fair: a user need not answer.
`DestroyCluster`: the
process makes its next call; a call to list or delete that is only warned of, and made again in each round, does not fail
for ever; the operator stops setting up a cluster that is deleted; pods of deleted workloads go. The timeout is
not fair: the run shows that the wait ends without it.
`OperatorConfig`: only the control loops that create, run and remove the pods of the operator are fair, one by one; users need not
finish what they began, and commands may scale the operator for ever, unless the property says they do not.
`CephFsCleanup`, `RestoreDeleted`, `RbdImages`, `FollowLogs` and `HealthReport` state no liveness and assume no fairness.

## 4. Proofs

TLAPS proves, for every value of the constants:

| Theorem | Statement |
|---|---|
| `MaintenanceProofs!TypeCorrect` | `Spec => []TypeOK` |
| `MaintenanceProofs!ExactlyOneModeHolds` | `~Mixed`: `Spec => []ExactlyOneMode` |
| `MaintenanceProofs!ImplementsSwitch` | `~Mixed`: `Spec => SwitchSpec`, the refinement of `ModeSwitch` |
| `MaintenanceProofs!HelplessForGood` | `Spec => HelplessStays` |
| `RestoreQuorumProofs!TypeCorrect` | `Spec => []TypeOK` |
| `RestoreQuorumProofs!PurgedMonsAreForgottenHolds` | `Spec => []PurgedMonsAreForgotten` |
| `RestoreQuorumProofs!HalfRestoredForGood` | `Spec => HalfRestoredStays` |
| `RestoreDeletedProofs!TypeCorrect` | `Spec => []TypeOK` |
| `RestoreDeletedProofs!KidsSurviveHolds` | `Spec => []KidsSurvive` |
| `RestoreDeletedProofs!GoneOnlyBetweenHolds` | `Spec => []GoneOnlyBetween` |
| `ClusterProofs!DestroyTypeCorrect` | `DestroySpec => []DestroyTypeOK` |
| `ClusterProofs!DoneLeavesNothingOldHolds` | `DestroySpec => []DoneLeavesNothingOld` |
| `ClusterProofs!NeverConfirmsHolds` | `DestroySpec => NeverConfirmsALiveCluster` |
| `ClusterProofs!HealthTypeCorrect` | `Spec => []TypeOK`, of `HealthReport` |
| `ClusterProofs!SteadyIsReportedHolds` | `Spec => []SteadyIsReported` |
| `ClusterProofs!AllClearWasClearHolds` | `Spec => []AllClearWasClear` |
| `ClusterProofs!ErrorsHaveReasonsHolds` | `Spec => []ErrorsHaveReasons` |
| `FollowLogsProofs!TypeCorrect` | `Spec => []TypeOK` |
| `FollowLogsProofs!AtMostTwiceHolds` | `Spec => []AtMostTwice` |
| `FollowLogsProofs!NothingIsSkipped` | `Lag = 1`: `Spec => []NothingSkipped` |
| `FollowLogsProofs!ReplacementIsWhole` | `Lag = 1`: `Spec => []ReplacementIsReadWhole` |
| `CephFsCleanupProofs!TypeCorrect` | `Spec => []TypeOK` |
| `CephFsCleanupProofs!SettledSurvive` | `Spec => []SettledThingsSurvive` |
| `CephFsCleanupProofs!NothingStays` | `Spec => []NothingLeftBehind` |
| `CephFsCleanupProofs!NoSecondTry` | `Spec => CutOffStays` |
| `OperatorConfigProofs!TypeCorrect` | `Spec => []TypeOK` |
| `OperatorConfigProofs!ImplementsStore` | `Spec => SetsAreAtomic`, the refinement of `SettingStore` |
| `RbdImagesProofs!TypeCorrect` | `Spec => []TypeOK` |
| `RbdImagesProofs!TempGoesFirstHolds` | `Spec => []TempGoesFirst` |
| `RbdImagesProofs!RowsHaveImagesHolds` | `Spec => []RowsHaveImages` |

The assumptions are those named in the modules (`ConstantsAssumption`, `PodNamesAssumption`,
`MonsAssumption`, `KidsAssumption`, `DestroyAssumption`, `LogsAssumption`,
`VolumesAssumption`, `ThingsAssumption`, `ConfigAssumption`, `ClustersAssumption`), which TLC evaluates in the runs.

*Exclusive switch.* `ExactlyOneMode` speaks of states in which no command runs, so it cannot be
inductive. `IInv` adds what each call relies on: a start past `ScaleDown` has the daemon scaled down
(`PastScaleDown`), past `Create` the copy exists (`PastCreate`), a stop past `Delete` has removed it
(`PastDelete`), no start overlaps a stop (`NoOverlap`), the copy never exists beside a daemon
that is scaled up (`Exclusive`), and when both are down, a command is switching or one was cut off there
(`DownIsAccounted`). The refinement needs one fact more: no call changes both
deployments (`OneChangeAtATime`).

*Purged mons.* By the time a volume is deleted, its mon must be out of the monmap, and must stay out.
`Surgery` follows the monmap through the calls: the file is a part of the store; the bad mons already
visited are out of it; after the injection all are out of the store. Out *for good* needs the other half: a mon
that was in a monmap has joined before (`MonmapsHoldJoinedMons`), and joins only once. That a running
mon still has its volume is `DeployedMonsHaveVolumes`. *Half-finished restore*: until the injection the
process knows every original mon the ConfigMap lists and has visited only mons the monmap had
(`ReadIsComplete`, `VisitedWereThere`), so it stops at the first one that is missing.

*Restore of deleted CRs.* An owner reference is always to the CR that has the name now, exposed CRs aside
(`NoOrphan`). It
is threatened in two places, when the finalizers go and when the new UID comes; `VisitedAreDisowned`
and `TargetIsDeleted` carry the loop over the kinds to the first of them: what the process is through with
has no owner, and nobody adopts it, because the CR is terminating.

*Nothing old is left.* `Visited` says of every CR the process is through with, and that was not created since,
that it is gone or a cluster being deleted with its clean-up confirmed; `Current` says how far the CR at hand has come.
The environment cannot bring an old CR back (a deleted one can only go, and what is created is new), so each step
of the process has to be right only about its own item. The second theorem follows from `Current` at the patch.

*No line three times.* A line is repeated only by an overlap, and must not lie in two of them. `ReadLongAgo`
says that a stream is established two seconds after the last one ended, or later; `Checkpoint`, that
between two streams what was printed is older than the end of the last one and what was printed twice is
older than the overlap before that end; `Overlap`, that during a stream what it has still to deliver was
printed once at most, by the same pod. So the wait has to be longer than the overlap, and that is all the
proof needs of the cluster: the lines of a container are never from the future (`LogInPast`), `Lag` plays no part.

*Temporary images and rows.* A temporary image comes back only with a new PVC; `Provisioned` says that the PVC
a process has found bound is past that. For the rows, `ListedTo` follows the listing through the namespaces: each adds
at least one entry (`ListingType`: the code adds `---` for none), so the entries are never fewer than the
namespaces listed; and if no two entries are of one namespace, each added exactly one, in order (`OneMore`).

*No line is skipped.* What must not be missing is what was due when a later line was printed (`Due`, `Whole`). A stream
has a place (`stream.next`), and everything due before it is printed (`Streaming`); between two streams everything due before the
checkpoint less the overlap is (`Between`). The step from the first to the second is the end of a stream, and it is here that a stream
must not be later than the overlap is long: `Lag = 1`. A container that restarts during a stream logs what the stream does
not show; `Later` keeps that this is new enough for the next one, because a stream that lags does not outlive its
container by more than `Lag`, and `Ordered`, that the instances log one after the other. The log of a previous instance
(`FirstPrevious`) is the one stream for which this is the other way round. All this is within an instance. Over instances
(`Across`), without `--previous`, a line is
`Expected` when it comes after one that was printed and is not missed: none of these before another printed one is missing
(`NoneMissing`); of the instances before the one that is read, all
of them are read (`EarlierRead`); and between two streams what is still unread is of the instance `unread` or a later one, and at
most `Lag` older than the end of the last stream
(`LeftUnread`), so that opening the next stream either reads it again or puts it into `missed`.

*Settled things survive.* A deletion removes only what its command found unreferred to, and the driver may refer to it afterwards
only if it was still creating it then: `Unsettled` says that whatever is not completely created while a command runs was so when
the command looked, `Listed`,
that a bound snapshot missing from the list was, and `VolDeletion` and `SnapDeletion` carry this through the
calls. `CreatedWhole` is the other half: what the driver has made and not yet reported is whole. *Nothing is left behind*: the key is
found through the object, so `KeyNeedsObject` says that where the object is gone the key is gone, or is
being removed by this process, and `Progress` how far each call has come. The two invariants share `ProcessInv` and
are otherwise proved apart.

*Atomic sets.* A process has a request exactly from its first call to its last (`RequestsArePending`); a copy of the current
version has the current data (`CopiesAreTrue`), so that writing the copy changes one entry only. This rests on versions not being used
twice, also not by a new object of the same name.

*Types of a composition.* `RestoreQuorum` calls the commands of `Maintenance` through an instance, whose actions have to keep its
types with one user and with the operator scaling the daemon up beside them (`MaintCallTypes`, `MaintPodTypes`). The bound on
the version of the ConfigMap needs `VersionCounts`: a restore writes it at most once, before it leaves maintenance mode, and the operator once.

*What a report says.* The three properties of `HealthReport` speak of the end of a report, ten calls after its begin, on a cluster
that may be another one by then. `VerdictsHold` says of each check that was made what its verdict rests on: a call
that failed (`IsError`), the kept answer of `ceph -s` (`StatusRated`), one cluster that was seen when the call was made (`CallRated`), or two
for the two namespaces (`PodsRated`) and for the mons, whose pods are counted after their quorum was told (`MonsRated`). Such a
verdict stays right because a check is concluded
once and a call that was made fails no more (`FailedWereMade`), while `seen` only grows. `AnsweredBySeen` says
that the kept answer is that of one cluster with the number and the list it prints. `PGsSoFar` carries
the loop over the placement groups, of any number: the states looked at are a prefix of the answer's, and the worst so far is right
for them. All three theorems follow from the invariant at `done`; the steady one because then `seen` has one
element. That three distinct nodes are as good as a count of three (`PodsOnNodesIsFine`) rests on the library's theorems on finite sets.

Left to TLC: liveness, in all the modules that state it (`CommandsReturn`, `StopRestoresDaemon`, `RestoreReturns`, `DestroyReturns`,
`RestartTakesEffect`), which the prover cannot reason about under fairness; and all that is violated. Every other
property of the runs is a theorem.

## 5. Where the code departs from its documents

Each is a run that TLC refutes; the quotes are in `PROJECT.json`.

1. `maintenance start` does not wait for the daemon to stop (`start_maintenance.go:78`).
2. `restore-quorum` purges the bad mons when the last poll of `ceph status` fails (`restore_quorum.go:273`).
3. `flatten-rbd-pvc` does not read the watchers it asks for, and flattens an image in use (`flatten_rbd_pvc.go:67`).

Known besides, from the same models, and stated as limits of the properties or read off the actions rather than checked:
`restore-quorum` takes `HEALTH_ERROR` for an answer (`restore_quorum.go:279`), but Ceph says `HEALTH_ERR`, as in
`docs/mons.md:127`, so that a quorum that responds with it is given up as "timed out waiting for mon quorum to respond"
(`:284`, `Probe`). `restore-deleted <CRD> <name>` of a CR that is not deleted (`crd.go:70`) removes its finalizers, and a later
deletion takes effect at once (`exposed`), although "if any data is still present in the cluster, Rook will refuse to delete the CR"
(`docs/crd.md:3`). A start
overlapping a stop (see `Mixed`); a volume or snapshot that the CSI driver is still creating when it is
judged stale is deleted under it (`hasty` in `SettledThingsSurvive`); a volume of the NFS driver that is in use is taken for stale, because the PVs
that are looked at are those of the CephFS driver only (`subvolume.go:165`, `Recognised`), so that `subvolume ls` deletes its
snapshots and `subvolume delete` the volume, although `docs/subvolume.md:3-6` promises to
delete stale subvolumes "without impacting other resources and attached volumes"; likewise what has a handle of another version; a
bound snapshot with a custom
name prefix is taken for orphaned (`TakenForReferred`); a conflict on the endpoints ConfigMap is
logged and the restore goes on (`UpdateCM`). `subvolume ls`, "Print the list of subvolumes." (`subvolume.go:31` of the
commands), deletes the stale snapshots of stale subvolumes (`subvolume.go:481` of the package). `flatten-rbd-pvc` leaves
the temporary image in the trash (`Trash`), although it "removes the corresponding temporary cloned image"
(`flatten_rbd_pvc.go:34` of the commands), and in a rados namespace it finds no image at all. With several images in a rados
namespace the rows of `rbd ls` show images beside the wrong namespaces, and not all of them (`single` in `RowsHaveImages`); a
pool that has rados namespaces is not listed in its default one. `destroy-cluster` logs a CephCluster as deleted (`crds.go:156`) and is done while its
finalizer waits for an operator that may be down, although it "deletes CRs ... by force removing any finalizers"
(`docs/destroy-cluster.md:4`; `DoneLeavesNothingOld` excepts it); a CephCluster created again under the same
name is destroyed with the old one (`born` in `NeverConfirmsALiveCluster`); a deployment without pods is left.
Of `operator logs -f`: the first stream, if it breaks with an error
however late, ends the command (`logs.go:75`, `ErrorOut` with `attempt = 0`), although `--follow` "keeps
streaming until it is interrupted" (`docs/operator.md:64`); a stream that breaks in the middle of a long
backlog loses the rest of it (`OnTime`); `--since` is kept for a replacement pod (`opts.since = 0` in
`ReplacementIsReadWhole`, against `docs/operator.md:67`); and with `-p` the early lines of the instance
that is running are never shown. An instance that came and went between two streams is not shown, and when a stream had broken and
its container crashed before the next one
was opened, neither are the last lines of that instance: the next stream reads only the new instance (`missed` in `NothingSkipped`), although
"a container that restarted in place resumes from where the previous stream left off" (`docs/operator.md:67-68`), and nothing tells the user.
With streams that are later than the one second of overlap (`Lag = 2`) lines are lost at any broken one, and TLC refutes
`NothingSkipped`. `operator restart` logs "restarted" after a patch that failed (`k8sutil.go:40-44`, `Die`; `docs/operator.md:16`
shows this line as the sign of success). Of `health`: an MTU that cannot be read is OK (`network.go:57`), a failed probe for
OpenShift drops the check without a word (`:38`), and the capacity is OK when `ceph -s` failed and `ceph df` did not
(`capacity.go:89`): these three are why `CallsOf` is as it is. The critical rating of a lost quorum (`health.go:432`) is hardly
ever shown, for without a quorum `ceph -s` is not answered; it takes a printed number of mons that is not that of the monmap.
A mon out of quorum is rated OK when Ceph prints the number of the mons and no list of them (`:420`), as in the output of
`docs/ceph.md:50-54`, or a list and no number (`:400`, which `health_test.go:146-153` expects of an empty monmap), although the check is that
"mon quorum is intact" (`docs/health.md:5`): hence `QuorumFine`, and the condition in `AllClearWasClear`. A health that is none of
Ceph's codes is an error without a failed call (`:228`, `Unexpected`). The pods of the mons and their quorum, and the pods of the
two namespaces, are looked at at different
times (`AllClearWasClear`). The codes `NEARFULL_OSD`, `BACKFILLFULL` and `FULL_OSD` (`capacity.go:56-58`) are not spelled as Ceph spells its own
(`OSD_NEARFULL`, ...); what Ceph calls them is outside this repository, so the model only has codes that are known and others. `dr
health` passes the two namespaces in the wrong
order to its last call (`dr/health.go:76`, against `:67`).

## 6. Not modelled

- The pass-through commands (`ceph`, `rados`, `radosgw-admin`, `custom-exec`), `multus`, `rook status`, printing and logging: pure I/O.
- `dr health`: three reads one after the other and two commands whose output is shown. It changes nothing, keeps nothing
  between its calls that it decides upon, and promises nothing but to print; a model of it would restate its lines.
- `rook purge-osd`: two reads and one command; what matters, the removal of the OSD, is done by the `rook` binary, whose
  source is not here.
- `pkg/exec` beyond the choice of the pod and who gets the output: streams and buffers.
- Of the modelled parts: what each section above lists as left out. Largest of these are several filesystems
  and external clusters of `CephFsCleanup`, the addresses of `mon_endpoints.go`, and the `DeleteVolume` of the CSI driver beside
  the CephFS commands.

What would come next: a restart of `set` after a conflict, if the code gets one; two
restores of `RestoreDeleted` at the same time.
