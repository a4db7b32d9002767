--------------------------- MODULE RestoreDeleted ---------------------------
(***************************************************************************)
(* `kubectl rook-ceph restore-deleted <CRD> [name]' (pkg/restore): a CR    *)
(* that was deleted, and that the operator keeps for its data, is deleted  *)
(* for good and created again under its name.  Whatever it owns -- through *)
(* its UID, which changes -- is disowned first, or the garbage collector   *)
(* would take it for an orphan.                                            *)
(*                                                                         *)
(* One action per API call that succeeds; a call that fails, the prompt    *)
(* answered otherwise and a Ctrl-C end the process where it is: Die.       *)
(***************************************************************************)
EXTENDS Naturals, Sequences

CONSTANTS
  CRs,         \* the CRs of the CRD, by name
  Kids,        \* objects that hold the data and the identity of the cluster
  Parent,      \* [Kids -> CRs], the CR whose controller makes them
  KindOf,      \* [Kids -> the kinds listed below]
  MaxUid       \* bound: times a CR is created again

\* removeOwnerRefOfUID goes through these kinds in this order; the list of custom
\* resources it goes through first is empty.
Kinds == <<"secrets", "configmaps", "services", "deployments", "pvcs">>

ASSUME KidsAssumption ==
  /\ Parent \in [Kids -> CRs]
  /\ \A k \in Kids : \E i \in DOMAIN Kinds : KindOf[k] = Kinds[i]
  /\ MaxUid \in Nat

NoName == "no name"
NoUid == MaxUid + 1

VARIABLES
  crs,        \* [CRs -> {"live", "terminating", "gone"}]
  uid,        \* [CRs -> Nat], the UID of the CR, or the last one it had
  final,      \* CRs that carry finalizers
  kids,       \* the Kids that exist
  owner,      \* [Kids -> Nat], the UID in the owner reference to Parent, or NoUid
  opScale,    \* 0..1, replicas of rook-ceph-operator
  opPod,      \* the operator's pod is running
  pc,         \* label: the next call of the process
  target,     \* crName
  had,        \* UID in crdResource, the copy of the CR; NoUid when it is empty
  kind,       \* index in Kinds
  todo,       \* listed objects still to be updated
  lost,       \* history: CRs whose restore was cut off before they were re-created
  exposed     \* history: CRs that lost their finalizers to a restore without a copy

cluster == <<crs, uid, final, kids, owner>>
operator == <<opScale, opPod>>
process == <<pc, target, had, kind, todo>>
history == <<lost, exposed>>
vars == <<cluster, operator, process, history>>

TypeOK ==
  /\ crs \in [CRs -> {"live", "terminating", "gone"}]
  /\ uid \in [CRs -> 0..MaxUid] /\ final \subseteq CRs
  /\ kids \subseteq Kids /\ owner \in [Kids -> 0..NoUid]
  /\ opScale \in 0..1 /\ opPod \in BOOLEAN
  /\ pc \in {"idle", "prompt", "scaleDown", "webhook", "list", "update", "patch",
             "create", "scaleUp"}
  /\ target \in CRs \cup (IF pc = "idle" THEN {NoName} ELSE {}) /\ had \in 0..NoUid
  /\ kind \in 1..Len(Kinds) /\ todo \subseteq Kids
  /\ lost \subseteq CRs /\ exposed \subseteq CRs

Init ==
  /\ crs = [c \in CRs |-> "live"] /\ uid = [c \in CRs |-> 0] /\ final = CRs
  /\ kids = Kids /\ owner = [k \in Kids |-> 0]
  /\ opScale = 1 /\ opPod = TRUE
  /\ pc = "idle" /\ target = NoName /\ had = NoUid /\ kind = 1 /\ todo = {}
  /\ lost = {} /\ exposed = {}

-----------------------------------------------------------------------------
(* The process. *)

Goto(from, to) == pc = from /\ pc' = to

End == pc' = "idle" /\ target' = NoName /\ had' = NoUid /\ kind' = 1 /\ todo' = {}

\* The CRs are listed and the first deleted one of that name, or of any, is copied.
\* A name given by the user is kept also when there is none.
Deleted(name) == {c \in CRs : crs[c] = "terminating" /\ name \in {NoName, c}}

Begin(name) ==
  /\ pc = "idle" /\ opPod                \* verifyOperatorPodIsRunning
  /\ \E c \in CRs : crs[c] # "gone"
  /\ \/ target' \in Deleted(name) /\ had' = uid[target']
     \/ Deleted(name) = {} /\ name # NoName /\ target' = name /\ had' = NoUid
  /\ pc' = "prompt"
  /\ UNCHANGED <<cluster, operator, kind, todo, history>>

AnswerPrompt ==
  /\ Goto("prompt", "scaleDown")
  /\ UNCHANGED <<cluster, operator, target, had, kind, todo, history>>

\* The operator is told to stop, and not waited for.
ScaleDown ==
  /\ Goto("scaleDown", "webhook") /\ opScale' = 0
  /\ UNCHANGED <<cluster, opPod, target, had, kind, todo, history>>

DeleteWebhook ==
  /\ Goto("webhook", "list")
  /\ UNCHANGED <<cluster, operator, target, had, kind, todo, history>>

\* Wrong: one kind too many, or one too few.
NextKindPastLast ==
  IF kind > Len(Kinds) THEN pc' = "patch" /\ UNCHANGED kind
                       ELSE pc' = "list" /\ kind' = kind + 1

NextKindButLast ==
  IF kind + 1 = Len(Kinds) THEN pc' = "patch" /\ UNCHANGED kind
                           ELSE pc' = "list" /\ kind' = kind + 1

\* The objects of the kind are in hand: the next kind, or on to the finalizers.
NextKind ==
  IF kind = Len(Kinds) THEN pc' = "patch" /\ UNCHANGED kind
                       ELSE pc' = "list" /\ kind' = kind + 1

ListKind ==
  /\ pc = "list"
  /\ todo' = {k \in kids : KindOf[k] = Kinds[kind] /\ owner[k] = had /\ had # NoUid
                             /\ Parent[k] = target}
  /\ IF todo' = {} THEN NextKind ELSE pc' = "update" /\ UNCHANGED kind
  /\ UNCHANGED <<cluster, operator, target, had, history>>

Disown(k) ==
  /\ pc = "update" /\ k \in todo \cap kids
  /\ owner' = [owner EXCEPT ![k] = NoUid]
  /\ todo' = todo \ {k}
  /\ IF todo' = {} THEN NextKind ELSE UNCHANGED <<pc, kind>>
  /\ UNCHANGED <<crs, uid, final, kids, operator, target, had, history>>

\* The finalizers of the CR that has the name now; a deleted one goes with them.
RemoveFinalizers ==
  /\ Goto("patch", "create") /\ crs[target] # "gone"
  /\ final' = final \ {target}
  /\ crs' = [crs EXCEPT ![target] = IF @ = "terminating" THEN "gone" ELSE @]
  /\ exposed' = IF had = NoUid THEN exposed \cup {target} ELSE exposed
  /\ UNCHANGED <<uid, kids, owner, operator, target, had, kind, todo, lost>>

\* Wrong: the copy has lost its finalizers.
CreateUnprotected ==
  /\ Goto("create", "scaleUp")
  /\ had # NoUid /\ crs[target] = "gone" /\ uid[target] < MaxUid
  /\ crs' = [crs EXCEPT ![target] = "live"]
  /\ uid' = [uid EXCEPT ![target] = @ + 1]
  /\ UNCHANGED <<final, kids, owner, operator, target, had, kind, todo, history>>

\* The copy has the finalizers of the CR as it was read; an empty one is refused.
Create ==
  /\ Goto("create", "scaleUp")
  /\ had # NoUid /\ crs[target] = "gone" /\ uid[target] < MaxUid
  /\ crs' = [crs EXCEPT ![target] = "live"]
  /\ uid' = [uid EXCEPT ![target] = @ + 1]
  /\ final' = final \cup {target}
  /\ UNCHANGED <<kids, owner, operator, target, had, kind, todo, history>>

ScaleUp ==
  /\ pc = "scaleUp" /\ End /\ opScale' = 1
  /\ UNCHANGED <<cluster, opPod, history>>

Die ==
  /\ pc # "idle" /\ End
  /\ lost' = lost \cup {c \in CRs : pc = "create" /\ c = target /\ crs[c] = "gone"}
  /\ UNCHANGED <<cluster, operator, exposed>>

-----------------------------------------------------------------------------
(* The user, the operator and the garbage collector (external). *)

DeleteCR(c) ==
  /\ crs[c] = "live"
  /\ crs' = [crs EXCEPT ![c] = IF c \in final THEN "terminating" ELSE "gone"]
  /\ UNCHANGED <<uid, final, kids, owner, operator, process, history>>

StartOperator ==          \* by hand, after a restore that was cut off
  /\ pc = "idle" /\ opScale' = 1
  /\ UNCHANGED <<cluster, opPod, process, history>>

OperatorPod ==
  /\ opPod # (opScale = 1) /\ opPod' = (opScale = 1)
  /\ UNCHANGED <<cluster, opScale, process, history>>

\* The operator refuses to remove the finalizers, for the data is there; it looks
\* after the CRs that are not deleted.
Reconcile(c) ==
  /\ opPod /\ crs[c] = "live"
  /\ final' = final \cup {c}
  /\ \E k \in kids : Parent[k] = c /\ owner' = [owner EXCEPT ![k] = uid[c]]
  /\ UNCHANGED <<crs, uid, kids, operator, process, history>>

Orphan(k) == /\ owner[k] # NoUid
             /\ crs[Parent[k]] = "gone" \/ uid[Parent[k]] # owner[k]

CollectGarbage(k) ==
  /\ k \in kids /\ Orphan(k) /\ kids' = kids \ {k}
  /\ UNCHANGED <<crs, uid, final, owner, operator, process, history>>

Environment ==
  \/ StartOperator \/ OperatorPod
  \/ \E c \in CRs : DeleteCR(c) \/ Reconcile(c)
  \/ \E k \in Kids : CollectGarbage(k)

Next ==
  \/ \E name \in CRs \cup {NoName} : Begin(name)
  \/ AnswerPrompt \/ ScaleDown \/ DeleteWebhook \/ ListKind \/ \E k \in Kids : Disown(k)
  \/ RemoveFinalizers \/ Create \/ ScaleUp \/ Die \/ Environment

Spec == Init /\ [][Next]_vars

-----------------------------------------------------------------------------
(* Properties. *)

\* What the cluster consists of falls to the garbage collector only after a restore
\* of a CR that was not deleted when it was named -- over any number of deletions and
\* restores, complete or cut off, while the operator, which may still be stopping,
\* re-adopts what it can.
KidsSurvive == \A k \in Kids : k \in kids \/ Parent[k] \in exposed

\* Apart from such CRs, one is gone only between the two calls that delete and
\* re-create it, or for good when the restore was cut off between them, and every
\* other one is protected by its finalizers.
GoneOnlyBetween ==
  \A c \in CRs \ exposed :
    /\ crs[c] = "gone" => c \in lost \/ (pc = "create" /\ target = c)
    /\ crs[c] # "gone" => c \in final
=============================================================================
