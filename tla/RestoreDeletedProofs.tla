----------------------- MODULE RestoreDeletedProofs -----------------------
(***************************************************************************)
(* Proofs about RestoreDeleted, for any CRs, any objects they own and any  *)
(* number of restores.                                                     *)
(***************************************************************************)
EXTENDS RestoreDeleted, TLAPS

\* An owner reference is to the CR that has the name now, exposed CRs aside.
NoOrphan ==
  \A k \in Kids : Parent[k] \notin exposed /\ owner[k] # NoUid
    => owner[k] = uid[Parent[k]] /\ crs[Parent[k]] # "gone"

\* From the copy of the CR, if there is one, to the patch of its finalizers, the CR is
\* the one that was copied, and terminating.
BeforePatch == {"prompt", "scaleDown", "webhook", "list", "update", "patch"}

TargetIsDeleted ==
  /\ pc \in BeforePatch /\ had # NoUid => had = uid[target] /\ crs[target] = "terminating"
  /\ pc = "create" /\ target \notin exposed => had # NoUid /\ crs[target] = "gone"

\* Until the loop over the kinds, the process is at the first of them.
FromTheFirstKind == pc \in {"idle", "prompt", "scaleDown", "webhook"} => kind = 1

\* k is of a kind the process is through with, or of the one it is at and not
\* among those still to be updated.
Visited(k) ==
  \/ pc \in {"list", "update"} /\ \E i \in DOMAIN Kinds : i < kind /\ KindOf[k] = Kinds[i]
  \/ pc = "update" /\ KindOf[k] = Kinds[kind] /\ k \notin todo
  \/ pc = "patch"

VisitedAreDisowned ==
  had # NoUid /\ target \notin exposed
    => \A k \in Kids : Parent[k] = target /\ Visited(k) => owner[k] = NoUid

IInv ==
  /\ TypeOK /\ KidsSurvive /\ GoneOnlyBetween
  /\ NoOrphan /\ TargetIsDeleted /\ FromTheFirstKind /\ VisitedAreDisowned

-----------------------------------------------------------------------------
(* Type correctness. *)

\* There are five kinds, and the absent UID is none of those a CR can have.
LEMMA KindsAndUids ==
  /\ Len(Kinds) = 5 /\ DOMAIN Kinds = 1..5
  /\ NoUid \in Nat /\ NoUid \notin 0..MaxUid /\ 0..MaxUid \subseteq 0..NoUid
BY KidsAssumption DEF Kinds, NoUid

\* Going on to the next kind stays within the kinds.
LEMMA NextKindType ==
  ASSUME TypeOK, NextKind
  PROVE  kind' \in 1..Len(Kinds) /\ pc' \in {"list", "patch"}
BY KindsAndUids DEF TypeOK, NextKind

\* The first state is well typed.
LEMMA InitTypeOK == Init => TypeOK
BY KindsAndUids, KidsAssumption DEF Init, TypeOK

\* Every call of the restore and every step of its environment keeps the types.
LEMMA StepTypeOK == TypeOK /\ [Next]_vars => TypeOK'
<1> SUFFICES ASSUME TypeOK, [Next]_vars PROVE TypeOK'
  OBVIOUS
<1> USE KindsAndUids, KidsAssumption DEF TypeOK, cluster, operator, process, history
<1>1. ASSUME NEW name \in CRs \cup {NoName}, Begin(name) PROVE TypeOK'
  BY <1>1 DEF Begin, Deleted
<1>2. CASE AnswerPrompt \/ ScaleDown \/ DeleteWebhook
  BY <1>2 DEF AnswerPrompt, ScaleDown, DeleteWebhook, Goto
<1>3. CASE ListKind
  <2>1. pc' \in {"list", "patch", "update"} /\ kind' \in 1..Len(Kinds)
    BY <1>3, NextKindType DEF ListKind
  <2>2. todo' \subseteq Kids
    BY <1>3 DEF ListKind
  <2> QED BY <1>3, <2>1, <2>2 DEF ListKind
<1>4. ASSUME NEW k \in Kids, Disown(k) PROVE TypeOK'
  <2>1. pc' \in {"list", "patch", "update"} /\ kind' \in 1..Len(Kinds)
    BY <1>4, NextKindType DEF Disown
  <2> QED BY <1>4, <2>1 DEF Disown
<1>5. CASE RemoveFinalizers
  BY <1>5 DEF RemoveFinalizers, Goto
<1>6. CASE Create
  BY <1>6 DEF Create, Goto
<1>7. CASE ScaleUp
  BY <1>7 DEF ScaleUp, End
<1>8. CASE Die
  BY <1>8 DEF Die, End
<1>9. CASE StartOperator \/ OperatorPod
  <2>1. CASE StartOperator
    BY <2>1 DEF StartOperator
  <2>2. CASE OperatorPod
    <3>1. opPod' \in BOOLEAN
      BY <2>2, Zenon DEF OperatorPod
    <3> QED BY <2>2, <3>1 DEF OperatorPod
  <2> QED BY <1>9, <2>1, <2>2
<1>10. ASSUME NEW c \in CRs, DeleteCR(c) PROVE TypeOK'
  BY <1>10 DEF DeleteCR
<1>11. ASSUME NEW c \in CRs, Reconcile(c) PROVE TypeOK'
  <2>1. PICK k \in Kids : owner' = [owner EXCEPT ![k] = uid[c]]
    BY <1>11 DEF Reconcile
  <2> QED BY <1>11, <2>1 DEF Reconcile
<1>12. ASSUME NEW k \in Kids, CollectGarbage(k) PROVE TypeOK'
  BY <1>12 DEF CollectGarbage
<1>13. CASE UNCHANGED vars
  BY <1>13 DEF vars
<1> QED
  BY <1>1, <1>2, <1>3, <1>4, <1>5, <1>6, <1>7, <1>8, <1>9, <1>10, <1>11, <1>12, <1>13
  DEF Next, Environment

\* The type invariant holds in every reachable state, whatever CR the user names.
THEOREM TypeCorrect == Spec => []TypeOK
<1>1. Init => TypeOK
  BY InitTypeOK
<1>2. TypeOK /\ [Next]_vars => TypeOK'
  BY StepTypeOK
<1> QED BY <1>1, <1>2, PTL DEF Spec

-----------------------------------------------------------------------------
(* The garbage collector finds nothing, but what exposed CRs leave. *)

\* The inductive invariant holds before any restore.
LEMMA InitIInv == Init => IInv
<1> SUFFICES ASSUME Init PROVE IInv
  OBVIOUS
<1>1. TypeOK
  BY InitTypeOK
<1>2. KidsSurvive /\ GoneOnlyBetween /\ NoOrphan
      /\ TargetIsDeleted /\ FromTheFirstKind /\ VisitedAreDisowned
  BY KidsAssumption
  DEF Init, KidsSurvive, GoneOnlyBetween, NoOrphan, TargetIsDeleted, FromTheFirstKind, VisitedAreDisowned,
      Visited, BeforePatch
<1> QED BY <1>1, <1>2 DEF IInv

\* No object of a CR that is not exposed is an orphan while the invariant holds.
LEMMA NothingToCollect ==
  ASSUME IInv, NEW k \in Kids, Parent[k] \notin exposed PROVE ~Orphan(k)
BY KindsAndUids DEF IInv, NoOrphan, Orphan

\* A kind that is done is visited, and after the last kind every object is.
LEMMA KindDone ==
  ASSUME TypeOK, NextKind, pc \in {"list", "update"}, NEW k \in Kids, Visited(k)'
  PROVE  \E i \in DOMAIN Kinds : i <= kind /\ KindOf[k] = Kinds[i]
<1> USE KindsAndUids, KidsAssumption
<1>1. CASE kind = Len(Kinds)
  <2>1. PICK i \in DOMAIN Kinds : KindOf[k] = Kinds[i]
    OBVIOUS
  <2> QED BY <1>1, <2>1
<1>2. CASE kind # Len(Kinds)
  <2>1. pc' = "list" /\ kind' = kind + 1
    BY <1>2 DEF NextKind
  <2>2. PICK i \in DOMAIN Kinds : i < kind' /\ KindOf[k] = Kinds[i]
    BY <2>1 DEF Visited
  <2> QED BY <2>1, <2>2 DEF TypeOK
<1> QED BY <1>1, <1>2

\* It is preserved by every step.
LEMMA StepIInv == IInv /\ [Next]_vars => IInv'
<1> SUFFICES ASSUME IInv, [Next]_vars PROVE IInv'
  OBVIOUS
<1>0. TypeOK /\ TypeOK'
  BY StepTypeOK DEF IInv
<1> USE KindsAndUids, KidsAssumption DEF cluster, operator, process, history
<1> DEFINE Rest == KidsSurvive /\ GoneOnlyBetween /\ NoOrphan /\ TargetIsDeleted
                   /\ FromTheFirstKind
<1>1. ASSUME NEW name \in CRs \cup {NoName}, Begin(name) PROVE IInv'
  <2>1. /\ had' # NoUid => crs[target'] = "terminating" /\ had' = uid[target']
        /\ pc = "idle" /\ pc' = "prompt"
        /\ UNCHANGED <<kind, crs, uid, final, kids, owner, lost, exposed>>
    BY <1>1 DEF Begin, Deleted
  <2>2. Rest'
    BY <2>1 DEF IInv, KidsSurvive, GoneOnlyBetween, NoOrphan, TargetIsDeleted, BeforePatch,
                   FromTheFirstKind
  <2>3. VisitedAreDisowned'
    BY <2>1 DEF VisitedAreDisowned, Visited
  <2> QED BY <1>0, <2>2, <2>3 DEF IInv
<1>2. CASE AnswerPrompt \/ ScaleDown
  <2>1. /\ pc \in {"prompt", "scaleDown"} /\ pc' \in {"scaleDown", "webhook"}
        /\ UNCHANGED <<crs, uid, final, kids, owner, lost, exposed, target, had, kind>>
    BY <1>2 DEF AnswerPrompt, ScaleDown, Goto
  <2>2. Rest'
    BY <2>1 DEF IInv, KidsSurvive, GoneOnlyBetween, NoOrphan, TargetIsDeleted, BeforePatch,
                   FromTheFirstKind
  <2>3. VisitedAreDisowned'
    BY <2>1 DEF VisitedAreDisowned, Visited
  <2> QED BY <1>0, <2>2, <2>3 DEF IInv
<1>3. CASE DeleteWebhook
  <2>1. /\ pc = "webhook" /\ pc' = "list"
        /\ UNCHANGED <<crs, uid, final, kids, owner, lost, exposed, target, had, kind, todo>>
    BY <1>3 DEF DeleteWebhook, Goto
  <2>2. Rest'
    BY <2>1 DEF IInv, KidsSurvive, GoneOnlyBetween, NoOrphan, TargetIsDeleted, BeforePatch,
                   FromTheFirstKind
  <2>3. VisitedAreDisowned'
    BY <1>0, <2>1 DEF IInv, FromTheFirstKind, VisitedAreDisowned, Visited, TypeOK
  <2> QED BY <1>0, <2>2, <2>3 DEF IInv
<1>4. CASE ListKind
  <2>1. /\ pc = "list" /\ pc' \in {"list", "update", "patch"}
        /\ UNCHANGED <<crs, uid, final, kids, owner, lost, exposed, target, had>>
    BY <1>4 DEF ListKind, NextKind
  <2>2. Rest'
    BY <2>1 DEF IInv, KidsSurvive, GoneOnlyBetween, NoOrphan, TargetIsDeleted, BeforePatch,
                   FromTheFirstKind
  <2> DEFINE Copied == had # NoUid /\ target \notin exposed
  <2>3. ASSUME Copied, NEW k \in Kids, Parent[k] = target, KindOf[k] = Kinds[kind],
               k \notin todo'
        PROVE  owner[k] = NoUid
    <3>1. owner[k] # NoUid => owner[k] = had /\ had # NoUid /\ k \in kids
      BY <2>1, <2>3 DEF IInv, NoOrphan, TargetIsDeleted, BeforePatch, KidsSurvive, TypeOK
    <3>2. k \in kids /\ owner[k] = had /\ had # NoUid => k \in todo'
      BY <1>4, <2>3 DEF ListKind
    <3> QED BY <2>3, <3>1, <3>2
  <2>4. ASSUME Copied, NEW k \in Kids, Parent[k] = target, NEW i \in DOMAIN Kinds,
               i < kind, KindOf[k] = Kinds[i]
        PROVE  owner[k] = NoUid
    BY <2>1, <2>4 DEF IInv, VisitedAreDisowned, Visited
  <2>5. CASE todo' = {}
    <3>1. NextKind
      BY <1>4, <2>5 DEF ListKind
    <3>2. ASSUME Copied, NEW k \in Kids, Parent[k] = target, Visited(k)'
          PROVE  owner[k] = NoUid
      <4>1. PICK i \in DOMAIN Kinds : i <= kind /\ KindOf[k] = Kinds[i]
        BY <1>0, <2>1, <3>1, <3>2, KindDone
      <4> QED BY <2>3, <2>4, <2>5, <3>2, <4>1, <1>0 DEF TypeOK
    <3>3. VisitedAreDisowned'
      BY <2>1, <3>2 DEF VisitedAreDisowned
    <3> QED BY <1>0, <2>2, <3>3 DEF IInv
  <2>6. CASE todo' # {}
    <3>1. pc' = "update" /\ kind' = kind
      BY <1>4, <2>6 DEF ListKind
    <3>2. VisitedAreDisowned'
      BY <2>1, <2>3, <2>4, <3>1 DEF VisitedAreDisowned, Visited
    <3> QED BY <1>0, <2>2, <3>2 DEF IInv
  <2> QED BY <2>5, <2>6
<1>5. ASSUME NEW k \in Kids, Disown(k) PROVE IInv'
  <2>1. /\ pc = "update" /\ pc' \in {"list", "update", "patch"}
        /\ owner' = [owner EXCEPT ![k] = NoUid] /\ todo' = todo \ {k}
        /\ UNCHANGED <<crs, uid, final, kids, lost, exposed, target, had>>
    BY <1>5 DEF Disown, NextKind
  <2>2. /\ owner' \in [Kids -> 0..NoUid]
        /\ \A j \in Kids : owner[j] = NoUid \/ j = k => owner'[j] = NoUid
        /\ \A j \in Kids : owner'[j] # NoUid => owner'[j] = owner[j]
    BY <1>0, <2>1 DEF TypeOK
  <2>3. Rest'
    BY <2>1, <2>2 DEF IInv, KidsSurvive, GoneOnlyBetween, NoOrphan, TargetIsDeleted, BeforePatch,
                        FromTheFirstKind
  <2> DEFINE Copied == had # NoUid /\ target \notin exposed
  <2>4. ASSUME Copied, NEW j \in Kids, Parent[j] = target, KindOf[j] = Kinds[kind],
               j \notin todo'
        PROVE  owner'[j] = NoUid
    BY <2>1, <2>2, <2>4 DEF IInv, VisitedAreDisowned, Visited
  <2>5. ASSUME Copied, NEW j \in Kids, Parent[j] = target, NEW i \in DOMAIN Kinds,
               i < kind, KindOf[j] = Kinds[i]
        PROVE  owner'[j] = NoUid
    BY <2>1, <2>2, <2>5 DEF IInv, VisitedAreDisowned, Visited
  <2>6. CASE todo' = {}
    <3>1. NextKind
      BY <1>5, <2>6 DEF Disown
    <3>2. ASSUME Copied, NEW j \in Kids, Parent[j] = target, Visited(j)'
          PROVE  owner'[j] = NoUid
      <4>1. PICK i \in DOMAIN Kinds : i <= kind /\ KindOf[j] = Kinds[i]
        BY <1>0, <2>1, <3>1, <3>2, KindDone
      <4> QED BY <2>4, <2>5, <2>6, <3>2, <4>1, <1>0 DEF TypeOK
    <3>3. VisitedAreDisowned'
      BY <2>1, <3>2 DEF VisitedAreDisowned
    <3> QED BY <1>0, <2>3, <3>3 DEF IInv
  <2>7. CASE todo' # {}
    <3>1. pc' = "update" /\ kind' = kind
      BY <1>5, <2>1, <2>7 DEF Disown
    <3>2. VisitedAreDisowned'
      BY <2>1, <2>4, <2>5, <3>1 DEF VisitedAreDisowned, Visited
    <3> QED BY <1>0, <2>3, <3>2 DEF IInv
  <2> QED BY <2>6, <2>7
<1>6. CASE RemoveFinalizers
  <2>1. /\ pc = "patch" /\ pc' = "create" /\ target \in CRs
        /\ final' = final \ {target} /\ crs[target] # "gone"
        /\ UNCHANGED <<uid, kids, owner, target, had, lost>>
    BY <1>0, <1>6 DEF RemoveFinalizers, Goto, TypeOK
  <2>2. FromTheFirstKind' /\ VisitedAreDisowned'
    BY <2>1 DEF FromTheFirstKind, VisitedAreDisowned, Visited
  <2>3. CASE had = NoUid
    <3>1. exposed' = exposed \cup {target} /\ \A c \in CRs \ {target} : crs'[c] = crs[c]
      BY <1>0, <1>6, <2>3 DEF RemoveFinalizers, TypeOK
    <3>2. KidsSurvive' /\ NoOrphan' /\ TargetIsDeleted'
      BY <2>1, <3>1 DEF IInv, KidsSurvive, NoOrphan, TargetIsDeleted, BeforePatch
    <3>3. GoneOnlyBetween'
      BY <2>1, <3>1 DEF IInv, GoneOnlyBetween
    <3> QED BY <1>0, <2>2, <3>2, <3>3 DEF IInv
  <2>4. CASE had # NoUid
    <3>1. exposed' = exposed /\ crs' = [crs EXCEPT ![target] = "gone"]
      BY <1>6, <2>1, <2>4 DEF RemoveFinalizers, IInv, TargetIsDeleted, BeforePatch
    <3>2. target \notin exposed => \A k \in Kids : Parent[k] = target => owner[k] = NoUid
      BY <2>1, <2>4 DEF IInv, VisitedAreDisowned, Visited
    <3>3. NoOrphan'
      BY <1>0, <2>1, <3>1, <3>2 DEF IInv, NoOrphan, TypeOK
    <3>4. GoneOnlyBetween'
      BY <1>0, <2>1, <3>1 DEF IInv, GoneOnlyBetween, TypeOK
    <3>5. KidsSurvive' /\ TargetIsDeleted'
      BY <1>0, <2>1, <2>4, <3>1 DEF IInv, KidsSurvive, TargetIsDeleted, BeforePatch, TypeOK
    <3> QED BY <1>0, <2>2, <3>3, <3>4, <3>5 DEF IInv
  <2> QED BY <2>3, <2>4
<1>7. CASE Create
  <2>1. /\ pc = "create" /\ pc' = "scaleUp" /\ target \in CRs /\ crs[target] = "gone"
        /\ crs' = [crs EXCEPT ![target] = "live"] /\ final' = final \cup {target}
        /\ uid' = [uid EXCEPT ![target] = @ + 1]
        /\ UNCHANGED <<kids, owner, target, lost, exposed>>
    BY <1>0, <1>7 DEF Create, Goto, TypeOK
  <2>2. NoOrphan'
    BY <1>0, <2>1 DEF IInv, NoOrphan, TypeOK
  <2>3. GoneOnlyBetween'
    BY <1>0, <2>1 DEF IInv, GoneOnlyBetween, TypeOK
  <2>4. KidsSurvive' /\ TargetIsDeleted' /\ FromTheFirstKind' /\ VisitedAreDisowned'
    BY <1>0, <2>1 DEF IInv, KidsSurvive, TargetIsDeleted, BeforePatch, FromTheFirstKind,
                      VisitedAreDisowned, Visited, TypeOK
  <2> QED BY <1>0, <2>2, <2>3, <2>4 DEF IInv
<1>8. CASE ScaleUp
  <2>1. /\ pc = "scaleUp" /\ pc' = "idle" /\ kind' = 1
        /\ UNCHANGED <<crs, uid, final, kids, owner, lost, exposed>>
    BY <1>8 DEF ScaleUp, End
  <2> QED BY <1>0, <2>1 DEF IInv, KidsSurvive, GoneOnlyBetween, NoOrphan, TargetIsDeleted,
                           BeforePatch, FromTheFirstKind, VisitedAreDisowned, Visited
<1>9. CASE Die
  <2>1. pc' = "idle" /\ kind' = 1 /\ UNCHANGED <<crs, uid, final, kids, owner, exposed>>
    BY <1>9 DEF Die, End
  <2>2. GoneOnlyBetween'
    BY <1>9, <2>1 DEF Die, IInv, GoneOnlyBetween
  <2> QED BY <1>0, <2>1, <2>2 DEF IInv, KidsSurvive, NoOrphan, TargetIsDeleted,
                           BeforePatch, FromTheFirstKind, VisitedAreDisowned, Visited
<1>10. ASSUME NEW c \in CRs, DeleteCR(c) PROVE IInv'
  <2>1. /\ crs[c] = "live" /\ \A d \in CRs \ {c} : crs'[d] = crs[d]
        /\ c \notin exposed => c \in final /\ crs'[c] = "terminating"
        /\ UNCHANGED <<uid, final, kids, owner, pc, target, had, kind, todo, lost, exposed>>
    BY <1>0, <1>10 DEF DeleteCR, IInv, GoneOnlyBetween, TypeOK
  <2>2. NoOrphan' /\ GoneOnlyBetween' /\ FromTheFirstKind'
    BY <2>1 DEF IInv, NoOrphan, GoneOnlyBetween, FromTheFirstKind
  <2>3. TargetIsDeleted'
    <3>1. target # c /\ pc # "idle" => crs'[target] = crs[target]
      BY <1>0, <2>1 DEF TypeOK
    <3> QED BY <2>1, <3>1 DEF IInv, TargetIsDeleted, BeforePatch
  <2>4. KidsSurvive' /\ VisitedAreDisowned'
    BY <2>1 DEF IInv, KidsSurvive, VisitedAreDisowned, Visited
  <2> QED BY <1>0, <2>2, <2>3, <2>4 DEF IInv
<1>11. ASSUME NEW c \in CRs, Reconcile(c) PROVE IInv'
  <2>1. PICK j \in Kids : Parent[j] = c /\ owner' = [owner EXCEPT ![j] = uid[c]]
    BY <1>0, <1>11 DEF Reconcile, TypeOK
  <2>2. /\ crs[c] = "live" /\ final' = final \cup {c}
        /\ UNCHANGED <<crs, uid, kids, pc, target, had, kind, todo, lost, exposed>>
    BY <1>11 DEF Reconcile
  <2>3. NoOrphan'
    BY <1>0, <2>1, <2>2 DEF IInv, NoOrphan, TypeOK
  <2>4. KidsSurvive' /\ GoneOnlyBetween' /\ TargetIsDeleted' /\ FromTheFirstKind'
    BY <2>2 DEF IInv, KidsSurvive, GoneOnlyBetween, TargetIsDeleted, FromTheFirstKind
  <2>5. VisitedAreDisowned'
    <3>1. ASSUME had # NoUid, target \notin exposed,
                 NEW k \in Kids, Parent[k] = target, Visited(k)
          PROVE  owner'[k] = NoUid
      <4>1. owner[k] = NoUid
        BY <3>1 DEF IInv, VisitedAreDisowned
      <4>2. crs[target] = "terminating"
        BY <3>1 DEF Visited, IInv, TargetIsDeleted, BeforePatch
      <4> QED BY <1>0, <2>1, <2>2, <3>1, <4>1, <4>2 DEF TypeOK
    <3> QED BY <2>2, <3>1 DEF VisitedAreDisowned, Visited
  <2> QED BY <1>0, <2>3, <2>4, <2>5 DEF IInv
<1>12. ASSUME NEW k \in Kids, CollectGarbage(k) PROVE IInv'
  <2>1. /\ Parent[k] \in exposed /\ kids' = kids \ {k}
        /\ UNCHANGED <<crs, uid, final, owner, pc, target, had, kind, todo, lost, exposed>>
    BY <1>12, NothingToCollect DEF CollectGarbage
  <2>2. KidsSurvive'
    BY <2>1 DEF IInv, KidsSurvive
  <2> QED BY <1>0, <2>1, <2>2 DEF IInv, GoneOnlyBetween, NoOrphan, TargetIsDeleted,
                           FromTheFirstKind, VisitedAreDisowned, Visited
<1>13. CASE StartOperator \/ OperatorPod \/ UNCHANGED vars
  <2>1. UNCHANGED <<crs, uid, final, kids, owner, pc, target, had, kind, todo, lost,
                    exposed>>
    BY <1>13 DEF StartOperator, OperatorPod, vars
  <2> QED BY <1>0, <2>1 DEF IInv, KidsSurvive, GoneOnlyBetween, NoOrphan, TargetIsDeleted,
                           FromTheFirstKind, VisitedAreDisowned, Visited
<1> QED
  BY <1>1, <1>2, <1>3, <1>4, <1>5, <1>6, <1>7, <1>8, <1>9, <1>10, <1>11, <1>12, <1>13
  DEF Next, Environment

\* Over any number of deletions and restores, complete or cut off, nothing falls to the
\* garbage collector but what belongs to a CR that a restore stripped of its finalizers
\* without having a copy of it.
THEOREM KidsSurviveHolds == Spec => []KidsSurvive
<1>1. Init => IInv
  BY InitIInv
<1>2. IInv /\ [Next]_vars => IInv'
  BY StepIInv
<1>3. IInv => KidsSurvive
  BY DEF IInv
<1> QED BY <1>1, <1>2, <1>3, PTL DEF Spec

\* Such CRs aside, one is missing only between the two calls that replace it, or for
\* good when the restore was cut off there, and every other one carries its finalizers.
THEOREM GoneOnlyBetweenHolds == Spec => []GoneOnlyBetween
<1>1. Init => IInv
  BY InitIInv
<1>2. IInv /\ [Next]_vars => IInv'
  BY StepIInv
<1>3. IInv => GoneOnlyBetween
  BY DEF IInv
<1> QED BY <1>1, <1>2, <1>3, PTL DEF Spec
=============================================================================
