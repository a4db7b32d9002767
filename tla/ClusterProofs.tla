---------------------------- MODULE ClusterProofs ----------------------------
(***************************************************************************)
(* Proofs about the two commands that concern a whole cluster.             *)
(* DestroyCluster, for any CRs, kinds, deployments, jobs and number of     *)
(* runs: its types, and what is left of the CRs when it is done.           *)
(* HealthReport, for any clusters of any size, any number of changes       *)
(* during a report and any number of calls that fail: its types, and what  *)
(* the report says of a steady and of a changing cluster.                  *)
(***************************************************************************)
EXTENDS DestroyCluster, HealthReport, FiniteSetTheorems, SequenceTheorems, TLAPS

(* DestroyCluster. *)

Handled(c) == c \in CephClusters /\ cr[c] = "deleting" /\ c \in confirmed

\* Outside the two loops the process knows nothing, after the first it has been through all.
Bounds ==
  /\ stage \in Ended \cup {"prompt"} => kind = 0 /\ todo = {}
  /\ stage \in {"wait", "jobs"} => kind = NumKinds /\ todo = {}
  /\ stage \in Ended \cup {"prompt", "items", "wait", "jobs"} => item = NoCR

\* What the process is through with and was not created since.
Visited ==
  stage \notin Ended \cup {"prompt"} =>
    \A c \in Present \ born : KindOf[c] <= kind /\ c \notin todo /\ c # item => Handled(c)

\* What it is at.
Current ==
  /\ stage \in {"get", "patch"} /\ item \in Present \ born => cr[item] = "deleting"
  /\ stage = "deleteAgain" /\ item \in Present \ born => Handled(item)

DestroyIInv == DestroyTypeOK /\ Bounds /\ Visited /\ Current /\ DoneLeavesNothingOld

States == {"absent", "bare", "live", "deleting"}

-----------------------------------------------------------------------------
(* Type correctness. *)

\* A CR that changes keeps the types of the CRs.
LEMMA BecomesType ==
  ASSUME DestroyTypeOK, NEW c \in CRs, NEW s \in States, Becomes(c, s)
  PROVE  cr' \in [CRs -> States] /\ confirmed' \subseteq CephClusters \cap Present'
BY DEF DestroyTypeOK, Becomes, Present, States, CephClusters

\* So does a step of the environment that concerns a CR.
LEMMA CRsTypeOK ==
  ASSUME DestroyTypeOK, NEW c \in CRs, Create(c) \/ Adopt(c) \/ Release(c)
  PROVE  DestroyTypeOK'
<1>1. cr' \in [CRs -> States] /\ confirmed' \subseteq CephClusters \cap Present' /\ born' \subseteq CRs
  BY BecomesType DEF Create, Adopt, Release, States, DestroyTypeOK
<1>2. UNCHANGED <<workVars, stage, loopVars, waitVars>>
  BY DEF Create, Adopt, Release
<1> QED BY <1>1, <1>2 DEF DestroyTypeOK, States, workVars, loopVars, waitVars

\* And one that concerns the workloads.
LEMMA WorkTypeOK ==
  ASSUME DestroyTypeOK,
         Orchestrate \/ StopOrchestrating \/ \E w \in Workloads :
           CreateWorkload(w) \/ CollectGarbage(w) \/ CreatePod(w) \/ RemovePod(w)
  PROVE  DestroyTypeOK'
<1>1. UNCHANGED <<crVars, stage, loopVars, waitVars>>
  BY DEF Orchestrate, StopOrchestrating, CreateWorkload, CollectGarbage, CreatePod, RemovePod
<1>2. work' \subseteq Workloads /\ pods' \subseteq Workloads \ {Toolbox} /\ orchestrating' \in BOOLEAN
  BY DEF DestroyTypeOK, Orchestrate, StopOrchestrating, CreateWorkload, CollectGarbage,
     CreatePod, RemovePod
<1> QED BY <1>1, <1>2 DEF DestroyTypeOK, Present, crVars, loopVars, waitVars

\* And one of the loop over the CRs.
LEMMA LoopTypeOK ==
  ASSUME DestroyTypeOK, ListKind \/ (\E c \in CRs : DeleteCR(c)) \/ GetCR \/ Patch \/ DeleteAgain
  PROVE  DestroyTypeOK'
<1> USE DestroyAssumption
<1>1. CASE ListKind
  BY <1>1 DEF ListKind, DestroyTypeOK, Present, workVars, waitVars
<1>2. ASSUME NEW c \in CRs, DeleteCR(c) PROVE DestroyTypeOK'
  <2>1. cr' \in [CRs -> States] /\ confirmed' \subseteq CephClusters \cap Present'
    BY <1>2, BecomesType DEF DeleteCR, AfterDelete, States, DestroyTypeOK, Present
  <2>2. KindOf[c] = kind /\ stage = "items"
    BY <1>2 DEF DeleteCR, DestroyTypeOK
  <2> QED BY <1>2, <2>1, <2>2 DEF DeleteCR, DestroyTypeOK, States, workVars, waitVars, Ended
<1>3. CASE GetCR
  BY <1>3 DEF GetCR, ItemDone, DestroyTypeOK, Present, crVars, workVars, waitVars, Ended
<1>4. CASE Patch
  <2>1. cr' \in [CRs -> States] /\ confirmed' \subseteq CephClusters \cap Present'
    <3>1. CASE item \in Present /\ item \notin CephClusters
      BY <1>4, <3>1, BecomesType DEF Patch, AfterPatch, States, DestroyTypeOK, Present
    <3>2. CASE item \notin Present \/ item \in CephClusters
      BY <1>4, <3>2 DEF Patch, DestroyTypeOK, Present, States
    <3> QED BY <3>1, <3>2
  <2> QED BY <1>4, <2>1 DEF Patch, ItemDone, DestroyTypeOK, States, workVars, waitVars, Ended
<1>5. CASE DeleteAgain
  <2>1. cr' \in [CRs -> States] /\ confirmed' \subseteq CephClusters \cap Present'
    BY <1>5, BecomesType DEF DeleteAgain, AfterDelete, States, DestroyTypeOK
  <2> QED BY <1>5, <2>1 DEF DeleteAgain, ItemDone, DestroyTypeOK, States, workVars, waitVars, Ended
<1> QED BY <1>1, <1>2, <1>3, <1>4, <1>5

\* And one of the loop over the pods, of the beginning and of the end.
LEMMA WaitTypeOK ==
  ASSUME DestroyTypeOK,
         \/ DestroyClusterCmd \/ AnswerPrompt \/ DeleteToolbox \/ ListPods \/ Timeout \/ OrWarn \/ Die
         \/ \E a \in Apps : PruneDeployments(a) \/ PruneJobs(a)
         \/ \E w \in Workloads : DeleteDeployment(w) \/ DeleteJob(w)
  PROVE  DestroyTypeOK'
<1> USE DestroyAssumption DEF DestroyTypeOK, Present, Ended, crVars, workVars, loopVars, waitVars
<1>1. AppOf[Toolbox] \in Apps
  BY DEF Workloads
<1>2. CASE DestroyClusterCmd \/ AnswerPrompt \/ DeleteToolbox
  BY <1>2 DEF DestroyClusterCmd, AnswerPrompt, DeleteToolbox
<1>3. CASE Timeout \/ Die
  BY <1>1, <1>3 DEF Timeout, Die, Exit
<1>4. CASE ListPods
  <2>1. CASE pods = {}
    BY <1>1, <1>4, <2>1 DEF ListPods, Exit
  <2>2. CASE pods # {}
    <3>1. {AppOf[w] : w \in pods} \subseteq Apps
      OBVIOUS
    <3> QED BY <1>4, <2>2, <3>1 DEF ListPods
  <2> QED BY <2>1, <2>2
<1>5. CASE OrWarn
  BY <1>1, <1>5 DEF OrWarn, AppDone
<1>6. ASSUME NEW a \in Apps, PruneDeployments(a) \/ PruneJobs(a) PROVE DestroyTypeOK'
  BY <1>1, <1>6 DEF PruneDeployments, PruneJobs, AppDone, OfApp
<1>7. ASSUME NEW w \in Workloads, DeleteDeployment(w) \/ DeleteJob(w) PROVE DestroyTypeOK'
  BY <1>7 DEF DeleteDeployment, DeleteJob
<1> QED BY <1>2, <1>3, <1>4, <1>5, <1>6, <1>7

\* Every step keeps the types.
LEMMA DestroyStepTypeOK == DestroyTypeOK /\ [DestroyNext]_destroyVars => DestroyTypeOK'
<1> SUFFICES ASSUME DestroyTypeOK, [DestroyNext]_destroyVars PROVE DestroyTypeOK'
  OBVIOUS
<1>1. CASE UNCHANGED destroyVars
  BY <1>1 DEF destroyVars, DestroyTypeOK, Present, crVars, workVars, loopVars, waitVars
<1>2. CASE DestroyNext
  BY <1>2, CRsTypeOK, WorkTypeOK, LoopTypeOK, WaitTypeOK DEF DestroyNext, Step, Environment
<1> QED BY <1>1, <1>2

\* The first state is well typed.
LEMMA DestroyInitTypeOK == DestroyInit => DestroyTypeOK
BY DestroyAssumption DEF DestroyInit, DestroyTypeOK, Present, Ended, Workloads

\* The type invariant holds in every reachable state.
THEOREM DestroyTypeCorrect == DestroySpec => []DestroyTypeOK
<1>1. DestroyInit => DestroyTypeOK
  BY DestroyInitTypeOK
<1>2. DestroyTypeOK /\ [DestroyNext]_destroyVars => DestroyTypeOK'
  BY DestroyStepTypeOK
<1> QED BY <1>1, <1>2, PTL DEF DestroySpec
-----------------------------------------------------------------------------
(* What is left when the command is done. *)

\* The invariant holds in the first state.
LEMMA DestroyInitIInv == DestroyInit => DestroyIInv
<1> SUFFICES ASSUME DestroyInit PROVE DestroyIInv
  OBVIOUS
<1>1. DestroyTypeOK
  BY DestroyInitTypeOK
<1> QED BY <1>1 DEF DestroyInit, DestroyIInv, Bounds, Visited, Current, DoneLeavesNothingOld, Ended

\* The environment does not bring back a CR that is not new, nor take it out of its deletion
\* before it is gone.
LEMMA EnvironmentIInv == DestroyIInv /\ Environment => DestroyIInv'
<1> SUFFICES ASSUME DestroyIInv, Environment PROVE DestroyIInv'
  OBVIOUS
<1>1. DestroyTypeOK /\ DestroyTypeOK' /\ UNCHANGED <<stage, loopVars>>
  <2>1. UNCHANGED <<stage, loopVars>>
    BY DEF Environment, Create, Adopt, Release, Orchestrate, StopOrchestrating, CreateWorkload,
      CollectGarbage, CreatePod, RemovePod
  <2> QED BY <2>1, CRsTypeOK, WorkTypeOK DEF DestroyIInv, Environment
<1> DEFINE Kept(c) == /\ c \in Present \ born
                      /\ cr[c] = "deleting" => cr'[c] = "deleting"
                      /\ Handled(c) => Handled(c)'
<1>2. ASSUME NEW c \in Present' \ born' PROVE Kept(c)
  <2>1. ASSUME NEW d \in CRs, Create(d) \/ Adopt(d) \/ Release(d) PROVE Kept(c)
    BY <1>1, <1>2, <2>1 DEF Create, Adopt, Release, Becomes, Present, Handled, DestroyTypeOK
  <2>2. CASE UNCHANGED crVars
    BY <1>2, <2>2 DEF crVars, Present, Handled
  <2> QED BY <2>1, <2>2 DEF Environment, Orchestrate, StopOrchestrating, CreateWorkload,
        CollectGarbage, CreatePod, RemovePod
<1>3. Bounds'
  BY <1>1 DEF DestroyIInv, Bounds, loopVars
<1>4. Visited'
  BY <1>1, <1>2 DEF DestroyIInv, Visited, loopVars
<1>5. Current'
  BY <1>1, <1>2 DEF DestroyIInv, Current, loopVars
<1>6. DoneLeavesNothingOld'
  BY <1>1, <1>2 DEF DestroyIInv, DoneLeavesNothingOld, Handled
<1> QED BY <1>1, <1>3, <1>4, <1>5, <1>6 DEF DestroyIInv

\* The list of a kind has what is left of it.
LEMMA ListKindIInv == DestroyIInv /\ ListKind => DestroyIInv'
<1> SUFFICES ASSUME DestroyIInv, ListKind PROVE DestroyIInv'
  OBVIOUS
<1> USE DestroyAssumption
<1>1. DestroyTypeOK /\ DestroyTypeOK'
  BY LoopTypeOK DEF DestroyIInv
<1>2. /\ stage = "items" /\ stage' = "items" /\ todo = {} /\ item = NoCR /\ item' = NoCR
      /\ kind' = kind + 1 /\ todo' = {c \in Present : KindOf[c] = kind'}
      /\ born' = born \ {c \in CRs : KindOf[c] = kind'} /\ UNCHANGED <<cr, confirmed>>
  BY DEF ListKind, DestroyIInv, Bounds
<1>3. ASSUME NEW c \in Present' \ born', KindOf[c] <= kind', c \notin todo' PROVE Handled(c)'
  <2>1. c \in Present /\ KindOf[c] # kind' /\ c \notin born /\ c # item
    BY <1>2, <1>3 DEF Present
  <2>2. KindOf[c] <= kind
    <3>1. KindOf[c] \in Nat /\ kind \in Nat
      BY <1>1 DEF DestroyTypeOK, Present
    <3> QED BY <1>2, <1>3, <2>1, <3>1
  <2>3. Handled(c)
    BY <1>2, <2>1, <2>2 DEF DestroyIInv, Visited, Ended
  <2> QED BY <1>2, <2>3 DEF Handled
<1> QED BY <1>1, <1>2, <1>3 DEF DestroyIInv, Bounds, Visited, Current, DoneLeavesNothingOld, Ended

\* What is deleted is gone, or being deleted.
LEMMA DeleteCRIInv == ASSUME DestroyIInv, NEW c \in CRs, DeleteCR(c) PROVE DestroyIInv'
<1>1. DestroyTypeOK /\ DestroyTypeOK'
  BY LoopTypeOK DEF DestroyIInv
<1>2. /\ stage = "items" /\ stage' \in {"items", "get"} /\ c \in todo /\ todo' = todo \ {c}
      /\ UNCHANGED <<kind, born>> /\ item = NoCR /\ item # c
  BY DestroyAssumption DEF DeleteCR, DestroyIInv, Bounds
<1>3. CASE c \in Present
  <2>1. stage' = "get" /\ item' = c /\ Becomes(c, AfterDelete(cr[c]))
    BY <1>3 DEF DeleteCR
  <2>2. c \in Present' => cr'[c] = "deleting"
    BY <1>1, <2>1 DEF Becomes, AfterDelete, Present, DestroyTypeOK
  <2>3. ASSUME NEW d \in CRs \ {c} PROVE cr'[d] = cr[d] /\ (d \in confirmed' <=> d \in confirmed)
    BY <1>1, <2>1 DEF Becomes, DestroyTypeOK
  <2>4. Visited'
    <3>1. ASSUME NEW d \in Present' \ born', KindOf[d] <= kind', d \notin todo', d # c
          PROVE  Handled(d)'
      <4>1. d \in Present \ born /\ KindOf[d] <= kind /\ d \notin todo /\ d # item
        BY <1>2, <2>3, <3>1, DestroyAssumption DEF Present
      <4>2. Handled(d)
        BY <1>2, <4>1 DEF DestroyIInv, Visited, Ended
      <4> QED BY <2>3, <3>1, <4>2 DEF Handled, Present
    <3> QED BY <2>1, <3>1 DEF Visited
  <2> QED BY <1>1, <1>2, <2>1, <2>2, <2>4
        DEF DestroyIInv, Bounds, Current, DoneLeavesNothingOld, Ended
<1>4. CASE c \notin Present
  <2>1. UNCHANGED <<cr, confirmed, stage, item>>
    BY <1>4 DEF DeleteCR
  <2> QED BY <1>1, <1>2, <1>4, <2>1
        DEF DestroyIInv, Bounds, Visited, Current, DoneLeavesNothingOld, Handled, Present, Ended
<1> QED BY <1>3, <1>4

\* A CR that is gone is done with.
LEMMA GetCRIInv == DestroyIInv /\ GetCR => DestroyIInv'
<1> SUFFICES ASSUME DestroyIInv, GetCR PROVE DestroyIInv'
  OBVIOUS
<1>1. DestroyTypeOK'
  BY LoopTypeOK DEF DestroyIInv
<1>2. stage = "get" /\ UNCHANGED <<cr, confirmed, born, kind, todo>>
  BY DEF GetCR, crVars
<1>3. CASE item \in Present
  BY <1>1, <1>2, <1>3
    DEF GetCR, DestroyIInv, Bounds, Visited, Current, DoneLeavesNothingOld, Handled, Present, Ended
<1>4. CASE item \notin Present
  BY <1>1, <1>2, <1>4
    DEF GetCR, ItemDone, DestroyIInv, Bounds, Visited, Current, DoneLeavesNothingOld, Handled,
       Present, Ended
<1> QED BY <1>3, <1>4

\* Without its finalizers a deleted CR is gone; a cluster has its clean-up confirmed.
LEMMA PatchIInv == DestroyIInv /\ Patch => DestroyIInv'
<1> SUFFICES ASSUME DestroyIInv, Patch PROVE DestroyIInv'
  OBVIOUS
<1>1. DestroyTypeOK /\ DestroyTypeOK'
  BY LoopTypeOK DEF DestroyIInv
<1>2. stage = "patch" /\ UNCHANGED <<born, kind, todo>> /\ item \in CRs
  BY <1>1 DEF Patch, DestroyTypeOK
<1>3. CASE item \notin Present
  BY <1>1, <1>2, <1>3
    DEF Patch, ItemDone, DestroyIInv, Bounds, Visited, Current, DoneLeavesNothingOld, Handled,
       Present, Ended
<1>4. CASE item \in Present
  <2>1. stage' = "deleteAgain" /\ item' = item
    BY <1>4 DEF Patch
  <2>2. ASSUME NEW d \in CRs \ {item}
        PROVE  cr'[d] = cr[d] /\ (d \in confirmed' <=> d \in confirmed)
    BY <1>1, <1>2, <1>4 DEF Patch, Becomes, DestroyTypeOK
  <2>3. item \in Present' \ born' => Handled(item)'
    BY <1>1, <1>2, <1>4 DEF Patch, Becomes, AfterPatch, DestroyIInv, Current, Handled, Present,
       DestroyTypeOK
  <2>4. Visited'
    BY <1>2, <2>1, <2>2 DEF DestroyIInv, Visited, Handled, Present, Ended
  <2> QED BY <1>1, <1>2, <2>1, <2>3, <2>4
        DEF DestroyIInv, Bounds, Current, DoneLeavesNothingOld, Ended, Handled
<1> QED BY <1>3, <1>4

\* The second Delete changes nothing of a CR that is not new.
LEMMA DeleteAgainIInv == DestroyIInv /\ DeleteAgain => DestroyIInv'
<1> SUFFICES ASSUME DestroyIInv, DeleteAgain PROVE DestroyIInv'
  OBVIOUS
<1>1. DestroyTypeOK /\ DestroyTypeOK'
  BY LoopTypeOK DEF DestroyIInv
<1>2. /\ stage = "deleteAgain" /\ stage' = "items" /\ item' = NoCR /\ item \in CRs
      /\ UNCHANGED <<born, kind, todo>> /\ Becomes(item, AfterDelete(cr[item]))
  BY <1>1 DEF DeleteAgain, ItemDone, DestroyTypeOK
<1>3. ASSUME NEW d \in CRs \ {item} PROVE cr'[d] = cr[d] /\ (d \in confirmed' <=> d \in confirmed)
  BY <1>1, <1>2 DEF Becomes, DestroyTypeOK
<1>4. item \in Present' \ born' =>
        item \in CephClusters /\ cr'[item] = "deleting" /\ item \in confirmed'
  BY <1>1, <1>2 DEF Becomes, AfterDelete, DestroyIInv, Current, Handled, Present, DestroyTypeOK
<1>5. Visited'
  <2>1. ASSUME NEW d \in Present' \ born', KindOf[d] <= kind', d \notin todo' PROVE Handled(d)'
    <3>1. CASE d = item
      BY <1>4, <2>1, <3>1 DEF Handled
    <3>2. CASE d # item
      BY <1>2, <1>3, <2>1, <3>2 DEF DestroyIInv, Visited, Handled, Present, Ended
    <3> QED BY <3>1, <3>2
  <2> QED BY <2>1 DEF Visited
<1> QED BY <1>1, <1>2, <1>5 DEF DestroyIInv, Bounds, Current, DoneLeavesNothingOld, Ended

\* The waiting changes no CR; when it ends the process has been through all of them.
LEMMA WaitIInv ==
  ASSUME DestroyIInv,
         \/ DestroyClusterCmd \/ AnswerPrompt \/ DeleteToolbox \/ ListPods \/ Timeout \/ OrWarn \/ Die
         \/ \E a \in Apps : PruneDeployments(a) \/ PruneJobs(a)
         \/ \E w \in Workloads : DeleteDeployment(w) \/ DeleteJob(w)
  PROVE  DestroyIInv'
<1> USE DestroyAssumption
<1>1. DestroyTypeOK /\ DestroyTypeOK'
  BY WaitTypeOK DEF DestroyIInv
<1>2. UNCHANGED crVars
  BY DEF DestroyClusterCmd, AnswerPrompt, DeleteToolbox, ListPods, Timeout, OrWarn, Die,
    PruneDeployments, PruneJobs, DeleteDeployment, DeleteJob
<1>3. CASE stage \in {"wait", "jobs"} /\ stage' \in {"wait", "jobs"} /\ UNCHANGED loopVars
  BY <1>1, <1>2, <1>3 DEF DestroyIInv, Bounds, Visited, Current, DoneLeavesNothingOld, Handled,
    Present, Ended, crVars, loopVars
<1>4. CASE stage = "wait" /\ Exit("done")
  <2>1. ASSUME NEW c \in Present \ born PROVE Handled(c)
    <3>1. KindOf[c] <= NumKinds /\ c # NoCR
      BY DEF Present
    <3> QED BY <1>4, <2>1, <3>1 DEF DestroyIInv, Bounds, Visited, Ended
  <2> QED BY <1>1, <1>2, <1>4, <2>1 DEF Exit, DestroyIInv, Bounds, Visited, Current,
        DoneLeavesNothingOld, Handled, Present, Ended, crVars
<1>5. CASE Exit("failed")
  BY <1>1, <1>5 DEF Exit, DestroyIInv, Bounds, Visited, Current, DoneLeavesNothingOld, Ended
<1>6. CASE DestroyClusterCmd \/ AnswerPrompt
  <2>1. /\ stage \in Ended \cup {"prompt"} /\ stage' \in {"prompt", "items", "failed"}
        /\ (stage' = "items" => stage = "prompt") /\ UNCHANGED loopVars
    BY <1>6 DEF DestroyClusterCmd, AnswerPrompt, Ended
  <2>2. \A c \in Present' : ~(KindOf[c] <= 0)
    BY DEF Present
  <2>3. kind' = 0 /\ todo' = {} /\ item' = NoCR
    BY <2>1 DEF DestroyIInv, Bounds, loopVars
  <2> QED BY <1>1, <2>1, <2>2, <2>3
        DEF DestroyIInv, Bounds, Visited, Current, DoneLeavesNothingOld, Ended
<1>7. CASE DeleteToolbox
  BY <1>1, <1>2, <1>7 DEF DeleteToolbox, DestroyIInv, Bounds, Visited, Current,
    DoneLeavesNothingOld, Handled, Present, Ended, crVars, loopVars
<1>8. CASE ListPods
  BY <1>3, <1>4, <1>8 DEF ListPods, Poll
<1>9. CASE Timeout
  BY <1>4, <1>9 DEF Timeout, Poll
<1>10. CASE Die
  BY <1>5, <1>10 DEF Die
<1>11. CASE OrWarn \/ (\E a \in Apps : PruneDeployments(a) \/ PruneJobs(a))
         \/ \E w \in Workloads : DeleteDeployment(w) \/ DeleteJob(w)
  BY <1>3, <1>11 DEF OrWarn, AppDone, PruneDeployments, PruneJobs, DeleteDeployment, DeleteJob
<1> QED BY <1>6, <1>7, <1>8, <1>9, <1>10, <1>11

\* Every step preserves the invariant.
LEMMA DestroyStepIInv == DestroyIInv /\ [DestroyNext]_destroyVars => DestroyIInv'
<1> SUFFICES ASSUME DestroyIInv, [DestroyNext]_destroyVars PROVE DestroyIInv'
  OBVIOUS
<1>1. CASE UNCHANGED destroyVars
  <2>1. DestroyTypeOK'
    BY <1>1, DestroyStepTypeOK DEF DestroyIInv
  <2> QED BY <1>1, <2>1 DEF destroyVars, DestroyIInv, Bounds, Visited, Current,
        DoneLeavesNothingOld, Handled, Present, crVars, loopVars
<1>2. CASE DestroyNext
  BY <1>2, EnvironmentIInv, ListKindIInv, DeleteCRIInv, GetCRIInv, PatchIInv, DeleteAgainIInv, WaitIInv
    DEF DestroyNext, Step
<1> QED BY <1>1, <1>2

\* When the command is done, nothing is left of the CRs it found, but clusters that are being
\* deleted with their clean-up confirmed: however often it was cut off before, and whatever the
\* operator and users do meanwhile.
THEOREM DoneLeavesNothingOldHolds == DestroySpec => []DoneLeavesNothingOld
<1>1. DestroyInit => DestroyIInv
  BY DestroyInitIInv
<1>2. DestroyIInv /\ [DestroyNext]_destroyVars => DestroyIInv'
  BY DestroyStepIInv
<1>3. DestroyIInv => DoneLeavesNothingOld
  BY DEF DestroyIInv
<1> QED BY <1>1, <1>2, <1>3, PTL DEF DestroySpec

\* The destruction of data is confirmed only for clusters that are being deleted, or new.
LEMMA StepConfirms ==
  DestroyIInv /\ [DestroyNext]_destroyVars =>
    [\A c \in confirmed' \ confirmed : cr[c] = "deleting" \/ c \in born]_destroyVars
<1> SUFFICES ASSUME DestroyIInv, [DestroyNext]_destroyVars, NEW c \in confirmed' \ confirmed
             PROVE  cr[c] = "deleting" \/ c \in born
  OBVIOUS
<1>1. CASE Patch
  BY <1>1 DEF Patch, Becomes, DestroyIInv, Current
<1>2. CASE ~Patch
  <2>1. confirmed' \subseteq confirmed
    BY <1>2
    DEF DestroyNext, Step, Environment, DestroyClusterCmd, AnswerPrompt, ListKind, DeleteCR,
        GetCR, DeleteAgain, DeleteToolbox, ListPods, Timeout, OrWarn, Die, PruneDeployments,
        PruneJobs, DeleteDeployment, DeleteJob, Create, Adopt, Release, Orchestrate,
        StopOrchestrating, CreateWorkload, CollectGarbage, CreatePod, RemovePod, Becomes,
        destroyVars, crVars
  <2> QED BY <2>1
<1> QED BY <1>1, <1>2

\* No run, complete or cut off, confirms it for another cluster.
THEOREM NeverConfirmsHolds == DestroySpec => NeverConfirmsALiveCluster
<1>1. DestroyInit => DestroyIInv
  BY DestroyInitIInv
<1>2. DestroyIInv /\ [DestroyNext]_destroyVars => DestroyIInv'
  BY DestroyStepIInv
<1> QED BY <1>1, <1>2, StepConfirms, PTL DEF DestroySpec, NeverConfirmsALiveCluster

-----------------------------------------------------------------------------
(* HealthReport. *)

\* The order of the calls of a report.
Rank(label) ==
  CASE label = "idle" -> 0 [] label = "status" -> 1 [] label = "openshift" -> 2
    [] label = "mons" -> 3 [] label = "health" -> 4 [] label = "osds" -> 5
    [] label = "pods" -> 6 [] label = "clusterPods" -> 7 [] label = "pgs" -> 8
    [] label = "pg" -> 9 [] label = "mgr" -> 10 [] label = "nodes" -> 11
    [] label = "capacity" -> 12 [] label = "mtu" -> 13 [] label = "done" -> 14

\* The process is past a call.
Past(call) == Rank(call) < Rank(pc)

Rated(check, fine, severe) ==
  /\ results[check] # StatusError
  /\ results[check] = StatusOK <=> fine
  /\ results[check] = StatusCritical <=> severe

\* A call failed, and that is what the report says of the check.
IsError(check, failure) == failure /\ results[check] = StatusError

MonsRated ==
  \/ IsError(MonDistribution, status.err \/ "mons" \in failed)
  \/ /\ ~status.err /\ "mons" \notin failed
     /\ \E c \in seen : Rated(MonDistribution, DaemonsFine("mon", c) /\ QuorumFine(status),
                            QuorumLost(status))

\* A check that rates the first answer of Ceph.
StatusRated(check, failure) ==
  \/ IsError(check, failure)
  \/ ~failure /\ Rated(check, Fine(check, status), Severe(check, status))

\* There is no health to rate: no answer, or none of Ceph's codes.
NoHealth == status.err \/ status.health \notin HealthCodes

\* A check that rates what one call of its own shows.
CallRated(check, call) ==
  \/ IsError(check, call \in failed)
  \/ call \notin failed /\ \E c \in seen : Rated(check, Fine(check, c), Severe(check, c))

\* The pods of each namespace as they were at some time.
PodsRated ==
  \/ IsError(PodsStatus, "pods" \in failed \/ "clusterPods" \in failed)
  \/ /\ "pods" \notin failed /\ "clusterPods" \notin failed
     /\ \E c, d \in seen :
          Rated(PodsStatus, PodsFine(cluster.operatorNs, c) /\ PodsFine(ClusterNs, d), FALSE)

MTURated ==
  openshift /\ "mtu" \notin failed =>
    \E c \in seen : Rated(NetworkMTU, Fine(NetworkMTU, c), FALSE)

\* What the checks that were made say, and of which time.
VerdictsHold ==
  /\ Past("mons") => MonsRated
  /\ Past("health") => StatusRated(CephClusterHealth, NoHealth)
  /\ Past("osds") => CallRated(OSDDistribution, "osds")
  /\ Past("clusterPods") => PodsRated
  /\ Past("pg") => StatusRated(PGStatus, status.err)
  /\ Past("mgr") => CallRated(MGRStatus, "mgr")
  /\ Past("nodes") => CallRated(NodePressure, "nodes")
  /\ Past("capacity") => StatusRated(ClusterCapacity, "capacity" \in failed)
  /\ Past("mtu") => MTURated

\* No call has failed that has yet to be made.
FailedWereMade == \A call \in failed : Past(call)

\* What the report has seen: the cluster as it is, always the same installation.
SeenIsCurrent ==
  /\ pc # "idle" => cluster \in seen
  /\ \A c \in seen : c.operatorNs = cluster.operatorNs /\ c.openshift = cluster.openshift

\* `ceph -s' was answered by a cluster that was seen.
AnsweredBySeen ==
  /\ Past("status") => (status.err <=> "status" \in failed)
  /\ pc \in {"idle", "status"} => status.err
  /\ ~status.err => \E c \in seen : status = StatusOf(c)

PlatformIsKnown ==
  Past("openshift") /\ "openshift" \notin failed => openshift = cluster.openshift

\* The MTU of a cluster that is not OpenShift is not looked at, and is never an error.
MTUIsNoError == results[NetworkMTU] # StatusError /\ (pc = "mtu" => openshift)

FirstNamespaceSeen ==
  pc = "clusterPods" =>
    "pods" \notin failed /\ \E c \in seen : unfit = {p \in c.pods : p.ns = cluster.operatorNs
                                                     /\ p.phase \notin {"Running", "Succeeded"}}

\* The PG states the loop has been through, and what it makes of them.
Looked == 1..(Len(status.pgs) - Len(rest))

PGsSoFar ==
  pc = "pg" =>
    /\ ~status.err /\ Len(rest) <= Len(status.pgs)
    /\ \A i \in 1..Len(rest) : rest[i] = status.pgs[Len(status.pgs) - Len(rest) + i]
    /\ worst = StatusOK <=> \A i \in Looked : status.pgs[i] = "clean"
    /\ worst = StatusCritical <=> \E i \in Looked : status.pgs[i] = "down"

IInv ==
  /\ TypeOK /\ FailedWereMade /\ SeenIsCurrent /\ AnsweredBySeen /\ PlatformIsKnown
  /\ MTUIsNoError /\ FirstNamespaceSeen /\ PGsSoFar /\ VerdictsHold

-----------------------------------------------------------------------------
(* The operators of the model. *)

LEMMA Ranks ==
  /\ Rank("idle") = 0 /\ Rank("status") = 1 /\ Rank("openshift") = 2 /\ Rank("mons") = 3
  /\ Rank("health") = 4 /\ Rank("osds") = 5 /\ Rank("pods") = 6 /\ Rank("clusterPods") = 7
  /\ Rank("pgs") = 8 /\ Rank("pg") = 9 /\ Rank("mgr") = 10 /\ Rank("nodes") = 11
  /\ Rank("capacity") = 12 /\ Rank("mtu") = 13 /\ Rank("done") = 14
BY DEF Rank

LEMMA RankType == \A label \in Labels : Rank(label) \in Nat
BY Ranks DEF Labels

\* The rating of a check, one by one.
LEMMA FineCases ==
  ASSUME NEW c
  PROVE  /\ Fine(MonDistribution, c) <=> DaemonsFine("mon", c) /\ QuorumFine(c)
         /\ Fine(CephClusterHealth, c) <=> c.health = "HEALTH_OK"
         /\ Fine(OSDDistribution, c) <=> DaemonsFine("osd", c)
         /\ Fine(PodsStatus, c) <=> PodsFine(c.operatorNs, c) /\ PodsFine(ClusterNs, c)
         /\ Fine(PGStatus, c) <=> PGsFine(c)
         /\ Fine(MGRStatus, c) <=>
              \E p \in c.pods : p.app = "mgr" /\ p.ns = ClusterNs /\ p.phase = "Running"
         /\ Fine(NodePressure, c) <=> \A n \in c.nodes : n.ready /\ ~n.pressure
         /\ Fine(ClusterCapacity, c) <=> CapacityFine(c)
         /\ Fine(NetworkMTU, c) <=> c.mtu >= 8900
BY DEF Fine, MonDistribution, CephClusterHealth, OSDDistribution, PodsStatus, PGStatus,
   MGRStatus, NodePressure, ClusterCapacity, NetworkMTU

LEMMA SevereCases ==
  ASSUME NEW c
  PROVE  /\ Severe(MonDistribution, c) <=> QuorumLost(c)
         /\ ~Severe(OSDDistribution, c) /\ ~Severe(PodsStatus, c)
         /\ ~Severe(MGRStatus, c) /\ ~Severe(NetworkMTU, c)
         /\ Severe(CephClusterHealth, c) <=> c.health = "HEALTH_ERR"
         /\ Severe(PGStatus, c) <=> \E i \in DOMAIN c.pgs : c.pgs[i] = "down"
         /\ Severe(NodePressure, c) <=> \E n \in c.nodes : ~n.ready
         /\ Severe(ClusterCapacity, c) <=>
              [capacity |-> TRUE, severity |-> "HEALTH_ERR"] \in c.checks
BY DEF Severe, MonDistribution, CephClusterHealth, OSDDistribution, PodsStatus, PGStatus,
   MGRStatus, NodePressure, ClusterCapacity, NetworkMTU

\* A count of three is three that are different, as for the unique nodes of a daemon.
LEMMA AtLeastThree ==
  ASSUME NEW S, IsFiniteSet(S)
  PROVE  Cardinality(S) >= 3 <=> \E x, y, z \in S : x # y /\ y # z /\ z # x
<1>1. ASSUME NEW x \in S, NEW y \in S, NEW z \in S, x # y, y # z, z # x
      PROVE  Cardinality(S) >= 3
  <2>1. IsFiniteSet({x}) /\ Cardinality({x}) = 1
    BY FS_Singleton
  <2>2. IsFiniteSet({x} \cup {y}) /\ Cardinality({x} \cup {y}) = 1 + 1
    BY <1>1, <2>1, FS_AddElement, Zenon
  <2>3. Cardinality(({x} \cup {y}) \cup {z}) = 1 + 1 + 1
    BY <1>1, <2>2, FS_AddElement, Zenon
  <2>4. ({x} \cup {y}) \cup {z} \in SUBSET S
    BY <1>1
  <2>5. Cardinality(({x} \cup {y}) \cup {z}) <= Cardinality(S)
    BY <2>4, FS_Subset
  <2>6. Cardinality(S) \in Nat
    BY FS_CardinalityType
  <2> QED BY <2>3, <2>5, <2>6
<1>2. ASSUME Cardinality(S) >= 3
      PROVE  \E x, y, z \in S : x # y /\ y # z /\ z # x
  <2> Cardinality(S) \in Nat
    BY FS_CardinalityType
  <2>1. PICK x \in S : TRUE
    BY <1>2, FS_EmptySet
  <2>2. IsFiniteSet(S \ {x}) /\ Cardinality(S \ {x}) = Cardinality(S) - 1
    BY <2>1, FS_RemoveElement, Zenon
  <2>3. PICK y \in S \ {x} : TRUE
    BY <1>2, <2>2, FS_EmptySet
  <2>4. /\ IsFiniteSet((S \ {x}) \ {y})
        /\ Cardinality((S \ {x}) \ {y}) = Cardinality(S \ {x}) - 1
    BY <2>2, <2>3, FS_RemoveElement, Zenon
  <2>6. Cardinality((S \ {x}) \ {y}) # 0
    BY <1>2, <2>2, <2>4
  <2>5. PICK z \in (S \ {x}) \ {y} : TRUE
    BY <2>4, <2>6, FS_EmptySet
  <2> QED BY <2>1, <2>3, <2>5
<1> QED BY <1>1, <1>2

\* Finitely many pods run on finitely many nodes.
LEMMA NodesAreFinite ==
  ASSUME NEW S, IsFiniteSet(S)
  PROVE  IsFiniteSet({p.node : p \in S} \ {""})
<1> DEFINE T == {p.node : p \in S}
           f == [p \in S |-> p.node]
<1>1. f \in Surjection(S, T)
  BY DEF Surjection
<1>2. IsFiniteSet(T)
  BY <1>1, FS_Surjection
<1>3. T \ {""} \in SUBSET T
  OBVIOUS
<1> QED BY <1>2, <1>3, FS_Subset

\* The count of checkPodsOnNodes is right: three nodes that have a name, and all pods running.
LEMMA PodsOnNodesIsFine ==
  ASSUME TypeOK, NEW daemon
  PROVE  /\ PodsOnNodes(daemon) \in {StatusOK, StatusWarning}
         /\ PodsOnNodes(daemon) = StatusOK <=> DaemonsFine(daemon, cluster)
<1> DEFINE own == {p \in cluster.pods : p.app = daemon /\ p.ns = ClusterNs}
           running == {p \in own : p.phase = "Running"}
           nodes == {p.node : p \in running} \ {""}
<1>1. IsFiniteSet(cluster.pods)
  BY ClustersAssumption DEF TypeOK
<1>2. IsFiniteSet(running)
  BY <1>1, FS_Subset
<1>3. IsFiniteSet(nodes)
  BY <1>2, NodesAreFinite
<1>4. Cardinality(nodes) \in Nat
  BY <1>3, FS_CardinalityType
<1>5. PodsOnNodes(daemon) =
        IF running # own \/ Cardinality(nodes) < 3 THEN StatusWarning ELSE StatusOK
  BY DEF PodsOnNodes, Pods
<1>6. running = own <=> \A p \in own : p.phase = "Running"
  OBVIOUS
<1>7. ASSUME running = own
      PROVE  Cardinality(nodes) >= 3 <=>
               \E p, q, r \in own : /\ p.node # q.node /\ q.node # r.node /\ r.node # p.node
                                     /\ "" \notin {p.node, q.node, r.node}
  <2> HIDE DEF nodes, own
  <2>1. Cardinality(nodes) >= 3 <=> \E x, y, z \in nodes : x # y /\ y # z /\ z # x
    BY <1>3, AtLeastThree
  <2>2. nodes = {p.node : p \in own} \ {""}
    BY <1>7 DEF nodes
  <2>3. ASSUME NEW x \in nodes, NEW y \in nodes, NEW z \in nodes, x # y, y # z, z # x
        PROVE  \E p, q, r \in own : /\ p.node # q.node /\ q.node # r.node /\ r.node # p.node
                                     /\ "" \notin {p.node, q.node, r.node}
    <3>1. PICK p \in own : x = p.node
      BY <2>2
    <3>2. PICK q \in own : y = q.node
      BY <2>2
    <3>3. PICK r \in own : z = r.node
      BY <2>2
    <3> QED BY <2>2, <2>3, <3>1, <3>2, <3>3
  <2>4. ASSUME NEW p \in own, NEW q \in own, NEW r \in own,
               p.node # q.node, q.node # r.node, r.node # p.node, "" \notin {p.node, q.node, r.node}
        PROVE  \E x, y, z \in nodes : x # y /\ y # z /\ z # x
    <3>1. p.node \in nodes /\ q.node \in nodes /\ r.node \in nodes
      BY <2>2, <2>4
    <3> QED BY <2>4, <3>1
  <2> QED BY <2>1, <2>3, <2>4
<1>8. DaemonsFine(daemon, cluster) <=> running = own /\ Cardinality(nodes) >= 3
  BY <1>6, <1>7 DEF DaemonsFine
<1> HIDE DEF own, running, nodes
<1> QED BY <1>4, <1>5, <1>8 DEF StatusOK, StatusWarning

-----------------------------------------------------------------------------
(* Types. *)

LEMMA ResultType ==
  ASSUME TypeOK, NEW check \in Checks, NEW verdict \in NoResult..StatusError,
         Conclude(check, verdict)
  PROVE  results' \in [Checks -> NoResult..StatusError]
BY DEF TypeOK, Conclude

\* What is kept of the answer of `ceph -s', or of its absence.
LEMMA StatusType ==
  ASSUME TypeOK
  PROVE  /\ status.err => status = NoStatus
         /\ ~status.err => \E c \in Clusters : status = StatusOf(c)
         /\ status.pgs \in Seq(PGStates)
<1>1. CASE status = NoStatus
  <2>1. status.err /\ status.pgs = <<>>
    BY <1>1 DEF NoStatus
  <2>2. <<>> \in Seq(PGStates)
    BY EmptySeq
  <2> QED BY <1>1, <2>1, <2>2
<1>2. ASSUME NEW c \in Clusters, status = StatusOf(c)
      PROVE  ~status.err /\ status.pgs \in Seq(PGStates)
  <2>1. c \in Cluster
    BY ClustersAssumption
  <2>2. c.pgs \in Seq(PGStates)
    BY <2>1 DEF Cluster
  <2>3. status.err = FALSE /\ status.pgs = c.pgs
    BY <1>2 DEF StatusOf
  <2> QED BY <2>2, <2>3
<1> QED BY <1>1, <1>2 DEF TypeOK

LEMMA CheckNames ==
  /\ MonDistribution \in Checks /\ CephClusterHealth \in Checks /\ OSDDistribution \in Checks
  /\ PodsStatus \in Checks /\ PGStatus \in Checks /\ MGRStatus \in Checks
  /\ NodePressure \in Checks /\ ClusterCapacity \in Checks /\ NetworkMTU \in Checks
BY DEF Checks, StandardChecks

LEMMA DistinctNames ==
  /\ MonDistribution # CephClusterHealth /\ MonDistribution # OSDDistribution
  /\ CephClusterHealth # OSDDistribution
  /\ PodsStatus \notin {MonDistribution, CephClusterHealth, OSDDistribution}
  /\ PGStatus \notin {MonDistribution, CephClusterHealth, OSDDistribution, PodsStatus}
  /\ MGRStatus \notin {MonDistribution, CephClusterHealth, OSDDistribution, PodsStatus,
                       PGStatus}
  /\ NodePressure \notin {MonDistribution, CephClusterHealth, OSDDistribution, PodsStatus,
                          PGStatus, MGRStatus}
  /\ ClusterCapacity \notin {MonDistribution, CephClusterHealth, OSDDistribution, PodsStatus,
                             PGStatus, MGRStatus, NodePressure}
  /\ NetworkMTU \notin StandardChecks
BY DEF StandardChecks, MonDistribution, CephClusterHealth, OSDDistribution, PodsStatus,
   PGStatus, MGRStatus, NodePressure, ClusterCapacity, NetworkMTU

LEMMA SeverityTypes ==
  /\ StatusOK \in NoResult..StatusError /\ StatusWarning \in NoResult..StatusError
  /\ StatusCritical \in NoResult..StatusError /\ StatusError \in NoResult..StatusError
  /\ StatusOK..StatusCritical \subseteq NoResult..StatusError
BY DEF NoResult, StatusOK, StatusWarning, StatusCritical, StatusError

LEMMA InitTypeOK == Init => TypeOK
<1> SUFFICES ASSUME Init PROVE TypeOK
  OBVIOUS
<1>1. <<>> \in Seq(PGStates)
  BY EmptySeq
<1>2. worst \in StatusOK..StatusCritical
  BY DEF Init, StatusOK, StatusCritical
<1>3. results \in [Checks -> NoResult..StatusError]
  BY DEF Init, NoResults, NoResult, StatusError
<1> QED BY <1>1, <1>2, <1>3 DEF Init, TypeOK, Labels

\* A failed call is one of the calls.
LEMMA FailedType ==
  ASSUME TypeOK, NEW call \in Calls, Answered \/ Fails(call) \/ CephFails(call)
  PROVE  failed' \subseteq Calls
BY DEF TypeOK, Answered, Fails, CephFails

\* A check with a call of its own leaves the types as they are.
LEMMA CheckType ==
  ASSUME TypeOK, NEW check \in Checks, NEW call \in Calls,
         NEW verdict \in NoResult..StatusError, NEW withoutAnswer \in NoResult..StatusError,
         Check(check, call, verdict, withoutAnswer), pc' \in Labels,
         UNCHANGED <<cluster, status, openshift, unfit, rest, worst, seen>>
  PROVE  TypeOK'
<1>1. failed' \subseteq Calls
  BY FailedType DEF Check
<1>2. results' \in [Checks -> NoResult..StatusError]
  BY ResultType DEF Check
<1> QED BY <1>1, <1>2 DEF TypeOK

\* The quorum is never worse than an error of the call that lists the pods.
LEMMA EvaluateMonQuorumType ==
  /\ EvaluateMonQuorum \in {StatusOK, StatusWarning, StatusCritical}
  /\ Worse(StatusError, EvaluateMonQuorum) = StatusError
BY DEF EvaluateMonQuorum, Worse, StatusOK, StatusWarning, StatusCritical, StatusError

LEMMA StepTypeOK == TypeOK /\ [Next]_vars => TypeOK'
<1> SUFFICES ASSUME TypeOK, [Next]_vars PROVE TypeOK'
  OBVIOUS
<1> USE CheckNames, SeverityTypes DEF Goto
<1>1. CASE Begin
  BY <1>1 DEF Begin, TypeOK, Labels
<1>2. CASE FormatReport
  <2>1. <<>> \in Seq(PGStates)
    BY EmptySeq
  <2>2. worst' \in StatusOK..StatusCritical
    BY <1>2 DEF FormatReport, Forget, StatusOK, StatusCritical
  <2>3. results' \in [Checks -> NoResult..StatusError]
    BY <1>2 DEF FormatReport, Forget, NoResults, NoResult, StatusError
  <2> QED BY <1>2, <2>1, <2>2, <2>3 DEF FormatReport, Forget, TypeOK, Labels
<1>3. CASE UnMarshalCephStatus
  <2>1. failed' \subseteq Calls
    BY <1>3, FailedType DEF UnMarshalCephStatus, Calls, Labels
  <2>2. status' \in {StatusOf(c) : c \in Clusters} \cup {NoStatus}
    BY <1>3 DEF UnMarshalCephStatus, TypeOK
  <2> QED BY <1>3, <2>1, <2>2 DEF UnMarshalCephStatus, TypeOK, Labels
<1>4. CASE IsOpenShiftCluster
  <2>1. failed' \subseteq Calls
    BY <1>4, FailedType DEF IsOpenShiftCluster, Calls, Labels
  <2>2. openshift' \in BOOLEAN
    <3>1. cluster \in Cluster
      BY ClustersAssumption DEF TypeOK
    <3>2. cluster.openshift \in BOOLEAN
      BY <3>1, Zenon DEF Cluster
    <3> QED BY <1>4, <3>2, Zenon DEF IsOpenShiftCluster
  <2> QED BY <1>4, <2>1, <2>2 DEF IsOpenShiftCluster, TypeOK, Labels
<1>5. CASE CheckMonDistribution
  <2> DEFINE verdict(p) == IF status.err THEN StatusError ELSE Worse(p, EvaluateMonQuorum)
  <2>1. \A p \in NoResult..StatusError : verdict(p) \in NoResult..StatusError
    BY EvaluateMonQuorumType DEF Worse
  <2>2. PodsOnNodes("mon") \in NoResult..StatusError
    BY PodsOnNodesIsFine
  <2>3. Check(MonDistribution, "mons", verdict(PodsOnNodes("mon")), verdict(StatusError))
    BY <1>5 DEF CheckMonDistribution
  <2>4. "mons" \in Calls /\ pc' \in Labels
    BY <1>5 DEF CheckMonDistribution, Calls, Labels
  <2>5. verdict(PodsOnNodes("mon")) \in NoResult..StatusError
        /\ verdict(StatusError) \in NoResult..StatusError
    BY <2>1, <2>2
  <2> HIDE DEF verdict
  <2> QED BY <1>5, <2>3, <2>4, <2>5, CheckType DEF CheckMonDistribution
<1>6. CASE CheckCephClusterHealth
  <2>1. results' \in [Checks -> NoResult..StatusError]
    BY <1>6, ResultType, StatusType DEF CheckCephClusterHealth
  <2> QED BY <1>6, <2>1 DEF CheckCephClusterHealth, TypeOK, Labels
<1>7. CASE CheckOSDDistribution
  BY <1>7, PodsOnNodesIsFine, CheckType DEF CheckOSDDistribution, Calls, Labels
<1>8. CASE CheckAllPodsStatus
  <2>1. failed' \subseteq Calls
    BY <1>8, FailedType DEF CheckAllPodsStatus, Calls, Labels
  <2>2. results' \in [Checks -> NoResult..StatusError]
    BY <1>8, ResultType DEF CheckAllPodsStatus, PodsVerdict, TypeOK
  <2>3. unfit' \in SUBSET Pod
    <3>1. cluster.pods \in SUBSET Pod
      BY ClustersAssumption DEF TypeOK, Cluster
    <3> QED BY <1>8, <3>1 DEF CheckAllPodsStatus, NotRunning, TypeOK
  <2> QED BY <1>8, <2>1, <2>2, <2>3 DEF CheckAllPodsStatus, TypeOK, Labels
<1>9. CASE CheckClusterPods
  BY <1>9, CheckType DEF CheckClusterPods, PodsVerdict, Calls, Labels
<1>10. CASE CheckPGStatus
  <2>1. results' \in [Checks -> NoResult..StatusError]
    BY <1>10, ResultType DEF CheckPGStatus, TypeOK
  <2>2. worst' \in StatusOK..StatusCritical
    BY <1>10 DEF CheckPGStatus, TypeOK, StatusOK, StatusCritical
  <2>3. rest' \in Seq(PGStates)
    BY <1>10, StatusType DEF CheckPGStatus, TypeOK
  <2> QED BY <1>10, <2>1, <2>2, <2>3 DEF CheckPGStatus, TypeOK, Labels
<1>11. CASE NextPG
  <2>1. rest' \in Seq(PGStates)
    BY <1>11, HeadTailProperties DEF NextPG, TypeOK
  <2>2. worst' \in StatusOK..StatusCritical
    BY <1>11 DEF NextPG, WithPG, TypeOK, StatusOK, StatusWarning, StatusCritical
  <2> QED BY <1>11, <2>1, <2>2 DEF NextPG, TypeOK
<1>12. CASE PGsDone
  <2>1. results' \in [Checks -> NoResult..StatusError]
    BY <1>12, ResultType DEF PGsDone, TypeOK
  <2> QED BY <1>12, <2>1 DEF PGsDone, TypeOK, Labels
<1>13. CASE CheckMGRStatus
  BY <1>13, CheckType DEF CheckMGRStatus, Calls, Labels
<1>14. CASE CheckNodeResourcePressure
  BY <1>14, CheckType DEF CheckNodeResourcePressure, NodesVerdict, Calls, Labels
<1>15. CASE CheckClusterCapacity
  <2>1. failed' \subseteq Calls
    BY <1>15, FailedType DEF CheckClusterCapacity, Calls, Labels
  <2>2. results' \in [Checks -> NoResult..StatusError]
    BY <1>15, ResultType DEF CheckClusterCapacity, CapacityStatusFromHealth
  <2> QED BY <1>15, <2>1, <2>2 DEF CheckClusterCapacity, TypeOK, Labels
<1>16. CASE CheckNetworkMTUConfig
  BY <1>16, CheckType DEF CheckNetworkMTUConfig, Calls, Labels
<1>17. ASSUME NEW c \in Clusters, Change(c) PROVE TypeOK'
  BY <1>17 DEF Change, process, TypeOK
<1>18. CASE UNCHANGED vars
  BY <1>18 DEF vars, process, TypeOK
<1> QED
  BY <1>1, <1>2, <1>3, <1>4, <1>5, <1>6, <1>7, <1>8, <1>9, <1>10, <1>11, <1>12, <1>13, <1>14,
     <1>15, <1>16, <1>17, <1>18 DEF Next, Health

-----------------------------------------------------------------------------
(* What the report knows. *)

LEMMA InitIInv == Init => IInv
<1> SUFFICES ASSUME Init PROVE IInv
  OBVIOUS
<1>1. FailedWereMade /\ SeenIsCurrent
  BY DEF Init, FailedWereMade, SeenIsCurrent
<1>2. status.err
  BY DEF Init, NoStatus
<1>3. \A call \in Labels : ~Past(call)
  BY Ranks DEF Past, Init, Labels
<1>4. results[NetworkMTU] # StatusError
  BY CheckNames DEF Init, NoResults, NoResult, StatusError
<1>5. AnsweredBySeen /\ PlatformIsKnown /\ MTUIsNoError /\ FirstNamespaceSeen /\ PGsSoFar
  BY <1>2, <1>3, <1>4
  DEF AnsweredBySeen, PlatformIsKnown, MTUIsNoError, FirstNamespaceSeen, PGsSoFar, Init, Labels
<1>6. VerdictsHold
  BY <1>3 DEF VerdictsHold, Labels
<1> QED BY <1>1, <1>5, <1>6, InitTypeOK DEF IInv

\* The parts of IInv that concern no single check.
Known ==
  /\ FailedWereMade /\ SeenIsCurrent /\ AnsweredBySeen /\ PlatformIsKnown
  /\ MTUIsNoError /\ FirstNamespaceSeen /\ PGsSoFar

\* Calls are made in order, none is made twice: at most the call made now fails.
LEMMA OnwardStep ==
  ASSUME TypeOK, [Next]_vars, pc' # "idle" \/ pc = "idle"
  PROVE  /\ Rank(pc) <= Rank(pc') /\ failed \subseteq failed' /\ failed' \subseteq failed \cup {pc}
         /\ failed' # failed => Rank(pc) < Rank(pc')
<1> USE Ranks DEF Goto, Check, Answered, Fails, CephFails
<1>1. CASE Begin \/ FormatReport \/ UnMarshalCephStatus \/ IsOpenShiftCluster
  BY <1>1 DEF Begin, FormatReport, UnMarshalCephStatus, IsOpenShiftCluster
<1>2. CASE CheckMonDistribution \/ CheckCephClusterHealth \/ CheckOSDDistribution
  BY <1>2 DEF CheckMonDistribution, CheckCephClusterHealth, CheckOSDDistribution
<1>3. CASE CheckAllPodsStatus \/ CheckClusterPods
  BY <1>3 DEF CheckAllPodsStatus, CheckClusterPods
<1>4. CASE CheckPGStatus \/ PGsDone
  BY <1>4 DEF CheckPGStatus, PGsDone
<1>5. CASE NextPG \/ (\E c \in Clusters : Change(c)) \/ UNCHANGED vars
  <2>1. pc' = pc /\ failed' = failed
    BY <1>5 DEF NextPG, Change, process, vars
  <2>2. Rank(pc) \in Nat
    BY DEF TypeOK, Labels
  <2> QED BY <2>1, <2>2
<1>6. CASE CheckMGRStatus \/ CheckNodeResourcePressure
  BY <1>6 DEF CheckMGRStatus, CheckNodeResourcePressure
<1>7. CASE CheckClusterCapacity \/ CheckNetworkMTUConfig
  BY <1>7 DEF CheckClusterCapacity, CheckNetworkMTUConfig
<1> QED BY <1>1, <1>2, <1>3, <1>4, <1>5, <1>6, <1>7 DEF Next, Health

\* During a report nothing that it knows is forgotten, and no result changes that is there.
LEMMA NothingForgotten ==
  ASSUME IInv, [Next]_vars, pc # "idle", pc' # "idle"
  PROVE  /\ seen \subseteq seen'
         /\ cluster'.operatorNs = cluster.operatorNs /\ cluster'.openshift = cluster.openshift
         /\ Past("status") => status' = status
         /\ Past("openshift") => openshift' = openshift
<1> USE DEF Goto
<1>1. CASE Begin \/ FormatReport \/ UnMarshalCephStatus \/ IsOpenShiftCluster
  BY <1>1, Ranks
  DEF Begin, FormatReport, UnMarshalCephStatus, IsOpenShiftCluster, Past
<1>2. CASE CheckMonDistribution \/ CheckCephClusterHealth \/ CheckOSDDistribution
  BY <1>2 DEF CheckMonDistribution, CheckCephClusterHealth, CheckOSDDistribution
<1>3. CASE CheckAllPodsStatus \/ CheckClusterPods \/ CheckPGStatus \/ PGsDone \/ NextPG
  BY <1>3 DEF CheckAllPodsStatus, CheckClusterPods, CheckPGStatus, PGsDone, NextPG
<1>4. CASE \/ CheckMGRStatus \/ CheckNodeResourcePressure
           \/ CheckClusterCapacity \/ CheckNetworkMTUConfig
  BY <1>4 DEF CheckMGRStatus, CheckNodeResourcePressure, CheckClusterCapacity,
     CheckNetworkMTUConfig
<1>5. CASE (\E c \in Clusters : Change(c)) \/ UNCHANGED vars
  BY <1>5 DEF Change, process, vars
<1> QED BY <1>1, <1>2, <1>3, <1>4, <1>5 DEF Next, Health

ResultsStay ==
  /\ Past("mons") => results'[MonDistribution] = results[MonDistribution]
  /\ Past("health") => results'[CephClusterHealth] = results[CephClusterHealth]
  /\ Past("osds") => results'[OSDDistribution] = results[OSDDistribution]
  /\ Past("clusterPods") => results'[PodsStatus] = results[PodsStatus]
  /\ Past("pg") => results'[PGStatus] = results[PGStatus]
  /\ Past("mgr") => results'[MGRStatus] = results[MGRStatus]
  /\ Past("nodes") => results'[NodePressure] = results[NodePressure]
  /\ Past("capacity") => results'[ClusterCapacity] = results[ClusterCapacity]
  /\ pc # "mtu" => results'[NetworkMTU] = results[NetworkMTU]

\* A result is final when the process is past its check.
LEMMA ResultsAreFinal ==
  ASSUME IInv, [Next]_vars, pc # "idle", pc' # "idle"
  PROVE  ResultsStay
<1> USE Ranks DEF Goto, Check, Conclude, Past, ResultsStay
<1> results \in [Checks -> NoResult..StatusError]
  BY DEF IInv, TypeOK
<1> USE DistinctNames, CheckNames DEF StandardChecks
<1>2. CASE Begin \/ FormatReport
  BY <1>2 DEF Begin, FormatReport
<1>3. CASE UNCHANGED results
  BY <1>3
<1>4. CASE CheckMonDistribution
  BY <1>4 DEF CheckMonDistribution
<1>5. CASE CheckCephClusterHealth
  BY <1>5 DEF CheckCephClusterHealth
<1>6. CASE CheckOSDDistribution
  BY <1>6 DEF CheckOSDDistribution
<1>7. CASE CheckAllPodsStatus \/ CheckClusterPods
  BY <1>7 DEF CheckAllPodsStatus, CheckClusterPods
<1>8. CASE CheckPGStatus \/ PGsDone
  BY <1>8 DEF CheckPGStatus, PGsDone
<1>9. CASE CheckMGRStatus
  BY <1>9 DEF CheckMGRStatus
<1>10. CASE CheckNodeResourcePressure
  BY <1>10 DEF CheckNodeResourcePressure
<1>11. CASE CheckClusterCapacity
  BY <1>11 DEF CheckClusterCapacity
<1>12. CASE CheckNetworkMTUConfig
  BY <1>12 DEF CheckNetworkMTUConfig
<1>13. CASE \/ UnMarshalCephStatus \/ IsOpenShiftCluster \/ NextPG
            \/ (\E c \in Clusters : Change(c)) \/ UNCHANGED vars
  BY <1>3, <1>13 DEF UnMarshalCephStatus, IsOpenShiftCluster, NextPG, Change, process, vars
<1> QED
  BY <1>2, <1>4, <1>5, <1>6, <1>7, <1>8, <1>9, <1>10, <1>11, <1>12, <1>13 DEF Next, Health

\* Which steps matter to what the report knows, and where the first two calls lead.
LEMMA ControlFlow ==
  ASSUME [Next]_vars
  PROVE  /\ pc = "idle" => Begin \/ (\E c \in Clusters : Change(c)) \/ UNCHANGED vars
         /\ \/ pc = "idle" \/ FormatReport
            \/ (\E c \in Clusters : Change(c)) \/ UNCHANGED <<cluster, seen>>
         /\ \/ FormatReport \/ UnMarshalCephStatus
            \/ UNCHANGED status /\ (pc = "status" => pc' = "status")
         /\ FormatReport \/ IsOpenShiftCluster \/ (pc = "openshift" => pc' = "openshift")
         /\ pc = "status" => pc' \in {"status", "openshift"}
         /\ pc' = "clusterPods" =>
              CheckAllPodsStatus \/ (pc = "clusterPods" /\ UNCHANGED <<unfit, failed>>)
         /\ pc' = "pg" =>
              CheckPGStatus \/ NextPG \/ (pc = "pg" /\ UNCHANGED <<status, rest, worst>>)
         /\ pc' = "mtu" => (openshift \/ pc = "mtu") /\ UNCHANGED openshift
         /\ pc = "mtu" => CheckNetworkMTUConfig \/ UNCHANGED results
<1> USE DEF Goto
<1>1. CASE Begin
  BY <1>1 DEF Begin
<1>2. CASE FormatReport
  BY <1>2 DEF FormatReport
<1>3. CASE UnMarshalCephStatus \/ IsOpenShiftCluster
  BY <1>3 DEF UnMarshalCephStatus, IsOpenShiftCluster
<1>4. CASE CheckMonDistribution \/ CheckCephClusterHealth \/ CheckOSDDistribution
  BY <1>4 DEF CheckMonDistribution, CheckCephClusterHealth, CheckOSDDistribution
<1>5. CASE CheckAllPodsStatus \/ CheckClusterPods
  BY <1>5 DEF CheckAllPodsStatus, CheckClusterPods
<1>6. CASE CheckPGStatus \/ PGsDone \/ NextPG
  BY <1>6 DEF CheckPGStatus, PGsDone, NextPG
<1>7. CASE CheckMGRStatus \/ CheckNodeResourcePressure \/ CheckNetworkMTUConfig
  BY <1>7 DEF CheckMGRStatus, CheckNodeResourcePressure, CheckNetworkMTUConfig
<1>8. CASE CheckClusterCapacity
  <2>1. pc' = "mtu" => openshift
    BY <1>8 DEF CheckClusterCapacity
  <2> QED BY <1>8, <2>1 DEF CheckClusterCapacity
<1>9. CASE (\E c \in Clusters : Change(c)) \/ UNCHANGED vars
  BY <1>9 DEF Change, process, vars
<1> QED BY <1>1, <1>2, <1>3, <1>4, <1>5, <1>6, <1>7, <1>8, <1>9 DEF Next, Health

\* A report ends by being printed.
LEMMA EndOfReport == ASSUME [Next]_vars, pc # "idle", pc' = "idle" PROVE FormatReport
<1> USE DEF Goto
<1>1. CASE Begin \/ UnMarshalCephStatus \/ IsOpenShiftCluster \/ CheckMonDistribution
  BY <1>1 DEF Begin, UnMarshalCephStatus, IsOpenShiftCluster, CheckMonDistribution
<1>2. CASE CheckCephClusterHealth \/ CheckOSDDistribution \/ CheckAllPodsStatus
  BY <1>2 DEF CheckCephClusterHealth, CheckOSDDistribution, CheckAllPodsStatus
<1>3. CASE CheckClusterPods \/ CheckPGStatus \/ NextPG \/ PGsDone
  BY <1>3 DEF CheckClusterPods, CheckPGStatus, NextPG, PGsDone
<1>4. CASE CheckMGRStatus \/ CheckNodeResourcePressure \/ CheckNetworkMTUConfig
  BY <1>4 DEF CheckMGRStatus, CheckNodeResourcePressure, CheckNetworkMTUConfig
<1>5. CASE CheckClusterCapacity
  <2>1. pc' = IF openshift THEN "mtu" ELSE "done"
    BY <1>5 DEF CheckClusterCapacity
  <2> QED BY <2>1
<1>6. CASE (\E c \in Clusters : Change(c)) \/ UNCHANGED vars
  BY <1>6 DEF Change, process, vars
<1> QED BY <1>1, <1>2, <1>3, <1>4, <1>5, <1>6 DEF Next, Health

\* Before the first call nothing is known, which is all true.
LEMMA BeforeFirstCall ==
  ASSUME pc' \in {"idle", "status"}, failed' = {}, status'.err, SeenIsCurrent',
         results'[NetworkMTU] # StatusError
  PROVE  (Known /\ VerdictsHold)'
<1>1. \A call \in Labels \ {"idle"} : ~Past(call)'
  BY Ranks DEF Past, Labels
<1>2. /\ FailedWereMade' /\ AnsweredBySeen' /\ PlatformIsKnown' /\ MTUIsNoError'
      /\ FirstNamespaceSeen' /\ PGsSoFar'
  BY <1>1 DEF FailedWereMade, AnsweredBySeen, PlatformIsKnown, MTUIsNoError,
     FirstNamespaceSeen, PGsSoFar, Labels
<1> QED BY <1>1, <1>2 DEF Known, VerdictsHold, Labels

\* The first step of a report, and what happens before it.
LEMMA IdleKnows ==
  ASSUME IInv, [Next]_vars, pc = "idle"
  PROVE  (Known /\ VerdictsHold)'
<1>1. failed = {}
  BY Ranks DEF IInv, FailedWereMade, TypeOK, Past, Calls, Labels
<1>2. CASE Begin
  BY <1>1, <1>2, BeforeFirstCall DEF Begin, Goto, IInv, AnsweredBySeen, SeenIsCurrent, MTUIsNoError
<1>3. ASSUME NEW c \in Clusters, Change(c) PROVE (Known /\ VerdictsHold)'
  BY <1>1, <1>3, BeforeFirstCall
  DEF Change, process, IInv, AnsweredBySeen, SeenIsCurrent, MTUIsNoError
<1>4. CASE UNCHANGED vars
  BY <1>1, <1>4, BeforeFirstCall
  DEF vars, process, IInv, AnsweredBySeen, SeenIsCurrent, MTUIsNoError
<1>5. Begin \/ (\E c \in Clusters : Change(c)) \/ UNCHANGED vars
  BY ControlFlow DEF FormatReport, Goto
<1> QED BY <1>2, <1>3, <1>4, <1>5

\* The last step: what was known is forgotten.
LEMMA ForgetfulEnd == ASSUME FormatReport PROVE (Known /\ VerdictsHold)'
<1>1. status'.err
  BY DEF FormatReport, Forget, NoStatus
<1>2. results'[NetworkMTU] # StatusError
  BY CheckNames DEF FormatReport, Forget, NoResults, NoResult, StatusError
<1> QED BY <1>1, <1>2, BeforeFirstCall DEF FormatReport, Forget, Goto, SeenIsCurrent

\* One more PG state is looked at, and weighed with those before it.
LEMMA NextPGLooks == ASSUME IInv, NextPG PROVE PGsSoFar'
<1> DEFINE n == Len(status.pgs) - Len(rest)
<1>1. pc = "pg" /\ rest # <<>> /\ UNCHANGED <<pc, status>>
  BY DEF NextPG
<1>2. rest \in Seq(PGStates) /\ status.pgs \in Seq(PGStates)
  BY StatusType DEF IInv, TypeOK
<1>3. /\ Len(rest) \in Nat /\ Len(status.pgs) \in Nat /\ Len(rest) # 0
  BY <1>1, <1>2, LenProperties, EmptySeq
<1>4. /\ Len(rest') = Len(rest) - 1 /\ \A i \in 1..Len(rest') : rest'[i] = rest[i + 1]
  BY <1>1, <1>2, HeadTailProperties DEF NextPG
<1>5. /\ ~status.err /\ Len(rest) <= Len(status.pgs)
      /\ \A i \in 1..Len(rest) : rest[i] = status.pgs[n + i]
      /\ worst = StatusOK <=> \A i \in 1..n : status.pgs[i] = "clean"
      /\ worst = StatusCritical <=> \E i \in 1..n : status.pgs[i] = "down"
  BY <1>1 DEF IInv, PGsSoFar, Looked
<1>6. Head(rest) = status.pgs[n + 1] /\ Head(rest) \in PGStates
  <2>1. Head(rest) = rest[1] /\ 1 \in 1..Len(rest)
    BY <1>1, <1>2, <1>3
  <2> QED BY <1>1, <1>2, <1>5, <2>1, HeadTailProperties
<1>7. worst' = WithPG(status.pgs[n + 1])
  BY <1>6 DEF NextPG
<1>8. \A i \in 1..Len(rest') : rest'[i] = status.pgs[n + 1 + i]
  <2> SUFFICES ASSUME NEW i \in 1..Len(rest') PROVE rest'[i] = status.pgs[n + 1 + i]
    OBVIOUS
  <2>1. i + 1 \in 1..Len(rest) /\ rest'[i] = rest[i + 1]
    BY <1>3, <1>4
  <2>2. rest[i + 1] = status.pgs[n + (i + 1)]
    BY <1>5, <2>1
  <2>3. n + (i + 1) = n + 1 + i
    <3>1. n \in Int /\ i \in Int
      BY <1>3, <1>4
    <3> HIDE DEF n
    <3> QED BY <3>1
  <2> HIDE DEF n
  <2> QED BY <2>1, <2>2, <2>3
<1>9. 1..(n + 1) = (1..n) \cup {n + 1} /\ n \in Nat
  BY <1>3, <1>5
<1>10. /\ worst' = StatusOK <=> \A i \in 1..(n + 1) : status.pgs[i] = "clean"
       /\ worst' = StatusCritical <=> \E i \in 1..(n + 1) : status.pgs[i] = "down"
  <2>1. worst \in {StatusOK, StatusWarning, StatusCritical}
    BY DEF IInv, TypeOK, StatusOK, StatusWarning, StatusCritical
  <2> HIDE DEF n
  <2> QED BY <1>5, <1>6, <1>7, <1>9, <2>1
    DEF WithPG, PGStates, StatusOK, StatusWarning, StatusCritical
<1>11. Len(status.pgs) - Len(rest') = n + 1 /\ Len(rest') <= Len(status.pgs)
  BY <1>3, <1>4, <1>5
<1>12. Looked' = 1..(n + 1)
  BY <1>1, <1>11 DEF Looked
<1> QED
  BY <1>1, <1>5, <1>8, <1>10, <1>11, <1>12 DEF PGsSoFar

\* What a step of a report leaves known.
LEMMA ReportKnows ==
  ASSUME IInv, [Next]_vars, pc # "idle", pc' # "idle"
  PROVE  Known'
<1> USE DEF IInv
<1>1. FailedWereMade'
  <2> SUFFICES ASSUME NEW call \in failed' PROVE Past(call)'
    BY DEF FailedWereMade
  <2>1. CASE call \in failed
    <3>1. Rank(call) < Rank(pc) /\ Rank(pc) <= Rank(pc')
      BY <2>1, OnwardStep DEF FailedWereMade, Past
    <3>2. Rank(call) \in Nat /\ Rank(pc) \in Nat /\ Rank(pc') \in Nat
      <4>1. call \in Labels /\ pc \in Labels /\ pc' \in Labels
        BY <2>1, StepTypeOK DEF TypeOK, Calls
      <4> QED BY <4>1, RankType
    <3> QED BY <3>1, <3>2 DEF Past
  <2>2. CASE call \notin failed
    BY <2>2, OnwardStep DEF Past
  <2> QED BY <2>1, <2>2
<1>2. SeenIsCurrent'
  <2>1. ASSUME NEW c \in Clusters, Change(c) PROVE SeenIsCurrent'
    BY <2>1 DEF Change, process, SeenIsCurrent
  <2>2. CASE UNCHANGED <<cluster, seen>>
    BY <2>2 DEF SeenIsCurrent
  <2>3. (\E c \in Clusters : Change(c)) \/ UNCHANGED <<cluster, seen>>
    BY ControlFlow DEF FormatReport, Goto
  <2> QED BY <2>1, <2>2, <2>3
<1>3. AnsweredBySeen'
  <2>1. CASE UnMarshalCephStatus
    <3>1. pc = "status" /\ pc' = "openshift" /\ "status" \notin failed /\ seen' = seen
      BY <2>1, Ranks DEF UnMarshalCephStatus, Goto, FailedWereMade, Past
    <3>2. CASE CephAnswers /\ failed' = failed /\ status' = StatusOf(cluster)
      <4>1. ~status'.err
        BY <3>2 DEF StatusOf
      <4>2. cluster \in seen
        BY <3>1 DEF SeenIsCurrent
      <4> QED BY <3>1, <3>2, <4>1, <4>2 DEF AnsweredBySeen
    <3>3. CASE "status" \in failed' /\ status' = NoStatus
      BY <3>1, <3>3 DEF AnsweredBySeen, NoStatus
    <3> QED BY <2>1, <3>2, <3>3 DEF UnMarshalCephStatus, CephFails, Answered
  <2>2. CASE ~UnMarshalCephStatus
    <3>1. status' = status /\ (pc = "status" => pc' = "status")
      BY <2>2, ControlFlow DEF FormatReport, Goto
    <3>2. pc # "status" => Past("status") /\ pc' # "status"
      BY Ranks, OnwardStep DEF TypeOK, Labels, Past
    <3>3. "status" \in failed' <=> "status" \in failed
      BY <3>1, Ranks, OnwardStep
    <3>4. pc = "status" => ~Past("status")'
      BY <3>1, Ranks DEF Past
    <3> QED BY <3>1, <3>2, <3>3, <3>4, NothingForgotten DEF AnsweredBySeen
  <2> QED BY <2>1, <2>2
<1>4. PlatformIsKnown'
  <2>1. CASE IsOpenShiftCluster
    BY <2>1, Ranks DEF IsOpenShiftCluster, PlatformIsKnown, Fails, Answered
  <2>2. CASE ~IsOpenShiftCluster
    <3>1. pc = "openshift" => pc' = "openshift"
      BY <2>2, ControlFlow DEF FormatReport, Goto
    <3>2. Past("openshift")' => Past("openshift")
      <4>1. pc = "status" => pc' \in {"status", "openshift"}
        BY ControlFlow DEF FormatReport, Goto
      <4> QED BY <3>1, <4>1, Ranks DEF TypeOK, Labels, Past
    <3> QED BY <3>2, NothingForgotten, OnwardStep DEF PlatformIsKnown
  <2> QED BY <2>1, <2>2
<1>5. MTUIsNoError'
  <2>1. CASE CheckNetworkMTUConfig
    BY <2>1, CheckNames DEF CheckNetworkMTUConfig, Check, Conclude, Goto, TypeOK, MTUIsNoError,
       StatusOK, StatusWarning, StatusError
  <2>2. CASE ~CheckNetworkMTUConfig
    <3>1. results'[NetworkMTU] = results[NetworkMTU]
      BY <2>2, ControlFlow, ResultsAreFinal DEF ResultsStay
    <3>2. pc' = "mtu" => openshift'
      BY ControlFlow DEF MTUIsNoError
    <3> QED BY <3>1, <3>2 DEF MTUIsNoError
  <2> QED BY <2>1, <2>2
<1>6. FirstNamespaceSeen'
  <2> SUFFICES ASSUME pc' = "clusterPods" PROVE FirstNamespaceSeen'
    BY DEF FirstNamespaceSeen
  <2>1. CASE CheckAllPodsStatus
    <3>1. "pods" \notin failed
      BY <2>1, Ranks DEF CheckAllPodsStatus, FailedWereMade, Past
    <3>2. /\ failed' = failed /\ unfit' = NotRunning(cluster.operatorNs) /\ cluster \in seen
          /\ UNCHANGED <<cluster, seen>>
      BY <2>1 DEF CheckAllPodsStatus, Answered, SeenIsCurrent
    <3> QED BY <3>1, <3>2 DEF FirstNamespaceSeen, NotRunning
  <2>2. CASE pc = "clusterPods" /\ UNCHANGED <<unfit, failed>>
    BY <2>2, NothingForgotten DEF FirstNamespaceSeen
  <2> QED BY <2>1, <2>2, ControlFlow
<1>7. PGsSoFar'
  <2> SUFFICES ASSUME pc' = "pg" PROVE PGsSoFar'
    BY DEF PGsSoFar
  <2>1. CASE CheckPGStatus
    <3>1. ~status.err /\ status' = status /\ rest' = status.pgs /\ worst' = StatusOK
      BY <2>1 DEF CheckPGStatus
    <3>2. status.pgs \in Seq(PGStates)
      BY StatusType
    <3>3. Len(status.pgs) \in Nat
      BY <3>2, LenProperties
    <3> QED BY <3>1, <3>3 DEF PGsSoFar, Looked, StatusOK, StatusCritical
  <2>2. CASE NextPG
    BY <2>2, NextPGLooks
  <2>3. CASE pc = "pg" /\ UNCHANGED <<status, rest, worst>>
    BY <2>3 DEF PGsSoFar, Looked
  <2> QED BY <2>1, <2>2, <2>3, ControlFlow
<1> QED BY <1>1, <1>2, <1>3, <1>4, <1>5, <1>6, <1>7 DEF Known

-----------------------------------------------------------------------------
(* What the checks say. *)

\* Which steps conclude a check.
LEMMA Conclusions ==
  ASSUME [Next]_vars, TypeOK, pc # "idle", pc' # "idle"
  PROVE  /\ Past("mons")' => Past("mons") \/ CheckMonDistribution
         /\ Past("health")' => Past("health") \/ CheckCephClusterHealth
         /\ Past("osds")' => Past("osds") \/ CheckOSDDistribution
         /\ Past("clusterPods")' =>
              Past("clusterPods") \/ CheckClusterPods \/ (CheckAllPodsStatus /\ pc' = "pgs")
         /\ Past("pg")' => Past("pg") \/ PGsDone \/ (CheckPGStatus /\ pc' = "mgr")
         /\ Past("mgr")' => Past("mgr") \/ CheckMGRStatus
         /\ Past("nodes")' => Past("nodes") \/ CheckNodeResourcePressure
         /\ Past("capacity")' => Past("capacity") \/ CheckClusterCapacity
         /\ Past("mtu")' => \/ Past("mtu") \/ CheckNetworkMTUConfig
                            \/ (CheckClusterCapacity /\ ~openshift)
<1>1. /\ Begin => pc = "idle"
      /\ FormatReport => pc' = "idle"
      /\ UnMarshalCephStatus => pc = "status" /\ pc' = "openshift"
      /\ IsOpenShiftCluster => pc = "openshift" /\ pc' = "mons"
      /\ CheckMonDistribution => pc = "mons" /\ pc' = "health"
      /\ CheckCephClusterHealth => pc = "health" /\ pc' = "osds"
      /\ CheckOSDDistribution => pc = "osds" /\ pc' = "pods"
  BY DEF Goto, Begin, FormatReport, UnMarshalCephStatus, IsOpenShiftCluster,
     CheckMonDistribution, CheckCephClusterHealth, CheckOSDDistribution
<1>2. /\ CheckAllPodsStatus => pc = "pods" /\ pc' \in {"clusterPods", "pgs"}
      /\ CheckClusterPods => pc = "clusterPods" /\ pc' = "pgs"
      /\ CheckPGStatus => pc = "pgs" /\ pc' \in {"pg", "mgr"}
      /\ NextPG => pc' = pc
      /\ PGsDone => pc = "pg" /\ pc' = "mgr"
  BY DEF Goto, CheckAllPodsStatus, CheckClusterPods, CheckPGStatus, NextPG, PGsDone
<1>3. /\ CheckMGRStatus => pc = "mgr" /\ pc' = "nodes"
      /\ CheckNodeResourcePressure => pc = "nodes" /\ pc' = "capacity"
      /\ CheckNetworkMTUConfig => pc = "mtu" /\ pc' = "done"
  BY DEF Goto, CheckMGRStatus, CheckNodeResourcePressure, CheckNetworkMTUConfig
<1>4. CheckClusterCapacity => pc = "capacity" /\ pc' = IF openshift THEN "mtu" ELSE "done"
  BY DEF Goto, CheckClusterCapacity
<1>5. (\E c \in Clusters : Change(c)) \/ UNCHANGED vars => pc' = pc
  BY DEF Change, process, vars
<1>6. CASE Begin \/ FormatReport \/ UnMarshalCephStatus \/ IsOpenShiftCluster
  BY <1>1, <1>6, Ranks DEF Past
<1>7. CASE CheckMonDistribution \/ CheckCephClusterHealth \/ CheckOSDDistribution
  BY <1>1, <1>7, Ranks DEF Past
<1>8. CASE CheckAllPodsStatus \/ CheckClusterPods
  BY <1>2, <1>8, Ranks DEF Past
<1>9. CASE CheckPGStatus \/ PGsDone
  BY <1>2, <1>9, Ranks DEF Past
<1>10. CASE NextPG \/ (\E c \in Clusters : Change(c)) \/ UNCHANGED vars
  BY <1>2, <1>5, <1>10 DEF Past
<1>11. CASE CheckMGRStatus \/ CheckNodeResourcePressure \/ CheckNetworkMTUConfig
  BY <1>3, <1>11, Ranks DEF Past
<1>12. CASE CheckClusterCapacity
  BY <1>4, <1>12, Ranks DEF Past
<1> QED BY <1>6, <1>7, <1>8, <1>9, <1>10, <1>11, <1>12 DEF Next, Health

\* A call that the process is past fails no more.
LEMMA PastCallsStay ==
  ASSUME IInv, [Next]_vars, pc' # "idle", NEW call, Past(call)
  PROVE  call \in failed' <=> call \in failed
<1>1. Rank(pc) \in Nat
  BY RankType DEF IInv, TypeOK
<1>2. call # pc
  BY <1>1 DEF Past
<1> QED BY <1>2, OnwardStep DEF IInv

\* A verdict stays what it is while the report goes on.
LEMMA VerdictsStay ==
  ASSUME IInv, [Next]_vars, pc # "idle", pc' # "idle"
  PROVE  /\ Past("mons") => MonsRated'
         /\ Past("health") => StatusRated(CephClusterHealth, NoHealth)'
         /\ Past("osds") => CallRated(OSDDistribution, "osds")'
         /\ Past("clusterPods") => PodsRated'
         /\ Past("pg") => StatusRated(PGStatus, status.err)'
         /\ Past("mgr") => CallRated(MGRStatus, "mgr")'
         /\ Past("nodes") => CallRated(NodePressure, "nodes")'
         /\ Past("capacity") => StatusRated(ClusterCapacity, "capacity" \in failed)'
         /\ Past("mtu") => MTURated'
<1>1. ResultsStay
  BY ResultsAreFinal
<1>2. /\ seen \subseteq seen' /\ cluster'.operatorNs = cluster.operatorNs
      /\ Past("status") => status' = status
      /\ Past("openshift") => openshift' = openshift
  BY NothingForgotten
<1>3. \A call : Past(call) => (call \in failed' <=> call \in failed)
  BY PastCallsStay
<1>4. \A call \in Labels : Past(call) /\ Rank(call) > 2 => Past("status") /\ Past("openshift")
  BY RankType, Ranks DEF Past, IInv, TypeOK
<1>5. VerdictsHold
  BY DEF IInv
<1> USE DEF IsError, Rated
<1>6. ASSUME Past("mons") PROVE MonsRated'
  <2>1. MonsRated /\ results'[MonDistribution] = results[MonDistribution] /\ status' = status
    BY <1>1, <1>2, <1>4, <1>5, <1>6, Ranks DEF VerdictsHold, ResultsStay, Labels
  <2> QED BY <1>2, <1>3, <1>6, <2>1 DEF MonsRated
<1>7. ASSUME Past("health") PROVE StatusRated(CephClusterHealth, NoHealth)'
  <2>1. /\ StatusRated(CephClusterHealth, NoHealth) /\ status' = status
        /\ results'[CephClusterHealth] = results[CephClusterHealth]
    BY <1>1, <1>2, <1>4, <1>5, <1>7, Ranks DEF VerdictsHold, ResultsStay, Labels
  <2> QED BY <2>1 DEF StatusRated, NoHealth
<1>8. ASSUME Past("osds") PROVE CallRated(OSDDistribution, "osds")'
  <2>1. /\ CallRated(OSDDistribution, "osds")
        /\ results'[OSDDistribution] = results[OSDDistribution]
    BY <1>1, <1>5, <1>8 DEF VerdictsHold, ResultsStay
  <2> QED BY <1>2, <1>3, <1>8, <2>1 DEF CallRated
<1>9. ASSUME Past("clusterPods") PROVE PodsRated'
  <2>1. PodsRated /\ results'[PodsStatus] = results[PodsStatus] /\ Past("pods")
    <3>1. Past("pods")
      BY <1>9, Ranks, RankType DEF Past, IInv, TypeOK
    <3> QED BY <1>1, <1>5, <1>9, <3>1 DEF VerdictsHold, ResultsStay
  <2> QED BY <1>2, <1>3, <1>9, <2>1 DEF PodsRated
<1>10. ASSUME Past("pg") PROVE StatusRated(PGStatus, status.err)'
  <2>1. /\ StatusRated(PGStatus, status.err) /\ status' = status
        /\ results'[PGStatus] = results[PGStatus]
    BY <1>1, <1>2, <1>4, <1>5, <1>10, Ranks DEF VerdictsHold, ResultsStay, Labels
  <2> QED BY <2>1 DEF StatusRated
<1>11. ASSUME Past("mgr") PROVE CallRated(MGRStatus, "mgr")'
  <2>1. CallRated(MGRStatus, "mgr") /\ results'[MGRStatus] = results[MGRStatus]
    BY <1>1, <1>5, <1>11 DEF VerdictsHold, ResultsStay
  <2> QED BY <1>2, <1>3, <1>11, <2>1 DEF CallRated
<1>12. ASSUME Past("nodes") PROVE CallRated(NodePressure, "nodes")'
  <2>1. CallRated(NodePressure, "nodes") /\ results'[NodePressure] = results[NodePressure]
    BY <1>1, <1>5, <1>12 DEF VerdictsHold, ResultsStay
  <2> QED BY <1>2, <1>3, <1>12, <2>1 DEF CallRated
<1>13. ASSUME Past("capacity") PROVE StatusRated(ClusterCapacity, "capacity" \in failed)'
  <2>1. /\ StatusRated(ClusterCapacity, "capacity" \in failed) /\ status' = status
        /\ results'[ClusterCapacity] = results[ClusterCapacity]
    BY <1>1, <1>2, <1>4, <1>5, <1>13, Ranks DEF VerdictsHold, ResultsStay, Labels
  <2> QED BY <1>3, <1>13, <2>1 DEF StatusRated
<1>14. ASSUME Past("mtu") PROVE MTURated'
  <2>1. /\ MTURated /\ results'[NetworkMTU] = results[NetworkMTU] /\ openshift' = openshift
    BY <1>1, <1>2, <1>4, <1>5, <1>14, Ranks DEF VerdictsHold, ResultsStay, Labels, Past
  <2> QED BY <1>2, <1>3, <1>14, <2>1 DEF MTURated
<1> QED BY <1>6, <1>7, <1>8, <1>9, <1>10, <1>11, <1>12, <1>13, <1>14

\* A call that has yet to be made has not failed.
LEMMA NotYetFailed == ASSUME IInv PROVE \A call \in Labels : Past(call) \/ call \notin failed
BY DEF IInv, FailedWereMade

\* A check rates what its call shows, and is an error if and only if the call fails.
LEMMA CallConcludes ==
  ASSUME IInv, NEW check \in Checks, NEW call \in Calls, pc = call, NEW verdict,
         Check(check, call, verdict, StatusError), seen' = seen,
         verdict # StatusError, verdict = StatusOK <=> Fine(check, cluster),
         verdict = StatusCritical <=> Severe(check, cluster)
  PROVE  CallRated(check, call)'
<1>1. call \notin failed /\ cluster \in seen
  <2>1. Rank(pc) \in Nat
    BY RankType DEF IInv, TypeOK
  <2> QED BY <2>1 DEF IInv, FailedWereMade, SeenIsCurrent, Past, Calls
<1>2. CASE Answered /\ Conclude(check, verdict)
  <2>1. results'[check] = verdict
    BY <1>2 DEF Conclude, IInv, TypeOK
  <2> QED BY <1>1, <1>2, <2>1 DEF CallRated, Rated, Answered
<1>3. CASE Fails(call) /\ Conclude(check, StatusError)
  <2>1. results'[check] = StatusError
    BY <1>3 DEF Conclude, IInv, TypeOK
  <2> QED BY <1>3, <2>1 DEF CallRated, IsError, Fails
<1> QED BY <1>2, <1>3 DEF Check

LEMMA OSDsAreRated == IInv /\ CheckOSDDistribution => CallRated(OSDDistribution, "osds")'
<1> SUFFICES ASSUME IInv, CheckOSDDistribution PROVE CallRated(OSDDistribution, "osds")'
  OBVIOUS
<1>1. /\ PodsOnNodes("osd") # StatusError /\ PodsOnNodes("osd") # StatusCritical
      /\ PodsOnNodes("osd") = StatusOK <=> DaemonsFine("osd", cluster)
  BY PodsOnNodesIsFine DEF IInv, StatusOK, StatusWarning, StatusCritical, StatusError
<1> QED BY <1>1, FineCases, SevereCases, CheckNames, CallConcludes
    DEF CheckOSDDistribution, Goto, Calls, Labels

LEMMA MGRIsRated == IInv /\ CheckMGRStatus => CallRated(MGRStatus, "mgr")'
<1> SUFFICES ASSUME IInv, CheckMGRStatus PROVE CallRated(MGRStatus, "mgr")'
  OBVIOUS
<1> DEFINE verdict ==
      IF \E p \in Pods("mgr") : p.phase = "Running" THEN StatusOK ELSE StatusWarning
<1>1. /\ verdict # StatusError /\ verdict # StatusCritical
      /\ verdict = StatusOK <=> Fine(MGRStatus, cluster)
  <2>1. Fine(MGRStatus, cluster) <=> \E p \in Pods("mgr") : p.phase = "Running"
    BY FineCases DEF Pods
  <2> QED BY <2>1 DEF StatusOK, StatusWarning, StatusCritical, StatusError
<1>2. Check(MGRStatus, "mgr", verdict, StatusError) /\ pc = "mgr" /\ seen' = seen
  BY DEF CheckMGRStatus, Goto
<1> HIDE DEF verdict
<1> QED BY <1>1, <1>2, SevereCases, CheckNames, CallConcludes DEF Calls, Labels

LEMMA NodesAreRated == IInv /\ CheckNodeResourcePressure => CallRated(NodePressure, "nodes")'
<1> SUFFICES ASSUME IInv, CheckNodeResourcePressure PROVE CallRated(NodePressure, "nodes")'
  OBVIOUS
<1>1. /\ NodesVerdict # StatusError
      /\ NodesVerdict = StatusOK <=> \A n \in cluster.nodes : n.ready /\ ~n.pressure
      /\ NodesVerdict = StatusCritical <=> \E n \in cluster.nodes : ~n.ready
  BY DEF NodesVerdict, StatusOK, StatusWarning, StatusCritical, StatusError
<1> QED BY <1>1, FineCases, SevereCases, CheckNames, CallConcludes
    DEF CheckNodeResourcePressure, Goto, Calls, Labels

\* The mons are rated by the list and the number that Ceph printed, whatever these are.
LEMMA QuorumIsRated ==
  ASSUME IInv, ~status.err
  PROVE  /\ EvaluateMonQuorum \in {StatusOK, StatusWarning, StatusCritical}
         /\ EvaluateMonQuorum = StatusOK <=> QuorumFine(status)
         /\ EvaluateMonQuorum = StatusCritical <=> QuorumLost(status)
<1>1. Cardinality(status.quorum) \in Nat /\ status.numMons \in Nat
  <2>1. PICK c \in Clusters : status = StatusOf(c)
    BY StatusType DEF IInv
  <2>2. c \in Cluster /\ c.quorum \in SUBSET c.monmap /\ IsFiniteSet(c.monmap)
    BY <2>1, ClustersAssumption
  <2>3. Cardinality(c.quorum) \in Nat
    BY <2>2, FS_Subset, FS_CardinalityType
  <2>4. c.numMons \in Nat
    BY <2>2 DEF Cluster
  <2> QED BY <2>1, <2>3, <2>4 DEF StatusOf
<1>2. Cardinality(status.quorum) >= Majority(status.numMons)
        <=> ~(2 * Cardinality(status.quorum) <= status.numMons)
  BY <1>1 DEF Majority
<1> QED BY <1>2
    DEF EvaluateMonQuorum, QuorumFine, QuorumLost, StatusOK, StatusWarning, StatusCritical

\* The pods are counted now, the quorum was told before.
LEMMA MonsAreRated == IInv /\ CheckMonDistribution => MonsRated'
<1> SUFFICES ASSUME IInv, CheckMonDistribution PROVE MonsRated'
  OBVIOUS
<1> DEFINE verdict(p) == IF status.err THEN StatusError ELSE Worse(p, EvaluateMonQuorum)
<1>1. /\ "mons" \notin failed /\ cluster \in seen
      /\ status' = status /\ seen' = seen /\ results \in [Checks -> NoResult..StatusError]
  BY NotYetFailed, Ranks
  DEF CheckMonDistribution, Goto, IInv, TypeOK, SeenIsCurrent, Past, Labels
<1>2. Check(MonDistribution, "mons", verdict(PodsOnNodes("mon")), verdict(StatusError))
  BY DEF CheckMonDistribution
<1>3. verdict(StatusError) = StatusError
  BY EvaluateMonQuorumType
<1>4. ASSUME ~status.err
      PROVE  LET v == verdict(PodsOnNodes("mon"))
             IN  /\ v # StatusError
                 /\ v = StatusOK <=> DaemonsFine("mon", cluster) /\ QuorumFine(status)
                 /\ v = StatusCritical <=> QuorumLost(status)
  <2>1. /\ PodsOnNodes("mon") \in {StatusOK, StatusWarning}
        /\ PodsOnNodes("mon") = StatusOK <=> DaemonsFine("mon", cluster)
    BY PodsOnNodesIsFine DEF IInv
  <2> QED BY <1>4, <2>1, QuorumIsRated
      DEF Worse, StatusOK, StatusWarning, StatusCritical, StatusError
<1>5. status.err => verdict(PodsOnNodes("mon")) = StatusError
  OBVIOUS
<1> HIDE DEF verdict
<1>6. CASE failed' = failed /\ results'[MonDistribution] = verdict(PodsOnNodes("mon"))
  <2>1. CASE status.err
    BY <1>1, <1>5, <1>6, <2>1 DEF MonsRated, IsError
  <2>2. CASE ~status.err
    BY <1>1, <1>4, <1>6, <2>2 DEF MonsRated, Rated, QuorumFine, QuorumLost
  <2> QED BY <2>1, <2>2
<1>7. CASE "mons" \in failed' /\ results'[MonDistribution] = StatusError
  BY <1>7 DEF MonsRated, IsError
<1> QED BY <1>1, <1>2, <1>3, <1>6, <1>7, CheckNames DEF Check, Answered, Fails, Conclude

\* The health code of the first answer.
LEMMA HealthIsRated ==
  IInv /\ CheckCephClusterHealth => StatusRated(CephClusterHealth, NoHealth)'
<1> SUFFICES ASSUME IInv, CheckCephClusterHealth
             PROVE  StatusRated(CephClusterHealth, NoHealth)'
  OBVIOUS
<1>1. status' = status /\ results \in [Checks -> NoResult..StatusError]
  BY DEF CheckCephClusterHealth, IInv, TypeOK
<1>2. CASE NoHealth
  <2>1. status.health \notin HealthCodes
    <3>1. CASE status.err
      <4>1. status = NoStatus
        BY <3>1, StatusType DEF IInv
      <4> QED BY <4>1 DEF NoStatus, HealthCodes, Severities
    <3> QED BY <1>2, <3>1 DEF NoHealth
  <2>2. results'[CephClusterHealth] = StatusError
    BY <1>1, <2>1, CheckNames
    DEF CheckCephClusterHealth, Conclude, HealthCodes, Severities
  <2> QED BY <1>1, <1>2, <2>2 DEF StatusRated, IsError, NoHealth
<1>3. CASE ~NoHealth
  <2>1. ~status.err /\ status.health \in {"HEALTH_OK", "HEALTH_WARN", "HEALTH_ERR"}
    BY <1>3 DEF NoHealth, HealthCodes, Severities
  <2>2. /\ status.health = "HEALTH_OK" => results'[CephClusterHealth] = StatusOK
        /\ status.health = "HEALTH_WARN" => results'[CephClusterHealth] = StatusWarning
        /\ status.health = "HEALTH_ERR" => results'[CephClusterHealth] = StatusCritical
    BY <1>1, <2>1, CheckNames DEF CheckCephClusterHealth, Conclude
  <2>3. Rated(CephClusterHealth, status.health = "HEALTH_OK", status.health = "HEALTH_ERR")'
    BY <1>1, <2>1, <2>2 DEF Rated, StatusOK, StatusWarning, StatusCritical, StatusError
  <2> QED BY <1>1, <1>3, <2>3, FineCases, SevereCases DEF StatusRated, Rated, NoHealth
<1> QED BY <1>2, <1>3

\* When the loop is through, it has looked at every PG state.
LEMMA PGsAreRated ==
  IInv /\ (PGsDone \/ (CheckPGStatus /\ pc' = "mgr")) => StatusRated(PGStatus, status.err)'
<1> SUFFICES ASSUME IInv, PGsDone \/ (CheckPGStatus /\ pc' = "mgr")
             PROVE  StatusRated(PGStatus, status.err)'
  OBVIOUS
<1>1. status' = status /\ results \in [Checks -> NoResult..StatusError]
  BY DEF PGsDone, CheckPGStatus, IInv, TypeOK
<1>2. CASE PGsDone
  <2>1. status.pgs \in Seq(PGStates)
    BY StatusType DEF IInv
  <2>2. Len(status.pgs) \in Nat /\ DOMAIN status.pgs = 1..Len(status.pgs)
    BY <2>1, LenProperties
  <2>3. pc = "pg" /\ rest = <<>> /\ results'[PGStatus] = worst
    BY <1>1, <1>2, CheckNames DEF PGsDone, Goto, Conclude
  <2>4. Looked = DOMAIN status.pgs
    BY <2>2, <2>3, EmptySeq DEF Looked
  <2>5. worst # StatusError
    BY DEF IInv, TypeOK, StatusOK, StatusCritical, StatusError
  <2>6. /\ ~status.err
        /\ worst = StatusOK <=> PGsFine(status)
        /\ worst = StatusCritical <=> \E i \in DOMAIN status.pgs : status.pgs[i] = "down"
    BY <2>3, <2>4 DEF IInv, PGsSoFar, PGsFine
  <2> QED BY <1>1, <2>3, <2>5, <2>6, FineCases, SevereCases DEF StatusRated, Rated
<1>3. CASE CheckPGStatus /\ pc' = "mgr"
  <2>1. status.err /\ results'[PGStatus] = StatusError
    BY <1>1, <1>3, CheckNames DEF CheckPGStatus, Conclude
  <2> QED BY <1>1, <2>1 DEF StatusRated, IsError
<1> QED BY <1>2, <1>3

\* `ceph df' was answered, but the codes rated are those of the first answer.
LEMMA CapacityIsRated ==
  IInv /\ CheckClusterCapacity => StatusRated(ClusterCapacity, "capacity" \in failed)'
<1> SUFFICES ASSUME IInv, CheckClusterCapacity
             PROVE  StatusRated(ClusterCapacity, "capacity" \in failed)'
  OBVIOUS
<1> DEFINE verdict == IF status.err THEN StatusOK ELSE CapacityStatusFromHealth
           worstCheck == [capacity |-> TRUE, severity |-> "HEALTH_ERR"]
<1>1. /\ status' = status /\ results \in [Checks -> NoResult..StatusError]
      /\ "capacity" \notin failed
  BY NotYetFailed, Ranks DEF CheckClusterCapacity, Goto, IInv, TypeOK, Past, Labels
<1>2. status.checks \in SUBSET [capacity : BOOLEAN, severity : Severities]
      /\ (status.err => status.checks = {})
  <2>1. CASE status.err
    <3>1. status = NoStatus
      BY <2>1, StatusType DEF IInv
    <3>2. status.checks = {}
      BY <3>1 DEF NoStatus
    <3> QED BY <3>2
  <2>2. CASE ~status.err
    <3>1. PICK c \in Clusters : status = StatusOf(c)
      BY <2>2, StatusType DEF IInv
    <3>2. c \in Cluster /\ status.checks = c.checks
      BY <3>1, ClustersAssumption DEF StatusOf
    <3> QED BY <2>2, <3>2 DEF Cluster
  <2> QED BY <2>1, <2>2
<1>3. /\ verdict # StatusError
      /\ verdict = StatusOK <=> CapacityFine(status)
      /\ verdict = StatusCritical <=> worstCheck \in status.checks
  <2>1. (\E k \in status.checks : k.capacity /\ k.severity = "HEALTH_ERR")
          <=> worstCheck \in status.checks
    <3>1. ASSUME NEW k \in status.checks, k.capacity, k.severity = "HEALTH_ERR"
          PROVE  k = worstCheck
      <4>1. k \in [capacity : BOOLEAN, severity : Severities]
        BY <1>2
      <4>2. k.capacity = TRUE
        BY <3>1, <4>1, Zenon
      <4> QED BY <3>1, <4>1, <4>2
    <3> QED BY <3>1
  <2>2. /\ CapacityStatusFromHealth # StatusError
        /\ CapacityStatusFromHealth = StatusOK <=> CapacityFine(status)
        /\ CapacityStatusFromHealth = StatusCritical <=>
             \E k \in status.checks : k.capacity /\ k.severity = "HEALTH_ERR"
    BY DEF CapacityStatusFromHealth, CapacityFine, StatusOK, StatusWarning, StatusCritical,
       StatusError
  <2>3. CASE status.err
    BY <1>2, <2>3 DEF CapacityFine, StatusOK, StatusCritical, StatusError
  <2> HIDE DEF worstCheck
  <2> QED BY <2>1, <2>2, <2>3
<1>4. \/ failed' = failed /\ results'[ClusterCapacity] = verdict
      \/ "capacity" \in failed' /\ results'[ClusterCapacity] = StatusError
  BY <1>1, CheckNames DEF CheckClusterCapacity, Answered, CephFails, Conclude
<1> HIDE DEF verdict
<1> QED BY <1>1, <1>3, <1>4, FineCases, SevereCases DEF StatusRated, IsError, Rated

\* The first namespace may have been listed when the cluster was different.
LEMMA PodsAreRated ==
  IInv /\ (CheckClusterPods \/ (CheckAllPodsStatus /\ pc' = "pgs")) => PodsRated'
<1> SUFFICES ASSUME IInv, CheckClusterPods \/ (CheckAllPodsStatus /\ pc' = "pgs")
             PROVE  PodsRated'
  OBVIOUS
<1>1. /\ seen' = seen /\ cluster' = cluster /\ cluster \in seen /\ "clusterPods" \notin failed
      /\ results \in [Checks -> NoResult..StatusError]
  BY NotYetFailed, Ranks
  DEF CheckClusterPods, CheckAllPodsStatus, Goto, IInv, TypeOK, SeenIsCurrent, Past, Labels
<1>2. PodsVerdict({}) = StatusOK /\ \A S : S # {} => PodsVerdict(S) = StatusWarning
  BY DEF PodsVerdict
<1>3. \A c, ns : PodsFine(ns, c) <=>
        {p \in c.pods : p.ns = ns /\ p.phase \notin {"Running", "Succeeded"}} = {}
  BY DEF PodsFine
<1>4. StatusOK # StatusError /\ StatusOK # StatusCritical
      /\ StatusWarning # StatusError /\ StatusWarning # StatusCritical
      /\ StatusWarning # StatusOK
  BY DEF StatusOK, StatusWarning, StatusCritical, StatusError
<1>5. ASSUME NEW c \in seen, NEW d \in seen, NEW first, NEW second,
             first = {} <=> PodsFine(cluster.operatorNs, c),
             second = {} <=> PodsFine(ClusterNs, d),
             results'[PodsStatus] = PodsVerdict(first \cup second),
             "pods" \notin failed' /\ "clusterPods" \notin failed'
      PROVE  PodsRated'
  <2>1. Rated(PodsStatus, PodsFine(cluster.operatorNs, c) /\ PodsFine(ClusterNs, d), FALSE)'
    <3>1. first \cup second = {} <=> PodsFine(cluster.operatorNs, c) /\ PodsFine(ClusterNs, d)
      BY <1>5
    <3> QED BY <1>1, <1>2, <1>4, <1>5, <3>1 DEF Rated, PodsFine
  <2> QED BY <1>1, <1>5, <2>1 DEF PodsRated
<1>6. CASE CheckClusterPods
  <2>1. pc = "clusterPods"
    BY <1>6 DEF CheckClusterPods, Goto
  <2>2. "pods" \notin failed
    BY <2>1 DEF IInv, FirstNamespaceSeen
  <2>3. PICK c \in seen :
          unfit = {p \in c.pods : p.ns = cluster.operatorNs
                                    /\ p.phase \notin {"Running", "Succeeded"}}
    BY <2>1 DEF IInv, FirstNamespaceSeen
  <2>4. CASE Answered /\ results'[PodsStatus] = PodsVerdict(unfit \cup NotRunning(ClusterNs))
    <3>1. unfit = {} <=> PodsFine(cluster.operatorNs, c)
      BY <1>3, <2>3
    <3>2. NotRunning(ClusterNs) = {} <=> PodsFine(ClusterNs, cluster)
      BY <1>3 DEF NotRunning
    <3> QED BY <1>1, <1>5, <2>2, <2>4, <3>1, <3>2 DEF Answered
  <2>5. CASE "clusterPods" \in failed' /\ results'[PodsStatus] = StatusError
    BY <2>5 DEF PodsRated, IsError
  <2> QED BY <1>1, <1>6, <2>4, <2>5, CheckNames DEF CheckClusterPods, Check, Fails, Conclude
<1>7. CASE CheckAllPodsStatus /\ pc' = "pgs"
  <2>1. "pods" \notin failed
    BY <1>7, NotYetFailed, Ranks DEF CheckAllPodsStatus, Past, Labels, IInv
  <2>2. CASE /\ Answered /\ cluster.operatorNs = ClusterNs
             /\ results'[PodsStatus] = PodsVerdict(NotRunning(ClusterNs))
    <3>1. NotRunning(ClusterNs) = {} <=> PodsFine(ClusterNs, cluster)
      BY <1>3 DEF NotRunning
    <3>2. NotRunning(ClusterNs) \cup NotRunning(ClusterNs) = NotRunning(ClusterNs)
      OBVIOUS
    <3> QED BY <1>1, <1>5, <2>1, <2>2, <3>1, <3>2 DEF Answered
  <2>3. CASE "pods" \in failed' /\ results'[PodsStatus] = StatusError
    BY <2>3 DEF PodsRated, IsError
  <2> QED BY <1>1, <1>7, <2>2, <2>3, CheckNames
      DEF CheckAllPodsStatus, Answered, Fails, Conclude
<1> QED BY <1>6, <1>7

\* The MTU is rated on OpenShift only.
LEMMA MTUIsRated ==
  IInv /\ (CheckNetworkMTUConfig \/ (CheckClusterCapacity /\ ~openshift)) => MTURated'
<1>0. CheckClusterCapacity /\ ~openshift => MTURated'
  BY DEF CheckClusterCapacity, MTURated
<1> SUFFICES ASSUME IInv, CheckNetworkMTUConfig PROVE MTURated'
  BY <1>0
<1>1. seen' = seen /\ cluster \in seen /\ results \in [Checks -> NoResult..StatusError]
  BY DEF CheckNetworkMTUConfig, Goto, IInv, TypeOK, SeenIsCurrent
<1>2. \/ "mtu" \in failed'
      \/ results'[NetworkMTU] = IF cluster.mtu >= 8900 THEN StatusOK ELSE StatusWarning
  BY <1>1, CheckNames DEF CheckNetworkMTUConfig, Check, Fails, Conclude, mtuWarningThreshold
<1>3. Fine(NetworkMTU, cluster) <=> cluster.mtu >= 8900
  BY FineCases
<1> QED BY <1>1, <1>2, <1>3
    DEF MTURated, Rated, StatusOK, StatusWarning, StatusCritical, StatusError

\* Each verdict is an old one that stays, or a new one that is right.
LEMMA ReportVerdicts ==
  ASSUME IInv, [Next]_vars, pc # "idle", pc' # "idle"
  PROVE  VerdictsHold'
<1> TypeOK
  BY DEF IInv
<1>1. /\ Past("mons")' => MonsRated'
      /\ Past("health")' => StatusRated(CephClusterHealth, NoHealth)'
      /\ Past("osds")' => CallRated(OSDDistribution, "osds")'
  BY VerdictsStay, Conclusions, MonsAreRated, HealthIsRated, OSDsAreRated
<1>2. /\ Past("clusterPods")' => PodsRated'
      /\ Past("pg")' => StatusRated(PGStatus, status.err)'
      /\ Past("mgr")' => CallRated(MGRStatus, "mgr")'
  BY VerdictsStay, Conclusions, PodsAreRated, PGsAreRated, MGRIsRated
<1>3. /\ Past("nodes")' => CallRated(NodePressure, "nodes")'
      /\ Past("capacity")' => StatusRated(ClusterCapacity, "capacity" \in failed)'
      /\ Past("mtu")' => MTURated'
  BY VerdictsStay, Conclusions, NodesAreRated, CapacityIsRated, MTUIsRated
<1> QED BY <1>1, <1>2, <1>3 DEF VerdictsHold

LEMMA StepIInv == IInv /\ [Next]_vars => IInv'
<1> SUFFICES ASSUME IInv, [Next]_vars PROVE IInv'
  OBVIOUS
<1>1. TypeOK'
  BY StepTypeOK DEF IInv
<1>2. (Known /\ VerdictsHold)'
  <2>1. CASE pc = "idle"
    BY <2>1, IdleKnows
  <2>2. CASE pc # "idle" /\ pc' = "idle"
    BY <2>2, ForgetfulEnd, EndOfReport
  <2>3. CASE pc # "idle" /\ pc' # "idle"
    BY <2>3, ReportKnows, ReportVerdicts
  <2> QED BY <2>1, <2>2, <2>3
<1> QED BY <1>1, <1>2 DEF IInv, Known

LEMMA HealthInvariance == Spec => []IInv
<1>1. Init => IInv
  BY InitIInv
<1>2. IInv /\ [Next]_vars => IInv'
  BY StepIInv
<1> QED BY <1>1, <1>2, PTL DEF Spec

-----------------------------------------------------------------------------
(* The theorems. *)

\* Every part of the report stays what it can be: a check that was made has one of the
\* four severities, and only calls that are made can fail.
THEOREM HealthTypeCorrect == Spec => []TypeOK
BY HealthInvariance, PTL DEF IInv

\* At the end of the report every check was made.
LEMMA AllChecksMade ==
  ASSUME IInv, pc = "done"
  PROVE  /\ MonsRated /\ StatusRated(CephClusterHealth, NoHealth)
         /\ CallRated(OSDDistribution, "osds") /\ PodsRated
         /\ StatusRated(PGStatus, status.err) /\ CallRated(MGRStatus, "mgr")
         /\ CallRated(NodePressure, "nodes")
         /\ StatusRated(ClusterCapacity, "capacity" \in failed) /\ MTURated
         /\ (status.err <=> "status" \in failed)
         /\ "openshift" \notin failed => openshift = cluster.openshift
BY Ranks DEF IInv, VerdictsHold, AnsweredBySeen, PlatformIsKnown, Past

\* checkPGStatus, checkClusterCapacity and the others of pkg/health: no failed call is
\* lost on the report, however many fail and whatever the cluster becomes meanwhile, and
\* the only other error is that of checkCephClusterHealth on a health that Ceph gave and
\* that is none of its codes.
THEOREM ErrorsHaveReasonsHolds == Spec => []ErrorsHaveReasons
<1>1. ASSUME IInv, pc = "done", NEW check \in Checks
      PROVE  results[check] = StatusError <=>
               CallsOf(check) \cap failed # {} \/ Unexpected(check, status)
  <2>1. CallsOf(check) \cap failed # {} <=>
          \/ check = MonDistribution /\ (status.err \/ "mons" \in failed)
          \/ check \in {CephClusterHealth, PGStatus} /\ status.err
          \/ check = OSDDistribution /\ "osds" \in failed
          \/ check = PodsStatus /\ ("pods" \in failed \/ "clusterPods" \in failed)
          \/ check = MGRStatus /\ "mgr" \in failed
          \/ check = NodePressure /\ "nodes" \in failed
          \/ check = ClusterCapacity /\ "capacity" \in failed
    BY <1>1, AllChecksMade
    DEF CallsOf, Checks, StandardChecks, MonDistribution, CephClusterHealth,
       OSDDistribution, PodsStatus, PGStatus, MGRStatus, NodePressure, ClusterCapacity, NetworkMTU
  <2>2. results[NetworkMTU] # StatusError
    BY <1>1 DEF IInv, MTUIsNoError
  <2>3. /\ results[MonDistribution] = StatusError <=> status.err \/ "mons" \in failed
        /\ results[CephClusterHealth] = StatusError <=> NoHealth
        /\ results[PGStatus] = StatusError <=> status.err
        /\ results[OSDDistribution] = StatusError <=> "osds" \in failed
        /\ results[PodsStatus] = StatusError <=> "pods" \in failed \/ "clusterPods" \in failed
        /\ results[MGRStatus] = StatusError <=> "mgr" \in failed
        /\ results[NodePressure] = StatusError <=> "nodes" \in failed
        /\ results[ClusterCapacity] = StatusError <=> "capacity" \in failed
    BY <1>1, AllChecksMade DEF MonsRated, StatusRated, CallRated, PodsRated, IsError, Rated
  <2> QED BY <1>1, <2>1, <2>2, <2>3, DistinctNames
      DEF Checks, StandardChecks, Unexpected, NoHealth
<1>2. ASSUME IInv, pc = "done", Unexpected(CephClusterHealth, status), "status" \notin failed
      PROVE  \E c \in seen : Unexpected(CephClusterHealth, c)
  <2>1. PICK c \in seen : status = StatusOf(c)
    BY <1>2, AllChecksMade DEF IInv, AnsweredBySeen
  <2>2. status.health = c.health
    BY <2>1 DEF StatusOf
  <2> QED BY <1>2, <2>2 DEF Unexpected
<1>3. IInv => ErrorsHaveReasons
  BY <1>1, <1>2 DEF ErrorsHaveReasons
<1> QED BY <1>3, HealthInvariance, PTL

\* The verdict a cluster deserves.
Deserved(check) ==
  /\ results[check] = StatusError <=> Unexpected(check, cluster)
  /\ results[check] = StatusOK <=> Fine(check, cluster)
  /\ results[check] = StatusCritical <=> Severe(check, cluster)

\* The report of `health' (pkg/health): a cluster that does not change while it is asked,
\* and answers, gets the verdicts it deserves, whatever its pods, its PG states and the
\* codes of Ceph are, in whatever order they come, and whatever Ceph prints of its mons.
THEOREM SteadyIsReportedHolds == Spec => []SteadyIsReported
<1>1. IInv => SteadyIsReported
  <2> SUFFICES ASSUME IInv, pc = "done", seen = {cluster}, failed = {},
                      NEW check \in ChecksOf(cluster)
               PROVE  Deserved(check)
    BY DEF SteadyIsReported, Deserved
  <2>1. /\ ~status.err /\ status = StatusOf(cluster) /\ openshift = cluster.openshift
    BY AllChecksMade DEF IInv, AnsweredBySeen
  <2>2. /\ status.numMons = cluster.numMons /\ status.mons = cluster.mons
        /\ status.quorum = cluster.quorum /\ status.pgs = cluster.pgs
        /\ status.health = cluster.health /\ status.checks = cluster.checks
    BY <2>1 DEF StatusOf
  <2>3. Rated(MonDistribution, DaemonsFine("mon", cluster) /\ QuorumFine(cluster),
              QuorumLost(cluster))
    BY <2>1, <2>2, AllChecksMade DEF MonsRated, IsError, QuorumFine, QuorumLost
  <2>4. StatusRated(PGStatus, FALSE) /\ StatusRated(ClusterCapacity, FALSE)
    BY <2>1, AllChecksMade DEF StatusRated, IsError
  <2>5. Deserved(CephClusterHealth)
    <3>1. StatusRated(CephClusterHealth, cluster.health \notin HealthCodes)
      BY <2>1, <2>2, AllChecksMade DEF NoHealth
    <3>2. /\ Fine(CephClusterHealth, status) <=> Fine(CephClusterHealth, cluster)
          /\ Severe(CephClusterHealth, status) <=> Severe(CephClusterHealth, cluster)
      BY <2>2, FineCases, SevereCases
    <3>3. cluster.health \notin HealthCodes =>
            ~Fine(CephClusterHealth, cluster) /\ ~Severe(CephClusterHealth, cluster)
      BY FineCases, SevereCases DEF HealthCodes, Severities
    <3>4. StatusError # StatusOK /\ StatusError # StatusCritical
      BY DEF StatusOK, StatusCritical, StatusError
    <3> QED BY <3>1, <3>2, <3>3, <3>4 DEF StatusRated, IsError, Rated, Deserved, Unexpected
  <2>6. \A k \in {PGStatus, ClusterCapacity} : Rated(k, Fine(k, cluster), Severe(k, cluster))
    BY <2>2, <2>4, FineCases, SevereCases
    DEF StatusRated, IsError, Rated, PGsFine, CapacityFine
  <2>7. \A k \in {OSDDistribution, MGRStatus, NodePressure} :
          Rated(k, Fine(k, cluster), Severe(k, cluster))
    BY AllChecksMade DEF CallRated, IsError
  <2>8. Rated(PodsStatus, PodsFine(cluster.operatorNs, cluster) /\ PodsFine(ClusterNs, cluster),
              FALSE)
    BY AllChecksMade DEF PodsRated, IsError
  <2>9. openshift => Rated(NetworkMTU, Fine(NetworkMTU, cluster), FALSE)
    BY AllChecksMade DEF MTURated
  <2>10. \/ check = CephClusterHealth \/ check \in {PGStatus, ClusterCapacity}
         \/ check \in {OSDDistribution, MGRStatus, NodePressure}
         \/ check = MonDistribution \/ check = PodsStatus
         \/ check = NetworkMTU /\ openshift
    BY <2>1 DEF ChecksOf, StandardChecks
  <2>11. check # CephClusterHealth =>
           Rated(check, Fine(check, cluster), Severe(check, cluster))
    BY <2>3, <2>6, <2>7, <2>8, <2>9, <2>10, FineCases, SevereCases DEF Rated
  <2>12. ASSUME check # CephClusterHealth PROVE Deserved(check)
    BY <2>11, <2>12 DEF Rated, Deserved, Unexpected
  <2> QED BY <2>5, <2>12
<1> QED BY <1>1, HealthInvariance, PTL

\* What Ceph was asked for is in order.
AllClear(c) ==
  /\ c.numMons # 0 /\ c.monmap \subseteq c.mons => c.monmap = c.quorum
  /\ PGsFine(c) /\ CapacityFine(c) /\ c.health = "HEALTH_OK"

\* The report of `health' (pkg/health), which is put together from calls made one after the
\* other: if no check finds a fault, then what Ceph was asked for was all in order at one
\* time, and each list of pods and nodes at some time, however the cluster changed between.
\* Of the quorum this holds if Ceph printed the number of the mons and every one of them.
THEOREM AllClearWasClearHolds == Spec => []AllClearWasClear
<1>1. IInv => AllClearWasClear
  <2> SUFFICES ASSUME IInv, pc = "done", \A k \in StandardChecks : results[k] = StatusOK
               PROVE  /\ \E c \in seen : AllClear(c)
                      /\ \E c \in seen : DaemonsFine("mon", c)
                      /\ \A ns \in {cluster.operatorNs, ClusterNs} :
                           \E c \in seen : PodsFine(ns, c)
                      /\ \A k \in {OSDDistribution, MGRStatus, NodePressure} :
                           \E c \in seen : Fine(k, c)
    BY DEF AllClearWasClear, AllClear
  <2>1. /\ StandardChecks = {MonDistribution, CephClusterHealth, OSDDistribution, PodsStatus,
                             PGStatus, MGRStatus, NodePressure, ClusterCapacity}
        /\ StatusOK # StatusError
    BY DEF StandardChecks, StatusOK, StatusError
  <2>2. /\ ~status.err /\ Fine(CephClusterHealth, status) /\ Fine(PGStatus, status)
        /\ Fine(ClusterCapacity, status)
    BY <2>1, AllChecksMade DEF StatusRated, IsError, Rated
  <2>3. QuorumFine(status) /\ \E c \in seen : DaemonsFine("mon", c)
    BY <2>1, AllChecksMade DEF MonsRated, IsError, Rated
  <2>4. \E c \in seen : AllClear(c)
    <3>1. PICK c \in seen : status = StatusOf(c)
      BY <2>2 DEF IInv, AnsweredBySeen
    <3>2. /\ status.numMons = c.numMons /\ status.mons = c.mons /\ status.quorum = c.quorum
          /\ status.pgs = c.pgs /\ status.health = c.health /\ status.checks = c.checks
      BY <3>1 DEF StatusOf
    <3>3. c.quorum \subseteq c.monmap
      BY ClustersAssumption DEF IInv, TypeOK
    <3>4. c.numMons # 0 /\ c.monmap \subseteq c.mons => c.monmap = c.quorum
      BY <2>3, <3>2, <3>3 DEF QuorumFine
    <3> QED BY <2>2, <3>2, <3>4, FineCases DEF AllClear, PGsFine, CapacityFine
  <2>5. \E c, d \in seen : PodsFine(cluster.operatorNs, c) /\ PodsFine(ClusterNs, d)
    BY <2>1, AllChecksMade DEF PodsRated, IsError, Rated
  <2>6. \A k \in {OSDDistribution, MGRStatus, NodePressure} : \E c \in seen : Fine(k, c)
    BY <2>1, AllChecksMade DEF CallRated, IsError, Rated
  <2> QED BY <2>3, <2>4, <2>5, <2>6
<1> QED BY <1>1, HealthInvariance, PTL
=============================================================================
