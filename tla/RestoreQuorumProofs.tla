------------------------ MODULE RestoreQuorumProofs ------------------------
(***************************************************************************)
(* Proofs about RestoreQuorum, for any mons, any pods, any length of the   *)
(* wait loops and any number of restores.                                  *)
(***************************************************************************)
EXTENDS RestoreQuorum, TLAPS

MonTypes ==
  /\ cm \subseteq Mons /\ read.mons \subseteq Mons /\ todo \subseteq Mons
  /\ resources \in [Mons -> SUBSET {"deployment", "service", "pvc"}]
  /\ scale \in [Mons -> 0..1] /\ store \subseteq Mons
  /\ file \in [pod : Pods \cup {NoPodName}, mons : SUBSET Mons]

\* A mon that runs has a deployment, and a deployment has its volume.
DeployedMonsHaveVolumes ==
  \A m \in Mons :
    /\ "deployment" \in resources[m] => "pvc" \in resources[m]
    /\ scale[m] = 1 => "deployment" \in resources[m]

\* A mon is in a monmap only after it has joined, and then never joins again.
MonmapsHoldJoinedMons == Spare \in store \cup file.mons => spare = "joined"

\* The mons of S are out of the good mon's monmap for good.
OutOf(monmap, S) == monmap \cap S = {} /\ (Spare \in S => spare = "joined")

Purging == {"purge", "deleteService", "deletePVC"}
AfterInject == {"updateCM", "callStop", "inStop", "probe"} \cup Purging

\* What the surgery has achieved by each call.
Surgery ==
  /\ rq \in {"remove", "inject"} => file.mons \subseteq store
  /\ rq = "remove" => OutOf(file.mons, BadMons \ todo)
  /\ rq = "inject" => OutOf(file.mons, BadMons)
  /\ rq \in AfterInject => OutOf(store, BadMons)
  /\ rq \in {"remove"} \cup Purging => todo \subseteq BadMons

IInv ==
  /\ MonTypes /\ DeployedMonsHaveVolumes /\ MonmapsHoldJoinedMons /\ Surgery
  /\ PurgedMonsAreForgotten

-----------------------------------------------------------------------------

\* The inductive invariant holds before any restore.
LEMMA InitIInv == Init => IInv
BY MonsAssumption
DEF Init, IInv, MonTypes, DeployedMonsHaveVolumes, MonmapsHoldJoinedMons, Surgery, OutOf,
    AfterInject, Purging, PurgedMonsAreForgotten, Mons, NothingRead, NoFile

\* What the invariant is about.
state == <<cm, read, todo, resources, scale, store, file, spare, rq>>

\* A step that changes nothing the invariant is about preserves it.
LEMMA QuietStep == ASSUME IInv, UNCHANGED state PROVE IInv'
BY DEF state, IInv, MonTypes, DeployedMonsHaveVolumes, MonmapsHoldJoinedMons, Surgery, OutOf,
       BadMons, PurgedMonsAreForgotten

\* So does a step that only moves the process on to a call that asks for no more
\* than the one it leaves.
LEMMA QuietMove ==
  ASSUME IInv, UNCHANGED <<cm, resources, scale, store, file, spare>>,
         read'.mons \subseteq Mons, todo' \subseteq Mons,
         rq' \in AfterInject => rq \in AfterInject /\ read' = read,
         rq' \in Purging => todo' \subseteq BadMons,
         rq' \notin {"remove", "inject"}
  PROVE  IInv'
BY DEF IInv, MonTypes, DeployedMonsHaveVolumes, MonmapsHoldJoinedMons, Surgery, OutOf,
       BadMons, PurgedMonsAreForgotten, AfterInject, Purging

\* And a step in which the process ends.
LEMMA EndOfProcess ==
  ASSUME IInv, NEW label \in Idle, End(label),
         UNCHANGED <<cm, resources, scale, store, spare>>
  PROVE  IInv'
BY DEF End, Idle, NoFile, NothingRead, IInv, MonTypes, DeployedMonsHaveVolumes,
       MonmapsHoldJoinedMons, Surgery, OutOf, BadMons, PurgedMonsAreForgotten, AfterInject,
       Purging

\* The surgery: the monmap that is injected has none of the mons that are purged.
LEMMA SurgerySteps ==
  ASSUME IInv, Extract \/ Inject \/ \E m \in Mons : Remove(m)
  PROVE  IInv'
<1> USE DEF monVars, operatorVars, Goto
<1>1. CASE Extract
  <2>1. /\ rq' = IF BadMons = {} THEN "inject" ELSE "remove"
        /\ file'.mons = store /\ todo' = BadMons
        /\ file' \in [pod : Pods \cup {NoPodName}, mons : SUBSET Mons]
        /\ UNCHANGED <<cm, read, resources, scale, store, spare>>
    BY <1>1 DEF Extract, IInv, MonTypes
  <2>2. MonTypes' /\ DeployedMonsHaveVolumes' /\ PurgedMonsAreForgotten' /\ MonmapsHoldJoinedMons'
    BY <2>1 DEF IInv, MonTypes, DeployedMonsHaveVolumes, PurgedMonsAreForgotten,
                MonmapsHoldJoinedMons, BadMons
  <2>3. Surgery'
    BY <2>1 DEF Surgery, OutOf, BadMons, AfterInject, Purging
  <2> QED BY <2>2, <2>3 DEF IInv
<1>2. CASE Inject
  <2>1. /\ rq = "inject" /\ rq' = "updateCM" /\ store' = file.mons
        /\ UNCHANGED <<cm, read, todo, file, resources, scale, spare>>
    BY <1>2 DEF Inject
  <2>2. MonTypes' /\ DeployedMonsHaveVolumes' /\ PurgedMonsAreForgotten' /\ MonmapsHoldJoinedMons'
    BY <2>1 DEF IInv, MonTypes, DeployedMonsHaveVolumes, PurgedMonsAreForgotten,
                MonmapsHoldJoinedMons, Surgery
  <2>3. Surgery'
    BY <2>1 DEF IInv, Surgery, OutOf, BadMons, AfterInject, Purging
  <2> QED BY <2>2, <2>3 DEF IInv
<1>3. ASSUME NEW m \in Mons, Remove(m) PROVE IInv'
  <2>1. /\ rq = "remove" /\ rq' = IF todo = {m} THEN "inject" ELSE "remove"
        /\ file'.mons = file.mons \ {m} /\ m \in todo /\ m \in file.mons
        /\ todo' = todo \ {m}
        /\ file' \in [pod : Pods \cup {NoPodName}, mons : SUBSET Mons]
        /\ UNCHANGED <<cm, read, resources, scale, store, spare>>
    BY <1>3 DEF Remove, IInv, MonTypes
  <2>2. MonTypes' /\ DeployedMonsHaveVolumes' /\ PurgedMonsAreForgotten' /\ MonmapsHoldJoinedMons'
    BY <2>1 DEF IInv, MonTypes, DeployedMonsHaveVolumes, PurgedMonsAreForgotten,
                MonmapsHoldJoinedMons
  <2>3. Surgery'
    BY <2>1 DEF IInv, Surgery, OutOf, BadMons, AfterInject, Purging, MonmapsHoldJoinedMons
  <2> QED BY <2>2, <2>3 DEF IInv
<1> QED BY <1>1, <1>2, <1>3

\* The purge: what it deletes is out of the monmap.
LEMMA PurgeSteps ==
  ASSUME IInv, NEW m \in Mons, Purge(m) \/ DeleteService(m) \/ DeletePVC(m)
  PROVE  IInv'
<1> USE DEF monVars, operatorVars, Goto
<1>1. /\ rq \in Purging /\ rq' \in Purging \cup {"restored"} /\ m \in todo /\ todo' \subseteq todo
      /\ UNCHANGED <<cm, read, store, file, spare>>
  BY DEF Purge, DeleteService, DeletePVC, Purging
<1>2. m \notin store
  BY <1>1 DEF IInv, Surgery, OutOf, AfterInject, Purging
<1>3. Surgery' /\ MonmapsHoldJoinedMons'
  BY <1>1 DEF IInv, Surgery, OutOf, BadMons, AfterInject, Purging, MonmapsHoldJoinedMons
<1>4. CASE Purge(m)
  <2>1. /\ resources' = [resources EXCEPT ![m] = @ \ {"deployment"}]
        /\ scale' = [scale EXCEPT ![m] = 0]
    BY <1>4 DEF Purge
  <2>2. MonTypes'
    BY <1>1, <2>1 DEF IInv, MonTypes
  <2>3. DeployedMonsHaveVolumes' /\ PurgedMonsAreForgotten'
    BY <1>1, <2>1 DEF IInv, MonTypes, DeployedMonsHaveVolumes, PurgedMonsAreForgotten
  <2> QED BY <1>3, <2>2, <2>3 DEF IInv
<1>5. CASE DeleteService(m) \/ DeletePVC(m)
  <2>1. PICK r \in {"service", "pvc"} : resources' = [resources EXCEPT ![m] = @ \ {r}]
    BY <1>5 DEF DeleteService, DeletePVC
  <2>2. "deployment" \notin resources[m] /\ UNCHANGED scale
    BY <1>5 DEF DeleteService, DeletePVC
  <2>3. MonTypes'
    BY <1>1, <2>1, <2>2 DEF IInv, MonTypes
  <2>4. DeployedMonsHaveVolumes' /\ PurgedMonsAreForgotten'
    BY <1>1, <1>2, <2>1, <2>2 DEF IInv, MonTypes, DeployedMonsHaveVolumes, PurgedMonsAreForgotten
  <2> QED BY <1>3, <2>3, <2>4 DEF IInv
<1> QED BY <1>4, <1>5

\* The other steps of the restore process.
LEMMA ProcessSteps ==
  ASSUME IInv,
         \/ Begin \/ Validate \/ GetCM \/ AnswerPrompt \/ ScaleOperator \/ Call \/ Return
         \/ GetMaintenance \/ UpdateCM \/ Probe \/ Die
         \/ \E m \in Mons : ScaleBad(m)
  PROVE  IInv'
<1> USE DEF monVars, operatorVars, Goto, AfterInject, Purging
<1>1. CASE Begin \/ Validate \/ AnswerPrompt \/ Return \/ GetMaintenance
  <2>1. /\ UNCHANGED <<cm, resources, scale, store, file, spare, read, todo>>
        /\ \/ rq' \in {"validate", "getCM", "scaleOperator", "startOperator", "getMaintenance",
                       "extract"}
           \/ rq = "inStop" /\ rq' = "probe"
    BY <1>1 DEF Begin, Validate, AnswerPrompt, Return, GetMaintenance
  <2> QED BY <2>1, QuietMove DEF IInv, MonTypes
<1>2. CASE GetCM
  <2>1. /\ UNCHANGED <<cm, resources, scale, store, file, spare, todo>>
        /\ rq' = "prompt" /\ read'.mons = cm
    BY <1>2 DEF GetCM
  <2> QED BY <2>1, QuietMove DEF IInv, MonTypes
<1>3. CASE ScaleOperator
  <2>1. CASE Goto("scaleOperator", IF BadMons = {} THEN "callStart" ELSE "scaleBad")
             /\ opScale' = 0 /\ todo' = BadMons /\ UNCHANGED <<read, file, probes>>
    BY <1>3, <2>1, QuietMove DEF ScaleOperator, IInv, MonTypes, BadMons
  <2>2. CASE End("done")
    BY <1>3, <2>2, EndOfProcess DEF ScaleOperator, Idle
  <2> QED BY <1>3, <2>1, <2>2 DEF ScaleOperator
<1>4. CASE Call
  <2>1. /\ UNCHANGED <<cm, resources, scale, store, file, spare, read, todo>>
        /\ rq' = "inStart" \/ (rq = "callStop" /\ rq' = "inStop")
    BY <1>4 DEF Call
  <2> QED BY <2>1, QuietMove DEF IInv, MonTypes
<1>5. CASE UpdateCM
  <2>1. /\ rq = "updateCM" /\ rq' = "callStop" /\ cm' \in {cm, {Good}}
        /\ UNCHANGED <<read, todo, file, resources, scale, store, spare>>
    BY <1>5 DEF UpdateCM
  <2> QED BY <2>1 DEF IInv, MonTypes, Mons, DeployedMonsHaveVolumes, MonmapsHoldJoinedMons,
                      Surgery, OutOf, BadMons, PurgedMonsAreForgotten
<1>6. CASE Probe
  <2>1. /\ rq = "probe" /\ UNCHANGED <<cm, resources, scale, store, spare>>
        /\ \/ rq' = AfterProbe /\ todo' = BadMons /\ UNCHANGED <<read, file>>
           \/ End("timedOut")
           \/ UNCHANGED <<rq, todo, read, file>>
    BY <1>6 DEF Probe
  <2>2. CASE rq' = AfterProbe /\ todo' = BadMons /\ UNCHANGED <<read, file>>
    BY <2>1, <2>2, QuietMove DEF AfterProbe, IInv, MonTypes, BadMons
  <2>3. CASE End("timedOut")
    BY <2>1, <2>3, EndOfProcess DEF Idle
  <2>4. CASE UNCHANGED <<rq, todo, read, file>>
    BY <2>1, <2>4, QuietStep DEF state
  <2> QED BY <2>1, <2>2, <2>3, <2>4
<1>7. CASE Die
  BY <1>7, EndOfProcess DEF Die, Idle
<1>8. ASSUME NEW m \in Mons, ScaleBad(m) PROVE IInv'
  <2>1. /\ rq' \in {"callStart", "scaleBad"} /\ todo' = todo \ {m}
        /\ scale' = [scale EXCEPT ![m] = 0]
        /\ UNCHANGED <<cm, read, file, resources, store, spare>>
    BY <1>8 DEF ScaleBad
  <2> QED BY <2>1 DEF IInv, MonTypes, DeployedMonsHaveVolumes, MonmapsHoldJoinedMons,
                      Surgery, OutOf, PurgedMonsAreForgotten
<1> QED BY <1>1, <1>2, <1>3, <1>4, <1>5, <1>6, <1>7, <1>8

\* The user, the operator, the mons and the pods.
LEMMA EnvironmentSteps == ASSUME IInv, Environment PROVE IInv'
<1> USE DEF monVars, operatorVars, localVars
<1>1. CASE UserStopsMaintenance \/ UserStartsOperator \/ OperatorPod
  <2>1. UNCHANGED state
    BY <1>1 DEF UserStopsMaintenance, UserStartsOperator, OperatorPod, state
  <2> QED BY <2>1, QuietStep
<1>2. CASE OperatorFailover
  <2>1. /\ spare = "unborn" /\ spare' = "created" /\ cm' = cm \cup {Spare}
        /\ resources' = [resources EXCEPT ![Spare] = {"deployment", "service", "pvc"}]
        /\ scale' = [scale EXCEPT ![Spare] = 1]
        /\ UNCHANGED <<read, todo, store, file, rq>>
    BY <1>2 DEF OperatorFailover
  <2>2. Spare \in Mons
    BY DEF Mons
  <2>3. MonTypes'
    BY <2>1, <2>2 DEF IInv, MonTypes
  <2>4. DeployedMonsHaveVolumes' /\ PurgedMonsAreForgotten'
    BY <2>1, <2>2 DEF IInv, MonTypes, DeployedMonsHaveVolumes, PurgedMonsAreForgotten
  <2>5. Surgery' /\ MonmapsHoldJoinedMons'
    BY <2>1 DEF IInv, Surgery, OutOf, BadMons, MonmapsHoldJoinedMons
  <2> QED BY <2>3, <2>4, <2>5 DEF IInv
<1>3. CASE SpareJoins
  <2>1. /\ spare = "created" /\ spare' = "joined" /\ store' = store \cup {Spare}
        /\ scale[Spare] = 1
        /\ UNCHANGED <<cm, read, todo, resources, scale, file, rq>>
    BY <1>3, MonsAssumption DEF SpareJoins, Up
  <2>2. "pvc" \in resources[Spare]
    BY <2>1 DEF IInv, DeployedMonsHaveVolumes, Mons
  <2>3. MonTypes' /\ DeployedMonsHaveVolumes' /\ PurgedMonsAreForgotten' /\ MonmapsHoldJoinedMons'
    BY <2>1, <2>2 DEF IInv, MonTypes, Mons, DeployedMonsHaveVolumes, PurgedMonsAreForgotten,
                      MonmapsHoldJoinedMons
  <2>4. Surgery'
    BY <2>1 DEF IInv, Surgery, OutOf, BadMons
  <2> QED BY <2>3, <2>4 DEF IInv
<1>4. CASE GoodMonPods
  <2>1. /\ file' \in {file, NoFile}
        /\ UNCHANGED <<cm, read, todo, resources, scale, store, spare, rq>>
    BY <1>4 DEF GoodMonPods
  <2> QED BY <2>1 DEF IInv, MonTypes, DeployedMonsHaveVolumes, PurgedMonsAreForgotten,
                      MonmapsHoldJoinedMons, Surgery, OutOf, BadMons, NoFile
<1>5. ASSUME NEW m \in Mons, OperatorReconcile(m) PROVE IInv'
  <2>1. /\ \/ "deployment" \in resources[m] /\ scale' = [scale EXCEPT ![m] = 1]
           \/ UNCHANGED scale
        /\ UNCHANGED <<cm, read, todo, resources, store, spare, file, rq>>
    BY <1>5 DEF OperatorReconcile
  <2> QED BY <2>1 DEF IInv, MonTypes, DeployedMonsHaveVolumes, PurgedMonsAreForgotten,
                      MonmapsHoldJoinedMons, Surgery, OutOf, BadMons
<1> QED BY <1>1, <1>2, <1>3, <1>4, <1>5 DEF Environment

\* Every step preserves the inductive invariant.
LEMMA StepIInv == IInv /\ [Next]_vars => IInv'
<1> SUFFICES ASSUME IInv, [Next]_vars PROVE IInv'
  OBVIOUS
<1>1. CASE MaintStep \/ UNCHANGED vars
  <2>1. UNCHANGED state
    BY <1>1 DEF MaintStep, vars, monVars, operatorVars, localVars, state
  <2> QED BY <2>1, QuietStep
<1> QED BY <1>1, SurgerySteps, PurgeSteps, ProcessSteps, EnvironmentSteps DEF Next, RestoreStep

\* No mon is purged while the good mon's monmap counts on it: for any mons, pods,
\* lengths of the loops and number of restores, each cut off anywhere.
THEOREM PurgedMonsAreForgottenHolds == Spec => []PurgedMonsAreForgotten
<1>1. Init => IInv
  BY InitIInv
<1>2. IInv /\ [Next]_vars => IInv'
  BY StepIInv
<1>3. IInv => PurgedMonsAreForgotten
  BY DEF IInv
<1> QED BY <1>1, <1>2, <1>3, PTL DEF Spec

-----------------------------------------------------------------------------
(* A half-finished restore. *)

BeforeInject ==
  {"prompt", "scaleOperator", "scaleBad", "callStart", "inStart", "getMaintenance",
   "extract", "remove"}

\* Until the monmap is injected, the process knows every original mon that the
\* ConfigMap lists, and has visited only mons that the monmap had.
ReadIsComplete == rq \in BeforeInject => cm \cap Bad \subseteq read.mons
VisitedWereThere == rq = "remove" => BadMons \ todo \subseteq store

HInv == IInv /\ ReadIsComplete /\ VisitedWereThere

\* What a step does to the lists of mons: only the restore process shortens them,
\* in the calls that are named here.
LEMMA ListsOnlyGrow ==
  ASSUME IInv, [Next]_vars
  PROVE  /\ rq # "updateCM" => cm' \in {cm, cm \cup {Spare}}
         /\ rq # "inject" => store' \in {store, store \cup {Spare}}
<1> USE DEF monVars, operatorVars, localVars, Goto
<1>1. CASE \/ Begin \/ Validate \/ GetCM \/ AnswerPrompt \/ ScaleOperator \/ Call \/ Return
           \/ GetMaintenance \/ Extract \/ Probe \/ Die \/ MaintStep \/ UNCHANGED vars
  BY <1>1 DEF Begin, Validate, GetCM, AnswerPrompt, ScaleOperator, Call, Return, GetMaintenance,
              Extract, Probe, Die, MaintStep, vars
<1>2. CASE Inject \/ UpdateCM
  BY <1>2 DEF Inject, UpdateCM
<1>3. ASSUME NEW m \in Mons,
             ScaleBad(m) \/ Remove(m) \/ Purge(m) \/ DeleteService(m) \/ DeletePVC(m)
      PROVE  UNCHANGED <<cm, store>>
  BY <1>3 DEF ScaleBad, Remove, Purge, DeleteService, DeletePVC
<1>4. CASE Environment
  BY <1>4 DEF Environment, UserStopsMaintenance, UserStartsOperator, OperatorPod,
              OperatorFailover, SpareJoins, GoodMonPods, OperatorReconcile
<1> QED BY <1>1, <1>2, <1>3, <1>4 DEF Next, RestoreStep

\* What a step does to the process on its way to the surgery: it stays where it is
\* with what it knows, ends, or goes on as the code does.
LEMMA WayToSurgery ==
  ASSUME IInv, [Next]_vars
  PROVE  \/ UNCHANGED <<rq, read, todo>>
         \/ rq' \in Idle \cup {"validate", "getCM"} /\ rq \notin {"updateCM", "inject"}
         \/ rq' \in Idle
         \/ rq = "getCM" /\ rq' = "prompt" /\ read'.mons = cm
         \/ rq \in BeforeInject /\ rq' \in BeforeInject \ {"remove"} /\ read' = read
         \/ rq = "extract" /\ rq' = "remove" /\ read' = read /\ todo' = BadMons
         \/ rq = "extract" /\ rq' = "inject" /\ read' = read /\ BadMons = {}
         \/ \E m \in todo \cap file.mons :
              /\ rq = "remove" /\ rq' = (IF todo = {m} THEN "inject" ELSE "remove")
              /\ read' = read /\ todo' = todo \ {m}
         \/ rq \notin BeforeInject \cup Idle \cup {"validate", "getCM"} /\ rq' \notin BeforeInject
<1> USE DEF monVars, operatorVars, localVars, Goto, BeforeInject, Idle
<1>1. CASE Begin \/ Validate \/ GetCM
  BY <1>1 DEF Begin, Validate, GetCM
<1>2. CASE AnswerPrompt \/ ScaleOperator \/ Call \/ Return \/ GetMaintenance
  BY <1>2 DEF AnswerPrompt, ScaleOperator, End, Call, Return, GetMaintenance
<1>3. CASE Extract
  BY <1>3 DEF Extract
<1>4. CASE Inject \/ UpdateCM
  BY <1>4 DEF Inject, UpdateCM
<1>5. CASE Probe
  BY <1>5 DEF Probe, End, AfterProbe
<1>6. CASE Die
  BY <1>6 DEF Die, End
<1>7. ASSUME NEW m \in Mons, Remove(m)
      PROVE  /\ m \in todo \cap file.mons
             /\ rq = "remove" /\ rq' = (IF todo = {m} THEN "inject" ELSE "remove")
             /\ read' = read /\ todo' = todo \ {m}
  BY <1>7 DEF Remove
<1>8. ASSUME NEW m \in Mons, ScaleBad(m)
      PROVE  rq \in BeforeInject /\ rq' \in BeforeInject \ {"remove"} /\ read' = read
  BY <1>8 DEF ScaleBad
<1>9. ASSUME NEW m \in Mons, Purge(m) \/ DeleteService(m) \/ DeletePVC(m)
      PROVE  rq \notin BeforeInject \cup Idle \cup {"validate", "getCM"} /\ rq' \notin BeforeInject
  BY <1>9 DEF Purge, DeleteService, DeletePVC
<1>10. CASE MaintStep \/ Environment \/ UNCHANGED vars
  BY <1>10 DEF MaintStep, Environment, UserStopsMaintenance, UserStartsOperator, OperatorPod,
               OperatorFailover, SpareJoins, GoodMonPods, OperatorReconcile, vars
<1> QED BY <1>1, <1>2, <1>3, <1>4, <1>5, <1>6, <1>7, <1>8, <1>9, <1>10 DEF Next, RestoreStep

\* The strengthened invariant is preserved.
LEMMA StepHInv == HInv /\ [Next]_vars => HInv'
<1> SUFFICES ASSUME HInv, [Next]_vars PROVE HInv'
  OBVIOUS
<1>1. IInv /\ IInv'
  BY StepIInv DEF HInv
<1>2. rq \in BeforeInject \cup {"getCM"} => cm' \cap Bad = cm \cap Bad /\ store \subseteq store'
  BY <1>1, ListsOnlyGrow, MonsAssumption DEF BeforeInject
<1>3. ReadIsComplete'
  BY <1>1, <1>2, WayToSurgery DEF HInv, ReadIsComplete, BeforeInject, Idle
<1>4. VisitedWereThere'
  BY <1>1, <1>2, WayToSurgery
  DEF HInv, IInv, VisitedWereThere, Surgery, BadMons, BeforeInject, Idle
<1> QED BY <1>1, <1>3, <1>4 DEF HInv

\* A restore that was cut off between the injected monmap and the updated ConfigMap
\* is completed by no later one, for any mons and however many are run.
THEOREM HalfRestoredForGood == Spec => HalfRestoredStays
<1>1. Init => HInv
  BY InitIInv DEF HInv, ReadIsComplete, VisitedWereThere, BeforeInject, Init
<1>2. HInv /\ [Next]_vars => HInv'
  BY StepHInv
<1>3. HInv /\ [Next]_vars => (HalfRestored => HalfRestored')
  <2> SUFFICES ASSUME HInv, [Next]_vars, HalfRestored PROVE HalfRestored'
    OBVIOUS
  <2>1. PICK m \in cm \cap Bad : m \notin store
    BY DEF HalfRestored
  <2>2. m \in cm' \cap Bad /\ m \notin store'
    BY <2>1, ListsOnlyGrow, MonsAssumption DEF HInv, HalfRestored, Idle
  <2>3. rq \in BeforeInject => m \in BadMons
    BY <2>1, MonsAssumption DEF HInv, ReadIsComplete, BadMons
  <2>4. rq = "remove" => m \in todo /\ m \notin file.mons
    BY <2>1, <2>3 DEF HInv, IInv, VisitedWereThere, Surgery, BeforeInject
  <2>5. rq' \in Idle \cup {"validate", "getCM"} \cup BeforeInject
    BY <2>3, <2>4, WayToSurgery DEF HInv, HalfRestored, BeforeInject
  <2> QED BY <2>2, <2>5 DEF HalfRestored, BeforeInject
<1> QED BY <1>1, <1>2, <1>3, PTL DEF Spec, HalfRestoredStays

-----------------------------------------------------------------------------
(* Types, those of the instance of Maintenance included: the process is its *)
(* one user.                                                                *)

\* The label and the poll count after a call of a maintenance command.
LEMMA MaintGotoType ==
  ASSUME M!TypeOK, NEW from,
         NEW to \in M!Returned \cup M!StartCalls \cup M!StopCalls,
         M!Goto("cli", from, to) \/ (M!PollAgain("cli", from) /\ to = "failed")
  PROVE  /\ pc' \in [{"cli"} -> M!Returned \cup M!StartCalls \cup M!StopCalls]
         /\ tries' \in [{"cli"} -> 0..(MaxTries - 1)]
BY MonsAssumption DEF M!TypeOK, M!Goto, M!PollAgain

\* The pod of the initial state, and one that is gone, are pods.
LEMMA MaintNoPod ==
  M!NoPod \in M!PodState /\ [M!NoPod EXCEPT !.phase = "Running"] \in M!PodState
BY DEF M!NoPod, M!PodState, M!Deployments

\* A maintenance command, called by a restore or run by the user, keeps the types.
LEMMA MaintCallTypes ==
  ASSUME M!TypeOK, M!Step("cli") \/ M!BeginStart("cli") \/ M!BeginStop("cli") \/ M!Abort("cli")
  PROVE  M!TypeOK'
<1> USE DEF M!Returned, M!StartCalls, M!StopCalls, M!Deployments, M!clusterVars
<1>1. CASE M!BeginStart("cli") \/ M!BeginStop("cli")
  BY <1>1 DEF M!BeginStart, M!BeginStop, M!Begin, M!TypeOK
<1>2. CASE M!GetOriginal("cli") \/ M!GetMaintenance("cli")
  BY <1>2, MaintGotoType DEF M!GetOriginal, M!GetMaintenance, M!TypeOK
<1>3. CASE M!AwaitDaemonPod("cli") \/ M!AwaitReady("cli")
  BY <1>3, MaintGotoType DEF M!AwaitDaemonPod, M!AwaitReady, M!TypeOK
<1>4. CASE M!ScaleDown("cli") \/ M!ScaleUp("cli")
  BY <1>4, MaintGotoType DEF M!ScaleDown, M!ScaleUp, M!TypeOK
<1>8. CASE M!Create("cli") \/ M!Delete("cli")
  <2>1. CASE M!Create("cli")
    BY <2>1, MaintGotoType DEF M!Create, M!TypeOK
  <2>2. CASE M!Delete("cli")
    BY <2>2, MaintGotoType DEF M!Delete, M!TypeOK
  <2> QED BY <1>8, <2>1, <2>2
<1>5. CASE M!Restore("cli")
  <2>1. stranded' \in BOOLEAN
    BY <1>5 DEF M!Restore
  <2> QED BY <1>5, <2>1, MaintGotoType DEF M!Restore, M!TypeOK
<1>6. CASE M!AwaitDeletion("cli")
  <2>1. stranded' \in BOOLEAN
    BY <1>6 DEF M!AwaitDeletion, M!TypeOK
  <2> QED BY <1>6, <2>1, MaintGotoType DEF M!AwaitDeletion, M!TypeOK
<1>7. CASE M!Abort("cli")
  <2>1. stranded' \in BOOLEAN
    BY <1>7 DEF M!Abort, M!TypeOK
  <2>2. M!Goto("cli", pc["cli"], "failed") /\ UNCHANGED <<deployed, replicas, pods, copied>>
    BY <1>7 DEF M!Abort
  <2> QED BY <2>1, <2>2, MaintGotoType DEF M!TypeOK
<1> QED BY <1>1, <1>2, <1>3, <1>4, <1>5, <1>6, <1>7, <1>8 DEF M!Step

\* So does Kubernetes, which creates, starts, terminates and removes pods.
LEMMA MaintPodTypes == ASSUME M!TypeOK, M!Kubernetes PROVE M!TypeOK'
<1> USE DEF M!clientVars
<1>1. ASSUME NEW d \in M!Deployments, M!CreatePod(d) PROVE M!TypeOK'
  BY <1>1 DEF M!CreatePod, M!TypeOK, M!PodState
<1>2. ASSUME NEW d \in M!Deployments, M!TerminatePod(d) PROVE M!TypeOK'
  BY <1>2 DEF M!TerminatePod, M!Active, M!TypeOK, M!PodState
<1>3. ASSUME NEW p \in Pods, M!RunPod(p) PROVE M!TypeOK'
  BY <1>3 DEF M!RunPod, M!TypeOK, M!PodState
<1>4. ASSUME NEW p \in Pods, M!RemovePod(p) PROVE M!TypeOK'
  BY <1>4, MaintNoPod DEF M!RemovePod, M!TypeOK
<1> QED BY <1>1, <1>2, <1>3, <1>4 DEF M!Kubernetes

\* So does a step elsewhere.
LEMMA MaintUnchanged == M!TypeOK /\ UNCHANGED maintVars => M!TypeOK'
BY DEF maintVars, M!TypeOK

\* The calls of a restore that has yet to write the ConfigMap.
BeforeUpdate ==
  {"validate", "getCM", "prompt", "scaleOperator", "scaleBad", "callStart", "inStart",
   "getMaintenance", "extract", "remove", "inject", "updateCM"}

\* Each restore writes the ConfigMap at most once, and so does the operator.
VersionCounts ==
  version + (IF rq \in BeforeUpdate THEN 1 ELSE 0) + (IF spare = "unborn" THEN 1 ELSE 0) <= runs + 1

TypeInv == TypeOK /\ VersionCounts

\* The cluster before the first restore.
LEMMA InitTypeInv == Init => TypeInv
<1> SUFFICES ASSUME Init PROVE TypeInv
  OBVIOUS
<1>1. M!TypeOK
  <2>1. pods \in [Pods -> M!PodState]
    BY MaintNoPod DEF Init, M!Init
  <2>2. replicas \in [M!Deployments -> 0..1] /\ deployed \subseteq M!Deployments
    BY DEF Init, M!Init, M!Deployments
  <2>3. tries \in [{"cli"} -> 0..(MaxTries - 1)]
    BY MonsAssumption DEF Init, M!Init
  <2>4. /\ pc \in [{"cli"} -> M!Returned \cup M!StartCalls \cup M!StopCalls]
        /\ copied \in [{"cli"} -> 0..1] /\ stranded \in BOOLEAN
    <3>1. /\ pc = [u \in {"cli"} |-> "idle"] /\ copied = [u \in {"cli"} |-> 0]
          /\ stranded = FALSE
      BY DEF Init, M!Init
    <3>2. stranded \in BOOLEAN
      BY <3>1
    <3>3. copied \in [{"cli"} -> 0..1]
      BY <3>1
    <3>4. pc \in [{"cli"} -> M!Returned \cup M!StartCalls \cup M!StopCalls]
      BY <3>1 DEF M!Returned
    <3> QED BY <3>2, <3>3, <3>4
  <2> QED BY <2>1, <2>2, <2>3, <2>4 DEF M!TypeOK
<1>2. TypeOK
  <2>1. /\ read \in [mons : SUBSET Mons, version : 0..(MaxRuns + 1)]
        /\ file \in [pod : Pods \cup {NoPodName}, mons : SUBSET Mons]
        /\ version \in 0..(MaxRuns + 1) /\ probes \in 0..(MaxProbes - 1) /\ runs \in 0..MaxRuns
    BY MonsAssumption DEF Init, NothingRead, NoFile
  <2>2. /\ resources \in [Mons -> SUBSET {"deployment", "service", "pvc"}]
        /\ scale \in [Mons -> 0..1]
    BY DEF Init
  <2>3. /\ cm \subseteq Mons /\ store \subseteq Mons /\ todo \subseteq Mons /\ lost \subseteq Bad
        /\ rq \in Labels /\ spare \in {"unborn", "created", "joined"}
    BY DEF Init, Mons, Labels, Idle
  <2>4. opScale \in 0..1
    BY DEF Init
  <2>5. opPod \in BOOLEAN /\ heard \in BOOLEAN
    BY Zenon DEF Init
  <2> QED BY <1>1, <2>1, <2>2, <2>3, <2>4, <2>5, Zenon DEF TypeOK
<1>3. VersionCounts
  BY DEF Init, VersionCounts, BeforeUpdate
<1> QED BY <1>2, <1>3 DEF TypeInv

\* A process that ends knows nothing.
LEMMA EndTypes ==
  ASSUME TypeInv, NEW label \in Idle, End(label),
         M!TypeOK', opScale' \in 0..1, heard' \in BOOLEAN,
         UNCHANGED <<opPod, spare, monVars, runs>>
  PROVE  TypeInv'
BY MonsAssumption DEF TypeInv, TypeOK, VersionCounts, BeforeUpdate, End, monVars, Labels, Idle,
   NothingRead, NoFile

\* The steps of a restore, its user and its end.
LEMMA RestoreTypes ==
  ASSUME TypeInv, Begin \/ AnswerPrompt \/ RestoreStep \/ Die
  PROVE  TypeInv'
<1> USE DEF operatorVars, monVars, Goto
<1>1. CASE Begin \/ Validate \/ GetCM \/ AnswerPrompt
  <2>1. CASE Begin
    <3>1. runs' \in 0..MaxRuns /\ VersionCounts'
      BY <2>1, MonsAssumption DEF Begin, TypeInv, TypeOK, VersionCounts, BeforeUpdate, Idle
    <3> QED BY <2>1, <3>1, MaintUnchanged DEF Begin, TypeInv, TypeOK, Labels
  <2>2. CASE Validate \/ AnswerPrompt
    BY <2>2, MaintUnchanged DEF Validate, AnswerPrompt,
       TypeInv, TypeOK, VersionCounts, BeforeUpdate, Labels, Idle
  <2>3. CASE GetCM
    BY <2>3, MaintUnchanged DEF GetCM,
       TypeInv, TypeOK, VersionCounts, BeforeUpdate, Labels, Idle
  <2> QED BY <1>1, <2>1, <2>2, <2>3
<1>2. CASE Return \/ GetMaintenance \/ UpdateCM
  BY <1>2, MonsAssumption, MaintUnchanged DEF Return, GetMaintenance, UpdateCM, Mons,
     TypeInv, TypeOK, VersionCounts, BeforeUpdate, Labels, Idle
<1>3. CASE ScaleOperator
  <2>1. CASE rq' \in {"callStart", "scaleBad"} /\ rq = "scaleOperator"
             /\ opScale' = 0 /\ todo' = BadMons /\ UNCHANGED <<read, file, probes>>
    BY <1>3, <2>1, MaintUnchanged DEF ScaleOperator, BadMons,
       TypeInv, TypeOK, VersionCounts, BeforeUpdate, Labels, Idle
  <2>2. CASE End("done") /\ opScale' = 1
    BY <1>3, <2>2, MaintUnchanged, EndTypes DEF ScaleOperator, TypeInv, TypeOK, Idle
  <2> QED BY <1>3, <2>1, <2>2 DEF ScaleOperator
<1>4. CASE Call
  <2>1. M!TypeOK'
    BY <1>4, MaintCallTypes DEF Call, TypeInv, TypeOK
  <2> QED BY <1>4, <2>1 DEF Call, TypeInv, TypeOK, VersionCounts, BeforeUpdate, Labels, Idle
<1>5. CASE Extract \/ Inject
  BY <1>5, MaintUnchanged DEF Extract, Inject, BadMons,
     TypeInv, TypeOK, VersionCounts, BeforeUpdate, Labels, Idle
<1>6. CASE Probe
  <2>1. rq = "probe" /\ UNCHANGED <<maintVars, operatorVars, monVars, runs>>
    BY <1>6 DEF Probe
  <2>2. heard' \in BOOLEAN /\ M!TypeOK'
    BY <1>6, <2>1, MaintUnchanged DEF Probe, TypeInv, TypeOK
  <2>3. CASE End("timedOut")
    BY <2>1, <2>2, <2>3, EndTypes DEF TypeInv, TypeOK, Idle
  <2>4. CASE rq' = AfterProbe /\ todo' = BadMons /\ probes' = 0 /\ UNCHANGED <<read, file>>
    BY <2>1, <2>2, <2>4, MonsAssumption DEF AfterProbe, BadMons,
       TypeInv, TypeOK, VersionCounts, BeforeUpdate, Labels, Idle
  <2>5. CASE ~LastPoll /\ probes' = probes + 1 /\ UNCHANGED <<rq, read, todo, file>>
    BY <2>1, <2>2, <2>5, MonsAssumption DEF LastPoll,
       TypeInv, TypeOK, VersionCounts, BeforeUpdate, Labels, Idle
  <2> QED BY <1>6, <2>3, <2>4, <2>5 DEF Probe
<1>7. CASE Die
  <2>1. M!TypeOK'
    BY <1>7, MaintUnchanged, MaintCallTypes DEF Die, TypeInv, TypeOK
  <2> QED BY <1>7, <2>1, EndTypes DEF Die, TypeInv, TypeOK, Idle
<1>8. ASSUME NEW m \in Mons, ScaleBad(m) \/ Remove(m) PROVE TypeInv'
  BY <1>8, MaintUnchanged DEF ScaleBad, Remove,
     TypeInv, TypeOK, VersionCounts, BeforeUpdate, Labels, Idle
<1>9. ASSUME NEW m \in Mons, Purge(m) \/ DeleteService(m) \/ DeletePVC(m) PROVE TypeInv'
  BY <1>9, MaintUnchanged DEF Purge, DeleteService, DeletePVC,
     TypeInv, TypeOK, VersionCounts, BeforeUpdate, Labels, Idle
<1> QED BY <1>1, <1>2, <1>3, <1>4, <1>5, <1>6, <1>7, <1>8, <1>9 DEF RestoreStep

\* The steps of everybody else, and stuttering.
LEMMA OtherTypes ==
  ASSUME TypeInv, MaintStep \/ Environment \/ UNCHANGED vars
  PROVE  TypeInv'
<1> USE DEF operatorVars, monVars, localVars
<1>1. CASE MaintStep \/ UserStopsMaintenance
  <2>1. M!TypeOK'
    BY <1>1, MaintCallTypes DEF MaintStep, UserStopsMaintenance, TypeInv, TypeOK
  <2> QED BY <1>1, <2>1 DEF MaintStep, UserStopsMaintenance, TypeInv, TypeOK, VersionCounts
<1>2. CASE UserStartsOperator \/ OperatorPod \/ UNCHANGED vars
  <2>1. opScale' \in 0..1 /\ opPod' \in BOOLEAN
    <3>1. opPod' \in BOOLEAN
      BY <1>2, Zenon DEF UserStartsOperator, OperatorPod, vars, TypeInv, TypeOK
    <3>2. opScale' \in 0..1
      BY <1>2 DEF UserStartsOperator, OperatorPod, vars, TypeInv, TypeOK
    <3> QED BY <3>1, <3>2
  <2>2. UNCHANGED <<maintVars, spare, monVars, localVars>>
    BY <1>2 DEF UserStartsOperator, OperatorPod, vars
  <2> QED BY <2>1, <2>2, MaintUnchanged DEF TypeInv, TypeOK, VersionCounts
<1>3. CASE OperatorFailover
  <2> USE DEF OperatorFailover, TypeInv, TypeOK
  <2>1. version' \in 0..(MaxRuns + 1) /\ VersionCounts'
    BY <1>3, MonsAssumption DEF VersionCounts
  <2>2. /\ resources' \in [Mons -> SUBSET {"deployment", "service", "pvc"}]
        /\ scale' \in [Mons -> 0..1] /\ cm' \subseteq Mons
    BY <1>3 DEF Mons
  <2> QED BY <1>3, <2>1, <2>2, MaintUnchanged
<1>4. CASE SpareJoins
  BY <1>4, MaintUnchanged DEF SpareJoins, Mons, TypeInv, TypeOK, VersionCounts
<1>5. CASE GoodMonPods
  <2>1. M!TypeOK'
    BY <1>5, MaintPodTypes DEF GoodMonPods, TypeInv, TypeOK
  <2>2. file' \in {file, NoFile}
    BY <1>5 DEF GoodMonPods
  <2> QED BY <1>5, <2>1, <2>2 DEF GoodMonPods, NoFile, TypeInv, TypeOK, VersionCounts
<1>6. ASSUME NEW m \in Mons, OperatorReconcile(m) PROVE TypeInv'
  <2>1. replicas' \in [M!Deployments -> 0..1]
    BY <1>6 DEF OperatorReconcile, TypeInv, TypeOK, M!TypeOK
  <2>2. M!TypeOK'
    BY <1>6, <2>1 DEF OperatorReconcile, TypeInv, TypeOK, M!TypeOK
  <2> QED BY <1>6, <2>2 DEF OperatorReconcile, TypeInv, TypeOK, VersionCounts
<1> QED BY <1>1, <1>2, <1>3, <1>4, <1>5, <1>6 DEF Environment

\* Type correctness, for any mons, any pods, any length of the wait loops and any
\* number of restores: no loop polls more often than it may, no restore writes the
\* ConfigMap twice.
THEOREM TypeCorrect == Spec => []TypeOK
<1>1. Init => TypeInv
  BY InitTypeInv
<1>2. TypeInv /\ [Next]_vars => TypeInv'
  BY RestoreTypes, OtherTypes DEF Next
<1>3. TypeInv => TypeOK
  BY DEF TypeInv
<1> QED BY <1>1, <1>2, <1>3, PTL DEF Spec
=============================================================================
