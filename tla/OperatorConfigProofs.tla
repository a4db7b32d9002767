------------------------ MODULE OperatorConfigProofs ------------------------
(***************************************************************************)
(* Proofs about OperatorConfig, for any users, properties, values, pods    *)
(* and bounds: its types, and that `set' implements the store of           *)
(* SettingStore, whose requests neither lose nor half-do anything.         *)
(***************************************************************************)
EXTENDS OperatorConfig, TLAPS

Setting(u) == pc[u] \in {"get", "update"}

\* A process has a request exactly while it works on it.
RequestsArePending == \A u \in Users : Setting(u) <=> arg[u] # NoRequest

\* What makes the check of the version enough: a copy of the object's version has the
\* object's data, for no version is used twice, not even by an object of the same name.
CopiesAreTrue ==
  \A u \in Users : pc[u] = "update" =>
    /\ copy[u].version <= version
    /\ exists /\ copy[u].version = version => copy[u].data = data

IInv == TypeOK /\ RequestsArePending /\ CopiesAreTrue /\ template = patches

-----------------------------------------------------------------------------
(* Types. *)

LEMMA InitTypeOK == Init => TypeOK
<1> SUFFICES ASSUME Init PROVE TypeOK
  OBVIOUS
<1>1. NoPod \in [state : PodStates, template : 0..MaxRestarts]
  BY ConfigAssumption DEF NoPod, PodStates
<1>2. NoCopy \in Copies /\ Unset \in Settings
  BY ConfigAssumption DEF NoCopy, Copies, Unset, Settings
<1> QED
  BY <1>1, <1>2, ConfigAssumption DEF Init, TypeOK, Labels, Answers, Requests

\* The end of a process leaves its variables in their types.
LEMMA EndType ==
  ASSUME TypeOK, NEW u \in Users, NEW answer \in Answers, End(u, answer)
  PROVE  /\ pc' \in [Users -> Labels] /\ arg' \in [Users -> Requests]
         /\ copy' \in [Users -> Copies] /\ told' \in [Users -> Answers]
<1>1. NoCopy \in Copies
  BY ConfigAssumption DEF NoCopy, Copies, Unset, Settings
<1> QED
  BY <1>1 DEF TypeOK, End, Labels, Requests

LEMMA AcceptType ==
  ASSUME TypeOK, NEW new \in Settings, Accept(new)
  PROVE  exists' \in BOOLEAN /\ data' \in Settings /\ version' \in 0..MaxVersion
BY ConfigAssumption DEF TypeOK, Accept

LEMMA ChangedCopy ==
  ASSUME TypeOK, NEW u \in Users, arg[u] # NoRequest
  PROVE  [copy[u].data EXCEPT ![arg[u].key] = arg[u].value] \in Settings
<1>1. arg[u].key \in Keys /\ arg[u].value \in Values
  BY DEF TypeOK, Requests
<1>2. copy[u].data \in Settings
  BY DEF TypeOK, Copies
<1> QED
  BY <1>1, <1>2 DEF Settings

\* Commands, whatever they do to their own variables.
LEMMA CommandTypeOK ==
  ASSUME IInv, NEW u \in Users, Command(u)
  PROVE  TypeOK'
<1>1. CASE BeginSet(u)
  BY <1>1 DEF IInv, TypeOK, BeginSet, Goto, Labels, Answers, Requests, configMap, deployment
<1>2. CASE GetCM(u)
  <2>1. [data |-> data, version |-> version] \in Copies
    BY DEF IInv, TypeOK, Copies
  <2> QED
    BY <1>2, <2>1 DEF IInv, TypeOK, GetCM, Goto, Labels, configMap, deployment
<1>3. CASE Update(u)
  <2>1. arg[u] # NoRequest
    BY <1>3 DEF IInv, RequestsArePending, Setting, Update
  <2>2. exists' \in BOOLEAN /\ data' \in Settings /\ version' \in 0..MaxVersion
    BY <1>3, <2>1, ChangedCopy, AcceptType DEF IInv, Update
  <2>3. PICK answer \in {"patched", "error"} : End(u, answer)
    BY <1>3 DEF Update
  <2>4. answer \in Answers
    BY DEF Answers
  <2> QED
    BY <1>3, <2>2, <2>3, <2>4, EndType DEF IInv, TypeOK, Update, deployment
<1>4. CASE BeginRestart(u) \/ Verify(u)
  BY <1>4 DEF IInv, TypeOK, BeginRestart, Verify, Goto, Labels, configMap, deployment
<1>5. CASE Patch(u)
  <2>1. template' \in 0..MaxRestarts /\ patches' \in 0..MaxRestarts
    BY <1>5, ConfigAssumption DEF IInv, TypeOK, Patch
  <2>2. "nothing" \in Answers
    BY DEF Answers
  <2> QED
    BY <1>5, <2>1, <2>2, EndType DEF IInv, TypeOK, Patch, configMap
<1>6. CASE Die(u)
  <2>1. "error" \in Answers
    BY DEF Answers
  <2> QED
    BY <1>6, <2>1, EndType DEF IInv, TypeOK, Die, configMap, deployment
<1> QED
  BY <1>1, <1>2, <1>3, <1>4, <1>5, <1>6 DEF Command

LEMMA OthersTypeOK ==
  ASSUME IInv, EditCM \/ DeleteCM \/ CreateCM \/ Scale \/ \E p \in Pods : Kubernetes(p)
  PROVE  TypeOK'
<1>1. CASE EditCM
  BY <1>1, AcceptType DEF IInv, TypeOK, EditCM, deployment, process
<1>2. CASE DeleteCM
  <2>1. Unset \in Settings
    BY DEF Unset, Settings
  <2> QED
    BY <1>2, <2>1 DEF IInv, TypeOK, DeleteCM, deployment, process
<1>3. CASE CreateCM
  BY <1>3, ConfigAssumption DEF IInv, TypeOK, CreateCM, deployment, process
<1>4. CASE Scale
  BY <1>4 DEF IInv, TypeOK, Scale, configMap, process
<1>5. ASSUME NEW p \in Pods, Kubernetes(p) PROVE TypeOK'
  <2> DEFINE P == [state : PodStates, template : 0..MaxRestarts]
  <2>1. NoPod \in P /\ [state |-> "starting", template |-> template] \in P
    BY ConfigAssumption DEF NoPod, PodStates, IInv, TypeOK
  <2>2. \A s \in PodStates : [pods[p] EXCEPT !.state = s] \in P
    BY DEF IInv, TypeOK
  <2>3. PICK pod \in P : SetPod(p, pod)
    BY <1>5, <2>1, <2>2
    DEF Kubernetes, CreatePod, RunPod, TerminatePod, RemovePod, PodStates
  <2> QED
    BY <2>3 DEF IInv, TypeOK, SetPod, configMap, process
<1> QED
  BY <1>1, <1>2, <1>3, <1>4, <1>5

-----------------------------------------------------------------------------
(* The invariant. *)

\* What the commands do to the ConfigMap and to the processes of other users.
LEMMA CommandChanges ==
  ASSUME IInv, NEW u \in Users, Command(u)
  PROVE  /\ \A w \in Users \ {u} : pc'[w] = pc[w] /\ arg'[w] = arg[w] /\ copy'[w] = copy[w]
         /\ exists' = exists
         /\ \/ data' = data /\ version' = version
            \/ Update(u) /\ version' = version + 1
BY DEF IInv, TypeOK, Command, BeginSet, GetCM, Update, Accept, BeginRestart, Verify, Patch,
       Die, End, Goto, configMap, process

LEMMA InitIInv == Init => IInv
<1> SUFFICES ASSUME Init PROVE IInv
  OBVIOUS
<1>1. TypeOK
  BY InitTypeOK
<1> QED
  BY <1>1 DEF Init, IInv, RequestsArePending, Setting, CopiesAreTrue

LEMMA CommandIInv ==
  ASSUME IInv, NEW u \in Users, Command(u)
  PROVE  IInv'
<1>1. TypeOK'
  BY CommandTypeOK
<1>2. RequestsArePending'
  <2> SUFFICES ASSUME NEW w \in Users
               PROVE  Setting(w)' <=> arg'[w] # NoRequest
    BY DEF RequestsArePending
  <2>1. CASE w # u
    BY <2>1, CommandChanges DEF IInv, RequestsArePending, Setting
  <2>2. CASE w = u /\ BeginSet(u)
    BY <2>2, ConfigAssumption DEF IInv, TypeOK, Setting, BeginSet, Goto, NoRequest
  <2>3. CASE w = u /\ (GetCM(u) \/ BeginRestart(u) \/ Verify(u))
    BY <2>3 DEF IInv, TypeOK, RequestsArePending, Setting, GetCM, BeginRestart, Verify, Goto
  <2>4. CASE w = u /\ (Update(u) \/ Patch(u) \/ Die(u))
    BY <2>4 DEF IInv, TypeOK, Setting, Update, Patch, Die, End
  <2> QED
    BY <2>1, <2>2, <2>3, <2>4 DEF Command
<1>3. CopiesAreTrue'
  <2> SUFFICES ASSUME NEW w \in Users, pc'[w] = "update"
               PROVE  /\ copy'[w].version <= version'
                      /\ exists' /\ copy'[w].version = version' => copy'[w].data = data'
    BY DEF CopiesAreTrue
  <2>1. copy[w].version \in Nat /\ version \in Nat
    BY DEF IInv, TypeOK, Copies
  <2>2. CASE w # u
    BY <2>1, <2>2, CommandChanges DEF IInv, CopiesAreTrue
  <2>3. CASE w = u
    <3>1. GetCM(u)
      BY <2>3 DEF Command, BeginSet, Update, BeginRestart, Verify, Patch, Die, End, Goto, IInv, TypeOK
    <3> QED
      BY <2>1, <2>3, <3>1 DEF GetCM, configMap, IInv, TypeOK
  <2> QED
    BY <2>2, <2>3
<1>4. template' = patches'
  BY DEF IInv, Command, BeginSet, GetCM, Update, BeginRestart, Verify, Patch, Die, deployment
<1> QED
  BY <1>1, <1>2, <1>3, <1>4 DEF IInv

LEMMA OthersIInv ==
  ASSUME IInv, EditCM \/ DeleteCM \/ CreateCM \/ Scale \/ \E p \in Pods : Kubernetes(p)
  PROVE  IInv'
<1>1. TypeOK'
  BY OthersTypeOK
<1>2. /\ UNCHANGED <<pc, arg, copy, told, template, patches>>
      /\ \/ ~exists'
         \/ UNCHANGED <<exists, data, version>>
         \/ version' = version + 1
  BY DEF EditCM, Accept, DeleteCM, CreateCM, Scale, Kubernetes, CreatePod, RunPod, TerminatePod,
         RemovePod, SetPod, configMap, deployment, process
<1>3. /\ version \in Nat /\ version' \in Nat /\ version' >= version
      /\ \A u \in Users : copy[u].version \in Nat
  BY DEF IInv, TypeOK, Copies, EditCM, Accept, DeleteCM, CreateCM, Scale, Kubernetes, CreatePod,
         RunPod, TerminatePod, RemovePod, SetPod, configMap
<1>4. RequestsArePending'
  BY <1>2 DEF IInv, RequestsArePending, Setting
<1>5. CopiesAreTrue'
  <2> SUFFICES ASSUME NEW u \in Users, pc[u] = "update"
               PROVE  /\ copy[u].version <= version'
                      /\ exists' /\ copy[u].version = version' => copy[u].data = data'
    BY <1>2 DEF CopiesAreTrue
  <2>1. /\ copy[u].version \in Nat /\ copy[u].version <= version
        /\ exists /\ copy[u].version = version => copy[u].data = data
    BY <1>3 DEF IInv, CopiesAreTrue
  <2>2. copy[u].version <= version'
    BY <1>3, <2>1
  <2>3. ~exists' \/ UNCHANGED <<exists, data, version>> \/ copy[u].version < version'
    BY <1>2, <1>3, <2>1
  <2> QED
    BY <2>1, <2>2, <2>3
<1> QED
  BY <1>1, <1>2, <1>4, <1>5 DEF IInv

LEMMA StepIInv == IInv /\ [Next]_vars => IInv'
<1> SUFFICES ASSUME IInv, [Next]_vars PROVE IInv'
  OBVIOUS
<1>1. CASE UNCHANGED vars
  BY <1>1 DEF IInv, TypeOK, RequestsArePending, Setting, CopiesAreTrue,
              vars, configMap, deployment, process
<1> QED
  BY <1>1, CommandIInv, OthersIInv DEF Next

\* The type invariant of OperatorConfig.
THEOREM TypeCorrect == Spec => []TypeOK
<1>1. IInv => TypeOK
  BY DEF IInv
<1> QED
  BY <1>1, InitIInv, StepIInv, PTL DEF Spec

-----------------------------------------------------------------------------
(* The refinement. *)

LEMMA StoreConstants ==
  /\ Store!Settings = Settings /\ Store!NoRequest = NoRequest /\ Store!Answers = Answers
BY DEF Store!Settings, Settings, Store!NoRequest, NoRequest, Store!Answers, Answers

LEMMA UpdateCarries ==
  ASSUME IInv, NEW u \in Users, Update(u)
  PROVE  Store!Carry(u)
<1>1. arg[u] # NoRequest /\ copy[u].data = data
  BY DEF IInv, RequestsArePending, Setting, CopiesAreTrue, Update, Accept
<1>2. data' = [data EXCEPT ![arg[u].key] = arg[u].value]
  BY <1>1 DEF Update, Accept
<1>3. PICK answer \in {"patched", "error"} : End(u, answer)
  BY DEF Update
<1>4. told' = [told EXCEPT ![u] = answer]
  BY <1>3 DEF End, Update
<1>5. arg' = [arg EXCEPT ![u] = NoRequest]
  BY <1>3 DEF End
<1>6. Store!Answer(u, answer)
  BY <1>1, <1>4, <1>5, StoreConstants DEF Store!Answer
<1> QED
  BY <1>2, <1>6 DEF Store!Carry

\* A command of a user is one of the store, or none.
LEMMA CommandMaps ==
  ASSUME IInv, NEW u \in Users, Command(u)
  PROVE  \/ Store!Ask(u) \/ Store!Carry(u) \/ Store!Refuse(u)
         \/ UNCHANGED <<data, arg, told>>
<1>1. CASE BeginSet(u)
  <2>1. arg[u] = NoRequest
    BY <1>1 DEF IInv, RequestsArePending, Setting, BeginSet, Goto
  <2> QED
    BY <1>1, <2>1, StoreConstants DEF BeginSet, Store!Ask, configMap
<1>2. CASE GetCM(u) \/ BeginRestart(u) \/ Verify(u)
  BY <1>2 DEF GetCM, BeginRestart, Verify, configMap
<1>3. CASE Update(u)
  BY <1>3, UpdateCarries
<1>4. CASE Patch(u) \/ (Die(u) /\ ~Setting(u))
  <2>1. arg[u] = NoRequest /\ arg \in [Users -> Requests] /\ told \in [Users -> Answers]
    BY <1>4 DEF IInv, TypeOK, RequestsArePending, Setting, Patch
  <2>2. arg' = [arg EXCEPT ![u] = NoRequest] /\ told' = [told EXCEPT ![u] = told[u]]
    BY <1>4 DEF Patch, Die, End, Setting
  <2>3. arg' = arg /\ told' = told
    BY <2>1, <2>2
  <2> QED
    BY <1>4, <2>3 DEF Patch, Die, configMap
<1>5. CASE Die(u) /\ Setting(u)
  <2>1. arg[u] # NoRequest
    BY <1>5 DEF IInv, RequestsArePending
  <2>2. arg' = [arg EXCEPT ![u] = NoRequest] /\ told' = [told EXCEPT ![u] = "error"]
    BY <1>5 DEF Die, End, Setting
  <2> QED
    BY <1>5, <2>1, <2>2, StoreConstants DEF Die, configMap, Store!Refuse, Store!Answer
<1> QED
  BY <1>1, <1>2, <1>3, <1>4, <1>5 DEF Command

LEMMA OthersMap ==
  ASSUME IInv', EditCM \/ DeleteCM \/ CreateCM \/ Scale \/ \E p \in Pods : Kubernetes(p)
  PROVE  Store!Edit
<1>1. data' \in Settings
  BY DEF IInv, TypeOK
<1>2. UNCHANGED <<arg, told>>
  BY DEF EditCM, DeleteCM, CreateCM, Scale, Kubernetes, CreatePod, RunPod, TerminatePod,
         RemovePod, SetPod, process
<1> QED
  BY <1>1, <1>2, StoreConstants DEF Store!Edit

\* `operator set' sets single properties atomically, although it reads and writes the
\* whole ConfigMap.
THEOREM ImplementsStore == Spec => SetsAreAtomic
<1>1. Init => Store!Init
  BY InitTypeOK, StoreConstants DEF Init, TypeOK, Store!Init
<1>2. IInv /\ IInv' /\ [Next]_vars => [Store!Next]_Store!vars
  <2> SUFFICES ASSUME IInv, IInv', [Next]_vars PROVE [Store!Next]_Store!vars
    OBVIOUS
  <2>1. CASE UNCHANGED vars
    BY <2>1 DEF vars, configMap, process, Store!vars
  <2>2. CASE \E u \in Users : Command(u)
    BY <2>2, CommandMaps DEF Store!Next, Store!vars
  <2>3. CASE EditCM \/ DeleteCM \/ CreateCM \/ Scale \/ \E p \in Pods : Kubernetes(p)
    BY <2>3, OthersMap DEF Store!Next
  <2> QED
    BY <2>1, <2>2, <2>3 DEF Next
<1> QED
  BY <1>1, <1>2, InitIInv, StepIInv, PTL DEF Spec, SetsAreAtomic, Store!Spec
=============================================================================
