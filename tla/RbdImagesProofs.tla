--------------------------- MODULE RbdImagesProofs ---------------------------
(***************************************************************************)
(* Proofs about RbdImages, for any volumes, pools, namespaces and users:   *)
(* its types, that a temporary image goes before the flatten, and that the *)
(* rows of `rbd ls' have images.                                           *)
(***************************************************************************)
EXTENDS RbdImages, FiniteSetTheorems, TLAPS

\* A volume whose PVC a process has found bound is not provisioned again.
Provisioned ==
  \A u \in Users : pc[u] \in {"getPV", "status", "info", "trash", "flatten"} =>
    claim[cmd[u].volume] \in {"bound", "deleting", "gone"}

\* What `rbd ls' goes through at its pool, and how far it is.
ToList(p) == IF NamespaceList[p] = <<>> THEN <<p>> ELSE NamespaceList[p]
Single(s) == \A i, j \in DOMAIN s : s[i].space = s[j].space => i = j

ListedTo(all, left, found) ==
  LET n == Len(all) - Len(left)
  IN /\ n \in Nat /\ n <= Len(found)
     /\ \A i \in 1..Len(left) : left[i] = all[n + i]
     /\ Single(found) => Len(found) = n /\ \A i \in 1..n : found[i].space = all[i]

Progress(u) == ListedTo(ToList(pool[u]), spaces[u], images[u])

ListedSoFar ==
  \A u \in Users : /\ pc[u] \notin {"listImages", "print"} => images[u] = <<>>
                   /\ pc[u] \in {"listImages", "print"} => Progress(u)
                   /\ pc[u] = "print" => spaces[u] = <<>>

IInv == TypeOK /\ Provisioned /\ TempGoesFirst /\ ListedSoFar

-----------------------------------------------------------------------------
(* What one listing returns. *)

LEMMA SetToSeqIsSeq ==
  ASSUME NEW S, IsFiniteSet(S)
  PROVE  /\ SetToSeq(S) \in Seq(S)
         /\ Len(SetToSeq(S)) = Cardinality(S)
<1>1. Cardinality(S) \in Nat /\ ExistsBijection(1..Cardinality(S), S)
  BY FS_CardinalityType
<1>2. \E f \in [1..Cardinality(S) -> S] : IsInjective(f)
  BY <1>1 DEF ExistsBijection, Bijection, Injection, IsInjective
<1>3. SetToSeq(S) \in [1..Cardinality(S) -> S]
  BY <1>2 DEF SetToSeq
<1> QED
  BY <1>1, <1>3

\* A namespace is never without an entry, and every entry says where it is from.
LEMMA ListingType ==
  ASSUME TypeOK, NEW s \in Spaces
  PROVE  LET l == GetRBDImages(s)
         IN /\ l \in Seq(Entry) /\ Len(l) >= 1
            /\ \A i \in 1..Len(l) : l[i].space = s
<1> DEFINE E == {[name |-> n, space |-> s] : n \in NamesIn(s)}
<1>1. NamesIn(s) \subseteq Names
  BY DEF NamesIn, Names
<1>2. CASE NamesIn(s) = {}
  BY <1>2 DEF GetRBDImages, Entry
<1>3. CASE NamesIn(s) # {}
  <2>1. IsFiniteSet(NamesIn(s))
    <3>1. IsFiniteSet({"image", "temp"})
      <4>1. IsFiniteSet({"image"})
        BY FS_Singleton
      <4>2. IsFiniteSet({"image"} \cup {"temp"})
        BY <4>1, FS_AddElement
      <4> QED
        BY <4>2, {"image"} \cup {"temp"} = {"image", "temp"}
    <3>2. IsFiniteSet(Names)
      BY <3>1, FS_Product, VolumesAssumption DEF Names
    <3> QED
      BY <3>2, <1>1, FS_Subset
  <2>2. IsFiniteSet(E)
    <3> DEFINE f == [n \in NamesIn(s) |-> [name |-> n, space |-> s]]
    <3>1. f \in Surjection(NamesIn(s), E)
      BY DEF Surjection
    <3> QED
      BY <3>1, <2>1, FS_Surjection
  <2>3. GetRBDImages(s) = SetToSeq(E)
    BY <1>3 DEF GetRBDImages
  <2>4. E # {} /\ E \subseteq Entry /\ \A e \in E : e.space = s
    <3>1. \A n \in NamesIn(s) : [name |-> n, space |-> s] \in Entry
      BY <1>1 DEF Entry
    <3>2. \A n \in NamesIn(s) : [name |-> n, space |-> s].space = s
      OBVIOUS
    <3> QED
      BY <3>1, <3>2, <1>3
  <2>5. Cardinality(E) >= 1
    BY <2>2, <2>4, FS_EmptySet, FS_CardinalityType
  <2> HIDE DEF E
  <2> QED
    BY <2>2, <2>3, <2>4, <2>5, SetToSeqIsSeq
<1> QED
  BY <1>2, <1>3

LEMMA ToListType ==
  ASSUME NEW p \in Pools
  PROVE  ToList(p) \in Seq(Spaces)
<1>1. NamespaceList[p] \in Seq(Spaces) /\ p \in Spaces
  BY VolumesAssumption DEF Spaces
<1> QED
  BY <1>1 DEF ToList

\* One more namespace is listed.
LEMMA OneMore ==
  ASSUME NEW all \in Seq(Spaces), NEW left \in Seq(Spaces), left # <<>>,
         NEW found \in Seq(Entry), NEW l \in Seq(Entry), Len(l) >= 1,
         \A i \in 1..Len(l) : l[i].space = Head(left),
         ListedTo(all, left, found)
  PROVE  ListedTo(all, Tail(left), found \o l)
<1>1. PICK n \in Nat : n = Len(all) - Len(left)
  BY DEF ListedTo
<1>2. /\ n <= Len(found) /\ \A i \in 1..Len(left) : left[i] = all[n + i]
      /\ Single(found) => Len(found) = n /\ \A i \in 1..n : found[i].space = all[i]
  BY <1>1 DEF ListedTo
<1>3. /\ Len(left) \in Nat /\ Len(left) >= 1 /\ Head(left) = all[n + 1]
      /\ Len(Tail(left)) = Len(left) - 1
      /\ \A i \in 1..(Len(left) - 1) : Tail(left)[i] = left[i + 1]
  BY <1>2
<1>4. /\ Len(found) \in Nat /\ Len(l) \in Nat /\ Len(found \o l) = Len(found) + Len(l)
      /\ DOMAIN (found \o l) = 1..(Len(found) + Len(l)) /\ DOMAIN found = 1..Len(found)
      /\ \A i \in 1..Len(found) : (found \o l)[i] = found[i]
      /\ \A i \in 1..Len(l) : (found \o l)[Len(found) + i] = l[i]
  OBVIOUS
<1>5. ASSUME Single(found \o l)
      PROVE  Len(found \o l) = n + 1 /\ \A i \in 1..(n + 1) : (found \o l)[i].space = all[i]
  <2> DEFINE s == found \o l
  <2>1. \A i, j \in 1..(Len(found) + Len(l)) : s[i].space = s[j].space => i = j
    BY <1>4, <1>5 DEF Single
  <2> HIDE DEF s
  <2>2. Single(found)
    <3> SUFFICES ASSUME NEW i \in 1..Len(found), NEW j \in 1..Len(found),
                        found[i].space = found[j].space
                 PROVE  i = j
      BY <1>4 DEF Single
    <3>1. s[i] = found[i] /\ s[j] = found[j]
      BY <1>4 DEF s
    <3>2. i \in 1..(Len(found) + Len(l)) /\ j \in 1..(Len(found) + Len(l))
      BY <1>4
    <3> QED
      BY <2>1, <3>1, <3>2
  <2>3. Len(found) = n /\ \A i \in 1..n : found[i].space = all[i]
    BY <1>2, <2>2
  <2>4. Len(l) = 1
    <3>0. Len(l) = 1 \/ Len(l) >= 2
      <4>1. \A k \in Nat : k >= 1 => k = 1 \/ k >= 2
        OBVIOUS
      <4>2. Len(l) \in Nat
        BY <1>4
      <4> QED
        BY <4>1, <4>2, Zenon
    <3> SUFFICES ASSUME Len(l) >= 2 PROVE FALSE
      BY <3>0
    <3>1. 1 \in 1..Len(l) /\ 2 \in 1..Len(l)
      BY <1>4
    <3>2. s[Len(found) + 1].space = s[Len(found) + 2].space
      BY <1>4, <3>1 DEF s
    <3>3. Len(found) + 1 \in 1..(Len(found) + Len(l)) /\ Len(found) + 2 \in 1..(Len(found) + Len(l))
      BY <1>4
    <3>4. Len(found) + 1 = Len(found) + 2
      BY <2>1, <3>2, <3>3
    <3> QED
      BY <3>4, <1>4
  <2>5. (found \o l)[n + 1].space = all[n + 1]
    <3>1. 1 \in 1..Len(l)
      BY <1>4
    <3>2. (found \o l)[Len(found) + 1] = l[1]
      BY <3>1, <1>4
    <3>3. l[1].space = Head(left)
      BY <3>1
    <3> QED
      BY <3>2, <3>3, <2>3, <1>3
  <2>6. ASSUME NEW i \in 1..(n + 1) PROVE (found \o l)[i].space = all[i]
    <3>1. CASE i = n + 1
      BY <3>1, <2>5
    <3>2. CASE i \in 1..n
      BY <3>2, <2>3, <1>4
    <3>3. i = n + 1 \/ i \in 1..n
      BY SMTT(30)
    <3> QED
      BY <3>1, <3>2, <3>3
  <2> QED
    BY <2>3, <2>4, <2>6, <1>4
<1>6. Len(all) - Len(Tail(left)) = n + 1
  BY <1>1, <1>3
<1>7. \A i \in 1..Len(Tail(left)) : Tail(left)[i] = all[(n + 1) + i]
  <2> SUFFICES ASSUME NEW i \in 1..(Len(left) - 1) PROVE left[i + 1] = all[(n + 1) + i]
    BY <1>3
  <2> QED
    BY <1>2, <1>3
<1>8. n + 1 \in Nat /\ n + 1 <= Len(found \o l)
  <2>1. n <= Len(found)
    BY <1>2
  <2> QED
    BY <2>1, <1>4, SMTT(30)
<1> DEFINE m == Len(all) - Len(Tail(left))
<1>9. /\ m \in Nat /\ m <= Len(found \o l)
      /\ \A i \in 1..Len(Tail(left)) : Tail(left)[i] = all[m + i]
      /\ Single(found \o l) => Len(found \o l) = m /\ \A i \in 1..m : (found \o l)[i].space = all[i]
  <2>1. m = n + 1
    BY <1>6
  <2> HIDE DEF m
  <2> QED
    BY <2>1, <1>5, <1>7, <1>8
<1> QED
  BY <1>9 DEF ListedTo

-----------------------------------------------------------------------------
(* The steps. *)

LEMMA InitIInv == Init => IInv
BY VolumesAssumption DEF Init, IInv, TypeOK, Provisioned, TempGoesFirst, ListedSoFar,
   NoCommand, SomePool, Phases, Labels

\* What a process leaves behind says nothing.
LEMMA EndType ==
  ASSUME TypeOK, NEW u \in Users, End(u)
  PROVE  /\ pc' \in [Users -> Labels] /\ pool' \in [Users -> Pools]
         /\ cmd' \in [Users -> [volume : Volumes, allow : BOOLEAN]]
         /\ refused' \in [Users -> BOOLEAN] /\ failed' \in [Users -> BOOLEAN]
         /\ spaces' \in [Users -> Seq(Spaces)] /\ images' \in [Users -> Seq(Entry)]
BY VolumesAssumption DEF TypeOK, End, NoCommand, SomePool, Labels

LEMMA TypeStep == TypeOK /\ [Next]_vars => TypeOK'
<1> SUFFICES ASSUME TypeOK, [Next]_vars PROVE TypeOK'
  OBVIOUS
<1> USE VolumesAssumption DEF TypeOK, volumeVars, flattenVars, listVars, Goto, Labels, Phases
<1>1. CASE UNCHANGED vars
  BY <1>1 DEF vars
<1>2. CASE Environment
  <2>1. UNCHANGED <<pc, flattenVars, listVars>>
    BY <1>2 DEF Environment
  <2>2. ASSUME NEW v \in Volumes, Request(v) \/ CreateTemp(v) \/ CreateImage(v) \/ Bind(v)
        PROVE  TypeOK'
    BY <2>1, <2>2 DEF Request, CreateTemp, CreateImage, Bind
  <2>3. ASSUME NEW v \in Volumes, Attach(v) \/ Detach(v) \/ DeletePVC(v)
        PROVE  TypeOK'
    BY <2>1, <2>3 DEF Attach, Detach, DeletePVC
  <2>4. ASSUME NEW v \in Volumes, DeleteVolume(v)
        PROVE  TypeOK'
    BY <2>1, <2>4 DEF DeleteVolume
  <2>5. ASSUME NEW v \in Volumes, RunTask(v)
        PROVE  TypeOK'
    BY <2>1, <2>5 DEF RunTask
  <2> QED
    BY <1>2, <2>2, <2>3, <2>4, <2>5 DEF Environment
<1>3. ASSUME NEW u \in Users, BeginFlatten(u)
      PROVE  TypeOK'
  <2>1. PICK v \in Volumes, allow \in BOOLEAN :
          cmd' = [cmd EXCEPT ![u] = [volume |-> v, allow |-> allow]]
    BY <1>3 DEF BeginFlatten
  <2>2. cmd' \in [Users -> [volume : Volumes, allow : BOOLEAN]]
    BY <2>1
  <2> QED
    BY <1>3, <2>2 DEF BeginFlatten
<1>11. ASSUME NEW u \in Users, GetPVC(u) \/ BeginList(u)
      PROVE  TypeOK'
  BY <1>11 DEF GetPVC, BeginList
<1>7. ASSUME NEW u \in Users, GetPV(u)
      PROVE  TypeOK'
  BY <1>7 DEF GetPV, AfterCheck
<1>8. ASSUME NEW u \in Users, Status(u)
      PROVE  TypeOK'
  BY <1>8 DEF Status, AfterCheck
<1>9. ASSUME NEW u \in Users, Info(u)
      PROVE  TypeOK'
  BY <1>9 DEF Info
<1>10. ASSUME NEW u \in Users, Trash(u)
      PROVE  TypeOK'
  BY <1>10 DEF Trash
<1>4. ASSUME NEW u \in Users, Flatten(u) \/ PrintRows(u) \/ Die(u)
      PROVE  TypeOK'
  BY <1>4, EndType DEF Flatten, PrintRows, Die
<1>5. ASSUME NEW u \in Users, ListSpaces(u)
      PROVE  TypeOK'
  BY <1>5, ToListType DEF ListSpaces, ToList
<1>6. ASSUME NEW u \in Users, ListImages(u)
      PROVE  TypeOK'
  <2>1. Head(spaces[u]) \in Spaces /\ Tail(spaces[u]) \in Seq(Spaces)
    BY <1>6 DEF ListImages
  <2>2. GetRBDImages(Head(spaces[u])) \in Seq(Entry)
    BY <2>1, ListingType
  <2>3. images[u] \o GetRBDImages(Head(spaces[u])) \in Seq(Entry)
    BY <2>2
  <2> QED
    BY <1>6, <2>1, <2>3 DEF ListImages
<1> QED
  BY <1>1, <1>2, <1>3, <1>4, <1>5, <1>6, <1>7, <1>8, <1>9, <1>10, <1>11 DEF Next

\* The temporary image: it comes before the PVC is bound, and is gone when the
\* process asks for the flatten.
LEMMA TempStep ==
  TypeOK /\ Provisioned /\ TempGoesFirst /\ [Next]_vars => Provisioned' /\ TempGoesFirst'
<1> SUFFICES ASSUME TypeOK, Provisioned, TempGoesFirst, [Next]_vars
             PROVE  Provisioned' /\ TempGoesFirst'
  OBVIOUS
<1> USE DEF TypeOK, Provisioned, TempGoesFirst, volumeVars, flattenVars, listVars, Goto, Labels
<1>1. CASE UNCHANGED vars
  BY <1>1 DEF vars
<1>2. CASE Environment
  <2>1. UNCHANGED <<pc, cmd, failed>>
    BY <1>2 DEF Environment
  <2>2. ASSUME NEW v \in Volumes, Request(v) \/ CreateTemp(v) \/ CreateImage(v) \/ Bind(v)
        PROVE  Provisioned' /\ TempGoesFirst'
    BY <2>1, <2>2 DEF Request, CreateTemp, CreateImage, Bind
  <2>3. ASSUME NEW v \in Volumes, Attach(v) \/ Detach(v) \/ DeletePVC(v) \/ RunTask(v)
        PROVE  Provisioned' /\ TempGoesFirst'
    BY <2>1, <2>3 DEF Attach, Detach, DeletePVC, RunTask
  <2>4. ASSUME NEW v \in Volumes, DeleteVolume(v)
        PROVE  Provisioned' /\ TempGoesFirst'
    BY <2>1, <2>4 DEF DeleteVolume
  <2> QED
    BY <1>2, <2>2, <2>3, <2>4 DEF Environment
<1>3. ASSUME NEW u \in Users, BeginFlatten(u)
      PROVE  Provisioned' /\ TempGoesFirst'
  BY <1>3 DEF BeginFlatten
<1>8. ASSUME NEW u \in Users, GetPVC(u)
      PROVE  Provisioned' /\ TempGoesFirst'
  BY <1>8 DEF GetPVC
<1>9. ASSUME NEW u \in Users, GetPV(u)
      PROVE  Provisioned' /\ TempGoesFirst'
  BY <1>9 DEF GetPV, AfterCheck
<1>10. ASSUME NEW u \in Users, Status(u)
      PROVE  Provisioned' /\ TempGoesFirst'
  BY <1>10 DEF Status, AfterCheck
<1>4. ASSUME NEW u \in Users, Info(u)
      PROVE  Provisioned' /\ TempGoesFirst'
  BY <1>4 DEF Info
<1>7. ASSUME NEW u \in Users, Trash(u)
      PROVE  Provisioned' /\ TempGoesFirst'
  BY <1>7 DEF Trash
<1>5. ASSUME NEW u \in Users, Flatten(u) \/ PrintRows(u) \/ Die(u)
      PROVE  Provisioned' /\ TempGoesFirst'
  <2>1. End(u) /\ UNCHANGED <<claim, temp>>
    BY <1>5 DEF Flatten, PrintRows, Die
  <2>2. pc'[u] = "idle"
    BY <2>1 DEF End
  <2>3. \A w \in Users : w # u => pc'[w] = pc[w] /\ cmd'[w] = cmd[w] /\ failed'[w] = failed[w]
    BY <2>1 DEF End
  <2>4. Provisioned'
    <3> SUFFICES ASSUME NEW w \in Users, w # u,
                        pc[w] \in {"getPV", "status", "info", "trash", "flatten"}
                 PROVE  claim'[cmd'[w].volume] \in {"bound", "deleting", "gone"}
      BY <2>2, <2>3
    <3> QED
      BY <2>1, <2>3
  <2>5. TempGoesFirst'
    <3> SUFFICES ASSUME NEW w \in Users, w # u, pc[w] = "flatten", ~failed[w],
                        Source[cmd[w].volume] = "PersistentVolumeClaim"
                 PROVE  temp'[cmd'[w].volume] # "pool"
      BY <2>2, <2>3
    <3> QED
      BY <2>1, <2>3
  <2> QED
    BY <2>4, <2>5
<1>6. ASSUME NEW u \in Users, BeginList(u) \/ ListSpaces(u) \/ ListImages(u)
      PROVE  Provisioned' /\ TempGoesFirst'
  BY <1>6 DEF BeginList, ListSpaces, ListImages
<1> QED
  BY <1>1, <1>2, <1>3, <1>4, <1>5, <1>6, <1>7, <1>8, <1>9, <1>10 DEF Next

\* A listing in progress is disturbed by its own steps alone.
LEMMA ListStep == TypeOK /\ ListedSoFar /\ [Next]_vars => ListedSoFar'
<1> SUFFICES ASSUME TypeOK, ListedSoFar, [Next]_vars, NEW w \in Users
             PROVE  /\ pc'[w] \notin {"listImages", "print"} => images'[w] = <<>>
                    /\ pc'[w] \in {"listImages", "print"} => Progress(w)'
                    /\ pc'[w] = "print" => spaces'[w] = <<>>
  BY DEF ListedSoFar
<1>1. CASE pc'[w] = pc[w] /\ pool'[w] = pool[w] /\ spaces'[w] = spaces[w] /\ images'[w] = images[w]
  BY <1>1 DEF ListedSoFar, Progress
<1>2. CASE /\ pc[w] \notin {"listImages", "print"} /\ pc'[w] \notin {"listImages", "print"}
           /\ images'[w] = images[w]
  BY <1>2 DEF ListedSoFar
<1>3. CASE End(w)
  BY <1>3 DEF End, TypeOK
<1>4. CASE ListSpaces(w)
  <2>1. PICK p \in Pools : pool'[w] = p /\ spaces'[w] = ToList(p)
    BY <1>4 DEF ListSpaces, TypeOK, ToList
  <2>2. images'[w] = <<>> /\ pc'[w] = "listImages"
    BY <1>4 DEF ListSpaces, Goto, TypeOK, ListedSoFar
  <2>3. Len(ToList(p)) \in Nat
    BY ToListType
  <2> QED
    BY <2>1, <2>2, <2>3 DEF Progress, ListedTo, Single
<1>5. CASE ListImages(w)
  <2>1. /\ Progress(w) /\ spaces[w] \in Seq(Spaces) /\ spaces[w] # <<>> /\ images[w] \in Seq(Entry)
        /\ pool'[w] = pool[w] /\ spaces'[w] = Tail(spaces[w])
        /\ images'[w] = images[w] \o GetRBDImages(Head(spaces[w]))
        /\ pc'[w] = IF Len(spaces[w]) = 1 THEN "print" ELSE "listImages"
    BY <1>5 DEF ListImages, Goto, TypeOK, ListedSoFar
  <2>2. Head(spaces[w]) \in Spaces
    BY <2>1
  <2>3. Len(spaces[w]) = 1 => Tail(spaces[w]) = <<>>
    <3> DEFINE s == spaces[w]
    <3>1. s \in Seq(Spaces) /\ s # <<>>
      BY <2>1
    <3> HIDE DEF s
    <3>2. Len(s) = 1 => Tail(s) \in Seq(Spaces) /\ Len(Tail(s)) = 0
      BY <3>1
    <3>3. \A t \in Seq(Spaces) : Len(t) = 0 => t = <<>>
      OBVIOUS
    <3>4. Len(s) = 1 => Tail(s) = <<>>
      BY <3>2, <3>3
    <3> QED
      BY <3>4 DEF s
  <2>4. ToList(pool[w]) \in Seq(Spaces)
    BY ToListType DEF TypeOK
  <2>5. LET l == GetRBDImages(Head(spaces[w]))
        IN l \in Seq(Entry) /\ Len(l) >= 1 /\ \A i \in 1..Len(l) : l[i].space = Head(spaces[w])
    BY <2>2, ListingType
  <2>6. ListedTo(ToList(pool[w]), Tail(spaces[w]), images[w] \o GetRBDImages(Head(spaces[w])))
    BY <2>1, <2>4, <2>5, OneMore DEF Progress
  <2>7. Progress(w)'
    BY <2>1, <2>6 DEF Progress, ToList
  <2> QED
    BY <2>1, <2>3, <2>7
<1>6. CASE UNCHANGED vars \/ Environment
  BY <1>6, <1>1 DEF vars, Environment, listVars
<1>7. ASSUME NEW u \in Users,
             BeginFlatten(u) \/ GetPVC(u) \/ GetPV(u) \/ Status(u) \/ Info(u) \/ Trash(u) \/ BeginList(u)
      PROVE  (pc'[w] = pc[w] \/ (/\ pc[w] \notin {"listImages", "print"}
                                 /\ pc'[w] \notin {"listImages", "print"}))
             /\ UNCHANGED listVars
  BY <1>7 DEF BeginFlatten, GetPVC, GetPV, Status, Info, Trash, BeginList, Goto, AfterCheck,
              TypeOK, listVars
<1>8. ASSUME NEW u \in Users, w # u, End(u) \/ ListSpaces(u) \/ ListImages(u)
      PROVE  pc'[w] = pc[w] /\ pool'[w] = pool[w] /\ spaces'[w] = spaces[w] /\ images'[w] = images[w]
  BY <1>8 DEF End, ListSpaces, ListImages, Goto, TypeOK
<1>9. ASSUME NEW u \in Users, Flatten(u) \/ PrintRows(u) \/ Die(u)
      PROVE  End(u)
  BY <1>9 DEF Flatten, PrintRows, Die
<1> QED
  BY <1>1, <1>2, <1>3, <1>4, <1>5, <1>6, <1>7, <1>8, <1>9 DEF Next, listVars

-----------------------------------------------------------------------------
(* The theorems. *)

\* The rows of a finished listing: every namespace was listed, in its order.
LEMMA ListedToTheEnd == TypeOK /\ ListedSoFar => RowsHaveImages
<1> SUFFICES ASSUME TypeOK, ListedSoFar, NEW u \in Users, pc[u] = "print"
             PROVE  /\ Len(images[u]) >= Len(NamespaceList[pool[u]])
                    /\ Single(images[u]) => \A i \in DOMAIN Rows(u) : Rows(u)[i] = images[u][i]
  BY DEF RowsHaveImages, Single
<1> DEFINE all == ToList(pool[u])
<1>1. /\ Progress(u) /\ spaces[u] = <<>> /\ images[u] \in Seq(Entry) /\ pool[u] \in Pools
      /\ NamespaceList[pool[u]] \in Seq(RadosNamespaces)
  BY VolumesAssumption DEF TypeOK, ListedSoFar
<1>2. all \in Seq(Spaces)
  BY <1>1, ToListType
<1>3. /\ Len(all) \in Nat /\ Len(all) - Len(spaces[u]) = Len(all)
      /\ Len(images[u]) \in Nat /\ Len(NamespaceList[pool[u]]) \in Nat
  BY <1>1, <1>2
<1>4. /\ Len(all) <= Len(images[u])
      /\ Single(images[u]) =>
           Len(images[u]) = Len(all) /\ \A i \in 1..Len(all) : images[u][i].space = all[i]
  BY <1>1, <1>3 DEF Progress, ListedTo
<1>5. \A i \in 1..Len(images[u]) :
        images[u][i] = [name |-> images[u][i].name, space |-> images[u][i].space]
  <2>1. \A e \in Entry : e = [name |-> e.name, space |-> e.space]
    BY DEF Entry
  <2>2. \A i \in 1..Len(images[u]) : images[u][i] \in Entry
    BY <1>1
  <2> QED
    BY <2>1, <2>2
<1>6. CASE NamespaceList[pool[u]] = <<>>
  <2>1. all = <<pool[u]>> /\ Len(all) = 1 /\ all[1] = pool[u]
    BY <1>6 DEF ToList
  <2>2. Rows(u) = [i \in 1..Len(images[u]) |-> [name |-> images[u][i].name, space |-> pool[u]]]
    BY <1>1, <1>6 DEF Rows
  <2> HIDE DEF all
  <2> QED
    BY <1>3, <1>4, <1>5, <1>6, <2>1, <2>2
<1>7. CASE NamespaceList[pool[u]] # <<>>
  <2>1. all = NamespaceList[pool[u]]
    BY <1>7 DEF ToList
  <2>2. Rows(u) = [i \in 1..Len(all) |-> [name |-> images[u][i].name, space |-> all[i]]]
    BY <1>1, <1>7, <2>1 DEF Rows
  <2> HIDE DEF all
  <2> QED
    BY <1>3, <1>4, <1>5, <2>1, <2>2
<1> QED
  BY <1>6, <1>7

THEOREM Inductive == Spec => []IInv
<1>1. IInv /\ [Next]_vars => IInv'
  BY TypeStep, TempStep, ListStep DEF IInv
<1> QED
  BY <1>1, InitIInv, PTL DEF Spec

\* Every variable stays within its type, whatever processes and owners do.
THEOREM TypeCorrect == Spec => []TypeOK
<1>1. IInv => TypeOK
  BY DEF IInv
<1> QED
  BY <1>1, Inductive, PTL

\* No image of a cloned PVC is flattened under its temporary image, however many
\* users flatten it and whenever it is deleted (deleteTempImage).
THEOREM TempGoesFirstHolds == Spec => []TempGoesFirst
<1>1. IInv => TempGoesFirst
  BY DEF IInv
<1> QED
  BY <1>1, Inductive, PTL

\* The index of printBlockPoolNames stays in range, and its rows are right while
\* no namespace has several images, for any pools and namespaces.
THEOREM RowsHaveImagesHolds == Spec => []RowsHaveImages
<1>1. IInv => RowsHaveImages
  BY ListedToTheEnd DEF IInv
<1> QED
  BY <1>1, Inductive, PTL
=============================================================================
