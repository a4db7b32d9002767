-------------------------- MODULE FollowLogsProofs --------------------------
(***************************************************************************)
(* Proofs about FollowLogs, for any pods, flags, delays and lengths of the *)
(* run: its types, and that no line is printed more than twice; and while  *)
(* streams are at most a second late, that none is skipped and that a      *)
(* replacement pod is read from its beginning.                             *)
(***************************************************************************)
EXTENDS FollowLogs, TLAPS

\* Lines are from the past.
LogInPast == \A p \in Pods : \A t \in Seconds : log[p][t] > 0 => t < now

\* A stream is established Interval after the last one ended, or later.
ReadLongAgo ==
  /\ lastRead <= now
  /\ pc = "wait" => wake >= lastRead + Interval
  /\ pc \in {"find", "open", "copy"} /\ lastPod # NoPod => now >= lastRead + Interval

\* Between two streams: what was printed is older than the end of the last one, what was
\* printed twice, older than the overlap.
Checkpoint ==
  pc # "copy" => \A t \in Seconds : /\ copies[t] > 0 => t < lastRead
                                    /\ copies[t] > 1 => t + 1 < lastRead

\* During one: what it has still to deliver is new to the pod, or in the overlap.
Overlap ==
  pc = "copy" => stream.inst > 0 /\ \A t \in Seconds :
    /\ copies[t] > 0 => t < now
    /\ copies[t] > 1 => t + 1 < now /\ t < stream.next
    /\ copies[t] > 0 /\ t >= stream.next => pod = lastPod /\ t < lastRead

IInv ==
  /\ TypeOK /\ AtMostTwice
  /\ LogInPast /\ ReadLongAgo /\ Checkpoint /\ Overlap

-----------------------------------------------------------------------------
(* Type correctness. *)

\* Where an iteration ends, it fails or waits.
LEMMA ErrorOutType ==
  ASSUME TypeOK, ErrorOut
  PROVE  pc' \in {"wait", "failed"} /\ attempt' \in 0..1 /\ wake' \in 0..(MaxTime + Interval)
BY LogsAssumption DEF TypeOK, ErrorOut, WaitBeforeReconnect, Interval

\* A stream begins at a line that was asked for, or now when there is none yet.
LEMMA StreamBegins ==
  ASSUME TypeOK, NEW p \in Pods, NEW o, NEW s \in StreamOf(p, o), s.inst > 0
  PROVE  /\ s \in [inst : 0..MaxStarts, next : 0..MaxTime, until : 0..MaxTime]
         /\ \/ s.next = now
            \/ s.next \in Seconds /\ log[p][s.next] = s.inst /\ s.next >= o.sinceTime
<1> DEFINE i == IF o.previous THEN instance[p] - 1 ELSE instance[p]
           found == Selected(p, i, o)
<1>1. /\ s = [inst |-> s.inst, next |-> s.next, until |-> s.until]
      /\ s.inst = i /\ s.until \in {now, MaxTime}
      /\ s.next = now \/ s.next \in found
  BY DEF StreamOf, Oldest
<1>2. i \in 0..MaxStarts
  BY <1>1, LogsAssumption DEF TypeOK
<1>3. s.next \in found => s.next \in Seconds /\ log[p][s.next] = i /\ s.next >= o.sinceTime
  BY DEF Selected, Lines
<1>4. Seconds \subseteq 0..MaxTime /\ now \in 0..MaxTime /\ MaxTime \in 0..MaxTime
  BY LogsAssumption DEF Seconds, TypeOK
<1> HIDE DEF i, found
<1> QED BY <1>1, <1>2, <1>3, <1>4

\* The first state is well typed.
LEMMA InitTypeOK == Init => TypeOK
<1> SUFFICES ASSUME Init PROVE TypeOK
  OBVIOUS
<1> USE LogsAssumption
<1>1. PICK p \in Pods : /\ life = [q \in Pods |-> IF q = p THEN "there" ELSE "unborn"]
                       /\ instance = [q \in Pods |-> IF q = p THEN 1 ELSE 0]
                       /\ up = {p}
  BY DEF Init
<1>2. /\ life \in [Pods -> {"unborn", "there", "terminating", "gone"}]
      /\ instance \in [Pods -> 0..MaxStarts] /\ up \subseteq Pods
  BY <1>1
<1>3. log \in [Pods -> [Seconds -> 0..MaxStarts]] /\ copies \in [Seconds -> 0..3]
  BY DEF Init, NoLines, NoCopies
<1>4. stream \in [inst : 0..MaxStarts, next : 0..MaxTime, until : 0..MaxTime]
  BY DEF Init, NoStream
<1>5. switched \in BOOLEAN
  BY Zenon DEF Init
<1>6. /\ now \in 0..MaxTime /\ lastRead \in 0..MaxTime /\ wake \in 0..(MaxTime + Interval)
      /\ pc = "find" /\ opts \in Options /\ attempt \in 0..1
      /\ unread \in 0..(MaxStarts + 1) /\ missed \subseteq Seconds
      /\ pod \in Pods \cup {NoPod} /\ lastPod \in Pods \cup {NoPod}
  BY DEF Init, Interval
<1> QED BY <1>2, <1>3, <1>4, <1>5, <1>6 DEF TypeOK

\* Steps of the cluster keep the types.
LEMMA EnvironmentTypeOK == TypeOK /\ Environment => TypeOK'
<1> SUFFICES ASSUME TypeOK, Environment PROVE TypeOK'
  OBVIOUS
<1> USE LogsAssumption DEF TypeOK, cluster, process, history
<1>1. CASE Tick
  <2>1. log' \in [Pods -> [Seconds -> 0..MaxStarts]] /\ now' \in 0..MaxTime
    <3>1. now' \in 0..MaxTime /\ now \in Seconds
      BY <1>1 DEF Tick, Seconds
    <3>2. \A p \in Pods : [log[p] EXCEPT ![now] = instance[p]] \in [Seconds -> 0..MaxStarts]
      BY <3>1
    <3> QED BY <1>1, <3>1, <3>2 DEF Tick
  <2> QED BY <1>1, <2>1 DEF Tick
<1>2. ASSUME NEW p \in Pods, Schedule(p) \/ Terminate(p) \/ Crash(p) PROVE TypeOK'
  BY <1>2 DEF Schedule, Terminate, Crash
<1>3. ASSUME NEW p \in Pods, Start(p) PROVE TypeOK'
  <2>1. instance[p] < MaxStarts
    BY <1>3 DEF Start
  <2> QED BY <1>3, <2>1 DEF Start
<1>4. ASSUME NEW p \in Pods, Remove(p) PROVE TypeOK'
  BY <1>4 DEF Remove, NoLines
<1> QED BY <1>1, <1>2, <1>3, <1>4 DEF Environment

\* Every step of the process and of the cluster keeps the types.
LEMMA StepTypeOK == TypeOK /\ [Next]_vars => TypeOK'
<1> SUFFICES ASSUME TypeOK, [Next]_vars PROVE TypeOK'
  OBVIOUS
<1> USE LogsAssumption DEF TypeOK, cluster, process, history
<1>1. CASE FindPodForLogs
  <2>1. CASE ErrorOut /\ pod' = pod
    BY <1>1, <2>1, ErrorOutType DEF FindPodForLogs
  <2>2. CASE pod' \in Existing /\ pc' = "open" /\ attempt' = attempt /\ wake' = wake
    BY <1>1, <2>2 DEF FindPodForLogs, Existing
  <2> QED BY <1>1, <2>1, <2>2 DEF FindPodForLogs, Preferred
<1>2. CASE Open
  <2>1. stream' \in [inst : 0..MaxStarts, next : 0..MaxTime, until : 0..MaxTime]
    BY <1>2, StreamBegins DEF Open
  <2>2. copies' \in [Seconds -> 0..3]
    BY <1>2 DEF Open, NoCopies
  <2>3. switched' \in BOOLEAN
    BY <1>2, Zenon DEF Open
  <2>4. missed' \subseteq Seconds
    BY <1>2 DEF Open, Missed
  <2> QED BY <1>2, <2>1, <2>2, <2>3, <2>4 DEF Open
<1>3. CASE OpenFails
  BY <1>3, ErrorOutType DEF OpenFails
<1>4. ASSUME NEW t \in Seconds, PrintLine(t) PROVE TypeOK'
  <2>1. t + 1 \in 0..MaxTime
    BY DEF Seconds
  <2> QED BY <1>4, <2>1 DEF PrintLine
<1>5. CASE StreamEnds
  <2>1. pc' \in {"wait", "done"} /\ attempt' \in 0..1 /\ wake' \in 0..(MaxTime + Interval)
    BY <1>5 DEF StreamEnds, WaitBeforeReconnect, Interval
  <2>2. unread' \in 0..(MaxStarts + 1)
    BY <1>5 DEF StreamEnds
  <2> QED BY <1>5, <2>1, <2>2 DEF StreamEnds, Opened, NoStream
<1>6. CASE StreamBreaks
  BY <1>6, ErrorOutType DEF StreamBreaks, Opened, NoStream
<1>7. CASE Reconnect
  BY <1>7 DEF Reconnect, Interval
<1>8. CASE Environment
  BY <1>8, EnvironmentTypeOK
<1>9. CASE UNCHANGED vars
  BY <1>9 DEF vars
<1> QED BY <1>1, <1>2, <1>3, <1>4, <1>5, <1>6, <1>7, <1>8, <1>9 DEF Next

\* The type invariant holds in every reachable state.
THEOREM TypeCorrect == Spec => []TypeOK
<1>1. Init => TypeOK
  BY InitTypeOK
<1>2. TypeOK /\ [Next]_vars => TypeOK'
  BY StepTypeOK
<1> QED BY <1>1, <1>2, PTL DEF Spec

-----------------------------------------------------------------------------
(* No line is printed more than twice. *)

\* The invariant holds in the first state.
LEMMA InitIInv == Init => IInv
<1> SUFFICES ASSUME Init PROVE IInv
  OBVIOUS
<1>1. TypeOK
  BY InitTypeOK
<1> QED BY <1>1, LogsAssumption
  DEF Init, IInv, AtMostTwice, LogInPast, ReadLongAgo, Checkpoint, Overlap, NoLines, NoCopies

\* Steps of the cluster preserve it: time and the log only grow.
LEMMA EnvironmentIInv == IInv /\ Environment => IInv'
<1> SUFFICES ASSUME IInv, Environment PROVE IInv'
  OBVIOUS
<1>0. TypeOK /\ TypeOK'
  BY EnvironmentTypeOK DEF IInv
<1>1. now \in Int /\ now' \in Int /\ Seconds \subseteq Int /\ lastRead \in Int
  BY <1>0, LogsAssumption DEF TypeOK, Seconds
<1>2. UNCHANGED <<process, history>> /\ now' >= now
  <2>1. CASE Tick
    BY <1>1, <2>1 DEF Tick
  <2>2. ASSUME NEW p \in Pods, Schedule(p) \/ Start(p) \/ Crash(p) \/ Terminate(p) \/ Remove(p)
        PROVE  UNCHANGED <<process, history>> /\ now' >= now
    BY <1>1, <2>2 DEF Schedule, Start, Crash, Terminate, Remove
  <2> QED BY <2>1, <2>2, Zenon DEF Environment
<1>3. ReadLongAgo'
  BY <1>1, <1>2 DEF IInv, ReadLongAgo, process, Interval
<1>4. AtMostTwice' /\ Checkpoint'
  BY <1>2 DEF IInv, AtMostTwice, Checkpoint, process, history
<1>5. Overlap'
  BY <1>1, <1>2 DEF IInv, Overlap, process, history
<1>6. ASSUME NEW p \in Pods, NEW t \in Seconds, log'[p][t] > 0 PROVE t < now'
  <2>1. log[p][t] > 0 => t < now
    BY DEF IInv, LogInPast
  <2>2. CASE Tick
    <3>1. now' = now + 1 /\ (log'[p][t] = log[p][t] \/ t = now)
      BY <1>0, <2>2 DEF Tick, TypeOK
    <3> QED BY <1>1, <1>6, <2>1, <3>1
  <2>3. ASSUME NEW q \in Pods, Schedule(q) \/ Start(q) \/ Crash(q) \/ Terminate(q) PROVE t < now'
    BY <1>6, <2>1, <2>3 DEF Schedule, Start, Crash, Terminate
  <2>4. ASSUME NEW q \in Pods, Remove(q) PROVE t < now'
    <3>1. now' = now /\ (log'[p][t] = log[p][t] \/ log'[p][t] = 0)
      BY <1>0, <2>4 DEF Remove, NoLines, TypeOK
    <3> QED BY <1>6, <2>1, <3>1
  <2> QED BY <2>2, <2>3, <2>4 DEF Environment
<1> QED BY <1>0, <1>3, <1>4, <1>5, <1>6 DEF IInv, LogInPast

\* An iteration that ends now with an error, or with the end of a stream, waits from now on.
LEMMA WaitsFromNow ==
  ASSUME ErrorOut \/ WaitBeforeReconnect
  PROVE  pc' \in {"wait", "failed"} /\ (pc' = "wait" => wake' = now + Interval)
BY DEF ErrorOut, WaitBeforeReconnect

\* The end of a stream makes what it overlapped old enough: it was established Interval
\* after the one before.
LEMMA StreamOver ==
  ASSUME IInv, pc = "copy", Opened, UNCHANGED <<now, log, copies>>,
         pc' \in {"wait", "failed", "done"}, pc' = "wait" => wake' = now + Interval, TypeOK'
  PROVE  IInv'
<1>1. TypeOK
  BY DEF IInv
<1>2. AtMostTwice' /\ LogInPast' /\ ReadLongAgo' /\ Overlap'
  BY <1>1 DEF IInv, AtMostTwice, LogInPast, ReadLongAgo, Overlap, Opened, TypeOK
<1>3. Checkpoint'
  BY <1>1 DEF IInv, Checkpoint, Overlap, Opened
<1> QED BY <1>2, <1>3 DEF IInv

\* Every step preserves it.
LEMMA StepIInv == IInv /\ [Next]_vars => IInv'
<1> SUFFICES ASSUME IInv, [Next]_vars PROVE IInv'
  OBVIOUS
<1>0. TypeOK /\ TypeOK'
  BY StepTypeOK DEF IInv
<1> USE LogsAssumption
<1>1. CASE FindPodForLogs \/ OpenFails
  <2>1. /\ pc \in {"find", "open"} /\ pc' \in {"open", "wait", "failed"}
        /\ pc' = "wait" => wake' = now + Interval
        /\ UNCHANGED <<now, log, lastPod, lastRead, stream, history>>
    BY <1>1, WaitsFromNow DEF FindPodForLogs, OpenFails
  <2> QED BY <1>0, <2>1
    DEF IInv, AtMostTwice, LogInPast, ReadLongAgo, Checkpoint, Overlap, history, TypeOK, Interval
<1>2. CASE Open
  <2>1. /\ pc = "open" /\ pc' = "copy" /\ UNCHANGED <<now, log, pod, lastPod, lastRead>>
        /\ pod \in Pods /\ stream' \in StreamOf(pod, ReconnectOptions) /\ stream'.inst > 0
    BY <1>2 DEF Open, Existing
  <2>2. LogInPast' /\ ReadLongAgo' /\ Checkpoint'
    BY <2>1 DEF IInv, LogInPast, ReadLongAgo, Checkpoint
  <2>3. CASE pod = lastPod
    <3>1. ReconnectOptions.sinceTime = lastRead - 1
      BY <2>1, <2>3 DEF ReconnectOptions, LogOptions
    <3>2. stream'.next >= lastRead - 1
      BY <1>0, <2>1, <3>1, StreamBegins DEF IInv, ReadLongAgo, TypeOK
    <3>3. now >= lastRead + Interval /\ copies' = copies
      BY <1>2, <2>1, <2>3 DEF Open, history, IInv, ReadLongAgo
    <3>4. AtMostTwice'
      BY <3>3 DEF IInv, AtMostTwice
    <3>5. /\ now \in Int /\ lastRead \in Int /\ stream'.next \in Int /\ Seconds \subseteq Int
          /\ copies \in [Seconds -> 0..3]
      BY <1>0 DEF TypeOK, Seconds
    <3>6. ASSUME NEW t \in Seconds
          PROVE  /\ copies[t] > 0 => t < now /\ t < lastRead
                 /\ copies[t] > 1 => t + 1 < now /\ t < stream'.next
      BY <2>1, <3>2, <3>3, <3>5 DEF IInv, Checkpoint, Interval
    <3>7. Overlap'
      BY <2>1, <2>3, <3>3, <3>6 DEF Overlap
    <3> QED BY <1>0, <2>2, <3>4, <3>7 DEF IInv
  <2>4. CASE pod # lastPod
    <3>1. \A t \in Seconds : copies'[t] = 0
      BY <1>2, <2>4 DEF Open, NoCopies
    <3>2. AtMostTwice' /\ Overlap'
      BY <2>1, <3>1 DEF AtMostTwice, Overlap
    <3> QED BY <1>0, <2>2, <3>2 DEF IInv
  <2> QED BY <2>3, <2>4
<1>3. ASSUME NEW t \in Seconds, PrintLine(t) PROVE IInv'
  <2>1. /\ pc = "copy" /\ UNCHANGED <<now, log, pc, pod, lastPod, lastRead, wake>>
        /\ t >= stream.next /\ log[pod][t] = stream.inst /\ stream'.next = t + 1
        /\ \A u \in Seconds \ {t} : copies'[u] = copies[u]
        /\ copies'[t] = IF copies[t] < 3 THEN copies[t] + 1 ELSE copies[t]
    BY <1>0, <1>3 DEF PrintLine, Pending, Lines, TypeOK
  <2>2. t < now
    BY <1>0, <2>1 DEF IInv, LogInPast, Overlap, TypeOK
  <2>3. /\ now \in Int /\ lastRead \in Int /\ stream.next \in Int /\ Seconds \subseteq Int
        /\ copies \in [Seconds -> 0..3]
    BY <1>0 DEF TypeOK, Seconds
  <2>4. copies[t] <= 1 /\ (copies[t] = 1 => t + 1 < now)
    BY <2>1, <2>3 DEF IInv, Overlap, ReadLongAgo, Interval, TypeOK
  <2>5. AtMostTwice'
    BY <2>1, <2>3, <2>4 DEF IInv, AtMostTwice
  <2>6. LogInPast' /\ ReadLongAgo' /\ Checkpoint'
    BY <2>1 DEF IInv, LogInPast, ReadLongAgo, Checkpoint
  <2>7. ASSUME NEW u \in Seconds
        PROVE  /\ copies'[u] > 0 => u < now
               /\ copies'[u] > 1 => u + 1 < now /\ u < t + 1
               /\ copies'[u] > 0 /\ u >= t + 1 => pod = lastPod /\ u < lastRead
    BY <2>1, <2>2, <2>3, <2>4 DEF IInv, Overlap
  <2>8. Overlap'
    BY <1>3, <2>1, <2>7 DEF IInv, Overlap, PrintLine
  <2> QED BY <1>0, <2>5, <2>6, <2>8 DEF IInv
<1>4. CASE StreamEnds
  BY <1>0, <1>4, StreamOver, WaitsFromNow DEF StreamEnds
<1>5. CASE StreamBreaks
  BY <1>0, <1>5, StreamOver, WaitsFromNow DEF StreamBreaks
<1>6. CASE Reconnect
  BY <1>0, <1>6 DEF Reconnect, IInv, AtMostTwice, LogInPast, ReadLongAgo, Checkpoint, Overlap,
    history, TypeOK, Interval
<1>7. CASE Environment
  BY <1>7, EnvironmentIInv
<1>8. CASE UNCHANGED vars
  BY <1>0, <1>8 DEF vars, cluster, process, history, IInv, AtMostTwice, LogInPast, ReadLongAgo,
    Checkpoint, Overlap
<1> QED BY <1>1, <1>2, <1>3, <1>4, <1>5, <1>6, <1>7, <1>8 DEF Next

\* However often the stream is established again, and whatever happens to the pods, no line
\* is printed more than twice before the process turns to another pod.
THEOREM AtMostTwiceHolds == Spec => []AtMostTwice
<1>1. Init => IInv
  BY InitIInv
<1>2. IInv /\ [Next]_vars => IInv'
  BY StepIInv
<1>3. IInv => AtMostTwice
  BY DEF IInv
<1> QED BY <1>1, <1>2, <1>3, PTL DEF Spec
-----------------------------------------------------------------------------
(* No line of an instance is missing between two that were printed, when what is lost at
   the end of a stream is no older than what the next one repeats: Lag = 1. *)

\* What should have been printed by the time a line is that comes after it.
Due(v) ==
  \/ switched /\ opts.since = 0
  \/ \E t \in Printed : t <= v /\ (opts.previous => log[Followed][t] = log[Followed][v])

Whole ==
  \A u \in Printed : \A v \in Seconds : v <= u /\ SameInstance(v, u) /\ Due(v) => v \in Printed

\* The instances of a container log one after the other.
Ordered ==
  \A p \in Pods : \A t \in Seconds :
    /\ log[p][t] <= instance[p]
    /\ \A u \in Seconds : t <= u /\ log[p][u] > 0 => log[p][t] <= log[p][u]

First == lastPod = NoPod => ~switched /\ lastRead = 0

\* The log of the previous instance is shown, the only stream not of the current one.
FirstPrevious == opts.previous /\ lastPod = NoPod

Streaming == pc = "copy" =>
  /\ stream.next <= now /\ stream.inst <= instance[pod]
  /\ opts.follow => stream.until = MaxTime
  /\ pod = lastPod => stream.next >= lastRead - 1
  /\ \A v \in Seconds :
       v < stream.next /\ log[pod][v] = stream.inst /\ Due(v) => v \in Printed

\* What a stream leaves to the next one, because another instance logged it.
Later == pc = "copy" =>
  /\ FirstPrevious => /\ stream.inst < instance[pod]
                      /\ \A t \in Printed : log[pod][t] \in {0, stream.inst}
  /\ ~FirstPrevious => \A v \in Seconds : log[pod][v] > stream.inst =>
       v >= stream.next /\ (opts.follow => v >= now - Lag)

\* Between two streams nothing is missing that the next one does not ask for.
Between ==
  pc \in {"find", "open", "wait"} /\ lastPod # NoPod =>
    /\ opts.follow /\ instance[lastPod] > 0
    /\ \A v \in Seconds :
         v < lastRead - 1 /\ log[lastPod][v] = instance[lastPod] /\ Due(v) => v \in Printed

WInv == IInv /\ Whole /\ Ordered /\ First /\ Streaming /\ Later /\ Between

\* A replacement is read whole, as Whole says.
LEMMA WholeIsEnough == WInv => ReplacementIsReadWhole
<1> SUFFICES ASSUME WInv, switched, opts.since = 0, NEW u \in Printed, NEW t \in 0..u,
                    SameInstance(t, u)
             PROVE  t \in Printed
  BY DEF ReplacementIsReadWhole
<1>1. t \in Seconds /\ t <= u
  BY LogsAssumption DEF Printed, Seconds
<1> QED BY <1>1 DEF WInv, Whole, Due

\* What was printed is of a pod.
LEMMA PrintedOfPod ==
  ASSUME WInv, NEW t \in Printed
  PROVE  Followed \in Pods /\ t \in Seconds /\ t < now
<1>1. t \in Seconds /\ copies[t] > 0 /\ t \in Nat /\ now \in Nat /\ lastRead \in Nat
  BY LogsAssumption DEF Printed, Seconds, WInv, IInv, TypeOK
<1>2. CASE pc = "copy"
  BY <1>1, <1>2 DEF WInv, IInv, TypeOK, Overlap, Followed
<1>3. CASE pc # "copy"
  <2>1. t < lastRead /\ lastRead <= now
    BY <1>1, <1>3 DEF WInv, IInv, Checkpoint, ReadLongAgo
  <2>2. lastPod # NoPod
    BY <1>1, <2>1 DEF WInv, First
  <2> QED BY <1>1, <1>3, <2>1, <2>2 DEF WInv, IInv, TypeOK, Followed
<1> QED BY <1>2, <1>3

\* Steps that change neither the logs nor what was printed.
LEMMA QuietStep ==
  ASSUME WInv, UNCHANGED <<log, instance, lastPod, lastRead, opts, history>>, now' = now,
         IInv', Followed' = Followed,
         \/ UNCHANGED <<pc, pod, stream>>
         \/ pc # "copy" /\ pc' # "copy"
            /\ (pc' \in {"find", "open", "wait"} => pc \in {"find", "open", "wait"})
  PROVE  WInv'
<1>1. \A v : Due(v)' = Due(v)
  BY DEF Due, Printed, history
<1>2. Printed' = Printed
  BY DEF Printed, history
<1>3. Whole' /\ Ordered' /\ First'
  BY <1>1, <1>2 DEF WInv, Whole, Ordered, First, SameInstance, history
<1>4. Streaming' /\ Later'
  BY <1>1, <1>2 DEF WInv, Streaming, Later, FirstPrevious
<1>5. Between'
  BY <1>1, <1>2 DEF WInv, Between
<1> QED BY <1>3, <1>4, <1>5 DEF WInv
\* The logs of the cluster, as far as they go, change only when a pod is removed.
LEMMA LogSteps ==
  ASSUME WInv, Environment
  PROVE  /\ UNCHANGED <<process, history>> /\ pc \notin {"done", "failed"}
         /\ \/ /\ now' = now + 1 /\ instance' = instance /\ now \in Seconds
               /\ \A p \in Pods : \A t \in Seconds : log'[p][t] =
                    IF t = now /\ p \in up THEN instance[p] ELSE log[p][t]
               /\ pc = "copy" /\ opts.follow => OnTime(now')
            \/ /\ now' = now /\ log' = log
               /\ \A p \in Pods : instance'[p] \in {instance[p], instance[p] + 1}
            \/ /\ now' = now /\ instance' = instance
               /\ \A p \in Pods : log'[p] = log[p] \/ \A t \in Seconds : log'[p][t] = 0
<1>0. /\ log \in [Pods -> [Seconds -> 0..MaxStarts]] /\ instance \in [Pods -> 0..MaxStarts]
      /\ now \in 0..MaxTime
  BY DEF WInv, IInv, TypeOK
<1>1. CASE Tick
  <2>1. now \in Seconds
    BY <1>0, <1>1, LogsAssumption DEF Tick, Seconds
  <2>2. log' = [p \in Pods |-> IF p \in up THEN [log[p] EXCEPT ![now] = instance[p]] ELSE log[p]]
    BY <1>1 DEF Tick
  <2>3. \A p \in Pods : \A t \in Seconds : log'[p][t] =
          IF t = now /\ p \in up THEN instance[p] ELSE log[p][t]
    BY <1>0, <2>1, <2>2
  <2> QED BY <1>1, <2>1, <2>3 DEF Tick, cluster, Environment
<1>2. ASSUME NEW p \in Pods, Schedule(p) \/ Crash(p) \/ Terminate(p) \/ Start(p)
      PROVE  /\ now' = now /\ log' = log /\ UNCHANGED <<process, history>>
             /\ \A q \in Pods : instance'[q] \in {instance[q], instance[q] + 1}
  BY <1>0, <1>2 DEF Schedule, Crash, Terminate, Start
<1>3. ASSUME NEW p \in Pods, Remove(p)
      PROVE  /\ now' = now /\ instance' = instance /\ UNCHANGED <<process, history>>
             /\ \A q \in Pods : log'[q] = log[q] \/ \A t \in Seconds : log'[q][t] = 0
  BY <1>0, <1>3 DEF Remove, NoLines
<1> QED BY <1>1, <1>2, <1>3 DEF Environment

\* Steps of the cluster: a new line is the newest.
LEMMA TickWInv ==
  ASSUME WInv, IInv', UNCHANGED <<process, history>>, now' = now + 1, instance' = instance,
         now \in Seconds,
         \A p \in Pods : \A t \in Seconds :
           log'[p][t] = IF t = now /\ p \in up THEN instance[p] ELSE log[p][t],
         pc = "copy" /\ opts.follow => OnTime(now')
  PROVE  WInv'
<1>a. /\ log \in [Pods -> [Seconds -> 0..MaxStarts]] /\ instance \in [Pods -> 0..MaxStarts]
      /\ now \in 0..MaxTime /\ lastRead \in 0..MaxTime
      /\ stream.next \in 0..MaxTime /\ stream.inst \in 0..MaxStarts
  BY DEF WInv, IInv, TypeOK
<1>b. Seconds \subseteq Nat /\ MaxTime \in Nat /\ MaxStarts \in Nat /\ Lag \in Nat \ {0}
  BY LogsAssumption DEF Seconds
<1>c. lastRead <= now
  BY DEF WInv, IInv, ReadLongAgo
<1>d. \A p \in Pods : instance[p] \in Nat /\ \A t \in Seconds : log[p][t] \in Nat
  <2>1. 0..MaxStarts \subseteq Nat
    OBVIOUS
  <2>2. \A p \in Pods : instance[p] \in 0..MaxStarts /\ log[p] \in [Seconds -> 0..MaxStarts]
    BY <1>a
  <2> QED BY <2>1, <2>2
<1>e. \A p \in Pods : \A t \in Seconds :
        /\ log'[p][t] \in Nat
        /\ t # now => log'[p][t] = log[p][t]
        /\ t = now => log'[p][t] \in {log[p][t], instance[p]}
  BY <1>d
<1>0. now \in Nat /\ lastRead \in Nat /\ stream.next \in Nat /\ stream.inst \in Nat
  BY <1>a, <1>b
<1>1. Printed' = Printed /\ Followed' = Followed
  BY DEF Printed, Followed, process, history
<1>2. ASSUME NEW v \in Seconds, v < now PROVE Due(v)' => Due(v)
  <2>1. \A t \in Printed : t \in Seconds /\ t < now /\ Followed \in Pods
    BY PrintedOfPod
  <2>2. \A t \in Printed : /\ log'[Followed][t] = log[Followed][t]
                          /\ log'[Followed][v] = log[Followed][v]
    BY <1>0, <1>2, <1>b, <1>e, <2>1
  <2> QED BY <1>1, <2>2 DEF Due, process, history
<1>3. Whole'
  <2> SUFFICES ASSUME NEW u \in Printed, NEW v \in Seconds, v <= u, SameInstance(v, u)', Due(v)'
               PROVE  v \in Printed
    BY <1>1 DEF Whole
  <2>1. Followed \in Pods /\ u \in Seconds /\ u < now /\ v < now
    <3>1. Followed \in Pods /\ u \in Seconds /\ u < now
      BY PrintedOfPod
    <3>2. u \in Nat /\ v \in Nat
      BY <1>b, <3>1
    <3> QED BY <1>0, <3>1, <3>2
  <2>2. SameInstance(v, u)
    <3>1. u # now /\ v # now
      BY <1>0, <2>1
    <3>2. log'[Followed][v] = log[Followed][v] /\ log'[Followed][u] = log[Followed][u]
      BY <1>e, <2>1, <3>1
    <3> QED BY <1>1, <3>2 DEF SameInstance
  <2> QED BY <1>2, <2>1, <2>2 DEF WInv, Whole
<1>4. Ordered'
  <2> SUFFICES ASSUME NEW p \in Pods, NEW t \in Seconds
               PROVE  /\ log'[p][t] <= instance[p]
                      /\ \A u \in Seconds : t <= u /\ log'[p][u] > 0 => log'[p][t] <= log'[p][u]
    BY DEF Ordered
  <2>1. log[p][t] <= instance[p]
    BY DEF WInv, Ordered
  <2>2. ASSUME NEW u \in Seconds, t <= u, log'[p][u] > 0 PROVE log'[p][t] <= log'[p][u]
    <3>1. log[p][u] > 0 => u < now /\ log[p][t] <= log[p][u]
      BY <2>2 DEF WInv, Ordered, IInv, LogInPast
    <3>2. CASE u = now
      <4>1. CASE p \in up
        BY <1>d, <1>e, <2>1, <3>2, <4>1
      <4>2. CASE p \notin up
        BY <1>e, <2>2, <3>1, <3>2, <4>2
      <4> QED BY <4>1, <4>2
    <3>3. CASE u # now
      <4>1. u < now /\ log[p][t] <= log[p][u] /\ log'[p][u] = log[p][u]
        BY <1>e, <2>2, <3>1, <3>3
      <4>2. t # now
        <5>1. t \in Nat /\ u \in Nat
          BY <1>b
        <5> QED BY <1>0, <2>2, <4>1, <5>1
      <4> QED BY <1>e, <4>1, <4>2
    <3> QED BY <3>2, <3>3
  <2> QED BY <1>d, <1>e, <2>1, <2>2
<1>5. First'
  BY DEF WInv, First, process, history
<1>6. Streaming'
  <2> SUFFICES ASSUME pc = "copy"
               PROVE  /\ stream.next <= now' /\ stream.inst <= instance[pod]
                      /\ opts.follow => stream.until = MaxTime
                      /\ pod = lastPod => stream.next >= lastRead - 1
                      /\ \A v \in Seconds : v < stream.next /\ log'[pod][v] = stream.inst /\ Due(v)'
                           => v \in Printed
    BY <1>1 DEF Streaming, process
  <2>1. pod \in Pods
    BY DEF WInv, IInv, TypeOK
  <2>2. \A v \in Seconds : v < stream.next => v < now /\ log'[pod][v] = log[pod][v]
    <3> SUFFICES ASSUME NEW v \in Seconds, v < stream.next
                 PROVE  v < now /\ log'[pod][v] = log[pod][v]
      OBVIOUS
    <3>1. stream.next <= now
      BY DEF WInv, Streaming
    <3>2. v \in Nat
      BY <1>b
    <3>3. v < now /\ v # now
      BY <1>0, <3>1, <3>2
    <3> QED BY <1>e, <2>1, <3>3
  <2> QED BY <1>0, <1>2, <2>2 DEF WInv, Streaming
<1>7. Later'
  <2> SUFFICES ASSUME pc = "copy"
               PROVE  /\ FirstPrevious => /\ stream.inst < instance[pod]
                                          /\ \A t \in Printed : log'[pod][t] \in {0, stream.inst}
                      /\ ~FirstPrevious => \A v \in Seconds : log'[pod][v] > stream.inst =>
                           v >= stream.next /\ (opts.follow => v >= now' - Lag)
    BY <1>1 DEF Later, FirstPrevious, process
  <2>1. pod \in Pods
    BY DEF WInv, IInv, TypeOK
  <2>2. \A t \in Printed : log'[pod][t] = log[pod][t]
    <3>1. \A t \in Printed : t \in Seconds /\ t < now
      BY PrintedOfPod
    <3>2. \A t \in Printed : t # now
      BY <1>0, <3>1
    <3> QED BY <1>e, <2>1, <3>1, <3>2
  <2>3. ASSUME ~FirstPrevious, NEW v \in Seconds, log'[pod][v] > stream.inst
        PROVE  v >= stream.next /\ (opts.follow => v >= now' - Lag)
    <3>1. CASE v = now
      <4>1. stream.next <= now
        BY DEF WInv, Streaming
      <4> QED BY <1>0, <1>b, <3>1, <4>1
    <3>2. CASE v # now
      <4>1. log[pod][v] > stream.inst
        BY <1>e, <2>1, <2>3, <3>2
      <4>2. v >= stream.next
        BY <2>3, <4>1 DEF WInv, Later
      <4>3. opts.follow => v >= now' - Lag
        <5>1. opts.follow => OnTime(now')
          BY DEF WInv
        <5>2. opts.follow => \A x \in Seconds :
                log[pod][x] >= stream.inst /\ x >= stream.next => x >= now' - Lag
          BY <2>3, <5>1 DEF OnTime, FirstPrevious
        <5>3. log[pod][v] >= stream.inst
          <6>1. log[pod][v] \in Nat
            BY <1>d, <2>1
          <6> QED BY <1>0, <4>1, <6>1
        <5> QED BY <4>2, <5>2, <5>3
      <4> QED BY <4>2, <4>3
    <3> QED BY <3>1, <3>2
  <2> QED BY <2>2, <2>3 DEF WInv, Later
<1>8. Between'
  <2> SUFFICES ASSUME pc \in {"find", "open", "wait"}, lastPod # NoPod
               PROVE  /\ opts.follow /\ instance[lastPod] > 0
                      /\ \A v \in Seconds : v < lastRead - 1 /\ log'[lastPod][v] = instance[lastPod]
                           /\ Due(v)' => v \in Printed
    BY <1>1 DEF Between, process
  <2>1. lastPod \in Pods
    BY DEF WInv, IInv, TypeOK
  <2>2. \A v \in Seconds : v < lastRead - 1 => v < now /\ log'[lastPod][v] = log[lastPod][v]
    <3> SUFFICES ASSUME NEW v \in Seconds, v < lastRead - 1
                 PROVE  v < now /\ log'[lastPod][v] = log[lastPod][v]
      OBVIOUS
    <3>1. v \in Nat
      BY <1>b
    <3>2. v < now /\ v # now
      BY <1>0, <1>c, <3>1
    <3> QED BY <1>e, <2>1, <3>2
  <2> QED BY <1>2, <2>2 DEF WInv, Between
<1> QED BY <1>3, <1>4, <1>5, <1>6, <1>7, <1>8 DEF WInv

\* A container that starts has logged nothing; a log that is gone asks for nothing.
LEMMA EnvironmentWInv ==
  ASSUME WInv, Environment
  PROVE  WInv'
<1>0. IInv' /\ UNCHANGED <<process, history>>
  BY EnvironmentIInv, LogSteps DEF WInv
<1>1. /\ log \in [Pods -> [Seconds -> 0..MaxStarts]] /\ instance \in [Pods -> 0..MaxStarts]
      /\ instance' \in [Pods -> 0..MaxStarts] /\ MaxStarts \in Nat /\ stream.inst \in Nat
      /\ pc = "copy" => pod \in Pods
      /\ lastPod # NoPod => lastPod \in Pods
  BY <1>0, LogsAssumption DEF WInv, IInv, TypeOK
<1>2. Printed' = Printed /\ Followed' = Followed
  BY <1>0 DEF Printed, Followed, process, history
<1>3. First'
  BY <1>0 DEF WInv, First, process, history
<1>4. CASE /\ now' = now /\ log' = log
           /\ \A p \in Pods : instance'[p] \in {instance[p], instance[p] + 1}
  <2>1. \A v : Due(v)' = Due(v)
    BY <1>0, <1>2, <1>4 DEF Due, process, history
  <2>2. Whole'
    BY <1>2, <1>4, <2>1 DEF WInv, Whole, SameInstance
  <2>3. Ordered'
    BY <1>1, <1>4 DEF WInv, Ordered
  <2>4. Streaming' /\ Later'
    BY <1>0, <1>1, <1>2, <1>4, <2>1 DEF WInv, Streaming, Later, FirstPrevious, process
  <2>5. Between'
    <3> SUFFICES ASSUME pc \in {"find", "open", "wait"}, lastPod # NoPod
                 PROVE  /\ opts.follow /\ instance'[lastPod] > 0
                        /\ \A v \in Seconds :
                             v < lastRead - 1 /\ log[lastPod][v] = instance'[lastPod] /\ Due(v)
                             => v \in Printed
      BY <1>0, <1>2, <1>4, <2>1 DEF WInv, Between, process
    <3>1. \A v \in Seconds : log[lastPod][v] = instance'[lastPod] =>
            log[lastPod][v] = instance[lastPod]
      BY <1>1, <1>4 DEF WInv, Ordered
    <3>2. instance[lastPod] > 0 => instance'[lastPod] > 0
      BY <1>1, <1>4
    <3> QED BY <3>1, <3>2 DEF WInv, Between
  <2> QED BY <1>0, <1>3, <2>2, <2>3, <2>4, <2>5 DEF WInv
<1>5. CASE /\ now' = now /\ instance' = instance
           /\ \A p \in Pods : log'[p] = log[p] \/ \A t \in Seconds : log'[p][t] = 0
  <2>1. \A p \in Pods : log'[p] = log[p] => \A v : Followed = p => Due(v)' = Due(v)
    BY <1>0, <1>2 DEF Due, process, history
  <2>2. Whole'
    <3> SUFFICES ASSUME NEW u \in Printed, NEW v \in Seconds, v <= u, SameInstance(v, u)', Due(v)'
                 PROVE  v \in Printed
      BY <1>2 DEF Whole
    <3>1. Followed \in Pods /\ log'[Followed][u] > 0 /\ u \in Seconds
      BY <1>2, PrintedOfPod DEF SameInstance
    <3>2. log'[Followed] = log[Followed]
      BY <1>5, <3>1
    <3> QED BY <1>2, <2>1, <3>1, <3>2 DEF WInv, Whole, SameInstance
  <2>3. Ordered'
    <3> SUFFICES ASSUME NEW p \in Pods, NEW t \in Seconds
                 PROVE  /\ log'[p][t] <= instance[p]
                        /\ \A u \in Seconds : t <= u /\ log'[p][u] > 0 => log'[p][t] <= log'[p][u]
      BY <1>5 DEF Ordered
    <3> QED BY <1>1, <1>5 DEF WInv, Ordered
  <2>4. Streaming' /\ Later'
    <3>1. CASE pc = "copy" /\ log'[pod] = log[pod]
      <4>1. \A v : Due(v)' = Due(v)
        BY <1>1, <2>1, <3>1 DEF Followed
      <4> QED BY <1>0, <1>2, <1>5, <3>1, <4>1
              DEF WInv, Streaming, Later, FirstPrevious, process
    <3>2. CASE pc = "copy" /\ \A t \in Seconds : log'[pod][t] = 0
      <4>1. stream.inst > 0 /\ Printed \subseteq Seconds
        BY <3>2 DEF WInv, IInv, Overlap, Printed
      <4> QED BY <1>0, <1>1, <1>2, <1>5, <3>2, <4>1
              DEF WInv, Streaming, Later, FirstPrevious, process
    <3> QED BY <1>0, <1>1, <1>5, <3>1, <3>2 DEF Streaming, Later, process
  <2>5. Between'
    <3> SUFFICES ASSUME pc \in {"find", "open", "wait"}, lastPod # NoPod
                 PROVE  /\ opts.follow /\ instance[lastPod] > 0
                        /\ \A v \in Seconds :
                             v < lastRead - 1 /\ log'[lastPod][v] = instance[lastPod] /\ Due(v)'
                             => v \in Printed
      BY <1>0, <1>2, <1>5 DEF Between, process
    <3>1. CASE log'[lastPod] = log[lastPod]
      BY <1>1, <2>1, <3>1 DEF WInv, Between, Followed
    <3>2. CASE \A t \in Seconds : log'[lastPod][t] = 0
      <4>1. opts.follow /\ instance[lastPod] > 0
        BY DEF WInv, Between
      <4> QED BY <1>1, <3>2, <4>1
    <3> QED BY <1>1, <1>5, <3>1, <3>2
  <2> QED BY <1>0, <1>3, <2>2, <2>3, <2>4, <2>5 DEF WInv
<1> QED BY <1>0, <1>4, <1>5, LogSteps, TickWInv
\* What a stream skips: lines of other instances, those that come before the time that
\* was asked for, and by --tail and --since some of the first stream of a pod.
LEMMA StreamSkips ==
  ASSUME WInv, pc = "open", pod \in Pods, NEW s \in StreamOf(pod, ReconnectOptions), s.inst > 0
  PROVE  /\ s.inst = IF FirstPrevious THEN instance[pod] - 1 ELSE instance[pod]
         /\ s.next <= now
         /\ opts.follow => s.until = MaxTime
         /\ lastPod # NoPod /\ (pod = lastPod \/ opts.since = 0) =>
              \A v \in Seconds : /\ log[pod][v] = s.inst
                                 /\ pod = lastPod => v >= lastRead - 1
                                 => v >= s.next
<1> DEFINE o == ReconnectOptions
           i == IF o.previous THEN instance[pod] - 1 ELSE instance[pod]
           found == Selected(pod, i, o)
<1>1. /\ lastPod = NoPod => o.previous = opts.previous
      /\ lastPod # NoPod => o.previous = FALSE
      /\ o.follow = opts.follow
  <2>1. CASE lastPod = NoPod
    BY <2>1 DEF ReconnectOptions, LogOptions
  <2>2. CASE lastPod # NoPod
    BY <2>2 DEF ReconnectOptions, LogOptions
  <2> QED BY <2>1, <2>2
<1>2. /\ s.inst = i /\ s.until \in {IF o.follow THEN MaxTime ELSE now}
      /\ s.next \in IF found = {} THEN {now} ELSE Oldest(found)
  BY DEF StreamOf
<1>3. s.inst = IF FirstPrevious THEN instance[pod] - 1 ELSE instance[pod]
  BY <1>1, <1>2 DEF FirstPrevious
<1>4. s.next <= now
  <2>1. TypeOK
    BY DEF WInv, IInv
  <2>2. s.next = now \/ (s.next \in Seconds /\ log[pod][s.next] = s.inst)
    BY <2>1, StreamBegins
  <2>3. s.next \in Seconds /\ log[pod][s.next] = s.inst => s.next < now
    BY DEF WInv, IInv, LogInPast
  <2>4. now \in Nat /\ s.next \in Nat
    BY <2>1, <2>2, LogsAssumption DEF TypeOK, Seconds
  <2> QED BY <2>2, <2>3, <2>4
<1>5. lastPod # NoPod /\ (pod = lastPod \/ opts.since = 0) =>
        \A v \in Seconds : /\ log[pod][v] = s.inst
                           /\ pod = lastPod => v >= lastRead - 1
                           => v >= s.next
  <2> SUFFICES ASSUME lastPod # NoPod, pod = lastPod \/ opts.since = 0, NEW v \in Seconds,
                      log[pod][v] = s.inst, pod = lastPod => v >= lastRead - 1
               PROVE  v >= s.next
    OBVIOUS
  <2>1. /\ o.tailLines = -1 /\ o.sinceSeconds = 0
        /\ o.sinceTime = IF pod = lastPod THEN lastRead - 1 ELSE 0
    BY DEF ReconnectOptions, LogOptions
  <2>2. v >= o.sinceTime
    BY <2>1, LogsAssumption DEF Seconds
  <2>3. v \in found
    BY <1>2, <2>1, <2>2 DEF Selected, Lines
  <2>4. s.next \in Oldest(found)
    BY <1>2, <2>3
  <2>5. s.next <= v
    BY <2>3, <2>4 DEF Oldest
  <2>6. s.next \in Nat /\ v \in Nat
    BY <2>3, <2>4, LogsAssumption DEF Oldest, Selected, Lines, Seconds
  <2> QED BY <2>5, <2>6
<1> QED BY <1>1, <1>2, <1>3, <1>4, <1>5

\* A stream is opened: on the pod followed, where the last one ended, or on another one.
LEMMA OpenWInv ==
  ASSUME WInv, Open, IInv'
  PROVE  WInv'
<1>1. /\ pc = "open" /\ pc' = "copy" /\ pod \in Pods
      /\ UNCHANGED <<now, log, instance, opts, pod, lastPod, lastRead>>
      /\ stream' \in StreamOf(pod, ReconnectOptions) /\ stream'.inst > 0
      /\ Followed = lastPod /\ Followed' = pod
  BY DEF Open, Existing, Followed, cluster
<1>2. /\ stream'.inst = IF FirstPrevious THEN instance[pod] - 1 ELSE instance[pod]
      /\ stream'.next <= now /\ (opts.follow => stream'.until = MaxTime)
      /\ lastPod # NoPod /\ (pod = lastPod \/ opts.since = 0) =>
           \A v \in Seconds : /\ log[pod][v] = stream'.inst
                              /\ pod = lastPod => v >= lastRead - 1
                              => v >= stream'.next
  BY <1>1, StreamSkips
<1>3. /\ instance[pod] \in Int /\ stream'.next \in Int /\ lastRead \in Int /\ now \in Int
      /\ \A t \in Seconds : t \in Int /\ log[pod][t] \in Int
  <2>1. /\ instance \in [Pods -> 0..MaxStarts] /\ log \in [Pods -> [Seconds -> 0..MaxStarts]]
        /\ stream'.next \in 0..MaxTime /\ lastRead \in 0..MaxTime /\ now \in 0..MaxTime
    BY <1>1 DEF WInv, IInv, TypeOK
  <2>2. 0..MaxStarts \subseteq Int /\ 0..MaxTime \subseteq Int /\ Seconds \subseteq Int
    BY DEF Seconds
  <2>3. instance[pod] \in 0..MaxStarts /\ log[pod] \in [Seconds -> 0..MaxStarts]
    BY <1>1, <2>1
  <2> QED BY <2>1, <2>2, <2>3
<1>4. Ordered' /\ Between'
  BY <1>1 DEF WInv, Ordered, Between
<1>5. stream'.inst <= instance[pod]
  BY <1>2, <1>3
<1>6. ~FirstPrevious => \A v \in Seconds : ~(log[pod][v] > stream'.inst)
  BY <1>1, <1>2, <1>3 DEF WInv, Ordered
<1>7. CASE pod = lastPod
  <2>1. UNCHANGED <<copies, switched>>
    BY <1>7 DEF Open
  <2>2. Printed' = Printed /\ Followed' = Followed /\ \A v : Due(v)' = Due(v)
    BY <1>1, <1>7, <2>1 DEF Printed, Due
  <2>3. lastPod # NoPod /\ ~FirstPrevious
    BY <1>1, <1>7, LogsAssumption DEF FirstPrevious
  <2>4. Whole' /\ First'
    BY <1>1, <2>1, <2>2 DEF WInv, Whole, First, SameInstance
  <2>5. stream'.next >= lastRead - 1
    <3>1. TypeOK /\ ReconnectOptions.sinceTime = lastRead - 1
      BY <1>7, <2>3 DEF WInv, IInv, ReconnectOptions, LogOptions
    <3>2. stream'.next = now \/ stream'.next >= lastRead - 1
      BY <1>1, <3>1, StreamBegins
    <3>3. lastRead <= now
      BY DEF WInv, IInv, ReadLongAgo
    <3> QED BY <1>3, <3>2, <3>3
  <2>6. Streaming'
    <3>1. ASSUME NEW v \in Seconds, v < stream'.next, log[pod][v] = stream'.inst, Due(v)
          PROVE  v \in Printed
      <4>1. v < lastRead - 1
        BY <1>2, <1>3, <1>7, <2>3, <3>1
      <4>2. log[lastPod][v] = instance[lastPod]
        BY <1>2, <1>7, <2>3, <3>1
      <4> QED BY <1>1, <2>3, <3>1, <4>1, <4>2 DEF WInv, Between
    <3> QED BY <1>1, <1>2, <1>5, <2>2, <2>5, <3>1 DEF Streaming
  <2>7. Later'
    BY <1>1, <1>6, <2>3 DEF Later, FirstPrevious
  <2> QED BY <1>4, <2>4, <2>6, <2>7 DEF WInv
<1>8. CASE pod # lastPod
  <2>1. Printed' = {} /\ switched' = (lastPod # NoPod)
    <3>1. copies' = NoCopies /\ switched' = (lastPod # NoPod)
      BY <1>8 DEF Open
    <3> QED BY <3>1 DEF Printed, NoCopies
  <2>2. Whole' /\ First'
    BY <1>1, <2>1 DEF WInv, Whole, First
  <2>3. Streaming'
    <3>1. ASSUME NEW v \in Seconds, v < stream'.next, log[pod][v] = stream'.inst, Due(v)'
          PROVE  FALSE
      <4>1. lastPod # NoPod /\ opts.since = 0
        BY <1>1, <2>1, <3>1 DEF Due
      <4>2. v >= stream'.next
        BY <1>2, <1>8, <3>1, <4>1
      <4> QED BY <1>3, <3>1, <4>2
    <3> QED BY <1>1, <1>2, <1>5, <1>8, <3>1 DEF Streaming
  <2>4. Later'
    <3>1. FirstPrevious => stream'.inst < instance[pod]
      BY <1>2, <1>3
    <3> QED BY <1>1, <1>6, <2>1, <3>1 DEF Later, FirstPrevious
  <2> QED BY <1>4, <2>2, <2>3, <2>4 DEF WInv
<1> QED BY <1>7, <1>8
\* A line is printed: the next one of the instance.
LEMMA PrintWInv ==
  ASSUME WInv, NEW n \in Seconds, PrintLine(n), IInv'
  PROVE  WInv'
<1>1. /\ pc = "copy" /\ pc' = "copy" /\ pod \in Pods /\ Followed = pod /\ Followed' = pod
      /\ UNCHANGED <<now, log, instance, opts, pod, lastPod, lastRead, switched>>
      /\ log[pod][n] = stream.inst /\ n >= stream.next /\ n < stream.until
      /\ \A u \in Seconds : log[pod][u] = stream.inst /\ stream.next <= u /\ u < stream.until
           => n <= u
  BY DEF PrintLine, Pending, Lines, Followed, cluster, WInv, IInv, TypeOK
<1>2. /\ stream' = [stream EXCEPT !.next = n + 1]
      /\ stream \in [inst : 0..MaxStarts, next : 0..MaxTime, until : 0..MaxTime]
      /\ copies \in [Seconds -> 0..3]
      /\ copies' = [copies EXCEPT ![n] = IF copies[n] < 3 THEN copies[n] + 1 ELSE copies[n]]
  BY DEF PrintLine, WInv, IInv, TypeOK
<1>3. /\ stream'.next = n + 1 /\ stream'.inst = stream.inst /\ stream'.until = stream.until
      /\ stream.next \in Int /\ stream.until \in Int /\ lastRead \in Int /\ now \in Int /\ Lag \in Int
      /\ \A v \in Seconds : v \in Int
  BY <1>2, LogsAssumption DEF WInv, IInv, TypeOK, Seconds
<1>4. Printed' = Printed \cup {n}
  BY <1>2 DEF Printed
<1>5. n < now
  BY <1>1 DEF WInv, IInv, LogInPast, Overlap
\* what was printed of the lines that are still to come, a stream before printed last
<1>6. ASSUME NEW u \in Printed, u >= stream.next
      PROVE  stream.next >= lastRead - 1 /\ u < lastRead /\ u \in Int
  <2>1. u \in Seconds /\ copies[u] > 0
    BY DEF Printed
  <2>2. pod = lastPod /\ u < lastRead
    BY <1>1, <1>6, <2>1 DEF WInv, IInv, Overlap
  <2> QED BY <1>1, <1>3, <2>1, <2>2 DEF WInv, Streaming
<1>7. ASSUME NEW v, Due(v)' PROVE Due(v) \/ n <= v
  BY <1>1, <1>4, <1>7 DEF Due
\* the line is the next one, so what is before it has been printed
<1>8. ASSUME NEW v \in Seconds, v <= n, log[pod][v] = stream.inst, Due(v)'
      PROVE  v \in Printed'
  <2>1. CASE v < stream.next
    <3>1. Due(v)
      BY <1>1, <1>3, <1>7, <1>8, <2>1
    <3> QED BY <1>1, <1>4, <1>8, <2>1, <3>1 DEF WInv, Streaming
  <2>2. CASE v >= stream.next
    <3>1. v = n
      BY <1>1, <1>3, <1>8, <2>2
    <3> QED BY <1>4, <3>1
  <2> QED BY <1>3, <2>1, <2>2
<1>9. Whole'
  <2> SUFFICES ASSUME NEW u \in Printed', NEW v \in Seconds, v <= u, SameInstance(v, u)', Due(v)'
               PROVE  v \in Printed'
    BY DEF Whole
  <2>1. log[pod][v] = log[pod][u] /\ log[pod][u] > 0
    BY <1>1 DEF SameInstance
  <2>2. CASE u = n
    BY <1>1, <1>8, <2>1, <2>2
  <2>3. CASE u \in Printed /\ Due(v)
    BY <1>1, <1>4, <2>1, <2>3 DEF WInv, Whole, SameInstance
  <2>4. CASE u \in Printed /\ n <= v
    <3>1. u \in Seconds /\ u \in Int
      BY <1>3, <2>4 DEF Printed
    <3>2. u >= stream.next
      <4>1. stream.next \in Int /\ n \in Int /\ v \in Int
        BY <1>3
      <4>2. stream.next <= n /\ n <= v
        BY <1>1, <1>3, <2>4
      <4> QED BY <3>1, <4>1, <4>2
    <3>3. v = u
      BY <1>1, <1>3, <1>6, <2>4, <3>1, <3>2
    <3> QED BY <1>4, <2>4, <3>3
  <2> QED BY <1>4, <1>7, <2>2, <2>3, <2>4
<1>10. Ordered' /\ First' /\ Between'
  BY <1>1 DEF WInv, Ordered, First, Between
<1>11. Streaming'
  <2>1. \A v \in Seconds : v < n + 1 => v <= n
    BY <1>3
  <2>2. \A v \in Seconds : v < n + 1 /\ log[pod][v] = stream.inst /\ Due(v)' => v \in Printed'
    BY <1>8, <2>1
  <2>3. n + 1 <= now
    BY <1>3, <1>5
  <2>4. pod = lastPod => n + 1 >= lastRead - 1
    BY <1>1, <1>3 DEF WInv, Streaming
  <2> QED BY <1>1, <1>3, <2>2, <2>3, <2>4 DEF WInv, Streaming
<1>12. Later'
  <2>1. ASSUME ~FirstPrevious, NEW v \in Seconds, log[pod][v] > stream.inst
        PROVE  v >= n + 1 /\ (opts.follow => v >= now - Lag)
    <3>1. opts.follow => v >= now - Lag
      BY <1>1, <2>1 DEF WInv, Later
    <3>2. ~(v <= n)
      <4>1. log[pod][n] > 0
        BY <1>1 DEF WInv, IInv, Overlap
      <4>2. v <= n => log[pod][v] <= log[pod][n]
        BY <1>1, <4>1 DEF WInv, Ordered
      <4>3. log[pod][v] \in Int /\ stream.inst \in Int
        <5>1. log \in [Pods -> [Seconds -> 0..MaxStarts]]
          BY DEF WInv, IInv, TypeOK
        <5>2. log[pod] \in [Seconds -> 0..MaxStarts]
          BY <1>1, <5>1
        <5> QED BY <1>2, <5>2
      <4> QED BY <1>1, <2>1, <4>2, <4>3
    <3> QED BY <1>3, <3>1, <3>2
  <2>2. FirstPrevious => /\ stream.inst < instance[pod]
                         /\ \A t \in Printed' : log[pod][t] \in {0, stream.inst}
    BY <1>1, <1>4 DEF WInv, Later
  <2> QED BY <1>1, <1>3, <2>1, <2>2 DEF Later, FirstPrevious
<1> QED BY <1>9, <1>10, <1>11, <1>12 DEF WInv

\* A stream is over: the lines it has not delivered will be asked for, by the overlap.
LEMMA StreamOverWInv ==
  ASSUME WInv, Lag = 1, pc = "copy", Opened, IInv',
         UNCHANGED <<now, log, instance, opts, copies, switched>>,
         pc' \in {"wait", "failed", "done"},
         pc' = "wait" => /\ opts.follow
                         /\ ~FirstPrevious => \A v \in Seconds :
                              v < now - 1 /\ log[pod][v] = stream.inst => v < stream.next
  PROVE  WInv'
<1>1. /\ lastPod' = pod /\ lastRead' = now /\ pod \in Pods /\ Followed = pod /\ Followed' = pod
      /\ pod # NoPod
  BY LogsAssumption DEF Opened, Followed, WInv, IInv, TypeOK
<1>2. Printed' = Printed /\ \A v : Due(v)' = Due(v)
  BY <1>1 DEF Printed, Due
<1>3. Whole' /\ Ordered' /\ First' /\ Streaming' /\ Later'
  BY <1>1, <1>2 DEF WInv, Whole, Ordered, First, Streaming, Later, SameInstance
<1>4. /\ instance[pod] \in Int /\ stream.inst \in Int /\ now \in Int
      /\ \A v \in Seconds : v \in Int
      /\ stream.inst > 0 /\ stream.inst <= instance[pod]
  BY <1>1 DEF WInv, IInv, TypeOK, Overlap, Streaming, Seconds
<1>5. ASSUME pc' = "wait" PROVE Between'
  <2>1. ASSUME NEW v \in Seconds, v < now - 1, log[pod][v] = instance[pod], Due(v)
        PROVE  v \in Printed
    <3>1. CASE FirstPrevious
      <4>1. ~switched /\ opts.previous
        BY <3>1 DEF WInv, First, FirstPrevious
      <4>2. PICK t \in Printed : log[pod][t] = log[pod][v]
        BY <1>1, <2>1, <4>1 DEF Due
      <4>3. log[pod][t] \in {0, stream.inst} /\ stream.inst < instance[pod]
        BY <3>1, <4>2 DEF WInv, Later
      <4> QED BY <1>4, <2>1, <4>2, <4>3
    <3>2. CASE ~FirstPrevious /\ stream.inst < instance[pod]
      <4>1. v >= now - Lag
        BY <1>4, <1>5, <2>1, <3>2 DEF WInv, Later
      <4> QED BY <1>4, <2>1, <4>1
    <3>3. CASE ~FirstPrevious /\ stream.inst = instance[pod]
      <4>1. v < stream.next
        BY <1>5, <2>1, <3>3
      <4> QED BY <2>1, <3>3, <4>1 DEF WInv, Streaming
    <3> QED BY <1>4, <3>1, <3>2, <3>3
  <2>2. instance[pod] > 0
    BY <1>4
  <2> QED BY <1>1, <1>2, <1>5, <2>1, <2>2 DEF Between
<1>6. Between'
  BY <1>5 DEF Between
<1> QED BY <1>3, <1>6 DEF WInv

LEMMA StepWInv == Lag = 1 /\ WInv /\ [Next]_vars => WInv'
<1> SUFFICES ASSUME Lag = 1, WInv, [Next]_vars PROVE WInv'
  OBVIOUS
<1>0. IInv'
  BY StepIInv DEF WInv
<1>1. CASE FindPodForLogs \/ OpenFails \/ Reconnect
  <2>1. /\ pc \in {"find", "open", "wait"} /\ pc' \in {"find", "open", "wait", "failed"}
        /\ UNCHANGED <<log, instance, lastPod, lastRead, opts, history>> /\ now' = now
    BY <1>1 DEF FindPodForLogs, OpenFails, Reconnect, ErrorOut, WaitBeforeReconnect, cluster
  <2>2. Followed' = Followed
    BY <2>1 DEF Followed
  <2> QED BY <1>0, <2>1, <2>2, QuietStep
<1>2. CASE Open
  BY <1>0, <1>2, OpenWInv
<1>3. ASSUME NEW n \in Seconds, PrintLine(n) PROVE WInv'
  BY <1>0, <1>3, PrintWInv
<1>4. CASE StreamEnds
  <2>1. pc = "copy" /\ Opened /\ UNCHANGED <<now, log, instance, opts, copies, switched>>
        /\ pc' \in {"wait", "done"} /\ (pc' = "wait" => opts.follow)
    BY <1>4 DEF StreamEnds, WaitBeforeReconnect, cluster
  <2>2. opts.follow => \A v \in Seconds : log[pod][v] = stream.inst => v < stream.next
    <3>1. Pending = {} /\ (opts.follow => stream.until = MaxTime)
      BY <1>4, <2>1 DEF StreamEnds, WInv, Streaming
    <3>2. \A v \in Seconds : v < MaxTime /\ v \in Int
      BY LogsAssumption DEF Seconds
    <3>3. stream.next \in Int
      BY DEF WInv, IInv, TypeOK
    <3> QED BY <3>1, <3>2, <3>3 DEF Pending, Lines
  <2> QED BY <1>0, <2>1, <2>2, StreamOverWInv
<1>5. CASE StreamBreaks
  <2>1. pc = "copy" /\ Opened /\ UNCHANGED <<now, log, instance, opts, copies, switched>>
        /\ pc' \in {"wait", "failed"} /\ (pc' = "wait" => opts.follow) /\ OnTime(now)
    BY <1>5 DEF StreamBreaks, ErrorOut, WaitBeforeReconnect, cluster
  <2>2. ~FirstPrevious => \A v \in Seconds :
          v < now - 1 /\ log[pod][v] = stream.inst => v < stream.next
    <3> SUFFICES ASSUME ~FirstPrevious, NEW v \in Seconds, v < now - 1, log[pod][v] = stream.inst
                 PROVE  v < stream.next
      OBVIOUS
    <3>1. now \in Int /\ v \in Int /\ stream.next \in Int /\ stream.inst \in Int
      BY DEF WInv, IInv, TypeOK, Seconds
    <3>2. v >= stream.next => v >= now - Lag
      BY <2>1, <3>1 DEF OnTime, FirstPrevious
    <3> QED BY <3>1, <3>2
  <2> QED BY <1>0, <2>1, <2>2, StreamOverWInv
<1>6. CASE Environment
  BY <1>6, EnvironmentWInv
<1>7. CASE UNCHANGED vars
  <2>1. UNCHANGED <<log, instance, lastPod, lastRead, opts, history, pc, pod, stream>> /\ now' = now
    BY <1>7 DEF vars, cluster, process
  <2>2. Followed' = Followed
    BY <2>1 DEF Followed
  <2> QED BY <1>0, <2>1, <2>2, QuietStep
<1> QED BY <1>1, <1>2, <1>3, <1>4, <1>5, <1>6, <1>7 DEF Next

LEMMA InitWInv == Init => WInv
<1> SUFFICES ASSUME Init PROVE WInv
  OBVIOUS
<1>1. IInv
  BY InitIInv
<1>2. Printed = {} /\ \A p \in Pods : instance[p] \in {0, 1} /\ \A t \in Seconds : log[p][t] = 0
  BY DEF Init, Printed, NoCopies, NoLines
<1> QED BY <1>1, <1>2 DEF Init, WInv, Whole, Ordered, First, Streaming, Later, Between

\* As long as what a stream may lose at its end is no older than what the next one
\* repeats, a replacement pod is read from the beginning of its log.
THEOREM ReplacementIsWhole == ASSUME Lag = 1 PROVE Spec => []ReplacementIsReadWhole
<1>1. WInv => ReplacementIsReadWhole
  BY WholeIsEnough
<1>2. WInv /\ [Next]_vars => WInv'
  BY StepWInv
<1> QED BY <1>1, <1>2, InitWInv, PTL DEF Spec

-----------------------------------------------------------------------------
(* Over instances: no line of the pod is missing but those that no stream could deliver. *)

\* A line that comes after one that was printed, and was not missed.
Expected(v) == v \notin missed /\ \E t \in Printed : t <= v

NoneMissing ==
  \A u \in Printed : \A v \in Seconds :
    v <= u /\ log[Followed][v] > 0 /\ Expected(v) => v \in Printed

\* Of the instances before the one that is read nothing is missing.
EarlierRead ==
  pc = "copy" => \A v \in Seconds :
    log[pod][v] > 0 /\ log[pod][v] < stream.inst /\ Expected(v) => v \in Printed

\* Between two streams: nothing is missing of the instances that were read to their end, and
\* of the others only what is as new as Lag.
LeftUnread ==
  pc \in {"find", "open", "wait"} /\ lastPod # NoPod =>
    /\ unread <= instance[lastPod] + 1
    /\ lastPod \in up => unread <= instance[lastPod]
    /\ \A v \in Seconds :
         /\ log[lastPod][v] > 0 /\ Expected(v)
         /\ log[lastPod][v] < unread \/ v < lastRead - Lag
         => v \in Printed

Across == ~opts.previous => NoneMissing /\ EarlierRead /\ LeftUnread

\* What a step of the cluster does to a log: it goes, or an instance that is up adds the
\* newest line.
LEMMA NewLines ==
  ASSUME WInv, Environment, NEW p \in Pods
  PROVE  /\ instance'[p] >= instance[p]
         /\ p \in up' => p \in up \/ instance'[p] = instance[p] + 1
         /\ \A v \in Seconds : \/ log'[p][v] \in {0, log[p][v]}
                               \/ v = now /\ p \in up /\ log'[p][v] = instance[p]
<1>0. /\ log \in [Pods -> [Seconds -> 0..MaxStarts]] /\ instance \in [Pods -> 0..MaxStarts]
      /\ now \in 0..MaxTime
  BY DEF WInv, IInv, TypeOK
<1>1. instance[p] \in Int
  BY <1>0
<1>2. CASE Tick
  <2>1. \A v \in Seconds : log'[p][v] = IF v = now /\ p \in up THEN instance[p] ELSE log[p][v]
    BY <1>0, <1>2, LogsAssumption DEF Tick, Seconds
  <2> QED BY <1>1, <1>2, <2>1 DEF Tick, cluster
<1>3. ASSUME NEW q \in Pods, Schedule(q) \/ Crash(q) \/ Terminate(q)
      PROVE  instance' = instance /\ log' = log /\ up' \subseteq up
  BY <1>3 DEF Schedule, Crash, Terminate
<1>4. ASSUME NEW q \in Pods, Start(q)
      PROVE  /\ log' = log /\ up' = up \cup {q}
             /\ instance'[p] = IF p = q THEN instance[p] + 1 ELSE instance[p]
  BY <1>0, <1>4 DEF Start
<1>5. ASSUME NEW q \in Pods, Remove(q)
      PROVE  /\ instance' = instance /\ up' \subseteq up
             /\ \A v \in Seconds : log'[p][v] \in {0, log[p][v]}
  BY <1>0, <1>5 DEF Remove, NoLines
<1> QED BY <1>1, <1>2, <1>3, <1>4, <1>5 DEF Environment

\* A new line is newer than all that was printed, and of no instance that was read before.
LEMMA EnvironmentAcross ==
  ASSUME WInv, Across, ~opts.previous, Environment
  PROVE  (NoneMissing /\ EarlierRead /\ LeftUnread)'
<1>1. NoneMissing /\ EarlierRead /\ LeftUnread /\ UNCHANGED <<process, history>>
  BY LogSteps DEF Across
<1>2. Printed' = Printed /\ Followed' = Followed /\ \A v : Expected(v)' = Expected(v)
  BY <1>1 DEF Printed, Followed, Expected, process, history
<1>3. /\ now \in Int /\ lastRead \in Int /\ lastRead <= now /\ unread \in Int /\ Lag \in Nat
      /\ Seconds \subseteq Int /\ stream.inst \in Int
      /\ pod # NoPod => pod \in Pods
      /\ lastPod # NoPod => lastPod \in Pods
      /\ \A p \in Pods : instance[p] \in Int /\ instance'[p] \in Int
  <2>1. TypeOK /\ TypeOK'
    BY EnvironmentTypeOK DEF WInv, IInv
  <2> QED BY <2>1, LogsAssumption DEF TypeOK, Seconds, WInv, IInv, ReadLongAgo
<1>4. NoneMissing'
  <2> SUFFICES ASSUME NEW u \in Printed, NEW v \in Seconds, v <= u, log'[Followed][v] > 0,
                      Expected(v)
               PROVE  v \in Printed
    BY <1>2 DEF NoneMissing
  <2>1. Followed \in Pods /\ u \in Seconds /\ u < now
    BY PrintedOfPod
  <2>2. v # now
    BY <1>3, <2>1
  <2>3. log'[Followed][v] = log[Followed][v]
    BY <2>1, <2>2, NewLines
  <2> QED BY <1>1, <2>3 DEF NoneMissing
<1>5. EarlierRead'
  <2> SUFFICES ASSUME pc = "copy", NEW v \in Seconds, log'[pod][v] > 0,
                      log'[pod][v] < stream.inst, Expected(v)
               PROVE  v \in Printed
    BY <1>1, <1>2 DEF EarlierRead, process
  <2>1. pod \in Pods /\ stream.inst <= instance[pod]
    BY DEF WInv, IInv, TypeOK, Streaming
  <2>2. log'[pod][v] = log[pod][v]
    BY <1>3, <2>1, NewLines
  <2> QED BY <1>1, <2>2 DEF EarlierRead
<1>6. LeftUnread'
  <2> SUFFICES ASSUME pc \in {"find", "open", "wait"}, lastPod # NoPod
               PROVE  /\ unread <= instance'[lastPod] + 1
                      /\ lastPod \in up' => unread <= instance'[lastPod]
                      /\ \A v \in Seconds : /\ log'[lastPod][v] > 0 /\ Expected(v)
                                            /\ log'[lastPod][v] < unread \/ v < lastRead - Lag
                                            => v \in Printed
    BY <1>1, <1>2 DEF LeftUnread, process, history
  <2>1. /\ instance'[lastPod] >= instance[lastPod]
        /\ lastPod \in up' => lastPod \in up \/ instance'[lastPod] = instance[lastPod] + 1
        /\ lastPod \in Pods
    BY <1>3, NewLines
  <2>2. unread <= instance[lastPod] + 1 /\ (lastPod \in up => unread <= instance[lastPod])
    BY <1>1 DEF LeftUnread
  <2>3. /\ unread <= instance'[lastPod] + 1
        /\ lastPod \in up' => unread <= instance'[lastPod]
    BY <1>3, <2>1, <2>2
  <2>4. ASSUME NEW v \in Seconds, log'[lastPod][v] > 0, Expected(v),
               log'[lastPod][v] < unread \/ v < lastRead - Lag
        PROVE  v \in Printed
    <3>1. ~(v = now /\ lastPod \in up /\ log'[lastPod][v] = instance[lastPod])
      BY <1>3, <2>1, <2>2, <2>4
    <3>2. log'[lastPod][v] = log[lastPod][v]
      BY <2>1, <2>4, <3>1, NewLines
    <3> QED BY <1>1, <2>4, <3>2 DEF LeftUnread
  <2> QED BY <2>3, <2>4
<1> QED BY <1>4, <1>5, <1>6

\* What the next stream does not read again of the instances before is read, or missed.
LEMMA OpenAcross ==
  ASSUME WInv, Across, ~opts.previous, Open
  PROVE  (NoneMissing /\ EarlierRead /\ LeftUnread)'
<1>1. /\ pc = "open" /\ pc' = "copy" /\ pod \in Pods /\ UNCHANGED <<log, pod, lastPod>>
      /\ Followed = lastPod /\ Followed' = pod
  BY DEF Open, Existing, Followed
<1>2. LeftUnread'
  BY <1>1 DEF LeftUnread
<1>3. CASE pod = lastPod
  <2>1. missed' = missed \cup Missed(stream'.inst) /\ Printed' = Printed
    BY <1>3 DEF Open, Printed
  <2>2. lastPod # NoPod /\ NoneMissing /\ LeftUnread
    BY <1>1, <1>3, LogsAssumption DEF Across
  <2>3. \A v : Expected(v)' => Expected(v)
    BY <2>1 DEF Expected
  <2>4. NoneMissing'
    BY <1>1, <1>3, <2>1, <2>2, <2>3 DEF NoneMissing
  <2>5. ASSUME NEW v \in Seconds, log[pod][v] > 0, log[pod][v] < stream'.inst, Expected(v)'
        PROVE  v \in Printed
    <3>1. /\ v \in Int /\ lastRead \in Int /\ Lag \in Int /\ unread \in Int
          /\ log[pod][v] \in Int /\ stream'.inst \in Int
      <4>1. TypeOK /\ TypeOK'
        BY StepTypeOK DEF WInv, IInv, Next
      <4>2. log[pod] \in [Seconds -> 0..MaxStarts] /\ stream'.inst \in 0..MaxStarts
        BY <1>1, <4>1 DEF TypeOK
      <4> QED BY <4>1, <4>2, LogsAssumption DEF TypeOK, Seconds
    <3>2. v \notin Missed(stream'.inst)
      BY <2>1, <2>5 DEF Expected
    <3>3. log[pod][v] < unread \/ v < lastRead - Lag
      BY <2>5, <3>1, <3>2 DEF Missed
    <3> QED BY <1>1, <1>3, <2>2, <2>3, <2>5, <3>3 DEF LeftUnread
  <2> QED BY <1>1, <1>2, <2>1, <2>4, <2>5 DEF EarlierRead
<1>4. CASE pod # lastPod
  <2>1. Printed' = {}
    BY <1>4 DEF Open, Printed, NoCopies
  <2> QED BY <1>2, <2>1 DEF NoneMissing, EarlierRead, Expected
<1> QED BY <1>3, <1>4

\* The line that is printed is the next one of its instance, and those before it are read.
LEMMA PrintAcross ==
  ASSUME WInv, Across, ~opts.previous, NEW n \in Seconds, PrintLine(n)
  PROVE  (NoneMissing /\ EarlierRead /\ LeftUnread)'
<1>1. /\ pc = "copy" /\ pc' = "copy" /\ pod \in Pods /\ Followed = pod /\ Followed' = pod
      /\ UNCHANGED <<log, pod, opts, missed>> /\ stream'.inst = stream.inst
      /\ log[pod][n] = stream.inst /\ n >= stream.next /\ stream.inst > 0
      /\ NoneMissing /\ EarlierRead
  BY DEF PrintLine, Pending, Lines, Followed, WInv, IInv, TypeOK, Overlap, Across
<1>2. Printed' = Printed \cup {n}
  BY DEF PrintLine, Printed, WInv, IInv, TypeOK
<1>3. /\ stream.next \in Int /\ lastRead \in Int /\ stream.inst \in Int /\ Seconds \subseteq Int
      /\ \A v \in Seconds : log[pod][v] \in Int
  <2>1. log[pod] \in [Seconds -> 0..MaxStarts]
    BY <1>1 DEF WInv, IInv, TypeOK
  <2>2. /\ stream \in [inst : 0..MaxStarts, next : 0..MaxTime, until : 0..MaxTime]
        /\ lastRead \in 0..MaxTime
    BY DEF WInv, IInv, TypeOK
  <2>3. stream.next \in 0..MaxTime /\ stream.inst \in 0..MaxStarts
    BY <2>2
  <2>4. Seconds \subseteq Int
    BY LogsAssumption DEF Seconds
  <2>5. \A v \in Seconds : log[pod][v] \in 0..MaxStarts
    BY <2>1
  <2> QED BY <2>2, <2>3, <2>4, <2>5, LogsAssumption
<1>4. ASSUME NEW v, Expected(v)' PROVE v \notin missed /\ (Expected(v) \/ n <= v)
  BY <1>1, <1>2, <1>4 DEF Expected
<1>5. ASSUME NEW u \in Printed, n <= u PROVE u = n
  <2>1. u \in Seconds /\ copies[u] > 0
    BY DEF Printed
  <2>2. pod = lastPod /\ u < lastRead
    BY <1>1, <1>3, <1>5, <2>1 DEF WInv, IInv, Overlap
  <2>3. stream.next >= lastRead - 1
    BY <1>1, <2>2 DEF WInv, Streaming
  <2> QED BY <1>1, <1>3, <1>5, <2>1, <2>2, <2>3
<1>6. ASSUME NEW v \in Seconds, log[pod][v] > 0, n <= v PROVE stream.inst <= log[pod][v]
  BY <1>1, <1>6 DEF WInv, Ordered
<1>7. EarlierRead'
  <2> SUFFICES ASSUME NEW v \in Seconds, log[pod][v] > 0, log[pod][v] < stream.inst, Expected(v)'
               PROVE  v \in Printed'
    BY <1>1 DEF EarlierRead
  <2>1. ~(n <= v)
    BY <1>3, <1>6
  <2> QED BY <1>1, <1>2, <1>4, <2>1 DEF EarlierRead
<1>8. NoneMissing'
  <2> SUFFICES ASSUME NEW u \in Printed', NEW v \in Seconds, v <= u, log[pod][v] > 0, Expected(v)'
               PROVE  v \in Printed'
    BY <1>1 DEF NoneMissing
  <2>1. CASE n <= v
    <3>1. u \in Printed => u \in Int
      BY <1>3 DEF Printed
    <3>2. u = n
      BY <1>2, <1>3, <1>5, <2>1, <3>1
    <3> QED BY <1>2, <1>3, <2>1, <3>2
  <2>2. CASE Expected(v) /\ u \in Printed
    BY <1>1, <1>2, <2>2 DEF NoneMissing
  <2>3. CASE Expected(v) /\ u = n /\ ~(n <= v)
    <3>1. log[pod][v] <= stream.inst
      BY <1>1, <2>3 DEF WInv, Ordered
    <3>2. CASE log[pod][v] < stream.inst
      BY <1>1, <1>2, <2>3, <3>2 DEF EarlierRead
    <3>3. CASE log[pod][v] = stream.inst
      <4>1. Due(v)
        BY <1>1, <2>3 DEF Due, Expected
      <4>2. CASE v < stream.next
        BY <1>1, <1>2, <3>3, <4>1, <4>2 DEF WInv, Streaming
      <4>3. CASE ~(v < stream.next)
        <5>1. v < stream.until
          <6>1. stream.until \in Int /\ n < stream.until
            BY DEF PrintLine, Pending, WInv, IInv, TypeOK
          <6> QED BY <1>3, <2>3, <6>1
        <5>2. v \in Pending
          BY <1>3, <3>3, <4>3, <5>1 DEF Pending, Lines
        <5>3. n <= v
          BY <5>2 DEF PrintLine
        <5> QED BY <2>3, <5>3
      <4> QED BY <4>2, <4>3
    <3> QED BY <1>3, <3>1, <3>2, <3>3
  <2> QED BY <1>2, <1>4, <2>1, <2>2, <2>3
<1> QED BY <1>1, <1>7, <1>8 DEF LeftUnread

\* At the end of a stream: what it read to its end is all there, the rest is new.
LEMMA StreamOverAcross ==
  ASSUME WInv, Across, ~opts.previous, StreamEnds \/ StreamBreaks
  PROVE  (NoneMissing /\ EarlierRead /\ LeftUnread)'
<1>1. /\ pc = "copy" /\ pc' # "copy" /\ pod \in Pods /\ lastPod' = pod /\ lastRead' = now
      /\ UNCHANGED <<log, instance, up, missed, copies>> /\ Followed = pod /\ Followed' = pod
      /\ pc' \in {"find", "open", "wait"} => opts.follow
      /\ NoneMissing /\ EarlierRead
  BY DEF StreamEnds, StreamBreaks, Opened, ErrorOut, WaitBeforeReconnect, cluster, Followed,
     WInv, IInv, TypeOK, Across
<1>2. Printed' = Printed /\ \A v : Expected(v)' = Expected(v)
  BY <1>1 DEF Printed, Expected
<1>3. NoneMissing' /\ EarlierRead'
  BY <1>1, <1>2 DEF NoneMissing, EarlierRead
<1>4. /\ now \in Int /\ Lag \in Int /\ stream.next \in Int /\ stream.inst \in Int
      /\ instance[pod] \in Int /\ \A v \in Seconds : v \in Int /\ log[pod][v] \in Int
  <2>1. log[pod] \in [Seconds -> 0..MaxStarts]
    BY <1>1 DEF WInv, IInv, TypeOK
  <2> QED BY <1>1, <2>1, LogsAssumption DEF WInv, IInv, TypeOK, Seconds
<1>5. ASSUME opts.follow, NEW v \in Seconds, log[pod][v] > 0, Expected(v),
             v < stream.next \/ v < now - Lag \/ log[pod][v] < stream.inst
      PROVE  v \in Printed
  <2>1. CASE log[pod][v] < stream.inst
    BY <1>1, <1>5, <2>1 DEF EarlierRead
  <2>2. CASE log[pod][v] = stream.inst /\ v < stream.next
    BY <1>1, <1>5, <2>2 DEF WInv, Streaming, Due, Expected
  <2>3. CASE log[pod][v] = stream.inst /\ ~(v < stream.next)
    <3>1. StreamEnds => v \in Pending
      <4>1. stream.until = MaxTime /\ v < MaxTime
        BY <1>1, <1>5, LogsAssumption DEF WInv, Streaming, Seconds
      <4> QED BY <1>4, <2>3, <4>1 DEF Pending, Lines
    <3>2. StreamEnds => Pending = {}
      BY DEF StreamEnds
    <3>3. StreamBreaks => v >= now - Lag
      BY <1>4, <2>3 DEF StreamBreaks, OnTime
    <3> QED BY <1>4, <1>5, <2>3, <3>1, <3>2, <3>3
  <2>4. CASE log[pod][v] > stream.inst
    BY <1>1, <1>4, <1>5, <2>4 DEF WInv, Later, FirstPrevious
  <2> QED BY <1>4, <2>1, <2>2, <2>3, <2>4
<1>6. CASE StreamEnds
  <2>1. unread' = stream.inst + 1
    BY <1>6 DEF StreamEnds
  <2>2. stream.inst <= instance[pod]
    BY <1>1 DEF WInv, Streaming
  <2>3. opts.follow /\ pod \in up => stream.inst # instance[pod]
    BY <1>6 DEF StreamEnds, StreamIsOver
  <2>4. ASSUME opts.follow, NEW v \in Seconds, log[pod][v] = stream.inst PROVE v < stream.next
    <3>1. stream.until = MaxTime /\ v < MaxTime
      BY <1>1, <2>4, LogsAssumption DEF WInv, Streaming, Seconds
    <3>2. v \notin Pending
      BY <1>6 DEF StreamEnds
    <3> QED BY <1>4, <2>4, <3>1, <3>2 DEF Pending, Lines
  <2> QED BY <1>1, <1>2, <1>3, <1>4, <1>5, <2>1, <2>2, <2>3, <2>4 DEF LeftUnread
<1>7. CASE StreamBreaks
  <2>1. unread' = stream.inst /\ stream.inst <= instance[pod]
    BY <1>1, <1>7 DEF StreamBreaks, WInv, Streaming
  <2> QED BY <1>1, <1>2, <1>3, <1>4, <1>5, <2>1 DEF LeftUnread
<1> QED BY <1>6, <1>7

\* Every step preserves it.
LEMMA StepAcross == WInv /\ Across /\ [Next]_vars => Across'
<1> SUFFICES ASSUME WInv, Across, [Next]_vars, ~opts'.previous
             PROVE  (NoneMissing /\ EarlierRead /\ LeftUnread)'
  BY DEF Across
<1>0. opts' = opts
  <2>1. Environment => opts' = opts
    BY LogSteps DEF process
  <2> QED BY <2>1 DEF Next, FindPodForLogs, Open, OpenFails, PrintLine, StreamEnds, StreamBreaks,
        Reconnect, vars, process
<1>1. CASE FindPodForLogs \/ OpenFails \/ Reconnect \/ UNCHANGED vars
  <2>1. /\ UNCHANGED <<log, instance, up, lastPod, lastRead, copies, unread, missed>>
        /\ \/ UNCHANGED <<pc, pod, stream>>
           \/ pc # "copy" /\ pc' # "copy"
              /\ (pc' \in {"find", "open", "wait"} => pc \in {"find", "open", "wait"})
    BY <1>1 DEF FindPodForLogs, OpenFails, Reconnect, ErrorOut, WaitBeforeReconnect, vars,
       cluster, process, history
  <2>2. Printed' = Printed /\ Followed' = Followed /\ \A v : Expected(v)' = Expected(v)
    BY <2>1 DEF Printed, Followed, Expected
  <2> QED BY <1>0, <2>1, <2>2 DEF Across, NoneMissing, EarlierRead, LeftUnread
<1>2. CASE Open
  BY <1>0, <1>2, OpenAcross
<1>3. ASSUME NEW n \in Seconds, PrintLine(n) PROVE (NoneMissing /\ EarlierRead /\ LeftUnread)'
  BY <1>0, <1>3, PrintAcross
<1>4. CASE StreamEnds \/ StreamBreaks
  BY <1>0, <1>4, StreamOverAcross
<1>5. CASE Environment
  BY <1>0, <1>5, EnvironmentAcross
<1> QED BY <1>1, <1>2, <1>3, <1>4, <1>5 DEF Next

\* What is said of instances, and over them, is that nothing is skipped.
LEMMA NoneSkipped == WInv /\ Across => NothingSkipped
<1> SUFFICES ASSUME WInv, Across, NEW t \in Printed, NEW u \in Printed,
                    NEW v \in (t..u) \ missed, log[Followed][v] > 0,
                    opts.previous => SameInstance(t, v) /\ SameInstance(v, u)
             PROVE  v \in Printed
  BY DEF NothingSkipped
<1>1. v \in Seconds /\ v <= u /\ t <= v
  BY LogsAssumption DEF Printed, Seconds
<1>2. CASE opts.previous
  <2>1. Due(v)
    BY <1>1, <1>2 DEF Due, SameInstance
  <2> QED BY <1>1, <1>2, <2>1 DEF WInv, Whole
<1>3. CASE ~opts.previous
  BY <1>1, <1>3 DEF Across, NoneMissing, Expected
<1> QED BY <1>2, <1>3

\* `operator logs --follow' (pkg/k8sutil/logs.go), as long as what a stream may lose at its
\* end is no older than what the next one repeats (Lag = 1): of a pod that is followed, over
\* restarts of its container and broken streams, no line is missing between two that were
\* printed, but one of an instance that was over before the next stream was opened, having
\* come and gone between two streams or lost its stream, and of its last lines.
THEOREM NothingIsSkipped == ASSUME Lag = 1 PROVE Spec => []NothingSkipped
<1>1. Init => WInv /\ Across
  <2>1. Init => Printed = {} /\ lastPod = NoPod
    BY DEF Init, Printed, NoCopies
  <2>2. Init => pc # "copy"
    BY DEF Init
  <2> QED BY <2>1, <2>2, InitWInv DEF Across, NoneMissing, EarlierRead, LeftUnread
<1>2. WInv /\ Across /\ [Next]_vars => (WInv /\ Across)'
  BY StepWInv, StepAcross
<1>3. WInv /\ Across => NothingSkipped
  BY NoneSkipped
<1> QED BY <1>1, <1>2, <1>3, PTL DEF Spec
=============================================================================
