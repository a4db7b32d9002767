----------------------------- MODULE FollowLogs -----------------------------
(***************************************************************************)
(* `kubectl rook-ceph operator logs' (pkg/k8sutil/logs.go): the log of the *)
(* operator's pod is copied and, with --follow, the stream established     *)
(* again whenever it ends, on the same pod or on its replacement.          *)
(*                                                                         *)
(* Time is in seconds.  A container that is up logs a line in each of      *)
(* them; a line is known by its pod and its second, and `log' says which   *)
(* instance of the container wrote it.                                     *)
(***************************************************************************)
EXTENDS Integers, FiniteSets

CONSTANTS
  Pods,          \* names of pods that match the label; a name is not used again
  Options,       \* combinations of flags: [follow, previous, tail, since]
  Lag,           \* how much an undelivered line may be older than now, clock skew included
  MaxTime,       \* bound: seconds
  MaxStarts      \* bound: times the containers of two pods start

NoPod == "no pod"

ASSUME LogsAssumption ==
  /\ Options \subseteq [follow : BOOLEAN, previous : BOOLEAN, tail : Int, since : Nat]
  /\ \A o \in Options : o.tail >= -1            \* validateLogsFlags
  /\ Lag \in Nat \ {0} /\ MaxTime \in Nat /\ MaxStarts \in Nat \ {0} /\ NoPod \notin Pods

Seconds == 0..(MaxTime - 1)
Interval == 2          \* logReconnectInterval

VARIABLES
  now,
  life,         \* [Pods -> {"unborn", "there", "terminating", "gone"}]
  instance,     \* [Pods -> Nat], the current or last instance of the container, 0 for none
  up,           \* the pods whose container runs
  log,          \* [Pods -> [Seconds -> Nat]], the instance that logged a line then, or 0
  pc,           \* label of the process
  opts,         \* the flags
  attempt,      \* 0 in the first iteration, 1 in any later one
  pod,          \* the pod found in this iteration
  lastPod,      \* the pod read last
  lastRead,     \* when that ended
  wake,         \* when the wait ends, 0 when there is none
  stream,       \* [inst, next, until]: instance, first and last second still to be delivered
  copies,       \* history: [Seconds -> 0..3], how often a line of this pod was printed since
                \* the process turned to it (3: or more)
  switched,     \* history: the process has turned to another pod
  unread,       \* history: the first instance not read to its end when the last stream ended
  missed        \* history: lines of this pod that no stream could deliver

cluster == <<life, instance, up>>
process == <<pc, opts, attempt, pod, lastPod, lastRead, wake, stream>>
history == <<copies, switched, unread, missed>>
vars == <<now, cluster, log, process, history>>

NoStream == [inst |-> 0, next |-> 0, until |-> 0]
NoLines == [t \in Seconds |-> 0]
NoCopies == [t \in Seconds |-> 0]

TypeOK ==
  /\ now \in 0..MaxTime
  /\ life \in [Pods -> {"unborn", "there", "terminating", "gone"}]
  /\ instance \in [Pods -> 0..MaxStarts] /\ up \subseteq Pods
  /\ log \in [Pods -> [Seconds -> 0..MaxStarts]]
  /\ pc \in {"find", "open", "copy", "wait", "done", "failed"}
  /\ opts \in Options /\ attempt \in 0..1
  /\ pod \in Pods \cup {NoPod} /\ lastPod \in Pods \cup {NoPod}
  /\ pc \in {"open", "copy"} => pod # NoPod
  /\ lastRead \in 0..MaxTime /\ wake \in 0..(MaxTime + Interval)
  /\ stream \in [inst : 0..MaxStarts, next : 0..MaxTime, until : 0..MaxTime]
  /\ copies \in [Seconds -> 0..3] /\ switched \in BOOLEAN
  /\ unread \in 0..(MaxStarts + 1) /\ missed \subseteq Seconds

Init ==
  /\ now = 0 /\ log = [p \in Pods |-> NoLines]
  /\ \E p \in Pods : /\ life = [q \in Pods |-> IF q = p THEN "there" ELSE "unborn"]
                     /\ instance = [q \in Pods |-> IF q = p THEN 1 ELSE 0]
                     /\ up = {p}
  /\ pc = "find" /\ opts \in Options /\ attempt = 0
  /\ pod = NoPod /\ lastPod = NoPod /\ lastRead = 0 /\ wake = 0 /\ stream = NoStream
  /\ copies = NoCopies /\ switched = FALSE /\ unread = 0 /\ missed = {}

-----------------------------------------------------------------------------
(* The API server and the kubelet (external). *)

Existing == {p \in Pods : life[p] \in {"there", "terminating"}}
Lines(p, i) == {t \in Seconds : log[p][t] = i}

\* The existing lines that a request o selects, oldest first.  SinceSeconds and TailLines
\* are absent when they are 0 and -1.
Selected(p, i, o) ==
  {t \in Lines(p, i) :
    /\ t >= o.sinceTime
    /\ o.sinceSeconds > 0 => t >= now - o.sinceSeconds
    /\ o.tailLines >= 0 => Cardinality({u \in Lines(p, i) : u >= t}) <= o.tailLines}

\* The stream of a request: the selected lines, and with Follow all that come.
Oldest(lines) == {t \in lines : \A u \in lines : t <= u}

StreamOf(p, o) ==
  LET i == IF o.previous THEN instance[p] - 1 ELSE instance[p]
      found == Selected(p, i, o)
  IN  [inst : {i}, next : IF found = {} THEN {now} ELSE Oldest(found),
       until : {IF o.follow THEN MaxTime ELSE now}]

Pending == {t \in Lines(pod, stream.inst) : stream.next <= t /\ t < stream.until}

\* The instance has ended, or the stream goes no further than when it was opened.
StreamIsOver ==
  \/ ~opts.follow \/ stream.inst # instance[pod] \/ pod \notin up

\* What is not delivered at that time, of this instance or a later one, is at most Lag old.
\* Not so of the current instance while the log of the previous one is shown.
OnTime(at) ==
  \/ opts.previous /\ lastPod = NoPod
  \/ \A t \in Seconds :
       log[pod][t] >= stream.inst /\ t >= stream.next => t >= at - Lag

Tick ==
  /\ now < MaxTime /\ now' = now + 1
  /\ pc = "copy" /\ opts.follow => OnTime(now')
  /\ log' = [p \in Pods |-> IF p \in up THEN [log[p] EXCEPT ![now] = instance[p]] ELSE log[p]]
  /\ UNCHANGED <<cluster, process, history>>

Schedule(p) ==
  /\ life[p] = "unborn" /\ life' = [life EXCEPT ![p] = "there"]
  /\ UNCHANGED <<now, instance, up, log, process, history>>

Start(p) ==
  /\ life[p] = "there" /\ p \notin up
  /\ \A q \in Pods : instance[q] + (IF q = p THEN 0 ELSE instance[p]) < MaxStarts
  /\ up' = up \cup {p} /\ instance' = [instance EXCEPT ![p] = @ + 1]
  /\ UNCHANGED <<now, life, log, process, history>>

Crash(p) ==
  /\ p \in up /\ up' = up \ {p}
  /\ UNCHANGED <<now, life, instance, log, process, history>>

Terminate(p) ==
  /\ life[p] = "there" /\ life' = [life EXCEPT ![p] = "terminating"]
  /\ UNCHANGED <<now, instance, up, log, process, history>>

\* The log goes with the pod.
Remove(p) ==
  /\ life[p] = "terminating" /\ life' = [life EXCEPT ![p] = "gone"]
  /\ up' = up \ {p} /\ log' = [log EXCEPT ![p] = NoLines]
  /\ UNCHANGED <<now, instance, process, history>>

\* As long as the process can see it.
Environment ==
  /\ pc \notin {"done", "failed"}
  /\ \/ Tick
     \/ \E p \in Pods : Schedule(p) \/ Start(p) \/ Crash(p) \/ Terminate(p) \/ Remove(p)

-----------------------------------------------------------------------------
(* The process. *)

\* Wrong: the stream is established again at once.
WaitNotAtAll ==
  pc' = "wait" /\ attempt' = 1 /\ wake' = now

WaitBeforeReconnect ==
  pc' = "wait" /\ attempt' = 1 /\ wake' = now + Interval

\* What an iteration does with an error: only a later one of --follow gets over it.
ErrorOut ==
  IF attempt = 0 \/ ~opts.follow THEN pc' = "failed" /\ UNCHANGED <<attempt, wake>>
                           ELSE WaitBeforeReconnect

\* A pod whose container has started is Running, also while the container is down.
Preferred == {p \in Existing : life[p] = "there" /\ instance[p] > 0}

\* Wrong: an empty list is taken for one with a pod.
FindNone ==
  /\ pc = "find"
  /\ \/ /\ pod' \in IF Preferred # {} THEN Preferred
                   ELSE IF Existing # {} THEN Existing ELSE {NoPod}
        /\ pc' = "open" /\ UNCHANGED <<attempt, wake>>
     \/ ErrorOut /\ UNCHANGED pod
  /\ UNCHANGED <<now, cluster, log, opts, lastPod, lastRead, stream, history>>

\* The pods come in any order.  The list may fail.
FindPodForLogs ==
  /\ pc = "find"
  /\ \/ /\ pod' \in IF Preferred # {} THEN Preferred ELSE Existing
        /\ pc' = "open" /\ UNCHANGED <<attempt, wake>>
     \/ ErrorOut /\ UNCHANGED pod
  /\ UNCHANGED <<now, cluster, log, opts, lastPod, lastRead, stream, history>>

LogOptions ==
  [follow |-> opts.follow, previous |-> opts.previous, tailLines |-> opts.tail,
   sinceSeconds |-> opts.since, sinceTime |-> 0]

\* Wrong: --tail holds for every connection, or nothing is read again.
TailAgain ==
  IF lastPod = NoPod THEN LogOptions
  ELSE LET next == [LogOptions EXCEPT !.previous = FALSE] IN
       IF pod = lastPod THEN [next EXCEPT !.sinceTime = lastRead - 1, !.sinceSeconds = 0]
                        ELSE next

NoOverlap ==
  IF lastPod = NoPod THEN LogOptions
  ELSE LET next == [LogOptions EXCEPT !.tailLines = -1, !.previous = FALSE] IN
       IF pod = lastPod THEN [next EXCEPT !.sinceTime = lastRead, !.sinceSeconds = 0] ELSE next

ReconnectOptions ==
  IF lastPod = NoPod THEN LogOptions
  ELSE LET next == [LogOptions EXCEPT !.tailLines = -1, !.previous = FALSE] IN
       IF pod = lastPod THEN [next EXCEPT !.sinceTime = lastRead - 1, !.sinceSeconds = 0]
                        ELSE next

\* The stream is not opened: the pod is gone, its container has not started, or the
\* instance asked for is not there; or for no such reason.
OpenFails ==
  /\ pc = "open" /\ ErrorOut /\ pod' = NoPod
  /\ UNCHANGED <<now, cluster, log, opts, lastPod, lastRead, stream, history>>

\* The log of the instances before the one that is read now is not read again: what was
\* not delivered of them, at most Lag older than the end of the last stream, never is.
Missed(inst) ==
  {t \in Seconds : t >= lastRead - Lag /\ log[pod][t] \in unread..(inst - 1)}

Open ==
  /\ pc = "open" /\ pc' = "copy" /\ pod \in Existing
  /\ stream' \in StreamOf(pod, ReconnectOptions) /\ stream'.inst > 0
  /\ IF pod = lastPod
       THEN missed' = missed \cup Missed(stream'.inst) /\ UNCHANGED <<copies, switched>>
       ELSE missed' = {} /\ copies' = NoCopies /\ switched' = (lastPod # NoPod)
  /\ UNCHANGED <<now, cluster, log, opts, attempt, pod, lastPod, lastRead, wake, unread>>

PrintLine(t) ==
  /\ pc = "copy" /\ t \in Pending /\ \A u \in Pending : t <= u
  /\ copies' = [copies EXCEPT ![t] = IF @ < 3 THEN @ + 1 ELSE @]
  /\ stream' = [stream EXCEPT !.next = t + 1]
  /\ UNCHANGED <<now, cluster, log, pc, opts, attempt, pod, lastPod, lastRead, wake>>
  /\ UNCHANGED <<switched, unread, missed>>

Opened == lastRead' = now /\ lastPod' = pod /\ stream' = NoStream /\ pod' = NoPod

StreamEnds ==
  /\ pc = "copy" /\ Pending = {} /\ StreamIsOver /\ Opened
  /\ IF opts.follow THEN WaitBeforeReconnect ELSE pc' = "done" /\ UNCHANGED <<attempt, wake>>
  /\ unread' = stream.inst + 1
  /\ UNCHANGED <<now, cluster, log, opts, copies, switched, missed>>

StreamBreaks ==
  /\ pc = "copy" /\ OnTime(now) /\ Opened /\ ErrorOut
  /\ unread' = stream.inst
  /\ UNCHANGED <<now, cluster, log, opts, copies, switched, missed>>

Reconnect ==
  /\ pc = "wait" /\ now >= wake /\ pc' = "find" /\ wake' = 0
  /\ UNCHANGED <<now, cluster, log, opts, attempt, pod, lastPod, lastRead, stream, history>>

Next ==
  \/ FindPodForLogs \/ Open \/ OpenFails \/ \E t \in Seconds : PrintLine(t)
  \/ StreamEnds \/ StreamBreaks \/ Reconnect \/ Environment

Spec == Init /\ [][Next]_vars

-----------------------------------------------------------------------------
(* Properties. *)

Printed == {t \in Seconds : copies[t] > 0}
Followed == IF pc = "copy" THEN pod ELSE lastPod
SameInstance(t, u) == log[Followed][t] = log[Followed][u] /\ log[Followed][u] > 0

\* docs/operator.md:67-68, a container that restarted "resumes from where the previous
\* stream left off".  It does so within an instance, and after one whose stream ended by
\* itself: no line of the pod is missing between two that were printed, over crashes of
\* its container and broken streams, but a line that is missed because its instance was
\* over when the next stream was opened -- one that came and went between two streams, or
\* one whose stream had broken -- and was at most Lag old when the last stream ended.
\* (reconnectOptions asks for no previous log.)  It holds as long as Lag is no more than
\* the overlap.  With --previous it goes for each instance alone.
NothingSkipped ==
  \A t \in Printed : \A u \in Printed : \A v \in (t..u) \ missed :
    /\ log[Followed][v] > 0
    /\ opts.previous => SameInstance(t, v) /\ SameInstance(v, u)
    => v \in Printed

\* docs/operator.md:69, "which may repeat a line or two": however often the stream is
\* established again, no line of a pod is printed more than twice before the process turns
\* to another one.
AtMostTwice == \A t \in Seconds : copies[t] <= 2

\* docs/operator.md:67, "A replacement pod is read from the beginning of its log", without
\* --since: what it logged before the old pod's stream ended is not missed, whatever --tail
\* and --previous say.
ReplacementIsReadWhole ==
  switched /\ opts.since = 0 =>
    \A u \in Printed : \A t \in 0..u : SameInstance(t, u) => t \in Printed
=============================================================================
