---------------------------- MODULE SettingStore ----------------------------
(***************************************************************************)
(* What `kubectl rook-ceph operator set` promises: however many users set  *)
(* properties at the same time, each request is carried out as a whole or  *)
(* not at all, changes the one property it names, and is never undone by   *)
(* another request.  Who was told that it is set, set it.                  *)
(***************************************************************************)
CONSTANTS Users, Keys, Values, NoValue

VARIABLES
  settings,    \* [Keys -> Values \cup {NoValue}]
  request,     \* [Users -> Requests], what a user has asked for and waits for
  told         \* [Users -> Answers], to the last request

vars == <<settings, request, told>>

Settings == [Keys -> Values \cup {NoValue}]
NoRequest == [key |-> NoValue, value |-> NoValue]
Answers == {"nothing", "patched", "error"}

Init == /\ settings \in Settings
        /\ request = [u \in Users |-> NoRequest]
        /\ told = [u \in Users |-> "nothing"]

Ask(u) ==
  /\ request[u] = NoRequest
  /\ \E k \in Keys, v \in Values : request' = [request EXCEPT ![u] = [key |-> k, value |-> v]]
  /\ told' = [told EXCEPT ![u] = "nothing"]
  /\ UNCHANGED settings

Answer(u, answer) == /\ request[u] # NoRequest
                     /\ request' = [request EXCEPT ![u] = NoRequest]
                     /\ told' = [told EXCEPT ![u] = answer]

\* The property is set; the answer may still be lost.
Carry(u) ==
  /\ \E answer \in {"patched", "error"} : Answer(u, answer)
  /\ settings' = [settings EXCEPT ![request[u].key] = request[u].value]

Refuse(u) == Answer(u, "error") /\ UNCHANGED settings

\* The properties are edited, deleted or installed anew by other means.
Edit == settings' \in Settings /\ UNCHANGED <<request, told>>

Next == Edit \/ \E u \in Users : Ask(u) \/ Carry(u) \/ Refuse(u)

Spec == Init /\ [][Next]_vars
=============================================================================
