----------------------------- MODULE LifeCycle -----------------------------
(***************************************************************************)
(* What the service and the application are promised about each session,   *)
(* without workers, completions or references: it is connected, listed,    *)
(* reported, disconnected, reported again and unlisted, each once and in   *)
(* this order, and its object is given up only before the first of these   *)
(* or behind the last.                                                     *)
(***************************************************************************)
EXTENDS Sequences

CONSTANT Sessions   \* the names of session objects

VARIABLES
  up,      \* the sessions that count as connected
  listed,  \* the sessions the service lists
  known,   \* the sessions the application lists
  told     \* what the application has been told of each session

vars == <<up, listed, known, told>>

Opened == <<"OnConnected">>
Ended  == <<"OnConnected", "OnDisconnected">>

Init ==
  /\ up = {}
  /\ listed = {}
  /\ known = {}
  /\ told = [s \in Sessions |-> <<>>]

Connect(s) ==
  /\ s \notin up \cup listed
  /\ told[s] = <<>>
  /\ up' = up \cup {s}
  /\ UNCHANGED <<listed, known, told>>

List(s) ==
  /\ s \in up \ listed
  /\ listed' = listed \cup {s}
  /\ UNCHANGED <<up, known, told>>

\* The application may keep the session from here on.
TellConnected(s) ==
  /\ s \in up \cap listed
  /\ told[s] = <<>>
  /\ told' = [told EXCEPT ![s] = Opened]
  /\ known' \in {known, known \cup {s}}
  /\ UNCHANGED <<up, listed>>

Disconnect(s) ==
  /\ s \in up \cap listed
  /\ told[s] = Opened
  /\ up' = up \ {s}
  /\ UNCHANGED <<listed, known, told>>

TellDisconnected(s) ==
  /\ s \in listed \ up
  /\ told[s] = Opened
  /\ told' = [told EXCEPT ![s] = Ended]
  /\ known' = known \ {s}
  /\ UNCHANGED <<up, listed>>

Unlist(s) ==
  /\ s \in listed \ (up \cup known)
  /\ told[s] = Ended
  /\ listed' = listed \ {s}
  /\ UNCHANGED <<up, known, told>>

\* The object of s is gone and another takes its name: s had never been
\* connected, or all is over.
Renew(s) ==
  /\ s \notin up \cup listed \cup known
  /\ told[s] \in {<<>>, Ended}
  /\ told' = [told EXCEPT ![s] = <<>>]
  /\ UNCHANGED <<up, listed, known>>

Next ==
  \E s \in Sessions :
    \/ Connect(s) \/ List(s) \/ TellConnected(s)
    \/ Disconnect(s) \/ TellDisconnected(s) \/ Unlist(s)
    \/ Renew(s)

Spec == Init /\ [][Next]_vars
=============================================================================
