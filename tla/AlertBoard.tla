----------------------------- MODULE AlertBoard -----------------------------
(***************************************************************************)
(* What store.hpp promises an operator about latched alerts, without       *)
(* samples, averages, clocks or lines.  A session has two alerts; each is  *)
(* open or not.  While a session is hot its excursion is open.  Everybody  *)
(* who watches knows exactly which open alerts there are to act on, and    *)
(* only an acknowledgement closes one.                                     *)
(***************************************************************************)
CONSTANTS Sessions, Watchers

VARIABLES
  hot,       \* sessions whose smoothed temperature is above the threshold
  excursion, \* sessions whose excursion alert is open
  offline,   \* sessions whose OFFLINE alert is open
  watching,  \* registered watchers
  knows      \* the open alerts each watcher has been told of

vars == <<hot, excursion, offline, watching, knows>>

Open == ({"excursion"} \X excursion) \cup ({"offline"} \X offline)

Init ==
  /\ hot = {}
  /\ excursion = {}
  /\ offline = {}
  /\ watching = {}
  /\ knows = [w \in Watchers |-> {}]

\* Every watcher knows the alerts that are open after the step.
Announce == knows' = [w \in Watchers |-> IF w \in watching' THEN Open' ELSE {}]

\* A session's temperature is assessed; it opens the excursion if it is hot.
Assess(s) ==
  /\ hot' \in {hot \cup {s}, hot \ {s}}
  /\ excursion' = excursion \cup (hot' \cap {s})
  /\ UNCHANGED <<offline, watching>>
  /\ Announce

GoneOffline(s) ==
  /\ offline' = offline \cup {s}
  /\ UNCHANGED <<hot, excursion, watching>>
  /\ Announce

\* One acknowledgement: OFFLINE closes, an excursion only if it is over.
Acknowledge(s) ==
  /\ offline' = offline \ {s}
  /\ excursion' = excursion \ ({s} \ hot)
  /\ UNCHANGED <<hot, watching>>
  /\ Announce

Join(w) ==
  /\ watching' = watching \cup {w}
  /\ UNCHANGED <<hot, excursion, offline>>
  /\ Announce

Leave(w) ==
  /\ watching' = watching \ {w}
  /\ UNCHANGED <<hot, excursion, offline>>
  /\ Announce

Next ==
  \/ \E s \in Sessions : Assess(s) \/ GoneOffline(s) \/ Acknowledge(s)
  \/ \E w \in Watchers : Join(w) \/ Leave(w)

Spec == Init /\ [][Next]_vars
=============================================================================
