------------------------------- MODULE Channel ------------------------------
(***************************************************************************)
(* What the user of a stream client relies on, without libuv: a connection *)
(* is opened, reported up or failed at most once, carries writes only      *)
(* while it is up, and ends with one on_close once no write is            *)
(* outstanding; then it may be opened again.                               *)
(***************************************************************************)
CONSTANT Write

VARIABLES phase,    \* "idle", "opening", "up", "down"
          out,      \* writes not yet answered
          told      \* notifications of this connection

vars == <<phase, out, told>>

Init ==
  /\ phase = "idle"
  /\ out = {}
  /\ told = {}

\* The call may fail at once, which leaves the channel idle.
Open ==
  /\ phase = "idle"
  /\ phase' \in {"idle", "opening"}
  /\ told' = {}
  /\ UNCHANGED out

Up ==
  /\ phase = "opening"
  /\ told = {}
  /\ phase' = "up"
  /\ told' = {"up"}
  /\ UNCHANGED out

Failed ==
  /\ phase \in {"opening", "down"}
  /\ told = {}
  /\ phase' = "down"
  /\ told' = {"failed"}
  /\ UNCHANGED out

Down ==
  /\ phase \in {"opening", "up"}
  /\ phase' = "down"
  /\ UNCHANGED <<out, told>>

\* The opening is abandoned and nobody is told.
Dropped ==
  /\ phase = "opening"
  /\ told = {}
  /\ phase' = "idle"
  /\ UNCHANGED <<out, told>>

Submit(w) ==
  /\ phase = "up"
  /\ out' = out \cup {w}
  /\ UNCHANGED <<phase, told>>

Complete(w) ==
  /\ out' = out \ {w}
  /\ UNCHANGED <<phase, told>>

Ended ==
  /\ phase = "down" \/ (phase = "opening" /\ told = {})
  /\ out = {}
  /\ "closed" \notin told
  /\ phase' = "idle"
  /\ told' = told \cup {"closed"}
  /\ UNCHANGED out

Next ==
  \/ Open \/ Up \/ Failed \/ Down \/ Dropped \/ Ended
  \/ \E w \in Write : Submit(w) \/ Complete(w)

Spec == Init /\ [][Next]_vars
=============================================================================
