----------------------------- MODULE Lifecycle -----------------------------
(***************************************************************************)
(* The two state machines of app/domain: which status a player or a room   *)
(* may go to from which (player_state_machine.py, room_state_machine.py).  *)
(***************************************************************************)

PlayerLifecycles == {"joined", "ready", "running", "offline", "left", "reconnected"}

AllowedPlayerTransitions ==
  [joined      |-> {"ready", "offline", "left"},
   ready       |-> {"running", "offline", "left"},
   running     |-> {"offline", "left"},
   offline     |-> {"reconnected", "left"},
   reconnected |-> {"running", "ready", "left"},
   left        |-> {}]

CanPlayerGo(from, to) == to \in AllowedPlayerTransitions[from]

MatchStatuses == {"waiting", "running", "ended"}

AllowedRoomTransitions ==
  [waiting |-> {"running"}, running |-> {"ended"}, ended |-> {}]

CanRoomGo(from, to) == to \in AllowedRoomTransitions[from]
============================================================================
