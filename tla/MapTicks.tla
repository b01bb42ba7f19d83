------------------------------ MODULE MapTicks ------------------------------
(***************************************************************************)
(* What the map manager promises the rest of the server: in a tick every   *)
(* loaded map is updated exactly once, and maps are loaded and unloaded    *)
(* only while no map is being updated.                                     *)
(***************************************************************************)
CONSTANT Maps

VARIABLES
    loaded,     \* the maps that exist
    due,        \* the maps this tick has still to update
    mode        \* "between" two ticks, "ticking" or "stopped"

vars == <<loaded, due, mode>>

Init == loaded \in SUBSET Maps /\ due = {} /\ mode = "between"

Load(m) == /\ mode = "between"
           /\ loaded' = loaded \cup {m}
           /\ UNCHANGED <<due, mode>>

BeginTick == /\ mode = "between"
             /\ mode' = "ticking"
             /\ due' = loaded
             /\ UNCHANGED loaded

UpdateMap(m) == /\ mode = "ticking"
                /\ m \in due
                /\ due' = due \ {m}
                /\ UNCHANGED <<loaded, mode>>

EndTick == /\ mode = "ticking"
           /\ due = {}
           /\ mode' = "between"
           /\ loaded' \in SUBSET loaded
           /\ UNCHANGED due

StopAll == /\ mode = "between"
           /\ mode' = "stopped"
           /\ loaded' = {}
           /\ UNCHANGED due

Next == (\E m \in Maps : Load(m) \/ UpdateMap(m)) \/ BeginTick \/ EndTick \/ StopAll

Spec == Init /\ [][Next]_vars
=============================================================================
