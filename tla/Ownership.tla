----------------------------- MODULE Ownership ------------------------------
(***************************************************************************)
(* What the gateway promises about an obscura child process, whatever the  *)
(* handlers do: it is launched once, has one holder at a time, is handed   *)
(* from the creating handler to the runtimes map and from the map to one   *)
(* reaper, and is never held again once it is let go or has ended.         *)
(* src/gateway.rs gets this from moving the Child value of ManagedSession. *)
(***************************************************************************)
CONSTANTS Sessions,
          MayLose   \* may a holder vanish and leave the process running?

VARIABLE holder

Holder == {"unborn", "creator", "map", "reaper", "lost", "gone"}
Held == {"creator", "map", "reaper"}

Init == holder = [s \in Sessions |-> "unborn"]

Pass(s, from, to) ==
  /\ holder[s] \in from
  /\ \E h \in to : holder' = [holder EXCEPT ![s] = h]

Launch(s) == Pass(s, {"unborn"}, {"creator"})
Publish(s) == Pass(s, {"creator"}, {"map"})
Take(s) == Pass(s, {"map"}, {"reaper"})
End(s) == Pass(s, {"creator", "reaper"}, {"gone"})
Lose(s) == MayLose /\ Pass(s, {"creator", "reaper"}, {"lost", "gone"})
ExitUnseen(s) == Pass(s, {"lost"}, {"gone"})

\* The gateway process dies: every holder with it
LoseAll ==
  /\ MayLose
  /\ holder' \in [Sessions -> Holder]
  /\ \A s \in Sessions : IF holder[s] \in Held THEN holder'[s] \in {"lost", "gone"}
                         ELSE holder'[s] = holder[s]

Next == LoseAll \/ \E s \in Sessions : \/ Launch(s) \/ Publish(s) \/ Take(s) \/ End(s)
                                       \/ Lose(s) \/ ExitUnseen(s)

Spec == Init /\ [][Next]_holder
=============================================================================
