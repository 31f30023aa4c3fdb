----------------------------- MODULE MCHousehold -----------------------------
(***************************************************************************)
(* Two members with a turn each. The initial state chooses what a          *)
(* behaviour is about: the retries and crashes of ann's turn, bob being    *)
(* there and left alone, or the turns and deletions of both, with one      *)
(* attempt each and no fault.                                              *)
(***************************************************************************)
EXTENDS MCMemoryDeletion

VARIABLE about

Bounds ==
    \/ about = "retries" /\ nextTurn <= 2 /\ identity[bob] = "active"
    \/ about = "members" /\ faults = 0 /\ \A j \in Jobs : attempts[j] <= 1

HouseholdInit == Init /\ about \in {"retries", "members"}
HouseholdNext == Next /\ UNCHANGED about /\ Bounds'
HouseholdSpec == HouseholdInit /\ [][HouseholdNext]_<<about, vars>>
=============================================================================
