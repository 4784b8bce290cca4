----------------------------- MODULE EffectSlot -----------------------------
(***************************************************************************)
(* What an authorization promises about the effect it guards: the effect   *)
(* is claimed before it starts, it starts at most once, and a claim is     *)
(* never given back, not even when its owner dies before or in the effect. *)
(***************************************************************************)
EXTENDS Naturals

VARIABLES claimed, runs
vars == <<claimed, runs>>

Init == claimed = FALSE /\ runs = 0
Claim == ~claimed /\ claimed' = TRUE /\ UNCHANGED runs
Run == claimed /\ runs = 0 /\ runs' = 1 /\ UNCHANGED claimed
Next == Claim \/ Run
Spec == Init /\ [][Next]_vars
=============================================================================
