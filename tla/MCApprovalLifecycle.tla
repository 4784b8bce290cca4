------------------------ MODULE MCApprovalLifecycle ------------------------
(* Two approvals of one pipeline step next to a charter; a secret mutation;  *)
(* a workflow that any of two roles may answer; a consumed approval behind a *)
(* veto window, one that pauses outside the active hours, one that is a      *)
(* shadow; a steering request.                                               *)
EXTENDS ApprovalLifecycle, TLC
CONSTANTS r1, r2, p1, p2, p3

Always == 0..(MaxTime + MaxScan)
Kind(route, veto, roles, active, expires) ==
  [route |-> route, veto |-> veto, roles |-> roles, expires |-> expires, active |-> active]
Plain(route) == Kind(route, "none", {}, Always, 2)

OneStep == {r1 :> Plain("exec") @@ r2 :> Plain("exec")}
AnyOf == {r1 :> Kind("apply", "none", {"owner", "approver"}, Always, 3)}
Secret == {r1 :> Plain("secret"), r1 :> Kind("secret", "none", {"sovereign"}, Always, 2)}
Vetoed ==
  {r1 :> Kind("consume", "window", {}, Always, 3),
   r1 :> Kind("consume", "window", {}, Always \ {1}, 4),
   r1 :> Kind("apply", "shadow", {}, Always, 4),
   r1 :> Kind("steer", "window", {}, {0}, 4)}
AllSetups == OneStep \cup AnyOf \cup Secret \cup Vetoed \cup {r1 :> Plain("steer")}
Symmetry == Permutations({p1, p2, p3})
=============================================================================
