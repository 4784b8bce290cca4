----------------------- MODULE MCDelegationIdempotency ----------------------
(* Three calls: all in one process, two of them in one and the third in      *)
(* another process of the same or of another host, or each in its own with   *)
(* two hosts.  They ask for the same, or one asks for something else.        *)
EXTENDS DelegationIdempotency, TLC
CONSTANTS c1, c2, c3, p1, p2, p3, A, B

Together == c1 :> p1 @@ c2 :> p1 @@ c3 :> p1
TwoAndOne == c1 :> p1 @@ c2 :> p1 @@ c3 :> p2
Apart == c1 :> p1 @@ c2 :> p2 @@ c3 :> p3
NearNear == p1 :> "near" @@ p2 :> "near" @@ p3 :> "far"
NearFar == p1 :> "near" @@ p2 :> "far" @@ p3 :> "far"
Same == [c \in Calls |-> A]
OneDiffers == [c \in Calls |-> IF c = c2 THEN B ELSE A]
Placed == {<<Together, NearFar>>, <<TwoAndOne, NearNear>>, <<TwoAndOne, NearFar>>,
           <<Apart, NearNear>>}
SmallDeployments ==
  {[proc |-> l[1], host |-> l[2], payload |-> q] : l \in Placed, q \in {Same, OneDiffers}}
=============================================================================
