------------------------------- MODULE Mutex --------------------------------
(***************************************************************************)
(* What withLock and withLockSync promise their callers: one resource, at  *)
(* most one client in its protected function, entry only when nobody is    *)
(* in it.  A client leaves by returning, by throwing, or because its       *)
(* process stops.                                                          *)
(***************************************************************************)
CONSTANT Clients
VARIABLE holders

Init == holders = {}
Enter(c) == holders = {} /\ holders' = {c}
Leave(c) == holders = {c} /\ holders' = {}
Next == \E c \in Clients : Enter(c) \/ Leave(c)
Spec == Init /\ [][Next]_holders
=============================================================================
