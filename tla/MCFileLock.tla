----------------------------- MODULE MCFileLock -----------------------------
(* Small instances of FileLock: every client in a process of its own, or two *)
(* of them sharing one.                                                      *)
EXTENDS FileLock, TLC
CONSTANTS c1, c2, c3, p1, p2, p3

OwnProcess == c1 :> p1 @@ c2 :> p2 @@ c3 :> p3
SharedProcess == c1 :> p1 @@ c2 :> p1 @@ c3 :> p2
=============================================================================
