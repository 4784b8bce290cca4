--------------------------- MODULE MCWriterLease ----------------------------
(* Three writers, two of which share an ownerId; w3 uses the synchronous API. *)
EXTENDS WriterLease, TLC
CONSTANTS w1, w2, w3, o1, o2
Owners == w1 :> o1 @@ w2 :> o1 @@ w3 :> o2
=============================================================================
