---------------------------- MODULE MCAdfPipeline ----------------------------
(* Three steps and one channel: every combination of dependencies on at most *)
(* two steps (a step's own included), producer and consumer; conditions on   *)
(* the channel and on none, of steps that neither produce nor consume it; an *)
(* unknown dependency.  Claims: a reader and a writer of one path and a      *)
(* plain name.                                                               *)
EXTENDS AdfPipeline
CONSTANT x

Pick(D) == IF D \in {Undeclared, {}} THEN None ELSE CHOOSE d \in D : TRUE
Shape(D, p, c, w) ==
  [deps |-> D, first |-> Pick(D), produces |-> p, consumes |-> c, when |-> w]
SomeDeps == {Undeclared} \cup (SUBSET Nodes \ {Nodes})
Unconditional ==
  {Shape(D, p, c, Undeclared) : D \in SomeDeps, p \in {None, x}, c \in {Undeclared, {x}}}
AllShapes ==
  Unconditional
  \cup {Shape(D, None, Undeclared, w) : D \in SomeDeps, w \in {x, None}}
  \cup {Shape({0}, None, Undeclared, Undeclared)}

AllGraphs == [Nodes -> SUBSET Nodes]
ReadWrite == {[kind |-> "file", op |-> "read", path |-> "p"],
              [kind |-> "file", op |-> "write", path |-> "p"]}
Mixed == ReadWrite \cup {[kind |-> "name", op |-> "write", path |-> "q"]}
SamePath == {<<"p", "p">>}
=============================================================================
