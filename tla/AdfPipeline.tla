----------------------------- MODULE AdfPipeline -----------------------------
(***************************************************************************)
(* The graph branch of executeAdfStepsInternal                             *)
(* (libs/core/pipeline/adf-engine.ts): a pipeline of steps is derived into *)
(* an execution graph (ExecutionGraph), refused with GRAPH_PREFLIGHT if    *)
(* the derivation has an error other than a missing channel, and otherwise *)
(* handed to executeGraph (GraphScheduler) with the dependencies that were *)
(* derived.  The steps and the edges are not looked at again.              *)
(*                                                                         *)
(* Which nodes are restored or blocked, and how a step's output is merged, *)
(* is for the caller to say.                                               *)
(***************************************************************************)
EXTENDS ExecutionGraph, GraphScheduler

pipelineVars == <<deriveVars, vars>>

\* Nothing is scheduled yet.
PipelineInit ==
  /\ DeriveInit
  /\ deps = [n \in Nodes |-> {}] /\ restored = {}
  /\ merge = [n \in Nodes |-> CHOOSE p \in Policies : TRUE]
  /\ status = [n \in Nodes |-> "pending"]
  /\ held = [n \in Nodes |-> {}] /\ claimsInUse = [c \in Claims |-> 0]
  /\ context = NoContext /\ given = [n \in Nodes |-> NoContext]
  /\ at = 1 /\ progressed = FALSE
  /\ phase = "preflight"

\* deriveExecutionGraph.
Derive == phase = "preflight" /\ DeriveNext /\ UNCHANGED vars

\* The derivation's own state is not used any more.
Dropped ==
  /\ steps' = <<>> /\ edges' = {} /\ errors' = {}
  /\ remaining' = [i \in Nodes |-> 0] /\ queue' = {} /\ visited' = {}
  /\ UNCHANGED done

hardGraphErrors == errors \ {"missing-channel"}
\* [GRAPH_PREFLIGHT]
Refuse ==
  /\ phase = "preflight" /\ done /\ hardGraphErrors # {}
  /\ phase' = "refused"
  /\ Dropped
  /\ UNCHANGED <<graph, status, held, claimsInUse, context, given, at, progressed>>

Accept ==
  /\ phase = "preflight" /\ done /\ hardGraphErrors = {}
  /\ deps' = [n \in Nodes |-> Dependencies(edges, n)]
  /\ phase' = "begin"
  /\ Dropped
  /\ UNCHANGED <<merge, restored, status, held, claimsInUse, context, given, at, progressed>>

\* executeGraph begins.
Begin ==
  /\ phase = "begin"
  /\ merge' \in [Nodes -> Policies] /\ restored' \in SUBSET Nodes
  /\ \E blocked \in SUBSET (Nodes \ restored') : status' = Statuses(restored', blocked)
  /\ \E rehydrated \in SUBSET restored' : context' = ContextWith(rehydrated)
  /\ phase' = "head"
  /\ UNCHANGED <<deriveVars, deps, held, claimsInUse, given, at, progressed>>

Preflight == Derive \/ Refuse \/ Accept \/ Begin
Schedule == Next /\ UNCHANGED deriveVars

PipelineNext == Preflight \/ Schedule
\* The event loop runs the turns of the engine and of the scheduler, and every
\* handler settles.
PipelineSpec ==
  /\ PipelineInit /\ [][PipelineNext]_pipelineVars
  /\ WF_pipelineVars(Preflight)
  /\ WF_pipelineVars(SchedulerStep /\ UNCHANGED deriveVars)
  /\ WF_pipelineVars((\E n \in Nodes : Settle(n)) /\ UNCHANGED deriveVars)
-----------------------------------------------------------------------------
\* executeGraph: every pipeline is refused by the preflight, or its run ends, if
\* every handler settles.
PipelineEnds == <>(Ended \/ phase = "refused")
=============================================================================
