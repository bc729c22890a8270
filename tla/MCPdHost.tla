------------------------------ MODULE MCPdHost ------------------------------
(***************************************************************************)
(* Requests on small machines under each of the three schedulers.          *)
(***************************************************************************)
EXTENDS PdHost

\* All prompts are there at the start, with one chunk each; one pipeline of two
\* stages for each job, and a credit of one.
Pipelines ==
  [mode |-> "PDS", requests |-> 3, late |-> FALSE,
   prefillCores |-> 2, prefillStages |-> 2, decodeCores |-> 2, decodeStages |-> 2,
   prefillIters |-> 1, decodeIters |-> 2, credit |-> 1, ratio |-> 1, prims |-> 1]

\* Prompts of two chunks arrive at any time for two prefill pipelines of two
\* stages; one decode follows.
LateArrivals ==
  [Pipelines EXCEPT !.requests = 2, !.late = TRUE, !.prefillCores = 4, !.credit = 2,
                    !.prefillIters = 2, !.decodeIters = 1]

\* Mixed batches of a chunk and a decode in a pipeline of two stages, and of two
\* chunks in two such pipelines.
Fused ==
  [LateArrivals EXCEPT !.mode = "PD", !.requests = 3, !.prefillCores = 0,
                       !.prefillIters = 3, !.decodeIters = 2, !.credit = 3, !.ratio = 2]
FusedPipes == [Fused EXCEPT !.requests = 2, !.decodeCores = 4, !.prefillIters = 2,
                            !.credit = 2, !.ratio = 1]

\* A stream of two primitives, room for two chunks.
Gpu ==
  [Fused EXCEPT !.mode = "GPU_PD", !.decodeCores = 1, !.decodeStages = 1,
                !.credit = 2, !.ratio = 1, !.prims = 2]

MCSetups == {Pipelines, LateArrivals, Fused, FusedPipes, Gpu}
IdleSetups == {LateArrivals}
=============================================================================
