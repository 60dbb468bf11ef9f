------------------------ MODULE MCPipelineLifecycle ------------------------
(***************************************************************************)
(* Instances of PipelineLifecycle for TLC.                                 *)
(***************************************************************************)
EXTENDS PipelineLifecycle

MCReplayFrom == [r \in Replays |-> 2]
MCBackfillBlocks == {2}
MCTwoBlocks == {1, 2}
====
