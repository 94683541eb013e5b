----------------------------- MODULE MCPipeline ------------------------------
(* The pipeline from the WAL to the store, for PipelineFlow. *)
EXTENDS Pipeline
=============================================================================
