-------------------------- MODULE MCToolPublishing --------------------------
(* Instances of ToolPublishing for TLC.                                     *)
EXTENDS ToolPublishing, TLC

RequireApproval == {"require_approval"}

\* The operations after which the code registers what changed.
RegisteringOperations == AllOperations \ {"rollback"}
RunningServerOps == AllServerOps \ {"delete_server"}
FilteringServerOps == AllServerOps \ Unfiltered

Symmetry == Permutations(Handlers) \cup Permutations(Codes)
=============================================================================
