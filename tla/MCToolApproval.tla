--------------------------- MODULE MCToolApproval ---------------------------
(* Instances of ToolApproval for TLC.                                       *)
EXTENDS ToolApproval, TLC

RequireApproval == {"require_approval"}

\* Handlers and code texts are interchangeable.
Symmetry == Permutations(Handlers) \cup Permutations(Codes)
=============================================================================
