-------------------------- MODULE ApprovalWorkflow --------------------------
(***************************************************************************)
(* What the approval workflow promises of a tool, as docs/SECURITY.md      *)
(* (Approval Workflow) and docs/guides/approval-workflow.md state it: which *)
(* status may follow which, and that code does not change under an         *)
(* approval.  ToolApproval's handlers implement it when the requests for   *)
(* one tool do not overlap.                                                *)
(***************************************************************************)
CONSTANTS Tools, Codes, NoCode,
          AutoApprove       \* may the admin have chosen auto_approve?

VARIABLES status, code

wvars == <<status, code>>

NotATool == {"none", "deleted"}
OpenForApproval == {"draft", "pending_review", "rejected"}

WInit ==
    /\ status = [t \in Tools |-> "none"]
    /\ code = [t \in Tools |-> NoCode]

Exists(t) == status[t] \notin NotATool

\* Where a tool goes that asks to be (re)viewed.
Queue == {"pending_review"} \cup (IF AutoApprove THEN {"approved"} ELSE {})

MoveTo(t, s) ==
    /\ status' = [status EXCEPT ![t] = s]
    /\ UNCHANGED code

\* LLM tools start as drafts, those of a backup in the queue; the admin's
\* import of an external tool, which has no code, may approve it.
Appear(t, c, s) ==
    /\ status[t] = "none"
    /\ s \in {"draft", "pending_review"} \/ (s = "approved" /\ c = NoCode)
    /\ status' = [status EXCEPT ![t] = s]
    /\ code' = [code EXCEPT ![t] = c]

Submit(t) == status[t] \in {"draft", "rejected"} /\ \E s \in Queue : MoveTo(t, s)
ApproveTool(t) == status[t] \in OpenForApproval /\ MoveTo(t, "approved")
RejectTool(t) == status[t] = "pending_review" /\ MoveTo(t, "rejected")
RevokeApproval(t) == status[t] = "approved" /\ MoveTo(t, "pending_review")

\* New code, or a rollback to any version: back to the queue.
ChangeCode(t, c) ==
    /\ Exists(t)
    /\ code' = [code EXCEPT ![t] = c]
    /\ \E s \in Queue : status' = [status EXCEPT ![t] = s]

\* Code set to null runs nothing and keeps its status.
ClearCode(t) ==
    /\ Exists(t)
    /\ code' = [code EXCEPT ![t] = NoCode]
    /\ UNCHANGED status

Remove(t) ==
    /\ Exists(t)
    /\ status' = [status EXCEPT ![t] = "deleted"]
    /\ code' = [code EXCEPT ![t] = NoCode]

WNext ==
    \E t \in Tools :
        \/ \E c \in Codes \cup {NoCode}, s \in {"draft", "pending_review", "approved"} :
              Appear(t, c, s)
        \/ Submit(t) \/ ApproveTool(t) \/ RejectTool(t) \/ RevokeApproval(t)
        \/ \E c \in Codes \cup {NoCode} : ChangeCode(t, c)
        \/ ClearCode(t)
        \/ Remove(t)

Spec == WInit /\ [][WNext]_wvars
=============================================================================
