---------------------------- MODULE ToolApproval ----------------------------
(***************************************************************************)
(* The tool table of the backend and the request handlers that write it:   *)
(* ToolService (services/tool.py) and the tool half of ApprovalService     *)
(* (services/approval.py).                                                 *)
(*                                                                         *)
(* Every handler runs in its own SQLAlchemy session (core/database.py):    *)
(* it SELECTs the tool row, works on that loaded copy across awaits, and   *)
(* flushes.  A flush sends only the attributes whose new value differs     *)
(* from the LOADED one, waits for the row lock of a handler that flushed   *)
(* before it, and lands on the row as it is then (READ COMMITTED, no       *)
(* version column).  The lock is held until the transaction ends.  So an   *)
(* operation is several steps here: the load with its guard, reading the   *)
(* approval mode, the flush, the commit - or the rollback of everything.   *)
(***************************************************************************)
EXTENDS Integers, FiniteSets

CONSTANTS
    Tools,          \* tool ids; an id is never used again after a delete
    Handlers,       \* concurrently running requests
    Codes,          \* distinct python_code texts
    NoCode,         \* python_code IS NULL
    NoHandler,      \* the owner of a row lock nobody holds
    Modes,          \* values the admin may give the setting tool_approval_mode
    Operations,     \* the operations requests may ask for
    Overlap,        \* may requests for the same tool overlap?
    MaxVersion      \* bound: no edit starts that would pass this version

Statuses == {"draft", "pending_review", "approved", "rejected"}
Kinds == {"python_code", "mcp_passthrough"}
AllModes == {"require_approval", "auto_approve"}
Edits == {"update", "rollback"}
Reviews == {"request_publish", "approve", "reject", "revoke"}
AllOperations == Edits \cup Reviews \cup {"delete"}

ASSUME ConstantsOK ==
    /\ Tools # {}
    /\ NoCode \notin Codes
    /\ NoHandler \notin Handlers
    /\ Modes \subseteq AllModes /\ Modes # {}
    /\ Operations \subseteq AllOperations
    /\ Overlap \in BOOLEAN
    /\ MaxVersion \in Nat \ {0}

VARIABLES
    life,       \* life[t]: "none", "live" (a committed row), "deleted"
    row,        \* row[t]: the committed row of a live tool
    versions,   \* versions[t]: the committed tool_versions entries of t
    lock,       \* lock[t]: the handler whose transaction wrote the row
    mode,       \* the committed tool_approval_mode
    h           \* h[p]: what the session of handler p holds

vars == <<life, row, versions, lock, mode, h>>
-----------------------------------------------------------------------------
MaybeCode == Codes \cup {NoCode}

\* The columns of models/tool.py the approval workflow reads or writes;
\* "enabled" stands for the metadata columns (name, description, timeout_ms).
Row == [status : Statuses, code : MaybeCode, enabled : BOOLEAN,
        version : Nat, kind : Kinds]

Version == [number : Nat, code : MaybeCode, enabled : BOOLEAN]

\* The attribute values a handler has assigned to its loaded object; a status
\* is "unset" when it has assigned none.
Want == [status : Statuses \cup {"unset"}, code : MaybeCode, enabled : BOOLEAN]

Pcs == {"idle", "target", "decide", "flush", "commit"}

NoRow == [status |-> "draft", code |-> NoCode, enabled |-> TRUE,
          version |-> 0, kind |-> "python_code"]

Idle == [pc |-> "idle", op |-> "none", tool |-> CHOOSE t \in Tools : TRUE,
         seen |-> NoRow, want |-> [status |-> "unset", code |-> NoCode, enabled |-> TRUE]]

Keep(r) == [status |-> "unset", code |-> r.code, enabled |-> r.enabled]

Init ==
    /\ life = [t \in Tools |-> "none"]
    /\ row = [t \in Tools |-> NoRow]
    /\ versions = [t \in Tools |-> {}]
    /\ lock = [t \in Tools |-> NoHandler]
    /\ mode \in Modes
    /\ h = [p \in Handlers |-> Idle]
-----------------------------------------------------------------------------
(* Tools come into being in one transaction nobody else can interfere with: *)
(* the id is fresh, and the row is invisible until it is committed.         *)

NewTool(t, r) ==
    /\ life[t] = "none"
    /\ life' = [life EXCEPT ![t] = "live"]
    /\ row' = [row EXCEPT ![t] = r]

\* ToolService.create; the import of a backup then marks the tool
\* pending_review in the same transaction.
Create(t, c, s) ==
    /\ NewTool(t, [status |-> s, code |-> c, enabled |-> TRUE,
                   version |-> 1, kind |-> "python_code"])
    /\ versions' = [versions EXCEPT
                      ![t] = {[number |-> 1, code |-> c, enabled |-> TRUE]}]
    /\ UNCHANGED <<lock, mode, h>>

\* ExternalMCPSourceService.import_tools: no code and no first version entry;
\* approved at once when the admin imports.
ImportTool(t, s) ==
    /\ NewTool(t, [status |-> s, code |-> NoCode, enabled |-> TRUE,
                   version |-> 1, kind |-> "mcp_passthrough"])
    /\ UNCHANGED <<versions, lock, mode, h>>

\* The admin writes the security policy.
SetMode(m) ==
    /\ m # mode
    /\ mode' = m
    /\ UNCHANGED <<life, row, versions, lock, h>>
-----------------------------------------------------------------------------
(* A request begins: it loads the row and checks the operation's guard.  A  *)
(* request whose guard fails returns an error and changes nothing.          *)

OnTool(t) == {p \in Handlers : h[p].pc # "idle" /\ h[p].tool = t}

EditsInFlight(t) == {p \in OnTool(t) : h[p].op \in Edits}

Begin(p, t, op, want, pc) ==
    /\ op \in Operations
    /\ life[t] = "live"
    /\ h[p].pc = "idle"
    /\ Overlap \/ OnTool(t) = {}
    /\ h' = [h EXCEPT ![p] = [pc |-> pc, op |-> op, tool |-> t,
                              seen |-> row[t], want |-> want]]
    /\ UNCHANGED <<life, row, versions, lock, mode>>

Room(t) == row[t].version + Cardinality(EditsInFlight(t)) < MaxVersion

\* ToolService.update: the patch is the code and the metadata it asks for,
\* which differ from the loaded ones (else "No changes, skip versioning").
\* Only new, non-null code consults the approval mode.
Update(p, t, c, e) ==
    /\ Room(t)
    /\ c # row[t].code \/ e # row[t].enabled
    /\ Begin(p, t, "update", [status |-> "unset", code |-> c, enabled |-> e],
             IF c # NoCode /\ c # row[t].code THEN "decide" ELSE "flush")

\* ToolService.rollback begins; the target version is a second SELECT.
Rollback(p, t) ==
    /\ Room(t)
    /\ Begin(p, t, "rollback", Keep(row[t]), "target")

\* The admin endpoint wants a version older than the one it loaded, the MCP
\* tool any version that exists.  If the target changes anything, reading the
\* approval mode autoflushes it, and so takes the row lock first.
PickVersion(p, v) ==
    LET t == h[p].tool
        differs == v.code # h[p].seen.code \/ v.enabled # h[p].seen.enabled
    IN  /\ h[p].pc = "target"
        /\ v \in versions[t]
        /\ h' = [h EXCEPT ![p].want = [status |-> "unset", code |-> v.code,
                                       enabled |-> v.enabled],
                          ![p].pc = IF differs THEN "flush" ELSE "decide"]
        /\ UNCHANGED <<life, row, versions, lock, mode>>

\* The version asked for does not exist: rollback returns None.
NoSuchVersion(p) ==
    /\ h[p].pc = "target"
    /\ h' = [h EXCEPT ![p] = Idle]
    /\ UNCHANGED <<life, row, versions, lock, mode>>

\* ApprovalService.request_publish: the request time it assigns is
\* autoflushed when the mode is read.
RequestPublish(p, t) ==
    /\ row[t].status \in {"draft", "rejected"}
    /\ Begin(p, t, "request_publish", Keep(row[t]), "flush")

Review(p, t, op, from, to) ==
    /\ row[t].status \in from
    /\ Begin(p, t, op, [Keep(row[t]) EXCEPT !.status = to], "flush")

\* Mutant of RejectTool: an approved tool can be rejected.
RejectAlsoApproved(p, t) == Review(p, t, "reject", {"pending_review", "approved"}, "rejected")

ApproveTool(p, t) == Review(p, t, "approve", {"pending_review", "draft", "rejected"}, "approved")
RejectTool(p, t) == Review(p, t, "reject", {"pending_review"}, "rejected")
RevokeToolApproval(p, t) == Review(p, t, "revoke", {"approved"}, "pending_review")

\* ToolService.delete
Delete(p, t) == Begin(p, t, "delete", Keep(row[t]), "flush")
-----------------------------------------------------------------------------
(* The rest of the transaction.                                             *)

\* The status a handler assigns once it has read the mode.
GetApprovalMode(p) ==
    /\ h[p].pc = "decide"
    /\ h' = [h EXCEPT ![p].want.status =
                          IF mode = "auto_approve" THEN "approved" ELSE "pending_review",
                      ![p].pc = IF lock[h[p].tool] = p THEN "commit" ELSE "flush"]
    /\ UNCHANGED <<life, row, versions, lock, mode>>

\* Does the handler still have the mode to read after its first flush?
Undecided(p) ==
    /\ h[p].want.status = "unset"
    /\ h[p].op \in {"rollback", "request_publish"}

Flush(p) ==
    LET t == h[p].tool
    IN  /\ h[p].pc = "flush"
        /\ life[t] = "live"
        /\ lock[t] = NoHandler
        /\ lock' = [lock EXCEPT ![t] = p]
        /\ h' = [h EXCEPT ![p].pc = IF Undecided(p) THEN "decide" ELSE "commit"]
        /\ UNCHANGED <<life, row, versions, mode>>

\* The row was deleted before the UPDATE found it (StaleDataError) or before
\* a second DELETE did: the handler ends and has changed nothing.
RowGone(p) ==
    /\ h[p].pc = "flush"
    /\ life[h[p].tool] # "live"
    /\ h' = [h EXCEPT ![p] = Idle]
    /\ UNCHANGED <<life, row, versions, lock, mode>>

\* The columns a flush writes are those assigned a value other than the
\* loaded one; the others keep what is in the row.
Written(current, loaded, wanted) == IF wanted = loaded THEN current ELSE wanted

\* Mutant of NewRow: the version is incremented in Python, on the loaded row.
NewRowPythonIncrement(r, seen, want, op) ==
    [status |-> IF want.status = "unset" THEN r.status
                ELSE Written(r.status, seen.status, want.status),
     code |-> Written(r.code, seen.code, want.code),
     enabled |-> Written(r.enabled, seen.enabled, want.enabled),
     version |-> IF op \in Edits THEN seen.version + 1 ELSE r.version,
     kind |-> r.kind]

\* Mutant of NewRow: an UPDATE writes every column of the object.
NewRowWhole(r, seen, want, op) ==
    [status |-> IF want.status = "unset" THEN seen.status ELSE want.status,
     code |-> want.code,
     enabled |-> want.enabled,
     version |-> IF op \in Edits THEN r.version + 1 ELSE r.version,
     kind |-> r.kind]

\* The version number is incremented by an SQL expression, on the row as it is.
NewRow(r, seen, want, op) ==
    [status |-> IF want.status = "unset" THEN r.status
                ELSE Written(r.status, seen.status, want.status),
     code |-> Written(r.code, seen.code, want.code),
     enabled |-> Written(r.enabled, seen.enabled, want.enabled),
     version |-> IF op \in Edits THEN r.version + 1 ELSE r.version,
     kind |-> r.kind]

\* The row of t as the transaction of p leaves it.
RowAfter(p) == NewRow(row[h[p].tool], h[p].seen, h[p].want, h[p].op)

\* ToolService._create_version copies the refreshed row.
Entry(r) == [number |-> r.version, code |-> r.code, enabled |-> r.enabled]

\* Mutant of EndTransaction: the session is not closed.
EndWithoutRelease(p) ==
    /\ h' = [h EXCEPT ![p] = Idle]
    /\ UNCHANGED lock

EndTransaction(p) ==
    /\ lock' = [lock EXCEPT ![h[p].tool] = NoHandler]
    /\ h' = [h EXCEPT ![p] = Idle]

Commit(p) ==
    LET t == h[p].tool
    IN  /\ h[p].pc = "commit"
        /\ h[p].op # "delete"
        /\ row' = [row EXCEPT ![t] = RowAfter(p)]
        /\ versions' = [versions EXCEPT
                          ![t] = IF h[p].op \in Edits THEN @ \cup {Entry(RowAfter(p))} ELSE @]
        /\ EndTransaction(p)
        /\ UNCHANGED <<life, mode>>

\* tool_versions rows go with their tool (ON DELETE CASCADE).
CommitDelete(p) ==
    LET t == h[p].tool
    IN  /\ h[p].pc = "commit"
        /\ h[p].op = "delete"
        /\ life' = [life EXCEPT ![t] = "deleted"]
        /\ row' = [row EXCEPT ![t] = NoRow]
        /\ versions' = [versions EXCEPT ![t] = {}]
        /\ EndTransaction(p)
        /\ UNCHANGED mode

\* Mutant of Abort: the exception path does not roll back.
AbortWithoutRollback(p) ==
    /\ h[p].pc # "idle"
    /\ h' = [h EXCEPT ![p] = Idle]
    /\ UNCHANGED <<life, row, versions, lock, mode>>

\* An exception or the cancellation of the request: get_db rolls the session
\* back.
Abort(p) ==
    /\ h[p].pc # "idle"
    /\ lock' = [lock EXCEPT ![h[p].tool] = IF @ = p THEN NoHandler ELSE @]
    /\ h' = [h EXCEPT ![p] = Idle]
    /\ UNCHANGED <<life, row, versions, mode>>
-----------------------------------------------------------------------------
BeginSome(p, t) ==
    \/ \E c \in Codes \cup {NoCode}, e \in BOOLEAN : Update(p, t, c, e)
    \/ Rollback(p, t)
    \/ RequestPublish(p, t)
    \/ ApproveTool(p, t)
    \/ RejectTool(p, t)
    \/ RevokeToolApproval(p, t)
    \/ Delete(p, t)

Proceed(p) ==
    \/ \E v \in versions[h[p].tool] : PickVersion(p, v)
    \/ NoSuchVersion(p)
    \/ GetApprovalMode(p)
    \/ Flush(p)
    \/ RowGone(p)
    \/ Commit(p)
    \/ CommitDelete(p)

NewSome(t) ==
    \/ \E c \in Codes, s \in {"draft", "pending_review"} : Create(t, c, s)
    \/ \E s \in {"draft", "approved"} : ImportTool(t, s)

Next ==
    \/ \E t \in Tools : NewSome(t)
    \/ \E m \in Modes : SetMode(m)
    \/ \E p \in Handlers, t \in Tools : BeginSome(p, t)
    \/ \E p \in Handlers : Proceed(p)
    \/ \E p \in Handlers : Abort(p)

Spec == Init /\ [][Next]_vars

\* The event loop resumes a handler whose await is done, and PostgreSQL queues
\* those who wait for a row lock, so a lock that keeps being released is had in
\* the end.  Nothing obliges a request to fail.
Fairness == \A p \in Handlers : WF_vars(Proceed(p)) /\ SF_vars(Flush(p))

FairSpec == Spec /\ Fairness
-----------------------------------------------------------------------------
(* Properties.                                                              *)

\* Types, and a lock owner is a handler that works on that tool.
TypeOK ==
    /\ life \in [Tools -> {"none", "live", "deleted"}]
    /\ row \in [Tools -> Row]
    /\ versions \in [Tools -> SUBSET Version]
    /\ lock \in [Tools -> Handlers \cup {NoHandler}]
    /\ mode \in Modes
    /\ h \in [Handlers -> [pc : Pcs, op : AllOperations \cup {"none"}, tool : Tools,
                           seen : Row, want : Want]]
    /\ \A t \in Tools : lock[t] # NoHandler =>
          h[lock[t]].tool = t /\ h[lock[t]].pc \in {"decide", "commit"}

\* The first version an entry exists for: the import of external tools writes
\* none for the first.
FirstEntry(kind) == IF kind = "mcp_passthrough" THEN 2 ELSE 1

\* However updates and rollbacks of one tool overlap, its history has exactly
\* one entry for every version up to current_version, and the newest entry is
\* the state of the tool ("increment version number atomically to prevent race
\* conditions", services/tool.py).
VersionHistory ==
    \A t \in Tools : life[t] = "live" =>
        /\ {v.number : v \in versions[t]} = FirstEntry(row[t].kind) .. row[t].version
        /\ \A v, w \in versions[t] : v.number = w.number => v = w
        /\ \A v \in versions[t] : v.number = row[t].version => v = Entry(row[t])

StaysLive(t) == life[t] = "live" /\ life'[t] = "live"

\* The status of a tool becomes approved only when a handler commits that decided
\* so - not one that merely loaded the tool as approved, before a revocation - and
\* while every approval needs the admin, that is a handler of approve: no update,
\* rollback or request_publish brings an approval (back).
ApprovedBy(p, t) ==
    /\ h[p].tool = t /\ h'[p] = Idle
    /\ h[p].want.status = "approved"
    /\ h[p].op = "approve" \/ "auto_approve" \in Modes

OnlyApproveApproves ==
    [][\A t \in Tools :
         (StaysLive(t) /\ row[t].status # "approved" /\ row'[t].status = "approved")
         => \E p \in Handlers : ApprovedBy(p, t)]_vars

\* Under require_approval a change of the code of an approved tool takes the
\* approval away (SEC-001 in services/tool.py, docs/SECURITY.md).
CodeChangeResetsApproval ==
    [][\A t \in Tools :
         (Modes = {"require_approval"} /\ StaysLive(t)
            /\ row[t].status = "approved" /\ row'[t].code \notin {row[t].code, NoCode})
         => row'[t].status # "approved"]_vars

\* Every request ends: no handler waits for a row lock forever.
RequestsEnd == \A p \in Handlers : (h[p].pc # "idle") ~> (h[p].pc = "idle")

\* When requests for one tool do not overlap, the handlers implement the
\* workflow the documentation draws.
Workflow == INSTANCE ApprovalWorkflow WITH
    AutoApprove <- "auto_approve" \in Modes,
    status <- [t \in Tools |-> IF life[t] = "live" THEN row[t].status ELSE life[t]],
    code <- [t \in Tools |-> row[t].code]

ImplementsWorkflow == Workflow!Spec
=============================================================================
