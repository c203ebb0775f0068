--------------------------- MODULE ToolPublishing ---------------------------
(***************************************************************************)
(* How the tools of a server reach the sandbox that runs them: the backend *)
(* handlers of ToolApproval composed with the server's status, the         *)
(* sandbox's in-memory registry (sandbox/app/registry.py), and the         *)
(* handlers that start, stop, restart, delete and recover the server.      *)
(*                                                                         *)
(* A registration is read - snapshot - send: the handler selects the       *)
(* server and its tools, then calls the sandbox over HTTP, and the call    *)
(* replaces everything the sandbox knows of the server.  The session's     *)
(* identity map keeps the rows it loaded first, so what a handler selects  *)
(* again it sees as it was.  update and delete register BEFORE they        *)
(* commit, under the row lock, and see their own uncommitted row; approve, *)
(* revoke and an auto-approved request_publish register AFTER it; rollback *)
(* and reject register nothing.                                            *)
(***************************************************************************)
EXTENDS ToolApproval

CONSTANTS
    NotRegistered,   \* the sandbox does not know the server
    ServerOps,       \* the server operations requests may ask for
    Serial,          \* is one request answered before the next begins?
    Failures         \* may sandbox calls, requests and the sandbox fail?

Unfiltered == {"start_admin", "restart"}
AllServerOps == {"start_admin", "start_mcp", "stop", "restart", "recover", "delete_server"}

ASSUME PublishingConstantsOK ==
    /\ ServerOps \subseteq AllServerOps
    /\ Serial \in BOOLEAN
    /\ Failures \in BOOLEAN
    /\ \A S \in SUBSET Tools : NotRegistered \notin [S -> MaybeCode]

VARIABLES
    server,         \* the committed status of the server, or "deleted"
    sandbox,        \* what the sandbox has registered: tool -> code
    g,              \* g[p]: the publishing half of handler p
    everApproved,   \* history: the code t was ever committed approved with
    unfiltered      \* history: is what the sandbox has an unfiltered registration?

pvars == <<life, row, versions, lock, mode, h, server, sandbox, g, everApproved, unfiltered>>
tvars == <<life, row, versions, lock, mode, h>>

Pipeline == {"none", "reread", "unregister", "list", "send", "status", "ready"}

Nothing == <<>>     \* the function with the empty domain

\* loaded: the server status the session loaded ("unread" if it has not);
\* copy: the tool rows in its identity map; defs: the registration to send.
Free == [pc |-> "none", op |-> "none", loaded |-> "unread", copy |-> Nothing, defs |-> Nothing]

PInit ==
    /\ Init
    /\ server = "imported"
    /\ sandbox = NotRegistered
    /\ g = [p \in Handlers |-> Free]
    /\ everApproved = [t \in Tools |-> {}]
    /\ unfiltered = FALSE
-----------------------------------------------------------------------------
Live == {t \in Tools : life[t] = "live"}

Busy(p) == h[p].pc # "idle" \/ g[p].pc # "none"
MayBegin(p) == ~Busy(p) /\ (Serial => \A q \in Handlers : ~Busy(q))

\* Mutant of Active: the status is not looked at.
ActiveWhateverStatus(r) == r.enabled

Active(r) == r.enabled /\ r.status = "approved"

Filtered(rows) == {t \in DOMAIN rows : Active(rows[t])}

\* build_tool_definitions; the code stands for the whole definition.
Definitions(rows, ts) == [t \in ts |-> rows[t].code]

\* Mutant of ListByServer: the definitions are read in a session of their own.
ListCommitted(copy, ts) == [t \in ts |-> row[t]]

\* ToolService.list_by_server in a session that already holds the rows "copy".
ListByServer(copy, ts) == [t \in ts |-> IF t \in DOMAIN copy THEN copy[t] ELSE row[t]]

Become(p, x) == g' = [g EXCEPT ![p] = x]

\* The history of a step: what it commits as approved.
Record == everApproved' = [t \in Tools |->
    IF life'[t] = "live" /\ row'[t].status = "approved"
    THEN everApproved[t] \cup {row'[t].code} ELSE everApproved[t]]

\* Send what the rows say, if the server is running; otherwise go on to `otherwise`.
RegisterIfRunning(p, status, rows, otherwise) ==
    Become(p, IF status = "running"
              THEN [g[p] EXCEPT !.pc = "send", !.defs = Definitions(rows, Filtered(rows)),
                                !.copy = Nothing]
              ELSE otherwise)
-----------------------------------------------------------------------------
(* Requests about a tool.                                                   *)

\* approve and revoke load the server together with the tool.
ToolRequest(p, t) ==
    /\ MayBegin(p)
    /\ BeginSome(p, t)
    /\ Become(p, [Free EXCEPT !.loaded = IF h'[p].op \in {"approve", "revoke"}
                                         THEN server ELSE "unread"])
    /\ UNCHANGED <<server, sandbox, unfiltered>> /\ Record

ToolStep(p) ==
    /\ \/ \E v \in versions[h[p].tool] : PickVersion(p, v)
       \/ GetApprovalMode(p)
       \/ Flush(p)
    /\ UNCHANGED <<server, sandbox, unfiltered, g>> /\ Record

ToolRequestFails(p) ==
    /\ NoSuchVersion(p) \/ RowGone(p)
    /\ Become(p, Free)
    /\ UNCHANGED <<server, sandbox, unfiltered>> /\ Record

\* update_tool, delete_tool: after the flush, before the commit.
SnapshotBeforeCommit(p) ==
    LET t == h[p].tool
        rows == IF h[p].op = "delete" THEN ListByServer(Nothing, Live \ {t})
                ELSE ListByServer([u \in {t} |-> RowAfter(p)], Live)
    IN  /\ h[p].pc = "commit"
        /\ h[p].op \in {"update", "delete"}
        /\ g[p].pc = "none"
        /\ RegisterIfRunning(p, server, rows, [g[p] EXCEPT !.pc = "ready"])
        /\ UNCHANGED <<server, sandbox, unfiltered, everApproved>> /\ UNCHANGED tvars

CommitRegistered(p) ==
    /\ g[p].pc = "ready"
    /\ Commit(p) \/ CommitDelete(p)
    /\ Become(p, Free)
    /\ UNCHANGED <<server, sandbox, unfiltered>> /\ Record

\* rollback and reject, and a request_publish that only queues the tool.
CommitQuietly(p) ==
    /\ \/ h[p].op \in {"rollback", "reject"}
       \/ h[p].op = "request_publish" /\ h[p].want.status # "approved"
    /\ Commit(p)
    /\ Become(p, Free)
    /\ UNCHANGED <<server, sandbox, unfiltered>> /\ Record

\* take_tool_action, revoke_tool_approval, and the auto-approving
\* request_publish, which refreshes its tool; the others keep the tool as
\* they loaded it, with the status they gave it.
CommitThenRegister(p) ==
    LET t == h[p].tool
        mine == IF h[p].op = "request_publish" THEN RowAfter(p)
                ELSE [h[p].seen EXCEPT !.status = h[p].want.status]
    IN  /\ h[p].op \in {"approve", "revoke", "request_publish"}
        /\ h[p].want.status = "approved" \/ h[p].op = "revoke"
        /\ Commit(p)
        /\ Become(p, [g[p] EXCEPT !.pc = "reread", !.copy = [u \in {t} |-> mine]])
        /\ UNCHANGED <<server, sandbox, unfiltered>> /\ Record

\* reregister_server: only a server that still exists and was running when
\* this session first saw it.
ReregisterServer(p) ==
    LET seen == IF g[p].loaded = "unread" THEN server ELSE g[p].loaded
    IN  /\ g[p].pc = "reread"
        /\ RegisterIfRunning(p, IF server = "deleted" THEN server ELSE seen,
                             ListByServer(g[p].copy, Live), Free)
        /\ UNCHANGED <<server, sandbox, unfiltered, everApproved>> /\ UNCHANGED tvars

\* An update that changes nothing writes nothing ("No changes, skip versioning")
\* and registers all the same.
UpdateNothing(p, t) ==
    /\ "update" \in Operations
    /\ MayBegin(p)
    /\ life[t] = "live"
    /\ Become(p, [Free EXCEPT !.pc = "reread", !.op = "update",
                              !.copy = ListByServer(Nothing, {t})])
    /\ UNCHANGED <<server, sandbox, unfiltered, everApproved>> /\ UNCHANGED tvars

\* The admin's import of external tools commits them approved, then registers.
ImportApproved(p, t) ==
    /\ MayBegin(p)
    /\ server # "deleted"
    /\ ImportTool(t, "approved")
    /\ Become(p, [Free EXCEPT !.pc = "reread", !.op = "import"])
    /\ UNCHANGED <<server, sandbox, unfiltered>> /\ Record

ChangeMode(m) ==
    /\ SetMode(m)
    /\ UNCHANGED <<server, sandbox, unfiltered, g, everApproved>>

NewTools ==
    /\ server # "deleted"
    /\ \E t \in Tools :
          \/ \E c \in Codes, s \in {"draft", "pending_review"} : Create(t, c, s)
          \/ ImportTool(t, "draft")
    /\ UNCHANGED <<server, sandbox, unfiltered, g>> /\ Record
-----------------------------------------------------------------------------
(* Requests about the server.  ServerService.get loads its tools with it.   *)

BeginServerOp(p, op, pc) ==
    /\ op \in ServerOps
    /\ MayBegin(p)
    /\ server # "deleted"
    /\ Become(p, [Free EXCEPT !.pc = pc, !.op = op, !.loaded = server,
                              !.copy = ListByServer(Nothing, Live)])
    /\ UNCHANGED <<server, sandbox, unfiltered, everApproved>> /\ UNCHANGED tvars

\* start_server of the admin API and of the MCP management tools.
StartServer(p, op) == server # "running" /\ BeginServerOp(p, op, "list")

StopServer(p) == server = "running" /\ BeginServerOp(p, "stop", "unregister")

RestartServer(p) == BeginServerOp(p, "restart", "unregister")

\* recover_running_servers runs when a backend process starts, in either of
\* the two processes; a server without active tools is skipped.
Recover(p) ==
    LET rows == ListByServer(Nothing, Live)
    IN  /\ "recover" \in ServerOps
        /\ MayBegin(p)
        /\ server = "running"
        /\ Filtered(rows) # {}
        /\ Become(p, [Free EXCEPT !.pc = "send", !.op = "recover",
                                  !.defs = Definitions(rows, Filtered(rows))])
        /\ UNCHANGED <<server, sandbox, unfiltered, everApproved>> /\ UNCHANGED tvars

\* The admin's start and restart register every tool, the MCP start the active
\* ones; with none to register they give up (restart after it unregistered).
ListTools(p) ==
    LET rows == ListByServer(g[p].copy, Live)
        ts == IF g[p].op \in Unfiltered THEN DOMAIN rows ELSE Filtered(rows)
    IN  /\ g[p].pc = "list"
        /\ Become(p, IF ts = {} THEN Free
                     ELSE [g[p] EXCEPT !.pc = "send", !.defs = Definitions(rows, ts),
                                       !.copy = Nothing])
        /\ UNCHANGED <<server, sandbox, unfiltered, everApproved>> /\ UNCHANGED tvars

\* update_status assigns the status to the server this session loaded: like
\* every flush it writes only a value that differs from the loaded one.
UpdateStatus(p, s) ==
    server' = IF server = "deleted" THEN server ELSE Written(server, g[p].loaded, s)

SetStatus(p) ==
    /\ g[p].pc = "status"
    /\ UpdateStatus(p, IF g[p].op = "stop" THEN "stopped" ELSE "running")
    /\ Become(p, Free)
    /\ UNCHANGED <<sandbox, unfiltered, everApproved>> /\ UNCHANGED tvars

\* An exception after the registration: start and restart record "error".
StatusFails(p) ==
    /\ Failures
    /\ g[p].pc = "status"
    /\ g[p].op # "stop"
    /\ UpdateStatus(p, "error")
    /\ Become(p, Free)
    /\ UNCHANGED <<sandbox, unfiltered, everApproved>> /\ UNCHANGED tvars

\* delete_server waits for its tools' row locks, cascades to them, and leaves
\* the sandbox alone.
DeleteServer ==
    /\ "delete_server" \in ServerOps
    /\ Serial => \A q \in Handlers : ~Busy(q)
    /\ server # "deleted"
    /\ \A t \in Tools : lock[t] = NoHandler
    /\ server' = "deleted"
    /\ life' = [t \in Tools |-> IF life[t] = "live" THEN "deleted" ELSE life[t]]
    /\ row' = [t \in Tools |-> NoRow]
    /\ versions' = [t \in Tools |-> {}]
    /\ UNCHANGED <<lock, mode, h, sandbox, unfiltered, g>> /\ Record
-----------------------------------------------------------------------------
(* The calls to the sandbox.  SandboxClient never raises: a call that is    *)
(* refused by the circuit breaker, or fails after its retries, returns      *)
(* success = False, whether or not it reached the sandbox.                  *)

\* Mutant of AfterSend: every handler goes on as update_tool does.
AfterSendCommit(p, ok) == [Free EXCEPT !.pc = "ready"]

AfterSend(p, ok) ==
    IF h[p].pc = "commit" THEN [Free EXCEPT !.pc = "ready"]
    ELSE IF ok /\ g[p].op \in Unfiltered \cup {"start_mcp"}
         THEN [g[p] EXCEPT !.pc = "status", !.defs = Nothing]
         ELSE Free

Hold(p, content) == sandbox' = content /\ unfiltered' = (g[p].op \in Unfiltered)
Forget == sandbox' = NotRegistered /\ unfiltered' = FALSE
NotReached == Failures /\ UNCHANGED <<sandbox, unfiltered>>

\* registry.register_server replaces the server's registration.
Register(p) ==
    /\ g[p].pc = "send"
    /\ \/ Hold(p, g[p].defs) /\ Become(p, AfterSend(p, TRUE))
       \/ Failures /\ Hold(p, g[p].defs) /\ Become(p, AfterSend(p, FALSE))
       \/ NotReached /\ Become(p, AfterSend(p, FALSE))
    /\ UNCHANGED <<server, everApproved>> /\ UNCHANGED tvars

\* stop and restart ignore the result of unregister_server.
Unregister(p) ==
    /\ g[p].pc = "unregister"
    /\ Forget \/ NotReached
    /\ Become(p, [g[p] EXCEPT !.pc = IF g[p].op = "stop" THEN "status" ELSE "list"])
    /\ UNCHANGED <<server, everApproved>> /\ UNCHANGED tvars

\* The sandbox keeps its registry in memory.
SandboxRestart ==
    /\ Failures
    /\ sandbox # NotRegistered
    /\ Forget
    /\ UNCHANGED <<server, g, everApproved>> /\ UNCHANGED tvars

\* A request is cancelled, or its process dies.
RequestDies(p) ==
    /\ Failures
    /\ Busy(p)
    /\ Become(p, Free)
    /\ IF h[p].pc = "idle" THEN UNCHANGED tvars ELSE Abort(p)
    /\ UNCHANGED <<server, sandbox, unfiltered>> /\ Record
-----------------------------------------------------------------------------
Continue(p) ==
    \/ ToolStep(p) \/ ToolRequestFails(p)
    \/ SnapshotBeforeCommit(p) \/ CommitRegistered(p)
    \/ CommitQuietly(p) \/ CommitThenRegister(p) \/ ReregisterServer(p)
    \/ ListTools(p) \/ SetStatus(p) \/ StatusFails(p)
    \/ Register(p) \/ Unregister(p)

Request(p) ==
    \/ \E t \in Tools : ToolRequest(p, t) \/ UpdateNothing(p, t) \/ ImportApproved(p, t)
    \/ \E op \in {"start_admin", "start_mcp"} : StartServer(p, op)
    \/ StopServer(p) \/ RestartServer(p) \/ Recover(p)

PNext ==
    \/ \E p \in Handlers : Request(p) \/ Continue(p) \/ RequestDies(p)
    \/ NewTools
    \/ DeleteServer
    \/ SandboxRestart
    \/ \E m \in Modes : ChangeMode(m)

PSpec == PInit /\ [][PNext]_pvars
-----------------------------------------------------------------------------
(* Properties.                                                              *)

Quiet == \A p \in Handlers : ~Busy(p)

Callable == IF sandbox = NotRegistered THEN {} ELSE DOMAIN sandbox

ActiveTools == {t \in Live : Active(row[t])}

\* When no request is being answered, the sandbox runs the approved and enabled
\* tools of a running server, with their current code, and none of a server that
\* does not run; it runs others, too, only as long as the admin's start or
\* restart was the last to register.
RegistryInSync == Quiet =>
    IF server = "running"
    THEN /\ ActiveTools \subseteq Callable
         /\ Callable \subseteq (IF unfiltered THEN Live ELSE ActiveTools)
         /\ \A t \in Callable : sandbox[t] = row[t].code
    ELSE Callable = {}

\* Whatever overlaps, fails or restarts: code the sandbox can run is code its
\* tool was committed approved with at some time.
RegisteredWasApproved ==
    \A t \in Callable : sandbox[t] \in everApproved[t] \cup {NoCode}

\* Only approved and enabled tools are registered in the sandbox
\* (docs/DATA-MODEL.md, Approval Workflow).
OnlyActiveRegistered == Quiet => Callable \subseteq ActiveTools
=============================================================================
