------------------------------ MODULE MCPGateway ------------------------------
(***************************************************************************)
(* backend/app/api/mcp_gateway.py with services/tool_change_notifier.py:   *)
(* sessions, event streams and tools/list of the gateway process, and how  *)
(* its clients come to know that the tools have changed.                   *)
(*                                                                         *)
(* Tools change in the admin process and in the gateway, by handlers that  *)
(* commit to the database, register the server with the sandbox and notify *)
(* the gateway in different orders (Program).  tools/list joins what the   *)
(* sandbox has registered with what the database has approved, read one    *)
(* after the other.  Reading the definitions of a server and posting them  *)
(* is one step here: the races between two registrations are those of      *)
(* ToolPublishing.                                                         *)
(*                                                                         *)
(* The critical sections of _sessions_lock and _sse_subscribers_lock do    *)
(* not suspend: each is part of one step.                                  *)
(***************************************************************************)
EXTENDS FiniteSets, Naturals, Sequences

CONSTANTS
    Clients,        \* MCP clients: each has at most one session and one stream
    Tools,          \* the tools of one server
    Jobs,           \* handlers that change tools, under way at the same time
    Kinds,          \* the changes that are made (a subset of AllKinds)
    MaxStreams,     \* MAX_SSE_CONNECTIONS
    QueueSize,      \* maxsize of a subscriber's queue
    MaxChanges,     \* bound: changes made
    MaxFaults       \* bound: notifications lost, calls to the sandbox or listings
                    \* that fail, and restarts of the gateway

AllKinds == {"approve", "revoke", "start", "stop", "enable", "disable", "rollback"}

ASSUME GatewayConstantsOK ==
    /\ IsFiniteSet(Clients) /\ Kinds \subseteq AllKinds
    /\ MaxStreams \in Nat \ {0} /\ QueueSize \in Nat \ {0}
    /\ MaxChanges \in Nat /\ MaxFaults \in Nat

VARIABLES
    db,         \* tools approved and enabled in the database
    running,    \* servers.status of the server
    reg,        \* tools registered with the sandbox
    job,        \* job[j]: the handler, and what it still has to do
    posts,      \* notifications on their way from the admin process
    session,    \* session[c]: is the session c knows in _active_sessions and
                \* not expired?  One that is expired is refused like none, and
                \* removed then or by cleanup_expired_sessions.
    stream,     \* stream[c]: the GET /mcp of c
    queue,      \* queue[c]: length of the subscriber's queue
    active,     \* _active_sse_connections
    client,     \* client[c]: what c is doing, and the tools it knows
    changes, faults,    \* bounds
    untold,     \* history: tools whose registration or listing has changed
                \* since the last broadcast
    unlisted    \* history: clients whose last tools/list failed

backendVars == <<db, running, reg, job, posts, changes>>
streamVars == <<session, stream, queue, active, client>>
gatewayVars == <<backendVars, streamVars, faults, untold, unlisted>>
-----------------------------------------------------------------------------
Listing == reg \cap db

\* The tools in which two sets differ.
Differing(before, after) == (before \ after) \cup (after \ before)

Subscribed(c) == stream[c] \in {"open", "left"}

NoJob == [kind |-> "none", tool |-> CHOOSE t \in Tools : TRUE, local |-> FALSE, todo |-> <<>>]

\* Mutant of Program: approve_tool is committed by the request.
LateApproval(kind, up) ==
    CASE kind = "start" -> <<"register", "status", "notify">>
      [] kind = "stop" -> <<"unregister", "status", "notify">>
      [] kind \in {"approve", "revoke", "enable", "disable"} /\ up ->
           <<"register", "notify", "commit">>
      [] OTHER -> <<"commit">>

\* The order in which a handler does its work.  Approving and revoking commit in
\* the service; starting and stopping commit before they notify; update and
\* delete leave the commit to get_db, after the handler, and do nothing else
\* unless the server is running; rollback_tool only changes the row.
Program(kind, up) ==
    CASE kind \in {"approve", "revoke"} -> <<"commit", "register", "notify">>
      [] kind = "start" -> <<"register", "status", "notify">>
      [] kind = "stop" -> <<"unregister", "status", "notify">>
      [] kind \in {"enable", "disable"} /\ up -> <<"register", "notify", "commit">>
      [] OTHER -> <<"commit">>

\* What the transaction of the handler sees when it registers: its own change.
OwnView(j) ==
    CASE j.kind \in {"approve", "enable"} -> db \cup {j.tool}
      [] j.kind \in {"revoke", "disable", "rollback"} -> db \ {j.tool}
      [] OTHER -> db

\* What it registers: start_server of the admin process takes every tool of the
\* server, all others those that are approved and enabled.
ToRegister(j) == IF j.kind = "start" /\ ~j.local THEN Tools ELSE OwnView(j)

Idle(c) == client[c].pc = "idle"

\* Mutant of Put: the queue has no limit.
PutAlways(n) == n + 1

\* Mutant of Put: the last place of the queue is not used.
PutShort(n) == IF n + 1 < QueueSize THEN n + 1 ELSE n

\* queue.put_nowait; QueueFull drops the event.
Put(n) == IF n < QueueSize THEN n + 1 ELSE n

\* broadcast_tools_changed
Broadcast ==
    /\ queue' = [c \in Clients |-> IF Subscribed(c) THEN Put(queue[c]) ELSE queue[c]]
    /\ untold' = {}

GatewayInit ==
    /\ db = Tools /\ running = TRUE /\ reg = Tools
    /\ job = [j \in Jobs |-> NoJob]
    /\ posts = 0
    /\ session = [c \in Clients |-> FALSE]
    /\ stream = [c \in Clients |-> "none"]
    /\ queue = [c \in Clients |-> 0]
    /\ active = 0
    /\ client = [c \in Clients |-> [pc |-> "initialize", read |-> {}, seen |-> {}]]
    /\ changes = 0 /\ faults = 0
    /\ untold = {} /\ unlisted = {}
-----------------------------------------------------------------------------
(* Changing the tools: api/approvals.py, api/sandbox.py, api/tools.py and       *)
(* services/mcp_management.py.                                                  *)

Permitted(kind, t) ==
    CASE kind \in {"approve", "enable"} -> t \notin db
      [] kind \in {"revoke", "disable", "rollback"} -> t \in db
      [] kind = "start" -> ~running
      [] kind = "stop" -> running

\* The gateway's own management tools start, stop and update; approvals are made
\* in the admin process.
MayBeLocal(kind) == kind \in {"start", "stop", "enable", "disable"}

BeginChange(j, kind, t, local) ==
    /\ job[j].kind = "none" /\ changes < MaxChanges
    /\ Permitted(kind, t)
    /\ local => MayBeLocal(kind)
    /\ job' = [job EXCEPT ![j] = [kind |-> kind, tool |-> t, local |-> local,
                                 todo |-> Program(kind, running)]]
    /\ changes' = changes + 1
    /\ UNCHANGED <<db, running, reg, posts, streamVars, faults, untold, unlisted>>

About(j, step) == job[j].todo # <<>> /\ Head(job[j].todo) = step

\* The handler goes on to its next step, or is done.
Advance(j) ==
    job' = [job EXCEPT ![j] = IF Len(@.todo) = 1 THEN NoJob
                              ELSE [@ EXCEPT !.todo = Tail(job[j].todo)]]

Commit(j) ==
    /\ About(j, "commit")
    /\ db' = OwnView(job[j])
    /\ UNCHANGED <<running, reg, posts, changes, streamVars, faults, unlisted>>
    /\ untold' = untold \cup Differing(Listing, Listing')
    /\ Advance(j)

\* reregister_server and the handlers of api/tools.py skip a server that is not
\* running; start_server registers it.
RegisterServer(j) ==
    /\ About(j, "register")
    /\ reg' = IF running \/ job[j].kind = "start" THEN ToRegister(job[j]) ELSE reg
    /\ untold' = untold \cup Differing(reg, reg')
    /\ Advance(j)
    /\ UNCHANGED <<db, running, posts, changes, streamVars, faults, unlisted>>

UnregisterServer(j) ==
    /\ About(j, "unregister")
    /\ reg' = {}
    /\ untold' = untold \cup Differing(reg, reg')
    /\ Advance(j)
    /\ UNCHANGED <<db, running, posts, changes, streamVars, faults, unlisted>>

\* The call fails, or its answer is lost.  start_server gives up; the other handlers
\* go on to notify.
RegistrationFails(j) ==
    /\ faults < MaxFaults /\ faults' = faults + 1
    /\ \/ /\ About(j, "unregister") \/ About(j, "register")
          /\ job[j].kind # "start"
          /\ Advance(j)
          /\ UNCHANGED reg
       \/ /\ About(j, "register") /\ job[j].kind = "start"
          /\ job' = [job EXCEPT ![j] = NoJob]
          /\ reg' \in {reg, ToRegister(job[j])}
    /\ untold' = untold \cup Differing(reg, reg')
    /\ UNCHANGED <<db, running, posts, changes, streamVars, unlisted>>

CommitStatus(j) ==
    /\ About(j, "status")
    /\ running' = (job[j].kind = "start")
    /\ Advance(j)
    /\ UNCHANGED <<db, reg, posts, changes, streamVars, faults, untold, unlisted>>

\* fire_and_forget_notify, or notify_tools_changed_local.
Notify(j) ==
    /\ About(j, "notify")
    /\ \/ job[j].local /\ Broadcast /\ UNCHANGED posts
       \/ ~job[j].local /\ posts' = posts + 1 /\ UNCHANGED <<queue, untold>>
    /\ Advance(j)
    /\ UNCHANGED <<db, running, reg, changes, session, stream, active, client, faults, unlisted>>

\* POST /mcp/internal/notify-tools-changed arrives, or is given up after 2 s.
Deliver ==
    /\ posts > 0 /\ posts' = posts - 1
    /\ Broadcast
    /\ UNCHANGED <<db, running, reg, job, changes, session, stream, active, client, faults, unlisted>>

LosePost ==
    /\ posts > 0 /\ posts' = posts - 1
    /\ faults < MaxFaults /\ faults' = faults + 1
    /\ UNCHANGED <<db, running, reg, job, changes, streamVars, untold, unlisted>>
-----------------------------------------------------------------------------
(* Sessions.                                                                    *)

Do(c, pc) == client' = [client EXCEPT ![c].pc = pc]

\* _create_session.  After initialize a client that has no stream opens one before it lists.
InitializeClient(c) ==
    /\ client[c].pc = "initialize"
    /\ session' = [session EXCEPT ![c] = TRUE]
    /\ Do(c, IF stream[c] = "none" THEN "idle" ELSE "list")
    /\ UNCHANGED <<backendVars, stream, queue, active, faults, untold, unlisted>>

\* An hour without a request (an open stream does not count as one), or DELETE
\* /mcp, which does not close the stream either.
SessionEnds(c) ==
    /\ session[c] /\ Idle(c)
    /\ session' = [session EXCEPT ![c] = FALSE]
    /\ UNCHANGED <<backendVars, stream, queue, active, client, faults, untold, unlisted>>

\* Mutant of RefuseSession: the answer does not tell the client that its session is over.
RefuseSilently(c) ==
    /\ ~session[c]
    /\ UNCHANGED <<session, client>>

\* _validate_session fails, and the 404 tells the client to initialize again.
RefuseSession(c) ==
    /\ ~session[c]
    /\ Do(c, "initialize")
    /\ UNCHANGED session
-----------------------------------------------------------------------------
(* Event streams.                                                               *)

OpenStream(c) ==
    /\ Idle(c) /\ stream[c] = "none"
    /\ \/ /\ RefuseSession(c)
          /\ UNCHANGED stream
       \/ /\ session[c] /\ active < MaxStreams
          /\ stream' = [stream EXCEPT ![c] = "checked"]
          /\ UNCHANGED <<session, client>>
    /\ UNCHANGED <<backendVars, queue, active, faults, untold, unlisted>>

\* The first step of event_generator; the keepalive tells the client, which now
\* asks for the tools.
StartStream(c) ==
    /\ stream[c] = "checked"
    /\ stream' = [stream EXCEPT ![c] = "open"]
    /\ queue' = [queue EXCEPT ![c] = 0]
    /\ active' = active + 1
    /\ Do(c, "list")
    /\ UNCHANGED <<backendVars, session, faults, untold, unlisted>>

\* The client disconnects; if the generator has not begun, its finally clause does
\* not run.
Disconnect(c) ==
    /\ Idle(c) /\ stream[c] \in {"checked", "open"}
    /\ stream' = [stream EXCEPT ![c] = IF @ = "open" THEN "left" ELSE "none"]
    /\ Do(c, "initialize")
    /\ UNCHANGED <<backendVars, session, queue, active, faults, untold, unlisted>>

\* Mutant of CloseStream: the counter is left alone.
CloseUncounted(c) ==
    /\ stream[c] = "left"
    /\ stream' = [stream EXCEPT ![c] = "none"]
    /\ queue' = [queue EXCEPT ![c] = 0]
    /\ UNCHANGED <<backendVars, session, client, active, faults, untold, unlisted>>

\* The finally clause, when the generator is closed.
CloseStream(c) ==
    /\ stream[c] = "left"
    /\ stream' = [stream EXCEPT ![c] = "none"]
    /\ queue' = [queue EXCEPT ![c] = 0]
    /\ active' = active - 1
    /\ UNCHANGED <<backendVars, session, client, faults, untold, unlisted>>

\* tools/list_changed reaches the client, which lists the tools again.
Receive(c) ==
    /\ stream[c] = "open" /\ Idle(c) /\ queue[c] > 0
    /\ queue' = [queue EXCEPT ![c] = @ - 1]
    /\ Do(c, "list")
    /\ UNCHANGED <<backendVars, session, stream, active, faults, untold, unlisted>>
-----------------------------------------------------------------------------
(* tools/list: _handle_tools_list.                                              *)

\* The session is validated, and the sandbox asked.
ListRegistered(c) ==
    /\ client[c].pc = "list"
    /\ \/ RefuseSession(c)
       \/ /\ session[c]
          /\ client' = [client EXCEPT ![c] = [@ EXCEPT !.pc = "filter", !.read = reg]]
          /\ UNCHANGED session
    /\ UNCHANGED <<backendVars, stream, queue, active, faults, untold, unlisted>>

\* _get_approved_tool_names
ListApproved(c) ==
    /\ client[c].pc = "filter"
    /\ client' = [client EXCEPT ![c] =
                    [pc |-> "idle", read |-> {}, seen |-> @.read \cap db]]
    /\ unlisted' = unlisted \ {c}
    /\ UNCHANGED <<backendVars, session, stream, queue, active, faults, untold>>

\* mcp_request turns every failure of the sandbox into an error object, and the
\* client is answered, as if all was well, with the management tools alone.  When
\* the database fails it is answered with an error, and keeps what it knew.
ListFails(c) ==
    /\ faults < MaxFaults /\ faults' = faults + 1
    /\ \/ /\ client[c].pc = "list" /\ session[c]
          /\ client' = [client EXCEPT ![c] = [pc |-> "idle", read |-> {}, seen |-> {}]]
       \/ /\ client[c].pc = "filter"
          /\ client' = [client EXCEPT ![c] = [@ EXCEPT !.pc = "idle", !.read = {}]]
    /\ unlisted' = unlisted \cup {c}
    /\ UNCHANGED <<backendVars, session, stream, queue, active, untold>>

\* The gateway process ends and begins again, without the handlers that ran in
\* it; its clients connect again and list, so nothing is left to tell them.
RestartGateway ==
    /\ faults < MaxFaults /\ faults' = faults + 1
    /\ job' = [j \in Jobs |-> IF job[j].local THEN NoJob ELSE job[j]]
    /\ untold' = {}
    /\ session' = [c \in Clients |-> FALSE]
    /\ stream' = [c \in Clients |-> "none"]
    /\ queue' = [c \in Clients |-> 0]
    /\ active' = 0
    /\ client' = [c \in Clients |-> [pc |-> "initialize", read |-> {}, seen |-> {}]]
    /\ UNCHANGED <<db, running, reg, posts, changes, unlisted>>

JobStep(j) ==
    \/ Commit(j)
    \/ RegisterServer(j)
    \/ UnregisterServer(j)
    \/ CommitStatus(j)
    \/ Notify(j)

ClientStep(c) ==
    \/ InitializeClient(c)
    \/ StartStream(c)
    \/ CloseStream(c)
    \/ Receive(c)
    \/ ListRegistered(c)
    \/ ListApproved(c)

GatewayNext ==
    \/ \E j \in Jobs :
         \/ \E kind \in Kinds, t \in Tools, local \in BOOLEAN : BeginChange(j, kind, t, local)
         \/ JobStep(j)
         \/ RegistrationFails(j)
    \/ Deliver
    \/ LosePost
    \/ \E c \in Clients :
         \/ ClientStep(c)
         \/ SessionEnds(c)
         \/ OpenStream(c)
         \/ Disconnect(c)
         \/ ListFails(c)
    \/ RestartGateway

GatewaySpec == GatewayInit /\ [][GatewayNext]_gatewayVars

\* Handlers run to their end, notifications arrive or are lost, generators run,
\* and a client reads its stream and asks for the tools when it is told to.
GatewayFairness ==
    /\ \A j \in Jobs : WF_gatewayVars(JobStep(j))
    /\ WF_gatewayVars(Deliver)
    /\ \A c \in Clients : WF_gatewayVars(ClientStep(c))

FairGatewaySpec == GatewaySpec /\ GatewayFairness
-----------------------------------------------------------------------------
(* Properties.                                                                  *)

\* The state is of the shape the code keeps it in: no more events wait than a
\* queue holds, and only for subscribers.
GatewayTypeOK ==
    /\ db \subseteq Tools /\ reg \subseteq Tools
    /\ untold \subseteq Tools /\ unlisted \subseteq Clients
    /\ running \in BOOLEAN
    /\ posts \in 0 .. MaxChanges /\ changes \in 0 .. MaxChanges
    /\ faults \in 0 .. MaxFaults
    /\ session \in [Clients -> BOOLEAN]
    /\ stream \in [Clients -> {"none", "checked", "open", "left"}]
    /\ queue \in [Clients -> 0 .. QueueSize]
    /\ \A c \in Clients : ~Subscribed(c) => queue[c] = 0

\* _active_sse_connections counts the generators that have begun and not ended,
\* whoever closed them: a slot that leaked would be lost until the restart.
StreamsCounted == active = Cardinality({c \in Clients : Subscribed(c)})

AtRest == posts = 0 /\ \A j \in Jobs : job[j].todo = <<>>

Listening(c) == stream[c] = "open" /\ Idle(c) /\ queue[c] = 0

UpToDate(c) == (client[c].seen \ untold) = (Listing \ untold)

\* A client that reads its stream and has nothing left to read knows the tools, as
\* far as anybody told the gateway: subscribing, the two reads of tools/list and
\* a full queue lose no change between them, also while handlers are at work.
\* (What was registered before may have been joined with what is approved now:
\* then the registration has changed since the last broadcast.)  It says nothing
\* of a client whose last tools/list failed: an answer without the tools of the
\* sandbox looks like any other, and no event follows when the sandbox is back.
NoMissedChange == \A c \in Clients \ unlisted : Listening(c) => UpToDate(c)

\* The docstring of mcp_sse: list_changed is broadcast "when tools are approved,
\* enabled/disabled, or servers start/stop".  When no handler is at work and no
\* notification was lost, no change of the listing is left that nobody was told.
ChangesAreTold == AtRest /\ faults = 0 => untold = {}

\* A client that stays on its stream comes to know the tools, over an expired
\* session and a restart of the gateway as well, unless its last listing failed.
ListenersCatchUp ==
    \A c \in Clients :
      []<>(stream[c] = "open" => Listening(c) /\ (c \in unlisted \/ UpToDate(c)))
=============================================================================
