--------------------------- MODULE SandboxRuntime ---------------------------
(***************************************************************************)
(* What the sandbox holds of a server and what it runs with it: the        *)
(* registry and the file of approved private hosts that the proxy reads    *)
(* (sandbox/app/registry.py, routes.py), the execution of Python code      *)
(* (executor.py), and the admin handlers that push a server's secrets to   *)
(* it (backend/app/api/server_secrets.py, services/server_secret.py) or    *)
(* register the server with them (api/sandbox.py).                         *)
(*                                                                         *)
(* A handler reads the database, calls the sandbox and commits, in this    *)
(* order; another handler can run at each of its awaits.  A row that was   *)
(* written is locked until its transaction ends.  What is registered of    *)
(* the tools themselves is in ToolPublishing.                              *)
(***************************************************************************)
EXTENDS Naturals, FiniteSets

CONSTANTS Servers, SecretKeys, Hosts,  \* the servers, their secrets, the private hosts
          Admins,     \* the admin requests that can be open together
          ToolCalls,  \* the executions of the sandbox
          Workers,    \* the threads of the event loop's default executor
          MaxValue,   \* bound: the values ever given to secrets
          MaxAdmin,   \* bound: the requests of the admin
          MaxFailures,  \* bound: failed pushes, rollbacks, file errors and restarts
          NoOne

ASSUME RuntimeConstantsOK ==
    /\ {Workers, MaxValue, MaxAdmin, MaxFailures} \subseteq Nat
    /\ NoOne \notin Admins

VARIABLES secret,    \* committed rows of server_secrets: a value, 0 for none
          status,    \* the servers whose committed status is "running"
          approved,  \* allowed_hosts of the servers, committed
          locked,    \* the handler that holds the lock of a secret's row
          registry,  \* tool_registry.servers: the secrets and the hosts of each
          acl,       \* the file of approved private hosts
          handlers,  \* what each admin request is doing
          calls,     \* the step each execution is at
          stuck,     \* the threads that run module-level code
          values, requested, failures,  \* what was used of the bounds
          unsynced,  \* history: the servers whose last push did not arrive or was old
          contested, \* history: the handlers that hold secrets another is changing
          aclLost    \* history: an error left the file without what it should have

runtimeVars == <<secret, status, approved, locked, registry, acl, handlers, calls,
                 stuck, values, requested, failures, unsynced, contested, aclLost>>
database == <<secret, status, approved, locked>>
sandbox == <<registry, acl, calls, stuck>>
bounds == <<values, requested, failures>>
history == <<unsynced, contested, aclLost>>

NoSecrets == [k \in SecretKeys |-> 0]
NotRegistered == [there |-> FALSE, secrets |-> NoSecrets, hosts |-> {}]
NoHandlerStep == [op |-> "none", step |-> "none", server |-> CHOOSE s \in Servers : TRUE,
              key |-> CHOOSE k \in SecretKeys : TRUE, value |-> 0, secrets |-> NoSecrets, hosts |-> {}]

RuntimeInit ==
    /\ secret = [s \in Servers |-> NoSecrets]
    /\ status = {} /\ locked = [s \in Servers |-> [k \in SecretKeys |-> NoOne]]
    /\ approved \in [Servers -> SUBSET Hosts]
    /\ registry = [s \in Servers |-> NotRegistered] /\ acl = {}
    /\ handlers = [h \in Admins |-> NoHandlerStep]
    /\ calls = [c \in ToolCalls |-> "none"] /\ stuck = 0
    /\ values = 0 /\ requested = 0 /\ failures = 0
    /\ unsynced = {} /\ contested = {} /\ aclLost = FALSE

-----------------------------------------------------------------------------
(* The registry of the sandbox.                                            *)

\* _write_squid_acl: an OSError is only logged ("approved private hosts will be
\* blocked by the proxy"), and the file keeps what it had or is cut short.
WriteFile(contents, lost) ==
    \/ acl' = contents /\ aclLost' = lost /\ UNCHANGED failures
    \/ /\ failures < MaxFailures /\ failures' = failures + 1
       /\ acl' \in {acl} \union SUBSET contents
       /\ aclLost' = TRUE

\* _update_squid_approved_hosts: the file is built again from every server.
ApprovedOf(reg) == UNION {reg[s].hosts : s \in {t \in Servers : reg[t].there}}

\* register_server replaces what is there; unregister_server removes it.
Register(s, secrets, hosts) ==
    /\ registry' = [registry EXCEPT ![s] = [there |-> TRUE, secrets |-> secrets, hosts |-> hosts]]
    /\ WriteFile(ApprovedOf(registry'), FALSE)

Unregister(s) ==
    IF registry[s].there
    THEN /\ registry' = [registry EXCEPT ![s] = NotRegistered]
         /\ WriteFile(ApprovedOf(registry'), FALSE)
    ELSE UNCHANGED <<registry, acl, aclLost, failures>>

\* update_secrets; a server that is not registered is a 404, which the client of
\* the backend takes for a success.
UpdateSecrets(s, secrets) ==
    /\ registry' = IF registry[s].there
                   THEN [registry EXCEPT ![s].secrets = secrets] ELSE registry
    /\ UNCHANGED acl

-----------------------------------------------------------------------------
(* The handlers of the admin.                                              *)

OpenRequest(h, rec) ==
    /\ handlers[h] = NoHandlerStep /\ requested < MaxAdmin
    /\ requested' = requested + 1
    /\ handlers' = [handlers EXCEPT ![h] = rec]

Goes(h, op, step) == handlers[h].op = op /\ handlers[h].step = step
NextStep(h, step) == handlers' = [handlers EXCEPT ![h].step = step]
Respond(h) == handlers' = [handlers EXCEPT ![h] = NoHandlerStep]

\* The handlers that are changing a secret of the server and have not committed.
Changing(s) == {g \in Admins : handlers[g].op = "secret" /\ handlers[g].server = s}

\* The handler h reads the secrets of the server, to register or to push them.
Reads(h, s) == contested' = IF Changing(s) \ {h} = {} THEN contested \ {h} ELSE contested \union {h}

\* What h read arrives at the sandbox.
Arrives(h, s) ==
    /\ unsynced' = IF h \in contested THEN unsynced \union {s} ELSE unsynced \ {s}
    /\ contested' = contested \ {h}

\* set_secret_value and delete_secret find the row and flush the change of it.
FlushSecret(h, s, k, op) ==
    /\ locked[s][k] = NoOne
    /\ op = "delete" => secret[s][k] # 0
    /\ op = "set" => values < MaxValue
    /\ values' = IF op = "set" THEN values + 1 ELSE values
    /\ OpenRequest(h, [NoHandlerStep EXCEPT !.op = "secret", !.step = "read", !.server = s,
                                        !.key = k, !.value = IF op = "set" THEN values' ELSE 0])
    /\ locked' = [locked EXCEPT ![s][k] = h]
    /\ contested' = contested \union {g \in Admins : /\ handlers[g].step \in {"push", "register"}
                                                    /\ handlers[g].server = s}
    /\ UNCHANGED <<secret, status, approved, sandbox, failures, unsynced, aclLost>>

\* Mutant of SecretsSeen: the flush comes after the read.
SecretsSeenBefore(h, s) == secret[s]

\* What a transaction reads: the committed rows, and its own change.
SecretsSeen(h, s) ==
    IF handlers[h].op = "secret" /\ handlers[h].server = s
    THEN [secret[s] EXCEPT ![handlers[h].key] = handlers[h].value] ELSE secret[s]

\* _sync_secrets_to_sandbox: the secrets are read to be pushed, ...
ReadForSync(h) ==
    LET s == handlers[h].server IN
    /\ Goes(h, "secret", "read") /\ s \in status
    /\ handlers' = [handlers EXCEPT ![h].step = "push", ![h].secrets = SecretsSeen(h, s)]
    /\ Reads(h, s)
    /\ UNCHANGED <<database, sandbox, bounds, unsynced, aclLost>>

\* ... but not for a server that does not run, or not yet.
SkipSync(h) ==
    /\ Goes(h, "secret", "read") /\ handlers[h].server \notin status
    /\ NextStep(h, "commit")
    /\ unsynced' = unsynced \union {handlers[h].server}
    /\ UNCHANGED <<database, sandbox, bounds, contested, aclLost>>

PushSecrets(h) ==
    /\ Goes(h, "secret", "push")
    /\ UpdateSecrets(handlers[h].server, handlers[h].secrets)
    /\ NextStep(h, "commit")
    /\ Arrives(h, handlers[h].server)
    /\ UNCHANGED <<database, calls, stuck, bounds, aclLost>>

\* The push fails after its retries: it is logged, and the handler goes on.
LosePush(h) ==
    /\ Goes(h, "secret", "push") /\ failures < MaxFailures
    /\ failures' = failures + 1
    /\ NextStep(h, "commit")
    /\ unsynced' = unsynced \union {handlers[h].server}
    /\ contested' = contested \ {h}
    /\ UNCHANGED <<database, sandbox, values, requested, aclLost>>

EndSecret(h, s, k) ==
    /\ Goes(h, "secret", "commit") /\ handlers[h].server = s /\ handlers[h].key = k
    /\ locked' = [locked EXCEPT ![s][k] = NoOne]
    /\ Respond(h)

CommitSecret(h, s, k) ==
    /\ EndSecret(h, s, k)
    /\ secret' = [secret EXCEPT ![s][k] = handlers[h].value]
    /\ UNCHANGED <<status, approved, sandbox, bounds, history>>

\* get_db rolls back: the sandbox keeps what was pushed.
RollBackSecret(h, s, k) ==
    /\ EndSecret(h, s, k) /\ failures < MaxFailures
    /\ failures' = failures + 1
    /\ unsynced' = unsynced \union {s}
    /\ UNCHANGED <<secret, status, approved, sandbox, values, requested, contested, aclLost>>

\* start_server, restart_server after it has unregistered the server, and the
\* refresh after a decision: the secrets and the hosts are read and registered;
\* the first two then commit the status.
ReadServer(h, op, s) ==
    [NoHandlerStep EXCEPT !.op = op, !.step = "register", !.server = s,
                      !.secrets = secret[s], !.hosts = approved[s]]

StartServer(h, s) ==
    /\ s \notin status
    /\ OpenRequest(h, ReadServer(h, "start", s))
    /\ Reads(h, s)
    /\ UNCHANGED <<database, sandbox, values, failures, unsynced, aclLost>>

RestartServer(h, s) ==
    /\ OpenRequest(h, [NoHandlerStep EXCEPT !.op = "start", !.step = "read", !.server = s])
    /\ Unregister(s)
    /\ UNCHANGED <<database, calls, stuck, values, unsynced, contested>>

ReadToRegister(h) ==
    /\ handlers[h].op \in {"start", "refresh"} /\ handlers[h].step = "read"
    /\ handlers' = [handlers EXCEPT ![h] = ReadServer(h, @.op, @.server)]
    /\ Reads(h, handlers[h].server)
    /\ UNCHANGED <<database, sandbox, bounds, unsynced, aclLost>>

RegisterServer(h) ==
    LET s == handlers[h].server IN
    /\ handlers[h].step = "register"
    /\ Register(s, handlers[h].secrets, handlers[h].hosts)
    /\ IF handlers[h].op = "start" THEN NextStep(h, "commit") ELSE Respond(h)
    /\ Arrives(h, s)
    /\ UNCHANGED <<database, calls, stuck, values, requested>>

\* The sandbox cannot be reached: 500, and the status stays what it was.
LoseRegistration(h) ==
    /\ handlers[h].step = "register" /\ failures < MaxFailures
    /\ failures' = failures + 1
    /\ Respond(h)
    /\ contested' = contested \ {h}
    /\ UNCHANGED <<database, sandbox, values, requested, unsynced, aclLost>>

CommitStart(h) ==
    /\ Goes(h, "start", "commit")
    /\ status' = status \union {handlers[h].server}
    /\ Respond(h)
    /\ UNCHANGED <<secret, approved, locked, sandbox, bounds, history>>

StopServer(h, s) ==
    /\ s \in status
    /\ OpenRequest(h, [NoHandlerStep EXCEPT !.op = "stop", !.step = "commit", !.server = s])
    /\ Unregister(s)
    /\ UNCHANGED <<database, calls, stuck, values, unsynced, contested>>

CommitStop(h) ==
    /\ Goes(h, "stop", "commit")
    /\ status' = status \ {handlers[h].server}
    /\ Respond(h)
    /\ UNCHANGED <<secret, approved, locked, sandbox, bounds, history>>

\* The decision on a host commits first and registers the server, when it runs,
\* with what it reads then (AccessRequests has the decisions themselves).
DecideHosts(h, s, hosts) ==
    /\ hosts # approved[s]
    /\ approved' = [approved EXCEPT ![s] = hosts]
    /\ OpenRequest(h, IF s \in status
                      THEN [NoHandlerStep EXCEPT !.op = "refresh", !.step = "read", !.server = s]
                      ELSE NoHandlerStep)
    /\ UNCHANGED <<secret, status, locked, sandbox, values, failures, history>>

-----------------------------------------------------------------------------
(* The executions of the sandbox.                                          *)

Begins(c, step) ==
    /\ calls[c] = "none"
    /\ calls' = [calls EXCEPT ![c] = step]

\* execute_tool: the code waits for a thread in which its module level runs.
CallTool(c, s) ==
    /\ registry[s].there
    /\ Begins(c, "waits")
    /\ UNCHANGED <<database, registry, acl, handlers, stuck, bounds, history>>

\* Mutant of Execute: the file is written with its hosts only.
ExecuteAlone(c, hosts) ==
    /\ Begins(c, "main")
    /\ acl' = hosts
    /\ UNCHANGED <<database, registry, handlers, stuck, bounds, history>>

\* ensure_private_hosts_in_squid_acl: what is missing joins the file; a file that
\* cannot be read is taken to be empty, and what the servers had in it is lost.
AddToFile(hosts) ==
    \/ hosts \subseteq acl /\ UNCHANGED <<acl, aclLost, failures>>
    \/ ~(hosts \subseteq acl) /\ WriteFile(acl \union hosts, aclLost)
    \/ /\ hosts # {} /\ failures < MaxFailures /\ failures' = failures + 1
       /\ acl' \in {acl} \union SUBSET hosts
       /\ aclLost' = TRUE

\* execute_python_code: the hosts it was given are added to the file, and the
\* module level runs at once, on the event loop.
Execute(c, hosts) ==
    /\ Begins(c, "main")
    /\ AddToFile(hosts)
    /\ UNCHANGED <<database, registry, handlers, stuck, values, requested, unsynced, contested>>

TakeThread(c) ==
    /\ calls[c] = "waits" /\ stuck < Workers
    /\ calls' = [calls EXCEPT ![c] = "module"] /\ stuck' = stuck + 1
    /\ UNCHANGED <<database, registry, acl, handlers, bounds, history>>

\* The module level ends and gives the thread back; main() is awaited.
ModuleRan(c) ==
    /\ calls[c] = "module"
    /\ calls' = [calls EXCEPT ![c] = "main"] /\ stuck' = stuck - 1
    /\ UNCHANGED <<database, registry, acl, handlers, bounds, history>>

\* Mutant of TimeOut: a thread that is abandoned is thought to be over.
TimeOutForgetting(c) ==
    /\ calls[c] \in {"waits", "module", "main"}
    /\ calls' = [calls EXCEPT ![c] = "none"]
    /\ UNCHANGED <<database, registry, acl, handlers, stuck, bounds, history>>

\* wait_for gives up: a thread cannot be cancelled and keeps running its code.
TimeOut(c) ==
    /\ calls[c] \in {"waits", "module", "main"}
    /\ calls' = [calls EXCEPT ![c] = IF @ = "module" THEN "runaway" ELSE "none"]
    /\ UNCHANGED <<database, registry, acl, handlers, stuck, bounds, history>>

\* The abandoned code may end after all.
RunawayEnds(c) ==
    /\ calls[c] = "runaway"
    /\ calls' = [calls EXCEPT ![c] = "none"] /\ stuck' = stuck - 1
    /\ UNCHANGED <<database, registry, acl, handlers, bounds, history>>

MainEnds(c) ==
    /\ calls[c] = "main"
    /\ calls' = [calls EXCEPT ![c] = "none"]
    /\ UNCHANGED <<database, registry, acl, handlers, stuck, bounds, history>>

\* The sandbox restarts: the file is on a volume and stays, all else is gone.
\* The pushes that are on their way fail or find nobody.
RestartSandbox ==
    /\ failures < MaxFailures
    /\ failures' = failures + 1
    /\ registry' = [s \in Servers |-> NotRegistered]
    /\ calls' = [c \in ToolCalls |-> "none"] /\ stuck' = 0
    /\ UNCHANGED <<database, acl, handlers, values, requested, history>>

HandlerStep(h) ==
    \/ \E s \in Servers, k \in SecretKeys, op \in {"set", "delete"} : FlushSecret(h, s, k, op)
    \/ \E s \in Servers, k \in SecretKeys : CommitSecret(h, s, k) \/ RollBackSecret(h, s, k)
    \/ ReadForSync(h) \/ SkipSync(h) \/ PushSecrets(h) \/ LosePush(h)
    \/ \E s \in Servers : StartServer(h, s) \/ RestartServer(h, s) \/ StopServer(h, s)
    \/ ReadToRegister(h) \/ RegisterServer(h) \/ LoseRegistration(h)
    \/ CommitStart(h) \/ CommitStop(h)
    \/ \E s \in Servers, hosts \in SUBSET Hosts : DecideHosts(h, s, hosts)

ToolCallStep(c) ==
    \/ \E s \in Servers : CallTool(c, s)
    \/ \E hosts \in SUBSET Hosts : Execute(c, hosts)
    \/ TakeThread(c) \/ ModuleRan(c) \/ TimeOut(c) \/ RunawayEnds(c) \/ MainEnds(c)

RuntimeNext ==
    \/ \E h \in Admins : HandlerStep(h)
    \/ \E c \in ToolCalls : ToolCallStep(c)
    \/ RestartSandbox

RuntimeSpec == RuntimeInit /\ [][RuntimeNext]_runtimeVars

-----------------------------------------------------------------------------
(* Every variable has its type, and the threads are counted exactly.       *)
RuntimeTypeOK ==
    /\ secret \in [Servers -> [SecretKeys -> 0..MaxValue]]
    /\ status \subseteq Servers /\ approved \in [Servers -> SUBSET Hosts]
    /\ locked \in [Servers -> [SecretKeys -> Admins \union {NoOne}]]
    /\ registry \in [Servers -> [there : BOOLEAN, secrets : [SecretKeys -> 0..MaxValue], hosts : SUBSET Hosts]]
    /\ acl \subseteq Hosts /\ unsynced \subseteq Servers
    /\ contested \subseteq Admins /\ aclLost \in BOOLEAN
    /\ calls \in [ToolCalls -> {"none", "waits", "module", "main", "runaway"}]
    /\ stuck \in 0..Workers
    /\ stuck = Cardinality({c \in ToolCalls : calls[c] \in {"module", "runaway"}})

(* With no change of a server's secrets open, those its tools run with are *)
(* the committed ones, whatever handlers, starts and refreshes overlapped, *)
(* unless the last that arrived was read while another change was open, or *)
(* none arrived after a change: its push was skipped, failed or was rolled *)
(* back.  The next one that arrives heals it.  ("So the sandbox always has *)
(* the latest values" is more than the code does.)                         *)
SecretsInSync ==
    \A s \in Servers :
        (Changing(s) = {} /\ s \notin unsynced /\ registry[s].there)
            => registry[s].secrets = secret[s]

(* The proxy lets a tool reach every private host its registration         *)
(* approves, whatever servers come and go and whatever test code adds to   *)
(* the file meanwhile, unless an error of the file system has struck since *)
(* the last registration or removal that wrote the file.                   *)
ApprovedReachable ==
    ~aclLost => \A s \in Servers : registry[s].there => registry[s].hosts \subseteq acl
=============================================================================
