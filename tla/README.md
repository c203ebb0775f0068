# A formal model of MCPbox

TLA+ modules, TLC configurations and TLAPS proofs about MCPbox: how tools are
edited and approved, how they reach the sandbox that runs them, how clients of
the gateway learn of it, how allowlists, secrets and sessions are kept, and the
infrastructure under all of it. Paths below are relative to the repository;
`app/` is `backend/app/`.

## 1. The system

| process | what it runs | state it keeps |
|---|---|---|
| backend | admin API (`/api`), `app.main`, four worker processes | PostgreSQL; in each process: circuit breaker, activity queue, token blacklist, tunnel service, pending OAuth flows, rate limiter, caches |
| mcp-gateway | the same code as `app.mcp_only`, `/mcp` only, one process | its own copies of the in-memory state; MCP sessions, event streams |
| sandbox | `sandbox/app` | tool registry and session pool in memory; the file of approved hosts on a volume |
| PostgreSQL | | servers, tools, versions, requests, secrets, settings, logs |
| worker, cloudflared, squid, frontend | edge, proxy, UI | none that is modelled |

Both Python backends handle requests as coroutines of one event loop; a request
has one SQLAlchemy session (`app/core/database.py`), which commits at its end or
where the handler says so and rolls back on any exception, cancellation
included. Transactions are READ COMMITTED. No table has a version column, so a
flush is `UPDATE ... WHERE id` with the attributes whose value differs from the
*loaded* one. `expire_on_commit=False` and the identity map mean that a row once
loaded stays as loaded, whatever is selected later. Most of what can go wrong
here follows from these facts, and from the many copies of one thing that are
kept in different places: the table, the registry, the file of the proxy, the
caches, the Worker's secrets, the client's list of tools.

### Components, operations, and what makes them correct

- **Tool workflow** (`app/services/tool.py`, `approval.py`): create, import,
  update, rollback, request_publish, approve, reject, revoke, delete. Hard: two
  handlers on one row, each with its own loaded copy; the mode changing in
  between; failures after the flush. Correct: the history is complete; only the
  admin approves; new code is not approved; nobody waits for ever.
- **Publishing** (`app/api/sandbox.py`, `tools.py`, `approvals.py`,
  `mcp_management.py`, `sandbox/app/registry.py`). A registration reads a snapshot
  and sends it; the sandbox replaces what it had. Some handlers send before their
  commit, some after, some never. Correct: the registry is what the approvals
  say; code that was never approved is not runnable.
- **Access requests** (`approval.py`, `servers.py`, `settings.py`): the request
  tables, and the derived columns `allowed_hosts`, `allowed_modules`. Correct:
  the derived lists are what the approved records say.
- **MCP gateway** (`app/api/mcp_gateway.py`, `tool_change_notifier.py`): sessions
  with an expiry, event streams with bounded queues, `tools/list` as a join of
  the sandbox's registry with the approved names, notifications from the admin
  process. Correct: no slot leaks; a client that listens knows the tools.
- **Session pool** (`sandbox/app/mcp_session_pool.py`): sessions to external MCP
  servers, reused, expired, evicted; retries. Correct: bounded; a failed session
  is not reused; nobody is cut off by somebody else; a call ends.
- **Admin sessions** (`app/api/auth.py`, `middleware/admin_auth.py`): tokens,
  their blacklist in a table and in memory, the password version. Correct: what
  was logged out stays out; a change of password cuts older tokens off, where the
  user is asked for.
- **Remote access**: the wizard (`app/services/cloudflare.py`), the caches that
  authenticate `/mcp` by what it stored (`service_token_cache.py`,
  `email_policy_cache.py`), and the `cloudflared` child (`tunnel.py`). Correct: the
  Worker and the database agree; the caches converge and fail closed; no child
  is orphaned; one configuration is active.
- **External sources** (`mcp_oauth_client.py`, `external_mcp_source.py`): OAuth
  flows and tokens that are refreshed inside other handlers. Correct: the stored
  grant is one the authorization server honours.
- **Rate limiter** (`app/middleware/rate_limit.py`). Correct: no window holds more
  than its limit, whatever is cleaned up or changed.
- **Secrets, registry and executor** (`server_secrets.py`, `registry.py`,
  `executor.py`). Correct: the sandbox has the committed secrets; the proxy's
  file has every approved host; threads are accounted for.
- **Circuit breaker** (`app/core/retry.py`): shared by all calls to the sandbox.
  Correct: counts requests, not attempts; recovers; is not put off by stragglers.
- **Activity log** (`app/services/activity_logger.py`): a queue and a flush task
  that logging starts. Correct: one flusher, none missing; order; no entry lost
  but by the limit or a stop.
- Left out, with the reason in `PROJECT.json` and in section 6: package
  installation, execution logs, worker, frontend; most of the backup import.

They interact by calls in one direction (API -> service -> database; handler ->
`SandboxClient` -> breaker -> sandbox), by shared rows, and by fire-and-forget
notifications to the gateway. `PROJECT.json` lists the hazards line by line.

Two settings of the security policy, `module_approval_mode` and
`network_access_policy`, are stored and shown (`app/api/settings.py`) but read
by nothing else; the models therefore have no action for them.

## 2. Modules

| module | models | extends |
|---|---|---|
| `ToolApproval` | tool rows and the handlers that write them | |
| `ApprovalWorkflow` | abstract: what the documents promise of a tool | |
| `ToolPublishing` | handlers + server status + sandbox registry | `ToolApproval` |
| `AccessRequests` | request tables and derived lists | |
| `MCPGateway` | changes of tools, notifications, streams, `tools/list` | |
| `SessionPool` | pooled sessions to external servers | |
| `AdminAuth` | tokens, blacklists, password version | |
| `CloudflareSetup` | the wizard, the rows, what exists at Cloudflare | |
| `GatewayAuth` | the caches of both processes | `CloudflareSetup` |
| `Tunnel` | `TunnelService`, its child, the configurations | |
| `ExternalSources` | OAuth flows, refreshes, transactions | |
| `RateLimiter` | windows, token bucket, clean-up | |
| `SandboxRuntime` | secrets, registry, approved hosts, executor threads | |
| `CircuitBreaker`, `ActivityLogger` | as named | |
| `MC...` | instances for TLC | |

| proofs | about |
|---|---|
| `ToolApproval_proofs` | `ToolApproval`, and that it implements `ApprovalWorkflow` |
| `ToolPublishing_proofs` | `ToolPublishing`, and that the guarantees of `ToolApproval` hold in it |
| `MCPublishing_proofs` | what follows for the two instances `MCPublishing` runs |
| `AccessRequests_proofs` | `AccessRequests` |
| `Sessions_proofs` | `MCPGateway`, `SessionPool` |
| `RemoteAccess_proofs` | `AdminAuth`, `Tunnel`, `ExternalSources` |
| `Backend_proofs` | `SandboxRuntime`, `RateLimiter`, and the parts of `MCBackend` together |
| `Live_proofs` | `GatewayAuth` with `CloudflareSetup`, `CircuitBreaker`, `ActivityLogger`, and the parts of `MCLive` together |

### ToolApproval

`row`, `versions` and `life` are the committed database; `lock[t]` is the handler
whose open transaction has written the row; `h[p]` is the session of handler `p`:
the row it loaded (`seen`), the values it assigned (`want`), where it is. An
operation is: `Begin` (load, guard), for rollback `PickVersion`, `GetApprovalMode`
where the code reads the setting, `Flush` (takes the row lock), `Commit` or
`Abort`. The order of `GetApprovalMode` and `Flush` is the code's: `update` reads
the mode before it has assigned anything, whereas in `rollback` and
`request_publish` attributes are already dirty and the SELECT of the setting
autoflushes them. `Written` is the rule about attributes with their loaded
value; `NewRow` applies it to the row as it is when the lock is had, and
increments the version there, as the SQL expression does. `NewTool` and
`ImportTool` are single steps: nobody else can see an uncommitted new row.
`enabled` stands for all the metadata columns.

`ApprovalWorkflow` is the abstract specification: which status may follow which,
and that new code goes to the queue (or is approved at once if the admin chose
so). The mapping hides sessions and locks and shows a deleted or not yet created
tool as a status.

### ToolPublishing

Extends `ToolApproval` and adds, per handler, the publishing pipeline `g[p]`:
list the tools, send, record the status. The actions of `ToolApproval` are
conjoined with what the endpoint does around them:

| endpoint | actions |
|---|---|
| update, delete (admin and MCP) | `Flush`, `SnapshotBeforeCommit`, `Register`, `CommitRegistered` |
| an update without changes | `UpdateNothing`, `ReregisterServer`, `Register` |
| approve, revoke, auto-approved request_publish | `CommitThenRegister`, `ReregisterServer`, `Register` |
| rollback, reject, queued request_publish | `CommitQuietly` |
| start (admin / MCP), restart | `BeginServerOp`, (`Unregister`), `ListTools`, `Register`, `SetStatus`/`StatusFails` |
| stop | `Unregister`, `SetStatus` |
| process start | `Recover`, `Register` |

`ListByServer(copy, ts)` is the identity map: a row in the session's copy is seen
as it was. approve and revoke load the server with the tool, so their
re-registration decides on the status of that time. `Register` has three
outcomes: it works, it is lost, or it lands and is reported as failed; the
handlers differ in what they do then. `everApproved` and `unfiltered` are
history variables for the properties.

### AccessRequests

One module for both tables (`kind`): they have one life cycle. A handler's
`change` are the rows it writes; `Flush` writes them and recomputes the list from
the approved rows its transaction sees; `WriteCache` writes the list if it
differs from the one the session loaded; `Blocked` and `Fails` are the database's
row locks, partial unique indexes and foreign keys. `Entries` is
`sync_allowed_hosts` (an any-port approval supersedes those for a port) and
`sync_allowed_modules` (the names a package is imported by are added). A bulk
action is a sequence of single ones. `DeleteTool` is the cascade.

### MCPGateway

`db`, `running` and `reg` are what `tools/list` is made from: the approved and
enabled rows, the status of the server, the registry of the sandbox. A handler
`job[j]` works through `Program(kind, up)`, the order in which that handler
commits, registers and notifies: approve and revoke commit first, start and stop
commit their status after the registration, update registers and notifies before
`get_db` commits, rollback only commits. `local` handlers run in the gateway (the
management tools) and broadcast at once; the others `post`, which is delivered or
lost. A stream is `checked` between the test of the limit and the first step of
its generator, which counts it; it is `left` between the disconnect and the
generator's `finally`. `ListRegistered` and `ListApproved` are the two reads of
`tools/list`; `ListFails` is the sandbox or the database failing in either: the first
is answered with the management tools alone, as if all was well, and `unlisted` notes
the client. `RegistrationFails` is a handler that cannot reach the sandbox. `untold`
collects the tools whose registration or listing has changed since the last
broadcast. Reading and sending a registration is one step here: that race is
`ToolPublishing`'s.

### SessionPool

`pool[k]` are the entries by key, `ent[e]` the state of an entry object: whether
its session is initialized, its HTTP client open, its lock held, its age over the
limit. An object outlives its place in the pool as long as a call refers to it;
then it is `Garbage` and a new entry may be it. Looking up, with both evictions,
is one step because nothing under the pool's lock suspends: `close()` makes a
coroutine and drops it, so `Closed` leaves the client open. Failing and evicting
are one step for the same reason, and `Evict` removes whatever has the key.
`used` is the order of `last_used_at`, as pairs of an entry and a later one.

### AdminAuth

Tokens are numbered as they are issued and carry a kind and a password version.
A request passes the blacklist, then reads the user, then acts: three steps, so
that a logout or a change of password can come between. `memory[p]` is the
middleware's set in worker process `p`, `blacklist` the table. `Logout` writes
both; a token that is in the table already makes the commit fail
(`LogoutFails`). `ExpireToken` is the passing of time for a token that matters. A
change of password writes the version its request read, plus one. Three histories
follow it: `cut`, the tokens of before the last answered change, `late`, the requests
that had read the user by then (what they issue joins `cut`), and `overwritten`, that
a change wrote over another it had not read.

### CloudflareSetup and GatewayAuth

A step of the wizard changes `remote`, what exists at Cloudflare, and drafts the
row `op.draft`; it ends done, refused (status "error" is committed with what was
done) or interrupted (nothing is committed). Between its work and `CommitStep`,
some steps invalidate and reload a cache of their own process, in another
session: `InvalidateCache`, `ReloadCache`. A request's load is `BeginLoad` (the
query) and `EndLoad` (the cache is set, the request decided), so that a commit,
an invalidate or another load can come between. `Stored` raises when two rows are
active. `Loaded` is the code's rule for failures, `AuthEnabled` its decision
whether a request without a token is a local one.

### Tunnel

`tunnel` is `_status` and `_process`, `holder` the request with `_lock`, `live` the
children that run. Start is `LockStart`, `Spawn`, then `ReadsConnected` or
`GivesUp` and `CleansUp`; `HealthCheck` takes no lock. The configurations are
rows with locks: activate clears all rows and sets one, delete looks at the row
it loaded, the wizard clears the active rows it loaded and adds its own. `crossed`
records the two ways in which two rows end up active: the wizard clears only
what it loaded, and an activation that had to wait for a row sees none that was
created meanwhile.

### ExternalSources

A flow is stored, taken out and exchanged for tokens; a use of a source reads the
row, refreshes the access token if it has expired (`RefreshAnswered`: the server
rotates), flushes the new one under the row lock, calls the sandbox, and ends in
`CallWorks`, `AnswerMalformed`, `CallFails` or `RollBack`. `Keeps` says which handlers
commit after a failed call; after an answer discover cannot read, its transaction is
rolled back, and with it the new token (`stranded`). `honoured` is the authorization server's side.

### RateLimiter

One step per check, as the lock makes it. The clean-up of old requests is part of
it whatever the outcome; refilling the bucket happens only if the windows allow
the request. The list of arrival times is a set of pairs of a tick and a number
that tells the requests of one tick apart. `admitted` is the history the property
is about.

### SandboxRuntime

The secrets a handler reads are the committed ones with its own flushed change
(`SecretsSeen`), pushed before its commit; start, restart and the refresh after a
decision on hosts read and register. The registry's two side effects are the
replaced server and the rebuilt file `acl`. `WriteFile` and `AddToFile` have the errors
of the file system the code swallows: a write that is not made or cut short, and a
read that makes the file look empty (`aclLost`). Two histories follow the secrets:
`contested`, the handlers that read a server's secrets while another was changing
them, and `unsynced`, the servers whose last push was such a one or did not arrive.
An execution waits for a thread, runs its module level there, then awaits `main()`;
`TimeOut` leaves the thread running. `/execute` runs on the event loop and only adds
to the file.

### CircuitBreaker, ActivityLogger

The critical sections have no await, so each method is one step joined to the
return of the call it records; requests interleave while their HTTP call runs and
between attempts. `age` is the time since `last_failure_time`, in ticks up to the
timeout. In the log, the flush task is suspended while it sleeps, writes, and
rolls back or closes its session. A write either lands or fails, and one that
landed may still be reported as failed. `Refused` are entries the database does
not accept. `Stop` is the process ending.

## 3. Runs

Parts that share no state are checked in one run (`MCLive`, `MCBackend`,
`MCPublishing`): a variable `part`, chosen initially and never changed, says
which one runs, from its own initial states; the others stay in theirs. The
behaviours of such a run are those of its parts, not their product, and the
fairness of a part is stated while it runs. (The two parts of `MCPublishing` are
instances of one module over the same variables.)

| run | instance | shows |
|---|---|---|
| `approval_overlap` | 1 tool, 2 overlapping requests, 1 code, 3 versions, both modes | `TypeOK`, `VersionHistory`, `OnlyApproveApproves`, `RequestsEnd` |
| `live`: approval | 2 requests not overlapping, 2 codes, both modes | `ImplementsWorkflow` |
| `live`: auth | 2 rows, 1 policy, 2 steps of the wizard from 3 situations, 1 fault, the backend process | `WorkerInSync`, `LocalOnlyIfRead`, `CachesConverge` |
| `live`: breaker | 3 requests, 1 retry, thresholds 2 | `CountsRequests`, `TimerNotExtended`, `Recovers` |
| `live`: logger | 5 entries, limit 2, 1 refused | `OneFlusher`, `InOrder`, `Accounted`, `LimitedRequeue`, `Settles` |
| `publishing`: overlap | 1 tool, 2 codes, 2 overlapping requests, failures and restarts, require_approval | `OverlappingApproved` (`RegisteredWasApproved`) |
| `publishing`: serial | 2 tools, 1 code, requests one at a time, no failures, both modes | `SerialInSync` (`RegistryInSync`) |
| `backend`: access | 2 rows, 1 tool and the admin, 2 overlapping handlers, both tables | `CacheOnlyApproved`, `MutationsSync` |
| `backend`: admin | 4 tokens, 2 requests that may both change the password, 3 versions, 2 processes, 1 restart | `LoggedOutStaysOut`, `ChangeCutsOff` |
| `backend`: tunnel | 2 requests, 2 configurations, 2 children | `NoOrphan`, `OneActive` |
| `backend`: sources | 1 source, 2 flows, 2 requests, 4 refresh tokens, 1 loss; discover and health check, badly described tools | `GrantKept` |
| `backend`: limiter | 1 client, 2 configurations, a clock past the inactivity | `WindowsHold` |
| `backend`: runtime | 2 servers, 2 secrets, 1 host, 2 overlapping admin requests of 3, 1 thread, 1 failure or file error | `SecretsInSync`, `ApprovedReachable` |
| `gateway` | 2 clients, 1 stream allowed, queue of 1, 2 changes, 1 fault (a failed registration or listing, a lost post, a restart); approve, revoke, start, stop | `StreamsCounted`, `NoMissedChange`, `ChangesAreTold`, `ListenersCatchUp` |
| `session_pool` | 2 calls, 2 keys, a pool of 1, 1 retry | `PoolBounded`, `FailedNotReused`, `RunsBounded`, `NotCutOff`, `CallsEnd` |
| `approval_race` | as overlap, 2 codes | **violated**: `CodeChangeResetsApproval` |
| `publishing_start` | 1 tool, serial | **violated**: `OnlyActiveRegistered` |
| `access_cascade` | as access, serial | **violated**: `CacheMatchesRecords` |
| `gateway_enable` | as gateway, with enable and disable | **violated**: `ChangesAreTold` |
| `password_change` | as admin | **violated**: `OldTokensRefused` |
| `oauth_start` | as sources, with start | **violated**: `GrantKept` |

Each passing run has one type invariant (`publishing` and `session_pool` have
none of their own); `LiveTypeOK` and `BackendTypeOK` are those of their parts,
and carry what is exact about them: the breaker's counters in each state, the
threads of the executor, who holds a row, that a wizard's row has a step only if
it has the one before.

**Bounds.** Two handlers suffice for the races here, all between one handler's
load and another's commit; a third would only repeat a role (the theorems of
section 4 hold for any number). `MaxVersion` lets two edits overlap and a third
follow. One tool is enough where properties are per tool; the serial publishing
has two because a registration carries all tools of a server. Two request rows
make the interesting pairs (two ports of a host, a tool's and the admin's). The
gateway's queue and its limit are reached by one event and one client, and
passed by a second; two changes make one that overtakes the listing of the
other. A pool of one entry with two keys evicts at every change of key, and
three entry objects are the most two calls and the pool can refer to. Four tokens
are two logins, or a login and a refresh; three versions of the password let two
changes overlap and one more follow. Three admin requests on two secrets are two that
overlap and one that heals. The wizard is started from a new
installation, a complete one, and one whose wizard was begun a second time,
because two steps do not lead that far. The limiter's clock runs past minute,
hour and inactivity, in this order as the real ones are. The breaker has more
requests than its thresholds, the log more than twice its limit. `MaxFailures`
and the other bounds on faults let one fault hit any step and be recovered from.
Symmetry is used only in runs without liveness properties.

**Deadlock** is checked in `session_pool`; the other configurations switch it off
because a behaviour ends when ids, versions, tokens or changes are used up. That
nobody is stuck is what `RequestsEnd`, `Recovers`, `Settles`, `ListenersCatchUp`
and `CallsEnd` say.

**What is not claimed.** `SerialInSync` is checked without rollback (which
registers nothing) and without the deletion of the server (which leaves the
registration): both leave the sandbox out of step and no document promises
otherwise. It allows what the unfiltered start registers until the next
registration. With overlapping requests the newest snapshot need not win, so
`OverlappingApproved` says only that runnable code was approved once, and
it lets no two requests for the *same tool* overlap, since `approval_race` shows
what then happens to the approval itself. `ChangeCutsOff` is about the handlers that
ask for the user (those of `api/auth.py` and `api/approvals.py`): the middleware does
not compare versions (`password_change`). It has overlapping changes, and says nothing
once one has written over another it had not read, because then the version can stay
or go back and older tokens are current again. `SecretsInSync` has overlapping
handlers, and says nothing of a server between a push (or registration) whose
secrets were read while another change was open, or one that did not arrive, and the
next that is neither; "the sandbox always has the latest values"
(`api/server_secrets.py`) is more than the code does. `ApprovedReachable` says nothing
between an error of the file system and the next time the file is built.
`NoMissedChange` and `ListenersCatchUp` say nothing of a client whose last `tools/list`
failed, until it lists again. `GrantKept` says nothing of a source whose new token
was rolled back because its server described a tool badly. `OneActive` excludes a step of the wizard that overlaps an activation
and a configuration that is created, and activated first, while another activation
waits for a row (which takes three requests; the run has two, the theorem any),
`WorkerInSync` a step that was cut off and not repeated, `CachesConverge` two active
rows. The limit of streams can be exceeded by connections checked together:
`StreamsCounted` is about the count, not the limit. `GrantKept` excludes lost
answers, against which a rotating server leaves no remedy.

**Fairness.** `ToolApproval`: weak fairness of a handler that can continue (the
event loop resumes it) and strong fairness of its flush (PostgreSQL queues those
who wait for a row lock); aborts are never obliged to happen. `CircuitBreaker`:
time passes, clients keep calling, a request that asks gets an answer from the
breaker; no call has to return. `ActivityLogger`: tasks go on, transactions end,
and a database that keeps accepting a batch does not fail it every time; `Settles`
is conditional on no batch holding an entry that is refused or already written,
because such a batch fails for ever and everything behind it waits.
`GatewayAuth`: steps of the wizard end, a time to live passes, requests keep
coming and their loads end; faults are bounded. `MCPGateway`: handlers and
generators run on, a post arrives or is given up, and a client reads its stream
and lists when told to; nobody has to connect, disconnect or change anything.
`SessionPool`: requests have a timeout and sleeps end; strong fairness of the
entry's lock, because `asyncio.Lock` serves waiters in order.

## 4. What is proved

TLAPS proves the following for every value of the constants that the named
assumptions (`...ConstantsOK`) allow; a hypothesis beyond these is written in the
theorem and named here. Every invariant and action property of the passing runs
has a theorem.

**Approval** (`ToolApproval_proofs`)

- `TypeCorrect`: `TypeOK`, inductive because it includes that a lock's owner works
  on that tool past its flush.
- `HistoryCorrect`: `VersionHistory`, with `TypeOK` and what a handler in flight may
  rely on; the core is that the number is incremented on the locked row, so that
  the new entry's number is the next.
- `ApprovalCorrect`: `OnlyApproveApproves`. The invariant behind it: under
  require_approval no handler but an approve's wants the status "approved"; and
  in either mode what a handler writes is never a status it merely loaded.
- `WorkflowCorrect`: the refinement `ImplementsWorkflow`, if `~Overlap`. `SerialInv`
  says that then a handler's loaded row is the row, so that what it decided on
  still holds when it commits; with it every commit of a handler is a step of
  the workflow and every other step a stutter. `ResetCorrect` draws from it
  that `CodeChangeResetsApproval` fails by overlap only (finding 1).

**Publishing** (`ToolPublishing_proofs`, `MCPublishing_proofs`)

- `RegistrationsApproved`: `RegisteredWasApproved` for any tools, handlers, codes and
  versions, if every approval is the admin's (`Modes = {"require_approval"}`), the
  requests for one tool do not overlap, and nobody starts the server unfiltered:
  the hypotheses are those of the run, and findings 1 and 2 are why the last two
  are needed. `FilteredRegistrations` drops the last one and speaks of the
  registrations that were filtered. The invariant carries what was once approved
  through a handler's snapshot, its call in flight and the sandbox's registry, and
  says which copies of a row a session may still hold.
- `SerialCorrect`: `RegistryInSync` for any tools, codes, versions, modes and any
  number of handlers of which one at a time answers, if nothing fails, nobody rolls
  back and no server is deleted (`Registering`, the hypotheses of the run; the
  paragraph on what is not claimed says why). Database and sandbox do not agree
  while a request is under way, and not always in the same order: an edit or a
  deletion registers first and commits afterwards, an approval commits first. The invariant
  `SyncInv` therefore speaks of `Pending`, the rows the database will hold once the one
  request has committed, and of `Stage`: at each await of each pipeline, what the
  handler has loaded, what its session still holds, and whether the registry, or
  the call about to be sent, already reflects `Pending`. The copies in a session do no harm
  because they are copies of what the request itself is about to commit.
- `OverlappingCorrect`, `SerialInstanceCorrect`: the same of the run's two instances,
  that is `OverlappingApproved` and `SerialInSync`. `MCPublishing` takes the second as
  an INSTANCE of the module with the proofs, so that `SerialCorrect` is also a theorem
  of it; its hypothesis `Registering` holds of that instance by definition.
- `PublishedHistory`, `PublishedApproval`: `VersionHistory` and `OnlyApproveApproves`
  hold in the composed system without any hypothesis, the deletion of servers
  included. `PublishedWorkflow`: unless a server is deleted, which removes all its
  tools at once, the composed system is a behaviour of `ToolApproval`'s
  specification, and implements `ApprovalWorkflow` if `~Overlap`. What
  `ToolApproval` promises is thus not lost where it is used.
- `ToolPublishing` assumes of its constants (`PublishingConstantsOK`) that
  `NotRegistered`, the sandbox's empty entry, is no registration.

**Derived lists** (`AccessRequests_proofs`)

- `CacheCorrect`: `CacheOnlyApproved`; an entry on the list comes from a row that
  was committed as approved, also while the handler that recomputed it
  reads rows others have flushed. `SyncCorrect`: `MutationsSync`; it needs that an
  undisturbed handler's view of the rows is the table. `AccessTypeCorrect`: the types,
  and that no request outlives its tool.

**Sessions and remote access** (`RemoteAccess_proofs`)

- `LoggedOutCorrect`: `LoggedOutStaysOut`, because a token that was logged out is
  in the table until it has expired, whichever request, clean-up or restart comes
  in between, and in the memory of the process that answered.
- `ChangeCorrect`: `ChangeCutsOff`, without hypothesis. As long as no change has written
  over another, no token and no request under way has a version above the user's,
  and those that had read the user before the last change, or were issued before it,
  have a smaller one, logins and refreshes that finish later included.
- `NoOrphanCorrect`: `NoOrphan`. The invariant says which request has the lock, and
  what that request may assume of the child at each of its awaits, since a health
  check does not take the lock.
- `OneActiveCorrect`: `OneActive`. An activation has cleared, or waits to clear, its
  own row and every active one; and of two under way, the later statement has seen
  the row of the earlier. The proof found the second case that `crossed` records.
- `GrantCorrect`: `GrantKept`, if `Purposes` is within discover and health check
  (`oauth_start` refutes it with start). The invariant follows the one honoured
  refresh token from the server's answer over the open transaction to the row, for
  every source that is not `stranded`.
- `AdminTypeCorrect`, `TunnelTypeCorrect`, `SourcesTypeCorrect`: the types.

**Sandbox and limiter** (`Backend_proofs`)

- `ReachableCorrect`: `ApprovedReachable`, file errors included: what writes the file
  without one makes it hold every registration again. `SecretsCorrect`:
  `SecretsInSync`, for any number of overlapping handlers. The invariant follows what
  a handler carries from its read to its arrival: unless it is contested, it is the
  committed row with the change of the one handler that is open, if any; and what a
  server holds is related to the handlers that have arrived and not yet committed.
- `WindowsCorrect`: `WindowsHold`. The invariant compares the history of a client
  with what its bucket has kept: what was forgotten, by the clean-up or with an
  idle bucket, is out of every window for good.
- `RuntimeTypeCorrect`, `LimiterTypeCorrect`; `BackendTypeCorrect`: `BackendTypeOK`, all
  parts of the run's specification together.

**Wizard, caches, breaker, log** (`Live_proofs`)

- `WorkerCorrect`: `WorkerInSync`; the invariant relates what exists at Cloudflare
  to the draft a step will commit, and the draft to the row. `LocalOnlyCorrect`:
  `LocalOnlyIfRead`.
- `CountingCorrect`, `TimerCorrect`: the breaker, for any number of requests and any
  thresholds.
- `OneFlusherCorrect`: no lost wake-up and no second flusher. `AccountedCorrect`: no
  entry disappears; it rests on the lemma that a task forgets a batch only after
  the batch is in the table, in the queue, or dropped. `OrderCorrect`: `InOrder`, since
  the table, the batch of the one flusher and the queue are always one increasing
  sequence. `LimitCorrect`: `LimitedRequeue`.
- `AuthTypeCorrect`, `BreakerTypeCorrect`, `LoggerTypeCorrect`; `LiveTypeCorrect`:
  `LiveTypeOK`.

**Gateway** (`Sessions_proofs`)

- `NothingMissed`: `NoMissedChange`, for any kinds of change and whatever fails or is lost.
  The invariant: what a client that is not `unlisted` has read, or joined, differs from the present only
  in tools that are `untold`, unless an event waits in its queue. It needs `untold`
  to follow the registration as well as the listing, because a client may have
  read one and not yet the other.
- `ToldCorrect`: `ChangesAreTold`, if `Kinds` has only approve, revoke, start and stop
  (`gateway_enable` refutes it for the others): whoever still has something to do
  will notify at the end. `CountCorrect`: `StreamsCounted`. `GatewayTypeCorrect`: the
  types.

**Session pool** (`Sessions_proofs`)

- `EvictionCorrect`, `RunsCorrect`, `CutOffCorrect`: `FailedNotReused`,
  `RunsBounded` and `NotCutOff`. One invariant serves all three: an entry is pooled
  under one key, that of every call that holds it, so a failed call evicts the
  entry it failed on or the one that replaced it; and a session that is
  initialized or in use has its HTTP client. The last is so only because closing
  an entry closes no client (section 5): with a close that worked, `NotCutOff` would
  fail, as its mutant shows.
- `BoundedCorrect`: `PoolBounded`; `used` is a strict total order of the pooled entries,
  so a full pool has a least recently used one.

**Only model-checked.** Liveness (`RequestsEnd`, `Recovers`, `Settles`,
`CachesConverge`, `ListenersCatchUp`, `CallsEnd`), and with it everything that rests
on ENABLED: out of the provers' reach.

## 5. Findings

1. `CodeChangeResetsApproval` (`app/services/tool.py`, `update`): loaded as
   `pending_review`, the reset to `pending_review` is no change and is not written;
   an approval that commits between load and flush stays on the new code.
2. `OnlyActiveRegistered` (`app/api/sandbox.py`, start and restart): tools are not
   filtered by status and `enabled`.
3. `CacheMatchesRecords` (deleting a tool): its approved requests are cascaded
   away and the allowlists keep their entries.
4. `ChangesAreTold` (`app/api/tools.py`, `update_tool`): the notification leaves
   before the commit; a client that lists at once keeps the old list, as the run
   shows. (On a stopped server none leaves at all, by the code of `update_tool`.)
5. `OldTokensRefused` (`app/middleware/admin_auth.py`, `dispatch`): the password version
   is not compared, so on every route that does not ask for the user an access token
   of before a change of password works until it expires.
6. `GrantKept` with start (`app/api/sandbox.py`, `start_server`): a failed
   registration rolls back the refresh token that was just rotated.

Smaller observations, in the notes of the hazards: the middleware's blacklist is
per process and empty after a restart; the policy cache is reloaded before the
commit; overlapping changes of password share a number, or one takes the version
back; overlapping changes of secrets can leave an old one in the sandbox; an error of
the file system loses approved hosts and the registration succeeds; a `tools/list`
that could not reach the sandbox looks like any other; a badly described tool costs
an external source its grant; `_PoolEntry.close` makes a coroutine and drops it, so an
evicted session keeps its HTTP client; a cancelled start leaves the tunnel
"connecting"; threads of timed-out code are not got back.

## 6. Not modelled

- Package installation and its synchronisation: pip, the file system, the
  package index; nothing in the backend depends on the outcome.
- Execution logs, audit entries, retention, the activity stream and statistics:
  rows that are written once and read by the UI.
- The restrictions on sandboxed code (builtins, imports, `ssrf.py`): computations
  on one input, not behaviour.
- The OAuth worker (stateless, on a platform outside the repository), the
  frontend, squid.
- Backup import beyond the tools' status; KV namespaces, allowed origins and
  `update_worker_config` of the wizard; renaming rows; the limit on failed
  logins; `evict_by_source_url` and `close_all`, which nobody calls.
- The page of 50 tools that a registration reads: the instances have two tools.

## 7. Plan

Done: all components with behaviour of their own have a module, and every safety
property of the passing runs a theorem. Next: the backup import in
`AccessRequests`; several servers in `ToolPublishing`, for deletion and for the modules
that are global.
