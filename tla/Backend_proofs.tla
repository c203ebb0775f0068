--------------------------- MODULE Backend_proofs ---------------------------
(***************************************************************************)
(* Proofs about SandboxRuntime and RateLimiter, and about the types of the *)
(* six parts that MCBackend runs.                                          *)
(***************************************************************************)
EXTENDS MCBackend, AccessRequests_proofs, RemoteAccess_proofs,
        SequenceTheorems, FiniteSetTheorems, TLAPS

-----------------------------------------------------------------------------
(* What the sandbox has of a server: SandboxRuntime.                       *)

Secrets == [SecretKeys -> 0 .. MaxValue]
Registered == [there : BOOLEAN, secrets : Secrets, hosts : SUBSET Hosts]
Handler == [op : {"none", "secret", "start", "stop", "refresh"},
            step : {"none", "read", "push", "commit", "register"},
            server : Servers \union {NoHandlerStep.server},
            key : SecretKeys \union {NoHandlerStep.key},
            value : 0 .. MaxValue, secrets : Secrets, hosts : SUBSET Hosts]

RuntimeTyped ==
    /\ secret \in [Servers -> Secrets] /\ approved \in [Servers -> SUBSET Hosts]
    /\ registry \in [Servers -> Registered]
    /\ handlers \in [Admins -> Handler]
    /\ values \in 0 .. MaxValue
    /\ \A adm \in Admins : handlers[adm].step # "none" => handlers[adm].server \in Servers

\* The inductive invariant.
HostsInv == RuntimeTyped /\ ApprovedReachable

\* The records of nothing.
LEMMA NothingOK ==
    /\ NoSecrets \in Secrets
    /\ NotRegistered \in Registered /\ ~NotRegistered.there
    /\ NoHandlerStep \in Handler /\ NoHandlerStep.op = "none" /\ NoHandlerStep.step = "none"
  BY RuntimeConstantsOK DEF NoSecrets, Secrets, NotRegistered, Registered, NoHandlerStep, Handler

\* The record with which the handler adm goes on.
LEMMA HandlerGoes ==
  ASSUME RuntimeTyped, NEW adm \in Admins, NEW x \in Handler, x.step # "none" => x.server \in Servers,
         handlers' = [handlers EXCEPT ![adm] = x]
  PROVE  /\ handlers' \in [Admins -> Handler] /\ handlers'[adm] = x
         /\ \A g \in Admins : handlers'[g].step # "none" => handlers'[g].server \in Servers
  BY DEF RuntimeTyped

\* The record of a request that is about to register a server.
LEMMA ServerOpenedOK ==
  ASSUME RuntimeTyped, NEW s \in Servers, NEW adm \in Admins, NEW op \in {"start", "refresh"}
  PROVE  ReadServer(adm, op, s) \in Handler /\ ReadServer(adm, op, s).server = s
<1>1. secret[s] \in Secrets /\ approved[s] \in SUBSET Hosts
  BY DEF RuntimeTyped
<1> QED
  BY <1>1, NothingOK DEF ReadServer, NoHandlerStep, Handler

\* A file built again without an error has the hosts of every server.
LEMMA BuiltAgain ==
  ASSUME WriteFile(ApprovedOf(registry'), FALSE)
  PROVE  ApprovedReachable'
<1>1. ~aclLost' => acl' = ApprovedOf(registry')
  BY DEF WriteFile
<1> QED
  BY <1>1 DEF ApprovedOf, ApprovedReachable

\* Steps that leave the registry and the file alone keep what is reachable.
LEMMA RegistrySame ==
  ASSUME HostsInv, UNCHANGED <<registry, acl, aclLost>>
  PROVE  registry' \in [Servers -> Registered] /\ ApprovedReachable'
  BY DEF HostsInv, RuntimeTyped, ApprovedReachable

\* The removal of a server keeps the registry and what is reachable.
LEMMA UnregisterOK ==
  ASSUME HostsInv, NEW s \in Servers, Unregister(s)
  PROVE  registry' \in [Servers -> Registered] /\ ApprovedReachable'
<1>1. CASE registry[s].there
  <2>1. /\ registry' = [registry EXCEPT ![s] = NotRegistered]
        /\ WriteFile(ApprovedOf(registry'), FALSE)
    BY <1>1 DEF Unregister
  <2>2. registry' \in [Servers -> Registered]
    BY <2>1, NothingOK DEF HostsInv, RuntimeTyped
  <2> QED BY <2>1, <2>2, BuiltAgain
<1>2. CASE ~registry[s].there
  <2>1. UNCHANGED <<registry, acl, aclLost>>
    BY <1>2 DEF Unregister
  <2> QED BY <2>1, RegistrySame
<1> QED BY <1>1, <1>2

\* The registration of a server, whose hosts join the file.
LEMMA RegisterOK ==
  ASSUME HostsInv, NEW s \in Servers, NEW secrets \in Secrets, NEW hosts \in SUBSET Hosts,
         Register(s, secrets, hosts)
  PROVE  registry' \in [Servers -> Registered] /\ ApprovedReachable'
<1> DEFINE x == [there |-> TRUE, secrets |-> secrets, hosts |-> hosts]
<1>1. x \in Registered
  BY DEF Registered
<1>2. registry' = [registry EXCEPT ![s] = x] /\ WriteFile(ApprovedOf(registry'), FALSE)
  BY DEF Register
<1> HIDE DEF x
<1>3. registry' \in [Servers -> Registered]
  BY <1>1, <1>2 DEF HostsInv, RuntimeTyped
<1> QED BY <1>2, <1>3, BuiltAgain

\* A push replaces the secrets of a server and none of its hosts.
LEMMA UpdateOK ==
  ASSUME HostsInv, NEW s \in Servers, NEW secrets \in Secrets, UpdateSecrets(s, secrets),
         UNCHANGED aclLost
  PROVE  registry' \in [Servers -> Registered] /\ ApprovedReachable'
<1>1. CASE registry[s].there
  <2> DEFINE x == [registry[s] EXCEPT !.secrets = secrets]
  <2>1. registry[s] \in Registered
    BY DEF HostsInv, RuntimeTyped
  <2>2. x \in Registered /\ x.hosts = registry[s].hosts /\ x.there = registry[s].there
    BY <2>1 DEF Registered
  <2>3. registry' = [registry EXCEPT ![s] = x] /\ acl' = acl
    BY <1>1 DEF UpdateSecrets
  <2> HIDE DEF x
  <2>4. registry' \in [Servers -> Registered]
    BY <2>2, <2>3 DEF HostsInv, RuntimeTyped
  <2>5. \A t \in Servers : registry'[t].there = registry[t].there
                           /\ registry'[t].hosts = registry[t].hosts
    BY <2>2, <2>3 DEF HostsInv, RuntimeTyped
  <2>6. ApprovedReachable'
    BY <2>3, <2>5 DEF HostsInv, ApprovedReachable
  <2> QED BY <2>4, <2>6
<1>2. CASE ~registry[s].there
  <2>1. UNCHANGED <<registry, acl, aclLost>>
    BY <1>2 DEF UpdateSecrets
  <2> QED BY <2>1, RegistrySame
<1> QED BY <1>1, <1>2

\* Nothing is registered and nothing asked at first.
LEMMA RuntimeInitOK ==
  RuntimeInit => HostsInv
<1> SUFFICES ASSUME RuntimeInit PROVE HostsInv
  OBVIOUS
<1>1. RuntimeTyped
  BY NothingOK, RuntimeConstantsOK DEF RuntimeInit, RuntimeTyped
<1>2. ApprovedReachable
  BY NothingOK DEF RuntimeInit, ApprovedReachable
<1> QED BY <1>1, <1>2 DEF HostsInv

\* The handlers keep their types, and the rows theirs.
LEMMA HandlerTypes ==
  ASSUME HostsInv, NEW adm \in Admins, HandlerStep(adm)
  PROVE  /\ secret' \in [Servers -> Secrets] /\ approved' \in [Servers -> SUBSET Hosts]
         /\ values' \in 0 .. MaxValue /\ handlers' \in [Admins -> Handler]
         /\ \A g \in Admins : handlers'[g].step # "none" => handlers'[g].server \in Servers
<1> USE DEF HostsInv
<1> DEFINE Others == /\ handlers' \in [Admins -> Handler]
                     /\ \A g \in Admins : handlers'[g].step # "none" => handlers'[g].server \in Servers
<1>0. /\ handlers[adm] \in Handler /\ handlers \in [Admins -> Handler]
      /\ handlers[adm].step # "none" => handlers[adm].server \in Servers
  BY DEF RuntimeTyped
<1>w. ASSUME NEW x \in Handler, x.step # "none" => x.server \in Servers,
             handlers' = [handlers EXCEPT ![adm] = x]
      PROVE  Others
  BY <1>w, HandlerGoes
<1>n. ASSUME NEW step \in {"read", "push", "commit", "register"}, NextStep(adm, step),
             handlers[adm].step # "none"
      PROVE  Others
  <2> DEFINE x == [handlers[adm] EXCEPT !.step = step]
  <2>1. x \in Handler /\ x.server = handlers[adm].server
    BY <1>0 DEF Handler
  <2>2. handlers' = [handlers EXCEPT ![adm] = x]
    BY <1>n DEF NextStep
  <2> HIDE DEF x
  <2> QED BY <2>1, <2>2, <1>0, <1>n, <1>w
<1>r. ASSUME Respond(adm) PROVE Others
  BY <1>r, <1>w, NothingOK DEF Respond
<1>1. ASSUME NEW s \in Servers, NEW k \in SecretKeys, NEW op \in {"set", "delete"},
             FlushSecret(adm, s, k, op)
      PROVE  values' \in 0 .. MaxValue /\ Others /\ UNCHANGED <<secret, approved>>
  <2> DEFINE v == IF op = "set" THEN values' ELSE 0
             x == [NoHandlerStep EXCEPT !.op = "secret", !.step = "read", !.server = s,
                                        !.key = k, !.value = v]
  <2>1. values' \in 0 .. MaxValue /\ v \in 0 .. MaxValue
    BY <1>1, RuntimeConstantsOK DEF FlushSecret, RuntimeTyped
  <2>2. x \in Handler /\ x.server = s
    BY <2>1, NothingOK DEF NoHandlerStep, Handler
  <2>3. handlers' = [handlers EXCEPT ![adm] = x] /\ UNCHANGED <<secret, approved>>
    BY <1>1 DEF FlushSecret, OpenRequest
  <2> HIDE DEF x, v
  <2> QED BY <2>1, <2>2, <2>3, <1>w
<1>2. ASSUME NEW s \in Servers, NEW k \in SecretKeys, CommitSecret(adm, s, k)
      PROVE  secret' \in [Servers -> Secrets] /\ Others /\ UNCHANGED <<values, approved>>
  <2> DEFINE x == [secret[s] EXCEPT ![k] = handlers[adm].value]
  <2>1. x \in Secrets
    BY <1>0 DEF RuntimeTyped, Secrets, Handler
  <2>2. secret' = [secret EXCEPT ![s] = x]
    BY <1>2 DEF CommitSecret
  <2> HIDE DEF x
  <2>3. secret' \in [Servers -> Secrets]
    BY <2>1, <2>2 DEF RuntimeTyped
  <2> QED BY <1>2, <2>3, <1>r DEF CommitSecret, EndSecret, bounds
<1>3. ASSUME NEW s \in Servers, NEW k \in SecretKeys, RollBackSecret(adm, s, k)
      PROVE  Others /\ UNCHANGED <<secret, values, approved>>
  BY <1>3, <1>r DEF RollBackSecret, EndSecret
<1>4. ASSUME ReadForSync(adm) PROVE Others /\ UNCHANGED <<secret, values, approved>>
  <2> DEFINE s == handlers[adm].server
             seen == SecretsSeen(adm, s)
             x == [handlers[adm] EXCEPT !.step = "push", !.secrets = seen]
  <2>1. s \in Servers /\ handlers[adm].value \in 0 .. MaxValue
    BY <1>0, <1>4 DEF ReadForSync, Goes, Handler
  <2>2. seen \in Secrets
    BY <2>1 DEF SecretsSeen, RuntimeTyped, Secrets
  <2>3. handlers' = [handlers EXCEPT ![adm] = x] /\ UNCHANGED <<secret, values, approved>>
    BY <1>4 DEF ReadForSync, database, bounds
  <2> HIDE DEF seen
  <2>4. x \in Handler /\ x.server = s
    BY <2>2, <1>0 DEF Handler
  <2> HIDE DEF x
  <2>5. s \in Servers
    BY <2>1
  <2> QED BY <2>3, <2>4, <2>5, <1>w
<1>5. ASSUME SkipSync(adm) \/ PushSecrets(adm) \/ LosePush(adm)
      PROVE  Others /\ UNCHANGED <<secret, values, approved>>
  BY <1>5, <1>n DEF SkipSync, PushSecrets, LosePush, Goes, database, bounds
<1>6. ASSUME NEW s \in Servers, StartServer(adm, s)
      PROVE  Others /\ UNCHANGED <<secret, values, approved>>
  <2> DEFINE x == ReadServer(adm, "start", s)
  <2>1. x \in Handler /\ x.server = s
    BY ServerOpenedOK
  <2>2. handlers' = [handlers EXCEPT ![adm] = x] /\ UNCHANGED <<secret, values, approved>>
    BY <1>6 DEF StartServer, OpenRequest, database
  <2> HIDE DEF x
  <2> QED BY <2>1, <2>2, <1>w
<1>7. ASSUME NEW s \in Servers, RestartServer(adm, s) \/ StopServer(adm, s)
      PROVE  Others /\ UNCHANGED <<secret, values, approved>>
  <2> DEFINE x(op, step) == [NoHandlerStep EXCEPT !.op = op, !.step = step, !.server = s]
  <2>1. x("start", "read") \in Handler /\ x("start", "read").server = s
    BY NothingOK DEF NoHandlerStep, Handler
  <2>2. x("stop", "commit") \in Handler /\ x("stop", "commit").server = s
    BY NothingOK DEF NoHandlerStep, Handler
  <2>3. /\ UNCHANGED <<secret, values, approved>>
        /\ \/ handlers' = [handlers EXCEPT ![adm] = x("start", "read")]
           \/ handlers' = [handlers EXCEPT ![adm] = x("stop", "commit")]
    BY <1>7 DEF RestartServer, StopServer, OpenRequest, database
  <2> HIDE DEF x
  <2> QED BY <2>1, <2>2, <2>3, <1>w
<1>8. ASSUME ReadToRegister(adm) PROVE Others /\ UNCHANGED <<secret, values, approved>>
  <2> DEFINE op == handlers[adm].op
             s == handlers[adm].server
  <2>1. op \in {"start", "refresh"} /\ s \in Servers
    BY <1>0, <1>8 DEF ReadToRegister
  <2> DEFINE x == ReadServer(adm, op, s)
  <2>2. handlers' = [handlers EXCEPT ![adm] = x] /\ UNCHANGED <<secret, values, approved>>
    BY <1>8 DEF ReadToRegister, database, bounds
  <2> HIDE DEF op, s
  <2>3. x \in Handler /\ x.server = s
    BY <2>1, ServerOpenedOK
  <2> HIDE DEF x
  <2> QED BY <2>1, <2>2, <2>3, <1>w
<1>9. ASSUME RegisterServer(adm) PROVE Others /\ UNCHANGED <<secret, values, approved>>
  BY <1>9, <1>n, <1>r DEF RegisterServer, database, bounds
<1>10. ASSUME LoseRegistration(adm) \/ CommitStart(adm) \/ CommitStop(adm)
       PROVE  Others /\ UNCHANGED <<secret, values, approved>>
  BY <1>10, <1>r DEF LoseRegistration, CommitStart, CommitStop, database, bounds
<1>11. ASSUME NEW s \in Servers, NEW hosts \in SUBSET Hosts, DecideHosts(adm, s, hosts)
       PROVE  Others /\ approved' \in [Servers -> SUBSET Hosts] /\ UNCHANGED <<secret, values>>
  <2> DEFINE x == IF s \in status
                  THEN [NoHandlerStep EXCEPT !.op = "refresh", !.step = "read", !.server = s]
                  ELSE NoHandlerStep
  <2>1. x \in Handler /\ (x.step # "none" => x.server \in Servers)
    BY NothingOK DEF NoHandlerStep, Handler
  <2>2. handlers' = [handlers EXCEPT ![adm] = x]
    BY <1>11 DEF DecideHosts, OpenRequest
  <2> HIDE DEF x
  <2>3. Others
    BY <2>1, <2>2, <1>w
  <2>4. approved' \in [Servers -> SUBSET Hosts] /\ UNCHANGED <<secret, values>>
    BY <1>11 DEF DecideHosts, RuntimeTyped
  <2> QED BY <2>3, <2>4
<1>t. secret \in [Servers -> Secrets] /\ approved \in [Servers -> SUBSET Hosts] /\ values \in 0 .. MaxValue
  BY DEF RuntimeTyped
<1> HIDE DEF HostsInv, Others
<1>12. /\ secret' \in [Servers -> Secrets] /\ approved' \in [Servers -> SUBSET Hosts]
       /\ values' \in 0 .. MaxValue /\ Others
  BY <1>t, <1>1, <1>2, <1>3, <1>4, <1>5, <1>6, <1>7, <1>8, <1>9, <1>10, <1>11 DEF HandlerStep
<1> QED BY <1>12 DEF Others

\* What a step of a handler does to the registry and to the file of hosts.
LEMMA HandlerRegistry ==
  ASSUME HostsInv, NEW adm \in Admins, HandlerStep(adm)
  PROVE  registry' \in [Servers -> Registered] /\ ApprovedReachable'
<1> DEFINE Kept == registry' \in [Servers -> Registered] /\ ApprovedReachable'
<1>0. /\ handlers[adm] \in Handler /\ handlers[adm].secrets \in Secrets /\ handlers[adm].hosts \in SUBSET Hosts
      /\ handlers[adm].step # "none" => handlers[adm].server \in Servers
  BY DEF HostsInv, RuntimeTyped, Handler
<1>1. ASSUME NEW s \in Servers, NEW k \in SecretKeys, NEW op \in {"set", "delete"},
             FlushSecret(adm, s, k, op) \/ CommitSecret(adm, s, k) \/ RollBackSecret(adm, s, k)
      PROVE  Kept
  BY <1>1, RegistrySame DEF FlushSecret, CommitSecret, RollBackSecret, sandbox, history
<1>2. ASSUME ReadForSync(adm) \/ SkipSync(adm) \/ LosePush(adm) \/ ReadToRegister(adm)
             \/ LoseRegistration(adm) \/ CommitStart(adm) \/ CommitStop(adm)
      PROVE  Kept
  BY <1>2, RegistrySame DEF ReadForSync, SkipSync, LosePush, ReadToRegister, LoseRegistration,
     CommitStart, CommitStop, sandbox, history
<1>3. ASSUME PushSecrets(adm) PROVE Kept
  BY <1>3, <1>0, UpdateOK DEF PushSecrets, Goes
<1>4. ASSUME NEW s \in Servers, StartServer(adm, s) PROVE Kept
  BY <1>4, RegistrySame DEF StartServer, sandbox
<1>5. ASSUME NEW s \in Servers, RestartServer(adm, s) \/ StopServer(adm, s) PROVE Kept
  BY <1>5, UnregisterOK DEF RestartServer, StopServer
<1>6. ASSUME RegisterServer(adm) PROVE Kept
  BY <1>6, <1>0, RegisterOK DEF RegisterServer
<1>7. ASSUME NEW s \in Servers, NEW hosts \in SUBSET Hosts, DecideHosts(adm, s, hosts) PROVE Kept
  BY <1>7, RegistrySame DEF DecideHosts, sandbox, history
<1> HIDE DEF Kept
<1>8. Kept
  BY <1>1, <1>2, <1>3, <1>4, <1>5, <1>6, <1>7 DEF HandlerStep
<1> QED BY <1>8 DEF Kept

\* Every step keeps the invariant: without an error, the file only grows or is
\* built again.
LEMMA RuntimeStepOK ==
  HostsInv /\ [RuntimeNext]_runtimeVars => HostsInv'
<1> SUFFICES ASSUME HostsInv, [RuntimeNext]_runtimeVars PROVE HostsInv'
  OBVIOUS
<1> DEFINE Stored == UNCHANGED <<secret, approved, handlers, values>>
<1>1. ASSUME NEW adm \in Admins, HandlerStep(adm) PROVE HostsInv'
  BY <1>1, HandlerTypes, HandlerRegistry DEF HostsInv, RuntimeTyped
<1>2. ASSUME NEW c \in ToolCalls, ToolCallStep(c) PROVE HostsInv'
  <2>1. ASSUME NEW hosts \in SUBSET Hosts, Execute(c, hosts) PROVE HostsInv'
    <3>1. Stored /\ registry' = registry /\ (~aclLost' => ~aclLost /\ acl \subseteq acl')
      BY <2>1 DEF Execute, AddToFile, WriteFile, database, HostsInv, RuntimeTyped
    <3> QED BY <3>1 DEF HostsInv, RuntimeTyped, ApprovedReachable
  <2>2. CASE \A hosts \in SUBSET Hosts : ~Execute(c, hosts)
    <3>1. Stored /\ UNCHANGED <<registry, acl, aclLost>>
      BY <1>2, <2>2 DEF ToolCallStep, CallTool, TakeThread, ModuleRan, TimeOut, RunawayEnds,
         MainEnds, database, bounds, history
    <3> QED BY <3>1 DEF HostsInv, RuntimeTyped, ApprovedReachable
  <2> QED BY <2>1, <2>2
<1>3. CASE RestartSandbox
  <2>1. Stored /\ registry' = [s \in Servers |-> NotRegistered]
    BY <1>3 DEF RestartSandbox, database
  <2> QED BY <2>1, NothingOK DEF HostsInv, RuntimeTyped, ApprovedReachable
<1>4. CASE UNCHANGED runtimeVars
  BY <1>4 DEF HostsInv, RuntimeTyped, ApprovedReachable, runtimeVars
<1> QED BY <1>1, <1>2, <1>3, <1>4 DEF RuntimeNext

(* Whatever servers are started, stopped and registered again, whatever is *)
(* decided on hosts, whatever test code runs and however often the sandbox *)
(* restarts, the file of the proxy has every host of every registration,   *)
(* unless an error struck it since it was last built again.                *)
THEOREM ReachableCorrect ==
  RuntimeSpec => []ApprovedReachable
<1>1. HostsInv => ApprovedReachable
  BY DEF HostsInv
<1> QED BY RuntimeInitOK, RuntimeStepOK, <1>1, PTL DEF RuntimeSpec
-----------------------------------------------------------------------------
(* The types of the sandbox's state, and the count of its threads.         *)

ToolCall == {"none", "waits", "module", "main", "runaway"}

\* The executions that have a thread.
InThread == {c \in ToolCalls : calls[c] \in {"module", "runaway"}}

ThreadsInv ==
    /\ calls \in [ToolCalls -> ToolCall]
    /\ IsFiniteSet(InThread) /\ stuck = Cardinality(InThread) /\ stuck <= Workers

PlacesInv ==
    /\ status \subseteq Servers /\ unsynced \subseteq Servers /\ acl \subseteq Hosts
    /\ contested \subseteq Admins /\ aclLost \in BOOLEAN
    /\ locked \in [Servers -> [SecretKeys -> Admins \union {NoOne}]]

\* Nobody runs, and nothing is stuck.
LEMMA NobodyRuns ==
  ASSUME NEW f \in [ToolCalls -> ToolCall], \A c \in ToolCalls : f[c] = "none"
  PROVE  /\ {c \in ToolCalls : f[c] \in {"module", "runaway"}} = {}
         /\ IsFiniteSet({}) /\ Cardinality({}) = 0
  BY FS_EmptySet

LEMMA PlacesInit == RuntimeInit => ThreadsInv /\ PlacesInv
<1> SUFFICES ASSUME RuntimeInit PROVE ThreadsInv /\ PlacesInv
  OBVIOUS
<1>1. calls \in [ToolCalls -> ToolCall] /\ \A c \in ToolCalls : calls[c] = "none"
  BY DEF RuntimeInit, ToolCall
<1>2. InThread = {} /\ IsFiniteSet({}) /\ Cardinality({}) = 0
  BY <1>1, NobodyRuns DEF InThread
<1>3. stuck = 0 /\ 0 <= Workers
  BY RuntimeConstantsOK DEF RuntimeInit
<1>4. ThreadsInv
  BY <1>1, <1>2, <1>3 DEF ThreadsInv
<1>5. PlacesInv
  BY DEF RuntimeInit, PlacesInv
<1> QED
  BY <1>4, <1>5

\* An execution c goes on as x: it takes a thread, gives it back, or neither.
LEMMA ThreadsBy ==
  ASSUME ThreadsInv, NEW c \in ToolCalls, NEW x \in ToolCall, calls' = [calls EXCEPT ![c] = x],
         \/ /\ calls[c] \in {"module", "runaway"} <=> x \in {"module", "runaway"}
            /\ stuck' = stuck
         \/ /\ calls[c] \notin {"module", "runaway"} /\ x \in {"module", "runaway"}
            /\ stuck < Workers /\ stuck' = stuck + 1
         \/ /\ calls[c] \in {"module", "runaway"} /\ x \notin {"module", "runaway"}
            /\ stuck' = stuck - 1
  PROVE  ThreadsInv'
<1>1. /\ calls' \in [ToolCalls -> ToolCall] /\ calls'[c] = x
      /\ \A d \in ToolCalls : d # c => calls'[d] = calls[d]
  BY DEF ThreadsInv
<1>2. stuck \in Nat /\ Workers \in Nat
  BY FS_CardinalityType, RuntimeConstantsOK DEF ThreadsInv
<1>3. CASE /\ calls[c] \in {"module", "runaway"} <=> x \in {"module", "runaway"}
           /\ stuck' = stuck
  <2>1. InThread' = InThread
    BY <1>1, <1>3 DEF InThread
  <2> QED
    BY <1>1, <1>3, <2>1 DEF ThreadsInv
<1>4. CASE /\ calls[c] \notin {"module", "runaway"} /\ x \in {"module", "runaway"}
           /\ stuck < Workers /\ stuck' = stuck + 1
  <2>1. InThread' = InThread \union {c} /\ c \notin InThread
    BY <1>1, <1>4 DEF InThread
  <2>2. /\ IsFiniteSet(InThread \union {c})
        /\ Cardinality(InThread \union {c}) = Cardinality(InThread) + 1
    BY <2>1, FS_AddElement DEF ThreadsInv
  <2> QED
    BY <1>1, <1>2, <1>4, <2>1, <2>2 DEF ThreadsInv
<1>5. CASE /\ calls[c] \in {"module", "runaway"} /\ x \notin {"module", "runaway"}
           /\ stuck' = stuck - 1
  <2>1. InThread' = InThread \ {c} /\ c \in InThread
    BY <1>1, <1>5 DEF InThread
  <2>2. /\ IsFiniteSet(InThread \ {c})
        /\ Cardinality(InThread \ {c}) = Cardinality(InThread) - 1
    BY <2>1, FS_RemoveElement DEF ThreadsInv
  <2> QED
    BY <1>1, <1>2, <1>5, <2>1, <2>2 DEF ThreadsInv
<1> QED
  BY <1>3, <1>4, <1>5

LEMMA ToolCallOK ==
  ASSUME HostsInv, ThreadsInv, NEW c \in ToolCalls, ToolCallStep(c)
  PROVE  ThreadsInv'
<1>1. ASSUME NEW s \in Servers, CallTool(c, s) PROVE ThreadsInv'
  <2>1. calls' = [calls EXCEPT ![c] = "waits"] /\ calls[c] = "none" /\ stuck' = stuck
    BY <1>1 DEF CallTool, Begins
  <2> QED
    BY <2>1, ThreadsBy DEF ToolCall
<1>2. ASSUME NEW hosts \in SUBSET Hosts, Execute(c, hosts) PROVE ThreadsInv'
  <2>1. calls' = [calls EXCEPT ![c] = "main"] /\ calls[c] = "none" /\ stuck' = stuck
    BY <1>2 DEF Execute, Begins
  <2> QED
    BY <2>1, ThreadsBy DEF ToolCall
<1>3. CASE TakeThread(c)
  BY <1>3, ThreadsBy DEF TakeThread, ToolCall
<1>4. CASE ModuleRan(c)
  BY <1>4, ThreadsBy DEF ModuleRan, ToolCall
<1>5. CASE TimeOut(c)
  BY <1>5, ThreadsBy DEF TimeOut, ToolCall
<1>6. CASE RunawayEnds(c) \/ MainEnds(c)
  BY <1>6, ThreadsBy DEF RunawayEnds, MainEnds, ToolCall
<1> QED
  BY <1>1, <1>2, <1>3, <1>4, <1>5, <1>6 DEF ToolCallStep

LEMMA ThreadsStep ==
  ASSUME HostsInv, ThreadsInv, [RuntimeNext]_runtimeVars
  PROVE  ThreadsInv'
<1>1. ASSUME calls' = calls, stuck' = stuck PROVE ThreadsInv'
  BY <1>1 DEF ThreadsInv, InThread
<1>2. ASSUME NEW adm \in Admins, HandlerStep(adm) PROVE ThreadsInv'
  <2>1. calls' = calls /\ stuck' = stuck
    BY <1>2 DEF HandlerStep, FlushSecret, CommitSecret, RollBackSecret, ReadForSync, SkipSync, PushSecrets,
       LosePush, StartServer, RestartServer, StopServer, ReadToRegister, RegisterServer,
       LoseRegistration, CommitStart, CommitStop, DecideHosts, sandbox
  <2> QED
    BY <1>1, <2>1
<1>3. CASE RestartSandbox
  <2>1. /\ calls' \in [ToolCalls -> ToolCall] /\ \A c \in ToolCalls : calls'[c] = "none"
        /\ stuck' = 0
    BY <1>3 DEF RestartSandbox, ToolCall
  <2>2. InThread' = {} /\ IsFiniteSet({}) /\ Cardinality({}) = 0
    BY <2>1, NobodyRuns DEF InThread
  <2> QED
    BY <2>1, <2>2, RuntimeConstantsOK DEF ThreadsInv
<1>4. CASE UNCHANGED runtimeVars
  BY <1>1, <1>4 DEF runtimeVars
<1> QED
  BY <1>2, <1>3, <1>4, ToolCallOK DEF RuntimeNext

\* A file that is written has approved hosts only, even when it is cut short.
LEMMA FileOK ==
  ASSUME NEW contents \in SUBSET Hosts, NEW lost \in BOOLEAN, acl \subseteq Hosts,
         WriteFile(contents, lost)
  PROVE  acl' \subseteq Hosts /\ aclLost' \in BOOLEAN
  BY DEF WriteFile

LEMMA ApprovedOK ==
  ASSUME NEW reg \in [Servers -> Registered]
  PROVE  ApprovedOf(reg) \in SUBSET Hosts
  BY DEF ApprovedOf, Registered

LEMMA PlacesStep ==
  ASSUME HostsInv, HostsInv', PlacesInv, [RuntimeNext]_runtimeVars
  PROVE  PlacesInv'
<1>r. registry' \in [Servers -> Registered] /\ ApprovedOf(registry') \in SUBSET Hosts
  BY ApprovedOK DEF HostsInv, RuntimeTyped
<1>0. /\ status \subseteq Servers /\ unsynced \subseteq Servers /\ acl \subseteq Hosts
      /\ contested \subseteq Admins /\ aclLost \in BOOLEAN
      /\ locked \in [Servers -> [SecretKeys -> Admins \union {NoOne}]]
  BY DEF PlacesInv
<1>1. ASSUME acl' \subseteq Hosts, status' \subseteq Servers, unsynced' \subseteq Servers,
             contested' \subseteq Admins, aclLost' \in BOOLEAN, locked' = locked
      PROVE  PlacesInv'
  BY <1>0, <1>1 DEF PlacesInv
<1>2. ASSUME NEW adm \in Admins, HandlerStep(adm) PROVE PlacesInv'
  <2>0. handlers[adm].step # "none" => handlers[adm].server \in Servers
    BY DEF HostsInv, RuntimeTyped
  <2>1. ASSUME NEW s \in Servers, NEW k \in SecretKeys, NEW op \in {"set", "delete"},
               \/ FlushSecret(adm, s, k, op)
               \/ CommitSecret(adm, s, k)
               \/ RollBackSecret(adm, s, k)
        PROVE  PlacesInv'
    <3>1. locked' \in [Servers -> [SecretKeys -> Admins \union {NoOne}]]
      <4>1. PICK g \in Admins \union {NoOne} : locked' = [locked EXCEPT ![s][k] = g]
        BY <2>1 DEF FlushSecret, CommitSecret, RollBackSecret, EndSecret
      <4> QED
        BY <1>0, <4>1
    <3>2. /\ UNCHANGED <<status, acl, aclLost>> /\ contested' \subseteq contested \union Admins
          /\ unsynced' = unsynced \/ unsynced' = unsynced \union {s}
      BY <2>1 DEF FlushSecret, CommitSecret, RollBackSecret, sandbox, history
    <3> QED
      BY <1>0, <3>1, <3>2 DEF PlacesInv
  <2>2. ASSUME NEW s \in Servers, StartServer(adm, s) PROVE PlacesInv'
    BY <1>0, <1>1, <2>2 DEF StartServer, Reads, database, sandbox
  <2>3. ASSUME NEW s \in Servers, RestartServer(adm, s) \/ StopServer(adm, s) PROVE PlacesInv'
    <3>1. UNCHANGED <<status, locked, unsynced, contested>> /\ Unregister(s)
      BY <2>3 DEF RestartServer, StopServer, database
    <3>2. acl' \subseteq Hosts /\ aclLost' \in BOOLEAN
      BY <1>r, <1>0, <3>1, FileOK DEF Unregister
    <3> QED
      BY <1>0, <1>1, <3>1, <3>2
  <2>a. ASSUME NEW s \in Servers, Arrives(adm, s)
        PROVE  unsynced' \subseteq Servers /\ contested' \subseteq Admins
    BY <1>0, <2>a DEF Arrives
  <2>4. CASE RegisterServer(adm)
    <3>1. /\ UNCHANGED <<status, locked>> /\ WriteFile(ApprovedOf(registry'), FALSE)
          /\ handlers[adm].server \in Servers /\ Arrives(adm, handlers[adm].server)
      BY <2>0, <2>4 DEF RegisterServer, Register, database
    <3> QED
      BY <1>0, <1>1, <1>r, <2>a, <3>1, FileOK
  <2>5. ASSUME NEW s \in Servers, NEW hosts \in SUBSET Hosts, DecideHosts(adm, s, hosts)
        PROVE  PlacesInv'
    BY <1>0, <1>1, <2>5 DEF DecideHosts, sandbox, history
  <2>6. CASE PushSecrets(adm)
    <3>1. /\ UNCHANGED <<status, locked, acl, aclLost>>
          /\ handlers[adm].server \in Servers /\ Arrives(adm, handlers[adm].server)
      BY <2>0, <2>6 DEF PushSecrets, UpdateSecrets, Goes, database
    <3> QED
      BY <1>0, <1>1, <2>a, <3>1
  <2>7. CASE CommitStart(adm) \/ CommitStop(adm)
    <3>1. /\ UNCHANGED <<unsynced, contested, aclLost, locked, acl>> /\ handlers[adm].server \in Servers
          /\ \/ status' = status \ {handlers[adm].server}
             \/ status' = status \union {handlers[adm].server}
      BY <2>0, <2>7 DEF CommitStart, CommitStop, Goes, sandbox, history
    <3> QED
      BY <1>0, <1>1, <3>1
  <2>8. CASE ReadForSync(adm) \/ ReadToRegister(adm) \/ LoseRegistration(adm)
    BY <1>0, <1>1, <2>8 DEF ReadForSync, ReadToRegister, LoseRegistration, Reads, database, sandbox
  <2>9. CASE SkipSync(adm) \/ LosePush(adm)
    <3>1. /\ UNCHANGED <<status, locked, acl, aclLost>> /\ handlers[adm].server \in Servers
          /\ unsynced' = unsynced \union {handlers[adm].server} /\ contested' \subseteq contested
      BY <2>0, <2>9 DEF SkipSync, LosePush, Goes, database, sandbox
    <3> QED
      BY <1>0, <1>1, <3>1
  <2> QED
    BY <1>2, <2>1, <2>2, <2>3, <2>4, <2>5, <2>6, <2>7, <2>8, <2>9 DEF HandlerStep
<1>3. ASSUME NEW c \in ToolCalls, ToolCallStep(c) PROVE PlacesInv'
  <2>1. ASSUME NEW hosts \in SUBSET Hosts, Execute(c, hosts) PROVE PlacesInv'
    <3>1. UNCHANGED <<status, locked, unsynced, contested>> /\ AddToFile(hosts)
      BY <2>1 DEF Execute, database
    <3>2. acl' \subseteq Hosts /\ aclLost' \in BOOLEAN
      BY <1>0, <3>1, FileOK DEF AddToFile
    <3> QED
      BY <1>0, <1>1, <3>1, <3>2
  <2>2. CASE \A hosts \in SUBSET Hosts : ~Execute(c, hosts)
    BY <1>0, <1>1, <1>3, <2>2 DEF ToolCallStep, CallTool, TakeThread, ModuleRan, TimeOut,
       RunawayEnds, MainEnds, database, history
  <2> QED
    BY <2>1, <2>2
<1>4. CASE RestartSandbox
  BY <1>0, <1>1, <1>4 DEF RestartSandbox, database, history
<1>5. CASE UNCHANGED runtimeVars
  BY <1>0, <1>1, <1>5 DEF runtimeVars
<1> QED
  BY <1>2, <1>3, <1>4, <1>5 DEF RuntimeNext

\* The rows, the registry, the file and the locks have their types, and the
\* executor's threads are counted exactly, through timeouts and restarts.
THEOREM RuntimeTypeCorrect == RuntimeSpec => []RuntimeTypeOK
<1> DEFINE Inv == HostsInv /\ ThreadsInv /\ PlacesInv
<1>1. RuntimeInit => Inv
  BY RuntimeInitOK, PlacesInit
<1>2. Inv /\ [RuntimeNext]_runtimeVars => Inv'
  BY RuntimeStepOK, ThreadsStep, PlacesStep
<1>3. Inv => RuntimeTypeOK
  <2> SUFFICES ASSUME Inv PROVE RuntimeTypeOK
    OBVIOUS
  <2>1. stuck \in 0 .. Workers /\ stuck = Cardinality(InThread)
    BY FS_CardinalityType, RuntimeConstantsOK DEF ThreadsInv
  <2> QED
    BY <2>1 DEF RuntimeTypeOK, HostsInv, RuntimeTyped, Registered, Secrets, PlacesInv,
           ThreadsInv, ToolCall, InThread
<1> QED
  BY <1>1, <1>2, <1>3, PTL DEF RuntimeSpec

-----------------------------------------------------------------------------
(* The secrets, however the handlers overlap.  A handler that carries the  *)
(* secrets of a server and is not contested carries what will be committed *)
(* if it is the one to commit, or what is if nobody is at work on them.    *)

\* The handlers that have pushed their change, or not, and are to commit it.
Changed(s) == {g \in Changing(s) : handlers[g].step = "commit"}

CarriedRight(g) ==
    LET s == handlers[g].server IN
    /\ handlers[g].step = "push" =>
          Changing(s) \subseteq {g} /\ handlers[g].secrets = SecretsSeen(g, s)
    /\ handlers[g].step = "register" =>
          Changing(s) = {} /\ handlers[g].secrets = secret[s]

CarriedInv == \A g \in Admins \ contested : CarriedRight(g)

HeldAt(s) ==
    s \notin unsynced /\ registry[s].there =>
        /\ Changed(s) = {} => registry[s].secrets = secret[s]
        /\ \A g \in Changed(s) : /\ Changed(s) = {g}
                                 /\ registry[s].secrets = SecretsSeen(g, s)

HeldInv == \A s \in Servers : HeldAt(s)

SecretsSyncInv == CarriedInv /\ HeldInv

\* A handler adm goes on as x: what the others carry is still right.
LEMMA CarriedBy ==
  ASSUME RuntimeTyped, CarriedInv, NEW adm \in Admins, NEW x, handlers' = [handlers EXCEPT ![adm] = x],
         \A t \in Servers : secret'[t] = secret[t] \/ adm \in Changing(t),
         contested \ {adm} \subseteq contested',
         x.op = "secret" => handlers[adm].op = "secret" /\ x.server = handlers[adm].server,
         adm \notin contested' => CarriedRight(adm)'
  PROVE  CarriedInv'
<1> SUFFICES ASSUME NEW g \in Admins, g \notin contested', g # adm
             PROVE  CarriedRight(g)'
  BY DEF CarriedInv
<1>1. handlers'[adm] = x /\ \A q \in Admins : q # adm => handlers'[q] = handlers[q]
  BY DEF RuntimeTyped
<1>2. CarriedRight(g) /\ handlers'[g] = handlers[g]
  BY <1>1 DEF CarriedInv
<1> DEFINE t == handlers[g].server
<1>3. Changing(t)' \subseteq Changing(t)
  BY <1>1 DEF Changing
<1>4. CASE handlers[g].step = "push"
  <2>1. Changing(t) \subseteq {g} /\ t \in Servers
    BY <1>2, <1>4 DEF CarriedRight, RuntimeTyped
  <2>2. secret'[t] = secret[t]
    BY <2>1
  <2>3. SecretsSeen(g, t)' = SecretsSeen(g, t)
    BY <1>2, <2>2 DEF SecretsSeen
  <2> QED
    BY <1>2, <1>3, <1>4, <2>1, <2>3 DEF CarriedRight
<1>5. CASE handlers[g].step = "register"
  <2>1. Changing(t) = {} /\ t \in Servers
    BY <1>2, <1>5 DEF CarriedRight, RuntimeTyped
  <2>2. secret'[t] = secret[t]
    BY <2>1
  <2> QED
    BY <1>2, <1>3, <1>5, <2>1, <2>2 DEF CarriedRight
<1> QED
  BY <1>2, <1>4, <1>5 DEF CarriedRight

\* A handler adm that is not about to commit a secret of t goes on as x: what is
\* held of t stays right, or is said to be unsynced.
LEMMA HeldBy ==
  ASSUME RuntimeTyped, NEW t, HeldAt(t), NEW adm \in Admins, NEW x, handlers' = [handlers EXCEPT ![adm] = x],
         secret'[t] = secret[t],
         t \notin unsynced' => t \notin unsynced /\ (registry'[t] = registry[t] \/ ~registry'[t].there),
         x.op = "secret" /\ x.step = "commit" /\ x.server = t => t \in unsynced',
         adm \notin Changed(t)
  PROVE  HeldAt(t)'
<1> SUFFICES ASSUME t \notin unsynced', registry'[t].there
             PROVE  HeldAt(t)'
  BY DEF HeldAt
<1>1. handlers'[adm] = x /\ \A q \in Admins : q # adm => handlers'[q] = handlers[q]
  BY DEF RuntimeTyped
<1>2. Changed(t)' = Changed(t)
  BY <1>1 DEF Changed, Changing
<1>3. \A g \in Changed(t) : SecretsSeen(g, t)' = SecretsSeen(g, t)
  BY <1>1 DEF SecretsSeen, Changed, Changing
<1>4. registry'[t] = registry[t] /\ t \notin unsynced
  OBVIOUS
<1> QED
  BY <1>2, <1>3, <1>4 DEF HeldAt

\* What a handler reads is contested, or right.
LEMMA ReadsRight ==
  ASSUME NEW adm \in Admins, NEW s, Reads(adm, s)
  PROVE  /\ contested \ {adm} \subseteq contested'
         /\ adm \notin contested' => Changing(s) \subseteq {adm}
  BY DEF Reads

\* The handler adm goes on as x, and the sandbox learns nothing of the secrets.
LEMMA GoesOn ==
  ASSUME RuntimeTyped, SecretsSyncInv, NEW adm \in Admins, NEW x, handlers' = [handlers EXCEPT ![adm] = x],
         UNCHANGED secret,
         contested \ {adm} \subseteq contested', unsynced \subseteq unsynced',
         \A t \in Servers : registry'[t] = registry[t] \/ ~registry'[t].there \/ t \in unsynced',
         x.op = "secret" => handlers[adm].op = "secret" /\ x.server = handlers[adm].server,
         x.op = "secret" /\ x.step = "commit" => x.server \in unsynced',
         handlers[adm].op # "secret" \/ handlers[adm].step # "commit",
         adm \notin contested' => CarriedRight(adm)'
  PROVE  SecretsSyncInv'
<1>1. CarriedInv'
  BY CarriedBy DEF SecretsSyncInv
<1>2. ASSUME NEW t \in Servers PROVE HeldAt(t)'
  <2>1. HeldAt(t) /\ adm \notin Changed(t)
    BY DEF SecretsSyncInv, HeldInv, Changed, Changing
  <2> QED
    BY <2>1, HeldBy
<1> QED
  BY <1>1, <1>2 DEF SecretsSyncInv, HeldInv

\* The same when x carries nothing.
LEMMA GoesEmpty ==
  ASSUME RuntimeTyped, SecretsSyncInv, NEW adm \in Admins, NEW x, handlers' = [handlers EXCEPT ![adm] = x],
         UNCHANGED secret,
         contested \ {adm} \subseteq contested', unsynced \subseteq unsynced',
         \A t \in Servers : registry'[t] = registry[t] \/ ~registry'[t].there \/ t \in unsynced',
         x.op = "secret" => handlers[adm].op = "secret" /\ x.server = handlers[adm].server,
         x.op = "secret" /\ x.step = "commit" => x.server \in unsynced',
         handlers[adm].op # "secret" \/ handlers[adm].step # "commit",
         x.step # "push", x.step # "register"
  PROVE  SecretsSyncInv'
<1>1. handlers'[adm] = x
  BY DEF RuntimeTyped
<1>2. CarriedRight(adm)'
  BY <1>1 DEF CarriedRight
<1> QED
  BY <1>2, GoesOn

LEMMA FlushSync ==
  ASSUME HostsInv, SecretsSyncInv, NEW adm \in Admins, NEW s \in Servers, NEW k \in SecretKeys,
         NEW op \in {"set", "delete"}, FlushSecret(adm, s, k, op)
  PROVE  SecretsSyncInv'
<1> DEFINE v == IF op = "set" THEN values' ELSE 0
           x == [NoHandlerStep EXCEPT !.op = "secret", !.step = "read", !.server = s,
                                      !.key = k, !.value = v]
<1>1. x.op = "secret" /\ x.step = "read" /\ x.server = s
  BY DEF NoHandlerStep
<1>2. /\ handlers[adm] = NoHandlerStep /\ handlers' = [handlers EXCEPT ![adm] = x]
      /\ UNCHANGED <<secret, registry, unsynced>> /\ contested \subseteq contested'
      /\ \A g \in Admins : handlers[g].step \in {"push", "register"} /\ handlers[g].server = s
                            => g \in contested'
  <2>1. handlers[adm] = NoHandlerStep /\ handlers' = [handlers EXCEPT ![adm] = x]
    BY DEF FlushSecret, OpenRequest
  <2>2. UNCHANGED <<secret, registry, unsynced>>
    BY DEF FlushSecret, sandbox
  <2>3. contested' = contested \union {g \in Admins : /\ handlers[g].step \in {"push", "register"}
                                                      /\ handlers[g].server = s}
    BY DEF FlushSecret
  <2> QED
    BY <2>1, <2>2, <2>3
<1> HIDE DEF x
<1>3. handlers'[adm] = x /\ \A q \in Admins : q # adm => handlers'[q] = handlers[q]
  BY <1>2 DEF HostsInv, RuntimeTyped
<1>4. ASSUME NEW g \in Admins, g \notin contested' PROVE CarriedRight(g)'
  <2>1. CASE g = adm
    BY <1>1, <1>3, <2>1 DEF CarriedRight
  <2>2. CASE g # adm
    <3> DEFINE t == handlers[g].server
    <3>1. CarriedRight(g) /\ handlers'[g] = handlers[g]
      BY <1>2, <1>3, <1>4, <2>2 DEF SecretsSyncInv, CarriedInv
    <3>2. CASE handlers[g].step \in {"push", "register"}
      <4>1. t # s
        BY <1>2, <1>4, <3>2
      <4>2. Changing(t)' = Changing(t)
        BY <1>1, <1>2, <1>3, <3>1, <4>1, NothingOK DEF Changing
      <4>3. SecretsSeen(g, t)' = SecretsSeen(g, t)
        BY <1>2, <3>1 DEF SecretsSeen
      <4> QED
        BY <1>2, <3>1, <4>2, <4>3 DEF CarriedRight
    <3>3. CASE handlers[g].step \notin {"push", "register"}
      BY <3>1, <3>3 DEF CarriedRight
    <3> QED
      BY <3>2, <3>3
  <2> QED
    BY <2>1, <2>2
<1>5. ASSUME NEW t \in Servers PROVE HeldAt(t)'
  <2>1. HeldAt(t) /\ adm \notin Changed(t)
    BY <1>2, NothingOK DEF SecretsSyncInv, HeldInv, Changed, Changing
  <2> QED
    BY <1>1, <1>2, <2>1, HeldBy DEF HostsInv
<1> QED
  BY <1>4, <1>5 DEF SecretsSyncInv, CarriedInv, HeldInv

\* The transaction of a secret ends: what it wrote is what its push brought, if
\* that push arrived and was not contested.
LEMMA EndSync ==
  ASSUME HostsInv, SecretsSyncInv, NEW adm \in Admins, NEW s \in Servers, NEW k \in SecretKeys,
         CommitSecret(adm, s, k) \/ RollBackSecret(adm, s, k)
  PROVE  SecretsSyncInv'
<1>1. /\ handlers' = [handlers EXCEPT ![adm] = NoHandlerStep] /\ UNCHANGED <<registry, contested>>
      /\ handlers[adm].op = "secret" /\ handlers[adm].step = "commit"
      /\ handlers[adm].server = s /\ handlers[adm].key = k
      /\ \/ /\ secret' = [secret EXCEPT ![s][k] = handlers[adm].value] /\ unsynced' = unsynced
         \/ /\ secret' = secret /\ unsynced' = unsynced \union {s}
  BY DEF CommitSecret, RollBackSecret, EndSecret, Goes, Respond, sandbox, history
<1>2. handlers'[adm] = NoHandlerStep /\ \A q \in Admins : q # adm => handlers'[q] = handlers[q]
  BY <1>1 DEF HostsInv, RuntimeTyped
<1>3. adm \in Changing(s) /\ adm \in Changed(s)
  BY <1>1 DEF Changing, Changed
<1>4. \A t \in Servers : t # s => secret'[t] = secret[t]
  BY <1>1 DEF HostsInv, RuntimeTyped
<1>5. CarriedRight(adm)'
  BY <1>2, NothingOK DEF CarriedRight
<1>6. CarriedInv'
  BY <1>1, <1>3, <1>4, <1>5, NothingOK, CarriedBy DEF SecretsSyncInv, HostsInv
<1>7. ASSUME NEW t \in Servers, t # s PROVE HeldAt(t)'
  <2>1. HeldAt(t) /\ adm \notin Changed(t)
    BY <1>1, <1>7 DEF SecretsSyncInv, HeldInv, Changed, Changing
  <2> QED
    BY <1>1, <1>4, <1>7, <2>1, NothingOK, HeldBy DEF HostsInv
<1>8. HeldAt(s)'
  <2> SUFFICES ASSUME s \notin unsynced', registry'[s].there
               PROVE  HeldAt(s)'
    BY DEF HeldAt
  <2>1. secret' = [secret EXCEPT ![s][k] = handlers[adm].value] /\ s \notin unsynced
    BY <1>1
  <2>2. Changed(s) = {adm} /\ registry[s].secrets = SecretsSeen(adm, s)
    BY <1>1, <1>3, <2>1 DEF SecretsSyncInv, HeldInv, HeldAt
  <2>3. secret'[s] = SecretsSeen(adm, s)
    BY <1>1, <2>1 DEF SecretsSeen, HostsInv, RuntimeTyped
  <2>4. Changed(s)' = {}
    BY <1>2, <2>2, NothingOK DEF Changed, Changing
  <2> QED
    BY <1>1, <2>2, <2>3, <2>4 DEF HeldAt
<1> QED
  BY <1>6, <1>7, <1>8 DEF SecretsSyncInv, HeldInv

\* The secrets adm carries arrive, adm goes on as x: with a push or a registration.
LEMMA ArrivesSync ==
  ASSUME HostsInv, SecretsSyncInv, NEW adm \in Admins, NEW x, handlers' = [handlers EXCEPT ![adm] = x],
         NEW s \in Servers, handlers[adm].server = s, Arrives(adm, s), UNCHANGED secret,
         \A t \in Servers : t # s => registry'[t] = registry[t],
         x.step \in {"none", "commit"},
         \/ /\ handlers[adm].step = "push" /\ handlers[adm].op = "secret" /\ x.op = "secret"
            /\ x.step = "commit" /\ x.server = s
            /\ x.key = handlers[adm].key /\ x.value = handlers[adm].value
         \/ /\ handlers[adm].step = "register" /\ x.op \in {"none", handlers[adm].op}
            /\ x.op = "secret" => x.server = s,
         registry'[s].there => registry'[s].secrets = handlers[adm].secrets
  PROVE  SecretsSyncInv'
<1>1. handlers'[adm] = x /\ \A q \in Admins : q # adm => handlers'[q] = handlers[q]
  BY DEF HostsInv, RuntimeTyped
<1>2. CarriedRight(adm)' /\ contested \ {adm} \subseteq contested'
  BY <1>1 DEF CarriedRight, Arrives
<1>3. CarriedInv'
  BY <1>2, CarriedBy DEF SecretsSyncInv, HostsInv
<1>4. ASSUME NEW t \in Servers, t # s PROVE HeldAt(t)'
  <2>1. HeldAt(t) /\ adm \notin Changed(t) /\ (t \notin unsynced' => t \notin unsynced)
    BY <1>4 DEF SecretsSyncInv, HeldInv, Changed, Changing, Arrives
  <2> QED
    BY <1>4, <2>1, HeldBy DEF HostsInv
<1>5. HeldAt(s)'
  <2> SUFFICES ASSUME s \notin unsynced', registry'[s].there
               PROVE  HeldAt(s)'
    BY DEF HeldAt
  <2>1. adm \notin contested
    BY DEF Arrives
  <2>2. CarriedRight(adm)
    BY <2>1 DEF SecretsSyncInv, CarriedInv
  <2>3. CASE handlers[adm].step = "push"
    <3>1. Changing(s) \subseteq {adm} /\ handlers[adm].secrets = SecretsSeen(adm, s)
      BY <2>2, <2>3 DEF CarriedRight
    <3>2. Changed(s)' = {adm}
      BY <1>1, <2>3, <3>1 DEF Changed, Changing
    <3>3. SecretsSeen(adm, s)' = SecretsSeen(adm, s)
      BY <1>1, <2>3 DEF SecretsSeen
    <3> QED
      BY <3>1, <3>2, <3>3 DEF HeldAt
  <2>4. CASE handlers[adm].step = "register"
    <3>1. Changing(s) = {} /\ handlers[adm].secrets = secret[s]
      BY <2>2, <2>4 DEF CarriedRight
    <3>2. handlers[adm].op # "secret"
      BY <3>1 DEF Changing
    <3>3. Changed(s)' = {}
      BY <1>1, <2>4, <3>1, <3>2 DEF Changed, Changing
    <3> QED
      BY <3>1, <3>3 DEF HeldAt
  <2> QED
    BY <2>3, <2>4
<1> QED
  BY <1>3, <1>4, <1>5 DEF SecretsSyncInv, HeldInv

LEMMA PushSync ==
  ASSUME HostsInv, SecretsSyncInv, NEW adm \in Admins, PushSecrets(adm)
  PROVE  SecretsSyncInv'
<1> DEFINE x == [handlers[adm] EXCEPT !.step = "commit"]
           s == handlers[adm].server
<1>0. handlers[adm] \in Handler /\ s \in Servers
  BY DEF PushSecrets, Goes, HostsInv, RuntimeTyped
<1>1. /\ handlers' = [handlers EXCEPT ![adm] = x] /\ handlers[adm].step = "push"
      /\ handlers[adm].op = "secret" /\ Arrives(adm, s) /\ UNCHANGED secret
  BY DEF PushSecrets, Goes, NextStep, database
<1>2. /\ x.op = "secret" /\ x.step = "commit" /\ x.server = s
      /\ x.key = handlers[adm].key /\ x.value = handlers[adm].value
  BY <1>0, <1>1 DEF Handler
<1>3. /\ \A t \in Servers : t # s => registry'[t] = registry[t]
      /\ registry'[s].there => registry'[s].secrets = handlers[adm].secrets
  BY <1>0 DEF PushSecrets, UpdateSecrets, HostsInv, RuntimeTyped, Registered
<1> HIDE DEF x
<1> QED
  BY <1>0, <1>1, <1>2, <1>3, ArrivesSync

LEMMA RegisterSync ==
  ASSUME HostsInv, SecretsSyncInv, NEW adm \in Admins, RegisterServer(adm)
  PROVE  SecretsSyncInv'
<1> DEFINE x == IF handlers[adm].op = "start" THEN [handlers[adm] EXCEPT !.step = "commit"]
                ELSE NoHandlerStep
           s == handlers[adm].server
<1>0. handlers[adm] \in Handler /\ s \in Servers
  BY DEF RegisterServer, HostsInv, RuntimeTyped
<1>1. /\ handlers' = [handlers EXCEPT ![adm] = x] /\ handlers[adm].step = "register"
      /\ Arrives(adm, s) /\ UNCHANGED secret
  BY DEF RegisterServer, NextStep, Respond, database
<1>2. x.step \in {"none", "commit"} /\ x.op # "secret" /\ x.op \in {"none", handlers[adm].op}
  BY <1>0, NothingOK DEF Handler
<1>3. /\ \A t \in Servers : t # s => registry'[t] = registry[t]
      /\ registry'[s].secrets = handlers[adm].secrets
  BY <1>0 DEF RegisterServer, Register, HostsInv, RuntimeTyped
<1> HIDE DEF x
<1> QED
  BY <1>0, <1>1, <1>2, <1>3, ArrivesSync

\* A handler that reads the secrets of s and carries them.
LEMMA ReadSync ==
  ASSUME HostsInv, SecretsSyncInv, NEW adm \in Admins, NEW x, NEW s \in Servers,
         handlers' = [handlers EXCEPT ![adm] = x], UNCHANGED <<secret, registry, unsynced>>,
         Reads(adm, s), x.server = s, handlers[adm].step \in {"none", "read"},
         \/ /\ x.op = "secret" /\ handlers[adm].op = "secret" /\ handlers[adm].server = s
            /\ x.key = handlers[adm].key /\ x.value = handlers[adm].value
            /\ x.step = "push" /\ x.secrets = SecretsSeen(adm, s)
         \/ /\ x.op # "secret" /\ handlers[adm].op # "secret"
            /\ x.step = "register" /\ x.secrets = secret[s]
  PROVE  SecretsSyncInv'
<1>1. handlers'[adm] = x /\ \A q \in Admins : q # adm => handlers'[q] = handlers[q]
  BY DEF HostsInv, RuntimeTyped
<1>2. /\ contested \ {adm} \subseteq contested'
      /\ adm \notin contested' => Changing(s) \subseteq {adm}
  BY ReadsRight
<1>3. Changing(s)' \subseteq Changing(s)
  BY <1>1 DEF Changing
<1>4. adm \notin contested' => CarriedRight(adm)'
  <2> SUFFICES ASSUME adm \notin contested' PROVE CarriedRight(adm)'
    OBVIOUS
  <2>1. CASE x.op = "secret"
    <3>1. SecretsSeen(adm, s)' = SecretsSeen(adm, s)
      BY <1>1, <2>1 DEF SecretsSeen
    <3> QED
      BY <1>1, <1>2, <1>3, <2>1, <3>1 DEF CarriedRight
  <2>2. CASE x.op # "secret"
    <3>1. adm \notin Changing(s)
      BY <2>2 DEF Changing
    <3> QED
      BY <1>1, <1>2, <1>3, <2>2, <3>1 DEF CarriedRight
  <2> QED
    BY <2>1, <2>2
<1> QED
  BY <1>2, <1>4, GoesOn DEF HostsInv

LEMMA HandlerSync ==
  ASSUME HostsInv, SecretsSyncInv, NEW adm \in Admins, HandlerStep(adm)
  PROVE  SecretsSyncInv'
<1>0. /\ handlers[adm] \in Handler /\ RuntimeTyped
      /\ handlers[adm].step # "none" => handlers[adm].server \in Servers
  BY DEF HostsInv, RuntimeTyped
<1>n. NoHandlerStep.op = "none" /\ NoHandlerStep.step = "none"
  BY NothingOK
<1>1. ASSUME NEW s \in Servers, NEW k \in SecretKeys, NEW op \in {"set", "delete"},
             FlushSecret(adm, s, k, op) \/ CommitSecret(adm, s, k) \/ RollBackSecret(adm, s, k)
      PROVE  SecretsSyncInv'
  BY <1>1, FlushSync, EndSync
<1>2. CASE ReadForSync(adm)
  <2> DEFINE s == handlers[adm].server
             seen == SecretsSeen(adm, s)
             x == [handlers[adm] EXCEPT !.step = "push", !.secrets = seen]
  <2>1. /\ handlers' = [handlers EXCEPT ![adm] = x] /\ UNCHANGED <<secret, registry, unsynced>>
        /\ Reads(adm, s) /\ handlers[adm].op = "secret" /\ handlers[adm].step = "read" /\ s \in Servers
    BY <1>0, <1>2 DEF ReadForSync, Goes, database, sandbox
  <2> HIDE DEF seen
  <2>2. /\ x.op = handlers[adm].op /\ x.step = "push" /\ x.server = s /\ x.secrets = seen
        /\ x.key = handlers[adm].key /\ x.value = handlers[adm].value
    BY <1>0 DEF Handler
  <2> HIDE DEF x
  <2> QED
    BY <2>1, <2>2, ReadSync DEF seen
<1>3. CASE SkipSync(adm) \/ LosePush(adm)
  <2> DEFINE x == [handlers[adm] EXCEPT !.step = "commit"]
  <2>1. /\ handlers' = [handlers EXCEPT ![adm] = x] /\ UNCHANGED <<secret, registry>>
        /\ unsynced' = unsynced \union {handlers[adm].server} /\ contested \ {adm} \subseteq contested'
        /\ handlers[adm].op = "secret" /\ handlers[adm].step # "commit"
    BY <1>3 DEF SkipSync, LosePush, Goes, NextStep, database, sandbox
  <2>2. x.step = "commit" /\ x.server = handlers[adm].server
    BY <1>0 DEF Handler
  <2> HIDE DEF x
  <2> QED
    BY <1>0, <2>1, <2>2, GoesEmpty
<1>4. CASE PushSecrets(adm) \/ RegisterServer(adm)
  BY <1>4, PushSync, RegisterSync
<1>5. ASSUME NEW s \in Servers, StartServer(adm, s) PROVE SecretsSyncInv'
  <2> DEFINE x == ReadServer(adm, "start", s)
  <2>1. /\ handlers' = [handlers EXCEPT ![adm] = x] /\ UNCHANGED <<secret, registry, unsynced>>
        /\ Reads(adm, s) /\ handlers[adm] = NoHandlerStep
    BY <1>5 DEF StartServer, OpenRequest, database, sandbox
  <2>2. x.op = "start" /\ x.step = "register" /\ x.server = s /\ x.secrets = secret[s]
    BY DEF ReadServer, NoHandlerStep
  <2> HIDE DEF x
  <2> QED
    BY <1>n, <2>1, <2>2, ReadSync
<1>6. CASE ReadToRegister(adm)
  <2> DEFINE s == handlers[adm].server
             op == handlers[adm].op
             x == ReadServer(adm, op, s)
  <2>1. /\ handlers' = [handlers EXCEPT ![adm] = x] /\ UNCHANGED <<secret, registry, unsynced>>
        /\ Reads(adm, s) /\ op \in {"start", "refresh"} /\ handlers[adm].step = "read" /\ s \in Servers
    BY <1>0, <1>6 DEF ReadToRegister, database, sandbox
  <2>2. x.op = op /\ x.step = "register" /\ x.server = s /\ x.secrets = secret[s]
    BY DEF ReadServer, NoHandlerStep
  <2> HIDE DEF x
  <2> QED
    BY <2>1, <2>2, ReadSync
<1>7. ASSUME NEW s \in Servers, RestartServer(adm, s) \/ StopServer(adm, s) PROVE SecretsSyncInv'
  <2> DEFINE y(op, step) == [NoHandlerStep EXCEPT !.op = op, !.step = step, !.server = s]
  <2>1. /\ UNCHANGED <<secret, unsynced, contested>> /\ Unregister(s) /\ handlers[adm] = NoHandlerStep
        /\ \/ handlers' = [handlers EXCEPT ![adm] = y("start", "read")]
           \/ handlers' = [handlers EXCEPT ![adm] = y("stop", "commit")]
    BY <1>7 DEF RestartServer, StopServer, OpenRequest, database
  <2>2. /\ y("start", "read").op = "start" /\ y("start", "read").step = "read"
        /\ y("stop", "commit").op = "stop" /\ y("stop", "commit").step = "commit"
    BY DEF NoHandlerStep
  <2>3. \A t \in Servers : registry'[t] = registry[t] \/ ~registry'[t].there
    BY <2>1, NothingOK DEF Unregister, HostsInv, RuntimeTyped
  <2> HIDE DEF y
  <2> QED
    BY <1>0, <1>n, <2>1, <2>2, <2>3, GoesEmpty
<1>8. CASE LoseRegistration(adm) \/ CommitStart(adm) \/ CommitStop(adm)
  <2>1. /\ handlers' = [handlers EXCEPT ![adm] = NoHandlerStep] /\ UNCHANGED <<secret, registry, unsynced>>
        /\ contested \ {adm} \subseteq contested'
        /\ handlers[adm].op # "secret" \/ handlers[adm].step # "commit"
    BY <1>8 DEF LoseRegistration, CommitStart, CommitStop, Goes, Respond, database, sandbox, history
  <2> QED
    BY <1>0, <1>n, <2>1, GoesEmpty
<1>9. ASSUME NEW s \in Servers, NEW hosts \in SUBSET Hosts, DecideHosts(adm, s, hosts)
      PROVE  SecretsSyncInv'
  <2> DEFINE x == IF s \in status
                  THEN [NoHandlerStep EXCEPT !.op = "refresh", !.step = "read", !.server = s]
                  ELSE NoHandlerStep
  <2>1. /\ handlers' = [handlers EXCEPT ![adm] = x] /\ UNCHANGED <<secret, registry, unsynced, contested>>
        /\ handlers[adm] = NoHandlerStep
    BY <1>9 DEF DecideHosts, OpenRequest, sandbox, history
  <2>2. x.op \in {"none", "refresh"} /\ x.step \in {"none", "read"}
    BY <1>n DEF NoHandlerStep
  <2> HIDE DEF x
  <2> QED
    BY <1>0, <1>n, <2>1, <2>2, GoesEmpty
<1> QED
  BY <1>1, <1>2, <1>3, <1>4, <1>5, <1>6, <1>7, <1>8, <1>9 DEF HandlerStep

LEMMA SyncStep ==
  ASSUME HostsInv, SecretsSyncInv, [RuntimeNext]_runtimeVars
  PROVE  SecretsSyncInv'
<1> DEFINE Stored == UNCHANGED <<secret, handlers, unsynced, contested>>
<1>s. ASSUME Stored, \A t \in Servers : registry'[t] = registry[t] \/ ~registry'[t].there
      PROVE  SecretsSyncInv'
  <2>1. ASSUME NEW t PROVE Changing(t)' = Changing(t) /\ Changed(t)' = Changed(t)
    BY <1>s DEF Changing, Changed
  <2>2. ASSUME NEW g, NEW t PROVE SecretsSeen(g, t)' = SecretsSeen(g, t)
    BY <1>s DEF SecretsSeen
  <2>3. CarriedInv'
    BY <1>s, <2>1, <2>2 DEF SecretsSyncInv, CarriedInv, CarriedRight
  <2>4. HeldInv'
    BY <1>s, <2>1, <2>2 DEF SecretsSyncInv, HeldInv, HeldAt
  <2> QED
    BY <2>3, <2>4 DEF SecretsSyncInv
<1>1. ASSUME NEW adm \in Admins, HandlerStep(adm) PROVE SecretsSyncInv'
  BY <1>1, HandlerSync
<1>2. ASSUME NEW c \in ToolCalls, ToolCallStep(c) PROVE SecretsSyncInv'
  <2>1. Stored /\ registry' = registry
    BY <1>2 DEF ToolCallStep, CallTool, Execute, TakeThread, ModuleRan, TimeOut, RunawayEnds,
       MainEnds, database, history
  <2> QED
    BY <1>s, <2>1
<1>3. CASE RestartSandbox
  <2>1. Stored /\ \A t \in Servers : ~registry'[t].there
    BY <1>3, NothingOK DEF RestartSandbox, database, history
  <2> QED
    BY <1>s, <2>1
<1>4. CASE UNCHANGED runtimeVars
  BY <1>4, <1>s DEF runtimeVars
<1> QED
  BY <1>1, <1>2, <1>3, <1>4 DEF RuntimeNext

(* However the changes of secrets, the starts, the restarts, the stops and *)
(* the refreshes of a server overlap, and whatever of them fails: once no  *)
(* change is open, what runs has the committed secrets, unless what        *)
(* arrived last was read while another change was open, or never arrived.  *)
THEOREM SecretsCorrect == RuntimeSpec => []SecretsInSync
<1>1. RuntimeInit => SecretsSyncInv
  BY NothingOK DEF RuntimeInit, SecretsSyncInv, CarriedInv, CarriedRight, HeldInv, HeldAt
<1>2. SecretsSyncInv => SecretsInSync
  BY DEF SecretsSyncInv, HeldInv, HeldAt, Changed, SecretsInSync
<1>3. HostsInv /\ SecretsSyncInv /\ [RuntimeNext]_runtimeVars => HostsInv' /\ SecretsSyncInv'
  BY RuntimeStepOK, SyncStep
<1> QED
  BY RuntimeInitOK, <1>1, <1>2, <1>3, PTL DEF RuntimeSpec

-----------------------------------------------------------------------------
(* The windows of the rate limiter: RateLimiter.                           *)

Requests == SUBSET (Nat \X Nat)
Bucket == [tokens : Nat, last : Nat, minute : Requests, hour : Requests, exists : BOOLEAN]

Within(k) ==
    /\ \E l \in Allowances : Cardinality(k.minute) <= l.minute
    /\ \E l \in Allowances : Cardinality(k.hour) <= l.hour

\* What the bucket k knows of the requests r its client was granted: all of
\* the last hour and minute; no bucket means that there are none.
Remembers(k, r) ==
    IF k.exists THEN /\ Recent(r, Hour) \subseteq k.hour /\ Recent(r, Minute) \subseteq k.minute
                     /\ \A q \in r : q[1] <= k.last
                ELSE k = NoBucket /\ Recent(r, Hour) = {}

Kept(k, r) ==
    /\ k \in Bucket /\ r \in Requests
    /\ k.last <= clock /\ \A q \in k.hour \union r : q[1] <= clock
    /\ IsFiniteSet(k.hour) /\ IsFiniteSet(r) /\ k.minute \subseteq k.hour
    /\ Remembers(k, r) /\ Within(k) /\ Numbered(r)

Burst(k) == \E l \in Limits : k.tokens <= l.burst

\* The inductive invariant.
BucketsInv ==
    /\ clock \in 0..MaxTime /\ updates \in 0..MaxUpdates /\ limit \in Limits
    /\ buckets \in [Buckets -> Bucket] /\ admitted \in [Buckets -> Requests]
    /\ \A b \in Buckets : Kept(buckets[b], admitted[b]) /\ Burst(buckets[b])

LEMMA LimitsOK ==
  ASSUME NEW l \in Limits
  PROVE  /\ l.minute \in Nat /\ l.minute > 0 /\ l.hour \in Nat /\ l.hour > 0
         /\ l.burst \in Nat /\ l.refill \in Nat
  BY LimiterConstantsOK

LEMMA LengthsOK ==
  /\ Minute \in Nat /\ Hour \in Nat /\ Inactive \in Nat /\ FirstTokens \in Nat
  /\ MaxTime \in Nat /\ MaxUpdates \in Nat
  /\ 0 < Minute /\ Minute <= Hour /\ Hour < Inactive
  BY LimiterConstantsOK

LEMMA NoBucketOK == NoBucket \in Bucket /\ NoBucket.minute = {} /\ NoBucket.hour = {}
                    /\ NoBucket.tokens = 0 /\ NoBucket.last = 0 /\ ~NoBucket.exists
  BY DEF NoBucket, Bucket, Requests

LEMMA RecentOK ==
  ASSUME NEW r \in Requests, NEW n \in Nat
  PROVE  Recent(r, n) \subseteq r /\ Recent(r, n) \in Requests
  BY DEF Recent, Requests

\* Empty windows are within every limit.
LEMMA EmptyWithin ==
  ASSUME limit \in Limits, NEW k, k.minute = {}, k.hour = {}
  PROVE  Within(k)
<1>1. limit \in Allowances  BY DEF Allowances
<1>2. Cardinality({}) = 0  BY FS_EmptySet
<1>3. 0 <= limit.minute /\ 0 <= limit.hour  BY LimitsOK
<1>. QED  BY <1>1, <1>2, <1>3 DEF Within

\* Windows that shrink stay within the limits.
LEMMA SmallerWithin ==
  ASSUME limit \in Limits, NEW k, NEW j, Within(k), IsFiniteSet(k.hour),
         k.minute \subseteq k.hour, j.minute \subseteq k.minute, j.hour \subseteq k.hour
  PROVE  Within(j)
<1>1. IsFiniteSet(k.minute)  BY FS_Subset
<1>2. Cardinality(j.minute) <= Cardinality(k.minute) /\ Cardinality(j.hour) <= Cardinality(k.hour)
  BY <1>1, FS_Subset
<1>3. /\ Cardinality(j.minute) \in Nat /\ Cardinality(k.minute) \in Nat
      /\ Cardinality(j.hour) \in Nat /\ Cardinality(k.hour) \in Nat
  BY <1>1, FS_Subset, FS_CardinalityType
<1>4. Allowances \subseteq Limits  BY DEF Allowances
<1>. QED  BY <1>2, <1>3, <1>4, LimitsOK DEF Within

\* The clean-up of a check keeps what the bucket remembers.
LEMMA CleanedKept ==
  ASSUME BucketsInv, NEW b \in Buckets
  PROVE  /\ Kept(CleanedUp(b), admitted[b]) /\ CleanedUp(b).exists
         /\ CleanedUp(b).tokens = IF buckets[b].exists THEN buckets[b].tokens ELSE FirstTokens
         /\ ~buckets[b].exists => CleanedUp(b).minute = {} /\ CleanedUp(b).hour = {}
<1>. DEFINE r == admitted[b]
<1>1. Kept(buckets[b], r) /\ clock \in Nat  BY LengthsOK DEF BucketsInv
<1>2. CASE buckets[b].exists
  <2>. PICK k \in Bucket : k = buckets[b]  BY <1>1 DEF Kept
  <2>. PICK c : c = CleanedUp(b)  OBVIOUS
  <2>1. c = [k EXCEPT !.minute = Recent(k.minute, Minute), !.hour = Recent(k.hour, Hour)]
    BY <1>2 DEF CleanedUp
  <2>2. k.minute \in Requests /\ k.hour \in Requests  BY DEF Bucket
  <2>3. Recent(k.minute, Minute) \in Requests /\ Recent(k.hour, Hour) \in Requests
    BY <2>2, RecentOK, LengthsOK
  <2>4. /\ c \in Bucket /\ c.exists /\ c.tokens = k.tokens /\ c.last = k.last
        /\ c.minute = Recent(k.minute, Minute) /\ c.hour = Recent(k.hour, Hour)
    BY <2>1, <2>3, <1>2 DEF Bucket
  <2>5. c.minute \subseteq k.minute /\ c.hour \subseteq k.hour  BY <2>4 DEF Recent
  <2>6. c.minute \subseteq c.hour
    <3>. SUFFICES ASSUME NEW q \in c.minute PROVE q \in c.hour  OBVIOUS
    <3>1. q \in k.hour /\ q[1] + Minute > clock  BY <2>4, <1>1 DEF Recent, Kept
    <3>2. q \in Nat \X Nat  BY <3>1, <2>2 DEF Requests
    <3>3. q[1] \in Nat  BY <3>2
    <3>. QED  BY <3>1, <3>3, <2>4, <1>1, LengthsOK DEF Recent
  <2>7. Remembers(c, r)
    <3>1. Recent(r, Hour) \subseteq c.hour /\ Recent(r, Minute) \subseteq c.minute
      BY <1>1, <1>2, <2>4 DEF Kept, Remembers, Recent
    <3>. QED  BY <3>1, <1>1, <1>2, <2>4 DEF Kept, Remembers
  <2>8. Within(c)  BY <1>1, <2>5, SmallerWithin DEF Kept, BucketsInv
  <2>9. IsFiniteSet(c.hour)  BY <1>1, <2>5, FS_Subset DEF Kept
  <2>10. \A q \in c.hour \union r : q[1] <= clock  BY <1>1, <2>5 DEF Kept
  <2>. QED  BY <1>1, <1>2, <2>4, <2>6, <2>7, <2>8, <2>9, <2>10 DEF Kept
<1>3. CASE ~buckets[b].exists
  <2>. PICK c : c = CleanedUp(b)  OBVIOUS
  <2>1. c = [NewBucket EXCEPT !.minute = Recent({}, Minute), !.hour = Recent({}, Hour)]
    BY <1>3 DEF CleanedUp, NewBucket
  <2>2. Recent({}, Minute) = {} /\ Recent({}, Hour) = {}  BY DEF Recent
  <2>3. /\ c \in Bucket /\ c.exists /\ c.tokens = FirstTokens /\ c.last = clock
        /\ c.minute = {} /\ c.hour = {}
    BY <2>1, <2>2, <1>1, LengthsOK DEF NewBucket, Bucket, Requests
  <2>4. Recent(r, Hour) = {}  BY <1>1, <1>3 DEF Kept, Remembers
  <2>5. Recent(r, Minute) = {}
    <3>. SUFFICES ASSUME NEW q \in Recent(r, Minute) PROVE FALSE  OBVIOUS
    <3>1. q \in r /\ q[1] + Minute > clock  BY DEF Recent
    <3>2. q \in Nat \X Nat  BY <3>1, <1>1 DEF Kept, Requests
    <3>3. q[1] \in Nat  BY <3>2
    <3>. QED  BY <3>1, <3>3, <2>4, <1>1, LengthsOK DEF Recent
  <2>6. Remembers(c, r)  BY <2>3, <2>4, <2>5, <1>1 DEF Remembers, Kept
  <2>7. Within(c)  BY <2>3, EmptyWithin DEF BucketsInv
  <2>8. IsFiniteSet(c.hour)  BY <2>3, FS_EmptySet
  <2>. QED  BY <1>1, <1>3, <2>3, <2>6, <2>7, <2>8 DEF Kept
<1>. QED  BY <1>2, <1>3

\* One request more fills a window by one at the most.
LEMMA OneMore ==
  ASSUME NEW S, IsFiniteSet(S), NEW x
  PROVE  Cardinality(S \union {x}) <= Cardinality(S) + 1
<1>1. Cardinality(S \union {x}) = IF x \in S THEN Cardinality(S) ELSE Cardinality(S) + 1
  BY FS_AddElement
<1>2. Cardinality(S) \in Nat  BY FS_CardinalityType
<1>3. PICK n \in Nat : n = Cardinality(S)  BY <1>2
<1>. QED  BY <1>1, <1>3

\* The tokens that come back keep the windows and the burst.
LEMMA RefilledKept ==
  ASSUME clock \in Nat, limit \in Limits, NEW k, NEW r, Kept(k, r), k.exists
  PROVE  /\ Kept(Refilled(k), r) /\ Refilled(k).exists /\ Refilled(k).last = clock
         /\ Refilled(k).tokens \in Nat /\ Refilled(k).tokens <= limit.burst
<1>. PICK e \in Nat : e = clock - k.last  BY DEF Kept, Bucket
<1>. PICK n \in Nat : n = CapAt(limit.burst, k.tokens + e * limit.refill)
  BY LimitsOK DEF CapAt, Kept, Bucket
<1>1. n <= limit.burst
  <2>1. k.tokens \in Nat /\ limit.burst \in Nat /\ limit.refill \in Nat
    BY LimitsOK DEF Kept, Bucket
  <2>2. PICK m \in Nat : m = k.tokens + e * limit.refill  BY <2>1
  <2>. QED  BY <2>1, <2>2 DEF CapAt
<1>2. PICK c : c = Refilled(k)  OBVIOUS
<1>3. c = [k EXCEPT !.tokens = n, !.last = clock]  BY <1>2 DEF Refilled
<1>4. /\ c \in Bucket /\ c.exists /\ c.last = clock /\ c.tokens = n
      /\ c.minute = k.minute /\ c.hour = k.hour
  BY <1>3 DEF Kept, Bucket
<1>5. Remembers(c, r)  BY <1>4 DEF Remembers, Kept
<1>6. Within(c)  BY <1>4 DEF Within, Kept
<1>. QED  BY <1>1, <1>2, <1>4, <1>5, <1>6 DEF Kept

\* The request that comes now is the next one of this tick.
LEMMA ArrivalOK ==
  ASSUME BucketsInv, NEW b \in Buckets, NEW a, a = Arrival(b)
  PROVE  /\ a \in Nat \X Nat /\ a[1] = clock
         /\ a \notin admitted[b] /\ Numbered(Recent(admitted[b], Hour) \union {a})
<1>. DEFINE r == admitted[b]
            now == ArrivedAt(r, clock)
            n == Cardinality(now)
            s == Recent(r, Hour) \union {a}
<1>1. /\ clock \in Nat /\ r \in Requests /\ IsFiniteSet(r) /\ Numbered(r)
      /\ \A q \in r : q[1] <= clock
  BY LengthsOK DEF BucketsInv, Kept
<1>2. IsFiniteSet(now)  BY <1>1, FS_Subset DEF ArrivedAt
<1>3. n \in Nat  BY <1>2, FS_CardinalityType
<1>4. a = <<clock, n + 1>>  BY DEF Arrival
<1>5. now = {<<clock, i>> : i \in 1..n}  BY <1>1 DEF Numbered
<1>6. a \notin now
  <2>. HIDE DEF n, now
  <2>. QED  BY <1>3, <1>4, <1>5
<1>7. a \notin r  BY <1>4, <1>6 DEF ArrivedAt
<1>8. Numbered(s)
  <2>. SUFFICES ASSUME NEW t \in 0..clock
                PROVE ArrivedAt(s, t) = {<<t, i>> : i \in 1..Cardinality(ArrivedAt(s, t))}
    BY DEF Numbered
  <2>0. \A q \in r : q[1] \in Nat  BY <1>1 DEF Requests
  <2>1. CASE t = clock
    <3>1. ArrivedAt(s, t) = now \union {a}
      BY <2>0, <2>1, <1>1, <1>4, LengthsOK DEF ArrivedAt, Recent
    <3>2. Cardinality(ArrivedAt(s, t)) = n + 1  BY <3>1, <1>2, <1>6, FS_AddElement
    <3>. HIDE DEF n, now, s
    <3>3. ArrivedAt(s, t) = {<<clock, i>> : i \in 1..(n + 1)}
      BY <3>1, <1>3, <1>4, <1>5
    <3>. QED  BY <3>2, <3>3, <2>1
  <2>2. CASE t # clock /\ t + Hour > clock
    <3>1. ArrivedAt(s, t) = ArrivedAt(r, t)
      BY <2>0, <2>2, <1>4 DEF ArrivedAt, Recent
    <3>. QED  BY <3>1, <1>1 DEF Numbered
  <2>3. CASE t # clock /\ ~(t + Hour > clock)
    <3>1. ArrivedAt(s, t) = {}  BY <2>0, <2>3, <1>4 DEF ArrivedAt, Recent
    <3>2. Cardinality(ArrivedAt(s, t)) = 0  BY <3>1, FS_EmptySet
    <3>3. {<<t, i>> : i \in 1..0} = {}  OBVIOUS
    <3>. QED  BY <3>1, <3>2, <3>3
  <2>. QED  BY <2>1, <2>2, <2>3
<1>. QED  BY <1>1, <1>3, <1>4, <1>7, <1>8

\* A request the windows allow is counted and fits in them.
LEMMA CountedKept ==
  ASSUME BucketsInv, NEW b \in Buckets, NEW k, Kept(k, admitted[b]), k.exists, k.last = clock,
         k.tokens >= 1, WithinWindows(k)
  PROVE  /\ Kept(Counted(k, Arrival(b)), Recent(admitted[b], Hour) \union {Arrival(b)})
         /\ Counted(k, Arrival(b)).tokens = k.tokens - 1
<1>. PICK a : a = Arrival(b)  OBVIOUS
<1>. DEFINE r == admitted[b]
            s == Recent(r, Hour) \union {a}
<1>1. /\ a \in Nat \X Nat /\ a[1] = clock /\ Numbered(s)  BY ArrivalOK
<1>2. clock \in Nat /\ r \in Requests /\ limit \in Limits /\ k \in Bucket
  BY LengthsOK DEF BucketsInv, Kept
<1>. PICK c : c = Counted(k, a)  OBVIOUS
<1>3. c = [k EXCEPT !.tokens = k.tokens - 1, !.minute = k.minute \union {a},
                    !.hour = k.hour \union {a}]
  BY DEF Counted
<1>4. k.minute \union {a} \in Requests /\ k.hour \union {a} \in Requests /\ k.tokens - 1 \in Nat
  BY <1>1, <1>2 DEF Bucket, Requests
<1>5. /\ c \in Bucket /\ c.exists /\ c.tokens = k.tokens - 1 /\ c.last = clock
      /\ c.minute = k.minute \union {a} /\ c.hour = k.hour \union {a}
  BY <1>2, <1>3, <1>4 DEF Bucket
<1>6. s \in Requests /\ IsFiniteSet(s)
  <2>1. Recent(r, Hour) \in Requests /\ Recent(r, Hour) \subseteq r  BY <1>2, RecentOK, LengthsOK
  <2>2. IsFiniteSet(Recent(r, Hour))  BY <2>1, FS_Subset DEF BucketsInv, Kept
  <2>. QED  BY <2>1, <2>2, <1>1, FS_AddElement DEF Requests
<1>7. IsFiniteSet(k.minute) /\ IsFiniteSet(k.hour)  BY FS_Subset DEF Kept
<1>8. IsFiniteSet(k.minute \union {a}) /\ IsFiniteSet(k.hour \union {a})  BY <1>7, FS_AddElement
<1>9. Within(c)
  <2>1. /\ Cardinality(c.minute) <= Cardinality(k.minute) + 1
        /\ Cardinality(c.hour) <= Cardinality(k.hour) + 1
    BY <1>5, <1>7, OneMore
  <2>2. /\ Cardinality(c.minute) \in Nat /\ Cardinality(k.minute) \in Nat
        /\ Cardinality(c.hour) \in Nat /\ Cardinality(k.hour) \in Nat
    BY <1>5, <1>7, <1>8, FS_CardinalityType
  <2>3. limit \in Allowances  BY <1>2 DEF Allowances
  <2>4. limit.minute \in Nat /\ limit.hour \in Nat  BY <1>2, LimitsOK
  <2>5. Cardinality(c.minute) <= limit.minute /\ Cardinality(c.hour) <= limit.hour
    BY <2>1, <2>2, <2>4 DEF WithinWindows
  <2>. QED  BY <2>3, <2>5 DEF Within
<1>10. Remembers(c, s)
  <2>0. \A q \in r : q[1] \in Nat /\ q[1] <= clock  BY <1>2 DEF Requests, BucketsInv, Kept
  <2>1. Recent(s, Hour) \subseteq c.hour
    BY <1>5 DEF Kept, Remembers, Recent
  <2>2. Recent(s, Minute) \subseteq c.minute
    BY <1>5 DEF Kept, Remembers, Recent
  <2>3. \A q \in s : q[1] <= c.last  BY <2>0, <1>1, <1>2, <1>5 DEF Recent
  <2>. QED  BY <2>1, <2>2, <2>3, <1>5 DEF Remembers
<1>11. \A q \in c.hour \union s : q[1] <= clock
  BY <1>1, <1>2, <1>5 DEF Kept, Recent
<1>12. c.minute \subseteq c.hour  BY <1>5 DEF Kept
<1>. QED  BY <1>1, <1>2, <1>5, <1>6, <1>8, <1>9, <1>10, <1>11, <1>12 DEF Kept

\* A check replaces what its bucket holds and nothing else.
LEMMA Checked ==
  ASSUME BucketsInv, NEW b \in Buckets, NEW k, NEW r, Kept(k, r), Burst(k),
         buckets' = [buckets EXCEPT ![b] = k], admitted' = [admitted EXCEPT ![b] = r],
         UNCHANGED <<clock, limit, updates>>
  PROVE  BucketsInv'
<1>1. \A d \in Buckets : Kept(buckets'[d], admitted'[d]) /\ Burst(buckets'[d])
  BY DEF BucketsInv
<1>2. \A d \in Buckets : (Kept(buckets[d], admitted[d]) /\ Burst(buckets[d]))'
  BY <1>1 DEF Kept, Remembers, Within, Allowances, Numbered, Recent, Burst
<1>3. k \in Bucket /\ r \in Requests  BY DEF Kept
<1>4. buckets' \in [Buckets -> Bucket] /\ admitted' \in [Buckets -> Requests]
  BY <1>3 DEF BucketsInv
<1>. QED  BY <1>2, <1>4 DEF BucketsInv

LEMMA WindowRefused ==
  ASSUME BucketsInv, NEW b \in Buckets, RefuseWindow(b)
  PROVE  BucketsInv'
<1>. PICK k : k = CleanedUp(b)  OBVIOUS
<1>1. Kept(k, admitted[b])  BY CleanedKept
<1>2. buckets[b].exists
  <2>. SUFFICES ASSUME ~buckets[b].exists PROVE WithinWindows(k)  BY DEF RefuseWindow
  <2>1. k.minute = {} /\ k.hour = {}  BY CleanedKept
  <2>2. limit.minute > 0 /\ limit.hour > 0  BY LimitsOK DEF BucketsInv
  <2>. QED  BY <2>1, <2>2, FS_EmptySet DEF WithinWindows
<1>3. k.tokens = buckets[b].tokens  BY <1>2, CleanedKept
<1>4. Burst(k)  BY <1>3 DEF Burst, BucketsInv
<1>5. admitted' = [admitted EXCEPT ![b] = admitted[b]]  BY DEF RefuseWindow, BucketsInv
<1>. QED  BY <1>1, <1>4, <1>5, Checked DEF RefuseWindow

LEMMA BurstRefused ==
  ASSUME BucketsInv, NEW b \in Buckets, RefuseBurst(b)
  PROVE  BucketsInv'
<1>. PICK k : k = Refilled(CleanedUp(b))  OBVIOUS
<1>1. Kept(CleanedUp(b), admitted[b]) /\ CleanedUp(b).exists  BY CleanedKept
<1>2. clock \in Nat /\ limit \in Limits  BY LengthsOK DEF BucketsInv
<1>3. Kept(k, admitted[b]) /\ k.tokens <= limit.burst  BY <1>1, <1>2, RefilledKept
<1>4. Burst(k)  BY <1>2, <1>3 DEF Burst
<1>5. admitted' = [admitted EXCEPT ![b] = admitted[b]]  BY DEF RefuseBurst, BucketsInv
<1>. QED  BY <1>3, <1>4, <1>5, Checked DEF RefuseBurst

LEMMA RequestAllowed ==
  ASSUME BucketsInv, NEW b \in Buckets, Allow(b)
  PROVE  BucketsInv'
<1>. PICK k : k = Refilled(CleanedUp(b))  OBVIOUS
<1>1. Kept(CleanedUp(b), admitted[b]) /\ CleanedUp(b).exists  BY CleanedKept
<1>2. clock \in Nat /\ limit \in Limits  BY LengthsOK DEF BucketsInv
<1>3. /\ Kept(k, admitted[b]) /\ k.tokens \in Nat /\ k.tokens <= limit.burst
      /\ k.exists /\ k.last = clock
  BY <1>1, <1>2, RefilledKept
<1>4. WithinWindows(k) /\ k.tokens >= 1  BY DEF Allow
<1>. PICK c : c = Counted(k, Arrival(b))  OBVIOUS
<1>. PICK s : s = Recent(admitted[b], Hour) \union {Arrival(b)}  OBVIOUS
<1>5. Kept(c, s) /\ c.tokens = k.tokens - 1  BY <1>3, <1>4, CountedKept
<1>6. Burst(c)  BY <1>2, <1>3, <1>5, LimitsOK DEF Burst
<1>7. buckets' = [buckets EXCEPT ![b] = c] /\ admitted' = [admitted EXCEPT ![b] = s]
  BY DEF Allow
<1>8. UNCHANGED <<clock, limit, updates>>  BY DEF Allow
<1>. QED  BY <1>5, <1>6, <1>7, <1>8, Checked

\* A bucket is idle for longer than an hour: nothing recent is forgotten.
LEMMA IdleRemoved ==
  ASSUME BucketsInv, CleanupInactive
  PROVE  BucketsInv'
<1>1. UNCHANGED <<clock, limit, updates, admitted>> /\ clock \in Nat /\ limit \in Limits
  BY LengthsOK DEF CleanupInactive, BucketsInv
<1>2. \A b \in Buckets : Kept(buckets'[b], admitted[b]) /\ Burst(buckets'[b])
  <2>. SUFFICES ASSUME NEW b \in Buckets PROVE Kept(buckets'[b], admitted[b]) /\ Burst(buckets'[b])
    OBVIOUS
  <2>1. Kept(buckets[b], admitted[b]) /\ Burst(buckets[b])  BY DEF BucketsInv
  <2>2. CASE ~IdleBucket(buckets[b])
    BY <2>1, <2>2 DEF CleanupInactive
  <2>3. CASE IdleBucket(buckets[b])
    <3>1. buckets'[b] = NoBucket  BY <2>3 DEF CleanupInactive
    <3>2. Recent(admitted[b], Hour) = {}
      <4>. SUFFICES ASSUME NEW q \in admitted[b] PROVE ~(q[1] + Hour > clock)  BY DEF Recent
      <4>1. q[1] <= buckets[b].last /\ buckets[b].last + Inactive < clock
        BY <2>1, <2>3 DEF IdleBucket, Kept, Remembers
      <4>2. buckets[b].last \in Nat /\ q \in Nat \X Nat  BY <2>1 DEF Kept, Bucket, Requests
      <4>3. q[1] \in Nat  BY <4>2
      <4>. QED  BY <4>1, <4>2, <4>3, <1>1, LengthsOK
    <3>3. Within(NoBucket)  BY <1>1, NoBucketOK, EmptyWithin
    <3>4. Remembers(NoBucket, admitted[b])  BY <3>2, NoBucketOK DEF Remembers
    <3>5. Kept(NoBucket, admitted[b])
      BY <2>1, <3>3, <3>4, <1>1, NoBucketOK, FS_EmptySet DEF Kept
    <3>6. Burst(NoBucket)  BY <1>1, NoBucketOK, LimitsOK DEF Burst
    <3>. QED  BY <3>1, <3>5, <3>6
  <2>. QED  BY <2>2, <2>3
<1>3. \A b \in Buckets : (Kept(buckets[b], admitted[b]) /\ Burst(buckets[b]))'
  BY <1>1, <1>2 DEF Kept, Remembers, Within, Allowances, Numbered, Recent, Burst
<1>4. buckets' \in [Buckets -> Bucket]
  BY NoBucketOK DEF BucketsInv, CleanupInactive
<1>. QED  BY <1>1, <1>3, <1>4 DEF BucketsInv

\* The windows slide: what was recent and is not any more leaves them.
LEMMA Ticked ==
  ASSUME BucketsInv, ClockTicks
  PROVE  BucketsInv'
<1>1. /\ UNCHANGED <<limit, buckets, updates, admitted>> /\ clock \in Nat /\ clock' = clock + 1
      /\ limit \in Limits /\ clock' \in 0..MaxTime
  BY LengthsOK DEF ClockTicks, BucketsInv
<1>2. ASSUME NEW b \in Buckets PROVE Kept(buckets[b], admitted[b])'
  <2>. PICK k : k = buckets[b] /\ k = buckets'[b]  BY <1>1
  <2>. PICK r : r = admitted[b] /\ r = admitted'[b]  BY <1>1
  <2>1. Kept(k, r)  BY DEF BucketsInv
  <2>2. k \in Bucket /\ r \in Requests  BY <2>1 DEF Kept
  <2>3. /\ \A q \in r : q[1] \in Nat
        /\ \A q \in k.hour : q[1] \in Nat
    BY <2>2 DEF Requests, Bucket
  <2>4. \A n \in Nat : {q \in r : q[1] + n > clock + 1} \subseteq Recent(r, n)
    BY <2>3, <1>1 DEF Recent
  <2>5. Remembers(k, r)'
    <3>1. Remembers(k, r)  BY <2>1 DEF Kept
    <3>2. {q \in r : q[1] + Hour > clock + 1} \subseteq Recent(r, Hour)
          /\ {q \in r : q[1] + Minute > clock + 1} \subseteq Recent(r, Minute)
      BY <2>4, LengthsOK
    <3>. QED  BY <3>1, <3>2, <1>1 DEF Remembers, Recent
  <2>6. Numbered(r)'
    <3>. SUFFICES ASSUME NEW t \in 0..(clock + 1)
                  PROVE ArrivedAt(r, t) = {<<t, i>> : i \in 1..Cardinality(ArrivedAt(r, t))}
      BY <1>1 DEF Numbered, ArrivedAt
    <3>1. CASE t \in 0..clock  BY <2>1, <3>1 DEF Kept, Numbered
    <3>2. CASE t = clock + 1
      <4>1. ArrivedAt(r, t) = {}  BY <2>1, <2>3, <3>2, <1>1 DEF Kept, ArrivedAt
      <4>2. Cardinality(ArrivedAt(r, t)) = 0  BY <4>1, FS_EmptySet
      <4>3. {<<t, i>> : i \in 1..0} = {}  OBVIOUS
      <4>. QED  BY <4>1, <4>2, <4>3
    <3>. QED  BY <3>1, <3>2, <1>1
  <2>7. (k.last <= clock /\ \A q \in k.hour \union r : q[1] <= clock)'
    BY <2>1, <2>2, <2>3, <1>1 DEF Kept, Bucket
  <2>8. Within(k)'  BY <2>1, <1>1 DEF Kept, Within, Allowances
  <2>. QED  BY <2>1, <2>5, <2>6, <2>7, <2>8, <1>1 DEF Kept
<1>. QED  BY <1>1, <1>2 DEF BucketsInv, Burst

\* A change of the limits widens what was ever allowed.
LEMMA ConfigUpdated ==
  ASSUME BucketsInv, NEW l \in Limits, UpdateConfig(l)
  PROVE  BucketsInv'
<1>1. /\ UNCHANGED <<clock, buckets, admitted>> /\ updates' = updates + 1 /\ limit' = l
      /\ limit \in Limits /\ updates \in Nat /\ updates' \in 0..MaxUpdates
  BY LengthsOK DEF UpdateConfig, BucketsInv
<1>2. Allowances \subseteq Limits /\ Allowances' = Limits  BY <1>1 DEF Allowances
<1>3. \A b \in Buckets : Within(buckets[b])'
  BY <1>1, <1>2 DEF BucketsInv, Kept, Within
<1>4. \A b \in Buckets : Kept(buckets[b], admitted[b])'
  BY <1>1, <1>3 DEF BucketsInv, Kept, Remembers, Recent, Numbered
<1>. QED  BY <1>1, <1>4 DEF BucketsInv, Burst

LEMMA BucketsInit ==
  ASSUME LimiterInit
  PROVE  BucketsInv
<1>1. limit \in Limits /\ clock = 0 /\ updates = 0  BY DEF LimiterInit
<1>2. Within(NoBucket) /\ Burst(NoBucket)
  BY <1>1, EmptyWithin, NoBucketOK, LimitsOK DEF Burst
<1>3. Numbered({})
  <2>1. \A t : ArrivedAt({}, t) = {}  BY DEF ArrivedAt
  <2>2. \A t : {<<t, i>> : i \in 1..0} = {}  OBVIOUS
  <2>. QED  BY <2>1, <2>2, FS_EmptySet DEF Numbered
<1>4. Remembers(NoBucket, {})  BY NoBucketOK DEF Remembers, Recent
<1>5. Kept(NoBucket, {})
  BY <1>1, <1>2, <1>3, <1>4, NoBucketOK, FS_EmptySet DEF Kept, Requests
<1>6. NoBucket \in Bucket /\ {} \in Requests  BY NoBucketOK DEF Requests
<1>7. \A b \in Buckets : buckets[b] = NoBucket /\ admitted[b] = {}  BY DEF LimiterInit
<1>8. buckets \in [Buckets -> Bucket] /\ admitted \in [Buckets -> Requests]
  BY <1>6 DEF LimiterInit
<1>. QED  BY <1>1, <1>2, <1>5, <1>7, <1>8, LengthsOK DEF BucketsInv

LEMMA BucketsStep == BucketsInv /\ [LimiterNext]_limiterVars => BucketsInv'
<1>. SUFFICES ASSUME BucketsInv, [LimiterNext]_limiterVars PROVE BucketsInv'  OBVIOUS
<1>1. CASE \E b \in Buckets : RefuseWindow(b) \/ RefuseBurst(b) \/ Allow(b)
  BY <1>1, WindowRefused, BurstRefused, RequestAllowed
<1>2. CASE CleanupInactive  BY <1>2, IdleRemoved
<1>3. CASE ClockTicks  BY <1>3, Ticked
<1>4. CASE \E l \in Limits : UpdateConfig(l)  BY <1>4, ConfigUpdated
<1>5. CASE UNCHANGED limiterVars
  BY <1>5 DEF limiterVars, BucketsInv, Kept, Remembers, Within, Allowances, Numbered, Recent, Burst
<1>. QED  BY <1>1, <1>2, <1>3, <1>4, <1>5 DEF LimiterNext

LEMMA BucketsAlways == LimiterSpec => []BucketsInv
<1>1. LimiterInit => BucketsInv  BY BucketsInit
<1>. QED  BY <1>1, BucketsStep, PTL DEF LimiterSpec

\* The rate limiter's variables keep their types: no bucket holds more tokens
\* than the largest burst, and no request is in it that has not come yet
\* (check_rate_limit, cleanup_inactive_buckets, update_mcp_config).
THEOREM LimiterTypeCorrect == LimiterSpec => []LimiterTypeOK
<1>1. BucketsInv => LimiterTypeOK
  <2>. SUFFICES ASSUME BucketsInv PROVE LimiterTypeOK  OBVIOUS
  <2>1. ASSUME NEW b \in Buckets
        PROVE /\ buckets[b].exists \in BOOLEAN /\ buckets[b].last \in 0..clock
              /\ \E l \in Limits : buckets[b].tokens \in 0..l.burst
              /\ buckets[b].minute \subseteq buckets[b].hour
              /\ \A q \in buckets[b].hour \union admitted[b] : q[1] \in 0..clock
              /\ Numbered(admitted[b])
    <3>1. Kept(buckets[b], admitted[b]) /\ Burst(buckets[b]) /\ clock \in Nat
      BY LengthsOK DEF BucketsInv
    <3>2. buckets[b] \in Bucket /\ admitted[b] \in Requests  BY <3>1 DEF Kept
    <3>3. \E l \in Limits : buckets[b].tokens \in 0..l.burst
      BY <3>1, <3>2, LimitsOK DEF Burst, Bucket
    <3>4. \A q \in buckets[b].hour \union admitted[b] : q[1] \in Nat
      BY <3>2 DEF Bucket, Requests
    <3>5. \A q \in buckets[b].hour \union admitted[b] : q[1] \in 0..clock
      BY <3>1, <3>4 DEF Kept
    <3>6. buckets[b].exists \in BOOLEAN /\ buckets[b].last \in 0..clock
      BY <3>1, <3>2 DEF Bucket, Kept
    <3>. QED  BY <3>1, <3>3, <3>5, <3>6 DEF Kept
  <2>. QED  BY <2>1 DEF LimiterTypeOK, BucketsInv
<1>. QED  BY <1>1, BucketsAlways, PTL

\* No client gets more requests in a minute or in an hour than the largest
\* limit that was ever set allows, whatever the clean-up forgets and whenever
\* the limits change (check_rate_limit, cleanup_inactive_buckets,
\* update_mcp_config).
THEOREM WindowsCorrect == LimiterSpec => []WindowsHold
<1>1. BucketsInv => WindowsHold
  <2>. SUFFICES ASSUME BucketsInv, NEW b \in Buckets
                PROVE /\ \E l \in Allowances : During(admitted[b], Minute) <= l.minute
                      /\ \E l \in Allowances : During(admitted[b], Hour) <= l.hour
    BY DEF WindowsHold
  <2>. PICK k : k = buckets[b]  OBVIOUS
  <2>. PICK r : r = admitted[b]  OBVIOUS
  <2>1. Kept(k, r) /\ clock \in Nat /\ limit \in Limits  BY LengthsOK DEF BucketsInv
  <2>2. Recent(r, Hour) \subseteq k.hour /\ Recent(r, Minute) \subseteq k.minute
    <3>1. CASE k.exists  BY <2>1, <3>1 DEF Kept, Remembers
    <3>2. CASE ~k.exists
      <4>1. Recent(r, Hour) = {}  BY <2>1, <3>2 DEF Kept, Remembers
      <4>2. \A q \in r : q[1] \in Nat  BY <2>1 DEF Kept, Requests
      <4>3. Recent(r, Minute) \subseteq Recent(r, Hour)
        BY <4>2, <2>1, LengthsOK DEF Recent
      <4>. QED  BY <4>1, <4>3
    <3>. QED  BY <3>1, <3>2
  <2>3. IsFiniteSet(k.hour) /\ IsFiniteSet(k.minute)  BY <2>1, FS_Subset DEF Kept
  <2>4. During(r, Minute) <= Cardinality(k.minute) /\ During(r, Hour) <= Cardinality(k.hour)
    BY <2>2, <2>3, FS_Subset DEF During
  <2>5. /\ During(r, Minute) \in Nat /\ During(r, Hour) \in Nat
        /\ Cardinality(k.minute) \in Nat /\ Cardinality(k.hour) \in Nat
    BY <2>2, <2>3, FS_Subset, FS_CardinalityType DEF During
  <2>6. Allowances \subseteq Limits  BY <2>1 DEF Allowances
  <2>. QED  BY <2>1, <2>4, <2>5, <2>6, LimitsOK DEF Kept, Within
<1>. QED  BY <1>1, BucketsAlways, PTL

-----------------------------------------------------------------------------
\* A behaviour of MCBackend is one of each of its parts, which stutters or runs:
\* each keeps its types next to the others.
THEOREM BackendTypeCorrect == MCSpec => []BackendTypeOK
<1>1. MCInit => /\ Init /\ AdminInit /\ TunnelInit /\ SourcesInit
                /\ LimiterInit /\ RuntimeInit
  BY DEF MCInit
<1>2. [MCNext]_partVars => /\ [Next]_vars /\ [AdminNext]_adminVars /\ [TunnelNext]_tunnelVars
                           /\ [SourcesNext]_sourceVars /\ [LimiterNext]_limiterVars
                           /\ [RuntimeNext]_runtimeVars
  BY DEF MCNext, partVars
<1>3. MCSpec => /\ Spec /\ AdminSpec /\ TunnelSpec /\ SourcesSpec /\ LimiterSpec /\ RuntimeSpec
  BY <1>1, <1>2, PTL
     DEF MCSpec, Spec, AdminSpec, TunnelSpec, SourcesSpec, LimiterSpec, RuntimeSpec
<1>4. /\ AccessTypeOK /\ AdminTypeOK /\ TunnelTypeOK /\ SourcesTypeOK /\ LimiterTypeOK
      /\ RuntimeTypeOK
      => BackendTypeOK
  BY DEF BackendTypeOK
<1> QED
  BY <1>3, <1>4, AccessTypeCorrect, AdminTypeCorrect, TunnelTypeCorrect, SourcesTypeCorrect,
     LimiterTypeCorrect, RuntimeTypeCorrect, PTL
=============================================================================
