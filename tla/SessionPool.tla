----------------------------- MODULE SessionPool -----------------------------
(***************************************************************************)
(* sandbox/app/mcp_session_pool.py: sessions to external MCP servers,      *)
(* reused between the calls of passthrough tools, the discovery of tools   *)
(* and health checks, with mcp_client.py below it.                         *)
(*                                                                         *)
(* Under the lock of the pool nothing suspends: _PoolEntry.close calls     *)
(* MCPClient.close, a coroutine function, and does not await it, so the    *)
(* network is never used there.  Looking a session up is therefore one     *)
(* step, and so is failing together with the eviction that follows.  A     *)
(* call is suspended while it waits for the lock of its entry, while it    *)
(* initializes the session, while the request runs, and between attempts.  *)
(***************************************************************************)
EXTENDS FiniteSets, Naturals

CONSTANTS
    Calls,          \* calls that may be under way at the same time
    Keys,           \* URL and authentication headers (_pool_key)
    Entries,        \* identities of _PoolEntry objects; reused when garbage
    NoEntry, NoCall,
    MaxSize,        \* MAX_POOL_SIZE
    MaxAttempts     \* MAX_RETRIES

ASSUME PoolConstantsOK ==
    /\ NoEntry \notin Entries /\ NoCall \notin Calls
    /\ IsFiniteSet(Entries)
    /\ MaxSize \in Nat \ {0} /\ MaxAttempts \in Nat

VARIABLES
    pool,       \* pool[k]: _entries
    ent,        \* ent[e]: the entry: is its session initialized, is its HTTP
                \* client open, who holds its lock, is it over its age
    used,       \* the order of last_used_at: <<e, f>> when e was used before f
    call,       \* call[c]: where a call is
    runs        \* history: how often the tool was run by failed attempts of c

poolVars == <<pool, ent, used, call, runs>>
-----------------------------------------------------------------------------
\* discover_tools goes the way of call_tool.
CallKinds == {"call_tool", "health_check"}

Entry == [initialized : BOOLEAN, client : BOOLEAN, expired : BOOLEAN,
          holder : Calls \cup {NoCall}]

NewEntry == [initialized |-> FALSE, client |-> FALSE, expired |-> FALSE,
             holder |-> NoCall]

NoRequest == [pc |-> "idle", kind |-> "call_tool", key |-> CHOOSE k \in Keys : TRUE,
              entry |-> NoEntry, attempt |-> 0]

Pooled == {pool[k] : k \in Keys} \ {NoEntry}

InUse == {call[c].entry : c \in Calls} \ {NoEntry}

\* Objects nobody refers to: a new entry is any one of them.
Garbage == Entries \ (Pooled \cup InUse)

PoolInit ==
    /\ pool = [k \in Keys |-> NoEntry]
    /\ ent = [e \in Entries |-> NewEntry]
    /\ used = {}
    /\ call = [c \in Calls |-> NoRequest]
    /\ runs = [c \in Calls |-> 0]

\* Mutant of Closed: the HTTP client is closed as well.
ReallyClosed(x) == [x EXCEPT !.initialized = FALSE, !.expired = FALSE, !.client = FALSE]

\* _PoolEntry.close: the coroutine of MCPClient.close is made and dropped.  The
\* age of an entry outside the pool is not looked at any more.
Closed(x) == [x EXCEPT !.initialized = FALSE, !.expired = FALSE]

\* last_used_at of e is set to now; p is the pool, and the order of what is not
\* in it does not matter.
Touched(e, p) ==
    LET held == {p[k] : k \in Keys} \ {NoEntry}
        others == held \ {e}
    IN (used \cap (others \X others)) \cup (IF e \in held THEN others \X {e} ELSE {})

Remaining(p) ==
    LET held == {p[k] : k \in Keys} \ {NoEntry} IN used \cap (held \X held)

\* Mutant of Victims: the pool may grow.
NoVictims(p) == {}

\* _evict_lru: at capacity, the key of the least recently used entry.
Victims(p) ==
    LET live == {k \in Keys : p[k] # NoEntry}
    IN IF Cardinality(live) < MaxSize THEN {}
       ELSE {k \in live : \A l \in live \ {k} : <<p[k], p[l]>> \in used}

Usable(e) == e # NoEntry /\ ~ent[e].expired
-----------------------------------------------------------------------------
\* _get_or_create, at the beginning of an attempt r of call c: the entry of the
\* key if there is one not over its age; else a new one, for which the least
\* recently used one may have to go.
GetOrCreate(c, r) ==
    LET old == pool[r.key]
        dropped == IF old = NoEntry THEN {} ELSE {r.key}
        rest == [k \in Keys |-> IF k \in dropped THEN NoEntry ELSE pool[k]]
        gone == dropped \cup Victims(rest)
    IN \/ /\ Usable(old)
          /\ call' = [call EXCEPT ![c] = [r EXCEPT !.entry = old, !.pc = "lock"]]
          /\ UNCHANGED <<pool, ent, used>>
       \/ /\ ~Usable(old)
          /\ Garbage # {}
          /\ LET e == CHOOSE x \in Garbage : TRUE IN
               /\ pool' = [k \in Keys |-> CASE k = r.key -> e
                                            [] k # r.key /\ k \in gone -> NoEntry
                                            [] OTHER -> pool[k]]
               /\ ent' = [x \in Entries |->
                            CASE x = e -> NewEntry
                              [] x # e /\ \E k \in gone : pool[k] = x -> Closed(ent[x])
                              [] OTHER -> ent[x]]
               /\ used' = Touched(e, pool')
               /\ call' = [call EXCEPT ![c] = [r EXCEPT !.entry = e, !.pc = "lock"]]

\* A passthrough tool is called, or the backend asks for the tools or the health
\* of a source.
BeginCall(c) ==
    /\ call[c].pc = "idle"
    /\ \E k \in Keys, kind \in CallKinds :
         GetOrCreate(c, [NoRequest EXCEPT !.key = k, !.kind = kind])
    /\ UNCHANGED runs

\* The lock of the entry is had.  ensure_initialized opens the HTTP client if it
\* was never opened; a health check initializes in any case.
AcquireLock(c) ==
    LET e == call[c].entry
        ready == ent[e].initialized /\ call[c].kind # "health_check"
    IN /\ call[c].pc = "lock"
       /\ ent[e].holder = NoCall
       /\ ent' = [ent EXCEPT ![e].holder = c, ![e].client = @ \/ ~ready]
       /\ call' = [call EXCEPT ![c].pc = IF ready THEN "request" ELSE "initialize"]
       /\ used' = IF ready THEN Touched(e, pool) ELSE used
       /\ UNCHANGED <<pool, runs>>

\* The state of an entry whose lock is released.
Released(x) == [x EXCEPT !.holder = NoCall]

\* The session is initialized: the request follows, a health check is done.
InitializeSession(c) ==
    LET e == call[c].entry
        check == call[c].kind = "health_check"
        on == [ent[e] EXCEPT !.initialized = TRUE]
    IN /\ call[c].pc = "initialize"
       /\ ent' = [ent EXCEPT ![e] = IF check THEN Released(on) ELSE on]
       /\ call' = [call EXCEPT ![c] = IF check THEN NoRequest ELSE [@ EXCEPT !.pc = "request"]]
       /\ used' = IF check THEN used ELSE Touched(e, pool)
       /\ UNCHANGED <<pool, runs>>

\* The server answers, with a result or with a JSON-RPC error.
Answer(c) ==
    /\ call[c].pc = "request"
    /\ ent' = [ent EXCEPT ![call[c].entry] = Released(@)]
    /\ call' = [call EXCEPT ![c] = NoRequest]
    /\ runs' = [runs EXCEPT ![c] = 0]
    /\ UNCHANGED <<pool, used>>

\* Mutant of Evict: only what can not be retried is evicted.
EvictIfFinal(c, again) ==
    LET k == call[c].key
        old == pool[k]
        freed == [ent EXCEPT ![call[c].entry] = Released(@)]
    IN /\ pool' = IF again THEN pool ELSE [pool EXCEPT ![k] = NoEntry]
       /\ ent' = IF old = NoEntry \/ again THEN freed ELSE [freed EXCEPT ![old] = Closed(@)]

\* The lock of the entry is released and _evict removes what the pool holds
\* under the key by now, which need not be the entry that failed.
Evict(c, again) ==
    LET k == call[c].key
        old == pool[k]
        freed == [ent EXCEPT ![call[c].entry] = Released(@)]
    IN /\ pool' = [pool EXCEPT ![k] = NoEntry]
       /\ ent' = IF old = NoEntry THEN freed ELSE [freed EXCEPT ![old] = Closed(@)]

\* The request or the initialization fails; the tool may have run although no
\* answer came.  _is_transient_error decides about another attempt (again); a
\* health check makes none.
CallFails(c) ==
    /\ call[c].pc \in {"initialize", "request"}
    /\ \E again \in BOOLEAN :
         /\ again => call[c].attempt < MaxAttempts /\ call[c].kind # "health_check"
         /\ Evict(c, again)
         /\ call' = [call EXCEPT ![c] = IF again THEN [@ EXCEPT !.pc = "backoff"]
                                        ELSE NoRequest]
         /\ \E ran \in IF call[c].pc = "request" THEN {0, 1} ELSE {0} :
              runs' = [runs EXCEPT ![c] = IF again THEN @ + ran ELSE 0]
    /\ used' = Remaining(pool')

\* Mutant of WakeUpCall: the attempt is not counted.
WakeUpUncounted(c) ==
    /\ call[c].pc = "backoff"
    /\ GetOrCreate(c, call[c])
    /\ UNCHANGED runs

\* asyncio.sleep(delay) is over: the next attempt.
WakeUpCall(c) ==
    /\ call[c].pc = "backoff"
    /\ GetOrCreate(c, [call[c] EXCEPT !.attempt = @ + 1])
    /\ UNCHANGED runs

\* Mutant of CancelCall: the lock of the entry stays taken.
CancelHolding(c) ==
    /\ call[c].pc \notin {"idle"}
    /\ call' = [call EXCEPT ![c] = NoRequest]
    /\ runs' = [runs EXCEPT ![c] = 0]
    /\ UNCHANGED <<pool, used, ent>>

\* The request is cancelled, or a health check raises something that is no
\* MCPClientError: the lock is released, nothing is evicted.
CancelCall(c) ==
    /\ call[c].pc # "idle"
    /\ ent' = [e \in Entries |-> IF ent[e].holder = c THEN Released(ent[e]) ELSE ent[e]]
    /\ call' = [call EXCEPT ![c] = NoRequest]
    /\ runs' = [runs EXCEPT ![c] = 0]
    /\ UNCHANGED <<pool, used>>

\* Time passes: an entry gets over SESSION_MAX_AGE.
Expire(e) ==
    /\ e \in Pooled
    /\ ~ent[e].expired
    /\ ent' = [ent EXCEPT ![e].expired = TRUE]
    /\ UNCHANGED <<pool, used, call, runs>>

CallStep(c) == AcquireLock(c) \/ InitializeSession(c) \/ Answer(c) \/ CallFails(c) \/ WakeUpCall(c)

PoolNext ==
    \/ \E c \in Calls : BeginCall(c) \/ CallStep(c) \/ CancelCall(c)
    \/ \E e \in Entries : Expire(e)

PoolSpec == PoolInit /\ [][PoolNext]_poolVars

\* Every request has a timeout and every sleep ends; the lock of an entry is
\* handed to those who wait in the order they came.
PoolFairness == \A c \in Calls :
    /\ WF_poolVars(InitializeSession(c) \/ Answer(c) \/ CallFails(c) \/ WakeUpCall(c))
    /\ SF_poolVars(AcquireLock(c))

FairPoolSpec == PoolSpec /\ PoolFairness
-----------------------------------------------------------------------------
(* Properties.                                                              *)

\* The pool never holds more than MAX_POOL_SIZE sessions, nor one session under
\* two keys: what is looked up with one user's headers is not another's.
PoolBounded ==
    /\ Cardinality({k \in Keys : pool[k] # NoEntry}) <= MaxSize
    /\ \A k, l \in Keys : pool[k] = pool[l] /\ pool[k] # NoEntry => k = l
    /\ \A c \in Calls : \A k \in Keys :
         call[c].entry = pool[k] /\ pool[k] # NoEntry => call[c].key = k

\* "Broken session eviction": an attempt that failed leaves no way back to its
\* session, whoever replaced it or evicted it meanwhile; the retry runs on
\* another one.
FailedNotReused ==
    \A c \in Calls : call[c].pc = "backoff" => call[c].entry \notin Pooled

\* Before its last attempt a call has run the tool at most once per attempt, so
\* that a tool is run at most MAX_RETRIES + 1 times for one call.
RunsBounded ==
    \A c \in Calls :
        /\ runs[c] <= call[c].attempt + (IF call[c].pc = "backoff" THEN 1 ELSE 0)
        /\ runs[c] <= MaxAttempts

\* Nobody's expiry, eviction or failure takes the HTTP client away from a call
\* that is using it.
NotCutOff ==
    [][\A c \in Calls : call[c].pc \in {"initialize", "request"} =>
         ent'[call[c].entry].client]_poolVars

\* A call ends, whatever it has to wait for.
CallsEnd == \A c \in Calls : (call[c].pc # "idle") ~> (call[c].pc = "idle")
=============================================================================
