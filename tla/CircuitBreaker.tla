--------------------------- MODULE CircuitBreaker ---------------------------
(***************************************************************************)
(* core/retry.py: the circuit breaker all calls to the sandbox share       *)
(* (SandboxClient), and retry_async, which drives it.                      *)
(*                                                                         *)
(* The critical sections of the breaker contain no await, so each of its   *)
(* methods is one step, together with the return of the call it records.   *)
(* What interleaves are the requests: each is suspended while its HTTP     *)
(* call runs and while it sleeps between two attempts.                     *)
(***************************************************************************)
EXTENDS Naturals

CONSTANTS
    Requests,           \* requests that may be under way at the same time
    FailureThreshold,   \* CircuitBreakerConfig.failure_threshold
    SuccessThreshold,   \* CircuitBreakerConfig.success_threshold
    Timeout,            \* CircuitBreakerConfig.timeout, in ticks
    MaxRetries,         \* RetryConfig.max_retries
    Never,              \* last_failure_time is None
    MaxFailures         \* bound: failure_count is not counted beyond it

ASSUME BreakerConstantsOK ==
    /\ Requests # {}
    /\ FailureThreshold \in Nat \ {0}
    /\ SuccessThreshold \in Nat \ {0}
    /\ Timeout \in Nat \ {0}
    /\ MaxRetries \in Nat
    /\ Never \notin Nat
    /\ MaxFailures \in Nat /\ MaxFailures >= FailureThreshold

VARIABLES
    b,          \* the CircuitBreakerState
    req,        \* req[r]: where request r is, and its attempt number
    exhausted   \* history: requests that failed for good since the last
                \* success, or since the circuit closed

breakerVars == <<b, req, exhausted>>
-----------------------------------------------------------------------------
States == {"closed", "open", "half_open"}

\* age: the time since last_failure_time, which matters up to the timeout.
Breaker == [state : States, failures : 0 .. MaxFailures,
            successes : 0 .. SuccessThreshold, age : {Never} \cup (0 .. Timeout)]

Fresh == [state |-> "closed", failures |-> 0, successes |-> 0, age |-> Never]

Elapsed(x) == x.age # Never /\ x.age >= Timeout

\* _check_state lets a request through unless the circuit is open and its
\* timeout has not elapsed; the one that finds it elapsed half-opens it.
Refuses(x) == x.state = "open" /\ ~Elapsed(x)

\* Mutant of Checked: the successes of an earlier probe are kept.
CheckedKeepingSuccesses(x) == IF x.state = "open" THEN [x EXCEPT !.state = "half_open"] ELSE x

Checked(x) == IF x.state = "open" THEN [x EXCEPT !.state = "half_open", !.successes = 0] ELSE x

\* record_success
RecordSuccess(x) ==
    CASE x.state = "half_open" /\ x.successes + 1 >= SuccessThreshold ->
            [x EXCEPT !.state = "closed", !.successes = @ + 1, !.failures = 0]
      [] x.state = "half_open" /\ x.successes + 1 < SuccessThreshold ->
            [x EXCEPT !.successes = @ + 1]
      [] x.state = "closed" -> [x EXCEPT !.failures = 0]
      [] x.state = "open" -> x

Bump(n) == IF n < MaxFailures THEN n + 1 ELSE n

\* Mutant of RecordFailure: a failure while open starts the timer again.
RecordFailureAnyTime(x) ==
    [x EXCEPT !.failures = Bump(@), !.age = 0,
              !.state = IF @ = "half_open" \/ Bump(x.failures) >= FailureThreshold
                        THEN "open" ELSE @]

\* Mutant of RecordFailure: the time of the failure is not recorded.
RecordFailureNoTime(x) ==
    IF x.state = "open" THEN x
    ELSE [x EXCEPT !.failures = Bump(@),
                   !.state = IF @ = "half_open" \/ Bump(x.failures) >= FailureThreshold
                             THEN "open" ELSE @]

\* record_failure: ignored while open, so that the timeout runs from the
\* opening.
RecordFailure(x) ==
    IF x.state = "open" THEN x
    ELSE [x EXCEPT !.failures = Bump(@), !.age = 0,
                   !.state = IF @ = "half_open" \/ Bump(x.failures) >= FailureThreshold
                             THEN "open" ELSE @]
-----------------------------------------------------------------------------
RequestPcs == {"idle", "check", "call", "backoff"}

BreakerInit ==
    /\ b = Fresh
    /\ req = [r \in Requests |-> [pc |-> "idle", attempt |-> 0]]
    /\ exhausted = 0

Move(r, pc) == req' = [req EXCEPT ![r].pc = pc]

End(r) == req' = [req EXCEPT ![r] = [pc |-> "idle", attempt |-> 0]]

\* A method of SandboxClient calls retry_async.
Start(r) ==
    /\ req[r].pc = "idle"
    /\ Move(r, "check")
    /\ UNCHANGED <<b, exhausted>>

Refuse(r) ==
    /\ req[r].pc = "check"
    /\ Refuses(b)
    /\ End(r)
    /\ UNCHANGED <<b, exhausted>>

LetThrough(r) ==
    /\ req[r].pc = "check"
    /\ ~Refuses(b)
    /\ b' = Checked(b)
    /\ Move(r, "call")
    /\ UNCHANGED exhausted

\* The call returns; what the sandbox answered does not matter, an HTTP error
\* status is a success too.
Succeed(r) ==
    /\ req[r].pc = "call"
    /\ b' = RecordSuccess(b)
    /\ exhausted' = IF b'.state = "closed" THEN 0 ELSE exhausted
    /\ End(r)

\* Mutant of Retry: every attempt that fails is recorded.
RetryRecording(r) ==
    /\ req[r].pc = "call"
    /\ req[r].attempt < MaxRetries
    /\ b' = RecordFailure(b)
    /\ Move(r, "backoff")
    /\ UNCHANGED exhausted

\* The call raises an exception that is retried: the request sleeps.
Retry(r) ==
    /\ req[r].pc = "call"
    /\ req[r].attempt < MaxRetries
    /\ Move(r, "backoff")
    /\ UNCHANGED <<b, exhausted>>

WakeUp(r) ==
    /\ req[r].pc = "backoff"
    /\ req' = [req EXCEPT ![r] = [pc |-> "check", attempt |-> @.attempt + 1]]
    /\ UNCHANGED <<b, exhausted>>

\* The last attempt raises, or any attempt an exception that is not retried.
Fail(r) ==
    /\ req[r].pc = "call"
    /\ b' = RecordFailure(b)
    /\ exhausted' = IF b.state = "closed" THEN Bump(exhausted) ELSE exhausted
    /\ End(r)

\* CancelledError is no Exception: nothing is recorded.
Cancel(r) ==
    /\ req[r].pc \in {"call", "backoff"}
    /\ End(r)
    /\ UNCHANGED <<b, exhausted>>

\* The admin resets the circuit.
Reset ==
    /\ b' = Fresh
    /\ exhausted' = 0
    /\ UNCHANGED req

Tick ==
    /\ b.age # Never /\ b.age < Timeout
    /\ b' = [b EXCEPT !.age = @ + 1]
    /\ UNCHANGED <<req, exhausted>>

Step(r) == \/ Start(r) \/ Refuse(r) \/ LetThrough(r) \/ Succeed(r)
           \/ Retry(r) \/ WakeUp(r) \/ Fail(r) \/ Cancel(r)

BreakerNext == (\E r \in Requests : Step(r)) \/ Reset \/ Tick

BreakerSpec == BreakerInit /\ [][BreakerNext]_breakerVars

\* Time passes; clients keep calling, and a request that was let in at the event
\* loop gets its turn.  No call is obliged to return.
BreakerFairness ==
    /\ WF_breakerVars(Tick)
    /\ \A r \in Requests :
         WF_breakerVars(Start(r)) /\ WF_breakerVars(Refuse(r) \/ LetThrough(r))

FairBreakerSpec == BreakerSpec /\ BreakerFairness
-----------------------------------------------------------------------------
(* Properties.                                                              *)

BreakerTypeOK ==
    /\ b \in Breaker
    /\ req \in [Requests -> [pc : RequestPcs, attempt : 0 .. MaxRetries]]
    /\ exhausted \in 0 .. MaxFailures

\* While the circuit is closed its failure count is the number of requests that
\* failed for good in a row - however many attempts each made ("Record a single
\* failure ... after all retries are exhausted") - and it never stays closed with
\* the threshold reached.
CountsRequests ==
    b.state = "closed" => b.failures = exhausted /\ b.failures < FailureThreshold

\* Requests that were under way when the circuit opened do not put the recovery
\* off, whatever becomes of them ("don't reset the recovery timer").
TimerNotExtended ==
    [][b.state = "open" /\ b'.state = "open" => b'.age >= b.age]_breakerVars

\* An open circuit always has a failure time to count its timeout from; with
\* clients calling it does not stay open.
Recovers == (b.state = "open") ~> (b.state # "open")
=============================================================================
