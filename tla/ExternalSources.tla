-------------------------- MODULE ExternalSources --------------------------
(***************************************************************************)
(* External MCP sources that authenticate with OAuth: the flow an admin    *)
(* starts and the browser ends, the tokens it stores on the source, and    *)
(* the handlers that refresh an expired access token before they use the   *)
(* source (backend/app/services/mcp_oauth_client.py,                       *)
(* external_mcp_source.py, api/external_mcp_sources.py).                   *)
(*                                                                         *)
(* The authorization server is modelled from how it is used: it issues     *)
(* refresh tokens, honours some of them, and, when it rotates them, stops  *)
(* honouring the one that was used.  A refreshed token is flushed into the *)
(* open transaction of the handler that needed it: whether it is kept is   *)
(* decided by how that handler ends.  Refresh tokens are numbered as they  *)
(* are issued, and stand for the access token issued with them.            *)
(***************************************************************************)
EXTENDS Naturals, FiniteSets

CONSTANTS Sources, Flows,   \* the sources and the states of pending flows
          Users,            \* the HTTP requests that can be open together
          Purposes,         \* why a handler uses a source: discover, health, start
          MaxIssued,        \* bound: the refresh tokens ever issued
          MaxUses,          \* bound: the requests
          MaxLosses,        \* bound: lost answers, failed commits and restarts
          Nobody

ASSUME SourceConstantsOK ==
    /\ {MaxIssued, MaxUses, MaxLosses} \subseteq Nat
    /\ Purposes \subseteq {"discover", "health", "start"}
    /\ Nobody \notin Users \union Sources

VARIABLES tokens,     \* committed oauth_tokens_encrypted: 0 is NULL, Gone is no row
          expired,    \* the sources whose access token is past its expiry
          honoured,   \* the refresh tokens the authorization server honours
          openFlows,  \* _pending_flows: the source of each state
          sourceLock, \* the request that has written the row of a source
          using,      \* what each request is doing
          issuedTokens, uses, losses,   \* what was used of the bounds
          exchanged,  \* history: how often the state of a flow was accepted
          stranded    \* history: the sources whose refreshed tokens were rolled back
                      \* because the external server described a tool badly

sourceVars == <<tokens, expired, honoured, openFlows, sourceLock, using, issuedTokens,
                uses, losses, exchanged, stranded>>

Gone == MaxIssued + 1
NotUsing == [op |-> "none", step |-> "none", source |-> Nobody, read |-> 0, new |-> 0]

SourcesInit ==
    /\ tokens = [s \in Sources |-> 0] /\ expired = {} /\ honoured = {}
    /\ openFlows = [f \in Flows |-> Nobody] /\ sourceLock = [s \in Sources |-> Nobody]
    /\ using = [u \in Users |-> NotUsing]
    /\ issuedTokens = 0 /\ uses = 0 /\ losses = 0
    /\ exchanged = [f \in Flows |-> 0] /\ stranded = {}

BeginUse(u, rec) ==
    /\ using[u] = NotUsing /\ uses < MaxUses
    /\ uses' = uses + 1
    /\ using' = [using EXCEPT ![u] = rec]

On(u, op, step) == using[u].op = op /\ using[u].step = step
GoOn(u, step) == using' = [using EXCEPT ![u].step = step]
\* The transaction ends: its row lock goes with it.
EndUse(u) ==
    /\ using' = [using EXCEPT ![u] = NotUsing]
    /\ sourceLock' = [s \in Sources |-> IF sourceLock[s] = u THEN Nobody ELSE sourceLock[s]]

-----------------------------------------------------------------------------
(* The flow.                                                               *)

\* oauth_start: the metadata is discovered and a client registered, over the
\* network, ...
OauthStart(u, s) ==
    /\ tokens[s] # Gone
    /\ BeginUse(u, [NotUsing EXCEPT !.op = "flow", !.step = "discover", !.source = s])
    /\ UNCHANGED <<tokens, expired, honoured, openFlows, sourceLock, issuedTokens, losses, exchanged, stranded>>

\* ... and then the flow is stored under a state that is new, ...
StoreFlow(u, f) ==
    /\ On(u, "flow", "discover") /\ openFlows[f] = Nobody /\ exchanged[f] = 0
    /\ openFlows' = [openFlows EXCEPT ![f] = using[u].source]
    /\ EndUse(u)
    /\ UNCHANGED <<tokens, expired, honoured, issuedTokens, uses, losses, exchanged, stranded>>

\* ... unless the discovery or the registration fails: 502 or 400.
DiscoveryFails(u) ==
    /\ On(u, "flow", "discover")
    /\ EndUse(u)
    /\ UNCHANGED <<tokens, expired, honoured, openFlows, issuedTokens, uses, losses, exchanged, stranded>>

\* _cleanup_expired_flows, at the next start or exchange.
FlowExpires(f) ==
    /\ openFlows[f] # Nobody
    /\ openFlows' = [openFlows EXCEPT ![f] = Nobody]
    /\ UNCHANGED <<tokens, expired, honoured, sourceLock, using, issuedTokens, uses, losses, exchanged, stranded>>

\* exchange_code takes the flow out before it asks for the tokens; a state that is
\* not there is refused.
ExchangeCode(u, f) ==
    /\ openFlows[f] # Nobody
    /\ BeginUse(u, [NotUsing EXCEPT !.op = "exchange", !.step = "post", !.source = openFlows[f]])
    /\ openFlows' = [openFlows EXCEPT ![f] = Nobody]
    /\ exchanged' = [exchanged EXCEPT ![f] = @ + 1]
    /\ UNCHANGED <<tokens, expired, honoured, sourceLock, issuedTokens, losses, stranded>>

Issue(u, spent, step) ==
    /\ issuedTokens < MaxIssued
    /\ issuedTokens' = issuedTokens + 1
    /\ honoured' = (honoured \ spent) \union {issuedTokens'}
    /\ using' = [using EXCEPT ![u].new = issuedTokens', ![u].step = step]

CodeAccepted(u) ==
    /\ On(u, "exchange", "post")
    /\ Issue(u, {}, "store")
    /\ UNCHANGED <<tokens, expired, openFlows, sourceLock, uses, losses, exchanged, stranded>>

CodeRefused(u) ==
    /\ On(u, "exchange", "post")
    /\ EndUse(u)
    /\ UNCHANGED <<tokens, expired, honoured, openFlows, issuedTokens, uses, losses, exchanged, stranded>>

\* oauth_exchange stores the tokens on the source of the flow, and commits.
StoreTokens(u) ==
    LET s == using[u].source IN
    /\ On(u, "exchange", "store") /\ tokens[s] # Gone /\ sourceLock[s] = Nobody
    /\ tokens' = [tokens EXCEPT ![s] = using[u].new]
    /\ expired' = expired \ {s} /\ stranded' = stranded \ {s}
    /\ EndUse(u)
    /\ UNCHANGED <<honoured, openFlows, issuedTokens, uses, losses, exchanged>>

SourceGone(u) ==
    /\ On(u, "exchange", "store") /\ tokens[using[u].source] = Gone
    /\ EndUse(u)
    /\ UNCHANGED <<tokens, expired, honoured, openFlows, issuedTokens, uses, losses, exchanged, stranded>>

-----------------------------------------------------------------------------
(* The use of a source: _build_auth_headers and what follows it.           *)

\* The row is read; tokens that are past their expiry are refreshed first.
UseSource(u, s, purpose) ==
    /\ tokens[s] # Gone
    /\ BeginUse(u, [op |-> purpose, source |-> s, read |-> tokens[s], new |-> 0,
                 step |-> IF tokens[s] # 0 /\ s \in expired THEN "refresh" ELSE "call"])
    /\ UNCHANGED <<tokens, expired, honoured, openFlows, sourceLock, issuedTokens, losses, exchanged, stranded>>

\* refresh_access_token: the server honours the token and rotates it, ...
RefreshAnswered(u) ==
    /\ using[u].step = "refresh" /\ using[u].read \in honoured
    /\ Issue(u, {using[u].read}, "flush")
    /\ UNCHANGED <<tokens, expired, openFlows, sourceLock, uses, losses, exchanged, stranded>>

\* ... or refuses, or its answer is lost: the old access token is used.
RefreshRefused(u) ==
    /\ using[u].step = "refresh" /\ using[u].read \notin honoured
    /\ GoOn(u, "call")
    /\ UNCHANGED <<tokens, expired, honoured, openFlows, sourceLock, issuedTokens, uses, losses, exchanged, stranded>>

RefreshLost(u) ==
    /\ using[u].step = "refresh" /\ using[u].read \in honoured /\ losses < MaxLosses
    /\ losses' = losses + 1
    /\ honoured' = honoured \ {using[u].read}
    /\ GoOn(u, "call")
    /\ UNCHANGED <<tokens, expired, openFlows, sourceLock, issuedTokens, uses, exchanged, stranded>>

\* update_tokens flushes the row into the transaction of the handler.
FlushTokens(u) ==
    LET s == using[u].source IN
    /\ using[u].step = "flush" /\ sourceLock[s] = Nobody /\ tokens[s] # Gone
    /\ sourceLock' = [sourceLock EXCEPT ![s] = u]
    /\ GoOn(u, "call")
    /\ UNCHANGED <<tokens, expired, honoured, openFlows, issuedTokens, uses, losses, exchanged, stranded>>

FlushGone(u) ==
    /\ using[u].step = "flush" /\ tokens[using[u].source] = Gone
    /\ EndUse(u)
    /\ UNCHANGED <<tokens, expired, honoured, openFlows, issuedTokens, uses, losses, exchanged, stranded>>

CommitTokens(u) ==
    LET s == using[u].source IN
    IF sourceLock[s] = u
    THEN /\ tokens' = [tokens EXCEPT ![s] = using[u].new]
         /\ expired' = expired \ {s} /\ stranded' = stranded \ {s}
    ELSE UNCHANGED <<tokens, expired, stranded>>

\* The sandbox call worked, and so did what the handler makes of its answer.
CallWorks(u) ==
    /\ using[u].step = "call"
    /\ CommitTokens(u)
    /\ EndUse(u)
    /\ UNCHANGED <<honoured, openFlows, issuedTokens, uses, losses, exchanged>>

\* The external server has described a tool without a name, or badly.  The handler
\* of the admin API catches a RuntimeError only, and get_db rolls back what was
\* flushed; the management tool catches everything and commits (CallWorks).
AnswerMalformed(u) ==
    /\ On(u, "discover", "call")
    /\ stranded' = stranded \union {s \in Sources : sourceLock[s] = u}
    /\ EndUse(u)
    /\ UNCHANGED <<tokens, expired, honoured, openFlows, issuedTokens, uses, losses, exchanged>>

\* The sandbox call failed.  discover_tools and health_check_source commit the
\* status of the source, and the tokens with it; start_server raises.
KeepsHealth(purpose) == purpose = "health"    \* mutant of Keeps

Keeps(purpose) == purpose \in {"discover", "health"}

CallFails(u) ==
    /\ using[u].step = "call"
    /\ IF Keeps(using[u].op) THEN CommitTokens(u) ELSE UNCHANGED <<tokens, expired, stranded>>
    /\ EndUse(u)
    /\ UNCHANGED <<honoured, openFlows, issuedTokens, uses, losses, exchanged>>

\* A commit that fails, or a request that is cut off, is rolled back.
RollBack(u) ==
    /\ using[u].step = "call" /\ losses < MaxLosses
    /\ losses' = losses + 1
    /\ EndUse(u)
    /\ UNCHANGED <<tokens, expired, honoured, openFlows, issuedTokens, uses, exchanged, stranded>>

-----------------------------------------------------------------------------
\* delete_source waits for whoever has written the row.
DeleteSource(s) ==
    /\ tokens[s] # Gone /\ sourceLock[s] = Nobody
    /\ tokens' = [tokens EXCEPT ![s] = Gone] /\ expired' = expired \ {s}
    /\ UNCHANGED <<honoured, openFlows, sourceLock, using, issuedTokens, uses, losses, exchanged, stranded>>

AccessExpires(s) ==
    /\ tokens[s] \notin {0, Gone} /\ s \notin expired
    /\ expired' = expired \union {s}
    /\ UNCHANGED <<tokens, honoured, openFlows, sourceLock, using, issuedTokens, uses, losses, exchanged, stranded>>

\* The pending flows are in memory; open transactions are rolled back.
RestartBackend ==
    /\ losses < MaxLosses
    /\ losses' = losses + 1
    /\ openFlows' = [f \in Flows |-> Nobody]
    /\ using' = [u \in Users |-> NotUsing] /\ sourceLock' = [s \in Sources |-> Nobody]
    /\ UNCHANGED <<tokens, expired, honoured, issuedTokens, uses, exchanged, stranded>>

UserStep(u) ==
    \/ \E s \in Sources : OauthStart(u, s)
    \/ \E f \in Flows : StoreFlow(u, f) \/ ExchangeCode(u, f)
    \/ DiscoveryFails(u) \/ CodeAccepted(u) \/ CodeRefused(u) \/ StoreTokens(u) \/ SourceGone(u)
    \/ \E s \in Sources, purpose \in Purposes : UseSource(u, s, purpose)
    \/ RefreshAnswered(u) \/ RefreshRefused(u) \/ RefreshLost(u) \/ FlushTokens(u) \/ FlushGone(u)
    \/ CallWorks(u) \/ AnswerMalformed(u) \/ CallFails(u) \/ RollBack(u)

SourcesNext ==
    \/ \E u \in Users : UserStep(u)
    \/ \E f \in Flows : FlowExpires(f)
    \/ \E s \in Sources : DeleteSource(s) \/ AccessExpires(s)
    \/ RestartBackend

SourcesSpec == SourcesInit /\ [][SourcesNext]_sourceVars

-----------------------------------------------------------------------------
(* Every variable has its type. *)
SourcesTypeOK ==
    /\ tokens \in [Sources -> 0..Gone] /\ expired \subseteq Sources /\ stranded \subseteq Sources
    /\ honoured \subseteq 1..issuedTokens /\ issuedTokens \in 0..MaxIssued
    /\ openFlows \in [Flows -> Sources \union {Nobody}]
    /\ sourceLock \in [Sources -> Users \union {Nobody}]
    /\ \A s \in Sources : sourceLock[s] # Nobody => using[sourceLock[s]].source = s
    /\ uses \in 0..MaxUses /\ losses \in 0..MaxLosses
    /\ using \in [Users ->
          [op : {"none", "flow", "exchange"} \union Purposes,
           step : {"none", "discover", "post", "store", "refresh", "flush", "call"},
           source : Sources \union {Nobody}, read : 0..MaxIssued, new : 0..MaxIssued]]

(* A state of a flow is accepted at most once, whatever callbacks are      *)
(* repeated and however requests overlap, and with nobody at work and no   *)
(* fault the stored refresh token is one the authorization server still    *)
(* honours: overlapping uses of a source whose server rotates its tokens,  *)
(* and uses whose call fails, never cost the source its grant.  It says    *)
(* nothing of a source that lost it to a tool it described badly itself.   *)
GrantKept ==
    /\ \A f \in Flows : exchanged[f] <= 1
    /\ (losses = 0 /\ \A u \in Users : using[u] = NotUsing)
          => \A s \in Sources \ stranded : tokens[s] \notin {0, Gone} => tokens[s] \in honoured
=============================================================================
