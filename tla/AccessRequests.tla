--------------------------- MODULE AccessRequests ---------------------------
(***************************************************************************)
(* The requests of tools for network hosts and Python modules, and the     *)
(* allowlist derived from the approved ones: ApprovalService               *)
(* (services/approval.py), the admin's own additions and removals          *)
(* (api/servers.py, api/settings.py), and the cascade when a tool is       *)
(* deleted.                                                                *)
(*                                                                         *)
(* Both tables have the same life cycle; "kind" says which one a behaviour *)
(* is about: the network requests of one server with server.allowed_hosts, *)
(* or the module requests with global_config.allowed_modules.  A handler   *)
(* changes request rows, recomputes the whole list from the approved rows  *)
(* its transaction sees, and writes the list if it differs from the one it *)
(* LOADED; transactions are READ COMMITTED and wait for each other's row   *)
(* locks only (see ToolApproval).                                          *)
(***************************************************************************)
EXTENDS Integers, FiniteSets

CONSTANTS
    Ids,            \* ids of request rows; never used again
    Tools,          \* tools whose authors may request
    Admin,          \* tool_id IS NULL
    Groups,         \* hosts, or top-level packages
    Ports,          \* ports a tool may ask for
    Forms,          \* the forms of a package's name that are asked for
    Handlers,       \* concurrently running requests to the API
    NoHandler,
    Kinds,          \* the tables to consider
    Overlap         \* may handlers overlap?

AllKinds == {"network", "module"}
AllForms == {"base", "dashed", "dotted"}

ASSUME AccessConstantsOK ==
    /\ Admin \notin Tools
    /\ NoHandler \notin Handlers
    /\ Ports \cap {"any"} = {}
    /\ Forms \subseteq AllForms
    /\ Kinds \subseteq AllKinds /\ Kinds # {}
    /\ Overlap \in BOOLEAN

VARIABLES
    kind,           \* which table this behaviour is about
    tools,          \* tools not deleted
    requests,       \* the committed request rows
    cache,          \* the committed allowed_hosts / allowed_modules
    rowLock,        \* rowLock[i]: whose transaction wrote row i
    cacheLock,      \* whose transaction wrote the cache's row
    h,              \* what the session of each handler holds
    everApproved    \* history: resources a committed row ever approved

vars == <<kind, tools, requests, cache, rowLock, cacheLock, h, everApproved>>
-----------------------------------------------------------------------------
(* What may be asked for: a host with a port or with any, a package by its  *)
(* top-level name ("paho"), its PyPI name ("paho-mqtt") or a submodule      *)
(* ("paho.mqtt.client"), which both import as the top-level one.            *)

Variants == IF kind = "network" THEN Ports \cup {"any"} ELSE Forms
Resources == Groups \X Variants

\* sync_allowed_hosts: an approval for any port supersedes those for a port.
\* sync_allowed_modules: the names a package is imported by are allowed too.
Entries(k, approved) ==
    IF k = "network"
    THEN {r \in approved : r[2] = "any" \/ <<r[1], "any">> \notin approved}
    ELSE approved \cup {<<r[1], "base">> : r \in approved}
                  \cup {<<r[1], "underscored">> : r \in {a \in approved : a[2] = "dashed"}}

\* Is what is asked for already approved?  A dotted approval covers only itself.
Covered(r, approved) ==
    \/ r \in approved
    \/ kind = "network" /\ <<r[1], "any">> \in approved
    \/ kind = "module" /\ <<r[1], "base">> \in approved
    \/ kind = "module" /\ r[2] # "dashed" /\ <<r[1], "dashed">> \in approved

Unused == [status |-> "unused"]
Deleted == [status |-> "deleted"]
NewRequest(r, t, s) == [status |-> s, res |-> r, tool |-> t]

Exists(x) == x.status \in {"pending", "approved", "rejected"}

Approved(rows) == {x.res : x \in {y \in {rows[i] : i \in Ids} : y.status = "approved"}}

\* The partial unique index over pending requests.
SameKey(x, y) == /\ x.status = "pending" /\ y.status = "pending"
                 /\ x.res = y.res /\ x.tool = y.tool
-----------------------------------------------------------------------------
\* change: the rows a handler writes; syncs: does it recompute the list?
\* loaded: the list its session loaded; entries: the list it computed;
\* wrote: has it written the list?  alone (history): has nobody else committed
\* since it began?
Idle == [pc |-> "idle", change |-> <<>>, syncs |-> FALSE, loaded |-> {}, entries |-> {},
         wrote |-> FALSE, alone |-> TRUE]

Init ==
    /\ kind \in Kinds
    /\ tools = Tools
    /\ requests = [i \in Ids |-> Unused]
    /\ cache = {}
    /\ rowLock = [i \in Ids |-> NoHandler]
    /\ cacheLock = NoHandler
    /\ h = [p \in Handlers |-> Idle]
    /\ everApproved = {}

Working == {p \in Handlers : h[p].pc # "idle"}

\* A handler that has loaded what it needs and passed its checks.
Begin(p, change, syncs) ==
    /\ h[p].pc = "idle"
    /\ Overlap \/ Working = {}
    /\ h' = [h EXCEPT ![p] = [Idle EXCEPT !.pc = "flush", !.change = change,
                                          !.syncs = syncs, !.loaded = cache]]
    /\ UNCHANGED <<kind, tools, requests, cache, rowLock, cacheLock, everApproved>>

One(i, x) == [j \in {i} |-> x]

Fresh(i) == requests[i] = Unused /\ \A p \in Handlers : i \notin DOMAIN h[p].change

\* create_module_request, create_network_access_request: not if covered, nor
\* if this tool was refused the same thing before.
CreateRequest(p, i, r, t) ==
    /\ t \in tools
    /\ Fresh(i)
    /\ ~Covered(r, Approved(requests))
    /\ \A j \in Ids : requests[j] # NewRequest(r, t, "rejected")
    /\ Begin(p, One(i, NewRequest(r, t, "pending")), FALSE)

SetStatus(p, i, from, to, syncs) ==
    /\ requests[i].status = from
    /\ Begin(p, One(i, [requests[i] EXCEPT !.status = to]), syncs)

\* approve_*_request, also as an item of a bulk action
ApproveRequest(p, i) == SetStatus(p, i, "pending", "approved", TRUE)

\* reject_*_request, also as an item of a bulk action
RejectRequest(p, i) == SetStatus(p, i, "pending", "rejected", FALSE)

\* Mutant of RevokeRequest: the list is not recomputed.
RevokeWithoutSync(p, i) == SetStatus(p, i, "approved", "pending", FALSE)

\* revoke_*_request
RevokeRequest(p, i) == SetStatus(p, i, "approved", "pending", TRUE)

\* delete_*_request
DeleteRequest(p, i) ==
    /\ requests[i].status \in {"pending", "rejected"}
    /\ Begin(p, One(i, Deleted), FALSE)

\* The admin's own approved rows for r.  The host is looked up whatever the port.
AdminRows(r) == {i \in Ids :
    /\ requests[i].status = "approved"
    /\ requests[i].tool = Admin
    /\ IF kind = "network" THEN requests[i].res[1] = r[1] ELSE requests[i].res = r}

AdminMayName(r) == kind = "network" => r[2] = "any"

\* add_allowed_host, the additions of update_modules.  With two admin rows the
\* lookup raises, and nothing happens.
AddByAdmin(p, i, r) ==
    /\ AdminMayName(r)
    /\ \/ /\ AdminRows(r) = {}
          /\ Fresh(i)
          /\ Begin(p, One(i, NewRequest(r, Admin, "approved")), TRUE)
       \/ /\ Cardinality(AdminRows(r)) = 1
          /\ Begin(p, <<>>, TRUE)

\* remove_allowed_host, the removals of update_modules: rows of tools stay.
RemoveByAdmin(p, r) ==
    /\ AdminMayName(r)
    /\ kind = "network" => r \in cache
    /\ Cardinality(AdminRows(r)) <= 1
    /\ Begin(p, [i \in AdminRows(r) |-> Deleted], TRUE)

\* update_modules with reset_to_defaults
ResetToDefaults(p) ==
    /\ kind = "module"
    /\ Begin(p, [i \in {j \in Ids : /\ requests[j].status = "approved"
                                    /\ requests[j].tool = Admin} |-> Deleted], TRUE)
-----------------------------------------------------------------------------
(* The rest of the transaction.                                             *)

\* The rows as the transaction of p sees them.
Seen(p) == [i \in Ids |-> IF i \in DOMAIN h[p].change THEN h[p].change[i] ELSE requests[i]]

\* Another transaction has written a row of ours, or the key of one.
Blocked(p) ==
    \E i \in DOMAIN h[p].change, j \in Ids :
        /\ rowLock[j] \notin {NoHandler, p}
        /\ \/ i = j
           \/ SameKey(h[p].change[i], requests[j])
           \/ SameKey(h[p].change[i], Seen(rowLock[j])[j])

\* An UPDATE that finds no row, an INSERT of a key that exists, a tool that is
\* gone (foreign key).
Fails(p) ==
    \E i \in DOMAIN h[p].change :
        LET x == h[p].change[i]
        IN  /\ Exists(x)
            /\ \/ requests[i] = Deleted
               \/ x.tool \notin tools \cup {Admin}
               \/ \E j \in Ids \ {i} : SameKey(x, requests[j])

\* The rows are written; then, in the same step, the approved rows are read,
\* and for modules the row of the list as well.
Flush(p) ==
    LET loaded == IF kind = "network" THEN h[p].loaded ELSE cache
        entries == Entries(kind, Approved(Seen(p)))
    IN  /\ h[p].pc = "flush"
        /\ ~Blocked(p)
        /\ ~Fails(p)
        /\ rowLock' = [i \in Ids |-> IF i \in DOMAIN h[p].change THEN p ELSE rowLock[i]]
        /\ h' = [h EXCEPT ![p] =
                   IF h[p].syncs /\ entries # loaded
                   THEN [@ EXCEPT !.pc = "write", !.entries = entries]
                   ELSE [@ EXCEPT !.pc = "commit"]]
        /\ UNCHANGED <<kind, tools, requests, cache, cacheLock, everApproved>>

WriteCache(p) ==
    /\ h[p].pc = "write"
    /\ cacheLock = NoHandler
    /\ cacheLock' = p
    /\ h' = [h EXCEPT ![p].pc = "commit", ![p].wrote = TRUE]
    /\ UNCHANGED <<kind, tools, requests, cache, rowLock, everApproved>>

\* The sessions that are open see somebody else's commit.
Disturbed(p) == [q \in Handlers |-> IF q = p \/ h[q].pc = "idle" THEN h[q]
                                    ELSE [h[q] EXCEPT !.alone = FALSE]]

\* Mutant of Release: the row locks are not given back.
ReleaseCacheOnly(p) ==
    /\ cacheLock' = IF cacheLock = p THEN NoHandler ELSE cacheLock
    /\ UNCHANGED rowLock

Release(p) ==
    /\ rowLock' = [i \in Ids |-> IF rowLock[i] = p THEN NoHandler ELSE rowLock[i]]
    /\ cacheLock' = IF cacheLock = p THEN NoHandler ELSE cacheLock

Commit(p) ==
    /\ h[p].pc = "commit"
    /\ requests' = Seen(p)
    /\ cache' = IF h[p].wrote THEN h[p].entries ELSE cache
    /\ everApproved' = everApproved \cup Approved(Seen(p))
    /\ Release(p)
    /\ h' = [Disturbed(p) EXCEPT ![p] = Idle]
    /\ UNCHANGED <<kind, tools>>

\* Mutant of Abort: the list is written in a transaction of its own.
AbortKeepsList(p) ==
    /\ h[p].pc # "idle"
    /\ Release(p)
    /\ cache' = IF h[p].wrote THEN h[p].entries ELSE cache
    /\ h' = [h EXCEPT ![p] = Idle]
    /\ UNCHANGED <<kind, tools, requests, everApproved>>

\* A failed statement, an exception or a cancellation: nothing remains.
Abort(p) ==
    /\ h[p].pc # "idle"
    /\ Release(p)
    /\ h' = [h EXCEPT ![p] = Idle]
    /\ UNCHANGED <<kind, tools, requests, cache, everApproved>>

\* ToolService.delete: the requests of the tool go with it (ON DELETE CASCADE),
\* once nobody holds one of their rows or has added one that refers to the tool;
\* the list is left as it was.
DeleteTool(t) ==
    LET of(x) == Exists(x) /\ x.tool = t
        mine == {i \in Ids : of(requests[i])}
    IN  /\ t \in tools
        /\ Overlap \/ Working = {}
        /\ \A i \in Ids : rowLock[i] # NoHandler => i \notin mine /\ ~of(Seen(rowLock[i])[i])
        /\ tools' = tools \ {t}
        /\ requests' = [i \in Ids |-> IF i \in mine THEN Deleted ELSE requests[i]]
        /\ h' = Disturbed(NoHandler)
        /\ UNCHANGED <<kind, cache, rowLock, cacheLock, everApproved>>
-----------------------------------------------------------------------------
RequestAction(p, i) ==
    \/ \E r \in Resources, t \in Tools : CreateRequest(p, i, r, t)
    \/ ApproveRequest(p, i)
    \/ RejectRequest(p, i)
    \/ RevokeRequest(p, i)
    \/ DeleteRequest(p, i)

AdminAction(p) ==
    \/ \E r \in Resources, i \in Ids : AddByAdmin(p, i, r)
    \/ \E r \in Resources : RemoveByAdmin(p, r)
    \/ ResetToDefaults(p)

Next ==
    \/ \E p \in Handlers, i \in Ids : RequestAction(p, i)
    \/ \E p \in Handlers :
          AdminAction(p) \/ Flush(p) \/ WriteCache(p) \/ Commit(p) \/ Abort(p)
    \/ \E t \in Tools : DeleteTool(t)

Spec == Init /\ [][Next]_vars
-----------------------------------------------------------------------------
(* Properties.                                                              *)

AllResources == Groups \X (Ports \cup {"any", "base", "dashed", "dotted", "underscored"})

AccessTypeOK ==
    /\ kind \in Kinds
    /\ tools \subseteq Tools
    /\ \A i \in Ids : Exists(requests[i]) =>
          requests[i].res \in Resources /\ requests[i].tool \in tools \cup {Admin}
    /\ cache \subseteq AllResources
    /\ \A i \in Ids : rowLock[i] # NoHandler =>
          h[rowLock[i]].pc \in {"write", "commit"} /\ i \in DOMAIN h[rowLock[i]].change
    /\ cacheLock # NoHandler => h[cacheLock].pc = "commit" /\ h[cacheLock].wrote

\* Whatever handlers overlap, fail or are cancelled: the list holds nothing a
\* committed approval did not put there once - a pending or a rejected request
\* alone opens nothing ("Request tables are authoritative", docs/DATA-MODEL.md).
CacheOnlyApproved ==
    \A e \in cache : \E r \in everApproved : e \in Entries(kind, {r})

\* A committed step that changes the approved rows or the list leaves the list
\* exactly what the approved rows say, provided no other handler committed
\* while its session was open: so every such handler recomputes the list, and
\* the first one to run undisturbed repairs a list that had drifted.
MutationsSync ==
    [][\A p \in Handlers :
         (/\ h[p].pc = "commit" /\ h'[p] = Idle /\ h[p].alone
          /\ Approved(requests') # Approved(requests) \/ cache' # cache)
         => cache' = Entries(kind, Approved(requests'))]_vars

\* Between two requests the list is what the approved rows say ("Every mutation
\* goes through the request table first, then syncs the cache",
\* docs/DECISIONS.md).
CacheMatchesRecords == Working = {} => cache = Entries(kind, Approved(requests))
=============================================================================
