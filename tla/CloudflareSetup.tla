---------------------------- MODULE CloudflareSetup ----------------------------
(***************************************************************************)
(* The wizard for remote access: services/cloudflare.py and                *)
(* api/cloudflare.py.  A step changes things at Cloudflare, one call after *)
(* the other, and then one row of cloudflare_configs.  It ends in one of   *)
(* three ways: done; refused by Cloudflare (CloudflareAPIError), after     *)
(* which the handler commits status "error"; or interrupted by anything    *)
(* else, such as a timeout, after which nothing is committed although some *)
(* of the calls had their effect.                                          *)
(*                                                                         *)
(* One step is under way at a time, as one admin makes them.  Between its  *)
(* work and the commit, some steps refresh the caches of their process:    *)
(* that is in GatewayAuth.  KV namespaces, allowed origins and the API     *)
(* token itself are left out.                                              *)
(***************************************************************************)
EXTENDS FiniteSets, Naturals, Sequences

CONSTANTS
    Configs,        \* identities of cloudflare_configs rows
    Policies,       \* access policies an admin may choose
    NoPolicy,
    MaxSteps,       \* bound: steps of the wizard
    MaxFaults       \* bound: steps that fail, reads of the database that fail

ASSUME SetupConstantsOK ==
    /\ IsFiniteSet(Configs) /\ \E k, l \in Configs : k # l
    /\ NoPolicy \notin Policies
    /\ MaxSteps \in Nat /\ MaxFaults \in Nat

VARIABLES
    config,     \* config[k]: the committed row
    order,      \* the rows there are, oldest first (created_at)
    remote,     \* what exists at Cloudflare, under the names the wizard uses
    op,         \* the step under way: its row as it will be committed
    made,       \* service tokens generated so far: token n is the n-th
    unsure,     \* history: the Worker may hold a token no step has confirmed
    steps, faults   \* bounds

setupVars == <<config, order, remote, op, made, unsure, steps, faults>>
-----------------------------------------------------------------------------
Outcomes == {"done", "refused", "interrupted"}

ConfigRow == [status : {"absent", "pending", "active", "error"},
        tunnel : BOOLEAN, vpc : BOOLEAN, app : BOOLEAN,
        token : 0 .. MaxSteps + 2, policy : Policies \cup {NoPolicy}]

NoConfig == [status |-> "absent", tunnel |-> FALSE, vpc |-> FALSE, app |-> FALSE,
          token |-> 0, policy |-> NoPolicy]

NoStep == [kind |-> "none", k |-> CHOOSE k \in Configs : TRUE, draft |-> NoConfig,
         phase |-> "none"]

Exists(k) == config[k].status # "absent"

Active == {k \in Configs : config[k].status = "active"}

\* get_config: the wizard goes on with the most recent row.
Newest == order[Len(order)]

Current(k) == order # <<>> /\ k = Newest

Complete(p) == [status |-> "active", tunnel |-> TRUE, vpc |-> TRUE, app |-> TRUE,
                token |-> 1, policy |-> p]

\* The second row of a wizard that has deployed the Worker once more.
Deployed == [NoConfig EXCEPT !.status = "pending", !.tunnel = TRUE, !.vpc = TRUE, !.token = 2]

\* A new installation, one set up with policy p, or one whose wizard was begun
\* again and is before its last step.
SetupInit ==
    LET k == CHOOSE k \in Configs : TRUE
        l == CHOOSE l \in Configs : l # k
        none == [c \in Configs |-> NoConfig]
    IN /\ \/ config = none /\ order = <<>>
          \/ \E p \in Policies :
                config = [none EXCEPT ![k] = Complete(p)] /\ order = <<k>>
          \/ \E p \in Policies :
                config = [none EXCEPT ![k] = Complete(p), ![l] = Deployed] /\ order = <<k, l>>
       /\ made = Len(order)
       /\ remote = [tunnel |-> order # <<>>, vpc |-> order # <<>>, token |-> made]
       /\ op = NoStep
       /\ unsure = FALSE /\ steps = 0 /\ faults = 0
-----------------------------------------------------------------------------
\* Step kind works on row k: outcome, what is then at Cloudflare, the row if the
\* step is done and the row if it is refused.
Work(kind, k, outcome, there, done, refused) ==
    /\ op.kind = "none" /\ steps < MaxSteps
    /\ steps' = steps + 1
    /\ faults' = faults + (IF outcome = "done" THEN 0 ELSE 1) /\ faults' <= MaxFaults
    /\ remote' = there
    /\ op' = CASE outcome = "done" -> [kind |-> kind, k |-> k, draft |-> done,
                                       phase |-> "refresh"]
               [] outcome = "refused" -> [kind |-> kind, k |-> k, phase |-> "commit",
                                          draft |-> [refused EXCEPT !.status = "error"]]
               [] OTHER -> NoStep
    /\ UNCHANGED <<config, order>>

\* start_with_api_token always makes a new row; a refused token makes none.
StartWizard(k) ==
    /\ op.kind = "none" /\ steps < MaxSteps /\ ~Exists(k)
    /\ config' = [config EXCEPT ![k] = [NoConfig EXCEPT !.status = "pending"]]
    /\ order' = Append(order, k)
    /\ steps' = steps + 1
    /\ UNCHANGED <<remote, op, made, unsure, faults>>

\* create_tunnel: an existing tunnel of that name is a conflict, or is deleted
\* first by force; after the creation, the token of the tunnel is read.
CreateTunnel(k, force) ==
    \E outcome \in Outcomes, exists \in BOOLEAN :
        /\ Current(k) /\ (remote.tunnel => force)
        /\ outcome = "done" => exists
        /\ Work("tunnel", k, outcome, [remote EXCEPT !.tunnel = exists],
                [config[k] EXCEPT !.tunnel = TRUE], config[k])
        /\ UNCHANGED <<made, unsure>>

CreateVpcService(k, force) ==
    \E outcome \in Outcomes, exists \in BOOLEAN :
        /\ Current(k) /\ config[k].tunnel /\ (remote.vpc => force)
        /\ outcome = "done" => exists
        /\ Work("vpc", k, outcome, [remote EXCEPT !.vpc = exists],
                [config[k] EXCEPT !.vpc = TRUE], config[k])
        /\ UNCHANGED <<made, unsure>>

\* deploy_worker: a new token each time.  Failing to hand it to the Worker is only
\* logged; Cloudflare refuses before that, a timeout may come after it.
DeployWorker(k) ==
    \E outcome \in Outcomes, put \in BOOLEAN :
        /\ Current(k) /\ config[k].vpc
        /\ outcome = "refused" => ~put
        /\ made' = made + 1
        /\ Work("deploy", k, outcome,
                IF put THEN [remote EXCEPT !.token = made'] ELSE remote,
                [config[k] EXCEPT !.token = made'], config[k])
        /\ unsure' = IF outcome = "done" THEN ~put ELSE unsure \/ put

\* Mutant of Synced: the service token is not among the secrets.
SyncedOidcOnly(k) == remote

\* _sync_worker_secrets gives the Worker the token of the row.
Synced(k) == [remote EXCEPT !.token = config[k].token]

\* The row with the OIDC application, created unless it is there already; the
\* policy is looked at only when it is created.
WithApp(k, p) ==
    IF config[k].app THEN config[k]
    ELSE [config[k] EXCEPT !.app = TRUE, !.policy = IF p = NoPolicy THEN @ ELSE p]

\* configure_worker_jwt: the last step.  Whatever fails, status "error" is
\* committed with what was done before.
ConfigureWorker(k, p) ==
    /\ Current(k) /\ config[k].token # 0
    /\ \/ /\ Work("configure", k, "done", Synced(k),
                  [WithApp(k, p) EXCEPT !.status = "active"], config[k])
          /\ unsure' = FALSE
       \/ \E created, put \in BOOLEAN :
             /\ put => created
             /\ Work("configure", k, "refused",
                     IF put THEN Synced(k) ELSE remote,
                     config[k], IF created THEN WithApp(k, p) ELSE config[k])
             /\ UNCHANGED unsure
    /\ UNCHANGED made

\* update_access_policy: what Cloudflare refuses is logged.
UpdatePolicy(k, p) ==
    \E outcome \in {"done", "interrupted"} :
        /\ Current(k)
        /\ Work("policy", k, outcome, remote, [config[k] EXCEPT !.policy = p], config[k])
        /\ UNCHANGED <<made, unsure>>

\* teardown: what cannot be deleted is reported, and the row is deleted anyway.
Teardown(k) ==
    \E outcome \in {"done", "interrupted"}, tunnel, vpc, worker \in BOOLEAN :
        /\ Current(k)
        /\ Work("teardown", k, outcome,
                [tunnel |-> remote.tunnel /\ tunnel, vpc |-> remote.vpc /\ vpc,
                 token |-> IF worker THEN remote.token ELSE 0],
                NoConfig, config[k])
        /\ unsure' = TRUE
        /\ UNCHANGED made

\* The commit of the handler, after it has refreshed its caches.  The row it may
\* delete is still the newest: none is made while the step is under way.
CommitStep ==
    /\ op.phase = "commit"
    /\ config' = [config EXCEPT ![op.k] = op.draft]
    /\ order' = IF op.draft.status = "absent" THEN SubSeq(order, 1, Len(order) - 1)
                ELSE order
    /\ op' = NoStep
    /\ UNCHANGED <<remote, made, unsure, steps, faults>>

WizardStep ==
    \E k \in Configs :
        \/ StartWizard(k)
        \/ \E force \in BOOLEAN : CreateTunnel(k, force) \/ CreateVpcService(k, force)
        \/ DeployWorker(k)
        \/ \E p \in Policies \cup {NoPolicy} : ConfigureWorker(k, p)
        \/ \E p \in Policies : UpdatePolicy(k, p)
        \/ Teardown(k)
-----------------------------------------------------------------------------
(* Properties.                                                                  *)

\* A step is recorded in a row only if the one before it is.
SetupTypeOK ==
    /\ config \in [Configs -> ConfigRow] /\ op.draft \in ConfigRow
    /\ \A k \in Configs : Exists(k) <=> \E i \in DOMAIN order : order[i] = k
    /\ \A k \in Configs :
        /\ config[k].vpc => config[k].tunnel
        /\ config[k].token # 0 => config[k].vpc
        /\ config[k].status = "active" => config[k].app /\ config[k].token # 0
    /\ remote.token <= made

\* The Worker of an active configuration presents the token of its row, unless a
\* step was interrupted after handing the Worker another one, or could not hand
\* it over, and no later step has repaired that (configure_worker_jwt does).
WorkerInSync ==
    \A k \in Active :
        op.kind = "none" /\ order = <<k>> /\ ~unsure => remote.token = config[k].token
=============================================================================
