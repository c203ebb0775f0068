----------------------------- MODULE Live_proofs -----------------------------
(***************************************************************************)
(* Proofs about the parts that MCLive runs side by side with approvals:    *)
(* the wizard and the caches the gateway authenticates with (GatewayAuth,  *)
(* CloudflareSetup), the circuit breaker and the activity log, each for    *)
(* any value of its constants.                                             *)
(***************************************************************************)
EXTENDS MCLive, SequenceTheorems, FiniteSetTheorems, TLAPS

-----------------------------------------------------------------------------
(* The wizard and the caches: GatewayAuth.                                 *)

StepKinds == {"none", "tunnel", "vpc", "deploy", "configure", "policy", "teardown"}

StepRec == [kind : StepKinds, k : Configs, draft : ConfigRow,
            phase : {"none", "refresh", "load", "commit"}]

RemoteRec == [tunnel : BOOLEAN, vpc : BOOLEAN, token : Nat]

\* A step is recorded in a row only if the one before it is.
Chained(saved) ==
    /\ saved.vpc => saved.tunnel
    /\ saved.token # 0 => saved.vpc
    /\ saved.status = "active" => saved.app /\ saved.token # 0

TypesInv ==
    /\ config \in [Configs -> ConfigRow] /\ op \in StepRec /\ order \in Seq(Configs)
    /\ remote \in RemoteRec /\ made \in Nat /\ steps \in 0 .. MaxSteps
    /\ made <= steps + 2 /\ remote.token <= made /\ unsure \in BOOLEAN
    /\ op.phase = "none" <=> op.kind = "none"

\* The rows there are are those of the order, each once.
OrderInv ==
    /\ \A k \in Configs : Exists(k) <=> \E i \in 1 .. Len(order) : order[i] = k
    /\ \A i, j \in 1 .. Len(order) : order[i] = order[j] => i = j

RowsInv ==
    /\ \A k \in Configs : Chained(config[k]) /\ config[k].token <= made
    /\ Chained(op.draft) /\ op.draft.token <= made

\* The step under way is about the newest row.
StepInv == op.kind # "none" =>
    Current(op.k) /\ (op.draft.status = "absent" => unsure)

\* The row as it is or is going to be committed.
CurrentRow(k) == IF op.kind # "none" /\ op.k = k THEN op.draft ELSE config[k]

SyncInv == \A k \in Configs :
    order = <<k>> /\ ~unsure /\ CurrentRow(k).token # 0 => remote.token = CurrentRow(k).token

SetupInv == TypesInv /\ OrderInv /\ RowsInv /\ StepInv /\ SyncInv

LEMMA RowFacts ==
    /\ NoConfig \in ConfigRow /\ NoConfig.status = "absent" /\ Chained(NoConfig)
    /\ NoConfig.token = 0
    /\ \A p \in Policies : /\ Complete(p) \in ConfigRow /\ Chained(Complete(p))
                           /\ Complete(p).token = 1 /\ Complete(p).status = "active"
    /\ Deployed \in ConfigRow /\ Chained(Deployed) /\ Deployed.token = 2
    /\ Deployed.status = "pending"
<1>1. 0 \in 0 .. MaxSteps + 2 /\ 1 \in 0 .. MaxSteps + 2 /\ 2 \in 0 .. MaxSteps + 2
  BY SetupConstantsOK
<1>2. /\ NoConfig \in ConfigRow /\ NoConfig.status = "absent" /\ Chained(NoConfig)
      /\ NoConfig.token = 0
  BY <1>1 DEF NoConfig, ConfigRow, Chained
<1>3. ASSUME NEW p \in Policies
      PROVE  /\ Complete(p) \in ConfigRow /\ Chained(Complete(p))
             /\ Complete(p).token = 1 /\ Complete(p).status = "active"
  BY <1>1 DEF Complete, ConfigRow, Chained
<1>4. /\ Deployed.tunnel /\ Deployed.vpc /\ Deployed.token = 2
      /\ Deployed.status = "pending" /\ Deployed.app = NoConfig.app
      /\ Deployed.policy = NoConfig.policy
  BY <1>2 DEF Deployed, ConfigRow
<1>5. Deployed \in ConfigRow
  BY <1>1, <1>2 DEF Deployed, ConfigRow
<1>6. Chained(Deployed)
  BY <1>4 DEF Chained
<1> QED
  BY <1>2, <1>3, <1>4, <1>5, <1>6

LEMMA NoStepOK ==
    /\ NoStep \in StepRec /\ NoStep.kind = "none" /\ NoStep.phase = "none"
    /\ NoStep.draft = NoConfig
  BY SetupConstantsOK, RowFacts DEF NoStep, StepRec, StepKinds

\* A state before the first step.
Beginning ==
    /\ config \in [Configs -> ConfigRow] /\ order \in Seq(Configs) /\ op = NoStep
    /\ made = Len(order) /\ made \in 0 .. 2 /\ remote \in RemoteRec /\ remote.token = made
    /\ unsure = FALSE /\ steps = 0 /\ OrderInv
    /\ \A k \in Configs : Chained(config[k]) /\ config[k].token <= made
    /\ \A k \in Configs : order = <<k>> => config[k].token \in {0, 1}

LEMMA BeginningOK == Beginning => SetupInv
<1> SUFFICES ASSUME Beginning PROVE SetupInv
  OBVIOUS
<1>1. TypesInv
  <2>1. made \in Nat /\ steps \in 0 .. MaxSteps /\ made <= steps + 2 /\ remote.token <= made
    BY SetupConstantsOK DEF Beginning
  <2> QED
    BY <2>1, NoStepOK DEF Beginning, TypesInv
<1>2. RowsInv
  BY NoStepOK, RowFacts DEF Beginning, RowsInv
<1>3. StepInv
  BY NoStepOK DEF Beginning, StepInv
<1>4. SyncInv
  <2>1. \A k \in Configs : order = <<k>> => made = 1
    BY DEF Beginning
  <2> QED
    BY <2>1, NoStepOK DEF Beginning, SyncInv, CurrentRow
<1> QED
  BY <1>1, <1>2, <1>3, <1>4 DEF Beginning, SetupInv

LEMMA SetupInitOK == SetupInit => SetupInv /\ \E k \in Configs : Active \subseteq {k}
<1> SUFFICES ASSUME SetupInit PROVE SetupInv /\ \E k \in Configs : Active \subseteq {k}
  OBVIOUS
<1> DEFINE none == [c \in Configs |-> NoConfig]
<1>1. PICK k, l \in Configs :
        /\ k # l
        /\ \/ config = none /\ order = <<>>
           \/ \E p \in Policies :
                 config = [none EXCEPT ![k] = Complete(p)] /\ order = <<k>>
           \/ \E p \in Policies :
                 config = [none EXCEPT ![k] = Complete(p), ![l] = Deployed] /\ order = <<k, l>>
  <2> DEFINE k0 == CHOOSE c \in Configs : TRUE
             l0 == CHOOSE c \in Configs : c # k0
  <2>1. k0 \in Configs
    BY SetupConstantsOK
  <2>2. \E c \in Configs : c # k0
    BY SetupConstantsOK
  <2>3. l0 \in Configs /\ l0 # k0
    BY <2>2
  <2> QED
    BY <2>1, <2>3 DEF SetupInit
<1>2. /\ made = Len(order) /\ op = NoStep /\ unsure = FALSE /\ steps = 0
      /\ remote = [tunnel |-> order # <<>>, vpc |-> order # <<>>, token |-> made]
  BY DEF SetupInit
<1>3. made \in Nat => remote \in RemoteRec /\ remote.token = made
  BY <1>2 DEF RemoteRec
<1>4. CASE config = none /\ order = <<>>
  <2>1. made = 0 /\ (\A c \in Configs : config[c] = NoConfig) /\ config \in [Configs -> ConfigRow]
    BY <1>2, <1>4, RowFacts
  <2>2. OrderInv
    BY <1>4, <2>1, RowFacts DEF OrderInv, Exists
  <2>3. order \in Seq(Configs) /\ \A c \in Configs : order # <<c>>
    BY <1>4
  <2>4. SetupInv
    BY <1>2, <1>3, <2>1, <2>2, <2>3, RowFacts, BeginningOK DEF Beginning
  <2> QED
    BY <2>1, <2>4, RowFacts DEF Active
<1>5. ASSUME NEW p \in Policies, config = [none EXCEPT ![k] = Complete(p)], order = <<k>>
      PROVE  SetupInv /\ Active \subseteq {k}
  <2>1. /\ made = 1 /\ config \in [Configs -> ConfigRow] /\ config[k] = Complete(p)
        /\ \A c \in Configs : c # k => config[c] = NoConfig
    BY <1>2, <1>5, RowFacts
  <2>2. OrderInv
    BY <1>5, <2>1, RowFacts DEF OrderInv, Exists
  <2>3. order \in Seq(Configs) /\ \A c \in Configs : order = <<c>> => c = k
    BY <1>5
  <2>4. \A c \in Configs : Chained(config[c]) /\ config[c].token <= made
    BY <2>1, RowFacts
  <2>5. SetupInv
    BY <1>2, <1>3, <2>1, <2>2, <2>3, <2>4, RowFacts, BeginningOK DEF Beginning
  <2> QED
    BY <2>1, <2>5, RowFacts DEF Active
<1>6. ASSUME NEW p \in Policies, order = <<k, l>>,
             config = [none EXCEPT ![k] = Complete(p), ![l] = Deployed]
      PROVE  SetupInv /\ Active \subseteq {k}
  <2>1. /\ made = 2 /\ config \in [Configs -> ConfigRow] /\ config[k] = Complete(p)
        /\ config[l] = Deployed /\ \A c \in Configs : c \notin {k, l} => config[c] = NoConfig
    BY <1>1, <1>2, <1>6, RowFacts
  <2>2. OrderInv
    BY <1>1, <1>6, <2>1, RowFacts DEF OrderInv, Exists
  <2>3. order \in Seq(Configs) /\ \A c \in Configs : order # <<c>>
    BY <1>6
  <2>4. \A c \in Configs : Chained(config[c]) /\ config[c].token <= made
    BY <2>1, RowFacts
  <2>5. SetupInv
    BY <1>2, <1>3, <2>1, <2>2, <2>3, <2>4, BeginningOK DEF Beginning
  <2> QED
    BY <2>1, <2>5, RowFacts DEF Active
<1> QED
  BY <1>1, <1>4, <1>5, <1>6

-----------------------------------------------------------------------------
(* The steps of the wizard.                                                *)

LEMMA SetupFacts ==
  ASSUME SetupInv
  PROVE  /\ config \in [Configs -> ConfigRow] /\ op \in StepRec /\ order \in Seq(Configs)
         /\ Len(order) \in Nat /\ remote \in RemoteRec /\ remote.token \in Nat
         /\ made \in Nat /\ steps \in 0 .. MaxSteps /\ MaxSteps \in Nat
         /\ made <= steps + 2 /\ remote.token <= made
         /\ \A k \in Configs : /\ config[k] \in ConfigRow /\ config[k].token \in Nat
                               /\ config[k].token <= made
         /\ op.k \in Configs /\ op.draft \in ConfigRow /\ op.draft.token \in Nat
         /\ op.draft.token <= made
  BY SetupConstantsOK DEF SetupInv, TypesInv, RowsInv, StepRec, ConfigRow, RemoteRec

\* The wizard goes on with a row that exists.
LEMMA NewestOK ==
  ASSUME SetupInv, NEW k, Current(k)
  PROVE  /\ k \in Configs /\ Exists(k) /\ Len(order) >= 1 /\ order[Len(order)] = k
         /\ \A j \in Configs : order = <<j>> => j = k
<1>1. Len(order) >= 1 /\ order[Len(order)] = k
  BY SetupFacts DEF Current, Newest
<1>2. k \in Configs
  BY <1>1, SetupFacts
<1>3. Exists(k)
  BY <1>1, <1>2, SetupFacts DEF SetupInv, OrderInv
<1> QED
  BY <1>1, <1>2, <1>3

\* What Work does: row is what is going to be committed, or there is nothing to commit.
Worked(k, there, rows) ==
    /\ config' = config /\ order' = order /\ remote' = there /\ steps' = steps + 1
    /\ steps < MaxSteps /\ op.kind = "none" /\ op' \in StepRec
    /\ op'.phase = "none" <=> op'.kind = "none"
    /\ \/ op' = NoStep
       \/ op'.kind # "none" /\ op'.k = k /\ op'.draft \in rows

Erroneous(saved) == [saved EXCEPT !.status = "error"]

LEMMA WorkOK ==
  ASSUME NEW k \in Configs, NEW kind \in StepKinds \ {"none"}, NEW outcome \in Outcomes,
         NEW there, NEW done \in ConfigRow, NEW refused \in ConfigRow,
         Work(kind, k, outcome, there, done, refused)
  PROVE  /\ outcome = "done" => Worked(k, there, {done}) /\ op' # NoStep
         /\ outcome = "refused" => Worked(k, there, {Erroneous(refused)})
         /\ outcome = "interrupted" => Worked(k, there, {})
<1>1. /\ op.kind = "none" /\ steps < MaxSteps /\ steps' = steps + 1 /\ remote' = there
      /\ config' = config /\ order' = order
  BY DEF Work
<1>2. CASE outcome = "done"
  <2>1. op' = [kind |-> kind, k |-> k, draft |-> done, phase |-> "refresh"]
    BY <1>2 DEF Work
  <2>2. op' \in StepRec /\ op'.kind = kind /\ op'.phase = "refresh" /\ op'.k = k /\ op'.draft = done
    BY <2>1 DEF StepRec
  <2> QED
    BY <1>1, <1>2, <2>2, NoStepOK DEF Worked
<1>3. CASE outcome = "refused"
  <2>1. op' = [kind |-> kind, k |-> k, phase |-> "commit", draft |-> Erroneous(refused)]
    BY <1>3 DEF Work, Erroneous
  <2>2. Erroneous(refused) \in ConfigRow
    BY DEF Erroneous, ConfigRow
  <2>3. /\ op' \in StepRec /\ op'.kind = kind /\ op'.phase = "commit" /\ op'.k = k
        /\ op'.draft = Erroneous(refused)
    BY <2>1, <2>2 DEF StepRec
  <2> QED
    BY <1>1, <1>3, <2>3 DEF Worked
<1>4. CASE outcome = "interrupted"
  <2>1. op' = NoStep
    BY <1>4 DEF Work
  <2> QED
    BY <1>1, <1>4, <2>1, NoStepOK DEF Worked
<1> QED
  BY <1>2, <1>3, <1>4 DEF Outcomes

LEMMA WorkSome ==
  ASSUME NEW k \in Configs, NEW kind \in StepKinds \ {"none"}, NEW outcome \in Outcomes,
         NEW there, NEW done \in ConfigRow, NEW refused \in ConfigRow,
         Work(kind, k, outcome, there, done, refused)
  PROVE  /\ Worked(k, there, {done, Erroneous(refused)})
         /\ outcome # "refused" => Worked(k, there, {done})
         /\ outcome # "done" => Worked(k, there, {Erroneous(refused)})
<1>1. CASE outcome = "done"
  BY <1>1, WorkOK DEF Worked
<1>2. CASE outcome = "refused"
  BY <1>2, WorkOK DEF Worked
<1>3. CASE outcome = "interrupted"
  BY <1>3, WorkOK DEF Worked
<1> QED
  BY <1>1, <1>2, <1>3 DEF Outcomes

\* Rows that a step on row k may commit.
Good(saved) ==
    /\ Chained(saved) /\ saved.token <= made'
    /\ saved.status = "absent" => unsure'

\* Such a step keeps the invariant if the Worker has the token of the row when it is sure.
LEMMA WorkedOK ==
  ASSUME SetupInv, NEW k, Current(k), NEW there \in RemoteRec, NEW rows, Worked(k, there, rows),
         \A saved \in rows : Good(saved), there.token <= made', unsure' \in BOOLEAN,
         made' = made \/ made' = made + 1,
         order = <<k>> /\ ~unsure' =>
            /\ \A saved \in rows : saved.token # 0 => there.token = saved.token
            /\ op' = NoStep /\ config[k].token # 0 => there.token = config[k].token
  PROVE  SetupInv'
<1>1. TypesInv'
  BY SetupFacts DEF Worked, SetupInv, TypesInv
<1>2. OrderInv'
  BY DEF Worked, SetupInv, OrderInv, Exists
<1>3. RowsInv'
  <2>1. config' = config /\ made <= made'
    BY SetupFacts DEF Worked
  <2>2. \A l \in Configs : Chained(config[l]) /\ config[l].token <= made'
    BY <2>1, SetupFacts DEF SetupInv, RowsInv
  <2>3. Chained(op'.draft) /\ op'.draft.token <= made'
    <3>1. CASE op' = NoStep
      BY <3>1, <2>1, SetupFacts, NoStepOK, RowFacts
    <3>2. CASE op'.draft \in rows
      BY <3>2 DEF Good
    <3> QED
      BY <3>1, <3>2 DEF Worked
  <2> QED
    BY <2>1, <2>2, <2>3 DEF RowsInv
<1>4. StepInv'
  <2>1. Current(k)'
    BY DEF Worked, Current, Newest, Exists
  <2>2. CASE op' = NoStep
    BY <2>2, NoStepOK DEF StepInv
  <2>3. CASE op'.k = k /\ op'.draft \in rows
    BY <2>1, <2>3 DEF StepInv, Good
  <2> QED
    BY <2>2, <2>3 DEF Worked
<1>5. SyncInv'
  BY NewestOK, NoStepOK DEF Worked, SyncInv, CurrentRow
<1> QED
  BY <1>1, <1>2, <1>3, <1>4, <1>5 DEF SetupInv

LEMMA StartWizardOK ==
  ASSUME SetupInv, NEW k \in Configs, StartWizard(k)
  PROVE  SetupInv'
<1> DEFINE saved == [NoConfig EXCEPT !.status = "pending"]
<1>1. saved \in ConfigRow /\ saved.status = "pending" /\ saved.token = 0 /\ Chained(saved)
  BY RowFacts DEF ConfigRow, Chained
<1>2. /\ ~Exists(k) /\ config' = [config EXCEPT ![k] = saved] /\ order' = Append(order, k)
      /\ steps' = steps + 1 /\ steps < MaxSteps /\ op.kind = "none"
      /\ UNCHANGED <<remote, op, made, unsure>>
  BY DEF StartWizard
<1> HIDE DEF saved
<1>3. /\ config' \in [Configs -> ConfigRow] /\ config'[k] = saved
      /\ \A c \in Configs : c # k => config'[c] = config[c]
  BY <1>1, <1>2, SetupFacts
<1>4. /\ order' \in Seq(Configs) /\ Len(order') = Len(order) + 1 /\ order'[Len(order) + 1] = k
      /\ \A i \in 1 .. Len(order) : order'[i] = order[i]
  BY <1>2, SetupFacts, AppendProperties
<1>5. TypesInv'
  BY <1>2, <1>3, <1>4, SetupFacts DEF SetupInv, TypesInv
<1>6. OrderInv'
  <2>1. \A i \in 1 .. Len(order) : order[i] # k
    BY <1>2 DEF SetupInv, OrderInv
  <2>2. \A i \in 1 .. Len(order') : i \in 1 .. Len(order) \/ i = Len(order) + 1
    BY <1>4, SetupFacts
  <2>3. \A i \in 1 .. Len(order) : i \in 1 .. Len(order')
    BY <1>4, SetupFacts
  <2>4. Len(order) + 1 \in 1 .. Len(order')
    BY <1>4, SetupFacts
  <2>5. \A c \in Configs : Exists(c)' <=> \E i \in 1 .. Len(order') : order'[i] = c
    BY <1>1, <1>3, <1>4, <2>2, <2>3, <2>4 DEF Exists, SetupInv, OrderInv
  <2>6. \A i, j \in 1 .. Len(order') : order'[i] = order'[j] => i = j
    BY <1>4, <2>1, <2>2 DEF SetupInv, OrderInv
  <2> QED
    BY <2>5, <2>6 DEF OrderInv
<1>7. RowsInv'
  BY <1>1, <1>2, <1>3, SetupFacts DEF SetupInv, RowsInv
<1>8. StepInv'
  BY <1>2 DEF StepInv
<1>9. SyncInv'
  <2>1. ASSUME NEW c \in Configs, order' = <<c>> PROVE c = k
    BY <1>4, <2>1, SetupFacts
  <2> QED
    BY <1>1, <1>2, <1>3, <2>1 DEF SyncInv, CurrentRow
<1> QED
  BY <1>5, <1>6, <1>7, <1>8, <1>9 DEF SetupInv

\* A row marked as erroneous.
LEMMA ErroneousOK ==
  ASSUME NEW saved \in ConfigRow, Chained(saved)
  PROVE  /\ Erroneous(saved) \in ConfigRow /\ Erroneous(saved).token = saved.token
         /\ Erroneous(saved).status = "error" /\ Chained(Erroneous(saved))
<1>1. /\ Erroneous(saved).token = saved.token /\ Erroneous(saved).status = "error"
      /\ Erroneous(saved).tunnel = saved.tunnel /\ Erroneous(saved).vpc = saved.vpc
      /\ Erroneous(saved) \in ConfigRow
  BY DEF Erroneous, ConfigRow
<1> QED
  BY <1>1 DEF Chained

\* What the steps need of the Worker and the row before them.
LEMMA InSync ==
  ASSUME SetupInv, NEW k \in Configs, op.kind = "none", order = <<k>>, ~unsure,
         config[k].token # 0
  PROVE  remote.token = config[k].token
  BY DEF SetupInv, SyncInv, CurrentRow

\* A step that leaves the token of the row and that of the Worker alone.
LEMMA TokensKeptOK ==
  ASSUME SetupInv, NEW k \in Configs, Current(k), NEW there \in RemoteRec,
         there.token = remote.token, NEW rows, Worked(k, there, rows),
         \A saved \in rows : /\ Chained(saved) /\ saved.status # "absent"
                          /\ saved.token = config[k].token,
         made' \in {made, made + 1}, unsure' \in BOOLEAN, unsure => unsure'
  PROVE  SetupInv'
<1>1. \A saved \in rows : Good(saved)
  BY SetupFacts DEF Good
<1>2. there.token <= made'
  BY SetupFacts
<1>3. op.kind = "none"
  BY DEF Worked
<1>4. order = <<k>> /\ ~unsure' => (config[k].token # 0 => there.token = config[k].token)
  BY <1>3, InSync
<1> QED
  BY <1>1, <1>2, <1>4, WorkedOK

LEMMA CreateTunnelOK ==
  ASSUME SetupInv, NEW k \in Configs, NEW force \in BOOLEAN, CreateTunnel(k, force)
  PROVE  SetupInv'
<1>1. PICK outcome \in Outcomes, exists \in BOOLEAN :
        /\ Current(k)
        /\ Work("tunnel", k, outcome, [remote EXCEPT !.tunnel = exists],
                [config[k] EXCEPT !.tunnel = TRUE], config[k])
        /\ UNCHANGED <<made, unsure>>
  BY DEF CreateTunnel
<1>2. PICK there, done : there = [remote EXCEPT !.tunnel = exists]
                         /\ done = [config[k] EXCEPT !.tunnel = TRUE]
  OBVIOUS
<1>3. there \in RemoteRec /\ there.token = remote.token
  BY <1>2, SetupFacts DEF RemoteRec
<1>4. /\ done \in ConfigRow /\ done.status = config[k].status /\ done.token = config[k].token
      /\ done.tunnel /\ done.vpc = config[k].vpc /\ done.app = config[k].app
  BY <1>2, SetupFacts DEF ConfigRow
<1>5. Chained(config[k]) /\ Exists(k) /\ config[k] \in ConfigRow
  BY <1>1, NewestOK, SetupFacts DEF SetupInv, RowsInv
<1>6. Chained(done) /\ done.status # "absent"
  BY <1>4, <1>5 DEF Chained, Exists
<1>7. Work("tunnel", k, outcome, there, done, config[k])
  BY <1>1, <1>2
<1>8. Worked(k, there, {done, Erroneous(config[k])})
  BY <1>3, <1>4, <1>5, <1>7, WorkSome DEF StepKinds
<1>9. unsure \in BOOLEAN
  BY DEF SetupInv, TypesInv
<1> QED
  BY <1>1, <1>3, <1>4, <1>5, <1>6, <1>8, <1>9, ErroneousOK, TokensKeptOK

LEMMA CreateVpcServiceOK ==
  ASSUME SetupInv, NEW k \in Configs, NEW force \in BOOLEAN, CreateVpcService(k, force)
  PROVE  SetupInv'
<1>1. PICK outcome \in Outcomes, exists \in BOOLEAN :
        /\ Current(k) /\ config[k].tunnel
        /\ Work("vpc", k, outcome, [remote EXCEPT !.vpc = exists],
                [config[k] EXCEPT !.vpc = TRUE], config[k])
        /\ UNCHANGED <<made, unsure>>
  BY DEF CreateVpcService
<1>2. PICK there, done : there = [remote EXCEPT !.vpc = exists]
                         /\ done = [config[k] EXCEPT !.vpc = TRUE]
  OBVIOUS
<1>3. there \in RemoteRec /\ there.token = remote.token
  BY <1>2, SetupFacts DEF RemoteRec
<1>4. /\ done \in ConfigRow /\ done.status = config[k].status /\ done.token = config[k].token
      /\ done.tunnel = config[k].tunnel /\ done.vpc /\ done.app = config[k].app
  BY <1>2, SetupFacts DEF ConfigRow
<1>5. Chained(config[k]) /\ Exists(k) /\ config[k] \in ConfigRow
  BY <1>1, NewestOK, SetupFacts DEF SetupInv, RowsInv
<1>6. Chained(done) /\ done.status # "absent"
  BY <1>1, <1>4, <1>5 DEF Chained, Exists
<1>7. Work("vpc", k, outcome, there, done, config[k])
  BY <1>1, <1>2
<1>8. Worked(k, there, {done, Erroneous(config[k])})
  BY <1>3, <1>4, <1>5, <1>7, WorkSome DEF StepKinds
<1>9. unsure \in BOOLEAN
  BY DEF SetupInv, TypesInv
<1> QED
  BY <1>1, <1>3, <1>4, <1>5, <1>6, <1>8, <1>9, ErroneousOK, TokensKeptOK

LEMMA UpdatePolicyOK ==
  ASSUME SetupInv, NEW k \in Configs, NEW p \in Policies, UpdatePolicy(k, p)
  PROVE  SetupInv'
<1>1. PICK outcome \in {"done", "interrupted"} :
        /\ Current(k)
        /\ Work("policy", k, outcome, remote, [config[k] EXCEPT !.policy = p], config[k])
        /\ UNCHANGED <<made, unsure>>
  BY DEF UpdatePolicy
<1>2. PICK done : done = [config[k] EXCEPT !.policy = p]
  OBVIOUS
<1>3. /\ done \in ConfigRow /\ done.status = config[k].status /\ done.token = config[k].token
      /\ done.tunnel = config[k].tunnel /\ done.vpc = config[k].vpc /\ done.app = config[k].app
  BY <1>2, SetupFacts DEF ConfigRow
<1>4. Chained(config[k]) /\ Exists(k) /\ config[k] \in ConfigRow
  BY <1>1, NewestOK, SetupFacts DEF SetupInv, RowsInv
<1>5. Chained(done) /\ done.status # "absent"
  BY <1>3, <1>4 DEF Chained, Exists
<1>6. Work("policy", k, outcome, remote, done, config[k])
  BY <1>1, <1>2
<1>7. Worked(k, remote, {done})
  <2>1. outcome \in Outcomes /\ outcome # "refused"
    BY DEF Outcomes
  <2> QED
    BY <1>3, <1>4, <1>6, <2>1, WorkSome DEF StepKinds
<1>8. unsure \in BOOLEAN
  BY DEF SetupInv, TypesInv
<1> QED
  BY <1>1, <1>3, <1>4, <1>5, <1>7, <1>8, SetupFacts, TokensKeptOK

LEMMA TeardownOK ==
  ASSUME SetupInv, NEW k \in Configs, Teardown(k)
  PROVE  SetupInv'
<1>1. PICK outcome \in {"done", "interrupted"}, tunnel, vpc, worker \in BOOLEAN :
        /\ Current(k)
        /\ Work("teardown", k, outcome,
                [tunnel |-> remote.tunnel /\ tunnel, vpc |-> remote.vpc /\ vpc,
                 token |-> IF worker THEN remote.token ELSE 0],
                NoConfig, config[k])
        /\ unsure' = TRUE /\ made' = made
  BY DEF Teardown
<1>2. PICK there : there = [tunnel |-> remote.tunnel /\ tunnel, vpc |-> remote.vpc /\ vpc,
                            token |-> IF worker THEN remote.token ELSE 0]
  OBVIOUS
<1>3. there \in RemoteRec /\ there.token <= made'
  BY <1>1, <1>2, SetupFacts DEF RemoteRec
<1>4. Work("teardown", k, outcome, there, NoConfig, config[k])
  BY <1>1, <1>2
<1>5. Worked(k, there, {NoConfig})
  <2>1. outcome \in Outcomes /\ outcome # "refused"
    BY DEF Outcomes
  <2> QED
    BY <1>4, <2>1, RowFacts, SetupFacts, WorkSome DEF StepKinds
<1>6. Good(NoConfig)
  BY <1>1, RowFacts, SetupFacts DEF Good
<1> QED
  BY <1>1, <1>3, <1>5, <1>6, WorkedOK

LEMMA DeployWorkerOK ==
  ASSUME SetupInv, NEW k \in Configs, DeployWorker(k)
  PROVE  SetupInv'
<1>1. PICK outcome \in Outcomes, put \in BOOLEAN :
        /\ Current(k) /\ config[k].vpc
        /\ outcome = "refused" => ~put
        /\ made' = made + 1
        /\ Work("deploy", k, outcome,
                IF put THEN [remote EXCEPT !.token = made'] ELSE remote,
                [config[k] EXCEPT !.token = made'], config[k])
        /\ unsure' = IF outcome = "done" THEN ~put ELSE unsure \/ put
  BY DEF DeployWorker
<1>2. PICK n, there, done :
        /\ n = made' /\ there = IF put THEN [remote EXCEPT !.token = n] ELSE remote
        /\ done = [config[k] EXCEPT !.token = n]
  OBVIOUS
<1>3. n = made + 1 /\ n \in Nat
  BY <1>1, <1>2, SetupFacts
<1>4. Work("deploy", k, outcome, there, done, config[k])
  BY <1>1, <1>2
<1>5. n \in 0 .. MaxSteps + 2
  BY <1>3, <1>4, SetupFacts DEF Work
<1>6. there \in RemoteRec /\ there.token = IF put THEN n ELSE remote.token
  BY <1>2, <1>3, SetupFacts DEF RemoteRec
<1>7. /\ done \in ConfigRow /\ done.status = config[k].status /\ done.token = n
      /\ done.tunnel = config[k].tunnel /\ done.vpc = config[k].vpc /\ done.app = config[k].app
  BY <1>2, <1>5, SetupFacts DEF ConfigRow
<1>8. Chained(config[k]) /\ Exists(k) /\ config[k] \in ConfigRow
  BY <1>1, NewestOK, SetupFacts DEF SetupInv, RowsInv
<1>9. Chained(done) /\ done.status # "absent"
  BY <1>1, <1>3, <1>7, <1>8, SetupFacts DEF Chained, Exists
<1>10. unsure' \in BOOLEAN
  BY <1>1 DEF SetupInv, TypesInv
<1>11. CASE outcome = "done"
  <2>1. Worked(k, there, {done})
    BY <1>4, <1>6, <1>7, <1>8, <1>11, WorkOK DEF StepKinds
  <2>2. op' # NoStep
    BY <1>4, <1>6, <1>7, <1>8, <1>11, WorkOK DEF StepKinds
  <2>3. Good(done) /\ there.token <= made'
    BY <1>2, <1>3, <1>6, <1>7, <1>9, SetupFacts DEF Good
  <2>4. ~unsure' => there.token = done.token
    BY <1>1, <1>6, <1>7, <1>11
  <2> QED
    BY <1>1, <1>6, <1>10, <2>1, <2>2, <2>3, <2>4, WorkedOK
<1>12. CASE outcome = "refused" \/ (outcome = "interrupted" /\ ~put)
  <2>1. Worked(k, there, {Erroneous(config[k])})
    BY <1>4, <1>7, <1>8, <1>12, WorkSome DEF StepKinds
  <2>2. there.token = remote.token
    BY <1>1, <1>6, <1>12
  <2> QED
    BY <1>1, <1>6, <1>8, <1>10, <1>12, <2>1, <2>2, ErroneousOK, TokensKeptOK
<1>13. CASE outcome = "interrupted" /\ put
  <2>1. Worked(k, there, {})
    BY <1>4, <1>6, <1>7, <1>8, <1>13, WorkOK DEF StepKinds
  <2>a. unsure'
    <3>1. unsure' = (unsure \/ put)
      BY <1>1, <1>13
    <3> QED
      BY <1>13, <3>1
  <2>b. there.token <= made'
    BY <1>2, <1>3, <1>6, <1>13
  <2>2. PICK rows : rows = {} /\ Worked(k, there, rows)
    BY <2>1
  <2>3. \A saved \in rows : Good(saved)
    BY <2>2
  <2> QED
    BY <1>1, <1>6, <1>10, <2>2, <2>3, <2>a, <2>b, WorkedOK
<1>14. \/ outcome = "done"
       \/ outcome = "refused" \/ (outcome = "interrupted" /\ ~put)
       \/ outcome = "interrupted" /\ put
  BY DEF Outcomes
<1> QED
  BY <1>11, <1>12, <1>13, <1>14

LEMMA WithAppOK ==
  ASSUME SetupInv, NEW k \in Configs, NEW p \in Policies \cup {NoPolicy}
  PROVE  /\ WithApp(k, p) \in ConfigRow /\ WithApp(k, p).app
         /\ WithApp(k, p).token = config[k].token /\ WithApp(k, p).status = config[k].status
         /\ WithApp(k, p).tunnel = config[k].tunnel /\ WithApp(k, p).vpc = config[k].vpc
<1>1. CASE config[k].app
  BY <1>1, SetupFacts DEF WithApp
<1>2. CASE ~config[k].app
  <2>1. PICK q \in Policies \cup {NoPolicy} : q = IF p = NoPolicy THEN config[k].policy ELSE p
    BY SetupFacts DEF ConfigRow
  <2>2. WithApp(k, p) = [config[k] EXCEPT !.app = TRUE, !.policy = q]
    BY <1>2, <2>1 DEF WithApp
  <2> QED
    BY <2>2, SetupFacts DEF ConfigRow
<1> QED
  BY <1>1, <1>2, SetupFacts DEF ConfigRow

LEMMA ConfigureWorkerOK ==
  ASSUME SetupInv, NEW k \in Configs, NEW p \in Policies \cup {NoPolicy}, ConfigureWorker(k, p)
  PROVE  SetupInv'
<1>1. Current(k) /\ config[k].token # 0 /\ made' = made
  BY DEF ConfigureWorker
<1>2. Chained(config[k]) /\ Exists(k) /\ config[k] \in ConfigRow
  BY <1>1, NewestOK, SetupFacts DEF SetupInv, RowsInv
<1>3. /\ Synced(k) \in RemoteRec /\ Synced(k).token = config[k].token
      /\ Synced(k).token <= made'
  BY <1>1, SetupFacts DEF Synced, RemoteRec
<1>4. Chained(WithApp(k, p))
  BY <1>1, <1>2, WithAppOK DEF Chained
<1>5. CASE /\ Work("configure", k, "done", Synced(k), [WithApp(k, p) EXCEPT !.status = "active"],
                   config[k])
           /\ unsure' = FALSE
  <2>1. PICK done : done = [WithApp(k, p) EXCEPT !.status = "active"]
    OBVIOUS
  <2>2. /\ done \in ConfigRow /\ done.status = "active" /\ done.token = config[k].token /\ done.app
        /\ done.tunnel = config[k].tunnel /\ done.vpc = config[k].vpc
    BY <2>1, WithAppOK DEF ConfigRow
  <2>3. Good(done)
    BY <1>1, <1>2, <2>2, SetupFacts DEF Good, Chained
  <2>4. Work("configure", k, "done", Synced(k), done, config[k])
    BY <1>5, <2>1
  <2>5. Worked(k, Synced(k), {done})
    BY <1>2, <1>3, <2>2, <2>4, WorkOK DEF Outcomes, StepKinds
  <2> QED
    BY <1>1, <1>3, <1>5, <2>2, <2>3, <2>5, WorkedOK
<1>6. ASSUME NEW created \in BOOLEAN, NEW put \in BOOLEAN, put => created,
             Work("configure", k, "refused", IF put THEN Synced(k) ELSE remote,
                  config[k], IF created THEN WithApp(k, p) ELSE config[k]),
             unsure' = unsure
      PROVE  SetupInv'
  <2>1. PICK there, saved :
          /\ there = IF put THEN Synced(k) ELSE remote
          /\ saved = IF created THEN WithApp(k, p) ELSE config[k]
    OBVIOUS
  <2>2. /\ saved \in ConfigRow /\ Chained(saved) /\ saved.token = config[k].token
        /\ there \in RemoteRec /\ there.token \in {remote.token, config[k].token}
    BY <1>2, <1>3, <1>4, <2>1, WithAppOK, SetupFacts
  <2>3. Work("configure", k, "refused", there, config[k], saved)
    BY <1>6, <2>1
  <2>4. Worked(k, there, {Erroneous(saved)})
    BY <1>2, <2>2, <2>3, WorkOK DEF Outcomes, StepKinds
  <2>5. Good(Erroneous(saved)) /\ there.token <= made'
    BY <1>1, <2>2, ErroneousOK, SetupFacts DEF Good
  <2>6. order = <<k>> /\ ~unsure => there.token = config[k].token
    BY <1>1, <2>2, <2>4, InSync DEF Worked
  <2>7. unsure' \in BOOLEAN
    BY <1>6 DEF SetupInv, TypesInv
  <2> QED
    BY <1>1, <1>6, <2>2, <2>4, <2>5, <2>6, <2>7, ErroneousOK, WorkedOK
<1> QED
  BY <1>5, <1>6 DEF ConfigureWorker

\* The step under way goes on to another phase.
LEMMA PhaseOK ==
  ASSUME SetupInv, NEW phase \in {"refresh", "load", "commit"}, op.phase # "none",
         op' = [op EXCEPT !.phase = phase],
         UNCHANGED <<config, order, remote, made, unsure, steps>>
  PROVE  SetupInv'
<1>1. /\ op' \in StepRec /\ op'.phase = phase /\ op'.kind = op.kind /\ op'.k = op.k
      /\ op'.draft = op.draft
  BY SetupFacts DEF StepRec
<1>2. TypesInv'
  BY <1>1 DEF SetupInv, TypesInv
<1>3. OrderInv' /\ RowsInv'
  BY <1>1 DEF SetupInv, OrderInv, RowsInv, Exists
<1>4. StepInv' /\ SyncInv'
  BY <1>1 DEF SetupInv, StepInv, SyncInv, CurrentRow, Current, Newest
<1> QED
  BY <1>2, <1>3, <1>4 DEF SetupInv

LEMMA WithoutLastOK ==
  ASSUME NEW S, NEW s \in Seq(S), Len(s) >= 1
  PROVE  /\ SubSeq(s, 1, Len(s) - 1) \in Seq(S)
         /\ Len(SubSeq(s, 1, Len(s) - 1)) = Len(s) - 1
         /\ \A i \in 1 .. Len(s) - 1 : SubSeq(s, 1, Len(s) - 1)[i] = s[i]
<1>1. PICK n \in Nat : n = Len(s) - 1
  BY LenProperties
<1>2. \A i \in 1 .. n : s[i] \in S
  BY <1>1, ElementOfSeq
<1>3. (IF 1 <= n THEN n - 1 + 1 ELSE 0) = n
  OBVIOUS
<1>4. \A i \in 1 .. n : i \in 1 .. n - 1 + 1 /\ 1 + i - 1 = i
  OBVIOUS
<1> QED
  BY <1>1, <1>2, <1>3, <1>4, SubSeqProperties

LEMMA CommitStepOK ==
  ASSUME SetupInv, CommitStep
  PROVE  SetupInv'
<1>1. /\ config' = [config EXCEPT ![op.k] = op.draft] /\ op' = NoStep
      /\ order' = IF op.draft.status = "absent" THEN SubSeq(order, 1, Len(order) - 1) ELSE order
      /\ UNCHANGED <<remote, made, unsure, steps>>
  BY DEF CommitStep
<1>2. op.kind # "none" /\ Current(op.k) /\ (op.draft.status = "absent" => unsure)
  BY DEF CommitStep, SetupInv, TypesInv, StepInv
<1>3. PICK k \in Configs, saved \in ConfigRow : k = op.k /\ saved = op.draft
  BY SetupFacts
<1>4. /\ config' \in [Configs -> ConfigRow] /\ config'[k] = saved
      /\ \A c \in Configs : c # k => config'[c] = config[c]
  BY <1>1, <1>3, SetupFacts
<1>5. Exists(k) /\ Len(order) >= 1 /\ order[Len(order)] = k
  BY <1>2, <1>3, NewestOK
<1>6. CASE saved.status = "absent"
  <2>1. order' = SubSeq(order, 1, Len(order) - 1)
    BY <1>1, <1>3, <1>6
  <2>2. /\ order' \in Seq(Configs) /\ Len(order') = Len(order) - 1
        /\ \A i \in 1 .. Len(order) - 1 : order'[i] = order[i]
    BY <1>5, <2>1, SetupFacts, WithoutLastOK
  <2>3. unsure'
    BY <1>1, <1>2, <1>3, <1>6
  <2>4. TypesInv'
    BY <1>1, <1>4, <2>2, NoStepOK DEF SetupInv, TypesInv
  <2>5. \A i \in 1 .. Len(order) : i \in 1 .. Len(order') \/ i = Len(order)
    BY <2>2, SetupFacts
  <2>6. \A i \in 1 .. Len(order') : i \in 1 .. Len(order) /\ i # Len(order) /\ order'[i] = order[i]
    BY <2>2, SetupFacts
  <2>7. Len(order) \in 1 .. Len(order)
    BY <1>5, SetupFacts
  <2>8. OrderInv'
    <3>1. \A i \in 1 .. Len(order') : order'[i] # k
      BY <1>5, <2>6, <2>7 DEF SetupInv, OrderInv
    <3>2. \A c \in Configs : Exists(c)' <=> \E i \in 1 .. Len(order') : order'[i] = c
      BY <1>4, <1>5, <1>6, <2>5, <2>6, <3>1 DEF Exists, SetupInv, OrderInv
    <3>3. \A i, j \in 1 .. Len(order') : order'[i] = order'[j] => i = j
      BY <2>6 DEF SetupInv, OrderInv
    <3> QED
      BY <3>2, <3>3 DEF OrderInv
  <2>9. RowsInv'
    BY <1>1, <1>3, <1>4, NoStepOK, RowFacts, SetupFacts DEF SetupInv, RowsInv
  <2> QED
    BY <1>1, <2>3, <2>4, <2>8, <2>9, NoStepOK DEF SetupInv, StepInv, SyncInv
<1>7. CASE saved.status # "absent"
  <2>1. order' = order
    BY <1>1, <1>3, <1>7
  <2>2. TypesInv'
    BY <1>1, <1>4, <2>1, NoStepOK DEF SetupInv, TypesInv
  <2>3. OrderInv'
    BY <1>4, <1>5, <1>7, <2>1 DEF Exists, SetupInv, OrderInv
  <2>4. RowsInv'
    BY <1>1, <1>3, <1>4, NoStepOK, RowFacts, SetupFacts DEF SetupInv, RowsInv
  <2>5. \A c \in Configs : CurrentRow(c)' = CurrentRow(c)
    BY <1>1, <1>2, <1>3, <1>4, NoStepOK DEF CurrentRow
  <2>6. SyncInv'
    BY <1>1, <2>1, <2>5 DEF SetupInv, SyncInv
  <2> QED
    BY <1>1, <2>2, <2>3, <2>4, <2>6, NoStepOK DEF SetupInv, StepInv
<1> QED
  BY <1>6, <1>7

LEMMA SetupUnchanged ==
  ASSUME SetupInv, UNCHANGED <<config, order, remote, op, made, unsure, steps>>
  PROVE  SetupInv'
<1>1. TypesInv' /\ OrderInv' /\ RowsInv'
  BY DEF SetupInv, TypesInv, OrderInv, RowsInv, Exists
<1>2. StepInv' /\ SyncInv'
  BY DEF SetupInv, StepInv, SyncInv, CurrentRow, Current, Newest
<1> QED
  BY <1>1, <1>2 DEF SetupInv

LEMMA WizardStepOK == SetupInv /\ WizardStep => SetupInv'
  BY StartWizardOK, CreateTunnelOK, CreateVpcServiceOK, DeployWorkerOK, ConfigureWorkerOK,
     UpdatePolicyOK, TeardownOK
     DEF WizardStep

-----------------------------------------------------------------------------
(* The caches.                                                             *)

Values(c) == IF c = "token" THEN 0 .. made ELSE Policies \cup {NoPolicy}

CacheRec(c) == [val : Values(c), err : BOOLEAN, fresh : BOOLEAN]

CachesInv ==
    /\ DOMAIN cache = Processes /\ DOMAIN loading = Processes /\ DOMAIN lastRead = Processes
    /\ \A p \in Processes :
          /\ DOMAIN cache[p] = Caches /\ DOMAIN loading[p] = Caches /\ lastRead[p] \in 0 .. made
          /\ \A c \in Caches : /\ cache[p][c] \in CacheRec(c)
                               /\ loading[p][c].read \in Values(c) \cup {Unknown}

\* A cache that is fresh and without a token was loaded from a database without one.
FreshInv == \A p \in Processes :
    cache[p]["token"].fresh /\ ~AuthEnabled(cache[p]["token"]) => lastRead[p] = 0

PhaseInv == op.phase = "load" => ToRefresh # "none"

AuthInv == SetupInv /\ CachesInv /\ FreshInv /\ PhaseInv

LEMMA LoadedOK ==
  ASSUME NEW c \in Caches, NEW x \in CacheRec(c), NEW read \in Values(c) \cup {Unknown}
  PROVE  /\ Loaded(c, x, read) \in CacheRec(c)
         /\ read # Unknown => Loaded(c, x, read).val = read
         /\ c = "token" /\ read = Unknown => AuthEnabled(Loaded(c, x, read))
<1>1. CASE read # Unknown
  <2>1. Loaded(c, x, read) = [val |-> read, err |-> FALSE, fresh |-> TRUE]
    BY <1>1 DEF Loaded
  <2> QED
    BY <1>1, <2>1 DEF CacheRec
<1>2. CASE read = Unknown
  <2>1. PICK e \in BOOLEAN : e = (x.err \/ x.val = Nothing(c))
    OBVIOUS
  <2>2. Loaded(c, x, read) = [x EXCEPT !.err = e]
    BY <1>2, <2>1 DEF Loaded
  <2>3. /\ Loaded(c, x, read) \in CacheRec(c) /\ Loaded(c, x, read).err = e
        /\ Loaded(c, x, read).val = x.val
    BY <2>2 DEF CacheRec
  <2> QED
    BY <1>2, <2>1, <2>3 DEF AuthEnabled, Nothing
<1> QED
  BY <1>1, <1>2

LEMMA StoredOK ==
  ASSUME SetupInv, NEW c \in Caches
  PROVE  Stored(c) \in Values(c) \cup {Unknown}
<1>1. CASE Cardinality(Active) > 1
  BY <1>1 DEF Stored
<1>2. CASE ~(Cardinality(Active) > 1) /\ Active = {}
  BY <1>2, SetupFacts DEF Stored, Nothing, Values
<1>3. CASE ~(Cardinality(Active) > 1) /\ Active # {}
  <2>1. PICK k \in Configs : k = CHOOSE x \in Active : TRUE
    BY <1>3 DEF Active
  <2>2. Stored(c) = IF c = "token" THEN config[k].token ELSE config[k].policy
    BY <1>3, <2>1 DEF Stored
  <2>3. config[k].token \in 0 .. made /\ config[k].policy \in Policies \cup {NoPolicy}
    BY SetupFacts DEF ConfigRow
  <2> QED
    BY <2>2, <2>3 DEF Values
<1> QED
  BY <1>1, <1>2, <1>3

LEMMA AuthInitOK == AuthInit => AuthInv
<1> SUFFICES ASSUME AuthInit PROVE AuthInv
  OBVIOUS
<1>1. SetupInv
  BY SetupInitOK DEF AuthInit
<1>2. \A c \in Caches : Stored(c) \in Values(c)
  <2> SUFFICES ASSUME NEW c \in Caches PROVE Stored(c) \in Values(c)
    OBVIOUS
  <2>1. PICK k \in Configs : Active \subseteq {k}
    BY SetupInitOK DEF AuthInit
  <2>2. CASE Active = {}
    <3>1. ~(Cardinality(Active) > 1)
      BY <2>2, FS_EmptySet
    <3> QED
      BY <2>2, <3>1, <1>1, SetupFacts DEF Stored, Nothing, Values
  <2>3. CASE Active = {k}
    <3>0. Cardinality(Active) = 1
      BY <2>3, FS_Singleton
    <3>1. ~(Cardinality(Active) > 1)
      BY <3>0
    <3>2. k = CHOOSE x \in Active : TRUE
      BY <2>3
    <3>3. Stored(c) = IF c = "token" THEN config[k].token ELSE config[k].policy
      BY <2>3, <3>1, <3>2 DEF Stored
    <3>4. config[k].token \in 0 .. made /\ config[k].policy \in Policies \cup {NoPolicy}
      BY <1>1, SetupFacts DEF ConfigRow
    <3> QED
      BY <3>3, <3>4 DEF Values
  <2> QED
    BY <2>1, <2>2, <2>3
<1>3. /\ Stored("token") \in 0 .. made
      /\ \A c \in Caches : [val |-> Stored(c), err |-> FALSE, fresh |-> TRUE] \in CacheRec(c)
  BY <1>2 DEF Values, CacheRec, Caches
<1>4. NotLoading.read = Unknown
  BY DEF NotLoading
<1>5. CachesInv
  BY <1>3, <1>4 DEF AuthInit, CachesInv
<1>6. FreshInv
  BY DEF AuthInit, FreshInv, AuthEnabled, Caches
<1>7. PhaseInv
  BY NoStepOK DEF AuthInit, SetupInit, PhaseInv
<1> QED
  BY <1>1, <1>5, <1>6, <1>7 DEF AuthInv

\* A step that leaves the caches alone, and may generate a token.
LEMMA CachesKept ==
  ASSUME SetupInv, CachesInv, FreshInv, UNCHANGED cacheVars, made' \in {made, made + 1}
  PROVE  CachesInv' /\ FreshInv'
<1>1. 0 .. made \subseteq 0 .. made'
  BY SetupFacts
<1>2. \A c \in Caches : Values(c) \subseteq Values(c)' /\ CacheRec(c) \subseteq CacheRec(c)'
  BY <1>1 DEF Values, CacheRec
<1>5. UNCHANGED <<cache, loading, lastRead>>
  BY DEF cacheVars
<1>6. CachesInv'
  BY <1>1, <1>2, <1>5 DEF CachesInv
<1>7. FreshInv'
  BY <1>5 DEF FreshInv, AuthEnabled
<1> QED
  BY <1>6, <1>7

\* A step that sets one entry of the cache of a process.
LEMMA SetCacheOK ==
  ASSUME CachesInv, NEW p \in Processes, NEW c \in Caches, NEW x \in CacheRec(c),
         SetCache(p, c, x), made' = made
  PROVE  /\ DOMAIN cache' = Processes /\ cache'[p][c] = x
         /\ \A q \in Processes, d \in Caches : q # p \/ d # c => cache'[q][d] = cache[q][d]
         /\ \A q \in Processes : DOMAIN cache'[q] = Caches
         /\ \A q \in Processes, d \in Caches : cache'[q][d] \in CacheRec(d)'
<1>1. cache' = [cache EXCEPT ![p] = [cache[p] EXCEPT ![c] = x]]
  BY DEF SetCache
<1>2. \A d \in Caches : CacheRec(d)' = CacheRec(d)
  BY DEF CacheRec, Values
<1>3. DOMAIN cache' = Processes /\ cache'[p] = [cache[p] EXCEPT ![c] = x]
      /\ \A q \in Processes : q # p => cache'[q] = cache[q]
  BY <1>1 DEF CachesInv
<1>4. DOMAIN cache'[p] = Caches
      /\ cache'[p][c] = x /\ \A d \in Caches : d # c => cache'[p][d] = cache[p][d]
  BY <1>3 DEF CachesInv
<1>5. \A q \in Processes : DOMAIN cache'[q] = Caches
  BY <1>3, <1>4 DEF CachesInv
<1>6. \A q \in Processes, d \in Caches : q # p \/ d # c => cache'[q][d] = cache[q][d]
  BY <1>3, <1>4
<1>7. \A q \in Processes, d \in Caches : cache'[q][d] \in CacheRec(d)
  BY <1>4, <1>6 DEF CachesInv
<1> QED
  BY <1>2, <1>3, <1>4, <1>5, <1>6, <1>7

LEMMA ExpireEntryOK ==
  ASSUME AuthInv, NEW p \in Processes, NEW c \in Caches, ExpireEntry(p, c)
  PROVE  AuthInv'
<1> DEFINE x == [cache[p][c] EXCEPT !.fresh = FALSE]
<1>1. cache[p][c] \in CacheRec(c)
  BY DEF AuthInv, CachesInv
<1>2. x \in CacheRec(c) /\ x.fresh = FALSE
  BY <1>1 DEF CacheRec
<1>3. SetCache(p, c, x) /\ UNCHANGED <<setupVars, loading, lastRead>>
  BY DEF ExpireEntry
<1> HIDE DEF x
<1>4. SetupInv'
  BY <1>3, SetupUnchanged DEF AuthInv, setupVars
<1>5. CachesInv'
  BY <1>2, <1>3, SetCacheOK DEF AuthInv, CachesInv, setupVars, Values
<1>6. FreshInv'
  BY <1>2, <1>3, SetCacheOK DEF AuthInv, FreshInv, setupVars, Caches
<1>7. PhaseInv'
  BY <1>3 DEF AuthInv, PhaseInv, ToRefresh, setupVars
<1> QED
  BY <1>4, <1>5, <1>6, <1>7 DEF AuthInv

LEMMA BeginLoadOK ==
  ASSUME AuthInv, NEW p \in Processes, NEW c \in Caches, BeginLoad(p, c)
  PROVE  AuthInv'
<1>1. PICK read \in {Stored(c), Unknown} :
        loading' = [loading EXCEPT ![p] = [loading[p] EXCEPT ![c] = [busy |-> TRUE, read |-> read]]]
  BY DEF BeginLoad
<1>2. UNCHANGED <<config, order, remote, op, made, unsure, steps, cache, lastRead>>
  BY DEF BeginLoad
<1>3. read \in Values(c) \cup {Unknown}
  BY <1>1, StoredOK DEF AuthInv
<1>5. CachesInv'
  <2>1. /\ DOMAIN loading' = Processes
        /\ loading'[p] = [loading[p] EXCEPT ![c] = [busy |-> TRUE, read |-> read]]
        /\ \A q \in Processes : q # p => loading'[q] = loading[q]
    BY <1>1 DEF AuthInv, CachesInv
  <2>2. /\ DOMAIN loading'[p] = Caches /\ loading'[p][c].read = read
        /\ \A d \in Caches : d # c => loading'[p][d] = loading[p][d]
    BY <2>1 DEF AuthInv, CachesInv
  <2>3. \A q \in Processes : DOMAIN loading'[q] = Caches
    BY <2>1, <2>2 DEF AuthInv, CachesInv
  <2>4. \A q \in Processes, d \in Caches : loading'[q][d].read \in Values(d) \cup {Unknown}
    <3> SUFFICES ASSUME NEW q \in Processes, NEW d \in Caches
                 PROVE  loading'[q][d].read \in Values(d) \cup {Unknown}
      OBVIOUS
    <3>1. CASE q = p /\ d = c
      BY <1>3, <2>2, <3>1
    <3>2. CASE q # p \/ d # c
      <4>1. loading'[q][d] = loading[q][d]
        BY <2>1, <2>2, <3>2
      <4> QED
        BY <4>1 DEF AuthInv, CachesInv
    <3> QED
      BY <3>1, <3>2
  <2>5. \A d \in Caches : Values(d)' = Values(d) /\ CacheRec(d)' = CacheRec(d)
    BY <1>2 DEF Values, CacheRec
  <2>6. \A q \in Processes, d \in Caches : cache'[q][d] \in CacheRec(d)
    BY <1>2 DEF AuthInv, CachesInv
  <2>7. /\ DOMAIN cache' = Processes /\ DOMAIN lastRead' = Processes
        /\ \A q \in Processes : DOMAIN cache'[q] = Caches /\ lastRead'[q] \in 0 .. made'
    BY <1>2 DEF AuthInv, CachesInv
  <2> QED
    BY <2>1, <2>3, <2>4, <2>5, <2>6, <2>7 DEF CachesInv
<1>6. SetupInv' /\ PhaseInv'
  BY <1>2, SetupUnchanged DEF AuthInv, PhaseInv, ToRefresh
<1>7. FreshInv'
  BY <1>2 DEF AuthInv, FreshInv, AuthEnabled
<1> QED
  BY <1>5, <1>6, <1>7 DEF AuthInv

\* A load that sets a cache: a token cache is then without a token only if the
\* load read that there is none.
LEMMA LoadOK ==
  ASSUME AuthInv, NEW p \in Processes, NEW c \in Caches, NEW read \in Values(c) \cup {Unknown},
         Load(p, c, read), made' = made
  PROVE  /\ DOMAIN cache' = Processes /\ DOMAIN lastRead' = Processes
         /\ \A q \in Processes : DOMAIN cache'[q] = Caches
         /\ \A q \in Processes, d \in Caches : cache'[q][d] \in CacheRec(d)'
         /\ \A q \in Processes : lastRead'[q] \in 0 .. made
         /\ FreshInv'
         /\ c = "token" /\ ~AuthEnabled(cache'[p]["token"]) => lastRead'[p] = 0
<1> DEFINE x == Loaded(c, cache[p][c], read)
<1>1. cache[p][c] \in CacheRec(c)
  BY DEF AuthInv, CachesInv
<1>2. /\ x \in CacheRec(c)
      /\ read # Unknown => x.val = read
      /\ c = "token" /\ read = Unknown => AuthEnabled(x)
  BY <1>1, LoadedOK
<1>3. SetCache(p, c, x) /\ lastRead' = IF c = "token" /\ read # Unknown
                                       THEN [lastRead EXCEPT ![p] = read] ELSE lastRead
  BY DEF Load
<1> HIDE DEF x
<1>4. /\ DOMAIN cache' = Processes /\ cache'[p][c] = x
      /\ \A q \in Processes, d \in Caches : q # p \/ d # c => cache'[q][d] = cache[q][d]
      /\ \A q \in Processes : DOMAIN cache'[q] = Caches
      /\ \A q \in Processes, d \in Caches : cache'[q][d] \in CacheRec(d)'
  BY <1>2, <1>3, SetCacheOK DEF AuthInv
<1>5. /\ DOMAIN lastRead' = Processes
      /\ \A q \in Processes : lastRead'[q] \in 0 .. made
      /\ \A q \in Processes : q # p \/ c # "token" \/ read = Unknown => lastRead'[q] = lastRead[q]
      /\ c = "token" /\ read # Unknown => lastRead'[p] = read
  BY <1>3 DEF AuthInv, CachesInv, Values
<1>6. ASSUME c = "token", ~AuthEnabled(cache'[p]["token"])
      PROVE  lastRead'[p] = 0
  <2>1. cache'[p]["token"] = x /\ ~AuthEnabled(x)
    BY <1>4, <1>6
  <2>2. read # Unknown
    BY <1>2, <1>6, <2>1
  <2>3. read = 0
    BY <1>2, <2>1, <2>2 DEF AuthEnabled
  <2> QED
    BY <1>5, <1>6, <2>2, <2>3
<1>7. FreshInv'
  <2> SUFFICES ASSUME NEW q \in Processes, cache'[q]["token"].fresh,
                      ~AuthEnabled(cache'[q]["token"])
               PROVE  lastRead'[q] = 0
    BY DEF FreshInv, AuthEnabled
  <2>1. CASE q = p /\ c = "token"
    BY <1>6, <2>1
  <2>2. CASE q # p \/ c # "token"
    <3>1. cache'[q]["token"] = cache[q]["token"] /\ lastRead'[q] = lastRead[q]
      BY <1>4, <1>5, <2>2 DEF Caches
    <3> QED
      BY <3>1 DEF AuthInv, FreshInv
  <2> QED
    BY <2>1, <2>2
<1> QED
  BY <1>4, <1>5, <1>6, <1>7

LEMMA SetupVarsOK ==
  ASSUME AuthInv, UNCHANGED <<config, order, remote, made, unsure, steps>>,
         \/ op' = op
         \/ /\ op.phase # "none" /\ op' = [op EXCEPT !.phase = "commit"]
         \/ /\ op.phase # "none" /\ op' = [op EXCEPT !.phase = "load"] /\ ToRefresh # "none"
  PROVE  SetupInv' /\ PhaseInv'
<1>1. CASE op' = op
  BY <1>1, SetupUnchanged DEF AuthInv, PhaseInv, ToRefresh
<1>2. CASE op.phase # "none" /\ op' = [op EXCEPT !.phase = "commit"]
  <2>1. op'.phase = "commit"
    BY <1>2, SetupFacts DEF AuthInv, StepRec
  <2> QED
    BY <1>2, <2>1, PhaseOK DEF AuthInv, PhaseInv
<1>3. CASE op.phase # "none" /\ op' = [op EXCEPT !.phase = "load"] /\ ToRefresh # "none"
  <2>1. op'.kind = op.kind
    BY <1>3, SetupFacts DEF AuthInv, StepRec
  <2>2. ToRefresh' = ToRefresh
    BY <2>1 DEF ToRefresh
  <2> QED
    BY <1>3, <2>2, PhaseOK DEF AuthInv, PhaseInv
<1> QED
  BY <1>1, <1>2, <1>3

LEMMA EndLoadOK ==
  ASSUME AuthInv, NEW p \in Processes, NEW c \in Caches, EndLoad(p, c)
  PROVE  AuthInv' /\ (c = "token" /\ ~AuthEnabled(cache'[p]["token"]) => lastRead'[p] = 0)
<1> DEFINE read == loading[p][c].read
<1>1. /\ Load(p, c, read) /\ UNCHANGED setupVars
      /\ loading' = [loading EXCEPT ![p] = [loading[p] EXCEPT ![c] = NotLoading]]
  BY DEF EndLoad
<1>2. read \in Values(c) \cup {Unknown}
  BY DEF AuthInv, CachesInv
<1> HIDE DEF read
<1>3. made' = made
  BY <1>1 DEF setupVars
<1>4. /\ DOMAIN cache' = Processes /\ DOMAIN lastRead' = Processes
      /\ \A q \in Processes : DOMAIN cache'[q] = Caches
      /\ \A q \in Processes, d \in Caches : cache'[q][d] \in CacheRec(d)'
      /\ \A q \in Processes : lastRead'[q] \in 0 .. made
      /\ FreshInv'
      /\ c = "token" /\ ~AuthEnabled(cache'[p]["token"]) => lastRead'[p] = 0
  BY <1>1, <1>2, <1>3, LoadOK
<1>5. /\ DOMAIN loading' = Processes /\ DOMAIN loading'[p] = Caches
      /\ \A q \in Processes : q # p => loading'[q] = loading[q]
      /\ \A d \in Caches : loading'[p][d] \in {loading[p][d], NotLoading}
  BY <1>1 DEF AuthInv, CachesInv
<1>6. \A d \in Caches : Values(d)' = Values(d)
  BY <1>3 DEF Values
<1>7. CachesInv'
  <2>1. \A q \in Processes, d \in Caches : loading'[q][d].read \in Values(d) \cup {Unknown}
    BY <1>5 DEF AuthInv, CachesInv, NotLoading
  <2>2. \A q \in Processes : DOMAIN loading'[q] = Caches
    BY <1>5 DEF AuthInv, CachesInv
  <2> QED
    BY <1>3, <1>4, <1>5, <1>6, <2>1, <2>2 DEF CachesInv
<1>8. SetupInv' /\ PhaseInv'
  BY <1>1, SetupVarsOK DEF setupVars
<1> QED
  BY <1>4, <1>7, <1>8 DEF AuthInv

LEMMA RestartProcessOK ==
  ASSUME AuthInv, NEW p \in Processes, RestartProcess(p)
  PROVE  AuthInv'
<1> DEFINE Empty(c) == [val |-> Nothing(c), err |-> FALSE, fresh |-> FALSE]
<1>1. PICK read \in {Stored("token"), Unknown} :
        /\ cache' = [cache EXCEPT ![p] = [c \in Caches |->
                       Loaded(c, Empty(c), IF read = Unknown THEN Unknown ELSE Stored(c))]]
        /\ lastRead' = [lastRead EXCEPT ![p] = IF read = Unknown THEN @ ELSE read]
  BY DEF RestartProcess
<1>2. /\ loading' = [loading EXCEPT ![p] = [c \in Caches |-> NotLoading]]
      /\ UNCHANGED <<config, order, remote, op, made, unsure, steps>>
  BY DEF RestartProcess
<1>3. \A c \in Caches : Empty(c) \in CacheRec(c)
  BY SetupFacts DEF AuthInv, Nothing, CacheRec, Values
<1> HIDE DEF Empty
<1> DEFINE Rd(c) == IF read = Unknown THEN Unknown ELSE Stored(c)
<1>4. \A c \in Caches : Rd(c) \in Values(c) \cup {Unknown}
  BY StoredOK DEF AuthInv
<1>5. Rd("token") = read
  BY <1>1
<1>6. /\ DOMAIN cache' = Processes /\ DOMAIN cache'[p] = Caches
      /\ \A q \in Processes : q # p => cache'[q] = cache[q]
      /\ \A c \in Caches : cache'[p][c] = Loaded(c, Empty(c), Rd(c))
  BY <1>1 DEF AuthInv, CachesInv
<1> HIDE DEF Rd
<1>7. \A c \in Caches : cache'[p][c] \in CacheRec(c)
  BY <1>3, <1>4, <1>6, LoadedOK
<1>8. /\ DOMAIN lastRead' = Processes /\ \A q \in Processes : q # p => lastRead'[q] = lastRead[q]
      /\ lastRead'[p] = IF read = Unknown THEN lastRead[p] ELSE read
  BY <1>1 DEF AuthInv, CachesInv
<1>9. /\ DOMAIN loading' = Processes /\ \A q \in Processes : q # p => loading'[q] = loading[q]
      /\ DOMAIN loading'[p] = Caches /\ \A c \in Caches : loading'[p][c].read = Unknown
  BY <1>2 DEF AuthInv, CachesInv, NotLoading
<1>10. "token" \in Caches
  BY DEF Caches
<1>11. CachesInv'
  <2>1. \A c \in Caches : Values(c)' = Values(c) /\ CacheRec(c)' = CacheRec(c)
    BY <1>2 DEF Values, CacheRec
  <2>2. \A q \in Processes : lastRead'[q] \in 0 .. made'
    <3>1. read # Unknown => read \in 0 .. made
      BY <1>4, <1>5, <1>10 DEF Values
    <3> QED
      BY <1>2, <1>8, <3>1 DEF AuthInv, CachesInv
  <2>3. \A q \in Processes, c \in Caches : cache'[q][c] \in CacheRec(c)
    BY <1>6, <1>7 DEF AuthInv, CachesInv
  <2>4. \A q \in Processes, c \in Caches : loading'[q][c].read \in Values(c) \cup {Unknown}
    BY <1>9 DEF AuthInv, CachesInv
  <2>5. \A q \in Processes : DOMAIN cache'[q] = Caches /\ DOMAIN loading'[q] = Caches
    BY <1>6, <1>9 DEF AuthInv, CachesInv
  <2> QED
    BY <1>6, <1>8, <1>9, <2>1, <2>2, <2>3, <2>4, <2>5 DEF CachesInv
<1>12. FreshInv'
  <2> SUFFICES ASSUME NEW q \in Processes, cache'[q]["token"].fresh,
                      ~AuthEnabled(cache'[q]["token"])
               PROVE  lastRead'[q] = 0
    BY DEF FreshInv, AuthEnabled
  <2>1. CASE q # p
    BY <1>6, <1>8, <2>1 DEF AuthInv, FreshInv
  <2>2. CASE q = p
    <3>1. PICK x : x = Loaded("token", Empty("token"), read)
      OBVIOUS
    <3>2. cache'[p]["token"] = x
      BY <1>5, <1>6, <1>10, <3>1
    <3>3. /\ read # Unknown => x.val = read
          /\ read = Unknown => AuthEnabled(x)
      BY <1>3, <1>4, <1>5, <1>10, <3>1, LoadedOK
    <3>4. read # Unknown
      BY <2>2, <3>2, <3>3
    <3>5. read = 0
      BY <2>2, <3>2, <3>3, <3>4 DEF AuthEnabled
    <3> QED
      BY <1>8, <2>2, <3>4, <3>5
  <2> QED
    BY <2>1, <2>2
<1> QED
  BY <1>2, <1>11, <1>12, SetupVarsOK DEF AuthInv

\* Setting the cache of a process that there is not.
LEMMA ElsewhereOK ==
  ASSUME CachesInv, FreshInv, NEW p, p \notin Processes, NEW c, NEW x, SetCache(p, c, x),
         UNCHANGED <<made, loading>>,
         \/ lastRead' = lastRead
         \/ \E n : lastRead' = [lastRead EXCEPT ![p] = n]
  PROVE  CachesInv' /\ FreshInv'
<1>1. DOMAIN cache' = Processes /\ \A q \in Processes : cache'[q] = cache[q]
  BY DEF SetCache, CachesInv
<1>2. DOMAIN lastRead' = Processes /\ \A q \in Processes : lastRead'[q] = lastRead[q]
  BY DEF CachesInv
<1>3. \A c1 \in Caches : Values(c1)' = Values(c1) /\ CacheRec(c1)' = CacheRec(c1)
  BY DEF Values, CacheRec
<1>4. CachesInv'
  BY <1>1, <1>2, <1>3 DEF CachesInv
<1>5. FreshInv'
  BY <1>1, <1>2 DEF FreshInv, AuthEnabled
<1> QED
  BY <1>4, <1>5

LEMMA InvalidateCacheOK ==
  ASSUME AuthInv, InvalidateCache
  PROVE  AuthInv'
<1>1. PICK c \in Caches : c = ToRefresh
  BY DEF InvalidateCache, ToRefresh, Caches
<1>2. PICK x : x = Invalidated(c, cache["backend"][c])
  OBVIOUS
<1>3. /\ SetCache("backend", c, x) /\ op.phase = "refresh" /\ ToRefresh # "none"
      /\ op' = [op EXCEPT !.phase = "load"]
      /\ UNCHANGED <<config, order, remote, made, unsure, steps, loading, lastRead>>
  BY <1>1, <1>2 DEF InvalidateCache
<1>4. SetupInv' /\ PhaseInv'
  BY <1>3, SetupVarsOK
<1>5. CASE "backend" \notin Processes
  BY <1>3, <1>4, <1>5, ElsewhereOK DEF AuthInv
<1>6. CASE "backend" \in Processes
  <2>1. cache["backend"][c] \in CacheRec(c)
    BY <1>6 DEF AuthInv, CachesInv
  <2>2. PICK e \in BOOLEAN : e = (c = "token" /\ cache["backend"][c].err)
    BY <2>1 DEF CacheRec
  <2>3. x = [val |-> Nothing(c), err |-> e, fresh |-> FALSE]
    BY <1>2, <2>2 DEF Invalidated
  <2>4. x \in CacheRec(c) /\ x.fresh = FALSE
    BY <2>3, SetupFacts DEF AuthInv, CacheRec, Values, Nothing
  <2>5. /\ DOMAIN cache' = Processes /\ cache'["backend"][c] = x
        /\ \A q \in Processes, d \in Caches :
              q # "backend" \/ d # c => cache'[q][d] = cache[q][d]
        /\ \A q \in Processes : DOMAIN cache'[q] = Caches
        /\ \A q \in Processes, d \in Caches : cache'[q][d] \in CacheRec(d)'
    BY <1>3, <1>6, <2>4, SetCacheOK DEF AuthInv
  <2>6. CachesInv'
    BY <1>3, <2>5 DEF AuthInv, CachesInv, Values
  <2>7. FreshInv'
    BY <1>3, <2>4, <2>5 DEF AuthInv, FreshInv, AuthEnabled, Caches
  <2> QED
    BY <1>4, <2>6, <2>7 DEF AuthInv
<1> QED
  BY <1>5, <1>6

LEMMA ReloadCacheOK ==
  ASSUME AuthInv, ReloadCache
  PROVE  AuthInv'
<1>1. PICK c \in Caches : c = ToRefresh
  BY DEF ReloadCache, ToRefresh, Caches, AuthInv, PhaseInv
<1>2. PICK read \in Values(c) \cup {Unknown} : read = Stored(c)
  BY StoredOK DEF AuthInv
<1>3. /\ Load("backend", c, read) /\ op.phase = "load" /\ op' = [op EXCEPT !.phase = "commit"]
      /\ UNCHANGED <<config, order, remote, made, unsure, steps, loading>>
  BY <1>1, <1>2 DEF ReloadCache
<1>4. SetupInv' /\ PhaseInv'
  BY <1>3, SetupVarsOK
<1>5. CASE "backend" \notin Processes
  BY <1>3, <1>4, <1>5, ElsewhereOK DEF AuthInv, Load
<1>6. CASE "backend" \in Processes
  <2>1. /\ DOMAIN cache' = Processes /\ DOMAIN lastRead' = Processes
        /\ \A q \in Processes : DOMAIN cache'[q] = Caches
        /\ \A q \in Processes, d \in Caches : cache'[q][d] \in CacheRec(d)'
        /\ \A q \in Processes : lastRead'[q] \in 0 .. made
        /\ FreshInv'
    BY <1>3, <1>6, LoadOK
  <2>2. CachesInv'
    BY <1>3, <2>1 DEF AuthInv, CachesInv, Values
  <2> QED
    BY <1>4, <2>1, <2>2 DEF AuthInv
<1> QED
  BY <1>5, <1>6

LEMMA NothingToRefreshOK ==
  ASSUME AuthInv, NothingToRefresh
  PROVE  AuthInv'
<1>1. SetupInv' /\ PhaseInv'
  BY SetupVarsOK DEF NothingToRefresh
<1>2. CachesInv' /\ FreshInv'
  BY CachesKept DEF AuthInv, NothingToRefresh
<1> QED
  BY <1>1, <1>2 DEF AuthInv

LEMMA WizardPhase ==
  ASSUME AuthInv, WizardStep
  PROVE  PhaseInv' /\ made' \in {made, made + 1}
<1>1. ASSUME NEW k \in Configs, StartWizard(k)
      PROVE  op' = op /\ made' = made
  BY <1>1 DEF StartWizard
<1>2. ASSUME NEW kind, NEW k, NEW outcome, NEW there, NEW done, NEW refused,
             Work(kind, k, outcome, there, done, refused)
      PROVE  op'.phase # "load"
  BY <1>2, NoStepOK DEF Work
<1>3. CASE \E k \in Configs : StartWizard(k)
  BY <1>1, <1>3 DEF AuthInv, PhaseInv, ToRefresh
<1>4. ASSUME NEW k \in Configs, NEW force \in BOOLEAN, CreateTunnel(k, force) \/ CreateVpcService(k, force)
      PROVE  op'.phase # "load" /\ made' = made
  BY <1>2, <1>4 DEF CreateTunnel, CreateVpcService
<1>5. ASSUME NEW k \in Configs, DeployWorker(k)
      PROVE  op'.phase # "load" /\ made' = made + 1
  BY <1>2, <1>5 DEF DeployWorker
<1>6. ASSUME NEW k \in Configs, NEW p \in Policies \cup {NoPolicy}, ConfigureWorker(k, p)
      PROVE  op'.phase # "load" /\ made' = made
  BY <1>2, <1>6 DEF ConfigureWorker
<1>7. ASSUME NEW k \in Configs, NEW p \in Policies, UpdatePolicy(k, p)
      PROVE  op'.phase # "load" /\ made' = made
  BY <1>2, <1>7 DEF UpdatePolicy
<1>8. ASSUME NEW k \in Configs, Teardown(k)
      PROVE  op'.phase # "load" /\ made' = made
  BY <1>2, <1>8 DEF Teardown
<1> QED
  BY <1>3, <1>4, <1>5, <1>6, <1>7, <1>8 DEF WizardStep, PhaseInv

LEMMA AuthStepOK == AuthInv /\ [AuthNext]_authVars => AuthInv'
<1> SUFFICES ASSUME AuthInv, [AuthNext]_authVars PROVE AuthInv'
  OBVIOUS
<1>1. CASE WizardStep /\ UNCHANGED cacheVars
  BY <1>1, WizardStepOK, WizardPhase, CachesKept DEF AuthInv
<1>2. CASE CommitStep /\ UNCHANGED cacheVars
  <2>1. made' = made /\ op' = NoStep
    BY <1>2 DEF CommitStep
  <2>2. PhaseInv'
    BY <2>1, NoStepOK DEF PhaseInv
  <2> QED
    BY <1>2, <2>1, <2>2, CommitStepOK, CachesKept DEF AuthInv
<1>3. CASE UNCHANGED authVars
  BY <1>3, SetupVarsOK, CachesKept DEF AuthInv, authVars, setupVars
<1> QED
  BY <1>1, <1>2, <1>3, InvalidateCacheOK, ReloadCacheOK, NothingToRefreshOK, RestartProcessOK,
     ExpireEntryOK, BeginLoadOK, EndLoadOK
     DEF AuthNext

-----------------------------------------------------------------------------
(* The types of the wizard's rows and of the caches: a step is recorded    *)
(* only after the one before it, in every order of steps, failures and     *)
(* restarts of the wizard.                                                 *)
THEOREM AuthTypeCorrect == AuthSpec => [](SetupTypeOK /\ AuthTypeOK)
<1>1. AuthInv => SetupTypeOK /\ AuthTypeOK
  <2> SUFFICES ASSUME AuthInv PROVE SetupTypeOK /\ AuthTypeOK
    OBVIOUS
  <2>1. SetupTypeOK
    BY SetupFacts DEF AuthInv, SetupInv, TypesInv, OrderInv, RowsInv, Chained, SetupTypeOK
  <2>2. AuthTypeOK
    BY DEF AuthInv, CachesInv, CacheRec, Values, AuthTypeOK
  <2> QED
    BY <2>1, <2>2
<1> QED
  BY <1>1, AuthInitOK, AuthStepOK, PTL DEF AuthSpec

(* When no step is under way and one row is left, the Worker presents the  *)
(* token of that row if it is active, unless a step was interrupted or     *)
(* could not hand it over and nothing has repaired that: the invariant     *)
(* follows the row through the draft a step is going to commit.            *)
THEOREM WorkerCorrect == AuthSpec => []WorkerInSync
<1>1. AuthInv => WorkerInSync
  BY DEF AuthInv, SetupInv, RowsInv, SyncInv, CurrentRow, Chained, Active, WorkerInSync
<1> QED
  BY <1>1, AuthInitOK, AuthStepOK, PTL DEF AuthSpec

(* The caches fail closed: whatever loads fail, overtake one another or    *)
(* are cut off by an invalidate, a process takes a request without a token *)
(* for a local one only if the last answer it had from the database was    *)
(* that there is no token.                                                 *)
THEOREM LocalOnlyCorrect == AuthSpec => LocalOnlyIfRead
<1> DEFINE A == \A p \in Processes :
                  /\ cache'[p]["token"].fresh \/ EndLoad(p, "token")
                  /\ ~AuthEnabled(cache'[p]["token"])
                  => lastRead'[p] = 0
<1>1. AuthInv /\ [AuthNext]_authVars => [A]_authVars
  <2> SUFFICES ASSUME AuthInv, [AuthNext]_authVars PROVE A
    OBVIOUS
  <2>1. FreshInv'
    BY AuthStepOK DEF AuthInv
  <2>2. \A p \in Processes : EndLoad(p, "token") /\ ~AuthEnabled(cache'[p]["token"]) => lastRead'[p] = 0
    BY EndLoadOK DEF Caches
  <2> QED
    BY <2>1, <2>2 DEF FreshInv, AuthEnabled
<1> QED
  BY <1>1, AuthInitOK, AuthStepOK, PTL DEF AuthSpec, LocalOnlyIfRead

-----------------------------------------------------------------------------
(* The circuit breaker: CircuitBreaker.                                    *)

RequestsOK ==
    /\ req \in [Requests -> [pc : RequestPcs, attempt : 0 .. MaxRetries]]
    /\ \A r \in Requests : req[r].pc = "backoff" => req[r].attempt < MaxRetries

IInv ==
    /\ BreakerTypeOK
    /\ CountsRequests
    /\ b.state = "half_open" => b.successes < SuccessThreshold
    /\ b.state = "open" => b.age # Never
    /\ RequestsOK

\* What the methods of the breaker do to a breaker state.
LEMMA FreshOK == Fresh \in Breaker
  BY BreakerConstantsOK DEF Fresh, Breaker, States

LEMMA CheckedOK ==
  ASSUME NEW x \in Breaker
  PROVE  /\ Checked(x) \in Breaker
         /\ x.state = "open" => Checked(x) = [x EXCEPT !.state = "half_open", !.successes = 0]
         /\ x.state # "open" => Checked(x) = x
<1>1. CASE x.state = "open"
  <2>1. Checked(x) = [x EXCEPT !.state = "half_open", !.successes = 0]
    BY <1>1 DEF Checked
  <2>2. /\ "half_open" \in States
        /\ 0 \in 0 .. SuccessThreshold
    BY BreakerConstantsOK DEF States
  <2>3. Checked(x) =
          [state |-> "half_open", failures |-> x.failures, successes |-> 0, age |-> x.age]
    BY <2>1 DEF Breaker
  <2>4. x.failures \in 0 .. MaxFailures /\ x.age \in {Never} \cup (0 .. Timeout)
    BY DEF Breaker
  <2>5. Checked(x) \in Breaker
    BY <2>1, <2>2, <2>3, <2>4 DEF Breaker
  <2> QED
    BY <1>1, <2>1, <2>5
<1>2. CASE x.state # "open"
  BY <1>2 DEF Checked
<1> QED
  BY <1>1, <1>2

LEMMA RecordSuccessOK ==
  ASSUME NEW x \in Breaker,
         x.state = "half_open" => x.successes < SuccessThreshold
  PROVE  /\ RecordSuccess(x) \in Breaker
         /\ RecordSuccess(x).state = "closed" => RecordSuccess(x).failures = 0
         /\ RecordSuccess(x).state = "half_open" =>
               RecordSuccess(x).successes < SuccessThreshold
         /\ RecordSuccess(x).state = "open" => RecordSuccess(x) = x
<1>1. CASE x.state = "half_open" /\ x.successes + 1 >= SuccessThreshold
  <2>1. ~(x.successes + 1 < SuccessThreshold)
    BY <1>1, BreakerConstantsOK DEF Breaker
  <2>2. RecordSuccess(x) =
          [x EXCEPT !.state = "closed", !.successes = x.successes + 1, !.failures = 0]
    BY <1>1, <2>1 DEF RecordSuccess
  <2>3. RecordSuccess(x) = [state |-> "closed", failures |-> 0,
                            successes |-> x.successes + 1, age |-> x.age]
    BY <2>2 DEF Breaker
  <2>4. x.successes + 1 \in 0 .. SuccessThreshold
    BY <1>1, BreakerConstantsOK DEF Breaker
  <2>5. 0 \in 0 .. MaxFailures /\ x.age \in {Never} \cup (0 .. Timeout)
    BY BreakerConstantsOK DEF Breaker
  <2> QED
    BY <2>3, <2>4, <2>5 DEF Breaker, States
<1>2. CASE x.state = "half_open" /\ x.successes + 1 < SuccessThreshold
  <2>1. ~(x.successes + 1 >= SuccessThreshold)
    BY <1>2, BreakerConstantsOK DEF Breaker
  <2>2. RecordSuccess(x) = [x EXCEPT !.successes = @ + 1]
    BY <1>2, <2>1 DEF RecordSuccess
  <2> QED
    BY <1>2, <2>2, BreakerConstantsOK DEF Breaker, States
<1>3. CASE x.state = "closed"
  <2>1. RecordSuccess(x) = [x EXCEPT !.failures = 0]
    BY <1>3 DEF RecordSuccess
  <2> QED
    BY <1>3, <2>1, BreakerConstantsOK DEF Breaker, States
<1>4. CASE x.state = "open"
  <2>1. RecordSuccess(x) = x
    BY <1>4 DEF RecordSuccess
  <2> QED
    BY <1>4, <2>1
<1> QED
  BY <1>1, <1>2, <1>3, <1>4, BreakerConstantsOK DEF Breaker, States

LEMMA BumpOK ==
  ASSUME NEW n \in 0 .. MaxFailures
  PROVE  Bump(n) \in 0 .. MaxFailures
  BY BreakerConstantsOK DEF Bump

LEMMA RecordFailureOK ==
  ASSUME NEW x \in Breaker
  PROVE  /\ RecordFailure(x) \in Breaker
         /\ x.state = "open" => RecordFailure(x) = x
         /\ x.state # "open" => /\ RecordFailure(x).failures = Bump(x.failures)
                                /\ RecordFailure(x).age = 0
                                /\ RecordFailure(x).state \in {x.state, "open"}
                                /\ RecordFailure(x).state = "half_open" => FALSE
                                /\ RecordFailure(x).state = "closed" =>
                                      Bump(x.failures) < FailureThreshold
<1>1. Bump(x.failures) \in 0 .. MaxFailures
  BY BumpOK DEF Breaker
<1>2. CASE x.state = "open"
  BY <1>2 DEF RecordFailure
<1>3. CASE x.state # "open"
  <2>1. RecordFailure(x) = [x EXCEPT !.failures = Bump(x.failures), !.age = 0,
              !.state = IF x.state = "half_open" \/ Bump(x.failures) >= FailureThreshold
                        THEN "open" ELSE x.state]
    BY <1>3 DEF RecordFailure
  <2> DEFINE s == IF x.state = "half_open" \/ Bump(x.failures) >= FailureThreshold
                  THEN "open" ELSE x.state
  <2>2. s \in States \ {"half_open"} /\ s \in {x.state, "open"}
    BY DEF Breaker, States
  <2>3. s = "closed" => Bump(x.failures) < FailureThreshold
    BY <1>1, BreakerConstantsOK
  <2> HIDE DEF s
  <2>4. RecordFailure(x) = [state |-> s, failures |-> Bump(x.failures),
                            successes |-> x.successes, age |-> 0]
    BY <2>1 DEF s, Breaker
  <2>5. x.successes \in 0 .. SuccessThreshold /\ 0 \in 0 .. Timeout
    BY BreakerConstantsOK DEF Breaker
  <2>6. RecordFailure(x) \in Breaker
    BY <1>1, <2>2, <2>4, <2>5 DEF Breaker
  <2> QED
    BY <1>3, <2>2, <2>3, <2>4, <2>6
<1> QED
  BY <1>2, <1>3
-----------------------------------------------------------------------------
LEMMA InitIInv == BreakerInit => IInv
  BY FreshOK, BreakerConstantsOK
  DEF BreakerInit, IInv, BreakerTypeOK, CountsRequests, Fresh, RequestPcs, RequestsOK

\* Steps that move a request and leave the breaker alone.
LEMMA RequestsOnly ==
  ASSUME IInv, UNCHANGED <<b, exhausted>>,
         RequestsOK'
  PROVE  IInv'
  BY DEF IInv, RequestsOK, BreakerTypeOK, CountsRequests

LEMMA NextIInv == IInv /\ [BreakerNext]_breakerVars => IInv'
<1> SUFFICES ASSUME IInv, [BreakerNext]_breakerVars PROVE IInv'
  OBVIOUS
<1>0. /\ b \in Breaker
      /\ RequestsOK
      /\ exhausted \in 0 .. MaxFailures
  BY DEF IInv, BreakerTypeOK
<1>a. ASSUME NEW r \in Requests, NEW pc \in RequestPcs, Move(r, pc),
             pc = "backoff" => req[r].attempt < MaxRetries
      PROVE  RequestsOK'
  BY <1>0, <1>a DEF Move, RequestsOK
<1>b. ASSUME NEW r \in Requests, End(r)
      PROVE  RequestsOK'
  BY <1>0, <1>b, BreakerConstantsOK DEF End, RequestPcs, RequestsOK
<1>1. ASSUME NEW r \in Requests, Start(r) PROVE IInv'
  BY <1>1, <1>a, RequestsOnly DEF Start, RequestPcs
<1>2. ASSUME NEW r \in Requests, Refuse(r) PROVE IInv'
  BY <1>2, <1>b, RequestsOnly DEF Refuse
<1>3. ASSUME NEW r \in Requests, LetThrough(r) PROVE IInv'
  <2>1. RequestsOK'
    BY <1>3, <1>a DEF LetThrough, RequestPcs
  <2>2. b' = Checked(b) /\ exhausted' = exhausted
    BY <1>3 DEF LetThrough
  <2>3. CASE b.state = "open"
    <3>1. b' = [b EXCEPT !.state = "half_open", !.successes = 0] /\ b' \in Breaker
      BY <1>0, <2>2, <2>3, CheckedOK
    <3>2. b'.state = "half_open" /\ b'.successes = 0
      BY <1>0, <3>1 DEF Breaker
    <3> QED
      BY <1>0, <2>1, <2>2, <3>1, <3>2, BreakerConstantsOK
      DEF IInv, BreakerTypeOK, CountsRequests, RequestsOK
  <2>4. CASE b.state # "open"
    <3>1. b' = b
      BY <1>0, <2>2, <2>4, CheckedOK
    <3> QED
      BY <2>1, <2>2, <3>1, RequestsOnly
  <2> QED
    BY <2>3, <2>4
<1>4. ASSUME NEW r \in Requests, Succeed(r) PROVE IInv'
  <2>1. RequestsOK'
    BY <1>4, <1>b DEF Succeed
  <2>2. /\ b' = RecordSuccess(b)
        /\ exhausted' = IF b'.state = "closed" THEN 0 ELSE exhausted
    BY <1>4 DEF Succeed
  <2>3. /\ b' \in Breaker
        /\ b'.state = "closed" => b'.failures = 0
        /\ b'.state = "half_open" => b'.successes < SuccessThreshold
        /\ b'.state = "open" => b' = b
    BY <1>0, <2>2, RecordSuccessOK DEF IInv
  <2>4. exhausted' \in 0 .. MaxFailures
    BY <1>0, <2>2, BreakerConstantsOK
  <2> QED
    BY <2>1, <2>2, <2>3, <2>4, BreakerConstantsOK
    DEF IInv, BreakerTypeOK, CountsRequests, RequestsOK
<1>5. ASSUME NEW r \in Requests, Retry(r) PROVE IInv'
  BY <1>5, <1>a, RequestsOnly DEF Retry, RequestPcs
<1>6. ASSUME NEW r \in Requests, WakeUp(r) PROVE IInv'
  <2>1. RequestsOK'
    BY <1>0, <1>6, BreakerConstantsOK DEF WakeUp, RequestPcs, RequestsOK
  <2> QED
    BY <1>6, <2>1, RequestsOnly DEF WakeUp
<1>7. ASSUME NEW r \in Requests, Fail(r) PROVE IInv'
  <2>1. RequestsOK'
    BY <1>7, <1>b DEF Fail
  <2>2. /\ b' = RecordFailure(b)
        /\ exhausted' = IF b.state = "closed" THEN Bump(exhausted) ELSE exhausted
    BY <1>7 DEF Fail
  <2>3. exhausted' \in 0 .. MaxFailures
    BY <1>0, <2>2, BumpOK
  <2>4. b' \in Breaker
    BY <1>0, <2>2, RecordFailureOK
  <2>5. CASE b.state = "open"
    <3>1. b' = b
      BY <1>0, <2>2, <2>5, RecordFailureOK
    <3>2. exhausted' = exhausted
      BY <2>2, <2>5
    <3> QED
      BY <2>1, <3>1, <3>2, RequestsOnly
  <2>6. CASE b.state # "open"
    <3>1. /\ b'.failures = Bump(b.failures)
          /\ b'.age = 0
          /\ b'.state \in {b.state, "open"}
          /\ b'.state # "half_open"
          /\ b'.state = "closed" => Bump(b.failures) < FailureThreshold
      BY <1>0, <2>2, <2>6, RecordFailureOK
    <3>2. b'.state = "closed" => b'.failures = exhausted' /\ b'.failures < FailureThreshold
      <4> SUFFICES ASSUME b'.state = "closed"
                   PROVE  b'.failures = exhausted' /\ b'.failures < FailureThreshold
        OBVIOUS
      <4>1. b.state = "closed"
        BY <3>1
      <4>2. b.failures = exhausted
        BY <4>1 DEF IInv, CountsRequests
      <4> QED
        BY <2>2, <3>1, <4>1, <4>2
    <3> QED
      BY <2>1, <2>3, <2>4, <3>1, <3>2, BreakerConstantsOK
      DEF IInv, BreakerTypeOK, CountsRequests, RequestsOK
  <2> QED
    BY <2>5, <2>6
<1>8. ASSUME NEW r \in Requests, Cancel(r) PROVE IInv'
  BY <1>8, <1>b, RequestsOnly DEF Cancel
<1>9. ASSUME Reset PROVE IInv'
  <2>1. b' = Fresh /\ exhausted' = 0 /\ req' = req
    BY <1>9 DEF Reset
  <2>2. RequestsOK'
    BY <1>0, <2>1 DEF RequestsOK
  <2> QED
    BY <2>1, <2>2, FreshOK, BreakerConstantsOK
    DEF IInv, BreakerTypeOK, CountsRequests, RequestsOK, Fresh
<1>10. ASSUME Tick PROVE IInv'
  <2>1. /\ b.age # Never /\ b.age < Timeout
        /\ b' = [b EXCEPT !.age = b.age + 1]
        /\ req' = req /\ exhausted' = exhausted
    BY <1>10 DEF Tick
  <2>2. b' \in Breaker /\ b'.age \in Nat
    BY <1>0, <2>1, BreakerConstantsOK DEF Breaker
  <2>3. b'.state = b.state /\ b'.failures = b.failures /\ b'.successes = b.successes
    BY <1>0, <2>1 DEF Breaker
  <2> QED
    BY <1>0, <2>1, <2>2, <2>3, BreakerConstantsOK
    DEF IInv, BreakerTypeOK, CountsRequests, RequestsOK
<1>11. CASE UNCHANGED breakerVars
  BY <1>0, <1>11, RequestsOnly DEF breakerVars, RequestsOK
<1> QED
  BY <1>1, <1>2, <1>3, <1>4, <1>5, <1>6, <1>7, <1>8, <1>9, <1>10, <1>11 DEF BreakerNext, Step

\* The breaker and its requests keep their types, whatever the configuration.
THEOREM BreakerTypeCorrect == BreakerSpec => []BreakerTypeOK
<1>1. IInv => BreakerTypeOK
  BY DEF IInv
<1> QED
  BY <1>1, InitIInv, NextIInv, PTL DEF BreakerSpec

\* However requests interleave, retry, fail late or are cancelled, a closed
\* circuit has counted each request that failed in a row once, and fewer than
\* the threshold.
THEOREM CountingCorrect == BreakerSpec => []CountsRequests
<1>1. IInv => CountsRequests
  BY DEF IInv
<1> QED
  BY <1>1, InitIInv, NextIInv, PTL DEF BreakerSpec

\* No request puts off the recovery of an open circuit.
THEOREM TimerCorrect == BreakerSpec => TimerNotExtended
<1>1. ASSUME IInv, [BreakerNext]_breakerVars, b.state = "open", b'.state = "open"
      PROVE  b'.age >= b.age
  <2>0. b \in Breaker /\ b.age \in Nat
    BY <1>1, BreakerConstantsOK DEF IInv, BreakerTypeOK, Breaker
  <2>1. CASE b' = b
    BY <2>0, <2>1
  <2>2. CASE Tick
    BY <2>0, <2>2 DEF Tick, Breaker
  <2>3. CASE Reset
    BY <1>1, <2>3 DEF Reset, Fresh
  <2>4. ASSUME NEW r \in Requests, LetThrough(r) PROVE b'.age >= b.age
    <3>1. b' = [b EXCEPT !.state = "half_open", !.successes = 0]
      BY <1>1, <2>0, <2>4, CheckedOK DEF LetThrough
    <3> QED
      BY <1>1, <2>0, <3>1 DEF Breaker
  <2>5. ASSUME NEW r \in Requests, Succeed(r) PROVE b' = b
    BY <1>1, <2>0, <2>5, RecordSuccessOK DEF Succeed
  <2>6. ASSUME NEW r \in Requests, Fail(r) PROVE b' = b
    BY <1>1, <2>0, <2>6, RecordFailureOK DEF Fail
  <2>7. ASSUME NEW r \in Requests, Start(r) \/ Refuse(r) \/ Retry(r) \/ WakeUp(r) \/ Cancel(r)
        PROVE  b' = b
    BY <2>7 DEF Start, Refuse, Retry, WakeUp, Cancel
  <2> QED
    BY <1>1, <2>1, <2>2, <2>3, <2>4, <2>5, <2>6, <2>7 DEF BreakerNext, Step, breakerVars
<1>2. IInv /\ [BreakerNext]_breakerVars => [b.state = "open" /\ b'.state = "open" => b'.age >= b.age]_breakerVars
  BY <1>1
<1> QED
  BY <1>2, InitIInv, NextIInv, PTL DEF BreakerSpec, TimerNotExtended

-----------------------------------------------------------------------------
(* The activity log: ActivityLogger.                                       *)

Typed ==
    /\ pending \in Seq(Nat) /\ written \in Seq(Nat) /\ logged \in Nat
    /\ task \in [Tasks -> [pc : TaskPcs, batch : Seq(Nat)]]

-----------------------------------------------------------------------------
(* Sequences and the sets of their elements.                               *)

LEMMA ToSetEmpty == ToSet(<<>>) = {}
  BY DEF ToSet

LEMMA ToSetAppend ==
    ASSUME NEW s \in Seq(Nat), NEW n \in Nat
    PROVE  ToSet(Append(s, n)) = ToSet(s) \cup {n}
<1>1. DOMAIN s = 1 .. Len(s) /\ Len(s) \in Nat
  OBVIOUS
<1>2. DOMAIN Append(s, n) = 1 .. (Len(s) + 1)
  OBVIOUS
<1>3. \A i \in 1 .. Len(s) : Append(s, n)[i] = s[i]
  OBVIOUS
<1>4. Append(s, n)[Len(s) + 1] = n
  OBVIOUS
<1> QED
  BY <1>1, <1>2, <1>3, <1>4 DEF ToSet

LEMMA ToSetConcat ==
    ASSUME NEW s \in Seq(Nat), NEW u \in Seq(Nat)
    PROVE  ToSet(s \o u) = ToSet(s) \cup ToSet(u)
<1>1. /\ DOMAIN s = 1 .. Len(s) /\ Len(s) \in Nat
      /\ DOMAIN u = 1 .. Len(u) /\ Len(u) \in Nat
  OBVIOUS
<1>2. DOMAIN (s \o u) = 1 .. (Len(s) + Len(u))
  OBVIOUS
<1>3. \A i \in 1 .. Len(s) : (s \o u)[i] = s[i]
  OBVIOUS
<1>4. \A i \in 1 .. Len(u) : (s \o u)[Len(s) + i] = u[i]
  OBVIOUS
<1>5. \A k \in 1 .. (Len(s) + Len(u)) :
         k \in 1 .. Len(s) \/ \E i \in 1 .. Len(u) : k = Len(s) + i
  <2> SUFFICES ASSUME NEW k \in 1 .. (Len(s) + Len(u)), k \notin 1 .. Len(s)
               PROVE  k - Len(s) \in 1 .. Len(u) /\ k = Len(s) + (k - Len(s))
    OBVIOUS
  <2> QED
    BY <1>1
<1>6. \A i \in 1 .. Len(u) : Len(s) + i \in 1 .. (Len(s) + Len(u))
  BY <1>1
<1>7. ToSet(s \o u) \subseteq ToSet(s) \cup ToSet(u)
  <2>1. ASSUME NEW k \in 1 .. (Len(s) + Len(u))
        PROVE  (s \o u)[k] \in ToSet(s) \cup ToSet(u)
    <3>1. CASE k \in 1 .. Len(s)
      BY <1>1, <1>3, <3>1 DEF ToSet
    <3>2. CASE \E i \in 1 .. Len(u) : k = Len(s) + i
      BY <1>1, <1>4, <3>2 DEF ToSet
    <3> QED
      BY <1>5, <3>1, <3>2
  <2> QED
    BY <1>2, <2>1 DEF ToSet
<1>8. ToSet(s) \subseteq ToSet(s \o u)
  BY <1>1, <1>2, <1>3 DEF ToSet
<1>9. ToSet(u) \subseteq ToSet(s \o u)
  BY <1>1, <1>2, <1>4, <1>6 DEF ToSet
<1> QED
  BY <1>7, <1>8, <1>9

LEMMA ReaddedType ==
    ASSUME LoggerConstantsOK, Typed, NEW batch \in Seq(Nat)
    PROVE  Readded(batch) \in Seq(Nat)
<1>1. Len(batch) \in Nat /\ Len(pending) \in Nat /\ MaxPending \in Nat
  BY DEF Typed, LoggerConstantsOK
<1>2. ASSUME NEW n \in Nat, n <= Len(batch)
      PROVE  SubSeq(batch, 1, n) \in Seq(Nat)
  BY <1>2
<1> QED
  BY <1>1, <1>2 DEF Readded

-----------------------------------------------------------------------------
(* Typing.                                                                 *)

LEMMA TypedInit == LoggerInit => Typed
  BY DEF LoggerInit, Typed, NoTask, TaskPcs

LEMMA FinallyTyped ==
    ASSUME Typed, NEW t \in Tasks, NEW left \in Seq(Nat), Finally(t, left),
           UNCHANGED <<written, logged>>
    PROVE  Typed'
<1>1. NoTask \in [pc : TaskPcs, batch : Seq(Nat)] /\ Sleeping \in [pc : TaskPcs, batch : Seq(Nat)]
  BY DEF NoTask, Sleeping, TaskPcs
<1> QED
  BY <1>1 DEF Finally, Typed

LEMMA TypedNext == Typed /\ [LoggerNext]_loggerVars => Typed'
<1> SUFFICES ASSUME Typed, [LoggerNext]_loggerVars PROVE Typed'
  OBVIOUS
<1>1. CASE Log
  <2>1. Sleeping \in [pc : TaskPcs, batch : Seq(Nat)]
    BY DEF Sleeping, TaskPcs
  <2>n. logged \in Nat /\ pending \in Seq(Nat) /\ logged + 1 \in Nat
    BY DEF Typed
  <2>a. Append(pending, logged + 1) \in Seq(Nat)
    BY <2>n
  <2>2. pending' \in Seq(Nat) /\ logged' \in Nat /\ written' \in Seq(Nat)
    BY <1>1, <2>n, <2>a DEF Log, Typed
  <2>3. task' = task \/ \E t \in Tasks : task' = [task EXCEPT ![t] = Sleeping]
    BY <1>1 DEF Log
  <2>4. task' \in [Tasks -> [pc : TaskPcs, batch : Seq(Nat)]]
    <3>1. task \in [Tasks -> [pc : TaskPcs, batch : Seq(Nat)]]
      BY DEF Typed
    <3> QED
      BY <2>1, <2>3, <3>1
  <2> QED
    BY <2>2, <2>4 DEF Typed
<1>2. CASE Stop
  BY <1>2 DEF Stop, Typed, NoTask, TaskPcs
<1>3. ASSUME NEW t \in Tasks, Take(t) PROVE Typed'
  <2>1. CASE pending = <<>>
    <3>1. <<>> \in Seq(Nat)
      OBVIOUS
    <3>2. Finally(t, <<>>) /\ UNCHANGED <<written, logged>>
      BY <1>3, <2>1 DEF Take
    <3> QED
      BY <3>1, <3>2, FinallyTyped
  <2>2. CASE pending # <<>>
    <3> DEFINE x == [pc |-> "write", batch |-> pending]
    <3>1. x \in [pc : TaskPcs, batch : Seq(Nat)]
      BY DEF Typed, TaskPcs
    <3>2. task' = [task EXCEPT ![t] = x] /\ pending' = <<>> /\ UNCHANGED <<written, logged>>
      BY <1>3, <2>2 DEF Take
    <3> HIDE DEF x
    <3>3. task' \in [Tasks -> [pc : TaskPcs, batch : Seq(Nat)]]
      BY <3>1, <3>2 DEF Typed
    <3>4. pending' \in Seq(Nat)
      BY <3>2
    <3> QED
      BY <3>2, <3>3, <3>4 DEF Typed
  <2> QED
    BY <2>1, <2>2
<1>4. ASSUME NEW t \in Tasks, WriteLands(t) PROVE Typed'
  <2>1. task[t].batch \in Seq(Nat)
    BY DEF Typed
  <2>2. written' \in Seq(Nat)
    BY <1>4, <2>1 DEF WriteLands, Typed
  <2> QED
    BY <1>4, <2>2 DEF WriteLands, Typed, TaskPcs
<1>5. ASSUME NEW t \in Tasks, WriteFails(t) PROVE Typed'
  BY <1>5 DEF WriteFails, Typed, TaskPcs
<1>6. ASSUME NEW t \in Tasks, Finish(t) PROVE Typed'
  BY <1>6, FinallyTyped DEF Finish, Typed
<1>7. ASSUME NEW t \in Tasks, Requeue(t) PROVE Typed'
  <2>1. Readded(task[t].batch) \in Seq(Nat)
    BY LoggerConstantsOK, ReaddedType DEF Typed
  <2>2. Readded(task[t].batch) \o pending \in Seq(Nat)
    BY <2>1 DEF Typed
  <2> QED
    BY <1>7, <2>2, FinallyTyped DEF Requeue
<1>8. CASE UNCHANGED loggerVars
  BY <1>8 DEF loggerVars, Typed
<1> QED
  BY <1>1, <1>2, <1>3, <1>4, <1>5, <1>6, <1>7, <1>8 DEF LoggerNext, FlushStep

-----------------------------------------------------------------------------
(* There is one flush task when there is something to flush.               *)

LEMMA OneFlusherInit == LoggerInit => OneFlusher
  BY DEF LoggerInit, OneFlusher, Running, NoTask

\* The finally block is run by the one task there is, which hands over to at most
\* one other.
LEMMA FinallyOne ==
    ASSUME Typed, OneFlusher, NEW t \in Tasks, t \in Running, NEW left, Finally(t, left)
    PROVE  OneFlusher'
<1>1. Running = {t} /\ \A u \in Tasks : u # t => task[u] = NoTask
  BY DEF OneFlusher, Running
<1>2. Sleeping # NoTask
  BY DEF Sleeping, NoTask
<1>3. CASE left # <<>>
  BY <1>1, <1>2, <1>3 DEF Finally, Typed, OneFlusher, Running
<1>4. CASE left = <<>>
  BY <1>1, <1>4 DEF Finally, Typed, OneFlusher, Running
<1> QED
  BY <1>3, <1>4

LEMMA OneFlusherNext == Typed /\ OneFlusher /\ [LoggerNext]_loggerVars => OneFlusher'
<1> SUFFICES ASSUME Typed, OneFlusher, [LoggerNext]_loggerVars PROVE OneFlusher'
  OBVIOUS
<1>i. \A t \in Tasks : task[t].pc # "none" => t \in Running
  BY DEF Running, NoTask
<1>1. CASE Log
  <2>1. CASE scheduled
    BY <1>1, <2>1 DEF Log, OneFlusher, Running
  <2>2. CASE ~scheduled
    <3>1. Running = {}
      BY <2>2 DEF OneFlusher
    <3>2. PICK t \in Tasks : task' = [task EXCEPT ![t] = Sleeping]
      BY <1>1, <2>2 DEF Log
    <3>3. Running' = {t}
      BY <3>1, <3>2 DEF Running, Typed, Sleeping, NoTask
    <3> QED
      BY <1>1, <2>2, <3>3 DEF Log, OneFlusher
  <2> QED
    BY <2>1, <2>2
<1>2. CASE Stop
  BY <1>2 DEF Stop, OneFlusher, Running
<1>3. ASSUME NEW t \in Tasks, Take(t) PROVE OneFlusher'
  <2>1. CASE pending = <<>>
    BY <1>i, <1>3, <2>1, FinallyOne DEF Take
  <2>2. CASE pending # <<>>
    <3>1. Running' = Running
      BY <1>3, <2>2 DEF Take, Running, Typed, NoTask
    <3> QED
      BY <1>3, <2>2, <3>1 DEF Take, OneFlusher
  <2> QED
    BY <2>1, <2>2
<1>4. ASSUME NEW t \in Tasks, WriteLands(t) \/ WriteFails(t) PROVE OneFlusher'
  <2>1. Running' = Running
    BY <1>4 DEF WriteLands, WriteFails, Running, Typed, NoTask
  <2> QED
    BY <1>4, <2>1 DEF WriteLands, WriteFails, OneFlusher
<1>5. ASSUME NEW t \in Tasks, Finish(t) PROVE OneFlusher'
  BY <1>i, <1>5, FinallyOne DEF Finish
<1>6. ASSUME NEW t \in Tasks, Requeue(t) PROVE OneFlusher'
  BY <1>i, <1>6, FinallyOne DEF Requeue
<1>7. CASE UNCHANGED loggerVars
  BY <1>7 DEF loggerVars, OneFlusher, Running
<1> QED
  BY <1>1, <1>2, <1>3, <1>4, <1>5, <1>6, <1>7 DEF LoggerNext, FlushStep

\* However logging and flushing interleave, and however often flushes fail, there
\* is at most one flush task, the flag tells whether there is one, and queued
\* entries always have one.
THEOREM OneFlusherCorrect == LoggerSpec => []OneFlusher
<1>1. LoggerInit => Typed /\ OneFlusher
  BY TypedInit, OneFlusherInit
<1>2. Typed /\ OneFlusher /\ [LoggerNext]_loggerVars => (Typed /\ OneFlusher)'
  BY TypedNext, OneFlusherNext
<1> QED
  BY <1>1, <1>2, PTL DEF LoggerSpec

-----------------------------------------------------------------------------
(* No entry goes missing.                                                  *)

\* What a task is done with, or has not taken yet, it may forget.
Batches ==
    \A t \in Tasks :
        /\ task[t].pc = "sleep" => task[t].batch = <<>>
        /\ task[t].pc = "landed" => ToSet(task[t].batch) \subseteq ToSet(written)

Known == ToSet(written) \cup ToSet(pending) \cup InBatch \cup dropped \cup lost

LEMMA BatchesInit == LoggerInit => Batches
  BY DEF LoggerInit, Batches, NoTask

LEMMA BatchesNext == Typed /\ Batches /\ [LoggerNext]_loggerVars => Batches'
<1> SUFFICES ASSUME Typed, Batches, [LoggerNext]_loggerVars PROVE Batches'
  OBVIOUS
<1>f. ASSUME NEW t \in Tasks, NEW left, Finally(t, left), written' = written
      PROVE  Batches'
  BY <1>f DEF Finally, Batches, Typed, NoTask, Sleeping
<1>1. CASE Log
  <2>1. \A t \in Tasks : task'[t] = task[t] \/ task'[t] = Sleeping
    BY <1>1 DEF Log, Typed
  <2>2. written' = written
    BY <1>1 DEF Log
  <2> QED
    BY <2>1, <2>2 DEF Batches, Sleeping
<1>2. CASE Stop
  BY <1>2 DEF Stop, Batches, NoTask
<1>3. ASSUME NEW t \in Tasks, Take(t) PROVE Batches'
  <2>1. CASE pending = <<>>
    BY <1>f, <1>3, <2>1 DEF Take
  <2>2. CASE pending # <<>>
    <3>1. /\ task'[t].pc = "write" /\ written' = written
          /\ \A u \in Tasks : u # t => task'[u] = task[u]
      BY <1>3, <2>2 DEF Take, Typed
    <3> QED
      BY <3>1 DEF Batches
  <2> QED
    BY <2>1, <2>2
<1>4. ASSUME NEW t \in Tasks, WriteLands(t) PROVE Batches'
  <2>1. written' = written \o task[t].batch /\ task[t].batch \in Seq(Nat)
    BY <1>4 DEF WriteLands, Typed
  <2>2. ToSet(written') = ToSet(written) \cup ToSet(task[t].batch)
    BY <2>1, ToSetConcat DEF Typed
  <2>3. task' = [task EXCEPT ![t].pc = "landed"]
    BY <1>4 DEF WriteLands
  <2>4. /\ task'[t].pc = "landed" /\ task'[t].batch = task[t].batch
        /\ \A u \in Tasks : u # t => task'[u] = task[u]
    BY <2>3 DEF Typed
  <2> QED
    BY <2>2, <2>4 DEF Batches
<1>5. ASSUME NEW t \in Tasks, WriteFails(t) PROVE Batches'
  BY <1>5 DEF WriteFails, Batches, Typed
<1>6. ASSUME NEW t \in Tasks, Finish(t) PROVE Batches'
  BY <1>6, <1>f DEF Finish
<1>7. ASSUME NEW t \in Tasks, Requeue(t) PROVE Batches'
  BY <1>7, <1>f DEF Requeue
<1>8. CASE UNCHANGED loggerVars
  BY <1>8 DEF loggerVars, Batches
<1> QED
  BY <1>1, <1>2, <1>3, <1>4, <1>5, <1>6, <1>7, <1>8 DEF LoggerNext, FlushStep

LEMMA AccountedInit == LoggerInit => Accounted
  BY DEF LoggerInit, Accounted

\* The finally block forgets the batch of its task and nothing else.
LEMMA FinallyForgets ==
    ASSUME Typed, NEW t \in Tasks, NEW left, Finally(t, left)
    PROVE  InBatch \subseteq InBatch' \cup ToSet(task[t].batch)
<1>1. \A u \in Tasks : u # t => task'[u] = task[u]
  BY DEF Finally, Typed
<1> QED
  BY <1>1 DEF InBatch

LEMMA AccountedNext == Typed /\ Batches /\ Accounted /\ [LoggerNext]_loggerVars => Accounted'
<1> SUFFICES ASSUME Typed, Batches, Accounted, [LoggerNext]_loggerVars PROVE Accounted'
  OBVIOUS
<1>g. ASSUME logged' = logged, Known \subseteq Known' PROVE Accounted'
  BY <1>g DEF Accounted, Known
<1>1. CASE Log
  <2>1. ToSet(pending') = ToSet(pending) \cup {logged + 1}
    BY <1>1, ToSetAppend DEF Log, Typed
  <2>2. \A u \in Tasks : task'[u] = task[u] \/ task[u] = NoTask
    BY <1>1 DEF Log, Typed
  <2>3. ToSet(NoTask.batch) = {}
    BY ToSetEmpty DEF NoTask
  <2>4. InBatch \subseteq InBatch'
    BY <2>2, <2>3 DEF InBatch
  <2>5. Known \cup {logged + 1} \subseteq Known'
    BY <1>1, <2>1, <2>4 DEF Log, Known
  <2>6. logged' = logged + 1 /\ logged \in Nat
    BY <1>1 DEF Log, Typed
  <2>7. \A n \in 1 .. logged' : n \in 1 .. logged \/ n = logged + 1
    BY <2>6
  <2> QED
    BY <2>5, <2>7 DEF Accounted, Known
<1>2. CASE Stop
  BY <1>2, <1>g DEF Stop, Known
<1>3. ASSUME NEW t \in Tasks, Take(t) PROVE Accounted'
  <2>0. task[t].batch = <<>>
    BY <1>3 DEF Take, Batches
  <2>1. CASE pending = <<>>
    <3>1. Finally(t, <<>>) /\ pending' = pending
      BY <1>3, <2>1 DEF Take, Finally
    <3>2. InBatch \subseteq InBatch'
      BY <2>0, <3>1, FinallyForgets, ToSetEmpty
    <3> QED
      BY <1>3, <1>g, <3>1, <3>2 DEF Take, Known
  <2>2. CASE pending # <<>>
    <3>1. task'[t].batch = pending /\ \A u \in Tasks : u # t => task'[u] = task[u]
      BY <1>3, <2>2 DEF Take, Typed
    <3>2. InBatch \cup ToSet(pending) \subseteq InBatch'
      BY <2>0, <3>1, ToSetEmpty DEF InBatch
    <3> QED
      BY <1>3, <1>g, <2>2, <3>2 DEF Take, Known
  <2> QED
    BY <2>1, <2>2
<1>4. ASSUME NEW t \in Tasks, WriteLands(t) \/ WriteFails(t) PROVE Accounted'
  <2>0. task' = [task EXCEPT ![t].pc = "landed"] \/ task' = [task EXCEPT ![t].pc = "failed"]
    BY <1>4 DEF WriteLands, WriteFails
  <2>a. \A u \in Tasks : u # t => task'[u] = task[u]
    BY <2>0 DEF Typed
  <2>b. ASSUME NEW x, task' = [task EXCEPT ![t].pc = x]
        PROVE  task'[t].batch = task[t].batch
    BY <2>b DEF Typed
  <2>1. \A u \in Tasks : task'[u].batch = task[u].batch
    BY <2>0, <2>a, <2>b
  <2>2. InBatch' = InBatch
    BY <2>1 DEF InBatch
  <2>3. task[t].batch \in Seq(Nat) /\ written \in Seq(Nat)
    BY DEF Typed
  <2>4. ToSet(written) \subseteq ToSet(written')
    BY <1>4, <2>3, ToSetConcat DEF WriteLands, WriteFails
  <2> QED
    BY <1>4, <1>g, <2>2, <2>4 DEF WriteLands, WriteFails, Known
<1>5. ASSUME NEW t \in Tasks, Finish(t) PROVE Accounted'
  <2>1. Finally(t, pending) /\ ToSet(task[t].batch) \subseteq ToSet(written)
    BY <1>5 DEF Finish, Batches
  <2>2. InBatch \subseteq InBatch' \cup ToSet(written)
    BY <2>1, FinallyForgets
  <2>3. pending' = pending
    BY <2>1 DEF Finally
  <2> QED
    BY <1>5, <1>g, <2>2, <2>3 DEF Finish, Known
<1>6. ASSUME NEW t \in Tasks, Requeue(t) PROVE Accounted'
  <2> DEFINE batch == task[t].batch
             left == Readded(batch) \o pending
  <2>1. /\ Finally(t, left)
        /\ dropped' = dropped \cup (ToSet(batch) \ ToSet(Readded(batch)))
        /\ UNCHANGED <<written, logged, lost>>
    BY <1>6 DEF Requeue
  <2>2. Readded(batch) \in Seq(Nat) /\ pending \in Seq(Nat)
    BY LoggerConstantsOK, ReaddedType DEF Typed
  <2>3. ToSet(pending') = ToSet(Readded(batch)) \cup ToSet(pending)
    BY <2>1, <2>2, ToSetConcat DEF Finally
  <2>4. InBatch \subseteq InBatch' \cup ToSet(batch)
    BY <2>1, FinallyForgets
  <2> QED
    BY <1>g, <2>1, <2>3, <2>4 DEF Known
<1>7. CASE UNCHANGED loggerVars
  BY <1>7 DEF loggerVars, Accounted, InBatch
<1> QED
  BY <1>1, <1>2, <1>3, <1>4, <1>5, <1>6, <1>7 DEF LoggerNext, FlushStep

\* An entry that was logged is in the table, in the batch or in the queue, unless
\* it was given up for the limit or lost in a stop: no interleaving of logging and
\* failing flushes makes it disappear otherwise.
THEOREM AccountedCorrect == LoggerSpec => []Accounted
<1>1. LoggerInit => Typed /\ Batches /\ Accounted
  BY TypedInit, BatchesInit, AccountedInit
<1>2. Typed /\ Batches /\ Accounted /\ [LoggerNext]_loggerVars => (Typed /\ Batches /\ Accounted)'
  BY TypedNext, BatchesNext, AccountedNext
<1> QED
  BY <1>1, <1>2, PTL DEF LoggerSpec

-----------------------------------------------------------------------------
(* Retries keep the order.                                                 *)

LEMMA IncreasingConcat ==
    ASSUME NEW s \in Seq(Nat), NEW u \in Seq(Nat)
    PROVE  Increasing(s \o u) <=> /\ Increasing(s) /\ Increasing(u)
                                  /\ \A a \in ToSet(s), later \in ToSet(u) : a < later
<1>1. /\ DOMAIN s = 1 .. Len(s) /\ Len(s) \in Nat
      /\ DOMAIN u = 1 .. Len(u) /\ Len(u) \in Nat
      /\ DOMAIN (s \o u) = 1 .. (Len(s) + Len(u))
  OBVIOUS
<1>2. /\ \A i \in 1 .. Len(s) : (s \o u)[i] = s[i] /\ i \in 1 .. (Len(s) + Len(u))
      /\ \A i \in 1 .. Len(u) : (s \o u)[Len(s) + i] = u[i] /\ Len(s) + i \in 1 .. (Len(s) + Len(u))
  BY <1>1
<1>3. \A k \in 1 .. (Len(s) + Len(u)) :
         k \in 1 .. Len(s) \/ \E i \in 1 .. Len(u) : k = Len(s) + i
  <2> SUFFICES ASSUME NEW k \in 1 .. (Len(s) + Len(u)), k \notin 1 .. Len(s)
               PROVE  k - Len(s) \in 1 .. Len(u) /\ k = Len(s) + (k - Len(s))
    OBVIOUS
  <2> QED
    BY <1>1
<1>4. ASSUME Increasing(s \o u)
      PROVE  /\ Increasing(s) /\ Increasing(u)
             /\ \A a \in ToSet(s), later \in ToSet(u) : a < later
  <2>1. Increasing(s)
    BY <1>1, <1>2, <1>4 DEF Increasing
  <2>2. ASSUME NEW i \in 1 .. Len(u), NEW j \in 1 .. Len(u), i < j
        PROVE  u[i] < u[j]
    <3>1. Len(s) + i < Len(s) + j
      BY <1>1, <2>2
    <3> QED
      BY <1>1, <1>2, <1>4, <3>1 DEF Increasing
  <2>3. ASSUME NEW i \in 1 .. Len(s), NEW j \in 1 .. Len(u)
        PROVE  s[i] < u[j]
    <3>1. i < Len(s) + j
      BY <1>1
    <3> QED
      BY <1>1, <1>2, <1>4, <3>1 DEF Increasing
  <2> QED
    BY <1>1, <2>1, <2>2, <2>3 DEF Increasing, ToSet
<1>5. ASSUME Increasing(s), Increasing(u), \A a \in ToSet(s), later \in ToSet(u) : a < later,
             NEW i \in 1 .. (Len(s) + Len(u)), NEW j \in 1 .. (Len(s) + Len(u)), i < j
      PROVE  (s \o u)[i] < (s \o u)[j]
  <2>1. CASE i \in 1 .. Len(s) /\ j \in 1 .. Len(s)
    BY <1>1, <1>2, <1>5, <2>1 DEF Increasing
  <2>2. CASE i \in 1 .. Len(s) /\ j \notin 1 .. Len(s)
    <3>1. PICK l \in 1 .. Len(u) : j = Len(s) + l
      BY <1>3, <2>2
    <3>2. s[i] \in ToSet(s) /\ u[l] \in ToSet(u)
      BY <1>1, <2>2 DEF ToSet
    <3> QED
      BY <1>2, <1>5, <2>2, <3>1, <3>2
  <2>3. CASE i \notin 1 .. Len(s)
    <3>1. PICK k \in 1 .. Len(u) : i = Len(s) + k
      BY <1>3, <2>3
    <3>2. j \notin 1 .. Len(s)
      BY <1>1, <1>5, <2>3
    <3>3. PICK l \in 1 .. Len(u) : j = Len(s) + l
      BY <1>3, <3>2
    <3>4. k < l
      BY <1>1, <1>5, <3>1, <3>3
    <3> QED
      BY <1>1, <1>2, <1>5, <3>1, <3>3, <3>4 DEF Increasing
  <2> QED
    BY <2>1, <2>2, <2>3
<1> QED
  BY <1>1, <1>4, <1>5 DEF Increasing

LEMMA IncreasingEmpty == Increasing(<<>>)
  BY DEF Increasing

LEMMA IncreasingAppend ==
    ASSUME NEW s \in Seq(Nat), NEW n \in Nat, Increasing(s), \A a \in ToSet(s) : a < n
    PROVE  Increasing(Append(s, n))
<1>1. DOMAIN s = 1 .. Len(s) /\ Len(s) \in Nat /\ DOMAIN Append(s, n) = 1 .. (Len(s) + 1)
  OBVIOUS
<1>2. (\A i \in 1 .. Len(s) : Append(s, n)[i] = s[i]) /\ Append(s, n)[Len(s) + 1] = n
  OBVIOUS
<1>3. ASSUME NEW i \in 1 .. (Len(s) + 1), NEW j \in 1 .. (Len(s) + 1), i < j
      PROVE  Append(s, n)[i] < Append(s, n)[j]
  <2>1. i \in 1 .. Len(s) /\ (j \in 1 .. Len(s) \/ j = Len(s) + 1)
    BY <1>1, <1>3
  <2>2. s[i] \in ToSet(s)
    BY <1>1, <2>1 DEF ToSet
  <2>3. CASE j \in 1 .. Len(s)
    BY <1>1, <1>2, <1>3, <2>1, <2>3 DEF Increasing
  <2>4. CASE j = Len(s) + 1
    BY <1>2, <2>1, <2>2, <2>4
  <2> QED
    BY <2>1, <2>3, <2>4
<1> QED
  BY <1>1, <1>3 DEF Increasing

\* What is requeued are the oldest of the failed entries.
LEMMA ReaddedOK ==
    ASSUME Typed, NEW batch \in Seq(Nat)
    PROVE  /\ Readded(batch) \in Seq(Nat)
           /\ ToSet(Readded(batch)) \subseteq ToSet(batch)
           /\ Increasing(batch) => Increasing(Readded(batch))
<1>0. Len(batch) \in Nat /\ Len(pending) \in Nat /\ MaxPending \in Nat
  BY LoggerConstantsOK DEF Typed
<1>1. ASSUME NEW n \in Nat, n <= Len(batch)
      PROVE  /\ SubSeq(batch, 1, n) \in Seq(Nat)
             /\ ToSet(SubSeq(batch, 1, n)) \subseteq ToSet(batch)
             /\ Increasing(batch) => Increasing(SubSeq(batch, 1, n))
  <2>1. /\ SubSeq(batch, 1, n) \in Seq(Nat) /\ DOMAIN SubSeq(batch, 1, n) = 1 .. n
        /\ \A i \in 1 .. n : SubSeq(batch, 1, n)[i] = batch[i]
    BY <1>0, <1>1
  <2>2. DOMAIN batch = 1 .. Len(batch) /\ 1 .. n \subseteq 1 .. Len(batch)
    BY <1>0, <1>1
  <2> QED
    BY <2>1, <2>2 DEF ToSet, Increasing
<1>2. <<>> \in Seq(Nat)
  OBVIOUS
<1>3. CASE Len(pending) >= MaxPending
  BY <1>2, <1>3, ToSetEmpty, IncreasingEmpty DEF Readded
<1>4. CASE ~(Len(pending) >= MaxPending)
  <2> DEFINE n == IF Len(batch) <= MaxPending - Len(pending)
                  THEN Len(batch) ELSE MaxPending - Len(pending)
  <2>1. n \in Nat /\ n <= Len(batch)
    BY <1>0, <1>4
  <2>2. Readded(batch) = SubSeq(batch, 1, n)
    BY <1>4 DEF Readded
  <2> HIDE DEF n
  <2> QED
    BY <1>1, <2>1, <2>2
<1> QED
  BY <1>3, <1>4

Waiting == ToSet(pending) \cup InBatch

\* What is in the table, what a batch holds and what is queued was logged in this
\* order; what is neither lost nor written is newer than the whole table.
SortedInv ==
    /\ Increasing(written) /\ Increasing(pending)
    /\ \A t \in Tasks : /\ Increasing(task[t].batch)
                        /\ \A a \in ToSet(task[t].batch), later \in ToSet(pending) : a < later
    /\ \A n \in Waiting \cup ToSet(written) : n \in Nat /\ n <= logged
    /\ \A n \in Waiting \ ToSet(written) : \A m \in ToSet(written) : m < n

LEMMA SortedInit == LoggerInit => SortedInv
  BY ToSetEmpty, IncreasingEmpty DEF LoggerInit, SortedInv, Waiting, InBatch, NoTask

\* The finally block of task t, with a queue of old entries in order.
LEMMA FinallySorted ==
    ASSUME Typed, OneFlusher, SortedInv, NEW t \in Tasks, t \in Running, NEW left \in Seq(Nat),
           Finally(t, left), Increasing(left), ToSet(left) \subseteq Waiting,
           UNCHANGED <<written, logged>>
    PROVE  SortedInv'
<1>1. \A u \in Tasks : task'[u] = NoTask \/ task'[u] = Sleeping
  BY DEF Finally, Typed, OneFlusher, Running
<1>2. \A u \in Tasks : task'[u].batch = <<>>
  BY <1>1 DEF NoTask, Sleeping
<1>3. InBatch' = {} /\ pending' = left
  BY <1>2, ToSetEmpty DEF InBatch, Finally
<1>4. Waiting' \subseteq Waiting
  BY <1>3 DEF Waiting
<1> QED
  BY <1>2, <1>3, <1>4, ToSetEmpty, IncreasingEmpty DEF SortedInv

LEMMA SortedNext == Typed /\ OneFlusher /\ Batches /\ SortedInv /\ [LoggerNext]_loggerVars => SortedInv'
<1> SUFFICES ASSUME Typed, OneFlusher, Batches, SortedInv, [LoggerNext]_loggerVars PROVE SortedInv'
  OBVIOUS
<1>i. \A t \in Tasks : task[t].pc # "none" => t \in Running
  BY DEF Running, NoTask
<1>later. \A t \in Tasks : task[t].batch \in Seq(Nat) /\ ToSet(task[t].batch) \subseteq Waiting
  BY DEF Typed, Waiting, InBatch
<1>1. CASE Log
  <2>1. pending' = Append(pending, logged + 1) /\ logged' = logged + 1 /\ written' = written
        /\ logged \in Nat /\ logged + 1 \in Nat
    BY <1>1 DEF Log, Typed
  <2>2. ToSet(pending') = ToSet(pending) \cup {logged + 1}
    BY <2>1, ToSetAppend DEF Typed
  <2>3. \A u \in Tasks : task'[u] = task[u] \/ task'[u] = Sleeping
    BY <1>1 DEF Log, Typed
  <2>4. \A u \in Tasks : task'[u].batch = task[u].batch \/ task'[u].batch = <<>>
    BY <2>3 DEF Sleeping
  <2>5. Waiting' \subseteq Waiting \cup {logged + 1}
    BY <2>2, <2>4, ToSetEmpty DEF Waiting, InBatch
  <2>6. \A a \in Waiting \cup ToSet(written) : a \in Nat /\ a < logged + 1 /\ a <= logged + 1
    BY <2>1 DEF SortedInv
  <2>7. Increasing(pending')
    BY <2>1, <2>6, IncreasingAppend DEF Typed, SortedInv, Waiting
  <2>8. \A t \in Tasks : /\ Increasing(task'[t].batch)
                         /\ \A a \in ToSet(task'[t].batch), later \in ToSet(pending') : a < later
    <3> SUFFICES ASSUME NEW t \in Tasks, task'[t].batch = task[t].batch
                 PROVE  /\ Increasing(task'[t].batch)
                        /\ \A a \in ToSet(task'[t].batch), later \in ToSet(pending') : a < later
      BY <2>4, ToSetEmpty, IncreasingEmpty
    <3> QED
      BY <1>later, <2>2, <2>6 DEF SortedInv
  <2>9. \A n \in Waiting' \cup ToSet(written') : n \in Nat /\ n <= logged'
    BY <2>1, <2>5, <2>6
  <2>10. \A n \in Waiting' \ ToSet(written') : \A m \in ToSet(written') : m < n
    BY <2>1, <2>5, <2>6 DEF SortedInv
  <2> QED
    BY <2>1, <2>7, <2>8, <2>9, <2>10 DEF SortedInv
<1>2. CASE Stop
  <2>1. \A t \in Tasks : task'[t].batch = <<>>
    BY <1>2 DEF Stop, NoTask
  <2>2. Waiting' = {} /\ pending' = <<>> /\ UNCHANGED <<written, logged>>
    BY <1>2, <2>1, ToSetEmpty DEF Stop, Waiting, InBatch
  <2> QED
    BY <2>1, <2>2, ToSetEmpty, IncreasingEmpty DEF SortedInv
<1>3. ASSUME NEW t \in Tasks, Take(t) PROVE SortedInv'
  <2>1. CASE pending = <<>>
    <3>1. Finally(t, <<>>) /\ UNCHANGED <<written, logged>> /\ t \in Running
      BY <1>i, <1>3, <2>1 DEF Take
    <3>2. <<>> \in Seq(Nat)
      OBVIOUS
    <3> QED
      BY <3>1, <3>2, FinallySorted, ToSetEmpty, IncreasingEmpty
  <2>2. CASE pending # <<>>
    <3>1. task'[t].batch = pending /\ \A u \in Tasks : u # t => task'[u] = task[u]
      BY <1>3, <2>2 DEF Take, Typed
    <3>2. pending' = <<>> /\ UNCHANGED <<written, logged>>
      BY <1>3, <2>2 DEF Take
    <3>3. Waiting' \subseteq Waiting
      BY <3>1, <3>2, ToSetEmpty DEF Waiting, InBatch
    <3> QED
      BY <3>1, <3>2, <3>3, ToSetEmpty, IncreasingEmpty DEF SortedInv
  <2> QED
    BY <2>1, <2>2
<1>4. ASSUME NEW t \in Tasks, WriteLands(t) \/ WriteFails(t) PROVE SortedInv'
  <2>0. task' = [task EXCEPT ![t].pc = "landed"] \/ task' = [task EXCEPT ![t].pc = "failed"]
    BY <1>4 DEF WriteLands, WriteFails
  <2>a. \A u \in Tasks : u # t => task'[u] = task[u]
    BY <2>0 DEF Typed
  <2>b. ASSUME NEW x, task' = [task EXCEPT ![t].pc = x]
        PROVE  task'[t].batch = task[t].batch
    BY <2>b DEF Typed
  <2>1. \A u \in Tasks : task'[u].batch = task[u].batch
    BY <2>0, <2>a, <2>b
  <2>2. pending' = pending /\ logged' = logged /\ Waiting' = Waiting
    BY <1>4, <2>1 DEF WriteLands, WriteFails, Waiting, InBatch
  <2>3. CASE written' = written
    BY <2>1, <2>2, <2>3 DEF SortedInv
  <2>4. CASE WriteLands(t)
    <3> DEFINE batch == task[t].batch
    <3>1. batch \in Seq(Nat) /\ written \in Seq(Nat) /\ written' = written \o batch
      BY <2>4 DEF WriteLands, Typed
    <3>2. ToSet(written') = ToSet(written) \cup ToSet(batch)
      BY <3>1, ToSetConcat
    <3>3. \A a \in ToSet(written), later \in ToSet(batch) : a < later
      BY <1>later, <2>4 DEF WriteLands, CanLand, SortedInv
    <3>4. Increasing(written')
      BY <3>1, <3>3, IncreasingConcat DEF SortedInv
    <3>5. InBatch = ToSet(batch)
      <4>1. \A u \in Tasks : u # t => task[u] = NoTask
        BY <1>i, <2>4 DEF WriteLands, OneFlusher, Running
      <4>2. \A u \in Tasks : u # t => ToSet(task[u].batch) = {}
        BY <4>1, ToSetEmpty DEF NoTask
      <4> QED
        BY <4>2 DEF InBatch
    <3>6. \A n \in Waiting' \ ToSet(written') : \A m \in ToSet(written') : m < n
      BY <2>2, <3>2, <3>5 DEF SortedInv, Waiting
    <3>7. \A n \in Waiting' \cup ToSet(written') : n \in Nat /\ n <= logged'
      BY <1>later, <2>2, <3>2 DEF SortedInv
    <3> HIDE DEF batch
    <3> QED
      BY <2>1, <2>2, <3>4, <3>6, <3>7 DEF SortedInv
  <2> QED
    BY <1>4, <2>3, <2>4 DEF WriteFails
<1>5. ASSUME NEW t \in Tasks, Finish(t) PROVE SortedInv'
  BY <1>i, <1>5, FinallySorted DEF Finish, Typed, SortedInv, Waiting
<1>6. ASSUME NEW t \in Tasks, Requeue(t) PROVE SortedInv'
  <2> DEFINE batch == task[t].batch
             left == Readded(batch) \o pending
  <2>1. Finally(t, left) /\ UNCHANGED <<written, logged>> /\ t \in Running
    BY <1>i, <1>6 DEF Requeue
  <2>2. /\ Readded(batch) \in Seq(Nat) /\ pending \in Seq(Nat)
        /\ ToSet(Readded(batch)) \subseteq ToSet(batch) /\ Increasing(Readded(batch))
    BY <1>later, ReaddedOK DEF Typed, SortedInv
  <2>3. left \in Seq(Nat) /\ ToSet(left) \subseteq Waiting
    BY <1>later, <2>2, ToSetConcat DEF Waiting
  <2>4. Increasing(left)
    BY <2>2, IncreasingConcat DEF SortedInv
  <2> HIDE DEF left
  <2> QED
    BY <2>1, <2>3, <2>4, FinallySorted
<1>7. CASE UNCHANGED loggerVars
  BY <1>7 DEF loggerVars, SortedInv, Waiting, InBatch
<1> QED
  BY <1>1, <1>2, <1>3, <1>4, <1>5, <1>6, <1>7 DEF LoggerNext, FlushStep

\* However flushes fail and are retried while entries are logged, the table gets
\* the entries in the order they were logged, each one once.
THEOREM OrderCorrect == LoggerSpec => []InOrder
<1>1. LoggerInit => Typed /\ OneFlusher /\ Batches /\ SortedInv
  BY TypedInit, OneFlusherInit, BatchesInit, SortedInit
<1>2. Typed /\ OneFlusher /\ Batches /\ SortedInv /\ [LoggerNext]_loggerVars
        => (Typed /\ OneFlusher /\ Batches /\ SortedInv)'
  BY TypedNext, OneFlusherNext, BatchesNext, SortedNext
<1>3. Typed /\ SortedInv => InOrder
  <2> SUFFICES ASSUME Typed, SortedInv, NEW t \in Tasks
               PROVE  Increasing(task[t].batch \o pending)
    BY DEF InOrder, SortedInv, Waiting, Running
  <2> QED
    BY IncreasingConcat DEF Typed, SortedInv
<1> QED
  BY <1>1, <1>2, <1>3, PTL DEF LoggerSpec

-----------------------------------------------------------------------------
(* The limit on what a failed flush puts back.                             *)

LEMMA LimitedNext ==
    ASSUME Typed, [LoggerNext]_loggerVars
    PROVE  /\ dropped' # dropped => \E t \in Tasks :
                  Len(pending) + Len(task[t].batch) > MaxPending
           /\ logged' = logged /\ Len(pending') > MaxPending => pending' = pending
<1> DEFINE Goal == /\ dropped' # dropped => \E t \in Tasks :
                          Len(pending) + Len(task[t].batch) > MaxPending
                   /\ logged' = logged /\ Len(pending') > MaxPending => pending' = pending
<1>0. MaxPending \in Nat /\ Len(pending) \in Nat /\ pending \in Seq(Nat) /\ Len(<<>>) = 0
  BY LoggerConstantsOK DEF Typed
<1>1. CASE dropped' = dropped /\ (pending' = <<>> \/ pending' = pending \/ logged' # logged)
  BY <1>0, <1>1
<1>2. ASSUME NEW t \in Tasks, Requeue(t) PROVE Goal
  <2> DEFINE batch == task[t].batch
             old == Readded(batch)
  <2>1. /\ pending' = old \o pending
        /\ dropped' = dropped \cup (ToSet(batch) \ ToSet(old))
    BY <1>2 DEF Requeue, Finally
  <2>2. batch \in Seq(Nat) /\ Len(batch) \in Nat
    BY DEF Typed
  <2>3. CASE Len(pending) >= MaxPending
    <3>1. old = <<>>
      BY <2>3 DEF Readded
    <3>2. pending' = pending
      BY <1>0, <2>1, <3>1
    <3>3. dropped' # dropped => Len(batch) > 0
      <4>1. ASSUME Len(batch) = 0 PROVE batch = <<>>
        BY <2>2, <4>1
      <4>2. dropped' # dropped => batch # <<>>
        BY <2>1, ToSetEmpty
      <4> QED
        BY <2>2, <4>1, <4>2
    <3> HIDE DEF batch
    <3> QED
      BY <1>0, <2>2, <2>3, <3>2, <3>3 DEF batch
  <2>4. CASE ~(Len(pending) >= MaxPending)
    <3> DEFINE n == IF Len(batch) <= MaxPending - Len(pending)
                    THEN Len(batch) ELSE MaxPending - Len(pending)
    <3>1. n \in Nat /\ n <= Len(batch) /\ n <= MaxPending - Len(pending)
          /\ (n = Len(batch) \/ Len(pending) + Len(batch) > MaxPending)
      BY <1>0, <2>2, <2>4
    <3>2. old = SubSeq(batch, 1, n)
      BY <2>4 DEF Readded
    <3>p. pending' = old \o pending
      BY <2>1
    <3> HIDE DEF n, old
    <3>3. old \in Seq(Nat) /\ Len(old) = n
      BY <2>2, <3>1, <3>2
    <3>l. \A x, y \in Seq(Nat) : Len(x \o y) = Len(x) + Len(y)
      OBVIOUS
    <3>4. Len(pending') = n + Len(pending)
      BY <1>0, <3>p, <3>3, <3>l
    <3>5. n = Len(batch) => old = batch
      BY <2>2, <3>2
    <3>6. dropped' # dropped => Len(pending) + Len(batch) > MaxPending
      BY <2>1, <3>1, <3>5
    <3>7. ~(Len(pending') > MaxPending)
      BY <1>0, <3>1, <3>4
    <3> QED
      BY <3>6, <3>7
  <2> QED
    BY <2>3, <2>4
<1>3. ASSUME NEW t \in Tasks, Take(t) \/ WriteLands(t) \/ WriteFails(t) \/ Finish(t)
      PROVE  dropped' = dropped /\ (pending' = <<>> \/ pending' = pending)
  BY <1>3 DEF Take, WriteLands, WriteFails, Finish, Finally
<1>4. CASE Log
  <2>1. logged' # logged /\ dropped' = dropped
    BY <1>4 DEF Log, Typed
  <2> QED
    BY <1>1, <2>1
<1>5. CASE Stop \/ UNCHANGED loggerVars
  BY <1>1, <1>5 DEF Stop, loggerVars
<1> QED
  BY <1>1, <1>2, <1>3, <1>4, <1>5 DEF LoggerNext, FlushStep

\* A failed flush gives up only what would exceed the limit, and does not make
\* the queue exceed it.
THEOREM LimitCorrect == LoggerSpec => LimitedRequeue
<1>1. Typed /\ [LoggerNext]_loggerVars => Typed'
  BY TypedNext
<1>2. Typed /\ [LoggerNext]_loggerVars =>
        [/\ dropped' # dropped => \E t \in Tasks :
                Len(pending) + Len(task[t].batch) > MaxPending
         /\ logged' = logged /\ Len(pending') > MaxPending => pending' = pending]_loggerVars
  BY LimitedNext
<1> QED
  BY <1>1, <1>2, TypedInit, PTL DEF LoggerSpec, LimitedRequeue

-----------------------------------------------------------------------------
(* The types of what the log keeps, and of all the parts of MCLive.        *)

\* Nothing is written, waits, was given up or lost that was not logged.
LoggedInv == Known \subseteq 1 .. logged /\ logged <= MaxLogs /\ scheduled \in BOOLEAN

LEMMA LoggedInit == LoggerInit => LoggedInv
<1> SUFFICES ASSUME LoggerInit PROVE LoggedInv
  OBVIOUS
<1>1. \A t \in Tasks : ToSet(task[t].batch) = {}
  BY ToSetEmpty DEF LoggerInit, NoTask
<1>2. InBatch = {}
  BY <1>1 DEF InBatch
<1>3. Known = {}
  BY <1>2, ToSetEmpty DEF LoggerInit, Known
<1> QED
  <2>1. logged = 0 /\ MaxLogs \in Nat
    BY LoggerConstantsOK DEF LoggerInit
  <2>2. logged <= MaxLogs
    BY <2>1
  <2>3. scheduled \in BOOLEAN
    BY Zenon DEF LoggerInit
  <2>4. Known \subseteq 1 .. logged
    BY <1>3
  <2> QED
    BY <2>2, <2>3, <2>4 DEF LoggedInv

\* What the finally block leaves was in the queue or in the batch.
LEMMA FinallyLogged ==
    ASSUME Typed, LoggedInv, NEW t \in Tasks, NEW left \in Seq(Nat), Finally(t, left),
           ToSet(left) \subseteq Known, dropped' \subseteq Known,
           UNCHANGED <<written, logged, lost>>
    PROVE  LoggedInv'
<1>1. \A u \in Tasks : task'[u] = task[u] \/ ToSet(task'[u].batch) = {}
  BY ToSetEmpty DEF Finally, Typed, NoTask, Sleeping
<1>2. InBatch' \subseteq InBatch
  BY <1>1 DEF InBatch
<1>3. pending' = left /\ scheduled' \in BOOLEAN
  BY DEF Finally
<1> QED
  BY <1>2, <1>3 DEF LoggedInv, Known

LEMMA LoggedNext == Typed /\ LoggedInv /\ [LoggerNext]_loggerVars => LoggedInv'
<1> SUFFICES ASSUME Typed, LoggedInv, [LoggerNext]_loggerVars PROVE LoggedInv'
  OBVIOUS
<1>0. logged \in Nat /\ MaxLogs \in Nat
  BY LoggerConstantsOK DEF Typed
<1>g. ASSUME Known' \subseteq Known, UNCHANGED logged, scheduled' \in BOOLEAN PROVE LoggedInv'
  BY <1>g DEF LoggedInv
<1>1. CASE Log
  <2>1. ToSet(pending') = ToSet(pending) \cup {logged + 1}
    BY <1>1, ToSetAppend DEF Log, Typed
  <2>2. \A u \in Tasks : task'[u] = task[u] \/ ToSet(task'[u].batch) = {}
    BY <1>1, ToSetEmpty DEF Log, Typed, Sleeping
  <2>3. InBatch' \subseteq InBatch
    BY <2>2 DEF InBatch
  <2>4. Known' \subseteq Known \cup {logged + 1}
    BY <1>1, <2>1, <2>3 DEF Log, Known
  <2>5. logged' = logged + 1 /\ logged < MaxLogs /\ scheduled' \in BOOLEAN
    BY <1>1 DEF Log, LoggedInv
  <2> QED
    BY <1>0, <2>4, <2>5 DEF LoggedInv
<1>2. CASE Stop
  <2>1. \A u \in Tasks : ToSet(task'[u].batch) = {}
    BY <1>2, ToSetEmpty DEF Stop, NoTask
  <2>2. InBatch' = {} /\ ToSet(pending') = {}
    BY <1>2, <2>1, ToSetEmpty DEF Stop, InBatch
  <2> QED
    BY <1>2, <1>g, <2>2 DEF Stop, Known
<1>3. ASSUME NEW t \in Tasks, Take(t) PROVE LoggedInv'
  <2>1. CASE pending = <<>>
    <3>1. /\ Finally(t, <<>>) /\ UNCHANGED <<written, logged, dropped, lost>>
          /\ <<>> \in Seq(Nat)
      BY <1>3, <2>1 DEF Take
    <3>2. ToSet(<<>>) \subseteq Known /\ dropped' \subseteq Known
      BY <3>1, ToSetEmpty DEF Known
    <3> QED
      BY <3>1, <3>2, FinallyLogged
  <2>2. CASE pending # <<>>
    <3>1. task'[t].batch = pending /\ \A u \in Tasks : u # t => task'[u] = task[u]
      BY <1>3, <2>2 DEF Take, Typed
    <3>2. InBatch' \subseteq InBatch \cup ToSet(pending)
      BY <3>1 DEF InBatch
    <3>3. ToSet(pending') = {} /\ UNCHANGED <<written, logged, dropped, lost, scheduled>>
      BY <1>3, <2>2, ToSetEmpty DEF Take
    <3> QED
      BY <1>g, <3>2, <3>3 DEF Known, LoggedInv
  <2> QED
    BY <2>1, <2>2
<1>4. ASSUME NEW t \in Tasks, WriteLands(t) \/ WriteFails(t) PROVE LoggedInv'
  <2>1. task' = [task EXCEPT ![t].pc = "landed"] \/ task' = [task EXCEPT ![t].pc = "failed"]
    BY <1>4 DEF WriteLands, WriteFails
  <2>2. \A u \in Tasks : u # t => task'[u] = task[u]
    BY <2>1 DEF Typed
  <2>3. ASSUME NEW x, task' = [task EXCEPT ![t].pc = x] PROVE task'[t].batch = task[t].batch
    BY <2>3 DEF Typed
  <2>4. \A u \in Tasks : task'[u].batch = task[u].batch
    BY <2>1, <2>2, <2>3
  <2>5. InBatch' = InBatch /\ ToSet(task[t].batch) \subseteq InBatch
    BY <2>4 DEF InBatch
  <2>6. task[t].batch \in Seq(Nat) /\ written \in Seq(Nat)
    BY DEF Typed
  <2>7. ToSet(written') \subseteq ToSet(written) \cup InBatch
    BY <1>4, <2>5, <2>6, ToSetConcat DEF WriteLands, WriteFails
  <2> QED
    BY <1>4, <1>g, <2>5, <2>7 DEF WriteLands, WriteFails, Known, LoggedInv
<1>5. ASSUME NEW t \in Tasks, Finish(t) PROVE LoggedInv'
  BY <1>5, FinallyLogged DEF Finish, Known, Typed
<1>6. ASSUME NEW t \in Tasks, Requeue(t) PROVE LoggedInv'
  <2> DEFINE batch == task[t].batch
             left == Readded(batch) \o pending
  <2>1. /\ Finally(t, left)
        /\ dropped' = dropped \cup (ToSet(batch) \ ToSet(Readded(batch)))
        /\ UNCHANGED <<written, logged, lost>>
    BY <1>6 DEF Requeue
  <2>2. batch \in Seq(Nat) /\ pending \in Seq(Nat)
    BY DEF Typed
  <2>3. Readded(batch) \in Seq(Nat) /\ ToSet(Readded(batch)) \subseteq ToSet(batch)
    BY <2>2, ReaddedOK
  <2>4. ToSet(left) = ToSet(Readded(batch)) \cup ToSet(pending) /\ left \in Seq(Nat)
    BY <2>2, <2>3, ToSetConcat
  <2>5. ToSet(batch) \subseteq Known
    BY DEF Known, InBatch
  <2>6. ToSet(left) \subseteq Known /\ dropped' \subseteq Known
    BY <2>1, <2>3, <2>4, <2>5 DEF Known
  <2> HIDE DEF left
  <2> QED
    BY <2>1, <2>4, <2>6, FinallyLogged
<1>7. CASE UNCHANGED loggerVars
  BY <1>7 DEF loggerVars, LoggedInv, Known, InBatch
<1> QED
  BY <1>1, <1>2, <1>3, <1>4, <1>5, <1>6, <1>7 DEF LoggerNext, FlushStep

\* Entries in the order they were logged are at most as many as were logged.
LEMMA IncreasingLength ==
    ASSUME NEW n \in Nat, NEW s \in Seq(Nat), Increasing(s), ToSet(s) \subseteq 1 .. n
    PROVE  Len(s) <= n
<1>1. DOMAIN s = 1 .. Len(s) /\ Len(s) \in Nat /\ \A i \in 1 .. Len(s) : s[i] \in Nat
  OBVIOUS
<1>2. \A i \in 1 .. Len(s) : s[i] \in 1 .. n
  BY <1>1 DEF ToSet
<1>3. s \in [1 .. Len(s) -> 1 .. n]
  BY <1>1, <1>2
<1>4. \A i, j \in 1 .. Len(s) : s[i] = s[j] => i = j
  <2> SUFFICES ASSUME NEW i \in 1 .. Len(s), NEW j \in 1 .. Len(s), s[i] = s[j], i # j
               PROVE  FALSE
    OBVIOUS
  <2>1. i < j \/ j < i
    BY <1>1
  <2> QED
    BY <1>1, <2>1 DEF Increasing
<1>5. s \in Injection(1 .. Len(s), 1 .. n)
  BY <1>3, <1>4 DEF Injection, IsInjective
<1>6. /\ IsFiniteSet(1 .. n) /\ Cardinality(1 .. n) = n
      /\ Cardinality(1 .. Len(s)) = Len(s)
  <2>1. \A m \in Nat : m = IF 1 > m THEN 0 ELSE m - 1 + 1
    OBVIOUS
  <2>2. IsFiniteSet(1 .. n) /\ Cardinality(1 .. n) = n
    BY <2>1, FS_Interval
  <2>3. Cardinality(1 .. Len(s)) = Len(s)
    BY <1>1, <2>1, FS_Interval
  <2> QED
    BY <2>2, <2>3
<1> QED
  BY <1>5, <1>6, FS_Injection

\* The activity log's variables keep their types: what is queued, given up or
\* lost was logged, each entry at most once in the queue (log, _flush_logs).
THEOREM LoggerTypeCorrect == LoggerSpec => []LoggerTypeOK
<1> DEFINE Inv == Typed /\ OneFlusher /\ Batches /\ SortedInv /\ LoggedInv
<1>1. LoggerInit => Inv
  BY TypedInit, OneFlusherInit, BatchesInit, SortedInit, LoggedInit
<1>2. Inv /\ [LoggerNext]_loggerVars => Inv'
  BY TypedNext, OneFlusherNext, BatchesNext, SortedNext, LoggedNext
<1>3. Inv => LoggerTypeOK
  <2> SUFFICES ASSUME Inv PROVE LoggerTypeOK
    OBVIOUS
  <2>1. /\ logged \in Nat /\ MaxLogs \in Nat /\ pending \in Seq(Nat) /\ Len(pending) \in Nat
        /\ logged <= MaxLogs
    BY LoggerConstantsOK DEF Typed, LoggedInv
  <2>2. Len(pending) <= logged
    BY <2>1, IncreasingLength DEF SortedInv, LoggedInv, Known
  <2>3. 1 .. logged \subseteq 1 .. MaxLogs
    BY <2>1
  <2>4. dropped \subseteq 1 .. MaxLogs /\ lost \subseteq 1 .. MaxLogs
    BY <2>3 DEF LoggedInv, Known
  <2> QED
    BY <2>1, <2>2, <2>4 DEF Typed, LoggedInv, LoggerTypeOK
<1> HIDE DEF Inv
<1> QED
  BY <1>1, <1>2, <1>3, PTL DEF LoggerSpec

\* A behaviour of MCLive is one of each of its parts, which stutters or runs: each
\* keeps its types next to the others.
THEOREM LiveTypeCorrect == MCSpec => []LiveTypeOK
<1>1. MCInit => AuthInit /\ BreakerInit /\ LoggerInit
  BY DEF MCInit
<1>2. [MCNext]_liveVars => [AuthNext]_authVars /\ [BreakerNext]_breakerVars
                           /\ [LoggerNext]_loggerVars
  BY DEF MCNext, liveVars
<1>3. MCSpec => AuthSpec /\ BreakerSpec /\ LoggerSpec
  BY <1>1, <1>2, PTL DEF MCSpec, AuthSpec, BreakerSpec, LoggerSpec
<1>4. SetupTypeOK /\ AuthTypeOK /\ BreakerTypeOK /\ LoggerTypeOK <=> LiveTypeOK
  BY DEF LiveTypeOK
<1> QED
  BY <1>3, <1>4, AuthTypeCorrect, BreakerTypeCorrect, LoggerTypeCorrect, PTL
=============================================================================
