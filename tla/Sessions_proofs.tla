---------------------------- MODULE Sessions_proofs ----------------------------
(***************************************************************************)
(* Proofs about the sessions of clients with the gateway (MCPGateway) and  *)
(* of the sandbox with external servers (SessionPool), for any number of   *)
(* clients, tools, handlers, calls, keys and entries and any limits.       *)
(***************************************************************************)
EXTENDS MCPGateway, SessionPool, SequenceTheorems, FiniteSetTheorems,
        WellFoundedInduction, TLAPS

-----------------------------------------------------------------------------
(* MCPGateway.                                                             *)

\* The changes whose handlers commit before they notify.
ToldKinds == {"approve", "revoke", "start", "stop"}

Named == Tools \cup {NoJob.tool}

Job == [kind : AllKinds \cup {"none"}, tool : Named, local : BOOLEAN,
        todo : Seq({"commit", "register", "unregister", "status", "notify"})]

TypesOK == job \in [Jobs -> Job] /\ posts \in Nat /\ faults \in Nat

\* Whoever has work to do will notify in the end.
JobsInv == \A j \in Jobs :
    job[j].todo # <<>> => job[j].kind # "none" /\ job[j].todo[Len(job[j].todo)] = "notify"

Pending == posts > 0 \/ \E j \in Jobs : job[j].todo # <<>>

\* A change nobody was told of is still going to be told.
ToldInv == faults = 0 => untold = {} \/ Pending

ToldAll == TypesOK /\ JobsInv /\ ToldInv

\* The records of nothing to do.
LEMMA NoJobOK == NoJob \in Job /\ NoJob.kind = "none" /\ NoJob.todo = <<>>
<1>1. <<>> \in Seq({"commit", "register", "unregister", "status", "notify"})
  OBVIOUS
<1> QED
  BY <1>1 DEF NoJob, Job, Named

\* A handler goes on, and is done only after it has notified.
LEMMA AdvanceOK ==
  ASSUME TypesOK, JobsInv, NEW j \in Jobs, job[j].todo # <<>>, Advance(j)
  PROVE  /\ job' \in [Jobs -> Job] /\ JobsInv'
         /\ Head(job[j].todo) # "notify" => job'[j].todo # <<>>
<1> DEFINE todo == job[j].todo
           tail == Tail(todo)
           Steps == {"commit", "register", "unregister", "status", "notify"}
<1>1. job[j] \in Job /\ todo \in Seq(Steps) /\ todo # <<>>
  BY DEF TypesOK, Job
<1>2. /\ tail \in Seq(Steps) /\ Len(tail) = Len(todo) - 1
      /\ \A i \in 1 .. Len(tail) : tail[i] = todo[i + 1]
  BY <1>1, HeadTailProperties
<1>3. Len(todo) \in Nat /\ Len(todo) # 0
  BY <1>1, LenProperties, EmptySeq
<1>4. CASE Len(todo) = 1
  <2>1. Head(todo) = todo[Len(todo)]
    BY <1>1, <1>4
  <2>2. job' = [job EXCEPT ![j] = NoJob]
    BY <1>4 DEF Advance
  <2> HIDE DEF todo
  <2> QED
    BY <2>1, <2>2, NoJobOK DEF TypesOK, JobsInv, todo
<1>5. CASE Len(todo) # 1
  <2> DEFINE x == [job[j] EXCEPT !.todo = tail]
  <2>1. job' = [job EXCEPT ![j] = x]
    BY <1>5 DEF Advance
  <2> HIDE DEF tail
  <2>2. Len(tail) \in 1 .. Len(tail) /\ Len(tail) + 1 = Len(todo)
    <3> DEFINE n == Len(todo)
               m == Len(tail)
    <3>1. n \in Nat /\ n # 0 /\ n # 1 /\ m = n - 1
      BY <1>2, <1>3, <1>5
    <3> HIDE DEF n, m
    <3>2. m \in 1 .. m /\ m + 1 = n
      BY <3>1
    <3> QED
      BY <3>2 DEF n, m
  <2>3. tail # <<>> /\ tail[Len(tail)] = todo[Len(todo)]
    BY <1>2, <2>2
  <2>4. x \in Job /\ x.todo = tail /\ x.kind = job[j].kind
    BY <1>1, <1>2 DEF Job
  <2> HIDE DEF x
  <2> QED
    BY <1>1, <2>1, <2>3, <2>4 DEF TypesOK, JobsInv
<1> QED
  BY <1>4, <1>5

\* The handler of a change that is told begins with work to do.
LEMMA BeginOK ==
  ASSUME TypesOK, JobsInv, NEW j \in Jobs, NEW kind \in Kinds \cap ToldKinds, NEW t \in Tools,
         NEW local \in BOOLEAN, BeginChange(j, kind, t, local)
  PROVE  TypesOK' /\ JobsInv' /\ Pending'
<1> DEFINE p == Program(kind, running)
           x == [kind |-> kind, tool |-> t, local |-> local, todo |-> p]
<1>1. p \in { <<"commit", "register", "notify">>, <<"register", "status", "notify">>,
              <<"unregister", "status", "notify">> }
  BY DEF Program, ToldKinds
<1>2. /\ p \in Seq({"commit", "register", "unregister", "status", "notify"})
      /\ p # <<>> /\ Len(p) = 3 /\ p[3] = "notify"
  <2> HIDE DEF p
  <2>1. CASE p = <<"commit", "register", "notify">>
    BY <2>1
  <2>2. CASE p = <<"register", "status", "notify">>
    BY <2>2
  <2>3. CASE p = <<"unregister", "status", "notify">>
    BY <2>3
  <2> QED
    BY <1>1, <2>1, <2>2, <2>3
<1> HIDE DEF p
<1>3. x \in Job /\ x.kind # "none" /\ x.todo = p
  BY <1>2 DEF Job, ToldKinds, AllKinds, Named
<1>4. job' = [job EXCEPT ![j] = x] /\ UNCHANGED <<posts, faults>>
  BY DEF BeginChange, p
<1> HIDE DEF x
<1>5. TypesOK'
  BY <1>3, <1>4 DEF TypesOK
<1>6. JobsInv'
  BY <1>2, <1>3, <1>4 DEF TypesOK, JobsInv
<1>7. Pending'
  BY <1>2, <1>3, <1>4 DEF TypesOK, Pending
<1> QED
  BY <1>5, <1>6, <1>7

\* A handler that changes something still has its notification to make.
LEMMA ChangeOK ==
  ASSUME TypesOK, JobsInv, NEW j \in Jobs,
         Commit(j) \/ RegisterServer(j) \/ UnregisterServer(j) \/ CommitStatus(j)
  PROVE  TypesOK' /\ JobsInv' /\ Pending' /\ faults' = faults
<1>1. /\ job[j].todo # <<>> /\ Head(job[j].todo) # "notify" /\ Advance(j)
      /\ UNCHANGED <<posts, faults>>
  BY DEF Commit, RegisterServer, UnregisterServer, CommitStatus, About
<1>2. job' \in [Jobs -> Job] /\ JobsInv' /\ job'[j].todo # <<>>
  BY <1>1, AdvanceOK
<1>3. TypesOK'
  BY <1>1, <1>2 DEF TypesOK
<1>4. Pending'
  BY <1>2 DEF Pending
<1> QED
  BY <1>1, <1>2, <1>3, <1>4

\* Who notifies has told the gateway, or has a notification on the way.
LEMMA NotifyOK ==
  ASSUME TypesOK, JobsInv, NEW j \in Jobs, Notify(j)
  PROVE  TypesOK' /\ JobsInv' /\ (untold' = {} \/ Pending')
<1>1. job' \in [Jobs -> Job] /\ JobsInv'
  BY AdvanceOK DEF Notify, About
<1>2. posts' \in {posts, posts + 1} /\ faults' = faults /\ (untold' = {} \/ posts' = posts + 1)
  BY DEF Notify, Broadcast
<1> QED
  BY <1>1, <1>2 DEF TypesOK, Pending

\* A notification arrives, or its loss is a fault.
LEMMA ArrivalOK ==
  ASSUME TypesOK, JobsInv, Deliver \/ LosePost
  PROVE  TypesOK' /\ JobsInv' /\ ToldInv'
<1>1. posts' \in Nat /\ job' = job
  BY DEF Deliver, LosePost, TypesOK
<1>2. CASE Deliver
  BY <1>1, <1>2 DEF Deliver, Broadcast, TypesOK, JobsInv, ToldInv
<1>3. CASE LosePost
  BY <1>1, <1>3 DEF LosePost, TypesOK, JobsInv, ToldInv
<1> QED
  BY <1>2, <1>3

\* After a restart there is nothing to tell.
LEMMA RestartOK ==
  ASSUME TypesOK, JobsInv, RestartGateway
  PROVE  TypesOK' /\ JobsInv' /\ ToldInv'
<1>1. /\ job' \in [Jobs -> Job]
      /\ \A j \in Jobs : job'[j] = NoJob \/ job'[j] = job[j]
  BY NoJobOK DEF RestartGateway, TypesOK
<1>2. JobsInv'
  BY <1>1, NoJobOK DEF JobsInv
<1>3. TypesOK' /\ ToldInv'
  BY <1>1 DEF RestartGateway, TypesOK, ToldInv
<1> QED
  BY <1>2, <1>3

\* A registration or a listing that fails is a fault.
LEMMA FaultOK ==
  ASSUME TypesOK, JobsInv, (\E j \in Jobs : RegistrationFails(j)) \/ \E c \in Clients : ListFails(c)
  PROVE  TypesOK' /\ JobsInv' /\ ToldInv'
<1>1. posts' = posts /\ faults' \in Nat /\ faults' # 0
  <2>1. posts' = posts /\ faults' = faults + 1
    BY DEF RegistrationFails, ListFails, backendVars
  <2>2. faults + 1 \in Nat /\ faults + 1 # 0
    BY DEF TypesOK
  <2> QED
    BY <2>1, <2>2
<1>2. ASSUME NEW j \in Jobs, RegistrationFails(j) PROVE job' \in [Jobs -> Job] /\ JobsInv'
  <2>1. CASE job' = [job EXCEPT ![j] = NoJob]
    BY <2>1, NoJobOK DEF TypesOK, JobsInv
  <2>2. CASE job[j].todo # <<>> /\ Advance(j)
    BY <2>2, AdvanceOK
  <2> QED
    BY <1>2, <2>1, <2>2 DEF RegistrationFails, About
<1>3. ASSUME NEW c \in Clients, ListFails(c) PROVE job' \in [Jobs -> Job] /\ JobsInv'
  BY <1>3 DEF ListFails, backendVars, TypesOK, JobsInv
<1> QED
  BY <1>1, <1>2, <1>3 DEF TypesOK, ToldInv

\* Clients change no tools.
LEMMA ClientsTell ==
  ASSUME NEW c \in Clients,
         ClientStep(c) \/ SessionEnds(c) \/ OpenStream(c) \/ Disconnect(c)
  PROVE  UNCHANGED <<db, reg, job, posts, faults, untold>>
BY DEF ClientStep, InitializeClient, StartStream, CloseStream, Receive, ListRegistered,
       ListApproved, SessionEnds, OpenStream, Disconnect, backendVars

LEMMA ToldStep ==
  ASSUME Kinds \subseteq ToldKinds, ToldAll, [GatewayNext]_gatewayVars
  PROVE  ToldAll'
<1>1. ASSUME NEW j \in Jobs, NEW kind \in Kinds, NEW t \in Tools, NEW local \in BOOLEAN,
             BeginChange(j, kind, t, local)
      PROVE  ToldAll'
  BY <1>1, BeginOK DEF ToldAll, ToldInv
<1>2. ASSUME NEW j \in Jobs, JobStep(j)
      PROVE  ToldAll'
  BY <1>2, ChangeOK, NotifyOK DEF JobStep, ToldAll, ToldInv
<1>3. CASE Deliver \/ LosePost \/ RestartGateway
  BY <1>3, ArrivalOK, RestartOK DEF ToldAll
<1>4. ASSUME UNCHANGED <<job, posts, faults, untold>>
      PROVE  ToldAll'
  BY <1>4 DEF ToldAll, TypesOK, JobsInv, ToldInv, Pending
<1>5. ASSUME NEW c \in Clients,
             ClientStep(c) \/ SessionEnds(c) \/ OpenStream(c) \/ Disconnect(c)
      PROVE  ToldAll'
  BY <1>4, <1>5, ClientsTell
<1>6. CASE UNCHANGED gatewayVars
  BY <1>4, <1>6 DEF gatewayVars, backendVars
<1>7. CASE (\E j \in Jobs : RegistrationFails(j)) \/ \E c \in Clients : ListFails(c)
  BY <1>7, FaultOK DEF ToldAll
<1> QED
  BY <1>1, <1>2, <1>3, <1>5, <1>6, <1>7 DEF GatewayNext

\* Nothing is left to tell once nobody is at work.
THEOREM ToldCorrect ==
  ASSUME Kinds \subseteq ToldKinds
  PROVE  GatewaySpec => []ChangesAreTold
<1>1. ToldAll => ChangesAreTold
  BY DEF ToldAll, ToldInv, Pending, ChangesAreTold, AtRest, TypesOK
<1>2. ToldAll /\ [GatewayNext]_gatewayVars => ToldAll'
  BY ToldStep
<1>3. GatewayInit => ToldAll
  BY NoJobOK DEF GatewayInit, ToldAll, TypesOK, JobsInv, ToldInv
<1> QED
  BY <1>1, <1>2, <1>3, PTL DEF GatewaySpec


-----------------------------------------------------------------------------
\* The counter of streams, with the type it needs.
CountInv ==
    /\ stream \in [Clients -> {"none", "checked", "open", "left"}]
    /\ StreamsCounted

Counted(f) == {c \in Clients : f[c] \in {"open", "left"}}

\* What changes in the count when the stream of one client does.
LEMMA CountOne ==
  ASSUME CountInv, NEW c \in Clients,
         NEW s \in {"none", "checked", "open", "left"}, stream' = [stream EXCEPT ![c] = s],
         active' = CASE s \in {"open", "left"} /\ ~Subscribed(c) -> active + 1
                     [] s \notin {"open", "left"} /\ Subscribed(c) -> active - 1
                     [] OTHER -> active
  PROVE  CountInv'
<1> DEFINE old == Counted(stream)
           new == Counted(stream')
<1>1. /\ stream' \in [Clients -> {"none", "checked", "open", "left"}]
      /\ stream'[c] = s /\ \A d \in Clients \ {c} : stream'[d] = stream[d]
  BY DEF CountInv
<1>2. /\ c \in old <=> Subscribed(c)
      /\ s \in {"open", "left"} => new = old \cup {c}
      /\ s \notin {"open", "left"} => new = old \ {c}
  BY <1>1 DEF Counted, Subscribed
<1>3. old \in SUBSET Clients
  BY DEF Counted
<1>4. active = Cardinality(old) /\ (StreamsCounted' <=> active' = Cardinality(new))
  BY DEF CountInv, StreamsCounted, Subscribed, Counted
<1> HIDE DEF old, new
<1>5. IsFiniteSet(old)
  BY <1>3, GatewayConstantsOK, FS_Subset
<1>6. CASE s \in {"open", "left"}
  <2>1. Cardinality(new) = IF c \in old THEN Cardinality(old) ELSE Cardinality(old) + 1
    BY <1>2, <1>5, <1>6, FS_AddElement
  <2> QED
    BY <1>1, <1>2, <1>4, <1>6, <2>1 DEF CountInv
<1>7. CASE s \notin {"open", "left"}
  <2>1. Cardinality(new) = IF c \in old THEN Cardinality(old) - 1 ELSE Cardinality(old)
    BY <1>2, <1>5, <1>7, FS_RemoveElement
  <2> QED
    BY <1>1, <1>2, <1>4, <1>7, <2>1 DEF CountInv
<1> QED
  BY <1>6, <1>7

\* Every step counts the streams.
LEMMA CountStep ==
  ASSUME CountInv, [GatewayNext]_gatewayVars
  PROVE  CountInv'
<1>1. ASSUME NEW c \in Clients, StartStream(c) PROVE CountInv'
  <2>1. stream' = [stream EXCEPT ![c] = "open"] /\ ~Subscribed(c) /\ active' = active + 1
    BY <1>1 DEF StartStream, Subscribed
  <2> QED
    BY <2>1, CountOne
<1>2. ASSUME NEW c \in Clients, CloseStream(c) PROVE CountInv'
  <2>1. stream' = [stream EXCEPT ![c] = "none"] /\ Subscribed(c) /\ active' = active - 1
    BY <1>2 DEF CloseStream, Subscribed
  <2> QED
    BY <2>1, CountOne
<1>3. ASSUME NEW c \in Clients, Disconnect(c) PROVE CountInv'
  <2>1. PICK s \in {"left", "none"} :
          /\ stream' = [stream EXCEPT ![c] = s] /\ active' = active
          /\ s = "left" <=> Subscribed(c)
    BY <1>3 DEF Disconnect, Subscribed
  <2> QED
    BY <2>1, CountOne
<1>4. ASSUME NEW c \in Clients, OpenStream(c), stream' # stream PROVE CountInv'
  <2>1. stream' = [stream EXCEPT ![c] = "checked"] /\ ~Subscribed(c) /\ active' = active
    BY <1>4 DEF OpenStream, Subscribed
  <2> QED
    BY <2>1, CountOne
<1>5. CASE RestartGateway
  <2>1. stream' = [c \in Clients |-> "none"] /\ active' = 0
    BY <1>5 DEF RestartGateway
  <2>2. {c \in Clients : stream'[c] \in {"open", "left"}} = {}
    BY <2>1
  <2> QED
    BY <2>1, <2>2, FS_EmptySet DEF CountInv, StreamsCounted, Subscribed
<1>6. CASE UNCHANGED <<stream, active>>
  BY <1>6 DEF CountInv, StreamsCounted, Subscribed
<1>7. ASSUME NEW j \in Jobs, \/ JobStep(j) \/ RegistrationFails(j)
                             \/ \E kind \in Kinds, t \in Tools, local \in BOOLEAN :
                                   BeginChange(j, kind, t, local)
      PROVE  UNCHANGED <<stream, active>>
  BY <1>7 DEF JobStep, BeginChange, Commit, RegisterServer, UnregisterServer, RegistrationFails,
     CommitStatus, Notify, streamVars
<1>8. ASSUME NEW c \in Clients, \/ InitializeClient(c) \/ Receive(c) \/ ListRegistered(c)
                                \/ ListApproved(c) \/ ListFails(c) \/ SessionEnds(c)
                                \/ OpenStream(c) /\ stream' = stream
       PROVE  UNCHANGED <<stream, active>>
  BY <1>8 DEF InitializeClient, Receive, ListRegistered, ListApproved, ListFails, SessionEnds,
     OpenStream
<1>9. CASE Deliver \/ LosePost \/ UNCHANGED gatewayVars
  BY <1>6, <1>9 DEF Deliver, LosePost, gatewayVars, streamVars
<1> QED
  BY <1>1, <1>2, <1>3, <1>4, <1>5, <1>6, <1>7, <1>8, <1>9 DEF GatewayNext, ClientStep

\* The counter of event streams is exact, however they end: no slot leaks.
THEOREM CountCorrect == GatewaySpec => []StreamsCounted
<1>1. GatewayInit => CountInv
  <2> SUFFICES ASSUME GatewayInit PROVE CountInv
    OBVIOUS
  <2>1. {c \in Clients : Subscribed(c)} = {}
    BY DEF GatewayInit, Subscribed
  <2> QED
    BY <2>1, FS_EmptySet DEF GatewayInit, CountInv, StreamsCounted
<1>2. CountInv /\ [GatewayNext]_gatewayVars => CountInv'
  BY CountStep
<1>3. CountInv => StreamsCounted
  BY DEF CountInv
<1> QED
  BY <1>1, <1>2, <1>3, PTL DEF GatewaySpec

-----------------------------------------------------------------------------
\* What a handler still has to do: the ends of the programs.
Todos == {<<>>, <<"commit", "register", "notify">>, <<"register", "notify">>, <<"notify">>,
          <<"register", "status", "notify">>, <<"status", "notify">>,
          <<"unregister", "status", "notify">>, <<"register", "notify", "commit">>,
          <<"notify", "commit">>, <<"commit">>}

\* A handler that will notify still.
Telling(todo) == todo # <<>> /\ todo # <<"commit">>
Tellers(jobs) == {j \in Jobs : Telling(jobs[j].todo)}

Work == [kind : AllKinds \cup {"none"}, tool : Named, local : BOOLEAN, todo : Todos]

\* The inductive invariant of the types: a change is posted once at the most, by
\* the handler that made it.
JobsShape ==
    /\ db \subseteq Tools /\ reg \subseteq Tools /\ untold \subseteq Tools
    /\ running \in BOOLEAN
    /\ job \in [Jobs -> Work]
    /\ \A j \in Jobs : job[j].todo # <<>> => job[j].kind # "none" /\ job[j].tool \in Tools
    /\ changes \in 0 .. MaxChanges /\ posts \in Nat
    /\ IsFiniteSet(Tellers(job)) /\ posts + Cardinality(Tellers(job)) <= changes

StreamsShape ==
    /\ faults \in 0 .. MaxFaults
    /\ session \in [Clients -> BOOLEAN]
    /\ stream \in [Clients -> {"none", "checked", "open", "left"}]
    /\ queue \in [Clients -> 0 .. QueueSize]
    /\ \A c \in Clients : ~Subscribed(c) => queue[c] = 0
    /\ unlisted \subseteq Clients

LEMMA BoundsOK == MaxChanges \in Nat /\ MaxFaults \in Nat /\ QueueSize \in Nat /\ QueueSize > 0
  BY GatewayConstantsOK

\* The work that is left when the next step of it is done.
Left(todo) == IF Len(todo) = 1 THEN <<>> ELSE Tail(todo)

LEMMA LeftOK ==
  ASSUME NEW todo \in Todos, todo # <<>>
  PROVE  /\ Left(todo) \in Todos
         /\ Head(todo) = "notify" => Telling(todo) /\ ~Telling(Left(todo))
         /\ Head(todo) # "notify" => (Telling(Left(todo)) <=> Telling(todo))
<1>1. CASE todo = <<"commit", "register", "notify">>
  <2>1. Left(todo) = <<"register", "notify">>  BY <1>1 DEF Left
  <2>. QED  BY <1>1, <2>1 DEF Todos, Telling
<1>2. CASE todo = <<"register", "notify">>
  <2>1. Left(todo) = <<"notify">>  BY <1>2 DEF Left
  <2>. QED  BY <1>2, <2>1 DEF Todos, Telling
<1>3. CASE todo = <<"notify">>
  <2>1. Left(todo) = <<>>  BY <1>3 DEF Left
  <2>. QED  BY <1>3, <2>1 DEF Todos, Telling
<1>4. CASE todo = <<"register", "status", "notify">>
  <2>1. Left(todo) = <<"status", "notify">>  BY <1>4 DEF Left
  <2>. QED  BY <1>4, <2>1 DEF Todos, Telling
<1>5. CASE todo = <<"status", "notify">>
  <2>1. Left(todo) = <<"notify">>  BY <1>5 DEF Left
  <2>. QED  BY <1>5, <2>1 DEF Todos, Telling
<1>6. CASE todo = <<"unregister", "status", "notify">>
  <2>1. Left(todo) = <<"status", "notify">>  BY <1>6 DEF Left
  <2>. QED  BY <1>6, <2>1 DEF Todos, Telling
<1>7. CASE todo = <<"register", "notify", "commit">>
  <2>1. Left(todo) = <<"notify", "commit">>  BY <1>7 DEF Left
  <2>. QED  BY <1>7, <2>1 DEF Todos, Telling
<1>8. CASE todo = <<"notify", "commit">>
  <2>1. Left(todo) = <<"commit">>  BY <1>8 DEF Left
  <2>. QED  BY <1>8, <2>1 DEF Todos, Telling
<1>9. CASE todo = <<"commit">>
  <2>1. Left(todo) = <<>>  BY <1>9 DEF Left
  <2>. QED  BY <1>9, <2>1 DEF Todos, Telling
<1>. QED  BY <1>1, <1>2, <1>3, <1>4, <1>5, <1>6, <1>7, <1>8, <1>9 DEF Todos

\* A handler goes on; it is not going to notify any more once it has.
LEMMA AdvanceShape ==
  ASSUME JobsShape, NEW j \in Jobs, job[j].todo # <<>>, Advance(j)
  PROVE  /\ job' \in [Jobs -> Work]
         /\ \A i \in Jobs : job'[i].todo # <<>> => job'[i].kind # "none" /\ job'[i].tool \in Tools
         /\ Head(job[j].todo) # "notify" => Tellers(job') = Tellers(job)
         /\ Head(job[j].todo) = "notify" => /\ j \in Tellers(job)
                                            /\ Tellers(job') = Tellers(job) \ {j}
<1>. PICK w \in Work : w = job[j]  BY DEF JobsShape
<1>1. w.todo \in Todos /\ w.todo # <<>>  BY DEF Work
<1>2. PICK x \in Work : job' = [job EXCEPT ![j] = x] /\ x.todo = Left(w.todo)
                        /\ (x.todo # <<>> => x.kind = w.kind /\ x.tool = w.tool)
  <2>1. CASE Len(w.todo) = 1
    <3>1. NoJob \in Work /\ NoJob.todo = <<>>  BY DEF NoJob, Work, Todos, Named
    <3>2. job' = [job EXCEPT ![j] = NoJob] /\ Left(w.todo) = <<>>  BY <2>1 DEF Advance, Left
    <3>. QED  BY <3>1, <3>2
  <2>2. CASE Len(w.todo) # 1
    <3>. DEFINE l == Left(w.todo)
    <3>. PICK x : x = [w EXCEPT !.todo = l]  OBVIOUS
    <3>1. l \in Todos  BY <1>1, LeftOK
    <3>2. l = Tail(job[j].todo)  BY <2>2 DEF Left
    <3>3. job' = [job EXCEPT ![j] = x]  BY <2>2, <3>2 DEF Advance
    <3>. HIDE DEF l
    <3>4. x \in Work /\ x.todo = l /\ x.kind = w.kind /\ x.tool = w.tool  BY <3>1 DEF Work
    <3>. QED  BY <3>3, <3>4 DEF l
  <2>. QED  BY <2>1, <2>2
<1>3. job' \in [Jobs -> Work] /\ job'[j] = x /\ \A i \in Jobs \ {j} : job'[i] = job[i]
  BY <1>2 DEF JobsShape
<1>4. \A i \in Jobs : job'[i].todo # <<>> => job'[i].kind # "none" /\ job'[i].tool \in Tools
  BY <1>1, <1>2, <1>3 DEF JobsShape
<1>5. /\ Head(w.todo) = "notify" => Telling(w.todo) /\ ~Telling(x.todo)
      /\ Head(w.todo) # "notify" => (Telling(x.todo) <=> Telling(w.todo))
  BY <1>1, <1>2, LeftOK
<1>6. Head(w.todo) # "notify" => Tellers(job') = Tellers(job)
  BY <1>3, <1>5 DEF Tellers
<1>7. Head(w.todo) = "notify" => j \in Tellers(job) /\ Tellers(job') = Tellers(job) \ {j}
  BY <1>3, <1>5 DEF Tellers
<1>. QED  BY <1>3, <1>4, <1>6, <1>7

\* A handler begins: it may notify once.
LEMMA BeginShape ==
  ASSUME JobsShape, NEW j \in Jobs, NEW kind \in Kinds, NEW t \in Tools, NEW local \in BOOLEAN,
         BeginChange(j, kind, t, local)
  PROVE  JobsShape'
<1>. DEFINE p == Program(kind, running)
            x == [kind |-> kind, tool |-> t, local |-> local, todo |-> p]
<1>1. p \in Todos  BY DEF Program, Todos
<1>2. x \in Work /\ x.todo = p /\ x.kind # "none" /\ x.tool = t
  <2>. HIDE DEF p
  <2>. QED  BY <1>1, GatewayConstantsOK DEF Work, Named, AllKinds
<1>3. /\ job' = [job EXCEPT ![j] = x] /\ changes' = changes + 1 /\ changes < MaxChanges
      /\ UNCHANGED <<db, running, reg, posts, untold>>
  BY DEF BeginChange
<1>. HIDE DEF x
<1>4. job' \in [Jobs -> Work] /\ job'[j] = x /\ \A i \in Jobs \ {j} : job'[i] = job[i]
  BY <1>2, <1>3 DEF JobsShape
<1>5. Tellers(job') \subseteq Tellers(job) \cup {j}
  BY <1>4 DEF Tellers
<1>6. IsFiniteSet(Tellers(job) \cup {j}) /\ IsFiniteSet(Tellers(job))
      /\ Cardinality(Tellers(job) \cup {j}) \in {Cardinality(Tellers(job)), Cardinality(Tellers(job)) + 1}
  BY FS_AddElement DEF JobsShape
<1>7. IsFiniteSet(Tellers(job')) /\ Cardinality(Tellers(job')) <= Cardinality(Tellers(job) \cup {j})
  BY <1>5, <1>6, FS_Subset
<1>8. Cardinality(Tellers(job)) \in Nat /\ Cardinality(Tellers(job')) \in Nat
  BY <1>6, <1>7, FS_CardinalityType
<1>9. posts' + Cardinality(Tellers(job')) <= changes'
  BY <1>3, <1>6, <1>7, <1>8, BoundsOK DEF JobsShape
<1>10. changes' \in 0 .. MaxChanges  BY <1>3, BoundsOK DEF JobsShape
<1>11. \A i \in Jobs : job'[i].todo # <<>> => job'[i].kind # "none" /\ job'[i].tool \in Tools
  BY <1>2, <1>4 DEF JobsShape
<1>. QED  BY <1>3, <1>4, <1>7, <1>9, <1>10, <1>11 DEF JobsShape

\* A handler changes the tools.
LEMMA ChangeShape ==
  ASSUME JobsShape, NEW j \in Jobs,
         Commit(j) \/ RegisterServer(j) \/ UnregisterServer(j) \/ CommitStatus(j)
  PROVE  JobsShape'
<1>1. /\ job[j].todo # <<>> /\ Head(job[j].todo) # "notify" /\ Advance(j)
      /\ UNCHANGED <<posts, changes>>
  BY DEF Commit, RegisterServer, UnregisterServer, CommitStatus, About
<1>2. OwnView(job[j]) \subseteq Tools /\ ToRegister(job[j]) \subseteq Tools
  BY <1>1 DEF JobsShape, OwnView, ToRegister
<1>3. /\ db' \subseteq Tools /\ reg' \subseteq Tools /\ untold' \subseteq Tools
      /\ running' \in BOOLEAN
  BY <1>2 DEF Commit, RegisterServer, UnregisterServer, CommitStatus, Differing, Listing,
     JobsShape
<1>. QED  BY <1>1, <1>3, AdvanceShape DEF JobsShape

\* A handler notifies, and a notification arrives or is lost.
LEMMA NotifyShape ==
  ASSUME JobsShape, (\E j \in Jobs : Notify(j)) \/ Deliver \/ LosePost
  PROVE  JobsShape'
<1>1. ASSUME NEW j \in Jobs, Notify(j) PROVE JobsShape'
  <2>1. /\ job[j].todo # <<>> /\ Head(job[j].todo) = "notify" /\ Advance(j)
        /\ UNCHANGED <<db, running, reg, changes>>
    BY <1>1 DEF Notify, About
  <2>2. posts' \in {posts, posts + 1} /\ untold' \subseteq Tools
    BY <1>1 DEF Notify, Broadcast, JobsShape
  <2>3. j \in Tellers(job) /\ Tellers(job') = Tellers(job) \ {j}
    BY <2>1, AdvanceShape
  <2>4. IsFiniteSet(Tellers(job')) /\ Cardinality(Tellers(job')) = Cardinality(Tellers(job)) - 1
    BY <2>3, FS_RemoveElement DEF JobsShape
  <2>5. Cardinality(Tellers(job)) \in Nat  BY FS_CardinalityType DEF JobsShape
  <2>6. posts' \in Nat /\ posts' + Cardinality(Tellers(job')) <= changes'
    BY <2>1, <2>2, <2>4, <2>5 DEF JobsShape
  <2>. QED  BY <2>1, <2>2, <2>4, <2>6, AdvanceShape DEF JobsShape
<1>2. ASSUME Deliver \/ LosePost PROVE JobsShape'
  <2>1. /\ UNCHANGED <<db, running, reg, job, changes>> /\ untold' \subseteq Tools
        /\ posts > 0 /\ posts' = posts - 1
    BY <1>2 DEF Deliver, LosePost, Broadcast, JobsShape
  <2>2. Cardinality(Tellers(job)) \in Nat  BY FS_CardinalityType DEF JobsShape
  <2>3. posts' \in Nat /\ posts' + Cardinality(Tellers(job')) <= changes'
    BY <2>1, <2>2 DEF JobsShape
  <2>. QED  BY <2>1, <2>3 DEF JobsShape
<1>. QED  BY <1>1, <1>2

\* A handler whose registration fails gives up, or goes on.
LEMMA FailShape ==
  ASSUME JobsShape, NEW j \in Jobs, RegistrationFails(j)
  PROVE  JobsShape'
<1>1. /\ job[j].todo # <<>> /\ Head(job[j].todo) # "notify"
      /\ UNCHANGED <<db, running, posts, changes>>
  BY DEF RegistrationFails, About
<1>2. ToRegister(job[j]) \subseteq Tools
  BY <1>1 DEF JobsShape, OwnView, ToRegister
<1>3. reg' \subseteq Tools /\ untold' \subseteq Tools
  BY <1>2 DEF RegistrationFails, Differing, JobsShape
<1>4. CASE Advance(j)
  BY <1>1, <1>3, <1>4, AdvanceShape DEF JobsShape
<1>5. CASE job' = [job EXCEPT ![j] = NoJob]
  <2>1. NoJob \in Work /\ NoJob.todo = <<>>  BY DEF NoJob, Work, Todos, Named
  <2>2. job' \in [Jobs -> Work] /\ \A i \in Jobs : job'[i] = NoJob \/ job'[i] = job[i]
    BY <1>5, <2>1 DEF JobsShape
  <2>3. Tellers(job') \subseteq Tellers(job)  BY <2>1, <2>2 DEF Tellers, Telling
  <2>4. IsFiniteSet(Tellers(job')) /\ Cardinality(Tellers(job')) <= Cardinality(Tellers(job))
    BY <2>3, FS_Subset DEF JobsShape
  <2>5. Cardinality(Tellers(job')) \in Nat /\ Cardinality(Tellers(job)) \in Nat
    BY <2>4, FS_CardinalityType DEF JobsShape
  <2>. QED  BY <1>1, <1>3, <2>1, <2>2, <2>4, <2>5 DEF JobsShape
<1>. QED  BY <1>4, <1>5 DEF RegistrationFails

\* The handlers of the gateway end with it.
LEMMA RestartShape ==
  ASSUME JobsShape, RestartGateway
  PROVE  JobsShape'
<1>1. /\ \A j \in Jobs : job'[j] = NoJob \/ job'[j] = job[j]
      /\ UNCHANGED <<db, running, reg, posts, changes>> /\ untold' = {}
  BY DEF RestartGateway
<1>2. NoJob \in Work /\ NoJob.todo = <<>>  BY DEF NoJob, Work, Todos, Named
<1>3. job' \in [Jobs -> Work]  BY <1>2 DEF RestartGateway, JobsShape
<1>4. Tellers(job') \subseteq Tellers(job)  BY <1>1, <1>2 DEF Tellers, Telling
<1>5. IsFiniteSet(Tellers(job')) /\ Cardinality(Tellers(job')) <= Cardinality(Tellers(job))
  BY <1>4, FS_Subset DEF JobsShape
<1>6. Cardinality(Tellers(job')) \in Nat /\ Cardinality(Tellers(job)) \in Nat
  BY <1>5, FS_CardinalityType DEF JobsShape
<1>7. posts' + Cardinality(Tellers(job')) <= changes' /\ posts' \in Nat /\ changes' \in 0 .. MaxChanges
  BY <1>1, <1>5, <1>6, BoundsOK DEF JobsShape
<1>8. \A j \in Jobs : job'[j].todo # <<>> => job'[j].kind # "none" /\ job'[j].tool \in Tools
  BY <1>1, <1>2 DEF JobsShape
<1>9. db' \subseteq Tools /\ reg' \subseteq Tools /\ untold' \subseteq Tools /\ running' \in BOOLEAN
  BY <1>1 DEF JobsShape
<1>. QED  BY <1>3, <1>5, <1>7, <1>8, <1>9 DEF JobsShape

\* Steps of clients and of streams.
LEMMA ClientShape ==
  ASSUME StreamsShape, NEW c \in Clients,
         ClientStep(c) \/ SessionEnds(c) \/ OpenStream(c) \/ Disconnect(c) \/ ListFails(c)
  PROVE  StreamsShape' /\ UNCHANGED <<db, running, reg, job, posts, changes, untold>>
<1>0. 0 \in 0 .. QueueSize  BY BoundsOK
<1>1. CASE InitializeClient(c) \/ SessionEnds(c) \/ ListRegistered(c) \/ ListApproved(c)
  BY <1>1 DEF InitializeClient, SessionEnds, ListRegistered, ListApproved, RefuseSession,
     StreamsShape, Subscribed, backendVars
<1>2. CASE OpenStream(c)
  BY <1>2 DEF OpenStream, RefuseSession, StreamsShape, Subscribed, backendVars
<1>3. CASE StartStream(c)
  BY <1>0, <1>3 DEF StartStream, StreamsShape, Subscribed, backendVars
<1>4. CASE CloseStream(c)
  BY <1>0, <1>4 DEF CloseStream, StreamsShape, Subscribed, backendVars
<1>5. CASE Disconnect(c)
  BY <1>5 DEF Disconnect, StreamsShape, Subscribed, backendVars
<1>6. CASE Receive(c)
  <2>1. queue[c] \in 0 .. QueueSize /\ queue[c] > 0  BY <1>6 DEF Receive, StreamsShape
  <2>2. PICK n : n = queue[c] - 1  OBVIOUS
  <2>3. n \in 0 .. QueueSize /\ queue' = [queue EXCEPT ![c] = n]
    BY <1>6, <2>1, <2>2, BoundsOK DEF Receive
  <2>. QED  BY <1>6, <2>3 DEF Receive, StreamsShape, Subscribed, backendVars
<1>7. CASE ListFails(c)
  <2>1. faults' \in 0 .. MaxFaults  BY <1>7, BoundsOK DEF ListFails, StreamsShape
  <2>. QED  BY <1>7, <2>1 DEF ListFails, StreamsShape, Subscribed, backendVars
<1>. QED  BY <1>1, <1>2, <1>3, <1>4, <1>5, <1>6, <1>7 DEF ClientStep

\* Steps of handlers, of notifications and of the gateway process.
LEMMA ServerShape ==
  ASSUME StreamsShape,
         \/ \E j \in Jobs : JobStep(j) \/ RegistrationFails(j)
         \/ \E j \in Jobs, kind \in Kinds, t \in Tools, local \in BOOLEAN :
               BeginChange(j, kind, t, local)
         \/ Deliver \/ LosePost \/ RestartGateway
  PROVE  StreamsShape'
<1>1. ASSUME UNCHANGED <<session, stream, faults, unlisted>>, Broadcast PROVE StreamsShape'
  <2>1. \A n \in 0 .. QueueSize : Put(n) \in 0 .. QueueSize  BY BoundsOK DEF Put
  <2>2. /\ queue' \in [Clients -> 0 .. QueueSize]
        /\ \A c \in Clients : ~Subscribed(c) => queue'[c] = queue[c]
    BY <1>1, <2>1 DEF Broadcast, StreamsShape
  <2>. QED  BY <1>1, <2>2 DEF StreamsShape, Subscribed
<1>2. ASSUME UNCHANGED <<session, stream, queue, unlisted>>, faults' \in 0 .. MaxFaults
      PROVE  StreamsShape'
  BY <1>2 DEF StreamsShape, Subscribed
<1>3. CASE \E j \in Jobs : JobStep(j)
  BY <1>1, <1>2, <1>3 DEF JobStep, Commit, RegisterServer, UnregisterServer, CommitStatus, Notify,
     streamVars, StreamsShape
<1>4. CASE \E j \in Jobs, kind \in Kinds, t \in Tools, local \in BOOLEAN :
              BeginChange(j, kind, t, local)
  BY <1>2, <1>4 DEF BeginChange, streamVars, StreamsShape
<1>5. CASE Deliver  BY <1>1, <1>5 DEF Deliver
<1>6. CASE LosePost
  <2>1. faults' \in 0 .. MaxFaults  BY <1>6, BoundsOK DEF LosePost, StreamsShape
  <2>. QED  BY <1>2, <1>6, <2>1 DEF LosePost, streamVars
<1>7. CASE RestartGateway
  <2>1. faults' \in 0 .. MaxFaults /\ 0 \in 0 .. QueueSize
    BY <1>7, BoundsOK DEF RestartGateway, StreamsShape
  <2>. QED  BY <1>7, <2>1 DEF RestartGateway, StreamsShape, Subscribed
<1>8. CASE \E j \in Jobs : RegistrationFails(j)
  <2>1. faults' \in 0 .. MaxFaults  BY <1>8, BoundsOK DEF RegistrationFails, StreamsShape
  <2>. QED  BY <1>2, <1>8, <2>1 DEF RegistrationFails, streamVars
<1>. QED  BY <1>3, <1>4, <1>5, <1>6, <1>7, <1>8

Shape == JobsShape /\ StreamsShape

LEMMA ShapeInit == GatewayInit => Shape
<1>. SUFFICES ASSUME GatewayInit PROVE Shape  OBVIOUS
<1>1. NoJob \in Work /\ NoJob.todo = <<>>  BY DEF NoJob, Work, Todos, Named
<1>2. Tellers(job) = {}  BY <1>1 DEF GatewayInit, Tellers, Telling
<1>3. IsFiniteSet(Tellers(job)) /\ Cardinality(Tellers(job)) = 0  BY <1>2, FS_EmptySet
<1>. QED  BY <1>1, <1>3, BoundsOK DEF GatewayInit, Shape, JobsShape, StreamsShape, Subscribed

LEMMA ShapeStep == Shape /\ [GatewayNext]_gatewayVars => Shape'
<1>. SUFFICES ASSUME JobsShape, StreamsShape, [GatewayNext]_gatewayVars
              PROVE  JobsShape' /\ StreamsShape'
  BY DEF Shape
<1>1. CASE \E j \in Jobs, kind \in Kinds, t \in Tools, local \in BOOLEAN :
              BeginChange(j, kind, t, local)
  BY <1>1, BeginShape, ServerShape
<1>2. CASE \E j \in Jobs : JobStep(j)
  BY <1>2, ChangeShape, NotifyShape, ServerShape DEF JobStep
<1>3. CASE Deliver \/ LosePost  BY <1>3, NotifyShape, ServerShape
<1>4. CASE RestartGateway  BY <1>4, RestartShape, ServerShape
<1>5. ASSUME UNCHANGED <<db, running, reg, job, posts, changes, untold>> PROVE JobsShape'
  BY <1>5 DEF JobsShape
<1>6. CASE \E c \in Clients : ClientStep(c) \/ SessionEnds(c) \/ OpenStream(c) \/ Disconnect(c)
                               \/ ListFails(c)
  BY <1>5, <1>6, ClientShape
<1>7. CASE UNCHANGED gatewayVars
  BY <1>5, <1>7 DEF gatewayVars, backendVars, streamVars, StreamsShape, Subscribed
<1>8. CASE \E j \in Jobs : RegistrationFails(j)  BY <1>8, FailShape, ServerShape
<1>. QED  BY <1>1, <1>2, <1>3, <1>4, <1>6, <1>7, <1>8 DEF GatewayNext

\* The gateway's state keeps its shape: a change is posted to the gateway once at
\* the most, a queue never holds more than its limit, and it is empty when nobody
\* subscribes (fire_and_forget_notify, broadcast_tools_changed, event_generator).
THEOREM GatewayTypeCorrect == GatewaySpec => []GatewayTypeOK
<1>1. Shape => GatewayTypeOK
  <2>. SUFFICES ASSUME JobsShape, StreamsShape PROVE GatewayTypeOK  BY DEF Shape
  <2>1. Cardinality(Tellers(job)) \in Nat  BY FS_CardinalityType DEF JobsShape
  <2>2. posts \in 0 .. MaxChanges  BY <2>1, BoundsOK DEF JobsShape
  <2>. QED  BY <2>2 DEF JobsShape, StreamsShape, GatewayTypeOK
<1>. QED  BY <1>1, ShapeInit, ShapeStep, PTL DEF GatewaySpec

-----------------------------------------------------------------------------
(* What a client knows: the tools of its last listing differ from those of the *)
(* present only where the gateway has not been told, whoever is at work, unless *)
(* that listing failed.                                                        *)

Client == [pc : {"initialize", "idle", "list", "filter"}, read : SUBSET Tools,
           seen : SUBSET Tools]

ListenTypes ==
    /\ db \subseteq Tools /\ reg \subseteq Tools
    /\ stream \in [Clients -> {"none", "checked", "open", "left"}]
    /\ queue \in [Clients -> Nat]
    /\ client \in [Clients -> Client]

\* A client that reads its stream has been told to list, or is listing what there
\* is, or has, as far as the gateway has been told.
UpToNow(c) ==
    \/ stream[c] # "open"
    \/ queue[c] > 0
    \/ client[c].pc \in {"initialize", "list"}
    \/ client[c].pc = "filter" /\ (client[c].read \ untold) = (reg \ untold)
    \/ client[c].pc = "idle" /\ (c \in unlisted \/ UpToDate(c))

ListenInv == \A c \in Clients : UpToNow(c)

\* The tools have changed where it is recorded, or everybody is told.
LEMMA ToolsOK ==
  ASSUME ListenInv, UNCHANGED <<stream, client, unlisted>>,
         \/ /\ UNCHANGED queue /\ untold \subseteq untold'
            /\ Differing(reg, reg') \subseteq untold' \/ reg' = reg
            /\ Differing(Listing, Listing') \subseteq untold'
         \/ UNCHANGED <<db, reg>> /\ \A c \in Clients : stream[c] = "open" => queue'[c] > 0
  PROVE  ListenInv'
  BY DEF ListenInv, UpToNow, UpToDate, Differing

\* The event reaches every stream.
LEMMA BroadcastOK ==
  ASSUME ListenTypes, Broadcast
  PROVE  /\ queue' \in [Clients -> Nat] /\ untold' = {}
         /\ \A c \in Clients : stream[c] = "open" => queue'[c] > 0
<1>1. \A n \in Nat : Put(n) \in Nat /\ Put(n) > 0
  BY GatewayConstantsOK DEF Put
<1> QED
  BY <1>1 DEF Broadcast, ListenTypes, Subscribed

\* A handler changes the tools, or tells everybody.
LEMMA WorkOK ==
  ASSUME Shape, ListenTypes, ListenInv, NEW j \in Jobs, JobStep(j) \/ RegistrationFails(j)
  PROVE  client' = client /\ ListenInv'
<1>1. CASE Commit(j)
  <2>1. UNCHANGED <<reg, streamVars, unlisted>> /\ untold' = untold \cup Differing(Listing, Listing')
    BY <1>1 DEF Commit
  <2> QED
    BY <2>1, ToolsOK DEF streamVars
<1>2. CASE RegisterServer(j) \/ UnregisterServer(j) \/ RegistrationFails(j)
  <2>1. UNCHANGED <<db, streamVars, unlisted>> /\ untold' = untold \cup Differing(reg, reg')
    BY <1>2 DEF RegisterServer, UnregisterServer, RegistrationFails
  <2>2. Differing(Listing, Listing') \subseteq Differing(reg, reg')
    BY <2>1 DEF Differing, Listing
  <2> QED
    BY <2>1, <2>2, ToolsOK DEF streamVars
<1>3. CASE CommitStatus(j)
  <2>1. UNCHANGED <<db, reg, streamVars, untold, unlisted>>
    BY <1>3 DEF CommitStatus
  <2>2. Listing' = Listing
    BY <2>1 DEF Listing
  <2> QED
    BY <2>1, <2>2, ToolsOK DEF streamVars, Differing
<1>4. CASE Notify(j)
  <2>1. UNCHANGED <<db, reg, stream, client, unlisted>>
    BY <1>4 DEF Notify
  <2>2. CASE Broadcast
    BY <2>1, <2>2, BroadcastOK, ToolsOK
  <2>3. CASE UNCHANGED <<queue, untold>>
    <3>1. Listing' = Listing
      BY <2>1 DEF Listing
    <3> QED
      BY <2>1, <2>3, <3>1, ToolsOK DEF Differing
  <2> QED
    BY <1>4, <2>1, <2>2, <2>3 DEF Notify
<1> QED
  BY <1>1, <1>2, <1>3, <1>4 DEF JobStep, streamVars

\* A notification arrives, or is lost: then the change stays untold.
LEMMA PostOK ==
  ASSUME ListenTypes, ListenInv, Deliver \/ LosePost
  PROVE  client' = client /\ ListenInv'
<1>1. UNCHANGED <<db, reg, stream, client, unlisted>>
  BY DEF Deliver, LosePost, streamVars
<1>2. Listing' = Listing
  BY <1>1 DEF Listing
<1>3. CASE Deliver
  BY <1>1, <1>3, BroadcastOK, ToolsOK DEF Deliver
<1>4. CASE LosePost
  BY <1>1, <1>2, <1>4, ToolsOK DEF LosePost, streamVars, Differing
<1> QED
  BY <1>1, <1>3, <1>4

\* A step of client c touches no other client, and no tools.
OnlyClient(c) ==
    /\ UNCHANGED <<db, reg, untold>>
    /\ client' \in [Clients -> Client]
    /\ \A d \in Clients \ {c} :
          /\ client'[d] = client[d] /\ stream'[d] = stream[d] /\ queue'[d] = queue[d]
          /\ d \in unlisted' <=> d \in unlisted

\* A step of one client leaves what is known of the others.
LEMMA OnlyClientOK ==
  ASSUME ListenInv, NEW c \in Clients, OnlyClient(c), UpToNow(c) => UpToNow(c)'
  PROVE  client' \in [Clients -> Client] /\ ListenInv'
<1>1. Listing' = Listing
  BY DEF OnlyClient, Listing
<1>2. \A d \in Clients : UpToNow(d)'
  BY <1>1 DEF OnlyClient, UpToNow, UpToDate, ListenInv
<1> QED
  BY <1>2 DEF ListenInv, OnlyClient

\* The client only goes on to pc.
LEMMA DoOK ==
  ASSUME ListenTypes, NEW c \in Clients, NEW pc \in {"initialize", "idle", "list", "filter"}, Do(c, pc)
  PROVE  /\ client' \in [Clients -> Client]
         /\ client'[c].pc = pc
         /\ \A d \in Clients \ {c} : client'[d] = client[d]
<1> DEFINE x == [client[c] EXCEPT !.pc = pc]
<1>1. x \in Client /\ x.pc = pc
  BY DEF ListenTypes, Client
<1>2. client' = [client EXCEPT ![c] = x]
  BY DEF Do
<1> HIDE DEF x
<1> QED
  BY <1>1, <1>2 DEF ListenTypes

\* The steps of a client keep it told, or told to list.
LEMMA ClientOK ==
  ASSUME ListenTypes, ListenInv, NEW c \in Clients,
         ClientStep(c) \/ SessionEnds(c) \/ OpenStream(c) \/ Disconnect(c) \/ ListFails(c)
  PROVE  client' \in [Clients -> Client] /\ ListenInv'
<1> DEFINE Streams == {"none", "checked", "open", "left"}
<1>s. stream \in [Clients -> Streams] /\ queue \in [Clients -> Nat]
      /\ client \in [Clients -> Client]
  BY DEF ListenTypes
<1>1. ASSUME RefuseSession(c), UNCHANGED <<backendVars, stream, queue, untold, unlisted>>
      PROVE  OnlyClient(c) /\ UpToNow(c)'
  <2>1. Do(c, "initialize")
    BY <1>1 DEF RefuseSession
  <2> QED
    BY <1>1, <1>s, <2>1, DoOK DEF OnlyClient, UpToNow, backendVars
<1>2. ASSUME InitializeClient(c) PROVE OnlyClient(c) /\ UpToNow(c)'
  <2>1. PICK pc \in {"idle", "list"} : Do(c, pc) /\ (pc = "idle" => stream[c] = "none")
    BY <1>2 DEF InitializeClient
  <2> QED
    BY <1>2, <1>s, <2>1, DoOK DEF InitializeClient, OnlyClient, UpToNow, backendVars
<1>3. ASSUME SessionEnds(c) PROVE OnlyClient(c) /\ (UpToNow(c) => UpToNow(c)')
  BY <1>3, <1>s DEF SessionEnds, OnlyClient, UpToNow, UpToDate, backendVars, Listing
<1>4. ASSUME OpenStream(c) PROVE OnlyClient(c) /\ UpToNow(c)'
  <2>1. ASSUME stream' = [stream EXCEPT ![c] = "checked"], client' = client,
               UNCHANGED <<backendVars, queue, untold, unlisted>>
        PROVE  OnlyClient(c) /\ UpToNow(c)'
    BY <1>s, <2>1 DEF OnlyClient, UpToNow, backendVars
  <2> QED
    BY <1>1, <1>4, <2>1 DEF OpenStream
<1>5. ASSUME StartStream(c) PROVE OnlyClient(c) /\ UpToNow(c)'
  <2>1. Do(c, "list")
    BY <1>5 DEF StartStream
  <2> QED
    BY <1>5, <1>s, <2>1, DoOK DEF StartStream, OnlyClient, UpToNow, backendVars
<1>6. ASSUME Disconnect(c) PROVE OnlyClient(c) /\ UpToNow(c)'
  <2>1. Do(c, "initialize")
    BY <1>6 DEF Disconnect
  <2> QED
    BY <1>6, <1>s, <2>1, DoOK DEF Disconnect, OnlyClient, UpToNow, backendVars
<1>7. ASSUME CloseStream(c) PROVE OnlyClient(c) /\ UpToNow(c)'
  BY <1>7, <1>s DEF CloseStream, OnlyClient, UpToNow, backendVars
<1>8. ASSUME Receive(c) PROVE OnlyClient(c) /\ UpToNow(c)'
  <2>1. Do(c, "list")
    BY <1>8 DEF Receive
  <2>2. queue' \in [Clients -> Nat] /\ \A d \in Clients \ {c} : queue'[d] = queue[d]
    BY <1>8, <1>s DEF Receive
  <2> QED
    BY <1>8, <1>s, <2>1, <2>2, DoOK DEF Receive, OnlyClient, UpToNow, backendVars
<1>9. ASSUME ListRegistered(c) PROVE OnlyClient(c) /\ UpToNow(c)'
  <2>1. ASSUME client' = [client EXCEPT ![c] = [@ EXCEPT !.pc = "filter", !.read = reg]],
               UNCHANGED <<backendVars, stream, queue, untold, unlisted>>
        PROVE  OnlyClient(c) /\ UpToNow(c)'
    <3> DEFINE x == [client[c] EXCEPT !.pc = "filter", !.read = reg]
    <3>1. x \in Client /\ x.pc = "filter" /\ x.read = reg
      BY <1>s DEF Client, ListenTypes
    <3>2. client' = [client EXCEPT ![c] = x]
      BY <2>1
    <3> HIDE DEF x
    <3> QED
      BY <1>s, <2>1, <3>1, <3>2 DEF OnlyClient, UpToNow, backendVars
  <2> QED
    BY <1>1, <1>9, <2>1 DEF ListRegistered
<1>10. ASSUME ListApproved(c) PROVE OnlyClient(c) /\ (UpToNow(c) => UpToNow(c)')
  <2> DEFINE x == [pc |-> "idle", read |-> {}, seen |-> client[c].read \cap db]
  <2>1. x \in Client /\ x.pc = "idle" /\ x.seen = client[c].read \cap db
    BY <1>s DEF Client
  <2>2. /\ client' = [client EXCEPT ![c] = x] /\ client[c].pc = "filter"
        /\ UNCHANGED <<backendVars, stream, queue, untold>> /\ unlisted' = unlisted \ {c}
    BY <1>10 DEF ListApproved
  <2> HIDE DEF x
  <2> QED
    BY <1>s, <2>1, <2>2 DEF OnlyClient, UpToNow, UpToDate, Listing, backendVars
<1>11. ASSUME ListFails(c) PROVE OnlyClient(c) /\ UpToNow(c)'
  <2>1. PICK x \in Client : client' = [client EXCEPT ![c] = x] /\ x.pc = "idle"
    <3> DEFINE y == [client[c] EXCEPT !.pc = "idle", !.read = {}]
               z == [pc |-> "idle", read |-> {}, seen |-> {}]
    <3>1. /\ y \in Client /\ y.pc = "idle"
          /\ z \in Client /\ z.pc = "idle"
      BY <1>s DEF Client
    <3>2. client' = [client EXCEPT ![c] = z] \/ client' = [client EXCEPT ![c] = y]
      BY <1>11 DEF ListFails
    <3> HIDE DEF y, z
    <3> QED
      BY <3>1, <3>2
  <2>2. /\ UNCHANGED <<backendVars, stream, queue, untold>>
        /\ unlisted' = unlisted \cup {c}
    BY <1>11 DEF ListFails
  <2> QED
    BY <1>s, <2>1, <2>2 DEF OnlyClient, UpToNow, backendVars
<1> QED
  BY <1>2, <1>3, <1>4, <1>5, <1>6, <1>7, <1>8, <1>9, <1>10, <1>11, OnlyClientOK DEF ClientStep

\* The types of what a client and its stream are doing.
LEMMA HeardTypes ==
  ASSUME Shape, client \in [Clients -> Client]
  PROVE  ListenTypes
BY BoundsOK DEF Shape, JobsShape, StreamsShape, ListenTypes

HeardAll == Shape /\ client \in [Clients -> Client] /\ ListenInv

LEMMA HeardStep == HeardAll /\ [GatewayNext]_gatewayVars => HeardAll'
<1> SUFFICES ASSUME HeardAll, [GatewayNext]_gatewayVars
             PROVE  client' \in [Clients -> Client] /\ ListenInv'
  BY ShapeStep DEF HeardAll
<1>0. Shape /\ ListenTypes /\ ListenInv /\ client \in [Clients -> Client]
  BY HeardTypes DEF HeardAll
<1>1. ASSUME UNCHANGED <<db, reg, stream, queue, client, untold, unlisted>>
      PROVE  ListenInv'
  BY <1>0, <1>1 DEF ListenInv, UpToNow, UpToDate, Listing
<1>2. CASE \E j \in Jobs, kind \in Kinds, t \in Tools, local \in BOOLEAN :
              BeginChange(j, kind, t, local)
  BY <1>0, <1>1, <1>2 DEF BeginChange, streamVars
<1>3. CASE \E j \in Jobs : JobStep(j) \/ RegistrationFails(j)
  BY <1>0, <1>3, WorkOK
<1>4. CASE Deliver \/ LosePost
  BY <1>0, <1>4, PostOK
<1>5. CASE RestartGateway
  BY <1>5 DEF RestartGateway, ListenInv, UpToNow, Client
<1>6. CASE \E c \in Clients : ClientStep(c) \/ SessionEnds(c) \/ OpenStream(c) \/ Disconnect(c)
                               \/ ListFails(c)
  BY <1>0, <1>6, ClientOK
<1>7. CASE UNCHANGED gatewayVars
  BY <1>0, <1>1, <1>7 DEF gatewayVars, backendVars, streamVars
<1> QED
  BY <1>2, <1>3, <1>4, <1>5, <1>6, <1>7 DEF GatewayNext

\* A client that has nothing left to read knows every tool of which the gateway
\* has been told, whatever it listed while the tools changed, whichever handlers
\* are at work, and whatever notifications were lost or registrations failed,
\* unless its own last tools/list failed.
THEOREM NothingMissed == GatewaySpec => []NoMissedChange
<1>1. HeardAll => NoMissedChange
  BY DEF HeardAll, ListenInv, UpToNow, NoMissedChange, Listening, Idle
<1>2. GatewayInit => HeardAll
  BY ShapeInit DEF GatewayInit, HeardAll, ListenInv, UpToNow, Client
<1> QED
  BY <1>1, <1>2, HeardStep, PTL DEF GatewaySpec

-----------------------------------------------------------------------------
(* SessionPool.                                                            *)

Record == [pc : {"idle", "lock", "initialize", "request", "backoff"}, kind : CallKinds,
           key : Keys \cup {NoRequest.key}, entry : Entries \cup {NoEntry}, attempt : Nat]

PoolTypesOK ==
    /\ pool \in [Keys -> Entries \cup {NoEntry}]
    /\ ent \in [Entries -> Entry]
    /\ call \in [Calls -> Record]
    /\ runs \in [Calls -> Nat]
    /\ \A c \in Calls : call[c].pc # "idle" => call[c].key \in Keys /\ call[c].entry \in Entries

\* An entry is pooled under one key, that of every call that holds it, and not
\* at all once an attempt on it has failed.
KeyInv ==
    /\ \A k, l \in Keys : pool[k] = pool[l] /\ pool[k] # NoEntry => k = l
    /\ \A c \in Calls : \A k \in Keys :
         call[c].entry = pool[k] /\ pool[k] # NoEntry => call[c].key = k
    /\ FailedNotReused

\* A session that is initialized, or being used, has its HTTP client.
ClientInv ==
    /\ \A e \in Entries : ent[e].initialized => ent[e].client
    /\ \A c \in Calls : call[c].pc \in {"initialize", "request"} => ent[call[c].entry].client

\* A call that waits for another attempt has one left; a health check makes one.
RunsInv ==
    /\ RunsBounded
    /\ \A c \in Calls : /\ call[c].attempt <= MaxAttempts
                        /\ call[c].pc = "backoff" => call[c].attempt < MaxAttempts
                        /\ call[c].pc = "idle" => call[c] = NoRequest /\ runs[c] = 0
                        /\ call[c].kind = "health_check" =>
                              call[c].attempt = 0 /\ call[c].pc # "backoff"

IInv == PoolTypesOK /\ KeyInv /\ ClientInv /\ RunsInv

\* What any step leaves to the calls that use a session.
ClientsStay ==
    \A c \in Calls : call[c].pc \in {"initialize", "request"} => ent'[call[c].entry].client

\* The record of a call that is over.
LEMMA NoRequestOK ==
    /\ NoRequest \in Record
    /\ NoRequest.pc = "idle" /\ NoRequest.entry = NoEntry /\ NoRequest.attempt = 0
    /\ NoRequest.kind = "call_tool"
  BY DEF NoRequest, Record, CallKinds

\* A new entry, and what closing and releasing change.
LEMMA EntryOK ==
    /\ NewEntry \in Entry /\ ~NewEntry.initialized
    /\ \A x \in Entry : /\ Closed(x) \in Entry /\ ~Closed(x).initialized
                        /\ Closed(x).client = x.client
                        /\ Released(x) \in Entry /\ Released(x).client = x.client
                        /\ Released(x).initialized = x.initialized
  BY DEF NewEntry, Entry, Closed, Released

\* Nothing is pooled, open or counted at the beginning.
LEMMA InitOK == PoolInit => IInv
<1> SUFFICES ASSUME PoolInit PROVE IInv
  OBVIOUS
<1>1. PoolTypesOK
  BY NoRequestOK, EntryOK DEF PoolInit, PoolTypesOK
<1>2. KeyInv
  BY NoRequestOK DEF PoolInit, KeyInv, FailedNotReused
<1>3. ClientInv
  BY NoRequestOK, EntryOK DEF PoolInit, ClientInv
<1>4. RunsInv
  BY NoRequestOK, PoolConstantsOK DEF PoolInit, RunsInv, RunsBounded
<1> QED
  BY <1>1, <1>2, <1>3, <1>4 DEF IInv

\* _get_or_create gives a call an entry that is pooled under its key, and takes
\* the HTTP client from nobody.
LEMMA GetOrCreateOK ==
  ASSUME PoolTypesOK, KeyInv, ClientInv, NEW c \in Calls, NEW r \in Record, r.key \in Keys,
         GetOrCreate(c, r), UNCHANGED runs
  PROVE  /\ PoolTypesOK' /\ KeyInv' /\ ClientInv' /\ ClientsStay
         /\ \A d \in Calls : d # c => call'[d] = call[d]
         /\ call'[c].pc = "lock" /\ call'[c].attempt = r.attempt /\ call'[c].kind = r.kind
<1> DEFINE Took(e) == [r EXCEPT !.entry = e, !.pc = "lock"]
<1>1. \A e \in Entries : /\ Took(e) \in Record /\ Took(e).pc = "lock" /\ Took(e).entry = e
                         /\ Took(e).key = r.key /\ Took(e).attempt = r.attempt /\ Took(e).kind = r.kind
  BY DEF Record
<1>2. ASSUME NEW e \in Entries, call' = [call EXCEPT ![c] = Took(e)]
      PROVE  /\ call' \in [Calls -> Record] /\ call'[c] = Took(e)
             /\ \A d \in Calls : d # c => call'[d] = call[d]
             /\ \A d \in Calls : call'[d].pc # "idle" =>
                    call'[d].key \in Keys /\ call'[d].entry \in Entries
  BY <1>1, <1>2 DEF PoolTypesOK
<1>3. CASE Usable(pool[r.key]) /\ UNCHANGED <<pool, ent>>
           /\ call' = [call EXCEPT ![c] = Took(pool[r.key])]
  <2>1. pool[r.key] \in Entries
    BY <1>3 DEF Usable, PoolTypesOK
  <2> HIDE DEF Took
  <2>2. PoolTypesOK'
    BY <1>2, <1>3, <2>1 DEF PoolTypesOK
  <2>3. KeyInv'
    BY <1>1, <1>2, <1>3, <2>1 DEF KeyInv, FailedNotReused, Pooled
  <2>4. ClientInv' /\ ClientsStay
    BY <1>1, <1>2, <1>3, <2>1 DEF ClientInv, ClientsStay
  <2> QED
    BY <1>1, <1>2, <1>3, <2>1, <2>2, <2>3, <2>4
<1>4. ASSUME NEW e \in Garbage, NEW gone \in SUBSET Keys,
             pool' = [k \in Keys |-> CASE k = r.key -> e
                                       [] k # r.key /\ k \in gone -> NoEntry
                                       [] OTHER -> pool[k]],
             ent' = [x \in Entries |-> CASE x = e -> NewEntry
                                         [] x # e /\ \E k \in gone : pool[k] = x -> Closed(ent[x])
                                         [] OTHER -> ent[x]],
             call' = [call EXCEPT ![c] = Took(e)]
      PROVE  PoolTypesOK' /\ KeyInv' /\ ClientInv' /\ ClientsStay /\ call'[c] = Took(e)
             /\ \A d \in Calls : d # c => call'[d] = call[d]
  <2>1. e \in Entries /\ e # NoEntry /\ e \notin Pooled /\ \A d \in Calls : call[d].entry # e
    BY PoolConstantsOK DEF Garbage, InUse
  <2> HIDE DEF Took
  <2>2. pool'[r.key] = e /\ \A k \in Keys : k # r.key => pool'[k] \in {pool[k], NoEntry}
    BY <1>4 DEF PoolTypesOK
  <2>3. \A x \in Entries : x # e => ent'[x] \in {ent[x], Closed(ent[x])}
    BY <1>4
  <2>4. ent'[e] = NewEntry /\ ent' \in [Entries -> Entry]
    BY <1>4, <2>1, EntryOK DEF PoolTypesOK
  <2>5. pool' \in [Keys -> Entries \cup {NoEntry}]
    BY <1>4, <2>1 DEF PoolTypesOK
  <2>6. PoolTypesOK'
    BY <1>2, <1>4, <2>1, <2>4, <2>5 DEF PoolTypesOK
  <2>7. KeyInv'
    <3>1. \A k \in Keys : pool[k] # e
      BY <2>1 DEF Pooled
    <3>2. \A k, l \in Keys : pool'[k] = pool'[l] /\ pool'[k] # NoEntry => k = l
      BY <2>2, <3>1 DEF KeyInv
    <3>3. \A d \in Calls : \A k \in Keys :
              call'[d].entry = pool'[k] /\ pool'[k] # NoEntry => call'[d].key = k
      BY <1>1, <1>2, <1>4, <2>1, <2>2, <3>1 DEF KeyInv
    <3>4. FailedNotReused'
      BY <1>1, <1>2, <1>4, <2>1, <2>2 DEF KeyInv, FailedNotReused, Pooled
    <3> QED
      BY <3>2, <3>3, <3>4 DEF KeyInv
  <2>8. \A x \in Entries : x # e => /\ ent'[x].client = ent[x].client
                                    /\ ent'[x].initialized => ent[x].initialized
    BY <2>3, EntryOK DEF PoolTypesOK
  <2>9. ClientInv' /\ ClientsStay
    BY <1>1, <1>2, <1>4, <2>1, <2>4, <2>8, EntryOK DEF ClientInv, ClientsStay, PoolTypesOK
  <2> QED
    BY <1>2, <1>4, <2>1, <2>6, <2>7, <2>9
<1>5. CASE ~Usable(pool[r.key]) /\ Garbage # {}
  <2> DEFINE dropped == IF pool[r.key] = NoEntry THEN {} ELSE {r.key}
             gone == dropped \cup Victims([k \in Keys |-> IF k \in dropped THEN NoEntry ELSE pool[k]])
             e == CHOOSE x \in Garbage : TRUE
  <2>1. e \in Garbage /\ e \in Entries
    BY <1>5 DEF Garbage
  <2>2. gone \subseteq Keys
    BY DEF Victims
  <2>3. /\ pool' = [k \in Keys |-> CASE k = r.key -> e
                                     [] k # r.key /\ k \in gone -> NoEntry
                                     [] OTHER -> pool[k]]
        /\ ent' = [x \in Entries |-> CASE x = e -> NewEntry
                                       [] x # e /\ \E k \in gone : pool[k] = x -> Closed(ent[x])
                                       [] OTHER -> ent[x]]
        /\ call' = [call EXCEPT ![c] = Took(e)]
    BY <1>5 DEF GetOrCreate
  <2> HIDE DEF e, gone
  <2> QED
    BY <1>1, <1>4, <2>1, <2>2, <2>3
<1> QED
  BY <1>3, <1>5 DEF GetOrCreate

\* Steps of call c that give it the record x and change neither the pool nor the
\* client of any entry.
LEMMA KeepPoolOK ==
  ASSUME PoolTypesOK, KeyInv, ClientInv, NEW c \in Calls, NEW x \in Record,
         pool' = pool, call' = [call EXCEPT ![c] = x], runs' \in [Calls -> Nat],
         ent' \in [Entries -> Entry],
         \A e \in Entries : /\ ent[e].client => ent'[e].client
                            /\ ent'[e].initialized => ent'[e].client,
         \/ x.pc = "idle" /\ x.entry = NoEntry
         \/ /\ x.pc \in {"lock", "initialize", "request"}
            /\ call[c].pc # "idle" /\ x.entry = call[c].entry /\ x.key = call[c].key
            /\ x.pc \in {"initialize", "request"} => ent'[x.entry].client
  PROVE  PoolTypesOK' /\ KeyInv' /\ ClientInv' /\ ClientsStay
<1>1. call'[c] = x /\ \A d \in Calls : d # c => call'[d] = call[d]
  BY DEF PoolTypesOK
<1>2. PoolTypesOK'
  BY <1>1 DEF PoolTypesOK
<1>3. KeyInv'
  BY <1>1 DEF KeyInv, FailedNotReused, Pooled, PoolTypesOK
<1>4. ClientInv' /\ ClientsStay
  BY <1>1 DEF ClientInv, ClientsStay, PoolTypesOK
<1> QED
  BY <1>2, <1>3, <1>4

\* A failed attempt leaves no way to its session: what the pool holds under its
\* key is evicted.
LEMMA CallFailsOK ==
  ASSUME IInv, NEW c \in Calls, CallFails(c)
  PROVE  IInv' /\ ClientsStay
<1> USE DEF IInv
<1>0. PICK again \in BOOLEAN :
        /\ again => call[c].attempt < MaxAttempts /\ call[c].kind # "health_check"
        /\ Evict(c, again)
        /\ call' = [call EXCEPT ![c] = IF again THEN [@ EXCEPT !.pc = "backoff"] ELSE NoRequest]
        /\ \E ran \in {0, 1} : runs' = [runs EXCEPT ![c] = IF again THEN @ + ran ELSE 0]
  BY DEF CallFails
<1> DEFINE x == IF again THEN [call[c] EXCEPT !.pc = "backoff"] ELSE NoRequest
           k == call[c].key
           old == pool[k]
<1>1. /\ call[c].pc \in {"initialize", "request"}
      /\ k \in Keys /\ call[c].entry \in Entries /\ call[c] \in Record
  BY DEF CallFails, PoolTypesOK
<1>2. /\ x \in Record
      /\ again => x.pc = "backoff" /\ x.entry = call[c].entry /\ x.key = k
                  /\ x.attempt = call[c].attempt /\ x.kind = call[c].kind
      /\ ~again => x = NoRequest
  BY <1>1, NoRequestOK DEF Record
<1> HIDE DEF x
<1>3. call' \in [Calls -> Record] /\ call'[c] = x /\ \A d \in Calls : d # c => call'[d] = call[d]
  BY <1>0, <1>2 DEF PoolTypesOK, x
<1>4. /\ pool' \in [Keys -> Entries \cup {NoEntry}]
      /\ pool'[k] = NoEntry /\ \A l \in Keys : l # k => pool'[l] = pool[l]
  BY <1>0, <1>1 DEF Evict, PoolTypesOK
<1>5. /\ ent' \in [Entries -> Entry]
      /\ \A e \in Entries : /\ ent'[e].client = ent[e].client
                            /\ ent'[e].initialized => ent[e].initialized
  <2> DEFINE freed == [ent EXCEPT ![call[c].entry] = Released(@)]
  <2>1. /\ freed \in [Entries -> Entry]
        /\ \A e \in Entries : /\ freed[e].client = ent[e].client
                              /\ freed[e].initialized = ent[e].initialized
    BY <1>1, EntryOK DEF PoolTypesOK
  <2>2. ent' = IF old = NoEntry THEN freed ELSE [freed EXCEPT ![old] = Closed(@)]
    BY <1>0 DEF Evict
  <2>3. old # NoEntry => old \in Entries
    BY <1>1 DEF PoolTypesOK
  <2> HIDE DEF freed, old
  <2> QED
    BY <2>1, <2>2, <2>3, EntryOK
<1>6. runs' \in [Calls -> Nat] /\ (\A d \in Calls : d # c => runs'[d] = runs[d])
      /\ (~again => runs'[c] = 0) /\ (again => runs'[c] <= runs[c] + 1)
  BY <1>0 DEF PoolTypesOK
<1>7. PoolTypesOK'
  BY <1>1, <1>2, <1>3, <1>4, <1>5, <1>6, NoRequestOK DEF PoolTypesOK
<1>8. KeyInv'
  <2>1. \A i, j \in Keys : pool'[i] = pool'[j] /\ pool'[i] # NoEntry => i = j
    BY <1>4 DEF KeyInv
  <2>2. \A d \in Calls : \A i \in Keys :
            call'[d].entry = pool'[i] /\ pool'[i] # NoEntry => call'[d].key = i
    BY <1>2, <1>3, <1>4, NoRequestOK DEF KeyInv
  <2>3. FailedNotReused'
    <3>1. \A i \in Keys : call[c].entry = pool'[i] => pool'[i] = NoEntry
      BY <1>4 DEF KeyInv
    <3> QED
      BY <1>1, <1>2, <1>3, <1>4, <3>1, NoRequestOK DEF KeyInv, FailedNotReused, Pooled
  <2> QED
    BY <2>1, <2>2, <2>3 DEF KeyInv
<1>9. ClientInv' /\ ClientsStay
  BY <1>2, <1>3, <1>5, NoRequestOK DEF ClientInv, ClientsStay, PoolTypesOK
<1>10. RunsInv'
  BY <1>0, <1>1, <1>2, <1>3, <1>6, NoRequestOK, PoolConstantsOK
     DEF RunsInv, RunsBounded, PoolTypesOK, Record
<1> QED
  BY <1>7, <1>8, <1>9, <1>10

\* The bounds on the runs, over a step of c that gives it the record x.
LEMMA RunsOK ==
  ASSUME PoolTypesOK, RunsInv, NEW c \in Calls, NEW x \in Record, call' = [call EXCEPT ![c] = x],
         \/ x = NoRequest /\ runs' = [runs EXCEPT ![c] = 0]
         \/ x.pc \in {"lock", "initialize", "request"} /\ x.attempt = call[c].attempt
            /\ x.kind = call[c].kind /\ call[c].pc # "backoff" /\ runs' = runs
  PROVE  RunsInv' /\ runs' \in [Calls -> Nat]
<1>1. call'[c] = x /\ \A d \in Calls : d # c => call'[d] = call[d]
  BY DEF PoolTypesOK
<1> QED
  BY <1>1, NoRequestOK, PoolConstantsOK DEF RunsInv, RunsBounded, PoolTypesOK

\* Every other step of a call.
LEMMA CallOK ==
  ASSUME IInv, NEW c \in Calls, BeginCall(c) \/ CallStep(c) \/ CancelCall(c)
  PROVE  IInv' /\ ClientsStay
<1> USE DEF IInv
<1>1. CASE BeginCall(c)
  <2>1. PICK k \in Keys, kind \in CallKinds :
          GetOrCreate(c, [NoRequest EXCEPT !.key = k, !.kind = kind])
    BY <1>1 DEF BeginCall
  <2> DEFINE r == [NoRequest EXCEPT !.key = k, !.kind = kind]
  <2>2. r \in Record /\ r.key = k /\ r.attempt = 0
    BY DEF NoRequest, Record
  <2> HIDE DEF r
  <2>3. /\ PoolTypesOK' /\ KeyInv' /\ ClientInv' /\ ClientsStay
        /\ \A d \in Calls : d # c => call'[d] = call[d]
        /\ call'[c].pc = "lock" /\ call'[c].attempt = 0
    BY <1>1, <2>1, <2>2, GetOrCreateOK DEF BeginCall, r
  <2>4. runs' = runs /\ runs[c] = 0
    BY <1>1 DEF BeginCall, RunsInv
  <2>5. RunsInv'
    BY <2>3, <2>4, PoolConstantsOK DEF RunsInv, RunsBounded
  <2> QED
    BY <2>3, <2>5
<1>2. CASE WakeUpCall(c)
  <2> DEFINE r == [call[c] EXCEPT !.attempt = @ + 1]
  <2>1. r \in Record /\ r.key = call[c].key /\ r.attempt = call[c].attempt + 1
        /\ r.kind = call[c].kind /\ r.key \in Keys
    BY <1>2 DEF WakeUpCall, PoolTypesOK, Record
  <2> HIDE DEF r
  <2>2. /\ PoolTypesOK' /\ KeyInv' /\ ClientInv' /\ ClientsStay
        /\ \A d \in Calls : d # c => call'[d] = call[d]
        /\ call'[c].pc = "lock" /\ call'[c].attempt = call[c].attempt + 1
        /\ call'[c].kind = call[c].kind
    BY <1>2, <2>1, GetOrCreateOK DEF WakeUpCall, r
  <2>3. /\ runs' = runs /\ runs[c] <= call[c].attempt + 1 /\ runs[c] <= MaxAttempts
        /\ call[c].attempt \in Nat /\ call[c].attempt < MaxAttempts
        /\ call[c].kind # "health_check" /\ MaxAttempts \in Nat
    BY <1>2, PoolConstantsOK DEF WakeUpCall, RunsInv, RunsBounded, PoolTypesOK, Record
  <2>4. call'[c].attempt \in Nat /\ call'[c].attempt <= MaxAttempts
    BY <2>2, <2>3
  <2>5. RunsBounded'
    BY <2>2, <2>3 DEF RunsInv, RunsBounded
  <2>6. RunsInv'
    BY <2>2, <2>3, <2>4, <2>5 DEF RunsInv
  <2> QED
    BY <2>2, <2>6
<1>3. CASE AcquireLock(c)
  <2> DEFINE e == call[c].entry
             ready == ent[e].initialized /\ call[c].kind # "health_check"
             x == [call[c] EXCEPT !.pc = IF ready THEN "request" ELSE "initialize"]
  <2>1. call[c].pc = "lock" /\ e \in Entries /\ call[c] \in Record
    BY <1>3 DEF AcquireLock, PoolTypesOK
  <2>2. /\ x \in Record /\ x.pc \in {"initialize", "request"}
        /\ x.entry = e /\ x.key = call[c].key /\ x.attempt = call[c].attempt
        /\ x.kind = call[c].kind
    BY <2>1 DEF Record
  <2>3. /\ pool' = pool /\ runs' = runs /\ call' = [call EXCEPT ![c] = x]
        /\ ent' = [ent EXCEPT ![e].holder = c, ![e].client = @ \/ ~ready]
    BY <1>3 DEF AcquireLock
  <2>4. /\ ent' \in [Entries -> Entry] /\ ent'[e].client
        /\ \A d \in Entries : /\ ent[d].client => ent'[d].client
                              /\ ent'[d].initialized => ent'[d].client
    BY <2>1, <2>3 DEF PoolTypesOK, ClientInv, Entry
  <2> HIDE DEF x
  <2>5. RunsInv' /\ runs' \in [Calls -> Nat]
    BY <2>1, <2>2, <2>3, RunsOK
  <2> QED
    BY <2>1, <2>2, <2>3, <2>4, <2>5, KeepPoolOK
<1>4. CASE InitializeSession(c)
  <2> DEFINE e == call[c].entry
             check == call[c].kind = "health_check"
             on == [ent[e] EXCEPT !.initialized = TRUE]
             y == IF check THEN Released(on) ELSE on
             x == IF check THEN NoRequest ELSE [call[c] EXCEPT !.pc = "request"]
  <2>1. call[c].pc = "initialize" /\ e \in Entries /\ call[c] \in Record
    BY <1>4 DEF InitializeSession, PoolTypesOK
  <2>2. /\ x \in Record
        /\ check => x = NoRequest
        /\ ~check => /\ x.pc = "request" /\ x.entry = e /\ x.key = call[c].key
                     /\ x.attempt = call[c].attempt /\ x.kind = call[c].kind
    BY <2>1, NoRequestOK DEF Record
  <2>3. /\ pool' = pool /\ runs' = runs /\ call' = [call EXCEPT ![c] = x]
        /\ ent' = [ent EXCEPT ![e] = y]
    BY <1>4 DEF InitializeSession
  <2>4. on \in Entry /\ on.client = ent[e].client /\ ent[e].client
    BY <2>1 DEF PoolTypesOK, ClientInv, Entry
  <2> HIDE DEF x, on
  <2>y. y \in Entry /\ y.client
    BY <2>4, EntryOK
  <2> HIDE DEF y
  <2>5. /\ ent' \in [Entries -> Entry] /\ ent'[e].client
        /\ \A d \in Entries : /\ ent[d].client => ent'[d].client
                              /\ ent'[d].initialized => ent'[d].client
    BY <2>1, <2>3, <2>y DEF PoolTypesOK, ClientInv
  <2>6. check => runs' = [runs EXCEPT ![c] = 0]
    <3> SUFFICES ASSUME check PROVE runs[c] = 0
      BY <2>3 DEF PoolTypesOK
    <3> QED
      BY <2>1 DEF RunsInv, RunsBounded, PoolTypesOK
  <2>7. RunsInv' /\ runs' \in [Calls -> Nat]
    BY <2>1, <2>2, <2>3, <2>6, RunsOK
  <2> QED
    BY <2>1, <2>2, <2>3, <2>5, <2>7, KeepPoolOK, NoRequestOK
<1>5. CASE Answer(c) \/ CancelCall(c)
  <2>1. /\ pool' = pool /\ call' = [call EXCEPT ![c] = NoRequest]
        /\ runs' = [runs EXCEPT ![c] = 0]
    BY <1>5 DEF Answer, CancelCall
  <2>2. \A e \in Entries : ent'[e] \in {ent[e], Released(ent[e])}
    BY <1>5 DEF Answer, CancelCall, PoolTypesOK
  <2>3. ent' \in [Entries -> Entry]
    BY <1>5, EntryOK DEF Answer, CancelCall, PoolTypesOK
  <2>4. \A e \in Entries : /\ ent[e].client => ent'[e].client
                           /\ ent'[e].initialized => ent'[e].client
    BY <2>2, EntryOK DEF PoolTypesOK, ClientInv
  <2>5. RunsInv' /\ runs' \in [Calls -> Nat]
    BY <2>1, RunsOK, NoRequestOK
  <2> QED
    BY <2>1, <2>3, <2>4, <2>5, KeepPoolOK, NoRequestOK
<1> QED
  BY <1>1, <1>2, <1>3, <1>4, <1>5, CallFailsOK DEF CallStep

\* Every step keeps the invariant, and leaves the calls their HTTP clients.
LEMMA StepOK ==
  ASSUME IInv, [PoolNext]_poolVars
  PROVE  IInv' /\ ClientsStay
<1>1. ASSUME NEW e \in Entries, Expire(e)
      PROVE  IInv' /\ ClientsStay
  <2>1. /\ UNCHANGED <<pool, call, runs>>
        /\ ent' \in [Entries -> Entry]
        /\ \A d \in Entries : /\ ent'[d].client = ent[d].client
                              /\ ent'[d].initialized = ent[d].initialized
    BY <1>1 DEF Expire, IInv, PoolTypesOK, Entry
  <2> QED
    BY <2>1 DEF IInv, PoolTypesOK, KeyInv, FailedNotReused, Pooled, ClientInv, ClientsStay,
       RunsInv, RunsBounded
<1>2. CASE UNCHANGED poolVars
  BY <1>2 DEF poolVars, IInv, PoolTypesOK, KeyInv, FailedNotReused, Pooled, ClientInv,
     ClientsStay, RunsInv, RunsBounded
<1> QED
  BY <1>1, <1>2, CallOK DEF PoolNext

\* No attempt follows on a session that failed.
THEOREM EvictionCorrect == PoolSpec => []FailedNotReused
<1>1. IInv => FailedNotReused
  BY DEF IInv, KeyInv
<1>2. IInv /\ [PoolNext]_poolVars => IInv'
  BY StepOK
<1> QED
  BY <1>1, <1>2, InitOK, PTL DEF PoolSpec

\* A tool runs at most once per attempt.
THEOREM RunsCorrect == PoolSpec => []RunsBounded
<1>1. IInv => RunsBounded
  BY DEF IInv, RunsInv
<1>2. IInv /\ [PoolNext]_poolVars => IInv'
  BY StepOK
<1> QED
  BY <1>1, <1>2, InitOK, PTL DEF PoolSpec

\* No other call, and no expiry, takes the HTTP client from a call.
THEOREM CutOffCorrect == PoolSpec => NotCutOff
<1>1. IInv /\ [PoolNext]_poolVars => IInv'
  BY StepOK
<1>2. IInv /\ [PoolNext]_poolVars => [ClientsStay]_poolVars
  BY StepOK
<1> QED
  BY <1>1, <1>2, InitOK, PTL DEF PoolSpec, NotCutOff, ClientsStay
-----------------------------------------------------------------------------
\* The size of the pool: _evict_lru finds a victim whenever the pool is full.

Live == {k \in Keys : pool[k] # NoEntry}

\* last_used_at puts what is in the pool in a strict total order.
OrderInv ==
    /\ used \subseteq Pooled \X Pooled
    /\ \A e \in Pooled : <<e, e>> \notin used
    /\ \A e, f \in Pooled : e # f => <<e, f>> \in used \/ <<f, e>> \in used
    /\ \A e, f, g \in Pooled : <<e, f>> \in used /\ <<f, g>> \in used => <<e, g>> \in used

SizeInv == Cardinality(Live) <= MaxSize

BoundInv == OrderInv /\ SizeInv

\* The order stays one when what is used now, or newly put in the pool, becomes
\* the most recent one and what left the pool is taken out.
LEMMA TouchedOK ==
  ASSUME OrderInv, NEW e, Pooled' \subseteq Pooled \cup {e}, used' = Touched(e, pool')
  PROVE  OrderInv'
<1> DEFINE others == Pooled' \ {e}
<1>1. used' = (used \cap (others \X others))
                \cup (IF e \in Pooled' THEN others \X {e} ELSE {})
  BY DEF Touched, Pooled
<1>2. others \subseteq Pooled /\ e \notin others /\ others \subseteq Pooled'
      /\ \A x \in Pooled' : x = e \/ x \in others
  OBVIOUS
<1> HIDE DEF others
<1>3. used' \subseteq Pooled' \X Pooled'
  BY <1>1, <1>2
<1>4. \A x, y \in others : <<x, y>> \in used' <=> <<x, y>> \in used
  BY <1>1, <1>2
<1>5. e \in Pooled' => \A x \in others : <<x, e>> \in used' /\ <<e, x>> \notin used'
  BY <1>1, <1>2
<1>6. <<e, e>> \notin used'
  BY <1>1, <1>2
<1>7. \A x \in Pooled' : <<x, x>> \notin used'
  BY <1>2, <1>4, <1>6 DEF OrderInv
<1>8. \A x, y \in Pooled' : x # y => <<x, y>> \in used' \/ <<y, x>> \in used'
  BY <1>2, <1>4, <1>5 DEF OrderInv
<1>9. \A x, y, z \in Pooled' : <<x, y>> \in used' /\ <<y, z>> \in used' => <<x, z>> \in used'
  BY <1>2, <1>4, <1>5, <1>6 DEF OrderInv
<1> QED
  BY <1>3, <1>7, <1>8, <1>9 DEF OrderInv

\* The same for what is only taken out.
LEMMA RemainingOK ==
  ASSUME OrderInv, Pooled' \subseteq Pooled, used' = Remaining(pool')
  PROVE  OrderInv'
<1>1. used' = used \cap (Pooled' \X Pooled')
  BY DEF Remaining, Pooled
<1> QED
  BY <1>1 DEF OrderInv

\* In a finite set in a strict total order one element comes first.
LEMMA LeastOK ==
  ASSUME NEW S, IsFiniteSet(S), S # {}, NEW R,
         \A x \in S : <<x, x>> \notin R,
         \A x, y \in S : x # y => <<x, y>> \in R \/ <<y, x>> \in R,
         \A x, y, z \in S : <<x, y>> \in R /\ <<y, z>> \in R => <<x, z>> \in R
  PROVE  \E m \in S : \A y \in S \ {m} : <<m, y>> \in R
<1> DEFINE Below(x) == {y \in S : <<y, x>> \in R}
           T == {Below(x) : x \in S}
<1>1. IsWellFoundedOn(StrictSubsetOrdering(S), SUBSET S)
  BY FS_StrictSubsetOrderingWellFounded, FS_FiniteSubsetsOfFinite
<1>2. T \subseteq SUBSET S /\ T # {}
  <2>1. \A x \in S : Below(x) \in SUBSET S /\ Below(x) \in T
    OBVIOUS
  <2> HIDE DEF Below
  <2> QED
    BY <2>1
<1>3. \E B \in T : \A C \in T : <<C, B>> \notin StrictSubsetOrdering(S)
  <2> HIDE DEF T
  <2> QED
    BY <1>1, <1>2, WFMin
<1>4. PICK m \in S : \A x \in S : <<Below(x), Below(m)>> \notin StrictSubsetOrdering(S)
  <2> HIDE DEF Below
  <2> QED
    BY <1>3
<1>5. ASSUME NEW x \in S, <<x, m>> \in R
      PROVE  FALSE
  <2>1. Below(x) \subseteq Below(m) /\ x \in Below(m) /\ x \notin Below(x)
    BY <1>5
  <2>2. <<Below(x), Below(m)>> \in StrictSubsetOrdering(S)
    BY <2>1 DEF StrictSubsetOrdering
  <2> QED
    BY <1>4, <2>2
<1> QED
  BY <1>5

\* The keys in use are finitely many, as the entries are.
LEMMA LiveOK ==
  ASSUME PoolTypesOK, KeyInv
  PROVE  IsFiniteSet(Live)
<1> DEFINE f == [k \in Live |-> pool[k]]
<1>1. f \in Injection(Live, Entries)
  <2>1. f \in [Live -> Entries]
    BY DEF Live, PoolTypesOK
  <2>2. \A k, l \in Live : f[k] = f[l] => k = l
    BY DEF Live, KeyInv
  <2> HIDE DEF f
  <2> QED
    BY <2>1, <2>2 DEF Injection, IsInjective
<1> QED
  BY <1>1, FS_Injection, PoolConstantsOK

\* What _get_or_create adds it makes room for.
LEMMA RoomOK ==
  ASSUME PoolTypesOK, KeyInv, BoundInv, NEW c \in Calls, NEW r \in Record, r.key \in Keys,
         GetOrCreate(c, r)
  PROVE  BoundInv'
<1>1. CASE Usable(pool[r.key])
  <2>1. UNCHANGED <<pool, used>>
    BY <1>1 DEF GetOrCreate
  <2> QED
    BY <2>1 DEF BoundInv, OrderInv, SizeInv, Live, Pooled
<1>2. CASE ~Usable(pool[r.key])
  <2> DEFINE dropped == IF pool[r.key] = NoEntry THEN {} ELSE {r.key}
             rest == [k \in Keys |-> IF k \in dropped THEN NoEntry ELSE pool[k]]
             gone == dropped \cup Victims(rest)
             e == CHOOSE x \in Garbage : TRUE
             L == Live \ {r.key}
  <2>1. /\ pool' = [k \in Keys |-> CASE k = r.key -> e
                                     [] k # r.key /\ k \in gone -> NoEntry
                                     [] OTHER -> pool[k]]
        /\ used' = Touched(e, pool')
    BY <1>2 DEF GetOrCreate
  <2>2. {k \in Keys : rest[k] # NoEntry} = L
    BY DEF Live
  <2>3. Victims(rest) = IF Cardinality(L) < MaxSize THEN {}
                        ELSE {k \in L : \A l \in L \ {k} : <<pool[k], pool[l]>> \in used}
    <3>1. \A k \in L : rest[k] = pool[k]
      BY DEF Live
    <3> HIDE DEF rest, L
    <3> QED
      BY <2>2, <3>1 DEF Victims
  <2> HIDE DEF rest, e
  <2>4. OrderInv'
    <3>1. Pooled' \subseteq Pooled \cup {e}
      <4>1. \A k \in Keys : pool'[k] \in {e, NoEntry, pool[k]}
        BY <2>1
      <4> QED
        BY <4>1 DEF Pooled
    <3> QED
      BY <2>1, <3>1, TouchedOK DEF BoundInv
  <2>5. IsFiniteSet(L) /\ Cardinality(L) <= Cardinality(Live) /\ Cardinality(L) \in Nat
        /\ Cardinality(Live) \in Nat
    BY LiveOK, FS_Subset, FS_CardinalityType
  <2>6. Live' \subseteq (L \ Victims(rest)) \cup {r.key}
    BY <2>1 DEF Live
  <2>7. ASSUME NEW M, IsFiniteSet(M), Cardinality(M) < MaxSize, Live' \subseteq M \cup {r.key}
        PROVE  SizeInv'
    <3> DEFINE m == Cardinality(M)
    <3>0. m \in Nat /\ m < MaxSize
      BY <2>7, FS_CardinalityType
    <3>a. /\ IsFiniteSet(M \cup {r.key})
          /\ Cardinality(M \cup {r.key}) = IF r.key \in M THEN m ELSE m + 1
      BY <2>7, FS_AddElement
    <3> HIDE DEF m
    <3>1. IsFiniteSet(M \cup {r.key}) /\ Cardinality(M \cup {r.key}) <= MaxSize
      BY <3>0, <3>a, PoolConstantsOK
    <3>2. Cardinality(Live') <= Cardinality(M \cup {r.key}) /\ IsFiniteSet(Live')
      BY <2>7, <3>1, FS_Subset
    <3> QED
      BY <3>1, <3>2, FS_CardinalityType, PoolConstantsOK DEF SizeInv
  <2> HIDE DEF L
  <2>8. ASSUME Cardinality(L) < MaxSize
        PROVE  SizeInv'
    BY <2>5, <2>6, <2>7, <2>8
  <2>9. ASSUME ~(Cardinality(L) < MaxSize)
        PROVE  SizeInv'
    <3>1. L # {}
      BY <2>9, FS_EmptySet, PoolConstantsOK
    <3> DEFINE R == {x \in L \X L : <<pool[x[1]], pool[x[2]]>> \in used}
    <3>2. /\ \A k \in L : <<k, k>> \notin R
          /\ \A k, l \in L : k # l => <<k, l>> \in R \/ <<l, k>> \in R
          /\ \A k, l, m \in L : <<k, l>> \in R /\ <<l, m>> \in R => <<k, m>> \in R
      <4>1. \A k \in L : k \in Keys /\ pool[k] \in Pooled
        BY DEF L, Live, Pooled
      <4>2. \A k, l \in L : <<k, l>> \in R <=> <<pool[k], pool[l]>> \in used
        OBVIOUS
      <4>3. \A k, l \in L : k # l => pool[k] # pool[l]
        BY DEF L, Live, KeyInv
      <4> HIDE DEF R
      <4> QED
        BY <4>1, <4>2, <4>3 DEF BoundInv, OrderInv
    <3>3. \A k, l \in L : <<k, l>> \in R => <<pool[k], pool[l]>> \in used
      OBVIOUS
    <3> HIDE DEF R
    <3>4. PICK m \in L : \A l \in L \ {m} : <<m, l>> \in R
      BY <2>5, <3>1, <3>2, LeastOK
    <3>5. m \in Victims(rest)
      BY <2>3, <2>9, <3>3, <3>4
    <3>6. Live' \subseteq (L \ {m}) \cup {r.key}
      BY <2>6, <3>5
    <3>7. IsFiniteSet(L \ {m}) /\ Cardinality(L \ {m}) = Cardinality(L) - 1
      BY <2>5, FS_RemoveElement
    <3> QED
      BY <2>5, <2>7, <3>6, <3>7, PoolConstantsOK DEF BoundInv, SizeInv
  <2> QED
    BY <2>4, <2>8, <2>9 DEF BoundInv
<1> QED
  BY <1>1, <1>2 DEF GetOrCreate

\* Every step keeps the order and the size.
LEMMA BoundOK ==
  ASSUME IInv, BoundInv, [PoolNext]_poolVars
  PROVE  BoundInv'
<1> USE DEF IInv
<1>1. ASSUME UNCHANGED <<pool, used>>
      PROVE  BoundInv'
  BY <1>1 DEF BoundInv, OrderInv, SizeInv, Live, Pooled
<1>2. ASSUME NEW e, UNCHANGED pool, used' = Touched(e, pool)
      PROVE  BoundInv'
  <2>1. OrderInv'
    BY <1>2, TouchedOK DEF BoundInv, Pooled
  <2> QED
    BY <1>2, <2>1 DEF BoundInv, SizeInv, Live
<1>3. ASSUME NEW c \in Calls, BeginCall(c)
      PROVE  BoundInv'
  <2>1. PICK k \in Keys, kind \in CallKinds :
          GetOrCreate(c, [NoRequest EXCEPT !.key = k, !.kind = kind])
    BY <1>3 DEF BeginCall
  <2> DEFINE r == [NoRequest EXCEPT !.key = k, !.kind = kind]
  <2>2. r \in Record /\ r.key \in Keys
    BY DEF NoRequest, Record
  <2> HIDE DEF r
  <2> QED
    BY <2>1, <2>2, RoomOK DEF r
<1>4. ASSUME NEW c \in Calls, WakeUpCall(c)
      PROVE  BoundInv'
  <2> DEFINE r == [call[c] EXCEPT !.attempt = @ + 1]
  <2>1. r \in Record /\ r.key \in Keys
    BY <1>4 DEF WakeUpCall, PoolTypesOK, Record
  <2> HIDE DEF r
  <2> QED
    BY <1>4, <2>1, RoomOK DEF WakeUpCall, r
<1>5. ASSUME NEW c \in Calls, CallFails(c)
      PROVE  BoundInv'
  <2>1. \A k \in Keys : pool'[k] \in {pool[k], NoEntry}
    BY <1>5 DEF CallFails, Evict, PoolTypesOK
  <2>2. Pooled' \subseteq Pooled /\ Live' \subseteq Live
    BY <2>1 DEF Pooled, Live
  <2>3. OrderInv'
    BY <1>5, <2>2, RemainingOK DEF BoundInv, CallFails
  <2>4. Cardinality(Live') <= Cardinality(Live) /\ IsFiniteSet(Live') /\ IsFiniteSet(Live)
    BY <2>2, LiveOK, FS_Subset
  <2> QED
    BY <2>3, <2>4, FS_CardinalityType, PoolConstantsOK DEF BoundInv, SizeInv
<1>6. ASSUME NEW c \in Calls, AcquireLock(c) \/ InitializeSession(c) \/ Answer(c) \/ CancelCall(c)
      PROVE  BoundInv'
  <2>1. UNCHANGED pool /\ (UNCHANGED used \/ used' = Touched(call[c].entry, pool))
    BY <1>6 DEF AcquireLock, InitializeSession, Answer, CancelCall
  <2> QED
    BY <1>1, <1>2, <2>1
<1>7. CASE (\E e \in Entries : Expire(e)) \/ UNCHANGED poolVars
  BY <1>1, <1>7 DEF Expire, poolVars
<1> QED
  BY <1>3, <1>4, <1>5, <1>6, <1>7 DEF PoolNext, CallStep

\* The pool is bounded, and every session is found under one key: _evict_lru
\* always finds a session to close, whatever number of calls is under way.
THEOREM BoundedCorrect == PoolSpec => []PoolBounded
<1>1. PoolInit => BoundInv
  <2> SUFFICES ASSUME PoolInit PROVE BoundInv
    OBVIOUS
  <2>1. Pooled = {} /\ Live = {} /\ used = {}
    BY DEF PoolInit, Pooled, Live
  <2> QED
    BY <2>1, FS_EmptySet, PoolConstantsOK DEF BoundInv, OrderInv, SizeInv
<1>2. IInv /\ BoundInv /\ [PoolNext]_poolVars => IInv' /\ BoundInv'
  BY StepOK, BoundOK
<1>3. IInv /\ BoundInv => PoolBounded
  BY DEF IInv, KeyInv, BoundInv, SizeInv, Live, PoolBounded
<1> QED
  BY <1>1, <1>2, <1>3, InitOK, PTL DEF PoolSpec
================================================================================
