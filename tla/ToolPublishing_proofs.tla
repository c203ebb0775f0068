----------------------- MODULE ToolPublishing_proofs -----------------------
(***************************************************************************)
(* Proofs about ToolPublishing, for any tools, handlers and code texts: of *)
(* requests that overlap, fail or are cut off, and of requests that are    *)
(* answered one after the other.                                           *)
(***************************************************************************)
EXTENDS ToolPublishing, ToolApproval_proofs

-----------------------------------------------------------------------------
(* Typing.                                                                 *)

ServerStatuses == {"imported", "running", "stopped", "error", "deleted"}

\* Functions from some tools to their rows, and to their definitions.
Copies == UNION {[S -> Row] : S \in SUBSET Tools}
Registrations == UNION {[S -> MaybeCode] : S \in SUBSET Tools}

PublishingHandler ==
    [pc : Pipeline, op : AllServerOps \cup {"none", "update", "import"},
     loaded : ServerStatuses \cup {"unread"}, copy : Copies, defs : Registrations]

PublishingTypeOK ==
    /\ server \in ServerStatuses
    /\ g \in [Handlers -> PublishingHandler]
    /\ everApproved \in [Tools -> SUBSET MaybeCode]
    /\ unfiltered \in BOOLEAN
    /\ sandbox = NotRegistered \/ sandbox \in Registrations

LEMMA NothingType == Nothing \in Copies /\ Nothing \in Registrations /\ DOMAIN Nothing = {}
<1>1. Nothing \in [{} -> Row] /\ Nothing \in [{} -> MaybeCode]
  BY DEF Nothing
<1> QED
  BY <1>1 DEF Copies, Registrations

LEMMA FreeType == Free \in PublishingHandler
  BY NothingType DEF Free, PublishingHandler, Pipeline, ServerStatuses
-----------------------------------------------------------------------------
(***************************************************************************)
(* Approved content.  A registration that leaves out what is not active    *)
(* holds only code its tool was committed approved with: the rows it is    *)
(* made from are committed ones, or the sender's own uncommitted row, and  *)
(* an update keeps a tool approved only if it keeps or clears the code.    *)
(***************************************************************************)
\* The active rows of copy have code that was committed approved.
Sound(copy, ever) ==
    \A t \in DOMAIN copy : Active(copy[t]) => copy[t].code \in ever[t] \cup {NoCode}

SoundDefs(defs, ever) == \A t \in DOMAIN defs : defs[t] \in ever[t] \cup {NoCode}

Good(x, ever) ==
    /\ Sound(x.copy, ever)
    /\ x.pc = "send" /\ x.op \notin Unfiltered => SoundDefs(x.defs, ever)

CommittedInv ==
    \A t \in Tools : life[t] = "live" /\ row[t].status = "approved"
                     => row[t].code \in everApproved[t]

GoodInv == \A p \in Handlers : Good(g[p], everApproved)

SandboxInv == ~unfiltered /\ sandbox # NotRegistered => SoundDefs(sandbox, everApproved)

ContentsInv == PublishingTypeOK /\ CommittedInv /\ GoodInv /\ SandboxInv

ToolInv == ApproverInv /\ SerialInv

PublishingInv == ToolInv /\ ContentsInv

Grows(ever, more) == \A t \in Tools : ever[t] \subseteq more[t]

LEMMA SoundGrows ==
    ASSUME NEW ever, NEW more, Grows(ever, more)
    PROVE  /\ \A copy \in Copies : Sound(copy, ever) => Sound(copy, more)
           /\ \A defs \in Registrations : SoundDefs(defs, ever) => SoundDefs(defs, more)
           /\ \A x \in PublishingHandler : Good(x, ever) => Good(x, more)
<1>1. ASSUME NEW copy \in Copies, Sound(copy, ever) PROVE Sound(copy, more)
  BY <1>1 DEF Sound, Grows, Copies
<1>2. ASSUME NEW defs \in Registrations, SoundDefs(defs, ever) PROVE SoundDefs(defs, more)
  BY <1>2 DEF SoundDefs, Grows, Registrations
<1> QED
  BY <1>1, <1>2 DEF Good, PublishingHandler

LEMMA FreeGood == \A ever : Good(Free, ever)
  BY NothingType DEF Good, Sound, Free

\* What a session lists is what it loaded before, or the committed rows.
LEMMA ListSound ==
    ASSUME TypeOK, CommittedInv, NEW copy \in Copies, NEW ts \in SUBSET Live,
           Sound(copy, everApproved)
    PROVE  /\ ListByServer(copy, ts) \in Copies
           /\ DOMAIN ListByServer(copy, ts) = ts
           /\ Sound(ListByServer(copy, ts), everApproved)
<1> DEFINE rows == ListByServer(copy, ts)
<1>1. ts \in SUBSET Tools
  BY DEF Live
<1>2. \A t \in ts : rows[t] = IF t \in DOMAIN copy THEN copy[t] ELSE row[t]
  BY DEF ListByServer
<1>3. rows \in [ts -> Row] /\ DOMAIN rows = ts
  BY <1>1 DEF ListByServer, Copies, TypeOK
<1>4. ASSUME NEW t \in ts, Active(rows[t]) PROVE rows[t].code \in everApproved[t] \cup {NoCode}
  <2>1. CASE t \in DOMAIN copy
    BY <1>2, <1>4, <2>1 DEF Sound
  <2>2. CASE t \notin DOMAIN copy
    BY <1>1, <1>2, <1>4, <2>2 DEF CommittedInv, Active, Live
  <2> QED
    BY <2>1, <2>2
<1> QED
  BY <1>1, <1>3, <1>4 DEF Sound, Copies

\* A session that has loaded one tool.
LEMMA OneSound ==
    ASSUME NEW t \in Tools, NEW r \in Row, NEW ever, Active(r) => r.code \in ever[t] \cup {NoCode}
    PROVE  [u \in {t} |-> r] \in Copies /\ Sound([u \in {t} |-> r], ever)
<1>1. [u \in {t} |-> r] \in [{t} -> Row] /\ {t} \in SUBSET Tools
  OBVIOUS
<1> QED
  BY <1>1 DEF Copies, Sound

\* The definitions of the active rows.
LEMMA DefinitionsSound ==
    ASSUME NEW rows \in Copies, NEW ever, Sound(rows, ever)
    PROVE  /\ Definitions(rows, Filtered(rows)) \in Registrations
           /\ SoundDefs(Definitions(rows, Filtered(rows)), ever)
<1> DEFINE defs == Definitions(rows, Filtered(rows))
<1>1. PICK S \in SUBSET Tools : rows \in [S -> Row]
  BY DEF Copies
<1>2. Filtered(rows) \subseteq S /\ \A t \in Filtered(rows) : Active(rows[t])
  BY <1>1 DEF Filtered
<1>3. defs \in [Filtered(rows) -> MaybeCode] /\ \A t \in Filtered(rows) : defs[t] = rows[t].code
  BY <1>1, <1>2 DEF Definitions, Row
<1>4. DOMAIN rows = S
  BY <1>1
<1> QED
  BY <1>2, <1>3, <1>4 DEF Registrations, SoundDefs, Sound

-----------------------------------------------------------------------------
(* The tool half of a step is a step of ToolApproval, but for the cascade  *)
(* of a server's delete, which finds no row locked.                        *)

ToolPart == LoneNext \/ (~Serial /\ Next)

LEMMA ToolHalf == PNext => [ToolPart]_vars \/ DeleteServer
<1> SUFFICES ASSUME PNext, ~DeleteServer PROVE [ToolPart]_vars
  OBVIOUS
<1>1. UNCHANGED tvars => [ToolPart]_vars
  BY DEF tvars, vars
<1>2. ASSUME NEW p \in Handlers, NEW t \in Tools, ToolRequest(p, t) PROVE ToolPart
  <2>1. BeginSome(p, t) /\ (Serial => OnTool(t) = {})
    BY <1>2 DEF ToolRequest, MayBegin, Busy, OnTool
  <2> QED
    BY <2>1 DEF ToolPart, LoneNext, Next
<1>3. ASSUME NEW p \in Handlers, NEW t \in Tools, ImportApproved(p, t) PROVE ToolPart
  BY <1>3 DEF ImportApproved, ToolPart, LoneNext, NewSome
<1>4. ASSUME NEW p \in Handlers, Request(p) PROVE [ToolPart]_vars
  BY <1>1, <1>2, <1>3, <1>4
     DEF Request, UpdateNothing, StartServer, StopServer, RestartServer, Recover, BeginServerOp
<1>5. ASSUME NEW p \in Handlers, Proceed(p) PROVE ToolPart
  BY <1>5 DEF ToolPart, LoneNext
<1>6. ASSUME NEW p \in Handlers, Continue(p) PROVE [ToolPart]_vars
  BY <1>1, <1>5, <1>6
     DEF Continue, ToolStep, ToolRequestFails, SnapshotBeforeCommit, CommitRegistered,
         CommitQuietly, CommitThenRegister, ReregisterServer, ListTools, SetStatus,
         StatusFails, Register, Unregister, Proceed
<1>7. ASSUME NEW p \in Handlers, RequestDies(p) PROVE [ToolPart]_vars
  BY <1>1, <1>7 DEF RequestDies, ToolPart, LoneNext
<1>8. CASE NewTools
  <2>1. PICK t \in Tools : NewSome(t)
    BY <1>8 DEF NewTools, NewSome
  <2> QED
    BY <2>1 DEF ToolPart, LoneNext
<1>9. CASE SandboxRestart \/ (\E m \in Modes : ChangeMode(m))
  BY <1>1, <1>9 DEF SandboxRestart, ChangeMode, ToolPart, LoneNext
<1> QED
  BY <1>4, <1>6, <1>7, <1>8, <1>9 DEF PNext

LEMMA ToolInvDelete ==
    ASSUME ToolInv, DeleteServer
    PROVE  ToolInv'
<1>t. TypeOK /\ HistoryInv /\ WantInv
  BY DEF ToolInv, ApproverInv, SerialInv
<1>1. NoRow \in Row
  BY DEF NoRow, Row, MaybeCode, Statuses, Kinds
<1>2. /\ \A t \in Tools : lock[t] = NoHandler
      /\ life' = [t \in Tools |-> IF life[t] = "live" THEN "deleted" ELSE life[t]]
      /\ row' = [t \in Tools |-> NoRow] /\ versions' = [t \in Tools |-> {}]
      /\ UNCHANGED <<lock, mode, h>>
  BY DEF DeleteServer
<1>3. TypeOK'
  BY <1>t, <1>1, <1>2 DEF TypeOK
<1>4. \A t \in Tools : life'[t] # "live" /\ versions'[t] = {} /\ (life'[t] = "none" => life[t] = "none")
  BY <1>2, <1>t DEF TypeOK
<1>5. \A p \in Handlers : h[p].pc # "commit"
  BY <1>2, <1>t, ConstantsOK DEF HistoryInv, LockInv, TypeOK
<1>6. HistoryInv'
  BY <1>t, <1>2, <1>3, <1>4, <1>5
     DEF HistoryInv, LockInv, ContentInv, RowInv, VersionHistory
<1>7. WantInv'
  BY <1>t, <1>2 DEF WantInv
<1>8. ~Overlap => Alone'
  <2>1. \A p \in Handlers : h[p].tool \in Tools
    BY <1>t DEF TypeOK
  <2> QED
    BY <1>2, <1>4, <2>1 DEF ToolInv, SerialInv, Alone
<1> QED
  BY <1>3, <1>6, <1>7, <1>8 DEF ToolInv, ApproverInv, SerialInv

LEMMA ToolInvInit == Init => ToolInv
  BY TypeInit, WantInit, HistoryInit, AloneInit DEF ToolInv, ApproverInv, SerialInv

LEMMA ToolNext == PNext => [Next]_vars \/ DeleteServer
  BY ToolHalf DEF ToolPart, LoneNext, Next

LEMMA ToolInvStep == ToolInv /\ [PNext]_pvars => ToolInv'
<1>1. ToolInv /\ [Next]_vars => ToolInv'
  BY TypeStep, WantStep, SerialStep DEF ToolInv, ApproverInv
<1> QED
  BY <1>1, ToolNext, ToolInvDelete DEF pvars, vars

\* The version history stays complete in a system that publishes tools, restarts
\* its sandbox and deletes servers, as it does where handlers only write the table.
THEOREM PublishedHistory == PSpec => []VersionHistory
<1>1. PInit => ToolInv
  BY ToolInvInit DEF PInit
<1>2. ToolInv => VersionHistory
  BY DEF ToolInv, SerialInv, HistoryInv
<1> QED
  BY <1>1, <1>2, ToolInvStep, PTL DEF PSpec

\* Nor does anything but an approve's commit approve there: no registration, import
\* or recovery, no failed request and no deleted server.
THEOREM PublishedApproval == PSpec => OnlyApproveApproves
<1> DEFINE Decided == \A t \in Tools :
                (StaysLive(t) /\ row[t].status # "approved" /\ row'[t].status = "approved")
                => \E p \in Handlers : ApprovedBy(p, t)
<1>1. PInit => ToolInv
  BY ToolInvInit DEF PInit
<1>2. ToolInv /\ [PNext]_pvars => [Decided]_vars
  <2> SUFFICES ASSUME ToolInv, [PNext]_pvars PROVE [Decided]_vars
    OBVIOUS
  <2>1. CASE Next
    BY <2>1, ApprovalStep DEF ToolInv
  <2>2. CASE DeleteServer
    <3>1. \A t \in Tools : ~StaysLive(t)
      BY <2>2 DEF DeleteServer, StaysLive, ToolInv, ApproverInv, TypeOK
    <3> QED
      BY <3>1
  <2>3. CASE UNCHANGED vars
    BY <2>3
  <2> QED
    BY <2>1, <2>2, <2>3, ToolNext DEF pvars, vars
<1> QED
  BY <1>1, <1>2, ToolInvStep, PTL DEF PSpec, OnlyApproveApproves

\* While no server is deleted, which removes its tools all at once, the handlers
\* that publish are handlers of ToolApproval, and implement the documented workflow
\* if requests for one tool do not overlap.
THEOREM PublishedWorkflow ==
    "delete_server" \notin ServerOps
    => /\ PSpec => Spec
       /\ ~Overlap => (PSpec => ImplementsWorkflow)
<1> SUFFICES ASSUME "delete_server" \notin ServerOps PROVE PSpec => Spec
  BY WorkflowCorrect
<1>1. PInit => Init
  BY DEF PInit
<1>2. [PNext]_pvars => [Next]_vars
  <2>1. ~DeleteServer
    BY DEF DeleteServer
  <2> QED
    BY <2>1, ToolNext DEF pvars, vars
<1> QED
  BY <1>1, <1>2, PTL DEF PSpec, Spec
-----------------------------------------------------------------------------
(* The history of a step.                                                  *)

LEMMA RecordCommitted ==
    ASSUME TypeOK', PublishingTypeOK, Record
    PROVE  /\ CommittedInv' /\ Grows(everApproved, everApproved')
           /\ everApproved' \in [Tools -> SUBSET MaybeCode]
  BY DEF TypeOK, PublishingTypeOK, Record, CommittedInv, Grows, Row

LEMMA UnchangedCommitted ==
    ASSUME ContentsInv, UNCHANGED <<life, row, everApproved>>
    PROVE  /\ CommittedInv' /\ Grows(everApproved, everApproved')
           /\ everApproved' \in [Tools -> SUBSET MaybeCode]
  BY DEF ContentsInv, PublishingTypeOK, CommittedInv, Grows

\* A step that records what it commits, or commits nothing.
Recorded == Record \/ UNCHANGED <<life, row, everApproved>>

LEMMA RecordedCommitted ==
    ASSUME TypeOK', ContentsInv, Recorded
    PROVE  /\ CommittedInv' /\ Grows(everApproved, everApproved')
           /\ everApproved' \in [Tools -> SUBSET MaybeCode]
  BY RecordCommitted, UnchangedCommitted DEF ContentsInv, Recorded

\* A step that leaves the registration alone and takes handler p to x.
LEMMA PublishingMove ==
    ASSUME TypeOK', ContentsInv, Recorded, NEW p \in Handlers, NEW x \in PublishingHandler,
           Become(p, x), Good(x, everApproved'), UNCHANGED <<sandbox, unfiltered>>,
           server' \in ServerStatuses
    PROVE  ContentsInv'
<1>1. CommittedInv' /\ Grows(everApproved, everApproved')
      /\ everApproved' \in [Tools -> SUBSET MaybeCode]
  BY RecordedCommitted
<1>2. PublishingTypeOK'
  BY <1>1 DEF ContentsInv, PublishingTypeOK, Become
<1>3. ASSUME NEW q \in Handlers PROVE Good(g'[q], everApproved')
  BY <1>1, SoundGrows DEF ContentsInv, GoodInv, PublishingTypeOK, Become
<1>4. SandboxInv'
  BY <1>1, SoundGrows DEF ContentsInv, SandboxInv, PublishingTypeOK
<1> QED
  BY <1>1, <1>2, <1>3, <1>4 DEF ContentsInv, GoodInv

\* A step that leaves all handlers of the publishing half alone.
LEMMA PublishingStay ==
    ASSUME TypeOK', ContentsInv, Recorded, UNCHANGED g,
           server' \in ServerStatuses, unfiltered' \in BOOLEAN,
           UNCHANGED <<sandbox, unfiltered>> \/ sandbox' = NotRegistered
    PROVE  ContentsInv'
<1>1. CommittedInv' /\ Grows(everApproved, everApproved')
      /\ everApproved' \in [Tools -> SUBSET MaybeCode]
  BY RecordedCommitted
<1>2. PublishingTypeOK'
  BY <1>1 DEF ContentsInv, PublishingTypeOK
<1>3. ASSUME NEW q \in Handlers PROVE Good(g'[q], everApproved')
  BY <1>1, SoundGrows DEF ContentsInv, GoodInv, PublishingTypeOK
<1>4. SandboxInv'
  BY <1>1, SoundGrows DEF ContentsInv, SandboxInv, PublishingTypeOK
<1> QED
  BY <1>1, <1>2, <1>3, <1>4 DEF ContentsInv, GoodInv

-----------------------------------------------------------------------------
(* One lemma per action.                                                   *)

\* What a handler record has after some of its fields are set.
LEMMA HandlerFields ==
    ASSUME NEW x \in PublishingHandler
    PROVE  /\ \A pc \in Pipeline : [x EXCEPT !.pc = pc] \in PublishingHandler
           /\ \A pc \in Pipeline, copy \in Copies :
                [x EXCEPT !.pc = pc, !.copy = copy] \in PublishingHandler
           /\ \A pc \in Pipeline, defs \in Registrations :
                [x EXCEPT !.pc = pc, !.defs = defs] \in PublishingHandler
           /\ \A pc \in Pipeline, copy \in Copies, defs \in Registrations :
                [x EXCEPT !.pc = pc, !.defs = defs, !.copy = copy] \in PublishingHandler
  BY DEF PublishingHandler

LEMMA RegisterIfRunningMove ==
    ASSUME TypeOK', ContentsInv, NEW p \in Handlers, NEW status,
           NEW rows \in Copies, Sound(rows, everApproved),
           NEW o \in PublishingHandler, Good(o, everApproved),
           RegisterIfRunning(p, status, rows, o),
           UNCHANGED <<life, row, server, sandbox, unfiltered, everApproved>>
    PROVE  ContentsInv'
<1> DEFINE defs == Definitions(rows, Filtered(rows))
           y == [g[p] EXCEPT !.pc = "send", !.defs = defs, !.copy = Nothing]
<1>1. g[p] \in PublishingHandler /\ server' \in ServerStatuses
  BY DEF ContentsInv, PublishingTypeOK
<1>2. defs \in Registrations /\ SoundDefs(defs, everApproved)
  BY DefinitionsSound
<1> HIDE DEF defs
<1>3. y \in PublishingHandler
  BY <1>1, <1>2, HandlerFields, NothingType DEF Pipeline
<1>4. y.copy = Nothing /\ y.defs = defs
  BY <1>1 DEF PublishingHandler
<1>5. Good(y, everApproved)
  BY <1>2, <1>4, NothingType DEF Good, Sound
<1>6. Become(p, IF status = "running" THEN y ELSE o)
  BY DEF RegisterIfRunning, defs
<1> HIDE DEF y
<1> DEFINE x == IF status = "running" THEN y ELSE o
<1>7. x \in PublishingHandler /\ Good(x, everApproved) /\ Become(p, x)
  BY <1>3, <1>5, <1>6
<1> HIDE DEF x
<1> QED
  BY <1>1, <1>7, PublishingMove DEF Recorded

LEMMA ToolRequestContents ==
    ASSUME TypeOK', ContentsInv, NEW p \in Handlers, NEW t \in Tools, ToolRequest(p, t)
    PROVE  ContentsInv'
<1> DEFINE l == IF h'[p].op \in {"approve", "revoke"} THEN server ELSE "unread"
           x == [Free EXCEPT !.loaded = l]
<1>1. l \in ServerStatuses \cup {"unread"}
  BY DEF ContentsInv, PublishingTypeOK
<1>2. Become(p, x) /\ UNCHANGED <<server, sandbox, unfiltered>> /\ Record
  BY DEF ToolRequest
<1> HIDE DEF l
<1>3. x \in PublishingHandler /\ x.copy = Nothing /\ x.pc = "none"
  BY <1>1, FreeType DEF PublishingHandler, Free
<1>4. Good(x, everApproved')
  BY <1>3, NothingType DEF Good, Sound
<1> HIDE DEF x
<1> QED
  BY <1>2, <1>3, <1>4, PublishingMove DEF Recorded, ContentsInv, PublishingTypeOK

\* Steps that only end a request.
LEMMA EndContents ==
    ASSUME TypeOK', ContentsInv, Recorded, NEW p \in Handlers, Become(p, Free),
           UNCHANGED <<sandbox, unfiltered>>, server' \in ServerStatuses
    PROVE  ContentsInv'
  BY FreeType, FreeGood, PublishingMove

LEMMA QuietContents ==
    ASSUME TypeOK', ContentsInv, NEW p \in Handlers,
           \/ ToolStep(p) \/ ToolRequestFails(p) \/ CommitRegistered(p) \/ CommitQuietly(p)
           \/ RequestDies(p)
    PROVE  ContentsInv'
<1>1. Recorded /\ UNCHANGED <<server, sandbox, unfiltered>> /\ (UNCHANGED g \/ Become(p, Free))
  BY DEF Recorded, ToolStep, ToolRequestFails, CommitRegistered, CommitQuietly, RequestDies
<1>2. server' \in ServerStatuses /\ unfiltered' \in BOOLEAN
  BY <1>1 DEF ContentsInv, PublishingTypeOK
<1> QED
  BY <1>1, <1>2, EndContents, PublishingStay

LEMMA StatusContents ==
    ASSUME TypeOK', ContentsInv, NEW p \in Handlers, SetStatus(p) \/ StatusFails(p)
    PROVE  ContentsInv'
<1>1. Recorded /\ UNCHANGED <<sandbox, unfiltered>> /\ Become(p, Free)
  BY DEF Recorded, SetStatus, StatusFails, tvars
<1>2. PICK s \in {"running", "stopped", "error"} : UpdateStatus(p, s)
  BY DEF SetStatus, StatusFails
<1>3. server' \in ServerStatuses
  BY <1>2 DEF UpdateStatus, Written, ContentsInv, PublishingTypeOK, ServerStatuses
<1> QED
  BY <1>1, <1>3, EndContents

\* An update sends its own row, uncommitted: it is approved only if it was, and
\* then the code is the approved one, or none.
LEMMA SnapshotContents ==
    ASSUME ToolInv, TypeOK', ContentsInv, ~Overlap, AlwaysReview,
           NEW p \in Handlers, SnapshotBeforeCommit(p)
    PROVE  ContentsInv'
<1> DEFINE t == h[p].tool
           r == RowAfter(p)
           mine == [u \in {t} |-> r]
           deleted == ListByServer(Nothing, Live \ {t})
           updated == ListByServer(mine, Live)
           o == [g[p] EXCEPT !.pc = "ready"]
<1>t. /\ TypeOK /\ CommittedInv /\ LockInv /\ WantInv /\ Alone
      /\ UNCHANGED <<life, row, server, sandbox, unfiltered, everApproved>>
      /\ h[p].pc = "commit" /\ h[p] \in HandlerType
  BY DEF ToolInv, ApproverInv, SerialInv, HistoryInv, ContentsInv, SnapshotBeforeCommit, tvars,
         TypeOK, HandlerType
<1>1. o \in PublishingHandler /\ Good(o, everApproved)
  <2>1. g[p] \in PublishingHandler /\ Sound(g[p].copy, everApproved)
    BY DEF ContentsInv, PublishingTypeOK, GoodInv, Good
  <2>2. o \in PublishingHandler /\ o.copy = g[p].copy /\ o.pc = "ready"
    BY <2>1 DEF PublishingHandler, Pipeline
  <2> QED
    BY <2>1, <2>2 DEF Good
<1>2. deleted \in Copies /\ Sound(deleted, everApproved)
  BY <1>t, ListSound, NothingType DEF Sound
<1>3. ASSUME h[p].op = "update" PROVE updated \in Copies /\ Sound(updated, everApproved)
  <2>1. t \in Tools /\ life[t] = "live" /\ row[t] \in Row
    BY <1>t, ConstantsOK DEF HandlerType, LockInv, TypeOK
  <2>2. h[p].seen = row[t] /\ Warranted(h[p]) /\ h[p].want.status # "approved"
    BY <1>t, <1>3, <2>1 DEF Alone, WantInv
  <2>3. \/ h[p].want.code \in {NoCode, row[t].code} /\ h[p].want.status = "unset"
        \/ h[p].want.status = "pending_review"
    BY <1>t, <1>3, <2>2 DEF Warranted, ReviewQueue, Workflow!Queue, AlwaysReview
  <2>4. r.status = "approved" => row[t].status = "approved" /\ r.code \in {NoCode, row[t].code}
    BY <2>2, <2>3 DEF RowAfter, NewRow, Written
  <2>5. r \in Row
    BY <1>t, <2>1, NewRowType DEF RowAfter, HandlerType
  <2> HIDE DEF r, t
  <2>6. mine \in Copies /\ Sound(mine, everApproved)
    BY <1>t, <2>1, <2>4, <2>5, OneSound DEF Active, CommittedInv
  <2> QED
    BY <1>t, <2>6, ListSound
<1>4. \/ RegisterIfRunning(p, server, deleted, o)
      \/ h[p].op = "update" /\ RegisterIfRunning(p, server, updated, o)
  BY DEF SnapshotBeforeCommit
<1> HIDE DEF o, deleted, updated
<1> QED
  BY <1>t, <1>1, <1>2, <1>3, <1>4, RegisterIfRunningMove

\* approve goes on with the tool as it committed it.
LEMMA CommitThenRegisterContents ==
    ASSUME ToolInv, TypeOK', ContentsInv, ~Overlap, AlwaysReview,
           NEW p \in Handlers, CommitThenRegister(p)
    PROVE  ContentsInv'
<1> DEFINE t == h[p].tool
           mine == [h[p].seen EXCEPT !.status = h[p].want.status]
           copy == [u \in {t} |-> mine]
           x == [g[p] EXCEPT !.pc = "reread", !.copy = copy]
<1>t. /\ TypeOK /\ WantInv /\ SerialInv /\ h[p] \in HandlerType
      /\ Commit(p) /\ Record /\ UNCHANGED <<server, sandbox, unfiltered>>
  BY DEF ToolInv, ApproverInv, CommitThenRegister, TypeOK, HandlerType
<1>1. \/ h[p].op = "approve" /\ h[p].want.status = "approved"
      \/ h[p].op = "revoke" /\ h[p].want.status = "pending_review"
  BY <1>t, AloneRow DEF CommitThenRegister, WantInv, Warranted, SerialInv
<1>2. Become(p, x)
  BY <1>1 DEF CommitThenRegister
<1>3. /\ t \in Tools /\ life[t] = "live" /\ row' = [row EXCEPT ![t] = RowAfter(p)]
      /\ RowAfter(p).code = h[p].seen.code /\ RowAfter(p).status = h[p].want.status
  BY <1>t, <1>1, AloneRow DEF Edits, SerialInv
<1>4. life'[t] = "live" /\ row'[t].code = h[p].seen.code /\ row'[t].status = h[p].want.status
  BY <1>t, <1>3 DEF Commit, TypeOK
<1>5. CommittedInv'
  BY <1>t, RecordCommitted DEF ContentsInv
<1>6. mine \in Row /\ mine.code = h[p].seen.code /\ mine.status = h[p].want.status
  BY <1>t, <1>1 DEF HandlerType, Row, Statuses
<1> HIDE DEF t, mine
<1>7. copy \in Copies /\ Sound(copy, everApproved')
  BY <1>3, <1>4, <1>5, <1>6, OneSound DEF Active, CommittedInv
<1> HIDE DEF copy
<1>8. x \in PublishingHandler /\ Good(x, everApproved')
  <2>1. g[p] \in PublishingHandler
    BY DEF ContentsInv, PublishingTypeOK
  <2>2. x \in PublishingHandler
    BY <1>7, <2>1, HandlerFields DEF Pipeline
  <2>3. x.copy = copy /\ x.pc = "reread"
    BY <2>1 DEF PublishingHandler
  <2> QED
    BY <1>7, <2>2, <2>3 DEF Good
<1> QED
  BY <1>t, <1>2, <1>8, PublishingMove DEF Recorded, ContentsInv, PublishingTypeOK

\* Steps that only read, and only for handler p.
Reads == UNCHANGED <<life, row, server, sandbox, unfiltered, everApproved>>

LEMMA ReregisterContents ==
    ASSUME TypeOK, TypeOK', ContentsInv, NEW p \in Handlers, ReregisterServer(p)
    PROVE  ContentsInv'
<1> DEFINE rows == ListByServer(g[p].copy, Live)
           s == IF server = "deleted" THEN server
                ELSE IF g[p].loaded = "unread" THEN server ELSE g[p].loaded
<1>1. Reads /\ RegisterIfRunning(p, s, rows, Free)
  BY DEF ReregisterServer, Reads, tvars
<1>2. g[p].copy \in Copies /\ Sound(g[p].copy, everApproved)
  BY DEF ContentsInv, PublishingTypeOK, PublishingHandler, GoodInv, Good
<1>3. rows \in Copies /\ Sound(rows, everApproved)
  BY <1>2, ListSound DEF ContentsInv
<1> HIDE DEF rows, s
<1> QED
  BY <1>1, <1>3, FreeType, FreeGood, RegisterIfRunningMove DEF Reads

\* A request that begins with what it lists.
LEMMA BeginContents ==
    ASSUME TypeOK', ContentsInv, Recorded, UNCHANGED <<server, sandbox, unfiltered>>,
           NEW p \in Handlers, NEW x \in PublishingHandler, Become(p, x),
           Sound(x.copy, everApproved), x.pc # "send"
    PROVE  ContentsInv'
<1>1. Grows(everApproved, everApproved') /\ x.copy \in Copies
  BY RecordedCommitted DEF PublishingHandler
<1>2. Good(x, everApproved')
  BY <1>1, SoundGrows DEF Good
<1> QED
  BY <1>2, PublishingMove DEF ContentsInv, PublishingTypeOK

LEMMA RequestContents ==
    ASSUME TypeOK, TypeOK', ContentsInv, NEW p \in Handlers, Request(p)
    PROVE  ContentsInv'
<1> DEFINE all == ListByServer(Nothing, Live)
<1>1. all \in Copies /\ Sound(all, everApproved)
  BY ListSound, NothingType DEF ContentsInv, Sound
<1>2. ASSUME NEW t \in Tools, UpdateNothing(p, t) PROVE ContentsInv'
  <2> DEFINE one == ListByServer(Nothing, {t})
             x == [Free EXCEPT !.pc = "reread", !.op = "update", !.copy = one]
  <2>1. one \in Copies /\ Sound(one, everApproved)
    BY <1>2, ListSound, NothingType DEF UpdateNothing, Live, ContentsInv, Sound
  <2>2. Become(p, x) /\ Recorded /\ UNCHANGED <<server, sandbox, unfiltered>>
    BY <1>2 DEF UpdateNothing, Recorded, tvars
  <2> HIDE DEF one
  <2>3. x \in PublishingHandler /\ x.copy = one /\ x.pc = "reread"
    BY <2>1, FreeType DEF Free, PublishingHandler, Pipeline
  <2> HIDE DEF x
  <2> QED
    BY <2>1, <2>2, <2>3, BeginContents
<1>3. ASSUME NEW t \in Tools, ImportApproved(p, t) PROVE ContentsInv'
  <2> DEFINE x == [Free EXCEPT !.pc = "reread", !.op = "import"]
  <2>1. Become(p, x) /\ Recorded /\ UNCHANGED <<server, sandbox, unfiltered>>
    BY <1>3 DEF ImportApproved, Recorded
  <2>2. x \in PublishingHandler /\ x.copy = Nothing /\ x.pc = "reread"
    BY FreeType DEF Free, PublishingHandler, Pipeline
  <2> HIDE DEF x
  <2> QED
    BY <2>1, <2>2, NothingType, BeginContents DEF Sound
<1>4. ASSUME NEW op \in AllServerOps, NEW pc \in {"list", "unregister"}, BeginServerOp(p, op, pc)
      PROVE  ContentsInv'
  <2> DEFINE x == [Free EXCEPT !.pc = pc, !.op = op, !.loaded = server, !.copy = all]
  <2>1. Become(p, x) /\ Recorded /\ UNCHANGED <<server, sandbox, unfiltered>>
    BY <1>4 DEF BeginServerOp, Recorded, tvars
  <2> HIDE DEF all
  <2>2. x \in PublishingHandler /\ x.copy = all /\ x.pc = pc
    BY <1>1, FreeType DEF Free, PublishingHandler, Pipeline, ContentsInv, PublishingTypeOK
  <2> HIDE DEF x
  <2> QED
    BY <1>1, <2>1, <2>2, BeginContents
<1>5. CASE Recover(p)
  <2> DEFINE defs == Definitions(all, Filtered(all))
             x == [Free EXCEPT !.pc = "send", !.op = "recover", !.defs = defs]
  <2>1. Become(p, x) /\ Recorded /\ UNCHANGED <<server, sandbox, unfiltered, everApproved>>
    BY <1>5 DEF Recover, Recorded, tvars
  <2>2. defs \in Registrations /\ SoundDefs(defs, everApproved)
    BY <1>1, DefinitionsSound
  <2> HIDE DEF defs
  <2>3. x \in PublishingHandler /\ x.copy = Nothing /\ x.defs = defs
    BY <2>2, FreeType DEF Free, PublishingHandler, Pipeline, AllServerOps
  <2> HIDE DEF x
  <2>4. Good(x, everApproved')
    BY <2>1, <2>2, <2>3, NothingType DEF Good, Sound
  <2> QED
    BY <2>1, <2>3, <2>4, PublishingMove DEF ContentsInv, PublishingTypeOK
<1>6. CASE (\E op \in {"start_admin", "start_mcp"} : StartServer(p, op))
           \/ StopServer(p) \/ RestartServer(p)
  BY <1>4, <1>6 DEF StartServer, StopServer, RestartServer, AllServerOps
<1>7. ASSUME NEW t \in Tools, ToolRequest(p, t) PROVE ContentsInv'
  BY <1>7, ToolRequestContents
<1> QED
  BY <1>2, <1>3, <1>5, <1>6, <1>7 DEF Request

LEMMA ListToolsContents ==
    ASSUME TypeOK, TypeOK', ContentsInv, NEW p \in Handlers, ListTools(p)
    PROVE  ContentsInv'
<1> DEFINE rows == ListByServer(g[p].copy, Live)
           ts == IF g[p].op \in Unfiltered THEN DOMAIN rows ELSE Filtered(rows)
           defs == Definitions(rows, ts)
           y == [g[p] EXCEPT !.pc = "send", !.defs = defs, !.copy = Nothing]
           x == IF ts = {} THEN Free ELSE y
<1>1. /\ Become(p, x) /\ Recorded
      /\ UNCHANGED <<server, sandbox, unfiltered, everApproved>>
  BY DEF ListTools, Recorded, tvars
<1>2. g[p] \in PublishingHandler /\ g[p].copy \in Copies /\ Sound(g[p].copy, everApproved)
  BY DEF ContentsInv, PublishingTypeOK, PublishingHandler, GoodInv, Good
<1>3. rows \in [Live -> Row] /\ Live \subseteq Tools /\ rows \in Copies /\ Sound(rows, everApproved)
  BY <1>2, ListSound DEF ContentsInv, Live, Copies
<1>4. g[p].op \notin Unfiltered => SoundDefs(defs, everApproved)
  BY <1>3, DefinitionsSound
<1> HIDE DEF rows
<1>5. defs \in Registrations
  <2>1. ts \subseteq Live
    BY <1>3 DEF Filtered
  <2>2. defs \in [ts -> MaybeCode]
    BY <1>3, <2>1 DEF Definitions, Row
  <2> QED
    BY <1>3, <2>1, <2>2 DEF Registrations
<1> HIDE DEF defs, ts
<1>6. y \in PublishingHandler
  BY <1>2, <1>5, NothingType, HandlerFields DEF Pipeline
<1>7. y.copy = Nothing /\ y.defs = defs /\ y.op = g[p].op
  BY <1>2 DEF PublishingHandler
<1>8. Good(y, everApproved')
  BY <1>1, <1>4, <1>7, NothingType DEF Good, Sound
<1> HIDE DEF y
<1>9. x \in PublishingHandler /\ Good(x, everApproved')
  BY <1>6, <1>8, FreeType, FreeGood
<1> HIDE DEF x
<1> QED
  BY <1>1, <1>9, PublishingMove DEF ContentsInv, PublishingTypeOK

\* What a handler goes on as, after the sandbox answered.
LEMMA AfterSendGood ==
    ASSUME ContentsInv, NEW p \in Handlers, NEW ok \in BOOLEAN
    PROVE  AfterSend(p, ok) \in PublishingHandler /\ Good(AfterSend(p, ok), everApproved)
<1>1. g[p] \in PublishingHandler /\ Sound(g[p].copy, everApproved)
  BY DEF ContentsInv, PublishingTypeOK, GoodInv, Good
<1> DEFINE y == [g[p] EXCEPT !.pc = "status", !.defs = Nothing]
           z == [Free EXCEPT !.pc = "ready"]
<1>2. y \in PublishingHandler /\ y.copy = g[p].copy /\ y.pc = "status"
  BY <1>1, NothingType DEF PublishingHandler, Pipeline
<1>3. z \in PublishingHandler /\ z.copy = Nothing /\ z.pc = "ready"
  BY FreeType DEF Free, PublishingHandler, Pipeline
<1>4. Good(y, everApproved) /\ Good(z, everApproved)
  BY <1>1, <1>2, <1>3, NothingType DEF Good, Sound
<1>5. AfterSend(p, ok) \in {y, z, Free}
  BY DEF AfterSend
<1> HIDE DEF y, z
<1> QED
  BY <1>2, <1>3, <1>4, <1>5, FreeType, FreeGood

LEMMA SandboxContents ==
    ASSUME TypeOK', ContentsInv, NEW p \in Handlers, Register(p) \/ Unregister(p)
    PROVE  ContentsInv'
<1>1. UNCHANGED <<life, row, server, everApproved>> /\ Recorded
  BY DEF Register, Unregister, tvars, Recorded
<1>2. PICK x \in PublishingHandler : Become(p, x) /\ Good(x, everApproved)
  <2>1. CASE Register(p)
    BY <2>1, AfterSendGood DEF Register
  <2>2. CASE Unregister(p)
    <3> DEFINE pc == IF g[p].op = "stop" THEN "status" ELSE "list"
               x == [g[p] EXCEPT !.pc = pc]
    <3>1. g[p] \in PublishingHandler /\ Sound(g[p].copy, everApproved)
      BY DEF ContentsInv, PublishingTypeOK, GoodInv, Good
    <3>2. pc \in Pipeline /\ pc # "send"
      BY DEF Pipeline
    <3>3. Become(p, x)
      BY <2>2 DEF Unregister
    <3> HIDE DEF pc
    <3>4. x \in PublishingHandler /\ x.copy = g[p].copy /\ x.pc = pc
      BY <3>1, <3>2 DEF PublishingHandler
    <3>5. Good(x, everApproved)
      BY <3>1, <3>2, <3>4 DEF Good
    <3> QED
      BY <3>3, <3>4, <3>5
  <2> QED
    BY <2>1, <2>2
<1>3. \/ UNCHANGED <<sandbox, unfiltered>>
      \/ sandbox' = NotRegistered /\ unfiltered' = FALSE
      \/ g[p].pc = "send" /\ sandbox' = g[p].defs /\ unfiltered' = (g[p].op \in Unfiltered)
  BY DEF Register, Unregister, Hold, Forget, NotReached
<1>4. g[p].defs \in Registrations
  BY DEF ContentsInv, PublishingTypeOK, PublishingHandler
<1>5. CommittedInv'
  BY <1>1, RecordedCommitted
<1>6. PublishingTypeOK'
  <2>1. unfiltered' \in BOOLEAN
    <3>1. (g[p].op \in Unfiltered) \in BOOLEAN /\ unfiltered \in BOOLEAN
      BY DEF ContentsInv, PublishingTypeOK
    <3>2. \/ unfiltered' = unfiltered \/ unfiltered' = FALSE
          \/ unfiltered' = (g[p].op \in Unfiltered)
      BY <1>3
    <3> QED
      BY <3>1, <3>2, Zenon
  <2>2. sandbox' = NotRegistered \/ sandbox' \in Registrations
    BY <1>3, <1>4 DEF ContentsInv, PublishingTypeOK
  <2> QED
    BY <1>1, <1>2, <2>1, <2>2 DEF ContentsInv, PublishingTypeOK, Become
<1>7. GoodInv'
  BY <1>1, <1>2 DEF ContentsInv, GoodInv, PublishingTypeOK, Become
<1>8. SandboxInv'
  BY <1>1, <1>3 DEF ContentsInv, GoodInv, Good, SandboxInv
<1> QED
  BY <1>5, <1>6, <1>7, <1>8 DEF ContentsInv

LEMMA OtherContents ==
    ASSUME TypeOK', ContentsInv,
           NewTools \/ DeleteServer \/ SandboxRestart \/ \E m \in Modes : ChangeMode(m)
    PROVE  ContentsInv'
<1>1. Recorded /\ UNCHANGED g
  BY DEF Recorded, NewTools, DeleteServer, SandboxRestart, ChangeMode, SetMode, tvars
<1>2. server' \in ServerStatuses /\ unfiltered' \in BOOLEAN
      /\ (UNCHANGED <<sandbox, unfiltered>> \/ sandbox' = NotRegistered)
  BY DEF NewTools, DeleteServer, SandboxRestart, ChangeMode, Forget, ContentsInv,
         PublishingTypeOK, ServerStatuses
<1> QED
  BY <1>1, <1>2, PublishingStay

LEMMA PublishingInit == PInit => PublishingInv
<1> SUFFICES ASSUME PInit PROVE PublishingInv
  OBVIOUS
<1>1. ToolInv
  BY ToolInvInit DEF PInit
<1>2. PublishingTypeOK
  BY FreeType DEF PInit, PublishingTypeOK, ServerStatuses
<1>3. CommittedInv /\ SandboxInv
  BY DEF PInit, Init, CommittedInv, SandboxInv
<1>4. GoodInv
  BY FreeGood DEF PInit, GoodInv
<1> QED
  BY <1>1, <1>2, <1>3, <1>4 DEF PublishingInv, ContentsInv

LEMMA PublishingStep ==
    ASSUME AlwaysReview, ~Overlap, PublishingInv, [PNext]_pvars
    PROVE  PublishingInv'
<1>1. CASE UNCHANGED pvars
  <2>2. ToolInv'
    BY <1>1, ToolInvStep DEF PublishingInv
  <2>3. ContentsInv'
    BY <1>1 DEF pvars, PublishingInv, ContentsInv, PublishingTypeOK, CommittedInv, GoodInv,
                SandboxInv
  <2> QED
    BY <2>2, <2>3 DEF PublishingInv
<1>2. CASE PNext
  <2>1. ToolInv' /\ TypeOK /\ TypeOK' /\ ToolInv /\ ContentsInv
    BY <1>2, ToolInvStep DEF PublishingInv, ToolInv, ApproverInv
  <2>2. ASSUME NEW p \in Handlers, Continue(p) PROVE ContentsInv'
    BY <2>1, <2>2, QuietContents, StatusContents, SnapshotContents, CommitThenRegisterContents,
       ReregisterContents, ListToolsContents, SandboxContents DEF Continue
  <2>3. ContentsInv'
    BY <1>2, <2>1, <2>2, RequestContents, QuietContents, OtherContents DEF PNext
  <2> QED
    BY <2>1, <2>3 DEF PublishingInv
<1> QED
  BY <1>1, <1>2
-----------------------------------------------------------------------------
LEMMA SandboxApproved ==
    ASSUME PublishingInv, ~unfiltered
    PROVE  RegisteredWasApproved
  BY DEF PublishingInv, ContentsInv, SandboxInv, RegisteredWasApproved, Callable, SoundDefs

\* While every approval is the admin's and the requests for one tool do not
\* overlap, a registration that is not the admin's start or restart holds only code
\* that was committed approved - whatever handlers of different kinds overlap, fail
\* or are cut off between their snapshot, their commit and their call.
THEOREM FilteredRegistrations ==
    Modes = {"require_approval"} /\ ~Overlap
    => (PSpec => [](~unfiltered => RegisteredWasApproved))
<1> SUFFICES ASSUME AlwaysReview, ~Overlap
             PROVE  PSpec => [](~unfiltered => RegisteredWasApproved)
  BY DEF AlwaysReview
<1>1. PublishingInv /\ [PNext]_pvars => PublishingInv'
  BY PublishingStep
<1>2. PublishingInv => (~unfiltered => RegisteredWasApproved)
  BY SandboxApproved
<1> QED
  BY PublishingInit, <1>1, <1>2, PTL DEF PSpec

(***************************************************************************)
(* Where no admin starts or restarts the server by hand, every             *)
(* registration is filtered.                                               *)
(***************************************************************************)
FilteredInv == unfiltered = FALSE /\ \A p \in Handlers : g[p].op \notin Unfiltered

LEMMA FilteredStep ==
    ASSUME ServerOps \cap Unfiltered = {}, PublishingTypeOK, FilteredInv, [PNext]_pvars
    PROVE  FilteredInv'
<1>1. CASE UNCHANGED <<unfiltered, g>>
  BY <1>1 DEF FilteredInv
<1>2. CASE NewTools \/ DeleteServer \/ SandboxRestart \/ (\E m \in Modes : ChangeMode(m))
           \/ UNCHANGED pvars
  BY <1>2 DEF FilteredInv, NewTools, DeleteServer, SandboxRestart, ChangeMode, Forget, pvars
<1>3. ASSUME NEW p \in Handlers, Request(p) \/ Continue(p) \/ RequestDies(p)
      PROVE  FilteredInv'
  <2>1. g[p] \in PublishingHandler /\ g[p].op \notin Unfiltered
    BY DEF PublishingTypeOK, FilteredInv
  <2>2. Free.op \notin Unfiltered /\ FALSE = (g[p].op \in Unfiltered)
    BY <2>1 DEF Free, Unfiltered
  <2>3. unfiltered' = FALSE
    BY <1>3, <2>2 DEF FilteredInv, Request, ToolRequest, UpdateNothing, ImportApproved, StartServer,
         StopServer, RestartServer, BeginServerOp, Recover, Continue, ToolStep,
         ToolRequestFails, SnapshotBeforeCommit, CommitRegistered, CommitQuietly,
         CommitThenRegister, ReregisterServer, ListTools, SetStatus, StatusFails,
         Register, Unregister, Hold, Forget, NotReached, RequestDies
  <2>4. ASSUME NEW x, Become(p, x), x.op \notin Unfiltered PROVE FilteredInv'
    BY <2>3, <2>4 DEF Become, FilteredInv, PublishingTypeOK
  <2>5. CASE Request(p)
    <3>1. ASSUME NEW op, NEW pc, BeginServerOp(p, op, pc) PROVE FilteredInv'
      <4> DEFINE x == [Free EXCEPT !.pc = pc, !.op = op, !.loaded = server,
                                   !.copy = ListByServer(Nothing, Live)]
      <4>1. Become(p, x) /\ x.op = op /\ op \notin Unfiltered
        BY <3>1 DEF BeginServerOp, Free
      <4> HIDE DEF x
      <4> QED
        BY <4>1, <2>4
    <3>2. CASE Recover(p)
      BY <3>2, <2>4 DEF Recover, Free, Unfiltered
    <3>3. ASSUME NEW t, ToolRequest(p, t) \/ UpdateNothing(p, t) \/ ImportApproved(p, t)
          PROVE  FilteredInv'
      BY <3>3, <2>4 DEF ToolRequest, UpdateNothing, ImportApproved, Free, Unfiltered
    <3> QED
      BY <2>5, <3>1, <3>2, <3>3 DEF Request, StartServer, StopServer, RestartServer
  <2>6. CASE Continue(p) \/ RequestDies(p)
    <3>1. CASE UNCHANGED g
      BY <2>3, <3>1 DEF FilteredInv
    <3>2. \A pc, defs, copy : /\ [g[p] EXCEPT !.pc = pc].op = g[p].op
                              /\ [g[p] EXCEPT !.pc = pc, !.defs = defs].op = g[p].op
                              /\ [g[p] EXCEPT !.pc = pc, !.copy = copy].op = g[p].op
                              /\ [g[p] EXCEPT !.pc = pc, !.defs = defs, !.copy = copy].op = g[p].op
                              /\ [Free EXCEPT !.pc = pc].op = Free.op
      BY <2>1 DEF PublishingHandler, Free
    <3>3. ASSUME NEW x, Become(p, x), x.op \in {g[p].op, Free.op} PROVE FilteredInv'
      BY <2>1, <2>2, <2>4, <3>3
    <3>4. ASSUME NEW ok, Become(p, AfterSend(p, ok)) PROVE FilteredInv'
      <4>1. AfterSend(p, ok).op \in {g[p].op, Free.op}
        BY <3>2 DEF AfterSend
      <4> QED
        BY <3>3, <3>4, <4>1
    <3>5. ASSUME NEW status, NEW rows, NEW o, o.op \in {g[p].op, Free.op},
                 RegisterIfRunning(p, status, rows, o)
          PROVE  FilteredInv'
      <4> DEFINE y == [g[p] EXCEPT !.pc = "send", !.defs = Definitions(rows, Filtered(rows)),
                                   !.copy = Nothing]
      <4>1. y.op = g[p].op
        BY <3>2
      <4>2. Become(p, IF status = "running" THEN y ELSE o)
        BY <3>5 DEF RegisterIfRunning
      <4> HIDE DEF y
      <4>3. (IF status = "running" THEN y ELSE o).op \in {g[p].op, Free.op}
        BY <3>5, <4>1
      <4> QED
        BY <3>3, <4>2, <4>3
    <3>6. CASE SnapshotBeforeCommit(p) \/ ReregisterServer(p)
      <4> DEFINE o == [g[p] EXCEPT !.pc = "ready"]
      <4>1. o.op = g[p].op
        BY <3>2
      <4>2. PICK status, rows : RegisterIfRunning(p, status, rows, o)
                                \/ RegisterIfRunning(p, status, rows, Free)
        BY <3>6 DEF SnapshotBeforeCommit, ReregisterServer
      <4> HIDE DEF o
      <4> QED
        BY <3>5, <4>1, <4>2
    <3>7. CASE ListTools(p)
      <4> DEFINE rows == ListByServer(g[p].copy, Live)
                 ts == IF g[p].op \in Unfiltered THEN DOMAIN rows ELSE Filtered(rows)
                 y == [g[p] EXCEPT !.pc = "send", !.defs = Definitions(rows, ts), !.copy = Nothing]
      <4>1. y.op = g[p].op
        BY <3>2
      <4>2. Become(p, Free) \/ Become(p, y)
        BY <3>7 DEF ListTools
      <4> HIDE DEF y
      <4> QED
        BY <3>3, <4>1, <4>2
    <3>8. CASE CommitThenRegister(p)
      <4> DEFINE mine == IF h[p].op = "request_publish" THEN RowAfter(p)
                         ELSE [h[p].seen EXCEPT !.status = h[p].want.status]
                 y == [g[p] EXCEPT !.pc = "reread", !.copy = [u \in {h[p].tool} |-> mine]]
      <4>1. y.op = g[p].op
        BY <3>2
      <4>2. Become(p, y)
        BY <3>8 DEF CommitThenRegister
      <4> HIDE DEF y
      <4> QED
        BY <3>3, <4>1, <4>2
    <3>10. CASE Unregister(p)
      <4> DEFINE y == [g[p] EXCEPT !.pc = IF g[p].op = "stop" THEN "status" ELSE "list"]
      <4>1. y.op = g[p].op
        BY <3>2
      <4>2. Become(p, y)
        BY <3>10 DEF Unregister
      <4> HIDE DEF y
      <4> QED
        BY <3>3, <4>1, <4>2
    <3>9. CASE Register(p)
      BY <3>4, <3>9 DEF Register
    <3> QED
      BY <2>2, <2>4, <2>6, <3>1, <3>6, <3>7, <3>8, <3>9, <3>10
         DEF Continue, RequestDies, ToolStep, ToolRequestFails, CommitRegistered,
             CommitQuietly, SetStatus, StatusFails
  <2> QED
    BY <1>3, <2>5, <2>6
<1> QED
  BY <1>2, <1>3 DEF PNext

\* Where, besides, no admin starts or restarts the server by hand, whatever the
\* sandbox can run is code that was committed approved: requests that overlap, fail
\* or are cut off cannot register anything else.
THEOREM RegistrationsApproved ==
    Modes = {"require_approval"} /\ ~Overlap /\ ServerOps \cap Unfiltered = {}
    => (PSpec => []RegisteredWasApproved)
<1> SUFFICES ASSUME AlwaysReview, ~Overlap, ServerOps \cap Unfiltered = {}
             PROVE  PSpec => []RegisteredWasApproved
  BY DEF AlwaysReview
<1> DEFINE I == PublishingInv /\ FilteredInv
<1>1. PInit => I
  BY PublishingInit DEF PInit, FilteredInv, Free, Unfiltered
<1>2. I /\ [PNext]_pvars => I'
  BY PublishingStep, FilteredStep DEF PublishingInv, ContentsInv
<1>3. I => RegisteredWasApproved
  BY SandboxApproved DEF FilteredInv
<1> QED
  BY <1>1, <1>2, <1>3, PTL DEF PSpec
-----------------------------------------------------------------------------
(***************************************************************************)
(* Requests answered one after the other.  What the database will hold     *)
(* when the request that is being answered has committed is known at every *)
(* stage of it, and what the sandbox holds, or is about to be sent, agrees *)
(* with that.                                                              *)
(***************************************************************************)
\* The tool rows of the database, and as it will be when p has committed.
Committed == [t \in Live |-> row[t]]

Pending(p) ==
    IF h[p].pc # "commit" THEN Committed
    ELSE IF h[p].op = "delete" THEN [t \in Live \ {h[p].tool} |-> row[t]]
    ELSE [t \in Live |-> IF t = h[p].tool THEN RowAfter(p) ELSE row[t]]

\* The registration defs is of the tools of rows: of the active ones, or of these
\* and perhaps more.
Reflects(defs, more, rows) ==
    /\ Filtered(rows) \subseteq DOMAIN defs
    /\ DOMAIN defs \subseteq (IF more THEN DOMAIN rows ELSE Filtered(rows))
    /\ \A t \in DOMAIN defs : defs[t] = rows[t].code

\* What the sandbox has registered.
Held == IF sandbox = NotRegistered THEN Nothing ELSE sandbox

Agrees(status, held, more, rows) ==
    IF status = "running" THEN Reflects(held, more, rows) ELSE DOMAIN held = {}

InSync == Agrees(server, Held, unfiltered, Committed)
WillSync(p) == Agrees(server, Held, unfiltered, Pending(p))

\* The rows a session loaded are the committed ones.
Faithful(copy) == DOMAIN copy \subseteq Live /\ \A t \in DOMAIN copy : copy[t] = row[t]

StartOps == Unfiltered \cup {"start_mcp"}

\* What is known at each stage of the request of p.
Stage(p) ==
    LET x == g[p]
    IN  /\ x.loaded \in {"unread", server}
        /\ x.pc \in {"reread", "unregister", "list", "status"} => h[p].pc = "idle"
        /\ h[p].pc # "idle" => h[p].op \in Operations /\ x.op = "none"
        /\ h[p].pc # "idle" /\ x.pc # "none" => h[p].pc = "commit" /\ h[p].op \in {"update", "delete"}
        /\ x.pc = "none" => InSync
        /\ x.pc = "ready" => h[p].pc = "commit" /\ WillSync(p)
        /\ x.pc = "send" => /\ Reflects(x.defs, x.op \in Unfiltered, Pending(p))
                            /\ x.op \notin StartOps => server = "running"
        /\ x.pc = "reread" => /\ Faithful(x.copy) /\ x.op \notin StartOps
                              /\ server # "running" => DOMAIN Held = {}
        /\ x.pc = "unregister" => Faithful(x.copy) /\ x.op \in {"stop", "restart"}
        /\ x.pc = "list" => /\ Faithful(x.copy) /\ DOMAIN Held = {} /\ x.op \in StartOps
                            /\ x.op # "restart" => server # "running"
        /\ x.pc = "status" => IF x.op = "stop" THEN DOMAIN Held = {}
                              ELSE x.op \in StartOps /\ Reflects(Held, unfiltered, Committed)

OneBusy == \A p, q \in Handlers : Busy(p) /\ Busy(q) => p = q

SyncTypes ==
    /\ server \in {"imported", "running", "stopped"}
    /\ g \in [Handlers -> PublishingHandler]
    /\ sandbox = NotRegistered \/ sandbox \in Registrations

SyncInv ==
    /\ HistoryInv /\ Alone /\ SyncTypes
    /\ OneBusy
    /\ Quiet => InSync
    /\ \A p \in Handlers : Busy(p) => Stage(p)

\* The requests after which the code registers what changed, on a server that is
\* not deleted, when nothing fails.
Registering ==
    /\ Serial /\ ~Failures
    /\ "rollback" \notin Operations
    /\ "delete_server" \notin ServerOps
-----------------------------------------------------------------------------
(* Registrations and rows.                                                 *)

\* The rows "later" differ from "rows" in nothing a registration tells apart, but
\* for inactive rows that are new.
Alike(rows, later) ==
    /\ DOMAIN rows \subseteq DOMAIN later
    /\ \A t \in DOMAIN rows : /\ later[t].code = rows[t].code
                              /\ Active(later[t]) <=> Active(rows[t])
    /\ \A t \in DOMAIN later \ DOMAIN rows : ~Active(later[t])

LEMMA ReflectsAlike ==
    ASSUME NEW defs, NEW more, NEW rows, NEW later, Alike(rows, later),
           Reflects(defs, more, rows)
    PROVE  Reflects(defs, more, later)
<1>1. Filtered(later) = Filtered(rows)
  BY DEF Alike, Filtered
<1>2. DOMAIN defs \subseteq DOMAIN rows
  BY DEF Reflects, Filtered
<1>3. CASE more
  BY <1>1, <1>2, <1>3 DEF Reflects, Alike
<1>4. CASE ~more
  BY <1>1, <1>2, <1>4 DEF Reflects, Alike
<1> QED
  BY <1>3, <1>4

LEMMA AgreesAlike ==
    ASSUME NEW status, NEW held, NEW more, NEW rows, NEW later, Alike(rows, later),
           Agrees(status, held, more, rows)
    PROVE  Agrees(status, held, more, later)
  BY ReflectsAlike DEF Agrees

\* build_tool_definitions of the active rows, and of all of them.
LEMMA DefinitionsReflect ==
    ASSUME NEW rows
    PROVE  /\ Reflects(Definitions(rows, Filtered(rows)), FALSE, rows)
           /\ Reflects(Definitions(rows, DOMAIN rows), TRUE, rows)
  BY DEF Reflects, Definitions, Filtered

LEMMA DefinitionsType ==
    ASSUME NEW rows \in Copies, NEW ts \in SUBSET DOMAIN rows
    PROVE  Definitions(rows, ts) \in Registrations
<1>1. PICK S \in SUBSET Tools : rows \in [S -> Row]
  BY DEF Copies
<1>2. ts \subseteq S
  BY <1>1
<1>3. Definitions(rows, ts) \in [ts -> MaybeCode] /\ ts \in SUBSET Tools
  BY <1>1, <1>2 DEF Definitions, Row
<1> QED
  BY <1>3 DEF Registrations

\* A session whose rows are the committed ones lists the committed ones.
LEMMA ListFaithful ==
    ASSUME NEW copy, NEW ts \in SUBSET Live, Faithful(copy)
    PROVE  ListByServer(copy, ts) = [t \in ts |-> row[t]]
  BY DEF ListByServer, Faithful

LEMMA CommittedType ==
    ASSUME TypeOK
    PROVE  /\ Committed \in Copies /\ DOMAIN Committed = Live
           /\ \A t \in Live : t \in Tools /\ Committed[t] = row[t]
           /\ Faithful(Nothing) /\ Faithful(Committed)
           /\ ListByServer(Nothing, Live) = Committed
<1>1. Live \in SUBSET Tools
  BY DEF Live
<1>2. Committed \in [Live -> Row]
  BY <1>1 DEF Committed, TypeOK
<1>3. Faithful(Nothing)
  BY NothingType DEF Faithful
<1> QED
  BY <1>1, <1>2, <1>3, ListFaithful DEF Committed, Copies, Faithful

LEMMA PendingType ==
    ASSUME TypeOK, NEW p \in Handlers
    PROVE  Pending(p) \in Copies
<1>1. Live \in SUBSET Tools /\ h[p] \in HandlerType
  BY DEF Live, TypeOK, HandlerType
<1>2. RowAfter(p) \in Row
  BY <1>1, NewRowType DEF RowAfter, HandlerType, TypeOK
<1>3. [t \in Live |-> IF t = h[p].tool THEN RowAfter(p) ELSE row[t]] \in [Live -> Row]
  BY <1>1, <1>2 DEF TypeOK
<1>4. [t \in Live \ {h[p].tool} |-> row[t]] \in [Live \ {h[p].tool} -> Row]
  BY <1>1 DEF TypeOK
<1> QED
  BY <1>1, <1>3, <1>4, CommittedType DEF Pending, Copies

LEMMA NeverNotRegistered == \A defs \in Registrations : defs # NotRegistered
  BY PublishingConstantsOK DEF Registrations
-----------------------------------------------------------------------------
(* The frame of a step: p moves while nobody else is busy.                  *)

\* A step of the request of p, or of one that begins.
Solo(p) ==
    /\ SyncInv
    /\ \A q \in Handlers : q # p => ~Busy(q) /\ h'[q] = h[q] /\ g'[q] = g[q]
    /\ (HistoryInv /\ Alone)'

LEMMA SyncMove ==
    ASSUME NEW p \in Handlers, Solo(p), SyncTypes', Stage(p)'
    PROVE  SyncInv'
<1>1. \A q \in Handlers : q # p => ~Busy(q)'
  BY DEF Solo, Busy
<1>2. OneBusy' /\ (\A q \in Handlers : Busy(q)' => Stage(q)')
  BY <1>1 DEF OneBusy
<1>3. Quiet' => InSync'
  BY DEF Quiet, Busy, Stage
<1> QED
  BY <1>1, <1>2, <1>3 DEF SyncInv, Solo

\* The types of a step that takes p to x.
LEMMA SyncBecome ==
    ASSUME NEW p \in Handlers, SyncTypes, NEW x \in PublishingHandler, Become(p, x),
           server' \in {"imported", "running", "stopped"},
           UNCHANGED sandbox \/ sandbox' = NotRegistered \/ sandbox' \in Registrations
    PROVE  SyncTypes' /\ g'[p] = x /\ (\A q \in Handlers : q # p => g'[q] = g[q])
  BY DEF SyncTypes, Become

\* Where the rows, the registration and the server stay as they are.
LEMMA SyncStill ==
    /\ UNCHANGED <<life, row>> => Live' = Live /\ Committed' = Committed
    /\ UNCHANGED sandbox => Held' = Held
    /\ \A p \in Handlers :
          UNCHANGED <<life, row>> /\ h'[p] = h[p] => Pending(p)' = Pending(p)
<1>1. UNCHANGED <<life, row>> => Live' = Live /\ Committed' = Committed
  BY DEF Live, Committed
<1>2. UNCHANGED sandbox => Held' = Held
  BY DEF Held
<1>3. ASSUME NEW p \in Handlers, UNCHANGED <<life, row>>, h'[p] = h[p]
      PROVE  Pending(p)' = Pending(p)
  BY <1>1, <1>3 DEF Pending, RowAfter
<1> QED
  BY <1>1, <1>2, <1>3

\* The request of p ends, or has not come to its registration, in sync.
LEMMA StageNone ==
    ASSUME NEW p \in Handlers, g'[p].pc = "none", g'[p].loaded \in {"unread", server'},
           InSync', h'[p].pc # "idle" => h'[p].op \in Operations /\ g'[p].op = "none"
    PROVE  Stage(p)'
  BY DEF Stage

LEMMA EndSync ==
    ASSUME NEW p \in Handlers, Solo(p), Become(p, Free), h'[p].pc = "idle", InSync',
           server' \in {"imported", "running", "stopped"}, UNCHANGED sandbox \/ SyncTypes'
    PROVE  SyncInv'
<1>1. SyncTypes' /\ g'[p] = Free
  BY FreeType, SyncBecome DEF Solo, SyncInv, SyncTypes, Become
<1> QED
  BY <1>1, StageNone, SyncMove DEF Free

\* What a request finds when it may begin.
LEMMA BeginsQuiet ==
    ASSUME NEW p \in Handlers, SyncInv, Serial, MayBegin(p)
    PROVE  /\ InSync /\ TypeOK /\ SyncTypes /\ h[p].pc = "idle"
           /\ \A q \in Handlers : ~Busy(q)
           /\ server # "running" => DOMAIN Held = {}
  BY DEF MayBegin, SyncInv, Quiet, Busy, InSync, Agrees, HistoryInv

-----------------------------------------------------------------------------
(* Requests begin.                                                         *)

LEMMA ToolRequestSync ==
    ASSUME NEW p \in Handlers, NEW t \in Tools, Serial, Solo(p), ToolRequest(p, t)
    PROVE  SyncInv'
<1> DEFINE l == IF h'[p].op \in {"approve", "revoke"} THEN server ELSE "unread"
           x == [Free EXCEPT !.loaded = l]
<1>1. InSync /\ SyncTypes /\ TypeOK
  BY BeginsQuiet DEF Solo, ToolRequest
<1>2. h'[p].op \in Operations /\ UNCHANGED <<life, row>>
  BY <1>1 DEF ToolRequest, BeginSome, Update, Rollback, RequestPublish, ApproveTool, RejectTool,
         RevokeToolApproval, Review, Delete, Begin, TypeOK
<1>3. Become(p, x) /\ UNCHANGED <<server, sandbox, unfiltered>>
  BY DEF ToolRequest
<1>4. l \in {"unread", server}
  OBVIOUS
<1> HIDE DEF l
<1>5. x \in PublishingHandler /\ x.pc = "none" /\ x.op = "none" /\ x.loaded = l
  BY <1>1, <1>4, FreeType DEF Free, PublishingHandler, SyncTypes, ServerStatuses
<1> HIDE DEF x
<1>6. SyncTypes' /\ g'[p] = x
  BY <1>1, <1>3, <1>5, SyncBecome DEF SyncTypes
<1>7. InSync'
  BY <1>1, <1>2, <1>3, SyncStill DEF InSync
<1> QED
  BY <1>2, <1>3, <1>4, <1>5, <1>6, <1>7, StageNone, SyncMove

\* A request that goes on to read the rows again, with some of them loaded.
LEMMA RereadSync ==
    ASSUME NEW p \in Handlers, Solo(p), SyncTypes', h'[p].pc = "idle",
           g'[p].pc = "reread", g'[p].loaded \in {"unread", server'}, Faithful(g[p].copy)',
           g'[p].op \notin StartOps, server' # "running" => DOMAIN Held' = {}
    PROVE  SyncInv'
<1>1. Stage(p)'
  BY DEF Stage
<1> QED
  BY <1>1, SyncMove

LEMMA UpdateNothingSync ==
    ASSUME NEW p \in Handlers, NEW t \in Tools, Serial, Solo(p), UpdateNothing(p, t)
    PROVE  SyncInv'
<1> DEFINE one == ListByServer(Nothing, {t})
           x == [Free EXCEPT !.pc = "reread", !.op = "update", !.copy = one]
<1>1. /\ SyncTypes /\ TypeOK /\ h[p].pc = "idle" /\ {t} \in SUBSET Live
      /\ server # "running" => DOMAIN Held = {}
  BY BeginsQuiet DEF Solo, UpdateNothing, Live
<1>2. Become(p, x) /\ UNCHANGED <<server, sandbox, unfiltered, life, row, h>>
  BY DEF UpdateNothing, tvars
<1>3. one = [u \in {t} |-> row[t]] /\ row[t] \in Row /\ {t} \in SUBSET Tools
  BY <1>1, ListFaithful, CommittedType DEF TypeOK
<1>4. one \in Copies /\ Faithful(one)
  <2>1. one \in [{t} -> Row]
    BY <1>3
  <2> QED
    BY <1>1, <1>3, <2>1 DEF Copies, Faithful
<1> HIDE DEF one
<1>5. /\ x \in PublishingHandler /\ x.pc = "reread" /\ x.op = "update" /\ x.loaded = "unread"
      /\ x.copy = one
  BY <1>4, FreeType DEF Free, PublishingHandler, Pipeline
<1> HIDE DEF x
<1>6. SyncTypes' /\ g'[p] = x
  BY <1>1, <1>2, <1>5, SyncBecome DEF SyncTypes
<1>7. Faithful(g[p].copy)'
  BY <1>2, <1>4, <1>5, <1>6, SyncStill DEF Faithful
<1> QED
  BY <1>1, <1>2, <1>5, <1>6, <1>7, SyncStill, RereadSync DEF StartOps, Unfiltered

LEMMA ImportApprovedSync ==
    ASSUME NEW p \in Handlers, NEW t \in Tools, Serial, Solo(p), ImportApproved(p, t)
    PROVE  SyncInv'
<1> DEFINE x == [Free EXCEPT !.pc = "reread", !.op = "import"]
<1>1. SyncTypes /\ h[p].pc = "idle" /\ (server # "running" => DOMAIN Held = {})
  BY BeginsQuiet DEF Solo, ImportApproved
<1>2. Become(p, x) /\ UNCHANGED <<server, sandbox, unfiltered, h>>
  BY DEF ImportApproved, ImportTool
<1>3. /\ x \in PublishingHandler /\ x.pc = "reread" /\ x.op = "import" /\ x.loaded = "unread"
      /\ x.copy = Nothing
  BY FreeType DEF Free, PublishingHandler, Pipeline
<1> HIDE DEF x
<1>4. SyncTypes' /\ g'[p] = x
  BY <1>1, <1>2, <1>3, SyncBecome DEF SyncTypes
<1>5. Faithful(g[p].copy)'
  BY <1>3, <1>4, NothingType DEF Faithful
<1> QED
  BY <1>1, <1>2, <1>3, <1>4, <1>5, SyncStill, RereadSync DEF StartOps, Unfiltered

\* Requests about the server begin with its tools loaded.
LEMMA ServerOpSync ==
    ASSUME NEW p \in Handlers, NEW op \in AllServerOps, NEW pc \in {"list", "unregister"},
           Serial, Solo(p), BeginServerOp(p, op, pc),
           pc = "list" => op \in {"start_admin", "start_mcp"} /\ server # "running",
           pc = "unregister" => op \in {"stop", "restart"}
    PROVE  SyncInv'
<1> DEFINE x == [Free EXCEPT !.pc = pc, !.op = op, !.loaded = server,
                             !.copy = ListByServer(Nothing, Live)]
<1>1. /\ SyncTypes /\ TypeOK /\ h[p].pc = "idle"
      /\ server # "running" => DOMAIN Held = {}
  BY BeginsQuiet DEF Solo, BeginServerOp
<1>2. Become(p, x) /\ UNCHANGED <<server, sandbox, unfiltered, life, row, h>>
  BY DEF BeginServerOp, tvars
<1>3. /\ x \in PublishingHandler /\ x.pc = pc /\ x.op = op /\ x.loaded = server
      /\ x.copy = Committed
  BY <1>1, CommittedType, FreeType DEF Free, PublishingHandler, Pipeline, SyncTypes, ServerStatuses
<1> HIDE DEF x
<1>4. SyncTypes' /\ g'[p] = x
  BY <1>1, <1>2, <1>3, SyncBecome DEF SyncTypes
<1>5. Faithful(g[p].copy)'
  BY <1>1, <1>2, <1>3, <1>4, SyncStill, CommittedType DEF Faithful
<1>6. Held' = Held
  BY <1>2, SyncStill
<1>7. Stage(p)'
  BY <1>1, <1>2, <1>3, <1>4, <1>5, <1>6 DEF Stage, StartOps, Unfiltered
<1> QED
  BY <1>4, <1>7, SyncMove

LEMMA RecoverSync ==
    ASSUME NEW p \in Handlers, Serial, Solo(p), Recover(p)
    PROVE  SyncInv'
<1> DEFINE defs == Definitions(Committed, Filtered(Committed))
           x == [Free EXCEPT !.pc = "send", !.op = "recover", !.defs = defs]
<1>1. SyncTypes /\ TypeOK /\ h[p].pc = "idle"
  BY BeginsQuiet DEF Solo, Recover
<1>2. Become(p, x) /\ server = "running" /\ UNCHANGED <<server, sandbox, unfiltered, life, row, h>>
  BY <1>1, CommittedType DEF Recover, tvars
<1>3. defs \in Registrations /\ Reflects(defs, FALSE, Committed)
  <2>1. Committed \in Copies /\ Filtered(Committed) \in SUBSET DOMAIN Committed
    BY <1>1, CommittedType DEF Filtered
  <2> QED
    BY <2>1, DefinitionsType, DefinitionsReflect
<1> HIDE DEF defs
<1>4. /\ x \in PublishingHandler /\ x.pc = "send" /\ x.op = "recover" /\ x.loaded = "unread"
      /\ x.defs = defs
  BY <1>3, FreeType DEF Free, PublishingHandler, Pipeline, AllServerOps
<1> HIDE DEF x
<1>5. SyncTypes' /\ g'[p] = x
  BY <1>1, <1>2, <1>4, SyncBecome DEF SyncTypes
<1>6. Pending(p)' = Committed
  BY <1>1, <1>2, SyncStill DEF Pending
<1>7. (g'[p].op \in Unfiltered) = FALSE
  BY <1>4, <1>5 DEF Unfiltered
<1>8. Stage(p)'
  BY <1>1, <1>2, <1>3, <1>4, <1>5, <1>6, <1>7 DEF Stage
<1> QED
  BY <1>5, <1>8, SyncMove

LEMMA RequestSync ==
    ASSUME NEW p \in Handlers, Serial, Solo(p), Request(p)
    PROVE  SyncInv'
<1>1. CASE (\E op \in {"start_admin", "start_mcp"} : StartServer(p, op))
           \/ StopServer(p) \/ RestartServer(p)
  BY <1>1, ServerOpSync DEF StartServer, StopServer, RestartServer, AllServerOps
<1> QED
  BY <1>1, ToolRequestSync, UpdateNothingSync, ImportApprovedSync, RecoverSync DEF Request
-----------------------------------------------------------------------------
(* The request goes on.                                                    *)

LEMMA BusyStage ==
    ASSUME NEW p \in Handlers, Solo(p), Busy(p)
    PROVE  Stage(p) /\ SyncTypes /\ TypeOK /\ HistoryInv /\ Alone /\ g[p] \in PublishingHandler
  BY DEF Solo, SyncInv, HistoryInv, SyncTypes

LEMMA ToolStepSync ==
    ASSUME NEW p \in Handlers, Solo(p), ToolStep(p)
    PROVE  SyncInv'
<1>1. /\ UNCHANGED <<life, row, server, sandbox, unfiltered, g>>
      /\ h[p].pc \notin {"idle", "commit"} /\ h'[p].op = h[p].op
  <2>1. h \in [Handlers -> HandlerType] /\ UNCHANGED <<server, sandbox, unfiltered, g>>
    BY DEF ToolStep, Solo, SyncInv, HistoryInv, TypeOK, HandlerType
  <2>2. ASSUME NEW v, PickVersion(p, v)
        PROVE  h[p].pc = "target" /\ UNCHANGED <<life, row>> /\ h'[p].op = h[p].op
    BY <2>1, <2>2 DEF PickVersion, HandlerType
  <2>3. CASE GetApprovalMode(p)
    BY <2>1, <2>3 DEF GetApprovalMode, HandlerType, Want
  <2>4. CASE Flush(p)
    BY <2>1, <2>4 DEF Flush, HandlerType
  <2> QED
    BY <2>1, <2>2, <2>3, <2>4 DEF ToolStep
<1>2. Stage(p) /\ SyncTypes
  BY <1>1, BusyStage DEF Busy
<1>3. g[p].pc = "none" /\ InSync /\ SyncTypes'
  BY <1>1, <1>2 DEF Stage, SyncTypes
<1>4. InSync'
  BY <1>1, <1>3, SyncStill DEF InSync
<1> QED
  BY <1>1, <1>2, <1>3, <1>4, StageNone, SyncMove DEF Stage

LEMMA ToolRequestFailsSync ==
    ASSUME NEW p \in Handlers, Solo(p), ToolRequestFails(p)
    PROVE  SyncInv'
<1>1. /\ UNCHANGED <<life, row, server, sandbox, unfiltered>> /\ Become(p, Free)
      /\ h[p].pc \notin {"idle", "commit"} /\ h'[p] = Idle
  BY DEF ToolRequestFails, NoSuchVersion, RowGone, Solo, SyncInv, HistoryInv, TypeOK
<1>2. Stage(p) /\ SyncTypes
  BY <1>1, BusyStage DEF Busy
<1>3. InSync'
  BY <1>1, <1>2, SyncStill DEF Stage, InSync
<1> QED
  BY <1>1, <1>2, <1>3, EndSync DEF Idle, SyncTypes

\* What the database holds after a commit is what it was known to hold.
LEMMA CommitPending ==
    ASSUME TypeOK, NEW p \in Handlers, Commit(p) \/ CommitDelete(p)
    PROVE  /\ h[p].pc = "commit" /\ h'[p] = Idle
           /\ Committed' = Pending(p)
<1>1. h[p].tool \in Tools /\ h[p].pc = "commit" /\ h'[p] = Idle
  BY DEF TypeOK, Commit, CommitDelete, EndTransaction
<1>2. CASE Commit(p)
  <2>1. Live' = Live /\ h[p].op # "delete"
    BY <1>2 DEF Commit, Live
  <2>2. \A t \in Live : row'[t] = IF t = h[p].tool THEN RowAfter(p) ELSE row[t]
    BY <1>2 DEF Commit, TypeOK, Live
  <2>3. Pending(p) = [t \in Live |-> IF t = h[p].tool THEN RowAfter(p) ELSE row[t]]
    BY <1>1, <2>1 DEF Pending
  <2>4. Committed' = [t \in Live |-> row'[t]]
    BY <2>1 DEF Committed
  <2> QED
    BY <1>1, <2>2, <2>3, <2>4
<1>3. CASE CommitDelete(p)
  <2>1. Live' = Live \ {h[p].tool} /\ h[p].op = "delete"
    BY <1>1, <1>3 DEF CommitDelete, Live, TypeOK
  <2>2. \A t \in Live \ {h[p].tool} : row'[t] = row[t]
    BY <1>3 DEF CommitDelete, TypeOK, Live
  <2>3. Pending(p) = [t \in Live \ {h[p].tool} |-> row[t]]
    BY <1>1, <2>1 DEF Pending
  <2>4. Committed' = [t \in Live \ {h[p].tool} |-> row'[t]]
    BY <2>1 DEF Committed
  <2> QED
    BY <1>1, <2>2, <2>3, <2>4
<1> QED
  BY <1>2, <1>3

LEMMA CommitRegisteredSync ==
    ASSUME NEW p \in Handlers, Solo(p), CommitRegistered(p)
    PROVE  SyncInv'
<1>1. /\ UNCHANGED <<server, sandbox, unfiltered>> /\ Become(p, Free) /\ g[p].pc = "ready"
      /\ Commit(p) \/ CommitDelete(p)
  BY DEF CommitRegistered
<1>2. Stage(p) /\ SyncTypes /\ TypeOK
  BY <1>1, BusyStage DEF Busy
<1>3. WillSync(p) /\ Committed' = Pending(p) /\ h'[p] = Idle
  BY <1>1, <1>2, CommitPending DEF Stage
<1>4. InSync'
  BY <1>1, <1>3, SyncStill DEF InSync, WillSync
<1> QED
  BY <1>1, <1>2, <1>3, <1>4, EndSync DEF Idle, SyncTypes

\* rejecting a tool, or queueing it for review, registers nothing: it was inactive
\* and stays so.
LEMMA CommitQuietlySync ==
    ASSUME NEW p \in Handlers, Registering, Solo(p), CommitQuietly(p)
    PROVE  SyncInv'
<1>1. /\ UNCHANGED <<server, sandbox, unfiltered>> /\ Become(p, Free) /\ Commit(p)
      /\ h[p].op \in {"rollback", "reject", "request_publish"}
      /\ h[p].op = "request_publish" => h[p].want.status # "approved"
  BY DEF CommitQuietly
<1>2. Stage(p) /\ SyncTypes /\ TypeOK /\ HistoryInv /\ Alone
  BY <1>1, BusyStage DEF Busy, Commit
<1>3. /\ h[p].pc = "commit" /\ h'[p] = Idle /\ Committed' = Pending(p)
      /\ h[p].op \in {"reject", "request_publish"} /\ g[p].pc = "none" /\ InSync
  BY <1>1, <1>2, CommitPending DEF Stage, Registering
<1> DEFINE t == h[p].tool
           later == RowAfter(p)
<1>4. /\ t \in Live /\ later.code = row[t].code
      /\ row[t].status # "approved" /\ later.status # "approved"
  BY <1>1, <1>2, <1>3, AloneRow DEF Live, Warranted, Edits
<1>5. Pending(p) = [u \in Live |-> IF u = t THEN later ELSE row[u]]
  BY <1>1, <1>3 DEF Pending, Commit
<1> HIDE DEF t, later
<1>6. Alike(Committed, Pending(p))
  BY <1>2, <1>4, <1>5, CommittedType DEF Alike, Active
<1>7. InSync'
  BY <1>1, <1>3, <1>6, SyncStill, AgreesAlike DEF InSync
<1> QED
  BY <1>1, <1>2, <1>3, <1>7, EndSync DEF Idle, SyncTypes

\* approve and revoke go on with the tool as they committed it.
LEMMA CommitThenRegisterSync ==
    ASSUME NEW p \in Handlers, Solo(p), CommitThenRegister(p)
    PROVE  SyncInv'
<1> DEFINE t == h[p].tool
           mine == IF h[p].op = "request_publish" THEN RowAfter(p)
                   ELSE [h[p].seen EXCEPT !.status = h[p].want.status]
           copy == [u \in {t} |-> mine]
           x == [g[p] EXCEPT !.pc = "reread", !.copy = copy]
<1>1. /\ UNCHANGED <<server, sandbox, unfiltered>> /\ Commit(p) /\ Become(p, x)
      /\ h[p].op \in {"approve", "revoke", "request_publish"}
  BY DEF CommitThenRegister
<1>2. /\ Stage(p) /\ SyncTypes /\ TypeOK /\ HistoryInv /\ Alone /\ g[p] \in PublishingHandler
      /\ h[p] \in HandlerType
  BY <1>1, BusyStage DEF Busy, Commit, TypeOK, HandlerType
<1>3. /\ h'[p] = Idle /\ g[p].op = "none" /\ g[p].loaded \in {"unread", server}
      /\ server # "running" => DOMAIN Held = {}
  BY <1>1, <1>2, CommitPending DEF Stage, InSync, Agrees, Commit
<1>4. /\ t \in Tools /\ life[t] = "live" /\ h[p].seen = row[t] /\ row[t] \in Row
      /\ RowAfter(p) \in Row /\ Warranted(h[p])
      /\ row' = [row EXCEPT ![t] = RowAfter(p)] /\ UNCHANGED life
  BY <1>1, <1>2, AloneRow DEF Commit
<1>5. mine = RowAfter(p)
  <2>1. CASE h[p].op = "request_publish"
    BY <2>1
  <2>2. CASE h[p].op # "request_publish"
    <3>1. /\ h[p].want.status \in {"approved", "pending_review"}
          /\ h[p].op \notin Edits
      BY <1>1, <1>4, <2>2 DEF Warranted, Edits
    <3>2. h[p].want.code = row[t].code /\ h[p].want.enabled = row[t].enabled
      BY <1>2, <1>4, <3>1 DEF HistoryInv, ContentInv
    <3> QED
      BY <1>4, <2>2, <3>1, <3>2 DEF RowAfter, NewRow, Written, Row
  <2> QED
    BY <2>1, <2>2
<1>6. copy = [u \in {t} |-> row'[t]] /\ row'[t] \in Row /\ t \in Live'
  BY <1>2, <1>4, <1>5 DEF TypeOK, Live
<1> HIDE DEF mine, t
<1>7. copy \in Copies
  <2>1. copy \in [{t} -> Row] /\ {t} \in SUBSET Tools
    BY <1>4, <1>6
  <2> QED
    BY <2>1 DEF Copies
<1>8. DOMAIN copy \subseteq Live' /\ \A u \in DOMAIN copy : copy[u] = row'[u]
  BY <1>6
<1> HIDE DEF copy
<1>9. /\ x \in PublishingHandler /\ x.pc = "reread" /\ x.op = "none" /\ x.copy = copy
      /\ x.loaded = g[p].loaded
  BY <1>2, <1>3, <1>7 DEF PublishingHandler, Pipeline
<1> HIDE DEF x
<1>10. SyncTypes' /\ g'[p] = x
  BY <1>1, <1>2, <1>9, SyncBecome DEF SyncTypes
<1>11. Faithful(g[p].copy)'
  BY <1>8, <1>9, <1>10 DEF Faithful
<1>12. x.op \notin StartOps /\ Idle.pc = "idle"
  BY <1>9 DEF StartOps, Unfiltered, Idle
<1> QED
  BY <1>1, <1>3, <1>9, <1>10, <1>11, <1>12, SyncStill, RereadSync

\* A request goes on to send the definitions defs, of the rows as it leaves them.
LEMMA SendSync ==
    ASSUME NEW p \in Handlers, Solo(p), Busy(p), NEW defs \in Registrations,
           Become(p, [g[p] EXCEPT !.pc = "send", !.defs = defs, !.copy = Nothing]),
           Reflects(defs, g[p].op \in Unfiltered, Pending(p)),
           g[p].op \notin StartOps => server = "running",
           h[p].pc # "idle" => h[p].pc = "commit" /\ h[p].op \in {"update", "delete"},
           UNCHANGED <<life, row, h, server, sandbox, unfiltered>>
    PROVE  SyncInv'
<1> DEFINE x == [g[p] EXCEPT !.pc = "send", !.defs = defs, !.copy = Nothing]
<1>1. Stage(p) /\ SyncTypes /\ g[p] \in PublishingHandler
  BY BusyStage
<1>2. x \in PublishingHandler
  BY <1>1, HandlerFields, NothingType DEF Pipeline
<1>3. x.pc = "send" /\ x.defs = defs /\ x.op = g[p].op /\ x.loaded = g[p].loaded
  BY <1>1 DEF PublishingHandler
<1>4. Become(p, x)
  OBVIOUS
<1> HIDE DEF x
<1>5. SyncTypes' /\ g'[p] = x
  BY <1>1, <1>2, <1>4, SyncBecome DEF SyncTypes
<1>6. Pending(p)' = Pending(p)
  BY SyncStill
<1>7. (g'[p].op \in Unfiltered) = (g[p].op \in Unfiltered)
  BY <1>3, <1>5
<1>8. Reflects(g'[p].defs, g'[p].op \in Unfiltered, Pending(p)')
  BY <1>3, <1>5, <1>6, <1>7
<1>9. Stage(p)'
  BY <1>1, <1>3, <1>5, <1>8 DEF Stage
<1> QED
  BY <1>5, <1>9, SyncMove

\* The active rows are sent to a running server.
LEMMA RegisterSync ==
    ASSUME NEW p \in Handlers, Solo(p), Busy(p), server = "running", NEW o,
           RegisterIfRunning(p, server, Pending(p), o), g[p].op \notin StartOps,
           h[p].pc # "idle" => h[p].pc = "commit" /\ h[p].op \in {"update", "delete"},
           UNCHANGED <<life, row, h, server, sandbox, unfiltered>>
    PROVE  SyncInv'
<1> DEFINE defs == Definitions(Pending(p), Filtered(Pending(p)))
<1>1. Pending(p) \in Copies /\ Filtered(Pending(p)) \in SUBSET DOMAIN Pending(p)
  BY BusyStage, PendingType DEF Filtered
<1>2. defs \in Registrations /\ Reflects(defs, FALSE, Pending(p))
  BY <1>1, DefinitionsType, DefinitionsReflect
<1>3. Become(p, [g[p] EXCEPT !.pc = "send", !.defs = defs, !.copy = Nothing])
  BY DEF RegisterIfRunning
<1>4. (g[p].op \in Unfiltered) = FALSE
  BY DEF StartOps
<1> HIDE DEF defs
<1>5. Reflects(defs, g[p].op \in Unfiltered, Pending(p))
  BY <1>2, <1>4
<1> QED
  BY <1>2, <1>3, <1>5, SendSync

LEMMA SnapshotSync ==
    ASSUME NEW p \in Handlers, Solo(p), SnapshotBeforeCommit(p)
    PROVE  SyncInv'
<1> DEFINE t == h[p].tool
           mine == [u \in {t} |-> RowAfter(p)]
           o == [g[p] EXCEPT !.pc = "ready"]
<1>1. /\ UNCHANGED <<life, row, h, server, sandbox, unfiltered>>
      /\ h[p].pc = "commit" /\ h[p].op \in {"update", "delete"} /\ g[p].pc = "none"
  BY DEF SnapshotBeforeCommit, tvars
<1>2. /\ Stage(p) /\ SyncTypes /\ TypeOK /\ HistoryInv /\ g[p] \in PublishingHandler
      /\ t \in Tools /\ Busy(p)
  BY <1>1, BusyStage DEF Busy, TypeOK
<1>3. t \in Live
  BY <1>1, <1>2, ConstantsOK DEF HistoryInv, LockInv, Live
<1>4. h[p].op = "delete" => ListByServer(Nothing, Live \ {t}) = Pending(p)
  BY <1>1, NothingType DEF ListByServer, Pending
<1>5. h[p].op = "update" => ListByServer(mine, Live) = Pending(p)
  BY <1>1 DEF ListByServer, Pending
<1>6. RegisterIfRunning(p, server, Pending(p), o)
  BY <1>1, <1>4, <1>5 DEF SnapshotBeforeCommit
<1>7. g[p].op \notin StartOps /\ InSync /\ g[p].loaded \in {"unread", server}
  BY <1>1, <1>2 DEF Stage, StartOps, Unfiltered
<1>8. CASE server = "running"
  BY <1>1, <1>2, <1>6, <1>7, <1>8, RegisterSync
<1>9. CASE server # "running"
  <2>1. Become(p, o)
    BY <1>6, <1>9 DEF RegisterIfRunning
  <2>2. o \in PublishingHandler
    BY <1>2, HandlerFields DEF Pipeline
  <2>3. o.pc = "ready" /\ o.op = g[p].op /\ o.loaded = g[p].loaded
    BY <1>2 DEF PublishingHandler
  <2> HIDE DEF o
  <2>4. SyncTypes' /\ g'[p] = o
    BY <1>1, <1>2, <2>1, <2>2, SyncBecome DEF SyncTypes
  <2>5. WillSync(p)'
    BY <1>1, <1>7, <1>9, SyncStill DEF WillSync, InSync, Agrees
  <2>6. Stage(p)'
    BY <1>1, <1>2, <1>7, <2>3, <2>4, <2>5 DEF Stage
  <2> QED
    BY <2>4, <2>6, SyncMove
<1> QED
  BY <1>8, <1>9

LEMMA ReregisterSync ==
    ASSUME NEW p \in Handlers, Solo(p), ReregisterServer(p)
    PROVE  SyncInv'
<1>1. UNCHANGED <<life, row, h, server, sandbox, unfiltered>> /\ g[p].pc = "reread"
  BY DEF ReregisterServer, tvars
<1>2. Stage(p) /\ SyncTypes /\ TypeOK /\ Busy(p)
  BY <1>1, BusyStage DEF Busy
<1>3. /\ h[p].pc = "idle" /\ Faithful(g[p].copy) /\ g[p].op \notin StartOps
      /\ g[p].loaded \in {"unread", server} /\ (server # "running" => DOMAIN Held = {})
  BY <1>1, <1>2 DEF Stage
<1>4. ListByServer(g[p].copy, Live) = Pending(p)
  BY <1>3, ListFaithful DEF Pending, Committed
<1>5. RegisterIfRunning(p, server, Pending(p), Free)
  BY <1>3, <1>4 DEF ReregisterServer
<1>6. CASE server = "running"
  BY <1>1, <1>2, <1>3, <1>5, <1>6, RegisterSync
<1>7. CASE server # "running"
  <2>1. Become(p, Free)
    BY <1>5, <1>7 DEF RegisterIfRunning
  <2>2. InSync'
    BY <1>1, <1>3, <1>7, SyncStill DEF InSync, Agrees
  <2> QED
    BY <1>1, <1>2, <1>3, <2>1, <2>2, EndSync DEF SyncTypes
<1> QED
  BY <1>6, <1>7

LEMMA ListToolsSync ==
    ASSUME NEW p \in Handlers, Solo(p), ListTools(p)
    PROVE  SyncInv'
<1> DEFINE ts == IF g[p].op \in Unfiltered THEN DOMAIN Committed ELSE Filtered(Committed)
           defs == Definitions(Committed, ts)
<1>1. UNCHANGED <<life, row, h, server, sandbox, unfiltered>> /\ g[p].pc = "list"
  BY DEF ListTools, tvars
<1>2. Stage(p) /\ SyncTypes /\ TypeOK /\ Busy(p)
  BY <1>1, BusyStage DEF Busy
<1>3. /\ h[p].pc = "idle" /\ Faithful(g[p].copy) /\ g[p].op \in StartOps /\ DOMAIN Held = {}
      /\ g[p].op # "restart" => server # "running"
  BY <1>1, <1>2 DEF Stage
<1>4. ListByServer(g[p].copy, Live) = Committed /\ Pending(p) = Committed
  BY <1>3, ListFaithful DEF Pending, Committed
<1>5. Become(p, IF ts = {} THEN Free
                ELSE [g[p] EXCEPT !.pc = "send", !.defs = defs, !.copy = Nothing])
  BY <1>4 DEF ListTools
<1>6. Committed \in Copies /\ ts \in SUBSET DOMAIN Committed
  BY <1>2, CommittedType DEF Filtered
<1>7. defs \in Registrations
  BY <1>6, DefinitionsType
<1>8. Reflects(defs, g[p].op \in Unfiltered, Committed)
  <2>1. CASE g[p].op \in Unfiltered
    <3>1. ts = DOMAIN Committed /\ (g[p].op \in Unfiltered) = TRUE
      BY <2>1
    <3> QED
      BY <3>1, DefinitionsReflect
  <2>2. CASE g[p].op \notin Unfiltered
    <3>1. ts = Filtered(Committed) /\ (g[p].op \in Unfiltered) = FALSE
      BY <2>2
    <3> QED
      BY <3>1, DefinitionsReflect
  <2> QED
    BY <2>1, <2>2
<1>9. CASE ts # {}
  <2> HIDE DEF ts, defs
  <2>1. Become(p, [g[p] EXCEPT !.pc = "send", !.defs = defs, !.copy = Nothing])
    BY <1>5, <1>9
  <2> QED
    BY <1>1, <1>2, <1>3, <1>4, <1>7, <1>8, <2>1, SendSync
<1>10. CASE ts = {}
  <2>1. InSync
    <3>1. CASE server # "running"
      BY <1>3, <3>1 DEF InSync, Agrees
    <3>2. CASE server = "running"
      <4>1. Filtered(Committed) = {}
        BY <1>3, <1>10, <3>2 DEF Unfiltered, Filtered
      <4> QED
        BY <1>3, <4>1 DEF InSync, Agrees, Reflects
    <3> QED
      BY <3>1, <3>2
  <2>2. Become(p, Free)
    BY <1>5, <1>10
  <2>3. InSync'
    BY <1>1, <2>1, SyncStill DEF InSync
  <2> QED
    BY <1>1, <1>2, <1>3, <2>2, <2>3, EndSync DEF SyncTypes
<1> QED
  BY <1>9, <1>10

LEMMA SetStatusSync ==
    ASSUME NEW p \in Handlers, Solo(p), SetStatus(p)
    PROVE  SyncInv'
<1>1. UNCHANGED <<life, row, h, sandbox, unfiltered>> /\ g[p].pc = "status" /\ Become(p, Free)
  BY DEF SetStatus, tvars
<1>2. Stage(p) /\ SyncTypes
  BY <1>1, BusyStage DEF Busy
<1>3. server' = IF g[p].op = "stop" THEN "stopped" ELSE "running"
  BY <1>1, <1>2 DEF SetStatus, UpdateStatus, Written, Stage, SyncTypes
<1>4. InSync' /\ h[p].pc = "idle"
  BY <1>1, <1>2, <1>3, SyncStill DEF Stage, InSync, Agrees
<1> QED
  BY <1>1, <1>3, <1>4, EndSync

LEMMA RegisterCallSync ==
    ASSUME NEW p \in Handlers, ~Failures, Solo(p), Register(p)
    PROVE  SyncInv'
<1> DEFINE x == AfterSend(p, TRUE)
<1>1. /\ UNCHANGED <<life, row, h, server>> /\ g[p].pc = "send" /\ Become(p, x)
      /\ sandbox' = g[p].defs /\ unfiltered' = (g[p].op \in Unfiltered)
  BY DEF Register, Hold, NotReached, tvars
<1>2. Stage(p) /\ SyncTypes /\ g[p] \in PublishingHandler
  BY <1>1, BusyStage DEF Busy
<1>3. sandbox' \in Registrations
  BY <1>1, <1>2 DEF PublishingHandler
<1>4. Held' = g[p].defs
  BY <1>1, <1>3, NeverNotRegistered DEF Held
<1>5. Reflects(Held', unfiltered', Pending(p)')
  <2>1. Pending(p)' = Pending(p)
    BY <1>1, SyncStill
  <2>2. Reflects(g[p].defs, g[p].op \in Unfiltered, Pending(p))
    BY <1>1, <1>2 DEF Stage
  <2> QED
    BY <1>1, <1>4, <2>1, <2>2
<1>6. CASE h[p].pc = "commit"
  <2>1. g[p].op \notin StartOps /\ h[p].op \in Operations /\ h[p].op \in {"update", "delete"}
    BY <1>1, <1>2, <1>6 DEF Stage, StartOps, Unfiltered
  <2>2. WillSync(p)'
    BY <1>1, <1>2, <1>5, <2>1 DEF Stage, WillSync, Agrees
  <2>3. x = [Free EXCEPT !.pc = "ready"]
    BY <1>6 DEF AfterSend
  <2>4. x \in PublishingHandler /\ x.pc = "ready" /\ x.op = "none" /\ x.loaded = "unread"
    BY <2>3, FreeType DEF Free, PublishingHandler, Pipeline
  <2> HIDE DEF x
  <2>5. SyncTypes' /\ g'[p] = x
    BY <1>1, <1>2, <1>3, <2>4, SyncBecome DEF SyncTypes
  <2>6. Stage(p)'
    BY <1>1, <1>6, <2>1, <2>2, <2>4, <2>5 DEF Stage
  <2> QED
    BY <2>5, <2>6, SyncMove
<1>7. CASE h[p].pc # "commit"
  <2>1. h[p].pc = "idle" /\ Pending(p)' = Committed'
    BY <1>1, <1>2, <1>7 DEF Stage, Pending
  <2>2. CASE g[p].op \in StartOps
    <3>1. x = [g[p] EXCEPT !.pc = "status", !.defs = Nothing]
      BY <1>7, <2>2 DEF AfterSend, StartOps
    <3>2. x \in PublishingHandler /\ x.pc = "status" /\ x.op = g[p].op /\ x.loaded = g[p].loaded
      BY <1>2, <3>1, NothingType DEF PublishingHandler, Pipeline
    <3> HIDE DEF x
    <3>3. SyncTypes' /\ g'[p] = x
      BY <1>1, <1>2, <1>3, <3>2, SyncBecome DEF SyncTypes
    <3>4. g[p].op # "stop" /\ g[p].loaded \in {"unread", server}
      BY <1>2, <2>2 DEF StartOps, Unfiltered, Stage
    <3>5. Stage(p)'
      BY <1>1, <1>5, <2>1, <2>2, <3>2, <3>3, <3>4 DEF Stage
    <3> QED
      BY <3>3, <3>5, SyncMove
  <2>3. CASE g[p].op \notin StartOps
    <3>1. x = Free
      BY <1>7, <2>3 DEF AfterSend, StartOps
    <3>2. InSync' /\ server = "running"
      BY <1>1, <1>2, <1>5, <2>1, <2>3 DEF Stage, InSync, Agrees
    <3>3. SyncTypes'
      BY <1>1, <1>2, <1>3, <3>1, FreeType, SyncBecome DEF SyncTypes
    <3> QED
      BY <1>1, <2>1, <3>1, <3>2, <3>3, EndSync
  <2> QED
    BY <2>2, <2>3
<1> QED
  BY <1>6, <1>7

LEMMA UnregisterSync ==
    ASSUME NEW p \in Handlers, ~Failures, Solo(p), Unregister(p)
    PROVE  SyncInv'
<1> DEFINE pc == IF g[p].op = "stop" THEN "status" ELSE "list"
           x == [g[p] EXCEPT !.pc = pc]
<1>1. /\ UNCHANGED <<life, row, h, server>> /\ g[p].pc = "unregister" /\ Become(p, x)
      /\ sandbox' = NotRegistered
  BY DEF Unregister, Forget, NotReached, tvars
<1>2. Stage(p) /\ SyncTypes /\ g[p] \in PublishingHandler
  BY <1>1, BusyStage DEF Busy
<1>3. pc \in {"status", "list"} /\ (pc = "status" <=> g[p].op = "stop")
  OBVIOUS
<1> HIDE DEF pc
<1>4. /\ x \in PublishingHandler /\ x.pc = pc /\ x.op = g[p].op /\ x.loaded = g[p].loaded
      /\ x.copy = g[p].copy
  BY <1>2, <1>3 DEF PublishingHandler, Pipeline
<1> HIDE DEF x
<1>5. SyncTypes' /\ g'[p] = x
  BY <1>1, <1>2, <1>4, SyncBecome DEF SyncTypes
<1>6. DOMAIN Held' = {}
  BY <1>1, NothingType DEF Held
<1>7. /\ h[p].pc = "idle" /\ Faithful(g[p].copy) /\ g[p].op \in {"stop", "restart"}
      /\ g[p].loaded \in {"unread", server}
  BY <1>1, <1>2 DEF Stage
<1>8. Faithful(g[p].copy)'
  BY <1>1, <1>4, <1>5, <1>7, SyncStill DEF Faithful
<1>9. Stage(p)'
  BY <1>1, <1>3, <1>4, <1>5, <1>6, <1>7, <1>8 DEF Stage, StartOps, Unfiltered
<1> QED
  BY <1>5, <1>9, SyncMove
-----------------------------------------------------------------------------
(* The other steps.                                                        *)

\* A stage survives what the others do not tell apart.
LEMMA StageStays ==
    ASSUME SyncInv, (HistoryInv /\ Alone)', UNCHANGED <<h, g, server, sandbox, unfiltered>>,
           Alike(Committed, Committed'),
           \A p \in Handlers : Busy(p) => Alike(Pending(p), Pending(p)'),
           \A copy : Faithful(copy) => DOMAIN copy \subseteq Live'
                                       /\ \A t \in DOMAIN copy : copy[t] = row'[t]
    PROVE  SyncInv'
<1>1. SyncTypes' /\ OneBusy' /\ (Quiet' <=> Quiet)
  BY DEF SyncInv, SyncTypes, OneBusy, Quiet, Busy
<1>2. Held' = Held
  BY SyncStill
<1>3. InSync => InSync'
  BY <1>2, AgreesAlike DEF InSync
<1>4. ASSUME NEW p \in Handlers, Busy(p)' PROVE Stage(p)'
  <2>1. Busy(p) /\ Stage(p)
    BY <1>4 DEF Busy, SyncInv
  <2>2. WillSync(p) => WillSync(p)'
    BY <1>2, <2>1, AgreesAlike DEF WillSync
  <2>3. /\ g[p].pc = "send" => Reflects(g[p].defs, g[p].op \in Unfiltered, Pending(p)')
        /\ Reflects(Held, unfiltered, Committed) => Reflects(Held', unfiltered', Committed')
    <3>1. Reflects(Held, unfiltered, Committed) => Reflects(Held, unfiltered, Committed')
      BY ReflectsAlike
    <3> QED
      BY <1>2, <2>1, <3>1, ReflectsAlike DEF Stage
  <2>4. Faithful(g[p].copy) => Faithful(g[p].copy)'
    BY DEF Faithful
  <2> QED
    BY <1>2, <1>3, <2>1, <2>2, <2>3, <2>4 DEF Stage
<1> QED
  BY <1>1, <1>3, <1>4 DEF SyncInv

LEMMA NewToolsSync ==
    ASSUME SyncInv, (HistoryInv /\ Alone)', NewTools
    PROVE  SyncInv'
<1>1. TypeOK /\ HistoryInv
  BY DEF SyncInv, HistoryInv
<1>2. PICK u \in Tools, r \in Row :
        /\ life[u] = "none" /\ ~Active(r)
        /\ life' = [life EXCEPT ![u] = "live"] /\ row' = [row EXCEPT ![u] = r]
        /\ UNCHANGED <<h, g, server, sandbox, unfiltered>>
  <2>1. PICK u \in Tools : \/ \E c \in Codes, s \in {"draft", "pending_review"} : Create(u, c, s)
                           \/ ImportTool(u, "draft")
    BY DEF NewTools
  <2>2. UNCHANGED <<h, g, server, sandbox, unfiltered>>
    BY <2>1 DEF NewTools, Create, ImportTool
  <2>3. ASSUME NEW c \in Codes, NEW s \in {"draft", "pending_review"}, Create(u, c, s)
        PROVE  \E r \in Row : NewTool(u, r) /\ ~Active(r)
    <3> DEFINE r == [status |-> s, code |-> c, enabled |-> TRUE, version |-> 1,
                     kind |-> "python_code"]
    <3>1. r \in Row /\ r.status = s /\ NewTool(u, r)
      BY <2>3 DEF Row, Statuses, MaybeCode, Kinds, Create
    <3> QED
      BY <3>1 DEF Active
  <2>4. ASSUME ImportTool(u, "draft")
        PROVE  \E r \in Row : NewTool(u, r) /\ ~Active(r)
    <3> DEFINE r == [status |-> "draft", code |-> NoCode, enabled |-> TRUE, version |-> 1,
                     kind |-> "mcp_passthrough"]
    <3>1. r \in Row /\ r.status = "draft" /\ NewTool(u, r)
      BY <2>4 DEF Row, Statuses, MaybeCode, Kinds, ImportTool
    <3> QED
      BY <3>1 DEF Active
  <2>5. PICK r \in Row : NewTool(u, r) /\ ~Active(r)
    BY <2>1, <2>3, <2>4
  <2> QED
    BY <2>2, <2>5 DEF NewTool
<1>3. /\ Live' = Live \cup {u} /\ u \notin Live /\ row'[u] = r
      /\ \A t \in Live : row'[t] = row[t]
  BY <1>1, <1>2 DEF Live, TypeOK
<1>4. Alike(Committed, Committed')
  BY <1>2, <1>3 DEF Committed, Alike
<1>5. ASSUME NEW p \in Handlers, Busy(p) PROVE Alike(Pending(p), Pending(p)')
  <2>1. CASE h[p].pc # "commit"
    BY <1>2, <1>4, <2>1 DEF Pending
  <2>2. CASE h[p].pc = "commit"
    <3>1. h[p].tool \in Live
      BY <1>1, <2>2, ConstantsOK DEF HistoryInv, LockInv, Live, TypeOK
    <3>2. RowAfter(p)' = RowAfter(p)
      BY <1>2, <1>3, <3>1 DEF RowAfter
    <3>3. CASE h[p].op = "delete"
      BY <1>2, <1>3, <2>2, <3>1, <3>3 DEF Pending, Alike
    <3>4. CASE h[p].op # "delete"
      <4>1. Pending(p) = [t \in Live |-> IF t = h[p].tool THEN RowAfter(p) ELSE row[t]]
        BY <2>2, <3>4 DEF Pending
      <4>2. Pending(p)' = [t \in Live' |-> IF t = h[p].tool THEN RowAfter(p) ELSE row'[t]]
        BY <1>2, <2>2, <3>2, <3>4 DEF Pending
      <4> QED
        BY <1>2, <1>3, <3>1, <4>1, <4>2 DEF Alike
    <3> QED
      BY <3>3, <3>4
  <2> QED
    BY <2>1, <2>2
<1>6. \A copy : Faithful(copy) => DOMAIN copy \subseteq Live'
                                  /\ \A t \in DOMAIN copy : copy[t] = row'[t]
  BY <1>3 DEF Faithful
<1> QED
  BY <1>2, <1>4, <1>5, <1>6, StageStays

LEMMA StillSync ==
    ASSUME SyncInv, (HistoryInv /\ Alone)',
           UNCHANGED <<life, row, h, g, server, sandbox, unfiltered>>
    PROVE  SyncInv'
<1>1. \A rows : Alike(rows, rows)
  BY DEF Alike
<1>2. Committed' = Committed /\ Live' = Live /\ \A p \in Handlers : Pending(p)' = Pending(p)
  BY SyncStill
<1>3. \A copy : Faithful(copy) => DOMAIN copy \subseteq Live'
                                  /\ \A t \in DOMAIN copy : copy[t] = row'[t]
  BY <1>2 DEF Faithful
<1> QED
  BY <1>1, <1>2, <1>3, StageStays
-----------------------------------------------------------------------------
(* Every step.                                                             *)

\* A handler moves alone.
LEMMA MovesAlone ==
    ASSUME TypeOK, g \in [Handlers -> PublishingHandler], NEW p \in Handlers,
           Request(p) \/ Continue(p)
    PROVE  /\ Request(p) => MayBegin(p)
           /\ Continue(p) => Busy(p)
           /\ \A q \in Handlers : q # p => h'[q] = h[q] /\ g'[q] = g[q]
<1>1. ASSUME NEW q \in Handlers, q # p PROVE h'[q] = h[q]
  <2>1. ASSUME NEW t, BeginSome(p, t) PROVE h'[q] = h[q]
    BY <1>1, <2>1 DEF BeginSome, Update, Rollback, RequestPublish, ApproveTool, RejectTool,
       RevokeToolApproval, Review, Delete, Begin, TypeOK
  <2>2. ASSUME Proceed(p) PROVE h'[q] = h[q]
    BY <1>1, <2>2 DEF Proceed, PickVersion, NoSuchVersion, GetApprovalMode, Flush, RowGone,
       Commit, CommitDelete, EndTransaction, TypeOK
  <2>3. CASE Request(p)
    BY <2>1, <2>3 DEF Request, ToolRequest, UpdateNothing, ImportApproved, ImportTool,
       StartServer, StopServer, RestartServer, Recover, BeginServerOp, tvars
  <2>4. CASE Continue(p)
    BY <2>2, <2>4 DEF Continue, ToolStep, ToolRequestFails, SnapshotBeforeCommit,
       CommitRegistered, CommitQuietly, CommitThenRegister, ReregisterServer, ListTools,
       SetStatus, StatusFails, Register, Unregister, Proceed, tvars
  <2> QED
    BY <2>3, <2>4
<1>2. ASSUME NEW q \in Handlers, q # p PROVE g'[q] = g[q]
  <2>1. ASSUME NEW x, Become(p, x) PROVE g'[q] = g[q]
    BY <1>2, <2>1 DEF Become
  <2>2. CASE Request(p)
    BY <2>1, <2>2 DEF Request, ToolRequest, UpdateNothing, ImportApproved,
       StartServer, StopServer, RestartServer, Recover, BeginServerOp
  <2>3. CASE Continue(p)
    BY <2>1, <2>3 DEF Continue, ToolStep, ToolRequestFails, SnapshotBeforeCommit,
       CommitRegistered, CommitQuietly, CommitThenRegister, ReregisterServer, ListTools,
       SetStatus, StatusFails, Register, Unregister, RegisterIfRunning
  <2> QED
    BY <2>2, <2>3
<1>3. Request(p) => MayBegin(p)
  BY DEF Request, ToolRequest, UpdateNothing, ImportApproved,
         StartServer, StopServer, RestartServer, Recover, BeginServerOp
<1>4. Continue(p) => Busy(p)
  BY DEF Continue, Busy, ToolStep, ToolRequestFails, SnapshotBeforeCommit, CommitRegistered,
         CommitQuietly, CommitThenRegister, ReregisterServer, ListTools, SetStatus, StatusFails,
         Register, Unregister, PickVersion, NoSuchVersion, GetApprovalMode, Flush, RowGone,
         Commit, CommitDelete
<1> QED
  BY <1>1, <1>2, <1>3, <1>4

LEMMA SyncInit == PInit => SyncInv
<1> SUFFICES ASSUME PInit PROVE SyncInv
  OBVIOUS
<1>1. HistoryInv /\ Alone
  BY HistoryInit, AloneInit DEF PInit
<1>2. SyncTypes
  BY FreeType DEF PInit, SyncTypes
<1>3. \A p \in Handlers : ~Busy(p)
  BY DEF PInit, Init, Busy, Free, Idle
<1>4. InSync
  BY NothingType DEF PInit, InSync, Agrees, Held
<1> QED
  BY <1>1, <1>2, <1>3, <1>4 DEF SyncInv, OneBusy

LEMMA SyncStep ==
    ASSUME Registering, SyncInv, [PNext]_pvars
    PROVE  SyncInv'
<1>t. HistoryInv /\ Alone /\ TypeOK /\ g \in [Handlers -> PublishingHandler]
  BY DEF SyncInv, SyncTypes, HistoryInv
<1>1. (HistoryInv /\ Alone)'
  <2>1. ~DeleteServer
    BY DEF DeleteServer, Registering
  <2>2. [ToolPart]_vars
    BY <2>1, ToolHalf DEF pvars, vars
  <2>3. [LoneNext]_vars /\ [Next]_vars
    BY <2>2 DEF ToolPart, Registering, LoneNext, Next
  <2> QED
    BY <1>t, <2>3, HistoryStep, AloneStep
<1>2. ASSUME NEW p \in Handlers, Request(p) \/ Continue(p) PROVE SyncInv'
  <2>1. Solo(p)
    <3>1. \A q \in Handlers : q # p => ~Busy(q)
      BY <1>t, <1>2, MovesAlone DEF MayBegin, Registering, SyncInv, OneBusy
    <3> QED
      BY <1>t, <1>1, <1>2, <3>1, MovesAlone DEF Solo
  <2>2. CASE Request(p)
    BY <2>1, <2>2, RequestSync DEF Registering
  <2>3. CASE Continue(p)
    <3>1. ~StatusFails(p)
      BY DEF StatusFails, Registering
    <3> QED
      BY <2>1, <2>3, <3>1, ToolStepSync, ToolRequestFailsSync, SnapshotSync,
         CommitRegisteredSync, CommitQuietlySync, CommitThenRegisterSync, ReregisterSync,
         ListToolsSync, SetStatusSync, RegisterCallSync, UnregisterSync
         DEF Continue, Registering
  <2> QED
    BY <1>2, <2>2, <2>3
<1>3. CASE NewTools
  BY <1>1, <1>3, NewToolsSync
<1>4. CASE (\E m \in Modes : ChangeMode(m)) \/ UNCHANGED pvars
  <2>1. UNCHANGED <<life, row, h, g, server, sandbox, unfiltered>>
    BY <1>4 DEF ChangeMode, SetMode, pvars
  <2> QED
    BY <1>1, <2>1, StillSync
<1>5. ~DeleteServer /\ ~SandboxRestart /\ \A p \in Handlers : ~RequestDies(p)
  BY DEF DeleteServer, SandboxRestart, RequestDies, Registering
<1> QED
  BY <1>2, <1>3, <1>4, <1>5 DEF PNext

LEMMA SyncRegistry ==
    ASSUME SyncInv
    PROVE  RegistryInSync
<1> SUFFICES ASSUME Quiet PROVE RegistryInSync
  BY DEF RegistryInSync
<1>1. InSync /\ TypeOK /\ DOMAIN Committed = Live /\ (\A t \in Live : Committed[t] = row[t])
  BY CommittedType DEF SyncInv, HistoryInv
<1>2. Callable = DOMAIN Held /\ (\A t \in Callable : sandbox[t] = Held[t])
  BY NothingType DEF Callable, Held
<1>3. Filtered(Committed) = ActiveTools
  BY <1>1 DEF Filtered, ActiveTools
<1>4. CASE server # "running"
  BY <1>1, <1>2, <1>4 DEF RegistryInSync, InSync, Agrees
<1>5. CASE server = "running"
  <2>1. Reflects(Held, unfiltered, Committed)
    BY <1>1, <1>5 DEF InSync, Agrees
  <2>2. Callable \subseteq Live
    <3>1. Callable \subseteq DOMAIN Committed
      BY <1>2, <2>1 DEF Reflects, Filtered
    <3> QED
      BY <1>1, <3>1
  <2>3. Callable \subseteq (IF unfiltered THEN Live ELSE ActiveTools)
    BY <1>1, <1>2, <1>3, <2>1, Zenon DEF Reflects
  <2>4. ActiveTools \subseteq Callable /\ \A t \in Callable : sandbox[t] = row[t].code
    BY <1>1, <1>2, <1>3, <2>1, <2>2 DEF Reflects
  <2> QED
    BY <1>5, <2>3, <2>4 DEF RegistryInSync
<1> QED
  BY <1>4, <1>5

\* Requests that are answered one after the other, and do not fail, leave the
\* sandbox with the approved and enabled tools of a running server, with their
\* current code, and with none of a server that does not run - whatever the
\* approval mode, whichever of update, delete, approve, reject, revoke,
\* request_publish, import, start, stop, restart and recovery was asked for, and
\* though some register before they commit and some after.
THEOREM SerialCorrect == Registering => (PSpec => []RegistryInSync)
<1> SUFFICES ASSUME Registering PROVE PSpec => []RegistryInSync
  OBVIOUS
<1>1. SyncInv /\ [PNext]_pvars => SyncInv'
  BY SyncStep
<1>2. SyncInv => RegistryInSync
  BY SyncRegistry
<1> QED
  BY SyncInit, <1>1, <1>2, PTL DEF PSpec
====
