------------------------ MODULE ToolApproval_proofs ------------------------
(***************************************************************************)
(* Proofs about ToolApproval, for any sets of tools, handlers and code     *)
(* texts, any approval modes and any overlap of requests; the refinement   *)
(* of ApprovalWorkflow, where the requests for one tool do not overlap.    *)
(***************************************************************************)
EXTENDS ToolApproval, TLAPS

-----------------------------------------------------------------------------
(* Typing.                                                                 *)

LEMMA IdleType ==
    Idle \in [pc : Pcs, op : AllOperations \cup {"none"}, tool : Tools,
              seen : Row, want : Want]
<1>1. PICK t \in Tools : TRUE
  BY ConstantsOK
<1>2. Idle.tool \in Tools
  BY <1>1 DEF Idle
<1> QED
  BY <1>2 DEF Idle, Pcs, Row, Want, NoRow, MaybeCode, Statuses, Kinds

LEMMA NewRowType ==
    ASSUME NEW r \in Row, NEW seen \in Row, NEW want \in Want, NEW op
    PROVE  /\ NewRow(r, seen, want, op) \in Row
           /\ Entry(NewRow(r, seen, want, op)) \in Version
  BY DEF NewRow, Entry, Written, Row, Version, Want

(***************************************************************************)
(* TypeOK is inductive: one step per action.                               *)
(***************************************************************************)
LEMMA TypeInit == Init => TypeOK
<1> SUFFICES ASSUME Init PROVE TypeOK
  OBVIOUS
<1>1. NoRow \in Row
  BY DEF NoRow, Row, MaybeCode, Statuses, Kinds
<1> QED
  BY <1>1, IdleType DEF Init, TypeOK

HandlerType == [pc : Pcs, op : AllOperations \cup {"none"}, tool : Tools,
                seen : Row, want : Want]

\* A step that only moves one handler keeps the types, if the handler's new
\* state has the type and, when it owns the lock, stays an owner.
LEMMA HandlerStep ==
    ASSUME TypeOK, NEW p \in Handlers, NEW x \in HandlerType,
           h' = [h EXCEPT ![p] = x],
           UNCHANGED <<life, row, versions, lock, mode>>,
           \A t \in Tools : lock[t] = p => x.tool = t /\ x.pc \in {"decide", "commit"}
    PROVE  TypeOK'
  BY DEF TypeOK, HandlerType

LEMMA BeginType ==
    ASSUME TypeOK, NEW p \in Handlers, NEW t \in Tools, NEW op,
           NEW want \in Want, NEW pc \in Pcs, Begin(p, t, op, want, pc)
    PROVE  TypeOK'
<1> DEFINE x == [pc |-> pc, op |-> op, tool |-> t, seen |-> row[t], want |-> want]
<1>1. x \in HandlerType
  BY ConstantsOK DEF Begin, HandlerType, TypeOK
<1>2. \A u \in Tools : lock[u] # p
  BY ConstantsOK DEF Begin, TypeOK
<1> QED
  BY <1>1, <1>2, HandlerStep DEF Begin

LEMMA WantTypes ==
    ASSUME NEW r \in Row
    PROVE  /\ Keep(r) \in Want
           /\ \A s \in Statuses : [Keep(r) EXCEPT !.status = s] \in Want
           /\ \A c \in MaybeCode, e \in BOOLEAN :
                 [status |-> "unset", code |-> c, enabled |-> e] \in Want
  BY DEF Keep, Row, Want

LEMMA BeginSomeType ==
    ASSUME TypeOK, NEW p \in Handlers, NEW t \in Tools, BeginSome(p, t)
    PROVE  TypeOK'
<1>r. row[t] \in Row
  BY DEF TypeOK
<1>p. {"target", "decide", "flush"} \subseteq Pcs
  BY DEF Pcs
<1>s. {"approved", "rejected", "pending_review"} \subseteq Statuses
  BY DEF Statuses
<1>1. CASE \E c \in MaybeCode, e \in BOOLEAN : Update(p, t, c, e)
  BY <1>1, <1>r, <1>p, WantTypes, BeginType DEF Update
<1>2. CASE Rollback(p, t)
  BY <1>2, <1>r, <1>p, WantTypes, BeginType DEF Rollback
<1>3. CASE RequestPublish(p, t)
  BY <1>3, <1>r, <1>p, WantTypes, BeginType DEF RequestPublish
<1>4. CASE ApproveTool(p, t) \/ RejectTool(p, t) \/ RevokeToolApproval(p, t)
  BY <1>4, <1>r, <1>p, <1>s, WantTypes, BeginType
     DEF ApproveTool, RejectTool, RevokeToolApproval, Review
<1>5. CASE Delete(p, t)
  BY <1>5, <1>r, <1>p, WantTypes, BeginType DEF Delete
<1> QED
  BY <1>1, <1>2, <1>3, <1>4, <1>5 DEF BeginSome, MaybeCode

LEMMA ProceedType ==
    ASSUME TypeOK, NEW p \in Handlers, Proceed(p) \/ Abort(p)
    PROVE  TypeOK'
<1> DEFINE t == h[p].tool
<1>h. h[p] \in HandlerType /\ t \in Tools
  BY DEF TypeOK, HandlerType
<1>i. Idle \in HandlerType
  BY IdleType DEF HandlerType
<1>n. NoRow \in Row
  BY DEF NoRow, Row, MaybeCode, Statuses, Kinds
<1>1. ASSUME NEW v \in versions[t], PickVersion(p, v) PROVE TypeOK'
  <2> DEFINE x == [h[p] EXCEPT !.want = [status |-> "unset", code |-> v.code,
                                        enabled |-> v.enabled],
                               !.pc = IF v.code # h[p].seen.code \/ v.enabled # h[p].seen.enabled
                                      THEN "flush" ELSE "decide"]
  <2>1. v \in Version
    BY <1>h DEF TypeOK
  <2>2. x \in HandlerType
    BY <1>h, <2>1 DEF HandlerType, Version, Want, Pcs
  <2>3. \A u \in Tools : lock[u] # p
    BY <1>1, ConstantsOK DEF PickVersion, TypeOK
  <2>4. h' = [h EXCEPT ![p] = x]
    BY <1>1, <1>h DEF PickVersion, TypeOK, HandlerType
  <2> QED
    BY <1>1, <2>2, <2>3, <2>4, HandlerStep DEF PickVersion
<1>2. CASE NoSuchVersion(p) \/ RowGone(p)
  <2>1. \A u \in Tools : lock[u] # p
    BY <1>2, ConstantsOK DEF NoSuchVersion, RowGone, TypeOK
  <2> QED
    BY <1>2, <1>i, <2>1, HandlerStep DEF NoSuchVersion, RowGone
<1>3. CASE GetApprovalMode(p)
  <2> DEFINE x == [h[p] EXCEPT !.want.status =
                                  IF mode = "auto_approve" THEN "approved" ELSE "pending_review",
                               !.pc = IF lock[t] = p THEN "commit" ELSE "flush"]
  <2>1. x \in HandlerType
    BY <1>h DEF HandlerType, Want, Statuses, Pcs
  <2>2. h' = [h EXCEPT ![p] = x]
    BY <1>3, <1>h DEF GetApprovalMode, TypeOK, HandlerType
  <2>3. \A u \in Tools : lock[u] = p => x.tool = u /\ x.pc \in {"decide", "commit"}
    BY <1>h, ConstantsOK DEF TypeOK, HandlerType
  <2> QED
    BY <1>3, <2>1, <2>2, <2>3, HandlerStep DEF GetApprovalMode
<1>4. CASE Flush(p)
  <2> DEFINE x == [h[p] EXCEPT !.pc = IF Undecided(p) THEN "decide" ELSE "commit"]
  <2>1. x \in HandlerType /\ x.tool = t /\ x.pc \in {"decide", "commit"}
    BY <1>h DEF HandlerType, Pcs
  <2>2. h' = [h EXCEPT ![p] = x]
    BY <1>4, <1>h DEF Flush, TypeOK, HandlerType
  <2>3. lock' = [lock EXCEPT ![t] = p]
    BY <1>4 DEF Flush
  <2>4. \A u \in Tools : lock[u] # p
    BY <1>4, ConstantsOK DEF Flush, TypeOK
  <2> QED
    BY <1>4, <1>h, <2>1, <2>2, <2>3, <2>4, ConstantsOK DEF Flush, TypeOK, HandlerType
<1>5. CASE Commit(p)
  <2>1. RowAfter(p) \in Row /\ Entry(RowAfter(p)) \in Version
    BY <1>h, NewRowType DEF TypeOK, HandlerType, RowAfter
  <2>2. row' \in [Tools -> Row] /\ versions' \in [Tools -> SUBSET Version]
    BY <1>5, <1>h, <2>1 DEF Commit, TypeOK
  <2>3. lock' \in [Tools -> Handlers \cup {NoHandler}] /\ h' \in [Handlers -> HandlerType]
    BY <1>5, <1>h, <1>i DEF Commit, EndTransaction, TypeOK, HandlerType
  <2>4. \A u \in Tools : lock'[u] # NoHandler =>
           lock'[u] # p /\ h'[lock'[u]] = h[lock[u]] /\ lock'[u] = lock[u]
    BY <1>5, <1>h, ConstantsOK DEF Commit, EndTransaction, TypeOK, HandlerType
  <2> QED
    BY <1>5, <2>2, <2>3, <2>4 DEF Commit, TypeOK, HandlerType
<1>6. CASE CommitDelete(p)
  <2>2. row' \in [Tools -> Row] /\ versions' \in [Tools -> SUBSET Version]
        /\ life' \in [Tools -> {"none", "live", "deleted"}]
    BY <1>6, <1>h, <1>n DEF CommitDelete, TypeOK
  <2>3. lock' \in [Tools -> Handlers \cup {NoHandler}] /\ h' \in [Handlers -> HandlerType]
    BY <1>6, <1>h, <1>i DEF CommitDelete, EndTransaction, TypeOK, HandlerType
  <2>4. \A u \in Tools : lock'[u] # NoHandler =>
           lock'[u] # p /\ h'[lock'[u]] = h[lock[u]] /\ lock'[u] = lock[u]
    BY <1>6, <1>h, ConstantsOK DEF CommitDelete, EndTransaction, TypeOK, HandlerType
  <2> QED
    BY <1>6, <2>2, <2>3, <2>4 DEF CommitDelete, TypeOK, HandlerType
<1>7. CASE Abort(p)
  <2>3. lock' \in [Tools -> Handlers \cup {NoHandler}] /\ h' \in [Handlers -> HandlerType]
    BY <1>7, <1>h, <1>i DEF Abort, TypeOK, HandlerType
  <2>4. \A u \in Tools : lock'[u] # NoHandler =>
           lock'[u] # p /\ h'[lock'[u]] = h[lock[u]] /\ lock'[u] = lock[u]
    BY <1>7, <1>h, ConstantsOK DEF Abort, TypeOK, HandlerType
  <2> QED
    BY <1>7, <2>3, <2>4 DEF Abort, TypeOK, HandlerType
<1> QED
  BY <1>1, <1>2, <1>3, <1>4, <1>5, <1>6, <1>7 DEF Proceed

LEMMA NewSomeType ==
    ASSUME TypeOK, NEW t \in Tools, NewSome(t)
    PROVE  TypeOK'
<1>1. ASSUME NEW c \in Codes, NEW s \in {"draft", "pending_review"}, Create(t, c, s)
      PROVE  TypeOK'
  BY <1>1 DEF Create, NewTool, TypeOK, Row, Version, MaybeCode, Statuses, Kinds
<1>2. ASSUME NEW s \in {"draft", "approved"}, ImportTool(t, s)
      PROVE  TypeOK'
  BY <1>2 DEF ImportTool, NewTool, TypeOK, Row, MaybeCode, Statuses, Kinds
<1> QED
  BY <1>1, <1>2 DEF NewSome

LEMMA TypeStep == TypeOK /\ [Next]_vars => TypeOK'
<1> SUFFICES ASSUME TypeOK, [Next]_vars PROVE TypeOK'
  OBVIOUS
<1>1. CASE \E t \in Tools : NewSome(t)
  BY <1>1, NewSomeType
<1>2. CASE \E m \in Modes : SetMode(m)
  BY <1>2 DEF SetMode, TypeOK
<1>3. CASE \E p \in Handlers, t \in Tools : BeginSome(p, t)
  BY <1>3, BeginSomeType
<1>4. CASE \E p \in Handlers : Proceed(p) \/ Abort(p)
  BY <1>4, ProceedType
<1>5. CASE UNCHANGED vars
  BY <1>5 DEF vars, TypeOK
<1> QED
  BY <1>1, <1>2, <1>3, <1>4, <1>5 DEF Next

\* Every variable keeps its type, and a locked row is locked by a handler that
\* works on it.
THEOREM TypeCorrect == Spec => []TypeOK
<1> QED
  BY TypeInit, TypeStep, PTL DEF Spec
-----------------------------------------------------------------------------
(***************************************************************************)
(* The version history.  Who is about to commit owns the row lock, only    *)
(* live rows are locked, and only an edit asks for new content; so between *)
(* its flush and its commit nobody else writes the row it numbers.         *)
(***************************************************************************)
LockInv ==
    /\ \A p \in Handlers : h[p].pc = "commit" => lock[h[p].tool] = p
    /\ \A t \in Tools : lock[t] # NoHandler => life[t] = "live"

ContentInv ==
    \A p \in Handlers : h[p].op \notin Edits =>
        /\ h[p].want.code = h[p].seen.code
        /\ h[p].want.enabled = h[p].seen.enabled
        /\ h[p].pc # "target"

RowInv ==
    /\ \A t \in Tools : life[t] = "live" => row[t].version >= 1
    /\ \A t \in Tools : life[t] = "none" => versions[t] = {}

HistoryOf(r, vs) ==
    /\ {v.number : v \in vs} = FirstEntry(r.kind) .. r.version
    /\ \A v, w \in vs : v.number = w.number => v = w
    /\ \A v \in vs : v.number = r.version => v = Entry(r)

HistoryInv == TypeOK /\ LockInv /\ ContentInv /\ RowInv /\ VersionHistory

LEMMA HistoryInit == Init => HistoryInv
<1> SUFFICES ASSUME Init PROVE HistoryInv
  OBVIOUS
<1>1. TypeOK
  BY TypeInit
<1>2. LockInv /\ ContentInv /\ RowInv /\ VersionHistory
  BY DEF Init, LockInv, ContentInv, RowInv, VersionHistory, Idle, NoRow
<1> QED
  BY <1>1, <1>2 DEF HistoryInv

\* The heart of it: an edit that takes the row to the next version and records
\* it extends a complete history to a complete history.
LEMMA EditExtendsHistory ==
    ASSUME NEW r \in Row, NEW n \in Row, NEW vs \in SUBSET Version,
           r.version >= 1, HistoryOf(r, vs),
           n.version = r.version + 1, n.kind = r.kind
    PROVE  HistoryOf(n, vs \cup {Entry(n)})
<1> DEFINE ws == vs \cup {Entry(n)}
           k == FirstEntry(r.kind)
<1>1. k \in {1, 2} /\ r.version \in Nat /\ k .. n.version = (k .. r.version) \cup {n.version}
  BY DEF FirstEntry, Row
<1>2. \A v \in vs : v.number \in Nat /\ v.number <= r.version
  BY <1>1 DEF HistoryOf, Version
<1>3. Entry(n).number = n.version
  BY DEF Entry
<1>4. {v.number : v \in ws} = {v.number : v \in vs} \cup {n.version}
  BY <1>3
<1>5. \A v \in vs : v.number # n.version
  BY <1>1, <1>2
<1> QED
  BY <1>1, <1>3, <1>4, <1>5 DEF HistoryOf, FirstEntry

\* A step that begins a request or moves one on without ending its transaction
\* leaves the rows and their histories alone.
LEMMA HistoryUnchanged ==
    ASSUME HistoryInv, UNCHANGED <<life, row, versions>>
    PROVE  RowInv' /\ VersionHistory'
  BY DEF HistoryInv, RowInv, VersionHistory

LEMMA HistoryBegin ==
    ASSUME HistoryInv, NEW p \in Handlers, NEW t \in Tools, BeginSome(p, t)
    PROVE  HistoryInv'
<1>1. TypeOK'
  BY BeginSomeType DEF HistoryInv
<1>2. PICK op, want, pc :
         /\ Begin(p, t, op, want, pc)
         /\ pc # "commit"
         /\ op \notin Edits => want.code = row[t].code /\ want.enabled = row[t].enabled
                               /\ pc # "target"
  <2>1. row[t] \in Row
    BY DEF HistoryInv, TypeOK
  <2>2. ASSUME NEW s PROVE [Keep(row[t]) EXCEPT !.status = s].code = row[t].code
                        /\ [Keep(row[t]) EXCEPT !.status = s].enabled = row[t].enabled
    BY DEF Keep
  <2>3. CASE \E c \in MaybeCode, e \in BOOLEAN : Update(p, t, c, e)
    BY <2>3 DEF Update, Edits
  <2>4. CASE Rollback(p, t)
    BY <2>4 DEF Rollback, Edits
  <2>5. CASE RequestPublish(p, t) \/ Delete(p, t)
    BY <2>5 DEF RequestPublish, Delete, Keep
  <2>6. ASSUME NEW op, NEW from, NEW to, Review(p, t, op, from, to)
        PROVE  \E want : /\ Begin(p, t, op, want, "flush")
                         /\ want.code = row[t].code /\ want.enabled = row[t].enabled
    <3>1. Begin(p, t, op, [Keep(row[t]) EXCEPT !.status = to], "flush")
      BY <2>6 DEF Review
    <3> QED
      BY <3>1, <2>2
  <2>7. CASE ApproveTool(p, t) \/ RejectTool(p, t) \/ RevokeToolApproval(p, t)
    <3>1. PICK op, from, to : Review(p, t, op, from, to)
      BY <2>7 DEF ApproveTool, RejectTool, RevokeToolApproval
    <3> QED
      BY <3>1, <2>6
  <2> QED
    BY <2>3, <2>4, <2>5, <2>7 DEF BeginSome, MaybeCode
<1>3. h' = [h EXCEPT ![p] = [pc |-> pc, op |-> op, tool |-> t, seen |-> row[t], want |-> want]]
      /\ UNCHANGED <<life, row, versions, lock, mode>>
  BY <1>2 DEF Begin
<1>4. LockInv' /\ ContentInv'
  BY <1>2, <1>3 DEF HistoryInv, LockInv, ContentInv, TypeOK
<1> QED
  BY <1>1, <1>3, <1>4, HistoryUnchanged DEF HistoryInv

LEMMA HistoryProceed ==
    ASSUME HistoryInv, NEW p \in Handlers, Proceed(p) \/ Abort(p)
    PROVE  HistoryInv'
<1> DEFINE t == h[p].tool
<1>t. TypeOK /\ TypeOK'
  BY ProceedType DEF HistoryInv
<1>h. h[p] \in HandlerType /\ t \in Tools
  BY <1>t DEF TypeOK, HandlerType
<1>i. Idle.pc = "idle" /\ Idle.op = "none" /\ Idle.want.code = Idle.seen.code
      /\ Idle.want.enabled = Idle.seen.enabled
  BY DEF Idle, NoRow
<1>1. ASSUME NEW v \in versions[t], PickVersion(p, v) PROVE HistoryInv'
  <2>1. h'[p].op = h[p].op /\ h'[p].pc # "commit" /\ h'[p].tool = t
    BY <1>1, <1>h, <1>t DEF PickVersion, TypeOK, HandlerType
  <2>2. h[p].op \in Edits
    BY <1>1, <1>h DEF PickVersion, HistoryInv, ContentInv
  <2> QED
    BY <1>1, <1>t, <2>1, HistoryUnchanged DEF PickVersion, HistoryInv, LockInv, ContentInv, TypeOK
<1>2. CASE NoSuchVersion(p) \/ RowGone(p)
  <2>1. h' = [h EXCEPT ![p] = Idle] /\ UNCHANGED <<life, lock>>
    BY <1>2 DEF NoSuchVersion, RowGone
  <2>2. \A q \in Handlers : h'[q] = IF q = p THEN Idle ELSE h[q]
    BY <2>1, <1>t DEF TypeOK
  <2>3. LockInv' /\ ContentInv'
    BY <1>i, <2>1, <2>2 DEF HistoryInv, LockInv, ContentInv
  <2> QED
    BY <1>2, <1>t, <2>3, HistoryUnchanged DEF NoSuchVersion, RowGone, HistoryInv
<1>3. CASE GetApprovalMode(p)
  <2>1. /\ h'[p].op = h[p].op /\ h'[p].tool = t /\ h'[p].seen = h[p].seen
        /\ h'[p].want.code = h[p].want.code /\ h'[p].want.enabled = h[p].want.enabled
        /\ h'[p].pc # "target" /\ (h'[p].pc = "commit" => lock[t] = p)
        /\ \A q \in Handlers : q # p => h'[q] = h[q]
    BY <1>3, <1>h, <1>t DEF GetApprovalMode, TypeOK, HandlerType, Want
  <2>2. UNCHANGED <<life, row, versions, lock, mode>>
    BY <1>3 DEF GetApprovalMode
  <2>3. LockInv' /\ ContentInv'
    BY <2>1, <2>2 DEF HistoryInv, LockInv, ContentInv
  <2> QED
    BY <1>3, <1>t, <2>3, HistoryUnchanged DEF GetApprovalMode, HistoryInv
<1>4. CASE Flush(p)
  <2>1. /\ h'[p].op = h[p].op /\ h'[p].tool = t /\ h'[p].seen = h[p].seen
        /\ h'[p].want = h[p].want /\ h'[p].pc # "target"
        /\ \A q \in Handlers : q # p => h'[q] = h[q]
    BY <1>4, <1>h, <1>t DEF Flush, TypeOK, HandlerType
  <2>2. /\ life[t] = "live" /\ lock[t] = NoHandler /\ lock'[t] = p /\ UNCHANGED life
        /\ \A u \in Tools : u # t => lock'[u] = lock[u]
    BY <1>4, <1>h, <1>t DEF Flush, TypeOK
  <2>3. \A q \in Handlers : q # p /\ h[q].pc = "commit" => h[q].tool # t /\ h[q].tool \in Tools
    BY <2>2, <1>t, ConstantsOK DEF HistoryInv, LockInv, TypeOK
  <2>4. LockInv'
    BY <2>1, <2>2, <2>3 DEF HistoryInv, LockInv
  <2>5. ContentInv'
    BY <2>1 DEF HistoryInv, ContentInv
  <2> QED
    BY <1>4, <1>t, <2>4, <2>5, HistoryUnchanged DEF Flush, HistoryInv
<1>5. CASE Commit(p) \/ CommitDelete(p) \/ Abort(p)
  <2>1. /\ h' = [h EXCEPT ![p] = Idle]
        /\ \A u \in Tools : lock'[u] = IF lock[u] = p /\ u = t THEN NoHandler ELSE lock[u]
    BY <1>5, <1>h, <1>t DEF Commit, CommitDelete, Abort, EndTransaction, HistoryInv, LockInv, TypeOK
  <2>2. \A q \in Handlers : q # p => h'[q] = h[q]
    BY <2>1, <1>t DEF TypeOK
  <2>3. \A u \in Tools : life'[u] # life[u] => u = t /\ lock[t] = p
    BY <1>5, <1>h, <1>t DEF Commit, CommitDelete, Abort, HistoryInv, LockInv, TypeOK
  <2>4. h'[p] = Idle
    BY <2>1, <1>t DEF TypeOK
  <2>5. LockInv'
    <3>1. ASSUME NEW q \in Handlers, h'[q].pc = "commit" PROVE lock'[h'[q].tool] = q
      BY <3>1, <2>1, <2>2, <2>4, <1>i, <1>t DEF HistoryInv, LockInv, TypeOK
    <3>2. ASSUME NEW u \in Tools, lock'[u] # NoHandler PROVE life'[u] = "live"
      BY <3>2, <2>1, <2>3 DEF HistoryInv, LockInv
    <3> QED
      BY <3>1, <3>2 DEF LockInv
  <2>6. ContentInv'
    BY <2>2, <2>4, <1>i DEF HistoryInv, ContentInv
  <2>7. CASE Abort(p)
    BY <2>7, <1>t, <2>5, <2>6, HistoryUnchanged DEF Abort, HistoryInv
  <2>8. CASE CommitDelete(p)
    <3>1. \A u \in Tools : life'[u] \in {"live", "none"} =>
             u # t /\ row'[u] = row[u] /\ versions'[u] = versions[u] /\ life[u] = life'[u]
      BY <2>8, <1>h, <1>t DEF CommitDelete, TypeOK
    <3>2. RowInv' /\ VersionHistory'
      BY <3>1 DEF HistoryInv, RowInv, VersionHistory
    <3> QED
      BY <3>2, <1>t, <2>5, <2>6 DEF HistoryInv
  <2>9. CASE Commit(p)
    <3> DEFINE r == row[t]
               n == RowAfter(p)
    <3>1. lock[t] = p /\ life[t] = "live" /\ life' = life
      BY <2>9, <1>h, ConstantsOK DEF Commit, HistoryInv, LockInv
    <3>2. r \in Row /\ n \in Row /\ r.version >= 1 /\ versions[t] \in SUBSET Version
          /\ HistoryOf(r, versions[t])
      BY <3>1, <1>h, <1>t, NewRowType
         DEF HistoryInv, RowInv, VersionHistory, HistoryOf, RowAfter, TypeOK, HandlerType
    <3>3. row'[t] = n /\ \A u \in Tools : u # t => row'[u] = row[u] /\ versions'[u] = versions[u]
      BY <2>9, <1>h, <1>t DEF Commit, TypeOK
    <3>4. HistoryOf(n, versions'[t]) /\ n.version >= 1
      <4>1. CASE h[p].op \in Edits
        <5>1. n.version = r.version + 1 /\ n.kind = r.kind
          BY <4>1 DEF RowAfter, NewRow
        <5>2. versions'[t] = versions[t] \cup {Entry(n)}
          BY <2>9, <4>1, <1>h, <1>t DEF Commit, TypeOK
        <5> QED
          BY <3>2, <5>1, <5>2, EditExtendsHistory DEF Row
      <4>2. CASE h[p].op \notin Edits
        <5>1. n.code = r.code /\ n.enabled = r.enabled /\ n.version = r.version
              /\ n.kind = r.kind
          BY <4>2 DEF RowAfter, NewRow, Written, HistoryInv, ContentInv
        <5>2. versions'[t] = versions[t]
          BY <2>9, <4>2, <1>h, <1>t DEF Commit, TypeOK
        <5> QED
          BY <3>2, <5>1, <5>2 DEF HistoryOf, Entry
      <4> QED
        BY <4>1, <4>2
    <3>5. VersionHistory'
      BY <3>1, <3>3, <3>4 DEF HistoryInv, VersionHistory, HistoryOf
    <3>6. RowInv'
      BY <3>1, <3>3, <3>4 DEF HistoryInv, RowInv
    <3> QED
      BY <3>5, <3>6, <1>t, <2>5, <2>6 DEF HistoryInv
  <2> QED
    BY <1>5, <2>7, <2>8, <2>9
<1> QED
  BY <1>1, <1>2, <1>3, <1>4, <1>5 DEF Proceed

LEMMA HistoryNew ==
    ASSUME HistoryInv, NEW t \in Tools, NewSome(t)
    PROVE  HistoryInv'
<1>1. TypeOK /\ TypeOK'
  BY NewSomeType DEF HistoryInv
<1>2. PICK r \in Row, vs \in SUBSET Version :
         NewTool(t, r) /\ versions' = [versions EXCEPT ![t] = vs] /\ UNCHANGED <<lock, mode, h>>
         /\ r.version = 1 /\ HistoryOf(r, vs)
  <2>1. ASSUME NEW c \in Codes, NEW s \in {"draft", "pending_review"}, Create(t, c, s)
        PROVE  \E r \in Row, vs \in SUBSET Version :
                 NewTool(t, r) /\ versions' = [versions EXCEPT ![t] = vs]
                 /\ UNCHANGED <<lock, mode, h>> /\ r.version = 1 /\ HistoryOf(r, vs)
    <3> DEFINE r == [status |-> s, code |-> c, enabled |-> TRUE,
                     version |-> 1, kind |-> "python_code"]
               vs == {[number |-> 1, code |-> c, enabled |-> TRUE]}
    <3>1. r \in Row /\ vs \in SUBSET Version
      BY DEF Row, Version, MaybeCode, Statuses, Kinds
    <3>2. HistoryOf(r, vs)
      BY DEF HistoryOf, FirstEntry, Entry
    <3> QED
      BY <2>1, <3>1, <3>2 DEF Create
  <2>2. ASSUME NEW s \in {"draft", "approved"}, ImportTool(t, s)
        PROVE  \E r \in Row, vs \in SUBSET Version :
                 NewTool(t, r) /\ versions' = [versions EXCEPT ![t] = vs]
                 /\ UNCHANGED <<lock, mode, h>> /\ r.version = 1 /\ HistoryOf(r, vs)
    <3> DEFINE r == [status |-> s, code |-> NoCode, enabled |-> TRUE,
                     version |-> 1, kind |-> "mcp_passthrough"]
    <3>1. r \in Row
      BY DEF Row, MaybeCode, Statuses, Kinds
    <3>2. versions' = [versions EXCEPT ![t] = {}]
      BY <2>2, <1>1 DEF ImportTool, NewTool, HistoryInv, RowInv, TypeOK
    <3>3. HistoryOf(r, {})
      BY DEF HistoryOf, FirstEntry
    <3> QED
      BY <2>2, <3>1, <3>2, <3>3 DEF ImportTool
  <2> QED
    BY <2>1, <2>2 DEF NewSome
<1>3. /\ life[t] = "none" /\ life'[t] = "live" /\ row'[t] = r /\ versions'[t] = vs
      /\ \A u \in Tools : u # t => life'[u] = life[u] /\ row'[u] = row[u]
                                   /\ versions'[u] = versions[u]
  BY <1>1, <1>2 DEF NewTool, TypeOK
<1>4. LockInv' /\ ContentInv'
  BY <1>2, <1>3 DEF HistoryInv, LockInv, ContentInv
<1>5. RowInv'
  BY <1>2, <1>3 DEF HistoryInv, RowInv
<1>6. VersionHistory'
  BY <1>2, <1>3 DEF HistoryInv, VersionHistory, HistoryOf
<1> QED
  BY <1>1, <1>4, <1>5, <1>6 DEF HistoryInv

LEMMA HistoryStep == HistoryInv /\ [Next]_vars => HistoryInv'
<1> SUFFICES ASSUME HistoryInv, [Next]_vars PROVE HistoryInv'
  OBVIOUS
<1>1. CASE \E t \in Tools : NewSome(t)
  BY <1>1, HistoryNew
<1>2. CASE (\E m \in Modes : SetMode(m)) \/ UNCHANGED vars
  <2>1. UNCHANGED <<life, row, versions, lock, h>>
    BY <1>2 DEF SetMode, vars
  <2>2. TypeOK'
    BY TypeStep DEF HistoryInv
  <2> QED
    BY <2>1, <2>2, HistoryUnchanged DEF HistoryInv, LockInv, ContentInv
<1>3. CASE \E p \in Handlers, t \in Tools : BeginSome(p, t)
  BY <1>3, HistoryBegin
<1>4. CASE \E p \in Handlers : Proceed(p) \/ Abort(p)
  BY <1>4, HistoryProceed
<1> QED
  BY <1>1, <1>2, <1>3, <1>4 DEF Next

\* However updates and rollbacks overlap, a tool's history is complete and
\* its newest entry is the tool's state.
THEOREM HistoryCorrect == Spec => []VersionHistory
<1>1. HistoryInv => VersionHistory
  BY DEF HistoryInv
<1> QED
  BY <1>1, HistoryInit, HistoryStep, PTL DEF Spec
-----------------------------------------------------------------------------
(***************************************************************************)
(* Under require_approval only approve assigns the status approved, and a  *)
(* flush never writes back a status the handler merely loaded.             *)
(***************************************************************************)
AlwaysReview == Modes = {"require_approval"}

WantInv == AlwaysReview =>
    \A p \in Handlers : h[p].want.status = "approved" => h[p].op = "approve"

ApproverInv == TypeOK /\ WantInv

LEMMA WantInit == Init => WantInv
  BY DEF Init, WantInv, Idle

LEMMA WantStep == ApproverInv /\ [Next]_vars => WantInv'
<1> SUFFICES ASSUME ApproverInv, [Next]_vars, AlwaysReview, NEW q \in Handlers,
                    h'[q].want.status = "approved"
             PROVE  h'[q].op = "approve"
  BY DEF WantInv, AlwaysReview
<1>t. h \in [Handlers -> HandlerType] /\ mode = "require_approval"
  BY DEF ApproverInv, TypeOK, HandlerType, AlwaysReview
<1>q. CASE h'[q] = h[q]
  BY <1>q DEF ApproverInv, WantInv
<1>1. CASE (\E t \in Tools : NewSome(t)) \/ (\E m \in Modes : SetMode(m)) \/ UNCHANGED vars
  BY <1>1, <1>q DEF NewSome, Create, ImportTool, SetMode, vars
<1>2. ASSUME NEW p \in Handlers, NEW t \in Tools, BeginSome(p, t) PROVE h'[q].op = "approve"
  <2>1. ASSUME NEW op, NEW want, NEW pc, Begin(p, t, op, want, pc),
               want.status = "approved" => op = "approve"
        PROVE  h'[q].op = "approve"
    BY <2>1, <1>q, <1>t DEF Begin
  <2>2. CASE (\E c \in MaybeCode, e \in BOOLEAN : Update(p, t, c, e)) \/ Rollback(p, t)
             \/ RequestPublish(p, t) \/ Delete(p, t)
    BY <2>2, <2>1 DEF Update, Rollback, RequestPublish, Delete, Keep
  <2>3. CASE ApproveTool(p, t)
    BY <2>3, <2>1 DEF ApproveTool, Review
  <2>4. CASE RejectTool(p, t)
    BY <2>4, <2>1 DEF RejectTool, Review, Keep
  <2>5. CASE RevokeToolApproval(p, t)
    BY <2>5, <2>1 DEF RevokeToolApproval, Review, Keep
  <2> QED
    BY <1>2, <2>2, <2>3, <2>4, <2>5 DEF BeginSome, MaybeCode
<1>3. ASSUME NEW p \in Handlers, Proceed(p) \/ Abort(p) PROVE h'[q].op = "approve"
  <2>1. CASE h'[p] = Idle /\ h' = [h EXCEPT ![p] = Idle]
    BY <2>1, <1>q, <1>t DEF Idle
  <2>2. CASE \E v \in versions[h[p].tool] : PickVersion(p, v)
    BY <2>2, <1>q, <1>t DEF PickVersion, HandlerType
  <2>3. CASE GetApprovalMode(p)
    BY <2>3, <1>q, <1>t DEF GetApprovalMode, HandlerType, Want
  <2>4. CASE Flush(p)
    BY <2>4, <1>q, <1>t DEF Flush, HandlerType, ApproverInv, WantInv
  <2> QED
    BY <1>3, <1>t, <2>1, <2>2, <2>3, <2>4
       DEF Proceed, NoSuchVersion, RowGone, Commit, CommitDelete, EndTransaction, Abort
<1> QED
  BY <1>1, <1>2, <1>3 DEF Next

\* The only step that makes a live tool approved is the commit of an approve.
LEMMA ApprovalStep ==
    ASSUME ApproverInv, Next, NEW t \in Tools, StaysLive(t),
           row[t].status # "approved", row'[t].status = "approved"
    PROVE  \E p \in Handlers : ApprovedBy(p, t)
<1>t. TypeOK
  BY DEF ApproverInv
<1>r. row'[t] # row[t]
  OBVIOUS
<1>2. ~\E u \in Tools : NewSome(u)
  <2> SUFFICES ASSUME NEW u \in Tools, NewSome(u) PROVE FALSE
    OBVIOUS
  <2>1. PICK r : NewTool(u, r)
    BY DEF NewSome, Create, ImportTool
  <2> QED
    BY <2>1, <1>t, <1>r DEF NewTool, StaysLive, TypeOK
<1>3. PICK p \in Handlers : Commit(p) \/ CommitDelete(p)
  <2>1. CASE \E m \in Modes : SetMode(m)
    BY <2>1, <1>r DEF SetMode
  <2>2. CASE \E p \in Handlers, u \in Tools : BeginSome(p, u)
    <3>1. ASSUME NEW p, NEW u, NEW op, NEW want, NEW pc, Begin(p, u, op, want, pc)
          PROVE  FALSE
      BY <3>1, <1>r DEF Begin
    <3> QED
      BY <2>2, <3>1 DEF BeginSome, Update, Rollback, RequestPublish, ApproveTool,
         RejectTool, RevokeToolApproval, Review, Delete
  <2>3. ASSUME NEW p \in Handlers, Proceed(p) \/ Abort(p) PROVE Commit(p) \/ CommitDelete(p)
    <3>1. UNCHANGED row => FALSE
      BY <1>r
    <3> QED
      BY <2>3, <3>1 DEF Proceed, PickVersion, NoSuchVersion, GetApprovalMode, Flush, RowGone, Abort
  <2> QED
    BY <1>2, <2>1, <2>2, <2>3 DEF Next
<1>4. h[p].tool = t /\ h'[p] = Idle
  BY <1>3, <1>t, <1>r DEF Commit, CommitDelete, EndTransaction, TypeOK
<1>5. CASE Commit(p)
  <2>1. row'[t] = NewRow(row[t], h[p].seen, h[p].want, h[p].op)
    BY <1>5, <1>4, <1>t DEF Commit, RowAfter, TypeOK
  <2>2. h[p].want.status = "approved"
    BY <2>1 DEF NewRow, Written
  <2>3. AlwaysReview \/ "auto_approve" \in Modes
    BY ConstantsOK DEF AlwaysReview, AllModes
  <2>4. h[p].op = "approve" \/ "auto_approve" \in Modes
    BY <2>2, <2>3 DEF ApproverInv, WantInv
  <2> QED
    BY <2>2, <2>4, <1>4 DEF ApprovedBy
<1>6. CASE CommitDelete(p)
  BY <1>6, <1>4, <1>t DEF CommitDelete, StaysLive, TypeOK
<1> QED
  BY <1>3, <1>5, <1>6

\* No edit and no request to publish approves anything while every approval
\* is the admin's to give.
THEOREM ApprovalCorrect == Spec => OnlyApproveApproves
<1> DEFINE Good == \A t \in Tools :
                     (StaysLive(t) /\ row[t].status # "approved" /\ row'[t].status = "approved")
                     => \E p \in Handlers : ApprovedBy(p, t)
<1>1. Init => ApproverInv
  BY TypeInit, WantInit DEF ApproverInv
<1>2. ApproverInv /\ [Next]_vars => ApproverInv'
  BY TypeStep, WantStep DEF ApproverInv
<1>3. ApproverInv /\ [Next]_vars => [Good]_vars
  <2>1. ASSUME ApproverInv, Next PROVE Good
    BY <2>1, ApprovalStep
  <2> QED
    BY <2>1
<1> QED
  BY <1>1, <1>2, <1>3, PTL DEF Spec, OnlyApproveApproves
-----------------------------------------------------------------------------
(***************************************************************************)
(* When requests for one tool do not overlap, who works on a tool works on *)
(* the committed row and is alone; what it is about to write follows from  *)
(* the guard it passed.  The tool may have gone meanwhile, with its server *)
(* (ToolPublishing).                                                       *)
(***************************************************************************)
\* What the workflow calls the status of t, and where a tool goes for review.
StatusOf(t) == IF life[t] = "live" THEN row[t].status ELSE life[t]

ReviewQueue == Workflow!Queue

\* The handler state x is one the guard of its operation and the steps so far allow.
Warranted(x) ==
    /\ x.op \in AllOperations
    /\ x.op = "approve" =>
          x.seen.status \in {"pending_review", "draft", "rejected"} /\ x.want.status = "approved"
    /\ x.op = "reject" => x.seen.status = "pending_review" /\ x.want.status = "rejected"
    /\ x.op = "revoke" => x.seen.status = "approved" /\ x.want.status = "pending_review"
    /\ x.op = "request_publish" => x.seen.status \in {"draft", "rejected"}
    /\ x.op \in {"request_publish", "rollback"} =>
          /\ x.want.status \in ReviewQueue \cup {"unset"}
          /\ x.pc = "commit" => x.want.status # "unset"
    /\ x.op = "update" /\ x.want.code \in {NoCode, x.seen.code} =>
          x.want.status = "unset" /\ x.pc # "decide"
    /\ x.op = "update" /\ x.want.code \notin {NoCode, x.seen.code} =>
          /\ x.want.status \in ReviewQueue \cup {"unset"}
          /\ x.pc \in {"flush", "commit"} => x.want.status # "unset"
    /\ x.pc = "decide" => x.op \in {"update", "rollback", "request_publish"}
    /\ x.pc = "target" => x.op = "rollback" /\ x.want.status = "unset"

Alone ==
    \A p \in Handlers : h[p].pc # "idle" =>
        /\ life[h[p].tool] # "none"
        /\ life[h[p].tool] = "live" => h[p].seen = row[h[p].tool]
        /\ \A q \in Handlers : h[q].pc # "idle" /\ h[q].tool = h[p].tool => q = p
        /\ Warranted(h[p])

SerialInv == HistoryInv /\ (~Overlap => Alone)

LEMMA AloneInit == Init => Alone
  BY DEF Init, Alone, Idle

\* A handler that moves on without writing, or ends, leaves the others alone.
LEMMA AloneMove ==
    ASSUME TypeOK, Alone, NEW p \in Handlers, NEW x,
           h' = [h EXCEPT ![p] = x], UNCHANGED <<life, row>>, h[p].pc # "idle",
           \/ x.pc = "idle"
           \/ x.tool = h[p].tool /\ x.seen = h[p].seen /\ Warranted(x)
    PROVE  Alone'
<1>1. \A q \in Handlers : h'[q] = IF q = p THEN x ELSE h[q]
  BY DEF TypeOK
<1> SUFFICES ASSUME NEW q \in Handlers, h'[q].pc # "idle"
             PROVE  /\ life'[h'[q].tool] # "none"
                    /\ life'[h'[q].tool] = "live" => h'[q].seen = row'[h'[q].tool]
                    /\ \A s \in Handlers : h'[s].pc # "idle" /\ h'[s].tool = h'[q].tool => s = q
                    /\ Warranted(h'[q])
  BY DEF Alone
<1>2. /\ h[q].pc # "idle" /\ h'[q].tool = h[q].tool /\ h'[q].seen = h[q].seen
      /\ Warranted(h'[q])
  BY <1>1 DEF Alone
<1>3. \A s \in Handlers : h'[s].pc # "idle" => h[s].pc # "idle" /\ h'[s].tool = h[s].tool
  BY <1>1
<1> QED
  BY <1>2, <1>3 DEF Alone

\* A request begins on a tool nobody works on, with what its guard allows.
LEMMA AloneBegin ==
    ASSUME TypeOK, Alone, NEW p \in Handlers, NEW t \in Tools, OnTool(t) = {},
           NEW op, NEW want, NEW pc, Begin(p, t, op, want, pc),
           Warranted([pc |-> pc, op |-> op, tool |-> t, seen |-> row[t], want |-> want])
    PROVE  Alone'
<1> DEFINE x == [pc |-> pc, op |-> op, tool |-> t, seen |-> row[t], want |-> want]
<1>1. /\ \A q \in Handlers : h'[q] = IF q = p THEN x ELSE h[q]
      /\ UNCHANGED <<life, row>> /\ life[t] = "live"
  BY DEF Begin, TypeOK
<1>2. \A q \in Handlers : h[q].pc # "idle" => h[q].tool # t
  BY DEF OnTool
<1>3. x.tool = t /\ x.seen = row[t] /\ Warranted(x)
  OBVIOUS
<1> HIDE DEF x
<1> SUFFICES ASSUME NEW q \in Handlers, h'[q].pc # "idle"
             PROVE  /\ life'[h'[q].tool] # "none"
                    /\ life'[h'[q].tool] = "live" => h'[q].seen = row'[h'[q].tool]
                    /\ \A s \in Handlers : h'[s].pc # "idle" /\ h'[s].tool = h'[q].tool => s = q
                    /\ Warranted(h'[q])
  BY DEF Alone
<1>4. CASE q = p
  BY <1>1, <1>2, <1>3, <1>4
<1>5. CASE q # p
  BY <1>1, <1>2, <1>3, <1>5 DEF Alone
<1> QED
  BY <1>4, <1>5

LEMMA AloneBeginSome ==
    ASSUME TypeOK, Alone, NEW p \in Handlers, NEW t \in Tools, OnTool(t) = {}, BeginSome(p, t)
    PROVE  Alone'
<1>r. row[t] \in Row
  BY DEF TypeOK
<1> DEFINE x(op, want, pc) ==
             [pc |-> pc, op |-> op, tool |-> t, seen |-> row[t], want |-> want]
<1>1. ASSUME NEW c \in MaybeCode, NEW e \in BOOLEAN, Update(p, t, c, e)
      PROVE  Alone'
  <2> DEFINE want == [status |-> "unset", code |-> c, enabled |-> e]
             pc == IF c # NoCode /\ c # row[t].code THEN "decide" ELSE "flush"
  <2>1. Warranted(x("update", want, pc))
    BY DEF Warranted, AllOperations, Edits
  <2> QED
    BY <1>1, <2>1, AloneBegin DEF Update
<1>2. CASE Rollback(p, t)
  <2>1. Warranted(x("rollback", Keep(row[t]), "target"))
    BY DEF Warranted, AllOperations, Edits, Keep
  <2> QED
    BY <1>2, <2>1, AloneBegin DEF Rollback
<1>3. CASE RequestPublish(p, t)
  <2>1. Warranted(x("request_publish", Keep(row[t]), "flush"))
    BY <1>3 DEF RequestPublish, Warranted, AllOperations, Reviews, Keep
  <2> QED
    BY <1>3, <2>1, AloneBegin DEF RequestPublish
<1>4. ASSUME NEW op \in Reviews, NEW from, NEW to, Review(p, t, op, from, to),
             op = "approve" => from = {"pending_review", "draft", "rejected"} /\ to = "approved",
             op = "reject" => from = {"pending_review"} /\ to = "rejected",
             op = "revoke" => from = {"approved"} /\ to = "pending_review",
             op # "request_publish"
      PROVE  Alone'
  <2> DEFINE want == [Keep(row[t]) EXCEPT !.status = to]
  <2>1. want.status = to
    BY DEF Keep
  <2>2. row[t].status \in from /\ Begin(p, t, op, want, "flush")
    BY <1>4 DEF Review
  <2> HIDE DEF want
  <2>3. Warranted(x(op, want, "flush"))
    BY <1>4, <2>1, <2>2 DEF Warranted, AllOperations, Reviews
  <2> QED
    BY <2>2, <2>3, AloneBegin
<1>5. CASE Delete(p, t)
  <2>1. Warranted(x("delete", Keep(row[t]), "flush"))
    BY DEF Warranted, AllOperations
  <2> QED
    BY <1>5, <2>1, AloneBegin DEF Delete
<1>6. CASE ApproveTool(p, t) \/ RejectTool(p, t) \/ RevokeToolApproval(p, t)
  BY <1>4, <1>6 DEF ApproveTool, RejectTool, RevokeToolApproval, Reviews
<1> QED
  BY <1>1, <1>2, <1>3, <1>5, <1>6 DEF BeginSome, MaybeCode

LEMMA AloneProceed ==
    ASSUME TypeOK, HistoryInv, Alone, NEW p \in Handlers, Proceed(p) \/ Abort(p)
    PROVE  Alone'
<1> DEFINE t == h[p].tool
           y == h[p]
<1>h. y \in HandlerType /\ t \in Tools
  BY DEF TypeOK, HandlerType
<1>i. Idle.pc = "idle"
  BY DEF Idle
<1>w. y.pc # "idle" => Warranted(y)
  BY DEF Alone
<1>1. ASSUME NEW v \in versions[t], PickVersion(p, v) PROVE Alone'
  <2> DEFINE pc == IF v.code # y.seen.code \/ v.enabled # y.seen.enabled
                   THEN "flush" ELSE "decide"
             x == [pc |-> pc, op |-> y.op, tool |-> t, seen |-> y.seen,
                   want |-> [status |-> "unset", code |-> v.code, enabled |-> v.enabled]]
  <2>1. h' = [h EXCEPT ![p] = x]
    BY <1>1, <1>h DEF PickVersion, TypeOK, HandlerType
  <2>2. y.pc = "target" /\ UNCHANGED <<life, row>>
    BY <1>1 DEF PickVersion
  <2>3. Warranted(x)
    BY <1>w, <2>2 DEF Warranted
  <2> QED
    BY <2>1, <2>2, <2>3, AloneMove
<1>2. CASE GetApprovalMode(p)
  <2> DEFINE s == IF mode = "auto_approve" THEN "approved" ELSE "pending_review"
             pc == IF lock[t] = p THEN "commit" ELSE "flush"
             x == [pc |-> pc, op |-> y.op, tool |-> t, seen |-> y.seen,
                   want |-> [status |-> s, code |-> y.want.code, enabled |-> y.want.enabled]]
  <2>1. h' = [h EXCEPT ![p] = x]
    BY <1>2, <1>h DEF GetApprovalMode, TypeOK, HandlerType, Want
  <2>2. y.pc = "decide" /\ UNCHANGED <<life, row>>
    BY <1>2 DEF GetApprovalMode
  <2>3. s \in ReviewQueue
    BY DEF ReviewQueue, Workflow!Queue, TypeOK
  <2>4. Warranted(x)
    <3> HIDE DEF s
    <3> QED
      BY <1>w, <2>2, <2>3 DEF Warranted, ReviewQueue, Workflow!Queue
  <2> QED
    BY <2>1, <2>2, <2>4, AloneMove
<1>3. CASE Flush(p)
  <2> DEFINE pc == IF Undecided(p) THEN "decide" ELSE "commit"
             x == [y EXCEPT !.pc = pc]
  <2>1. h' = [h EXCEPT ![p] = x]
    BY <1>3, <1>h DEF Flush, TypeOK, HandlerType
  <2>2. y.pc = "flush" /\ UNCHANGED <<life, row>>
    BY <1>3 DEF Flush
  <2>3. /\ x.pc = pc /\ x.op = y.op /\ x.tool = t /\ x.seen = y.seen /\ x.want = y.want
        /\ pc = "commit" => ~Undecided(p)
        /\ pc \in {"decide", "commit"} /\ (pc = "decide" => Undecided(p))
    BY <1>h DEF HandlerType
  <2> HIDE DEF x, pc
  <2>4. Warranted(x)
    BY <1>w, <2>2, <2>3 DEF Warranted, Undecided
  <2> QED
    BY <2>1, <2>2, <2>3, <2>4, AloneMove
<1>4. CASE NoSuchVersion(p) \/ RowGone(p) \/ Abort(p)
  <2>1. y.pc # "idle" /\ h' = [h EXCEPT ![p] = Idle] /\ UNCHANGED <<life, row>>
    BY <1>4 DEF NoSuchVersion, RowGone, Abort
  <2> QED
    BY <2>1, <1>i, AloneMove
<1>5. CASE Commit(p) \/ CommitDelete(p)
  <2>1. /\ y.pc # "idle"
        /\ \A q \in Handlers : h'[q] = IF q = p THEN Idle ELSE h[q]
        /\ \A u \in Tools : u # t => row'[u] = row[u] /\ life'[u] = life[u]
    BY <1>5, <1>h DEF Commit, CommitDelete, EndTransaction, TypeOK
  <2> SUFFICES ASSUME NEW q \in Handlers, h'[q].pc # "idle"
               PROVE  /\ life'[h'[q].tool] # "none"
                      /\ life'[h'[q].tool] = "live" => h'[q].seen = row'[h'[q].tool]
                      /\ \A s \in Handlers :
                            h'[s].pc # "idle" /\ h'[s].tool = h'[q].tool => s = q
                      /\ Warranted(h'[q])
    BY DEF Alone
  <2>2. q # p /\ h'[q] = h[q] /\ h[q].tool \in Tools /\ h[q].pc # "idle"
    BY <2>1, <1>i DEF TypeOK
  <2>3. h[q].tool # t
    BY <2>1, <2>2 DEF Alone
  <2>4. \A s \in Handlers : h'[s].pc # "idle" => h'[s] = h[s] /\ h[s].pc # "idle"
    BY <2>1, <1>i
  <2> QED
    BY <2>1, <2>2, <2>3, <2>4 DEF Alone
<1> QED
  BY <1>1, <1>2, <1>3, <1>4, <1>5 DEF Proceed

\* A step of the handlers in which no request begins on a tool another one is about.
LoneNext ==
    \/ \E t \in Tools : NewSome(t)
    \/ \E m \in Modes : SetMode(m)
    \/ \E p \in Handlers, t \in Tools : OnTool(t) = {} /\ BeginSome(p, t)
    \/ \E p \in Handlers : Proceed(p)
    \/ \E p \in Handlers : Abort(p)

LEMMA BeginsAlone ==
    ASSUME ~Overlap, NEW p \in Handlers, NEW t \in Tools, BeginSome(p, t)
    PROVE  OnTool(t) = {}
  BY DEF BeginSome, Update, Rollback, RequestPublish, ApproveTool, RejectTool,
         RevokeToolApproval, Review, Delete, Begin

LEMMA AloneStep == HistoryInv /\ Alone /\ [LoneNext]_vars => Alone'
<1> SUFFICES ASSUME HistoryInv, Alone, [LoneNext]_vars PROVE Alone'
  OBVIOUS
<1>t. TypeOK
  BY DEF HistoryInv
<1>1. ASSUME NEW t \in Tools, NewSome(t) PROVE Alone'
  <2>1. /\ life[t] = "none" /\ UNCHANGED h
        /\ \A u \in Tools : u # t => row'[u] = row[u] /\ life'[u] = life[u]
    BY <1>1, <1>t DEF NewSome, Create, ImportTool, NewTool, TypeOK
  <2>2. \A q \in Handlers : h[q].pc # "idle" => h[q].tool # t /\ h[q].tool \in Tools
    BY <1>t, <2>1 DEF Alone, TypeOK
  <2> QED
    BY <1>t, <2>1, <2>2 DEF Alone
<1>2. CASE (\E m \in Modes : SetMode(m)) \/ UNCHANGED vars
  <2>1. UNCHANGED <<life, row, h>>
    BY <1>2 DEF SetMode, vars
  <2> QED
    BY <1>t, <2>1 DEF Alone
<1>3. CASE \E p \in Handlers, t \in Tools : OnTool(t) = {} /\ BeginSome(p, t)
  BY <1>3, <1>t, AloneBeginSome
<1>4. CASE \E p \in Handlers : Proceed(p) \/ Abort(p)
  BY <1>4, <1>t, AloneProceed
<1> QED
  BY <1>1, <1>2, <1>3, <1>4 DEF LoneNext

LEMMA SerialStep == SerialInv /\ [Next]_vars => SerialInv'
<1> SUFFICES ASSUME SerialInv, [Next]_vars, ~Overlap PROVE Alone'
  BY HistoryStep DEF SerialInv
<1>1. [LoneNext]_vars
  BY BeginsAlone DEF Next, LoneNext
<1> QED
  BY <1>1, AloneStep DEF SerialInv
-----------------------------------------------------------------------------
(***************************************************************************)
(* The refinement: every step of the handlers is a step of the workflow or *)
(* leaves the workflow's variables alone.  Only the commit of a request is *)
(* a step of the workflow's.                                               *)
(***************************************************************************)
\* The workflow's variables, as this module's state gives them.
AbstractStatus == [t \in Tools |-> StatusOf(t)]
AbstractCode == [t \in Tools |-> row[t].code]

\* A step that leaves the rows and lives alone is none of the workflow's.
LEMMA WorkflowStutter ==
    ASSUME UNCHANGED <<life, row>>
    PROVE  UNCHANGED Workflow!wvars
  BY DEF Workflow!wvars

\* What one step does to the tool it writes and to the others.
LEMMA AbstractStep ==
    ASSUME TypeOK, NEW t \in Tools, NEW l \in {"live", "deleted"}, NEW r,
           life' = [life EXCEPT ![t] = l], row' = [row EXCEPT ![t] = r]
    PROVE  /\ AbstractStatus' = [AbstractStatus EXCEPT
                                   ![t] = IF l = "live" THEN r.status ELSE "deleted"]
           /\ AbstractCode' = [AbstractCode EXCEPT ![t] = r.code]
<1>1. /\ life'[t] = l /\ row'[t] = r
      /\ \A u \in Tools : u # t => life'[u] = life[u] /\ row'[u] = row[u]
  BY DEF TypeOK
<1> DEFINE s == IF l = "live" THEN r.status ELSE "deleted"
<1>2. AbstractStatus' = [AbstractStatus EXCEPT ![t] = s]
  <2>1. AbstractStatus' = [u \in Tools |-> IF life'[u] = "live" THEN row'[u].status ELSE life'[u]]
    BY DEF AbstractStatus, StatusOf
  <2>2. [AbstractStatus EXCEPT ![t] = s] =
          [u \in Tools |-> IF u = t THEN s
                           ELSE IF life[u] = "live" THEN row[u].status ELSE life[u]]
    BY DEF AbstractStatus, StatusOf
  <2> QED
    BY <1>1, <2>1, <2>2
<1>3. AbstractCode' = [AbstractCode EXCEPT ![t] = r.code]
  <2>1. AbstractCode' = [u \in Tools |-> row'[u].code]
    BY DEF AbstractCode
  <2>2. [AbstractCode EXCEPT ![t] = r.code] =
          [u \in Tools |-> IF u = t THEN r.code ELSE row[u].code]
    BY DEF AbstractCode
  <2> QED
    BY <1>1, <2>1, <2>2
<1> QED
  BY <1>2, <1>3

LEMMA WorkflowAppear ==
    ASSUME TypeOK, NEW t \in Tools, NewSome(t)
    PROVE  Workflow!WNext
<1>1. PICK r \in Row :
         /\ NewTool(t, r) /\ r.status \in {"draft", "pending_review", "approved"}
         /\ r.status = "approved" => r.code = NoCode
  <2>1. ASSUME NEW c \in Codes, NEW s \in {"draft", "pending_review"}, Create(t, c, s)
        PROVE  \E r \in Row : NewTool(t, r) /\ r.status = s
    <3> DEFINE r == [status |-> s, code |-> c, enabled |-> TRUE,
                     version |-> 1, kind |-> "python_code"]
    <3>1. r \in Row /\ r.status = s
      BY DEF Row, MaybeCode, Statuses, Kinds
    <3>2. NewTool(t, r)
      BY <2>1 DEF Create
    <3> QED
      BY <3>1, <3>2
  <2>2. ASSUME NEW s \in {"draft", "approved"}, ImportTool(t, s)
        PROVE  \E r \in Row : NewTool(t, r) /\ r.status = s /\ r.code = NoCode
    <3> DEFINE r == [status |-> s, code |-> NoCode, enabled |-> TRUE,
                     version |-> 1, kind |-> "mcp_passthrough"]
    <3>1. r \in Row /\ r.status = s /\ r.code = NoCode
      BY DEF Row, MaybeCode, Statuses, Kinds
    <3>2. NewTool(t, r)
      BY <2>2 DEF ImportTool
    <3> QED
      BY <3>1, <3>2
  <2> QED
    BY <2>1, <2>2 DEF NewSome
<1>2. /\ AbstractStatus[t] = "none"
      /\ AbstractStatus' = [AbstractStatus EXCEPT ![t] = r.status]
      /\ AbstractCode' = [AbstractCode EXCEPT ![t] = r.code]
  BY <1>1, AbstractStep DEF NewTool, AbstractStatus, StatusOf
<1>3. r.code \in Codes \cup {NoCode}
  BY DEF Row, MaybeCode
<1>4. Workflow!Appear(t, r.code, r.status)
  BY <1>1, <1>2 DEF Workflow!Appear, AbstractStatus, AbstractCode, StatusOf
<1> QED
  BY <1>1, <1>3, <1>4 DEF Workflow!WNext

\* What the commit of p leaves of the row, when p was alone on it: the status it
\* decided on, if any, and the code it asked for.
LEMMA AloneRow ==
    ASSUME HistoryInv, Alone, NEW p \in Handlers, Commit(p)
    PROVE  /\ h[p].tool \in Tools /\ life[h[p].tool] = "live" /\ row[h[p].tool] \in Row
           /\ row' = [row EXCEPT ![h[p].tool] = RowAfter(p)] /\ RowAfter(p) \in Row
           /\ RowAfter(p).code = h[p].want.code
           /\ RowAfter(p).status = IF h[p].want.status = "unset" THEN row[h[p].tool].status
                                   ELSE h[p].want.status
           /\ h[p].op \notin Edits => h[p].want.code = row[h[p].tool].code
           /\ h[p].seen = row[h[p].tool] /\ h[p].want.code \in MaybeCode
           /\ h[p].pc = "commit" /\ h[p].op # "delete" /\ Warranted(h[p])
<1>1. h[p].pc = "commit" /\ h[p].op # "delete" /\ row' = [row EXCEPT ![h[p].tool] = RowAfter(p)]
  BY DEF Commit
<1>2. h[p] \in HandlerType /\ row \in [Tools -> Row] /\ ContentInv /\ Alone
  BY DEF HistoryInv, TypeOK, HandlerType
<1>3. h[p].tool \in Tools /\ row[h[p].tool] \in Row /\ h[p].want.code \in MaybeCode
  BY <1>2 DEF HandlerType, Want
<1>4. life[h[p].tool] = "live"
  BY <1>1, <1>3, ConstantsOK DEF HistoryInv, LockInv
<1>5. h[p].seen = row[h[p].tool] /\ Warranted(h[p])
  BY <1>1, <1>2, <1>4 DEF Alone
<1>6. h[p].op \notin Edits => h[p].want.code = row[h[p].tool].code
  BY <1>2, <1>5 DEF ContentInv
<1>7. /\ RowAfter(p).code = h[p].want.code
      /\ RowAfter(p).status = IF h[p].want.status = "unset" THEN row[h[p].tool].status
                              ELSE h[p].want.status
  BY <1>5 DEF RowAfter, NewRow, Written
<1>8. RowAfter(p) \in Row
  BY <1>2, <1>3, NewRowType DEF RowAfter, HandlerType
<1> QED
  BY <1>1, <1>5, <1>3, <1>6, <1>7, <1>8, <1>4

LEMMA WorkflowCommit ==
    ASSUME SerialInv, ~Overlap, NEW p \in Handlers, Commit(p),
           NEW t \in Tools, t = h[p].tool
    PROVE  [Workflow!WNext]_Workflow!wvars
<1> DEFINE x == h[p]
<1>1. TypeOK
  BY DEF SerialInv, HistoryInv
<1>2. PICK r \in Row, n \in Row, c \in MaybeCode :
        /\ r = row[t] /\ n = RowAfter(p) /\ c = n.code
        /\ life[t] = "live" /\ life' = life
        /\ row' = [row EXCEPT ![t] = n] /\ c = x.want.code
        /\ n.status = IF x.want.status = "unset" THEN r.status ELSE x.want.status
        /\ x.op \notin Edits => c = r.code
        /\ x.seen = r /\ x.pc = "commit" /\ x.op # "delete" /\ Warranted(x)
  BY AloneRow DEF Commit, SerialInv
<1>3. life' = [life EXCEPT ![t] = "live"] /\ row' = [row EXCEPT ![t] = n] /\ n.code = c
  BY <1>1, <1>2 DEF TypeOK
<1>4. /\ AbstractStatus' = [AbstractStatus EXCEPT ![t] = n.status]
      /\ AbstractCode' = [AbstractCode EXCEPT ![t] = c]
  BY <1>1, <1>3, AbstractStep
<1>5. /\ AbstractStatus[t] = r.status /\ AbstractCode[t] = r.code
      /\ AbstractStatus = [AbstractStatus EXCEPT ![t] = r.status]
      /\ AbstractCode = [AbstractCode EXCEPT ![t] = r.code]
  BY <1>2 DEF AbstractStatus, AbstractCode, StatusOf
<1>6. r.status \in Statuses /\ Workflow!Queue = ReviewQueue
  BY <1>2 DEF Row, ReviewQueue, Workflow!Queue
<1> HIDE DEF x
<1>e. Workflow!Exists(t)
  BY <1>5, <1>6 DEF Workflow!Exists, Workflow!NotATool, Statuses, AbstractStatus, StatusOf
<1>7. CASE x.op \in Reviews
  <2>1. AbstractCode' = AbstractCode /\ x.want.status \in Statuses
    BY <1>2, <1>4, <1>5, <1>7 DEF Edits, Reviews, Warranted, ReviewQueue, Workflow!Queue, Statuses
  <2>2. AbstractStatus' = [AbstractStatus EXCEPT ![t] = x.want.status]
    BY <1>2, <1>4, <2>1 DEF Statuses
  <2>3. \/ r.status \in {"draft", "rejected"} /\ x.want.status \in ReviewQueue
        \/ r.status \in {"pending_review", "draft", "rejected"} /\ x.want.status = "approved"
        \/ r.status = "pending_review" /\ x.want.status = "rejected"
        \/ r.status = "approved" /\ x.want.status = "pending_review"
    BY <1>2, <1>7 DEF Reviews, Warranted
  <2>4. \/ Workflow!Submit(t) \/ Workflow!ApproveTool(t)
        \/ Workflow!RejectTool(t) \/ Workflow!RevokeApproval(t)
    BY <1>5, <1>6, <2>1, <2>2, <2>3
       DEF Workflow!Submit, Workflow!ApproveTool, Workflow!RejectTool,
           Workflow!RevokeApproval, Workflow!OpenForApproval, Workflow!MoveTo,
           AbstractStatus, AbstractCode, StatusOf
  <2> QED
    BY <2>4 DEF Workflow!WNext
<1>8. CASE x.want.status = "unset" /\ x.op \notin Reviews
  <2>1. n.status = r.status /\ c \in {NoCode, r.code}
    BY <1>2, <1>8 DEF Warranted, AllOperations, Edits
  <2>2. AbstractStatus' = AbstractStatus
    BY <1>4, <1>5, <2>1
  <2>3. CASE c = r.code
    BY <1>4, <1>5, <2>2, <2>3 DEF Workflow!wvars, AbstractStatus, AbstractCode, StatusOf
  <2>4. CASE c = NoCode
    <3>1. Workflow!ClearCode(t)
      BY <1>4, <1>e, <2>2, <2>4 DEF Workflow!ClearCode, AbstractStatus, AbstractCode, StatusOf
    <3> QED
      BY <3>1 DEF Workflow!WNext
  <2> QED
    BY <2>1, <2>3, <2>4
<1>9. CASE x.want.status # "unset" /\ x.op \notin Reviews
  <2>1. n.status \in ReviewQueue
    BY <1>2, <1>9 DEF Warranted, AllOperations, Edits
  <2>2. Workflow!ChangeCode(t, c)
    BY <1>4, <1>6, <1>e, <2>1 DEF Workflow!ChangeCode, AbstractStatus, AbstractCode, StatusOf
  <2> QED
    BY <2>2 DEF Workflow!WNext, MaybeCode
<1> QED
  BY <1>7, <1>8, <1>9

LEMMA WorkflowRemove ==
    ASSUME SerialInv, ~Overlap, NEW p \in Handlers, CommitDelete(p),
           NEW t \in Tools, t = h[p].tool
    PROVE  Workflow!WNext
<1>1. TypeOK /\ LockInv
  BY DEF SerialInv, HistoryInv
<1>2. /\ life[t] = "live" /\ row[t] \in Row
      /\ life' = [life EXCEPT ![t] = "deleted"] /\ row' = [row EXCEPT ![t] = NoRow]
  BY <1>1, ConstantsOK DEF LockInv, CommitDelete, TypeOK
<1>3. NoRow.code = NoCode
  BY DEF NoRow
<1>4. /\ AbstractStatus' = [AbstractStatus EXCEPT ![t] = "deleted"]
      /\ AbstractCode' = [AbstractCode EXCEPT ![t] = NoCode]
  BY <1>1, <1>2, <1>3, AbstractStep
<1>5. Workflow!Exists(t)
  BY <1>2 DEF Workflow!Exists, Workflow!NotATool, Row, Statuses
<1>6. Workflow!Remove(t)
  BY <1>4, <1>5 DEF Workflow!Remove, AbstractStatus, AbstractCode, StatusOf
<1> QED
  BY <1>6 DEF Workflow!WNext

LEMMA WorkflowStep ==
    ASSUME SerialInv, ~Overlap, [Next]_vars
    PROVE  [Workflow!WNext]_Workflow!wvars
<1>1. CASE \E t \in Tools : NewSome(t)
  BY <1>1, WorkflowAppear DEF SerialInv, HistoryInv
<1>2. CASE \E p \in Handlers : Commit(p) \/ CommitDelete(p)
  <2>1. PICK p \in Handlers : Commit(p) \/ CommitDelete(p)
    BY <1>2
  <2>2. PICK t \in Tools : t = h[p].tool
    BY DEF SerialInv, HistoryInv, TypeOK
  <2> QED
    BY <2>1, <2>2, WorkflowCommit, WorkflowRemove
<1>3. CASE UNCHANGED <<life, row>>
  BY <1>3, WorkflowStutter
<1>4. ASSUME NEW p \in Handlers, NEW t \in Tools, BeginSome(p, t) PROVE UNCHANGED <<life, row>>
  BY <1>4 DEF BeginSome, Update, Rollback, RequestPublish, ApproveTool, RejectTool,
     RevokeToolApproval, Review, Delete, Begin
<1>5. ASSUME NEW p \in Handlers, Proceed(p) \/ Abort(p), ~Commit(p), ~CommitDelete(p)
      PROVE  UNCHANGED <<life, row>>
  BY <1>5 DEF Proceed, PickVersion, NoSuchVersion, GetApprovalMode, Flush, RowGone, Abort
<1>6. CASE (\E m \in Modes : SetMode(m)) \/ UNCHANGED vars
  BY <1>3, <1>6 DEF SetMode, vars
<1> QED
  BY <1>1, <1>2, <1>3, <1>4, <1>5, <1>6 DEF Next

\* When the requests for one tool do not overlap, every behaviour of the
\* handlers is one of the workflow the documentation draws: no status is skipped,
\* and no code changes under an approval.
THEOREM WorkflowCorrect == ~Overlap => (Spec => ImplementsWorkflow)
<1> SUFFICES ASSUME ~Overlap PROVE Spec => Workflow!Spec
  BY DEF ImplementsWorkflow
<1>1. Init => SerialInv /\ Workflow!WInit
  <2>1. Init => SerialInv
    BY HistoryInit, AloneInit DEF SerialInv
  <2>2. Init => Workflow!WInit
    BY DEF Init, NoRow, Workflow!WInit
  <2> QED
    BY <2>1, <2>2
<1>2. SerialInv /\ [Next]_vars => SerialInv' /\ [Workflow!WNext]_Workflow!wvars
  BY SerialStep, WorkflowStep
<1> QED
  BY <1>1, <1>2, PTL DEF Spec, Workflow!Spec

\* Then, too, a change of the code of an approved tool takes the approval away
\* (SEC-001): the counterexample of overlapping requests is the only kind there is.
THEOREM ResetCorrect == ~Overlap => (Spec => CodeChangeResetsApproval)
<1> DEFINE Reset == \A t \in Tools :
             (Modes = {"require_approval"} /\ StaysLive(t)
                /\ row[t].status = "approved" /\ row'[t].code \notin {row[t].code, NoCode})
             => row'[t].status # "approved"
<1> SUFFICES ASSUME ~Overlap PROVE Spec => CodeChangeResetsApproval
  OBVIOUS
<1>1. Init => SerialInv
  BY HistoryInit, AloneInit DEF SerialInv
<1>2. SerialInv /\ [Next]_vars => [Reset]_vars
  <2> SUFFICES ASSUME SerialInv, Next, NEW t \in Tools, Modes = {"require_approval"},
                      StaysLive(t), row'[t].code \notin {row[t].code, NoCode}
               PROVE  row'[t].status # "approved"
    OBVIOUS
  <2>t. TypeOK
    BY DEF SerialInv, HistoryInv
  <2>1. CASE \E u \in Tools : NewSome(u)
    <3>1. PICK u, r : NewTool(u, r)
      BY <2>1 DEF NewSome, Create, ImportTool
    <3> QED
      BY <3>1, <2>t DEF NewTool, StaysLive, TypeOK
  <2>2. ASSUME NEW p \in Handlers, Commit(p) PROVE row'[t].status # "approved"
    <3>1. h[p].tool = t
      BY <2>2, <2>t DEF Commit, TypeOK
    <3>2. /\ row'[t].code = h[p].want.code /\ h[p].seen = row[t]
          /\ row'[t].status = IF h[p].want.status = "unset" THEN row[t].status ELSE h[p].want.status
          /\ h[p].op \in Edits /\ h[p].pc = "commit" /\ Warranted(h[p])
      BY <2>2, <3>1, <2>t, AloneRow DEF TypeOK, SerialInv
    <3>3. h[p].want.status = "pending_review"
      BY <3>2 DEF Warranted, ReviewQueue, Workflow!Queue, Edits
    <3> QED
      BY <3>2, <3>3
  <2>3. ASSUME NEW p \in Handlers, CommitDelete(p) PROVE FALSE
    BY <2>3, <2>t DEF CommitDelete, StaysLive, TypeOK
  <2>4. CASE UNCHANGED row
    BY <2>4
  <2>5. ASSUME NEW p \in Handlers, NEW u \in Tools, BeginSome(p, u) PROVE UNCHANGED row
    BY <2>5 DEF BeginSome, Update, Rollback, RequestPublish, ApproveTool, RejectTool,
       RevokeToolApproval, Review, Delete, Begin
  <2>6. ASSUME NEW p \in Handlers, Proceed(p) \/ Abort(p), ~Commit(p), ~CommitDelete(p)
        PROVE  UNCHANGED row
    BY <2>6 DEF Proceed, PickVersion, NoSuchVersion, GetApprovalMode, Flush, RowGone, Abort
  <2>7. CASE \E m \in Modes : SetMode(m)
    BY <2>7, <2>4 DEF SetMode
  <2> QED
    BY <2>1, <2>2, <2>3, <2>4, <2>5, <2>6, <2>7 DEF Next
<1> QED
  BY <1>1, <1>2, SerialStep, PTL DEF Spec, CodeChangeResetsApproval
=============================================================================
