----------------------- MODULE AccessRequests_proofs -----------------------
(***************************************************************************)
(* Proofs about AccessRequests, for any sets of request ids, tools,        *)
(* handlers, hosts and packages, for both tables and any overlap.          *)
(***************************************************************************)
EXTENDS AccessRequests, TLAPS

-----------------------------------------------------------------------------
(* Typing: the rows, what a handler is about to write, and who holds which *)
(* lock.                                                                   *)

Pcs == {"idle", "flush", "write", "commit"}

RowsOver(res) ==
    {Unused, Deleted}
    \cup [status : {"pending", "approved", "rejected"}, res : res, tool : Tools \cup {Admin}]

\* The sets of rows a handler may be about to write.
ChangesOver(res) == UNION {[S -> RowsOver(res)] : S \in SUBSET Ids}

HandlersOver(res) ==
    [pc : Pcs, change : ChangesOver(res), syncs : BOOLEAN, loaded : SUBSET AllResources,
     entries : SUBSET AllResources, wrote : BOOLEAN, alone : BOOLEAN]

TypeInv ==
    /\ kind \in Kinds
    /\ tools \subseteq Tools
    /\ requests \in [Ids -> RowsOver(Resources)]
    /\ cache \subseteq AllResources
    /\ rowLock \in [Ids -> Handlers \cup {NoHandler}]
    /\ cacheLock \in Handlers \cup {NoHandler}
    /\ h \in [Handlers -> HandlersOver(Resources)]

Flushed(p) == h[p].pc \in {"write", "commit"}

\* Who has flushed holds the rows it writes, and nobody else holds one.
LockInv ==
    /\ \A p \in Handlers, i \in Ids :
          rowLock[i] = p <=> Flushed(p) /\ i \in DOMAIN h[p].change
    /\ \A p \in Handlers : cacheLock = p => h[p].pc = "commit" /\ h[p].wrote

\* Every row refers to a tool that is there, also once a flushed one is committed.
ForeignInv ==
    /\ \A i \in Ids : Exists(requests[i]) => requests[i].tool \in tools \cup {Admin}
    /\ \A p \in Handlers : Flushed(p) => \A i \in DOMAIN h[p].change :
          Exists(h[p].change[i]) => h[p].change[i].tool \in tools \cup {Admin}

-----------------------------------------------------------------------------
(* Where what the list holds comes from.                                   *)

\* The resources the handler's own rows approve.
Approves(p) == {h[p].change[i].res : i \in {j \in DOMAIN h[p].change : h[p].change[j].status = "approved"}}

From(es, rs) == \A e \in es : \E r \in rs : e \in Entries(kind, {r})

SourceInv ==
    /\ Approved(requests) \subseteq everApproved
    /\ From(cache, everApproved)
    /\ \A p \in Handlers : From(h[p].entries, everApproved \cup Approves(p))

\* The list is the one p loaded, and p leaves it as the rows say.
Synced(p) ==
    /\ h[p].loaded = cache
    /\ ~h[p].syncs => \A i \in DOMAIN h[p].change :
          h[p].change[i].status # "approved" /\ requests[i].status # "approved"
    /\ h[p].pc = "write" \/ h[p].wrote => h[p].syncs
    /\ h[p].wrote => h[p].pc = "commit"
    /\ h[p].pc = "write" => h[p].entries = Entries(kind, Approved(Seen(p)))
    /\ h[p].pc = "commit" /\ h[p].syncs =>
          (IF h[p].wrote THEN h[p].entries ELSE cache) = Entries(kind, Approved(Seen(p)))

\* ... as long as nobody else has committed since p began.
SyncInv ==
    \A p \in Handlers : h[p].pc # "idle" /\ h[p].alone => Synced(p)

AccessInv == TypeInv /\ LockInv /\ ForeignInv /\ SourceInv /\ SyncInv

\* What is allowed because of several approvals is allowed because of one of them.
LEMMA EntriesFrom ==
    ASSUME NEW approved, NEW e \in Entries(kind, approved)
    PROVE  \E r \in approved : e \in Entries(kind, {r})
<1>1. CASE kind = "network"
  <2>1. e \in approved /\ e \in {e}
    BY <1>1 DEF Entries
  <2>2. e[2] = "any" \/ <<e[1], "any">> \notin {e}
    OBVIOUS
  <2> QED
    BY <1>1, <2>1, <2>2 DEF Entries
<1>2. CASE kind # "network"
  <2>1. CASE e \in approved
    BY <1>2, <2>1 DEF Entries
  <2>2. ASSUME NEW r \in approved, e = <<r[1], "base">>
        PROVE  e \in Entries(kind, {r})
    BY <1>2, <2>2 DEF Entries
  <2>3. ASSUME NEW r \in approved, r[2] = "dashed", e = <<r[1], "underscored">>
        PROVE  e \in Entries(kind, {r})
    BY <1>2, <2>3 DEF Entries
  <2> QED
    BY <1>2, <2>1, <2>2, <2>3 DEF Entries
<1> QED
  BY <1>1, <1>2

\* The list stays within what can be asked for.
LEMMA EntriesType ==
    ASSUME TypeInv, NEW approved \in SUBSET Resources
    PROVE  Entries(kind, approved) \subseteq AllResources
<1>1. Resources \subseteq AllResources
  BY AccessConstantsOK DEF TypeInv, Resources, Variants, AllResources, AllKinds, AllForms
<1>2. \A r \in approved : r[1] \in Groups
  BY DEF Resources
<1> QED
  BY <1>1, <1>2 DEF Entries, AllResources

LEMMA ApprovedType ==
    ASSUME NEW rows, NEW res, \A i \in Ids : rows[i] \in RowsOver(res)
    PROVE  Approved(rows) \subseteq res
  BY DEF Approved, RowsOver, Unused, Deleted

LEMMA SeenType ==
    ASSUME TypeInv, NEW p \in Handlers
    PROVE  Seen(p) \in [Ids -> RowsOver(Resources)]
<1>1. h[p].change \in ChangesOver(Resources)
  BY DEF TypeInv, HandlersOver
<1>2. PICK S \in SUBSET Ids : h[p].change \in [S -> RowsOver(Resources)]
  BY <1>1 DEF ChangesOver
<1> QED
  BY <1>2 DEF Seen, TypeInv

\* What the transaction of p sees approved: what is committed, or its own rows.
LEMMA SeenApproved ==
    ASSUME TypeInv, NEW p \in Handlers
    PROVE  /\ Approved(Seen(p)) \subseteq Approved(requests) \cup Approves(p)
           /\ Approves(p) \subseteq Approved(Seen(p))
<1>1. h[p].change \in ChangesOver(Resources)
  BY DEF TypeInv, HandlersOver
<1>2. PICK S \in SUBSET Ids : h[p].change \in [S -> RowsOver(Resources)]
  BY <1>1 DEF ChangesOver
<1>3. \A i \in Ids : Seen(p)[i] = IF i \in S THEN h[p].change[i] ELSE requests[i]
  BY <1>2 DEF Seen
<1> QED
  BY <1>2, <1>3 DEF Approved, Approves

\* The table a behaviour is about does not change, so neither does what may be asked for.
LEMMA SameKind ==
    ASSUME kind' = kind
    PROVE  /\ Resources' = Resources
           /\ \A es, rs : From(es, rs)' <=> From(es', rs')
           /\ \A a : Entries(kind, a)' = Entries(kind, a')
  BY DEF Resources, Variants, From, Entries

\* What a step that is not of q leaves as it was for q.
LEMMA SourceKept ==
    ASSUME NEW q \in Handlers, h'[q].entries = h[q].entries, h'[q].change = h[q].change,
           kind' = kind, everApproved \subseteq everApproved',
           From(h[q].entries, everApproved \cup Approves(q))
    PROVE  From(h[q].entries, everApproved \cup Approves(q))'
<1>1. Approves(q)' = Approves(q)
  BY DEF Approves
<1> QED
  BY <1>1, SameKind DEF From

LEMMA SyncedKept ==
    ASSUME NEW q \in Handlers, h'[q] = h[q], UNCHANGED <<kind, requests, cache>>, Synced(q)
    PROVE  Synced(q)'
<1>1. Seen(q)' = Seen(q)
  BY DEF Seen
<1>2. Approved(Seen(q))' = Approved(Seen(q))
  BY <1>1 DEF Approved
<1> QED
  BY <1>1, <1>2 DEF Synced, Entries

-----------------------------------------------------------------------------
(* The steps.                                                              *)

LEMMA AccessInit ==
    Init => AccessInv
<1> SUFFICES ASSUME Init
             PROVE  AccessInv
  OBVIOUS
<1>1. \A p \in Handlers : h[p] = Idle
  BY DEF Init
<1>2. <<>> \in ChangesOver(Resources)
  BY DEF ChangesOver
<1>3. Idle \in HandlersOver(Resources)
  BY <1>2 DEF Idle, HandlersOver, Pcs
<1>4. TypeInv
  BY <1>3 DEF Init, TypeInv, RowsOver
<1>5. LockInv
  BY <1>1, AccessConstantsOK DEF Init, LockInv, Flushed, Idle
<1>6. ForeignInv
  BY <1>1 DEF Init, ForeignInv, Flushed, Idle, Unused, Exists
<1>7. SourceInv
  BY <1>1 DEF Init, SourceInv, Approved, Unused, From, Idle
<1>8. SyncInv
  BY <1>1 DEF SyncInv, Idle
<1> QED
  BY <1>4, <1>5, <1>6, <1>7, <1>8 DEF AccessInv

\* A handler begins with rows it may write; one that will not recompute the
\* list touches no approval.
LEMMA BeginStep ==
    ASSUME AccessInv, NEW p \in Handlers, NEW change \in ChangesOver(Resources),
           NEW syncs \in BOOLEAN, Begin(p, change, syncs),
           ~syncs => \A i \in DOMAIN change :
              change[i].status # "approved" /\ requests[i].status # "approved"
    PROVE  AccessInv'
<1> DEFINE new == [Idle EXCEPT !.pc = "flush", !.change = change, !.syncs = syncs,
                               !.loaded = cache]
<1>1. /\ new.pc = "flush" /\ new.change = change /\ new.syncs = syncs
      /\ new.loaded = cache /\ new.entries = {} /\ new.wrote = FALSE
  BY DEF Idle
<1>2. new \in HandlersOver(Resources)
  BY DEF Idle, HandlersOver, Pcs, AccessInv, TypeInv
<1>3. /\ h' = [h EXCEPT ![p] = new]
      /\ h[p].pc = "idle"
      /\ UNCHANGED <<kind, tools, requests, cache, rowLock, cacheLock, everApproved>>
  BY DEF Begin
<1> HIDE DEF new
<1>4. /\ h'[p] = new
      /\ \A q \in Handlers \ {p} : h'[q] = h[q]
  BY <1>3 DEF AccessInv, TypeInv
<1>5. Resources' = Resources
  BY <1>3, SameKind
<1>6. TypeInv'
  BY <1>2, <1>3, <1>5 DEF AccessInv, TypeInv
<1>7. LockInv'
  <2>1. \A q \in Handlers :
           (Flushed(q)' <=> Flushed(q)) /\ (Flushed(q) => h'[q].change = h[q].change)
    BY <1>1, <1>3, <1>4 DEF Flushed
  <2>2. \A q \in Handlers : cacheLock = q => h'[q] = h[q]
    BY <1>3, <1>4 DEF AccessInv, LockInv
  <2> QED
    BY <1>3, <2>1, <2>2 DEF AccessInv, LockInv
<1>8. ForeignInv'
  <2>1. \A q \in Handlers : Flushed(q)' => q # p /\ Flushed(q)
    BY <1>1, <1>4 DEF Flushed
  <2> QED
    BY <1>3, <1>4, <2>1 DEF AccessInv, ForeignInv
<1>9. SourceInv'
  <2>1. From(h'[p].entries, (everApproved \cup Approves(p))')
    BY <1>1, <1>4 DEF From
  <2>2. ASSUME NEW q \in Handlers \ {p}
        PROVE  From(h[q].entries, everApproved \cup Approves(q))'
    BY <1>3, <1>4, SourceKept DEF AccessInv, SourceInv
  <2>3. From(h[p].entries, everApproved \cup Approves(p))'
    BY <1>3, <2>1, SameKind DEF From
  <2>4. /\ (Approved(requests) \subseteq everApproved)'
        /\ From(cache, everApproved)'
    BY <1>3 DEF AccessInv, SourceInv, From, Approved
  <2> QED
    BY <2>2, <2>3, <2>4 DEF SourceInv
<1>10. SyncInv'
  <2> SUFFICES ASSUME NEW q \in Handlers, h'[q].pc # "idle", h'[q].alone
               PROVE  Synced(q)'
    BY DEF SyncInv
  <2>1. CASE q = p
    BY <1>1, <1>3, <1>4, <2>1 DEF Synced
  <2>2. CASE q # p
    BY <1>3, <1>4, <2>2, SyncedKept DEF AccessInv, SyncInv
  <2> QED
    BY <2>1, <2>2
<1> QED
  BY <1>6, <1>7, <1>8, <1>9, <1>10 DEF AccessInv

\* The rows of p are locked, the list is computed from what its transaction sees.
LEMMA FlushStep ==
    ASSUME AccessInv, NEW p \in Handlers, Flush(p)
    PROVE  AccessInv'
<1> DEFINE loaded == IF kind = "network" THEN h[p].loaded ELSE cache
           entries == Entries(kind, Approved(Seen(p)))
           new == IF h[p].syncs /\ entries # loaded
                  THEN [h[p] EXCEPT !.pc = "write", !.entries = entries]
                  ELSE [h[p] EXCEPT !.pc = "commit"]
<1>0. h[p] \in HandlersOver(Resources)
  BY DEF AccessInv, TypeInv
<1>1. /\ new.pc \in {"write", "commit"}
      /\ new.change = h[p].change /\ new.syncs = h[p].syncs /\ new.loaded = h[p].loaded
      /\ new.wrote = h[p].wrote /\ new.alone = h[p].alone
      /\ new.entries \in {entries, h[p].entries}
      /\ new.pc = "write" => new.entries = entries /\ h[p].syncs
      /\ new.pc = "commit" => ~h[p].syncs \/ entries = loaded
  BY <1>0 DEF HandlersOver
<1>2. entries \in SUBSET AllResources
  BY EntriesType, ApprovedType, SeenType DEF AccessInv
<1>3. new \in HandlersOver(Resources)
  BY <1>0, <1>2 DEF HandlersOver, Pcs
<1>4. /\ h' = [h EXCEPT ![p] = new]
      /\ h[p].pc = "flush"
      /\ ~Blocked(p) /\ ~Fails(p)
      /\ rowLock' = [i \in Ids |-> IF i \in DOMAIN h[p].change THEN p ELSE rowLock[i]]
      /\ UNCHANGED <<kind, tools, requests, cache, cacheLock, everApproved>>
  BY DEF Flush
<1>5. loaded = cache \/ ~h[p].alone
  BY <1>4 DEF AccessInv, SyncInv, Synced
<1> HIDE DEF new
<1>6. /\ h'[p] = new
      /\ \A q \in Handlers \ {p} : h'[q] = h[q]
  BY <1>4 DEF AccessInv, TypeInv
<1>7. Resources' = Resources
  BY <1>4, SameKind
<1>8. TypeInv'
  BY <1>3, <1>4, <1>7 DEF AccessInv, TypeInv
<1>9. /\ \A q \in Handlers : Flushed(q)' <=> q = p \/ Flushed(q)
      /\ ~Flushed(p)
  BY <1>1, <1>4, <1>6 DEF Flushed
<1>10. DOMAIN h[p].change \subseteq Ids
  BY <1>0 DEF HandlersOver, ChangesOver
<1>11. \A i \in DOMAIN h[p].change : rowLock[i] = NoHandler
  <2>1. \A i \in Ids : rowLock[i] # p
    BY <1>9 DEF AccessInv, LockInv
  <2> QED
    BY <1>4, <1>10, <2>1 DEF Blocked
<1>12. LockInv'
  <2>1. \A i \in Ids : rowLock'[i] = p <=> i \in DOMAIN h[p].change
    BY <1>4, <1>9, <1>10 DEF AccessInv, LockInv
  <2>2. ASSUME NEW q \in Handlers \ {p}, NEW i \in Ids
        PROVE  rowLock'[i] = q <=> rowLock[i] = q
    BY <1>4, <1>11, <2>2, AccessConstantsOK
  <2>3. \A q \in Handlers : cacheLock = q => q # p
    BY <1>4 DEF AccessInv, LockInv
  <2> QED
    BY <1>1, <1>4, <1>6, <1>9, <2>1, <2>2, <2>3 DEF AccessInv, LockInv
<1>13. ForeignInv'
  <2>1. \A i \in DOMAIN h[p].change :
           Exists(h[p].change[i]) => h[p].change[i].tool \in tools \cup {Admin}
    BY <1>4 DEF Fails
  <2> QED
    BY <1>1, <1>4, <1>6, <1>9, <2>1 DEF AccessInv, ForeignInv
<1>14. SourceInv'
  <2>1. From(h[p].entries, everApproved \cup Approves(p))'
    <3>1. From(entries, everApproved \cup Approves(p))
      <4>1. \A e \in entries : \E r \in Approved(Seen(p)) : e \in Entries(kind, {r})
        BY EntriesFrom
      <4> QED
        BY <4>1, SeenApproved DEF AccessInv, SourceInv, From
    <3>2. From(new.entries, everApproved \cup Approves(p))
      BY <1>1, <3>1 DEF AccessInv, SourceInv
    <3>3. Approves(p)' = Approves(p)
      BY <1>1, <1>6 DEF Approves
    <3> QED
      BY <1>4, <1>6, <3>2, <3>3, SameKind DEF From
  <2>2. ASSUME NEW q \in Handlers \ {p}
        PROVE  From(h[q].entries, everApproved \cup Approves(q))'
    BY <1>4, <1>6, SourceKept DEF AccessInv, SourceInv
  <2>4. /\ (Approved(requests) \subseteq everApproved)'
        /\ From(cache, everApproved)'
    BY <1>4, SameKind DEF AccessInv, SourceInv, From, Approved
  <2> QED
    BY <2>1, <2>2, <2>4 DEF SourceInv
<1>15. SyncInv'
  <2> SUFFICES ASSUME NEW q \in Handlers, h'[q].pc # "idle", h'[q].alone
               PROVE  Synced(q)'
    BY DEF SyncInv
  <2>1. CASE q = p
    <3>1. Synced(p) /\ ~h[p].wrote
      BY <1>1, <1>4, <1>6, <2>1 DEF AccessInv, SyncInv, Synced
    <3>2. Seen(p)' = Seen(p)
      BY <1>1, <1>4, <1>6 DEF Seen
    <3>3. Entries(kind, Approved(Seen(p)))' = entries
      BY <1>4, <3>2 DEF Entries, Approved
    <3>4. loaded = cache
      BY <1>1, <1>5, <1>6, <2>1
    <3> QED
      BY <1>1, <1>4, <1>6, <2>1, <3>1, <3>3, <3>4 DEF Synced
  <2>2. CASE q # p
    BY <1>4, <1>6, <2>2, SyncedKept DEF AccessInv, SyncInv
  <2> QED
    BY <2>1, <2>2
<1> QED
  BY <1>8, <1>12, <1>13, <1>14, <1>15 DEF AccessInv

\* The list is written: whoever holds its row has it to commit.
LEMMA WriteStep ==
    ASSUME AccessInv, NEW p \in Handlers, WriteCache(p)
    PROVE  AccessInv'
<1> DEFINE new == [h[p] EXCEPT !.pc = "commit", !.wrote = TRUE]
<1>0. h[p] \in HandlersOver(Resources)
  BY DEF AccessInv, TypeInv
<1>1. /\ new.pc = "commit" /\ new.wrote = TRUE
      /\ new.change = h[p].change /\ new.syncs = h[p].syncs /\ new.loaded = h[p].loaded
      /\ new.alone = h[p].alone /\ new.entries = h[p].entries
  BY <1>0 DEF HandlersOver
<1>2. new \in HandlersOver(Resources)
  BY <1>0 DEF HandlersOver, Pcs
<1>3. /\ h' = [h EXCEPT ![p] = new]
      /\ h[p].pc = "write" /\ cacheLock = NoHandler /\ cacheLock' = p
      /\ UNCHANGED <<kind, tools, requests, cache, rowLock, everApproved>>
  BY DEF WriteCache
<1> HIDE DEF new
<1>4. /\ h'[p] = new
      /\ \A q \in Handlers \ {p} : h'[q] = h[q]
  BY <1>3 DEF AccessInv, TypeInv
<1>5. Resources' = Resources
  BY <1>3, SameKind
<1>6. TypeInv'
  BY <1>2, <1>3, <1>5 DEF AccessInv, TypeInv
<1>7. \A q \in Handlers : (Flushed(q)' <=> Flushed(q)) /\ h'[q].change = h[q].change
  BY <1>1, <1>3, <1>4 DEF Flushed
<1>9. LockInv'
  BY <1>1, <1>3, <1>4, <1>7, AccessConstantsOK DEF AccessInv, LockInv
<1>10. ForeignInv'
  BY <1>3, <1>7 DEF AccessInv, ForeignInv
<1>11. SourceInv'
  <2>1. ASSUME NEW q \in Handlers
        PROVE  From(h[q].entries, everApproved \cup Approves(q))'
    <3>1. h'[q].entries = h[q].entries
      BY <1>1, <1>4
    <3> QED
      BY <1>3, <1>7, <3>1, SourceKept, SameKind DEF AccessInv, SourceInv
  <2>2. /\ (Approved(requests) \subseteq everApproved)'
        /\ From(cache, everApproved)'
    BY <1>3, SameKind DEF AccessInv, SourceInv, From, Approved
  <2> QED
    BY <2>1, <2>2 DEF SourceInv
<1>12. SyncInv'
  <2> SUFFICES ASSUME NEW q \in Handlers, h'[q].pc # "idle", h'[q].alone
               PROVE  Synced(q)'
    BY DEF SyncInv
  <2>1. CASE q = p
    <3>1. Synced(p)
      BY <1>1, <1>3, <1>4, <2>1 DEF AccessInv, SyncInv
    <3>2. Seen(p)' = Seen(p)
      BY <1>1, <1>3, <1>4 DEF Seen
    <3>3. Entries(kind, Approved(Seen(p)))' = Entries(kind, Approved(Seen(p)))
      BY <1>3, <3>2 DEF Entries, Approved
    <3> QED
      BY <1>1, <1>3, <1>4, <2>1, <3>1, <3>3 DEF Synced
  <2>2. CASE q # p
    BY <1>3, <1>4, <2>2, SyncedKept DEF AccessInv, SyncInv
  <2> QED
    BY <2>1, <2>2
<1> QED
  BY <1>6, <1>9, <1>10, <1>11, <1>12 DEF AccessInv

\* The handlers whose session saw somebody else's commit keep all but "alone".
LEMMA DisturbedKeeps ==
    ASSUME TypeInv, NEW p, NEW q \in Handlers \ {p}
    PROVE  /\ Disturbed(p)[q] \in HandlersOver(Resources)
           /\ Disturbed(p)[q].pc = h[q].pc /\ Disturbed(p)[q].change = h[q].change
           /\ Disturbed(p)[q].entries = h[q].entries /\ Disturbed(p)[q].wrote = h[q].wrote
           /\ h[q].pc # "idle" => ~Disturbed(p)[q].alone
<1> DEFINE new == [h[q] EXCEPT !.alone = FALSE]
<1>1. h[q] \in HandlersOver(Resources)
  BY DEF TypeInv
<1>2. /\ new \in HandlersOver(Resources)
      /\ new.pc = h[q].pc /\ new.change = h[q].change /\ new.entries = h[q].entries
      /\ new.wrote = h[q].wrote /\ ~new.alone
  BY <1>1 DEF HandlersOver
<1>3. Disturbed(p)[q] = IF h[q].pc = "idle" THEN h[q] ELSE new
  BY DEF Disturbed
<1> HIDE DEF new
<1> QED
  BY <1>1, <1>2, <1>3

\* The end of a transaction gives back what p had locked.
LEMMA ReleaseStep ==
    ASSUME TypeInv, LockInv, NEW p \in Handlers, Release(p), h'[p] = Idle,
           \A q \in Handlers \ {p} : /\ h'[q].pc = h[q].pc /\ h'[q].change = h[q].change
                                     /\ h'[q].wrote = h[q].wrote
    PROVE  /\ LockInv'
           /\ rowLock' \in [Ids -> Handlers \cup {NoHandler}]
           /\ cacheLock' \in Handlers \cup {NoHandler}
<1>1. \A i \in Ids : rowLock'[i] = IF rowLock[i] = p THEN NoHandler ELSE rowLock[i]
  BY DEF Release
<1>2. cacheLock' = IF cacheLock = p THEN NoHandler ELSE cacheLock
  BY DEF Release
<1>3. ~Flushed(p)' /\ \A q \in Handlers \ {p} : Flushed(q)' <=> Flushed(q)
  BY DEF Flushed, Idle
<1> QED
  BY <1>1, <1>2, <1>3, AccessConstantsOK DEF Release, LockInv, TypeInv

LEMMA CommitStep ==
    ASSUME AccessInv, NEW p \in Handlers, Commit(p)
    PROVE  AccessInv'
<1>1. /\ h[p].pc = "commit"
      /\ requests' = Seen(p)
      /\ cache' = IF h[p].wrote THEN h[p].entries ELSE cache
      /\ everApproved' = everApproved \cup Approved(Seen(p))
      /\ Release(p)
      /\ h' = [Disturbed(p) EXCEPT ![p] = Idle]
      /\ kind' = kind /\ tools' = tools
  BY DEF Commit
<1>2. /\ h'[p] = Idle
      /\ \A q \in Handlers \ {p} : h'[q] = Disturbed(p)[q]
      /\ DOMAIN h' = Handlers
  BY <1>1 DEF Disturbed
<1>3. \A q \in Handlers \ {p} :
         /\ h'[q] \in HandlersOver(Resources)
         /\ h'[q].pc = h[q].pc /\ h'[q].change = h[q].change
         /\ h'[q].entries = h[q].entries /\ h'[q].wrote = h[q].wrote
         /\ h[q].pc # "idle" => ~h'[q].alone
  BY <1>2, DisturbedKeeps DEF AccessInv
<1>4. Resources' = Resources
  BY <1>1, SameKind
<1>5. LockInv' /\ rowLock' \in [Ids -> Handlers \cup {NoHandler}]
      /\ cacheLock' \in Handlers \cup {NoHandler}
  BY <1>1, <1>2, <1>3, ReleaseStep DEF AccessInv
<1>6. TypeInv'
  <2>1. Idle \in HandlersOver(Resources)
    <3>1. <<>> \in ChangesOver(Resources)
      BY DEF ChangesOver
    <3> QED
      BY <3>1 DEF Idle, HandlersOver, Pcs
  <2>2. h' \in [Handlers -> HandlersOver(Resources)]
    BY <1>1, <1>2, <1>3, <2>1 DEF Disturbed
  <2>3. cache' \subseteq AllResources
    BY <1>1 DEF AccessInv, TypeInv, HandlersOver
  <2>4. requests' \in [Ids -> RowsOver(Resources)]
    BY <1>1, SeenType DEF AccessInv
  <2> QED
    BY <1>1, <1>4, <1>5, <2>2, <2>3, <2>4 DEF AccessInv, TypeInv
<1>7. ForeignInv'
  <2>1. Flushed(p) /\ ~Flushed(p)' /\ \A q \in Handlers \ {p} : Flushed(q)' <=> Flushed(q)
    BY <1>1, <1>2, <1>3 DEF Flushed, Idle
  <2>2. \A i \in Ids : requests'[i] = IF i \in DOMAIN h[p].change THEN h[p].change[i]
                                                                  ELSE requests[i]
    BY <1>1 DEF Seen
  <2> QED
    BY <1>1, <1>3, <2>1, <2>2 DEF AccessInv, ForeignInv
<1>8. SourceInv'
  <2>1. (Approved(requests) \subseteq everApproved)'
    BY <1>1 DEF Approved
  <2>2. From(cache, everApproved)'
    <3>1. everApproved \cup Approves(p) \subseteq everApproved'
      BY <1>1, SeenApproved DEF AccessInv
    <3>2. From(cache', everApproved')
      BY <1>1, <3>1 DEF AccessInv, SourceInv, From
    <3> QED
      BY <1>1, <3>2, SameKind
  <2>3. From(h[p].entries, everApproved \cup Approves(p))'
    BY <1>2 DEF From, Idle
  <2>4. ASSUME NEW q \in Handlers \ {p}
        PROVE  From(h[q].entries, everApproved \cup Approves(q))'
    BY <1>1, <1>3, SourceKept DEF AccessInv, SourceInv
  <2> QED
    BY <2>1, <2>2, <2>3, <2>4 DEF SourceInv
<1>9. SyncInv'
  BY <1>2, <1>3 DEF SyncInv, Idle
<1> QED
  BY <1>5, <1>6, <1>7, <1>8, <1>9 DEF AccessInv

LEMMA AbortStep ==
    ASSUME AccessInv, NEW p \in Handlers, Abort(p)
    PROVE  AccessInv'
<1>1. /\ Release(p)
      /\ h' = [h EXCEPT ![p] = Idle]
      /\ UNCHANGED <<kind, tools, requests, cache, everApproved>>
  BY DEF Abort
<1>2. h'[p] = Idle /\ \A q \in Handlers \ {p} : h'[q] = h[q]
  BY <1>1 DEF AccessInv, TypeInv
<1>3. Resources' = Resources
  BY <1>1, SameKind
<1>4. LockInv' /\ rowLock' \in [Ids -> Handlers \cup {NoHandler}]
      /\ cacheLock' \in Handlers \cup {NoHandler}
  BY <1>1, <1>2, ReleaseStep DEF AccessInv
<1>5. TypeInv'
  <2>1. <<>> \in ChangesOver(Resources)
    BY DEF ChangesOver
  <2>2. Idle \in HandlersOver(Resources)
    BY <2>1 DEF Idle, HandlersOver, Pcs
  <2> QED
    BY <1>1, <1>3, <1>4, <2>2 DEF AccessInv, TypeInv
<1>6. ForeignInv'
  <2>1. \A q \in Handlers : Flushed(q)' => q # p /\ Flushed(q)
    BY <1>2 DEF Flushed, Idle
  <2> QED
    BY <1>1, <1>2, <2>1 DEF AccessInv, ForeignInv
<1>7. SourceInv'
  <2>1. From(h[p].entries, everApproved \cup Approves(p))'
    BY <1>2 DEF From, Idle
  <2>2. ASSUME NEW q \in Handlers \ {p}
        PROVE  From(h[q].entries, everApproved \cup Approves(q))'
    BY <1>1, <1>2, SourceKept DEF AccessInv, SourceInv
  <2>3. /\ (Approved(requests) \subseteq everApproved)'
        /\ From(cache, everApproved)'
    BY <1>1, SameKind DEF AccessInv, SourceInv, From, Approved
  <2> QED
    BY <2>1, <2>2, <2>3 DEF SourceInv
<1>8. SyncInv'
  <2> SUFFICES ASSUME NEW q \in Handlers, h'[q].pc # "idle", h'[q].alone
               PROVE  Synced(q)'
    BY DEF SyncInv
  <2>1. q # p
    BY <1>2 DEF Idle
  <2> QED
    BY <1>1, <1>2, <2>1, SyncedKept DEF AccessInv, SyncInv
<1> QED
  BY <1>4, <1>5, <1>6, <1>7, <1>8 DEF AccessInv

\* A tool goes with its requests: no flushed row refers to it.
LEMMA DeleteToolStep ==
    ASSUME AccessInv, NEW t \in Tools, DeleteTool(t)
    PROVE  AccessInv'
<1> DEFINE Of(x) == Exists(x) /\ x.tool = t
<1>1. /\ \A i \in Ids : rowLock[i] # NoHandler =>
            ~Of(requests[i]) /\ ~Of(Seen(rowLock[i])[i])
      /\ tools' = tools \ {t}
      /\ requests' = [i \in Ids |-> IF Of(requests[i]) THEN Deleted ELSE requests[i]]
      /\ h' = Disturbed(NoHandler)
      /\ UNCHANGED <<kind, cache, rowLock, cacheLock, everApproved>>
  BY DEF DeleteTool
<1>2. \A q \in Handlers :
         /\ h'[q] \in HandlersOver(Resources)
         /\ h'[q].pc = h[q].pc /\ h'[q].change = h[q].change
         /\ h'[q].entries = h[q].entries /\ h'[q].wrote = h[q].wrote
         /\ h[q].pc # "idle" => ~h'[q].alone
  BY <1>1, DisturbedKeeps, AccessConstantsOK DEF AccessInv
<1>3. Resources' = Resources
  BY <1>1, SameKind
<1>4. \A q \in Handlers : Flushed(q)' <=> Flushed(q)
  BY <1>2 DEF Flushed
<1>5. TypeInv'
  <2>1. h' \in [Handlers -> HandlersOver(Resources)]
    BY <1>1, <1>2 DEF Disturbed
  <2>2. requests' \in [Ids -> RowsOver(Resources)]
    BY <1>1 DEF AccessInv, TypeInv, RowsOver
  <2> QED
    BY <1>1, <1>3, <2>1, <2>2 DEF AccessInv, TypeInv
<1>6. LockInv'
  BY <1>1, <1>2, <1>4 DEF AccessInv, LockInv
<1>7. ForeignInv'
  <2>1. \A i \in Ids : Exists(requests'[i]) => requests'[i].tool \in tools' \cup {Admin}
    BY <1>1 DEF AccessInv, ForeignInv, Exists, Deleted
  <2>2. ASSUME NEW q \in Handlers, Flushed(q), NEW i \in DOMAIN h[q].change,
               Exists(h[q].change[i])
        PROVE  h[q].change[i].tool \in tools' \cup {Admin}
    <3>1. i \in Ids
      BY DEF AccessInv, TypeInv, HandlersOver, ChangesOver
    <3>2. rowLock[i] = q /\ q # NoHandler
      BY <2>2, <3>1, AccessConstantsOK DEF AccessInv, LockInv
    <3>3. Seen(q)[i] = h[q].change[i]
      BY <3>1 DEF Seen
    <3> QED
      BY <1>1, <2>2, <3>1, <3>2, <3>3 DEF AccessInv, ForeignInv
  <2> QED
    BY <1>2, <1>4, <2>1, <2>2 DEF ForeignInv
<1>8. SourceInv'
  <2>1. Approved(requests') \subseteq Approved(requests)
    BY <1>1 DEF Approved, Deleted
  <2>2. /\ (Approved(requests) \subseteq everApproved)'
        /\ From(cache, everApproved)'
    BY <1>1, <2>1, SameKind DEF AccessInv, SourceInv, From
  <2>3. ASSUME NEW q \in Handlers
        PROVE  From(h[q].entries, everApproved \cup Approves(q))'
    BY <1>1, <1>2, SourceKept DEF AccessInv, SourceInv
  <2> QED
    BY <2>2, <2>3 DEF SourceInv
<1>9. SyncInv'
  BY <1>2 DEF SyncInv
<1> QED
  BY <1>5, <1>6, <1>7, <1>8, <1>9 DEF AccessInv

\* One row, or none, or rows that go: what the operations change.
LEMMA ChangeTypes ==
    /\ <<>> \in ChangesOver(Resources)
    /\ \A i \in Ids, x \in RowsOver(Resources) :
          One(i, x) \in ChangesOver(Resources) /\ DOMAIN One(i, x) = {i} /\ One(i, x)[i] = x
    /\ \A S \in SUBSET Ids : [i \in S |-> Deleted] \in ChangesOver(Resources)
<1>1. <<>> \in ChangesOver(Resources)
  BY DEF ChangesOver
<1>2. ASSUME NEW i \in Ids, NEW x \in RowsOver(Resources)
      PROVE  One(i, x) \in ChangesOver(Resources) /\ DOMAIN One(i, x) = {i} /\ One(i, x)[i] = x
  <2>1. One(i, x) \in [{i} -> RowsOver(Resources)] /\ {i} \in SUBSET Ids
    BY DEF One
  <2> QED
    BY <2>1 DEF ChangesOver, One
<1>3. ASSUME NEW S \in SUBSET Ids
      PROVE  [i \in S |-> Deleted] \in ChangesOver(Resources)
  <2>1. [i \in S |-> Deleted] \in [S -> RowsOver(Resources)]
    BY DEF RowsOver
  <2> QED
    BY <2>1 DEF ChangesOver
<1> QED
  BY <1>1, <1>2, <1>3

LEMMA OneRowStep ==
    ASSUME AccessInv, NEW p \in Handlers, NEW i \in Ids, NEW x \in RowsOver(Resources),
           NEW syncs \in BOOLEAN, Begin(p, One(i, x), syncs),
           ~syncs => x.status # "approved" /\ requests[i].status # "approved"
    PROVE  AccessInv'
<1> DEFINE change == One(i, x)
<1>1. change \in ChangesOver(Resources)
  BY ChangeTypes
<1>2. DOMAIN change = {i} /\ change[i] = x
  BY ChangeTypes
<1>3. Begin(p, change, syncs)
  OBVIOUS
<1> HIDE DEF change
<1>4. ~syncs => \A j \in DOMAIN change : change[j].status # "approved" /\ requests[j].status # "approved"
  BY <1>2
<1> QED
  BY <1>1, <1>3, <1>4, BeginStep

LEMMA SetStatusStep ==
    ASSUME AccessInv, NEW p \in Handlers, NEW i \in Ids,
           NEW from \in {"pending", "approved", "rejected"},
           NEW to \in {"pending", "approved", "rejected"}, NEW syncs \in BOOLEAN,
           ~syncs => from # "approved" /\ to # "approved",
           SetStatus(p, i, from, to, syncs)
    PROVE  AccessInv'
<1> DEFINE x == [requests[i] EXCEPT !.status = to]
<1>1. x \in RowsOver(Resources) /\ x.status = to
  BY DEF SetStatus, AccessInv, TypeInv, RowsOver, Unused, Deleted
<1>2. Begin(p, One(i, x), syncs) /\ requests[i].status = from
  BY DEF SetStatus
<1> HIDE DEF x
<1> QED
  BY <1>1, <1>2, OneRowStep

LEMMA AccessRequestStep ==
    ASSUME AccessInv, NEW p \in Handlers, NEW i \in Ids, RequestAction(p, i)
    PROVE  AccessInv'
<1>1. ASSUME NEW r \in Resources, NEW t \in Tools, CreateRequest(p, i, r, t)
      PROVE  AccessInv'
  <2> DEFINE x == NewRequest(r, t, "pending")
  <2>1. x \in RowsOver(Resources) /\ x.status = "pending"
    BY DEF NewRequest, RowsOver
  <2>2. Begin(p, One(i, x), FALSE)
    BY <1>1, Zenon DEF CreateRequest
  <2>3. requests[i].status = "unused"
    BY <1>1 DEF CreateRequest, Fresh, Unused
  <2> HIDE DEF x
  <2> QED
    BY <2>1, <2>2, <2>3, OneRowStep
<1>2. CASE ApproveRequest(p, i)
  BY <1>2, SetStatusStep DEF ApproveRequest
<1>3. CASE RejectRequest(p, i)
  BY <1>3, SetStatusStep DEF RejectRequest
<1>4. CASE RevokeRequest(p, i)
  BY <1>4, SetStatusStep DEF RevokeRequest
<1>5. CASE DeleteRequest(p, i)
  <2>1. Deleted \in RowsOver(Resources) /\ Deleted.status # "approved"
    BY DEF Deleted, RowsOver
  <2>2. Begin(p, One(i, Deleted), FALSE) /\ requests[i].status # "approved"
    BY <1>5 DEF DeleteRequest
  <2> QED
    BY <2>1, <2>2, OneRowStep
<1> QED
  BY <1>1, <1>2, <1>3, <1>4, <1>5 DEF RequestAction

LEMMA AdminStep ==
    ASSUME AccessInv, NEW p \in Handlers, AdminAction(p)
    PROVE  AccessInv'
<1>1. ASSUME NEW r \in Resources, NEW i \in Ids, AddByAdmin(p, i, r)
      PROVE  AccessInv'
  <2> DEFINE x == NewRequest(r, Admin, "approved")
  <2>1. x \in RowsOver(Resources)
    BY DEF NewRequest, RowsOver
  <2>2. Begin(p, One(i, x), TRUE) \/ Begin(p, <<>>, TRUE)
    BY <1>1 DEF AddByAdmin
  <2> HIDE DEF x
  <2> QED
    BY <2>1, <2>2, ChangeTypes, BeginStep
<1>2. ASSUME NEW r \in Resources, RemoveByAdmin(p, r)
      PROVE  AccessInv'
  <2>1. AdminRows(r) \in SUBSET Ids
    BY DEF AdminRows
  <2>2. Begin(p, [i \in AdminRows(r) |-> Deleted], TRUE)
    BY <1>2 DEF RemoveByAdmin
  <2> QED
    BY <2>1, <2>2, ChangeTypes, BeginStep
<1>3. CASE ResetToDefaults(p)
  <2> DEFINE S == {j \in Ids : requests[j].status = "approved" /\ requests[j].tool = Admin}
  <2>1. Begin(p, [i \in S |-> Deleted], TRUE)
    BY <1>3 DEF ResetToDefaults
  <2>2. S \in SUBSET Ids
    OBVIOUS
  <2> HIDE DEF S
  <2> QED
    BY <2>1, <2>2, ChangeTypes, BeginStep
<1> QED
  BY <1>1, <1>2, <1>3 DEF AdminAction

LEMMA AccessStutter ==
    ASSUME AccessInv, UNCHANGED vars
    PROVE  AccessInv'
<1>1. UNCHANGED <<kind, tools, requests, cache, rowLock, cacheLock, h, everApproved>>
  BY DEF vars
<1>2. Resources' = Resources
  BY <1>1, SameKind
<1>3. TypeInv'
  BY <1>1, <1>2 DEF AccessInv, TypeInv
<1>4. LockInv' /\ ForeignInv'
  BY <1>1 DEF AccessInv, LockInv, ForeignInv, Flushed
<1>5. SourceInv'
  <2>1. ASSUME NEW q \in Handlers
        PROVE  From(h[q].entries, everApproved \cup Approves(q))'
    BY <1>1, SourceKept DEF AccessInv, SourceInv
  <2>2. /\ (Approved(requests) \subseteq everApproved)'
        /\ From(cache, everApproved)'
    BY <1>1, SameKind DEF AccessInv, SourceInv, From, Approved
  <2> QED
    BY <2>1, <2>2 DEF SourceInv
<1>6. SyncInv'
  BY <1>1, SyncedKept DEF AccessInv, SyncInv
<1> QED
  BY <1>3, <1>4, <1>5, <1>6 DEF AccessInv

LEMMA AccessStep ==
    ASSUME AccessInv, [Next]_vars
    PROVE  AccessInv'
<1>1. ASSUME NEW p \in Handlers, NEW i \in Ids, RequestAction(p, i)
      PROVE  AccessInv'
  BY <1>1, AccessRequestStep
<1>2. ASSUME NEW p \in Handlers,
             AdminAction(p) \/ Flush(p) \/ WriteCache(p) \/ Commit(p) \/ Abort(p)
      PROVE  AccessInv'
  BY <1>2, AdminStep, FlushStep, WriteStep, CommitStep, AbortStep
<1>3. ASSUME NEW t \in Tools, DeleteTool(t)
      PROVE  AccessInv'
  BY <1>3, DeleteToolStep
<1>4. CASE UNCHANGED vars
  BY <1>4, AccessStutter
<1> QED
  BY <1>1, <1>2, <1>3, <1>4 DEF Next

\* A step that changes the approved rows or the list is a commit.
LEMMA OnlyCommits ==
    ASSUME AccessInv, [Next]_vars, NEW p \in Handlers,
           h[p].pc = "commit", h'[p] = Idle,
           Approved(requests') # Approved(requests) \/ cache' # cache
    PROVE  Commit(p)
<1>1. h[p] # Idle
  BY DEF Idle
<1>2. ASSUME NEW q \in Handlers, NEW change, NEW syncs, Begin(q, change, syncs)
      PROVE  FALSE
  BY <1>2 DEF Begin
<1>3. ASSUME NEW q \in Handlers, NEW i \in Ids, RequestAction(q, i)
      PROVE  FALSE
  BY <1>2, <1>3 DEF RequestAction, CreateRequest, ApproveRequest, RejectRequest,
     RevokeRequest, DeleteRequest, SetStatus
<1>4. ASSUME NEW q \in Handlers, AdminAction(q)
      PROVE  FALSE
  BY <1>2, <1>4 DEF AdminAction, AddByAdmin, RemoveByAdmin, ResetToDefaults
<1>5. ASSUME NEW q \in Handlers, Flush(q) \/ WriteCache(q) \/ Abort(q)
      PROVE  FALSE
  BY <1>5 DEF Flush, WriteCache, Abort
<1>6. ASSUME NEW q \in Handlers \ {p}, Commit(q)
      PROVE  FALSE
  <2>1. h'[p] = Disturbed(q)[p]
    BY <1>6 DEF Commit, Disturbed
  <2> QED
    BY <2>1, DisturbedKeeps DEF AccessInv, Idle
<1>7. ASSUME NEW t \in Tools, DeleteTool(t)
      PROVE  FALSE
  <2>1. h'[p] = Disturbed(NoHandler)[p] /\ p # NoHandler
    BY <1>7, AccessConstantsOK DEF DeleteTool
  <2> QED
    BY <2>1, DisturbedKeeps DEF AccessInv, Idle
<1>8. CASE UNCHANGED vars
  BY <1>8 DEF vars
<1> QED
  BY <1>3, <1>4, <1>5, <1>6, <1>7, <1>8 DEF Next

-----------------------------------------------------------------------------
(* The theorems.                                                           *)

\* Rows and locks are well-formed in every reachable state, and every request
\* refers to a tool that is there: a tool can be deleted while handlers that
\* have written its requests are under way, and the foreign key keeps out those
\* that have not.
THEOREM AccessTypeCorrect ==
    Spec => []AccessTypeOK
<1>1. AccessInv => AccessTypeOK
  <2> SUFFICES ASSUME AccessInv
               PROVE  AccessTypeOK
    OBVIOUS
  <2>1. \A i \in Ids : Exists(requests[i]) =>
           requests[i].res \in Resources /\ requests[i].tool \in tools \cup {Admin}
    BY DEF AccessInv, TypeInv, ForeignInv, RowsOver, Exists, Unused, Deleted
  <2>2. \A i \in Ids : rowLock[i] # NoHandler =>
           h[rowLock[i]].pc \in {"write", "commit"} /\ i \in DOMAIN h[rowLock[i]].change
    BY DEF AccessInv, TypeInv, LockInv, Flushed
  <2> QED
    BY <2>1, <2>2 DEF AccessTypeOK, AccessInv, TypeInv, LockInv
<1> QED
  BY <1>1, AccessInit, AccessStep, PTL DEF Spec

\* Whatever handlers overlap, fail or are cancelled, and in whatever order
\* their transactions commit: nothing is on the list of allowed hosts or
\* modules that a committed approval did not put there.
THEOREM CacheCorrect ==
    Spec => []CacheOnlyApproved
<1>1. AccessInv => CacheOnlyApproved
  BY DEF AccessInv, SourceInv, From, CacheOnlyApproved
<1> QED
  BY <1>1, AccessInit, AccessStep, PTL DEF Spec

\* A handler during whose session nobody else has committed, and that changes
\* the approved rows or the list, leaves the list as the approved rows say:
\* _sync_allowed_hosts and sync_allowed_modules are called wherever they have
\* to be.
THEOREM SyncCorrect ==
    Spec => MutationsSync
<1>1. ASSUME AccessInv, [Next]_vars, NEW p \in Handlers,
             h[p].pc = "commit", h'[p] = Idle, h[p].alone,
             Approved(requests') # Approved(requests) \/ cache' # cache
      PROVE  cache' = Entries(kind, Approved(requests'))
  <2>1. /\ requests' = Seen(p) /\ kind' = kind
        /\ cache' = IF h[p].wrote THEN h[p].entries ELSE cache
    BY <1>1, OnlyCommits DEF Commit
  <2>2. Synced(p)
    BY <1>1 DEF AccessInv, SyncInv
  <2>3. CASE h[p].syncs
    BY <1>1, <2>1, <2>2, <2>3 DEF Synced, Entries
  <2>4. CASE ~h[p].syncs
    <3>1. cache' = cache
      BY <2>1, <2>2, <2>4 DEF Synced
    <3>2. Approved(Seen(p)) = Approved(requests)
      BY <2>2, <2>4 DEF Synced, Approved, Seen
    <3> QED
      BY <1>1, <2>1, <3>1, <3>2
  <2> QED
    BY <2>3, <2>4
<1>2. AccessInv /\ [Next]_vars =>
         [\A p \in Handlers :
            (/\ h[p].pc = "commit" /\ h'[p] = Idle /\ h[p].alone
             /\ Approved(requests') # Approved(requests) \/ cache' # cache)
            => cache' = Entries(kind, Approved(requests'))]_vars
  BY <1>1
<1> QED
  BY <1>2, AccessInit, AccessStep, PTL DEF Spec, MutationsSync
=============================================================================
