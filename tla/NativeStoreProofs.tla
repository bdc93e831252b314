-------------------------- MODULE NativeStoreProofs --------------------------
(***************************************************************************)
(* Proofs about NativeStore for every set of writers, every graph, every   *)
(* threshold and with or without crashes.                                  *)
(*                                                                         *)
(* CommittedStateIsVisible is not inductive: whether a commit leaves what  *)
(* it meant to depends on what the writer loaded some steps before, and on *)
(* who else may have written since.  The strengthening has two halves.     *)
(* Control says who holds the lock and what each stage of an operation has *)
(* at hand; Content says that, outside the unguarded windows, what a       *)
(* writer loaded is still what the store is meant to hold.                 *)
(***************************************************************************)
EXTENDS NativeStore, TLAPS

\* Past the load, an operation other than a rescan holds the lock.
Guarded(w) == pc[w] \in {"locked", "staged", "replaced", "releasing"} /\ job[w] # "rescan"
Exclusion ==
  /\ \A w \in Writers : Guarded(w) => w \in inside
  /\ \A v, w \in inside : v = w

\* What each stage of an operation has at hand.
Stages ==
  \A w \in Writers :
    /\ pc[w] \in {"idle", "releasing"} => job[w] = "update"
    /\ pc[w] = "computed" => job[w] # "compact"
    /\ pc[w] = "locked" => job[w] # "rescan"
    /\ pc[w] \in {"computed", "locked", "staged", "replaced"} =>
         /\ current[w] \in Graph
         /\ job[w] # "rescan" => base # NoGraph
         /\ job[w] = "update" => previous[w] \in Graph
         /\ job[w] # "compact" => Valid(current[w])

\* Once there is a base, a graph is meant to be in the store.
Begun == base # NoGraph => intended \in Graph

\* An empty sidecar has no effect.
NoRecordNoEffect == records = 0 => overlay = EmptyDelta

Control == TypeOK /\ Exclusion /\ Stages /\ Begun /\ NoRecordNoEffect

\* What a writer loaded is still what the store is meant to hold.
LoadedIsIntended ==
  \A w \in Writers : ~stale[w] =>
    /\ job[w] = "update" /\ pc[w] \in {"computed", "locked", "staged"} => previous[w] = intended
    /\ job[w] = "compact" /\ pc[w] \in {"locked", "staged"} => current[w] = intended

\* Between the rename and the unlink, what is about to go has no effect.
SidecarIsFolded ==
  \A w \in Writers : pc[w] = "replaced" /\ job[w] # "rescan" => older \/ records = 0

Content == ~exposed => Visible = intended /\ LoadedIsIntended /\ SidecarIsFolded

IInv == Control /\ Content

-----------------------------------------------------------------------------
\* The delta algebra.  The record computed from two graphs is one.
LEMMA BetweenType == \A g, h \in Graph : Between(g, h) \in Delta
BY DEF Between, Graph, Delta

\* Listing the dropped edges leaves a record a record.
LEMMA CascadeType == \A d \in Delta : Cascade(d) \in Delta
BY DEF Cascade, Delta

\* What writer w records is a record.
LEMMA DeltaOfType ==
  ASSUME NEW w, previous[w] \in Graph, current[w] \in Graph PROVE DeltaOf(w) \in Delta
BY BetweenType, CascadeType DEF DeltaOf

\* Replaying a record over a graph gives a graph.
LEMMA ApplyType == \A g \in Graph, d \in Delta : Apply(g, d) \in Graph
BY ValueAssumption DEF Apply, Graph, Delta

\* Replaying two records in turn is replaying a record.
LEMMA ComposeType == \A d, e \in Delta : Compose(d, e) \in Delta
BY DEF Compose, Delta

\* Replaying the difference of two graphs over the first gives the second: the
\* cascade drops no edge that the second has, since the second is valid.
LEMMA ApplyBetween ==
  ASSUME NEW g \in Graph, NEW h \in Graph, Valid(h) PROVE Apply(g, Cascade(Between(g, h))) = h
<1>1. ASSUME NEW k \in Keys PROVE Apply(g, Cascade(Between(g, h)))[k] = h[k]
  <2>1. CASE g[k] = h[k] /\ \E n \in Ends[k] : Between(g, h)[n] = Absent
    <3>1. PICK n \in Ends[k] : Between(g, h)[n] = Absent
      BY <2>1
    <3>2. n \in Keys
      BY EndsAssumption
    <3>3. h[n] = Absent
      BY <3>1, <3>2, ValueAssumption DEF Between
    <3>4. h[k] = Absent
      BY <3>3 DEF Valid
    <3> QED BY <2>1, <3>4, ValueAssumption DEF Apply, Cascade, Between
  <2>2. CASE g[k] = h[k] /\ ~\E n \in Ends[k] : Between(g, h)[n] = Absent
    BY <2>2 DEF Apply, Cascade, Between
  <2>3. CASE g[k] # h[k]
    BY <2>3, ValueAssumption DEF Apply, Cascade, Between, Graph
  <2> QED BY <2>1, <2>2, <2>3
<1> QED BY <1>1 DEF Apply, Graph

\* Composition of records is what it is meant to be.
LEMMA ApplyCompose ==
  \A g \in Graph, d, e \in Delta : Apply(g, Compose(d, e)) = Apply(Apply(g, d), e)
BY ValueAssumption DEF Apply, Compose, Graph, Delta

\* The record that touches no key changes nothing.
LEMMA ApplyEmpty == \A g \in Graph : Apply(g, EmptyDelta) = g
BY DEF Apply, EmptyDelta, Graph

\* The record that touches no key is a record.
LEMMA EmptyType == EmptyDelta \in Delta
BY DEF EmptyDelta, Delta

\* A reader gets a graph as soon as there is a base.
LEMMA VisibleType == TypeOK => Visible \in Graph \union {NoGraph} /\ (base # NoGraph => Visible \in Graph)
BY ApplyType, GraphAssumption DEF TypeOK, DiskTypeOK, Visible

-----------------------------------------------------------------------------
\* The initial state satisfies the inductive invariant.
LEMMA InitIInv == Init => IInv
<1> SUFFICES ASSUME Init PROVE IInv
  OBVIOUS
<1>1. TypeOK
  <2>1. DiskTypeOK
    <3>1. records \in 0 .. MaxRecords
      BY BoundAssumption DEF Init
    <3>2. torn \in BOOLEAN /\ older \in BOOLEAN
      BY DEF Init
    <3> QED BY <3>1, <3>2, EmptyType DEF Init, DiskTypeOK
  <2>2. WorkTypeOK
    BY DEF Init, WorkTypeOK
  <2>3. HistoryTypeOK
    BY DEF Init, HistoryTypeOK
  <2> QED BY <2>1, <2>2, <2>3 DEF TypeOK
<1>2. Exclusion /\ Stages /\ Begun /\ NoRecordNoEffect
  BY DEF Init, Exclusion, Guarded, Stages, Begun, NoRecordNoEffect
<1>3. Content
  BY DEF Init, Content, Visible, LoadedIsIntended, SidecarIsFolded
<1> QED BY <1>1, <1>2, <1>3 DEF IInv, Control

\* Every step of every writer preserves the control half of the invariant.
LEMMA StepControl == Control /\ [Next]_vars => Control'
<1> SUFFICES ASSUME Control, [Next]_vars PROVE Control'
  OBVIOUS
<1> USE DEF Control, TypeOK, DiskTypeOK, WorkTypeOK, HistoryTypeOK, Exclusion, Guarded, Stages, Begun, NoRecordNoEffect, Goto, disk, work
<1> USE BoundAssumption
<1>1. ASSUME NEW w \in Writers, BeginUpdate(w) PROVE Control'
  BY <1>1, VisibleType DEF BeginUpdate
<1>2. ASSUME NEW w \in Writers, BeginRescan(w) PROVE Control'
  BY <1>2 DEF BeginRescan
<1>3. ASSUME NEW w \in Writers, BeginCompact(w) PROVE Control'
  BY <1>3, VisibleType DEF BeginCompact, Lock!Enter
<1>4. ASSUME NEW w \in Writers, Acquire(w) PROVE Control'
  BY <1>4 DEF Acquire, Lock!Enter
<1>5. ASSUME NEW w \in Writers, GiveUp(w) PROVE Control'
  BY <1>5 DEF GiveUp, Forget
<1>6. ASSUME NEW w \in Writers, Append(w) PROVE Control'
  <2>1. DeltaOf(w) \in Delta
    BY <1>6, DeltaOfType DEF Append, MayAppend
  <2>2. overlay' \in Delta
    BY <1>6, <2>1, ComposeType DEF Append, AppendRecord
  <2>3. intended' \in Graph
    BY <1>6, <2>1, ApplyType DEF Append, AppendRecord
  <2>4. DiskTypeOK'
    <3>1. records' \in 0 .. MaxRecords
      BY <1>6 DEF Append, MayAppend, AppendRecord
    <3>2. torn' \in BOOLEAN /\ older' \in BOOLEAN
      BY <1>6 DEF Append, AppendRecord, Touch
    <3> QED BY <1>6, <2>2, <3>1, <3>2 DEF Append
  <2>5. WorkTypeOK' /\ HistoryTypeOK'
    BY <1>6, <2>3 DEF Append, AppendRecord, Touch, Outdate, Forget
  <2>6. Exclusion'
    BY <1>6 DEF Append, Forget
  <2>7. Stages' /\ Begun' /\ NoRecordNoEffect'
    BY <1>6, <2>3 DEF Append, AppendRecord, Forget
  <2> QED BY <2>4, <2>5, <2>6, <2>7
<1>7. ASSUME NEW w \in Writers, TornAppend(w) PROVE Control'
  <2>1. DiskTypeOK'
    BY <1>7 DEF TornAppend, MayAppend, Touch, Forget
  <2>2. WorkTypeOK' /\ HistoryTypeOK'
    BY <1>7 DEF TornAppend, MayAppend, Touch, Forget
  <2>3. Exclusion'
    BY <1>7 DEF TornAppend, MayAppend, Touch, Forget
  <2>4. Stages' /\ Begun' /\ NoRecordNoEffect'
    BY <1>7 DEF TornAppend, MayAppend, Touch, Forget
  <2> QED BY <2>1, <2>2, <2>3, <2>4
<1>8. ASSUME NEW w \in Writers, Stage(w) PROVE Control'
  <2>1. DiskTypeOK'
    BY <1>8 DEF Stage, MayRewrite
  <2>2. WorkTypeOK' /\ HistoryTypeOK'
    <3>1. PICK n \in BOOLEAN : newer' = [newer EXCEPT ![w] = n]
      BY <1>8 DEF Stage
    <3> QED BY <1>8, <3>1 DEF Stage
  <2>3. Exclusion'
    BY <1>8 DEF Stage, MayRewrite
  <2>4. Stages' /\ Begun' /\ NoRecordNoEffect'
    BY <1>8 DEF Stage, MayRewrite
  <2> QED BY <2>1, <2>2, <2>3, <2>4
<1>9. ASSUME NEW w \in Writers, Replace(w) PROVE Control'
  <2>1. current[w] \in Graph
    BY <1>9 DEF Replace
  <2>2. intended' \in Graph
    <3>1. CASE job[w] = "update"
      <4>1. DeltaOf(w) \in Delta
        BY <1>9, <3>1, DeltaOfType DEF Replace
      <4> QED BY <1>9, <3>1, <4>1, ApplyType DEF Replace
    <3>2. CASE job[w] # "update"
      BY <1>9, <3>2 DEF Replace
    <3> QED BY <3>1, <3>2
  <2>3. DiskTypeOK'
    BY <1>9, <2>1 DEF Replace
  <2>4. WorkTypeOK' /\ HistoryTypeOK'
    BY <1>9, <2>2 DEF Replace, Outdate
  <2>5. Exclusion'
    BY <1>9 DEF Replace
  <2>6. base' # NoGraph
    BY <1>9, <2>1, GraphAssumption DEF Replace, Graph
  <2>7. Stages' /\ Begun' /\ NoRecordNoEffect'
    BY <1>9, <2>2, <2>6 DEF Replace
  <2> QED BY <2>3, <2>4, <2>5, <2>7
<1>10. ASSUME NEW w \in Writers, ReplaceFails(w) PROVE Control'
  <2>1. DiskTypeOK'
    BY <1>10 DEF ReplaceFails, Saved, Forget
  <2>2. WorkTypeOK' /\ HistoryTypeOK'
    BY <1>10 DEF ReplaceFails, Saved, Forget
  <2>3. Exclusion'
    BY <1>10 DEF ReplaceFails, Saved, Forget
  <2>4. Stages' /\ Begun' /\ NoRecordNoEffect'
    BY <1>10 DEF ReplaceFails, Saved, Forget
  <2> QED BY <2>1, <2>2, <2>3, <2>4
<1>11. ASSUME NEW w \in Writers, Unlink(w) PROVE Control'
  <2>1. DiskTypeOK'
    <3>1. records' \in 0 .. MaxRecords
      BY <1>11 DEF Unlink
    <3>2. torn' \in BOOLEAN /\ older' \in BOOLEAN
      BY <1>11 DEF Unlink
    <3> QED BY <1>11, EmptyType, <3>1, <3>2 DEF Unlink
  <2>2. WorkTypeOK' /\ HistoryTypeOK'
    BY <1>11, EmptyType DEF Unlink, Saved, Forget
  <2>3. Exclusion'
    BY <1>11 DEF Unlink, Saved, Forget
  <2>4. Stages' /\ Begun' /\ NoRecordNoEffect'
    BY <1>11, EmptyType DEF Unlink, Saved, Forget
  <2> QED BY <2>1, <2>2, <2>3, <2>4
<1>12. ASSUME NEW w \in Writers, Release(w) PROVE Control'
  BY <1>12 DEF Release, Lock!Leave
<1>13. ASSUME NEW w \in Writers, Die(w) PROVE Control'
  BY <1>13 DEF Die, Forget
<1>14. CASE UNCHANGED vars
  BY <1>14 DEF vars
<1> QED
  BY <1>1, <1>2, <1>3, <1>4, <1>5, <1>6, <1>7, <1>8, <1>9, <1>10, <1>11, <1>12, <1>13, <1>14
     DEF Next, Step

-----------------------------------------------------------------------------
\* Two operations past their load that respect the lock are the same writer's.
LEMMA OneGuarded ==
  Exclusion => \A v, w \in Writers : Guarded(v) /\ Guarded(w) => v = w
BY DEF Exclusion

\* Every step of every writer preserves the content half of the invariant.
LEMMA StepContent == Control /\ Control' /\ Content /\ [Next]_vars => Content'
<1> SUFFICES ASSUME Control, Control', Content, [Next]_vars, ~exposed'
             PROVE  Visible' = intended' /\ LoadedIsIntended' /\ SidecarIsFolded'
  BY DEF Content
<1> USE DEF Goto, disk, work
<1> DEFINE Result == Visible' = intended' /\ LoadedIsIntended' /\ SidecarIsFolded'
<1>a. TypeOK /\ Stages /\ Begun /\ NoRecordNoEffect
  BY DEF Control
<1>b. pc \in [Writers -> {"idle", "computed", "locked", "staged", "replaced", "releasing"}]
  BY <1>a DEF TypeOK, WorkTypeOK
<1>c. ASSUME NEW w \in Writers, NEW v \in Writers, Guarded(v), Guarded(w) PROVE v = w
  BY <1>c, OneGuarded DEF Control
<1>1. ASSUME NEW w \in Writers, BeginUpdate(w) PROVE Result
  BY <1>1, <1>a DEF BeginUpdate, Content, Visible, LoadedIsIntended, SidecarIsFolded, TypeOK, WorkTypeOK, HistoryTypeOK
<1>2. ASSUME NEW w \in Writers, BeginRescan(w) PROVE Result
  BY <1>2, <1>a DEF BeginRescan, Content, Visible, LoadedIsIntended, SidecarIsFolded, TypeOK, WorkTypeOK, HistoryTypeOK
<1>3. ASSUME NEW w \in Writers, BeginCompact(w) PROVE Result
  BY <1>3, <1>a DEF BeginCompact, Content, Visible, LoadedIsIntended, SidecarIsFolded, TypeOK, WorkTypeOK, HistoryTypeOK
<1>4. ASSUME NEW w \in Writers, Acquire(w) PROVE Result
  BY <1>4, <1>a DEF Acquire, Content, Visible, LoadedIsIntended, SidecarIsFolded, TypeOK, WorkTypeOK, HistoryTypeOK
<1>5. ASSUME NEW w \in Writers, GiveUp(w) PROVE Result
  BY <1>5, <1>a DEF GiveUp, Forget, Content, Visible, LoadedIsIntended, SidecarIsFolded, TypeOK, WorkTypeOK, HistoryTypeOK
<1>6. ASSUME NEW w \in Writers, Append(w) PROVE Result
  <2>1. ~exposed /\ ~Orphaned
    BY <1>6 DEF Append, AppendRecord, Touch
  <2>2. base \in Graph /\ DeltaOf(w) \in Delta /\ overlay \in Delta
    BY <1>6, <1>a, DeltaOfType DEF Append, MayAppend, Stages, TypeOK, DiskTypeOK
  <2>3. Visible = Apply(base, overlay)
    BY <2>1, <2>2, <1>a, ApplyEmpty, GraphAssumption
       DEF Visible, Orphaned, NoRecordNoEffect, TypeOK, DiskTypeOK, Graph
  <2>4. Visible' = Apply(base, Compose(overlay, DeltaOf(w)))
    BY <1>6, <2>2, GraphAssumption DEF Append, AppendRecord, MayAppend, Touch, Visible, Graph
  <2>5. Visible' = intended'
    BY <1>6, <2>1, <2>2, <2>3, <2>4, ApplyCompose DEF Append, AppendRecord, Content
  <2>6. LoadedIsIntended'
    <3> SUFFICES ASSUME NEW v \in Writers, ~stale'[v], pc'[v] \in {"computed", "locked", "staged"},
                        job'[v] # "rescan"
                 PROVE  FALSE
      BY DEF LoadedIsIntended
    <3>1. v # w /\ pc[v] = pc'[v] /\ job[v] = job'[v]
      BY <1>6, <1>b, <1>a DEF Append, Forget, TypeOK, WorkTypeOK
    <3>2. pc[v] # "computed"
      BY <1>6, <3>1 DEF Append, AppendRecord, Outdate, Unguarded
    <3>3. Guarded(v) /\ Guarded(w)
      BY <1>6, <3>1, <3>2 DEF Guarded, Append, MayAppend
    <3> QED BY <3>1, <3>3, <1>c
  <2>7. SidecarIsFolded'
    <3> SUFFICES ASSUME NEW v \in Writers, pc'[v] = "replaced", job'[v] # "rescan"
                 PROVE  FALSE
      BY DEF SidecarIsFolded
    <3>1. v # w /\ pc[v] = pc'[v] /\ job[v] = job'[v]
      BY <1>6, <1>b, <1>a DEF Append, Forget, TypeOK, WorkTypeOK
    <3>2. Guarded(v) /\ Guarded(w)
      BY <1>6, <3>1 DEF Guarded, Append, MayAppend
    <3> QED BY <3>1, <3>2, <1>c
  <2> QED BY <2>5, <2>6, <2>7
<1>7. ASSUME NEW w \in Writers, TornAppend(w) PROVE Result
  <2>1. ~exposed /\ ~Orphaned
    BY <1>7 DEF TornAppend, Touch
  <2>2. base \in Graph
    BY <1>7, <1>a DEF TornAppend, MayAppend, Stages, TypeOK, DiskTypeOK
  <2>3. Visible' = Visible
    BY <1>7, <2>1, <2>2, <1>a, ApplyEmpty, GraphAssumption
       DEF TornAppend, Touch, Visible, Orphaned, NoRecordNoEffect, TypeOK, DiskTypeOK, Graph
  <2>4. Visible' = intended'
    BY <1>7, <2>1, <2>3 DEF TornAppend, Content
  <2>5. LoadedIsIntended'
    BY <1>7, <1>a, <2>1 DEF TornAppend, Forget, Content, LoadedIsIntended, TypeOK, WorkTypeOK
  <2>6. SidecarIsFolded'
    <3> SUFFICES ASSUME NEW v \in Writers, pc'[v] = "replaced", job'[v] # "rescan"
                 PROVE  FALSE
      BY DEF SidecarIsFolded
    <3>1. v # w /\ pc[v] = pc'[v] /\ job[v] = job'[v]
      BY <1>7, <1>b, <1>a DEF TornAppend, Forget, TypeOK, WorkTypeOK
    <3>2. Guarded(v) /\ Guarded(w)
      BY <1>7, <3>1 DEF Guarded, TornAppend, MayAppend
    <3> QED BY <3>1, <3>2, <1>c
  <2> QED BY <2>4, <2>5, <2>6
<1>8. ASSUME NEW w \in Writers, Stage(w) PROVE Result
  <2>1. ~exposed
    BY <1>8 DEF Stage
  <2>2. Visible' = intended'
    BY <1>8, <2>1 DEF Stage, Visible, Content
  <2>3. LoadedIsIntended'
    BY <1>8, <2>1, <1>b, <1>a DEF Stage, MayRewrite, LoadedIsIntended, Content, Stages
  <2>4. SidecarIsFolded'
    BY <1>8, <2>1, <1>b DEF Stage, SidecarIsFolded, Content
  <2> QED BY <2>2, <2>3, <2>4
<1>10. ASSUME NEW w \in Writers, ReplaceFails(w) PROVE Result
  <2>1. ~exposed
    BY <1>10 DEF ReplaceFails
  <2>2. Visible' = intended'
    BY <1>10, <2>1 DEF ReplaceFails, Visible, Content
  <2>3. LoadedIsIntended'
    BY <1>10, <2>1, <1>b, <1>a
       DEF ReplaceFails, Saved, Forget, LoadedIsIntended, Content, TypeOK, WorkTypeOK
  <2>4. SidecarIsFolded'
    BY <1>10, <2>1, <1>b, <1>a
       DEF ReplaceFails, Saved, Forget, SidecarIsFolded, Content, TypeOK, WorkTypeOK
  <2> QED BY <2>2, <2>3, <2>4
<1>12. ASSUME NEW w \in Writers, Release(w) PROVE Result
  BY <1>12, <1>b DEF Release, Content, Visible, LoadedIsIntended, SidecarIsFolded
<1>13. ASSUME NEW w \in Writers, Die(w) PROVE Result
  BY <1>13, <1>b, <1>a
     DEF Die, Forget, Content, Visible, LoadedIsIntended, SidecarIsFolded, TypeOK, WorkTypeOK
<1>14. CASE UNCHANGED vars
  BY <1>14 DEF vars, Content, Visible, LoadedIsIntended, SidecarIsFolded
<1>9. ASSUME NEW w \in Writers, Replace(w) PROVE Result
  <2>1. ~StaleRewrite(w) /\ ~Replayed(w)
    BY <1>9 DEF Replace
  <2>2. current[w] \in Graph /\ base' = current[w] /\ older' = newer[w]
    BY <1>9, <1>a DEF Replace, Stages
  <2>3. older' \/ records' = 0
    BY <1>9, <2>1, <2>2, <1>a DEF Replace, Replayed, TypeOK, DiskTypeOK
  <2>4. Visible' = current[w]
    BY <1>9, <2>2, <2>3, ApplyEmpty DEF Visible, Replace, Control, NoRecordNoEffect
  <2>5. intended' = current[w]
    <3>1. CASE job[w] = "rescan"
      BY <1>9, <3>1 DEF Replace
    <3>2. CASE job[w] = "update"
      <4>1. previous[w] = intended /\ previous[w] \in Graph /\ Valid(current[w])
        BY <1>9, <2>1, <3>2, <1>a DEF Replace, Content, LoadedIsIntended, StaleRewrite, Stages
      <4> QED BY <1>9, <3>2, <4>1, <2>2, ApplyBetween DEF Replace, DeltaOf
    <3>3. CASE job[w] = "compact"
      BY <1>9, <2>1, <3>3 DEF Replace, Content, LoadedIsIntended, StaleRewrite
    <3> QED BY <3>1, <3>2, <3>3, <1>a DEF TypeOK, WorkTypeOK
  <2>6. LoadedIsIntended'
    <3> SUFFICES ASSUME NEW v \in Writers, ~stale'[v], pc'[v] \in {"computed", "locked", "staged"},
                        job'[v] # "rescan"
                 PROVE  /\ job'[v] = "update" => previous'[v] = intended'
                        /\ job'[v] = "compact" => pc'[v] = "computed" \/ current'[v] = intended'
      BY DEF LoadedIsIntended
    <3>1. v # w /\ pc[v] = pc'[v] /\ job[v] = job'[v]
      BY <1>9, <1>b DEF Replace
    <3>2. job[w] = "compact"
      <4>1. job[w] # "rescan"
        BY <1>9, <3>1 DEF Replace, Outdate
      <4>2. CASE job[w] = "update"
        <5>1. pc[v] # "computed"
          BY <1>9, <3>1, <4>2 DEF Replace, Outdate, Unguarded
        <5>2. Guarded(v) /\ Guarded(w)
          BY <1>9, <3>1, <4>1, <5>1 DEF Guarded, Replace
        <5> QED BY <3>1, <5>2, <1>c
      <4> QED BY <4>1, <4>2, <1>a DEF TypeOK, WorkTypeOK
    <3>3. pc[v] = "computed"
      <4>1. CASE pc[v] # "computed"
        <5>1. Guarded(v) /\ Guarded(w)
          BY <1>9, <3>1, <3>2, <4>1 DEF Guarded, Replace
        <5> QED BY <3>1, <5>1, <1>c
      <4> QED BY <4>1
    <3>4. job[v] = "update" => previous[v] = intended
      BY <1>9, <3>1, <3>2, <3>3 DEF Replace, Content, LoadedIsIntended
    <3> QED BY <1>9, <3>1, <3>2, <3>3, <3>4 DEF Replace
  <2>7. SidecarIsFolded'
    BY <2>3 DEF SidecarIsFolded
  <2> QED BY <2>4, <2>5, <2>6, <2>7
<1>11. ASSUME NEW w \in Writers, Unlink(w) PROVE Result
  <2>1. ~exposed
    BY <1>11 DEF Unlink
  <2>2. older \/ records = 0
    <3>1. CASE job[w] # "rescan"
      BY <1>11, <2>1, <3>1 DEF Unlink, Content, SidecarIsFolded
    <3>2. CASE job[w] = "rescan"
      <4>1. ~(records > 0 /\ ~older)
        BY <1>11, <3>2 DEF Unlink
      <4>2. records > 0 \/ records = 0
        BY <1>a, BoundAssumption DEF TypeOK, DiskTypeOK
      <4> QED BY <4>1, <4>2
    <3> QED BY <3>1, <3>2
  <2>3. Visible' = base /\ Visible = base
    BY <1>11, <2>2, <1>a, ApplyEmpty
       DEF Unlink, Visible, NoRecordNoEffect, TypeOK, DiskTypeOK
  <2>4. Visible' = intended'
    BY <1>11, <2>1, <2>3 DEF Unlink, Content
  <2>5. LoadedIsIntended'
    BY <1>11, <2>1, <1>b, <1>a
       DEF Unlink, Saved, Forget, LoadedIsIntended, Content, TypeOK, WorkTypeOK
  <2>6. SidecarIsFolded'
    BY <1>11 DEF Unlink, SidecarIsFolded
  <2> QED BY <2>4, <2>5, <2>6
<1> QED
  BY <1>1, <1>2, <1>3, <1>4, <1>5, <1>6, <1>7, <1>8, <1>9, <1>10, <1>11, <1>12, <1>13, <1>14
     DEF Next, Step

-----------------------------------------------------------------------------
\* The inductive invariant holds of every behaviour.
THEOREM Invariance == Spec => []IInv
<1>1. IInv /\ [Next]_vars => IInv'
  BY StepControl, StepContent DEF IInv
<1> QED BY InitIInv, <1>1, PTL DEF Spec

\* Every variable of the store keeps its type, the number of records within
\* the compaction threshold included.
THEOREM TypeCorrect == Spec => []TypeOK
<1>1. IInv => TypeOK
  BY DEF IInv, Control
<1> QED BY Invariance, <1>1, PTL

\* Outside the unguarded windows the store always holds exactly what the
\* committed operations were meant to leave.
THEOREM CommittedStateStaysVisible == Spec => []CommittedStateIsVisible
<1>1. IInv => CommittedStateIsVisible
  BY DEF IInv, Content, CommittedStateIsVisible
<1> QED BY Invariance, <1>1, PTL
-----------------------------------------------------------------------------
\* What is lost with a node: in a valid graph nothing hangs on an absent node,
\* and a record that deletes a node drops the edges at it, from whatever graph it
\* is replayed over, unless it holds them, which a valid graph's record does not.
LEMMA DeletionCascades ==
  ASSUME NEW g \in Graph, NEW h \in Graph, Valid(h), NEW old \in Graph,
         NEW e \in Keys, NEW n \in Ends[e],
         old[n] # Absent, Apply(old, Cascade(Between(g, h)))[n] = Absent
  PROVE  Apply(old, Cascade(Between(g, h)))[e] = Absent
<1>1. n \in Keys /\ Ends[n] = {}
  BY EndsAssumption
<1>2. Between(g, h)[n] = Absent /\ h[n] = Absent
  BY <1>1, ValueAssumption DEF Apply, Cascade, Between
<1>3. h[e] = Absent
  BY <1>2 DEF Valid
<1> QED BY <1>1, <1>2, <1>3, ValueAssumption DEF Apply, Cascade, Between

\* A step that leaves alone what is meant to be in the store leaves alone, outside
\* the windows, what is in it; so that only commits take anything away.
LEMMA OnlyCommitsDelete ==
  ASSUME IInv, IInv', ~exposed', intended' = intended, exposed => exposed'
  PROVE  Visible' = Visible
BY DEF IInv, Content

\* The step a commit makes.
LEMMA StepDeletes ==
  ASSUME IInv, IInv', [Next]_vars, base # NoGraph, ~exposed',
         NEW e \in Keys, NEW n \in Ends[e], Visible[n] # Absent, Visible'[n] = Absent
  PROVE  Visible'[e] = Absent
<1>1. n \in Keys
  BY EndsAssumption
<1>2. ASSUME NEW w \in Writers, Append(w) PROVE Visible'[e] = Absent
  <2>1. ~exposed /\ ~Orphaned /\ ~torn /\ older' = FALSE /\ base' = base
    BY <1>2 DEF Append, MayAppend, AppendRecord, Touch
  <2>2. /\ pc[w] = "locked" /\ job[w] = "update"
        /\ previous[w] \in Graph /\ current[w] \in Graph /\ Valid(current[w])
    BY <1>2 DEF Append, MayAppend, Goto, IInv, Control, Stages
  <2>3. Visible = intended /\ Visible' = intended' /\ Visible \in Graph
    BY <2>1, VisibleType DEF IInv, Content, Control
  <2>4. Visible' = Apply(Visible, Cascade(Between(previous[w], current[w])))
    BY <1>2, <2>3 DEF Append, AppendRecord, DeltaOf
  <2> QED BY <2>2, <2>3, <2>4, DeletionCascades
<1>3. ASSUME NEW w \in Writers, Replace(w) PROVE Visible'[e] = Absent
  <2>1. CASE job[w] = "compact"
    <3>1. intended' = intended /\ (exposed => exposed')
      BY <1>3, <2>1 DEF Replace
    <3> QED BY <3>1, OnlyCommitsDelete
  <2>2. CASE job[w] # "compact"
    <3>1. current[w] \in Graph /\ Valid(current[w])
      BY <1>3, <2>2 DEF Replace, Goto, IInv, Control, Stages
    <3>2. base' = current[w] /\ older' = newer[w] /\ overlay' = overlay /\ (records = 0 \/ newer[w])
      <4>1. records \in Nat
        BY BoundAssumption DEF IInv, Control, TypeOK, DiskTypeOK
      <4> QED BY <1>3, <4>1 DEF Replace, Replayed
    <3>3. Visible' = current[w]
      <4>1. records = 0 => overlay = EmptyDelta
        BY DEF IInv, Control, NoRecordNoEffect
      <4> QED BY <3>1, <3>2, <4>1, ApplyEmpty, GraphAssumption DEF Visible
    <3> QED BY <3>1, <3>3 DEF Valid
  <2> QED BY <2>1, <2>2
<1>4. ASSUME NEW w \in Writers, Step(w), ~Append(w), ~Replace(w) PROVE Visible'[e] = Absent
  <2>1. CASE BeginUpdate(w) \/ BeginRescan(w) \/ BeginCompact(w) \/ Acquire(w) \/ GiveUp(w)
    <3>1. intended' = intended /\ exposed' = exposed
      BY <2>1 DEF BeginUpdate, BeginRescan, BeginCompact, Acquire, GiveUp
    <3> QED BY <3>1, OnlyCommitsDelete
  <2>2. CASE TornAppend(w) \/ Unlink(w)
    <3>1. intended' = intended /\ (exposed => exposed')
      BY <2>2 DEF TornAppend, Touch, Unlink
    <3> QED BY <3>1, OnlyCommitsDelete
  <2>3. CASE Stage(w) \/ ReplaceFails(w) \/ Release(w) \/ Die(w)
    <3>1. intended' = intended /\ exposed' = exposed
      BY <2>3 DEF Stage, ReplaceFails, Release, Die
    <3> QED BY <3>1, OnlyCommitsDelete
  <2> QED BY <1>4, <2>1, <2>2, <2>3 DEF Step
<1>5. CASE UNCHANGED vars
  <2>1. intended' = intended /\ (exposed => exposed')
    BY <1>5 DEF vars
  <2> QED BY <2>1, OnlyCommitsDelete
<1> QED BY <1>2, <1>3, <1>4, <1>5 DEF Next

\* An action property: outside the windows a node never goes without the edges at
\* it, those that another writer added since the deleting one's load included.
THEOREM DeletedNodeTakesItsEdgesHolds == Spec => DeletedNodeTakesItsEdges
<1>1. IInv /\ IInv' /\ [Next]_vars =>
        [base # NoGraph /\ ~exposed' =>
           \A e \in Keys : \A n \in Ends[e] :
             Visible[n] # Absent /\ Visible'[n] = Absent => Visible'[e] = Absent]_vars
  BY StepDeletes
<1> QED BY <1>1, Invariance, PTL DEF Spec, DeletedNodeTakesItsEdges
=============================================================================
