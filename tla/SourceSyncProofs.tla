--------------------------- MODULE SourceSyncProofs ---------------------------
(***************************************************************************)
(* Theorems about SourceSync, for every set of paths and contents, every   *)
(* number of commits and every behaviour of the developer: no staleness is *)
(* silent, and a sync that nothing disturbed leaves none.                  *)
(***************************************************************************)
EXTENDS SourceSync, SequenceTheorems, TLAPS

-----------------------------------------------------------------------------
\* What each stage is a stage of, and the candidates that a listing starts with.
Stage ==
  /\ pc \in {"loaded", "listed", "differs", "compared", "anchored"} => kind = "sync"
  /\ pc = "updating" => kind \in {"sync", "update"}
  /\ pc \in {"scanning", "walking"} => kind \in {"scan", "repair"}
  /\ calm => kind \in {"sync", "repair"} /\ pc \notin {"idle", "loaded"}
  /\ calm /\ pc \in {"listed", "differs"} =>
       changed = Worktree.changed /\ removed = Worktree.deleted
  /\ pc = "saved" => graph = current
  /\ kind = "scan" /\ pc \in {"walking", "hashed", "extracted", "saved"} => base # 0

\* All that is known of a path is something the path has held, so that it differs
\* from what the path takes up for the first time.
Remembered(p) ==
  /\ tree[p] \in seen[p] /\ hashes[p] \in seen[p]
  /\ \A r \in DOMAIN commits : commits[r][p] \in seen[p]
  /\ p \in listed.deleted \union removed => Gone \in seen[p]
  /\ pc \in {"hashed", "extracted", "saved"} /\ p \in changed => taken[p] \in seen[p]

\* A path whose content is none that the refresh, or the manifest, is about.
Fresh(p) ==
  /\ tree[p] # hashes[p] /\ tree[p] # commits[anchor][p]
  /\ base # 0 => tree[p] # commits[base][p]

UpToDate(p) == graph[p] = tree[p] /\ hashes[p] = tree[p]

\* A path is a candidate as what it is now, or needs not be one.
Listed(p) ==
  \/ tree[p] # Gone /\ p \in changed
  \/ tree[p] = Gone /\ p \in removed
  \/ UpToDate(p)

\* The paths that the anchor will vouch for, and, in an undisturbed sync, all.
Vouched(p) == calm \/ (base # 0 /\ tree[p] = commits[base][p])

\* What the saved state says of a path that did not elude Git...
Kept(p) ==
  /\ hashes[p] = tree[p] => graph[p] = tree[p]
  /\ ~unproven /\ tree[p] = commits[anchor][p] => UpToDate(p)

\* ... and what the refresh is about to do to it.
Chosen(p) ==
  /\ pc = "compared" /\ ~unproven /\ (calm \/ tree[p] = commits[head][p]) => Listed(p)
  /\ pc \in {"anchored", "updating"} =>
       /\ ~unproven /\ Vouched(p) => Listed(p)
       /\ p \in removed /\ tree[p] # Gone => Fresh(p) /\ ~calm

Planned(p) ==
  \/ NewHash(p) = tree[p]
  \/ Fresh(p) /\ ~calm
  \/ unproven /\ kind \in {"sync", "update"} /\ tree[p] # hashes[p]

Applied(p) ==
  /\ pc \in {"hashed", "extracted", "saved"} => Planned(p)
  /\ pc \in {"extracted", "saved"} /\ NewHash(p) = tree[p] => current[p] = tree[p]
  /\ pc = "anchoring" /\ ~unproven /\ Vouched(p) => UpToDate(p)
  /\ pc = "done" /\ ~unproven /\ calm => UpToDate(p)

Sound(p) == Kept(p) /\ Chosen(p) /\ Applied(p)

IInv ==
  /\ TypeOK
  /\ Stage
  /\ \A p \in Paths : Remembered(p)
  /\ \A p \in Paths \ eluded : Sound(p)

-----------------------------------------------------------------------------
\* The revisions that there are, and what a commit adds to them.
LEMMA Revision ==
  ASSUME TypeOK
  PROVE  /\ Len(commits) \in Nat /\ DOMAIN commits = 1 .. Len(commits)
         /\ \A r \in DOMAIN commits : commits[r] \in Tree /\ r # 0
         /\ base # 0 => base \in DOMAIN commits
         /\ {0, head, anchor, base} \subseteq 0 .. Len(commits)
  <1>1. Len(commits) \in Nat /\ DOMAIN commits = 1 .. Len(commits)
    BY DEF TypeOK
  <1> QED BY <1>1, ElementOfSeq DEF TypeOK

LEMMA Committed ==
  ASSUME TypeOK, NEW t \in Tree, commits' = Append(commits, t)
  PROVE  /\ commits' \in Seq(Tree) /\ Len(commits') = Len(commits) + 1
         /\ DOMAIN commits' = DOMAIN commits \union {Len(commits')}
         /\ \A r \in DOMAIN commits : commits'[r] = commits[r]
         /\ commits'[Len(commits')] = t
         /\ Len(commits') \notin DOMAIN commits
  BY Revision DEF TypeOK

\* The types of the candidates.
LEMMA SplitTyped ==
  ASSUME NEW paths \in SUBSET Paths, NEW at
  PROVE  Split(paths, at) \in [changed : SUBSET Paths, deleted : SUBSET Paths]
  BY DEF Split

\* The invariant of the types.
LEMMA InitTyped == Init => TypeOK
  <1> SUFFICES ASSUME Init PROVE TypeOK OBVIOUS
  <1>1. tree \in Tree /\ commits = <<tree>> /\ commits \in Seq(Tree) /\ Len(commits) = 1
        /\ DOMAIN commits = {1}
    BY DEF Init
  <1>2. Blank \in [Paths -> Held] /\ Blank \in [Paths -> Known] /\ Tree \subseteq [Paths -> Known]
        /\ Tree = [Paths -> Held]
    BY DEF Blank, Held, Known, Tree
  <1>3. seen \in [Paths -> SUBSET Held]
    BY <1>1 DEF Init, Tree
  <1>4. listed \in [changed : SUBSET Paths, deleted : SUBSET Paths]
    BY DEF Init, NoList
  <1>5. changes \in 0 .. MaxChanges /\ base \in 0 .. Len(commits)
    BY <1>1, BoundAssumption DEF Init
  <1> QED BY <1>1, <1>2, <1>3, <1>4, <1>5 DEF Init, TypeOK, Stages

LEMMA DeveloperTyped == ASSUME TypeOK, Develop PROVE TypeOK'
  <1>1. /\ changes' \in 0 .. MaxChanges
        /\ UNCHANGED <<graph, hashes, anchor, pc, kind, listed, changed, removed, taken, current, base>>
    <2>1. changes' \in 0 .. MaxChanges
      BY BoundAssumption DEF Develop, TypeOK
    <2>2. CASE \E p \in Paths : Edit(p)
      BY <2>1, <2>2 DEF Edit, manifest, work
    <2>3. CASE Commit
      BY <2>1, <2>3 DEF Commit, manifest, work
    <2>4. CASE Checkout
      BY <2>1, <2>4 DEF Checkout, manifest, work
    <2> QED BY <2>2, <2>3, <2>4 DEF Develop
  <1>2. /\ tree' \in Tree /\ commits' \in Seq(Tree) /\ head' \in DOMAIN commits'
        /\ DOMAIN commits \subseteq DOMAIN commits' /\ base \in 0 .. Len(commits')
        /\ seen' \in [Paths -> SUBSET Held] /\ eluded' \in SUBSET Paths
        /\ unproven' \in BOOLEAN /\ calm' \in BOOLEAN
    <2>1. ASSUME NEW next \in Tree, Hold(next)
          PROVE  /\ tree' \in Tree /\ seen' \in [Paths -> SUBSET Held] /\ eluded' \in SUBSET Paths
                 /\ calm' \in BOOLEAN
      BY <2>1 DEF Hold, TypeOK, Tree
    <2>2. CASE \E p \in Paths : Edit(p)
      <3>1. PICK p \in Paths : Edit(p)
        BY <2>2
      <3>2. PICK c \in Held : Hold([tree EXCEPT ![p] = c])
        BY <3>1 DEF Edit
      <3>3. [tree EXCEPT ![p] = c] \in Tree
        BY DEF TypeOK, Tree
      <3> QED BY <2>1, <3>1, <3>2, <3>3 DEF Edit, TypeOK
    <2>3. CASE Commit
      <3>1. PICK ps \in SUBSET {p \in Paths : tree[p] # commits[head][p]} :
              /\ commits' = Append(commits, [p \in Paths |-> IF p \in ps THEN tree[p] ELSE commits[head][p]])
              /\ head' = Len(commits') /\ Moved
        BY <2>3 DEF Commit
      <3> DEFINE t == [p \in Paths |-> IF p \in ps THEN tree[p] ELSE commits[head][p]]
      <3>2. commits[head] \in Tree
        BY Revision DEF TypeOK
      <3>3. t \in Tree
        BY <3>2 DEF TypeOK, Tree
      <3> HIDE DEF t
      <3>4. /\ commits' \in Seq(Tree) /\ DOMAIN commits' = DOMAIN commits \union {Len(commits')}
            /\ Len(commits') = Len(commits) + 1
        BY <3>1, <3>3, Committed DEF t
      <3>5. base \in 0 .. Len(commits')
        BY <3>4, Revision DEF TypeOK
      <3> QED BY <2>3, <3>1, <3>4, <3>5 DEF Commit, Moved, TypeOK, developer
    <2>4. CASE Checkout
      <3>1. PICK r \in DOMAIN commits :
              /\ Hold([p \in Paths |-> IF p \in {q \in Paths : commits[r][q] # commits[head][q]}
                                       THEN commits[r][p] ELSE tree[p]])
              /\ head' = r /\ Moved /\ commits' = commits
        BY <2>4 DEF Checkout
      <3>2. commits[r] \in Tree
        BY Revision
      <3>3. [p \in Paths |-> IF p \in {q \in Paths : commits[r][q] # commits[head][q]}
                                       THEN commits[r][p] ELSE tree[p]] \in Tree
        BY <3>2 DEF TypeOK, Tree
      <3> QED BY <2>1, <3>1, <3>3 DEF Moved, TypeOK
    <2> QED BY <2>2, <2>3, <2>4 DEF Develop
  <1> QED BY <1>1, <1>2 DEF TypeOK

LEMMA GitTyped ==
  ASSUME TypeOK
  PROVE  /\ Worktree \in [changed : SUBSET Paths, deleted : SUBSET Paths]
         /\ Revisions \in [changed : SUBSET Paths, deleted : SUBSET Paths]
         /\ NoList \in [changed : SUBSET Paths, deleted : SUBSET Paths]
         /\ Blank \in [Paths -> Held] /\ Blank \in [Paths -> Known]
  BY SplitTyped DEF Worktree, Revisions, NoList, Blank, Held, Known

LEMMA FinishTyped ==
  ASSUME TypeOK, Finish
  PROVE  /\ pc' \in {"anchoring", "idle"} /\ changed' = {} /\ removed' = {}
         /\ taken' \in [Paths -> Held] /\ current' \in [Paths -> Known]
  BY GitTyped DEF Finish

LEMMA HashTyped ==
  ASSUME TypeOK, NEW extract \in SUBSET {p \in Paths : tree[p] # Gone}, NEW drop \in SUBSET Paths,
         Hash(extract, drop)
  PROVE  /\ changed' \in SUBSET Paths /\ removed' = drop /\ extract \subseteq changed'
         /\ taken' \in [Paths -> Held]
         /\ \A p \in changed' : tree[p] # Gone /\ taken'[p] = tree[p]
         /\ \A p \in Paths \ changed' : taken'[p] = Gone
  BY DEF Hash, TypeOK, Tree, Held

LEMMA RefreshTyped == ASSUME TypeOK, Stage, Sync \/ Update \/ Scan \/ Fail PROVE TypeOK'
  <1>1. CASE BeginSync \/ CompareHead \/ CompareFails \/ SaveGraph \/ BeginScan \/ Return
    <2>1. CASE BeginSync
      BY <2>1, Revision DEF BeginSync, Goto, TypeOK, Stages, developer, manifest, work, history
    <2>2. CASE CompareHead
      BY <2>2, Revision DEF CompareHead, Goto, TypeOK, Stages, developer, manifest, work, history
    <2>3. CASE CompareFails
      BY <2>3, Revision DEF CompareFails, Goto, TypeOK, Stages, developer, manifest, work, history
    <2>4. CASE SaveGraph
      BY <2>4, Revision DEF SaveGraph, Goto, TypeOK, Stages, developer, manifest, work, history
    <2>5. CASE BeginScan
      BY <2>5, Revision DEF BeginScan, Goto, TypeOK, Stages, developer, manifest, work, history
    <2>6. CASE Return
      BY <2>6, Revision DEF Return, Goto, TypeOK, Stages, developer, manifest, work, history
    <2> QED BY <1>1, <2>1, <2>2, <2>3, <2>4, <2>5, <2>6
  <1>2. CASE List
    BY <1>2, GitTyped DEF List, Goto, TypeOK, Stages, developer, manifest, work, history
  <1>3. CASE Diff \/ DiffFails
    BY <1>3, GitTyped DEF Diff, DiffFails, Goto, TypeOK, Stages, developer, manifest, work, history
  <1>4. CASE ReadAnchor
    BY <1>4, Revision DEF ReadAnchor, Goto, TypeOK, Stages, developer, manifest, work, history
  <1>5. CASE Check
    BY <1>5 DEF Check, StaleChanged, StaleDeleted, TypeOK, Stages, developer, manifest, work, history
  <1>6. CASE BeginUpdate
    BY <1>6, Revision DEF BeginUpdate, Goto, TypeOK, Stages, developer, manifest, work, history
  <1>7. CASE Take
    <2> DEFINE existing == {p \in changed \ removed : tree[p] # Gone}
               dropped  == StaleDeleted(removed \union (changed \ existing))
               extract  == StaleChanged(existing)
    <2>1. /\ extract \in SUBSET {p \in Paths : tree[p] # Gone} /\ dropped \in SUBSET Paths
      BY DEF StaleChanged, StaleDeleted, TypeOK
    <2>2. \/ Finish
          \/ pc' = "hashed" /\ Hash(extract, dropped) /\ UNCHANGED current
      BY <1>7 DEF Take
    <2>3. UNCHANGED <<developer, graph, manifest, kind, listed, base, history, calm>>
      BY <1>7 DEF Take
    <2> HIDE DEF existing, dropped, extract
    <2>4. CASE Finish
      BY <2>3, <2>4, FinishTyped DEF TypeOK, Stages, developer, manifest, history
    <2>5. CASE pc' = "hashed" /\ Hash(extract, dropped) /\ UNCHANGED current
      BY <2>1, <2>3, <2>5, HashTyped DEF TypeOK, Stages, developer, manifest, history
    <2> QED BY <2>2, <2>4, <2>5
  <1>8. CASE CaptureHead
    BY <1>8, Revision DEF CaptureHead, Goto, TypeOK, Stages, developer, manifest, work, history
  <1>9. CASE Walk
    <2>1. PICK clean \in BOOLEAN :
            LET found   == {p \in Paths : tree[p] # Gone}
                extract == IF clean THEN found ELSE StaleChanged(found)
                dropped == StaleDeleted(Paths \ found)
            IN IF ~clean /\ extract \union dropped = {} THEN Finish
               ELSE pc' = "hashed" /\ Hash(extract, dropped) /\ UNCHANGED current
      BY <1>9 DEF Walk
    <2> DEFINE found   == {p \in Paths : tree[p] # Gone}
               extract == IF clean THEN found ELSE StaleChanged(found)
               dropped == StaleDeleted(Paths \ found)
    <2>2. /\ extract \in SUBSET {p \in Paths : tree[p] # Gone} /\ dropped \in SUBSET Paths
      BY DEF StaleChanged, StaleDeleted
    <2>3. \/ Finish
          \/ pc' = "hashed" /\ Hash(extract, dropped) /\ UNCHANGED current
      BY <2>1
    <2>4. UNCHANGED <<developer, graph, manifest, kind, listed, base, history, calm>>
      BY <1>9 DEF Walk
    <2> HIDE DEF found, dropped, extract
    <2>5. CASE Finish
      BY <2>4, <2>5, FinishTyped DEF TypeOK, Stages, developer, manifest, history
    <2>6. CASE pc' = "hashed" /\ Hash(extract, dropped) /\ UNCHANGED current
      BY <2>2, <2>4, <2>6, HashTyped DEF TypeOK, Stages, developer, manifest, history
    <2> QED BY <2>3, <2>5, <2>6
  <1>10. CASE Extract
    <2>1. PICK promoted \in SUBSET {p \in Paths \ (changed \union removed) : hashes[p] # Gone} :
            current' = [p \in Paths |->
                          IF p \in changed \union promoted THEN Found(p)
                          ELSE IF p \in removed \/ hashes[p] = Gone THEN Gone ELSE graph[p]]
      BY <1>10 DEF Extract
    <2>2. \A p \in Paths : Found(p) \in Known /\ graph[p] \in Known /\ Gone \in Known
      BY DEF Found, TypeOK, Tree, Known, Held
    <2>3. current' \in [Paths -> Known]
      BY <2>1, <2>2
    <2> QED BY <1>10, <2>3 DEF Extract, Goto, TypeOK, Stages, developer, manifest, work, history
  <1>11. CASE Repair
    BY <1>11, GitTyped DEF Repair, Goto, TypeOK, Stages, developer, manifest, work, history
  <1>12. CASE SaveManifest
    <2>1. hashes' \in [Paths -> Held]
      <3>1. \A p \in Paths : NewHash(p) \in Held
        BY DEF NewHash, TypeOK, Held
      <3> QED BY <1>12, <3>1 DEF SaveManifest
    <2>2. anchor' \in DOMAIN commits
      <3>1. kind = "scan" => base # 0
        BY <1>12 DEF SaveManifest, Stage
      <3> QED BY <1>12, <3>1, Revision DEF SaveManifest, NewAnchor, TypeOK
    <2> QED BY <1>12, <2>1, <2>2, FinishTyped DEF SaveManifest, TypeOK, Stages, developer
  <1>13. CASE SaveAnchor
    BY <1>13, Revision DEF SaveAnchor, Goto, TypeOK, Stages, developer, manifest, work, history
  <1>14. CASE Fail
    BY <1>14, GitTyped, Revision DEF Fail, TypeOK, Stages, developer, manifest, history
  <1> QED BY <1>1, <1>2, <1>3, <1>4, <1>5, <1>6, <1>7, <1>8, <1>9, <1>10, <1>11, <1>12, <1>13, <1>14
          DEF Sync, Update, Scan

-----------------------------------------------------------------------------
\* A repository that has just been scanned.
LEMMA InvariantInit == Init => IInv
  <1> SUFFICES ASSUME Init PROVE IInv OBVIOUS
  <1>1. TypeOK
    BY InitTyped
  <1>2. Stage
    BY DEF Init, Stage
  <1>3. DOMAIN commits = {1} /\ commits[1] = tree
    BY DEF Init
  <1>4. \A p \in Paths : Remembered(p)
    BY <1>3 DEF Init, Remembered, NoList
  <1>5. \A p \in Paths : Sound(p)
    BY DEF Init, Sound, Kept, Chosen, Applied, UpToDate
  <1> QED BY <1>1, <1>2, <1>4, <1>5 DEF IInv

\* What the hash of a path will be is something the path has held.
LEMMA NewHashRemembered ==
  ASSUME NEW p \in Paths, Remembered(p), pc \in {"hashed", "extracted", "saved"}
  PROVE  NewHash(p) \in seen[p]
  BY DEF Remembered, NewHash

\* The developer: a path that changes takes up a content it never had, or eludes.
LEMMA DeveloperFacts ==
  ASSUME IInv, Develop
  PROVE  /\ UNCHANGED <<graph, hashes, anchor, pc, kind, listed, changed, removed, taken, current, base>>
         /\ ~calm' /\ eluded \subseteq eluded' /\ (unproven => unproven')
         /\ pc = "compared" /\ ~unproven' => head' = head
         /\ DOMAIN commits \subseteq DOMAIN commits'
         /\ \A r \in DOMAIN commits : commits'[r] = commits[r]
         /\ \A p \in Paths :
              /\ tree'[p] = tree[p] \/ tree'[p] \notin seen[p] \/ p \in eluded'
              /\ seen[p] \subseteq seen'[p] /\ tree'[p] \in seen'[p]
              /\ \A r \in DOMAIN commits' : commits'[r][p] \in seen[p]
  <1>1. TypeOK /\ \A p \in Paths : Remembered(p)
    BY DEF IInv
  <1>2. ASSUME NEW next \in Tree, Hold(next)
        PROVE  /\ ~calm' /\ eluded \subseteq eluded'
               /\ \A p \in Paths :
                    /\ tree'[p] = tree[p] \/ tree'[p] \notin seen[p] \/ p \in eluded'
                    /\ seen[p] \subseteq seen'[p] /\ tree'[p] \in seen'[p]
    BY <1>2 DEF Hold
  <1>3. \A p \in Paths, r \in DOMAIN commits : commits[r][p] \in seen[p]
    BY <1>1 DEF Remembered
  <1>4. CASE \E p \in Paths : Edit(p)
    <2>1. PICK p \in Paths : Edit(p)
      BY <1>4
    <2>2. PICK c \in Held : Hold([tree EXCEPT ![p] = c])
      BY <2>1 DEF Edit
    <2>3. [tree EXCEPT ![p] = c] \in Tree
      BY <1>1 DEF TypeOK, Tree
    <2> QED BY <1>2, <1>3, <2>1, <2>2, <2>3 DEF Edit, manifest, work
  <1>5. CASE Commit
    <2>1. PICK ps \in SUBSET {p \in Paths : tree[p] # commits[head][p]} :
            /\ commits' = Append(commits, [p \in Paths |-> IF p \in ps THEN tree[p] ELSE commits[head][p]])
            /\ head' = Len(commits') /\ Moved
      BY <1>5 DEF Commit
    <2> DEFINE t == [p \in Paths |-> IF p \in ps THEN tree[p] ELSE commits[head][p]]
    <2>2. commits[head] \in Tree /\ head \in DOMAIN commits
      BY <1>1, Revision DEF TypeOK
    <2>3. t \in Tree /\ \A p \in Paths : t[p] \in {tree[p], commits[head][p]}
      BY <1>1, <2>2 DEF TypeOK, Tree
    <2> HIDE DEF t
    <2>4. /\ DOMAIN commits' = DOMAIN commits \union {Len(commits')}
          /\ \A r \in DOMAIN commits : commits'[r] = commits[r]
          /\ commits'[Len(commits')] = t
      BY <1>1, <2>1, <2>3, Committed DEF t
    <2>5. \A p \in Paths : tree[p] \in seen[p]
      BY <1>1 DEF Remembered
    <2>6. UNCHANGED <<tree, seen, eluded, graph, manifest, pc, work>> /\ ~calm'
      BY <1>5 DEF Commit
    <2>7. ASSUME NEW p \in Paths, NEW r \in DOMAIN commits' PROVE commits'[r][p] \in seen[p]
      BY <1>3, <2>2, <2>3, <2>4, <2>5
    <2> QED BY <2>1, <2>4, <2>5, <2>6, <2>7 DEF Moved, manifest, work
  <1>6. CASE Checkout
    <2>1. PICK r \in DOMAIN commits :
            /\ Hold([p \in Paths |-> IF p \in {q \in Paths : commits[r][q] # commits[head][q]}
                                     THEN commits[r][p] ELSE tree[p]])
            /\ head' = r /\ Moved /\ UNCHANGED <<commits, graph, manifest, pc, work>>
      BY <1>6 DEF Checkout
    <2>2. commits[r] \in Tree
      BY <1>1, Revision
    <2>3. [p \in Paths |-> IF p \in {q \in Paths : commits[r][q] # commits[head][q]}
                           THEN commits[r][p] ELSE tree[p]] \in Tree
      BY <1>1, <2>2 DEF TypeOK, Tree
    <2> QED BY <1>2, <1>3, <2>1, <2>3 DEF Moved, manifest, work
  <1> QED BY <1>4, <1>5, <1>6 DEF Develop

LEMMA DeveloperStep == ASSUME IInv, Develop PROVE IInv'
  <1>1. /\ UNCHANGED <<graph, hashes, anchor, pc, kind, listed, changed, removed, taken, current, base>>
        /\ ~calm' /\ eluded \subseteq eluded' /\ (unproven => unproven')
        /\ pc = "compared" /\ ~unproven' => head' = head
        /\ DOMAIN commits \subseteq DOMAIN commits'
        /\ \A r \in DOMAIN commits : commits'[r] = commits[r]
        /\ \A p \in Paths :
             /\ tree'[p] = tree[p] \/ tree'[p] \notin seen[p] \/ p \in eluded'
             /\ seen[p] \subseteq seen'[p] /\ tree'[p] \in seen'[p]
             /\ \A r \in DOMAIN commits' : commits'[r][p] \in seen[p]
    BY DeveloperFacts
  <1>2. /\ TypeOK /\ Stage /\ head \in DOMAIN commits /\ anchor \in DOMAIN commits
        /\ base # 0 => base \in DOMAIN commits
    BY Revision DEF IInv, TypeOK
  <1>3. TypeOK'
    BY <1>2, DeveloperTyped
  <1>4. Stage'
    BY <1>1, <1>2 DEF Stage
  <1>5. ASSUME NEW p \in Paths PROVE Remembered(p)'
    <2>1. Remembered(p)
      BY DEF IInv
    <2> QED BY <1>1, <2>1 DEF Remembered
  <1>6. ASSUME NEW p \in Paths \ eluded' PROVE Sound(p)'
    <2>1. Sound(p) /\ Remembered(p)
      BY <1>1 DEF IInv
    <2>2. NewHash(p)' = NewHash(p)
      BY <1>1 DEF NewHash
    <2>3. /\ commits'[anchor'][p] = commits[anchor][p] /\ commits[anchor][p] \in seen[p]
          /\ base # 0 => commits'[base'][p] = commits[base][p] /\ commits[base][p] \in seen[p]
          /\ pc = "compared" /\ ~unproven' =>
               commits'[head'][p] = commits[head][p] /\ commits[head][p] \in seen[p]
      BY <1>1, <1>2
    <2>4. CASE tree'[p] = tree[p]
      <3>1. (Fresh(p)' <=> Fresh(p)) /\ (Vouched(p)' => Vouched(p)) /\ (UpToDate(p)' <=> UpToDate(p))
            /\ (Listed(p)' <=> Listed(p))
        BY <1>1, <2>3, <2>4 DEF Fresh, Vouched, UpToDate, Listed
      <3>2. Kept(p)'
        BY <1>1, <2>1, <2>3, <2>4, <3>1 DEF Sound, Kept
      <3>3. Chosen(p)'
        BY <1>1, <2>1, <2>3, <2>4, <3>1 DEF Sound, Chosen
      <3>4. Applied(p)'
        BY <1>1, <2>1, <2>2, <2>4, <3>1 DEF Sound, Applied, Planned
      <3> QED BY <3>2, <3>3, <3>4 DEF Sound
    <2>5. CASE tree'[p] \notin seen[p]
      <3>1. Fresh(p)' /\ ~Vouched(p)' /\ hashes'[p] # tree'[p]
        BY <1>1, <2>1, <2>3, <2>5 DEF Fresh, Vouched, Remembered
      <3>2. pc \in {"hashed", "extracted", "saved"} => NewHash(p)' # tree'[p]
        BY <2>1, <2>2, <2>5, NewHashRemembered
      <3> QED BY <1>1, <2>3, <2>5, <3>1, <3>2 DEF Sound, Kept, Chosen, Applied, Planned, Fresh
    <2> QED BY <1>1, <2>4, <2>5
  <1> QED BY <1>3, <1>4, <1>5, <1>6 DEF IInv

-----------------------------------------------------------------------------
\* The refresh.  A step that changes no more than the stage, to one of which
\* nothing is claimed.
LEMMA QuietStep ==
  ASSUME IInv,
         BeginSync \/ BeginScan \/ CaptureHead \/ DiffFails \/ Repair \/ Fail \/ Return
  PROVE  IInv'
  <1>1. /\ UNCHANGED <<tree, commits, seen, graph, hashes, anchor, eluded, unproven>>
        /\ pc' \in {"idle", "loaded", "scanning", "walking"}
        /\ removed' \in {removed, {}} /\ listed' \in {listed, NoList}
    BY DEF BeginSync, BeginScan, CaptureHead, DiffFails, Repair, Fail, Return, Goto, developer, manifest,
           work, history
  <1>2. TypeOK /\ Stage
    BY DEF IInv
  <1>3. TypeOK'
    BY <1>2, RefreshTyped DEF Sync, Update, Scan
  <1>4. Stage'
    <2>1. CASE BeginSync \/ BeginScan \/ DiffFails \/ Fail \/ Return
      BY <1>2, <2>1 DEF Stage, BeginSync, BeginScan, DiffFails, Fail, Return, Goto
    <2>2. CASE CaptureHead
      <3>1. head # 0
        BY <1>2, Revision DEF TypeOK
      <3> QED BY <1>2, <2>2, <3>1 DEF Stage, CaptureHead, Goto
    <2>3. CASE Repair
      BY <1>2, <2>3 DEF Stage, Repair, Goto
    <2> QED BY <2>1, <2>2, <2>3
  <1>5. \A p \in Paths : Remembered(p)'
    BY <1>1 DEF IInv, Remembered, NoList
  <1>6. \A p \in Paths \ eluded' : Sound(p)'
    BY <1>1 DEF IInv, Sound, Kept, Chosen, Applied, UpToDate
  <1> QED BY <1>3, <1>4, <1>5, <1>6 DEF IInv

\* The candidates of a sync that lists the worktree are what differs in it.
LEMMA ListStep == ASSUME IInv, List PROVE IInv'
  <1>1. /\ UNCHANGED <<tree, commits, head, seen, graph, hashes, anchor, eluded, unproven, kind>>
        /\ pc = "loaded" /\ pc' = "listed" /\ listed' \in {Worktree, listed, NoList}
        /\ calm' = (listed' = Worktree) /\ changed' = listed'.changed /\ removed' = listed'.deleted
        /\ Worktree' = Worktree
    BY DEF List, Goto, developer, manifest, history, Worktree
  <1>2. TypeOK /\ Stage
    BY DEF IInv
  <1>3. TypeOK'
    BY <1>2, RefreshTyped DEF Sync
  <1>4. Stage'
    BY <1>1, <1>2 DEF Stage
  <1>5. ASSUME NEW p \in Paths PROVE Remembered(p)'
    <2>1. Remembered(p)
      BY DEF IInv
    <2>2. p \in Worktree.deleted => Gone \in seen[p]
      BY <2>1 DEF Worktree, Split, Remembered
    <2> QED BY <1>1, <2>1, <2>2 DEF Remembered, NoList
  <1>6. \A p \in Paths \ eluded' : Sound(p)'
    BY <1>1 DEF IInv, Sound, Kept, Chosen, Applied, UpToDate
  <1> QED BY <1>3, <1>4, <1>5, <1>6 DEF IInv

\* With HEAD at the anchor, or what has changed since, a path is a candidate unless
\* the saved state is right about it.
LEMMA CompareStep == ASSUME IInv, CompareHead \/ CompareFails \/ Diff PROVE IInv'
  <1>1. /\ UNCHANGED <<tree, commits, head, seen, graph, hashes, anchor, eluded, kind, listed, calm>>
        /\ pc \in {"listed", "differs"} /\ pc' \in {"differs", "compared"}
        /\ unproven => unproven'
    <2>1. CASE CompareHead
      BY <2>1 DEF CompareHead, developer, manifest, work, history
    <2>2. CASE CompareFails
      BY <2>2 DEF CompareFails, Goto, developer, manifest, work
    <2>3. CASE Diff
      BY <2>3 DEF Diff, Goto, developer, manifest, history
    <2> QED BY <2>1, <2>2, <2>3
  <1>2. TypeOK /\ Stage
    BY DEF IInv
  <1>3. TypeOK'
    BY <1>2, RefreshTyped DEF Sync
  <1>4. /\ pc' = "differs" => changed' = changed /\ removed' = removed
        /\ changed \subseteq changed' /\ removed \subseteq removed'
        /\ \A p \in removed' : p \in removed \/ commits[head][p] = Gone
    BY DEF CompareHead, CompareFails, Diff, Goto, work, Revisions, Split
  <1>5. Stage'
    <2>1. Worktree' = Worktree
      BY <1>1 DEF Worktree, Split
    <2> QED BY <1>1, <1>2, <1>4, <2>1 DEF Stage
  <1>6. head \in DOMAIN commits
    BY <1>2 DEF TypeOK
  <1>7. ASSUME NEW p \in Paths PROVE Remembered(p)'
    BY <1>1, <1>4, <1>6 DEF IInv, Remembered
  <1>8. ASSUME NEW p \in Paths \ eluded' PROVE Sound(p)'
    <2>1. Sound(p)
      BY <1>1 DEF IInv
    <2>2. calm /\ tree[p] # commits[head][p] => Listed(p)'
      <3>1. calm => changed = Worktree.changed /\ removed = Worktree.deleted
        BY <1>1, <1>2 DEF Stage
      <3> QED BY <1>1, <1>4, <3>1 DEF Worktree, Split, Listed
    <2>3. pc' = "compared" /\ ~unproven' /\ tree[p] = commits[head][p] => Listed(p)'
      <3>1. CASE pc' = "compared" /\ ~unproven' /\ commits[head][p] = commits[anchor][p]
        BY <1>1, <2>1, <3>1 DEF Sound, Kept, Listed, UpToDate
      <3>2. CASE commits[head][p] # commits[anchor][p] /\ Diff
        BY <1>1, <3>2 DEF Diff, Revisions, Split, Listed
      <3>3. CASE commits[head][p] # commits[anchor][p] /\ ~Diff
        BY <3>3 DEF CompareHead, CompareFails, Goto
      <3> QED BY <3>1, <3>2, <3>3
    <2> QED BY <1>1, <2>1, <2>2, <2>3 DEF Sound, Kept, Chosen, Applied, UpToDate
  <1> QED BY <1>3, <1>5, <1>7, <1>8 DEF IInv

\* The anchor is HEAD, which the candidates were compared with.
LEMMA ReadAnchorStep == ASSUME IInv, ReadAnchor PROVE IInv'
  <1>1. /\ UNCHANGED <<tree, commits, head, seen, graph, hashes, anchor, unproven, kind, listed, calm,
                       changed, removed>>
        /\ pc = "compared" /\ pc' = "anchored" /\ base' \in {head, 0}
        /\ eluded' = eluded \union {p \in removed : tree[p] # Gone}
    BY DEF ReadAnchor, Goto, developer, manifest
  <1>2. TypeOK /\ Stage
    BY DEF IInv
  <1>3. TypeOK'
    BY <1>2, RefreshTyped DEF Sync
  <1>4. Stage'
    BY <1>1, <1>2 DEF Stage
  <1>5. \A p \in Paths : Remembered(p)'
    BY <1>1 DEF IInv, Remembered
  <1>6. ASSUME NEW p \in Paths \ eluded' PROVE Sound(p)'
    <2>1. Sound(p) /\ (p \in removed => tree[p] = Gone)
      BY <1>1 DEF IInv
    <2> QED BY <1>1, <2>1 DEF Sound, Kept, Chosen, Applied, UpToDate, Listed, Vouched
  <1> QED BY <1>3, <1>4, <1>5, <1>6 DEF IInv

\* A candidate that the manifest agrees with needs no update.
LEMMA CheckStep == ASSUME IInv, Check PROVE IInv'
  <1>1. /\ UNCHANGED <<tree, commits, head, seen, graph, hashes, anchor, eluded, unproven, kind, listed,
                       calm, base>>
        /\ pc = "anchored" /\ removed' = StaleDeleted(removed)
        /\ changed' = StaleChanged(changed) \ removed'
        /\ pc' = IF changed' \union removed' = {} THEN "anchoring" ELSE "updating"
    BY DEF Check, developer, manifest, history
  <1>2. TypeOK /\ Stage
    BY DEF IInv
  <1>3. TypeOK'
    BY <1>2, RefreshTyped DEF Sync
  <1>4. Stage'
    BY <1>1, <1>2 DEF Stage
  <1>5. \A p \in Paths : Remembered(p)'
    BY <1>1 DEF IInv, Remembered, StaleDeleted
  <1>6. ASSUME NEW p \in Paths \ eluded' PROVE Sound(p)'
    <2>1. Sound(p)
      BY <1>1 DEF IInv
    <2>2. Fresh(p)' <=> Fresh(p)
      BY <1>1 DEF Fresh
    <2>3. ~unproven /\ Vouched(p) => Listed(p)'
      <3> SUFFICES ASSUME ~unproven, Vouched(p) PROVE Listed(p)' OBVIOUS
      <3>1. Listed(p) /\ (p \in removed /\ tree[p] # Gone => Fresh(p) /\ ~calm)
            /\ (hashes[p] = tree[p] => UpToDate(p))
        BY <1>1, <2>1 DEF Sound, Kept, Chosen, UpToDate
      <3>2. p \in removed => tree[p] = Gone
        BY <3>1 DEF Vouched, Fresh
      <3> QED BY <1>1, <3>1, <3>2 DEF Listed, UpToDate, StaleDeleted, StaleChanged
    <2>4. Vouched(p)' <=> Vouched(p)
      BY <1>1 DEF Vouched
    <2>5. Kept(p)'
      BY <1>1, <2>1 DEF Sound, Kept, UpToDate
    <2>6. Chosen(p)'
      BY <1>1, <2>1, <2>2, <2>3, <2>4 DEF Sound, Chosen, StaleDeleted
    <2>7. Applied(p)'
      BY <1>1, <2>3, <2>4 DEF Applied, Listed
    <2> QED BY <2>5, <2>6, <2>7 DEF Sound
  <1> QED BY <1>3, <1>4, <1>5, <1>6 DEF IInv

LEMMA BeginUpdateStep == ASSUME IInv, BeginUpdate PROVE IInv'
  <1>1. /\ UNCHANGED <<tree, commits, head, seen, graph, hashes, anchor, eluded, unproven, listed>>
        /\ pc' = "updating" /\ kind' = "update" /\ base' = 0 /\ ~calm'
        /\ removed' \subseteq {p \in Paths : tree[p] = Gone}
    BY DEF BeginUpdate, Goto, developer, manifest, history
  <1>2. TypeOK /\ Stage
    BY DEF IInv
  <1>3. TypeOK'
    BY <1>2, RefreshTyped DEF Update
  <1>4. Stage'
    BY <1>1, <1>2 DEF Stage
  <1>5. ASSUME NEW p \in Paths PROVE Remembered(p)'
    <2>1. Remembered(p)
      BY DEF IInv
    <2>2. p \in removed' => Gone \in seen[p]
      BY <1>1, <2>1 DEF Remembered
    <2> QED BY <1>1, <2>1, <2>2 DEF Remembered
  <1>6. ASSUME NEW p \in Paths \ eluded' PROVE Sound(p)'
    <2>1. Sound(p)
      BY <1>1 DEF IInv
    <2> QED BY <1>1, <2>1 DEF Sound, Kept, Chosen, Applied, UpToDate, Vouched
  <1> QED BY <1>3, <1>4, <1>5, <1>6 DEF IInv

\* What Hash plans for the paths to extract and to drop.
LEMMA HashFacts ==
  ASSUME IInv, NEW extract \in SUBSET {p \in Paths : tree[p] # Gone}, NEW drop \in SUBSET Paths,
         Hash(extract, drop), UNCHANGED <<tree, hashes>>,
         NEW p \in Paths, p \in drop => tree[p] = Gone
  PROVE  /\ p \in changed' \union removed' => NewHash(p)' = tree[p]
         /\ p \in changed' => tree[p] # Gone /\ taken'[p] = tree[p]
         /\ p \notin changed' \union removed' => NewHash(p)' = hashes[p]
         /\ extract \subseteq changed' /\ removed' = drop
  <1>1. /\ removed' = drop /\ extract \subseteq changed'
        /\ \A q \in changed' : tree[q] # Gone /\ taken'[q] = tree[q]
    BY HashTyped DEF IInv
  <1> QED BY <1>1 DEF NewHash

\* update_paths plans for every path it should, as far as it was told.
LEMMA TakeStep == ASSUME IInv, Take PROVE IInv'
  <1> DEFINE existing == {p \in changed \ removed : tree[p] # Gone}
             dropped  == StaleDeleted(removed \union (changed \ existing))
             extract  == StaleChanged(existing)
  <1>1. /\ UNCHANGED <<tree, commits, head, seen, graph, hashes, anchor, eluded, unproven, listed, kind,
                       base, calm>>
        /\ pc = "updating"
    BY DEF Take, developer, manifest, history
  <1>2. TypeOK /\ Stage
    BY DEF IInv
  <1>3. TypeOK'
    BY <1>2, RefreshTyped DEF Update
  <1>4. \/ Finish /\ extract = {} /\ dropped = {}
        \/ pc' = "hashed" /\ Hash(extract, dropped)
    BY DEF Take
  <1>5. extract \in SUBSET {p \in Paths : tree[p] # Gone} /\ dropped \in SUBSET Paths
    BY <1>2 DEF StaleChanged, StaleDeleted, TypeOK
  <1>6. \A p \in Paths : /\ p \in extract <=> p \in changed \ removed /\ tree[p] \notin {Gone, hashes[p]}
                         /\ p \in dropped <=> /\ p \in removed \/ (p \in changed /\ tree[p] = Gone)
                                              /\ hashes[p] # Gone
    BY DEF StaleChanged, StaleDeleted
  <1> HIDE DEF existing, dropped, extract
  <1>7. Stage'
    BY <1>1, <1>2, <1>4 DEF Stage, Finish
  <1>8. ASSUME NEW p \in Paths PROVE Remembered(p)'
    <2>1. Remembered(p)
      BY DEF IInv
    <2>2. CASE Finish
      BY <1>1, <2>1, <2>2 DEF Remembered, Finish
    <2>3. CASE pc' = "hashed" /\ Hash(extract, dropped)
      <3>1. removed' = dropped /\ \A q \in changed' : tree[q] # Gone /\ taken'[q] = tree[q]
        BY <1>2, <1>5, <2>3, HashTyped
      <3>2. p \in dropped => Gone \in seen[p]
        BY <1>6, <2>1 DEF Remembered
      <3> QED BY <1>1, <2>1, <3>1, <3>2 DEF Remembered
    <2> QED BY <1>4, <2>2, <2>3
  <1>9. ASSUME NEW p \in Paths \ eluded' PROVE Sound(p)'
    <2>1. Sound(p)
      BY <1>1 DEF IInv
    <2>2. Kept(p)' /\ Chosen(p)' /\ (Fresh(p)' <=> Fresh(p)) /\ (Vouched(p)' <=> Vouched(p))
          /\ (UpToDate(p)' <=> UpToDate(p))
      <3>1. pc' \notin {"compared", "anchored", "updating"}
        BY <1>4 DEF Finish
      <3> QED BY <1>1, <2>1, <3>1 DEF Sound, Kept, Chosen, Fresh, Vouched, UpToDate
    <2>3. /\ hashes[p] = tree[p] => UpToDate(p)
          /\ ~unproven /\ tree[p] = commits[anchor][p] => UpToDate(p)
          /\ ~unproven /\ Vouched(p) => Listed(p)
          /\ p \in removed /\ tree[p] # Gone => Fresh(p) /\ ~calm
      BY <1>1, <2>1 DEF Sound, Kept, Chosen, UpToDate
    <2>4. ~unproven /\ Vouched(p) => p \in extract \union dropped \/ UpToDate(p)
      <3> SUFFICES ASSUME ~unproven, Vouched(p), ~UpToDate(p) PROVE p \in extract \union dropped
        OBVIOUS
      <3>1. p \in removed => tree[p] = Gone
        BY <2>3 DEF Vouched, Fresh
      <3> QED BY <1>6, <2>3, <3>1 DEF Listed
    <2>5. CASE Finish /\ extract = {} /\ dropped = {}
      <3>1. ~unproven /\ Vouched(p) => UpToDate(p)
        BY <2>4, <2>5
      <3>2. pc' \in {"anchoring", "idle"}
        BY <2>5 DEF Finish
      <3> QED BY <1>1, <2>2, <3>1, <3>2 DEF Sound, Applied
    <2>6. CASE pc' = "hashed" /\ Hash(extract, dropped)
      <3>1. CASE p \in dropped /\ tree[p] # Gone
        <4>1. Fresh(p) /\ ~calm
          BY <1>6, <2>3, <3>1
        <4> QED BY <1>1, <2>2, <2>6, <4>1 DEF Sound, Applied, Planned
      <3>2. CASE p \in dropped => tree[p] = Gone
        <4>1. /\ p \in changed' \union removed' => NewHash(p)' = tree[p]
              /\ p \notin changed' \union removed' => NewHash(p)' = hashes[p]
              /\ extract \subseteq changed' /\ removed' = dropped
          BY <1>1, <1>5, <2>6, <3>2, HashFacts
        <4>2. \/ NewHash(p)' = tree[p]
              \/ tree[p] # hashes[p] /\ unproven
              \/ Fresh(p) /\ ~calm
          <5> SUFFICES ASSUME NewHash(p)' # tree[p], ~(tree[p] # hashes[p] /\ unproven)
                       PROVE  Fresh(p) /\ ~calm
            OBVIOUS
          <5>1. hashes[p] # tree[p] /\ ~unproven /\ p \notin extract \union dropped
            BY <4>1
          <5>2. ~UpToDate(p)
            BY <5>1 DEF UpToDate
          <5>3. ~Vouched(p) /\ tree[p] # commits[anchor][p]
            BY <2>3, <2>4, <5>1, <5>2
          <5> QED BY <5>1, <5>3 DEF Vouched, Fresh
        <4>3. kind \in {"sync", "update"}
          BY <1>1, <1>2 DEF Stage
        <4> QED BY <1>1, <2>2, <2>6, <4>2, <4>3 DEF Sound, Applied, Planned
      <3> QED BY <3>1, <3>2
    <2> QED BY <1>4, <2>5, <2>6
  <1> QED BY <1>3, <1>7, <1>8, <1>9 DEF IInv

\* A scan plans for every path.
LEMMA WalkStep == ASSUME IInv, Walk PROVE IInv'
  <1>1. PICK clean \in BOOLEAN :
          /\ kind = "repair" => clean
          /\ LET found   == {p \in Paths : tree[p] # Gone}
                 extract == IF clean THEN found ELSE StaleChanged(found)
                 dropped == StaleDeleted(Paths \ found)
             IN IF ~clean /\ extract \union dropped = {} THEN Finish
                ELSE pc' = "hashed" /\ Hash(extract, dropped) /\ UNCHANGED current
    BY DEF Walk
  <1> DEFINE found   == {p \in Paths : tree[p] # Gone}
             extract == IF clean THEN found ELSE StaleChanged(found)
             dropped == StaleDeleted(Paths \ found)
  <1>2. /\ UNCHANGED <<tree, commits, head, seen, graph, hashes, anchor, eluded, unproven, listed, kind,
                       base, calm>>
        /\ pc = "walking"
    BY DEF Walk, developer, manifest, history
  <1>3. TypeOK /\ Stage
    BY DEF IInv
  <1>4. TypeOK'
    BY <1>3, RefreshTyped DEF Scan
  <1>5. \/ Finish /\ kind = "scan" /\ pc' = "idle"
        \/ pc' = "hashed" /\ Hash(extract, dropped)
    BY <1>1, <1>2, <1>3 DEF Finish, Stage
  <1>6. extract \in SUBSET {p \in Paths : tree[p] # Gone} /\ dropped \in SUBSET Paths
    BY DEF StaleChanged, StaleDeleted
  <1>7. \A p \in Paths : /\ tree[p] \notin {Gone, hashes[p]} => p \in extract
                         /\ p \in dropped => tree[p] = Gone
                         /\ tree[p] = Gone /\ hashes[p] # Gone => p \in dropped
    BY DEF StaleChanged, StaleDeleted
  <1> HIDE DEF found, dropped, extract
  <1>8. Stage'
    <2>1. pc' \in {"idle", "hashed"}
      BY <1>5
    <2>2. pc' = "idle" => ~calm
      BY <1>2, <1>3, <1>5 DEF Stage, Finish
    <2> QED BY <1>2, <1>3, <2>1, <2>2 DEF Stage
  <1>9. ASSUME NEW p \in Paths PROVE Remembered(p)'
    <2>1. Remembered(p)
      BY DEF IInv
    <2>2. CASE Finish /\ pc' = "idle"
      BY <1>2, <2>1, <2>2 DEF Remembered, Finish
    <2>3. CASE pc' = "hashed" /\ Hash(extract, dropped)
      <3>1. removed' = dropped /\ \A q \in changed' : tree[q] # Gone /\ taken'[q] = tree[q]
        BY <1>3, <1>6, <2>3, HashTyped
      <3> QED BY <1>2, <1>7, <2>1, <3>1 DEF Remembered
    <2> QED BY <1>5, <2>2, <2>3
  <1>10. ASSUME NEW p \in Paths \ eluded' PROVE Sound(p)'
    <2>1. Sound(p)
      BY <1>2 DEF IInv
    <2>2. Kept(p)' /\ Chosen(p)'
      BY <1>2, <1>5, <2>1 DEF Sound, Kept, Chosen, UpToDate
    <2>3. Applied(p)'
      <3>1. CASE pc' = "idle"
        BY <3>1 DEF Applied
      <3>2. CASE pc' = "hashed" /\ Hash(extract, dropped)
        <4>1. /\ p \in changed' \union removed' => NewHash(p)' = tree[p]
              /\ p \notin changed' \union removed' => NewHash(p)' = hashes[p]
              /\ extract \subseteq changed' /\ removed' = dropped
          BY <1>2, <1>6, <1>7, <3>2, HashFacts
        <4>2. NewHash(p)' = tree[p]
          BY <1>7, <4>1
        <4> QED BY <1>2, <3>2, <4>2 DEF Applied, Planned
      <3> QED BY <1>5, <3>1, <3>2
    <2> QED BY <2>2, <2>3 DEF Sound
  <1> QED BY <1>4, <1>8, <1>9, <1>10 DEF IInv

\* What will have the hash of a path is what was extracted from it.
LEMMA ExtractStep == ASSUME IInv, Extract PROVE IInv'
  <1>1. /\ UNCHANGED <<tree, commits, head, seen, graph, hashes, anchor, eluded, unproven, listed, kind,
                       base, calm, changed, removed, taken>>
        /\ pc = "hashed" /\ pc' = "extracted"
    BY DEF Extract, Goto, developer, manifest, history
  <1>2. PICK promoted \in SUBSET {p \in Paths \ (changed \union removed) : hashes[p] # Gone} :
          current' = [p \in Paths |->
                        IF p \in changed \union promoted THEN Found(p)
                        ELSE IF p \in removed \/ hashes[p] = Gone THEN Gone ELSE graph[p]]
    BY DEF Extract
  <1>3. TypeOK /\ Stage
    BY DEF IInv
  <1>4. TypeOK'
    BY <1>3, RefreshTyped DEF Update
  <1>5. Stage'
    BY <1>1, <1>3 DEF Stage
  <1>6. \A p \in Paths : Remembered(p)'
    BY <1>1 DEF IInv, Remembered
  <1>7. ASSUME NEW p \in Paths \ eluded' PROVE Sound(p)'
    <2>1. Sound(p) /\ (p \in changed => taken[p] # Gone)
      BY <1>1, <1>3 DEF IInv, TypeOK
    <2>2. Planned(p)' /\ (NewHash(p)' <=> NewHash(p))
      BY <1>1, <2>1 DEF Sound, Applied, Planned, Fresh, NewHash
    <2>3. NewHash(p) = tree[p] => current'[p] = tree[p]
      BY <1>2, <2>1 DEF Found, NewHash, Sound, Kept
    <2>4. Kept(p)' /\ Chosen(p)'
      BY <1>1, <2>1 DEF Sound, Kept, Chosen, UpToDate
    <2>5. NewHash(p)' = NewHash(p)
      BY <1>1 DEF NewHash
    <2> QED BY <1>1, <2>2, <2>3, <2>4, <2>5 DEF Sound, Applied
  <1> QED BY <1>4, <1>5, <1>6, <1>7 DEF IInv

\* The graph is saved: where the manifest agrees with a file, it still does.
LEMMA SaveGraphStep == ASSUME IInv, SaveGraph PROVE IInv'
  <1>1. /\ UNCHANGED <<tree, commits, head, seen, hashes, anchor, eluded, unproven, listed, kind,
                       base, calm, changed, removed, taken, current>>
        /\ pc = "extracted" /\ pc' = "saved" /\ graph' = current
    BY DEF SaveGraph, Goto, developer, manifest, history, work
  <1>2. TypeOK /\ Stage
    BY DEF IInv
  <1>3. TypeOK'
    BY <1>2, RefreshTyped DEF Update
  <1>4. Stage'
    BY <1>1, <1>2 DEF Stage
  <1>5. \A p \in Paths : Remembered(p)'
    BY <1>1 DEF IInv, Remembered
  <1>6. ASSUME NEW p \in Paths \ eluded' PROVE Sound(p)'
    <2>1. Sound(p)
      BY <1>1 DEF IInv
    <2>2. Planned(p) /\ (NewHash(p) = tree[p] => current[p] = tree[p])
      BY <1>1, <2>1 DEF Sound, Applied
    <2>3. hashes[p] = tree[p] => current[p] = tree[p]
      BY <2>2 DEF Planned, Fresh
    <2>4. Kept(p)'
      BY <1>1, <2>1, <2>3 DEF Sound, Kept, UpToDate
    <2>5. Planned(p)' /\ NewHash(p)' = NewHash(p)
      BY <1>1, <2>2 DEF Planned, Fresh, NewHash
    <2> QED BY <1>1, <2>2, <2>4, <2>5 DEF Sound, Chosen, Applied
  <1> QED BY <1>3, <1>4, <1>5, <1>6 DEF IInv

\* The manifest is saved: a path that it agrees with, or whose content is that of
\* the anchor, is up to date.
LEMMA SaveManifestStep == ASSUME IInv, SaveManifest PROVE IInv'
  <1>1. /\ UNCHANGED <<tree, commits, head, seen, graph, kind, listed, base, calm>>
        /\ pc = "saved" /\ hashes' = [p \in Paths |-> NewHash(p)] /\ anchor' = NewAnchor
        /\ changed' = {} /\ removed' = {}
        /\ pc' = IF kind \in {"sync", "repair"} THEN "anchoring" ELSE "idle"
        /\ eluded' = {p \in eluded : ~(graph[p] = tree[p] /\ hashes'[p] = tree[p])}
        /\ unproven' = (unproven /\ kind \notin {"scan", "repair"})
    BY DEF SaveManifest, Finish, developer
  <1>2. TypeOK /\ Stage /\ graph = current
    BY <1>1 DEF IInv, Stage
  <1>3. TypeOK'
    BY <1>2, RefreshTyped DEF Update
  <1>4. Stage'
    BY <1>1, <1>2 DEF Stage
  <1>5. ASSUME NEW p \in Paths PROVE Remembered(p)'
    <2>1. Remembered(p) /\ NewHash(p) \in seen[p]
      BY <1>1, NewHashRemembered DEF IInv
    <2> QED BY <1>1, <2>1 DEF Remembered
  <1>6. ASSUME NEW p \in Paths \ eluded' PROVE Sound(p)'
    <2>1. hashes'[p] = NewHash(p)
      BY <1>1
    <2>2. CASE p \in eluded
      <3>1. UpToDate(p)' /\ graph'[p] = tree'[p]
        BY <1>1, <2>2 DEF UpToDate
      <3> QED BY <1>1, <3>1 DEF Sound, Kept, Chosen, Applied
    <2>3. CASE p \notin eluded
      <3>1. Planned(p) /\ (NewHash(p) = tree[p] => graph[p] = tree[p])
        BY <1>1, <1>2, <2>3 DEF IInv, Sound, Applied
      <3>2. NewHash(p) = tree[p] => UpToDate(p)'
        BY <1>1, <2>1, <3>1 DEF UpToDate
      <3>3. ~unproven' => NewHash(p) = tree[p] \/ (Fresh(p) /\ ~calm)
        BY <1>1, <3>1 DEF Planned
      <3>4. kind = "scan" => base # 0
        BY <1>1, <1>2 DEF Stage
      <3>5. Fresh(p) => tree[p] # commits[anchor'][p]
        BY <1>1, <3>4 DEF Fresh, NewAnchor
      <3>6. Kept(p)'
        BY <1>1, <2>1, <3>1, <3>2, <3>3, <3>5 DEF Kept
      <3>7. Applied(p)'
        BY <1>1, <3>2, <3>3 DEF Applied, Vouched, Fresh
      <3> QED BY <1>1, <3>6, <3>7 DEF Sound, Chosen
    <2> QED BY <2>2, <2>3
  <1> QED BY <1>3, <1>4, <1>5, <1>6 DEF IInv

\* The anchor is saved.
LEMMA SaveAnchorStep == ASSUME IInv, SaveAnchor PROVE IInv'
  <1>1. /\ UNCHANGED <<tree, commits, head, seen, graph, hashes, eluded, unproven, listed, kind,
                       base, calm, changed, removed, taken, current>>
        /\ pc = "anchoring" /\ pc' = "done" /\ anchor' = IF base = 0 THEN anchor ELSE base
    BY DEF SaveAnchor, Goto, developer, history, work
  <1>2. TypeOK /\ Stage
    BY DEF IInv
  <1>3. TypeOK'
    BY <1>2, RefreshTyped DEF Sync
  <1>4. Stage'
    BY <1>1, <1>2 DEF Stage
  <1>5. \A p \in Paths : Remembered(p)'
    BY <1>1 DEF IInv, Remembered
  <1>6. ASSUME NEW p \in Paths \ eluded' PROVE Sound(p)'
    <2>1. Sound(p)
      BY <1>1 DEF IInv
    <2>2. ~unproven /\ Vouched(p) => UpToDate(p)
      BY <1>1, <2>1 DEF Sound, Applied
    <2>3. Kept(p)'
      BY <1>1, <2>1, <2>2 DEF Sound, Kept, UpToDate, Vouched
    <2>4. Applied(p)'
      BY <1>1, <2>2 DEF Applied, Vouched, UpToDate
    <2> QED BY <1>1, <2>3, <2>4 DEF Sound, Chosen
  <1> QED BY <1>3, <1>4, <1>5, <1>6 DEF IInv

\* Every step keeps the invariant.
LEMMA InvariantStep == IInv /\ [Next]_vars => IInv'
  <1> SUFFICES ASSUME IInv, [Next]_vars PROVE IInv' OBVIOUS
  <1>1. CASE Develop
    BY <1>1, DeveloperStep
  <1>2. CASE Sync
    BY <1>2, QuietStep, ListStep, CompareStep, ReadAnchorStep, CheckStep, SaveAnchorStep DEF Sync
  <1>3. CASE Update
    BY <1>3, QuietStep, BeginUpdateStep, TakeStep, ExtractStep, SaveGraphStep, SaveManifestStep DEF Update
  <1>4. CASE Scan
    BY <1>4, QuietStep, WalkStep DEF Scan
  <1>5. CASE Fail
    BY <1>5, QuietStep
  <1>6. CASE UNCHANGED vars
    <2>1. UNCHANGED <<tree, commits, head, changes, seen, graph, hashes, anchor, pc, kind, listed, changed,
                      removed, taken, current, base, eluded, unproven, calm>>
      BY <1>6 DEF vars, developer, manifest, work, history
    <2>2. TypeOK'
      BY <2>1 DEF IInv, TypeOK
    <2>3. Stage'
      BY <2>1 DEF IInv, Stage, Worktree, Split
    <2>4. \A p \in Paths : Remembered(p)'
      BY <2>1 DEF IInv, Remembered
    <2>5. \A p \in Paths \ eluded' : Sound(p)'
      BY <2>1 DEF IInv, Sound, Kept, Chosen, Applied, Planned, NewHash, Fresh, Vouched, UpToDate, Listed
    <2> QED BY <2>2, <2>3, <2>4, <2>5 DEF IInv
  <1> QED BY <1>1, <1>2, <1>3, <1>4, <1>5, <1>6 DEF Next

\* What it says of staleness: a path that is stale and did not elude Git differs from
\* HEAD, or HEAD from the anchor, and the manifest has another hash of it.
LEMMA InvariantImplies == IInv => NoSilentStaleness /\ SyncBringsUpToDate
  <1> SUFFICES ASSUME IInv PROVE NoSilentStaleness /\ SyncBringsUpToDate OBVIOUS
  <1>1. \A p \in Paths \ eluded : Sound(p)
    BY DEF IInv
  <1>2. NoSilentStaleness
    <2> SUFFICES ASSUME ~unproven, NEW p \in Paths \ eluded, graph[p] # tree[p] PROVE p \in Reported
      BY DEF NoSilentStaleness, Stale
    <2>1. hashes[p] # tree[p] /\ tree[p] # commits[anchor][p]
      BY <1>1 DEF Sound, Kept, UpToDate
    <2>2. tree[p] # commits[head][p] \/ commits[anchor][p] # commits[head][p]
      BY <2>1
    <2>3. tree[p] # Gone => p \in Candidates.changed
      BY <2>1, <2>2 DEF Candidates, Worktree, Revisions, Split
    <2>4. tree[p] = Gone => p \in Candidates.deleted
      BY <2>1, <2>2 DEF Candidates, Worktree, Revisions, Split
    <2> QED BY <2>1, <2>3, <2>4 DEF Reported, StaleChanged, StaleDeleted
  <1>3. SyncBringsUpToDate
    BY <1>1 DEF SyncBringsUpToDate, Stale, Sound, Applied, UpToDate
  <1> QED BY <1>2, <1>3

\* The invariant holds in every behaviour of the developer and the refresh.
THEOREM Invariant == Spec => []IInv
  BY InvariantInit, InvariantStep, PTL DEF Spec

\* Whatever is edited, committed and checked out, and wherever a refresh fails, the
\* manifest, the anchor and the candidates keep their types.
THEOREM TypeCorrect == Spec => []TypeOK
  <1>1. IInv => TypeOK
    BY DEF IInv
  <1> QED BY <1>1, Invariant, PTL

\* inspect_saved_graph_freshness reports every path whose content the graph lacks,
\* but for what is named in the property.
THEOREM NoSilentStalenessHolds == Spec => []NoSilentStaleness
  BY InvariantImplies, Invariant, PTL

\* refresh_saved_graph with sync_git leaves the graph as the worktree is.
THEOREM SyncBringsUpToDateHolds == Spec => []SyncBringsUpToDate
  BY InvariantImplies, Invariant, PTL
=============================================================================
