----------------------------- MODULE SourceSync -----------------------------
(***************************************************************************)
(* Keeping the saved graph in step with a Git worktree                     *)
(* (services/lifecycle.py, services/freshness.py, retrieval/git_utils.py,  *)
(* scanner/core.py, runtime/manifest.py).  A refresh takes its candidates  *)
(* from Git: the paths that differ from HEAD and those that changed        *)
(* between the manifest's `source_revision`, the anchor, and HEAD.  It     *)
(* hashes only the candidates against the manifest, splices what differs   *)
(* into the graph, saves the graph, then the manifest, then the anchor.    *)
(*                                                                         *)
(* The graph is, for each path, the content it was extracted from.  The    *)
(* developer edits, commits and checks out at any time, and the refreshing *)
(* process may die or fail at any step.  One process refreshes at a time;  *)
(* what concurrent ones do to the store is module NativeStore.  Ignore     *)
(* rules, and changes of the scan options, are left out.                   *)
(***************************************************************************)
EXTENDS Naturals, Sequences, FiniteSets

CONSTANTS
  Paths,       \* source files
  Contents,    \* what a file may hold
  Gone,        \* there is no such file, no node and no manifest row of it
  Unreadable,  \* what is made of a file that vanishes while it is looked at
  MaxCommits,  \* bound: commits of the repository
  MaxChanges   \* bound: steps of the developer

ASSUME ContentAssumption == Gone \notin Contents /\ Unreadable \notin Contents \union {Gone}
ASSUME BoundAssumption   == MaxCommits \in Nat \ {0} /\ MaxChanges \in Nat

VARIABLES
  tree,      \* the worktree
  commits,   \* the committed trees
  head,      \* HEAD
  changes,   \* how many steps the developer took
  graph,     \* the saved graph
  hashes,    \* the manifest's `files`: the hash of each
  anchor,    \* the manifest's `source_revision`
  pc,        \* where the refresh is
  kind,      \* what it is
  listed,    \* the worktree paths that the process last had from Git
  changed, removed,  \* its candidates, later the paths to extract and to drop
  taken,     \* the hashes of the paths to extract
  current,   \* the graph it saves
  base,      \* the revision it will anchor; 0 for none
  seen,      \* history: what each path has held
  eluded,    \* history: the paths of which a change may show in no list of Git
  unproven,  \* history: an anchor whose interval nobody diffed may be saved
  calm       \* history: nothing disturbed this sync since its worktree listing

developer == <<tree, commits, head, changes, seen>>
manifest  == <<hashes, anchor>>
work      == <<kind, listed, changed, removed, taken, current, base>>
history   == <<eluded, unproven>>
vars      == <<developer, graph, manifest, pc, work, history, calm>>

Held   == Contents \union {Gone}
Known  == Held \union {Unreadable}
Tree   == [Paths -> Held]
NoList == [changed |-> {}, deleted |-> {}]
Blank  == [p \in Paths |-> Gone]

Stages == {"idle", "loaded", "listed", "differs", "compared", "anchored", "updating",
           "scanning", "walking", "hashed", "extracted", "saved", "anchoring", "done"}

TypeOK ==
  /\ tree \in Tree /\ commits \in Seq(Tree) /\ head \in DOMAIN commits
  /\ changes \in 0 .. MaxChanges
  /\ graph \in [Paths -> Known] /\ hashes \in [Paths -> Held] /\ anchor \in DOMAIN commits
  /\ pc \in Stages /\ kind \in {"sync", "update", "scan", "repair"}
  /\ listed \in [changed : SUBSET Paths, deleted : SUBSET Paths]
  /\ changed \in SUBSET Paths /\ removed \in SUBSET Paths
  /\ taken \in [Paths -> Held] /\ current \in [Paths -> Known]
  /\ base \in 0 .. Len(commits)
  /\ seen \in [Paths -> SUBSET Held] /\ eluded \in SUBSET Paths
  /\ unproven \in BOOLEAN /\ calm \in BOOLEAN
  /\ \A p \in Paths : pc \in {"hashed", "extracted", "saved"} => (taken[p] # Gone <=> p \in changed)

\* A repository just committed and scanned.
Init ==
  /\ tree \in Tree /\ commits = <<tree>> /\ head = 1 /\ changes = 0
  /\ graph = tree /\ hashes = tree /\ anchor = 1
  /\ pc = "idle" /\ kind = "sync" /\ listed = NoList
  /\ changed = {} /\ removed = {} /\ taken = Blank /\ current = Blank /\ base = 0
  /\ seen = [p \in Paths |-> {tree[p]}] /\ eluded = {}
  /\ unproven = FALSE /\ calm = FALSE

-----------------------------------------------------------------------------
\* The developer.

\* The worktree becomes `next`.
Hold(next) ==
  /\ tree' = next
  /\ seen' = [p \in Paths |-> seen[p] \union {next[p]}]
  /\ eluded' = eluded \union {p \in Paths : next[p] # tree[p] /\ next[p] \in seen[p]}
  /\ calm' = FALSE

\* From where HEAD is compared or diffed to where it is read again to become the
\* anchor: a HEAD that moves in between is anchored with nothing diffed (the
\* first window).
Moved == unproven' = (unproven \/ pc = "compared")

Edit(p) ==
  /\ \E c \in Held \ {tree[p]} : Hold([tree EXCEPT ![p] = c])
  /\ UNCHANGED <<commits, head, graph, manifest, pc, work, unproven>>

Commit ==
  /\ Len(commits) < MaxCommits
  /\ \E ps \in SUBSET {p \in Paths : tree[p] # commits[head][p]} :
       /\ ps # {}
       /\ commits' = Append(commits, [p \in Paths |-> IF p \in ps THEN tree[p] ELSE commits[head][p]])
       /\ head' = Len(commits')
       /\ Moved
  /\ calm' = FALSE
  /\ UNCHANGED <<tree, seen, eluded, graph, manifest, pc, work>>

\* Git refuses to overwrite local changes, and keeps those it need not touch.
Checkout ==
  \E r \in DOMAIN commits \ {head} :
    LET differ == {p \in Paths : commits[r][p] # commits[head][p]} IN
    /\ \A p \in differ : tree[p] = commits[head][p]
    /\ Hold([p \in Paths |-> IF p \in differ THEN commits[r][p] ELSE tree[p]])
    /\ head' = r
    /\ Moved
    /\ UNCHANGED <<commits, graph, manifest, pc, work>>

-----------------------------------------------------------------------------
\* What Git answers.
Split(paths, at) == [changed |-> {p \in paths : at[p] # Gone},
                     deleted |-> {p \in paths : at[p] = Gone}]

\* get_git_worktree_paths, had its two commands been one.
Worktree == Split({p \in Paths : tree[p] # commits[head][p]}, tree)

\* get_git_revision_paths: from the anchor to HEAD.
Revisions == Split({p \in Paths : commits[anchor][p] # commits[head][p]}, commits[head])

\* Candidates that the manifest disagrees with.
StaleChanged(candidates) == {p \in candidates : tree[p] \notin {Gone, hashes[p]}}
StaleDeleted(candidates) == {p \in candidates : hashes[p] # Gone}

-----------------------------------------------------------------------------
\* The refresh.
Goto(from, to) == pc = from /\ pc' = to

\* refresh_saved_graph with sync_git loads the graph and the manifest.
BeginSync ==
  /\ Goto("idle", "loaded")
  /\ kind' = "sync"
  /\ UNCHANGED <<developer, graph, manifest, listed, changed, removed, taken, current, base,
                 history, calm>>

\* get_git_sync_paths lists the worktree: the process may still have an earlier
\* list (how old, is not modelled), and a Git that fails or times out lists nothing.
List ==
  /\ Goto("loaded", "listed")
  /\ listed' \in {Worktree, listed, NoList}
  /\ calm' = (listed' = Worktree)
  /\ changed' = listed'.changed /\ removed' = listed'.deleted
  /\ UNCHANGED <<developer, graph, manifest, kind, taken, current, base, history>>

CompareHead ==
  /\ pc = "listed"
  /\ pc' = IF head = anchor THEN "compared" ELSE "differs"
  /\ UNCHANGED <<developer, graph, manifest, work, history, calm>>

\* rev-parse fails or times out: the repository is taken for none at all, and
\* the committed interval for proven (the second window).
CompareFails ==
  /\ Goto("listed", "compared")
  /\ unproven' = (unproven \/ head # anchor)
  /\ UNCHANGED <<developer, graph, manifest, work, eluded, calm>>

Diff ==
  /\ Goto("differs", "compared")
  /\ changed' = changed \union Revisions.changed
  /\ removed' = removed \union Revisions.deleted
  /\ UNCHANGED <<developer, graph, manifest, kind, listed, taken, current, base, history, calm>>

\* The interval cannot be proven: _full_rescan_fallback, and no anchor of its own.
DiffFails ==
  /\ Goto("differs", "scanning")
  /\ kind' = "scan" /\ changed' = {} /\ removed' = {}
  /\ calm' = FALSE
  /\ UNCHANGED <<developer, graph, manifest, listed, taken, current, base, history>>

\* refresh_saved_graph asks for HEAD again, for the anchor, and may get no answer.
\* A path that was listed as deleted will be dropped, even if it is back.
ReadAnchor ==
  /\ Goto("compared", "anchored")
  /\ base' \in {head, 0}
  /\ eluded' = eluded \union {p \in removed : tree[p] # Gone}
  /\ UNCHANGED <<developer, graph, manifest, kind, listed, changed, removed, taken, current,
                 unproven, calm>>

\* MUTANT of Check: what is committed is up to date.
CheckWorktree ==
  /\ pc = "anchored"
  /\ removed' = StaleDeleted(removed \intersect listed.deleted)
  /\ changed' = StaleChanged(changed \intersect listed.changed) \ removed'
  /\ pc' = IF changed' \union removed' = {} THEN "anchoring" ELSE "updating"
  /\ UNCHANGED <<developer, graph, manifest, kind, listed, taken, current, base, history, calm>>
\* It hashes the candidates.
Check ==
  /\ pc = "anchored"
  /\ removed' = StaleDeleted(removed)
  /\ changed' = StaleChanged(changed) \ removed'
  /\ pc' = IF changed' \union removed' = {} THEN "anchoring" ELSE "updating"
  /\ UNCHANGED <<developer, graph, manifest, kind, listed, taken, current, base, history, calm>>

\* update_paths_validated_graph, or remove_paths_validated_graph if none changed,
\* with the paths that the caller names, of which those it calls removed are gone
\* (the code would drop the nodes of any other as well).
BeginUpdate ==
  /\ Goto("idle", "updating")
  /\ kind' = "update" /\ base' = 0 /\ calm' = FALSE
  /\ changed' \in SUBSET Paths /\ removed' \in SUBSET {p \in Paths : tree[p] = Gone}
  /\ changed' \union removed' # {}
  /\ UNCHANGED <<developer, graph, manifest, listed, taken, current, history>>

\* The end of a run: a sync has its anchor to save, if it got one.
Finish ==
  /\ pc' = IF kind \in {"sync", "repair"} THEN "anchoring" ELSE "idle"
  /\ changed' = {} /\ removed' = {} /\ taken' = Blank /\ current' = Blank

\* The hashes of the paths to extract, and what else is extracted along with
\* them: neighbours of a removed path, hashed like the rest, and consumers of a
\* changed type, which keep the hash they have.
Hash(extract, drop) ==
  /\ \E along \in IF drop = {} THEN {{}}
                  ELSE SUBSET {p \in Paths : tree[p] # Gone /\ graph[p] # Gone} :
       changed' = extract \union (along \ drop)
  /\ removed' = drop
  /\ taken' = [p \in Paths |-> IF p \in changed' THEN tree[p] ELSE Gone]

\* update_paths drops what is gone or named as deleted, extracts what the
\* manifest disagrees with, and is over if there is neither.
Take ==
  /\ pc = "updating"
  /\ LET existing == {p \in changed \ removed : tree[p] # Gone}
         dropped  == StaleDeleted(removed \union (changed \ existing))
         extract  == StaleChanged(existing)
     IN IF extract \union dropped = {} THEN Finish
        ELSE pc' = "hashed" /\ Hash(extract, dropped) /\ UNCHANGED current
  /\ UNCHANGED <<developer, graph, manifest, kind, listed, base, history, calm>>

\* scan_validated_graph, incremental or clean.
BeginScan ==
  /\ Goto("idle", "scanning")
  /\ kind' = "scan" /\ calm' = FALSE
  /\ UNCHANGED <<developer, graph, manifest, listed, changed, removed, taken, current, base,
                 history>>

\* scan_directory captures HEAD first...
CaptureHead ==
  /\ Goto("scanning", "walking")
  /\ base' = IF kind = "repair" THEN base ELSE head
  /\ UNCHANGED <<developer, graph, manifest, kind, listed, changed, removed, taken, current,
                 history, calm>>

\* ... walks the tree and hashes every file.  An incremental scan that finds
\* nothing new saves nothing.
Walk ==
  /\ pc = "walking"
  /\ \E clean \in IF kind = "repair" THEN {TRUE} ELSE BOOLEAN :
       LET found   == {p \in Paths : tree[p] # Gone}
           extract == IF clean THEN found ELSE StaleChanged(found)
           dropped == StaleDeleted(Paths \ found)
       IN IF ~clean /\ extract \union dropped = {} THEN Finish
          ELSE pc' = "hashed" /\ Hash(extract, dropped) /\ UNCHANGED current
  /\ UNCHANGED <<developer, graph, manifest, kind, listed, base, history, calm>>

Found(p) == IF tree[p] = Gone THEN Unreadable ELSE tree[p]

\* The files are read and extracted, some of them only because a type they use
\* has changed; what is left comes from the saved graph, if the manifest has it.
Extract ==
  /\ Goto("hashed", "extracted")
  /\ \E promoted \in SUBSET {p \in Paths \ (changed \union removed) : hashes[p] # Gone} :
       current' = [p \in Paths |->
                     IF p \in changed \union promoted THEN Found(p)
                     ELSE IF p \in removed \/ hashes[p] = Gone THEN Gone ELSE graph[p]]
  /\ UNCHANGED <<developer, graph, manifest, kind, listed, changed, removed, taken, base,
                 history, calm>>

\* The graph is invalid: a full rescan follows, once.
Repair ==
  /\ Goto("extracted", "scanning")
  /\ kind # "repair"
  /\ kind' = IF kind = "sync" THEN "repair" ELSE "scan"
  /\ changed' = {} /\ removed' = {} /\ taken' = Blank /\ current' = Blank
  /\ UNCHANGED <<developer, graph, manifest, listed, base, history, calm>>

\* The graph is saved first,
SaveGraph ==
  /\ Goto("extracted", "saved")
  /\ graph' = current
  /\ UNCHANGED <<developer, manifest, work, history, calm>>

\* The hash of what was extracted, none of what was dropped, the rest as it was.
NewHash(p) == IF p \in changed THEN taken[p] ELSE IF p \in removed THEN Gone ELSE hashes[p]

\* MUTANT of NewAnchor: an update of some paths anchors HEAD.
NewAnchorAlways == head
\* A scan anchors the revision it captured, and an update keeps the old one.
NewAnchor == IF kind = "scan" THEN base ELSE anchor

\* and the manifest that describes it after it.
SaveManifest ==
  /\ pc = "saved"
  /\ hashes' = [p \in Paths |-> NewHash(p)]
  /\ anchor' = NewAnchor
  /\ Finish
  /\ eluded' = {p \in eluded : ~(graph[p] = tree[p] /\ hashes'[p] = tree[p])}
  /\ unproven' = (unproven /\ kind \notin {"scan", "repair"})
  /\ UNCHANGED <<developer, graph, kind, listed, base, calm>>

\* A sync reloads the manifest and saves its anchor.
SaveAnchor ==
  /\ Goto("anchoring", "done")
  /\ anchor' = IF base = 0 THEN anchor ELSE base
  /\ UNCHANGED <<developer, graph, hashes, work, history, calm>>

Return ==
  /\ Goto("done", "idle")
  /\ base' = 0 /\ calm' = FALSE
  /\ UNCHANGED <<developer, graph, manifest, kind, listed, changed, removed, taken, current, history>>

\* A step raises (the shrink guard, a lock, the file system), or the process dies
\* and what it had listed with it.
Fail ==
  /\ pc # "idle"
  /\ pc' = "idle"
  /\ listed' \in {listed, NoList}
  /\ changed' = {} /\ removed' = {} /\ taken' = Blank /\ current' = Blank
  /\ base' = 0 /\ calm' = FALSE
  /\ UNCHANGED <<developer, graph, manifest, kind, history>>

Develop ==
  /\ changes < MaxChanges
  /\ changes' = changes + 1
  /\ Commit \/ Checkout \/ \E p \in Paths : Edit(p)

Sync == BeginSync \/ List \/ CompareHead \/ CompareFails \/ Diff \/ DiffFails \/ ReadAnchor
          \/ Check \/ SaveAnchor \/ Return

Update == BeginUpdate \/ Take \/ Extract \/ Repair \/ SaveGraph \/ SaveManifest

Scan == BeginScan \/ CaptureHead \/ Walk

Next == Develop \/ Sync \/ Update \/ Scan \/ Fail

Spec == Init /\ [][Next]_vars

-----------------------------------------------------------------------------
\* inspect_saved_graph_freshness: the paths that are reported as stale.
Candidates == [changed |-> Worktree.changed \union Revisions.changed,
               deleted |-> Worktree.deleted \union Revisions.deleted]
Reported == StaleChanged(Candidates.changed) \union StaleDeleted(Candidates.deleted)

Stale == {p \in Paths : graph[p] # tree[p]}

\* Whatever the developer does, wherever a refresh fails: a path whose content the
\* graph does not have is reported as stale, and so will be a candidate of the
\* next sync.  Excepted are what was anchored in one of the two windows where no
\* interval is diffed, until the next scan, and, until it is extracted again, a
\* path that took back an earlier content or that a sync is to drop though it is
\* back.
NoSilentStaleness == unproven \/ Stale \subseteq Reported \union eluded

\* A sync that nothing disturbed leaves the graph as the worktree is, with the
\* same exceptions.
SyncBringsUpToDate == pc = "done" /\ calm /\ ~unproven => Stale \subseteq eluded
=============================================================================
