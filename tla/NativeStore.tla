----------------------------- MODULE NativeStore -----------------------------
(***************************************************************************)
(* The native graph store: a base file "graph.gg" and the append-only      *)
(* sidecar "graph.gg.delta" beside it (storage/delta.py, io/core.py,       *)
(* storage/sectioned.py).                                                  *)
(*                                                                         *)
(* A graph is a function from keys (node ids, edge identities, and one for *)
(* the metadata) to values, and valid if no edge lacks an end.  A delta    *)
(* record says of each key what it becomes, or that it is untouched.  The  *)
(* sidecar is kept as the composition of its intact records, their number, *)
(* and whether a torn tail follows them.                                   *)
(*                                                                         *)
(* Modification times are kept as the one comparison the code makes:       *)
(* whether the sidecar is strictly older than the base.  A temporary file  *)
(* has its final mtime from the moment it is written, not from the rename. *)
(***************************************************************************)
EXTENDS Naturals, FiniteSets

CONSTANTS
  Writers,     \* processes that update, rescan or compact the store
  Keys, Vals,  \* what a graph maps, and to what
  Ends,        \* the nodes that an edge needs; none for the other keys
  Absent,      \* the value of a key the graph does not have
  Untouched,   \* a delta record does not mention the key
  NoGraph,     \* there is no base file
  MaxRecords,  \* the `max_records` argument of the incremental save
  Rescanners,  \* the writers that may run a full rescan, which takes no lock
  Crashes,     \* whether writers may die
  SameTick     \* whether a rewrite may share its mtime with the last append

ASSUME ValueAssumption   == Absent \notin Vals /\ Untouched \notin Vals \union {Absent}
ASSUME GraphAssumption   == NoGraph \notin [Keys -> Vals \union {Absent}]
ASSUME EndsAssumption    ==
  Ends \in [Keys -> SUBSET Keys] /\ \A e \in Keys : \A n \in Ends[e] : Ends[n] = {}
ASSUME BoundAssumption   == MaxRecords \in Nat \ {0}
ASSUME OptionAssumption  == Rescanners \subseteq Writers /\ Crashes \in BOOLEAN /\ SameTick \in BOOLEAN

Graph == [Keys -> Vals \union {Absent}]
Valid(graph) == \A k \in Keys : graph[k] # Absent => \A n \in Ends[k] : graph[n] # Absent
Delta == [Keys -> Vals \union {Absent, Untouched}]

\* No key is touched: GraphDelta.is_empty, and the overlay of an absent sidecar.
EmptyDelta == [k \in Keys |-> Untouched]

\* GraphDelta.between, with the edge list read as a map from edge identities.
Between(previous, current) ==
  [k \in Keys |-> IF previous[k] = current[k] THEN Untouched ELSE current[k]]

\* MUTANT of Cascade: a record only says what became of the keys it lists.
CascadeNothing(delta) == delta
\* _apply also drops every edge at a node that the record deletes, unless the
\* record holds that edge.
Cascade(delta) ==
  [k \in Keys |->
     IF delta[k] = Untouched /\ \E n \in Ends[k] : delta[n] = Absent THEN Absent ELSE delta[k]]

\* _apply, of a record whose dropped edges are listed.
Apply(graph, delta) == [k \in Keys |-> IF delta[k] = Untouched THEN graph[k] ELSE delta[k]]

\* Replaying `first` and then `second`.
Compose(first, second) == [k \in Keys |-> IF second[k] = Untouched THEN first[k] ELSE second[k]]

VARIABLES
  base,       \* the graph in the base file, or NoGraph
  records,    \* how many intact records the sidecar holds
  overlay,    \* the composition of those records
  torn,       \* the sidecar ends in a record cut short
  older,      \* the sidecar's mtime is strictly before the base's
  inside,     \* holders of the sidecar's file_lock (module Mutex)
  pc,         \* where each writer is
  job,        \* the operation each writer runs
  previous,   \* the graph each writer loaded
  current,    \* the graph each writer is saving
  newer,      \* each writer's temporary file is newer than the sidecar
  intended,   \* history: the graph the committed operations were meant to leave
  stale,      \* history: another commit followed this writer's load
  exposed     \* history: an unguarded window was entered since the last good rescan

disk == <<base, records, overlay, torn, older>>
work == <<job, previous, current, newer>>
vars == <<disk, inside, pc, work, stale, intended, exposed>>

Lock == INSTANCE Mutex WITH Procs <- Writers

DiskTypeOK ==
  /\ base \in Graph \union {NoGraph}
  /\ records \in 0 .. MaxRecords
  /\ overlay \in Delta
  /\ torn \in BOOLEAN /\ older \in BOOLEAN

WorkTypeOK ==
  /\ inside \in SUBSET Writers
  /\ pc \in [Writers -> {"idle", "computed", "locked", "staged", "replaced", "releasing"}]
  /\ job \in [Writers -> {"update", "rescan", "compact"}]
  /\ previous \in [Writers -> Graph \union {NoGraph}]
  /\ current \in [Writers -> Graph \union {NoGraph}]
  /\ newer \in [Writers -> BOOLEAN]

HistoryTypeOK ==
  /\ intended \in Graph \union {NoGraph}
  /\ stale \in [Writers -> BOOLEAN]
  /\ exposed \in BOOLEAN

TypeOK == DiskTypeOK /\ WorkTypeOK /\ HistoryTypeOK

\* What load_any returns when no write overlaps it: the base, with the sidecar
\* replayed over it unless apply_delta_sidecar finds the sidecar strictly older.
Visible == IF base = NoGraph \/ older THEN base ELSE Apply(base, overlay)

\* Records that the mtime guard of apply_delta_sidecar hides.
Orphaned == older /\ records > 0

Init ==
  /\ base = NoGraph
  /\ records = 0 /\ overlay = EmptyDelta /\ torn = FALSE /\ older = FALSE
  /\ inside = {}
  /\ pc = [w \in Writers |-> "idle"]
  /\ job = [w \in Writers |-> "update"]
  /\ previous = [w \in Writers |-> NoGraph]
  /\ current = [w \in Writers |-> NoGraph]
  /\ newer = [w \in Writers |-> FALSE]
  /\ intended = NoGraph
  /\ stale = [w \in Writers |-> FALSE]
  /\ exposed = FALSE

-----------------------------------------------------------------------------
\* What the record of writer w will change wherever it is replayed.
DeltaOf(w) == Cascade(Between(previous[w], current[w]))

Goto(w, from, to) ==
  /\ pc[w] = from
  /\ pc' = [pc EXCEPT ![w] = to]

\* A commit by w that changes what the store should hold puts what other writers
\* have loaded out of date: those that do not hold the lock yet or never will
\* and, if w itself ignores the lock, those that hold it.
Unguarded(v) == pc[v] = "computed" \/ job[v] = "rescan"
Outdate(w) ==
  stale' = [v \in Writers |->
              v # w /\ pc[v] # "idle" /\ (stale[v] \/ Unguarded(v) \/ job[w] = "rescan")]

\* The operation of w is over, and with it its local variables.
Forget(w) ==
  /\ job' = [job EXCEPT ![w] = "update"]
  /\ previous' = [previous EXCEPT ![w] = NoGraph]
  /\ current' = [current EXCEPT ![w] = NoGraph]

\* update_paths_validated_graph and its callers load the saved graph, compute
\* the new one and call save_incremental_validated_graph, which refuses an
\* invalid graph and returns at once if nothing changed.  There must be a base:
\* otherwise a rescan is run.
BeginUpdate(w) ==
  /\ Goto(w, "idle", "computed")
  /\ base # NoGraph
  /\ \E g \in {h \in Graph : Valid(h)} \ {Visible} :
       /\ previous' = [previous EXCEPT ![w] = Visible]
       /\ current' = [current EXCEPT ![w] = g]
  /\ stale' = [stale EXCEPT ![w] = FALSE]
  /\ UNCHANGED <<disk, inside, job, newer, intended, exposed>>

\* scan_validated_graph and _full_rescan_fallback compute the graph from the
\* sources and call save_validated_graph, which validates and takes no lock.
BeginRescan(w) ==
  /\ w \in Rescanners
  /\ Goto(w, "idle", "computed")
  /\ \E g \in {h \in Graph : Valid(h)} : current' = [current EXCEPT ![w] = g]
  /\ job' = [job EXCEPT ![w] = "rescan"]
  /\ stale' = [stale EXCEPT ![w] = FALSE]
  /\ UNCHANGED <<disk, inside, previous, newer, intended, exposed>>

\* MUTANT of Acquire: the save runs outside the lock.
AcquireNothing(w) ==
  /\ job[w] = "update"
  /\ Goto(w, "computed", "locked")
  /\ UNCHANGED <<disk, inside, work, stale, intended, exposed>>
\* save_incremental_validated_graph takes the sidecar's lock.
Acquire(w) ==
  /\ job[w] = "update"
  /\ Goto(w, "computed", "locked")
  /\ Lock!Enter(w)
  /\ UNCHANGED <<disk, work, stale, intended, exposed>>

\* compact takes the sidecar's lock and only then loads what it will write,
\* valid or not.
BeginCompact(w) ==
  /\ base # NoGraph
  /\ Goto(w, "idle", "locked")
  /\ Lock!Enter(w)
  /\ job' = [job EXCEPT ![w] = "compact"]
  /\ current' = [current EXCEPT ![w] = Visible]
  /\ stale' = [stale EXCEPT ![w] = FALSE]
  /\ UNCHANGED <<disk, previous, newer, intended, exposed>>

\* file_lock times out, or validation refuses the graph: nothing is written.
GiveUp(w) ==
  /\ Goto(w, "computed", "idle")
  /\ Forget(w)
  /\ UNCHANGED <<disk, inside, newer, stale, intended, exposed>>

\* MUTANT of MayAppend: the threshold is off by one.
MayAppendOneMore(w) == job[w] = "update" /\ ~torn /\ records <= MaxRecords
\* MUTANT of MayAppend: the damaged tail is not looked at.
MayAppendTorn(w) == job[w] = "update" /\ records < MaxRecords
\* The guard of the append path: the sidecar ends cleanly and has room.  (That
\* the record and the sidecar are small beside the base is not modelled: an
\* update may take the rewrite path whatever their sizes.)
MayAppend(w) == job[w] = "update" /\ ~torn /\ records < MaxRecords

\* Bytes reach the sidecar: its mtime becomes the latest, later than the base's
\* and than those of the files staged so far, so records that the mtime guard
\* was hiding are replayed again (the first window).
Touch ==
  /\ older' = FALSE
  /\ newer' = [v \in Writers |-> FALSE]
  /\ exposed' = (exposed \/ Orphaned)

\* _append_delta_unlocked.  A record behind a torn one is never replayed.
AppendRecord(w) ==
  /\ records' = records + 1
  /\ overlay' = IF torn THEN overlay ELSE Compose(overlay, DeltaOf(w))
  /\ Touch
  /\ intended' = Apply(intended, DeltaOf(w))
  /\ Outdate(w)

Append(w) ==
  /\ MayAppend(w)
  /\ Goto(w, "locked", "releasing")
  /\ AppendRecord(w)
  /\ Forget(w)
  /\ UNCHANGED <<base, torn, inside>>

\* The writer dies inside the append: a torn record, and the kernel's unlock.
TornAppend(w) ==
  /\ Crashes
  /\ MayAppend(w)
  /\ Goto(w, "locked", "idle")
  /\ inside' = inside \ {w}
  /\ torn' = TRUE
  /\ Touch
  /\ Forget(w)
  /\ UNCHANGED <<base, records, overlay, stale, intended>>

\* Who may stage a full rewrite: the holder of the lock that does not append,
\* or a rescan, which never takes the lock.
MayRewrite(w) ==
  \/ pc[w] = "locked"
  \/ pc[w] = "computed" /\ job[w] = "rescan"

\* save_sectioned_graph writes, flushes and syncs the temporary file.
Stage(w) ==
  /\ MayRewrite(w)
  /\ pc' = [pc EXCEPT ![w] = "staged"]
  /\ \E n \in IF SameTick THEN BOOLEAN ELSE {TRUE} : newer' = [newer EXCEPT ![w] = n]
  /\ UNCHANGED <<disk, inside, job, previous, current, stale, intended, exposed>>

\* The second window: this rewrite drops what was committed since its load.
StaleRewrite(w) == stale[w]

\* The third window: the sidecar's records will be replayed over the new base.
Replayed(w) == records > 0 /\ ~newer[w]

\* replace_with_retry: the rename publishes the staged file as the base.
Replace(w) ==
  /\ Goto(w, "staged", "replaced")
  /\ base' = current[w]
  /\ older' = newer[w]
  /\ IF job[w] = "compact"
     THEN UNCHANGED <<intended, stale>>
     ELSE /\ intended' = IF job[w] = "rescan" THEN current[w] ELSE Apply(intended, DeltaOf(w))
          /\ Outdate(w)
  /\ exposed' = (\/ exposed /\ job[w] # "rescan"
                 \/ StaleRewrite(w)
                 \/ Replayed(w))
  /\ newer' = [newer EXCEPT ![w] = FALSE]
  /\ UNCHANGED <<records, overlay, torn, inside, job, previous, current>>

\* Where a rewrite goes when its save returns or raises.
Saved(w) ==
  /\ pc' = [pc EXCEPT ![w] = IF job[w] = "rescan" THEN "idle" ELSE "releasing"]
  /\ Forget(w)

\* The rename fails for good: the staged file is removed and the error surfaces.
ReplaceFails(w) ==
  /\ pc[w] = "staged"
  /\ Saved(w)
  /\ newer' = [newer EXCEPT ![w] = FALSE]
  /\ UNCHANGED <<disk, inside, stale, intended, exposed>>

\* save_gg and compact then remove the sidecar beside the new base.  The fourth
\* window: a record appended since a rescan's rename goes with it.
Unlink(w) ==
  /\ pc[w] = "replaced"
  /\ Saved(w)
  /\ records' = 0 /\ overlay' = EmptyDelta /\ torn' = FALSE /\ older' = FALSE
  /\ exposed' = (exposed \/ (job[w] = "rescan" /\ records > 0 /\ ~older))
  /\ UNCHANGED <<base, inside, newer, stale, intended>>

\* The `with file_lock` statement ends.
Release(w) ==
  /\ Goto(w, "releasing", "idle")
  /\ Lock!Leave(w)
  /\ UNCHANGED <<disk, work, stale, intended, exposed>>

\* The process dies between two of its steps; a staged file is left as litter.
Die(w) ==
  /\ Crashes
  /\ pc[w] # "idle"
  /\ pc' = [pc EXCEPT ![w] = "idle"]
  /\ inside' = inside \ {w}
  /\ Forget(w)
  /\ newer' = [newer EXCEPT ![w] = FALSE]
  /\ UNCHANGED <<disk, stale, intended, exposed>>

Step(w) ==
  \/ BeginUpdate(w) \/ BeginRescan(w) \/ BeginCompact(w) \/ Acquire(w) \/ GiveUp(w)
  \/ Append(w) \/ TornAppend(w)
  \/ Stage(w) \/ Replace(w) \/ ReplaceFails(w) \/ Unlink(w)
  \/ Release(w) \/ Die(w)

Next == \E w \in Writers : Step(w)

Spec == Init /\ [][Next]_vars

-----------------------------------------------------------------------------
\* Outside the four unguarded windows, the store holds exactly what the
\* committed operations, in the order of their commits, were meant to leave:
\* whatever the interleaving of updates, compactions and rescans, whatever
\* step a writer dies at, and whether a record or a staged file was cut short.
CommittedStateIsVisible == ~exposed => Visible = intended

\* Outside those windows, a step that takes a node from the store takes the
\* edges at it too, those that another writer added since the deleting writer's
\* load included.  (The converse is not true: a record computed before the node
\* was deleted may add an edge at it, and the store is then invalid.)
DeletedNodeTakesItsEdges ==
  [][base # NoGraph /\ ~exposed' =>
       \A e \in Keys : \A n \in Ends[e] :
         Visible[n] # Absent /\ Visible'[n] = Absent => Visible'[e] = Absent]_vars

\* A lone writer takes the store from one graph it means to save to the next:
\* what a reader sees never changes to anything but the graph being saved,
\* whatever step the writer dies at.  docs/architecture/storage/
\* native-graph-store.md asks this of every crash point, and delta.py's mtime
\* guard is there to give it.
NeverAMixture ==
  [][Visible' # Visible => \E w \in Writers : Visible' = current[w]]_vars
=============================================================================
