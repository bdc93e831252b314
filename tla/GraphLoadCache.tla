--------------------------- MODULE GraphLoadCache ---------------------------
(***************************************************************************)
(* The process-wide graph cache of io/core.py: threads of one process load *)
(* the store without any lock, share what they parsed under a fingerprint  *)
(* of the two files, and an update of this process seeds the cache with    *)
(* the graph it has just saved (services/lifecycle.py).  Writers of this   *)
(* and of other processes append, rewrite and compact meanwhile.           *)
(*                                                                         *)
(* A graph is the set of commits it reflects.  A file is its content and a *)
(* stamp for its mtime and size: stamps come from one clock, so none is    *)
(* used twice and their order is the order of mtimes.  A sidecar with      *)
(* stamp 0 does not exist.                                                 *)
(***************************************************************************)
EXTENDS Naturals

CONSTANTS
  Loaders,     \* threads of this process that call load_any
  Writers,     \* writers of the store, in any process
  Local,       \* the writers of this process, which seed the cache
  Rescanners,  \* the writers that may rescan, and rewrite the store without its lock
  MaxCommits,  \* bound: commits in a behaviour
  MaxWrites    \* bound: writes of either file in a behaviour

ASSUME WriterAssumption == Local \subseteq Writers /\ Rescanners \subseteq Writers
ASSUME BoundAssumption  == MaxCommits \in Nat /\ MaxWrites \in Nat \ {0}

VARIABLES
  base,      \* the base file: its stamp and graph
  sidecar,   \* the sidecar: its stamp and the commits of its records
  clock,     \* how many writes there were
  commits,   \* how many commits there were
  writer,    \* each writer's stage and the graph it saves
  cache,     \* the one entry of the cache: a fingerprint and a graph
  loader,    \* each loader's stage, local variables and (history) the commits it owes
  exposed    \* history: one of the two unguarded windows was entered

vars == <<base, sidecar, clock, commits, writer, cache, loader, exposed>>

Graph       == SUBSET (1 .. MaxCommits)
Stamp       == 0 .. MaxWrites
Fingerprint == Stamp \X Stamp
NoPrint     == <<0, 0>>      \* of no file: there is always a base

Save == [at : {"idle", "computed", "replaced", "saved"}, rescan : BOOLEAN, graph : Graph,
         commit : 0 .. MaxCommits, overtaken : BOOLEAN]
Read == [at : {"idle", "stat", "lookup", "base", "sidecar", "replay", "store", "done"},
         print : Fingerprint, graph : Graph, owed : Graph]

TypeOK ==
  /\ base \in [stamp : Stamp \ {0}, graph : Graph]
  /\ sidecar \in [stamp : Stamp, records : Graph]
  /\ clock \in Stamp /\ commits \in 0 .. MaxCommits
  /\ writer \in [Writers -> Save]
  /\ cache \in [print : Fingerprint, graph : Graph]
  /\ loader \in [Loaders -> Read]
  /\ exposed \in BOOLEAN

\* graph_store_fingerprint, had it been taken in one step.
Current == <<base.stamp, sidecar.stamp>>

\* What the two files hold: records apply unless the sidecar is strictly older.
Visible ==
  IF sidecar.stamp < base.stamp THEN base.graph ELSE base.graph \union sidecar.records

IdleWriter == [at |-> "idle", rescan |-> FALSE, graph |-> {}, commit |-> 0, overtaken |-> FALSE]
IdleLoader == [at |-> "idle", print |-> NoPrint, graph |-> {}, owed |-> {}]

Init ==
  /\ base = [stamp |-> 1, graph |-> {}]
  /\ sidecar = [stamp |-> 0, records |-> {}]
  /\ clock = 1 /\ commits = 0
  /\ writer = [w \in Writers |-> IdleWriter]
  /\ cache = [print |-> NoPrint, graph |-> {}]
  /\ loader = [l \in Loaders |-> IdleLoader]
  /\ exposed = FALSE

-----------------------------------------------------------------------------
\* Writers (module NativeStore), as far as a loader can tell them apart.

\* The sidecar's lock is free: nobody that respects it is between the rename and
\* the unlink.
LockFree == \A w \in Writers : writer[w].at = "replaced" => writer[w].rescan

Tick == clock < MaxWrites /\ clock' = clock + 1

\* A write by w: the graph that another writer is about to seed no longer is what
\* the store holds.
Advance(w, stage) ==
  writer' = [v \in Writers |->
    IF v = w THEN stage ELSE [writer[v] EXCEPT !.overtaken = v \in Local /\ writer[v].at # "idle"]]

\* A load that a rewrite overlaps may miss commits that were visible when it began.
Disturb == loader' = [l \in Loaders |-> [loader[l] EXCEPT !.owed = {}]]

\* An update or a rescan computes its graph from the one that is visible.
Compute(w) ==
  /\ writer[w].at = "idle"
  /\ commits < MaxCommits
  /\ commits' = commits + 1
  /\ \E rescan \in IF w \in Rescanners THEN BOOLEAN ELSE {FALSE} :
       writer' = [writer EXCEPT ![w].at = "computed", ![w].rescan = rescan,
                                ![w].graph = Visible \union {commits'}, ![w].commit = commits']
  /\ UNCHANGED <<base, sidecar, clock, cache, loader, exposed>>

\* scan_validated_graph finds nothing to do: it saves nothing, but seeds the cache
\* with the graph it loaded.
FindNothing(w) ==
  /\ w \in Local
  /\ writer[w].at = "idle"
  /\ writer' = [writer EXCEPT ![w].at = "saved", ![w].graph = Visible]
  /\ UNCHANGED <<base, sidecar, clock, commits, cache, loader, exposed>>

\* save_incremental_validated_graph appends a record.  The first window: it lands
\* between a rescan's rename and its unlink, which takes it away again.
Append(w) ==
  /\ writer[w].at = "computed" /\ ~writer[w].rescan
  /\ LockFree
  /\ Tick
  /\ sidecar' = [stamp |-> clock', records |-> sidecar.records \union {writer[w].commit}]
  /\ Advance(w, IF w \in Local THEN [writer[w] EXCEPT !.at = "saved"] ELSE IdleWriter)
  /\ exposed' = (exposed \/ \E v \in Writers : writer[v].at = "replaced")
  /\ UNCHANGED <<base, commits, cache, loader>>

\* A rewrite renames the new base into place: an update or a rescan its graph...
Replace(w) ==
  /\ writer[w].at = "computed"
  /\ writer[w].rescan \/ LockFree
  /\ Tick
  /\ base' = [stamp |-> clock', graph |-> writer[w].graph]
  /\ Advance(w, [writer[w] EXCEPT !.at = "replaced"])
  /\ Disturb
  /\ UNCHANGED <<sidecar, commits, cache, exposed>>

\* ... and compact, which seeds no cache, what it finds.
Compact(w) ==
  /\ writer[w].at = "idle"
  /\ LockFree
  /\ Tick
  /\ base' = [stamp |-> clock', graph |-> Visible]
  /\ Advance(w, [IdleWriter EXCEPT !.at = "replaced"])
  /\ Disturb
  /\ UNCHANGED <<sidecar, commits, cache, exposed>>

\* The rewrite unlinks the sidecar.
Unlink(w) ==
  /\ writer[w].at = "replaced"
  /\ sidecar' = [stamp |-> 0, records |-> {}]
  /\ writer' = [writer EXCEPT ![w] = IF w \in Local /\ @.commit # 0
                                     THEN [@ EXCEPT !.at = "saved"] ELSE IdleWriter]
  /\ Disturb
  /\ UNCHANGED <<base, clock, commits, cache, exposed>>

\* remember_loaded_graph: the writer's own graph, under the fingerprint that the
\* files have by now.  The second window: another write came in since its load.
Remember(w) ==
  /\ writer[w].at = "saved"
  /\ cache' = [print |-> Current, graph |-> writer[w].graph]
  /\ exposed' = (exposed \/ writer[w].overtaken)
  /\ writer' = [writer EXCEPT ![w] = IdleWriter]
  /\ UNCHANGED <<base, sidecar, clock, commits, loader>>

-----------------------------------------------------------------------------
\* Loaders: load_any.
At(l, from) == loader[l].at = from
World == <<base, sidecar, clock, commits, writer, exposed>>

\* graph_store_fingerprint asks for the base's stat first,
StatBase(l) ==
  /\ At(l, "idle")
  /\ loader' = [loader EXCEPT ![l] = [IdleLoader EXCEPT !.at = "stat",
                                        !.print = <<base.stamp, 0>>, !.owed = Visible]]
  /\ UNCHANGED <<World, cache>>

\* MUTANT of StatSidecar: the fingerprint is that of the base alone.
StatBaseOnly(l) ==
  /\ At(l, "stat")
  /\ loader' = [loader EXCEPT ![l].at = "lookup"]
  /\ UNCHANGED <<World, cache>>
\* and then for the sidecar's.
StatSidecar(l) ==
  /\ At(l, "stat")
  /\ loader' = [loader EXCEPT ![l].at = "lookup", ![l].print = <<@[1], sidecar.stamp>>]
  /\ UNCHANGED <<World, cache>>

\* The entry has the fingerprint: it is returned.
Hit(l) ==
  /\ At(l, "lookup")
  /\ cache.print = loader[l].print
  /\ loader' = [loader EXCEPT ![l].at = "done", ![l].print = NoPrint,
                              ![l].graph = cache.graph]
  /\ UNCHANGED <<World, cache>>

Miss(l) ==
  /\ At(l, "lookup")
  /\ cache.print # loader[l].print
  /\ loader' = [loader EXCEPT ![l].at = "base"]
  /\ UNCHANGED <<World, cache>>

\* The base is read in one go, from a file that a rename does not change.
ReadBase(l) ==
  /\ At(l, "base")
  /\ loader' = [loader EXCEPT ![l].at = "sidecar", ![l].graph = base.graph]
  /\ UNCHANGED <<World, cache>>

\* apply_delta_sidecar: there is no sidecar, or it is strictly older.
SkipSidecar(l) ==
  /\ At(l, "sidecar")
  /\ sidecar.stamp < base.stamp
  /\ loader' = [loader EXCEPT ![l].at = "store"]
  /\ UNCHANGED <<World, cache>>

TakeSidecar(l) ==
  /\ At(l, "sidecar")
  /\ sidecar.stamp >= base.stamp
  /\ loader' = [loader EXCEPT ![l].at = "replay"]
  /\ UNCHANGED <<World, cache>>

\* Every record the sidecar has by now is replayed.
Replay(l) ==
  /\ At(l, "replay")
  /\ sidecar.stamp # 0
  /\ loader' = [loader EXCEPT ![l].at = "store", ![l].graph = @ \union sidecar.records]
  /\ UNCHANGED <<World, cache>>

\* The sidecar was unlinked since it was found: read_bytes raises.
ReplayFails(l) ==
  /\ At(l, "replay")
  /\ sidecar.stamp = 0
  /\ loader' = [loader EXCEPT ![l] = IdleLoader]
  /\ UNCHANGED <<World, cache>>

\* MUTANT of Store: the fingerprint is taken after the read.
StoreUnderNewPrint(l) ==
  /\ At(l, "store")
  /\ cache' = [print |-> Current, graph |-> loader[l].graph]
  /\ loader' = [loader EXCEPT ![l].at = "done", ![l].print = NoPrint]
  /\ UNCHANGED World
\* The graph is cached under the fingerprint taken before the read.
Store(l) ==
  /\ At(l, "store")
  /\ cache' = [print |-> loader[l].print, graph |-> loader[l].graph]
  /\ loader' = [loader EXCEPT ![l].at = "done", ![l].print = NoPrint]
  /\ UNCHANGED World

Return(l) ==
  /\ At(l, "done")
  /\ loader' = [loader EXCEPT ![l] = IdleLoader]
  /\ UNCHANGED <<World, cache>>

\* clear_graph_load_cache, or the LRU bound of sixteen stores.
Clear ==
  /\ cache.print # NoPrint
  /\ cache' = [print |-> NoPrint, graph |-> {}]
  /\ UNCHANGED <<World, loader>>

Write(w) ==
  \/ Compute(w) \/ FindNothing(w) \/ Append(w)
  \/ Replace(w) \/ Compact(w) \/ Unlink(w) \/ Remember(w)

Load(l) ==
  \/ StatBase(l) \/ StatSidecar(l) \/ Hit(l) \/ Miss(l) \/ ReadBase(l)
  \/ SkipSidecar(l) \/ TakeSidecar(l) \/ Replay(l) \/ ReplayFails(l) \/ Store(l) \/ Return(l)

Next == (\E w \in Writers : Write(w)) \/ (\E l \in Loaders : Load(l)) \/ Clear

Spec == Init /\ [][Next]_vars

-----------------------------------------------------------------------------
\* lifecycle.py says of the seed that it is "fingerprinted against the file as it
\* now exists on disk, so a foreign writer still invalidates it": an entry under
\* the current fingerprint is always the graph in the files.
CurrentEntryIsCurrent == cache.print = Current => cache.graph = Visible

\* Outside the two unguarded windows it is, however loads, appends, rewrites and
\* seeds interleave: what a load read across a rewrite is cached under a
\* fingerprint that the files will never have again.
HitsAreCurrent == ~exposed => CurrentEntryIsCurrent

\* Outside them, a load that no rewrite overlaps returns every commit that was
\* visible when it began, be it a hit or a read spread over several appends.
LoadKeepsCommits ==
  ~exposed => \A l \in Loaders :
    loader[l].at = "done" => loader[l].owed \subseteq loader[l].graph
=============================================================================
