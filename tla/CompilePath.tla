----------------------------- MODULE CompilePath -----------------------------
(***************************************************************************)
(* One compile request from the call to the answer: CompilerDriver.compile *)
(* (services/compiler_driver.py) and what it drives, ContextCompiler       *)
(* (platform/compiler.py), QuerySourcePlanner (platform/source_planner.py) *)
(* and SemanticIndex (platform/semantic.py).                               *)
(*                                                                         *)
(* A request reads, each at another moment and none under a common lock,   *)
(* the manifest, the stats of the auxiliary files, the packet cache, the   *)
(* graph, the semantic index, and the memory, the episodes and the graphs  *)
(* of other projects, while hooks, scans and other commands replace each   *)
(* of them.  Memory and episodes are signed, read, and given up with a     *)
(* warning in the same way: one file stands for both.  Of a foreign graph  *)
(* only the base file is signed, but its sidecar is read too.              *)
(* An answer is here what it was compiled from: the version of each of     *)
(* these and the sources that its receipt warns of.                        *)
(*                                                                         *)
(* The parts are as their own modules have them: a save of the graph is    *)
(* one step and so is a load (NativeStore, GraphLoadCache), an entry of    *)
(* the packet cache is good as long as the base file is the one it was     *)
(* stored with, and is never evicted (PacketCache).  Of the cache key it   *)
(* has the parts that stand for state; the others, worktree_signature      *)
(* among them, only tell more requests apart.                              *)
(***************************************************************************)
EXTENDS Naturals, FiniteSets

CONSTANTS
  Queries,      \* threads of the serving process
  Requests,     \* what may be asked, see RequestType
  Active,       \* active_backend_name() of the serving process
  Offline,      \* HASH_BACKEND_NAME
  Text,         \* the node texts that each version of the graph has
  Nobody,       \* no refresh is between its two saves
  Hook,         \* a refresh of another process
  MaxChanges,   \* bound: saves of the graphs, of semantic.json and of memory.json
  MaxRequests,  \* bound: requests
  MaxWarnings   \* bound: a source of a request fails after fewer warnings

RequestType == [mode : {"auto", "off", "all"}, refresh : BOOLEAN, anchored : BOOLEAN,
                exact : BOOLEAN, snippets : BOOLEAN, federated : BOOLEAN]

ASSUME TextAssumption    == Text \in [0 .. MaxChanges -> Nat]
ASSUME RequestAssumption == Requests \subseteq RequestType
ASSUME ActorAssumption   == Nobody \notin Queries /\ Hook \notin Queries /\ Hook # Nobody
ASSUME BoundAssumption   == {MaxChanges, MaxRequests, MaxWarnings} \subseteq Nat

VARIABLES
  graph,     \* the saved graph: its version, and its base file's stat
  manifest,  \* the last saved graph that the manifest is of, and updated_at in seconds
  writer,    \* who has saved the graph and not yet the manifest
  index,     \* semantic.json: its stat, the graph it was built from, the backend
  memo,      \* _INDEX_CACHE of the serving process
  notes,     \* the version of the auxiliary file, and its stat
  foreign,   \* the graph of another project: its version, and its base file's stat
  kv,        \* entries of the packet cache
  query,     \* each query's stage and local variables
  started,   \* requests so far
  raced,     \* history: two saves of the manifest in one second, or a save of the graph
             \* between a request's own save and its look at the manifest
  crossed    \* history: semantic.json was replaced between two looks of one query

state == <<graph, manifest, writer, index, memo, notes, foreign, kv>>
vars  == <<state, query, started, raced, crossed>>

Changes == graph.version + index.stat + notes + foreign.version

Graphs  == [version : Nat, base : Nat]
Indexes == [stat : Nat, of : Nat, backend : {Active, Offline}]
NoGraph == [version |-> 0, base |-> 0]
NoIndex == [stat |-> 0, of |-> 0, backend |-> Offline]

\* What an answer was compiled from; warned names the sources whose failure or
\* staleness the receipt reports.
Views == [graph : Nat, index : Indexes, notes : Nat, foreign : Nat,
          warned : SUBSET {"semantic", "auxiliary", "foreign"}]
NoView == [graph |-> 0, index |-> NoIndex, notes |-> 0, foreign |-> 0, warned |-> {}]

\* What had been acknowledged when a request arrived.
Acknowledgements == [graph : Nat, index : Nat, notes : Nat, foreign : Graphs]
Acknowledged == [graph |-> manifest.version, index |-> index.stat, notes |-> notes, foreign |-> foreign]

NoRequest == [mode |-> "off", refresh |-> FALSE, anchored |-> FALSE, exact |-> FALSE,
              snippets |-> FALSE, federated |-> FALSE]
\* What source_state_signature tells apart.
Signatures == [index : Nat, notes : Nat, foreign : Nat]

\* A request as it runs: what was acknowledged when it came, measured_at and the
\* source signature of its key, and whether the graph at hand is its own.
Local == [at : {"idle", "refresh", "refreshed", "inspect", "sign", "lookup", "load", "check_index",
                "load_index", "remember_index", "auxiliary", "federate", "compile", "answered"},
          req : RequestType, begun : Acknowledgements, measured : Nat, sources : Signatures,
          resident : BOOLEAN, graph : Graphs, view : Views]
Idle == [at |-> "idle", req |-> NoRequest,
         begun |-> [graph |-> 0, index |-> 0, notes |-> 0, foreign |-> NoGraph],
         measured |-> 0, sources |-> [index |-> 0, notes |-> 0, foreign |-> 0],
         resident |-> FALSE, graph |-> NoGraph, view |-> NoView]

Key   == [req : RequestType, measured : Nat, sources : Signatures]
Entry == [key : Key, base : Nat, view : Views]

TypeOK ==
  /\ graph \in Graphs /\ manifest \in [version : Nat, updated_at : Nat]
  /\ writer \in Queries \union {Nobody, Hook}
  /\ index \in Indexes /\ memo \in Indexes /\ notes \in Nat /\ foreign \in Graphs
  /\ kv \in SUBSET Entry
  /\ query \in [Queries -> Local]
  /\ started \in Nat
  /\ raced \in BOOLEAN /\ crossed \in BOOLEAN

\* The graph has been scanned and its index built.
Init ==
  /\ graph = NoGraph
  /\ manifest = [version |-> 0, updated_at |-> 0]
  /\ writer = Nobody
  /\ index = [stat |-> 1, of |-> 0, backend |-> Active]
  /\ memo = NoIndex
  /\ notes = 0 /\ foreign = NoGraph
  /\ kv = {}
  /\ query = [q \in Queries |-> Idle]
  /\ started = 0
  /\ raced = FALSE /\ crossed = FALSE

-----------------------------------------------------------------------------
\* Refreshes.  One at a time; what two of them do to each other is NativeStore's.

\* A graph is saved: by a record in the sidecar, or by a new base.
Saves(g) == {[version |-> g.version + 1, base |-> b] : b \in {g.base, g.version + 1}}

Saved ==
  /\ writer = Nobody
  /\ Changes < MaxChanges
  /\ graph' \in Saves(graph)

\* A request has saved a graph of its own, which by now is not the latest, and has not
\* looked at the manifest.
Overtaken == \E q \in Queries : query[q].at = "inspect" /\ query[q].resident

\* Then the manifest, whose updated_at has seconds only.
ManifestSaved ==
  /\ manifest' \in {[version |-> graph.version, updated_at |-> t] :
                       t \in {manifest.updated_at, manifest.updated_at + 1}}
  /\ raced' = (raced \/ manifest'.updated_at = manifest.updated_at \/ Overtaken)
  /\ writer' = Nobody

HookSavesGraph ==
  /\ Saved
  /\ writer' = Hook
  /\ UNCHANGED <<manifest, index, memo, notes, foreign, kv, query, started, raced, crossed>>

HookSavesManifest ==
  /\ writer = Hook
  /\ ManifestSaved
  /\ UNCHANGED <<graph, index, memo, notes, foreign, kv, query, started, crossed>>

\* The hook dies between the two saves: its update is never acknowledged.
HookDies ==
  /\ writer = Hook
  /\ writer' = Nobody
  /\ UNCHANGED <<graph, manifest, index, memo, notes, foreign, kv, query, started, raced, crossed>>

-----------------------------------------------------------------------------
\* The other commands.

\* A query has looked at semantic.json and will look again.
BetweenLooks == \E q \in Queries : query[q].at \in {"load_index", "remember_index"}

\* atomic_write_json: a new file replaces the old one.
Written(of, backend) ==
  /\ Changes < MaxChanges
  /\ index' = [stat |-> index.stat + 1, of |-> of, backend |-> backend]

\* `graphgraph platform semantic --rebuild`, in a process of its own.  The
\* embedding may fail; the offline vectors then take its place.
RebuildIndex ==
  /\ \E backend \in {Active, Offline} : Written(graph.version, backend)
  /\ crossed' = (crossed \/ BetweenLooks)
  /\ UNCHANGED <<graph, manifest, writer, memo, notes, foreign, kv, query, started, raced>>

\* remember, or an episode.
Remember ==
  /\ Changes < MaxChanges
  /\ notes' = notes + 1
  /\ UNCHANGED <<graph, manifest, writer, index, memo, foreign, kv, query, started, raced, crossed>>

\* A scan, an update or a hook of a registered project.
ForeignSaves ==
  /\ Changes < MaxChanges
  /\ foreign' \in Saves(foreign)
  /\ UNCHANGED <<graph, manifest, writer, index, memo, notes, kv, query, started, raced, crossed>>

-----------------------------------------------------------------------------
\* The request.
At(q, stage) == query[q].at = stage
Req(q) == query[q].req
Goto(q, stage) == query' = [query EXCEPT ![q].at = stage]
Become(q, new) == query' = [query EXCEPT ![q] = new]

\* The answer leaves the function, and nothing else does.
Answered(q, view) ==
  [Idle EXCEPT !.at = "answered", !.req = Req(q), !.begun = query[q].begun, !.view = view]

Unchanged == UNCHANGED <<state, started, raced, crossed>>

\* A request that has nothing to refresh goes on at once to inspect the manifest:
\* inspect_saved_graph_freshness, whose measured_at becomes part of the key.
Ask(q) ==
  /\ At(q, "idle")
  /\ started < MaxRequests
  /\ \E req \in Requests :
       Become(q, [Idle EXCEPT !.at = IF req.refresh THEN "refresh" ELSE "sign",
                              !.req = req, !.begun = Acknowledged,
                              !.measured = IF req.refresh THEN 0 ELSE manifest.updated_at])
  /\ started' = started + 1
  /\ UNCHANGED <<state, raced, crossed>>

\* ensure_native_graph or refresh_saved_graph finds nothing to do,
RefreshNothing(q) ==
  /\ At(q, "refresh")
  /\ Goto(q, "inspect")
  /\ Unchanged

\* or saves a graph, which the query will then use as it has it in memory.
RefreshGraph(q) ==
  /\ At(q, "refresh")
  /\ Saved
  /\ Become(q, [query[q] EXCEPT !.at = "refreshed", !.graph = graph', !.resident = TRUE])
  /\ writer' = q
  /\ UNCHANGED <<manifest, index, memo, notes, foreign, kv, started, raced, crossed>>

RefreshManifest(q) ==
  /\ At(q, "refreshed")
  /\ ManifestSaved
  /\ Goto(q, "inspect")
  /\ UNCHANGED <<graph, index, memo, notes, foreign, kv, started, crossed>>

Inspect(q) ==
  /\ At(q, "inspect")
  /\ Become(q, [query[q] EXCEPT !.at = "sign", !.measured = manifest.updated_at])
  /\ Unchanged

\* source_state_signature: the stats of the files beside the graph and of the base
\* files of the registered graphs.
SourceState == [index |-> index.stat, notes |-> notes, foreign |-> foreign.base]

Sign(q) ==
  /\ At(q, "sign")
  /\ Become(q, [query[q] EXCEPT !.at = "lookup", !.sources = SourceState])
  /\ Unchanged

\* MUTANT of CacheKey: what freshness says is left out, as telemetry.
KeyWithoutFreshness(q) ==
  [req |-> Req(q), measured |-> 0, sources |-> query[q].sources]
\* compute_cache_key
CacheKey(q) ==
  [req |-> Req(q), measured |-> query[q].measured, sources |-> query[q].sources]

Entries(q) == {e \in kv : e.key = CacheKey(q)}
Valid(q)   == {e \in Entries(q) : e.base = graph.base}

\* compile and plan: exact paths need no other source, nor does the mode "off";
Consults(req) == ~req.anchored /\ req.mode # "off"
\* an exact identifier hit needs no embedding.
Embeds(req) == Consults(req) /\ (req.mode = "all" \/ ~req.exact)

\* Foreign graphs are read if the query names one, or speaks of them, or hardly finds
\* anything in its own.
Federates(req) == Consults(req) /\ (req.mode = "all" \/ req.federated)

Planned(q, used) ==
  [query[q] EXCEPT
     !.graph = used, !.view.graph = used.version,
     !.at = IF Embeds(Req(q)) THEN "check_index"
            ELSE IF Consults(Req(q)) THEN "auxiliary" ELSE "compile"]

\* A graph that the request itself has saved is used as it is.
UseResident(q) ==
  /\ At(q, "lookup") /\ query[q].resident
  /\ Become(q, Planned(q, query[q].graph))
  /\ Unchanged

\* Raw source windows are never served from the cache.
Bypass(q) ==
  /\ At(q, "lookup") /\ ~query[q].resident /\ Req(q).snippets
  /\ Goto(q, "load")
  /\ Unchanged

Hit(q) ==
  /\ At(q, "lookup") /\ ~query[q].resident /\ ~Req(q).snippets
  /\ \E e \in Valid(q) : Become(q, Answered(q, e.view))
  /\ Unchanged

\* An entry of another base file is dropped.
Miss(q) ==
  /\ At(q, "lookup") /\ ~query[q].resident /\ ~Req(q).snippets
  /\ Valid(q) = {}
  /\ kv' = kv \ Entries(q)
  /\ Goto(q, "load")
  /\ UNCHANGED <<graph, manifest, writer, index, memo, notes, foreign, started, raced, crossed>>

\* load_any_cached
Load(q) ==
  /\ At(q, "load")
  /\ Become(q, Planned(q, graph))
  /\ Unchanged

\* A source fails as long as few have.
Fallible(q) == Cardinality(query[q].view.warned) < MaxWarnings

Warned(q, source) == [query[q] EXCEPT !.view.warned = @ \union {source}]

-----------------------------------------------------------------------------
\* The semantic index.

\* MUTANT of IsCurrent: the node texts decide, the topology may be another one.
IsCurrentText(g) == index.stat > 0 /\ index.backend = Active /\ Text[index.of] = Text[g.version]
\* state_for_graph = "current": signature, graph_version and backend agree.
IsCurrent(g) ==
  /\ index.stat > 0 /\ index.backend = Active
  /\ Text[index.of] = Text[g.version] /\ index.of = g.version

\* A current index whose backend is at hand is loaded; without it, or with no
\* current index, "auto" goes on with a warning and "all" builds one.
UseIndex(q) ==
  /\ At(q, "check_index")
  /\ IsCurrent(query[q].graph)
  /\ Goto(q, "load_index")
  /\ Unchanged

ColdBackend(q) ==
  /\ At(q, "check_index")
  /\ IsCurrent(query[q].graph) /\ Req(q).mode # "all"
  /\ Become(q, [Warned(q, "semantic") EXCEPT !.at = "auxiliary"])
  /\ Unchanged

NoCurrentIndex(q) ==
  /\ At(q, "check_index")
  /\ ~IsCurrent(query[q].graph) /\ Req(q).mode # "all"
  /\ Become(q, [Warned(q, "semantic") EXCEPT !.at = "auxiliary"])
  /\ Unchanged

BuildIndex(q) ==
  /\ At(q, "check_index")
  /\ ~IsCurrent(query[q].graph) /\ Req(q).mode = "all"
  /\ \E backend \in {Active, Offline} : Written(query[q].graph.version, backend)
  /\ Become(q, [query[q] EXCEPT !.at = "remember_index", !.view.index = index'])
  /\ crossed' = (crossed \/ BetweenLooks)
  /\ UNCHANGED <<graph, manifest, writer, memo, notes, foreign, kv, started, raced>>

\* MUTANT of Scored: the offline vectors are used without a word.
ScoredSilently(q, used) == [query[q] EXCEPT !.at = "auxiliary", !.view.index = used]
\* downgraded_reason: the vectors are of the offline backend though a better one
\* is at hand, which the receipt says.
Scored(q, used) ==
  LET new == IF used.backend = Offline /\ Active # Offline THEN Warned(q, "semantic") ELSE query[q]
  IN  [new EXCEPT !.at = "auxiliary", !.view.index = used]

\* load: the file's stat is that of the index in memory,
LoadFromMemo(q) ==
  /\ At(q, "load_index")
  /\ memo # NoIndex /\ memo.stat = index.stat
  /\ Become(q, Scored(q, memo))
  /\ Unchanged

\* or the file is read,
ReadIndex(q) ==
  /\ At(q, "load_index")
  /\ memo.stat # index.stat
  /\ Become(q, [query[q] EXCEPT !.at = "remember_index", !.view.index = index])
  /\ Unchanged

\* and kept under the stat that the file has by then.
RememberIndex(q) ==
  /\ At(q, "remember_index")
  /\ memo' = [query[q].view.index EXCEPT !.stat = index.stat]
  /\ Become(q, Scored(q, query[q].view.index))
  /\ UNCHANGED <<graph, manifest, writer, index, notes, foreign, kv, started, raced, crossed>>

\* Any failure of the block is caught and reported.
SemanticFails(q) ==
  /\ Fallible(q)
  /\ query[q].at \in {"check_index", "load_index", "remember_index"}
  /\ Become(q, [Warned(q, "semantic") EXCEPT !.at = "auxiliary", !.view.index = NoIndex])
  /\ Unchanged

-----------------------------------------------------------------------------
\* The other sources, each in a try of its own.
Federating(q) == IF Federates(Req(q)) THEN "federate" ELSE "compile"

ReadSources(q) ==
  /\ At(q, "auxiliary")
  /\ Become(q, [query[q] EXCEPT !.at = Federating(q), !.view.notes = notes])
  /\ Unchanged

SourceFails(q) ==
  /\ Fallible(q)
  /\ At(q, "auxiliary")
  /\ Become(q, [Warned(q, "auxiliary") EXCEPT !.at = Federating(q)])
  /\ Unchanged

\* _project_federation: load_any_cached has the sidecar's records too.
Federate(q) ==
  /\ At(q, "federate")
  /\ Become(q, [query[q] EXCEPT !.at = "compile", !.view.foreign = foreign.version])
  /\ Unchanged

FederationFails(q) ==
  /\ Fallible(q)
  /\ At(q, "federate")
  /\ Become(q, [Warned(q, "foreign") EXCEPT !.at = "compile"])
  /\ Unchanged

-----------------------------------------------------------------------------
\* No anchor was found: the request abstains and nothing is stored; neither is an
\* answer with source windows.
AnswerOnly(q) ==
  /\ At(q, "compile")
  /\ Become(q, Answered(q, query[q].view))
  /\ Unchanged

\* The answer is stored with the base file as it is by now.
Store(q) ==
  /\ At(q, "compile") /\ ~Req(q).snippets
  /\ kv' = (kv \ Entries(q)) \union {[key |-> CacheKey(q), base |-> graph.base, view |-> query[q].view]}
  /\ Become(q, Answered(q, query[q].view))
  /\ UNCHANGED <<graph, manifest, writer, index, memo, notes, foreign, started, raced, crossed>>

Return(q) ==
  /\ At(q, "answered")
  /\ Become(q, Idle)
  /\ Unchanged

\* An unreadable registry, an invalid packet or a failed store raises; the process
\* that had saved its graph only leaves the manifest as it was.
Fail(q) ==
  /\ query[q].at \in {"refreshed", "load", "federate", "compile"}
  /\ Become(q, Idle)
  /\ writer' = IF writer = q THEN Nobody ELSE writer
  /\ UNCHANGED <<graph, manifest, index, memo, notes, foreign, kv, started, raced, crossed>>

World == HookSavesGraph \/ HookSavesManifest \/ HookDies \/ RebuildIndex \/ Remember \/ ForeignSaves

Prepare(q) == Ask(q) \/ RefreshNothing(q) \/ RefreshGraph(q) \/ RefreshManifest(q)
                \/ Inspect(q) \/ Sign(q)

Cached(q) == UseResident(q) \/ Bypass(q) \/ Hit(q) \/ Miss(q) \/ Load(q)

Semantic(q) == UseIndex(q) \/ ColdBackend(q) \/ NoCurrentIndex(q) \/ BuildIndex(q) \/ LoadFromMemo(q)
                 \/ ReadIndex(q) \/ RememberIndex(q) \/ SemanticFails(q)

Finish(q) == ReadSources(q) \/ SourceFails(q) \/ Federate(q) \/ FederationFails(q) \/ AnswerOnly(q)
               \/ Store(q) \/ Return(q) \/ Fail(q)

Next == World \/ \E q \in Queries : Prepare(q) \/ Cached(q) \/ Semantic(q) \/ Finish(q)

Spec == Init /\ [][Next]_vars

-----------------------------------------------------------------------------
\* What an answer owes of a foreign graph: a record in its sidecar moves nothing that the
\* key of a cached answer has, so that only what its base file had is due; an answer
\* that is never served from the cache owes the sidecar too.
ForeignDue(l) == IF l.req.snippets THEN l.begun.foreign.version ELSE l.begun.foreign.base

\* Whatever had been acknowledged when a request arrived is in its answer, cached or
\* compiled, or the receipt warns of the source: the auxiliary file and what is due of a
\* foreign graph, where the request consults them, and the saved graph, unless two were
\* acknowledged in one second or one came between a request's own save and its look at
\* the manifest.
AnswersSeeAcks ==
  \A q \in Queries : At(q, "answered") =>
    /\ ~raced => query[q].begun.graph <= query[q].view.graph
    /\ Consults(Req(q)) => \/ query[q].begun.notes <= query[q].view.notes
                            \/ "auxiliary" \in query[q].view.warned
    /\ Federates(Req(q)) => \/ ForeignDue(query[q]) <= query[q].view.foreign
                             \/ "foreign" \in query[q].view.warned

\* The vectors that gave an answer its seeds were built from the very graph that it
\* is about, topology included, unless the index was replaced while a query was
\* between two looks at the file.
IndexIsOfTheGraph ==
  ~crossed => \A q \in Queries : At(q, "answered") /\ query[q].view.index # NoIndex =>
    query[q].view.index.of = query[q].view.graph

\* Semantic evidence is never missing, older than the index that was there when the
\* request arrived, or of the offline backend, without a word in the receipt.
SemanticLossIsReported ==
  ~crossed => \A q \in Queries :
    At(q, "answered") /\ Embeds(Req(q)) =>
      \/ "semantic" \in query[q].view.warned
      \/ query[q].view.index.stat >= query[q].begun.index /\ query[q].view.index.backend = Active
=============================================================================
