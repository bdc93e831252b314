---------------------------- MODULE EvidenceStore ----------------------------
(***************************************************************************)
(* EvidenceStore over SQLite and the registry that merges what it returns. *)
(* Each provider of evidence has rows, one for each source path (or one    *)
(* for the whole graph), that say what was read, under which hash; a       *)
(* refresh restores the rows whose hash still holds, collects the others   *)
(* again, commits, and merges the batches into the graph under the limits  *)
(* of the request.  Several processes, perhaps of two releases, share the  *)
(* database with no lock but its own; sources are edited meanwhile.        *)
(*                                                                         *)
(* The hash of a source is the one in the manifest, if it has a row there: *)
(* what the last scan saw, not what is on disk (module SourceSync has how  *)
(* the two drift apart; here a scan is one step).  Both releases have the  *)
(* same two providers, so that none is dropped from the database.  A       *)
(* source that cannot be read or parsed gives an empty batch that carries  *)
(* a warning; it is stored and reused as any other.                        *)
(***************************************************************************)
EXTENDS Integers, FiniteSets, SequencesExt

CONSTANTS
  Procs, NoProc,  \* processes that compile; nobody
  Release,        \* [Procs -> versions]: the release each runs, the version of its providers
  Forcing,        \* who may ask for everything to be collected again
  Failing,        \* whose parser may fail, or not be there, for which path
  Order,          \* the source paths, sorted
  Contents, None, \* what a source may hold; no file, or no row
  Found,          \* what a parser finds in each of them, over names and Owner; nothing in None
  Owner,          \* the definition of a source that its evidence hangs on
  Tests,          \* pairs of paths: a test and the source it is named after
  MaxNodes,       \* the provider's own limit, as is
  MaxEdges,
  Unlimited,      \* a number no sum of counts reaches
  Requests,       \* [preferred, nodes, edges, known]: preferred paths, each once, limits, the
                  \* edges that the graph has already
  Legacy,         \* what evidence.json of an earlier release may hold, see Db
  MaxEdits, MaxScans, MaxRefreshes, MaxFaults  \* bounds

Paths == Range(Order)
Whole == "__global__"
Providers == <<"structural", "cpg">>
Incremental(k) == Providers[k] = "cpg"

ASSUME ReleaseAssumption == Release \in [Procs -> Nat \ {0}]
ASSUME NameAssumption  ==
  NoProc \notin Procs /\ None \notin Contents /\ Whole \notin Paths /\ Order \in Seq(Paths)
ASSUME FoundAssumption ==
  /\ Found[None] = [nodes |-> <<>>, edges |-> <<>>]
  /\ \A c \in Contents \union {None} : /\ Found[c].nodes \in Seq(Range(Found[c].nodes))
                                     /\ Found[c].edges \in Seq(Range(Found[c].edges))
ASSUME TestAssumption == Tests \in Seq(Paths \X Paths)
ASSUME RequestAssumption ==
  \A q \in Requests : /\ q.preferred \in Seq(Paths) /\ q.nodes \in Nat /\ q.edges \in Nat
                      /\ IsFiniteSet(q.known)
ASSUME BoundAssumption ==
  {MaxNodes, MaxEdges, MaxEdits, MaxScans, MaxRefreshes, MaxFaults} \subseteq Nat
ASSUME LimitAssumption == Unlimited \in Nat /\ Unlimited > MaxNodes /\ Unlimited > MaxEdges

VARIABLES
  disk,    \* each source's content
  row,     \* each source's hash in the manifest
  graph,   \* the paths that the saved graph has nodes of
  db,      \* what is committed: for each provider its version (0: none) and rows
  writer,  \* whose write transaction it is
  proc,    \* each process's refresh
  crossed, \* history: an import was committed over a refresh
  mixed,   \* history: what was read was stored under a hash that it has not
  spent    \* edits, scans, refreshes, and failed collections and crashes so far

vars == <<disk, row, graph, db, writer, proc, crossed, mixed, spent>>

-----------------------------------------------------------------------------
(* One batch *)

GraphIds(paths) == {<<path, Owner>> : path \in paths}
Firsts(s, n)    == SubSeq(s, 1, IF Len(s) < n THEN Len(s) ELSE n)

\* The only element of a set; a value that is passed in one is worked out once.
The(S) == CHOOSE x \in S : TRUE

\* The elements of s that are in S, in their order.
Selected(s, S) ==
  LET upto[i \in 0 .. Len(s)] ==
        IF i = 0 THEN <<>> ELSE IF s[i] \in S THEN Append(upto[i - 1], s[i]) ELSE upto[i - 1]
  IN upto[Len(s)]
Kept(s, S) == The({The({Selected(t, T) : t \in {s}}) : T \in {S}})

\* CpgEvidenceProvider.collect of one path: cut to the provider's limits, without
\* the edges that lost an end.
CpgBatch(path, content, ids) ==
  LET named == [i \in DOMAIN Found[content].nodes |-> <<path, Found[content].nodes[i]>>]
      found == [i \in DOMAIN Found[content].edges |->
                  <<<<path, Found[content].edges[i][1]>>, <<path, Found[content].edges[i][2]>>>>]
      nodes == Firsts(named, MaxNodes)
      ends  == ids \union Range(nodes)
      edges == Firsts(Kept(found, ends \X ends), MaxEdges)
  IN [nodes |-> nodes, edges |-> edges,
      receipt |-> [nodes |-> Len(named), edges |-> Len(found),
                   nodesCut |-> Len(named) - Len(nodes), edgesCut |-> Len(found) - Len(edges)]]

\* StructuralEvidenceProvider.collect: a test is tied to the one source of its stem.
StructuralBatch(paths) ==
  LET edges == Kept(Tests, paths \X paths)
  IN [nodes |-> <<>>, edges |-> [i \in DOMAIN edges |-> <<<<edges[i][1], Owner>>, <<edges[i][2], Owner>>>>],
      receipt |-> [nodes |-> 0, edges |-> Len(edges), nodesCut |-> 0, edgesCut |-> 0]]

\* A row restored: [hash, of, by, failed] has what was read, by which release, and
\* whether its receipt carries the warning that the collection failed.
BatchOf(key, r) == IF key = Whole THEN StructuralBatch(r.of) ELSE CpgBatch(key, r.of, {<<key, Owner>>})

-----------------------------------------------------------------------------
(* What a provider's rows become under the limits of a request *)

\* _order_paths.
Ordered(keys, preferred) ==
  Kept(preferred, keys) \o Kept(<<Whole>> \o Order, keys \ Range(preferred))

\* _effective_limit: zero of the provider means none.
Limit(own, asked) ==
  LET limit == IF own = 0 THEN Unlimited ELSE own
  IN IF asked < limit THEN asked ELSE limit

Entry(key, batch, whole) == [key |-> key, batch |-> batch, whole |-> whole]

\* MUTANT of Reads: reading stops as soon as one of the limits is met.
ReadsBoth(counted, limits) == counted.nodes < limits.nodes /\ counted.edges < limits.edges
\* _aggregate_sqlite: rows past both limits are counted, not read.
Reads(counted, limits) == counted.nodes < limits.nodes \/ counted.edges < limits.edges

\* What the rows that are read amount to, before each and after the last.
Counted(batches, limits) ==
  LET upto[i \in 0 .. Len(batches)] ==
        IF i = 0 THEN [nodes |-> 0, edges |-> 0]
        ELSE LET before == upto[i - 1]
             IN IF Reads(before, limits)
                THEN [nodes |-> before.nodes + Len(batches[i].nodes), edges |-> before.edges + Len(batches[i].edges)]
                ELSE before
  IN upto

Materialized(keys, rows, limits) ==
  LET batches == [i \in DOMAIN keys |-> BatchOf(keys[i], rows[keys[i]])]
      counted == Counted(batches, limits)
  IN [i \in DOMAIN keys |-> Entry(keys[i], batches[i], Reads(counted[i - 1], limits))]

\* MUTANT of Uncounted: a row that is not read is not counted as cut.
UncountedNone(b) == [nodes |-> 0, edges |-> 0]
\* A row that is not read: all it has is cut.
Uncounted(b) == [nodes |-> Len(b.nodes), edges |-> Len(b.edges)]

\* _aggregate_batch, one entry: nodes up to the limit; an entry that lost a node
\* loses its edges, and so does an edge that lost an end or comes after the limit.
Taken(acc, entry, limits) ==
  LET b       == entry.batch
      kept    == Firsts(b.nodes, limits.nodes - Len(acc.nodes))
      omitted == acc.omitted \union (Range(b.nodes) \ Range(kept))
      viable  == IF Len(kept) < Len(b.nodes) THEN <<>>
                 ELSE Kept(b.edges, {e \in Range(b.edges) : e[1] \notin omitted /\ e[2] \notin omitted})
      edges   == Firsts(viable, limits.edges - Len(acc.edges))
      lost    == IF entry.whole THEN [nodes |-> Len(b.nodes) - Len(kept), edges |-> Len(b.edges) - Len(edges)]
                 ELSE Uncounted(b)
      total   == [nodes |-> acc.receipt.nodes + b.receipt.nodes, edges |-> acc.receipt.edges + b.receipt.edges,
                  nodesCut |-> acc.receipt.nodesCut + b.receipt.nodesCut + lost.nodes,
                  edgesCut |-> acc.receipt.edgesCut + b.receipt.edgesCut + lost.edges]
  IN IF entry.whole
     THEN [nodes |-> acc.nodes \o kept, edges |-> acc.edges \o edges, omitted |-> omitted, receipt |-> total]
     ELSE [acc EXCEPT !.receipt = total]

Nothing == [nodes |-> <<>>, edges |-> <<>>, omitted |-> {},
            receipt |-> [nodes |-> 0, edges |-> 0, nodesCut |-> 0, edgesCut |-> 0]]
Aggregate(entries, limits) ==
  LET upto[i \in 0 .. Len(entries)] == IF i = 0 THEN Nothing ELSE Taken(upto[i - 1], entries[i], limits)
  IN upto[Len(entries)]

\* The structural provider has no limits of its own.
Limits(k, request) ==
  [nodes |-> Limit(IF Incremental(k) THEN MaxNodes ELSE 0, request.nodes),
   edges |-> Limit(IF Incremental(k) THEN MaxEdges ELSE 0, request.edges)]

Preferred(keys, request) == Ordered(keys, request.preferred)

SqliteBatch(k, rows, request) ==
  LET limits     == Limits(k, request)
      read(keys) == Materialized(keys, rows, limits)
  IN The({Aggregate(entries, limits) : entries \in {read(keys) : keys \in {Preferred(DOMAIN rows, request)}}})

\* The JSON store has every row in memory.
JsonBatch(k, rows, request) ==
  LET limits     == Limits(k, request)
      read(keys) == [i \in DOMAIN keys |-> Entry(keys[i], BatchOf(keys[i], rows[keys[i]]), TRUE)]
  IN The({Aggregate(entries, limits) : entries \in {read(keys) : keys \in {Preferred(DOMAIN rows, request)}}})

-----------------------------------------------------------------------------
(* ProviderRegistry.apply_batches *)

\* One batch: new nodes first; then the edges with both ends and a key that is new.
Merged(acc, b) ==
  LET nodes  == acc.nodes \union Range(b.nodes)
      sound  == Kept(b.edges, nodes \X nodes)
      edges  == acc.edges \union Range(sound)
      new    == Cardinality(nodes) - Cardinality(acc.nodes)
      joined == Cardinality(edges) - Cardinality(acc.edges)
      floor(a, x) == IF x < a THEN a ELSE x
  IN [nodes |-> nodes, edges |-> edges,
      receipts |-> Append(acc.receipts,
        [emitted |-> b.receipt,
         nodes |-> [accepted |-> new, duplicate |-> Len(b.nodes) - new,
                    rejected |-> floor(0, b.receipt.nodes - Len(b.nodes) - b.receipt.nodesCut)],
         edges |-> [accepted |-> joined, duplicate |-> Len(sound) - joined,
                    rejected |-> floor(Len(b.edges) - Len(sound),
                                       b.receipt.edges - Len(sound) - b.receipt.edgesCut)]])]

\* What a graph with nodes for those paths, and those edges, becomes.
Applied(paths, known, batches) ==
  LET upto[i \in 0 .. Len(batches)] ==
        IF i = 0 THEN [nodes |-> GraphIds(paths), edges |-> known, receipts |-> <<>>]
        ELSE Merged(upto[i - 1], batches[i])
  IN upto[Len(batches)]

-----------------------------------------------------------------------------
(* State *)

Empty == [version |-> 0, rows |-> <<>>]
Idle  == [at |-> "idle", graph |-> {}, force |-> FALSE, seen |-> 0, k |-> 0, tx |-> <<>>,
          hashes |-> <<>>, todo |-> {}, out |-> <<>>]

Stages == {"idle", "open", "import", "check", "begin", "start", "collect", "commit", "done"}
Hashes == Contents \union {None}
IsRow(key, r) ==
  IF key = Whole THEN r.hash \subseteq Paths /\ r.of = r.hash
  ELSE {r.hash, r.of} \subseteq Hashes /\ r.failed \in BOOLEAN /\ (r.failed => r.of = None)
IsDb(d) ==
  /\ DOMAIN d = DOMAIN Providers
  /\ \A k \in DOMAIN d : /\ d[k].version \in Nat
                         /\ DOMAIN d[k].rows \subseteq (IF Incremental(k) THEN Paths ELSE {Whole})
                         /\ \A key \in DOMAIN d[k].rows : IsRow(key, d[k].rows[key])
                         /\ d[k].version = 0 => d[k].rows = <<>>

\* What an earlier release has left was collected by it.
ASSUME LegacyAssumption ==
  \A old \in Legacy :
    IsDb(old) /\ \A k \in DOMAIN old : \A key \in DOMAIN old[k].rows : old[k].rows[key].by = old[k].version

TypeOK ==
  /\ disk \in [Paths -> Hashes] /\ row \in [Paths -> Hashes] /\ graph \subseteq Paths
  /\ IsDb(db) /\ writer \in Procs \union {NoProc}
  /\ \A p \in Procs : /\ proc[p].at \in Stages
                      /\ proc[p].at \in {"start", "collect", "commit"} <=> writer = p
                      /\ writer = p => IsDb(proc[p].tx)
  /\ crossed \in BOOLEAN /\ mixed \in BOOLEAN
  /\ spent.edits \in 0 .. MaxEdits /\ spent.scans \in 0 .. MaxScans
  /\ spent.refreshes \in 0 .. MaxRefreshes /\ spent.faults \in 0 .. MaxFaults

\* A graph that another program made has no manifest.
Init ==
  /\ disk \in [Paths -> Contents]
  /\ graph = Paths
  /\ row \in {disk, [path \in Paths |-> None]}
  /\ db = [k \in DOMAIN Providers |-> Empty]
  /\ writer = NoProc /\ proc = [p \in Procs |-> Idle]
  /\ crossed = FALSE /\ mixed = FALSE
  /\ spent = [edits |-> 0, scans |-> 0, refreshes |-> 0, faults |-> 0]

\* A source is edited, removed or created.
Edit ==
  /\ spent.edits < MaxEdits
  /\ \E path \in Paths : \E c \in Hashes \ {disk[path]} : disk' = [disk EXCEPT ![path] = c]
  /\ spent' = [spent EXCEPT !.edits = @ + 1]
  /\ UNCHANGED <<row, graph, db, writer, proc, crossed, mixed>>

\* A scan saves the graph and the manifest.
Scan ==
  /\ spent.scans < MaxScans
  /\ row' = disk /\ graph' = {path \in Paths : disk[path] # None}
  /\ spent' = [spent EXCEPT !.scans = @ + 1]
  /\ UNCHANGED <<disk, db, writer, proc, crossed, mixed>>

\* ContextCompiler.open loads the graph; the evidence pass connects.
Open(p) ==
  /\ proc[p].at = "idle" /\ spent.refreshes < MaxRefreshes
  /\ \E force \in {FALSE, (p \in Forcing)} :
       proc' = [proc EXCEPT ![p] = [Idle EXCEPT !.at = "open", !.graph = graph, !.force = force]]
  /\ spent' = [spent EXCEPT !.refreshes = @ + 1]
  /\ UNCHANGED <<disk, row, graph, db, writer, crossed, mixed>>

\* _import_legacy: there is something to import only if no provider is known.
Look(p) ==
  /\ proc[p].at = "open"
  /\ proc' = [proc EXCEPT ![p].at =
                IF Legacy # {} /\ \A k \in DOMAIN db : db[k].version = 0 THEN "import" ELSE "check"]
  /\ UNCHANGED <<disk, row, graph, db, writer, crossed, mixed, spent>>

\* INSERT OR REPLACE: rows over those of the same paths.
Over(new, rows) ==
  [key \in DOMAIN new \union DOMAIN rows |-> IF key \in DOMAIN new THEN new[key] ELSE rows[key]]
Unlike(r)   == ~r.failed /\ r.of # r.hash
Mixed(rows) == \E key \in DOMAIN rows : Unlike(rows[key])

\* _import_legacy: its rows replace those that are there by now, in a transaction.
Import(p) ==
  /\ proc[p].at = "import" /\ writer = NoProc
  /\ \E old \in Legacy :
       /\ db' = [k \in DOMAIN db |-> IF old[k].version = 0 THEN db[k]
                                  ELSE [version |-> old[k].version, rows |-> Over(old[k].rows, db[k].rows)]]
       /\ mixed' = (mixed \/ \E k \in DOMAIN old : Mixed(old[k].rows))
  /\ crossed' = (crossed \/ \E k \in DOMAIN db : db[k].version # 0)
  /\ proc' = [proc EXCEPT ![p].at = "check"]
  /\ UNCHANGED <<disk, row, graph, writer, spent>>

\* The version of the first provider is read before the transaction has begun: it
\* begins at the first statement that writes.
Check(p) ==
  /\ proc[p].at = "check"
  /\ proc' = [proc EXCEPT ![p].at = "begin", ![p].seen = db[1].version]
  /\ UNCHANGED <<disk, row, graph, db, writer, crossed, mixed, spent>>

\* MUTANT of BeginTx: the transaction begins while another writes.
BeginTxAnyway(p) ==
  /\ proc[p].at = "begin"
  /\ writer' = p
  /\ proc' = [proc EXCEPT ![p].at = "start", ![p].tx = db, ![p].k = 1]
  /\ UNCHANGED <<disk, row, graph, db, crossed, mixed, spent>>

\* The write lock of the database is got.
BeginTx(p) ==
  /\ proc[p].at = "begin" /\ writer = NoProc
  /\ writer' = p
  /\ proc' = [proc EXCEPT ![p].at = "start", ![p].tx = db, ![p].k = 1]
  /\ UNCHANGED <<disk, row, graph, db, crossed, mixed, spent>>

\* The database is locked for ten seconds: OperationalError.
Busy(p) ==
  /\ proc[p].at \in {"import", "begin"} /\ writer # NoProc
  /\ proc' = [proc EXCEPT ![p] = Idle]
  /\ UNCHANGED <<disk, row, graph, db, writer, crossed, mixed, spent>>

\* MUTANT of VersionOf: the version of an earlier release will do.
VersionUpTo(p, k) == IF proc[p].tx[k].version \in 1 .. Release[p] THEN Release[p] ELSE proc[p].tx[k].version
\* The version that is compared with the release's.
VersionOf(p, k) == IF k = 1 THEN proc[p].seen ELSE proc[p].tx[k].version

\* _source_hashes: of the sources of the graph that exist.
SourceHashes(p) ==
  [path \in {path \in proc[p].graph : disk[path] # None} |->
     IF row[path] # None THEN row[path] ELSE disk[path]]

\* MUTANT of Stale: a path that has a row is not stale.
StaleIfNew(rows, hashes, key) == key \notin DOMAIN rows
Stale(rows, hashes, key) == key \notin DOMAIN rows \/ rows[key].hash # hashes[key]

\* One provider, up to its first collect: its rows go if its version is another or the
\* caller asks for it; so do the rows of paths that are gone.
Start(p) ==
  /\ proc[p].at = "start" /\ proc[p].k \in DOMAIN Providers
  /\ \E k \in {proc[p].k} :
     \E invalid \in {VersionOf(p, k) # Release[p] \/ proc[p].force} :
     \E hashes \in {IF Incremental(k) THEN SourceHashes(p) ELSE [key \in {Whole} |-> proc[p].graph]} :
     \E rows \in {IF invalid THEN <<>>
                  ELSE IF Incremental(k) THEN Restrict(proc[p].tx[k].rows, DOMAIN proc[p].tx[k].rows \cap DOMAIN hashes)
                  ELSE proc[p].tx[k].rows} :
       proc' = [proc EXCEPT
         ![p].at = "collect", ![p].hashes = hashes,
         ![p].tx[k] = [version |-> Release[p], rows |-> rows],
         ![p].todo = {key \in DOMAIN hashes : Stale(rows, hashes, key)}]
  /\ UNCHANGED <<disk, row, graph, db, writer, crossed, mixed, spent>>

\* The sources are sorted.
Before(key, other) == \E i, j \in DOMAIN Order : i < j /\ Order[i] = key /\ Order[j] = other

\* CpgEvidenceProvider.collect raises nothing: a source that cannot be read, or not parsed
\* in time or at all, is warned of, and nothing is found in it.
MayFail(p, key) == <<p, key>> \in Failing /\ disk[key] # None /\ spent.faults < MaxFaults
Collected(p, key, failed) ==
  [hash |-> proc[p].hashes[key], by |-> Release[p], failed |-> failed,
   of |-> IF key = Whole THEN proc[p].graph ELSE IF failed THEN None ELSE disk[key]]

\* collect and _upsert_sqlite_batch of one path, or of the graph.
Collect(p) ==
  /\ proc[p].at = "collect"
  /\ \E key \in proc[p].todo : \E failed \in {FALSE, MayFail(p, key)} :
     \E r \in {Collected(p, key, failed)} :
       /\ \A other \in proc[p].todo \ {key} : Before(key, other)
       /\ proc' = [proc EXCEPT ![p].todo = @ \ {key},
                               ![p].tx[proc[p].k].rows = Over([x \in {key} |-> r], @)]
       /\ mixed' = (mixed \/ Unlike(r))
       /\ spent' = IF failed THEN [spent EXCEPT !.faults = @ + 1] ELSE spent
  /\ UNCHANGED <<disk, row, graph, db, writer, crossed>>

\* The provider's batch is made of its rows.
Gather(p) ==
  /\ proc[p].at = "collect" /\ proc[p].todo = {}
  /\ LET k == proc[p].k
     IN proc' = [proc EXCEPT ![p].out = Append(@, proc[p].tx[k].rows), ![p].k = k + 1,
                             ![p].at = IF k = Len(Providers) THEN "commit" ELSE "start"]
  /\ UNCHANGED <<disk, row, graph, db, writer, crossed, mixed, spent>>

Commit(p) ==
  /\ proc[p].at = "commit"
  /\ db' = proc[p].tx /\ writer' = NoProc
  /\ proc' = [proc EXCEPT ![p] = [Idle EXCEPT !.at = "done", !.graph = proc[p].graph,
                                                    !.hashes = proc[p].hashes, !.out = proc[p].out]]
  /\ UNCHANGED <<disk, row, graph, crossed, mixed, spent>>

\* The batches are merged into the graph and the refresh returns.
Return(p) ==
  /\ proc[p].at = "done"
  /\ proc' = [proc EXCEPT ![p] = Idle]
  /\ UNCHANGED <<disk, row, graph, db, writer, crossed, mixed, spent>>

\* The process dies or its pass raises: what it wrote is rolled back.
Die(p) ==
  /\ writer = p /\ spent.faults < MaxFaults
  /\ writer' = NoProc /\ proc' = [proc EXCEPT ![p] = Idle]
  /\ spent' = [spent EXCEPT !.faults = @ + 1]
  /\ UNCHANGED <<disk, row, graph, db, crossed, mixed>>

Step(p) == \/ Open(p) \/ Look(p) \/ Import(p) \/ Check(p) \/ BeginTx(p) \/ Busy(p) \/ Start(p)
           \/ Collect(p) \/ Gather(p) \/ Commit(p) \/ Return(p) \/ Die(p)

Next == Edit \/ Scan \/ \E p \in Procs : Step(p)
Spec == Init /\ [][Next]_vars

-----------------------------------------------------------------------------
(* Properties *)

Results == {proc[p] : p \in {p \in Procs : proc[p].at = "done"}}
Batches(r, request) == [k \in DOMAIN r.out |-> SqliteBatch(k, r.out[k], request)]

\* Reusing rows is only faster: whatever other refreshes, releases, imports, failures and
\* crashes left in the database, a refresh returns a row for each source that it hashed,
\* under that hash, and, unless a source was read under a hash that was not its own, the
\* row has what collecting anew finds, or says by its warning that collecting failed.
ReuseIsCollecting ==
  \A r \in Results :
    /\ \A key \in DOMAIN r.out[1] : key = Whole /\ r.out[1][key].of = r.graph
    /\ DOMAIN r.out[2] = DOMAIN r.hashes
    /\ \A key \in DOMAIN r.out[2] : r.out[2][key].hash = r.hashes[key]
    /\ ~mixed => \A key \in DOMAIN r.out[2] : r.out[2][key].failed \/ r.out[2][key].of = r.hashes[key]

\* The rows that a refresh returns for a provider after the first were collected by
\* its own release of it, though another release refreshes the same rows (the first
\* provider's version is read too early for that, and an import may cross).
RowsAreOfTheRelease ==
  ~ crossed =>
    \A p \in Procs : proc[p].at = "done" =>
      \A key \in DOMAIN proc[p].out[2] : proc[p].out[2][key].by = Release[p]

\* Every candidate is accounted for once, under any limits: what was emitted is accepted,
\* a duplicate or cut; nothing is rejected and no edge that is added dangles.
LedgersConserve ==
  \A r \in Results : \A request \in Requests :
    \A batches \in {Batches(r, request)} : \A graphed \in {Applied(r.graph, request.known, batches)} :
      /\ \A e \in graphed.edges \ request.known : {e[1], e[2]} \subseteq graphed.nodes
      /\ \A k \in DOMAIN batches : \A x \in {graphed.receipts[k]} :
           /\ x.nodes.rejected = 0 /\ x.edges.rejected = 0
           /\ x.nodes.accepted + x.nodes.duplicate + x.emitted.nodesCut = x.emitted.nodes
           /\ x.edges.accepted + x.edges.duplicate + x.emitted.edgesCut = x.emitted.edges

\* The two stores agree: what SQLite does not read, because the limits are spent, costs
\* no node that the JSON store returns; preferred paths are served before the others.
LimitsAreSpentInOrder ==
  \A r \in Results : \A request \in Requests :
    \A sql \in {SqliteBatch(2, r.out[2], request)}, json \in {JsonBatch(2, r.out[2], request)} :
      /\ sql.nodes = json.nodes /\ IsPrefix(sql.edges, json.edges)
      /\ \A n \in Range(sql.nodes) : n[1] \notin Range(request.preferred) =>
           \A key \in Range(request.preferred) \cap DOMAIN r.out[2] :
             Range(BatchOf(key, r.out[2][key]).nodes) \subseteq Range(sql.nodes)
=============================================================================
