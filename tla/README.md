# A TLA+ development of graphgraph

graphgraph turns a source repository into a graph of symbols, documents and
their relations, keeps that graph in a local file, refreshes it as the worktree
changes, and answers queries with budgeted packets cut out of it. Agents, a
command line, Git hooks and a server use the same files at the same time, so
that the part of the program that a test suite reaches least is the one that
keeps shared files right: the lock, the graph store, the caches in front of it,
the stores beside it, and the refresh that follows a Git worktree. The part that
a test suite reaches only by example is the two long computations: the scanner,
whose incremental builds are to give what a build from nothing gives, and the
retrieval, which cuts a packet out of a graph under a budget. This development
models these parts, model-checks them, and proves the results that matter most.

Paths below are relative to `src/src/graphgraph/` unless they begin with `src/`.

## 1. Inventory

### 1.1 Components that keep shared state

| Component | State | Operations | Interacts with | Hard behaviour | What makes it correct |
|---|---|---|---|---|---|
| State-file lock, `runtime/state.py` | a rendezvous file `<name>.lock`, the kernel's lock table, a pid stamp | `file_lock`: open, poll, time out, stamp, body, unlock, close | every writer of a shared file | creation races, timeouts that meet a release, death of the holder | one body at a time; no lock outlives its holder; waiting ends |
| Native store, `storage/delta.py`, `storage/sectioned.py`, `io/core.py` | `graph.gg` (base), `graph.gg.delta` (sidecar of records), their mtimes, temporary files | append a record, rewrite, compact, rescan | the lock; the loaders; the lifecycle | several writers, one kind of which takes no lock; death between rename and unlink; torn records; equal mtimes | what a reader sees is what the committed operations meant |
| Process graph cache, `io/core.py`, `io/cache.py` | parsed graphs under a fingerprint of the two files | `load_any`, `remember_loaded_graph`, `clear_graph_load_cache` | the store (without its lock); the lifecycle | four looks at two files that change in between; seeds that race with foreign writers | a hit is what the files hold |
| Packet cache, `runtime/cache.py` | a file of packets, each with the stat and hash of the base it came from | `get`, `set`, `_commit`, `clear` | the lock; the compile request path; the store | stat and hash taken at two moments; several processes; eviction at the bound | a hit belongs to the graph; no commit undoes another's |
| Graph lifecycle, `services/lifecycle.py`, `services/freshness.py`, `runtime/manifest.py`, `retrieval/git_utils.py`, `scanner/core.py` | the saved graph, the manifest (a hash per file), the anchor revision, a cached worktree listing | scan, targeted update, removal, Git sync, repair scan, freshness report | Git; the worktree; the scanner; the store | edits, commits and checkouts during a refresh; failures between saving graph, manifest and anchor; Git answers that are old, empty or wrong | what the graph lacks is reported, and a quiet sync brings it up to date |
| State files, `platform/memory.py`, `temporal.py`, `federation.py`, `persistence.py`, `tracing.py`, `graph/operations.py` | memory records, episodes, the project registry, versioned platform state, journals | remember, append, register, migrate, replay | the lock | read-modify-write across processes; a journal line cut short; a row that the reader splits | no record is lost or read half |
| Evidence store, `platform/evidence_store.py` | an SQLite file of evidence batches with source hashes | refresh (incremental, global), migrate, aggregate | the compiler's passes; the lock | reuse of evidence against changed sources; a migration that stops half way | reused evidence is of the current source |
| Semantic index, `platform/semantic.py` | vectors under a graph signature, a process-wide memo | build, save, load, query | the graph | an index of another graph or backend | an index that is used is the graph's |
| Spreading activation, `retrieval/activation.py` | the activation of the last turn, in a file | spread, decay, save | the graph | the graph loses nodes between two turns | an expired node does not come back |
| Platform server, `platform/server.py` | a graph per file mtime, a rate limiter | GET and POST handlers, `watch_paths`, `install_git_hooks` | the store, the lifecycle | a file cache without the sidecar in its fingerprint; concurrent handlers | a response is of the current graph |

### 1.2 Components that compute

These take a graph (or a source tree) and return a value; they keep nothing
between calls beyond memo tables. The first three and structural retrieval are
modelled (sections 2.6 and 2.9), as state machines of the stages that
pass a value on.

| Component | Sources | What makes it correct |
|---|---|---|
| Corpus ingestion and scanner passes | `scanner/core.py`, `files.py`, `source_ir.py`, `doc.py`, `imports.py`, `history.py` | every admitted file is extracted once; the graph assembled is valid |
| Language frontends and name resolution | `scanner/ast.py`, `scanner/frontends/`, `rust_references.py` | an edge is drawn only where a name resolves |
| Graph model and operations | `graph/` | operations keep the graph valid; replaying a journal gives the graph |
| Concept layer | `concepts/` | classification is a function of the text |
| Store discovery and interchange | `io/discovery.py`, `storage/backends.py` | the store chosen is the one last written; a migration loses nothing |
| Source planner and repair | `platform/source_planner.py`, `repair.py`, `change.py`, `intelligence.py` | plans stay inside their budgets |
| Structural retrieval | `retrieval/anchors.py`, `anchor_search.py`, `expansion.py`, `facets.py`, `search.py`, `selection.py`, `result_assembly.py`, `relations.py` | the packet is within budget, connected as promised, and obligations are met or reported |
| Test recommendations | `retrieval/test_recommendations.py` | commands name tests that exist |
| Query planning | `planning/` | one plan per query, budgets within bounds |
| Context-packet encoding and validation | `packets/` | decoding gives back what was encoded; validators accept what renderers write |
| Hybrid representation | `representation/hybrid.py` | every file is covered at some resolution within the budget |
| Compile request path | `services/context.py`, `compiler_driver.py`, `query.py`, `control.py`, `cache_identity.py` | lookup, load, compile, store in that order, under a key that names all that the answer depends on |
| Project atlas and status | `services/project_atlas.py`, `project_status.py`, `ecosystems.py`, `runtime_probes.py` | reports agree with the graph |
| MCP and CLI transports | `mcp/`, `cli/` | a request reaches the service with its arguments |
| Evaluation, acceptance, research, benchmarks | `analysis/`, `acceptance/`, `research/`, `src/benchmark/` | off the production path |

`PROJECT.json` has the same list with the status of each component, and under
`hazards` the places in the code that are hard to test, each with the property
that would catch it going wrong or the reason why there is none yet.

### 1.3 How the shared state fits together

    developer, Git ── worktree, HEAD
          │
    lifecycle (scan, update, sync)  ── manifest, anchor
          │ save                              │ seed
    file_lock ── native store: base + sidecar │
          │            │ load (no lock)       │
    packet cache    process graph cache ──────┘
          └── compile request path ── CLI, MCP, server

## 2. Modules

| Module | Models | Kind |
|---|---|---|
| `Mutex` | what a holder of `file_lock` may rely on | abstract specification |
| `Processes` | the processes that contend for locks, of `FileLock` and `StateFiles` alike | constants |
| `FileLock` | `file_lock` step by step; implements `Mutex` | state machine, refinement, liveness |
| `NativeStore` | base and sidecar with their writers; uses `Mutex` as its lock | state machine |
| `NativeStoreProofs` | the delta algebra and theorems about `NativeStore` | proofs |
| `GraphLoadCache` | `load_any` and the cache, over the store's writes | state machine |
| `GraphLoadCacheProofs` | theorems about `GraphLoadCache` | proofs |
| `PacketCache` | the packet cache, over the store's writes | state machine |
| `PacketCacheProofs` | theorems about `PacketCache` | proofs |
| `SourceSync` | the refresh of the saved graph, with a developer and Git | state machine |
| `SourceSyncProofs` | theorems about `SourceSync` | proofs |
| `TypeFacts` | the type facts of files, their join, and who reads a changed one | operators |
| `NameResolution` | from the texts of a batch of files to nodes and edges | operators |
| `ScanPipeline` | full scans, targeted updates and removals, with the manifest's rows | state machine |
| `ScanPipelineProofs` | theorems about `ScanPipeline` and the extraction it runs | proofs |
| `StateFiles` | the JSON stores and journals of the platform, and their migration | state machine |
| `PlatformStateProofs` | theorems about `FileLock` and `StateFiles` | proofs |
| `EvidenceStore` | the SQLite store of evidence, and the merge of evidence into the graph | state machine |
| `EvidenceStoreProofs` | theorems about `EvidenceStore` | proofs |
| `ContextGraph` | the graph that a request sees: ontology, traversal, budgeted choice | operators |
| `ContextExpansion` | the expansions of a request's starts into a packet | operators |
| `Retrieval` | a request from ranked anchors to the packet and its receipt | state machine |
| `CompilePath` | one compile request, from its refresh and its cache key to the store of its answer | state machine |
| `RequestProofs` | theorems about `Retrieval` and `CompilePath` | proofs |
| `MC*` | instances for TLC | |

They compose in layers. `FileLock` is shown to implement `Mutex`, and
`NativeStore` takes `Mutex` for the lock, so that its writers need two steps
for a lock and not ten. `GraphLoadCache` and `PacketCache` see the store
through the writes that a reader can tell apart: an append, the rename of a
rewrite and the unlink after it. `SourceSync` sees it as one saved graph that
changes in one step; `ScanPipeline` is what happens inside its `Extract`, as
`NameResolution` and `TypeFacts` are what happens inside the scanner's.
`Retrieval` works on a graph that has been loaded, through `ContextExpansion`
and `ContextGraph`. `CompilePath` is the request around it: it sees the store,
the load and the entries of the packet cache as one step each, as their own
modules justify, and adds what they leave out, the other sources.

### 2.1 FileLock

`pc` is the line of `file_lock` where each contender is; `descriptor` the file
it has open; `elapsed` the polls since `started`; `rendezvous` the inode that
the name has now; `owner` the kernel's table; `stamp` the pid in each inode.
`Open`, `OpenDenied`, `Acquire`, `Sleep`, `Expire`, `Stamp`, `StampFails`,
`Leave`, `Unlock` and `Close` are the statements in their order; `Vanish`, the
death of the process, may come anywhere. Windows' byte-range lock and POSIX
`flock` are one table: both belong to the open file, and both go with the
process. The specification is `LockSpec`: its names and those of `StateFiles`
are kept apart, so that one module can extend both.

### 2.2 NativeStore

A graph is a function from keys to values. A key is a node, an edge identity
or the metadata; `Ends` says which nodes an edge needs, so that validity and
the cascade of `_apply` (a record that deletes a node drops the edges at it)
are part of the model. The sidecar is the composition of its intact records,
their number, and whether a torn tail follows. Modification times are kept as
the one comparison that the code makes, whether the sidecar is strictly older
than the base; a staged file has its mtime from when it was written.

`BeginUpdate` is the load and the computation before the lock; `Acquire`,
`Append`, `Stage`, `Replace`, `Unlink` and `Release` are
`save_incremental_validated_graph` under it; `BeginCompact` loads under the
lock; `BeginRescan` leads to `Stage` with no lock at all, as
`scan_validated_graph` does. `TornAppend`, `ReplaceFails`, `GiveUp` and `Die`
are the failures.

`intended` is the graph that the commits, in their order, were meant to leave,
and `exposed` is set when one of four windows is entered in which the code has
no guard:

1. records left behind by a death between rename and unlink are hidden by the
   mtime guard until bytes are appended to the same sidecar (`Touch`);
2. a rewrite by a writer that loaded before another's commit (`StaleRewrite`);
3. a rewrite that gets the mtime of the last append, or an older one, and so
   leaves the sidecar applicable (`Replayed`);
4. a record appended between a rescan's rename and its unlink (`Unlink`).

A rescan that meets none of them starts anew. Naming the windows one by one is
what gives the main property its strength: everywhere else the store must be
exactly right.

Abstracted: the bytes and sections of both files; the size ratios that also
send a save to the rewrite path (an update may take that path at any time, so
every outcome of the comparison is covered); a load is one step here, and is
`GraphLoadCache`'s subject. Edges with equal identities are one key.

### 2.3 GraphLoadCache

A graph is the set of commits it reflects; a file is a content and a stamp,
which stands for mtime and size. A loader takes `StatBase`, `StatSidecar`,
`Hit` or `Miss`, `ReadBase`, `SkipSidecar` or `TakeSidecar` and `Replay`, then
`Store`: the order of `load_any` and `apply_delta_sidecar`. Writers are those
of `NativeStore`, reduced to what a loader can notice; the local ones end with
`Remember`, which is `remember_loaded_graph`. `owed` is the set of commits that
were visible when a load began and that no rewrite has disturbed since.
`exposed` stands for two windows: a record that an unlink takes away (window 4
above), and a seed by a writer that another write has overtaken.

Stamps are never used twice: that two writes may share mtime and size is the
third window of `NativeStore`, and is kept out here.

### 2.4 PacketCache

A packet is the graph it was compiled from, and an entry carries the stat and
the hash of the base file. `Open` is the constructor and the lookup; `StatHit`,
`StatChanged`, `Hash`, `Refresh`, `Discard` and `Orphaned` are `get`; `Load`,
`SetStat` and `SetHash` are the miss path and `set`. A commit that fails to get
the lock is silently dropped, as in the code. The key of an entry does not
depend on the graph. `raced` is set when the base changes between a query's
load and its store, the one place where the code stores a packet under a hash
that is not its own.

### 2.5 SourceSync

The graph is, for each path, the content it was extracted from; the manifest is
a hash for each path and an anchor. The developer edits, commits a subset of
the changes, and checks out another commit as Git allows it. A sync goes
through `List` (the worktree listing, possibly an old or an empty one),
`CompareHead`, `Diff` (from the anchor to HEAD), `ReadAnchor` (HEAD again),
`Check` (hash the candidates), `Take`, `Extract`, `SaveGraph`, `SaveManifest`
and `SaveAnchor`; a scan through `CaptureHead` and `Walk`; `Repair` is the
rescan after an invalid graph. Each of them looks at the worktree of its own
moment. `Fail` may come anywhere.

Two kinds of exception are named in the state. `unproven` is set in the two
places where an interval is anchored that nobody diffed (HEAD moves between
the comparison and the second reading; `rev-parse` fails and the repository is
taken for none), until a scan. `eluded` holds the paths that took back an
earlier content, which no list of Git need mention, and those that a sync is
about to drop though they are back. A path leaves it when a run saves a
manifest in which the path's hash, the graph and the worktree agree.

Left out: ignore rules and scan options; the arithmetic of the shrink guard (a
refusal is a failure); a caller that names an existing file as removed; renames
as such (a removal and an addition); the age limit of the listing (it may be of
any age); two refreshes at once.

### 2.6 TypeFacts, NameResolution and ScanPipeline

A text is what the parser makes of a file: definitions, imports, aliases, uses
of names, and a snapshot of type facts. `Extract` is `extract_files` with its
resolvers: which definition each import, base class, return type, bare, member
and module call and callback names, given the symbols of the files that are not
extracted (`context`). `TypeFacts` has the persistent index of
`persistent_facts.py`: facts join by union, and `Rejoin`, `ChangedKeys` and
`Affected` find what a change of a few files does to the others without opening
them.

`ScanPipeline` has the source tree, the manifest's rows, the joined index and
the graph. `Scan`, `Update` and `Remove` are `scan_directory`, `update_paths`
and `remove_paths`: each makes a plan (which files are dirty, which are woken
because a fact they read has changed, which referred to what is gone) and
`Build` follows it (restore the nodes and edges of the rows, extract the dirty
files against them, write new rows). `Edit` is the developer.

`read`, `view` and `strayed` are history: the text a file's edges come from, what
that extraction saw of the project (with the re-exports as each pass over the
imports found them), and whether a file was ever extracted that had changed since
it was hashed. The view names, in one place, why an incremental graph may
differ from a clean one: the view of a file is not refreshed when

1. a name that it uses gains or loses definitions in other files;
2. a class that it uses has other parents (they are not seeds of a wake-up);
3. a package outside the batch re-exports something else;
4. in TypeScript, JavaScript, Go and Rust, a function's return type changes
   (the maps of those languages are made of the dirty files);
5. the `impl` of a Rust type is in another file (`Lent`: the edges it gives
   belong to no row);
6. an external symbol joins the index of names;
7. a module that it imports is added.

`CurrentViewsAreClean` says that there is nothing else: a file whose view is
what a build from nothing would show it has the edges of a build from nothing.
Type facts are deliberately absent from the view, because their changes wake
the files that read them. The property is conditional on `~strayed`: a targeted
update that is woken for a file it was not told of extracts what is on disk, but
leaves the row the hash and the facts of before, so that the file and those
extracted with it are bound by facts that the index does not have yet. The next
update that looks at the file puts that right.

Left out: ignore rules and the walk; a hash that is computed before the content
is read (`SourceSync` has that race); the regex fallback; names of one or two
letters, which the resolver skips; fields as nodes, type references,
JavaScript's structural owners and default exports; documents, history and
concepts; limits on nodes.

### 2.7 StateFiles

The platform's state has two forms. A store (`memory.json`, `projects.json`) is
read, changed and replaced whole: `Load`, `Commit`. A journal
(`episodes.jsonl`, the runtime trace) is text to which rows are appended:
`Write` flushes any prefix of what is left, `Appended` is the return. Both take
the lock, as `Mutex` would have it; `ReadStore` does not. `Migrate` rewrites
either to the current schema, in every process that starts a server. `Die` may
come anywhere inside an operation and leaves what was flushed. `Projected` is
`TemporalStore.project` over the episodes read.

A journal's text is a sequence of tokens, a head, a tail and a newline for each
row, so that a crash can cut a row between them and the next row is glued to
what is left. Rows are written with `ensure_ascii=False` (`runtime/state.py:168`)
and read with `splitlines()` (`platform/temporal.py:37`, `platform/tracing.py:81`,
`platform/persistence.py:120`), which ends a line at U+0085, U+2028 and U+2029 too.
The rows that contain one of these are `Split`: they are written like any other,
acknowledged, and read as two lines of which none parses, so that from then on the
journal cannot be read or migrated. `JournalWhole` is therefore stated of journals
in which no such row was written (`Unsplit`), and `CrashCostsOneRow` counts the
other rows: a split row costs the journal its readers, but no other row its line.
`TextOf` writes rows, `Starts` finds where lines begin, `RowsOf`
reads them, and `Projected` replays them; all are recursive functions of a
position in the text, which is the form that the provers can reason about.

Left out: search in memories, anchors to graph nodes, views at a time, and the
union of projects; and `append_operation` of `graph/operations.py`, which appends to
a journal without a lock and which nothing in the package calls.

### 2.8 EvidenceStore

Each provider of evidence has rows, one for a source (or one for the graph),
with the hash under which the source was read. `Start`, `Collect` and `Gather`
are the refresh of one provider inside the transaction that `BeginTx` opens and
`Commit` ends; `Look` and `Import` take over an older `evidence.json`; `Busy`
is SQLite's answer to a second writer. `SqliteBatch` is the aggregation under
the limits of a request, `JsonBatch` the one of the JSON store, `Applied` the
merge into the graph with its receipts.

Two history variables name what the code does not guard. `mixed`: a row is
stored under a hash that its content does not have, because the hash comes from
the manifest and the content from the disk, or the source changes between the
two; a row that was stored so looks current when the source returns to the
hashed content. `crossed`: an import commits over a refresh, because whether
there is something to import is decided outside the transaction. The version of
the first provider is read outside the transaction as well, so that
`RowsAreOfTheRelease` speaks of the others.

A collection may fail (`MayFail`): a source that cannot be read, has no grammar or
is not parsed in time is a warning in the receipt of an empty batch
(`platform/cpg.py:147-168`), and that batch is stored under the current hash like
any other. It is reused for as long as the hash stays, whether or not a new
collection would succeed; a forced refresh, a new hash or a new release collects
again. `ReuseIsCollecting` therefore says of a reused row either that its content is
what collecting would find, or that it is empty and carries the warning. `Failing` says
which collections of which process may fail.

Left out: providers that only one release has (their rows are deleted); the
file format of the JSON store; grammars; the caches of compiler passes.

### 2.9 ContextGraph, ContextExpansion and Retrieval

A request has a class, ranked anchors, a budget of nodes and a scope; the graph
has kinds of nodes and edges, and some of its edges are expired. The stages are
those of `execute_retrieval`: `Anchor` (contract starts, reverse contract
siblings), `ExpandPaths` or `ExpandOthers`, `Partition` (cut to the budget),
`ReserveAnswers` and `ReserveSiblings` (what must not be cut takes the place of
what may), `Constrain`, `PruneAnchors`, `JudgeFacets`, `JudgeEvidence`,
`JudgeDocuments` and `Conclude` (the receipt). `ContextExpansion` has direct and
reverse lookups, paths between starts with the choice of whole proofs under a
budget, blast radius and subsystem summaries; `ContextGraph` the ontology of
relations, the traversal with its damping, and what a full packet gives up first.

A packet is a set of nodes and a set of edges, with the budget in force
(`room`). Edges are numbered in the order of the graph's list, so that the order
of a packet's list is the order of its edges' rank; the few edges that the code
appends behind the others are kept, in their order, in `late`. Wherever the code
sorts, the model has a key: a tuple of integers that ends in what no two
elements share. The damping by the degree of a node and the drain of a hub,
which the code computes with a square root and a logarithm, are tables of
integers by degree (`Damping`, `Drain`); the width of the beam of the path
search is `BeamWidth`. What rules other than the budget take out, a contract
sibling that was a start among them, is kept in `removed`.

Not every edge of a packet is the graph's. For a blast radius that starts in a test
directory the code reserves the support files beside the starts (`conftest.py`,
`__init__.py`, `compat.py`; `SupportFiles`) and joins each of them to a start by a
`configures` edge that it makes up (`retrieval/expansion.py:758-784`). `Edges` has these
too, in their place among the others, and `Missing` says which edges the graph
lacks; `PacketIsSound` allows them for this class and between these nodes only
(`Permitted`). Where the graph has an edge with the same ends and relation as the
one made up, the packet has one edge, which is what the code's `seen` does for the
edges of the packet.

Members of the contracts that a consumer query asks about
(`retrieval/reservations.py:174-223`) join the starts as `members`, a list that comes with
the request: which they are is decided by words.

Places where the code does less than its words say, found on the way and
excepted by name or bound:

- "larger budgets are true prefixes" (`retrieval/expansion.py:235-239`,
  `src/tests/test_retrieval.py:1831`) holds when the same proofs fit both
  budgets; otherwise a cheaper proof takes the place of a dearer one;
- `include_reserved_structural_edges` (`retrieval/expansion.py:914-924`) does
  not ask whether an edge is active, so that a summary may hold an expired one;
- the throttle for dense graphs has floors, and so can raise a small budget;
- a reverse lookup counts only what was omitted at starts that survive
  `prune_unsupported_anchors`, and says "node budget" when the scope cut;
- the receipt of a truncated reverse lookup replaces the judged one, without
  its confidence;
- an exact lookup of direct calls takes no notice of the node budget.

Left out: the ranking of anchors by words, document summaries, test and recent
change requests, spreading activation, several facets with their connector,
policies and decision traces, confidence as a number, named projects, and the
path search for one start alone.

### 2.10 CompilePath

A version of the graph, of `semantic.json` and of one auxiliary file (which
stands for memory and episodes: both are signed, read and given up in the same
way), the graph of another project with the stat of its base file, the manifest
with its `updated_at` in seconds, the index in the memory of the process, and
the entries of the packet cache. A request runs `Ask`, then, if it refreshes,
`RefreshNothing` or `RefreshGraph` and `RefreshManifest`, then `Inspect` (which
takes the manifest's `updated_at` for the key), `Sign` (the stats of the other
sources), `Hit`, `Miss`, `Bypass` or `UseResident`, `Load`, the semantic index
(`UseIndex` to `RememberIndex`, or a failure at any point), `ReadSources`,
`Federate`, `Store`. Meanwhile hooks save graphs and manifests, `RebuildIndex`
replaces the index, `Remember` changes the auxiliary file, `ForeignSaves` the
foreign graph: by a new base, or by a record in its sidecar.

A foreign graph is signed by the stat of its base file
(`platform/source_planner.py:369-381`) and read with its sidecar (`:570`). A
record in the sidecar leaves every key as it was, so that an answer found in the
cache may lack it for as long as the base stays. What `AnswersSeeAcks` asks of a
foreign graph is `ForeignDue`: of an answer that may come from the cache what
the base file had when the request arrived, and the sidecar's records too of one
that is always compiled.

An answer is what it was compiled from. `raced` and `crossed` name what the
code does not guard: two saves of the manifest in one second, or a foreign one
between a request's own save and its look at the manifest; and a replacement of
`semantic.json` between two of a query's looks at it (state, load, stat).

Left out: parts of the key that only tell more requests apart; the composition
of the response; the scores; a manifest that is saved for the anchor alone, which
changes `updated_at` and so only empties the cache.

## 3. Runs

Every run explores its instance exhaustively. Passing runs take from seconds to
three minutes and a half with two workers.

| Run | Instance | Distinct states | Question |
|---|---|---|---|
| `file_lock` | 3 contenders, 3 inodes, timeout 2 | 48,168 | does the lock exclude, tell who holds it, survive deaths, implement `Mutex`, and does waiting end? |
| `native_store` | 2 writers (one may rescan), a node and an edge at it, 1 value, 2 records, deaths and equal mtimes | 909,889 | outside the four windows, is the store what the commits meant, and does a deleted node take its edges? |
| `load_cache` | 1 loader, a local writer and a foreign one that may rescan, 3 commits, 5 writes | 3.93 million | outside the two windows, is a hit what the files hold, and does a load keep what was visible when it began? |
| `packet_cache` | 2 queries, 3 keys for 2 places, 2 contents, 2 writes of the base, 1 record | 988,509 | is a stat hit as good as a hash hit, do hits match the base, do commits keep others' entries? |
| `source_sync` | 2 paths, 2 contents, 2 commits, 4 steps of the developer | 5,956,612 | is whatever the graph lacks reported, and does a quiet sync bring it up to date? |
| `scan_pipeline` | 5 files in 2 languages, 8 texts, 2 edits, every kind of update and removal | 10,278 | are joined facts, restored rows and rebound callers what a build from nothing makes of them? |
| `state_files` | 2 processes, a store and a journal, 3 rows of which one is split, 3 operations, 1 death for each file | 126,503 | is no record lost, does a reader see what was acknowledged, what does a death cost? |
| `evidence_store` | processes of 2 releases, 2 sources, an edit, a scan, 3 refreshes, a death or a failed collection | 914,972 | are reused rows those of a full collection, and do batches keep their ledgers? |
| `retrieval` | 8 nodes, 23 edges and 6 that may be made up, 5 sets of expired ones, 5 classes, budgets around what is reached | 247,523 | is the packet sound, do direct answers go last, does a larger budget extend the packet? |
| `compile_path` | 2 threads, 2 requests, each refreshed, cached and with foreign graphs or materialized, 3 changes | 3,109,273 | does an answer, cached or not, see what was acknowledged, are its vectors of its graph, and is a loss reported? |
| `native_store_crash` | 1 writer, deaths | stops at the counterexample | finding 1 |
| `scan_pipeline_clean` | the instance of `scan_pipeline` | stops at the counterexample | finding 2 |

Why the bounds are enough:

- `file_lock`: three contenders are a holder, a waiter and a newcomer, the
  least for the race in which a file is removed and created again under a
  waiter; a third inode makes the new file a new one. A timeout of two lets a
  waiter poll, poll again and give up.
- `native_store`: two writers give every order of one load against another's
  commit; a node and an edge at it are the least in which a record can touch
  one key and leave the other, and in which a cascade happens; a limit of two
  records has an append, an append that fills the sidecar, and the rewrite
  behind it. There is no bound on the length of a behaviour.
- `load_cache`: five writes are an append, a rewrite and an append behind it,
  with two more to overlap with a seed. Loaders interact only through the
  cache, and the seeds of the local writer already are another hand on it.
- `packet_cache`: a key more than there is room for, so that the bound evicts;
  one rewrite after the initial content, which may bring the same content back.
- `source_sync`: two paths, so that the update of one can hide the other; four
  steps of the developer are edit, commit, edit back, commit, or two checkouts
  around edits. Every state that one process can reach in them, with every
  failure, is explored; the length of a behaviour is not bounded otherwise. Larger
  instances (three contents) were checked as well while the model was built.

- `scan_pipeline`: a library whose definitions, bases and returns change, a
  second one that may define the same names, a package that re-exports or
  defines, a test that uses all of them in each form of use, and a Rust file
  that comes and goes. Two edits bring a file away and back, or change a fact
  and the name that it is about; operations between them are not bounded.
- `state_files`: two processes are every order of a read-modify-write against
  another; batches of one and two rows are flushed in every way. The third
  operation reads, or meets what a death has left.
- `evidence_store`: three refreshes are the old release, the new one, and one
  that meets what the two have left; contents with more to find than the limits
  take; a request that prefers one path and spends its limits. The new release,
  which may be forced, may fail to collect the source, not the test. A death and
  a failed collection share one bound, so that a behaviour has one of them.
- `retrieval`: the graph has a call chain longer than the hops of a lookup, a
  hub, a contract with siblings, a document and a test; budgets go from one to
  more than is reachable, so that each reservation happens with room, with
  something to evict and with nothing to evict. A blast radius starts
  in a test with two support files beside it. That each of these cases is
  reached was checked with invariants that deny them. The limit of four support
  files is not reached.
- `compile_path`: two requests are one that stores and one that finds, or two
  that run through each other; three changes are one before, one between and
  one within a request, of any of the files. The first version of the graph
  has the node texts of the one before it, so that only the topology tells them
  apart. Of the two kinds of request one takes the cache, a refresh and the foreign
  graphs, the other source windows and so neither the cache nor a key; anchored
  requests and those in mode "off" read fewer sources, and only the proofs have
  them. A behaviour ends when its requests have been made, so that deadlock is
  not checked there.

Each property has, in `PROJECT.json`, a mutation of a definition of the model,
of the kind a bug in the code would be, under which the same run finds the
property violated.

### 3.1 Fairness

Only `WaitEnds` needs fairness: `FairSpec` of `FileLock` has weak fairness of
`WaitStep`, the steps a waiter takes by itself. The code justifies it: the loop
sleeps 25 ms and tries again, in a thread that the operating system runs.
Nothing is assumed of the holder, of the body of the `with` statement, or of
processes dying, which is the point of a timeout. No other module claims that
anything happens.

### 3.2 Where the code and what is said of it differ

1. `native_store_crash` violates `NeverAMixture`
   (`docs/architecture/storage/native-graph-store.md:334-335`). The writer dies
   after the rename of a rewrite and before the unlink; the mtime guard hides
   the leftover records until the next update appends to the same file, and
   then all of them are replayed over a base that has them folded in, or that a
   rescan had computed without them.
2. `scan_pipeline_clean` violates `IncrementalEqualsClean`
   (`scanner/core.py:523`). A file that is dropped and comes back is not bound
   to again by the unchanged files that used it: only a removal wakes those that
   refer to a file, and when it returns nothing refers to it.

More are known, and excepted by name in the properties that pass: a rewrite
computes its graph from a load before the lock, and loses what another writer
appended in between, though `storage/delta.py:352-353` says that it subsumes all
prior delta records (`StaleRewrite` in `NativeStore`); a seed of the process
cache may cover a foreign record that the seeded graph does not have
(`services/lifecycle.py:339-340`; `exposed` in `GraphLoadCache`); the packet
cache fingerprints only the base, and an append changes only the sidecar
(`runtime/cache.py:81-82`; `HitsMatchBase` says base); an uncommitted edit that
reached the graph and was taken back is in neither list that a sync takes its
candidates from (`eluded` in `SourceSync`); a file that a change of type facts
wakes is extracted from what is on disk but keeps the row's hash and facts
(`strayed` in `ScanPipeline`); the index that a query loads may be remembered
under the stat of its successor (`crossed` in `CompilePath`), and two saves in
one second have one key (`raced` there); a foreign graph's sidecar is read and
not signed (`ForeignDue` there); a journal row with a line boundary of
`splitlines()` in it ends the reading of its journal (`Split` in `StateFiles`);
and the empty batch of a failed collection is reused while the hash stays
(`failed` in `EvidenceStore`).

Each passing property says what holds beside the corresponding finding.

## 4. Proofs

Checked by TLAPS for every value of the constants that satisfies the modules'
assumptions. Those are of four kinds. Special values are none of the ordinary
ones. Bounds are natural numbers, and limits that the code has as positive
literals are positive (`MaxWrites`, `MaxRecords`). Data have the shape that the
code gives them: `Ends` maps edges to nodes, which have no ends themselves; a
use of a name in a text is made by a definition of that text, because the calls
are collected definition by definition (`UseAssumption`); what a text names is
among the names of the model (`TypeNameAssumption`), and the keys by which a
receiver is typed are among the needs of its file, because both are read off the
same imports and attributes (`NeedAssumption`: `_python_import_relations` in
`scanner/frontends/persistent_facts.py` and `_python_imported_return_facts` in
`scanner/frontends/python.py`); the rows an older release has left are labelled
as its own (`LegacyAssumption`); what a parser finds, the tests and the
preferred paths are sequences (`FoundAssumption`, `TestAssumption`,
`RequestAssumption`), as are the batches that are appended to a journal and what
an older release has left in one (`InputAssumption`). Which rows are split and
which collections may fail is left open: any set of rows (`RowAssumption`), any
set of processes and paths. The number that stands for "no limit" is above the
provider's own limits (`LimitAssumption`). The graph of a retrieval orders its
nodes and numbers its edges, which have a known relation and a confidence from
one to ten tenths, and its tables have a value for every degree
(`GraphAssumption`); floors and widths are natural numbers
(`ExpansionAssumption`); for every node and support file of one test directory
there is an edge that may be made up between them (`SupportAssumption`); and a
request has its type and at least one anchor, because a query without anchors is
answered before these phases (`SearchAssumption`). No set need be finite, except
that a project has finitely many files, a text finitely many re-exports
(`FiniteAssumption`) and a graph finitely many nodes and edges
(`GraphAssumption`, `RequestAssumption`).

`PlatformStateProofs`, of `FileLock`: `LockTypeCorrect`, `MutualExclusionHolds`,
`StampNamesHolderHolds`, `NoAbandonedLockHolds` and `MutexRefinement`. The
inductive invariant adds to the properties what ties the tables together: a
contender that has got the lock is the owner of the inode it has open, an owner
is such a contender, and every descriptor is of the inode that the name has.
The last is the heart of it: the file is never removed, so there is one inode
to own. The step simulation then maps `Acquire` to `Enter`, `Unlock` and the
death of a holder to `Leave`, and the rest to stutters.

`PlatformStateProofs`, of `StateFiles`: `Invariant`, `TypeCorrect`,
`RecordsKeptHolds`, `ReadersSeeAcksHolds`, `JournalWholeHolds`,
`CrashCostsOneRowHolds` and `SupersededStaysInactiveHolds`. For a store the
invariant, `IInv`, says that what the holder of its lock has loaded is what the
file holds (`StoreFine`), and that there is one holder (`OneHolder`). For a
journal the properties are far from inductive: halfway through an append it
cannot be read at all, and after a crash the next row is lost to the line that
the crash has left. `Settled` keeps the account: every crash answers for one
acknowledged row that has no line of its own, or for the `Dangling` line that
will spoil the next one. A journal that nobody writes is `Settled`; one that is
being written would be with what is yet to come (`Due`), and is `Partly` so with
any prefix of it, which is what a crash turns into `Settled` with one crash
more. Split rows are left out of the account: they have no line to lose, and a
row behind one still begins a line. Under this lie the facts about text: what
lines a text has after rows were appended to it whole or in part, that reading
gives back what was written, and that a migration keeps the rows. They are
proved by induction along the sequence (`SetInduction`, `Recursion`), as are the
facts on the projection, which is shown to depend only on the set of rows that a
journal has.

`NativeStoreProofs`: `Invariance`, `TypeCorrect`, `CommittedStateStaysVisible`
and `DeletedNodeTakesItsEdgesHolds`. `CommittedStateIsVisible` is not inductive:
whether a commit leaves what it meant to depends on what the writer loaded some
steps before. The strengthening is `Control /\ Content`. `Control` says who
holds the lock and what each stage of an operation has at hand. `Content` says
that outside the windows what a writer loaded, unless its history variable
`stale` says otherwise, is still what the store is meant to hold, and that
between a rename and its unlink the sidecar has no effect. The steps rest on an
algebra of records, stated as lemmas: replaying the difference of two graphs
over the first gives the second even with the cascade, if the second is valid
(`ApplyBetween`); composing records is replaying them in turn
(`ApplyCompose`); types of all of them. The action property follows from the
invariant: outside the windows a step that is not a commit leaves what is visible
alone (`OnlyCommitsDelete`), and a record made from a valid graph takes the edges
at a node from whatever graph it is replayed over (`DeletionCascades`).

`GraphLoadCacheProofs`: `TypeCorrect`, `HitsAreCurrentHolds` and
`LoadKeepsCommitsHolds`. A hit is found by its fingerprint alone, so that the
invariant has to say of every fingerprint that anybody still has what it is
worth: `Taken` says that it is the current one or never will be again, because
stamps only grow. `Files` says that a sidecar older than the base is there only
between a rename and its unlink. Then each party has a claim that holds under
the current fingerprint: `Writing` for the graph a writer is about to seed,
`Reading` for what a loader has read so far, `Providing` for what one loader
stores and another finds.

`PacketCacheProofs`: `Invariant`, `TypeCorrect`, `StatStandsForHashHolds`,
`HitsMatchBaseHolds` and `CommitsKeepOthersHolds`. Every stat that an entry or a
query has is one that the base has had, with the hash it had then; as stats are
not given twice, equal stats have equal hashes. The rest says of each stage of a
query what it has at hand: the place it found is the place of its key, the entry
it validated is in the file it read, and the packet it compiles is the base's of
the moment of its load, unless `raced`.

`SourceSyncProofs`: `TypeCorrect`, `NoSilentStalenessHolds` and
`SyncBringsUpToDateHolds`, both from one invariant. `Remembered` says that
everything known of a path (its hash, its content in any revision, the hash
taken) is something the path has held; so that a path that takes up a content
for the first time differs from all of it, and one that does not eludes by
definition. `Kept` is what the saved state promises of a path that did not
elude: where the manifest agrees with the file so does the graph, and where the
anchor does, both do. `Chosen`, `Planned` and `Applied` carry this through the
stages of a refresh: every path that the new anchor will vouch for is among the
candidates, then among the hashes to be saved, then up to date. In a sync that
nothing disturbed that is every path.

`ScanPipelineProofs`: `Invariant`, `NothingDanglesHolds`,
`RowsReproduceGraphHolds`, `UpdateIsLocalHolds`, `TypeIndexIsJoinHolds`,
`RejoinIsJoin`, `TypeCorrect`, `RemovalRebindsCallersHolds` and
`CurrentViewsAreCleanHolds`. Of an operation the proof needs only what its plan
guarantees (which files are dirty, which rows are restored), so that scans,
updates and removals share one lemma for each property. The invariant,
`Consistent`, relates manifest and graph: `RowFits` says that a row holds the
nodes at both ends of its edges and only edges that its file owns; `Whole` that
the graph's edges have their ends and its nodes a file or a referrer;
`Reproduced` that the row of a file restores the edges that the graph has of it,
and no others. That an extraction makes such a graph (`ExtractFacts`) is shown
for every resolver: contained definitions, imports, calls of each form,
inheritance and references. The type index has an invariant of its own,
`JoinInv`: the rows hold the facts of texts, and the index is the join of those
facts. Its inductive step is `RejoinIsJoin`: recomputing only the keys
downstream of the files that changed gives what joining everything anew gives,
because the two least fixed points agree on the keys that no changed key
reaches. That the loop has reached a fixed point when it stops is shown by
counting (`Saturation`): a round that still moves a fact uses a re-export for it
that no other round does, so that there are no more such rounds than re-exports.
`TypeCorrect` adds to both that every node is named by a file, a type and a
label of the texts. The last two theorems compare whole extractions, of
different sets of files with different earlier graphs, and need two more parts
of the invariant. `SymbolsKept`: the graph has exactly the symbols of the texts
that were read, of the kinds their texts give them, in the rows of their files.
So any build binds against the symbols of all texts, whichever it extracts
(`IndexIsOfReadTexts`), which is `RemovalRebindsCallers`. `RowsBound`: a row has
what its text is bound to by some resolution that shows it its view and whose
facts agree with the project's on what the file needs. A build makes that true
of what it extracts and keeps it true of the rest, because a change of a needed
fact extracts the file (`BuildKeepsBound`); and that two such resolutions bind a
text alike is shown form by form, up the operators of `NameResolution`
(`ReceiversAlike`, `CallEdgesAlike`, `TextEdgesAlike`). As a build from nothing
is one of them (`ExtractedBound`), the edges are its edges (`BoundIsClean`). The
proof needs two things that the instance is too small to tell: the exception of
files woken after they had changed (`strayed`), and the re-exports in the view
pass by pass, because what one pass over the imports finds depends on the pass
before. The inductions over finite sets and over rounds in these proofs go
through well-foundedness, stated for sets instead of predicates
(`SetInduction`).

`EvidenceStoreProofs`: `Invariant`, `TypeCorrect`, `ReuseIsCollectingHolds`,
`RowsAreOfTheReleaseHolds`, `LedgersConserveHolds` and
`LimitsAreSpentInOrderHolds`. The claims are about what a refresh returns, long
after the rows were written, by whomever. The invariant carries them through the
database: a row has the content of its hash (unless `mixed`), and is of the
release that its provider's version names (unless `crossed`), in what is
committed and in the open transaction; what is left to collect, with what is
there, makes up the sources that were hashed. A row whose collection failed is
empty and says so, and stays so until its path is collected again.
The last two theorems go on from those rows to what the request gets of them,
for any content, limits and preferred paths. `LedgersConserveHolds`: every batch
is `Balanced` (its receipt counts what it holds and what was cut, and its edges
hang on the graph or on its own nodes), and stays so when batches are cut,
skipped and added up; merging a balanced batch into a graph that it hangs on
settles its receipt, because what is new is counted by the cardinality of the
union. `LimitsAreSpentInOrderHolds`: along the rows, in their order, the two
stores are `Together`: they have the same nodes, as many as the rows that are
read amount to, up to the limit, and are equal as long as SQLite still reads;
and no path is `Served` before the preferred ones. Each of these inductions is
over the values of a recursive function (`Recursion`: there is one, with the
values of its steps), which is why the module defines its filters and sums as
recursive functions: the provers cannot unfold `SelectSeq` or a fold.

`RequestProofs`, of `CompilePath`: `TypeCorrect`, `AnswersSeeAcksHolds`,
`IndexInvariant`, `IndexIsOfTheGraphHolds` and `SemanticLossIsReportedHolds`. An
answer is found by its key only, so that the invariant relates keys to views:
`Kept` says of an entry that its graph is at least the one that the key's
`updated_at` was acknowledged with and its notes at least the signed ones;
`Fine` says the same of the local variables of each query, `Covers` that the key
a query looks up stands for what had been acknowledged when it arrived. A
foreign graph has an invariant beside this one, `ForeignInv`: a view, in a
request or in an entry, has of it at least the base file that its key was signed
with, because the base is signed before it is read; and the view of an uncached
request what was there when the request arrived. The two claims on the semantic
index have an invariant of their own, `IndexInv`: unless `crossed`, the index in
memory is the one on disk if it has its stat; what a request has found out about
`semantic.json` at one look holds at the next; and the view of an answer or of
an entry has an index of its own graph, no older than the one that was asked for
or is signed in the key, or a warning.

`RequestProofs`, of `Retrieval`: `PacketIsSoundHolds`, `DirectAnswersFirstHolds` and
`LargerBudgetsExtendHolds`, for any graph, request, budget and outcome of the
ranking. None of the three is inductive, because each speaks of the packet that is
delivered; the proof first says of each step what it does to any packet, and then
follows the packet through the stages.

- What the steps are built from: a key that no two elements share ranks a finite
  set one by one, so that its first k are as many as there are, and its list has
  each of them once (`Sorts`, `FirstOfIs`, `InOrderIs`). The expansions, reservations
  and closures are functions on an initial segment of the numbers, with the values
  of their steps (`Recursion`); the inductions along them go by the least
  counterexample (`LeastNumber`).
- What a step does: a reservation keeps what is protected, lets in what it lists
  as long as anything may go for it, and never lets a packet within its bound
  outgrow it (`AdmitAllIs`); an expansion holds its roots, keeps to its limit, and
  has no edge without its ends (`ExpandIs`); before the cut only a packet that
  fits may lack a start (`GatheredIs`), which is why a cut always has a start to
  grow from (`CutIs`).
- `AskedWell` and `Sound` are the invariant under `PacketIsSound`: at each stage the
  packet is a subgraph of what the class may show (`Permitted`, edges to support
  files among it: `SupportFilesAre`, `WithAppendedIs`), its starts are kept or in
  `removed`, and its size is at most `Allowed`.
- `Told` is the one under `DirectAnswersFirst`. `AnswersFirst` says that the answers
  between the nodes present are listed as edges, and that who answers is present or
  was taken out, unless starts and answers fill the packet. Pruning and cuts keep
  both (`AnswersRemain`); so what the receipt counts as omitted is what is missing.
- `PathsAreMonotone` says that a path packet, up to its reservation, is the monotone
  expansion of its proofs. That a wider one contains it (`MonotoneExtends`) is an
  induction over the rounds: a round chooses by an order that does not depend on
  the room, so that more room only adds to the choice; and as long as the narrower
  expansion still has room, the two are equal, which is what makes the next rounds
  comparable at all (`ExpandExtends`).

The type invariants of `FileLock` (`LockTypeOK`), `GraphLoadCache`, `SourceSync` and
`CompilePath` are proved, and in no run.

Model-checked only: `WaitEnds`, because liveness under fairness is out of the
prover's reach.

Out of the prover's reach: liveness under fairness and `ENABLED`; and induction
by the library's theorems, whose parameter is a predicate. What takes an
induction is either model-checked or goes by the well-foundedness of the order,
as above. No module here declares a recursive operator.

## 5. Plan

Done: `Mutex`, `FileLock`, `NativeStore`, `GraphLoadCache`, `PacketCache`,
`SourceSync`, the scanner's modules, `StateFiles`, `EvidenceStore`, the
retrieval's modules and `CompilePath`, with the proofs of section 4.

Left, in this order:

1. Two refreshes at once: `SourceSync` with two processes, the manifest without
   a lock, and the store's windows.
2. The activation state and the server's file cache, as further clients of the
   store beside `PacketCache`.
3. Test recommendations and the hybrid cover (`representation/hybrid.py`), as
   operators against reference definitions.

What will stay unmodelled, and why: parsing, text classification, scoring and
rendering are functions of their input with no protocol, and scores and vectors
are floating point; transports and reports call the services modelled here; the
evaluation harnesses are off the production path.
