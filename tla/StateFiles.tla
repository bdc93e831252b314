------------------------------ MODULE StateFiles ------------------------------
(***************************************************************************)
(* The platform's state beside the graph: JSON stores that are rewritten   *)
(* whole (memory.json, projects.json) and journals that are appended to    *)
(* (episodes.jsonl, runtime-trace.jsonl).  The CLI, the MCP server and     *)
(* every request thread of the HTTP server write them under file_lock      *)
(* (module FileLock, here its abstract owner); stores are read without it; *)
(* `migrate_platform_state`, which the HTTP server runs when it starts,    *)
(* rewrites both kinds to the current schema.                              *)
(*                                                                         *)
(* A store's record is its id.  A journal is the text that is in the file: *)
(* each row a head and a tail, then a newline, so that a crash can leave   *)
(* any prefix of what was being written.  A row may be split: it contains  *)
(* a character that json.dumps writes as it is and splitlines takes for    *)
(* the end of a line (U+0085, U+2028, U+2029).  Replacing a file is one    *)
(* step (os.replace); writing to a journal as many as the stream flushes.  *)
(***************************************************************************)
EXTENDS Processes, Naturals, FiniteSets, SequencesExt

CONSTANTS
  Stores,         \* memory.json, projects.json
  Journals,       \* episodes.jsonl, runtime-trace.jsonl
  Versioned,      \* the files that a migration knows: not the traces
  Ids,            \* record ids
  Rows,           \* rows of the journals: [id, supersedes]
  Split,          \* those that contain a character at which splitlines ends a line
  NoId,           \* what an episode supersedes that supersedes nothing
  Batches,        \* the sequences of rows that may be appended to each journal
  OldStores,      \* the records an older release may have left in each store
  OldTexts,       \* the rows it may have left in each journal
  MaxWork,        \* bound: operations that begin
  MaxCrashes      \* bound: processes that die inside an operation

Files == Stores \union Journals
Current == 2     \* PLATFORM_STATE_VERSION

ASSUME NameAssumption  == Stores \cap Journals = {} /\ NoId \notin Ids
ASSUME FileAssumption  == Versioned \subseteq Files
ASSUME RowAssumption   == Rows \subseteq [id : Ids, supersedes : Ids \union {NoId}] /\ Split \subseteq Rows
ASSUME InputAssumption == /\ Batches \in [Journals -> SUBSET Seq(Rows)]
                          /\ OldStores \subseteq SUBSET Ids /\ OldTexts \subseteq Seq(Rows)
ASSUME BoundAssumption == MaxWork \in Nat /\ MaxCrashes \in Nat

VARIABLES
  store,    \* each store: the version it states (0: no file) and its records
  text,     \* each journal
  holder,   \* who is inside file_lock of each file
  proc,     \* each process's operation and local variables
  acked,    \* history: what an operation on each file has returned success for
  began,    \* operations begun
  crashes   \* processes dead inside an operation, and where: Nat for each file

vars == <<store, text, holder, proc, acked, began, crashes>>

-----------------------------------------------------------------------------
(* Text *)

Token(row, part, version) == [row |-> row, part |-> part, version |-> version]
NoRow   == [id |-> NoId, supersedes |-> NoId]
Newline == Token(NoRow, "newline", 0)
Tokens  == {Newline} \union [row : Rows, part : {"head", "tail", "rest"}, version : 1 .. Current]

\* json.dumps(data, ensure_ascii=False): what follows the head of a split row begins
\* with the character that ends its line.
Second(row) == IF row \in Split THEN "rest" ELSE "tail"

\* MUTANT of Lined: rows are joined by newlines, none ends the last.
LinedJoined(row, version) == <<Token(row, "head", version), Token(row, Second(row), version)>>

\* json.dumps(data) + "\n".
Lined(row, version) == <<Token(row, "head", version), Token(row, Second(row), version), Newline>>

TextOf(rows, version) ==
  LET upto[i \in 0 .. Len(rows)] == IF i = 0 THEN <<>> ELSE upto[i - 1] \o Lined(rows[i], version)
  IN upto[Len(rows)]

\* splitlines, blank lines skipped: where each line starts.
Starts(t) ==
  {i \in DOMAIN t : t[i] # Newline /\ (i = 1 \/ t[i - 1] = Newline \/ t[i].part = "rest")}

\* json.loads takes one object and nothing after it.
Parses(t, i) ==
  /\ t[i].part = "head"
  /\ i + 1 \in DOMAIN t /\ t[i + 1] = Token(t[i].row, "tail", t[i].version)
  /\ i + 2 \in DOMAIN t => t[i + 2] = Newline

\* TemporalStore.read and ingest_runtime_trace raise if any line fails.
Readable(t) == \A i \in Starts(t) : Parses(t, i)
RowsOf(t) ==
  LET upto[i \in 0 .. Len(t)] == IF i = 0 THEN <<>>
                                 ELSE IF i \in Starts(t) THEN Append(upto[i - 1], t[i].row) ELSE upto[i - 1]
  IN upto[Len(t)]

\* No split row has been written.
Unsplit(t) == \A i \in DOMAIN t : t[i].row \notin Split

\* The rows that have a line of their own, whatever the other lines are.
Standing(t) == {t[i].row : i \in {i \in Starts(t) : Parses(t, i)}}

-----------------------------------------------------------------------------
(* What TemporalStore.project makes of the episodes it reads *)

\* MUTANT of NodeOf: a node is active until an episode read after it supersedes it.
NodeActive(e, superseded) == TRUE
\* A new node for each episode, active unless any episode of the journal supersedes it.
NodeOf(e, superseded) == e.id \notin superseded

\* The nodes, and whether each is active, after one more episode: its own node
\* replaces an earlier one of that id, then the one it supersedes is put out.
Projection(superseded, nodes, e) ==
  [id \in DOMAIN nodes \union {e.id} |-> IF id = e.supersedes THEN FALSE
                                         ELSE IF id = e.id THEN NodeOf(e, superseded) ELSE nodes[id]]

Projected(episodes) ==
  LET superseded == {e.supersedes : e \in Range(episodes)}
      upto[i \in 0 .. Len(episodes)] == IF i = 0 THEN <<>>
                                        ELSE Projection(superseded, upto[i - 1], episodes[i])
  IN upto[Len(episodes)]

-----------------------------------------------------------------------------
Idle == [at |-> "idle", op |-> "none", file |-> NoId, item |-> <<>>,
         version |-> 0, seen |-> {}, known |-> {}]

Ops    == {"none", "remember", "append", "migrate", "read"}
Stages == {"idle", "waiting", "inside", "loaded", "done"}

TypeOK ==
  /\ store \in [Stores -> [version : 0 .. Current, records : SUBSET Ids]]
  /\ text \in [Journals -> Seq(Tokens)]
  /\ holder \in [Files -> Procs \union {NoProc}]
  /\ \A p \in Procs : /\ proc[p].at \in Stages /\ proc[p].op \in Ops
                      /\ proc[p].at # "idle" => proc[p].file \in Files
                      /\ proc[p].at \in {"inside", "loaded"} => holder[proc[p].file] = p
  /\ \A s \in Stores : acked[s] \subseteq Ids
  /\ \A j \in Journals : acked[j] \subseteq Rows
  /\ began \in 0 .. MaxWork /\ crashes \in [Files -> 0 .. MaxCrashes]

Init ==
  /\ store \in [Stores -> {[version |-> 0, records |-> {}]}
                            \union {[version |-> 1, records |-> r] : r \in OldStores}]
  /\ text \in [Journals -> {TextOf(rows, 1) : rows \in OldTexts}]
  /\ holder = [f \in Files |-> NoProc]
  /\ proc = [p \in Procs |-> Idle]
  /\ acked = [f \in Files |-> IF f \in Stores THEN store[f].records ELSE Standing(text[f])]
  /\ began = 0 /\ crashes = [f \in Files |-> 0]

\* All but the readers of a store take its lock.
Locks(p) == proc[p].op # "read" \/ proc[p].file \in Journals

Begin(p, op, f, item) ==
  /\ proc[p].at = "idle" /\ began < MaxWork
  /\ began' = began + 1
  /\ proc' = [proc EXCEPT ![p] = [Idle EXCEPT !.at = "waiting", !.op = op, !.file = f, !.item = item,
                                              !.known = acked[f]]]
  /\ UNCHANGED <<store, text, holder, acked, crashes>>

\* MemoryStore.remember, ProjectRegistry.register: the record, its id and its time
\* are made before the lock is taken.
Remember(p) == \E f \in Stores : \E id \in Ids : Begin(p, "remember", f, id)

\* TemporalStore.append, POST /api/trace.
AppendRows(p) == \E j \in Journals : \E rows \in Batches[j] : Begin(p, "append", j, TextOf(rows, Current))

\* migrate_platform_state: a file that does not exist is passed over.
Migrate(p) ==
  \E f \in Versioned :
    /\ IF f \in Stores THEN store[f].version # 0 ELSE text[f] # <<>>
    /\ Begin(p, "migrate", f, <<>>)

\* MemoryStore.read, ProjectRegistry.list; TemporalStore.read, ingest_runtime_trace.
Read(p) == \E f \in Files : Begin(p, "read", f, <<>>)

-----------------------------------------------------------------------------
\* MUTANT of Enter: a migration runs without the lock.
EnterUnlessMigration(p) ==
  /\ proc[p].at = "waiting" /\ Locks(p)
  /\ proc[p].op = "migrate" \/ holder[proc[p].file] = NoProc
  /\ proc' = [proc EXCEPT ![p].at = "inside"]
  /\ holder' = [holder EXCEPT ![proc[p].file] = p]
  /\ UNCHANGED <<store, text, acked, began, crashes>>

\* file_lock is acquired.
Enter(p) ==
  /\ proc[p].at = "waiting" /\ Locks(p)
  /\ holder[proc[p].file] = NoProc
  /\ proc' = [proc EXCEPT ![p].at = "inside"]
  /\ holder' = [holder EXCEPT ![proc[p].file] = p]
  /\ UNCHANGED <<store, text, acked, began, crashes>>

\* TimeoutError: the caller is told that nothing was done.
GiveUp(p) ==
  /\ proc[p].at = "waiting" /\ Locks(p)
  /\ holder[proc[p].file] # NoProc
  /\ proc' = [proc EXCEPT ![p] = Idle]
  /\ UNCHANGED <<store, text, holder, acked, began, crashes>>

\* _read_unlocked, list, _migrate_memory and the like: the old content, whole.
Load(p) ==
  /\ proc[p].at = "inside" /\ proc[p].op \in {"remember", "migrate"} /\ proc[p].file \in Stores
  /\ proc' = [proc EXCEPT ![p].at = "loaded", ![p].version = store[proc[p].file].version,
                          ![p].seen = store[proc[p].file].records]
  /\ UNCHANGED <<store, text, holder, acked, began, crashes>>

Release(p) == holder' = [holder EXCEPT ![proc[p].file] = NoProc]

\* atomic_write_json: a temporary file, flushed, replaces the store; the lock is
\* released and the record returned.
Commit(p) ==
  /\ proc[p].at = "loaded" /\ proc[p].op = "remember"
  /\ LET f == proc[p].file
     IN /\ store' = [store EXCEPT ![f] = [version |-> Current, records |-> proc[p].seen \union {proc[p].item}]]
        /\ acked' = [acked EXCEPT ![f] = @ \union {proc[p].item}]
  /\ proc' = [proc EXCEPT ![p] = Idle] /\ Release(p)
  /\ UNCHANGED <<text, began, crashes>>

\* replace_with_retry gives up (another process holds the file open on Windows):
\* the staged file is removed and the error is raised.
CommitFails(p) ==
  /\ proc[p].at = "loaded"
  /\ proc' = [proc EXCEPT ![p] = Idle] /\ Release(p)
  /\ UNCHANGED <<store, text, acked, began, crashes>>

\* MUTANT of MigrateStore: the rows of the first schema, a bare list, are not taken over.
MigrateStoreEmpties(p) ==
  /\ proc[p].at = "loaded" /\ proc[p].op = "migrate"
  /\ LET f == proc[p].file
     IN store' = [store EXCEPT ![f] = IF proc[p].version >= Current THEN @
                                      ELSE [version |-> Current, records |-> {}]]
  /\ proc' = [proc EXCEPT ![p] = Idle] /\ Release(p)
  /\ UNCHANGED <<text, acked, began, crashes>>

\* _migrate_memory, _migrate_projects: current already, or written anew.
MigrateStore(p) ==
  /\ proc[p].at = "loaded" /\ proc[p].op = "migrate"
  /\ LET f == proc[p].file
     IN store' = [store EXCEPT ![f] = IF proc[p].version >= Current THEN @
                                      ELSE [version |-> Current, records |-> proc[p].seen]]
  /\ proc' = [proc EXCEPT ![p] = Idle] /\ Release(p)
  /\ UNCHANGED <<text, acked, began, crashes>>

\* MUTANT of MigrateJournal: a file that does not parse is begun anew.
MigrateJournalAnyway(p) ==
  /\ proc[p].at = "inside" /\ proc[p].op = "migrate" /\ proc[p].file \in Journals
  /\ LET j   == proc[p].file
         old == \E i \in Starts(text[j]) : text[j][i].version < Current
     IN text' = IF old THEN [text EXCEPT ![j] = IF Readable(@) THEN TextOf(RowsOf(@), Current) ELSE <<>>] ELSE text
  /\ proc' = [proc EXCEPT ![p] = Idle] /\ Release(p)
  /\ UNCHANGED <<store, acked, began, crashes>>

\* _migrate_episodes: rows that all parse are written anew with the current
\* version; one that does not is a warning, and the file stays as it is.
MigrateJournal(p) ==
  /\ proc[p].at = "inside" /\ proc[p].op = "migrate" /\ proc[p].file \in Journals
  /\ LET j   == proc[p].file
         old == Readable(text[j]) /\ \E i \in Starts(text[j]) : text[j][i].version < Current
     IN text' = IF old THEN [text EXCEPT ![j] = TextOf(RowsOf(@), Current)] ELSE text
  /\ proc' = [proc EXCEPT ![p] = Idle] /\ Release(p)
  /\ UNCHANGED <<store, acked, began, crashes>>

\* The stream flushes some of what append_jsonl_many wrote to it.
Write(p) ==
  /\ proc[p].at = "inside" /\ proc[p].op = "append" /\ proc[p].item # <<>>
  /\ \E n \in 1 .. Len(proc[p].item) :
       /\ text' = [text EXCEPT ![proc[p].file] = @ \o SubSeq(proc[p].item, 1, n)]
       /\ proc' = [proc EXCEPT ![p].item = SubSeq(@, n + 1, Len(@)),
                               ![p].seen = @ \union {proc[p].item[i].row : i \in 1 .. n}]
  /\ UNCHANGED <<store, holder, acked, began, crashes>>

\* os.fsync, the lock is released, the caller is told that the rows are there.
Appended(p) ==
  /\ proc[p].at = "inside" /\ proc[p].op = "append" /\ proc[p].item = <<>>
  /\ acked' = [acked EXCEPT ![proc[p].file] = @ \union (proc[p].seen \ {NoRow})]
  /\ proc' = [proc EXCEPT ![p] = Idle] /\ Release(p)
  /\ UNCHANGED <<store, text, began, crashes>>

\* read_text of a store, without a lock: os.replace shows it the old or the new file.
ReadStore(p) ==
  /\ proc[p].at = "waiting" /\ proc[p].op = "read" /\ proc[p].file \in Stores
  /\ proc' = [proc EXCEPT ![p].at = "done", ![p].seen = store[proc[p].file].records]
  /\ UNCHANGED <<store, text, holder, acked, began, crashes>>

\* read_text of a journal under its lock, then parsed: an error if a line fails.
ReadJournal(p) ==
  /\ proc[p].at = "inside" /\ proc[p].op = "read"
  /\ LET t == text[proc[p].file]
     IN proc' = [proc EXCEPT ![p] = IF Readable(t) THEN [@ EXCEPT !.at = "done", !.seen = Range(RowsOf(t))]
                                    ELSE Idle]
  /\ Release(p)
  /\ UNCHANGED <<store, text, acked, began, crashes>>

Return(p) ==
  /\ proc[p].at = "done"
  /\ proc' = [proc EXCEPT ![p] = Idle]
  /\ UNCHANGED <<store, text, holder, acked, began, crashes>>

\* The process dies: the kernel drops its lock, and what it wrote so far stays.
Die(p) ==
  /\ proc[p].at \in {"inside", "loaded"}
  /\ crashes[proc[p].file] < MaxCrashes
  /\ crashes' = [crashes EXCEPT ![proc[p].file] = @ + 1]
  /\ proc' = [proc EXCEPT ![p] = Idle] /\ Release(p)
  /\ UNCHANGED <<store, text, acked, began>>

Step(p) ==
  \/ Remember(p) \/ AppendRows(p) \/ Migrate(p) \/ Read(p)
  \/ Enter(p) \/ GiveUp(p) \/ Load(p) \/ Commit(p) \/ CommitFails(p) \/ MigrateStore(p)
  \/ MigrateJournal(p) \/ Write(p) \/ Appended(p) \/ ReadStore(p) \/ ReadJournal(p)
  \/ Return(p) \/ Die(p)

Next == \E p \in Procs : Step(p)
Spec == Init /\ [][Next]_vars

-----------------------------------------------------------------------------
(* Properties *)

\* A record that remember or register returned for, or that an older release left,
\* is never lost, whoever rewrites the store meanwhile: the rewrites and the
\* migration of one store do not overlap.
RecordsKept == [][\A s \in Stores : store[s].records \subseteq store'[s].records]_vars

\* A reader sees every record whose writer had returned when it began, and every
\* row, though it takes no lock on a store and a journal may be rewritten under it.
ReadersSeeAcks == \A p \in Procs : proc[p].at = "done" => proc[p].known \subseteq proc[p].seen

\* Only a crash or a split row can spoil a journal: as long as no writer died in it,
\* no split row was written to it and nobody is inside, it can be read and holds every
\* row that was acknowledged, whoever appended and whatever was migrated.
JournalWhole ==
  \A j \in Journals :
    crashes[j] = 0 /\ holder[j] = NoProc /\ Unsplit(text[j]) =>
      Readable(text[j]) /\ acked[j] \subseteq Range(RowsOf(text[j]))

\* A crash costs little: for each one, at most one acknowledged row (the first that
\* is appended after it, glued to what it left) has no line of its own.  A split row
\* has none itself, but costs no other row its line.
CrashCostsOneRow ==
  \A j \in Journals :
    \A lost \in {acked[j] \ (Standing(text[j]) \union Split)} : Cardinality(lost) <= crashes[j]

\* An episode that was superseded never comes back: not by a later row with its id,
\* not by a migration, and not if the two rows were appended in the other order.
SupersededStaysInactive ==
  [][\A j \in Journals :
       text[j] # text'[j] /\ Readable(text[j]) /\ Readable(text'[j]) =>
         \A before \in {Projected(RowsOf(text[j]))}, after \in {Projected(RowsOf(text'[j]))} :
           \A id \in DOMAIN before : ~ before[id] => id \in DOMAIN after /\ ~ after[id]]_vars
=============================================================================
