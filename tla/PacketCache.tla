----------------------------- MODULE PacketCache -----------------------------
(***************************************************************************)
(* The packet cache shared by the CLI, the server and the hooks            *)
(* (runtime/cache.py, TopologicalKVCache): a file of at most MaxEntries    *)
(* answers, each stored with the stat and the SHA-256 of the graph's base  *)
(* file.  Every query opens the cache, looks its key up, validates what it *)
(* finds against the base file, and otherwise compiles the answer from the *)
(* loaded graph and stores it (services/context.py, compiler_driver.py).   *)
(*                                                                         *)
(* A packet is the graph it was compiled from: the base's content and the  *)
(* number of records in the sidecar beside it.  The key does not depend on *)
(* the graph.  A commit runs under file_lock (module FileLock) and         *)
(* publishes with an atomic rename, so it is one step; storing a packet    *)
(* looks at the base twice under the lock, and is two.                     *)
(***************************************************************************)
EXTENDS Naturals, Sequences
Seqs == INSTANCE SequencesExt

CONSTANTS
  Queries,     \* concurrent queries, each with a cache object of its own
  Keys,        \* cache keys
  Contents,    \* what the base file may hold
  NoKey, NoContent,  \* no query runs; there is no base file
  MaxEntries,  \* max_entries
  MaxWrites,   \* bound: writes of the base file, the first one included
  MaxRecords   \* bound: records in the sidecar

ASSUME ContentAssumption == NoContent \notin Contents
ASSUME BoundAssumption   == MaxEntries \in Nat \ {0} /\ MaxWrites \in Nat \ {0} /\ MaxRecords \in Nat

VARIABLES
  stat,      \* the stat of the base file, another one after every write
  content,   \* what it holds, and its hash
  appended,  \* records in the sidecar
  file,      \* the entries of the cache file, oldest first
  locked,    \* the query that holds the lock across two steps, if any
  query,     \* each query's stage and local variables
  raced      \* history: the base changed between a query's load and its store

vars == <<stat, content, appended, file, locked, query, raced>>
graph == <<stat, content, appended>>

Visible == [content |-> content, records |-> appended]
Packets == [content : Contents, records : 0 .. MaxRecords]
NoPacket == [content |-> NoContent, records |-> 0]
Entry   == [key : Keys, stat : 0 .. MaxWrites, hash : Contents \union {NoContent}, packet : Packets]

\* The entries are an ordered map: no two of a file have the same key.
Held(entries)   == {entries[i] : i \in DOMAIN entries}
KeysOf(entries) == {e.key : e \in Held(entries)}
EntriesOf(entries, key) == {e \in Held(entries) : e.key = key}
Without(entries, key) ==
  IF key \in KeysOf(entries)
  THEN Seqs!RemoveAt(entries, CHOOSE i \in DOMAIN entries : entries[i].key = key)
  ELSE entries

\* The base file's stat as its readers see it; nothing if there is no file.
Stat == IF content = NoContent THEN 0 ELSE stat

Idle == [at |-> "idle", key |-> NoKey, found |-> {}, stat |-> 0,
         packet |-> NoPacket, seen |-> NoPacket]

Stages == {"idle", "opened", "changed", "valid", "invalid", "missed", "computed", "storing", "hit"}

TypeOK ==
  /\ stat \in 0 .. MaxWrites /\ content \in Contents \union {NoContent}
  /\ appended \in 0 .. MaxRecords
  /\ file \in Seq(Entry) /\ Len(file) <= MaxEntries
  /\ \A i, j \in DOMAIN file : file[i].key = file[j].key => i = j
  /\ locked \in SUBSET Queries
  /\ query \in [Queries -> [at : Stages, key : Keys \union {NoKey}, found : SUBSET Entry,
                            stat : 0 .. MaxWrites, packet : Packets \union {NoPacket},
                            seen : Packets \union {NoPacket}]]
  /\ raced \in BOOLEAN

Init ==
  /\ stat = 1 /\ content \in Contents /\ appended = 0
  /\ file = <<>>
  /\ locked = {}
  /\ query = [q \in Queries |-> Idle]
  /\ raced = FALSE

-----------------------------------------------------------------------------
\* The store (module NativeStore), as far as the cache can tell.  A rewrite may
\* bring back what the base held before.
Racing == \E q \in Queries : query[q].at \in {"computed", "storing"}

Rewrite ==
  /\ stat < MaxWrites
  /\ stat' = stat + 1
  /\ content' \in Contents
  /\ appended' = 0
  /\ raced' = (raced \/ Racing)
  /\ UNCHANGED <<file, locked, query>>

AppendRecord ==
  /\ content # NoContent
  /\ appended < MaxRecords
  /\ appended' = appended + 1
  /\ UNCHANGED <<stat, content, file, locked, query, raced>>

Remove ==
  /\ content # NoContent
  /\ content' = NoContent /\ appended' = 0
  /\ raced' = (raced \/ Racing)
  /\ UNCHANGED <<stat, file, locked, query>>

-----------------------------------------------------------------------------
At(q, stage) == query[q].at = stage

\* What the object that q opened has for its key.
Mine(q) == CHOOSE e \in query[q].found : TRUE

\* _commit: under the lock, the mutation of what the file holds by now.  If the
\* lock or the write fails, so does the commit, and nobody is told.
Commit(entries) ==
  \/ locked = {} /\ file' = entries
  \/ file' = file

\* The constructor loads the file, and get looks the key up in what it loaded.
Open(q) ==
  /\ At(q, "idle")
  /\ \E k \in Keys : \E found \in {EntriesOf(file, k)} :
       query' = [query EXCEPT ![q] = [Idle EXCEPT !.at = IF found = {} THEN "missed" ELSE "opened",
                                                  !.key = k, !.found = found]]
  /\ UNCHANGED <<graph, file, locked, raced>>

\* get: there is no base file any more.
Orphaned(q) ==
  /\ At(q, "opened")
  /\ content = NoContent
  /\ query' = [query EXCEPT ![q].at = "invalid"]
  /\ UNCHANGED <<graph, file, locked, raced>>

\* get: the base file's stat is the entry's.
StatHit(q) ==
  /\ At(q, "opened")
  /\ content # NoContent /\ Mine(q).stat = Stat
  /\ query' = [query EXCEPT ![q] = [@ EXCEPT !.at = "hit", !.found = {},
                                              !.packet = Mine(q).packet, !.seen = Visible]]
  /\ UNCHANGED <<graph, file, locked, raced>>

\* get: the stat is another one, so that the hash decides.
StatChanged(q) ==
  /\ At(q, "opened")
  /\ content # NoContent /\ Mine(q).stat # Stat
  /\ query' = [query EXCEPT ![q].at = "changed", ![q].stat = Stat]
  /\ UNCHANGED <<graph, file, locked, raced>>

\* MUTANT of HashAgrees: the entry is trusted whatever the file hashes to.
HashReadable(q) == content # NoContent
HashAgrees(q) == content # NoContent /\ Mine(q).hash = content

Hash(q) ==
  /\ At(q, "changed")
  /\ query' = [query EXCEPT ![q] = [@ EXCEPT !.at = IF HashAgrees(q) THEN "valid" ELSE "invalid",
                                              !.seen = Visible]]
  /\ UNCHANGED <<graph, file, locked, raced>>

\* The entry of q, if it still is of the content just hashed, gets the new stat.
Refreshed(q) ==
  [i \in DOMAIN file |->
     IF file[i].key = query[q].key /\ file[i].hash = Mine(q).hash
     THEN [file[i] EXCEPT !.stat = query[q].stat] ELSE file[i]]

Refresh(q) ==
  /\ At(q, "valid")
  /\ Commit(Refreshed(q))
  /\ query' = [query EXCEPT ![q] = [@ EXCEPT !.at = "hit", !.found = {}, !.stat = 0,
                                              !.packet = Mine(q).packet]]
  /\ UNCHANGED <<graph, locked, raced>>

\* The entry of q, whatever it is by now, is dropped.
Discard(q) ==
  /\ At(q, "invalid")
  /\ Commit(Without(file, query[q].key))
  /\ query' = [query EXCEPT ![q] = [Idle EXCEPT !.at = "missed", !.key = query[q].key]]
  /\ UNCHANGED <<graph, locked, raced>>

\* The answer was in the cache.
Answer(q) ==
  /\ At(q, "hit")
  /\ query' = [query EXCEPT ![q] = Idle]
  /\ UNCHANGED <<graph, file, locked, raced>>

\* After a miss the graph is loaded, and the answer compiled from it.
Load(q) ==
  /\ At(q, "missed")
  /\ content # NoContent
  /\ query' = [query EXCEPT ![q].at = "computed", ![q].packet = Visible]
  /\ UNCHANGED <<graph, file, locked, raced>>

\* There is nothing to load, the lock or the write of set fails and the query
\* with it, or the process dies.
Abandon(q) ==
  /\ query[q].at \in {"missed", "computed", "storing"}
  /\ query' = [query EXCEPT ![q] = Idle]
  /\ locked' = locked \ {q}
  /\ UNCHANGED <<graph, file, raced>>

\* set: under the lock, the base file's stat is taken,
SetStat(q) ==
  /\ At(q, "computed")
  /\ locked = {}
  /\ locked' = {q}
  /\ query' = [query EXCEPT ![q].at = "storing", ![q].stat = Stat]
  /\ UNCHANGED <<graph, file, raced>>

\* MUTANT of Stored: the stat is taken after the hash.
StoredLateStat(q) == [key |-> query[q].key, stat |-> Stat, hash |-> query[q].packet.content,
                      packet |-> query[q].packet]
\* then its hash, which may already be that of another base,
Stored(q) == [key |-> query[q].key, stat |-> query[q].stat, hash |-> content,
              packet |-> query[q].packet]

\* MUTANT of Evicted: the bound is off by one.
EvictedLate(entries) == IF Len(entries) > MaxEntries + 1 THEN Tail(entries) ELSE entries
\* MUTANT of Evicted: the oldest entry makes room before there is a need.
EvictedEarly(entries) == IF Len(entries) >= MaxEntries THEN Tail(entries) ELSE entries
\* and the oldest entry makes room.
Evicted(entries) == IF Len(entries) > MaxEntries THEN Tail(entries) ELSE entries

SetHash(q) ==
  /\ At(q, "storing")
  /\ file' = Evicted(Append(Without(file, query[q].key), Stored(q)))
  /\ locked' = {}
  /\ query' = [query EXCEPT ![q] = Idle]
  /\ UNCHANGED <<graph, raced>>

\* `graphgraph cache --clear`.
Clear ==
  /\ locked = {} /\ file # <<>>
  /\ file' = <<>>
  /\ UNCHANGED <<graph, locked, query, raced>>

World == Rewrite \/ AppendRecord \/ Remove

Get(q) == Open(q) \/ Orphaned(q) \/ StatHit(q) \/ StatChanged(q) \/ Hash(q)
            \/ Refresh(q) \/ Discard(q) \/ Answer(q)

Set(q) == Load(q) \/ Abandon(q) \/ SetStat(q) \/ SetHash(q)

Next == World \/ Clear \/ \E q \in Queries : Get(q) \/ Set(q)

Spec == Init /\ [][Next]_vars

-----------------------------------------------------------------------------
\* A hit that pays for a stat only is as good as one that pays for the hash: an
\* entry whose stat is the base's has the base's hash, in the file and in every
\* object that a query has open, although stat and hash are taken at two moments.
StatStandsForHash ==
  \A e \in Held(file) \union UNION {query[q].found : q \in Queries} :
    content # NoContent /\ e.stat = Stat => e.hash = content

\* Unless the base was rewritten while a query was compiling the packet it would
\* store, what a hit returns was compiled from the base content that was in the
\* file when the entry was validated.
HitsMatchBase ==
  ~raced => \A q \in Queries :
    At(q, "hit") => query[q].packet.content = query[q].seen.content

\* A commit touches the entry of its own query and no other, except that storing
\* into a full cache evicts one: no query writes back what it loaded when it
\* began over what others have committed since.
CommitsKeepOthers ==
  [][file' # file /\ file' # <<>> =>
       \E q \in Queries : \A k \in KeysOf(file) \ {query[q].key} :
         IF k \in KeysOf(file') THEN EntriesOf(file', k) = EntriesOf(file, k)
         ELSE At(q, "storing") /\ k = file[1].key /\ Len(file) = MaxEntries]_vars
=============================================================================
