-------------------------- MODULE PacketCacheProofs --------------------------
(***************************************************************************)
(* PacketCache proved for any number of queries, keys and contents, any    *)
(* size of the cache and any number of writes of the base file.            *)
(*                                                                         *)
(* None of the three properties is inductive.  That a stat stands for a    *)
(* hash must hold of entries that are on their way too: of the stat that a *)
(* query has taken and will store, and it rests on no entry having a stat  *)
(* that the base file is still to get.  That a hit matches the base rests  *)
(* on every entry having been compiled from the content it names the hash  *)
(* of, as long as nobody has rewritten the base under a query that was     *)
(* compiling.                                                              *)
(***************************************************************************)
EXTENDS PacketCache, SequenceTheorems, TLAPS

Locals == [at : Stages, key : Keys \union {NoKey}, found : SUBSET Entry, stat : 0 .. MaxWrites,
           packet : Packets \union {NoPacket}, seen : Packets \union {NoPacket}]

\* An entry's stat is one that the base has had, and names its hash.
EntryFine(e) ==
  /\ e.stat <= stat
  /\ content # NoContent /\ e.stat = Stat => e.hash = content
  /\ ~raced => e.packet.content = e.hash

\* What each stage of a query has at hand.
QueryFine(l) ==
  /\ l.stat <= stat
  /\ l.at # "idle" => l.key \in Keys
  /\ l.at \in {"opened", "changed", "valid"} => \E e \in Entry : l.found = {e}
  /\ \A e \in l.found : EntryFine(e)
  /\ l.at = "valid" => \A e \in l.found :
       /\ e.hash = l.seen.content
       /\ content # NoContent /\ l.stat = Stat => e.hash = content
  /\ l.at \in {"computed", "storing"} => l.packet \in Packets
  /\ ~raced /\ l.at \in {"computed", "storing"} => l.packet.content = content
  /\ ~raced /\ l.at = "hit" => l.packet.content = l.seen.content

IInv ==
  /\ TypeOK
  /\ stat >= 1 /\ (content = NoContent => appended = 0)
  /\ \A i \in DOMAIN file : EntryFine(file[i])
  /\ \A q \in Queries : QueryFine(query[q])

-----------------------------------------------------------------------------
(* What a mutation makes of the entries *)

Unique(entries) == \A i, j \in DOMAIN entries : entries[i].key = entries[j].key => i = j

\* Dropping a key leaves the other entries, in their order.
LEMMA WithoutFacts ==
  ASSUME NEW entries \in Seq(Entry), Unique(entries), NEW key
  PROVE  /\ Without(entries, key) \in Seq(Entry) /\ Unique(Without(entries, key))
         /\ Held(Without(entries, key)) = {e \in Held(entries) : e.key # key}
         /\ IF key \in KeysOf(entries) THEN Len(Without(entries, key)) + 1 = Len(entries)
                                       ELSE Without(entries, key) = entries
<1> DEFINE w == Without(entries, key)
<1>1. CASE key \notin KeysOf(entries)
  <2>1. w = entries
    BY <1>1 DEF Without
  <2> QED BY <1>1, <2>1 DEF KeysOf
<1>2. CASE key \in KeysOf(entries)
  <2>1. PICK g \in DOMAIN entries : g = CHOOSE i \in DOMAIN entries : entries[i].key = key
    BY <1>2 DEF KeysOf, Held
  <2>2. entries[g].key = key
    BY <1>2, <2>1 DEF KeysOf, Held
  <2>3. g \in 1 .. Len(entries) /\ Len(entries) \in Nat
    OBVIOUS
  <2>4. w = SubSeq(entries, 1, g - 1) \o SubSeq(entries, g + 1, Len(entries))
    BY <1>2, <2>1 DEF Without, Seqs!RemoveAt
  <2>5. SubSeq(entries, 1, g - 1) \in Seq(Entry) /\ Len(SubSeq(entries, 1, g - 1)) = g - 1
        /\ \A i \in 1 .. g - 1 : SubSeq(entries, 1, g - 1)[i] = entries[i]
    BY <2>3
  <2>6. SubSeq(entries, g + 1, Len(entries)) \in Seq(Entry) /\ Len(SubSeq(entries, g + 1, Len(entries))) = Len(entries) - g
        /\ \A i \in 1 .. Len(entries) - g : SubSeq(entries, g + 1, Len(entries))[i] = entries[g + i]
    BY <2>3
  <2>7. /\ w \in Seq(Entry) /\ Len(w) = Len(entries) - 1
        /\ \A i \in 1 .. Len(entries) - 1 : w[i] = IF i < g THEN entries[i] ELSE entries[i + 1]
    <3> DEFINE a == SubSeq(entries, 1, g - 1)  b == SubSeq(entries, g + 1, Len(entries))
    <3> HIDE DEF a, b, w
    <3>1. w = a \o b /\ a \in Seq(Entry) /\ Len(a) = g - 1 /\ b \in Seq(Entry) /\ Len(b) = Len(entries) - g
      BY <2>4, <2>5, <2>6 DEF a, b, w
    <3>2. w \in Seq(Entry) /\ Len(w) = Len(entries) - 1
      BY <2>3, <3>1
    <3>3. ASSUME NEW i \in 1 .. Len(entries) - 1 PROVE w[i] = IF i < g THEN entries[i] ELSE entries[i + 1]
      <4>1. CASE i < g
        BY <2>3, <2>5, <3>1, <4>1 DEF a
      <4>2. CASE i >= g
        <5>1. PICK j \in 1 .. Len(entries) - g : j = i - (g - 1) /\ g + j = i + 1
          <6>1. i - (g - 1) \in 1 .. Len(entries) - g /\ g + (i - (g - 1)) = i + 1
            BY <2>3, <4>2
          <6> QED BY <6>1
        <5>2. (a \o b)[i] = IF i <= Len(a) THEN a[i] ELSE b[i - Len(a)]
          <6>1. i \in 1 .. Len(a) + Len(b)
            BY <2>3, <3>1
          <6> QED BY <3>1, <6>1, ConcatProperties
        <5>3. w[i] = b[j]
          BY <2>3, <3>1, <4>2, <5>1, <5>2
        <5>4. b[j] = entries[g + j]
          BY <2>6 DEF b
        <5> QED BY <2>3, <4>2, <5>1, <5>3, <5>4
      <4> QED BY <2>3, <4>1, <4>2
    <3> QED BY <3>2, <3>3 DEF w
  <2> HIDE DEF w
  <2>8. Unique(w)
    BY <2>3, <2>7, SMTT(30) DEF Unique
  <2>9. Held(w) = {e \in Held(entries) : e.key # key}
    <3>1. ASSUME NEW i \in DOMAIN w PROVE w[i] \in Held(entries) /\ w[i].key # key
      BY <2>2, <2>3, <2>7 DEF Held, Unique
    <3>2. ASSUME NEW i \in DOMAIN entries, entries[i].key # key PROVE \E j \in DOMAIN w : w[j] = entries[i]
      <4>1. CASE i < g
        BY <2>3, <2>7, <4>1
      <4>2. CASE i > g
        <5>1. i - 1 \in DOMAIN w /\ w[i - 1] = entries[i]
          BY <2>3, <2>7, <4>2
        <5> QED BY <5>1
      <4> QED BY <2>2, <3>2, <4>1, <4>2
    <3> QED BY <3>1, <3>2 DEF Held
  <2> QED BY <1>2, <2>3, <2>7, <2>8, <2>9 DEF w
<1> QED BY <1>1, <1>2

\* An entry of another key comes last.
LEMMA AppendFacts ==
  ASSUME NEW entries \in Seq(Entry), Unique(entries), NEW e \in Entry, e.key \notin KeysOf(entries)
  PROVE  LET new == Append(entries, e)
         IN new \in Seq(Entry) /\ Unique(new) /\ Held(new) = Held(entries) \union {e} /\ Len(new) = Len(entries) + 1
<1> DEFINE new == Append(entries, e)
<1>1. /\ new \in Seq(Entry) /\ Len(new) = Len(entries) + 1
      /\ \A i \in 1 .. Len(entries) : new[i] = entries[i]
      /\ new[Len(entries) + 1] = e
  OBVIOUS
<1> HIDE DEF new
<1>2. DOMAIN new = DOMAIN entries \union {Len(new)} /\ new[Len(new)] = e /\ Len(new) \notin DOMAIN entries
  BY <1>1
<1>3. \A i \in DOMAIN entries : new[i] = entries[i] /\ entries[i].key # e.key
  BY <1>1 DEF KeysOf, Held
<1>4. Unique(new)
  BY <1>2, <1>3 DEF Unique
<1>5. Held(new) = Held(entries) \union {e}
  BY <1>2, <1>3 DEF Held
<1> QED BY <1>1, <1>4, <1>5 DEF new

\* Only the first goes, if any, and then there were more than there is room for.
LEMMA EvictedFacts ==
  ASSUME NEW entries \in Seq(Entry), Unique(entries), Len(entries) <= MaxEntries + 1
  PROVE  /\ Evicted(entries) \in Seq(Entry) /\ Unique(Evicted(entries)) /\ Len(Evicted(entries)) <= MaxEntries
         /\ Held(Evicted(entries)) = IF Len(entries) > MaxEntries THEN Held(entries) \ {entries[1]} ELSE Held(entries)
<1> DEFINE new == Evicted(entries)
<1>1. CASE Len(entries) <= MaxEntries
  BY <1>1, BoundAssumption DEF Evicted
<1>2. CASE Len(entries) > MaxEntries
  <2>1. new = Tail(entries) /\ entries # <<>> /\ Len(entries) >= 1
    BY <1>2, BoundAssumption DEF Evicted
  <2>2. new \in Seq(Entry) /\ Len(new) = Len(entries) - 1 /\ \A i \in 1 .. Len(entries) - 1 : new[i] = entries[i + 1]
    BY <2>1
  <2> HIDE DEF new
  <2>3. Unique(new)
    BY <2>1, <2>2 DEF Unique
  <2>4. Held(new) = Held(entries) \ {entries[1]}
    <3>1. ASSUME NEW i \in DOMAIN new PROVE new[i] \in Held(entries) /\ new[i] # entries[1]
      <4>1. i + 1 \in DOMAIN entries /\ 1 \in DOMAIN entries /\ i + 1 # 1 /\ new[i] = entries[i + 1]
        BY <2>1, <2>2
      <4> QED BY <4>1 DEF Held, Unique
    <3>2. ASSUME NEW i \in DOMAIN entries, entries[i] # entries[1] PROVE \E j \in DOMAIN new : new[j] = entries[i]
      <4>1. i - 1 \in DOMAIN new /\ new[i - 1] = entries[i]
        BY <2>1, <2>2, <3>2
      <4> QED BY <4>1
    <3> QED BY <3>1, <3>2 DEF Held
  <2>5. Len(new) <= MaxEntries
    BY <2>2, BoundAssumption
  <2> QED BY <1>2, <2>2, <2>3, <2>4, <2>5 DEF new
<1> QED BY <1>1, <1>2, BoundAssumption

\* What storing an entry makes of the file.
LEMMA StoredFacts ==
  ASSUME NEW entries \in Seq(Entry), Unique(entries), Len(entries) <= MaxEntries, NEW e \in Entry
  PROVE  LET new == Evicted(Append(Without(entries, e.key), e))
         IN /\ new \in Seq(Entry) /\ Unique(new) /\ Len(new) <= MaxEntries
            /\ Held(new) \subseteq Held(entries) \union {e}
            /\ \A f \in Held(entries) : f.key # e.key =>
                 f \in Held(new) \/ (f = entries[1] /\ Len(entries) = MaxEntries)
<1> DEFINE rest == Without(entries, e.key)  all == Append(rest, e)  new == Evicted(all)
<1>1. /\ rest \in Seq(Entry) /\ Unique(rest) /\ Held(rest) = {f \in Held(entries) : f.key # e.key}
      /\ IF e.key \in KeysOf(entries) THEN Len(rest) + 1 = Len(entries) ELSE rest = entries
  BY WithoutFacts
<1> HIDE DEF rest
<1>2. all \in Seq(Entry) /\ Unique(all) /\ Held(all) = Held(rest) \union {e} /\ Len(all) = Len(rest) + 1
  BY <1>1, AppendFacts DEF KeysOf
<1>3. rest # <<>> => all[1] = rest[1]
  BY <1>1
<1> HIDE DEF all
<1>4. Len(rest) \in Nat /\ Len(entries) \in Nat /\ Len(all) <= MaxEntries + 1
  BY <1>1, <1>2, BoundAssumption
<1>5. /\ new \in Seq(Entry) /\ Unique(new) /\ Len(new) <= MaxEntries
      /\ Held(new) = IF Len(all) > MaxEntries THEN Held(all) \ {all[1]} ELSE Held(all)
  BY <1>2, <1>4, EvictedFacts
<1> HIDE DEF new
<1>6. Len(all) > MaxEntries => rest = entries /\ Len(entries) = MaxEntries /\ all[1] = entries[1]
  <2> SUFFICES ASSUME Len(all) > MaxEntries PROVE rest = entries /\ Len(entries) = MaxEntries /\ all[1] = entries[1]
    OBVIOUS
  <2>1. rest = entries /\ Len(entries) = MaxEntries
    BY <1>1, <1>2, <1>4, BoundAssumption
  <2>2. rest # <<>>
    BY <2>1, BoundAssumption
  <2> QED BY <1>3, <2>1, <2>2
<1> QED BY <1>1, <1>2, <1>5, <1>6 DEF new, all, rest

-----------------------------------------------------------------------------
(* What is fine stays fine *)

\* A file is typed if its entries are, no two have the same key, and there is room.
FileFine(entries) == entries \in Seq(Entry) /\ Len(entries) <= MaxEntries /\ Unique(entries)

\* A file that holds fewer entries of another, or other fine ones, is fine.
LEMMA InvOfParts ==
  ASSUME IInv, stat' \in 0 .. MaxWrites, stat' >= 1, content' \in Contents \union {NoContent},
         appended' \in 0 .. MaxRecords, content' = NoContent => appended' = 0, locked' \in SUBSET Queries, raced' \in BOOLEAN,
         FileFine(file'), \A e \in Held(file') : EntryFine(e)',
         query' \in [Queries -> Locals], \A q \in Queries : QueryFine(query[q])'
  PROVE IInv'
<1>1. TypeOK'
  BY DEF TypeOK, FileFine, Unique, Locals, Entry, Packets, NoPacket, Stages
<1>2. \A i \in DOMAIN file' : EntryFine(file[i])'
  BY DEF Held, EntryFine
<1> QED BY <1>1, <1>2 DEF IInv

\* An entry stays fine while the base has no other content under the same stat, and if
\* the base changes under a query that compiles, that is noted.
LEMMA EntryStaysFine ==
  ASSUME NEW e, EntryFine(e), e.stat \in Nat, stat \in Nat, stat' \in Nat,
         \/ UNCHANGED <<stat, content>>
         \/ stat' = stat + 1
         \/ stat' = stat /\ content' = NoContent,
         raced => raced'
  PROVE EntryFine(e)'
<1>1. ~raced' => ~raced
  OBVIOUS
<1>2. e.stat <= stat'
  BY DEF EntryFine
<1>3. content' # NoContent /\ e.stat = Stat' => e.hash = content'
  BY DEF EntryFine, Stat
<1> QED BY <1>1, <1>2, <1>3 DEF EntryFine, Stat

\* A step that leaves the base alone keeps the invariant if the file that it leaves is
\* fine, and the query that takes it.
LEMMA OneStep ==
  ASSUME IInv, UNCHANGED <<graph, raced>>, locked' \in SUBSET Queries,
         FileFine(file'), \A e \in Held(file') : EntryFine(e),
         NEW q \in Queries, query' = [query EXCEPT ![q] = query'[q]],
         query'[q] \in Locals, QueryFine(query'[q])
  PROVE IInv'
<1>1. query \in [Queries -> Locals]
  BY DEF IInv, TypeOK, Locals
<1>2. query' \in [Queries -> Locals]
  BY <1>1
<1>3. \A r \in Queries : QueryFine(query'[r])
  BY <1>1 DEF IInv
<1>4. UNCHANGED <<stat, content, appended, raced>> /\ Stat' = Stat /\ (content = NoContent => appended = 0)
  BY DEF graph, Stat, IInv
<1>5. \A r \in Queries : QueryFine(query[r])'
  BY <1>3, <1>4 DEF QueryFine, EntryFine
<1>6. \A e \in Held(file') : EntryFine(e)'
  BY <1>4 DEF EntryFine
<1> QED BY <1>2, <1>4, <1>5, <1>6, InvOfParts DEF IInv, TypeOK

\* What the invariant says of the file and of one query.
LEMMA Parts ==
  ASSUME IInv, NEW q \in Queries
  PROVE  /\ FileFine(file) /\ \A e \in Held(file) : EntryFine(e)
         /\ query[q] \in Locals /\ QueryFine(query[q]) /\ DOMAIN query = Queries
         /\ content \in Contents \union {NoContent} /\ Stat \in 0 .. MaxWrites /\ Stat <= stat
         /\ (content # NoContent => Visible \in Packets) /\ Visible \in Packets \union {NoPacket}
<1>1. stat \in 0 .. MaxWrites /\ stat >= 1 /\ MaxWrites \in Nat
  BY BoundAssumption DEF IInv, TypeOK
<1>2. content = NoContent => Visible = NoPacket
  BY DEF IInv, Visible, NoPacket
<1>3. content # NoContent => Visible \in Packets
  BY DEF IInv, TypeOK, Visible, Packets
<1>4. Stat \in 0 .. MaxWrites /\ Stat <= stat
  BY <1>1 DEF Stat
<1> QED BY <1>2, <1>3, <1>4 DEF IInv, TypeOK, FileFine, Unique, Held, Locals

\* It all starts fine.
LEMMA InitIInv == ASSUME Init PROVE IInv
<1>1. Idle \in Locals
  BY BoundAssumption DEF Idle, Locals, Stages
<1>2. file \in Seq(Entry) /\ Len(file) = 0 /\ DOMAIN file = {}
  BY DEF Init
<1>3. TypeOK
  <2>1. stat \in 0 .. MaxWrites /\ appended \in 0 .. MaxRecords /\ Len(file) <= MaxEntries
    BY <1>2, BoundAssumption DEF Init
  <2> QED BY <1>1, <1>2, <2>1 DEF Init, TypeOK, Locals
<1>4. QueryFine(Idle)
  BY BoundAssumption DEF Init, QueryFine, Idle
<1> QED BY <1>2, <1>3, <1>4, ContentAssumption DEF Init, IInv

\* The store commits, or is removed.
LEMMA WorldKeeps == ASSUME IInv, World PROVE IInv'
<1>1. UNCHANGED <<file, locked, query>> /\ (raced => raced') /\ raced' \in BOOLEAN
  <2>1. raced \in BOOLEAN
    BY DEF IInv, TypeOK
  <2>2. CASE AppendRecord
    BY <2>1, <2>2 DEF AppendRecord
  <2>3. CASE Rewrite
    BY <2>1, <2>3 DEF Rewrite
  <2>4. CASE Remove
    BY <2>1, <2>4 DEF Remove
  <2> QED BY <2>2, <2>3, <2>4 DEF World
<1>2. /\ stat \in Nat /\ stat' \in 0 .. MaxWrites /\ stat' >= 1 /\ stat <= stat'
      /\ content' \in Contents \union {NoContent} /\ appended' \in 0 .. MaxRecords
      /\ (content' = NoContent => appended' = 0)
  <2>1. stat \in 0 .. MaxWrites /\ stat >= 1 /\ appended \in 0 .. MaxRecords /\ content \in Contents \union {NoContent}
    BY DEF IInv, TypeOK
  <2>2. CASE AppendRecord
    BY <2>1, <2>2, BoundAssumption DEF AppendRecord
  <2>3. CASE Rewrite
    BY <2>1, <2>3, BoundAssumption, ContentAssumption DEF Rewrite
  <2>4. CASE Remove
    BY <2>1, <2>4, BoundAssumption DEF Remove
  <2> QED BY <2>2, <2>3, <2>4 DEF World
<1>3. \/ UNCHANGED <<stat, content>>
      \/ stat' = stat + 1
      \/ stat' = stat /\ content' = NoContent
  BY DEF World, Rewrite, AppendRecord, Remove
<1>4. ASSUME NEW e \in Entry, EntryFine(e) PROVE EntryFine(e)'
  <2>1. e.stat \in Nat /\ stat' \in Nat
    BY <1>2, BoundAssumption DEF Entry
  <2> QED BY <1>1, <1>2, <1>3, <1>4, <2>1, EntryStaysFine
<1>5. ASSUME NEW q \in Queries PROVE QueryFine(query[q])'
  <2> DEFINE l == query[q]
  <2>1. l \in Locals /\ QueryFine(l) /\ l.stat \in Nat
    BY Parts, BoundAssumption DEF Locals
  <2>2. l.found \subseteq Entry
    BY <2>1 DEF Locals
  <2>3. \A e \in l.found : EntryFine(e)'
    BY <1>4, <2>1, <2>2 DEF QueryFine
  <2>4. l.stat <= stat'
    BY <1>2, <2>1 DEF QueryFine
  <2>5. l.at = "valid" => \A e \in l.found : content' # NoContent /\ l.stat = Stat' => e.hash = content'
    BY <1>2, <1>3, <2>1 DEF QueryFine, Stat
  <2>6. ~raced' /\ l.at \in {"computed", "storing"} => l.packet.content = content'
    <3>1. ~raced' => ~raced
      BY <1>1
    <3>2. CASE AppendRecord
      BY <2>1, <3>1, <3>2 DEF AppendRecord, QueryFine
    <3>3. CASE ~AppendRecord
      BY <3>3 DEF World, Rewrite, Remove, Racing
    <3> QED BY <3>2, <3>3
  <2>7. ~raced' /\ l.at = "hit" => l.packet.content = l.seen.content
    BY <1>1, <2>1 DEF QueryFine
  <2>8. l = query'[q]
    BY <1>1
  <2> QED BY <2>1, <2>3, <2>4, <2>5, <2>6, <2>7, <2>8 DEF QueryFine, EntryFine
<1>6. FileFine(file') /\ \A e \in Held(file') : EntryFine(e)'
  BY <1>1, <1>4 DEF IInv, TypeOK, FileFine, Unique, Held
<1>7. locked' \in SUBSET Queries /\ query' \in [Queries -> Locals]
  BY <1>1 DEF IInv, TypeOK, Locals
<1> QED BY <1>1, <1>2, <1>5, <1>6, <1>7, InvOfParts

-----------------------------------------------------------------------------
(* What a query does *)

\* The entries with one key are none, or one.
LEMMA EntriesOfFacts ==
  ASSUME NEW entries, FileFine(entries), NEW key
  PROVE  /\ EntriesOf(entries, key) \subseteq Entry /\ EntriesOf(entries, key) \subseteq Held(entries)
         /\ EntriesOf(entries, key) # {} => \E e \in Entry : EntriesOf(entries, key) = {e}
<1>1. \A i \in DOMAIN entries : entries[i] \in Entry
  BY DEF FileFine
<1>2. \A e, f \in EntriesOf(entries, key) : e = f
  BY DEF FileFine, Unique, EntriesOf, Held
<1> QED BY <1>1, <1>2 DEF EntriesOf, Held

\* The steps that only look, at the file or at the base.
LEMMA LookKeeps ==
  ASSUME IInv, NEW q \in Queries, Open(q) \/ Orphaned(q) \/ StatHit(q) \/ StatChanged(q) \/ Hash(q)
  PROVE  IInv'
<1> DEFINE l == query[q]  n == query'[q]
<1>1. UNCHANGED <<graph, raced, file, locked>>
  BY DEF Open, Orphaned, StatHit, StatChanged, Hash
<1>2. /\ FileFine(file) /\ \A e \in Held(file) : EntryFine(e)
      /\ l \in Locals /\ QueryFine(l) /\ DOMAIN query = Queries
      /\ content \in Contents \union {NoContent} /\ Stat \in 0 .. MaxWrites /\ Stat <= stat
      /\ (content # NoContent => Visible \in Packets) /\ Visible \in Packets \union {NoPacket}
  BY Parts
<1>3. query' = [query EXCEPT ![q] = n]
  BY <1>2 DEF Open, Orphaned, StatHit, StatChanged, Hash
<1>4. n \in Locals /\ QueryFine(n)
  <2>1. CASE Open(q)
    <3>1. PICK k \in Keys : n = [Idle EXCEPT !.at = IF EntriesOf(file, k) = {} THEN "missed" ELSE "opened",
                                             !.key = k, !.found = EntriesOf(file, k)]
      BY <1>2, <2>1 DEF Open
    <3> DEFINE found == EntriesOf(file, k)
    <3>2. /\ found \subseteq Entry /\ \A e \in found : EntryFine(e)
          /\ found # {} => \E e \in Entry : found = {e}
      BY <1>2, EntriesOfFacts
    <3> HIDE DEF found
    <3>3. n = [at |-> IF found = {} THEN "missed" ELSE "opened", key |-> k, found |-> found, stat |-> 0,
               packet |-> NoPacket, seen |-> NoPacket]
      BY <3>1 DEF Idle, found
    <3>4. n \in Locals
      BY <3>2, <3>3, BoundAssumption DEF Locals, Stages
    <3>5. 0 <= stat
      BY BoundAssumption DEF IInv, TypeOK
    <3> QED BY <3>2, <3>3, <3>4, <3>5 DEF QueryFine
  <2>2. CASE Orphaned(q)
    <3>1. n = [l EXCEPT !.at = "invalid"] /\ l.at = "opened"
      BY <1>2, <2>2 DEF Orphaned, At
    <3> QED BY <1>2, <3>1 DEF Locals, QueryFine, Stages
  <2>3. CASE StatHit(q)
    <3>1. PICK e \in Entry : l.found = {e} /\ EntryFine(e)
      BY <1>2, <2>3 DEF StatHit, At, QueryFine
    <3>2. Mine(q) = e
      BY <3>1 DEF Mine
    <3>3. n = [l EXCEPT !.at = "hit", !.found = {}, !.packet = e.packet, !.seen = Visible]
          /\ content # NoContent /\ e.stat = Stat
      BY <1>2, <2>3, <3>2 DEF StatHit
    <3>4. ~raced => e.packet.content = content
      BY <3>1, <3>3 DEF EntryFine
    <3>5. n \in Locals
      BY <1>2, <3>1, <3>3 DEF Locals, Stages, Entry
    <3>6. n.at = "hit" /\ n.found = {} /\ n.packet = e.packet /\ n.seen.content = content
          /\ n.stat = l.stat /\ n.key = l.key
      BY <1>2, <3>3 DEF Locals, Visible
    <3>7. l.at = "opened"
      BY <2>3 DEF StatHit, At
    <3> QED BY <1>2, <3>4, <3>5, <3>6, <3>7 DEF QueryFine
  <2>4. CASE StatChanged(q)
    <3>1. n = [l EXCEPT !.at = "changed", !.stat = Stat] /\ l.at = "opened"
      BY <1>2, <2>4 DEF StatChanged, At
    <3> QED BY <1>2, <3>1 DEF Locals, QueryFine, Stages
  <2>5. CASE Hash(q)
    <3>1. PICK e \in Entry : l.found = {e} /\ EntryFine(e)
      BY <1>2, <2>5 DEF Hash, At, QueryFine
    <3>2. Mine(q) = e
      BY <3>1 DEF Mine
    <3>3. n = [l EXCEPT !.at = IF content # NoContent /\ e.hash = content THEN "valid" ELSE "invalid",
                        !.seen = Visible] /\ l.at = "changed"
      BY <1>2, <2>5, <3>2 DEF Hash, HashAgrees, At
    <3>4. n \in Locals
      BY <1>2, <3>3 DEF Locals, Stages
    <3>5. n.found = {e} /\ n.seen.content = content /\ n.stat = l.stat /\ n.key = l.key
          /\ n.at \in {"valid", "invalid"} /\ (n.at = "valid" => content # NoContent /\ e.hash = content)
      BY <1>2, <3>1, <3>3 DEF Locals, Visible
    <3> QED BY <1>2, <3>1, <3>3, <3>4, <3>5 DEF QueryFine
  <2> QED BY <2>1, <2>2, <2>3, <2>4, <2>5
<1>5. locked' \in SUBSET Queries
  BY <1>1 DEF IInv, TypeOK
<1> QED BY <1>1, <1>2, <1>3, <1>4, <1>5, OneStep

\* The steps that end a query, or compile, or lock.
LEMMA RunKeeps ==
  ASSUME IInv, NEW q \in Queries, Answer(q) \/ Load(q) \/ Abandon(q) \/ SetStat(q)
  PROVE  IInv'
<1> DEFINE l == query[q]  n == query'[q]
<1>1. UNCHANGED <<graph, raced, file>> /\ locked' \in SUBSET Queries
  BY DEF Answer, Load, Abandon, SetStat, IInv, TypeOK
<1>2. /\ FileFine(file) /\ \A e \in Held(file) : EntryFine(e)
      /\ l \in Locals /\ QueryFine(l) /\ DOMAIN query = Queries
      /\ content \in Contents \union {NoContent} /\ Stat \in 0 .. MaxWrites /\ Stat <= stat
      /\ (content # NoContent => Visible \in Packets)
  BY Parts
<1>3. query' = [query EXCEPT ![q] = n]
  BY <1>2 DEF Answer, Load, Abandon, SetStat
<1>4. n \in Locals /\ QueryFine(n)
  <2>1. CASE Answer(q) \/ Abandon(q)
    <3>1. n = Idle /\ 0 <= stat
      BY <1>2, <2>1, BoundAssumption DEF Answer, Abandon, IInv, TypeOK
    <3> QED BY <3>1, BoundAssumption DEF Idle, Locals, Stages, QueryFine
  <2>2. CASE Load(q)
    <3>1. n = [l EXCEPT !.at = "computed", !.packet = Visible] /\ content # NoContent /\ l.at = "missed"
      BY <1>2, <2>2 DEF Load, At
    <3>2. n \in Locals
      BY <1>2, <3>1 DEF Locals, Stages
    <3>3. n.at = "computed" /\ n.packet = Visible /\ n.key = l.key /\ n.found = l.found /\ n.stat = l.stat
      BY <1>2, <3>1 DEF Locals
    <3> QED BY <1>2, <3>1, <3>2, <3>3 DEF QueryFine, Visible
  <2>3. CASE SetStat(q)
    <3>1. n = [l EXCEPT !.at = "storing", !.stat = Stat] /\ l.at = "computed"
      BY <1>2, <2>3 DEF SetStat, At
    <3> QED BY <1>2, <3>1 DEF Locals, QueryFine, Stages
  <2> QED BY <2>1, <2>2, <2>3
<1> QED BY <1>1, <1>2, <1>3, <1>4, OneStep

\* The entries that have q's key and hash get the stat that q has taken; the others stay.
LEMMA RefreshedFacts ==
  ASSUME IInv, NEW q \in Queries, At(q, "valid")
  PROVE  /\ FileFine(Refreshed(q)) /\ \A e \in Held(Refreshed(q)) : EntryFine(e)
         /\ DOMAIN Refreshed(q) = DOMAIN file
         /\ \A i \in DOMAIN file : /\ Refreshed(q)[i].key = file[i].key
                                   /\ file[i].key # query[q].key => Refreshed(q)[i] = file[i]
<1> DEFINE l == query[q]  new == Refreshed(q)
<1>1. FileFine(file) /\ (\A e \in Held(file) : EntryFine(e)) /\ l \in Locals /\ QueryFine(l)
  BY Parts
<1>2. PICK e \in Entry : l.found = {e} /\ e.hash = l.seen.content
                         /\ (content # NoContent /\ l.stat = Stat => e.hash = content)
  BY <1>1 DEF At, QueryFine
<1>3. Mine(q) = e
  BY <1>2 DEF Mine
<1>4. new = [i \in DOMAIN file |-> IF file[i].key = l.key /\ file[i].hash = e.hash
                                   THEN [file[i] EXCEPT !.stat = l.stat] ELSE file[i]]
  BY <1>3 DEF Refreshed
<1> HIDE DEF new
<1>5. ASSUME NEW i \in DOMAIN file
      PROVE /\ new[i] \in Entry /\ EntryFine(new[i]) /\ new[i].key = file[i].key
            /\ file[i].key # l.key => new[i] = file[i]
  <2>1. file[i] \in Entry /\ EntryFine(file[i])
    BY <1>1 DEF FileFine, Held
  <2>2. CASE file[i].key = l.key /\ file[i].hash = e.hash
    <3>1. new[i] = [file[i] EXCEPT !.stat = l.stat]
      BY <1>4, <2>2
    <3>2. l.stat \in 0 .. MaxWrites /\ l.stat <= stat
      BY <1>1 DEF Locals, QueryFine
    <3>3. new[i] \in Entry
      BY <2>1, <3>1, <3>2 DEF Entry
    <3>4. new[i].stat = l.stat /\ new[i].hash = e.hash /\ new[i].key = file[i].key /\ new[i].packet = file[i].packet
      BY <2>1, <2>2, <3>1 DEF Entry
    <3> QED BY <1>2, <2>1, <2>2, <3>2, <3>3, <3>4 DEF EntryFine
  <2>3. CASE ~(file[i].key = l.key /\ file[i].hash = e.hash)
    BY <1>4, <2>1, <2>3
  <2> QED BY <2>2, <2>3
<1>6. DOMAIN new = 1 .. Len(file) /\ Len(file) \in Nat /\ DOMAIN file = 1 .. Len(file)
  BY <1>1, <1>4 DEF FileFine
<1>7. new \in Seq(Entry) /\ Len(new) = Len(file)
  <2>1. new \in [1 .. Len(file) -> Entry]
    BY <1>4, <1>5, <1>6
  <2> QED BY <1>6, <2>1
<1>8. Unique(new)
  BY <1>1, <1>5, <1>6 DEF FileFine, Unique
<1>9. FileFine(new) /\ \A f \in Held(new) : EntryFine(f)
  BY <1>1, <1>5, <1>6, <1>7, <1>8 DEF FileFine, Held
<1> QED BY <1>4, <1>5, <1>9 DEF new

\* The steps that mutate the file.
LEMMA MutationKeeps ==
  ASSUME IInv, NEW q \in Queries, Refresh(q) \/ Discard(q) \/ SetHash(q)
  PROVE  IInv'
<1> DEFINE l == query[q]  n == query'[q]
<1>1. UNCHANGED <<graph, raced>> /\ locked' \in SUBSET Queries
  BY DEF Refresh, Discard, SetHash, IInv, TypeOK
<1>2. /\ FileFine(file) /\ \A e \in Held(file) : EntryFine(e)
      /\ l \in Locals /\ QueryFine(l) /\ DOMAIN query = Queries
      /\ content \in Contents \union {NoContent} /\ 0 <= stat
  BY Parts, BoundAssumption DEF IInv, TypeOK
<1>3. query' = [query EXCEPT ![q] = n]
  BY <1>2 DEF Refresh, Discard, SetHash
<1>4. FileFine(file') /\ (\A e \in Held(file') : EntryFine(e)) /\ n \in Locals /\ QueryFine(n)
  <2>1. CASE Refresh(q)
    <3>1. file' = file \/ file' = Refreshed(q)
      BY <2>1 DEF Refresh, Commit
    <3>2. At(q, "valid")
      BY <2>1 DEF Refresh
    <3>3. FileFine(file') /\ \A e \in Held(file') : EntryFine(e)
      BY <1>2, <3>1, <3>2, RefreshedFacts
    <3>4. PICK e \in Entry : l.found = {e} /\ EntryFine(e) /\ e.hash = l.seen.content
      BY <1>2, <3>2 DEF At, QueryFine
    <3>5. Mine(q) = e
      BY <3>4 DEF Mine
    <3>6. n = [l EXCEPT !.at = "hit", !.found = {}, !.stat = 0, !.packet = e.packet]
      BY <1>2, <2>1, <3>5 DEF Refresh
    <3>7. n \in Locals
      <4>1. 0 \in 0 .. MaxWrites /\ e.packet \in Packets /\ "hit" \in Stages
        BY <3>4, BoundAssumption DEF Entry, Stages
      <4> QED BY <1>2, <3>6, <4>1 DEF Locals
    <3>8. n.at = "hit" /\ n.found = {} /\ n.stat = 0 /\ n.packet = e.packet /\ n.key = l.key /\ n.seen = l.seen
      BY <1>2, <3>6 DEF Locals
    <3>9. ~raced => e.packet.content = l.seen.content
      BY <3>4 DEF EntryFine
    <3> QED BY <1>2, <3>2, <3>3, <3>7, <3>8, <3>9 DEF QueryFine, At
  <2>2. CASE Discard(q)
    <3>1. file' = file \/ file' = Without(file, l.key)
      BY <2>2 DEF Discard, Commit
    <3>2. FileFine(Without(file, l.key)) /\ Held(Without(file, l.key)) \subseteq Held(file)
      <4>1. /\ Without(file, l.key) \in Seq(Entry) /\ Unique(Without(file, l.key))
            /\ Held(Without(file, l.key)) = {e \in Held(file) : e.key # l.key}
            /\ IF l.key \in KeysOf(file) THEN Len(Without(file, l.key)) + 1 = Len(file)
                                         ELSE Without(file, l.key) = file
        BY <1>2, WithoutFacts DEF FileFine
      <4>2. Len(Without(file, l.key)) \in Nat /\ Len(file) \in Nat /\ Len(file) <= MaxEntries
        BY <1>2, <4>1 DEF FileFine
      <4> QED BY <4>1, <4>2, BoundAssumption DEF FileFine
    <3>3. n = [Idle EXCEPT !.at = "missed", !.key = l.key]
      BY <1>2, <2>2 DEF Discard
    <3>4. l.at # "idle" /\ l.key \in Keys
      BY <1>2, <2>2 DEF Discard, At, QueryFine
    <3>5. n \in Locals /\ QueryFine(n)
      <4>1. n = [at |-> "missed", key |-> l.key, found |-> {}, stat |-> 0, packet |-> NoPacket, seen |-> NoPacket]
        BY <3>3 DEF Idle
      <4>2. n \in Locals
        BY <3>4, <4>1, BoundAssumption DEF Locals, Stages
      <4> QED BY <1>2, <3>4, <4>1, <4>2 DEF QueryFine
    <3> QED BY <1>2, <3>1, <3>2, <3>5
  <2>3. CASE SetHash(q)
    <3>1. l.at = "storing" /\ l.key \in Keys /\ l.packet \in Packets /\ l.stat \in 0 .. MaxWrites /\ l.stat <= stat
          /\ (~raced => l.packet.content = content)
      BY <1>2, <2>3 DEF SetHash, At, QueryFine, Locals
    <3> DEFINE e == Stored(q)
    <3>2. e \in Entry /\ e.key = l.key /\ EntryFine(e)
      BY <1>2, <3>1 DEF Stored, Entry, EntryFine
    <3> HIDE DEF e
    <3>3. file' = Evicted(Append(Without(file, e.key), e)) /\ n = Idle
      BY <1>2, <2>3, <3>2 DEF SetHash, e
    <3>4. /\ file' \in Seq(Entry) /\ Unique(file') /\ Len(file') <= MaxEntries
          /\ Held(file') \subseteq Held(file) \union {e}
      BY <1>2, <3>2, <3>3, StoredFacts DEF FileFine
    <3>5. n \in Locals /\ QueryFine(n)
      BY <1>2, <3>3, BoundAssumption DEF Idle, Locals, Stages, QueryFine
    <3> QED BY <1>2, <3>2, <3>4, <3>5 DEF FileFine
  <2> QED BY <2>1, <2>2, <2>3
<1> QED BY <1>1, <1>2, <1>3, <1>4, OneStep

\* The cache is cleared.
LEMMA ClearKeeps == ASSUME IInv, Clear PROVE IInv'
<1>1. UNCHANGED <<stat, content, appended, raced, query, locked>> /\ file' = <<>> /\ Stat' = Stat
  BY DEF Clear, graph, Stat
<1>2. FileFine(file') /\ Held(file') = {}
  <2>1. file' \in Seq(Entry) /\ Len(file') = 0 /\ DOMAIN file' = {}
    BY <1>1
  <2> QED BY <2>1, BoundAssumption DEF FileFine, Unique, Held
<1>3. \A q \in Queries : QueryFine(query[q])'
  BY <1>1 DEF IInv, QueryFine, EntryFine
<1>4. query' \in [Queries -> Locals] /\ locked' \in SUBSET Queries
  BY <1>1 DEF IInv, TypeOK, Locals
<1>5. stat' \in 0 .. MaxWrites /\ stat' >= 1 /\ content' \in Contents \union {NoContent}
      /\ appended' \in 0 .. MaxRecords /\ raced' \in BOOLEAN /\ (content' = NoContent => appended' = 0)
  BY <1>1 DEF IInv, TypeOK
<1> QED BY <1>2, <1>3, <1>4, <1>5, InvOfParts

-----------------------------------------------------------------------------
(* The theorems *)

\* Whatever the queries, the commits, the removals of the base and the clearings do, in
\* any order: every entry has a stat that the base has had and that names its hash, and
\* what a query has at hand fits its stage.
THEOREM Invariant == Spec => []IInv
<1>1. IInv /\ [Next]_vars => IInv'
  <2> SUFFICES ASSUME IInv, [Next]_vars PROVE IInv'
    OBVIOUS
  <2>1. CASE World
    BY <2>1, WorldKeeps
  <2>2. CASE Clear
    BY <2>2, ClearKeeps
  <2>3. ASSUME NEW q \in Queries, Get(q) \/ Set(q) PROVE IInv'
    BY <2>3, LookKeeps, RunKeeps, MutationKeeps DEF Get, Set
  <2>4. CASE UNCHANGED vars
    <3>1. UNCHANGED <<stat, content, appended, file, locked, query, raced>>
      BY <2>4 DEF vars
    <3> QED BY <3>1 DEF IInv, TypeOK, EntryFine, QueryFine, Stat
  <2> QED BY <2>1, <2>2, <2>3, <2>4 DEF Next
<1> QED BY <1>1, InitIInv, PTL DEF Spec

\* The state keeps its type: the file never has more entries than it may, nor two of
\* the same key.
THEOREM TypeCorrect == Spec => []TypeOK
<1>1. IInv => TypeOK
  BY DEF IInv
<1> QED BY <1>1, Invariant, PTL

\* A hit that pays for a stat only is as good as one that pays for the hash, for what is
\* in the file and for what a query has read of it.
THEOREM StatStandsForHashHolds == Spec => []StatStandsForHash
<1>1. IInv => StatStandsForHash
  BY DEF IInv, QueryFine, EntryFine, Held, StatStandsForHash
<1> QED BY <1>1, Invariant, PTL

\* Unless the base is rewritten under a query that compiles, a hit returns what was
\* compiled from the base that the entry was validated against.
THEOREM HitsMatchBaseHolds == Spec => []HitsMatchBase
<1>1. IInv => HitsMatchBase
  BY DEF IInv, QueryFine, HitsMatchBase, At
<1> QED BY <1>1, Invariant, PTL

\* A step changes the entry of one query's key only, or evicts the oldest entry of a
\* full file to store one, or clears the file.
LEMMA StepKeepsOthers ==
  ASSUME IInv, Next, file' # file, file' # <<>>
  PROVE  \E q \in Queries : \A k \in KeysOf(file) \ {query[q].key} :
           IF k \in KeysOf(file') THEN EntriesOf(file', k) = EntriesOf(file, k)
           ELSE At(q, "storing") /\ k = file[1].key /\ Len(file) = MaxEntries
<1>1. PICK q \in Queries : Refresh(q) \/ Discard(q) \/ SetHash(q)
  BY DEF Next, World, Rewrite, AppendRecord, Remove, Clear, Get, Open, Orphaned, StatHit, StatChanged, Hash,
         Answer, Set, Load, Abandon, SetStat
<1> DEFINE l == query[q]
<1>2. FileFine(file) /\ l \in Locals /\ QueryFine(l)
  BY Parts
<1> SUFFICES ASSUME NEW k \in KeysOf(file) \ {l.key}
             PROVE  IF k \in KeysOf(file') THEN EntriesOf(file', k) = EntriesOf(file, k)
                    ELSE At(q, "storing") /\ k = file[1].key /\ Len(file) = MaxEntries
  OBVIOUS
<1>3. PICK f \in Held(file) : f.key = k /\ f.key # l.key
  BY DEF KeysOf
<1>4. \A g \in Held(file) : g.key = k => g = f
  BY <1>2, <1>3 DEF FileFine, Unique, Held
<1>5. CASE Refresh(q)
  <2>1. file' = Refreshed(q) /\ At(q, "valid")
    BY <1>5 DEF Refresh, Commit
  <2>2. /\ DOMAIN file' = DOMAIN file
        /\ \A i \in DOMAIN file : file'[i].key = file[i].key /\ (file[i].key # l.key => file'[i] = file[i])
    BY <2>1, RefreshedFacts
  <2>3. EntriesOf(file', k) = EntriesOf(file, k)
    BY <1>3, <2>2 DEF EntriesOf, Held
  <2>4. f \in EntriesOf(file, k)
    BY <1>3 DEF EntriesOf
  <2>5. k \in KeysOf(file')
    BY <2>3, <2>4 DEF EntriesOf, KeysOf
  <2> QED BY <2>3, <2>5
<1>6. CASE Discard(q)
  <2>1. file' = Without(file, l.key)
    BY <1>6 DEF Discard, Commit
  <2>2. Held(file') = {g \in Held(file) : g.key # l.key}
    BY <1>2, <2>1, WithoutFacts DEF FileFine
  <2>3. EntriesOf(file', k) = EntriesOf(file, k)
    BY <1>3, <2>2 DEF EntriesOf
  <2>4. k \in KeysOf(file')
    BY <1>3, <2>2 DEF KeysOf
  <2> QED BY <2>3, <2>4
<1>7. CASE SetHash(q)
  <2>1. l.at = "storing" /\ l.key \in Keys /\ l.packet \in Packets /\ l.stat \in 0 .. MaxWrites
    BY <1>2, <1>7 DEF SetHash, At, QueryFine, Locals
  <2> DEFINE e == Stored(q)
  <2>2. e \in Entry /\ e.key = l.key
    BY <2>1 DEF Stored, Entry, IInv, TypeOK
  <2> HIDE DEF e
  <2>3. file' = Evicted(Append(Without(file, e.key), e))
    BY <1>7, <2>2 DEF SetHash, e
  <2>4. /\ Held(file') \subseteq Held(file) \union {e}
        /\ \A g \in Held(file) : g.key # e.key => g \in Held(file') \/ (g = file[1] /\ Len(file) = MaxEntries)
    BY <1>2, <2>2, <2>3, StoredFacts DEF FileFine
  <2>5. CASE f \in Held(file')
    <3>1. \A g \in Held(file') : g.key = k => g = f
      BY <1>3, <1>4, <2>2, <2>4
    <3>2. k \in KeysOf(file') /\ EntriesOf(file', k) = {f}
      BY <1>3, <2>5, <3>1 DEF KeysOf, EntriesOf
    <3>3. EntriesOf(file, k) = {f}
      BY <1>3, <1>4 DEF EntriesOf
    <3> QED BY <3>2, <3>3
  <2>6. CASE f \notin Held(file')
    <3>1. f = file[1] /\ Len(file) = MaxEntries
      BY <1>3, <2>2, <2>4, <2>6
    <3>2. k \notin KeysOf(file')
      BY <1>3, <1>4, <2>2, <2>4, <2>6 DEF KeysOf
    <3> QED BY <1>3, <2>1, <3>1, <3>2 DEF At
  <2> QED BY <2>5, <2>6
<1> QED BY <1>1, <1>5, <1>6, <1>7

\* No query writes back what it loaded when it began over what others have committed
\* since: its commit touches its own key, and storing into a full cache evicts one.
THEOREM CommitsKeepOthersHolds == Spec => CommitsKeepOthers
<1>1. IInv /\ [Next]_vars =>
        [file' # file /\ file' # <<>> =>
           \E q \in Queries : \A k \in KeysOf(file) \ {query[q].key} :
             IF k \in KeysOf(file') THEN EntriesOf(file', k) = EntriesOf(file, k)
             ELSE At(q, "storing") /\ k = file[1].key /\ Len(file) = MaxEntries]_vars
  BY StepKeepsOthers DEF vars
<1> QED BY <1>1, Invariant, PTL DEF Spec, CommitsKeepOthers
=============================================================================
