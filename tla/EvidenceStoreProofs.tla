------------------------- MODULE EvidenceStoreProofs -------------------------
(***************************************************************************)
(* EvidenceStore proved for any number of processes, of releases, of       *)
(* sources and of faults: the database keeps  its shape; what a refresh    *)
(* reuses is what it would have collected, by its own release; and every   *)
(* candidate it returns is accounted for, under the limits of any request. *)
(*                                                                         *)
(* The claims are about what a refresh returns, long after the rows were   *)
(* written, by whomever.  The invariant carries them through the database: *)
(* a row has the content of its own hash, and is of the release that its   *)
(* provider's version names, wherever it is, in what is committed and in   *)
(* the open transaction; and what is left to collect, with what is there,  *)
(* makes up the sources that were hashed.                                  *)
(*                                                                         *)
(* The last two claims are also about recursive functions of those rows.   *)
(* Recursion unfolds such a function along its sequence.  A batch is then  *)
(* Balanced (its receipt has what it holds and what was cut) whatever was  *)
(* cut from it; and the two stores, which do not read the same rows, are   *)
(* Together after each of them: they return the same nodes, as many as     *)
(* were counted, up to the limit.                                          *)
(***************************************************************************)
EXTENDS EvidenceStore, FiniteSetTheorems, SequenceTheorems, WellFoundedInduction, TLAPS

Waiting == {"idle", "open", "import", "check", "begin"}
Writing == {"start", "collect", "commit"}

\* A process's local variables are a record, whatever they hold.
IsLocal(l) ==
  l = [at |-> l.at, graph |-> l.graph, force |-> l.force, seen |-> l.seen, k |-> l.k, tx |-> l.tx,
       hashes |-> l.hashes, todo |-> l.todo, out |-> l.out]

\* What holds of the rows of provider k, and of the database or a transaction on it.
RowsFine(k, version, rows) ==
  /\ DOMAIN rows \subseteq (IF k = 2 THEN Paths ELSE {Whole})
  /\ \A key \in DOMAIN rows : IsRow(key, rows[key])
  /\ ~mixed => ~Mixed(rows)
  /\ ~crossed /\ k = 2 => \A key \in DOMAIN rows : rows[key].by = version
DbFine(d) ==
  /\ DOMAIN d = 1 .. 2
  /\ \A k \in 1 .. 2 : /\ d[k] = [version |-> d[k].version, rows |-> d[k].rows]
                       /\ d[k].version \in Nat /\ (d[k].version = 0 => d[k].rows = <<>>)
                       /\ RowsFine(k, d[k].version, d[k].rows)

\* What holds of the rows that process p has gathered.
FirstFine(l, rows) == \A key \in DOMAIN rows : key = Whole /\ rows[key].of = l.graph
SecondFine(p, l, rows) ==
  /\ DOMAIN rows = DOMAIN l.hashes /\ DOMAIN rows \subseteq l.graph
  /\ \A key \in DOMAIN rows : rows[key].of \in Hashes
  /\ \A key \in DOMAIN rows : rows[key].hash = l.hashes[key]
  /\ ~mixed => \A key \in DOMAIN rows : rows[key].failed \/ rows[key].of = l.hashes[key]
  /\ ~crossed => \A key \in DOMAIN rows : rows[key].by = Release[p]
OutFine(p, l) ==
  /\ l.at \in Waiting \/ (l.at \in {"start", "collect"} /\ l.k = 1) => l.out = <<>>
  /\ l.at \in {"start", "collect"} /\ l.k = 2 => l.out = <<l.out[1]>> /\ FirstFine(l, l.out[1])
  /\ l.at \in {"commit", "done"} =>
       l.out = <<l.out[1], l.out[2]>> /\ FirstFine(l, l.out[1]) /\ SecondFine(p, l, l.out[2])

\* While p collects, what it has not to collect is there under the hash it has taken.
CollectFine(p, l) ==
  /\ l.tx[l.k].version = Release[p]
  /\ l.k = 1 => l.hashes = [key \in {Whole} |-> l.graph]
  /\ l.k = 2 => DOMAIN l.hashes \subseteq l.graph /\ \A key \in DOMAIN l.hashes : l.hashes[key] \in Hashes
  /\ l.todo \subseteq DOMAIN l.hashes
  /\ DOMAIN l.tx[l.k].rows \subseteq DOMAIN l.hashes
  /\ \A key \in DOMAIN l.hashes \ l.todo :
       key \in DOMAIN l.tx[l.k].rows /\ l.tx[l.k].rows[key].hash = l.hashes[key]

Fine(p, l) ==
  /\ IsLocal(l) /\ l.at \in Stages /\ l.graph \subseteq Paths
  /\ l.at \in Writing <=> writer = p
  /\ l.at \in Writing => DbFine(l.tx)
  /\ l.at \in {"start", "collect"} => l.k \in 1 .. 2
  /\ OutFine(p, l)
  /\ l.at = "collect" => CollectFine(p, l)

Spent == [edits : 0 .. MaxEdits, scans : 0 .. MaxScans, refreshes : 0 .. MaxRefreshes, faults : 0 .. MaxFaults]

Frame ==
  /\ disk \in [Paths -> Hashes] /\ row \in [Paths -> Hashes] /\ graph \subseteq Paths
  /\ writer \in Procs \union {NoProc}
  /\ DOMAIN proc = Procs /\ proc = [p \in Procs |-> proc[p]]
  /\ crossed \in BOOLEAN /\ mixed \in BOOLEAN
  /\ spent \in Spent

IInv ==
  /\ Frame
  /\ DbFine(db)
  /\ \A p \in Procs : Fine(p, proc[p])

-----------------------------------------------------------------------------
(* What the steps rest on *)

\* There are two providers; the second one is the incremental one.
LEMMA TwoProviders ==
  /\ DOMAIN Providers = 1 .. 2 /\ Len(Providers) = 2
  /\ ~Incremental(1) /\ Incremental(2)
  /\ 1 .. 2 = {1, 2}
<1>1. 1 .. 2 = {1, 2}
  OBVIOUS
<1> QED BY <1>1 DEF Providers, Incremental

\* Batches are gathered one behind the other.
LEMMA Appended == \A a, b : Append(<<>>, a) = <<a>> /\ Append(<<a>>, b) = <<a, b>>
<1> TAKE a, b
<1> DEFINE s == Append(<<a>>, b)
<1>1. <<>> \in Seq({a, b}) /\ <<a>> \in Seq({a, b})
  OBVIOUS
<1>2. Append(<<>>, a) = <<a>>
  BY <1>1
<1>3. s \in Seq({a, b}) /\ Len(s) = 2 /\ s[1] = a /\ s[2] = b
  BY <1>1
<1>4. <<a, b>> \in Seq({a, b}) /\ Len(<<a, b>>) = 2 /\ <<a, b>>[1] = a /\ <<a, b>>[2] = b
  OBVIOUS
<1>5. s = [i \in 1 .. 2 |-> s[i]] /\ <<a, b>> = [i \in 1 .. 2 |-> <<a, b>>[i]]
  BY <1>3, <1>4
<1>6. \A i \in 1 .. 2 : s[i] = <<a, b>>[i]
  BY <1>3, <1>4
<1> QED BY <1>2, <1>5, <1>6

\* What is fine of a process that does nothing stays fine, as long as the histories
\* only grow and the database is not written by, or taken from, it.
LEMMA OthersFine ==
  ASSUME NEW r, Fine(r, proc[r]), proc'[r] = proc[r], writer' = r <=> writer = r,
         mixed => mixed', crossed => crossed'
  PROVE Fine(r, proc[r])'
<1> DEFINE l == proc[r]
<1>1. ~mixed' => ~mixed
  OBVIOUS
<1>2. ~crossed' => ~crossed
  OBVIOUS
<1>3. ASSUME NEW k, NEW v, NEW rows, RowsFine(k, v, rows) PROVE RowsFine(k, v, rows)'
  BY <1>1, <1>2, <1>3 DEF RowsFine, IsRow, Mixed, Unlike, Hashes
<1>4. DbFine(l.tx) => DbFine(l.tx)'
  BY <1>3 DEF DbFine
<1>5. OutFine(r, l) => OutFine(r, l)'
  BY <1>1, <1>2 DEF OutFine, FirstFine, SecondFine
<1>6. CollectFine(r, l) => CollectFine(r, l)'
  BY DEF CollectFine
<1> QED BY <1>4, <1>5, <1>6 DEF Fine, IsLocal

\* The same of what is fine as a database.
LEMMA DbStaysFine ==
  ASSUME NEW d, DbFine(d), mixed => mixed', crossed => crossed' PROVE DbFine(d)'
<1>1. ~mixed' => ~mixed
  OBVIOUS
<1>2. ~crossed' => ~crossed
  OBVIOUS
<1>3. ASSUME NEW k, NEW v, NEW rows, RowsFine(k, v, rows) PROVE RowsFine(k, v, rows)'
  BY <1>1, <1>2, <1>3 DEF RowsFine, IsRow, Mixed, Unlike
<1> QED BY <1>3 DEF DbFine

\* A step of p keeps the invariant if it keeps what concerns p, and leaves the others alone.
LEMMA OneStep ==
  ASSUME IInv, NEW p \in Procs, Frame', DbFine(db)', Fine(p, proc[p])',
         \A r \in Procs \ {p} : proc'[r] = proc[r] /\ (writer' = r <=> writer = r),
         mixed => mixed', crossed => crossed'
  PROVE IInv'
<1>1. ASSUME NEW r \in Procs, r # p PROVE Fine(r, proc[r])'
  BY <1>1, OthersFine DEF IInv
<1> QED BY <1>1 DEF IInv

\* The database is fine as long as it is not written.
LEMMA DbUnchanged ==
  ASSUME DbFine(db), db' = db, mixed => mixed', crossed => crossed' PROVE DbFine(db)'
<1>1. PICK d : d = db
  OBVIOUS
<1>2. DbFine(d)'
  BY <1>1, DbStaysFine
<1> QED BY <1>1, <1>2 DEF DbFine, RowsFine, IsRow, Mixed, Unlike

\* It all starts fine.
LEMMA InitIInv == Init => IInv
<1> SUFFICES ASSUME Init PROVE IInv
  OBVIOUS
<1>1. Frame
  <2>1. spent \in Spent
    BY BoundAssumption DEF Init, Spent
  <2>2. disk \in [Paths -> Hashes] /\ row \in [Paths -> Hashes]
    BY DEF Init, Hashes
  <2> QED BY <2>1, <2>2 DEF Init, Frame
<1>2. DbFine(db)
  BY TwoProviders DEF Init, DbFine, RowsFine, Empty, Mixed, Unlike
<1>3. ASSUME NEW p \in Procs PROVE Fine(p, proc[p])
  BY <1>3, NameAssumption DEF Init, Fine, Idle, IsLocal, Stages, Waiting, Writing, OutFine
<1> QED BY <1>1, <1>2, <1>3 DEF IInv

-----------------------------------------------------------------------------
(* The steps that write no row *)

\* A stuttering step, an edit and a scan leave the database and the processes alone.
LEMMA WorldKeeps == IInv /\ (Edit \/ Scan \/ UNCHANGED vars) => IInv'
<1> SUFFICES ASSUME IInv, Edit \/ Scan \/ UNCHANGED vars PROVE IInv'
  OBVIOUS
<1>1. UNCHANGED <<db, writer, proc, crossed, mixed>>
  BY DEF Edit, Scan, vars
<1>2. disk' \in [Paths -> Hashes] /\ row' \in [Paths -> Hashes] /\ graph' \subseteq Paths
  BY DEF IInv, Frame, Edit, Scan, vars
<1>3. spent' \in Spent
  <2>1. CASE Edit
    BY <2>1, BoundAssumption DEF Edit, IInv, Frame, Spent
  <2>2. CASE Scan
    BY <2>2, BoundAssumption DEF Scan, IInv, Frame, Spent
  <2>3. CASE UNCHANGED vars
    BY <2>3 DEF vars, IInv, Frame
  <2> QED BY <2>1, <2>2, <2>3
<1>4. Frame'
  BY <1>1, <1>2, <1>3 DEF IInv, Frame
<1>5. DbFine(db)'
  BY <1>1, DbUnchanged DEF IInv
<1>6. ASSUME NEW r \in Procs PROVE Fine(r, proc[r])'
  BY <1>1, OthersFine DEF IInv
<1> QED BY <1>4, <1>5, <1>6 DEF IInv

\* A process that is not in a transaction, and has nothing to return, is fine.
LEMMA Resting ==
  ASSUME NEW p, writer' # p, IsLocal(proc'[p]), proc'[p].graph \subseteq Paths,
         proc'[p].at \in Waiting, proc'[p].out = <<>>
  PROVE Fine(p, proc[p])'
BY DEF Fine, IsLocal, Stages, Waiting, Writing, OutFine

\* Opening, looking, checking, giving up and returning.
LEMMA RestKeeps ==
  ASSUME IInv, NEW p \in Procs, Open(p) \/ Look(p) \/ Check(p) \/ Busy(p) \/ Return(p) PROVE IInv'
<1>1. UNCHANGED <<disk, row, graph, db, writer, crossed, mixed>>
  BY DEF Open, Look, Check, Busy, Return
<1>2. spent' \in Spent
  <2>1. CASE Open(p)
    BY <2>1, BoundAssumption DEF Open, IInv, Frame, Spent
  <2>2. CASE ~Open(p)
    BY <2>2 DEF Look, Check, Busy, Return, IInv, Frame
  <2> QED BY <2>1, <2>2
<1>3. Fine(p, proc[p]) /\ DOMAIN proc = Procs /\ graph \subseteq Paths
  BY DEF IInv, Frame
<1>4. IsLocal(proc'[p]) /\ proc'[p].graph \subseteq Paths /\ proc[p].at \notin Writing
      /\ proc'[p].at \in Waiting /\ proc'[p].out = <<>>
  <2>1. CASE Open(p)
    BY <1>3, <2>1, ZenonT(40) DEF Open, Idle, IsLocal, Waiting, Writing
  <2>2. CASE Look(p)
    BY <1>3, <2>2 DEF Look, Fine, OutFine, IsLocal, Waiting, Writing
  <2>3. CASE Check(p)
    BY <1>3, <2>3 DEF Check, Fine, OutFine, IsLocal, Waiting, Writing
  <2>4. CASE Busy(p)
    BY <1>3, <2>4 DEF Busy, Idle, IsLocal, Waiting, Writing
  <2>5. CASE Return(p)
    BY <1>3, <2>5 DEF Return, Idle, IsLocal, Waiting, Writing
  <2> QED BY <2>1, <2>2, <2>3, <2>4, <2>5
<1>5. writer' # p
  BY <1>1, <1>3, <1>4 DEF Fine
<1>6. Fine(p, proc[p])'
  BY <1>4, <1>5, Resting
<1>7. proc' = [proc EXCEPT ![p] = proc'[p]]
  BY <1>3 DEF Open, Look, Check, Busy, Return, IInv, Frame
<1>8. Frame'
  BY <1>1, <1>2, <1>7 DEF IInv, Frame
<1>9. DbFine(db)'
  BY <1>1, DbUnchanged DEF IInv
<1> QED BY <1>1, <1>3, <1>6, <1>7, <1>8, <1>9, OneStep

\* Waiting for the database, a process has its graph only.
LEMMA BeginTxKeeps == ASSUME IInv, NEW p \in Procs, BeginTx(p) PROVE IInv'
<1> DEFINE l == proc[p]  n == proc'[p]
<1>1. UNCHANGED <<disk, row, graph, db, crossed, mixed, spent>> /\ writer = NoProc /\ writer' = p
  BY DEF BeginTx
<1>2. Fine(p, l) /\ DOMAIN proc = Procs
  BY DEF IInv, Frame
<1>3. proc' = [proc EXCEPT ![p] = n] /\ IsLocal(n)
      /\ n.at = "start" /\ n.tx = db /\ n.k = 1 /\ n.graph = l.graph /\ n.out = l.out
  BY <1>2 DEF BeginTx, Fine, IsLocal, IInv, Frame
<1>4. l.at = "begin"
  BY DEF BeginTx
<1>5. DbFine(db)'
  BY <1>1, DbUnchanged DEF IInv
<1>6. DbFine(proc[p].tx)'
  <2>1. proc'[p].tx = db'
    BY <1>1, <1>2, <1>3
  <2> QED BY <1>5, <2>1 DEF DbFine, RowsFine, IsRow, Mixed, Unlike
<1>7. n.out = <<>> /\ n.graph \subseteq Paths
  BY <1>2, <1>3, <1>4 DEF Fine, OutFine, Waiting
<1>8. Fine(p, proc[p])'
  BY <1>1, <1>3, <1>6, <1>7 DEF Fine, IsLocal, Stages, Waiting, Writing, OutFine
<1>9. Frame'
  BY <1>1, <1>3 DEF IInv, Frame
<1> QED BY <1>1, <1>2, <1>3, <1>5, <1>8, <1>9, NameAssumption, OneStep

\* A transaction that is rolled back leaves nothing.
LEMMA DieKeeps == ASSUME IInv, NEW p \in Procs, Die(p) PROVE IInv'
<1>1. UNCHANGED <<disk, row, graph, db, crossed, mixed>> /\ writer = p /\ writer' = NoProc
  BY DEF Die
<1>2. DOMAIN proc = Procs
  BY DEF IInv, Frame
<1>3. proc' = [proc EXCEPT ![p] = Idle] /\ p # NoProc
  BY NameAssumption DEF Die
<1>4. spent' \in Spent
  BY BoundAssumption DEF Die, IInv, Frame, Spent
<1>5. Fine(p, proc[p])'
  BY <1>1, <1>2, <1>3, Resting DEF Idle, IsLocal, Waiting
<1>6. DbFine(db)'
  BY <1>1, DbUnchanged DEF IInv
<1>7. Frame'
  BY <1>1, <1>3, <1>4 DEF IInv, Frame
<1>8. \A r \in Procs \ {p} : r # NoProc
  BY NameAssumption
<1> QED BY <1>1, <1>2, <1>3, <1>5, <1>6, <1>7, <1>8, OneStep

-----------------------------------------------------------------------------
(* The steps that write rows *)

\* Fine rows over fine rows are fine.
LEMMA OverFine ==
  ASSUME NEW k, NEW v, NEW new, NEW rows, RowsFine(k, v, new)', RowsFine(k, v, rows)'
  PROVE RowsFine(k, v, Over(new, rows))'
<1> DEFINE over == Over(new, rows)
<1>1. /\ DOMAIN over = DOMAIN new \union DOMAIN rows
      /\ \A key \in DOMAIN over : over[key] = IF key \in DOMAIN new THEN new[key] ELSE rows[key]
  BY DEF Over
<1> HIDE DEF over
<1>2. \A key \in DOMAIN over :
        \/ key \in DOMAIN new /\ over[key] = new[key]
        \/ key \in DOMAIN rows /\ over[key] = rows[key]
  BY <1>1
<1>3. DOMAIN over \subseteq (IF k = 2 THEN Paths ELSE {Whole})
  BY <1>1 DEF RowsFine
<1>4. \A key \in DOMAIN over : IsRow(key, over[key])
  BY <1>2 DEF RowsFine
<1>5. ~mixed' => ~Mixed(over)
  BY <1>2 DEF RowsFine, Mixed, Unlike
<1>6. ~crossed' /\ k = 2 => \A key \in DOMAIN over : over[key].by = v
  BY <1>2 DEF RowsFine
<1>7. RowsFine(k, v, over)'
  BY <1>3, <1>4, <1>5, <1>6 DEF RowsFine, IsRow, Mixed, Unlike
<1> QED BY <1>7 DEF over

\* An import comes over rows of a database that no transaction is open on, and is known
\* to have crossed a refresh if there are any.
LEMMA ImportKeeps == ASSUME IInv, NEW p \in Procs, Import(p) PROVE IInv'
<1> DEFINE l == proc[p]
<1>1. UNCHANGED <<disk, row, graph, writer, spent>> /\ writer = NoProc /\ l.at = "import"
  BY DEF Import
<1>2. Fine(p, l) /\ DOMAIN proc = Procs /\ DbFine(db) /\ crossed \in BOOLEAN /\ mixed \in BOOLEAN
  BY DEF IInv, Frame
<1>3. PICK old \in Legacy :
        /\ db' = [k \in DOMAIN db |-> IF old[k].version = 0 THEN db[k]
                                   ELSE [version |-> old[k].version, rows |-> Over(old[k].rows, db[k].rows)]]
        /\ mixed' = (mixed \/ \E k \in DOMAIN old : Mixed(old[k].rows))
  BY DEF Import
<1>4. crossed' = (crossed \/ \E k \in DOMAIN db : db[k].version # 0)
  BY DEF Import
<1>5. DOMAIN old = 1 .. 2 /\ DOMAIN db = 1 .. 2
  BY <1>2, LegacyAssumption, TwoProviders DEF IsDb, DbFine
<1>6. (mixed => mixed') /\ (crossed => crossed') /\ crossed' \in BOOLEAN /\ mixed' \in BOOLEAN
  BY <1>2, <1>3, <1>4
<1>7. ASSUME NEW k \in 1 .. 2, old[k].version # 0
      PROVE RowsFine(k, old[k].version, old[k].rows)'
  <2>1. DOMAIN old[k].rows \subseteq (IF k = 2 THEN Paths ELSE {Whole})
    BY <1>5, LegacyAssumption, TwoProviders DEF IsDb
  <2>2. \A key \in DOMAIN old[k].rows : IsRow(key, old[k].rows[key]) /\ old[k].rows[key].by = old[k].version
    BY <1>5, LegacyAssumption DEF IsDb
  <2>3. ~mixed' => ~Mixed(old[k].rows)
    BY <1>3, <1>5
  <2> QED BY <2>1, <2>2, <2>3 DEF RowsFine, IsRow, Mixed, Unlike
<1>8. ASSUME NEW k \in 1 .. 2, NEW rows, rows = db[k].rows
      PROVE RowsFine(k, old[k].version, rows)'
  <2>1. RowsFine(k, db[k].version, rows)
    BY <1>2, <1>8 DEF DbFine
  <2>2. ~crossed' => ~crossed /\ db[k].version = 0
    BY <1>4, <1>5
  <2>3. ~crossed' => rows = <<>>
    BY <1>2, <1>8, <2>2 DEF DbFine
  <2>4. ~mixed' => ~mixed
    BY <1>6
  <2> QED BY <2>1, <2>3, <2>4 DEF RowsFine, IsRow, Mixed, Unlike
<1>9. DbFine(db)'
  <2>1. ASSUME NEW k \in 1 .. 2
        PROVE /\ db'[k] = [version |-> db'[k].version, rows |-> db'[k].rows]
              /\ db'[k].version \in Nat /\ (db'[k].version = 0 => db'[k].rows = <<>>)
              /\ RowsFine(k, db[k].version, db[k].rows)'
    <3>1. CASE old[k].version = 0
      <4>1. db'[k] = db[k]
        BY <1>3, <1>5, <3>1
      <4>2. RowsFine(k, db[k].version, db[k].rows)
        BY <1>2 DEF DbFine
      <4>3. (~mixed' => ~mixed) /\ (~crossed' => ~crossed)
        BY <1>6
      <4>4. RowsFine(k, db[k].version, db[k].rows)'
        BY <4>1, <4>2, <4>3 DEF RowsFine, IsRow, Mixed, Unlike
      <4> QED BY <1>2, <4>1, <4>4 DEF DbFine
    <3>2. CASE old[k].version # 0
      <4>1. db'[k] = [version |-> old[k].version, rows |-> Over(old[k].rows, db[k].rows)]
        BY <1>3, <1>5, <3>2
      <4>2. ASSUME NEW rows, rows = db[k].rows
            PROVE RowsFine(k, old[k].version, Over(old[k].rows, rows))'
        BY <1>7, <1>8, <3>2, <4>2, OverFine
      <4>3. old[k].version \in Nat
        BY <1>5, LegacyAssumption DEF IsDb
      <4>4. RowsFine(k, old[k].version, db[k].rows)'
        <5>1. db'[k].rows = Over(old[k].rows, db[k].rows)
          BY <4>1
        <5> QED BY <4>2, <5>1 DEF RowsFine, IsRow, Mixed, Unlike
      <4> QED BY <3>2, <4>1, <4>3, <4>4
    <3> QED BY <3>1, <3>2
  <2>2. DOMAIN db' = 1 .. 2
    BY <1>3, <1>5
  <2> QED BY <2>1, <2>2 DEF DbFine
<1>10. proc' = [proc EXCEPT ![p] = proc'[p]] /\ IsLocal(proc'[p])
       /\ proc'[p].at = "check" /\ proc'[p].graph = l.graph /\ proc'[p].out = l.out
  BY <1>2 DEF Import, Fine, IsLocal, IInv, Frame
<1>11. l.graph \subseteq Paths /\ l.out = <<>>
  BY <1>1, <1>2 DEF Fine, OutFine, Waiting
<1>12. Fine(p, proc[p])'
  BY <1>1, <1>10, <1>11, NameAssumption, Resting DEF Waiting
<1>13. Frame'
  BY <1>1, <1>6, <1>10 DEF IInv, Frame
<1> QED BY <1>1, <1>2, <1>6, <1>9, <1>10, <1>12, <1>13, OneStep

\* The rows of one provider are changed in a transaction.
LEMMA TxFine ==
  ASSUME NEW tx, DbFine(tx)', NEW k \in 1 .. 2, NEW v \in Nat \ {0}, NEW rows, RowsFine(k, v, rows)'
  PROVE DbFine([tx EXCEPT ![k] = [version |-> v, rows |-> rows]])'
<1> DEFINE new == [tx EXCEPT ![k] = [version |-> v, rows |-> rows]]
<1>1. DOMAIN new = 1 .. 2 /\ new[k] = [version |-> v, rows |-> rows] /\ \A j \in 1 .. 2 \ {k} : new[j] = tx[j]
  BY DEF DbFine
<1> HIDE DEF new
<1>2. ASSUME NEW j \in 1 .. 2
      PROVE /\ new[j] = [version |-> new[j].version, rows |-> new[j].rows]
            /\ new[j].version \in Nat /\ (new[j].version = 0 => new[j].rows = <<>>)
            /\ RowsFine(j, new[j].version, new[j].rows)'
  <2>1. CASE j = k
    <3>1. new[j].version = v /\ new[j].rows = rows
      BY <1>1, <2>1
    <3> QED BY <1>1, <2>1, <3>1
  <2>2. CASE j # k
    <3>1. new[j] = tx[j]
      BY <1>1, <2>2
    <3> QED BY <3>1 DEF DbFine
  <2> QED BY <2>1, <2>2
<1>3. DbFine(new)'
  BY <1>1, <1>2 DEF DbFine
<1> QED BY <1>3 DEF new

\* A provider keeps no rows, or its own; what is not to be collected is there.
LEMMA StartKeeps == ASSUME IInv, NEW p \in Procs, Start(p) PROVE IInv'
<1> DEFINE l == proc[p]  k == l.k  n == proc'[p]
<1>1. UNCHANGED <<disk, row, graph, db, writer, crossed, mixed, spent>> /\ l.at = "start" /\ k \in 1 .. 2
  BY TwoProviders DEF Start
<1>2. Fine(p, l) /\ DOMAIN proc = Procs /\ DbFine(l.tx) /\ l.graph \subseteq Paths
  BY <1>1 DEF IInv, Frame, Fine, Writing
<1> DEFINE invalid == VersionOf(p, k) # Release[p] \/ l.force
           hashes  == IF Incremental(k) THEN SourceHashes(p) ELSE [key \in {Whole} |-> l.graph]
           rows    == IF invalid THEN <<>>
                      ELSE IF Incremental(k) THEN Restrict(l.tx[k].rows, DOMAIN l.tx[k].rows \cap DOMAIN hashes)
                      ELSE l.tx[k].rows
           todo    == {key \in DOMAIN hashes : Stale(rows, hashes, key)}
<1>3. ~invalid /\ k = 2 => l.tx[k].version = Release[p]
  BY DEF VersionOf
<1>4. /\ k = 1 => hashes = [key \in {Whole} |-> l.graph]
      /\ k = 2 => hashes = SourceHashes(p)
  BY TwoProviders
<1>5. proc' = [proc EXCEPT ![p].at = "collect", ![p].hashes = hashes,
                           ![p].tx[k] = [version |-> Release[p], rows |-> rows], ![p].todo = todo]
  <2> DEFINE Hashed(j) == IF Incremental(j) THEN SourceHashes(p) ELSE [key \in {Whole} |-> proc[p].graph]
             Saved(j, i, h) == IF i THEN <<>>
                              ELSE IF Incremental(j) THEN Restrict(proc[p].tx[j].rows, DOMAIN proc[p].tx[j].rows \cap DOMAIN h)
                              ELSE proc[p].tx[j].rows
             Moved(j, h, r) ==
               proc' = [proc EXCEPT
                 ![p].at = "collect", ![p].hashes = h,
                 ![p].tx[j] = [version |-> Release[p], rows |-> r],
                 ![p].todo = {key \in DOMAIN h : Stale(r, h, key)}]
  <2>1. \E j \in {proc[p].k} : \E i \in {VersionOf(p, j) # Release[p] \/ proc[p].force} :
          \E h \in {Hashed(j)} : \E r \in {Saved(j, i, h)} : Moved(j, h, r)
    BY DEF Start
  <2> HIDE DEF Hashed, Saved, Moved
  <2>2. Moved(k, Hashed(k), Saved(k, invalid, Hashed(k)))
    BY <2>1
  <2> QED BY <2>2 DEF Hashed, Saved, Moved
<1>6. /\ proc' = [proc EXCEPT ![p] = n] /\ IsLocal(n) /\ n.at = "collect" /\ n.graph = l.graph
      /\ n.k = k /\ n.out = l.out /\ n.hashes = hashes
      /\ n.tx = [l.tx EXCEPT ![k] = [version |-> Release[p], rows |-> rows]]
      /\ n.todo = {key \in DOMAIN hashes : Stale(rows, hashes, key)}
  BY <1>2, <1>5, ZenonT(40) DEF Fine, IsLocal, IInv, Frame
<1>7. /\ DOMAIN rows \subseteq DOMAIN l.tx[k].rows /\ DOMAIN rows \subseteq DOMAIN hashes
      /\ \A key \in DOMAIN rows : rows[key] = l.tx[k].rows[key]
      /\ k = 2 /\ DOMAIN rows # {} => l.tx[k].version = Release[p]
  <2>1. CASE invalid
    <3>1. rows = <<>>
      BY <2>1
    <3> HIDE DEF rows, hashes, invalid
    <3> QED BY <3>1
  <2>2. CASE ~invalid /\ k = 2
    <3>1. rows = Restrict(l.tx[k].rows, DOMAIN l.tx[k].rows \cap DOMAIN hashes)
      BY <2>2, TwoProviders
    <3> HIDE DEF rows, hashes, invalid
    <3> QED BY <1>3, <2>2, <3>1 DEF Restrict
  <2>3. CASE ~invalid /\ k = 1
    <3>1. rows = l.tx[k].rows /\ DOMAIN hashes = {Whole}
      BY <2>3, TwoProviders
    <3>2. DOMAIN l.tx[k].rows \subseteq {Whole}
      BY <1>1, <1>2, <2>3 DEF DbFine, RowsFine
    <3> HIDE DEF rows, hashes, invalid
    <3> QED BY <2>3, <3>1, <3>2
  <2> HIDE DEF rows, hashes, invalid
  <2> QED BY <1>1, <2>1, <2>2, <2>3
<1> HIDE DEF invalid, hashes, rows
<1>8. RowsFine(k, l.tx[k].version, l.tx[k].rows)
  BY <1>1, <1>2 DEF DbFine
<1>9. RowsFine(k, Release[p], rows)
  <2>1. DOMAIN rows \subseteq (IF k = 2 THEN Paths ELSE {Whole})
    BY <1>7, <1>8 DEF RowsFine
  <2>2. (\A key \in DOMAIN rows : IsRow(key, rows[key])) /\ (~mixed => ~Mixed(rows))
    BY <1>7, <1>8 DEF RowsFine, Mixed, Unlike
  <2>3. ~crossed /\ k = 2 => \A key \in DOMAIN rows : rows[key].by = Release[p]
    BY <1>7, <1>8 DEF RowsFine
  <2> QED BY <2>1, <2>2, <2>3 DEF RowsFine
<1>10. Release[p] \in Nat \ {0}
  BY ReleaseAssumption
<1>11. ASSUME NEW tx, tx = l.tx PROVE DbFine(tx)'
  BY <1>1, <1>2, <1>11, DbStaysFine
<1>12. DbFine(proc[p].tx)'
  <2>1. ASSUME NEW tx, tx = l.tx, NEW j \in 1 .. 2, j = k, NEW v \in Nat \ {0}, v = Release[p], NEW x, x = rows
        PROVE DbFine([tx EXCEPT ![j] = [version |-> v, rows |-> x]])'
    <3>1. RowsFine(j, v, x)'
      BY <1>1, <1>9, <2>1 DEF RowsFine, IsRow, Mixed, Unlike
    <3> QED BY <1>11, <2>1, <3>1, TxFine
  <2>2. ASSUME NEW new, new = n.tx PROVE DbFine(new)'
    BY <1>1, <1>6, <1>10, <2>1, <2>2
  <2> QED BY <2>2 DEF DbFine, RowsFine, IsRow, Mixed, Unlike
<1>13. CollectFine(p, n)
  <2>1. n.tx[k].version = Release[p] /\ n.tx[k].rows = rows
    BY <1>1, <1>2, <1>6 DEF DbFine
  <2>2. k = 1 => hashes = [key \in {Whole} |-> n.graph]
    BY <1>4, <1>6
  <2>3. k = 2 => DOMAIN hashes \subseteq n.graph /\ \A key \in DOMAIN hashes : hashes[key] \in Hashes
    <3>1. disk \in [Paths -> Hashes] /\ row \in [Paths -> Hashes]
      BY DEF IInv, Frame
    <3> QED BY <1>2, <1>4, <1>6, <3>1 DEF SourceHashes
  <2>4. \A key \in DOMAIN hashes \ n.todo : key \in DOMAIN rows /\ rows[key].hash = hashes[key]
    BY <1>6 DEF Stale
  <2> QED BY <1>6, <1>7, <2>1, <2>2, <2>3, <2>4 DEF CollectFine
<1>14. OutFine(p, n)
  BY <1>1, <1>2, <1>6 DEF Fine, OutFine, FirstFine, Waiting
<1>15. Fine(p, proc[p])'
  <2>1. (CollectFine(p, proc[p]) /\ OutFine(p, proc[p]))'
    BY <1>1, <1>13, <1>14 DEF CollectFine, OutFine, FirstFine, SecondFine
  <2>2. writer' = p /\ n.at \in Stages /\ n.at \in Writing
    BY <1>1, <1>2, <1>6 DEF Fine, Writing, Stages
  <2> QED BY <1>1, <1>2, <1>6, <1>12, <2>1, <2>2 DEF Fine, IsLocal
<1>16. Frame'
  BY <1>1, <1>6 DEF IInv, Frame
<1>17. DbFine(db)'
  BY <1>1, DbUnchanged DEF IInv
<1> QED BY <1>1, <1>2, <1>6, <1>15, <1>16, <1>17, OneStep

\* A row is put over fine rows, under a hash that is its own unless that is noted.
LEMMA RowAdded ==
  ASSUME NEW k \in 1 .. 2, NEW v, NEW old, RowsFine(k, v, old),
         NEW key \in (IF k = 2 THEN Paths ELSE {Whole}), NEW r, IsRow(key, r), r.by = v,
         mixed' = (mixed \/ Unlike(r)), crossed' = crossed
  PROVE RowsFine(k, v, Over([x \in {key} |-> r], old))'
<1> DEFINE one == [x \in {key} |-> r]
<1>1. DOMAIN one = {key} /\ one[key] = r
  OBVIOUS
<1> HIDE DEF one
<1>2. (~mixed' => ~mixed /\ ~Unlike(r)) /\ (~crossed' => ~crossed)
  OBVIOUS
<1>3. RowsFine(k, v, old)'
  BY <1>2 DEF RowsFine, IsRow, Mixed, Unlike
<1>4. RowsFine(k, v, one)'
  BY <1>1, <1>2 DEF RowsFine, IsRow, Mixed, Unlike
<1>5. RowsFine(k, v, Over(one, old))'
  BY <1>3, <1>4, OverFine
<1> QED BY <1>5 DEF one

\* A source is read, and what was read is stored under the hash that was taken of it.
LEMMA CollectKeeps == ASSUME IInv, NEW p \in Procs, Collect(p) PROVE IInv'
<1> DEFINE l == proc[p]  n == proc'[p]
<1>1. UNCHANGED <<disk, row, graph, db, writer, crossed>> /\ l.at = "collect"
  BY DEF Collect
<1>2. /\ Fine(p, l) /\ DOMAIN proc = Procs /\ DbFine(l.tx) /\ l.graph \subseteq Paths
      /\ l.k \in 1 .. 2 /\ CollectFine(p, l) /\ writer = p
      /\ disk \in [Paths -> Hashes] /\ mixed \in BOOLEAN /\ spent \in Spent
  BY <1>1 DEF IInv, Frame, Fine, Writing
<1> DEFINE Stored(key, failed, r) ==
             /\ proc' = [proc EXCEPT ![p].todo = @ \ {key}, ![p].tx[l.k].rows = Over([x \in {key} |-> r], @)]
             /\ mixed' = (mixed \/ Unlike(r))
             /\ spent' = IF failed THEN [spent EXCEPT !.faults = @ + 1] ELSE spent
<1>3. PICK key \in l.todo, failed \in BOOLEAN :
        (failed => MayFail(p, key)) /\ Stored(key, failed, Collected(p, key, failed))
  <2>1. PICK key \in l.todo :
          \E failed \in {FALSE, MayFail(p, key)} : \E r \in {Collected(p, key, failed)} : Stored(key, failed, r)
    BY DEF Collect
  <2> HIDE DEF Stored
  <2>2. PICK failed \in {FALSE, MayFail(p, key)} : Stored(key, failed, Collected(p, key, failed))
    BY <2>1
  <2>3. failed \in BOOLEAN /\ (failed => MayFail(p, key))
    BY <2>2 DEF MayFail
  <2> QED BY <2>2, <2>3
<1>4. PICK r :
        /\ r = Collected(p, key, failed)
        /\ proc' = [proc EXCEPT ![p].todo = @ \ {key}, ![p].tx[l.k].rows = Over([x \in {key} |-> r], @)]
        /\ mixed' = (mixed \/ Unlike(r))
        /\ spent' = IF failed THEN [spent EXCEPT !.faults = @ + 1] ELSE spent
  BY <1>3
<1>5. PICK k \in 1 .. 2 : k = l.k
  BY <1>2
<1>6. PICK tx : tx = l.tx
  OBVIOUS
<1>7. PICK v \in Nat \ {0} : v = Release[p]
  BY ReleaseAssumption
<1> DEFINE rows == Over([x \in {key} |-> r], tx[k].rows)
<1>8. /\ r.hash = l.hashes[key] /\ r.by = v /\ r.failed = failed
      /\ r.of = IF key = Whole THEN l.graph ELSE IF failed THEN None ELSE disk[key]
  BY <1>4, <1>7 DEF Collected
<1>9. (mixed => mixed') /\ mixed' \in BOOLEAN
  BY <1>2, <1>4
<1>10. tx[k].version = v /\ tx[k] = [version |-> v, rows |-> tx[k].rows] /\ DbFine(tx)
  BY <1>2, <1>5, <1>6, <1>7 DEF CollectFine, DbFine
<1>11. /\ key \in (IF k = 2 THEN Paths ELSE {Whole})
       /\ key = Whole => r.hash = l.graph /\ r.of = l.graph
       /\ key # Whole => r.hash \in Hashes /\ r.of \in Hashes /\ (r.failed => r.of = None)
       /\ r.failed \in BOOLEAN
  <2>1. failed \in BOOLEAN
    OBVIOUS
  <2>2. key \in (IF k = 2 THEN Paths ELSE {Whole}) /\ (key = Whole => l.hashes[key] = l.graph)
        /\ (key # Whole => l.hashes[key] \in Hashes /\ disk[key] \in Hashes)
    BY <1>2, <1>3, <1>5, NameAssumption DEF CollectFine
  <2>3. None \in Hashes
    BY DEF Hashes
  <2> QED BY <1>8, <2>1, <2>2, <2>3
<1>12. IsRow(key, r)
  BY <1>2, <1>11 DEF IsRow
<1>13. RowsFine(k, v, rows)'
  <2>1. RowsFine(k, v, tx[k].rows)
    BY <1>10 DEF DbFine
  <2>2. PICK old : old = tx[k].rows
    OBVIOUS
  <2>3. RowsFine(k, v, old)
    BY <2>1, <2>2
  <2>4. crossed' = crossed /\ mixed' = (mixed \/ Unlike(r)) /\ r.by = v
    BY <1>1, <1>4, <1>8
  <2>5. RowsFine(k, v, Over([x \in {key} |-> r], old))'
    BY <1>11, <1>12, <2>3, <2>4, RowAdded
  <2> QED BY <2>2, <2>5
<1>14. /\ DOMAIN rows = {key} \union DOMAIN tx[k].rows
       /\ \A x \in DOMAIN rows : rows[x] = IF x = key THEN r ELSE tx[k].rows[x]
  BY DEF Over
<1>15. /\ proc' = [proc EXCEPT ![p] = n] /\ IsLocal(n) /\ n.at = "collect" /\ n.graph = l.graph
       /\ n.k = k /\ n.out = l.out /\ n.hashes = l.hashes /\ n.todo = l.todo \ {key}
       /\ n.tx = [tx EXCEPT ![k] = [version |-> v, rows |-> rows]]
  <2>1. proc' = [proc EXCEPT ![p].todo = @ \ {key}, ![p].tx[k].rows = rows]
    BY <1>2, <1>4, <1>5, <1>6
  <2> HIDE DEF rows
  <2>2. /\ proc' = [proc EXCEPT ![p] = n] /\ IsLocal(n) /\ n.at = "collect" /\ n.graph = l.graph
        /\ n.k = k /\ n.out = l.out /\ n.hashes = l.hashes /\ n.todo = l.todo \ {key}
        /\ n.tx = [tx EXCEPT ![k].rows = rows]
    BY <1>1, <1>2, <1>5, <1>6, <2>1 DEF Fine, IsLocal, IInv, Frame
  <2>3. [tx[k] EXCEPT !.rows = rows] = [version |-> v, rows |-> rows]
    BY <1>10
  <2>4. [tx EXCEPT ![k].rows = rows] = [tx EXCEPT ![k] = [version |-> v, rows |-> rows]]
    BY <2>3
  <2> QED BY <2>2, <2>4
<1> HIDE DEF rows
<1>16. DbFine(proc[p].tx)'
  <2>1. DbFine(tx)'
    BY <1>1, <1>9, <1>10, DbStaysFine
  <2>2. DbFine([tx EXCEPT ![k] = [version |-> v, rows |-> rows]])'
    BY <1>13, <2>1, TxFine
  <2>3. PICK new : new = [tx EXCEPT ![k] = [version |-> v, rows |-> rows]]
    OBVIOUS
  <2>4. DbFine(new)'
    BY <2>2, <2>3
  <2> QED BY <1>15, <2>3, <2>4 DEF DbFine, RowsFine, IsRow, Mixed, Unlike
<1>17. CollectFine(p, n)
  <2>1. n.tx[k].version = Release[p] /\ n.tx[k].rows = rows
    BY <1>7, <1>10, <1>15 DEF DbFine
  <2>2. DOMAIN rows \subseteq DOMAIN l.hashes
    BY <1>2, <1>3, <1>5, <1>6, <1>14 DEF CollectFine
  <2>3. ASSUME NEW x \in DOMAIN l.hashes \ n.todo PROVE x \in DOMAIN rows /\ rows[x].hash = l.hashes[x]
    <3>1. CASE x = key
      BY <1>8, <1>14, <3>1
    <3>2. CASE x # key
      <4>1. x \in DOMAIN l.hashes \ l.todo
        BY <1>15, <3>2
      <4>2. x \in DOMAIN tx[k].rows /\ tx[k].rows[x].hash = l.hashes[x]
        BY <1>2, <1>5, <1>6, <4>1 DEF CollectFine
      <4> QED BY <1>14, <3>2, <4>2
    <3> QED BY <3>1, <3>2
  <2> QED BY <1>2, <1>5, <1>15, <2>1, <2>2, <2>3 DEF CollectFine
<1>18. OutFine(p, n)
  BY <1>1, <1>2, <1>5, <1>15 DEF Fine, OutFine, FirstFine, Waiting
<1>19. Fine(p, proc[p])'
  <2>1. (CollectFine(p, proc[p]) /\ OutFine(p, proc[p]))'
    BY <1>1, <1>15, <1>17, <1>18 DEF CollectFine, OutFine, FirstFine, SecondFine, Waiting
  <2> QED BY <1>1, <1>2, <1>5, <1>15, <1>16, <2>1 DEF Fine, IsLocal, Stages, Writing
<1>20. Frame'
  <2>1. spent' \in Spent
    BY <1>2, <1>3, <1>4, BoundAssumption DEF MayFail, Spent
  <2> QED BY <1>1, <1>9, <1>15, <2>1 DEF IInv, Frame
<1>21. DbFine(db)'
  BY <1>1, <1>9, DbUnchanged DEF IInv
<1> QED BY <1>1, <1>2, <1>9, <1>15, <1>19, <1>20, <1>21, OneStep

\* Nothing is left to collect: the rows are those of the hashes that were taken.
LEMMA GatherKeeps == ASSUME IInv, NEW p \in Procs, Gather(p) PROVE IInv'
<1> DEFINE l == proc[p]  k == l.k  n == proc'[p]  rows == l.tx[k].rows
<1>1. UNCHANGED <<disk, row, graph, db, writer, crossed, mixed, spent>> /\ l.at = "collect" /\ l.todo = {}
  BY DEF Gather
<1>2. /\ Fine(p, l) /\ DOMAIN proc = Procs /\ DbFine(l.tx) /\ l.graph \subseteq Paths
      /\ k \in 1 .. 2 /\ CollectFine(p, l) /\ OutFine(p, l) /\ writer = p
  BY <1>1 DEF IInv, Frame, Fine, Writing
<1>3. /\ proc' = [proc EXCEPT ![p] = n] /\ IsLocal(n) /\ n.at = (IF k = 2 THEN "commit" ELSE "start")
      /\ n.graph = l.graph /\ n.k = k + 1 /\ n.out = Append(l.out, rows) /\ n.hashes = l.hashes /\ n.tx = l.tx
  BY <1>2, TwoProviders DEF Gather, Fine, IsLocal, IInv, Frame
<1>4. DOMAIN rows = DOMAIN l.hashes /\ \A key \in DOMAIN rows : rows[key].hash = l.hashes[key]
  BY <1>1, <1>2 DEF CollectFine
<1>5. RowsFine(k, Release[p], rows)
  BY <1>2 DEF DbFine, CollectFine
<1>6. OutFine(p, n)
  <2>1. CASE k = 1
    <3>1. FirstFine(l, rows)
      BY <1>2, <1>4, <1>5, <2>1, SMTT(30) DEF RowsFine, IsRow, FirstFine, CollectFine
    <3>2. n.out = <<rows>>
      BY <1>1, <1>2, <1>3, <2>1, Appended DEF OutFine
    <3>3. n.out = <<n.out[1]>> /\ n.out[1] = rows
      BY <3>2
    <3> QED BY <1>3, <2>1, <3>1, <3>3, SMTT(30) DEF OutFine, FirstFine, Waiting
  <2>2. CASE k = 2
    <3>1. SecondFine(p, l, rows)
      <4>1. DOMAIN rows \subseteq l.graph /\ DOMAIN rows \subseteq Paths
        BY <1>2, <1>4, <2>2 DEF CollectFine
      <4>2. \A key \in DOMAIN rows : rows[key].of \in Hashes
        BY <1>5, <4>1, NameAssumption DEF RowsFine, IsRow
      <4> QED BY <1>4, <1>5, <2>2, <4>1, <4>2 DEF RowsFine, SecondFine, Mixed, Unlike
    <3>2. l.out = <<l.out[1]>> /\ FirstFine(l, l.out[1])
      BY <1>1, <1>2, <2>2 DEF OutFine
    <3>3. Append(l.out, rows) = <<l.out[1], rows>>
      <4>1. Append(<<l.out[1]>>, rows) = <<l.out[1], rows>>
        BY Appended
      <4> QED BY <3>2, <4>1
    <3>4. n.out = <<l.out[1], rows>>
      BY <1>3, <3>3
    <3>5. n.out = <<n.out[1], n.out[2]>> /\ n.out[1] = l.out[1] /\ n.out[2] = rows
      BY <3>4
    <3> QED BY <1>3, <2>2, <3>1, <3>2, <3>5 DEF OutFine, FirstFine, SecondFine, Waiting
  <2> QED BY <1>2, <2>1, <2>2
<1>7. Fine(p, proc[p])'
  <2>1. OutFine(p, proc[p])'
    BY <1>1, <1>6 DEF OutFine, FirstFine, SecondFine
  <2>2. DbFine(proc[p].tx)'
    <3>1. PICK tx : tx = l.tx
      OBVIOUS
    <3>2. DbFine(tx)'
      BY <1>1, <1>2, <3>1, DbStaysFine
    <3>3. proc'[p].tx = tx
      BY <1>3, <3>1
    <3> QED BY <3>2, <3>3 DEF DbFine, RowsFine, IsRow, Mixed, Unlike
  <2> QED BY <1>1, <1>2, <1>3, <2>1, <2>2 DEF Fine, IsLocal, Stages, Writing
<1>8. Frame'
  BY <1>1, <1>3 DEF IInv, Frame
<1>9. DbFine(db)'
  BY <1>1, DbUnchanged DEF IInv
<1> QED BY <1>1, <1>2, <1>3, <1>7, <1>8, <1>9, OneStep

\* The transaction becomes the database.
LEMMA CommitKeeps == ASSUME IInv, NEW p \in Procs, Commit(p) PROVE IInv'
<1> DEFINE l == proc[p]  n == proc'[p]
<1>1. UNCHANGED <<disk, row, graph, crossed, mixed, spent>> /\ l.at = "commit" /\ db' = l.tx /\ writer' = NoProc
  BY DEF Commit
<1>2. /\ Fine(p, l) /\ DOMAIN proc = Procs /\ DbFine(l.tx) /\ l.graph \subseteq Paths /\ OutFine(p, l) /\ writer = p
  BY <1>1 DEF IInv, Frame, Fine, Writing
<1>3. /\ proc' = [proc EXCEPT ![p] = n] /\ IsLocal(n) /\ n.at = "done"
      /\ n.graph = l.graph /\ n.out = l.out /\ n.hashes = l.hashes
  BY <1>2 DEF Commit, Idle, IsLocal
<1>4. DbFine(db)'
  <2>1. PICK tx : tx = l.tx
    OBVIOUS
  <2>2. DbFine(tx)'
    BY <1>1, <1>2, <2>1, DbStaysFine
  <2>3. db' = tx
    BY <1>1, <2>1
  <2> QED BY <2>2, <2>3 DEF DbFine, RowsFine, IsRow, Mixed, Unlike
<1>5. OutFine(p, n)
  BY <1>1, <1>2, <1>3 DEF OutFine, FirstFine, SecondFine, Waiting
<1>6. p # NoProc /\ \A r \in Procs : r # NoProc
  BY NameAssumption
<1>7. Fine(p, proc[p])'
  <2>1. OutFine(p, proc[p])'
    BY <1>1, <1>5 DEF OutFine, FirstFine, SecondFine
  <2> QED BY <1>1, <1>2, <1>3, <1>6, <2>1 DEF Fine, IsLocal, Stages, Writing
<1>8. Frame'
  BY <1>1, <1>3 DEF IInv, Frame
<1> QED BY <1>1, <1>2, <1>3, <1>4, <1>6, <1>7, <1>8, OneStep

-----------------------------------------------------------------------------
(* Recursion along a sequence *)

\* A set that has 0 and the successors of its numbers has them all: induction for a
\* set, from the well-foundedness of <.
LEMMA SetInduction ==
  ASSUME NEW S, 0 \in S, \A n \in Nat : n \in S => n + 1 \in S
  PROVE  Nat \subseteq S
<1> SUFFICES ASSUME Nat \ S # {} PROVE FALSE
  OBVIOUS
<1> DEFINE Less == OpToRel(<, Nat)
<1>1. PICK least \in Nat \ S : \A n \in Nat \ S : ~ (<<n, least>> \in Less)
  <2>1. Nat \ S \subseteq Nat
    OBVIOUS
  <2> HIDE DEF Less
  <2>2. IsWellFoundedOn(Less, Nat)
    BY NatLessThanWellFounded DEF Less
  <2> QED BY <2>1, <2>2, WFMin
<1>2. least - 1 \in Nat /\ least = (least - 1) + 1
  OBVIOUS
<1>3. least - 1 \notin S
  BY <1>2
<1>4. <<least - 1, least>> \in Less
  BY <1>2 DEF OpToRel
<1> QED BY <1>1, <1>2, <1>3, <1>4

\* The values of a recursive function: what it starts with, and one step for each index.
Runs(g, s, F, n) ==
  /\ DOMAIN g = 0 .. n
  /\ g = [i \in 0 .. n |-> IF i = 0 THEN s ELSE F[<<i, g[i - 1]>>]]

\* There is such a function, with its values where the steps stay.
LEMMA Recursion ==
  ASSUME NEW S, NEW s \in S, NEW n \in Nat, NEW F \in [(1 .. n) \X S -> S]
  PROVE  \E g \in [0 .. n -> S] : Runs(g, s, F, n)
<1> DEFINE Begins(h, m) == /\ h \in [0 .. m -> S] /\ h[0] = s
                           /\ \A i \in 1 .. m : h[i] = F[<<i, h[i - 1]>>]
           Has == {m \in Nat : m <= n => \E h : Begins(h, m)}
<1>1. 0 \in Has
  <2>1. Begins([i \in 0 .. 0 |-> s], 0)
    OBVIOUS
  <2> QED BY <2>1
<1>2. ASSUME NEW m \in Nat, m \in Has PROVE m + 1 \in Has
  <2> SUFFICES ASSUME m + 1 <= n PROVE \E h : Begins(h, m + 1)
    OBVIOUS
  <2>1. PICK h : Begins(h, m)
    BY <1>2
  <2> DEFINE last   == F[<<m + 1, h[m]>>]
             longer == [i \in 0 .. m + 1 |-> IF i = m + 1 THEN last ELSE h[i]]
  <2>2. last \in S
    <3>1. h[m] \in S /\ m + 1 \in 1 .. n
      BY <2>1
    <3> QED BY <3>1
  <2>3. longer \in [0 .. m + 1 -> S] /\ longer[0] = s
    <3> HIDE DEF last
    <3> QED BY <2>1, <2>2
  <2>4. ASSUME NEW i \in 1 .. m + 1 PROVE longer[i] = F[<<i, longer[i - 1]>>]
    <3>1. CASE i = m + 1
      BY <3>1, SMTT(30)
    <3>2. CASE i # m + 1
      <4>1. i \in 1 .. m /\ i - 1 \in 0 .. m /\ i - 1 # m + 1 /\ i \in 0 .. m + 1 /\ i - 1 \in 0 .. m + 1
        BY <3>2
      <4> HIDE DEF last
      <4> QED BY <2>1, <3>2, <4>1
    <3> QED BY <3>1, <3>2
  <2> HIDE DEF longer
  <2> QED BY <2>3, <2>4
<1>3. PICK g : Begins(g, n)
  <2> HIDE DEF Has
  <2>1. Nat \subseteq Has
    BY <1>1, <1>2, SetInduction
  <2> QED BY <2>1 DEF Has
<1>4. ASSUME NEW i \in 0 .. n PROVE g[i] = IF i = 0 THEN s ELSE F[<<i, g[i - 1]>>]
  BY <1>3
<1> QED BY <1>3, <1>4 DEF Runs

-----------------------------------------------------------------------------
(* What is taken out of a sequence *)

\* A value passed in a singleton is that value.
LEMMA TheFacts == \A X, x : X = {x} => The(X) = x
BY DEF The

\* Keeping the elements of a sequence that are in a set.
KeptIs(s, S, kept, T) ==
  /\ kept \in Seq(T) /\ Len(kept) \in Nat /\ Len(kept) <= Len(s)
  /\ Range(kept) = Range(s) \cap S
  /\ Range(s) \subseteq S => Len(kept) = Len(s)

LEMMA KeptFacts == ASSUME NEW T, NEW s \in Seq(T), NEW S PROVE KeptIs(s, S, Kept(s, S), T)
<1> DEFINE n == Len(s)
           step == [x \in (1 .. n) \X Seq(T) |-> IF s[x[1]] \in S THEN Append(x[2], s[x[1]]) ELSE x[2]]
           Upto(g) == g = [i \in 0 .. n |-> IF i = 0 THEN <<>>
                                            ELSE IF s[i] \in S THEN Append(g[i - 1], s[i]) ELSE g[i - 1]]
           upto == CHOOSE g : Upto(g)
<1>1. n \in Nat /\ DOMAIN s = 1 .. n /\ \A i \in 1 .. n : s[i] \in T
  BY LenProperties
<1>2. Kept(s, S) = upto[n]
  <2>1. Kept(s, S) = Selected(s, S)
    <3> DEFINE one(U) == The({Selected(t, U) : t \in {s}})
    <3>1. one(S) = Selected(s, S)
      BY TheFacts
    <3>2. Kept(s, S) = The({one(U) : U \in {S}})
      BY DEF Kept
    <3> HIDE DEF one
    <3>3. {one(U) : U \in {S}} = {one(S)}
      OBVIOUS
    <3> QED BY <3>1, <3>2, <3>3, TheFacts
  <2> QED BY <2>1 DEF Selected
<1>3. step \in [(1 .. n) \X Seq(T) -> Seq(T)]
  <2> SUFFICES ASSUME NEW x \in (1 .. n) \X Seq(T)
               PROVE (IF s[x[1]] \in S THEN Append(x[2], s[x[1]]) ELSE x[2]) \in Seq(T)
    OBVIOUS
  <2>1. x[1] \in 1 .. n /\ x[2] \in Seq(T)
    OBVIOUS
  <2> HIDE DEF n
  <2> QED BY <1>1, <2>1
<1>4. PICK g \in [0 .. n -> Seq(T)] : Runs(g, <<>>, step, n)
  <2>1. <<>> \in Seq(T)
    OBVIOUS
  <2> HIDE DEF step, n
  <2> QED BY <1>1, <1>3, <2>1, Recursion
<1>5. Upto(g)
  <2> SUFFICES ASSUME NEW i \in 0 .. n
               PROVE g[i] = IF i = 0 THEN <<>> ELSE IF s[i] \in S THEN Append(g[i - 1], s[i]) ELSE g[i - 1]
    BY <1>4 DEF Runs
  <2>1. CASE i = 0
    BY <1>1, <1>4, <2>1 DEF Runs
  <2>2. CASE i # 0
    <3>1. i \in 1 .. n /\ i - 1 \in 0 .. n /\ g[i - 1] \in Seq(T)
      BY <1>1, <2>2
    <3>2. g[i] = step[<<i, g[i - 1]>>]
      <4> HIDE DEF step
      <4> QED BY <1>4, <2>2, <3>1 DEF Runs
    <3>3. <<i, g[i - 1]>> \in (1 .. n) \X Seq(T)
      BY <3>1
    <3> QED BY <2>2, <3>2, <3>3
  <2> QED BY <2>1, <2>2
<1>6. Upto(upto)
  <2> HIDE DEF Upto
  <2> QED BY <1>5
<1>7. /\ upto[0] = <<>>
      /\ \A i \in 0 .. n : i + 1 <= n =>
           upto[i + 1] = IF s[i + 1] \in S THEN Append(upto[i], s[i + 1]) ELSE upto[i]
  <2>1. upto[0] = <<>>
    <3>1. 0 \in 0 .. n
      BY <1>1
    <3> HIDE DEF upto, n
    <3> QED BY <1>6, <3>1
  <2>2. ASSUME NEW i \in 0 .. n, i + 1 <= n
        PROVE upto[i + 1] = IF s[i + 1] \in S THEN Append(upto[i], s[i + 1]) ELSE upto[i]
    <3>1. i + 1 \in 0 .. n /\ i + 1 # 0 /\ (i + 1) - 1 = i
      BY <1>1, <2>2
    <3> HIDE DEF upto, n
    <3> QED BY <1>6, <3>1
  <2> QED BY <2>1, <2>2
<1> HIDE DEF upto
<1> DEFINE Holds(i) == /\ upto[i] \in Seq(T) /\ Len(upto[i]) \in Nat /\ Len(upto[i]) <= i
                       /\ Range(upto[i]) = {s[j] : j \in 1 .. i} \cap S
                       /\ (\A j \in 1 .. i : s[j] \in S) => Len(upto[i]) = i
           Good == {i \in Nat : i <= n => Holds(i)}
<1>8. 0 \in Good
  <2>1. Len(<<>>) = 0 /\ <<>> \in Seq(T) /\ Range(<<>>) = {} /\ {s[j] : j \in 1 .. 0} = {}
    BY DEF Range
  <2>2. Holds(0)
    BY <1>7, <2>1
  <2> HIDE DEF Holds
  <2> QED BY <2>2
<1>9. ASSUME NEW i \in Nat, i \in Good PROVE i + 1 \in Good
  <2> SUFFICES ASSUME i + 1 <= n PROVE Holds(i + 1)
    OBVIOUS
  <2>1. Holds(i) /\ i \in 0 .. n /\ i + 1 \in 1 .. n
    BY <1>1, <1>9
  <2>2. s[i + 1] \in T /\ {s[j] : j \in 1 .. i + 1} = {s[j] : j \in 1 .. i} \union {s[i + 1]}
    <3>1. 1 .. i + 1 = (1 .. i) \union {i + 1}
      OBVIOUS
    <3> QED BY <1>1, <2>1, <3>1
  <2>3. CASE s[i + 1] \in S
    <3>1. upto[i + 1] = Append(upto[i], s[i + 1])
      BY <1>7, <2>1, <2>3
    <3>2. upto[i + 1] \in Seq(T) /\ Len(upto[i + 1]) = Len(upto[i]) + 1
      BY <2>1, <2>2, <3>1
    <3>3. Range(upto[i + 1]) = Range(upto[i]) \union {s[i + 1]}
      <4>1. DOMAIN upto[i + 1] = (1 .. Len(upto[i])) \union {Len(upto[i]) + 1} /\ DOMAIN upto[i] = 1 .. Len(upto[i])
        BY <2>1, <2>2, <3>1
      <4>2. \A j \in 1 .. Len(upto[i]) : upto[i + 1][j] = upto[i][j]
        BY <2>1, <2>2, <3>1
      <4>3. upto[i + 1][Len(upto[i]) + 1] = s[i + 1]
        BY <2>1, <2>2, <3>1
      <4>4. ASSUME NEW a, NEW b, NEW D, NEW e, NEW x, DOMAIN a = D, DOMAIN b = D \union {e},
                   \A j \in D : b[j] = a[j], b[e] = x
            PROVE Range(b) = Range(a) \union {x}
        BY <4>4 DEF Range
      <4>5. PICK a, b, m, x : a = upto[i] /\ b = upto[i + 1] /\ m = Len(upto[i]) /\ x = s[i + 1]
        OBVIOUS
      <4>6. PICK D, e : D = 1 .. m /\ e = m + 1
        OBVIOUS
      <4>7. DOMAIN a = D /\ DOMAIN b = D \union {e} /\ (\A j \in D : b[j] = a[j]) /\ b[e] = x
        BY <4>1, <4>2, <4>3, <4>5, <4>6
      <4>8. Range(b) = Range(a) \union {x}
        BY <4>4, <4>7
      <4> QED BY <4>5, <4>8
    <3>4. Range(upto[i + 1]) = {s[j] : j \in 1 .. i + 1} \cap S
      BY <2>1, <2>2, <2>3, <3>3
    <3>5. (\A j \in 1 .. i + 1 : s[j] \in S) => Len(upto[i + 1]) = i + 1
      <4>1. 1 .. i \subseteq 1 .. i + 1
        OBVIOUS
      <4> QED BY <2>1, <3>2, <4>1
    <3>6. Len(upto[i + 1]) \in Nat /\ Len(upto[i + 1]) <= i + 1
      BY <2>1, <3>2
    <3> QED BY <3>2, <3>4, <3>5, <3>6
  <2>4. CASE s[i + 1] \notin S
    <3>1. upto[i + 1] = upto[i]
      BY <1>7, <2>1, <2>4
    <3>2. Range(upto[i + 1]) = {s[j] : j \in 1 .. i + 1} \cap S
      BY <2>1, <2>2, <2>4, <3>1
    <3>3. Len(upto[i + 1]) <= i + 1 /\ i + 1 \in 1 .. i + 1
      BY <2>1, <3>1
    <3> QED BY <2>1, <2>4, <3>1, <3>2, <3>3
  <2> QED BY <2>3, <2>4
<1>10. Holds(n)
  <2> HIDE DEF Holds
  <2>1. Nat \subseteq Good
    <3> HIDE DEF Good
    <3> QED BY <1>8, <1>9, SetInduction
  <2> QED BY <1>1, <2>1
<1>11. {s[j] : j \in 1 .. n} = Range(s)
  BY <1>1 DEF Range
<1> QED BY <1>1, <1>2, <1>10, <1>11 DEF KeptIs

\* The first elements of a sequence.
FirstsAre(s, n, f, T) ==
  /\ f \in Seq(T) /\ Range(f) \subseteq Range(s)
  /\ Len(f) = IF n < 0 THEN 0 ELSE IF Len(s) < n THEN Len(s) ELSE n
  /\ Len(f) \in Nat /\ Len(s) \in Nat /\ Len(f) <= Len(s)
  /\ Len(f) = Len(s) => f = s

LEMMA FirstsFacts == ASSUME NEW T, NEW s \in Seq(T), NEW n \in Int PROVE FirstsAre(s, n, Firsts(s, n), T)
<1> DEFINE m == IF Len(s) < n THEN Len(s) ELSE n
           f == SubSeq(s, 1, m)
<1>1. Len(s) \in Nat /\ DOMAIN s = 1 .. Len(s) /\ \A i \in 1 .. Len(s) : s[i] \in T
  BY LenProperties
<1>2. m \in Int /\ m <= Len(s) /\ \A i \in 1 .. m : i \in 1 .. Len(s)
  BY <1>1
<1>3. /\ f \in Seq(T) /\ Len(f) = (IF 1 <= m THEN m - 1 + 1 ELSE 0)
      /\ \A i \in 1 .. m - 1 + 1 : f[i] = s[1 + i - 1]
  <2>1. \A i \in 1 .. m : s[i] \in T
    BY <1>1, <1>2
  <2> HIDE DEF m
  <2> QED BY <1>2, <2>1, SubSeqProperties
<1>4. Len(f) = (IF n < 0 THEN 0 ELSE IF Len(s) < n THEN Len(s) ELSE n)
  <2> HIDE DEF f
  <2> QED BY <1>1, <1>3
<1>5. DOMAIN f = 1 .. Len(f) /\ \A i \in 1 .. Len(f) : f[i] = s[i] /\ i \in 1 .. Len(s)
  <2>1. DOMAIN f = 1 .. Len(f)
    BY <1>3, LenProperties
  <2>2. ASSUME NEW i \in 1 .. Len(f) PROVE f[i] = s[i] /\ i \in 1 .. Len(s)
    <3> HIDE DEF f, m
    <3>1. i \in 1 .. m - 1 + 1 /\ 1 + i - 1 = i /\ i \in 1 .. m
      BY <1>2, <1>3
    <3> QED BY <1>2, <1>3, <3>1
  <2> QED BY <2>1, <2>2
<1> HIDE DEF f
<1>6. Range(f) \subseteq Range(s)
  BY <1>1, <1>5 DEF Range
<1>7. Len(f) = Len(s) => f = s
  BY <1>3, <1>5, SeqEqual
<1>8. Len(f) \in Nat /\ Len(f) <= Len(s)
  <2> HIDE DEF m
  <2> QED BY <1>1, <1>2, <1>3
<1> QED BY <1>1, <1>3, <1>4, <1>6, <1>7, <1>8 DEF FirstsAre, Firsts, f

-----------------------------------------------------------------------------
(* One batch *)

\* What nodes and edges are made of.
Names  == {Owner} \union UNION {Range(Found[c].nodes) : c \in Hashes}
NodeId == Paths \X Names
Edge   == NodeId \X NodeId
Receipt == [nodes : Nat, edges : Nat, nodesCut : Nat, edgesCut : Nat]

\* A batch says of everything that was emitted that it has it or that it is cut, and
\* its edges end in its own nodes or in those that it hangs on.
Balanced(b, ids) ==
  /\ b.nodes \in Seq(NodeId) /\ b.edges \in Seq(Edge) /\ b.receipt \in Receipt
  /\ b.receipt.nodes = Len(b.nodes) + b.receipt.nodesCut
  /\ b.receipt.edges = Len(b.edges) + b.receipt.edgesCut
  /\ Range(b.edges) \subseteq (ids \union Range(b.nodes)) \X (ids \union Range(b.nodes))

\* A path's evidence is within the provider's limits, and what they cut is noted.
LEMMA CpgBatchFacts ==
  ASSUME NEW path \in Paths, NEW content \in Hashes, NEW ids, ids \subseteq NodeId
  PROVE  /\ Balanced(CpgBatch(path, content, ids), ids)
         /\ \A n \in Range(CpgBatch(path, content, ids).nodes) : n[1] = path
<1> DEFINE F     == Found[content]
           N     == Range(F.nodes)
           E     == Range(F.edges)
           named == [i \in DOMAIN F.nodes |-> <<path, F.nodes[i]>>]
           found == [i \in DOMAIN F.edges |-> <<<<path, F.edges[i][1]>>, <<path, F.edges[i][2]>>>>]
           nodes == Firsts(named, MaxNodes)
           ends  == ids \union Range(nodes)
           kept  == Kept(found, ends \X ends)
           edges == Firsts(kept, MaxEdges)
           b     == CpgBatch(path, content, ids)
<1>1. F.nodes \in Seq(N) /\ F.edges \in Seq(E) /\ MaxNodes \in Int /\ MaxEdges \in Int
  BY FoundAssumption, BoundAssumption DEF Hashes
<1>2. named \in Seq({path} \X N) /\ Len(named) \in Nat
  <2>1. Len(F.nodes) \in Nat /\ F.nodes \in [1 .. Len(F.nodes) -> N]
    BY <1>1, LenProperties
  <2> HIDE DEF F, N
  <2>2. named \in [1 .. Len(F.nodes) -> {path} \X N]
    BY <2>1
  <2>3. named \in Seq({path} \X N)
    BY <2>1, <2>2, SeqDef
  <2> QED BY <2>3, LenProperties
<1>3. found \in Seq(Range(found)) /\ Len(found) \in Nat
  <2>1. Len(F.edges) \in Nat /\ DOMAIN F.edges = 1 .. Len(F.edges)
    BY <1>1, LenProperties
  <2> HIDE DEF F
  <2>2. found \in [1 .. Len(F.edges) -> Range(found)]
    BY <2>1 DEF Range
  <2> HIDE DEF found
  <2>3. found \in Seq(Range(found))
    BY <2>1, <2>2, SeqDef
  <2> QED BY <2>3, LenProperties
<1>4. N \subseteq Names
  BY DEF Names
<1>5. {path} \X N \subseteq NodeId
  BY <1>4 DEF NodeId
<1> HIDE DEF F, N, E, named, found
<1>6. FirstsAre(named, MaxNodes, nodes, {path} \X N)
  BY <1>1, <1>2, FirstsFacts
<1>7. nodes \in Seq(NodeId) /\ Len(nodes) \in Nat /\ Len(nodes) <= Len(named)
      /\ \A n \in Range(nodes) : n[1] = path
  <2>1. nodes \in Seq(NodeId)
    <3> HIDE DEF nodes
    <3> QED BY <1>5, <1>6, SeqMonotonic DEF FirstsAre
  <2>2. \A n \in Range(nodes) : n \in {path} \X N
    <3>1. nodes \in Seq({path} \X N)
      BY <1>6 DEF FirstsAre
    <3> HIDE DEF nodes
    <3> QED BY <3>1, LenProperties DEF Range
  <2> QED BY <1>6, <2>1, <2>2 DEF FirstsAre
<1>8. ends \subseteq NodeId
  <2> HIDE DEF nodes
  <2>1. Range(nodes) \subseteq NodeId
    BY <1>7, LenProperties DEF Range
  <2> QED BY <2>1
<1> HIDE DEF nodes, ends
<1>9. KeptIs(found, ends \X ends, kept, Range(found))
  BY <1>3, KeptFacts
<1> HIDE DEF kept
<1>10. kept \in Seq(Edge) /\ Range(kept) \subseteq ends \X ends /\ Len(kept) \in Nat /\ Len(kept) <= Len(found)
  <2>1. Range(kept) \subseteq ends \X ends
    BY <1>9 DEF KeptIs
  <2>2. ends \X ends \subseteq Edge
    BY <1>8 DEF Edge
  <2>3. kept \in Seq(Range(found)) /\ Range(kept) \subseteq Edge
    BY <1>9, <2>1, <2>2 DEF KeptIs
  <2>4. kept \in Seq(Edge)
    BY <2>3, SeqOfRange, SeqMonotonic
  <2> QED BY <1>9, <2>1, <2>4 DEF KeptIs
<1>11. FirstsAre(kept, MaxEdges, edges, Edge)
  BY <1>1, <1>10, FirstsFacts
<1> HIDE DEF edges
<1>12. b = [nodes |-> nodes, edges |-> edges,
            receipt |-> [nodes |-> Len(named), edges |-> Len(found),
                         nodesCut |-> Len(named) - Len(nodes), edgesCut |-> Len(found) - Len(edges)]]
  BY DEF CpgBatch, edges, kept, ends, nodes, found, named, F
<1>13. edges \in Seq(Edge) /\ Len(edges) \in Nat /\ Len(edges) <= Len(kept) /\ Range(edges) \subseteq Range(kept)
  BY <1>11 DEF FirstsAre
<1>14. Balanced(b, ids)
  <2>1. Len(named) - Len(nodes) \in Nat /\ Len(found) - Len(edges) \in Nat
    BY <1>2, <1>3, <1>7, <1>10, <1>13
  <2>2. b.receipt \in Receipt
    BY <1>2, <1>3, <1>12, <2>1 DEF Receipt
  <2>3. b.receipt.nodes = Len(b.nodes) + b.receipt.nodesCut /\ b.receipt.edges = Len(b.edges) + b.receipt.edgesCut
    BY <1>2, <1>3, <1>7, <1>12, <1>13
  <2>4. Range(b.edges) \subseteq (ids \union Range(b.nodes)) \X (ids \union Range(b.nodes))
    BY <1>10, <1>12, <1>13 DEF ends
  <2> QED BY <1>7, <1>12, <1>13, <2>2, <2>3, <2>4 DEF Balanced
<1> QED BY <1>7, <1>12, <1>14

\* The pairs of a graph's tests and sources are between its own nodes.
LEMMA StructuralBatchFacts ==
  ASSUME NEW paths \in SUBSET Paths PROVE Balanced(StructuralBatch(paths), GraphIds(paths))
<1> DEFINE kept  == Kept(Tests, paths \X paths)
           edges == [i \in DOMAIN kept |-> <<<<kept[i][1], Owner>>, <<kept[i][2], Owner>>>>]
           b     == StructuralBatch(paths)
<1>1. KeptIs(Tests, paths \X paths, kept, Paths \X Paths)
  BY TestAssumption, KeptFacts
<1>2. b = [nodes |-> <<>>, edges |-> edges,
           receipt |-> [nodes |-> 0, edges |-> Len(kept), nodesCut |-> 0, edgesCut |-> 0]]
  BY DEF StructuralBatch
<1> HIDE DEF kept
<1>3. Len(kept) \in Nat /\ DOMAIN kept = 1 .. Len(kept)
  BY <1>1, LenProperties DEF KeptIs
<1>4. \A i \in 1 .. Len(kept) : kept[i] \in paths \X paths
  BY <1>1, <1>3 DEF KeptIs, Range
<1>5. edges \in [1 .. Len(kept) -> GraphIds(paths) \X GraphIds(paths)]
  BY <1>3, <1>4 DEF GraphIds
<1>6. edges \in Seq(GraphIds(paths) \X GraphIds(paths))
  <2> HIDE DEF edges
  <2> QED BY <1>3, <1>5, SeqDef
<1>7. GraphIds(paths) \subseteq NodeId
  <2>1. Owner \in Names
    BY DEF Names
  <2>2. \A path \in paths : <<path, Owner>> \in NodeId
    BY <2>1 DEF NodeId
  <2> QED BY <2>2 DEF GraphIds
<1>8. Len(edges) = Len(kept)
  <2> HIDE DEF edges
  <2> QED BY <1>3, <1>5, <1>6, LenProperties
<1> HIDE DEF edges
<1>9. edges \in Seq(Edge) /\ Len(edges) \in Nat /\ Range(edges) \subseteq GraphIds(paths) \X GraphIds(paths)
  <2>1. GraphIds(paths) \X GraphIds(paths) \subseteq Edge
    BY <1>7 DEF Edge
  <2>2. Range(edges) \subseteq GraphIds(paths) \X GraphIds(paths)
    BY <1>6, LenProperties DEF Range
  <2>3. edges \in Seq(Edge)
    BY <1>6, <2>1, SeqMonotonic
  <2> QED BY <1>6, <2>2, <2>3, LenProperties
<1>10. <<>> \in Seq(NodeId) /\ Len(<<>>) = 0
  OBVIOUS
<1>11. b.receipt \in Receipt
  BY <1>2, <1>8, <1>9 DEF Receipt
<1> QED BY <1>2, <1>8, <1>9, <1>10, <1>11 DEF Balanced

-----------------------------------------------------------------------------
(* Batches together *)

\* What has been taken of some batches.
Acc == [nodes : Seq(NodeId), edges : Seq(Edge), omitted : SUBSET NodeId, receipt : Receipt]

IsLimits(limits) == limits.nodes \in Nat /\ limits.edges \in Nat
IsEntry(entry, ids) == entry.whole \in BOOLEAN /\ Balanced(entry.batch, ids)

\* Taking an entry keeps the type and the balance, and takes the first of its nodes.
TakenIs(acc, entry, limits, ids, new) ==
  /\ new \in Acc
  /\ Balanced(acc, ids) => Balanced(new, ids)
  /\ entry.whole => new.nodes = acc.nodes \o Firsts(entry.batch.nodes, limits.nodes - Len(acc.nodes))
  /\ ~entry.whole => new.nodes = acc.nodes /\ new.edges = acc.edges
  /\ \E more \in Seq(Edge) : entry.whole => new.edges = acc.edges \o more

LEMMA TakenFacts ==
  ASSUME NEW ids, NEW acc \in Acc, NEW entry, IsEntry(entry, ids), NEW limits, IsLimits(limits)
  PROVE  TakenIs(acc, entry, limits, ids, Taken(acc, entry, limits))
<1> DEFINE b       == entry.batch
           n       == limits.nodes - Len(acc.nodes)
           m       == limits.edges - Len(acc.edges)
           kept    == Firsts(b.nodes, n)
           omitted == acc.omitted \union (Range(b.nodes) \ Range(kept))
           able    == {e \in Range(b.edges) : e[1] \notin omitted /\ e[2] \notin omitted}
           viable  == IF Len(kept) < Len(b.nodes) THEN <<>> ELSE Kept(b.edges, able)
           edges   == Firsts(viable, m)
           lost    == IF entry.whole THEN [nodes |-> Len(b.nodes) - Len(kept), edges |-> Len(b.edges) - Len(edges)]
                      ELSE Uncounted(b)
           total   == [nodes |-> acc.receipt.nodes + b.receipt.nodes, edges |-> acc.receipt.edges + b.receipt.edges,
                       nodesCut |-> acc.receipt.nodesCut + b.receipt.nodesCut + lost.nodes,
                       edgesCut |-> acc.receipt.edgesCut + b.receipt.edgesCut + lost.edges]
           new     == Taken(acc, entry, limits)
<1>1. new = IF entry.whole
            THEN [nodes |-> acc.nodes \o kept, edges |-> acc.edges \o edges, omitted |-> omitted, receipt |-> total]
            ELSE [acc EXCEPT !.receipt = total]
  BY DEF Taken
<1>2. /\ acc.nodes \in Seq(NodeId) /\ acc.edges \in Seq(Edge) /\ acc.omitted \in SUBSET NodeId /\ acc.receipt \in Receipt
      /\ Len(acc.nodes) \in Nat /\ Len(acc.edges) \in Nat
  BY LenProperties DEF Acc
<1>3. /\ b.nodes \in Seq(NodeId) /\ b.edges \in Seq(Edge) /\ b.receipt \in Receipt
      /\ b.receipt.nodes = Len(b.nodes) + b.receipt.nodesCut
      /\ b.receipt.edges = Len(b.edges) + b.receipt.edgesCut
      /\ Range(b.edges) \subseteq (ids \union Range(b.nodes)) \X (ids \union Range(b.nodes))
      /\ Len(b.nodes) \in Nat /\ Len(b.edges) \in Nat /\ entry.whole \in BOOLEAN
  BY LenProperties DEF IsEntry, Balanced
<1>4. n \in Int /\ m \in Int
  BY <1>2 DEF IsLimits
<1> HIDE DEF b, n, m
<1>5. FirstsAre(b.nodes, n, kept, NodeId)
  BY <1>3, <1>4, FirstsFacts
<1> HIDE DEF kept
<1>6. kept \in Seq(NodeId) /\ Len(kept) \in Nat /\ Len(kept) <= Len(b.nodes) /\ (Len(kept) = Len(b.nodes) => kept = b.nodes)
  BY <1>5 DEF FirstsAre
<1>7. omitted \in SUBSET NodeId
  <2>1. Range(b.nodes) \subseteq NodeId
    BY <1>3, LenProperties DEF Range
  <2> QED BY <1>2, <2>1
<1> HIDE DEF omitted
<1>8. KeptIs(b.edges, able, Kept(b.edges, able), Edge)
  <2> HIDE DEF able
  <2> QED BY <1>3, KeptFacts
<1> HIDE DEF able
<1>9. /\ viable \in Seq(Edge) /\ Len(viable) \in Nat /\ Len(viable) <= Len(b.edges) /\ Range(viable) \subseteq Range(b.edges)
      /\ Len(kept) # Len(b.nodes) => viable = <<>>
  <2>1. CASE Len(kept) < Len(b.nodes)
    <3>1. viable = <<>>
      BY <2>1
    <3>2. <<>> \in Seq(Edge) /\ Len(<<>>) = 0 /\ Range(<<>>) = {}
      BY DEF Range
    <3> HIDE DEF viable
    <3> QED BY <1>3, <3>1, <3>2
  <2>2. CASE ~(Len(kept) < Len(b.nodes))
    <3>1. viable = Kept(b.edges, able) /\ Len(kept) = Len(b.nodes)
      BY <1>3, <1>6, <2>2
    <3> QED BY <1>8, <3>1 DEF KeptIs
  <2> QED BY <2>1, <2>2
<1> HIDE DEF viable
<1>10. FirstsAre(viable, m, edges, Edge)
  BY <1>4, <1>9, FirstsFacts
<1> HIDE DEF edges
<1>11. edges \in Seq(Edge) /\ Len(edges) \in Nat /\ Len(edges) <= Len(b.edges) /\ Range(edges) \subseteq Range(b.edges)
       /\ (Len(kept) # Len(b.nodes) => Range(edges) = {})
  <2>1. edges \in Seq(Edge) /\ Len(edges) \in Nat /\ Len(edges) <= Len(viable) /\ Range(edges) \subseteq Range(viable)
    BY <1>10 DEF FirstsAre
  <2>2. Range(<<>>) = {}
    BY DEF Range
  <2> QED BY <1>3, <1>9, <2>1, <2>2
<1>12. /\ entry.whole => lost.nodes = Len(b.nodes) - Len(kept) /\ lost.edges = Len(b.edges) - Len(edges)
       /\ ~entry.whole => lost.nodes = Len(b.nodes) /\ lost.edges = Len(b.edges)
       /\ lost.nodes \in Nat /\ lost.edges \in Nat
  BY <1>3, <1>6, <1>11 DEF Uncounted
<1> HIDE DEF lost
<1>13. /\ total \in Receipt
       /\ total.nodes = acc.receipt.nodes + b.receipt.nodes /\ total.edges = acc.receipt.edges + b.receipt.edges
       /\ total.nodesCut = acc.receipt.nodesCut + b.receipt.nodesCut + lost.nodes
       /\ total.edgesCut = acc.receipt.edgesCut + b.receipt.edgesCut + lost.edges
  <2>1. \A r \in Receipt : r.nodes \in Nat /\ r.edges \in Nat /\ r.nodesCut \in Nat /\ r.edgesCut \in Nat
    BY DEF Receipt
  <2>2. acc.receipt \in Receipt /\ b.receipt \in Receipt /\ lost.nodes \in Nat /\ lost.edges \in Nat
    BY <1>2, <1>3, <1>12
  <2>3. /\ acc.receipt.nodes + b.receipt.nodes \in Nat /\ acc.receipt.edges + b.receipt.edges \in Nat
        /\ acc.receipt.nodesCut + b.receipt.nodesCut + lost.nodes \in Nat
        /\ acc.receipt.edgesCut + b.receipt.edgesCut + lost.edges \in Nat
    BY <2>1, <2>2
  <2> QED BY <2>3 DEF Receipt
<1>14. /\ acc.nodes \o kept \in Seq(NodeId) /\ Len(acc.nodes \o kept) = Len(acc.nodes) + Len(kept)
       /\ acc.edges \o edges \in Seq(Edge) /\ Len(acc.edges \o edges) = Len(acc.edges) + Len(edges)
  BY <1>2, <1>6, <1>11, ConcatProperties
<1>15. new \in Acc
  <2>1. CASE entry.whole
    <3> HIDE DEF total
    <3> QED BY <1>1, <1>7, <1>13, <1>14, <2>1 DEF Acc
  <2>2. CASE ~entry.whole
    <3> HIDE DEF total
    <3> QED BY <1>1, <1>13, <2>2 DEF Acc
  <2> QED BY <2>1, <2>2
<1>16. ASSUME Balanced(acc, ids) PROVE Balanced(new, ids)
  <2>1. /\ acc.receipt.nodes = Len(acc.nodes) + acc.receipt.nodesCut
        /\ acc.receipt.edges = Len(acc.edges) + acc.receipt.edgesCut
        /\ Range(acc.edges) \subseteq (ids \union Range(acc.nodes)) \X (ids \union Range(acc.nodes))
    BY <1>16 DEF Balanced
  <2>2. new.nodes \in Seq(NodeId) /\ new.edges \in Seq(Edge) /\ new.receipt \in Receipt
    BY <1>15 DEF Acc
  <2>3. new.receipt.nodes = Len(new.nodes) + new.receipt.nodesCut /\ new.receipt.edges = Len(new.edges) + new.receipt.edgesCut
    <3> HIDE DEF total, new
    <3>1. new.receipt = total
      BY <1>1, <1>2 DEF Acc
    <3>2. ASSUME NEW k \in Nat, lost.nodes = Len(b.nodes) - k PROVE total.nodes = Len(acc.nodes) + k + total.nodesCut
      <4>1. PICK a \in Nat, l \in Nat : a = acc.receipt.nodesCut /\ l = Len(acc.nodes)
        BY <1>2 DEF Receipt
      <4>2. PICK c \in Nat, e \in Nat : c = b.receipt.nodesCut /\ e = Len(b.nodes)
        BY <1>3 DEF Receipt
      <4>3. total.nodes = (l + a) + (e + c) /\ total.nodesCut = a + c + (e - k)
        BY <1>3, <1>13, <2>1, <3>2, <4>1, <4>2
      <4>4. (l + a) + (e + c) = l + k + (a + c + (e - k))
        OBVIOUS
      <4> QED BY <4>1, <4>3, <4>4
    <3>3. ASSUME NEW k \in Nat, lost.edges = Len(b.edges) - k PROVE total.edges = Len(acc.edges) + k + total.edgesCut
      <4>1. PICK a \in Nat, l \in Nat : a = acc.receipt.edgesCut /\ l = Len(acc.edges)
        BY <1>2 DEF Receipt
      <4>2. PICK c \in Nat, e \in Nat : c = b.receipt.edgesCut /\ e = Len(b.edges)
        BY <1>3 DEF Receipt
      <4>3. total.edges = (l + a) + (e + c) /\ total.edgesCut = a + c + (e - k)
        BY <1>3, <1>13, <2>1, <3>3, <4>1, <4>2
      <4>4. (l + a) + (e + c) = l + k + (a + c + (e - k))
        OBVIOUS
      <4> QED BY <4>1, <4>3, <4>4
    <3>4. CASE entry.whole
      <4>1. new.nodes = acc.nodes \o kept /\ new.edges = acc.edges \o edges
        BY <1>1, <3>4
      <4>2. lost.nodes = Len(b.nodes) - Len(kept) /\ Len(kept) \in Nat
        BY <1>6, <1>12, <3>4
      <4>3. lost.edges = Len(b.edges) - Len(edges) /\ Len(edges) \in Nat
        BY <1>11, <1>12, <3>4
      <4>4. total.nodes = Len(acc.nodes) + Len(kept) + total.nodesCut
        BY <3>2, <4>2
      <4>5. total.edges = Len(acc.edges) + Len(edges) + total.edgesCut
        BY <3>3, <4>3
      <4> QED BY <1>14, <3>1, <4>1, <4>4, <4>5
    <3>5. CASE ~entry.whole
      <4>1. new.nodes = acc.nodes /\ new.edges = acc.edges
        BY <1>1, <3>5 DEF Acc
      <4>2. lost.nodes = Len(b.nodes) - 0 /\ lost.edges = Len(b.edges) - 0
        BY <1>3, <1>12, <3>5
      <4>3. total.nodes = Len(acc.nodes) + 0 + total.nodesCut
        BY <3>2, <4>2
      <4>4. total.edges = Len(acc.edges) + 0 + total.edgesCut
        BY <3>3, <4>2
      <4>5. Len(acc.nodes) + 0 = Len(acc.nodes) /\ Len(acc.edges) + 0 = Len(acc.edges)
        BY <1>2
      <4> QED BY <3>1, <4>1, <4>3, <4>4, <4>5
    <3> QED BY <3>4, <3>5
  <2>4. Range(new.edges) \subseteq (ids \union Range(new.nodes)) \X (ids \union Range(new.nodes))
    <3>1. CASE entry.whole
      <4>1. new.nodes = acc.nodes \o kept /\ new.edges = acc.edges \o edges
        BY <1>1, <3>1
      <4>2. Range(new.nodes) = Range(acc.nodes) \union Range(kept) /\ Range(new.edges) = Range(acc.edges) \union Range(edges)
        BY <1>2, <1>6, <1>11, <4>1, RangeConcatenation
      <4>3. Range(edges) \subseteq (ids \union Range(kept)) \X (ids \union Range(kept))
        BY <1>3, <1>6, <1>11
      <4> QED BY <2>1, <4>2, <4>3
    <3>2. CASE ~entry.whole
      <4>1. new.nodes = acc.nodes /\ new.edges = acc.edges
        BY <1>1, <3>2 DEF Acc
      <4> QED BY <2>1, <4>1
    <3> QED BY <3>1, <3>2
  <2> QED BY <2>2, <2>3, <2>4 DEF Balanced
<1>17. entry.whole => new.nodes = acc.nodes \o kept /\ new.edges = acc.edges \o edges
  BY <1>1
<1>18. ~entry.whole => new.nodes = acc.nodes /\ new.edges = acc.edges
  BY <1>1 DEF Acc
<1> HIDE DEF new
<1>19. TakenIs(acc, entry, limits, ids, new)
  BY <1>11, <1>15, <1>16, <1>17, <1>18 DEF kept, b, n, TakenIs
<1> QED BY <1>19 DEF new

\* A function on 1 .. n is a sequence of its values.
LEMMA Listed ==
  ASSUME NEW n \in Nat, NEW f, f = [i \in 1 .. n |-> f[i]]
  PROVE  f \in Seq(Range(f)) /\ Len(f) = n /\ DOMAIN f = 1 .. n
<1>1. DOMAIN f = 1 .. n
  OBVIOUS
<1>2. f \in [1 .. n -> Range(f)]
  BY <1>1 DEF Range
<1>3. f \in Seq(Range(f))
  BY <1>2, SeqDef
<1> QED BY <1>1, <1>3, LenProperties

\* Aggregating is taking one entry after the other.
AggregateIs(entries, limits, ids, n, upto) ==
  /\ upto \in [0 .. n -> Acc] /\ upto[0] = Nothing
  /\ \A i \in 1 .. n : upto[i] = Taken(upto[i - 1], entries[i], limits)
  /\ \A i \in 0 .. n : Balanced(upto[i], ids)
  /\ Aggregate(entries, limits) = upto[n]

\* Nothing is balanced.
LEMMA NothingFacts == \A ids : Nothing \in Acc /\ Balanced(Nothing, ids)
<1>1. <<>> \in Seq(NodeId) /\ <<>> \in Seq(Edge) /\ Len(<<>>) = 0 /\ Range(<<>>) = {}
  BY DEF Range
<1>2. [nodes |-> 0, edges |-> 0, nodesCut |-> 0, edgesCut |-> 0] \in Receipt
  BY DEF Receipt
<1> QED BY <1>1, <1>2 DEF Nothing, Acc, Balanced

\* Whatever is aggregated is balanced, at every entry.
LEMMA AggregateFacts ==
  ASSUME NEW ids, NEW n \in Nat, NEW entries, Len(entries) = n, \A i \in 1 .. n : IsEntry(entries[i], ids),
         NEW limits, IsLimits(limits)
  PROVE  \E upto : AggregateIs(entries, limits, ids, n, upto)
<1> DEFINE step == [x \in (1 .. n) \X Acc |-> Taken(x[2], entries[x[1]], limits)]
           Upto(g) == g = [i \in 0 .. n |-> IF i = 0 THEN Nothing ELSE Taken(g[i - 1], entries[i], limits)]
           upto == CHOOSE g : Upto(g)
<1>1. Aggregate(entries, limits) = upto[n]
  BY DEF Aggregate
<1>2. step \in [(1 .. n) \X Acc -> Acc]
  <2> SUFFICES ASSUME NEW x \in (1 .. n) \X Acc PROVE Taken(x[2], entries[x[1]], limits) \in Acc
    OBVIOUS
  <2>1. PICK i \in 1 .. n, acc \in Acc : x = <<i, acc>>
    OBVIOUS
  <2>2. Taken(acc, entries[i], limits) \in Acc
    BY TakenFacts DEF TakenIs
  <2> QED BY <2>1, <2>2
<1>3. PICK g \in [0 .. n -> Acc] : Runs(g, Nothing, step, n)
  <2> HIDE DEF step
  <2> QED BY <1>2, NothingFacts, Recursion
<1>4. Upto(g)
  <2> SUFFICES ASSUME NEW i \in 0 .. n
               PROVE g[i] = IF i = 0 THEN Nothing ELSE Taken(g[i - 1], entries[i], limits)
    BY <1>3 DEF Runs
  <2>1. CASE i = 0
    BY <1>3, <2>1 DEF Runs
  <2>2. CASE i # 0
    <3>1. i \in 1 .. n /\ i - 1 \in 0 .. n /\ g[i - 1] \in Acc
      BY <2>2
    <3>2. g[i] = step[<<i, g[i - 1]>>]
      <4> HIDE DEF step
      <4> QED BY <1>3, <2>2, <3>1 DEF Runs
    <3>3. <<i, g[i - 1]>> \in (1 .. n) \X Acc
      BY <3>1
    <3> QED BY <2>2, <3>2, <3>3
  <2> QED BY <2>1, <2>2
<1>5. Upto(upto)
  <2> HIDE DEF Upto
  <2> QED BY <1>4
<1> HIDE DEF upto
<1>6. upto[0] = Nothing
  <2>1. 0 \in 0 .. n
    OBVIOUS
  <2> QED BY <1>5, <2>1
<1>7. \A i \in 1 .. n : upto[i] = Taken(upto[i - 1], entries[i], limits)
  <2>1. \A i \in 1 .. n : i \in 0 .. n /\ i # 0
    OBVIOUS
  <2> QED BY <1>5, <2>1
<1> DEFINE Good == {i \in Nat : i <= n => upto[i] \in Acc /\ Balanced(upto[i], ids)}
<1>8. 0 \in Good
  BY <1>6, NothingFacts
<1>9. ASSUME NEW i \in Nat, i \in Good PROVE i + 1 \in Good
  <2> SUFFICES ASSUME i + 1 <= n PROVE upto[i + 1] \in Acc /\ Balanced(upto[i + 1], ids)
    OBVIOUS
  <2>1. i + 1 \in 1 .. n /\ (i + 1) - 1 = i /\ upto[i] \in Acc /\ Balanced(upto[i], ids)
    BY <1>9
  <2>2. upto[i + 1] = Taken(upto[i], entries[i + 1], limits)
    BY <1>7, <2>1
  <2>3. IsEntry(entries[i + 1], ids)
    BY <2>1
  <2>4. TakenIs(upto[i], entries[i + 1], limits, ids, upto[i + 1])
    BY <2>1, <2>2, <2>3, TakenFacts
  <2> QED BY <2>1, <2>4 DEF TakenIs
<1>10. \A i \in 0 .. n : upto[i] \in Acc /\ Balanced(upto[i], ids)
  <2>1. Nat \subseteq Good
    <3> HIDE DEF Good
    <3> QED BY <1>8, <1>9, SetInduction
  <2> QED BY <2>1
<1>11. DOMAIN upto = 0 .. n /\ upto = [i \in 0 .. n |-> upto[i]]
  <2> DEFINE e(i) == IF i = 0 THEN Nothing ELSE Taken(upto[i - 1], entries[i], limits)
  <2>1. upto = [i \in 0 .. n |-> e(i)]
    BY <1>5
  <2> HIDE DEF e
  <2> QED BY <2>1
<1>12. upto \in [0 .. n -> Acc]
  BY <1>10, <1>11
<1> QED BY <1>1, <1>6, <1>7, <1>10, <1>12 DEF AggregateIs

\* Counting what is read: batch by batch, until the limits are met.
Count == [nodes : Nat, edges : Nat]
CountedIs(batches, limits, n, counted) ==
  /\ counted \in [0 .. n -> Count] /\ counted[0] = [nodes |-> 0, edges |-> 0]
  /\ \A i \in 1 .. n :
       /\ Reads(counted[i - 1], limits) =>
            counted[i] = [nodes |-> counted[i - 1].nodes + Len(batches[i].nodes),
                          edges |-> counted[i - 1].edges + Len(batches[i].edges)]
       /\ ~Reads(counted[i - 1], limits) => counted[i] = counted[i - 1]

LEMMA CountedFacts ==
  ASSUME NEW n \in Nat, NEW batches, Len(batches) = n,
         \A i \in 1 .. n : Len(batches[i].nodes) \in Nat /\ Len(batches[i].edges) \in Nat, NEW limits
  PROVE  CountedIs(batches, limits, n, Counted(batches, limits))
<1> DEFINE next(before, i) ==
             IF Reads(before, limits)
             THEN [nodes |-> before.nodes + Len(batches[i].nodes), edges |-> before.edges + Len(batches[i].edges)]
             ELSE before
           start == [nodes |-> 0, edges |-> 0]
           step == [x \in (1 .. n) \X Count |-> next(x[2], x[1])]
           Upto(g) == g = [i \in 0 .. n |-> IF i = 0 THEN start ELSE next(g[i - 1], i)]
           upto == CHOOSE g : Upto(g)
<1>1. Counted(batches, limits) = upto
  BY DEF Counted
<1>2. ASSUME NEW i \in 1 .. n, NEW c \in Count PROVE next(c, i) \in Count
  BY SMTT(30) DEF Count
<1>3. start \in Count
  BY DEF Count
<1>4. step \in [(1 .. n) \X Count -> Count]
  <2> HIDE DEF next
  <2> QED BY <1>2
<1>5. PICK g \in [0 .. n -> Count] : Runs(g, start, step, n)
  <2> HIDE DEF step, start
  <2> QED BY <1>3, <1>4, Recursion
<1> HIDE DEF next, start
<1>6. Upto(g)
  <2> SUFFICES ASSUME NEW i \in 0 .. n
               PROVE g[i] = IF i = 0 THEN start ELSE next(g[i - 1], i)
    BY <1>5 DEF Runs
  <2>1. CASE i = 0
    BY <1>5, <2>1 DEF Runs
  <2>2. CASE i # 0
    <3>1. i \in 1 .. n /\ i - 1 \in 0 .. n /\ g[i - 1] \in Count
      BY <2>2
    <3>2. g[i] = step[<<i, g[i - 1]>>]
      <4> HIDE DEF step
      <4> QED BY <1>5, <2>2, <3>1 DEF Runs
    <3>3. <<i, g[i - 1]>> \in (1 .. n) \X Count
      BY <3>1
    <3> QED BY <2>2, <3>2, <3>3
  <2> QED BY <2>1, <2>2
<1>7. Upto(upto)
  <2> HIDE DEF Upto
  <2> QED BY <1>6
<1> HIDE DEF upto
<1>8. upto[0] = start
  <2>1. 0 \in 0 .. n
    OBVIOUS
  <2> QED BY <1>7, <2>1
<1>9. \A i \in 1 .. n : upto[i] = next(upto[i - 1], i)
  <2>1. \A i \in 1 .. n : i \in 0 .. n /\ i # 0
    OBVIOUS
  <2> QED BY <1>7, <2>1
<1> DEFINE Good == {i \in Nat : i <= n => upto[i] \in Count}
<1>10. Nat \subseteq Good
  <2>1. 0 \in Good
    BY <1>3, <1>8
  <2>2. ASSUME NEW i \in Nat, i \in Good PROVE i + 1 \in Good
    <3> SUFFICES ASSUME i + 1 <= n PROVE upto[i + 1] \in Count
      OBVIOUS
    <3>1. i + 1 \in 1 .. n /\ (i + 1) - 1 = i /\ upto[i] \in Count
      BY <2>2
    <3> QED BY <1>2, <1>9, <3>1
  <2> HIDE DEF Good
  <2> QED BY <2>1, <2>2, SetInduction
<1>11. upto = [i \in 0 .. n |-> upto[i]]
  <2> DEFINE e(i) == IF i = 0 THEN start ELSE next(upto[i - 1], i)
  <2>1. upto = [i \in 0 .. n |-> e(i)]
    BY <1>7
  <2> HIDE DEF e
  <2> QED BY <2>1
<1>12. upto \in [0 .. n -> Count]
  BY <1>10, <1>11
<1>13. CountedIs(batches, limits, n, upto)
  BY <1>8, <1>9, <1>12 DEF CountedIs, next, start
<1> QED BY <1>1, <1>13

-----------------------------------------------------------------------------
(* A provider's rows under a request *)

\* The keys of a provider's rows are ordered: preferred ones first, and all of them.
OrderedIs(keys, ordered, preferred, m) ==
  /\ ordered \in Seq(keys) /\ m \in 0 .. Len(ordered)
  /\ \A i \in 1 .. m : ordered[i] \in Range(preferred)
  /\ \A i \in m + 1 .. Len(ordered) : ordered[i] \notin Range(preferred)
  /\ \A key \in keys \cap Range(preferred) : \E i \in 1 .. m : ordered[i] = key

LEMMA OrderedFacts ==
  ASSUME NEW keys, NEW preferred \in Seq(Paths)
  PROVE  \E m : OrderedIs(keys, Ordered(keys, preferred), preferred, m)
<1> DEFINE P     == Range(preferred)
           all   == <<Whole>> \o Order
           All   == Paths \union {Whole}
           first == Kept(preferred, keys)
           rest  == Kept(all, keys \ P)
           m     == Len(first)
           n     == Len(rest)
           ordered == first \o rest
<1>1. all \in Seq(All)
  <2>1. <<Whole>> \in Seq(All) /\ Order \in Seq(All)
    BY NameAssumption, SeqMonotonic
  <2> QED BY <2>1, ConcatProperties
<1>2. KeptIs(preferred, keys, first, Paths)
  BY KeptFacts
<1>3. KeptIs(all, keys \ P, rest, All)
  <2> HIDE DEF all, All, P
  <2> QED BY <1>1, KeptFacts
<1>4. Ordered(keys, preferred) = ordered
  BY DEF Ordered
<1> HIDE DEF first, rest, all
<1>5. first \in Seq(keys) /\ m \in Nat /\ \A i \in 1 .. m : first[i] \in P
  <2>1. first \in Seq(Paths) /\ Range(first) = P \cap keys
    BY <1>2 DEF KeptIs
  <2>2. first \in Seq(P \cap keys)
    BY <2>1, SeqOfRange
  <2> QED BY <2>2, LenProperties, SeqMonotonic
<1>6. rest \in Seq(keys) /\ n \in Nat /\ \A i \in 1 .. n : rest[i] \notin P
  <2>1. rest \in Seq(All) /\ Range(rest) = Range(all) \cap (keys \ P)
    BY <1>3 DEF KeptIs
  <2>2. rest \in Seq(Range(rest))
    BY <2>1, SeqOfRange
  <2> HIDE DEF P
  <2>3. Range(rest) \subseteq keys /\ \A x \in Range(rest) : x \notin P
    BY <2>1
  <2> QED BY <2>2, <2>3, LenProperties, SeqMonotonic
<1>7. /\ ordered \in Seq(keys) /\ Len(ordered) = m + n
      /\ \A i \in 1 .. m + n : ordered[i] = IF i <= m THEN first[i] ELSE rest[i - m]
  BY <1>5, <1>6, ConcatProperties
<1>8. ASSUME NEW key \in keys \cap P PROVE \E i \in 1 .. m : ordered[i] = key
  <2>1. key \in Range(first)
    BY <1>2 DEF KeptIs
  <2>2. PICK i \in 1 .. m : first[i] = key
    BY <1>5, <2>1, LenProperties DEF Range
  <2>3. i \in 1 .. m + n /\ i <= m
    BY <1>5, <1>6, <2>2
  <2> HIDE DEF ordered
  <2> QED BY <1>7, <2>2, <2>3
<1> HIDE DEF ordered, P
<1>9. \A i \in 1 .. m : ordered[i] \in P
  BY <1>5, <1>6, <1>7
<1>10. ASSUME NEW i \in m + 1 .. Len(ordered) PROVE ordered[i] \notin P
  <2> HIDE DEF m, n
  <2>1. i \in 1 .. m + n /\ ~(i <= m) /\ i - m \in 1 .. n
    BY <1>5, <1>6, <1>7
  <2> QED BY <1>6, <1>7, <2>1
<1>11. m \in 0 .. Len(ordered)
  BY <1>5, <1>6, <1>7
<1> HIDE DEF m
<1>12. OrderedIs(keys, ordered, preferred, m)
  BY <1>7, <1>8, <1>9, <1>10, <1>11 DEF OrderedIs, P
<1> QED BY <1>4, <1>12

\* The limits of a request are numbers.
LEMMA LimitsFacts == ASSUME NEW k, NEW request \in Requests PROVE IsLimits(Limits(k, request))
<1>1. request.nodes \in Nat /\ request.edges \in Nat
  BY RequestAssumption
<1>2. MaxNodes \in Nat /\ MaxEdges \in Nat /\ Unlimited \in Nat
  BY BoundAssumption, LimitAssumption
<1>3. ASSUME NEW own \in Nat, NEW asked \in Nat PROVE Limit(own, asked) \in Nat
  BY <1>2 DEF Limit
<1> QED BY <1>1, <1>2, <1>3 DEF Limits, IsLimits

\* Rows whose batches hang on the graph's own definitions.
RowsBalanced(rows, ids) == \A key \in DOMAIN rows : Balanced(BatchOf(key, rows[key]), ids)

\* The entries that are aggregated are the batches of the ordered keys, of which the
\* one store reads as many as the limits ask for, and the other all.
MaterializedIs(keys, rows, limits, ids, n, batches, counted) ==
  /\ batches = [i \in 1 .. n |-> BatchOf(keys[i], rows[keys[i]])]
  /\ \A i \in 1 .. n : Balanced(batches[i], ids)
  /\ CountedIs(batches, limits, n, counted)
  /\ Materialized(keys, rows, limits)
     = [i \in 1 .. n |-> Entry(keys[i], batches[i], Reads(counted[i - 1], limits))]

LEMMA MaterializedFacts ==
  ASSUME NEW ids, NEW rows, RowsBalanced(rows, ids), NEW keys \in Seq(DOMAIN rows), NEW limits,
         NEW n, n = Len(keys)
  PROVE  \E batches, counted : MaterializedIs(keys, rows, limits, ids, n, batches, counted)
<1> DEFINE batches == [i \in 1 .. n |-> BatchOf(keys[i], rows[keys[i]])]
           counted == Counted(batches, limits)
<1>1. n \in Nat /\ DOMAIN keys = 1 .. n /\ \A i \in 1 .. n : keys[i] \in DOMAIN rows
  BY LenProperties
<1>2. Materialized(keys, rows, limits) = [i \in 1 .. n |-> Entry(keys[i], batches[i], Reads(counted[i - 1], limits))]
  BY <1>1 DEF Materialized
<1>3. \A i \in 1 .. n : Balanced(batches[i], ids)
  BY <1>1 DEF RowsBalanced
<1>4. Len(batches) = n
  <2>1. batches = [i \in 1 .. n |-> batches[i]]
    OBVIOUS
  <2> HIDE DEF batches
  <2> QED BY <1>1, <2>1, Listed
<1> HIDE DEF batches
<1>5. \A i \in 1 .. n : Len(batches[i].nodes) \in Nat /\ Len(batches[i].edges) \in Nat
  BY <1>3, LenProperties DEF Balanced
<1>6. CountedIs(batches, limits, n, counted)
  BY <1>1, <1>4, <1>5, CountedFacts
<1>7. MaterializedIs(keys, rows, limits, ids, n, batches, counted)
  BY <1>2, <1>3, <1>6 DEF batches, MaterializedIs
<1> QED BY <1>7

\* What SQLite returns is what it materializes, aggregated in the request's order.
LEMMA SqliteIs ==
  ASSUME NEW k, NEW rows, NEW request
  PROVE  SqliteBatch(k, rows, request)
         = Aggregate(Materialized(Preferred(DOMAIN rows, request), rows, Limits(k, request)), Limits(k, request))
<1> DEFINE limits == Limits(k, request)
           ordered == Preferred(DOMAIN rows, request)
           read(keys) == Materialized(keys, rows, limits)
           aggregate(entries) == Aggregate(entries, limits)
<1>1. SqliteBatch(k, rows, request) = The({aggregate(entries) : entries \in {read(keys) : keys \in {ordered}}})
  BY DEF SqliteBatch
<1> HIDE DEF read, aggregate, ordered
<1>2. {read(keys) : keys \in {ordered}} = {read(ordered)}
  OBVIOUS
<1>3. {aggregate(entries) : entries \in {read(keys) : keys \in {ordered}}} = {aggregate(read(ordered))}
  BY <1>2
<1>4. SqliteBatch(k, rows, request) = aggregate(read(ordered))
  BY <1>1, <1>3, TheFacts
<1> QED BY <1>4 DEF read, aggregate, ordered

\* The same of the JSON store, which has read every row.
LEMMA JsonIs ==
  ASSUME NEW k, NEW rows, NEW request, NEW keys, keys = Preferred(DOMAIN rows, request)
  PROVE  JsonBatch(k, rows, request)
         = Aggregate([i \in DOMAIN keys |-> Entry(keys[i], BatchOf(keys[i], rows[keys[i]]), TRUE)], Limits(k, request))
<1> DEFINE limits == Limits(k, request)
           ordered == Preferred(DOMAIN rows, request)
           read(x) == [i \in DOMAIN x |-> Entry(x[i], BatchOf(x[i], rows[x[i]]), TRUE)]
           aggregate(entries) == Aggregate(entries, limits)
<1>1. JsonBatch(k, rows, request) = The({aggregate(entries) : entries \in {read(x) : x \in {ordered}}})
  BY DEF JsonBatch
<1> HIDE DEF read, aggregate, ordered
<1>2. {read(x) : x \in {ordered}} = {read(ordered)}
  OBVIOUS
<1>3. {aggregate(entries) : entries \in {read(x) : x \in {ordered}}} = {aggregate(read(ordered))}
  BY <1>2
<1>4. JsonBatch(k, rows, request) = aggregate(read(ordered))
  BY <1>1, <1>3, TheFacts
<1>5. keys = ordered
  BY DEF ordered
<1> QED BY <1>4, <1>5 DEF read, aggregate

\* A provider's batch is balanced under any request.
LEMMA SqliteFacts ==
  ASSUME NEW ids, NEW k, NEW rows, RowsBalanced(rows, ids), NEW request \in Requests
  PROVE  Balanced(SqliteBatch(k, rows, request), ids)
<1> DEFINE limits == Limits(k, request)
           keys   == Preferred(DOMAIN rows, request)
           n      == Len(keys)
<1>1. keys \in Seq(DOMAIN rows) /\ n \in Nat
  <2>1. keys \in Seq(DOMAIN rows)
    BY RequestAssumption, OrderedFacts DEF OrderedIs, Preferred
  <2> QED BY <2>1, LenProperties
<1>2. IsLimits(limits)
  BY LimitsFacts
<1> HIDE DEF limits, keys
<1>3. PICK batches, counted : MaterializedIs(keys, rows, limits, ids, n, batches, counted)
  BY <1>1, MaterializedFacts
<1>4. PICK entries : entries = Materialized(keys, rows, limits)
  OBVIOUS
<1>5. \A i \in 1 .. n : IsEntry(entries[i], ids)
  <2> SUFFICES ASSUME NEW i \in 1 .. n PROVE IsEntry(entries[i], ids)
    OBVIOUS
  <2>1. entries[i] = Entry(keys[i], batches[i], Reads(counted[i - 1], limits))
    BY <1>3, <1>4 DEF MaterializedIs
  <2>2. Balanced(batches[i], ids)
    BY <1>3 DEF MaterializedIs
  <2>3. Reads(counted[i - 1], limits) \in BOOLEAN
    BY DEF Reads
  <2> QED BY <2>1, <2>2, <2>3 DEF IsEntry, Entry
<1>6. Len(entries) = n
  <2>1. entries = [i \in 1 .. n |-> entries[i]]
    BY <1>3, <1>4 DEF MaterializedIs
  <2> HIDE DEF n
  <2> QED BY <1>1, <2>1, Listed
<1>7. PICK upto : AggregateIs(entries, limits, ids, n, upto)
  <2> HIDE DEF n
  <2> QED BY <1>1, <1>2, <1>5, <1>6, AggregateFacts
<1>8. Balanced(Aggregate(entries, limits), ids)
  <2>1. n \in 0 .. n
    BY <1>1
  <2> QED BY <1>7, <2>1 DEF AggregateIs
<1>9. SqliteBatch(k, rows, request) = Aggregate(entries, limits)
  BY <1>4, SqliteIs DEF keys, limits
<1> QED BY <1>8, <1>9

-----------------------------------------------------------------------------
(* Batches merged into the graph *)

\* A receipt on which all that was emitted is accounted for.
Settled(x) ==
  /\ x.nodes.rejected = 0 /\ x.edges.rejected = 0
  /\ x.nodes.accepted + x.nodes.duplicate + x.emitted.nodesCut = x.emitted.nodes
  /\ x.edges.accepted + x.edges.duplicate + x.emitted.edgesCut = x.emitted.edges

\* The values of a sequence are finitely many.
LEMMA RangeFinite == ASSUME NEW T, NEW s \in Seq(T) PROVE IsFiniteSet(Range(s))
<1>1. Len(s) \in Nat /\ DOMAIN s = 1 .. Len(s)
  BY LenProperties
<1>2. IsFiniteSet(1 .. Len(s))
  BY <1>1, FS_Interval
<1>3. s \in [1 .. Len(s) -> Range(s)]
  <2>1. s \in Seq(Range(s))
    BY SeqOfRange
  <2> QED BY <2>1, LenProperties
<1>4. \A x \in Range(s) : \E i \in 1 .. Len(s) : s[i] = x
  BY <1>1 DEF Range
<1>5. s \in Surjection(1 .. Len(s), Range(s))
  BY <1>3, <1>4 DEF Surjection
<1> QED BY <1>2, <1>5, FS_Surjection

\* Merging a balanced batch whose edges hang on the graph.
MergedIs(acc, b, merged) ==
  /\ merged.nodes = acc.nodes \union Range(b.nodes) /\ IsFiniteSet(merged.nodes)
  /\ IsFiniteSet(merged.edges) /\ merged.edges \subseteq acc.edges \union (merged.nodes \X merged.nodes)
  /\ \E x : Settled(x) /\ merged.receipts = Append(acc.receipts, x)

LEMMA MergedFacts ==
  ASSUME NEW acc, IsFiniteSet(acc.nodes), IsFiniteSet(acc.edges), NEW ids, ids \subseteq acc.nodes,
         NEW b, Balanced(b, ids)
  PROVE  MergedIs(acc, b, Merged(acc, b))
<1> DEFINE nodes  == acc.nodes \union Range(b.nodes)
           sound  == Kept(b.edges, nodes \X nodes)
           edges  == acc.edges \union Range(sound)
           new    == Cardinality(nodes) - Cardinality(acc.nodes)
           joined == Cardinality(edges) - Cardinality(acc.edges)
           floor(a, x) == IF x < a THEN a ELSE x
           x      == [emitted |-> b.receipt,
                      nodes |-> [accepted |-> new, duplicate |-> Len(b.nodes) - new,
                                 rejected |-> floor(0, b.receipt.nodes - Len(b.nodes) - b.receipt.nodesCut)],
                      edges |-> [accepted |-> joined, duplicate |-> Len(sound) - joined,
                                 rejected |-> floor(Len(b.edges) - Len(sound),
                                                    b.receipt.edges - Len(sound) - b.receipt.edgesCut)]]
<1>1. Merged(acc, b) = [nodes |-> nodes, edges |-> edges, receipts |-> Append(acc.receipts, x)]
  BY DEF Merged
<1>2. /\ b.nodes \in Seq(NodeId) /\ b.edges \in Seq(Edge) /\ Len(b.nodes) \in Nat /\ Len(b.edges) \in Nat
      /\ b.receipt.nodesCut \in Nat /\ b.receipt.edgesCut \in Nat
      /\ b.receipt.nodes = Len(b.nodes) + b.receipt.nodesCut
      /\ b.receipt.edges = Len(b.edges) + b.receipt.edgesCut
  BY LenProperties DEF Balanced, Receipt
<1>3. Range(b.edges) \subseteq nodes \X nodes
  BY DEF Balanced
<1>4. KeptIs(b.edges, nodes \X nodes, sound, Edge)
  <2> HIDE DEF nodes
  <2> QED BY <1>2, KeptFacts
<1>5. sound \in Seq(Edge) /\ Range(sound) \subseteq nodes \X nodes /\ Len(sound) = Len(b.edges)
  <2> HIDE DEF nodes, sound
  <2> QED BY <1>3, <1>4 DEF KeptIs
<1>6. IsFiniteSet(nodes) /\ IsFiniteSet(edges)
  <2>1. IsFiniteSet(Range(b.nodes))
    BY <1>2, RangeFinite
  <2> HIDE DEF sound
  <2>2. IsFiniteSet(Range(sound))
    BY <1>5, RangeFinite
  <2> QED BY <2>1, <2>2, FS_Union
<1> HIDE DEF nodes, sound, edges
<1>7. new \in Int /\ joined \in Int
  <2>1. Cardinality(nodes) \in Nat /\ Cardinality(acc.nodes) \in Nat
    BY <1>6, FS_CardinalityType
  <2>2. Cardinality(edges) \in Nat /\ Cardinality(acc.edges) \in Nat
    BY <1>6, FS_CardinalityType
  <2> QED BY <2>1, <2>2
<1> HIDE DEF new, joined
<1>8. Settled(x)
  <2>1. PICK n \in Nat, e \in Nat : n = Len(b.nodes) /\ e = Len(b.edges)
    BY <1>2
  <2>2. PICK c \in Nat, d \in Nat : c = b.receipt.nodesCut /\ d = b.receipt.edgesCut
    BY <1>2
  <2>3. b.receipt.nodes = n + c /\ b.receipt.edges = e + d /\ Len(sound) = e
    BY <1>2, <1>5, <2>1, <2>2
  <2>4. x.nodes.rejected = 0
    <3>1. x.nodes.rejected = floor(0, (n + c) - n - c)
      BY <2>1, <2>2, <2>3
    <3>2. (n + c) - n - c = 0
      OBVIOUS
    <3> QED BY <3>1, <3>2
  <2>5. x.edges.rejected = 0
    <3>1. x.edges.rejected = floor(e - e, (e + d) - e - d)
      BY <2>1, <2>2, <2>3
    <3>2. (e + d) - e - d = 0 /\ e - e = 0
      OBVIOUS
    <3> QED BY <3>1, <3>2
  <2>6. x.nodes.accepted + x.nodes.duplicate + x.emitted.nodesCut = x.emitted.nodes
    <3>1. x.nodes.accepted = new /\ x.nodes.duplicate = n - new /\ x.emitted.nodesCut = c /\ x.emitted.nodes = n + c
      BY <2>1, <2>2, <2>3
    <3>2. new + (n - new) + c = n + c
      BY <1>7
    <3> QED BY <3>1, <3>2
  <2>7. x.edges.accepted + x.edges.duplicate + x.emitted.edgesCut = x.emitted.edges
    <3>1. x.edges.accepted = joined /\ x.edges.duplicate = e - joined /\ x.emitted.edgesCut = d /\ x.emitted.edges = e + d
      BY <2>1, <2>2, <2>3
    <3>2. joined + (e - joined) + d = e + d
      BY <1>7
    <3> QED BY <3>1, <3>2
  <2> QED BY <2>4, <2>5, <2>6, <2>7 DEF Settled
<1> HIDE DEF x
<1>9. edges \subseteq acc.edges \union (nodes \X nodes)
  BY <1>5 DEF edges
<1> QED BY <1>1, <1>6, <1>8, <1>9 DEF MergedIs, nodes

\* Two batches are merged one after the other.
LEMMA AppliedIs ==
  ASSUME NEW paths, NEW known, NEW batches, batches = [k \in 1 .. 2 |-> batches[k]]
  PROVE  Applied(paths, known, batches)
         = Merged(Merged([nodes |-> GraphIds(paths), edges |-> known, receipts |-> <<>>], batches[1]), batches[2])
<1> DEFINE a0 == [nodes |-> GraphIds(paths), edges |-> known, receipts |-> <<>>]
           a1 == Merged(a0, batches[1])
           a2 == Merged(a1, batches[2])
           g  == [i \in 0 .. 2 |-> IF i = 0 THEN a0 ELSE IF i = 1 THEN a1 ELSE a2]
           Upto(h) == h = [i \in 0 .. 2 |-> IF i = 0 THEN a0 ELSE Merged(h[i - 1], batches[i])]
           upto == CHOOSE h : Upto(h)
<1>1. Len(batches) = 2
  BY Listed
<1>2. Applied(paths, known, batches) = upto[2]
  BY <1>1 DEF Applied
<1> HIDE DEF a0
<1>3. Upto(g)
  <2> SUFFICES ASSUME NEW i \in 0 .. 2 PROVE g[i] = IF i = 0 THEN a0 ELSE Merged(g[i - 1], batches[i])
    OBVIOUS
  <2>1. g[0] = a0 /\ g[1] = a1 /\ g[2] = a2
    OBVIOUS
  <2> HIDE DEF g
  <2>2. i = 0 \/ i = 1 \/ i = 2
    OBVIOUS
  <2> QED BY <2>1, <2>2
<1>4. Upto(upto)
  <2> HIDE DEF Upto
  <2> QED BY <1>3
<1> HIDE DEF upto
<1>5. upto[0] = a0 /\ upto[1] = Merged(upto[0], batches[1]) /\ upto[2] = Merged(upto[1], batches[2])
  BY <1>4
<1> QED BY <1>2, <1>5 DEF a0

-----------------------------------------------------------------------------
(* How the limit on nodes is spent *)

\* What is put in front of other things is a prefix.
LEMMA PrefixFacts == ASSUME NEW T, NEW s \in Seq(T), NEW t \in Seq(T) PROVE IsPrefix(s, s \o t)
<1> DEFINE m == Len(s)  st == s \o t
<1>1. m \in Nat /\ Len(t) \in Nat /\ \A i \in 1 .. m : s[i] \in T
  BY LenProperties
<1>2. st \in Seq(T) /\ Len(st) = m + Len(t) /\ \A i \in 1 .. m + Len(t) : st[i] = IF i <= m THEN s[i] ELSE t[i - m]
  BY ConcatProperties
<1> HIDE DEF st, m
<1>3. \A i \in 1 .. m : st[i] = s[i] /\ st[i] \in T
  BY <1>1, <1>2
<1>4. /\ SubSeq(s, 1, m) \in Seq(T) /\ Len(SubSeq(s, 1, m)) = (IF 1 <= m THEN m - 1 + 1 ELSE 0)
      /\ \A i \in 1 .. m - 1 + 1 : SubSeq(s, 1, m)[i] = s[1 + i - 1]
  BY <1>1, SubSeqProperties
<1>5. /\ SubSeq(st, 1, m) \in Seq(T) /\ Len(SubSeq(st, 1, m)) = (IF 1 <= m THEN m - 1 + 1 ELSE 0)
      /\ \A i \in 1 .. m - 1 + 1 : SubSeq(st, 1, m)[i] = st[1 + i - 1]
  BY <1>1, <1>3, SubSeqProperties
<1>6. \A i \in 1 .. Len(SubSeq(s, 1, m)) : i \in 1 .. m /\ i \in 1 .. m - 1 + 1 /\ 1 + i - 1 = i
  BY <1>1, <1>4
<1>7. \A i \in 1 .. Len(SubSeq(s, 1, m)) : SubSeq(s, 1, m)[i] = SubSeq(st, 1, m)[i]
  BY <1>3, <1>4, <1>5, <1>6
<1>8. SubSeq(s, 1, m) = SubSeq(st, 1, m)
  BY <1>4, <1>5, <1>7, SeqEqual
<1>9. m <= Len(st)
  BY <1>1, <1>2
<1> QED BY <1>8, <1>9 DEF IsPrefix, m, st

\* Nodes that are added as far as the limit goes.
Grown(before, b, limit, after) ==
  /\ after \in Seq(NodeId) /\ Len(after) \in Nat
  /\ Range(before) \subseteq Range(after) /\ Range(after) \subseteq Range(before) \union Range(b)
  /\ Len(before) <= limit =>
       Len(after) = IF Len(before) + Len(b) < limit THEN Len(before) + Len(b) ELSE limit
  /\ limit <= Len(before) => after = before
  /\ Len(after) < limit => Range(b) \subseteq Range(after)

LEMMA GrownFacts ==
  ASSUME NEW before \in Seq(NodeId), NEW b \in Seq(NodeId), NEW limit \in Nat
  PROVE  Grown(before, b, limit, before \o Firsts(b, limit - Len(before)))
<1> DEFINE kept  == Firsts(b, limit - Len(before))
           after == before \o kept
<1>1. Len(before) \in Nat /\ Len(b) \in Nat
  BY LenProperties
<1>2. FirstsAre(b, limit - Len(before), kept, NodeId)
  <2>1. limit - Len(before) \in Int
    BY <1>1
  <2> QED BY <2>1, FirstsFacts
<1> HIDE DEF kept
<1>3. /\ kept \in Seq(NodeId) /\ Len(kept) \in Nat /\ Range(kept) \subseteq Range(b)
      /\ Len(kept) = IF limit - Len(before) < 0 THEN 0
                     ELSE IF Len(b) < limit - Len(before) THEN Len(b) ELSE limit - Len(before)
      /\ Len(kept) = Len(b) => kept = b
  BY <1>2 DEF FirstsAre
<1>4. after \in Seq(NodeId) /\ Len(after) = Len(before) + Len(kept)
  BY <1>3, ConcatProperties
<1>5. Range(after) = Range(before) \union Range(kept)
  BY <1>3, RangeConcatenation
<1>6. limit <= Len(before) => after = before
  <2> SUFFICES ASSUME limit <= Len(before) PROVE after = before
    OBVIOUS
  <2>1. Len(kept) = 0
    BY <1>1, <1>3
  <2>2. kept = <<>>
    BY <1>3, <2>1, EmptySeq
  <2> QED BY <2>2, ConcatEmptySeq
<1> HIDE DEF after
<1>7. Len(before) <= limit =>
        Len(after) = IF Len(before) + Len(b) < limit THEN Len(before) + Len(b) ELSE limit
  BY <1>1, <1>3, <1>4
<1>8. Len(after) < limit => Range(b) \subseteq Range(after)
  <2> SUFFICES ASSUME Len(after) < limit PROVE Range(b) \subseteq Range(after)
    OBVIOUS
  <2>1. Len(kept) = Len(b)
    BY <1>1, <1>3, <1>4
  <2> QED BY <1>3, <1>5, <2>1
<1>9. Len(after) \in Nat
  BY <1>1, <1>3, <1>4
<1>10. Grown(before, b, limit, after)
  BY <1>3, <1>4, <1>5, <1>6, <1>7, <1>8, <1>9 DEF Grown
<1> QED BY <1>10 DEF after, kept

\* SQLite and the JSON store take the same nodes: until the limits are met they read the
\* same rows, and after that there is no room for a node.
Together(limits, c, sql, json) ==
  /\ sql.nodes = json.nodes
  /\ \E more \in Seq(Edge) : json.edges = sql.edges \o more
  /\ Len(json.nodes) = IF c.nodes < limits.nodes THEN c.nodes ELSE limits.nodes
  /\ Reads(c, limits) => sql = json

LEMMA TogetherKeeps ==
  ASSUME NEW ids, NEW limits, IsLimits(limits), NEW c \in Count, NEW sql \in Acc, NEW json \in Acc,
         Together(limits, c, sql, json), NEW key, NEW b, Balanced(b, ids), NEW after \in Count,
         Reads(c, limits) => after = [nodes |-> c.nodes + Len(b.nodes), edges |-> c.edges + Len(b.edges)],
         ~Reads(c, limits) => after = c
  PROVE  Together(limits, after, Taken(sql, Entry(key, b, Reads(c, limits)), limits),
                                 Taken(json, Entry(key, b, TRUE), limits))
<1> DEFINE e == Entry(key, b, Reads(c, limits))
           f == Entry(key, b, TRUE)
           newSql  == Taken(sql, e, limits)
           newJson == Taken(json, f, limits)
<1>1. /\ sql.nodes \in Seq(NodeId) /\ json.nodes \in Seq(NodeId) /\ sql.edges \in Seq(Edge) /\ json.edges \in Seq(Edge)
      /\ c.nodes \in Nat /\ limits.nodes \in Nat
      /\ b.nodes \in Seq(NodeId) /\ Len(b.nodes) \in Nat /\ Len(json.nodes) \in Nat
  BY LenProperties DEF Acc, Count, IsLimits, Balanced
<1>2. IsEntry(e, ids) /\ IsEntry(f, ids)
  <2>1. Reads(c, limits) \in BOOLEAN
    BY DEF Reads
  <2> QED BY <2>1 DEF IsEntry, Entry
<1>3. /\ e.whole = Reads(c, limits) /\ f.whole = TRUE /\ f.batch = b
      /\ Reads(c, limits) => e = f
  <2>1. Reads(c, limits) \in BOOLEAN
    BY DEF Reads
  <2> QED BY <2>1 DEF Entry
<1> HIDE DEF e, f
<1>4. /\ newJson.nodes = json.nodes \o Firsts(b.nodes, limits.nodes - Len(json.nodes))
      /\ \E extra \in Seq(Edge) : newJson.edges = json.edges \o extra
      /\ newJson \in Acc
  <2>1. TakenIs(json, f, limits, ids, newJson)
    BY <1>2, TakenFacts
  <2> HIDE DEF newJson
  <2> QED BY <1>3, <2>1 DEF TakenIs
<1>5. Grown(json.nodes, b.nodes, limits.nodes, newJson.nodes)
  BY <1>1, <1>4, GrownFacts
<1>6. newJson.nodes \in Seq(NodeId) /\ newJson.edges \in Seq(Edge)
  <2> HIDE DEF newJson
  <2> QED BY <1>4 DEF Acc
<1>7. ~Reads(c, limits) => newSql.nodes = sql.nodes /\ newSql.edges = sql.edges
  <2>1. TakenIs(sql, e, limits, ids, newSql)
    BY <1>2, TakenFacts
  <2> HIDE DEF newSql
  <2> QED BY <1>3, <2>1 DEF TakenIs
<1>8. CASE Reads(c, limits)
  <2>1. newSql = newJson
    BY <1>3, <1>8 DEF Together
  <2>2. Len(newJson.nodes) = IF after.nodes < limits.nodes THEN after.nodes ELSE limits.nodes
    <3>1. after.nodes = c.nodes + Len(b.nodes)
      BY <1>8
    <3>2. Len(json.nodes) = IF c.nodes < limits.nodes THEN c.nodes ELSE limits.nodes
      BY DEF Together
    <3>3. Len(newJson.nodes) = IF Len(json.nodes) + Len(b.nodes) < limits.nodes
                               THEN Len(json.nodes) + Len(b.nodes) ELSE limits.nodes
      BY <1>1, <1>5, <3>2 DEF Grown
    <3> HIDE DEF newJson
    <3>4. CASE c.nodes < limits.nodes
      BY <1>1, <3>1, <3>2, <3>3, <3>4
    <3>5. CASE ~(c.nodes < limits.nodes)
      <4>1. Len(json.nodes) = limits.nodes
        BY <3>2, <3>5
      <4>2. ~(after.nodes < limits.nodes)
        BY <1>1, <3>1, <3>5
      <4>3. ~(Len(json.nodes) + Len(b.nodes) < limits.nodes)
        BY <1>1, <4>1
      <4> QED BY <3>3, <4>2, <4>3
    <3> QED BY <3>4, <3>5
  <2>3. newJson.edges = newJson.edges \o <<>> /\ <<>> \in Seq(Edge)
    BY <1>6, ConcatEmptySeq
  <2> HIDE DEF newSql, newJson
  <2>4. Together(limits, after, newSql, newJson)
    BY <2>1, <2>2, <2>3 DEF Together
  <2> QED BY <2>4 DEF newSql, newJson, e, f
<1>9. CASE ~Reads(c, limits)
  <2>1. newSql.nodes = sql.nodes /\ newSql.edges = sql.edges
    BY <1>7, <1>9
  <2>2. ~(c.nodes < limits.nodes) /\ after = c
    BY <1>1, <1>9 DEF Reads
  <2>3. Len(json.nodes) = limits.nodes
    BY <2>2 DEF Together
  <2>4. newJson.nodes = json.nodes
    BY <1>1, <1>5, <2>3 DEF Grown
  <2>5. PICK more \in Seq(Edge) : json.edges = sql.edges \o more
    BY DEF Together
  <2>6. PICK extra \in Seq(Edge) : newJson.edges = json.edges \o extra
    BY <1>4
  <2>7. newJson.edges = sql.edges \o (more \o extra) /\ more \o extra \in Seq(Edge)
    <3> HIDE DEF newJson
    <3>1. (sql.edges \o more) \o extra = sql.edges \o (more \o extra)
      <4>1. PICK x \in Seq(Edge) : x = sql.edges
        BY <1>1
      <4>2. (x \o more) \o extra = x \o (more \o extra)
        BY ConcatAssociative
      <4> QED BY <4>1, <4>2
    <3>2. more \o extra \in Seq(Edge)
      BY <2>5, <2>6, ConcatProperties
    <3> QED BY <2>5, <2>6, <3>1, <3>2
  <2>8. sql.nodes = json.nodes
    BY DEF Together
  <2> HIDE DEF newSql, newJson
  <2>9. Together(limits, after, newSql, newJson)
    BY <1>9, <2>1, <2>2, <2>3, <2>4, <2>7, <2>8 DEF Together
  <2> QED BY <2>9 DEF newSql, newJson, e, f
<1> QED BY <1>8, <1>9

\* After i batches, of which the first m are of preferred paths: a node of another path
\* is there only if theirs all are, and all nodes so far are if there is room for more.
Served(limit, preferred, m, batches, i, nodes) ==
  /\ \A x \in Range(nodes) : x[1] \notin preferred =>
       \A j \in 1 .. m : Range(batches[j].nodes) \subseteq Range(nodes)
  /\ Len(nodes) < limit => \A j \in 1 .. i : Range(batches[j].nodes) \subseteq Range(nodes)

LEMMA ServedKeeps ==
  ASSUME NEW limit \in Nat, NEW preferred, NEW m \in Nat, NEW batches, NEW i \in Nat, NEW before \in Seq(NodeId),
         Served(limit, preferred, m, batches, i, before), NEW after, NEW b, b = batches[i + 1].nodes,
         Grown(before, b, limit, after), i + 1 <= m \/ \A x \in Range(b) : x[1] \notin preferred,
         i + 1 <= m => \A x \in Range(b) : x[1] \in preferred
  PROVE  Served(limit, preferred, m, batches, i + 1, after)
<1>1. Len(before) \in Nat
  BY LenProperties
<1>2. /\ Len(after) \in Nat /\ Range(before) \subseteq Range(after) /\ Range(after) \subseteq Range(before) \union Range(b)
      /\ limit <= Len(before) => after = before
      /\ Len(after) < limit => Range(b) \subseteq Range(after)
  BY DEF Grown
<1>3. ASSUME NEW x \in Range(after), x[1] \notin preferred, NEW j \in 1 .. m
      PROVE Range(batches[j].nodes) \subseteq Range(after)
  <2>1. CASE x \in Range(before)
    <3>1. Range(batches[j].nodes) \subseteq Range(before)
      BY <1>3, <2>1 DEF Served
    <3> QED BY <1>2, <3>1
  <2>2. CASE x \notin Range(before)
    <3>1. x \in Range(b) /\ Len(before) < limit
      BY <1>1, <1>2, <2>2
    <3>2. j \in 1 .. i
      BY <1>3, <3>1
    <3>3. Range(batches[j].nodes) \subseteq Range(before)
      BY <3>1, <3>2 DEF Served
    <3> QED BY <1>2, <3>3
  <2> QED BY <2>1, <2>2
<1>4. ASSUME Len(after) < limit, NEW j \in 1 .. i + 1 PROVE Range(batches[j].nodes) \subseteq Range(after)
  <2>1. CASE j = i + 1
    BY <1>2, <1>4, <2>1
  <2>2. CASE j # i + 1
    <3>1. j \in 1 .. i
      BY <2>2
    <3>2. Len(before) < limit
      BY <1>1, <1>2, <1>4
    <3>3. Range(batches[j].nodes) \subseteq Range(before)
      BY <3>1, <3>2 DEF Served
    <3> QED BY <1>2, <3>3
  <2> QED BY <2>1, <2>2
<1> QED BY <1>3, <1>4 DEF Served

\* What the two stores return of a provider's rows, under one request.
SpentIs(rows, preferred, sql, json) ==
  /\ sql.nodes = json.nodes /\ IsPrefix(sql.edges, json.edges)
  /\ \A x \in Range(sql.nodes) : x[1] \notin preferred =>
       \A key \in preferred \cap DOMAIN rows : Range(BatchOf(key, rows[key]).nodes) \subseteq Range(sql.nodes)

LEMMA SpentFacts ==
  ASSUME NEW ids, NEW k, NEW rows, RowsBalanced(rows, ids),
         \A key \in DOMAIN rows : \A x \in Range(BatchOf(key, rows[key]).nodes) : x[1] = key,
         NEW request \in Requests
  PROVE  SpentIs(rows, Range(request.preferred), SqliteBatch(k, rows, request), JsonBatch(k, rows, request))
<1> DEFINE limits == Limits(k, request)
           keys   == Preferred(DOMAIN rows, request)
           n      == Len(keys)
           P      == Range(request.preferred)
           others == [i \in DOMAIN keys |-> Entry(keys[i], BatchOf(keys[i], rows[keys[i]]), TRUE)]
<1>1. PICK m : OrderedIs(DOMAIN rows, keys, request.preferred, m)
  BY RequestAssumption, OrderedFacts DEF Preferred
<1>2. keys \in Seq(DOMAIN rows) /\ n \in Nat /\ m \in Nat /\ m <= n /\ DOMAIN keys = 1 .. n
      /\ \A i \in 1 .. n : keys[i] \in DOMAIN rows
  <2>1. keys \in Seq(DOMAIN rows) /\ m \in 0 .. n
    BY <1>1 DEF OrderedIs
  <2> HIDE DEF keys
  <2> QED BY <2>1, LenProperties
<1>3. /\ \A i \in 1 .. n : i <= m => keys[i] \in P
      /\ \A i \in 1 .. n : ~(i <= m) => keys[i] \notin P
      /\ \A key \in P \cap DOMAIN rows : \E i \in 1 .. m : keys[i] = key
  BY <1>1, <1>2 DEF OrderedIs
<1>4. IsLimits(limits)
  BY LimitsFacts
<1>5. JsonBatch(k, rows, request) = Aggregate(others, limits)
  BY JsonIs
<1>6. SqliteBatch(k, rows, request) = Aggregate(Materialized(keys, rows, limits), limits)
  BY SqliteIs
<1> HIDE DEF limits, keys
<1>7. PICK batches, counted : MaterializedIs(keys, rows, limits, ids, n, batches, counted)
  BY <1>2, MaterializedFacts
<1>8. PICK entries : entries = Materialized(keys, rows, limits)
  OBVIOUS
<1>9. /\ entries = [i \in 1 .. n |-> entries[i]] /\ others = [i \in 1 .. n |-> others[i]]
      /\ \A i \in 1 .. n : /\ entries[i] = Entry(keys[i], batches[i], Reads(counted[i - 1], limits))
                           /\ others[i] = Entry(keys[i], batches[i], TRUE)
                           /\ batches[i] = BatchOf(keys[i], rows[keys[i]])
                           /\ Balanced(batches[i], ids)
  BY <1>2, <1>7, <1>8 DEF MaterializedIs
<1> HIDE DEF others, n
<1>10. Len(entries) = n /\ Len(others) = n
  BY <1>2, <1>9, Listed
<1>11. \A i \in 1 .. n : IsEntry(entries[i], ids) /\ IsEntry(others[i], ids)
  <2> SUFFICES ASSUME NEW i \in 1 .. n PROVE IsEntry(entries[i], ids) /\ IsEntry(others[i], ids)
    OBVIOUS
  <2>1. PICK whole \in BOOLEAN : whole = Reads(counted[i - 1], limits)
    BY DEF Reads
  <2>2. Balanced(batches[i], ids) /\ entries[i] = Entry(keys[i], batches[i], whole)
    BY <1>9, <2>1
  <2>3. others[i] = Entry(keys[i], batches[i], TRUE)
    BY <1>9
  <2>4. entries[i].whole = whole /\ entries[i].batch = batches[i]
    BY <2>2 DEF Entry
  <2>5. others[i].whole = TRUE /\ others[i].batch = batches[i]
    BY <2>3 DEF Entry
  <2> QED BY <2>2, <2>4, <2>5 DEF IsEntry
<1>12. PICK sql : AggregateIs(entries, limits, ids, n, sql)
  BY <1>2, <1>4, <1>10, <1>11, AggregateFacts
<1>13. PICK json : AggregateIs(others, limits, ids, n, json)
  BY <1>2, <1>4, <1>10, <1>11, AggregateFacts
<1>14. CountedIs(batches, limits, n, counted)
  BY <1>7 DEF MaterializedIs
<1> DEFINE Good == {i \in Nat : i <= n => /\ Together(limits, counted[i], sql[i], json[i])
                                         /\ Served(limits.nodes, P, m, batches, i, json[i].nodes)}
<1>15. 0 \in Good
  <2>1. sql[0] = Nothing /\ json[0] = Nothing /\ counted[0] = [nodes |-> 0, edges |-> 0]
    BY <1>12, <1>13, <1>14 DEF AggregateIs, CountedIs
  <2>2. Nothing.nodes = <<>> /\ Nothing.edges = <<>> /\ Len(<<>>) = 0 /\ Range(<<>>) = {}
        /\ <<>> \in Seq(Edge) /\ <<>> \o <<>> = <<>>
    BY DEF Nothing, Range
  <2>3. limits.nodes \in Nat
    BY <1>4 DEF IsLimits
  <2>4. Together(limits, counted[0], sql[0], json[0])
    <3>1. PICK c, none : c = counted[0] /\ none = Nothing
      OBVIOUS
    <3>2. c.nodes = 0 /\ none.nodes = <<>> /\ none.edges = <<>>
      BY <2>1, <2>2, <3>1
    <3>3. \E more \in Seq(Edge) : none.edges = none.edges \o more
      BY <2>2, <3>2
    <3>4. Len(none.nodes) = IF c.nodes < limits.nodes THEN c.nodes ELSE limits.nodes
      BY <2>2, <2>3, <3>2
    <3>5. Together(limits, c, none, none)
      BY <3>3, <3>4 DEF Together
    <3> QED BY <2>1, <3>1, <3>5
  <2>5. Served(limits.nodes, P, m, batches, 0, json[0].nodes)
    BY <2>1, <2>2 DEF Served
  <2> QED BY <2>4, <2>5
<1>16. ASSUME NEW i \in Nat, i \in Good PROVE i + 1 \in Good
  <2> SUFFICES ASSUME i + 1 <= n
               PROVE /\ Together(limits, counted[i + 1], sql[i + 1], json[i + 1])
                     /\ Served(limits.nodes, P, m, batches, i + 1, json[i + 1].nodes)
    OBVIOUS
  <2>1. i + 1 \in 1 .. n /\ (i + 1) - 1 = i /\ i \in 0 .. n /\ i + 1 \in 0 .. n
    BY <1>2
  <2>2. Together(limits, counted[i], sql[i], json[i]) /\ Served(limits.nodes, P, m, batches, i, json[i].nodes)
    BY <1>2, <1>16
  <2> DEFINE key == keys[i + 1]  b == batches[i + 1]
  <2>3. /\ sql[i + 1] = Taken(sql[i], Entry(key, b, Reads(counted[i], limits)), limits)
        /\ json[i + 1] = Taken(json[i], Entry(key, b, TRUE), limits)
        /\ sql[i] \in Acc /\ json[i] \in Acc
    BY <1>9, <1>12, <1>13, <2>1 DEF AggregateIs
  <2>4. /\ counted[i] \in Count /\ counted[i + 1] \in Count
        /\ Reads(counted[i], limits) =>
             counted[i + 1] = [nodes |-> counted[i].nodes + Len(b.nodes), edges |-> counted[i].edges + Len(b.edges)]
        /\ ~Reads(counted[i], limits) => counted[i + 1] = counted[i]
    BY <1>14, <2>1 DEF CountedIs
  <2>5. Balanced(b, ids) /\ b = BatchOf(key, rows[key]) /\ key \in DOMAIN rows
    BY <1>2, <1>9, <2>1
  <2> HIDE DEF key, b
  <2>6. Together(limits, counted[i + 1], sql[i + 1], json[i + 1])
    BY <1>4, <2>2, <2>3, <2>4, <2>5, TogetherKeeps, ZenonT(40)
  <2>7. json[i].nodes \in Seq(NodeId) /\ b.nodes \in Seq(NodeId) /\ limits.nodes \in Nat
    BY <1>4, <2>3, <2>5 DEF Acc, Balanced, IsLimits
  <2>8. Grown(json[i].nodes, b.nodes, limits.nodes, json[i + 1].nodes)
    <3>1. IsEntry(Entry(key, b, TRUE), ids)
      BY <2>5 DEF IsEntry, Entry
    <3>2. TakenIs(json[i], Entry(key, b, TRUE), limits, ids, json[i + 1])
      BY <1>4, <2>3, <3>1, TakenFacts
    <3>3. json[i + 1].nodes = json[i].nodes \o Firsts(b.nodes, limits.nodes - Len(json[i].nodes))
      BY <3>2 DEF TakenIs, Entry
    <3> QED BY <2>7, <3>3, GrownFacts
  <2>9. \A x \in Range(b.nodes) : x[1] = key
    BY <2>5
  <2>10. Served(limits.nodes, P, m, batches, i + 1, json[i + 1].nodes)
    <3>1. i + 1 <= m => \A x \in Range(b.nodes) : x[1] \in P
      BY <1>3, <2>1, <2>9 DEF key
    <3>2. i + 1 <= m \/ \A x \in Range(b.nodes) : x[1] \notin P
      BY <1>3, <2>1, <2>9 DEF key
    <3>3. b.nodes = batches[i + 1].nodes
      BY DEF b
    <3> HIDE DEF P
    <3> QED BY <1>2, <2>2, <2>7, <2>8, <3>1, <3>2, <3>3, ServedKeeps
  <2> QED BY <2>6, <2>10
<1>17. Together(limits, counted[n], sql[n], json[n]) /\ Served(limits.nodes, P, m, batches, n, json[n].nodes)
  <2>1. Nat \subseteq Good
    <3> HIDE DEF Good
    <3> QED BY <1>15, <1>16, SetInduction
  <2> QED BY <1>2, <2>1
<1>18. SqliteBatch(k, rows, request) = sql[n] /\ JsonBatch(k, rows, request) = json[n] /\ sql[n] \in Acc
  <2>1. n \in 0 .. n
    BY <1>2
  <2> QED BY <1>5, <1>6, <1>8, <1>12, <1>13, <2>1 DEF AggregateIs
<1>19. IsPrefix(sql[n].edges, json[n].edges)
  <2>1. sql[n].edges \in Seq(Edge)
    BY <1>18 DEF Acc
  <2>2. PICK more \in Seq(Edge) : json[n].edges = sql[n].edges \o more
    BY <1>17 DEF Together
  <2> QED BY <2>1, <2>2, PrefixFacts
<1>20. ASSUME NEW x \in Range(sql[n].nodes), x[1] \notin P, NEW key \in P \cap DOMAIN rows
       PROVE Range(BatchOf(key, rows[key]).nodes) \subseteq Range(sql[n].nodes)
  <2>1. sql[n].nodes = json[n].nodes
    BY <1>17 DEF Together
  <2>2. PICK i \in 1 .. m : keys[i] = key
    BY <1>3
  <2>3. batches[i] = BatchOf(key, rows[key])
    <3>1. i \in 1 .. n
      BY <1>2, <2>2
    <3> QED BY <1>9, <2>2, <3>1
  <2> HIDE DEF P
  <2>4. Range(batches[i].nodes) \subseteq Range(json[n].nodes)
    BY <1>17, <1>20, <2>1 DEF Served
  <2> QED BY <2>1, <2>3, <2>4
<1>21. SpentIs(rows, P, sql[n], json[n])
  <2>1. sql[n].nodes = json[n].nodes
    BY <1>17 DEF Together
  <2> HIDE DEF P
  <2> QED BY <1>19, <1>20, <2>1 DEF SpentIs
<1> QED BY <1>18, <1>21

-----------------------------------------------------------------------------
(* What a refresh returns *)

\* The more nodes there are, the more a batch's edges may hang on.
LEMMA BalancedGrows ==
  ASSUME NEW b, NEW ids, Balanced(b, ids), NEW more, ids \subseteq more PROVE Balanced(b, more)
BY DEF Balanced

\* The nodes of a graph that the providers know: finitely many.
LEMMA GraphFacts ==
  ASSUME NEW paths \in SUBSET Paths PROVE IsFiniteSet(GraphIds(paths)) /\ GraphIds(paths) \subseteq NodeId
<1>1. IsFiniteSet(Paths)
  BY NameAssumption, RangeFinite DEF Paths
<1>2. IsFiniteSet(paths)
  BY <1>1, FS_Subset
<1>3. IsFiniteSet(paths \X {Owner})
  BY <1>2, FS_Product, FS_Singleton
<1>4. GraphIds(paths) \subseteq paths \X {Owner}
  BY DEF GraphIds
<1>5. IsFiniteSet(GraphIds(paths))
  BY <1>3, <1>4, FS_Subset
<1> QED BY <1>4, <1>5 DEF NodeId, Names

\* The rows that are returned make up balanced batches, of nodes of their own paths.
ReturnedFine(r) ==
  /\ r.out = <<r.out[1], r.out[2]>> /\ r.graph \in SUBSET Paths
  /\ RowsBalanced(r.out[1], GraphIds(r.graph)) /\ RowsBalanced(r.out[2], GraphIds(r.graph))
  /\ \A key \in DOMAIN r.out[2] : \A x \in Range(BatchOf(key, r.out[2][key]).nodes) : x[1] = key

LEMMA ReturnedIsFine == ASSUME IInv, NEW r \in Results PROVE ReturnedFine(r)
<1>1. PICK p \in Procs : r = proc[p] /\ r.at = "done"
  BY DEF Results
<1>2. Fine(p, r)
  BY <1>1 DEF IInv
<1>3. /\ r.out = <<r.out[1], r.out[2]>> /\ r.graph \in SUBSET Paths
      /\ FirstFine(r, r.out[1]) /\ SecondFine(p, r, r.out[2])
  BY <1>1, <1>2 DEF Fine, OutFine
<1>4. ASSUME NEW key \in DOMAIN r.out[1] PROVE Balanced(BatchOf(key, r.out[1][key]), GraphIds(r.graph))
  <2>1. key = Whole /\ r.out[1][key].of = r.graph
    BY <1>3 DEF FirstFine
  <2>2. BatchOf(key, r.out[1][key]) = StructuralBatch(r.graph)
    BY <2>1 DEF BatchOf
  <2> QED BY <1>3, <2>2, StructuralBatchFacts
<1>5. ASSUME NEW key \in DOMAIN r.out[2]
      PROVE /\ Balanced(BatchOf(key, r.out[2][key]), GraphIds(r.graph))
            /\ \A x \in Range(BatchOf(key, r.out[2][key]).nodes) : x[1] = key
  <2>1. key \in r.graph /\ key \in Paths /\ key # Whole /\ r.out[2][key].of \in Hashes
    BY <1>3, NameAssumption DEF SecondFine
  <2> DEFINE own == {<<key, Owner>>}  content == r.out[2][key].of
  <2>2. BatchOf(key, r.out[2][key]) = CpgBatch(key, content, own)
    BY <2>1 DEF BatchOf
  <2>3. own \subseteq GraphIds(r.graph) /\ own \subseteq NodeId
    <3>1. own \subseteq GraphIds(r.graph)
      BY <2>1 DEF GraphIds
    <3> QED BY <1>3, <3>1, GraphFacts
  <2> HIDE DEF own, content
  <2>4. content \in Hashes
    BY <2>1 DEF content
  <2>5. /\ Balanced(CpgBatch(key, content, own), own)
        /\ \A x \in Range(CpgBatch(key, content, own).nodes) : x[1] = key
    BY <2>1, <2>3, <2>4, CpgBatchFacts
  <2>6. Balanced(CpgBatch(key, content, own), GraphIds(r.graph))
    BY <2>3, <2>5, BalancedGrows
  <2> QED BY <2>2, <2>5, <2>6
<1> QED BY <1>3, <1>4, <1>5 DEF ReturnedFine, RowsBalanced

\* A graph into which both providers' batches are merged.
AppliedIsSettled(graphed, known) ==
  /\ graphed.edges \subseteq known \union (graphed.nodes \X graphed.nodes)
  /\ \E x, y : Settled(x) /\ Settled(y) /\ graphed.receipts = <<x, y>>

LEMMA AppliedFacts ==
  ASSUME NEW paths \in SUBSET Paths, NEW known, IsFiniteSet(known), NEW batches,
         batches = [k \in 1 .. 2 |-> batches[k]], \A k \in 1 .. 2 : Balanced(batches[k], GraphIds(paths))
  PROVE  AppliedIsSettled(Applied(paths, known, batches), known)
<1> DEFINE ids == GraphIds(paths)
           a0  == [nodes |-> ids, edges |-> known, receipts |-> <<>>]
           a1  == Merged(a0, batches[1])
           a2  == Merged(a1, batches[2])
<1>1. Applied(paths, known, batches) = a2
  BY AppliedIs
<1>2. IsFiniteSet(ids) /\ a0.nodes = ids /\ a0.edges = known /\ a0.receipts = <<>>
  BY GraphFacts
<1>3. Balanced(batches[1], ids) /\ Balanced(batches[2], ids)
  OBVIOUS
<1> HIDE DEF ids, a0
<1>4. MergedIs(a0, batches[1], a1)
  BY <1>2, <1>3, MergedFacts
<1> HIDE DEF a1
<1>5. /\ IsFiniteSet(a1.nodes) /\ IsFiniteSet(a1.edges) /\ ids \subseteq a1.nodes
      /\ a1.edges \subseteq known \union (a1.nodes \X a1.nodes)
  BY <1>2, <1>4 DEF MergedIs
<1>6. MergedIs(a1, batches[2], a2)
  BY <1>3, <1>5, MergedFacts
<1> HIDE DEF a2
<1>7. PICK x : Settled(x) /\ a1.receipts = Append(<<>>, x)
  BY <1>2, <1>4 DEF MergedIs
<1>8. PICK y : Settled(y) /\ a2.receipts = Append(a1.receipts, y)
  BY <1>6 DEF MergedIs
<1>9. a1.receipts = <<x>> /\ a2.receipts = <<x, y>>
  BY <1>7, <1>8, Appended
<1>10. a2.edges \subseteq known \union (a2.nodes \X a2.nodes)
  BY <1>5, <1>6 DEF MergedIs
<1>11. AppliedIsSettled(a2, known)
  BY <1>7, <1>8, <1>9, <1>10 DEF AppliedIsSettled
<1> QED BY <1>1, <1>11

-----------------------------------------------------------------------------
(* The theorems *)

\* Whatever refreshes, releases, imports, edits, scans and crashes do, in any order,
\* the database and every transaction on it hold rows of the shape, the hash and the
\* release that their place says, and what a process returns is made of them.
THEOREM Invariant == Spec => []IInv
<1>1. IInv /\ [Next]_vars => IInv'
  <2> SUFFICES ASSUME IInv, [Next]_vars PROVE IInv'
    OBVIOUS
  <2>1. CASE Edit \/ Scan \/ UNCHANGED vars
    BY <2>1, WorldKeeps
  <2>2. ASSUME NEW p \in Procs, Step(p) PROVE IInv'
    BY <2>2, RestKeeps, ImportKeeps, BeginTxKeeps, StartKeeps, CollectKeeps, GatherKeeps, CommitKeeps, DieKeeps
       DEF Step
  <2> QED BY <2>1, <2>2 DEF Next
<1> QED BY <1>1, InitIInv, PTL DEF Spec

\* The state keeps its type: a database of the providers' rows, in which only the
\* process that has the write lock has a transaction.
THEOREM TypeCorrect == Spec => []TypeOK
<1>1. ASSUME NEW d, DbFine(d) PROVE IsDb(d)
  BY <1>1, TwoProviders DEF DbFine, RowsFine, IsDb
<1>2. IInv => TypeOK
  <2> SUFFICES ASSUME IInv PROVE TypeOK
    OBVIOUS
  <2>1. ASSUME NEW p \in Procs
        PROVE /\ proc[p].at \in Stages
              /\ proc[p].at \in {"start", "collect", "commit"} <=> writer = p
              /\ writer = p => IsDb(proc[p].tx)
    <3>1. Fine(p, proc[p])
      BY DEF IInv
    <3> QED BY <1>1, <3>1 DEF Fine, Writing
  <2> QED BY <1>1, <2>1 DEF IInv, Frame, Spent, TypeOK
<1> QED BY <1>2, Invariant, PTL

\* Reuse is only faster: without a source that was read under a hash not its own, a
\* refresh returns for each path what collecting everything anew returns.
THEOREM ReuseIsCollectingHolds == Spec => []ReuseIsCollecting
<1>1. IInv => ReuseIsCollecting
  BY DEF IInv, Fine, OutFine, FirstFine, SecondFine, ReuseIsCollecting, Results
<1> QED BY <1>1, Invariant, PTL

\* Until an import crosses a refresh, what a process returns of the second provider was
\* collected by its own release, whatever the other releases have stored.
THEOREM RowsAreOfTheReleaseHolds == Spec => []RowsAreOfTheRelease
<1>1. IInv => RowsAreOfTheRelease
  BY DEF IInv, Fine, OutFine, SecondFine, RowsAreOfTheRelease
<1> QED BY <1>1, Invariant, PTL

\* Every candidate is accounted for once, under the limits of any request: what either
\* provider emitted is accepted, a duplicate or cut, whichever rows were reused, and no
\* edge that is added to the graph dangles.
THEOREM LedgersConserveHolds == Spec => []LedgersConserve
<1>1. ASSUME IInv, NEW r \in Results, NEW request \in Requests,
             NEW batches \in {Batches(r, request)}, NEW graphed \in {Applied(r.graph, request.known, batches)}
      PROVE /\ \A e \in graphed.edges \ request.known : {e[1], e[2]} \subseteq graphed.nodes
            /\ \A k \in DOMAIN batches : \A x \in {graphed.receipts[k]} : Settled(x)
  <2>1. ReturnedFine(r)
    BY <1>1, ReturnedIsFine
  <2>2. r.graph \in SUBSET Paths /\ DOMAIN r.out = 1 .. 2
    <3>1. PICK a, b : r.out = <<a, b>>
      BY <2>1 DEF ReturnedFine
    <3>2. DOMAIN <<a, b>> = 1 .. 2
      OBVIOUS
    <3> QED BY <2>1, <3>1, <3>2 DEF ReturnedFine
  <2>3. /\ batches = [k \in 1 .. 2 |-> batches[k]] /\ DOMAIN batches = 1 .. 2
        /\ \A k \in 1 .. 2 : batches[k] = SqliteBatch(k, r.out[k], request)
    BY <2>2 DEF Batches
  <2>4. ASSUME NEW k \in 1 .. 2 PROVE Balanced(batches[k], GraphIds(r.graph))
    <3>1. RowsBalanced(r.out[k], GraphIds(r.graph))
      <4>1. k = 1 \/ k = 2
        OBVIOUS
      <4> QED BY <2>1, <4>1 DEF ReturnedFine
    <3>2. Balanced(SqliteBatch(k, r.out[k], request), GraphIds(r.graph))
      BY <3>1, SqliteFacts
    <3> QED BY <2>3, <3>2
  <2>5. IsFiniteSet(request.known)
    BY RequestAssumption
  <2>6. AppliedIsSettled(graphed, request.known)
    BY <2>2, <2>3, <2>4, <2>5, AppliedFacts
  <2>7. PICK x, y : Settled(x) /\ Settled(y) /\ graphed.receipts = <<x, y>>
    BY <2>6 DEF AppliedIsSettled
  <2>8. \A k \in 1 .. 2 : Settled(graphed.receipts[k])
    <3>1. \A k \in 1 .. 2 : k = 1 \/ k = 2
      OBVIOUS
    <3>2. graphed.receipts[1] = x /\ graphed.receipts[2] = y
      BY <2>7
    <3> QED BY <2>7, <3>1, <3>2
  <2>9. \A e \in graphed.edges \ request.known : e[1] \in graphed.nodes /\ e[2] \in graphed.nodes
    BY <2>6 DEF AppliedIsSettled
  <2> QED BY <2>3, <2>8, <2>9
<1>2. IInv => LedgersConserve
  BY <1>1 DEF LedgersConserve, Settled
<1> QED BY <1>2, Invariant, PTL

\* Whatever rows a refresh returns, the store that stops reading when the limits are
\* spent and the one that reads everything return the same nodes, and no path is
\* served before the preferred ones have been in full.
THEOREM LimitsAreSpentInOrderHolds == Spec => []LimitsAreSpentInOrder
<1>1. ASSUME IInv, NEW r \in Results, NEW request \in Requests
      PROVE  SpentIs(r.out[2], Range(request.preferred),
                     SqliteBatch(2, r.out[2], request), JsonBatch(2, r.out[2], request))
  <2>1. ReturnedFine(r)
    BY <1>1, ReturnedIsFine
  <2>2. PICK rows : rows = r.out[2]
    OBVIOUS
  <2>3. /\ RowsBalanced(rows, GraphIds(r.graph))
        /\ \A key \in DOMAIN rows : \A x \in Range(BatchOf(key, rows[key]).nodes) : x[1] = key
    BY <2>1, <2>2 DEF ReturnedFine
  <2>4. SpentIs(rows, Range(request.preferred), SqliteBatch(2, rows, request), JsonBatch(2, rows, request))
    BY <2>3, SpentFacts
  <2> QED BY <2>2, <2>4
<1>2. IInv => LimitsAreSpentInOrder
  BY <1>1 DEF LimitsAreSpentInOrder, SpentIs
<1> QED BY <1>2, Invariant, PTL
=============================================================================
