------------------------- MODULE GraphLoadCacheProofs -------------------------
(***************************************************************************)
(* Theorems about GraphLoadCache, for every set of loaders and writers and *)
(* every number of commits and writes: an entry under the current          *)
(* fingerprint is what the files hold, and a load gives what was visible.  *)
(***************************************************************************)
EXTENDS GraphLoadCache, TLAPS

-----------------------------------------------------------------------------
\* A rewrite is between its rename and its unlink.
Replacing == \E w \in Writers : writer[w].at = "replaced"

\* What holds of the two files: a sidecar that is older than the base, and not gone,
\* is about to go.
Files ==
  /\ base.stamp <= clock /\ sidecar.stamp <= clock /\ base.stamp # sidecar.stamp
  /\ sidecar.stamp = 0 => sidecar.records = {}
  /\ 0 < sidecar.stamp /\ sidecar.stamp < base.stamp => Replacing
  /\ ~exposed /\ Replacing => sidecar.stamp < base.stamp

\* A fingerprint that was taken: it is current now, or never again.
Taken(print) ==
  /\ print[1] <= base.stamp /\ print[2] <= clock
  /\ ~exposed /\ Replacing /\ print = <<base.stamp, 0>> => sidecar.stamp = 0

\* The graph of a local writer that nobody overtook.
Writing(w) ==
  /\ writer[w].at = "computed" => writer[w].commit # 0
  /\ writer[w].at = "saved" => w \in Local
  /\ ~exposed /\ w \in Local /\ ~writer[w].overtaken =>
       /\ writer[w].at = "computed" => writer[w].graph = Visible \union {writer[w].commit}
       /\ writer[w].at = "replaced" /\ writer[w].commit # 0 => writer[w].graph = base.graph
       /\ writer[w].at = "saved" => writer[w].graph = Visible

Caching == Taken(cache.print) /\ HitsAreCurrent

\* What a loader with local variables r has, and owes.
Reading(r) ==
  /\ r.print[1] <= base.stamp
  /\ r.at # "stat" => Taken(r.print)
  /\ r.at \in {"sidecar", "replay"} /\ r.print[1] = base.stamp => r.graph = base.graph
  /\ ~exposed /\ r.at = "replay" /\ r.print = Current => sidecar.stamp > base.stamp
  /\ ~exposed /\ r.at = "store" /\ r.print = Current => r.graph = Visible
  /\ ~exposed /\ r.owed # {} =>
       /\ r.at \notin {"idle", "done"} => r.print[1] = base.stamp /\ r.owed \subseteq Visible
       /\ r.at \in {"store", "done"} => r.owed \subseteq r.graph
       /\ r.at = "lookup" /\ r.print = cache.print => r.owed \subseteq cache.graph

\* What a loader is about to store has what another owes that will find it.
Providing(r, s) ==
  ~exposed /\ r.owed # {} /\ r.at = "lookup" /\ s.at = "store" /\ r.print = s.print =>
    r.owed \subseteq s.graph

IInv ==
  /\ TypeOK
  /\ Files
  /\ \A w \in Writers : Writing(w)
  /\ Caching
  /\ \A l \in Loaders : Reading(loader[l])
  /\ \A l, m \in Loaders : Providing(loader[l], loader[m])
-----------------------------------------------------------------------------
\* What the two files hold is a graph; what nobody does has its type.
LEMMA VisibleTyped == TypeOK => Visible \in Graph
  BY DEF TypeOK, Visible, Graph

LEMMA IdleTyped == IdleWriter \in Save /\ IdleLoader \in Read /\ NoPrint \in Fingerprint
  <1>1. IdleWriter \in Save
    BY BoundAssumption DEF IdleWriter, Save, Graph
  <1>2. NoPrint \in Fingerprint
    BY BoundAssumption DEF NoPrint, Fingerprint, Stamp
  <1>3. IdleLoader \in Read
    BY <1>2 DEF IdleLoader, Read, Graph
  <1> QED BY <1>1, <1>2, <1>3

\* The invariant holds of a store that has just been written, and of nothing loaded.
LEMMA InvariantInit == Init => IInv
  <1> SUFFICES ASSUME Init PROVE IInv OBVIOUS
  <1>1. base.stamp = 1 /\ base.graph = {} /\ sidecar.stamp = 0 /\ sidecar.records = {} /\ clock = 1
    BY DEF Init
  <1>2. cache.print = NoPrint /\ cache.graph = {} /\ NoPrint[1] = 0 /\ NoPrint[2] = 0
    BY DEF Init, NoPrint
  <1>3. \A w \in Writers : writer[w] = IdleWriter /\ writer[w].at = "idle"
    BY DEF Init, IdleWriter
  <1>4. \A l \in Loaders : /\ loader[l].at = "idle" /\ loader[l].print = NoPrint
                           /\ loader[l].owed = {}
    BY DEF Init, IdleLoader
  <1>5. TypeOK
    <2>1. writer \in [Writers -> Save] /\ loader \in [Loaders -> Read]
      BY IdleTyped DEF Init
    <2>2. base \in [stamp : Stamp \ {0}, graph : Graph] /\ sidecar \in [stamp : Stamp, records : Graph]
      BY BoundAssumption DEF Init, Stamp, Graph
    <2>3. cache \in [print : Fingerprint, graph : Graph]
      BY IdleTyped DEF Init, Graph
    <2>4. clock \in Stamp /\ commits \in 0 .. MaxCommits
      BY BoundAssumption DEF Init, Stamp
    <2>5. exposed \in BOOLEAN
      BY DEF Init
    <2> QED BY <2>1, <2>2, <2>3, <2>4, <2>5 DEF TypeOK
  <1>6. Files /\ \A w \in Writers : Writing(w)
    BY <1>1, <1>3 DEF Files, Writing, Replacing
  <1>7. Taken(NoPrint) /\ NoPrint # Current
    BY <1>1, <1>2 DEF Taken, Current
  <1>8. Caching
    BY <1>2, <1>7 DEF Caching, HitsAreCurrent, CurrentEntryIsCurrent
  <1>9. ASSUME NEW l \in Loaders PROVE Reading(loader[l])
    <2>1. loader[l].print[1] <= base.stamp /\ Taken(loader[l].print)
      BY <1>1, <1>2, <1>4, <1>7
    <2>2. loader[l].at = "idle" /\ loader[l].owed = {}
      BY <1>4
    <2> QED BY <2>1, <2>2 DEF Reading
  <1>10. \A l, m \in Loaders : Providing(loader[l], loader[m])
    BY <1>4 DEF Providing
  <1> QED BY <1>5, <1>6, <1>8, <1>9, <1>10 DEF IInv

\* What the invariant claims of the cache.
LEMMA InvariantImplies == IInv => HitsAreCurrent /\ LoadKeepsCommits
  BY DEF IInv, Caching, Reading, LoadKeepsCommits

-----------------------------------------------------------------------------
\* A step of one loader that leaves the files and the cache alone.
LEMMA LoaderStep ==
  ASSUME IInv, NEW l \in Loaders, NEW new \in Read, loader' = [loader EXCEPT ![l] = new],
         UNCHANGED <<World, cache>>, Reading(new), Providing(new, new),
         \A m \in Loaders \ {l} : Providing(new, loader[m]) /\ Providing(loader[m], new)
  PROVE  IInv'
  <1>1. UNCHANGED <<base, sidecar, clock, commits, writer, exposed, cache>>
    BY DEF World
  <1>2. loader'[l] = new /\ \A m \in Loaders \ {l} : loader'[m] = loader[m]
    BY DEF IInv, TypeOK
  <1>3. TypeOK'
    BY <1>1 DEF IInv, TypeOK
  <1>4. Files' /\ Caching' /\ \A w \in Writers : Writing(w)'
    BY <1>1 DEF IInv, Files, Caching, Writing, Replacing, Taken, Visible, Current, HitsAreCurrent,
                CurrentEntryIsCurrent
  <1>5. \A m \in Loaders : Reading(loader[m])'
    <2> SUFFICES ASSUME NEW m \in Loaders PROVE Reading(loader[m])' OBVIOUS
    <2>1. Reading(loader'[m])
      BY <1>2 DEF IInv
    <2> QED BY <1>1, <2>1 DEF Reading, Taken, Replacing, Visible, Current
  <1>6. \A m, n \in Loaders : Providing(loader[m], loader[n])'
    <2> SUFFICES ASSUME NEW m \in Loaders, NEW n \in Loaders PROVE Providing(loader[m], loader[n])'
      OBVIOUS
    <2>1. Providing(loader'[m], loader'[n])
      BY <1>2 DEF IInv
    <2> QED BY <1>1, <2>1 DEF Providing
  <1> QED BY <1>3, <1>4, <1>5, <1>6 DEF IInv

\* A loader that neither finds the cache nor fills it.
LEMMA QuietStep ==
  ASSUME IInv, NEW l \in Loaders, NEW new \in Read, loader' = [loader EXCEPT ![l] = new],
         UNCHANGED <<World, cache>>, Reading(new), new.at \notin {"lookup", "store"}
  PROVE  IInv'
  <1>1. Providing(new, new) /\ \A m \in Loaders : Providing(new, loader[m]) /\ Providing(loader[m], new)
    BY DEF Providing
  <1> QED BY <1>1, LoaderStep

\* The files and what the invariant says of them, in a loader's words.
LEMMA Facts ==
  ASSUME IInv, NEW l \in Loaders
  PROVE  /\ loader[l] \in Read /\ Reading(loader[l]) /\ loader[l].print \in Fingerprint
         /\ loader[l].graph \in Graph /\ loader[l].owed \in Graph
         /\ base.stamp \in Nat \ {0} /\ sidecar.stamp \in Nat /\ clock \in Nat
         /\ base.stamp \in Stamp /\ sidecar.stamp \in Stamp
         /\ base.graph \in Graph /\ sidecar.records \in Graph /\ Visible \in Graph
         /\ cache.print \in Fingerprint /\ cache.graph \in Graph
         /\ Files /\ Caching
  BY VisibleTyped, BoundAssumption DEF IInv, TypeOK, Read, Stamp

\* A loader's steps keep the invariant.
LEMMA LoadStep ==
  ASSUME IInv, NEW l \in Loaders, Load(l) PROVE IInv'
  <1>1. /\ loader[l] \in Read /\ Reading(loader[l]) /\ loader[l].print \in Fingerprint
        /\ loader[l].graph \in Graph /\ loader[l].owed \in Graph
        /\ base.stamp \in Nat \ {0} /\ sidecar.stamp \in Nat /\ clock \in Nat
        /\ base.stamp \in Stamp /\ sidecar.stamp \in Stamp
        /\ base.graph \in Graph /\ sidecar.records \in Graph /\ Visible \in Graph
        /\ cache.print \in Fingerprint /\ cache.graph \in Graph
        /\ Files /\ Caching
    BY Facts
  <1>2. IdleLoader \in Read /\ Reading(IdleLoader)
    <2>1. Taken(NoPrint) /\ NoPrint[1] = 0
      BY <1>1 DEF Taken, NoPrint
    <2> QED BY <1>1, <2>1, IdleTyped DEF IdleLoader, Reading
  <1>3. CASE StatBase(l)
    <2> DEFINE new == [IdleLoader EXCEPT !.at = "stat", !.print = <<base.stamp, 0>>, !.owed = Visible]
    <2>1. loader' = [loader EXCEPT ![l] = new] /\ UNCHANGED <<World, cache>>
      BY <1>3 DEF StatBase
    <2>2. <<base.stamp, 0>> \in Fingerprint
      BY <1>1, BoundAssumption DEF Fingerprint, Stamp
    <2>3. new \in Read /\ new.at = "stat" /\ new.print = <<base.stamp, 0>> /\ new.owed = Visible
      BY <1>1, <2>2, IdleTyped DEF IdleLoader, Read
    <2> HIDE DEF new
    <2>4. Reading(new)
      BY <1>1, <2>3 DEF Reading
    <2> QED BY <2>1, <2>3, <2>4, QuietStep
  <1>4. CASE StatSidecar(l)
    <2> DEFINE print == <<loader[l].print[1], sidecar.stamp>>
               new == [loader[l] EXCEPT !.at = "lookup", !.print = print]
    <2>1. loader' = [loader EXCEPT ![l] = new] /\ UNCHANGED <<World, cache>> /\ loader[l].at = "stat"
      BY <1>1, <1>4 DEF StatSidecar, At, IInv, TypeOK
    <2>2. print \in Fingerprint /\ print[1] = loader[l].print[1] /\ print[2] = sidecar.stamp
      BY <1>1 DEF Fingerprint
    <2>3. /\ new \in Read /\ new.at = "lookup" /\ new.print = print
          /\ new.owed = loader[l].owed /\ new.graph = loader[l].graph
      BY <1>1, <2>2 DEF Read
    <2>4. Taken(print)
      BY <1>1, <2>2 DEF Taken, Files, Reading
    <2>5. ~exposed /\ new.owed # {} => print = Current /\ new.owed \subseteq Visible
      BY <1>1, <2>1, <2>3 DEF Reading, Current
    <2> HIDE DEF new, print
    <2>6. Reading(new)
      BY <1>1, <2>2, <2>3, <2>4, <2>5 DEF Reading, Caching, HitsAreCurrent, CurrentEntryIsCurrent, Current
    <2>7. \A m \in Loaders : Providing(new, loader[m]) /\ Providing(loader[m], new)
      BY <2>3, <2>5 DEF Providing, IInv, Reading
    <2>8. Providing(new, new)
      BY <2>3 DEF Providing
    <2> QED BY <2>1, <2>3, <2>6, <2>7, <2>8, LoaderStep
  <1>5. CASE Hit(l)
    <2> DEFINE new == [loader[l] EXCEPT !.at = "done", !.print = NoPrint, !.graph = cache.graph]
    <2>1. /\ loader' = [loader EXCEPT ![l] = new] /\ UNCHANGED <<World, cache>>
          /\ loader[l].at = "lookup" /\ loader[l].print = cache.print
      BY <1>1, <1>5 DEF Hit, At, IInv, TypeOK
    <2>2. /\ new \in Read /\ new.at = "done" /\ new.print = NoPrint
          /\ new.owed = loader[l].owed /\ new.graph = cache.graph
      BY <1>1, IdleTyped DEF Read
    <2>3. Taken(NoPrint) /\ NoPrint[1] = 0
      BY <1>1 DEF Taken, NoPrint
    <2> HIDE DEF new
    <2>4. Reading(new)
      BY <1>1, <2>1, <2>2, <2>3 DEF Reading
    <2> QED BY <2>1, <2>2, <2>4, QuietStep
  <1>6. CASE Miss(l)
    <2> DEFINE new == [loader[l] EXCEPT !.at = "base"]
    <2>1. /\ loader' = [loader EXCEPT ![l] = new] /\ UNCHANGED <<World, cache>>
          /\ loader[l].at = "lookup"
      BY <1>1, <1>6 DEF Miss, At, IInv, TypeOK
    <2>2. /\ new \in Read /\ new.at = "base" /\ new.print = loader[l].print
          /\ new.owed = loader[l].owed
      BY <1>1 DEF Read
    <2> HIDE DEF new
    <2>3. Reading(new)
      BY <1>1, <2>1, <2>2 DEF Reading
    <2> QED BY <2>1, <2>2, <2>3, QuietStep
  <1>7. CASE ReadBase(l)
    <2> DEFINE new == [loader[l] EXCEPT !.at = "sidecar", !.graph = base.graph]
    <2>1. /\ loader' = [loader EXCEPT ![l] = new] /\ UNCHANGED <<World, cache>>
          /\ loader[l].at = "base"
      BY <1>1, <1>7 DEF ReadBase, At, IInv, TypeOK
    <2>2. /\ new \in Read /\ new.at = "sidecar" /\ new.print = loader[l].print
          /\ new.owed = loader[l].owed /\ new.graph = base.graph
      BY <1>1 DEF Read
    <2> HIDE DEF new
    <2>3. Reading(new)
      BY <1>1, <2>1, <2>2 DEF Reading
    <2> QED BY <2>1, <2>2, <2>3, QuietStep
  <1>8. CASE SkipSidecar(l)
    <2> DEFINE new == [loader[l] EXCEPT !.at = "store"]
    <2>1. /\ loader' = [loader EXCEPT ![l] = new] /\ UNCHANGED <<World, cache>>
          /\ loader[l].at = "sidecar" /\ sidecar.stamp < base.stamp
      BY <1>1, <1>8 DEF SkipSidecar, At, IInv, TypeOK
    <2>2. /\ new \in Read /\ new.at = "store" /\ new.print = loader[l].print
          /\ new.owed = loader[l].owed /\ new.graph = loader[l].graph
      BY <1>1 DEF Read
    <2> HIDE DEF new
    <2>3. new.print[1] = base.stamp => new.graph = Visible
      BY <1>1, <2>1, <2>2 DEF Reading, Visible
    <2>4. Reading(new)
      BY <1>1, <2>1, <2>2, <2>3 DEF Reading, Current
    <2>5. \A m \in Loaders : Providing(new, loader[m]) /\ Providing(loader[m], new)
      BY <2>2, <2>3 DEF Providing, IInv, Reading
    <2>6. Providing(new, new)
      BY <2>2 DEF Providing
    <2> QED BY <2>1, <2>2, <2>4, <2>5, <2>6, LoaderStep
  <1>9. CASE TakeSidecar(l)
    <2> DEFINE new == [loader[l] EXCEPT !.at = "replay"]
    <2>1. /\ loader' = [loader EXCEPT ![l] = new] /\ UNCHANGED <<World, cache>>
          /\ loader[l].at = "sidecar" /\ sidecar.stamp >= base.stamp
      BY <1>1, <1>9 DEF TakeSidecar, At, IInv, TypeOK
    <2>2. /\ new \in Read /\ new.at = "replay" /\ new.print = loader[l].print
          /\ new.owed = loader[l].owed /\ new.graph = loader[l].graph
      BY <1>1 DEF Read
    <2> HIDE DEF new
    <2>3. Reading(new)
      BY <1>1, <2>1, <2>2 DEF Reading, Files
    <2> QED BY <2>1, <2>2, <2>3, QuietStep
  <1>10. CASE Replay(l)
    <2> DEFINE whole == loader[l].graph \union sidecar.records
               new == [loader[l] EXCEPT !.at = "store", !.graph = whole]
    <2>1. /\ loader' = [loader EXCEPT ![l] = new] /\ UNCHANGED <<World, cache>>
          /\ loader[l].at = "replay"
      BY <1>1, <1>10 DEF Replay, At, IInv, TypeOK
    <2>2. whole \in Graph
      BY <1>1 DEF Graph
    <2>3. /\ new \in Read /\ new.at = "store" /\ new.print = loader[l].print
          /\ new.owed = loader[l].owed /\ new.graph = whole
      BY <1>1, <2>2 DEF Read
    <2>4. new.print[1] = base.stamp => Visible \subseteq whole
      BY <1>1, <2>1, <2>3 DEF Reading, Visible
    <2>5. ~exposed /\ new.print = Current => whole = Visible
      BY <1>1, <2>1, <2>3 DEF Reading, Visible, Current
    <2> HIDE DEF new, whole
    <2>6. Reading(new)
      BY <1>1, <2>1, <2>3, <2>4, <2>5 DEF Reading
    <2>7. \A m \in Loaders : Providing(new, loader[m]) /\ Providing(loader[m], new)
      BY <2>3, <2>4 DEF Providing, IInv, Reading
    <2>8. Providing(new, new)
      BY <2>3 DEF Providing
    <2> QED BY <2>1, <2>3, <2>6, <2>7, <2>8, LoaderStep
  <1>11. CASE ReplayFails(l) \/ Return(l)
    <2>1. loader' = [loader EXCEPT ![l] = IdleLoader] /\ UNCHANGED <<World, cache>>
      BY <1>11 DEF ReplayFails, Return
    <2> QED BY <1>2, <2>1, QuietStep DEF IdleLoader
  <1>12. CASE Store(l)
    <2> DEFINE new == [loader[l] EXCEPT !.at = "done", !.print = NoPrint]
    <2>1. /\ loader' = [loader EXCEPT ![l] = new] /\ UNCHANGED World /\ loader[l].at = "store"
          /\ cache' = [print |-> loader[l].print, graph |-> loader[l].graph]
      BY <1>1, <1>12 DEF Store, At, IInv, TypeOK
    <2>2. /\ new \in Read /\ new.at = "done" /\ new.print = NoPrint
          /\ new.owed = loader[l].owed /\ new.graph = loader[l].graph
      BY <1>1, IdleTyped DEF Read
    <2> HIDE DEF new
    <2>3. /\ UNCHANGED <<base, sidecar, clock, commits, writer, exposed>>
          /\ cache'.print = loader[l].print /\ cache'.graph = loader[l].graph
          /\ loader'[l] = new /\ \A m \in Loaders \ {l} : loader'[m] = loader[m]
      BY <2>1 DEF World, IInv, TypeOK
    <2>4. TypeOK'
      BY <1>1, <2>1, <2>2, <2>3 DEF IInv, TypeOK
    <2>5. Files' /\ \A w \in Writers : Writing(w)'
      BY <2>3 DEF IInv, Files, Writing, Replacing, Visible
    <2>6. Caching'
      BY <1>1, <2>1, <2>3 DEF Caching, Reading, Taken, Replacing, Visible, Current, HitsAreCurrent,
                             CurrentEntryIsCurrent
    <2>7. Reading(loader[l])'
      <3>1. Taken(NoPrint) /\ NoPrint[1] = 0
        BY <1>1 DEF Taken, NoPrint
      <3>2. Taken(NoPrint)'
        BY <2>3, <3>1 DEF Taken, Replacing, NoPrint
      <3> QED BY <1>1, <2>1, <2>2, <2>3, <3>1, <3>2 DEF Reading
    <2>8. ASSUME NEW m \in Loaders \ {l} PROVE Reading(loader[m])'
      <3>1. Reading(loader[m]) /\ Providing(loader[m], loader[l])
        BY DEF IInv
      <3> QED BY <2>1, <2>3, <3>1 DEF Reading, Providing, Taken, Replacing, Visible, Current
    <2>9. \A m, n \in Loaders : Providing(loader[m], loader[n])'
      BY <2>2, <2>3 DEF IInv, Providing
    <2> QED BY <2>4, <2>5, <2>6, <2>7, <2>8, <2>9 DEF IInv
  <1> QED BY <1>3, <1>4, <1>5, <1>6, <1>7, <1>8, <1>9, <1>10, <1>11, <1>12 DEF Load
-----------------------------------------------------------------------------
\* What Advance and Disturb make of the writers and the loaders.
LEMMA AdvanceTyped ==
  ASSUME TypeOK, NEW w \in Writers, NEW stage \in Save, Advance(w, stage)
  PROVE  writer' \in [Writers -> Save]
  <1>1. \A v \in Writers : [writer[v] EXCEPT !.overtaken = v \in Local /\ writer[v].at # "idle"] \in Save
    <2> TAKE v \in Writers
    <2> DEFINE late == v \in Local /\ writer[v].at # "idle"
    <2>1. late \in BOOLEAN
      OBVIOUS
    <2> HIDE DEF late
    <2>2. [writer[v] EXCEPT !.overtaken = late] \in Save
      BY <2>1 DEF TypeOK, Save
    <2> QED BY <2>2 DEF late
  <1> QED BY <1>1 DEF Advance

LEMMA AdvanceFields ==
  ASSUME TypeOK, NEW w \in Writers, NEW stage \in Save, Advance(w, stage)
  PROVE  /\ writer'[w] = stage
         /\ \A v \in Writers \ {w} : /\ writer'[v].at = writer[v].at
                                     /\ writer'[v].commit = writer[v].commit
                                     /\ writer'[v].overtaken = (v \in Local /\ writer[v].at # "idle")
  <1>1. writer'[w] = stage
    BY DEF Advance
  <1>2. ASSUME NEW v \in Writers \ {w}
        PROVE  /\ writer'[v].at = writer[v].at
               /\ writer'[v].commit = writer[v].commit
               /\ writer'[v].overtaken = (v \in Local /\ writer[v].at # "idle")
    <2> DEFINE late == v \in Local /\ writer[v].at # "idle"
    <2>1. writer'[v] = [writer[v] EXCEPT !.overtaken = late] /\ writer[v] \in Save
      BY DEF Advance, TypeOK
    <2> HIDE DEF late
    <2>2. writer'[v].at = writer[v].at /\ writer'[v].commit = writer[v].commit
          /\ writer'[v].overtaken = late
      BY <2>1 DEF Save
    <2> QED BY <2>2 DEF late
  <1> QED BY <1>1, <1>2

LEMMA DisturbFields ==
  ASSUME TypeOK, Disturb
  PROVE  /\ loader' \in [Loaders -> Read]
         /\ \A l \in Loaders : /\ loader'[l].owed = {} /\ loader'[l].at = loader[l].at
                               /\ loader'[l].print = loader[l].print
                               /\ loader'[l].graph = loader[l].graph
  <1>1. \A l \in Loaders : [loader[l] EXCEPT !.owed = {}] \in Read
    BY DEF TypeOK, Read, Graph
  <1>2. ASSUME NEW l \in Loaders
        PROVE  /\ loader'[l].owed = {} /\ loader'[l].at = loader[l].at
               /\ loader'[l].print = loader[l].print /\ loader'[l].graph = loader[l].graph
    <2>1. loader'[l] = [loader[l] EXCEPT !.owed = {}] /\ loader[l] \in Read
      BY DEF Disturb, TypeOK
    <2> QED BY <2>1 DEF Read
  <1> QED BY <1>1, <1>2 DEF Disturb

\* The files and the cache, in a writer's words.
LEMMA StoreFacts ==
  ASSUME IInv
  PROVE  /\ base.stamp \in Nat \ {0} /\ sidecar.stamp \in Nat /\ clock \in Nat
         /\ base.graph \in Graph /\ sidecar.records \in Graph /\ Visible \in Graph
         /\ cache.print \in Fingerprint /\ cache.graph \in Graph
         /\ cache.print[1] \in Nat /\ cache.print[2] \in Nat
         /\ \A l \in Loaders : /\ loader[l].print[1] \in Nat /\ loader[l].print[2] \in Nat
                               /\ Reading(loader[l])
         /\ \A w \in Writers : writer[w] \in Save /\ Writing(w)
         /\ TypeOK /\ Files /\ Caching
  <1>1. TypeOK /\ Stamp \subseteq Nat
    BY BoundAssumption DEF IInv, Stamp
  <1>2. \A print \in Fingerprint : print[1] \in Nat /\ print[2] \in Nat
    BY <1>1 DEF Fingerprint
  <1>3. \A l \in Loaders : loader[l].print \in Fingerprint
    BY <1>1 DEF TypeOK, Read
  <1>4. cache.print \in Fingerprint
    BY <1>1 DEF TypeOK
  <1> QED BY <1>1, <1>2, <1>3, <1>4, VisibleTyped DEF IInv, TypeOK

\* A writer that computes its graph changes nothing that others see.
LEMMA ComputeStep ==
  ASSUME IInv, NEW w \in Writers, NEW new \in Save, writer' = [writer EXCEPT ![w] = new],
         UNCHANGED <<base, sidecar, clock, cache, loader, exposed>>, commits' \in 0 .. MaxCommits,
         writer[w].at # "replaced", new.at # "replaced", Writing(w)'
  PROVE  IInv'
  <1>1. TypeOK'
    BY DEF IInv, TypeOK
  <1>2. writer'[w] = new /\ \A v \in Writers \ {w} : writer'[v] = writer[v]
    BY DEF IInv, TypeOK
  <1>3. Replacing' = Replacing
    BY <1>2 DEF Replacing
  <1>4. Files' /\ Caching'
    BY <1>3 DEF IInv, Files, Caching, Taken, Visible, Current, HitsAreCurrent, CurrentEntryIsCurrent
  <1>5. ASSUME NEW v \in Writers \ {w} PROVE Writing(v)'
    <2>1. Writing(v) /\ writer'[v] = writer[v]
      BY <1>2 DEF IInv
    <2> QED BY <2>1 DEF Writing, Visible
  <1>6. \A l \in Loaders : Reading(loader[l])'
    BY <1>3 DEF IInv, Reading, Taken, Visible, Current
  <1>7. \A l, m \in Loaders : Providing(loader[l], loader[m])'
    BY DEF IInv, Providing
  <1> QED BY <1>1, <1>4, <1>5, <1>6, <1>7 DEF IInv

\* A new base: no fingerprint taken so far will be that of the files again.
LEMMA RewriteStep ==
  ASSUME IInv, NEW w \in Writers, NEW stage \in Save, NEW g \in Graph,
         Tick, base' = [stamp |-> clock', graph |-> g], Advance(w, stage), Disturb,
         UNCHANGED <<sidecar, commits, cache, exposed>>,
         stage.at = "replaced", stage.commit # 0 => stage.graph = g
  PROVE  IInv'
  <1>1. /\ base.stamp \in Nat \ {0} /\ sidecar.stamp \in Nat /\ clock \in Nat
        /\ cache.print[1] \in Nat /\ cache.print[2] \in Nat
        /\ \A l \in Loaders : /\ loader[l].print[1] \in Nat /\ loader[l].print[2] \in Nat
                              /\ Reading(loader[l])
        /\ \A v \in Writers : writer[v] \in Save /\ Writing(v)
        /\ TypeOK /\ Files /\ Caching
    BY StoreFacts
  <1>2. /\ clock' = clock + 1 /\ base'.stamp = clock + 1 /\ base'.graph = g
        /\ sidecar' = sidecar /\ cache' = cache /\ exposed' = exposed
    BY DEF Tick
  <1>3. /\ writer'[w] = stage
        /\ \A v \in Writers \ {w} : /\ writer'[v].at = writer[v].at
                                    /\ writer'[v].commit = writer[v].commit
                                    /\ writer'[v].overtaken = (v \in Local /\ writer[v].at # "idle")
    BY <1>1, AdvanceFields
  <1>4. /\ loader' \in [Loaders -> Read]
        /\ \A l \in Loaders : /\ loader'[l].owed = {} /\ loader'[l].at = loader[l].at
                              /\ loader'[l].print = loader[l].print
                              /\ loader'[l].graph = loader[l].graph
    BY <1>1, DisturbFields
  <1>5. TypeOK'
    <2>1. clock' \in Stamp \ {0}
      BY <1>1, BoundAssumption DEF Tick, Stamp
    <2>2. writer' \in [Writers -> Save]
      BY <1>1, AdvanceTyped
    <2> QED BY <1>1, <1>4, <2>1, <2>2 DEF TypeOK
  <1>6. Replacing'
    BY <1>3 DEF Replacing
  <1>7. Files'
    BY <1>1, <1>2, <1>6 DEF Files
  <1>8. \A v \in Writers : Writing(v)'
    <2>1. Writing(w)'
      BY <1>2, <1>3 DEF Writing
    <2>2. ASSUME NEW v \in Writers \ {w} PROVE Writing(v)'
      <3>1. Writing(v) /\ writer'[v].at = writer[v].at /\ writer'[v].commit = writer[v].commit
            /\ writer'[v].overtaken = (v \in Local /\ writer[v].at # "idle")
        BY <1>1, <1>3
      <3>2. v \in Local /\ ~writer'[v].overtaken => writer'[v].at = "idle"
        BY <3>1
      <3> QED BY <3>1, <3>2 DEF Writing
    <2> QED BY <2>1, <2>2
  <1>9. ASSUME NEW print, Taken(print), print[1] \in Nat, print[2] \in Nat
        PROVE  Taken(print)' /\ print # Current' /\ print[1] < base'.stamp
    <2>1. print[1] < base'.stamp /\ print[2] <= clock'
      BY <1>1, <1>2, <1>9 DEF Taken, Files
    <2>2. print # <<base'.stamp, 0>> /\ print # Current'
      BY <2>1, <1>1, <1>2 DEF Current
    <2>3. print[1] <= base'.stamp
      <3>1. base'.stamp \in Nat /\ print[1] \in Nat
        BY <1>1, <1>2, <1>9
      <3> QED BY <2>1, <3>1
    <2>4. Taken(print)'
      BY <2>1, <2>2, <2>3 DEF Taken
    <2> QED BY <2>1, <2>2, <2>4
  <1>10. Caching'
    BY <1>1, <1>2, <1>9 DEF Caching, HitsAreCurrent, CurrentEntryIsCurrent
  <1>11. ASSUME NEW l \in Loaders PROVE Reading(loader[l])'
    <2>1. /\ Reading(loader[l]) /\ loader'[l].owed = {} /\ loader'[l].at = loader[l].at
          /\ loader'[l].print = loader[l].print /\ loader'[l].graph = loader[l].graph
      BY <1>1, <1>4
    <2>2. loader[l].print[1] < base'.stamp
      BY <1>1, <1>2, <2>1 DEF Reading, Files
    <2>3. loader[l].at # "stat" => Taken(loader[l].print)' /\ loader[l].print # Current'
      BY <1>1, <1>9, <2>1 DEF Reading
    <2> QED BY <1>1, <1>2, <2>1, <2>2, <2>3 DEF Reading
  <1>12. \A l, m \in Loaders : Providing(loader[l], loader[m])'
    BY <1>4 DEF Providing
  <1> QED BY <1>5, <1>7, <1>8, <1>10, <1>11, <1>12 DEF IInv

\* An append: what was read before it goes on to hold, and is never found again.
LEMMA AppendStep == ASSUME IInv, NEW w \in Writers, Append(w) PROVE IInv'
  <1> DEFINE stage == IF w \in Local THEN [writer[w] EXCEPT !.at = "saved"] ELSE IdleWriter
             commit == writer[w].commit
  <1>1. /\ base.stamp \in Nat \ {0} /\ sidecar.stamp \in Nat /\ clock \in Nat
        /\ base.graph \in Graph /\ sidecar.records \in Graph
        /\ cache.print[1] \in Nat /\ cache.print[2] \in Nat
        /\ \A l \in Loaders : /\ loader[l].print[1] \in Nat /\ loader[l].print[2] \in Nat
                              /\ Reading(loader[l])
        /\ \A v \in Writers : writer[v] \in Save /\ Writing(v)
        /\ TypeOK /\ Files /\ Caching
    BY StoreFacts
  <1>2. /\ writer[w].at = "computed" /\ Tick /\ clock' = clock + 1 /\ Advance(w, stage)
        /\ sidecar'.stamp = clock + 1 /\ sidecar'.records = sidecar.records \union {commit}
        /\ base' = base /\ commits' = commits /\ cache' = cache /\ loader' = loader
        /\ exposed' = (exposed \/ Replacing)
    BY DEF Append, Tick, Replacing
  <1>3. commit \in 1 .. MaxCommits
    BY <1>1, <1>2, BoundAssumption DEF Writing, Save
  <1>4. /\ stage \in Save /\ stage.at # "replaced"
        /\ stage.at = "saved" => /\ w \in Local /\ stage.graph = writer[w].graph
                                 /\ stage.overtaken = writer[w].overtaken
        /\ stage.at = "saved" \/ stage.at = "idle"
    BY <1>1, IdleTyped DEF Save, IdleWriter
  <1> HIDE DEF stage
  <1>5. /\ writer'[w] = stage
        /\ \A v \in Writers \ {w} : /\ writer'[v].at = writer[v].at
                                    /\ writer'[v].commit = writer[v].commit
                                    /\ writer'[v].overtaken = (v \in Local /\ writer[v].at # "idle")
    BY <1>1, <1>2, <1>4, AdvanceFields
  <1>6. Replacing' <=> Replacing
    BY <1>2, <1>4, <1>5 DEF Replacing
  <1>7. TypeOK'
    <2>1. sidecar' \in [stamp : Stamp, records : Graph]
      <3>1. clock' \in Stamp
        BY <1>1, BoundAssumption DEF Append, Tick, Stamp
      <3>2. sidecar.records \union {commit} \in Graph
        BY <1>1, <1>3 DEF Graph
      <3> QED BY <3>1, <3>2 DEF Append
    <2>2. clock' \in Stamp
      BY <1>1, BoundAssumption DEF Append, Tick, Stamp
    <2>3. writer' \in [Writers -> Save]
      BY <1>1, <1>2, <1>4, AdvanceTyped
    <2>4. exposed' \in BOOLEAN
      BY <1>2 DEF Replacing
    <2> QED BY <1>1, <1>2, <2>1, <2>2, <2>3, <2>4 DEF TypeOK
  <1>8. ~exposed' => ~exposed /\ ~Replacing /\ ~Replacing'
    BY <1>2, <1>6
  <1>9. Files'
    BY <1>1, <1>2, <1>8 DEF Files
  <1>10. ~exposed' => Visible' = Visible \union {commit}
    BY <1>1, <1>2, <1>8 DEF Files, Visible
  <1>11. ASSUME NEW v \in Writers PROVE Writing(v)'
    <2>1. CASE v = w
      <3>1. /\ writer'[v] = stage /\ Writing(v) /\ writer[v].at = "computed"
        BY <1>1, <1>2, <1>5, <2>1
      <3>2. ~exposed' /\ stage.at = "saved" /\ ~stage.overtaken => stage.graph = Visible'
        BY <1>4, <1>8, <1>10, <2>1, <3>1 DEF Writing
      <3> QED BY <1>4, <2>1, <3>1, <3>2 DEF Writing
    <2>2. CASE v # w
      <3>1. Writing(v) /\ writer'[v].at = writer[v].at /\ writer'[v].commit = writer[v].commit
            /\ writer'[v].overtaken = (v \in Local /\ writer[v].at # "idle")
        BY <1>1, <1>5, <2>2
      <3>2. v \in Local /\ ~writer'[v].overtaken => writer'[v].at = "idle"
        BY <3>1
      <3> QED BY <3>1, <3>2 DEF Writing
    <2> QED BY <2>1, <2>2
  <1>12. ASSUME NEW print, Taken(print), print[1] \in Nat, print[2] \in Nat
         PROVE  Taken(print)' /\ print # Current'
    <2>1. print[1] <= base'.stamp /\ print[2] <= clock' /\ print[2] # sidecar'.stamp
      BY <1>1, <1>2, <1>12 DEF Taken
    <2>2. Taken(print)'
      BY <1>8, <2>1 DEF Taken
    <2>3. print # Current'
      BY <2>1 DEF Current
    <2> QED BY <2>2, <2>3
  <1>13. Caching'
    BY <1>1, <1>2, <1>12 DEF Caching, HitsAreCurrent, CurrentEntryIsCurrent
  <1>14. ASSUME NEW l \in Loaders PROVE Reading(loader[l])'
    <2>1. Reading(loader[l]) /\ loader'[l] = loader[l]
      BY <1>1, <1>2
    <2>2. loader[l].at # "stat" => Taken(loader[l].print)' /\ loader[l].print # Current'
      BY <1>1, <1>12, <2>1 DEF Reading
    <2>3. ~exposed' => ~exposed /\ Visible \subseteq Visible'
      BY <1>8, <1>10
    <2> QED BY <1>2, <2>1, <2>2, <2>3 DEF Reading
  <1>15. \A l, m \in Loaders : Providing(loader[l], loader[m])'
    BY <1>2, <1>8 DEF IInv, Providing
  <1> QED BY <1>7, <1>9, <1>11, <1>13, <1>14, <1>15 DEF IInv

\* The unlink: the sidecar that goes did not apply any more.
LEMMA UnlinkStep == ASSUME IInv, NEW w \in Writers, Unlink(w) PROVE IInv'
  <1> DEFINE keep == w \in Local /\ writer[w].commit # 0
             stage == IF keep THEN [writer[w] EXCEPT !.at = "saved"] ELSE IdleWriter
  <1>1. /\ base.stamp \in Nat \ {0} /\ sidecar.stamp \in Nat /\ clock \in Nat
        /\ \A l \in Loaders : Reading(loader[l])
        /\ \A v \in Writers : writer[v] \in Save /\ Writing(v)
        /\ TypeOK /\ Files /\ Caching
    BY StoreFacts
  <1>2. /\ writer[w].at = "replaced" /\ writer' = [writer EXCEPT ![w] = stage] /\ Disturb
        /\ sidecar'.stamp = 0 /\ sidecar'.records = {}
        /\ base' = base /\ clock' = clock /\ commits' = commits /\ cache' = cache
        /\ exposed' = exposed
    BY <1>1 DEF Unlink, TypeOK
  <1>3. /\ stage \in Save
        /\ stage.at = "saved" => /\ keep /\ stage.graph = writer[w].graph
                                 /\ stage.overtaken = writer[w].overtaken
        /\ stage.at = "saved" \/ stage.at = "idle"
    BY <1>1, IdleTyped DEF Save, IdleWriter
  <1> HIDE DEF stage
  <1>4. writer'[w] = stage /\ \A v \in Writers \ {w} : writer'[v] = writer[v]
    BY <1>1, <1>2 DEF TypeOK
  <1>5. /\ loader' \in [Loaders -> Read]
        /\ \A l \in Loaders : /\ loader'[l].owed = {} /\ loader'[l].at = loader[l].at
                              /\ loader'[l].print = loader[l].print
                              /\ loader'[l].graph = loader[l].graph
    BY <1>1, <1>2, DisturbFields
  <1>6. TypeOK'
    <2>1. sidecar' \in [stamp : Stamp, records : Graph]
      BY BoundAssumption DEF Unlink, Stamp, Graph
    <2>2. writer' \in [Writers -> Save]
      BY <1>1, <1>2, <1>3 DEF TypeOK
    <2> QED BY <1>1, <1>2, <1>5, <2>1, <2>2 DEF TypeOK
  <1>7. Replacing
    BY <1>2 DEF Replacing
  <1>8. Files'
    BY <1>1, <1>2 DEF Files
  <1>9. Visible' = base.graph /\ (~exposed => Visible = base.graph)
    BY <1>1, <1>2, <1>7 DEF Files, Visible
  <1>10. ASSUME NEW v \in Writers PROVE Writing(v)'
    <2>1. CASE v = w
      <3>1. writer'[v] = stage /\ Writing(v) /\ writer[v].at = "replaced"
        BY <1>1, <1>2, <1>4, <2>1
      <3>2. ~exposed' /\ stage.at = "saved" /\ ~stage.overtaken => stage.graph = Visible'
        BY <1>2, <1>3, <1>9, <2>1, <3>1 DEF Writing
      <3> QED BY <1>3, <2>1, <3>1, <3>2 DEF Writing
    <2>2. CASE v # w
      <3>1. Writing(v) /\ writer'[v] = writer[v]
        BY <1>1, <1>4, <2>2
      <3> QED BY <1>2, <1>9, <3>1 DEF Writing
    <2> QED BY <2>1, <2>2
  <1>11. ASSUME NEW print, Taken(print)
         PROVE  Taken(print)' /\ (~exposed /\ print = Current' => print = Current)
    BY <1>1, <1>2, <1>7, <1>11 DEF Taken, Current
  <1>12. Caching'
    BY <1>1, <1>2, <1>9, <1>11 DEF Caching, HitsAreCurrent, CurrentEntryIsCurrent
  <1>13. ASSUME NEW l \in Loaders PROVE Reading(loader[l])'
    <2>1. /\ Reading(loader[l]) /\ loader'[l].owed = {} /\ loader'[l].at = loader[l].at
          /\ loader'[l].print = loader[l].print /\ loader'[l].graph = loader[l].graph
      BY <1>1, <1>5
    <2>2. loader[l].at # "stat" =>
            Taken(loader[l].print)' /\ (~exposed /\ loader[l].print = Current' => loader[l].print = Current)
      BY <1>11, <2>1 DEF Reading
    <2>3. ~exposed => ~(sidecar.stamp > base.stamp)
      BY <1>1, <1>7 DEF Files
    <2> QED BY <1>1, <1>2, <1>9, <2>1, <2>2, <2>3 DEF Reading
  <1>14. \A l, m \in Loaders : Providing(loader[l], loader[m])'
    BY <1>5 DEF Providing
  <1> QED BY <1>6, <1>8, <1>10, <1>12, <1>13, <1>14 DEF IInv

\* The seed: the writer's graph is what the files hold, or the window is entered.
LEMMA RememberStep == ASSUME IInv, NEW w \in Writers, Remember(w) PROVE IInv'
  <1>1. /\ base.stamp \in Nat \ {0} /\ sidecar.stamp \in Nat /\ clock \in Nat
        /\ base.graph \in Graph /\ sidecar.records \in Graph /\ Visible \in Graph
        /\ \A l \in Loaders : Reading(loader[l])
        /\ \A v \in Writers : writer[v] \in Save /\ Writing(v)
        /\ TypeOK /\ Files /\ Caching
    BY StoreFacts
  <1>2. /\ writer[w].at = "saved" /\ writer' = [writer EXCEPT ![w] = IdleWriter]
        /\ cache'.print = Current /\ cache'.graph = writer[w].graph
        /\ exposed' = (exposed \/ writer[w].overtaken)
        /\ UNCHANGED <<base, sidecar, clock, commits, loader>>
    BY DEF Remember
  <1>3. writer'[w] = IdleWriter /\ \A v \in Writers \ {w} : writer'[v] = writer[v]
    BY <1>1, <1>2 DEF TypeOK
  <1>4. Replacing' <=> Replacing
    BY <1>2, <1>3 DEF Replacing, IdleWriter
  <1>5. TypeOK'
    <2>1. cache' \in [print : Fingerprint, graph : Graph]
      <3>1. Current \in Fingerprint
        BY <1>1 DEF Current, Fingerprint, TypeOK
      <3>2. writer[w].graph \in Graph
        BY <1>1 DEF Save
      <3> QED BY <3>1, <3>2 DEF Remember
    <2>2. writer' \in [Writers -> Save]
      BY <1>1, <1>2, IdleTyped DEF TypeOK
    <2>3. exposed' \in BOOLEAN
      BY <1>2
    <2> QED BY <1>1, <1>2, <2>1, <2>2, <2>3 DEF TypeOK
  <1>6. ~exposed' => ~exposed /\ cache'.graph = Visible /\ Visible' = Visible
    BY <1>1, <1>2 DEF Writing, Visible
  <1>7. Files'
    BY <1>1, <1>2, <1>4, <1>6 DEF Files
  <1>8. ASSUME NEW v \in Writers PROVE Writing(v)'
    <2>1. CASE v = w
      BY <1>3, <2>1 DEF Writing, IdleWriter
    <2>2. CASE v # w
      <3>1. Writing(v) /\ writer'[v] = writer[v]
        BY <1>1, <1>3, <2>2
      <3> QED BY <1>2, <1>6, <3>1 DEF Writing
    <2> QED BY <2>1, <2>2
  <1>9. ASSUME NEW print, Taken(print) PROVE Taken(print)'
    BY <1>2, <1>4, <1>6, <1>9 DEF Taken
  <1>10. Current' = Current /\ Taken(Current)
    BY <1>1, <1>2 DEF Current, Taken, Files
  <1>11. Caching'
    <2>1. Taken(cache.print)'
      BY <1>2, <1>4, <1>6, <1>10 DEF Taken
    <2>2. HitsAreCurrent'
      BY <1>6 DEF HitsAreCurrent, CurrentEntryIsCurrent
    <2> QED BY <2>1, <2>2 DEF Caching
  <1>12. ASSUME NEW l \in Loaders PROVE Reading(loader[l])'
    <2>1. Reading(loader[l]) /\ loader'[l] = loader[l]
      BY <1>1, <1>2
    <2>2. loader[l].at # "stat" => Taken(loader[l].print)'
      BY <1>9, <2>1 DEF Reading
    <2> QED BY <1>2, <1>6, <1>10, <2>1, <2>2 DEF Reading
  <1>13. \A l, m \in Loaders : Providing(loader[l], loader[m])'
    BY <1>2, <1>6 DEF IInv, Providing
  <1> QED BY <1>5, <1>7, <1>8, <1>11, <1>12, <1>13 DEF IInv

\* An entry that is dropped was under a fingerprint that no file has.
LEMMA ClearStep == ASSUME IInv, Clear PROVE IInv'
  <1>1. /\ base.stamp \in Nat \ {0} /\ sidecar.stamp \in Nat /\ clock \in Nat
        /\ \A l \in Loaders : Reading(loader[l])
        /\ TypeOK /\ Files
    BY StoreFacts
  <1>2. /\ UNCHANGED <<base, sidecar, clock, commits, writer, exposed, loader>>
        /\ cache' = [print |-> NoPrint, graph |-> {}]
        /\ cache'.print = NoPrint /\ cache'.graph = {}
    BY DEF Clear, World
  <1>3. NoPrint[1] = 0 /\ NoPrint[2] = 0 /\ Taken(NoPrint) /\ NoPrint # Current
    BY <1>1 DEF NoPrint, Taken, Current
  <1>4. TypeOK'
    BY <1>1, <1>2, IdleTyped DEF TypeOK, Graph
  <1>5. Files' /\ \A w \in Writers : Writing(w)'
    BY <1>2 DEF IInv, Files, Writing, Replacing, Visible
  <1>6. Caching'
    <2>1. Taken(cache.print)'
      BY <1>2, <1>3 DEF Taken, Replacing
    <2> QED BY <1>2, <1>3, <2>1 DEF Caching, HitsAreCurrent, CurrentEntryIsCurrent, Current
  <1>7. ASSUME NEW l \in Loaders PROVE Reading(loader[l])'
    <2>1. Reading(loader[l]) /\ loader'[l] = loader[l]
      BY <1>1, <1>2
    <2>2. ~exposed /\ loader[l].owed # {} /\ loader[l].at = "lookup" => loader[l].print # NoPrint
      BY <1>1, <1>3, <2>1 DEF Reading
    <2>3. Taken(loader[l].print) => Taken(loader[l].print)'
      BY <1>2, <2>1 DEF Taken, Replacing
    <2> QED BY <1>2, <2>1, <2>2, <2>3 DEF Reading, Visible, Current
  <1>8. \A l, m \in Loaders : Providing(loader[l], loader[m])'
    BY <1>2 DEF IInv, Providing
  <1> QED BY <1>4, <1>5, <1>6, <1>7, <1>8 DEF IInv

\* A writer's steps keep the invariant.
LEMMA WriteStep == ASSUME IInv, NEW w \in Writers, Write(w) PROVE IInv'
  <1>1. /\ Visible \in Graph /\ writer[w] \in Save /\ Writing(w) /\ TypeOK
        /\ commits \in 0 .. MaxCommits
    BY StoreFacts DEF TypeOK
  <1>2. CASE Compute(w)
    <2>1. PICK rescan \in BOOLEAN :
            writer' = [writer EXCEPT ![w].at = "computed", ![w].rescan = rescan,
                                     ![w].graph = Visible \union {commits'}, ![w].commit = commits']
      BY <1>2 DEF Compute
    <2> DEFINE graph == Visible \union {commits'}
               new == [writer[w] EXCEPT !.at = "computed", !.rescan = rescan,
                                        !.graph = graph, !.commit = commits']
    <2>2. /\ UNCHANGED <<base, sidecar, clock, cache, loader, exposed>>
          /\ commits' \in 0 .. MaxCommits /\ commits' # 0 /\ commits' \in 1 .. MaxCommits
          /\ writer[w].at = "idle"
      BY <1>1, <1>2, BoundAssumption DEF Compute
    <2>3. graph \in Graph
      BY <1>1, <2>2 DEF Graph
    <2>4. /\ new \in Save /\ new.at = "computed" /\ new.graph = graph /\ new.commit = commits'
          /\ new.overtaken = writer[w].overtaken
      BY <1>1, <2>2, <2>3 DEF Save
    <2>5. writer' = [writer EXCEPT ![w] = new]
      BY <1>1, <2>1 DEF TypeOK
    <2> HIDE DEF new
    <2>6. writer'[w] = new /\ Visible' = Visible
      BY <1>1, <2>2, <2>5 DEF TypeOK, Visible
    <2>7. Writing(w)'
      BY <2>2, <2>4, <2>6 DEF Writing
    <2> QED BY <2>2, <2>4, <2>5, <2>7, ComputeStep
  <1>3. CASE FindNothing(w)
    <2> DEFINE new == [writer[w] EXCEPT !.at = "saved", !.graph = Visible]
    <2>1. /\ writer' = [writer EXCEPT ![w] = new] /\ w \in Local
          /\ UNCHANGED <<base, sidecar, clock, commits, cache, loader, exposed>>
          /\ writer[w].at = "idle"
      BY <1>1, <1>3 DEF FindNothing, TypeOK
    <2>2. new \in Save /\ new.at = "saved" /\ new.graph = Visible
      BY <1>1 DEF Save
    <2> HIDE DEF new
    <2>3. writer'[w] = new /\ Visible' = Visible
      BY <1>1, <2>1 DEF TypeOK, Visible
    <2>4. Writing(w)'
      BY <2>1, <2>2, <2>3 DEF Writing
    <2>5. commits' \in 0 .. MaxCommits
      BY <1>1, <2>1
    <2> QED BY <2>1, <2>2, <2>4, <2>5, ComputeStep
  <1>4. CASE Append(w)
    BY <1>4, AppendStep
  <1>5. CASE Replace(w)
    <2> DEFINE stage == [writer[w] EXCEPT !.at = "replaced"]
    <2>1. /\ Tick /\ base' = [stamp |-> clock', graph |-> writer[w].graph] /\ Advance(w, stage)
          /\ Disturb /\ UNCHANGED <<sidecar, commits, cache, exposed>>
      BY <1>5 DEF Replace
    <2>2. /\ stage \in Save /\ stage.at = "replaced" /\ stage.graph = writer[w].graph
          /\ writer[w].graph \in Graph
      BY <1>1 DEF Save
    <2> HIDE DEF stage
    <2> QED BY <2>1, <2>2, RewriteStep
  <1>6. CASE Compact(w)
    <2> DEFINE stage == [IdleWriter EXCEPT !.at = "replaced"]
    <2>1. /\ Tick /\ base' = [stamp |-> clock', graph |-> Visible] /\ Advance(w, stage)
          /\ Disturb /\ UNCHANGED <<sidecar, commits, cache, exposed>>
      BY <1>6 DEF Compact
    <2>2. stage \in Save /\ stage.at = "replaced" /\ stage.commit = 0
      BY IdleTyped DEF Save, IdleWriter
    <2> HIDE DEF stage
    <2> QED BY <1>1, <2>1, <2>2, RewriteStep
  <1>7. CASE Unlink(w)
    BY <1>7, UnlinkStep
  <1>8. CASE Remember(w)
    BY <1>8, RememberStep
  <1> QED BY <1>2, <1>3, <1>4, <1>5, <1>6, <1>7, <1>8 DEF Write

-----------------------------------------------------------------------------
LEMMA InvariantStep == IInv /\ [Next]_vars => IInv'
  <1> SUFFICES ASSUME IInv, [Next]_vars PROVE IInv' OBVIOUS
  <1>1. ASSUME NEW w \in Writers, Write(w) PROVE IInv'
    BY <1>1, WriteStep
  <1>2. ASSUME NEW l \in Loaders, Load(l) PROVE IInv'
    BY <1>2, LoadStep
  <1>3. CASE Clear
    BY <1>3, ClearStep
  <1>4. CASE UNCHANGED vars
    <2>1. TypeOK' /\ Files' /\ Caching' /\ \A w \in Writers : Writing(w)'
      BY <1>4 DEF vars, IInv, TypeOK, Files, Caching, Writing, Replacing, Taken, Visible, Current,
                  HitsAreCurrent, CurrentEntryIsCurrent
    <2>2. \A l \in Loaders : Reading(loader[l])'
      BY <1>4 DEF vars, IInv, Reading, Taken, Replacing, Visible, Current
    <2>3. \A l, m \in Loaders : Providing(loader[l], loader[m])'
      BY <1>4 DEF vars, IInv, Providing
    <2> QED BY <2>1, <2>2, <2>3 DEF IInv
  <1> QED BY <1>1, <1>2, <1>3, <1>4 DEF Next

\* The invariant holds in every behaviour of the cache, its loaders and its writers.
THEOREM Invariant == Spec => []IInv
  BY InvariantInit, InvariantStep, PTL DEF Spec

\* Whatever loaders and writers do, stamps, graphs, fingerprints and every stage
\* of load_any and of the saves keep their types.
THEOREM TypeCorrect == Spec => []TypeOK
  <1>1. IInv => TypeOK
    BY DEF IInv
  <1> QED BY <1>1, Invariant, PTL

\* Outside the two windows an entry of _GRAPH_LOAD_CACHE under the current
\* fingerprint is the graph of the files, whoever put it there.
THEOREM HitsAreCurrentHolds == Spec => []HitsAreCurrent
  BY InvariantImplies, Invariant, PTL

\* Outside them a load_any that no rewrite overlaps returns every commit that was
\* visible when it asked for the base's stat.
THEOREM LoadKeepsCommitsHolds == Spec => []LoadKeepsCommits
  BY InvariantImplies, Invariant, PTL
=============================================================================
